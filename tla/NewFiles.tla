------------------------------ MODULE NewFiles ------------------------------
(***************************************************************************)
(* newfiles.c, run as newfiles or as changedfiles: what the dump of a day  *)
(* has that the last dump before it had not, or had with another inode.    *)
(* setBkupDir() goes back from the day asked for, 24 hours at a time, to a *)
(* day that has a directory; makeJournalTree() reads the journal in that   *)
(* dump; dirwalk() gives showFile() each file of the asked day's dump.     *)
(*                                                                         *)
(* Time is counted in units, Hours24 of them in an ordinary day and more   *)
(* or less in a day of a clock change; before unit 1 is time zero.  Nobody *)
(* writes the dumps while the program runs.                                *)
(***************************************************************************)
EXTENDS JournalFile

CONSTANTS Files,       \* paths below the source, sequences of symbols
          JPath,       \* the path of the journal, which is dumped too
          NotRegular,  \* the files that are symbolic links
          StampOf,     \* StampOf[p]: the stamps of p when it was last dumped
          WalkOrder,   \* the order readdir() gives all of them in
          DayOf,       \* localtime_r(): the day of each unit; the last is the day asked for
          Hours24,     \* units of an ordinary day
          MaxFiles     \* bound: files below the source

UnitsOf(d) == {u \in DOMAIN DayOf : DayOf[u] = d}
Paths == Files \cup {JPath}
Asked == DayOf[Len(DayOf)]
Day == 1..Asked
Kind == {"none",     \* no directory for the day
         "other",    \* a directory, with dumps of other sources only
         "whole",    \* a dump whose journal was copied
         "cut",      \* tar died in the middle of the journal
         "unsaved"}  \* tar died before the journal

ASSUME NewFilesAssumption ==
    /\ JPath \notin Files /\ NotRegular \subseteq Files
    /\ \A p \in Paths : p \in Seq(STRING) /\ p # <<>> /\ p[1] = "/"
    /\ StampOf \in [Paths -> Times \X Times]
    /\ WalkOrder \in Seq(Paths) /\ ToSet(WalkOrder) = Paths /\ Len(WalkOrder) = Cardinality(Paths)
    /\ DayOf \in Seq(Nat \ {0}) /\ DayOf # <<>>
    /\ \A u, v \in DOMAIN DayOf : u <= v => DayOf[u] <= DayOf[v]
    /\ Hours24 \in Nat \ {0} /\ MaxFiles \in Nat

VARIABLES
    \* the disk, which no step writes
    dir,      \* dir[d]: the kind of dump day d has
    ino,      \* ino[d][p]: inode of p in the dump of day d, 0: not there
    listed,   \* listed[d]: paths in the journal of day d, tar copied them or not
    text,     \* text[d]: the journal in the dump of day d
    \* the program
    prog,     \* "newfiles" or "changedfiles": info.host is NULL or not
    t,        \* the time_t of setBkupDir()
    pc,
    last,     \* the day of info.lbdir, 0 until it is found
    jt,       \* info.jt
    todo,     \* files dirwalk() has yet to give to showFile()
    printed

disk == <<dir, ino, listed, text>>
vars == <<disk, prog, t, pc, last, jt, todo, printed>>

InWalk(S) == LET given[n \in 0..Len(WalkOrder)] ==
                     IF n = 0 THEN <<>>
                     ELSE IF WalkOrder[n] \in S THEN Append(given[n - 1], WalkOrder[n])
                     ELSE given[n - 1]
             IN given[Len(WalkOrder)]
Entry(p) == [path |-> p, ctime |-> StampOf[p][1], mtime |-> StampOf[p][2]]
Lines(S) == LET paths == InWalk(S) IN TextOf([i \in DOMAIN paths |-> Entry(paths[i])])

\* The last dump of the source was made on day l (0: there is none) of the files
\* S, with the lines inLast; on the asked day each file was dropped, linked or
\* copied.
DiskLeft(S, l, inLast, now) ==
    /\ dir \in {k \in [Day -> Kind] :
                  /\ \A d \in 1..(l - 1) : k[d] = "none"
                  /\ \A d \in (l + 1)..(Asked - 1) : k[d] \in {"none", "other"}
                  /\ l # 0 => k[l] \in {"whole", "cut", "unsaved"}
                  /\ k[Asked] \in {"none", "whole"}}
    /\ listed = [d \in Day |->
           CASE d = l -> inLast \cup {JPath}
             [] d = Asked /\ dir[d] = "whole" -> {f \in S : now[f] # "dropped"} \cup {JPath}
             [] OTHER -> {}]
    /\ \E k \in IF l # 0 /\ dir[l] = "cut" THEN 0..(Len(Lines(listed[l])) - 1) ELSE {0} :
         text = [d \in Day |-> CASE dir[d] = "whole" -> Lines(listed[d])
                                 [] dir[d] = "cut" -> SubSeq(Lines(listed[d]), 1, k)
                                 [] OTHER -> <<>>]
    /\ \E copied \in SUBSET inLast :
         /\ \A f \in S : now[f] = "linked" => f \in copied
         /\ ino = [d \in Day |-> [p \in Paths |->
                CASE d = l /\ p = JPath /\ dir[d] # "unsaved" -> d
                  [] d = l /\ p \in copied -> d
                  [] d = Asked /\ p \in listed[d] -> IF p \in S /\ now[p] = "linked" THEN l ELSE d
                  [] OTHER -> 0]]

Init ==
    /\ \E S \in UNION {kSubset(n, Files) : n \in 0..MaxFiles}, l \in 0..(Asked - 1) :
       \E inLast \in IF l = 0 THEN {{}} ELSE SUBSET S,
          now \in [S -> {"dropped", "linked", "copied"}] : DiskLeft(S, l, inLast, now)
    /\ prog \in {"newfiles", "changedfiles"}
    /\ t \in UnitsOf(Asked)       \* mktime(): the first; time(): any
    /\ pc = "set" /\ last = 0 /\ jt = <<>> /\ todo = <<>> /\ printed = {}

\* stat() of dest/yyyy/mm/dd/src: there must be a dump of the asked day.
SetBkupDir == /\ pc = "set"
              /\ pc' = IF dir[DayOf[t]] \in {"none", "other"} THEN "nodump" ELSE "back"
              /\ UNCHANGED <<disk, prog, t, last, jt, todo, printed>>

\* The do-while loop of setBkupDir(): any directory of the day ends it.
HasDir(d) == dir[d] # "none"
TwoDaysBefore == t - 2 * Hours24       \* mutant: the step is taken twice
OneDayBefore == t - Hours24

Back == /\ pc = "back"
        /\ t' = OneDayBefore
        /\ CASE t' <= 0 -> pc' = "first" /\ UNCHANGED last
             [] t' > 0 /\ HasDir(DayOf[t']) -> pc' = "load" /\ last' = DayOf[t']
             [] OTHER -> UNCHANGED <<pc, last>>
        /\ UNCHANGED <<disk, prog, jt, todo, printed>>

\* fopen() of the journal, and makeJournalTree(); dirwalk() of the asked day.
WalkLast == {p \in Paths : ino[last][p] # 0}       \* mutant: bdir and lbdir are swapped
ToWalk == {p \in Paths : ino[Asked][p] # 0}

Load == /\ pc = "load"
        /\ IF dir[last] \in {"whole", "cut"} /\ Readable(text[last])
           THEN /\ jt' = JournalTree(text[last])
                /\ pc' = "walk"
                /\ todo' = InWalk(ToWalk)
           ELSE pc' = "nojournal" /\ UNCHANGED <<jt, todo>>
        /\ UNCHANGED <<disk, prog, t, last, printed>>

\* showFile(), without and with info.host.
IsNew(p) == p \notin DOMAIN jt
IsChangedNoLstat(p) == p \in DOMAIN jt /\ p \notin NotRegular /\ ino[last][p] # ino[Asked][p]       \* mutant
IsChanged(p) == /\ p \in DOMAIN jt
                /\ ino[last][p] # 0
                /\ p \notin NotRegular
                /\ ino[last][p] # ino[Asked][p]

\* path = lbpath + info->lblen
WithoutSlash(p) == Tail(p)       \* mutant: one symbol further
PathIn(p) == p
ShowFile == /\ pc = "walk"
            /\ todo # <<>>
            /\ LET p == PathIn(Head(todo)) IN
                 printed' = IF IF prog = "newfiles" THEN IsNew(p) ELSE IsChanged(p)
                            THEN printed \cup {p} ELSE printed
            /\ todo' = Tail(todo)
            /\ UNCHANGED <<disk, prog, t, pc, last, jt>>

WalkEnds == /\ pc = "walk"
            /\ todo = <<>>
            /\ pc' = "done"
            /\ UNCHANGED <<disk, prog, t, last, jt, todo, printed>>

Next == SetBkupDir \/ Back \/ Load \/ ShowFile \/ WalkEnds
Spec == Init /\ [][Next]_vars

----------------------------------------------------------------------------
\* Properties.

\* Every variable has its type.
TypeOK == /\ dir \in [Day -> Kind]
          /\ ino \in [Day -> [Paths -> 0..Asked]]
          /\ listed \in [Day -> SUBSET Paths]
          /\ prog \in {"newfiles", "changedfiles"}
          /\ t \in Int /\ t <= Len(DayOf)
          /\ pc \in {"set", "back", "load", "walk", "done", "nodump", "first", "nojournal"}
          /\ last \in 0..Asked
          /\ \A p \in DOMAIN jt : jt[p].path = p
          /\ ToSet(todo) \subseteq Paths
          /\ printed \subseteq Paths

Earlier == {d \in 1..(Asked - 1) : dir[d] # "none"}
ShortDay(d) == Cardinality(UnitsOf(d)) < Hours24
LongDay(d) == Cardinality(UnitsOf(d)) > Hours24

\* setBkupDir() compares the asked day with the last day before it that has a
\* directory, and finds none only when there is none; but it may pass over a day
\* of 23 hours, and late on a day of 25 hours takes that day itself.
LastDayFound ==
    /\ last # 0 => \/ last = Asked /\ LongDay(Asked)
                   \/ last \in Earlier /\ \A d \in Earlier : d > last => ShortDay(d)
    /\ pc = "first" => \A d \in Earlier : ShortDay(d)

\* The inductive invariant of the proofs: while it searches, setBkupDir() has only
\* short days behind it that have a directory.
SearchInv ==
    /\ dir \in [Day -> Kind]
    /\ t \in Int /\ t <= Len(DayOf)
    /\ pc \in {"set", "back"} => t > 0 /\ last = 0
    /\ pc = "set" => DayOf[t] = Asked
    /\ pc = "back" => \A d \in Earlier : d >= DayOf[t] => ShortDay(d)
    /\ pc \in {"load", "walk", "done", "nojournal"} => last # 0
    /\ LastDayFound

HasNewline(p) == NL \in ToSet(p)

\* No path has a newline with what reads as a line for another path after it.  A
\* file with such a path has a line in the journal that its name made up, and
\* what is read back from it was never written.
NoFalseLines ==
    \A p \in Paths : \A a \in 1..Len(p) : \A b \in a..Len(p) :
        p[a] = NL => ReadLine(SubSeq(p, a + 1, b)).path \notin Paths

\* A journal read back decides as what was written in it would: whatever stamps
\* lstat() gives, a path is found unchanged only if it was written with them, and
\* every path that was written is, but with a time before 1970.  Of a text that
\* was cut, or has a path with a newline, the entries not written are beginnings
\* of paths that were.
ReadBack ==
    pc \in {"walk", "done"} =>
        LET written == listed[last]
            plain == dir[last] = "whole" /\ \A p \in written : ~HasNewline(p)
        IN /\ \A p \in Paths, c, m \in Times :
                Unchanged(jt, [path |-> p, ctime |-> c, mtime |-> m]) =>
                    \E q \in written : /\ StampOf[q] = <<c, m>>
                                       /\ IF plain THEN p = q ELSE IsPrefix(p, q)
           /\ plain => \A p \in written :
                Unchanged(jt, Entry(p)) <=> "neg" \notin ToSet(StampOf[p])

FirstDumped == {p \in Paths : ino[Asked][p] # 0 /\ ino[last][p] = 0}
DumpedAgain == {p \in Paths : ino[last][p] # 0 /\ ino[Asked][p] \notin {0, ino[last][p]}}
Missed == {p \in listed[last] : ino[last][p] = 0}

\* After a last dump whose journal is whole and has no path with a newline,
\* newfiles lists the files that dump has not, but those tar had missed then,
\* and changedfiles the regular files it has with another inode.
ReportRight ==
    (pc = "done" /\ dir[last] = "whole" /\ \A p \in listed[last] : ~HasNewline(p)) =>
        printed = IF prog = "newfiles" THEN FirstDumped \ Missed ELSE DumpedAgain \ NotRegular

\* Whatever became of the last journal, newfiles leaves a new file out only if
\* the journal has it or a path it is the beginning of.
HiddenByPrefix ==
    (pc = "done" /\ prog = "newfiles") =>
        \A p \in FirstDumped \ printed : \E q \in listed[last] : IsPrefix(p, q)

\* changedfiles lists no file that is a link to the last dump's, and leaves out a
\* changed one only if its line is not whole in the journal.
ChangeHidden ==
    (pc = "done" /\ prog = "changedfiles") =>
        /\ printed \subseteq DumpedAgain
        /\ \A p \in (DumpedAgain \ NotRegular) \ printed : dir[last] = "cut" \/ HasNewline(p)
=============================================================================
