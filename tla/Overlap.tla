------------------------------- MODULE Overlap -------------------------------
(***************************************************************************)
(* Several local runs of backupfs for one source at the same time: the     *)
(* daily one lasts past the next, or an operator starts one by hand.       *)
(* Nothing locks the source, the journal or the dump.  The runs meet in    *)
(* three places: the name src/.backupfs-journal, which each moves aside,   *)
(* removes and creates while the other may have the same inode open; the   *)
(* directories of the day, which only one of them can make; and the links  *)
(* and copies of the dump.                                                 *)
(*                                                                         *)
(* LocalBackup has the run in detail, alone and with every fault.  Here    *)
(* no call fails but for what another run did, a visited file gets its     *)
(* link or its place in tar's list and its journal line in one step, and   *)
(* tar copies a file in one step.  Users change files and remove none.     *)
(* The version of a file is its stamp.                                     *)
(***************************************************************************)
EXTENDS Integers, FiniteSets

CONSTANTS Runs,      \* the runs, each started once
          Files, Dirs, Root, Journal,
          Parent,    \* the directory of each file and directory
          Before,    \* the run that was over before these
          MaxDay,    \* bound: last day; day 1 is that of the run before
          MaxVer     \* bound: versions of a file

Paths == Files \cup {Journal}
Nodes == Files \cup Dirs

ASSUME OverlapAssumption ==
    /\ Root \notin Nodes /\ Journal \notin Nodes /\ Files \cap Dirs = {}
    /\ Parent \in [Nodes -> Dirs \cup {Root}]
    /\ Before \notin Runs
    /\ MaxDay \in Nat /\ MaxDay >= 2 /\ MaxVer \in Nat \ {0}

\* Below the source is a tree: from it every directory is reached.
ASSUME ReachAssumption ==
    \A S \in SUBSET (Dirs \cup {Root}) :
        Root \in S /\ (\A d \in Dirs : Parent[d] \in S => d \in S) => S = Dirs \cup {Root}

\* The inodes a journal may have: what fopen() made in a run, and what copyFile()
\* made when /tmp is another file system.
Inode == (Runs \cup {Before}) \X {"new", "copy"}
NoInode == <<Before, "copy">>
New(r) == <<r, "new">>
Copy(r) == <<r, "copy">>

VARIABLES
    now,     \* the day
    ver,     \* ver[f]: version of the source file
    name,    \* the inode src/.backupfs-journal leads to, or NoInode
    text,    \* text[i]: the lines of a journal, buffered ones included; 0: none
    mtime,   \* mtime[i]: day of its last write, of its creation while it is open
    dump,    \* dump[d][f]: what the dump of day d has of f, 0: nothing
    made,    \* made[d]: the directories of that dump
    run      \* run[r]: the process

vars == <<now, ver, name, text, mtime, dump, made, run>>

Day == 1..MaxDay
Idle == [pc |-> "idle", day |-> 1, old |-> NoInode, type |-> "none",
         tree |-> [p \in Paths |-> 0], out |-> NoInode, todo |-> {}, list |-> {},
         rst |-> TRUE, began |-> [f \in Files |-> 0]]
NoLines == [p \in Paths |-> 0]

\* The run before was complete, or there was none.
Init ==
    /\ now = 2
    /\ ver = [f \in Files |-> 1]
    /\ run = [r \in Runs |-> Idle]
    /\ mtime = [i \in Inode |-> 1]
    /\ \/ /\ name = New(Before)
          /\ text = [i \in Inode |-> IF i = name THEN [p \in Paths |-> 1] ELSE NoLines]
          /\ dump = [d \in Day |-> [f \in Files |-> IF d = 1 THEN 1 ELSE 0]]
          /\ made = [d \in Day |-> IF d = 1 THEN Dirs \cup {Root} ELSE {}]
       \/ /\ name = NoInode
          /\ text = [i \in Inode |-> NoLines]
          /\ dump = [d \in Day |-> [f \in Files |-> 0]]
          /\ made = [d \in Day |-> {}]

Tick == /\ now < MaxDay
        /\ now' = now + 1
        /\ UNCHANGED <<ver, name, text, mtime, dump, made, run>>

Edit(f) == /\ ver[f] < MaxVer
           /\ ver' = [ver EXCEPT ![f] = @ + 1]
           /\ UNCHANGED <<now, name, text, mtime, dump, made, run>>

----------------------------------------------------------------------------
\* What a process sees of a journal that others have open.

Open(i) == \E q \in Runs : run[q].out = i /\ run[q].pc = "walk"
Shared(i) == \E q, r \in Runs : q # r /\ run[q].out = i /\ run[r].out = i

Subsets(lines) == {[p \in Paths |-> IF p \in kept THEN lines[p] ELSE 0] :
                      kept \in SUBSET {p \in Paths : lines[p] # 0}}

\* Lines that are still in the buffer of its writer are not in the file.
Visible(i) == IF Open(i) THEN Subsets(text[i]) ELSE {text[i]}

\* Two streams on one inode write over each other's lines.
Merged(i, lines) == IF Shared(i) THEN Subsets(lines) ELSE {lines}

At(r, l) == run[r].pc = l
Goto(r, l) == run' = [run EXCEPT ![r].pc = l]

----------------------------------------------------------------------------
\* chkDest() and chkSource().

ChkDest(r) == /\ At(r, "idle")
              /\ made' = [made EXCEPT ![now] = @ \cup {Root}]
              /\ run' = [run EXCEPT ![r].pc = "source", ![r].day = now, ![r].began = ver]
              /\ UNCHANGED <<now, ver, name, text, mtime, dump>>

\* stat() of the journal.
StatJournal(r) ==
    /\ At(r, "source")
    /\ run' = [run EXCEPT ![r].pc = IF name = NoInode THEN "open" ELSE "move",
                          ![r].type = IF name = NoInode THEN "firstTime" ELSE @]
    /\ UNCHANGED <<now, ver, name, text, mtime, dump, made>>

\* moveFile(journal, oldJournal): link() or copyFile(), and then unlink().
LinkAside(r) == /\ At(r, "move")
                /\ name # NoInode
                /\ run' = [run EXCEPT ![r].pc = "unlink", ![r].old = name]
                /\ UNCHANGED <<now, ver, name, text, mtime, dump, made>>

CopyAside(r) == /\ At(r, "move")
                /\ name # NoInode
                /\ \E lines \in Visible(name) : text' = [text EXCEPT ![Copy(r)] = lines]
                /\ mtime' = [mtime EXCEPT ![Copy(r)] = now]
                /\ run' = [run EXCEPT ![r].pc = "unlink", ![r].old = Copy(r)]
                /\ UNCHANGED <<now, ver, name, dump, made>>

\* The other run has moved it since.
NothingToMove(r) == /\ At(r, "move")
                    /\ name = NoInode
                    /\ Goto(r, "gaveUp")
                    /\ UNCHANGED <<now, ver, name, text, mtime, dump, made>>

\* unlink(from): whatever has the name now; a failure is only logged.
UnlinkJournal(r) == /\ At(r, "unlink")
                    /\ name' = NoInode
                    /\ Goto(r, "load")
                    /\ UNCHANGED <<now, ver, text, mtime, dump, made>>

\* makeJournalTree(), getLastBkupDir() and lastBkupDirFromTime(): a first backup
\* if the journal has no line of its own, or its day no directory.
LoadJournal(r) ==
    /\ At(r, "load")
    /\ \E lines \in Visible(run[r].old) :
         run' = [run EXCEPT
                   ![r].tree = lines,
                   ![r].type = IF lines[Journal] # 0 /\ made[lines[Journal]] # {}
                               THEN "recurrent" ELSE "firstTime",
                   ![r].pc = IF lines[Journal] = run[r].day THEN "restore" ELSE "open"]
    /\ UNCHANGED <<now, ver, name, text, mtime, dump, made>>

\* moveFile(oldJpath, jpath) of the refusal: stat(to) and unlink(to) of what has the name,
\* in one step (of two runs, the one whose journal this one has moved aside is past making
\* another, and the name is free), ...
Restore(r) == /\ At(r, "restore")
              /\ name' = NoInode
              /\ Goto(r, "relink")
              /\ UNCHANGED <<now, ver, text, mtime, dump, made>>

\* ... and then link(from, to), or copyFile() in its place, if nothing has the name
\* again by then.
RelinkNever(r) == /\ At(r, "relink")       \* mutant: the refusal forgets the journal
                  /\ Goto(r, "refused")
                  /\ UNCHANGED <<now, ver, name, text, mtime, dump, made>>

Relink(r) == /\ At(r, "relink")
             /\ name' = IF name = NoInode THEN run[r].old ELSE name
             /\ Goto(r, "refused")
             /\ UNCHANGED <<now, ver, text, mtime, dump, made>>

----------------------------------------------------------------------------
\* openFilesLocal() and dirwalk().

EntriesAndDot(d) == {n \in Nodes : Parent[n] = d} \cup {d}       \* mutant: "." is not passed over
Entries(d) == {n \in Nodes : Parent[n] = d} \cup (IF d = Root THEN {Journal} ELSE {})

\* fopen(jpath, "w") creates the journal, or empties the one another run has just
\* created; what that run has in its buffer is written all the same.
OpenFiles(r) ==
    /\ At(r, "open")
    /\ LET i == IF name = NoInode THEN New(r) ELSE name IN
         /\ name' = i
         /\ run' = [run EXCEPT ![r].pc = "walk", ![r].out = i, ![r].todo = Entries(Root)]
         /\ \E lines \in IF Open(i) THEN Subsets(text[i]) ELSE {NoLines} :
              text' = [text EXCEPT ![i] = lines]
         /\ mtime' = [mtime EXCEPT ![i] = now]
    /\ UNCHANGED <<now, ver, dump, made>>

\* newDirectory(): only one of the runs of a day can make a directory, and only
\* that one goes in.
EnterDir(r, d) ==
    /\ At(r, "walk")
    /\ d \in run[r].todo \cap Dirs
    /\ LET fresh == d \notin made[run[r].day] IN
         run' = [run EXCEPT ![r].todo = (@ \ {d}) \cup (IF fresh THEN Entries(d) ELSE {})]
    /\ made' = [made EXCEPT ![run[r].day] = @ \cup {d}]
    /\ UNCHANGED <<now, ver, name, text, mtime, dump>>

Known(r, f) == run[r].type = "recurrent" /\ run[r].tree[f] # 0       \* mutant: any stamp will do
Unchanged(r, f) == run[r].type = "recurrent" /\ run[r].tree[f] = ver[f]

\* link() finds its source, and nothing at its destination.
LastDay(r) == run[r].tree[Journal]
AnyLink(r, f) == TRUE       \* mutant: a failed link is not made good
Linkable(r, f) == dump[LastDay(r)][f] # 0 /\ dump[run[r].day][f] = 0

WriteLine(r, p, stamp) ==
    LET i == run[r].out IN
    \E lines \in Merged(i, [text[i] EXCEPT ![p] = stamp]) : text' = [text EXCEPT ![i] = lines]

\* firstTimeBackup() and recurrentBackup() for a file.
Visit(r, f) ==
    /\ At(r, "walk")
    /\ f \in run[r].todo \cap Files
    /\ IF Unchanged(r, f) /\ Linkable(r, f)
       THEN /\ dump' = [dump EXCEPT ![run[r].day][f] = dump[LastDay(r)][f]]
            /\ run' = [run EXCEPT ![r].todo = @ \ {f}]
       ELSE /\ run' = [run EXCEPT ![r].todo = @ \ {f}, ![r].list = @ \cup {f}]
            /\ UNCHANGED dump
    /\ WriteLine(r, f, ver[f])
    /\ UNCHANGED <<now, ver, name, mtime, made>>

\* The journal is an entry of the source: whichever has the name then.  With the stamp
\* of its line in the last one it may be linked, otherwise it is for tar to copy.
VisitJournal(r) ==
    /\ At(r, "walk")
    /\ Journal \in run[r].todo
    /\ IF name = NoInode
       THEN /\ run' = [run EXCEPT ![r].todo = @ \ {Journal}]        \* lstat() fails
            /\ UNCHANGED text
       ELSE \E t \in mtime[name]..(IF Open(name) THEN now ELSE mtime[name]) :
              /\ \E l \in {{Journal}} \cup (IF run[r].tree[Journal] = t THEN {{}} ELSE {}) :
                   run' = [run EXCEPT ![r].todo = @ \ {Journal}, ![r].list = @ \cup l]
              /\ WriteLine(r, Journal, t)
    /\ UNCHANGED <<now, ver, name, mtime, dump, made>>

\* closeFiles().
CloseFiles(r) ==
    /\ At(r, "walk")
    /\ run[r].todo = {}
    /\ Goto(r, "tar")
    /\ \E t \in mtime[run[r].out]..now : mtime' = [mtime EXCEPT ![run[r].out] = t]
    /\ UNCHANGED <<now, ver, name, text, dump, made>>

\* runCommands(): tar replaces what the dump has.
TarCopy(r, f) ==
    /\ At(r, "tar")
    /\ f \in run[r].list \cap Files
    /\ dump' = [dump EXCEPT ![run[r].day][f] = ver[f]]
    /\ run' = [run EXCEPT ![r].list = @ \ {f}]
    /\ UNCHANGED <<now, ver, name, text, mtime, made>>

\* tar copies the journal, too.  It fails if another run has moved it, and may if one
\* moves or writes it meanwhile ("file changed as we read it").
Alone(r) == \A q \in Runs \ {r} : run[q].pc \in {"idle", "ok", "fail", "refused", "gaveUp"}
TarJournal(r) ==
    /\ At(r, "tar")
    /\ Journal \in run[r].list
    /\ \E copied \in {name # NoInode} \cup (IF Alone(r) THEN {} ELSE {FALSE}) :
         run' = [run EXCEPT ![r].list = @ \ {Journal}, ![r].rst = copied]
    /\ UNCHANGED <<now, ver, name, text, mtime, dump, made>>

\* The end of main().  A first backup that failed removes the journal: whichever has
\* the name.
Finish(r) == /\ At(r, "tar")
             /\ run[r].list = {}
             /\ Goto(r, IF run[r].rst THEN "ok" ELSE "fail")
             /\ name' = IF run[r].type = "firstTime" /\ ~run[r].rst THEN NoInode ELSE name
             /\ UNCHANGED <<now, ver, text, mtime, dump, made>>

RunStep(r) == \/ ChkDest(r) \/ StatJournal(r)
              \/ LinkAside(r) \/ CopyAside(r) \/ NothingToMove(r) \/ UnlinkJournal(r)
              \/ LoadJournal(r) \/ Restore(r) \/ Relink(r)
              \/ OpenFiles(r) \/ VisitJournal(r) \/ CloseFiles(r) \/ TarJournal(r) \/ Finish(r)
              \/ \E d \in Dirs : EnterDir(r, d)
              \/ \E f \in Files : Visit(r, f) \/ TarCopy(r, f)

Next == Tick \/ (\E f \in Files : Edit(f)) \/ (\E r \in Runs : RunStep(r))
Spec == Init /\ [][Next]_vars

----------------------------------------------------------------------------
\* Properties.

PC == {"idle", "source", "move", "unlink", "load", "restore", "relink", "open",
       "walk", "tar", "ok", "fail", "refused", "gaveUp"}

\* The lines of a journal: versions, and the day for its own.
Lines == {l \in [Paths -> Nat] : l[Journal] \in 0..MaxDay}
Process == [pc : PC, day : Day, old : Inode, type : {"none", "firstTime", "recurrent"},
            tree : Lines, out : Inode, todo : SUBSET (Nodes \cup {Journal}), list : SUBSET Paths,
            rst : BOOLEAN, began : [Files -> 0..MaxVer]]

\* Every variable has its type, and a run links from a day.
TypeOK == /\ now \in Day
          /\ ver \in [Files -> 1..MaxVer]
          /\ name \in Inode
          /\ text \in [Inode -> Lines]
          /\ mtime \in [Inode -> Day]
          /\ dump \in [Day -> [Files -> 0..MaxVer]]
          /\ made \in [Day -> SUBSET (Dirs \cup {Root})]
          /\ run \in [Runs -> Process]
          /\ \A r \in Runs : run[r].type = "recurrent" => run[r].tree[Journal] # 0

Over == \A r \in Runs : run[r].pc \in {"idle", "ok", "fail", "refused", "gaveUp"}

Writers == {q \in Runs : run[q].out = name}

\* However two runs were interleaved, the journal that is left when both are over
\* vouches for no stale copy: a file that still has the stamp of its line is, in
\* the dump of the day the journal is of, that very version or not there.  Each
\* who wrote it must have dumped on that day: the journal of a run that lasted
\* past midnight, or shared one with tomorrow's run, is that of another dump.
JournalSound ==
    LET j == text[name] IN
    (Over /\ j[Journal] # 0 /\ \A q \in Writers : run[q].day = j[Journal]) =>
        \A f \in Files : j[f] = ver[f] => dump[j[Journal]][f] \in {0, ver[f]}

\* Whatever it left to the other run, the dump of a run that was not refused has every
\* file once both are over, in a version it had since a run of that day started; even if
\* tar says that it failed, on the journal.
Dumped(r) == run[r].pc \in {"ok", "fail"}
RunsComplete ==
    Over => \A r \in Runs : Dumped(r) =>
        \A f \in Files : \E q \in Runs :
            run[q].day = run[r].day /\ dump[run[r].day][f] >= run[q].began[f] /\ run[q].began[f] # 0

\* Two runs do not lose the journal between them, unless a first backup failed, which
\* removes whichever there is: after one has dumped the source, or was refused, there
\* is a journal.
FirstFailed(r) == At(r, "fail") /\ run[r].type = "firstTime"
JournalLeft ==
    Over /\ (\E r \in Runs : Dumped(r) \/ At(r, "refused")) /\ (\A r \in Runs : ~FirstFailed(r)) =>
        name # NoInode

----------------------------------------------------------------------------
\* The invariant the proofs need.

\* There are two runs at most.  If the late one dates or writes a journal of tomorrow's run,
\* that has newer stamps than tomorrow's dump, which a third run would link from.
AtMostTwo == \A p, q, r \in Runs : p = q \/ q = r \/ p = r

\* These have opened a journal.
Active(r) == run[r].pc \in {"walk", "tar", "ok", "fail"}
WritersOf(i) == {q \in Runs : run[q].out = i}

\* Where a run is, and what it has by then.
Phases ==
    /\ now >= 2 /\ text[NoInode] = NoLines
    /\ \A r \in Runs :
        /\ Active(r) <=> run[r].out # NoInode
        /\ run[r].pc # "walk" => run[r].todo = {}
        /\ run[r].pc \notin {"walk", "tar"} => run[r].list = {}
        /\ run[r].pc # "idle" => /\ run[r].day >= 2
                                 /\ Root \in made[run[r].day]
                                 /\ \A f \in Files : run[r].began[f] # 0
        /\ run[r].pc \in {"open", "walk"} /\ run[r].type = "recurrent" =>
               run[r].tree[Journal] # run[r].day

\* Nothing is of a version to come.
VersionsPast == \A f \in Files :
    /\ \A i \in Inode : text[i][f] <= ver[f]
    /\ \A d \in Day : dump[d][f] <= ver[f]
    /\ \A r \in Runs : run[r].tree[f] <= ver[f] /\ run[r].began[f] <= ver[f]

\* A file is dumped below a directory that was made, by a run that has returned it and is
\* done with it.
DumpedOnce ==
    /\ \A d \in Day \ {1} : \A f \in Files : dump[d][f] # 0 =>
           /\ Parent[f] \in made[d]
           /\ \E p \in Runs : Active(p) /\ run[p].day = d /\ f \notin run[p].todo \cup run[p].list
    /\ \A d \in Day \ {1} : made[d] \subseteq {Root} \/ \E p \in Runs : Active(p) /\ run[p].day = d
    /\ \A r \in Runs : \A f \in Files : f \in run[r].todo \cup run[r].list =>
           Parent[f] \in made[run[r].day] /\ ~(f \in run[r].todo /\ f \in run[r].list)

\* The journal of the run before has its date, and no other has.
Dates ==
    /\ \A r \in Runs : Active(r) => text[run[r].out][Journal] # 1 /\ mtime[run[r].out] # 1
    /\ \A i \in Inode : mtime[i] = 1 => text[i][Journal] \in {0, 1}
    /\ \A r \in Runs : run[r].pc \in {"restore", "relink"} => mtime[run[r].old] # 1
    /\ name # NoInode /\ mtime[name] = 1 =>
           \A r \in Runs : run[r].pc \in {"idle", "source", "move", "unlink"}

\* What a run copied aside nobody else has, but after the run was refused.
CopiesAside == \A r \in Runs :
    /\ name = Copy(r) \/ (\E q \in Runs : run[q].out = Copy(r) \/ (q # r /\ run[q].old = Copy(r))) =>
           run[r].pc = "refused"
    /\ run[r].old = Copy(r) => run[r].pc \notin {"idle", "source", "move"}

\* The dump of a day has what these lines vouch for, if it has anything, or will have.
Kept(j, d) == \A f \in Files : j[f] = ver[f] =>
    dump[d][f] \in {0, ver[f]} \/ \E q \in Runs : run[q].day = d /\ f \in run[q].list

\* So it is with a journal nobody has written since, but copies that were thrown away; with
\* one that only runs of one day have written, and that day; and with what was read.
UnwrittenKept == \A i \in Inode :
    WritersOf(i) = {} /\ (\A r \in Runs : i = Copy(r) => ~Active(r)) /\ text[i][Journal] # 0 =>
        Kept(text[i], text[i][Journal])
WrittenKept == \A i \in Inode \ {NoInode} : \A d \in Day :
    WritersOf(i) # {} /\ (\A q \in WritersOf(i) : run[q].day = d) => Kept(text[i], d)
TreesKept == \A r \in Runs :
    run[r].pc \in {"open", "walk"} /\ run[r].type = "recurrent" =>
        \A f \in Files : run[r].tree[f] = ver[f] => dump[LastDay(r)][f] \in {0, ver[f]}

\* What is below a directory that was made, a run of the day has in hand or has dumped.
InHand == \A d \in Day : (\E p \in Runs : Active(p) /\ run[p].day = d) =>
    \A n \in Nodes : Parent[n] \in made[d] =>
        \/ n \in Dirs /\ n \in made[d]
        \/ \E q \in Runs : /\ Active(q) /\ run[q].day = d
                           /\ \/ n \in run[q].todo \cup run[q].list
                              \/ n \in Files /\ dump[d][n] >= run[q].began[n]

OverlapInv == /\ Phases /\ VersionsPast /\ DumpedOnce /\ Dates /\ CopiesAside
              /\ UnwrittenKept /\ WrittenKept /\ TreesKept /\ InHand
=============================================================================
