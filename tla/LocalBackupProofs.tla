------------------------- MODULE LocalBackupProofs -------------------------
(***************************************************************************)
(* Theorems about LocalBackup for every tree, clock, set of faults and     *)
(* bound.                                                                  *)
(***************************************************************************)
EXTENDS LocalBackup, TLAPS

----------------------------------------------------------------------------
\* Lemmas on the operators.

\* Days are positive, so that bdir = 0 means no run and lbdir = 0 no last backup.
LEMMA DayFacts ==
    /\ Time \subseteq Nat \ {0}
    /\ Day \subseteq Nat \ {0}
    /\ 0 \notin Day
    /\ \A t \in Time : DayOf[t] \in Day
    /\ Time \subseteq Stamp
    /\ Stamp \ {0} = Time
    /\ 0 \in Stamp
  BY ClockAssumption DEF Day, Time, Stamp

\* What a dump may have of a file.
LEMMA ContentFacts ==
    /\ Torn \in Content /\ 0 \in Content /\ Torn # 0
    /\ 1..MaxVer \subseteq Content /\ 1 \in 1..MaxVer
  BY BoundAssumption DEF Content, Torn

\* A journal that lost a part of its lines is a journal, and has no other line.
LEMMA RemainsFacts ==
    ASSUME NEW j \in JournalType, NEW k \in Remains(j)
    PROVE  /\ k \in JournalType
           /\ \A p \in Paths : k.line[p] \in {0, j.line[p]}
<1>1. PICK kept : k = [there |-> j.there,
                       line |-> [p \in Paths |-> IF p \in kept THEN j.line[p] ELSE 0]]
  BY DEF Remains
<1>2. j.there \in BOOLEAN /\ j.line \in [Paths -> Stamp]
  BY DEF JournalType
<1>3. k.line \in [Paths -> Stamp]
  BY <1>1, <1>2, DayFacts
<1> QED
  BY <1>1, <1>2, <1>3 DEF JournalType

\* The constant journals and the constant entry have their types.
LEMMA Constants ==
    NoJournal \in JournalType /\ EmptyJournal \in JournalType /\ NoEntry \in Entered
  BY DayFacts DEF NoJournal, EmptyJournal, NoLines, JournalType, NoEntry, Entered, Paths

\* The lines of a journal are stamps.
LEMMA LineFacts ==
    ASSUME NEW j \in JournalType
    PROVE  /\ \A p \in Paths : j.line[p] \in Stamp
           /\ j.line[Journal] \in Stamp
  BY DEF JournalType, Paths

\* A directory's entries are entries of the tree.
LEMMA EntriesFacts == ASSUME NEW d PROVE Entries(d) \subseteq Entry
  BY DEF Entries, Entry, Nodes, Paths

\* A file put in a dump leaves the dumps well typed.
LEMMA DumpUpdate ==
    ASSUME NEW u \in Dumps, NEW d \in Day, NEW f, NEW v \in Content
    PROVE  [u EXCEPT ![d][f] = v] \in Dumps
  BY DEF Dumps

\* So does a directory made in one.
LEMMA TreeUpdate ==
    ASSUME NEW m \in Trees, NEW d \in Day, NEW e \in Folder
    PROVE  [m EXCEPT ![d] = @ \cup {e}] \in Trees
  BY DEF Trees

----------------------------------------------------------------------------
\* Type correctness.

\* The initial state has every variable of its type.
LEMMA TypeInit == Init => TypeOK
<1> SUFFICES ASSUME Init PROVE TypeOK
  OBVIOUS
<1>1. 1 \in Time
  BY ClockAssumption DEF Time
<1>2. src \in Source
  BY <1>1, ContentFacts DEF Init, Source
<1>3. dump \in Dumps /\ made \in Trees /\ during \in Versions
  BY ContentFacts DEF Init, Dumps, Trees, Versions
<1>4. jnl \in JournalType /\ old \in JournalType /\ before \in JournalType /\ cur \in Entered
  BY Constants DEF Init
<1>5. nfaults \in 0..MaxFaults /\ born \in Stamp /\ now \in Time
  BY <1>1, DayFacts, BoundAssumption DEF Init
<1> QED
  BY <1>2, <1>3, <1>4, <1>5 DEF Init, TypeOK, Label, Ending

\* A fault leaves the count of faults within its bound.
LEMMA FaultType == ASSUME TypeOK, NEW k, Fault(k) PROVE nfaults' \in 0..MaxFaults
  BY BoundAssumption DEF TypeOK, Fault

\* A change of a file keeps the type of what it changes.
LEMMA ChangedType ==
    ASSUME TypeOK, NEW f \in Files, NEW here \in BOOLEAN, Changed(f, here)
    PROVE  src' \in Source /\ during' \in Versions
<1>1. src[f].ver + 1 \in 1..MaxVer /\ now \in Time
  BY BoundAssumption DEF TypeOK, Source, Changed
<1>2. src' \in Source
  BY <1>1 DEF Changed, TypeOK, Source
<1>3. (IF here THEN src[f].ver + 1 ELSE 0) \in 0..MaxVer
  BY <1>1, BoundAssumption
<1>4. during' \in Versions
  BY <1>3 DEF Changed, TypeOK, Versions
<1> QED
  BY <1>2, <1>4

\* Start keeps the type of what it changes.
LEMMA StartType ==
    ASSUME TypeOK, Start
    PROVE  during' \in Versions /\ bdir' \in Day /\ DayOf[now] \in Day
<1>1. \A f \in Files : Held(f) \in 0..MaxVer
  BY BoundAssumption DEF TypeOK, Held, Source
<1> QED
  BY <1>1, DayFacts DEF Start, TypeOK, Versions

\* The steps before the walk keep every variable in its type.
LEMMA PrepareType == ASSUME TypeOK, Prepare PROVE TypeOK'
<1> USE FaultType DEF TypeOK, world, disk, proc, ghost, Goto, NoFault, Ends, GivesUp, Label,
                      Ending
<1>1. CASE NoJournalYet BY <1>1 DEF NoJournalYet
<1>2. CASE MoveAside BY <1>2, Constants DEF MoveAside
<1>3. CASE MoveAsideFails BY <1>3 DEF MoveAsideFails
<1>4. CASE LoadJournal
  <2>1. LastTime # 0 => DayOf[LastTime] \in Day
    BY LineFacts, DayFacts DEF LastTime
  <2> QED BY <1>4, <2>1, DayFacts DEF LoadJournal
<1>5. CASE Refuse BY <1>5 DEF Refuse
<1>6. CASE LoadFails BY <1>6 DEF LoadFails
<1>7. CASE OpenFiles BY <1>7, EntriesFacts, Constants, DayFacts DEF OpenFiles
<1>8. CASE OpenFilesFails BY <1>8, Constants DEF OpenFilesFails
<1>9. CASE SourceUnread BY <1>9, Constants, DayFacts DEF SourceUnread
<1>10. CASE MoveAsideCuts BY <1>10, Constants, RemainsFacts DEF MoveAsideCuts
<1> QED BY <1>1, <1>2, <1>3, <1>4, <1>5, <1>6, <1>7, <1>8, <1>9, <1>10 DEF Prepare

\* So do the steps of the walk.
LEMMA WalkType == ASSUME TypeOK, Walk PROVE TypeOK'
<1> USE FaultType DEF TypeOK, world, disk, proc, ghost, Goto, NoFault, Ends, GivesUp, Label,
                      Ending
<1>1. ASSUME NEW p \in Paths, Lstat(p) PROVE TypeOK'
  <2>1. cur' \in Entered
    <3>1. CASE p \in Files
      BY <1>1, <3>1, DayFacts, TreeAssumption DEF Lstat, Entered, Source
    <3>2. CASE p = Journal
      <4>1. born..now \subseteq Stamp
        BY ClockAssumption DEF Time, Stamp
      <4> QED BY <1>1, <3>2, <4>1, TreeAssumption DEF Lstat, Entered
    <3> QED BY <3>1, <3>2 DEF Paths
  <2> QED BY <1>1, <2>1 DEF Lstat
<1>2. ASSUME NEW p \in Paths, LstatFails(p) PROVE TypeOK'
  <2>1. nfaults' \in 0..MaxFaults /\ silent' \in BOOLEAN
    BY <1>2 DEF LstatFails
  <2>2. todo' \subseteq Entry /\ pc' = "walk" /\ pc = "walk"
    BY <1>2 DEF LstatFails
  <2>3. UNCHANGED <<world, disk, bdir, type, old, lbdir, list, cur, born, rst, during, before,
                    again, exit>>
    BY <1>2 DEF LstatFails
  <2> QED BY <2>1, <2>2, <2>3
<1>3. ASSUME NEW d \in Dirs, EnterDir(d) PROVE TypeOK'
  <2>1. made' \in Trees
    BY <1>3, TreeUpdate DEF EnterDir, Folder
  <2> QED BY <1>3, <2>1, EntriesFacts DEF EnterDir
<1>4. ASSUME NEW d \in Dirs, SkipDir(d) PROVE TypeOK'
  BY <1>4 DEF SkipDir
<1>5. ASSUME NEW d \in Dirs, DirFails(d) PROVE TypeOK'
  <2>1. made' \in Trees
    BY <1>5, TreeUpdate DEF DirFails, Folder
  <2> QED BY <1>5, <2>1 DEF DirFails
<1>6. ASSUME NEW d \in Dirs, ParentLost(d) PROVE TypeOK'
  BY <1>6 DEF ParentLost
<1>7. CASE MakeLink
  <2>1. bdir \in Day /\ lbdir \in Day /\ cur.path \in Files
    BY <1>7 DEF MakeLink, Unchanged
  <2>2. dump[lbdir][cur.path] \in Content
    BY <2>1 DEF Dumps
  <2>3. dump' \in Dumps
    BY <1>7, <2>1, <2>2, DumpUpdate DEF MakeLink
  <2> QED BY <1>7, <2>3 DEF MakeLink
<1>8. CASE WriteTar BY <1>8 DEF WriteTar, ListForTar, Entered
<1>9. CASE LinkFails BY <1>9 DEF LinkFails, ListForTar, Entered
<1>10. CASE WriteJournal
  <2>1. jnl' \in JournalType
    BY <1>10 DEF WriteJournal, NewLine, JournalType, Entered
  <2> QED BY <1>10, <2>1, Constants DEF WriteJournal
<1>11. CASE WriteFails BY <1>11 DEF WriteFails
<1>12. CASE CloseFiles BY <1>12, Constants DEF CloseFiles, OldAfterWalk
<1>13. CASE CloseFails BY <1>13, Constants, RemainsFacts DEF CloseFails, OldAfterWalk
<1> QED BY <1>1, <1>2, <1>3, <1>4, <1>5, <1>6, <1>7, <1>8, <1>9, <1>10, <1>11, <1>12, <1>13
        DEF Walk

\* So do the steps of the two tars.
LEMMA CopyType == ASSUME TypeOK, Copy PROVE TypeOK'
<1> USE FaultType DEF TypeOK, world, disk, proc, ghost, Goto, NoFault, Ends, Label, Ending
<1>1. ASSUME NEW p \in Paths, TarCopy(p) PROVE TypeOK'
  <2>1. bdir \in Day
    BY <1>1 DEF TarCopy
  <2>2. p \in Files => src[p].ver \in Content
    BY ContentFacts DEF Source
  <2>3. dump' \in Dumps
    <3>1. dump \in Dumps /\ dump' = IF p \in Files THEN [dump EXCEPT ![bdir][p] = src[p].ver] ELSE dump
      BY <1>1 DEF TarCopy
    <3> HIDE FaultType DEF TypeOK
    <3>2. p \in Files => [dump EXCEPT ![bdir][p] = src[p].ver] \in Dumps
      BY <2>1, <2>2, <3>1, DumpUpdate
    <3> QED BY <3>1, <3>2
  <2> QED BY <1>1, <2>3 DEF TarCopy
<1>2. ASSUME NEW f \in Files, TarMisses(f) PROVE TypeOK'
  BY <1>2 DEF TarMisses
<1>3. ASSUME NEW f \in Files, TarRaced(f) PROVE TypeOK'
  <2>1. bdir \in Day
    BY <1>3 DEF TarRaced
  <2>2. dump' \in Dumps
    <3>1. dump \in Dumps /\ dump' = [dump EXCEPT ![bdir][f] = Torn]
      BY <1>3 DEF TarRaced
    <3> HIDE FaultType DEF TypeOK
    <3> QED BY <2>1, <3>1, ContentFacts, DumpUpdate
  <2>3. src' \in Source /\ during' \in Versions
    BY <1>3, ChangedType DEF TarRaced
  <2> QED BY <1>3, <2>2, <2>3 DEF TarRaced
<1>4. ASSUME NEW f \in Files, TarFails(f) PROVE TypeOK'
  <2>1. bdir \in Day
    BY <1>4 DEF TarFails
  <2>2. dump' \in Dumps
    <3>1. /\ dump \in Dumps
          /\ \/ dump' = dump
             \/ dump' = [dump EXCEPT ![bdir][f] = 0]
             \/ dump' = [dump EXCEPT ![bdir][f] = Torn]
      BY <1>4 DEF TarFails
    <3> HIDE FaultType DEF TypeOK
    <3>2. [dump EXCEPT ![bdir][f] = 0] \in Dumps
      BY <2>1, <3>1, ContentFacts, DumpUpdate
    <3>3. [dump EXCEPT ![bdir][f] = Torn] \in Dumps
      BY <2>1, <3>1, ContentFacts, DumpUpdate
    <3> QED BY <3>1, <3>2, <3>3
  <2>3. nfaults' \in 0..MaxFaults
    BY <1>4 DEF TarFails
  <2>4. list' \subseteq Paths /\ rst' \in BOOLEAN /\ pc' = "tar" /\ pc = "tar"
    BY <1>4 DEF TarFails
  <2>5. UNCHANGED <<world, jnl, made, bdir, type, old, lbdir, todo, cur, born, ghost, exit>>
    BY <1>4 DEF TarFails
  <2> QED BY <2>2, <2>3, <2>4, <2>5
<1>5. CASE TarStops BY <1>5 DEF TarStops
<1>6. CASE Finish BY <1>6, Constants DEF Finish
<1> QED BY <1>1, <1>2, <1>3, <1>4, <1>5, <1>6 DEF Copy

\* So do the ways out.
LEMMA LeaveType == ASSUME TypeOK, Leave \/ Die PROVE TypeOK'
<1> USE FaultType DEF TypeOK, world, disk, proc, ghost, Goto, NoFault, Ends, Label, Ending
<1>1. CASE Restore BY <1>1, Constants DEF Restore
<1>2. CASE Relink BY <1>2, Constants DEF Relink
<1>3. CASE RelinkFails BY <1>3, Constants, RemainsFacts DEF RelinkFails
<1>4. CASE Die
  <2>1. bdir \in Day
    BY <1>4 DEF Die
  <2>2. dump' \in Dumps
    <3>1. \A f \in Files : [dump EXCEPT ![bdir][f] = Torn] \in Dumps
      BY <2>1, ContentFacts, DumpUpdate
    <3>2. dump' = dump \/ \E f \in Files : dump' = [dump EXCEPT ![bdir][f] = Torn]
      BY <1>4 DEF Die
    <3> QED BY <3>1, <3>2
  <2>3. jnl' \in JournalType
    BY <1>4, RemainsFacts DEF Die
  <2> QED BY <1>4, <2>2, <2>3 DEF Die
<1>5. CASE Gone
  <2>1. during' \in Versions
    BY <1>5 DEF Gone, Versions
  <2> QED BY <1>5, <2>1, Constants, DayFacts DEF Gone
<1>6. CASE RestoreFails BY <1>6, RemainsFacts DEF RestoreFails
<1> QED BY <1>1, <1>2, <1>3, <1>4, <1>5, <1>6 DEF Leave

\* No step changes the type of a variable.
LEMMA TypeNext == TypeOK /\ [Next]_vars => TypeOK'
<1> SUFFICES ASSUME TypeOK, [Next]_vars PROVE TypeOK'
  OBVIOUS
<1>1. CASE Tick
  BY <1>1, ClockAssumption DEF Tick, TypeOK, disk, proc, ghost, Time
<1>2. ASSUME NEW f \in Files, Edit(f) PROVE TypeOK'
  BY <1>2, ChangedType DEF Edit, TypeOK, disk, proc
<1>3. ASSUME ChkDest PROVE TypeOK'
  <2>1. made' \in Trees
    BY <1>3, StartType, TreeUpdate DEF ChkDest, TypeOK, Folder
  <2> QED BY <1>3, <2>1, StartType, DayFacts
          DEF ChkDest, Start, TypeOK, world, Goto, NoFault, Label
<1>4. ASSUME ChkDestFails PROVE TypeOK'
  <2>1. made' \in Trees
    BY <1>4, StartType, TreeUpdate DEF ChkDestFails, TypeOK, Folder
  <2> QED BY <1>4, <2>1, StartType, FaultType, DayFacts
          DEF ChkDestFails, Start, TypeOK, world, Ends, Label, Ending
<1>5. CASE UNCHANGED vars
  BY <1>5 DEF vars, TypeOK, world, disk, proc, ghost
<1> QED
  BY <1>1, <1>2, <1>3, <1>4, <1>5, PrepareType, WalkType, CopyType, LeaveType DEF Next, Run

\* TypeOK holds in every reachable state.
THEOREM Typing == Spec => []TypeOK
  BY TypeInit, TypeNext, PTL DEF Spec

----------------------------------------------------------------------------
(***************************************************************************)
(* How a run that gives up leaves the source, with any number of runs a    *)
(* day: it gives back the journal it found, and it is refused as the       *)
(* second run of its day only if it is.                                    *)
(***************************************************************************)

\* The journal is given back.

\* A journal that is not there has no lines; the one that is written is there.
NoGhostLines == /\ \A j \in {jnl, old, before} : ~j.there => j = NoJournal
                /\ pc \in {"walk", "visit", "journal"} => jnl.there

\* Where the journal the run found is, until tar runs.
OldIsKept ==
    /\ pc \in {"idle", "source"} => old = NoJournal
    /\ pc = "source" => jnl = before
    /\ pc \in {"load", "open", "walk", "visit", "journal", "restore", "relink"} /\ ~silent =>
           old = before

KeptInv == NoGhostLines /\ OldIsKept /\ JournalPreserved

\* A part of a journal that is not there is not there either.
LEMMA GhostFacts ==
    ASSUME NEW j, j = NoJournal \/ j.there, NEW k \in Remains(j)
    PROVE  ~k.there => k = NoJournal
<1>1. PICK kept : k = [there |-> j.there,
                       line |-> [p \in Paths |-> IF p \in kept THEN j.line[p] ELSE 0]]
  BY DEF Remains
<1>2. CASE j = NoJournal
  BY <1>1, <1>2 DEF NoJournal, NoLines
<1>3. CASE j.there
  BY <1>1, <1>3
<1> QED
  BY <1>2, <1>3

\* A run that starts remembers the journal it finds.
LEMMA KeptStart ==
    ASSUME TypeOK, KeptInv, ChkDest \/ ChkDestFails
    PROVE  KeptInv'
  BY DEF KeptInv, NoGhostLines, OldIsKept, JournalPreserved, ChkDest, ChkDestFails, Start, Goto,
         Ends, world

\* It is set aside, or nothing is there to set aside.
LEMMA KeptPrepare == ASSUME TypeOK, KeptInv, Prepare PROVE KeptInv'
<1> USE DEF KeptInv, NoGhostLines, OldIsKept, JournalPreserved, Goto, Ends, GivesUp, world, disk,
            proc, ghost
<1>1. EmptyJournal.there
  BY DEF EmptyJournal
<1>2. CASE NoJournalYet \/ MoveAside \/ MoveAsideFails
  BY <1>2 DEF NoJournalYet, MoveAside, MoveAsideFails
<1>3. CASE MoveAsideCuts
  BY <1>3, GhostFacts DEF MoveAsideCuts
<1>4. CASE LoadJournal \/ Refuse \/ LoadFails
  BY <1>4 DEF LoadJournal, Refuse, LoadFails
<1>5. CASE OpenFiles \/ OpenFilesFails \/ SourceUnread
  BY <1>1, <1>5 DEF OpenFiles, OpenFilesFails, SourceUnread
<1> QED
  BY <1>2, <1>3, <1>4, <1>5 DEF Prepare

\* The walk leaves it where it is.
LEMMA KeptWalk == ASSUME TypeOK, KeptInv, Walk PROVE KeptInv'
<1> USE DEF KeptInv, NoGhostLines, OldIsKept, JournalPreserved, Goto, Ends, GivesUp, world, disk,
            proc, ghost
<1>1. CASE \E p \in Paths : Lstat(p) \/ LstatFails(p)
  BY <1>1 DEF Lstat, LstatFails
<1>2. CASE \E d \in Dirs : EnterDir(d) \/ SkipDir(d) \/ DirFails(d) \/ ParentLost(d)
  BY <1>2 DEF EnterDir, SkipDir, DirFails, ParentLost
<1>3. CASE MakeLink \/ WriteTar \/ LinkFails \/ WriteFails
  BY <1>3 DEF MakeLink, WriteTar, LinkFails, ListForTar, WriteFails
<1>4. CASE WriteJournal
  <2>1. jnl'.there
    BY <1>4 DEF WriteJournal, TypeOK, JournalType
  <2> QED
    BY <1>4, <2>1 DEF WriteJournal
<1>5. CASE CloseFiles
  BY <1>5 DEF CloseFiles, OldAfterWalk
<1>6. CASE CloseFails
  BY <1>6, GhostFacts DEF CloseFails, OldAfterWalk
<1> QED
  BY <1>1, <1>2, <1>3, <1>4, <1>5, <1>6 DEF Walk

\* tar runs after the last way out that gives a journal back.
LEMMA KeptCopy == ASSUME TypeOK, KeptInv, Copy PROVE KeptInv'
  BY DEF KeptInv, NoGhostLines, OldIsKept, JournalPreserved, Copy, TarCopy, TarMisses, TarRaced,
         TarFails, TarStops, Finish, Goto, Ends, world, disk, proc, ghost

\* backupfsExit() gives it back, or what fails is logged.
LEMMA KeptLeave == ASSUME TypeOK, KeptInv, Leave \/ Die PROVE KeptInv'
<1> USE DEF KeptInv, NoGhostLines, OldIsKept, JournalPreserved, Goto, Ends, world, disk, proc, ghost
<1>1. CASE Restore \/ Relink
  BY <1>1 DEF Restore, Relink
<1>2. CASE RestoreFails \/ RelinkFails
  BY <1>2, GhostFacts DEF RestoreFails, RelinkFails
<1>3. CASE Die
  BY <1>3, GhostFacts DEF Die
<1>4. CASE Gone
  BY <1>4 DEF Gone
<1> QED
  BY <1>1, <1>2, <1>3, <1>4 DEF Leave

\* Every step keeps the invariant.
LEMMA KeptNext == TypeOK /\ KeptInv /\ [Next]_vars => KeptInv'
<1> SUFFICES ASSUME TypeOK, KeptInv, [Next]_vars PROVE KeptInv'
  OBVIOUS
<1>1. CASE Tick \/ (\E f \in Files : Edit(f)) \/ UNCHANGED vars
  BY <1>1 DEF KeptInv, NoGhostLines, OldIsKept, JournalPreserved, Tick, Edit, vars, world, disk,
              proc, ghost
<1> QED
  BY <1>1, KeptStart, KeptPrepare, KeptWalk, KeptCopy, KeptLeave DEF Next, Run

\* A run that gives up before it copies anything leaves the journal it found, also
\* if the run before it was killed, or has run today, or cut its journal short.
THEOREM JournalIsKept == Spec => []JournalPreserved
<1>1. Init => KeptInv
  BY DEF Init, KeptInv, NoGhostLines, OldIsKept, JournalPreserved
<1>2. KeptInv => JournalPreserved
  BY DEF KeptInv
<1> QED
  BY <1>1, <1>2, KeptNext, Typing, PTL DEF Spec

----------------------------------------------------------------------------
\* A refusal is right, when no run lasts past midnight.

\* What a run dates is of its day.
TodaysRun == /\ bdir # 0 => DayOf[now] = bdir
             /\ pc \in {"walk", "visit", "journal"} => born # 0 /\ DayOf[born] = bdir
             /\ pc \in {"visit", "journal"} /\ cur.path = Journal =>
                    cur.at # 0 /\ DayOf[cur.at] = bdir
             /\ pc \in {"walk", "visit", "journal", "tar"} /\ jnl.line[Journal] # 0 =>
                    DayOf[jnl.line[Journal]] = bdir

\* A journal is dated a day that has a dump.
HasDump(j) == j.line[Journal] # 0 => Root \in made[DayOf[j.line[Journal]]]
DatedDumps == /\ HasDump(jnl) /\ HasDump(old)
              /\ pc \notin {"idle", "exit"} => Root \in made[bdir]

\* The journal a run finds is of its day only if the day had a dump.
OfToday(j) == j.line[Journal] # 0 /\ DayOf[j.line[Journal]] = bdir
FoundDated == /\ pc = "source" /\ OfToday(jnl) => again
              /\ pc = "load" /\ OfToday(old) => again
              /\ pc = "idle" => exit = "none"

DatedInv == TodaysRun /\ DatedDumps /\ FoundDated /\ NoFalseRefusal

\* A journal with no date, or part of one that is dated, is as good as it.
LEMMA DatedParts ==
    ASSUME TypeOK, DatedDumps
    PROVE  /\ HasDump(NoJournal) /\ HasDump(EmptyJournal)
           /\ \A k \in Remains(jnl) \cup Remains(old) : HasDump(k)
           /\ \A k \in Remains(jnl) : k.line[Journal] \in {0, jnl.line[Journal]}
           /\ EmptyJournal.line[Journal] = 0
<1>1. \A j \in {jnl, old} : \A k \in Remains(j) : k.line[Journal] \in {0, j.line[Journal]}
  BY RemainsFacts DEF TypeOK, Paths
<1> QED
  BY <1>1 DEF DatedDumps, HasDump, OfToday, NoJournal, EmptyJournal, NoLines, Paths

\* A run that starts today and finds a journal of today finds a dump of today.
LEMMA DatedStart ==
    ASSUME TypeOK, DatedInv, ChkDest \/ ChkDestFails
    PROVE  DatedInv'
<1>1. /\ bdir' = DayOf[now] /\ again' = (Root \in made[DayOf[now]])
      /\ UNCHANGED <<now, jnl, old>> /\ pc = "idle"
  BY DEF ChkDest, ChkDestFails, Start, world
<1>2. \A d \in Day : made[d] \subseteq made'[d]
  BY DEF ChkDest, ChkDestFails, TypeOK, Trees
<1>3. \A j \in {jnl, old} : j.line[Journal] # 0 => DayOf[j.line[Journal]] \in Day
  BY LineFacts, DayFacts DEF TypeOK
<1>4. pc' = "source" => Root \in made'[bdir']
  BY DayFacts DEF ChkDest, ChkDestFails, Start, Ends, TypeOK, Trees
<1>5. pc' \in {"source", "exit"} /\ exit' \in {"none", "gaveUp"}
  BY <1>1 DEF ChkDest, ChkDestFails, Goto, Ends, DatedInv, FoundDated
<1>6. DatedDumps'
  BY <1>1, <1>2, <1>3, <1>4, <1>5 DEF DatedInv, DatedDumps, HasDump
<1>7. TodaysRun' /\ FoundDated' /\ NoFalseRefusal'
  BY <1>1, <1>5 DEF DatedInv, TodaysRun, FoundDated, NoFalseRefusal, DatedDumps, HasDump, OfToday
<1> QED
  BY <1>6, <1>7 DEF DatedInv

\* It is refused for that journal only, or goes on to write its own.
LEMMA DatedPrepare == ASSUME TypeOK, DatedInv, Prepare PROVE DatedInv'
<1> USE DatedParts DEF DatedInv, TodaysRun, DatedDumps, FoundDated, NoFalseRefusal, Goto, Ends,
        GivesUp, world, disk, proc, ghost
<1>1. CASE NoJournalYet \/ MoveAside \/ MoveAsideFails
  BY <1>1 DEF NoJournalYet, MoveAside, MoveAsideFails, HasDump, OfToday
<1>2. CASE MoveAsideCuts
  BY <1>2 DEF MoveAsideCuts, HasDump, OfToday
<1>3. CASE LoadJournal \/ LoadFails
  BY <1>3 DEF LoadJournal, LoadFails, HasDump
<1>4. CASE Refuse
  BY <1>4 DEF Refuse, HasDump, OfToday, SameDay, LastTime
<1>5. CASE OpenFiles \/ OpenFilesFails \/ SourceUnread
  <2>1. now # 0
    BY DayFacts DEF TypeOK
  <2>2. bdir # 0
    BY <1>5 DEF OpenFiles, OpenFilesFails, SourceUnread, TypeOK
  <2> QED
    BY <1>5, <2>1, <2>2 DEF OpenFiles, OpenFilesFails, SourceUnread, HasDump
<1> QED
  BY <1>1, <1>2, <1>3, <1>4, <1>5 DEF Prepare

\* The journal's own stamp is of the run, and the run of one day.
LEMMA DatedLstat == ASSUME TypeOK, DatedInv, NEW p \in Paths, Lstat(p) PROVE DatedInv'
<1> USE DEF DatedInv, Lstat, Goto, world, disk
<1>1. cur'.path = Journal => cur'.at # 0 /\ DayOf[cur'.at] = bdir
  <2> SUFFICES ASSUME cur'.path = Journal PROVE cur'.at # 0 /\ DayOf[cur'.at] = bdir
    OBVIOUS
  <2>1. PICK t \in born..now : cur' = [path |-> p, at |-> t]
    BY TreeAssumption
  <2>2. born \in Time /\ now \in Time /\ DayOf[born] = bdir /\ DayOf[now] = bdir
    BY DayFacts DEF TodaysRun, TypeOK
  <2>3. t \in Time /\ born <= t /\ t <= now
    BY <2>2, ClockAssumption DEF Time
  <2>4. DayOf[born] <= DayOf[t] /\ DayOf[t] <= DayOf[now]
    BY <2>2, <2>3, ClockAssumption
  <2>5. DayOf[t] \in Nat /\ bdir \in Nat
    BY <2>2, <2>3, DayFacts
  <2>6. DayOf[t] = bdir
    BY <2>2, <2>4, <2>5
  <2>7. t # 0
    BY <2>3, DayFacts
  <2> QED
    BY <2>1, <2>6, <2>7
<1>2. TodaysRun'
  BY <1>1 DEF TodaysRun
<1>3. DatedDumps' /\ FoundDated' /\ NoFalseRefusal'
  BY DEF DatedDumps, HasDump, FoundDated, NoFalseRefusal, ghost
<1> QED
  BY <1>2, <1>3

\* So is the date of what the walk writes.
LEMMA DatedWalk == ASSUME TypeOK, DatedInv, Walk PROVE DatedInv'
<1> USE DEF DatedInv, TodaysRun, DatedDumps, FoundDated, NoFalseRefusal, Goto, Ends, GivesUp,
            world, disk, proc, ghost
<1>1. CASE \E p \in Paths : LstatFails(p)
  BY <1>1 DEF LstatFails, HasDump
<1>2. CASE \E d \in Dirs : EnterDir(d) \/ SkipDir(d) \/ DirFails(d) \/ ParentLost(d)
  <2>1. \A d \in Day : made[d] \subseteq made'[d]
    BY <1>2 DEF EnterDir, SkipDir, DirFails, ParentLost, TypeOK, Trees
  <2>2. \A j \in {jnl, old} : j.line[Journal] # 0 => DayOf[j.line[Journal]] \in Day
    BY LineFacts, DayFacts DEF TypeOK
  <2>3. /\ pc = "walk" /\ pc' = "walk" /\ bdir \in Day
        /\ UNCHANGED <<now, jnl, old, bdir, born, exit, again>>
    BY <1>2 DEF EnterDir, SkipDir, DirFails, ParentLost, TypeOK
  <2> QED
    BY <2>1, <2>2, <2>3 DEF HasDump
<1>3. CASE MakeLink \/ WriteTar \/ LinkFails \/ WriteFails
  BY <1>3 DEF MakeLink, WriteTar, LinkFails, ListForTar, WriteFails, HasDump
<1>4. CASE WriteJournal
  <2>1. jnl'.line[Journal] \in {jnl.line[Journal], IF cur.path = Journal THEN cur.at ELSE 0}
    BY <1>4 DEF WriteJournal, NewLine, TypeOK, JournalType, Paths
  <2> QED
    BY <1>4, <2>1 DEF WriteJournal, HasDump
<1>5. CASE CloseFiles \/ CloseFails
  BY <1>5, DatedParts DEF CloseFiles, CloseFails, OldAfterWalk, HasDump
<1> QED
  BY <1>1, <1>2, <1>3, <1>4, <1>5, DatedLstat DEF Walk

\* After the walk no date is written, and a dump stays.
LEMMA DatedCopyLeave ==
    ASSUME TypeOK, DatedInv, Copy \/ Leave \/ Die
    PROVE  DatedInv'
<1> USE DatedParts DEF DatedInv, TodaysRun, DatedDumps, FoundDated, NoFalseRefusal, Goto, Ends,
        world, disk, proc, ghost
<1>1. CASE Copy
  BY <1>1 DEF Copy, TarCopy, TarMisses, TarRaced, TarFails, TarStops, Finish, HasDump
<1>2. CASE Leave
  BY <1>2 DEF Leave, Restore, RestoreFails, Relink, RelinkFails, Gone, HasDump
<1>3. CASE Die
  BY <1>3 DEF Die, HasDump
<1> QED
  BY <1>1, <1>2, <1>3

\* Every step keeps the invariant.
LEMMA DatedNext ==
    ASSUME SameDayRuns
    PROVE  TypeOK /\ DatedInv /\ [Next]_vars => DatedInv'
<1> SUFFICES ASSUME TypeOK, DatedInv, [Next]_vars PROVE DatedInv'
  OBVIOUS
<1> USE DEF DatedInv, TodaysRun, DatedDumps, FoundDated, NoFalseRefusal, HasDump, OfToday, world,
            disk, proc, ghost
<1>1. CASE Tick
  BY <1>1 DEF Tick
<1>2. CASE (\E f \in Files : Edit(f)) \/ UNCHANGED vars
  BY <1>2 DEF Edit, vars
<1> QED
  BY <1>1, <1>2, DatedStart, DatedPrepare, DatedWalk, DatedCopyLeave DEF Next, Run

\* The invariant holds throughout.
LEMMA AlwaysDated == ASSUME SameDayRuns PROVE Spec => []DatedInv
<1>1. Init => DatedInv
  BY DEF Init, DatedInv, TodaysRun, DatedDumps, FoundDated, NoFalseRefusal, HasDump, NoJournal,
         NoLines, Paths
<1> QED
  BY <1>1, DatedNext, Typing, PTL DEF Spec

\* If no run lasts past midnight, a run is refused as the second of its day only if
\* the day has a dump of the source already, whatever failed or was killed before.
THEOREM RefusalIsRight == ASSUME SameDayRuns PROVE Spec => []NoFalseRefusal
<1>1. DatedInv => NoFalseRefusal
  BY DEF DatedInv
<1> QED
  BY <1>1, AlwaysDated, PTL
=============================================================================
