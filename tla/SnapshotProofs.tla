--------------------------- MODULE SnapshotProofs ---------------------------
(***************************************************************************)
(* A run of LocalBackup that exits 0 has dumped every file, and left a     *)
(* journal the next run can link from, for every tree, clock, set of       *)
(* faults and bound: under the assumption of JournalProofs, with one run a *)
(* day, and under MadeGood for the first run of each day.                  *)
(***************************************************************************)
EXTENDS JournalProofs

----------------------------------------------------------------------------
\* What a run has in hand it keeps, whatever the runs before it left.

\* When the walk has returned everything, it has entered every directory.
LEMMA AllEntered ==
    ASSUME TypeOK, FutureEmpty, NothingLost, WalkedOut, pc = "tar", rst, ~silent
    PROVE  \A n \in Nodes : Parent[n] \in made[bdir]
<1>1. bdir \in Day /\ made[bdir] \in SUBSET Folder /\ Root \in made[bdir]
  BY DEF TypeOK, Trees, FutureEmpty
<1>2. \A d \in Dirs : Parent[d] \in made[bdir] => d \in made[bdir]
  BY TreeAssumption DEF NothingLost, WalkedOut, Writing, InHand, Nodes
<1>3. made[bdir] = Folder
  BY <1>1, <1>2, ReachAssumption
<1> QED
  BY <1>3, TreeAssumption

\* A file that changes is not untouched any more, and no file has fewer versions.
LEMMA TouchedFacts ==
    ASSUME TypeOK, LinesPast, StampsPast, LinksFresh, FreshStamps, bdir # 0,
           NEW f \in Files, NEW here \in BOOLEAN, Changed(f, here)
    PROVE  /\ \A g \in Files : during[g] \subseteq during'[g]
           /\ ~(Untouched(f))'
           /\ \A g \in Files \ {f} : /\ src'[g] = src[g] /\ during'[g] = during[g]
                                     /\ (Untouched(g))' <=> Untouched(g)
<1>1. /\ \A g \in Files : during[g] \subseteq during'[g]
      /\ \A g \in Files \ {f} : src'[g] = src[g]
  BY ChangedFacts
<1>2. /\ during' = [during EXCEPT ![f] = @ \cup {IF here THEN src[f].ver + 1 ELSE 0}]
      /\ src'[f] = [ver |-> src[f].ver + 1, at |-> now, there |-> here]
      /\ here \/ src[f].there
      /\ src[f].ver \in Nat \ {0}
  BY BoundAssumption DEF Changed, TypeOK, Source
<1>3. Held(f) \in during[f]
  BY DEF LinksFresh
<1>4. Held(f) # (Held(f))'
  BY <1>2 DEF Held
<1>5. ~(Untouched(f))'
  BY <1>1, <1>3, <1>4 DEF Untouched
<1>6. \A g \in Files \ {f} : during'[g] = during[g]
  BY <1>2 DEF TypeOK, Versions
<1> QED
  BY <1>1, <1>5, <1>6 DEF Untouched, Held

\* A change takes nothing out of hand.
LEMMA EditInHand ==
    ASSUME TypeOK, LinesPast, StampsPast, LinksFresh, FreshStamps, NothingLost, NEW f \in Files, Edit(f)
    PROVE  NothingLost'
<1>1. PICK here \in BOOLEAN : Changed(f, here)
  BY DEF Edit
<1>2. UNCHANGED <<disk, pc, proc, silent>>
  BY DEF Edit
<1>3. CASE ~Writing
  BY <1>2, <1>3 DEF NothingLost, Writing
<1>4. CASE Writing
  <2>1. bdir # 0
    BY <1>4 DEF TypeOK, Writing
  <2> USE TouchedFacts, <1>1, <1>2, <2>1 DEF disk, proc
  <2>2. \A n \in Nodes : InHand(n) => (InHand(n))'
    BY DEF InHand
  <2>3. \A g \in Files : (Untouched(g))' /\ Untouched(g) /\ Lined(g) => (Lined(g))'
    BY DEF Lined, AtEntry
  <2>4. \A g \in Files : (Untouched(g))' => Untouched(g)
    OBVIOUS
  <2>5. SelfLined => SelfLined'
    BY DEF SelfLined, AtEntry
  <2> QED
    BY <2>2, <2>3, <2>4, <2>5 DEF NothingLost, Writing
<1> QED
  BY <1>3, <1>4

\* The walk starts with all entries of the source, in a dump where nothing is entered yet.
LEMMA PrepareInHand ==
    ASSUME TypeOK, NothingLost, pc = "open" => made[bdir] \subseteq {Root}, Prepare
    PROVE  NothingLost'
<1> USE DEF NothingLost, Writing, Goto, Ends, GivesUp
<1>1. CASE OpenFiles
  <2>1. todo' = Entries(Root) /\ made' = made /\ bdir' = bdir /\ pc' = "walk"
    BY <1>1 DEF OpenFiles
  <2>2. \A n \in Nodes : Parent[n] \in made[bdir] => n \in todo'
    BY <1>1, <2>1 DEF OpenFiles, Entries
  <2>3. Journal \in todo'
    BY <2>1 DEF Entries
  <2> QED
    BY <2>1, <2>2, <2>3 DEF InHand, Lined, SelfLined, Nodes
<1>2. CASE Prepare /\ ~OpenFiles
  BY <1>2 DEF Prepare, NoJournalYet, MoveAside, MoveAsideCuts, MoveAsideFails, LoadJournal, Refuse,
     LoadFails,
     OpenFilesFails, SourceUnread
<1> QED
  BY <1>1, <1>2

\* What keeps an entry in hand, and a file's line, while the files rest.
LEMMA StillInHand ==
    ASSUME NothingLost, pc \in {"walk", "visit", "journal"}, pc' \in {"walk", "visit", "journal", "tar"},
           UNCHANGED <<src, made, bdir, during, rst, silent>>,
           \A n \in Nodes : Parent[n] \in made[bdir] /\ InHand(n) => (InHand(n))',
           \A f \in Files : Untouched(f) /\ Lined(f) => (Lined(f))',
           SelfLined => SelfLined'
    PROVE  NothingLost'
  BY DEF NothingLost, Writing, Untouched, Held

\* What the walk returns is dumped or listed, and a directory is entered.
LEMMA WalkInHand ==
    ASSUME TypeOK, LinksFresh, NothingLost,
           pc = "journal" /\ cur.path = Journal => cur.at # 0,
           pc = "journal" /\ cur.path \in Files => jnl.line[cur.path] = 0, Walk
    PROVE  NothingLost'
<1> USE TreeAssumption DEF Goto, Ends, GivesUp, world, disk, proc, ghost, Nodes, Paths
<1>1. CASE silent' \/ pc' = "restore"
  BY <1>1 DEF NothingLost, Writing
<1>2. ASSUME NEW p \in Paths, Lstat(p) PROVE NothingLost'
  <2>1. /\ pc = "walk" /\ pc' = "visit" /\ todo' = todo \ {p}
        /\ cur'.path = p /\ (p \in Files => cur'.at = src[p].at)
        /\ UNCHANGED <<src, jnl, dump, made, bdir, list, rst, during, silent>>
    BY <1>2 DEF Lstat
  <2>2. \A n \in Nodes : InHand(n) => (InHand(n))'
    BY <2>1 DEF InHand
  <2>3. \A f \in Files : Lined(f) => (Lined(f))'
    BY <2>1 DEF Lined, AtEntry
  <2>4. SelfLined => SelfLined'
    BY <2>1 DEF SelfLined, AtEntry
  <2> QED
    BY <2>1, <2>2, <2>3, <2>4, StillInHand
<1>3. ASSUME NEW p \in Paths, LstatFails(p), ~silent' PROVE NothingLost'
  <2>1. /\ pc = "walk" /\ pc' = "walk" /\ todo' = todo \ {p} /\ p \in Files /\ ~src[p].there
        /\ UNCHANGED <<src, jnl, dump, made, bdir, list, cur, rst, during, silent>>
    BY <1>3 DEF LstatFails
  <2>2. 0 \in during[p] /\ ~Untouched(p)
    BY <2>1 DEF TypeOK, LinksFresh, Held, Untouched
  <2>3. \A n \in Nodes : InHand(n) => (InHand(n))'
    BY <2>1, <2>2 DEF InHand
  <2>4. \A f \in Files : Untouched(f) /\ Lined(f) => (Lined(f))'
    BY <2>1, <2>2 DEF Lined, AtEntry
  <2>5. SelfLined => SelfLined'
    BY <2>1 DEF SelfLined, AtEntry
  <2> QED
    BY <2>1, <2>3, <2>4, <2>5, StillInHand
<1>4. ASSUME NEW d \in Dirs, EnterDir(d) PROVE NothingLost'
  <2>1. /\ pc = "walk" /\ pc' = "walk" /\ todo' = (todo \ {d}) \cup Entries(d)
        /\ made'[bdir] = made[bdir] \cup {d} /\ bdir' = bdir
        /\ UNCHANGED <<src, jnl, dump, list, cur, rst, during, silent>>
    BY <1>4 DEF EnterDir, TypeOK, Trees
  <2>2. \A n \in Nodes : Parent[n] = d => n \in todo'
    BY <2>1 DEF Entries
  <2>3. \A n \in Nodes : InHand(n) => (InHand(n))'
    BY <2>1 DEF InHand
  <2>4. \A f \in Files : (Untouched(f))' => Untouched(f)
    BY <2>1 DEF Untouched, Held
  <2>5. \A f \in Files : Lined(f) => (Lined(f))'
    BY <2>1 DEF Lined, AtEntry
  <2>6. SelfLined => SelfLined'
    BY <2>1 DEF SelfLined, AtEntry
  <2>7. \A n \in Nodes : n \in todo' => (InHand(n))' /\ (n \in Files => (Lined(n))')
    BY DEF InHand, Lined
  <2> QED
    BY <2>1, <2>2, <2>3, <2>4, <2>5, <2>6, <2>7 DEF NothingLost, Writing
<1>5. ASSUME NEW d \in Dirs, SkipDir(d) PROVE NothingLost'
  <2>1. /\ pc = "walk" /\ pc' = "walk" /\ todo' = todo \ {d} /\ d \in made[bdir]
        /\ UNCHANGED <<src, jnl, dump, made, bdir, list, cur, rst, during, silent>>
    BY <1>5 DEF SkipDir
  <2> QED
    BY <2>1, StillInHand DEF InHand, Lined, SelfLined, AtEntry
<1>6. CASE MakeLink
  <2>1. /\ pc = "visit" /\ pc' = "journal" /\ cur.path \in Files /\ bdir \in Day
        /\ dump' = [dump EXCEPT ![bdir][cur.path] = dump[lbdir][cur.path]]
        /\ dump[lbdir][cur.path] # 0 /\ dump \in Dumps
        /\ UNCHANGED <<src, jnl, made, bdir, todo, list, cur, rst, during, silent>>
    BY <1>6 DEF MakeLink, Linkable, TypeOK
  <2>2. dump[lbdir][cur.path] \in during[cur.path]
    BY <1>6, <2>1 DEF MakeLink, LinksFresh
  <2>3. dump'[bdir][cur.path] \in during[cur.path]
    BY <2>1, <2>2 DEF Dumps
  <2>4. \A f \in Files : f # cur.path => dump'[bdir][f] = dump[bdir][f]
    BY <2>1 DEF Dumps
  <2>5. \A n \in Nodes : InHand(n) => (InHand(n))'
    BY <2>1, <2>3, <2>4 DEF InHand
  <2> QED
    BY <2>1, <2>5, StillInHand DEF Lined, SelfLined, AtEntry
<1>7. CASE WriteTar \/ LinkFails
  <2>1. /\ pc = "visit" /\ pc' = "journal" /\ list' = list \cup {cur.path}
        /\ UNCHANGED <<src, jnl, dump, made, bdir, todo, cur, rst, during, silent>>
    BY <1>7 DEF WriteTar, LinkFails, ListForTar
  <2> QED
    BY <2>1, StillInHand DEF InHand, Lined, SelfLined, AtEntry
<1>8. CASE WriteJournal
  <2>1. /\ pc = "journal" /\ pc' = "walk"
        /\ UNCHANGED <<src, dump, made, bdir, todo, list, rst, during, silent>>
        /\ cur.path \in Paths
        /\ jnl' = [jnl EXCEPT !.line[cur.path] = cur.at] /\ jnl \in JournalType
    BY <1>8 DEF WriteJournal, NewLine, TypeOK, Entered
  <2>2. jnl'.line[cur.path] = cur.at /\ \A p \in Paths \ {cur.path} : jnl'.line[p] = jnl.line[p]
    BY <2>1 DEF JournalType
  <2>3. cur.path = Journal => cur.at # 0
    BY <2>1
  <2>4. \A n \in Nodes : InHand(n) => (InHand(n))'
    BY <2>1 DEF InHand
  <2>5. \A f \in Files : Lined(f) => (Lined(f))'
    <3>1. \A f \in Files : src[f].at # 0 /\ (cur.path = f => jnl.line[f] = 0)
      BY <2>1, DayFacts DEF TypeOK, Source
    <3> QED
      BY <2>1, <2>2, <3>1 DEF Lined, AtEntry
  <2>6. SelfLined => SelfLined'
    BY <2>1, <2>2, <2>3 DEF SelfLined, AtEntry
  <2> QED
    BY <2>1, <2>4, <2>5, <2>6, StillInHand
<1>9. CASE CloseFiles
  <2>1. /\ pc = "walk" /\ pc' = "tar" /\ todo = {}
        /\ UNCHANGED <<src, jnl, dump, made, bdir, todo, list, cur, rst, during, silent>>
    BY <1>9 DEF CloseFiles
  <2> QED
    BY <2>1, StillInHand DEF InHand, Lined, SelfLined, AtEntry
<1>10. CASE CloseFails \/ WriteFails \/ \E d \in Dirs : DirFails(d) \/ ParentLost(d)
  BY <1>1, <1>10 DEF Walk, CloseFails, WriteFails, DirFails, ParentLost
<1> QED
  BY <1>1, <1>2, <1>3, <1>4, <1>5, <1>6, <1>7, <1>8, <1>9, <1>10 DEF Walk

\* tar copies what is listed, or says that it did not.
LEMMA CopyInHand ==
    ASSUME TypeOK, LinesPast, StampsPast, LinksFresh, FreshStamps, NothingLost, Copy
    PROVE  NothingLost'
<1> USE TreeAssumption DEF Goto, Ends, world, disk, proc, ghost, Nodes, Paths
<1>1. ASSUME NEW p \in Paths, TarCopy(p) PROVE NothingLost'
  <2>1. /\ pc = "tar" /\ pc' = "tar" /\ list' = list \ {p} /\ bdir \in Day /\ dump \in Dumps
        /\ dump' = IF p \in Files THEN [dump EXCEPT ![bdir][p] = src[p].ver] ELSE dump
        /\ p \in Files => src[p].there
        /\ UNCHANGED <<src, jnl, made, bdir, todo, cur, rst, during, silent>>
    BY <1>1 DEF TarCopy, TypeOK
  <2>2. p \in Files => dump'[bdir][p] \in during[p]
    BY <2>1, DayFacts DEF LinksFresh, Held, Dumps
  <2>3. \A f \in Files \ {p} : dump'[bdir][f] = dump[bdir][f]
    BY <2>1 DEF Dumps
  <2>4. \A n \in Nodes : InHand(n) => (InHand(n))'
    BY <2>1, <2>2, <2>3 DEF InHand
  <2> QED
    BY <2>1, <2>4 DEF NothingLost, InHand, Writing, Untouched, Held, Lined, SelfLined, AtEntry
<1>2. ASSUME NEW f \in Files, TarMisses(f) \/ TarFails(f) PROVE NothingLost'
  <2>1. /\ pc = "tar" /\ pc' = "tar" /\ ~rst'
        /\ UNCHANGED <<src, jnl, made, bdir, todo, cur, during, silent>>
    BY <1>2 DEF TarMisses, TarFails
  <2> QED
    BY <2>1 DEF NothingLost, InHand, Writing, Untouched, Held, Lined, SelfLined, AtEntry
<1>3. ASSUME NEW f \in Files, TarRaced(f) PROVE NothingLost'
  <2>1. /\ pc = "tar" /\ pc' = "tar" /\ ~rst' /\ Changed(f, TRUE) /\ bdir # 0
        /\ UNCHANGED <<jnl, made, bdir, todo, cur, silent>>
    BY <1>3 DEF TarRaced, TypeOK
  <2>2. \A g \in Files : (Untouched(g))' => Untouched(g) /\ src'[g] = src[g]
    BY <2>1, TouchedFacts
  <2> QED
    BY <2>1, <2>2 DEF NothingLost, Writing, Lined, SelfLined, AtEntry
<1>4. CASE TarStops
  <2>1. /\ pc = "tar" /\ pc' = "tar" /\ ~rst'
        /\ UNCHANGED <<src, jnl, made, bdir, todo, cur, during, silent>>
    BY <1>4 DEF TarStops
  <2> QED
    BY <2>1 DEF NothingLost, InHand, Writing, Untouched, Held, Lined, SelfLined, AtEntry
<1>5. CASE Finish
  BY <1>5 DEF Finish, Ends, NothingLost, Writing
<1> QED
  BY <1>1, <1>2, <1>3, <1>4, <1>5 DEF Copy

\* Every step keeps in hand what is not logged as lost.
LEMMA InHandNext ==
    ASSUME TypeOK, LinesPast, StampsPast, LinksFresh, FreshStamps, NothingLost,
           pc = "open" => made[bdir] \subseteq {Root},
           pc = "journal" /\ cur.path = Journal => cur.at # 0,
           pc = "journal" /\ cur.path \in Files => jnl.line[cur.path] = 0, [Next]_vars
    PROVE  NothingLost'
<1>1. CASE Tick \/ UNCHANGED vars
  BY <1>1 DEF NothingLost, Writing, InHand, Untouched, Held, Lined, SelfLined, AtEntry, Tick, vars, world,
     disk, proc, ghost
<1>2. CASE ChkDest \/ ChkDestFails \/ Leave \/ Die
  <2>1. pc' \in {"source", "relink", "exit", "idle"}
    BY <1>2 DEF ChkDest, ChkDestFails, Leave, Restore, RestoreFails, Relink, RelinkFails, Gone, Die, Goto, Ends
  <2> QED
    BY <2>1 DEF NothingLost, Writing
<1> QED
  BY <1>1, <1>2, EditInHand, PrepareInHand, WalkInHand, CopyInHand DEF Next, Run

\* The walk ends with nothing left to return, and who gives up does not exit 0.
LEMMA WaysOut == TypeOK /\ WalkedOut /\ GivenUp /\ [Next]_vars => WalkedOut' /\ GivenUp'
<1> SUFFICES ASSUME TypeOK, WalkedOut, GivenUp, [Next]_vars PROVE WalkedOut' /\ GivenUp'
  OBVIOUS
<1> USE DEF WalkedOut, GivenUp, Goto, Ends, GivesUp, proc
<1>1. CASE Tick \/ UNCHANGED vars \/ \E f \in Files : Edit(f)
  BY <1>1 DEF Tick, Edit, vars
<1>2. CASE ChkDest \/ ChkDestFails \/ Prepare
  BY <1>2 DEF ChkDest, ChkDestFails, Prepare, NoJournalYet, MoveAside, MoveAsideCuts,
     MoveAsideFails, LoadJournal, Refuse, LoadFails, OpenFiles, OpenFilesFails, SourceUnread
<1>3. CASE Walk
  BY <1>3 DEF Walk, Lstat, LstatFails, EnterDir, SkipDir, DirFails, ParentLost, MakeLink, WriteTar,
     ListForTar, LinkFails, WriteJournal, WriteFails, CloseFiles, CloseFails
<1>4. CASE Copy
  BY <1>4 DEF Copy, TarCopy, TarMisses, TarRaced, TarFails, TarStops, Finish
<1>5. CASE Leave \/ Die
  BY <1>5 DEF Leave, Restore, RestoreFails, Relink, RelinkFails, Gone, Die
<1> QED
  BY <1>1, <1>2, <1>3, <1>4, <1>5 DEF Next, Run

\* A run becomes one that exited 0 by Finish only, and what it left stays.
LEMMA CleanExitFacts ==
    ASSUME TypeOK, GivenUp, Next, ~Finish, CleanExit'
    PROVE  /\ CleanExit /\ UNCHANGED <<jnl, dump, bdir, again>>
           /\ UNCHANGED <<src, during>> \/ \E f \in Files : Edit(f)
<1> USE DEF CleanExit, Goto, Ends, GivesUp, GivenUp, disk, proc, ghost, world
<1>1. CASE Tick \/ \E f \in Files : Edit(f)
  BY <1>1 DEF Tick, Edit
<1>2. CASE ChkDest \/ ChkDestFails \/ Prepare
  BY <1>2 DEF ChkDest, ChkDestFails, Prepare, NoJournalYet, MoveAside, MoveAsideCuts,
     MoveAsideFails, LoadJournal, Refuse, LoadFails, OpenFiles, OpenFilesFails, SourceUnread
<1>3. CASE Walk
  BY <1>3 DEF Walk, Lstat, LstatFails, EnterDir, SkipDir, DirFails, ParentLost, MakeLink, WriteTar,
     ListForTar, LinkFails, WriteJournal, WriteFails, CloseFiles, CloseFails
<1>4. CASE Copy /\ ~Finish
  BY <1>4 DEF Copy, TarCopy, TarMisses, TarRaced, TarFails, TarStops
<1>5. CASE Leave \/ Die
  BY <1>5 DEF Leave, Restore, RestoreFails, Relink, RelinkFails, Gone, Die
<1> QED
  BY <1>1, <1>2, <1>3, <1>4, <1>5 DEF Next, Run

\* When a run exits 0 it has copied or linked what it had in hand.
LEMMA FinishComplete ==
    ASSUME TypeOK, FutureEmpty, NothingLost, WalkedOut, Finish, CleanExit'
    PROVE  SnapshotComplete'
<1>1. /\ pc = "tar" /\ list = {} /\ rst /\ ~silent /\ UNCHANGED <<dump, bdir, during>>
  BY DEF Finish, Ends, CleanExit, world, proc, ghost
<1>2. ASSUME NEW f \in Files, 0 \notin during[f] PROVE dump[bdir][f] \in during[f]
  <2>1. InHand(f)
    BY <1>1, AllEntered DEF NothingLost, Writing, Nodes
  <2> QED
    BY <1>1, <1>2, <2>1, TreeAssumption DEF InHand, WalkedOut
<1> QED
  BY <1>1, <1>2 DEF SnapshotComplete

\* What is left when a run exits 0 is what its invariants say at that moment.
LEMMA FinishCanLink ==
    ASSUME TypeOK, FutureEmpty, NothingLost, WalkedOut, Finish, CleanExit',
           Writing /\ jnl.line[Journal] # 0 => DayOf[jnl.line[Journal]] = bdir
    PROVE  NextRunCanLink'
<1>1. /\ pc = "tar" /\ list = {} /\ rst /\ ~silent
      /\ UNCHANGED <<src, jnl, dump, bdir, during>>
  BY DEF Finish, Ends, CleanExit, world, proc, ghost
<1>2. jnl.line[Journal] # 0 /\ DayOf[jnl.line[Journal]] = bdir
  BY <1>1 DEF NothingLost, WalkedOut, SelfLined, Writing, AtEntry
<1>3. ASSUME NEW f \in Files, Untouched(f)
      PROVE  Vouches(jnl, f) /\ dump[bdir][f] = Held(f)
  <2>1. Parent[f] \in made[bdir] /\ todo = {}
    BY <1>1, AllEntered DEF WalkedOut, Nodes
  <2>2. jnl.line[f] = src[f].at
    BY <1>1, <1>3, <2>1 DEF NothingLost, Lined, Writing, AtEntry
  <2>3. InHand(f)
    BY <1>1, <2>1 DEF NothingLost, Writing, Nodes
  <2>4. dump[bdir][f] = Held(f)
    BY <1>1, <1>3, <2>1, <2>3, TreeAssumption DEF InHand, Untouched
  <2> QED
    BY <1>3, <2>2, <2>4 DEF Vouches, Untouched, Held
<1> QED
  BY <1>1, <1>2, <1>3 DEF NextRunCanLink, Untouched, Vouches, Held

\* What a run that exited 0 has dumped, and left for the next one, stays as it is.
LEMMA CompleteStays ==
    ASSUME TypeOK, LinesPast, StampsPast, LinksFresh, FreshStamps, GivenUp, [Next]_vars, ~Finish
    PROVE  /\ SnapshotComplete => SnapshotComplete'
           /\ NextRunCanLink => NextRunCanLink'
           /\ CleanExit' => CleanExit /\ again' = again
<1>1. CASE UNCHANGED vars
  BY <1>1 DEF vars, world, disk, proc, ghost, SnapshotComplete, NextRunCanLink, CleanExit, Held, Vouches
<1>2. CASE Next /\ ~CleanExit'
  BY <1>2 DEF SnapshotComplete, NextRunCanLink
<1>3. CASE Next /\ CleanExit'
  <2>1. CleanExit /\ UNCHANGED <<jnl, dump, bdir, again>>
    BY <1>3, CleanExitFacts
  <2>2. CASE UNCHANGED <<src, during>>
    BY <2>1, <2>2 DEF SnapshotComplete, NextRunCanLink, Held, Vouches
  <2>3. ASSUME NEW f \in Files, Edit(f)
        PROVE  /\ SnapshotComplete => SnapshotComplete'
               /\ NextRunCanLink => NextRunCanLink'
    <3>1. bdir # 0
      BY <2>1 DEF TypeOK, CleanExit
    <3>2. \A g \in Files : /\ during[g] \subseteq during'[g]
                           /\ (Untouched(g))' => Untouched(g) /\ src'[g] = src[g]
      BY <2>3, <3>1, TouchedFacts DEF Edit
    <3> QED
      BY <2>1, <3>2 DEF SnapshotComplete, NextRunCanLink, Untouched, Held, Vouches
  <2> QED
    BY <1>3, <2>1, <2>2, <2>3, CleanExitFacts
<1> QED
  BY <1>1, <1>2, <1>3

----------------------------------------------------------------------------
\* One run a day.

\* The invariant behind SnapshotComplete and NextRunCanLink.
SnapInv == NothingLost /\ WalkedOut /\ GivenUp /\ SnapshotComplete

\* What it rests on is in the invariant behind the journal.
LEMMA JournalGives ==
    ASSUME JournalInv
    PROVE  /\ LinesPast /\ StampsPast /\ LinksFresh /\ FutureEmpty
           /\ pc = "open" => made[bdir] \subseteq {Root}
           /\ pc = "journal" /\ cur.path = Journal => cur.at # 0
           /\ pc = "journal" /\ cur.path \in Files => jnl.line[cur.path] = 0
  BY DEF JournalInv, CleanStart, RunStamps, OnceEach, Writing, AtEntry

\* Every step keeps the invariant.
LEMMA SnapNext ==
    ASSUME Careful
    PROVE  TypeOK /\ JournalInv /\ SnapInv /\ [Next]_vars => SnapInv'
<1> SUFFICES ASSUME TypeOK, JournalInv, SnapInv, [Next]_vars PROVE SnapInv'
  OBVIOUS
<1>1. NothingLost'
  BY InHandNext, JournalGives DEF SnapInv, Careful
<1>2. WalkedOut' /\ GivenUp'
  BY WaysOut DEF SnapInv
<1>3. SnapshotComplete'
  BY FinishComplete, CompleteStays, JournalGives DEF SnapInv, Careful, SnapshotComplete
<1> QED
  BY <1>1, <1>2, <1>3 DEF SnapInv

\* The invariants hold throughout.
LEMMA AlwaysInHand == ASSUME Careful PROVE Spec => [](TypeOK /\ JournalInv /\ SnapInv)
<1>1. Init => SnapInv
  BY DEF Init, SnapInv, NothingLost, WalkedOut, GivenUp, SnapshotComplete, CleanExit, Writing
<1> QED
  BY <1>1, SnapNext, Typing, JournalInvariant, PTL DEF Spec

\* A run that exits 0 has dumped every file that was there while it ran, in a version of
\* that time, whatever runs before it left, and whatever was edited or failed meanwhile.
THEOREM SnapshotIsComplete == ASSUME Careful PROVE Spec => []SnapshotComplete
<1>1. SnapInv => SnapshotComplete
  BY DEF SnapInv
<1> QED
  BY <1>1, AlwaysInHand, PTL

\* Every step keeps what a run that exited 0 has left for the next.
LEMMA CanLinkNext ==
    ASSUME Careful
    PROVE  TypeOK /\ JournalInv /\ SnapInv /\ DatedInv /\ NextRunCanLink /\ [Next]_vars =>
               NextRunCanLink'
<1> SUFFICES ASSUME TypeOK, JournalInv, SnapInv, DatedInv, NextRunCanLink, [Next]_vars
             PROVE  NextRunCanLink'
  OBVIOUS
<1>1. Writing /\ jnl.line[Journal] # 0 => DayOf[jnl.line[Journal]] = bdir
  BY DEF DatedInv, TodaysRun, Writing
<1>2. CASE Finish /\ CleanExit'
  BY <1>1, <1>2, FinishCanLink, JournalGives DEF SnapInv
<1>3. CASE ~Finish \/ ~CleanExit'
  BY <1>3, CompleteStays, JournalGives DEF SnapInv, Careful, NextRunCanLink
<1> QED
  BY <1>2, <1>3

\* If no run lasts past midnight, a run that exits 0 leaves a journal from which the next
\* one links every file that has not changed since.
THEOREM NextRunLinks == ASSUME Careful, SameDayRuns PROVE Spec => []NextRunCanLink
<1>1. Init => NextRunCanLink
  BY DEF Init, NextRunCanLink, CleanExit
<1> QED
  BY <1>1, AlwaysInHand, AlwaysDated, CanLinkNext, PTL DEF Spec

----------------------------------------------------------------------------
\* Several runs a day.

\* Failed calls are counted: once tar leaves nothing out it stays so, it does not fail then,
\* and after a write that failed it is so; likewise with a journal that is to be thrown away.
LEMMA TarFacts ==
    ASSUME TypeOK, NEW k, Fault(k) \/ nfaults' = nfaults
    PROVE  /\ TarSure => TarSure'
           /\ Fault("tar") => ~TarSure
           /\ RestoreSure => RestoreSure'
           /\ Fault("unlink") => ~RestoreSure
           /\ MadeGood /\ Fault("write") => TarSure' /\ RestoreSure'
<1>1. nfaults \in Nat /\ MaxFaults \in Nat /\ nfaults' \in {nfaults, nfaults + 1}
  BY BoundAssumption DEF TypeOK, Fault
<1> QED BY <1>1 DEF TarSure, RestoreSure, MadeGood, Fault

\* No process is killed and no line is lost when it was written.
LEMMA NoneKilled ==
    ASSUME MadeGood
    PROVE  ~Die /\ ~CloseFails /\ ~Fault("torn")
  BY DEF MadeGood, Die, CloseFails, Fault

\* A journal's lines are of days up to the present.
LEMMA LineDays ==
    ASSUME TypeOK, OneDate, NEW j \in {jnl, old}, j.line[Journal] # 0
    PROVE  /\ DayOf[j.line[Journal]] \in Day /\ DayOf[j.line[Journal]] <= DayOf[now]
           /\ bdir # 0 /\ DayOf[j.line[Journal]] # bdir => bdir > DayOf[j.line[Journal]]
<1>1. j.line[Journal] \in Time /\ now \in Time /\ j.line[Journal] <= now
  BY DayFacts, LineFacts DEF TypeOK, OneDate
<1>2. DayOf[j.line[Journal]] <= DayOf[now] /\ DayOf[j.line[Journal]] \in Nat /\ DayOf[now] \in Nat
  BY <1>1, ClockAssumption
<1>3. bdir # 0 => bdir = DayOf[now]
  BY DEF OneDate
<1>4. DayOf[j.line[Journal]] \in Day
  BY <1>1, DayFacts
<1> QED BY <1>1, <1>2, <1>3, <1>4

\* What has no line of its own vouches for nothing, and with fewer lines a journal vouches for
\* less; nor does it matter to a journal what the dumps of other days have.
LEMMA RedeemedFacts ==
    ASSUME TypeOK, NEW j \in JournalType, Redeemed(j), NEW k,
           \A p \in Paths : k.line[p] \in {0, j.line[p]}
    PROVE  Redeemed(k)
<1>1. Journal \in Paths /\ \A f \in Files : f \in Paths /\ src[f].at # 0
  BY DayFacts DEF TypeOK, Source, Paths
<1> QED BY <1>1 DEF Redeemed, Vouches, Backed

\* A journal with nothing in it vouches for nothing.
LEMMA EmptyRedeemed == Redeemed(NoJournal) /\ Redeemed(EmptyJournal)
  BY DEF Redeemed, NoJournal, EmptyJournal, NoLines, Paths

\* The initial state satisfies the invariant.
LEMMA RetryInit == TypeOK /\ Init => RetryInv
<1> SUFFICES ASSUME TypeOK, Init PROVE RetryInv
  OBVIOUS
<1>1. \A j \in {jnl, old} : \A p \in Paths : j.line[p] = 0
  BY DEF Init, NoJournal, NoLines
<1>2. \A f \in Files : src[f].at = now /\ now \in Nat \ {0}
  BY DayFacts DEF Init, TypeOK
<1>3. LinesPast /\ StampsPast /\ OneDate
  BY <1>1, <1>2 DEF Init, LinesPast, StampsPast, OneDate, AtEntry, Writing, Paths
<1>4. PromisesKept /\ LinksReplaced
  BY <1>1, EmptyRedeemed DEF Init, PromisesKept, LinksReplaced, InUse, Writing, Paths
<1>5. ThrownAway
  BY <1>1 DEF Init, ThrownAway, Writing, Paths
<1> QED
  BY <1>3, <1>4, <1>5 DEF Init, RetryInv, FutureEmpty, NothingYet, ParentsThere, OneVisit, LastDay, LinksFresh,
     Writing, AtEntry

\* A journal with a date is there, and that of a run that gives up is thrown away for sure.
LEMMA ThrownNext ==
    ASSUME TypeOK, TypeOK', ThrownAway, MadeGood, [Next]_vars
    PROVE  ThrownAway'
<1> USE DEF Goto, Ends, GivesUp, NoFault, world, disk, proc, ghost, Writing
<1>1. /\ Journal \in Paths /\ NoJournal.line[Journal] = 0
      /\ EmptyJournal.line[Journal] = 0 /\ EmptyJournal.there
  BY DEF NoJournal, EmptyJournal, NoLines, Paths
<1>2. ASSUME NEW j \in JournalType, j.line[Journal] # 0 => j.there, NEW k \in Remains(j)
      PROVE  /\ k.there = j.there /\ k.line[Journal] \in {0, j.line[Journal]}
             /\ k.line[Journal] # 0 => k.there
  BY <1>1, <1>2 DEF Remains
<1>3. jnl \in JournalType /\ old \in JournalType
  BY DEF TypeOK
<1>4. (\E k : Fault(k)) \/ nfaults' = nfaults => (RestoreSure => RestoreSure')
  BY TarFacts
<1>5. CASE Tick \/ UNCHANGED vars \/ \E f \in Files : Edit(f)
  BY <1>5 DEF Tick, Edit, vars, ThrownAway, RestoreSure
<1>6. CASE ChkDest \/ ChkDestFails
  BY <1>6 DEF ChkDest, ChkDestFails, Start, ThrownAway
<1>7. CASE NoJournalYet \/ LoadJournal \/ Refuse \/ LoadFails \/ MoveAsideFails
  BY <1>7 DEF NoJournalYet, LoadJournal, Refuse, LoadFails, MoveAsideFails, ThrownAway
<1>8. CASE MoveAside \/ MoveAsideCuts
  BY <1>1, <1>2, <1>3, <1>8 DEF MoveAside, MoveAsideCuts, ThrownAway
<1>9. CASE OpenFiles \/ OpenFilesFails \/ SourceUnread
  BY <1>1, <1>9 DEF OpenFiles, OpenFilesFails, SourceUnread, ThrownAway
<1>10. CASE WriteJournal
  <2>1. jnl'.there = jnl.there /\ pc = "journal" /\ pc' = "walk" /\ old' = old
    BY <1>3, <1>10 DEF WriteJournal, JournalType
  <2> QED BY <2>1 DEF ThrownAway
<1>11. CASE CloseFiles
  BY <1>1, <1>11 DEF CloseFiles, OldAfterWalk, ThrownAway
<1>12. CASE WriteFails
  <2>1. /\ pc \in {"visit", "journal"} /\ pc' = "restore" /\ RestoreSure' /\ jnl' = jnl /\ old' = old
    BY <1>12, TarFacts DEF WriteFails
  <2> QED BY <2>1 DEF ThrownAway
<1>13. CASE /\ Walk /\ ~WriteJournal /\ ~CloseFiles /\ ~WriteFails
  <2>1. jnl' = jnl /\ old' = old /\ Writing /\ Writing'
    BY <1>13, NoneKilled DEF Walk, Lstat, LstatFails, EnterDir, SkipDir, DirFails, ParentLost, MakeLink,
       WriteTar, ListForTar, LinkFails
  <2> QED BY <2>1 DEF ThrownAway
<1>14. CASE Copy
  <2>1. /\ old' = old /\ pc = "tar"
        /\ \/ pc' = "tar" /\ jnl' = jnl
           \/ pc' = "exit" /\ jnl' \in {jnl, NoJournal}
    BY <1>14 DEF Copy, TarCopy, TarMisses, TarRaced, TarFails, TarStops, Finish
  <2> QED BY <1>1, <2>1 DEF ThrownAway
<1>15. CASE Leave
  BY <1>1, <1>2, <1>3, <1>15 DEF Leave, Restore, RestoreFails, Relink, RelinkFails, Gone, ThrownAway
<1> QED
  BY <1>5, <1>6, <1>7, <1>8, <1>9, <1>10, <1>11, <1>12, <1>13, <1>14, <1>15, NoneKilled
     DEF Next, Run, Prepare

\* Time passes, up to midnight while a run is going on.
LEMMA RetryTick == ASSUME TypeOK, TypeOK', RetryInv, ThrownAway', MadeGood, Tick PROVE RetryInv'
<1>1. /\ now \in Time /\ now' = now + 1 /\ now' \in Time /\ DayOf[now] <= DayOf[now']
      /\ bdir # 0 => DayOf[now'] = bdir
      /\ UNCHANGED <<src, disk, pc, proc, exit, nfaults, ghost>>
  BY ClockAssumption DEF Tick, TypeOK, Time, MadeGood
<1>2. DayOf[now] \in Nat /\ DayOf[now'] \in Nat /\ \A d \in Day : d \in Nat
  BY <1>1, ClockAssumption, DayNat
<1>3. FutureEmpty'
  <2>1. \A d \in Day : d > DayOf[now'] => d > DayOf[now]
    BY <1>1, <1>2
  <2> QED BY <1>1, <2>1 DEF RetryInv, FutureEmpty, disk, proc
<1>4. StampsPast'
  <2>1. \A f \in Files : src[f].at \in Nat /\ now \in Nat
    BY DayFacts DEF TypeOK, Source
  <2> QED BY <1>1, <2>1 DEF RetryInv, StampsPast, AtEntry, proc
<1>5. OneDate'
  <2>1. \A j \in {jnl, old} : j.line[Journal] \in Nat /\ now \in Nat
    BY DayFacts, LineFacts, ClockAssumption DEF TypeOK, Stamp
  <2> QED BY <1>1, <2>1 DEF RetryInv, OneDate, Writing, AtEntry, disk, proc
<1>6. PromisesKept' /\ LinksReplaced'
  BY <1>1 DEF RetryInv, PromisesKept, LinksReplaced, Redeemed, Vouches, Backed, InUse, Linked, TarSure,
     Writing, disk, proc
<1>7. LinesPast' /\ NothingYet' /\ ParentsThere' /\ OneVisit' /\ LastDay' /\ LinksFresh'
  BY <1>1 DEF RetryInv, LinesPast, NothingYet, ParentsThere, OneVisit, LastDay, LinksFresh, Held,
     Unchanged, Writing, AtEntry, disk, proc, ghost
<1> QED BY <1>3, <1>4, <1>5, <1>6, <1>7 DEF RetryInv

\* A change of a file takes away what its lines vouch for, and nothing else.
LEMMA RetryEdit ==
    ASSUME TypeOK, TypeOK', RetryInv, ThrownAway', MadeGood, NEW f \in Files, Edit(f)
    PROVE  RetryInv'
<1>1. PICK here \in BOOLEAN : Changed(f, here)
  BY DEF Edit
<1>2. UNCHANGED <<now, disk, pc, proc, exit, nfaults, before, silent, again>>
  BY DEF Edit
<1> USE <1>2 DEF RetryInv, disk, proc
<1>3. /\ \A g \in Files \ {f} : src'[g] = src[g]
      /\ src'[f].at = now /\ src[f].at < now
      /\ jnl.line[f] # src'[f].at /\ old.line[f] # src'[f].at
      /\ AtEntry /\ cur.path = f => cur.at # src'[f].at
      /\ bdir # 0 => \A g \in Files : during[g] \subseteq during'[g]
      /\ (bdir # 0 /\ \A g \in Files : Held(g) \in during[g]) =>
            \A g \in Files : (Held(g))' \in during'[g]
  BY <1>1, ChangedFacts DEF MadeGood
<1>4. \A g \in Files : src[g].at \in Nat /\ src[g].at <= src'[g].at /\ src'[g].at \in Nat
  <2>1. \A g \in Files : src[g].at \in Nat /\ src'[g].at \in Nat
    BY DayFacts DEF TypeOK, Source
  <2> QED BY <1>3, <2>1
<1>5. LinesPast'
  BY <1>3, <1>4, LineFacts, ClockAssumption DEF LinesPast, TypeOK, Stamp, Paths
<1>6. StampsPast'
  <2>1. cur.at \in Nat /\ now \in Nat
    BY ClockAssumption, DayFacts DEF TypeOK, Entered, Stamp
  <2> QED BY <1>3, <1>4, <2>1 DEF StampsPast, AtEntry
<1>7. \A g \in Files : /\ Vouches(jnl, g)' => Vouches(jnl, g) /\ src'[g] = src[g]
                       /\ Vouches(old, g)' => Vouches(old, g) /\ src'[g] = src[g]
  BY <1>3 DEF Vouches
<1>8. PromisesKept'
  <2>1. Redeemed(old)'
    BY <1>7 DEF PromisesKept, Redeemed, Backed
  <2>2. (~Writing /\ pc # "restore" => Redeemed(jnl))'
    BY <1>7 DEF PromisesKept, Redeemed, Backed, Writing
  <2> QED BY <1>3, <1>7, <2>1, <2>2 DEF PromisesKept, Writing, AtEntry
<1>9. LinksReplaced'
  BY DEF LinksReplaced, InUse, Linked, TarSure
<1>10. LinksFresh'
  BY <1>3 DEF LinksFresh, Unchanged, TypeOK
<1>11. OneDate' /\ FutureEmpty' /\ NothingYet' /\ ParentsThere' /\ OneVisit' /\ LastDay'
  BY DEF OneDate, FutureEmpty, NothingYet, ParentsThere, OneVisit, LastDay, Writing, AtEntry
<1> QED BY <1>5, <1>6, <1>8, <1>9, <1>10, <1>11

\* A run starts: on a day that has no dump, in an empty directory.
LEMMA RetryStart ==
    ASSUME TypeOK, TypeOK', RetryInv, ThrownAway', ChkDest \/ ChkDestFails
    PROVE  RetryInv'
<1> DEFINE today == DayOf[now]
<1>1. today \in Day /\ today # 0
  BY DayFacts DEF TypeOK
<1>2. /\ Start /\ pc' \in {"source", "exit"} /\ (pc' = "exit" => exit' # "ok")
      /\ made' = [made EXCEPT ![today] = @ \cup {Root}] \/ made' = made
      /\ pc' = "source" => made' = [made EXCEPT ![today] = @ \cup {Root}]
      /\ \E k : Fault(k) \/ nfaults' = nfaults
  BY DEF ChkDest, ChkDestFails, Goto, Ends, NoFault
<1>3. /\ pc = "idle" /\ bdir = 0 /\ bdir' = today /\ again' = (Root \in made[today])
      /\ \A f \in Files : during'[f] = {Held(f)}
      /\ UNCHANGED <<world, jnl, dump, type, old, lbdir, todo, list, cur, born>>
  BY <1>2 DEF Start, TypeOK
<1>4. /\ Root \notin made[today] => made[today] = {}
      /\ \A d \in Day \ {today} : made'[d] = made[d]
      /\ made'[today] \in {made[today], made[today] \cup {Root}}
      /\ pc' = "source" => made'[today] = made[today] \cup {Root}
  BY <1>1, <1>2, <1>3 DEF RetryInv, FutureEmpty, TypeOK, Trees
<1>5. FutureEmpty'
  <2>1. ~(today > today) /\ now' = now
    BY <1>1, <1>3, DayNat DEF world
  <2>2. \A d \in Day : d > today => Root \notin made[d]
    BY DEF RetryInv, FutureEmpty
  <2>3. \A d \in Day : /\ Root \notin made'[d] => made'[d] = {} /\ \A f \in Files : dump[d][f] = 0
                       /\ d > today => Root \notin made'[d]
    BY <1>4, <2>1, <2>2 DEF RetryInv, FutureEmpty
  <2> QED BY <1>2, <1>3, <1>4, <2>1, <2>3 DEF FutureEmpty
<1>6. OneDate' /\ StampsPast' /\ LinesPast' /\ LinksFresh'
  BY <1>2, <1>3 DEF RetryInv, OneDate, StampsPast, LinesPast, LinksFresh, Held, Writing, AtEntry, world
<1>7. NothingYet'
  BY <1>2, <1>3, <1>4 DEF RetryInv, NothingYet, Writing
<1>8. ParentsThere'
  BY <1>1, <1>2, <1>3, <1>4 DEF RetryInv, ParentsThere, Writing, AtEntry
<1>9. PromisesKept'
  BY <1>2, <1>3 DEF RetryInv, PromisesKept, Redeemed, Vouches, Backed, Writing, world
<1>10. LinksReplaced'
  BY <1>2, <1>3, TarFacts DEF RetryInv, LinksReplaced, InUse, Linked
<1>11. OneVisit' /\ LastDay'
  <2>1. type = "none" \/ ~(type = "recurrent" /\ (pc' = "open" \/ pc' = "walk" \/ AtEntry'))
    BY <1>2 DEF AtEntry
  <2> QED BY <1>2 DEF OneVisit, LastDay, Writing, AtEntry
<1> QED BY <1>5, <1>6, <1>7, <1>8, <1>9, <1>10, <1>11 DEF RetryInv

\* A step outside the walk that makes no new line and leaves the dumps alone.
LEMMA RetryAside ==
    ASSUME TypeOK, TypeOK', RetryInv, ThrownAway',
           UNCHANGED <<world, dump, made, bdir, todo, list, during, again>>,
           pc \notin {"idle", "exit"}, pc' \in {"load", "open", "restore", "relink", "exit"},
           pc' \in {"load", "open"} => pc \in {"source", "load"},
           Weaker(jnl'), Weaker(old'), NEW k, Fault(k) \/ nfaults' = nfaults,
           pc \in {"walk", "visit", "journal"} => TarSure',
           InUse'.line[Journal] \in {0, InUse.line[Journal]},
           pc' # "restore" => Redeemed(jnl'), Redeemed(old'),
           pc' = "open" /\ old'.line[Journal] # 0 => DayOf[old'.line[Journal]] # bdir,
           LastDay', pc' = "open" => type' # "none"
    PROVE  RetryInv'
<1> USE DEF world
<1>1. LinesPast'
  BY LinesMoved DEF RetryInv
<1>2. OneDate'
  <2>1. ASSUME NEW j \in {jnl', old'} PROVE j.line[Journal] <= now
    <3>1. PICK i \in {jnl, old} : j.line[Journal] \in {0, i.line[Journal]}
      BY <2>1 DEF Weaker, Paths
    <3>2. 0 <= now
      BY ClockAssumption DEF TypeOK, Time
    <3> QED BY <3>1, <3>2 DEF RetryInv, OneDate
  <2> QED BY <2>1 DEF RetryInv, OneDate, Writing, AtEntry
<1>3. PromisesKept'
  BY DEF PromisesKept, Writing, Redeemed, Vouches, Backed
<1>4. LinksReplaced'
  <2>1. TarSure => TarSure'
    BY TarFacts
  <2> QED BY <2>1 DEF RetryInv, LinksReplaced, Linked
<1>5. StampsPast' /\ ParentsThere'
  BY DEF RetryInv, StampsPast, ParentsThere, Writing, AtEntry
<1>7. FutureEmpty'
  BY DEF RetryInv, FutureEmpty
<1>8. NothingYet'
  BY DEF RetryInv, NothingYet, Writing
<1>6. OneVisit' /\ LinksFresh'
  BY DEF RetryInv, OneVisit, LinksFresh, Held, Writing, AtEntry
<1> QED BY <1>1, <1>2, <1>3, <1>4, <1>5, <1>6, <1>7, <1>8 DEF RetryInv

\* The walk begins, with an empty journal and the entries of the source.
LEMMA RetryWalkBegins ==
    ASSUME TypeOK, TypeOK', RetryInv, ThrownAway', pc = "open", pc' = "walk", jnl' = EmptyJournal, born' = now,
           todo' = Entries(Root) \/ todo' = todo, NEW k, Fault(k) \/ nfaults' = nfaults,
           UNCHANGED <<world, dump, made, bdir, type, old, lbdir, list, during, again>>
    PROVE  RetryInv'
<1> USE DEF RetryInv, world
<1>1. \A f \in Files : jnl'.line[f] = 0 /\ src[f].at # 0
  BY DayFacts DEF EmptyJournal, NoLines, Paths, TypeOK, Source
<1>2. jnl'.line[Journal] = 0
  BY DEF EmptyJournal, NoLines, Paths
<1>3. todo = {} /\ list = {} /\ Root \in made[bdir] /\ (~again => made[bdir] = {Root})
  BY DEF NothingYet, FutureEmpty
<1>4. \A f \in Files : f \in todo' => Parent[f] = Root
  BY <1>3, TreeAssumption DEF Entries
<1>5. LinesPast'
  BY LinesMoved, WeakerFacts
<1>6. OneDate'
  <2>1. now \in Nat /\ now # 0 /\ bdir = DayOf[now]
    BY DayFacts DEF TypeOK, OneDate
  <2> QED BY <1>2, <2>1 DEF OneDate, Writing, AtEntry
<1>7. ParentsThere'
  BY <1>1, <1>3, <1>4 DEF ParentsThere, Writing, AtEntry
<1>8. OneVisit'
  BY <1>1, <1>3 DEF OneVisit, Writing, AtEntry
<1>9. PromisesKept'
  BY <1>1 DEF PromisesKept, Redeemed, Vouches, Backed, Writing
<1>10. LinksReplaced'
  <2>1. (TarSure => TarSure') /\ InUse' = InUse /\ InUse = old /\ \A f \in Files : ~Linked(f)
    BY TarFacts DEF InUse, Linked
  <2> QED BY <2>1 DEF LinksReplaced
<1>11. StampsPast' /\ FutureEmpty' /\ NothingYet' /\ LastDay' /\ LinksFresh'
  BY <1>3 DEF StampsPast, FutureEmpty, NothingYet, LastDay, LinksFresh, Held, Writing, AtEntry
<1> QED BY <1>5, <1>6, <1>7, <1>8, <1>9, <1>10, <1>11

\* Before the walk.
LEMMA RetryPrepare ==
    ASSUME TypeOK, TypeOK', RetryInv, ThrownAway', MadeGood, Prepare
    PROVE  RetryInv'
<1> USE TarFacts, WeakerFacts DEF Goto, Ends, GivesUp, NoFault, world, disk, proc, ghost
<1>1. CASE OpenFiles
  BY <1>1, RetryWalkBegins DEF OpenFiles
<1>2. CASE SourceUnread
  BY <1>2, RetryWalkBegins DEF SourceUnread
<1>3. Redeemed(old) /\ (~Writing /\ pc # "restore" => Redeemed(jnl))
  BY DEF RetryInv, PromisesKept
<1>4. NoJournal.line[Journal] = 0 /\ EmptyJournal.line[Journal] = 0 /\ Journal \in Paths
  BY DEF NoJournal, EmptyJournal, NoLines, Paths
<1>5. CASE NoJournalYet
  <2>1. old = NoJournal
    BY <1>5 DEF NoJournalYet, RetryInv, NothingYet
  <2> QED BY <1>3, <1>4, <1>5, <2>1, RetryAside DEF NoJournalYet, InUse, LastDay, AtEntry, Writing
<1>6. CASE MoveAside
  BY <1>3, <1>4, <1>6, EmptyRedeemed, RetryAside DEF MoveAside, InUse, LastDay, AtEntry, Writing
<1>7. CASE MoveAsideCuts
  <2>1. old' \in JournalType /\ Redeemed(old') /\ old'.line[Journal] \in {0, jnl.line[Journal]}
    BY <1>3, <1>4, <1>7, RemainsFacts, RedeemedFacts DEF MoveAsideCuts, TypeOK, Writing
  <2> QED BY <1>3, <1>4, <1>7, <2>1, EmptyRedeemed, RetryAside DEF MoveAsideCuts, InUse, LastDay, AtEntry
<1>8. CASE MoveAsideFails
  <2>1. \E k : Fault(k)
    BY <1>8 DEF MoveAsideFails
  <2> QED BY <1>3, <1>8, <2>1, RetryAside DEF MoveAsideFails, InUse, LastDay, AtEntry, Writing
<1>9. CASE LoadJournal
  <2>1. LastDay'
    BY <1>9 DEF LoadJournal, LastDay, LastTime, SameDay, AtEntry
  <2> QED BY <1>3, <1>9, <2>1, RetryAside DEF LoadJournal, InUse, Writing, LastTime, SameDay
<1>10. CASE Refuse \/ LoadFails
  BY <1>3, <1>10, RetryAside DEF Refuse, LoadFails, InUse, LastDay, AtEntry
<1>11. CASE OpenFilesFails
  BY <1>3, <1>11, RetryAside DEF OpenFilesFails, InUse, LastDay, AtEntry
<1> QED
  BY <1>1, <1>2, <1>5, <1>6, <1>7, <1>8, <1>9, <1>10, <1>11 DEF Prepare

\* Steps of the walk that leave the dump and the journal alone.
LEMMA RetryWalkOn ==
    ASSUME TypeOK, TypeOK', RetryInv, ThrownAway',
           \/ \E p \in Paths : LstatFails(p)
           \/ \E d \in Dirs : SkipDir(d) \/ ParentLost(d)
           \/ WriteTar \/ LinkFails
    PROVE  RetryInv'
<1> USE DEF RetryInv, world, AtEntry, Writing
<1>1. /\ UNCHANGED <<world, disk, bdir, type, lbdir, old, born, rst, cur, during, again>>
      /\ \E k : Fault(k) \/ nfaults' = nfaults
  BY DEF LstatFails, SkipDir, ParentLost, WriteTar, LinkFails, ListForTar, NoFault, ghost
<1>2. \/ pc = "walk" /\ pc' = "walk" /\ todo' \subseteq todo /\ list' = list
      \/ pc = "visit" /\ pc' = "journal" /\ todo' = todo /\ list' = list \cup {cur.path}
  BY DEF LstatFails, SkipDir, ParentLost, WriteTar, LinkFails, ListForTar, Goto
<1>3. LinesPast' /\ StampsPast' /\ OneDate' /\ FutureEmpty'
  BY <1>1, <1>2 DEF LinesPast, StampsPast, OneDate, FutureEmpty, disk
<1>4. NothingYet' /\ LastDay' /\ LinksFresh'
  BY <1>1, <1>2 DEF NothingYet, LastDay, LinksFresh, Held, Unchanged, disk
<1>5. ParentsThere' /\ OneVisit'
  BY <1>1, <1>2 DEF ParentsThere, OneVisit, disk
<1>6. PromisesKept'
  BY <1>1, <1>2 DEF PromisesKept, Redeemed, Vouches, Backed, disk
<1>7. LinksReplaced'
  <2>1. (TarSure => TarSure') /\ InUse' = InUse /\ \A f \in Files : Linked(f) => (Linked(f))'
    BY <1>1, <1>2, TarFacts DEF InUse, Linked
  <2> QED BY <1>1, <1>2, <2>1 DEF LinksReplaced, disk
<1> QED BY <1>3, <1>4, <1>5, <1>6, <1>7

\* lstat() returns a stamp of the file, or of the journal being written.
LEMMA RetryLstat ==
    ASSUME TypeOK, TypeOK', RetryInv, ThrownAway', NEW p \in Paths, Lstat(p)
    PROVE  RetryInv'
<1> USE DEF RetryInv, world, disk, ghost, Writing, AtEntry
<1>1. /\ pc = "walk" /\ pc' = "visit" /\ p \in todo /\ todo' = todo \ {p} /\ cur'.path = p
      /\ p \in Files => src[p].there /\ cur'.at = src[p].at
      /\ p = Journal => \E t \in born..now : cur'.at = t
      /\ UNCHANGED <<now, src, jnl, dump, made, bdir, type, old, lbdir, list, born, rst, nfaults, during>>
  BY TreeAssumption DEF Lstat, Goto, NoFault
<1>2. StampsPast'
  <2>1. \A f \in Files : src[f].at \in Nat \ {0}
    BY DayFacts DEF TypeOK, Source
  <2> QED BY <1>1, <2>1 DEF StampsPast
<1>3. OneDate'
  <2>1. ASSUME p = Journal PROVE cur'.at \in 1..now /\ DayOf[cur'.at] = bdir
    <3>1. born \in Time /\ DayOf[born] = bdir /\ bdir = DayOf[now] /\ now \in Time
      BY <1>1, DayFacts DEF OneDate, TypeOK
    <3>2. PICK t \in born..now : cur'.at = t
      BY <1>1, <2>1
    <3>3. t \in Time /\ born <= t /\ t <= now
      BY <3>1, <3>2, ClockAssumption DEF Time
    <3>4. DayOf[born] <= DayOf[t] /\ DayOf[t] <= DayOf[now] /\ DayOf[t] \in Nat
      BY <3>1, <3>3, ClockAssumption
    <3>5. bdir \in Nat /\ t \in 1..now
      BY <3>1, <3>3, ClockAssumption, DayFacts
    <3> QED BY <3>1, <3>2, <3>4, <3>5
  <2> QED BY <1>1, <2>1 DEF OneDate
<1>4. LinksFresh'
  <2>1. ASSUME p \in Files, type = "recurrent", old.line[p] = cur'.at
        PROVE  dump[lbdir][p] \in {0} \cup during[p]
    <3>1. Vouches(old, p) /\ old.line[Journal] # 0 /\ lbdir = DayOf[old.line[Journal]]
      BY <1>1, <2>1 DEF Vouches, LastDay
    <3>2. dump[lbdir][p] \in {0, Held(p)}
      BY <1>1, <2>1, <3>1 DEF PromisesKept, Redeemed, Backed, Held
    <3>3. Held(p) \in during[p]
      BY <1>1, <2>1 DEF LinksFresh, TypeOK
    <3> QED BY <3>2, <3>3
  <2> QED BY <1>1, <2>1 DEF LinksFresh, Held, Unchanged
<1>5. LinksReplaced'
  <2>1. InUse' = InUse /\ (TarSure => TarSure') /\ \A f \in Files : Linked(f) => (Linked(f))'
    BY <1>1 DEF InUse, TarSure, Linked
  <2> QED BY <1>1, <2>1 DEF LinksReplaced
<1>6. LinesPast' /\ FutureEmpty' /\ NothingYet' /\ LastDay'
  BY <1>1 DEF LinesPast, FutureEmpty, NothingYet, LastDay
<1>7. ParentsThere' /\ OneVisit'
  BY <1>1 DEF ParentsThere, OneVisit
<1>8. PromisesKept'
  BY <1>1 DEF PromisesKept, Redeemed, Vouches, Backed
<1> QED BY <1>2, <1>3, <1>4, <1>5, <1>6, <1>7, <1>8

\* The walk makes a directory, and may enter it: no file below it was looked at, in this run
\* or in an earlier one of the day.
LEMMA RetryDir ==
    ASSUME TypeOK, TypeOK', RetryInv, ThrownAway', NEW d \in Dirs, EnterDir(d) \/ DirFails(d)
    PROVE  RetryInv'
<1> USE DEF RetryInv, Writing, AtEntry, world
<1>1. /\ pc = "walk" /\ pc' = "walk" /\ bdir \in Day
      /\ made' \in {made, [made EXCEPT ![bdir] = @ \cup {d}]}
      /\ \/ todo' = (todo \ {d}) \cup Entries(d) /\ d \notin made[bdir]
            /\ made' = [made EXCEPT ![bdir] = @ \cup {d}]
         \/ todo' = todo \ {d}
      /\ \E k : Fault(k) \/ nfaults' = nfaults
      /\ UNCHANGED <<world, jnl, dump, bdir, type, old, lbdir, list, cur, born, rst, during, again>>
  BY DEF EnterDir, DirFails, Goto, NoFault, ghost, TypeOK
<1>2. /\ \A e \in Day : made[e] \subseteq made'[e] /\ (e # bdir => made'[e] = made[e])
      /\ made'[bdir] \subseteq made[bdir] \cup {d}
      /\ d \notin made'[bdir] => todo' = todo \ {d}
  BY <1>1 DEF TypeOK, Trees
<1>3. ASSUME NEW f \in Files, f \in todo'
      PROVE  \/ f \in todo
             \/ Parent[f] = d /\ d \notin made[bdir] /\ d \in made'[bdir]
                /\ f \notin list /\ jnl.line[f] = 0 /\ dump[bdir][f] = 0
  <2>1. f \in todo \/ (Parent[f] = d /\ d \notin made[bdir] /\ d \in made'[bdir])
    BY <1>1, <1>2, <1>3, TreeAssumption DEF Entries
  <2> QED BY <1>1, <2>1 DEF ParentsThere
<1>4. ParentsThere'
  BY <1>1, <1>2, <1>3 DEF ParentsThere
<1>5. OneVisit'
  BY <1>1, <1>3 DEF OneVisit
<1>6. LinksReplaced'
  <2>1. InUse' = InUse /\ (TarSure => TarSure')
    BY <1>1, TarFacts DEF InUse
  <2>2. \A f \in Files : Linked(f) /\ dump[bdir][f] # 0 => (Linked(f))'
    BY <1>1, <1>3 DEF Linked
  <2> QED BY <1>1, <2>1, <2>2 DEF LinksReplaced
<1>7. LinesPast' /\ StampsPast' /\ OneDate'
  BY <1>1 DEF LinesPast, StampsPast, OneDate
<1>8. FutureEmpty'
  <2>1. Root \in made[bdir] /\ d # Root
    BY <1>1, TreeAssumption DEF FutureEmpty
  <2> QED BY <1>1, <1>2, <2>1 DEF FutureEmpty
<1>9. NothingYet' /\ LastDay' /\ LinksFresh'
  BY <1>1 DEF NothingYet, LastDay, LinksFresh, Held
<1>10. PromisesKept'
  BY <1>1 DEF PromisesKept, Redeemed, Vouches, Backed
<1> QED BY <1>4, <1>5, <1>6, <1>7, <1>8, <1>9, <1>10

\* A link gives the dump what the source had when lstat() saw it, if it still has it.
LEMMA RetryMakeLink ==
    ASSUME TypeOK, TypeOK', RetryInv, ThrownAway', MakeLink
    PROVE  RetryInv'
<1> DEFINE p == cur.path
<1> USE DEF RetryInv, Writing, AtEntry, world, proc, ghost
<1>1. /\ pc = "visit" /\ pc' = "journal" /\ p \in Files /\ Unchanged /\ bdir \in Day
      /\ nfaults' = nfaults /\ dump[lbdir][p] # 0
      /\ UNCHANGED <<world, jnl, made, proc, ghost>>
  BY DEF MakeLink, Goto, NoFault, Linkable, TypeOK
<1>2. /\ \A d \in Day \ {bdir} : dump'[d] = dump[d]
      /\ \A f \in Files \ {p} : dump'[bdir][f] = dump[bdir][f]
      /\ dump'[bdir][p] = dump[lbdir][p]
      /\ dump[bdir][p] = 0
  BY <1>1 DEF MakeLink, Linkable, TypeOK, Dumps
<1>3. /\ old.line[Journal] # 0 /\ lbdir = DayOf[old.line[Journal]] /\ lbdir # bdir
      /\ old.line[p] = cur.at /\ cur.at # 0
  BY <1>1 DEF LastDay, Unchanged, StampsPast
<1>4. /\ Root \in made[bdir] /\ p \notin list /\ p \notin todo /\ jnl.line[p] = 0
      /\ Parent[p] \in made[bdir]
  BY <1>1 DEF FutureEmpty, OneVisit, ParentsThere
<1>5. FutureEmpty'
  <2>1. \A d \in Day : Root \notin made[d] => \A f \in Files : dump'[d][f] = 0
    BY <1>2, <1>4 DEF FutureEmpty
  <2> QED BY <1>1, <2>1 DEF FutureEmpty
<1>6. ParentsThere'
  BY <1>1, <1>2, <1>4 DEF ParentsThere
<1>7. PromisesKept'
  <2>1. \A f \in Files : Vouches(jnl, f) => f # p
    BY <1>3, <1>4, DayFacts DEF Vouches, TypeOK, Source
  <2>2. src[p].there /\ src[p].at = cur.at => dump'[bdir][p] \in {0, src[p].ver}
    <3>1. Redeemed(old)
      BY DEF PromisesKept
    <3>2. src[p].there /\ src[p].at = cur.at => dump[lbdir][p] \in {0, src[p].ver}
      BY <1>1, <1>3, <3>1 DEF Redeemed, Vouches, Backed
    <3> QED BY <1>2, <3>2
  <2>3. Redeemed(old)'
    <3>1. DayOf[old.line[Journal]] \in Day
      BY <1>3, LineDays
    <3> QED BY <1>1, <1>2, <1>3, <3>1 DEF PromisesKept, Redeemed, Vouches, Backed
  <2> QED BY <1>1, <1>2, <2>1, <2>2, <2>3 DEF PromisesKept, Vouches
<1>8. LinksReplaced'
  <2>1. InUse' = InUse /\ (TarSure => TarSure') /\ (Linked(p))' /\ \A f \in Files : Linked(f) => (Linked(f))'
    BY <1>1, <1>4 DEF InUse, TarSure, Linked
  <2> QED BY <1>1, <1>2, <2>1 DEF LinksReplaced
<1>9. LinesPast' /\ StampsPast' /\ OneDate' /\ NothingYet' /\ OneVisit' /\ LastDay' /\ LinksFresh'
  BY <1>1 DEF LinesPast, StampsPast, OneDate, NothingYet, OneVisit, LastDay, LinksFresh, Held
<1> QED BY <1>5, <1>6, <1>7, <1>8, <1>9

\* A line is written with the stamp that was read before the copy was made.
LEMMA RetryWriteJournal ==
    ASSUME TypeOK, TypeOK', RetryInv, ThrownAway', WriteJournal
    PROVE  RetryInv'
<1> DEFINE p == cur.path
<1> USE DEF RetryInv, Writing, AtEntry, world, ghost
<1>1. /\ pc = "journal" /\ pc' = "walk" /\ p \in Paths /\ nfaults' = nfaults
      /\ UNCHANGED <<world, dump, made, bdir, type, old, lbdir, todo, list, born, rst, ghost>>
  BY DEF WriteJournal, Goto, NoFault, TypeOK, Entered
<1>2. jnl'.line[p] = cur.at /\ \A q \in Paths \ {p} : jnl'.line[q] = jnl.line[q]
  BY <1>1 DEF WriteJournal, NewLine, TypeOK, JournalType
<1>3. Journal \in Paths /\ \A f \in Files : f \in Paths /\ f # Journal
  BY TreeAssumption DEF Paths
<1>4. LinesPast'
  BY <1>1, <1>2, <1>3 DEF LinesPast, StampsPast
<1>5. OneDate'
  <2>1. p = Journal => cur.at <= now /\ DayOf[cur.at] = bdir
    BY <1>1 DEF OneDate
  <2> QED BY <1>1, <1>2, <1>3, <2>1 DEF OneDate
<1>6. PromisesKept'
  BY <1>1, <1>2, <1>3 DEF PromisesKept, Redeemed, Vouches, Backed
<1>7. ParentsThere' /\ OneVisit'
  BY <1>1, <1>2, <1>3 DEF ParentsThere, OneVisit
<1>8. LinksReplaced'
  <2>1. InUse' = InUse /\ (TarSure => TarSure') /\ \A f \in Files : Linked(f) => (Linked(f))'
    BY <1>1 DEF InUse, TarSure, Linked
  <2> QED BY <1>1, <2>1 DEF LinksReplaced
<1>9. StampsPast' /\ FutureEmpty' /\ NothingYet' /\ LastDay' /\ LinksFresh'
  BY <1>1 DEF StampsPast, FutureEmpty, NothingYet, LastDay, LinksFresh, Held
<1> QED BY <1>4, <1>5, <1>6, <1>7, <1>8, <1>9

\* What has no entry is not linked again: the lists are closed, and tar replaces the rest.
LEMMA RetryClose ==
    ASSUME TypeOK, TypeOK', RetryInv, ThrownAway', CloseFiles
    PROVE  RetryInv'
<1> USE DEF RetryInv, Writing, AtEntry, world, disk, ghost
<1>1. /\ pc = "walk" /\ pc' = "tar" /\ todo = {} /\ nfaults' = nfaults
      /\ old' \in {old, NoJournal} /\ (type = "recurrent" => old' = NoJournal)
      /\ UNCHANGED <<world, disk, bdir, type, lbdir, todo, list, cur, born, rst, ghost>>
  BY DEF CloseFiles, OldAfterWalk, Goto, NoFault
<1>2. NoJournal.line[Journal] = 0 /\ \A p \in Paths : NoJournal.line[p] = 0
  BY DEF NoJournal, NoLines, Paths
<1>3. LinesPast'
  BY <1>1, LinesMoved, WeakerFacts
<1>4. OneDate'
  <2>1. 0 <= now
    BY ClockAssumption DEF TypeOK, Time
  <2> QED BY <1>1, <1>2, <2>1 DEF OneDate
<1>5. PromisesKept'
  BY <1>1, <1>2 DEF PromisesKept, Redeemed, Vouches, Backed
<1>6. LinksReplaced'
  <2>1. \A d \in Day : \A f \in Files : d > bdir => dump[d][f] = 0
    BY <1>1 DEF FutureEmpty, TypeOK
  <2>2. /\ InUse' = jnl /\ InUse = old /\ (TarSure => TarSure')
        /\ jnl.line[Journal] # 0 => DayOf[jnl.line[Journal]] = bdir
    BY <1>1 DEF InUse, TarSure, OneDate
  <2>3. ASSUME type = "recurrent" PROVE TarSure \/ \A f \in Files \cap list : dump[bdir][f] = 0
    <3>1. old.line[Journal] # 0 /\ bdir # 0 /\ bdir \in Day /\ DayOf[old.line[Journal]] # bdir
      BY <1>1, <2>3 DEF LastDay, TypeOK
    <3>2. bdir > DayOf[old.line[Journal]]
      BY <3>1, LineDays
    <3> QED BY <2>2, <3>1, <3>2 DEF LinksReplaced, Linked
  <2> QED BY <1>1, <2>1, <2>2, <2>3 DEF LinksReplaced
<1>7. StampsPast' /\ FutureEmpty' /\ NothingYet' /\ ParentsThere' /\ OneVisit' /\ LastDay' /\ LinksFresh'
  BY <1>1 DEF StampsPast, FutureEmpty, NothingYet, ParentsThere, OneVisit, LastDay, LinksFresh, Held
<1> QED BY <1>3, <1>4, <1>5, <1>6, <1>7

\* A failed write gives up: the links stay, and from then on tar leaves nothing out.
LEMMA RetryWriteFails ==
    ASSUME TypeOK, TypeOK', RetryInv, ThrownAway', MadeGood, WriteFails
    PROVE  RetryInv'
<1>1. /\ pc \in {"visit", "journal"} /\ pc' = "restore" /\ Fault("write") /\ TarSure'
      /\ UNCHANGED <<world, disk, proc, ghost>>
  BY TarFacts DEF WriteFails, GivesUp
<1>2. Redeemed(old)
  BY DEF RetryInv, PromisesKept
<1>3. LastDay' /\ InUse' = InUse
  BY <1>1 DEF LastDay, AtEntry, InUse, proc
<1> QED BY <1>1, <1>2, <1>3, RetryAside, WeakerFacts DEF world, disk, proc, ghost

\* The steps of the walk.
LEMMA RetryWalk == ASSUME TypeOK, TypeOK', RetryInv, ThrownAway', MadeGood, Walk PROVE RetryInv'
  BY RetryWalkOn, RetryLstat, RetryDir, RetryMakeLink, RetryWriteJournal, RetryWriteFails, RetryClose,
     NoneKilled DEF Walk

\* A step of tar: what it does to an entry is done to the dump of the run.
LEMMA RetryTar ==
    ASSUME TypeOK, TypeOK', RetryInv, ThrownAway', pc = "tar", pc' = "tar", list' \subseteq list,
           UNCHANGED <<now, jnl, made, bdir, type, old, lbdir, todo, cur, born, again>>,
           \A d \in Day \ {bdir} : dump'[d] = dump[d],
           \A f \in Files : dump'[bdir][f] # dump[bdir][f] => f \in list \ list',
           NEW k, Fault(k) \/ nfaults' = nfaults,
           LinesPast', StampsPast', LinksFresh',
           \A f \in Files : /\ Vouches(jnl, f)' => Vouches(jnl, f) /\ src'[f] = src[f]
                            /\ Vouches(old, f)' => Vouches(old, f) /\ src'[f] = src[f],
           type # "firstTime" \/ rst' => \A f \in Files \cap (list \ list') :
               Vouches(jnl, f)' => dump'[bdir][f] \in {0, src[f].ver},
           rst' => rst
    PROVE  RetryInv'
<1> USE DEF RetryInv, Writing, AtEntry
<1>1. bdir \in Day /\ Root \in made[bdir]
  BY DEF TypeOK, FutureEmpty
<1>2. FutureEmpty'
  <2>1. \A d \in Day : Root \notin made[d] => \A f \in Files : dump'[d][f] = 0
    BY <1>1 DEF FutureEmpty
  <2> QED BY <1>1, <2>1 DEF FutureEmpty
<1>3. ParentsThere'
  BY <1>1 DEF ParentsThere
<1>4. OneVisit'
  BY DEF OneVisit
<1>5. PromisesKept'
  <2>1. Redeemed(old)'
    <3>1. old.line[Journal] # 0 => DayOf[old.line[Journal]] \in Day \ {bdir}
      BY LineDays DEF OneDate
    <3> QED BY <3>1 DEF PromisesKept, Redeemed, Backed
  <2>2. ASSUME NEW f \in Files, type # "firstTime" \/ rst', Vouches(jnl, f)', f \notin list'
        PROVE  dump'[bdir][f] \in {0, src'[f].ver}
    <3>1. Vouches(jnl, f) /\ src'[f] = src[f]
      BY <2>2
    <3>2. CASE f \in list
      BY <2>2, <3>1, <3>2
    <3>3. CASE f \notin list
      <4>1. type = "recurrent" \/ rst
        BY <2>2 DEF TypeOK, NothingYet
      <4> QED BY <3>1, <3>3, <4>1 DEF PromisesKept
    <3> QED BY <3>2, <3>3
  <2>3. type = "recurrent" => type # "firstTime"
    OBVIOUS
  <2> QED BY <2>1, <2>2, <2>3 DEF PromisesKept
<1>6. LinksReplaced'
  <2>1. \A d \in Day : \A f \in Files : d > bdir => dump'[d][f] = 0
    BY <1>1, <1>2 DEF FutureEmpty, TypeOK
  <2>2. InUse' = jnl /\ (TarSure => TarSure') /\ (jnl.line[Journal] # 0 => DayOf[jnl.line[Journal]] = bdir)
    BY TarFacts DEF InUse, OneDate
  <2>3. \A f \in Files \cap list' : dump'[bdir][f] = dump[bdir][f]
    OBVIOUS
  <2> QED BY <1>1, <2>1, <2>2, <2>3 DEF LinksReplaced
<1>7. OneDate' /\ NothingYet' /\ LastDay'
  BY DEF OneDate, NothingYet, LastDay
<1> QED BY <1>2, <1>3, <1>4, <1>5, <1>6, <1>7

\* tar copies what is listed, or says that it did not.
LEMMA RetryCopy ==
    ASSUME TypeOK, TypeOK', RetryInv, ThrownAway', MadeGood, Copy, ~Finish
    PROVE  RetryInv'
<1> USE DEF Goto, NoFault, world, disk, ghost
<1>1. /\ pc = "tar" /\ pc' = "tar" /\ list' \subseteq list /\ (rst' => rst) /\ dump \in Dumps /\ bdir \in Day
      /\ \E k : Fault(k) \/ nfaults' = nfaults
      /\ UNCHANGED <<now, jnl, made, bdir, type, old, lbdir, todo, cur, born, again>>
  BY DEF Copy, TarCopy, TarMisses, TarRaced, TarFails, TarStops, TypeOK
<1>2. UNCHANGED <<src, during>> => LinesPast' /\ StampsPast' /\ LinksFresh'
  BY <1>1 DEF RetryInv, LinesPast, StampsPast, LinksFresh, AtEntry, Held
<1>3. UNCHANGED <<src, during>> =>
          \A f \in Files : /\ Vouches(jnl, f)' => Vouches(jnl, f) /\ src'[f] = src[f]
                           /\ Vouches(old, f)' => Vouches(old, f) /\ src'[f] = src[f]
  BY <1>1 DEF Vouches
<1>4. \A f \in Files : Held(f) \in during[f]
  BY <1>1, DayFacts DEF RetryInv, LinksFresh
<1>5. ASSUME NEW p \in Paths, TarCopy(p) PROVE RetryInv'
  <2>1. /\ list' = list \ {p} /\ p \in list /\ UNCHANGED <<src, during>> /\ (p \in Files => src[p].there)
        /\ dump' = IF p \in Files THEN [dump EXCEPT ![bdir][p] = src[p].ver] ELSE dump
    BY <1>5 DEF TarCopy
  <2>2. /\ \A d \in Day \ {bdir} : dump'[d] = dump[d]
        /\ \A f \in Files : f # p => dump'[bdir][f] = dump[bdir][f]
        /\ p \in Files => dump'[bdir][p] = src[p].ver
    BY <1>1, <2>1 DEF Dumps
  <2> QED BY <1>1, <1>2, <1>3, <2>1, <2>2, RetryTar
<1>6. ASSUME NEW f \in Files, TarMisses(f) PROVE RetryInv'
  <2>1. list' = list \ {f} /\ ~src[f].there /\ ~rst' /\ UNCHANGED <<src, during, dump>>
    BY <1>6 DEF TarMisses
  <2>2. ~Vouches(jnl, f)'
    BY <2>1 DEF Vouches
  <2> QED BY <1>1, <1>2, <1>3, <2>1, <2>2, RetryTar
<1>7. ASSUME NEW f \in Files, TarFails(f) PROVE RetryInv'
  <2>1. list' = list \ {f} /\ f \in list /\ ~rst' /\ Fault("tar") /\ UNCHANGED <<src, during>>
        /\ dump' \in {dump, [dump EXCEPT ![bdir][f] = 0]}
    BY <1>7, NoneKilled DEF TarFails
  <2>2. /\ \A d \in Day \ {bdir} : dump'[d] = dump[d]
        /\ \A g \in Files : g # f => dump'[bdir][g] = dump[bdir][g]
        /\ dump'[bdir][f] \in {0, dump[bdir][f]}
    BY <1>1, <2>1 DEF Dumps
  <2>3. type # "firstTime" => dump[bdir][f] = 0
    <3>1. ~TarSure
      BY <2>1, TarFacts
    <3> QED BY <1>1, <2>1, <3>1 DEF RetryInv, LinksReplaced, NothingYet, Writing, TypeOK
  <2> QED BY <1>1, <1>2, <1>3, <2>1, <2>2, <2>3, RetryTar
<1>8. CASE TarStops
  <2>1. list' = {} /\ ~rst' /\ Fault("tar") /\ UNCHANGED <<src, during, dump>>
    BY <1>8 DEF TarStops
  <2>2. type # "firstTime" => \A f \in Files \cap list : dump[bdir][f] = 0
    <3>1. ~TarSure
      BY <2>1, TarFacts
    <3> QED BY <1>1, <3>1 DEF RetryInv, LinksReplaced, NothingYet, Writing, TypeOK
  <2> QED BY <1>1, <1>2, <1>3, <2>1, <2>2, RetryTar
<1>9. ASSUME NEW f \in Files, TarRaced(f) PROVE RetryInv'
  <2>1. /\ list' = list \ {f} /\ f \in list /\ ~rst' /\ Changed(f, TRUE)
        /\ dump' = [dump EXCEPT ![bdir][f] = Torn]
    BY <1>9 DEF TarRaced
  <2>2. /\ \A d \in Day \ {bdir} : dump'[d] = dump[d]
        /\ \A g \in Files : g # f => dump'[bdir][g] = dump[bdir][g]
    BY <1>1, <2>1 DEF Dumps
  <2>3. /\ \A g \in Files \ {f} : src'[g] = src[g]
        /\ src'[f].at = now /\ src[f].at < now
        /\ jnl.line[f] # src'[f].at /\ old.line[f] # src'[f].at
        /\ \A g \in Files : during[g] \subseteq during'[g] /\ (Held(g))' \in during'[g]
    BY <1>1, <1>4, <2>1, ChangedFacts, DayFacts DEF RetryInv, MadeGood
  <2>4. \A g \in Files : /\ Vouches(jnl, g)' => g # f /\ Vouches(jnl, g) /\ src'[g] = src[g]
                         /\ Vouches(old, g)' => g # f /\ Vouches(old, g) /\ src'[g] = src[g]
    BY <1>1, <2>3 DEF Vouches
  <2>5. LinesPast' /\ StampsPast' /\ LinksFresh'
    <3>1. now \in Nat /\ src[f].at \in Nat /\ \A j \in {jnl, old} : j.line[f] \in Nat
      BY DayFacts, LineFacts, ClockAssumption DEF TypeOK, Source, Stamp, Paths
    <3> QED BY <1>1, <2>3, <3>1 DEF RetryInv, LinesPast, StampsPast, LinksFresh, AtEntry
  <2> QED BY <1>1, <2>1, <2>2, <2>3, <2>4, <2>5, RetryTar
<1> QED BY <1>5, <1>6, <1>7, <1>8, <1>9 DEF Copy

\* The run ends: it leaves a journal whose dump has what it vouches for, or none.
LEMMA RetryFinish ==
    ASSUME TypeOK, TypeOK', RetryInv, ThrownAway', Finish
    PROVE  RetryInv'
<1>1. /\ pc = "tar" /\ pc' = "exit" /\ list = {} /\ nfaults' = nfaults
      /\ jnl' = (IF type = "firstTime" /\ ~rst THEN NoJournal ELSE jnl)
      /\ UNCHANGED <<world, dump, made, proc, ghost>>
  BY DEF Finish, Ends, NoFault
<1>2. Redeemed(jnl')
  <2>1. CASE type = "firstTime" /\ ~rst
    BY <1>1, <2>1, EmptyRedeemed
  <2>2. CASE type = "recurrent" \/ rst
    BY <1>1, <2>2 DEF RetryInv, PromisesKept, Redeemed, Backed, OneDate, Writing
  <2> QED BY <1>1, <2>1, <2>2 DEF TypeOK, RetryInv, NothingYet, Writing
<1>3. InUse'.line[Journal] \in {0, InUse.line[Journal]}
  BY <1>1 DEF InUse, NoJournal, NoLines, Paths
<1>4. LastDay' /\ Redeemed(old)
  BY <1>1 DEF RetryInv, PromisesKept, LastDay, AtEntry
<1>5. Weaker(jnl') /\ Weaker(old')
  BY <1>1, WeakerFacts DEF proc
<1> QED BY <1>1, <1>2, <1>3, <1>4, <1>5, RetryAside DEF proc, ghost

\* The ways out give the old journal back.
LEMMA RetryLeave == ASSUME TypeOK, TypeOK', RetryInv, ThrownAway', Leave PROVE RetryInv'
<1> USE WeakerFacts DEF Goto, Ends, NoFault, world, disk, proc, ghost
<1>1. NoJournal.line[Journal] = 0 /\ Journal \in Paths
  BY DEF NoJournal, NoLines, Paths
<1>2. Redeemed(old)
  BY DEF RetryInv, PromisesKept
<1>3. CASE Restore
  BY <1>1, <1>2, <1>3, EmptyRedeemed, RetryAside DEF Restore, InUse, LastDay, AtEntry
<1>7. CASE RestoreFails
  <2>1. /\ pc = "restore" /\ pc' = "exit" /\ Fault("unlink") /\ jnl' \in Remains(jnl) /\ jnl \in JournalType
        /\ UNCHANGED <<world, dump, made, proc, during, again>>
    BY <1>7 DEF RestoreFails, TypeOK
  <2>2. jnl.line[Journal] = 0
    BY <2>1, TarFacts DEF RetryInv, ThrownAway
  <2>3. Weaker(jnl') /\ jnl'.line[Journal] = 0
    BY <1>1, <2>1, <2>2, RemainsFacts
  <2>4. Redeemed(jnl')
    BY <2>3 DEF Redeemed
  <2> QED BY <1>2, <2>1, <2>3, <2>4, RetryAside DEF InUse, LastDay, AtEntry
<1>4. CASE Relink
  BY <1>1, <1>2, <1>4, EmptyRedeemed, RetryAside DEF Relink, InUse, LastDay, AtEntry
<1>5. CASE RelinkFails
  <2>1. Weaker(jnl') /\ Redeemed(jnl') /\ jnl'.line[Journal] \in {0, old.line[Journal]}
    BY <1>1, <1>2, <1>5, RemainsFacts, RedeemedFacts, EmptyRedeemed DEF RelinkFails, TypeOK
  <2> QED BY <1>2, <1>5, <2>1, RetryAside DEF RelinkFails, InUse, LastDay, AtEntry
<1>6. CASE Gone
  <2>1. /\ pc = "exit" /\ pc' = "idle" /\ bdir' = 0 /\ todo' = {} /\ list' = {} /\ old' = NoJournal
        /\ nfaults' = nfaults /\ UNCHANGED <<now, src, jnl, dump, made>>
    BY <1>6 DEF Gone
  <2>2. LinesPast'
    BY <2>1, LinesMoved DEF RetryInv
  <2>3. OneDate' /\ FutureEmpty'
    <3>1. 0 <= now
      BY ClockAssumption DEF TypeOK, Time
    <3> QED BY <1>1, <2>1, <3>1 DEF RetryInv, OneDate, FutureEmpty, Writing, AtEntry
  <2>4. PromisesKept'
    BY <2>1, EmptyRedeemed DEF RetryInv, PromisesKept, Redeemed, Vouches, Backed, Writing
  <2>5. LinksReplaced'
    BY <2>1 DEF RetryInv, LinksReplaced, InUse, Linked, TarSure
  <2>6. StampsPast' /\ NothingYet' /\ ParentsThere' /\ OneVisit' /\ LastDay' /\ LinksFresh'
    BY <2>1 DEF RetryInv, StampsPast, NothingYet, ParentsThere, OneVisit, LastDay, LinksFresh,
       Writing, AtEntry
  <2> QED BY <2>2, <2>3, <2>4, <2>5, <2>6 DEF RetryInv
<1> QED BY <1>3, <1>4, <1>5, <1>6, <1>7 DEF Leave

\* Every step keeps what the first run of a day rests on.
LEMMA RetryNext == ASSUME MadeGood PROVE TypeOK /\ TypeOK' /\ RetryInv /\ [Next]_vars => RetryInv'
<1> SUFFICES ASSUME TypeOK, TypeOK', RetryInv, [Next]_vars PROVE RetryInv'
  OBVIOUS
<1>0. ThrownAway'
  BY ThrownNext DEF RetryInv
<1>1. CASE UNCHANGED vars
  <2>0. /\ now' = now /\ src' = src /\ jnl' = jnl /\ dump' = dump /\ made' = made /\ pc' = pc
        /\ bdir' = bdir /\ type' = type /\ old' = old /\ lbdir' = lbdir /\ todo' = todo
        /\ list' = list /\ cur' = cur /\ born' = born /\ rst' = rst /\ exit' = exit
        /\ nfaults' = nfaults /\ during' = during /\ before' = before /\ silent' = silent
        /\ again' = again
    BY <1>1 DEF vars, world, disk, proc, ghost
  <2>1. LinesPast' /\ StampsPast' /\ OneDate' /\ FutureEmpty' /\ NothingYet'
    BY <2>0 DEF RetryInv, LinesPast, StampsPast, OneDate, FutureEmpty, NothingYet, Writing, AtEntry
  <2>2. ParentsThere' /\ OneVisit'
    BY <2>0 DEF RetryInv, ParentsThere, OneVisit, Writing, AtEntry
  <2>5. LastDay' /\ LinksFresh'
    BY <2>0 DEF RetryInv, LastDay, LinksFresh, Held, Unchanged, Writing, AtEntry
  <2>3. PromisesKept'
    BY <2>0 DEF RetryInv, PromisesKept, Redeemed, Vouches, Backed, Writing
  <2>4. LinksReplaced'
    BY <2>0 DEF RetryInv, LinksReplaced, InUse, Linked, TarSure, Held, Unchanged, Writing, AtEntry
  <2> QED BY <1>0, <2>1, <2>2, <2>3, <2>4, <2>5 DEF RetryInv
<1> QED
  BY <1>0, <1>1, NoneKilled, RetryTick, RetryEdit, RetryStart, RetryPrepare, RetryWalk, RetryCopy,
     RetryFinish, RetryLeave
     DEF Next, Run

\* What the walk of a first run rests on.
LEMMA RetryGives ==
    ASSUME TypeOK, RetryInv
    PROVE  /\ LinesPast /\ StampsPast /\ LinksFresh /\ FutureEmpty
           /\ pc = "open" /\ ~again => made[bdir] \subseteq {Root}
           /\ pc = "journal" /\ cur.path = Journal => cur.at # 0
           /\ pc = "journal" /\ cur.path \in Files => jnl.line[cur.path] = 0
           /\ Writing /\ jnl.line[Journal] # 0 => DayOf[jnl.line[Journal]] = bdir
  BY DEF RetryInv, NothingYet, OneDate, OneVisit, AtEntry

\* Which run of the day it is does not change while the run works.
LEMMA SameRun == [Next]_vars /\ again' # again => ~Writing'
<1> SUFFICES ASSUME [Next]_vars, again' # again PROVE ~Writing'
  OBVIOUS
<1> USE DEF ghost, Writing, Goto, Ends, GivesUp
<1>1. CASE Tick \/ UNCHANGED vars \/ \E f \in Files : Edit(f)
  BY <1>1 DEF Tick, Edit, vars
<1>2. CASE ChkDest \/ ChkDestFails \/ Prepare
  BY <1>2 DEF ChkDest, ChkDestFails, Prepare, NoJournalYet, MoveAside, MoveAsideCuts,
     MoveAsideFails, LoadJournal, Refuse, LoadFails, OpenFiles, OpenFilesFails, SourceUnread
<1>3. CASE Walk
  BY <1>3 DEF Walk, Lstat, LstatFails, EnterDir, SkipDir, DirFails, ParentLost, MakeLink, WriteTar,
     ListForTar, LinkFails, WriteJournal, WriteFails, CloseFiles, CloseFails
<1>4. CASE Copy
  BY <1>4 DEF Copy, TarCopy, TarMisses, TarRaced, TarFails, TarStops, Finish
<1>5. CASE Leave \/ Die
  BY <1>5 DEF Leave, Restore, RestoreFails, Relink, RelinkFails, Gone, Die
<1> QED
  BY <1>1, <1>2, <1>3, <1>4, <1>5 DEF Next, Run

\* Every step keeps the invariant.
LEMMA FirstNext == ASSUME MadeGood PROVE TypeOK /\ TypeOK' /\ FirstInv /\ [Next]_vars => FirstInv'
<1> SUFFICES ASSUME TypeOK, TypeOK', FirstInv, [Next]_vars PROVE FirstInv'
  OBVIOUS
<1>1. RetryInv' /\ WalkedOut' /\ GivenUp'
  BY RetryNext, WaysOut DEF FirstInv
<1>2. ~again' => NothingLost'
  <2>1. CASE ~again
    BY <2>1, InHandNext, RetryGives DEF FirstInv, MadeGood
  <2>2. CASE again
    BY <2>2, SameRun DEF NothingLost
  <2> QED BY <2>1, <2>2
<1>3. FirstRunComplete' /\ NextRunCanLink'
  <2>1. CASE Finish /\ CleanExit' /\ ~again'
    <3>1. again' = again
      BY <2>1 DEF Finish, ghost
    <3> QED BY <2>1, <3>1, FinishComplete, FinishCanLink, RetryGives DEF FirstInv, FirstRunComplete
  <2>2. CASE Finish /\ ~(CleanExit' /\ ~again')
    BY <2>2 DEF FirstRunComplete, SnapshotComplete, NextRunCanLink
  <2>3. CASE ~Finish
    BY <2>3, CompleteStays, RetryGives DEF FirstInv, FirstRunComplete, SnapshotComplete, MadeGood
  <2> QED BY <2>1, <2>2, <2>3
<1> QED
  BY <1>1, <1>2, <1>3 DEF FirstInv

\* With runs that end before midnight, calls that fail but no process killed and no line lost
\* at a flush, and no write that fails where a tar, or an unlink() of the new journal, can fail
\* as well, what runs that gave up have left never keeps the first run of a day from being
\* complete, nor from leaving its journal.
THEOREM FirstRunInvariant == ASSUME MadeGood PROVE Spec => []FirstInv
<1>1. TypeOK /\ Init => FirstInv
  BY RetryInit DEF Init, FirstInv, NothingLost, WalkedOut, GivenUp, FirstRunComplete, SnapshotComplete,
     NextRunCanLink, CleanExit, Writing
<1> QED
  BY <1>1, FirstNext, Typing, PTL DEF Spec

\* Then the first run of a day that exits 0 has dumped every file that was there while it
\* ran, in a version of that time, however many runs of earlier days were retried.
THEOREM FirstRunIsComplete == ASSUME MadeGood PROVE Spec => []FirstRunComplete
<1>1. FirstInv => FirstRunComplete
  BY DEF FirstInv
<1> QED
  BY <1>1, FirstRunInvariant, PTL

\* And it leaves a journal from which the next run links every file that has not changed.
THEOREM FirstRunLinks == ASSUME MadeGood PROVE Spec => []NextRunCanLink
<1>1. FirstInv => NextRunCanLink
  BY DEF FirstInv
<1> QED
  BY <1>1, FirstRunInvariant, PTL
=============================================================================
