--------------------------- MODULE OverlapProofs ---------------------------
(***************************************************************************)
(* Theorems about Overlap for any tree and any bounds.  Any number of runs *)
(* do not lose the journal between them.  Two, however they are            *)
(* interleaved, leave a journal that vouches for no stale copy and a dump  *)
(* that is complete between them.                                          *)
(***************************************************************************)
EXTENDS Overlap, TLAPS

----------------------------------------------------------------------------
\* Lemmas on the operators.

\* The inodes of the runs are not the one that stands for none.
LEMMA InodeFacts ==
    /\ NoInode \in Inode /\ New(Before) \in Inode /\ New(Before) # NoInode
    /\ \A r \in Runs : /\ New(r) \in Inode /\ New(r) # NoInode
                       /\ Copy(r) \in Inode /\ Copy(r) # NoInode
  BY OverlapAssumption DEF Inode, NoInode, New, Copy

\* Days are numbers from 1 on, and versions too.
LEMMA BoundFacts ==
    /\ MaxDay \in Nat /\ 1 \in Day /\ 2 \in Day /\ Day \subseteq 0..MaxDay /\ 0..MaxDay = Day \cup {0}
    /\ MaxVer \in Nat /\ 1 \in 1..MaxVer /\ 1..MaxVer \subseteq 0..MaxVer /\ 0 \in 0..MaxVer
    /\ Journal \in Paths /\ Journal \notin Files /\ Files \subseteq Paths
  BY OverlapAssumption DEF Day, Paths, Nodes

\* A part of a journal's lines is a journal's lines.
LEMMA SubsetsFacts ==
    ASSUME NEW l \in Lines, NEW k \in Subsets(l)
    PROVE  k \in Lines
<1>1. PICK kept : k = [p \in Paths |-> IF p \in kept THEN l[p] ELSE 0]
  BY DEF Subsets
<1>2. l \in [Paths -> Nat] /\ l[Journal] \in 0..MaxDay
  BY DEF Lines
<1>3. k \in [Paths -> Nat]
  BY <1>1, <1>2
<1>4. k[Journal] \in 0..MaxDay
  BY <1>1, <1>2, BoundFacts
<1> QED BY <1>3, <1>4 DEF Lines

\* So is what a process sees of a journal, and a journal without lines.
LEMMA VisibleFacts ==
    ASSUME TypeOK
    PROVE  /\ NoLines \in Lines
           /\ \A i \in Inode : Visible(i) \subseteq Lines
           /\ \A i \in Inode, l \in Lines : Merged(i, l) \subseteq Lines
<1>1. NoLines \in Lines
  BY BoundFacts DEF Lines, NoLines
<1>2. ASSUME NEW i \in Inode, NEW k \in Visible(i) PROVE k \in Lines
  <2>1. text[i] \in Lines
    BY DEF TypeOK
  <2> QED BY <1>2, <2>1, SubsetsFacts DEF Visible
<1>3. ASSUME NEW i \in Inode, NEW l \in Lines, NEW k \in Merged(i, l) PROVE k \in Lines
  BY <1>3, SubsetsFacts DEF Merged
<1> QED BY <1>1, <1>2, <1>3

\* A line that is written leaves lines.
LEMMA LineWritten ==
    ASSUME NEW l \in Lines, NEW p \in Paths, NEW t \in Nat, p = Journal => t \in 0..MaxDay
    PROVE  [l EXCEPT ![p] = t] \in Lines
<1>1. l \in [Paths -> Nat] /\ l[Journal] \in 0..MaxDay
  BY DEF Lines
<1>2. [l EXCEPT ![p] = t] \in [Paths -> Nat]
  BY <1>1
<1>3. [l EXCEPT ![p] = t][Journal] \in 0..MaxDay
  BY <1>1, BoundFacts
<1> QED BY <1>2, <1>3 DEF Lines

\* So the lines of the journal a run writes stay lines.
LEMMA WriteLineType ==
    ASSUME TypeOK, NEW r \in Runs, NEW p \in Paths, NEW t \in Nat, p = Journal => t \in 0..MaxDay,
           WriteLine(r, p, t)
    PROVE  text' \in [Inode -> Lines]
<1>1. run[r].out \in Inode
  BY DEF TypeOK, Process
<1>2. text[run[r].out] \in Lines
  BY <1>1 DEF TypeOK
<1>3. [text[run[r].out] EXCEPT ![p] = t] \in Lines
  BY <1>2, LineWritten
<1>4. PICK l \in Merged(run[r].out, [text[run[r].out] EXCEPT ![p] = t]) :
         text' = [text EXCEPT ![run[r].out] = l]
  BY DEF WriteLine
<1>5. l \in Lines
  BY <1>1, <1>3, <1>4, VisibleFacts
<1> QED BY <1>1, <1>4, <1>5 DEF TypeOK

----------------------------------------------------------------------------
\* Type correctness.

\* The type of a process and of its parts.
LEMMA RunFacts ==
    ASSUME TypeOK, NEW r \in Runs
    PROVE  /\ run[r].pc \in PC /\ run[r].day \in Day /\ run[r].old \in Inode /\ run[r].out \in Inode
           /\ run[r].tree \in Lines /\ run[r].todo \subseteq Nodes \cup {Journal}
           /\ run[r].list \subseteq Paths
           /\ run[r].type = "recurrent" => run[r].tree[Journal] \in Day
<1>1. run[r] \in Process
  BY DEF TypeOK
<1>2. run[r].tree[Journal] \in 0..MaxDay
  BY <1>1 DEF Process, Lines
<1>3. run[r].type = "recurrent" => run[r].tree[Journal] # 0
  BY DEF TypeOK
<1> QED BY <1>1, <1>2, <1>3, BoundFacts DEF Process

\* A process that is of the type leaves the others as they were.
LEMMA RunMoved ==
    ASSUME TypeOK, NEW r \in Runs, NEW p \in Process, run' = [run EXCEPT ![r] = p],
           p.type = "recurrent" => p.tree[Journal] # 0
    PROVE  /\ run' \in [Runs -> Process]
           /\ \A q \in Runs : run'[q].type = "recurrent" => run'[q].tree[Journal] # 0
  BY DEF TypeOK

\* A step that only moves the process on.
LEMMA GotoType ==
    ASSUME TypeOK, NEW r \in Runs, NEW l \in PC, Goto(r, l)
    PROVE  /\ run' \in [Runs -> Process]
           /\ \A q \in Runs : run'[q].type = "recurrent" => run'[q].tree[Journal] # 0
<1>1. run[r] \in Process
  BY DEF TypeOK
<1>2. [run[r] EXCEPT !.pc = l] \in Process
  BY <1>1 DEF Process
<1>3. run' = [run EXCEPT ![r] = [run[r] EXCEPT !.pc = l]]
  BY DEF Goto, TypeOK
<1>4. [run[r] EXCEPT !.pc = l].type = run[r].type /\ [run[r] EXCEPT !.pc = l].tree = run[r].tree
  BY <1>1 DEF Process
<1> QED BY <1>2, <1>3, <1>4, RunMoved DEF TypeOK

\* The initial states have every variable of its type.
LEMMA TypeInit == Init => TypeOK
<1> SUFFICES ASSUME Init PROVE TypeOK
  OBVIOUS
<1>1. NoLines \in Lines /\ [p \in Paths |-> 1] \in Lines
  BY BoundFacts, OverlapAssumption DEF Lines, NoLines
<1>2. now \in Day /\ ver \in [Files -> 1..MaxVer] /\ mtime \in [Inode -> Day] /\ name \in Inode
  BY BoundFacts, InodeFacts DEF Init
<1>3. text \in [Inode -> Lines]
  BY <1>1 DEF Init
<1>4. dump \in [Day -> [Files -> 0..MaxVer]] /\ made \in [Day -> SUBSET (Dirs \cup {Root})]
  BY BoundFacts DEF Init
<1>5. Idle \in Process /\ Idle.type # "recurrent"
  BY <1>1, BoundFacts, InodeFacts DEF Idle, Process, PC, NoLines
<1>6. run \in [Runs -> Process] /\ \A r \in Runs : run[r].type # "recurrent"
  BY <1>5 DEF Init
<1> QED
  BY <1>2, <1>3, <1>4, <1>6 DEF TypeOK

\* What the steps before the walk do to a process.
LEMMA PrepareRunType ==
    ASSUME TypeOK, NEW r \in Runs,
           \/ ChkDest(r) \/ StatJournal(r) \/ LinkAside(r) \/ CopyAside(r) \/ NothingToMove(r)
           \/ UnlinkJournal(r) \/ LoadJournal(r) \/ Restore(r) \/ Relink(r)
    PROVE  /\ run' \in [Runs -> Process]
           /\ \A q \in Runs : run'[q].type = "recurrent" => run'[q].tree[Journal] # 0
<1> DEFINE Goal == /\ run' \in [Runs -> Process]
                   /\ \A q \in Runs : run'[q].type = "recurrent" => run'[q].tree[Journal] # 0
<1> SUFFICES Goal
  OBVIOUS
<1>0. run[r] \in Process /\ run \in [Runs -> Process]
      /\ (run[r].type = "recurrent" => run[r].tree[Journal] # 0)
  BY DEF TypeOK
<1>1. CASE ChkDest(r)
  <2> DEFINE p == [run[r] EXCEPT !.pc = "source", !.day = now, !.began = ver]
  <2>1. ver \in [Files -> 0..MaxVer] /\ now \in Day
    BY BoundFacts DEF TypeOK
  <2>2. p \in Process /\ p.type = run[r].type /\ p.tree = run[r].tree
    BY <1>0, <2>1 DEF Process, PC
  <2>3. run' = [run EXCEPT ![r] = p]
    BY <1>0, <1>1 DEF ChkDest
  <2> QED BY <1>0, <2>2, <2>3, RunMoved
<1>2. CASE StatJournal(r)
  <2> DEFINE p == [run[r] EXCEPT !.pc = IF name = NoInode THEN "open" ELSE "move",
                                 !.type = IF name = NoInode THEN "firstTime" ELSE @]
  <2>1. p \in Process /\ p.tree = run[r].tree /\ (p.type = "recurrent" => run[r].type = "recurrent")
    BY <1>0 DEF Process, PC
  <2>2. run' = [run EXCEPT ![r] = p]
    BY <1>0, <1>2 DEF StatJournal
  <2> QED BY <1>0, <2>1, <2>2, RunMoved
<1>3. CASE LinkAside(r) \/ CopyAside(r)
  <2>1. PICK i \in Inode : run' = [run EXCEPT ![r].pc = "unlink", ![r].old = i]
    BY <1>3, InodeFacts DEF LinkAside, CopyAside, TypeOK
  <2> DEFINE p == [run[r] EXCEPT !.pc = "unlink", !.old = i]
  <2>2. p \in Process /\ p.type = run[r].type /\ p.tree = run[r].tree
    BY <1>0 DEF Process, PC
  <2>3. run' = [run EXCEPT ![r] = p]
    BY <1>0, <2>1
  <2> QED BY <1>0, <2>2, <2>3, RunMoved
<1>4. CASE NothingToMove(r) \/ UnlinkJournal(r) \/ Restore(r) \/ Relink(r)
  <2>1. \E l \in PC : Goto(r, l)
    BY <1>4 DEF NothingToMove, UnlinkJournal, Restore, Relink, PC
  <2> QED BY <2>1, GotoType
<1>5. CASE LoadJournal(r)
  <2>1. PICK lines \in Visible(run[r].old) :
           run' = [run EXCEPT
                     ![r].tree = lines,
                     ![r].type = IF lines[Journal] # 0 /\ made[lines[Journal]] # {}
                                 THEN "recurrent" ELSE "firstTime",
                     ![r].pc = IF lines[Journal] = run[r].day THEN "restore" ELSE "open"]
    BY <1>5 DEF LoadJournal
  <2> DEFINE p == [run[r] EXCEPT
                     !.tree = lines,
                     !.type = IF lines[Journal] # 0 /\ made[lines[Journal]] # {}
                              THEN "recurrent" ELSE "firstTime",
                     !.pc = IF lines[Journal] = run[r].day THEN "restore" ELSE "open"]
  <2>2. lines \in Lines
    BY <2>1, RunFacts, VisibleFacts
  <2>3. p \in Process /\ (p.type = "recurrent" => p.tree[Journal] # 0)
    BY <1>0, <2>2 DEF Process, PC
  <2>4. run' = [run EXCEPT ![r] = p]
    BY <1>0, <2>1
  <2> QED BY <2>3, <2>4, RunMoved
<1> QED BY <1>1, <1>2, <1>3, <1>4, <1>5

\* And the walk and what follows it.
LEMMA WalkRunType ==
    ASSUME TypeOK, NEW r \in Runs,
           \/ OpenFiles(r) \/ VisitJournal(r) \/ CloseFiles(r) \/ TarJournal(r) \/ Finish(r)
           \/ \E d \in Dirs : EnterDir(r, d)
           \/ \E f \in Files : Visit(r, f) \/ TarCopy(r, f)
    PROVE  /\ run' \in [Runs -> Process]
           /\ \A q \in Runs : run'[q].type = "recurrent" => run'[q].tree[Journal] # 0
<1> DEFINE Goal == /\ run' \in [Runs -> Process]
                   /\ \A q \in Runs : run'[q].type = "recurrent" => run'[q].tree[Journal] # 0
<1> SUFFICES Goal
  OBVIOUS
<1>0. run[r] \in Process /\ run \in [Runs -> Process]
      /\ (run[r].type = "recurrent" => run[r].tree[Journal] # 0)
  BY DEF TypeOK
<1>1. CASE OpenFiles(r)
  <2>1. PICK i \in Inode : run' = [run EXCEPT ![r].pc = "walk", ![r].out = i, ![r].todo = Entries(Root)]
    BY <1>1, InodeFacts DEF OpenFiles, TypeOK
  <2> DEFINE p == [run[r] EXCEPT !.pc = "walk", !.out = i, !.todo = Entries(Root)]
  <2>2. Entries(Root) \subseteq Nodes \cup {Journal}
    BY DEF Entries
  <2>3. p \in Process /\ p.type = run[r].type /\ p.tree = run[r].tree
    BY <1>0, <2>2 DEF Process, PC
  <2>4. run' = [run EXCEPT ![r] = p]
    BY <1>0, <2>1
  <2> QED BY <1>0, <2>3, <2>4, RunMoved
<1>2. CASE CloseFiles(r) \/ Finish(r)
  <2>1. \E l \in PC : Goto(r, l)
    BY <1>2 DEF CloseFiles, Finish, PC
  <2> QED BY <2>1, GotoType
<1>3. CASE VisitJournal(r) \/ (\E d \in Dirs : EnterDir(r, d))
           \/ \E f \in Files : Visit(r, f) \/ TarCopy(r, f)
  <2>1. PICK left \in SUBSET (Nodes \cup {Journal}), tars \in SUBSET Paths :
           run' = [run EXCEPT ![r].todo = left, ![r].list = tars]
    <3>1. run[r].todo \subseteq Nodes \cup {Journal} /\ run[r].list \subseteq Paths
      BY RunFacts
    <3>2. ASSUME NEW left \in SUBSET (Nodes \cup {Journal}), run' = [run EXCEPT ![r].todo = left]
          PROVE  run' = [run EXCEPT ![r].todo = left, ![r].list = run[r].list]
      BY <1>0, <3>2 DEF Process
    <3>3. CASE VisitJournal(r)
      <4> DEFINE rest == run[r].todo \ {Journal}
      <4>1. run' = [run EXCEPT ![r].todo = rest] \/ \E l \in SUBSET {Journal} :
               run' = [run EXCEPT ![r].todo = rest, ![r].list = run[r].list \cup l]
        BY <1>0, <3>3 DEF VisitJournal
      <4>2. rest \in SUBSET (Nodes \cup {Journal})
        BY <3>1
      <4> HIDE DEF rest
      <4>3. CASE run' = [run EXCEPT ![r].todo = rest]
        <5>1. run' = [run EXCEPT ![r].todo = rest, ![r].list = run[r].list]
          BY <3>2, <4>2, <4>3
        <5> QED BY <3>1, <4>2, <5>1
      <4>4. ASSUME NEW l \in SUBSET {Journal},
                   run' = [run EXCEPT ![r].todo = rest, ![r].list = run[r].list \cup l]
            PROVE  \E left \in SUBSET (Nodes \cup {Journal}), tars \in SUBSET Paths :
                       run' = [run EXCEPT ![r].todo = left, ![r].list = tars]
        <5>1. run[r].list \cup l \in SUBSET Paths
          BY <3>1, BoundFacts
        <5> QED BY <4>2, <4>4, <5>1
      <4> QED BY <4>1, <4>3, <4>4
    <3>4. ASSUME NEW d \in Dirs, EnterDir(r, d)
          PROVE  \E left \in SUBSET (Nodes \cup {Journal}) : run' = [run EXCEPT ![r].todo = left]
      <4> DEFINE fresh == d \notin made[run[r].day]
                 left == (run[r].todo \ {d}) \cup (IF fresh THEN Entries(d) ELSE {})
      <4>1. run' = [run EXCEPT ![r].todo = left]
        BY <1>0, <3>4 DEF EnterDir
      <4>2. left \subseteq Nodes \cup {Journal}
        BY <3>1 DEF Entries
      <4> QED BY <4>1, <4>2
    <3>5. ASSUME NEW f \in Files, Visit(r, f)
          PROVE  \E left \in SUBSET (Nodes \cup {Journal}), tars \in SUBSET Paths :
                     run' = [run EXCEPT ![r].todo = left, ![r].list = tars]
      <4>1. run[r].todo \ {f} \in SUBSET (Nodes \cup {Journal}) /\ run[r].list \cup {f} \in SUBSET Paths
        BY <3>1, BoundFacts
      <4>2. \/ run' = [run EXCEPT ![r].todo = run[r].todo \ {f}]
            \/ run' = [run EXCEPT ![r].todo = run[r].todo \ {f}, ![r].list = run[r].list \cup {f}]
        BY <1>0, <3>5 DEF Visit
      <4>3. CASE run' = [run EXCEPT ![r].todo = run[r].todo \ {f}]
        <5>1. run' = [run EXCEPT ![r].todo = run[r].todo \ {f}, ![r].list = run[r].list]
          BY <3>2, <4>1, <4>3
        <5> QED BY <3>1, <4>1, <5>1
      <4>4. CASE run' = [run EXCEPT ![r].todo = run[r].todo \ {f}, ![r].list = run[r].list \cup {f}]
        BY <4>1, <4>4
      <4> QED BY <4>2, <4>3, <4>4
    <3>6. ASSUME NEW f \in Files, TarCopy(r, f)
          PROVE  run' = [run EXCEPT ![r].todo = run[r].todo, ![r].list = run[r].list \ {f}]
      BY <1>0, <3>6 DEF TarCopy, Process
    <3>7. ASSUME NEW f \in Files, TarCopy(r, f)
          PROVE  \E left \in SUBSET (Nodes \cup {Journal}), tars \in SUBSET Paths :
                     run' = [run EXCEPT ![r].todo = left, ![r].list = tars]
      <4>1. run[r].list \ {f} \in SUBSET Paths
        BY <3>1
      <4> QED BY <3>1, <3>6, <3>7, <4>1
    <3>8. CASE \E d \in Dirs : EnterDir(r, d)
      BY <3>1, <3>2, <3>4, <3>8
    <3> QED BY <1>3, <3>3, <3>5, <3>7, <3>8
  <2> DEFINE p == [run[r] EXCEPT !.todo = left, !.list = tars]
  <2>2. p \in Process /\ p.type = run[r].type /\ p.tree = run[r].tree
    BY <1>0 DEF Process
  <2>3. run' = [run EXCEPT ![r] = p]
    BY <1>0, <2>1
  <2> QED BY <1>0, <2>2, <2>3, RunMoved
<1>4. CASE TarJournal(r)
  <2>1. PICK copied \in BOOLEAN : run' = [run EXCEPT ![r].list = @ \ {Journal}, ![r].rst = copied]
    BY <1>4 DEF TarJournal
  <2> DEFINE p == [run[r] EXCEPT !.list = @ \ {Journal}, !.rst = copied]
  <2>2. run[r].list \ {Journal} \in SUBSET Paths
    BY RunFacts
  <2>3. p \in Process /\ p.type = run[r].type /\ p.tree = run[r].tree
    BY <1>0, <2>2 DEF Process
  <2>4. run' = [run EXCEPT ![r] = p]
    BY <1>0, <2>1
  <2> QED BY <1>0, <2>3, <2>4, RunMoved
<1> QED BY <1>1, <1>2, <1>3, <1>4

\* What a step of a run does to the clock, the source and the journals.
LEMMA JournalsType ==
    ASSUME TypeOK, NEW r \in Runs, RunStep(r)
    PROVE  /\ now' \in Day /\ ver' \in [Files -> 1..MaxVer] /\ name' \in Inode
           /\ text' \in [Inode -> Lines] /\ mtime' \in [Inode -> Day]
<1> USE DEF TypeOK
<1>1. now' = now /\ ver' = ver
  BY DEF RunStep, ChkDest, StatJournal, LinkAside, CopyAside, NothingToMove, UnlinkJournal,
         LoadJournal, Restore, Relink, OpenFiles, VisitJournal, CloseFiles, TarJournal, Finish,
         EnterDir, Visit, TarCopy
<1>2. CASE \/ ChkDest(r) \/ StatJournal(r) \/ LinkAside(r) \/ NothingToMove(r) \/ LoadJournal(r)
           \/ TarJournal(r) \/ (\E d \in Dirs : EnterDir(r, d)) \/ (\E f \in Files : TarCopy(r, f))
  BY <1>1, <1>2 DEF ChkDest, StatJournal, LinkAside, NothingToMove, LoadJournal, TarJournal, EnterDir,
     TarCopy
<1>3. CASE UnlinkJournal(r) \/ Restore(r) \/ Relink(r) \/ Finish(r)
  BY <1>1, <1>3, InodeFacts, RunFacts DEF UnlinkJournal, Restore, Relink, Finish
<1>4. CASE CopyAside(r)
  <2>1. PICK lines \in Visible(name) : text' = [text EXCEPT ![Copy(r)] = lines]
    BY <1>4 DEF CopyAside
  <2>2. lines \in Lines
    BY <2>1, VisibleFacts
  <2> QED BY <1>1, <1>4, <2>1, <2>2, InodeFacts DEF CopyAside
<1>5. CASE OpenFiles(r)
  <2> DEFINE i == IF name = NoInode THEN New(r) ELSE name
  <2>1. i \in Inode /\ name' = i /\ mtime' = [mtime EXCEPT ![i] = now]
    BY <1>5, InodeFacts DEF OpenFiles
  <2>2. PICK lines \in IF Open(i) THEN Subsets(text[i]) ELSE {NoLines} : text' = [text EXCEPT ![i] = lines]
    BY <1>5 DEF OpenFiles
  <2>3. lines \in Lines
    BY <2>1, <2>2, SubsetsFacts, VisibleFacts
  <2> QED BY <1>1, <2>1, <2>2, <2>3
<1>6. ASSUME NEW f \in Files, Visit(r, f)
      PROVE  text' \in [Inode -> Lines] /\ UNCHANGED <<name, mtime>>
  <2>1. ver[f] \in Nat /\ f \in Paths /\ f # Journal
    BY BoundFacts
  <2> QED BY <1>6, <2>1, WriteLineType DEF Visit
<1>7. CASE VisitJournal(r)
  <2>1. CASE name = NoInode
    BY <1>1, <1>7, <2>1 DEF VisitJournal
  <2>2. CASE name # NoInode
    <3>1. PICK t \in mtime[name]..(IF Open(name) THEN now ELSE mtime[name]) : WriteLine(r, Journal, t)
      BY <1>7, <2>2 DEF VisitJournal
    <3>2. mtime[name] \in Day /\ now \in Day
      OBVIOUS
    <3>3. t \in Day
      BY <3>1, <3>2, BoundFacts DEF Day
    <3>4. t \in Nat /\ t \in 0..MaxDay
      BY <3>3, BoundFacts DEF Day
    <3> QED BY <1>1, <1>7, <3>1, <3>4, BoundFacts, WriteLineType DEF VisitJournal
  <2> QED BY <2>1, <2>2
<1>8. CASE CloseFiles(r)
  <2>1. PICK t \in mtime[run[r].out]..now : mtime' = [mtime EXCEPT ![run[r].out] = t]
    BY <1>8 DEF CloseFiles
  <2>2. mtime[run[r].out] \in Day /\ now \in Day
    BY RunFacts
  <2>3. t \in Day
    BY <2>1, <2>2, BoundFacts DEF Day
  <2> QED BY <1>1, <1>8, <2>1, <2>3 DEF CloseFiles
<1> QED
  BY <1>1, <1>2, <1>3, <1>4, <1>5, <1>6, <1>7, <1>8 DEF RunStep

\* And to the dumps.
LEMMA DumpsType ==
    ASSUME TypeOK, NEW r \in Runs, RunStep(r)
    PROVE  /\ dump' \in [Day -> [Files -> 0..MaxVer]]
           /\ made' \in [Day -> SUBSET (Dirs \cup {Root})]
<1> USE DEF TypeOK
<1>1. CASE ChkDest(r) BY <1>1 DEF ChkDest
<1>2. ASSUME NEW d \in Dirs, EnterDir(r, d) PROVE UNCHANGED dump /\ made' \in [Day -> SUBSET (Dirs \cup {Root})]
  BY <1>2, RunFacts DEF EnterDir
<1>3. ASSUME NEW f \in Files, Visit(r, f)
      PROVE  dump' \in [Day -> [Files -> 0..MaxVer]] /\ UNCHANGED made
  <2>1. CASE Unchanged(r, f) /\ Linkable(r, f)
    <3>1. LastDay(r) \in Day
      BY <2>1, RunFacts DEF Unchanged, LastDay
    <3>2. dump[LastDay(r)][f] \in 0..MaxVer
      BY <3>1
    <3>3. dump' = [dump EXCEPT ![run[r].day][f] = dump[LastDay(r)][f]] /\ UNCHANGED made
      BY <1>3, <2>1 DEF Visit
    <3> QED BY <3>2, <3>3
  <2>2. CASE ~(Unchanged(r, f) /\ Linkable(r, f))
    BY <1>3, <2>2 DEF Visit
  <2> QED BY <2>1, <2>2
<1>4. ASSUME NEW f \in Files, TarCopy(r, f)
      PROVE  dump' \in [Day -> [Files -> 0..MaxVer]] /\ UNCHANGED made
  <2>1. ver[f] \in 0..MaxVer
    BY BoundFacts
  <2> QED BY <1>4, <2>1 DEF TarCopy
<1>5. CASE \/ StatJournal(r) \/ LinkAside(r) \/ CopyAside(r) \/ NothingToMove(r) \/ UnlinkJournal(r)
           \/ LoadJournal(r) \/ Restore(r) \/ Relink(r) \/ OpenFiles(r) \/ VisitJournal(r)
           \/ CloseFiles(r) \/ TarJournal(r) \/ Finish(r)
  BY <1>5 DEF StatJournal, LinkAside, CopyAside, NothingToMove, UnlinkJournal, LoadJournal, Restore,
     Relink, OpenFiles, VisitJournal, CloseFiles, TarJournal, Finish
<1> QED
  BY <1>1, <1>2, <1>3, <1>4, <1>5 DEF RunStep

\* No step changes the type of a variable.
LEMMA TypeNext == TypeOK /\ [Next]_vars => TypeOK'
<1> SUFFICES ASSUME TypeOK, [Next]_vars PROVE TypeOK'
  OBVIOUS
<1>1. CASE Tick
  <2>1. now + 1 \in Day
    BY <1>1, BoundFacts DEF Tick, TypeOK, Day
  <2> QED BY <1>1, <2>1 DEF Tick, TypeOK
<1>2. ASSUME NEW f \in Files, Edit(f) PROVE TypeOK'
  <2>1. ver[f] + 1 \in 1..MaxVer
    BY <1>2, BoundFacts DEF Edit, TypeOK
  <2> QED BY <1>2, <2>1 DEF Edit, TypeOK
<1>3. ASSUME NEW r \in Runs, RunStep(r) PROVE TypeOK'
  <2>1. /\ run' \in [Runs -> Process]
        /\ \A q \in Runs : run'[q].type = "recurrent" => run'[q].tree[Journal] # 0
    BY <1>3, PrepareRunType, WalkRunType DEF RunStep
  <2> QED BY <1>3, <2>1, JournalsType, DumpsType DEF TypeOK
<1>4. CASE UNCHANGED vars BY <1>4 DEF vars, TypeOK
<1> QED BY <1>1, <1>2, <1>3, <1>4 DEF Next

\* Every variable has its type in every reachable state, for any number of runs: a journal
\* two of them wrote over each other is still dated on a day that was.
THEOREM OverlapTyping == Spec => []TypeOK
  BY TypeInit, TypeNext, PTL DEF Spec

----------------------------------------------------------------------------
\* The journal is not lost.

\* These have made, or given back, a journal; those are about to.
Left(r) == run[r].pc \in {"walk", "tar", "ok", "fail", "refused"}
WillLeave(r) == run[r].pc \in {"load", "restore", "relink", "open"}

\* Until a first backup fails: once a run has made or given back a journal there is one, but
\* for a time in which another run has it and will make or give back one.
LeftInv ==
    /\ (\E r \in Runs : Left(r)) /\ (\A r \in Runs : ~FirstFailed(r)) =>
           name # NoInode \/ \E q \in Runs : WillLeave(q)
    /\ \A r \in Runs : run[r].pc \in {"unlink", "load", "restore", "relink"} =>
           run[r].old # NoInode

\* What a step is to the invariant: it takes the name from the journal and has one to give
\* back, or gives a journal the name, or leaves both alone; or it is the end of a first backup
\* that failed.
LEMMA StepMoves ==
    ASSUME TypeOK, LeftInv, NEW r \in Runs, RunStep(r)
    PROVE  /\ \A q \in Runs \ {r} : run'[q] = run[q]
           /\ run'[r].pc \in {"unlink", "load", "restore", "relink"} => run'[r].old # NoInode
           /\ FirstFailed(r) => FirstFailed(r)'
           /\ \/ WillLeave(r)'
              \/ name' # NoInode
              \/ name' = name /\ ~WillLeave(r) /\ (Left(r)' => Left(r))
              \/ FirstFailed(r)'
<1> USE DEF TypeOK, WillLeave, Left, At, Goto, FirstFailed
<1>0. run[r] \in Process /\ run \in [Runs -> Process]
  OBVIOUS
<1>1. \A q \in Runs \ {r} : run'[q] = run[q]
  BY DEF RunStep, ChkDest, StatJournal, LinkAside, CopyAside, NothingToMove, UnlinkJournal,
         LoadJournal, Restore, Relink, OpenFiles, VisitJournal, CloseFiles, TarJournal, Finish,
         EnterDir, Visit, TarCopy
<1>2. CASE ChkDest(r) \/ StatJournal(r) \/ NothingToMove(r)
  BY <1>0, <1>1, <1>2 DEF ChkDest, StatJournal, NothingToMove, Process
<1>3. CASE LinkAside(r) \/ CopyAside(r)
  <2>1. PICK i \in Inode \ {NoInode} : run' = [run EXCEPT ![r].pc = "unlink", ![r].old = i]
    BY <1>3, InodeFacts DEF LinkAside, CopyAside
  <2>2. run'[r].pc = "unlink" /\ run'[r].old = i /\ name' = name /\ run[r].pc = "move"
    BY <1>0, <1>3, <2>1 DEF LinkAside, CopyAside, Process
  <2> QED BY <1>1, <2>2
<1>4. CASE UnlinkJournal(r) \/ Restore(r)
  BY <1>0, <1>1, <1>4 DEF UnlinkJournal, Restore, Process, LeftInv
<1>5. CASE LoadJournal(r)
  <2>1. /\ run[r].pc = "load" /\ run[r].old # NoInode
        /\ run'[r].pc \in {"restore", "open"} /\ run'[r].old = run[r].old
    <3>1. run[r].pc = "load" /\ run[r].old # NoInode
      BY <1>5 DEF LoadJournal, LeftInv
    <3>2. PICK lines \in Visible(run[r].old) :
             run' = [run EXCEPT
                       ![r].tree = lines,
                       ![r].type = IF lines[Journal] # 0 /\ made[lines[Journal]] # {}
                                   THEN "recurrent" ELSE "firstTime",
                       ![r].pc = IF lines[Journal] = run[r].day THEN "restore" ELSE "open"]
      BY <1>5 DEF LoadJournal
    <3>3. run'[r].pc \in {"restore", "open"} /\ run'[r].old = run[r].old
      BY <1>0, <3>2 DEF Process
    <3> QED BY <3>1, <3>3
  <2> QED BY <1>1, <2>1
<1>6. CASE Relink(r)
  BY <1>0, <1>1, <1>6 DEF Relink, Process, LeftInv
<1>7. CASE OpenFiles(r)
  BY <1>0, <1>1, <1>7, InodeFacts DEF OpenFiles, Process
<1>8. CASE VisitJournal(r) \/ TarJournal(r) \/ (\E d \in Dirs : EnterDir(r, d))
           \/ \E f \in Files : Visit(r, f) \/ TarCopy(r, f)
  <2>1. run[r].pc \in {"walk", "tar"} /\ name' = name /\ run'[r].pc = run[r].pc
    <3>1. CASE VisitJournal(r)
      <4>1. /\ run[r].pc = "walk" /\ name' = name
            /\ \E l \in SUBSET {Journal} :
                   \/ run' = [run EXCEPT ![r].todo = @ \ {Journal}]
                   \/ run' = [run EXCEPT ![r].todo = @ \ {Journal}, ![r].list = @ \cup l]
        BY <3>1 DEF VisitJournal
      <4> QED BY <1>0, <4>1 DEF Process
    <3>2. CASE \E d \in Dirs : EnterDir(r, d)
      BY <1>0, <3>2 DEF EnterDir, Process
    <3>3. CASE \E f \in Files : Visit(r, f)
      BY <1>0, <3>3 DEF Visit, Process
    <3>4. CASE \E f \in Files : TarCopy(r, f)
      BY <1>0, <3>4 DEF TarCopy, Process
    <3>5. CASE TarJournal(r)
      BY <1>0, <3>5 DEF TarJournal, Process
    <3> QED BY <1>8, <3>1, <3>2, <3>3, <3>4, <3>5
  <2> QED BY <1>1, <2>1
<1>9. CASE CloseFiles(r)
  BY <1>0, <1>1, <1>9 DEF CloseFiles, Process
<1>10. CASE Finish(r)
  <2>1. /\ run[r].pc = "tar" /\ run'[r].pc = (IF run[r].rst THEN "ok" ELSE "fail") /\ run'[r].type = run[r].type
        /\ name' = IF run[r].type = "firstTime" /\ ~run[r].rst THEN NoInode ELSE name
    BY <1>0, <1>10 DEF Finish, Process
  <2> QED BY <1>1, <2>1
<1> QED
  BY <1>1, <1>2, <1>3, <1>4, <1>5, <1>6, <1>7, <1>8, <1>9, <1>10 DEF RunStep

\* Any number of runs, interleaved in any way, do not lose the journal between them, though
\* each moves, removes and creates it while others do: when all are over, one of them has
\* dumped the source or was refused, and none was a first backup that tar failed, there is one.
THEOREM JournalIsLeft == Spec => []JournalLeft
<1>1. Init => LeftInv
  BY DEF Init, LeftInv, Left, Idle
<1>2. ASSUME TypeOK, LeftInv, [Next]_vars PROVE LeftInv'
  <2>1. CASE Tick \/ (\E f \in Files : Edit(f)) \/ UNCHANGED vars
    BY <1>2, <2>1 DEF Tick, Edit, vars, LeftInv, Left, WillLeave, FirstFailed, At
  <2>2. ASSUME NEW r \in Runs, RunStep(r) PROVE LeftInv'
    <3>1. \A q \in Runs \ {r} : /\ WillLeave(q)' <=> WillLeave(q)
                                /\ Left(q)' <=> Left(q)
                                /\ FirstFailed(q)' <=> FirstFailed(q)
      BY <1>2, <2>2, StepMoves DEF WillLeave, Left, FirstFailed, At
    <3> QED BY <1>2, <2>2, <3>1, StepMoves DEF LeftInv
  <2> QED BY <1>2, <2>1, <2>2 DEF Next
<1>3. LeftInv => JournalLeft
  BY DEF LeftInv, JournalLeft, Left, WillLeave, Over, Dumped, At
<1> QED
  BY <1>1, <1>2, <1>3, OverlapTyping, PTL DEF Spec

----------------------------------------------------------------------------
\* The journal that is left is sound, and the dump is complete.

\* What the steps do to the parts of a process.
Others(r) == \A q \in Runs \ {r} : run'[q] = run[q]
SameDay(r) == run'[r].day = run[r].day /\ run'[r].began = run[r].began
SameTree(r) == run'[r].type = run[r].type /\ run'[r].tree = run[r].tree
SameWalk(r) == run'[r].out = run[r].out /\ run'[r].todo = run[r].todo /\ run'[r].list = run[r].list

\* A step that only moves the process on leaves the rest of it.
LEMMA GotoFacts ==
    ASSUME TypeOK, NEW r \in Runs, NEW l, Goto(r, l)
    PROVE  run'[r].pc = l /\ run'[r].old = run[r].old /\ Others(r) /\ SameDay(r) /\ SameTree(r) /\ SameWalk(r)
<1>1. run' = [run EXCEPT ![r] = [run[r] EXCEPT !.pc = l]] /\ run[r] \in Process
  BY DEF Goto, TypeOK
<1> QED BY <1>1 DEF Process, TypeOK, Others, SameDay, SameTree, SameWalk

\* What chkDest() leaves: the run has its day, the day its directory.
LEMMA ChkDestFacts ==
    ASSUME TypeOK, NEW r \in Runs, ChkDest(r)
    PROVE  /\ run[r].pc = "idle" /\ run'[r].pc = "source" /\ run'[r].day = now /\ run'[r].began = ver
           /\ run'[r].old = run[r].old /\ Others(r) /\ SameTree(r) /\ SameWalk(r)
           /\ made' = [made EXCEPT ![now] = @ \cup {Root}]
           /\ UNCHANGED <<now, ver, name, text, mtime, dump>>
<1> DEFINE p == [run[r] EXCEPT !.pc = "source", !.day = now, !.began = ver]
<1>1. run' = [run EXCEPT ![r] = p] /\ run[r] \in Process
  BY DEF ChkDest, TypeOK
<1>2. /\ p.pc = "source" /\ p.day = now /\ p.began = ver /\ p.old = run[r].old /\ p.type = run[r].type
      /\ p.tree = run[r].tree /\ p.out = run[r].out /\ p.todo = run[r].todo /\ p.list = run[r].list
  BY <1>1 DEF Process
<1> HIDE DEF p
<1> QED BY <1>1, <1>2 DEF ChkDest, At, TypeOK, Others, SameTree, SameWalk

\* What stat() of the journal decides.
LEMMA StatFacts ==
    ASSUME TypeOK, NEW r \in Runs, StatJournal(r)
    PROVE  /\ run[r].pc = "source"
           /\ \/ name = NoInode /\ run'[r].pc = "open" /\ run'[r].type = "firstTime"
              \/ name # NoInode /\ run'[r].pc = "move" /\ run'[r].type = run[r].type
           /\ run'[r].tree = run[r].tree /\ run'[r].old = run[r].old /\ Others(r) /\ SameDay(r) /\ SameWalk(r)
           /\ UNCHANGED <<now, ver, name, text, mtime, dump, made>>
<1> DEFINE p == [run[r] EXCEPT !.pc = IF name = NoInode THEN "open" ELSE "move",
                               !.type = IF name = NoInode THEN "firstTime" ELSE @]
<1>1. run' = [run EXCEPT ![r] = p] /\ run[r] \in Process
  BY DEF StatJournal, TypeOK
<1>2. /\ p.pc = IF name = NoInode THEN "open" ELSE "move"
      /\ p.type = IF name = NoInode THEN "firstTime" ELSE run[r].type
      /\ p.day = run[r].day /\ p.began = run[r].began /\ p.old = run[r].old
      /\ p.tree = run[r].tree /\ p.out = run[r].out /\ p.todo = run[r].todo /\ p.list = run[r].list
  BY <1>1 DEF Process
<1> HIDE DEF p
<1> QED BY <1>1, <1>2 DEF StatJournal, At, TypeOK, Others, SameDay, SameWalk

\* What moveFile() has when it has linked or copied the journal.
LEMMA AsideFacts ==
    ASSUME TypeOK, NEW r \in Runs, LinkAside(r) \/ CopyAside(r)
    PROVE  /\ run[r].pc = "move" /\ run'[r].pc = "unlink" /\ name # NoInode
           /\ \/ run'[r].old = name /\ UNCHANGED <<text, mtime>>
              \/ /\ run'[r].old = Copy(r)
                 /\ mtime' = [mtime EXCEPT ![Copy(r)] = now]
                 /\ \E lines \in Visible(name) : text' = [text EXCEPT ![Copy(r)] = lines]
           /\ Others(r) /\ SameDay(r) /\ SameTree(r) /\ SameWalk(r)
           /\ UNCHANGED <<now, ver, name, dump, made>>
<1>1. PICK i : /\ run' = [run EXCEPT ![r].pc = "unlink", ![r].old = i]
               /\ \/ i = name /\ LinkAside(r)
                  \/ i = Copy(r) /\ CopyAside(r)
  BY DEF LinkAside, CopyAside
<1> DEFINE p == [run[r] EXCEPT !.pc = "unlink", !.old = i]
<1>2. run' = [run EXCEPT ![r] = p] /\ run[r] \in Process
  BY <1>1 DEF TypeOK
<1>3. /\ p.pc = "unlink" /\ p.old = i /\ p.day = run[r].day /\ p.began = run[r].began /\ p.type = run[r].type
      /\ p.tree = run[r].tree /\ p.out = run[r].out /\ p.todo = run[r].todo /\ p.list = run[r].list
  BY <1>2 DEF Process
<1> HIDE DEF p
<1> QED BY <1>1, <1>2, <1>3 DEF LinkAside, CopyAside, At, TypeOK, Others, SameDay, SameTree, SameWalk

\* What a run knows when it has read the old journal.
LEMMA LoadFacts ==
    ASSUME TypeOK, NEW r \in Runs, LoadJournal(r)
    PROVE  /\ run[r].pc = "load" /\ run'[r].tree \in Visible(run[r].old)
           /\ run'[r].type = (IF run'[r].tree[Journal] # 0 /\ made[run'[r].tree[Journal]] # {}
                              THEN "recurrent" ELSE "firstTime")
           /\ run'[r].pc = (IF run'[r].tree[Journal] = run[r].day THEN "restore" ELSE "open")
           /\ run'[r].old = run[r].old /\ Others(r) /\ SameDay(r) /\ SameWalk(r)
           /\ UNCHANGED <<now, ver, name, text, mtime, dump, made>>
<1>1. PICK lines \in Visible(run[r].old) :
         run' = [run EXCEPT
                   ![r].tree = lines,
                   ![r].type = IF lines[Journal] # 0 /\ made[lines[Journal]] # {}
                               THEN "recurrent" ELSE "firstTime",
                   ![r].pc = IF lines[Journal] = run[r].day THEN "restore" ELSE "open"]
  BY DEF LoadJournal
<1> DEFINE p == [run[r] EXCEPT
                   !.tree = lines,
                   !.type = IF lines[Journal] # 0 /\ made[lines[Journal]] # {}
                            THEN "recurrent" ELSE "firstTime",
                   !.pc = IF lines[Journal] = run[r].day THEN "restore" ELSE "open"]
<1>2. run' = [run EXCEPT ![r] = p] /\ run[r] \in Process
  BY <1>1 DEF TypeOK
<1>3. /\ p.pc = (IF lines[Journal] = run[r].day THEN "restore" ELSE "open")
      /\ p.type = (IF lines[Journal] # 0 /\ made[lines[Journal]] # {} THEN "recurrent" ELSE "firstTime")
      /\ p.tree = lines /\ p.old = run[r].old /\ p.day = run[r].day /\ p.began = run[r].began
      /\ p.out = run[r].out /\ p.todo = run[r].todo /\ p.list = run[r].list
  BY <1>2 DEF Process
<1> HIDE DEF p
<1> QED BY <1>1, <1>2, <1>3 DEF LoadJournal, At, TypeOK, Others, SameDay, SameWalk

\* What openFilesLocal() does to the process and to the journal.
LEMMA OpenFacts ==
    ASSUME TypeOK, NEW r \in Runs, OpenFiles(r)
    PROVE  /\ run[r].pc = "open" /\ run'[r].pc = "walk" /\ name' = (IF name = NoInode THEN New(r) ELSE name)
           /\ run'[r].out = name' /\ run'[r].todo = Entries(Root) /\ run'[r].list = run[r].list
           /\ \E lines \in IF Open(name') THEN Subsets(text[name']) ELSE {NoLines} :
                  text' = [text EXCEPT ![name'] = lines]
           /\ mtime' = [mtime EXCEPT ![name'] = now]
           /\ run'[r].old = run[r].old /\ Others(r) /\ SameDay(r) /\ SameTree(r)
           /\ UNCHANGED <<now, ver, dump, made>>
<1> DEFINE i == IF name = NoInode THEN New(r) ELSE name
           p == [run[r] EXCEPT !.pc = "walk", !.out = i, !.todo = Entries(Root)]
<1>1. run' = [run EXCEPT ![r] = p] /\ run[r] \in Process /\ name' = i
  BY DEF OpenFiles, TypeOK
<1>2. /\ p.pc = "walk" /\ p.out = i /\ p.todo = Entries(Root) /\ p.list = run[r].list /\ p.old = run[r].old
      /\ p.day = run[r].day /\ p.began = run[r].began /\ p.tree = run[r].tree /\ p.type = run[r].type
  BY <1>1 DEF Process
<1>3. /\ \E lines \in IF Open(i) THEN Subsets(text[i]) ELSE {NoLines} : text' = [text EXCEPT ![i] = lines]
      /\ mtime' = [mtime EXCEPT ![i] = now] /\ run[r].pc = "open" /\ UNCHANGED <<now, ver, dump, made>>
  BY DEF OpenFiles, At
<1>4. i = IF name = NoInode THEN New(r) ELSE name
  OBVIOUS
<1> HIDE DEF p, i
<1>5. run'[r] = p /\ Others(r)
  BY <1>1 DEF TypeOK, Others
<1>6. SameDay(r) /\ SameTree(r) /\ run'[r].pc = "walk" /\ run'[r].out = name'
      /\ run'[r].todo = Entries(Root) /\ run'[r].list = run[r].list /\ run'[r].old = run[r].old
  BY <1>1, <1>2, <1>5 DEF SameDay, SameTree
<1> QED BY <1>1, <1>3, <1>4, <1>5, <1>6

\* The steps of the walk and of tar: what is to do, and tar's list.
Walked(r, left, tars) ==
    /\ run'[r].todo = left /\ run'[r].list = tars /\ run'[r].out = run[r].out
    /\ run'[r].pc = run[r].pc /\ run'[r].old = run[r].old
    /\ Others(r) /\ SameDay(r) /\ SameTree(r)

\* A step that changes what is to do, or tar's list, leaves the rest of the process.
LEMMA WalkFacts ==
    ASSUME TypeOK, NEW r \in Runs, NEW left, NEW tars
    PROVE  /\ run' = [run EXCEPT ![r].todo = left] => Walked(r, left, run[r].list)
           /\ run' = [run EXCEPT ![r].list = tars] => Walked(r, run[r].todo, tars)
           /\ run' = [run EXCEPT ![r].todo = left, ![r].list = tars] => Walked(r, left, tars)
<1>1. ASSUME NEW p, run' = [run EXCEPT ![r] = p], \E u, v : p = [run[r] EXCEPT !.todo = u, !.list = v]
      PROVE  Walked(r, p.todo, p.list)
  <2>1. PICK u, v : p = [run[r] EXCEPT !.todo = u, !.list = v]
    BY <1>1
  <2>2. run[r] \in Process /\ run'[r] = p /\ Others(r)
    BY <1>1 DEF TypeOK, Others
  <2>3. /\ p.out = run[r].out /\ p.pc = run[r].pc /\ p.old = run[r].old /\ p.day = run[r].day
        /\ p.began = run[r].began /\ p.tree = run[r].tree /\ p.type = run[r].type
    BY <2>1, <2>2 DEF Process
  <2> QED BY <2>2, <2>3 DEF Walked, SameDay, SameTree
<1>2. ASSUME NEW u, NEW v
      PROVE  [run[r] EXCEPT !.todo = u, !.list = v].todo = u /\ [run[r] EXCEPT !.todo = u, !.list = v].list = v
  BY DEF TypeOK, Process
<1>3. [run[r] EXCEPT !.todo = left] = [run[r] EXCEPT !.todo = left, !.list = run[r].list]
  BY DEF TypeOK, Process
<1>4. [run[r] EXCEPT !.list = tars] = [run[r] EXCEPT !.todo = run[r].todo, !.list = tars]
  BY DEF TypeOK, Process
<1>5. ASSUME run' = [run EXCEPT ![r].todo = left] PROVE Walked(r, left, run[r].list)
  <2> DEFINE p == [run[r] EXCEPT !.todo = left]
  <2>1. run' = [run EXCEPT ![r] = p] /\ p = [run[r] EXCEPT !.todo = left, !.list = run[r].list]
    BY <1>3, <1>5 DEF TypeOK
  <2>2. p.todo = left /\ p.list = run[r].list
    BY <1>2, <2>1
  <2> HIDE DEF p
  <2> QED BY <1>1, <2>1, <2>2
<1>6. ASSUME run' = [run EXCEPT ![r].list = tars] PROVE Walked(r, run[r].todo, tars)
  <2> DEFINE p == [run[r] EXCEPT !.list = tars]
  <2>1. run' = [run EXCEPT ![r] = p] /\ p = [run[r] EXCEPT !.todo = run[r].todo, !.list = tars]
    BY <1>4, <1>6 DEF TypeOK
  <2>2. p.list = tars /\ p.todo = run[r].todo
    BY <1>2, <2>1
  <2> HIDE DEF p
  <2> QED BY <1>1, <2>1, <2>2
<1>7. ASSUME run' = [run EXCEPT ![r].todo = left, ![r].list = tars] PROVE Walked(r, left, tars)
  <2> DEFINE p == [run[r] EXCEPT !.todo = left, !.list = tars]
  <2>1. run' = [run EXCEPT ![r] = p]
    BY <1>7 DEF TypeOK
  <2>2. p.todo = left /\ p.list = tars /\ p = [run[r] EXCEPT !.todo = left, !.list = tars]
    BY <1>2
  <2> HIDE DEF p
  <2> QED BY <1>1, <2>1, <2>2
<1> QED BY <1>5, <1>6, <1>7

\* newDirectory(): what is below a directory the run made itself is to do.
LEMMA EnterFacts ==
    ASSUME TypeOK, NEW r \in Runs, NEW d \in Dirs, EnterDir(r, d)
    PROVE  /\ run[r].pc = "walk" /\ run'[r].pc = "walk" /\ d \in run[r].todo
           /\ run'[r].todo = (run[r].todo \ {d}) \cup (IF d \notin made[run[r].day] THEN Entries(d) ELSE {})
           /\ run'[r].list = run[r].list /\ run'[r].out = run[r].out /\ run'[r].old = run[r].old
           /\ Others(r) /\ SameDay(r) /\ SameTree(r)
           /\ made' = [made EXCEPT ![run[r].day] = @ \cup {d}]
           /\ UNCHANGED <<now, ver, name, text, mtime, dump>>
<1>1. run' = [run EXCEPT ![r].todo =
                 (run[r].todo \ {d}) \cup (IF d \notin made[run[r].day] THEN Entries(d) ELSE {})]
  BY DEF EnterDir, TypeOK
<1>2. Walked(r, (run[r].todo \ {d}) \cup (IF d \notin made[run[r].day] THEN Entries(d) ELSE {}), run[r].list)
  BY <1>1, WalkFacts
<1> QED BY <1>2 DEF EnterDir, At, Walked

\* A visited file is linked or put in tar's list, and has its line.
LEMMA VisitFacts ==
    ASSUME TypeOK, NEW r \in Runs, NEW f \in Files, Visit(r, f)
    PROVE  /\ run[r].pc = "walk" /\ run'[r].pc = "walk" /\ f \in run[r].todo /\ run'[r].todo = run[r].todo \ {f}
           /\ run'[r].out = run[r].out /\ run'[r].old = run[r].old
           /\ Others(r) /\ SameDay(r) /\ SameTree(r)
           /\ \/ /\ Unchanged(r, f) /\ dump[LastDay(r)][f] # 0 /\ run'[r].list = run[r].list
                 /\ dump' = [dump EXCEPT ![run[r].day][f] = dump[LastDay(r)][f]]
              \/ run'[r].list = run[r].list \cup {f} /\ dump' = dump
           /\ WriteLine(r, f, ver[f])
           /\ UNCHANGED <<now, ver, name, mtime, made>>
<1>1. CASE Unchanged(r, f) /\ Linkable(r, f)
  <2>1. run' = [run EXCEPT ![r].todo = run[r].todo \ {f}]
    BY <1>1 DEF Visit, TypeOK
  <2>2. Walked(r, run[r].todo \ {f}, run[r].list)
    BY <2>1, WalkFacts
  <2> QED BY <1>1, <2>2 DEF Visit, At, Linkable, Walked
<1>2. CASE ~(Unchanged(r, f) /\ Linkable(r, f))
  <2>1. run' = [run EXCEPT ![r].todo = run[r].todo \ {f}, ![r].list = run[r].list \cup {f}]
    BY <1>2 DEF Visit, TypeOK
  <2>2. Walked(r, run[r].todo \ {f}, run[r].list \cup {f})
    BY <2>1, WalkFacts
  <2> QED BY <1>2, <2>2 DEF Visit, At, Walked
<1> QED BY <1>1, <1>2

\* The visited journal has its line, of the day of its last write or later.
LEMMA VisitJournalFacts ==
    ASSUME TypeOK, NEW r \in Runs, VisitJournal(r)
    PROVE  /\ run[r].pc = "walk" /\ run'[r].pc = "walk" /\ run'[r].todo = run[r].todo \ {Journal}
           /\ run'[r].list \in {run[r].list, run[r].list \cup {Journal}}
           /\ run'[r].out = run[r].out /\ run'[r].old = run[r].old
           /\ Others(r) /\ SameDay(r) /\ SameTree(r)
           /\ \/ text' = text
              \/ /\ name # NoInode
                 /\ \E t \in Day : t >= mtime[name] /\ WriteLine(r, Journal, t)
           /\ UNCHANGED <<now, ver, name, mtime, dump, made>>
<1>1. run' = [run EXCEPT ![r].todo = run[r].todo \ {Journal}] \/ \E l \in {{Journal}, {}} :
         run' = [run EXCEPT ![r].todo = run[r].todo \ {Journal}, ![r].list = run[r].list \cup l]
  BY DEF VisitJournal, TypeOK
<1>2. \/ text' = text
      \/ /\ name # NoInode
         /\ \E t \in Day : t >= mtime[name] /\ WriteLine(r, Journal, t)
  <2>1. CASE name = NoInode
    BY <2>1 DEF VisitJournal
  <2>2. CASE name # NoInode
    <3>1. PICK t \in mtime[name]..(IF Open(name) THEN now ELSE mtime[name]) : WriteLine(r, Journal, t)
      BY <2>2 DEF VisitJournal
    <3>2. mtime[name] \in Day /\ now \in Day
      BY DEF TypeOK
    <3>3. t \in Day /\ t >= mtime[name]
      BY <3>1, <3>2, BoundFacts DEF Day
    <3> QED BY <2>2, <3>1, <3>3
  <2> QED BY <2>1, <2>2
<1>3. \E l \in {{Journal}, {}} : Walked(r, run[r].todo \ {Journal}, run[r].list \cup l)
  <2>1. CASE run' = [run EXCEPT ![r].todo = run[r].todo \ {Journal}]
    <3>1. Walked(r, run[r].todo \ {Journal}, run[r].list) /\ run[r].list = run[r].list \cup {}
      BY <2>1, WalkFacts
    <3> QED BY <3>1
  <2>2. ASSUME NEW l \in {{Journal}, {}},
               run' = [run EXCEPT ![r].todo = run[r].todo \ {Journal}, ![r].list = run[r].list \cup l]
        PROVE  Walked(r, run[r].todo \ {Journal}, run[r].list \cup l)
    BY <2>2, WalkFacts
  <2> QED BY <1>1, <2>1, <2>2
<1> QED BY <1>2, <1>3 DEF VisitJournal, At, Walked

\* What tar copied is in the dump and no longer in its list.
LEMMA TarFacts ==
    ASSUME TypeOK, NEW r \in Runs, NEW f \in Files, TarCopy(r, f)
    PROVE  /\ run[r].pc = "tar" /\ run'[r].pc = "tar" /\ f \in run[r].list /\ run'[r].list = run[r].list \ {f}
           /\ run'[r].todo = run[r].todo /\ run'[r].out = run[r].out /\ run'[r].old = run[r].old
           /\ Others(r) /\ SameDay(r) /\ SameTree(r)
           /\ dump' = [dump EXCEPT ![run[r].day][f] = ver[f]]
           /\ UNCHANGED <<now, ver, name, text, mtime, made>>
<1>1. run' = [run EXCEPT ![r].list = run[r].list \ {f}]
  BY DEF TarCopy, TypeOK
<1>2. Walked(r, run[r].todo, run[r].list \ {f})
  BY <1>1, WalkFacts
<1> QED BY <1>2 DEF TarCopy, At, Walked

\* What tar did with the journal.
LEMMA TarJournalFacts ==
    ASSUME TypeOK, NEW r \in Runs, TarJournal(r)
    PROVE  /\ run[r].pc = "tar" /\ run'[r].pc = "tar" /\ run'[r].list = run[r].list \ {Journal}
           /\ run'[r].todo = run[r].todo /\ run'[r].out = run[r].out /\ run'[r].old = run[r].old
           /\ Others(r) /\ SameDay(r) /\ SameTree(r)
           /\ UNCHANGED <<now, ver, name, text, mtime, dump, made>>
<1>1. PICK copied : run' = [run EXCEPT ![r].list = @ \ {Journal}, ![r].rst = copied]
  BY DEF TarJournal
<1> DEFINE p == [run[r] EXCEPT !.list = @ \ {Journal}, !.rst = copied]
<1>2. run' = [run EXCEPT ![r] = p] /\ run[r] \in Process
  BY <1>1 DEF TypeOK
<1>3. /\ p.pc = run[r].pc /\ p.old = run[r].old /\ p.day = run[r].day /\ p.began = run[r].began
      /\ p.type = run[r].type /\ p.tree = run[r].tree /\ p.out = run[r].out /\ p.todo = run[r].todo
      /\ p.list = run[r].list \ {Journal}
  BY <1>2 DEF Process
<1> HIDE DEF p
<1> QED BY <1>2, <1>3 DEF TarJournal, At, TypeOK, Others, SameDay, SameTree

\* The steps that only move the process on.
MovesOn(r) == \/ NothingToMove(r) \/ UnlinkJournal(r)
              \/ Restore(r) \/ Relink(r)
              \/ CloseFiles(r) \/ Finish(r)

\* What they do.
LEMMA MoveFacts ==
    ASSUME TypeOK, NEW r \in Runs, MovesOn(r)
    PROVE  /\ Others(r) /\ SameDay(r) /\ SameTree(r) /\ SameWalk(r) /\ run'[r].old = run[r].old
           /\ UNCHANGED <<now, ver, text, dump, made>>
           /\ \/ run[r].pc = "move" /\ name = NoInode /\ run'[r].pc = "gaveUp" /\ UNCHANGED <<name, mtime>>
              \/ run[r].pc = "unlink" /\ run'[r].pc = "load" /\ name' = NoInode /\ mtime' = mtime
              \/ run[r].pc = "restore" /\ run'[r].pc = "relink" /\ name' = NoInode /\ mtime' = mtime
              \/ run[r].pc = "relink" /\ run'[r].pc = "refused" /\ name' \in {name, run[r].old} /\ mtime' = mtime
              \/ /\ run[r].pc = "walk" /\ run'[r].pc = "tar" /\ run[r].todo = {} /\ name' = name
                 /\ \E t \in Day : t >= mtime[run[r].out] /\ mtime' = [mtime EXCEPT ![run[r].out] = t]
              \/ /\ run[r].pc = "tar" /\ run'[r].pc \in {"ok", "fail"} /\ run[r].list = {}
                 /\ name' \in {name, NoInode} /\ mtime' = mtime
<1>1. CASE NothingToMove(r)
  BY <1>1, GotoFacts DEF NothingToMove, At
<1>2. CASE UnlinkJournal(r)
  BY <1>2, GotoFacts DEF UnlinkJournal, At
<1>3. CASE Restore(r)
  BY <1>3, GotoFacts DEF Restore, At
<1>4. CASE Relink(r)
  BY <1>4, GotoFacts DEF Relink, At
<1>5. CASE CloseFiles(r)
  <2>1. PICK t \in mtime[run[r].out]..now : mtime' = [mtime EXCEPT ![run[r].out] = t]
    BY <1>5 DEF CloseFiles
  <2>2. mtime[run[r].out] \in Day /\ now \in Day
    BY RunFacts DEF TypeOK
  <2>3. t \in Day /\ t >= mtime[run[r].out]
    BY <2>1, <2>2, BoundFacts DEF Day
  <2> QED BY <1>5, <2>1, <2>3, GotoFacts DEF CloseFiles, At
<1>6. CASE Finish(r)
  BY <1>6, GotoFacts DEF Finish, At
<1> QED BY <1>1, <1>2, <1>3, <1>4, <1>5, <1>6 DEF MovesOn

\* A step of a run is one of these.
LEMMA StepCases ==
    ASSUME NEW r \in Runs, RunStep(r)
    PROVE  \/ ChkDest(r) \/ StatJournal(r) \/ (LinkAside(r) \/ CopyAside(r)) \/ LoadJournal(r)
           \/ MovesOn(r) \/ OpenFiles(r) \/ VisitJournal(r) \/ TarJournal(r)
           \/ (\E d \in Dirs : EnterDir(r, d)) \/ (\E f \in Files : Visit(r, f)) \/ (\E f \in Files : TarCopy(r, f))
  BY DEF RunStep, MovesOn

\* After chkDest() a run keeps its day, and but for makeJournalTree() its tree.
LEMMA KeepsDayAndTree ==
    ASSUME TypeOK, NEW r \in Runs, RunStep(r), ~ChkDest(r)
    PROVE  SameDay(r) /\ (~LoadJournal(r) => run'[r].tree = run[r].tree)
<1> USE DEF SameTree
<1>1. CASE StatJournal(r) BY <1>1, StatFacts
<1>2. CASE LinkAside(r) \/ CopyAside(r) BY <1>2, AsideFacts
<1>3. CASE LoadJournal(r) BY <1>3, LoadFacts
<1>4. CASE MovesOn(r)
  BY <1>4, MoveFacts
<1>5. CASE OpenFiles(r) BY <1>5, OpenFacts
<1>6. CASE VisitJournal(r) \/ TarJournal(r) BY <1>6, VisitJournalFacts, TarJournalFacts
<1>7. ASSUME NEW d \in Dirs, EnterDir(r, d) PROVE SameDay(r) /\ SameTree(r)
  BY <1>7, EnterFacts
<1>8. ASSUME NEW f \in Files, Visit(r, f) PROVE SameDay(r) /\ SameTree(r)
  BY <1>8, VisitFacts
<1>9. ASSUME NEW f \in Files, TarCopy(r, f) PROVE SameDay(r) /\ SameTree(r)
  BY <1>9, TarFacts
<1> QED BY <1>1, <1>2, <1>3, <1>4, <1>5, <1>6, <1>7, <1>8, <1>9, StepCases

\* A run that has started keeps its day; one that has opened a journal keeps it; one that
\* was refused stays so; the clock and the source stay; what is made stays.
LEMMA StepFrame ==
    ASSUME TypeOK, OverlapInv, NEW r \in Runs, RunStep(r)
    PROVE  /\ Others(r) /\ now' = now /\ ver' = ver
           /\ run'[r].pc # "idle" /\ (run[r].pc # "idle" => SameDay(r))
           /\ run[r].pc # "refused" /\ (Active(r) => Active(r)' /\ run'[r].out = run[r].out)
           /\ \A d \in Day : made[d] \subseteq made'[d]
           /\ \A d \in Day : \A n : n \in made'[d] \ made[d] =>
                  \/ n = Root /\ run[r].pc = "idle" /\ d = now
                  \/ n \in Dirs /\ Active(r) /\ d = run[r].day
<1> USE DEF TypeOK
<1>1. CASE ChkDest(r)
  BY <1>1, ChkDestFacts DEF Active
<1>2. CASE StatJournal(r)
  BY <1>2, StatFacts DEF Active
<1>3. CASE LinkAside(r) \/ CopyAside(r)
  BY <1>3, AsideFacts DEF Active
<1>4. CASE LoadJournal(r)
  BY <1>4, LoadFacts DEF Active
<1>5. CASE MovesOn(r)
  BY <1>5, MoveFacts DEF Active, SameWalk
<1>6. CASE OpenFiles(r)
  BY <1>6, OpenFacts DEF Active
<1>7. CASE VisitJournal(r) \/ TarJournal(r)
  BY <1>7, VisitJournalFacts, TarJournalFacts DEF Active
<1>8. ASSUME NEW d \in Dirs, EnterDir(r, d)
      PROVE  /\ Others(r) /\ now' = now /\ ver' = ver
             /\ run'[r].pc # "idle" /\ SameDay(r) /\ run[r].pc # "refused"
             /\ Active(r) /\ Active(r)' /\ run'[r].out = run[r].out
             /\ \A e \in Day : made[e] \subseteq made'[e]
             /\ \A e \in Day : \A n : n \in made'[e] \ made[e] => n \in Dirs /\ e = run[r].day
  <2>1. run[r].day \in Day
    BY RunFacts
  <2> QED BY <1>8, <2>1, EnterFacts DEF Active
<1>9. ASSUME NEW f \in Files, Visit(r, f) \/ TarCopy(r, f)
      PROVE  /\ Others(r) /\ now' = now /\ ver' = ver /\ made' = made
             /\ run'[r].pc # "idle" /\ SameDay(r) /\ run[r].pc # "refused"
             /\ Active(r) /\ Active(r)' /\ run'[r].out = run[r].out
  BY <1>9, VisitFacts, TarFacts DEF Active
<1>10. CASE \E d \in Dirs : EnterDir(r, d)
  BY <1>8, <1>10
<1>11. CASE (\E f \in Files : Visit(r, f)) \/ (\E f \in Files : TarCopy(r, f))
  BY <1>9, <1>11
<1> QED
  BY <1>1, <1>2, <1>3, <1>4, <1>5, <1>6, <1>7, <1>10, <1>11, StepCases

\* What a step leaves in the dump: what was there, or the version the source has.
LEMMA DumpStep ==
    ASSUME TypeOK, OverlapInv, NEW r \in Runs, RunStep(r), NEW d \in Day, NEW f \in Files
    PROVE  \/ dump'[d][f] = dump[d][f]
           \/ /\ dump'[d][f] = ver[f] /\ d = run[r].day /\ Active(r)
              /\ f \in run[r].todo \cup run[r].list /\ f \notin run'[r].todo \cup run'[r].list
<1>1. CASE \/ ChkDest(r) \/ StatJournal(r) \/ (LinkAside(r) \/ CopyAside(r)) \/ LoadJournal(r)
           \/ MovesOn(r) \/ OpenFiles(r) \/ VisitJournal(r) \/ TarJournal(r) \/ (\E e \in Dirs : EnterDir(r, e))
  <2>1. dump' = dump
    BY <1>1 DEF ChkDest, StatJournal, LinkAside, CopyAside, LoadJournal, MovesOn, NothingToMove, UnlinkJournal,
       Restore, Relink, CloseFiles, TarJournal, Finish, OpenFiles, VisitJournal, EnterDir
  <2> QED BY <2>1
<1>2. ASSUME NEW g \in Files, Visit(r, g)
      PROVE  \/ dump'[d][f] = dump[d][f]
             \/ /\ dump'[d][f] = ver[f] /\ d = run[r].day /\ Active(r)
                /\ f \in run[r].todo \cup run[r].list /\ f \notin run'[r].todo \cup run'[r].list
  <2>1. CASE dump' = dump
    BY <2>1
  <2>2. CASE /\ Unchanged(r, g) /\ dump[LastDay(r)][g] # 0 /\ run'[r].list = run[r].list
             /\ dump' = [dump EXCEPT ![run[r].day][g] = dump[LastDay(r)][g]]
    <3>1. dump[LastDay(r)][g] = ver[g]
      BY <1>2, <2>2, VisitFacts DEF OverlapInv, TreesKept, Unchanged
    <3>2. g \in run[r].todo /\ g \notin run[r].list
      BY <1>2, VisitFacts DEF OverlapInv, DumpedOnce
    <3>3. run[r].day \in Day
      BY RunFacts
    <3>4. (d = run[r].day /\ f = g) \/ dump'[d][f] = dump[d][f]
      BY <2>2, <3>3 DEF TypeOK
    <3>5. dump'[run[r].day][g] = ver[g]
      BY <2>2, <3>1, <3>3 DEF TypeOK
    <3>6. g \notin run'[r].todo \cup run'[r].list /\ Active(r)
      BY <1>2, <2>2, <3>2, VisitFacts DEF Active
    <3> QED BY <3>2, <3>4, <3>5, <3>6
  <2> QED BY <1>2, <2>1, <2>2, VisitFacts
<1>3. ASSUME NEW g \in Files, TarCopy(r, g)
      PROVE  \/ dump'[d][f] = dump[d][f]
             \/ /\ dump'[d][f] = ver[f] /\ d = run[r].day /\ Active(r)
                /\ f \in run[r].todo \cup run[r].list /\ f \notin run'[r].todo \cup run'[r].list
  <2>1. run[r].day \in Day /\ dump' = [dump EXCEPT ![run[r].day][g] = ver[g]] /\ g \in run[r].list
    BY <1>3, RunFacts, TarFacts
  <2>2. (d = run[r].day /\ f = g) \/ dump'[d][f] = dump[d][f]
    BY <2>1 DEF TypeOK
  <2>3. dump'[run[r].day][g] = ver[g]
    BY <2>1 DEF TypeOK
  <2>4. run[r].todo = {} /\ Active(r) /\ g \notin run'[r].todo \cup run'[r].list
    BY <1>3, TarFacts DEF OverlapInv, Phases, Active
  <2> QED BY <2>1, <2>2, <2>3, <2>4
<1> QED BY <1>1, <1>2, <1>3, StepCases

\* What a step takes from those in hand it has in the dump, or made.
LEMMA HandStep ==
    ASSUME TypeOK, OverlapInv, NEW r \in Runs, RunStep(r), NEW n \in Nodes,
           n \in run[r].todo \cup run[r].list, n \notin run'[r].todo \cup run'[r].list
    PROVE  \/ n \in Files /\ dump'[run[r].day][n] = ver[n]
           \/ n \in Dirs /\ n \in made'[run[r].day] /\ n \in run[r].todo
<1>0. run[r].day \in Day /\ n # Journal
  BY RunFacts, OverlapAssumption
<1>1. CASE ChkDest(r)
  BY <1>1, ChkDestFacts DEF SameWalk
<1>2. CASE StatJournal(r)
  BY <1>2, StatFacts DEF SameWalk
<1>3. CASE LinkAside(r) \/ CopyAside(r)
  BY <1>3, AsideFacts DEF SameWalk
<1>4. CASE LoadJournal(r)
  BY <1>4, LoadFacts DEF SameWalk
<1>5. CASE MovesOn(r)
  BY <1>5, MoveFacts DEF SameWalk
<1>6. CASE OpenFiles(r)
  <2>1. run[r].todo = {} /\ run[r].list = {}
    BY <1>6, OpenFacts DEF OverlapInv, Phases
  <2> QED BY <2>1
<1>7. CASE VisitJournal(r) \/ TarJournal(r)
  BY <1>0, <1>7, VisitJournalFacts, TarJournalFacts
<1>8. ASSUME NEW d \in Dirs, EnterDir(r, d) PROVE n \in Dirs /\ n \in made'[run[r].day] /\ n \in run[r].todo
  BY <1>0, <1>8, EnterFacts DEF TypeOK
<1>9. ASSUME NEW f \in Files, Visit(r, f) PROVE n \in Files /\ dump'[run[r].day][n] = ver[n]
  <2>0. run'[r].todo = run[r].todo \ {f}
        /\ \/ /\ Unchanged(r, f) /\ dump[LastDay(r)][f] # 0 /\ run'[r].list = run[r].list
              /\ dump' = [dump EXCEPT ![run[r].day][f] = dump[LastDay(r)][f]]
           \/ run'[r].list = run[r].list \cup {f}
    BY <1>9, VisitFacts
  <2>1. n = f
    BY <2>0
  <2>2. run'[r].list = run[r].list /\ dump[LastDay(r)][f] # 0 /\ Unchanged(r, f)
        /\ dump' = [dump EXCEPT ![run[r].day][f] = dump[LastDay(r)][f]]
    BY <2>0, <2>1
  <2>3. dump[LastDay(r)][f] = ver[f]
    BY <1>9, <2>2, VisitFacts DEF OverlapInv, TreesKept, Unchanged
  <2> QED BY <1>0, <2>1, <2>2, <2>3 DEF TypeOK
<1>10. ASSUME NEW f \in Files, TarCopy(r, f) PROVE n \in Files /\ dump'[run[r].day][n] = ver[n]
  <2>1. /\ run'[r].list = run[r].list \ {f} /\ run'[r].todo = run[r].todo
        /\ dump' = [dump EXCEPT ![run[r].day][f] = ver[f]]
    BY <1>10, TarFacts
  <2> QED BY <1>0, <2>1 DEF TypeOK
<1> QED
  BY <1>1, <1>2, <1>3, <1>4, <1>5, <1>6, <1>7, <1>8, <1>9, <1>10, StepCases

\* The lines k are lines of l, if not all of them.
Fewer(k, l) == \A p \in Paths : k[p] \in {0, l[p]}

\* What is seen of a journal, or is left of it by two who write, is.
LEMMA FewerFacts ==
    ASSUME TypeOK
    PROVE  /\ \A l \in Lines : \A k \in Subsets(l) : Fewer(k, l)
           /\ \A i \in Inode : \A k \in Visible(i) : Fewer(k, text[i])
           /\ \A i \in Inode : \A l \in Lines : \A k \in Merged(i, l) : Fewer(k, l)
<1>1. ASSUME NEW l \in Lines, NEW k \in Subsets(l) PROVE Fewer(k, l)
  <2>1. PICK kept : k = [p \in Paths |-> IF p \in kept THEN l[p] ELSE 0]
    BY <1>1 DEF Subsets
  <2> QED BY <2>1 DEF Fewer
<1>2. ASSUME NEW l PROVE Fewer(l, l)
  BY DEF Fewer
<1>3. \A i \in Inode : text[i] \in Lines
  BY DEF TypeOK
<1> QED BY <1>1, <1>2, <1>3 DEF Visible, Merged

\* A line that is written: the journal of the run keeps no other line but what it had.
LEMMA WriteLineFacts ==
    ASSUME TypeOK, NEW r \in Runs, NEW p \in Paths, NEW t \in Nat, p = Journal => t \in 0..MaxDay,
           WriteLine(r, p, t)
    PROVE  /\ \A i \in Inode \ {run[r].out} : text'[i] = text[i]
           /\ \A s \in Paths \ {p} : text'[run[r].out][s] \in {0, text[run[r].out][s]}
           /\ text'[run[r].out][p] \in {0, t}
<1>1. run[r].out \in Inode /\ text[run[r].out] \in Lines
  BY RunFacts DEF TypeOK
<1>2. [text[run[r].out] EXCEPT ![p] = t] \in Lines
  BY <1>1, LineWritten
<1>3. PICK l \in Merged(run[r].out, [text[run[r].out] EXCEPT ![p] = t]) :
         text' = [text EXCEPT ![run[r].out] = l]
  BY DEF WriteLine
<1>4. Fewer(l, [text[run[r].out] EXCEPT ![p] = t])
  BY <1>1, <1>2, <1>3, FewerFacts
<1>5. \A s \in Paths : [text[run[r].out] EXCEPT ![p] = t][s] = IF s = p THEN t ELSE text[run[r].out][s]
  BY <1>1 DEF Lines
<1>6. text'[run[r].out] = l /\ \A i \in Inode \ {run[r].out} : text'[i] = text[i]
  BY <1>1, <1>3 DEF TypeOK
<1> QED BY <1>4, <1>5, <1>6 DEF Fewer

\* What a step makes of the lines of a journal.
CopiedTo(r, i) == /\ run[r].pc = "move" /\ i = Copy(r) /\ name # NoInode
                  /\ text'[i] \in Visible(name) /\ mtime'[i] = now
OpenedBy(r, i) == /\ run[r].pc = "open" /\ i = name' /\ i = run'[r].out
                  /\ text'[i] \in IF Open(i) THEN Subsets(text[i]) ELSE {NoLines}
WrittenBy(r, i) ==
    /\ run[r].pc = "walk" /\ i = run[r].out
    /\ \A f \in Files : \/ text'[i][f] \in {0, text[i][f]}
                        \/ text'[i][f] = ver[f] /\ (f \in run'[r].list \/ dump'[run[r].day][f] = ver[f])
    /\ \/ text'[i][Journal] \in {0, text[i][Journal]}
       \/ name # NoInode /\ text'[i][Journal] >= mtime[name]

\* The journal is as it was, a copy made aside, opened, or written to.
LEMMA TextStep ==
    ASSUME TypeOK, OverlapInv, NEW r \in Runs, RunStep(r), NEW i \in Inode
    PROVE  text'[i] = text[i] \/ CopiedTo(r, i) \/ OpenedBy(r, i) \/ WrittenBy(r, i)
<1> DEFINE Goal == text'[i] = text[i] \/ CopiedTo(r, i) \/ OpenedBy(r, i) \/ WrittenBy(r, i)
<1> SUFFICES Goal
  OBVIOUS
<1>0. run[r].out \in Inode /\ run[r].day \in Day /\ name \in Inode
  BY RunFacts DEF TypeOK
<1>1. CASE \/ ChkDest(r) \/ StatJournal(r) \/ LoadJournal(r) \/ MovesOn(r) \/ TarJournal(r)
           \/ (\E d \in Dirs : EnterDir(r, d)) \/ (\E f \in Files : TarCopy(r, f))
  <2>1. text' = text
    BY <1>1 DEF ChkDest, StatJournal, LoadJournal, MovesOn, NothingToMove, UnlinkJournal, Restore, Relink,
       CloseFiles, TarJournal, Finish, EnterDir, TarCopy
  <2> QED BY <2>1
<1>2. CASE LinkAside(r) \/ CopyAside(r)
  <2>1. CASE text' = text
    BY <2>1
  <2>2. CASE /\ mtime' = [mtime EXCEPT ![Copy(r)] = now]
             /\ \E lines \in Visible(name) : text' = [text EXCEPT ![Copy(r)] = lines]
    <3>1. PICK lines \in Visible(name) : text' = [text EXCEPT ![Copy(r)] = lines]
      BY <2>2
    <3>2. Copy(r) \in Inode /\ run[r].pc = "move" /\ name # NoInode
      BY <1>2, InodeFacts, AsideFacts
    <3>3. i # Copy(r) => text'[i] = text[i]
      BY <3>1, <3>2 DEF TypeOK
    <3>4. text'[Copy(r)] = lines /\ mtime'[Copy(r)] = now
      BY <2>2, <3>1, <3>2 DEF TypeOK
    <3> QED BY <3>1, <3>2, <3>3, <3>4 DEF CopiedTo
  <2> QED BY <1>2, <2>1, <2>2, AsideFacts
<1>3. CASE OpenFiles(r)
  <2>1. PICK lines \in IF Open(name') THEN Subsets(text[name']) ELSE {NoLines} :
           text' = [text EXCEPT ![name'] = lines]
    BY <1>3, OpenFacts
  <2>2. name' \in Inode /\ run'[r].out = name' /\ run[r].pc = "open"
    BY <1>0, <1>3, OpenFacts, InodeFacts
  <2>3. i # name' => text'[i] = text[i]
    BY <2>1, <2>2 DEF TypeOK
  <2>4. text'[name'] = lines
    BY <2>1, <2>2 DEF TypeOK
  <2> QED BY <2>1, <2>2, <2>3, <2>4 DEF OpenedBy
<1>4. CASE VisitJournal(r)
  <2>1. CASE text' = text
    BY <2>1
  <2>2. ASSUME name # NoInode, NEW t \in Day, t >= mtime[name], WriteLine(r, Journal, t) PROVE Goal
    <3>1. t \in Nat /\ t \in 0..MaxDay /\ Journal \in Paths /\ \A f \in Files : f \in Paths /\ f # Journal
      BY <2>2, BoundFacts DEF Day
    <3>2. i # run[r].out => text'[i] = text[i]
      BY <2>2, <3>1, WriteLineFacts
    <3>3. \A f \in Files : text'[run[r].out][f] \in {0, text[run[r].out][f]}
      BY <2>2, <3>1, WriteLineFacts
    <3>4. text'[run[r].out][Journal] \in {0, t}
      BY <2>2, <3>1, WriteLineFacts
    <3>5. run[r].pc = "walk"
      BY <1>4, VisitJournalFacts
    <3>6. CASE i = run[r].out
      <4>1. \A f \in Files : text'[i][f] \in {0, text[i][f]}
        BY <3>3, <3>6
      <4>2. name # NoInode /\ (text'[i][Journal] = 0 \/ text'[i][Journal] >= mtime[name])
        BY <2>2, <3>4, <3>6
      <4> QED BY <3>5, <3>6, <4>1, <4>2 DEF WrittenBy
    <3> QED BY <3>2, <3>6
  <2> QED BY <1>4, <2>1, <2>2, VisitJournalFacts
<1>5. ASSUME NEW f \in Files, Visit(r, f) PROVE Goal
  <2>1. ver[f] \in Nat /\ f \in Paths /\ f # Journal /\ Journal \in Paths /\ Files \subseteq Paths
    BY BoundFacts DEF TypeOK
  <2>2. WriteLine(r, f, ver[f]) /\ run[r].pc = "walk"
    BY <1>5, VisitFacts
  <2>3. /\ i # run[r].out => text'[i] = text[i]
        /\ \A s \in Paths \ {f} : text'[run[r].out][s] \in {0, text[run[r].out][s]}
        /\ text'[run[r].out][f] \in {0, ver[f]}
    BY <2>1, <2>2, WriteLineFacts
  <2>4. f \in run'[r].list \/ dump'[run[r].day][f] = ver[f]
    <3>1. CASE /\ Unchanged(r, f) /\ dump[LastDay(r)][f] # 0
               /\ dump' = [dump EXCEPT ![run[r].day][f] = dump[LastDay(r)][f]]
      <4>1. dump[LastDay(r)][f] = ver[f]
        BY <2>2, <3>1 DEF OverlapInv, TreesKept, Unchanged
      <4> QED BY <1>0, <3>1, <4>1 DEF TypeOK
    <3>2. \/ /\ Unchanged(r, f) /\ dump[LastDay(r)][f] # 0 /\ run'[r].list = run[r].list
             /\ dump' = [dump EXCEPT ![run[r].day][f] = dump[LastDay(r)][f]]
          \/ run'[r].list = run[r].list \cup {f} /\ dump' = dump
      BY <1>5, VisitFacts
    <3> QED BY <3>1, <3>2
  <2>5. \A g \in Files : \/ text'[run[r].out][g] \in {0, text[run[r].out][g]}
                         \/ /\ text'[run[r].out][g] = ver[g]
                            /\ g \in run'[r].list \/ dump'[run[r].day][g] = ver[g]
    BY <2>1, <2>3, <2>4
  <2>6. text'[run[r].out][Journal] \in {0, text[run[r].out][Journal]}
    BY <2>1, <2>3
  <2>7. CASE i = run[r].out
    <3>1. \A g \in Files : \/ text'[i][g] \in {0, text[i][g]}
                           \/ text'[i][g] = ver[g] /\ (g \in run'[r].list \/ dump'[run[r].day][g] = ver[g])
      BY <2>5, <2>7
    <3> QED BY <2>2, <2>6, <2>7, <3>1 DEF WrittenBy
  <2> QED BY <2>3, <2>7
<1> QED
  BY <1>1, <1>2, <1>3, <1>4, <1>5, StepCases

\* Nothing is ever of a version to come.
LEMMA VersionsNext ==
    ASSUME TypeOK, OverlapInv, NEW r \in Runs, RunStep(r)
    PROVE  VersionsPast'
<1> SUFFICES ASSUME NEW f \in Files
             PROVE  /\ \A i \in Inode : text'[i][f] <= ver[f]
                    /\ \A d \in Day : dump'[d][f] <= ver[f]
                    /\ \A q \in Runs : run'[q].tree[f] <= ver[f] /\ run'[q].began[f] <= ver[f]
  BY StepFrame DEF VersionsPast
<1>0. ver[f] \in Nat /\ f \in Paths /\ name \in Inode /\ VersionsPast
  BY BoundFacts DEF TypeOK, OverlapInv
<1>1. ASSUME NEW i \in Inode PROVE text'[i][f] <= ver[f]
  <2>0. \A j \in Inode : text[j] \in Lines
    BY DEF TypeOK
  <2>1. CASE text'[i] = text[i]
    BY <1>0, <2>1 DEF VersionsPast
  <2>2. CASE CopiedTo(r, i)
    <3>1. text'[i][f] \in {0, text[name][f]}
      BY <1>0, <2>2, FewerFacts DEF CopiedTo, Fewer
    <3> QED BY <1>0, <3>1 DEF VersionsPast
  <2>3. CASE OpenedBy(r, i)
    <3>1. text[i] \in Lines
      BY DEF TypeOK
    <3>2. text'[i][f] \in {0, text[i][f]}
      BY <1>0, <2>3, <3>1, FewerFacts DEF OpenedBy, Fewer, NoLines
    <3> QED BY <1>0, <3>2 DEF VersionsPast
  <2>4. CASE WrittenBy(r, i)
    BY <1>0, <2>4 DEF WrittenBy, VersionsPast
  <2> QED BY <2>1, <2>2, <2>3, <2>4, TextStep
<1>2. ASSUME NEW d \in Day PROVE dump'[d][f] <= ver[f]
  BY <1>0, DumpStep DEF VersionsPast
<1>3. ASSUME NEW q \in Runs PROVE run'[q].tree[f] <= ver[f] /\ run'[q].began[f] <= ver[f]
  <2>1. CASE q # r
    BY <1>0, <2>1, StepFrame DEF Others, VersionsPast
  <2>2. run[r].tree[f] <= ver[f] /\ run[r].began[f] <= ver[f]
    BY <1>0 DEF VersionsPast
  <2>3. run'[r].began[f] <= ver[f]
    <3>1. CASE ChkDest(r)
      BY <1>0, <3>1, ChkDestFacts
    <3>2. CASE ~ChkDest(r)
      <4>1. SameDay(r)
        BY <3>2, KeepsDayAndTree
      <4> QED BY <2>2, <4>1 DEF SameDay
    <3> QED BY <3>1, <3>2
  <2>4. run'[r].tree[f] <= ver[f]
    <3>1. CASE LoadJournal(r)
      <4>1. run[r].old \in Inode
        BY RunFacts
      <4>2. run'[r].tree \in Visible(run[r].old)
        BY <3>1, LoadFacts
      <4>3. run'[r].tree[f] \in {0, text[run[r].old][f]}
        BY <1>0, <4>1, <4>2, FewerFacts DEF Fewer
      <4> QED BY <1>0, <4>1, <4>3 DEF VersionsPast
    <3>2. CASE ~LoadJournal(r)
      <4>1. CASE ChkDest(r) BY <2>2, <4>1, ChkDestFacts DEF SameTree
      <4>2. CASE ~ChkDest(r)
        <5>1. run'[r].tree = run[r].tree
          BY <3>2, <4>2, KeepsDayAndTree
        <5> QED BY <2>2, <5>1
      <4> QED BY <4>1, <4>2
    <3> QED BY <3>1, <3>2
  <2> QED BY <2>1, <2>3, <2>4
<1> QED BY <1>1, <1>2, <1>3

\* A run is in its phases.
Phase(r) ==
    /\ Active(r) <=> run[r].out # NoInode
    /\ run[r].pc # "walk" => run[r].todo = {}
    /\ run[r].pc \notin {"walk", "tar"} => run[r].list = {}
    /\ run[r].pc # "idle" => /\ run[r].day >= 2
                             /\ Root \in made[run[r].day]
                             /\ \A f \in Files : run[r].began[f] # 0
    /\ run[r].pc \in {"open", "walk"} /\ run[r].type = "recurrent" => run[r].tree[Journal] # run[r].day

\* Each step takes the run to the next phase.
LEMMA PhasesNext ==
    ASSUME TypeOK, OverlapInv, NEW r \in Runs, RunStep(r)
    PROVE  Phases'
<1>1. now' >= 2
  BY StepFrame DEF OverlapInv, Phases
<1>2. text'[NoInode] = NoLines
  <2>1. NoInode \in Inode /\ NoInode # Copy(r) /\ NoInode # New(r)
    BY InodeFacts
  <2>2. run[r].pc = "walk" => run[r].out # NoInode
    BY DEF OverlapInv, Phases, Active
  <2>3. run[r].pc = "open" => name' # NoInode
    <3>1. CASE OpenFiles(r)
      BY <2>1, <3>1, OpenFacts
    <3>2. CASE ~OpenFiles(r)
      BY <3>2, ChkDestFacts, StatFacts, AsideFacts, LoadFacts, MoveFacts, VisitJournalFacts, EnterFacts,
         VisitFacts, TarFacts, TarJournalFacts, StepCases
    <3> QED BY <3>1, <3>2
  <2>4. text[NoInode] = NoLines
    BY DEF OverlapInv, Phases
  <2> QED BY <2>1, <2>2, <2>3, <2>4, TextStep DEF CopiedTo, OpenedBy, WrittenBy
<1>3. ASSUME NEW q \in Runs, q # r PROVE Phase(q)'
  <2>1. run'[q] = run[q] /\ run[q].day \in Day /\ made[run[q].day] \subseteq made'[run[q].day]
    BY <1>3, RunFacts, StepFrame DEF Others
  <2> QED BY <2>1 DEF OverlapInv, Phases, Phase, Active
<1>4. Phase(r)'
  <2>0. Phase(r) /\ run[r].day \in Day /\ now >= 2 /\ made[run[r].day] \subseteq made'[run[r].day]
    BY RunFacts, StepFrame DEF OverlapInv, Phases, Phase
  <2>1. CASE ChkDest(r)
    <3>1. Root \in made'[now] /\ \A f \in Files : ver[f] # 0
      BY <2>1, ChkDestFacts DEF TypeOK
    <3> QED BY <2>0, <2>1, <3>1, ChkDestFacts DEF Phase, Active, SameWalk
  <2>2. CASE StatJournal(r)
    BY <2>0, <2>2, StatFacts DEF Phase, Active, SameWalk, SameDay
  <2>3. CASE LinkAside(r) \/ CopyAside(r)
    BY <2>0, <2>3, AsideFacts DEF Phase, Active, SameWalk, SameDay
  <2>4. CASE LoadJournal(r)
    BY <2>0, <2>4, LoadFacts DEF Phase, Active, SameWalk, SameDay
  <2>5. CASE MovesOn(r)
    BY <2>0, <2>5, MoveFacts DEF Phase, Active, SameWalk, SameDay, SameTree
  <2>6. CASE OpenFiles(r)
    <3>1. name' # NoInode
      BY <2>6, OpenFacts, InodeFacts
    <3> QED BY <2>0, <2>6, <3>1, OpenFacts DEF Phase, Active, SameDay, SameTree
  <2>7. CASE VisitJournal(r)
    BY <2>0, <2>7, VisitJournalFacts DEF Phase, Active, SameDay, SameTree
  <2>8. ASSUME NEW d \in Dirs, EnterDir(r, d) PROVE Phase(r)'
    BY <2>0, <2>8, EnterFacts DEF Phase, Active, SameDay, SameTree
  <2>9. ASSUME NEW f \in Files, Visit(r, f) PROVE Phase(r)'
    BY <2>0, <2>9, VisitFacts DEF Phase, Active, SameDay, SameTree
  <2>10. ASSUME NEW f \in Files, TarCopy(r, f) PROVE Phase(r)'
    BY <2>0, <2>10, TarFacts DEF Phase, Active, SameDay, SameTree
  <2>11. CASE TarJournal(r)
    BY <2>0, <2>11, TarJournalFacts DEF Phase, Active, SameDay, SameTree
  <2> QED BY <2>1, <2>2, <2>3, <2>4, <2>5, <2>6, <2>7, <2>8, <2>9, <2>10, <2>11, StepCases
<1> QED BY <1>1, <1>2, <1>3, <1>4 DEF Phases, Phase, Active

\* What a step does to the days of the journals.
LEMMA MtimeStep ==
    ASSUME TypeOK, OverlapInv, NEW r \in Runs, RunStep(r)
    PROVE  /\ \A i \in Inode : mtime[i] # 1 => mtime'[i] # 1
           /\ run[r].pc = "open" => mtime'[name'] # 1 /\ name' = run'[r].out /\ name' \in Inode
                                    /\ name' \in {name, New(r)} /\ run'[r].pc = "walk"
<1>0. now >= 2 /\ now \in Day /\ run[r].out \in Inode /\ name \in Inode /\ Copy(r) \in Inode /\ New(r) \in Inode
  BY RunFacts, InodeFacts DEF OverlapInv, Phases, TypeOK
<1>1. CASE \/ ChkDest(r) \/ StatJournal(r) \/ LoadJournal(r) \/ VisitJournal(r) \/ TarJournal(r)
           \/ (\E d \in Dirs : EnterDir(r, d)) \/ (\E f \in Files : Visit(r, f)) \/ (\E f \in Files : TarCopy(r, f))
  <2>1. mtime' = mtime /\ run[r].pc # "open"
    BY <1>1 DEF ChkDest, StatJournal, LoadJournal, VisitJournal, TarJournal, EnterDir, Visit, TarCopy, At
  <2> QED BY <2>1
<1>2. CASE LinkAside(r) \/ CopyAside(r)
  BY <1>0, <1>2, AsideFacts DEF TypeOK
<1>3. CASE MovesOn(r)
  <2>1. run[r].pc # "open"
    BY <1>3, MoveFacts
  <2>2. CASE mtime' = mtime
    BY <2>1, <2>2
  <2>3. ASSUME NEW t \in Day, t >= mtime[run[r].out], mtime' = [mtime EXCEPT ![run[r].out] = t]
        PROVE  \A i \in Inode : mtime[i] # 1 => mtime'[i] # 1
    <3>1. mtime \in [Inode -> Day] /\ \A d \in Day : d \in Nat /\ d >= 1
      BY DEF TypeOK, Day
    <3>2. mtime[run[r].out] # 1 => t # 1
      BY <1>0, <2>3, <3>1
    <3> QED BY <1>0, <2>3, <3>1, <3>2
  <2> QED BY <1>3, <2>1, <2>2, <2>3, MoveFacts
<1>4. CASE OpenFiles(r)
  <2>1. name' \in Inode /\ mtime' = [mtime EXCEPT ![name'] = now] /\ name' = run'[r].out
        /\ name' \in {name, New(r)} /\ run'[r].pc = "walk"
    BY <1>0, <1>4, OpenFacts
  <2>2. \A i \in Inode : mtime'[i] = IF i = name' THEN now ELSE mtime[i]
    BY <2>1 DEF TypeOK
  <2> QED BY <1>0, <2>1, <2>2
<1> QED BY <1>1, <1>2, <1>3, <1>4, StepCases

\* The name leads to the journal it led to, to none, to one the run made or to what it had set
\* aside when it was refused; and where the run is then, as the lemmas below need it.
NameMoves(r) ==
    /\ \/ name' \in {name, NoInode}
       \/ run[r].pc = "open" /\ name' = New(r)
       \/ run[r].pc = "relink" /\ run'[r].pc = "refused" /\ name' = run[r].old
    /\ run[r].pc = "unlink" => name' = NoInode
    /\ run'[r].pc \in {"idle", "source", "move", "unlink"} =>
           run[r].pc \in {"idle", "source", "move", "unlink"}
    /\ run[r].pc \in {"idle", "source", "move"} =>
           run'[r].pc \in {"idle", "source", "move", "unlink"} \/ name = NoInode
    /\ run[r].pc = "open" => OpenFiles(r)
    /\ run'[r].pc \in {"walk", "tar", "ok", "fail"} => run[r].pc \in {"walk", "tar"} \/ OpenFiles(r)
    /\ run'[r].out = run[r].out \/ OpenFiles(r)
    /\ run'[r].pc \in {"idle", "source", "move"} => run[r].pc \in {"idle", "source", "move"}
    /\ run'[r].pc = "relink" => run[r].pc = "restore"
    /\ run'[r].pc = "restore" => LoadJournal(r)
    /\ run'[r].pc \in {"open", "walk"} => \/ LoadJournal(r)
                                          \/ run[r].pc = "source" /\ run'[r].type = "firstTime"
                                          \/ run[r].pc \in {"open", "walk"} /\ SameTree(r)
    /\ LinkAside(r) \/ CopyAside(r) \/ run'[r].old = run[r].old

\* Each step of a run does so.
LEMMA NameStep ==
    ASSUME TypeOK, NEW r \in Runs, RunStep(r)
    PROVE  NameMoves(r)
<1>1. CASE ChkDest(r)
  BY <1>1, ChkDestFacts DEF NameMoves, SameWalk
<1>2. CASE StatJournal(r)
  BY <1>2, StatFacts DEF NameMoves, SameWalk
<1>3. CASE LinkAside(r) \/ CopyAside(r)
  BY <1>3, AsideFacts DEF NameMoves, SameWalk
<1>4. CASE LoadJournal(r)
  BY <1>4, LoadFacts DEF NameMoves, SameWalk
<1>5. CASE MovesOn(r)
  BY <1>5, MoveFacts DEF NameMoves, SameWalk
<1>6. CASE OpenFiles(r)
  BY <1>6, OpenFacts DEF NameMoves
<1>7. CASE VisitJournal(r)
  BY <1>7, VisitJournalFacts DEF NameMoves
<1>8. ASSUME NEW d \in Dirs, EnterDir(r, d) PROVE NameMoves(r)
  BY <1>8, EnterFacts DEF NameMoves
<1>9. ASSUME NEW f \in Files, Visit(r, f) PROVE NameMoves(r)
  BY <1>9, VisitFacts DEF NameMoves
<1>10. ASSUME NEW f \in Files, TarCopy(r, f) PROVE NameMoves(r)
  BY <1>10, TarFacts DEF NameMoves
<1>11. CASE TarJournal(r)
  BY <1>11, TarJournalFacts DEF NameMoves
<1> QED
  BY <1>1, <1>2, <1>3, <1>4, <1>5, <1>6, <1>7, <1>8, <1>9, <1>10, <1>11, StepCases

\* A journal that is opened is empty, but for what another run has in it.
LEMMA OpenedText ==
    ASSUME TypeOK, NEW r \in Runs, OpenFiles(r)
    PROVE  OpenedBy(r, name') /\ name' \in Inode
<1>1. PICK lines \in IF Open(name') THEN Subsets(text[name']) ELSE {NoLines} :
         text' = [text EXCEPT ![name'] = lines]
  BY OpenFacts
<1>2. name' \in Inode /\ run'[r].out = name' /\ run[r].pc = "open"
  BY OpenFacts, InodeFacts DEF TypeOK
<1>3. text'[name'] = lines
  BY <1>1, <1>2 DEF TypeOK
<1> QED BY <1>1, <1>2, <1>3 DEF OpenedBy

\* Only the run before has dated its journal on day 1.
LEMMA DatesNext ==
    ASSUME TypeOK, OverlapInv, NEW r \in Runs, RunStep(r)
    PROVE  Dates'
<1>0. /\ Dates /\ now >= 2 /\ now \in Day /\ name \in Inode /\ run[r].out \in Inode /\ Journal \in Paths
      /\ \A i \in Inode : text[i] \in Lines
      /\ \A q \in Runs : Active(q) <=> run[q].out # NoInode
  BY RunFacts, BoundFacts DEF OverlapInv, Phases, TypeOK
<1>1. run[r].pc = "walk" => Active(r) /\ (name # NoInode => mtime[name] \in Day /\ mtime[name] >= 2)
  <2>1. CASE run[r].pc = "walk" /\ name # NoInode
    <3>1. mtime[name] # 1
      BY <1>0, <2>1 DEF Dates
    <3>2. mtime[name] \in Day
      BY <1>0 DEF TypeOK
    <3> QED BY <2>1, <3>1, <3>2 DEF Active, Day
  <2> QED BY <2>1 DEF Active
<1>2. ASSUME NEW q \in Runs, Active(q)'
      PROVE  text'[run'[q].out][Journal] # 1 /\ mtime'[run'[q].out] # 1
  <2>0. run'[q].out \in Inode
    BY TypeNext, RunFacts DEF Next, TypeOK, Process
  <2>1. CASE Active(q)
    <3>1. run'[q].out = run[q].out /\ text[run[q].out][Journal] # 1 /\ mtime[run[q].out] # 1
      BY <1>0, <2>1, StepFrame DEF Dates, Others
    <3>2. ~CopiedTo(r, run[q].out)
      BY <2>1 DEF CopiedTo, OverlapInv, CopiesAside
    <3>3. OpenedBy(r, run[q].out) => text'[run[q].out][Journal] \in {0, text[run[q].out][Journal]}
      BY <1>0, <2>0, <3>1, FewerFacts DEF OpenedBy, NoLines, Fewer
    <3>4. WrittenBy(r, run[q].out) => text'[run[q].out][Journal] # 1
      BY <1>0, <1>1, <3>1 DEF WrittenBy, Day
    <3>5. text'[run[q].out][Journal] # 1
      BY <2>0, <3>1, <3>2, <3>3, <3>4, TextStep
    <3> QED BY <2>0, <3>1, <3>5, MtimeStep
  <2>2. CASE ~Active(q)
    <3>1. q = r /\ OpenFiles(r)
      BY <1>2, <2>2, StepFrame, NameStep DEF Others, Active, NameMoves
    <3>2. /\ run'[q].out = name' /\ name' \in Inode /\ mtime'[name'] # 1
          /\ text'[name'] \in IF Open(name') THEN Subsets(text[name']) ELSE {NoLines}
      BY <3>1, OpenFacts, OpenedText, MtimeStep DEF OpenedBy
    <3>3. CASE Open(name')
      <4>1. text[name'][Journal] # 1
        BY <1>0, <3>3 DEF Open, Dates, Active
      <4>2. text'[name'][Journal] \in {0, text[name'][Journal]}
        BY <1>0, <3>2, <3>3, FewerFacts DEF Fewer
      <4> QED BY <3>2, <4>1, <4>2
    <3>4. CASE ~Open(name')
      BY <1>0, <3>2, <3>4 DEF NoLines
    <3> QED BY <3>3, <3>4
  <2> QED BY <2>1, <2>2
<1>3. ASSUME NEW i \in Inode, mtime'[i] = 1 PROVE text'[i][Journal] \in {0, 1}
  <2>1. mtime[i] = 1
    BY <1>3, MtimeStep
  <2>2. text[i][Journal] \in {0, 1}
    BY <1>0, <2>1 DEF Dates
  <2>3. ~CopiedTo(r, i)
    BY <1>0, <1>3 DEF CopiedTo
  <2>4. OpenedBy(r, i) => text'[i][Journal] \in {0, text[i][Journal]}
    BY <1>0, FewerFacts DEF OpenedBy, NoLines, Fewer
  <2>5. ~WrittenBy(r, i)
    BY <1>0, <1>1, <2>1 DEF WrittenBy, Dates
  <2> QED BY <2>2, <2>3, <2>4, <2>5, TextStep
<1>4. ASSUME NEW q \in Runs, run'[q].pc \in {"restore", "relink"} PROVE mtime'[run'[q].old] # 1
  <2>1. CASE run[q].pc \in {"restore", "relink"}
    <3>1. run'[q].old = run[q].old
      BY <2>1, StepFrame, NameStep, AsideFacts DEF Others, NameMoves
    <3> QED BY <1>0, <2>1, <3>1, MtimeStep, RunFacts DEF Dates
  <2>2. CASE run[q].pc \notin {"restore", "relink"}
    <3>1. q = r /\ LoadJournal(r)
      BY <1>4, <2>2, StepFrame, NameStep DEF Others, NameMoves
    <3>2. /\ run[r].pc = "load" /\ run'[r].pc = "restore" /\ run'[r].tree \in Visible(run[r].old)
          /\ run'[r].tree[Journal] = run[r].day /\ run'[r].old = run[r].old
      BY <1>4, <3>1, LoadFacts
    <3>3. run[r].old \in Inode /\ run[r].day >= 2 /\ run[r].day \in Day
      BY <3>2, RunFacts DEF OverlapInv, Phases
    <3>4. run'[r].tree[Journal] \in {0, text[run[r].old][Journal]}
      BY <1>0, <3>2, <3>3, FewerFacts DEF Fewer
    <3>5. text[run[r].old][Journal] \notin {0, 1}
      BY <3>2, <3>3, <3>4 DEF Day
    <3>6. mtime[run[r].old] # 1
      BY <1>0, <3>3, <3>5 DEF Dates
    <3> QED BY <3>1, <3>2, <3>3, <3>6, MtimeStep
  <2> QED BY <2>1, <2>2
<1>5. ASSUME name' # NoInode, mtime'[name'] = 1, NEW q \in Runs
      PROVE  run'[q].pc \in {"idle", "source", "move", "unlink"}
  <2>1. name' = name
    <3>1. ~OpenFiles(r)
      BY <1>5, OpenFacts, MtimeStep
    <3>2. run[r].pc = "relink" => name' # run[r].old
      BY <1>0, <1>5, MtimeStep, RunFacts DEF Dates
    <3> QED BY <1>5, <3>1, <3>2, NameStep DEF NameMoves
  <2>2. mtime[name] = 1 /\ name # NoInode
    BY <1>0, <1>5, <2>1, MtimeStep
  <2>3. \A p \in Runs : run[p].pc \in {"idle", "source", "move", "unlink"}
    BY <1>0, <2>2 DEF Dates
  <2>4. CASE q # r
    BY <2>3, <2>4, StepFrame DEF Others
  <2>5. run'[r].pc \in {"idle", "source", "move", "unlink"}
    <3>1. run[r].pc # "unlink"
      BY <1>5, NameStep DEF NameMoves
    <3> QED BY <2>2, <2>3, <3>1, NameStep DEF NameMoves
  <2> QED BY <2>4, <2>5
<1> QED BY <1>2, <1>3, <1>4, <1>5 DEF Dates, Active

\* A journal that was copied aside stays its run's, until the run is refused.
LEMMA CopiesNext ==
    ASSUME TypeOK, OverlapInv, NEW r \in Runs, RunStep(r)
    PROVE  CopiesAside'
<1>0. /\ CopiesAside /\ name \in Inode
      /\ \A p, q \in Runs : Copy(p) = Copy(q) => p = q
      /\ \A p, q \in Runs : Copy(p) # New(q) /\ Copy(p) # NoInode
  BY InodeFacts DEF OverlapInv, TypeOK, Copy, New
<1>1. \A q \in Runs : run[q].pc = "refused" => run'[q].pc = "refused"
  BY StepFrame DEF Others
<1>2. ASSUME NEW q \in Runs, name' = Copy(q) PROVE run'[q].pc = "refused"
  <2>1. CASE name' = name
    BY <1>0, <1>1, <1>2, <2>1 DEF CopiesAside
  <2>2. CASE run[r].pc = "relink" /\ run'[r].pc = "refused" /\ name' = run[r].old
    BY <1>0, <1>1, <1>2, <2>2 DEF CopiesAside
  <2> QED BY <1>0, <1>2, <2>1, <2>2, NameStep DEF NameMoves
<1>3. ASSUME NEW p \in Runs, NEW q \in Runs, run'[p].out = Copy(q) PROVE run'[q].pc = "refused"
  <2>1. CASE run'[p].out = run[p].out
    BY <1>0, <1>1, <1>3, <2>1 DEF CopiesAside
  <2>2. CASE run'[p].out # run[p].out
    <3>1. p = r /\ OpenFiles(r)
      BY <2>2, StepFrame, NameStep DEF Others, NameMoves
    <3>2. run'[r].out \in {name, New(r)}
      BY <3>1, OpenFacts
    <3>3. name = Copy(q)
      BY <1>0, <1>3, <3>1, <3>2
    <3> QED BY <1>0, <1>1, <3>3 DEF CopiesAside
  <2> QED BY <2>1, <2>2
<1>4. ASSUME NEW p \in Runs, NEW q \in Runs, p # q, run'[p].old = Copy(q) PROVE run'[q].pc = "refused"
  <2>1. CASE run'[p].old = run[p].old
    BY <1>0, <1>1, <1>4, <2>1 DEF CopiesAside
  <2>2. CASE run'[p].old # run[p].old
    <3>1. p = r /\ (LinkAside(r) \/ CopyAside(r))
      BY <2>2, StepFrame, NameStep DEF Others, NameMoves
    <3>2. run'[r].old \in {name, Copy(r)}
      BY <3>1, AsideFacts
    <3>3. name = Copy(q)
      BY <1>0, <1>4, <3>1, <3>2
    <3> QED BY <1>0, <1>1, <3>3 DEF CopiesAside
  <2> QED BY <2>1, <2>2
<1>5. ASSUME NEW q \in Runs, run'[q].old = Copy(q) PROVE run'[q].pc \notin {"idle", "source", "move"}
  <2>1. CASE q # r
    BY <1>0, <1>5, <2>1, StepFrame DEF Others, CopiesAside
  <2>2. CASE q = r /\ (LinkAside(r) \/ CopyAside(r))
    BY <2>2, AsideFacts
  <2>3. CASE q = r /\ run'[r].old = run[r].old
    BY <1>0, <1>5, <2>3, NameStep DEF NameMoves, CopiesAside
  <2> QED BY <2>1, <2>2, <2>3, NameStep DEF NameMoves
<1> QED BY <1>2, <1>3, <1>4, <1>5 DEF CopiesAside

\* No step puts a file both in the walk and in tar's list.
LEMMA BothStep ==
    ASSUME TypeOK, OverlapInv, NEW r \in Runs, RunStep(r), NEW f \in Files, f \in run[r].todo \cup run[r].list
    PROVE  ~(f \in run'[r].todo /\ f \in run'[r].list)
<1>0. ~(f \in run[r].todo /\ f \in run[r].list) /\ Parent[f] \in made[run[r].day] /\ f \in Nodes /\ f # Journal
  BY OverlapAssumption DEF OverlapInv, DumpedOnce, Nodes
<1>1. CASE OpenFiles(r)
  BY <1>1, OpenFacts DEF OverlapInv, Phases
<1>2. ASSUME NEW d \in Dirs, EnterDir(r, d) PROVE ~(f \in run'[r].todo /\ f \in run'[r].list)
  <2>1. /\ run'[r].todo = (run[r].todo \ {d}) \cup (IF d \notin made[run[r].day] THEN Entries(d) ELSE {})
        /\ run'[r].list = run[r].list
    BY <1>2, EnterFacts
  <2> QED BY <1>0, <2>1 DEF Entries
<1>3. ASSUME NEW g \in Files, Visit(r, g) PROVE ~(f \in run'[r].todo /\ f \in run'[r].list)
  <2>1. run'[r].todo = run[r].todo \ {g} /\ run'[r].list \subseteq run[r].list \cup {g}
    BY <1>3, VisitFacts
  <2> QED BY <1>0, <2>1
<1>4. ASSUME NEW g \in Files, TarCopy(r, g) PROVE ~(f \in run'[r].todo /\ f \in run'[r].list)
  <2>1. run'[r].list = run[r].list \ {g} /\ run'[r].todo = run[r].todo
    BY <1>4, TarFacts
  <2> QED BY <1>0, <2>1
<1>5. CASE \/ ChkDest(r) \/ StatJournal(r) \/ (LinkAside(r) \/ CopyAside(r)) \/ LoadJournal(r)
           \/ MovesOn(r) \/ VisitJournal(r) \/ TarJournal(r)
  <2>1. run'[r].todo \subseteq run[r].todo /\ run'[r].list \subseteq run[r].list \cup {Journal}
    BY <1>5, ChkDestFacts, StatFacts, AsideFacts, LoadFacts, MoveFacts, VisitJournalFacts, TarJournalFacts
       DEF SameWalk
  <2> QED BY <1>0, <2>1
<1> QED BY <1>1, <1>2, <1>3, <1>4, <1>5, StepCases

\* What was dumped on a day, a run of that day has dumped, and is done with it.
LEMMA DumpedNext ==
    ASSUME TypeOK, OverlapInv, NEW r \in Runs, RunStep(r)
    PROVE  DumpedOnce'
<1>0. /\ DumpedOnce /\ run[r].day \in Day /\ \A q \in Runs : run[q].day \in Day
      /\ \A f \in Files : f \in Nodes /\ f # Journal
      /\ \A q \in Runs : run[q].todo \subseteq Nodes \cup {Journal} /\ run[q].list \subseteq Paths
  BY RunFacts, OverlapAssumption DEF OverlapInv, Nodes
<1>1. \A q \in Runs : Active(q) => Active(q)' /\ run'[q].day = run[q].day
  BY StepFrame DEF Active, Others, SameDay
\* Whatever a run gets in hand was below a directory that it made just now.
<1>2. ASSUME NEW f \in Files, f \in run'[r].todo \cup run'[r].list, f \notin run[r].todo \cup run[r].list
      PROVE  /\ Parent[f] \in made'[run'[r].day] /\ ~(f \in run'[r].todo /\ f \in run'[r].list)
             /\ Active(r) => Parent[f] \notin made[run[r].day]
  <2>1. CASE OpenFiles(r)
    <3>1. run'[r].todo = Entries(Root) /\ run'[r].list = {} /\ run'[r].day = run[r].day
          /\ made' = made /\ Root \in made[run[r].day] /\ ~Active(r)
      BY <2>1, OpenFacts DEF OverlapInv, Phases, SameDay, Active
    <3>2. Parent[f] = Root
      BY <1>0, <1>2, <3>1 DEF Entries
    <3> QED BY <3>1, <3>2
  <2>2. ASSUME NEW d \in Dirs, EnterDir(r, d)
        PROVE  /\ Parent[f] \in made'[run'[r].day] /\ ~(f \in run'[r].todo /\ f \in run'[r].list)
               /\ Parent[f] \notin made[run[r].day]
    <3>1. /\ run'[r].todo = (run[r].todo \ {d}) \cup (IF d \notin made[run[r].day] THEN Entries(d) ELSE {})
          /\ run'[r].list = run[r].list /\ run'[r].day = run[r].day
          /\ made' = [made EXCEPT ![run[r].day] = @ \cup {d}]
      BY <2>2, EnterFacts DEF SameDay
    <3>2. Parent[f] = d /\ d \notin made[run[r].day]
      BY <1>0, <1>2, <3>1 DEF Entries
    <3>3. d \in made'[run[r].day]
      BY <1>0, <3>1 DEF TypeOK
    <3> QED BY <1>2, <3>1, <3>2, <3>3
  <2>3. CASE /\ ~OpenFiles(r)
             /\ \A d \in Dirs : ~EnterDir(r, d)
    <3>1. CASE \E g \in Files : Visit(r, g)
      <4>1. PICK g \in Files : Visit(r, g)
        BY <3>1
      <4>2. /\ run'[r].todo = run[r].todo \ {g} /\ g \in run[r].todo
            /\ run'[r].list \subseteq run[r].list \cup {g}
        BY <4>1, VisitFacts
      <4> QED BY <1>2, <4>2
    <3>2. CASE \E g \in Files : TarCopy(r, g)
      <4>1. PICK g \in Files : TarCopy(r, g)
        BY <3>2
      <4>2. run'[r].list = run[r].list \ {g} /\ run'[r].todo = run[r].todo
        BY <4>1, TarFacts
      <4> QED BY <1>2, <4>2
    <3>3. CASE ~(\E g \in Files : Visit(r, g)) /\ ~(\E g \in Files : TarCopy(r, g))
      <4>1. run'[r].todo \subseteq run[r].todo /\ run'[r].list \subseteq run[r].list \cup {Journal}
        BY <2>3, <3>3, ChkDestFacts, StatFacts, AsideFacts, LoadFacts, MoveFacts, VisitJournalFacts,
           TarJournalFacts, StepCases DEF SameWalk
      <4> QED BY <1>0, <1>2, <4>1
    <3> QED BY <3>1, <3>2, <3>3
  <2> QED BY <2>1, <2>2, <2>3
<1>3. ASSUME NEW d \in Day \ {1}, NEW f \in Files, dump'[d][f] # 0
      PROVE  /\ Parent[f] \in made'[d]
             /\ \E p \in Runs : Active(p)' /\ run'[p].day = d /\ f \notin run'[p].todo \cup run'[p].list
  <2>1. CASE dump'[d][f] = dump[d][f]
    <3>1. PICK p \in Runs : Active(p) /\ run[p].day = d /\ f \notin run[p].todo \cup run[p].list
      BY <1>0, <1>3, <2>1 DEF DumpedOnce
    <3>2. Parent[f] \in made[d] /\ made[d] \subseteq made'[d]
      BY <1>0, <1>3, <2>1, StepFrame DEF DumpedOnce
    <3>3. f \notin run'[p].todo \cup run'[p].list
      BY <1>2, <3>1, <3>2, StepFrame DEF Others
    <3> QED BY <1>1, <3>1, <3>2, <3>3
  <2>2. CASE dump'[d][f] # dump[d][f]
    <3>1. d = run[r].day /\ Active(r) /\ f \in run[r].todo \cup run[r].list /\ f \notin run'[r].todo \cup run'[r].list
      BY <2>2, DumpStep
    <3>2. Parent[f] \in made[d] /\ made[d] \subseteq made'[d]
      BY <1>0, <3>1, StepFrame DEF DumpedOnce
    <3> QED BY <1>1, <3>1, <3>2
  <2> QED BY <2>1, <2>2
<1>4. ASSUME NEW d \in Day \ {1}, ~(made'[d] \subseteq {Root})
      PROVE  \E p \in Runs : Active(p)' /\ run'[p].day = d
  <2>1. CASE made[d] \subseteq {Root}
    <3>1. PICK n \in made'[d] : n # Root
      BY <1>4
    <3>2. n \notin made[d]
      BY <2>1, <3>1
    <3> QED BY <1>1, <3>1, <3>2, StepFrame
  <2>2. CASE ~(made[d] \subseteq {Root})
    BY <1>0, <1>1, <2>2 DEF DumpedOnce
  <2> QED BY <2>1, <2>2
<1>5. ASSUME NEW q \in Runs, NEW f \in Files, f \in run'[q].todo \cup run'[q].list
      PROVE  Parent[f] \in made'[run'[q].day] /\ ~(f \in run'[q].todo /\ f \in run'[q].list)
  <2>1. CASE q # r
    <3>1. run'[q] = run[q] /\ made[run[q].day] \subseteq made'[run[q].day]
      BY <1>0, <2>1, StepFrame DEF Others
    <3> QED BY <1>0, <1>5, <3>1 DEF DumpedOnce
  <2>2. CASE q = r /\ f \in run[r].todo \cup run[r].list
    <3>1. run[r].pc # "idle"
      BY <2>2 DEF OverlapInv, Phases
    <3>2. run'[r].day = run[r].day /\ made[run[r].day] \subseteq made'[run[r].day]
      BY <1>0, <3>1, StepFrame DEF SameDay
    <3>3. Parent[f] \in made[run[r].day] /\ ~(f \in run[r].todo /\ f \in run[r].list)
      BY <1>0, <2>2 DEF DumpedOnce
    <3>4. ~(f \in run'[r].todo /\ f \in run'[r].list)
      BY <2>2, <3>3, BothStep
    <3> QED BY <2>2, <3>2, <3>3, <3>4
  <2>3. CASE q = r /\ f \notin run[r].todo \cup run[r].list
    BY <1>2, <1>5, <2>3
  <2> QED BY <2>1, <2>2, <2>3
<1> QED BY <1>3, <1>4, <1>5 DEF DumpedOnce, Active

\* Once a journal is open, only EnterDir makes directories, and only tar empties its list.
LEMMA MadeStep ==
    ASSUME TypeOK, OverlapInv, NEW r \in Runs, RunStep(r), Active(r)
    PROVE  /\ made' # made => \E d \in Dirs : EnterDir(r, d)
           /\ \A f \in Files : f \in run[r].list /\ f \notin run'[r].list => f \notin run'[r].todo
<1>0. /\ ~ChkDest(r) /\ ~OpenFiles(r)
      /\ \A f \in Files : f \in run[r].list => f \notin run[r].todo
  BY ChkDestFacts, OpenFacts DEF Active, OverlapInv, DumpedOnce
<1>1. CASE \/ StatJournal(r) \/ (LinkAside(r) \/ CopyAside(r)) \/ LoadJournal(r)
           \/ MovesOn(r) \/ VisitJournal(r) \/ TarJournal(r)
  BY <1>0, <1>1, StatFacts, AsideFacts, LoadFacts, MoveFacts, VisitJournalFacts, TarJournalFacts, BoundFacts
     DEF SameWalk
<1>2. ASSUME NEW d \in Dirs, EnterDir(r, d) PROVE run'[r].list = run[r].list
  BY <1>2, EnterFacts
<1>3. ASSUME NEW g \in Files, Visit(r, g) PROVE made' = made /\ run[r].list \subseteq run'[r].list
  BY <1>3, VisitFacts
<1>4. ASSUME NEW g \in Files, TarCopy(r, g) PROVE made' = made /\ run'[r].todo = run[r].todo
  BY <1>4, TarFacts
<1>5. CASE \E d \in Dirs : EnterDir(r, d)
  BY <1>2, <1>5
<1> QED BY <1>0, <1>1, <1>3, <1>4, <1>5, StepCases

\* What a run of the day found below a directory it made, it has in hand or has dumped.
LEMMA HandNext ==
    ASSUME TypeOK, OverlapInv, NEW r \in Runs, RunStep(r)
    PROVE  InHand'
<1> SUFFICES ASSUME NEW d \in Day, NEW a \in Runs, Active(a)', run'[a].day = d,
                    NEW n \in Nodes, Parent[n] \in made'[d], n \notin Dirs \/ n \notin made'[d]
             PROVE  \E q \in Runs : /\ Active(q)' /\ run'[q].day = d
                                    /\ \/ n \in run'[q].todo \cup run'[q].list
                                       \/ n \in Files /\ dump'[d][n] >= run'[q].began[n]
  BY DEF InHand, Active
<1>0. /\ InHand /\ run[r].day \in Day /\ n # Journal /\ (n \notin made[d] \/ n \notin Dirs)
      /\ \A q \in Runs : run[q].day \in Day
  BY RunFacts, OverlapAssumption, StepFrame DEF OverlapInv
<1>1. \A q \in Runs : Active(q) => Active(q)' /\ run'[q].day = run[q].day /\ run'[q].began = run[q].began
  BY StepFrame DEF Active, Others, SameDay
<1>2. ASSUME NEW q \in Runs, Active(q), run[q].day = d, n \in Files, dump[d][n] >= run[q].began[n]
      PROVE  Active(q)' /\ run'[q].day = d /\ dump'[d][n] >= run'[q].began[n]
  <2>1. ver[n] \in Nat /\ dump[d][n] \in Nat /\ ver[n] >= run[q].began[n]
    BY <1>2 DEF TypeOK, Process, OverlapInv, VersionsPast
  <2> QED BY <1>1, <1>2, <2>1, DumpStep
<1>3. CASE (\E p \in Runs : Active(p) /\ run[p].day = d) /\ Parent[n] \in made[d]
  <2>1. PICK q \in Runs : /\ Active(q) /\ run[q].day = d
                          /\ \/ n \in run[q].todo \cup run[q].list
                             \/ n \in Files /\ dump[d][n] >= run[q].began[n]
    BY <1>0, <1>3 DEF InHand
  <2>2. CASE n \in Files /\ dump[d][n] >= run[q].began[n]
    BY <1>2, <2>1, <2>2
  <2>3. CASE n \in run'[q].todo \cup run'[q].list
    BY <1>1, <2>1, <2>3
  <2>4. CASE n \in run[q].todo \cup run[q].list /\ n \notin run'[q].todo \cup run'[q].list
    <3>1. q = r
      BY <2>4, StepFrame DEF Others
    <3>2. n \in Files /\ dump'[d][n] = ver[n]
      BY <2>1, <2>4, <3>1, HandStep
    <3>3. run[r].began[n] <= ver[n] /\ ver[n] \in Nat /\ run[r].began[n] \in Nat
      BY <3>2 DEF OverlapInv, VersionsPast, TypeOK, Process
    <3> QED BY <1>1, <2>1, <3>1, <3>2, <3>3
  <2> QED BY <2>1, <2>2, <2>3, <2>4
<1>4. CASE (\E p \in Runs : Active(p) /\ run[p].day = d) /\ Parent[n] \notin made[d]
  <2>1. PICK p \in Runs : Active(p) /\ run[p].day = d
    BY <1>4
  <2>2. Root \in made[d]
    BY <2>1 DEF OverlapInv, Phases, Active
  <2>3. Parent[n] \in Dirs /\ Active(r) /\ d = run[r].day
    BY <1>4, <2>2, StepFrame
  <2>4. n \in run'[r].todo
    <3>1. PICK e \in Dirs : EnterDir(r, e)
      BY <1>4, <2>3, MadeStep
    <3>2. /\ run'[r].todo = (run[r].todo \ {e}) \cup (IF e \notin made[run[r].day] THEN Entries(e) ELSE {})
          /\ made' = [made EXCEPT ![run[r].day] = @ \cup {e}]
      BY <3>1, EnterFacts
    <3>3. Parent[n] = e
      BY <1>0, <1>4, <2>3, <3>2 DEF TypeOK
    <3> QED BY <1>4, <2>3, <3>2, <3>3 DEF Entries
  <2> QED BY <1>1, <2>3, <2>4
<1>5. CASE ~(\E p \in Runs : Active(p) /\ run[p].day = d)
  <2>1. a = r /\ OpenFiles(r)
    BY <1>1, <1>5, StepFrame, NameStep DEF Others, NameMoves, Active
  <2>2. /\ made' = made /\ run'[r].todo = Entries(Root) /\ run[r].day = d /\ d >= 2
    BY <2>1, OpenFacts DEF SameDay, OverlapInv, Phases
  <2>3. made[d] \subseteq {Root}
    BY <1>5, <2>2 DEF OverlapInv, DumpedOnce
  <2>4. n \in run'[r].todo
    BY <2>2, <2>3 DEF Entries
  <2> QED BY <2>1, <2>4
<1> QED BY <1>3, <1>4, <1>5

----------------------------------------------------------------------------
\* What the journals vouch for.

\* Every version is at least 1: an empty journal vouches for nothing, and fewer lines for no more.
LEMMA FewerKept ==
    ASSUME TypeOK, NEW j \in Lines, NEW k \in Lines, Fewer(k, j), NEW d \in Day
    PROVE  (Kept(j, d) => Kept(k, d)) /\ Kept(NoLines, d)
<1>1. \A f \in Files : ver[f] # 0 /\ f \in Paths
  BY BoundFacts DEF TypeOK
<1>2. \A f \in Files : k[f] = ver[f] => j[f] = ver[f]
  BY <1>1 DEF Fewer
<1> QED BY <1>1, <1>2 DEF Kept, NoLines

\* A step of a run leaves a dump no staler.
LEMMA KeptStays ==
    ASSUME TypeOK, OverlapInv, NEW r \in Runs, RunStep(r), NEW d \in Day, NEW f \in Files
    PROVE  /\ dump[d][f] \in {0, ver[f]} => dump'[d][f] \in {0, ver[f]}
           /\ dump[d][f] \in {0, ver[f]} \/ (\E q \in Runs : run[q].day = d /\ f \in run[q].list) =>
                  dump'[d][f] \in {0, ver[f]} \/ \E q \in Runs : run'[q].day = d /\ f \in run'[q].list
<1>1. dump[d][f] \in {0, ver[f]} => dump'[d][f] \in {0, ver[f]}
  BY DumpStep
<1>2. ASSUME NEW q \in Runs, run[q].day = d, f \in run[q].list
      PROVE  dump'[d][f] \in {0, ver[f]} \/ \E p \in Runs : run'[p].day = d /\ f \in run'[p].list
  <2>1. run'[q].day = d
    BY <1>2, StepFrame DEF Others, SameDay, OverlapInv, Phases
  <2>2. CASE f \in run'[q].list
    BY <2>1, <2>2
  <2>3. CASE f \notin run'[q].list
    <3>1. q = r
      BY <1>2, <2>3, StepFrame DEF Others
    <3>2. f \notin run'[r].todo
      BY <1>2, <2>3, <3>1, MadeStep DEF OverlapInv, Phases, Active
    <3>3. f \in Nodes /\ f \notin Dirs
      BY OverlapAssumption DEF Nodes
    <3> QED BY <1>2, <2>3, <3>1, <3>2, <3>3, HandStep
  <2> QED BY <2>2, <2>3
<1> QED BY <1>1, <1>2

\* A run that has no journal open reads from one, or copies, lines that the dump of their
\* day keeps.  When a run of another day wrote to it meanwhile, the lines are of a day whose
\* dump a third run would have had to make.
LEMMA ReadKept ==
    ASSUME TypeOK, OverlapInv, AtMostTwo, NEW r \in Runs, ~Active(r), NEW i \in Inode,
           \A q \in Runs : i = Copy(q) => ~Active(q),
           NEW j \in Visible(i), j[Journal] # 0
    PROVE  /\ j \in Lines /\ j[Journal] \in Day
           /\ \A f \in Files : j[f] = ver[f] =>
                  \/ dump[j[Journal]][f] \in {0, ver[f]}
                  \/ \E q \in Runs : run[q].day = j[Journal] /\ f \in run[q].list
<1>0. /\ j \in Lines /\ text[i] \in Lines /\ Fewer(j, text[i]) /\ Journal \in Paths
      /\ j[Journal] \in Day /\ j[Journal] = text[i][Journal] /\ i # NoInode
  <2>1. j \in Lines /\ text[i] \in Lines /\ Fewer(j, text[i]) /\ Journal \in Paths
    BY VisibleFacts, FewerFacts, BoundFacts DEF TypeOK
  <2>2. j[Journal] \in Day /\ j[Journal] = text[i][Journal]
    BY <2>1, BoundFacts DEF Fewer, Lines
  <2>3. text[NoInode][Journal] = 0
    BY <2>1 DEF OverlapInv, Phases, NoLines
  <2> QED BY <2>1, <2>2, <2>3
<1>1. CASE WritersOf(i) = {}
  <2>1. Kept(text[i], j[Journal])
    BY <1>0, <1>1 DEF OverlapInv, UnwrittenKept
  <2>2. Kept(j, j[Journal])
    BY <1>0, <2>1, FewerKept
  <2> QED BY <1>0, <2>2 DEF Kept
<1>2. CASE WritersOf(i) # {}
  <2>1. PICK q \in Runs : run[q].out = i
    BY <1>2 DEF WritersOf
  <2>2. Active(q) /\ q # r
    BY <1>0, <2>1 DEF OverlapInv, Phases
  <2>3. \A p \in Runs : p = q \/ p = r
    BY <2>2 DEF AtMostTwo
  <2>4. \A p \in WritersOf(i) : p = q
    BY <1>0, <2>3 DEF WritersOf, OverlapInv, Phases
  <2>5. run[q].day \in Day
    BY RunFacts
  <2>6. Kept(text[i], run[q].day)
    BY <1>0, <1>2, <2>4, <2>5 DEF OverlapInv, WrittenKept
  <2>7. CASE run[q].day = j[Journal]
    <3>1. Kept(j, j[Journal])
      BY <1>0, <2>6, <2>7, FewerKept
    <3> QED BY <1>0, <3>1 DEF Kept
  <2>8. CASE run[q].day # j[Journal]
    <3>1. j[Journal] # 1
      BY <1>0, <2>1, <2>2 DEF OverlapInv, Dates
    <3>2. ~\E p \in Runs : Active(p) /\ run[p].day = j[Journal]
      BY <2>3, <2>8
    <3>3. \A f \in Files : dump[j[Journal]][f] = 0
      BY <1>0, <3>1, <3>2 DEF OverlapInv, DumpedOnce
    <3> QED BY <1>0, <3>3
  <2> QED BY <2>7, <2>8
<1> QED BY <1>0, <1>1, <1>2

\* A journal nobody writes.
LEMMA UnwrittenNext ==
    ASSUME TypeOK, OverlapInv, AtMostTwo, NEW r \in Runs, RunStep(r)
    PROVE  UnwrittenKept'
<1> SUFFICES ASSUME NEW i \in Inode, WritersOf(i)' = {}, \A q \in Runs : i = Copy(q) => ~Active(q)',
                    text'[i][Journal] # 0, NEW f \in Files, text'[i][f] = ver[f]
             PROVE  \/ dump'[text'[i][Journal]][f] \in {0, ver[f]}
                    \/ \E q \in Runs : run'[q].day = text'[i][Journal] /\ f \in run'[q].list
  BY StepFrame DEF UnwrittenKept, Kept, Active
<1>0. \A q \in Runs : run'[q].out # i
  BY DEF WritersOf
<1>1. i # NoInode
  BY PhasesNext, BoundFacts DEF Phases, NoLines
<1>2. WritersOf(i) = {}
  <2>1. ASSUME NEW q \in Runs, run[q].out = i PROVE FALSE
    <3>1. Active(q)
      BY <1>1, <2>1 DEF OverlapInv, Phases
    <3> QED BY <1>0, <2>1, <3>1, StepFrame DEF Others
  <2> QED BY <2>1 DEF WritersOf
<1>3. \A q \in Runs : i = Copy(q) => ~Active(q)
  BY StepFrame DEF Others, Active
<1>4. CASE text'[i] = text[i]
  <2>1. text[i][Journal] \in Day
    BY <1>4, BoundFacts DEF TypeOK, Lines
  <2>2. Kept(text[i], text[i][Journal])
    BY <1>2, <1>3, <1>4 DEF OverlapInv, UnwrittenKept
  <2> QED BY <1>4, <2>1, <2>2, KeptStays DEF Kept
<1>5. CASE CopiedTo(r, i)
  <2>1. name \in Inode /\ ~Active(r) /\ text'[i] \in Visible(name) /\ \A q \in Runs : name = Copy(q) => ~Active(q)
    BY <1>5 DEF CopiedTo, TypeOK, Active, OverlapInv, CopiesAside
  <2>2. /\ text'[i][Journal] \in Day
        /\ \/ dump[text'[i][Journal]][f] \in {0, ver[f]}
           \/ \E q \in Runs : run[q].day = text'[i][Journal] /\ f \in run[q].list
    BY <2>1, ReadKept
  <2> QED BY <2>2, KeptStays
<1>6. ~OpenedBy(r, i) /\ ~WrittenBy(r, i)
  BY <1>0, <1>2 DEF OpenedBy, WrittenBy, WritersOf
<1> QED BY <1>4, <1>5, <1>6, TextStep

\* A journal that only runs of one day write.
LEMMA WrittenNext ==
    ASSUME TypeOK, OverlapInv, NEW r \in Runs, RunStep(r)
    PROVE  WrittenKept'
<1> SUFFICES ASSUME NEW i \in Inode \ {NoInode}, NEW d \in Day, NEW w \in Runs, run'[w].out = i,
                    \A q \in Runs : run'[q].out = i => run'[q].day = d,
                    NEW f \in Files, text'[i][f] = ver[f]
             PROVE  \/ dump'[d][f] \in {0, ver[f]}
                    \/ \E q \in Runs : run'[q].day = d /\ f \in run'[q].list
  BY StepFrame DEF WrittenKept, Kept, WritersOf
<1>0. ver[f] # 0 /\ f \in Paths
  BY BoundFacts DEF TypeOK
<1>1. \A q \in Runs : run[q].out = i => run'[q].out = i /\ run[q].day = d
  <2>1. ASSUME NEW q \in Runs, run[q].out = i PROVE run'[q].out = i /\ run[q].day = d
    <3>1. Active(q)
      BY <2>1 DEF OverlapInv, Phases
    <3>2. run'[q].out = i /\ run'[q].day = run[q].day
      BY <2>1, <3>1, StepFrame DEF Others, SameDay, Active
    <3> QED BY <3>2
  <2> QED BY <2>1
<1>2. ASSUME NEW q \in Runs, run[q].out = i, text[i][f] = ver[f]
      PROVE  \/ dump'[d][f] \in {0, ver[f]}
             \/ \E p \in Runs : run'[p].day = d /\ f \in run'[p].list
  <2>1. Kept(text[i], d)
    BY <1>1, <1>2 DEF OverlapInv, WrittenKept, WritersOf
  <2> QED BY <1>2, <2>1, KeptStays DEF Kept
<1>3. CASE OpenedBy(r, i)
  <2>1. CASE Open(i)
    <3>1. text'[i][f] \in {0, text[i][f]}
      BY <1>0, <1>3, <2>1, FewerFacts DEF OpenedBy, Fewer, TypeOK
    <3> QED BY <1>0, <1>2, <2>1, <3>1 DEF Open
  <2>2. CASE ~Open(i)
    BY <1>0, <1>3, <2>2 DEF OpenedBy, NoLines
  <2> QED BY <2>1, <2>2
<1>4. CASE CopiedTo(r, i)
  <2>1. run[r].pc = "move" /\ i = Copy(r)
    BY <1>4 DEF CopiedTo
  <2>2. run[w].out # i
    BY <2>1 DEF OverlapInv, CopiesAside
  <2>3. OpenFiles(r)
    BY <2>2, StepFrame, NameStep DEF Others, NameMoves
  <2> QED BY <2>1, <2>3, OpenFacts
<1>5. CASE WrittenBy(r, i)
  <2>1. run[r].out = i /\ run[r].day = d /\ run'[r].day = d
    BY <1>1, <1>5 DEF WrittenBy
  <2>2. CASE text'[i][f] = text[i][f]
    BY <1>2, <2>1, <2>2
  <2>3. CASE f \in run'[r].list \/ dump'[d][f] = ver[f]
    BY <2>1, <2>3
  <2> QED BY <1>0, <1>5, <2>1, <2>2, <2>3 DEF WrittenBy
<1>6. CASE text'[i] = text[i]
  <2>1. CASE \E q \in Runs : run[q].out = i
    BY <1>2, <1>6, <2>1
  <2>2. CASE \A q \in Runs : run[q].out # i
    <3>1. w = r /\ OpenFiles(r)
      BY <2>2, StepFrame, NameStep DEF Others, NameMoves
    <3>2. OpenedBy(r, i)
      BY <3>1, OpenedText, OpenFacts
    <3> QED BY <1>3, <3>2
  <2> QED BY <2>1, <2>2
<1> QED BY <1>3, <1>4, <1>5, <1>6, TextStep

\* What a run read is of a day whose dump keeps it.
LEMMA TreesNext ==
    ASSUME TypeOK, OverlapInv, AtMostTwo, NEW r \in Runs, RunStep(r)
    PROVE  TreesKept'
<1> SUFFICES ASSUME NEW q \in Runs, run'[q].pc \in {"open", "walk"}, run'[q].type = "recurrent",
                    NEW f \in Files, run'[q].tree[f] = ver[f]
             PROVE  dump'[run'[q].tree[Journal]][f] \in {0, ver[f]}
  BY StepFrame DEF TreesKept, LastDay
<1>1. CASE run[q].pc \in {"open", "walk"} /\ run'[q].type = run[q].type /\ run'[q].tree = run[q].tree
  <2>1. dump[run[q].tree[Journal]][f] \in {0, ver[f]} /\ run[q].tree[Journal] \in Day
    BY <1>1, RunFacts DEF OverlapInv, TreesKept, LastDay
  <2> QED BY <1>1, <2>1, KeptStays
<1>2. CASE q = r /\ LoadJournal(r)
  <2> DEFINE j == run'[r].tree
             i == run[r].old
  <2>1. /\ run[r].pc = "load" /\ j \in Visible(i) /\ i \in Inode /\ dump' = dump
        /\ j[Journal] # 0 /\ ~Active(r)
    BY <1>2, LoadFacts, RunFacts DEF Active
  <2>2. \A p \in Runs : i = Copy(p) => ~Active(p)
    BY <2>1 DEF OverlapInv, CopiesAside, Active
  <2>3. /\ j[Journal] \in Day
        /\ \/ dump[j[Journal]][f] \in {0, ver[f]}
           \/ \E p \in Runs : run[p].day = j[Journal] /\ f \in run[p].list
    BY <1>2, <2>1, <2>2, ReadKept
  <2>4. ASSUME NEW p \in Runs, run[p].day = j[Journal], f \in run[p].list, dump[j[Journal]][f] # 0 PROVE FALSE
    <3>1. Active(p) /\ p # r /\ j[Journal] # 1
      BY <2>1, <2>4 DEF OverlapInv, Phases, Active
    <3>2. PICK a \in Runs : Active(a) /\ f \notin run[a].list
      BY <2>3, <2>4, <3>1 DEF OverlapInv, DumpedOnce
    <3> QED BY <2>1, <2>4, <3>1, <3>2 DEF AtMostTwo
  <2> QED BY <1>2, <2>1, <2>3, <2>4
<1> QED BY <1>1, <1>2, StepFrame, NameStep DEF Others, NameMoves, SameTree

\* When the runs begin there is the journal of the run before and its dump, or nothing.
LEMMA OverlapInit == Init => OverlapInv
<1> SUFFICES ASSUME Init PROVE OverlapInv
  OBVIOUS
<1>0. /\ NoInode \in Inode /\ New(Before) # NoInode /\ Journal \in Paths /\ Files \subseteq Paths
      /\ \A r \in Runs : Copy(r) # NoInode /\ Copy(r) # New(Before)
      /\ \A r \in Runs : run[r] = Idle
      /\ \A i \in Inode : text[i] = NoLines \/ (i = New(Before) /\ text[i] = [p \in Paths |-> 1])
      /\ text[NoInode] = NoLines /\ mtime = [i \in Inode |-> 1] /\ ver = [f \in Files |-> 1]
      /\ \A d \in Day : \A f \in Files : dump[d][f] = 0 \/ (d = 1 /\ dump[d][f] = 1)
      /\ \A d \in Day \ {1} : made[d] = {}
      /\ name \in {New(Before), NoInode} /\ now = 2
  <2>1. NoInode \in Inode /\ New(Before) # NoInode /\ Journal \in Paths /\ Files \subseteq Paths
    BY InodeFacts, BoundFacts
  <2>2. \A r \in Runs : Copy(r) # NoInode /\ Copy(r) # New(Before)
    BY InodeFacts DEF Copy, New
  <2>3. /\ \A r \in Runs : run[r] = Idle
        /\ mtime = [i \in Inode |-> 1] /\ ver = [f \in Files |-> 1]
        /\ name \in {New(Before), NoInode} /\ now = 2
    BY DEF Init
  <2>4. /\ \A i \in Inode : text[i] = NoLines \/ (i = New(Before) /\ text[i] = [p \in Paths |-> 1])
        /\ text[NoInode] = NoLines
    BY <2>1 DEF Init
  <2>5. /\ \A d \in Day : \A f \in Files : dump[d][f] = 0 \/ (d = 1 /\ dump[d][f] = 1)
        /\ \A d \in Day \ {1} : made[d] = {}
    BY DEF Init
  <2> QED BY <2>1, <2>2, <2>3, <2>4, <2>5
<1>1. \A r \in Runs : /\ run[r].pc = "idle" /\ run[r].out = NoInode /\ run[r].old = NoInode /\ run[r].todo = {}
                      /\ run[r].list = {} /\ run[r].tree = NoLines /\ ~Active(r)
                      /\ \A f \in Files : run[r].began[f] = 0
  BY <1>0 DEF Idle, Active, NoLines
<1>2. \A p \in Paths : NoLines[p] = 0
  BY DEF NoLines
<1>3. Phases
  BY <1>0, <1>1 DEF Phases
<1>4. VersionsPast
  BY <1>0, <1>1, <1>2 DEF VersionsPast
<1>5. DumpedOnce
  BY <1>0, <1>1 DEF DumpedOnce
<1>6. Dates
  BY <1>0, <1>1, <1>2 DEF Dates
<1>7. CopiesAside
  BY <1>0, <1>1 DEF CopiesAside
<1>8. UnwrittenKept
  <2>1. ASSUME NEW i \in Inode, text[i][Journal] # 0 PROVE Kept(text[i], text[i][Journal])
    <3>1. text[i] = [p \in Paths |-> 1]
      BY <1>0, <1>2, <2>1
    <3> QED BY <1>0, <3>1, BoundFacts DEF Kept
  <2> QED BY <2>1 DEF UnwrittenKept
<1>9. WrittenKept
  BY <1>1 DEF WrittenKept, WritersOf
<1>10. TreesKept
  BY <1>1 DEF TreesKept
<1>11. InHand
  BY <1>1 DEF InHand
<1> QED BY <1>3, <1>4, <1>5, <1>6, <1>7, <1>8, <1>9, <1>10, <1>11 DEF OverlapInv

\* The clock disturbs none of it.
LEMMA TickKeeps == TypeOK /\ OverlapInv /\ (Tick \/ UNCHANGED vars) => OverlapInv'
<1> SUFFICES ASSUME TypeOK, OverlapInv, Tick \/ UNCHANGED vars PROVE OverlapInv'
  OBVIOUS
<1>0. /\ UNCHANGED <<ver, name, text, mtime, dump, made, run>> /\ now' >= 2
  BY DEF Tick, vars, TypeOK, Day, OverlapInv, Phases
<1>1. Phases' BY <1>0 DEF OverlapInv, Phases, Active
<1>2. VersionsPast' BY <1>0 DEF OverlapInv, VersionsPast
<1>3. DumpedOnce' BY <1>0 DEF OverlapInv, DumpedOnce, Active
<1>4. Dates' BY <1>0 DEF OverlapInv, Dates, Active
<1>5. CopiesAside' BY <1>0 DEF OverlapInv, CopiesAside
<1>6. UnwrittenKept' BY <1>0 DEF OverlapInv, UnwrittenKept, WritersOf, Kept, Active
<1>7. WrittenKept' BY <1>0 DEF OverlapInv, WrittenKept, WritersOf, Kept
<1>8. TreesKept' BY <1>0 DEF OverlapInv, TreesKept, LastDay
<1>9. InHand' BY <1>0 DEF OverlapInv, InHand, Active
<1> QED BY <1>1, <1>2, <1>3, <1>4, <1>5, <1>6, <1>7, <1>8, <1>9 DEF OverlapInv

\* Nor does an edit: no journal and no dump has the new version.
LEMMA EditKeeps ==
    ASSUME TypeOK, OverlapInv, NEW e \in Files, Edit(e)
    PROVE  OverlapInv'
<1>0. UNCHANGED <<now, name, text, mtime, dump, made, run>>
  BY DEF Edit
<1>1. /\ \A f \in Files : ver[f] \in Nat /\ ver'[f] \in Nat /\ ver[f] <= ver'[f]
      /\ \A f \in Files : ver'[f] # ver[f] => ver'[f] = ver[f] + 1
  BY DEF Edit, TypeOK
<1>2. /\ \A i \in Inode : \A f \in Files : text[i][f] \in Nat /\ text[i][f] <= ver[f]
      /\ \A r \in Runs : \A f \in Files : run[r].tree[f] \in Nat /\ run[r].tree[f] <= ver[f]
      /\ \A d \in Day : \A f \in Files : dump[d][f] \in Nat
      /\ \A r \in Runs : \A f \in Files : run[r].began[f] \in Nat
  BY BoundFacts DEF OverlapInv, VersionsPast, TypeOK, Lines, Process
<1>3. /\ \A i \in Inode : \A f \in Files : text[i][f] = ver'[f] => ver'[f] = ver[f]
      /\ \A r \in Runs : \A f \in Files : run[r].tree[f] = ver'[f] => ver'[f] = ver[f]
  BY <1>1, <1>2
<1>4. Phases' BY <1>0 DEF OverlapInv, Phases, Active
<1>5. VersionsPast' BY <1>0, <1>1, <1>2 DEF OverlapInv, VersionsPast
<1>6. DumpedOnce' BY <1>0 DEF OverlapInv, DumpedOnce, Active
<1>7. Dates' BY <1>0 DEF OverlapInv, Dates, Active
<1>8. CopiesAside' BY <1>0 DEF OverlapInv, CopiesAside
<1>9. \A i \in Inode : \A d : Kept(text[i], d) => Kept(text[i], d)'
  BY <1>0, <1>3 DEF Kept
<1>10. UnwrittenKept' BY <1>0, <1>9 DEF OverlapInv, UnwrittenKept, WritersOf, Active
<1>11. WrittenKept' BY <1>0, <1>9 DEF OverlapInv, WrittenKept, WritersOf
<1>12. TreesKept' BY <1>0, <1>3 DEF OverlapInv, TreesKept, LastDay
<1>13. InHand' BY <1>0 DEF OverlapInv, InHand, Active
<1> QED BY <1>4, <1>5, <1>6, <1>7, <1>8, <1>10, <1>11, <1>12, <1>13 DEF OverlapInv

\* The invariant, for at most two runs and any tree and bounds: what journal there is, and what
\* a run read, is of a day whose dump keeps it.
THEOREM OverlapInvariant ==
    ASSUME AtMostTwo
    PROVE  Spec => []OverlapInv
<1>1. TypeOK /\ OverlapInv /\ [Next]_vars => OverlapInv'
  <2> SUFFICES ASSUME TypeOK, OverlapInv, [Next]_vars PROVE OverlapInv'
    OBVIOUS
  <2>1. CASE Tick \/ UNCHANGED vars BY <2>1, TickKeeps
  <2>2. ASSUME NEW f \in Files, Edit(f) PROVE OverlapInv' BY <2>2, EditKeeps
  <2>3. ASSUME NEW r \in Runs, RunStep(r) PROVE OverlapInv'
    BY <2>3, AtMostTwo, PhasesNext, VersionsNext, DumpedNext, DatesNext, CopiesNext, UnwrittenNext, WrittenNext,
       TreesNext, HandNext DEF OverlapInv
  <2> QED BY <2>1, <2>2, <2>3 DEF Next
<1> QED BY <1>1, OverlapInit, OverlapTyping, PTL DEF Spec

\* However two runs of backupfs for one source are interleaved with each other, with edits
\* and with midnight, the journal they leave vouches for no stale copy in the dump of its day.
THEOREM OverlapJournalIsSound ==
    ASSUME AtMostTwo
    PROVE  Spec => []JournalSound
<1>1. TypeOK /\ OverlapInv => JournalSound
  <2> SUFFICES ASSUME TypeOK, OverlapInv, Over, text[name][Journal] # 0,
                      \A q \in Writers : run[q].day = text[name][Journal],
                      NEW f \in Files, text[name][f] = ver[f]
               PROVE  dump[text[name][Journal]][f] \in {0, ver[f]}
    BY DEF JournalSound
  <2>1. name \in Inode /\ text[name][Journal] \in Day /\ Journal \in Paths
    BY BoundFacts DEF TypeOK, Lines
  <2>2. name # NoInode
    BY <2>1 DEF OverlapInv, Phases, NoLines
  <2>3. \A q \in Runs : run[q].list = {}
    BY DEF Over, OverlapInv, Phases
  <2>4. Kept(text[name], text[name][Journal])
    <3>1. CASE Writers = {}
      <4>1. \A q \in Runs : name = Copy(q) => ~Active(q)
        BY DEF OverlapInv, CopiesAside, Active
      <4> QED BY <2>1, <3>1, <4>1 DEF OverlapInv, UnwrittenKept, Writers, WritersOf
    <3>2. CASE Writers # {}
      BY <2>1, <2>2, <3>2 DEF OverlapInv, WrittenKept, Writers, WritersOf
    <3> QED BY <3>1, <3>2
  <2> QED BY <2>3, <2>4 DEF Kept
<1> QED BY <1>1, OverlapTyping, OverlapInvariant, PTL

\* And when they are over, the dump of one that was not refused has every file below the source,
\* whichever of the two had its directory to walk, and whatever tar said of the journal.
THEOREM OverlapRunsAreComplete ==
    ASSUME AtMostTwo
    PROVE  Spec => []RunsComplete
<1>1. TypeOK /\ OverlapInv => RunsComplete
  <2> SUFFICES ASSUME TypeOK, OverlapInv, Over, NEW r \in Runs, run[r].pc \in {"ok", "fail"}, NEW f \in Files
               PROVE  \E q \in Runs : /\ run[q].day = run[r].day
                                      /\ dump[run[r].day][f] >= run[q].began[f] /\ run[q].began[f] # 0
    BY DEF RunsComplete, Dumped
  <2> DEFINE d == run[r].day
  <2>1. Active(r) /\ d \in Day /\ Root \in made[d] /\ made[d] \in SUBSET (Dirs \cup {Root})
    BY RunFacts DEF TypeOK, Active, OverlapInv, Phases
  <2>2. \A q \in Runs : run[q].list = {} /\ run[q].todo = {}
    BY DEF Over, OverlapInv, Phases
  <2>3. ASSUME NEW n \in Nodes, Parent[n] \in made[d]
        PROVE  \/ n \in Dirs /\ n \in made[d]
               \/ n \in Files /\ \E q \in Runs : Active(q) /\ run[q].day = d /\ dump[d][n] >= run[q].began[n]
    BY <2>1, <2>2, <2>3 DEF OverlapInv, InHand
  <2>4. \A e \in Dirs : Parent[e] \in made[d] => e \in made[d]
    BY <2>3, OverlapAssumption DEF Nodes
  <2>5. made[d] = Dirs \cup {Root}
    BY <2>1, <2>4, ReachAssumption
  <2>6. f \in Nodes /\ f \notin Dirs /\ Parent[f] \in made[d]
    BY <2>5, OverlapAssumption DEF Nodes
  <2>7. PICK q \in Runs : Active(q) /\ run[q].day = d /\ dump[d][f] >= run[q].began[f]
    BY <2>3, <2>6
  <2>8. run[q].began[f] # 0
    BY <2>7 DEF Active, OverlapInv, Phases
  <2> QED BY <2>7, <2>8
<1> QED BY <1>1, OverlapTyping, OverlapInvariant, PTL
=============================================================================
