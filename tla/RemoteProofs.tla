---------------------------- MODULE RemoteProofs ----------------------------
(***************************************************************************)
(* Theorems about RemoteBackup for every tree, clock, set of faults and    *)
(* bound: whatever pass failed, the client's journal vouches for no stale  *)
(* copy, a run that gives up gives the journal back, and the dumps on the  *)
(* server are written once; a run whose passes all passed has dumped every *)
(* file, if what failed before it failed before the journal was final.     *)
(***************************************************************************)
EXTENDS RemoteBackup, TLAPS

----------------------------------------------------------------------------
\* Lemmas on the operators.

\* Days are positive, so that bdir = 0 means no run and last = 0 no last backup.
LEMMA DayFacts ==
    /\ Time \subseteq Nat \ {0}
    /\ Day \subseteq Nat \ {0}
    /\ 0 \notin Day
    /\ \A t \in Time : DayOf[t] \in Day /\ t \in DOMAIN DayOf /\ t + Lead \in DOMAIN DayOf
    /\ \A t \in DOMAIN DayOf : DayOf[t] \in Day
    /\ Stamp \ {0} = Time
    /\ 0 \in Stamp /\ Stamp \subseteq Nat
  BY ClockAssumption DEF Day, Time, Stamp

\* What a dump may have of a file.
LEMMA ContentFacts ==
    /\ Torn \in Content /\ Cut \in Content /\ 0 \in Content /\ Torn # 0 /\ Cut # 0
    /\ 1..MaxVer \subseteq Content /\ 1 \in 1..MaxVer
  BY BoundAssumption DEF Content, Torn, Cut

\* A journal that lost a part of its lines is a journal, and has no other line.
LEMMA RemainsFacts ==
    ASSUME NEW j \in JournalType, NEW k \in Remains(j)
    PROVE  /\ k \in JournalType /\ k.there = j.there
           /\ \A p \in Paths : k.line[p] \in {0, j.line[p]}
<1>1. PICK kept : k = [j EXCEPT !.line = [p \in Paths |-> IF p \in kept THEN j.line[p] ELSE 0]]
  BY DEF Remains
<1>2. j.there \in BOOLEAN /\ j.line \in [Paths -> Stamp]
  BY DEF JournalType
<1>3. k = [there |-> j.there, line |-> [p \in Paths |-> IF p \in kept THEN j.line[p] ELSE 0]]
  BY <1>1 DEF JournalType
<1>4. k.line \in [Paths -> Stamp]
  BY <1>2, <1>3, DayFacts
<1> QED
  BY <1>2, <1>3, <1>4 DEF JournalType

\* The constant journals have their type and no lines.
LEMMA Constants ==
    /\ NoJournal \in JournalType /\ EmptyJournal \in JournalType
    /\ \A p \in Paths : NoJournal.line[p] = 0 /\ EmptyJournal.line[p] = 0
    /\ Journal \in Paths /\ Files \subseteq Paths
  BY DayFacts DEF NoJournal, EmptyJournal, NoLines, JournalType, Paths

\* The lines of a journal are stamps, and a dated journal has a day.
LEMMA LineFacts ==
    ASSUME NEW j \in JournalType
    PROVE  /\ \A p \in Paths : j.line[p] \in Stamp
           /\ j.line[Journal] \in Stamp
           /\ j.line[Journal] # 0 => DayOf[j.line[Journal]] \in Day
  BY DayFacts DEF JournalType, Paths

\* A line that is written, and no other, changes.
LEMMA LineWritten ==
    ASSUME NEW j \in JournalType, NEW p \in Paths, NEW at \in Stamp
    PROVE  /\ [j EXCEPT !.line[p] = at] \in JournalType
           /\ [j EXCEPT !.line[p] = at].line[p] = at
           /\ [j EXCEPT !.line[p] = at].there = j.there
           /\ \A q \in Paths \ {p} : [j EXCEPT !.line[p] = at].line[q] = j.line[q]
  BY DEF JournalType

\* A directory's entries are entries of the tree.
LEMMA EntriesFacts == ASSUME NEW d PROVE Entries(d) \subseteq Paths \cup Dirs
  BY DEF Entries, Nodes, Paths

\* A file put in a dump changes its entry only.
LEMMA DumpUpdate ==
    ASSUME NEW u \in Dumps, NEW d \in Day, NEW f \in Files, NEW v \in Content
    PROVE  /\ [u EXCEPT ![d][f] = v] \in Dumps
           /\ [u EXCEPT ![d][f] = v][d][f] = v
           /\ \A g \in Files \ {f} : [u EXCEPT ![d][f] = v][d][g] = u[d][g]
           /\ \A e \in Day \ {d} : [u EXCEPT ![d][f] = v][e] = u[e]
  BY DEF Dumps

\* A directory made in a dump leaves the others as they were.
LEMMA TreeUpdate ==
    ASSUME NEW m \in Trees, NEW d \in Day, NEW e \in Folder \cup {Journal}
    PROVE  /\ [m EXCEPT ![d] = @ \cup {e}] \in Trees
           /\ [m EXCEPT ![d] = @ \cup {e}][d] = m[d] \cup {e}
  BY DEF Trees

----------------------------------------------------------------------------
\* Type correctness.

\* The initial state has every variable of its type.
LEMMA TypeInit == Init => TypeOK
<1> SUFFICES ASSUME Init PROVE TypeOK
  OBVIOUS
<1>1. 1 \in Time /\ 0 \in 0..MaxFaults
  BY ClockAssumption, BoundAssumption DEF Time
<1>2. src \in Source
  BY <1>1, ContentFacts DEF Init, Source
<1>3. dump \in Dumps /\ made \in Trees /\ during \in Versions
  BY ContentFacts DEF Init, Dumps, Trees, Versions
<1>4. jnl \in JournalType /\ old \in JournalType /\ before \in JournalType
  BY Constants DEF Init
<1>5. nfaults \in 0..MaxFaults /\ born \in Stamp /\ last \in Stamp /\ now \in Time
  BY <1>1, DayFacts DEF Init
<1>6. /\ pc = "idle" /\ bdir = 0 /\ todo = {} /\ dirs = {} /\ links = {} /\ list = {}
      /\ rst = TRUE /\ failed = "none" /\ silent = FALSE
  BY DEF Init
<1>7. failed \in Pass /\ pc \in Label
  BY <1>6 DEF Label, Pass
<1> QED
  BY <1>2, <1>3, <1>4, <1>5, <1>6, <1>7 DEF TypeOK

\* A fault leaves the count of faults within its bound.
LEMMA FaultType ==
    ASSUME TypeOK, Well \/ \E k : Fault(k) \/ Logged(k)
    PROVE  nfaults' \in 0..MaxFaults /\ silent' \in BOOLEAN
<1>1. nfaults \in 0..MaxFaults /\ silent \in BOOLEAN /\ MaxFaults \in Nat
  BY BoundAssumption DEF TypeOK
<1>2. CASE Well
  BY <1>1, <1>2 DEF Well
<1>3. ASSUME NEW k, Fault(k) \/ Logged(k) PROVE nfaults' \in 0..MaxFaults /\ silent' \in BOOLEAN
  <2>1. nfaults < MaxFaults /\ nfaults' = nfaults + 1 /\ (silent' = silent \/ silent' = TRUE)
    BY <1>3 DEF Fault, Logged
  <2>2. nfaults' \in 0..MaxFaults
    BY <1>1, <2>1
  <2>3. silent' \in BOOLEAN
    BY <1>1, <2>1, Zenon
  <2> QED BY <2>2, <2>3
<1> QED BY <1>2, <1>3

\* A change of a file keeps the type of what it changes.
LEMMA ChangedType ==
    ASSUME TypeOK, NEW f \in Files, NEW here \in BOOLEAN, Changed(f, here)
    PROVE  src' \in Source /\ during' \in Versions
<1>1. src[f].ver + 1 \in 1..MaxVer /\ now \in Time
  BY BoundAssumption DEF TypeOK, Source, Changed
<1>2. src' \in Source
  BY <1>1 DEF Changed, TypeOK, Source
<1>3. (IF here THEN src[f].ver + 1 ELSE 0) \in 0..MaxVer
  BY <1>1, BoundAssumption
<1>4. during' \in Versions
  BY <1>3 DEF Changed, TypeOK, Versions
<1> QED
  BY <1>2, <1>4

\* So do the steps of PASS1.
LEMMA Pass1Type == ASSUME TypeOK, Pass1 PROVE TypeOK'
<1>1. Today \in Day
  BY DayFacts DEF TypeOK, Today
<1>2. \A f \in Files : Held(f) \in 0..MaxVer
  BY BoundAssumption DEF TypeOK, Held, Source
<1>3. during' \in Versions /\ bdir' \in Day /\ before' \in JournalType
  BY <1>1, <1>2 DEF Pass1, ChkDest, Refuse, ChkDestFails, Start, TypeOK, Versions
<1>4. made' \in Trees
  BY <1>1, TreeUpdate DEF Pass1, ChkDest, Refuse, ChkDestFails, MakesRoot, TypeOK, Folder
<1>5. nfaults' \in 0..MaxFaults /\ silent' \in BOOLEAN
  BY FaultType DEF Pass1, ChkDest, Refuse, ChkDestFails
<1>6. pc = "idle" /\ pc' \in {"source", "exit"} /\ failed' \in Pass
  BY DEF Pass1, ChkDest, Refuse, ChkDestFails, Start, Goto, Ends, TypeOK, Pass
<1>7. UNCHANGED <<world, jnl, dump, old, last, todo, files, born, rst>>
  BY DEF Pass1, ChkDest, Refuse, ChkDestFails, Start
<1> QED
  BY <1>3, <1>4, <1>5, <1>6, <1>7, DayFacts DEF TypeOK, world, files, Label

\* So do the steps of PASS2.
LEMMA Pass2Type == ASSUME TypeOK, Pass2 PROVE TypeOK'
<1> USE FaultType, Constants DEF TypeOK, world, store, files, proc, Goto, Ends, GivesUp, Label, Pass
<1>1. CASE OpenFilesFails \/ NoJournalYet \/ MoveAsideFails \/ OpenJournalFails \/ WriteFails
  BY <1>1 DEF OpenFilesFails, NoJournalYet, MoveAsideFails, OpenJournalFails, WriteFails
<1>2. CASE TakeJournal
  <2>1. old' \in JournalType
    BY <1>2, RemainsFacts DEF TakeJournal
  <2>2. last' \in Stamp /\ links = {}
    BY <1>2, <2>1, LineFacts DEF TakeJournal
  <2> QED
    BY <1>2, <2>1, <2>2 DEF TakeJournal
<1>3. CASE LoadFails BY <1>3 DEF LoadFails
<1>4. CASE OpenJournal BY <1>4, EntriesFacts, DayFacts DEF OpenJournal
<1>5. ASSUME NEW p \in Paths, Record(p) PROVE TypeOK'
  <2>1. PICK at \in Stamps(p) : /\ jnl' = [jnl EXCEPT !.line[p] = at]
                                /\ IF Unchanged(p, at)
                                   THEN links' = links \cup {p} /\ UNCHANGED list
                                   ELSE list' = list \cup {p} /\ UNCHANGED links
    BY <1>5 DEF Record
  <2>2. at \in Stamp
    BY DayFacts, ClockAssumption DEF Stamps, Source, Stamp, Time, Paths
  <2>3. jnl' \in JournalType
    BY <2>1, <2>2, LineWritten
  <2>4. links' \subseteq Paths /\ list' \subseteq Paths /\ (links' # {} => last # 0)
    BY <2>1 DEF Unchanged
  <2> QED
    BY <1>5, <2>3, <2>4 DEF Record
<1>6. ASSUME NEW p \in Paths, LstatFails(p) PROVE TypeOK'
  BY <1>6 DEF LstatFails
<1>7. ASSUME NEW d \in Dirs, EnterDir(d) \/ ParentLost(d) PROVE TypeOK'
  BY <1>7, EntriesFacts DEF EnterDir, ParentLost
<1>8. CASE CloseFiles
  <2>1. jnl' \in JournalType /\ dirs' \subseteq dirs /\ links' \subseteq links /\ list' \subseteq list
    BY <1>8, RemainsFacts DEF CloseFiles, ClosesWell, ClosesShort
  <2> QED
    BY <1>8, <2>1 DEF CloseFiles
<1>9. CASE Restore \/ RestoreFails
  BY <1>9, RemainsFacts DEF Restore, RestoreFails
<1> QED
  BY <1>1, <1>2, <1>3, <1>4, <1>5, <1>6, <1>7, <1>8, <1>9 DEF Pass2

\* What PASS5 leaves of a file when it is cut short is an entry of a dump.
LEMMA CutType ==
    ASSUME TypeOK, pc = "tar"
    PROVE  /\ UNCHANGED store => dump' \in Dumps /\ made' \in Trees
           /\ \A f \in Files : CutShort(f) => dump' \in Dumps /\ made' \in Trees
<1>1. bdir \in Day /\ dump \in Dumps /\ made \in Trees /\ \A f \in Files : Parent[f] \in Folder
  BY TreeAssumption DEF TypeOK, Nodes
<1>2. ASSUME NEW f \in Files, CutShort(f) PROVE dump' \in Dumps /\ made' \in Trees
  BY <1>1, <1>2, ContentFacts, DumpUpdate, TreeUpdate DEF CutShort
<1> QED BY <1>1, <1>2 DEF store

\* So do those of PASS3 to PASS5.
LEMMA Pass3To5Type == ASSUME TypeOK, Pass3To5 PROVE TypeOK'
<1> USE FaultType DEF TypeOK, world, store, files, proc, Goto, Ends, Label, Pass
<1>1. ASSUME NEW d \in Dirs, MakeDir(d) PROVE TypeOK'
  <2>1. bdir \in Day /\ d \in Folder \cup {Journal}
    BY <1>1 DEF MakeDir, Folder
  <2>2. made' \in Trees
    BY <1>1, <2>1, TreeUpdate DEF MakeDir
  <2> QED
    BY <1>1, <2>2 DEF MakeDir
<1>2. ASSUME NEW p \in Paths, Link(p) PROVE TypeOK'
  <2>1. bdir \in Day /\ LastDay \in Day
    BY <1>2, DayFacts DEF Link, LastDay
  <2>2. p \in Files => dump[LastDay][p] \in Content
    BY <2>1 DEF Dumps
  <2>3. dump' \in Dumps
    BY <1>2, <2>1, <2>2, DumpUpdate DEF Link
  <2> QED
    BY <1>2, <2>3 DEF Link
<1>3. ASSUME NEW p \in Paths, TarCopy(p) PROVE TypeOK'
  <2>1. bdir \in Day
    BY <1>3 DEF TarCopy
  <2>2. p \in Files => src[p].ver \in Content
    BY ContentFacts DEF Source
  <2>3. dump' \in Dumps
    BY <1>3, <2>1, <2>2, DumpUpdate DEF TarCopy
  <2>4. (IF p = Journal THEN p ELSE Parent[p]) \in Folder \cup {Journal}
    BY TreeAssumption DEF Paths, Nodes
  <2>5. made' \in Trees
    BY <1>3, <2>1, <2>4, TreeUpdate DEF TarCopy
  <2> QED
    BY <1>3, <2>3, <2>5 DEF TarCopy
<1>4. ASSUME NEW f \in Files, TarMisses(f) PROVE TypeOK'
  BY <1>4 DEF TarMisses
<1>5. ASSUME NEW f \in Files, TarRaced(f) PROVE TypeOK'
  <2>1. bdir \in Day /\ Parent[f] \in Folder \cup {Journal}
    BY <1>5, TreeAssumption DEF TarRaced, Nodes
  <2>2. dump' \in Dumps /\ made' \in Trees
    BY <1>5, <2>1, ContentFacts, DumpUpdate, TreeUpdate DEF TarRaced
  <2>3. src' \in Source /\ during' \in Versions
    BY <1>5, ChangedType DEF TarRaced
  <2> QED
    BY <1>5, <2>2, <2>3 DEF TarRaced
<1>6. CASE DirsMade \/ LinksMade \/ PassFails \/ Finish
  BY <1>6 DEF DirsMade, LinksMade, PassFails, Finish
<1>7. CASE TarFails
  <2>1. dump' \in Dumps /\ made' \in Trees
    BY <1>7, CutType DEF TarFails
  <2> QED
    BY <1>7, <2>1 DEF TarFails
<1> QED
  BY <1>1, <1>2, <1>3, <1>4, <1>5, <1>6, <1>7 DEF Pass3To5

\* No step changes the type of a variable.
LEMMA TypeNext == TypeOK /\ [Next]_vars => TypeOK'
<1> SUFFICES ASSUME TypeOK, [Next]_vars PROVE TypeOK'
  OBVIOUS
<1>1. CASE Tick
  BY <1>1, ClockAssumption DEF Tick, TypeOK, store, proc, files, ghost, Time
<1>2. ASSUME NEW f \in Files, Edit(f) PROVE TypeOK'
  BY <1>2, ChangedType DEF Edit, TypeOK, store, proc, files
<1>3. CASE Die
  <2>1. jnl' \in JournalType
    BY <1>3, RemainsFacts, Constants DEF Die, TypeOK
  <2>2. dump' \in Dumps /\ made' \in Trees
    BY <1>3, CutType DEF Die, TypeOK, store
  <2> QED
    BY <1>3, <2>1, <2>2, FaultType DEF Die, TypeOK, world, store, proc, files, Ends, Label, Pass
<1>4. CASE Gone
  <2>1. during' \in Versions
    BY <1>4 DEF Gone, Versions
  <2> QED
    BY <1>4, <2>1, Constants, DayFacts DEF Gone, TypeOK, world, store, Label, Pass
<1>5. CASE UNCHANGED vars
  BY <1>5 DEF vars, TypeOK, world, store, proc, files, ghost
<1> QED
  BY <1>1, <1>2, <1>3, <1>4, <1>5, Pass1Type, Pass2Type, Pass3To5Type DEF Next

\* Every variable of a remote run has its type in every reachable state, for any
\* tree, clocks, faults and bounds.
THEOREM RemoteTyping == Spec => []TypeOK
  BY TypeInit, TypeNext, PTL DEF Spec

----------------------------------------------------------------------------
\* The invariant behind JournalSound, NoStaleEntry and WriteOnceDumps.

\* Every line of k is a line of the journal or of the one set aside.
Weaker(k) == \E j \in {jnl, old} : \A p \in Paths : k.line[p] \in {0, j.line[p]}

\* What the program makes of a journal has no new line.
LEMMA WeakerFacts ==
    ASSUME TypeOK
    PROVE  /\ Weaker(NoJournal) /\ Weaker(EmptyJournal) /\ Weaker(jnl) /\ Weaker(old)
           /\ \A k \in Remains(jnl) \cup Remains(old) : Weaker(k)
<1>1. \A k \in Remains(jnl) \cup Remains(old) : Weaker(k)
  BY RemainsFacts DEF TypeOK, Weaker
<1> QED
  BY <1>1, Constants DEF Weaker

\* Journals that have no new line stay behind the source.
LEMMA LinesMoved ==
    ASSUME TypeOK, TypeOK', LinesPast, UNCHANGED <<now, src>>, Weaker(jnl'), Weaker(old')
    PROVE  LinesPast'
<1>1. ASSUME NEW k \in {jnl', old'}
      PROVE  \E j \in {jnl, old} : \A p \in Paths : k.line[p] \in {0, j.line[p]}
  BY <1>1 DEF Weaker
<1>2. \A f \in Files : f \in Paths /\ src[f].at \in Nat \ {0}
  BY DayFacts DEF TypeOK, Source, Paths
<1> QED BY <1>1, <1>2, LineFacts DEF LinesPast, TypeOK

\* Journals that have no new line stay behind the source and true of the dumps.
LEMMA JournalsMoved ==
    ASSUME TypeOK, TypeOK', LinesPast, JournalSound, UNCHANGED <<now, src, dump>>,
           Weaker(jnl'), Weaker(old')
    PROVE  LinesPast' /\ JournalSound'
<1>1. ASSUME NEW k \in {jnl', old'}
      PROVE  \E j \in {jnl, old} : \A p \in Paths : k.line[p] \in {0, j.line[p]}
  BY <1>1 DEF Weaker
<1>2. \A f \in Files : f \in Paths /\ src[f].at \in Nat \ {0}
  BY DayFacts DEF TypeOK, Source, Paths
<1>3. LinesPast'
  BY LinesMoved
<1>4. JournalSound'
  <2> SUFFICES ASSUME NEW k \in {jnl', old'}, k.line[Journal] # 0,
                      NEW f \in Files, src[f].there, k.line[f] = src[f].at
               PROVE  dump[DayOf[k.line[Journal]]][f] \in {0, Cut, src[f].ver}
    BY DEF JournalSound, Vouches
  <2>1. PICK j \in {jnl, old} : \A p \in Paths : k.line[p] \in {0, j.line[p]}
    BY <1>1
  <2>2. j.line[Journal] = k.line[Journal] /\ j.line[f] = src[f].at
    BY <1>2, <2>1, Constants
  <2> QED BY <2>2 DEF JournalSound, Vouches
<1> QED BY <1>3, <1>4

\* A changed file has a stamp no journal has; the other files are as they were.
LEMMA ChangedFacts ==
    ASSUME TypeOK, LinesPast, NEW f \in Files, NEW here \in BOOLEAN, Changed(f, here)
    PROVE  /\ \A g \in Files \ {f} : src'[g] = src[g]
           /\ src'[f].at = now /\ src[f].at < now
           /\ jnl.line[f] # src'[f].at /\ old.line[f] # src'[f].at
           /\ bdir # 0 => \A g \in Files : during[g] \subseteq during'[g]
           /\ (bdir # 0 /\ \A g \in Files : Held(g) \in during[g]) =>
                 \A g \in Files : (Held(g))' \in during'[g]
<1>1. src[f].at \in Nat /\ now \in Nat /\ \A j \in {jnl, old} : j.line[f] \in Nat
  BY DayFacts, LineFacts, ClockAssumption DEF TypeOK, Source, Paths, Stamp
<1>2. /\ \A g \in Files \ {f} : src'[g] = src[g]
      /\ src'[f] = [ver |-> src[f].ver + 1, at |-> now, there |-> here]
      /\ src[f].at < now
  BY DEF Changed, TypeOK, Source
<1>3. \A j \in {jnl, old} : j.line[f] <= src[f].at
  BY DEF LinesPast
<1>4. bdir # 0 => during' = [during EXCEPT ![f] = @ \cup {IF here THEN src[f].ver + 1 ELSE 0}]
  BY DEF Changed
<1>5. bdir # 0 => /\ \A g \in Files : during[g] \subseteq during'[g]
                  /\ (IF here THEN src[f].ver + 1 ELSE 0) \in during'[f]
  BY <1>4 DEF TypeOK, Versions
<1> QED
  BY <1>1, <1>2, <1>3, <1>5 DEF Held

\* A change of a file makes nothing true of the journals and takes nothing from `during'.
LEMMA SourceChanged ==
    ASSUME TypeOK, TypeOK', LinesPast, NEW f \in Files, NEW here \in BOOLEAN, Changed(f, here),
           UNCHANGED <<now, jnl, old, bdir>>
    PROVE  /\ LinesPast'
           /\ \A g \in Files : /\ Vouches(jnl, g)' => g # f /\ Vouches(jnl, g) /\ src'[g] = src[g]
                               /\ Vouches(old, g)' => g # f /\ Vouches(old, g) /\ src'[g] = src[g]
           /\ bdir # 0 => \A g \in Files : during[g] \subseteq during'[g]
           /\ (bdir # 0 /\ \A g \in Files : Held(g) \in during[g]) =>
                 \A g \in Files : (Held(g))' \in during'[g]
<1>1. /\ \A g \in Files \ {f} : src'[g] = src[g]
      /\ src'[f].at = now /\ src[f].at < now
      /\ jnl.line[f] # src'[f].at /\ old.line[f] # src'[f].at
  BY ChangedFacts
<1>2. \A g \in Files : src[g].at \in Nat /\ src'[g].at \in Nat /\ now \in Nat
  BY DayFacts DEF TypeOK, Source
<1>3. \A g \in Files, j \in {jnl, old} : j.line[g] \in Nat /\ j.line[g] <= src[g].at
  BY LineFacts, DayFacts DEF LinesPast, TypeOK, Paths
<1>4. \A g \in Files : src[g].at <= src'[g].at /\ src'[g].at <= now
  BY <1>1, <1>2 DEF LinesPast
<1>5. LinesPast'
  BY <1>2, <1>3, <1>4 DEF LinesPast
<1>6. \A g \in Files : /\ Vouches(jnl, g)' => g # f /\ Vouches(jnl, g) /\ src'[g] = src[g]
                       /\ Vouches(old, g)' => g # f /\ Vouches(old, g) /\ src'[g] = src[g]
  BY <1>1 DEF Vouches
<1> QED BY <1>5, <1>6, ChangedFacts

\* Days are numbers, and so are the ones a run has.
LEMMA DayNat == \A d \in Day \cup {0} : d \in Nat
  BY DayFacts

\* What the new journal vouches for is true of the dump of the day it is dated: that
\* day is the day of the run, or a day to come.
LEMMA NewJournal ==
    TypeOK /\ RunStamps /\ FutureEmpty /\ NewLinesSound /\ Writing /\ jnl.line[Journal] # 0
    => \A g \in Files : Vouches(jnl, g) => dump[DayOf[jnl.line[Journal]]][g] \in {0, Cut, src[g].ver}
<1> SUFFICES ASSUME TypeOK, RunStamps, FutureEmpty, NewLinesSound, Writing,
                    jnl.line[Journal] # 0, NEW f \in Files, Vouches(jnl, f)
             PROVE  dump[DayOf[jnl.line[Journal]]][f] \in {0, Cut, src[f].ver}
  OBVIOUS
<1> DEFINE d == DayOf[jnl.line[Journal]]
<1>1. bdir \in Day /\ d \in Day /\ bdir <= d /\ bdir # 0
  BY DayFacts, LineFacts DEF TypeOK, RunStamps, Writing
<1>2. dump[bdir][f] \in {0, Cut, src[f].ver}
  BY DEF NewLinesSound
<1>3. d # bdir => dump[d][f] = 0
  <2>1. d # bdir => d > bdir
    BY <1>1, DayNat
  <2> QED BY <1>1, <2>1 DEF FutureEmpty
<1> QED BY <1>2, <1>3

\* So it is after a step that keeps the facts it follows from.
LEMMA NewJournalNext ==
    ASSUME TypeOK', RunStamps', FutureEmpty', NewLinesSound', Writing', (jnl.line[Journal] # 0)'
    PROVE  (\A g \in Files : Vouches(jnl, g) => dump[DayOf[jnl.line[Journal]]][g] \in {0, Cut, src[g].ver})'
  BY NewJournal, PTL

\* The initial state satisfies the invariant.
LEMMA RemoteInit == Init => RemoteInv
<1> SUFFICES ASSUME Init PROVE RemoteInv
  OBVIOUS
<1>1. TypeOK
  BY TypeInit
<1>2. LinesPast
  BY Constants, DayFacts DEF Init, LinesPast
<1>3. JournalSound
  BY Constants DEF Init, JournalSound
<1>4. FutureEmpty
  BY <1>1 DEF Init, FutureEmpty, TypeOK
<1> QED
  BY <1>2, <1>3, <1>4
     DEF Init, RemoteInv, RunStamps, LastJournal, EntersOnce, OneWay, NewLinesSound, LinksFresh,
         NotFailedYet, NoStaleEntry, Opened, Writing

\* Time passes: days to come are fewer.
LEMMA TickInv == ASSUME TypeOK, RemoteInv, Tick PROVE RemoteInv'
<1> USE DEF RemoteInv
<1>1. now \in Time /\ now + 1 \in Time /\ DayOf[now] <= DayOf[now + 1] /\ now' = now + 1
  BY ClockAssumption DEF Tick, TypeOK, Time
<1>2. DayOf[now] \in Nat /\ DayOf[now + 1] \in Nat /\ bdir \in Nat /\ \A d \in Day : d \in Nat
  BY <1>1, DayFacts DEF TypeOK
<1>3. UNCHANGED <<src, jnl, dump, made, pc, bdir, old, last, todo, dirs, links, list, born, rst,
                  failed, during>>
  BY DEF Tick, store, proc, files, ghost
<1>4. RunStamps'
  BY <1>1, <1>2, <1>3 DEF RunStamps, Writing
<1>5. FutureEmpty'
  <2>1. \A d \in Day : d > DayOf[now + 1] => d > DayOf[now]
    BY <1>1, <1>2
  <2> QED BY <1>1, <1>3, <2>1 DEF FutureEmpty
<1>6. LinesPast'
  <2>1. \A f \in Files : src[f].at \in Nat /\ now \in Nat
    BY DayFacts DEF TypeOK, Source
  <2> QED BY <1>1, <1>3, <2>1 DEF LinesPast
<1> QED
  BY <1>3, <1>4, <1>5, <1>6
     DEF LastJournal, EntersOnce, OneWay, NewLinesSound, LinksFresh, NotFailedYet, JournalSound,
         NoStaleEntry, Opened, Writing, Vouches, LastDay, Held

\* A change of a file takes away what its lines vouch for, and nothing else.
LEMMA EditInv ==
    ASSUME TypeOK, TypeOK', RemoteInv, NEW f \in Files, Edit(f)
    PROVE  RemoteInv'
<1>1. PICK here \in BOOLEAN : Changed(f, here)
  BY DEF Edit
<1>2. UNCHANGED <<now, jnl, dump, made, pc, bdir, old, last, todo, dirs, links, list, born, rst,
                  failed>>
  BY DEF Edit, store, proc, files
<1> USE SourceChanged, <1>1, <1>2 DEF RemoteInv
<1>3. /\ LinesPast'
      /\ \A g \in Files : /\ (Vouches(jnl, g))' => Vouches(jnl, g) /\ src'[g] = src[g]
                          /\ (Vouches(old, g))' => Vouches(old, g) /\ src'[g] = src[g]
  OBVIOUS
<1>4. NewLinesSound' /\ JournalSound'
  BY <1>3 DEF NewLinesSound, JournalSound, Writing, LastDay, Vouches
<1>5. LinksFresh'
  <2>1. Writing => bdir # 0
    BY DEF Writing, TypeOK
  <2> QED BY <2>1 DEF LinksFresh, Writing, LastDay
<1>6. NoStaleEntry'
  BY DEF NoStaleEntry, Opened
<1> QED
  BY <1>3, <1>4, <1>5, <1>6
     DEF RunStamps, FutureEmpty, LastJournal, EntersOnce, OneWay, NotFailedYet, Writing

\* A run starts on a day that has no dump, or ends at once.
LEMMA Pass1Inv ==
    ASSUME TypeOK, TypeOK', RemoteInv, Careful, Pass1
    PROVE  RemoteInv'
<1> DEFINE today == DayOf[now]
<1>1. today \in Day /\ today # 0 /\ today \in Nat /\ Today = today
  <2>1. now \in Nat /\ now + Lead = now
    BY DayFacts DEF TypeOK, Careful
  <2> QED BY <2>1, DayFacts DEF TypeOK, Today
<1>2. /\ Start /\ pc' \in {"source", "exit"}
      /\ pc' = "exit" => failed' = "dest"
      /\ pc' = "source" => EmptyDir(Today) /\ failed' = failed
  BY DEF Pass1, ChkDest, Refuse, ChkDestFails, Goto, Ends, Careful, Logged
<1>3. /\ pc = "idle" /\ bdir = 0 /\ bdir' = today
      /\ \A f \in Files : during'[f] = {Held(f)}
      /\ UNCHANGED <<world, jnl, dump, old, last, todo, files, born, rst>>
  BY <1>1, <1>2 DEF Start, TypeOK
<1>4. pc' = "source" => failed' = "none" /\ \A f \in Files : dump[today][f] = 0
  BY <1>1, <1>2, <1>3 DEF EmptyDir, RemoteInv, NotFailedYet
<1>5. RunStamps'
  BY <1>1, <1>2, <1>3 DEF RunStamps, Writing, world
<1>6. FutureEmpty'
  <2>1. \A d \in Day : d > today => \A f \in Files : dump[d][f] = 0
    BY DEF RemoteInv, FutureEmpty
  <2> QED BY <1>1, <1>2, <1>3, <1>4, <2>1 DEF FutureEmpty, world
<1>7. LastJournal' /\ EntersOnce' /\ OneWay' /\ NewLinesSound' /\ NotFailedYet'
  BY <1>2, <1>3, <1>4 DEF RemoteInv, LastJournal, EntersOnce, OneWay, NewLinesSound, NotFailedYet, Writing, files
<1>8. LinksFresh'
  BY <1>2, <1>3 DEF LinksFresh, Writing, Held, world
<1>9. LinesPast' /\ JournalSound'
  BY <1>3 DEF RemoteInv, LinesPast, JournalSound, Vouches, world
<1>10. NoStaleEntry'
  BY <1>2, <1>3, <1>4 DEF NoStaleEntry, Opened
<1> QED
  BY <1>5, <1>6, <1>7, <1>8, <1>9, <1>10 DEF RemoteInv

\* A step that changes neither the dumps nor the source, adds no line to a journal and
\* leaves the run where it does not write: before the walk, or on the way out.
LEMMA OffTheWalk ==
    ASSUME TypeOK, TypeOK', RemoteInv, UNCHANGED <<world, dump, bdir, during>>, bdir # 0,
           Weaker(jnl'), Weaker(old'),
           pc # "exit",
           \/ pc' = "exit" /\ failed' # "dest"
           \/ /\ pc' = "restore" /\ pc \in {"source", "open", "walk"} /\ UNCHANGED failed
           \/ /\ pc' = "open" /\ pc = "source" /\ last' = old'.line[Journal]
              /\ UNCHANGED <<todo, files, failed>>
    PROVE  RemoteInv'
<1> USE DEF RemoteInv, world
<1>1. LinesPast' /\ JournalSound'
  BY JournalsMoved
<1>2. failed # "dest"
  BY DEF NotFailedYet
<1>3. FutureEmpty' /\ RunStamps'
  BY DEF FutureEmpty, RunStamps, Writing
<1>4. LastJournal' /\ EntersOnce' /\ OneWay'
  BY DEF LastJournal, EntersOnce, OneWay, Writing, files
<1>5. NewLinesSound' /\ LinksFresh' /\ NotFailedYet'
  BY DEF NewLinesSound, LinksFresh, NotFailedYet, Writing, Held
<1>6. NoStaleEntry'
  BY <1>2 DEF NoStaleEntry, Opened
<1> QED
  BY <1>1, <1>3, <1>4, <1>5, <1>6

\* The steps that do not walk and make no dump.
LEMMA QuietInv ==
    ASSUME TypeOK, TypeOK', RemoteInv,
           \/ OpenFilesFails \/ NoJournalYet \/ TakeJournal \/ MoveAsideFails \/ LoadFails
           \/ OpenJournalFails \/ WriteFails \/ Restore \/ RestoreFails
           \/ PassFails \/ Finish \/ (Die /\ UNCHANGED store)
    PROVE  RemoteInv'
<1> DEFINE Quiet == /\ UNCHANGED <<world, dump, bdir, during>> /\ pc \notin {"idle", "exit"}
                    /\ Weaker(jnl') /\ Weaker(old')
<1>1. pc \notin {"idle", "exit"} => bdir # 0
  BY DEF TypeOK
<1> USE <1>1, WeakerFacts, OffTheWalk DEF Goto, Ends, GivesUp, store, proc, files
<1>2. CASE OpenFilesFails BY <1>2 DEF OpenFilesFails
<1>3. CASE NoJournalYet
  <2>1. last = old.line[Journal]
    BY <1>3, Constants DEF NoJournalYet, RemoteInv, LastJournal
  <2> QED BY <1>3, <2>1 DEF NoJournalYet
<1>4. CASE TakeJournal
  <2>1. Weaker(jnl') /\ Weaker(old')
    BY <1>4 DEF TakeJournal
  <2> QED BY <1>4, <2>1 DEF TakeJournal
<1>5. CASE MoveAsideFails BY <1>5 DEF MoveAsideFails
<1>6. CASE LoadFails BY <1>6 DEF LoadFails
<1>7. CASE OpenJournalFails BY <1>7 DEF OpenJournalFails
<1>8. CASE WriteFails BY <1>8 DEF WriteFails
<1>9. CASE Restore BY <1>9 DEF Restore
<1>10. CASE RestoreFails BY <1>10 DEF RestoreFails
<1>11. CASE PassFails BY <1>11 DEF PassFails
<1>12. CASE Finish BY <1>12 DEF Finish
<1>13. CASE Die /\ UNCHANGED store
  <2>1. Weaker(jnl')
    BY <1>13 DEF Die
  <2> QED BY <1>13, <2>1 DEF Die
<1> QED
  BY <1>2, <1>3, <1>4, <1>5, <1>6, <1>7, <1>8, <1>9, <1>10, <1>11, <1>12, <1>13

\* The walk begins with an empty journal and with the entries of the source.
LEMMA OpenJournalInv == ASSUME TypeOK, TypeOK', RemoteInv, OpenJournal PROVE RemoteInv'
<1> USE DEF RemoteInv, Writing
<1>1. /\ pc = "open" /\ pc' = "walk" /\ jnl' = EmptyJournal /\ born' = now
      /\ todo' \subseteq Entries(Root) /\ bdir # 0 /\ failed = "none"
      /\ UNCHANGED <<world, dump, bdir, old, last, dirs, links, list, failed, during>>
  BY DEF OpenJournal, Goto, store, files, NotFailedYet, TypeOK
<1>2. /\ jnl'.line[Journal] = 0
      /\ \A f \in Files : jnl'.line[f] = 0 /\ src[f].at # 0
  BY <1>1, Constants, DayFacts DEF TypeOK, Source
<1>3. links = {} /\ list = {} /\ dirs = {} /\ \A f \in Files : dump[bdir][f] = 0
  BY <1>1 DEF EntersOnce, FutureEmpty
<1>4. LinesPast' /\ JournalSound'
  BY <1>1, JournalsMoved, WeakerFacts DEF world
<1>5. RunStamps'
  BY <1>1, <1>2, DayFacts DEF RunStamps, TypeOK, world
<1>6. EntersOnce'
  BY <1>1, <1>2, <1>3, TreeAssumption DEF EntersOnce, Entries, Nodes, Folder
<1>7. OneWay'
  BY <1>1, <1>2, <1>3 DEF OneWay
<1>8. NewLinesSound'
  BY <1>1, <1>2 DEF NewLinesSound, Vouches, world
<1>9. LinksFresh'
  BY <1>1, <1>3 DEF LinksFresh, Held, world
<1>10. FutureEmpty' /\ LastJournal' /\ NotFailedYet' /\ NoStaleEntry'
  BY <1>1 DEF FutureEmpty, LastJournal, NotFailedYet, NoStaleEntry, Opened, world
<1> QED BY <1>4, <1>5, <1>6, <1>7, <1>8, <1>9, <1>10

\* The walk passes over an entry, or enters a directory, once, whose entries it has not seen.
LEMMA WalkEnters ==
    ASSUME TypeOK, EntersOnce,
           \/ \E p \in Paths : LstatFails(p)
           \/ \E d \in Dirs : EnterDir(d) \/ ParentLost(d)
    PROVE  /\ EntersOnce'
           /\ \A f \in Files \cap todo' : f \in todo \/ (f \notin links \cup list /\ jnl.line[f] = 0)
<1>1. /\ pc = "walk" /\ pc' = "walk" /\ UNCHANGED <<jnl, links, list>>
  BY DEF LstatFails, EnterDir, ParentLost, Goto, store, files
<1>2. \/ dirs' = dirs /\ todo' \subseteq todo
      \/ \E d \in Dirs \cap todo : dirs' = dirs \cup {d} /\ todo' \subseteq (todo \ {d}) \cup Entries(d)
  BY DEF LstatFails, EnterDir, ParentLost, files
<1>3. CASE dirs' = dirs /\ todo' \subseteq todo
  BY <1>1, <1>3 DEF EntersOnce
<1>4. CASE \E d \in Dirs \cap todo :
             dirs' = dirs \cup {d} /\ todo' \subseteq (todo \ {d}) \cup Entries(d)
  <2>1. PICK d \in Dirs \cap todo :
           dirs' = dirs \cup {d} /\ todo' \subseteq (todo \ {d}) \cup Entries(d)
    BY <1>4
  <2>2. d \notin dirs \cup {Root} /\ d \in Nodes /\ d \in todo
    BY <1>1, TreeAssumption DEF EntersOnce, Nodes
  <2>3. \A e \in Entries(d) : e \in Nodes /\ Parent[e] = d
    BY <2>2 DEF Entries
  <2>4. \A e \in Entries(d) : /\ e \notin todo \cup dirs \cup links \cup list
                              /\ e \in Files => jnl.line[e] = 0
    BY <1>1, <2>2, <2>3 DEF EntersOnce
  <2>5. todo' \cap dirs' = {}
    <3>1. todo \cap dirs = {} /\ Entries(d) \cap dirs = {} /\ d \notin Entries(d)
      BY <1>1, <2>2, <2>4 DEF EntersOnce
    <3> QED BY <2>1, <3>1
  <2>6. ASSUME NEW e \in Nodes, Parent[e] \notin dirs' \cup {Root}
        PROVE  /\ e \notin todo' \cup dirs' \cup links \cup list
               /\ e \in Files => jnl.line[e] = 0
    <3>1. Parent[e] \notin dirs \cup {Root} /\ Parent[e] # d
      BY <2>1, <2>6
    <3>2. e \notin todo \cup dirs \cup links \cup list /\ (e \in Files => jnl.line[e] = 0)
      BY <1>1, <3>1 DEF EntersOnce
    <3>3. e # d /\ e \notin Entries(d)
      BY <2>3, <3>1, <3>2
    <3> QED BY <2>1, <3>2, <3>3
  <2>7. EntersOnce'
    BY <1>1, <2>5, <2>6 DEF EntersOnce
  <2> QED BY <2>1, <2>4, <2>7
<1> QED BY <1>2, <1>3, <1>4

\* Going on with the walk keeps the invariant.
LEMMA WalkOn ==
    ASSUME TypeOK, TypeOK', RemoteInv,
           \/ \E p \in Paths : LstatFails(p)
           \/ \E d \in Dirs : EnterDir(d) \/ ParentLost(d)
    PROVE  RemoteInv'
<1> USE DEF RemoteInv, Writing
<1>1. /\ pc = "walk" /\ pc' = "walk"
      /\ UNCHANGED <<world, jnl, dump, bdir, old, last, links, list, born, failed, during>>
  BY DEF LstatFails, EnterDir, ParentLost, Goto, store, files
<1>2. /\ EntersOnce'
      /\ \A f \in Files \cap todo' : f \in todo \/ (f \notin links \cup list /\ jnl.line[f] = 0)
  BY WalkEnters
<1>3. OneWay'
  BY <1>1, <1>2 DEF OneWay, world
<1>4. LinesPast' /\ RunStamps' /\ FutureEmpty' /\ LastJournal' /\ NewLinesSound' /\ LinksFresh'
      /\ NotFailedYet' /\ JournalSound' /\ NoStaleEntry'
  BY <1>1 DEF LinesPast, RunStamps, FutureEmpty, LastJournal, NewLinesSound, LinksFresh, NotFailedYet,
              JournalSound, NoStaleEntry, Opened, Vouches, LastDay, Held, world
<1> QED BY <1>2, <1>3, <1>4

\* The walk records an entry: a line with the stamp it has, and a path in one of the lists.
LEMMA RecordFacts ==
    ASSUME TypeOK, TypeOK', LinesPast, EntersOnce, born # 0, NEW p \in Paths, Record(p)
    PROVE  \E at \in Time :
             /\ p \in Files => src[p].there /\ at = src[p].at
             /\ p = Journal => born <= at /\ at <= now
             /\ IF Unchanged(p, at)
                THEN links' = links \cup {p} /\ UNCHANGED list
                ELSE list' = list \cup {p} /\ UNCHANGED links
             /\ jnl'.line[p] = at
             /\ \A q \in Paths \ {p} : jnl'.line[q] = jnl.line[q]
             /\ LinesPast' /\ EntersOnce'
             /\ p \in Nodes => Parent[p] \in dirs \cup {Root}
<1>1. PICK at \in Stamps(p) : /\ jnl' = [jnl EXCEPT !.line[p] = at]
                              /\ IF Unchanged(p, at)
                                 THEN links' = links \cup {p} /\ UNCHANGED list
                                 ELSE list' = list \cup {p} /\ UNCHANGED links
  BY DEF Record
<1>2. /\ pc = "walk" /\ pc' = "walk" /\ p \in todo /\ todo' = todo \ {p}
      /\ UNCHANGED <<now, src, old, dirs>>
  BY DEF Record, Goto, world
<1>3. /\ at \in Time
      /\ p \in Files => src[p].there /\ at = src[p].at
      /\ p = Journal => born <= at /\ at <= now
  <2>1. CASE p = Journal
    <3>1. born \in Time /\ now \in Time /\ p \notin Files
      BY <2>1, DayFacts, TreeAssumption DEF TypeOK
    <3>2. at \in born..now
      BY <2>1 DEF Stamps
    <3> QED BY <2>1, <3>1, <3>2, ClockAssumption DEF Time
  <2>2. CASE p # Journal
    <3>1. p \in Files /\ src[p].at \in Time
      BY <2>2 DEF Paths, TypeOK, Source
    <3> QED BY <2>2, <3>1 DEF Stamps
  <2> QED BY <2>1, <2>2
<1>4. /\ jnl'.line[p] = at
      /\ \A q \in Paths \ {p} : jnl'.line[q] = jnl.line[q]
  BY <1>1, <1>3, DayFacts, LineWritten DEF TypeOK
<1>5. LinesPast'
  <2>1. \A f \in Files : f \in Paths /\ src[f].at \in Nat
    BY DayFacts DEF TypeOK, Source, Paths
  <2> QED BY <1>2, <1>3, <1>4, <2>1 DEF LinesPast
<1>6. Parent[p] \in dirs \cup {Root} \/ p \notin Nodes
  BY <1>2 DEF EntersOnce
<1>7. EntersOnce'
  <2>1. todo' \cap dirs' = {} /\ links' \subseteq links \cup {p} /\ list' \subseteq list \cup {p}
    BY <1>1, <1>2 DEF EntersOnce
  <2>2. ASSUME NEW e \in Nodes, Parent[e] \notin dirs \cup {Root}
        PROVE  /\ e \notin todo' \cup dirs \cup links' \cup list'
               /\ e \in Files => jnl'.line[e] = 0
    <3>1. e # p
      BY <1>6, <2>2
    <3>2. e \notin todo \cup dirs \cup links \cup list /\ (e \in Files => jnl.line[e] = 0)
      BY <1>2, <2>2 DEF EntersOnce
    <3> QED BY <1>2, <1>4, <2>1, <3>1, <3>2 DEF Paths
  <2> QED BY <1>2, <2>1, <2>2 DEF EntersOnce
<1>8. IF Unchanged(p, at) THEN links' = links \cup {p} /\ UNCHANGED list
                          ELSE list' = list \cup {p} /\ UNCHANGED links
  BY <1>1
<1> QED BY <1>3, <1>4, <1>5, <1>6, <1>7, <1>8

\* Recording an entry keeps the invariant.
LEMMA RecordInv ==
    ASSUME TypeOK, TypeOK', RemoteInv, NEW p \in Paths, Record(p)
    PROVE  RemoteInv'
<1> USE DEF RemoteInv, Writing
<1>1. born # 0
  BY DEF Record, RunStamps
<1>2. /\ pc = "walk" /\ pc' = "walk" /\ p \in todo /\ todo' = todo \ {p}
      /\ UNCHANGED <<world, dump, bdir, old, last, dirs, born, failed, during>>
  BY DEF Record, Goto, store
<1>3. PICK at \in Time :
         /\ p \in Files => src[p].there /\ at = src[p].at
         /\ p = Journal => born <= at /\ at <= now
         /\ IF Unchanged(p, at)
            THEN links' = links \cup {p} /\ UNCHANGED list
            ELSE list' = list \cup {p} /\ UNCHANGED links
         /\ jnl'.line[p] = at
         /\ \A q \in Paths \ {p} : jnl'.line[q] = jnl.line[q]
         /\ LinesPast' /\ EntersOnce'
  BY <1>1, RecordFacts
<1>4. at \in Time /\ at # 0
  BY DayFacts
<1>5. bdir \in Day /\ \A f \in Files : dump[bdir][f] = 0
  BY <1>2 DEF FutureEmpty, TypeOK
<1>6. RunStamps'
  <2>1. ASSUME p = Journal PROVE at # 0 /\ bdir <= DayOf[at]
    <3>1. born \in Time /\ bdir <= DayOf[born] /\ born <= at
      BY <1>2, <1>3, <2>1, DayFacts DEF RunStamps, TypeOK
    <3>2. DayOf[born] <= DayOf[at] /\ DayOf[at] \in Nat /\ DayOf[born] \in Nat /\ bdir \in Nat
      BY <1>3, <1>5, <3>1, ClockAssumption, DayFacts
    <3> QED BY <1>3, <3>1, <3>2, DayFacts
  <2>2. jnl'.line[Journal] # 0 => bdir <= DayOf[jnl'.line[Journal]]
    BY <1>2, <1>3, <2>1, Constants DEF RunStamps
  <2> QED BY <1>2, <2>2 DEF RunStamps, world
<1>7. p \in Files /\ p \in links' =>
          last # 0 /\ Vouches(old, p) /\ dump[LastDay][p] \in {0, Cut, src[p].ver}
  <2> SUFFICES ASSUME p \in Files, p \in links' PROVE last # 0 /\ Vouches(old, p)
                                                        /\ dump[LastDay][p] \in {0, Cut, src[p].ver}
    OBVIOUS
  <2>1. p \notin links
    BY <1>2 DEF OneWay
  <2>2. last # 0 /\ old.line[p] = at /\ last = old.line[Journal]
    BY <1>3, <1>2, <2>1 DEF Unchanged, LastJournal
  <2> QED BY <1>3, <2>2 DEF JournalSound, Vouches, LastDay
<1>8. OneWay'
  BY <1>3, <1>2, <1>5 DEF OneWay, Paths
<1>9. NewLinesSound'
  <2>1. \A f \in Files \ {p} :
            /\ (Vouches(jnl, f))' => Vouches(jnl, f)
            /\ f \in links' => f \in links
    BY <1>3, <1>2 DEF Vouches, Paths, world
  <2>2. ASSUME NEW f \in Files, (Vouches(jnl, f))', f \in links'
        PROVE  dump[LastDay][f] \in {0, Cut, src[f].ver}
    <3>1. p \in links' /\ p \in Files => dump[LastDay][p] \in {0, Cut, src[p].ver}
      BY <1>7
    <3>2. f # p => dump[LastDay][f] \in {0, Cut, src[f].ver}
      BY <1>2, <2>1, <2>2 DEF NewLinesSound
    <3> QED BY <2>2, <3>1, <3>2, Zenon
  <2> QED BY <1>2, <1>5, <2>2 DEF NewLinesSound, LastDay, world
<1>10. LinksFresh'
  <2>1. p \in Files /\ p \in links' => dump[LastDay][p] \in {0, Cut} \cup during[p]
    BY <1>2, <1>5, <1>7, DayFacts DEF LinksFresh, Held, Vouches
  <2>2. \A f \in Files \ {p} : f \in links' => f \in links
    BY <1>3
  <2> QED BY <1>2, <2>1, <2>2 DEF LinksFresh, LastDay, Held, world
<1>11. FutureEmpty' /\ LastJournal' /\ NotFailedYet' /\ NoStaleEntry'
  BY <1>2 DEF FutureEmpty, LastJournal, NotFailedYet, NoStaleEntry, Opened, world
<1>12. JournalSound'
  <2>1. Writing'
    BY <1>2
  <2>2. jnl'.line[Journal] # 0 => \A g \in Files :
            Vouches(jnl, g)' => dump'[DayOf[jnl'.line[Journal]]][g] \in {0, Cut, src'[g].ver}
    BY NewJournalNext, <1>6, <1>9, <1>11, <2>1
  <2> QED BY <1>2, <2>2 DEF JournalSound, Vouches, world
<1> QED
  BY <1>3, <1>6, <1>8, <1>9, <1>10, <1>11, <1>12

\* The files are closed, and what is lost of them only says less.
LEMMA CloseFilesInv ==
    ASSUME TypeOK, TypeOK', RemoteInv, CloseFiles
    PROVE  RemoteInv'
<1> USE DEF RemoteInv, Writing
<1>1. /\ pc = "walk" /\ todo = {} /\ todo' = {} /\ bdir # 0 /\ failed = "none"
      /\ jnl' \in {jnl} \cup Remains(jnl)
      /\ old' = IF last # 0 THEN NoJournal ELSE old
      /\ links' \subseteq links /\ list' \subseteq list
      /\ \/ pc' = "mkdir" /\ failed' = failed
         \/ pc' = "exit" /\ failed' = "reply"
      /\ UNCHANGED <<world, dump, bdir, last, born, during>>
  BY DEF CloseFiles, ClosesWell, ClosesShort, Goto, Ends, files, store, NotFailedYet, TypeOK
<1>2. Weaker(jnl') /\ Weaker(old') /\ old' \in {old, NoJournal}
  BY <1>1, WeakerFacts
<1>3. \A p \in Paths : jnl'.line[p] \in {0, jnl.line[p]}
  BY <1>1, RemainsFacts DEF TypeOK
<1>4. \A f \in Files : f \in Paths /\ src[f].at # 0
  BY DayFacts DEF Paths, TypeOK, Source
<1>5. LinesPast' /\ JournalSound'
  BY <1>1, <1>2, JournalsMoved DEF world
<1>6. RunStamps'
  BY <1>1, <1>3, Constants DEF RunStamps, world
<1>7. LastJournal'
  BY <1>1, Constants DEF LastJournal
<1>8. OneWay' /\ EntersOnce'
  BY <1>1, <1>3, <1>4 DEF OneWay, EntersOnce, world
<1>9. NewLinesSound'
  <2>1. \A f \in Files : (Vouches(jnl, f))' => Vouches(jnl, f)
    BY <1>1, <1>3, <1>4 DEF Vouches, world
  <2> QED BY <1>1, <2>1 DEF NewLinesSound, LastDay, world
<1>10. LinksFresh'
  BY <1>1 DEF LinksFresh, LastDay, Held, world
<1>11. FutureEmpty' /\ NotFailedYet' /\ NoStaleEntry'
  BY <1>1 DEF FutureEmpty, NotFailedYet, NoStaleEntry, Opened, world
<1> QED BY <1>5, <1>6, <1>7, <1>8, <1>9, <1>10, <1>11

\* Steps of PASS3 to PASS5 that give no file an entry.
LEMMA NoEntryInv ==
    ASSUME TypeOK, TypeOK', RemoteInv, UNCHANGED <<world, dump, jnl, bdir, old, last, todo, during>>,
           pc \in {"mkdir", "mklink", "tar"}, UNCHANGED failed,
           links' \subseteq links, list' \subseteq list,
           \/ pc' = pc
           \/ pc = "mkdir" /\ pc' = "mklink"
           \/ pc = "mklink" /\ pc' = "tar" /\ links' = {}
    PROVE  RemoteInv'
<1> USE DEF RemoteInv, Writing, world
<1>1. LinesPast' /\ RunStamps' /\ FutureEmpty' /\ LastJournal' /\ EntersOnce' /\ OneWay'
  BY DEF LinesPast, RunStamps, FutureEmpty, LastJournal, EntersOnce, OneWay
<1>2. NewLinesSound' /\ LinksFresh' /\ NotFailedYet' /\ JournalSound' /\ NoStaleEntry'
  BY DEF NewLinesSound, LinksFresh, NotFailedYet, JournalSound, NoStaleEntry, Opened, Vouches,
         LastDay, Held
<1> QED BY <1>1, <1>2

\* A file gets its only entry: what the new journal says of it, or a version the run has
\* seen, or a part.  It may change at the same time, and the run may be killed.
LEMMA EntryInv ==
    ASSUME TypeOK, TypeOK', RemoteInv, NEW f \in Files, NEW v \in Content,
           pc \in {"mklink", "tar"}, f \in links \cup list,
           dump' = [dump EXCEPT ![bdir][f] = v],
           v \in {0, Torn, Cut} \cup during'[f],
           Vouches(jnl, f)' => v \in {0, Cut, src'[f].ver},
           \/ UNCHANGED <<pc, failed>> /\ links' \subseteq links \ {f} /\ list' \subseteq list \ {f}
           \/ pc' = "exit" /\ failed' = "killed",
           LinesPast',
           \A g \in Files : Vouches(jnl, g)' => Vouches(jnl, g) /\ src'[g] = src[g],
           \A g \in Files : Held(g)' \in during'[g] /\ during[g] \subseteq during'[g],
           UNCHANGED <<now, jnl, bdir, old, last, todo>>
    PROVE  RemoteInv'
<1> USE DEF RemoteInv, Writing
<1>1. /\ bdir \in Day /\ dump[bdir][f] = 0 /\ failed = "none"
      /\ bdir <= DayOf[now] /\ old.line[Journal] = 0
      /\ now \in Time /\ DayOf[now] \in Nat /\ bdir \in Nat /\ \A d \in Day : d \in Nat
  BY DayFacts DEF TypeOK, OneWay, NotFailedYet, RunStamps, LastJournal
<1>2. /\ dump'[bdir][f] = v
      /\ \A g \in Files \ {f} : dump'[bdir][g] = dump[bdir][g]
      /\ \A d \in Day \ {bdir} : dump'[d] = dump[d]
  BY <1>1, DumpUpdate DEF TypeOK
<1>3. RunStamps' /\ LastJournal' /\ EntersOnce' /\ NotFailedYet'
  BY DEF RunStamps, LastJournal, EntersOnce, NotFailedYet
<1>4. FutureEmpty'
  BY <1>1, <1>2 DEF FutureEmpty
<1>5. OneWay'
  BY <1>2 DEF OneWay
<1>6. pc' # "exit" => \A g \in Files : g \in links' => g # f /\ g \in links /\ dump'[LastDay][g] = dump[LastDay][g]
  <2>1. links # {} => LastDay \in Day
    BY DayFacts DEF TypeOK, LastDay
  <2> QED BY <1>2, <2>1
<1>7. NewLinesSound'
  BY <1>2, <1>6 DEF NewLinesSound, LastDay
<1>8. LinksFresh'
  BY <1>6 DEF LinksFresh, LastDay
<1>9. NoStaleEntry'
  BY <1>1, <1>2 DEF NoStaleEntry, Opened
<1>10. JournalSound'
  <2> SUFFICES ASSUME jnl.line[Journal] # 0, NEW g \in Files, Vouches(jnl, g)'
               PROVE  dump'[DayOf[jnl.line[Journal]]][g] \in {0, Cut, src'[g].ver}
    BY <1>1 DEF JournalSound
  <2>1. DayOf[jnl.line[Journal]] \in Day
    BY LineFacts DEF TypeOK
  <2>2. dump[DayOf[jnl.line[Journal]]][g] \in {0, Cut, src'[g].ver}
    BY DEF JournalSound
  <2>3. CASE dump'[DayOf[jnl.line[Journal]]][g] = dump[DayOf[jnl.line[Journal]]][g]
    BY <2>2, <2>3
  <2>4. CASE g = f /\ dump'[DayOf[jnl.line[Journal]]][g] = v
    BY <2>4
  <2> QED BY <1>2, <2>1, <2>3, <2>4
<1> QED BY <1>3, <1>4, <1>5, <1>7, <1>8, <1>9, <1>10

\* PASS5 leaves a part of a file, and goes on or is killed.
LEMMA CutInv ==
    ASSUME TypeOK, TypeOK', RemoteInv, TarFails \/ Die, ~UNCHANGED store
    PROVE  RemoteInv'
<1>1. PICK f \in Files :
          /\ pc = "tar" /\ f \in list /\ CutShort(f)
          /\ \/ UNCHANGED <<pc, failed>> /\ list' \subseteq list \ {f}
             \/ pc' = "exit" /\ failed' = "killed"
  <2>1. CASE TarFails
    BY <2>1 DEF TarFails, Goto, Ends
  <2>2. CASE Die
    BY <2>2 DEF Die, Goto, Ends
  <2> QED BY <2>1, <2>2
<1>2. UNCHANGED <<now, src, jnl, bdir, old, last, todo, links, during>>
  BY DEF TarFails, Die, proc, files, world
<1>3. dump' = [dump EXCEPT ![bdir][f] = Cut] /\ links = {} /\ links' \subseteq links \ {f}
  BY <1>1, <1>2 DEF CutShort, RemoteInv, OneWay
<1>4. \A g \in Files : Held(g)' \in during'[g] /\ during[g] \subseteq during'[g]
  BY <1>1, <1>2 DEF RemoteInv, LinksFresh, Held, TypeOK
<1>5. LinesPast'
  BY <1>2 DEF RemoteInv, LinesPast
<1>6. Cut \in Content /\ Cut \in {0, Torn, Cut} \cup during'[f] /\ Cut \in {0, Cut, src'[f].ver}
  BY ContentFacts
<1>7. UNCHANGED <<now, jnl, bdir, old, last, todo>> /\ f \in links \cup list /\ pc \in {"mklink", "tar"}
  BY <1>1, <1>2
<1>8. \/ UNCHANGED <<pc, failed>> /\ links' \subseteq links \ {f} /\ list' \subseteq list \ {f}
      \/ pc' = "exit" /\ failed' = "killed"
  BY <1>1, <1>3
<1>9. \A g \in Files : Vouches(jnl, g)' => Vouches(jnl, g) /\ src'[g] = src[g]
  BY <1>2 DEF Vouches
<1> QED BY <1>3, <1>4, <1>5, <1>6, <1>7, <1>8, <1>9, EntryInv

\* The steps of PASS3 to PASS5.
LEMMA Pass3To5Inv ==
    ASSUME TypeOK, TypeOK', RemoteInv, Pass3To5
    PROVE  RemoteInv'
<1>1. CASE PassFails \/ Finish
  BY <1>1, QuietInv
<1>2. CASE DirsMade \/ LinksMade \/ (TarFails /\ UNCHANGED store)
  BY <1>2, NoEntryInv DEF DirsMade, LinksMade, TarFails, Goto, store, files, proc
<1>8. CASE TarFails /\ ~UNCHANGED store
  BY <1>8, CutInv
<1>3. CASE \E d \in Dirs : MakeDir(d)
  BY <1>3, NoEntryInv DEF MakeDir, Goto
<1>4. CASE \E f \in Files : TarMisses(f)
  BY <1>4, NoEntryInv DEF TarMisses, Goto, store
<1>5. ASSUME NEW p \in Paths, Link(p) PROVE RemoteInv'
  <2>1. CASE dump' = dump
    BY <1>5, <2>1, NoEntryInv DEF Link, Goto
  <2>2. CASE p \in Files /\ Linkable(p) /\ dump' = [dump EXCEPT ![bdir][p] = dump[LastDay][p]]
    <3>1. /\ pc = "mklink" /\ p \in links /\ links' = links \ {p} /\ LastDay \in Day
          /\ UNCHANGED <<world, jnl, pc, bdir, old, last, todo, list, failed, during>>
      BY <1>5, DayFacts DEF Link, LastDay, Goto, TypeOK
    <3>2. dump[LastDay][p] \in Content /\ p \notin list
      BY <2>2, <3>1 DEF RemoteInv, OneWay, Writing, TypeOK, Dumps
    <3>3. dump[LastDay][p] \in {0, Cut} \cup during[p]
      BY <2>2, <3>1 DEF RemoteInv, LinksFresh, Writing
    <3>4. Vouches(jnl, p)' => dump[LastDay][p] \in {0, Cut, src'[p].ver}
      BY <2>2, <3>1 DEF RemoteInv, NewLinesSound, Writing, Vouches, world
    <3>5. \A g \in Files : Held(g)' \in during'[g]
      BY <3>1 DEF RemoteInv, LinksFresh, Held, TypeOK, world
    <3>6. LinesPast'
      BY <3>1 DEF RemoteInv, LinesPast, world
    <3>7. \A g \in Files : Vouches(jnl, g)' => Vouches(jnl, g) /\ src'[g] = src[g]
      BY <3>1 DEF Vouches, world
    <3>8. /\ links' \subseteq links \ {p} /\ list' \subseteq list \ {p}
          /\ UNCHANGED <<now, src, jnl, pc, bdir, old, last, todo, failed, during>>
      BY <3>1, <3>2 DEF world
    <3> QED BY <2>2, <3>1, <3>2, <3>3, <3>4, <3>5, <3>6, <3>7, <3>8, EntryInv
  <2> QED BY <1>5, <2>1, <2>2 DEF Link
<1>6. ASSUME NEW p \in Paths, TarCopy(p) PROVE RemoteInv'
  <2>1. CASE p \notin Files
    BY <1>6, <2>1, NoEntryInv DEF TarCopy, Goto
  <2>2. CASE p \in Files
    <3>1. /\ pc = "tar" /\ p \in list /\ list' = list \ {p} /\ links = {} /\ links' = {}
          /\ src[p].there /\ dump' = [dump EXCEPT ![bdir][p] = src[p].ver]
          /\ UNCHANGED <<world, jnl, pc, bdir, old, last, todo, failed, during>>
      BY <1>6, <2>2 DEF TarCopy, Goto, RemoteInv, OneWay
    <3>2. src[p].ver \in Content
      BY <2>2, ContentFacts DEF TypeOK, Source
    <3>3. \A g \in Files : Held(g)' \in during'[g]
      BY <3>1 DEF RemoteInv, LinksFresh, Held, TypeOK, world
    <3>4. src[p].ver \in during'[p]
      BY <2>2, <3>1, <3>3 DEF Held, world
    <3>5. LinesPast'
      BY <3>1 DEF RemoteInv, LinesPast, world
    <3>6. \A g \in Files : Vouches(jnl, g)' => Vouches(jnl, g) /\ src'[g] = src[g]
      BY <3>1 DEF Vouches, world
    <3> QED BY <2>2, <3>1, <3>2, <3>3, <3>4, <3>5, <3>6, EntryInv DEF world
  <2> QED BY <2>1, <2>2
<1>7. ASSUME NEW f \in Files, TarRaced(f) PROVE RemoteInv'
  <2>1. /\ pc = "tar" /\ f \in list /\ list' = list \ {f} /\ links = {} /\ links' = {}
        /\ Changed(f, TRUE) /\ dump' = [dump EXCEPT ![bdir][f] = Torn] /\ bdir # 0
        /\ UNCHANGED <<now, jnl, pc, bdir, old, last, todo, failed>>
    BY <1>7 DEF TarRaced, Goto, RemoteInv, OneWay, TypeOK
  <2>2. /\ \A g \in Files : Held(g)' \in during'[g] /\ during[g] \subseteq during'[g]
        /\ \A g \in Files : Vouches(jnl, g)' => Vouches(jnl, g) /\ src'[g] = src[g]
        /\ ~Vouches(jnl, f)'
    BY <2>1, SourceChanged DEF RemoteInv, LinksFresh, Vouches
  <2>3. LinesPast'
    BY <2>1, SourceChanged DEF RemoteInv
  <2> QED BY <2>1, <2>2, <2>3, ContentFacts, EntryInv
<1> QED
  BY <1>1, <1>2, <1>3, <1>4, <1>5, <1>6, <1>7, <1>8 DEF Pass3To5

\* A run that is over leaves nothing but the journal and the dumps.
LEMMA GoneInv == ASSUME TypeOK, TypeOK', RemoteInv, Gone PROVE RemoteInv'
<1> USE DEF RemoteInv, Writing
<1>1. /\ pc = "exit" /\ pc' = "idle" /\ failed' = "none" /\ bdir' = 0 /\ old' = NoJournal
      /\ last' = 0 /\ todo' = {} /\ dirs' = {} /\ links' = {} /\ list' = {}
      /\ UNCHANGED <<world, jnl, dump>>
  BY DEF Gone, store
<1>2. LinesPast' /\ JournalSound'
  BY <1>1, JournalsMoved, WeakerFacts DEF world
<1>3. FutureEmpty'
  BY <1>1 DEF FutureEmpty, world
<1> QED
  BY <1>1, <1>2, <1>3
     DEF RunStamps, LastJournal, EntersOnce, OneWay, NewLinesSound, LinksFresh, NotFailedYet,
         NoStaleEntry, Opened

\* No step breaks the invariant.
LEMMA RemoteNext ==
    ASSUME Careful PROVE TypeOK /\ RemoteInv /\ [Next]_vars => RemoteInv'
<1> SUFFICES ASSUME TypeOK, RemoteInv, [Next]_vars PROVE RemoteInv'
  OBVIOUS
<1>1. TypeOK'
  BY TypeNext
<1>2. CASE Tick BY <1>2, TickInv
<1>3. CASE \E f \in Files : Edit(f) BY <1>1, <1>3, EditInv
<1>4. CASE Pass1 BY <1>1, <1>4, Pass1Inv
<1>5. CASE Pass2
  BY <1>1, <1>5, QuietInv, OpenJournalInv, WalkOn, RecordInv, CloseFilesInv DEF Pass2
<1>6. CASE Pass3To5 BY <1>1, <1>6, Pass3To5Inv
<1>7. CASE Die BY <1>1, <1>7, QuietInv, CutInv
<1>8. CASE Gone BY <1>1, <1>8, GoneInv
<1>9. CASE UNCHANGED vars
  <2>0. /\ now' = now /\ src' = src /\ jnl' = jnl /\ dump' = dump /\ made' = made /\ pc' = pc
        /\ bdir' = bdir /\ old' = old /\ last' = last /\ todo' = todo /\ dirs' = dirs
        /\ links' = links /\ list' = list /\ born' = born /\ rst' = rst /\ failed' = failed
        /\ nfaults' = nfaults /\ during' = during /\ before' = before /\ silent' = silent
    BY <1>9 DEF vars, world, store, proc, files, ghost
  <2>1. LinesPast' /\ RunStamps' /\ FutureEmpty' /\ LastJournal' /\ EntersOnce' /\ OneWay'
    BY <2>0 DEF RemoteInv, LinesPast, RunStamps, FutureEmpty, LastJournal, EntersOnce, OneWay,
       Writing, LastDay
  <2>2. NewLinesSound' /\ LinksFresh' /\ NotFailedYet'
    BY <2>0 DEF RemoteInv, NewLinesSound, LinksFresh, NotFailedYet, Writing, Vouches, LastDay, Held
  <2>3. JournalSound'
    BY <2>0 DEF RemoteInv, JournalSound, Vouches
  <2>4. NoStaleEntry'
    BY <2>0 DEF RemoteInv, NoStaleEntry, Opened
  <2> QED BY <2>1, <2>2, <2>3, <2>4 DEF RemoteInv
<1> QED
  BY <1>2, <1>3, <1>4, <1>5, <1>6, <1>7, <1>8, <1>9 DEF Next

\* The inductive invariant holds in every reachable state, for any tree and clock, when
\* the two hosts' clocks agree and isDirEmpty() can open the directory.
THEOREM RemoteInvariant == ASSUME Careful PROVE Spec => []RemoteInv
  BY TypeInit, TypeNext, RemoteInit, RemoteNext, PTL DEF Spec

\* Whatever pass failed, was killed or lost its output, a copy on the server that the
\* client's journal vouches for is not stale: it is the file as it is, or the part of it that
\* was written when a PASS5 was cut short.
THEOREM RemoteJournalIsSound == ASSUME Careful PROVE Spec => []JournalSound
<1>1. RemoteInv => JournalSound
  BY DEF RemoteInv
<1> QED BY <1>1, RemoteInvariant, PTL

\* Every entry of the dump being made is a version held since the run started, or what a
\* tar left a part of.
THEOREM RemoteEntriesFresh == ASSUME Careful PROVE Spec => []NoStaleEntry
<1>1. RemoteInv => NoStaleEntry
  BY DEF RemoteInv
<1> QED BY <1>1, RemoteInvariant, PTL

----------------------------------------------------------------------------
\* The dumps behave as DumpFs says.

heldNow == [f \in Files |-> Held(f)]
dumpsNow == [d \in Day |-> [f \in Files |-> Entered(dump[d][f])]]
duringNow == [f \in Files |-> IF Opened = 0 THEN {} ELSE during[f]]

\* An entry put in a dump is put in what DumpFs sees of it, a part as a torn one.
LEMMA EnteredFacts ==
    ASSUME TypeOK
    PROVE  /\ \A d \in Day, f \in Files : dumpsNow[d][f] = 0 <=> dump[d][f] = 0
           /\ Entered(Torn) = Torn /\ Entered(Cut) = Torn /\ \A c : Entered(c) \in {c, Torn}
           /\ \A f \in Files, v \in Content :
                  bdir \in Day /\ dump' = [dump EXCEPT ![bdir][f] = v] =>
                      dumpsNow' = [dumpsNow EXCEPT ![bdir][f] = Entered(v)]
<1>1. Entered(Torn) = Torn /\ Entered(Cut) = Torn /\ \A c : Entered(c) \in {c, Torn}
  BY DEF Entered
<1>2. \A c : Entered(c) = 0 <=> c = 0
  BY ContentFacts DEF Entered
<1>3. \A d \in Day, f \in Files : dumpsNow[d][f] = Entered(dump[d][f])
  BY DEF dumpsNow
<1>4. ASSUME NEW f \in Files, NEW v \in Content, bdir \in Day, dump' = [dump EXCEPT ![bdir][f] = v]
      PROVE  dumpsNow' = [dumpsNow EXCEPT ![bdir][f] = Entered(v)]
  <2>1. /\ dump'[bdir][f] = v
        /\ \A g \in Files \ {f} : dump'[bdir][g] = dump[bdir][g]
        /\ \A d \in Day \ {bdir} : dump'[d] = dump[d]
    BY <1>4, DumpUpdate DEF TypeOK
  <2>2. \A d \in Day : (dumpsNow')[d] = [g \in Files |-> Entered(dump'[d][g])]
    BY DEF dumpsNow
  <2>3. \A d \in Day \ {bdir} : (dumpsNow')[d] = dumpsNow[d]
    BY <2>1, <2>2 DEF dumpsNow
  <2>4. (dumpsNow')[bdir] = [dumpsNow[bdir] EXCEPT ![f] = Entered(v)]
    <3>1. dumpsNow[bdir] = [g \in Files |-> Entered(dump[bdir][g])]
      BY <1>4 DEF dumpsNow
    <3>2. (dumpsNow')[bdir] = [g \in Files |-> Entered(dump'[bdir][g])]
      BY <1>4, <2>2
    <3> HIDE DEF dumpsNow
    <3> QED BY <1>4, <2>1, <3>1, <3>2
  <2>5. dumpsNow' = [d \in Day |-> (dumpsNow')[d]] /\ dumpsNow = [d \in Day |-> dumpsNow[d]]
    BY DEF dumpsNow
  <2> QED BY <1>4, <2>3, <2>4, <2>5
<1> QED BY <1>1, <1>2, <1>3, <1>4

\* A run that chkDest() lets through opens the dump of a day that has none; one that it
\* ends opens none.
LEMMA Pass1Opens ==
    ASSUME TypeOK, RemoteInv, Careful, Pass1
    PROVE  (\E d \in Day : Fs!Begin(d)) \/ UNCHANGED Fs!fsVars
<1>1. /\ Start /\ pc = "idle" /\ bdir = 0 /\ bdir' = Today /\ Opened = 0
      /\ during' = [f \in Files |-> {Held(f)}] /\ UNCHANGED <<src, dump>>
  BY DEF Pass1, ChkDest, Refuse, ChkDestFails, Start, Opened, TypeOK, world
<1>2. heldNow' = heldNow /\ \A f \in Files : heldNow[f] = Held(f)
  BY <1>1 DEF heldNow, Held
<1>3. CASE ChkDest
  <2>1. EmptyDir(Today) /\ failed' = "none" /\ Today \in Day
    BY <1>3, DayFacts DEF ChkDest, Goto, Careful, Logged, RemoteInv, NotFailedYet, Start, Today,
                          TypeOK
  <2>2. PICK d \in Day : d = Today
    BY <2>1
  <2>3. Opened' = d /\ d # 0
    BY <1>1, <2>1, <2>2, DayFacts DEF Opened
  <2>4. duringNow' = [f \in Files |-> {heldNow[f]}]
    BY <1>1, <1>2, <2>3 DEF duringNow
  <2>5. \A f \in Files : dump[d][f] = 0
    BY <2>1, <2>2 DEF EmptyDir
  <2>6. Fs!Begin(d)
    <3>1. dumpsNow' = dumpsNow /\ \A f \in Files : dumpsNow[d][f] = 0
      BY <1>1, <2>5, EnteredFacts DEF dumpsNow
    <3> QED BY <1>1, <1>2, <2>3, <2>4, <3>1 DEF Fs!Begin, heldNow, duringNow, dumpsNow
  <2> QED BY <2>6
<1>4. CASE Refuse \/ ChkDestFails
  <2>1. failed' = "dest"
    BY <1>4 DEF Refuse, ChkDestFails, Ends
  <2>2. Opened' = 0
    BY <2>1 DEF Opened
  <2>3. duringNow = [f \in Files |-> {}] /\ duringNow' = [f \in Files |-> {}]
    BY <1>1, <2>2 DEF duringNow
  <2>4. UNCHANGED <<heldNow, dump, Opened, duringNow>>
    BY <1>1, <1>2, <2>2, <2>3
  <2> QED BY <2>4, Zenon DEF Fs!fsVars, heldNow, duringNow
<1> QED BY <1>3, <1>4 DEF Pass1

\* What a change of a source file is to DumpFs.
LEMMA ChangedHeld ==
    ASSUME TypeOK, NEW f \in Files, NEW here \in BOOLEAN, Changed(f, here), UNCHANGED <<bdir, failed>>
    PROVE  \E v \in 0..MaxVer :
             /\ heldNow' = [heldNow EXCEPT ![f] = v]
             /\ duringNow' = IF Opened = 0 THEN duringNow ELSE [duringNow EXCEPT ![f] = @ \cup {v}]
<1> DEFINE v == IF here THEN src[f].ver + 1 ELSE 0
<1>1. v \in 0..MaxVer
  <2>1. src[f].ver \in 1..MaxVer /\ src[f].ver < MaxVer
    BY DEF Changed, TypeOK, Source
  <2> QED BY <2>1, BoundAssumption
<1>2. /\ src'[f] = [ver |-> src[f].ver + 1, at |-> now, there |-> here]
      /\ \A g \in Files \ {f} : src'[g] = src[g]
  BY DEF Changed, TypeOK, Source
<1>3. heldNow' = [heldNow EXCEPT ![f] = v]
  <2>1. (Held(f))' = v /\ \A g \in Files \ {f} : (Held(g))' = Held(g)
    BY <1>2 DEF Held
  <2> QED BY <2>1 DEF heldNow
<1>4. Opened' = Opened
  BY DEF Opened
<1>5. Opened = 0 => duringNow' = duringNow
  BY <1>4 DEF duringNow
<1>6. Opened # 0 => duringNow' = [duringNow EXCEPT ![f] = @ \cup {v}]
  <2> SUFFICES ASSUME Opened # 0 PROVE duringNow' = [duringNow EXCEPT ![f] = @ \cup {v}]
    OBVIOUS
  <2>1. during' = [during EXCEPT ![f] = @ \cup {v}]
    BY DEF Changed, Opened
  <2>2. during'[f] = during[f] \cup {v} /\ \A g \in Files \ {f} : during'[g] = during[g]
    BY <2>1 DEF TypeOK, Versions
  <2> QED BY <1>4, <2>2 DEF duringNow
<1> QED BY <1>1, <1>3, <1>5, <1>6

\* A file gets its entry by a link or by tar, which may leave a part of it.
LEMMA EntryPut ==
    ASSUME TypeOK, RemoteInv, NEW p \in Files,
           TarCopy(p) \/ (Link(p) /\ dump' # dump)
           \/ ((TarFails \/ Die) /\ pc = "tar" /\ p \in list /\ CutShort(p))
    PROVE  \E v \in (duringNow[p] \ {0}) \cup {Torn} : Fs!Put(p, v)
<1> USE DEF RemoteInv
<1>1. /\ pc \in {"mklink", "tar"} /\ UNCHANGED <<src, bdir, during>> /\ failed' \in {failed, "killed"}
      /\ p \in list \/ (p \in links /\ Linkable(p))
  <2>1. CASE TarCopy(p)
    BY <2>1 DEF TarCopy, Goto, world
  <2>2. CASE Link(p) /\ dump' # dump
    BY <2>2 DEF Link, Goto, world
  <2>3. CASE (TarFails \/ Die) /\ pc = "tar" /\ p \in list
    BY <2>3 DEF TarFails, Die, Goto, Ends, world, proc
  <2> QED BY <2>1, <2>2, <2>3
<1>2. /\ Opened = bdir /\ bdir \in Day /\ bdir # 0 /\ dump[bdir][p] = 0
      /\ duringNow[p] = during[p] /\ Opened' = Opened
  BY <1>1 DEF Opened, NotFailedYet, OneWay, Writing, duringNow, TypeOK
<1>3. heldNow' = heldNow /\ duringNow' = duringNow
  BY <1>1, <1>2 DEF heldNow, duringNow, Held
<1>4. ASSUME NEW v \in Content, dump' = [dump EXCEPT ![bdir][p] = v], v \in (during[p] \ {0}) \cup {Cut}
      PROVE  \E w \in (duringNow[p] \ {0}) \cup {Torn} : Fs!Put(p, w)
  <2>1. Entered(v) \in (duringNow[p] \ {0}) \cup {Torn}
    BY <1>2, <1>4, EnteredFacts
  <2>2. dumpsNow[bdir][p] = 0 /\ dumpsNow' = [dumpsNow EXCEPT ![bdir][p] = Entered(v)]
    BY <1>2, <1>4, EnteredFacts
  <2>3. Fs!Put(p, Entered(v))
    BY <1>2, <1>3, <2>1, <2>2 DEF Fs!Put, heldNow, duringNow, dumpsNow, Torn, Fs!Torn
  <2> QED BY <2>1, <2>3
<1>5. CASE Link(p) /\ dump' # dump
  <2>1. /\ pc = "mklink" /\ p \in links /\ dump[LastDay][p] # 0
        /\ dump' = [dump EXCEPT ![bdir][p] = dump[LastDay][p]]
    BY <1>5 DEF Link, Linkable
  <2>2. dump[LastDay][p] \in (during[p] \ {0}) \cup {Cut}
    BY <2>1 DEF LinksFresh, Writing
  <2>3. dump[LastDay][p] \in Content
    BY <2>1, DayFacts DEF TypeOK, LastDay, Dumps
  <2> QED BY <1>4, <2>1, <2>2, <2>3
<1>6. CASE TarCopy(p)
  <2>1. src[p].there /\ dump' = [dump EXCEPT ![bdir][p] = src[p].ver]
    BY <1>6 DEF TarCopy
  <2>2. Held(p) = src[p].ver /\ Held(p) \in during[p] /\ src[p].ver \in 1..MaxVer
    BY <1>2, <2>1 DEF LinksFresh, Held, TypeOK, Source
  <2>3. src[p].ver \in Content /\ src[p].ver # 0
    BY <2>2, ContentFacts
  <2> QED BY <1>4, <2>1, <2>2, <2>3
<1>7. CASE CutShort(p)
  BY <1>4, <1>7, ContentFacts DEF CutShort
<1> QED BY <1>5, <1>6, <1>7

\* Every other step leaves what DumpFs sees alone.
LEMMA StepHidden ==
    ASSUME TypeOK, RemoteInv,
           \/ Tick \/ Pass2 \/ DirsMade \/ LinksMade \/ PassFails \/ Finish
           \/ (UNCHANGED store /\ (TarFails \/ Die))
           \/ (\E d \in Dirs : MakeDir(d)) \/ (\E f \in Files : TarMisses(f))
           \/ (\E p \in Paths : Link(p) /\ dump' = dump) \/ TarCopy(Journal)
    PROVE  UNCHANGED <<src, dump, during, Opened>>
<1> USE DEF world, store, proc, ghost, Goto, Ends, GivesUp
<1> DEFINE Hidden == UNCHANGED <<src, dump, bdir, during>> /\ (failed' = failed \/ (pc # "exit" /\ failed' # "dest"))
<1>1. CASE Tick BY <1>1 DEF Tick, Opened
<1>2. CASE Pass2
  <2>1. Hidden
    BY <1>2, TreeAssumption
       DEF Pass2, OpenFilesFails, NoJournalYet, TakeJournal, MoveAsideFails, LoadFails, OpenJournal,
           OpenJournalFails, Record, LstatFails, EnterDir, ParentLost, WriteFails, CloseFiles,
           Restore, RestoreFails
  <2> QED BY <2>1 DEF Opened, RemoteInv, NotFailedYet
<1>3. CASE DirsMade \/ LinksMade \/ PassFails \/ Finish \/ (UNCHANGED store /\ (TarFails \/ Die))
  <2>1. Hidden
    BY <1>3 DEF DirsMade, LinksMade, PassFails, TarFails, Finish, Die
  <2> QED BY <2>1 DEF Opened, RemoteInv, NotFailedYet
<1>4. CASE \/ (\E d \in Dirs : MakeDir(d)) \/ (\E f \in Files : TarMisses(f))
           \/ (\E p \in Paths : Link(p) /\ dump' = dump) \/ TarCopy(Journal)
  BY <1>4, TreeAssumption DEF MakeDir, TarMisses, Link, TarCopy, Opened
<1> QED BY <1>1, <1>2, <1>3, <1>4

\* Every step of a remote backup is a step of DumpFs or leaves its variables alone.
LEMMA StepRefines ==
    ASSUME TypeOK, RemoteInv, Careful, [Next]_vars
    PROVE  [Fs!FsNext]_(Fs!fsVars)
<1>1. ASSUME UNCHANGED <<src, dump, during, Opened>> PROVE UNCHANGED Fs!fsVars
  BY <1>1 DEF Fs!fsVars, Held
<1>2. CASE \E f \in Files : Edit(f)
  <2>1. PICK f \in Files, here \in BOOLEAN : Changed(f, here)
    BY <1>2 DEF Edit
  <2>2. UNCHANGED <<dump, bdir, failed>>
    BY <1>2 DEF Edit, store, proc
  <2>3. UNCHANGED Opened
    BY <2>2 DEF Opened
  <2>4. \E v \in 0..MaxVer : Fs!Change(f, v)
    <3>1. dumpsNow' = dumpsNow
      BY <2>2 DEF dumpsNow
    <3> QED BY <2>1, <2>2, <2>3, <3>1, ChangedHeld DEF Fs!Change, heldNow, duringNow, dumpsNow
  <2> QED BY <2>4 DEF Fs!FsNext
<1>3. CASE \E f \in Files : TarRaced(f)
  <2>1. PICK f \in Files : TarRaced(f)
    BY <1>3
  <2>2. /\ Changed(f, TRUE) /\ bdir \in Day /\ bdir # 0 /\ dump[bdir][f] = 0 /\ UNCHANGED <<bdir, failed>>
        /\ dump' = [dump EXCEPT ![bdir][f] = Torn] /\ failed # "dest"
    BY <2>1 DEF TarRaced, Goto, TypeOK, RemoteInv, OneWay, NotFailedYet, Writing
  <2>3. Opened = bdir /\ UNCHANGED Opened
    BY <2>2 DEF Opened
  <2>4. \E v \in 0..MaxVer : Fs!ChangeAndTear(f, v)
    <3>1. dumpsNow[bdir][f] = 0 /\ dumpsNow' = [dumpsNow EXCEPT ![bdir][f] = Torn]
      <4>1. Torn \in Content /\ Entered(Torn) = Torn
        BY ContentFacts, EnteredFacts
      <4>2. dumpsNow[bdir][f] = 0
        BY <2>2, EnteredFacts
      <4>3. dumpsNow' = [dumpsNow EXCEPT ![bdir][f] = Entered(Torn)]
        BY <2>2, <4>1, EnteredFacts
      <4> QED BY <4>1, <4>2, <4>3
    <3> QED BY <2>2, <2>3, <3>1, ChangedHeld
            DEF Fs!ChangeAndTear, heldNow, duringNow, dumpsNow, Torn, Fs!Torn
  <2> QED BY <2>4 DEF Fs!FsNext
<1>4. CASE Pass1
  BY <1>4, Pass1Opens DEF Fs!FsNext
<1>5. CASE \E p \in Files : \/ TarCopy(p) \/ (Link(p) /\ dump' # dump)
                            \/ (TarFails \/ Die) /\ pc = "tar" /\ p \in list /\ CutShort(p)
  BY <1>5, EntryPut DEF Fs!FsNext, Torn, Fs!Torn, duringNow
<1>6. CASE Gone
  <2>1. /\ bdir # 0 /\ bdir' = 0 /\ Opened' = 0 /\ UNCHANGED <<src, dump>>
    BY <1>6 DEF Gone, TypeOK, Opened, world, store
  <2>2. duringNow' = [f \in Files |-> {}] /\ heldNow' = heldNow
    BY <2>1 DEF duringNow, heldNow, Held
  <2>3. CASE Opened = 0
    <3>1. duringNow' = duringNow
      BY <2>2, <2>3 DEF duringNow
    <3> QED BY <2>1, <2>2, <2>3, <3>1 DEF Fs!fsVars, duringNow, heldNow, dumpsNow
  <2>4. CASE Opened # 0
    BY <2>1, <2>2, <2>4 DEF Fs!End, Fs!FsNext, duringNow, heldNow
  <2> QED BY <2>3, <2>4
<1>7. CASE UNCHANGED vars
  BY <1>1, <1>7 DEF vars, world, store, proc, ghost, Opened
<1>8. \A p \in Paths : p \notin Files /\ Link(p) => dump' = dump
  BY DEF Link
<1>9. TarFails \/ Die =>
          \/ UNCHANGED store
          \/ \E p \in Files : pc = "tar" /\ p \in list /\ CutShort(p)
  BY DEF TarFails, Die
<1> QED
  BY <1>1, <1>2, <1>3, <1>4, <1>5, <1>6, <1>7, <1>8, <1>9, StepHidden DEF Next, Pass3To5, Paths

\* The initial state is one of DumpFs.
LEMMA InitRefines == Init => Fs!FsInit
  BY ContentFacts DEF Init, Fs!FsInit, Held, Opened, Entered

\* The server's dumps are written once, by the run of their day, with what the client held
\* at the time, for any tree and clock and whatever fails.
THEOREM RemoteWriteOnce == ASSUME Careful PROVE Spec => WriteOnceDumps
<1>1. TypeOK /\ RemoteInv /\ [Next]_vars => [Fs!FsNext]_(Fs!fsVars)
  BY StepRefines
<1> QED
  BY <1>1, RemoteTyping, RemoteInvariant, InitRefines, PTL DEF Spec, WriteOnceDumps, Fs!FsSpec

----------------------------------------------------------------------------
\* The journal of a run that gives up, for all constants.

\* The journal the run found is in place until it is set aside, and is then what the run
\* gives back, unless a fault was logged and nothing else.
Kept ==
    /\ \A j \in {jnl, old, before} : ~j.there => j = NoJournal
    /\ pc = "walk" => jnl.there
    /\ pc \in {"idle", "source"} => old = NoJournal
    /\ pc = "source" => jnl = before
    /\ pc \in {"open", "walk", "restore"} /\ ~silent => old = before

KeptInv == Kept /\ JournalPreserved

\* A journal that lost lines is a journal that is there.
LEMMA RemainsThere ==
    ASSUME NEW j \in JournalType, ~j.there => j = NoJournal, NEW k \in Remains(j), ~k.there
    PROVE  k = NoJournal
<1>1. k \in JournalType /\ j = NoJournal /\ \A p \in Paths : k.line[p] = 0
  BY RemainsFacts, Constants
<1>2. k.line = NoLines /\ k.there = FALSE
  BY <1>1 DEF JournalType, NoLines
<1> QED BY <1>1, <1>2 DEF JournalType, NoJournal

\* The steps before the walk.
LEMMA PrepareKept ==
    ASSUME TypeOK, TypeOK', KeptInv,
           \/ Pass1 \/ OpenFilesFails \/ NoJournalYet \/ TakeJournal \/ MoveAsideFails
           \/ LoadFails \/ OpenJournal \/ OpenJournalFails
    PROVE  KeptInv'
<1> USE DEF KeptInv, Kept, JournalPreserved, Goto, Ends, GivesUp, Well, Fault, Logged, world, store,
            proc, files
<1>1. CASE Pass1
  BY <1>1 DEF Pass1, ChkDest, Refuse, ChkDestFails, Start
<1>2. CASE OpenFilesFails \/ NoJournalYet \/ MoveAsideFails \/ OpenJournalFails
  BY <1>2 DEF OpenFilesFails, NoJournalYet, MoveAsideFails, OpenJournalFails
<1>3. CASE TakeJournal
  <2>1. ~old'.there => old' = NoJournal
    BY <1>3, RemainsThere DEF TakeJournal, TypeOK
  <2>2. old' = before \/ silent' = TRUE
    BY <1>3 DEF TakeJournal
  <2> QED BY <1>3, <2>1, <2>2 DEF TakeJournal
<1>4. CASE LoadFails BY <1>4 DEF LoadFails
<1>5. CASE OpenJournal
  <2>1. EmptyJournal.there
    BY DEF EmptyJournal
  <2> QED BY <1>5, <2>1 DEF OpenJournal
<1> QED BY <1>1, <1>2, <1>3, <1>4, <1>5

\* The walk and what ends it.
LEMMA WalkKept ==
    ASSUME TypeOK, TypeOK', KeptInv,
           \/ \E p \in Paths : Record(p) \/ LstatFails(p)
           \/ \E d \in Dirs : EnterDir(d) \/ ParentLost(d)
           \/ WriteFails \/ CloseFiles \/ Restore \/ RestoreFails
    PROVE  KeptInv'
<1> USE DEF KeptInv, Kept, JournalPreserved, Goto, Ends, GivesUp, Well, Fault, Logged, world, store,
            proc, files
<1>1. ASSUME NEW p \in Paths, Record(p) PROVE KeptInv'
  <2>1. jnl'.there = jnl.there
    BY <1>1 DEF Record, TypeOK, JournalType
  <2> QED BY <1>1, <2>1 DEF Record
<1>2. CASE \/ \E p \in Paths : LstatFails(p)
           \/ \E d \in Dirs : EnterDir(d) \/ ParentLost(d)
  BY <1>2 DEF LstatFails, EnterDir, ParentLost
<1>3. CASE WriteFails BY <1>3 DEF WriteFails
<1>4. CASE CloseFiles
  <2>1. ~jnl'.there => jnl' = NoJournal
    BY <1>4, RemainsThere DEF CloseFiles, ClosesWell, ClosesShort, TypeOK
  <2> QED BY <1>4, <2>1 DEF CloseFiles
<1>5. CASE Restore BY <1>5 DEF Restore
<1>6. CASE RestoreFails
  <2>1. ~jnl'.there => jnl' = NoJournal
    BY <1>6, RemainsThere DEF RestoreFails, TypeOK
  <2> QED BY <1>6, <2>1 DEF RestoreFails
<1> QED BY <1>1, <1>2, <1>3, <1>4, <1>5, <1>6

\* Everything else.
LEMMA OthersKept ==
    ASSUME TypeOK, TypeOK', KeptInv,
           \/ Tick \/ (\E f \in Files : Edit(f)) \/ Pass3To5 \/ Die \/ Gone \/ UNCHANGED vars
    PROVE  KeptInv'
<1> USE DEF KeptInv, Kept, JournalPreserved, Goto, Ends, Well, Fault, Logged, world, store, proc, files
<1>1. CASE Tick \/ (\E f \in Files : Edit(f)) \/ UNCHANGED vars
  BY <1>1 DEF Tick, Edit, vars, ghost
<1>2. CASE Pass3To5
  <2>1. /\ pc \in {"mkdir", "mklink", "tar"} /\ UNCHANGED <<jnl, old, before>>
        /\ \/ pc' \in {"mkdir", "mklink", "tar"}
           \/ pc' = "exit" /\ failed' \in {"mkdir", "mklink", "tar", "none"}
    BY <1>2 DEF Pass3To5, MakeDir, Link, TarCopy, TarMisses, TarRaced, DirsMade, LinksMade, PassFails,
                TarFails, Finish
  <2> QED BY <2>1
<1>3. CASE Die
  <2>1. ~jnl'.there => jnl' = NoJournal
    BY <1>3, RemainsThere DEF Die, TypeOK
  <2> QED BY <1>3, <2>1 DEF Die
<1>4. CASE Gone BY <1>4 DEF Gone
<1> QED BY <1>1, <1>2, <1>3, <1>4

\* A remote run that gives up before its journal is final leaves the journal it found, for
\* any tree, clocks, faults and bounds: the next run links from the dump this one could not
\* replace.
THEOREM RemoteJournalPreserved == Spec => []JournalPreserved
<1>1. Init => KeptInv
  BY DEF Init, KeptInv, Kept, JournalPreserved
<1>2. TypeOK /\ KeptInv /\ [Next]_vars => KeptInv'
  BY TypeNext, PrepareKept, WalkKept, OthersKept DEF Next, Pass2
<1>3. KeptInv => JournalPreserved
  BY DEF KeptInv
<1> QED
  BY <1>1, <1>2, <1>3, RemoteTyping, PTL DEF Spec

----------------------------------------------------------------------------
\* What a run has dumped when it is over, for failures before the journal is final.

\* Under MadeGood nothing fails once the journal is final, nobody is killed, and a journal
\* that is in the way can be unlinked.
LEMMA NoLateFault ==
    ASSUME MadeGood,
           NEW kind \in {"unlink", "close", "reply", "mkdir", "link", "pass", "tar", "torn", "crash"}
    PROVE  ~Fault(kind) /\ ~Logged(kind)
  BY DEF MadeGood, Retriable, Fault, Logged

\* A journal whose lines are lines of one that was made good is made good.
LEMMA RedeemedFacts ==
    ASSUME TypeOK, NEW j \in JournalType, NEW k \in JournalType, Redeemed(j),
           \A p \in Paths : k.line[p] \in {0, j.line[p]}
    PROVE  Redeemed(k)
<1>1. \A f \in Files : f \in Paths /\ src[f].at # 0
  BY DayFacts DEF TypeOK, Source, Paths
<1> QED BY <1>1, Constants DEF Redeemed, Vouches

\* What is left of a good journal, or of none, is good.
LEMMA RedeemedRemains ==
    ASSUME TypeOK
    PROVE  /\ Redeemed(NoJournal)
           /\ \A j \in JournalType : Redeemed(j) => \A k \in Remains(j) : Redeemed(k)
<1>1. Redeemed(NoJournal)
  BY Constants DEF Redeemed
<1>2. ASSUME NEW j \in JournalType, Redeemed(j), NEW k \in Remains(j) PROVE Redeemed(k)
  BY <1>2, RemainsFacts, RedeemedFacts
<1> QED BY <1>1, <1>2

\* The initial state satisfies the invariant.
LEMMA SnapInit == Init => SnapInv
<1> SUFFICES ASSUME Init PROVE SnapInv
  OBVIOUS
<1>1. TypeOK
  BY TypeInit
<1>2. LinesPast
  BY Constants, DayFacts DEF Init, LinesPast
<1>3. Redeemed(old) /\ Redeemed(jnl)
  BY <1>1, RedeemedRemains DEF Init
<1>4. OneDate
  BY <1>1 DEF Init, OneDate, TypeOK, Writing
<1> QED
  BY <1>1, <1>2, <1>3, <1>4
     DEF Init, SnapInv, LastJournal, EntersOnce, PassesFollow, ParentsFirst, LinksWait,
         PromisesKept, NothingLost, NotFailedYet, SnapshotComplete, Writing

\* Time passes: no midnight while a run is on.
LEMMA SnapTick == ASSUME TypeOK, SnapInv, MadeGood, Tick PROVE SnapInv'
<1> USE DEF SnapInv
<1>1. now \in Time /\ now + 1 \in Time /\ DayOf[now] <= DayOf[now + 1] /\ now' = now + 1
  BY ClockAssumption DEF Tick, TypeOK, Time
<1>2. DayOf[now] \in Nat /\ DayOf[now + 1] \in Nat /\ \A d \in Day : d \in Nat
  BY <1>1, DayFacts DEF TypeOK
<1>3. UNCHANGED <<src, jnl, dump, made, pc, bdir, old, last, todo, dirs, links, list, born, rst,
                  failed, during, silent>>
  BY DEF Tick, store, proc, files, ghost
<1>4. bdir # 0 => DayOf[now + 1] = bdir
  BY <1>1 DEF MadeGood, Tick, Time
<1>5. OneDate'
  <2>1. \A d \in Day : d > DayOf[now + 1] => d > DayOf[now]
    BY <1>1, <1>2
  <2> QED BY <1>1, <1>3, <1>4, <2>1 DEF OneDate, Writing
<1>6. LinesPast'
  <2>1. \A f \in Files : src[f].at \in Nat /\ now \in Nat
    BY DayFacts DEF TypeOK, Source
  <2> QED BY <1>1, <1>3, <2>1 DEF LinesPast
<1> QED
  BY <1>3, <1>5, <1>6
     DEF LastJournal, EntersOnce, PassesFollow, ParentsFirst, LinksWait, PromisesKept, Redeemed,
         NothingLost, FileInHand, NotFailedYet, SnapshotComplete, Writing, Vouches, LastDay, Held

\* A file changes: its lines vouch for nothing any more, and the run may dump it as it
\* was or as it is.
LEMMA SnapEdit ==
    ASSUME TypeOK, TypeOK', SnapInv, NEW f \in Files, Edit(f)
    PROVE  SnapInv'
<1> USE DEF SnapInv
<1>1. PICK here \in BOOLEAN : Changed(f, here)
  BY DEF Edit
<1>2. UNCHANGED <<now, jnl, dump, made, pc, bdir, old, last, todo, dirs, links, list, born, rst,
                  failed, silent>>
  BY DEF Edit, store, proc, files
<1>3. /\ LinesPast'
      /\ \A g \in Files : /\ Vouches(jnl, g)' => Vouches(jnl, g) /\ src'[g] = src[g]
                          /\ Vouches(old, g)' => Vouches(old, g) /\ src'[g] = src[g]
      /\ bdir # 0 => \A g \in Files : during[g] \subseteq during'[g]
      /\ (bdir # 0 /\ \A g \in Files : Held(g) \in during[g]) =>
                 \A g \in Files : (Held(g))' \in during'[g]
  BY <1>1, <1>2, SourceChanged
<1>4. pc # "idle" => bdir # 0
  BY DEF TypeOK
<1>5. PromisesKept'
  BY <1>2, <1>3 DEF PromisesKept, Redeemed, Writing, LastDay, Vouches
<1>6. LinksWait'
  BY <1>2, <1>3, <1>4 DEF LinksWait, Writing, LastDay
<1>7. NothingLost' /\ SnapshotComplete'
  BY <1>2, <1>3, <1>4 DEF NothingLost, FileInHand, SnapshotComplete, Writing
<1> QED
  BY <1>2, <1>3, <1>5, <1>6, <1>7
     DEF OneDate, LastJournal, EntersOnce, PassesFollow, ParentsFirst, NotFailedYet, Writing

\* A run starts, or ends at once.
LEMMA SnapPass1 ==
    ASSUME TypeOK, TypeOK', SnapInv, MadeGood, Pass1
    PROVE  SnapInv'
<1> USE DEF SnapInv
<1>1. Today = DayOf[now] /\ Today \in Day
  <2>1. now \in Nat /\ now + Lead = now
    BY DayFacts DEF TypeOK, MadeGood
  <2> QED BY <2>1, DayFacts DEF TypeOK, Today
<1>2. /\ Start /\ pc' \in {"source", "exit"}
      /\ pc' = "exit" => failed' = "dest"
      /\ pc' = "source" => MakesRoot /\ failed' = failed
  BY DEF Pass1, ChkDest, Refuse, ChkDestFails, Goto, Ends
<1>3. /\ pc = "idle" /\ bdir = 0 /\ bdir' = DayOf[now]
      /\ \A f \in Files : during'[f] = {Held(f)}
      /\ UNCHANGED <<world, jnl, dump, old, last, todo, files, born, rst>>
  BY <1>1, <1>2 DEF Start, TypeOK
<1>4. OneDate' /\ ParentsFirst'
  <2>1. pc' = "source" => Root \in made'[bdir']
    BY <1>1, <1>2, <1>3 DEF MakesRoot, TypeOK, Trees
  <2> QED BY <1>2, <1>3, <2>1 DEF OneDate, ParentsFirst, Writing, world
<1>5. LastJournal' /\ EntersOnce' /\ PassesFollow' /\ NothingLost' /\ NotFailedYet' /\ SnapshotComplete'
  BY <1>2, <1>3
     DEF LastJournal, EntersOnce, PassesFollow, NothingLost, NotFailedYet, SnapshotComplete, Writing, files
<1>6. LinesPast' /\ LinksWait' /\ PromisesKept'
  BY <1>2, <1>3 DEF LinesPast, LinksWait, PromisesKept, Redeemed, Vouches, Writing, Held, world
<1> QED BY <1>4, <1>5, <1>6

\* A step that changes neither the dumps nor the source, adds no line to a journal and
\* leaves the run where it does not write: before the walk, or on the way out.
LEMMA SnapOffTheWalk ==
    ASSUME TypeOK, TypeOK', SnapInv, UNCHANGED <<world, dump, made, bdir, todo, files, during>>,
           bdir # 0, pc \in {"source", "open", "walk", "restore"}, Weaker(jnl'), Weaker(old'),
           Redeemed(old)', pc' # "restore" => Redeemed(jnl)',
           \/ pc' = "exit" /\ failed' # "none"
           \/ pc' = "restore" /\ UNCHANGED failed
           \/ /\ pc' = "open" /\ pc = "source" /\ last' = old'.line[Journal]
              /\ UNCHANGED failed
    PROVE  SnapInv'
<1> USE DEF SnapInv, world
<1>1. LinesPast'
  BY LinesMoved
<1>2. OneDate' /\ LastJournal' /\ EntersOnce' /\ PassesFollow' /\ ParentsFirst'
  BY DEF OneDate, LastJournal, EntersOnce, PassesFollow, ParentsFirst, Writing, files
<1>3. LinksWait' /\ PromisesKept' /\ NothingLost' /\ NotFailedYet' /\ SnapshotComplete'
  BY DEF LinksWait, PromisesKept, NothingLost, NotFailedYet, SnapshotComplete, Writing, Held
<1> QED BY <1>1, <1>2, <1>3

\* The steps that do not walk and make no dump.
LEMMA SnapQuiet ==
    ASSUME TypeOK, TypeOK', SnapInv, MadeGood,
           \/ OpenFilesFails \/ NoJournalYet \/ TakeJournal \/ MoveAsideFails \/ LoadFails
           \/ OpenJournalFails \/ WriteFails \/ Restore \/ RestoreFails
    PROVE  SnapInv'
<1>1. pc \notin {"idle", "exit"} => bdir # 0
  BY DEF TypeOK
<1>2. /\ Redeemed(NoJournal) /\ Redeemed(old)
      /\ \A k \in Remains(old) : Redeemed(k)
      /\ pc \in {"source", "open"} => Redeemed(jnl) /\ \A k \in Remains(jnl) : Redeemed(k)
  BY RedeemedRemains DEF SnapInv, PromisesKept, TypeOK
<1> USE <1>1, WeakerFacts, SnapOffTheWalk DEF Goto, Ends, GivesUp, store, proc
<1>3. CASE OpenFilesFails BY <1>2, <1>3 DEF OpenFilesFails, Redeemed, Vouches, world
<1>4. CASE NoJournalYet
  <2>1. last = old.line[Journal]
    BY <1>4, Constants DEF NoJournalYet, SnapInv, LastJournal
  <2> QED BY <1>2, <1>4, <2>1 DEF NoJournalYet, Redeemed, Vouches, world
<1>5. CASE TakeJournal
  <2>1. /\ Weaker(jnl') /\ Weaker(old')
        /\ jnl' = NoJournal /\ old' \in {jnl} \cup Remains(jnl)
        /\ UNCHANGED <<world, dump>>
    BY <1>5 DEF TakeJournal
  <2>2. Redeemed(jnl)' /\ Redeemed(old)'
    <3>1. Redeemed(jnl') /\ Redeemed(old')
      BY <1>2, <1>5, <2>1 DEF TakeJournal
    <3> QED BY <2>1, <3>1 DEF Redeemed, Vouches, world
  <2> QED BY <1>5, <2>1, <2>2 DEF TakeJournal
<1>6. CASE MoveAsideFails
  <2>1. UNCHANGED <<world, dump, old>>
    BY <1>6 DEF MoveAsideFails
  <2>2. Redeemed(old)' /\ Redeemed(jnl)'
    <3>1. Redeemed(old) /\ Redeemed(jnl) /\ jnl' = jnl
      BY <1>2, <1>6 DEF MoveAsideFails
    <3> QED BY <2>1, <3>1 DEF Redeemed, Vouches, world
  <2>3. /\ pc = "source" /\ pc' = "exit" /\ failed' # "none" /\ Weaker(jnl') /\ Weaker(old')
        /\ UNCHANGED <<world, dump, made, bdir, todo, files, during>>
    BY <1>6 DEF MoveAsideFails
  <2> QED BY <2>2, <2>3
<1>7. CASE LoadFails BY <1>2, <1>7 DEF LoadFails, Redeemed, Vouches, world
<1>8. CASE OpenJournalFails BY <1>2, <1>8 DEF OpenJournalFails, Redeemed, Vouches, world
<1>9. CASE WriteFails BY <1>2, <1>9 DEF WriteFails, Redeemed, Vouches, world
<1>10. CASE Restore BY <1>2, <1>10 DEF Restore, Redeemed, Vouches, world
<1>11. CASE RestoreFails
  <2>1. jnl' \in {NoJournal} \cup Remains(old) /\ Weaker(jnl') /\ UNCHANGED <<world, dump, old>>
    BY <1>11, NoLateFault DEF RestoreFails
  <2>2. Redeemed(jnl)' /\ Redeemed(old)'
    BY <1>2, <2>1 DEF Redeemed, Vouches, world
  <2> QED BY <1>11, <2>1, <2>2, NoLateFault DEF RestoreFails
<1> QED
  BY <1>3, <1>4, <1>5, <1>6, <1>7, <1>8, <1>9, <1>10, <1>11

\* The walk begins with an empty journal and with the entries of the source.
LEMMA SnapOpenJournal == ASSUME TypeOK, TypeOK', SnapInv, OpenJournal PROVE SnapInv'
<1> USE DEF SnapInv, Writing
<1>1. /\ pc = "open" /\ pc' = "walk" /\ jnl' = EmptyJournal /\ born' = now
      /\ todo' \subseteq Entries(Root) /\ (todo' = Entries(Root) \/ silent' = TRUE) /\ bdir # 0
      /\ UNCHANGED <<world, dump, made, bdir, old, last, dirs, links, list, failed, during>>
  BY DEF OpenJournal, Goto, store, files, TypeOK, Logged
<1>2. /\ jnl'.line[Journal] = 0 /\ now # 0 /\ DayOf[now] = bdir
      /\ \A f \in Files : jnl'.line[f] = 0 /\ src[f].at # 0
  BY <1>1, Constants, DayFacts DEF TypeOK, Source, OneDate
<1>3. links = {} /\ list = {} /\ dirs = {}
  BY <1>1 DEF EntersOnce
<1>4. LinesPast' /\ LastJournal' /\ NotFailedYet' /\ SnapshotComplete'
  BY <1>1, LinesMoved, WeakerFacts DEF LastJournal, NotFailedYet, SnapshotComplete, world
<1>5. OneDate'
  BY <1>1, <1>2 DEF OneDate, world
<1>6. EntersOnce'
  BY <1>1, <1>2, <1>3, TreeAssumption DEF EntersOnce, Entries, Nodes, Folder
<1>7. PassesFollow' /\ ParentsFirst' /\ LinksWait'
  BY <1>1, <1>2, <1>3 DEF PassesFollow, ParentsFirst, LinksWait, Held, world
<1>8. PromisesKept'
  BY <1>1, <1>2 DEF PromisesKept, Redeemed, Vouches, world
<1>9. NothingLost'
  BY <1>1, <1>3 DEF NothingLost, FileInHand, Entries, Nodes
<1> QED BY <1>4, <1>5, <1>6, <1>7, <1>8, <1>9

\* The walk goes on: what it passes over is not there, what it enters is seen through.
LEMMA SnapWalkOn ==
    ASSUME TypeOK, TypeOK', SnapInv,
           \/ \E p \in Paths : LstatFails(p)
           \/ \E d \in Dirs : EnterDir(d) \/ ParentLost(d)
    PROVE  SnapInv'
<1> USE DEF SnapInv, Writing
<1>1. /\ pc = "walk" /\ pc' = "walk" /\ bdir # 0
      /\ UNCHANGED <<world, jnl, dump, made, bdir, old, last, links, list, born, rst, failed, during>>
  BY DEF LstatFails, EnterDir, ParentLost, Goto, store, files, TypeOK
<1>2. /\ EntersOnce'
      /\ \A f \in Files \cap todo' : f \in todo \/ (f \notin links \cup list /\ jnl.line[f] = 0)
  BY WalkEnters
<1>3. LinesPast' /\ LastJournal' /\ OneDate' /\ LinksWait' /\ PromisesKept' /\ NotFailedYet'
      /\ SnapshotComplete'
  BY <1>1 DEF LinesPast, LastJournal, OneDate, LinksWait, PromisesKept, Redeemed, NotFailedYet,
              SnapshotComplete, Vouches, LastDay, Held, world
<1>4. PassesFollow'
  BY <1>1, <1>2 DEF PassesFollow
<1>5. \/ dirs' = dirs
      \/ \E d \in Dirs \cap todo : dirs' = dirs \cup {d}
  BY DEF LstatFails, EnterDir, ParentLost, files
<1>6. ParentsFirst'
  <2>1. \A d \in Dirs \cap todo : Parent[d] \in dirs \cup {Root}
    BY <1>1 DEF EntersOnce, Nodes
  <2> QED BY <1>1, <1>5, <2>1 DEF ParentsFirst
<1>7. NothingLost'
  <2> SUFFICES ASSUME ~silent', rst PROVE NothingLost'
    BY <1>1 DEF NothingLost
  <2>1. ~silent
    BY DEF LstatFails, EnterDir, ParentLost, Well, Logged
  <2>2. \A f \in Files : Parent[f] \in dirs \cup {Root} => FileInHand(f)
    BY <1>1, <2>1 DEF NothingLost
  <2>3. \A d \in Dirs : Parent[d] \in dirs \cup {Root} => d \in todo \cup dirs
    BY <1>1, <2>1 DEF NothingLost
  <2>4. CASE \E p \in Paths : LstatFails(p)
    <3>1. PICK p \in Paths : LstatFails(p)
      BY <2>4
    <3>2. p \in Files /\ ~src[p].there /\ todo' = todo \ {p} /\ dirs' = dirs
      BY <3>1 DEF LstatFails, Logged, files
    <3>3. 0 \in during[p]
      BY <1>1, <3>2 DEF LinksWait, Held
    <3>4. \A f \in Files : Parent[f] \in dirs \cup {Root} => FileInHand(f)'
      BY <1>1, <2>2, <3>2, <3>3 DEF FileInHand
    <3>5. \A d \in Dirs : Parent[d] \in dirs \cup {Root} => d \in todo' \cup dirs
      BY <2>3, <3>2, TreeAssumption
    <3> QED BY <1>1, <3>2, <3>4, <3>5 DEF NothingLost
  <2>5. CASE \E d \in Dirs : EnterDir(d) \/ ParentLost(d)
    <3>1. PICK d \in Dirs : EnterDir(d)
      BY <2>5 DEF ParentLost, Logged
    <3>2. dirs' = dirs \cup {d} /\ todo' = (todo \ {d}) \cup Entries(d)
      BY <3>1 DEF EnterDir, Logged
    <3>3. \A e \in Nodes : Parent[e] = d => e \in todo'
      BY <3>2 DEF Entries
    <3>4. ASSUME NEW f \in Files, Parent[f] \in dirs' \cup {Root} PROVE FileInHand(f)'
      <4>1. CASE Parent[f] = d
        BY <3>3, <4>1 DEF FileInHand, Nodes
      <4>2. CASE Parent[f] # d
        <5>1. FileInHand(f) /\ f # d
          BY <2>2, <3>2, <3>4, <4>2, TreeAssumption
        <5> QED BY <1>1, <3>2, <5>1 DEF FileInHand
      <4> QED BY <4>1, <4>2
    <3>5. ASSUME NEW e \in Dirs, Parent[e] \in dirs' \cup {Root} PROVE e \in todo' \cup dirs'
      BY <2>3, <3>2, <3>3, <3>5 DEF Nodes
    <3> QED BY <1>1, <3>4, <3>5 DEF NothingLost
  <2> QED BY <2>4, <2>5
<1> QED BY <1>2, <1>3, <1>4, <1>6, <1>7

\* The walk records an entry: in links- if the last dump has it as it is, else in tar-.
LEMMA SnapRecord ==
    ASSUME TypeOK, TypeOK', SnapInv, NEW p \in Paths, Record(p)
    PROVE  SnapInv'
<1> USE DEF SnapInv, Writing
<1>1. born # 0
  BY DEF Record, OneDate
<1>2. /\ pc = "walk" /\ pc' = "walk" /\ p \in todo /\ todo' = todo \ {p} /\ bdir # 0
      /\ UNCHANGED <<world, dump, made, bdir, old, last, dirs, born, rst, failed, during, silent>>
  BY DEF Record, Goto, store, Well, TypeOK
<1>3. PICK at \in Time :
         /\ p \in Files => src[p].there /\ at = src[p].at
         /\ p = Journal => born <= at /\ at <= now
         /\ IF Unchanged(p, at)
            THEN links' = links \cup {p} /\ UNCHANGED list
            ELSE list' = list \cup {p} /\ UNCHANGED links
         /\ jnl'.line[p] = at
         /\ \A q \in Paths \ {p} : jnl'.line[q] = jnl.line[q]
         /\ LinesPast' /\ EntersOnce'
         /\ p \in Nodes => Parent[p] \in dirs \cup {Root}
  BY <1>1, RecordFacts
<1>4. LastJournal' /\ NotFailedYet' /\ SnapshotComplete'
  BY <1>2 DEF LastJournal, NotFailedYet, SnapshotComplete
<1>5. OneDate'
  <2>1. ASSUME p = Journal PROVE DayOf[at] = bdir
    <3>1. born \in Time /\ now \in Time /\ at \in Time /\ DayOf[born] = bdir /\ DayOf[now] = bdir
      BY <1>1, <1>2, DayFacts DEF OneDate, TypeOK
    <3>2. DayOf[born] <= DayOf[at] /\ DayOf[at] <= DayOf[now] /\ DayOf[at] \in Nat /\ bdir \in Nat
      BY <1>3, <2>1, <3>1, ClockAssumption, DayFacts
    <3> QED BY <3>1, <3>2
  <2>2. jnl'.line[Journal] # 0 => DayOf[jnl'.line[Journal]] = bdir
    BY <1>2, <1>3, <2>1, Constants DEF OneDate
  <2> QED BY <1>2, <2>2 DEF OneDate, world
<1>6. p \in Files /\ Unchanged(p, at) =>
          /\ dump[LastDay][p] = src[p].ver /\ src[p].ver \in during[p] \ {0}
          /\ dump[bdir][p] \in {0, src[p].ver}
  <2> SUFFICES ASSUME p \in Files, Unchanged(p, at)
               PROVE  /\ dump[LastDay][p] = src[p].ver /\ src[p].ver \in during[p] \ {0}
                      /\ dump[bdir][p] \in {0, src[p].ver}
    OBVIOUS
  <2>1. last # 0 /\ last = old.line[Journal] /\ Vouches(old, p)
    BY <1>2, <1>3 DEF Unchanged, LastJournal, Vouches
  <2>2. dump[LastDay][p] = src[p].ver /\ \A d \in Day : d > LastDay => dump[d][p] = 0
    BY <2>1 DEF PromisesKept, Redeemed, LastDay
  <2>3. src[p].ver \in during[p] \ {0}
    BY <1>2, <1>3 DEF LinksWait, Held, TypeOK, Source
  <2>4. bdir \in Nat /\ LastDay \in Nat /\ bdir \in Day /\ LastDay \in Day /\ DayOf[now] = bdir
    BY <1>2, <2>1, DayFacts DEF TypeOK, LastDay, OneDate
  <2>5. ~(LastDay > bdir)
    BY <2>2, <2>3, <2>4 DEF OneDate
  <2>6. bdir > LastDay \/ bdir = LastDay
    BY <2>4, <2>5
  <2> QED BY <2>2, <2>3, <2>4, <2>6
<1>7. \A f \in Files \cap links' : f \in links \/ (f = p /\ Unchanged(p, at))
  BY <1>3
<1>8. ParentsFirst' /\ LinksWait'
  BY <1>2, <1>3, <1>6, <1>7 DEF ParentsFirst, LinksWait, LastDay, Held, Nodes, world
<1>9. PassesFollow'
  BY <1>2, <1>3 DEF PassesFollow, Paths
<1>10. PromisesKept'
  <2>1. ASSUME NEW f \in Files, Vouches(jnl, f)'
        PROVE  \/ f \in list'
               \/ f \in links' /\ dump[LastDay][f] = src[f].ver
               \/ f \notin links' /\ dump[bdir][f] = src[f].ver
    <3>1. CASE f = p
      BY <1>3, <1>6, <3>1
    <3>2. CASE f # p
      <4>1. Vouches(jnl, f)
        BY <1>2, <1>3, <2>1, <3>2 DEF Vouches, Paths, world
      <4>2. (f \in links' <=> f \in links) /\ (f \in list' <=> f \in list)
        BY <1>3, <3>2
      <4> QED BY <1>2, <4>1, <4>2 DEF PromisesKept
    <3> QED BY <3>1, <3>2
  <2>2. Redeemed(old)'
    BY <1>2 DEF PromisesKept, Redeemed, Vouches, world
  <2> QED BY <1>2, <2>1, <2>2 DEF PromisesKept, LastDay, world
<1>11. NothingLost'
  <2>1. p \notin Dirs /\ p \in links' \cup list' /\ links \subseteq links' /\ list \subseteq list'
    BY <1>3, TreeAssumption DEF Paths, Folder
  <2> QED BY <1>2, <2>1 DEF NothingLost, FileInHand
<1> QED BY <1>3, <1>4, <1>5, <1>8, <1>9, <1>10, <1>11

\* The walk is over: a walk that was told of no failure has entered every directory.
LEMMA SnapCloseFiles ==
    ASSUME TypeOK, TypeOK', SnapInv, MadeGood, CloseFiles
    PROVE  SnapInv'
<1> USE DEF SnapInv, Writing
<1>1. /\ pc = "walk" /\ pc' = "mkdir" /\ todo = {} /\ bdir # 0
      /\ old' = IF last # 0 THEN NoJournal ELSE old
      /\ UNCHANGED <<world, jnl, dump, made, bdir, last, todo, dirs, links, list, born, rst, failed,
                     during, silent>>
  BY NoLateFault DEF CloseFiles, ClosesWell, Goto, files, store, Well, TypeOK
<1>2. LinesPast'
  BY <1>1, LinesMoved, WeakerFacts DEF world
<1>3. LastJournal' /\ EntersOnce' /\ NotFailedYet' /\ SnapshotComplete'
  BY <1>1, Constants DEF LastJournal, EntersOnce, NotFailedYet, SnapshotComplete
<1>4. OneDate' /\ PassesFollow' /\ ParentsFirst' /\ LinksWait'
  BY <1>1 DEF OneDate, PassesFollow, ParentsFirst, LinksWait, LastDay, Held, world
<1>5. PromisesKept'
  <2>1. Redeemed(old)'
    BY <1>1, Constants DEF PromisesKept, Redeemed, Vouches, world
  <2> QED BY <1>1, <2>1 DEF PromisesKept, Vouches, LastDay, world
<1>6. NothingLost'
  <2> SUFFICES ASSUME ~silent, rst, NEW f \in Files PROVE FileInHand(f)
    BY <1>1 DEF NothingLost, FileInHand
  <2> DEFINE S == dirs \cup {Root}
  <2>1. \A d \in Dirs : Parent[d] \in S => d \in S
    BY <1>1 DEF NothingLost
  <2>2. S \in SUBSET Folder
    BY DEF TypeOK, Folder
  <2>3. S = Folder
    BY <2>1, <2>2, ReachAssumption
  <2>4. Parent[f] \in S
    BY <2>3, TreeAssumption DEF Nodes
  <2> QED BY <1>1, <2>4 DEF NothingLost
<1> QED BY <1>2, <1>3, <1>4, <1>5, <1>6

\* A directory is made, in its parent; or a pass is over.
LEMMA SnapMakeDirs ==
    ASSUME TypeOK, TypeOK', SnapInv, MadeGood,
           (\E d \in Dirs : MakeDir(d)) \/ DirsMade \/ LinksMade
    PROVE  SnapInv'
<1> USE DEF SnapInv, Writing
<1>1. /\ pc \in {"mkdir", "mklink"} /\ pc' \in {"mkdir", "mklink", "tar"} /\ bdir \in Day /\ bdir # 0
      /\ pc' # "mkdir" => dirs' = {}
      /\ pc' = "tar" => links = {}
      /\ UNCHANGED <<world, jnl, dump, bdir, old, last, todo, links, list, born, rst, failed, during,
                     silent>>
  BY NoLateFault DEF MakeDir, DirsMade, LinksMade, Goto, Well, store, files, proc, PassesFollow, TypeOK
<1>2. ParentsFirst'
  <2>1. CASE \E d \in Dirs : MakeDir(d)
    <3>1. PICK d \in Dirs : MakeDir(d)
      BY <2>1
    <3>2. /\ pc = "mkdir" /\ d \in dirs /\ Parent[d] \notin dirs /\ dirs' = dirs \ {d}
          /\ made' = IF Parent[d] \in made[bdir] THEN [made EXCEPT ![bdir] = @ \cup {d}] ELSE made
      BY <3>1, NoLateFault DEF MakeDir
    <3>3. Parent[d] \in made[bdir]
      BY <1>1, <3>2 DEF ParentsFirst, Nodes
    <3>4. made'[bdir] = made[bdir] \cup {d}
      BY <1>1, <3>2, <3>3 DEF TypeOK, Trees
    <3> QED BY <1>1, <3>2, <3>4 DEF ParentsFirst
  <2>2. CASE DirsMade \/ LinksMade
    BY <1>1, <2>2 DEF DirsMade, LinksMade, store, files, proc, ParentsFirst
  <2> QED BY <2>1, <2>2
<1>3. LinesPast' /\ LastJournal' /\ EntersOnce' /\ OneDate' /\ PassesFollow' /\ NotFailedYet'
  BY <1>1 DEF LinesPast, LastJournal, EntersOnce, OneDate, PassesFollow, NotFailedYet, world
<1>4. LinksWait' /\ PromisesKept' /\ NothingLost' /\ SnapshotComplete'
  BY <1>1 DEF LinksWait, PromisesKept, Redeemed, NothingLost, FileInHand, SnapshotComplete, Vouches,
              LastDay, Held, world
<1> QED BY <1>2, <1>3, <1>4

\* A file is linked from the last dump, if its link from a run before is not there already.
LEMMA SnapLink ==
    ASSUME TypeOK, TypeOK', SnapInv, MadeGood, NEW p \in Paths, Link(p)
    PROVE  SnapInv'
<1> USE DEF SnapInv, Writing
<1>1. /\ pc = "mklink" /\ pc' = "mklink" /\ p \in links /\ links' = links \ {p}
      /\ bdir \in Day /\ bdir # 0 /\ dirs = {} /\ old.line[Journal] = 0 /\ LastDay \in Day
      /\ dump' = IF p \in Files /\ Linkable(p)
                 THEN [dump EXCEPT ![bdir][p] = dump[LastDay][p]] ELSE dump
      /\ UNCHANGED <<world, jnl, made, bdir, old, last, todo, dirs, list, born, rst, failed, during,
                     silent>>
  BY NoLateFault, DayFacts DEF Link, Goto, Well, PassesFollow, LastJournal, LastDay, TypeOK
<1>2. p \in Files => /\ dump[LastDay][p] \in during[p] \ {0} /\ dump'[bdir][p] = dump[LastDay][p]
                     /\ p \notin list /\ dump[LastDay][p] \in Content
  <2> SUFFICES ASSUME p \in Files
               PROVE  /\ dump[LastDay][p] \in during[p] \ {0} /\ dump'[bdir][p] = dump[LastDay][p]
                      /\ p \notin list /\ dump[LastDay][p] \in Content
    OBVIOUS
  <2>1. /\ dump[LastDay][p] \in during[p] \ {0}
        /\ dump[bdir][p] \in {0, dump[LastDay][p]}
        /\ p \notin list
    BY <1>1 DEF LinksWait, PassesFollow
  <2>2. dump[LastDay][p] \in Content
    BY <1>1 DEF TypeOK, Dumps
  <2>3. Parent[p] \in made[bdir]
    BY <1>1 DEF ParentsFirst, Nodes
  <2>4. Linkable(p) \/ dump[bdir][p] = dump[LastDay][p]
    BY <2>1, <2>3 DEF Linkable
  <2>5. dump'[bdir][p] = dump[LastDay][p]
    BY <1>1, <2>1, <2>2, <2>4, DumpUpdate DEF Linkable, TypeOK
  <2> QED BY <2>1, <2>2, <2>5
<1>3. /\ \A f \in Files \ {p} : \A d \in Day : dump'[d][f] = dump[d][f]
      /\ \A d \in Day \ {bdir} : \A f \in Files : dump'[d][f] = dump[d][f]
  BY <1>1, <1>2, DumpUpdate DEF TypeOK
<1>4. LinesPast' /\ LastJournal' /\ EntersOnce' /\ PassesFollow' /\ ParentsFirst' /\ NotFailedYet'
      /\ SnapshotComplete'
  BY <1>1 DEF LinesPast, LastJournal, EntersOnce, PassesFollow, ParentsFirst, NotFailedYet,
              SnapshotComplete, world
<1>5. OneDate'
  <2>1. DayOf[now] = bdir /\ bdir \in Nat
    BY <1>1, DayFacts DEF OneDate
  <2> QED BY <1>1, <1>3, <2>1 DEF OneDate, world
<1>6. LinksWait'
  BY <1>1, <1>2, <1>3 DEF LinksWait, LastDay, Held, world
<1>7. PromisesKept'
  <2>1. Redeemed(old)'
    BY <1>1 DEF Redeemed
  <2>2. ASSUME NEW f \in Files, Vouches(jnl, f)'
        PROVE  \/ f \in list
               \/ f \in links' /\ dump'[LastDay][f] = src[f].ver
               \/ f \notin links' /\ dump'[bdir][f] = src[f].ver
    <3>1. Vouches(jnl, f)
      BY <1>1, <2>2 DEF Vouches, world
    <3>2. CASE f = p
      BY <1>1, <1>2, <3>1, <3>2 DEF PromisesKept
    <3>3. CASE f # p
      BY <1>1, <1>3, <3>1, <3>3 DEF PromisesKept
    <3> QED BY <3>2, <3>3
  <2> QED BY <1>1, <2>1, <2>2 DEF PromisesKept, LastDay, world
<1>8. NothingLost'
  <2>1. ASSUME NEW f \in Files, FileInHand(f) PROVE FileInHand(f)'
    BY <1>1, <1>2, <1>3, <2>1 DEF FileInHand
  <2> QED BY <1>1, <2>1 DEF NothingLost
<1> QED BY <1>4, <1>5, <1>6, <1>7, <1>8

\* A file of tar- comes over, in the version of now, or it does not and rst says so.
LEMMA SnapTar ==
    ASSUME TypeOK, TypeOK', SnapInv,
           \/ \E p \in Paths : TarCopy(p)
           \/ \E f \in Files : TarMisses(f) \/ TarRaced(f)
    PROVE  SnapInv'
<1> USE DEF SnapInv, Writing
<1>1. /\ pc = "tar" /\ pc' = "tar" /\ bdir \in Day /\ bdir # 0 /\ old.line[Journal] = 0
      /\ links = {} /\ dirs = {} /\ todo = {} /\ list' \subseteq list
      /\ UNCHANGED <<now, jnl, bdir, old, last, todo, dirs, links, born, failed, silent>>
  BY DEF TarCopy, TarMisses, TarRaced, Goto, Well, world, PassesFollow, LastJournal, TypeOK
<1>2. Root \in made'[bdir]
  <2>1. Root \in made[bdir]
    BY <1>1 DEF ParentsFirst
  <2>2. made[bdir] \subseteq made'[bdir]
    <3>1. CASE made' = made BY <3>1
    <3>2. ASSUME NEW n, made' = [made EXCEPT ![bdir] = @ \cup {n}]
          PROVE  made[bdir] \subseteq made'[bdir]
      BY <1>1, <3>2 DEF TypeOK, Trees
    <3>3. CASE \E p \in Paths : TarCopy(p)
      <4>1. PICK n : made' = [made EXCEPT ![bdir] = @ \cup {n}]
        BY <3>3 DEF TarCopy
      <4> QED BY <3>2, <4>1
    <3>4. CASE \E f \in Files : TarMisses(f)
      BY <3>1, <3>4 DEF TarMisses, store
    <3>5. CASE \E f \in Files : TarRaced(f)
      <4>1. PICK n : made' = [made EXCEPT ![bdir] = @ \cup {n}]
        BY <3>5 DEF TarRaced
      <4> QED BY <3>2, <4>1
    <3> QED BY <3>3, <3>4, <3>5
  <2> QED BY <2>1, <2>2
<1>3. LastJournal' /\ EntersOnce' /\ PassesFollow' /\ ParentsFirst' /\ NotFailedYet' /\ SnapshotComplete'
  BY <1>1, <1>2 DEF LastJournal, EntersOnce, PassesFollow, ParentsFirst, NotFailedYet, SnapshotComplete
<1>4. Redeemed(old)' /\ DayOf[now] = bdir /\ bdir \in Nat
  BY <1>1, DayFacts DEF Redeemed, OneDate
<1>5. ASSUME NEW p \in Paths, TarCopy(p) PROVE SnapInv'
  <2>1. /\ list' = list \ {p}
        /\ p \in Files => src[p].there
        /\ dump' = IF p \in Files THEN [dump EXCEPT ![bdir][p] = src[p].ver] ELSE dump
        /\ UNCHANGED <<src, during, rst>>
    BY <1>5 DEF TarCopy, world
  <2>2. p \in Files => src[p].ver \in during[p] /\ src[p].ver \in Content
    BY <1>1, <2>1, ContentFacts DEF LinksWait, Held, TypeOK, Source
  <2>3. /\ p \in Files => dump'[bdir][p] = src[p].ver
        /\ \A f \in Files \ {p} : \A d \in Day : dump'[d][f] = dump[d][f]
        /\ \A d \in Day \ {bdir} : \A f \in Files : dump'[d][f] = dump[d][f]
    BY <1>1, <2>1, <2>2, DumpUpdate DEF TypeOK
  <2>4. LinesPast' /\ LinksWait'
    BY <1>1, <2>1 DEF LinesPast, LinksWait, Held
  <2>5. OneDate'
    BY <1>1, <1>4, <2>3 DEF OneDate
  <2>6. PromisesKept'
    <3>1. ASSUME NEW f \in Files, Vouches(jnl, f)' PROVE f \in list' \/ dump'[bdir][f] = src[f].ver
      <4>1. f \in list \/ dump[bdir][f] = src[f].ver
        BY <1>1, <2>1, <3>1 DEF PromisesKept, Vouches
      <4> QED BY <1>1, <2>1, <2>3, <4>1
    <3> QED BY <1>1, <1>4, <2>1, <3>1 DEF PromisesKept
  <2>7. NothingLost'
    <3>1. ASSUME NEW f \in Files, FileInHand(f) PROVE FileInHand(f)'
      BY <1>1, <2>1, <2>2, <2>3, <3>1 DEF FileInHand
    <3> QED BY <1>1, <2>1, <3>1 DEF NothingLost
  <2> QED BY <1>3, <2>4, <2>5, <2>6, <2>7
<1>6. ASSUME NEW f \in Files, TarMisses(f) PROVE SnapInv'
  <2>1. list' = list \ {f} /\ ~src[f].there /\ rst' = FALSE /\ UNCHANGED <<src, dump, during>>
    BY <1>6 DEF TarMisses, world, store
  <2>2. LinesPast' /\ LinksWait' /\ OneDate' /\ NothingLost'
    BY <1>1, <2>1 DEF LinesPast, LinksWait, OneDate, NothingLost, Held
  <2>3. PromisesKept'
    BY <1>1, <1>4, <2>1 DEF PromisesKept, Vouches
  <2> QED BY <1>3, <2>2, <2>3
<1>7. ASSUME NEW f \in Files, TarRaced(f) PROVE SnapInv'
  <2>1. /\ list' = list \ {f} /\ Changed(f, TRUE) /\ rst' = FALSE
        /\ dump' = [dump EXCEPT ![bdir][f] = Torn]
    BY <1>7 DEF TarRaced
  <2>2. /\ \A g \in Files \ {f} : \A d \in Day : dump'[d][g] = dump[d][g]
        /\ \A d \in Day \ {bdir} : \A g \in Files : dump'[d][g] = dump[d][g]
    BY <1>1, <2>1, ContentFacts, DumpUpdate DEF TypeOK
  <2>3. /\ LinesPast'
        /\ \A g \in Files : Vouches(jnl, g)' => g # f /\ Vouches(jnl, g) /\ src'[g] = src[g]
        /\ (\A g \in Files : Held(g) \in during[g]) => \A g \in Files : (Held(g))' \in during'[g]
    BY <1>1, <2>1, SourceChanged
  <2>4. LinksWait' /\ OneDate' /\ NothingLost'
    BY <1>1, <1>4, <2>1, <2>2, <2>3 DEF LinksWait, OneDate, NothingLost
  <2>5. PromisesKept'
    BY <1>1, <1>4, <2>1, <2>2, <2>3 DEF PromisesKept
  <2> QED BY <1>3, <2>3, <2>4, <2>5
<1> QED BY <1>5, <1>6, <1>7

\* The passes are over: the journal is made good, and nothing was left in a list.
LEMMA SnapFinish == ASSUME TypeOK, TypeOK', SnapInv, Finish PROVE SnapInv'
<1> USE DEF SnapInv, Writing
<1>1. /\ pc = "tar" /\ pc' = "exit" /\ list = {} /\ links = {} /\ todo = {} /\ bdir # 0
      /\ failed' = "none" => rst
      /\ UNCHANGED <<world, jnl, dump, made, bdir, old, last, todo, dirs, links, list, born, rst,
                     during, silent>>
  BY DEF Finish, Ends, Well, store, files, proc, PassesFollow, TypeOK
<1>2. \A f \in Files : Vouches(jnl, f) => dump[bdir][f] = src[f].ver
  BY <1>1 DEF PromisesKept
<1>3. Redeemed(jnl)
  BY <1>1, <1>2 DEF Redeemed, OneDate
<1>4. PromisesKept'
  BY <1>1, <1>3 DEF PromisesKept, Redeemed, Vouches, world
<1>5. SnapshotComplete'
  BY <1>1 DEF SnapshotComplete, NothingLost, FileInHand
<1>6. LinesPast' /\ LastJournal' /\ EntersOnce' /\ OneDate' /\ PassesFollow' /\ ParentsFirst'
      /\ LinksWait' /\ NothingLost' /\ NotFailedYet'
  BY <1>1 DEF LinesPast, LastJournal, EntersOnce, OneDate, PassesFollow, ParentsFirst, LinksWait,
              NothingLost, NotFailedYet, Held, world
<1> QED BY <1>4, <1>5, <1>6

\* A run that is over leaves nothing but the journal and the dumps.
LEMMA SnapGone == ASSUME TypeOK, TypeOK', SnapInv, Gone PROVE SnapInv'
<1> USE DEF SnapInv, Writing
<1>1. /\ pc = "exit" /\ pc' = "idle" /\ failed' = "none" /\ bdir' = 0 /\ old' = NoJournal
      /\ last' = 0 /\ todo' = {} /\ dirs' = {} /\ links' = {} /\ list' = {}
      /\ UNCHANGED <<world, jnl, dump>>
  BY DEF Gone, store
<1>2. LinesPast'
  BY <1>1, LinesMoved, WeakerFacts DEF world
<1>3. PromisesKept'
  BY <1>1, Constants DEF PromisesKept, Redeemed, Vouches, world
<1>4. OneDate'
  BY <1>1 DEF OneDate, world
<1> QED
  BY <1>1, <1>2, <1>3, <1>4
     DEF LastJournal, EntersOnce, PassesFollow, ParentsFirst, LinksWait, NothingLost, NotFailedYet,
         SnapshotComplete

\* No step breaks the invariant.
LEMMA SnapNext ==
    ASSUME MadeGood PROVE TypeOK /\ SnapInv /\ [Next]_vars => SnapInv'
<1> SUFFICES ASSUME TypeOK, SnapInv, [Next]_vars PROVE SnapInv'
  OBVIOUS
<1>1. TypeOK'
  BY TypeNext
<1>2. ~Die /\ ~PassFails /\ ~TarFails
  BY NoLateFault DEF Die, PassFails, TarFails
<1>3. CASE Tick BY <1>3, SnapTick
<1>4. CASE \E f \in Files : Edit(f) BY <1>1, <1>4, SnapEdit
<1>5. CASE Pass1 BY <1>1, <1>5, SnapPass1
<1>6. CASE Pass2
  BY <1>1, <1>6, SnapQuiet, SnapOpenJournal, SnapWalkOn, SnapRecord, SnapCloseFiles DEF Pass2
<1>7. CASE Pass3To5
  BY <1>1, <1>2, <1>7, SnapMakeDirs, SnapLink, SnapTar, SnapFinish DEF Pass3To5
<1>8. CASE Gone BY <1>1, <1>8, SnapGone
<1>9. CASE UNCHANGED vars
  <2>0. /\ now' = now /\ src' = src /\ jnl' = jnl /\ dump' = dump /\ made' = made /\ pc' = pc
        /\ bdir' = bdir /\ old' = old /\ last' = last /\ todo' = todo /\ dirs' = dirs
        /\ links' = links /\ list' = list /\ born' = born /\ rst' = rst /\ failed' = failed
        /\ nfaults' = nfaults /\ during' = during /\ before' = before /\ silent' = silent
    BY <1>9 DEF vars, world, store, proc, files, ghost
  <2>1. LinesPast' /\ LastJournal' /\ EntersOnce' /\ OneDate' /\ PassesFollow' /\ ParentsFirst'
    BY <2>0 DEF SnapInv, LinesPast, LastJournal, EntersOnce, OneDate, PassesFollow, ParentsFirst,
       Writing, LastDay
  <2>2. LinksWait' /\ NotFailedYet' /\ SnapshotComplete'
    BY <2>0 DEF SnapInv, LinksWait, NotFailedYet, SnapshotComplete, Writing, LastDay, Held
  <2>3. PromisesKept'
    BY <2>0 DEF SnapInv, PromisesKept, Redeemed, Writing, Vouches, LastDay
  <2>4. NothingLost'
    BY <2>0 DEF SnapInv, NothingLost, FileInHand, Writing, Vouches
  <2> QED BY <2>1, <2>2, <2>3, <2>4 DEF SnapInv
<1> QED
  BY <1>2, <1>3, <1>4, <1>5, <1>6, <1>7, <1>8, <1>9 DEF Next

\* The inductive invariant holds in every reachable state, for any tree and clock, when the
\* two hosts' clocks agree, no run lasts past midnight and what fails fails before the
\* journal is final.
THEOREM RemoteSnapshotInvariant == ASSUME MadeGood PROVE Spec => []SnapInv
  BY TypeInit, TypeNext, SnapInit, SnapNext, PTL DEF Spec

\* Under the same conditions a remote run whose passes all passed and which logged no failed
\* call has dumped every file that was there while it ran, however many runs of that day
\* gave up before it and whatever they left on the server.
THEOREM RemoteSnapshotIsComplete == ASSUME MadeGood PROVE Spec => []SnapshotComplete
<1>1. SnapInv => SnapshotComplete
  BY DEF SnapInv
<1> QED BY <1>1, RemoteSnapshotInvariant, PTL

=============================================================================
