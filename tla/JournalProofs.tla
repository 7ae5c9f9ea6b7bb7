---------------------------- MODULE JournalProofs ----------------------------
(***************************************************************************)
(* The journal of LocalBackup never vouches for a stale copy, for every    *)
(* tree, clock, set of faults and bound, when a source is dumped at most   *)
(* once a day, no file changes twice in a second and no copy is cut short. *)
(***************************************************************************)
EXTENDS LocalBackupProofs

----------------------------------------------------------------------------
\* The invariant behind JournalSound.

\* Every line of k is a line of the journal or of the one set aside.
Weaker(k) == \E j \in {jnl, old} : \A p \in Paths : k.line[p] \in {0, j.line[p]}

\* What the program makes of a journal has no new line.
LEMMA WeakerFacts ==
    ASSUME TypeOK
    PROVE  /\ Weaker(NoJournal) /\ Weaker(EmptyJournal) /\ Weaker(jnl) /\ Weaker(old)
           /\ \A k \in Remains(jnl) \cup Remains(old) : Weaker(k)
<1>1. \A k \in Remains(jnl) \cup Remains(old) : Weaker(k)
  BY RemainsFacts DEF TypeOK, Weaker
<1> QED
  BY <1>1 DEF Weaker, NoJournal, EmptyJournal, NoLines

\* Journals that have no new line stay behind the source.
LEMMA LinesMoved ==
    ASSUME TypeOK, TypeOK', LinesPast, UNCHANGED src, Weaker(jnl'), Weaker(old')
    PROVE  LinesPast'
<1>1. ASSUME NEW k \in {jnl', old'}
      PROVE  \E j \in {jnl, old} : \A p \in Paths : k.line[p] \in {0, j.line[p]}
  BY <1>1 DEF Weaker
<1>2. \A f \in Files : f \in Paths /\ src[f].at \in Nat \ {0}
  BY DayFacts DEF TypeOK, Source, Paths
<1> QED BY <1>1, <1>2, LineFacts DEF LinesPast, TypeOK

\* They stay true of the dumps, too.
LEMMA JournalsMoved ==
    ASSUME TypeOK, TypeOK', LinesPast, JournalSound, UNCHANGED <<src, dump>>,
           Weaker(jnl'), Weaker(old')
    PROVE  LinesPast' /\ JournalSound'
<1>1. ASSUME NEW k \in {jnl', old'}
      PROVE  \E j \in {jnl, old} : \A p \in Paths : k.line[p] \in {0, j.line[p]}
  BY <1>1 DEF Weaker
<1>2. \A f \in Files : f \in Paths /\ src[f].at \in Nat \ {0}
  BY DayFacts DEF TypeOK, Source, Paths
<1>3. Journal \in Paths
  BY DEF Paths
<1>4. LinesPast'
  BY LinesMoved
<1>5. JournalSound'
  <2> SUFFICES ASSUME NEW k \in {jnl', old'}, k.line[Journal] # 0,
                      NEW f \in Files, src[f].there, k.line[f] = src[f].at
               PROVE  dump[DayOf[k.line[Journal]]][f] \in {0, src[f].ver}
    BY DEF JournalSound, Vouches, Backed
  <2>1. PICK j \in {jnl, old} : \A p \in Paths : k.line[p] \in {0, j.line[p]}
    BY <1>1
  <2>2. j.line[Journal] = k.line[Journal] /\ j.line[f] = src[f].at
    BY <1>2, <1>3, <2>1
  <2> QED BY <2>2 DEF JournalSound, Vouches, Backed
<1> QED BY <1>4, <1>5

\* A changed file has a stamp no journal and no lstat() has; the other files are
\* as they were.
LEMMA ChangedFacts ==
    ASSUME TypeOK, StampsPast, LinesPast, FreshStamps,
           NEW f \in Files, NEW here \in BOOLEAN, Changed(f, here)
    PROVE  /\ \A g \in Files \ {f} : src'[g] = src[g]
           /\ src'[f].at = now /\ src[f].at < now
           /\ jnl.line[f] # src'[f].at /\ old.line[f] # src'[f].at
           /\ AtEntry /\ cur.path = f => cur.at # src'[f].at
           /\ bdir # 0 => \A g \in Files : during[g] \subseteq during'[g]
           /\ (bdir # 0 /\ \A g \in Files : Held(g) \in during[g]) =>
                 \A g \in Files : (Held(g))' \in during'[g]
<1>1. src[f].at \in Nat /\ now \in Nat /\ \A j \in {jnl, old} : j.line[f] \in Nat
  BY DayFacts, LineFacts, ClockAssumption DEF TypeOK, Source, Paths, Stamp
<1>2. /\ \A g \in Files \ {f} : src'[g] = src[g]
      /\ src'[f] = [ver |-> src[f].ver + 1, at |-> now, there |-> here]
      /\ src[f].at < now
  BY DEF Changed, TypeOK, Source
<1>3. \A j \in {jnl, old} : j.line[f] <= src[f].at
  BY DEF LinesPast
<1>4. AtEntry /\ cur.path = f => cur.at <= src[f].at
  BY DEF StampsPast
<1>5. cur.at \in Nat
  BY ClockAssumption DEF TypeOK, Entered, Stamp
<1>6. bdir # 0 => during' = [during EXCEPT ![f] = @ \cup {IF here THEN src[f].ver + 1 ELSE 0}]
  BY DEF Changed
<1>7. bdir # 0 => /\ \A g \in Files : during[g] \subseteq during'[g]
                  /\ (IF here THEN src[f].ver + 1 ELSE 0) \in during'[f]
  BY <1>6 DEF TypeOK, Versions
<1> QED
  BY <1>1, <1>2, <1>3, <1>4, <1>5, <1>7 DEF Held

\* Days are numbers, and so are the ones a run has.
LEMMA DayNat == \A d \in Day \cup {0} : d \in Nat
  BY DayFacts

\* Time passes: days to come are fewer.
LEMMA TickInv == ASSUME TypeOK, JournalInv, Tick PROVE JournalInv'
<1>1. now \in Time /\ now + 1 \in Time /\ DayOf[now] <= DayOf[now + 1]
  BY ClockAssumption DEF Tick, TypeOK, Time
<1>2. DayOf[now] \in Nat /\ DayOf[now + 1] \in Nat /\ bdir \in Nat /\ \A d \in Day : d \in Nat
  <2>1. DayOf[now] \in Day /\ DayOf[now + 1] \in Day
    BY <1>1, DayFacts
  <2>2. bdir \in Day \cup {0}
    BY DEF TypeOK
  <2> QED BY <2>1, <2>2, DayNat
<1>3. RunStamps'
  BY <1>1, <1>2 DEF Tick, JournalInv, RunStamps, Writing, AtEntry, disk, proc, ghost
<1>4. FutureEmpty'
  <2>1. now' = now + 1 /\ UNCHANGED <<made, dump, bdir, pc>>
    BY DEF Tick, disk, proc
  <2>2. \A d \in Day : d > DayOf[now + 1] => d > DayOf[now]
    BY <1>1, <1>2
  <2> QED BY <2>1, <2>2 DEF JournalInv, FutureEmpty
<1>5. StampsPast'
  <2>1. \A f \in Files : src[f].at \in Nat /\ now \in Nat
    BY DayFacts DEF TypeOK, Source
  <2> QED BY <2>1 DEF Tick, JournalInv, StampsPast, AtEntry, disk, proc, ghost
<1>6. LinesPast' /\ CleanStart' /\ ParentsMade' /\ OnceEach' /\ NewLinesSound' /\ LastDay'
      /\ LinksFresh' /\ JournalSound'
  BY DEF Tick, JournalInv, disk, proc, ghost, LinesPast, CleanStart, ParentsMade, OnceEach,
         NewLinesSound, LastDay, LinksFresh, JournalSound, Writing, AtEntry, Vouches, Backed,
         Held, Unchanged
<1> QED BY <1>3, <1>4, <1>5, <1>6 DEF JournalInv

\* A change of a file takes away what its lines vouch for, and nothing else.
LEMMA EditInv ==
    ASSUME TypeOK, TypeOK', JournalInv, Careful, NEW f \in Files, Edit(f)
    PROVE  JournalInv'
<1>1. PICK here \in BOOLEAN : Changed(f, here)
  BY DEF Edit
<1>2. UNCHANGED <<now, disk, pc, proc, exit>>
  BY DEF Edit
<1> USE ChangedFacts, <1>1, <1>2 DEF Careful, JournalInv, disk, proc
<1>3. \A g \in Files : src[g].at \in Nat /\ src[g].at <= src'[g].at /\ src'[g].at \in Nat
  <2>1. src \in Source /\ src' \in Source
    BY DEF TypeOK
  <2>2. \A g \in Files : src[g].at \in Nat /\ src'[g].at \in Nat
    BY <2>1, DayFacts DEF Source
  <2> QED BY <2>2
<1>4. LinesPast'
  BY <1>3, LineFacts, ClockAssumption DEF LinesPast, TypeOK, Stamp, Paths
<1>5. StampsPast'
  <2>1. cur.at \in Nat /\ now \in Nat
    BY ClockAssumption, DayFacts DEF TypeOK, Entered, Stamp
  <2> QED BY <1>3, <2>1 DEF StampsPast, AtEntry
<1>6. NewLinesSound'
  BY DEF NewLinesSound, Vouches, Writing, AtEntry
<1>7. JournalSound'
  BY DEF JournalSound, Vouches, Backed
<1>8. LinksFresh'
  BY DEF LinksFresh, Unchanged, TypeOK
<1>9. RunStamps' /\ FutureEmpty' /\ CleanStart' /\ ParentsMade' /\ OnceEach' /\ LastDay'
  BY DEF RunStamps, FutureEmpty, CleanStart, ParentsMade, OnceEach, LastDay, Writing, AtEntry
<1> QED BY <1>4, <1>5, <1>6, <1>7, <1>8, <1>9

\* The walk begins with an empty journal and with the entries of the source.
LEMMA WalkBegins ==
    ASSUME TypeOK, TypeOK', JournalInv, pc = "open", pc' = "walk", jnl' = EmptyJournal,
           born' = now, todo' \subseteq Entries(Root),
           UNCHANGED <<world, dump, made, bdir, type, old, lbdir, list, during>>
    PROVE  JournalInv'
<1> USE DEF JournalInv, world, Writing, AtEntry
<1>1. \A f \in Files : jnl'.line[f] = 0 /\ src[f].at # 0
  BY DayFacts DEF EmptyJournal, NoLines, Paths, TypeOK, Source
<1>2. jnl'.line[Journal] = 0
  BY DEF EmptyJournal, NoLines, Paths
<1>3. list = {} /\ Root \in made[bdir] /\ bdir # 0 /\ \A f \in Files : dump[bdir][f] = 0
  BY DEF CleanStart, FutureEmpty, TypeOK
<1>4. \A f \in Files : f \in todo' => Parent[f] = Root
  BY TreeAssumption DEF Entries
<1>5. LinesPast' /\ JournalSound'
  BY JournalsMoved, WeakerFacts
<1>6. RunStamps'
  BY <1>2, <1>3, DayFacts DEF RunStamps, TypeOK
<1>7. ParentsMade'
  BY <1>1, <1>3, <1>4 DEF ParentsMade
<1>8. OnceEach'
  BY <1>1, <1>3 DEF OnceEach
<1>9. NewLinesSound'
  BY <1>1, <1>3 DEF NewLinesSound, Vouches
<1>10. StampsPast' /\ FutureEmpty' /\ CleanStart' /\ LastDay' /\ LinksFresh'
  BY DEF StampsPast, FutureEmpty, CleanStart, LastDay, LinksFresh, Held
<1> QED BY <1>5, <1>6, <1>7, <1>8, <1>9, <1>10

\* Before the walk.
LEMMA PrepareInv ==
    ASSUME TypeOK, TypeOK', JournalInv, Careful, Prepare
    PROVE  JournalInv'
<1> USE DEF JournalInv, Goto, Ends, GivesUp, NoFault, Fault, world, disk, proc, ghost,
            Writing, AtEntry
<1> DEFINE Others == StampsPast /\ RunStamps /\ FutureEmpty /\ CleanStart /\ ParentsMade
                     /\ OnceEach /\ NewLinesSound /\ LastDay /\ LinksFresh
<1>1. ASSUME UNCHANGED <<world, disk, bdir, old, during>>, Others' PROVE JournalInv'
  BY <1>1 DEF LinesPast, JournalSound, Vouches, Backed
<1>2. ASSUME UNCHANGED <<world, dump>>, Weaker(jnl'), Weaker(old'), Others' PROVE JournalInv'
  BY <1>2, JournalsMoved
<1> USE DEF StampsPast, RunStamps, FutureEmpty, CleanStart, ParentsMade, OnceEach,
            NewLinesSound, LastDay, LinksFresh, Held
<1>3. CASE NoJournalYet BY <1>1, <1>3 DEF NoJournalYet
<1>4. CASE MoveAside BY <1>2, <1>4, WeakerFacts DEF MoveAside
<1>5. CASE MoveAsideFails BY <1>1, <1>5 DEF MoveAsideFails
<1>6. CASE LoadJournal BY <1>1, <1>6 DEF LoadJournal, LastTime, SameDay, TypeOK
<1>7. CASE Refuse BY <1>1, <1>7 DEF Refuse
<1>8. CASE LoadFails BY <1>1, <1>8 DEF LoadFails
<1>9. CASE OpenFilesFails BY <1>2, <1>9, WeakerFacts DEF OpenFilesFails
<1>10. CASE OpenFiles BY <1>10, WalkBegins DEF OpenFiles
<1>11. CASE SourceUnread BY <1>11, WalkBegins DEF SourceUnread
<1>12. CASE MoveAsideCuts BY <1>2, <1>12, WeakerFacts DEF MoveAsideCuts
<1> QED
  BY <1>3, <1>4, <1>5, <1>6, <1>7, <1>8, <1>9, <1>10, <1>11, <1>12 DEF Prepare

\* A run starts on a day that has no dump.
LEMMA StartInv ==
    ASSUME TypeOK, TypeOK', JournalInv, Careful, ChkDest \/ ChkDestFails
    PROVE  JournalInv'
<1> DEFINE today == DayOf[now]
<1>1. today \in Day /\ today # 0
  BY DayFacts DEF TypeOK
<1>2. /\ Start /\ pc' \in {"source", "exit"}
      /\ made' = [made EXCEPT ![today] = @ \cup {Root}] \/ made' = made
      /\ pc' = "source" => made' = [made EXCEPT ![today] = @ \cup {Root}]
  BY DEF ChkDest, ChkDestFails, Goto, Ends
<1>3. /\ pc = "idle" /\ bdir = 0 /\ bdir' = today /\ Root \notin made[today]
      /\ \A f \in Files : during'[f] = {Held(f)}
      /\ UNCHANGED <<world, jnl, dump, type, old, lbdir, todo, list, cur, born>>
  BY <1>2 DEF Start, Careful, TypeOK
<1>4. made[today] = {} /\ \A f \in Files : dump[today][f] = 0
  BY <1>1, <1>3 DEF JournalInv, FutureEmpty
<1>5. /\ made'[today] \subseteq {Root}
      /\ pc' = "source" => Root \in made'[today]
      /\ \A d \in Day \ {today} : made'[d] = made[d]
  BY <1>1, <1>2, <1>4 DEF TypeOK, Trees
<1>6. FutureEmpty'
  <2>1. \A d \in Day : d > today => Root \notin made[d]
    BY DEF JournalInv, FutureEmpty
  <2>2. ~(today > today) /\ now' = now
    BY <1>1, <1>3, DayNat DEF world
  <2>3. \A d \in Day : /\ Root \notin made'[d] => made'[d] = {} /\ \A f \in Files : dump[d][f] = 0
                       /\ d > today => Root \notin made'[d]
    BY <1>4, <1>5, <2>1, <2>2 DEF JournalInv, FutureEmpty
  <2> QED BY <1>2, <1>3, <1>5, <2>2, <2>3 DEF FutureEmpty
<1>7. RunStamps'
  BY <1>1, <1>2, <1>3, DayNat DEF RunStamps, Writing, AtEntry, world
<1>8. CleanStart'
  <2>1. todo = {} /\ list = {}
    BY <1>3 DEF JournalInv, CleanStart
  <2> QED BY <1>2, <1>3, <1>4, <1>5, <2>1 DEF CleanStart
<1>9. LinksFresh'
  BY <1>2, <1>3 DEF LinksFresh, Held, world
<1>10. LinesPast' /\ JournalSound' /\ StampsPast'
  BY <1>2, <1>3 DEF JournalInv, LinesPast, JournalSound, StampsPast, Vouches, Backed, AtEntry,
                    world
<1>11. ParentsMade' /\ OnceEach' /\ NewLinesSound' /\ LastDay'
  BY <1>2 DEF ParentsMade, OnceEach, NewLinesSound, LastDay, Writing, AtEntry
<1> QED BY <1>6, <1>7, <1>8, <1>9, <1>10, <1>11 DEF JournalInv

\* Steps that leave the dump and the journal alone.
LEMMA WalkOn ==
    ASSUME TypeOK, TypeOK', JournalInv, Careful,
           \/ \E p \in Paths : LstatFails(p)
           \/ \E d \in Dirs : SkipDir(d) \/ ParentLost(d)
           \/ WriteTar \/ LinkFails \/ WriteFails
    PROVE  JournalInv'
<1> USE DayFacts DEF JournalInv, Goto, GivesUp, NoFault, Fault, world, disk, proc, ghost,
            Writing, AtEntry, TypeOK
<1>1. LinesPast' /\ JournalSound'
  BY DEF LinesPast, JournalSound, Vouches, Backed, LstatFails, SkipDir, ParentLost, WriteTar,
         ListForTar, LinkFails, WriteFails
<1> USE DEF StampsPast, RunStamps, FutureEmpty, CleanStart, ParentsMade, OnceEach,
            NewLinesSound, LastDay, LinksFresh, Held, Unchanged, Vouches
<1>2. CASE \E p \in Paths : LstatFails(p) BY <1>1, <1>2 DEF LstatFails
<1>3. CASE \E d \in Dirs : SkipDir(d) BY <1>1, <1>3 DEF SkipDir
<1>4. CASE \E d \in Dirs : ParentLost(d) BY <1>1, <1>4 DEF ParentLost
<1>5. CASE WriteTar BY <1>1, <1>5 DEF WriteTar, ListForTar
<1>6. CASE LinkFails BY <1>1, <1>6 DEF LinkFails, ListForTar
<1>7. CASE WriteFails BY <1>1, <1>7 DEF WriteFails
<1> QED BY <1>2, <1>3, <1>4, <1>5, <1>6, <1>7

\* lstat() returns a stamp of the file, or of the journal being written.
LEMMA LstatInv ==
    ASSUME TypeOK, TypeOK', JournalInv, Careful, NEW p \in Paths, Lstat(p)
    PROVE  JournalInv'
<1> USE DEF JournalInv, Goto, NoFault, world, disk, ghost, Lstat
<1>1. /\ pc = "walk" /\ pc' = "visit" /\ cur'.path = p
      /\ p \in Files => src[p].there /\ cur'.at = src[p].at
      /\ p = Journal => \E t \in born..now : cur'.at = t
  BY TreeAssumption
<1>2. LinesPast' /\ JournalSound'
  BY DEF LinesPast, JournalSound, Vouches, Backed
<1>3. StampsPast'
  <2>1. \A f \in Files : src[f].at \in Nat \ {0}
    BY DayFacts DEF TypeOK, Source
  <2> QED BY <1>1, <2>1 DEF StampsPast, AtEntry
<1>4. RunStamps'
  <2>1. ASSUME p = Journal PROVE cur'.at # 0 /\ bdir <= DayOf[cur'.at]
    <3>1. born \in Time /\ bdir <= DayOf[born]
      BY <1>1, DayFacts DEF RunStamps, Writing, TypeOK
    <3>2. PICK t \in born..now : cur'.at = t
      BY <1>1, <2>1
    <3>3. t \in Time /\ born <= t
      BY <3>1, <3>2, ClockAssumption DEF Time, TypeOK
    <3>4. DayOf[born] <= DayOf[t] /\ DayOf[t] \in Day /\ DayOf[born] \in Day
      BY <3>1, <3>3, ClockAssumption, DayFacts
    <3>5. bdir \in Nat /\ DayOf[born] \in Nat /\ DayOf[t] \in Nat
      BY <3>4, DayNat DEF TypeOK
    <3>6. t # 0
      BY <3>3, DayFacts
    <3> QED BY <3>1, <3>2, <3>4, <3>5, <3>6
  <2> QED BY <1>1, <2>1 DEF RunStamps, Writing, AtEntry
<1>5. LinksFresh'
  <2>1. ASSUME p \in Files, type = "recurrent", old.line[p] = cur'.at
        PROVE  dump[lbdir][p] \in {0} \cup during[p]
    <3>1. Vouches(old, p) /\ old.line[Journal] # 0 /\ lbdir = DayOf[old.line[Journal]]
      BY <1>1, <2>1 DEF Vouches, LastDay
    <3>2. dump[lbdir][p] \in {0, Held(p)}
      BY <1>1, <2>1, <3>1 DEF JournalSound, Backed, Held
    <3>3. Held(p) \in during[p]
      BY <1>1, <2>1 DEF LinksFresh, TypeOK
    <3> QED BY <3>2, <3>3
  <2> QED BY <1>1, <2>1 DEF LinksFresh, Held, Unchanged
<1>6. FutureEmpty' /\ CleanStart' /\ ParentsMade' /\ OnceEach' /\ NewLinesSound' /\ LastDay'
  BY <1>1 DEF FutureEmpty, CleanStart, ParentsMade, OnceEach, NewLinesSound, LastDay,
              Writing, AtEntry, Vouches
<1> QED BY <1>2, <1>3, <1>4, <1>5, <1>6

\* The walk makes a directory, and may enter it: no file below it was touched.
LEMMA DirInv ==
    ASSUME TypeOK, TypeOK', JournalInv, Careful, NEW d \in Dirs, EnterDir(d) \/ DirFails(d)
    PROVE  JournalInv'
<1> USE DEF JournalInv, Writing, AtEntry
<1>1. /\ pc = "walk" /\ pc' = "walk" /\ d # Root /\ bdir \in Day
      /\ UNCHANGED <<world, jnl, dump, bdir, type, old, lbdir, list, born, during>>
  BY TreeAssumption DEF EnterDir, DirFails, Goto, ghost, TypeOK
<1>2. /\ \A e \in Day \ {bdir} : made'[e] = made[e]
      /\ made[bdir] \subseteq made'[bdir] /\ made'[bdir] \subseteq made[bdir] \cup {d}
  BY <1>1 DEF EnterDir, DirFails, TypeOK, Trees
<1>3. \/ todo' \subseteq todo
      \/ /\ d \notin made[bdir] /\ d \in made'[bdir]
         /\ \A e \in todo' : e \in todo \/ e \in Entries(d)
  BY <1>1 DEF EnterDir, DirFails, TypeOK, Trees
<1>4. \A f \in Files : f \in Entries(d) => Parent[f] = d
  BY TreeAssumption DEF Entries
<1>5. \A f \in Files : f \in todo' => \/ f \in todo
                                      \/ Parent[f] = d /\ d \notin made[bdir] /\ d \in made'[bdir]
  BY <1>3, <1>4
<1>6. FutureEmpty'
  <2>1. Root \in made[bdir]
    BY <1>1 DEF FutureEmpty
  <2> QED BY <1>1, <1>2, <2>1 DEF FutureEmpty, world
<1>7. ParentsMade'
  BY <1>1, <1>2, <1>5 DEF ParentsMade
<1>8. OnceEach'
  <2>1. ASSUME NEW f \in Files, Parent[f] \notin made[bdir]
        PROVE  f \notin list /\ jnl.line[f] = 0 /\ dump[bdir][f] = 0
    BY <1>1, <2>1 DEF ParentsMade
  <2> QED BY <1>1, <1>5, <2>1 DEF OnceEach
<1>9. LinesPast' /\ StampsPast' /\ RunStamps' /\ CleanStart' /\ NewLinesSound' /\ LastDay'
      /\ LinksFresh' /\ JournalSound'
  BY <1>1 DEF LinesPast, StampsPast, RunStamps, CleanStart, NewLinesSound, LastDay,
              LinksFresh, JournalSound, Vouches, Backed, Held, world
<1> QED BY <1>6, <1>7, <1>8, <1>9

\* A link gives the dump what the source had when lstat() saw it, if it still has it.
LEMMA MakeLinkInv ==
    ASSUME TypeOK, TypeOK', JournalInv, Careful, MakeLink
    PROVE  JournalInv'
<1> DEFINE p == cur.path
<1> USE DEF JournalInv, Writing, AtEntry
<1>1. /\ pc = "visit" /\ pc' = "journal" /\ p \in Files /\ Unchanged /\ bdir \in Day
      /\ UNCHANGED <<world, jnl, made, proc, ghost>>
  BY DEF MakeLink, Goto, TypeOK
<1>2. /\ \A d \in Day \ {bdir} : dump'[d] = dump[d]
      /\ \A f \in Files \ {p} : dump'[bdir][f] = dump[bdir][f]
      /\ dump'[bdir][p] = dump[lbdir][p]
      /\ dump[bdir][p] = 0
  BY <1>1 DEF MakeLink, Linkable, TypeOK, Dumps
<1>3. /\ old.line[Journal] # 0 /\ lbdir = DayOf[old.line[Journal]] /\ lbdir # bdir
      /\ old.line[p] = cur.at /\ cur.at # 0 /\ cur.at <= src[p].at
  BY <1>1 DEF LastDay, Unchanged, StampsPast
<1>4. Root \in made[bdir] /\ p \notin list /\ p \notin todo /\ jnl.line[p] = 0
  BY <1>1 DEF FutureEmpty, OnceEach
<1>5. FutureEmpty'
  <2>1. \A d \in Day : Root \notin made[d] => \A f \in Files : dump'[d][f] = 0
    BY <1>2, <1>4 DEF FutureEmpty
  <2> QED BY <1>1, <2>1 DEF FutureEmpty, world, proc
<1>6. NewLinesSound'
  <2>1. \A f \in Files : Vouches(jnl, f) => f # p
    BY <1>3, <1>4, DayFacts DEF Vouches, TypeOK, Source
  <2>2. src[p].there /\ src[p].at = cur.at => dump'[bdir][p] \in {0, src[p].ver}
    BY <1>1, <1>2, <1>3 DEF JournalSound, Vouches, Backed
  <2> QED BY <1>1, <1>2, <2>1, <2>2 DEF NewLinesSound, Vouches, world, proc
<1>7. JournalSound'
  <2> SUFFICES ASSUME NEW j \in {jnl, old}, j.line[Journal] # 0, NEW f \in Files, Vouches(j, f)
               PROVE  dump'[DayOf[j.line[Journal]]][f] \in {0, src[f].ver}
    BY <1>1 DEF JournalSound, Vouches, Backed, world, proc
  <2>1. DayOf[j.line[Journal]] \in Day
    BY DayFacts, LineFacts DEF TypeOK
  <2>2. CASE DayOf[j.line[Journal]] # bdir \/ f # p
    BY <1>2, <2>1, <2>2 DEF JournalSound, Backed
  <2>3. CASE DayOf[j.line[Journal]] = bdir /\ f = p
    <3>1. j = jnl
      BY <1>3, <2>3
    <3> QED BY <1>3, <1>4, <2>3, <3>1, DayFacts DEF Vouches, TypeOK, Source
  <2> QED BY <2>2, <2>3
<1>8. ParentsMade' /\ OnceEach'
  BY <1>1, <1>2, <1>4 DEF ParentsMade, OnceEach, proc
<1>9. LinesPast' /\ StampsPast' /\ RunStamps' /\ CleanStart' /\ LastDay' /\ LinksFresh'
  BY <1>1 DEF LinesPast, StampsPast, RunStamps, CleanStart, LastDay, LinksFresh, Held, world,
              proc, ghost
<1> QED BY <1>5, <1>6, <1>7, <1>8, <1>9

\* What the new journal vouches for is true of the dump of the day it is dated: that
\* day is the day of the run, or a day to come.
LEMMA NewJournal ==
    TypeOK /\ RunStamps /\ FutureEmpty /\ NewLinesSound /\ Writing /\ jnl.line[Journal] # 0
    => \A f \in Files : Vouches(jnl, f) => Backed(jnl, f)
<1> SUFFICES ASSUME TypeOK, RunStamps, FutureEmpty, NewLinesSound, Writing,
                    jnl.line[Journal] # 0, NEW f \in Files, Vouches(jnl, f)
             PROVE  Backed(jnl, f)
  OBVIOUS
<1> DEFINE d == DayOf[jnl.line[Journal]]
<1>1. bdir \in Day /\ d \in Day /\ bdir <= d /\ bdir # 0
  BY DayFacts, LineFacts DEF TypeOK, RunStamps, Writing
<1>2. dump[bdir][f] \in {0, src[f].ver}
  BY DEF NewLinesSound
<1>3. d # bdir => dump[d][f] = 0
  <2>1. d # bdir => d > bdir
    BY <1>1, DayNat
  <2> QED BY <1>1, <2>1 DEF FutureEmpty
<1> QED BY <1>2, <1>3 DEF Backed

\* A line is written with the stamp that was read before the copy was made.
LEMMA WriteJournalInv ==
    ASSUME TypeOK, TypeOK', JournalInv, Careful, WriteJournal
    PROVE  JournalInv'
<1> DEFINE p == cur.path
<1> USE DEF JournalInv, Writing, AtEntry
<1>1. /\ pc = "journal" /\ pc' = "walk" /\ p \in Paths
      /\ UNCHANGED <<world, dump, made, bdir, type, old, lbdir, todo, list, born, ghost>>
  BY DEF WriteJournal, Goto, TypeOK, Entered
<1>2. jnl'.line[p] = cur.at /\ \A q \in Paths \ {p} : jnl'.line[q] = jnl.line[q]
  BY <1>1 DEF WriteJournal, NewLine, TypeOK, JournalType
<1>3. \A f \in Files : f \in Paths /\ f # Journal
  BY TreeAssumption DEF Paths
<1>4. Journal \in Paths
  BY DEF Paths
<1>5. LinesPast'
  BY <1>1, <1>2, <1>3 DEF LinesPast, StampsPast, world
<1>6. RunStamps'
  BY <1>1, <1>2, <1>3, <1>4 DEF RunStamps, world
<1>7. NewLinesSound'
  BY <1>1, <1>2, <1>3 DEF NewLinesSound, Vouches, world
<1>8. FutureEmpty' /\ StampsPast' /\ CleanStart' /\ LastDay' /\ LinksFresh'
  BY <1>1 DEF FutureEmpty, StampsPast, CleanStart, LastDay, LinksFresh, Held, world, ghost
<1>9. ParentsMade' /\ OnceEach'
  BY <1>1, <1>2, <1>3 DEF ParentsMade, OnceEach
<1>10. JournalSound'
  <2>1. Writing' /\ FutureEmpty' /\ TypeOK'
    BY <1>1, <1>8
  <2>2. (jnl.line[Journal] # 0 => \A f \in Files : Vouches(jnl, f) => Backed(jnl, f))'
    BY NewJournal, <1>6, <1>7, <2>1, PTL
  <2> QED BY <1>1, <2>2 DEF JournalSound, Vouches, Backed, world
<1> QED BY <1>5, <1>6, <1>7, <1>8, <1>9, <1>10

\* The files are closed, and what is lost of them only says less.
LEMMA CloseInv ==
    ASSUME TypeOK, TypeOK', JournalInv, Careful, CloseFiles \/ CloseFails
    PROVE  JournalInv'
<1> USE DEF JournalInv, Writing, AtEntry
<1>1. /\ pc = "walk" /\ pc' = "tar" /\ todo' = {} /\ list' \subseteq list
      /\ jnl' \in {jnl} \cup Remains(jnl) /\ old' \in {old, NoJournal}
      /\ UNCHANGED <<world, dump, made, bdir, type, lbdir, cur, born, during>>
  BY DEF CloseFiles, CloseFails, OldAfterWalk, Goto, disk, ghost
<1>2. \A p \in Paths : jnl'.line[p] \in {0, jnl.line[p]}
  BY <1>1, RemainsFacts DEF TypeOK
<1>3. \A f \in Files : f \in Paths
  BY DEF Paths
<1>4. LinesPast' /\ JournalSound'
  BY <1>1, JournalsMoved, WeakerFacts DEF world
<1>5. RunStamps'
  BY <1>1, <1>2 DEF RunStamps, Paths, world
<1>6. NewLinesSound'
  <2>1. ASSUME NEW f \in Files, Vouches(jnl', f) PROVE Vouches(jnl, f)
    <3>1. src[f].at # 0
      BY DayFacts DEF TypeOK, Source
    <3> QED BY <1>2, <1>3, <2>1, <3>1 DEF Vouches
  <2> QED BY <1>1, <2>1 DEF NewLinesSound, Vouches, world
<1>7. ParentsMade' /\ OnceEach'
  BY <1>1, <1>2, <1>3 DEF ParentsMade, OnceEach
<1>8. StampsPast' /\ FutureEmpty' /\ CleanStart' /\ LastDay' /\ LinksFresh'
  BY <1>1 DEF StampsPast, FutureEmpty, CleanStart, LastDay, LinksFresh, Held, world
<1> QED BY <1>4, <1>5, <1>6, <1>7, <1>8

\* The steps of the walk.
LEMMA WalkInv == ASSUME TypeOK, TypeOK', JournalInv, Careful, Walk PROVE JournalInv'
  BY WalkOn, LstatInv, DirInv, MakeLinkInv, WriteJournalInv, CloseInv DEF Walk

\* tar copies what the source has now: no line is about anything newer.
LEMMA TarCopyInv ==
    ASSUME TypeOK, TypeOK', JournalInv, Careful, NEW p \in Paths, TarCopy(p)
    PROVE  JournalInv'
<1> USE DEF JournalInv, Writing, AtEntry
<1>1. /\ pc = "tar" /\ pc' = "tar" /\ p \in list /\ list' = list \ {p} /\ bdir \in Day
      /\ UNCHANGED <<world, jnl, made, bdir, type, old, lbdir, todo, cur, born, during>>
  BY DEF TarCopy, Goto, ghost, TypeOK
<1>2. CASE p \notin Files
  <2>1. dump' = dump
    BY <1>2 DEF TarCopy
  <2> QED
    BY <1>1, <1>2, <2>1 DEF LinesPast, StampsPast, RunStamps, FutureEmpty, CleanStart,
       ParentsMade, OnceEach, NewLinesSound, LastDay, LinksFresh, JournalSound, Vouches, Backed,
       Held, world
<1>3. CASE p \in Files
  <2>1. /\ \A d \in Day \ {bdir} : dump'[d] = dump[d]
        /\ \A f \in Files \ {p} : dump'[bdir][f] = dump[bdir][f]
        /\ dump'[bdir][p] = src[p].ver
    BY <1>1, <1>3 DEF TarCopy, TypeOK, Dumps
  <2>2. FutureEmpty'
    <3>1. Root \in made[bdir]
      BY <1>1 DEF FutureEmpty
    <3> QED BY <1>1, <2>1, <3>1 DEF FutureEmpty, world
  <2>3. JournalSound'
    <3>1. \A j \in {jnl, old} : DayOf[j.line[Journal]] \in Day \/ j.line[Journal] = 0
      BY DayFacts, LineFacts DEF TypeOK
    <3> QED BY <1>1, <2>1, <3>1 DEF JournalSound, Vouches, Backed, world
  <2>4. NewLinesSound'
    BY <1>1, <2>1 DEF NewLinesSound, Vouches, world
  <2>5. ParentsMade' /\ OnceEach'
    BY <1>1, <1>3, <2>1 DEF ParentsMade, OnceEach
  <2> QED
    BY <1>1, <2>2, <2>3, <2>4, <2>5 DEF LinesPast, StampsPast, RunStamps, CleanStart, LastDay,
       LinksFresh, Held, world
<1> QED BY <1>2, <1>3

\* A file that changes while tar reads it is no longer what any line is about.
LEMMA TarRacedInv ==
    ASSUME TypeOK, TypeOK', JournalInv, Careful, NEW f \in Files, TarRaced(f)
    PROVE  JournalInv'
<1> USE DEF JournalInv, Writing, AtEntry
<1>1. /\ pc = "tar" /\ pc' = "tar" /\ f \in list /\ list' = list \ {f} /\ bdir \in Day
      /\ Changed(f, TRUE)
      /\ UNCHANGED <<now, jnl, made, bdir, type, old, lbdir, todo, cur, born>>
  BY DEF TarRaced, Goto, TypeOK
<1>2. /\ \A d \in Day \ {bdir} : dump'[d] = dump[d]
      /\ \A g \in Files \ {f} : dump'[bdir][g] = dump[bdir][g] /\ src'[g] = src[g]
      /\ src'[f].at # jnl.line[f] /\ src'[f].at # old.line[f]
      /\ src'[f].at = now /\ src[f].at < now /\ src'[f].there
      /\ \A g \in Files : (Held(g))' \in during'[g]
  <2>1. bdir # 0 /\ \A g \in Files : Held(g) \in during[g]
    BY <1>1, DayFacts DEF LinksFresh
  <2>2. dump' = [dump EXCEPT ![bdir][f] = Torn]
    BY DEF TarRaced
  <2>3. src'[f].there
    BY <1>1 DEF Changed, TypeOK, Source
  <2> QED BY <1>1, <2>1, <2>2, <2>3, ChangedFacts DEF Careful, TypeOK, Dumps
<1>3. \A g \in Files : (~Vouches(jnl, g)' /\ ~Vouches(old, g)') \/ g # f
  BY <1>1, <1>2 DEF Vouches
<1>4. FutureEmpty'
  <2>1. Root \in made[bdir]
    BY <1>1 DEF FutureEmpty
  <2> QED BY <1>1, <1>2, <2>1 DEF FutureEmpty
<1>5. JournalSound'
  <2>1. \A j \in {jnl, old} : DayOf[j.line[Journal]] \in Day \/ j.line[Journal] = 0
    BY DayFacts, LineFacts DEF TypeOK
  <2> QED BY <1>1, <1>2, <1>3, <2>1 DEF JournalSound, Vouches, Backed
<1>6. NewLinesSound'
  BY <1>1, <1>2, <1>3 DEF NewLinesSound, Vouches
<1>7. ParentsMade' /\ OnceEach'
  BY <1>1, <1>2 DEF ParentsMade, OnceEach
<1>8. LinesPast' /\ StampsPast'
  <2>1. now \in Nat /\ src[f].at \in Nat /\ \A j \in {jnl, old} : j.line[f] \in Nat
    BY DayFacts, LineFacts, ClockAssumption DEF TypeOK, Source, Stamp, Paths
  <2> QED BY <1>1, <1>2, <2>1 DEF LinesPast, StampsPast
<1> QED
  BY <1>1, <1>2, <1>4, <1>5, <1>6, <1>7, <1>8 DEF RunStamps, CleanStart, LastDay, LinksFresh

\* The steps of the copy.
LEMMA CopyInv == ASSUME TypeOK, TypeOK', JournalInv, Careful, Copy PROVE JournalInv'
<1> DEFINE Rest == StampsPast /\ RunStamps /\ FutureEmpty /\ CleanStart /\ ParentsMade
                   /\ OnceEach /\ NewLinesSound /\ LastDay /\ LinksFresh
<1>1. ASSUME UNCHANGED <<world, disk, bdir, type, old, lbdir, todo, cur, born, during>>,
             pc = "tar", pc' = "tar", list' \subseteq list
      PROVE  JournalInv'
  BY <1>1 DEF JournalInv, LinesPast, StampsPast, RunStamps, FutureEmpty, CleanStart, ParentsMade,
     OnceEach, NewLinesSound, LastDay, LinksFresh, JournalSound, Vouches, Backed, Held, Writing,
     AtEntry, world, disk
<1>2. ASSUME NEW f \in Files, TarMisses(f) PROVE JournalInv'
  BY <1>1, <1>2 DEF TarMisses, Goto, ghost
<1>3. ASSUME NEW f \in Files, TarFails(f) PROVE JournalInv'
  <2>1. pc = "tar" /\ f \in list /\ bdir \in Day
    BY <1>3 DEF TarFails, TypeOK
  <2>2. dump[bdir][f] = 0
    BY <2>1 DEF JournalInv, OnceEach, Writing
  <2>3. dump' \in {dump, [dump EXCEPT ![bdir][f] = 0]}
    BY <1>3 DEF TarFails, Fault, Careful
  <2>4. dump' = dump
    BY <2>1, <2>2, <2>3 DEF TypeOK, Dumps
  <2>5. UNCHANGED <<world, disk, bdir, type, old, lbdir, todo, cur, born, during>>
    BY <1>3, <2>4 DEF TarFails, ghost, disk
  <2>6. pc' = "tar" /\ list' \subseteq list
    BY <1>3 DEF TarFails, Goto
  <2> QED BY <1>1, <2>1, <2>5, <2>6
<1>4. CASE TarStops
  BY <1>1, <1>4 DEF TarStops, Goto, ghost
<1>5. CASE Finish
  <2>1. LinesPast' /\ JournalSound'
    BY <1>5, JournalsMoved, WeakerFacts DEF Finish, JournalInv, world, proc
  <2>2. Rest'
    BY <1>5 DEF Finish, Ends, JournalInv, StampsPast, RunStamps, FutureEmpty, CleanStart,
       ParentsMade, OnceEach, NewLinesSound, LastDay, LinksFresh, Held, Writing, AtEntry, world,
       proc, ghost
  <2> QED BY <2>1, <2>2 DEF JournalInv
<1> QED BY <1>2, <1>3, <1>4, <1>5, TarCopyInv, TarRacedInv DEF Copy

\* The ways out: what the program, or its death, makes of the journals has no new line.
LEMMA LeaveInv ==
    ASSUME TypeOK, TypeOK', JournalInv, Careful, Leave \/ Die
    PROVE  JournalInv'
<1> USE DEF JournalInv
<1>1. /\ pc' \in {"relink", "exit", "idle"} /\ UNCHANGED <<world, dump, made>>
      /\ \/ pc' # "idle" /\ pc # "idle" /\ pc # "exit"
            /\ UNCHANGED <<bdir, type, todo, list, during>>
         \/ pc' = "idle" /\ bdir' = 0 /\ todo' = {} /\ list' = {}
  BY DEF Leave, Restore, RestoreFails, Relink, RelinkFails, Die, Gone, Goto, Ends, Careful, proc, ghost, disk,
         TypeOK
<1>2. Weaker(jnl') /\ Weaker(old')
  BY WeakerFacts DEF Leave, Restore, RestoreFails, Relink, RelinkFails, Die, Gone, proc, disk
<1>3. LinesPast' /\ JournalSound'
  BY <1>1, <1>2, JournalsMoved DEF world
<1>4. FutureEmpty' /\ RunStamps'
  BY <1>1 DEF FutureEmpty, RunStamps, Writing, AtEntry, world
<1>5. StampsPast' /\ CleanStart' /\ ParentsMade' /\ OnceEach' /\ NewLinesSound' /\ LastDay'
      /\ LinksFresh'
  BY <1>1 DEF StampsPast, CleanStart, ParentsMade, OnceEach, NewLinesSound, LastDay,
              LinksFresh, Held, Writing, AtEntry, world
<1> QED BY <1>3, <1>4, <1>5

\* Nothing is vouched for at first.
LEMMA JournalInit == TypeOK /\ Init => JournalInv
<1> SUFFICES ASSUME TypeOK, Init PROVE JournalInv
  OBVIOUS
<1>1. \A j \in {jnl, old} : \A p \in Paths : j.line[p] = 0
  BY DEF Init, NoJournal, NoLines
<1>2. \A f \in Files : src[f].at = now /\ now \in Nat \ {0}
  BY DayFacts DEF Init, TypeOK
<1>3. LinesPast /\ StampsPast /\ JournalSound
  BY <1>1, <1>2 DEF Init, LinesPast, StampsPast, JournalSound, AtEntry, Paths
<1> QED
  BY <1>3 DEF Init, JournalInv, RunStamps, FutureEmpty, CleanStart, ParentsMade, OnceEach,
              NewLinesSound, LastDay, LinksFresh, Writing, AtEntry

\* Every step keeps the invariant.
LEMMA JournalNext ==
    ASSUME Careful
    PROVE  TypeOK /\ TypeOK' /\ JournalInv /\ [Next]_vars => JournalInv'
<1> SUFFICES ASSUME TypeOK, TypeOK', JournalInv, [Next]_vars PROVE JournalInv'
  OBVIOUS
<1>1. CASE UNCHANGED vars
  <2>0. /\ now' = now /\ src' = src /\ jnl' = jnl /\ dump' = dump /\ made' = made /\ pc' = pc
        /\ bdir' = bdir /\ type' = type /\ old' = old /\ lbdir' = lbdir /\ todo' = todo
        /\ list' = list /\ cur' = cur /\ born' = born /\ rst' = rst /\ exit' = exit
        /\ nfaults' = nfaults /\ during' = during /\ before' = before /\ silent' = silent
        /\ again' = again
    BY <1>1 DEF vars, world, disk, proc, ghost
  <2>1. LinesPast' /\ StampsPast' /\ RunStamps' /\ FutureEmpty'
    BY <2>0 DEF JournalInv, LinesPast, StampsPast, RunStamps, FutureEmpty, Writing, AtEntry
  <2>2. CleanStart' /\ ParentsMade' /\ OnceEach'
    BY <2>0 DEF JournalInv, CleanStart, ParentsMade, OnceEach, Writing, AtEntry
  <2>3. NewLinesSound'
    BY <2>0 DEF JournalInv, NewLinesSound, Vouches, Writing, AtEntry
  <2>4. JournalSound'
    BY <2>0 DEF JournalInv, JournalSound, Vouches, Backed
  <2>5. LastDay' /\ LinksFresh'
    BY <2>0 DEF JournalInv, LastDay, LinksFresh, Held, Unchanged, Writing, AtEntry
  <2> QED BY <2>1, <2>2, <2>3, <2>4, <2>5 DEF JournalInv
<1> QED
  BY <1>1, TickInv, EditInv, StartInv, PrepareInv, WalkInv, CopyInv, LeaveInv DEF Next, Run

\* The invariant behind JournalSound and WriteOnceDumps holds in every reachable state.
THEOREM JournalInvariant == ASSUME Careful PROVE Spec => []JournalInv
  BY Typing, TypeInit, JournalInit, JournalNext, PTL DEF Spec

\* The journal is sound in every reachable state, for any tree and clock, and for
\* any faults that cut no copy short.
THEOREM JournalIsSound == ASSUME Careful PROVE Spec => []JournalSound
<1>1. JournalInv => JournalSound
  BY DEF JournalInv
<1> QED
  BY <1>1, JournalInvariant, PTL

----------------------------------------------------------------------------
(***************************************************************************)
(* LocalBackup implements DumpFs under the same assumptions: a dump is     *)
(* written by the run of its day only, every file at most once, copied or  *)
(* linked in a version of the time of the run.                             *)
(***************************************************************************)

heldNow == [f \in Files |-> Held(f)]

\* A run that starts opens the dump of a day that has none.
LEMMA StartOpens ==
    ASSUME TypeOK, JournalInv, Careful, ChkDest \/ ChkDestFails
    PROVE  Fs!Begin(DayOf[now]) /\ DayOf[now] \in Day
<1>1. DayOf[now] \in Day
  BY DayFacts DEF TypeOK
<1>2. Start /\ dump' = dump
  BY DEF ChkDest, ChkDestFails, Start
<1>3. /\ pc = "idle" /\ bdir' = DayOf[now] /\ Root \notin made[DayOf[now]]
      /\ during' = [f \in Files |-> {Held(f)}] /\ src' = src
  BY <1>2 DEF Start, Careful, world
<1>4. bdir = 0 /\ \A f \in Files : dump[DayOf[now]][f] = 0
  BY <1>1, <1>3 DEF JournalInv, FutureEmpty, TypeOK
<1>5. heldNow' = heldNow /\ \A f \in Files : heldNow[f] = Held(f)
  BY <1>3 DEF heldNow, Held
<1> QED BY <1>1, <1>2, <1>3, <1>4, <1>5 DEF Fs!Begin, heldNow

\* What a change of a source file is to DumpFs.
LEMMA ChangedHeld ==
    ASSUME TypeOK, NEW f \in Files, NEW here \in BOOLEAN, Changed(f, here)
    PROVE  \E v \in 0..MaxVer :
             /\ heldNow' = [heldNow EXCEPT ![f] = v]
             /\ during' = IF bdir = 0 THEN during ELSE [during EXCEPT ![f] = @ \cup {v}]
<1> DEFINE v == IF here THEN src[f].ver + 1 ELSE 0
<1>1. v \in 0..MaxVer
  <2>1. src[f].ver \in 1..MaxVer /\ src[f].ver < MaxVer
    BY DEF Changed, TypeOK, Source
  <2> QED BY <2>1, BoundAssumption
<1>2. /\ src'[f] = [ver |-> src[f].ver + 1, at |-> now, there |-> here]
      /\ \A g \in Files \ {f} : src'[g] = src[g]
  BY DEF Changed, TypeOK, Source
<1>3. heldNow' = [heldNow EXCEPT ![f] = v]
  <2>1. (Held(f))' = v /\ \A g \in Files \ {f} : (Held(g))' = Held(g)
    BY <1>2 DEF Held
  <2> QED BY <2>1 DEF heldNow
<1>4. during' = IF bdir = 0 THEN during ELSE [during EXCEPT ![f] = @ \cup {v}]
  BY DEF Changed
<1> QED BY <1>1, <1>3, <1>4

\* A file gets its entry.
LEMMA EntryPut ==
    ASSUME TypeOK, JournalInv, Careful, MakeLink \/ \E p \in Files : TarCopy(p)
    PROVE  \E f \in Files : \E v \in (during[f] \ {0}) \cup {Torn} : Fs!Put(f, v)
<1> USE DEF JournalInv
<1>1. CASE MakeLink
  <2> DEFINE f == cur.path
  <2>1. /\ f \in Files /\ pc = "visit" /\ Unchanged
        /\ dump[lbdir][f] # 0 /\ dump[bdir][f] = 0 /\ bdir # 0
        /\ dump' = [dump EXCEPT ![bdir][f] = dump[lbdir][f]]
        /\ UNCHANGED <<src, bdir, during>>
    BY <1>1 DEF MakeLink, Linkable, world, proc, ghost, TypeOK
  <2>2. dump[lbdir][f] \in during[f] \ {0}
    BY <2>1 DEF LinksFresh
  <2>3. heldNow' = heldNow
    BY <2>1 DEF heldNow, Held
  <2> QED BY <2>1, <2>2, <2>3 DEF Fs!Put, heldNow
<1>2. ASSUME NEW f \in Files, TarCopy(f)
      PROVE  Fs!Put(f, src[f].ver) /\ src[f].ver \in during[f] \ {0}
  <2>1. /\ pc = "tar" /\ f \in list /\ src[f].there /\ bdir # 0
        /\ dump' = [dump EXCEPT ![bdir][f] = src[f].ver]
        /\ UNCHANGED <<src, bdir, during>>
    BY <1>2 DEF TarCopy, world, ghost, TypeOK
  <2>2. dump[bdir][f] = 0
    BY <2>1 DEF OnceEach, Writing
  <2>3. src[f].ver \in during[f] \ {0}
    <3>1. Held(f) = src[f].ver /\ Held(f) \in during[f]
      BY <2>1 DEF LinksFresh, Held
    <3>2. src[f].ver # 0
      BY DEF TypeOK, Source
    <3> QED BY <3>1, <3>2
  <2>4. heldNow' = heldNow
    BY <2>1 DEF heldNow, Held
  <2> QED BY <2>1, <2>2, <2>3, <2>4 DEF Fs!Put, heldNow
<1> QED BY <1>1, <1>2

\* Every other step leaves what DumpFs sees alone.
LEMMA StepHidden ==
    ASSUME TypeOK, JournalInv, Careful,
           \/ Tick \/ Prepare \/ Restore \/ RestoreFails \/ Relink \/ RelinkFails \/ Die
           \/ \E p \in Paths : Lstat(p) \/ LstatFails(p)
           \/ \E d \in Dirs : EnterDir(d) \/ SkipDir(d) \/ DirFails(d) \/ ParentLost(d)
           \/ WriteTar \/ LinkFails \/ WriteJournal \/ WriteFails \/ CloseFiles \/ CloseFails
           \/ \E f \in Files : TarMisses(f) \/ TarFails(f)
           \/ TarStops \/ Finish \/ TarCopy(Journal)
    PROVE  UNCHANGED <<src, dump, bdir, during>>
<1> USE DEF world, disk, proc, ghost
<1>1. CASE Tick BY <1>1 DEF Tick
<1>2. CASE Prepare
  BY <1>2 DEF Prepare, NoJournalYet, MoveAside, MoveAsideCuts, MoveAsideFails, LoadJournal,
     Refuse, LoadFails, OpenFiles, OpenFilesFails, SourceUnread
<1>3. CASE Restore \/ RestoreFails \/ Relink \/ RelinkFails \/ Die
  BY <1>3 DEF Restore, RestoreFails, Relink, RelinkFails, Die, Careful
<1>4. CASE \E p \in Paths : Lstat(p) \/ LstatFails(p)
  BY <1>4 DEF Lstat, LstatFails
<1>5. CASE \E d \in Dirs : EnterDir(d) \/ SkipDir(d) \/ DirFails(d) \/ ParentLost(d)
  BY <1>5 DEF EnterDir, SkipDir, DirFails, ParentLost
<1>6. CASE WriteTar \/ LinkFails \/ WriteJournal \/ WriteFails \/ CloseFiles \/ CloseFails
  BY <1>6 DEF WriteTar, ListForTar, LinkFails, WriteJournal, WriteFails, CloseFiles, CloseFails
<1>7. ASSUME NEW f \in Files, TarFails(f) PROVE UNCHANGED <<src, dump, bdir, during>>
  <2>1. pc = "tar" /\ f \in list /\ bdir \in Day
    BY <1>7 DEF TarFails, TypeOK
  <2>2. dump[bdir][f] = 0
    BY <2>1 DEF JournalInv, OnceEach, Writing
  <2>3. dump' \in {dump, [dump EXCEPT ![bdir][f] = 0]}
    BY <1>7 DEF TarFails, Fault, Careful
  <2>4. dump' = dump
    BY <2>1, <2>2, <2>3 DEF TypeOK, Dumps
  <2> QED BY <1>7, <2>4 DEF TarFails
<1>8. CASE TarStops \/ Finish \/ TarCopy(Journal) \/ \E f \in Files : TarMisses(f)
  BY <1>8, TreeAssumption DEF TarStops, Finish, TarCopy, TarMisses
<1> QED BY <1>1, <1>2, <1>3, <1>4, <1>5, <1>6, <1>7, <1>8

\* Every step of a backup is a step of DumpFs or leaves its variables alone.
LEMMA StepRefines ==
    ASSUME TypeOK, JournalInv, Careful, [Next]_vars
    PROVE  [Fs!FsNext]_(Fs!fsVars)
<1>1. ASSUME UNCHANGED <<src, dump, bdir, during>> PROVE UNCHANGED Fs!fsVars
  BY <1>1 DEF Fs!fsVars, Held
<1>2. CASE \E f \in Files : Edit(f)
  <2>1. PICK f \in Files, here \in BOOLEAN : Changed(f, here)
    BY <1>2 DEF Edit
  <2>2. UNCHANGED <<dump, bdir>>
    BY <1>2 DEF Edit, disk, proc
  <2>3. \E v \in 0..MaxVer : Fs!Change(f, v)
    BY <2>1, <2>2, ChangedHeld DEF Fs!Change, heldNow
  <2> QED BY <2>3 DEF Fs!FsNext
<1>3. CASE \E f \in Files : TarRaced(f)
  <2>1. PICK f \in Files : TarRaced(f)
    BY <1>3
  <2>2. /\ Changed(f, TRUE) /\ bdir # 0 /\ dump[bdir][f] = 0 /\ bdir' = bdir
        /\ dump' = [dump EXCEPT ![bdir][f] = Torn]
    BY <2>1 DEF TarRaced, TypeOK, JournalInv, OnceEach, Writing
  <2>3. \E v \in 0..MaxVer : Fs!ChangeAndTear(f, v)
    BY <2>2, ChangedHeld DEF Fs!ChangeAndTear, heldNow, Torn, Fs!Torn
  <2> QED BY <2>3 DEF Fs!FsNext
<1>4. CASE ChkDest \/ ChkDestFails
  BY <1>4, StartOpens DEF Fs!FsNext
<1>5. CASE MakeLink \/ \E p \in Files : TarCopy(p)
  BY <1>5, EntryPut DEF Fs!FsNext, Torn, Fs!Torn
<1>6. CASE Gone
  <2>1. bdir # 0 /\ bdir' = 0 /\ during' = [f \in Files |-> {}] /\ UNCHANGED <<src, dump>>
    BY <1>6 DEF Gone, TypeOK, world, disk
  <2>2. Fs!End
    BY <2>1 DEF Fs!End, Held
  <2> QED BY <2>2 DEF Fs!FsNext
<1>7. CASE UNCHANGED vars
  BY <1>1, <1>7 DEF vars, world, disk, proc, ghost
<1> QED
  BY <1>1, <1>2, <1>3, <1>4, <1>5, <1>6, <1>7, StepHidden
     DEF Next, Run, Walk, Copy, Leave, Paths

\* The initial state is one of DumpFs.
LEMMA InitRefines == Init => Fs!FsInit
  BY DEF Init, Fs!FsInit, Held

\* The dumps are written once, with what the source held at the time, for any tree and
\* clock, and for any faults that cut no copy short.
THEOREM DumpsAreWriteOnce == ASSUME Careful PROVE Spec => WriteOnceDumps
<1>1. TypeOK /\ JournalInv /\ [Next]_vars => [Fs!FsNext]_(Fs!fsVars)
  BY StepRefines
<1> QED
  BY <1>1, Typing, TypeInit, JournalInit, JournalNext, InitRefines, PTL
     DEF Spec, WriteOnceDumps, Fs!FsSpec
=============================================================================
