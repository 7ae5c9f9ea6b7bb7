--------------------------- MODULE HistoryProofs ---------------------------
(***************************************************************************)
(* Theorems about History for every calendar, every set of dumps and every *)
(* number of years: the history printed is the one there is.               *)
(***************************************************************************)
EXTENDS History, FiniteSetTheorems, TLAPS

----------------------------------------------------------------------------
\* Lemmas on the operators.

\* A set of integers between two bounds has its greatest element.
LEMMA MaxFacts ==
    ASSUME NEW S, NEW a \in Int, NEW b \in Int, S \subseteq a..b, S # {}
    PROVE  Max(S) \in S /\ \A k \in S : k <= Max(S)
<1> DEFINE T == {b - k : k \in S}
           Less == {q \in Nat \X Nat : q[1] < q[2]}
<1>1. IsWellFoundedOn(Less, Nat)
  BY NatLessThanWellFounded DEF OpToRel
<1>2. T \subseteq Nat /\ T # {}
  <2>1. \A k \in S : b - k \in Nat
    <3> TAKE k \in S
    <3>1. k \in Int /\ k <= b
      OBVIOUS
    <3> QED BY <3>1
  <2> QED BY <2>1
<1> HIDE DEF Less
<1>3. PICK x \in T : \A y \in T : ~(<<y, x>> \in Less)
  BY <1>1, <1>2, WFMin
<1>4. \A y \in T : x <= y
  <2> TAKE y \in T
  <2>1. x \in Nat /\ y \in Nat
    BY <1>2, <1>3
  <2>2. ~(y < x)
    BY <1>3, <2>1 DEF Less
  <2> QED BY <2>1, <2>2
<1>5. PICK m \in S : x = b - m
  OBVIOUS
<1>6. \A k \in S : m >= k
  <2> TAKE k \in S
  <2>1. x <= b - k
    BY <1>4
  <2> QED BY <2>1, <1>5
<1> QED BY <1>6 DEF Max

\* The order of the dates is total.
LEMMA EarlierFacts ==
    ASSUME NEW s \in Date, NEW t \in Date
    PROVE  /\ ~Earlier(t, t)
           /\ Earlier(s, t) => s # t /\ ~Earlier(t, s)
           /\ s = t \/ Earlier(s, t) \/ Earlier(t, s)
           /\ \A u \in Date : Earlier(s, t) /\ Earlier(t, u) => Earlier(s, u)
  BY CalendarAssumption DEF Date, Earlier

\* A calendar has finitely many dates.
LEMMA DateFinite == IsFiniteSet(Date)
<1> DEFINE triples == (FirstYear..ThisYear) \X (0..LastMonth) \X (1..LastDay)
           pairs == (FirstYear..ThisYear) \X ((0..LastMonth) \X (1..LastDay))
           f == [t \in Date |-> <<t.year, <<t.mon, t.mday>>>>]
<1>1. /\ IsFiniteSet(FirstYear..ThisYear) /\ IsFiniteSet(0..LastMonth)
      /\ IsFiniteSet(1..LastDay)
  BY CalendarAssumption, FS_Interval
<1>2. IsFiniteSet(pairs)
  BY <1>1, FS_Product
<1>3. f \in Injection(Date, pairs)
  <2>1. f \in [Date -> pairs]
    BY DEF Date
  <2>2. \A s, t \in Date : f[s] = f[t] => s = t
    <3> TAKE s, t \in Date
    <3>1. f[s] = f[t] => s.year = t.year /\ s.mon = t.mon /\ s.mday = t.mday
      OBVIOUS
    <3>2. s = [year |-> s.year, mon |-> s.mon, mday |-> s.mday]
      BY DEF Date
    <3>3. t = [year |-> t.year, mon |-> t.mon, mday |-> t.mday]
      BY DEF Date
    <3> QED BY <3>1, <3>2, <3>3
  <2> QED BY <2>1, <2>2 DEF Injection, IsInjective
<1> QED BY <1>2, <1>3, FS_Injection

\* decrementDate() goes to an earlier date of the reach, and passes over no dump;
\* it stops only where there is no earlier one.
LEMMA DecrementFacts ==
    ASSUME inodeOf \in [Date -> Nat], DumpsHaveDirs, NEW t \in Date, ThisYear - t.year <= Nyears
    PROVE  /\ \A d \in Decremented(t) :
                 /\ d \in Date /\ ThisYear - d.year <= Nyears /\ Earlier(d, t)
                 /\ \A s \in Older(t) : s = d \/ Earlier(s, d)
           /\ Decremented(t) = {} => Older(t) = {}
<1> DEFINE M == MonthBefore(t.year, t.mon)
           Y == YearBefore(t.year)
<1>1. /\ t.year \in FirstYear..ThisYear /\ t.mon \in 0..LastMonth /\ t.mday \in 1..LastDay
      /\ FirstYear \in Nat /\ ThisYear \in Nat /\ LastMonth \in Nat /\ LastDay \in Nat \ {0}
      /\ Nyears \in Nat
      /\ t = [year |-> t.year, mon |-> t.mon, mday |-> t.mday]
  BY CalendarAssumption DEF Date
<1>2. \A s \in Older(t) :
         /\ s.year \in FirstYear..ThisYear /\ s.mon \in 0..LastMonth /\ s.mday \in 1..LastDay
         /\ s = [year |-> s.year, mon |-> s.mon, mday |-> s.mday]
         /\ s \in dirs /\ ThisYear - s.year <= Nyears /\ Earlier(s, t)
  BY DEF Older, InReach, DumpsHaveDirs, Date
<1>3. CASE t.mday > 1
  <2> DEFINE e == [year |-> t.year, mon |-> t.mon, mday |-> t.mday - 1]
  <2>1. Decremented(t) = {e}
    BY <1>1, <1>3 DEF Decremented
  <2>2. e \in Date /\ Earlier(e, t)
    BY <1>1, <1>3 DEF Date, Earlier
  <2>3. \A s \in Older(t) : s = e \/ Earlier(s, e)
    BY <1>1, <1>2 DEF Earlier
  <2> QED BY <2>1, <2>2, <2>3
<1>4. CASE t.mday = 1 /\ M # {}
  <2> DEFINE e == [year |-> t.year, mon |-> Max(M), mday |-> LastDay]
  <2>1. Decremented(t) = {e}
    BY <1>1, <1>4 DEF Decremented
  <2>2. Max(M) \in M /\ \A k \in M : k <= Max(M)
    <3>1. M \subseteq 0..(t.mon - 1) /\ 0 \in Int /\ t.mon - 1 \in Int
      BY <1>1 DEF MonthBefore
    <3> QED BY <3>1, <1>4, MaxFacts
  <2>3. Max(M) \in 0..(t.mon - 1)
    BY <2>2 DEF MonthBefore
  <2> DEFINE m == Max(M)
  <2>4. m \in 0..(t.mon - 1)
    BY <2>3
  <2>5. \A s \in Older(t) : s.year = t.year /\ s.mon < t.mon => s.mon <= m
    <3> TAKE s \in Older(t)
    <3>1. s.year = t.year /\ s.mon < t.mon => s.mon \in M
      BY <1>1, <1>2 DEF MonthBefore, MonthExists
    <3> QED BY <3>1, <2>2
  <2> HIDE DEF m
  <2>6. e = [year |-> t.year, mon |-> m, mday |-> LastDay]
    BY DEF m
  <2>7. e \in Date /\ Earlier(e, t)
    BY <1>1, <2>4, <2>6 DEF Date, Earlier
  <2>8. \A s \in Older(t) : s = e \/ Earlier(s, e)
    BY <1>1, <1>2, <1>4, <2>4, <2>5, <2>6 DEF Earlier
  <2> QED BY <1>1, <2>1, <2>6, <2>7, <2>8
<1>5. CASE t.mday = 1 /\ M = {} /\ Y # {}
  <2> DEFINE e == [year |-> Max(Y), mon |-> LastMonth, mday |-> LastDay]
  <2>1. Decremented(t) = {e}
    BY <1>1, <1>5 DEF Decremented
  <2>2. Max(Y) \in Y /\ \A k \in Y : k <= Max(Y)
    <3>1. Y \subseteq FirstYear..(t.year - 1) /\ FirstYear \in Int /\ t.year - 1 \in Int
      BY <1>1 DEF YearBefore
    <3> QED BY <3>1, <1>5, MaxFacts
  <2> DEFINE y == Max(Y)
  <2>3. y \in FirstYear..(t.year - 1) /\ ThisYear - y <= Nyears
    BY <2>2 DEF YearBefore
  <2>4. \A s \in Older(t) : s.year < t.year /\ s.year <= y
    <3> TAKE s \in Older(t)
    <3>1. ~(s.year = t.year /\ s.mon < t.mon)
      <4> SUFFICES ASSUME s.year = t.year, s.mon < t.mon PROVE FALSE
        OBVIOUS
      <4>1. s.mon \in M
        BY <1>1, <1>2 DEF MonthBefore, MonthExists
      <4> QED BY <4>1, <1>5
    <3>2. s.year < t.year
      BY <1>1, <1>2, <1>5, <3>1 DEF Earlier
    <3>3. s.year \in Y
      BY <1>1, <1>2, <3>2 DEF YearBefore, YearExists
    <3> QED BY <3>2, <3>3, <2>2
  <2> HIDE DEF y
  <2>5. e = [year |-> y, mon |-> LastMonth, mday |-> LastDay]
    BY DEF y
  <2>6. e \in Date /\ Earlier(e, t)
    BY <1>1, <2>3, <2>5 DEF Date, Earlier
  <2>7. \A s \in Older(t) : s = e \/ Earlier(s, e)
    BY <1>1, <1>2, <2>3, <2>4, <2>5 DEF Earlier
  <2> QED BY <2>1, <2>3, <2>5, <2>6, <2>7
<1>6. CASE t.mday = 1 /\ M = {} /\ Y = {}
  <2>1. Decremented(t) = {}
    BY <1>1, <1>6 DEF Decremented
  <2>2. Older(t) = {}
    <3> SUFFICES ASSUME NEW s \in Older(t) PROVE FALSE
      OBVIOUS
    <3>1. ~(s.year = t.year /\ s.mon < t.mon)
      <4> SUFFICES ASSUME s.year = t.year, s.mon < t.mon PROVE FALSE
        OBVIOUS
      <4>1. s.mon \in M
        BY <1>1, <1>2 DEF MonthBefore, MonthExists
      <4> QED BY <4>1, <1>6
    <3>2. s.year < t.year
      BY <1>1, <1>2, <1>6, <3>1 DEF Earlier
    <3>3. s.year \in Y
      BY <1>1, <1>2, <3>2 DEF YearBefore, YearExists
    <3> QED BY <3>3, <1>6
  <2> QED BY <2>1, <2>2
<1> QED BY <1>1, <1>3, <1>4, <1>5, <1>6
\* Appending a date earlier than all the others keeps a list newest first.
LEMMA AppendFacts ==
    ASSUME NEW s \in Seq(Date), NEW d \in Date,
           \A i \in DOMAIN s : Earlier(d, s[i]),
           \A i, j \in DOMAIN s : i < j => Earlier(s[j], s[i])
    PROVE  LET r == Append(s, d) IN
             /\ r \in Seq(Date)
             /\ {r[i] : i \in DOMAIN r} = {s[i] : i \in DOMAIN s} \cup {d}
             /\ \A i, j \in DOMAIN r : i < j => Earlier(r[j], r[i])
<1> DEFINE r == Append(s, d)
<1>1. /\ r \in Seq(Date) /\ Len(s) \in Nat
      /\ DOMAIN s = 1..Len(s) /\ DOMAIN r = 1..(Len(s) + 1)
      /\ \A i \in 1..Len(s) : r[i] = s[i]
      /\ r[Len(s) + 1] = d
  OBVIOUS
<1> HIDE DEF r
<1>2. {r[i] : i \in DOMAIN r} = {s[i] : i \in DOMAIN s} \cup {d}
  <2>1. \A i \in DOMAIN r : r[i] \in {s[k] : k \in DOMAIN s} \cup {d}
    <3> TAKE i \in DOMAIN r
    <3>1. i \in 1..Len(s) \/ i = Len(s) + 1
      BY <1>1
    <3> QED BY <3>1, <1>1
  <2>2. \A i \in DOMAIN s : s[i] \in {r[k] : k \in DOMAIN r}
    <3> TAKE i \in DOMAIN s
    <3>1. i \in DOMAIN r /\ r[i] = s[i]
      BY <1>1
    <3> QED BY <3>1
  <2>3. d \in {r[k] : k \in DOMAIN r}
    <3>1. Len(s) + 1 \in DOMAIN r
      BY <1>1
    <3> QED BY <3>1, <1>1
  <2> QED BY <2>1, <2>2, <2>3
<1>3. \A i, j \in DOMAIN r : i < j => Earlier(r[j], r[i])
  <2> TAKE i, j \in DOMAIN r
  <2>1. i < j => i \in DOMAIN s /\ r[i] = s[i] /\ (j \in DOMAIN s \/ j = Len(s) + 1)
    BY <1>1
  <2>2. j \in DOMAIN s => r[j] = s[j]
    BY <1>1
  <2> QED BY <1>1, <2>1, <2>2
<1> QED BY <1>1, <1>2, <1>3 DEF r

\* s is the dump before t: the file changed at t if their inodes differ.
LEMMA ChangeAfter ==
    ASSUME NEW s \in Date, NEW t \in InReach, s \in Older(t),
           \A u \in Older(t) : u = s \/ Earlier(u, s)
    PROVE  t \in Changes <=> inodeOf[s] # inodeOf[t]
<1>1. Latest(Older(t)) = s
  <2>1. \E x \in Older(t) : \A u \in Older(t) : u = x \/ Earlier(u, x)
    OBVIOUS
  <2>2. /\ Latest(Older(t)) \in Older(t)
        /\ \A u \in Older(t) : u = Latest(Older(t)) \/ Earlier(u, Latest(Older(t)))
    BY <2>1 DEF Latest
  <2>3. Older(t) \subseteq Date
    BY DEF Older, InReach
  <2> QED BY <2>2, <2>3, EarlierFacts
<1> QED BY <1>1 DEF Changes

----------------------------------------------------------------------------
\* The invariant.

\* The disk does not change, and what is computed from it stays.
LEMMA DiskStays ==
    ASSUME UNCHANGED inodeOf
    PROVE  /\ InReach' = InReach /\ Changes' = Changes
           /\ \A t \in Date : Older(t)' = Older(t)
  BY DEF InReach, Changes, Older, Latest

\* The types at the start.
LEMMA TypeInit == Init => TypeOK
<1> SUFFICES ASSUME Init PROVE TypeOK
  OBVIOUS
<1>1. today \in Date
  BY DEF Init
<1>2. PICK own \in UNION {kSubset(n, {t \in Date : ~Earlier(today, t)}) : n \in 0..MaxDumps} :
           \E other \in Date : \E changed \in SUBSET own :
             /\ dirs = own \cup {other}
             /\ inodeOf = [t \in Date |->
                    IF t \in own THEN 1 + Cardinality({c \in changed : ~Earlier(t, c)}) ELSE 0]
  BY DEF Init
<1>3. own \subseteq Date
  BY DEF kSubset
<1>4. \A changed \in SUBSET own, t \in Date :
         Cardinality({c \in changed : ~Earlier(t, c)}) \in Nat
  <2> TAKE changed \in SUBSET own, t \in Date
  <2>1. {c \in changed : ~Earlier(t, c)} \in SUBSET Date
    BY <1>3
  <2>2. IsFiniteSet({c \in changed : ~Earlier(t, c)})
    BY <2>1, DateFinite, FS_Subset
  <2> QED BY <2>2, FS_CardinalityType
<1>5. inodeOf \in [Date -> Nat]
  BY <1>2, <1>4
<1>6. dirs \subseteq Date
  BY <1>2, <1>3
<1>7. tm = today /\ inode = 0 /\ prev = today /\ printed = <<>> /\ done = FALSE
  BY DEF Init
<1>8. printed \in Seq(Date) /\ inode \in Nat
  BY <1>7
<1> QED BY <1>1, <1>5, <1>6, <1>7, <1>8 DEF TypeOK

\* The file is in no dump later than today, and each has a directory.
LEMMA HistoryInit == Init => HistoryInv
<1> SUFFICES ASSUME Init PROVE HistoryInv
  OBVIOUS
<1>1. TypeOK /\ tm = today /\ today.year = ThisYear /\ ~done /\ inode = 0 /\ printed = <<>>
  BY TypeInit DEF Init
<1>2. PICK own \in UNION {kSubset(n, {t \in Date : ~Earlier(today, t)}) : n \in 0..MaxDumps} :
           \E other \in Date : \E changed \in SUBSET own :
             /\ dirs = own \cup {other}
             /\ inodeOf = [t \in Date |->
                    IF t \in own THEN 1 + Cardinality({c \in changed : ~Earlier(t, c)}) ELSE 0]
  BY DEF Init
<1>3. own \subseteq {t \in Date : ~Earlier(today, t)}
  BY DEF kSubset
<1>4. DumpsHaveDirs
  BY <1>2, <1>3 DEF DumpsHaveDirs
<1>5. StaysInReach
  BY <1>1, CalendarAssumption DEF StaysInReach
<1>6. Passed = {}
  BY <1>1, <1>4 DEF Passed, InReach, DumpsHaveDirs
<1>7. FollowsLast
  BY <1>1, <1>6 DEF FollowsLast
<1>8. PrintsPassed
  BY <1>1, <1>6 DEF PrintsPassed
<1> QED BY <1>4, <1>5, <1>7, <1>8 DEF HistoryInv
\* What every step does to the dates gone past: it adds the date looked at, if
\* the file has a dump of it.
LEMMA PassedGrows ==
    ASSUME TypeOK, HistoryInv, Next
    PROVE  /\ UNCHANGED <<inodeOf, dirs, today>> /\ ~done /\ tm \in Date
           /\ Passed' = Passed \cup (IF inodeOf[tm] # 0 THEN {tm} ELSE {})
           /\ tm \notin Passed
           /\ inodeOf[tm] # 0 => tm \in InReach
           /\ DumpsHaveDirs' /\ StaysInReach' /\ tm' \in Date
           /\ Older(tm) \cup Passed = InReach \ {tm}
           /\ done' => Older(tm) = {}
<1>1. UNCHANGED <<inodeOf, dirs, today>> /\ ~done
  BY DEF Next, Back, LastFound, LastNotFound, Found, NotFound
<1>2. /\ inodeOf \in [Date -> Nat] /\ tm \in Date /\ DumpsHaveDirs
      /\ ThisYear - tm.year <= Nyears
  BY DEF TypeOK, HistoryInv, StaysInReach
<1>3. inodeOf[tm] # 0 => tm \in InReach
  BY <1>2 DEF InReach
<1>4. tm \notin Passed
  BY <1>1, <1>2, EarlierFacts DEF Passed
<1>5. Older(tm) \cup Passed = InReach \ {tm}
  <2>1. InReach \subseteq Date
    BY DEF InReach
  <2>2. Passed = {t \in InReach : Earlier(tm, t)}
    BY <1>1 DEF Passed
  <2>3. Older(tm) = {t \in InReach : Earlier(t, tm)}
    BY DEF Older
  <2> QED BY <1>2, <2>1, <2>2, <2>3, EarlierFacts
<1>6. DumpsHaveDirs'
  BY <1>1, <1>2 DEF DumpsHaveDirs
<1>7. InReach' = InReach /\ \A t \in Date : Older(t)' = Older(t)
  BY <1>1, DiskStays
<1>8. CASE Back
  <2>1. tm' \in Decremented(tm) /\ ~done'
    BY <1>1, <1>8 DEF Back
  <2>2. /\ tm' \in Date /\ ThisYear - tm'.year <= Nyears /\ Earlier(tm', tm)
        /\ \A s \in Older(tm) : s = tm' \/ Earlier(s, tm')
    BY <1>2, <2>1, DecrementFacts
  <2>3. StaysInReach'
    BY <2>1, <2>2 DEF StaysInReach
  <2>4. Passed' = {t \in InReach : Earlier(tm', t)}
    BY <1>7, <2>1 DEF Passed
  <2>5. Passed' = Passed \cup (IF inodeOf[tm] # 0 THEN {tm} ELSE {})
    <3>1. ASSUME NEW t \in InReach, Earlier(tm', t)
          PROVE  t \in Passed \/ t = tm
      <4>1. t \notin Older(tm)
        <5>1. t \in Date
          BY DEF InReach
        <5> QED BY <2>2, <3>1, <5>1, EarlierFacts
      <4> QED BY <1>5, <4>1
    <3>2. \A t \in Passed : t \in InReach /\ Earlier(tm', t)
      <4> TAKE t \in Passed
      <4>1. t \in InReach /\ t \in Date /\ Earlier(tm, t)
        BY <1>1 DEF Passed, InReach
      <4> QED BY <1>2, <2>2, <4>1, EarlierFacts
    <3>3. tm \in InReach => inodeOf[tm] # 0
      BY DEF InReach
    <3> QED BY <1>3, <2>2, <2>4, <3>1, <3>2, <3>3
  <2> QED BY <1>1, <1>2, <1>3, <1>4, <1>5, <1>6, <2>1, <2>2, <2>3, <2>5
<1>9. CASE LastFound \/ LastNotFound
  <2>1. Decremented(tm) = {} /\ done' = TRUE /\ tm' = tm
    BY <1>9 DEF LastFound, LastNotFound
  <2>2. Older(tm) = {}
    BY <1>2, <2>1, DecrementFacts
  <2>3. StaysInReach'
    BY <1>2, <1>7, <2>1, <2>2 DEF StaysInReach
  <2>4. Passed' = {t \in InReach : Earlier(tm, t) \/ t = tm}
    BY <1>7, <2>1 DEF Passed
  <2>5. Passed = {t \in InReach : Earlier(tm, t)}
    BY <1>1 DEF Passed
  <2>6. tm \in InReach => inodeOf[tm] # 0
    BY DEF InReach
  <2> QED BY <1>1, <1>2, <1>3, <1>4, <1>5, <1>6, <2>1, <2>2, <2>3, <2>4, <2>5, <2>6
<1> QED BY <1>8, <1>9 DEF Next

\* The version followed, before a step: its first dump is the last one gone past,
\* and nothing but the date looked at can be between it and what is left.
LEMMA Followed ==
    ASSUME TypeOK, HistoryInv, Next, inode # 0
    PROVE  /\ prev \in Passed /\ prev \in Date /\ prev # tm
           /\ Earlier(tm, prev)
           /\ inodeOf[prev] = inode
           /\ inodeOf[tm] # 0 => (prev \in Changes <=> inodeOf[tm] # inode)
           /\ inodeOf[tm] = 0 /\ Older(tm) = {} => prev \in Changes
<1>1. inodeOf[prev] = inode /\ prev \in Passed /\ \A t \in Passed : t = prev \/ Earlier(prev, t)
  BY DEF HistoryInv, FollowsLast, LastPassed
<1>2. /\ ~done /\ tm \in Date /\ tm \notin Passed
      /\ inodeOf[tm] # 0 => tm \in InReach
      /\ Older(tm) \cup Passed = InReach \ {tm}
  BY PassedGrows
<1>3. prev \in InReach /\ prev \in Date /\ Earlier(tm, prev)
  BY <1>1, <1>2 DEF Passed, InReach
<1>4. \A u \in Older(prev) : u = tm \/ u \in Older(tm)
  <2> TAKE u \in Older(prev)
  <2>1. u \in InReach /\ u \in Date /\ Earlier(u, prev)
    BY DEF Older, InReach
  <2>2. u \notin Passed
    BY <1>1, <1>3, <2>1, EarlierFacts
  <2> QED BY <1>2, <2>1, <2>2
<1>5. ASSUME inodeOf[tm] # 0
      PROVE  prev \in Changes <=> inodeOf[tm] # inode
  <2>1. tm \in Older(prev)
    BY <1>2, <1>3, <1>5 DEF Older
  <2>2. \A u \in Older(prev) : u = tm \/ Earlier(u, tm)
    BY <1>4 DEF Older
  <2> QED BY <1>1, <1>2, <1>3, <2>1, <2>2, ChangeAfter
<1>6. ASSUME inodeOf[tm] = 0, Older(tm) = {}
      PROVE  prev \in Changes
  <2>1. tm \notin InReach
    BY <1>6 DEF InReach
  <2>2. Older(prev) \subseteq InReach
    BY DEF Older
  <2>3. Older(prev) = {}
    BY <1>4, <1>6, <2>1, <2>2
  <2> QED BY <1>3, <2>3 DEF Changes
<1> QED BY <1>1, <1>2, <1>3, <1>5, <1>6
\* A step that prints the version followed if it is a change has printed every
\* change gone past.
LEMMA PrintsFollowed ==
    ASSUME TypeOK, HistoryInv, Next, NEW r, NEW c \in BOOLEAN,
           r = IF c THEN Append(printed, prev) ELSE printed,
           c <=> inode # 0 /\ prev \in Changes
    PROVE  /\ r \in Seq(Date)
           /\ {r[i] : i \in DOMAIN r} = Changes \cap Passed
           /\ \A i, j \in DOMAIN r : i < j => Earlier(r[j], r[i])
           /\ \A i \in DOMAIN r : Earlier(tm, r[i])
<1> DEFINE P == {printed[i] : i \in DOMAIN printed}
<1>1. /\ P = {t \in Changes \cap Passed : t # prev}
      /\ \A i, j \in DOMAIN printed : i < j => Earlier(printed[j], printed[i])
      /\ printed \in Seq(Date)
  BY PassedGrows DEF HistoryInv, PrintsPassed, TypeOK
<1>2. inode = 0 => Passed = {}
  BY DEF HistoryInv, FollowsLast, LastPassed, Passed, InReach
<1>3. \A t \in Passed : t \in Date /\ Earlier(tm, t)
  BY PassedGrows DEF Passed, InReach
<1>4. CASE c
  <2>1. prev \in Date /\ prev \in Passed /\ prev \in Changes
    BY <1>4, Followed
  <2>2. \A i \in DOMAIN printed : printed[i] \in Passed /\ printed[i] # prev
    BY <1>1
  <2>3. \A t \in Passed : t = prev \/ Earlier(prev, t)
    BY <2>1 DEF HistoryInv, FollowsLast, LastPassed
  <2>4. \A i \in DOMAIN printed : Earlier(prev, printed[i])
    BY <2>2, <2>3
  <2>5. r = Append(printed, prev)
    BY <1>4
  <2>6. /\ r \in Seq(Date)
        /\ {r[i] : i \in DOMAIN r} = P \cup {prev}
        /\ \A i, j \in DOMAIN r : i < j => Earlier(r[j], r[i])
    BY <1>1, <2>1, <2>4, <2>5, AppendFacts
  <2>7. P \cup {prev} = Changes \cap Passed
    BY <1>1, <2>1
  <2>8. \A i \in DOMAIN r : Earlier(tm, r[i])
    BY <1>3, <2>6, <2>7
  <2> QED BY <2>6, <2>7, <2>8
<1>5. CASE ~c
  <2>1. r = printed
    BY <1>5
  <2>2. P = Changes \cap Passed
    BY <1>1, <1>2, <1>5
  <2>3. \A i \in DOMAIN printed : Earlier(tm, printed[i])
    BY <1>3, <2>2
  <2> QED BY <1>1, <2>1, <2>2, <2>3
<1> QED BY <1>4, <1>5

\* A dump of the date looked at is followed next.
LEMMA FollowsFound ==
    ASSUME TypeOK, HistoryInv, Next, inodeOf[tm] # 0, inode' = inodeOf[tm], prev' = tm
    PROVE  FollowsLast'
<1>1. /\ Passed' = Passed \cup {tm} /\ tm \in Date /\ inodeOf' = inodeOf
      /\ ~done
  BY PassedGrows
<1>2. \A t \in Passed' : t = tm \/ Earlier(tm, t)
  BY <1>1 DEF Passed
<1> QED BY <1>1, <1>2 DEF FollowsLast, LastPassed

\* The inode differs from the one followed exactly where the file had changed.
LEMMA InodeChangesRight ==
    ASSUME TypeOK, HistoryInv, Next, inodeOf[tm] # 0
    PROVE  InodeChanges <=> inode # 0 /\ prev \in Changes
  BY Followed DEF InodeChanges

\* Every step keeps the types.
LEMMA TypeNext == TypeOK /\ HistoryInv /\ [Next]_vars => TypeOK'
<1> SUFFICES ASSUME TypeOK, HistoryInv, [Next]_vars PROVE TypeOK'
  OBVIOUS
<1>1. CASE UNCHANGED vars
  BY <1>1 DEF vars, TypeOK
<1>2. CASE Next
  <2>1. /\ UNCHANGED <<inodeOf, dirs, today>> /\ tm \in Date /\ tm' \in Date
        /\ inodeOf[tm] \in Nat /\ inode \in Nat /\ printed \in Seq(Date) /\ prev \in Date
    BY <1>2, PassedGrows DEF TypeOK
  <2>2. (inode' = inodeOf[tm] /\ prev' = tm) \/ UNCHANGED <<inode, prev>>
    BY <1>2 DEF Next, Back, Found, NotFound, LastFound, LastNotFound
  <2>3. inode' \in Nat /\ prev' \in Date
    BY <2>1, <2>2
  <2>4. printed' \in Seq(Date)
    <3> DEFINE r == IF InodeChanges THEN Append(printed, prev) ELSE printed
    <3>1. Append(printed, prev) \in Seq(Date)
      BY <2>1
    <3>2. r \in Seq(Date)
      BY <2>1, <3>1
    <3>3. r \o <<tm>> \in Seq(Date)
      BY <2>1, <3>2
    <3> QED BY <1>2, <2>1, <3>1, <3>2, <3>3
            DEF Next, Back, Found, NotFound, LastFound, LastNotFound
  <2>5. done' = TRUE \/ done' = done
    BY <1>2 DEF Next, Back, LastFound, LastNotFound
  <2>6. done' \in BOOLEAN
    BY <2>5 DEF TypeOK
  <2> QED BY <2>1, <2>3, <2>4, <2>6 DEF TypeOK
<1> QED BY <1>1, <1>2

\* Each step keeps the invariant.
LEMMA HistoryNext == TypeOK /\ HistoryInv /\ [Next]_vars => HistoryInv'
<1> SUFFICES ASSUME TypeOK, HistoryInv, [Next]_vars PROVE HistoryInv'
  OBVIOUS
<1>1. CASE UNCHANGED vars
  <2>1. UNCHANGED <<InReach, Changes, Older(tm), Passed, DumpsHaveDirs>>
    BY <1>1 DEF vars, InReach, Changes, Older, Latest, Passed, DumpsHaveDirs
  <2>2. UNCHANGED <<tm, done, inode, prev, inodeOf, printed>>
    BY <1>1 DEF vars
  <2> QED BY <2>1, <2>2 DEF HistoryInv, StaysInReach, FollowsLast, LastPassed, PrintsPassed
<1>2. CASE Next
  <2>1. /\ ~done /\ tm \in Date /\ tm \notin Passed /\ DumpsHaveDirs' /\ StaysInReach'
        /\ UNCHANGED inodeOf
        /\ Passed' = Passed \cup (IF inodeOf[tm] # 0 THEN {tm} ELSE {})
        /\ inodeOf[tm] # 0 => tm \in InReach
        /\ done' => Older(tm) = {}
    BY <1>2, PassedGrows
  <2>2. Changes' = Changes
    BY <2>1, DiskStays
  <2> DEFINE r == IF InodeChanges THEN Append(printed, prev) ELSE printed
  <2>3. ASSUME inodeOf[tm] # 0
        PROVE  /\ r \in Seq(Date)
               /\ {r[i] : i \in DOMAIN r} = Changes \cap Passed
               /\ \A i, j \in DOMAIN r : i < j => Earlier(r[j], r[i])
               /\ \A i \in DOMAIN r : Earlier(tm, r[i])
    <3>1. InodeChanges <=> inode # 0 /\ prev \in Changes
      BY <1>2, <2>3, InodeChangesRight
    <3>2. InodeChanges \in BOOLEAN
      BY DEF InodeChanges
    <3> QED BY <1>2, <3>1, <3>2, PrintsFollowed
  <2> HIDE DEF r
  <2>4. CASE Back /\ Found
    <3>1. /\ inodeOf[tm] # 0 /\ printed' = r /\ inode' = inodeOf[tm] /\ prev' = tm
          /\ done' = done
      BY <2>4 DEF Back, Found, r
    <3>2. FollowsLast'
      BY <1>2, <3>1, FollowsFound
    <3>3. PrintsPassed'
      <4>1. {t \in Changes \cap Passed' : ~done' => t # prev'} = Changes \cap Passed
        BY <2>1, <3>1
      <4> QED BY <2>2, <2>3, <3>1, <4>1 DEF PrintsPassed
    <3> QED BY <2>1, <3>2, <3>3 DEF HistoryInv
  <2>5. CASE Back /\ NotFound
    <3>1. /\ inodeOf[tm] = 0 /\ UNCHANGED <<printed, inode, prev, done, inodeOf>>
      BY <2>1, <2>5 DEF Back, NotFound
    <3>2. Passed' = Passed
      BY <2>1, <3>1
    <3> QED BY <2>1, <2>2, <3>1, <3>2
            DEF HistoryInv, FollowsLast, LastPassed, PrintsPassed
  <2>6. CASE LastFound
    <3>1. /\ inodeOf[tm] # 0 /\ printed' = r \o <<tm>> /\ inode' = inodeOf[tm] /\ prev' = tm
          /\ done' = TRUE
      BY <2>6 DEF LastFound, r
    <3>2. FollowsLast'
      BY <1>2, <3>1, FollowsFound
    <3>3. printed' = Append(r, tm)
      BY <2>1, <2>3, <3>1
    <3>4. /\ {printed'[i] : i \in DOMAIN printed'} = (Changes \cap Passed) \cup {tm}
          /\ \A i, j \in DOMAIN printed' : i < j => Earlier(printed'[j], printed'[i])
      <4> DEFINE q == Append(r, tm)
      <4>1. /\ {q[i] : i \in DOMAIN q} = {r[i] : i \in DOMAIN r} \cup {tm}
            /\ \A i, j \in DOMAIN q : i < j => Earlier(q[j], q[i])
        BY <2>1, <2>3, <3>1, AppendFacts
      <4> HIDE DEF q
      <4>2. printed' = q
        BY <3>3 DEF q
      <4> QED BY <2>3, <3>1, <4>1, <4>2
    <3>5. tm \in Changes
      BY <2>1, <3>1 DEF Changes
    <3>6. {t \in Changes \cap Passed' : ~done' => t # prev'} = (Changes \cap Passed) \cup {tm}
      BY <2>1, <3>1, <3>5
    <3>7. PrintsPassed'
      BY <2>2, <3>4, <3>6 DEF PrintsPassed
    <3> QED BY <2>1, <3>2, <3>7 DEF HistoryInv
  <2>7. CASE LastNotFound
    <3>1. /\ inodeOf[tm] = 0 /\ UNCHANGED <<inode, prev>> /\ done' = TRUE
          /\ printed' = IF inode # 0 THEN Append(printed, prev) ELSE printed
      BY <2>7 DEF LastNotFound
    <3>2. Passed' = Passed
      BY <2>1, <3>1
    <3>3. FollowsLast'
      BY <2>1, <3>1, <3>2 DEF HistoryInv, FollowsLast, LastPassed
    <3>4. inode # 0 <=> inode # 0 /\ prev \in Changes
      BY <1>2, <2>1, <3>1, Followed
    <3>5. /\ {printed'[i] : i \in DOMAIN printed'} = Changes \cap Passed
          /\ \A i, j \in DOMAIN printed' : i < j => Earlier(printed'[j], printed'[i])
      <4> DEFINE c == inode # 0
      <4>1. c \in BOOLEAN /\ (c <=> inode # 0 /\ prev \in Changes)
        BY <3>4
      <4>2. printed' = IF c THEN Append(printed, prev) ELSE printed
        BY <3>1
      <4> HIDE DEF c
      <4> QED BY <1>2, <4>1, <4>2, PrintsFollowed
    <3>6. {t \in Changes \cap Passed' : ~done' => t # prev'} = Changes \cap Passed
      BY <3>1, <3>2
    <3>7. PrintsPassed'
      BY <2>2, <3>5, <3>6 DEF PrintsPassed
    <3> QED BY <2>1, <3>3, <3>7 DEF HistoryInv
  <2> QED BY <1>2, <2>4, <2>5, <2>6, <2>7 DEF Next, Back
<1> QED BY <1>1, <1>2

----------------------------------------------------------------------------
\* The theorems.

\* Every variable keeps its type, and the invariant holds: what decrementDate()
\* jumps over has no dump, and what it went past is printed up to the version
\* prHistory() follows.
THEOREM HistoryInvariant == Spec => [](TypeOK /\ HistoryInv)
<1>1. Init => TypeOK /\ HistoryInv
  BY TypeInit, HistoryInit
<1>2. TypeOK /\ HistoryInv /\ [Next]_vars => (TypeOK /\ HistoryInv)'
  BY TypeNext, HistoryNext
<1> QED BY <1>1, <1>2, PTL DEF Spec

\* TypeOK holds in every reachable state.
THEOREM HistoryTyping == Spec => []TypeOK
  BY HistoryInvariant, PTL

\* A list without repetitions is as long as the set of what is in it.
LEMMA ListCardinality ==
    ASSUME NEW S, NEW s \in Seq(S), \A i, j \in DOMAIN s : i < j => s[i] # s[j]
    PROVE  Len(s) = Cardinality({s[i] : i \in DOMAIN s})
<1> DEFINE T == {s[i] : i \in DOMAIN s}
<1>1. Len(s) \in Nat /\ DOMAIN s = 1..Len(s)
  OBVIOUS
<1>2. s \in Bijection(1..Len(s), T)
  <2>1. s \in [1..Len(s) -> T]
    BY <1>1
  <2>2. \A i, j \in 1..Len(s) : s[i] = s[j] => i = j
    BY <1>1
  <2>3. \A t \in T : \E i \in 1..Len(s) : s[i] = t
    BY <1>1
  <2> QED BY <2>1, <2>2, <2>3 DEF Bijection, Injection, Surjection, IsInjective
<1>3. ExistsBijection(1..Len(s), T)
  BY <1>2 DEF ExistsBijection
<1>4. IsFiniteSet(1..Len(s)) /\ Cardinality(1..Len(s)) = Len(s)
  BY <1>1, FS_Interval
<1> QED BY <1>3, <1>4, FS_Bijection

\* The history that is printed is the one there is, in its order, whatever months
\* and years have no directory.
THEOREM HistoryIsRight == Spec => []HistoryRight
<1>1. TypeOK /\ HistoryInv => HistoryRight
  <2> SUFFICES ASSUME TypeOK, HistoryInv, done PROVE HistoryRight
    BY DEF HistoryRight
  <2>1. printed \in Seq(Date) /\ tm \in Date /\ Older(tm) = {}
    BY DEF TypeOK, HistoryInv, StaysInReach
  <2>2. Passed = InReach
    <3>1. \A t \in InReach : t = tm \/ Earlier(tm, t)
      BY <2>1, EarlierFacts DEF Older, InReach
    <3> QED BY <3>1 DEF Passed
  <2>3. /\ {printed[i] : i \in DOMAIN printed} = Changes
        /\ \A i, j \in DOMAIN printed : i < j => Earlier(printed[j], printed[i])
    BY <2>2 DEF HistoryInv, PrintsPassed, Changes
  <2>4. DOMAIN printed = 1..Len(printed) /\ Len(printed) \in Nat
        /\ \A i \in DOMAIN printed : printed[i] \in Date
    BY <2>1
  <2>5. \A i, j \in DOMAIN printed : i < j => printed[i] # printed[j]
    BY <2>3, <2>4, EarlierFacts
  <2>6. Len(printed) = Cardinality(Changes)
    BY <2>1, <2>3, <2>5, ListCardinality
  <2>7. \A i \in 1..(Len(printed) - 1) : Earlier(printed[i + 1], printed[i])
    BY <2>3, <2>4
  <2> QED BY <2>3, <2>4, <2>6, <2>7 DEF HistoryRight
<1> QED BY <1>1, HistoryInvariant, PTL
=============================================================================
