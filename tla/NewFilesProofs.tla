--------------------------- MODULE NewFilesProofs ---------------------------
(***************************************************************************)
(* Theorems about NewFiles for every calendar of short and long days,      *)
(* every set of paths and every set of dumps: which day's dump the asked   *)
(* one is compared with, what makeJournalTree() reads of the journal in    *)
(* it, whole or cut anywhere, and what is printed of the asked day.        *)
(*                                                                         *)
(* Induction over numbers goes through the set of the numbers for which    *)
(* something holds (Induction); a recursive function is known by its value *)
(* at zero and by its steps (Recursion).                                   *)
(***************************************************************************)
EXTENDS NewFiles, SequenceTheorems, FiniteSetTheorems, WellFoundedInduction, TLAPS

----------------------------------------------------------------------------
\* Lemmas on the clock.

\* The units of the calendar and their days.
LEMMA ClockFacts ==
    /\ Asked \in Nat \ {0} /\ Len(DayOf) \in Nat \ {0} /\ DOMAIN DayOf = 1..Len(DayOf)
    /\ \A u \in 1..Len(DayOf) : DayOf[u] \in Day
    /\ \A u, v \in 1..Len(DayOf) : u <= v => DayOf[u] <= DayOf[v]
    /\ \A d \in Day : d \in Nat \ {0}
    /\ Hours24 \in Nat \ {0}
<1>1. /\ Len(DayOf) \in Nat \ {0} /\ DOMAIN DayOf = 1..Len(DayOf)
      /\ \A u \in 1..Len(DayOf) : DayOf[u] \in Nat \ {0}
  BY NewFilesAssumption
<1>2. \A u, v \in 1..Len(DayOf) : u <= v => DayOf[u] <= DayOf[v]
  BY <1>1, NewFilesAssumption
<1>3. \A u \in 1..Len(DayOf) : DayOf[u] <= Asked
  BY <1>1, <1>2 DEF Asked
<1>4. Asked \in Nat \ {0}
  BY <1>1 DEF Asked
<1>5. \A u \in 1..Len(DayOf) : DayOf[u] \in Day
  BY <1>1, <1>3, <1>4 DEF Day
<1>6. \A d \in Day : d \in Nat \ {0}
  BY <1>4 DEF Day
<1> QED BY <1>1, <1>4, <1>5, <1>6, <1>2, NewFilesAssumption

\* A day that a step of 24 hours passes over is short.
LEMMA PassedIsShort ==
    ASSUME NEW u \in 1..Len(DayOf), NEW d \in Day, d < DayOf[u],
           u - Hours24 > 0 => DayOf[u - Hours24] < d
    PROVE  ShortDay(d)
<1> DEFINE w == u - Hours24
           between == (w + 1)..(u - 1)
<1>1. u \in Nat /\ w \in Int /\ Hours24 \in Nat \ {0} /\ d \in Nat
  BY ClockFacts
<1>2. UnitsOf(d) \subseteq between
  <2> SUFFICES ASSUME NEW v \in 1..Len(DayOf), DayOf[v] = d PROVE v \in between
    BY ClockFacts DEF UnitsOf
  <2>1. v < u
    BY ClockFacts
  <2>2. w < v
    <3>1. CASE w > 0
      <4>1. w \in 1..Len(DayOf)
        BY <1>1, <3>1, ClockFacts
      <4>2. DayOf[w] < d
        BY <3>1
      <4>3. DayOf[w] \in Nat
        BY <4>1, ClockFacts
      <4>4. v <= w => DayOf[v] <= DayOf[w]
        BY <4>1, ClockFacts
      <4>5. ~(v <= w)
        BY <1>1, <4>2, <4>3, <4>4
      <4> QED BY <1>1, <4>5
    <3>2. CASE w <= 0
      BY <1>1, <3>2
    <3> QED BY <1>1, <3>1, <3>2
  <2> QED BY <1>1, <2>1, <2>2
<1>3. IsFiniteSet(between) /\ Cardinality(between) = Hours24 - 1
  <2>1. /\ IsFiniteSet(between)
        /\ Cardinality(between) = IF w + 1 > u - 1 THEN 0 ELSE u - 1 - (w + 1) + 1
    <3>1. w + 1 \in Int /\ u - 1 \in Int
      BY <1>1
    <3> QED BY <3>1, FS_Interval
  <2> QED BY <1>1, <2>1
<1>4. /\ IsFiniteSet(UnitsOf(d)) /\ Cardinality(UnitsOf(d)) <= Cardinality(between)
      /\ Cardinality(UnitsOf(d)) \in Nat
  BY <1>2, <1>3, FS_Subset, FS_CardinalityType
<1> QED BY <1>1, <1>3, <1>4 DEF ShortDay

\* A day that a step of 24 hours does not leave is long.
LEMMA StayedIsLong ==
    ASSUME NEW u \in 1..Len(DayOf), u - Hours24 > 0, DayOf[u - Hours24] = DayOf[u]
    PROVE  LongDay(DayOf[u])
<1> DEFINE w == u - Hours24
           d == DayOf[u]
<1>1. w \in 1..Len(DayOf) /\ u \in Nat /\ Hours24 \in Nat \ {0} /\ w <= u /\ DayOf[w] = d
  BY ClockFacts
<1>2. w..u \subseteq UnitsOf(d)
  <2> SUFFICES ASSUME NEW v \in w..u PROVE v \in UnitsOf(d)
    OBVIOUS
  <2>1. v \in 1..Len(DayOf)
    BY <1>1, ClockFacts
  <2>2. DayOf[w] <= DayOf[v] /\ DayOf[v] <= DayOf[u]
    BY <1>1, <2>1, ClockFacts
  <2> QED BY <1>1, <2>1, <2>2, ClockFacts DEF UnitsOf
<1>3. UnitsOf(d) \subseteq 1..Len(DayOf)
  BY ClockFacts DEF UnitsOf
<1>4. IsFiniteSet(1..Len(DayOf))
  BY ClockFacts, FS_Interval
<1>5. IsFiniteSet(UnitsOf(d)) /\ Cardinality(UnitsOf(d)) \in Nat
  BY <1>3, <1>4, FS_Subset, FS_CardinalityType
<1>6. Cardinality(w..u) <= Cardinality(UnitsOf(d))
  BY <1>2, <1>5, FS_Subset
<1>7. Cardinality(w..u) = Hours24 + 1
  <2>1. Cardinality(w..u) = IF w > u THEN 0 ELSE u - w + 1
    BY <1>1, FS_Interval
  <2> QED BY <1>1, <2>1
<1> QED BY <1>1, <1>5, <1>6, <1>7 DEF LongDay

----------------------------------------------------------------------------
\* The invariant.

\* The program starts in the day asked for.
LEMMA SearchInit == Init => SearchInv
<1> SUFFICES ASSUME Init PROVE SearchInv
  OBVIOUS
<1>1. dir \in [Day -> Kind]
  BY DEF Init, DiskLeft
<1>2. t \in UnitsOf(Asked) /\ pc = "set" /\ last = 0
  BY DEF Init
<1>3. t \in 1..Len(DayOf) /\ DayOf[t] = Asked
  BY <1>2, ClockFacts DEF UnitsOf
<1>4. t \in Int /\ t <= Len(DayOf) /\ t > 0
  BY <1>3, ClockFacts
<1> QED BY <1>1, <1>2, <1>3, <1>4 DEF SearchInv, LastDayFound

\* A turn of the loop of setBkupDir() passes over short days only.
LEMMA BackSearches == SearchInv /\ Back => SearchInv'
<1> SUFFICES ASSUME SearchInv, Back PROVE SearchInv'
  OBVIOUS
<1>1. /\ pc = "back" /\ t' = t - Hours24 /\ UNCHANGED dir
      /\ t \in 1..Len(DayOf) /\ last = 0 /\ dir \in [Day -> Kind]
      /\ \A d \in Earlier : d >= DayOf[t] => ShortDay(d)
  BY ClockFacts DEF Back, OneDayBefore, disk, SearchInv
<1>2. Earlier' = Earlier /\ Earlier \subseteq Day
  BY <1>1, ClockFacts DEF Earlier, Day
<1>3. t' \in Int /\ t' < t /\ t' <= Len(DayOf) /\ (t' > 0 => t' \in 1..Len(DayOf))
  BY <1>1, ClockFacts
<1>4. \A d \in Earlier : (t' > 0 => DayOf[t'] < d) => ShortDay(d)
  <2> TAKE d \in Earlier
  <2>1. d \in Day /\ d \in Nat /\ DayOf[t] \in Nat
    BY <1>1, <1>2, ClockFacts
  <2>2. CASE d >= DayOf[t]
    BY <1>1, <2>2
  <2>3. CASE d < DayOf[t]
    BY <1>1, <2>1, <2>3, PassedIsShort
  <2> QED BY <2>1, <2>2, <2>3
<1>5. CASE t' <= 0
  <2>1. pc' = "first" /\ last' = 0
    BY <1>1, <1>3, <1>5 DEF Back
  <2>2. \A d \in Earlier : ShortDay(d)
    BY <1>3, <1>4, <1>5
  <2> QED BY <1>1, <1>2, <1>3, <2>1, <2>2 DEF SearchInv, LastDayFound
<1>6. CASE t' > 0 /\ HasDir(DayOf[t'])
  <2>1. pc' = "load" /\ last' = DayOf[t']
    BY <1>6 DEF Back
  <2>2. DayOf[t'] \in Day /\ DayOf[t'] \in Nat \ {0} /\ DayOf[t'] <= DayOf[t] /\ DayOf[t] <= Asked
    BY <1>1, <1>3, <1>6, ClockFacts DEF Day
  <2>3. CASE DayOf[t'] = Asked
    <3>1. DayOf[t] = Asked
      BY <1>1, <2>2, <2>3, ClockFacts
    <3>2. LongDay(Asked)
      BY <1>1, <1>6, <2>3, <3>1, StayedIsLong
    <3> QED BY <1>1, <1>2, <1>3, <2>1, <2>2, <2>3, <3>2 DEF SearchInv, LastDayFound
  <2>4. CASE DayOf[t'] # Asked
    <3>1. DayOf[t'] \in Earlier
      BY <1>6, <2>2, <2>4, ClockFacts DEF Earlier, HasDir, Day
    <3>2. \A d \in Earlier : d > DayOf[t'] => ShortDay(d)
      BY <1>2, <1>4, <2>2, ClockFacts
    <3> QED BY <1>1, <1>2, <1>3, <2>1, <2>2, <3>1, <3>2 DEF SearchInv, LastDayFound
  <2> QED BY <2>3, <2>4
<1>7. CASE t' > 0 /\ ~HasDir(DayOf[t'])
  <2>1. pc' = "back" /\ last' = 0
    BY <1>1, <1>3, <1>7 DEF Back
  <2>2. DayOf[t'] \notin Earlier
    BY <1>7 DEF Earlier, HasDir
  <2>3. \A d \in Earlier : d >= DayOf[t'] => ShortDay(d)
    BY <1>2, <1>3, <1>4, <1>7, <2>2, ClockFacts
  <2> QED BY <1>1, <1>2, <1>3, <1>7, <2>1, <2>3 DEF SearchInv, LastDayFound
<1> QED BY <1>3, <1>5, <1>6, <1>7

\* What a day found is compared with is not changed by the rest of the program.
LEMMA SearchNext == SearchInv /\ [Next]_vars => SearchInv'
<1> SUFFICES ASSUME SearchInv, [Next]_vars PROVE SearchInv'
  OBVIOUS
<1>1. ASSUME UNCHANGED <<dir, t, last>>, pc' # "back" \/ pc = "back",
             pc' # "set" \/ pc = "set", pc' # "first" \/ pc = "first",
             pc' \in {"load", "walk", "done", "nojournal"} =>
                 pc \in {"load", "walk", "done", "nojournal"}
      PROVE  SearchInv'
  <2>1. Earlier' = Earlier
    BY <1>1 DEF Earlier
  <2> QED BY <1>1, <2>1 DEF SearchInv, LastDayFound
<1>2. CASE UNCHANGED vars
  BY <1>1, <1>2 DEF vars, disk
<1>3. CASE SetBkupDir
  <2>1. /\ pc = "set" /\ pc' \in {"back", "nodump"} /\ UNCHANGED <<dir, t, last>>
    BY <1>3 DEF SetBkupDir, disk
  <2>2. Earlier' = Earlier
    BY <2>1 DEF Earlier
  <2>3. \A d \in Earlier : ~(d >= DayOf[t])
    BY <2>1, ClockFacts DEF SearchInv, Earlier
  <2> QED BY <2>1, <2>2, <2>3 DEF SearchInv, LastDayFound
<1>4. CASE Back
  BY <1>4, BackSearches
<1>5. CASE Load \/ ShowFile \/ WalkEnds
  <2>1. /\ UNCHANGED <<dir, t, last>> /\ pc \in {"load", "walk"}
        /\ pc' \in {"walk", "done", "nojournal"}
    BY <1>5 DEF Load, ShowFile, WalkEnds, disk
  <2> QED BY <1>1, <2>1
<1> QED BY <1>2, <1>3, <1>4, <1>5 DEF Next

----------------------------------------------------------------------------
\* Induction.

\* Induction over the naturals, for the members of a set.
LEMMA Induction ==
    ASSUME NEW S, 0 \in S, \A n \in Nat : n \in S => n + 1 \in S
    PROVE  Nat \subseteq S
<1> DEFINE T == Nat \ S
           Less == {q \in Nat \X Nat : q[1] < q[2]}
<1> SUFFICES ASSUME T # {} PROVE FALSE
  OBVIOUS
<1>1. IsWellFoundedOn(Less, Nat)
  BY NatLessThanWellFounded DEF OpToRel
<1> HIDE DEF Less
<1>2. PICK n \in T : \A m \in T : ~(<<m, n>> \in Less)
  BY <1>1, WFMin
<1>3. n # 0 /\ n - 1 \in Nat /\ n \in Nat /\ (n - 1) + 1 = n
  OBVIOUS
<1>4. <<n - 1, n>> \in Less
  BY <1>3 DEF Less
<1>5. n - 1 \in S
  BY <1>2, <1>3, <1>4
<1> QED BY <1>3, <1>5

\* A set of integers between two bounds has a greatest and a least member.
LEMMA MaxFacts ==
    ASSUME NEW S, NEW n \in Nat, S \subseteq 0..n, S # {}
    PROVE  Max(S) \in S /\ \A k \in S : k <= Max(S)
<1> DEFINE P == {m \in Nat : S \cap 0..m # {} =>
                     \E x \in S \cap 0..m : \A y \in S \cap 0..m : y <= x}
<1>1. 0 \in P
  OBVIOUS
<1>2. \A m \in Nat : m \in P => m + 1 \in P
  <2> TAKE m \in Nat
  <2>1. CASE m + 1 \in S
    BY <2>1
  <2>2. CASE m + 1 \notin S
    <3>1. S \cap 0..(m + 1) = S \cap 0..m
      BY <2>2
    <3> QED BY <3>1
  <2> QED BY <2>1, <2>2
<1> HIDE DEF P
<1>3. n \in P
  BY <1>1, <1>2, Induction
<1>4. S \cap 0..n = S
  OBVIOUS
<1>5. PICK x \in S : \A y \in S : y <= x
  BY <1>3, <1>4 DEF P
<1>6. \A y \in S : x >= y
  BY <1>5
<1> QED BY <1>6 DEF Max

\* A least member is the minimum.
LEMMA MinFacts ==
    ASSUME NEW S, S \subseteq Nat, NEW x \in S, \A y \in S : x <= y
    PROVE  Min(S) = x
<1>1. Min(S) \in S /\ \A y \in S : Min(S) <= y
  BY DEF Min
<1> DEFINE m == Min(S)
<1>2. m \in Nat /\ x \in Nat /\ m <= x /\ x <= m
  BY <1>1
<1> HIDE DEF m
<1>3. m = x
  BY <1>2
<1> QED BY <1>3 DEF m

\* A greatest member is the maximum.
LEMMA MaxIs ==
    ASSUME NEW S, S \subseteq Nat, NEW x \in S, \A y \in S : x >= y
    PROVE  Max(S) = x
<1>1. Max(S) \in S /\ \A y \in S : Max(S) >= y
  BY DEF Max
<1> DEFINE m == Max(S)
<1>2. m \in Nat /\ x \in Nat /\ m <= x /\ x <= m
  BY <1>1
<1> HIDE DEF m
<1>3. m = x
  BY <1>2
<1> QED BY <1>3 DEF m

\* What a recursive function does at each number from 1 to N.
Steps(X, N) == [1..N -> [X -> X]]

\* A function is defined by what it is at 0 and by each of its steps.
LEMMA Recursion ==
    ASSUME NEW X, NEW N \in Nat, NEW x0 \in X, NEW step \in Steps(X, N)
    PROVE  \E f \in [0..N -> X] : f[0] = x0 /\ \A n \in 1..N : f[n] = step[n][f[n - 1]]
<1> DEFINE P == {k \in Nat : k <= N =>
                     \E f \in [0..k -> X] : f[0] = x0 /\ \A n \in 1..k : f[n] = step[n][f[n - 1]]}
<1>1. 0 \in P
  <2> DEFINE f == [n \in 0..0 |-> x0]
  <2>1. f \in [0..0 -> X] /\ f[0] = x0 /\ \A n \in 1..0 : f[n] = step[n][f[n - 1]]
    OBVIOUS
  <2> QED BY <2>1
<1>2. ASSUME NEW k \in Nat, k \in P PROVE k + 1 \in P
  <2> SUFFICES ASSUME k + 1 <= N
               PROVE  \E f \in [0..(k + 1) -> X] :
                          f[0] = x0 /\ \A n \in 1..(k + 1) : f[n] = step[n][f[n - 1]]
    OBVIOUS
  <2>1. PICK f \in [0..k -> X] : f[0] = x0 /\ \A n \in 1..k : f[n] = step[n][f[n - 1]]
    BY <1>2
  <2> DEFINE g == [n \in 0..(k + 1) |-> IF n = k + 1 THEN step[n][f[k]] ELSE f[n]]
  <2>2. step[k + 1][f[k]] \in X
    BY <2>1 DEF Steps
  <2>3. g \in [0..(k + 1) -> X] /\ g[0] = x0
    BY <2>1, <2>2
  <2>4. \A n \in 1..(k + 1) : g[n] = step[n][g[n - 1]]
    <3> TAKE n \in 1..(k + 1)
    <3>1. CASE n = k + 1
      BY <3>1
    <3>2. CASE n # k + 1
      <4>1. n \in 1..k /\ n - 1 \in 0..k /\ n - 1 # k + 1
        BY <3>2
      <4>2. g[n] = f[n] /\ g[n - 1] = f[n - 1]
        BY <4>1
      <4> QED BY <2>1, <4>1, <4>2
    <3> QED BY <3>1, <3>2
  <2> HIDE DEF g
  <2> QED BY <2>3, <2>4
<1> HIDE DEF P
<1>3. N \in P
  BY <1>1, <1>2, Induction
<1> QED BY <1>3 DEF P

----------------------------------------------------------------------------
\* Sequences.

\* The walk gives each of the paths it is asked for, and no other.
LEMMA InWalkFacts ==
    ASSUME NEW S, S \subseteq Paths
    PROVE  InWalk(S) \in Seq(S) /\ ToSet(InWalk(S)) = S
<1> DEFINE N == Len(WalkOrder)
           G(n, x) == IF WalkOrder[n] \in S THEN Append(x, WalkOrder[n]) ELSE x
           step == [n \in 1..N |-> [x \in Seq(S) |-> G(n, x)]]
           IsGiven(g) == g = [n \in 0..N |->
                       IF n = 0 THEN <<>>
                       ELSE IF WalkOrder[n] \in S THEN Append(g[n - 1], WalkOrder[n])
                       ELSE g[n - 1]]
           given == CHOOSE g : IsGiven(g)
<1>1. N \in Nat /\ WalkOrder \in Seq(Paths) /\ ToSet(WalkOrder) = Paths
  BY NewFilesAssumption
<1>2. InWalk(S) = given[N]
  BY DEF InWalk
<1>3. \A n \in 1..N : \A x \in Seq(S) : G(n, x) \in Seq(S)
  BY AppendProperties
<1>4. <<>> \in Seq(S)
  BY EmptySeq
<1> HIDE DEF N
<1>5. \E g : IsGiven(g)
  <2> HIDE DEF G
  <2>1. step \in [1..N -> [Seq(S) -> Seq(S)]]
    BY <1>3
  <2>2. \A n \in 1..N : \A x \in Seq(S) : step[n][x] = G(n, x)
    OBVIOUS
  <2> DEFINE X == Seq(S)
             st == step
             x0 == <<>>
  <2> HIDE DEF X, st, x0
  <2>3. PICK f \in [0..N -> X] : f[0] = x0 /\ \A n \in 1..N : f[n] = st[n][f[n - 1]]
    <3>1. N \in Nat /\ x0 \in X /\ st \in Steps(X, N)
      BY <1>1, <1>4, <2>1 DEF X, st, x0, Steps
    <3> QED BY <3>1, Recursion
  <2>4. \A n \in 1..N : f[n - 1] \in Seq(S)
    BY <1>1, <2>3 DEF X
  <2>5. \A n \in 1..N : f[n] = G(n, f[n - 1])
    BY <2>2, <2>3, <2>4 DEF st
  <2>6. \A n \in 0..N : n # 0 => n \in 1..N
    BY <1>1
  <2>7. \A n \in 0..N : f[n] = IF n = 0 THEN <<>>
                       ELSE IF WalkOrder[n] \in S THEN Append(f[n - 1], WalkOrder[n])
                       ELSE f[n - 1]
    BY <2>3, <2>5, <2>6 DEF G, x0
  <2>8. IsGiven(f)
    BY <2>3, <2>7
  <2> QED BY <2>8
<1>6. IsGiven(given)
  BY <1>5
<1> HIDE DEF given
<1>7. \A n \in 1..N : n \in 0..N /\ n # 0
  BY <1>1
<1>8. given[0] = <<>> /\ \A n \in 1..N : given[n] = G(n, given[n - 1])
  <2> DEFINE F(n) == IF n = 0 THEN <<>>
                     ELSE IF WalkOrder[n] \in S THEN Append(given[n - 1], WalkOrder[n])
                     ELSE given[n - 1]
  <2>1. given = [n \in 0..N |-> F(n)]
    BY <1>6
  <2> HIDE DEF F
  <2>2. \A n \in 0..N : given[n] = F(n)
    BY <2>1
  <2>3. 0 \in 0..N
    BY <1>1
  <2>4. \A n \in 1..N : given[n] = F(n)
    BY <1>7, <2>2
  <2> QED BY <1>7, <2>2, <2>3, <2>4 DEF F
<1> HIDE DEF IsGiven
<1> DEFINE W(n) == {WalkOrder[i] : i \in 1..n}
           P == {n \in Nat : n <= N => given[n] \in Seq(S) /\ ToSet(given[n]) = W(n) \cap S}
<1>9. 0 \in P
  <2>1. ToSet(<<>>) = {}
    BY DEF ToSet
  <2>2. W(0) = {}
    OBVIOUS
  <2> HIDE DEF W
  <2> QED BY <1>4, <1>8, <2>1, <2>2
<1>10. ASSUME NEW n \in Nat, n \in P PROVE n + 1 \in P
  <2> DEFINE w == WalkOrder[n + 1]
  <2>1. W(n + 1) = W(n) \cup {w}
    OBVIOUS
  <2> HIDE DEF W
  <2> SUFFICES ASSUME n + 1 <= N
               PROVE  /\ given[n + 1] \in Seq(S)
                      /\ ToSet(given[n + 1]) = W(n + 1) \cap S
    OBVIOUS
  <2>2. given[n] \in Seq(S) /\ ToSet(given[n]) = W(n) \cap S
    BY <1>1, <1>10
  <2>3. given[n + 1] = IF w \in S THEN Append(given[n], w) ELSE given[n]
    <3>1. n + 1 \in 1..N /\ (n + 1) - 1 = n
      BY <1>1
    <3>2. given[n + 1] = G(n + 1, given[(n + 1) - 1])
      BY <1>8, <3>1
    <3> QED BY <3>1, <3>2
  <2>4. CASE w \in S
    <3> DEFINE x == given[n]
               y == Append(x, w)
    <3>1. /\ x \in Seq(S) /\ y \in Seq(S) /\ Len(y) = Len(x) + 1 /\ y[Len(x) + 1] = w
          /\ \A i \in 1..Len(x) : y[i] = x[i]
      BY <2>2, <2>4, AppendProperties
    <3> HIDE DEF x, y
    <3>2. ToSet(y) = ToSet(x) \cup {w}
      BY <3>1 DEF ToSet
    <3> QED BY <2>1, <2>2, <2>3, <2>4, <3>1, <3>2 DEF x, y
  <2>5. CASE w \notin S
    BY <2>1, <2>2, <2>3, <2>5
  <2> QED BY <2>4, <2>5
<1> HIDE DEF P
<1>11. N \in P
  BY <1>1, <1>9, <1>10, Induction
<1>12. W(N) = Paths
  BY <1>1 DEF ToSet, N
<1> HIDE DEF W
<1>13. given[N] \in Seq(S) /\ ToSet(given[N]) = W(N) \cap S
  BY <1>1, <1>11 DEF P
<1> QED BY <1>2, <1>12, <1>13

\* What paths and lines are made of.
PathSymbol == UNION {ToSet(p) : p \in Paths}
Symbol == PathSymbol \cup Times \cup {NL, Blank}

\* Where the text s of a line stands in the text T, after o symbols.
Stands(T, s, o) == /\ o + Len(s) <= Len(T)
                   /\ \A j \in 1..Len(s) : T[o + j] = s[j]
                   /\ o = 0 \/ T[o] = NL

\* The texts that are lines in a row.
Stacked(lines) == {T \in Seq(Symbol) :
    /\ T = <<>> \/ T[Len(T)] = NL
    /\ \A s \in lines : \E o \in Nat : Stands(T, s, o)
    /\ \A e \in 1..Len(T) : \E s \in lines, o \in Nat : Stands(T, s, o) /\ o < e /\ e <= o + Len(s)}

\* Another line.
LEMMA StackedMore ==
    ASSUME NEW lines, lines \subseteq Seq(Symbol), NEW T \in Stacked(lines),
           NEW s \in Seq(Symbol), s # <<>>, s[Len(s)] = NL
    PROVE  T \o s \in Stacked(lines \cup {s})
<1> DEFINE U == T \o s
<1>1. T \in Seq(Symbol) /\ (T = <<>> \/ T[Len(T)] = NL)
  BY DEF Stacked
<1>2. /\ U \in Seq(Symbol) /\ Len(U) = Len(T) + Len(s)
      /\ \A i \in 1..Len(T) : U[i] = T[i]
      /\ \A j \in 1..Len(s) : U[Len(T) + j] = s[j]
  <2>1. /\ U \in Seq(Symbol) /\ Len(U) = Len(T) + Len(s)
        /\ \A i \in 1..(Len(T) + Len(s)) : U[i] = IF i <= Len(T) THEN T[i] ELSE s[i - Len(T)]
    BY <1>1, ConcatProperties
  <2> HIDE DEF U
  <2>2. Len(T) \in Nat /\ Len(s) \in Nat
    BY <1>1
  <2>3. ASSUME NEW j \in 1..Len(s) PROVE U[Len(T) + j] = s[j]
    <3>1. Len(T) + j \in 1..(Len(T) + Len(s)) /\ ~(Len(T) + j <= Len(T)) /\ Len(T) + j - Len(T) = j
      BY <2>2
    <3> QED BY <2>1, <3>1
  <2> QED BY <2>1, <2>2, <2>3
<1>3. Len(T) \in Nat /\ Len(s) \in Nat /\ Len(s) > 0
  BY <1>1
<1> HIDE DEF U
<1>4. Stands(U, s, Len(T))
  <2>1. Len(T) = 0 \/ U[Len(T)] = NL
    BY <1>1, <1>2, <1>3
  <2> QED BY <1>2, <1>3, <2>1 DEF Stands
<1>5. ASSUME NEW x \in lines, NEW o \in Nat, Stands(T, x, o) PROVE Stands(U, x, o)
  <2>1. /\ o + Len(x) <= Len(T) /\ Len(x) \in Nat
        /\ \A j \in 1..Len(x) : T[o + j] = x[j] /\ o + j \in 1..Len(T)
        /\ o = 0 \/ (T[o] = NL /\ o \in 1..Len(T))
    BY <1>3, <1>5 DEF Stands
  <2> QED BY <1>2, <1>3, <2>1 DEF Stands
<1>6. U # <<>> /\ U[Len(U)] = NL
  <2>1. Len(s) \in 1..Len(s)
    BY <1>3
  <2> QED BY <1>2, <1>3, <2>1
<1>7. \A x \in lines \cup {s} : \E o \in Nat : Stands(U, x, o)
  BY <1>3, <1>4, <1>5 DEF Stacked
<1>8. ASSUME NEW e \in 1..Len(U)
      PROVE  \E x \in lines \cup {s}, o \in Nat : Stands(U, x, o) /\ o < e /\ e <= o + Len(x)
  <2>1. CASE e <= Len(T)
    <3>1. e \in 1..Len(T)
      BY <1>3, <2>1
    <3>2. PICK x \in lines, o \in Nat : Stands(T, x, o) /\ o < e /\ e <= o + Len(x)
      BY <3>1 DEF Stacked
    <3> QED BY <1>5, <3>2
  <2>2. CASE e > Len(T)
    BY <1>2, <1>3, <1>4, <2>2
  <2> QED BY <1>3, <2>1, <2>2
<1> QED BY <1>2, <1>6, <1>7, <1>8 DEF Stacked, U

\* FlattenSeq() of lines.
LEMMA Flattened ==
    ASSUME NEW ls \in Seq(Seq(Symbol)),
           \A i \in 1..Len(ls) : ls[i] # <<>> /\ ls[i][Len(ls[i])] = NL
    PROVE  FlattenSeq(ls) \in Stacked({ls[i] : i \in 1..Len(ls)})
<1> DEFINE N == Len(ls)
           R(i) == {ls[j] : j \in 1..i}
<1>1. N \in Nat /\ \A i \in 1..N : ls[i] \in Seq(Symbol) /\ ls[i] # <<>> /\ ls[i][Len(ls[i])] = NL
  OBVIOUS
<1>2. CASE N = 0
  <2>1. ls = <<>> /\ FlattenSeq(ls) = ls
    BY <1>2 DEF FlattenSeq
  <2>2. <<>> \in Seq(Symbol) /\ Len(<<>>) = 0
    OBVIOUS
  <2>3. R(N) = {}
    BY <1>2
  <2> HIDE DEF R
  <2>4. <<>> \in Stacked({})
    BY <2>2 DEF Stacked
  <2>5. R(N) = {ls[i] : i \in 1..Len(ls)}
    BY DEF R
  <2> QED BY <2>1, <2>3, <2>4, <2>5
<1>3. CASE N # 0
  <2> DEFINE IsFlat(g) == g = [i \in 1..N |-> IF i = 1 THEN ls[i] ELSE g[i - 1] \o ls[i]]
             flat == CHOOSE g : IsFlat(g)
  <2>1. FlattenSeq(ls) = flat[N]
    BY <1>3 DEF FlattenSeq
  <2>2. \E g : IsFlat(g)
    <3> DEFINE X == Seq(Symbol)
               st == [n \in 1..N |-> [x \in X |-> x \o ls[n]]]
               x0 == <<>>
    <3>1. \A n \in 1..N : \A x \in X : x \o ls[n] \in X
      BY <1>1, ConcatProperties
    <3>2. /\ x0 \in X /\ st \in Steps(X, N)
          /\ \A n \in 1..N : \A x \in X : st[n][x] = x \o ls[n]
      BY <3>1 DEF Steps
    <3> HIDE DEF X, st, x0, N
    <3>3. PICK f \in [0..N -> X] : f[0] = x0 /\ \A n \in 1..N : f[n] = st[n][f[n - 1]]
      <4>1. N \in Nat
        BY <1>1
      <4>2. x0 \in X /\ st \in Steps(X, N)
        BY <3>2
      <4> QED BY <4>1, <4>2, Recursion
    <3>4. \A n \in 1..N : f[n - 1] \in X
      <4>1. \A n \in 1..N : n - 1 \in 0..N
        BY <1>1
      <4> QED BY <3>3, <4>1
    <3>5. \A n \in 1..N : f[n] = f[n - 1] \o ls[n]
      BY <3>2, <3>3, <3>4
    <3>6. f[1] = ls[1]
      <4>1. 1 \in 1..N /\ 1 - 1 = 0
        BY <1>1, <1>3
      <4>2. f[1] = <<>> \o ls[1]
        BY <3>3, <3>5, <4>1 DEF x0
      <4> QED BY <1>1, <4>1, <4>2, ConcatEmptySeq
    <3> DEFINE g == [n \in 1..N |-> f[n]]
    <3>7. \A n \in 1..N : n # 1 => n - 1 \in 1..N
      BY <1>1
    <3>8. \A n \in 1..N : g[n] = IF n = 1 THEN ls[n] ELSE g[n - 1] \o ls[n]
      BY <3>5, <3>6, <3>7
    <3>9. g = [n \in 1..N |-> g[n]]
      OBVIOUS
    <3> HIDE DEF g
    <3>10. IsFlat(g)
      BY <3>8, <3>9
    <3> QED BY <3>10
  <2>3. IsFlat(flat)
    BY <2>2
  <2> HIDE DEF flat, N
  <2>4. \A i \in 1..N : flat[i] = IF i = 1 THEN ls[i] ELSE flat[i - 1] \o ls[i]
    <3> DEFINE F(i) == IF i = 1 THEN ls[i] ELSE flat[i - 1] \o ls[i]
    <3>1. flat = [i \in 1..N |-> F(i)]
      BY <2>3
    <3> HIDE DEF F
    <3>2. \A i \in 1..N : flat[i] = F(i)
      BY <3>1
    <3> QED BY <3>2 DEF F
  <2> HIDE DEF IsFlat
  <2> DEFINE P == {n \in Nat : n + 1 <= N => flat[n + 1] \in Stacked(R(n + 1))}
  <2>5. ASSUME NEW i \in 0..(N - 1)
        PROVE  R(i + 1) = R(i) \cup {ls[i + 1]} /\ R(i) \subseteq Seq(Symbol)
    <3>1. 1..(i + 1) = 1..i \cup {i + 1} /\ \A j \in 1..i : j \in 1..N
      BY <1>1
    <3> QED BY <1>1, <3>1
  <2>6. R(0) = {}
    OBVIOUS
  <2> HIDE DEF R
  <2>7. 0 \in P
    <3>1. 1 \in 1..N /\ 0 \in 0..(N - 1)
      BY <1>1, <1>3
    <3>2. flat[1] = ls[1] /\ ls[1] \in Seq(Symbol)
      BY <1>1, <2>4, <3>1
    <3>3. R(1) = {} \cup {ls[1]}
      <4>1. R(0 + 1) = R(0) \cup {ls[0 + 1]}
        BY <2>5, <3>1
      <4>2. 0 + 1 = 1
        OBVIOUS
      <4> QED BY <2>6, <4>1, <4>2
    <3>4. <<>> \in Stacked({})
      BY EmptySeq DEF Stacked
    <3>5. <<>> \o ls[1] \in Stacked({} \cup {ls[1]})
      BY <1>1, <3>1, <3>4, StackedMore
    <3>6. <<>> \o ls[1] = ls[1]
      BY <3>2, ConcatEmptySeq
    <3>7. flat[1] \in Stacked(R(1))
      BY <3>2, <3>3, <3>5, <3>6
    <3> QED BY <3>7
  <2>8. ASSUME NEW n \in Nat, n \in P PROVE n + 1 \in P
    <3> SUFFICES ASSUME n + 1 + 1 <= N PROVE flat[n + 1 + 1] \in Stacked(R(n + 1 + 1))
      OBVIOUS
    <3> DEFINE m == n + 1
    <3>1. m \in Nat /\ m <= N /\ m \in 0..(N - 1) /\ m + 1 \in 1..N /\ m + 1 # 1 /\ (m + 1) - 1 = m
      BY <1>1
    <3>2. flat[m] \in Stacked(R(m))
      BY <2>8, <3>1
    <3> HIDE DEF m
    <3>3. flat[m + 1] = flat[m] \o ls[m + 1]
      BY <2>4, <3>1
    <3>4. flat[m] \o ls[m + 1] \in Stacked(R(m) \cup {ls[m + 1]})
      BY <1>1, <2>5, <3>1, <3>2, StackedMore
    <3>5. flat[m + 1] \in Stacked(R(m + 1))
      BY <2>5, <3>1, <3>3, <3>4
    <3> QED BY <3>5 DEF m
  <2> HIDE DEF P
  <2>9. N - 1 \in P
    <3>1. N - 1 \in Nat
      BY <1>1, <1>3
    <3>2. Nat \subseteq P
      BY <2>7, <2>8, Induction
    <3> QED BY <3>1, <3>2
  <2>10. flat[N] \in Stacked(R(N))
    <3>1. (N - 1) + 1 = N /\ N <= N
      BY <1>1
    <3>2. (N - 1) + 1 <= N => flat[(N - 1) + 1] \in Stacked(R((N - 1) + 1))
      BY <2>9 DEF P
    <3> QED BY <3>1, <3>2
  <2> QED BY <2>1, <2>10 DEF R, N
<1> QED BY <1>2, <1>3

\* The value of a time that was written: one before 1970 does not fit.
Value(x) == IF x = "neg" THEN <<"LONG_MAX">> ELSE <<x>>

\* Where a run of symbols ends.
LEMMA PastIs ==
    ASSUME NEW line \in Seq(Symbol), NEW S, NEW k \in 1..(Len(line) + 1), NEW x \in k..(Len(line) + 1),
           \A j \in k..(x - 1) : line[j] \in S, x <= Len(line) => line[x] \notin S
    PROVE  Past(line, k, S) = x
<1> DEFINE M == {j \in k..Len(line) : line[j] \notin S} \cup {Len(line) + 1}
<1>1. Len(line) \in Nat
  OBVIOUS
<1>2. x \in M /\ M \subseteq Nat
  BY <1>1
<1>3. \A y \in M : x <= y
  BY <1>1
<1> HIDE DEF M
<1>4. Min(M) = x
  BY <1>2, <1>3, MinFacts
<1> QED BY <1>4 DEF Past, M

\* strtol() of one time.
LEMMA StrtolOne ==
    ASSUME NEW line \in Seq(Symbol), NEW k \in 1..Len(line), NEW x \in k..Len(line),
           x = k \/ (x = k + 1 /\ line[k] = Blank),
           line[x] \in Times, x < Len(line) => line[x + 1] \in {Blank, "/"}
    PROVE  Strtol(line, k) = [value |-> Value(line[x]), s |-> x + 1]
<1>1. Len(line) \in Nat
  OBVIOUS
<1>2. Past(line, k, {Blank}) = x
  <2>1. line[x] \notin {Blank}
    BY DEF Times, Blank
  <2>2. \A j \in k..(x - 1) : line[j] \in {Blank}
    BY <1>1
  <2>3. k \in 1..(Len(line) + 1) /\ x \in k..(Len(line) + 1)
    BY <1>1
  <2> QED BY <2>1, <2>2, <2>3, PastIs
<1>3. Past(line, x, HexDigits) = x + 1
  <2>1. x + 1 <= Len(line) => line[x + 1] \notin HexDigits
    BY <1>1 DEF HexDigits, Times, Blank
  <2>2. \A j \in x..((x + 1) - 1) : line[j] \in HexDigits
    BY <1>1 DEF HexDigits
  <2>3. x \in 1..(Len(line) + 1) /\ x + 1 \in x..(Len(line) + 1)
    BY <1>1
  <2> QED BY <2>1, <2>2, <2>3, PastIs
<1>4. SubSeq(line, x, (x + 1) - 1) = <<line[x]>>
  <2> DEFINE d == SubSeq(line, x, (x + 1) - 1)
  <2>1. x \in Int /\ (x + 1) - 1 = x /\ (x + 1) - 1 \in Int /\ x - x + 1 = 1
        /\ \A i \in x..((x + 1) - 1) : line[i] \in Symbol
    BY <1>1
  <2>2. d \in Seq(Symbol) /\ Len(d) = 1 /\ d[1] = line[x]
    <3>1. /\ d \in Seq(Symbol) /\ Len(d) = IF x <= (x + 1) - 1 THEN (x + 1) - 1 - x + 1 ELSE 0
          /\ \A i \in 1..((x + 1) - 1 - x + 1) : d[i] = line[x + i - 1]
      BY <2>1, SubSeqProperties
    <3> QED BY <1>1, <3>1
  <2> HIDE DEF d
  <2>3. d = <<line[x]>>
    BY <2>2
  <2> QED BY <2>3 DEF d
<1> DEFINE u == line[x]
           digits == <<u>>
<1>5. Strtol(line, k) = CASE digits = <<>> -> [value |-> <<>>, s |-> k]
         [] digits = <<"neg">> -> [value |-> <<"LONG_MAX">>, s |-> x + 1]
         [] OTHER -> [value |-> digits, s |-> x + 1]
  BY <1>2, <1>3, <1>4 DEF Strtol
<1> HIDE DEF u
<1>6. digits # <<>> /\ (digits = <<"neg">> <=> u = "neg")
  OBVIOUS
<1>7. Strtol(line, k) = [value |-> Value(u), s |-> x + 1]
  BY <1>5, <1>6 DEF Value
<1> QED BY <1>7 DEF u

\* strtol() where no time is.
LEMMA StrtolNone ==
    ASSUME NEW line \in Seq(Symbol), NEW k \in 1..(Len(line) + 1), Len(line) < k \/ (k = Len(line) /\ line[k] = Blank)
    PROVE  Strtol(line, k) = [value |-> <<>>, s |-> k]
<1> DEFINE n == Len(line) + 1
<1>1. Len(line) \in Nat /\ n \in Nat
  OBVIOUS
<1>2. Past(line, k, {Blank}) = n
  <2>1. /\ n \in k..(Len(line) + 1) /\ ~(n <= Len(line)) /\ \A j \in k..(n - 1) : line[j] \in {Blank}
    BY <1>1
  <2> HIDE DEF n
  <2> QED BY <2>1, PastIs
<1>3. Past(line, n, HexDigits) = n
  <2>1. /\ n \in 1..(Len(line) + 1) /\ n \in n..(Len(line) + 1) /\ ~(n <= Len(line))
        /\ \A j \in n..(n - 1) : line[j] \in HexDigits
    BY <1>1
  <2> HIDE DEF n
  <2> QED BY <2>1, PastIs
<1> DEFINE digits == SubSeq(line, n, n - 1)
<1>4. digits = <<>>
  BY <1>1, SubSeqEmpty
<1> HIDE DEF n
<1>5. Strtol(line, k) = CASE digits = <<>> -> [value |-> <<>>, s |-> k]
         [] digits = <<"neg">> -> [value |-> <<"LONG_MAX">>, s |-> n]
         [] OTHER -> [value |-> digits, s |-> n]
  BY <1>2, <1>3 DEF Strtol
<1> HIDE DEF digits
<1>6. digits # <<"neg">>
  BY <1>4
<1> QED BY <1>4, <1>5, <1>6

\* The beginning of a line that LineOf() wrote.
Begins(line, c, m) == /\ line \in Seq(Symbol)
                      /\ Len(line) >= 1 => line[1] = c
                      /\ Len(line) >= 2 => line[2] = Blank
                      /\ Len(line) >= 3 => line[3] = m
                      /\ Len(line) >= 4 => line[4] = Blank
                      /\ Len(line) >= 5 => line[5] = "/"

\* A line with a path is read as it was written, and a shorter one has no path.
LEMMA ReadBegins ==
    ASSUME NEW c \in Times, NEW m \in Times, NEW line, Begins(line, c, m)
    PROVE  IF Len(line) >= 5
           THEN ReadLine(line) = [path |-> SubSeq(line, 5, Len(line)), ctime |-> Value(c), mtime |-> Value(m)]
           ELSE ReadLine(line).path = <<>>
<1>1. line \in Seq(Symbol) /\ Len(line) \in Nat
  BY DEF Begins
<1>2. CASE Len(line) = 0
  <2>1. Strtol(line, 1) = [value |-> <<>>, s |-> 1]
    <3>1. 1 \in 1..(Len(line) + 1) /\ Len(line) < 1
      BY <1>2
    <3> QED BY <1>1, <3>1, StrtolNone
  <2>2. SubSeq(line, 2, Len(line)) = <<>>
    BY <1>1, <1>2, SubSeqEmpty
  <2> QED BY <1>2, <2>1, <2>2 DEF ReadLine
<1>3. CASE Len(line) >= 1
  <2>1. Strtol(line, 1) = [value |-> Value(c), s |-> 2]
    <3>1. /\ 1 \in 1..Len(line) /\ 1 \in 1..Len(line) /\ line[1] = c
          /\ 1 < Len(line) => line[1 + 1] \in {Blank, "/"}
      BY <1>1, <1>3 DEF Begins
    <3>2. Strtol(line, 1) = [value |-> Value(line[1]), s |-> 1 + 1]
      BY <1>1, <3>1, StrtolOne
    <3> QED BY <3>1, <3>2
  <2>2. CASE Len(line) <= 2
    <3>1. Strtol(line, 2) = [value |-> <<>>, s |-> 2]
      <4>1. CASE Len(line) = 1
        <5>1. 2 \in 1..(Len(line) + 1) /\ Len(line) < 2
          BY <4>1
        <5> QED BY <1>1, <5>1, StrtolNone
      <4>2. CASE Len(line) = 2
        <5>1. 2 \in 1..(Len(line) + 1) /\ Len(line) = 2 /\ line[2] = Blank
          BY <4>2 DEF Begins
        <5> QED BY <1>1, <5>1, StrtolNone
      <4>3. \A n \in Nat : n >= 1 /\ n <= 2 => n = 1 \/ n = 2
        OBVIOUS
      <4> QED BY <1>1, <1>3, <2>2, <4>1, <4>2, <4>3
    <3>2. SubSeq(line, 3, Len(line)) = <<>>
      BY <1>1, <2>2, SubSeqEmpty
    <3> QED BY <1>1, <2>1, <2>2, <3>1, <3>2 DEF ReadLine
  <2>3. CASE Len(line) >= 3
    <3>1. Strtol(line, 2) = [value |-> Value(m), s |-> 4]
      <4>1. /\ 2 \in 1..Len(line) /\ 3 \in 2..Len(line) /\ line[2] = Blank /\ line[3] = m
            /\ 3 < Len(line) => line[3 + 1] \in {Blank, "/"}
        BY <1>1, <2>3 DEF Begins
      <4>2. Strtol(line, 2) = [value |-> Value(line[3]), s |-> 3 + 1]
        BY <1>1, <4>1, StrtolOne
      <4> QED BY <4>1, <4>2
    <3> DEFINE path == SubSeq(line, 5, Len(line))
    <3>2. ReadLine(line) = [path |-> path, ctime |-> Value(c), mtime |-> Value(m)]
      <4>1. 4 + 1 = 5
        OBVIOUS
      <4>2. path = SubSeq(line, 4 + 1, Len(line))
        BY <4>1
      <4> HIDE DEF path
      <4> DEFINE p1 == Strtol(line, 1)
                 p2 == Strtol(line, 2)
      <4>3. p1.s = 2 /\ p1.value = Value(c) /\ p2.s = 4 /\ p2.value = Value(m)
        BY <2>1, <3>1
      <4>4. ReadLine(line) = [path |-> SubSeq(line, Strtol(line, p1.s).s + 1, Len(line)),
                              ctime |-> p1.value, mtime |-> Strtol(line, p1.s).value]
        BY DEF ReadLine
      <4>5. Strtol(line, p1.s) = p2
        BY <4>3
      <4> HIDE DEF p1, p2
      <4> QED BY <4>2, <4>3, <4>4, <4>5
    <3>3. Len(line) < 5 => SubSeq(line, 5, Len(line)) = <<>>
      BY <1>1, SubSeqEmpty
    <3> QED BY <1>1, <3>2, <3>3
  <2> QED BY <1>1, <2>2, <2>3
<1> QED BY <1>1, <1>2, <1>3

\* Paths and times are texts of symbols; a path begins with a slash.
LEMMA Symbols ==
    /\ Times \subseteq Symbol /\ Blank \in Symbol /\ NL \in Symbol
    /\ \A p \in Paths : p \in Seq(Symbol) /\ Len(p) \in Nat /\ Len(p) > 0 /\ p[1] = "/"
<1>1. Times \subseteq Symbol /\ Blank \in Symbol /\ NL \in Symbol /\ PathSymbol \subseteq Symbol
  BY DEF Symbol
<1>2. ASSUME NEW p \in Paths PROVE ToSet(p) \subseteq PathSymbol
  BY DEF PathSymbol
<1>4. ASSUME NEW p \in Paths PROVE p \in Seq(Symbol) /\ Len(p) \in Nat /\ Len(p) > 0 /\ p[1] = "/"
  <2>1. p \in Seq(STRING) /\ p # <<>> /\ p[1] = "/"
    BY NewFilesAssumption
  <2>2. \A i \in 1..Len(p) : p[i] \in ToSet(p)
    BY <2>1 DEF ToSet
  <2>3. \A i \in 1..Len(p) : p[i] \in Symbol
    BY <1>1, <1>2, <2>2
  <2> QED BY <2>1, <2>3
<1> QED BY <1>1, <1>4

\* Two texts in a row.
LEMMA Joined ==
    ASSUME NEW a \in Seq(Symbol), NEW b \in Seq(Symbol)
    PROVE  /\ a \o b \in Seq(Symbol) /\ Len(a \o b) = Len(a) + Len(b)
           /\ Len(a) \in Nat /\ Len(b) \in Nat
           /\ \A i \in 1..Len(a) : (a \o b)[i] = a[i]
           /\ \A j \in 1..Len(b) : (a \o b)[Len(a) + j] = b[j]
<1> DEFINE s == a \o b
<1>1. /\ s \in Seq(Symbol) /\ Len(s) = Len(a) + Len(b)
      /\ \A i \in 1..(Len(a) + Len(b)) : s[i] = IF i <= Len(a) THEN a[i] ELSE b[i - Len(a)]
  BY ConcatProperties
<1> HIDE DEF s
<1>2. Len(a) \in Nat /\ Len(b) \in Nat
  OBVIOUS
<1>3. \A i \in 1..Len(a) : s[i] = a[i]
  BY <1>1, <1>2
<1>4. \A j \in 1..Len(b) : s[Len(a) + j] = b[j]
  <2> TAKE j \in 1..Len(b)
  <2>1. Len(a) + j \in 1..(Len(a) + Len(b)) /\ ~(Len(a) + j <= Len(a)) /\ (Len(a) + j) - Len(a) = j
    BY <1>2
  <2> QED BY <1>1, <2>1
<1> QED BY <1>1, <1>2, <1>3, <1>4 DEF s

\* The line of a path.
LineOfPath(p) == LineOf(Entry(p))

\* What is where in a line.
LEMMA LineFacts ==
    ASSUME NEW p \in Paths
    PROVE  /\ LineOfPath(p) \in Seq(Symbol) /\ Len(LineOfPath(p)) = Len(p) + 5
           /\ LineOfPath(p)[1] = StampOf[p][1] /\ LineOfPath(p)[2] = Blank
           /\ LineOfPath(p)[3] = StampOf[p][2] /\ LineOfPath(p)[4] = Blank
           /\ \A j \in 1..Len(p) : LineOfPath(p)[4 + j] = p[j]
           /\ LineOfPath(p)[Len(p) + 5] = NL
           /\ StampOf[p][1] \in Times /\ StampOf[p][2] \in Times
<1> DEFINE c == StampOf[p][1]
           m == StampOf[p][2]
<1>1. p \in Seq(Symbol) /\ Len(p) \in Nat
  BY Symbols
<1>2. c \in Times /\ m \in Times
  BY NewFilesAssumption
<1> HIDE DEF c, m
<1>3. c \in Symbol /\ m \in Symbol /\ Blank \in Symbol /\ NL \in Symbol
  BY <1>2, Symbols
<1> DEFINE h == <<c, Blank, m, Blank>>
           g == <<NL>>
           hp == h \o p
           s == hp \o g
<1>4. LineOfPath(p) = s
  BY DEF LineOfPath, LineOf, Entry, c, m
<1>5. h \in Seq(Symbol) /\ Len(h) = 4 /\ h[1] = c /\ h[2] = Blank /\ h[3] = m /\ h[4] = Blank
  BY <1>3
<1>6. g \in Seq(Symbol) /\ Len(g) = 1 /\ g[1] = NL
  BY <1>3
<1> HIDE DEF h, g
<1>7. /\ hp \in Seq(Symbol) /\ Len(hp) = Len(h) + Len(p)
      /\ \A i \in 1..Len(h) : hp[i] = h[i]
      /\ \A j \in 1..Len(p) : hp[Len(h) + j] = p[j]
  BY <1>1, <1>5, Joined
<1> HIDE DEF hp
<1>8. /\ s \in Seq(Symbol) /\ Len(s) = Len(hp) + Len(g)
      /\ \A i \in 1..Len(hp) : s[i] = hp[i]
      /\ \A j \in 1..Len(g) : s[Len(hp) + j] = g[j]
  BY <1>6, <1>7, Joined
<1> HIDE DEF s
<1>9. Len(hp) = 4 + Len(p) /\ Len(s) = Len(p) + 5
  BY <1>1, <1>5, <1>6, <1>7, <1>8
<1>10. s[1] = c /\ s[2] = Blank /\ s[3] = m /\ s[4] = Blank
  <2>1. \A i \in 1..4 : i \in 1..Len(hp)
    BY <1>1, <1>9
  <2>2. \A i \in 1..4 : s[i] = h[i]
    BY <1>5, <1>7, <1>8, <2>1
  <2> QED BY <1>5, <2>2
<1>11. \A j \in 1..Len(p) : s[4 + j] = p[j]
  <2>1. \A j \in 1..Len(p) : 4 + j \in 1..Len(hp)
    BY <1>1, <1>9
  <2>2. \A j \in 1..Len(p) : hp[4 + j] = p[j]
    BY <1>5, <1>7
  <2> QED BY <1>8, <2>1, <2>2
<1>12. s[Len(p) + 5] = NL
  <2>1. Len(hp) + 1 = Len(p) + 5 /\ 1 \in 1..Len(g)
    BY <1>1, <1>6, <1>9
  <2> QED BY <1>6, <1>8, <2>1
<1> QED BY <1>2, <1>4, <1>8, <1>9, <1>10, <1>11, <1>12 DEF c, m

\* The text of a set of paths is their lines.
LEMMA LinesStacked ==
    ASSUME NEW S, S \subseteq Paths
    PROVE  Lines(S) \in Stacked({LineOfPath(p) : p \in S})
<1> DEFINE paths == InWalk(S)
           N == Len(paths)
           entries == [i \in DOMAIN paths |-> Entry(paths[i])]
           ls == [i \in DOMAIN entries |-> LineOf(entries[i])]
<1>1. paths \in Seq(S) /\ ToSet(paths) = S
  BY InWalkFacts
<1>2. Lines(S) = FlattenSeq(ls)
  BY DEF Lines, TextOf
<1> HIDE DEF paths
<1>3. N \in Nat /\ DOMAIN paths = 1..N /\ \A i \in 1..N : paths[i] \in S
  BY <1>1
<1>4. ls = [i \in 1..N |-> LineOfPath(paths[i])]
  BY <1>3 DEF LineOfPath
<1> HIDE DEF ls, N
<1>5. \A i \in 1..N : /\ LineOfPath(paths[i]) \in Seq(Symbol) /\ LineOfPath(paths[i]) # <<>>
                      /\ LineOfPath(paths[i])[Len(LineOfPath(paths[i]))] = NL
  <2> TAKE i \in 1..N
  <2> DEFINE p == paths[i]
             s == LineOfPath(p)
  <2>1. p \in Paths
    BY <1>3
  <2> HIDE DEF p
  <2>2. s \in Seq(Symbol) /\ Len(s) = Len(p) + 5 /\ s[Len(p) + 5] = NL /\ Len(p) \in Nat
    BY <2>1, LineFacts, Symbols
  <2> HIDE DEF s
  <2>3. s # <<>> /\ s[Len(s)] = NL
    BY <2>2
  <2> QED BY <2>2, <2>3 DEF s, p
<1>6. ls \in Seq(Seq(Symbol)) /\ Len(ls) = N
  BY <1>3, <1>4, <1>5
<1>7. \A i \in 1..N : ls[i] = LineOfPath(paths[i])
  BY <1>4
<1>8. FlattenSeq(ls) \in Stacked({ls[i] : i \in 1..Len(ls)})
  BY <1>5, <1>6, <1>7, Flattened
<1>9. {ls[i] : i \in 1..Len(ls)} = {LineOfPath(p) : p \in S}
  <2>1. S = {paths[i] : i \in 1..N}
    BY <1>1, <1>3 DEF ToSet
  <2> QED BY <1>6, <1>7, <2>1
<1> QED BY <1>2, <1>8, <1>9

\* What a line is read as that has the path q and the stamps of p.
Stamped(p, q) == [path |-> q, ctime |-> Value(StampOf[p][1]), mtime |-> Value(StampOf[p][2])]

\* A place in a text up to which the line of p is read, or a rest of it that
\* begins after a newline of p.
IsBeginning(p, m, l) == /\ m >= 5 => l = Stamped(p, SubSeq(p, 1, m - 4))
                        /\ m < 5 => l.path = <<>>
IsRest(p, m, line) == \E a \in 1..(m - 4) : p[a] = NL /\ line = SubSeq(p, a + 1, m - 4)

\* What getline() returns where the line of p stands.
LEMMA LineAt ==
    ASSUME NEW p \in Paths, NEW W, NEW o \in Nat, Stands(W, LineOfPath(p), o),
           NEW T \in Seq(Symbol), \A i \in 1..Len(T) : T[i] = W[i],
           NEW e \in 1..Len(T), o < e, e <= o + Len(p) + 5
    PROVE  LET m == e - 1 - o
               line == Chopped(T, e)
           IN IsBeginning(p, m, ReadLine(line)) \/ (m <= Len(p) + 4 /\ IsRest(p, m, line))
<1> DEFINE m == e - 1 - o
           line == Chopped(T, e)
           c == StampOf[p][1]
           d == StampOf[p][2]
           s == LineOfPath(p)
           M == {j \in 1..(e - 1) : T[j] = NL} \cup {0}
<1>1. Len(T) \in Nat /\ Len(p) \in Nat /\ Len(p) > 0 /\ p[1] = "/" /\ p \in Seq(Symbol)
  BY Symbols
<1>2. /\ s \in Seq(Symbol) /\ Len(s) = Len(p) + 5
      /\ s[1] = c /\ s[2] = Blank /\ s[3] = d /\ s[4] = Blank
      /\ \A j \in 1..Len(p) : s[4 + j] = p[j]
      /\ c \in Times /\ d \in Times
  BY LineFacts
<1>3. \A j \in 1..Len(s) : W[o + j] = s[j]
  BY DEF Stands
<1>4. o = 0 \/ W[o] = NL
  BY DEF Stands
<1> HIDE DEF s
<1>5. \A j \in 1..(m + 1) : o + j \in 1..Len(T) /\ j \in 1..Len(s) /\ T[o + j] = s[j]
  <2> TAKE j \in 1..(m + 1)
  <2>1. o + j \in 1..Len(T) /\ j \in 1..Len(s)
    BY <1>1, <1>2
  <2> QED BY <1>3, <2>1
<1>6. M \subseteq 0..(e - 1) /\ 0 \in M /\ e - 1 \in Nat
  BY <1>1
<1>7. o \in M
  <2>1. CASE o = 0
    BY <2>1, <1>6
  <2>2. CASE o # 0
    <3>1. o \in 1..(e - 1) /\ o \in 1..Len(T)
      BY <1>1, <2>2
    <3> QED BY <1>4, <2>2, <3>1
  <2> QED BY <2>1, <2>2
<1> DEFINE x == Max(M)
<1>8. x \in M /\ o <= x
  <2>1. M # {}
    BY <1>6
  <2> HIDE DEF M
  <2> QED BY <1>6, <1>7, <2>1, MaxFacts
<1>9. line = SubSeq(T, 1 + x, e - 1)
  BY DEF Chopped, LineStart
<1>10. x \in Nat /\ x <= e - 1 /\ (x # 0 => T[x] = NL)
  BY <1>6, <1>8
<1> HIDE DEF x, M, c, d
<1>11. m \in Nat /\ e - 1 = o + m /\ m <= Len(p) + 4
  BY <1>1
<1> HIDE DEF m, line
<1>12. CASE x = o
  <2>1. /\ line \in Seq(Symbol) /\ Len(line) = m
        /\ \A i \in 1..m : line[i] = s[i]
    <3>1. /\ 1 + x \in Int /\ e - 1 \in Int /\ \A i \in (1 + x)..(e - 1) : T[i] \in Symbol
          /\ e - 1 - (1 + x) + 1 = m /\ (1 + x <= e - 1 <=> m > 0)
      BY <1>1, <1>11, <1>12
    <3>2. /\ line \in Seq(Symbol) /\ Len(line) = IF 1 + x <= e - 1 THEN e - 1 - (1 + x) + 1 ELSE 0
          /\ \A i \in 1..(e - 1 - (1 + x) + 1) : line[i] = T[1 + x + i - 1]
      BY <1>9, <3>1, SubSeqProperties
    <3>3. \A i \in 1..m : i \in 1..(m + 1) /\ 1 + x + i - 1 = o + i
      BY <1>11, <1>12
    <3>4. \A i \in 1..m : line[i] = s[i]
      BY <1>5, <3>1, <3>2, <3>3
    <3>5. Len(line) = m
      BY <1>11, <3>1, <3>2
    <3> QED BY <3>2, <3>4, <3>5
  <2>2. Begins(line, c, d)
    <3>1. m >= 5 => line[5] = "/"
      <4>1. m >= 5 => 5 \in 1..m /\ 1 \in 1..Len(p) /\ 4 + 1 = 5
        BY <1>1, <1>11
      <4> QED BY <1>1, <1>2, <2>1, <4>1
    <3>2. /\ m >= 1 => 1 \in 1..m
          /\ m >= 2 => 2 \in 1..m
          /\ m >= 3 => 3 \in 1..m
          /\ m >= 4 => 4 \in 1..m
      BY <1>11
    <3> QED BY <1>2, <2>1, <3>1, <3>2 DEF Begins
  <2>3. CASE m >= 5
    <3>1. ReadLine(line) = [path |-> SubSeq(line, 5, Len(line)), ctime |-> Value(c), mtime |-> Value(d)]
      BY <1>2, <2>1, <2>2, <2>3, ReadBegins
    <3>2. SubSeq(line, 5, Len(line)) = SubSeq(p, 1, m - 4)
      <4> DEFINE u == SubSeq(line, 5, m)
                 v == SubSeq(p, 1, m - 4)
      <4>1. u \in Seq(Symbol) /\ Len(u) = m - 4 /\ \A i \in 1..(m - 4) : u[i] = line[i + 4]
        <5>1. 5 \in Int /\ m \in Int /\ \A i \in 5..m : line[i] \in Symbol
          BY <1>11, <2>1
        <5>2. /\ u \in Seq(Symbol) /\ Len(u) = IF 5 <= m THEN m - 5 + 1 ELSE 0
              /\ \A i \in 1..(m - 5 + 1) : u[i] = line[5 + i - 1]
          BY <5>1, SubSeqProperties
        <5>3. \A i \in 1..(m - 4) : i \in 1..(m - 5 + 1) /\ 5 + i - 1 = i + 4
          BY <1>11
        <5>4. \A i \in 1..(m - 4) : u[i] = line[i + 4]
          BY <5>2, <5>3
        <5>5. Len(u) = m - 4
          BY <1>11, <2>3, <5>2
        <5> QED BY <5>2, <5>4, <5>5
      <4>2. v \in Seq(Symbol) /\ Len(v) = m - 4 /\ \A i \in 1..(m - 4) : v[i] = p[i]
        <5>1. 1 \in Int /\ m - 4 \in Int /\ \A i \in 1..(m - 4) : p[i] \in Symbol
          BY <1>1, <1>11
        <5>2. /\ v \in Seq(Symbol) /\ Len(v) = IF 1 <= m - 4 THEN m - 4 - 1 + 1 ELSE 0
              /\ \A i \in 1..(m - 4 - 1 + 1) : v[i] = p[1 + i - 1]
          BY <5>1, SubSeqProperties
        <5>3. \A i \in 1..(m - 4) : i \in 1..(m - 4 - 1 + 1) /\ 1 + i - 1 = i
          BY <1>11
        <5>4. \A i \in 1..(m - 4) : v[i] = p[i]
          BY <5>2, <5>3
        <5>5. Len(v) = m - 4
          BY <1>11, <2>3, <5>2
        <5> QED BY <5>2, <5>4, <5>5
      <4> HIDE DEF u, v
      <4>3. \A i \in 1..(m - 4) : u[i] = v[i]
        <5>1. \A i \in 1..(m - 4) : i + 4 \in 1..m /\ i \in 1..Len(p) /\ 4 + i = i + 4
          BY <1>1, <1>11
        <5>2. \A i \in 1..(m - 4) : line[i + 4] = p[i]
          BY <1>2, <2>1, <5>1
        <5> QED BY <4>1, <4>2, <5>2
      <4>4. u = v
        BY <4>1, <4>2, <4>3, SeqEqual
      <4> QED BY <2>1, <4>4 DEF u, v
    <3>3. ReadLine(line) = Stamped(p, SubSeq(p, 1, m - 4))
      BY <3>1, <3>2 DEF Stamped, c, d
    <3> QED BY <1>11, <2>3, <3>3 DEF IsBeginning, m, line
  <2>4. CASE m < 5
    <3>1. ReadLine(line).path = <<>>
      <4>1. ~(Len(line) >= 5)
        BY <1>11, <2>1, <2>4
      <4> QED BY <1>2, <2>2, <4>1, ReadBegins
    <3> QED BY <1>11, <2>4, <3>1 DEF IsBeginning, m, line
  <2> QED BY <1>11, <2>3, <2>4
<1>13. CASE x # o
  <2> DEFINE a == x - o - 4
  <2>1. x > o /\ x - o \in 1..(m + 1) /\ o + (x - o) = x /\ x - o <= m
    <3>1. x > o
      BY <1>8, <1>10, <1>13
    <3>2. x <= o + m
      BY <1>10, <1>11
    <3>3. x - o <= m /\ x - o >= 1 /\ x - o \in Int /\ o + (x - o) = x
      BY <1>10, <1>11, <3>1, <3>2
    <3> QED BY <1>11, <3>1, <3>3
  <2>2. s[x - o] = NL
    BY <1>5, <1>10, <2>1
  <2>3. x - o \notin 1..4
    <3>1. NL \notin Times /\ NL # Blank
      BY DEF NL, Times, Blank
    <3> QED BY <1>2, <2>2, <3>1
  <2>4. a \in 1..(m - 4) /\ a \in 1..Len(p) /\ x - o = 4 + a /\ x = o + 4 + a
    BY <1>1, <1>10, <1>11, <2>1, <2>3
  <2> HIDE DEF a
  <2>5. p[a] = NL
    BY <1>2, <2>2, <2>4
  <2>6. line = SubSeq(p, a + 1, m - 4)
    <3> DEFINE v == SubSeq(p, a + 1, m - 4)
               n == m - 4 - a
    <3>1. n \in Nat /\ a \in Nat /\ m - 4 \in Nat
      BY <1>11, <2>4
    <3>2. line \in Seq(Symbol) /\ Len(line) = n /\ \A i \in 1..n : line[i] = T[o + (4 + (a + i))]
      <4>1. /\ 1 + x \in Int /\ e - 1 \in Int /\ \A i \in (1 + x)..(e - 1) : T[i] \in Symbol
            /\ e - 1 - (1 + x) + 1 = n /\ (1 + x <= e - 1 <=> n > 0)
        <5>1. \A i \in (1 + x)..(e - 1) : T[i] \in Symbol
          BY <1>1, <1>10
        <5>2. 1 + x \in Int /\ e - 1 \in Int /\ e - 1 - (1 + x) + 1 = n
          BY <1>10, <1>11, <2>4
        <5>3. 1 + x <= e - 1 <=> n > 0
          BY <1>10, <1>11, <2>4
        <5> QED BY <5>1, <5>2, <5>3
      <4>2. /\ line \in Seq(Symbol) /\ Len(line) = IF 1 + x <= e - 1 THEN e - 1 - (1 + x) + 1 ELSE 0
            /\ \A i \in 1..(e - 1 - (1 + x) + 1) : line[i] = T[1 + x + i - 1]
        BY <1>9, <4>1, SubSeqProperties
      <4> HIDE DEF n
      <4>3. \A i \in 1..n : 1 + x + i - 1 = o + (4 + (a + i))
        BY <2>4, <3>1
      <4>4. \A i \in 1..n : line[i] = T[o + (4 + (a + i))]
        BY <4>1, <4>2, <4>3
      <4>5. Len(line) = n
        BY <3>1, <4>1, <4>2
      <4> QED BY <4>2, <4>4, <4>5
    <3>3. v \in Seq(Symbol) /\ Len(v) = n /\ \A i \in 1..n : v[i] = p[a + i]
      <4>1. /\ a + 1 \in Int /\ m - 4 \in Int /\ \A i \in (a + 1)..(m - 4) : p[i] \in Symbol
            /\ m - 4 - (a + 1) + 1 = n /\ (a + 1 <= m - 4 <=> n > 0)
        BY <1>1, <1>11, <2>4
      <4>2. /\ v \in Seq(Symbol) /\ Len(v) = IF a + 1 <= m - 4 THEN m - 4 - (a + 1) + 1 ELSE 0
            /\ \A i \in 1..(m - 4 - (a + 1) + 1) : v[i] = p[a + 1 + i - 1]
        BY <4>1, SubSeqProperties
      <4> HIDE DEF n
      <4>3. \A i \in 1..n : a + 1 + i - 1 = a + i
        BY <3>1
      <4>4. \A i \in 1..n : v[i] = p[a + i]
        BY <4>1, <4>2, <4>3
      <4>5. Len(v) = n
        BY <3>1, <4>1, <4>2
      <4> QED BY <4>2, <4>4, <4>5
    <3>4. \A i \in 1..n : T[o + (4 + (a + i))] = p[a + i]
      <4> TAKE i \in 1..n
      <4> DEFINE j == a + i
      <4>1. j \in 1..Len(p) /\ 4 + j \in 1..(m + 1)
        BY <1>1, <1>11, <2>4
      <4> HIDE DEF j
      <4>2. T[o + (4 + j)] = s[4 + j] /\ s[4 + j] = p[j]
        BY <1>2, <1>5, <4>1
      <4> QED BY <4>2 DEF j
    <3> HIDE DEF v, n
    <3>5. line = v
      BY <3>2, <3>3, <3>4, SeqEqual
    <3> QED BY <3>5 DEF v
  <2>7. IsRest(p, m, line)
    BY <2>4, <2>5, <2>6 DEF IsRest
  <2> QED BY <1>11, <2>7 DEF m, line
<1> QED BY <1>12, <1>13

----------------------------------------------------------------------------
\* What a journal is read back as.

\* A text that was cut after k symbols.
LEMMA CutText ==
    ASSUME NEW W \in Seq(Symbol), NEW k \in 0..Len(W)
    PROVE  /\ SubSeq(W, 1, k) \in Seq(Symbol) /\ Len(SubSeq(W, 1, k)) = k
           /\ \A i \in 1..k : SubSeq(W, 1, k)[i] = W[i]
<1> DEFINE T == SubSeq(W, 1, k)
<1>1. 1 \in Int /\ k \in Int /\ k \in Nat /\ \A i \in 1..k : W[i] \in Symbol
  OBVIOUS
<1>2. /\ T \in Seq(Symbol) /\ Len(T) = IF 1 <= k THEN k - 1 + 1 ELSE 0
      /\ \A i \in 1..(k - 1 + 1) : T[i] = W[1 + i - 1]
  BY <1>1, SubSeqProperties
<1> HIDE DEF T
<1>3. Len(T) = k
  BY <1>1, <1>2
<1>4. \A i \in 1..k : T[i] = W[i]
  <2>1. \A i \in 1..k : i \in 1..(k - 1 + 1) /\ 1 + i - 1 = i
    BY <1>1
  <2> QED BY <1>2, <2>1
<1> QED BY <1>2, <1>3, <1>4 DEF T

\* Each line of what is left of a journal belongs to a path that was written.
LEMMA Piece ==
    ASSUME NEW S, S \subseteq Paths, NEW k \in 0..Len(Lines(S)),
           NEW T, T = SubSeq(Lines(S), 1, k), NEW e \in LineEnds(T)
    PROVE  /\ T \in Seq(Symbol) /\ Len(T) = k /\ e \in 1..k
           /\ \A i \in 1..k : T[i] = Lines(S)[i]
           /\ \E p \in S, o \in Nat :
                /\ Stands(Lines(S), LineOfPath(p), o) /\ o < e /\ e <= o + Len(p) + 5
                /\ \/ IsBeginning(p, e - 1 - o, ReadLine(Chopped(T, e)))
                   \/ e - 1 - o <= Len(p) + 4 /\ IsRest(p, e - 1 - o, Chopped(T, e))
<1> DEFINE W == Lines(S)
           Written == {LineOfPath(p) : p \in S}
<1>1. W \in Stacked(Written)
  BY LinesStacked
<1> HIDE DEF W, Written
<1>2. /\ W \in Seq(Symbol) /\ Len(W) \in Nat
      /\ \A i \in 1..Len(W) : \E s \in Written, o \in Nat :
            Stands(W, s, o) /\ o < i /\ i <= o + Len(s)
  BY <1>1 DEF Stacked
<1>3. T \in Seq(Symbol) /\ Len(T) = k /\ \A i \in 1..k : T[i] = W[i]
  <2>1. T = SubSeq(W, 1, k) /\ k \in 0..Len(W)
    BY DEF W
  <2> QED BY <1>2, <2>1, CutText
<1>4. e \in 1..k /\ e \in 1..Len(W)
  <2>1. e \in 1..Len(T)
    BY <1>3 DEF LineEnds
  <2>2. k \in 0..Len(W)
    BY DEF W
  <2> QED BY <1>2, <1>3, <2>1, <2>2
<1>5. PICK s \in Written, o \in Nat : Stands(W, s, o) /\ o < e /\ e <= o + Len(s)
  BY <1>2, <1>4
<1>6. PICK p \in S : s = LineOfPath(p)
  BY <1>5 DEF Written
<1>7. Stands(W, LineOfPath(p), o) /\ o < e /\ e <= o + Len(p) + 5 /\ p \in Paths
  <2>1. p \in Paths
    OBVIOUS
  <2>2. Len(s) = Len(p) + 5 /\ Len(p) \in Nat
    BY <1>6, <2>1, LineFacts, Symbols
  <2> QED BY <1>5, <1>6, <2>1, <2>2
<1>8. \/ IsBeginning(p, e - 1 - o, ReadLine(Chopped(T, e)))
      \/ e - 1 - o <= Len(p) + 4 /\ IsRest(p, e - 1 - o, Chopped(T, e))
  BY <1>3, <1>4, <1>7, LineAt
<1> QED BY <1>3, <1>4, <1>7, <1>8 DEF W

\* A path that is read was written, or is the beginning of one that was, with the
\* stamps of that one.
LEMMA ReadWritten ==
    ASSUME NoFalseLines, NEW S, S \subseteq Paths, NEW k \in 0..Len(Lines(S)),
           NEW T, T = SubSeq(Lines(S), 1, k), NEW e \in LineEnds(T),
           ReadLine(Chopped(T, e)).path \in Paths
    PROVE  \E p \in S : /\ IsPrefix(ReadLine(Chopped(T, e)).path, p)
                        /\ ReadLine(Chopped(T, e)) = Stamped(p, ReadLine(Chopped(T, e)).path)
<1> DEFINE line == Chopped(T, e)
           l == ReadLine(line)
<1>1. PICK p \in S, o \in Nat :
          /\ Stands(Lines(S), LineOfPath(p), o) /\ o < e /\ e <= o + Len(p) + 5
          /\ \/ IsBeginning(p, e - 1 - o, ReadLine(Chopped(T, e)))
             \/ e - 1 - o <= Len(p) + 4 /\ IsRest(p, e - 1 - o, Chopped(T, e))
  BY Piece
<1>0. e \in 1..k
  BY Piece
<1> DEFINE m == e - 1 - o
<1>2. p \in Paths /\ p \in Seq(Symbol) /\ Len(p) \in Nat
  BY Symbols
<1>3. m \in Nat /\ m <= Len(p) + 4
  BY <1>0, <1>1, <1>2
<1>4. IsBeginning(p, m, l) \/ IsRest(p, m, line)
  BY <1>1
<1>5. l.path # <<>>
  BY Symbols
<1> HIDE DEF m, line
<1>6. ~IsRest(p, m, line)
  <2> SUFFICES ASSUME IsRest(p, m, line) PROVE FALSE
    OBVIOUS
  <2>1. PICK a \in 1..(m - 4) : p[a] = NL /\ line = SubSeq(p, a + 1, m - 4)
    BY DEF IsRest
  <2>2. a \in 1..Len(p) /\ m - 4 \in a..Len(p)
    BY <1>2, <1>3
  <2>3. ReadLine(SubSeq(p, a + 1, m - 4)).path \notin Paths
    BY <1>2, <2>1, <2>2 DEF NoFalseLines
  <2>4. ReadLine(line).path \in Paths
    BY DEF line
  <2> QED BY <2>1, <2>3, <2>4
<1>7. IsBeginning(p, m, l)
  BY <1>4, <1>6
<1>8. m >= 5
  BY <1>3, <1>5, <1>7 DEF IsBeginning
<1> DEFINE n == m - 4
           q == SubSeq(p, 1, n)
<1>9. l = Stamped(p, q)
  BY <1>7, <1>8 DEF IsBeginning
<1>10. n \in 0..Len(p)
  BY <1>2, <1>3, <1>8
<1> HIDE DEF n, l, q
<1>11. l.path = q
  BY <1>9 DEF Stamped
<1>12. q \in Seq(Symbol) /\ Len(q) = n
  BY <1>2, <1>10, CutText DEF q
<1>13. IsPrefix(q, p)
  <2>1. SubSeq(q, 1, Len(q)) = q
    BY <1>12, SubSeqFull
  <2>2. n <= Len(p)
    BY <1>2, <1>10
  <2>3. SubSeq(q, 1, Len(q)) = SubSeq(p, 1, Len(q))
    BY <1>12, <2>1 DEF q
  <2> QED BY <1>12, <2>2, <2>3 DEF IsPrefix
<1>14. IsPrefix(l.path, p) /\ l = Stamped(p, l.path)
  BY <1>9, <1>11, <1>13
<1> QED BY <1>14 DEF l, line

\* A whole path is read as it was written.
LEMMA WholeLine ==
    ASSUME NEW p \in Paths, ~HasNewline(p), NEW T \in Seq(Symbol), NEW o \in Nat,
           Stands(T, LineOfPath(p), o)
    PROVE  LET e == o + Len(p) + 5
           IN e \in LineEnds(T) /\ ReadLine(Chopped(T, e)) = Stamped(p, p)
<1> DEFINE e == o + Len(p) + 5
           m == e - 1 - o
           line == Chopped(T, e)
<1>1. p \in Seq(Symbol) /\ Len(p) \in Nat /\ Len(p) > 0 /\ Len(T) \in Nat
  BY Symbols
<1>2. /\ Len(LineOfPath(p)) = Len(p) + 5 /\ LineOfPath(p)[Len(p) + 5] = NL
  BY LineFacts
<1>3. e \in 1..Len(T) /\ o < e /\ e <= o + Len(p) + 5
  BY <1>1, <1>2 DEF Stands
<1>4. T[e] = NL
  <2>1. Len(p) + 5 \in 1..(Len(p) + 5) /\ o + (Len(p) + 5) = e
    BY <1>1
  <2> HIDE DEF e
  <2> QED BY <1>2, <2>1 DEF Stands
<1>5. e \in LineEnds(T)
  BY <1>1, <1>3, <1>4 DEF LineEnds
<1>6. IsBeginning(p, m, ReadLine(line)) \/ (m <= Len(p) + 4 /\ IsRest(p, m, line))
  BY <1>3, LineAt
<1>7. m = Len(p) + 4
  BY <1>1
<1> HIDE DEF e, m, line
<1>8. ~IsRest(p, m, line)
  <2> SUFFICES ASSUME IsRest(p, m, line) PROVE FALSE
    OBVIOUS
  <2>1. PICK a \in 1..(m - 4) : p[a] = NL
    BY DEF IsRest
  <2>2. a \in DOMAIN p
    BY <1>1, <1>7
  <2> QED BY <2>1, <2>2 DEF HasNewline, ToSet
<1>9. ReadLine(line) = Stamped(p, SubSeq(p, 1, m - 4))
  BY <1>1, <1>6, <1>7, <1>8 DEF IsBeginning
<1>10. SubSeq(p, 1, m - 4) = p
  <2>1. m - 4 = Len(p)
    BY <1>1, <1>7
  <2> QED BY <1>1, <2>1, SubSeqFull
<1>11. ReadLine(line) = Stamped(p, p)
  BY <1>9, <1>10
<1> QED BY <1>5, <1>11 DEF e, line

\* Of a journal that is whole, every path without a newline is read.
LEMMA ReadPresent ==
    ASSUME NEW S, S \subseteq Paths, NEW p \in S, ~HasNewline(p)
    PROVE  \E e \in LineEnds(Lines(S)) : ReadLine(Chopped(Lines(S), e)) = Stamped(p, p)
<1> DEFINE W == Lines(S)
           s == LineOfPath(p)
<1>1. W \in Stacked({LineOfPath(q) : q \in S}) /\ p \in Paths
  BY LinesStacked
<1> HIDE DEF W
<1>2. W \in Seq(Symbol) /\ s \in {LineOfPath(q) : q \in S}
  BY <1>1 DEF Stacked
<1>3. PICK o \in Nat : Stands(W, s, o)
  BY <1>1, <1>2 DEF Stacked
<1>4. /\ o + Len(p) + 5 \in LineEnds(W)
      /\ ReadLine(Chopped(W, o + Len(p) + 5)) = Stamped(p, p)
  BY <1>1, <1>2, <1>3, WholeLine
<1> QED BY <1>4 DEF W

\* Of a journal that is whole and has no path with a newline, nothing else is.
LEMMA ReadPlain ==
    ASSUME NEW S, S \subseteq Paths, \A p \in S : ~HasNewline(p), NEW e \in LineEnds(Lines(S))
    PROVE  \E p \in S : ReadLine(Chopped(Lines(S), e)) = Stamped(p, p)
<1> DEFINE W == Lines(S)
           Written == {LineOfPath(q) : q \in S}
<1>1. W \in Stacked(Written)
  BY LinesStacked
<1> HIDE DEF W, Written
<1>2. /\ W \in Seq(Symbol) /\ Len(W) \in Nat /\ (W = <<>> \/ W[Len(W)] = NL)
      /\ \A i \in 1..Len(W) : \E s \in Written, o \in Nat :
            Stands(W, s, o) /\ o < i /\ i <= o + Len(s)
  BY <1>1 DEF Stacked
<1>3. e \in 1..Len(W) /\ W[e] = NL
  <2>1. e \in LineEnds(W)
    BY DEF W
  <2> QED BY <1>2, <2>1 DEF LineEnds
<1>4. PICK s \in Written, o \in Nat : Stands(W, s, o) /\ o < e /\ e <= o + Len(s)
  BY <1>2, <1>3
<1>5. PICK p \in S : s = LineOfPath(p)
  BY <1>4 DEF Written
<1>6. p \in Paths /\ p \in Seq(Symbol) /\ Len(p) \in Nat
  BY Symbols
<1>7. /\ Len(s) = Len(p) + 5
      /\ s[1] \in Times /\ s[2] = Blank /\ s[3] \in Times /\ s[4] = Blank
      /\ \A j \in 1..Len(p) : s[4 + j] = p[j]
  BY <1>5, <1>6, LineFacts
<1>8. e = o + Len(p) + 5
  <2> DEFINE j == e - o
  <2>1. j \in 1..Len(s) /\ o + j = e
    <3>1. o \in Nat /\ e \in Nat /\ Len(s) \in Nat /\ o < e /\ e <= o + Len(s)
      BY <1>2, <1>3, <1>4, <1>6, <1>7
    <3> QED BY <3>1
  <2> HIDE DEF j
  <2>2. s[j] = NL
    BY <1>3, <1>4, <2>1 DEF Stands
  <2>3. j \notin 1..4
    <3>1. NL \notin Times /\ NL # Blank
      BY DEF NL, Times, Blank
    <3> QED BY <1>7, <2>2, <3>1
  <2>4. ASSUME j # Len(p) + 5 PROVE FALSE
    <3>1. j - 4 \in 1..Len(p) /\ 4 + (j - 4) = j
      BY <1>6, <1>7, <2>1, <2>3, <2>4
    <3>2. p[j - 4] = NL
      BY <1>7, <2>2, <3>1
    <3>3. j - 4 \in DOMAIN p
      BY <1>6, <3>1
    <3> QED BY <3>2, <3>3 DEF HasNewline, ToSet
  <2> QED BY <1>6, <2>1, <2>4
<1>9. ReadLine(Chopped(W, e)) = Stamped(p, p)
  BY <1>2, <1>4, <1>5, <1>6, <1>8, WholeLine
<1> QED BY <1>9 DEF W

\* The tree has the paths of the lines, each with what one of its lines says.
LEMMA TreeFacts ==
    ASSUME NEW T
    PROVE  /\ \A e \in LineEnds(T) : ReadLine(Chopped(T, e)).path \in DOMAIN JournalTree(T)
           /\ \A q \in DOMAIN JournalTree(T) :
                /\ JournalTree(T)[q].path = q
                /\ \E e \in LineEnds(T) : JournalTree(T)[q] = ReadLine(Chopped(T, e))
<1> DEFINE lines == {ReadLine(Chopped(T, i)) : i \in LineEnds(T)}
           tree == [p \in {l.path : l \in lines} |-> CHOOSE l \in lines : l.path = p]
<1>1. JournalTree(T) = tree
  BY DEF JournalTree
<1>2. \A e \in LineEnds(T) : ReadLine(Chopped(T, e)) \in lines
  OBVIOUS
<1>3. \A l \in lines : \E e \in LineEnds(T) : l = ReadLine(Chopped(T, e))
  OBVIOUS
<1> HIDE DEF lines
<1>4. \A l \in lines : l.path \in DOMAIN tree
  OBVIOUS
<1>5. ASSUME NEW q \in DOMAIN tree PROVE tree[q] \in lines /\ tree[q].path = q
  <2>1. \E l \in lines : l.path = q
    OBVIOUS
  <2>2. tree[q] = CHOOSE l \in lines : l.path = q
    OBVIOUS
  <2> QED BY <2>1, <2>2
<1> HIDE DEF tree
<1> QED BY <1>1, <1>2, <1>3, <1>4, <1>5

----------------------------------------------------------------------------
\* The disk and the walk.

\* The disk, which no step writes: each file of a dump has a line in the text its
\* journal was written with.
DiskInv ==
    /\ dir \in [Day -> Kind]
    /\ ino \in [Day -> [Paths -> 0..Asked]]
    /\ listed \in [Day -> SUBSET Paths]
    /\ \A d \in Day : \A p \in Paths : ino[d][p] # 0 => p \in listed[d]
    /\ \A d \in Day : dir[d] = "whole" => text[d] = Lines(listed[d])
    /\ \A d \in Day : dir[d] = "cut" =>
           \E k \in 0..Len(Lines(listed[d])) : text[d] = SubSeq(Lines(listed[d]), 1, k)

\* What showFile() prints.
Reported(p) == IF prog = "newfiles" THEN IsNew(p) ELSE IsChanged(p)

\* The walk: what was printed and what is still to be are what is to be reported.
WalkInv ==
    /\ prog \in {"newfiles", "changedfiles"}
    /\ pc \in {"set", "back", "load", "walk", "done", "nodump", "first", "nojournal"}
    /\ last \in 0..Asked
    /\ todo \in Seq(Paths) /\ printed \subseteq Paths
    /\ pc \in {"set", "back"} => last = 0
    /\ pc = "load" => last # 0
    /\ pc \notin {"walk", "done"} => jt = <<>> /\ todo = <<>> /\ printed = {}
    /\ pc \in {"walk", "done"} =>
         /\ last # 0 /\ dir[last] \in {"whole", "cut"} /\ jt = JournalTree(text[last])
         /\ ToSet(todo) \subseteq ToWalk
         /\ printed \cup {p \in ToSet(todo) : Reported(p)} = {p \in ToWalk : Reported(p)}
    /\ pc = "done" => todo = <<>>

NewFilesInv == SearchInv /\ DiskInv /\ WalkInv

\* The disk is as tar left it.
LEMMA DiskInit == Init => DiskInv
<1> SUFFICES ASSUME Init PROVE DiskInv
  OBVIOUS
<1>1. PICK S \in UNION {kSubset(n, Files) : n \in 0..MaxFiles}, l \in 0..(Asked - 1) :
      \E inLast \in IF l = 0 THEN {{}} ELSE SUBSET S,
         now \in [S -> {"dropped", "linked", "copied"}] : DiskLeft(S, l, inLast, now)
  BY DEF Init
<1>2. S \subseteq Paths
  BY DEF kSubset, Paths
<1>3. PICK inLast \in IF l = 0 THEN {{}} ELSE SUBSET S,
           now \in [S -> {"dropped", "linked", "copied"}] : DiskLeft(S, l, inLast, now)
  BY <1>1
<1>4. l # Asked
  BY ClockFacts
<1>5. inLast \subseteq Paths
  BY <1>2, <1>3
<1>6. /\ dir \in [Day -> Kind]
      /\ \A d \in 1..(l - 1) : dir[d] = "none"
      /\ \A d \in (l + 1)..(Asked - 1) : dir[d] \in {"none", "other"}
      /\ dir[Asked] \in {"none", "whole"}
  BY <1>3 DEF DiskLeft
<1>7. \A d \in Day : listed[d] = CASE d = l -> inLast \cup {JPath}
                  [] d = Asked /\ dir[d] = "whole" -> {f \in S : now[f] # "dropped"} \cup {JPath}
                  [] OTHER -> {}
  BY <1>3 DEF DiskLeft
<1>8. listed \in [Day -> SUBSET Paths]
  <2>1. JPath \in Paths
    BY DEF Paths
  <2>2. ASSUME NEW d \in Day PROVE listed[d] \subseteq Paths
    <3>1. CASE d = l
      <4>1. listed[d] = inLast \cup {JPath}
        BY <1>7, <1>4, <3>1
      <4> QED BY <1>5, <2>1, <4>1
    <3>2. CASE d # l /\ d = Asked /\ dir[d] = "whole"
      <4>1. listed[d] = {f \in S : now[f] # "dropped"} \cup {JPath}
        BY <1>7, <3>2
      <4> QED BY <1>2, <2>1, <4>1
    <3>3. CASE d # l /\ ~(d = Asked /\ dir[d] = "whole")
      <4>1. listed[d] = {}
        BY <1>7, <3>3
      <4> QED BY <4>1
    <3> QED BY <3>1, <3>2, <3>3
  <2>3. listed = [d \in Day |-> listed[d]]
    BY <1>3 DEF DiskLeft
  <2> QED BY <2>2, <2>3
<1>9. PICK k \in IF l # 0 /\ dir[l] = "cut" THEN 0..(Len(Lines(listed[l])) - 1) ELSE {0} :
           text = [d \in Day |-> CASE dir[d] = "whole" -> Lines(listed[d])
                                   [] dir[d] = "cut" -> SubSeq(Lines(listed[d]), 1, k)
                                   [] OTHER -> <<>>]
  BY <1>3 DEF DiskLeft
<1>10. \A d \in Day : text[d] = CASE dir[d] = "whole" -> Lines(listed[d])
                                 [] dir[d] = "cut" -> SubSeq(Lines(listed[d]), 1, k)
                                 [] OTHER -> <<>>
  BY <1>9
<1>11. \A d \in Day : dir[d] = "whole" => text[d] = Lines(listed[d])
  BY <1>10
<1>12. ASSUME NEW d \in Day, dir[d] = "cut"
       PROVE  \E i \in 0..Len(Lines(listed[d])) : text[d] = SubSeq(Lines(listed[d]), 1, i)
  <2>1. d = l
    <3>1. d \in Int /\ d >= 1 /\ d <= Asked /\ Asked \in Int /\ l \in Int
      BY ClockFacts DEF Day
    <3>2. d \notin 1..(l - 1) /\ d \notin (l + 1)..(Asked - 1) /\ d # Asked
      BY <1>6, <1>12
    <3> QED BY <3>1, <3>2
  <2>2. text[d] = SubSeq(Lines(listed[d]), 1, k)
    BY <1>10, <1>12
  <2>3. d # 0
    BY ClockFacts
  <2>4. k \in 0..(Len(Lines(listed[d])) - 1)
    BY <1>9, <1>12, <2>1, <2>3
  <2>5. Len(Lines(listed[d])) \in Nat
    <3>1. listed[d] \subseteq Paths
      BY <1>8
    <3>2. Lines(listed[d]) \in Seq(Symbol)
      BY <3>1, LinesStacked DEF Stacked
    <3> QED BY <3>2
  <2> QED BY <2>2, <2>4, <2>5
<1>13. PICK copied \in SUBSET inLast :
         ino = [d \in Day |-> [p \in Paths |->
                     CASE d = l /\ p = JPath /\ dir[d] # "unsaved" -> d
                       [] d = l /\ p \in copied -> d
                       [] d = Asked /\ p \in listed[d] -> IF p \in S /\ now[p] = "linked" THEN l ELSE d
                       [] OTHER -> 0]]
  BY <1>3 DEF DiskLeft
<1> DEFINE I(d, p) == CASE d = l /\ p = JPath /\ dir[d] # "unsaved" -> d
                       [] d = l /\ p \in copied -> d
                       [] d = Asked /\ p \in listed[d] -> IF p \in S /\ now[p] = "linked" THEN l ELSE d
                       [] OTHER -> 0
<1>14. \A d \in Day : d \in 0..Asked /\ l \in 0..Asked /\ 0 \in 0..Asked
  BY ClockFacts DEF Day
<1>15. \A d \in Day : \A p \in Paths : I(d, p) \in 0..Asked
  BY <1>14
<1>16. ASSUME NEW d \in Day, NEW p \in Paths, I(d, p) # 0 PROVE p \in listed[d]
  <2>1. CASE d = l
    <3>1. listed[d] = inLast \cup {JPath}
      BY <1>7, <1>4, <2>1
    <3>2. p = JPath \/ p \in copied \/ p \in listed[d]
      BY <1>16, <2>1
    <3> QED BY <3>1, <3>2
  <2>2. CASE d # l
    BY <1>16, <2>2
  <2> QED BY <2>1, <2>2
<1>17. ino = [d \in Day |-> [p \in Paths |-> I(d, p)]]
  BY <1>13
<1> HIDE DEF I
<1>18. ino \in [Day -> [Paths -> 0..Asked]]
  BY <1>15, <1>17
<1>19. \A d \in Day : \A p \in Paths : ino[d][p] # 0 => p \in listed[d]
  BY <1>16, <1>17
<1> QED BY <1>6, <1>8, <1>11, <1>12, <1>18, <1>19 DEF DiskInv

\* The first day is the asked one, and nothing is read.
LEMMA WalkInit == Init => WalkInv
<1> SUFFICES ASSUME Init PROVE WalkInv
  OBVIOUS
<1>1. /\ prog \in {"newfiles", "changedfiles"} /\ pc = "set" /\ last = 0
      /\ jt = <<>> /\ todo = <<>> /\ printed = {}
  BY DEF Init
<1>2. 0 \in 0..Asked
  BY ClockFacts
<1> QED BY <1>1, <1>2 DEF WalkInv

\* A step keeps the disk.
LEMMA DiskNext == DiskInv /\ [Next]_vars => DiskInv'
<1> SUFFICES ASSUME DiskInv, [Next]_vars PROVE DiskInv'
  OBVIOUS
<1>1. UNCHANGED <<dir, ino, listed, text>>
  BY DEF Next, vars, disk, SetBkupDir, Back, Load, ShowFile, WalkEnds
<1> QED BY <1>1 DEF DiskInv

\* A step of the walk moves one file from those to be shown to those printed or
\* not.
LEMMA WalkNext == SearchInv /\ DiskInv /\ WalkInv /\ [Next]_vars => WalkInv'
<1> SUFFICES ASSUME SearchInv, DiskInv, WalkInv, [Next]_vars PROVE WalkInv'
  OBVIOUS
<1>1. CASE UNCHANGED vars
  BY <1>1 DEF vars, disk, WalkInv, Reported, IsNew, IsChanged, ToWalk
<1>2. CASE SetBkupDir
  <2>1. /\ pc = "set" /\ pc' \in {"back", "nodump"} /\ UNCHANGED <<prog, last, jt, todo, printed>>
    BY <1>2 DEF SetBkupDir
  <2> QED BY <2>1 DEF WalkInv
<1>3. CASE Back
  <2>1. /\ pc = "back" /\ pc' \in {"back", "first", "load"} /\ UNCHANGED <<prog, jt, todo, printed>>
        /\ pc' = "back" => last' = last
        /\ pc' = "first" => last' = last
        /\ pc' = "load" => t' > 0 /\ last' = DayOf[t'] /\ t' = t - Hours24
    BY <1>3 DEF Back, OneDayBefore
  <2>2. ASSUME pc' = "load" PROVE last' \in Day
    <3>1. t' \in 1..Len(DayOf)
      BY <2>1, <2>2, ClockFacts DEF SearchInv
    <3> QED BY <2>1, <2>2, <3>1, ClockFacts
  <2>3. \A d \in Day : d \in 0..Asked /\ d # 0
    BY ClockFacts DEF Day
  <2> QED BY <2>1, <2>2, <2>3 DEF WalkInv
<1>4. CASE Load
  <2>1. CASE pc' = "nojournal"
    <3>1. pc = "load" /\ UNCHANGED <<prog, last, jt, todo, printed>>
      BY <1>4, <2>1 DEF Load
    <3> QED BY <2>1, <3>1 DEF WalkInv
  <2>2. CASE pc' # "nojournal"
    <3>1. /\ pc = "load" /\ pc' = "walk" /\ dir[last] \in {"whole", "cut"}
          /\ jt' = JournalTree(text[last]) /\ todo' = InWalk(ToWalk)
          /\ UNCHANGED <<dir, ino, listed, text, prog, last, printed>>
      BY <1>4, <2>2 DEF Load, disk
    <3>2. ToWalk \subseteq Paths /\ ToWalk' = ToWalk
      BY <3>1 DEF ToWalk
    <3>3. todo' \in Seq(ToWalk) /\ ToSet(todo') = ToWalk
      BY <3>1, <3>2, InWalkFacts
    <3>4. todo' \in Seq(Paths)
      BY <3>2, <3>3, SeqMonotonic
    <3>5. printed' = {}
      BY <3>1 DEF WalkInv
    <3>6. printed' \cup {p \in ToSet(todo') : Reported(p)'} = {p \in ToWalk' : Reported(p)'}
      BY <3>2, <3>3, <3>5
    <3> QED BY <3>1, <3>2, <3>3, <3>4, <3>5, <3>6 DEF WalkInv
  <2> QED BY <2>1, <2>2
<1>5. CASE ShowFile
  <2> DEFINE p == Head(todo)
             rest == Tail(todo)
  <2>1. /\ pc = "walk" /\ todo # <<>> /\ todo' = rest
        /\ printed' = IF Reported(p) THEN printed \cup {p} ELSE printed
        /\ UNCHANGED <<dir, ino, listed, text, prog, pc, last, jt>>
    BY <1>5 DEF ShowFile, PathIn, Reported, disk
  <2>2. todo \in Seq(Paths)
    BY DEF WalkInv
  <2>3. /\ p \in Paths /\ rest \in Seq(Paths) /\ ToSet(todo) = {p} \cup ToSet(rest)
    <3>1. /\ p \in Paths /\ rest \in Seq(Paths) /\ p = todo[1]
          /\ Len(rest) = Len(todo) - 1 /\ Len(todo) > 0
          /\ \A i \in 1..Len(rest) : rest[i] = todo[i + 1]
      BY <2>1, <2>2
    <3> HIDE DEF p, rest
    <3>2. \A x \in ToSet(todo) : x = p \/ x \in ToSet(rest)
      <4> SUFFICES ASSUME NEW i \in 1..Len(todo), i # 1 PROVE todo[i] \in ToSet(rest)
        BY <2>2, <3>1 DEF ToSet
      <4>1. i - 1 \in 1..Len(rest) /\ rest[i - 1] = todo[i]
        BY <2>2, <3>1
      <4> QED BY <3>1, <4>1 DEF ToSet
    <3>3. \A x \in ToSet(rest) : x \in ToSet(todo)
      <4> SUFFICES ASSUME NEW i \in 1..Len(rest) PROVE rest[i] \in ToSet(todo)
        BY <3>1 DEF ToSet
      <4>1. i + 1 \in 1..Len(todo) /\ rest[i] = todo[i + 1]
        BY <2>2, <3>1
      <4> QED BY <2>2, <4>1 DEF ToSet
    <3>4. p \in ToSet(todo)
      BY <2>2, <3>1 DEF ToSet
    <3> QED BY <3>1, <3>2, <3>3, <3>4
  <2> HIDE DEF p, rest
  <2>4. ToWalk' = ToWalk /\ \A x : Reported(x)' = Reported(x)
    BY <2>1 DEF ToWalk, Reported, IsNew, IsChanged
  <2>5. /\ ToSet(todo) \subseteq ToWalk
        /\ printed \cup {x \in ToSet(todo) : Reported(x)} = {x \in ToWalk : Reported(x)}
        /\ printed \subseteq Paths
    BY <2>1 DEF WalkInv
  <2>6. ToSet(todo') \subseteq ToWalk' /\ printed' \subseteq Paths
    BY <2>1, <2>3, <2>4, <2>5
  <2>7. printed' \cup {x \in ToSet(todo') : Reported(x)'} = {x \in ToWalk' : Reported(x)'}
    <3>1. printed' \cup {x \in ToSet(rest) : Reported(x)} = {x \in ToWalk : Reported(x)}
      BY <2>1, <2>3, <2>5
    <3> QED BY <2>1, <2>4, <3>1
  <2> QED BY <2>1, <2>3, <2>6, <2>7 DEF WalkInv
<1>6. CASE WalkEnds
  <2>1. /\ pc = "walk" /\ pc' = "done" /\ todo = <<>>
        /\ UNCHANGED <<dir, ino, listed, text, prog, last, jt, todo, printed>>
    BY <1>6 DEF WalkEnds, disk
  <2>2. ToWalk' = ToWalk /\ \A x : Reported(x)' = Reported(x)
    BY <2>1 DEF ToWalk, Reported, IsNew, IsChanged
  <2> QED BY <2>1, <2>2 DEF WalkInv
<1> QED BY <1>1, <1>2, <1>3, <1>4, <1>5, <1>6 DEF Next

----------------------------------------------------------------------------
\* What the invariant says of the journal and of the report.

\* The last dump and the text of its journal.
LEMMA LastRead ==
    ASSUME NewFilesInv, pc \in {"walk", "done"}
    PROVE  /\ last \in Day /\ listed[last] \subseteq Paths /\ jt = JournalTree(text[last])
           /\ \E k \in 0..Len(Lines(listed[last])) : text[last] = SubSeq(Lines(listed[last]), 1, k)
           /\ dir[last] \in {"whole", "cut"}
           /\ dir[last] = "whole" => text[last] = Lines(listed[last])
<1>1. /\ last \in 0..Asked /\ last # 0 /\ dir[last] \in {"whole", "cut"}
      /\ jt = JournalTree(text[last])
  BY DEF NewFilesInv, WalkInv
<1>2. last \in Day
  BY <1>1, ClockFacts DEF Day
<1>3. /\ listed[last] \subseteq Paths
      /\ dir[last] = "whole" => text[last] = Lines(listed[last])
      /\ dir[last] = "cut" =>
           \E k \in 0..Len(Lines(listed[last])) : text[last] = SubSeq(Lines(listed[last]), 1, k)
  BY <1>2 DEF NewFilesInv, DiskInv
<1> DEFINE W == Lines(listed[last])
<1>4. W \in Seq(Symbol)
  BY <1>3, LinesStacked DEF Stacked
<1>5. \E k \in 0..Len(W) : W = SubSeq(W, 1, k)
  <2>1. W = SubSeq(W, 1, Len(W))
    BY <1>4, SubSeqFull
  <2>2. Len(W) \in 0..Len(W)
    BY <1>4
  <2> QED BY <2>1, <2>2
<1> QED BY <1>1, <1>2, <1>3, <1>5

\* The tree that was read from it.
LEMMA JournalRead ==
    ASSUME NewFilesInv, pc \in {"walk", "done"}
    PROVE  /\ \A p \in DOMAIN jt : jt[p].path = p
           /\ NoFalseLines => \A p \in Paths : p \in DOMAIN jt =>
                \E q \in listed[last] : IsPrefix(p, q) /\ jt[p] = Stamped(q, p)
           /\ dir[last] = "whole" => \A p \in listed[last] : ~HasNewline(p) => p \in DOMAIN jt
           /\ (dir[last] = "whole" /\ \A p \in listed[last] : ~HasNewline(p)) =>
                \A p \in DOMAIN jt : p \in listed[last] /\ jt[p] = Stamped(p, p)
<1> DEFINE S == listed[last]
           T == text[last]
<1>1. S \subseteq Paths /\ jt = JournalTree(T) /\ (dir[last] = "whole" => T = Lines(S))
  BY LastRead
<1>2. PICK k \in 0..Len(Lines(S)) : T = SubSeq(Lines(S), 1, k)
  BY LastRead
<1> HIDE DEF S, T
<1>3. /\ \A e \in LineEnds(T) : ReadLine(Chopped(T, e)).path \in DOMAIN jt
      /\ \A q \in DOMAIN jt :
           /\ jt[q].path = q
           /\ \E e \in LineEnds(T) : jt[q] = ReadLine(Chopped(T, e))
  BY <1>1, TreeFacts
<1>4. ASSUME NoFalseLines, NEW p \in Paths, p \in DOMAIN jt
      PROVE  \E q \in S : IsPrefix(p, q) /\ jt[p] = Stamped(q, p)
  <2>1. PICK e \in LineEnds(T) : jt[p] = ReadLine(Chopped(T, e))
    BY <1>3, <1>4
  <2>2. ReadLine(Chopped(T, e)).path = p
    BY <1>3, <1>4, <2>1
  <2>3. PICK q \in S : /\ IsPrefix(ReadLine(Chopped(T, e)).path, q)
                       /\ ReadLine(Chopped(T, e)) = Stamped(q, ReadLine(Chopped(T, e)).path)
    <3>1. NoFalseLines /\ S \subseteq Paths /\ ReadLine(Chopped(T, e)).path \in Paths
      BY <1>1, <1>4, <2>2
    <3>2. k \in 0..Len(Lines(S)) /\ T = SubSeq(Lines(S), 1, k) /\ e \in LineEnds(T)
      BY <1>2, <2>1
    <3> QED BY <3>1, <3>2, ReadWritten
  <2> QED BY <2>1, <2>2, <2>3
<1>5. ASSUME dir[last] = "whole", NEW p \in S, ~HasNewline(p) PROVE p \in DOMAIN jt
  <2>1. PICK e \in LineEnds(T) : ReadLine(Chopped(T, e)) = Stamped(p, p)
    BY <1>1, <1>5, ReadPresent
  <2>2. ReadLine(Chopped(T, e)).path = p
    BY <2>1 DEF Stamped
  <2> QED BY <1>3, <2>1, <2>2
<1>6. ASSUME dir[last] = "whole", \A p \in S : ~HasNewline(p), NEW p \in DOMAIN jt
      PROVE  p \in S /\ jt[p] = Stamped(p, p)
  <2>1. PICK e \in LineEnds(T) : jt[p] = ReadLine(Chopped(T, e))
    BY <1>3
  <2>2. PICK q \in S : ReadLine(Chopped(T, e)) = Stamped(q, q)
    BY <1>1, <1>6, <2>1, ReadPlain
  <2>3. jt[p].path = q
    BY <2>1, <2>2 DEF Stamped
  <2>4. p = q
    BY <1>3, <2>3
  <2> QED BY <2>1, <2>2, <2>4
<1> QED BY <1>3, <1>4, <1>5, <1>6 DEF S

\* What the walk has printed when it ends.
LEMMA AllPrinted ==
    ASSUME NewFilesInv, pc = "done"
    PROVE  printed = {p \in ToWalk : Reported(p)} /\ ToWalk \subseteq Paths
<1>1. /\ todo = <<>>
      /\ printed \cup {p \in ToSet(todo) : Reported(p)} = {p \in ToWalk : Reported(p)}
  BY DEF NewFilesInv, WalkInv
<1>2. ToSet(<<>>) = {}
  BY DEF ToSet
<1>3. {p \in ToSet(todo) : Reported(p)} = {}
  BY <1>1, <1>2
<1> QED BY <1>1, <1>3 DEF ToWalk

\* A file of the last dump was listed.
LEMMA FilesHaveLines ==
    ASSUME NewFilesInv, pc = "done", NEW p \in Paths, ino[last][p] # 0
    PROVE  p \in listed[last]
<1>1. last \in Day
  BY LastRead
<1> QED BY <1>1 DEF NewFilesInv, DiskInv

\* A stamp that is read back is the one that was written, unless that is before
\* 1970.
LEMMA ValueFacts ==
    ASSUME NEW x \in Times, NEW c \in Times
    PROVE  /\ Value(x) = <<c>> => x = c
           /\ Value(x) = <<x>> <=> x # "neg"
<1>1. /\ <<"LONG_MAX">> = <<c>> <=> "LONG_MAX" = c
      /\ <<x>> = <<c>> <=> x = c
      /\ <<"LONG_MAX">> = <<x>> <=> "LONG_MAX" = x
  OBVIOUS
<1>2. c # "LONG_MAX" /\ x # "LONG_MAX"
  BY DEF Times
<1> QED BY <1>1, <1>2 DEF Value

----------------------------------------------------------------------------
\* The properties.

\* The invariant holds the types.
LEMMA TypesKept == NewFilesInv => TypeOK
<1> SUFFICES ASSUME NewFilesInv PROVE TypeOK
  OBVIOUS
<1>1. \A p \in DOMAIN jt : jt[p].path = p
  <2>1. CASE pc \in {"walk", "done"}
    BY <2>1, JournalRead
  <2>2. CASE pc \notin {"walk", "done"}
    <3>1. jt = <<>>
      BY <2>2 DEF NewFilesInv, WalkInv
    <3>2. DOMAIN <<>> = {}
      OBVIOUS
    <3> QED BY <3>1, <3>2
  <2> QED BY <2>1, <2>2
<1>2. ToSet(todo) \subseteq Paths
  BY DEF NewFilesInv, WalkInv, ToSet
<1> QED BY <1>1, <1>2 DEF NewFilesInv, SearchInv, DiskInv, WalkInv, TypeOK

\* What was read decides as what was written.
LEMMA DecidesAsWritten == NoFalseLines /\ NewFilesInv => ReadBack
<1> SUFFICES ASSUME NoFalseLines, NewFilesInv, pc \in {"walk", "done"} PROVE ReadBack
  BY DEF ReadBack
<1> DEFINE written == listed[last]
           plain == dir[last] = "whole" /\ \A p \in written : ~HasNewline(p)
<1>1. written \subseteq Paths
  BY LastRead
<1>2. /\ \A p \in Paths : p \in DOMAIN jt => \E q \in written : IsPrefix(p, q) /\ jt[p] = Stamped(q, p)
      /\ plain => \A p \in written : p \in DOMAIN jt
      /\ plain => \A p \in DOMAIN jt : p \in written /\ jt[p] = Stamped(p, p)
  BY JournalRead
<1>3. plain \in BOOLEAN
  OBVIOUS
<1> HIDE DEF written, plain
<1>4. \A p \in Paths : StampOf[p] = <<StampOf[p][1], StampOf[p][2]>>
                       /\ StampOf[p][1] \in Times /\ StampOf[p][2] \in Times
  BY NewFilesAssumption
<1>5. ASSUME NEW p \in Paths, NEW c \in Times, NEW m \in Times,
             Unchanged(jt, [path |-> p, ctime |-> c, mtime |-> m])
      PROVE  \E q \in written : /\ StampOf[q] = <<c, m>>
                                /\ IF plain THEN p = q ELSE IsPrefix(p, q)
  <2>1. p \in DOMAIN jt /\ jt[p].ctime = <<c>> /\ jt[p].mtime = <<m>>
    BY <1>5 DEF Unchanged
  <2>2. ASSUME NEW q \in written, jt[p] = Stamped(q, p) PROVE StampOf[q] = <<c, m>>
    <3>1. Value(StampOf[q][1]) = <<c>> /\ Value(StampOf[q][2]) = <<m>>
      BY <2>1, <2>2 DEF Stamped
    <3>2. StampOf[q][1] = c /\ StampOf[q][2] = m
      BY <1>1, <1>4, <3>1, ValueFacts
    <3> QED BY <1>1, <1>4, <3>2
  <2>3. CASE plain
    BY <1>2, <2>1, <2>2, <2>3
  <2>4. CASE ~plain
    BY <1>2, <2>1, <2>2, <2>4
  <2> QED BY <2>3, <2>4
<1>6. ASSUME plain, NEW p \in written
      PROVE  Unchanged(jt, Entry(p)) <=> "neg" \notin ToSet(StampOf[p])
  <2> DEFINE c == StampOf[p][1]
             m == StampOf[p][2]
  <2>1. p \in DOMAIN jt /\ jt[p].ctime = Value(c) /\ jt[p].mtime = Value(m)
    BY <1>2, <1>6 DEF Stamped
  <2>2. c \in Times /\ m \in Times /\ StampOf[p] = <<c, m>>
    BY <1>1, <1>4
  <2>3. Unchanged(jt, Entry(p)) <=> Value(c) = <<c>> /\ Value(m) = <<m>>
    BY <2>1 DEF Unchanged, Entry
  <2> HIDE DEF c, m
  <2>4. ToSet(<<c, m>>) = {c, m}
    BY DEF ToSet
  <2>5. (Value(c) = <<c>> <=> c # "neg") /\ (Value(m) = <<m>> <=> m # "neg")
    BY <2>2, ValueFacts
  <2> QED BY <2>2, <2>3, <2>4, <2>5
<1> QED BY <1>5, <1>6 DEF ReadBack, written, plain

\* The report is right after a plain journal.
LEMMA ReportsRight == NewFilesInv => ReportRight
<1> SUFFICES ASSUME NewFilesInv, pc = "done", dir[last] = "whole",
                    \A p \in listed[last] : ~HasNewline(p)
             PROVE  printed = IF prog = "newfiles" THEN FirstDumped \ Missed ELSE DumpedAgain \ NotRegular
  BY DEF ReportRight
<1>1. \A p : p \in DOMAIN jt <=> p \in listed[last]
  BY JournalRead
<1>2. printed = {p \in ToWalk : Reported(p)}
  BY AllPrinted
<1>3. \A p \in Paths : ino[last][p] # 0 => p \in listed[last]
  BY FilesHaveLines
<1>4. CASE prog = "newfiles"
  <2>1. printed = {p \in ToWalk : p \notin listed[last]}
    BY <1>1, <1>2, <1>4 DEF Reported, IsNew
  <2> QED BY <1>3, <1>4, <2>1 DEF FirstDumped, Missed, ToWalk
<1>5. CASE prog # "newfiles"
  <2>1. printed = {p \in ToWalk : /\ p \in listed[last] /\ ino[last][p] # 0
                                  /\ p \notin NotRegular /\ ino[last][p] # ino[Asked][p]}
    BY <1>1, <1>2, <1>5 DEF Reported, IsChanged
  <2>2. DumpedAgain = {p \in ToWalk : ino[last][p] # 0 /\ ino[last][p] # ino[Asked][p]}
    BY DEF DumpedAgain, ToWalk
  <2> QED BY <1>3, <1>5, <2>1, <2>2 DEF ToWalk
<1> QED BY <1>4, <1>5

\* What newfiles leaves out is the beginning of a path in the journal.
LEMMA HidesPrefixes == NoFalseLines /\ NewFilesInv => HiddenByPrefix
<1> SUFFICES ASSUME NoFalseLines, NewFilesInv, pc = "done", prog = "newfiles",
                    NEW p \in FirstDumped \ printed
             PROVE  \E q \in listed[last] : IsPrefix(p, q)
  BY DEF HiddenByPrefix
<1>1. p \in ToWalk /\ p \in Paths
  BY DEF FirstDumped, ToWalk
<1>2. p \in DOMAIN jt
  BY <1>1, AllPrinted DEF Reported, IsNew
<1> QED BY <1>1, <1>2, JournalRead

\* What changedfiles leaves out has no whole line.
LEMMA HidesChanged == NewFilesInv => ChangeHidden
<1> SUFFICES ASSUME NewFilesInv, pc = "done", prog = "changedfiles"
             PROVE  /\ printed \subseteq DumpedAgain
                    /\ \A p \in (DumpedAgain \ NotRegular) \ printed : dir[last] = "cut" \/ HasNewline(p)
  BY DEF ChangeHidden
<1>1. printed = {p \in ToWalk : IsChanged(p)} /\ ToWalk \subseteq Paths
  BY AllPrinted DEF Reported
<1>2. printed \subseteq DumpedAgain
  BY <1>1 DEF IsChanged, DumpedAgain, ToWalk
<1>3. ASSUME NEW p \in (DumpedAgain \ NotRegular) \ printed, dir[last] # "cut", ~HasNewline(p)
      PROVE  FALSE
  <2>1. /\ p \in Paths /\ p \in ToWalk /\ p \notin NotRegular
        /\ ino[last][p] # 0 /\ ino[last][p] # ino[Asked][p]
    BY DEF DumpedAgain, ToWalk
  <2>2. p \in listed[last]
    BY <2>1, FilesHaveLines
  <2>3. dir[last] = "whole"
    BY <1>3, LastRead
  <2>4. p \in DOMAIN jt
    BY <1>3, <2>2, <2>3, JournalRead
  <2> QED BY <1>1, <2>1, <2>4 DEF IsChanged
<1> QED BY <1>2, <1>3

----------------------------------------------------------------------------
\* The theorems.

\* The inductive invariant holds in every reachable state: the search has passed
\* short days only, each file of a dump has a line in the text its journal was
\* written with, and what the walk has printed and is still to print is what
\* showFile() reports of the asked day's files.
THEOREM NewFilesInvariant == Spec => []NewFilesInv
<1>1. Init => NewFilesInv
  BY SearchInit, DiskInit, WalkInit DEF NewFilesInv
<1>2. NewFilesInv /\ [Next]_vars => NewFilesInv'
  BY SearchNext, DiskNext, WalkNext DEF NewFilesInv
<1> QED BY <1>1, <1>2, PTL DEF Spec

\* Every variable keeps its type; each node of the tree read is at its own path.
THEOREM TypeCorrect == Spec => []TypeOK
  BY NewFilesInvariant, TypesKept, PTL

\* setBkupDir() compares the asked day with the last day before it that has a
\* directory, passes over short days only, and takes the asked day itself only
\* when that is long.
THEOREM LastDayIsFound == Spec => []LastDayFound
<1>1. NewFilesInv => LastDayFound
  BY DEF NewFilesInv, SearchInv
<1> QED BY <1>1, NewFilesInvariant, PTL

\* Of a journal whole or cut anywhere, with any paths and stamps, but with no name
\* that reads as a line: makeJournalTree() reads what recurrentBackup() decides
\* by, and a path that was not written only as the beginning of one that was.
THEOREM JournalReadBack == NoFalseLines => (Spec => []ReadBack)
<1> SUFFICES ASSUME NoFalseLines PROVE Spec => []ReadBack
  OBVIOUS
<1>1. NewFilesInv => ReadBack
  BY DecidesAsWritten
<1> QED BY <1>1, NewFilesInvariant, PTL

\* After a whole journal without newlines newfiles and changedfiles print the files
\* they are to print, and no other.
THEOREM ReportIsRight == Spec => []ReportRight
  BY NewFilesInvariant, ReportsRight, PTL

\* Whatever became of the last journal, a new file that newfiles leaves out is in
\* it or is the beginning of a path that is, unless a name reads as a line.
THEOREM HiddenFilesArePrefixes == NoFalseLines => (Spec => []HiddenByPrefix)
<1> SUFFICES ASSUME NoFalseLines PROVE Spec => []HiddenByPrefix
  OBVIOUS
<1>1. NewFilesInv => HiddenByPrefix
  BY HidesPrefixes
<1> QED BY <1>1, NewFilesInvariant, PTL

\* changedfiles prints no file that the asked day's dump shares with the last, and
\* leaves out a changed one only for its newline or where the journal was cut.
THEOREM ChangesAreHiddenByCuts == Spec => []ChangeHidden
  BY NewFilesInvariant, HidesChanged, PTL
=============================================================================
