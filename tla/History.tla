------------------------------ MODULE History ------------------------------
(***************************************************************************)
(* backupfs-hist.c: the dates on which a file changed, read off the inode  *)
(* numbers of its hard links in the dated dumps.  prHistory() goes back    *)
(* from today one day at a time; decrementDate() jumps over months and     *)
(* years that have no directory and stops Nyears back.                     *)
(*                                                                         *)
(* Months and days are counted from 0 and 1 as in struct tm.  Every month  *)
(* is given LastDay days, as the code does ("Ok to ignore short months"):  *)
(* a day that is not in the calendar has no dump.                          *)
(***************************************************************************)
EXTENDS Integers, Sequences, FiniteSets, FiniteSetsExt

CONSTANTS ThisYear,   \* tm_yday, which main() sets to this year
          FirstYear,  \* bound: the oldest year that may have a dump
          LastMonth,  \* 11
          LastDay,    \* 31
          Nyears,     \* years to look back
          MaxDumps    \* bound: dumps the file is in

ASSUME CalendarAssumption ==
    /\ FirstYear \in Nat /\ ThisYear \in Nat /\ FirstYear <= ThisYear
    /\ LastMonth \in Nat /\ LastDay \in Nat \ {0}
    /\ Nyears \in Nat /\ MaxDumps \in Nat

Date == [year : FirstYear..ThisYear, mon : 0..LastMonth, mday : 1..LastDay]
Earlier(s, t) == \/ s.year < t.year
                 \/ s.year = t.year /\ s.mon < t.mon
                 \/ s.year = t.year /\ s.mon = t.mon /\ s.mday < t.mday
Latest(S) == CHOOSE t \in S : \A s \in S : s = t \/ Earlier(s, t)

VARIABLES
    inodeOf,   \* inode of the file in the dump of each date, 0 where it has none
    dirs,      \* dates that have a directory, for this source or another
    today,
    tm,        \* *ptm: the date looked at
    inode,     \* 0 until the first dump of the file is found
    prev,      \* the last date found, printed when the inode changes
    printed,   \* what prHistory() has printed
    done

vars == <<inodeOf, dirs, today, tm, inode, prev, printed, done>>

\* The file is in some dumps; it gets a new inode in those where it had changed.
Init ==
    /\ today \in {t \in Date : t.year = ThisYear}
    /\ \E own \in UNION {kSubset(n, {t \in Date : ~Earlier(today, t)}) : n \in 0..MaxDumps} :
       \E other \in Date : \E changed \in SUBSET own :
         /\ dirs = own \cup {other}
         /\ inodeOf = [t \in Date |->
                IF t \in own THEN 1 + Cardinality({c \in changed : ~Earlier(t, c)}) ELSE 0]
    /\ tm = today
    /\ inode = 0 /\ prev = today /\ printed = <<>> /\ done = FALSE

\* doesPathExist() on .../yyyy and on .../yyyy/mm
YearExists(y) == \E t \in dirs : t.year = y
MonthExists(y, m) == \E t \in dirs : t.year = y /\ t.mon = m

\* The `ychange' loop: the latest earlier year with a directory, until Nyears back.
YearAgain(y) == {k \in FirstYear..y : YearExists(k)}       \* mutant: the year is not decremented
YearBefore(y) == {k \in FirstYear..(y - 1) : ThisYear - k <= Nyears /\ YearExists(k)}

\* The `mchange' loop, which stays in the year.
MonthBeforeNotFirst(y, m) == {k \in 1..(m - 1) : MonthExists(y, k)}       \* mutant: tm_mon > 0
MonthBefore(y, m) == {k \in 0..(m - 1) : MonthExists(y, k)}

DayBefore(t) == {[t EXCEPT !.mday = @ - 1]}       \* mutant: the first of the month is not special

\* decrementDate(): the next date to look at, or none.
Decremented(t) ==
    IF t.mday > 1 THEN {[t EXCEPT !.mday = @ - 1]}
    ELSE IF MonthBefore(t.year, t.mon) # {}
         THEN {[year |-> t.year, mon |-> Max(MonthBefore(t.year, t.mon)), mday |-> LastDay]}
    ELSE IF YearBefore(t.year) # {}
         THEN {[year |-> Max(YearBefore(t.year)), mon |-> LastMonth, mday |-> LastDay]}
    ELSE {}

\* doesPathExist() on the file of date tm: INODE_CHANGE
InodeChanges == inode # 0 /\ inodeOf[tm] # inode

\* The body of the loop of prHistory(), where the file is in the dump.
Found == /\ ~done
         /\ inodeOf[tm] # 0
         /\ printed' = IF InodeChanges THEN Append(printed, prev) ELSE printed
         /\ inode' = inodeOf[tm]
         /\ prev' = tm

\* INODE_NOPATH
NotFound == /\ ~done
            /\ inodeOf[tm] = 0
            /\ UNCHANGED <<printed, inode, prev>>

Back == /\ Found \/ NotFound
        /\ tm' \in Decremented(tm)
        /\ UNCHANGED <<inodeOf, dirs, today, done>>

\* The loop ends; the version that was being followed is printed.
LastFound == /\ ~done
             /\ Decremented(tm) = {}
             /\ inodeOf[tm] # 0
             /\ printed' = (IF InodeChanges THEN Append(printed, prev) ELSE printed) \o <<tm>>
             /\ inode' = inodeOf[tm] /\ prev' = tm /\ done' = TRUE
             /\ UNCHANGED <<inodeOf, dirs, today, tm>>

LastNotFound == /\ ~done
                /\ Decremented(tm) = {}
                /\ inodeOf[tm] = 0
                /\ printed' = IF inode # 0 THEN Append(printed, prev) ELSE printed
                /\ done' = TRUE
                /\ UNCHANGED <<inodeOf, dirs, today, tm, inode, prev>>

Next == Back \/ LastFound \/ LastNotFound
Spec == Init /\ [][Next]_vars /\ WF_vars(Next)

----------------------------------------------------------------------------
\* Properties.

\* Every variable has its type.
TypeOK == /\ inodeOf \in [Date -> Nat]
          /\ dirs \subseteq Date
          /\ {today, tm, prev} \subseteq Date
          /\ inode \in Nat
          /\ printed \in Seq(Date)
          /\ done \in BOOLEAN

InReach == {t \in Date : ThisYear - t.year <= Nyears /\ inodeOf[t] # 0}
Older(t) == {s \in InReach : Earlier(s, t)}

\* The dates a reader of the history wants: those on which the file was first
\* dumped with the content it has there.
Changes == {t \in InReach : Older(t) = {} \/ inodeOf[Latest(Older(t))] # inodeOf[t]}

\* When it ends, the history has every change within Nyears once, the newest
\* first, and nothing else: no jump over a month or a year skips a dump.
HistoryRight ==
    done => /\ Len(printed) = Cardinality(Changes)
            /\ {printed[i] : i \in 1..Len(printed)} = Changes
            /\ \A i \in 1..(Len(printed) - 1) : Earlier(printed[i + 1], printed[i])

\* The inductive invariant of the proofs.  The dates gone past:
Passed == {t \in InReach : Earlier(tm, t) \/ (done /\ t = tm)}
LastPassed == prev \in Passed /\ \A t \in Passed : t = prev \/ Earlier(prev, t)

\* A dump has its directory, and none is made for a day to come.
DumpsHaveDirs == \A t \in Date : inodeOf[t] # 0 => t \in dirs /\ ~Earlier(today, t)

\* The search stays within Nyears, and ends when nothing is left there.
StaysInReach == ThisYear - tm.year <= Nyears /\ (done => Older(tm) = {})

\* The version followed is that of the earliest dump gone past.
FollowsLast == IF Passed = {} THEN inode = 0 ELSE inode = inodeOf[prev] /\ LastPassed

\* Of what was gone past every change is printed, but for the version followed.
PrintsPassed ==
    /\ {printed[i] : i \in DOMAIN printed} =
           {t \in Changes \cap Passed : ~done => t # prev}
    /\ \A i, j \in DOMAIN printed : i < j => Earlier(printed[j], printed[i])

HistoryInv == DumpsHaveDirs /\ StaysInReach /\ FollowsLast /\ PrintsPassed

\* The search ends.
HistoryEnds == <>done
=============================================================================
