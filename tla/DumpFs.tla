------------------------------- MODULE DumpFs -------------------------------
(***************************************************************************)
(* What the dated dumps of backupfs promise, without journal, tar or hard  *)
(* link.  While the dump of a day is open, every file may be put in it     *)
(* once, in a version the source held since the dump was opened (a file    *)
(* whose transfer went wrong may be put torn).  A closed dump is never     *)
(* written again and a day is dumped at most once.                         *)
(***************************************************************************)
EXTENDS Integers

CONSTANTS Files,    \* the source files
          Day,      \* the days a dump may be made on; positive
          MaxVer    \* bound: versions of a file, removals counted

VARIABLES held,     \* held[f]: version the source holds, 0 while f is absent
          dumps,    \* dumps[d][f]: what the dump of day d has of f, 0: nothing
          open,     \* day of the dump being made, 0 between dumps
          during    \* during[f]: versions of f held while a dump is open

fsVars == <<held, dumps, open, during>>

Torn == -1

FsInit == /\ held = [f \in Files |-> 1]
          /\ dumps = [d \in Day |-> [f \in Files |-> 0]]
          /\ open = 0
          /\ during = [f \in Files |-> {}]

\* The user edits, removes or restores a file, whether a dump is open or not.
Change(f, v) == /\ held' = [held EXCEPT ![f] = v]
                /\ during' = IF open = 0 THEN during
                             ELSE [during EXCEPT ![f] = @ \cup {v}]
                /\ UNCHANGED <<dumps, open>>

\* A dump starts, with the versions of this instant, on a day without one.
Begin(d) == /\ open = 0
            /\ \A f \in Files : dumps[d][f] = 0
            /\ open' = d
            /\ during' = [f \in Files |-> {held[f]}]
            /\ UNCHANGED <<held, dumps>>

\* A file gets its only entry: a version held since Begin, or a torn copy.
Put(f, v) == /\ open # 0
             /\ dumps[open][f] = 0
             /\ v \in (during[f] \ {0}) \cup {Torn}
             /\ dumps' = [dumps EXCEPT ![open][f] = v]
             /\ UNCHANGED <<held, open, during>>

\* A file is changed while it is being put: its entry is torn.
ChangeAndTear(f, v) == /\ open # 0
                       /\ dumps[open][f] = 0
                       /\ held' = [held EXCEPT ![f] = v]
                       /\ during' = [during EXCEPT ![f] = @ \cup {v}]
                       /\ dumps' = [dumps EXCEPT ![open][f] = Torn]
                       /\ UNCHANGED open

End == /\ open # 0
       /\ open' = 0
       /\ during' = [f \in Files |-> {}]
       /\ UNCHANGED <<held, dumps>>

FsNext == \/ \E f \in Files, v \in 0..MaxVer : Change(f, v) \/ ChangeAndTear(f, v)
          \/ \E d \in Day : Begin(d)
          \/ \E f \in Files : \E v \in (during[f] \ {0}) \cup {Torn} : Put(f, v)
          \/ End

FsSpec == FsInit /\ [][FsNext]_fsVars
=============================================================================
