--------------------------- MODULE ExecPipeProofs ---------------------------
(***************************************************************************)
(* Proofs about ExecPipe, for any jobs, number of chunks, size of a pipe,  *)
(* faults and number of ^C: a pipeline passes only if all was read and     *)
(* both commands succeeded, their ends of the pipe are in place whatever   *)
(* descriptors pipe() returned, no command outlives the call, ^C reaches   *)
(* the commands and then the program again, and the words of a pass get to *)
(* the program they are for.                                               *)
(*                                                                         *)
(* The last is about the operators of Commands: mkArgs() undoes Joined()   *)
(* for words of any length without a blank (SplitsBack).  Induction over   *)
(* the words goes through the set of the numbers for which something       *)
(* holds.                                                                  *)
(***************************************************************************)
EXTENDS ExecPipe, SequenceTheorems, FiniteSetTheorems, WellFoundedInduction, TLAPS

\* Which calls have a second command, and what has been forked where the parent
\* is: it never passes a fork twice.
Early == {"ignore", "mask", "pipe", "fork", "fork0"}
Forked == /\ pc[Parent] \in {"pipe", "fork0", "fork1", "close", "wait"} => piped
          /\ pc[Parent] \in {"fork", "waitpid"} => ~piped
          /\ pc[Parent] \in Early => \A c \in Cmd : pc[c] = "unborn"
          /\ pc[Parent] = "fork1" => pc[Cmd1] = "unborn"
          /\ ~piped => pc[Cmd2] = "unborn"
          /\ \A c \in Cmd : pc[c] = "unborn" => code[c] = "none"

\* A status that was collected is that of a child that is gone; when the parent
\* has left the loops, all are.
Collected == /\ \A c \in Cmd : pc[c] = "zombie" => code[c] \in Ending
             /\ \A c \in Cmd : st[c] # "none" => pc[c] = "reaped"
             /\ piped => \A c \in Cmd : st[c] # "none" => st[c] = code[c]
             /\ pc[Parent] \in {"restore", "done", "dead"} => \A c \in Cmd : ~Born(c)

\* The verdict is the last thing the parent does.
Judged == /\ result # "none" => pc[Parent] = "done"
          /\ result = "passed" => Passed /\ action[Parent] = "default"

\* The signal actions of a command are restored before anything else is done.
Restored == \A c \in Cmd : pc[c] \in {"plumb", "exec", "run"} => action[c] = "default"

\* Both ends, where pipe() put them, and nothing else of the pipe.
TwoEnds(f) == /\ fd.r < fd.w
              /\ f[fd.r] = "r" /\ f[fd.w] = "w"
              /\ \A n \in Fd \ {fd.r, fd.w} : f[n] \notin End
OnlyEnd(f, n, e) == f[n] = e /\ \A m \in Fd \ {n} : f[m] \notin End

\* Who has which end of the pipe.
Plumbing ==
    /\ pc[Parent] \in {"ignore", "mask", "pipe"} => \A n \in Fd : fds[Parent][n] \notin End
    /\ pc[Parent] \in {"fork0", "fork1", "close"} => TwoEnds(fds[Parent])
    /\ piped => \A c \in Cmd : pc[c] \in {"restore", "plumb"} => TwoEnds(fds[c])
    /\ piped /\ pc[Cmd1] \in {"exec", "run"} => OnlyEnd(fds[Cmd1], 1, "w")
    /\ piped /\ pc[Cmd2] \in {"exec", "run"} => OnlyEnd(fds[Cmd2], 0, "r")

\* What was written is in the pipe or was read; cmd2 ends well only when nobody
\* can write any more, and nothing is left.
NoWriter == \A p \in Proc : Born(p) => \A n \in Fd : fds[p][n] # "w"
Drained == /\ got + inPipe = sent
           /\ piped /\ code[Cmd1] = "zero" => sent = Chunks
           /\ piped /\ code[Cmd2] = "zero" => inPipe = 0 /\ NoWriter

PipeInv == Forked /\ Collected /\ Judged /\ Restored /\ Plumbing /\ Drained

\* ParentStep and the other steps, in groups.
SetsUp == IgnoreSigs \/ IgnoreSigsFails \/ BlockChld \/ Pipe \/ PipeFails
ForksOff == Fork0 \/ Fork1 \/ ForkSingle \/ FirstForkFails \/ SecondForkFails
Waits == CloseEnds \/ Wait \/ WaitFails \/ WaitDone \/ WaitPid
Concludes == Restore \/ RestoreFails
Prepares(c) == ChildRestores(c) \/ Plumb(c) \/ Exec(c) \/ Refused(c) \/ ExecFails(c)
Moves == WriteChunk \/ ReadChunk
Leaves(c) == BrokenPipe \/ AllSent \/ EndOfFile \/ CommandFails(c)
Disturbed == StrayEnds \/ Interrupt

\* The groups are all there is.
LEMMA Groups ==
    Next => \/ SetsUp \/ ForksOff \/ Waits \/ Concludes \/ Moves \/ Disturbed
            \/ \E c \in Cmd : Prepares(c) \/ Leaves(c)
  BY DEF Next, ParentStep, Cmd1Step, Cmd2Step, SetupStep, SetsUp, ForksOff, Waits, Concludes,
         Prepares, Moves, Leaves, Disturbed, Cmd

----------------------------------------------------------------------------

IInv == TypeOK /\ PipeInv

\* What the steps need of the constants.
LEMMA Sizes == Chunks \in Nat /\ Cap \in Nat \ {0} /\ MaxSignals \in Nat
  BY PipeAssumption

\* Which processes the functions are about, and what is a number.
LEMMA Domains ==
    TypeOK => /\ DOMAIN pc = {Parent, Cmd1, Cmd2, Stray}
              /\ DOMAIN fds = {Parent, Cmd1, Cmd2}
              /\ DOMAIN action = {Parent, Cmd1, Cmd2}
              /\ DOMAIN masked = {Parent, Cmd1, Cmd2}
              /\ DOMAIN code = {Cmd1, Cmd2, Stray}
              /\ DOMAIN st = {Cmd1, Cmd2}
              /\ \A p \in {Parent, Cmd1, Cmd2} : DOMAIN fds[p] = Fd
              /\ fd.r \in Fd /\ fd.w \in Fd
              /\ got \in Nat /\ sent \in Nat /\ inPipe \in Nat
  BY PipeAssumption DEF TypeOK, Proc, Child, Cmd

\* Before anything is forked.
LEMMA Start == Init => IInv
<1> SUFFICES ASSUME Init PROVE IInv
  OBVIOUS
<1> USE DEF Init, JustStderr, Fd, End, Ending, Parent, Cmd1, Cmd2, Stray, Proc, Cmd, Child
<1>1. TypeOK
  <2>1. fds \in [Proc -> [Fd -> {"closed", "std"} \cup End]]
    OBVIOUS
  <2>2. code \in [Child -> Ending \cup {"none", "alive"}]
    OBVIOUS
  <2>3. pc \in [Proc \cup {Stray} -> {"ignore", "unborn"}] /\ piped \in BOOLEAN
    OBVIOUS
  <2>4. /\ action \in [Proc -> {"default"}] /\ masked \in [Proc -> BOOLEAN]
        /\ st \in [Cmd -> {"none"}] /\ fd \in [r : Fd, w : Fd]
    OBVIOUS
  <2>5. /\ inPipe \in 0..Cap /\ sent \in 0..Chunks /\ got \in 0..Chunks
        /\ signals \in 0..MaxSignals
    BY PipeAssumption
  <2>6. /\ job \in Jobs /\ sigchld \in Inherited /\ odd \in BOOLEAN
        /\ result \in {"none", "passed", "failed"}
    OBVIOUS
  <2> HIDE DEF Init
  <2> QED
    BY <2>1, <2>2, <2>3, <2>4, <2>5, <2>6 DEF TypeOK
<1>2. Forked /\ Collected /\ Judged /\ Restored
  BY DEF Forked, Early, Collected, Born, Judged, Restored
<1>3. Plumbing
  BY DEF Plumbing
<1>4. Drained
  BY DEF Drained
<1> QED
  BY <1>1, <1>2, <1>3, <1>4 DEF IInv, PipeInv

\* A step keeps the types; of what was read, because it was in the pipe.
LEMMA KeepsTypeOK == IInv /\ [Next]_vars => TypeOK'
<1> SUFFICES ASSUME IInv, [Next]_vars PROVE TypeOK'
  OBVIOUS
<1> USE Domains, Sizes DEF IInv, PipeInv, TypeOK, Collected, Drained, Forked,
                           Early, Ending, Fd, End, NoFds, Goto, unchangedData,
                           Parent, Cmd1, Cmd2, Stray, Proc, Cmd, Child
<1>1. ASSUME SetsUp PROVE TypeOK'
  <2>1. CASE IgnoreSigs
    BY <2>1 DEF IgnoreSigs
  <2>2. CASE IgnoreSigsFails
    BY <2>2 DEF IgnoreSigsFails, Exits
  <2>3. CASE BlockChld
    BY <2>3 DEF BlockChld
  <2>4. CASE Pipe
    BY <2>4 DEF Pipe
  <2>5. CASE PipeFails
    BY <2>5 DEF PipeFails, Exits
  <2> QED
    BY <1>1, <2>1, <2>2, <2>3, <2>4, <2>5 DEF SetsUp
<1>2. ASSUME ForksOff PROVE TypeOK'
  BY <1>2 DEF ForksOff, Fork0, Fork1, ForkSingle, Forks, FirstForkFails, Exits,
         SecondForkFails
<1>3. ASSUME Waits PROVE TypeOK'
  <2>1. CASE CloseEnds
    BY <2>1 DEF CloseEnds, Closed
  <2>2. CASE Wait
    BY <2>2 DEF Wait
  <2>3. CASE WaitFails
    BY <2>3 DEF WaitFails
  <2>4. CASE WaitDone
    BY <2>4 DEF WaitDone, BothExited
  <2>5. CASE WaitPid
    BY <2>5 DEF WaitPid
  <2> QED
    BY <1>3, <2>1, <2>2, <2>3, <2>4, <2>5 DEF Waits
<1>4. ASSUME Concludes PROVE TypeOK'
  BY <1>4 DEF Concludes, Restore, RestoreFails, Verdict, Passed
<1>5. ASSUME NEW c \in Cmd, Prepares(c) PROVE TypeOK'
  <2>1. CASE ChildRestores(c)
    BY <2>1 DEF ChildRestores
  <2>2. CASE Plumb(c)
    BY <2>2 DEF Plumb, Plumbed, Closed
  <2>3. CASE Exec(c)
    BY <2>3 DEF Exec
  <2>4. CASE Refused(c)
    BY <2>4 DEF Refused, Dies, Corpse
  <2>5. CASE ExecFails(c)
    BY <2>5 DEF ExecFails, Dies, Corpse
  <2> QED
    BY <1>5, <2>1, <2>2, <2>3, <2>4, <2>5 DEF Prepares
<1>6. ASSUME Moves PROVE TypeOK'
  BY <1>6 DEF Moves, WriteChunk, ReadChunk
<1>7. ASSUME NEW c \in Cmd, Leaves(c) PROVE TypeOK'
  BY <1>7 DEF Leaves, BrokenPipe, AllSent, EndOfFile, CommandFails, Dies, Corpse
<1>8. ASSUME Disturbed PROVE TypeOK'
  BY <1>8 DEF Disturbed, StrayEnds, Interrupt, Corpse
<1>9. CASE UNCHANGED vars
  BY <1>9 DEF vars
<1> QED
  BY <1>1, <1>2, <1>3, <1>4, <1>5, <1>6, <1>7, <1>8, <1>9, Groups

\* A child is forked at most once, and only for a command there is.
LEMMA KeepsForked == IInv /\ [Next]_vars => Forked'
<1> SUFFICES ASSUME IInv, [Next]_vars PROVE Forked'
  OBVIOUS
<1> USE Domains, Sizes DEF IInv, PipeInv, Forked, Early, Born, Goto,
                           unchangedData, Parent, Cmd1, Cmd2, Stray, Proc, Cmd,
                           Child
<1>1. ASSUME SetsUp PROVE Forked'
  BY <1>1 DEF SetsUp, IgnoreSigs, IgnoreSigsFails, BlockChld, Pipe, PipeFails, Exits
<1>2. ASSUME ForksOff PROVE Forked'
  BY <1>2 DEF ForksOff, Fork0, Fork1, ForkSingle, Forks, FirstForkFails, Exits,
         SecondForkFails
<1>3. ASSUME Waits PROVE Forked'
  BY <1>3 DEF Waits, CloseEnds, Closed, Wait, WaitFails, WaitDone, BothExited, WaitPid
<1>4. ASSUME Concludes PROVE Forked'
  BY <1>4 DEF Concludes, Restore, RestoreFails, Verdict, Passed
<1>5. ASSUME NEW c \in Cmd, Prepares(c) PROVE Forked'
  BY <1>5 DEF Prepares, ChildRestores, Plumb, Plumbed, Closed, Exec, Refused, ExecFails,
         Dies, Corpse
<1>6. ASSUME Moves PROVE Forked'
  BY <1>6 DEF Moves, WriteChunk, ReadChunk
<1>7. ASSUME NEW c \in Cmd, Leaves(c) PROVE Forked'
  BY <1>7 DEF Leaves, BrokenPipe, AllSent, EndOfFile, CommandFails, Dies, Corpse
<1>8. ASSUME Disturbed PROVE Forked'
  BY <1>8 DEF Disturbed, StrayEnds, Interrupt, Corpse
<1>9. CASE UNCHANGED vars
  BY <1>9 DEF vars
<1> QED
  BY <1>1, <1>2, <1>3, <1>4, <1>5, <1>6, <1>7, <1>8, <1>9, Groups

\* A status that was collected stays that of its child.
LEMMA KeepsCollected == IInv /\ [Next]_vars => Collected'
<1> SUFFICES ASSUME IInv, [Next]_vars PROVE Collected'
  OBVIOUS
<1> USE Domains, Sizes DEF IInv, PipeInv, Collected, Forked, Early, Ending,
                           Born, Goto, unchangedData, Parent, Cmd1, Cmd2,
                           Stray, Proc, Cmd, Child
<1>1. ASSUME SetsUp PROVE Collected'
  BY <1>1 DEF SetsUp, IgnoreSigs, IgnoreSigsFails, BlockChld, Pipe, PipeFails, Exits
<1>2. ASSUME ForksOff PROVE Collected'
  BY <1>2 DEF ForksOff, Fork0, Fork1, ForkSingle, Forks, FirstForkFails, Exits,
         SecondForkFails
<1>3. ASSUME Waits PROVE Collected'
  BY <1>3 DEF Waits, CloseEnds, Closed, Wait, WaitFails, WaitDone, BothExited, WaitPid
<1>4. ASSUME Concludes PROVE Collected'
  BY <1>4 DEF Concludes, Restore, RestoreFails, Verdict, Passed
<1>5. ASSUME NEW c \in Cmd, Prepares(c) PROVE Collected'
  BY <1>5 DEF Prepares, ChildRestores, Plumb, Plumbed, Closed, Exec, Refused, ExecFails,
         Dies, Corpse
<1>6. ASSUME Moves PROVE Collected'
  BY <1>6 DEF Moves, WriteChunk, ReadChunk
<1>7. ASSUME NEW c \in Cmd, Leaves(c) PROVE Collected'
  BY <1>7 DEF Leaves, BrokenPipe, AllSent, EndOfFile, CommandFails, Dies, Corpse
<1>8. ASSUME Disturbed PROVE Collected'
  BY <1>8 DEF Disturbed, StrayEnds, Interrupt, Corpse
<1>9. CASE UNCHANGED vars
  BY <1>9 DEF vars
<1> QED
  BY <1>1, <1>2, <1>3, <1>4, <1>5, <1>6, <1>7, <1>8, <1>9, Groups

\* No step takes a verdict back.
LEMMA KeepsJudged == IInv /\ [Next]_vars => Judged'
<1> SUFFICES ASSUME IInv, [Next]_vars PROVE Judged'
  OBVIOUS
<1> USE Domains, Sizes DEF IInv, PipeInv, Judged, Passed, Goto, unchangedData,
                           Parent, Cmd1, Cmd2, Stray, Proc, Cmd, Child
<1>1. ASSUME SetsUp PROVE Judged'
  BY <1>1 DEF SetsUp, IgnoreSigs, IgnoreSigsFails, BlockChld, Pipe, PipeFails, Exits
<1>2. ASSUME ForksOff PROVE Judged'
  BY <1>2 DEF ForksOff, Fork0, Fork1, ForkSingle, Forks, FirstForkFails, Exits,
         SecondForkFails
<1>3. ASSUME Waits PROVE Judged'
  BY <1>3 DEF Waits, CloseEnds, Closed, Wait, WaitFails, WaitDone, BothExited, WaitPid
<1>4. ASSUME Concludes PROVE Judged'
  BY <1>4 DEF Concludes, Restore, RestoreFails, Verdict, Passed
<1>5. ASSUME NEW c \in Cmd, Prepares(c) PROVE Judged'
  BY <1>5 DEF Prepares, ChildRestores, Plumb, Plumbed, Closed, Exec, Refused, ExecFails,
         Dies, Corpse
<1>6. ASSUME Moves PROVE Judged'
  BY <1>6 DEF Moves, WriteChunk, ReadChunk
<1>7. ASSUME NEW c \in Cmd, Leaves(c) PROVE Judged'
  BY <1>7 DEF Leaves, BrokenPipe, AllSent, EndOfFile, CommandFails, Dies, Corpse
<1>8. ASSUME Disturbed PROVE Judged'
  BY <1>8 DEF Disturbed, StrayEnds, Interrupt, Corpse
<1>9. CASE UNCHANGED vars
  BY <1>9 DEF vars, Passed
<1> QED
  BY <1>1, <1>2, <1>3, <1>4, <1>5, <1>6, <1>7, <1>8, <1>9, Groups

\* Only its own exec follows a child's restoring of its signal actions.
LEMMA KeepsRestored == IInv /\ [Next]_vars => Restored'
<1> SUFFICES ASSUME IInv, [Next]_vars PROVE Restored'
  OBVIOUS
<1> USE Domains, Sizes DEF IInv, PipeInv, Restored, Goto, unchangedData,
                           Parent, Cmd1, Cmd2, Stray, Proc, Cmd, Child
<1>1. ASSUME SetsUp PROVE Restored'
  BY <1>1 DEF SetsUp, IgnoreSigs, IgnoreSigsFails, BlockChld, Pipe, PipeFails, Exits
<1>2. ASSUME ForksOff PROVE Restored'
  BY <1>2 DEF ForksOff, Fork0, Fork1, ForkSingle, Forks, FirstForkFails, Exits,
         SecondForkFails
<1>3. ASSUME Waits PROVE Restored'
  BY <1>3 DEF Waits, CloseEnds, Closed, Wait, WaitFails, WaitDone, BothExited, WaitPid
<1>4. ASSUME Concludes PROVE Restored'
  BY <1>4 DEF Concludes, Restore, RestoreFails, Verdict, Passed
<1>5. ASSUME NEW c \in Cmd, Prepares(c) PROVE Restored'
  BY <1>5 DEF Prepares, ChildRestores, Plumb, Plumbed, Closed, Exec, Refused, ExecFails,
         Dies, Corpse
<1>6. ASSUME Moves PROVE Restored'
  BY <1>6 DEF Moves, WriteChunk, ReadChunk
<1>7. ASSUME NEW c \in Cmd, Leaves(c) PROVE Restored'
  BY <1>7 DEF Leaves, BrokenPipe, AllSent, EndOfFile, CommandFails, Dies, Corpse
<1>8. ASSUME Disturbed PROVE Restored'
  BY <1>8 DEF Disturbed, StrayEnds, Interrupt, Corpse
<1>9. CASE UNCHANGED vars
  BY <1>9 DEF vars
<1> QED
  BY <1>1, <1>2, <1>3, <1>4, <1>5, <1>6, <1>7, <1>8, <1>9, Groups

\* pipe() with any lowest descriptors, fork() and the dup2() of each child put
\* the ends where they belong.
LEMMA KeepsPlumbing == IInv /\ [Next]_vars => Plumbing'
<1> SUFFICES ASSUME IInv, [Next]_vars PROVE Plumbing'
  OBVIOUS
<1> USE Domains, Sizes DEF IInv, PipeInv, Plumbing, Forked, Early, TwoEnds,
                           OnlyEnd, Fd, End, NoFds, Born, Goto, unchangedData,
                           Parent, Cmd1, Cmd2, Stray, Proc, Cmd, Child
<1>1. ASSUME SetsUp PROVE Plumbing'
  <2>1. CASE Pipe BY <2>1 DEF Pipe
  <2>2. CASE IgnoreSigs \/ IgnoreSigsFails BY <2>2 DEF IgnoreSigs, IgnoreSigsFails, Exits
  <2>3. CASE BlockChld \/ PipeFails BY <2>3 DEF BlockChld, PipeFails, Exits
  <2> QED BY <1>1, <2>1, <2>2, <2>3 DEF SetsUp
<1>2. ASSUME ForksOff PROVE Plumbing'
  BY <1>2 DEF ForksOff, Fork0, Fork1, ForkSingle, Forks, FirstForkFails, Exits,
         SecondForkFails
<1>3. ASSUME Waits PROVE Plumbing'
  BY <1>3 DEF Waits, CloseEnds, Closed, Wait, WaitFails, WaitDone, BothExited, WaitPid
<1>4. ASSUME Concludes PROVE Plumbing'
  BY <1>4 DEF Concludes, Restore, RestoreFails, Verdict, Passed
<1>5. ASSUME NEW c \in Cmd, Prepares(c) PROVE Plumbing'
  <2>1. CASE ChildRestores(c) BY <2>1 DEF ChildRestores
  <2>2. CASE Plumb(c)
    <3>1. CASE c = Cmd1 BY <2>2, <3>1 DEF Plumb, Plumbed, Closed
    <3>2. CASE c = Cmd2 BY <2>2, <3>2 DEF Plumb, Plumbed, Closed
    <3> QED BY <3>1, <3>2
  <2>3. CASE Exec(c) BY <2>3 DEF Exec
  <2>4. CASE Refused(c) BY <2>4 DEF Refused, Dies, Corpse
  <2>5. CASE ExecFails(c) BY <2>5 DEF ExecFails, Dies, Corpse
  <2> QED BY <1>5, <2>1, <2>2, <2>3, <2>4, <2>5 DEF Prepares
<1>6. ASSUME Moves PROVE Plumbing'
  BY <1>6 DEF Moves, WriteChunk, ReadChunk
<1>7. ASSUME NEW c \in Cmd, Leaves(c) PROVE Plumbing'
  BY <1>7 DEF Leaves, BrokenPipe, AllSent, EndOfFile, CommandFails, Dies, Corpse
<1>8. ASSUME Disturbed PROVE Plumbing'
  BY <1>8 DEF Disturbed, StrayEnds, Interrupt, Corpse
<1>9. CASE UNCHANGED vars
  BY <1>9 DEF vars
<1> QED
  BY <1>1, <1>2, <1>3, <1>4, <1>5, <1>6, <1>7, <1>8, <1>9, Groups

\* Nothing is written once cmd2 has seen the end: by then the parent has closed
\* its copies, and cmd1 is gone.
LEMMA KeepsDrained == IInv /\ [Next]_vars => Drained'
<1> SUFFICES ASSUME IInv, [Next]_vars PROVE Drained'
  OBVIOUS
<1> USE Domains, Sizes DEF IInv, PipeInv, Drained, Forked, Early, Plumbing,
                           TwoEnds, OnlyEnd, NoWriter, Holders, Fd, End, NoFds,
                           Born, Goto, unchangedData, Parent, Cmd1, Cmd2,
                           Stray, Proc, Cmd, Child
<1>1. ASSUME SetsUp PROVE Drained'
  BY <1>1 DEF SetsUp, IgnoreSigs, IgnoreSigsFails, BlockChld, Pipe, PipeFails, Exits
<1>2. ASSUME ForksOff PROVE Drained'
  BY <1>2 DEF ForksOff, Fork0, Fork1, ForkSingle, Forks, FirstForkFails, Exits,
         SecondForkFails
<1>3. ASSUME Waits PROVE Drained'
  BY <1>3 DEF Waits, CloseEnds, Closed, Wait, WaitFails, WaitDone, BothExited, WaitPid
<1>4. ASSUME Concludes PROVE Drained'
  BY <1>4 DEF Concludes, Restore, RestoreFails, Verdict, Passed
<1>5. ASSUME NEW c \in Cmd, Prepares(c) PROVE Drained'
  BY <1>5 DEF Prepares, ChildRestores, Plumb, Plumbed, Closed, Exec, Refused, ExecFails,
         Dies, Corpse
<1>6. ASSUME Moves PROVE Drained'
  BY <1>6 DEF Moves, WriteChunk, ReadChunk
<1>7. ASSUME NEW c \in Cmd, Leaves(c) PROVE Drained'
  BY <1>7 DEF Leaves, BrokenPipe, AllSent, EndOfFile, CommandFails, Dies, Corpse
<1>8. ASSUME Disturbed PROVE Drained'
  BY <1>8 DEF Disturbed, StrayEnds, Interrupt, Corpse
<1>9. CASE UNCHANGED vars
  BY <1>9 DEF vars
<1> QED
  BY <1>1, <1>2, <1>3, <1>4, <1>5, <1>6, <1>7, <1>8, <1>9, Groups

----------------------------------------------------------------------------

\* The invariant holds throughout the call.
LEMMA Throughout == Spec => []IInv
<1>1. IInv /\ [Next]_vars => IInv'
  BY KeepsTypeOK, KeepsForked, KeepsCollected, KeepsJudged, KeepsRestored, KeepsPlumbing,
     KeepsDrained DEF IInv, PipeInv
<1> QED
  BY Start, <1>1, PTL DEF Spec

\* Every variable of a call has its type: the pipe never holds more than Cap, and
\* cmd2 never reads more than was written.
THEOREM CallTyping == Spec => []TypeOK
<1>1. IInv => TypeOK
  BY DEF IInv
<1> QED
  BY Throughout, <1>1, PTL

\* `cmd1 | cmd2' passes only if cmd2 has read all of cmd1's output and both
\* succeeded, for any number of chunks, size of the pipe, order of ends and faults.
THEOREM PassedIsRight == Spec => []PassedMeansAllRead
<1>1. IInv => PassedMeansAllRead
  <2> SUFFICES ASSUME IInv, result = "passed", piped
               PROVE  got = Chunks /\ code[Cmd1] = "zero" /\ code[Cmd2] = "zero"
    BY DEF PassedMeansAllRead
  <2>1. code[Cmd1] = "zero" /\ code[Cmd2] = "zero"
    BY DEF IInv, PipeInv, Judged, Passed, Collected, Cmd
  <2>2. got + inPipe = sent /\ sent = Chunks /\ inPipe = 0
    BY <2>1 DEF IInv, PipeInv, Drained
  <2>3. got \in Nat
    BY Domains DEF IInv
  <2> QED
    BY <2>1, <2>2, <2>3
<1> QED
  BY Throughout, <1>1, PTL

\* execvp() finds the ends of the pipe on stdout and stdin, and no other copy.
THEOREM EndsAreInPlace == Spec => []EndsInPlace
<1>1. IInv => EndsInPlace
  BY DEF IInv, PipeInv, Plumbing, OnlyEnd, EndsInPlace
<1> QED
  BY Throughout, <1>1, PTL

\* Whatever fails, no command outlives the call.
THEOREM NoneIsLeft == Spec => []NoChildLeft
<1>1. IInv => NoChildLeft
  BY DEF IInv, PipeInv, Collected, NoChildLeft
<1> QED
  BY Throughout, <1>1, PTL

\* A command that runs can be interrupted, and after a call that passed the program
\* can.
THEOREM InterruptReaches == Spec => []InterruptWorks
<1>1. IInv => InterruptWorks
  BY DEF IInv, PipeInv, Restored, Judged, InterruptWorks
<1> QED
  BY Throughout, <1>1, PTL

----------------------------------------------------------------------------
\* Joining words with blanks and splitting a line at its blanks.

\* Induction over the naturals, for the members of a set.
LEMMA Induction ==
    ASSUME NEW S, 0 \in S, \A n \in Nat : n \in S => n + 1 \in S
    PROVE  Nat \subseteq S
<1> DEFINE T == Nat \ S
           Less == {q \in Nat \X Nat : q[1] < q[2]}
<1> SUFFICES ASSUME T # {} PROVE FALSE
  OBVIOUS
<1>1. IsWellFoundedOn(Less, Nat)
  BY NatLessThanWellFounded DEF OpToRel
<1> HIDE DEF Less
<1>2. PICK n \in T : \A m \in T : ~(<<m, n>> \in Less)
  BY <1>1, WFMin
<1>3. n # 0 /\ n - 1 \in Nat /\ n \in Nat /\ (n - 1) + 1 = n
  OBVIOUS
<1>4. <<n - 1, n>> \in Less
  BY <1>3 DEF Less
<1>5. n - 1 \in S
  BY <1>2, <1>3, <1>4
<1> QED BY <1>3, <1>5

\* A greatest member is the maximum.
LEMMA MaxIs ==
    ASSUME NEW S, S \subseteq Int, NEW x \in S, \A y \in S : x >= y
    PROVE  Max(S) = x
<1>1. Max(S) \in S /\ \A y \in S : Max(S) >= y
  BY DEF Max
<1> DEFINE m == Max(S)
<1>2. m \in Int /\ x \in Int /\ m <= x /\ x <= m
  BY <1>1
<1> HIDE DEF m
<1>3. m = x
  BY <1>2
<1> QED BY <1>3 DEF m

\* Numbers that grow, and the first n of them.
Growing(e, N) == e \in [1..N -> Nat] /\ \A a, b \in 1..N : a < b => e[a] < e[b]
FirstOf(e, n) == {e[m] : m \in 1..n}

\* There are as many as there should be.
LEMMA Counted ==
    ASSUME NEW N \in Nat, NEW e, Growing(e, N), NEW n \in 0..N
    PROVE  Cardinality(FirstOf(e, n)) = n
<1> DEFINE P == {k \in Nat : k <= N => /\ IsFiniteSet(FirstOf(e, k))
                                       /\ Cardinality(FirstOf(e, k)) = k}
<1>1. 0 \in P
  <2>1. FirstOf(e, 0) = {}
    BY DEF FirstOf
  <2> QED BY <2>1, FS_EmptySet
<1>2. ASSUME NEW k \in Nat, k \in P PROVE k + 1 \in P
  <2> SUFFICES ASSUME k + 1 <= N
               PROVE  IsFiniteSet(FirstOf(e, k + 1)) /\ Cardinality(FirstOf(e, k + 1)) = k + 1
    OBVIOUS
  <2>1. 1..(k + 1) = 1..k \cup {k + 1}
    OBVIOUS
  <2>2. FirstOf(e, k + 1) = FirstOf(e, k) \cup {e[k + 1]}
    BY <2>1 DEF FirstOf
  <2>3. e[k + 1] \notin FirstOf(e, k)
    <3> SUFFICES ASSUME NEW m \in 1..k, e[m] = e[k + 1] PROVE FALSE
      BY DEF FirstOf
    <3>1. m \in 1..N /\ k + 1 \in 1..N /\ m < k + 1
      OBVIOUS
    <3>2. e[m] < e[k + 1] /\ e[m] \in Nat
      BY <3>1 DEF Growing
    <3> QED BY <3>2
  <2>4. IsFiniteSet(FirstOf(e, k)) /\ Cardinality(FirstOf(e, k)) = k
    BY <1>2
  <2> QED BY <2>2, <2>3, <2>4, FS_AddElement
<1> HIDE DEF P
<1>3. n \in P
  BY <1>1, <1>2, Induction
<1> QED BY <1>3 DEF P

\* The n-th of them is the n-th.
LEMMA NthIs ==
    ASSUME NEW N \in Nat, NEW e, Growing(e, N), NEW n \in 1..N
    PROVE  Nth(n, FirstOf(e, N)) = e[n]
<1>1. ASSUME NEW m \in 1..N PROVE Cardinality({j \in FirstOf(e, N) : j <= e[m]}) = m
  <2>1. \A k \in 1..N : e[k] <= e[m] <=> k <= m
    BY DEF Growing
  <2>2. {j \in FirstOf(e, N) : j <= e[m]} = FirstOf(e, m)
    BY <2>1 DEF FirstOf
  <2> QED BY <2>2, Counted
<1>2. e[n] \in FirstOf(e, N)
  BY DEF FirstOf
<1>3. ASSUME NEW k \in FirstOf(e, N), Cardinality({j \in FirstOf(e, N) : j <= k}) = n
      PROVE  k = e[n]
  <2>1. PICK m \in 1..N : k = e[m]
    BY DEF FirstOf
  <2> QED BY <1>1, <1>3, <2>1
<1>4. Cardinality({j \in FirstOf(e, N) : j <= e[n]}) = n
  BY <1>1
<1> QED BY <1>2, <1>3, <1>4 DEF Nth

\* The line of the first n words is that of one word less, a blank and the last.
IsLine(args, upto) == /\ Joined(args) = upto[Len(args)]
                       /\ upto[1] = args[1]
                       /\ \A n \in 2..Len(args) :
                              upto[n] = upto[n - 1] \o <<Space>> \o args[n]

\* Joined() joins.
LEMMA JoinedIs ==
    ASSUME NEW X, Space \in X, NEW args \in Seq(Seq(X)), args # <<>>
    PROVE  \E upto \in [1..Len(args) -> Seq(X)] : IsLine(args, upto)
<1> DEFINE N == Len(args)
           G(n, x) == x \o <<Space>> \o args[n]
           Fits(f, k) == f[1] = args[1] /\ \A n \in 2..k : f[n] = G(n, f[n - 1])
           P == {k \in Nat : k < N => \E f \in [1..(k + 1) -> Seq(X)] : Fits(f, k + 1)}
           IsUpto(g) == g = [n \in DOMAIN args |->
                                IF n = 1 THEN args[1] ELSE g[n - 1] \o <<Space>> \o args[n]]
           upto == CHOOSE g : IsUpto(g)
<1>1. N \in Nat /\ N > 0 /\ DOMAIN args = 1..N /\ \A n \in 1..N : args[n] \in Seq(X)
  OBVIOUS
<1>2. \A n \in 1..N : \A x \in Seq(X) : G(n, x) \in Seq(X)
  <2> TAKE n \in 1..N
  <2> TAKE x \in Seq(X)
  <2>1. <<Space>> \in Seq(X)
    OBVIOUS
  <2>2. x \o <<Space>> \in Seq(X)
    BY <2>1, ConcatProperties
  <2> QED BY <1>1, <2>2, ConcatProperties
<1>3. Joined(args) = upto[N]
  BY DEF Joined
<1> HIDE DEF N, G
<1>4. 0 \in P
  <2> DEFINE f == [n \in 1..1 |-> args[1]]
  <2>1. f \in [1..1 -> Seq(X)] /\ Fits(f, 1)
    BY <1>1
  <2> HIDE DEF f, Fits
  <2>2. \E g \in [1..(0 + 1) -> Seq(X)] : Fits(g, 0 + 1)
    BY <2>1
  <2> QED BY <2>2
<1> HIDE DEF Fits
<1>5. ASSUME NEW k \in Nat, k \in P PROVE k + 1 \in P
  <2> SUFFICES ASSUME k + 1 < N
               PROVE  \E f \in [1..(k + 1 + 1) -> Seq(X)] : Fits(f, k + 1 + 1)
    OBVIOUS
  <2>1. PICK f \in [1..(k + 1) -> Seq(X)] : Fits(f, k + 1)
    BY <1>1, <1>5
  <2> DEFINE m == k + 1 + 1
             g == [n \in 1..m |-> IF n = m THEN G(m, f[k + 1]) ELSE f[n]]
  <2>2. m \in 1..N /\ m # 1 /\ m - 1 = k + 1 /\ 1 \in 1..m /\ k + 1 \in 1..(k + 1) /\ k + 1 \in 1..m
    BY <1>1
  <2>3. G(m, f[k + 1]) \in Seq(X)
    BY <1>2, <2>2
  <2>4. \A n \in 1..m : n # m => n \in 1..(k + 1)
    OBVIOUS
  <2>5. g \in [1..m -> Seq(X)] /\ g[1] = f[1] /\ g[m] = G(m, f[k + 1])
    BY <2>2, <2>3, <2>4
  <2>6. \A n \in 1..(k + 1) : g[n] = f[n]
    OBVIOUS
  <2> HIDE DEF g
  <2>7. \A n \in 2..m : g[n] = G(n, g[n - 1])
    <3> TAKE n \in 2..m
    <3>1. CASE n = m
      BY <2>2, <2>5, <2>6, <3>1
    <3>2. CASE n # m
      <4>1. n \in 1..(k + 1) /\ n - 1 \in 1..(k + 1) /\ n \in 2..(k + 1)
        BY <3>2
      <4> QED BY <2>1, <2>6, <4>1 DEF Fits
    <3> QED BY <3>1, <3>2
  <2>8. Fits(g, m)
    BY <2>1, <2>5, <2>7 DEF Fits
  <2> QED BY <2>5, <2>8
<1> HIDE DEF P
<1>6. N - 1 \in P
  <2>1. N - 1 \in Nat
    BY <1>1
  <2> QED BY <1>4, <1>5, <2>1, Induction
<1>7. PICK f \in [1..N -> Seq(X)] : Fits(f, N)
  BY <1>1, <1>6 DEF P
<1>8. IsUpto(f)
  <2>1. \A n \in 1..N : f[n] = IF n = 1 THEN args[1] ELSE f[n - 1] \o <<Space>> \o args[n]
    <3> TAKE n \in 1..N
    <3>1. n # 1 => n \in 2..N
      OBVIOUS
    <3> QED BY <1>7, <3>1 DEF Fits, G
  <2> QED BY <1>1, <1>7, <2>1
<1>9. IsUpto(upto)
  BY <1>8
<1> HIDE DEF upto
<1> DEFINE F(n) == IF n = 1 THEN args[1] ELSE G(n, upto[n - 1])
<1>10. upto = [n \in 1..N |-> F(n)]
  BY <1>1, <1>9 DEF G
<1> HIDE DEF F
<1>11. \A n \in 1..N : upto[n] = F(n)
  BY <1>10
<1>12. upto[1] = args[1] /\ \A n \in 2..N : upto[n] = G(n, upto[n - 1])
  <2>1. 1 \in 1..N /\ \A n \in 2..N : n \in 1..N /\ n # 1
    BY <1>1
  <2> QED BY <1>11, <2>1 DEF F
<1>13. \A n \in 1..N : upto[n] \in Seq(X)
  <2> DEFINE Q == {k \in Nat : k < N => upto[k + 1] \in Seq(X)}
  <2>1. 0 \in Q
    BY <1>1, <1>12
  <2>2. ASSUME NEW k \in Nat, k \in Q PROVE k + 1 \in Q
    <3> SUFFICES ASSUME k + 1 < N PROVE upto[k + 1 + 1] \in Seq(X)
      OBVIOUS
    <3>1. k + 1 + 1 \in 2..N /\ k + 1 + 1 \in 1..N /\ k + 1 + 1 - 1 = k + 1
      BY <1>1
    <3>2. upto[k + 1] \in Seq(X)
      BY <1>1, <2>2
    <3> QED BY <1>2, <1>12, <3>1, <3>2
  <2> HIDE DEF Q
  <2>3. Nat \subseteq Q
    BY <2>1, <2>2, Induction
  <2> TAKE n \in 1..N
  <2>4. n - 1 \in Nat /\ n - 1 < N /\ n - 1 + 1 = n
    BY <1>1
  <2> QED BY <2>3, <2>4 DEF Q
<1>14. upto \in [1..N -> Seq(X)]
  BY <1>10, <1>11, <1>13
<1> QED BY <1>3, <1>12, <1>14 DEF IsLine, N, G

\* The sequences without a blank.
Word(X) == {w \in Seq(X) : \A k \in 1..Len(w) : w[k] # Space}

\* Where the words stand in their line, e[n] being the place behind the n-th.
Before(e, n) == IF n = 1 THEN 0 ELSE e[n - 1]
Placed(args, e, line, m) ==
    /\ \A a, b \in 1..m : a < b => e[a] < e[b]
    /\ Blanks(line) = FirstOf(e, m - 1)
    /\ \A n \in 1..m : e[n] = Before(e, n) + Len(args[n]) + 1
    /\ \A n \in 1..m : \A j \in 1..Len(args[n]) : line[Before(e, n) + j] = args[n][j]

\* A blank and a word more.
LEMMA PlacedMore ==
    ASSUME NEW X, Space \in X, NEW args \in Seq(Word(X)), NEW m \in 1..(Len(args) - 1),
           NEW e \in [1..Len(args) -> Nat], NEW line \in Seq(X), e[m] = Len(line) + 1,
           Placed(args, e, line, m),
           e[m + 1] = Len(line \o <<Space>> \o args[m + 1]) + 1
    PROVE  Placed(args, e, line \o <<Space>> \o args[m + 1], m + 1)
<1> DEFINE w == args[m + 1]
           U == line \o <<Space>> \o w
<1>1. /\ m \in Nat \ {0} /\ m + 1 \in 1..Len(args) /\ Len(args) \in Nat
      /\ w \in Seq(X) /\ (\A k \in 1..Len(w) : w[k] # Space)
      /\ \A n \in 1..m : n \in 1..Len(args) /\ e[n] \in Nat
  <2>1. Len(args) \in Nat
    OBVIOUS
  <2>2. m \in Nat \ {0} /\ m + 1 \in 1..Len(args) /\ 1..m \subseteq 1..Len(args)
    BY <2>1
  <2>3. \A n \in 1..Len(args) : args[n] \in Word(X)
    OBVIOUS
  <2>4. w \in Word(X)
    BY <2>2, <2>3
  <2> HIDE DEF w
  <2> QED BY <2>1, <2>2, <2>4 DEF Word
<1>2. Len(line) \in Nat /\ Len(w) \in Nat
  BY <1>1
<1>3. /\ U \in Seq(X) /\ Len(U) = Len(line) + 1 + Len(w)
      /\ \A i \in 1..Len(line) : U[i] = line[i]
      /\ U[e[m]] = Space
      /\ \A j \in 1..Len(w) : U[e[m] + j] = w[j]
  <2> DEFINE v == <<Space>> \o w
  <2> HIDE DEF w
  <2>1. <<Space>> \in Seq(X) /\ Len(<<Space>>) = 1 /\ <<Space>>[1] = Space
    OBVIOUS
  <2> DEFINE l == line \o <<Space>>
  <2>2. /\ l \in Seq(X) /\ Len(l) = Len(line) + 1
        /\ \A i \in 1..(Len(line) + 1) : l[i] = IF i <= Len(line) THEN line[i]
                                                ELSE <<Space>>[i - Len(line)]
    BY <2>1, ConcatProperties
  <2>3. (\A i \in 1..Len(line) : l[i] = line[i]) /\ l[Len(line) + 1] = Space
    <3>1. \A i \in 1..Len(line) : i \in 1..(Len(line) + 1) /\ i <= Len(line)
      BY <1>2
    <3>2. /\ Len(line) + 1 \in 1..(Len(line) + 1) /\ ~(Len(line) + 1 <= Len(line))
          /\ Len(line) + 1 - Len(line) = 1
      BY <1>2
    <3> HIDE DEF l
    <3> QED BY <2>1, <2>2, <3>1, <3>2
  <2> HIDE DEF l
  <2>4. /\ l \o w \in Seq(X) /\ Len(l \o w) = Len(l) + Len(w)
        /\ \A i \in 1..(Len(l) + Len(w)) : (l \o w)[i] = IF i <= Len(l) THEN l[i]
                                                          ELSE w[i - Len(l)]
    <3>1. l \in Seq(X) /\ w \in Seq(X)
      BY <1>1, <2>2
    <3> QED BY <3>1, ConcatProperties
  <2>5. U = l \o w
    BY DEF l
  <2> HIDE DEF U
  <2>6. \A i \in 1..Len(l) : U[i] = l[i]
    <3>1. \A i \in 1..Len(l) : i \in 1..(Len(l) + Len(w)) /\ i <= Len(l)
      BY <1>2, <2>2
    <3> QED BY <2>4, <2>5, <3>1
  <2>7. \A j \in 1..Len(w) : U[Len(l) + j] = w[j]
    <3>1. \A j \in 1..Len(w) : /\ Len(l) + j \in 1..(Len(l) + Len(w))
                                /\ ~(Len(l) + j <= Len(l)) /\ Len(l) + j - Len(l) = j
      BY <1>2, <2>2
    <3> QED BY <2>4, <2>5, <3>1
  <2>8. \A i \in 1..Len(line) : i \in 1..Len(l)
    BY <1>2, <2>2
  <2>9. Len(line) + 1 \in 1..Len(l)
    BY <1>2, <2>2
  <2> QED BY <1>1, <2>2, <2>3, <2>4, <2>5, <2>6, <2>7, <2>8, <2>9
<1> HIDE DEF w, U
<1>4. e[m + 1] = e[m] + Len(w) + 1 /\ Before(e, m + 1) = e[m] /\ e[m] \in Nat
  BY <1>1, <1>2, <1>3 DEF U, w, Before
<1>5. \A a, b \in 1..(m + 1) : a < b => e[a] < e[b]
  <2> SUFFICES ASSUME NEW a \in 1..(m + 1), NEW b \in 1..(m + 1), a < b PROVE e[a] < e[b]
    OBVIOUS
  <2>1. CASE b # m + 1
    <3>1. a \in 1..m /\ b \in 1..m
      BY <2>1
    <3> QED BY <3>1 DEF Placed
  <2>2. CASE b = m + 1
    <3>1. a \in 1..m /\ m \in 1..m /\ (a = m \/ a < m)
      BY <2>2
    <3>2. a < m => e[a] < e[m]
      BY <3>1 DEF Placed
    <3>3. e[a] \in Nat /\ e[a] <= e[m]
      BY <1>1, <1>4, <3>1, <3>2
    <3> QED BY <1>2, <1>4, <2>2, <3>3
  <2> QED BY <2>1, <2>2
<1>6. \A n \in 1..m : e[n] <= e[m] /\ e[n] \in Nat
  <2> TAKE n \in 1..m
  <2>1. m \in 1..m /\ (n = m \/ n < m)
    BY <1>1
  <2>2. n < m => e[n] < e[m]
    BY <2>1 DEF Placed
  <2> QED BY <1>1, <1>4, <2>1, <2>2
<1>7. Blanks(U) = FirstOf(e, m)
  <2>1. DOMAIN U = 1..Len(U) /\ DOMAIN line = 1..Len(line)
    BY <1>3
  <2>2. \A k \in 1..Len(U) : \/ k \in 1..Len(line) \/ k = e[m]
                             \/ \E j \in 1..Len(w) : k = e[m] + j
    <3> TAKE k \in 1..Len(U)
    <3>1. CASE k > e[m]
      <4>1. k - e[m] \in 1..Len(w) /\ k = e[m] + (k - e[m])
        BY <1>2, <1>3, <1>4, <3>1
      <4> QED BY <4>1
    <3>2. CASE ~(k > e[m])
      BY <1>2, <1>3, <1>4, <3>2
    <3> QED BY <3>1, <3>2
  <2>3. e[m] \in 1..Len(U) /\ 1..Len(line) \subseteq 1..Len(U)
    BY <1>2, <1>3
  <2>4. Blanks(U) = Blanks(line) \cup {e[m]}
    <3>1. ASSUME NEW k \in Blanks(U) PROVE k \in Blanks(line) \cup {e[m]}
      <4>1. k \in 1..Len(U) /\ U[k] = Space
        BY <2>1 DEF Blanks
      <4>2. CASE k \in 1..Len(line)
        BY <1>3, <2>1, <4>1, <4>2 DEF Blanks
      <4>3. CASE k = e[m]
        BY <4>3
      <4>4. ASSUME NEW j \in 1..Len(w), k = e[m] + j PROVE FALSE
        <5>1. U[e[m] + j] = w[j] /\ w[j] # Space
          BY <1>1, <1>3
        <5> QED BY <4>1, <4>4, <5>1
      <4> QED BY <2>2, <4>1, <4>2, <4>3, <4>4
    <3>2. \A k \in Blanks(line) \cup {e[m]} : k \in Blanks(U)
      BY <1>3, <2>1, <2>3 DEF Blanks
    <3> QED BY <3>1, <3>2
  <2>5. 1..m = 1..(m - 1) \cup {m}
    BY <1>1
  <2>6. FirstOf(e, m) = FirstOf(e, m - 1) \cup {e[m]}
    BY <2>5 DEF FirstOf
  <2> QED BY <2>4, <2>6 DEF Placed
<1>8. ASSUME NEW n \in 1..(m + 1), NEW j \in 1..Len(args[n])
      PROVE  U[Before(e, n) + j] = args[n][j]
  <2>1. CASE n = m + 1
    BY <1>3, <1>4, <1>8, <2>1 DEF w
  <2>2. CASE n # m + 1
    <3>1. n \in 1..m
      BY <2>2
    <3>2. Len(args[n]) \in Nat
      <4>1. args[n] \in Word(X)
        BY <1>1, <3>1
      <4> QED BY <4>1 DEF Word
    <3>3. Before(e, n) \in Nat
      <4>1. n # 1 => n - 1 \in 1..m
        BY <3>1
      <4> QED BY <1>6, <4>1 DEF Before
    <3>4. e[n] = Before(e, n) + Len(args[n]) + 1 /\ e[n] <= Len(line) + 1
      BY <1>6, <3>1 DEF Placed
    <3>5. Before(e, n) + j \in 1..Len(line)
      BY <1>2, <1>8, <3>2, <3>3, <3>4
    <3> QED BY <1>3, <1>8, <3>1, <3>5 DEF Placed
  <2> QED BY <2>1, <2>2
<1>9. ASSUME NEW n \in 1..(m + 1) PROVE e[n] = Before(e, n) + Len(args[n]) + 1
  <2>1. CASE n = m + 1
    BY <1>4, <2>1 DEF w
  <2>2. CASE n # m + 1
    <3>1. n \in 1..m
      BY <2>2
    <3> QED BY <3>1 DEF Placed
  <2> QED BY <2>1, <2>2
<1>10. m + 1 - 1 = m
  BY <1>1
<1>11. Placed(args, e, U, m + 1)
  BY <1>5, <1>7, <1>8, <1>9, <1>10 DEF Placed
<1> QED BY <1>11 DEF U, w

\* mkArgs() gives back the words that were joined, whatever they are but for blanks.
LEMMA SplitsBack ==
    ASSUME NEW X, Space \in X, NEW args \in Seq(Word(X)), args # <<>>
    PROVE  MkArgs(Joined(args)) = args
<1> DEFINE N == Len(args)
<1>1. /\ N \in Nat \ {0} /\ DOMAIN args = 1..N
      /\ \A n \in 1..N : args[n] \in Word(X)
  OBVIOUS
<1>2. \A n \in 1..N : args[n] \in Seq(X) /\ \A k \in 1..Len(args[n]) : args[n][k] # Space
  BY <1>1 DEF Word
<1>3. args \in Seq(Seq(X))
  BY <1>1, <1>2
<1>4. PICK upto \in [1..Len(args) -> Seq(X)] : IsLine(args, upto)
  BY <1>3, JoinedIs
<1> DEFINE e == [n \in 1..N |-> Len(upto[n]) + 1]
           L == upto[N]
           Q == {k \in Nat : k < N => Placed(args, e, upto[k + 1], k + 1)}
<1>5. \A n \in 1..N : upto[n] \in Seq(X) /\ Len(upto[n]) \in Nat
  BY <1>4
<1>6. e \in [1..Len(args) -> Nat] /\ \A n \in 1..N : e[n] = Len(upto[n]) + 1
  BY <1>5
<1> HIDE DEF N, e
<1>7. 0 \in Q
  <2>1. upto[1] = args[1] /\ 1 \in 1..N
    BY <1>1, <1>4 DEF IsLine
  <2>2. Placed(args, e, upto[1], 1)
    <3>1. Blanks(upto[1]) = {}
      BY <1>2, <2>1 DEF Blanks
    <3>2. FirstOf(e, 1 - 1) = {}
      BY DEF FirstOf
    <3>3. Before(e, 1) = 0 /\ Len(args[1]) \in Nat
      BY <1>2, <2>1 DEF Before
    <3>4. e[1] = Len(args[1]) + 1
      BY <1>6, <2>1
    <3>5. \A n \in 1..1 : n = 1
      OBVIOUS
    <3>6. \A n \in 1..1 : \A j \in 1..Len(args[n]) : upto[1][Before(e, n) + j] = args[n][j]
      BY <2>1, <3>3, <3>5
    <3>7. \A a, b \in 1..1 : a < b => e[a] < e[b]
      OBVIOUS
    <3>8. \A n \in 1..1 : e[n] = Before(e, n) + Len(args[n]) + 1
      BY <3>3, <3>4, <3>5
    <3> QED BY <3>1, <3>2, <3>6, <3>7, <3>8 DEF Placed
  <2> QED BY <2>2
<1>8. ASSUME NEW k \in Nat, k \in Q PROVE k + 1 \in Q
  <2> SUFFICES ASSUME k + 1 < N PROVE Placed(args, e, upto[k + 1 + 1], k + 1 + 1)
    OBVIOUS
  <2> DEFINE m == k + 1
  <2>1. m \in 1..(Len(args) - 1) /\ m + 1 \in 2..N /\ m + 1 - 1 = m /\ m \in 1..N /\ m + 1 \in 1..N
    BY <1>1 DEF N
  <2>2. Placed(args, e, upto[m], m)
    BY <1>1, <1>8
  <2> HIDE DEF m
  <2>3. upto[m + 1] = upto[m] \o <<Space>> \o args[m + 1]
    <3> DEFINE Longer(n, text) == text \o <<Space>> \o args[n]
    <3>1. \A n \in 2..Len(args) : upto[n] = Longer(n, upto[n - 1])
      BY <1>4 DEF IsLine
    <3> HIDE DEF Longer
    <3>2. m \in Nat /\ Len(args) \in Nat /\ m + 1 \in 2..Len(args) /\ m + 1 - 1 = m
      BY <1>1, <2>1 DEF N, m
    <3>3. upto[m + 1] = Longer(m + 1, upto[m])
      BY <3>1, <3>2
    <3> QED BY <3>3 DEF Longer
  <2>4. upto[m] \in Seq(X) /\ e[m] = Len(upto[m]) + 1
        /\ e[m + 1] = Len(upto[m] \o <<Space>> \o args[m + 1]) + 1
    BY <1>5, <1>6, <2>1, <2>3
  <2>5. Placed(args, e, upto[m] \o <<Space>> \o args[m + 1], m + 1)
    BY <1>6, <2>1, <2>2, <2>4, PlacedMore
  <2> QED BY <2>3, <2>5 DEF m
<1> HIDE DEF Q
<1>9. Placed(args, e, L, N)
  <2>1. N - 1 \in Nat /\ N - 1 < N /\ N - 1 + 1 = N
    BY <1>1
  <2>2. N - 1 \in Q
    BY <1>7, <1>8, <2>1, Induction
  <2> QED BY <2>1, <2>2 DEF Q
<1>10. Joined(args) = L /\ N \in 1..N
  BY <1>1, <1>4 DEF IsLine, N
<1>11. L \in Seq(X) /\ e[N] = Len(L) + 1
  BY <1>5, <1>6, <1>10
<1> HIDE DEF L
<1>12. Growing(e, N)
  BY <1>6, <1>9 DEF Growing, Placed, N
<1>13. Blanks(L) \cup {Len(L) + 1} = FirstOf(e, N)
  <2>1. 1..N = 1..(N - 1) \cup {N}
    BY <1>1
  <2>2. FirstOf(e, N) = FirstOf(e, N - 1) \cup {e[N]}
    BY <2>1 DEF FirstOf
  <2> QED BY <1>9, <1>11, <2>2 DEF Placed
<1>14. ASSUME NEW n \in 1..N PROVE WordUpTo(L, e[n]) = args[n]
  <2>1. e[n] \in Nat /\ \A k \in 1..N : e[k] \in Nat
    BY <1>6 DEF N
  <2> DEFINE R == {j \in Blanks(L) : j < e[n]} \cup {0}
             b == Before(e, n)
  <2>2. \A k \in 1..N : e[k] < e[n] <=> k < n
    BY <1>12, <2>1 DEF Growing
  <2>3. Blanks(L) = FirstOf(e, N - 1)
    BY <1>9 DEF Placed
  <2>4. 1..(N - 1) \subseteq 1..N
    BY <1>1
  <2>5. \A j \in R : j = 0 \/ \E k \in 1..(N - 1) : j = e[k] /\ k < n
    BY <2>2, <2>3, <2>4 DEF FirstOf
  <2>6. R \subseteq Int
    BY <2>1, <2>4, <2>5
  <2>7. b \in R /\ b \in Nat
    <3>1. CASE n = 1
      BY <3>1 DEF Before
    <3>2. CASE n # 1
      <4>1. n - 1 \in 1..(N - 1) /\ n - 1 < n /\ n - 1 \in 1..N
        BY <1>1, <3>2
      <4>2. e[n - 1] \in Blanks(L) /\ e[n - 1] < e[n]
        BY <2>2, <2>3, <4>1 DEF FirstOf
      <4> QED BY <2>1, <3>2, <4>1, <4>2 DEF Before
    <3> QED BY <3>1, <3>2
  <2>8. ASSUME NEW j \in R PROVE b >= j
    <3>1. CASE j = 0
      BY <2>7, <3>1
    <3>2. CASE j # 0
      <4>1. PICK k \in 1..(N - 1) : j = e[k] /\ k < n
        BY <2>5, <3>2
      <4>2. n # 1 /\ n - 1 \in 1..N /\ k \in 1..N /\ (k = n - 1 \/ k < n - 1)
        BY <1>1, <4>1
      <4>3. k < n - 1 => e[k] < e[n - 1]
        BY <1>12, <4>2 DEF Growing
      <4>4. b = e[n - 1] /\ e[k] \in Nat /\ e[n - 1] \in Nat
        BY <2>1, <4>2 DEF Before
      <4> QED BY <4>1, <4>2, <4>3, <4>4
    <3> QED BY <3>1, <3>2
  <2> HIDE DEF R, b
  <2>9. Max(R) = b
    BY <2>6, <2>7, <2>8, MaxIs
  <2>10. WordUpTo(L, e[n]) = SubSeq(L, 1 + b, e[n] - 1)
    BY <2>9 DEF WordUpTo, R
  <2>11. /\ e[n] = b + Len(args[n]) + 1 /\ Len(args[n]) \in Nat
         /\ \A j \in 1..Len(args[n]) : L[b + j] = args[n][j]
    BY <1>2, <1>9 DEF Placed, b
  <2> DEFINE v == SubSeq(L, 1 + b, e[n] - 1)
  <2>12. 1 + b \in Int /\ e[n] - 1 \in Int /\ e[n] - 1 - (1 + b) + 1 = Len(args[n])
    BY <2>1, <2>7, <2>11
  <2>13. \A i \in (1 + b)..(e[n] - 1) : L[i] \in X
    <3> TAKE i \in (1 + b)..(e[n] - 1)
    <3>1. i - b \in 1..Len(args[n]) /\ b + (i - b) = i
      BY <2>7, <2>11, <2>12
    <3>2. args[n][i - b] \in X
      BY <1>2, <3>1
    <3> QED BY <2>11, <3>1, <3>2
  <2>14. /\ v \in Seq(X)
         /\ Len(v) = IF 1 + b <= e[n] - 1 THEN e[n] - 1 - (1 + b) + 1 ELSE 0
         /\ \A i \in 1..(e[n] - 1 - (1 + b) + 1) : v[i] = L[1 + b + i - 1]
    BY <2>12, <2>13, SubSeqProperties
  <2> HIDE DEF v
  <2>15. Len(v) = Len(args[n])
    BY <2>7, <2>11, <2>12, <2>14
  <2>16. \A i \in 1..Len(v) : v[i] = args[n][i]
    <3> TAKE i \in 1..Len(v)
    <3>1. 1 + b + i - 1 = b + i /\ i \in 1..Len(args[n]) /\ i \in 1..(e[n] - 1 - (1 + b) + 1)
      BY <2>7, <2>12, <2>15
    <3>2. v[i] = L[1 + b + i - 1] /\ L[b + i] = args[n][i]
      BY <2>11, <2>14, <3>1
    <3> QED BY <3>1, <3>2
  <2>17. v = args[n]
    BY <1>2, <2>14, <2>15, <2>16, SeqEqual
  <2> QED BY <2>10, <2>17 DEF v
<1>15. Cardinality(FirstOf(e, N)) = N
  BY <1>1, <1>12, Counted
<1>16. \A n \in 1..N : Nth(n, FirstOf(e, N)) = e[n]
  BY <1>1, <1>12, NthIs
<1>17. MkArgs(L) = [n \in 1..N |-> WordUpTo(L, Nth(n, FirstOf(e, N)))]
  BY <1>13, <1>15 DEF MkArgs, SplitAt
<1>18. MkArgs(L) = [n \in 1..N |-> args[n]]
  BY <1>14, <1>16, <1>17
<1>19. args = [n \in 1..N |-> args[n]]
  BY <1>1
<1> QED BY <1>10, <1>18, <1>19

----------------------------------------------------------------------------
\* What the words of the passes are made of.

Literal == {"ssh", "-i", "/.id_rsa", "@", "-", "tar", "-c", "-T", "-f", "xpf", "cat", "rm",
            "backupfs-chksrc", "backupfs-remote", "backupfs-exctar", "backupfs-mkdir",
            "backupfs-mklink", "dirs-", "links-", "tar-"}
Symbol == STRING \cup Literal \cup {Space}
Operand == {"dest", "bdir", "host", "src", "time", "tpath", "user"}

\* A word of one literal.
LEMMA OfLiteral ==
    ASSUME NEW s \in Literal
    PROVE  Lit(s) \in Word(Symbol) /\ Len(Lit(s)) = 1 /\ Lit(s)[1] = s
<1>1. s \in Symbol
  BY DEF Symbol
<1>2. s # Space
  BY SMT DEF Literal, Space
<1> QED BY <1>1, <1>2 DEF Lit, Word

\* Two words in one.
LEMMA OfTwo ==
    ASSUME NEW u \in Word(Symbol), NEW v \in Word(Symbol)
    PROVE  u \o v \in Word(Symbol)
<1> DEFINE w == u \o v
<1>1. /\ u \in Seq(Symbol) /\ \A k \in 1..Len(u) : u[k] # Space
      /\ v \in Seq(Symbol) /\ \A k \in 1..Len(v) : v[k] # Space
  BY DEF Word
<1>2. /\ w \in Seq(Symbol) /\ Len(w) = Len(u) + Len(v)
      /\ \A i \in 1..(Len(u) + Len(v)) : w[i] = IF i <= Len(u) THEN u[i] ELSE v[i - Len(u)]
  BY <1>1, ConcatProperties
<1>3. Len(u) \in Nat /\ Len(v) \in Nat
  BY <1>1
<1> HIDE DEF w
<1>4. ASSUME NEW k \in 1..Len(w) PROVE w[k] # Space
  <2>1. k <= Len(u) \/ k - Len(u) \in 1..Len(v)
    BY <1>2, <1>3
  <2>2. k \in 1..(Len(u) + Len(v)) /\ k \in Nat \ {0}
    BY <1>2, <1>3
  <2>3. CASE k <= Len(u)
    <3>1. k \in 1..Len(u) /\ w[k] = u[k]
      BY <1>2, <1>3, <2>2, <2>3
    <3> QED BY <1>1, <3>1
  <2>4. CASE ~(k <= Len(u))
    <3>1. k - Len(u) \in 1..Len(v) /\ w[k] = v[k - Len(u)]
      BY <1>2, <2>1, <2>2, <2>4
    <3> QED BY <1>1, <3>1
  <2> QED BY <2>3, <2>4
<1> QED BY <1>2, <1>4 DEF Word, w

\* The operands without a blank.
IsInfo(i) == i \in [dest : Seq(STRING), bdir : Seq(STRING), host : Seq(STRING),
                    src : Seq(STRING), time : Seq(STRING), tpath : Seq(STRING),
                    user : Seq(STRING)]
LEMMA Operands ==
    ASSUME NEW i, IsInfo(i), NoBlank(i)
    PROVE  /\ i.dest \in Word(Symbol) /\ i.bdir \in Word(Symbol) /\ i.host \in Word(Symbol)
           /\ i.src \in Word(Symbol) /\ i.time \in Word(Symbol) /\ i.tpath \in Word(Symbol)
           /\ i.user \in Word(Symbol)
<1>1. /\ DOMAIN i = Operand
      /\ i.dest = i["dest"] /\ i.bdir = i["bdir"] /\ i.host = i["host"] /\ i.src = i["src"]
      /\ i.time = i["time"] /\ i.tpath = i["tpath"] /\ i.user = i["user"]
  BY DEF IsInfo, Operand
<1>2. \A k \in Operand : i[k] \in Seq(STRING)
  BY DEF IsInfo, Operand
<1>3. ASSUME NEW k \in Operand PROVE i[k] \in Word(Symbol)
  <2>1. Space \notin ToSet(i[k])
    BY <1>1 DEF NoBlank
  <2>2. \A j \in 1..Len(i[k]) : i[k][j] \in STRING /\ i[k][j] # Space
    BY <1>2, <2>1 DEF ToSet
  <2>3. i[k] \in Seq(Symbol)
    BY <1>2, <2>2 DEF Symbol
  <2> QED BY <2>2, <2>3 DEF Word
<1> QED BY <1>1, <1>3 DEF Operand

\* The files' names, and the words of ssh.
LEMMA Composed ==
    ASSUME NEW i, IsInfo(i), NoBlank(i)
    PROVE  /\ \A k \in {"dirs-", "links-", "tar-"} : FileName(k, i.host, i.time) \in Word(Symbol)
           /\ Ssh(i) \in Seq(Word(Symbol)) /\ Len(Ssh(i)) = 4
<1>1. ASSUME NEW k \in {"dirs-", "links-", "tar-"}
      PROVE  FileName(k, i.host, i.time) \in Word(Symbol)
  <2>1. Lit(k) \in Word(Symbol) /\ Lit("-") \in Word(Symbol)
    BY OfLiteral, <1>1 DEF Literal
  <2>2. i.host \in Word(Symbol) /\ i.time \in Word(Symbol)
    BY Operands
  <2>3. Lit(k) \o i.host \in Word(Symbol)
    BY <2>1, <2>2, OfTwo
  <2>4. (Lit(k) \o i.host) \o Lit("-") \in Word(Symbol)
    BY <2>1, <2>3, OfTwo
  <2>5. ((Lit(k) \o i.host) \o Lit("-")) \o i.time \in Word(Symbol)
    BY <2>2, <2>4, OfTwo
  <2> QED BY <2>5, Zenon DEF FileName
<1>2. SshId(i) \in Word(Symbol)
  <2>1. Lit("/.id_rsa") \in Word(Symbol)
    BY OfLiteral DEF Literal
  <2>2. i.dest \in Word(Symbol)
    BY Operands
  <2> QED BY <2>1, <2>2, OfTwo DEF SshId
<1>3. (i.user \o Lit("@")) \o i.host \in Word(Symbol)
  <2>1. Lit("@") \in Word(Symbol)
    BY OfLiteral DEF Literal
  <2>2. i.user \in Word(Symbol) /\ i.host \in Word(Symbol)
    BY Operands
  <2>3. i.user \o Lit("@") \in Word(Symbol)
    BY <2>1, <2>2, OfTwo
  <2> QED BY <2>2, <2>3, OfTwo
<1>4. Lit("ssh") \in Word(Symbol) /\ Lit("-i") \in Word(Symbol)
  BY OfLiteral DEF Literal
<1> DEFINE last == (i.user \o Lit("@")) \o i.host
<1>5. Ssh(i) = <<Lit("ssh"), Lit("-i"), SshId(i), last>>
  BY DEF Ssh
<1> HIDE DEF last
<1>6. last \in Word(Symbol)
  BY <1>3 DEF last
<1> QED BY <1>1, <1>2, <1>4, <1>5, <1>6

\* The line that is asked for, without a blank in a word.
LEMMA AskedWords ==
    ASSUME NEW pass \in Pass \ {"TAR"}, NEW i, IsInfo(i), NoBlank(i)
    PROVE  Asked(pass, i) \in Seq(Word(Symbol)) /\ Asked(pass, i) # <<>>
<1> DEFINE D == FileName("dirs-", i.host, i.time)
           K == FileName("links-", i.host, i.time)
           T == FileName("tar-", i.host, i.time)
           W == Word(Symbol)
<1>1. /\ i.src \in W /\ i.bdir \in W /\ i.host \in W /\ i.time \in W
  BY Operands
<1>2. D \in W /\ K \in W /\ T \in W
  BY Composed
<1>3. /\ Lit("backupfs-chksrc") \in W /\ Lit("backupfs-remote") \in W
      /\ Lit("backupfs-exctar") \in W /\ Lit("cat") \in W /\ Lit("rm") \in W /\ Lit("-f") \in W
  BY OfLiteral DEF Literal
<1> SUFFICES Asked(pass, i) \in Seq(W) /\ Asked(pass, i) # <<>>
  OBVIOUS
<1> HIDE DEF D, K, T, W
<1>4. CASE pass = "PASS1"
  <2>1. Asked(pass, i) = <<Lit("backupfs-chksrc"), i.src>>
    BY <1>4 DEF Asked
  <2> QED BY <1>1, <1>3, <2>1
<1>5. CASE pass = "PASS2"
  <2>1. Asked(pass, i) = <<Lit("backupfs-remote"), i.src, i.bdir, i.host, i.time>>
    BY <1>5 DEF Asked
  <2> QED BY <1>1, <1>3, <2>1
<1>6. CASE pass = "PASS3"
  <2>1. Asked(pass, i) = <<Lit("cat"), D>>
    BY <1>6 DEF Asked, D
  <2> QED BY <1>2, <1>3, <2>1
<1>7. CASE pass = "PASS4"
  <2>1. Asked(pass, i) = <<Lit("cat"), K>>
    BY <1>7 DEF Asked, K
  <2> QED BY <1>2, <1>3, <2>1
<1>8. CASE pass = "PASS5"
  <2>1. Asked(pass, i) = <<Lit("backupfs-exctar"), i.host, i.time>>
    BY <1>8 DEF Asked
  <2> QED BY <1>1, <1>3, <2>1
<1>9. CASE pass = "PASS6"
  <2>1. Asked(pass, i) = <<Lit("rm"), Lit("-f"), D, K, T>>
    BY <1>9 DEF Asked, D, K, T
  <2> QED BY <1>2, <1>3, <2>1
<1> QED BY <1>4, <1>5, <1>6, <1>7, <1>8, <1>9 DEF Pass

\* The words of cmd1.
LEMMA Words1Words ==
    ASSUME NEW pass \in Pass, NEW i, IsInfo(i), NoBlank(i)
    PROVE  Words1(pass, i) \in Seq(Word(Symbol)) /\ Words1(pass, i) # <<>>
<1> DEFINE W == Word(Symbol)
<1>1. CASE pass = "TAR"
  <2>1. /\ Lit("tar") \in W /\ Lit("-c") \in W /\ Lit("-T") \in W /\ i.tpath \in W
        /\ Lit("-f") \in W /\ Lit("-") \in W
    BY OfLiteral, Operands DEF Literal
  <2>2. Words1(pass, i) = <<Lit("tar"), Lit("-c"), Lit("-T"), i.tpath, Lit("-f"), Lit("-")>>
    BY <1>1 DEF Words1
  <2> HIDE DEF W
  <2>3. Words1(pass, i) \in Seq(W) /\ Words1(pass, i) # <<>>
    BY <2>1, <2>2
  <2> QED BY <2>3 DEF W
<1>2. CASE pass # "TAR"
  <2>1. Words1(pass, i) = Ssh(i) \o Asked(pass, i)
    BY <1>2 DEF Words1
  <2>2. Asked(pass, i) \in Seq(W) /\ Ssh(i) \in Seq(W) /\ Len(Ssh(i)) = 4
    BY <1>2, AskedWords, Composed
  <2> HIDE DEF W
  <2> DEFINE a == Ssh(i)
             b == Asked(pass, i)
  <2> HIDE DEF a, b
  <2>3. a \in Seq(W) /\ b \in Seq(W) /\ Len(a) = 4 /\ Words1(pass, i) = a \o b
    BY <2>1, <2>2 DEF a, b
  <2>4. a \o b \in Seq(W) /\ Len(a \o b) = Len(a) + Len(b)
    BY <2>3, ConcatProperties
  <2>5. Words1(pass, i) \in Seq(W) /\ Len(Words1(pass, i)) = 4 + Len(Asked(pass, i))
    BY <2>3, <2>4 DEF b
  <2>6. Len(Words1(pass, i)) > 0
    BY <2>2, <2>5
  <2>7. Words1(pass, i) # <<>>
    BY <2>6
  <2> QED BY <2>5, <2>7 DEF W
<1> QED BY <1>1, <1>2

\* The words of cmd2, if there is one.
LEMMA Words2Words ==
    ASSUME NEW pass \in Pass, NEW i, IsInfo(i), NoBlank(i)
    PROVE  Words2(pass, i) \in Seq(Word(Symbol))
<1> DEFINE W == Word(Symbol)
<1>1. /\ Lit("backupfs-mkdir") \in W /\ Lit("backupfs-mklink") \in W /\ Lit("tar") \in W
      /\ Lit("xpf") \in W /\ Lit("-") \in W
  BY OfLiteral DEF Literal
<1>2. i.dest \in W /\ i.bdir \in W
  BY Operands
<1> SUFFICES Words2(pass, i) \in Seq(W)
  OBVIOUS
<1> HIDE DEF W
<1>3. \/ Words2(pass, i) = <<Lit("backupfs-mkdir")>>
      \/ Words2(pass, i) = <<Lit("backupfs-mklink"), i.dest, i.bdir>>
      \/ Words2(pass, i) = <<Lit("tar"), Lit("xpf"), Lit("-")>>
      \/ Words2(pass, i) = <<>>
  BY DEF Words2, Pass
<1>4. /\ <<Lit("backupfs-mkdir")>> \in Seq(W)
      /\ <<Lit("backupfs-mklink"), i.dest, i.bdir>> \in Seq(W)
      /\ <<Lit("tar"), Lit("xpf"), Lit("-")>> \in Seq(W)
      /\ <<>> \in Seq(W)
  BY <1>1, <1>2
<1> QED BY <1>3, <1>4

\* A line that has not lost anything.
LEMMA WholeLine1 ==
    ASSUME NEW pass \in Pass, NEW i, IsInfo(i), NoBlank(i), Len(i.user) <= 8
    PROVE  MkArgs(Line1(pass, i)) = Words1(pass, i)
<1> DEFINE line == Joined(Words1(pass, i))
           n == Len(i.user)
<1>1. Words1(pass, i) \in Seq(Word(Symbol)) /\ Words1(pass, i) # <<>>
  BY Words1Words
<1>2. Space \in Symbol
  BY DEF Symbol
<1>3. MkArgs(line) = Words1(pass, i)
  BY <1>1, <1>2, SplitsBack
<1>4. line \in Seq(Symbol)
  <2> DEFINE args == Words1(pass, i)
  <2>1. args \in Seq(Seq(Symbol))
    BY <1>1 DEF Word
  <2> HIDE DEF args
  <2>2. args # <<>>
    BY <1>1 DEF args
  <2>3. PICK upto \in [1..Len(args) -> Seq(Symbol)] : IsLine(args, upto)
    BY <1>2, <2>1, <2>2, JoinedIs
  <2>4. Len(args) \in 1..Len(args)
    BY <2>1, <2>2
  <2>5. Joined(args) \in Seq(Symbol)
    BY <2>3, <2>4 DEF IsLine
  <2> QED BY <2>5 DEF args
<1>5. n \in Nat
  <2>1. i.user \in Word(Symbol)
    BY Operands
  <2> QED BY <2>1 DEF Word
<1>6. Short(i.user) = 0
  <2> DEFINE S == {0, n - 8}
  <2>1. S \subseteq Int /\ 0 \in S /\ \A y \in S : 0 >= y
    BY <1>5
  <2> HIDE DEF S
  <2>2. Max(S) = 0
    BY <2>1, MaxIs
  <2> QED BY <2>2 DEF Short, S
<1> HIDE DEF line, n
<1>7. Len(line) \in Nat
  BY <1>4
<1>8. SubSeq(line, 1, Len(line) - 0) = line
  <2> DEFINE v == SubSeq(line, 1, Len(line))
  <2>1. \A k \in 1..Len(line) : line[k] \in Symbol
    BY <1>4
  <2>2. 1 \in Int /\ Len(line) \in Int /\ Len(line) - 1 + 1 = Len(line)
    BY <1>7
  <2>3. /\ v \in Seq(Symbol) /\ Len(v) = IF 1 <= Len(line) THEN Len(line) - 1 + 1 ELSE 0
        /\ \A k \in 1..(Len(line) - 1 + 1) : v[k] = line[1 + k - 1]
    BY <2>1, <2>2, SubSeqProperties
  <2> HIDE DEF v
  <2>4. Len(v) = Len(line) /\ \A k \in 1..Len(v) : v[k] = line[k]
    <3>1. Len(v) = Len(line)
      BY <1>7, <2>3
    <3>2. ASSUME NEW k \in 1..Len(v) PROVE v[k] = line[k]
      <4>1. 1 + k - 1 = k /\ k \in 1..(Len(line) - 1 + 1)
        BY <1>7, <3>1
      <4> QED BY <2>3, <4>1
    <3> QED BY <3>1, <3>2
  <2>5. v = line
    BY <1>4, <2>3, <2>4, SeqEqual
  <2>6. Len(line) - 0 = Len(line)
    BY <1>7
  <2> QED BY <2>5, <2>6 DEF v
<1>9. Line1(pass, i) = line
  BY <1>6, <1>8 DEF Line1, line
<1> QED BY <1>3, <1>9

\* What is joined begins as its first part does.
LEMMA SameHead ==
    ASSUME NEW u \in Seq(Symbol), NEW v \in Seq(Symbol), Len(u) > 0
    PROVE  u \o v \in Seq(Symbol) /\ Len(u \o v) > 0 /\ (u \o v)[1] = u[1]
<1> DEFINE w == u \o v
<1>1. /\ w \in Seq(Symbol) /\ Len(w) = Len(u) + Len(v)
      /\ \A n \in 1..(Len(u) + Len(v)) : w[n] = IF n <= Len(u) THEN u[n] ELSE v[n - Len(u)]
  BY ConcatProperties
<1>2. Len(u) \in Nat /\ Len(v) \in Nat
  OBVIOUS
<1> HIDE DEF w
<1>3. 1 \in 1..(Len(u) + Len(v)) /\ 1 <= Len(u)
  BY <1>2
<1>4. Len(w) > 0 /\ w[1] = u[1]
  BY <1>1, <1>2, <1>3
<1> QED BY <1>1, <1>4 DEF w

\* The name of a file begins with its kind.
LEMMA NameBegins ==
    ASSUME NEW i, IsInfo(i), NoBlank(i), NEW k \in {"dirs-", "links-", "tar-"}
    PROVE  Begins(FileName(k, i.host, i.time), k)
<1> DEFINE first == Lit(k)
           second == first \o i.host
           third == second \o Lit("-")
           name == third \o i.time
<1>1. first \in Seq(Symbol) /\ Len(first) > 0 /\ first[1] = k
  BY OfLiteral DEF Literal, Word
<1>2. i.host \in Seq(Symbol) /\ i.time \in Seq(Symbol) /\ Lit("-") \in Seq(Symbol)
  BY Operands, OfLiteral DEF Literal, Word
<1>3. name = FileName(k, i.host, i.time)
  BY Zenon DEF FileName
<1> HIDE DEF first
<1>4. second \in Seq(Symbol) /\ Len(second) > 0 /\ second[1] = k
  BY <1>1, <1>2, SameHead
<1> HIDE DEF second
<1>5. third \in Seq(Symbol) /\ Len(third) > 0 /\ third[1] = k
  BY <1>2, <1>4, SameHead
<1> HIDE DEF third
<1>6. name \in Seq(Symbol) /\ Len(name) > 0 /\ name[1] = k
  BY <1>2, <1>5, SameHead
<1> HIDE DEF name
<1>7. name # <<>> /\ Head(name) = k
  BY <1>6
<1> QED BY <1>3, <1>7 DEF Begins

\* The shell at the other end lets every pass in, and the files are those of the run.
LEMMA LetIn ==
    ASSUME NEW pass \in Pass \ {"TAR"}, NEW i, IsInfo(i), NoBlank(i)
    PROVE  /\ Allowed(Asked(pass, i))
           /\ FilesOf(Asked(pass, i)) \subseteq Names(i.host, i.time)
<1> DEFINE D == FileName("dirs-", i.host, i.time)
           K == FileName("links-", i.host, i.time)
           T == FileName("tar-", i.host, i.time)
           cmd == Asked(pass, i)
<1>1. Begins(D, "dirs-") /\ Begins(K, "links-") /\ Begins(T, "tar-")
  BY NameBegins
<1>2. Names(i.host, i.time) = {D, K, T}
  BY DEF Names
<1>3. /\ Lit("backupfs-chksrc") # Lit("cat") /\ Lit("backupfs-chksrc") # Lit("rm")
      /\ Lit("backupfs-chksrc") # Lit("backupfs-remote")
      /\ Lit("backupfs-chksrc") # Lit("backupfs-exctar")
      /\ Lit("backupfs-remote") # Lit("cat") /\ Lit("backupfs-remote") # Lit("rm")
      /\ Lit("backupfs-remote") # Lit("backupfs-exctar")
      /\ Lit("backupfs-exctar") # Lit("cat") /\ Lit("backupfs-exctar") # Lit("rm")
      /\ Lit("cat") # Lit("rm")
  BY SMT DEF Lit
<1> SUFFICES Allowed(cmd) /\ FilesOf(cmd) \subseteq Names(i.host, i.time)
  OBVIOUS
<1> HIDE DEF D, K, T
<1>4. CASE pass = "PASS1"
  <2>1. cmd = <<Lit("backupfs-chksrc"), i.src>>
    BY <1>4 DEF Asked
  <2> HIDE DEF cmd
  <2>2. cmd[1] = Lit("backupfs-chksrc")
    BY <2>1
  <2>3. Allowed(cmd)
    BY <1>3, <2>2 DEF Allowed
  <2>4. FilesOf(cmd) = {}
    BY <1>3, <2>2 DEF FilesOf
  <2> QED BY <2>3, <2>4
<1>5. CASE pass = "PASS2"
  <2>1. cmd = <<Lit("backupfs-remote"), i.src, i.bdir, i.host, i.time>>
    BY <1>5 DEF Asked
  <2> HIDE DEF cmd
  <2>2. cmd[1] = Lit("backupfs-remote") /\ cmd[4] = i.host /\ cmd[5] = i.time /\ Len(cmd) = 5
    BY <2>1
  <2>3. Allowed(cmd)
    BY <1>3, <2>2 DEF Allowed
  <2>4. FilesOf(cmd) = Names(i.host, i.time)
    BY <1>3, <2>2 DEF FilesOf
  <2> QED BY <2>3, <2>4
<1>6. CASE pass \in {"PASS3", "PASS4"}
  <2>1. cmd = <<Lit("cat"), D>> \/ cmd = <<Lit("cat"), K>>
    BY <1>6 DEF Asked, D, K
  <2> HIDE DEF cmd
  <2>2. cmd[1] = Lit("cat") /\ Len(cmd) = 2 /\ cmd[2] \in {D, K}
    BY <2>1
  <2>3. Allowed(cmd)
    BY <1>1, <1>3, <2>2 DEF Allowed
  <2>4. FilesOf(cmd) = {cmd[2]}
    BY <1>3, <2>2 DEF FilesOf
  <2> QED BY <1>2, <2>2, <2>3, <2>4
<1>7. CASE pass = "PASS5"
  <2>1. cmd = <<Lit("backupfs-exctar"), i.host, i.time>>
    BY <1>7 DEF Asked
  <2> HIDE DEF cmd
  <2>2. cmd[1] = Lit("backupfs-exctar") /\ cmd[2] = i.host /\ cmd[3] = i.time /\ Len(cmd) = 3
    BY <2>1
  <2>3. Allowed(cmd)
    BY <1>3, <2>2 DEF Allowed
  <2>4. FilesOf(cmd) = {T}
    BY <1>3, <2>2 DEF FilesOf, T
  <2> QED BY <1>2, <2>3, <2>4
<1>8. CASE pass = "PASS6"
  <2>1. cmd = <<Lit("rm"), Lit("-f"), D, K, T>>
    BY <1>8 DEF Asked, D, K, T
  <2> HIDE DEF cmd
  <2>2. /\ cmd[1] = Lit("rm") /\ Len(cmd) = 5 /\ cmd[3] = D
        /\ \A n \in 3..5 : cmd[n] \in {D, K, T}
    BY <2>1
  <2>3. Allowed(cmd)
    BY <1>1, <1>3, <2>2 DEF Allowed
  <2> DEFINE S == {D, K, T}
             r == SubSeq(cmd, 3, 5)
  <2>4. \A n \in 3..5 : cmd[n] \in S
    BY <2>2
  <2> HIDE DEF S
  <2>5. r \in Seq(S)
    BY <2>4, SubSeqProperties
  <2> HIDE DEF r
  <2>6. ToSet(r) \subseteq S
    BY <2>5 DEF ToSet
  <2>7. FilesOf(cmd) = ToSet(r)
    BY <1>3, <2>2 DEF FilesOf, r
  <2> QED BY <1>2, <2>3, <2>6, <2>7 DEF S
<1> QED BY <1>4, <1>5, <1>6, <1>7, <1>8 DEF Pass

\* What cmd1's program is started with: what was asked for, or the line of tar.
LEMMA WordsAre ==
    ASSUME NEW pass \in Pass, NEW i, IsInfo(i), NoBlank(i), Len(i.user) <= 8
    PROVE  /\ Words(pass, i) # <<>>
           /\ pass # "TAR" => Words(pass, i) = Asked(pass, i)
<1>1. MkArgs(Line1(pass, i)) = Words1(pass, i) /\ Words1(pass, i) # <<>>
  BY WholeLine1, Words1Words
<1>2. CASE pass = "TAR"
  BY <1>1, <1>2 DEF Words
<1>3. CASE pass # "TAR"
  <2> DEFINE W == Word(Symbol)
             a == Ssh(i)
             b == Asked(pass, i)
             argv == a \o b
             far == SubSeq(argv, 5, Len(argv))
  <2>1. MkArgs(Line1(pass, i)) = argv
    BY <1>1, <1>3 DEF Words1
  <2>2. a \in Seq(W) /\ Len(a) = 4 /\ b \in Seq(W) /\ b # <<>>
    BY <1>3, AskedWords, Composed
  <2> HIDE DEF a, b
  <2>3. Len(b) \in Nat /\ Len(b) > 0
    BY <2>2
  <2>4. /\ Len(argv) = Len(a) + Len(b)
        /\ \A n \in 1..(Len(a) + Len(b)) : argv[n] = IF n <= Len(a) THEN a[n] ELSE b[n - Len(a)]
    BY <2>2, ConcatProperties
  <2> HIDE DEF argv
  <2>5. Len(argv) > 4 /\ argv[4] = a[4]
    BY <2>2, <2>3, <2>4
  <2>6. \A n \in 1..Len(b) : argv[4 + n] = b[n] /\ b[n] \in W
    <3> TAKE n \in 1..Len(b)
    <3>1. 4 + n \in 1..(4 + Len(b)) /\ ~(4 + n <= 4) /\ 4 + n - 4 = n
      BY <2>3
    <3> QED BY <2>2, <2>4, <3>1
  <2>7. /\ far \in Seq(W)
        /\ Len(far) = IF 5 <= Len(argv) THEN Len(argv) - 5 + 1 ELSE 0
        /\ \A n \in 1..(Len(argv) - 5 + 1) : far[n] = argv[5 + n - 1]
    <3>1. 5 \in Int /\ Len(argv) \in Int
      BY <2>2, <2>3, <2>4
    <3>2. \A n \in 5..Len(argv) : argv[n] \in W
      <4> TAKE n \in 5..Len(argv)
      <4>1. n - 4 \in 1..Len(b) /\ 4 + (n - 4) = n
        BY <2>2, <2>3, <2>4
      <4> QED BY <2>6, <4>1
    <3> QED BY <3>1, <3>2, SubSeqProperties
  <2> HIDE DEF far, W
  <2>8. Len(far) = Len(b)
    BY <2>2, <2>3, <2>4, <2>7
  <2>9. \A n \in 1..Len(far) : far[n] = b[n]
    <3> TAKE n \in 1..Len(far)
    <3>1. n \in 1..Len(b) /\ 5 + n - 1 = 4 + n /\ n \in 1..(Len(argv) - 5 + 1)
      BY <2>2, <2>3, <2>4, <2>8
    <3> QED BY <2>6, <2>7, <3>1
  <2>10. far = b
    BY <2>2, <2>7, <2>8, <2>9, SeqEqual
  <2>11. MkArgs(Joined(b)) = b
    BY <2>2, SplitsBack DEF W, Symbol
  <2>12. FarArgs(argv) = b /\ Reached(argv, i)
    BY <2>5, <2>10, <2>11 DEF FarArgs, Reached, far, a
  <2>13. Allowed(b)
    BY <1>3, LetIn DEF b
  <2>14. Words(pass, i) = b
    BY <1>3, <2>1, <2>12, <2>13 DEF Words
  <2> QED BY <2>2, <2>14 DEF b
<1> QED BY <1>2, <1>3

\* What cmd2 is started with.
LEMMA HereWords ==
    ASSUME NEW pass \in Pass, NEW i, IsInfo(i), NoBlank(i), Words2(pass, i) # <<>>
    PROVE  MkArgs(Line2(pass, i)) = Words2(pass, i)
<1>1. Words2(pass, i) \in Seq(Word(Symbol)) /\ Space \in Symbol
  BY Words2Words DEF Symbol
<1>2. MkArgs(Joined(Words2(pass, i))) = Words2(pass, i)
  BY <1>1, SplitsBack
<1> QED BY <1>2 DEF Line2

\* What the commands are given is settled by the call's operands.
Given == /\ piped = (Words2(job.pass, job.info) # <<>>)
         /\ words = [c \in Cmd |-> IF c = Cmd1 THEN Words(job.pass, job.info)
                                   ELSE MkArgs(Line2(job.pass, job.info))]

\* No step changes it.
LEMMA KeepsGiven == Given /\ [Next]_vars => Given'
<1> SUFFICES ASSUME Given, [Next]_vars PROVE UNCHANGED <<job, piped, words>>
  BY DEF Given
<1>1. CASE SetsUp
  BY <1>1 DEF SetsUp, IgnoreSigs, IgnoreSigsFails, BlockChld, Pipe, PipeFails, unchangedData
<1>2. CASE ForksOff
  BY <1>2 DEF ForksOff, Fork0, Fork1, ForkSingle, FirstForkFails, SecondForkFails, unchangedData
<1>3. CASE Waits
  BY <1>3 DEF Waits, CloseEnds, Wait, WaitFails, WaitDone, WaitPid, unchangedData
<1>4. CASE Concludes
  BY <1>4 DEF Concludes, Restore, RestoreFails, unchangedData
<1>5. ASSUME NEW c \in Cmd, Prepares(c) PROVE UNCHANGED <<job, piped, words>>
  BY <1>5 DEF Prepares, ChildRestores, Plumb, Exec, Refused, ExecFails, unchangedData
<1>6. CASE Moves
  BY <1>6 DEF Moves, WriteChunk, ReadChunk
<1>7. ASSUME NEW c \in Cmd, Leaves(c) PROVE UNCHANGED <<job, piped, words>>
  BY <1>7 DEF Leaves, BrokenPipe, AllSent, EndOfFile, CommandFails, unchangedData
<1>8. CASE Disturbed
  BY <1>8 DEF Disturbed, StrayEnds, Interrupt, unchangedData
<1>9. CASE UNCHANGED vars
  BY <1>9 DEF vars
<1> QED
  BY <1>1, <1>2, <1>3, <1>4, <1>5, <1>6, <1>7, <1>8, <1>9, Groups

\* Whatever the operands are, as long as no blank is in one and the user's name is
\* no longer than "backupfs": what was meant gets through snprintf(), mkArgs(), ssh
\* and the shell at the other end, which lets it in, and names the files of the run.
THEOREM WordsGetThere == Spec => []FarAsMeant
<1>1. Init => Given
  BY DEF Init, Given
<1>2. IInv /\ Given => FarAsMeant
  <2> SUFFICES ASSUME IInv, Given, NoBlank(job.info), Len(job.info.user) <= 8
               PROVE  /\ pc[Cmd1] = "exec" => words[Cmd1] # <<>>
                      /\ pc[Cmd1] = "run" /\ job.pass # "TAR" =>
                             /\ words[Cmd1] = Asked(job.pass, job.info)
                             /\ FilesOf(words[Cmd1]) \subseteq Names(job.info.host, job.info.time)
                      /\ pc[Cmd2] = "run" => words[Cmd2] = Words2(job.pass, job.info)
    BY DEF FarAsMeant
  <2>1. job.pass \in Pass /\ IsInfo(job.info)
    BY PipeAssumption DEF IInv, TypeOK, IsInfo
  <2>2. /\ words[Cmd1] = Words(job.pass, job.info)
        /\ words[Cmd2] = MkArgs(Line2(job.pass, job.info))
    BY DEF Given, Cmd, Cmd1, Cmd2
  <2>3. /\ words[Cmd1] # <<>>
        /\ job.pass # "TAR" => words[Cmd1] = Asked(job.pass, job.info)
    BY <2>1, <2>2, WordsAre
  <2>4. job.pass # "TAR" =>
            FilesOf(Asked(job.pass, job.info)) \subseteq Names(job.info.host, job.info.time)
    BY <2>1, LetIn
  <2>5. pc[Cmd2] = "run" => Words2(job.pass, job.info) # <<>>
    BY DEF IInv, PipeInv, Forked, Given
  <2>6. pc[Cmd2] = "run" => words[Cmd2] = Words2(job.pass, job.info)
    BY <2>1, <2>2, <2>5, HereWords
  <2> QED
    BY <2>3, <2>4, <2>6
<1> QED
  BY Throughout, <1>1, KeepsGiven, <1>2, PTL DEF Spec
=============================================================================
