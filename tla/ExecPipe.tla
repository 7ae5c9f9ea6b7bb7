------------------------------ MODULE ExecPipe ------------------------------
(***************************************************************************)
(* execCommands() and execPipe() of file.c: the program ignores SIGINT and *)
(* SIGQUIT, blocks SIGCHLD, forks one child for a command or two for       *)
(* `cmd1 | cmd2', waits for them and reads their exit statuses.  It is how *)
(* tar copies the files (runCommands) and how every remote pass runs.      *)
(*                                                                         *)
(* The kernel's part (descriptors, pipe, wait) and the commands' own       *)
(* behaviour are as the code uses them.  A command moves its output in     *)
(* chunks and may fail, or be interrupted, at any point.                   *)
(***************************************************************************)
EXTENDS Commands

CONSTANTS Jobs,         \* the calls: a pass, and the operands of its commands
          Chunks,       \* chunks cmd1 writes
          Cap,          \* chunks a pipe holds
          Inherited,    \* what SIGCHLD may be when the program is started: a set of
                        \* "default" and "ignore"
          Faults,       \* system calls that may fail, a subset of FaultKind
          MaxSignals    \* bound: times the user presses ^C

FaultKind == {"sigaction", "pipe", "fork", "exec", "command"}

ASSUME PipeAssumption ==
    /\ \A j \in Jobs : /\ j.pass \in Pass
                       /\ j.info \in [dest : Seq(STRING), bdir : Seq(STRING), host : Seq(STRING),
                                      src : Seq(STRING), time : Seq(STRING),
                                      tpath : Seq(STRING), user : Seq(STRING)]
    /\ Chunks \in Nat
    /\ Cap \in Nat \ {0}
    /\ Inherited \subseteq {"default", "ignore"} /\ Inherited # {}
    /\ Faults \subseteq FaultKind
    /\ MaxSignals \in Nat

Parent == "parent"
Cmd1 == "cmd1"          \* writes to the pipe; pid[1]
Cmd2 == "cmd2"          \* reads from it; pid[0]
Stray == "stray"        \* a child the program had before, exec'd over its shell
Cmd == {Cmd1, Cmd2}
Child == Cmd \cup {Stray}
Proc == {Parent} \cup Cmd

Fd == 0..4              \* 2 is stderr; a pipe gets the two lowest free ones
End == {"r", "w"}

VARIABLES
    job,      \* the arguments of execCommands()
    piped,    \* cmd2 # NULL
    sigchld,  \* what SIGCHLD was when the program was started
    pc,       \* pc[p]: where each process is
    words,    \* words[c]: what the program that does the work of c gets as its words,
              \* <<>> if ssh or backupfs-shell stops the command; fixed by job
    fds,      \* fds[p][n]: what descriptor n of p is
    fd,       \* the two numbers pipe() returned: fd.r is fd[0], fd.w is fd[1]
    action,   \* action[p]: of SIGINT and SIGQUIT
    masked,   \* masked[p]: SIGCHLD is blocked
    inPipe,   \* chunks in the pipe
    sent,     \* chunks cmd1 has written
    got,      \* chunks cmd2 has read
    code,     \* code[c]: how child c ended, "none" before
    st,       \* pipeExitSt: st[c] is "none" before didCmdExit
    result,   \* of chkPipeExitSt() or chkCmdExitSt()
    odd,      \* "shouldn't happen": wait() did not return one of the two pids
    signals   \* ^C pressed so far

vars == <<job, piped, sigchld, pc, words, fds, fd, action, masked, inPipe, sent, got, code, st,
          result, odd, signals>>

Ending == {"zero", "nonzero", "signal"}
JustStderr == [n \in Fd |-> IF n = 2 THEN "std" ELSE "closed"]

Init ==
    /\ job \in Jobs
    /\ piped = (Words2(job.pass, job.info) # <<>>)
    /\ sigchld \in Inherited
    /\ pc = [p \in Proc \cup {Stray} |-> IF p = Parent THEN "ignore" ELSE "unborn"]
    /\ words = [c \in Cmd |-> IF c = Cmd1 THEN Words(job.pass, job.info)
                              ELSE MkArgs(Line2(job.pass, job.info))]
    /\ \E strayed \in BOOLEAN : \E std \in SUBSET {0, 1} :
         /\ fds = [p \in Proc |-> IF p = Parent
                                  THEN [n \in Fd |-> IF n \in std THEN "std" ELSE JustStderr[n]]
                                  ELSE JustStderr]
         /\ code = [c \in Child |-> IF c = Stray /\ strayed THEN "alive" ELSE "none"]
    /\ fd = [r |-> 0, w |-> 0]
    /\ action = [p \in Proc |-> "default"]
    /\ masked = [p \in Proc |-> FALSE]
    /\ inPipe = 0 /\ sent = 0 /\ got = 0
    /\ st = [c \in Cmd |-> "none"]
    /\ result = "none" /\ odd = FALSE
    /\ signals = 0

----------------------------------------------------------------------------
\* Processes and the pipe.

Goto(p, l) == pc' = [pc EXCEPT ![p] = l]
Born(c) == pc[c] \notin {"unborn", "zombie", "reaped"}
Holders(e) == {p \in Proc : Born(p) /\ \E n \in Fd : fds[p][n] = e}
NoFds == [n \in Fd |-> "closed"]
Closed(f, n) == [f EXCEPT ![n] = "closed"]

\* A dead child waits to be reaped, unless SIGCHLD is ignored.
Corpse == IF sigchld = "ignore" THEN "reaped" ELSE "zombie"
Dies(c, how) == /\ Goto(c, Corpse)
                /\ code' = [code EXCEPT ![c] = how]
                /\ fds' = [fds EXCEPT ![c] = NoFds]

\* The parent leaves by exit(); its children are init's from now on.
Exits == /\ Goto(Parent, "dead")
         /\ fds' = [fds EXCEPT ![Parent] = NoFds]

unchangedData == UNCHANGED <<job, sigchld, words, inPipe, sent, got, odd, signals>>

----------------------------------------------------------------------------
\* The parent, up to its two forks.

\* ignoreSigIntQuit()
IgnoreSigs == /\ pc[Parent] = "ignore"
              /\ action' = [action EXCEPT ![Parent] = "ignore"]
              /\ Goto(Parent, "mask")
              /\ UNCHANGED <<piped, fds, fd, masked, code, st, result>> /\ unchangedData

\* It fails, and the empty status reads as an abnormal exit.
IgnoreSigsFails == /\ pc[Parent] = "ignore"
                   /\ "sigaction" \in Faults
                   /\ result' = "failed"
                   /\ Goto(Parent, "done")
                   /\ UNCHANGED <<piped, fds, fd, action, masked, code, st>> /\ unchangedData

\* sigprocmask(SIG_BLOCK, {SIGCHLD}); nothing takes it off again.
BlockChld == /\ pc[Parent] = "mask"
             /\ masked' = [masked EXCEPT ![Parent] = TRUE]
             /\ Goto(Parent, IF piped THEN "pipe" ELSE "fork")
             /\ UNCHANGED <<piped, fds, fd, action, code, st, result>> /\ unchangedData

\* pipe() takes the lowest free descriptors, 0 or 1 too if they are closed.
Pipe == /\ pc[Parent] = "pipe"
        /\ \E r, w \in Fd :
             /\ r < w
             /\ {n \in 0..w : fds[Parent][n] = "closed"} = {r, w}
             /\ fd' = [r |-> r, w |-> w]
             /\ fds' = [fds EXCEPT ![Parent][r] = "r", ![Parent][w] = "w"]
        /\ Goto(Parent, "fork0")
        /\ UNCHANGED <<piped, action, masked, code, st, result>> /\ unchangedData

PipeFails == /\ pc[Parent] = "pipe"
             /\ "pipe" \in Faults
             /\ Exits
             /\ UNCHANGED <<piped, fd, action, masked, code, st, result>> /\ unchangedData

Forks(c, next) == /\ pc' = [pc EXCEPT ![Parent] = next, ![c] = "restore"]
                  /\ fds' = [fds EXCEPT ![c] = fds[Parent]]
                  /\ action' = [action EXCEPT ![c] = action[Parent]]
                  /\ masked' = [masked EXCEPT ![c] = masked[Parent]]
                  /\ code' = [code EXCEPT ![c] = "alive"]

Fork0 == /\ pc[Parent] = "fork0"
         /\ Forks(Cmd2, "fork1")
         /\ UNCHANGED <<piped, fd, st, result>> /\ unchangedData

Fork1 == /\ pc[Parent] = "fork1"
         /\ Forks(Cmd1, "close")
         /\ UNCHANGED <<piped, fd, st, result>> /\ unchangedData

\* execCommands() without a second command.
ForkSingle == /\ pc[Parent] = "fork"
              /\ Forks(Cmd1, "waitpid")
              /\ UNCHANGED <<piped, fd, st, result>> /\ unchangedData

FirstForkFails == /\ pc[Parent] \in {"fork", "fork0"}
                  /\ "fork" \in Faults
                  /\ Exits
                  /\ UNCHANGED <<piped, fd, action, masked, code, st, result>> /\ unchangedData

\* The first child is killed, and exit(1) without waiting for it.
SecondForkFails == /\ pc[Parent] = "fork1"
                   /\ "fork" \in Faults
                   /\ pc' = [pc EXCEPT ![Parent] = "dead",
                                       ![Cmd2] = IF Born(Cmd2) THEN "zombie" ELSE @]
                   /\ code' = [code EXCEPT ![Cmd2] = IF Born(Cmd2) THEN "signal" ELSE @]
                   /\ fds' = [p \in Proc |-> NoFds]
                   /\ UNCHANGED <<piped, fd, action, masked, st, result>> /\ unchangedData

----------------------------------------------------------------------------
\* A child, up to exec.

ChildRestoresNothing(c) ==       \* mutant: the command goes on ignoring ^C
    /\ pc[c] = "restore"
    /\ Goto(c, IF piped THEN "plumb" ELSE "exec")
    /\ UNCHANGED <<piped, fds, fd, action, masked, code, st, result>> /\ unchangedData

\* restoreSigIntQuit()
ChildRestores(c) == /\ pc[c] = "restore"
                    /\ action' = [action EXCEPT ![c] = "default"]
                    /\ Goto(c, IF piped THEN "plumb" ELSE "exec")
                    /\ UNCHANGED <<piped, fds, fd, masked, code, st, result>> /\ unchangedData

PlumbedBlindly(c, mine, other, std) ==       \* mutant: dup2() and close() without a look at mine
    Closed([Closed(fds[c], other) EXCEPT ![std] = fds[c][mine]], mine)

\* Close the other end, dup2() this one to stdin or stdout, close the original.
Plumbed(c, mine, other, std) ==
    LET without == Closed(fds[c], other)
    IN  IF mine = std THEN without
        ELSE Closed([without EXCEPT ![std] = without[mine]], mine)

Plumb(c) == /\ pc[c] = "plumb"
            /\ fds' = [fds EXCEPT ![c] = IF c = Cmd2 THEN Plumbed(c, fd.r, fd.w, 0)
                                         ELSE Plumbed(c, fd.w, fd.r, 1)]
            /\ Goto(c, "exec")
            /\ UNCHANGED <<piped, fd, action, masked, code, st, result>> /\ unchangedData

Exec(c) == /\ pc[c] = "exec"
           /\ words[c] # <<>>
           /\ Goto(c, "run")
           /\ UNCHANGED <<piped, fds, fd, action, masked, code, st, result>> /\ unchangedData

\* ssh or backupfs-shell does not let the command in.
Refused(c) == /\ pc[c] = "exec"
              /\ words[c] = <<>>
              /\ Dies(c, "nonzero")
              /\ UNCHANGED <<piped, fd, action, masked, st, result>> /\ unchangedData

\* _exit(127)
ExecFails(c) == /\ pc[c] = "exec"
                /\ "exec" \in Faults
                /\ Dies(c, "nonzero")
                /\ UNCHANGED <<piped, fd, action, masked, st, result>> /\ unchangedData

----------------------------------------------------------------------------
\* The commands.

WriteChunk == /\ pc[Cmd1] = "run" /\ piped
              /\ sent < Chunks
              /\ fds[Cmd1][1] = "w"
              /\ Holders("r") # {}
              /\ inPipe < Cap
              /\ inPipe' = inPipe + 1
              /\ sent' = sent + 1
              /\ UNCHANGED <<piped, pc, fds, fd, action, masked, got, code, st, result,
                             job, sigchld, words, odd, signals>>

\* SIGPIPE
BrokenPipe == /\ pc[Cmd1] = "run" /\ piped
              /\ sent < Chunks
              /\ Holders("r") = {}
              /\ Dies(Cmd1, "signal")
              /\ UNCHANGED <<piped, fd, action, masked, st, result>> /\ unchangedData

AllSent == /\ pc[Cmd1] = "run"
           /\ piped => sent = Chunks
           /\ Dies(Cmd1, "zero")
           /\ UNCHANGED <<piped, fd, action, masked, st, result>> /\ unchangedData

ReadChunk == /\ pc[Cmd2] = "run"
             /\ fds[Cmd2][0] = "r"
             /\ inPipe > 0
             /\ inPipe' = inPipe - 1
             /\ got' = got + 1
             /\ UNCHANGED <<piped, pc, fds, fd, action, masked, sent, code, st, result,
                            job, sigchld, words, odd, signals>>

\* End of file: nobody holds the write end.  What was cut short may go unseen.
EndOfFile == /\ pc[Cmd2] = "run"
             /\ inPipe = 0
             /\ Holders("w") = {}
             /\ Dies(Cmd2, "zero")
             /\ UNCHANGED <<piped, fd, action, masked, st, result>> /\ unchangedData

CommandFails(c) == /\ pc[c] = "run"
                   /\ "command" \in Faults
                   /\ Dies(c, "nonzero")
                   /\ UNCHANGED <<piped, fd, action, masked, st, result>> /\ unchangedData

StrayEnds == /\ code[Stray] = "alive"
             /\ code' = [code EXCEPT ![Stray] = "zero"]
             /\ Goto(Stray, Corpse)
             /\ UNCHANGED <<piped, fds, fd, action, masked, st, result>> /\ unchangedData

\* ^C goes to the parent and its children; it kills those that do not ignore it.
Interrupt == /\ signals < MaxSignals
             /\ pc[Parent] \notin {"ignore", "done", "dead"}
             /\ signals' = signals + 1
             /\ LET killed == {c \in Cmd : Born(c) /\ action[c] = "default"}
                IN  /\ pc' = [p \in DOMAIN pc |-> IF p \in killed THEN Corpse ELSE pc[p]]
                    /\ code' = [c \in Child |-> IF c \in killed THEN "signal" ELSE code[c]]
                    /\ fds' = [p \in Proc |-> IF p \in killed THEN NoFds ELSE fds[p]]
             /\ UNCHANGED <<piped, fd, action, masked, inPipe, sent, got, st, result,
                            job, sigchld, words, odd>>

----------------------------------------------------------------------------
\* The parent waits.

CloseReadEnd ==       \* mutant: the parent keeps the write end
    /\ pc[Parent] = "close"
    /\ fds' = [fds EXCEPT ![Parent] = Closed(@, fd.r)]
    /\ Goto(Parent, "wait")
    /\ UNCHANGED <<piped, fd, action, masked, code, st, result>> /\ unchangedData

CloseEnds == /\ pc[Parent] = "close"
             /\ fds' = [fds EXCEPT ![Parent] = Closed(Closed(@, fd.r), fd.w)]
             /\ Goto(Parent, "wait")
             /\ UNCHANGED <<piped, fd, action, masked, code, st, result>> /\ unchangedData

OneExited == \E c \in Cmd : st[c] # "none"       \* mutant
BothExited == \A c \in Cmd : st[c] # "none"

WaitGuessing ==       \* mutant: a child that is not cmd2 is taken for cmd1
    /\ pc[Parent] = "wait"
    /\ ~BothExited
    /\ \E c \in Child :
         /\ pc[c] = "zombie"
         /\ Goto(c, "reaped")
         /\ st' = [st EXCEPT ![IF c = Cmd2 THEN Cmd2 ELSE Cmd1] = code[c]]
    /\ UNCHANGED <<job, piped, sigchld, words, fds, fd, action, masked, inPipe, sent, got, code, result,
                   odd, signals>>

\* wait() returns a dead child, of the two or not; cmdExited() and
\* setCmdExitType() take no notice of another.
Wait == /\ pc[Parent] = "wait"
        /\ ~BothExited
        /\ \E c \in Child :
             /\ pc[c] = "zombie"
             /\ Goto(c, "reaped")
             /\ st' = IF c \in Cmd THEN [st EXCEPT ![c] = code[c]] ELSE st
             /\ odd' = (odd \/ c = Stray)
        /\ UNCHANGED <<job, piped, sigchld, words, fds, fd, action, masked, inPipe, sent, got, code, result,
                       signals>>

\* ECHILD: wait() has no child to wait for.  The inner loop is left, the outer is
\* not.
WaitFails == /\ pc[Parent] = "wait"
             /\ ~BothExited
             /\ \A c \in Child : pc[c] \in {"unborn", "reaped"} /\ code[c] # "alive"
             /\ odd' = TRUE
             /\ Goto(Parent, "wait")
             /\ UNCHANGED <<job, piped, sigchld, words, fds, fd, action, masked, inPipe, sent, got, code, st,
                            result, signals>>

WaitDone == /\ pc[Parent] = "wait"
            /\ BothExited
            /\ Goto(Parent, "restore")
            /\ UNCHANGED <<piped, fds, fd, action, masked, code, st, result>> /\ unchangedData

\* waitpid() on the single child; its error is an abnormal exit.
WaitPid == /\ pc[Parent] = "waitpid"
           /\ \/ /\ pc[Cmd1] = "zombie"
                 /\ pc' = [pc EXCEPT ![Cmd1] = "reaped", ![Parent] = "restore"]
                 /\ st' = [st EXCEPT ![Cmd1] = code[Cmd1]]
              \/ /\ pc[Cmd1] = "reaped"
                 /\ Goto(Parent, "restore")
                 /\ st' = [st EXCEPT ![Cmd1] = "signal"]
           /\ UNCHANGED <<piped, fds, fd, action, masked, code, result>> /\ unchangedData

\* restoreSigIntQuit() in the parent, then chkPipeExitSt() or chkCmdExitSt().
Passed == st[Cmd1] = "zero" /\ (piped => st[Cmd2] = "zero")
RawStatus == st[Cmd1]       \* mutant: the status of the command is returned as it is
Verdict == IF Passed THEN "passed" ELSE "failed"

Restore == /\ pc[Parent] = "restore"
           /\ action' = [action EXCEPT ![Parent] = "default"]
           /\ result' = Verdict
           /\ Goto(Parent, "done")
           /\ UNCHANGED <<piped, fds, fd, masked, code, st>> /\ unchangedData

\* It fails: the status of the first command becomes -1.
RestoreFails == /\ pc[Parent] = "restore"
                /\ "sigaction" \in Faults
                /\ result' = "failed"
                /\ Goto(Parent, "done")
                /\ UNCHANGED <<piped, fds, fd, action, masked, code, st>> /\ unchangedData

----------------------------------------------------------------------------

ParentStep == \/ IgnoreSigs \/ IgnoreSigsFails \/ BlockChld \/ Pipe \/ PipeFails
              \/ Fork0 \/ Fork1 \/ ForkSingle \/ FirstForkFails \/ SecondForkFails
              \/ CloseEnds \/ Wait \/ WaitFails \/ WaitDone \/ WaitPid
              \/ Restore \/ RestoreFails

SetupStep(c) == ChildRestores(c) \/ Plumb(c) \/ Exec(c) \/ Refused(c) \/ ExecFails(c)

Cmd1Step == SetupStep(Cmd1) \/ WriteChunk \/ BrokenPipe \/ AllSent
Cmd2Step == SetupStep(Cmd2) \/ ReadChunk \/ EndOfFile

Next == \/ ParentStep \/ Cmd1Step \/ Cmd2Step
        \/ \E c \in Cmd : CommandFails(c)
        \/ StrayEnds \/ Interrupt

\* Every process gets to run; ^C, the failure of a command that has nothing to do
\* but wait, and the end of the stray child may never come.
Spec == Init /\ [][Next]_vars /\ WF_vars(ParentStep) /\ WF_vars(Cmd1Step) /\ WF_vars(Cmd2Step)

----------------------------------------------------------------------------
\* Properties.

\* Every variable has its type.
TypeOK ==
    /\ job \in Jobs
    /\ piped \in BOOLEAN
    /\ sigchld \in Inherited
    /\ pc \in [Proc \cup {Stray} ->
                {"ignore", "mask", "pipe", "fork", "fork0", "fork1", "close", "wait", "waitpid",
                 "restore", "done", "dead", "unborn", "plumb", "exec", "run", "zombie",
                 "reaped"}]
    /\ fds \in [Proc -> [Fd -> {"closed", "std"} \cup End]]
    /\ fd \in [r : Fd, w : Fd]
    /\ action \in [Proc -> {"default", "ignore"}]
    /\ masked \in [Proc -> BOOLEAN]
    /\ inPipe \in 0..Cap
    /\ sent \in 0..Chunks
    /\ got \in 0..Chunks
    /\ code \in [Child -> Ending \cup {"none", "alive"}]
    /\ st \in [Cmd -> Ending \cup {"none"}]
    /\ result \in {"none", "passed", "failed"}
    /\ odd \in BOOLEAN
    /\ signals \in 0..MaxSignals

\* `cmd1 | cmd2' passes only if everything cmd1 had to write was read by cmd2 and
\* neither was killed or failed: no exit status is taken for another's, and no
\* end of the pipe is lost, whatever order the children end in.
PassedMeansAllRead ==
    result = "passed" /\ piped => got = Chunks /\ code[Cmd1] = "zero" /\ code[Cmd2] = "zero"

\* What runs as cmd1 has the write end as its stdout and no read end, and what
\* runs as cmd2 the read end as its stdin and no write end, also when the program
\* was started with stdin or stdout closed and pipe() returned 0 or 1.
EndsInPlace ==
    piped => /\ pc[Cmd1] = "run" => /\ fds[Cmd1][1] = "w"
                                    /\ \A n \in Fd \ {1} : fds[Cmd1][n] \notin End
             /\ pc[Cmd2] = "run" => /\ fds[Cmd2][0] = "r"
                                    /\ \A n \in Fd \ {0} : fds[Cmd2][n] \notin End

\* When the calls are over, or the program exits in the middle of them, neither
\* command is left running.
NoChildLeft == pc[Parent] \in {"done", "dead"} => \A c \in Cmd : ~Born(c)

\* ^C reaches a command that runs; it reaches the program again once the commands
\* are over, unless sigaction() failed, which is an abnormal exit.
InterruptWorks ==
    /\ \A c \in Cmd : pc[c] = "run" => action[c] = "default"
    /\ result = "passed" => action[Parent] = "default"

\* With no blank in an operand and a user name that fits, the program on the other
\* host gets the words that were meant, the shell there lets it in, the files it
\* reads or removes are among those backupfs-remote opened for the same run, and
\* the command here gets its words: through the format and its buffer, mkArgs(),
\* ssh and the split of the shell.
NoBlank(i) == \A k \in DOMAIN i : Space \notin ToSet(i[k])
FarAsMeant ==
    NoBlank(job.info) /\ Len(job.info.user) <= 8 =>
        /\ pc[Cmd1] = "exec" => words[Cmd1] # <<>>
        /\ pc[Cmd1] = "run" /\ job.pass # "TAR" =>
               /\ words[Cmd1] = Asked(job.pass, job.info)
               /\ FilesOf(words[Cmd1]) \subseteq Names(job.info.host, job.info.time)
        /\ pc[Cmd2] = "run" => words[Cmd2] = Words2(job.pass, job.info)

\* backupfs-local.c:89: chkRemoteSrc() checks "whether the backup source directory
\* on remote host exists or not": this directory, and no other.
SourceChecked ==
    pc[Cmd1] = "run" /\ job.pass = "PASS1" /\ NoBlank(job.info) =>
        words[Cmd1] = Asked("PASS1", job.info)

\* The calls come to an end, unless the program was started with SIGCHLD ignored:
\* then the statuses are gone when wait() asks for them, and it asks for ever.
CallEnds == sigchld = "default" => <>(pc[Parent] \in {"done", "dead"})
=============================================================================
