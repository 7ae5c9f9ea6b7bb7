----------------------------- MODULE MCExecPipe -----------------------------
(***************************************************************************)
(* Every pass with operands as they should be; the two that name the       *)
(* source with a blank in it; the check of the source with a user name of  *)
(* nine characters, one more than "backupfs" has, or with a blank.         *)
(***************************************************************************)
EXTENDS ExecPipe

Plain == [dest |-> <<"/dest">>, bdir |-> <<"/dest", "/day">>, host |-> <<"host">>,
          src |-> <<"/s", "r", "c">>, time |-> <<"time">>, tpath |-> <<"/tmp/tar">>,
          user |-> <<"b", "a", "c", "k", "u", "p", "f", "s">>]
WithBlank == [Plain EXCEPT !.src = <<"/s", Space, "c">>]
LongUser == [Plain EXCEPT !.user = Append(@, "2")]
BlankUser == [Plain EXCEPT !.user = <<"b", Space, "u", "p">>]

MCJobs == [pass : Pass, info : {Plain}]
          \cup [pass : {"PASS1", "PASS2"}, info : {WithBlank}]
          \cup [pass : {"PASS1"}, info : {LongUser, BlankUser}]
=============================================================================
