------------------------------ MODULE Commands ------------------------------
(***************************************************************************)
(* The command lines of the passes, from the formats of backupfs.h to the  *)
(* program at the other end: runCommands(), chkRemoteSrc() and doRemote()  *)
(* print them, mkArgs() splits them at blanks, ssh joins what follows the  *)
(* host with blanks again, backupfs-shell splits that again and looks it   *)
(* up in its list, and backupfs-remote and backupfs-exctar make the names  *)
(* of the files in the home directory from the host and the time.          *)
(*                                                                         *)
(* A word is a sequence of symbols, one for each literal part, and one for *)
(* each character where lengths matter.  All lines are shorter than cmdlen *)
(* and have fewer than MAXARGS words.                                      *)
(***************************************************************************)
EXTENDS Integers, Sequences, FiniteSets, FiniteSetsExt, SequencesExt

Space == "blank"
Lit(s) == <<s>>

\* RMT_DIR_FILE, RMT_LNK_FILE and RMT_TAR_FILE.
FileName(kind, host, time) == Lit(kind) \o host \o Lit("-") \o time
Names(host, time) == {FileName(k, host, time) : k \in {"dirs-", "links-", "tar-"}}

Pass == {"TAR", "PASS1", "PASS2", "PASS3", "PASS4", "PASS5", "PASS6"}

SshId(i) == i.dest \o Lit("/.id_rsa")
Ssh(i) == <<Lit("ssh"), Lit("-i"), SshId(i), i.user \o Lit("@") \o i.host>>

\* What the other host is to do in a pass, word by word.
Asked(pass, i) ==
    CASE pass = "PASS1" -> <<Lit("backupfs-chksrc"), i.src>>
      [] pass = "PASS2" -> <<Lit("backupfs-remote"), i.src, i.bdir, i.host, i.time>>
      [] pass = "PASS3" -> <<Lit("cat"), FileName("dirs-", i.host, i.time)>>
      [] pass = "PASS4" -> <<Lit("cat"), FileName("links-", i.host, i.time)>>
      [] pass = "PASS5" -> <<Lit("backupfs-exctar"), i.host, i.time>>
      [] pass = "PASS6" -> <<Lit("rm"), Lit("-f"), FileName("dirs-", i.host, i.time),
                             FileName("links-", i.host, i.time),
                             FileName("tar-", i.host, i.time)>>

Words1(pass, i) ==
    IF pass = "TAR"
    THEN <<Lit("tar"), Lit("-c"), Lit("-T"), i.tpath, Lit("-f"), Lit("-")>>
    ELSE Ssh(i) \o Asked(pass, i)

\* cmd2, which runs here; PASS2 and PASS6 have none.
Words2(pass, i) ==
    CASE pass \in {"PASS1", "PASS3"} -> <<Lit("backupfs-mkdir")>>
      [] pass = "PASS4" -> <<Lit("backupfs-mklink"), i.dest, i.bdir>>
      [] pass \in {"TAR", "PASS5"} -> <<Lit("tar"), Lit("xpf"), Lit("-")>>
      [] OTHER -> <<>>

Joined(words) ==
    LET upto[n \in DOMAIN words] ==
            IF n = 1 THEN words[1] ELSE upto[n - 1] \o <<Space>> \o words[n]
    IN  upto[Len(words)]

\* chkRemoteSrc() counts the format, the key, the host and the source, not the
\* user; the four "%s" of the format make up for eight characters of its name.
Short(user) == Max({0, Len(user) - 8})
Line1(pass, i) ==
    LET line == Joined(Words1(pass, i)) IN
    IF pass = "PASS1" THEN SubSeq(line, 1, Len(line) - Short(i.user)) ELSE line
Line2(pass, i) == IF Words2(pass, i) = <<>> THEN <<>> ELSE Joined(Words2(pass, i))

\* mkArgs(), and the loop of backupfs-shell: every blank ends a word.
Blanks(line) == {k \in DOMAIN line : line[k] = Space}
WordUpTo(line, k) == SubSeq(line, 1 + Max({j \in Blanks(line) : j < k} \cup {0}), k - 1)
Nth(n, ends) == CHOOSE k \in ends : Cardinality({j \in ends : j <= k}) = n
SplitAt(line, ends) == [n \in 1..Cardinality(ends) |-> WordUpTo(line, Nth(n, ends))]
MkArgs(line) == SplitAt(line, Blanks(line) \cup {Len(line) + 1})

\* ssh goes to the word after its key, if that is the host, and hands the rest of
\* its words, joined, to the login shell there.
Reached(argv, i) == Len(argv) > 4 /\ argv[4] = Ssh(i)[4]
FarArgs(argv) == MkArgs(Joined(SubSeq(argv, 5, Len(argv))))

Begins(word, literal) == word # <<>> /\ Head(word) = literal

\* The list of backupfs-shell.
RmAsCat(cmd) ==       \* mutant: rm, too, is to have its file as the first word
    /\ cmd[1] \in {Lit("backupfs-chksrc"), Lit("backupfs-remote"), Lit("backupfs-exctar"),
                   Lit("cat"), Lit("rm")}
    /\ cmd[1] \in {Lit("cat"), Lit("rm")} => Len(cmd) > 1 /\ Begins(cmd[2], "dirs-")
Allowed(cmd) ==
    /\ cmd[1] \in {Lit("backupfs-chksrc"), Lit("backupfs-remote"), Lit("backupfs-exctar"),
                   Lit("cat"), Lit("rm")}
    /\ cmd[1] = Lit("cat") =>
           Len(cmd) > 1 /\ \E k \in {"dirs-", "links-", "tar-"} : Begins(cmd[2], k)
    /\ cmd[1] = Lit("rm") => Len(cmd) > 2 /\ Begins(cmd[3], "dirs-")

\* The words cmd1's program is started with, on the host where it runs; <<>> if it
\* is not.
Words(pass, i) ==
    LET argv == MkArgs(Line1(pass, i)) IN
    IF pass = "TAR" THEN argv
    ELSE IF Reached(argv, i) /\ Allowed(FarArgs(argv)) THEN FarArgs(argv) ELSE <<>>

\* The files a program opens or removes in its home directory on the other host:
\* openFilesRemote() in backupfs-remote, the list backupfs-exctar has tar read.
FilesOf(cmd) ==
    CASE cmd[1] = Lit("backupfs-remote") /\ Len(cmd) > 4 -> Names(cmd[4], cmd[5])
      [] cmd[1] = Lit("backupfs-exctar") /\ Len(cmd) > 2 -> {FileName("tar-", cmd[2], cmd[3])}
      [] cmd[1] = Lit("cat") -> {cmd[2]}
      [] cmd[1] = Lit("rm") -> ToSet(SubSeq(cmd, 3, Len(cmd)))
      [] OTHER -> {}
=============================================================================
