---------------------------- MODULE RemoteBackup ----------------------------
(***************************************************************************)
(* One source directory on a client dumped by `backupfs host:src dest' on  *)
(* the server: chkDest() and doRemote() of backupfs-local.c, and what      *)
(* their passes run over ssh: main-remote.c, backupfs-remote.c (with the   *)
(* shared backupfs.c, dirwalk.c, file.c), backupfs-mkdir.c,                *)
(* backupfs-mklink.c and backupfs-exctar.c.                                *)
(*                                                                         *)
(*   PASS1  backupfs-chksrc | backupfs-mkdir    dest/yyyy/mm/dd/src        *)
(*   PASS2  backupfs-remote     walks the source, writes the journal and   *)
(*                              the files dirs-, links- and tar-           *)
(*   PASS3  cat dirs- | backupfs-mkdir                                     *)
(*   PASS4  cat links- | backupfs-mklink                                   *)
(*   PASS5  backupfs-exctar | tar xpf -                                    *)
(*   PASS6  rm                                                             *)
(*                                                                         *)
(* The journal is the client's and is final when PASS2 ends; the dumps are *)
(* the server's and are made after that.  Days, stamps and versions are as *)
(* in LocalBackup.  One run at a time: a client that goes on alone after   *)
(* its ssh session is cut is not modelled beside a new run.                *)
(***************************************************************************)
EXTENDS Integers, FiniteSets

CONSTANTS Files, Dirs,   \* files and directories below the source
          Root,          \* the source directory
          Journal,       \* src/.backupfs-journal
          Parent,        \* the directory of each file and directory
          MaxTime,       \* bound: last second of the client's clock
          Lead,          \* seconds the server's clock is ahead of the client's
          DayOf,         \* localtime(): the day of each second
          MaxVer,        \* bound: versions of a file, removals counted
          Faults,        \* what may go wrong, a subset of FaultKind
          MaxFaults,     \* bound: faults in a behaviour
          SameDayRuns    \* no run lasts past midnight

Time == 1..MaxTime
Day == {DayOf[t] : t \in 1..(MaxTime + Lead)}
Paths == Files \cup {Journal}
Nodes == Files \cup Dirs
Folder == Dirs \cup {Root}

FaultKind == {"dest",    \* a call of chkDest() or PASS1 fails
              "empty",   \* isDirEmpty() cannot open the directory
              "open",    \* a file of openFilesRemote() or the journal cannot be opened
              "move",    \* moveFile() cannot link or copy
              "unlink",  \* moveFile() cannot stat or unlink a journal in its way
              "read",    \* the old journal cannot be read to its end
              "dir",     \* opendir() or chdir() fails on the client
              "lstat",   \* lstat() of an entry fails
              "write",   \* fwrite() fails on the client
              "close",   \* fclose() fails on the client: buffered lines are lost
              "reply",   \* PASS2 is over, but ssh reports a failure
              "mkdir",   \* mkdir() fails on the server
              "link",    \* link() fails on the server
              "pass",    \* PASS3 or PASS4 ends early with a failure
              "tar",     \* PASS5 does not copy a file, or ends early
              "torn",    \* PASS5 ends with a part of a file written on the server
              "crash"}   \* killed, or errSysExit() on the client

ASSUME TreeAssumption ==
    /\ Root \notin Nodes /\ Journal \notin Folder \cup Files
    /\ Files \cap Dirs = {}
    /\ Parent \in [Nodes -> Folder]

\* The directories are a tree: they are all reached from the source.
ASSUME ReachAssumption ==
    \A S \in SUBSET Folder :
        Root \in S /\ (\A d \in Dirs : Parent[d] \in S => d \in S) => S = Folder

ASSUME ClockAssumption ==
    /\ MaxTime \in Nat \ {0} /\ Lead \in Nat
    /\ DayOf \in [1..(MaxTime + Lead) -> Nat \ {0}]
    /\ \A s, t \in DOMAIN DayOf : s <= t => DayOf[s] <= DayOf[t]

ASSUME BoundAssumption ==
    /\ MaxVer \in Nat \ {0} /\ MaxFaults \in Nat
    /\ Faults \subseteq FaultKind
    /\ SameDayRuns \in BOOLEAN

VARIABLES
    now,      \* the client's clock
    src,      \* src[f]: version, stamp and presence of a source file
    jnl,      \* the journal on the client
    dump,     \* dump[d][f]: content of f in the dump of day d, 0: no entry
    made,     \* made[d]: directories in it, and Journal when it is copied
    pc,       \* the pass that runs and where it is; "idle" when no run is on
    bdir,     \* info.bdir on the server: the day dumped, 0 when idle
    old,      \* the journal set aside in the client's /tmp
    last,     \* first line of links-: when the last run was, 0: a first backup
    todo,     \* entries the open directories have yet to return
    dirs,     \* paths in dirs-
    links,    \* paths in links-
    list,     \* paths in tar-
    born,     \* when the new journal was created
    rst,      \* result of PASS5
    failed,   \* the pass that failed, if any
    nfaults,  \* history: faults so far
    during,   \* history: versions of f held since the run started, 0: absent
    before,   \* history: the journal when the run started
    silent    \* history: a call failed, by a fault, which was logged and no more

world == <<now, src>>
store == <<dump, made>>
files == <<dirs, links, list>>
proc == <<bdir, old, last, todo, files, born, rst>>
ghost == <<during, before, silent>>
vars == <<world, jnl, store, pc, proc, failed, nfaults, ghost>>

NoLines == [p \in Paths |-> 0]
NoJournal == [there |-> FALSE, line |-> NoLines]
EmptyJournal == [there |-> TRUE, line |-> NoLines]

\* What a journal may be after its writer lost part of its buffer.
Remains(j) ==
    {[j EXCEPT !.line = [p \in Paths |-> IF p \in kept THEN j.line[p] ELSE 0]] :
        kept \in SUBSET {p \in Paths : j.line[p] # 0}}

Held(f) == IF src[f].there THEN src[f].ver ELSE 0
Torn == -1                  \* part of an old version, part of a new one
Cut == -2                   \* part of the version whose stamp the journal has
EntriesAndDot(d) == {e \in Nodes : Parent[e] = d} \cup {d}      \* mutant: "." is not passed over
Entries(d) == {e \in Nodes : Parent[e] = d} \cup (IF d = Root THEN {Journal} ELSE {})

Init ==
    /\ now = 1
    /\ src = [f \in Files |-> [ver |-> 1, at |-> 1, there |-> TRUE]]
    /\ jnl = NoJournal
    /\ dump = [d \in Day |-> [f \in Files |-> 0]]
    /\ made = [d \in Day |-> {}]
    /\ pc = "idle" /\ bdir = 0 /\ old = NoJournal /\ last = 0
    /\ todo = {} /\ dirs = {} /\ links = {} /\ list = {} /\ born = 0
    /\ rst = TRUE /\ failed = "none"
    /\ nfaults = 0
    /\ during = [f \in Files |-> {}] /\ before = NoJournal /\ silent = FALSE

Tick == /\ now < MaxTime
        /\ SameDayRuns /\ bdir # 0 => DayOf[now + 1 + Lead] = bdir
        /\ now' = now + 1
        /\ UNCHANGED <<src, jnl, store, pc, proc, failed, nfaults, ghost>>

\* f is written, removed or created, at most once a second.
Changed(f, here) ==
    /\ src[f].ver < MaxVer /\ src[f].at < now
    /\ here \/ src[f].there
    /\ src' = [src EXCEPT ![f] = [ver |-> @.ver + 1, at |-> now, there |-> here]]
    /\ during' = IF bdir = 0 THEN during
                 ELSE [during EXCEPT ![f] = @ \cup {IF here THEN src[f].ver + 1 ELSE 0}]

Edit(f) == /\ \E here \in BOOLEAN : Changed(f, here)
           /\ UNCHANGED <<now, jnl, store, pc, proc, failed, nfaults, before, silent>>

----------------------------------------------------------------------------
\* Faults and ways out.

Fault(kind) == /\ kind \in Faults
               /\ nfaults < MaxFaults
               /\ nfaults' = nfaults + 1
               /\ UNCHANGED silent

\* The fault is logged and the pass goes on.
Logged(kind) == /\ kind \in Faults
                /\ nfaults < MaxFaults
                /\ nfaults' = nfaults + 1
                /\ silent' = TRUE

Well == UNCHANGED <<nfaults, silent>>

Goto(l) == pc' = l /\ UNCHANGED failed

\* The run is over after the pass named, by `goto removeFiles' or the end of doRemote().
Ends(pass) == pc' = "exit" /\ failed' = pass

LeavesJournal == Ends("remote")       \* mutant: exit(1) at once
\* backupfsExit() on the client: give the old journal back, then exit(1).
GivesUp == Goto("restore")

----------------------------------------------------------------------------
\* chkDest(), with PASS1 in it.

Today == DayOf[now + Lead]

\* isDirEmpty() of dest/yyyy/mm/dd/src.
EmptyUnread(d) == TRUE       \* mutant: not looked into, "regarded as empty"
EmptyDir(d) == made[d] \subseteq {Root} /\ \A f \in Files : dump[d][f] = 0

Start == /\ pc = "idle"
         /\ bdir' = Today
         /\ during' = [f \in Files |-> {Held(f)}]
         /\ before' = jnl
         /\ UNCHANGED <<world, jnl, dump, old, last, todo, files, born, rst>>

MakesRoot == made' = [made EXCEPT ![Today] = @ \cup {Root}]

ChkDest == /\ Start
           /\ MakesRoot
           /\ IF EmptyDir(Today) THEN Well ELSE Logged("empty")
           /\ Goto("source")

\* "directory not empty"
Refuse == /\ Start
          /\ ~EmptyDir(Today)
          /\ MakesRoot
          /\ Ends("dest")
          /\ Well

ChkDestFails == /\ Start
                /\ MakesRoot \/ UNCHANGED made
                /\ Ends("dest")
                /\ Fault("dest")

----------------------------------------------------------------------------
\* PASS2: openFilesRemote(), chkSource(), openJournalFile().

OpenFilesFails == /\ pc = "source"
                  /\ Ends("remote")
                  /\ Fault("open")
                  /\ UNCHANGED <<world, jnl, store, proc, during, before>>

NoJournalYet == /\ pc = "source"
                /\ ~jnl.there
                /\ Goto("open")
                /\ Well
                /\ UNCHANGED <<world, jnl, store, proc, during, before>>

\* moveFile() and makeJournalTree().  The client's lastBkupDirFromTime() writes
\* the time of the last run to links- and always answers 1.
TakeJournal == /\ pc = "source"
               /\ jnl.there
               /\ jnl' = NoJournal
               /\ \/ old' = jnl /\ Well
                  \/ old' \in Remains(jnl) /\ Logged("move")      \* copyFile() cut short
               /\ last' = old'.line[Journal]
               /\ Goto("open")
               /\ UNCHANGED <<world, store, bdir, todo, files, born, rst, during, before>>

MoveAsideFails == /\ pc = "source"
                  /\ jnl.there
                  /\ Ends("remote")
                  /\ Fault("move") \/ Fault("unlink")
                  /\ UNCHANGED <<world, jnl, store, proc, during, before>>

LoadFails == /\ pc = "source"
             /\ jnl.there
             /\ old' = jnl
             /\ jnl' = NoJournal
             /\ GivesUp
             /\ Fault("read")
             /\ UNCHANGED <<world, store, bdir, last, todo, files, born, rst, during, before>>

OpenJournal == /\ pc = "open"
               /\ jnl' = EmptyJournal
               /\ born' = now
               /\ \/ todo' = Entries(Root) /\ Well
                  \/ todo' = {} /\ Logged("dir")      \* the source cannot be opened
               /\ Goto("walk")
               /\ UNCHANGED <<world, store, bdir, old, last, files, rst, during, before>>

OpenJournalFails == /\ pc = "open"
                    /\ GivesUp
                    /\ Fault("open")
                    /\ UNCHANGED <<world, jnl, store, proc, during, before>>

----------------------------------------------------------------------------
\* PASS2: the walk.

\* lstat() of p gives the stamp its journal line gets; the journal is being
\* written and its stamp is some second of this run.
Stamps(p) == IF p = Journal THEN born..now
             ELSE IF src[p].there THEN {src[p].at} ELSE {}

Known(p, at) == last # 0 /\ old.line[p] # 0       \* mutant: any stamp will do
Unchanged(p, at) == last # 0 /\ old.line[p] = at

\* recurrentBackup() or firstTimeBackup() on p: a path for PASS4 or for PASS5,
\* and a line of the journal.  Nothing else reads p in between.
Record(p) == /\ pc = "walk"
             /\ p \in todo
             /\ \E at \in Stamps(p) :
                  /\ jnl' = [jnl EXCEPT !.line[p] = at]
                  /\ IF Unchanged(p, at)
                     THEN links' = links \cup {p} /\ UNCHANGED list
                     ELSE list' = list \cup {p} /\ UNCHANGED links
             /\ todo' = todo \ {p}
             /\ Goto("walk")
             /\ Well
             /\ UNCHANGED <<world, store, bdir, old, last, dirs, born, rst, during, before>>

\* The directory did not return the file, or lstat() fails on it.
LstatFails(p) == /\ pc = "walk"
                 /\ p \in todo
                 /\ \/ p \in Files /\ ~src[p].there /\ Well
                    \/ Logged("lstat")
                 /\ todo' = todo \ {p}
                 /\ Goto("walk")
                 /\ UNCHANGED <<world, jnl, store, bdir, old, last, files, born, rst,
                                during, before>>

\* newDirectory() on the client writes the directory to dirs-; the recursive
\* call may find it cannot be read.
EnterDir(d) == /\ pc = "walk"
               /\ d \in todo
               /\ dirs' = dirs \cup {d}
               /\ \/ todo' = (todo \ {d}) \cup Entries(d) /\ Well
                  \/ todo' = todo \ {d} /\ Logged("dir")
               /\ Goto("walk")
               /\ UNCHANGED <<world, jnl, store, bdir, old, last, links, list, born, rst,
                              during, before>>

\* chdir() back from d fails: what its parent had yet to return is skipped.
ParentLost(d) == /\ pc = "walk"
                 /\ d \in dirs
                 /\ Entries(d) \cap todo = {}
                 /\ todo' = todo \ Entries(Parent[d])
                 /\ Goto("walk")
                 /\ Logged("dir")
                 /\ UNCHANGED <<world, jnl, store, bdir, old, last, files, born, rst,
                                during, before>>

WriteFails == /\ pc = "walk"
              /\ todo # {}
              /\ GivesUp
              /\ Fault("write")
              /\ UNCHANGED <<world, jnl, store, proc, during, before>>

\* closeFiles() and unlink() of the old journal: from here on the new journal
\* stands for a dump that has nothing yet.
ClosesWell == UNCHANGED <<jnl, files>>
ClosesShort == /\ jnl' \in Remains(jnl)
               /\ dirs' \in SUBSET dirs /\ links' \in SUBSET links /\ list' \in SUBSET list

CloseFiles == /\ pc = "walk"
              /\ todo = {}
              /\ old' = IF last # 0 THEN NoJournal ELSE old
              /\ \/ ClosesWell /\ Goto("mkdir") /\ Well
                 \/ ClosesShort /\ Goto("mkdir") /\ Logged("close")
                 \/ ClosesWell /\ Ends("reply") /\ Fault("reply")
              /\ UNCHANGED <<world, store, bdir, last, todo, born, rst, during, before>>

\* moveFile(oldJpath, jpath), and exit(1): PASS2 has failed.
Restore == /\ pc = "restore"
           /\ jnl' = old
           /\ Ends("remote")
           /\ Well
           /\ UNCHANGED <<world, store, proc, during, before>>

\* The old journal is not linked, or copied in part; or stat(to) or unlink(to) fails and
\* moveFile() returns: the lines that were written of the new one stay.
RestoreFails == /\ pc = "restore"
                /\ \/ jnl' \in {NoJournal} \cup Remains(old) /\ Logged("move")
                   \/ jnl' \in Remains(jnl) /\ Logged("unlink")
                /\ Ends("remote")
                /\ UNCHANGED <<world, store, proc, during, before>>

----------------------------------------------------------------------------
\* PASS3 and PASS4: backupfs-mkdir and backupfs-mklink on the server.

\* A line of dirs-, parents first.  What mkdir() says is only logged.
MakeDir(d) == /\ pc = "mkdir"
              /\ d \in dirs /\ Parent[d] \notin dirs
              /\ dirs' = dirs \ {d}
              /\ \/ /\ made' = IF Parent[d] \in made[bdir]
                               THEN [made EXCEPT ![bdir] = @ \cup {d}] ELSE made
                    /\ Well
                 \/ UNCHANGED made /\ Logged("mkdir")
              /\ Goto("mkdir")
              /\ UNCHANGED <<world, jnl, dump, bdir, old, last, todo, links, list, born, rst,
                             during, before>>

DirsMade == /\ pc = "mkdir"
            /\ dirs = {}
            /\ Goto("mklink")
            /\ Well
            /\ UNCHANGED <<world, jnl, store, proc, during, before>>

\* The day the last backup is supposed to be of, by the first line of links-.
LastDay == DayOf[last]

\* link() finds its source, a directory to put it in, and nothing there.
Linkable(f) == /\ dump[LastDay][f] # 0
               /\ dump[bdir][f] = 0
               /\ Parent[f] \in made[bdir]

\* What link() says is only logged, too.
Link(p) == /\ pc = "mklink"
           /\ p \in links
           /\ links' = links \ {p}
           /\ \/ /\ dump' = IF p \in Files /\ Linkable(p)
                            THEN [dump EXCEPT ![bdir][p] = dump[LastDay][p]] ELSE dump
                 /\ Well
              \/ UNCHANGED dump /\ Logged("link")
           /\ Goto("mklink")
           /\ UNCHANGED <<world, jnl, made, bdir, old, last, todo, dirs, list, born, rst,
                          during, before>>

LinksMade == /\ pc = "mklink"
             /\ links = {}
             /\ Goto("tar")
             /\ Well
             /\ UNCHANGED <<world, jnl, store, proc, during, before>>

\* A command of PASS3 or PASS4 fails or is killed: the passes after it are left out.
PassFails == /\ pc \in {"mkdir", "mklink"}
             /\ Ends(pc)
             /\ Fault("pass")
             /\ UNCHANGED <<world, jnl, store, proc, during, before>>

----------------------------------------------------------------------------
\* PASS5: tar on the client, tar on the server, and a status nobody reads.

\* tar makes the directory it needs.  A name of the journal is kept in made.
TarCopy(p) == /\ pc = "tar"
              /\ p \in list
              /\ p \in Files => src[p].there
              /\ list' = list \ {p}
              /\ made' = [made EXCEPT ![bdir] = @ \cup {IF p = Journal THEN p ELSE Parent[p]}]
              /\ dump' = IF p \in Files THEN [dump EXCEPT ![bdir][p] = src[p].ver] ELSE dump
              /\ Goto("tar")
              /\ Well
              /\ UNCHANGED <<world, jnl, bdir, old, last, todo, dirs, links, born, rst,
                             during, before>>

\* The file is gone.
TarMisses(f) == /\ pc = "tar"
                /\ f \in list
                /\ ~src[f].there
                /\ list' = list \ {f}
                /\ rst' = FALSE
                /\ Goto("tar")
                /\ Well
                /\ UNCHANGED <<world, jnl, store, bdir, old, last, todo, dirs, links, born,
                               during, before>>

\* "file changed as we read it": part old, part new.
TarRaced(f) == /\ pc = "tar"
               /\ f \in list
               /\ src[f].there
               /\ Changed(f, TRUE)
               /\ list' = list \ {f}
               /\ made' = [made EXCEPT ![bdir] = @ \cup {Parent[f]}]
               /\ dump' = [dump EXCEPT ![bdir][f] = Torn]
               /\ rst' = FALSE
               /\ Goto("tar")
               /\ Well
               /\ UNCHANGED <<now, jnl, bdir, old, last, todo, dirs, links, born, before>>

\* What tar was writing on the server when it was killed, cut off or out of space.
CutShort(f) == /\ made' = [made EXCEPT ![bdir] = @ \cup {Parent[f]}]
               /\ dump' = [dump EXCEPT ![bdir][f] = Cut]

\* Some files do not come over, and one of them may do so in part.
TarFails == /\ pc = "tar"
            /\ list # {}
            /\ list' \in SUBSET list /\ list' # list
            /\ rst' = FALSE
            /\ Goto("tar")
            /\ \/ UNCHANGED store /\ Fault("tar")
               \/ (\E f \in (list \ list') \cap Files : CutShort(f)) /\ Fault("torn")
            /\ UNCHANGED <<world, jnl, bdir, old, last, todo, dirs, links, born, during, before>>

\* The result is logged; PASS6 removes the three files; `return 0'.
Finish == /\ pc = "tar"
          /\ list = {}
          /\ Ends(IF rst THEN "none" ELSE "tar")
          /\ Well
          /\ UNCHANGED <<world, jnl, store, proc, during, before>>

----------------------------------------------------------------------------

\* backupfs-remote or the server's program is killed; what is in memory is lost, and
\* tar leaves a file half written.
Die == /\ pc \notin {"idle", "exit"}
       /\ jnl' \in IF pc = "walk" THEN Remains(jnl)
                   ELSE IF pc = "restore" THEN {jnl, NoJournal} \cup Remains(old) ELSE {jnl}
       /\ \/ UNCHANGED store
          \/ pc = "tar" /\ "torn" \in Faults /\ \E f \in list \cap Files : CutShort(f)
       /\ Ends("killed")
       /\ Fault("crash")
       /\ UNCHANGED <<world, proc, during, before>>

Gone == /\ pc = "exit"
        /\ pc' = "idle" /\ failed' = "none"
        /\ bdir' = 0 /\ old' = NoJournal /\ last' = 0
        /\ todo' = {} /\ dirs' = {} /\ links' = {} /\ list' = {} /\ born' = 0 /\ rst' = TRUE
        /\ during' = [f \in Files |-> {}] /\ before' = NoJournal /\ silent' = FALSE
        /\ UNCHANGED <<world, jnl, store, nfaults>>

Pass1 == ChkDest \/ Refuse \/ ChkDestFails

Pass2 == \/ OpenFilesFails \/ NoJournalYet \/ TakeJournal \/ MoveAsideFails \/ LoadFails
         \/ OpenJournal \/ OpenJournalFails
         \/ \E p \in Paths : Record(p) \/ LstatFails(p)
         \/ \E d \in Dirs : EnterDir(d) \/ ParentLost(d)
         \/ WriteFails \/ CloseFiles \/ Restore \/ RestoreFails

Pass3To5 == \/ \E d \in Dirs : MakeDir(d)
            \/ \E p \in Paths : Link(p) \/ TarCopy(p)
            \/ \E f \in Files : TarMisses(f) \/ TarRaced(f)
            \/ DirsMade \/ LinksMade \/ PassFails \/ TarFails \/ Finish

Next == Tick \/ (\E f \in Files : Edit(f)) \/ Pass1 \/ Pass2 \/ Pass3To5 \/ Die \/ Gone

Spec == Init /\ [][Next]_vars

----------------------------------------------------------------------------
\* Properties.

Stamp == 0..MaxTime
Content == Cut..MaxVer
Source == [Files -> [ver : 1..MaxVer, at : Time, there : BOOLEAN]]
JournalType == [there : BOOLEAN, line : [Paths -> Stamp]]
Dumps == [Day -> [Files -> Content]]
Trees == [Day -> SUBSET (Folder \cup {Journal})]
Versions == [Files -> SUBSET (0..MaxVer)]
Label == {"idle", "source", "open", "walk", "restore", "mkdir", "mklink", "tar", "exit"}
Pass == {"none", "dest", "remote", "reply", "mkdir", "mklink", "tar", "killed"}

\* Every variable has its type.
TypeOK ==
    /\ now \in Time /\ src \in Source
    /\ jnl \in JournalType /\ dump \in Dumps /\ made \in Trees
    /\ pc \in Label
    /\ bdir \in Day \cup {0}
    /\ pc = "idle" <=> bdir = 0
    /\ old \in JournalType
    /\ last \in Stamp
    /\ todo \subseteq Paths \cup Dirs
    /\ dirs \subseteq Dirs /\ links \subseteq Paths /\ list \subseteq Paths
    /\ links # {} => last # 0 /\ pc \notin {"idle", "source", "open"}
    /\ born \in Stamp
    /\ rst \in BOOLEAN
    /\ failed \in Pass
    /\ nfaults \in 0..MaxFaults
    /\ during \in Versions
    /\ before \in JournalType
    /\ silent \in BOOLEAN

Vouches(j, f) == src[f].there /\ j.line[f] = src[f].at

\* The client's journal never vouches for a stale copy on the server: if a stamp in
\* it is still the stamp of the file, the dump of the day the journal is dated has
\* that content, whatever pass failed, or has nothing; or it has the part of that
\* version where a PASS5 was cut short, the one thing the journal cannot tell.
JournalSound ==
    \A j \in {jnl, old} : j.line[Journal] # 0 =>
        \A f \in Files :
            Vouches(j, f) => dump[DayOf[j.line[Journal]]][f] \in {0, Cut, src[f].ver}

\* The day whose dump is being made; a run that chkDest() ends makes none.
Opened == IF failed = "dest" THEN 0 ELSE bdir

\* No entry of a dump is older than its run: what is linked on the server is a
\* version the client held while the run was on, or what a tar left a part of.
NoStaleEntry == Opened # 0 => \A f \in Files : dump[bdir][f] \in {0, Torn, Cut} \cup during[f]

\* A run whose passes all passed, and in which no call failed by a fault, has dumped
\* every file that was there while it ran.  (That a link cannot be made, because there
\* is no copy to link, is no fault, though backupfs-mklink says so in the log.)
SnapshotComplete ==
    pc = "exit" /\ failed = "none" /\ ~silent =>
        \A f \in Files : 0 \notin during[f] => dump[bdir][f] \in during[f]

\* A run that gives up before its journal is final leaves the journal it found.
JournalPreserved ==
    pc = "exit" /\ failed \in {"dest", "remote"} /\ ~silent => jnl = before

\* The dumps on the server behave as DumpFs says: written once, by the run of
\* their day, with what the client held during that run; a part is a part to them.
Entered(c) == IF c = Cut THEN Torn ELSE c
Fs == INSTANCE DumpFs WITH held <- [f \in Files |-> Held(f)],
                           dumps <- [d \in Day |-> [f \in Files |-> Entered(dump[d][f])]],
                           open <- Opened,
                           during <- [f \in Files |-> IF Opened = 0 THEN {} ELSE during[f]]
WriteOnceDumps == Fs!FsSpec

----------------------------------------------------------------------------
\* Why JournalSound, NoStaleEntry and WriteOnceDumps hold: the invariant behind
\* them, for clocks that agree and an isDirEmpty() that can open the directory.

Careful == Lead = 0 /\ "empty" \notin Faults

Writing == pc \in {"walk", "mkdir", "mklink", "tar"}     \* jnl is the new journal

\* No line is ahead of the file it is about, and no stamp of the clock.
LinesPast == \A f \in Files : /\ src[f].at <= now
                              /\ \A j \in {jnl, old} : j.line[f] <= src[f].at

\* The run's own stamps are of its day or, past midnight, later.
RunStamps ==
    /\ bdir # 0 => bdir <= DayOf[now]
    /\ pc = "walk" => born # 0 /\ bdir <= DayOf[born]
    /\ Writing /\ jnl.line[Journal] # 0 => bdir <= DayOf[jnl.line[Journal]]

\* Days to come have no dump, and the run's has none before PASS4.
FutureEmpty ==
    /\ \A d \in Day : d > DayOf[now] \/ (bdir # 0 /\ d > bdir) => \A f \in Files : dump[d][f] = 0
    /\ pc \notin {"idle", "mklink", "tar", "exit"} => \A f \in Files : dump[bdir][f] = 0

\* Where the journal of the last run is, and what it says of when that was.
LastJournal ==
    /\ pc \in {"idle", "source"} => old = NoJournal /\ last = 0
    /\ pc \in {"open", "walk"} => last = old.line[Journal]
    /\ Writing /\ pc # "walk" => old.line[Journal] = 0

\* The walk enters a directory once, and has seen nothing below those it has not entered.
EntersOnce ==
    /\ pc \in {"idle", "source", "open"} => todo = {} /\ dirs = {} /\ links = {} /\ list = {}
    /\ pc = "walk" =>
           /\ todo \cap dirs = {}
           /\ \A e \in Nodes : Parent[e] \notin dirs \cup {Root} =>
                  e \notin todo \cup dirs \cup links \cup list /\ (e \in Files => jnl.line[e] = 0)

\* A file is in one list at most, and only if it has no entry.
OneWay ==
    /\ pc = "tar" => links = {}
    /\ Writing => \A f \in Files :
           /\ f \in todo => pc = "walk" /\ f \notin links \cup list /\ jnl.line[f] = 0
           /\ f \in links => f \notin list
           /\ f \in links \cup list => dump[bdir][f] = 0

\* What a new line says is true of the dump the run makes, and of the one it links from.
NewLinesSound ==
    Writing => \A f \in Files : Vouches(jnl, f) =>
        /\ dump[bdir][f] \in {0, Cut, src[f].ver}
        /\ f \in links => dump[LastDay][f] \in {0, Cut, src[f].ver}

\* What is to be linked is a version the client held during the run.
LinksFresh ==
    /\ bdir # 0 => \A f \in Files : Held(f) \in during[f]
    /\ Writing => \A f \in Files \cap links : dump[LastDay][f] \in {0, Cut} \cup during[f]

NotFailedYet == pc # "exit" => failed = "none"

\* The inductive invariant.
RemoteInv == /\ LinesPast /\ RunStamps /\ FutureEmpty /\ LastJournal /\ EntersOnce /\ OneWay
             /\ NewLinesSound /\ LinksFresh /\ NotFailedYet /\ JournalSound /\ NoStaleEntry

----------------------------------------------------------------------------
\* Why SnapshotComplete holds: the invariant behind it, for clocks that agree,
\* runs that stay in their day, and failures before the journal is final and after
\* which the old one is back, or lost, but not the new one in its place ("unlink").

Retriable == {"dest", "empty", "open", "move", "read", "dir", "lstat", "write"}
MadeGood == Lead = 0 /\ SameDayRuns /\ Faults \subseteq Retriable

\* A run and its journal have one date, and later days have no dump.
OneDate ==
    /\ bdir # 0 => DayOf[now] = bdir
    /\ pc = "walk" => born # 0 /\ DayOf[born] = bdir
    /\ Writing /\ jnl.line[Journal] # 0 => DayOf[jnl.line[Journal]] = bdir
    /\ \A d \in Day : d > DayOf[now] => \A f \in Files : dump[d][f] = 0

\* What each pass leaves for the next ones.
PassesFollow ==
    /\ Writing /\ pc # "walk" => todo = {}
    /\ pc \in {"mklink", "tar"} => dirs = {}
    /\ pc = "tar" => links = {}
    /\ \A f \in Files \cap links : f \notin list \cup todo
    /\ pc = "walk" => \A f \in Files \cap todo : f \notin list /\ jnl.line[f] = 0

\* A directory is made before what is in it.
ParentsFirst ==
    /\ pc \notin {"idle", "exit"} => Root \in made[bdir]
    /\ Writing => \A n \in Nodes \cap (dirs \cup links) : Parent[n] \in dirs \cup made[bdir]

\* What is to be linked is there, as the client held it, and nothing else is in its place.
LinksWait ==
    /\ bdir # 0 => \A f \in Files : Held(f) \in during[f]
    /\ Writing => \A f \in Files \cap links :
           /\ dump[LastDay][f] \in during[f] \ {0}
           /\ dump[bdir][f] \in {0, dump[LastDay][f]}

\* A journal that was made good: what it vouches for is in its dump, the last there is.
Redeemed(j) ==
    j.line[Journal] # 0 =>
        \A f \in Files :
            /\ Vouches(j, f) => dump[DayOf[j.line[Journal]]][f] = src[f].ver
            /\ \A d \in Day : d > DayOf[j.line[Journal]] => dump[d][f] = 0

\* The journals that a run may read are made good, and the one it writes will be.
PromisesKept ==
    /\ Redeemed(old)
    /\ pc \notin {"walk", "mkdir", "mklink", "tar", "restore"} => Redeemed(jnl)
    /\ Writing => \A f \in Files : Vouches(jnl, f) =>
           \/ f \in list
           \/ f \in links /\ dump[LastDay][f] = src[f].ver
           \/ f \notin links /\ dump[bdir][f] = src[f].ver

\* Each entry of a directory that was entered is still to be returned, or in a list, or
\* done with; after the walk that is every file.
FileInHand(f) == \/ f \in todo \cup links \cup list
                 \/ 0 \in during[f]
                 \/ dump[bdir][f] \in during[f]

NothingLost ==
    Writing /\ ~silent /\ rst =>
        /\ \A f \in Files : (pc = "walk" => Parent[f] \in dirs \cup {Root}) => FileInHand(f)
        /\ pc = "walk" => \A d \in Dirs : Parent[d] \in dirs \cup {Root} => d \in todo \cup dirs

\* The inductive invariant.
SnapInv == /\ LinesPast /\ LastJournal /\ EntersOnce /\ OneDate /\ PassesFollow /\ ParentsFirst
           /\ LinksWait /\ PromisesKept /\ NothingLost /\ NotFailedYet /\ SnapshotComplete
=============================================================================
