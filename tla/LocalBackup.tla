---------------------------- MODULE LocalBackup ----------------------------
(***************************************************************************)
(* One source directory dumped by `backupfs src dest' on one machine, day  *)
(* after day: main-local.c, backupfs.c, dirwalk.c, backupfs-local.c and    *)
(* the file helpers of file.c.  A run makes dest/yyyy/mm/dd, moves the     *)
(* journal of the last run aside, walks the source, hard-links what the    *)
(* journal says is unchanged, lists the rest for tar, writes the new       *)
(* journal, and lets tar copy the list.  Users edit the source and the     *)
(* clock advances between any two steps of a run; system calls fail and    *)
(* the process dies where Faults says so.                                  *)
(*                                                                         *)
(* A day stands for the directory dest/yyyy/mm/dd of that day.  A stamp    *)
(* stands for the (ctime, mtime) pair of a file, 0 for "no stamp"; the     *)
(* content of a file is its version.                                       *)
(***************************************************************************)
EXTENDS Integers, FiniteSets

CONSTANTS Files, Dirs,   \* files and directories below the source
          Root,          \* the source directory
          Journal,       \* src/.backupfs-journal
          Parent,        \* the directory of each file and directory
          MaxTime,       \* bound: last second of the clock
          DayOf,         \* localtime(): the day of each second
          OtherDays,     \* days another source is dumped: dest/yyyy/mm/dd exists
          MaxVer,        \* bound: versions of a file, removals counted
          Faults,        \* what may go wrong, a subset of FaultKind
          MaxFaults,     \* bound: faults in a behaviour
          OncePerDay,    \* at most one run a day
          SameDayRuns,   \* no run lasts past midnight
          FreshStamps    \* no file changes twice in a second

Time == 1..MaxTime
Day == {DayOf[t] : t \in Time}
Paths == Files \cup {Journal}
Nodes == Files \cup Dirs
Entry == Paths \cup Dirs
Folder == Dirs \cup {Root}

FaultKind == {"crash",   \* killed, or errSysExit(): no cleanup is run
              "dest",    \* chkDest(): mkdir, chmod, chdir or stat fails
              "move",    \* moveFile() cannot link or copy
              "unlink",  \* moveFile() cannot stat or unlink a journal in its way
              "read",    \* the old journal cannot be read to its end
              "open",    \* the new journal or the tar list cannot be opened
              "dir",     \* newDirectory(), opendir() or chdir() fails
              "lstat",   \* lstat() of an entry fails
              "link",    \* link() fails
              "write",   \* fwrite() fails
              "close",   \* fclose() fails: buffered lines are lost
              "tar",     \* tar does not copy a file, or dies
              "torn"}    \* tar leaves part of a file

ASSUME TreeAssumption ==
    /\ Root \notin Files /\ Root \notin Dirs
    /\ Journal \notin Files /\ Journal \notin Dirs /\ Journal # Root
    /\ Files \cap Dirs = {}
    /\ Parent \in [Nodes -> Folder]

\* Every directory is below the source.
ASSUME ReachAssumption ==
    \A S \in SUBSET Folder :
        Root \in S /\ (\A d \in Dirs : Parent[d] \in S => d \in S) => S = Folder

ASSUME ClockAssumption ==
    /\ MaxTime \in Nat \ {0}
    /\ DayOf \in [Time -> Nat \ {0}]
    /\ \A s, t \in Time : s <= t => DayOf[s] <= DayOf[t]
    /\ OtherDays \subseteq Day

ASSUME BoundAssumption ==
    /\ MaxVer \in Nat \ {0}
    /\ MaxFaults \in Nat
    /\ Faults \subseteq FaultKind
    /\ OncePerDay \in BOOLEAN
    /\ SameDayRuns \in BOOLEAN
    /\ FreshStamps \in BOOLEAN

VARIABLES
    \* the world
    now,      \* the clock
    src,      \* src[f]: version, stamp and presence of a source file
    \* what is on disk
    jnl,      \* the journal in the source directory
    dump,     \* dump[d][f]: content of f in the dump of day d, 0: no entry
    made,     \* made[d]: directories that exist in the dump of day d
    \* the running process
    pc,       \* where it is; "idle" when none runs
    bdir,     \* info.bdir: the day dumped, 0 when idle
    type,     \* bkupType
    old,      \* the journal set aside in /tmp, and its tree info.jt
    lbdir,    \* info.lbdir: the day of the last backup, 0 if none
    todo,     \* entries the open directories have yet to return
    list,     \* paths written to info.tar
    cur,      \* the entry lstat() returned: its path and stamp
    born,     \* when the new journal was created
    rst,      \* result of runCommands()
    exit,     \* how the run ended
    \* history, read by no action
    nfaults,  \* faults so far
    during,   \* during[f]: versions of f held since the run started, 0: absent
    before,   \* the journal when the run started
    silent,   \* a call of this run failed, by a fault, which was logged and no more
    again     \* the day had a dump when the run started

world == <<now, src>>
disk == <<jnl, dump, made>>
proc == <<bdir, type, old, lbdir, todo, list, cur, born, rst>>
ghost == <<during, before, silent, again>>
vars == <<world, disk, pc, proc, exit, nfaults, ghost>>

----------------------------------------------------------------------------
\* Journals.

NoLines == [p \in Paths |-> 0]
NoJournal == [there |-> FALSE, line |-> NoLines]
EmptyJournal == [there |-> TRUE, line |-> NoLines]

\* What a journal may be after its writer lost part of its buffer.
Remains(j) ==
    {[there |-> j.there, line |-> [p \in Paths |-> IF p \in kept THEN j.line[p] ELSE 0]] :
        kept \in SUBSET {p \in Paths : j.line[p] # 0}}

----------------------------------------------------------------------------
\* The source.

Torn == -1                                  \* content of a file cut short
Held(f) == IF src[f].there THEN src[f].ver ELSE 0
EntriesAndDot(d) == {e \in Nodes : Parent[e] = d} \cup {d}      \* mutant: "." is not passed over
Entries(d) == {e \in Nodes : Parent[e] = d} \cup (IF d = Root THEN {Journal} ELSE {})

NoEntry == [path |-> Journal, at |-> 0]

Init ==
    /\ now = 1
    /\ src = [f \in Files |-> [ver |-> 1, at |-> 1, there |-> TRUE]]
    /\ jnl = NoJournal
    /\ dump = [d \in Day |-> [f \in Files |-> 0]]
    /\ made = [d \in Day |-> {}]
    /\ pc = "idle" /\ bdir = 0 /\ type = "none" /\ old = NoJournal
    /\ lbdir = 0 /\ todo = {} /\ list = {} /\ cur = NoEntry /\ born = 0
    /\ rst = TRUE /\ exit = "none"
    /\ nfaults = 0
    /\ during = [f \in Files |-> {}]
    /\ before = NoJournal /\ silent = FALSE /\ again = FALSE

Tick == /\ now < MaxTime
        /\ SameDayRuns /\ bdir # 0 => DayOf[now + 1] = bdir
        /\ now' = now + 1
        /\ UNCHANGED <<src, disk, pc, proc, exit, nfaults, ghost>>

\* f is written, removed or created; the change sets its stamp to the clock.
Changed(f, here) ==
    /\ src[f].ver < MaxVer
    /\ FreshStamps => src[f].at < now
    /\ here \/ src[f].there
    /\ src' = [src EXCEPT ![f] = [ver |-> @.ver + 1, at |-> now, there |-> here]]
    /\ during' = IF bdir = 0 THEN during
                 ELSE [during EXCEPT ![f] = @ \cup {IF here THEN src[f].ver + 1 ELSE 0}]

Edit(f) == /\ \E here \in BOOLEAN : Changed(f, here)
           /\ UNCHANGED <<now, disk, pc, proc, exit, nfaults, before, silent, again>>

----------------------------------------------------------------------------
\* Faults and ways out.

Fault(kind) == /\ kind \in Faults
               /\ nfaults < MaxFaults
               /\ nfaults' = nfaults + 1

NoFault == UNCHANGED nfaults

\* The process goes on at label l, with nothing to say to the shell yet.
Goto(l) == pc' = l /\ UNCHANGED exit

\* The process is over; e is what the caller learns from its exit status.
Ends(e) == pc' = "exit" /\ exit' = e

\* backupfsExit() and its like: give the old journal back, then exit.
GivesUp(e) == pc' = "restore" /\ exit' = e

----------------------------------------------------------------------------
\* chkDest() and chkSource().

\* A run starts.  It picks today's directory and makes it and the source's
\* path below it; EEXIST is no error.
Start == /\ pc = "idle"
         /\ OncePerDay => Root \notin made[DayOf[now]]
         /\ bdir' = DayOf[now]
         /\ during' = [f \in Files |-> {Held(f)}]
         /\ before' = jnl
         /\ again' = (Root \in made[DayOf[now]])
         /\ UNCHANGED <<world, jnl, dump, type, old, lbdir, todo, list, cur, born, rst,
                        silent>>

ChkDest == /\ Start
           /\ made' = [made EXCEPT ![DayOf[now]] = @ \cup {Root}]
           /\ Goto("source")
           /\ NoFault

\* A system call of chkDest() fails, with the directory made or not.
ChkDestFails == /\ Start
                /\ \/ made' = [made EXCEPT ![DayOf[now]] = @ \cup {Root}]
                   \/ UNCHANGED made
                /\ Ends("gaveUp")
                /\ Fault("dest")

NoJournalYet == /\ pc = "source"
                /\ ~jnl.there
                /\ type' = "firstTime"
                /\ Goto("open")
                /\ NoFault
                /\ UNCHANGED <<world, disk, bdir, old, lbdir, todo, list, cur, born, rst,
                               ghost>>

\* moveFile(journal, oldJournal).
MoveAside == /\ pc = "source"
             /\ jnl.there
             /\ old' = jnl
             /\ jnl' = NoJournal
             /\ Goto("load")
             /\ NoFault
             /\ UNCHANGED <<world, dump, made, bdir, type, lbdir, todo, list, cur, born, rst,
                            ghost>>

\* /tmp is another file system: copyFile() does not look at what fclose() says of
\* the copy, and the journal is removed.
MoveAsideCuts == /\ pc = "source"
                 /\ jnl.there
                 /\ old' \in Remains(jnl)
                 /\ jnl' = NoJournal
                 /\ Goto("load")
                 /\ Fault("move")
                 /\ silent' = TRUE
                 /\ UNCHANGED <<world, dump, made, bdir, type, lbdir, todo, list, cur, born, rst,
                                during, before, again>>

MoveAsideFails == /\ pc = "source"
                  /\ jnl.there
                  /\ Ends("gaveUp")
                  /\ Fault("move") \/ Fault("unlink")
                  /\ UNCHANGED <<world, disk, proc, ghost>>

\* The journal's own line holds the time of the last run.
LastTime == old.line[Journal]

\* lastBkupDirFromTime() compares the name of its directory with today's.
SameMonthEnough == LastTime # 0       \* mutant: all but the day is compared
SameDay == LastTime # 0 /\ DayOf[LastTime] = bdir

\* stat() of dest/yyyy/mm/dd, which any source dumped that day makes.
DayDirExists(d) == Root \in made[d] \/ d \in OtherDays

\* makeJournalTree(), getLastBkupDir() and lastBkupDirFromTime().
LoadJournal == /\ pc = "load"
               /\ ~SameDay
               /\ \/ /\ LastTime = 0
                     /\ type' = "firstTime" /\ UNCHANGED lbdir
                  \/ /\ LastTime # 0
                     /\ ~DayDirExists(DayOf[LastTime])
                     /\ type' = "firstTime" /\ lbdir' = DayOf[LastTime]
                  \/ /\ LastTime # 0
                     /\ DayDirExists(DayOf[LastTime])
                     /\ type' = "recurrent" /\ lbdir' = DayOf[LastTime]
               /\ Goto("open")
               /\ NoFault
               /\ UNCHANGED <<world, disk, bdir, old, todo, list, cur, born, rst, ghost>>

\* "last backup dir and backup dir are the same"
Refuse == /\ pc = "load"
          /\ SameDay
          /\ GivesUp("refused")
          /\ NoFault
          /\ UNCHANGED <<world, disk, proc, ghost>>

LoadFails == /\ pc = "load"
             /\ GivesUp("gaveUp")
             /\ Fault("read")
             /\ UNCHANGED <<world, disk, proc, ghost>>

----------------------------------------------------------------------------
\* openFilesLocal() and dirwalk().

\* The new journal is created and the walk opens the source.  An open directory
\* may return whatever is in it when it gets there: entries that are not there
\* then are skipped by LstatFails.
OpenFiles == /\ pc = "open"
             /\ jnl' = EmptyJournal
             /\ born' = now
             /\ todo' = Entries(Root)
             /\ Goto("walk")
             /\ NoFault
             /\ UNCHANGED <<world, dump, made, bdir, type, old, lbdir, list, cur, rst, ghost>>

OpenFilesFails == /\ pc = "open"
                  /\ jnl' \in {jnl, EmptyJournal}
                  /\ GivesUp("gaveUp")
                  /\ Fault("open")
                  /\ UNCHANGED <<world, dump, made, proc, ghost>>

\* opendir() or chdir() of the source fails: the walk returns at once.
SourceUnread == /\ pc = "open"
                /\ jnl' = EmptyJournal
                /\ born' = now
                /\ Goto("walk")
                /\ Fault("dir")
                /\ silent' = TRUE
                /\ UNCHANGED <<world, dump, made, bdir, type, old, lbdir, todo, list, cur, rst,
                               during, before, again>>

\* lstat() of a file: the function of the run is called with its stamp.  The
\* journal is being written, so its stamp is some second of this run.
Lstat(p) == /\ pc = "walk"
            /\ p \in todo
            /\ \/ /\ p \in Files /\ src[p].there
                  /\ cur' = [path |-> p, at |-> src[p].at]
               \/ /\ p = Journal
                  /\ \E t \in born..now : cur' = [path |-> p, at |-> t]
            /\ todo' = todo \ {p}
            /\ Goto("visit")
            /\ NoFault
            /\ UNCHANGED <<world, disk, bdir, type, old, lbdir, list, born, rst, ghost>>

LstatFailsRetried(p) ==       \* mutant: the entry is not passed over
    /\ pc = "walk"
    /\ p \in todo
    /\ p \in Files /\ ~src[p].there
    /\ Goto("walk")
    /\ NoFault
    /\ UNCHANGED <<world, disk, proc, ghost>>

\* The directory did not return the file, or lstat() fails on it.
LstatFails(p) == /\ pc = "walk"
                 /\ p \in todo
                 /\ todo' = todo \ {p}
                 /\ \/ p \in Files /\ ~src[p].there /\ NoFault /\ UNCHANGED silent
                    \/ Fault("lstat") /\ silent' = TRUE
                 /\ Goto("walk")
                 /\ UNCHANGED <<world, disk, bdir, type, old, lbdir, list, cur, born, rst,
                                during, before, again>>

\* newDirectory() and the recursive call.
EnterDir(d) == /\ pc = "walk"
               /\ d \in todo
               /\ d \notin made[bdir]
               /\ made' = [made EXCEPT ![bdir] = @ \cup {d}]
               /\ todo' = (todo \ {d}) \cup Entries(d)
               /\ Goto("walk")
               /\ NoFault
               /\ UNCHANGED <<world, jnl, dump, bdir, type, old, lbdir, list, cur, born, rst,
                              ghost>>

\* newDirectory() answers 0 for a directory that exists: the subtree is skipped.
SkipDir(d) == /\ pc = "walk"
              /\ d \in todo
              /\ d \in made[bdir]
              /\ todo' = todo \ {d}
              /\ Goto("walk")
              /\ NoFault
              /\ UNCHANGED <<world, disk, bdir, type, old, lbdir, list, cur, born, rst, ghost>>

\* mkdir(), chmod(), chown(), opendir() or chdir() fails: the subtree is skipped.
DirFails(d) == /\ pc = "walk"
               /\ d \in todo
               /\ \/ made' = [made EXCEPT ![bdir] = @ \cup {d}]
                  \/ UNCHANGED made
               /\ todo' = todo \ {d}
               /\ Goto("walk")
               /\ Fault("dir")
               /\ silent' = TRUE
               /\ UNCHANGED <<world, jnl, dump, bdir, type, old, lbdir, list, cur, born, rst,
                              during, before, again>>

\* chdir() back from d fails: what its parent had yet to return is skipped.
ParentLost(d) == /\ pc = "walk"
                 /\ d \in made[bdir] /\ d \notin todo
                 /\ Entries(d) \cap todo = {}
                 /\ todo' = todo \ Entries(Parent[d])
                 /\ Goto("walk")
                 /\ Fault("dir")
                 /\ silent' = TRUE
                 /\ UNCHANGED <<world, disk, bdir, type, old, lbdir, list, cur, born, rst,
                                during, before, again>>

----------------------------------------------------------------------------
\* firstTimeBackup() and recurrentBackup() on cur.

Known == type = "recurrent" /\ old.line[cur.path] # 0       \* mutant: any stamp will do

\* The journal has the path with the stamp lstat() returned.
Unchanged == /\ type = "recurrent"
             /\ old.line[cur.path] = cur.at

\* link() finds its source, and nothing at its destination.
Linkable(f) == dump[lbdir][f] # 0 /\ dump[bdir][f] = 0

MakeLink == /\ pc = "visit"
            /\ cur.path \in Files
            /\ Unchanged
            /\ Linkable(cur.path)
            /\ dump' = [dump EXCEPT ![bdir][cur.path] = dump[lbdir][cur.path]]
            /\ Goto("journal")
            /\ NoFault
            /\ UNCHANGED <<world, jnl, made, proc, ghost>>

ListForTarOnly ==       \* mutant: no journal line for what tar is to copy
    /\ list' = list \cup {cur.path}
    /\ Goto("walk")
    /\ UNCHANGED <<world, disk, bdir, type, old, lbdir, todo, cur, born, rst, ghost>>

\* New, changed, or not linkable: the path goes to tar's list.
ListForTar == /\ list' = list \cup {cur.path}
              /\ Goto("journal")
              /\ UNCHANGED <<world, disk, bdir, type, old, lbdir, todo, cur, born, rst, ghost>>

WriteTar == /\ pc = "visit"
            /\ cur.path \in Files => ~(Unchanged /\ Linkable(cur.path))
            /\ ListForTar
            /\ NoFault

LinkFails == /\ pc = "visit"
             /\ cur.path \in Files
             /\ Unchanged
             /\ ListForTar
             /\ Fault("link")

\* writeJournal() takes the stamp from before the copy, not a later one.
StampNow == IF cur.path \in Files THEN src[cur.path].at ELSE cur.at       \* mutant: a later one
NewLine == cur.at

WriteJournal == /\ pc = "journal"
                /\ jnl' = [jnl EXCEPT !.line[cur.path] = NewLine]
                /\ cur' = NoEntry
                /\ Goto("walk")
                /\ NoFault
                /\ UNCHANGED <<world, dump, made, bdir, type, old, lbdir, todo, list, born, rst,
                               ghost>>

\* fwriteExit() on the list or the journal.
WriteFails == /\ pc \in {"visit", "journal"}
              /\ GivesUp("gaveUp")
              /\ Fault("write")
              /\ UNCHANGED <<world, disk, proc, ghost>>

----------------------------------------------------------------------------
\* closeFiles(), runCommands() and the end of main().

\* A recurrent run drops the old journal here, before any file is copied.
OldAfterWalk == IF type = "recurrent" THEN NoJournal ELSE old

CloseFiles == /\ pc = "walk"
              /\ todo = {}
              /\ old' = OldAfterWalk
              /\ Goto("tar")
              /\ NoFault
              /\ UNCHANGED <<world, disk, bdir, type, lbdir, todo, list, cur, born, rst, ghost>>

\* fclose() cannot write what is buffered; that is only logged.
CloseFails == /\ pc = "walk"
              /\ todo = {}
              /\ jnl' \in Remains(jnl)
              /\ list' \in SUBSET list
              /\ old' = OldAfterWalk
              /\ Goto("tar")
              /\ Fault("close")
              /\ silent' = TRUE
              /\ UNCHANGED <<world, dump, made, bdir, type, lbdir, todo, cur, born, rst,
                             during, before, again>>

\* tar replaces what the dump has of p.  (What it has of the journal is not kept.)
TarCopy(p) == /\ pc = "tar"
              /\ p \in list
              /\ p \in Files => src[p].there
              /\ list' = list \ {p}
              /\ dump' = IF p \in Files THEN [dump EXCEPT ![bdir][p] = src[p].ver] ELSE dump
              /\ Goto("tar")
              /\ NoFault
              /\ UNCHANGED <<world, jnl, made, bdir, type, old, lbdir, todo, cur, born, rst,
                             ghost>>

\* The file is gone: tar says so in its exit status.
TarMisses(f) == /\ pc = "tar"
                /\ f \in list
                /\ ~src[f].there
                /\ list' = list \ {f}
                /\ rst' = FALSE
                /\ Goto("tar")
                /\ NoFault
                /\ UNCHANGED <<world, disk, bdir, type, old, lbdir, todo, cur, born, ghost>>

\* "file changed as we read it": part old, part new, and the exit status says so.
TarRaced(f) == /\ pc = "tar"
               /\ f \in list
               /\ src[f].there
               /\ Changed(f, TRUE)
               /\ list' = list \ {f}
               /\ dump' = [dump EXCEPT ![bdir][f] = Torn]
               /\ rst' = FALSE
               /\ Goto("tar")
               /\ NoFault
               /\ UNCHANGED <<now, jnl, made, bdir, type, old, lbdir, todo, cur, born,
                              before, silent, again>>

\* A file is not extracted (its old entry may be unlinked already), or only a
\* part of it is.
TarFails(f) == /\ pc = "tar"
               /\ f \in list
               /\ \/ Fault("tar") /\ dump' \in {dump, [dump EXCEPT ![bdir][f] = 0]}
                  \/ Fault("torn") /\ dump' = [dump EXCEPT ![bdir][f] = Torn]
               /\ list' = list \ {f}
               /\ rst' = FALSE
               /\ Goto("tar")
               /\ UNCHANGED <<world, jnl, made, bdir, type, old, lbdir, todo, cur, born, ghost>>

\* One of the two tars stops early.
TarStops == /\ pc = "tar"
            /\ list # {}
            /\ list' = {}
            /\ rst' = FALSE
            /\ Goto("tar")
            /\ Fault("tar")
            /\ UNCHANGED <<world, disk, bdir, type, old, lbdir, todo, cur, born, ghost>>

\* removeFiles(), and the journal too if a first backup failed.
Finish == /\ pc = "tar"
          /\ list = {}
          /\ jnl' = IF type = "firstTime" /\ ~rst THEN NoJournal ELSE jnl
          /\ Ends(IF rst THEN "ok" ELSE "fail")
          /\ NoFault
          /\ UNCHANGED <<world, dump, made, proc, ghost>>

----------------------------------------------------------------------------
\* backupfsExit() and the other ways out.

\* closeFiles() and the unlink(to) of moveFile(oldJpath, jpath).
Restore == /\ pc = "restore"
           /\ jnl' = NoJournal
           /\ Goto("relink")
           /\ NoFault
           /\ UNCHANGED <<world, dump, made, proc, ghost>>

\* stat(to) or unlink(to) fails and moveFile() returns: the lines that were written of the
\* new journal stay, and the old one is left in /tmp.  (It ends so, too, if chkSource() linked
\* the old journal to /tmp and could not unlink it: the new one is written over it.)
RestoreFails == /\ pc = "restore"
                /\ jnl' \in Remains(jnl)
                /\ Ends(exit)
                /\ Fault("unlink")
                /\ silent' = TRUE
                /\ UNCHANGED <<world, dump, made, proc, during, before, again>>

\* The link(from, to) of moveFile(); there may be no old journal to link.
Relink == /\ pc = "relink"
          /\ jnl' = old
          /\ old' = NoJournal
          /\ Ends(exit)
          /\ NoFault
          /\ UNCHANGED <<world, dump, made, bdir, type, lbdir, todo, list, cur, born, rst, ghost>>

\* It fails, or copies a part when /tmp is another file system.
RelinkFails == /\ pc = "relink"
               /\ jnl' \in {NoJournal} \cup Remains(old)
               /\ Ends(exit)
               /\ Fault("move")
               /\ silent' = TRUE
               /\ UNCHANGED <<world, dump, made, proc, during, before, again>>

\* The process is killed, or leaves by errSysExit() with nothing put right.
\* Buffered lines are lost, and tar leaves a file half written.
Die == /\ pc \notin {"idle", "exit"}
       /\ \/ /\ pc \in {"walk", "visit", "journal"}
             /\ jnl' \in Remains(jnl) /\ UNCHANGED dump
          \/ /\ pc = "relink"
             /\ jnl' \in {jnl} \cup Remains(old) /\ UNCHANGED dump
          \/ /\ pc = "tar" /\ "torn" \in Faults
             /\ \E f \in list \cap Files : dump' = [dump EXCEPT ![bdir][f] = Torn]
             /\ UNCHANGED jnl
          \/ /\ pc \in {"source", "load", "open", "tar", "restore"}
             /\ UNCHANGED <<jnl, dump>>
       /\ Ends("killed")
       /\ Fault("crash")
       /\ UNCHANGED <<world, made, proc, ghost>>

\* The process is gone, and with it everything it had in memory.
Gone == /\ pc = "exit"
        /\ pc' = "idle" /\ exit' = "none"
        /\ bdir' = 0 /\ type' = "none" /\ old' = NoJournal /\ lbdir' = 0
        /\ todo' = {} /\ list' = {} /\ cur' = NoEntry /\ born' = 0 /\ rst' = TRUE
        /\ during' = [f \in Files |-> {}]
        /\ before' = NoJournal /\ silent' = FALSE /\ again' = FALSE
        /\ NoFault
        /\ UNCHANGED <<world, disk>>

----------------------------------------------------------------------------

Prepare == \/ NoJournalYet \/ MoveAside \/ MoveAsideCuts \/ MoveAsideFails
           \/ LoadJournal \/ Refuse \/ LoadFails
           \/ OpenFiles \/ OpenFilesFails \/ SourceUnread

Walk == \/ \E p \in Paths : Lstat(p) \/ LstatFails(p)
        \/ \E d \in Dirs : EnterDir(d) \/ SkipDir(d) \/ DirFails(d) \/ ParentLost(d)
        \/ MakeLink \/ WriteTar \/ LinkFails \/ WriteJournal \/ WriteFails
        \/ CloseFiles \/ CloseFails

Copy == \/ \E p \in Paths : TarCopy(p)
        \/ \E f \in Files : TarMisses(f) \/ TarRaced(f) \/ TarFails(f)
        \/ TarStops \/ Finish

Leave == Restore \/ RestoreFails \/ Relink \/ RelinkFails \/ Gone

Run == Prepare \/ Walk \/ Copy \/ Leave

Next == Tick \/ (\E f \in Files : Edit(f)) \/ ChkDest \/ ChkDestFails \/ Run \/ Die

Spec == Init /\ [][Next]_vars

\* A started process gets to run.  Nothing makes the user edit a file or kill the
\* process, cron start a run, or the clock reach a given second.
FairSpec == Spec /\ WF_vars(Run)

----------------------------------------------------------------------------
\* Properties.

Stamp == 0..MaxTime
Content == Torn..MaxVer
Source == [Files -> [ver : 1..MaxVer, at : Time, there : BOOLEAN]]
JournalType == [there : BOOLEAN, line : [Paths -> Stamp]]
Dumps == [Day -> [Files -> Content]]
Trees == [Day -> SUBSET Folder]
Versions == [Files -> SUBSET (0..MaxVer)]
Entered == [path : Paths, at : Stamp]
Label == {"idle", "source", "load", "open", "walk", "visit", "journal", "tar", "restore",
          "relink", "exit"}
Ending == {"none", "ok", "fail", "refused", "gaveUp", "killed"}

\* Every variable has its type.
TypeOK ==
    /\ now \in Time /\ src \in Source
    /\ jnl \in JournalType /\ dump \in Dumps /\ made \in Trees
    /\ pc \in Label
    /\ bdir \in Day \cup {0}
    /\ pc = "idle" <=> bdir = 0
    /\ type \in {"none", "firstTime", "recurrent"}
    /\ old \in JournalType
    /\ lbdir \in Day \cup {0}
    /\ type = "recurrent" => lbdir # 0
    /\ todo \subseteq Entry
    /\ list \subseteq Paths
    /\ cur \in Entered
    /\ born \in Stamp
    /\ rst \in BOOLEAN
    /\ exit \in Ending
    /\ nfaults \in 0..MaxFaults
    /\ during \in Versions
    /\ before \in JournalType
    /\ silent \in BOOLEAN
    /\ again \in BOOLEAN

\* A line of j vouches for f when it has the stamp the source has now.
Vouches(j, f) == src[f].there /\ j.line[f] = src[f].at

\* The dump j was written for has of f nothing, or what the source has.
Backed(j, f) == dump[DayOf[j.line[Journal]]][f] \in {0, src[f].ver}

\* A journal never vouches for a stale copy: whatever was edited, killed or cut
\* short, if a stamp in the journal (or in the one set aside) is still the stamp
\* of the file, the dump that recurrentBackup() would link from has that very
\* content, or has nothing and link() will fail.
JournalSound ==
    \A j \in {jnl, old} : j.line[Journal] # 0 =>
        \A f \in Files : Vouches(j, f) => Backed(j, f)

CleanExit == pc = "exit" /\ exit = "ok" /\ ~silent

\* A run that exits 0, and in which no call failed by a fault, has dumped every
\* file that was there while it ran, in a version of that time: also after runs
\* that failed, were killed or were refused, and also the files it only linked.  (A
\* directory that exists already is no fault, though mkdir() says so in the log.)
SnapshotComplete ==
    CleanExit => \A f \in Files : 0 \notin during[f] => dump[bdir][f] \in during[f]

\* The first run of a day that exits so leaves a journal from which the next
\* run links every file not changed since: the journal has its own line, dated
\* with that dump, a line for the file, and the dump has the file.
NextRunCanLink ==
    CleanExit /\ ~again =>
        /\ jnl.line[Journal] # 0
        /\ DayOf[jnl.line[Journal]] = bdir
        /\ \A f \in Files : during[f] = {Held(f)} /\ Held(f) # 0 =>
               Vouches(jnl, f) /\ dump[bdir][f] = Held(f)

\* A run that gives up before it copies anything leaves the journal it found.
JournalPreserved ==
    pc = "exit" /\ exit \in {"refused", "gaveUp"} /\ ~silent => jnl = before

\* So does, at least, the first run of a day, whatever earlier runs left.
FirstRunComplete == ~again => SnapshotComplete

\* A run is refused as the second one of its day only if it is.
NoFalseRefusal == exit = "refused" => again

\* Every run that starts comes to an end.
EveryRunEnds == [](pc # "idle" => <>(pc = "idle"))

\* The dumps behave as DumpFs says: written once, by the run of their day, with
\* what the source held during that run, whether copied or linked.
Fs == INSTANCE DumpFs WITH held <- [f \in Files |-> Held(f)], dumps <- dump, open <- bdir
WriteOnceDumps == Fs!FsSpec

----------------------------------------------------------------------------
\* Why JournalSound and WriteOnceDumps hold: the invariant behind them, for one
\* run a day, no two changes of a file in a second, and no copy cut short.

Careful == OncePerDay /\ FreshStamps /\ "torn" \notin Faults

Writing == pc \in {"walk", "visit", "journal", "tar"}   \* jnl is the new journal
AtEntry == pc \in {"visit", "journal"}                  \* cur is set

\* No line is ahead of the file it is about.
LinesPast == \A j \in {jnl, old} : \A f \in Files : j.line[f] <= src[f].at

\* No stamp is ahead of the clock, nor of the file lstat() took it from.
StampsPast ==
    /\ \A f \in Files : src[f].at <= now
    /\ AtEntry /\ cur.path \in Files => cur.at # 0 /\ cur.at <= src[cur.path].at

\* The run's own stamps are of its day or, past midnight, later.
RunStamps ==
    /\ bdir # 0 => bdir <= DayOf[now]
    /\ Writing => /\ born # 0 /\ bdir <= DayOf[born]
                  /\ jnl.line[Journal] # 0 => bdir <= DayOf[jnl.line[Journal]]
    /\ AtEntry /\ cur.path = Journal => cur.at # 0 /\ bdir <= DayOf[cur.at]

\* A dump without the source directory is empty, as are those of days to come; the
\* dump being written has it.
FutureEmpty ==
    /\ \A d \in Day :
         /\ Root \notin made[d] => made[d] = {} /\ \A f \in Files : dump[d][f] = 0
         /\ d > DayOf[now] \/ (bdir # 0 /\ d > bdir) => Root \notin made[d]
    /\ pc \notin {"idle", "exit"} => Root \in made[bdir]

\* The walk starts with nothing done.
CleanStart ==
    /\ pc \in {"idle", "source", "load", "open"} => todo = {} /\ list = {}
    /\ pc \in {"source", "load", "open"} =>
           made[bdir] \subseteq {Root} /\ \A f \in Files : dump[bdir][f] = 0

\* A file the run has to do with is in a directory the run has entered.
ParentsMade ==
    Writing => \A f \in Files :
        \/ f \in todo \/ f \in list \/ jnl.line[f] # 0 \/ dump[bdir][f] # 0
        \/ AtEntry /\ cur.path = f
        => Parent[f] \in made[bdir]

\* A file is returned once, and is copied only after the journal is closed.
OnceEach ==
    Writing => \A f \in Files :
        /\ f \in list => dump[bdir][f] = 0
        /\ f \in todo => f \notin list /\ jnl.line[f] = 0 /\ dump[bdir][f] = 0
        /\ AtEntry /\ cur.path = f => f \notin todo /\ jnl.line[f] = 0
        /\ pc = "visit" /\ cur.path = f => f \notin list /\ dump[bdir][f] = 0

\* What a new line says is true of the dump of its run, whichever day it is dated.
NewLinesSound ==
    /\ Writing => \A f \in Files : Vouches(jnl, f) => dump[bdir][f] \in {0, src[f].ver}
    /\ pc = "journal" => \A f \in Files :
           cur.path = f /\ src[f].there /\ src[f].at = cur.at =>
               dump[bdir][f] \in {0, src[f].ver}

\* A recurrent run links from the dump its journal was written for.
LastDay ==
    type = "recurrent" /\ (pc = "open" \/ pc = "walk" \/ AtEntry) =>
        old.line[Journal] # 0 /\ lbdir = DayOf[old.line[Journal]] /\ lbdir # bdir

\* What it may link is a version the source held during the run.
LinksFresh ==
    /\ bdir # 0 => \A f \in Files : Held(f) \in during[f]
    /\ pc = "visit" /\ cur.path \in Files /\ Unchanged =>
           dump[lbdir][cur.path] \in {0} \cup during[cur.path]

\* The inductive invariant.
JournalInv == /\ LinesPast /\ StampsPast /\ RunStamps /\ FutureEmpty /\ CleanStart
              /\ ParentsMade /\ OnceEach /\ NewLinesSound /\ LastDay /\ LinksFresh /\ JournalSound

----------------------------------------------------------------------------
\* Why FirstRunComplete holds, whatever earlier runs of other days and of the same day
\* left: the invariant behind it, for runs that are not killed and lose no buffered line,
\* each over before midnight.

\* A write that fails makes a recurrent run give up with files linked and a journal to
\* throw away.  When tar can fail as well, the next run of the day can leave the links as
\* they are; when unlink() can, the journal is not thrown away.
MadeGood == /\ SameDayRuns /\ FreshStamps
            /\ Faults \cap {"crash", "close", "torn"} = {}
            /\ MaxFaults <= 1 \/ "write" \notin Faults \/ Faults \cap {"tar", "unlink"} = {}

\* tar leaves no file out that is there.
TarSure == "tar" \notin Faults \/ nfaults >= MaxFaults

\* A journal that is to be thrown away will be.
RestoreSure == "unlink" \notin Faults \/ nfaults >= MaxFaults

\* A run and its journal have one date, and no journal is of a time to come.
OneDate ==
    /\ bdir # 0 => bdir = DayOf[now]
    /\ Writing => born # 0 /\ DayOf[born] = bdir
    /\ AtEntry /\ cur.path = Journal => cur.at \in 1..now /\ DayOf[cur.at] = bdir
    /\ Writing /\ jnl.line[Journal] # 0 => DayOf[jnl.line[Journal]] = bdir
    /\ \A j \in {jnl, old} : j.line[Journal] <= now
    /\ (pc = "open" \/ Writing) /\ old.line[Journal] # 0 => DayOf[old.line[Journal]] # bdir

\* The walk starts with nothing in hand, the first one of a day in an empty directory, and
\* knows what kind it is.
NothingYet ==
    /\ pc \in {"idle", "source", "load", "open"} => todo = {} /\ list = {}
    /\ pc \in {"source", "load", "open"} /\ ~again => made[bdir] = {Root}
    /\ pc \in {"idle", "source"} => old = NoJournal
    /\ pc = "open" \/ Writing => type # "none"

\* Nothing is dumped, and no file looked at, but in a directory that was made.
ParentsThere ==
    /\ \A d \in Day : \A f \in Files : dump[d][f] # 0 => Parent[f] \in made[d]
    /\ Writing => \A f \in Files :
           f \in todo \cup list \/ jnl.line[f] # 0 => Parent[f] \in made[bdir]
    /\ AtEntry /\ cur.path \in Files => Parent[cur.path] \in made[bdir]

\* A file is returned once.
OneVisit ==
    /\ Writing => \A f \in Files : f \in todo => f \notin list /\ jnl.line[f] = 0
    /\ AtEntry /\ cur.path \in Files => cur.path \notin todo /\ jnl.line[cur.path] = 0
    /\ pc = "visit" /\ cur.path \in Files => cur.path \notin list

\* What a journal vouches for its dump has, if it has anything.
Redeemed(j) == j.line[Journal] # 0 => \A f \in Files : Vouches(j, f) => Backed(j, f)

\* So it is with the journals a run may read; the one being written will be so, unless
\* it is thrown away.
PromisesKept ==
    /\ Redeemed(old)
    /\ ~Writing /\ pc # "restore" => Redeemed(jnl)
    /\ Writing /\ (type = "recurrent" \/ rst) => \A f \in Files :
           \/ Vouches(jnl, f)
           \/ pc = "journal" /\ cur.path = f /\ src[f].there /\ src[f].at = cur.at
           => f \in list \/ dump[bdir][f] \in {0, src[f].ver}

\* A journal with a date is there; if that of a run that gives up has one, moveFile() is sure
\* to throw it away.
ThrownAway ==
    /\ \A j \in {jnl, old} : j.line[Journal] # 0 => j.there
    /\ Writing => jnl.there
    /\ pc \in {"load", "open"} \/ (pc = "restore" /\ ~RestoreSure) => jnl.line[Journal] = 0

\* The journal the next run of the day, or the present one, goes by.
InUse == IF pc \in {"load", "open", "walk", "visit", "journal", "restore", "relink"} THEN old ELSE jnl
Linked(f) == /\ pc \in {"walk", "visit", "journal"}
             /\ f \notin todo \cup list
             /\ ~(pc = "visit" /\ cur.path = f)

\* What an earlier run of the day left linked, tar will replace.
LinksReplaced ==
    /\ InUse.line[Journal] # 0 => \A d \in Day : \A f \in Files :
           d > DayOf[InUse.line[Journal]] /\ dump[d][f] # 0 => TarSure \/ (d = bdir /\ Linked(f))
    /\ pc = "tar" /\ type = "recurrent" => TarSure \/ \A f \in Files \cap list : dump[bdir][f] = 0

\* What is sure of an entry of a directory the run has entered: the walk will
\* return it, or the directory is entered, or the file is dumped, or will be by
\* tar, or was not there for a while.
InHand(n) ==
    \/ n \in todo
    \/ n \in Dirs /\ n \in made[bdir]
    \/ n \in Files /\ \/ 0 \in during[n]
                      \/ n \in list
                      \/ pc = "visit" /\ cur.path = n
                      \/ dump[bdir][n] \in during[n]

\* A file nobody has touched since the run started has, or will have, its line.
Untouched(f) == during[f] = {Held(f)} /\ Held(f) # 0
Lined(f) == \/ f \in todo
            \/ AtEntry /\ cur.path = f /\ cur.at = src[f].at
            \/ jnl.line[f] = src[f].at

\* The journal has, or will have, its own.
SelfLined == \/ Journal \in todo
             \/ AtEntry /\ cur.path = Journal
             \/ jnl.line[Journal] # 0

NothingLost ==
    Writing /\ ~silent =>
        /\ rst => \A n \in Nodes : Parent[n] \in made[bdir] => InHand(n)
        /\ \A f \in Files : Parent[f] \in made[bdir] /\ Untouched(f) => Lined(f)
        /\ SelfLined

WalkedOut == pc = "tar" => todo = {}

GivenUp == pc \in {"restore", "relink"} => exit # "ok"

\* What runs that gave up have left does no harm to the next ones.
RetryInv == /\ LinesPast /\ StampsPast /\ OneDate /\ FutureEmpty /\ NothingYet /\ ParentsThere
            /\ OneVisit /\ LastDay /\ LinksFresh /\ PromisesKept /\ ThrownAway /\ LinksReplaced

\* The inductive invariant.
FirstInv == /\ RetryInv /\ WalkedOut /\ GivenUp /\ (~again => NothingLost)
            /\ FirstRunComplete /\ NextRunCanLink
=============================================================================
