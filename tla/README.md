# Verification of backupfs

`backupfs src dest` makes a dated copy of a directory tree, `dest/yyyy/mm/dd/src`,
once a day.  Files that did not change since the last dump are hard-linked to it;
the others are copied by tar.  What changed is told by a journal,
`src/.backupfs-journal`, that holds the path, ctime and mtime of every file of the
last dump.  `backupfs host:src dest` does the same over ssh.

This directory holds TLA+ modules of the program, TLC configurations that check
them on small instances, and proofs checked by TLAPS.  Paths below are relative to
the source directory.

## 1. Inventory

| component | source | state it keeps | operations |
|---|---|---|---|
| local run | `main-local.c`, `backupfs.c`, `dirwalk.c`, `backupfs-local.c`, `file.c` | journal in the source, journal set aside in /tmp, tar's list, the dumps, `bkupInfo` | chkDest, chkSource, openFilesLocal, dirwalk with firstTimeBackup or recurrentBackup, closeFiles, runCommands, backupfsExit |
| overlapping local runs | as the local run | shared: the name of the journal, inodes several runs may have open, the day's directories, the dump | the same, of two processes at a time |
| remote run | `doRemote` in `backupfs-local.c`; `main-remote.c`, `backupfs-remote.c`, `backupfs-mkdir.c`, `backupfs-mklink.c`, `backupfs-exctar.c`, `backupfs-chksrc.c` | journal and three temporary files on the client, the dumps on the server | six passes over ssh |
| pipelines | `execCommands`, `execPipe` in `file.c`, helpers in `backupfs.h` | signal actions and mask, descriptors, two pids, their statuses | one call per command or `cmd1 \| cmd2` |
| backupfs-hist | `backupfs-hist.c` | a date that goes back, the last inode | prHistory, decrementDate |
| newfiles, changedfiles | `newfiles.c` | two dump directories, the older one's journal | setBkupDir, showFile |
| journal format | `makeJournalTree`, `getline.c` | the tree of journal entries | parse |
| path tree | `string-rbt/` | a map from paths | insert, find |
| command lines and restricted shell | `mkArgs` in `file.c`, `backupfs.h`, `backupfs-shell.c` | none | print a pass's command, split it, join it for ssh, split it again, look it up |
| ssh key, errors, platform, build, cron | `makeSshKey`, `error.c`, `platform.h`, `Makefile`, `cron.daily-backup.sh` | none that others read | |

How they interact: the local run calls tar through the pipelines, and so does every
remote pass.  Runs of different days talk to each other only through the journal
and the dumps, and that is where things go wrong: the journal's promise ("this path
had this stamp in the dump of the day I am dated") is made before tar has copied
anything, is dated by its own mtime, and is believed by a run that sees neither how
the last one ended nor what tar did.  Users edit the source all the time.

What is hard, and what makes each part correct:

* local run -- edits during the walk, kills at any point, failures of any call,
  several runs a day, midnight, the day directory shared with another source.
  Correct if the journal never vouches for a stale copy, if exit status 0 means a
  complete dump, if error exits give the journal back, if a dump once made is not
  written again, and if a second run of a day is what is refused, and only that;
* remote run -- two hosts, two clocks, passes that fail one by one, a reply that is
  lost after the work was done, and no tar to fall back on when a link fails.
  Correct under the same properties, read across the two hosts;
* pipelines -- two children, a third that was inherited, ^C, closed standard
  descriptors, failing calls.  Correct if success means that all was read and both
  succeeded, if the call ends and no child is left;
* overlapping runs -- nothing locks anything: the daily run may last past the next
  one, or an operator starts one by hand.  Correct if the journal that is left
  vouches for no stale copy, if the dump is complete between them and if the journal
  is not lost;
* backupfs-hist -- boundaries of months and years, gaps.  Correct if it prints each
  change of the file once, newest first;
* newfiles, changedfiles -- days of 23 and 25 hours, days with dumps of other sources
  only, a last dump whose tar died.  Correct if they compare with the last dump
  before the day asked for, and list the files it has not, or has with another inode;
* journal format -- paths with a newline, a text cut short, times before 1970.
  Correct if the tree that is read decides about each file as the map that was
  written would;
* command lines -- buffers whose length is added up by hand, and three splits at
  blanks.  Correct if the program at the other end gets the words that were meant.

`PROJECT.json` lists each hazard at its line with the properties about it.

## 2. Modules

| module | what it is |
|---|---|
| `DumpFs` | abstract: dated dumps that are written once, by the run of their day, with what the source held meanwhile |
| `LocalBackup` | the local run; implements `DumpFs` |
| `MCLocalBackup` | its instances |
| `LocalBackupProofs`, `JournalProofs`, `SnapshotProofs` | its theorems |
| `Overlap`, `MCOverlap` | two local runs of one source at a time |
| `OverlapProofs` | its theorems |
| `RemoteBackup`, `MCRemoteBackup` | the remote run, client and server; implements `DumpFs` |
| `RemoteProofs` | its theorems |
| `Commands` | the command lines of the passes as functions, up to the restricted shell |
| `ExecPipe`, `MCExecPipe` | execCommands and execPipe, for each pass; extends `Commands` |
| `ExecPipeProofs` | its theorems |
| `JournalFile` | the text of a journal, written and read, as functions |
| `NewFiles`, `MCNewFiles` | newfiles and changedfiles; extends `JournalFile` |
| `NewFilesProofs` | its theorems |
| `History` | backupfs-hist |
| `HistoryProofs` | its theorems |

### LocalBackup and the code

`pc` is where the process is: `source` (chkSource), `load` (makeJournalTree and the
last day), `open` (openFilesLocal), `walk`/`visit`/`journal` (dirwalk, the function
of the run on one file, its journal line), `tar` (runCommands), `restore`/`relink`
(the two halves of moveFile in backupfsExit), `exit`.  Everything else the code
keeps in `bkupInfo` is a variable of the same name (`bdir`, `lbdir`, `jt` is `old`)
or a set: `todo` is what the open directories have still to return, `list` is what
was written to `info.tar`.  On disk there are the journal `jnl`, the dumps
`dump[day][file]` and the directories `made[day]`.

A file's content is a version number, its (ctime, mtime) a stamp, which is the
second of its last change.  The clock moves and users edit, remove or create files
between any two steps.  Each call that may fail has an alternative in which it does,
enabled if `Faults` has its kind, at most `MaxFaults` times in a behaviour.  A fault
that the code only logs sets `silent`, so that the properties about the exit status
can leave that run out; what such a run leaves behind is still judged in the runs
after it.  Calls that fail because of what is there, and no fault, do not set it,
though they are logged too: mkdir() of a directory that exists (`SkipDir`), link() to
or from where it cannot be made (`Link` in `RemoteBackup`).  What they lead to is what
the properties are about.  `Die` is a kill at any point, and errSysExit(), which puts nothing right.

Buffered output that is lost (a kill, a failing fclose) takes any subset of the
journal's lines (`Remains`); the code loses a tail, which is one of the subsets.

Left out: directories made or removed during a run, modes and owners, special files
(ignored by dirwalk), memory exhaustion, and runs that overlap (they are in `Overlap`).

moveFile() gives the old journal back in three calls, each of which may fail: stat() or
unlink() of the new journal, and then the new one stays, with the lines it has by then
(`RestoreFails`, kind `unlink`); link() or copyFile() (`RelinkFails`, kind `move`), and
then there is none, or a part of the old one.

### Overlap and the code

The same run as in `LocalBackup`, as many processes as `Runs` has, each started once.
A journal is an inode now: `name` is the one `src/.backupfs-journal` leads to, and a
process keeps the one it opened (`out`) and the one it set aside (`old`), whatever
the name has become.  `moveFile` is its steps, link() or copyFile() and then
unlink(), since the other run may act in between.  In the refusal stat() and unlink() of
the new name are one step, and link() another: of two runs, one can only be refused for
the journal of the other, which then makes no new one, and the name is free.
The journal is an entry of the source like any other, and its path is in tar's list
unless it was linked (`VisitJournal`); tar does not find it if another run has moved it,
and may see it change (`TarJournal`).  A first backup whose tar failed then unlinks the
name (`Finish`), whichever journal has it.  `Visible` is what a reader sees of a journal
whose writer has lines in its buffer, `Merged` what two streams on one inode leave of
each other's lines.  Of two runs of a
day one makes a directory and goes in; the other passes it over (`EnterDir`).

Coarser than `LocalBackup`: a file is stat'ed, linked or listed, and its line written
in one step, tar copies a file in one step, a version is its own stamp, and no call
fails but for what another run did.  Users remove nothing, so that tar misses only the
journal.  Left out: two tars that copy one file at once, and three runs.

### RemoteBackup and the code

One run at a time; the phases of PASS2 are `source`, `open`, `walk`, `restore`, the
server's passes `mkdir`, `mklink`, `tar`.  lstat, the list entry and the journal line
of a file are one step (`Record`), because on the client nothing else reads the file
in between.  `Lead` is how far the server's clock is ahead.  `failed` names the pass
that failed.  What backupfs-mkdir and
backupfs-mklink only log is a `Logged` fault.  PASS3 repeats the directories of
PASS1, so a directory PASS1 could not make is not modelled apart.

A PASS5 that is killed, cut off from ssh or out of space may leave a part of a file on
the server, whose stamp on the client has not changed.  That content is `Cut`, apart
from `Torn`, the part that a file has of two versions when it changes while tar reads it.
It comes about in `TarFails` (kind `torn`) and in `Die`.

Left out: a client that goes on alone while a new run starts, and the names of the
temporary files.

### ExecPipe, Commands and the code

One call of execCommands: `job` is the pass and its operands, and a pass has a second
command or not.  Descriptors 0 to 4 are modelled, with 0 and 1 closed or not at the
start; `fork` copies them, `pipe` takes the lowest free ones.  The program may have
been exec'd by a process that had a child (`Stray`), whose status wait() then returns.
What the commands do is external: cmd1 writes `Chunks` chunks, cmd2 reads to the end
of its input, and either may fail or be killed.

What the commands are is not: `Commands` has the formats of `backupfs.h`, `MkArgs`
that splits them, ssh that joins what follows the host, `FarArgs` that is the split of
backupfs-shell and `Allowed` its list.  A word is a sequence of symbols, one for each
literal part.  `words` holds the outcome for the two commands of the call, and
`Refused` is ssh or the shell turning the command away.  Only chkRemoteSrc's buffer
has a length (`Line1`), since it is the one that is too short.

Left out: lines of more than MAXARGS words, which only blanks in operands could make.

### JournalFile, NewFiles and the code

A text is a sequence of symbols, one of them a whole time as "%08lx" prints it, "neg"
the sixteen digits of a time before 1970.  `LineOf` is the fprintf of firstTimeBackup
and recurrentBackup; `LineEnds`, `Chopped`, `Strtol` and `ReadLine` are the loop of
makeJournalTree, `Readable` its failing on a path that comes twice.  `JournalFile` has
no state: `NewFiles` runs it on the journals that dumps have.

`NewFiles` starts from any disk an earlier run may have left: the last dump is whole,
or its tar died in the middle of the journal or before it, some of the files the
journal lists were copied, and later days have nothing or another source's dump.
Time is counted in units, of which `DayOf` says the day, so that a step of 24 hours
(`OneDayBefore`) can pass over a short day and stay on a long one.  `SetBkupDir` and
`Back` are setBkupDir before and in its loop, `Load` opens and reads the journal,
`ShowFile` is the callback of dirwalk for both names of the program.  Nobody writes a
dump while the program reads.

### History and the code

Dates have years, months and days from `FirstYear`..`ThisYear`, 0..`LastMonth`,
1..`LastDay`.  A file's dumps are any set of at most `MaxDumps` dates and any of
them may be a change; one more date has a directory from another source.  `Back` is
one turn of the loop of prHistory; `Decremented` is decrementDate with its recursion.

### Mutants

Some definitions are preceded by one marked "mutant" in its comment, which no
specification uses: it is the definition with a bug.  `PROJECT.json` pairs it with a
property that TLC refutes when the one replaces the other.

## 3. What the runs check

Runs that pass:

| run | properties | bounds |
|---|---|---|
| `local_faults` | TypeOK, JournalSound, JournalInv, SnapshotComplete, JournalPreserved, WriteOnceDumps | 1 file in 1 subdirectory, 3 days in 4 seconds, 3 versions, any 2 faults but `torn` (`unlink` among them), one run a day, another source dumped on day 2 |
| `local_retry` | FirstInv, FirstRunComplete, NextRunCanLink, NoFalseRefusal | 2 files, 2 days of 2 seconds, any number of runs, 1 fault that is not lost sight of (no `crash`, `close`, `torn`; `unlink` is among them) |
| `local_ends` | EveryRunEnds | 1 file, every kind of fault, 1 fault, fair scheduling |
| `overlap` | TypeOK, JournalSound, RunsComplete, JournalLeft, OverlapInv | 2 runs, 1 file in 1 subdirectory, 3 days, 3 versions, a complete run on day 1 or none; the runs are interchangeable (symmetry) |
| `remote_faults` | TypeOK, RemoteInv, JournalSound, NoStaleEntry, JournalPreserved, WriteOnceDumps | as local_faults, any 2 faults but `empty` (`torn` and `unlink` among them), any number of runs a day, one clock |
| `remote_retry` | SnapshotComplete, SnapInv | 2 files, 2 faults before the journal is final but `unlink` (a directory that isDirEmpty() cannot open and takes for empty among them: the one fault that lets a dump be written twice), no run past midnight |
| `pipe_calls` | TypeOK, PassedMeansAllRead, EndsInPlace, NoChildLeft, InterruptWorks, FarAsMeant, CallEnds | every pass with plain operands, two with a blank in the source, one with a long user name and one with a blank in it; 3 chunks through a pipe of 1, any calls failing, 2 ^C, SIGCHLD ignored or not |
| `newfiles` | TypeOK, LastDayFound, ReadBack, ReportRight, HiddenByPrefix, ChangeHidden | 3 days of 24, 23 and 25 hours (2, 1 and 3 units), at most 2 of 4 files: one path the beginning of another, one with a newline, a symbolic link with a time before 1970; the last journal cut anywhere |
| `history` | TypeOK, HistoryRight, HistoryEnds | 4 years of 2 months of 2 days, Nyears 2, 3 dumps |

The bounds: a hazard of the backup needs a run that leaves something wrong, a run
that believes it, and an edit or a fault in each; three days, three versions and two
faults give room for one of each more.  Files do not influence each other except
through the journal's own line and a directory they share: one file and its
directory, or two files in different directories, show both.  Four seconds are the
fewest that have two seconds in a day, and the day after, and one more.  Two runs that
overlap can be on one day or on two, with the run before on a third.  A pipe that
holds one of three chunks is full and empty in turn.  A step of 24 hours misses a day
only next to a clock change, and three days hold one of each.  A year of two months of
two days has a first, a last and a neighbour of each; the year before the last one
that Nyears allows has dumps that must not be found.

Runs that TLC refutes, each a disagreement between the code and what the repository
says of it (quoted in `PROJECT.json`):

| run | what it shows |
|---|---|
| `retry_skips_subtree` | after a failed first backup, the same command again exits 0 without the subdirectories |
| `remote_pass_lost` | PASS3 or PASS4 fails; the next run passes and leaves out every unchanged file |
| `long_user` | a user name of more than eight characters cuts the end off the directory that chkRemoteSrc() has checked |

Met while modelling and not among the runs; the property named is the one to leave in
the configuration.  In the local run:

* with `DayOf <- ThreeDays` and `SameDayRuns = FALSE` in `local_retry`,
  `NoFalseRefusal` is refuted: a run past midnight dates its journal the next day,
  whose first run is then refused as the second of its day (`backupfs-local.c:288`;
  `backupfs.man:46-48` promises one dump a day);
* with `torn` in the `Faults` of `local_faults`, `SnapshotComplete` is refuted: a run
  whose tar cut a copy short exits 1 and leaves its journal, and the next one links
  the copy and exits 0 (`main-local.c:141`);
* with `crash` in `Faults` and `OncePerDay = FALSE`, `FirstRunComplete` is refuted: a
  run killed while tar copies over what an earlier run of the day left has stamps of
  files that were not copied, and the next day links the old ones (`backupfs.c:190`);
* with `Files <- TopFile`, `Parent <- TopFileParent`, `DayOf <- ThreeDays` and
  `MaxFaults = 2` in `local_retry`, `FirstRunComplete` is refuted: a write fails after a
  file was linked, the file is edited, and tar fails in the next run of the day, which
  exits 1 but keeps its journal.  That has the new stamp of a file whose dump is still
  the old link, and the next day links it and exits 0 (`main-local.c:141`);
* with two files in the source itself, no directory, and `{"write", "unlink"}` and 2 for
  `Faults` and `MaxFaults` in `local_retry`, `FirstRunComplete` is refuted: a first backup
  fails because one file changed while tar read it, and what it copied stays; the other
  file is edited, and the same command again has written its new stamp, and the journal's
  own line, when a write fails, and moveFile() cannot unlink the new journal and returns
  (`file.c:233`).  The next day goes by it, links the old copy and exits 0;
* in `Overlap`, `JournalLeft` without its condition on `FirstFailed` is refuted: the second
  run moves the journal aside while the first, a first backup, has it in tar's list; tar
  fails, the second is refused and gives the journal back, and the first unlinks the name
  (`main-local.c:141`).  It may unlink the journal of one that ended well, too;
* in `Overlap`, a recurrent run ends with status 1, its dump complete, for no other reason
  than that a second one moved its journal before tar came to it (`backupfs.c:262`);
* in `Overlap`, `JournalSound` without its condition on `Writers` is refuted: a run
  past midnight and the next day's write one inode, or the late one's line dates its
  journal a day that another run dumped;
* in `Overlap` with three runs and `MaxDay = 4`, `JournalSound` and `RunsComplete` are
  refuted by what comes of that: the run of day 2 unlinks the journal, that of day 3
  finds none, and both write one inode.  The file is edited after the second has dumped
  it and before the first visits it, so the journal, dated day 3, has a newer stamp than
  the dump of day 3.  The run of day 4 takes the file for unchanged, links the old copy
  and exits 0 (`backupfs.c:115`).

In the remote run:

* with `MaxFaults = 0`, `DayOf <- ThreeDays` and `SameDayRuns = FALSE` in
  `remote_retry`, `SnapshotComplete` is refuted: after a run past midnight the
  client names a day that has no dump, the next run links nothing, and every pass
  passes (`backupfs-remote.c:121`);
* with `Lead = 1`, the server's clock ahead, and a calendar of a second more,
  `NoStaleEntry` is refuted: an older version is linked under a new date
  (`backupfs-mklink.c:185`);
* in `remote_faults`, `JournalSound` without `Cut` is refuted, and so it is for PASS5 what
  `torn` is for the local run: the journal is final when tar is cut off in the middle of a
  file, no later run can tell, and each links the part (`backupfs-local.c:412`);
* with `"unlink"` in the `Faults` of `remote_retry`, `SnapshotComplete` is refuted: a write
  fails in PASS2, the new journal cannot be unlinked and stays, and the next run takes its
  files for dumped, links nothing, and every pass passes (`file.c:233`);
* doRemote() returns 0 whichever pass failed (`backupfs-local.c:423`).

In the pipelines:

* SIGCHLD is left blocked: execPipe() keeps the old mask in `svMask` and nothing sets
  it again (`file.c:727`);
* started with SIGCHLD ignored, execPipe() asks for its children's statuses for ever
  (`file.c:623`), which is why `CallEnds` has a condition.

In newfiles, and so in the conditions of its properties:

* a last dump on a day of 23 hours may be passed over, and in the last hour of a day of
  25 the program compares a dump with itself (`newfiles.c:195`, `LastDayFound`);
* a day that has another source's dump only ends the search, and the program then
  stops because that day has no journal (`newfiles.c:199`);
* a path with a newline, which the `BUGS` file mentions, leaves lines that are no
  paths, and two of them may be alike and fail the journal (`ReadBack`);
* a file that tar missed last time is in that journal and is not new when tar has it
  (`Missed` in `ReportRight`).

`FreshStamps` (and its like in RemoteBackup) says that no file changes twice in the
second its stamp counts: stamps are all the code compares, and two changes in a
second cannot be told apart by any program that does so.

### Fairness

`EveryRunEnds` assumes weak fairness of a started run's own steps (`Run`): the
operating system schedules a process that can go on, and tar reads and writes.  The
clock, the users and the start of a run have no fairness.  `CallEnds` assumes it of
each of the three processes of a pipeline; not of ^C, nor of a command's failure, nor
of the inherited child, which may never end.  `HistoryEnds` assumes it of the one process.
`Overlap` and `NewFiles` state no liveness: a run's own steps are those of `LocalBackup`,
and newfiles goes back a fixed number of days and through a finite walk.

Deadlock is not checked: behaviours end when the clock and the runs are used up.

## 4. What is proved

Of the local run:

* `LocalBackupProofs!Typing`: `Spec => []TypeOK`, for all constants.
* `JournalProofs!JournalIsSound`: `Spec => []JournalSound`, assuming `Careful`.
* `JournalProofs!JournalInvariant`: `Spec => []JournalInv`, assuming `Careful`.
* `JournalProofs!DumpsAreWriteOnce`: `Spec => WriteOnceDumps`, assuming `Careful`:
  the run implements `DumpFs`.
* `LocalBackupProofs!JournalIsKept`: `Spec => []JournalPreserved`, for all constants.
* `LocalBackupProofs!RefusalIsRight`: `Spec => []NoFalseRefusal`, assuming `SameDayRuns`.
* `SnapshotProofs!SnapshotIsComplete`: `Spec => []SnapshotComplete`, assuming `Careful`.
* `SnapshotProofs!NextRunLinks`: `Spec => []NextRunCanLink`, assuming `Careful` and
  `SameDayRuns`.
* `SnapshotProofs!FirstRunInvariant`, `FirstRunIsComplete` and `FirstRunLinks`:
  `Spec => []FirstInv`, `Spec => []FirstRunComplete` and `Spec => []NextRunCanLink`,
  assuming `MadeGood`, with any number of runs a day.

The constants are any finite or infinite sets of files and directories, any tree,
any monotone calendar, any bounds and any set of fault kinds, under the named
assumptions of `LocalBackup`.  `ReachAssumption`, there, in `RemoteBackup` and
in `Overlap`, is the one that says what a tree is:
a set of directories that holds the source and every directory whose parent it holds
is all of them.  That is what makes them a tree below the source; TLC evaluates it on
the trees of the runs.
`SameDayRuns` is that no run lasts past midnight; section 3 has the run without it
that is refused wrongly.  `Careful` is: at most one run a day, no file changed
twice in a second, and no copy cut short without its stamp changing (`torn`).  It
cannot be dropped: the killed run and the copy cut short of section 3 are behaviours
without its first and last conjunct.

`JournalSound` is not inductive.  What a line of the new journal says becomes a
promise about the dump only after tar has run, and may be read two runs later.  The
invariant `JournalInv` adds: no line is ahead of its file's stamp, no stamp ahead of
the clock (`LinesPast`, `StampsPast`), so that a later edit always tells; the run's
stamps are of its day or later (`RunStamps`) and dumps of days to come are empty
(`FutureEmpty`), so that a journal dated after midnight points at an empty dump
until the run of that day replaces it; a run starts with an empty dump
(`CleanStart`), meets each file once (`OnceEach`) below directories it made
(`ParentsMade`), so that nothing is overwritten; its lines are true of its own dump
whatever day they are dated (`NewLinesSound`); it links from the day its old journal
was written for (`LastDay`), and what it may link is held by the source during the
run (`LinksFresh`).  `JournalProofs` has one lemma per action, each with one step per
conjunct the action disturbs; actions that change nothing the invariant reads share a
lemma.  `DumpsAreWriteOnce` maps each step: ChkDest to Begin, MakeLink and TarCopy to
Put, TarRaced to ChangeAndTear, Edit to Change, Gone to End, the others to stutters.

`JournalPreserved` needs to know where the journal that was found is at every step
(`OldIsKept`: under its own name, or set aside), and that a journal which is not
there has no lines (`NoGhostLines`): `KeptInv`.  For `NoFalseRefusal`, `DatedInv`
says that a run which stays in its day dates its journal that day (`TodaysRun`), and
that a journal with a date has a dump of that date (`DatedDumps`), whatever was
killed, lost or given back on the way.

`SnapshotComplete` is about the end of a walk that anything may have interrupted.
`SnapInv` says that nothing is lost on the way (`NothingLost`): each entry of a
directory the run has entered is still to be returned, or entered itself, or in hand,
in tar's list or dumped, or was absent for a while; and a file nobody touched has its
line or will have it.  When the walk is over nothing is to be returned, so every
directory is entered (`AllEntered`, by `ReachAssumption`), and tar leaves nothing in
its list when it succeeds.  `NextRunCanLink` follows from that, `JournalInv` and
`DatedInv`.

With several runs a day the dump a run writes into may hold what a run that gave up
left there, and `JournalInv` does not hold.  `MadeGood` is: no run lasts past midnight,
no file changes twice in a second, no process is killed and no line is lost at a flush
(`crash`, `close`, `torn`), and either one call fails at most or, if `write` is among the
kinds, `tar` and `unlink` are not.  Section 3 has the killed run, the copy cut short, and
the write and the tar, or the write and the unlink, that both fail; without the first two conjuncts the stamps do not tell what
they are to tell.  Under `MadeGood` such leftovers do no harm
(`RetryInv`).  Dates are in order: a run, its journal and the day agree, and a
journal that is read is of an earlier day (`OneDate`).  The first run of a day starts
with an empty directory (`NothingYet`); nothing is dumped or returned but in a
directory that was made, and once (`ParentsThere`, `OneVisit`), so a directory that
exists is passed over whole and what is in it gets no line.  A journal a run may read
is kept by its dump (`Redeemed`): a file it vouches for is there in that version, or not
there at all, in which case it cannot be linked.  A journal being written gets there
(`PromisesKept`), for which tar has to replace the links an earlier run of the day
left: `LinksReplaced` says that where there are any which this run has not made itself,
tar leaves nothing out any more (`TarSure`), because what left them was the
one fault there is.  `ThrownAway` says the same of a new journal: if it has a date when
the run gives up, the write that failed was that one fault, and moveFile() throws the
journal away (`RestoreSure`); one without a date no run links from.  `NothingLost` and what follows from it is then the same as with
one run a day, and the same lemmas prove it (`InHandNext`, `FinishComplete`,
`FinishCanLink`, `CompleteStays`), which assume only what both invariants have.

Of the pipelines, in `ExecPipeProofs`, for any jobs, number of chunks, size of the
pipe, set of faults and number of ^C:

* `CallTyping`: `Spec => []TypeOK`;
* `PassedIsRight`: `Spec => []PassedMeansAllRead`;
* `EndsAreInPlace`: `Spec => []EndsInPlace`;
* `NoneIsLeft`: `Spec => []NoChildLeft`;
* `InterruptReaches`: `Spec => []InterruptWorks`;
* `WordsGetThere`: `Spec => []FarAsMeant`.

The first five share one invariant, `PipeInv`.  That everything was read follows from
the exit statuses only through who could still write when cmd2 saw the end of its input, and
that from where every copy of the write end is.  So `Forked` says what has been forked
where the parent is (it never passes a fork twice, and cmd2 is not born without a
pipe); `Plumbing` who holds which end, from pipe() through the dup2() and close() of
each child to its exec, with any two descriptors; `Drained` that what was written is
in the pipe or read, that cmd1 ends well only when it has written all, and that cmd2
ends well only with an empty pipe and no writer left (`NoWriter`), which is kept
because nobody can get a write end back.  `Collected` ties the statuses that wait()
returned to the children they are of, so that the verdict (`Judged`) is about them,
and says that after the loops no child is there.  `Restored` is about ^C.  Each is
kept by each group of actions (`Groups`), one lemma for each conjunct.

`FarAsMeant` is about the operators of `Commands`, for operands of any length
(`PipeAssumption` says no more of them than that they are sequences of symbols).  The
places behind the words of a joined line grow with the words (`Placed`, by induction over
the words), there are as many as words, and the n-th of them in order is the n-th
(`Counted`, `NthIs`); so the split of a joined line gives back its words if none has a
blank (`SplitsBack`), an empty one too.  That is applied three times: to the line of the
pass (`WholeLine1`, where the eight characters come in), to what ssh joins again behind
the host (`WordsAre`), and to the line of the command here (`HereWords`).  `LetIn` goes
through the passes: the shell lets each in, and the names are those of the run.  `Given`
says that no step changes the words.

Of the remote run, in `RemoteProofs`:

* `RemoteTyping`: `Spec => []TypeOK`, for all constants;
* `RemoteInvariant`: `Spec => []RemoteInv`, assuming `Careful`;
* `RemoteJournalIsSound`: `Spec => []JournalSound`, assuming `Careful`;
* `RemoteEntriesFresh`: `Spec => []NoStaleEntry`, assuming `Careful`;
* `RemoteWriteOnce`: `Spec => WriteOnceDumps`, assuming `Careful`: the passes together
  implement `DumpFs`;
* `RemoteSnapshotInvariant` and `RemoteSnapshotIsComplete`: `Spec => []SnapInv` and
  `Spec => []SnapshotComplete`, assuming `MadeGood`;
* `RemoteJournalPreserved`: `Spec => []JournalPreserved`, for all constants.

`Careful` is here: the hosts' clocks agree, and isDirEmpty() can open the directory of
the day.  Nothing is assumed of the number of runs a day, of the faults of the passes
or of when a run is killed, in the middle of a file too.  The first conjunct cannot be
dropped (section 3), nor the second: a directory that is taken for empty is written twice.

What a kill in the middle of a file costs is in the property instead: `JournalSound` lets a
copy that the journal vouches for be `Cut`, a part of the version that the client still
has, since the code cannot tell it from the whole (section 3).  It does not let it be an
older version or a mixture, and nothing but a PASS5 cut short makes a `Cut`.  The local run
has no such exception; there `torn` is excluded by `Careful`.

A journal of the client is believed by a later run although the server, which holds
the copies, may have stopped at any pass, so neither JournalSound nor NoStaleEntry is
inductive.  `RemoteInv` says of the clock what `JournalInv` does (`LinesPast`,
`RunStamps`); that the dumps of days to come, and the run's own before PASS4, are
empty (`FutureEmpty`), which replaces one run a day; that a run reads the journal of
the last one only where it is (`LastJournal`); that the walk sees an entry once, below
directories it has entered (`EntersOnce`), so that a file is in one list at most and
only as long as it has no entry (`OneWay`); that what a new line says is true of the
dump the run is making and of the one it links from (`NewLinesSound`), and that what it
will link the client held during the run (`LinksFresh`).  For the refinement, PASS1
that makes the directory of the day is Begin, a link of PASS4 or a copy of PASS5 is
Put, an edit is Change, the end of a run is End, and the rest stutters.
JournalPreserved needs, as in the local run, to know where the journal that was found
is at each step (`Kept`).

`MadeGood`: the clocks agree, no run lasts past midnight, and only calls before the
journal is final fail (`Retriable`, which has the directory that isDirEmpty() takes for
empty), but not the stat() and unlink() of moveFile(), kind `unlink`, which leave the new
journal of a PASS2 that failed.  None of this can be dropped: section 3 has the run past
midnight and the journal that stays, and `remote_pass_lost` is a failure after the journal
is final.  `SnapInv` says what the
passes hand on.  A journal a run may read is made good (`Redeemed`): what it vouches for
is in the dump of its day, and no later day has a dump.  The one being written is on the
way there (`PromisesKept`): what it vouches for is to be copied, or to be linked from a
dump that has it, or dumped.  What is to be linked is in the last dump, as the client
held it during the run, and in its place there is nothing, or the same link of a run
before (`LinksWait`), in a directory that PASS3 makes before what is in it
(`ParentsFirst`); so no link fails unseen.  `NothingLost` is as in the local run.

Of overlapping runs, in `OverlapProofs`, for any tree, number of days and versions:

* `OverlapTyping`: `Spec => []TypeOK`, and `JournalIsLeft`: `Spec => []JournalLeft`,
  for any set of runs (of which none makes or moves a journal between the stat() and the
  unlink() of a refusal, section 2);
* `OverlapInvariant`, `OverlapJournalIsSound` and `OverlapRunsAreComplete`:
  `Spec => []OverlapInv`, `Spec => []JournalSound` and `Spec => []RunsComplete`,
  assuming `AtMostTwo`: there are no more than two runs besides the one that was over
  before.  With three both properties are false (section 3).

The journal's name may be without a journal while a run that set it aside has it.
`LeftInv` says that if any run has left one, and no first backup has failed, the name has
it or some run is on the way to give it one (`WillLeave`), and that what a run set aside is
an inode.  Each step of a run either takes the name from a journal it can give back, gives
the name one, or leaves both alone, or is the end of a first backup that failed
(`StepMoves`), whatever the others did in between.  That end removes whichever journal
there is, and section 3 has what it costs; so `JournalLeft` is about runs without it.
`RunsComplete` is also about a run that tar failed in, as only the journal can be what
failed: its dump has every file all the same.

`JournalSound` and `RunsComplete` say something only when all are over; `OverlapInv`
says what holds meanwhile.  The dump of a day *keeps* some lines (`Kept`) if every file
that still has the stamp of its line is in that dump in that version, or not there, or
still in a list of tar.  `WrittenKept`: the dump of day d keeps the lines of a journal
that only runs of day d have written.  `UnwrittenKept`: a journal nobody writes is kept
by the dump of the day it is of; `TreesKept`: so is what a run read, with nothing left
to tar, and therefore a link takes the right version (`DumpStep`).  The hard step is
the one by which a journal that another run has open is read or copied (`ReadKept`): it
may be dated another day than the dump its writer makes.  Then the dump of that day has
nothing: what is dumped was dumped by a run of that day (`DumpedOnce`), the reader has
not begun to, and there is no third.  Day 1 is not that day, as no journal that is open
has its date (`Dates`), and what was copied aside is its run's alone (`CopiesAside`).
For `RunsComplete`, `InHand` says that what is below a directory that was made is itself
made, to be done by some run of the day, or dumped in a version no older than its start;
when all are over nothing is to be done, and by `ReachAssumption` every directory was
made.

Of backupfs-hist, in `HistoryProofs`, for any calendar, dumps and directories:

* `HistoryTyping`, `HistoryInvariant` and `HistoryIsRight`: `Spec` implies `[]TypeOK`,
  `[]HistoryInv` and `[]HistoryRight`.

`DecrementFacts` says of decrementDate() that it goes to an earlier date of the reach,
that no dump is between, and that it stops only if none is left.  The jumps are to the
greatest month or year that has a directory, which exists because integers below a
bound are well-founded downwards (`MaxFacts`).  `HistoryInv` says that the version
followed is that of the earliest dump gone past (`FollowsLast`) and that of the dumps
gone past all changes but that one are printed, newest first (`PrintsPassed`); whether
that one is a change is known at the next dump, or when there is none (`Followed`).

Of newfiles, in `NewFilesProofs`, for days of any lengths, any files, paths and stamps,
and a journal whole or cut anywhere:

* `NewFilesInvariant`: `Spec => []NewFilesInv`;
* `TypeCorrect`, `LastDayIsFound`, `ReportIsRight` and `ChangesAreHiddenByCuts`: `Spec`
  implies `[]TypeOK`, `[]LastDayFound`, `[]ReportRight` and `[]ChangeHidden`;
* `JournalReadBack` and `HiddenFilesArePrefixes`: `Spec => []ReadBack` and
  `Spec => []HiddenByPrefix`, assuming `NoFalseLines`.

A day that a step of 24 hours passes over has fewer units than the step
(`PassedIsShort`), and one that it stays on has more (`StayedIsLong`); `SearchInv` says
that the days behind the search which have a directory are all short.  `DiskInv` says
that each file of a dump has a line in the text its journal was written with, and
`WalkInv` that what was printed and what is still to be are together what is to be
reported, of a tree that is the one of that text.

The rest is about the text.  What recurrentBackup() writes is its lines one behind the
other (`Stacked`, from `Flattened`), so where a line begins in a text of any length a
written one begins, or what is behind a newline in the path of one (`LineAt`, `Piece`).
A piece that strtol() and makeJournalTree() take for a line with a path below the source
is then a beginning of a written line (`ReadWritten`), all of it if nothing was cut and no
path has a newline (`WholeLine`), and each written line is read (`ReadPresent`,
`ReadPlain`).  `NoFalseLines` is: no path has, behind a newline, what reads as the line of
another path.  Without it `ReadBack` and `HiddenByPrefix` are false, as TLC shows with a
file whose name is a newline and the text of a line for another file;
the other properties do not need it, and TLC evaluates it on the paths of the run.

Induction over numbers goes through the set of the numbers for which something holds
(`Induction`, from the well-foundedness of the naturals), and so do the values of a
recursive function (`Recursion`, `JoinedIs`).

Only model-checked: the liveness properties `EveryRunEnds`, `CallEnds` and `HistoryEnds`,
which the proof system cannot do under fairness.  Every safety property of a run that
passes has its theorem, under the assumptions named above.

## 5. Plan

Done: `LocalBackup`, `DumpFs`, `ExecPipe` with `Commands`, `History`, `RemoteBackup`,
`JournalFile`, `NewFiles`, `Overlap`; the theorems above.

Next, in this order:

1. Proofs: three overlapping runs, if those under way together are of one day.
2. Directory modes and owners across chkDest, newDirectory and backupfs-mkdir.
3. Two sources of a host with one `dest`, as the cron script has them, sharing the
   directories of a day while both run.
4. A client that goes on alone beside a new remote run, and the names of its files.

### Not modelled

* makeSshKey: it makes a path and corrects the mode of one file, and no other part
  reads what it decides.
* error.c and platform.h: messages and constants.  That errSysExit() leaves without
  putting anything right is in the models.
* The Makefile and the cron script: how the programs are built and how often they are
  started; the models start a run at any time.
* The balancing of the path tree, and its remove, size and walk, which nothing here
  calls.  Its insert and find are in `JournalFile`.
* getline.c, which is compiled only where the C library has no getline().
* Command lines beyond MAXARGS words or their buffers, chkRemoteSrc's apart.
