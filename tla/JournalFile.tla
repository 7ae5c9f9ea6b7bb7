----------------------------- MODULE JournalFile -----------------------------
(***************************************************************************)
(* The text of .backupfs-journal: how firstTimeBackup() and                *)
(* recurrentBackup() write a line of it and how makeJournalTree() reads it *)
(* back into a tree of paths.  LocalBackup and RemoteBackup treat a        *)
(* journal as a map from paths to stamps; this module is what that rests   *)
(* on, and where it stops: a path with a newline, a text cut short, a      *)
(* stamp before 1970.                                                      *)
(*                                                                         *)
(* A text is a sequence of symbols.  One symbol stands for a whole time as *)
(* "%08lx" prints it; "neg" for the sixteen digits of a time before 1970.  *)
(***************************************************************************)
EXTENDS Integers, Sequences, FiniteSets, FiniteSetsExt, SequencesExt

NL == "newline"
Blank == "blank"
Times == {"1", "2", "neg"}
HexDigits == Times \cup {"c"}        \* "c" is a letter of paths too

\* A line is written for every entry of the walk, linked or listed for tar.
LineOf(e) == <<e.ctime, Blank, e.mtime, Blank>> \o e.path \o <<NL>>
TextOf(entries) == FlattenSeq([i \in DOMAIN entries |-> LineOf(entries[i])])

\* getline(): a line ends at each newline, and where the text ends.
LineEnds(text) == {i \in DOMAIN text : text[i] = NL \/ i = Len(text)}
LineStart(text, i) == 1 + Max({j \in 1..(i - 1) : text[j] = NL} \cup {0})

\* buf[rdlen-1] = '\0': the last symbol is dropped, newline or not.
Kept(text, i) == SubSeq(text, LineStart(text, i), i)       \* mutant: nothing is dropped
Chopped(text, i) == SubSeq(text, LineStart(text, i), i - 1)

\* The first place from k on that holds none of the symbols S.
Past(line, k, S) == Min({j \in k..Len(line) : line[j] \notin S} \cup {Len(line) + 1})

\* strtol(..., &s, 16): blanks, then digits; s stays where it was if there are
\* none.  A number of sixteen digits does not fit a long.
Strtol(line, k) ==
    LET from == Past(line, k, {Blank})
        to == Past(line, from, HexDigits)
        digits == SubSeq(line, from, to - 1)
    IN CASE digits = <<>> -> [value |-> <<>>, s |-> k]
         [] digits = <<"neg">> -> [value |-> <<"LONG_MAX">>, s |-> to]
         [] OTHER -> [value |-> digits, s |-> to]

\* Two numbers; ++s passes over one symbol, whatever it is; the rest is the path.
ReadLine(line) ==
    LET ctime == Strtol(line, 1)
        mtime == Strtol(line, ctime.s)
    IN [path |-> SubSeq(line, mtime.s + 1, Len(line)),
        ctime |-> ctime.value, mtime |-> mtime.value]

\* stringRBTinsert() takes a path once: a second line for it fails the journal.
Readable(text) ==
    \A i, j \in LineEnds(text) :
        ReadLine(Chopped(text, i)).path = ReadLine(Chopped(text, j)).path => i = j

JournalTree(text) ==
    LET lines == {ReadLine(Chopped(text, i)) : i \in LineEnds(text)}
    IN [p \in {l.path : l \in lines} |-> CHOOSE l \in lines : l.path = p]

\* recurrentBackup(): the entry is in the tree, with the stamps lstat() gives.
Unchanged(tree, e) == /\ e.path \in DOMAIN tree
                      /\ tree[e.path].ctime = <<e.ctime>>
                      /\ tree[e.path].mtime = <<e.mtime>>
=============================================================================
