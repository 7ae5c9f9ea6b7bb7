----------------------------- MODULE MCNewFiles -----------------------------
\* Files whose paths begin each other, one with a newline, one a symbolic link.
EXTENDS NewFiles

MCJPath == <<"/", "j">>
Short == <<"/", "p">>
Long == <<"/", "p", "q">>
TwoLines == <<"/", "p", NL, "c">>
SymLink == <<"/", "s">>
MCFiles == {Short, Long, TwoLines, SymLink}
MCNotRegular == {SymLink}
MCWalkOrder == <<SymLink, MCJPath, Long, TwoLines, Short>>
MCStampOf == [p \in MCFiles \cup {MCJPath} |->
                CASE p = Short -> <<"1", "2">>
                  [] p = Long -> <<"2", "1">>
                  [] p = SymLink -> <<"2", "neg">>
                  [] OTHER -> <<"1", "1">>]

\* An ordinary day, one of 23 hours and one of 25.
MCDayOf == <<1, 1, 2, 3, 3, 3>>

ASSUME MCAssumption == NoFalseLines
=============================================================================
