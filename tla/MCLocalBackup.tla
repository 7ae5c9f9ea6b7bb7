--------------------------- MODULE MCLocalBackup ---------------------------
(***************************************************************************)
(* Instances of LocalBackup for TLC: file a in the source directory, file  *)
(* b in its subdirectory sub.                                              *)
(***************************************************************************)
EXTENDS LocalBackup, TLC

CONSTANTS a, b, sub

MCFiles == {a, b}
MCDirs == {sub}
MCParent == (a :> Root) @@ (b :> sub) @@ (sub :> Root)

TopFile == {a}
TopFileParent == (a :> Root) @@ (sub :> Root)

OneFile == {b}
OneFileParent == (b :> sub) @@ (sub :> Root)

\* Two seconds on the first day, then a second on each of two days.
ThreeDays == <<1, 1, 2, 3>>

\* Two seconds on each of two days.
TwoDays == <<1, 1, 2, 2>>
=============================================================================
