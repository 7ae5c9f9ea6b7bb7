------------------------------ MODULE MCOverlap ------------------------------
\* One file, b, in a subdirectory of the source, sub.
EXTENDS Overlap, TLC

CONSTANTS b, sub

OneFile == {b}
OneFileParent == (b :> sub) @@ (sub :> Root)
MCDirs == {sub}
Interchangeable == Permutations(Runs)
==============================================================================
