------------------------ MODULE MCVersionPreparation ------------------------
\* Small instances of VersionPreparation.
EXTENDS VersionPreparation, TLC

\* Runs are alike.
Symmetry == Permutations(Runs)
=============================================================================
