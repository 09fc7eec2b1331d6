---------------------------- MODULE MCStonewall ----------------------------
\* TLC's instances of Stonewall; the values are in the .cfg files.
EXTENDS Stonewall, TLC

\* No action tells one thread from another.
Symmetry == Permutations(Threads)
=============================================================================
