----------------------------- MODULE MCAtomicFile -----------------------------
(* Instances of AtomicFile for TLC.                                        *)
EXTENDS AtomicFile, TLC

\* Calls with the same arguments are interchangeable; so are the contents.
MCSymmetry == Permutations(Writers) \cup Permutations(Contents)

=============================================================================
