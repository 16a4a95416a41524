------------------------------- MODULE MCFile -------------------------------
EXTENDS File, TLC

\* No operator chooses among processes or among file entries.
Symmetry == Permutations(Procs) \cup Permutations(Files)
=============================================================================
