---------------------------- MODULE MCDataRace ----------------------------
EXTENDS DataRace, TLC

\* The threads other than Main are interchangeable in MCDataRace.cfg.
Symmetry == Permutations(Threads \ {Main})
=============================================================================
