------------------------------ MODULE MCBackup ------------------------------
EXTENDS Backup, TLC
MCSymmetry == Permutations(Contents) \cup Permutations(Artifacts)
=============================================================================
