----------------------------- MODULE MCCircuit -----------------------------
\* Small circuits for TLC.
EXTENDS Circuit

RetriesUsed == {0, 1}
OneCloses == {0}
============================================================================
