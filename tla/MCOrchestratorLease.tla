------------------------ MODULE MCOrchestratorLease ------------------------
EXTENDS OrchestratorLease, TLC

\* Holder ids are interchangeable (random UUIDs); used by safety runs only.
Interchangeable == Permutations(Process)

============================================================================
