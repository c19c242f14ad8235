----------------------------- MODULE MCTakeover -----------------------------
EXTENDS Takeover, TLC

\* Holder ids are interchangeable; used by safety runs only.
Interchangeable == Permutations(Process)

=============================================================================
