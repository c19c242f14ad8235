------------------------------ MODULE MCAskThread ------------------------------
(* The messages of one thread are interchangeable: nothing but `order`      *)
(* tells them apart.                                                        *)
EXTENDS AskThread, TLC

Interchangeable == Permutations(Msg)
=============================================================================
