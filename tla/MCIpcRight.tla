----------------------------- MODULE MCIpcRight -----------------------------
(* Port rights: a space with two names and one with one.                   *)
EXTENDS IpcRight, TLC

CONSTANTS A, B, a1, a2, b1

TwoAndOne == {<<A, a1>>, <<A, a2>>, <<B, b1>>}
Symmetry == Permutations({a1, a2})
=============================================================================
