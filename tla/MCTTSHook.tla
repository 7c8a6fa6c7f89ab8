----------------------------- MODULE MCTTSHook -----------------------------
(* Small instances of TTSHook for TLC. *)
EXTENDS TTSHook, TLC

CONSTANTS sess1, sess2, t1, t2, t3

SwapAll == {p @@ q : p \in Permutations({sess1, sess2}), q \in Permutations({t1, t2, t3})}
=============================================================================
