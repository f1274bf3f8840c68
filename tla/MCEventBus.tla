----------------------------- MODULE MCEventBus -----------------------------
(* Instance of EventBus for TLC: a ring of two, so that gaps occur within a  *)
(* few frames; buffers of up to four frames, so that both watermarks matter. *)
EXTENDS EventBus, TLC

Symmetry == Permutations(Conns)
=============================================================================
