--------------------------- MODULE MCSpikeChannel ---------------------------
(* Model values for checking SpikeChannel with TLC: a payload of two words. *)
EXTENDS SpikeChannel

CONSTANT Body       \* everything in a payload but the stamp
=============================================================================
