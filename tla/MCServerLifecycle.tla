------------------------- MODULE MCServerLifecycle --------------------------
(* Two workers, a queue of two, three connections, two signals. *)
EXTENDS ServerLifecycle
=============================================================================
