----------------------------- MODULE MCConnQueue -----------------------------
(* A ring of two slots between main and three workers. *)
EXTENDS ConnQueue
=============================================================================
