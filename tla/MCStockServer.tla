---------------------------- MODULE MCStockServer ----------------------------
(* Two workers, a queue of one, two connections per life, three trades of two
   stocks over any number of lives. *)
EXTENDS StockServer, TLC

CONSTANTS a, b, t1, t2, t3
MCStockOf == t1 :> a @@ t2 :> b @@ t3 :> a
MCSymmetry == Permutations(Workers) \cup Permutations(Conns)
=============================================================================
