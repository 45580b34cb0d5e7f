--------------------------- MODULE MCStockTrading ----------------------------
(* Three-bit ints, a store of two stocks, and lines of every shape. *)
EXTENDS StockTrading, TLC

MCStores == {1 :> 2 @@ 2 :> 1}

\* Stock 1 can be bought out, refilled and overflowed; stock 2 only empties;
\* stock 3 does not exist; the last five lines are malformed, a blank line and an
\* unknown verb among them.
MCLines ==
  LET Trade(verb, id, n) == <<Word(verb), Number(id), Number(n)>>
  IN  { <<Word("show")>>, <<Word("show"), Number(1)>>, <<Word("exit")>>,
        Trade("buy", 1, 2), Trade("sell", 1, 2), Trade("buy", 2, 1),
        Trade("sell", 3, 1),
        Trade("buy", 1, 0), Trade("sell", 1, 4),
        Trade("buy", 1, 1) \o <<Number(1), Number(1)>>,
        <<>>, <<Word("quit"), Number(1)>> }
=============================================================================
