---------------------------- MODULE MCStockStore -----------------------------
(* Three-bit ints; init files in every order and with every flaw; generations
   with logs; trades that empty, refill and overflow a stock. *)
EXTENDS StockStore

InitFile(lines) == [by |-> "init", stock |-> lines, log |-> <<>>]
Generation(lines, log) == [by |-> "given", stock |-> lines, log |-> log]

\* 9 is read as 1, and 12 as -4.
MCFiles ==
  { InitFile(<<Record(2, 1), Record(1, 3), Record(3, 0)>>),
    InitFile(<<Record(3, 2), Blank, Record(1, 0), Record(2, 1)>>),
    InitFile(<<>>),
    InitFile(<<Record(2, 1), Record(1, 0), Record(2, 1)>>),
    InitFile(<<Record(1, 1), Record(9, 2)>>),
    InitFile(<<Record(9, 1)>>),
    InitFile(<<Record(2, 1), Record(1, 12)>>),
    InitFile(<<Record(1, 1), Record(0, 1)>>),
    InitFile(<<Record(2, 1), Record(1, 1), Junk>>),
    InitFile(<<Record(1, 1), Log("BUY", 1, 1)>>) } \cup
  { Generation(<<Record(1, 1), Record(2, 2)>>, log) : log \in
      { <<Log("SELL", 1, 1), Blank, Log("BUY", 2, 2)>>,
        <<Log("SELL", 1, 3)>>,
        <<Log("BUY", 2, 1), Log("BUY", 1, 2)>>,
        <<Log("SELL", 3, 1)>>, <<Log("BUY", 1, 0)>>, <<Log("BUY", 0, 1)>>,
        <<Log("SELL", 2, 1), Junk>>, <<Record(3, 1)>> } }

MCTrades == [id : {1, 3}, delta : {-1, 2}]
=============================================================================
