----------------------------- MODULE StockTable ------------------------------
(***************************************************************************)
(* What the server does with the stocks on disk, whatever the shape of the *)
(* tree that holds them in memory: a start brings back what the files say, *)
(* all of it or nothing, trades change one quantity each, and a save       *)
(* leaves exactly the stocks in memory for the next start.                 *)
(* StockStore implements this.                                             *)
(***************************************************************************)
EXTENDS Integers

CONSTANTS
  Quantities,   \* the range of a C int
  NoTable,      \* nothing is in memory
  Refused       \* files that no start accepts

VARIABLES
  table,   \* stock id -> quantity, of the server that is running
  disk     \* what the files say: such a function, or Refused

vars == <<table, disk>>

Init == table = NoTable

Start ==
  /\ table = NoTable /\ disk # Refused
  /\ table' = disk
  /\ UNCHANGED disk

Trade ==
  /\ table # NoTable
  /\ \E i \in DOMAIN table, n \in Quantities : table' = [table EXCEPT ![i] = n]
  /\ UNCHANGED disk

\* A save of a negative quantity succeeds, and no start accepts it.  The save
\* at a shutdown is the server's last act.
Save ==
  /\ table # NoTable
  /\ disk' = IF \A i \in DOMAIN table : table[i] >= 0 THEN table ELSE Refused
  /\ table' \in {table, NoTable}

End == table # NoTable /\ table' = NoTable /\ UNCHANGED disk

Next == Start \/ Trade \/ Save \/ End

Spec == Init /\ [][Next]_vars
=============================================================================
