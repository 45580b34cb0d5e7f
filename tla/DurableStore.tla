---------------------------- MODULE DurableStore -----------------------------
(***************************************************************************)
(* What the persistence of the stock server promises: a server starts from *)
(* the store an earlier one published, or from the init file if none has,  *)
(* and publishing replaces the published store in one step, which a        *)
(* failure in its midst leaves either done or not.                         *)
(* Persistence implements this.                                            *)
(***************************************************************************)
CONSTANTS Stores, InitStore, NoStore

VARIABLES
  durable,   \* the stores of which the next start may find any; NoStore: none
  live       \* the store of the running server, or NoStore

vars == <<durable, live>>

Init == durable = {NoStore} /\ live = NoStore

Start ==
  /\ live = NoStore
  /\ \E s \in durable : live' = IF s = NoStore THEN InitStore ELSE s
  /\ UNCHANGED durable

Trade ==
  /\ live # NoStore /\ live' \in Stores
  /\ UNCHANGED durable

Publish ==
  /\ live # NoStore
  /\ durable' = durable \cup {live}
  /\ UNCHANGED live

\* It becomes known which store is found: a publication is completed or lost.
Settle ==
  /\ durable' \in (SUBSET durable) \ {{}}
  /\ live' \in {live, NoStore}

Next == Start \/ Trade \/ Publish \/ Settle

Spec == Init /\ [][Next]_vars
=============================================================================
