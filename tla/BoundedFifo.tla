----------------------------- MODULE BoundedFifo -----------------------------
(***************************************************************************)
(* What the connection queue of stock_server.c promises: a first-in        *)
(* first-out queue of at most Capacity descriptors between one producer    *)
(* (the accept loop) and a set of consumers (the workers).  A call is two  *)
(* steps: it begins, and later takes effect.  Insert waits while the queue *)
(* is full, Remove waits while it is empty.  ConnQueue implements this.    *)
(***************************************************************************)
EXTENDS Naturals, Sequences

CONSTANTS Consumers, Values, Capacity, NoValue

VARIABLES
  queue,    \* the descriptors inserted and not yet removed, oldest first
  offer,    \* what the producer's pending Insert carries, or NoValue
  waiting,  \* the consumers whose Remove has begun and not taken effect
  taken     \* what each consumer's last Remove returned

vars == <<queue, offer, waiting, taken>>

Init ==
  /\ queue = <<>>
  /\ offer = NoValue
  /\ waiting = {}
  /\ taken = [c \in Consumers |-> NoValue]

BeginInsert(v) ==
  /\ offer = NoValue
  /\ offer' = v
  /\ UNCHANGED <<queue, waiting, taken>>

Insert ==
  /\ offer # NoValue
  /\ Len(queue) < Capacity
  /\ queue' = Append(queue, offer)
  /\ offer' = NoValue
  /\ UNCHANGED <<waiting, taken>>

BeginRemove(c) ==
  /\ c \notin waiting
  /\ waiting' = waiting \cup {c}
  /\ UNCHANGED <<queue, offer, taken>>

Remove(c) ==
  /\ c \in waiting
  /\ queue # <<>>
  /\ taken' = [taken EXCEPT ![c] = Head(queue)]
  /\ queue' = Tail(queue)
  /\ waiting' = waiting \ {c}
  /\ UNCHANGED offer

Next ==
  \/ \E v \in Values : BeginInsert(v)
  \/ Insert
  \/ \E c \in Consumers : BeginRemove(c) \/ Remove(c)

Spec == Init /\ [][Next]_vars
=============================================================================
