----------------------------- MODULE AtomicStore -----------------------------
(***************************************************************************)
(* What the stock server promises its clients about concurrent requests:   *)
(* each request takes effect at one instant between its arrival and its    *)
(* answer, and the answer tells what happened at that instant.  A request  *)
(* that fails, and one that only reads, leaves the store as it was.        *)
(* StockTrading implements this.                                           *)
(***************************************************************************)
EXTENDS StockRequest

CONSTANTS Servers, Lines, Stores, NoLine

VARIABLES
  store,     \* stock id -> quantity
  pending,   \* the line each server is working on, or NoLine
  reply      \* what it will answer, once its request has taken effect

vars == <<store, pending, reply>>

NoRows == [i \in {} |-> 0]
Answer(status, rows) == [status |-> status, rows |-> rows]
NoReply == Answer("NONE", NoRows)

\* The four shapes of a well-formed line.
Says(line, verb, length) == Len(line) = length /\ line[1] = Word(verb)
HasInt(line, k) == line[k].kind = "int" /\ line[k].value \in Ints
ListsAll(line) == Says(line, "show", 1)
ListsOne(line) == Says(line, "show", 2) /\ HasInt(line, 2)
Trades(line, verb) ==
  /\ Says(line, verb, 3) /\ HasInt(line, 2) /\ HasInt(line, 3)
  /\ line[3].value > 0
Leaves(line) == Says(line, "exit", 1)

Outcome(status, s, rows) == [store |-> s, reply |-> Answer(status, rows)]
Fails(status) == Outcome(status, store, NoRows)

\* What one request does to the store, and what it answers.
Effect(line) ==
  LET id == line[2].value
      n == line[3].value
  IN  CASE ListsAll(line) -> Outcome("OK", store, store)
        [] ListsOne(line) ->
             IF id \in DOMAIN store
             THEN Outcome("OK", store, [i \in {id} |-> store[i]])
             ELSE Fails("NOT_FOUND")
        [] Trades(line, "buy") ->
             IF id \notin DOMAIN store THEN Fails("NOT_FOUND")
             ELSE IF store[id] < n THEN Fails("INSUFFICIENT")
             ELSE Outcome("OK", [store EXCEPT ![id] = @ - n], NoRows)
        [] Trades(line, "sell") ->
             IF id \notin DOMAIN store THEN Fails("NOT_FOUND")
             ELSE Outcome("OK", [store EXCEPT ![id] = Wrap(@ + n)], NoRows)
        [] Leaves(line) -> Outcome("OK", store, NoRows)
        [] OTHER -> Fails("INVALID")

Init ==
  /\ store \in Stores
  /\ pending = [w \in Servers |-> NoLine]
  /\ reply = [w \in Servers |-> NoReply]

Request(w, line) ==
  /\ pending[w] = NoLine
  /\ pending' = [pending EXCEPT ![w] = line]
  /\ UNCHANGED <<store, reply>>

TakeEffect(w) ==
  /\ pending[w] # NoLine /\ reply[w] = NoReply
  /\ store' = Effect(pending[w]).store
  /\ reply' = [reply EXCEPT ![w] = Effect(pending[w]).reply]
  /\ UNCHANGED pending

Respond(w) ==
  /\ reply[w] # NoReply
  /\ pending' = [pending EXCEPT ![w] = NoLine]
  /\ reply' = [reply EXCEPT ![w] = NoReply]
  /\ UNCHANGED store

Next == \E w \in Servers :
  \/ \E line \in Lines : Request(w, line)
  \/ TakeEffect(w) \/ Respond(w)

Spec == Init /\ [][Next]_vars
=============================================================================
