---------------------------- MODULE StockTrading -----------------------------
(***************************************************************************)
(* The workers of stock_server.c serving requests against the one store    *)
(* behind store->mutex.  handle_client is a loop: read a line, parse and   *)
(* validate it, execute it, answer it.  Every access to the shared store   *)
(* is a step of its own, a full show one step per visited tree node, so    *)
(* that only the mutex keeps requests apart.  Prices never change after    *)
(* recovery and are left out; so is the tree's shape, which no request     *)
(* changes: the store maps the ids it holds to their left_stock.  Which     *)
(* connection a worker reads from is the subject of ConnQueue.             *)
(***************************************************************************)
EXTENDS StockRequest

CONSTANTS
  Workers,   \* the worker threads
  Lines,     \* the request lines clients send
  Stores,    \* the stores recovery may have loaded
  NoLine, Nobody

ASSUME TradingAssumption ==
  /\ Nobody \notin Workers
  /\ NoLine \notin Lines
  /\ \A s \in Stores : s \in [DOMAIN s -> 0 .. MaxInt]
  /\ \A line \in Lines : IsLine(line)

VARIABLES
  left_stock,   \* the store: id -> quantity
  mutex,        \* the worker holding store->mutex, or Nobody
  pc,           \* where each worker is in handle_client
  buf,          \* the line being served
  request,      \* what parse_request made of it
  status,       \* the stock_status_t of the request
  rows,         \* the rows appended to the response so far
  found         \* the quantity apply_delta read for its check

vars == <<left_stock, mutex, pc, buf, request, status, rows, found>>

Labels == {"reading", "parsing", "lock", "locked", "walking", "adding",
           "unlock", "respond"}
Statuses == {"OK", "NOT_FOUND", "INSUFFICIENT", "INVALID"}
Ids == DOMAIN left_stock
NoRows == [i \in {} |-> 0]

NoRequest == [command |-> "unknown", argc |-> 0, id |-> 0, count |-> 0,
              parse_error |-> 0]

delta(w) == IF request[w].command = "buy" THEN -request[w].count
            ELSE request[w].count

\* The variables have their types: every quantity and every parsed argument
\* fits a C int, overflow included.
TypeOK ==
  /\ left_stock \in [Ids -> Ints]
  /\ mutex \in Workers \cup {Nobody}
  /\ pc \in [Workers -> Labels]
  /\ buf \in [Workers -> Lines \cup {NoLine}]
  /\ request \in [Workers -> Requests]
  /\ status \in [Workers -> Statuses]
  /\ rows \in [Workers -> UNION {[D -> Ints] : D \in SUBSET Ids}]
  /\ found \in [Workers -> Ints]
-----------------------------------------------------------------------------
Init ==
  /\ left_stock \in Stores
  /\ mutex = Nobody
  /\ pc = [w \in Workers |-> "reading"]
  /\ buf = [w \in Workers |-> NoLine]
  /\ request = [w \in Workers |-> NoRequest]
  /\ status = [w \in Workers |-> "OK"]
  /\ rows = [w \in Workers |-> NoRows]
  /\ found = [w \in Workers |-> 0]

Goto(w, from, to) ==
  /\ pc[w] = from
  /\ pc' = [pc EXCEPT ![w] = to]

\* Rio_readlineb returns a line.
ReadLine(w, line) ==
  /\ Goto(w, "reading", "parsing")
  /\ buf' = [buf EXCEPT ![w] = line]
  /\ UNCHANGED <<left_stock, mutex, request, status, rows, found>>

\* parse_request, validate_request and the dispatch of execute_request
Dispatch(w) ==
  LET r == parse_request(buf[w])
      verdict == validate_request(r)
      needsStore == verdict = "OK" /\ r.command # "exit"
  IN  /\ Goto(w, "parsing", IF needsStore THEN "lock" ELSE "respond")
      /\ request' = [request EXCEPT ![w] = r]
      /\ status' = [status EXCEPT ![w] = verdict]
      /\ UNCHANGED <<left_stock, mutex, buf, rows, found>>

\* Faulty variant: the store is entered whoever holds its mutex.
LockWithoutWaiting(w) ==
  /\ Goto(w, "lock", "locked")
  /\ mutex' = w
  /\ UNCHANGED <<left_stock, buf, request, status, rows, found>>

\* pthread_mutex_lock(&g_store->mutex)
LockStore(w) ==
  /\ Goto(w, "lock", "locked")
  /\ mutex = Nobody
  /\ mutex' = w
  /\ UNCHANGED <<left_stock, buf, request, status, rows, found>>

\* handle_show_request without an id: the inorder walk starts at the root
BeginWalk(w) ==
  /\ Goto(w, "locked", "walking")
  /\ request[w].command = "show" /\ request[w].argc = 1
  /\ UNCHANGED <<left_stock, mutex, buf, request, status, rows, found>>

\* append_stock_line on the next node in ascending id order
VisitNode(w) ==
  /\ pc[w] = "walking"
  /\ \E i \in Ids \ DOMAIN rows[w] :
       /\ \A j \in Ids \ DOMAIN rows[w] : i <= j
       /\ rows' = [rows EXCEPT ![w] =
            [j \in DOMAIN rows[w] \cup {i} |->
               IF j = i THEN left_stock[i] ELSE rows[w][j]]]
  /\ UNCHANGED <<left_stock, mutex, pc, buf, request, status, found>>

EndWalk(w) ==
  /\ Ids \subseteq DOMAIN rows[w]
  /\ Goto(w, "walking", "unlock")
  /\ UNCHANGED <<left_stock, mutex, buf, request, status, rows, found>>

\* handle_show_request with an id
ShowOne(w) ==
  LET id == request[w].id
  IN  /\ Goto(w, "locked", "unlock")
      /\ request[w].command = "show" /\ request[w].argc = 2
      /\ status' = [status EXCEPT ![w] = IF id \in Ids THEN "OK" ELSE "NOT_FOUND"]
      /\ rows' = [rows EXCEPT ![w] = [i \in Ids \cap {id} |-> left_stock[i]]]
      /\ UNCHANGED <<left_stock, mutex, buf, request, found>>

\* Faulty variant: the check for a sufficient quantity is off by one.
CheckDeltaOffByOne(w) ==
  LET id == request[w].id
      insufficient == delta(w) < 0 /\ left_stock[id] + 1 < -delta(w)
      verdict == IF id \notin Ids THEN "NOT_FOUND"
                 ELSE IF insufficient THEN "INSUFFICIENT" ELSE "OK"
  IN  /\ pc[w] = "locked" /\ request[w].command \in {"buy", "sell"}
      /\ Goto(w, "locked", IF verdict = "OK" THEN "adding" ELSE "unlock")
      /\ status' = [status EXCEPT ![w] = verdict]
      /\ found' = [found EXCEPT ![w] = IF id \in Ids THEN left_stock[id] ELSE @]
      /\ UNCHANGED <<left_stock, mutex, buf, request, rows>>

\* stock_store_apply_delta_nolock up to its last check ...
CheckDelta(w) ==
  LET id == request[w].id
      d == delta(w)
      insufficient == d < 0 /\ left_stock[id] < -d
      verdict == IF id \notin Ids THEN "NOT_FOUND"
                 ELSE IF insufficient THEN "INSUFFICIENT" ELSE "OK"
  IN  /\ pc[w] = "locked" /\ request[w].command \in {"buy", "sell"}
      /\ Goto(w, "locked", IF verdict = "OK" THEN "adding" ELSE "unlock")
      /\ status' = [status EXCEPT ![w] = verdict]
      /\ found' = [found EXCEPT ![w] = IF id \in Ids THEN left_stock[id] ELSE @]
      /\ UNCHANGED <<left_stock, mutex, buf, request, rows>>

\* ... and its one assignment, item->left_stock += delta
AddDelta(w) ==
  /\ Goto(w, "adding", "unlock")
  /\ left_stock' = [left_stock EXCEPT ![request[w].id] = Wrap(found[w] + delta(w))]
  /\ found' = [found EXCEPT ![w] = 0]
  /\ UNCHANGED <<mutex, buf, request, status, rows>>

\* Faulty variant: a failed request returns without unlocking.
UnlockOnSuccess(w) ==
  /\ Goto(w, "unlock", "respond")
  /\ mutex' = IF status[w] = "OK" THEN Nobody ELSE mutex
  /\ UNCHANGED <<left_stock, buf, request, status, rows, found>>

\* pthread_mutex_unlock(&g_store->mutex), on every path
UnlockStore(w) ==
  /\ Goto(w, "unlock", "respond")
  /\ mutex' = Nobody
  /\ UNCHANGED <<left_stock, buf, request, status, rows, found>>

\* Rio_writen of the response.  The locals of the request are dead from here
\* on and are cleared.
Respond(w) ==
  /\ Goto(w, "respond", "reading")
  /\ buf' = [buf EXCEPT ![w] = NoLine]
  /\ request' = [request EXCEPT ![w] = NoRequest]
  /\ status' = [status EXCEPT ![w] = "OK"]
  /\ rows' = [rows EXCEPT ![w] = NoRows]
  /\ UNCHANGED <<left_stock, mutex, found>>

\* What the worker does by itself once it has a line.
Serve(w) ==
  \/ Dispatch(w) \/ LockStore(w) \/ BeginWalk(w) \/ VisitNode(w) \/ EndWalk(w)
  \/ ShowOne(w) \/ CheckDelta(w) \/ AddDelta(w) \/ UnlockStore(w) \/ Respond(w)

Next == \E w \in Workers :
  \/ \E line \in Lines : ReadLine(w, line)
  \/ Serve(w)

\* A worker with a request in hand keeps running; a client may send nothing.
Fairness == \A w \in Workers : WF_vars(Serve(w))

Spec == Init /\ [][Next]_vars /\ Fairness
-----------------------------------------------------------------------------
Applied(w) == pc[w] \in {"unlock", "respond"}

Store == INSTANCE AtomicStore WITH
  Servers <- Workers,
  store <- left_stock,
  pending <- [w \in Workers |->
                IF pc[w] = "reading" THEN NoLine ELSE buf[w]],
  reply <- [w \in Workers |->
              IF Applied(w) THEN [status |-> status[w], rows |-> rows[w]]
              ELSE [status |-> "NONE", rows |-> NoRows]]

\* Every answer is the one an atomic store gives: concurrent requests behave
\* as if run one after the other, a show lists one committed state, a failed
\* request changed nothing.
ImplementsAtomicStore == Store!Spec

\* No lost update: the store changes only by the whole delta of one request
\* that is answered with success, applied to the current quantity.
WholeDelta ==
  \A i \in Ids : left_stock'[i] # left_stock[i] =>
    \E w \in Workers :
      /\ pc[w] = "adding" /\ status'[w] = "OK" /\ request[w].id = i
      /\ left_stock'[i] = Wrap(left_stock[i] + delta(w))
      /\ \A j \in Ids \ {i} : left_stock'[j] = left_stock[j]
OneTradeAtATime == [][WholeDelta]_vars

\* Only a sell that overflows an int makes a quantity negative; no
\* interleaving of buys oversells a stock.
OnlyOverflowGoesNegative ==
  \A i \in Ids : (left_stock[i] >= 0 /\ left_stock'[i] < 0) =>
    \E w \in Workers : /\ pc[w] = "adding" /\ request[w].command = "sell"
                       /\ left_stock[i] + request[w].count > MaxInt
BuysNeverOversell == [][OnlyOverflowGoesNegative]_vars

\* Whoever takes the store mutex gives it back, whatever becomes of the request.
MutexReleased == \A w \in Workers : (mutex = w) ~> (mutex # w)
=============================================================================
