----------------------------- MODULE StockStore ------------------------------
(***************************************************************************)
(* The stock store as stock_store.c keeps it, a binary search tree of      *)
(* nodes in the heap, over the life of the process: recovery fills it from *)
(* the lines of a stock file and of a log (stock_persistence.c), requests  *)
(* change quantities or list it, a save walks it into a new file, and main *)
(* destroys it, also after a recovery that failed half-way.  Requests are  *)
(* one at a time, as StockTrading shows; the system calls around the lines *)
(* are the subject of Persistence.  Prices are left out.                   *)
(***************************************************************************)
EXTENDS StockRequest, ResponseBuilder

CONSTANTS
  Files,     \* the init files, and generations found on disk, to start from
  Trades,    \* the changes requests ask for: an id and a delta
  NULL,
  NoTable, Refused   \* as in StockTable

ASSUME NullAssumption == NULL \notin Nat
ASSUME TableAssumption ==
  \A S \in SUBSET Ints : NoTable \notin [S -> Ints] /\ Refused \notin [S -> Ints]

VARIABLES
  pc,      \* what main is doing
  boot,    \* whether this process started from the init file
  files,   \* the files of the next start, and who wrote them
  input,   \* the lines of the open file still to be read
  root, node,   \* the tree: address -> stock_item_t
  calls,   \* the active calls of a recursive function on it, innermost last
  seen,    \* the records the walk has visited so far
  response \* the answer to a show

vars == <<pc, boot, files, input, root, node, calls, seen, response>>

tree == <<root, node>>

\* A line of a stock file or a log, after sscanf.
Record(id, n) == [is |-> "record", id |-> id, n |-> n]
Log(op, id, n) == [is |-> op, id |-> id, n |-> n]
Blank == [is |-> "blank", id |-> 0, n |-> 0]
Junk == [is |-> "junk", id |-> 0, n |-> 0]

\* What %d stores of a number that an int has no room for: its low bits.
Scan(n) == ((n + MaxInt + 1) % (2 * (MaxInt + 1))) - (MaxInt + 1)

Addresses == DOMAIN node
NoNodes == [a \in {} |-> 0]
Lines == [is : {"record", "BUY", "SELL", "blank", "junk"}, id : Int, n : Int]

\* The init file has no log.  A trade's delta is a count above zero, or the
\* opposite of one; a buffer of SizeMax bytes has room for a refusal.
ASSUME StoreAssumption ==
  /\ Files \subseteq [by : {"init", "given"}, stock : Seq(Lines), log : Seq(Lines)]
  /\ \A f \in Files : f.by = "init" => f.log = <<>>
  /\ Trades \subseteq [id : Ints, delta : -MaxInt .. MaxInt]
  /\ SizeMax > 2

\* The variables have their types: links lead to nodes that are allocated,
\* unless the tree is being freed, and quantities fit an int.
TypeOK ==
  /\ pc \in {"down", "loading", "replaying", "counting", "serving", "listing",
             "saving", "destroying"}
  /\ boot \in BOOLEAN
  /\ files \in [by : {"init", "given", "save"}, stock : Seq(Lines), log : Seq(Lines)]
  /\ input \in Seq(Lines)
  /\ pc # "destroying" =>
       /\ root \in Addresses \cup {NULL}
       /\ node \in [Addresses -> [id : Ints, left_stock : Ints,
                      left : Addresses \cup {NULL}, right : Addresses \cup {NULL}]]
  /\ \A k \in DOMAIN calls : calls[k].next \in {"left", "visit", "right"}
  /\ seen \in Seq(Lines)
  /\ Cap(response) <= SizeMax
  /\ response = NoResponse \/ response.len < Cap(response)
-----------------------------------------------------------------------------
Find(id) ==
  LET at[n \in Addresses \cup {NULL}] ==
        IF n = NULL THEN NULL
        ELSE IF id < node[n].id THEN at[node[n].left]
        ELSE IF id > node[n].id THEN at[node[n].right]
        ELSE n
  IN  at[root]

\* Faulty variant: the descent mistakes one side for the other at the root.
PlaceByRoot(id) ==
  LET side == IF id < node[root].id THEN "left" ELSE "right"
      below[n \in Addresses] ==
        IF node[n][side] = NULL THEN <<n, side>> ELSE below[node[n][side]]
  IN  below[root]

\* The empty link that upsert_stock_item reaches.
Place(id) ==
  LET below[n \in Addresses] ==
        LET side == IF id < node[n].id THEN "left" ELSE "right"
        IN  IF node[n][side] = NULL THEN <<n, side>> ELSE below[node[n][side]]
  IN  below[root]

\* upsert_stock_item of an id that is not there; no caller has one that is.
Upsert(id, n) ==
  LET new == CHOOSE a \in 1 .. Cardinality(Addresses) + 1 : a \notin Addresses
      item == [id |-> id, left_stock |-> n, left |-> NULL, right |-> NULL]
      table == [a \in Addresses \cup {new} |-> IF a = new THEN item ELSE node[a]]
  IN  IF root = NULL THEN root' = new /\ node' = table
      ELSE /\ node' = [table EXCEPT ![Place(id)[1]][Place(id)[2]] = new]
           /\ UNCHANGED root

\* stock_store_apply_delta_nolock
DeltaStatus(id, delta) ==
  IF Find(id) = NULL THEN "NOT_FOUND"
  ELSE IF delta < 0 /\ node[Find(id)].left_stock < -delta THEN "INSUFFICIENT"
  ELSE "OK"
ApplyDelta(id, delta) ==
  /\ node' = [node EXCEPT ![Find(id)].left_stock = Wrap(@ + delta)]
  /\ UNCHANGED root
-----------------------------------------------------------------------------
Init ==
  /\ pc = "down" /\ boot = FALSE
  /\ files \in Files
  /\ input = <<>> /\ root = NULL /\ node = NoNodes /\ calls = <<>> /\ seen = <<>>
  /\ response = NoResponse

\* A recursive function of stock_store.c is called on the root.
CallOnRoot(to) ==
  /\ pc' = to
  /\ calls' = IF root = NULL THEN <<>> ELSE <<[at |-> root, next |-> "left"]>>
  /\ seen' = <<>>
  /\ response' = IF to = "listing" THEN response_init ELSE NoResponse

\* main goes on to stock_store_destroy, whatever it has got to.
Destroy == CallOnRoot("destroying")

\* stock_store_init, and recover_stock_store opens its first file.
Start ==
  /\ pc = "down"
  /\ pc' = "loading"
  /\ boot' = (files.by = "init")
  /\ input' = files.stock
  /\ UNCHANGED <<files, tree, calls, seen, response>>

\* apply_stock_record of the record on the line
Acceptable(line) ==
  /\ Scan(line.id) > 0 /\ Scan(line.n) >= 0
  /\ Find(Scan(line.id)) = NULL

\* One turn of the loop of load_stock_file_into_store
LoadLine ==
  /\ pc = "loading" /\ input # <<>>
  /\ LET line == Head(input)
     IN  \/ /\ line = Blank
            /\ UNCHANGED <<pc, tree, calls, seen, response>>
         \/ /\ line.is = "record" /\ Acceptable(line)
            /\ Upsert(Scan(line.id), Scan(line.n))
            /\ UNCHANGED <<pc, calls, seen, response>>
         \/ /\ line # Blank /\ ~(line.is = "record" /\ Acceptable(line))
            /\ Destroy
            /\ UNCHANGED tree
  /\ input' = Tail(input)
  /\ UNCHANGED <<boot, files>>

\* Its end: a bootstrap materialises the first generation, any other
\* recovery goes on to the log.
EndOfStock ==
  /\ pc = "loading" /\ input = <<>>
  /\ IF boot THEN CallOnRoot("saving") /\ UNCHANGED input
     ELSE pc' = "replaying" /\ input' = files.log
          /\ UNCHANGED <<calls, seen, response>>
  /\ UNCHANGED <<boot, files, tree>>

Delta(line) == IF line.is = "BUY" THEN -Scan(line.n) ELSE Scan(line.n)

\* parse_aof_record_line and apply_aof_record accept the line.
Replayable(line) ==
  /\ line.is \in {"BUY", "SELL"}
  /\ Scan(line.id) > 0 /\ Scan(line.n) > 0
  /\ DeltaStatus(Scan(line.id), Delta(line)) = "OK"

\* One turn of the loop of replay_aof_into_store
ReplayLine ==
  /\ pc = "replaying" /\ input # <<>>
  /\ LET line == Head(input)
     IN  \/ /\ line = Blank
            /\ UNCHANGED <<pc, tree, calls, seen, response>>
         \/ /\ Replayable(line)
            /\ ApplyDelta(Scan(line.id), Delta(line))
            /\ UNCHANGED <<pc, calls, seen, response>>
         \/ /\ line # Blank /\ ~Replayable(line)
            /\ Destroy
            /\ UNCHANGED tree
  /\ input' = Tail(input)
  /\ UNCHANGED <<boot, files>>

\* main counts what was loaded.
EndOfLog ==
  /\ pc = "replaying" /\ input = <<>>
  /\ CallOnRoot("counting")
  /\ UNCHANGED <<boot, files, input, tree>>

\* fgets fails on a file that is open.
ReadFails ==
  /\ pc \in {"loading", "replaying"}
  /\ Destroy
  /\ input' = <<>>
  /\ UNCHANGED <<boot, files, tree>>
-----------------------------------------------------------------------------
Innermost == calls[Len(calls)]
Outer == SubSeq(calls, 1, Len(calls) - 1)
\* A call gets to its next statement, after calling itself on a child.
Recurse(next, child) ==
  calls' = Outer \o <<[Innermost EXCEPT !.next = next]>>
           \o (IF child = NULL THEN <<>> ELSE <<[at |-> child, next |-> "left"]>>)
Here == node[Innermost.at]

Walking == pc \in {"counting", "saving", "listing"} /\ calls # <<>>

WalkLeft ==
  /\ Walking /\ Innermost.next = "left"
  /\ Recurse("visit", Here.left)
  /\ UNCHANGED <<pc, boot, files, input, tree, seen, response>>

\* Faulty variant: the records are written in descending order.
VisitBackwards ==
  /\ Walking /\ pc # "listing" /\ Innermost.next = "visit"
  /\ seen' = <<Record(Here.id, Here.left_stock)>> \o seen
  /\ Recurse("right", NULL)
  /\ UNCHANGED <<pc, boot, files, input, tree, response>>

\* count_stock_item, or write_snapshot_node
Visit ==
  /\ Walking /\ pc # "listing" /\ Innermost.next = "visit"
  /\ seen' = Append(seen, Record(Here.id, Here.left_stock))
  /\ Recurse("right", NULL)
  /\ UNCHANGED <<pc, boot, files, input, tree, response>>

Digit(n) == IF n < 0 THEN <<45, 48 - n>> ELSE <<48 + n>>
Row(id, n) == Digit(id) \o <<32>> \o Digit(n) \o <<10>>
internal_error == <<73, 10>>

\* append_stock_line: a row more, or the walk stops and handle_client puts its
\* refusal in the place of the rows.
ListRow ==
  LET row == Row(Here.id, Here.left_stock)
  IN  /\ Walking /\ pc = "listing" /\ Innermost.next = "visit"
      /\ \/ /\ AppendStatus(response, row) = "OK"
            /\ response' = response_appendf(response, row)
            /\ seen' = Append(seen, Record(Here.id, Here.left_stock))
            /\ Recurse("right", NULL)
         \/ /\ AppendStatus(response, row) # "OK"
            /\ response' = Refusal(response, internal_error)
            /\ calls' = <<>>
            /\ UNCHANGED seen
      /\ UNCHANGED <<pc, boot, files, input, tree>>

\* Faulty variant: the walk returns after its visit.
ReturnEarly ==
  /\ Walking /\ Innermost.next = "right"
  /\ calls' = Outer
  /\ UNCHANGED <<pc, boot, files, input, tree, seen, response>>

\* return stock_store_inorder_walk(node->right, visit, arg)
WalkRight ==
  /\ Walking /\ Innermost.next = "right"
  /\ calls' = Outer \o (IF Here.right = NULL THEN <<>>
                        ELSE <<[at |-> Here.right, next |-> "left"]>>)
  /\ UNCHANGED <<pc, boot, files, input, tree, seen, response>>

\* The save fails, in a fprintf, which stops the walk, or in a call before or
\* after it: what is written is unlinked and main gives up.
SaveFails ==
  /\ pc = "saving" /\ (calls # <<>> => Innermost.next = "visit")
  /\ Destroy
  /\ UNCHANGED <<boot, files, input, tree>>

EndOfCount ==
  /\ pc = "counting" /\ calls = <<>>
  /\ pc' = "serving"
  /\ UNCHANGED <<boot, files, input, tree, calls, seen, response>>

\* Faulty variant: the log of the generation before stays in use.
PublishOverLog ==
  /\ pc = "saving" /\ calls = <<>>
  /\ files' = [by |-> "save", stock |-> seen, log |-> files.log]
  /\ Destroy \/ (files.by = "init" /\ CallOnRoot("counting"))
  /\ UNCHANGED <<boot, input, tree>>

\* The snapshot is published with an empty log: main goes on to count, unless
\* removing the marker fails, or has come to its end.
Publish ==
  /\ pc = "saving" /\ calls = <<>>
  /\ files' = [by |-> "save", stock |-> seen, log |-> <<>>]
  /\ Destroy \/ (files.by = "init" /\ CallOnRoot("counting"))
  /\ UNCHANGED <<boot, input, tree>>

\* A show of all stocks, and the end of its answer
Show ==
  /\ pc = "serving"
  /\ CallOnRoot("listing")
  /\ UNCHANGED <<boot, files, input, tree>>
AnswerShow ==
  /\ pc = "listing" /\ calls = <<>>
  /\ pc' = "serving" /\ response' = NoResponse
  /\ UNCHANGED <<boot, files, input, tree, calls, seen>>

\* A successful buy or sell
Trade(t) ==
  /\ pc = "serving"
  /\ DeltaStatus(t.id, t.delta) = "OK"
  /\ ApplyDelta(t.id, t.delta)
  /\ UNCHANGED <<pc, boot, files, input, calls, seen, response>>

\* run_server_stub returns, with or without an error.
Shutdown ==
  /\ pc = "serving"
  /\ CallOnRoot("saving") \/ Destroy
  /\ UNCHANGED <<boot, files, input, tree>>
-----------------------------------------------------------------------------
Freeing == pc = "destroying" /\ calls # <<>>

FreeLeft ==
  /\ Freeing /\ Innermost.next = "left"
  /\ Recurse("visit", Here.left)
  /\ UNCHANGED <<pc, boot, files, input, tree, seen, response>>

\* Faulty variant: the node is freed before its right subtree.
FreeNodeFirst ==
  /\ Freeing /\ Innermost.next = "visit"
  /\ node' = [a \in Addresses \ {Innermost.at} |-> node[a]]
  /\ Recurse("right", Here.right)
  /\ UNCHANGED <<pc, boot, files, input, root, seen, response>>

FreeRight ==
  /\ Freeing /\ Innermost.next = "visit"
  /\ Recurse("right", Here.right)
  /\ UNCHANGED <<pc, boot, files, input, tree, seen, response>>

\* Free(node), after both subtrees
FreeNode ==
  /\ Freeing /\ Innermost.next = "right"
  /\ node' = [a \in Addresses \ {Innermost.at} |-> node[a]]
  /\ calls' = Outer
  /\ UNCHANGED <<pc, boot, files, input, root, seen, response>>

\* store->root = NULL, and main returns.
EndOfProcess ==
  /\ pc = "destroying" /\ calls = <<>>
  /\ pc' = "down" /\ root' = NULL /\ input' = <<>> /\ boot' = FALSE
  /\ UNCHANGED <<files, node, calls, seen, response>>

Next ==
  \/ Start \/ LoadLine \/ EndOfStock \/ ReplayLine \/ EndOfLog \/ ReadFails
  \/ WalkLeft \/ Visit \/ ListRow \/ WalkRight \/ SaveFails \/ EndOfCount \/ Publish
  \/ Show \/ AnswerShow \/ (\E t \in Trades : Trade(t)) \/ Shutdown
  \/ FreeLeft \/ FreeRight \/ FreeNode \/ EndOfProcess

Spec == Init /\ [][Next]_vars
-----------------------------------------------------------------------------
\* What a stock file says: a quantity for each id, if every line of it can be
\* read and no id comes twice.
StockSays(lines) ==
  LET records == {k \in DOMAIN lines : lines[k] # Blank}
      ids == {Scan(lines[k].id) : k \in records}
      good == \A k \in records :
                /\ lines[k].is = "record"
                /\ Scan(lines[k].id) > 0 /\ Scan(lines[k].n) >= 0
                /\ \A j \in records : Scan(lines[j].id) = Scan(lines[k].id) => j = k
  IN  IF good THEN [i \in ids |->
        Scan(lines[CHOOSE k \in records : Scan(lines[k].id) = i].n)]
      ELSE Refused

\* What a line of a log makes of a table, if its trade is possible.
LineSays(before, line) ==
  LET i == Scan(line.id)
      n == Scan(line.n)
  IN  IF before = Refused \/ line = Blank THEN before
      ELSE IF /\ line.is \in {"BUY", "SELL"}
              /\ n > 0 /\ i \in DOMAIN before
              /\ line.is = "BUY" => before[i] >= n
           THEN [before EXCEPT ![i] = Wrap(@ + IF line.is = "BUY" THEN -n ELSE n)]
           ELSE Refused

\* What a log makes of that, if every trade in it was possible.
LogSays(stock, log) ==
  LET after[k \in 0 .. Len(log)] ==
        IF k = 0 THEN stock ELSE LineSays(after[k - 1], log[k])
  IN  after[Len(log)]

FilesSay == LogSays(StockSays(files.stock), files.log)

Stocks == {node[a].id : a \in Addresses}
Quantity(i) == node[CHOOSE a \in Addresses : node[a].id = i].left_stock

Table == INSTANCE StockTable WITH
  Quantities <- Ints,
  table <- IF pc \in {"counting", "serving", "listing", "saving"}
           THEN [i \in Stocks |-> Quantity(i)] ELSE NoTable,
  disk <- FilesSay

\* Recovery brings back what the files say or serves nothing, and what is in
\* the tree at a save is what the next recovery finds.
ImplementsTable == Table!Spec

\* Every stock in the heap is found by its id, in whatever order the records
\* came.
EveryStockIsFound ==
  pc # "destroying" => \A a \in Addresses : Find(node[a].id) = a

\* A walk that was not stopped has visited every stock once, in ascending order.
WalkSeesAll ==
  pc \in {"counting", "saving"} /\ calls = <<>> =>
    /\ {seen[k].id : k \in DOMAIN seen} = Stocks
    /\ \A k \in 1 .. Len(seen) - 1 : seen[k].id < seen[k + 1].id
    /\ \A k \in DOMAIN seen : seen[k].n = Quantity(seen[k].id)

Listing ==
  LET rows[S \in SUBSET Stocks] ==
        IF S = {} THEN <<>>
        ELSE LET last == CHOOSE i \in S : \A j \in S : j <= i
             IN  rows[S \ {last}] \o Row(last, Quantity(last))
  IN  rows[Stocks]

\* A show is answered by the rows of all stocks in ascending order and nothing
\* else, byte by byte, however often its buffer had to grow, and refused just
\* if no buffer can hold them.
ShowIsWhole ==
  pc = "listing" /\ calls = <<>> =>
    Sent(response) = IF Len(Listing) < SizeMax THEN Listing ELSE internal_error

\* No call of a recursive function is left with a node that was freed, and a
\* process that has ended has freed every node, also those of a load that
\* failed half-way.
NodesFreedOnce ==
  /\ \A k \in DOMAIN calls : calls[k].at \in Addresses
  /\ pc = "down" => node = NoNodes

\* A save is sorted, so the tree of a process that has loaded one is a chain:
\* every search and every walk is as deep as there are stocks.
ReloadedTreeIsChain ==
  pc = "serving" /\ ~boot /\ files.by = "save" =>
    \A a \in Addresses : node[a].left = NULL

\* docs/01_requirements.md: a restart recovers the state before it.
SavedIsRecoverable == files.by = "save" => FilesSay # Refused
=============================================================================
