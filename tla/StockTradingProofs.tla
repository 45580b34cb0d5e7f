-------------------------- MODULE StockTradingProofs -------------------------
(***************************************************************************)
(* For any number of workers, any store and any request lines: the store   *)
(* mutex makes the step-by-step request handling of stock_server.c and     *)
(* stock_store.c an atomic store.                                          *)
(***************************************************************************)
EXTENDS StockTrading, TLAPS

HeldLabels == {"locked", "walking", "adding", "unlock"}

\* A worker holds store->mutex exactly between its lock and its unlock.
MutexOK == \A w \in Workers : mutex = w <=> pc[w] \in HeldLabels

\* Past parsing, the request is the one its line says; a request that touches
\* the store has been validated.
RequestOK ==
  \A w \in Workers :
    /\ pc[w] # "reading" => buf[w] \in Lines
    /\ pc[w] \notin {"reading", "parsing"} => request[w] = parse_request(buf[w])
    /\ pc[w] \in {"lock"} \cup HeldLabels =>
         validate_request(request[w]) = "OK" /\ request[w].command # "exit"
    /\ pc[w] \in {"lock", "locked", "walking", "adding"} => status[w] = "OK"

\* Under the mutex nothing read so far has gone stale: neither the rows of a
\* walk nor the quantity a trade was checked against.
ReadsFresh ==
  \A w \in Workers :
    /\ pc[w] \in {"reading", "parsing", "lock", "locked", "adding"} =>
         rows[w] = NoRows
    /\ pc[w] = "walking" =>
         /\ request[w].command = "show" /\ request[w].argc = 1
         /\ DOMAIN rows[w] \subseteq Ids
         /\ rows[w] = [i \in DOMAIN rows[w] |-> left_stock[i]]
    /\ pc[w] = "adding" =>
         /\ request[w].command \in {"buy", "sell"}
         /\ request[w].id \in Ids
         /\ found[w] = left_stock[request[w].id]
         /\ ~(delta(w) < 0 /\ found[w] < -delta(w))

IndInv == TypeOK /\ MutexOK /\ RequestOK /\ ReadsFresh
-----------------------------------------------------------------------------
LEMMA RequestTyped ==
  ASSUME NEW line, IsLine(line)
  PROVE  parse_request(line) \in Requests
<1> DEFINE Token == [kind : {"word", "int"}, text : STRING, value : Int]
<1>1. Len(line) \in Nat /\ \A k \in 1 .. Len(line) : line[k].value \in Int
  <2>1. line \in Seq(Token)
    BY DEF IsLine
  <2>2. Len(line) \in Nat /\ \A k \in 1 .. Len(line) : line[k] \in Token
    <3> HIDE DEF Token
    <3> QED BY <2>1
  <2> QED BY <2>2
<1>2. 0 \in Ints
  BY MaxIntAssumption DEF Ints
<1>3. ASSUME NEW k \in 1 .. Len(line), parse_int_token(line[k])
      PROVE  line[k].value \in Ints
  BY <1>3 DEF parse_int_token
<1> DEFINE r == parse_request(line)
<1>4. r.command \in Verbs \cup {"unknown"} /\ r.parse_error \in {0, 1}
  BY DEF parse_request, Verbs
<1>5. r.argc \in 0 .. MaxTokens
  <2>1. r.argc = IF Len(line) > 4 THEN 4 ELSE Len(line)
    BY DEF parse_request, MaxTokens
  <2> DEFINE n == Len(line)
  <2>2. n \in Nat
    BY <1>1
  <2> HIDE DEF r, n
  <2>3. (IF n > 4 THEN 4 ELSE n) \in 0 .. 4
    BY <2>2
  <2> QED BY <2>1, <2>3 DEF n, MaxTokens
<1>6. r.id \in Ints
  BY <1>1, <1>2, <1>3 DEF parse_request, MaxTokens
<1>7. r.count \in Ints
  BY <1>1, <1>2, <1>3 DEF parse_request, MaxTokens
<1>8. r = [command |-> r.command, argc |-> r.argc, id |-> r.id,
           count |-> r.count, parse_error |-> r.parse_error]
  BY DEF parse_request
<1> HIDE DEF r
<1> QED BY <1>4, <1>5, <1>6, <1>7, <1>8 DEF Requests, r

LEMMA WrapTyped ==
  ASSUME NEW n \in Int, n >= -(MaxInt + 1), n <= 2 * MaxInt
  PROVE  Wrap(n) \in Ints
  BY MaxIntAssumption DEF Wrap, Ints

\* A validated trade has a positive count.
LEMMA TradeCount ==
  ASSUME NEW r \in Requests, validate_request(r) = "OK",
         r.command \in {"buy", "sell"}
  PROVE  r.count \in 1 .. MaxInt
  BY MaxIntAssumption DEF Requests, validate_request, Ints

LEMMA IndInit == Init => IndInv
<1> SUFFICES ASSUME Init PROVE IndInv
  OBVIOUS
<1>1. left_stock \in [Ids -> 0 .. MaxInt]
  BY TradingAssumption DEF Init, Ids
<1>2. left_stock \in [Ids -> Ints] /\ 0 \in Ints
  BY <1>1, MaxIntAssumption DEF Ints
<1>3. NoRows \in UNION {[D -> Ints] : D \in SUBSET Ids}
  <2>1. NoRows \in [{} -> Ints] /\ {} \in SUBSET Ids
    BY DEF NoRows
  <2> QED BY <2>1
<1>4. NoRequest \in Requests
  BY <1>2 DEF NoRequest, Requests, MaxTokens
<1> QED
  BY <1>2, <1>3, <1>4, TradingAssumption
  DEF Init, IndInv, TypeOK, MutexOK, RequestOK, ReadsFresh, Labels, HeldLabels,
      Statuses
-----------------------------------------------------------------------------
\* Steps before the lock and after the unlock, and the lock operations.
LEMMA LocalStep ==
  ASSUME IndInv, NEW w \in Workers,
         \/ \E line \in Lines : ReadLine(w, line)
         \/ Dispatch(w) \/ LockStore(w) \/ UnlockStore(w) \/ Respond(w)
  PROVE  IndInv'
<1> USE TradingAssumption
    DEF IndInv, TypeOK, MutexOK, RequestOK, ReadsFresh, Goto, HeldLabels,
        Labels, Statuses
<1>1. UNCHANGED <<left_stock, Ids, found>>
  BY DEF ReadLine, Dispatch, LockStore, UnlockStore, Respond, Ids
<1>2. ASSUME NEW line \in Lines, ReadLine(w, line) PROVE IndInv'
  <2>1. buf'[w] = line /\ \A u \in Workers \ {w} : buf'[u] = buf[u]
    BY <1>2 DEF ReadLine
  <2>2. TypeOK'
    BY <1>1, <1>2, <2>1 DEF ReadLine, delta
  <2>3. MutexOK'
    BY <1>1, <1>2, <2>1 DEF ReadLine, delta
  <2>4. RequestOK'
    BY <1>1, <1>2, <2>1 DEF ReadLine, delta
  <2>5. ReadsFresh'
    BY <1>1, <1>2, <2>1 DEF ReadLine, delta
  <2> QED BY <2>2, <2>3, <2>4, <2>5
<1>3. CASE Dispatch(w)
  <2>1. parse_request(buf[w]) \in Requests
    BY <1>3, RequestTyped DEF Dispatch
  <2>2. validate_request(parse_request(buf[w])) \in {"OK", "INVALID"}
    BY DEF validate_request
  <2> DEFINE r == parse_request(buf[w])
             v == validate_request(r)
  <2>3. /\ pc[w] = "parsing" /\ pc'[w] \in {"lock", "respond"}
        /\ pc'[w] = "lock" => v = "OK" /\ r.command # "exit"
        /\ request' = [request EXCEPT ![w] = r]
        /\ status' = [status EXCEPT ![w] = v]
        /\ pc' = [pc EXCEPT ![w] = pc'[w]]
        /\ UNCHANGED <<left_stock, mutex, buf, rows, found>>
    BY <1>3 DEF Dispatch
  <2> HIDE DEF r, v
  <2>4. r \in Requests /\ v \in {"OK", "INVALID"} /\ r = parse_request(buf[w])
        /\ v = validate_request(r)
    BY <2>1, <2>2 DEF r, v
  <2> QED BY <1>1, <2>3, <2>4 DEF delta
<1>4. CASE LockStore(w)
  BY <1>1, <1>4 DEF LockStore, delta
<1>5. CASE UnlockStore(w)
  BY <1>1, <1>5 DEF UnlockStore, delta
<1>6. CASE Respond(w)
  <2>1. NoRequest \in Requests
    BY MaxIntAssumption DEF NoRequest, Requests, Ints, MaxTokens
  <2>2. NoRows \in UNION {[D -> Ints] : D \in SUBSET Ids}
    <3>1. NoRows \in [{} -> Ints] /\ {} \in SUBSET Ids
      BY DEF NoRows
    <3> QED BY <3>1
  <2> QED BY <1>1, <1>6, <2>1, <2>2 DEF Respond, delta
<1> QED BY <1>2, <1>3, <1>4, <1>5, <1>6

\* Reading the store under the mutex.
LEMMA ShowStep ==
  ASSUME IndInv, NEW w \in Workers,
         BeginWalk(w) \/ VisitNode(w) \/ EndWalk(w) \/ ShowOne(w)
  PROVE  IndInv'
<1> USE TradingAssumption
    DEF IndInv, TypeOK, MutexOK, RequestOK, ReadsFresh, Goto, HeldLabels,
        Labels, Statuses
<1> DEFINE Rows == UNION {[D -> Ints] : D \in SUBSET Ids}
<1>1. UNCHANGED <<left_stock, Ids, found, request, buf, mutex>>
  BY DEF BeginWalk, VisitNode, EndWalk, ShowOne, Ids
<1>2. CASE BeginWalk(w)
  <2>1. NoRows = [i \in DOMAIN NoRows |-> left_stock[i]] /\ DOMAIN NoRows = {}
    BY DEF NoRows
  <2> QED BY <1>1, <1>2, <2>1 DEF BeginWalk, delta
<1>3. CASE VisitNode(w)
  <2>1. PICK i \in Ids : rows' = [rows EXCEPT ![w] =
               [j \in DOMAIN rows[w] \cup {i} |->
                  IF j = i THEN left_stock[i] ELSE rows[w][j]]]
    BY <1>3 DEF VisitNode
  <2> DEFINE new == [j \in DOMAIN rows[w] \cup {i} |->
                       IF j = i THEN left_stock[i] ELSE rows[w][j]]
  <2>2. /\ DOMAIN rows[w] \subseteq Ids
        /\ \A j \in DOMAIN rows[w] : rows[w][j] = left_stock[j]
        /\ pc[w] = "walking" /\ pc' = pc /\ status' = status
    BY <1>3 DEF VisitNode
  <2>3. /\ DOMAIN new = DOMAIN rows[w] \cup {i} /\ DOMAIN new \subseteq Ids
        /\ new = [j \in DOMAIN new |-> left_stock[j]]
    BY <2>2
  <2>4. new \in [DOMAIN new -> Ints] /\ DOMAIN new \in SUBSET Ids
    BY <2>3
  <2>5. new \in Rows
    BY <2>4
  <2>6. rows' = [rows EXCEPT ![w] = new]
    BY <2>1
  <2> HIDE DEF new
  <2>7. TypeOK'
    BY <1>1, <2>2, <2>3, <2>5, <2>6 DEF delta
  <2>8. MutexOK'
    BY <1>1, <2>2, <2>3, <2>5, <2>6 DEF delta
  <2>9. RequestOK'
    BY <1>1, <2>2, <2>3, <2>5, <2>6 DEF delta
  <2>10. ReadsFresh'
    BY <1>1, <2>2, <2>3, <2>5, <2>6 DEF delta
  <2> QED BY <2>7, <2>8, <2>9, <2>10
<1>4. CASE EndWalk(w)
  BY <1>1, <1>4 DEF EndWalk, delta
<1>5. CASE ShowOne(w)
  <2> DEFINE one == [i \in Ids \cap {request[w].id} |-> left_stock[i]]
  <2>1. one \in [Ids \cap {request[w].id} -> Ints]
        /\ Ids \cap {request[w].id} \in SUBSET Ids
    OBVIOUS
  <2>2. one \in Rows
    BY <2>1
  <2>3. rows' = [rows EXCEPT ![w] = one]
    BY <1>5 DEF ShowOne
  <2> HIDE DEF one
  <2>4. TypeOK'
    <3>1. rows' \in [Workers -> Rows] /\ Rows' = Rows
      BY <1>1, <2>2, <2>3
    <3>2. status' \in [Workers -> Statuses] /\ pc' \in [Workers -> Labels]
      BY <1>5 DEF ShowOne
    <3>3. /\ left_stock' \in [Ids' -> Ints] /\ mutex' \in Workers \cup {Nobody}
          /\ buf' \in [Workers -> Lines \cup {NoLine}]
          /\ request' \in [Workers -> Requests] /\ found' \in [Workers -> Ints]
      BY <1>1
    <3> HIDE DEF Rows
    <3> QED BY <1>1, <3>1, <3>2, <3>3 DEF Rows
  <2>5. MutexOK'
    BY <1>1, <1>5, <2>2, <2>3 DEF ShowOne, delta
  <2>6. RequestOK'
    BY <1>1, <1>5, <2>2, <2>3 DEF ShowOne, delta
  <2>7. ReadsFresh'
    BY <1>1, <1>5, <2>2, <2>3 DEF ShowOne, delta
  <2> QED BY <2>4, <2>5, <2>6, <2>7
<1> QED BY <1>2, <1>3, <1>4, <1>5

\* Checking and applying a trade under the mutex.
LEMMA TradeStep ==
  ASSUME IndInv, NEW w \in Workers, CheckDelta(w) \/ AddDelta(w)
  PROVE  IndInv'
<1> USE TradingAssumption
    DEF IndInv, TypeOK, MutexOK, RequestOK, ReadsFresh, Goto, HeldLabels,
        Labels, Statuses
<1>1. CASE CheckDelta(w)
  BY <1>1 DEF CheckDelta, delta, Ids
<1>2. CASE AddDelta(w)
  <2> DEFINE id == request[w].id
             sum == found[w] + delta(w)
  <2>1. /\ pc[w] = "adding" /\ id \in Ids /\ found[w] \in Ints
        /\ request[w].command \in {"buy", "sell"}
        /\ left_stock' = [left_stock EXCEPT ![id] = Wrap(sum)]
        /\ request[w] \in Requests /\ validate_request(request[w]) = "OK"
    BY <1>2 DEF AddDelta
  <2>2. request[w].count \in 1 .. MaxInt
    BY <2>1, TradeCount
  <2>3. Wrap(sum) \in Ints
    <3>1. sum \in Int /\ sum >= -(MaxInt + 1) /\ sum <= 2 * MaxInt
      BY <1>2, <2>1, <2>2, MaxIntAssumption DEF AddDelta, delta, Ints
    <3> QED BY <3>1, WrapTyped
  <2>4. Ids' = Ids /\ left_stock' \in [Ids -> Ints]
    <3> HIDE DEF sum
    <3> QED BY <2>1, <2>3 DEF Ids
  <2>5. 0 \in Ints
    BY MaxIntAssumption DEF Ints
  <2>6. \A u \in Workers \ {w} : pc'[u] = pc[u] /\ pc[u] \notin HeldLabels
    BY <1>2, <2>1 DEF AddDelta
  <2>7. pc'[w] = "unlock"
    BY <1>2 DEF AddDelta
  <2> QED BY <1>2, <2>4, <2>5, <2>6, <2>7 DEF AddDelta, delta
<1> QED BY <1>1, <1>2

LEMMA IndStep == IndInv /\ [Next]_vars => IndInv'
<1> SUFFICES ASSUME IndInv, [Next]_vars PROVE IndInv'
  OBVIOUS
<1>1. CASE Next
  <2>1. PICK w \in Workers : (\E line \in Lines : ReadLine(w, line)) \/ Serve(w)
    BY <1>1 DEF Next
  <2> QED BY <2>1, LocalStep, ShowStep, TradeStep DEF Serve
<1>2. CASE UNCHANGED vars
  BY <1>2
  DEF vars, IndInv, TypeOK, MutexOK, RequestOK, ReadsFresh, Ids, delta
<1> QED BY <1>1, <1>2

LEMMA IndInvariant == Spec => []IndInv
  BY IndInit, IndStep, PTL DEF Spec

\* Every quantity stays an int, whatever is bought and sold.
THEOREM TypeCorrect == Spec => []TypeOK
<1>1. IndInv => TypeOK
  BY DEF IndInv
<1> QED BY <1>1, IndInvariant, PTL
-----------------------------------------------------------------------------
\* What parse_request makes of a line: the word it starts with, as many tokens
\* as it holds, and the numbers in its second and third place.
ReadAs(line, r) ==
  /\ Len(line) \in Nat
  /\ \A v \in Verbs : r.command = v <=>
       Len(line) \in 1 .. MaxTokens /\ line[1] = Word(v)
  /\ Len(line) <= MaxTokens => r.argc = Len(line)
  /\ Len(line) > MaxTokens => r.argc = MaxTokens /\ r.parse_error = 1
  /\ r.command # "unknown" =>
       /\ r.parse_error = 0 <=>
            /\ r.argc >= 2 => parse_int_token(line[2])
            /\ r.argc >= 3 => parse_int_token(line[3])
       /\ r.argc >= 2 /\ r.parse_error = 0 => r.id = line[2].value
       /\ r.argc >= 3 /\ r.parse_error = 0 => r.count = line[3].value

LEMMA RequestRead ==
  ASSUME NEW line, IsLine(line), NEW r, r = parse_request(line)
  PROVE  ReadAs(line, r)
<1>1. Len(line) \in Nat
  BY DEF IsLine
<1>2. ASSUME NEW v \in Verbs, Len(line) >= 1
      PROVE  line[1].text = v <=> line[1] = Word(v)
  <2>1. CASE line[1] = Word(line[1].text)
    BY <2>1 DEF Word
  <2>2. CASE line[1] = Number(line[1].value)
    <3>1. line[1].text = "digits"
      BY <2>2 DEF Number
    <3>2. Word(v).text = v /\ v # "digits"
      BY DEF Word, Verbs
    <3> QED BY <3>1, <3>2
  <2>3. \/ line[1] = Word(line[1].text)
        \/ line[1] = Number(line[1].value)
    <3>1. 1 \in 1 .. Len(line)
      BY <1>1, <1>2
    <3>2. \A k \in 1 .. Len(line) : \/ line[k] = Word(line[k].text)
                                  \/ line[k] = Number(line[k].value)
      BY DEF IsLine
    <3> QED BY <3>1, <3>2
  <2> QED BY <2>1, <2>2, <2>3
<1>3. ASSUME NEW v \in Verbs
      PROVE  r.command = v <=> Len(line) \in 1 .. MaxTokens /\ line[1] = Word(v)
  <2> DEFINE n == Len(line)
             tok == line[1].text
  <2>0. r.command = IF (IF n > 4 THEN 4 ELSE n) > 0 /\ ~(n > 4) /\ tok \in Verbs
                    THEN tok ELSE "unknown"
    BY DEF parse_request, MaxTokens
  <2> HIDE DEF n, tok
  <2>1. n \in 1 .. 4 => r.command = IF tok \in Verbs THEN tok ELSE "unknown"
    BY <2>0
  <2>2. n \in Nat /\ n \notin 1 .. 4 => r.command = "unknown"
    BY <2>0
  <2>3. Len(line) \in 1 .. MaxTokens => Len(line) >= 1
    BY <1>1 DEF MaxTokens
  <2>4. v # "unknown"
    BY <1>3 DEF Verbs
  <2> QED BY <1>1, <1>2, <1>3, <2>1, <2>2, <2>3, <2>4 DEF n, tok, MaxTokens
<1>4. /\ Len(line) <= MaxTokens => r.argc = Len(line)
      /\ Len(line) > MaxTokens => r.argc = MaxTokens /\ r.parse_error = 1
  BY <1>1 DEF parse_request, MaxTokens
<1>5. ASSUME r.command # "unknown"
      PROVE  /\ r.parse_error = 0 <=>
                  /\ r.argc >= 2 => parse_int_token(line[2])
                  /\ r.argc >= 3 => parse_int_token(line[3])
             /\ r.argc >= 2 /\ r.parse_error = 0 => r.id = line[2].value
             /\ r.argc >= 3 /\ r.parse_error = 0 => r.count = line[3].value
  BY <1>1, <1>5 DEF parse_request, MaxTokens, Verbs
<1> QED BY <1>1, <1>3, <1>4, <1>5 DEF ReadAs

\* parse_request and validate_request accept exactly the four shapes of the
\* abstract store, and read the numbers that stand there.
LEMMA ShapesMatch ==
  ASSUME NEW line, NEW r, ReadAs(line, r)
  PROVE  LET ok == validate_request(r) = "OK"
         IN  /\ Store!ListsAll(line) <=> ok /\ r.command = "show" /\ r.argc = 1
             /\ Store!ListsOne(line) <=> ok /\ r.command = "show" /\ r.argc = 2
             /\ Store!Trades(line, "buy") <=> ok /\ r.command = "buy"
             /\ Store!Trades(line, "sell") <=> ok /\ r.command = "sell"
             /\ Store!Leaves(line) <=> ok /\ r.command = "exit"
             /\ Store!ListsOne(line) => r.id = line[2].value
             /\ \A v \in {"buy", "sell"} : Store!Trades(line, v) =>
                  r.id = line[2].value /\ r.count = line[3].value
<1> DEFINE ok == validate_request(r) = "OK"
<1>1. Len(line) \in Nat
  BY DEF ReadAs
<1>3. ASSUME NEW v \in Verbs
      PROVE  r.command = v <=> Len(line) \in 1 .. MaxTokens /\ line[1] = Word(v)
  BY DEF ReadAs
<1>4. /\ Len(line) <= MaxTokens => r.argc = Len(line)
      /\ Len(line) > MaxTokens => r.argc = MaxTokens /\ r.parse_error = 1
  BY DEF ReadAs
<1>5. ASSUME r.command # "unknown"
      PROVE  /\ r.parse_error = 0 <=>
                  /\ r.argc >= 2 => parse_int_token(line[2])
                  /\ r.argc >= 3 => parse_int_token(line[3])
             /\ r.argc >= 2 /\ r.parse_error = 0 => r.id = line[2].value
             /\ r.argc >= 3 /\ r.parse_error = 0 => r.count = line[3].value
  BY <1>5 DEF ReadAs
<1>6. Store!ListsAll(line) <=> ok /\ r.command = "show" /\ r.argc = 1
  BY <1>1, <1>3, <1>4, <1>5
  DEF Store!ListsAll, Store!Says, Store!Word, Word, validate_request, Verbs,
      MaxTokens
<1>7. Store!ListsOne(line) <=> ok /\ r.command = "show" /\ r.argc = 2
  BY <1>1, <1>3, <1>4, <1>5
  DEF Store!ListsOne, Store!Says, Store!Word, Word, validate_request, Verbs,
      MaxTokens, Store!HasInt, parse_int_token, Store!Ints, Ints
<1>8. ASSUME NEW v \in {"buy", "sell"}
      PROVE  /\ Store!Trades(line, v) <=> ok /\ r.command = v
             /\ Store!Trades(line, v) =>
                  r.id = line[2].value /\ r.count = line[3].value
  <2>1. v \in Verbs /\ v # "unknown" /\ v # "show" /\ v # "exit"
    BY <1>8 DEF Verbs
  <2>2. Store!Trades(line, v) <=>
          /\ Len(line) = 3 /\ line[1] = Word(v)
          /\ parse_int_token(line[2]) /\ parse_int_token(line[3])
          /\ line[3].value > 0
    BY DEF Store!Trades, Store!Says, Store!Word, Word, Store!HasInt,
           parse_int_token, Store!Ints, Ints
  <2>3. ok /\ r.command = v <=>
          r.command = v /\ r.parse_error = 0 /\ r.argc = 3 /\ r.count > 0
    BY <1>8, <2>1 DEF validate_request
  <2> HIDE DEF ok
  <2>4. Store!Trades(line, v) => r.command = v /\ r.argc = 3 /\ r.parse_error = 0
    <3>1. Store!Trades(line, v) => r.command = v
      BY <1>3, <2>1, <2>2 DEF MaxTokens
    <3>2. Store!Trades(line, v) => r.argc = 3
      <4> DEFINE len == Len(line)
      <4>1. len = 3 => len <= MaxTokens
        <5> HIDE DEF len
        <5> QED BY DEF MaxTokens
      <4> QED BY <1>4, <2>2, <4>1
    <3> QED BY <1>5, <2>1, <2>2, <3>1, <3>2
  <2>5. Store!Trades(line, v) => r.id = line[2].value /\ r.count = line[3].value
    BY <1>5, <2>1, <2>4
  <2>6. Store!Trades(line, v) => ok /\ r.command = v
    BY <2>2, <2>3, <2>4, <2>5
  <2>7. ok /\ r.command = v => Store!Trades(line, v)
    <3> SUFFICES ASSUME ok, r.command = v PROVE Store!Trades(line, v)
      OBVIOUS
    <3>1. Len(line) = 3 /\ line[1] = Word(v)
      <4>1. Len(line) \in 1 .. MaxTokens /\ line[1] = Word(v)
        BY <1>3, <2>1
      <4> DEFINE len == Len(line)
      <4>2. len \in 1 .. MaxTokens => len <= MaxTokens
        <5> HIDE DEF len
        <5> QED BY DEF MaxTokens
      <4>3. r.argc = 3
        BY <2>3
      <4> QED BY <1>4, <4>1, <4>2, <4>3
    <3>2. /\ parse_int_token(line[2]) /\ parse_int_token(line[3])
          /\ r.count = line[3].value
      BY <1>5, <2>1, <2>3
    <3> QED BY <2>2, <2>3, <3>1, <3>2
  <2> QED BY <2>5, <2>6, <2>7
<1>9. Store!Leaves(line) <=> ok /\ r.command = "exit"
  <2> DEFINE n == Len(line)
  <2>1. Store!Leaves(line) <=> n = 1 /\ line[1] = Word("exit")
    BY DEF Store!Leaves, Store!Says, Store!Word, Word
  <2>2. r.command = "exit" <=> n \in 1 .. MaxTokens /\ line[1] = Word("exit")
    BY <1>3 DEF Verbs
  <2>3. r.command = "exit" => (ok <=> r.parse_error = 0 /\ r.argc = 1)
    BY DEF validate_request
  <2>4. /\ n <= MaxTokens => r.argc = n
        /\ r.command = "exit" /\ r.argc = 1 => r.parse_error = 0
    BY <1>4, <1>5
  <2> HIDE DEF n, ok
  <2> QED BY <2>1, <2>2, <2>3, <2>4 DEF MaxTokens
<1>10. Store!ListsOne(line) => r.id = line[2].value
  BY <1>1, <1>3, <1>4, <1>5, <1>7 DEF validate_request
<1> QED BY <1>6, <1>7, <1>8, <1>9, <1>10

LEMMA Understood ==
  ASSUME NEW line, IsLine(line), NEW r, r = parse_request(line)
  PROVE  LET ok == validate_request(r) = "OK"
         IN  /\ Store!ListsAll(line) <=> ok /\ r.command = "show" /\ r.argc = 1
             /\ Store!ListsOne(line) <=> ok /\ r.command = "show" /\ r.argc = 2
             /\ Store!Trades(line, "buy") <=> ok /\ r.command = "buy"
             /\ Store!Trades(line, "sell") <=> ok /\ r.command = "sell"
             /\ Store!Leaves(line) <=> ok /\ r.command = "exit"
             /\ Store!ListsOne(line) => r.id = line[2].value
             /\ \A v \in {"buy", "sell"} : Store!Trades(line, v) =>
                  r.id = line[2].value /\ r.count = line[3].value
  BY RequestRead, ShapesMatch


Row(id) == [i \in {id} |-> left_stock[i]]
Bought(id, n) == [left_stock EXCEPT ![id] = @ - n]
Sold(id, n) == [left_stock EXCEPT ![id] = Wrap(@ + n)]

\* The shapes exclude each other, so that Effect is one outcome per shape.
LEMMA EffectByShape ==
  ASSUME NEW line, NEW id, id = line[2].value, NEW n, n = line[3].value
  PROVE
    /\ Store!ListsAll(line) =>
         Store!Effect(line) = Store!Outcome("OK", left_stock, left_stock)
    /\ Store!ListsOne(line) /\ id \in Ids =>
         Store!Effect(line) = Store!Outcome("OK", left_stock, Row(id))
    /\ Store!Trades(line, "buy") /\ id \in Ids /\ left_stock[id] < n =>
         Store!Effect(line) = Store!Fails("INSUFFICIENT")
    /\ Store!Trades(line, "buy") /\ id \in Ids /\ ~(left_stock[id] < n) =>
         Store!Effect(line) = Store!Outcome("OK", Bought(id, n), NoRows)
    /\ Store!Trades(line, "sell") /\ id \in Ids =>
         Store!Effect(line) = Store!Outcome("OK", Sold(id, n), NoRows)
    /\ (\/ Store!ListsOne(line) \/ Store!Trades(line, "buy")
        \/ Store!Trades(line, "sell")) =>
         (id \notin Ids => Store!Effect(line) = Store!Fails("NOT_FOUND"))
    /\ Store!Leaves(line) =>
         Store!Effect(line) = Store!Outcome("OK", left_stock, NoRows)
    /\ \/ Store!ListsAll(line) \/ Store!ListsOne(line)
       \/ Store!Trades(line, "buy") \/ Store!Trades(line, "sell")
       \/ Store!Leaves(line)
       \/ Store!Effect(line) = Store!Fails("INVALID")
<1> DEFINE all == Store!ListsAll(line)
           one == Store!ListsOne(line)
           buy == Store!Trades(line, "buy")
           sell == Store!Trades(line, "sell")
           leave == Store!Leaves(line)
<1>1. /\ all => Len(line) = 1 /\ line[1].text = "show"
      /\ one => Len(line) = 2 /\ line[1].text = "show"
      /\ buy => line[1].text = "buy"
      /\ sell => line[1].text = "sell"
      /\ leave => line[1].text = "exit"
  BY DEF Store!ListsAll, Store!ListsOne, Store!Trades, Store!Leaves, Store!Says,
         Store!Word
<1>2. /\ all => ~one /\ ~buy /\ ~sell /\ ~leave
      /\ one => ~buy /\ ~sell /\ ~leave
      /\ buy => ~sell /\ ~leave
      /\ sell => ~leave
  BY <1>1
<1> USE DEF Store!Effect, Store!Fails, Store!NoRows, NoRows, Ids, Wrap,
            Store!Wrap, Row, Bought, Sold
<1>3. all => Store!Effect(line) = Store!Outcome("OK", left_stock, left_stock)
  BY <1>2
<1>4. one /\ id \in Ids =>
        Store!Effect(line) = Store!Outcome("OK", left_stock, Row(id))
  BY <1>2
<1>5. buy /\ id \in Ids /\ left_stock[id] < n =>
        Store!Effect(line) = Store!Fails("INSUFFICIENT")
  BY <1>2
<1>6. buy /\ id \in Ids /\ ~(left_stock[id] < n) =>
        Store!Effect(line) = Store!Outcome("OK", Bought(id, n), NoRows)
  BY <1>2
<1>7. sell /\ id \in Ids =>
        Store!Effect(line) = Store!Outcome("OK", Sold(id, n), NoRows)
  BY <1>2
<1>8. (one \/ buy \/ sell) /\ id \notin Ids =>
        Store!Effect(line) = Store!Fails("NOT_FOUND")
  BY <1>2
<1>9. leave => Store!Effect(line) = Store!Outcome("OK", left_stock, NoRows)
  BY <1>2
<1>10. all \/ one \/ buy \/ sell \/ leave
       \/ Store!Effect(line) = Store!Fails("INVALID")
  BY <1>2
<1> HIDE DEF Store!Effect, Store!Fails, Store!NoRows, NoRows, Ids, Wrap,
             Store!Wrap, Row, Bought, Sold
<1> QED BY <1>3, <1>4, <1>5, <1>6, <1>7, <1>8, <1>9, <1>10
-----------------------------------------------------------------------------
\* The mapping, worker by worker.
Pending == [w \in Workers |-> IF pc[w] = "reading" THEN NoLine ELSE buf[w]]
Reply == [w \in Workers |->
            IF Applied(w) THEN [status |-> status[w], rows |-> rows[w]]
            ELSE [status |-> "NONE", rows |-> NoRows]]

\* A worker's step leaves the others' part of the mapping alone.
LEMMA OwnPartOnly ==
  ASSUME TypeOK, NEW w \in Workers,
         (\E line \in Lines : ReadLine(w, line)) \/ Serve(w)
  PROVE  /\ Pending' = [Pending EXCEPT ![w] = Pending'[w]]
         /\ Reply' = [Reply EXCEPT ![w] = Reply'[w]]
<1>1. \A u \in Workers \ {w} :
        /\ pc'[u] = pc[u] /\ buf'[u] = buf[u]
        /\ status'[u] = status[u] /\ rows'[u] = rows[u]
  BY DEF Serve, ReadLine, Dispatch, LockStore, BeginWalk, VisitNode, EndWalk,
         ShowOne, CheckDelta, AddDelta, UnlockStore, Respond, Goto, TypeOK
<1> QED BY <1>1 DEF Pending, Reply, Applied

LEMMA InitMaps == Init => Store!Init
  BY DEF Init, Store!Init, Applied, Store!NoReply, Store!Answer, Store!NoRows,
         NoRows

LEMMA ReadLineMaps ==
  ASSUME IndInv, NEW w \in Workers, NEW line \in Lines, ReadLine(w, line)
  PROVE  Store!Request(w, line)
<1>1. /\ Pending' = [Pending EXCEPT ![w] = Pending'[w]]
      /\ Reply' = [Reply EXCEPT ![w] = Reply'[w]]
  BY OwnPartOnly DEF IndInv
<1>2. Pending[w] = NoLine /\ Pending'[w] = line /\ Reply'[w] = Reply[w]
  BY DEF ReadLine, Goto, Pending, Reply, Applied, IndInv, TypeOK
<1>3. Reply' = Reply
  BY <1>1, <1>2 DEF Reply
<1> QED BY <1>1, <1>2, <1>3 DEF Store!Request, Pending, Reply, ReadLine

LEMMA RespondMaps ==
  ASSUME IndInv, NEW w \in Workers, Respond(w)
  PROVE  Store!Respond(w)
<1>1. /\ Pending' = [Pending EXCEPT ![w] = Pending'[w]]
      /\ Reply' = [Reply EXCEPT ![w] = Reply'[w]]
  BY OwnPartOnly DEF IndInv, Serve
<1>2. Pending'[w] = NoLine /\ Reply'[w] = Store!NoReply /\ Reply[w] # Store!NoReply
  <2>1. status[w] # "NONE"
    BY DEF IndInv, TypeOK, Statuses
  <2> QED BY <2>1 DEF Respond, Goto, Pending, Reply, Applied, IndInv, TypeOK,
                 Store!NoReply, Store!Answer, Store!NoRows, NoRows
<1> QED BY <1>1, <1>2 DEF Store!Respond, Pending, Reply, Respond

\* A step that answers its request with what the abstract store would do now.
LEMMA AnswerMaps ==
  ASSUME IndInv, NEW w \in Workers, Serve(w),
         ~Applied(w), pc[w] # "reading",
         Applied(w)', buf' = buf,
         Store!Effect(buf[w]) = Store!Outcome(status'[w], left_stock', rows'[w])
  PROVE  Store!TakeEffect(w)
<1>1. /\ Pending' = [Pending EXCEPT ![w] = Pending'[w]]
      /\ Reply' = [Reply EXCEPT ![w] = Reply'[w]]
  BY OwnPartOnly DEF IndInv
<1>2. /\ Pending[w] = buf[w] /\ Pending'[w] = buf[w] /\ buf[w] # NoLine
      /\ Reply[w] = Store!NoReply
      /\ Reply'[w] = Store!Answer(status'[w], rows'[w])
  BY TradingAssumption
  DEF Applied, Pending, Reply, Store!NoReply, Store!Answer, Store!NoRows, NoRows,
      IndInv, RequestOK
<1>3. Pending' = Pending
  BY <1>1, <1>2 DEF Pending
<1>4. /\ Store!Effect(Pending[w]).store = left_stock'
      /\ Store!Effect(Pending[w]).reply = Reply'[w]
  BY <1>2 DEF Store!Outcome
<1> HIDE DEF Store!Effect
<1> QED BY <1>1, <1>2, <1>3, <1>4 DEF Store!TakeEffect, Pending, Reply

\* A step that neither answers its request nor changes the store.
LEMMA StutterMaps ==
  ASSUME IndInv, NEW w \in Workers, Serve(w),
         pc[w] # "reading", pc'[w] # "reading", UNCHANGED <<left_stock, buf>>,
         \/ ~Applied(w) /\ ~Applied(w)'
         \/ Applied(w) /\ Applied(w)' /\ UNCHANGED <<status, rows>>
  PROVE  UNCHANGED Store!vars
<1>1. /\ Pending' = [Pending EXCEPT ![w] = Pending'[w]]
      /\ Reply' = [Reply EXCEPT ![w] = Reply'[w]]
  BY OwnPartOnly DEF IndInv
<1>2. Pending'[w] = Pending[w] /\ Reply'[w] = Reply[w]
  BY DEF Pending, Reply, Applied
<1>3. Pending' = Pending
  BY <1>1, <1>2 DEF Pending
<1>4. Reply' = Reply
  BY <1>1, <1>2 DEF Reply
<1> QED BY <1>3, <1>4 DEF Store!vars, Pending, Reply

\* What a worker that holds the mutex knows of its line.
LEMMA Parsed ==
  ASSUME IndInv, NEW w \in Workers, pc[w] \in {"locked", "walking", "adding"}
  PROVE  /\ buf[w] \in Lines /\ IsLine(buf[w])
         /\ request[w] = parse_request(buf[w]) /\ request[w] \in Requests
         /\ validate_request(request[w]) = "OK" /\ status[w] = "OK"
  BY TradingAssumption DEF IndInv, TypeOK, RequestOK, HeldLabels

LEMMA DispatchMaps ==
  ASSUME IndInv, NEW w \in Workers, Dispatch(w)
  PROVE  Store!TakeEffect(w) \/ UNCHANGED Store!vars
<1> DEFINE r == parse_request(buf[w])
           v == validate_request(r)
<1>1. /\ pc[w] = "parsing" /\ status'[w] = v
      /\ UNCHANGED <<left_stock, buf, rows>>
      /\ pc'[w] = IF v = "OK" /\ r.command # "exit" THEN "lock" ELSE "respond"
  BY DEF Dispatch, Goto, IndInv, TypeOK
<1>2. IsLine(buf[w]) /\ rows[w] = NoRows
  BY <1>1, TradingAssumption DEF IndInv, RequestOK, ReadsFresh
<1>3. CASE v = "OK" /\ r.command # "exit"
  BY <1>1, <1>3, StutterMaps DEF Serve, Applied
<1>4. CASE v = "OK" /\ r.command = "exit"
  <2>1. Store!Leaves(buf[w])
    BY <1>2, <1>4, Understood
  <2>2. Store!Effect(buf[w]) = Store!Outcome(status'[w], left_stock', rows'[w])
    BY <1>1, <1>2, <1>4, <2>1, EffectByShape
  <2> QED BY <1>1, <1>4, <2>2, AnswerMaps DEF Serve, Applied
<1>5. CASE v # "OK"
  <2>1. /\ v = "INVALID"
        /\ ~Store!ListsAll(buf[w]) /\ ~Store!ListsOne(buf[w])
        /\ ~Store!Trades(buf[w], "buy") /\ ~Store!Trades(buf[w], "sell")
        /\ ~Store!Leaves(buf[w])
    BY <1>2, <1>5, Understood DEF validate_request
  <2>2. Store!Effect(buf[w]) = Store!Fails("INVALID")
    BY <2>1, EffectByShape
  <2>3. Store!Effect(buf[w]) = Store!Outcome(status'[w], left_stock', rows'[w])
    BY <1>1, <1>2, <2>1, <2>2 DEF Store!Fails, Store!NoRows, NoRows
  <2> QED BY <1>1, <1>5, <2>3, AnswerMaps DEF Serve, Applied
<1> QED BY <1>3, <1>4, <1>5

\* A walk that reaches its end has listed the store as it is now.
LEMMA EndWalkMaps ==
  ASSUME IndInv, NEW w \in Workers, EndWalk(w)
  PROVE  Store!TakeEffect(w)
<1>1. /\ pc[w] = "walking" /\ pc'[w] = "unlock" /\ Ids \subseteq DOMAIN rows[w]
      /\ UNCHANGED <<left_stock, buf, status, rows>>
  BY DEF EndWalk, Goto, IndInv, TypeOK
<1>2. rows[w] = left_stock
  BY <1>1 DEF IndInv, TypeOK, ReadsFresh
<1>3. Store!ListsAll(buf[w])
  BY <1>1, Parsed, Understood DEF IndInv, ReadsFresh
<1>4. Store!Effect(buf[w]) = Store!Outcome(status'[w], left_stock', rows'[w])
  BY <1>1, <1>2, <1>3, Parsed, EffectByShape
<1> QED BY <1>1, <1>4, AnswerMaps DEF Serve, Applied

LEMMA ShowOneMaps ==
  ASSUME IndInv, NEW w \in Workers, ShowOne(w)
  PROVE  Store!TakeEffect(w)
<1> DEFINE id == request[w].id
<1>1. /\ pc[w] = "locked" /\ pc'[w] = "unlock"
      /\ request[w].command = "show" /\ request[w].argc = 2
      /\ UNCHANGED <<left_stock, buf>>
      /\ status'[w] = IF id \in Ids THEN "OK" ELSE "NOT_FOUND"
      /\ rows'[w] = [i \in Ids \cap {id} |-> left_stock[i]]
  BY DEF ShowOne, Goto, IndInv, TypeOK
<1>2. Store!ListsOne(buf[w]) /\ id = buf[w][2].value
  BY <1>1, Parsed, Understood
<1>3. CASE id \in Ids
  <2>1. rows'[w] = Row(id)
    <3>1. Ids \cap {id} = {id}
      BY <1>3
    <3> QED BY <1>1, <3>1 DEF Row
  <2>2. Store!Effect(buf[w]) = Store!Outcome(status'[w], left_stock', rows'[w])
    BY <1>1, <1>2, <1>3, <2>1, EffectByShape
  <2> QED BY <1>1, <2>2, AnswerMaps DEF Serve, Applied
<1>4. CASE id \notin Ids
  <2>1. rows'[w] = NoRows
    <3>1. Ids \cap {id} = {}
      BY <1>4
    <3> QED BY <1>1, <3>1 DEF NoRows
  <2>2. Store!Effect(buf[w]) = Store!Outcome(status'[w], left_stock', rows'[w])
    BY <1>1, <1>2, <1>4, <2>1, EffectByShape DEF Store!Fails, Store!NoRows, NoRows
  <2> QED BY <1>1, <2>2, AnswerMaps DEF Serve, Applied
<1> QED BY <1>3, <1>4

\* A trade that fails its check has failed at that instant; one that passes it
\* has not happened yet.
LEMMA CheckDeltaMaps ==
  ASSUME IndInv, NEW w \in Workers, CheckDelta(w)
  PROVE  Store!TakeEffect(w) \/ UNCHANGED Store!vars
<1> DEFINE id == request[w].id
           n == request[w].count
           cmd == request[w].command
<1>1. /\ pc[w] = "locked" /\ cmd \in {"buy", "sell"}
      /\ UNCHANGED <<left_stock, buf, rows>> /\ rows[w] = NoRows
  BY DEF CheckDelta, Goto, IndInv, TypeOK, ReadsFresh
<1>2. /\ Store!Trades(buf[w], cmd) /\ id = buf[w][2].value
      /\ n = buf[w][3].value /\ n \in 1 .. MaxInt
  BY <1>1, Parsed, Understood, TradeCount
<1>3. CASE id \notin Ids
  <2>1. status'[w] = "NOT_FOUND" /\ pc'[w] = "unlock"
    BY <1>3 DEF CheckDelta, Goto, IndInv, TypeOK
  <2>2. Store!Effect(buf[w]) = Store!Outcome(status'[w], left_stock', rows'[w])
    BY <1>1, <1>2, <1>3, <2>1, EffectByShape DEF Store!Fails, Store!NoRows, NoRows
  <2> QED BY <1>1, <2>1, <2>2, AnswerMaps DEF Serve, Applied
<1>4. CASE id \in Ids /\ cmd = "buy" /\ left_stock[id] < n
  <2>1. delta(w) < 0 /\ left_stock[id] < -delta(w)
    BY <1>2, <1>4 DEF delta
  <2>2. status'[w] = "INSUFFICIENT" /\ pc'[w] = "unlock"
    BY <1>4, <2>1 DEF CheckDelta, Goto, IndInv, TypeOK
  <2>3. Store!Effect(buf[w]) = Store!Outcome(status'[w], left_stock', rows'[w])
    BY <1>1, <1>2, <1>4, <2>2, EffectByShape DEF Store!Fails, Store!NoRows, NoRows
  <2> QED BY <1>1, <2>2, <2>3, AnswerMaps DEF Serve, Applied
<1>5. CASE id \in Ids /\ ~(cmd = "buy" /\ left_stock[id] < n)
  <2>1. ~(delta(w) < 0 /\ left_stock[id] < -delta(w))
    BY <1>1, <1>2, <1>5 DEF delta
  <2>2. pc'[w] = "adding"
    BY <1>5, <2>1 DEF CheckDelta, Goto, IndInv, TypeOK
  <2> QED BY <1>1, <2>2, StutterMaps DEF Serve, Applied
<1> QED BY <1>3, <1>4, <1>5

\* The one assignment of a trade: the quantity read for the check is still the
\* quantity of the store, so the whole delta is added to what is there.
LEMMA AddDeltaIs ==
  ASSUME IndInv, NEW w \in Workers, AddDelta(w)
  PROVE  LET id == request[w].id
             n == request[w].count
         IN  /\ pc[w] = "adding" /\ pc'[w] = "unlock"
             /\ id \in Ids /\ left_stock[id] \in Ints /\ n \in 1 .. MaxInt
             /\ found[w] = left_stock[id]
             /\ UNCHANGED <<buf, status, rows>>
             /\ rows[w] = NoRows /\ status[w] = "OK"
             /\ \/ /\ request[w].command = "buy" /\ left_stock[id] >= n
                   /\ Store!Trades(buf[w], "buy")
                   /\ left_stock' = [left_stock EXCEPT ![id] = left_stock[id] - n]
                \/ /\ request[w].command = "sell"
                   /\ Store!Trades(buf[w], "sell")
                   /\ left_stock' = [left_stock EXCEPT ![id] = Wrap(left_stock[id] + n)]
             /\ id = buf[w][2].value /\ n = buf[w][3].value
<1> DEFINE id == request[w].id
           n == request[w].count
<1>1. /\ pc[w] = "adding" /\ pc'[w] = "unlock" /\ UNCHANGED <<buf, status, rows>>
      /\ rows[w] = NoRows /\ status[w] = "OK" /\ id \in Ids
      /\ left_stock[id] \in Ints /\ request[w].command \in {"buy", "sell"}
      /\ found[w] = left_stock[id] /\ ~(delta(w) < 0 /\ found[w] < -delta(w))
      /\ left_stock' = [left_stock EXCEPT ![id] = Wrap(found[w] + delta(w))]
  BY DEF AddDelta, Goto, IndInv, TypeOK, RequestOK, ReadsFresh
<1>2. /\ Store!Trades(buf[w], request[w].command) /\ id = buf[w][2].value
      /\ n = buf[w][3].value /\ n \in 1 .. MaxInt
  BY <1>1, Parsed, Understood, TradeCount
<1>3. CASE request[w].command = "buy"
  <2>1. delta(w) = -n /\ left_stock[id] >= n
    BY <1>1, <1>2, <1>3 DEF delta, Ints
  <2>2. Wrap(found[w] + delta(w)) = left_stock[id] - n
    BY <1>1, <1>2, <2>1, MaxIntAssumption DEF Wrap, Ints
  <2> QED BY <1>1, <1>2, <1>3, <2>1, <2>2
<1>4. CASE request[w].command = "sell"
  BY <1>1, <1>2, <1>4 DEF delta
<1> QED BY <1>1, <1>3, <1>4

LEMMA AddDeltaMaps ==
  ASSUME IndInv, NEW w \in Workers, AddDelta(w)
  PROVE  Store!TakeEffect(w)
<1> DEFINE id == request[w].id
           n == request[w].count
<1>1. /\ pc[w] = "adding" /\ pc'[w] = "unlock"
      /\ id \in Ids /\ left_stock[id] \in Int /\ n \in Int
      /\ UNCHANGED <<buf, rows>>
      /\ rows'[w] = NoRows /\ status'[w] = "OK"
      /\ id = buf[w][2].value /\ n = buf[w][3].value
  BY AddDeltaIs DEF Ints
<1>2. \/ /\ left_stock[id] >= n /\ Store!Trades(buf[w], "buy")
         /\ left_stock' = [left_stock EXCEPT ![id] = left_stock[id] - n]
      \/ /\ Store!Trades(buf[w], "sell")
         /\ left_stock' = [left_stock EXCEPT ![id] = Wrap(left_stock[id] + n)]
  BY AddDeltaIs
<1>3. \/ /\ ~(left_stock[id] < n) /\ Store!Trades(buf[w], "buy")
         /\ left_stock' = Bought(id, n)
      \/ /\ Store!Trades(buf[w], "sell")
         /\ left_stock' = Sold(id, n)
  <2>1. left_stock[id] >= n => ~(left_stock[id] < n)
    BY <1>1
  <2> QED BY <1>2, <2>1 DEF Bought, Sold
<1>4. Store!Effect(buf[w]) = Store!Outcome(status'[w], left_stock', rows'[w])
  <2> HIDE DEF id, n
  <2> QED BY <1>1, <1>3, EffectByShape
<1> QED BY <1>1, <1>4, AnswerMaps DEF Serve, Applied

LEMMA StepMaps == IndInv /\ [Next]_vars => [Store!Next]_(Store!vars)
<1> SUFFICES ASSUME IndInv, [Next]_vars PROVE [Store!Next]_(Store!vars)
  OBVIOUS
<1>1. CASE UNCHANGED vars
  BY <1>1 DEF vars, Store!vars, Applied
<1>2. ASSUME NEW w \in Workers, NEW line \in Lines, ReadLine(w, line)
      PROVE  Store!Next
  BY <1>2, ReadLineMaps DEF Store!Next
<1>3. ASSUME NEW w \in Workers, Serve(w)
      PROVE  Store!TakeEffect(w) \/ Store!Respond(w) \/ UNCHANGED Store!vars
  <2>1. CASE LockStore(w) \/ BeginWalk(w) \/ VisitNode(w)
    <3>1. /\ pc[w] # "reading" /\ pc'[w] # "reading"
          /\ ~Applied(w) /\ ~Applied(w)' /\ UNCHANGED <<left_stock, buf>>
      BY <2>1 DEF LockStore, BeginWalk, VisitNode, Goto, Applied, IndInv, TypeOK
    <3> QED BY <1>3, <3>1, StutterMaps
  <2>2. CASE UnlockStore(w)
    <3>1. /\ pc[w] # "reading" /\ pc'[w] # "reading"
          /\ Applied(w) /\ Applied(w)'
          /\ UNCHANGED <<left_stock, buf, status, rows>>
      BY <2>2 DEF UnlockStore, Goto, Applied, IndInv, TypeOK
    <3> QED BY <1>3, <3>1, StutterMaps
  <2> QED BY <1>3, <2>1, <2>2, DispatchMaps, EndWalkMaps, ShowOneMaps,
             CheckDeltaMaps, AddDeltaMaps, RespondMaps DEF Serve
<1> QED BY <1>1, <1>2, <1>3 DEF Next, Store!Next

\* Concurrent requests on the store behind one mutex are answered as an atomic
\* store would answer them.
THEOREM TradingIsAtomic == Spec => ImplementsAtomicStore
<1>1. Init => Store!Init
  BY InitMaps
<1>2. IndInv /\ [Next]_vars => [Store!Next]_(Store!vars)
  BY StepMaps
<1> QED BY <1>1, <1>2, IndInvariant, PTL
        DEF Spec, ImplementsAtomicStore, Store!Spec
-----------------------------------------------------------------------------
\* Nothing but AddDelta changes the store.
LEMMA OnlyAddDelta ==
  ASSUME [Next]_vars, left_stock' # left_stock
  PROVE  \E w \in Workers : AddDelta(w)
  BY DEF Next, vars, Serve, ReadLine, Dispatch, LockStore, BeginWalk, VisitNode,
         EndWalk, ShowOne, CheckDelta, UnlockStore, Respond

\* ... and what AddDelta does to the store, id by id.
LEMMA AddDeltaAt ==
  ASSUME IndInv, NEW w \in Workers, AddDelta(w), NEW i \in Ids
  PROVE  LET id == request[w].id
             n == request[w].count
         IN  /\ id \in Ids /\ pc[w] = "adding" /\ status'[w] = "OK"
             /\ left_stock[i] \in Int /\ n \in Int
             /\ i # id => left_stock'[i] = left_stock[i]
             /\ i = id => left_stock'[i] = Wrap(left_stock[i] + delta(w))
             /\ i = id => \/ request[w].command = "buy" /\ left_stock'[i] >= 0
                          \/ /\ request[w].command = "sell"
                             /\ left_stock'[i] = Wrap(left_stock[i] + n)
<1> DEFINE id == request[w].id
           n == request[w].count
<1>1. /\ id \in Ids /\ pc[w] = "adding" /\ status'[w] = "OK" /\ n \in Int
      /\ found[w] = left_stock[id]
      /\ left_stock \in [Ids -> Ints]
      /\ left_stock' = [left_stock EXCEPT ![id] = Wrap(found[w] + delta(w))]
  <2>1. /\ id \in Ids /\ pc[w] = "adding" /\ status'[w] = "OK"
        /\ found[w] = left_stock[id] /\ n \in Int
    BY AddDeltaIs
  <2>2. left_stock \in [Ids -> Ints]
    BY DEF IndInv, TypeOK
  <2>3. left_stock' = [left_stock EXCEPT ![id] = Wrap(found[w] + delta(w))]
    BY DEF AddDelta
  <2> QED BY <2>1, <2>2, <2>3
<1>2. \/ /\ request[w].command = "buy" /\ left_stock[id] >= n
         /\ left_stock' = [left_stock EXCEPT ![id] = left_stock[id] - n]
      \/ /\ request[w].command = "sell"
         /\ left_stock' = [left_stock EXCEPT ![id] = Wrap(left_stock[id] + n)]
  BY AddDeltaIs
<1>3. left_stock[i] \in Int /\ left_stock[id] \in Int
  BY <1>1 DEF Ints
<1>4. i # id => left_stock'[i] = left_stock[i]
  BY <1>1
<1>5. i = id => left_stock'[i] = Wrap(left_stock[i] + delta(w))
  BY <1>1
<1>6. i = id => \/ request[w].command = "buy" /\ left_stock'[i] >= 0
                \/ /\ request[w].command = "sell"
                   /\ left_stock'[i] = Wrap(left_stock[i] + n)
  <2>1. left_stock[id] >= n => left_stock[id] - n >= 0
    BY <1>1, <1>3
  <2> QED BY <1>1, <1>2, <2>1
<1> QED BY <1>1, <1>3, <1>4, <1>5, <1>6

\* No lost update, for any number of concurrent trades.
THEOREM NoLostUpdate == Spec => OneTradeAtATime
<1>1. IndInv /\ [Next]_vars => WholeDelta
  <2> SUFFICES ASSUME IndInv, [Next]_vars, NEW i \in Ids,
                      left_stock'[i] # left_stock[i]
               PROVE  \E w \in Workers :
                        /\ pc[w] = "adding" /\ status'[w] = "OK"
                        /\ request[w].id = i
                        /\ left_stock'[i] = Wrap(left_stock[i] + delta(w))
                        /\ \A j \in Ids \ {i} : left_stock'[j] = left_stock[j]
    BY DEF WholeDelta
  <2>1. PICK w \in Workers : AddDelta(w)
    BY OnlyAddDelta
  <2> QED BY <2>1, AddDeltaAt
<1> QED BY <1>1, IndInvariant, PTL DEF Spec, OneTradeAtATime

\* No interleaving of requests oversells; the one way below zero is a sell
\* whose sum does not fit an int.
THEOREM NoOversell == Spec => BuysNeverOversell
<1>1. IndInv /\ [Next]_vars => OnlyOverflowGoesNegative
  <2> SUFFICES ASSUME IndInv, [Next]_vars, NEW i \in Ids,
                      left_stock[i] >= 0, left_stock'[i] < 0
               PROVE  \E w \in Workers :
                        /\ pc[w] = "adding" /\ request[w].command = "sell"
                        /\ left_stock[i] + request[w].count > MaxInt
    BY DEF OnlyOverflowGoesNegative
  <2>1. left_stock[i] \in Int
    BY DEF IndInv, TypeOK, Ints
  <2>2. left_stock' # left_stock
    BY <2>1
  <2>3. PICK w \in Workers : AddDelta(w)
    BY <2>2, OnlyAddDelta
  <2> DEFINE n == request[w].count
  <2>4. /\ pc[w] = "adding" /\ n \in 1 .. MaxInt
        /\ i # request[w].id => left_stock'[i] = left_stock[i]
        /\ i = request[w].id => \/ request[w].command = "buy" /\ left_stock'[i] >= 0
                                \/ /\ request[w].command = "sell"
                                   /\ left_stock'[i] = Wrap(left_stock[i] + n)
    BY <2>3, AddDeltaAt, AddDeltaIs
  <2>5. /\ request[w].command = "sell"
        /\ left_stock'[i] = Wrap(left_stock[i] + n)
    <3>1. i = request[w].id
      BY <2>1, <2>4
    <3>2. left_stock'[i] \in Int
      <4>1. left_stock' \in [Ids' -> Ints]
        BY IndStep DEF IndInv, TypeOK
      <4>2. Ids' = Ids
        BY <2>3 DEF AddDelta, Ids
      <4> QED BY <4>1, <4>2 DEF Ints
    <3>3. ~(left_stock'[i] >= 0)
      BY <3>2
    <3> QED BY <2>4, <3>1, <3>3
  <2>6. left_stock[i] + n > MaxInt
    BY <2>1, <2>4, <2>5, MaxIntAssumption DEF Wrap
  <2> QED BY <2>4, <2>5, <2>6
<1> QED BY <1>1, IndInvariant, PTL DEF Spec, BuysNeverOversell
=============================================================================
