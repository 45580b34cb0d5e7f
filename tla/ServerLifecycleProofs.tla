------------------------ MODULE ServerLifecycleProofs ------------------------
(***************************************************************************)
(* For any number of workers, connections and signals and any queue size:  *)
(* each worker of stock_server.c ends by a stop pill of its own, and when  *)
(* run_server_stub returns nothing it accepted is left undone.             *)
(***************************************************************************)
EXTENDS ServerLifecycle, FiniteSetTheorems, FunctionTheorems,
        SequenceTheorems, TLAPS

QueueTypeOK ==
  /\ offer \in Conns \cup {Stop, NoConn}
  /\ waiting \subseteq Workers
  /\ taken \in [Workers -> Conns \cup {Stop, NoConn}]

\* The queue's calls are pending exactly while their callers wait for them.
CallsMatch ==
  /\ main = "inserting" <=> offer # NoConn
  /\ \A w \in Workers : w \in waiting <=> worker[w] = "removing"

\* The accept loop is over before the first pill is made ...
LoopBeforePills ==
  main \in {"testing", "calling", "accepting"} \/ offer \in Conns =>
    pills = 0

\* ... so that pills come behind all connections, in the queue and out of it.
PillsLast ==
  /\ \A k \in DOMAIN queue : queue[k] = Stop =>
       /\ offer \notin Conns
       /\ \A j \in DOMAIN queue : k <= j => queue[j] = Stop
  /\ Ended # {} =>
       /\ offer \notin Conns
       /\ \A k \in DOMAIN queue : queue[k] = Stop

\* An accepted connection is on its way to a worker or served by one.
Tracked ==
  /\ \A c \in Conns : conn[c] = "accepted" =>
       \/ offer = c
       \/ \E k \in DOMAIN queue : queue[k] = c
       \/ \E w \in Workers : worker[w] = "serving" /\ taken[w] = c
  /\ \A w \in Workers : worker[w] = "serving" => taken[w] \in Conns

ReturnedIdle ==
  main = "returned" => /\ outcome \notin {"running", "failing"}
                       /\ StableWhenReturned

IndInv ==
  /\ TypeOK /\ QueueTypeOK /\ CallsMatch /\ LoopBeforePills /\ PillsLast
  /\ Tracked /\ PillsAccounted /\ ReturnedIdle
-----------------------------------------------------------------------------
Values == Conns \cup {Stop}
\* The positions that hold a pill.
Pills(q) == {k \in DOMAIN q : q[k] = Stop}

\* They are finitely many, and none if no value is a pill.
LEMMA PillsFinite ==
  ASSUME NEW q \in Seq(Values)
  PROVE  /\ IsFiniteSet(Pills(q)) /\ PillsIn(q) = Cardinality(Pills(q))
         /\ PillsIn(q) \in Nat
         /\ PillsIn(q) = 0 <=> \A k \in DOMAIN q : q[k] # Stop
<1>1. DOMAIN q = 1 .. Len(q) /\ Len(q) \in Nat
  BY LenProperties
<1>2. IsFiniteSet(1 .. Len(q))
  BY <1>1, FS_Interval
<1>3. Pills(q) \in SUBSET (1 .. Len(q))
  BY <1>1 DEF Pills
<1>4. IsFiniteSet(Pills(q))
  BY <1>2, <1>3, FS_Subset
<1>5. PillsIn(q) = Cardinality(Pills(q))
  BY DEF PillsIn, Pills
<1>6. Pills(q) = {} <=> \A k \in DOMAIN q : q[k] # Stop
  BY DEF Pills
<1> QED BY <1>4, <1>5, <1>6, FS_CardinalityType, FS_EmptySet

\* Inserting a pill adds one, inserting a connection none.
LEMMA PillsAppend ==
  ASSUME NEW q \in Seq(Values), NEW v \in Values
  PROVE  PillsIn(Append(q, v)) = PillsIn(q) + (IF v = Stop THEN 1 ELSE 0)
<1> DEFINE n == Len(q) + 1
<1>1. /\ DOMAIN q = 1 .. Len(q) /\ Len(q) \in Nat
      /\ DOMAIN Append(q, v) = 1 .. n
      /\ \A k \in 1 .. Len(q) : Append(q, v)[k] = q[k]
      /\ Append(q, v)[n] = v
  BY LenProperties
<1>2. n \notin Pills(q)
  BY <1>1 DEF Pills
<1>3. CASE v = Stop
  <2>1. Pills(Append(q, v)) = Pills(q) \cup {n}
    BY <1>1, <1>3 DEF Pills
  <2>2. Cardinality(Pills(q) \cup {n}) = Cardinality(Pills(q)) + 1
    BY <1>2, PillsFinite, FS_AddElement
  <2>3. PillsIn(Append(q, v)) = Cardinality(Pills(Append(q, v)))
    BY DEF PillsIn, Pills
  <2> QED BY <1>3, <2>1, <2>2, <2>3, PillsFinite
<1>4. CASE v # Stop
  <2>1. Pills(Append(q, v)) = Pills(q)
    BY <1>1, <1>4 DEF Pills
  <2>2. PillsIn(Append(q, v)) = PillsIn(q)
    BY <2>1 DEF PillsIn, Pills
  <2> QED BY <1>4, <2>2, PillsFinite
<1> QED BY <1>3, <1>4

\* Removing a pill takes one away, removing a connection none.
LEMMA PillsTail ==
  ASSUME NEW q \in Seq(Values), q # <<>>
  PROVE  PillsIn(q) = PillsIn(Tail(q)) + (IF Head(q) = Stop THEN 1 ELSE 0)
<1> DEFINE T == Pills(Tail(q))
           R == Pills(q) \ {1}
           shift == [k \in T |-> k + 1]
<1>1. /\ DOMAIN q = 1 .. Len(q) /\ Len(q) \in Nat \ {0}
      /\ Tail(q) \in Seq(Values)
      /\ DOMAIN Tail(q) = 1 .. Len(q) - 1
      /\ \A k \in 1 .. Len(q) - 1 : Tail(q)[k] = q[k + 1]
      /\ Head(q) = q[1]
  <2>1. Len(q) \in Nat \ {0} /\ DOMAIN q = 1 .. Len(q)
    BY LenProperties, EmptySeq
  <2>2. /\ Tail(q) \in Seq(Values) /\ Len(Tail(q)) = Len(q) - 1
        /\ \A k \in 1 .. Len(Tail(q)) : Tail(q)[k] = q[k + 1]
    BY HeadTailProperties
  <2>3. DOMAIN Tail(q) = 1 .. Len(Tail(q))
    BY <2>2, LenProperties
  <2> QED BY <2>1, <2>2, <2>3
<1>2. T \subseteq Nat /\ R \subseteq Nat
  BY <1>1 DEF Pills
<1>3. \A k \in T : k + 1 \in R
  BY <1>1 DEF Pills
<1>4. \A k \in R : k - 1 \in T
  BY <1>1 DEF Pills
<1>5. shift \in Bijection(T, R)
  <2>1. shift \in [T -> R]
    BY <1>3
  <2>2. \A j, k \in T : shift[j] = shift[k] => j = k
    BY <1>2
  <2>3. \A k \in R : \E j \in T : shift[j] = k
    <3> TAKE k \in R
    <3>1. k - 1 \in T /\ shift[k - 1] = k
      BY <1>2, <1>4
    <3> QED BY <3>1
  <2> HIDE DEF shift
  <2> QED BY <2>1, <2>2, <2>3, Fun_IsBij
<1>6. Cardinality(R) = Cardinality(T)
  <2>1. ExistsBijection(T, R)
    BY <1>5 DEF ExistsBijection
  <2>2. IsFiniteSet(T)
    BY <1>1, PillsFinite
  <2> QED BY <2>1, <2>2, FS_Bijection
<1>7. Cardinality(R) = IF 1 \in Pills(q) THEN Cardinality(Pills(q)) - 1
                                         ELSE Cardinality(Pills(q))
  BY PillsFinite, FS_RemoveElement
<1>8. 1 \in Pills(q) <=> Head(q) = Stop
  BY <1>1 DEF Pills
<1>9. /\ PillsIn(q) = Cardinality(Pills(q)) /\ PillsIn(q) \in Nat
      /\ PillsIn(Tail(q)) = Cardinality(T) /\ PillsIn(Tail(q)) \in Nat
  BY <1>1, PillsFinite
<1> QED BY <1>6, <1>7, <1>8, <1>9
-----------------------------------------------------------------------------
\* The workers that ended are finitely many; as many as were created are all.
LEMMA EndedFinite ==
  /\ IsFiniteSet(Ended) /\ Cardinality(Ended) \in Nat
  /\ created \in Nat
  /\ Cardinality(Ended) = 0 <=> Ended = {}
  /\ Cardinality(Ended) = created => Ended = Workers
<1>1. Ended \in SUBSET Workers
  BY DEF Ended
<1> QED
  BY <1>1, LifecycleAssumption, FS_Subset, FS_CardinalityType, FS_EmptySet
  DEF created

\* The server starts with an empty queue, no pill made and no worker ended.
LEMMA IndInit == Init => IndInv
<1> SUFFICES ASSUME Init PROVE IndInv
  OBVIOUS
<1>1. queue = <<>> /\ offer = NoConn /\ waiting = {}
      /\ taken = [w \in Workers |-> NoConn]
  BY DEF Init, Queue!Init
<1>2. /\ <<>> \in Seq(Values) /\ Len(<<>>) = 0 /\ PillsIn(<<>>) = 0
      /\ DOMAIN <<>> = {}
  <2>1. <<>> \in Seq(Values) /\ Len(<<>>) = 0 /\ DOMAIN <<>> = {}
    BY EmptySeq
  <2> QED BY <2>1, PillsFinite
<1>3. Ended = {} /\ Cardinality(Ended) = 0
  <2>1. Ended = {}
    BY DEF Ended, Init
  <2> QED BY <2>1, FS_EmptySet
<1>4. TypeOK
  <2>1. shutdown_requested \in BOOLEAN
    BY DEF Init
  <2>2. pills \in 0 .. created /\ signals \in 0 .. MaxSignals
    BY EndedFinite, LifecycleAssumption DEF Init
  <2>3. queue \in Seq(Conns \cup {Stop}) /\ Len(queue) <= QueueSize
    BY <1>1, <1>2, LifecycleAssumption DEF Values
  <2> QED BY <2>1, <2>2, <2>3 DEF Init, TypeOK
<1>5. PillsAccounted
  BY <1>1, <1>2, <1>3, LifecycleAssumption DEF Init, PillsAccounted
<1> QED
  BY <1>1, <1>2, <1>3, <1>4, <1>5, LifecycleAssumption
  DEF Init, IndInv, QueueTypeOK, CallsMatch, LoopBeforePills, PillsLast,
      Tracked, ReturnedIdle

\* Steps that leave the queue and the ends of the workers alone.
LEMMA QueueUntouched ==
  ASSUME IndInv, Running, UNCHANGED <<queueVars, pills, worker>>
  PROVE  /\ PillsAccounted' /\ QueueTypeOK'
         /\ PillsLast'
<1>1. UNCHANGED <<queue, offer, waiting, taken, pills, Ended>>
  BY DEF queueVars, Ended
<1> QED
  BY <1>1
  DEF IndInv, PillsAccounted, QueueTypeOK, PillsLast

\* Only joining returns, and until then there is nothing to be idle about.
LEMMA NotReturned ==
  ASSUME IndInv, Running
  PROVE  main # "returned"
  BY DEF IndInv, Running, ReturnedIdle

\* Clients, signals, and main's steps that touch no connection.
LEMMA AloneStep ==
  ASSUME IndInv, Running,
         \/ TestFlag \/ CallAccept \/ AcceptFails
         \/ (\E c \in Conns : Connect(c))
         \/ (\E w \in Workers : ConnectionBreaks(w))
         \/ (\E t \in Receivers : Signal(t))
  PROVE  IndInv'
<1>1. UNCHANGED <<queueVars, pills, worker>>
  BY DEF TestFlag, CallAccept, AcceptFails, Connect, ConnectionBreaks, Exit, Signal
<1>2. UNCHANGED <<queue, offer, waiting, taken>>
  BY <1>1 DEF queueVars
<1>3. PillsAccounted' /\ QueueTypeOK' /\ PillsLast'
  BY <1>1, QueueUntouched
<1>4. main # "returned" /\ main' # "returned"
  BY NotReturned
  DEF TestFlag, CallAccept, AcceptFails, Connect, ConnectionBreaks, Exit, Signal
<1>5. TypeOK'
  <2>1. shutdown_requested' \in BOOLEAN
    BY DEF IndInv, TypeOK, TestFlag, CallAccept, AcceptFails, Connect,
           ConnectionBreaks, Exit, Signal
  <2>2. signals' \in 0 .. MaxSignals
    BY LifecycleAssumption
    DEF IndInv, TypeOK, TestFlag, CallAccept, AcceptFails, Connect,
        ConnectionBreaks, Exit, Signal
  <2>3. main' \in {"testing", "calling", "accepting", "inserting", "stopping", "returned"}
    BY DEF IndInv, TypeOK, TestFlag, CallAccept, AcceptFails, Connect,
           ConnectionBreaks, Exit, Signal
  <2>4. /\ conn' \in [Conns -> {"away", "backlog", "accepted", "closed"}]
        /\ outcome' \in {"running", "failing", "OK", "INTERNAL", "exit"}
    BY DEF IndInv, TypeOK, TestFlag, CallAccept, AcceptFails, Connect,
           ConnectionBreaks, Exit, Signal
  <2>5. UNCHANGED created
    BY DEF created
  <2> QED BY <1>1, <1>2, <2>1, <2>2, <2>3, <2>4, <2>5 DEF IndInv, TypeOK
<1>6. CallsMatch' /\ LoopBeforePills'
  BY <1>1, <1>2
  DEF IndInv, CallsMatch, LoopBeforePills, TestFlag, CallAccept, AcceptFails,
      Connect, ConnectionBreaks, Exit, Signal
<1>7. Tracked'
  BY <1>1, <1>2
  DEF IndInv, TypeOK, Tracked, TestFlag, CallAccept, AcceptFails, Connect,
      ConnectionBreaks, Exit, Signal
<1> QED BY <1>3, <1>4, <1>5, <1>6, <1>7 DEF IndInv, ReturnedIdle

\* No pill made: none in the queue, and no worker ended.
LEMMA NoPills ==
  ASSUME IndInv, pills = 0
  PROVE  /\ offer # Stop /\ Ended = {}
         /\ \A k \in DOMAIN queue : queue[k] # Stop
<1>1. queue \in Seq(Values)
  BY DEF IndInv, TypeOK, Values
<1>2. /\ PillsIn(queue) \in Nat
      /\ PillsIn(queue) = 0 <=> \A k \in DOMAIN queue : queue[k] # Stop
  BY <1>1, PillsFinite
<1> QED BY <1>2, EndedFinite DEF IndInv, PillsAccounted

\* A connection is accepted while no pill exists.
LEMMA AcceptStep ==
  ASSUME IndInv, Running, NEW c \in Conns, Accept(c)
  PROVE  IndInv'
<1>1. /\ main = "accepting" /\ main' = "inserting" /\ pills = 0
      /\ offer = NoConn /\ offer' = c
      /\ conn' = [conn EXCEPT ![c] = "accepted"]
      /\ UNCHANGED <<pills, shutdown_requested, signals, worker, outcome,
                     queue, waiting, taken>>
  BY DEF Accept, Queue!BeginInsert, IndInv, LoopBeforePills
<1>2. UNCHANGED <<Ended, created>>
  BY <1>1 DEF Ended, created
<1>3. TypeOK' /\ QueueTypeOK'
  BY <1>1, <1>2 DEF IndInv, TypeOK, QueueTypeOK
<1>4. CallsMatch' /\ LoopBeforePills' /\ ReturnedIdle'
  BY <1>1, LifecycleAssumption
  DEF IndInv, CallsMatch, LoopBeforePills, ReturnedIdle
<1>5. PillsLast'
  BY <1>1, <1>2, NoPills DEF PillsLast
<1>6. PillsAccounted'
  BY <1>1, <1>2, LifecycleAssumption DEF IndInv, PillsAccounted
<1>7. Tracked'
  BY <1>1, LifecycleAssumption DEF IndInv, TypeOK, Tracked
<1> QED BY <1>3, <1>4, <1>5, <1>6, <1>7 DEF IndInv

\* What insert and remove do to the positions of the queue.
LEMMA Appended ==
  ASSUME NEW q \in Seq(Values), NEW v \in Values
  PROVE  /\ Append(q, v) \in Seq(Values) /\ Len(Append(q, v)) = Len(q) + 1
         /\ DOMAIN q = 1 .. Len(q) /\ Len(q) \in Nat
         /\ DOMAIN Append(q, v) = 1 .. Len(q) + 1
         /\ \A k \in 1 .. Len(q) : Append(q, v)[k] = q[k]
         /\ Append(q, v)[Len(q) + 1] = v
  BY LenProperties

\* The value main offers goes to the rear of the queue.
LEMMA InsertedStep ==
  ASSUME IndInv, Running, Inserted
  PROVE  IndInv'
<1>1. /\ main = "inserting" /\ offer # NoConn /\ offer' = NoConn
      /\ main' = IF offer = Stop THEN "stopping" ELSE "testing"
      /\ Len(queue) < QueueSize /\ queue' = Append(queue, offer)
      /\ UNCHANGED <<pills, shutdown_requested, signals, worker, conn, outcome,
                     waiting, taken>>
  BY DEF Inserted, Queue!Insert
<1>2. UNCHANGED <<Ended, created>>
  BY <1>1 DEF Ended, created
<1>3. queue \in Seq(Values) /\ offer \in Values
  BY <1>1 DEF IndInv, TypeOK, QueueTypeOK, Values
<1>4. /\ queue' \in Seq(Values) /\ Len(queue') = Len(queue) + 1
      /\ DOMAIN queue = 1 .. Len(queue) /\ Len(queue) \in Nat
      /\ DOMAIN queue' = 1 .. Len(queue) + 1
      /\ \A k \in 1 .. Len(queue) : queue'[k] = queue[k]
      /\ queue'[Len(queue) + 1] = offer
  BY <1>1, <1>3, Appended
<1>5. TypeOK' /\ QueueTypeOK'
  <2>1. Len(queue') <= QueueSize
    BY <1>1, <1>4, LifecycleAssumption
  <2>2. main' \in {"stopping", "testing"}
    BY <1>1
  <2>3. offer' \in Conns \cup {Stop, NoConn}
    BY <1>1
  <2> QED BY <1>1, <1>2, <1>4, <2>1, <2>2, <2>3
          DEF IndInv, TypeOK, QueueTypeOK, Values
<1>6. CallsMatch' /\ ReturnedIdle'
  BY <1>1 DEF IndInv, CallsMatch, ReturnedIdle
<1>7. LoopBeforePills'
  BY <1>1, <1>3, LifecycleAssumption DEF IndInv, LoopBeforePills, Values
<1>8. PillsLast'
  <2>1. CASE offer = Stop
    BY <1>1, <1>2, <1>4, <2>1, LifecycleAssumption DEF IndInv, PillsLast
  <2>2. CASE offer \in Conns
    <3>1. pills = 0
      BY <2>2 DEF IndInv, LoopBeforePills
    <3> QED BY <1>2, <1>4, <2>2, <3>1, NoPills, LifecycleAssumption DEF PillsLast
  <2> QED BY <1>3, <2>1, <2>2 DEF Values
<1>9. PillsAccounted'
  <2>1. PillsIn(queue') = PillsIn(queue) + (IF offer = Stop THEN 1 ELSE 0)
    BY <1>1, <1>3, PillsAppend
  <2>2. PillsIn(queue) \in Nat
    BY <1>3, PillsFinite
  <2> QED BY <1>1, <1>2, <2>1, <2>2, EndedFinite, LifecycleAssumption
          DEF IndInv, PillsAccounted
<1>10. Tracked'
  BY <1>1, <1>4 DEF IndInv, Tracked
<1> QED BY <1>5, <1>6, <1>7, <1>8, <1>9, <1>10 DEF IndInv

\* stop_workers makes a pill, the accept loop being over.
LEMMA InsertPillStep ==
  ASSUME IndInv, Running, InsertPill
  PROVE  IndInv'
<1>1. /\ main = "stopping" /\ main' = "inserting" /\ pills < created
      /\ pills' = pills + 1 /\ offer = NoConn /\ offer' = Stop
      /\ UNCHANGED <<shutdown_requested, signals, worker, conn, outcome,
                     queue, waiting, taken>>
  BY DEF InsertPill, Queue!BeginInsert
<1>2. UNCHANGED <<Ended, created>>
  BY <1>1 DEF Ended, created
<1>3. TypeOK' /\ QueueTypeOK'
  <2>1. pills' \in 0 .. created
    BY <1>1, EndedFinite DEF IndInv, TypeOK
  <2> QED BY <1>1, <1>2, <2>1 DEF IndInv, TypeOK, QueueTypeOK
<1>4. CallsMatch' /\ LoopBeforePills' /\ ReturnedIdle'
  BY <1>1, LifecycleAssumption
  DEF IndInv, CallsMatch, LoopBeforePills, ReturnedIdle
<1>5. PillsLast'
  BY <1>1, <1>2, LifecycleAssumption DEF IndInv, PillsLast
<1>6. PillsAccounted'
  <2>1. PillsIn(queue) \in Nat
    BY PillsFinite DEF IndInv, TypeOK, Values
  <2> QED BY <1>1, <1>2, <2>1, EndedFinite, LifecycleAssumption
          DEF IndInv, PillsAccounted
<1>7. Tracked'
  BY <1>1, LifecycleAssumption DEF IndInv, Tracked
<1> QED BY <1>3, <1>4, <1>5, <1>6, <1>7 DEF IndInv

\* The heart of it: when the workers are joined, the pills are all taken, and
\* since connections came before them so are those.
LEMMA JoinAllStep ==
  ASSUME IndInv, Running, JoinAll
  PROVE  IndInv'
<1>1. /\ main = "stopping" /\ main' = "returned" /\ pills = created
      /\ outcome' \in {"OK", "INTERNAL"}
      /\ \A w \in Workers : worker[w] = "finished"
      /\ UNCHANGED <<pills, shutdown_requested, signals, worker, conn,
                     queue, offer, waiting, taken>>
  BY DEF JoinAll, Return, queueVars
<1>2. UNCHANGED <<Ended, created>>
  BY <1>1 DEF Ended, created
<1>3. offer = NoConn
  BY <1>1 DEF IndInv, CallsMatch
<1>4. Ended = Workers /\ Ended # {} /\ Cardinality(Ended) = created
  BY <1>1, LifecycleAssumption DEF Ended, created
<1>5. queue \in Seq(Values)
  BY DEF IndInv, TypeOK, Values
<1>6. queue = <<>>
  <2>1. \A k \in DOMAIN queue : queue[k] # Stop
    <3>1. PillsIn(queue) = 0
      BY <1>1, <1>3, <1>4, <1>5, PillsFinite, EndedFinite, LifecycleAssumption
      DEF IndInv, PillsAccounted
    <3> QED BY <1>5, <3>1, PillsFinite
  <2>2. \A k \in DOMAIN queue : queue[k] = Stop
    BY <1>4 DEF IndInv, PillsLast
  <2>3. DOMAIN queue = 1 .. Len(queue) /\ Len(queue) \in Nat
    BY <1>5, LenProperties
  <2>4. Len(queue) = 0
    BY <2>1, <2>2, <2>3
  <2> QED BY <1>5, <2>4, EmptySeq
<1>7. \A c \in Conns : conn[c] # "accepted"
  <2>1. DOMAIN queue = {}
    BY <1>5, <1>6, LenProperties, EmptySeq
  <2> QED BY <1>1, <1>3, <2>1, LifecycleAssumption DEF IndInv, Tracked
<1>8. ReturnedIdle'
  BY <1>1, <1>6, <1>7 DEF ReturnedIdle, StableWhenReturned
<1>9. TypeOK' /\ QueueTypeOK'
  BY <1>1, <1>2 DEF IndInv, TypeOK, QueueTypeOK
<1>10. CallsMatch' /\ LoopBeforePills' /\ PillsLast' /\ PillsAccounted'
  BY <1>1, <1>2, <1>3, LifecycleAssumption
  DEF IndInv, CallsMatch, LoopBeforePills, PillsLast, PillsAccounted
<1>11. Tracked'
  BY <1>1 DEF IndInv, Tracked
<1> QED BY <1>8, <1>9, <1>10, <1>11 DEF IndInv
-----------------------------------------------------------------------------
\* A worker asks for its next connection.
LEMMA CallRemoveStep ==
  ASSUME IndInv, Running, NEW w \in Workers, CallRemove(w)
  PROVE  IndInv'
<1>1. /\ worker[w] = "ready" /\ worker' = [worker EXCEPT ![w] = "removing"]
      /\ waiting' = waiting \cup {w}
      /\ UNCHANGED <<main, pills, shutdown_requested, signals, conn, outcome,
                     queue, offer, taken>>
  BY DEF CallRemove, Queue!BeginRemove
<1>2. worker \in [Workers -> {"ready", "removing", "serving", "finished"}]
  BY DEF IndInv, TypeOK
<1>3. UNCHANGED <<Ended, created>>
  BY <1>1, <1>2 DEF Ended, created
<1>4. TypeOK' /\ QueueTypeOK'
  BY <1>1, <1>2, <1>3 DEF IndInv, TypeOK, QueueTypeOK
<1>5. CallsMatch'
  BY <1>1, <1>2 DEF IndInv, CallsMatch
<1>6. ReturnedIdle'
  BY <1>1, NotReturned DEF ReturnedIdle
<1>7. LoopBeforePills' /\ PillsLast' /\ PillsAccounted'
  BY <1>1, <1>3 DEF IndInv, LoopBeforePills, PillsLast, PillsAccounted
<1>8. Tracked'
  BY <1>1, <1>2 DEF IndInv, Tracked
<1> QED BY <1>4, <1>5, <1>6, <1>7, <1>8 DEF IndInv

\* The value at the front leaves; the others move up by one.
LEMMA Removal ==
  ASSUME NEW q \in Seq(Values), q # <<>>
  PROVE  /\ Tail(q) \in Seq(Values) /\ Len(Tail(q)) = Len(q) - 1
         /\ Len(q) \in Nat \ {0} /\ DOMAIN q = 1 .. Len(q)
         /\ DOMAIN Tail(q) = 1 .. Len(q) - 1
         /\ \A k \in 1 .. Len(q) - 1 : Tail(q)[k] = q[k + 1]
         /\ Head(q) = q[1] /\ Head(q) \in Values
<1>1. Len(q) \in Nat \ {0} /\ DOMAIN q = 1 .. Len(q)
  BY LenProperties, EmptySeq
<1>2. /\ Tail(q) \in Seq(Values) /\ Len(Tail(q)) = Len(q) - 1
      /\ \A k \in 1 .. Len(Tail(q)) : Tail(q)[k] = q[k + 1]
      /\ Head(q) \in Values
  BY HeadTailProperties
<1>3. DOMAIN Tail(q) = 1 .. Len(Tail(q))
  BY <1>2, LenProperties
<1> QED BY <1>1, <1>2, <1>3

\* A worker gets the oldest value: a client to serve, or its pill to end by.
LEMMA RemovedStep ==
  ASSUME IndInv, Running, NEW w \in Workers, Removed(w)
  PROVE  IndInv'
<1> DEFINE next == IF Head(queue) = Stop THEN "finished" ELSE "serving"
<1>1. /\ worker[w] = "removing" /\ worker' = [worker EXCEPT ![w] = next]
      /\ queue # <<>> /\ queue' = Tail(queue)
      /\ taken' = [taken EXCEPT ![w] = Head(queue)]
      /\ waiting' = waiting \ {w}
      /\ UNCHANGED <<main, pills, shutdown_requested, signals, conn, outcome,
                     offer>>
  BY DEF Removed, Queue!Remove
<1>2. /\ worker \in [Workers -> {"ready", "removing", "serving", "finished"}]
      /\ taken \in [Workers -> Conns \cup {Stop, NoConn}]
      /\ queue \in Seq(Values)
  BY DEF IndInv, TypeOK, QueueTypeOK, Values
<1>3. /\ queue' \in Seq(Values) /\ Len(queue') = Len(queue) - 1
      /\ Len(queue) \in Nat \ {0} /\ DOMAIN queue = 1 .. Len(queue)
      /\ DOMAIN queue' = 1 .. Len(queue) - 1
      /\ \A k \in 1 .. Len(queue) - 1 : queue'[k] = queue[k + 1]
      /\ Head(queue) = queue[1] /\ Head(queue) \in Values
  BY <1>1, <1>2, Removal
<1>4. /\ w \notin Ended
      /\ Ended' = IF Head(queue) = Stop THEN Ended \cup {w} ELSE Ended
      /\ UNCHANGED created
  BY <1>1, <1>2 DEF Ended, created
<1>5. TypeOK' /\ QueueTypeOK'
  <2>1. Len(queue') <= QueueSize
    BY <1>3, LifecycleAssumption DEF IndInv, TypeOK
  <2>2. worker' \in [Workers -> {"ready", "removing", "serving", "finished"}]
    BY <1>1, <1>2
  <2>3. taken' \in [Workers -> Conns \cup {Stop, NoConn}]
    BY <1>1, <1>2, <1>3 DEF Values
  <2> QED BY <1>1, <1>3, <1>4, <2>1, <2>2, <2>3
          DEF IndInv, TypeOK, QueueTypeOK, Values
<1>6. CallsMatch'
  BY <1>1, <1>2 DEF IndInv, CallsMatch
<1>7. LoopBeforePills' /\ ReturnedIdle'
  BY <1>1, NotReturned DEF IndInv, LoopBeforePills, ReturnedIdle
<1>8. PillsLast'
  <2>1. CASE Head(queue) = Stop
    <3>1. \A k \in DOMAIN queue : queue[k] = Stop
      BY <1>3, <2>1 DEF IndInv, PillsLast
    <3>2. offer \notin Conns
      BY <1>3, <2>1 DEF IndInv, PillsLast
    <3> QED BY <1>1, <1>3, <3>1, <3>2 DEF PillsLast
  <2>2. CASE Head(queue) # Stop
    BY <1>1, <1>3, <1>4, <2>2 DEF IndInv, PillsLast
  <2> QED BY <2>1, <2>2
<1>9. PillsAccounted'
  <2>1. PillsIn(queue) = PillsIn(queue') + (IF Head(queue) = Stop THEN 1 ELSE 0)
    BY <1>1, <1>2, PillsTail
  <2>2. PillsIn(queue) \in Nat /\ PillsIn(queue') \in Nat
    BY <1>2, <1>3, PillsFinite
  <2>3. Cardinality(Ended') =
          Cardinality(Ended) + (IF Head(queue) = Stop THEN 1 ELSE 0)
    BY <1>4, EndedFinite, FS_AddElement
  <2> QED BY <1>1, <2>1, <2>2, <2>3, EndedFinite DEF IndInv, PillsAccounted
<1>10. Tracked'
  <2>1. ASSUME NEW c \in Conns, conn'[c] = "accepted"
        PROVE  \/ offer' = c
               \/ \E k \in DOMAIN queue' : queue'[k] = c
               \/ \E u \in Workers : worker'[u] = "serving" /\ taken'[u] = c
    <3>1. CASE offer = c
      BY <1>1, <3>1
    <3>2. ASSUME NEW k \in DOMAIN queue, queue[k] = c
          PROVE  \/ \E j \in DOMAIN queue' : queue'[j] = c
                 \/ worker'[w] = "serving" /\ taken'[w] = c
      <4>1. CASE k = 1
        BY <1>1, <1>2, <1>3, <3>2, <4>1, LifecycleAssumption
      <4>2. CASE k # 1
        <5>1. k - 1 \in DOMAIN queue' /\ queue'[k - 1] = c
          BY <1>3, <3>2, <4>2
        <5> QED BY <5>1
      <4> QED BY <4>1, <4>2
    <3>3. ASSUME NEW u \in Workers, worker[u] = "serving", taken[u] = c
          PROVE  worker'[u] = "serving" /\ taken'[u] = c
      BY <1>1, <1>2, <3>3
    <3> QED BY <1>1, <2>1, <3>1, <3>2, <3>3 DEF IndInv, Tracked
  <2>2. ASSUME NEW u \in Workers, worker'[u] = "serving" PROVE taken'[u] \in Conns
    BY <1>1, <1>2, <1>3, <2>2 DEF IndInv, Tracked, Values
  <2> QED BY <2>1, <2>2 DEF Tracked
<1> QED BY <1>5, <1>6, <1>7, <1>8, <1>9, <1>10 DEF IndInv

\* A client that leaves was served, and its worker is free again.
LEMMA ClientLeavesStep ==
  ASSUME IndInv, Running, NEW w \in Workers, ClientLeaves(w)
  PROVE  IndInv'
<1>1. /\ worker[w] = "serving" /\ worker' = [worker EXCEPT ![w] = "ready"]
      /\ conn' = [conn EXCEPT ![taken[w]] = "closed"]
      /\ UNCHANGED <<main, pills, shutdown_requested, signals, outcome,
                     queue, offer, waiting, taken>>
  BY DEF ClientLeaves, queueVars
<1>2. /\ worker \in [Workers -> {"ready", "removing", "serving", "finished"}]
      /\ conn \in [Conns -> {"away", "backlog", "accepted", "closed"}]
      /\ taken[w] \in Conns
  BY <1>1 DEF IndInv, TypeOK, Tracked
<1>3. UNCHANGED <<Ended, created>>
  BY <1>1, <1>2 DEF Ended, created
<1>4. TypeOK' /\ QueueTypeOK'
  BY <1>1, <1>2, <1>3 DEF IndInv, TypeOK, QueueTypeOK
<1>5. CallsMatch'
  BY <1>1, <1>2 DEF IndInv, CallsMatch
<1>6. ReturnedIdle'
  BY <1>1, NotReturned DEF ReturnedIdle
<1>7. LoopBeforePills' /\ PillsLast' /\ PillsAccounted'
  BY <1>1, <1>3 DEF IndInv, LoopBeforePills, PillsLast, PillsAccounted
<1>8. Tracked'
  BY <1>1, <1>2 DEF IndInv, Tracked
<1> QED BY <1>4, <1>5, <1>6, <1>7, <1>8 DEF IndInv
-----------------------------------------------------------------------------
\* Every step of the server keeps the invariant.
LEMMA IndStep == IndInv /\ [Next]_vars => IndInv'
<1> SUFFICES ASSUME IndInv, [Next]_vars PROVE IndInv'
  OBVIOUS
<1>1. CASE UNCHANGED vars
  <2>1. UNCHANGED <<main, pills, shutdown_requested, signals, worker, conn,
                    outcome, queue, offer, waiting, taken, Ended, created>>
    BY <1>1 DEF vars, lifeVars, queueVars, Ended, created
  <2>2. TypeOK' /\ QueueTypeOK' /\ CallsMatch' /\ LoopBeforePills'
    BY <2>1 DEF IndInv, TypeOK, QueueTypeOK, CallsMatch, LoopBeforePills
  <2>3. PillsLast' /\ Tracked' /\ PillsAccounted' /\ ReturnedIdle'
    BY <2>1 DEF IndInv, PillsLast, Tracked, PillsAccounted, ReturnedIdle,
                StableWhenReturned
  <2> QED BY <2>2, <2>3 DEF IndInv
<1>2. CASE Running /\ MainStep
  BY <1>2, AloneStep, AcceptStep, InsertedStep, InsertPillStep, JoinAllStep
  DEF MainStep
<1>3. CASE Running /\ (AcceptFails \/ \E c \in Conns : Connect(c))
  BY <1>3, AloneStep
<1>4. ASSUME Running, NEW w \in Workers,
             WorkerStep(w) \/ ClientLeaves(w) \/ ConnectionBreaks(w)
      PROVE  IndInv'
  BY <1>4, CallRemoveStep, RemovedStep, ClientLeavesStep, AloneStep
  DEF WorkerStep
<1>5. CASE Running /\ \E t \in Receivers : Signal(t)
  BY <1>5, AloneStep
<1> QED BY <1>1, <1>2, <1>3, <1>4, <1>5 DEF Next, Finished

\* The invariant holds in every state the server of stock_server.c reaches.
THEOREM IndInvariant == Spec => []IndInv
  BY IndInit, IndStep, PTL DEF Spec

\* Every variable keeps its type: the queue never exceeds its size, and
\* stop_workers makes no more pills than there are workers.
THEOREM TypeCorrect == Spec => []TypeOK
<1>1. IndInv => TypeOK
  BY DEF IndInv
<1> QED BY <1>1, IndInvariant, PTL

\* Each pill of stop_workers ends exactly one worker of worker_main.
THEOREM EveryPillEndsOneWorker == Spec => []PillsAccounted
<1>1. IndInv => PillsAccounted
  BY DEF IndInv
<1> QED BY <1>1, IndInvariant, PTL

\* When run_server_stub returns to main, which then saves the store without
\* its mutex, all workers have ended and every accepted client was served.
THEOREM ReturnsStable == Spec => []StableWhenReturned
<1>1. IndInv => StableWhenReturned
  BY DEF IndInv, ReturnedIdle, StableWhenReturned
<1> QED BY <1>1, IndInvariant, PTL
=============================================================================
