-------------------------- MODULE ServerLifecycle ----------------------------
(***************************************************************************)
(* run_server_stub and worker_main of stock_server.c: the main thread      *)
(* accepts connections and queues them, workers take one at a time and     *)
(* serve it until the client leaves, a signal asks for a shutdown, and the *)
(* main thread then queues one stop pill per worker and joins them.  The   *)
(* queue is the abstract BoundedFifo, which ConnQueue implements; the      *)
(* requests of a connection are the subject of StockTrading.               *)
(***************************************************************************)
EXTENDS Naturals, FiniteSets, Sequences

CONSTANTS
  Main, Workers,    \* the threads
  Receivers,        \* the threads a SIGINT or SIGTERM may be delivered to
  Conns,            \* the client connections
  Stop, NoConn,     \* STOCK_QUEUE_STOP, and no descriptor
  QueueSize,        \* STOCK_CONN_QUEUE_SIZE
  MaxSignals        \* bound on the signals sent

ASSUME LifecycleAssumption ==
  /\ IsFiniteSet(Workers) /\ Workers # {} /\ Main \notin Workers
  /\ Receivers \subseteq Workers \cup {Main}
  /\ Stop \notin Conns /\ NoConn \notin Conns \cup {Stop}
  /\ QueueSize \in Nat \ {0} /\ MaxSignals \in Nat

VARIABLES
  main,                \* where the main thread is in run_server_stub
  pills,               \* the stop pills handed to the queue so far
  shutdown_requested,
  signals,             \* the signals sent so far
  worker,              \* where each worker is in worker_main
  conn,                \* how far each connection has come
  outcome,             \* how the run ends: main's status, or an exit
  queue, offer, waiting, taken   \* the queue

lifeVars == <<main, pills, shutdown_requested, signals, worker, conn, outcome>>
queueVars == <<queue, offer, waiting, taken>>
vars == <<lifeVars, queueVars>>

Queue == INSTANCE BoundedFifo WITH
  Consumers <- Workers, Values <- Conns \cup {Stop}, Capacity <- QueueSize,
  NoValue <- NoConn

created == Cardinality(Workers)

\* The variables have their types; the queue never exceeds its size and no
\* more pills are made than there are workers.
TypeOK ==
  /\ main \in {"testing", "calling", "accepting", "inserting", "stopping", "returned"}
  /\ pills \in 0 .. created
  /\ shutdown_requested \in BOOLEAN
  /\ signals \in 0 .. MaxSignals
  /\ worker \in [Workers -> {"ready", "removing", "serving", "finished"}]
  /\ conn \in [Conns -> {"away", "backlog", "accepted", "closed"}]
  /\ outcome \in {"running", "failing", "OK", "INTERNAL", "exit"}
  /\ queue \in Seq(Conns \cup {Stop}) /\ Len(queue) <= QueueSize
-----------------------------------------------------------------------------
\* The handlers are installed and create_workers has returned: with all the
\* workers, or, if pthread_create failed, with those it had made by then.
Init ==
  /\ \/ main = "testing" /\ outcome = "running"
     \/ main = "stopping" /\ outcome = "failing"
  /\ pills = 0
  /\ shutdown_requested = FALSE /\ signals = 0
  /\ worker = [w \in Workers |-> "ready"]
  /\ conn = [c \in Conns |-> "away"]
  /\ Queue!Init

\* A client connects; the kernel queues it.
Connect(c) ==
  /\ conn[c] = "away"
  /\ conn' = [conn EXCEPT ![c] = "backlog"]
  /\ UNCHANGED <<main, pills, shutdown_requested, signals, worker, outcome, queueVars>>

\* while (!shutdown_requested)
TestFlag ==
  /\ main = "testing"
  /\ main' = IF shutdown_requested THEN "stopping" ELSE "calling"
  /\ UNCHANGED <<pills, shutdown_requested, signals, worker, conn, outcome, queueVars>>

CallAccept ==
  /\ main = "calling"
  /\ main' = "accepting"
  /\ UNCHANGED <<pills, shutdown_requested, signals, worker, conn, outcome, queueVars>>

\* accept returns a connection, which goes to conn_queue_insert.
Accept(c) ==
  /\ main = "accepting" /\ conn[c] = "backlog"
  /\ main' = "inserting"
  /\ conn' = [conn EXCEPT ![c] = "accepted"]
  /\ Queue!BeginInsert(c)
  /\ UNCHANGED <<pills, shutdown_requested, signals, worker, outcome>>

\* accept fails, other than by a signal: the loop is left with an error.
AcceptFails ==
  /\ main = "accepting"
  /\ main' = "stopping"
  /\ outcome' = "failing"
  /\ UNCHANGED <<pills, shutdown_requested, signals, worker, conn, queueVars>>

\* conn_queue_insert returns, to the accept loop or to stop_workers.
Inserted ==
  /\ main = "inserting"
  /\ Queue!Insert
  /\ main' = IF offer = Stop THEN "stopping" ELSE "testing"
  /\ UNCHANGED <<pills, shutdown_requested, signals, worker, conn, outcome>>

\* Faulty variant: one pill too few.
InsertPillButOne ==
  /\ main = "stopping" /\ pills + 1 < created
  /\ main' = "inserting"
  /\ pills' = pills + 1
  /\ Queue!BeginInsert(Stop)
  /\ UNCHANGED <<shutdown_requested, signals, worker, conn, outcome>>

\* Faulty variant: one pill too many.
InsertPillMore ==
  /\ main = "stopping" /\ pills <= created
  /\ main' = "inserting"
  /\ pills' = pills + 1
  /\ Queue!BeginInsert(Stop)
  /\ UNCHANGED <<shutdown_requested, signals, worker, conn, outcome>>

\* stop_workers: one pill per worker
InsertPill ==
  /\ main = "stopping" /\ pills < created
  /\ main' = "inserting"
  /\ pills' = pills + 1
  /\ Queue!BeginInsert(Stop)
  /\ UNCHANGED <<shutdown_requested, signals, worker, conn, outcome>>

Return ==
  /\ main' = "returned"
  /\ outcome' = IF outcome = "failing" THEN "INTERNAL" ELSE "OK"
  /\ UNCHANGED <<pills, shutdown_requested, signals, worker, conn, queueVars>>

\* Faulty variant: the workers are not joined.
ReturnUnjoined == main = "stopping" /\ pills = created /\ Return

\* join_workers, and run_server_stub returns
JoinAll ==
  /\ main = "stopping" /\ pills = created
  /\ \A w \in Workers : worker[w] = "finished"
  /\ Return
-----------------------------------------------------------------------------
\* worker_main: conn_queue_remove is called ...
CallRemove(w) ==
  /\ worker[w] = "ready"
  /\ worker' = [worker EXCEPT ![w] = "removing"]
  /\ Queue!BeginRemove(w)
  /\ UNCHANGED <<main, pills, shutdown_requested, signals, conn, outcome>>

\* Faulty variant: a worker goes on after it has taken a pill.
IgnorePill(w) ==
  /\ worker[w] = "removing"
  /\ Queue!Remove(w)
  /\ worker' = [worker EXCEPT ![w] = IF Head(queue) = Stop THEN "ready"
                                                           ELSE "serving"]
  /\ UNCHANGED <<main, pills, shutdown_requested, signals, conn, outcome>>

\* ... and returns a connection or a pill.
Removed(w) ==
  /\ worker[w] = "removing"
  /\ Queue!Remove(w)
  /\ worker' = [worker EXCEPT ![w] = IF Head(queue) = Stop THEN "finished"
                                                           ELSE "serving"]
  /\ UNCHANGED <<main, pills, shutdown_requested, signals, conn, outcome>>

\* Faulty variant: a worker serves one connection and ends.
ServeOnce(w) ==
  /\ worker[w] = "serving"
  /\ worker' = [worker EXCEPT ![w] = "finished"]
  /\ conn' = [conn EXCEPT ![taken[w]] = "closed"]
  /\ UNCHANGED <<main, pills, shutdown_requested, signals, outcome, queueVars>>

\* The client sends exit or closes; handle_client closes its end and returns.
ClientLeaves(w) ==
  /\ worker[w] = "serving"
  /\ worker' = [worker EXCEPT ![w] = "ready"]
  /\ conn' = [conn EXCEPT ![taken[w]] = "closed"]
  /\ UNCHANGED <<main, pills, shutdown_requested, signals, outcome, queueVars>>

Exit ==
  /\ outcome' = "exit"
  /\ UNCHANGED <<main, pills, shutdown_requested, signals, worker, conn, queueVars>>

\* Rio_readlineb or Rio_writen fails on one connection: unix_error exits.
ConnectionBreaks(w) == worker[w] = "serving" /\ Exit

\* request_shutdown runs in thread t.  It interrupts an accept it finds
\* blocked; a sem_wait it finds blocked fails, P reports it and exits.  Whether
\* a thread inside conn_queue_insert or conn_queue_remove is blocked in a
\* sem_wait just then is open.
Signal(t) ==
  /\ signals < MaxSignals
  /\ signals' = signals + 1
  /\ shutdown_requested' = TRUE
  /\ main' = IF t = Main /\ main = "accepting" THEN "testing" ELSE main
  /\ \/ outcome' = outcome
     \/ /\ \/ t = Main /\ main = "inserting"
           \/ t \in Workers /\ worker[t] = "removing"
        /\ outcome' = "exit"
  /\ UNCHANGED <<pills, worker, conn, queueVars>>

Running == outcome \in {"running", "failing"}

\* What the server does by itself.
MainStep ==
  \/ TestFlag \/ CallAccept \/ (\E c \in Conns : Accept(c)) \/ Inserted
  \/ InsertPill \/ JoinAll
WorkerStep(w) == CallRemove(w) \/ Removed(w)

Finished == ~Running /\ UNCHANGED vars

Next ==
  \/ /\ Running
     /\ \/ MainStep \/ AcceptFails
        \/ \E c \in Conns : Connect(c)
        \/ \E w \in Workers : WorkerStep(w) \/ ClientLeaves(w) \/ ConnectionBreaks(w)
        \/ \E t \in Receivers : Signal(t)
  \/ Finished

\* Threads keep running.  Clients, signals and failures come or do not.
Fairness ==
  /\ WF_vars(Running /\ MainStep)
  /\ \A w \in Workers : WF_vars(Running /\ WorkerStep(w))

Spec == Init /\ [][Next]_vars /\ Fairness
-----------------------------------------------------------------------------
PillsIn(q) == Cardinality({k \in DOMAIN q : q[k] = Stop})
Ended == {w \in Workers : worker[w] = "finished"}

\* Every pill of stop_workers is on its way, in the queue, or has ended exactly
\* one worker: no worker ends without one and none takes another's.
PillsAccounted ==
  pills = (IF offer = Stop THEN 1 ELSE 0) + PillsIn(queue) + Cardinality(Ended)

\* When run_server_stub returns, no worker runs, the queue is empty and every
\* connection that was accepted has been served to its end: only then is the
\* store stable, as materialize_store_generation requires of its caller.
StableWhenReturned ==
  main = "returned" =>
    /\ \A w \in Workers : worker[w] = "finished"
    /\ queue = <<>>
    /\ \A c \in Conns : conn[c] # "accepted"

ClientsLeave == \A w \in Workers : worker[w] = "serving" ~> worker[w] # "serving"

\* A shutdown that has begun comes to its end, if clients leave.
ShutdownCompletes == ClientsLeave => (main = "stopping" ~> ~Running)

\* Every accepted connection is served to its end, if clients leave.
AcceptedIsServed ==
  ClientsLeave => \A c \in Conns : conn[c] = "accepted" ~> (conn[c] = "closed" \/ ~Running)

\* install_shutdown_handlers: a blocking accept() returns EINTR and the main
\* thread enters its cleanup path.
ShutdownIsNoticed ==
  shutdown_requested ~> (main \in {"stopping", "returned"} \/ ~Running)

\* docs: an I/O error ends the connection it happens on.
ErrorEndsConnectionOnly == outcome = "exit" => signals > 0
=============================================================================
