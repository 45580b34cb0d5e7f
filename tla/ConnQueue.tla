------------------------------ MODULE ConnQueue ------------------------------
(***************************************************************************)
(* conn_queue_t of stock_server.c: the circular buffer through which the   *)
(* main thread hands accepted descriptors (and STOCK_QUEUE_STOP pills) to  *)
(* the workers.  Each statement of conn_queue_insert and conn_queue_remove *)
(* that touches shared state is a step of its own, so that the semaphores  *)
(* alone have to keep the threads apart.  The main thread is the only      *)
(* caller of insert (accept loop and stop_workers), the workers are the    *)
(* only callers of remove.                                                 *)
(***************************************************************************)
EXTENDS Integers, FiniteSets

CONSTANTS
  Main,       \* the main thread
  Workers,    \* the worker threads
  Fds,        \* the values inserted: descriptors and the stop pill
  NoFd,       \* the contents of a slot or local not yet written
  QueueSize   \* STOCK_QUEUE_SIZE

ASSUME ConnQueueAssumption ==
  /\ QueueSize \in Nat \ {0}
  /\ IsFiniteSet(Workers)
  /\ Main \notin Workers
  /\ NoFd \notin Fds

VARIABLES
  fds, front, rear,      \* the ring and its two indices
  mutex, slots, items,   \* the three semaphores' values
  pc,                    \* where each thread is in insert or remove
  connfd                 \* the parameter of insert, the local of remove

vars == <<fds, front, rear, mutex, slots, items, pc, connfd>>

Threads == {Main} \cup Workers
Slots == 0 .. QueueSize - 1
InsertLabels == {"P_slots", "ins_P_mutex", "ins_write", "ins_advance",
                 "ins_V_mutex", "V_items"}
RemoveLabels == {"P_items", "rem_P_mutex", "rem_read", "rem_advance",
                 "rem_V_mutex", "V_slots"}

\* The indices stay inside the ring and the mutex stays binary, so that no
\* access of fds is out of bounds.
TypeOK ==
  /\ fds \in [Slots -> Fds \cup {NoFd}]
  /\ front \in Slots /\ rear \in Slots
  /\ mutex \in {0, 1} /\ slots \in Nat /\ items \in Nat
  /\ pc \in [Threads -> {"idle"} \cup InsertLabels \cup RemoveLabels]
  /\ connfd \in [Threads -> Fds \cup {NoFd}]
-----------------------------------------------------------------------------
\* conn_queue_init
Init ==
  /\ fds = [s \in Slots |-> NoFd]
  /\ front = 0 /\ rear = 0
  /\ mutex = 1 /\ slots = QueueSize /\ items = 0
  /\ pc = [t \in Threads |-> "idle"]
  /\ connfd = [t \in Threads |-> NoFd]

\* The POSIX semaphore calls behind csapp's P and V.
P(sem) == sem > 0 /\ sem' = sem - 1
V(sem) == sem' = sem + 1

Goto(t, from, to) ==
  /\ pc[t] = from
  /\ pc' = [pc EXCEPT ![t] = to]

\* Faulty variants of the steps below, each a slip a programmer could make.
\* They are no part of the specification: they show that its properties fail.
AdvanceWithoutWrap ==
  /\ Goto(Main, "ins_advance", "ins_V_mutex")
  /\ rear' = rear + 1
  /\ UNCHANGED <<fds, front, mutex, slots, items, connfd>>

AnnounceNothing ==
  /\ Goto(Main, "V_items", "idle")
  /\ UNCHANGED <<fds, front, rear, mutex, slots, items, connfd>>

RemoveUnlocked(w) ==
  /\ Goto(w, "rem_P_mutex", "rem_read")
  /\ UNCHANGED <<fds, front, rear, mutex, slots, items, connfd>>

KeepMutex(w) ==
  /\ Goto(w, "rem_V_mutex", "V_slots")
  /\ UNCHANGED <<fds, front, rear, mutex, slots, items, connfd>>

KeepSlot(w) ==
  /\ Goto(w, "V_slots", "idle")
  /\ UNCHANGED <<fds, front, rear, mutex, slots, items, connfd>>

\* conn_queue_insert(queue, fd), statement by statement
CallInsert(fd) ==
  /\ Goto(Main, "idle", "P_slots")
  /\ connfd' = [connfd EXCEPT ![Main] = fd]
  /\ UNCHANGED <<fds, front, rear, mutex, slots, items>>

ReserveSlot ==
  /\ Goto(Main, "P_slots", "ins_P_mutex")
  /\ P(slots)
  /\ UNCHANGED <<fds, front, rear, mutex, items, connfd>>

LockForInsert ==
  /\ Goto(Main, "ins_P_mutex", "ins_write")
  /\ P(mutex)
  /\ UNCHANGED <<fds, front, rear, slots, items, connfd>>

WriteSlot ==
  /\ Goto(Main, "ins_write", "ins_advance")
  /\ fds' = [fds EXCEPT ![rear] = connfd[Main]]
  /\ UNCHANGED <<front, rear, mutex, slots, items, connfd>>

AdvanceRear ==
  /\ Goto(Main, "ins_advance", "ins_V_mutex")
  /\ rear' = (rear + 1) % QueueSize
  /\ UNCHANGED <<fds, front, mutex, slots, items, connfd>>

UnlockAfterInsert ==
  /\ Goto(Main, "ins_V_mutex", "V_items")
  /\ V(mutex)
  /\ UNCHANGED <<fds, front, rear, slots, items, connfd>>

AnnounceItem ==
  /\ Goto(Main, "V_items", "idle")
  /\ V(items)
  /\ UNCHANGED <<fds, front, rear, mutex, slots, connfd>>

\* conn_queue_remove(queue), statement by statement
CallRemove(w) ==
  /\ Goto(w, "idle", "P_items")
  /\ UNCHANGED <<fds, front, rear, mutex, slots, items, connfd>>

ClaimItem(w) ==
  /\ Goto(w, "P_items", "rem_P_mutex")
  /\ P(items)
  /\ UNCHANGED <<fds, front, rear, mutex, slots, connfd>>

LockForRemove(w) ==
  /\ Goto(w, "rem_P_mutex", "rem_read")
  /\ P(mutex)
  /\ UNCHANGED <<fds, front, rear, slots, items, connfd>>

ReadSlot(w) ==
  /\ Goto(w, "rem_read", "rem_advance")
  /\ connfd' = [connfd EXCEPT ![w] = fds[front]]
  /\ UNCHANGED <<fds, front, rear, mutex, slots, items>>

AdvanceFront(w) ==
  /\ Goto(w, "rem_advance", "rem_V_mutex")
  /\ front' = (front + 1) % QueueSize
  /\ UNCHANGED <<fds, rear, mutex, slots, items, connfd>>

UnlockAfterRemove(w) ==
  /\ Goto(w, "rem_V_mutex", "V_slots")
  /\ V(mutex)
  /\ UNCHANGED <<fds, front, rear, slots, items, connfd>>

ReleaseSlot(w) ==
  /\ Goto(w, "V_slots", "idle")
  /\ V(slots)
  /\ UNCHANGED <<fds, front, rear, mutex, items, connfd>>

InsertStep ==
  \/ ReserveSlot \/ LockForInsert \/ WriteSlot \/ AdvanceRear
  \/ UnlockAfterInsert \/ AnnounceItem

RemoveStep(w) ==
  \/ ClaimItem(w) \/ LockForRemove(w) \/ ReadSlot(w) \/ AdvanceFront(w)
  \/ UnlockAfterRemove(w) \/ ReleaseSlot(w)

Next ==
  \/ \E fd \in Fds : CallInsert(fd)
  \/ InsertStep
  \/ \E w \in Workers : CallRemove(w) \/ RemoveStep(w)

\* A thread inside a call keeps running it.  Nothing is assumed about when
\* the next call is made: accept may never return, a client may never leave.
Fairness == WF_vars(InsertStep) /\ \A w \in Workers : WF_vars(RemoveStep(w))

Spec == Init /\ [][Next]_vars /\ Fairness
-----------------------------------------------------------------------------
(***************************************************************************)
(* Where the tokens of the two counting semaphores are: an item token is   *)
(* in items, about to be posted by main, or claimed by a worker that has   *)
(* not read its descriptor; a slot token is in slots, held by main's       *)
(* insert, or held by a worker that has read but not released the slot.    *)
(***************************************************************************)
Reserved == IF pc[Main] \in {"ins_P_mutex", "ins_write", "ins_advance"}
            THEN 1 ELSE 0
Unannounced == IF pc[Main] \in {"ins_V_mutex", "V_items"} THEN 1 ELSE 0
Claimed == {w \in Workers : pc[w] \in {"rem_P_mutex", "rem_read"}}
Unreleased == {w \in Workers :
                 pc[w] \in {"rem_advance", "rem_V_mutex", "V_slots"}}

Occupied == items + Unannounced + Cardinality(Claimed)

\* Every slot of the ring is accounted for by exactly one token, whatever the
\* interleaving of insert and remove: the ring is never overfilled, a remove
\* never returns a slot nobody wrote, and no token is lost or forged.
SlotsAccounted ==
  Occupied + slots + Reserved + Cardinality(Unreleased) = QueueSize

InRing(s) == IF s < QueueSize THEN s ELSE s - QueueSize
\* The next slot to be read: a worker between its read and its advance has
\* already taken the descriptor front still points at.
HeadSlot == IF \E w \in Workers : pc[w] = "rem_advance"
            THEN InRing(front + 1) ELSE front

Contents == [k \in 1 .. Occupied |-> fds[InRing(HeadSlot + k - 1)]]

Fifo == INSTANCE BoundedFifo WITH
  Consumers <- Workers, Values <- Fds, Capacity <- QueueSize, NoValue <- NoFd,
  queue <- Contents,
  offer <- IF pc[Main] \in {"P_slots", "ins_P_mutex", "ins_write", "ins_advance"}
           THEN connfd[Main] ELSE NoFd,
  waiting <- {w \in Workers : pc[w] \in {"P_items", "rem_P_mutex", "rem_read"}},
  taken <- [w \in Workers |-> connfd[w]]

\* The semaphore-level queue is a FIFO: a descriptor is handed to exactly one
\* worker, in arrival order, none is lost, duplicated or overwritten.
ImplementsFifo == Fifo!Spec

\* No lost wake-up: it never stays true that every worker sleeps in
\* conn_queue_remove while the ring holds a descriptor.
SomeWorkerWakes ==
  (Occupied > 0 /\ \A w \in Workers : pc[w] \in RemoveLabels)
    ~> (\E w \in Workers : pc[w] = "idle")

\* Back-pressure ends: an insert blocked on a full ring returns once the ring
\* has room, although workers and main contend for the same mutex.
InsertReturns ==
  (pc[Main] \in InsertLabels /\ Occupied < QueueSize) ~> (pc[Main] = "idle")
=============================================================================
