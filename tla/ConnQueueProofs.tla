--------------------------- MODULE ConnQueueProofs ---------------------------
(***************************************************************************)
(* For every number of workers, every ring size and every set of           *)
(* descriptors: the semaphores keep the ring well typed and its slots      *)
(* accounted for, and the queue implements BoundedFifo.                    *)
(***************************************************************************)
EXTENDS ConnQueue, FiniteSetTheorems, SequenceTheorems, TLAPS

CriticalLabels == {"ins_write", "ins_advance", "ins_V_mutex",
                   "rem_read", "rem_advance", "rem_V_mutex"}
Inside == {t \in Threads : pc[t] \in CriticalLabels}

\* Each thread is only ever at the labels of the function it calls.
LabelsOK ==
  /\ pc[Main] \in {"idle"} \cup InsertLabels
  /\ \A w \in Workers : pc[w] \in {"idle"} \cup RemoveLabels

\* The binary semaphore is a lock.
Exclusion ==
  /\ mutex = 1 => Inside = {}
  /\ \A t, u \in Inside : t = u

\* The writer stands right behind the newest descriptor.
IndicesAgree == rear = InRing(HeadSlot + Occupied)

\* Main's slot holds the descriptor it is inserting until it is published.
WrittenKept == pc[Main] = "ins_advance" => fds[rear] = connfd[Main]

\* An insert never carries the mark of an unwritten slot, and neither does
\* the part of the ring between the two indices.
OfferReal == pc[Main] \in InsertLabels => connfd[Main] \in Fds

LockInv == TypeOK /\ LabelsOK /\ Exclusion /\ OfferReal

IndInv == LockInv /\ SlotsAccounted /\ IndicesAgree /\ WrittenKept
-----------------------------------------------------------------------------
\* The code's (i + 1) % STOCK_QUEUE_SIZE steps an index around the ring.
LEMMA NextIndex ==
  ASSUME NEW s \in Slots
  PROVE  (s + 1) % QueueSize = InRing(s + 1) /\ InRing(s + 1) \in Slots
<1> USE ConnQueueAssumption DEF Slots, InRing
<1>1. CASE s + 1 < QueueSize
  BY <1>1
<1>2. CASE s + 1 = QueueSize
  <2>1. QueueSize % QueueSize = 0
    OBVIOUS
  <2> QED BY <1>2, <2>1
<1> QED BY <1>1, <1>2

LEMMA LockInit == Init => LockInv
  BY ConnQueueAssumption
  DEF Init, LockInv, TypeOK, LabelsOK, Exclusion, OfferReal, Inside,
      CriticalLabels, InsertLabels, RemoveLabels, Slots, Threads

\* No step of main or of a worker breaks the lock discipline.
LEMMA LockStep == LockInv /\ [Next]_vars => LockInv'
<1> SUFFICES ASSUME LockInv, [Next]_vars PROVE LockInv'
  OBVIOUS
<1> USE ConnQueueAssumption
    DEF LockInv, TypeOK, LabelsOK, Exclusion, OfferReal, Inside,
        CriticalLabels, InsertLabels, RemoveLabels, Threads, Goto, P, V
<1>1. ASSUME NEW fd \in Fds, CallInsert(fd) PROVE LockInv'
  BY <1>1 DEF CallInsert
<1>2. CASE ReserveSlot
  BY <1>2 DEF ReserveSlot
<1>3. CASE LockForInsert
  BY <1>3 DEF LockForInsert
<1>4. CASE WriteSlot
  BY <1>4 DEF WriteSlot
<1>5. CASE AdvanceRear
  BY <1>5, NextIndex DEF AdvanceRear
<1>6. CASE UnlockAfterInsert
  BY <1>6 DEF UnlockAfterInsert
<1>7. CASE AnnounceItem
  BY <1>7 DEF AnnounceItem
<1>8. ASSUME NEW w \in Workers, CallRemove(w) PROVE LockInv'
  BY <1>8 DEF CallRemove
<1>9. ASSUME NEW w \in Workers, ClaimItem(w) PROVE LockInv'
  BY <1>9 DEF ClaimItem
<1>10. ASSUME NEW w \in Workers, LockForRemove(w) PROVE LockInv'
  BY <1>10 DEF LockForRemove
<1>11. ASSUME NEW w \in Workers, ReadSlot(w) PROVE LockInv'
  BY <1>11 DEF ReadSlot
<1>12. ASSUME NEW w \in Workers, AdvanceFront(w) PROVE LockInv'
  BY <1>12, NextIndex DEF AdvanceFront
<1>13. ASSUME NEW w \in Workers, UnlockAfterRemove(w) PROVE LockInv'
  BY <1>13 DEF UnlockAfterRemove
<1>14. ASSUME NEW w \in Workers, ReleaseSlot(w) PROVE LockInv'
  BY <1>14 DEF ReleaseSlot
<1>15. CASE UNCHANGED vars
  BY <1>15 DEF vars
<1> QED
  BY <1>1, <1>2, <1>3, <1>4, <1>5, <1>6, <1>7, <1>8, <1>9, <1>10, <1>11,
     <1>12, <1>13, <1>14, <1>15
  DEF Next, InsertStep, RemoveStep
-----------------------------------------------------------------------------
\* The workers holding a token are finitely many, and one joins or leaves at
\* a time.
LEMMA TokenSets ==
  /\ IsFiniteSet(Claimed) /\ Cardinality(Claimed) \in Nat
  /\ IsFiniteSet(Unreleased) /\ Cardinality(Unreleased) \in Nat
<1>1. Claimed \subseteq Workers /\ Unreleased \subseteq Workers
  BY DEF Claimed, Unreleased
<1> QED BY <1>1, ConnQueueAssumption, FS_Subset, FS_CardinalityType

LEMMA OneMore ==
  ASSUME NEW S, IsFiniteSet(S), NEW x, x \notin S
  PROVE  Cardinality(S \cup {x}) = Cardinality(S) + 1
  BY FS_AddElement

LEMMA OneLess ==
  ASSUME NEW S, IsFiniteSet(S), NEW x \in S
  PROVE  Cardinality(S \ {x}) = Cardinality(S) - 1
  BY FS_RemoveElement

\* A step of main leaves the workers' tokens and the front of the ring alone.
LEMMA MainLeavesWorkers ==
  ASSUME LockInv, NEW from, NEW to, Goto(Main, from, to), UNCHANGED front
  PROVE  UNCHANGED <<Claimed, Unreleased, HeadSlot>>
<1>1. \A w \in Workers : pc'[w] = pc[w]
  BY ConnQueueAssumption DEF LockInv, TypeOK, Goto, Threads
<1> QED BY <1>1, Zenon DEF Claimed, Unreleased, HeadSlot

\* A step of a worker leaves main's tokens alone.
LEMMA WorkerLeavesMain ==
  ASSUME LockInv, NEW w \in Workers, NEW from, NEW to, Goto(w, from, to)
  PROVE  UNCHANGED <<Reserved, Unannounced>> /\ pc'[Main] = pc[Main]
  BY ConnQueueAssumption
  DEF LockInv, TypeOK, Goto, Threads, Reserved, Unannounced

\* How each step of a worker moves it between the two sets of token holders.
LEMMA WorkerMoves ==
  ASSUME LockInv, NEW w \in Workers, NEW from, NEW to, Goto(w, from, to)
  PROVE  /\ pc'[w] = to
         /\ \A u \in Workers \ {w} : pc'[u] = pc[u]
  BY DEF LockInv, TypeOK, Goto, Threads
-----------------------------------------------------------------------------
SlotTokens == slots + Reserved + Cardinality(Unreleased)
\* A step that neither adds nor removes a descriptor nor moves a slot token.
Quiet == UNCHANGED <<Occupied, HeadSlot, SlotTokens>>

LEMMA MainQuiet ==
  ASSUME LockInv,
         \/ \E fd \in Fds : CallInsert(fd)
         \/ ReserveSlot \/ LockForInsert \/ WriteSlot
         \/ UnlockAfterInsert \/ AnnounceItem
  PROVE  Quiet
<1> USE DEF Quiet, Occupied, SlotTokens, Reserved, Unannounced
<1>1. ASSUME NEW from, NEW to, Goto(Main, from, to)
      PROVE  pc[Main] = from /\ pc'[Main] = to
  BY <1>1 DEF Goto, LockInv, TypeOK, Threads
<1>2. slots \in Nat /\ items \in Nat
  BY DEF LockInv, TypeOK
<1>3. ASSUME NEW fd \in Fds, CallInsert(fd) PROVE Quiet
  BY <1>1, <1>3, MainLeavesWorkers DEF CallInsert
<1>4. CASE ReserveSlot
  BY <1>1, <1>2, <1>4, MainLeavesWorkers, TokenSets DEF ReserveSlot, P
<1>5. CASE LockForInsert
  BY <1>1, <1>5, MainLeavesWorkers DEF LockForInsert
<1>6. CASE WriteSlot
  BY <1>1, <1>6, MainLeavesWorkers DEF WriteSlot
<1>7. CASE UnlockAfterInsert
  BY <1>1, <1>7, MainLeavesWorkers DEF UnlockAfterInsert
<1>8. CASE AnnounceItem
  BY <1>1, <1>2, <1>8, MainLeavesWorkers, TokenSets DEF AnnounceItem, V
<1> QED BY <1>3, <1>4, <1>5, <1>6, <1>7, <1>8

LEMMA AdvanceRearEffect ==
  ASSUME LockInv, AdvanceRear
  PROVE  /\ Occupied' = Occupied + 1
         /\ HeadSlot' = HeadSlot
         /\ SlotTokens' = SlotTokens - 1
         /\ rear' = InRing(rear + 1)
<1>1. pc[Main] = "ins_advance" /\ pc'[Main] = "ins_V_mutex"
  BY DEF AdvanceRear, Goto, LockInv, TypeOK, Threads
<1>2. UNCHANGED <<Claimed, Unreleased, HeadSlot, items, slots>>
  BY MainLeavesWorkers DEF AdvanceRear
<1>3. slots \in Nat /\ items \in Nat /\ rear \in Slots
  BY DEF LockInv, TypeOK
<1>4. rear' = InRing(rear + 1)
  BY <1>3, NextIndex DEF AdvanceRear
<1> QED
  BY <1>1, <1>2, <1>3, <1>4, TokenSets
  DEF Occupied, SlotTokens, Reserved, Unannounced

LEMMA ReadSlotEffect ==
  ASSUME LockInv, NEW w \in Workers, ReadSlot(w)
  PROVE  /\ Occupied' = Occupied - 1
         /\ HeadSlot = front
         /\ HeadSlot' = InRing(front + 1)
         /\ SlotTokens' = SlotTokens + 1
<1>1. pc[w] = "rem_read" /\ Goto(w, "rem_read", "rem_advance")
      /\ UNCHANGED <<fds, front, rear, mutex, slots, items>>
  BY DEF ReadSlot, Goto
<1>2. pc'[w] = "rem_advance" /\ \A u \in Workers \ {w} : pc'[u] = pc[u]
  BY <1>1, WorkerMoves
<1>3. UNCHANGED <<Reserved, Unannounced>>
  BY <1>1, WorkerLeavesMain
<1>4. Claimed' = Claimed \ {w} /\ w \in Claimed
  BY <1>1, <1>2 DEF Claimed
<1>5. Unreleased' = Unreleased \cup {w} /\ w \notin Unreleased
  BY <1>1, <1>2 DEF Unreleased
<1>6. \A u \in Workers : pc[u] # "rem_advance"
  BY <1>1 DEF LockInv, Exclusion, Inside, CriticalLabels, Threads
<1>7. HeadSlot = front /\ HeadSlot' = InRing(front + 1)
  BY <1>1, <1>2, <1>6 DEF HeadSlot, InRing
<1>8. /\ Cardinality(Claimed') = Cardinality(Claimed) - 1
      /\ Cardinality(Unreleased') = Cardinality(Unreleased) + 1
  BY <1>4, <1>5, TokenSets, OneMore, OneLess
<1>9. slots \in Nat /\ items \in Nat /\ Reserved \in Nat /\ Unannounced \in Nat
  BY DEF LockInv, TypeOK, Reserved, Unannounced
<1> QED
  BY <1>1, <1>3, <1>7, <1>8, <1>9, TokenSets DEF Occupied, SlotTokens

LEMMA WorkerQuiet ==
  ASSUME LockInv, NEW w \in Workers,
         \/ CallRemove(w) \/ ClaimItem(w) \/ LockForRemove(w)
         \/ AdvanceFront(w) \/ UnlockAfterRemove(w) \/ ReleaseSlot(w)
  PROVE  Quiet
<1> DEFINE Still == UNCHANGED <<Claimed, Unreleased, HeadSlot>>
<1>1. ASSUME NEW from, NEW to, Goto(w, from, to)
      PROVE  /\ pc[w] = from /\ pc'[w] = to
             /\ \A u \in Workers \ {w} : pc'[u] = pc[u]
             /\ UNCHANGED <<Reserved, Unannounced>>
  BY <1>1, WorkerMoves, WorkerLeavesMain DEF Goto
<1>2. slots \in Nat /\ items \in Nat /\ front \in Slots
      /\ Reserved \in Nat /\ Unannounced \in Nat
  BY DEF LockInv, TypeOK, Reserved, Unannounced
<1>3. CASE CallRemove(w)
  <2>1. Still
    BY <1>1, <1>3 DEF CallRemove, Claimed, Unreleased, HeadSlot, InRing
  <2> QED BY <1>1, <1>3, <2>1 DEF CallRemove, Quiet, Occupied, SlotTokens
<1>4. CASE ClaimItem(w)
  <2>1. UNCHANGED <<Unreleased, HeadSlot>>
    BY <1>1, <1>4 DEF ClaimItem, Unreleased, HeadSlot, InRing
  <2>2. Claimed' = Claimed \cup {w} /\ w \notin Claimed
    BY <1>1, <1>4 DEF ClaimItem, Claimed
  <2>3. Cardinality(Claimed') = Cardinality(Claimed) + 1
    BY <2>2, TokenSets, OneMore
  <2> QED
    BY <1>1, <1>2, <1>4, <2>1, <2>3, TokenSets
    DEF ClaimItem, P, Quiet, Occupied, SlotTokens
<1>5. CASE LockForRemove(w)
  <2>1. Still
    BY <1>1, <1>5 DEF LockForRemove, Claimed, Unreleased, HeadSlot, InRing
  <2> QED BY <1>1, <1>5, <2>1 DEF LockForRemove, Quiet, Occupied, SlotTokens
<1>6. CASE AdvanceFront(w)
  <2>1. UNCHANGED <<Claimed, Unreleased>>
    BY <1>1, <1>6 DEF AdvanceFront, Claimed, Unreleased
  <2>2. \A u \in Workers \ {w} : pc[u] # "rem_advance"
    BY <1>1, <1>6
    DEF AdvanceFront, LockInv, Exclusion, Inside, CriticalLabels, Threads
  <2>3. \A u \in Workers : pc'[u] # "rem_advance"
    BY <1>1, <1>6, <2>2 DEF AdvanceFront
  <2>4. HeadSlot = InRing(front + 1) /\ HeadSlot' = front'
    BY <1>1, <1>6, <2>3 DEF AdvanceFront, HeadSlot
  <2>5. UNCHANGED HeadSlot
    BY <1>2, <1>6, <2>4, NextIndex DEF AdvanceFront
  <2> QED
    BY <1>1, <1>6, <2>1, <2>5 DEF AdvanceFront, Quiet, Occupied, SlotTokens
<1>7. CASE UnlockAfterRemove(w)
  <2>1. Still
    BY <1>1, <1>7 DEF UnlockAfterRemove, Claimed, Unreleased, HeadSlot, InRing
  <2> QED BY <1>1, <1>7, <2>1 DEF UnlockAfterRemove, Quiet, Occupied, SlotTokens
<1>8. CASE ReleaseSlot(w)
  <2>1. UNCHANGED <<Claimed, HeadSlot>>
    BY <1>1, <1>8 DEF ReleaseSlot, Claimed, HeadSlot, InRing
  <2>2. Unreleased' = Unreleased \ {w} /\ w \in Unreleased
    BY <1>1, <1>8 DEF ReleaseSlot, Unreleased
  <2>3. Cardinality(Unreleased') = Cardinality(Unreleased) - 1
    BY <2>2, TokenSets, OneLess
  <2> QED
    BY <1>1, <1>2, <1>8, <2>1, <2>3, TokenSets
    DEF ReleaseSlot, V, Quiet, Occupied, SlotTokens
<1> QED BY <1>3, <1>4, <1>5, <1>6, <1>7, <1>8
-----------------------------------------------------------------------------
InRange ==
  /\ Occupied \in Nat /\ SlotTokens \in Nat
  /\ HeadSlot \in Slots /\ front \in Slots /\ rear \in Slots
  /\ SlotsAccounted <=> Occupied + SlotTokens = QueueSize

LEMMA Ranges == LockInv => InRange
<1> SUFFICES ASSUME LockInv PROVE InRange
  OBVIOUS
<1>1. slots \in Nat /\ items \in Nat /\ Reserved \in Nat /\ Unannounced \in Nat
      /\ front \in Slots /\ rear \in Slots
  BY DEF LockInv, TypeOK, Reserved, Unannounced
<1>2. HeadSlot \in Slots
  BY <1>1, NextIndex DEF HeadSlot
<1> QED
  BY <1>1, <1>2, TokenSets DEF InRange, Occupied, SlotTokens, SlotsAccounted

\* Main publishes a descriptor only into a slot no unread descriptor occupies.
LEMMA RoomForInsert ==
  ASSUME IndInv, pc[Main] \in {"ins_P_mutex", "ins_write", "ins_advance"}
  PROVE  Occupied < QueueSize
<1>1. slots \in Nat /\ Reserved = 1
  BY DEF IndInv, LockInv, TypeOK, Reserved
<1> QED
  BY <1>1, TokenSets, Ranges, ConnQueueAssumption
  DEF IndInv, InRange, SlotTokens, SlotsAccounted

LEMMA IndInit == Init => IndInv
<1> SUFFICES ASSUME Init PROVE IndInv
  OBVIOUS
<1>1. LockInv
  BY LockInit
<1>2. Claimed = {} /\ Unreleased = {}
  BY DEF Init, Claimed, Unreleased, Threads
<1>3. Occupied = 0 /\ HeadSlot = 0 /\ SlotTokens = QueueSize
  BY <1>2, FS_EmptySet, ConnQueueAssumption
  DEF Init, Occupied, HeadSlot, SlotTokens, Reserved, Unannounced, Threads
<1>4. SlotsAccounted /\ IndicesAgree /\ WrittenKept
  BY <1>1, <1>3, Ranges, ConnQueueAssumption
  DEF Init, InRange, IndicesAgree, WrittenKept, InRing, Threads
<1> QED BY <1>1, <1>4 DEF IndInv

LEMMA IndStep == IndInv /\ [Next]_vars => IndInv'
<1> SUFFICES ASSUME IndInv, [Next]_vars PROVE IndInv'
  OBVIOUS
<1>1. LockInv /\ LockInv'
  BY LockStep DEF IndInv
<1>2. /\ InRange /\ InRange'
      /\ Occupied + SlotTokens = QueueSize
      /\ rear = InRing(HeadSlot + Occupied)
  <2>1. InRange /\ InRange'
    BY <1>1, Ranges, PTL
  <2> QED BY <2>1 DEF InRange, IndInv, IndicesAgree
<1>3. ASSUME Quiet, UNCHANGED rear PROVE SlotsAccounted' /\ IndicesAgree'
  BY <1>2, <1>3 DEF Quiet, InRange, IndicesAgree, InRing
<1>4. ASSUME UNCHANGED <<fds, rear>>, connfd'[Main] = connfd[Main],
             pc'[Main] # "ins_advance" \/ pc'[Main] = pc[Main]
      PROVE  WrittenKept'
  BY <1>4 DEF IndInv, WrittenKept
<1>5. CASE AdvanceRear
  <2>1. SlotsAccounted' /\ IndicesAgree'
    BY <1>1, <1>2, <1>5, AdvanceRearEffect, ConnQueueAssumption
    DEF InRange, IndicesAgree, InRing, Slots
  <2>2. WrittenKept'
    BY <1>1, <1>5 DEF AdvanceRear, Goto, WrittenKept, LockInv, TypeOK, Threads
  <2> QED BY <1>1, <2>1, <2>2 DEF IndInv
<1>6. ASSUME NEW w \in Workers, ReadSlot(w) PROVE IndInv'
  <2>0. /\ Occupied' = Occupied - 1 /\ SlotTokens' = SlotTokens + 1
        /\ HeadSlot' = InRing(HeadSlot + 1) /\ rear' = rear
    BY <1>1, <1>6, ReadSlotEffect DEF ReadSlot
  <2>1. SlotsAccounted' /\ IndicesAgree'
    BY <1>2, <2>0, ConnQueueAssumption
    DEF InRange, IndicesAgree, InRing, Slots
  <2>2. WrittenKept'
    BY <1>1, <1>4, <1>6, ConnQueueAssumption
    DEF ReadSlot, Goto, LockInv, TypeOK, Threads
  <2> QED BY <1>1, <2>1, <2>2 DEF IndInv
<1>7. CASE WriteSlot
  <2>1. SlotsAccounted' /\ IndicesAgree'
    BY <1>1, <1>3, <1>7, MainQuiet DEF WriteSlot
  <2>2. WrittenKept'
    BY <1>1, <1>7 DEF WriteSlot, Goto, WrittenKept, LockInv, TypeOK, Threads
  <2> QED BY <1>1, <2>1, <2>2 DEF IndInv
<1>8. CASE \/ \E fd \in Fds : CallInsert(fd)
           \/ ReserveSlot \/ LockForInsert \/ UnlockAfterInsert \/ AnnounceItem
  <2>1. Quiet /\ UNCHANGED rear
    BY <1>1, <1>8, MainQuiet
    DEF CallInsert, ReserveSlot, LockForInsert, UnlockAfterInsert, AnnounceItem
  <2>2. pc'[Main] # "ins_advance"
    BY <1>1, <1>8
    DEF CallInsert, ReserveSlot, LockForInsert, UnlockAfterInsert, AnnounceItem,
        Goto, LockInv, TypeOK, Threads
  <2> QED BY <1>1, <1>3, <2>1, <2>2 DEF IndInv, WrittenKept
<1>9. ASSUME NEW w \in Workers,
             \/ CallRemove(w) \/ ClaimItem(w) \/ LockForRemove(w)
             \/ AdvanceFront(w) \/ UnlockAfterRemove(w) \/ ReleaseSlot(w)
      PROVE  IndInv'
  <2>1. Quiet
    BY <1>1, <1>9, WorkerQuiet
  <2>2. /\ UNCHANGED <<fds, rear, connfd>>
        /\ pc'[Main] = pc[Main]
    BY <1>1, <1>9, WorkerLeavesMain
    DEF CallRemove, ClaimItem, LockForRemove, AdvanceFront, UnlockAfterRemove,
        ReleaseSlot
  <2> QED BY <1>1, <1>3, <1>4, <2>1, <2>2 DEF IndInv
<1>10. CASE UNCHANGED vars
  <2>1. UNCHANGED <<Occupied, HeadSlot, SlotTokens, fds, rear, connfd, pc>>
    BY <1>10, Zenon
    DEF vars, Occupied, HeadSlot, SlotTokens, Claimed, Unreleased, Reserved,
        Unannounced, InRing
  <2> QED BY <1>1, <1>3, <1>4, <2>1 DEF IndInv, Quiet
<1> QED
  BY <1>5, <1>6, <1>7, <1>8, <1>9, <1>10 DEF Next, InsertStep, RemoveStep

LEMMA IndInvariant == Spec => []IndInv
  BY IndInit, IndStep, PTL DEF Spec

\* Every variable keeps its type; above all both indices stay inside the ring.
THEOREM TypeCorrect == Spec => []TypeOK
<1>1. IndInv => TypeOK
  BY DEF IndInv, LockInv
<1> QED BY <1>1, IndInvariant, PTL

\* The slots and items semaphores account for every slot of the ring.
THEOREM SlotsAlwaysAccounted == Spec => []SlotsAccounted
<1>1. IndInv => SlotsAccounted
  BY DEF IndInv
<1> QED BY <1>1, IndInvariant, PTL
-----------------------------------------------------------------------------
(***************************************************************************)
(* The refinement.  Insert takes effect when main advances rear, Remove    *)
(* when the worker reads its descriptor; every other step is a stutter of  *)
(* the abstract queue or the beginning of one of its calls.                *)
(***************************************************************************)
Values == Fds \cup {NoFd}
Offer == IF pc[Main] \in {"P_slots", "ins_P_mutex", "ins_write", "ins_advance"}
         THEN connfd[Main] ELSE NoFd
Waiting == {w \in Workers : pc[w] \in {"P_items", "rem_P_mutex", "rem_read"}}
Taken == [w \in Workers |-> connfd[w]]

ContentsOK == Contents \in Seq(Values) /\ Len(Contents) = Occupied

LEMMA ContentsSeq == IndInv => ContentsOK
<1> SUFFICES ASSUME IndInv PROVE ContentsOK
  OBVIOUS
<1>1. InRange /\ Occupied <= QueueSize
  BY Ranges DEF IndInv, InRange
<1>2. \A k \in 1 .. Occupied : fds[InRing(HeadSlot + k - 1)] \in Values
  <2> TAKE k \in 1 .. Occupied
  <2>1. InRing(HeadSlot + k - 1) \in Slots
    BY <1>1, ConnQueueAssumption DEF InRange, InRing, Slots
  <2> QED BY <2>1 DEF IndInv, LockInv, TypeOK, Values
<1>3. Contents \in [1 .. Occupied -> Values] /\ Occupied \in Nat
  BY <1>1, <1>2 DEF Contents, InRange
<1> QED BY <1>3, SeqDef, LenProperties DEF ContentsOK

\* A quiet step that leaves the ring's unread slots alone leaves the contents.
LEMMA ContentsStable ==
  ASSUME IndInv, Quiet,
         \A k \in 1 .. Occupied :
           fds'[InRing(HeadSlot + k - 1)] = fds[InRing(HeadSlot + k - 1)]
  PROVE  Contents' = Contents
  BY DEF Quiet, Contents, InRing
\* Advancing rear appends the descriptor main wrote.
LEMMA InsertTakesEffect ==
  ASSUME IndInv, IndInv', AdvanceRear
  PROVE  Contents' = Append(Contents, connfd[Main]) /\ Len(Contents) < QueueSize
<1>1. /\ InRange /\ ContentsOK /\ ContentsOK'
      /\ rear = InRing(HeadSlot + Occupied)
      /\ pc[Main] = "ins_advance"
  BY ContentsSeq, Ranges, PTL
  DEF IndInv, IndicesAgree, AdvanceRear, Goto
<1>2. /\ Occupied' = Occupied + 1 /\ HeadSlot' = HeadSlot
      /\ fds' = fds /\ fds[rear] = connfd[Main] /\ connfd[Main] \in Values
  BY <1>1, AdvanceRearEffect
  DEF AdvanceRear, IndInv, WrittenKept, LockInv, TypeOK, Threads, Values
<1>3. Occupied < QueueSize
  BY <1>1, RoomForInsert
<1> DEFINE new == Append(Contents, connfd[Main])
<1>4. /\ new \in Seq(Values) /\ Len(new) = Occupied + 1
      /\ \A k \in 1 .. Occupied + 1 :
           new[k] = IF k <= Occupied THEN Contents[k] ELSE connfd[Main]
  BY <1>1, <1>2 DEF ContentsOK
<1>5. \A k \in 1 .. Occupied + 1 : Contents'[k] = new[k]
  <2> TAKE k \in 1 .. Occupied + 1
  <2>1. Contents'[k] = fds[InRing(HeadSlot + k - 1)]
    BY <1>1, <1>2 DEF Contents, InRange, InRing
  <2>2. CASE k = Occupied + 1
    <3>1. HeadSlot + k - 1 = HeadSlot + Occupied
      BY <1>1, <2>2 DEF InRange, Slots
    <3> QED BY <1>1, <1>2, <1>4, <2>1, <2>2, <3>1 DEF InRange
  <2>3. CASE k \in 1 .. Occupied
    BY <1>1, <1>4, <2>1, <2>3 DEF Contents, InRange
  <2>4. k = Occupied + 1 \/ k \in 1 .. Occupied
    BY <1>1 DEF InRange
  <2> QED BY <2>2, <2>3, <2>4
<1>6. Contents' = new
  <2>1. /\ Contents' \in Seq(Values) /\ Len(Contents') = Occupied + 1
    BY <1>1, <1>2 DEF ContentsOK
  <2> HIDE DEF new
  <2> QED BY <1>4, <1>5, <2>1, SeqEqual
<1> QED BY <1>1, <1>3, <1>6 DEF ContentsOK

\* Reading the slot at front takes the oldest descriptor.
LEMMA RemoveTakesEffect ==
  ASSUME IndInv, IndInv', NEW w \in Workers, ReadSlot(w)
  PROVE  /\ Contents # <<>>
         /\ connfd' = [connfd EXCEPT ![w] = Head(Contents)]
         /\ Contents' = Tail(Contents)
<1>1. InRange /\ InRange' /\ ContentsOK /\ ContentsOK'
  BY ContentsSeq, Ranges, PTL DEF IndInv
<1>2. /\ Occupied' = Occupied - 1 /\ HeadSlot = front
      /\ HeadSlot' = InRing(HeadSlot + 1) /\ fds' = fds
  BY ReadSlotEffect DEF ReadSlot, IndInv
<1>3. /\ Occupied \in Nat /\ Occupied >= 1 /\ Occupied' \in Nat
      /\ Occupied <= QueueSize
  BY <1>1, <1>2 DEF InRange, IndInv
<1>4. Contents # <<>>
  BY <1>1, <1>3 DEF ContentsOK
<1>5. Head(Contents) = fds[front]
  <2>1. Head(Contents) = Contents[1]
    BY <1>1, <1>4
  <2>2. Contents[1] = fds[InRing(HeadSlot)]
    BY <1>1, <1>3 DEF Contents, InRange, Slots
  <2>3. InRing(HeadSlot) = front
    BY <1>1, <1>2, ConnQueueAssumption DEF InRange, InRing, Slots
  <2> QED BY <2>1, <2>2, <2>3
<1>6. /\ Tail(Contents) \in Seq(Values) /\ Len(Tail(Contents)) = Occupied - 1
      /\ \A k \in 1 .. Occupied - 1 : Tail(Contents)[k] = Contents[k + 1]
  BY <1>1, <1>4, HeadTailProperties DEF ContentsOK
<1>7. \A k \in 1 .. Occupied - 1 : Contents'[k] = Contents[k + 1]
  <2> TAKE k \in 1 .. Occupied - 1
  <2>1. Contents'[k] = fds[InRing(InRing(HeadSlot + 1) + k - 1)]
    BY <1>2, <1>3 DEF Contents, InRing
  <2>2. Contents[k + 1] = fds[InRing(HeadSlot + (k + 1) - 1)]
    BY <1>3 DEF Contents
  <2>3. InRing(InRing(HeadSlot + 1) + k - 1) = InRing(HeadSlot + (k + 1) - 1)
    BY <1>1, <1>3, ConnQueueAssumption DEF InRange, InRing, Slots
  <2> QED BY <2>1, <2>2, <2>3
<1>8. Contents' = Tail(Contents)
  <2>1. Contents' \in Seq(Values) /\ Len(Contents') = Occupied - 1
    BY <1>1, <1>2 DEF ContentsOK
  <2>2. \A k \in 1 .. Len(Contents') : Contents'[k] = Tail(Contents)[k]
    BY <1>6, <1>7, <2>1
  <2> QED BY <1>6, <2>1, <2>2, SeqEqual
<1> QED BY <1>4, <1>5, <1>8 DEF ReadSlot
\* What Fifo's variables and actions are once the mapping is substituted.
FifoVars == <<Contents, Offer, Waiting, Taken>>

LEMMA FifoInit == Init => Fifo!Init
<1> SUFFICES ASSUME Init PROVE Fifo!Init
  OBVIOUS
<1>1. IndInv /\ ContentsOK
  BY IndInit, ContentsSeq
<1>2. Occupied = 0
  <2>1. Claimed = {}
    BY DEF Init, Claimed, Threads
  <2> QED BY <2>1, FS_EmptySet DEF Init, Occupied, Unannounced, Threads
<1>3. Contents = <<>>
  BY <1>1, <1>2, EmptySeq DEF ContentsOK
<1> QED BY <1>3, Zenon DEF Init, Fifo!Init, Threads

\* Every step of the ring is a step of the abstract queue or leaves it alone.
LEMMA FifoStep == IndInv /\ IndInv' /\ [Next]_vars => [Fifo!Next]_(Fifo!vars)
<1> SUFFICES ASSUME IndInv, IndInv', [Next]_vars
             PROVE  Fifo!Next \/ UNCHANGED FifoVars
  BY Zenon DEF FifoVars, Fifo!vars, Offer, Waiting, Taken
<1>1. LockInv /\ TypeOK /\ LabelsOK
  BY DEF IndInv, LockInv
<1>2. InRange /\ rear = InRing(HeadSlot + Occupied)
  BY <1>1, Ranges DEF IndInv, IndicesAgree
<1>3. ASSUME Quiet, UNCHANGED fds PROVE Contents' = Contents
  BY <1>3, ContentsStable
<1>4. ASSUME NEW from, NEW to, Goto(Main, from, to)
      PROVE  /\ pc[Main] = from /\ pc'[Main] = to
             /\ \A w \in Workers : pc'[w] = pc[w]
             /\ Waiting' = Waiting
  BY <1>1, <1>4, ConnQueueAssumption DEF Goto, TypeOK, Threads, Waiting
<1>5. ASSUME NEW w \in Workers, NEW from, NEW to, Goto(w, from, to)
      PROVE  /\ pc[w] = from /\ pc'[w] = to
             /\ \A u \in Workers \ {w} : pc'[u] = pc[u]
             /\ pc'[Main] = pc[Main]
  BY <1>1, <1>5, WorkerMoves, WorkerLeavesMain DEF Goto
<1>6. ASSUME NEW fd \in Fds, CallInsert(fd) PROVE Fifo!Next
  <2>1. Contents' = Contents
    BY <1>1, <1>3, <1>6, MainQuiet DEF CallInsert
  <2>2. Waiting' = Waiting /\ Taken' = Taken
    BY <1>1, <1>4, <1>6, ConnQueueAssumption
    DEF CallInsert, Taken, TypeOK, Threads
  <2>3. Offer = NoFd /\ Offer' = fd
    BY <1>1, <1>4, <1>6 DEF CallInsert, Offer, TypeOK, Threads
  <2>4. Fifo!BeginInsert(fd)
    BY <2>1, <2>2, <2>3 DEF Fifo!BeginInsert, Offer, Waiting, Taken
  <2> QED BY <2>4 DEF Fifo!Next
<1>7. CASE AdvanceRear
  <2>1. Contents' = Append(Contents, connfd[Main]) /\ Len(Contents) < QueueSize
    BY <1>7, InsertTakesEffect
  <2>2. Waiting' = Waiting /\ Taken' = Taken
    BY <1>4, <1>7 DEF AdvanceRear, Taken
  <2>3. Offer = connfd[Main] /\ Offer' = NoFd /\ connfd[Main] # NoFd
    BY <1>1, <1>4, <1>7, ConnQueueAssumption
    DEF AdvanceRear, Offer, IndInv, LockInv, OfferReal, InsertLabels
  <2>4. Fifo!Insert
    BY <2>1, <2>2, <2>3 DEF Fifo!Insert, Offer, Waiting, Taken
  <2> QED BY <2>4 DEF Fifo!Next
<1>8. CASE WriteSlot
  <2>1. pc[Main] = "ins_write" /\ pc'[Main] = "ins_advance" /\ Waiting' = Waiting
    BY <1>4, <1>8 DEF WriteSlot
  <2>2. Occupied < QueueSize /\ Quiet
    BY <1>1, <1>8, <2>1, RoomForInsert, MainQuiet
  <2>3. \A k \in 1 .. Occupied : InRing(HeadSlot + k - 1) # rear
    BY <1>2, <2>2, ConnQueueAssumption DEF InRange, InRing, Slots
  <2>4. \A s : s # rear => fds'[s] = fds[s]
    BY <1>1, <1>8 DEF WriteSlot, TypeOK
  <2>5. Contents' = Contents
    BY <2>2, <2>3, <2>4, ContentsStable
  <2>6. Offer' = Offer /\ Taken' = Taken
    BY <1>8, <2>1 DEF WriteSlot, Offer, Taken
  <2> QED BY <2>1, <2>5, <2>6 DEF FifoVars
<1>9. CASE ReserveSlot \/ LockForInsert \/ UnlockAfterInsert \/ AnnounceItem
  <2>1. Contents' = Contents
    BY <1>1, <1>3, <1>9, MainQuiet
    DEF ReserveSlot, LockForInsert, UnlockAfterInsert, AnnounceItem
  <2>2. Waiting' = Waiting /\ connfd' = connfd
    BY <1>4, <1>9
    DEF ReserveSlot, LockForInsert, UnlockAfterInsert, AnnounceItem
  <2>3. Offer' = Offer
    BY <1>4, <1>9, <2>2
    DEF ReserveSlot, LockForInsert, UnlockAfterInsert, AnnounceItem, Offer
  <2> QED BY <2>1, <2>2, <2>3 DEF FifoVars, Taken
<1>10. ASSUME NEW w \in Workers, CallRemove(w) PROVE Fifo!Next
  <2>1. Contents' = Contents
    BY <1>1, <1>3, <1>10, WorkerQuiet DEF CallRemove
  <2>2. Offer' = Offer /\ Taken' = Taken
    BY <1>5, <1>10 DEF CallRemove, Offer, Taken
  <2>3. w \notin Waiting /\ Waiting' = Waiting \cup {w}
    BY <1>5, <1>10 DEF CallRemove, Waiting
  <2>4. Fifo!BeginRemove(w)
    BY <2>1, <2>2, <2>3 DEF Fifo!BeginRemove, Offer, Waiting, Taken
  <2> QED BY <2>4 DEF Fifo!Next
<1>11. ASSUME NEW w \in Workers, ReadSlot(w) PROVE Fifo!Next
  <2>1. /\ Contents # <<>> /\ Contents' = Tail(Contents)
        /\ connfd' = [connfd EXCEPT ![w] = Head(Contents)]
    BY <1>11, RemoveTakesEffect
  <2>2. Offer' = Offer
    BY <1>1, <1>5, <1>11, ConnQueueAssumption
    DEF ReadSlot, Offer, TypeOK, Threads
  <2>3. Taken' = [Taken EXCEPT ![w] = Head(Contents)]
    BY <1>1, <2>1 DEF Taken, TypeOK, Threads
  <2>4. w \in Waiting /\ Waiting' = Waiting \ {w}
    BY <1>5, <1>11 DEF ReadSlot, Waiting
  <2>5. Fifo!Remove(w)
    BY <2>1, <2>2, <2>3, <2>4 DEF Fifo!Remove, Offer, Waiting, Taken
  <2> QED BY <2>5 DEF Fifo!Next
<1>12. ASSUME NEW w \in Workers,
              \/ ClaimItem(w) \/ LockForRemove(w) \/ AdvanceFront(w)
              \/ UnlockAfterRemove(w) \/ ReleaseSlot(w)
       PROVE  UNCHANGED FifoVars
  <2>1. Contents' = Contents
    BY <1>1, <1>3, <1>12, WorkerQuiet
    DEF ClaimItem, LockForRemove, AdvanceFront, UnlockAfterRemove, ReleaseSlot
  <2>2. connfd' = connfd /\ pc'[Main] = pc[Main]
    BY <1>5, <1>12
    DEF ClaimItem, LockForRemove, AdvanceFront, UnlockAfterRemove, ReleaseSlot
  <2>3. Waiting' = Waiting
    BY <1>5, <1>12
    DEF ClaimItem, LockForRemove, AdvanceFront, UnlockAfterRemove, ReleaseSlot,
        Waiting
  <2> QED BY <2>1, <2>2, <2>3 DEF FifoVars, Offer, Taken
<1>13. CASE UNCHANGED vars
  BY <1>13, Zenon
  DEF vars, FifoVars, Contents, Occupied, HeadSlot, Claimed, Unannounced, InRing,
      Offer, Waiting, Taken
<1> QED
  BY <1>6, <1>7, <1>8, <1>9, <1>10, <1>11, <1>12, <1>13
  DEF Next, InsertStep, RemoveStep

\* conn_queue_insert and conn_queue_remove, run statement by statement under
\* three semaphores, are an atomic first-in first-out queue: each descriptor
\* main inserts goes to exactly one worker, in order, and none is overwritten.
THEOREM QueueIsFifo == Spec => ImplementsFifo
<1>1. Spec => Init /\ [][Next]_vars
  BY DEF Spec
<1> QED
  BY <1>1, IndInvariant, FifoInit, FifoStep, PTL DEF ImplementsFifo, Fifo!Spec
=============================================================================
