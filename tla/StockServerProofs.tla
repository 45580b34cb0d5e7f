-------------------------- MODULE StockServerProofs --------------------------
(***************************************************************************)
(* For every set of workers, connections, stocks and trades: the save at a *)
(* clean shutdown is of one moment and has every answered trade, no later  *)
(* life loses what was saved, and the whole server is a durable store.     *)
(* The threads keep the invariant of ServerLifecycleProofs in each life.   *)
(***************************************************************************)
EXTENDS StockServer, ServerLifecycleProofs

\* A server that stops by itself, without an exit, has returned from
\* run_server_stub; main saves only after that.
ReturnedFirst ==
  /\ outcome \in {"OK", "INTERNAL"} => main = "returned"
  /\ process \in {"saving", "synced", "published", "saved"} => main = "returned"

\* A trade that is executed was asked for; a process that is down has left
\* nothing in memory, and one that does not save has no image.
MemoryOK ==
  /\ \A w \in Workers : doing[w] # NoTrade => doing[w] \in asked
  /\ ~Up => /\ \A w \in Workers : doing[w] = NoTrade
            /\ done = {} /\ told = {}
  /\ process \in {"down", "booting", "booted", "serving"} => DOMAIN image = {}

\* What was answered, what is about to be and what the process has found on the
\* disk is in the store.
InStore ==
  Up => /\ told \subseteq Included(live)
        /\ \A w \in done : doing[w] \in Included(live)
        /\ Included(found) \subseteq Included(live)

\* The image is of the store as it is, and becomes what a start finds.
ImageOfStore ==
  /\ \A i \in DOMAIN image : image[i] = live[i]
  /\ process \in {"synced", "published", "saved"} => image = live
  /\ process \in {"booted", "published", "saved"} => found = live
  /\ process = "saved" => durable = {live}

\* A manifest is renamed when all before it is durable; a bootstrap finds none.
DiskOK ==
  /\ OnePublicationAtStake
  /\ process = "synced" => durable = {found}
  /\ found = NoStore => durable = {NoStore}
  /\ process = "booting" => found = NoStore

ServerInv ==
  /\ ServerTypeOK /\ IndInv
  /\ ReturnedFirst /\ MemoryOK /\ InStore /\ ImageOfStore /\ DiskOK
-----------------------------------------------------------------------------
\* Safe only depends on the disk.
LEMMA SafeUnchanged ==
  ASSUME UNCHANGED durable
  PROVE  Safe' = Safe
  BY DEF Safe, Included

LEMMA DiskUnchanged ==
  ASSUME ServerInv, UNCHANGED <<found, durable>>,
         process' \in {"synced", "booting"} => process' = process
  PROVE  DiskOK'
  BY DEF ServerInv, DiskOK, OnePublicationAtStake

\* An fsync of the directory makes certain what a start would find anyway.
LEMMA DirectorySynced ==
  ASSUME ServerInv, durable' = {found}, found' = found,
         process' = "booting" => found = NoStore
  PROVE  /\ DiskOK' /\ Safe \subseteq Safe'
         /\ durable' \in SUBSET (Stores \cup {NoStore}) /\ found' \in durable'
<1>1. found \in durable /\ durable \in SUBSET (Stores \cup {NoStore})
  BY DEF ServerInv, ServerTypeOK
<1>2. Safe \subseteq Safe'
  BY <1>1 DEF Safe, Included
<1> QED BY <1>1, <1>2 DEF DiskOK, OnePublicationAtStake

\* No worker has a request once run_server_stub has returned.
LEMMA NobodyServes ==
  ASSUME ServerInv, main = "returned"
  PROVE  /\ \A w \in Workers : worker[w] = "finished" /\ doing[w] = NoTrade
         /\ done = {}
<1>1. \A w \in Workers : worker[w] = "finished"
  BY DEF ServerInv, IndInv, ReturnedIdle, StableWhenReturned
<1> QED
  BY <1>1 DEF ServerInv, ServerTypeOK

\* Only a server that serves has a worker with a trade.
LEMMA ServesToTrade ==
  ASSUME ServerInv, Threads, NEW w \in Workers,
         doing[w] # NoTrade \/ w \in done \/ worker[w] = "serving"
  PROVE  process = "serving" /\ Up
<1>1. main # "returned"
  BY NobodyServes
<1> QED
  BY <1>1 DEF ServerInv, ReturnedFirst, Threads, Up

-----------------------------------------------------------------------------
LEMMA InvInit == ServerInit => ServerInv
<1> SUFFICES ASSUME ServerInit PROVE ServerInv
  OBVIOUS
<1>1. IndInv /\ outcome \in {"running", "failing"}
  BY IndInit DEF ServerInit, Init
<1>2. /\ process = "down" /\ live = NoStore /\ ~Up
      /\ doing = [w \in Workers |-> NoTrade] /\ done = {}
      /\ asked = {} /\ told = {} /\ durable = {NoStore} /\ found = NoStore
      /\ image = NoImage /\ DOMAIN image = {}
  BY DEF ServerInit, Up, NoImage
<1>3. image \in [{} -> SUBSET Trades]
  BY <1>2 DEF NoImage
<1>4. ServerTypeOK
  BY <1>2, <1>3 DEF ServerTypeOK
<1>5. ReturnedFirst /\ MemoryOK /\ InStore /\ ImageOfStore /\ DiskOK
  BY <1>1, <1>2
  DEF ReturnedFirst, MemoryOK, InStore, ImageOfStore, DiskOK, OnePublicationAtStake
<1> QED
  BY <1>1, <1>4, <1>5 DEF ServerInv

\* A process starts with threads as run_server_stub makes them ...
LEMMA BootThreads ==
  ASSUME Boot
  PROVE  IndInv' /\ outcome' \in {"running", "failing"}
<1>1. Init'
  BY DEF Boot, Init, Queue!Init
<1>2. Init' => IndInv'
  BY IndInit, PTL
<1>3. outcome' \in {"running", "failing"}
  BY DEF Boot
<1> QED
  BY <1>1, <1>2, <1>3

\* ... and a store that has what is safe.
LEMMA BootInv ==
  ASSUME ServerInv, Boot
  PROVE  ServerInv'
<1>1. IF found = NoStore THEN process' = "booting" /\ live' = InitStore
                         ELSE process' = "serving" /\ live' = found
  BY DEF Boot
<1>2. /\ process = "down" /\ ~Up /\ Up'
      /\ UNCHANGED <<doing, done, asked, told, image, found, durable>>
      /\ worker' = [w \in Workers |-> "ready"]
  BY <1>1 DEF Boot, Up
<1>3. /\ \A w \in Workers : doing[w] = NoTrade
      /\ done = {} /\ told = {} /\ DOMAIN image = {}
  BY <1>2 DEF ServerInv, MemoryOK
<1>4. InitStore \in Stores /\ found \in Stores \cup {NoStore}
  BY DEF ServerInv, ServerTypeOK, InitStore, Stores
<1>5. live' \in Stores /\ process' \in {"booting", "serving"}
  BY <1>1, <1>4
<1>6. ServerTypeOK'
  BY <1>2, <1>3, <1>5 DEF ServerInv, ServerTypeOK
<1>7. Included(found) \subseteq Included(live')
  BY <1>1 DEF Included
<1>8. InStore'
  BY <1>2, <1>3, <1>7 DEF InStore, Included
<1>10. DiskOK'
  <2>1. process' = "booting" => found = NoStore
    BY <1>1
  <2>2. process' # "synced"
    BY <1>5
  <2> QED BY <1>2, <2>1, <2>2 DEF ServerInv, DiskOK, OnePublicationAtStake
<1>9. ReturnedFirst' /\ MemoryOK' /\ ImageOfStore'
  BY <1>2, <1>3, <1>5, BootThreads DEF ReturnedFirst, MemoryOK, ImageOfStore
<1> QED
  BY <1>6, <1>8, <1>9, <1>10, BootThreads DEF ServerInv

\* The variables of the lifecycle keep their invariant in any step of theirs.
LEMMA ThreadsInv ==
  ASSUME ServerInv, LifecycleStep
  PROVE  /\ IndInv' /\ ReturnedFirst'
         /\ \A w \in Workers : doing[w] # NoTrade => worker'[w] = "serving"
<1>1. CASE ~Running
  <2>1. main = "returned"
    BY <1>1 DEF ServerInv, IndInv, TypeOK, ReturnedFirst, LifecycleStep,
                Threads, Running
  <2>2. \A w \in Workers : worker[w] = "finished"
    BY <2>1, NobodyServes
  <2> QED
    BY <1>1, <2>2 DEF LifecycleStep, WorkerStep, CallRemove, Removed, ClientLeaves
<1>2. CASE Running
  <2>1. Next
    BY <1>2 DEF LifecycleStep, Next
  <2>2. IndInv'
    BY <2>1, IndStep DEF ServerInv
  <2>3. main # "returned"
    BY <1>2, NotReturned DEF ServerInv
  <2>4. process' = process /\ process \notin {"saving", "synced", "published", "saved"}
    BY <2>3 DEF LifecycleStep, saveVars, ServerInv, ReturnedFirst
  <2>5. outcome' \in {"OK", "INTERNAL"} => main' = "returned"
    BY <1>2 DEF LifecycleStep, MainStep, TestFlag, CallAccept, Accept, Inserted,
       InsertPill, JoinAll, Return, AcceptFails, Connect, Signal, WorkerStep,
       CallRemove, Removed, ClientLeaves, Running
  <2>6. \A w \in Workers : doing[w] # NoTrade => worker'[w] = "serving"
    <3> SUFFICES ASSUME NEW w \in Workers, doing[w] # NoTrade
                 PROVE  worker'[w] = "serving"
      OBVIOUS
    <3>1. worker[w] = "serving" /\ worker \in [Workers -> {"ready", "removing",
                                                "serving", "finished"}]
      BY DEF ServerInv, ServerTypeOK, IndInv, TypeOK
    <3>2. CASE UNCHANGED worker
      BY <3>1, <3>2
    <3>3. CASE \E v \in Workers : WorkerStep(v) \/ (doing[v] = NoTrade /\ ClientLeaves(v))
      BY <3>1, <3>3 DEF WorkerStep, CallRemove, Removed, ClientLeaves
    <3> QED
      BY <3>2, <3>3 DEF LifecycleStep, MainStep, TestFlag, CallAccept, Accept,
         Inserted, InsertPill, JoinAll, Return, AcceptFails, Connect, Signal
  <2> QED
    BY <2>2, <2>4, <2>5, <2>6 DEF ReturnedFirst
<1> QED
  BY <1>1, <1>2

LEMMA LifecycleInv ==
  ASSUME ServerInv, LifecycleStep
  PROVE  ServerInv'
<1>1. UNCHANGED <<live, doing, done, asked, told, process, image, found, durable, Up>>
  BY DEF LifecycleStep, tradeVars, saveVars, Up
<1>2. ServerTypeOK'
  BY <1>1, ThreadsInv DEF ServerInv, ServerTypeOK
<1>3. MemoryOK' /\ InStore' /\ ImageOfStore' /\ DiskOK'
  BY <1>1, DiskUnchanged DEF ServerInv, MemoryOK, InStore, ImageOfStore, Included
<1> QED
  BY <1>2, <1>3, ThreadsInv DEF ServerInv

-----------------------------------------------------------------------------
\* The invariant on the threads holds while they do nothing.
LEMMA ThreadsIdle ==
  ASSUME ServerInv, UNCHANGED vars
  PROVE  /\ IndInv' /\ UNCHANGED <<main, outcome, worker>>
  BY IndStep DEF ServerInv, vars, lifeVars

\* A bootstrap publishes the store of the init file, and makes it durable.
LEMMA BootstrapInv ==
  ASSUME ServerInv, Bootstrap \/ SettleFirst
  PROVE  ServerInv' /\ Safe \subseteq Safe'
<1>1. /\ process \in {"booting", "booted"} /\ process' \in {"booted", "serving"}
      /\ UNCHANGED <<vars, live, doing, done, asked, told, image>>
      /\ found' = live /\ Up /\ Up'
  BY DEF Bootstrap, SettleFirst, tradeVars, Up, ServerInv, ImageOfStore
<1>2. live \in Stores /\ live # NoStore
  BY <1>1, StoresAssumption DEF ServerInv, ServerTypeOK
<1>3. /\ durable' \in SUBSET (Stores \cup {NoStore}) /\ found' \in durable'
      /\ DiskOK' /\ Safe \subseteq Safe'
  <2>1. CASE Bootstrap
    <3>1. durable = {NoStore} /\ durable' = {NoStore, live}
      BY <2>1 DEF Bootstrap, ServerInv, DiskOK
    <3>2. OnePublicationAtStake'
      BY <1>1, <3>1 DEF OnePublicationAtStake
    <3>3. Safe = {}
      BY <3>1 DEF Safe, Included
    <3> QED BY <1>1, <1>2, <3>1, <3>2, <3>3 DEF DiskOK
  <2>2. CASE SettleFirst
    BY <2>2, <1>1, DirectorySynced DEF SettleFirst
  <2> QED BY <2>1, <2>2
<1>4. ServerTypeOK'
  BY <1>1, <1>2, <1>3, ThreadsIdle DEF ServerInv, ServerTypeOK
<1>6. InStore'
  BY <1>1 DEF ServerInv, InStore, Included
<1>8. ReturnedFirst' /\ MemoryOK' /\ ImageOfStore'
  BY <1>1, ThreadsIdle
  DEF ServerInv, ReturnedFirst, MemoryOK, ImageOfStore
<1> QED
  BY <1>1, <1>3, <1>4, <1>6, <1>8, ThreadsIdle DEF ServerInv

\* A request is read, and takes effect, only while main serves.
LEMMA AskInv ==
  ASSUME ServerInv, NEW w \in Workers, NEW t \in Trades, Ask(w, t)
  PROVE  ServerInv'
<1>1. /\ worker[w] = "serving" /\ doing[w] = NoTrade /\ Threads
      /\ doing' = [doing EXCEPT ![w] = t] /\ asked' = asked \cup {t}
      /\ UNCHANGED <<vars, live, done, told, process, image, found, durable>>
      /\ Up' = Up
  BY DEF Ask, saveVars, Up
<1>2. process = "serving" /\ Up
  BY <1>1, ServesToTrade
<1>3. t # NoTrade
  BY TradesAssumption
<1>4. doing \in [Workers -> Trades \cup {NoTrade}] /\ w \notin done
  BY <1>1 DEF ServerInv, ServerTypeOK
<1>5. ServerTypeOK'
  BY <1>1, <1>3, <1>4, ThreadsIdle DEF ServerInv, ServerTypeOK
<1>6. \A v \in done : doing'[v] = doing[v]
  BY <1>1, <1>4 DEF ServerInv, ServerTypeOK
<1>7. InStore'
  BY <1>1, <1>6 DEF ServerInv, InStore, Included
<1>8. ReturnedFirst' /\ MemoryOK' /\ ImageOfStore' /\ DiskOK'
  BY <1>1, <1>2, ThreadsIdle, DiskUnchanged
  DEF ServerInv, ReturnedFirst, MemoryOK, ImageOfStore
<1> QED
  BY <1>1, <1>5, <1>7, <1>8, ThreadsIdle DEF ServerInv

LEMMA TakeEffectInv ==
  ASSUME ServerInv, NEW w \in Workers, TakeEffect(w)
  PROVE  ServerInv' /\ live \in Stores /\ live' \in Stores
<1> DEFINE t == doing[w]
           i == StockOf[doing[w]]
<1>1. /\ t # NoTrade /\ Threads
      /\ live' = [live EXCEPT ![i] = @ \cup {t}]
      /\ done' = done \cup {w}
      /\ UNCHANGED <<vars, doing, asked, told, process, image, found, durable>>
      /\ Up' = Up
  BY DEF TakeEffect, saveVars, Up
<1>2. process = "serving" /\ Up
  BY <1>1, ServesToTrade
<1>3. live \in Stores
  BY <1>2 DEF ServerInv, ServerTypeOK
<1>4. t \in Trades /\ i \in Stocks
  BY <1>1, TradesAssumption DEF ServerInv, ServerTypeOK
<1>5. live' \in Stores
  BY <1>1, <1>3, <1>4 DEF Stores
<1>6. ServerTypeOK'
  BY <1>1, <1>2, <1>5, ThreadsIdle DEF ServerInv, ServerTypeOK
<1>7. Included(live) \subseteq Included(live') /\ t \in Included(live')
  <2>1. live # NoStore /\ live' # NoStore
    BY <1>3, <1>5, StoresAssumption
  <2>2. /\ \A j \in Stocks : live[j] \subseteq live'[j]
        /\ t \in live'[i]
    BY <1>1, <1>3, <1>4 DEF Stores
  <2> QED
    BY <2>1, <2>2, <1>4 DEF Included
<1>8. Included(live)' = Included(live') /\ Included(found)' = Included(found)
  BY <1>1 DEF Included
<1>9. InStore'
  BY <1>1, <1>2, <1>7, <1>8 DEF ServerInv, InStore
<1>10. DOMAIN image = {}
  BY <1>2 DEF ServerInv, MemoryOK
<1>11. ReturnedFirst' /\ MemoryOK' /\ ImageOfStore' /\ DiskOK'
  BY <1>1, <1>2, <1>10, ThreadsIdle, DiskUnchanged
  DEF ServerInv, ReturnedFirst, MemoryOK, ImageOfStore
<1> QED
  BY <1>1, <1>3, <1>5, <1>6, <1>9, <1>11, ThreadsIdle DEF ServerInv

\* Nothing is answered that is not in the store.
LEMMA AnswerInv ==
  ASSUME ServerInv, NEW w \in Workers, Answer(w)
  PROVE  ServerInv'
<1>1. /\ w \in done /\ Threads
      /\ told' = told \cup {doing[w]}
      /\ doing' = [doing EXCEPT ![w] = NoTrade]
      /\ done' = done \ {w}
      /\ UNCHANGED <<vars, live, asked, process, image, found, durable>>
      /\ Up' = Up
  BY DEF Answer, saveVars, Up
<1>2. process = "serving" /\ Up
  BY <1>1, ServesToTrade
<1>3. doing \in [Workers -> Trades \cup {NoTrade}]
  BY DEF ServerInv, ServerTypeOK
<1>4. \A v \in Workers \ {w} : doing'[v] = doing[v]
  BY <1>1, <1>3
<1>5. doing'[w] = NoTrade
  BY <1>1, <1>3
<1>6. doing[w] \in Included(live) /\ doing[w] \in Trades \cap asked
  BY <1>1, <1>2 DEF ServerInv, InStore, ServerTypeOK, MemoryOK
<1>7. ServerTypeOK'
  BY <1>1, <1>2, <1>3, <1>4, <1>5, <1>6, ThreadsIdle DEF ServerInv, ServerTypeOK
<1>8. \A v \in done' : v \in done /\ doing'[v] = doing[v]
  BY <1>1, <1>4 DEF ServerInv, ServerTypeOK
<1>9. InStore'
  BY <1>1, <1>2, <1>6, <1>8 DEF ServerInv, InStore, Included
<1>10. \A v \in Workers : doing'[v] # NoTrade => doing'[v] \in asked'
  BY <1>1, <1>4, <1>5 DEF ServerInv, MemoryOK
<1>11. ReturnedFirst' /\ MemoryOK' /\ ImageOfStore' /\ DiskOK'
  BY <1>1, <1>2, <1>10, ThreadsIdle, DiskUnchanged
  DEF ServerInv, ReturnedFirst, MemoryOK, ImageOfStore
<1> QED
  BY <1>1, <1>7, <1>9, <1>11, ThreadsIdle DEF ServerInv
-----------------------------------------------------------------------------
\* main turns to the save, with no worker left.
LEMMA BeginSaveInv ==
  ASSUME ServerInv, BeginSave
  PROVE  ServerInv'
<1>1. /\ process = "serving" /\ process' = "saving" /\ main = "returned"
      /\ UNCHANGED <<vars, live, doing, done, asked, told, image, found, durable>>
      /\ Up /\ Up'
  BY DEF BeginSave, tradeVars, Up
<1>2. ServerTypeOK'
  BY <1>1, ThreadsIdle DEF ServerInv, ServerTypeOK
<1>3. InStore'
  BY <1>1 DEF ServerInv, InStore, Included
<1>4. ReturnedFirst' /\ MemoryOK' /\ ImageOfStore' /\ DiskOK'
  BY <1>1, ThreadsIdle, DiskUnchanged DEF ServerInv, ReturnedFirst, MemoryOK, ImageOfStore
<1> QED
  BY <1>1, <1>2, <1>3, <1>4, ThreadsIdle DEF ServerInv

LEMMA SaveStockInv ==
  ASSUME ServerInv, NEW i \in Stocks, SaveStock(i)
  PROVE  ServerInv'
<1>1. /\ process = "saving" /\ Up
      /\ image' = [j \in DOMAIN image \cup {i} |->
                     IF j = i THEN live[i] ELSE image[j]]
      /\ UNCHANGED <<vars, live, doing, done, asked, told, process, found, durable>>
      /\ Up' = Up
  BY DEF SaveStock, tradeVars, Up
<1>2. live \in Stores
  BY <1>1 DEF ServerInv, ServerTypeOK
<1>3. PICK S \in SUBSET Stocks : image \in [S -> SUBSET Trades]
  BY DEF ServerInv, ServerTypeOK
<1>4. S \cup {i} \in SUBSET Stocks /\ image' \in [S \cup {i} -> SUBSET Trades]
  BY <1>1, <1>2, <1>3 DEF Stores
<1>5. image' \in UNION {[T -> SUBSET Trades] : T \in SUBSET Stocks}
  BY <1>4
<1>6. ServerTypeOK'
  BY <1>1, <1>5, ThreadsIdle DEF ServerInv, ServerTypeOK
<1>7. InStore'
  BY <1>1 DEF ServerInv, InStore, Included
<1>8. ReturnedFirst' /\ MemoryOK'
  BY <1>1, ThreadsIdle DEF ServerInv, ReturnedFirst, MemoryOK
<1>9. ImageOfStore' /\ DiskOK'
  BY <1>1, DiskUnchanged DEF ServerInv, ImageOfStore
<1> QED
  BY <1>1, <1>6, <1>7, <1>8, <1>9, ThreadsIdle DEF ServerInv

\* What it publishes is the store, whole.
LEMMA ImageWhole ==
  ASSUME ServerInv, process = "saving", DOMAIN image = Stocks
  PROVE  image = live /\ live \in Stores
<1>1. live \in Stores
  BY DEF ServerInv, ServerTypeOK, Up
<1>2. PICK S \in SUBSET Stocks : image \in [S -> SUBSET Trades]
  BY DEF ServerInv, ServerTypeOK
<1>3. image \in [Stocks -> SUBSET Trades]
  BY <1>2
<1>4. \A i \in Stocks : image[i] = live[i]
  BY DEF ServerInv, ImageOfStore
<1> QED
  BY <1>1, <1>3, <1>4 DEF Stores

\* Once the files of a save are durable, so is every earlier publication.
LEMMA SyncSnapshotInv ==
  ASSUME ServerInv, SyncSnapshot
  PROVE  ServerInv' /\ Safe \subseteq Safe'
<1>1. /\ process = "saving" /\ process' = "synced" /\ Up /\ Up'
      /\ durable' = {found} /\ image = live
      /\ UNCHANGED <<vars, live, doing, done, asked, told, image, found>>
  BY ImageWhole DEF SyncSnapshot, tradeVars, Up
<1>2. ServerTypeOK'
  BY <1>1, ThreadsIdle, DirectorySynced DEF ServerInv, ServerTypeOK
<1>3. InStore'
  BY <1>1 DEF ServerInv, InStore, Included
<1>4. ReturnedFirst' /\ MemoryOK' /\ ImageOfStore'
  BY <1>1, ThreadsIdle DEF ServerInv, ReturnedFirst, MemoryOK, ImageOfStore
<1> QED
  BY <1>1, <1>2, <1>3, <1>4, ThreadsIdle, DirectorySynced DEF ServerInv

LEMMA PublishInv ==
  ASSUME ServerInv, Publish
  PROVE  ServerInv' /\ Safe \subseteq Safe' /\ image = live
<1>1. /\ process = "synced" /\ process' = "published" /\ Up /\ Up'
      /\ found' = image /\ durable' = durable \cup {image}
      /\ UNCHANGED <<vars, live, doing, done, asked, told, image>>
  BY DEF Publish, tradeVars, Up
<1>2. /\ image = live /\ live \in Stores /\ live # NoStore
      /\ durable = {found} /\ durable' = {found, live}
  BY <1>1, StoresAssumption DEF ServerInv, ServerTypeOK, ImageOfStore, DiskOK
<1>3. ServerTypeOK'
  BY <1>1, <1>2, ThreadsIdle DEF ServerInv, ServerTypeOK
<1>4. Included(found) \subseteq Included(live)
  BY <1>1 DEF ServerInv, InStore
<1>5. Safe \subseteq Safe'
  BY <1>2, <1>4 DEF Safe, Included
<1>6. InStore'
  BY <1>1, <1>2 DEF ServerInv, InStore, Included
<1>7. ReturnedFirst' /\ MemoryOK' /\ ImageOfStore'
  BY <1>1, <1>2, ThreadsIdle
  DEF ServerInv, ReturnedFirst, MemoryOK, ImageOfStore
<1>8. DiskOK'
  BY <1>1, <1>2 DEF DiskOK, OnePublicationAtStake
<1> QED
  BY <1>1, <1>2, <1>3, <1>5, <1>6, <1>7, <1>8, ThreadsIdle DEF ServerInv

LEMMA SettleInv ==
  ASSUME ServerInv, Settle
  PROVE  ServerInv' /\ Safe \subseteq Safe'
<1>1. /\ process = "published" /\ process' = "saved" /\ Up /\ Up'
      /\ durable' = {found} /\ found = live /\ image = live
      /\ UNCHANGED <<vars, live, doing, done, asked, told, image, found>>
  BY DEF Settle, tradeVars, Up, ServerInv, ImageOfStore
<1>2. ServerTypeOK'
  BY <1>1, ThreadsIdle, DirectorySynced DEF ServerInv, ServerTypeOK
<1>3. InStore'
  BY <1>1 DEF ServerInv, InStore, Included
<1>4. ReturnedFirst' /\ MemoryOK' /\ ImageOfStore'
  BY <1>1, ThreadsIdle DEF ServerInv, ReturnedFirst, MemoryOK, ImageOfStore
<1> QED
  BY <1>1, <1>2, <1>3, <1>4, ThreadsIdle, DirectorySynced DEF ServerInv

LEMMA RemoveStaleMarkerInv ==
  ASSUME ServerInv, RemoveStaleMarker
  PROVE  ServerInv' /\ Safe \subseteq Safe'
<1>1. /\ process = "down" /\ process' = process /\ ~Up /\ ~Up'
      /\ durable' = {found}
      /\ UNCHANGED <<vars, live, doing, done, asked, told, image, found>>
  BY DEF RemoveStaleMarker, tradeVars, Up
<1>2. ServerTypeOK'
  BY <1>1, ThreadsIdle, DirectorySynced DEF ServerInv, ServerTypeOK
<1>3. ReturnedFirst' /\ MemoryOK' /\ InStore' /\ ImageOfStore'
  BY <1>1, ThreadsIdle
  DEF ServerInv, ReturnedFirst, MemoryOK, InStore, ImageOfStore
<1> QED
  BY <1>1, <1>2, <1>3, ThreadsIdle, DirectorySynced DEF ServerInv

\* However the process ends, what is safe stays so.
LEMMA DownInv ==
  ASSUME ServerInv, Down \/ PowerLoss
  PROVE  ServerInv' /\ Safe \subseteq Safe'
<1>1. /\ process' = "down" /\ live' = NoStore /\ ~Up'
      /\ doing' = [w \in Workers |-> NoTrade] /\ done' = {} /\ told' = {}
      /\ image' = NoImage
      /\ UNCHANGED <<vars, asked>>
  BY DEF Down, PowerLoss, MemoryLost, Up
<1>2. DOMAIN image' = {} /\ image' \in [{} -> SUBSET Trades]
  BY <1>1 DEF NoImage
<1>3. \A w \in Workers : doing'[w] = NoTrade
  BY <1>1
<1>4. /\ durable' \in SUBSET (Stores \cup {NoStore}) /\ found' \in durable'
      /\ durable' \subseteq durable /\ DiskOK'
  <2>1. CASE Down
    <3>1. UNCHANGED <<found, durable>>
      BY <2>1 DEF Down
    <3> QED BY <1>1, <3>1, DiskUnchanged DEF ServerInv, ServerTypeOK
  <2>2. CASE PowerLoss
    <3>1. PICK s \in durable : found' = s /\ durable' = {s}
      BY <2>2 DEF PowerLoss
    <3> QED
      BY <1>1, <3>1 DEF ServerInv, ServerTypeOK, DiskOK, OnePublicationAtStake
  <2> QED BY <2>1, <2>2
<1>5. ServerTypeOK'
  BY <1>1, <1>2, <1>3, <1>4, ThreadsIdle DEF ServerInv, ServerTypeOK
<1>6. Safe \subseteq Safe'
  BY <1>4 DEF Safe, Included
<1>7. ReturnedFirst' /\ MemoryOK' /\ InStore' /\ ImageOfStore'
  BY <1>1, <1>2, <1>3, ThreadsIdle
  DEF ServerInv, ReturnedFirst, MemoryOK, InStore, ImageOfStore
<1> QED
  BY <1>1, <1>4, <1>5, <1>6, <1>7, ThreadsIdle DEF ServerInv
-----------------------------------------------------------------------------
LEMMA InvStep == ServerInv /\ [ServerNext]_serverVars => ServerInv'
<1> SUFFICES ASSUME ServerInv, [ServerNext]_serverVars PROVE ServerInv'
  OBVIOUS
<1>1. CASE UNCHANGED serverVars
  <2>1. UNCHANGED <<vars, live, doing, done, asked, told, process, image,
                    found, durable, Up>>
    BY <1>1 DEF serverVars, tradeVars, saveVars, Up
  <2>2. ServerTypeOK'
    BY <2>1, ThreadsIdle DEF ServerInv, ServerTypeOK
  <2>3. InStore'
    BY <2>1 DEF ServerInv, InStore, Included
  <2>4. ReturnedFirst' /\ MemoryOK' /\ ImageOfStore' /\ DiskOK'
    BY <2>1, ThreadsIdle, DiskUnchanged
    DEF ServerInv, ReturnedFirst, MemoryOK, ImageOfStore
  <2> QED
    BY <2>1, <2>2, <2>3, <2>4, ThreadsIdle DEF ServerInv
<1>2. CASE ServerNext
  BY <1>2, RemoveStaleMarkerInv, BootInv, BootstrapInv, LifecycleInv, AskInv,
     TakeEffectInv, AnswerInv, BeginSaveInv, SaveStockInv, SyncSnapshotInv, PublishInv,
     SettleInv, DownInv
  DEF ServerNext
<1> QED
  BY <1>1, <1>2

\* The invariant holds in every life of the server.
THEOREM ServerInvariant == ServerSpec => []ServerInv
  BY InvInit, InvStep, PTL DEF ServerSpec

\* Every variable keeps its type, and a worker only executes a trade while it
\* serves a connection.
THEOREM ServerTypeCorrect == ServerSpec => []ServerTypeOK
<1>1. ServerInv => ServerTypeOK
  BY DEF ServerInv
<1> QED BY <1>1, ServerInvariant, PTL

\* materialize_store_generation walks the store without its mutex, and yet
\* after it succeeds the disk has every trade this process has answered.
THEOREM SaveComplete == ServerSpec => []SavedIsComplete
<1>1. ServerInv => SavedIsComplete
  <2> SUFFICES ASSUME ServerInv, process = "saved"
               PROVE  told \subseteq Safe /\ durable = {live}
    BY DEF SavedIsComplete
  <2>1. durable = {live} /\ told \subseteq Included(live) /\ told \subseteq Trades
    BY DEF ServerInv, ImageOfStore, InStore, ServerTypeOK, Up
  <2> QED
    BY <2>1 DEF Safe
<1> QED BY <1>1, ServerInvariant, PTL

\* However often the process is killed between the rename of a manifest and the
\* fsync after it, the next save begins with an fsync of the directory: a power
\* loss takes back one save at most (write_manifest_file, save_snapshot_file).
THEOREM OneSaveAtStake == ServerSpec => []OnePublicationAtStake
<1>1. ServerInv => OnePublicationAtStake
  BY DEF ServerInv, DiskOK
<1> QED BY <1>1, ServerInvariant, PTL

\* No step of any later life loses a trade that was saved: neither a kill, after
\* which a save may be found and not be safe, nor a power loss in that life.
THEOREM SavedStays == ServerSpec => NothingSavedIsLost
<1>1. ServerInv /\ [ServerNext]_serverVars => [Safe \subseteq Safe']_serverVars
  <2> SUFFICES ASSUME ServerInv, ServerNext
               PROVE  Safe \subseteq Safe'
    OBVIOUS
  <2>1. CASE UNCHANGED durable
    BY <2>1, SafeUnchanged
  <2>2. CASE \/ RemoveStaleMarker \/ Bootstrap \/ SettleFirst
             \/ SyncSnapshot \/ Publish \/ Settle \/ Down \/ PowerLoss
    BY <2>2, RemoveStaleMarkerInv, BootstrapInv, SyncSnapshotInv, PublishInv,
       SettleInv, DownInv
  <2> QED
    BY <2>1, <2>2 DEF ServerNext, Boot, LifecycleStep, Ask, TakeEffect, Answer,
       BeginSave, SaveStock, saveVars
<1> QED
  BY <1>1, ServerInvariant, PTL DEF ServerSpec, NothingSavedIsLost

\* The server, its threads and its unlocked save included, implements the
\* durable store that stock_persistence.c promises.
THEOREM ServerIsDurableStore == ServerSpec => ImplementsDurableStore
<1>1. ServerInit => Disk!Init
  BY DEF ServerInit, Disk!Init
<1>2. ServerInv /\ [ServerNext]_serverVars => [Disk!Next]_(Disk!vars)
  <2> SUFFICES ASSUME ServerInv, [ServerNext]_serverVars
               PROVE  Disk!Next \/ UNCHANGED Disk!vars
    OBVIOUS
  <2>1. CASE Boot
    <3>1. live = NoStore
      BY <2>1 DEF Boot, ServerInv, ServerTypeOK, Up
    <3>2. found \in durable /\ UNCHANGED durable
      BY <2>1 DEF Boot, ServerInv, ServerTypeOK
    <3> QED
      BY <2>1, <3>1, <3>2 DEF Boot, Disk!Next, Disk!Start
  <2>2. CASE Bootstrap \/ Publish
    <3>1. /\ durable' = durable \cup {live} /\ UNCHANGED live /\ Up
      BY <2>2, PublishInv DEF Bootstrap, Publish, tradeVars, Up
    <3>2. live # NoStore
      BY <3>1, StoresAssumption DEF ServerInv, ServerTypeOK
    <3> QED
      BY <3>1, <3>2 DEF Disk!Next, Disk!Publish
  <2>3. CASE RemoveStaleMarker \/ SettleFirst \/ SyncSnapshot \/ Settle
    <3>1. durable' = {found} /\ found \in durable /\ UNCHANGED live
      BY <2>3 DEF RemoveStaleMarker, SettleFirst, SyncSnapshot, Settle, tradeVars,
         ServerInv, ServerTypeOK
    <3> QED
      BY <3>1 DEF Disk!Next, Disk!Settle
  <2>4. CASE Down \/ PowerLoss
    <3>1. /\ live' = NoStore
          /\ UNCHANGED durable \/ \E s \in durable : durable' = {s}
      BY <2>4 DEF Down, PowerLoss, MemoryLost
    <3>2. durable # {}
      BY DEF ServerInv, ServerTypeOK
    <3> QED
      BY <3>1, <3>2 DEF Disk!Next, Disk!Settle
  <2>5. ASSUME NEW w \in Workers, TakeEffect(w)
        PROVE  Disk!Next
    BY <2>5, TakeEffectInv, StoresAssumption
    DEF TakeEffect, saveVars, Disk!Next, Disk!Trade
  <2>6. CASE \/ UNCHANGED serverVars \/ LifecycleStep \/ BeginSave
             \/ \E w \in Workers : Answer(w) \/ \E t \in Trades : Ask(w, t)
             \/ \E i \in Stocks : SaveStock(i)
    BY <2>6 DEF serverVars, tradeVars, saveVars, LifecycleStep, BeginSave,
       Answer, Ask, SaveStock, Disk!vars
  <2> QED
    BY <2>1, <2>2, <2>3, <2>4, <2>5, <2>6 DEF ServerNext
<1> QED
  BY <1>1, <1>2, ServerInvariant, PTL
  DEF ServerSpec, ImplementsDurableStore, Disk!Spec
=============================================================================
