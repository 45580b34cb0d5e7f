----------------------------- MODULE StockServer -----------------------------
(***************************************************************************)
(* The whole server over its lives: main.c recovers the store, serves it   *)
(* with the threads of ServerLifecycle, saves it after a clean shutdown    *)
(* and ends; then the next process starts from what is on the disk.  A     *)
(* request takes effect in one step, as StockTrading shows, and the disk   *)
(* is a DurableStore, as Persistence shows, but for the save: that walks   *)
(* the store one stock after the other, without its mutex.                 *)
(* Every trade is a value of its own, and the quantity of a stock is       *)
(* represented by the trades it includes, so that no loss hides behind a   *)
(* sum.  Only trades that succeed are modelled.                            *)
(***************************************************************************)
EXTENDS ServerLifecycle

CONSTANTS
  Stocks,
  Trades, StockOf,    \* the successful buys and sells, and what they trade
  NoTrade, NoStore

ASSUME TradesAssumption ==
  /\ StockOf \in [Trades -> Stocks]
  /\ NoTrade \notin Trades

Stores == [Stocks -> SUBSET Trades]
InitStore == [i \in Stocks |-> {}]
NoImage == [i \in {} |-> {}]

ASSUME StoresAssumption == NoStore \notin Stores

VARIABLES
  process,   \* what main is doing
  live,      \* the store in memory
  doing,     \* the trade each worker is executing, or NoTrade
  done,      \* the workers whose trade is in the store and not yet answered
  asked,     \* the trades some client has asked for, in any life
  told,      \* those that this process has answered with success
  image,     \* the snapshot the save has written so far
  found,     \* the store a start finds, unless the machine loses power before
  durable    \* the stores of which it may find any if it does

tradeVars == <<live, doing, done, asked, told>>
saveVars == <<process, image, found, durable>>
serverVars == <<vars, tradeVars, saveVars>>

Up == process # "down"
\* run_server_stub has been called, and nothing has exited: there may be threads.
Threads ==
  /\ process \in {"serving", "saving", "synced", "published", "saved"}
  /\ outcome # "exit"

\* The variables have their types; a worker with a trade is serving a
\* connection, and the process has a store as long as it runs.
ServerTypeOK ==
  /\ process \in {"down", "booting", "booted", "serving", "saving", "synced",
                  "published", "saved"}
  /\ live \in IF Up THEN Stores ELSE {NoStore}
  /\ doing \in [Workers -> Trades \cup {NoTrade}]
  /\ done \subseteq {w \in Workers : doing[w] # NoTrade}
  /\ \A w \in Workers : doing[w] # NoTrade => worker[w] = "serving"
  /\ told \subseteq asked /\ asked \subseteq Trades
  /\ image \in UNION {[S -> SUBSET Trades] : S \in SUBSET Stocks}
  /\ durable \in SUBSET (Stores \cup {NoStore})
  /\ found \in durable
-----------------------------------------------------------------------------
ServerInit ==
  /\ Init
  /\ process = "down" /\ live = NoStore
  /\ doing = [w \in Workers |-> NoTrade] /\ done = {}
  /\ asked = {} /\ told = {}
  /\ image = NoImage
  /\ found = NoStore /\ durable = {NoStore}

\* A start that finds the marker of a bootstrap beside the manifest removes it,
\* and this fsync of the directory completes whatever was published before.
\* There may be a marker or not, and its removal may fail.
RemoveStaleMarker ==
  /\ process = "down" /\ found # NoStore
  /\ durable' = {found}
  /\ UNCHANGED <<vars, tradeVars, process, image, found>>

\* recover_stock_store, from the published store or from the init file.  The
\* threads, which start later, are as run_server_stub makes them: all of the
\* workers, or an error and those made before it.
Boot ==
  /\ process = "down"
  /\ IF found = NoStore THEN process' = "booting" /\ live' = InitStore
                        ELSE process' = "serving" /\ live' = found
  /\ \/ main' = "testing" /\ outcome' = "running"
     \/ main' = "stopping" /\ outcome' = "failing"
  /\ pills' = 0 /\ shutdown_requested' = FALSE /\ signals' = 0
  /\ worker' = [w \in Workers |-> "ready"]
  /\ conn' = [c \in Conns |-> "away"]
  /\ queue' = <<>> /\ offer' = NoConn /\ waiting' = {}
  /\ taken' = [w \in Workers |-> NoConn]
  /\ UNCHANGED <<doing, done, asked, told, image, found, durable>>

\* A bootstrap publishes the first generation ...
Bootstrap ==
  /\ process = "booting"
  /\ found' = live /\ durable' = durable \cup {live}
  /\ process' = "booted"
  /\ UNCHANGED <<vars, tradeVars, image>>

\* ... and serves it, once that is durable.
SettleFirst ==
  /\ process = "booted"
  /\ durable' = {found}
  /\ process' = "serving"
  /\ UNCHANGED <<vars, tradeVars, image, found>>

\* main and the workers between requests; worker steps do not depend on main.
LifecycleStep ==
  /\ Threads
  /\ \/ /\ process = "serving" /\ Running
        /\ \/ MainStep \/ AcceptFails
           \/ \E c \in Conns : Connect(c)
           \/ \E t \in Receivers : Signal(t)
     \/ \E w \in Workers : WorkerStep(w)
     \/ \E w \in Workers : doing[w] = NoTrade /\ ClientLeaves(w)
  /\ UNCHANGED <<tradeVars, saveVars>>

\* Rio_readlineb returns a buy or a sell.
Ask(w, t) ==
  /\ Threads /\ worker[w] = "serving" /\ doing[w] = NoTrade
  /\ t \notin asked
  /\ doing' = [doing EXCEPT ![w] = t]
  /\ asked' = asked \cup {t}
  /\ UNCHANGED <<vars, live, done, told, saveVars>>

\* handle_buy_sell_request, between its lock and its unlock
TakeEffect(w) ==
  /\ Threads /\ doing[w] # NoTrade /\ w \notin done
  /\ live' = [live EXCEPT ![StockOf[doing[w]]] = @ \cup {doing[w]}]
  /\ done' = done \cup {w}
  /\ UNCHANGED <<vars, doing, asked, told, saveVars>>

\* Faulty variant: what the last request of a worker came to is taken for the
\* next one's result.
AnswerStale(w) ==
  /\ Threads /\ w \in done
  /\ told' = told \cup {doing[w]}
  /\ doing' = [doing EXCEPT ![w] = NoTrade]
  /\ UNCHANGED <<vars, live, done, asked, saveVars>>

\* Rio_writen of "success"
Answer(w) ==
  /\ Threads /\ w \in done
  /\ told' = told \cup {doing[w]}
  /\ doing' = [doing EXCEPT ![w] = NoTrade]
  /\ done' = done \ {w}
  /\ UNCHANGED <<vars, live, asked, saveVars>>
-----------------------------------------------------------------------------
\* Faulty variant: main saves as soon as the accept loop is left.
BeginSaveAnyway ==
  /\ process = "serving" /\ (main = "stopping" \/ main = "returned")
  /\ process' = "saving"
  /\ UNCHANGED <<vars, tradeVars, image, found, durable>>

\* run_server_stub has returned STOCK_OK.
BeginSave ==
  /\ process = "serving" /\ main = "returned" /\ outcome = "OK"
  /\ process' = "saving"
  /\ UNCHANGED <<vars, tradeVars, image, found, durable>>

\* write_snapshot_node on the next stock of the walk
SaveStock(i) ==
  /\ process = "saving" /\ i \notin DOMAIN image
  /\ image' = [j \in DOMAIN image \cup {i} |-> IF j = i THEN live[i] ELSE image[j]]
  /\ UNCHANGED <<vars, tradeVars, process, found, durable>>

\* Faulty variant: the save may end before its walk does.
SyncPart ==
  /\ process = "saving"
  /\ image' = [i \in Stocks |-> IF i \in DOMAIN image THEN image[i] ELSE {}]
  /\ durable' = {found}
  /\ process' = "synced"
  /\ UNCHANGED <<vars, tradeVars, found>>

\* Faulty variant: the directory is not fsynced before the manifest is renamed.
SyncFileOnly ==
  /\ process = "saving" /\ DOMAIN image = Stocks
  /\ process' = "synced"
  /\ UNCHANGED <<vars, tradeVars, image, found, durable>>

\* The snapshot and the log are durable before the manifest changes, and with
\* the directory that has them any earlier publication.
SyncSnapshot ==
  /\ process = "saving" /\ DOMAIN image = Stocks
  /\ durable' = {found}
  /\ process' = "synced"
  /\ UNCHANGED <<vars, tradeVars, image, found>>

\* The manifest is renamed: every start finds the new store, but for a power
\* loss ...
Publish ==
  /\ process = "synced"
  /\ found' = image /\ durable' = durable \cup {image}
  /\ process' = "published"
  /\ UNCHANGED <<vars, tradeVars, image>>

\* ... until the rename is durable.
Settle ==
  /\ process = "published"
  /\ durable' = {found}
  /\ process' = "saved"
  /\ UNCHANGED <<vars, tradeVars, image, found>>

MemoryLost ==
  /\ process' = "down" /\ live' = NoStore
  /\ doing' = [w \in Workers |-> NoTrade] /\ done' = {} /\ told' = {}
  /\ image' = NoImage
  /\ UNCHANGED <<vars, asked>>

\* The process ends: after its save, by an error of run_server_stub, of the
\* save or of a connection, in a P that a signal interrupts, or killed.  The
\* files stay as they are, synced or not.
Down ==
  /\ Up
  /\ MemoryLost
  /\ UNCHANGED <<found, durable>>

\* What had been published and not synced is on the disk or is not.
PowerLoss ==
  /\ MemoryLost
  /\ \E s \in durable : found' = s /\ durable' = {s}

ServerNext ==
  \/ RemoveStaleMarker \/ Boot \/ Bootstrap \/ SettleFirst \/ LifecycleStep
  \/ \E w \in Workers : (\E t \in Trades : Ask(w, t)) \/ TakeEffect(w) \/ Answer(w)
  \/ BeginSave \/ (\E i \in Stocks : SaveStock(i)) \/ SyncSnapshot \/ Publish \/ Settle
  \/ Down \/ PowerLoss

ServerSpec == ServerInit /\ [][ServerNext]_serverVars
-----------------------------------------------------------------------------
Included(s) == IF s = NoStore THEN {} ELSE UNION {s[i] : i \in Stocks}

\* The trades that are on the disk whichever store a later start finds.
Safe == {t \in Trades : \A s \in durable : t \in Included(s)}

Disk == INSTANCE DurableStore

\* Threads, requests and save together are a durable store: although the save
\* takes its time and no mutex, it publishes the store of one moment.
ImplementsDurableStore == Disk!Spec

\* A save that succeeds has on the disk every trade this process answered.
SavedIsComplete == process = "saved" => told \subseteq Safe /\ durable = {live}

\* No later life of the server, however it ends, loses a trade once saved.
NothingSavedIsLost == [][Safe \subseteq Safe']_serverVars

\* Whatever a later start finds, it is what this one would find or, all of it,
\* what one publication before that left: no power loss takes back two.
OnePublicationAtStake == \E s \in durable : durable \subseteq {s, found}

\* docs/03_baseline_design.md: a success is answered once it is recorded.
SuccessIsDurable == told \subseteq Safe
=============================================================================
