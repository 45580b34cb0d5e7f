# A TLA+ model of the concurrent stock server

The program is a TCP server in C (`src/src/main.c`, `stock_server.c`,
`stock_store.c`, `stock_persistence.c`, over the CS:APP wrappers of `csapp.c`).
Clients send lines `show [id]`, `buy id n`, `sell id n`, `exit`. Eight workers
serve them from one in-memory store that is saved on a clean shutdown.

Paths below are relative to `src/`.

## 1. Inventory

| Component | State | Operations | Correct when |
|---|---|---|---|
| Connection queue (`src/stock_server.c:15-22, 166-228`) | ring `fds`, `front`, `rear`; semaphores `mutex`, `slots`, `items` | insert (main only), remove (workers) | it is a bounded FIFO; nobody sleeps while there is something to do |
| Request handling (`src/stock_server.c:337-612`) | per worker: line, `stock_request_t`, response | read, parse, validate, execute, answer | concurrent requests look atomic; a failed one changes nothing |
| Stock store (`src/stock_store.c`) | BST of id, left_stock, price; `store->mutex` | init, find, upsert, apply_delta, inorder walk, count, destroy | no lost update; every stock is found, walked once and freed once; what is saved is what is loaded |
| Persistence (`src/stock_persistence.c`) | `data/`: `MANIFEST` and its temp file, `snapshot.<gen>`, `aof.<gen>`, bootstrap marker, init file | recover, materialise | after any crash a start finds the last published store; publishing is atomic |
| Lifecycle (`src/stock_server.c:86-158, 233-329`) | `shutdown_requested`, the workers | accept loop, worker loop, pills and join, signal handler | shutdown ends, only when idle; accepted clients are served |
| main (`src/main.c`) | - | recover, count, serve, materialise, destroy | nothing is served from an untrusted state; a save has every answered trade |
| csapp and Rio (`src/csapp.c`) | per connection read buffer | P, V, Rio_readlineb, Rio_readnb, Rio_writen, unix_error | bytes are cut into the same requests however they arrive; an error stays with its connection |
| Response builder (`src/stock_server.c:617-728`) | one answer's buffer, its length and capacity | init, appendf, append, grow | an answer is whole and in order however often the buffer grows, or it is a refusal |
| Test clients (`src/multiclient.c`, `src/stockclient.c`) | - | send a line, read an answer | they read what the server answers |

How they interact: `main` calls recovery, then `run_server_stub`, then
materialisation, in one thread. In between, the main thread hands descriptors to
the workers through the queue and, last, one stop pill each; the workers share
the store through its mutex; a signal handler sets a flag that the accept loop
tests. Persistence walks the store without the mutex, so it relies on the
lifecycle having joined every worker. The data directory is what one process
leaves to the next. A `show` walks the tree and appends each row to the response.

Hard to test here: the interleavings inside the queue and the store; a signal
between any two statements and in any thread; a crash, power loss or failing
call between any two system calls of recovery and materialisation; integer
overflow; a shutdown with a full queue; requests and answers torn anywhere by the
socket; the shape of a tree that files in any order grow, and what is freed when a
load fails half-way; the size of an answer against its buffer. `PROJECT.json` lists each hazard at its
line with the properties that cover it.

## 2. Modules

| Module | Models | Abstract specification it implements |
|---|---|---|
| `ConnQueue` | the queue, one statement per step | `BoundedFifo` (property `ImplementsFifo`) |
| `StockRequest` | parsing and validation as operators, int arithmetic | - |
| `StockTrading` | workers serving requests, one access of the store per step | `AtomicStore` (`ImplementsAtomicStore`) |
| `FileSystem` | the data directory: what a process sees, what a power loss may leave | - |
| `Persistence` | main, recovery, materialisation, one system call per step | `DurableStore` (`ImplementsDurableStore`) |
| `ServerLifecycle` | accept loop, workers, pills, signals; its queue *is* `BoundedFifo` | - |
| `Conversation` | one connection byte by byte: a client, the server, their Rio buffers, the socket | `LineStream` (`ImplementsLineStream`) |
| `ResponseBuilder` | the response buffer, byte by byte, as operators | - |
| `StockStore` | the tree in the heap over the life of a process: loaded, replayed, walked, listed, saved, freed | `StockTable` (`ImplementsTable`) |
| `StockServer` | the whole server over many lives: `ServerLifecycle`'s threads, trades, the unlocked save, the disk | `DurableStore` (`ImplementsDurableStore`) |
| `ConnQueueProofs`, `StockTradingProofs`, `ServerLifecycleProofs`, `ConversationProofs`, `ConversationStepProofs`, `StockServerProofs`, `PersistenceProofs`, `StockStoreProofs` | the theorems | - |
| `MC*` | the instances TLC checks | - |

Definitions named `...ButOne`, `...Unlocked`, `Skip...` and the like under a
comment "Faulty variant" are not part of a specification; each replaces the
definition it precedes to show that a property would notice the mistake.

**ConnQueue.** The variables are the fields of `conn_queue_t`, plus a program
counter and the descriptor each thread carries. `conn_queue_insert` is
`CallInsert` and one action per statement (`ReserveSlot` is `P(&slots)`, and so
on), `conn_queue_remove` likewise. `front` is read and advanced in two steps, as
is `rear`. The refinement mapping reconstructs the queue's contents: an item
counts from the moment `rear` has passed it (not from its `V(&items)`) until a
worker has read it (not until `front` is advanced), which is why `HeadSlot` is
`front + 1` while a worker is between the two.

**StockTrading.** A worker goes through `ReadLine`, `Dispatch` (parse, validate
and choose the handler: local, so one step), `LockStore`, then `ShowOne`, or
`BeginWalk`, `VisitNode`..., `EndWalk`, or `CheckDelta` and `AddDelta`, then
`UnlockStore` and `Respond`. `AddDelta` adds to the quantity `CheckDelta` read, so
that a store without its mutex would lose updates. Tokens are words or
integers, not characters. `Wrap` is what gcc's code does on the overflow that C
leaves undefined. `pthread_mutex_lock` failing is left out, as it cannot for a
default mutex that is neither invalid nor held by the caller. Under the mapping
a request takes effect in its last access of the store, when its answer is
decided: `EndWalk`, `ShowOne`, a refusing `CheckDelta`, `AddDelta`, or, for a line
that never reaches the store, `Dispatch`.

**Persistence and FileSystem.** `pc` names the next system call and `file` the
role of the file it works on; `then` tells where recovery or materialisation
goes next. One `fopen`-write-`fsync`-`fclose`-`fsync`(directory) pass serves
the snapshot, the log and the temp manifest, as in the three functions of the
source, which differ only in what they write. `FileSystem` keeps, beside the
directory processes see, the set of directories of which the disk may hold any
(`images`), and per inode the contents a power loss may leave (`safe`); `fsync`
shrinks either set to one. `CallFails` makes the call at `pc` fail and does what
the caller does then, which is mostly to unlink the file and stop, and for the
clean-up and for a stale marker to go on. `Durable` computes what the next start
would find in each possible directory; it is the abstract variable.

**ServerLifecycle.** Three program points around `accept` ("testing",
"calling", "accepting") separate the test of the flag, the call and the blocked
call, since a signal means something else in each. `Signal(t)` is the handler
run in thread `t`. Any thread inside insert or remove may be blocked in
`sem_wait` just then; if it is, `P` fails and exits. A connection is served in
one step; what happens during it is `StockTrading`. `Init` has the case that
`pthread_create` failed: `Workers` are then the ones created.

**Conversation.** The two ends of a connection are two processes that think,
write (`rio_writen`, any part that fits at a time) and read (`RioRefill` is the
`read` of `rio_read`, `RioCopy` the byte it hands to `rio_readlineb` or
`rio_readnb`). The server's thinking is the request being served, answered by
`Reply`; what it answers is left open. `kind` is the client: `stockclient` reads
one line per request, `multiclient` `MAXLINE` bytes, another one what and when it
likes. A client may end, or be killed, at any point; `reset` says which side's
next call may then fail, as it may in TCP when one end closes with bytes unread
or is written to. Under the mapping a request is cut off the input when the byte
that completes it is copied, or at the end of the input.

**StockStore and ResponseBuilder.** A recursive function of `stock_store.c` is
the explicit stack `calls`: each frame has the node it is at and the statement it
gets to next, so a walk may stop in its midst and a node may be freed while a
caller still needs it. Lines of a stock file or a log come after `sscanf`: a record,
a blank line or junk; `Scan` is what `%d` leaves of a number that has no room in an
`int`. `boot` and `files.by` tell an init file from a generation found on the disk
and from one this program saved. No code writes log records, so logs that have some
are inputs. `Upsert` leaves out the branch of `upsert_stock_item` that overwrites a
record, because its only caller, `apply_stock_record`, has refused the id by then.
`ListRow` prints a row with `response_appendf`, with the characters of the row as
bytes (one digit suffices for ids and quantities here), so that it is known byte by
byte what `Rio_writen` sends. Under the mapping, the table is the tree once
recovery is over, and the disk is what the files say by a definition (`StockSays`,
`LogSays`) that knows nothing of trees and stacks.

**StockServer** extends `ServerLifecycle`; its threads are that module's, started
anew in each life (`Boot`). What the other modules show is used in their abstract
form: a request takes effect in one step between being read and answered
(`StockTrading` implements `AtomicStore`), and the disk is a set of stores
(`Persistence` implements `DurableStore`). Of this set, `durable`, a power loss may
leave any; `found` is the one that a start finds without one. `Publish` is the rename
of the manifest, which changes `found` at once and adds to `durable`; every fsync of the
directory leaves only `found`: `Settle` right after the rename, `SyncSnapshot` before it,
for the new snapshot and log, and `RemoveStaleMarker` at a start that finds the marker of a
bootstrap beside a manifest. The save itself is not abstracted: it walks the store one stock at a time without the
mutex, and nothing but the threads' order keeps it of one moment. Each trade is a
value of its own and a quantity is the set of trades it includes; a sum
could hide one lost trade behind another. `Down` is every way a process ends,
with a save or without, and leaves the files as they are: a process killed between rename
and fsync leaves it open which store is durable, and the lives after it may serve
from the new one and still be taken back to the old. Only `PowerLoss`, which may strike at
any time, decides that. `ServerLifecycle` checks what happens when an
`exit` is underway; here `Down` follows.

## 3. Runs

Passing runs, with the bounds and why they are enough:

| Run | Bounds | Shows |
|---|---|---|
| `conn_queue` | 3 workers, ring of 2, a descriptor and the pill | `TypeOK`, `SlotsAccounted` (tokens and slots balance), `ImplementsFifo`, `SomeWorkerWakes`, `InsertReturns`. The ring gets full, empty and wraps; more workers than slots contend. |
| `trading` | 2 workers, `INT_MAX` = 3, two stocks, 12 lines: each command, too few, too many and wrong arguments, a blank line, an unknown command | `ImplementsAtomicStore`, `OneTradeAtATime`, `BuysNeverOversell`, `MutexReleased`. Every line meets every other one; quantities reach 0, `INT_MAX` and overflow. |
| `persistence` | 3 stores, at most 3 generations and 3 faults, directory changes ordered | `ImplementsDurableStore`, `PublishedIsDurable`, `EventuallyServes`. Three generations suffice for an old, a current and a next one; three faults hit bootstrap, its repair and a later shutdown in one behaviour. |
| `lifecycle` | 2 workers, queue of 2, 3 connections, 2 signals to any thread | `PillsAccounted`, `StableWhenReturned`, `ShutdownCompletes`, `AcceptedIsServed`. Pills wait behind a full queue; connections outnumber workers. |
| `stock_store` | ints of 3 bits, ids 1 to 3, 18 sets of files with every flaw, `MAXLINE` = 3, `SIZE_MAX` = 13 | `ImplementsTable`, `EveryStockIsFound`, `WalkSeesAll`, `ShowIsWhole`, `NodesFreedOnce`, `ReloadedTreeIsChain`. The trees have every shape of up to 3 nodes that matters: balanced, both chains, bent, empty; rows make the buffer grow once and twice, and not fit. |
| `stock_server` | 2 workers, queue of 1, 2 connections a life, 1 signal, 2 stocks, 3 trades, any number of lives, kills and power losses | `SavedIsComplete`, `NothingSavedIsLost`, `OnePublicationAtStake`, `ImplementsDurableStore`. Two trades meet on one stock, a third on the other; trades of an earlier life are saved, lost or unsure when the next one starts. Workers and connections are symmetric; all properties are safety. |
| `conversation` | lines of 2 bytes, Rio buffers of 2, sockets of 3, 3 requests | `ImplementsLineStream`, `WhyStuck`, `InStep`, `StockClientAnswered`, `ServerEndsWithClient`. Every buffer overflows and splits a line; requests come short, full, unfinished, too long and two at once; answers have no line, one, or five, which fill the socket, so that both sides write and neither reads. |

`WhyStuck` lists when client and server wait for each other for good. Any
client may find itself writing to a server that writes to it, if it has not read an
answer longer than the socket and its buffers hold. Two of the
cases are faults of the clients: `multiclient` waits in `Rio_readnb` for `MAXLINE`
bytes, which its orders are not answered with, so it hangs after its first one
(`src/multiclient.c:76`; the `Rio_readlineb` in the comment above it would do,
except for shows of several lines); and `stockclient` waits for the answer to a last line
without newline. TLC reaches each case.

Runs that refute a statement of the repository (each a finding in
`PROJECT.json`, where the statement is quoted):

| Run | What TLC shows |
|---|---|
| `negative_snapshot` | In `StockStore`: sells past `INT_MAX` make a quantity negative; it is saved on shutdown and refused by every later start. |
| `success_is_durable` | In `StockServer`: trades are answered with success and are on no disk; no code appends to the log. |
| `unordered_directory` | With `Ordered = FALSE`: the clean-up of an interrupted bootstrap is not synced before the marker's removal is, so a power loss can undo one and keep the other. File systems with an ordered journal are not exposed. |
| `shutdown_noticed` | A signal just before `accept` blocks leaves the server waiting for a connection. Here only main gets signals; in `lifecycle` any thread does, and one that a worker handles interrupts no `accept` either. |
| `connection_error` | A Rio error on one connection exits the server. |

Beside these, `docs/구현_구체화_정리_v2.md:139` speaks of an idle timeout, and
the code has none: a silent client keeps its worker. The models have no timeout
either, and `ShutdownCompletes` and `AcceptedIsServed` assume `ClientsLeave`.

**Fairness.** Each specification is weakly fair only to what threads do by
themselves: in `ConnQueue` to a thread inside insert or remove, in `StockTrading`
to a worker that has a line, in `Conversation` to both sides inside their Rio calls
and to the server's serving, in `ServerLifecycle` to the main thread and to each
worker outside a connection, in `Persistence` to the process, including that a
server that is down is started again. `StockStore` and `StockServer` make no
liveness claim and have no fairness. A thread is never stopped by another
one, so the scheduler justifies this. Nothing is assumed of clients, signals,
faults, or of when the next insert or remove is called. Where the program
depends on clients leaving, the property says so (`ClientsLeave => ...`).
Semaphores and the mutex are not assumed to be fair to individual threads:
`SomeWorkerWakes` speaks of some worker, and `InsertReturns` holds because the
ring of finitely many slots lets remove get ahead only so far.

**Deadlock** is checked in every passing run. A lifecycle that has ended
stutters explicitly (`Finished`).

## 4. Proofs

All theorems are checked by TLAPS for every value of the constants; they assume
only the named assumptions of the modules (a ring of at least one slot, finitely
many workers, the main thread and the markers distinct from the rest, initial
quantities between 0 and `INT_MAX`, lines made of tokens; for the store, that `NULL`
is no address, that the two marks of `StockTable` are no tables, that an init file
comes without a log, as bootstrap reads none and creates an empty one, that a trade's delta
is a positive `int` or the opposite of one, as `validate_request` has it, and that
a buffer can be as large as `MAXLINE` and hold a refusal).

*ConnQueue.* `TypeCorrect`, `SlotsAlwaysAccounted` and `QueueIsFifo` rest on one
inductive invariant, `IndInv`: the types and labels; `Exclusion` (the threads
between their `P(&mutex)` and `V(&mutex)` are at most one, none if it is
free); `SlotsAccounted`; `IndicesAgree` (`rear` is `HeadSlot` plus the number of
occupied slots, around the ring); and `WrittenKept` and `OfferReal` (the slot main
has written holds what it is inserting, and that is a value). `SlotsAccounted`
alone is not inductive: that `Occupied` shrinks by one when a worker reads needs
that the worker is alone there, which is mutual exclusion.
`QueueIsFifo` then maps each action: `AdvanceRear` to `Insert`, `ReadSlot` to
`Remove`, the two calls to their beginnings, all others to a stutter.

*StockTrading.* `IndInv` is the types; `MutexOK` (a worker holds the mutex
exactly between its lock and its unlock); `RequestOK` (past parsing, the request
is what parsing the line gives, and one that gets to the store is valid);
and `ReadsFresh` (the rows seen so far are the store's and the quantity found is
the current one, which is what the mutex is for). `TradingIsAtomic` maps each
step as section 2 describes, after a lemma that the code's `parse_request` and
`validate_request` agree with the four line shapes of `AtomicStore`.
`NoLostUpdate` and `NoOversell` are action properties from the same invariant.

*ServerLifecycle.* `PillsAccounted` is nearly inductive, `StableWhenReturned` is
not: that no accepted client is left behind when the last worker has ended
is a matter of order. `IndInv` adds to the types: a pending call of the queue and
its caller's label go together (`CallsMatch`); no pill exists while main is in
the accept loop (`LoopBeforePills`); hence in the queue connections stand before
pills, and none is left once a worker has ended (`PillsLast`); and an accepted
connection is in insert's hands, in the queue, or with a worker that serves it
(`Tracked`). `JoinAllStep` combines them: all workers have ended, by as many
pills as were made, so no connection is in the queue or with a worker, so
none is accepted and unserved. Joining fewer workers than were created, or
making pills before the loop is over, breaks exactly these steps.

*Conversation.* `TypeCorrect` and `RequestsCutOneWay` hold for any set of bytes,
requests and answers and any sizes of buffers and sockets. `IndInv` is the
types; `ReadOpen` (a read that goes on has room left and, on the server, no newline
yet, which makes the byte that ends it the first possible cut); and `EndsClean`
(a server that has ended holds no bytes, and only a client that has ended breaks the
connection). The refinement concatenates what the server has copied, what its Rio
buffer holds and what is in the socket; a refill and a copied byte leave
that sequence alone (`RefillMaps`, `CopyMaps`), a write extends it (`WriteMaps`),
and a completed read cuts off its first request.

`ClientStaysInStep` and `WaitsAreExplained` need more: not where each byte came from
but whose turn it is. `StepInv` adds to `IndInv` that, while both ends are open and
every answer to a `stockclient` or `multiclient` has been one line, they take turns
(`TurnsTaken`): either side is thinking and no byte is under way, or the
bytes on their way to a side (copied by a read that goes on, in its Rio
buffer, in the socket, still to be written: `Toward`) are the whole of the other's last
write, at most one line, and nothing is under way the other way. A read ends when
its line is complete, and a line that is complete within at most a line is all of it
(`LineIsAll`), so the turn passes with nothing left over. That gives
`InStep`; for `WhyStuck`, a side that is blocked reading has no byte under way in its buffer
or the socket, which leaves the listed cases. `AllSent`, `ClientOpen` and `DrainsOnly` say
what else a Rio call in progress implies, and `WholeLines`, that `multiclient`
sends whole lines, that the server is between requests when both read. The proof
corrected the model: an earlier `WhyStuck` did not have the case of a
`multiclient` that writes while the server does, and the instance's answers were too short
to show it.

*StockServer.* `ServerTypeCorrect`, `SaveComplete`, `OneSaveAtStake`, `SavedStays` and
`ServerIsDurableStore` hold for any sets of workers, connections, stocks and trades
and any number of lives. `ServerInv` takes over `IndInv` of `ServerLifecycle`, which
`Boot` establishes anew since it makes the threads as `Init` has them
(`BootThreads`), and which every step of threads keeps. To it come `ReturnedFirst` (main
saves only after `run_server_stub` has returned, and a server that stops without an exit has
returned); `InStore` (what was answered, is about to be, or is in the store that the
start found is in the store in memory); `ImageOfStore` (the image agrees with the store so far
as it goes, and is what gets on the disk); and `DiskOK` (a manifest is renamed only
when what it replaces is durable, so at most one publication is ever undecided).
`SavedStays` needs both of the last: the store a save publishes has all that `found` has,
and what is safe is in `found`, whichever life published it. That a save needs no mutex is
`NobodyServes`: once main has returned, `StableWhenReturned` has every worker
finished, so no trade can come between two stocks of the walk. `SavedIsComplete`
alone says nothing of a save that is still going on, and is not inductive.

*Persistence.* `TypeCorrect` and `PublishedStays` hold for any stores and any
number of generations, faults and lives, and also for directories that reach the disk
out of order (`Ordered` either way). A proof about what a power loss leaves
has to speak of all directories that the disk may hold, so `IndInv` does: an inode
goes by one name but for the temp manifest's, which becomes the manifest's
(`OneName`), so a write through one name changes no other file; a
manifest that may be found names one generation, none later than the current one
(`ManifestsOK`), so materialisation, which writes the next, and clean-up,
which removes all but the current, touch no file that a start may read; the
files of every generation so named are in every directory and have one content
(`GenerationsOK`). That the rename keeps the last is what the
fsyncs before it are for: `MaterialiseOK` says which files are on the disk at each
`pc` (`SafeIs`, `InAll`). `BootstrapOK` says where the marker is, and
that it is made in a directory that holds nothing else.
Each system call has a lemma (`OpenOK`, `WriteOK`, `SyncOK`, `UnlinkOK`, `RenameOK`,
`SyncDirectoryOK`, `LosePowerOK`); the first four give `Touches(name)`, that nothing
changes but under one name, from which the actions follow.
`Implements` and `BootstrapIsMarked` assume `Ordered`, without which
`unordered_directory` refutes the second. They add `Recoverable`: a start finds
a store, or a bootstrap to begin or resume, in every directory that may be found.
The mapping sends the rename to `Publish`, `LoadInit` and a `Load` that succeeds
to `Start`, a trade to `Trade`; an fsync of the directory and a power loss
to `Settle`, and the rest to a stutter or to the end of a process.

*StockStore.* The theorems of `StockStoreProofs` hold for trees of every size and shape,
files and logs of every length and every `INT_MAX`, `MAXLINE` and `SIZE_MAX`. What the code computes
by recursion, and the model by recursive functions, needs induction, for which the
library's theorems cannot be used; least and greatest elements of sets of numbers
(`Smallest`, `Largest`, which rest on the well-foundedness of `<`) stand in for it: a
statement that fails somewhere fails at a least place, which its steps exclude; and a
recursive function exists because there can be no least place up to which it does not. That the search function of `Find` is defined uses that a link leads to a
higher address than its node's, which holds because a node is linked once, when it is
allocated.

`IndInv` has five parts. `TreeInv` says that the heap is a `Tree`: the nodes are `1 .. k`,
links lead up and no two to one node, and each node is on the path that its own id takes
from the root. `Path` is what a search passes, as the least set that the root is in
and that follows the comparisons; with it a search tree needs no bounds on its subtrees, and
`Under`, the nodes whose searches come through a given one, is the subtree. `UpsertTree`
shows that an insertion keeps the tree and every other path. `WalkInv` is about a walk in its midst:
the calls are nested from the root (`Nest`), and what has been seen is, in ascending
order, what is to the left of the place the calls have got to. `FreeInv` is its counterpart while the tree
is freed, when it is no longer a search tree: the calls lead down from the root, and a node
other than the root has a parent that is still there. `SaveInv` says that a save, and the rest of
it that is being loaded, ascends and is above what is in the tree, so each
record goes to the right. `Typed` is the types.

Three results build on it. `ListInv` says that an unfinished listing has sent exactly
the rows of the ids seen so far, of whatever length the rows are; that it is refused
just if they do not all fit takes that an append fails only where the
whole could not fit either. `RecInv` ties recovery to the definition of
what the files say: what is in the tree is what the lines read so far say, and
every line that stops recovery makes the file say nothing (`Refused`). Then
`StepRefines` maps the end of recovery to `StockTable`'s start, a trade to its trade, the
publication of a save to its save, and all else to the end of a process or to a
stutter. That a save says what is in memory is `SavedSays`: the walk has seen every
stock once, so the lines say each id once, and they are accepted unless a
quantity is negative, which is the case `negative_snapshot` shows.

*Model-checked only.* Liveness: `SomeWorkerWakes`, `InsertReturns`, `MutexReleased`,
`EventuallyServes`, `ShutdownCompletes`, `AcceptedIsServed`, `StockClientAnswered`
and `ServerEndsWithClient`, since the prover has no fairness or ENABLED here. Every safety property
of the passing runs is also a theorem.

## 5. Not modelled

- Prices, which no request changes, and the texts of messages and logging.
- The output of the clients, `multiclient`'s processes (`fork` and `wait`), and
  `echo.c`, which nothing calls.
- The wrappers of `csapp.c` that the server does not use, and those that only
  pass a call on; `Open_listenfd` and `Open_clientfd`, which are name resolution.
- The branch of `upsert_stock_item` for an id that is there, which no caller reaches.
- `Persistence` treats a log or snapshot cut off in its midst as a wrong store
  (`Partial`) rather than as one of the stores it might parse to.
- A directory read that fails without reporting it: `readdir` returns `NULL` for
  both, and a clean-up cut short passes for a complete one.
- Running out of memory, which exits in `Malloc`.
- A `pthread_create` that fails for the very first worker (`Workers` is not empty).
- Clients that close one direction of the connection only, and NUL bytes in what they
  send.

## 6. Plan

Done: all modules of section 2, their abstract specifications, and the proofs of
section 4. Left:

1. The processes of `multiclient`.
2. Theorems that tie the modules together: that the trades of `StockServer` and the
   operations of `StockTrading` are those of `StockStore`.
