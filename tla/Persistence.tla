---------------------------- MODULE Persistence ------------------------------
(***************************************************************************)
(* The server process and its data directory: main.c starts by             *)
(* recover_stock_store, serves, and materialises a new generation of files *)
(* on a clean shutdown (stock_persistence.c).  Every system call that      *)
(* changes the directory or a file is a step; between any two the process  *)
(* may be killed or the machine lose power, and any of them may fail.      *)
(* A store is one value that every start accepts (StockStore has those     *)
(* that no start does); an append-only log never holds a record, since no  *)
(* code writes one.  The init file is always there and is loadable.        *)
(***************************************************************************)
EXTENDS Integers, FiniteSets, Functions

CONSTANTS
  Stores,      \* the states of the stock store
  InitStore,   \* the one in the init file
  NoStore,     \* no server is running
  Partial,
  Ordered,
  MaxGen,      \* bound on the generations published
  MaxFaults    \* bound on the kills, power losses and failing calls

ASSUME PersistenceAssumption ==
  /\ InitStore \in Stores
  /\ NoStore \notin Stores /\ Partial \notin Stores \cup Nat \cup {NoStore}
  /\ Ordered \in BOOLEAN
  /\ MaxGen \in Nat \ {0} /\ MaxFaults \in Nat

VARIABLES
  pc,       \* the next call of the process
  file,     \* the file it works on, by its role
  then,     \* where recovery or materialisation returns to
  live,     \* the store in memory
  faults,   \* the faults so far
  dir, images, inode

vars == <<pc, file, then, live, faults, dir, images, inode>>

files == <<dir, images, inode>>

Gens == 1 .. MaxGen
Marker == <<"marker", 0>>
Manifest == <<"manifest", 0>>
ManifestTmp == <<"manifest_tmp", 0>>
Snapshot(g) == <<"snapshot", g>>
Aof(g) == <<"aof", g>>
\* parse_generation_suffix, and the name of the manifest's temp file
Artifacts == {ManifestTmp} \cup ({"snapshot", "aof"} \X Gens)

INSTANCE FileSystem WITH
  Names <- Artifacts \cup {Marker, Manifest},
  Contents <- Stores \cup Gens \cup {Partial}

\* The variables have their types, and there is a store in memory exactly
\* between its loading and the end of the process.
TypeOK ==
  /\ pc \in {"down", "recover", "cleanup", "create", "open", "write", "sync", "rename",
             "syncdir", "unlink", "load_init", "load", "serving"}
  /\ file \in {"none", "marker", "no_marker", "snapshot", "aof",
               "manifest_tmp", "manifest"}
  /\ then \in {"down", "mark", "load", "serving"}
  /\ live \in Stores \cup {NoStore}
  /\ live = NoStore <=> \/ pc \in {"down", "recover", "load_init", "load"}
                         \/ then \in {"mark", "load"}
  /\ faults \in 0 .. MaxFaults
  /\ FileTypeOK
-----------------------------------------------------------------------------
\* The generation the manifest names; 0 when there is no manifest.
current_gen == IF Exists(Manifest) THEN Read(Manifest) ELSE 0

next_gen == current_gen + 1

\* The file being written, and what goes into it.
Path == CASE file = "snapshot" -> Snapshot(next_gen)
          [] file = "aof" -> Aof(next_gen)
          [] OTHER -> ManifestTmp
Payload == IF file = "snapshot" THEN live ELSE next_gen

\* What makes ensure_bootstrap_recovery_state refuse to start.
Leftovers == \E a \in Artifacts : Exists(a)

\* load_stock_file_into_store accepts the snapshot; one that is only partly
\* written may well be accepted, as one with fewer stocks.
SnapshotLoads(g) == Exists(Snapshot(g))
\* replay_aof_into_store finds the log, and no record in it.
LogReplays(g) == Exists(Aof(g))

Goto(to, f, t) == pc' = to /\ file' = f /\ then' = t
Stop == Goto("down", "none", "down") /\ live' = NoStore
Serve == Goto("serving", "none", "down")

Init ==
  /\ pc = "down" /\ file = "none" /\ then = "down" /\ live = NoStore
  /\ faults = 0
  /\ FileInit

Start ==
  /\ pc = "down"
  /\ Goto("recover", "none", "down")
  /\ UNCHANGED <<live, faults, files>>

\* Faulty variant: a bootstrap that was cut short is not recognised.
RecoverIgnoringMarker ==
  /\ pc = "recover"
  /\ IF ~Exists(Manifest)
     THEN IF Leftovers THEN Stop
          ELSE Goto("create", "marker", "mark") /\ UNCHANGED live
     ELSE /\ IF Exists(Marker) THEN Goto("unlink", "no_marker", "load")
                               ELSE Goto("load", "none", "down")
          /\ UNCHANGED live
  /\ UNCHANGED <<faults, files>>

\* recover_stock_store up to its first change of the directory
Recover ==
  /\ pc = "recover"
  /\ IF ~Exists(Manifest)
     THEN IF Exists(Marker)
          THEN Goto("cleanup", "none", "mark") /\ UNCHANGED live
          ELSE IF Leftovers THEN Stop
          ELSE Goto("create", "marker", "mark") /\ UNCHANGED live
     ELSE IF Read(Manifest) = Partial THEN Stop
     ELSE /\ IF Exists(Marker) THEN Goto("unlink", "no_marker", "load")
                               ELSE Goto("load", "none", "down")
          /\ UNCHANGED live
  /\ UNCHANGED <<faults, files>>

\* One unlink of cleanup_old_generation_files, in the order of readdir.
Stale == {a \in Artifacts : Exists(a) /\ (a = ManifestTmp \/ a[2] # current_gen)}
CleanupOne ==
  /\ pc = "cleanup"
  /\ \E a \in Stale : Unlink(a)
  /\ UNCHANGED <<pc, file, then, live, faults>>

\* ... and its return: to a bootstrap that starts over, to the end of a
\* bootstrap, or to main's exit.
AfterCleanup ==
  IF then = "down" THEN Stop
  ELSE Goto("unlink", "no_marker", then) /\ UNCHANGED live
EndCleanup ==
  /\ pc = "cleanup" /\ Stale = {}
  /\ AfterCleanup
  /\ UNCHANGED <<faults, files>>

\* create_bootstrap_marker up to its fsync_parent_dir
CreateMarker ==
  /\ pc = "create"
  /\ OpenForWriting(Marker)
  /\ pc' = "syncdir"
  /\ UNCHANGED <<file, then, live, faults>>

\* fopen of the snapshot, the log or the temp manifest
Open ==
  /\ pc = "open"
  /\ OpenForWriting(Path)
  /\ pc' = IF file = "aof" THEN "sync" ELSE "write"
  /\ UNCHANGED <<file, then, live, faults>>

\* The inorder walk of fprintf, or the manifest's one line, and fflush
Write ==
  /\ pc = "write"
  /\ WriteFile(Path, Payload)
  /\ pc' = "sync"
  /\ UNCHANGED <<file, then, live, faults>>

AfterSync == IF file = "manifest_tmp" THEN "rename" ELSE "syncdir"

\* Faulty variant: the file is closed without an fsync.
CloseUnsynced ==
  /\ pc = "sync"
  /\ pc' = AfterSync
  /\ UNCHANGED <<file, then, live, faults, files>>

\* fsync of the file, and fclose
Sync ==
  /\ pc = "sync"
  /\ SyncFile(Path)
  /\ pc' = AfterSync
  /\ UNCHANGED <<file, then, live, faults>>

RenameManifest ==
  /\ pc = "rename"
  /\ Rename(ManifestTmp, Manifest)
  /\ Goto("syncdir", "manifest", then)
  /\ UNCHANGED <<live, faults>>

\* What follows an fsync_parent_dir, after removing the marker ...
AfterUnmark ==
  CASE then = "mark" -> Goto("create", "marker", "mark")
    [] then = "load" -> Goto("load", "none", "down")
    [] OTHER -> Serve
\* ... and anywhere.
AfterSyncDir ==
  CASE file = "marker" -> Goto("load_init", "none", "serving")
    [] file = "no_marker" -> AfterUnmark
    [] file = "snapshot" -> Goto("open", "aof", then)
    [] file = "aof" -> Goto("open", "manifest_tmp", then)
    [] OTHER -> Goto("cleanup", "none", then)

\* Faulty variant: the directory is never fsynced.
SkipSyncDir ==
  /\ pc = "syncdir"
  /\ AfterSyncDir
  /\ UNCHANGED <<live, faults, files>>

\* fsync_parent_dir
SyncDir ==
  /\ pc = "syncdir"
  /\ SyncDirectory
  /\ AfterSyncDir
  /\ UNCHANGED <<live, faults>>

\* remove_bootstrap_marker up to its fsync
UnlinkMarker ==
  /\ pc = "unlink"
  /\ Unlink(Marker)
  /\ Goto("syncdir", "no_marker", then)
  /\ UNCHANGED <<live, faults>>

\* Faulty variant: the store is materialised before the init file is loaded.
SkipLoadInit ==
  /\ pc = "load_init"
  /\ Goto("open", "snapshot", "serving")
  /\ UNCHANGED <<live, faults, files>>

\* load_stock_file_into_store of the init file, and materialize_store_generation
LoadInit ==
  /\ pc = "load_init"
  /\ live' = InitStore
  /\ Goto("open", "snapshot", "serving")
  /\ UNCHANGED <<faults, files>>

\* The snapshot and the log of the manifest's generation.
Load ==
  /\ pc = "load"
  /\ IF SnapshotLoads(current_gen) /\ LogReplays(current_gen)
     THEN Serve /\ live' = Read(Snapshot(current_gen))
     ELSE Stop
  /\ UNCHANGED <<faults, files>>

\* Successful buys and sells.
Trade ==
  /\ pc = "serving"
  /\ live' \in Stores \ {live}
  /\ UNCHANGED <<pc, file, then, faults, files>>

\* run_server_stub returns: after a signal, or because accept failed, and
\* then main exits without saving.
Shutdown ==
  /\ pc = "serving" /\ next_gen \in Gens
  /\ Goto("open", "snapshot", "down")
  /\ UNCHANGED <<live, faults, files>>
ServerFails ==
  /\ pc = "serving"
  /\ Stop
  /\ UNCHANGED <<faults, files>>
-----------------------------------------------------------------------------
Fault == faults < MaxFaults /\ faults' = faults + 1

\* The call at pc fails, and its caller does what it does about it.
CallFails ==
  /\ Fault
  /\ \/ pc \in {"write", "sync", "rename"} /\ Stop /\ Unlink(Path)
     \* fclose of the new marker
     \/ pc = "syncdir" /\ file = "marker" /\ Stop /\ Unlink(Marker)
     \/ pc = "cleanup" /\ then # "mark" /\ AfterCleanup /\ UNCHANGED files
     \/ /\ file = "no_marker" /\ then = "load"
        /\ Goto("load", "none", "down") /\ UNCHANGED <<live, files>>
     \/ /\ \/ pc \in {"recover", "create", "open", "load_init", "load"}
           \/ pc = "cleanup" /\ then = "mark"
           \/ pc \in {"unlink", "syncdir"} /\ ~(file = "no_marker" /\ then = "load")
        /\ Stop /\ UNCHANGED files

Killed ==
  /\ Fault
  /\ pc # "down"
  /\ Stop
  /\ UNCHANGED files

PowerLoss ==
  /\ Fault
  /\ Stop
  /\ LosePower

\* What the process does by itself, once someone starts it.
Proceed ==
  \/ Start \/ Recover \/ CleanupOne \/ EndCleanup \/ CreateMarker
  \/ Open \/ Write \/ Sync \/ RenameManifest \/ SyncDir
  \/ UnlinkMarker \/ LoadInit \/ Load

Next ==
  \/ Proceed \/ Trade \/ Shutdown \/ ServerFails
  \/ CallFails \/ Killed \/ PowerLoss

\* A server that is down is started again, and a running process proceeds.
Spec == Init /\ [][Next]_vars /\ WF_vars(Proceed)
-----------------------------------------------------------------------------
\* What a start finds on a disk that holds the directory img: the store of the
\* generation the manifest names, no store at all, or, as Partial, something
\* recovery refuses or should have.
Finds(img) ==
  LET holds(n) == inode[img[n]].safe
      has(n) == n \in DOMAIN img
      loads(g) == IF g # Partial /\ has(Snapshot(g)) /\ has(Aof(g))
                  THEN holds(Snapshot(g)) ELSE {Partial}
  IN  IF has(Manifest) THEN UNION {loads(g) : g \in holds(Manifest)}
      ELSE IF has(Marker) \/ DOMAIN img = {} THEN {NoStore}
      ELSE {Partial}

Durable == UNION {Finds(img) : img \in images}

Disk == INSTANCE DurableStore WITH durable <- Durable

\* Whatever fails and whenever, a start finds the store that was published
\* last or was just being published, whole, and publishing is one step.
ImplementsDurableStore == Disk!Spec

\* Once materialisation or bootstrap gets past the manifest, nothing but the
\* store in memory can be found again, whatever the disk does.
PublishedIsDurable ==
  pc = "cleanup" /\ then # "mark" => Durable = {live}

\* However a run was cut short, starting the server again gets it to serve.
EventuallyServes == []<>(pc = "serving")

\* stock_persistence.c, create_bootstrap_marker: an interrupted bootstrap is
\* told from a clean state, so that no start is refused for what it left.
InterruptedBootstrapIsMarked == Partial \notin Durable
=============================================================================
