----------------------------- MODULE FileSystem ------------------------------
(***************************************************************************)
(* The data directory under the operating system, as stock_persistence.c   *)
(* uses it through fopen, fsync, rename and unlink.  A process that dies   *)
(* leaves what it wrote readable; a power loss leaves only what was made   *)
(* durable and, of the rest, whatever the kernel happened to write.        *)
(* So besides the directory that processes see there is the set of         *)
(* directories that may be on the disk.                                    *)
(***************************************************************************)
EXTENDS Naturals, FiniteSets, Functions

CONSTANTS
  Names,      \* the file names of the data directory
  Contents,   \* what a file may hold
  Partial,    \* of these, that of a file opened for writing and not yet written
  Ordered     \* whether directory changes reach the disk in the order made

VARIABLES
  dir,      \* file name -> inode, for the names that exist
  images,   \* the directories of which the disk may hold any
  inode     \* inode -> what a read finds, and what a power loss may leave

InUse(imgs) == UNION {Range(img) : img \in imgs}

\* No two names share an inode, every inode in use is known, and a process
\* reads what a power loss right now might also leave.
FileTypeOK ==
  /\ images # {}
  /\ \A img \in images \cup {dir} : DOMAIN img \subseteq Names /\ IsInjective(img)
  /\ DOMAIN inode = InUse(images \cup {dir})
  /\ \A i \in DOMAIN inode : /\ inode[i].data \in inode[i].safe
                             /\ inode[i].safe \subseteq Contents

FileInit == /\ dir = [n \in {} |-> 0]
            /\ images = {dir}
            /\ inode = [i \in {} |-> 0]

Exists(name) == name \in DOMAIN dir
Read(name) == inode[dir[name]].data
-----------------------------------------------------------------------------
\* Of the changes since the last fsync of the directory a power loss keeps the
\* first few if they are ordered, any of them if not; a rename is kept whole.
Persistable(imgs) ==
  IF Ordered THEN imgs
  ELSE LET names == UNION {DOMAIN img : img \in imgs}
           entries(n) == {IF n \in DOMAIN img THEN img[n] ELSE 0 : img \in imgs}
           mixed == {m \in [names -> InUse(imgs) \cup {0}] :
                       \A n \in names : m[n] \in entries(n)}
           kept == {Restrict(m, {n \in names : m[n] # 0}) : m \in mixed}
       IN  {img \in kept : IsInjective(img)}

ChangeDirectory(d, table) ==
  /\ dir' = d
  /\ images' = Persistable(images \cup {d})
  /\ inode' = Restrict(table, InUse(images'))

\* fopen(name, "w") truncates the file in place, or makes a new one.
OpenForWriting(name) ==
  IF Exists(name)
  THEN /\ inode' = [inode EXCEPT ![dir[name]] =
                      [data |-> Partial, safe |-> @.safe \cup {Partial}]]
       /\ UNCHANGED <<dir, images>>
  ELSE LET fresh == CHOOSE i \in 1 .. Cardinality(DOMAIN inode) + 1 : i \notin DOMAIN inode
       IN  ChangeDirectory(
             [n \in DOMAIN dir \cup {name} |-> IF n = name THEN fresh ELSE dir[n]],
             [i \in DOMAIN inode \cup {fresh} |->
                IF i = fresh THEN [data |-> Partial, safe |-> {Partial}]
                ELSE inode[i]])

WriteFile(name, content) ==
  /\ inode' = [inode EXCEPT ![dir[name]] =
                 [data |-> content, safe |-> @.safe \cup {content}]]
  /\ UNCHANGED <<dir, images>>

SyncFile(name) ==
  /\ inode' = [inode EXCEPT ![dir[name]].safe = {Read(name)}]
  /\ UNCHANGED <<dir, images>>

Unlink(name) ==
  ChangeDirectory(Restrict(dir, DOMAIN dir \ {name}), inode)

Rename(from, to) ==
  ChangeDirectory([n \in (DOMAIN dir \ {from}) \cup {to} |->
                     IF n = to THEN dir[from] ELSE dir[n]], inode)

SyncDirectory ==
  /\ images' = {dir}
  /\ inode' = Restrict(inode, Range(dir))
  /\ UNCHANGED dir

\* The machine comes back with one of the directories and, in each of its
\* files, one of the contents that may be on the disk.
LosePower ==
  \E img \in images :
    LET unsure == {i \in Range(img) : Cardinality(inode[i].safe) > 1}
    IN \E left \in {f \in [unsure -> Contents] :
                      \A i \in unsure : f[i] \in inode[i].safe} :
         /\ dir' = img
         /\ images' = {img}
         /\ inode' = [i \in Range(img) |->
              LET c == IF i \in unsure THEN left[i] ELSE inode[i].data
              IN  [data |-> c, safe |-> {c}]]
=============================================================================
