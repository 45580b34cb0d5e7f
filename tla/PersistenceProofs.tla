------------------------- MODULE PersistenceProofs --------------------------
(***************************************************************************)
(* For all stores, any number of generations, faults and process lives:    *)
(* once stock_persistence.c is past the manifest, only the store in memory *)
(* can be found again; and, if directory changes reach the disk in order,  *)
(* recovery and materialisation implement a durable store.                 *)
(***************************************************************************)
EXTENDS Persistence, FiniteSetTheorems, TLAPS

FileNames == Artifacts \cup {Marker, Manifest}
FileContents == Stores \cup Gens \cup {Partial}
Inodes == [data : FileContents, safe : SUBSET FileContents]
Numbers == Nat \ {0}

IsDirectory(img) ==
  /\ img \in [DOMAIN img -> Numbers]
  /\ DOMAIN img \subseteq FileNames
  /\ IsInjective(img)

\* Directories and inodes have their types; what processes see may also be on
\* the disk.
DiskTypeOK ==
  /\ FileTypeOK
  /\ dir \in images
  /\ \A img \in images : IsDirectory(img)
  /\ inode \in [DOMAIN inode -> Inodes]
  /\ IsFiniteSet(DOMAIN inode)

\* An inode goes by one name, but for the temp manifest's, which a rename
\* turns into the manifest's.
OneName ==
  \A a, b \in images, m \in FileNames, n \in FileNames :
    m \in DOMAIN a /\ n \in DOMAIN b /\ a[m] = b[n] =>
      m = n \/ {m, n} = {Manifest, ManifestTmp}

\* A manifest that may be found names one generation, none later than that of
\* the manifest processes see, and is written to no more.
ManifestsOK ==
  \A img \in images : Manifest \in DOMAIN img =>
    /\ \E g \in Gens : inode[img[Manifest]].safe = {g} /\ g <= current_gen
    /\ Exists(ManifestTmp) => dir[ManifestTmp] # img[Manifest]

FilesOK == DiskTypeOK /\ OneName /\ ManifestsOK

\* Only what the kernel can have written is safe.
SafeIs(n, c) == Exists(n) /\ inode[dir[n]].safe = {c}

\* A file that is in every directory that may be found.
InAll(n) == Exists(n) /\ \A img \in images : n \in DOMAIN img /\ img[n] = dir[n]

\* A manifest that may be found names a generation whose files are whole, even
\* if a power loss picks the changes to the directory one by one.
Named(g) == \E img \in images : Manifest \in DOMAIN img /\ inode[img[Manifest]].safe = {g}
GenerationsOK ==
  \A g \in Gens : Named(g) =>
    \E s \in Stores : \A img \in images :
      {Snapshot(g), Aof(g)} \subseteq DOMAIN img /\ inode[img[Snapshot(g)]].safe = {s}
-----------------------------------------------------------------------------
\* Where recovery and materialisation can be.
ControlOK ==
  \/ pc \in {"down", "recover", "load", "serving"} /\ file = "none" /\ then = "down"
  \/ pc = "cleanup" /\ file = "none" /\ then \in {"mark", "down", "serving"}
  \/ pc \in {"create", "syncdir"} /\ file = "marker" /\ then = "mark"
  \/ pc = "load_init" /\ file = "none" /\ then = "serving"
  \/ /\ pc \in {"open", "write", "sync", "syncdir"}
     /\ file \in {"snapshot", "aof"} /\ then \in {"down", "serving"}
     /\ pc = "write" => file = "snapshot"
  \/ /\ pc \in {"open", "write", "sync", "rename"}
     /\ file = "manifest_tmp" /\ then \in {"down", "serving"}
  \/ pc = "syncdir" /\ file = "manifest" /\ then \in {"down", "serving"}
  \/ pc \in {"unlink", "syncdir"} /\ file = "no_marker" /\ then \in {"mark", "load", "serving"}

\* Until a bootstrap has replaced the manifest there is the marker, or nothing.
BootstrapOK ==
  /\ then = "mark" => ~Exists(Manifest)
  /\ pc = "cleanup" /\ then = "mark" => Exists(Marker)
  /\ file = "no_marker" /\ then = "mark" => DOMAIN dir \subseteq {Marker}
  /\ file = "no_marker" /\ then # "mark" => Exists(Manifest)
  /\ pc = "create" => DOMAIN dir \subseteq {Marker}
  /\ pc = "syncdir" /\ file = "marker" => DOMAIN dir = {Marker}
  /\ pc = "load_init" => Exists(Marker) /\ ~Exists(Manifest)
  /\ pc = "serving" => Exists(Manifest)

Materialising ==
  file \in {"snapshot", "aof", "manifest_tmp"}

\* What materialisation has got on the disk so far.
MaterialiseOK ==
  Materialising =>
    /\ next_gen \in Gens /\ (Exists(Manifest) \/ Exists(Marker))
    /\ file = "snapshot" /\ pc \in {"write", "sync", "syncdir"} =>
         Exists(Snapshot(next_gen))
    /\ file = "snapshot" /\ pc = "sync" => Read(Snapshot(next_gen)) = live
    /\ file # "snapshot" \/ pc = "syncdir" => SafeIs(Snapshot(next_gen), live)
    /\ file = "manifest_tmp" \/ (file = "aof" /\ pc # "open") =>
         Exists(Aof(next_gen))
    /\ file # "snapshot" => InAll(Snapshot(next_gen))
    /\ file = "manifest_tmp" => InAll(Aof(next_gen))
    /\ file = "manifest_tmp" /\ pc # "open" => Exists(ManifestTmp)
    /\ file = "manifest_tmp" /\ pc = "sync" => Read(ManifestTmp) = next_gen
    /\ pc = "rename" => SafeIs(ManifestTmp, next_gen)

CurrentFiles == {Manifest, Snapshot(current_gen), Aof(current_gen)}

\* From the rename on, the manifest's generation is the store in memory; from
\* the fsync of the directory on, in every directory that may be found.
PublishedOK ==
  /\ file = "manifest" \/ (pc = "cleanup" /\ then # "mark") =>
       CurrentFiles \subseteq DOMAIN dir /\ SafeIs(Snapshot(current_gen), live)
  /\ pc = "cleanup" /\ then # "mark" =>
       \A img \in images, n \in CurrentFiles :
         n \in DOMAIN img /\ img[n] = dir[n]

IndInv ==
  /\ TypeOK /\ FilesOK /\ ControlOK /\ BootstrapOK
  /\ MaterialiseOK /\ PublishedOK /\ GenerationsOK

\* The store that a start finds in a directory, if it is one that recovery
\* accepts.
Holds(img, s) ==
  IF Manifest \in DOMAIN img
  THEN \E g \in Gens :
         /\ inode[img[Manifest]].safe = {g}
         /\ {Snapshot(g), Aof(g)} \subseteq DOMAIN img
         /\ s \in Stores /\ inode[img[Snapshot(g)]].safe = {s}
  ELSE s = NoStore /\ (Marker \in DOMAIN img \/ DOMAIN img = {})

\* In every directory that may be found a start finds a store.
Recoverable == \A img \in images : \E s \in Stores \cup {NoStore} : Holds(img, s)
-----------------------------------------------------------------------------
LEMMA NamesDiffer ==
  /\ Marker # Manifest /\ ManifestTmp # Manifest /\ ManifestTmp # Marker
  /\ \A g, h : /\ Snapshot(g) # Aof(h)
               /\ Snapshot(g) = Snapshot(h) => g = h
               /\ Aof(g) = Aof(h) => g = h
  /\ \A g : /\ Snapshot(g) \notin {Marker, Manifest, ManifestTmp}
            /\ Aof(g) \notin {Marker, Manifest, ManifestTmp}
  /\ \A g \in Gens : {Snapshot(g), Aof(g)} \subseteq Artifacts
  /\ Snapshot(0) \notin FileNames
  /\ Manifest \notin Artifacts /\ Marker \notin Artifacts
  BY PersistenceAssumption
  DEF Marker, Manifest, ManifestTmp, Snapshot, Aof, Artifacts, Gens, FileNames

\* Whichever changes a power loss keeps, each file name leads where it did in
\* one of the directories.
LEMMA PersistableKeeps ==
  ASSUME NEW imgs, \A img \in imgs : IsDirectory(img)
  PROVE  /\ imgs \subseteq Persistable(imgs)
         /\ \A img \in Persistable(imgs) :
              /\ IsDirectory(img)
              /\ \A n \in DOMAIN img : \E a \in imgs : n \in DOMAIN a /\ a[n] = img[n]
              /\ \A n : (\A a \in imgs : n \in DOMAIN a) /\ imgs # {} => n \in DOMAIN img
         /\ Ordered => Persistable(imgs) = imgs
<1>1. CASE Ordered
  <2>1. Persistable(imgs) = imgs
    BY <1>1 DEF Persistable
  <2> QED BY <2>1
<1>2. CASE ~Ordered
  <2> DEFINE names == UNION {DOMAIN img : img \in imgs}
             entries(n) == {IF n \in DOMAIN img THEN img[n] ELSE 0 : img \in imgs}
             mixed == {m \in [names -> InUse(imgs) \cup {0}] :
                         \A n \in names : m[n] \in entries(n)}
             kept == {Restrict(m, {n \in names : m[n] # 0}) : m \in mixed}
  <2>1. Persistable(imgs) = {img \in kept : IsInjective(img)}
    BY <1>2 DEF Persistable
  <2>2. ASSUME NEW a \in imgs PROVE a \in kept /\ IsInjective(a)
    <3> DEFINE m == [n \in names |-> IF n \in DOMAIN a THEN a[n] ELSE 0]
    <3>1. a \in [DOMAIN a -> Numbers] /\ IsInjective(a)
      BY DEF IsDirectory
    <3>2. \A n \in DOMAIN a : a[n] \in InUse(imgs)
      BY DEF InUse, Range
    <3>3. m \in mixed
      BY <3>2
    <3>4. DOMAIN a \subseteq names
      OBVIOUS
    <3>5. {n \in names : m[n] # 0} = DOMAIN a
      BY <3>1, <3>4 DEF Numbers
    <3>6. Restrict(m, DOMAIN a) = a
      BY <3>1, <3>4 DEF Restrict
    <3> QED
      BY <3>1, <3>3, <3>5, <3>6
  <2>3. ASSUME NEW img \in kept, IsInjective(img)
        PROVE  /\ IsDirectory(img)
               /\ \A n \in DOMAIN img : \E a \in imgs : n \in DOMAIN a /\ a[n] = img[n]
               /\ \A n : (\A a \in imgs : n \in DOMAIN a) /\ imgs # {} => n \in DOMAIN img
    <3>1. PICK m \in mixed : img = Restrict(m, {n \in names : m[n] # 0})
      OBVIOUS
    <3>2. DOMAIN img = {n \in names : m[n] # 0}
      BY <3>1 DEF Restrict
    <3>3. \A n \in DOMAIN img : img[n] = m[n]
      BY <3>1, <3>2 DEF Restrict
    <3>4. \A n \in names : m[n] \in entries(n)
      OBVIOUS
    <3>5. ASSUME NEW n \in DOMAIN img
          PROVE  \E a \in imgs : n \in DOMAIN a /\ a[n] = img[n]
      BY <3>2, <3>3, <3>4
    <3>6. ASSUME NEW n, \A a \in imgs : n \in DOMAIN a, imgs # {}
          PROVE  n \in DOMAIN img
      <4>1. n \in names
        BY <3>6
      <4>2. PICK a \in imgs : m[n] = IF n \in DOMAIN a THEN a[n] ELSE 0
        BY <4>1, <3>4
      <4>3. m[n] \in Numbers
        BY <4>2, <3>6 DEF IsDirectory
      <4> QED BY <4>1, <4>3, <3>2 DEF Numbers
    <3>7. img = [n \in DOMAIN img |-> img[n]]
      BY <3>1, <3>2 DEF Restrict
    <3>8. \A n \in DOMAIN img : img[n] \in Numbers /\ n \in FileNames
      BY <3>5 DEF IsDirectory
    <3>9. IsDirectory(img)
      BY <2>3, <3>7, <3>8 DEF IsDirectory
    <3> QED BY <3>5, <3>6, <3>9
  <2> QED BY <1>2, <2>1, <2>2, <2>3
<1> QED BY <1>1, <1>2

\* The new table of a change to the directory has what it needs.
IsTable(table) ==
  /\ table \in [DOMAIN table -> Inodes]
  /\ \A i \in DOMAIN table : table[i].data \in table[i].safe
  /\ IsFiniteSet(DOMAIN table)

\* What a change of the directory leaves, whichever part of it is kept.
LEMMA DirectoryChanges ==
  ASSUME DiskTypeOK, NEW d, IsDirectory(d), NEW table, IsTable(table),
         DOMAIN inode \subseteq DOMAIN table, Range(d) \subseteq DOMAIN table,
         ChangeDirectory(d, table)
  PROVE  /\ DiskTypeOK' /\ dir' = d
         /\ images \cup {d} \subseteq images'
         /\ Ordered => images' = images \cup {d}
         /\ \A img \in images' :
              /\ \A n \in DOMAIN img :
                   \E a \in images \cup {d} : n \in DOMAIN a /\ a[n] = img[n]
              /\ \A n : (\A a \in images \cup {d} : n \in DOMAIN a) => n \in DOMAIN img
         /\ \A i \in DOMAIN inode' : inode'[i] = table[i]
<1> DEFINE imgs == images \cup {d}
<1>1. \A img \in imgs : IsDirectory(img)
  BY DEF DiskTypeOK
<1>2. /\ dir' = d /\ images' = Persistable(imgs)
      /\ inode' = [i \in InUse(images') |-> table[i]]
  BY DEF ChangeDirectory, Restrict
<1>3. DOMAIN inode' = InUse(images') /\ \A i \in DOMAIN inode' : inode'[i] = table[i]
  BY <1>2
<1>4. /\ imgs \subseteq images'
      /\ \A img \in images' :
           /\ IsDirectory(img)
           /\ \A n \in DOMAIN img : \E a \in imgs : n \in DOMAIN a /\ a[n] = img[n]
           /\ \A n : (\A a \in imgs : n \in DOMAIN a) /\ imgs # {} => n \in DOMAIN img
      /\ Ordered => images' = imgs
  <2> HIDE DEF imgs
  <2> QED BY <1>1, <1>2, PersistableKeeps
<1>5. InUse(images') \subseteq DOMAIN table
  <2>1. \A a \in imgs : Range(a) \subseteq DOMAIN table
    BY DEF DiskTypeOK, FileTypeOK, InUse
  <2>2. \A img \in images' : Range(img) \subseteq DOMAIN table
    BY <1>4, <2>1 DEF Range
  <2> QED BY <2>2 DEF InUse
<1>6. IsFiniteSet(DOMAIN inode')
  BY <1>3, <1>5, FS_Subset DEF IsTable
<1>7. /\ inode' \in [DOMAIN inode' -> Inodes]
      /\ \A i \in DOMAIN inode' : inode'[i].data \in inode'[i].safe
  BY <1>2, <1>3, <1>5 DEF IsTable
<1>8. images' \cup {dir'} = images' /\ dir' \in images'
  BY <1>2, <1>4
<1>9. FileTypeOK'
  <2>1. \A img \in images' : DOMAIN img \subseteq FileNames /\ IsInjective(img)
    BY <1>4 DEF IsDirectory
  <2>2. \A i \in DOMAIN inode' : inode'[i].safe \subseteq FileContents
    BY <1>7 DEF Inodes
  <2> QED BY <1>3, <1>7, <1>8, <2>1, <2>2 DEF FileTypeOK, FileNames, FileContents
<1>10. DiskTypeOK'
  BY <1>4, <1>6, <1>7, <1>8, <1>9 DEF DiskTypeOK
<1> QED BY <1>2, <1>3, <1>4, <1>10

\* No call of a process changes what is on the disk under any name but its own.
Touches(name) ==
  /\ FilesOK' /\ current_gen' = current_gen
  /\ DOMAIN dir' \ {name} = DOMAIN dir \ {name}
  /\ \A n \in DOMAIN dir \ {name} :
       dir'[n] = dir[n] /\ inode'[dir'[n]] = inode[dir[n]]
  /\ images \subseteq images'
  /\ Ordered => images' \subseteq images \cup {dir'}
  /\ \A img \in images :
       \A n \in DOMAIN img \ {name} : inode'[img[n]] = inode[img[n]]
  /\ \A img \in images' :
       /\ \A n \in DOMAIN img \ {name} : \E a \in images : n \in DOMAIN a /\ a[n] = img[n]
       /\ \A n : n # name /\ (\A a \in images : n \in DOMAIN a) => n \in DOMAIN img

\* An entry of a directory leads to a known inode.
LEMMA EntriesKnown ==
  ASSUME DiskTypeOK, NEW a \in images, NEW n \in DOMAIN a
  PROVE  a[n] \in DOMAIN inode /\ a[n] \in Numbers /\ n \in FileNames
  BY DEF DiskTypeOK, FileTypeOK, InUse, Range, IsDirectory

\* A file that is created, or one that is unlinked
LEMMA EntryChanges ==
  ASSUME FilesOK, NEW d, IsDirectory(d), NEW table, IsTable(table),
         DOMAIN inode \subseteq DOMAIN table, Range(d) \subseteq DOMAIN table,
         ChangeDirectory(d, table),
         NEW name \in FileNames \ {Manifest},
         \A i \in DOMAIN inode : table[i] = inode[i],
         \A n \in DOMAIN d : \/ n \in DOMAIN dir /\ d[n] = dir[n]
                             \/ n = name /\ d[n] \notin DOMAIN inode,
         DOMAIN d \ {name} = DOMAIN dir \ {name}
  PROVE  Touches(name) /\ dir' = d /\ \A i \in DOMAIN inode' : inode'[i] = table[i]
<1>1. /\ DiskTypeOK /\ OneName /\ ManifestsOK
  BY DEF FilesOK
<1>2. /\ DiskTypeOK' /\ dir' = d
      /\ images \cup {d} \subseteq images'
      /\ Ordered => images' = images \cup {d}
      /\ \A img \in images' :
           /\ \A n \in DOMAIN img :
                \E a \in images \cup {d} : n \in DOMAIN a /\ a[n] = img[n]
           /\ \A n : (\A a \in images \cup {d} : n \in DOMAIN a) => n \in DOMAIN img
      /\ \A i \in DOMAIN inode' : inode'[i] = table[i]
  BY <1>1, DirectoryChanges
<1>3. dir \in images
  BY <1>1 DEF DiskTypeOK
<1>4. ASSUME NEW img \in images', NEW n \in DOMAIN img
      PROVE  \/ \E a \in images : n \in DOMAIN a /\ a[n] = img[n]
             \/ n = name /\ img[n] \notin DOMAIN inode
  BY <1>2, <1>3
<1>5. ASSUME NEW a \in images, NEW n \in DOMAIN a
      PROVE  a[n] \in DOMAIN inode /\ n \in FileNames /\ inode'[a[n]] = inode[a[n]]
  <2>1. a[n] \in DOMAIN inode /\ n \in FileNames
    BY <1>1, EntriesKnown
  <2>2. a \in images' /\ a[n] \in DOMAIN inode'
    BY <1>2, EntriesKnown DEF DiskTypeOK, FileTypeOK, InUse, Range
  <2> QED BY <1>2, <2>1, <2>2
<1>6. OneName'
  <2> SUFFICES ASSUME NEW a \in images', NEW b \in images',
                      NEW m \in FileNames, NEW n \in FileNames,
                      m \in DOMAIN a, n \in DOMAIN b, a[m] = b[n]
               PROVE  m = n \/ {m, n} = {Manifest, ManifestTmp}
    BY DEF OneName
  <2>1. CASE /\ \E x \in images : m \in DOMAIN x /\ x[m] = a[m]
             /\ \E x \in images : n \in DOMAIN x /\ x[n] = b[n]
    BY <1>1, <2>1 DEF OneName
  <2> QED BY <1>4, <1>5, <2>1
<1>7. name # Manifest /\ Manifest \in FileNames /\ ManifestTmp \in FileNames
  BY DEF FileNames, Artifacts
<1>8. \A n \in DOMAIN dir \ {name} : dir'[n] = dir[n] /\ inode'[dir'[n]] = inode[dir[n]]
  BY <1>2, <1>3, <1>5
<1>9. current_gen' = current_gen
  BY <1>2, <1>7, <1>8 DEF current_gen, Exists, Read
<1>10. ManifestsOK'
  <2> SUFFICES ASSUME NEW img \in images', Manifest \in DOMAIN img
               PROVE  /\ \E g \in Gens : inode'[img[Manifest]].safe = {g} /\ g <= current_gen'
                      /\ ManifestTmp \in DOMAIN dir' => dir'[ManifestTmp] # img[Manifest]
    BY DEF ManifestsOK, Exists
  <2>1. PICK a \in images : Manifest \in DOMAIN a /\ a[Manifest] = img[Manifest]
    BY <1>4, <1>7
  <2>2. \E g \in Gens : inode[a[Manifest]].safe = {g} /\ g <= current_gen
    BY <1>1, <2>1 DEF ManifestsOK
  <2>3. inode'[img[Manifest]] = inode[a[Manifest]] /\ img[Manifest] \in DOMAIN inode
    BY <1>5, <2>1
  <2>4. ASSUME ManifestTmp \in DOMAIN d PROVE d[ManifestTmp] # img[Manifest]
    <3>1. CASE ManifestTmp \in DOMAIN dir /\ d[ManifestTmp] = dir[ManifestTmp]
      BY <1>1, <2>1, <3>1 DEF ManifestsOK, Exists
    <3> QED BY <2>3, <2>4, <3>1
  <2> QED BY <1>2, <1>9, <2>2, <2>3, <2>4
<1>11. FilesOK'
  BY <1>2, <1>6, <1>10 DEF FilesOK
<1>12. ASSUME NEW img \in images',
              NEW n, n # name, \A a \in images : n \in DOMAIN a
       PROVE  n \in DOMAIN img
  <2>1. n \in DOMAIN d
    BY <1>3, <1>12
  <2> QED BY <1>2, <1>12, <2>1
<1>13. \A img \in images' :
         /\ \A n \in DOMAIN img \ {name} : \E a \in images : n \in DOMAIN a /\ a[n] = img[n]
         /\ \A n : n # name /\ (\A a \in images : n \in DOMAIN a) => n \in DOMAIN img
  BY <1>4, <1>12
<1>14. \A img \in images :
         \A n \in DOMAIN img \ {name} : inode'[img[n]] = inode[img[n]]
  BY <1>5
<1>15. /\ DOMAIN dir' \ {name} = DOMAIN dir \ {name}
       /\ images \subseteq images' /\ Ordered => images' \subseteq images \cup {dir'}
  BY <1>2
<1> QED BY <1>2, <1>8, <1>9, <1>11, <1>13, <1>14, <1>15 DEF Touches

\* A file that is written to in place
LEMMA ContentChanges ==
  ASSUME FilesOK, NEW name \in DOMAIN dir \ {Manifest},
         NEW r \in Inodes, r.data \in r.safe,
         inode' = [inode EXCEPT ![dir[name]] = r], UNCHANGED <<dir, images>>
  PROVE  Touches(name) /\ inode'[dir[name]] = r
<1> DEFINE i == dir[name]
<1>1. /\ DiskTypeOK /\ OneName /\ ManifestsOK /\ dir \in images
  BY DEF FilesOK, DiskTypeOK
<1>2. i \in DOMAIN inode /\ name \in FileNames
  BY <1>1, EntriesKnown
<1>3. DOMAIN inode' = DOMAIN inode /\ inode'[i] = r
      /\ \A j \in DOMAIN inode \ {i} : inode'[j] = inode[j]
  BY <1>2
<1>4. ASSUME NEW img \in images, NEW n \in DOMAIN img \ {name}
      PROVE  inode'[img[n]] = inode[img[n]]
  <2>1. img[n] \in DOMAIN inode /\ n \in FileNames
    BY <1>1, EntriesKnown
  <2>2. img[n] # i
    <3> SUFFICES ASSUME img[n] = i PROVE FALSE
      OBVIOUS
    <3>1. {n, name} = {Manifest, ManifestTmp}
      BY <1>1, <1>2, <2>1 DEF OneName
    <3>2. n = Manifest /\ name = ManifestTmp
      BY <3>1
    <3> QED BY <1>1, <3>2 DEF ManifestsOK, Exists
  <2> QED BY <1>3, <2>1, <2>2
<1>5. DiskTypeOK'
  <2>1. inode' \in [DOMAIN inode' -> Inodes]
    BY <1>1, <1>2 DEF DiskTypeOK
  <2>2. FileTypeOK'
    <3>1. /\ images # {}
          /\ \A img \in images \cup {dir} : DOMAIN img \subseteq FileNames /\ IsInjective(img)
          /\ DOMAIN inode = InUse(images \cup {dir})
          /\ \A j \in DOMAIN inode : inode[j].data \in inode[j].safe
      BY <1>1 DEF DiskTypeOK, FileTypeOK, FileNames
    <3>2. \A j \in DOMAIN inode' : /\ inode'[j].data \in inode'[j].safe
                                   /\ inode'[j].safe \subseteq FileContents
      BY <1>3, <2>1, <3>1 DEF Inodes
    <3> QED BY <1>3, <3>1, <3>2 DEF FileTypeOK, FileNames, FileContents
  <2>3. IsFiniteSet(DOMAIN inode')
    BY <1>1, <1>3 DEF DiskTypeOK
  <2> QED BY <1>1, <2>1, <2>2, <2>3 DEF DiskTypeOK
<1>6. OneName'
  BY <1>1 DEF OneName
<1>7. \A n \in DOMAIN dir \ {name} : dir'[n] = dir[n] /\ inode'[dir'[n]] = inode[dir[n]]
  BY <1>1, <1>4
<1>8. current_gen' = current_gen
  BY <1>7 DEF current_gen, Exists, Read
<1>9. ManifestsOK'
  BY <1>1, <1>4, <1>8 DEF ManifestsOK, Exists
<1>10. FilesOK'
  BY <1>5, <1>6, <1>9 DEF FilesOK
<1>11. \A img \in images' :
         /\ \A n \in DOMAIN img \ {name} : \E a \in images : n \in DOMAIN a /\ a[n] = img[n]
         /\ \A n : n # name /\ (\A a \in images : n \in DOMAIN a) => n \in DOMAIN img
  OBVIOUS
<1> QED BY <1>3, <1>4, <1>7, <1>8, <1>10, <1>11 DEF Touches
-----------------------------------------------------------------------------
LEMMA FreshNumber ==
  ASSUME NEW S, IsFiniteSet(S)
  PROVE  (CHOOSE i \in 1 .. Cardinality(S) + 1 : i \notin S) \in Numbers \ S
<1> DEFINE n == Cardinality(S)
<1>1. n \in Nat
  BY FS_CardinalityType
<1> HIDE DEF n
<1>2. ~(1 .. n + 1 \subseteq S)
  <2> SUFFICES ASSUME 1 .. n + 1 \subseteq S PROVE FALSE
    OBVIOUS
  <2>1. Cardinality(1 .. n + 1) = n + 1
    BY <1>1, FS_Interval
  <2>2. Cardinality(1 .. n + 1) <= Cardinality(S)
    BY FS_Subset
  <2> QED BY <1>1, <2>1, <2>2 DEF n
<1>3. (CHOOSE i \in 1 .. n + 1 : i \notin S) \in (1 .. n + 1) \ S
  BY <1>2
<1> QED BY <1>1, <1>3 DEF Numbers, n

\* fopen for writing
LEMMA OpenOK ==
  ASSUME FilesOK, NEW name \in FileNames \ {Manifest}, OpenForWriting(name)
  PROVE  Touches(name) /\ name \in DOMAIN dir'
<1>1. DiskTypeOK /\ dir \in images /\ IsDirectory(dir)
  BY DEF FilesOK, DiskTypeOK
<1>2. CASE Exists(name)
  <2> DEFINE i == dir[name]
             r == [data |-> Partial, safe |-> inode[i].safe \cup {Partial}]
  <2>1. i \in DOMAIN inode /\ inode[i] \in Inodes
    BY <1>1, <1>2, EntriesKnown DEF Exists, DiskTypeOK
  <2>2. r \in Inodes /\ r.data \in r.safe
    BY <2>1 DEF Inodes, FileContents
  <2>3. inode' = [inode EXCEPT ![i] = r] /\ UNCHANGED <<dir, images>>
    BY <1>2 DEF OpenForWriting
  <2> HIDE DEF r
  <2> QED BY <1>2, <2>2, <2>3, ContentChanges DEF Exists
<1>3. CASE ~Exists(name)
  <2> DEFINE fresh == CHOOSE i \in 1 .. Cardinality(DOMAIN inode) + 1 : i \notin DOMAIN inode
             d == [n \in DOMAIN dir \cup {name} |-> IF n = name THEN fresh ELSE dir[n]]
             table == [i \in DOMAIN inode \cup {fresh} |->
                         IF i = fresh THEN [data |-> Partial, safe |-> {Partial}]
                         ELSE inode[i]]
  <2>1. fresh \in Numbers \ DOMAIN inode
    BY <1>1, FreshNumber DEF DiskTypeOK
  <2>2. ChangeDirectory(d, table)
    BY <1>3 DEF OpenForWriting
  <2> HIDE DEF fresh
  <2>3. \A n \in DOMAIN dir : dir[n] \in DOMAIN inode
    BY <1>1, EntriesKnown
  <2>4. IsDirectory(d)
    <3>1. \A n \in DOMAIN dir : dir[n] # fresh
      BY <2>1, <2>3
    <3> QED BY <1>1, <2>1, <3>1 DEF IsDirectory, IsInjective
  <2>5. IsTable(table)
    <3>1. \A i \in DOMAIN inode : inode[i] \in Inodes /\ inode[i].data \in inode[i].safe
      BY <1>1 DEF DiskTypeOK, FileTypeOK
    <3>2. [data |-> Partial, safe |-> {Partial}] \in Inodes
      BY DEF Inodes, FileContents
    <3>3. IsFiniteSet(DOMAIN inode \cup {fresh})
      BY <1>1, FS_AddElement DEF DiskTypeOK
    <3> QED BY <3>1, <3>2, <3>3 DEF IsTable
  <2>6. /\ DOMAIN inode \subseteq DOMAIN table
        /\ \A i \in DOMAIN inode : table[i] = inode[i]
    BY <2>1
  <2>7. Range(d) \subseteq DOMAIN table
    <3>1. DOMAIN table = DOMAIN inode \cup {fresh}
      OBVIOUS
    <3>2. \A n \in DOMAIN d : d[n] \in DOMAIN inode \cup {fresh}
      BY <2>3
    <3> HIDE DEF d, table
    <3> QED BY <3>1, <3>2 DEF Range
  <2>8. /\ \A n \in DOMAIN d :
             \/ n \in DOMAIN dir /\ d[n] = dir[n]
             \/ n = name /\ d[n] \notin DOMAIN inode
        /\ DOMAIN d \ {name} = DOMAIN dir \ {name}
        /\ name \in DOMAIN d
    BY <2>1
  <2> HIDE DEF d, table
  <2> QED BY <2>2, <2>4, <2>5, <2>6, <2>7, <2>8, EntryChanges
<1> QED BY <1>2, <1>3

\* fprintf and fflush
LEMMA WriteOK ==
  ASSUME FilesOK, NEW name \in DOMAIN dir \ {Manifest}, NEW c \in FileContents,
         WriteFile(name, c)
  PROVE  Touches(name) /\ name \in DOMAIN dir' /\ inode'[dir'[name]].data = c
<1> DEFINE i == dir[name]
           r == [data |-> c, safe |-> inode[i].safe \cup {c}]
<1>1. DiskTypeOK /\ dir \in images
  BY DEF FilesOK, DiskTypeOK
<1>2. i \in DOMAIN inode /\ inode[i] \in Inodes
  BY <1>1, EntriesKnown DEF DiskTypeOK
<1>3. r \in Inodes /\ r.data \in r.safe /\ r.data = c
  BY <1>2 DEF Inodes
<1>4. inode' = [inode EXCEPT ![i] = r] /\ UNCHANGED <<dir, images>>
  BY DEF WriteFile
<1> HIDE DEF r
<1> QED BY <1>3, <1>4, ContentChanges

\* fsync of a file
LEMMA SyncOK ==
  ASSUME FilesOK, NEW name \in DOMAIN dir \ {Manifest}, SyncFile(name)
  PROVE  /\ Touches(name) /\ name \in DOMAIN dir'
         /\ inode'[dir'[name]].safe = {inode[dir[name]].data}
<1> DEFINE i == dir[name]
           r == [data |-> inode[i].data, safe |-> {inode[i].data}]
<1>1. DiskTypeOK /\ dir \in images
  BY DEF FilesOK, DiskTypeOK
<1>2. i \in DOMAIN inode /\ inode[i] \in Inodes
  BY <1>1, EntriesKnown DEF DiskTypeOK
<1>3. r \in Inodes /\ r.data \in r.safe /\ r.safe = {inode[i].data}
  BY <1>2 DEF Inodes
<1>4. r = [inode[i] EXCEPT !.safe = {inode[i].data}]
  BY <1>2 DEF Inodes
<1>5. inode' = [inode EXCEPT ![i] = r] /\ UNCHANGED <<dir, images>>
  BY <1>4 DEF SyncFile, Read
<1> HIDE DEF r
<1> QED BY <1>3, <1>5, ContentChanges

\* unlink
LEMMA UnlinkOK ==
  ASSUME FilesOK, NEW name \in FileNames \ {Manifest}, Unlink(name)
  PROVE  Touches(name) /\ DOMAIN dir' = DOMAIN dir \ {name}
<1> DEFINE d == [n \in DOMAIN dir \ {name} |-> dir[n]]
<1>1. DiskTypeOK /\ dir \in images /\ IsDirectory(dir)
  BY DEF FilesOK, DiskTypeOK
<1>2. ChangeDirectory(d, inode)
  BY DEF Unlink, Restrict
<1>3. IsDirectory(d)
  BY <1>1 DEF IsDirectory, IsInjective
<1>4. IsTable(inode)
  BY <1>1 DEF IsTable, DiskTypeOK, FileTypeOK
<1>5. Range(d) \subseteq DOMAIN inode
  BY <1>1, EntriesKnown DEF Range
<1>6. /\ DOMAIN d = DOMAIN dir \ {name}
      /\ DOMAIN d \ {name} = DOMAIN dir \ {name}
      /\ \A n \in DOMAIN d : n \in DOMAIN dir /\ d[n] = dir[n]
  OBVIOUS
<1> HIDE DEF d
<1> QED BY <1>2, <1>3, <1>4, <1>5, <1>6, EntryChanges

\* The manifest that processes see.
LEMMA CurrentGeneration ==
  ASSUME FilesOK
  PROVE  /\ current_gen \in 0 .. MaxGen
         /\ Exists(Manifest) => /\ current_gen \in Gens
                                /\ inode[dir[Manifest]].safe = {current_gen}
         /\ ~Exists(Manifest) => current_gen = 0
<1>1. DiskTypeOK /\ ManifestsOK /\ dir \in images
  BY DEF FilesOK, DiskTypeOK
<1>2. CASE Exists(Manifest)
  <2>1. PICK g \in Gens : inode[dir[Manifest]].safe = {g}
    BY <1>1, <1>2 DEF ManifestsOK, Exists
  <2>2. dir[Manifest] \in DOMAIN inode
    BY <1>1, <1>2, EntriesKnown DEF Exists
  <2>3. inode[dir[Manifest]].data = g
    BY <1>1, <2>1, <2>2 DEF DiskTypeOK, FileTypeOK
  <2> QED BY <1>2, <2>1, <2>3 DEF current_gen, Read, Gens
<1>3. CASE ~Exists(Manifest)
  BY <1>3, PersistenceAssumption DEF current_gen
<1> QED BY <1>2, <1>3

\* rename of the temp manifest, written and fsynced
LEMMA RenameOK ==
  ASSUME FilesOK, next_gen \in Gens, SafeIs(ManifestTmp, next_gen),
         Rename(ManifestTmp, Manifest)
  PROVE  /\ FilesOK' /\ current_gen' = next_gen
         /\ DOMAIN dir' = (DOMAIN dir \ {ManifestTmp}) \cup {Manifest}
         /\ \A n \in DOMAIN dir \ {ManifestTmp, Manifest} :
              dir'[n] = dir[n] /\ inode'[dir'[n]] = inode[dir[n]]
         /\ inode'[dir'[Manifest]].safe = {next_gen}
         /\ images \subseteq images'
         /\ Ordered => images' \subseteq images \cup {dir'}
         /\ \A img \in images' :
              /\ \A n \in DOMAIN img :
                   /\ inode'[img[n]] = inode[img[n]]
                   /\ \/ \E a \in images : n \in DOMAIN a /\ a[n] = img[n]
                      \/ n = Manifest /\ img[n] = dir[ManifestTmp]
              /\ \A n : n # ManifestTmp /\ (\A a \in images : n \in DOMAIN a) =>
                       n \in DOMAIN img
<1> DEFINE d == [n \in (DOMAIN dir \ {ManifestTmp}) \cup {Manifest} |->
                   IF n = Manifest THEN dir[ManifestTmp] ELSE dir[n]]
           i == dir[ManifestTmp]
<1>1. /\ DiskTypeOK /\ OneName /\ ManifestsOK
      /\ dir \in images /\ IsDirectory(dir)
  BY DEF FilesOK, DiskTypeOK
<1>2. /\ ManifestTmp \in DOMAIN dir /\ inode[i].safe = {next_gen}
      /\ {Manifest, ManifestTmp} \subseteq FileNames /\ ManifestTmp # Manifest
  BY NamesDiffer DEF SafeIs, Exists, FileNames, Artifacts
<1>3. ChangeDirectory(d, inode)
  BY DEF Rename
<1>4. \A n \in DOMAIN d : d[n] = IF n = Manifest THEN i ELSE dir[n]
  OBVIOUS
<1>5. DOMAIN d = (DOMAIN dir \ {ManifestTmp}) \cup {Manifest}
  OBVIOUS
<1>6. d \in [DOMAIN d -> Numbers] /\ IsInjective(d)
  <2>1. dir \in [DOMAIN dir -> Numbers] /\ IsInjective(dir)
    BY <1>1 DEF IsDirectory
  <2>2. d \in [DOMAIN d -> Numbers]
    BY <1>2, <2>1
  <2>3. ASSUME NEW m \in DOMAIN d, NEW n \in DOMAIN d, d[m] = d[n]
        PROVE  m = n
    BY <1>2, <1>4, <1>5, <2>1, <2>3 DEF IsInjective
  <2> QED BY <2>2, <2>3 DEF IsInjective
<1>7. IsDirectory(d)
  BY <1>1, <1>2, <1>5, <1>6 DEF IsDirectory
<1>8. IsTable(inode)
  BY <1>1 DEF IsTable, DiskTypeOK, FileTypeOK
<1>9. Range(d) \subseteq DOMAIN inode
  <2>1. \A n \in DOMAIN dir : dir[n] \in DOMAIN inode
    BY <1>1, EntriesKnown
  <2> QED BY <1>2, <1>4, <1>5, <2>1 DEF Range
<1> HIDE DEF d
<1>10. /\ DiskTypeOK' /\ dir' = d
       /\ images \cup {d} \subseteq images'
       /\ Ordered => images' = images \cup {d}
       /\ \A img \in images' :
            /\ \A n \in DOMAIN img :
                 \E a \in images \cup {d} : n \in DOMAIN a /\ a[n] = img[n]
            /\ \A n : (\A a \in images \cup {d} : n \in DOMAIN a) => n \in DOMAIN img
       /\ \A j \in DOMAIN inode' : inode'[j] = inode[j]
  BY <1>1, <1>3, <1>7, <1>8, <1>9, DirectoryChanges
<1>11. ASSUME NEW a \in images', NEW n \in DOMAIN a
       PROVE  inode'[a[n]] = inode[a[n]] /\ n \in FileNames
  <2>1. a[n] \in DOMAIN inode' /\ n \in FileNames
    BY <1>10 DEF DiskTypeOK, FileTypeOK, InUse, Range, IsDirectory
  <2> QED BY <1>10, <2>1
<1>12. ASSUME NEW img \in images', NEW n \in DOMAIN img
       PROVE  \/ \E a \in images : n \in DOMAIN a /\ a[n] = img[n]
              \/ n = Manifest /\ img[n] = i
  BY <1>1, <1>4, <1>5, <1>10
<1>13. ASSUME NEW a \in images, NEW n \in DOMAIN a, a[n] = i
       PROVE  n \in {Manifest, ManifestTmp}
  <2>1. n \in FileNames
    BY <1>1, EntriesKnown
  <2>2. n = ManifestTmp \/ {n, ManifestTmp} = {Manifest, ManifestTmp}
    BY <1>1, <1>2, <1>13, <2>1 DEF OneName
  <2> QED BY <2>2
<1>14. OneName'
  <2> SUFFICES ASSUME NEW a \in images', NEW b \in images',
                      NEW m \in FileNames, NEW n \in FileNames,
                      m \in DOMAIN a, n \in DOMAIN b, a[m] = b[n]
               PROVE  m = n \/ {m, n} = {Manifest, ManifestTmp}
    BY DEF OneName
  <2>1. CASE /\ \E x \in images : m \in DOMAIN x /\ x[m] = a[m]
             /\ \E x \in images : n \in DOMAIN x /\ x[n] = b[n]
    BY <1>1, <2>1 DEF OneName
  <2>2. CASE a[m] = i
    <3>1. m \in {Manifest, ManifestTmp} /\ n \in {Manifest, ManifestTmp}
      BY <1>12, <1>13, <2>2
    <3> QED BY <3>1
  <2> QED BY <1>12, <2>1, <2>2
<1>15. current_gen' = next_gen /\ inode'[dir'[Manifest]].safe = {next_gen}
  <2>1. Manifest \in DOMAIN dir' /\ dir'[Manifest] = i /\ dir' \in images'
    BY <1>4, <1>5, <1>10
  <2>2. inode'[i] = inode[i] /\ i \in DOMAIN inode
    BY <1>1, <1>2, <1>11, <2>1, EntriesKnown
  <2>3. inode[i].data = next_gen
    BY <1>1, <1>2, <2>2 DEF DiskTypeOK, FileTypeOK
  <2> QED BY <1>2, <2>1, <2>2, <2>3 DEF current_gen, Exists, Read
<1>16. ManifestsOK'
  <2> SUFFICES ASSUME NEW img \in images', Manifest \in DOMAIN img
               PROVE  /\ \E g \in Gens : inode'[img[Manifest]].safe = {g} /\ g <= current_gen'
                      /\ ManifestTmp \notin DOMAIN dir'
    BY DEF ManifestsOK, Exists
  <2>1. ManifestTmp \notin DOMAIN dir'
    BY <1>2, <1>5, <1>10
  <2>2. inode'[img[Manifest]] = inode[img[Manifest]]
    BY <1>11
  <2>3. CASE \E a \in images : Manifest \in DOMAIN a /\ a[Manifest] = img[Manifest]
    <3>1. PICK g \in Gens : inode[img[Manifest]].safe = {g} /\ g <= current_gen
      BY <1>1, <2>3 DEF ManifestsOK
    <3>2. g <= next_gen
      BY <3>1, CurrentGeneration, PersistenceAssumption DEF next_gen, Gens
    <3> QED BY <1>15, <2>1, <2>2, <3>1, <3>2
  <2>4. CASE img[Manifest] = i
    <3>1. next_gen <= next_gen
      BY DEF Gens
    <3> QED BY <1>2, <1>15, <2>1, <2>2, <2>4, <3>1
  <2> QED BY <1>12, <2>3, <2>4
<1>17. FilesOK'
  BY <1>10, <1>14, <1>16 DEF FilesOK
<1>18. \A n \in DOMAIN dir \ {ManifestTmp, Manifest} :
         dir'[n] = dir[n] /\ inode'[dir'[n]] = inode[dir[n]]
  BY <1>1, <1>4, <1>5, <1>10, <1>11
<1>19. ASSUME NEW img \in images',
              NEW n, n # ManifestTmp, \A a \in images : n \in DOMAIN a
       PROVE  n \in DOMAIN img
  <2>1. n \in DOMAIN d
    BY <1>1, <1>5, <1>19
  <2> QED BY <1>10, <1>19, <2>1
<1> QED BY <1>5, <1>10, <1>11, <1>12, <1>15, <1>17, <1>18, <1>19

\* The machine comes back with one of the directories that may be found.
LEMMA OneOfImages ==
  ASSUME FilesOK, NEW img \in images, dir' = img, images' = {img},
         DOMAIN inode' = Range(img), inode' \in [Range(img) -> Inodes],
         \A n \in DOMAIN img : /\ inode'[img[n]].safe \subseteq inode[img[n]].safe
                               /\ inode'[img[n]].data \in inode'[img[n]].safe
  PROVE  FilesOK'
<1>1. DiskTypeOK /\ OneName /\ ManifestsOK /\ IsDirectory(img)
  BY DEF FilesOK, DiskTypeOK
<1>2. \A n \in DOMAIN img : img[n] \in DOMAIN inode /\ n \in FileNames
  BY <1>1, EntriesKnown
<1>3. IsFiniteSet(DOMAIN inode')
  <2>1. Range(img) \subseteq DOMAIN inode
    BY <1>2 DEF Range
  <2> QED BY <1>1, <2>1, FS_Subset DEF DiskTypeOK
<1>4. FileTypeOK'
  <2>1. \A i \in DOMAIN inode' : \E n \in DOMAIN img : i = img[n]
    BY DEF Range
  <2>2. \A i \in DOMAIN inode' : /\ inode'[i].data \in inode'[i].safe
                                 /\ inode'[i].safe \subseteq FileContents
    BY <2>1 DEF Inodes
  <2>3. DOMAIN inode' = InUse(images' \cup {dir'})
    BY DEF InUse
  <2>4. \A a \in images' \cup {dir'} : DOMAIN a \subseteq FileNames /\ IsInjective(a)
    BY <1>1 DEF IsDirectory
  <2> QED BY <2>2, <2>3, <2>4 DEF FileTypeOK, FileNames, FileContents
<1>5. DiskTypeOK'
  BY <1>1, <1>3, <1>4 DEF DiskTypeOK
<1>6. OneName'
  BY <1>1 DEF OneName
<1>7. ManifestsOK'
  <2> SUFFICES ASSUME Manifest \in DOMAIN img
               PROVE  /\ \E g \in Gens : inode'[img[Manifest]].safe = {g} /\ g <= current_gen'
                      /\ ManifestTmp \in DOMAIN img => img[ManifestTmp] # img[Manifest]
    BY DEF ManifestsOK, Exists
  <2>1. PICK g \in Gens : inode[img[Manifest]].safe = {g}
    BY <1>1 DEF ManifestsOK
  <2>2. inode'[img[Manifest]].safe = {g} /\ inode'[img[Manifest]].data = g
    BY <2>1
  <2>3. current_gen' = g /\ g <= g
    BY <2>2 DEF current_gen, Exists, Read, Gens
  <2>4. ManifestTmp \in DOMAIN img => img[ManifestTmp] # img[Manifest]
    BY <1>1, NamesDiffer DEF IsDirectory, IsInjective
  <2> QED BY <2>2, <2>3, <2>4
<1> QED BY <1>5, <1>6, <1>7 DEF FilesOK

\* fsync of the directory
LEMMA SyncDirectoryOK ==
  ASSUME FilesOK, SyncDirectory
  PROVE  /\ FilesOK' /\ current_gen' = current_gen
         /\ dir' = dir /\ images' = {dir} /\ dir \in images
         /\ \A n \in DOMAIN dir : inode'[dir[n]] = inode[dir[n]]
<1>1. DiskTypeOK /\ dir \in images
  BY DEF FilesOK, DiskTypeOK
<1>2. /\ dir' = dir /\ images' = {dir} /\ DOMAIN inode' = Range(dir)
      /\ inode' = [i \in Range(dir) |-> inode[i]]
  BY DEF SyncDirectory, Restrict
<1>3. \A n \in DOMAIN dir : dir[n] \in DOMAIN inode /\ dir[n] \in Range(dir)
  BY <1>1, EntriesKnown DEF Range
<1>4. \A i \in Range(dir) : i \in DOMAIN inode /\ inode[i] \in Inodes
                            /\ inode[i].data \in inode[i].safe
  BY <1>1, <1>3 DEF Range, DiskTypeOK, FileTypeOK
<1>5. \A n \in DOMAIN dir : inode'[dir[n]] = inode[dir[n]]
  BY <1>2, <1>3
<1>6. inode' \in [Range(dir) -> Inodes]
  BY <1>2, <1>4
<1>7. \A n \in DOMAIN dir : /\ inode'[dir[n]].safe \subseteq inode[dir[n]].safe
                            /\ inode'[dir[n]].data \in inode'[dir[n]].safe
  BY <1>3, <1>4, <1>5
<1>8. FilesOK'
  BY <1>1, <1>2, <1>6, <1>7, OneOfImages
<1>9. current_gen' = current_gen
  BY <1>2, <1>5 DEF current_gen, Exists, Read
<1> QED BY <1>1, <1>2, <1>5, <1>8, <1>9

\* A power loss leaves one of the directories, and safe contents.
LEMMA LosePowerOK ==
  ASSUME FilesOK, LosePower
  PROVE  /\ FilesOK' /\ dir' \in images /\ images' = {dir'}
         /\ \A n \in DOMAIN dir' :
              /\ inode'[dir'[n]].safe \subseteq inode[dir'[n]].safe
              /\ inode'[dir'[n]].safe # {}
<1>1. DiskTypeOK
  BY DEF FilesOK
<1> DEFINE unsure(img) == {i \in Range(img) : Cardinality(inode[i].safe) > 1}
<1>2. PICK img \in images :
        \E left \in {f \in [unsure(img) -> FileContents] :
                       \A i \in unsure(img) : f[i] \in inode[i].safe} :
          /\ dir' = img /\ images' = {img}
          /\ inode' = [i \in Range(img) |->
               LET c == IF i \in unsure(img) THEN left[i] ELSE inode[i].data
               IN  [data |-> c, safe |-> {c}]]
  BY DEF LosePower, FileContents
<1>3. PICK left \in {f \in [unsure(img) -> FileContents] :
                       \A i \in unsure(img) : f[i] \in inode[i].safe} :
          /\ dir' = img /\ images' = {img}
          /\ inode' = [i \in Range(img) |->
               LET c == IF i \in unsure(img) THEN left[i] ELSE inode[i].data
               IN  [data |-> c, safe |-> {c}]]
  BY <1>2
<1>4. \A i \in Range(img) : /\ i \in DOMAIN inode /\ inode[i] \in Inodes
                            /\ inode[i].data \in inode[i].safe
  BY <1>1, EntriesKnown DEF Range, DiskTypeOK, FileTypeOK
<1>5. \A i \in Range(img) : \E c \in inode[i].safe : inode'[i] = [data |-> c, safe |-> {c}]
  BY <1>3, <1>4
<1>6. inode' \in [Range(img) -> Inodes] /\ DOMAIN inode' = Range(img)
  <2> DEFINE content(i) == IF i \in unsure(img) THEN left[i] ELSE inode[i].data
  <2>1. inode' = [i \in Range(img) |-> [data |-> content(i), safe |-> {content(i)}]]
    BY <1>3
  <2> HIDE DEF content
  <2>2. DOMAIN inode' = Range(img) /\ inode' = [i \in Range(img) |-> inode'[i]]
    BY <2>1
  <2>3. ASSUME NEW i \in Range(img) PROVE inode'[i] \in Inodes
    <3>1. PICK c \in inode[i].safe : inode'[i] = [data |-> c, safe |-> {c}]
      BY <1>5
    <3>2. inode[i].safe \subseteq FileContents
      BY <1>4 DEF Inodes
    <3> QED BY <3>1, <3>2 DEF Inodes
  <2> QED BY <2>2, <2>3
<1>7. ASSUME NEW n \in DOMAIN img
      PROVE  /\ inode'[img[n]].safe \subseteq inode[img[n]].safe
             /\ inode'[img[n]].data \in inode'[img[n]].safe
  <2>1. img[n] \in Range(img)
    BY DEF Range
  <2>2. PICK c \in inode[img[n]].safe : inode'[img[n]] = [data |-> c, safe |-> {c}]
    BY <1>5, <2>1
  <2> QED BY <2>2
<1>8. FilesOK'
  BY <1>3, <1>6, <1>7, OneOfImages
<1> QED BY <1>3, <1>7, <1>8
-----------------------------------------------------------------------------
LEMMA IndInit == Init => IndInv
<1> SUFFICES ASSUME Init PROVE IndInv
  OBVIOUS
<1>1. /\ DOMAIN dir = {} /\ images = {dir} /\ DOMAIN inode = {}
      /\ dir = [n \in {} |-> 0] /\ inode = [i \in {} |-> 0]
  BY DEF Init, FileInit
<1>2. IsDirectory(dir)
  BY <1>1 DEF IsDirectory, IsInjective
<1>3. FileTypeOK
  BY <1>1, <1>2 DEF FileTypeOK, InUse, Range, IsDirectory, FileNames
<1>4. inode \in [DOMAIN inode -> Inodes] /\ IsFiniteSet(DOMAIN inode)
  BY <1>1, FS_EmptySet
<1>5. FilesOK
  BY <1>1, <1>2, <1>3, <1>4 DEF FilesOK, DiskTypeOK, OneName, ManifestsOK
<1>6. TypeOK
  BY <1>3, PersistenceAssumption DEF Init, TypeOK
<1> QED
  BY <1>1, <1>5, <1>6
  DEF Init, IndInv, ControlOK, BootstrapOK, MaterialiseOK, Materialising, PublishedOK,
      GenerationsOK, Named

\* A step that makes no system call keeps all of the files.
LEMMA FilesUnchanged ==
  ASSUME FilesOK, UNCHANGED files
  PROVE  FilesOK' /\ current_gen' = current_gen
<1>1. dir' = dir /\ images' = images /\ inode' = inode
  BY DEF files
<1>2. current_gen' = current_gen
  BY <1>1 DEF current_gen, Exists, Read
<1>3. FileTypeOK => FileTypeOK'
  BY <1>1 DEF FileTypeOK
<1>4. DiskTypeOK'
  BY <1>1, <1>3 DEF FilesOK, DiskTypeOK
<1>5. OneName' /\ ManifestsOK'
  BY <1>1, <1>2 DEF FilesOK, OneName, ManifestsOK, Exists
<1> QED BY <1>2, <1>4, <1>5 DEF FilesOK

LEMMA GenerationsUnchanged ==
  ASSUME IndInv, UNCHANGED files
  PROVE  GenerationsOK'
  BY DEF IndInv, GenerationsOK, Named, files

\* Files that are touched are not those of a generation that may be found.
LEMMA GenerationsTouch ==
  ASSUME IndInv, NEW name, Touches(name), name # Manifest,
         \A g \in Gens : Named(g) => name \notin {Snapshot(g), Aof(g)}
  PROVE  GenerationsOK'
<1> SUFFICES ASSUME NEW g \in Gens, Named(g)'
             PROVE  \E s \in Stores : \A img \in images' :
                      /\ {Snapshot(g), Aof(g)} \subseteq DOMAIN img
                      /\ inode'[img[Snapshot(g)]].safe = {s}
  BY DEF GenerationsOK
<1>1. Named(g)
  <2>1. PICK img \in images' : Manifest \in DOMAIN img /\ inode'[img[Manifest]].safe = {g}
    BY DEF Named
  <2>2. PICK a \in images : Manifest \in DOMAIN a /\ a[Manifest] = img[Manifest]
    BY <2>1 DEF Touches
  <2>3. inode'[a[Manifest]] = inode[a[Manifest]]
    BY <2>2 DEF Touches
  <2> QED BY <2>1, <2>2, <2>3 DEF Named
<1>2. PICK s \in Stores : \A img \in images :
        /\ {Snapshot(g), Aof(g)} \subseteq DOMAIN img
        /\ inode[img[Snapshot(g)]].safe = {s}
  BY <1>1 DEF IndInv, GenerationsOK
<1>3. name \notin {Snapshot(g), Aof(g)}
  BY <1>1
<1>4. ASSUME NEW img \in images'
      PROVE  /\ {Snapshot(g), Aof(g)} \subseteq DOMAIN img
             /\ inode'[img[Snapshot(g)]].safe = {s}
  <2>1. {Snapshot(g), Aof(g)} \subseteq DOMAIN img
    BY <1>2, <1>3 DEF Touches
  <2>2. PICK a \in images : /\ Snapshot(g) \in DOMAIN a
                            /\ a[Snapshot(g)] = img[Snapshot(g)]
    BY <1>3, <2>1 DEF Touches
  <2>3. inode'[a[Snapshot(g)]] = inode[a[Snapshot(g)]]
    BY <1>3, <2>2 DEF Touches
  <2> QED BY <1>2, <2>1, <2>2, <2>3
<1> QED BY <1>4

\* No directory has a manifest of a later generation than processes see.
LEMMA NamedNotLater ==
  ASSUME IndInv, NEW g \in Gens, Named(g)
  PROVE  g <= current_gen /\ Exists(Manifest)
<1>1. PICK img \in images : Manifest \in DOMAIN img /\ inode[img[Manifest]].safe = {g}
  BY DEF Named
<1>2. PICK h \in Gens : inode[img[Manifest]].safe = {h} /\ h <= current_gen
  BY <1>1 DEF IndInv, FilesOK, ManifestsOK
<1>3. g = h
  BY <1>1, <1>2
<1> QED BY <1>2, <1>3, CurrentGeneration DEF IndInv, Gens

\* Where the process is, and whether it has a store.
Place ==
  /\ live \in Stores \cup {NoStore}
  /\ live = NoStore <=> \/ pc \in {"down", "recover", "load_init", "load"}
                         \/ then \in {"mark", "load"}
  /\ faults \in 0 .. MaxFaults
  /\ ControlOK

\* The types follow from where the process is and from the files.
LEMMA PlaceTypeOK == Place /\ FilesOK => TypeOK
  BY DEF Place, ControlOK, TypeOK, FilesOK, DiskTypeOK

LEMMA IndPlace == IndInv => Place /\ FilesOK
  BY DEF IndInv, TypeOK, Place

\* A process that ends leaves nothing to be kept but the files.
LEMMA StopInv ==
  ASSUME IndInv, Stop, FilesOK', GenerationsOK', faults' \in 0 .. MaxFaults
  PROVE  IndInv'
<1>1. pc' = "down" /\ file' = "none" /\ then' = "down" /\ live' = NoStore
  BY DEF Stop, Goto
<1>2. Place'
  BY <1>1 DEF Place, ControlOK
<1>3. TypeOK'
  BY <1>2, PlaceTypeOK, PTL
<1> QED
  BY <1>1, <1>2, <1>3 DEF Place, IndInv, BootstrapOK, MaterialiseOK, Materialising, PublishedOK

\* Each action keeps IndInv; some say besides how they change the files.
LEMMA StartInv ==
  ASSUME IndInv, Start
  PROVE  IndInv'
<1>1. /\ pc = "down" /\ pc' = "recover" /\ file' = "none" /\ then' = "down"
      /\ UNCHANGED <<live, faults, files>>
  BY DEF Start, Goto
<1>2. Place /\ FilesOK /\ FilesOK' /\ GenerationsOK'
  BY <1>1, IndPlace, FilesUnchanged, GenerationsUnchanged
<1>3. Place'
  BY <1>1, <1>2 DEF Place, ControlOK
<1>4. TypeOK'
  BY <1>2, <1>3, PlaceTypeOK, PTL
<1> QED
  BY <1>1, <1>2, <1>3, <1>4
  DEF Place, IndInv, BootstrapOK, MaterialiseOK, Materialising, PublishedOK

LEMMA RecoverInv ==
  ASSUME IndInv, Recover
  PROVE  IndInv'
<1>1. /\ pc = "recover" /\ UNCHANGED <<faults, files>>
      /\ Place /\ FilesOK /\ FilesOK' /\ GenerationsOK'
  BY IndPlace, FilesUnchanged, GenerationsUnchanged DEF Recover
<1>2. CASE Stop
  BY <1>1, <1>2, StopInv DEF Place
<1>3. CASE ~Stop
  <2>1. /\ UNCHANGED live
        /\ \/ /\ pc' = "cleanup" /\ file' = "none" /\ then' = "mark"
              /\ ~Exists(Manifest) /\ Exists(Marker)
           \/ /\ pc' = "create" /\ file' = "marker" /\ then' = "mark"
              /\ ~Exists(Manifest) /\ ~Exists(Marker) /\ ~Leftovers
           \/ pc' = "unlink" /\ file' = "no_marker" /\ then' = "load" /\ Exists(Manifest)
           \/ pc' = "load" /\ file' = "none" /\ then' = "down"
    BY <1>3 DEF Recover, Goto
  <2>2. Place'
    BY <1>1, <2>1 DEF Place, ControlOK
  <2>3. TypeOK'
    BY <1>1, <2>2, PlaceTypeOK, PTL
  <2>4. ASSUME pc' = "create" PROVE DOMAIN dir = {}
    <3>1. ~Exists(Manifest) /\ ~Exists(Marker) /\ ~Leftovers
      BY <2>1, <2>4
    <3>2. DOMAIN dir \subseteq Artifacts \cup {Marker, Manifest}
      BY <1>1 DEF FilesOK, DiskTypeOK, FileTypeOK, FileNames
    <3> QED BY <3>1, <3>2 DEF Leftovers, Exists
  <2>5. BootstrapOK'
    BY <1>1, <2>1, <2>4 DEF BootstrapOK, Exists, files
  <2> QED
    BY <1>1, <2>1, <2>2, <2>3, <2>5
    DEF Place, IndInv, MaterialiseOK, Materialising, PublishedOK
<1> QED BY <1>2, <1>3

\* What clean-up may remove.
LEMMA StaleNotCurrent ==
  ASSUME NEW a \in Stale
  PROVE  a \in FileNames \ {Manifest, Marker} /\ a \notin CurrentFiles
<1>1. a \in Artifacts /\ (a = ManifestTmp \/ a[2] # current_gen)
  BY DEF Stale
<1>2. a # Snapshot(current_gen) /\ a # Aof(current_gen)
  <2>1. Snapshot(current_gen)[2] = current_gen /\ Aof(current_gen)[2] = current_gen
    BY DEF Snapshot, Aof
  <2> QED BY <1>1, <2>1, NamesDiffer
<1> QED BY <1>1, <1>2, NamesDiffer DEF FileNames, CurrentFiles

LEMMA CleanupOneInv ==
  ASSUME IndInv, CleanupOne
  PROVE  /\ IndInv' /\ UNCHANGED live
         /\ \E a \in FileNames \ {Manifest, Marker} :
              /\ Touches(a) /\ (Exists(Manifest) \/ Exists(Marker))
              /\ \A g \in Gens : Named(g) => a \notin {Snapshot(g), Aof(g)}
<1>1. /\ pc = "cleanup" /\ UNCHANGED <<pc, file, then, live, faults>>
      /\ Place /\ FilesOK
  BY IndPlace DEF CleanupOne
<1>2. PICK a \in Stale : Unlink(a)
  BY DEF CleanupOne
<1>3. a \in FileNames \ {Manifest, Marker} /\ a \notin CurrentFiles
  BY <1>2, StaleNotCurrent
<1>4. Touches(a)
  BY <1>1, <1>2, <1>3, UnlinkOK
<1>5. /\ FilesOK' /\ current_gen' = current_gen
      /\ DOMAIN dir' \ {a} = DOMAIN dir \ {a}
      /\ \A n \in DOMAIN dir \ {a} : dir'[n] = dir[n] /\ inode'[dir'[n]] = inode[dir[n]]
  BY <1>4 DEF Touches
<1>6. Place' /\ file = "none"
  BY <1>1 DEF Place, ControlOK
<1>7. TypeOK'
  BY <1>5, <1>6, PlaceTypeOK, PTL
<1>8. BootstrapOK'
  BY <1>1, <1>3, <1>5, <1>6 DEF IndInv, BootstrapOK, Exists
<1>9. PublishedOK'
  <2> SUFFICES ASSUME then # "mark"
               PROVE  /\ CurrentFiles' \subseteq DOMAIN dir'
                      /\ SafeIs(Snapshot(current_gen), live)'
                      /\ \A img \in images', n \in CurrentFiles' :
                           n \in DOMAIN img /\ img[n] = dir'[n]
    BY <1>1, <1>6 DEF PublishedOK
  <2>1. /\ CurrentFiles \subseteq DOMAIN dir /\ SafeIs(Snapshot(current_gen), live)
        /\ \A img \in images, n \in CurrentFiles : n \in DOMAIN img /\ img[n] = dir[n]
    BY <1>1 DEF IndInv, PublishedOK
  <2>2. CurrentFiles' = CurrentFiles
    BY <1>5 DEF CurrentFiles
  <2>3. CurrentFiles' \subseteq DOMAIN dir'
    BY <1>3, <1>5, <2>1, <2>2
  <2>4. SafeIs(Snapshot(current_gen), live)'
    <3>1. Snapshot(current_gen) \in CurrentFiles
      BY DEF CurrentFiles
    <3> QED BY <1>1, <1>3, <1>5, <2>1, <2>2, <3>1 DEF SafeIs, Exists
  <2>5. ASSUME NEW img \in images', NEW n \in CurrentFiles
        PROVE  n \in DOMAIN img /\ img[n] = dir'[n]
    <3>1. n # a /\ n \in DOMAIN dir
      BY <1>3, <2>1
    <3>2. n \in DOMAIN img
      BY <1>4, <2>1, <3>1 DEF Touches
    <3>3. \E b \in images : n \in DOMAIN b /\ b[n] = img[n]
      BY <1>4, <3>1, <3>2 DEF Touches
    <3> QED BY <1>5, <2>1, <3>1, <3>2, <3>3
  <2> QED BY <2>2, <2>3, <2>4, <2>5
<1>10. ASSUME NEW g \in Gens, Named(g)
       PROVE  a \notin {Snapshot(g), Aof(g)}
  <2>1. Exists(Manifest)
    BY <1>10, NamedNotLater
  <2>2. then # "mark"
    BY <2>1 DEF IndInv, BootstrapOK
  <2>3. PICK img \in images : Manifest \in DOMAIN img /\ inode[img[Manifest]].safe = {g}
    BY <1>10 DEF Named
  <2>4. img[Manifest] = dir[Manifest]
    BY <1>1, <2>2, <2>3 DEF IndInv, PublishedOK, CurrentFiles
  <2>5. inode[dir[Manifest]].safe = {current_gen}
    BY <1>1, <2>1, CurrentGeneration
  <2>6. g = current_gen
    BY <2>3, <2>4, <2>5
  <2> QED BY <1>3, <2>6 DEF CurrentFiles
<1>11. GenerationsOK'
  BY <1>3, <1>4, <1>10, GenerationsTouch
<1>12. Exists(Manifest) \/ Exists(Marker)
  BY <1>1 DEF IndInv, BootstrapOK, PublishedOK, CurrentFiles, Exists
<1>13. IndInv'
  BY <1>1, <1>5, <1>6, <1>7, <1>8, <1>9, <1>11
  DEF Place, IndInv, MaterialiseOK, Materialising
<1> QED BY <1>1, <1>3, <1>4, <1>10, <1>12, <1>13

\* Nothing stale is left of an interrupted bootstrap.
LEMMA AfterCleanupInv ==
  ASSUME IndInv, pc = "cleanup", AfterCleanup, UNCHANGED files,
         faults' \in 0 .. MaxFaults, Stale = {} \/ then # "mark"
  PROVE  IndInv'
<1>1. /\ Place /\ FilesOK /\ FilesOK' /\ GenerationsOK'
      /\ file = "none" /\ then \in {"mark", "down", "serving"}
  BY IndPlace, FilesUnchanged, GenerationsUnchanged DEF Place, ControlOK
<1>2. CASE then = "down"
  BY <1>1, <1>2, StopInv DEF AfterCleanup
<1>3. CASE then # "down"
  <2>1. /\ pc' = "unlink" /\ file' = "no_marker" /\ then' = then /\ live' = live
        /\ dir' = dir
    BY <1>3 DEF AfterCleanup, Goto, files
  <2>2. Place'
    BY <1>1, <1>3, <2>1 DEF Place, ControlOK
  <2>3. TypeOK'
    BY <1>1, <2>2, PlaceTypeOK, PTL
  <2>4. BootstrapOK'
    <3>1. CASE then = "mark"
      <4>1. ~Exists(Manifest) /\ Stale = {}
        BY <3>1 DEF IndInv, BootstrapOK
      <4>2. current_gen = 0
        BY <4>1 DEF current_gen
      <4>3. \A a \in Artifacts : a = ManifestTmp \/ a[2] # 0
        BY DEF Artifacts, Gens
      <4>4. \A a \in Artifacts : ~Exists(a)
        BY <4>1, <4>2, <4>3 DEF Stale
      <4>5. DOMAIN dir \subseteq FileNames
        BY <1>1 DEF FilesOK, DiskTypeOK, IsDirectory
      <4> QED BY <2>1, <3>1, <4>1, <4>4, <4>5 DEF BootstrapOK, Exists, FileNames
    <3>2. CASE then # "mark"
      BY <2>1, <3>2 DEF IndInv, PublishedOK, CurrentFiles, BootstrapOK, Exists
    <3> QED BY <3>1, <3>2
  <2> QED
    BY <1>1, <2>1, <2>2, <2>3, <2>4
    DEF Place, IndInv, MaterialiseOK, Materialising, PublishedOK
<1> QED BY <1>2, <1>3

LEMMA EndCleanupInv ==
  ASSUME IndInv, EndCleanup
  PROVE  IndInv'
<1>1. faults' \in 0 .. MaxFaults
  BY IndPlace DEF EndCleanup, Place
<1> QED BY <1>1, AfterCleanupInv DEF EndCleanup
-----------------------------------------------------------------------------
LEMMA TouchKeeps ==
  ASSUME NEW name, Touches(name), NEW n, n # name
  PROVE  /\ Exists(n) <=> n \in DOMAIN dir'
         /\ Exists(n) => inode'[dir'[n]] = inode[dir[n]]
  BY DEF Touches, Exists

\* The file that is being written is none of those in use.
LEMMA PathName ==
  ASSUME IndInv, Materialising
  PROVE  /\ next_gen \in Gens
         /\ Path \in FileNames \ {Manifest, Marker}
         /\ Path = CASE file = "snapshot" -> Snapshot(next_gen)
                     [] file = "aof" -> Aof(next_gen)
                     [] OTHER -> ManifestTmp
         /\ Payload = IF file = "snapshot" THEN live ELSE next_gen
         /\ live \in Stores
<1>1. next_gen \in Gens
  BY DEF IndInv, MaterialiseOK
<1>2. Path = CASE file = "snapshot" -> Snapshot(next_gen)
               [] file = "aof" -> Aof(next_gen)
               [] OTHER -> ManifestTmp
  BY DEF Path
<1>3. {Snapshot(next_gen), Aof(next_gen), ManifestTmp} \subseteq Artifacts
  BY <1>1, NamesDiffer DEF Artifacts
<1>4. Path \in Artifacts
  BY <1>2, <1>3 DEF Materialising
<1>5. live \in Stores
  BY IndPlace DEF Place, ControlOK, Materialising
<1> QED BY <1>1, <1>2, <1>4, <1>5, NamesDiffer DEF FileNames, Payload

\* The next generation's files, and the temp manifest, are not in use.
LEMMA PathNotNamed ==
  ASSUME IndInv, Materialising, NEW g \in Gens, Named(g)
  PROVE  Path \notin {Snapshot(g), Aof(g)}
<1>1. g # next_gen
  BY NamedNotLater, CurrentGeneration, PersistenceAssumption DEF IndInv, next_gen, Gens
<1> QED BY <1>1, PathName, NamesDiffer DEF Materialising

\* A call of materialisation on its file leaves what the earlier ones did.
LEMMA MaterialiseInv ==
  ASSUME IndInv, Materialising, Touches(Path), Path \in DOMAIN dir',
         UNCHANGED <<file, then, live, faults>>,
         \/ pc = "open" /\ pc' = IF file = "aof" THEN "sync" ELSE "write"
         \/ pc = "write" /\ pc' = "sync" /\ inode'[dir'[Path]].data = Payload
         \/ /\ pc = "sync" /\ pc' = AfterSync
            /\ file # "aof" => inode'[dir'[Path]].safe = {Payload}
  PROVE  IndInv'
<1> DEFINE g == next_gen
<1>1. Place /\ FilesOK /\ MaterialiseOK
  BY IndPlace DEF IndInv
<1>2. FilesOK' /\ current_gen' = current_gen /\ next_gen' = g
  BY DEF Touches, next_gen
<1>3. Place'
  BY <1>1 DEF Place, ControlOK, Materialising, AfterSync
<1>4. TypeOK'
  BY <1>2, <1>3, PlaceTypeOK, PTL
<1>5. BootstrapOK'
  BY <1>1, <1>3 DEF Place, ControlOK, BootstrapOK, Materialising, AfterSync
<1>6. PublishedOK'
  BY <1>1, <1>3 DEF Place, ControlOK, PublishedOK, Materialising, AfterSync
<1>7. /\ Exists(Manifest) \/ Exists(Marker) => (Exists(Manifest) \/ Exists(Marker))'
      /\ g \in Gens /\ live \in Stores
  BY PathName, TouchKeeps DEF Exists
<1>8. GenerationsOK'
  BY PathName, PathNotNamed, GenerationsTouch
<1>9. \A n : n # Path /\ InAll(n) => InAll(n)'
  <2> SUFFICES ASSUME NEW n, n # Path, InAll(n) PROVE InAll(n)'
    OBVIOUS
  <2>1. /\ n \in DOMAIN dir /\ \A img \in images : n \in DOMAIN img /\ img[n] = dir[n]
    BY DEF InAll, Exists
  <2>2. n \in DOMAIN dir' /\ dir'[n] = dir[n]
    BY <2>1 DEF Touches
  <2>3. ASSUME NEW img \in images' PROVE n \in DOMAIN img /\ img[n] = dir'[n]
    <3>1. n \in DOMAIN img
      BY <2>1 DEF Touches
    <3>2. \E a \in images : n \in DOMAIN a /\ a[n] = img[n]
      BY <3>1 DEF Touches
    <3> QED BY <2>1, <2>2, <3>1, <3>2
  <2> QED BY <2>2, <2>3 DEF InAll, Exists
<1>10. MaterialiseOK'
  <2>1. CASE file = "snapshot"
    <3>1. Path = Snapshot(g) /\ Payload = live
      BY <2>1, PathName
    <3> QED
      BY <1>1, <1>2, <1>7, <2>1, <3>1
      DEF MaterialiseOK, Materialising, SafeIs, Exists, Read, AfterSync
  <2>2. CASE file # "snapshot"
    <3>1. Path # Snapshot(g) /\ Path \in {Aof(g), ManifestTmp} /\ Payload = g
      BY <2>2, PathName, NamesDiffer DEF Materialising
    <3>2. /\ SafeIs(Snapshot(g), live) /\ SafeIs(Snapshot(g), live)'
          /\ InAll(Snapshot(g))'
      <4>1. SafeIs(Snapshot(g), live) /\ InAll(Snapshot(g))
        BY <1>1, <2>2 DEF MaterialiseOK
      <4> HIDE DEF g
      <4>2. g' = g /\ Snapshot(g)' = Snapshot(g)
        BY <1>2 DEF g, Snapshot
      <4>3. SafeIs(Snapshot(g), live)'
        BY <3>1, <4>1, <4>2, TouchKeeps DEF SafeIs, Exists, Snapshot
      <4>4. InAll(Snapshot(g))'
        BY <1>9, <3>1, <4>1, <4>2 DEF InAll, Exists
      <4> QED BY <4>1, <4>3, <4>4
    <3>3. CASE file = "aof"
      <4>1. Path = Aof(g)
        BY <3>3, PathName
      <4> QED
        BY <1>1, <1>2, <1>7, <2>2, <3>2, <3>3, <4>1
        DEF MaterialiseOK, Materialising, Exists, AfterSync
    <3>4. CASE file = "manifest_tmp"
      <4>1. Path = ManifestTmp /\ Aof(g) # ManifestTmp
        BY <3>4, PathName, NamesDiffer
      <4>2. /\ Exists(Aof(g)) /\ Aof(g) \in DOMAIN dir'
            /\ InAll(Aof(g))'
        <5>1. Exists(Aof(g)) /\ InAll(Aof(g))
          BY <1>1, <3>4 DEF MaterialiseOK, Materialising
        <5> HIDE DEF g
        <5>2. Aof(g)' = Aof(g)
          BY <1>2 DEF g, Aof
        <5>3. InAll(Aof(g))'
          BY <1>9, <4>1, <5>1, <5>2 DEF InAll, Exists
        <5> QED BY <4>1, <5>1, <5>3, TouchKeeps
      <4> QED
        BY <1>1, <1>2, <1>7, <2>2, <3>1, <3>2, <3>4, <4>1, <4>2
        DEF MaterialiseOK, Materialising, Exists, Read, SafeIs, AfterSync
    <3> QED BY <2>2, <3>3, <3>4 DEF Materialising
  <2> QED BY <2>1, <2>2
<1> QED BY <1>2, <1>3, <1>4, <1>5, <1>6, <1>8, <1>10 DEF Place, IndInv

LEMMA OpenInv ==
  ASSUME IndInv, Open
  PROVE  IndInv' /\ Touches(Path) /\ Materialising
<1>1. Materialising
  BY IndPlace DEF Open, Place, ControlOK, Materialising
<1>2. Path \in FileNames \ {Manifest}
  BY <1>1, PathName
<1>3. Touches(Path) /\ Path \in DOMAIN dir'
  BY <1>2, IndPlace, OpenOK DEF Open
<1> QED BY <1>1, <1>3, MaterialiseInv DEF Open

LEMMA WriteInv ==
  ASSUME IndInv, Write
  PROVE  IndInv' /\ Touches(Path) /\ Materialising
<1>1. Materialising
  BY IndPlace DEF Write, Place, ControlOK, Materialising
<1>2. Path \in DOMAIN dir \ {Manifest}
  BY <1>1, PathName, IndPlace
  DEF IndInv, MaterialiseOK, Write, Exists, Place, ControlOK
<1>3. Payload \in FileContents
  BY <1>1, PathName DEF FileContents
<1>4. /\ Touches(Path) /\ Path \in DOMAIN dir'
      /\ inode'[dir'[Path]].data = Payload
  BY <1>2, <1>3, IndPlace, WriteOK DEF Write
<1> QED BY <1>1, <1>4, MaterialiseInv DEF Write

LEMMA SyncInv ==
  ASSUME IndInv, Sync
  PROVE  IndInv' /\ Touches(Path) /\ Materialising
<1>1. Materialising
  BY IndPlace DEF Sync, Place, ControlOK, Materialising
<1>2. Path \in DOMAIN dir \ {Manifest}
  BY <1>1, PathName DEF IndInv, MaterialiseOK, Sync, Exists, Materialising
<1>3. /\ Touches(Path) /\ Path \in DOMAIN dir'
      /\ inode'[dir'[Path]].safe = {inode[dir[Path]].data}
  BY <1>2, IndPlace, SyncOK DEF Sync
<1>4. file # "aof" => inode[dir[Path]].data = Payload
  BY <1>1, PathName DEF IndInv, MaterialiseOK, Sync, Read, Materialising
<1> QED BY <1>1, <1>3, <1>4, MaterialiseInv DEF Sync

LEMMA CreateMarkerInv ==
  ASSUME IndInv, CreateMarker
  PROVE  IndInv' /\ Touches(Marker) /\ Marker \in DOMAIN dir'
<1>1. /\ pc = "create" /\ pc' = "syncdir" /\ UNCHANGED <<file, then, live, faults>>
      /\ Place /\ FilesOK /\ OpenForWriting(Marker)
  BY IndPlace DEF CreateMarker
<1>2. Marker \in FileNames \ {Manifest} /\ Marker # Manifest
  BY NamesDiffer DEF FileNames
<1>3. Touches(Marker) /\ Marker \in DOMAIN dir' /\ FilesOK'
  BY <1>1, <1>2, OpenOK DEF Touches
<1>4. file = "marker" /\ then = "mark" /\ Place'
  BY <1>1 DEF Place, ControlOK
<1>5. TypeOK'
  BY <1>3, <1>4, PlaceTypeOK, PTL
<1>6. BootstrapOK'
  BY <1>1, <1>2, <1>3, <1>4, TouchKeeps DEF IndInv, BootstrapOK, Exists
<1>7. GenerationsOK'
  BY <1>2, <1>3, NamesDiffer, GenerationsTouch
<1> QED
  BY <1>1, <1>3, <1>4, <1>5, <1>6, <1>7
  DEF Place, IndInv, MaterialiseOK, Materialising, PublishedOK

LEMMA UnlinkMarkerInv ==
  ASSUME IndInv, UnlinkMarker
  PROVE  /\ IndInv' /\ Touches(Marker)
         /\ Exists(Manifest) \/ DOMAIN dir' = {}
<1>1. /\ pc = "unlink" /\ pc' = "syncdir" /\ file' = "no_marker" /\ then' = then
      /\ UNCHANGED <<live, faults>>
      /\ Place /\ FilesOK /\ Unlink(Marker)
  BY IndPlace DEF UnlinkMarker, Goto
<1>2. Marker \in FileNames \ {Manifest} /\ Marker # Manifest
  BY NamesDiffer DEF FileNames
<1>3. /\ Touches(Marker) /\ FilesOK'
      /\ DOMAIN dir' = DOMAIN dir \ {Marker}
  BY <1>1, <1>2, UnlinkOK DEF Touches
<1>4. file = "no_marker" /\ then \in {"mark", "load", "serving"} /\ Place'
  BY <1>1 DEF Place, ControlOK
<1>5. TypeOK'
  BY <1>3, <1>4, PlaceTypeOK, PTL
<1>6. BootstrapOK'
  BY <1>1, <1>2, <1>3, <1>4 DEF IndInv, BootstrapOK, Exists
<1>7. GenerationsOK'
  BY <1>2, <1>3, NamesDiffer, GenerationsTouch
<1>8. Exists(Manifest) \/ DOMAIN dir' = {}
  <2>1. CASE then = "mark"
    BY <1>1, <1>3, <1>4, <1>6, <2>1 DEF BootstrapOK
  <2>2. CASE then # "mark"
    BY <1>1, <1>2, <1>3, <1>4, <1>6, <2>2 DEF BootstrapOK, Exists
  <2> QED BY <2>1, <2>2
<1> QED
  BY <1>1, <1>3, <1>4, <1>5, <1>6, <1>7, <1>8
  DEF Place, IndInv, MaterialiseOK, Materialising, PublishedOK

LEMMA RenameInv ==
  ASSUME IndInv, RenameManifest
  PROVE  /\ IndInv' /\ FilesOK /\ next_gen \in Gens
         /\ SafeIs(ManifestTmp, next_gen) /\ SafeIs(Snapshot(next_gen), live)
         /\ Exists(Aof(next_gen)) /\ live \in Stores
<1> DEFINE g == next_gen
<1>1. /\ pc = "rename" /\ pc' = "syncdir" /\ file' = "manifest" /\ then' = then
      /\ UNCHANGED <<live, faults>>
      /\ Place /\ FilesOK /\ Rename(ManifestTmp, Manifest)
  BY IndPlace DEF RenameManifest, Goto
<1>2. file = "manifest_tmp" /\ then \in {"down", "serving"} /\ Place' /\ Materialising
  BY <1>1 DEF Place, ControlOK, Materialising
<1>3. /\ next_gen \in Gens /\ SafeIs(ManifestTmp, next_gen)
      /\ SafeIs(Snapshot(g), live) /\ Exists(Aof(g)) /\ live \in Stores
  BY <1>1, <1>2, PathName DEF IndInv, MaterialiseOK
<1>4. /\ FilesOK' /\ current_gen' = g
      /\ DOMAIN dir' = (DOMAIN dir \ {ManifestTmp}) \cup {Manifest}
      /\ \A n \in DOMAIN dir \ {ManifestTmp, Manifest} :
           dir'[n] = dir[n] /\ inode'[dir'[n]] = inode[dir[n]]
  BY <1>1, <1>3, RenameOK
<1>5. TypeOK'
  BY <1>2, <1>4, PlaceTypeOK, PTL
<1>6. BootstrapOK'
  BY <1>1, <1>2 DEF BootstrapOK
<1>7. GenerationsOK'
  <2> SUFFICES ASSUME NEW h \in Gens, Named(h)'
               PROVE  \E s \in Stores : \A img \in images' :
                        /\ {Snapshot(h), Aof(h)} \subseteq DOMAIN img
                        /\ inode'[img[Snapshot(h)]].safe = {s}
    BY DEF GenerationsOK
  <2>1. \A img \in images' :
          /\ \A n \in DOMAIN img :
               /\ inode'[img[n]] = inode[img[n]]
               /\ \/ \E a \in images : n \in DOMAIN a /\ a[n] = img[n]
                  \/ n = Manifest /\ img[n] = dir[ManifestTmp]
          /\ \A n : n # ManifestTmp /\ (\A a \in images : n \in DOMAIN a) =>
                   n \in DOMAIN img
    BY <1>1, <1>3, RenameOK
  <2>2. PICK img \in images' : Manifest \in DOMAIN img /\ inode'[img[Manifest]].safe = {h}
    BY DEF Named
  <2>3. \E s \in Stores : \A a \in images :
          /\ {Snapshot(h), Aof(h)} \subseteq DOMAIN a
          /\ inode[a[Snapshot(h)]].safe = {s}
    <3>1. CASE \E a \in images : Manifest \in DOMAIN a /\ a[Manifest] = img[Manifest]
      <4>1. Named(h)
        BY <2>1, <2>2, <3>1 DEF Named
      <4> QED BY <4>1 DEF IndInv, GenerationsOK
    <3>2. CASE img[Manifest] = dir[ManifestTmp]
      <4>1. h = g
        BY <1>3, <2>1, <2>2, <3>2 DEF SafeIs
      <4>2. InAll(Snapshot(g)) /\ InAll(Aof(g))
        BY <1>2 DEF IndInv, MaterialiseOK
      <4> HIDE DEF g
      <4> QED BY <1>3, <4>1, <4>2 DEF InAll, SafeIs
    <3> QED BY <2>1, <2>2, <3>1, <3>2
  <2>4. PICK s \in Stores : \A a \in images :
          /\ {Snapshot(h), Aof(h)} \subseteq DOMAIN a
          /\ inode[a[Snapshot(h)]].safe = {s}
    BY <2>3
  <2>5. ASSUME NEW b \in images'
        PROVE  /\ {Snapshot(h), Aof(h)} \subseteq DOMAIN b
               /\ inode'[b[Snapshot(h)]].safe = {s}
    <3>1. {Snapshot(h), Aof(h)} \subseteq DOMAIN b
      BY <2>1, <2>4, NamesDiffer
    <3>2. PICK a \in images : /\ Snapshot(h) \in DOMAIN a
                              /\ a[Snapshot(h)] = b[Snapshot(h)]
      BY <2>1, <3>1, NamesDiffer
    <3> QED BY <2>1, <2>4, <3>1, <3>2
  <2> QED BY <2>5
<1>8. PublishedOK'
  <2> HIDE DEF g
  <2>1. /\ {Snapshot(g), Aof(g)} \subseteq DOMAIN dir \ {ManifestTmp, Manifest}
    BY <1>3, NamesDiffer DEF SafeIs, Exists
  <2>2. CurrentFiles' = {Manifest, Snapshot(g), Aof(g)}
    BY <1>4 DEF CurrentFiles, Snapshot, Aof, Manifest
  <2>3. CurrentFiles' \subseteq DOMAIN dir'
    BY <1>4, <2>1, <2>2
  <2>4. Snapshot(current_gen)' = Snapshot(g)
    BY <1>4 DEF Snapshot
  <2>5. SafeIs(Snapshot(current_gen), live)'
    BY <1>1, <1>3, <1>4, <2>1, <2>4 DEF SafeIs, Exists
  <2> QED BY <1>1, <2>3, <2>5 DEF PublishedOK
<1> QED
  BY <1>1, <1>2, <1>3, <1>4, <1>5, <1>6, <1>7, <1>8
  DEF Place, IndInv, MaterialiseOK, Materialising

LEMMA SyncDirInv ==
  ASSUME IndInv, SyncDir
  PROVE  IndInv'
<1>1. /\ pc = "syncdir" /\ UNCHANGED <<live, faults>> /\ AfterSyncDir
      /\ Place /\ FilesOK /\ SyncDirectory
  BY IndPlace DEF SyncDir
<1>2. /\ FilesOK' /\ current_gen' = current_gen /\ dir' = dir /\ images' = {dir}
      /\ \A n \in DOMAIN dir : inode'[dir[n]] = inode[dir[n]]
  BY <1>1, SyncDirectoryOK
<1>3. Place'
  BY <1>1 DEF Place, ControlOK, AfterSyncDir, AfterUnmark, Goto, Serve
<1>4. TypeOK'
  BY <1>2, <1>3, PlaceTypeOK, PTL
<1>5. BootstrapOK'
  BY <1>1, <1>2
  DEF IndInv, BootstrapOK, Exists, Place, ControlOK, AfterSyncDir, AfterUnmark,
      Goto, Serve
<1>6. MaterialiseOK'
  <2> SUFFICES ASSUME Materialising' PROVE MaterialiseOK'
    BY DEF MaterialiseOK
  <2>1. \/ file = "snapshot" /\ pc' = "open" /\ file' = "aof"
        \/ file = "aof" /\ pc' = "open" /\ file' = "manifest_tmp"
    BY <1>1 DEF Materialising, Place, ControlOK, AfterSyncDir, AfterUnmark, Goto, Serve
  <2>2. next_gen' = next_gen
    BY <1>2 DEF next_gen
  <2>3. \A n, c : SafeIs(n, c) => SafeIs(n, c)'
    BY <1>2 DEF SafeIs, Exists
  <2>4. MaterialiseOK /\ Materialising
    BY <2>1 DEF IndInv, Materialising
  <2>5. Snapshot(next_gen)' = Snapshot(next_gen) /\ Aof(next_gen)' = Aof(next_gen)
    BY <2>2 DEF Snapshot, Aof
  <2>6. SafeIs(Snapshot(next_gen), live)'
    <3>1. SafeIs(Snapshot(next_gen), live)
      BY <1>1, <2>1, <2>4 DEF MaterialiseOK
    <3> QED BY <1>1, <1>2, <2>5, <3>1 DEF SafeIs, Exists
  <2>7. /\ next_gen' \in Gens /\ (Exists(Manifest) \/ Exists(Marker))'
        /\ file = "aof" => Exists(Aof(next_gen))'
    BY <1>1, <1>2, <2>2, <2>4, <2>5 DEF MaterialiseOK, Exists
  <2>8. InAll(Snapshot(next_gen))' /\ (file = "aof" => InAll(Aof(next_gen))')
    <3>1. Exists(Snapshot(next_gen)) /\ (file = "aof" => Exists(Aof(next_gen)))
      BY <1>1, <2>1, <2>4 DEF MaterialiseOK, SafeIs
    <3> QED BY <1>2, <2>5, <3>1 DEF InAll, Exists
  <2> QED BY <2>1, <2>6, <2>7, <2>8 DEF MaterialiseOK
<1>7. GenerationsOK'
  <2> SUFFICES ASSUME NEW h \in Gens, Named(h)'
               PROVE  \E s \in Stores :
                        /\ {Snapshot(h), Aof(h)} \subseteq DOMAIN dir
                        /\ inode'[dir[Snapshot(h)]].safe = {s}
    BY <1>2 DEF GenerationsOK
  <2>1. dir \in images
    BY <1>1 DEF FilesOK, DiskTypeOK
  <2>2. Named(h)
    BY <1>2, <2>1 DEF Named
  <2> QED BY <1>2, <2>1, <2>2 DEF IndInv, GenerationsOK
<1>8. PublishedOK'
  <2>1. file' # "manifest"
    BY <1>1 DEF Place, ControlOK, AfterSyncDir, AfterUnmark, Goto, Serve
  <2> SUFFICES ASSUME pc' = "cleanup", then' # "mark"
               PROVE  /\ CurrentFiles' \subseteq DOMAIN dir'
                      /\ SafeIs(Snapshot(current_gen), live)'
                      /\ \A img \in images', n \in CurrentFiles' :
                           n \in DOMAIN img /\ img[n] = dir'[n]
    BY <2>1 DEF PublishedOK
  <2>2. file = "manifest"
    BY <1>1 DEF Place, ControlOK, AfterSyncDir, AfterUnmark, Goto, Serve
  <2>3. CurrentFiles \subseteq DOMAIN dir /\ SafeIs(Snapshot(current_gen), live)
    BY <2>2 DEF IndInv, PublishedOK
  <2>4. CurrentFiles' = CurrentFiles /\ Snapshot(current_gen)' = Snapshot(current_gen)
    BY <1>2 DEF CurrentFiles, Snapshot, Aof, Manifest
  <2>5. SafeIs(Snapshot(current_gen), live)'
    BY <1>1, <1>2, <2>3, <2>4 DEF SafeIs, Exists
  <2> QED BY <1>2, <2>3, <2>4, <2>5
<1> QED BY <1>1, <1>2, <1>3, <1>4, <1>5, <1>6, <1>7, <1>8 DEF Place, IndInv

LEMMA LoadInitInv ==
  ASSUME IndInv, LoadInit
  PROVE  IndInv' /\ ~Exists(Manifest) /\ Exists(Marker) /\ live = NoStore
<1>1. /\ pc = "load_init" /\ live' = InitStore /\ UNCHANGED <<faults, files>>
      /\ pc' = "open" /\ file' = "snapshot" /\ then' = "serving"
      /\ Place /\ FilesOK /\ FilesOK' /\ current_gen' = current_gen /\ dir' = dir
      /\ GenerationsOK'
  BY IndPlace, FilesUnchanged, GenerationsUnchanged DEF LoadInit, Goto, files
<1>2. Exists(Marker) /\ ~Exists(Manifest)
  BY <1>1 DEF IndInv, BootstrapOK
<1>3. InitStore \in Stores /\ InitStore # NoStore /\ 1 \in Gens
  BY PersistenceAssumption DEF Gens
<1>4. Place'
  BY <1>1, <1>3 DEF Place, ControlOK
<1>5. TypeOK'
  BY <1>1, <1>4, PlaceTypeOK, PTL
<1>6. next_gen' = 1
  BY <1>1, <1>2 DEF next_gen, current_gen
<1> QED
  BY <1>1, <1>2, <1>3, <1>4, <1>5, <1>6
  DEF Place, IndInv, BootstrapOK, MaterialiseOK, Materialising, PublishedOK, Exists

LEMMA LoadInv ==
  ASSUME IndInv, Load
  PROVE  /\ IndInv' /\ live = NoStore
         /\ live' = NoStore \/ \E s \in Stores : Holds(dir, s) /\ live' = s
<1>1. /\ pc = "load" /\ UNCHANGED <<faults, files>> /\ dir' = dir
      /\ Place /\ FilesOK /\ FilesOK' /\ GenerationsOK'
      /\ current_gen' = current_gen /\ inode' = inode
  BY IndPlace, FilesUnchanged, GenerationsUnchanged DEF Load, files
<1>2. CASE Stop
  BY <1>1, <1>2, StopInv DEF Place, Stop
<1>3. CASE ~Stop
  <2>1. /\ pc' = "serving" /\ file' = "none" /\ then' = "down"
        /\ Exists(Snapshot(current_gen)) /\ live' = Read(Snapshot(current_gen))
    BY <1>3 DEF Load, Serve, Goto, SnapshotLoads
  <2>2. Exists(Manifest)
    <3>1. Snapshot(current_gen) \in FileNames
      BY <1>1, <2>1 DEF Exists, FilesOK, DiskTypeOK, IsDirectory
    <3> QED BY <1>1, <3>1, CurrentGeneration, NamesDiffer
  <2>3. \E s \in Stores : Holds(dir, s) /\ live' = s
    <3>1. /\ dir \in images /\ current_gen \in Gens /\ Named(current_gen)
          /\ inode[dir[Manifest]].safe = {current_gen}
      BY <1>1, <2>2, CurrentGeneration DEF FilesOK, DiskTypeOK, Named, Exists
    <3>2. PICK s \in Stores :
            /\ {Snapshot(current_gen), Aof(current_gen)} \subseteq DOMAIN dir
            /\ inode[dir[Snapshot(current_gen)]].safe = {s}
      BY <3>1 DEF IndInv, GenerationsOK
    <3>3. dir[Snapshot(current_gen)] \in DOMAIN inode
      BY <1>1, <2>1, <3>1, EntriesKnown DEF FilesOK, Exists
    <3>4. inode[dir[Snapshot(current_gen)]].data = s
      BY <1>1, <3>2, <3>3 DEF FilesOK, DiskTypeOK, FileTypeOK
    <3>5. Holds(dir, s)
      BY <2>2, <3>1, <3>2 DEF Holds, Exists
    <3> QED BY <2>1, <3>4, <3>5 DEF Read
  <2>4. Place'
    BY <1>1, <2>1, <2>3, PersistenceAssumption DEF Place, ControlOK
  <2>5. TypeOK'
    BY <1>1, <2>4, PlaceTypeOK, PTL
  <2>6. IndInv'
    BY <1>1, <2>1, <2>2, <2>4, <2>5
    DEF Place, IndInv, BootstrapOK, MaterialiseOK, Materialising, PublishedOK, Exists
  <2> QED BY <1>1, <2>3, <2>6 DEF Place
<1> QED BY <1>2, <1>3

LEMMA TradeInv ==
  ASSUME IndInv, Trade
  PROVE  IndInv'
<1>1. /\ pc = "serving" /\ live' \in Stores
      /\ UNCHANGED <<pc, file, then, faults, files>> /\ dir' = dir
      /\ Place /\ FilesOK /\ FilesOK' /\ GenerationsOK' /\ Exists(Manifest)
  BY IndPlace, FilesUnchanged, GenerationsUnchanged DEF Trade, files, IndInv, BootstrapOK
<1>2. file = "none" /\ then = "down" /\ Place'
  BY <1>1, PersistenceAssumption DEF Place, ControlOK
<1>3. TypeOK'
  BY <1>1, <1>2, PlaceTypeOK, PTL
<1> QED
  BY <1>1, <1>2, <1>3
  DEF Place, IndInv, BootstrapOK, MaterialiseOK, Materialising, PublishedOK, Exists

LEMMA ShutdownInv ==
  ASSUME IndInv, Shutdown
  PROVE  IndInv'
<1>1. /\ pc = "serving" /\ next_gen \in Gens /\ dir' = dir
      /\ pc' = "open" /\ file' = "snapshot" /\ then' = "down"
      /\ UNCHANGED <<live, faults, files>>
      /\ Place /\ FilesOK /\ FilesOK' /\ GenerationsOK' /\ current_gen' = current_gen
      /\ Exists(Manifest)
  BY IndPlace, FilesUnchanged, GenerationsUnchanged
  DEF Shutdown, Goto, files, IndInv, BootstrapOK
<1>2. Place' /\ next_gen' = next_gen
  BY <1>1 DEF Place, ControlOK, next_gen
<1>3. TypeOK'
  BY <1>1, <1>2, PlaceTypeOK, PTL
<1> QED
  BY <1>1, <1>2, <1>3
  DEF Place, IndInv, BootstrapOK, MaterialiseOK, Materialising, PublishedOK, Exists

LEMMA EndInv ==
  ASSUME IndInv, Stop, UNCHANGED files, faults' \in 0 .. MaxFaults
  PROVE  IndInv'
  BY IndPlace, FilesUnchanged, GenerationsUnchanged, StopInv

\* The bound on the faults
LEMMA FaultCount ==
  ASSUME IndInv, Fault
  PROVE  faults' \in 0 .. MaxFaults
  BY PersistenceAssumption DEF IndInv, TypeOK, Fault

LEMMA CallFailsInv ==
  ASSUME IndInv, CallFails
  PROVE  /\ IndInv'
         /\ \/ UNCHANGED files /\ live' \in {live, NoStore}
            \/ Materialising /\ Touches(Path) /\ live' = NoStore
            \/ Touches(Marker) /\ DOMAIN dir' = {} /\ live' = NoStore
<1>1. faults' \in 0 .. MaxFaults /\ Place /\ FilesOK
  BY FaultCount, IndPlace DEF CallFails
<1>2. CASE pc \in {"write", "sync", "rename"} /\ Stop /\ Unlink(Path)
  <2>1. Materialising
    BY <1>1, <1>2 DEF Place, ControlOK, Materialising
  <2>2. Touches(Path) /\ Path # Manifest
    BY <1>1, <1>2, <2>1, PathName, UnlinkOK
  <2>3. GenerationsOK'
    BY <2>1, <2>2, PathNotNamed, GenerationsTouch
  <2>4. IndInv'
    BY <1>1, <1>2, <2>2, <2>3, StopInv DEF Touches
  <2> QED BY <1>2, <2>1, <2>2, <2>4 DEF Stop
<1>3. CASE pc = "cleanup" /\ then # "mark" /\ AfterCleanup /\ UNCHANGED files
  BY <1>1, <1>3, AfterCleanupInv DEF AfterCleanup, Stop
<1>4. CASE /\ file = "no_marker" /\ then = "load"
           /\ Goto("load", "none", "down") /\ UNCHANGED <<live, files>>
  <2>1. /\ pc' = "load" /\ file' = "none" /\ then' = "down" /\ UNCHANGED <<live, files>>
        /\ FilesOK' /\ GenerationsOK'
    BY <1>1, <1>4, FilesUnchanged, GenerationsUnchanged DEF Goto
  <2>2. Place'
    BY <1>1, <1>4, <2>1 DEF Place, ControlOK
  <2>3. TypeOK'
    BY <2>1, <2>2, PlaceTypeOK, PTL
  <2>4. IndInv'
    BY <2>1, <2>2, <2>3
    DEF Place, IndInv, BootstrapOK, MaterialiseOK, Materialising, PublishedOK
  <2> QED BY <2>1, <2>4
<1>5. CASE Stop /\ UNCHANGED files
  BY <1>1, <1>5, EndInv DEF Stop
<1>6. CASE pc = "syncdir" /\ file = "marker" /\ Stop /\ Unlink(Marker)
  <2>1. Marker \in FileNames \ {Manifest} /\ Marker # Manifest
    BY NamesDiffer DEF FileNames
  <2>2. Touches(Marker) /\ FilesOK' /\ DOMAIN dir' = DOMAIN dir \ {Marker}
    BY <1>1, <1>6, <2>1, UnlinkOK DEF Touches
  <2>3. GenerationsOK'
    BY <2>1, <2>2, NamesDiffer, GenerationsTouch
  <2>4. IndInv'
    BY <1>1, <1>6, <2>2, <2>3, StopInv
  <2>5. DOMAIN dir' = {}
    BY <1>6, <2>2 DEF IndInv, BootstrapOK
  <2> QED BY <1>6, <2>2, <2>4, <2>5 DEF Stop
<1> QED BY <1>2, <1>3, <1>4, <1>5, <1>6 DEF CallFails

LEMMA PowerLossInv ==
  ASSUME IndInv, PowerLoss
  PROVE  IndInv'
<1>1. faults' \in 0 .. MaxFaults /\ FilesOK /\ Stop /\ LosePower
  BY FaultCount, IndPlace DEF PowerLoss
<1>2. /\ FilesOK' /\ dir' \in images /\ images' = {dir'}
      /\ \A n \in DOMAIN dir' : /\ inode'[dir'[n]].safe \subseteq inode[dir'[n]].safe
                                /\ inode'[dir'[n]].safe # {}
  BY <1>1, LosePowerOK
<1>3. \A c : \A n \in DOMAIN dir' :
        inode[dir'[n]].safe = {c} => inode'[dir'[n]].safe = {c}
  BY <1>2
<1>4. GenerationsOK'
  <2> SUFFICES ASSUME NEW g \in Gens, Named(g)'
               PROVE  \E s \in Stores :
                        /\ {Snapshot(g), Aof(g)} \subseteq DOMAIN dir'
                        /\ inode'[dir'[Snapshot(g)]].safe = {s}
    BY <1>2 DEF GenerationsOK
  <2>1. Manifest \in DOMAIN dir' /\ inode'[dir'[Manifest]].safe = {g}
    BY <1>2 DEF Named
  <2>2. \E h \in Gens : inode[dir'[Manifest]].safe = {h}
    BY <1>1, <1>2, <2>1 DEF FilesOK, ManifestsOK
  <2>3. Named(g)
    BY <1>2, <1>3, <2>1, <2>2 DEF Named
  <2> QED BY <1>2, <1>3, <2>3 DEF IndInv, GenerationsOK
<1> QED BY <1>1, <1>2, <1>4, StopInv

\* Every step keeps IndInv.
LEMMA IndStep ==
  ASSUME IndInv, [Next]_vars
  PROVE  IndInv'
<1>1. CASE Proceed
  BY <1>1, StartInv, RecoverInv, CleanupOneInv, EndCleanupInv, CreateMarkerInv, OpenInv,
     WriteInv, SyncInv, RenameInv, SyncDirInv, UnlinkMarkerInv, LoadInitInv, LoadInv
  DEF Proceed
<1>2. CASE Trade \/ Shutdown
  BY <1>2, TradeInv, ShutdownInv
<1>3. CASE ServerFails
  BY <1>3, EndInv DEF ServerFails, IndInv, TypeOK
<1>4. CASE CallFails \/ PowerLoss
  BY <1>4, CallFailsInv, PowerLossInv
<1>5. CASE Killed
  BY <1>5, EndInv, FaultCount DEF Killed
<1>6. CASE UNCHANGED vars
  <2>1. /\ UNCHANGED <<pc, file, then, live, faults, files>> /\ dir' = dir
        /\ images' = images /\ inode' = inode
    BY <1>6 DEF vars, files
  <2>2. FilesOK' /\ GenerationsOK' /\ current_gen' = current_gen
    BY <2>1, IndPlace, FilesUnchanged, GenerationsUnchanged
  <2>3. Place'
    BY <2>1, IndPlace DEF Place, ControlOK
  <2>4. TypeOK'
    BY <2>2, <2>3, PlaceTypeOK, PTL
  <2>5. BootstrapOK'
    BY <2>1 DEF IndInv, BootstrapOK, Exists
  <2>6. MaterialiseOK'
    BY <2>1, <2>2
    DEF IndInv, MaterialiseOK, Materialising, Exists, Read, SafeIs, InAll, next_gen,
        Snapshot, Aof
  <2>7. PublishedOK'
    BY <2>1, <2>2 DEF IndInv, PublishedOK, CurrentFiles, SafeIs, Exists, Snapshot, Aof
  <2> QED BY <2>2, <2>3, <2>4, <2>5, <2>6, <2>7 DEF IndInv, Place
<1> QED BY <1>1, <1>2, <1>3, <1>4, <1>5, <1>6 DEF Next

LEMMA Inductive == Spec => []IndInv
BY IndInit, IndStep, PTL DEF Spec

\* The variables have their types.
THEOREM TypeCorrect == Spec => []TypeOK
<1>1. IndInv => TypeOK
  BY DEF IndInv
<1> QED BY <1>1, Inductive, PTL

\* Past the manifest, only the store in memory can be found again.
LEMMA PublishedInv ==
  ASSUME IndInv, pc = "cleanup", then # "mark"
  PROVE  \A img \in images : Finds(img) = {live}
<1> SUFFICES ASSUME NEW img \in images PROVE Finds(img) = {live}
  OBVIOUS
<1>1. /\ CurrentFiles \subseteq DOMAIN dir /\ SafeIs(Snapshot(current_gen), live)
      /\ \A n \in CurrentFiles : n \in DOMAIN img /\ img[n] = dir[n]
  BY DEF IndInv, PublishedOK
<1>2. current_gen \in Gens /\ inode[dir[Manifest]].safe = {current_gen}
  BY <1>1, CurrentGeneration DEF IndInv, CurrentFiles, Exists
<1>3. current_gen # Partial
  BY <1>2, PersistenceAssumption DEF Gens
<1>4. /\ Manifest \in DOMAIN img /\ inode[img[Manifest]].safe = {current_gen}
      /\ Snapshot(current_gen) \in DOMAIN img /\ Aof(current_gen) \in DOMAIN img
      /\ inode[img[Snapshot(current_gen)]].safe = {live}
  BY <1>1, <1>2 DEF CurrentFiles, SafeIs
<1> HIDE DEF current_gen
<1> QED BY <1>3, <1>4 DEF Finds

THEOREM PublishedStays == Spec => []PublishedIsDurable
<1>1. IndInv => PublishedIsDurable
  <2> SUFFICES ASSUME IndInv, pc = "cleanup", then # "mark"
               PROVE  Durable = {live}
    BY DEF PublishedIsDurable
  <2>1. images # {}
    BY DEF IndInv, FilesOK, DiskTypeOK
  <2> QED BY <2>1, PublishedInv DEF Durable
<1> QED BY <1>1, Inductive, PTL
-----------------------------------------------------------------------------
\* The stores that the directories on the disk hold.
Found == {s \in Stores \cup {NoStore} : \E img \in images : Holds(img, s)}

\* Holds says what a start finds.
LEMMA HoldsFinds == \A img, s : Holds(img, s) => Finds(img) = {s}
<1> SUFFICES ASSUME NEW img, NEW s, Holds(img, s) PROVE Finds(img) = {s}
  OBVIOUS
<1>1. CASE Manifest \in DOMAIN img
  <2>1. PICK g \in Gens : /\ inode[img[Manifest]].safe = {g}
                          /\ {Snapshot(g), Aof(g)} \subseteq DOMAIN img
                          /\ inode[img[Snapshot(g)]].safe = {s}
    BY <1>1 DEF Holds
  <2>2. g # Partial
    BY PersistenceAssumption DEF Gens
  <2> QED BY <1>1, <2>1, <2>2 DEF Finds
<1>2. CASE Manifest \notin DOMAIN img
  BY <1>2 DEF Holds, Finds
<1> QED BY <1>1, <1>2

\* If recovery accepts every directory, what is durable is what they hold.
LEMMA DurableIsFound == Recoverable => Durable = Found
<1> SUFFICES ASSUME Recoverable PROVE Durable = Found
  OBVIOUS
<1>1. \A s \in Found : s \in Durable
  BY HoldsFinds DEF Found, Durable
<1>2. ASSUME NEW s \in Durable PROVE s \in Found
  <2>1. PICK img \in images : s \in Finds(img)
    BY DEF Durable
  <2>2. PICK t \in Stores \cup {NoStore} : Holds(img, t)
    BY DEF Recoverable
  <2> QED BY <2>1, <2>2, HoldsFinds DEF Found
<1> QED BY <1>1, <1>2

OneHeld == \A img, s, t : Holds(img, s) /\ Holds(img, t) => s = t

\* A directory holds one store at most.
LEMMA HoldsOne == OneHeld
  BY HoldsFinds DEF OneHeld

\* What was sure to be in a file still is.
Still(i) == \A c : inode[i].safe = {c} => inode'[i].safe = {c}

\* A directory whose files stay as they are holds what it held.
LEMMA HoldsStill ==
  ASSUME NEW img, NEW s, Holds(img, s),
         Manifest \in DOMAIN img => Still(img[Manifest]),
         \A g \in Gens :
           /\ Manifest \in DOMAIN img /\ inode[img[Manifest]].safe = {g}
           /\ Snapshot(g) \in DOMAIN img
           => Still(img[Snapshot(g)])
  PROVE  Holds(img, s)'
<1>1. CASE Manifest \in DOMAIN img
  <2>1. PICK g \in Gens : /\ inode[img[Manifest]].safe = {g}
                          /\ {Snapshot(g), Aof(g)} \subseteq DOMAIN img
                          /\ s \in Stores /\ inode[img[Snapshot(g)]].safe = {s}
    BY <1>1 DEF Holds
  <2>2. inode'[img[Manifest]].safe = {g} /\ inode'[img[Snapshot(g)]].safe = {s}
    BY <1>1, <2>1 DEF Still
  <2> QED BY <1>1, <2>1, <2>2 DEF Holds
<1>2. CASE Manifest \notin DOMAIN img
  BY <1>2 DEF Holds
<1> QED BY <1>1, <1>2

\* The disk as a start would find it does not change when a file is written
\* that no manifest names.
LEMMA TouchFound ==
  ASSUME IndInv, Ordered, Recoverable, NEW name, Touches(name), name # Manifest,
         \A g \in Gens : Named(g) => name \notin {Snapshot(g), Aof(g)},
         Manifest \in DOMAIN dir \/ Marker \in DOMAIN dir' \/ DOMAIN dir' = {}
  PROVE  Recoverable' /\ Found' = Found
<1>1. /\ dir \in images /\ dir' \in images' /\ images \subseteq images'
      /\ images' \subseteq images \cup {dir'}
  BY DEF IndInv, FilesOK, DiskTypeOK, Touches
<1>2. ASSUME NEW img \in images, NEW s, Holds(img, s)
      PROVE  Holds(img, s)'
  <2>1. Manifest \in DOMAIN img => Still(img[Manifest])
    BY DEF Touches, Still
  <2>2. ASSUME NEW g \in Gens, Manifest \in DOMAIN img, inode[img[Manifest]].safe = {g},
               Snapshot(g) \in DOMAIN img
        PROVE  Still(img[Snapshot(g)])
    BY <2>2 DEF Touches, Named, Still
  <2> QED BY <1>2, <2>1, <2>2, HoldsStill
<1>3. ASSUME NEW s, Holds(dir, s)
      PROVE  Holds(dir, s)'
  <2>1. Manifest \in DOMAIN dir' <=> Manifest \in DOMAIN dir
    BY DEF Touches
  <2>2. CASE Manifest \in DOMAIN dir
    <3>1. PICK g \in Gens : /\ inode[dir[Manifest]].safe = {g}
                            /\ {Snapshot(g), Aof(g)} \subseteq DOMAIN dir
                            /\ s \in Stores /\ inode[dir[Snapshot(g)]].safe = {s}
      BY <1>3, <2>2 DEF Holds
    <3>2. name \notin {Snapshot(g), Aof(g)}
      BY <1>1, <2>2, <3>1 DEF Named
    <3>3. /\ {Snapshot(g), Aof(g)} \subseteq DOMAIN dir'
          /\ inode'[dir'[Manifest]].safe = {g}
          /\ inode'[dir'[Snapshot(g)]].safe = {s}
      BY <2>2, <3>1, <3>2 DEF Touches
    <3> QED BY <2>1, <2>2, <3>1, <3>3 DEF Holds
  <2>3. CASE Manifest \notin DOMAIN dir
    BY <1>3, <2>1, <2>3 DEF Holds
  <2> QED BY <2>2, <2>3
<1>4. \A img \in images : \E s \in Stores \cup {NoStore} : Holds(img, s)
  BY DEF Recoverable
<1>5. Recoverable'
  BY <1>1, <1>2, <1>3, <1>4 DEF Recoverable
<1>6. OneHeld'
  BY HoldsOne, PTL
<1>7. Found \subseteq Found'
  BY <1>1, <1>2 DEF Found
<1>8. ASSUME NEW s \in Found' PROVE s \in Found
  <2>1. PICK img \in images' : Holds(img, s)'
    BY DEF Found
  <2>2. CASE img \in images
    BY <1>2, <1>4, <1>6, <2>1, <2>2 DEF Found, OneHeld
  <2>3. CASE img = dir'
    <3>1. PICK t \in Stores \cup {NoStore} : Holds(dir, t)
      BY <1>1, <1>4
    <3>2. Holds(dir, t)' /\ Holds(dir, s)'
      BY <1>3, <2>1, <2>3, <3>1
    <3>3. s = t
      BY <1>6, <3>2 DEF OneHeld
    <3> QED BY <1>1, <3>1, <3>3 DEF Found
  <2> QED BY <1>1, <2>2, <2>3
<1> QED BY <1>5, <1>7, <1>8

\* When it becomes known which directory the disk holds, it is one of those
\* that it may hold.
LEMMA SettleFound ==
  ASSUME Recoverable, NEW d \in images, images' = {d},
         \A n \in DOMAIN d : Still(d[n])
  PROVE  Recoverable' /\ Found' \subseteq Found /\ Found' # {}
<1>1. PICK s \in Stores \cup {NoStore} : Holds(d, s)
  BY DEF Recoverable
<1>2. Holds(d, s)'
  BY <1>1, HoldsStill
<1>3. OneHeld'
  BY HoldsOne, PTL
<1>4. Recoverable' /\ s \in Found'
  BY <1>2 DEF Recoverable, Found
<1>5. \A t \in Found' : t = s
  BY <1>2, <1>3 DEF Found, OneHeld
<1> QED BY <1>1, <1>4, <1>5 DEF Found

\* The rename adds the store in memory to those that may be found.
LEMMA RenameFound ==
  ASSUME IndInv, Ordered, Recoverable, RenameManifest
  PROVE  Recoverable' /\ Found' = Found \cup {live} /\ live \in Stores
<1> DEFINE g == next_gen
<1>1. /\ FilesOK /\ g \in Gens /\ SafeIs(ManifestTmp, g)
      /\ SafeIs(Snapshot(g), live) /\ Exists(Aof(g)) /\ live \in Stores
      /\ Rename(ManifestTmp, Manifest)
  BY RenameInv DEF RenameManifest
<1>2. /\ FilesOK' /\ DOMAIN dir' = (DOMAIN dir \ {ManifestTmp}) \cup {Manifest}
      /\ \A n \in DOMAIN dir \ {ManifestTmp, Manifest} :
           dir'[n] = dir[n] /\ inode'[dir'[n]] = inode[dir[n]]
      /\ inode'[dir'[Manifest]].safe = {g}
      /\ images \subseteq images' /\ images' \subseteq images \cup {dir'}
      /\ \A img \in images : \A n \in DOMAIN img : inode'[img[n]] = inode[img[n]]
  BY <1>1, RenameOK
<1> HIDE DEF g
<1>3. dir' \in images'
  BY <1>2 DEF FilesOK, DiskTypeOK
<1>4. ASSUME NEW img \in images, NEW s, Holds(img, s)
      PROVE  Holds(img, s)'
  <2>1. \A n \in DOMAIN img : Still(img[n])
    BY <1>2 DEF Still
  <2> QED BY <1>4, <2>1, HoldsStill
<1>5. Holds(dir, live)'
  <2>1. {Snapshot(g), Aof(g)} \subseteq DOMAIN dir \ {ManifestTmp, Manifest}
    BY <1>1, NamesDiffer DEF SafeIs, Exists
  <2>2. /\ Manifest \in DOMAIN dir' /\ {Snapshot(g), Aof(g)} \subseteq DOMAIN dir'
        /\ inode'[dir'[Snapshot(g)]].safe = {live} /\ live' = live
    BY <1>1, <1>2, <2>1 DEF SafeIs, RenameManifest
  <2> QED BY <1>1, <1>2, <2>2 DEF Holds
<1>6. \A img \in images : \E s \in Stores \cup {NoStore} : Holds(img, s)
  BY DEF Recoverable
<1>7. live' = live
  BY DEF RenameManifest
<1>8. Recoverable'
  BY <1>1, <1>2, <1>4, <1>5, <1>6, <1>7 DEF Recoverable
<1>9. OneHeld'
  BY HoldsOne, PTL
<1>10. Found \cup {live} \subseteq Found'
  BY <1>1, <1>2, <1>3, <1>4, <1>5, <1>7 DEF Found
<1>11. ASSUME NEW s \in Found' PROVE s \in Found \cup {live}
  <2>1. PICK img \in images' : Holds(img, s)'
    BY DEF Found
  <2>2. CASE img \in images
    BY <1>4, <1>6, <1>9, <2>1, <2>2 DEF Found, OneHeld
  <2>3. CASE img = dir'
    BY <1>5, <1>7, <1>9, <2>1, <2>3 DEF OneHeld
  <2> QED BY <1>2, <2>2, <2>3
<1> QED BY <1>1, <1>8, <1>10, <1>11

\* A write to a file of materialisation
LEMMA MaterialiseFound ==
  ASSUME IndInv, Ordered, Recoverable, Materialising, Touches(Path)
  PROVE  Recoverable' /\ Found' = Found
<1>1. Path \notin {Manifest, Marker}
  BY PathName
<1>2. Manifest \in DOMAIN dir \/ Marker \in DOMAIN dir'
  BY <1>1, TouchKeeps DEF IndInv, MaterialiseOK, Exists
<1>3. \A g \in Gens : Named(g) => Path \notin {Snapshot(g), Aof(g)}
  BY PathNotNamed
<1> HIDE DEF Path
<1> QED BY <1>1, <1>2, <1>3, TouchFound

\* Each step of the server and its files is one of the durable store, and
\* leaves in every directory that may be found a store to start from.
LEMMA DiskStep ==
  ASSUME IndInv, Ordered, Recoverable, [Next]_vars
  PROVE  Recoverable' /\ [Disk!Next]_(Disk!vars)
<1> DEFINE Settled == /\ Recoverable' /\ Found' \subseteq Found /\ Found' # {}
                      /\ live' \in {live, NoStore}
<1>1. (Recoverable => Durable = Found) /\ (Recoverable => Durable = Found)'
  BY DurableIsFound, PTL
<1>2. Found # {} /\ dir \in images
  BY DEF IndInv, FilesOK, DiskTypeOK, Recoverable, Found
<1>3. Settled => Recoverable' /\ Disk!Settle
  BY <1>1 DEF Disk!Settle
<1>4. ASSUME UNCHANGED files
      PROVE  Recoverable' /\ Found' = Found
  BY <1>4 DEF files, Recoverable, Found, Holds
<1>5. CASE Start \/ Recover \/ EndCleanup \/ Shutdown \/ ServerFails \/ Killed
  <2>1. UNCHANGED files /\ live' \in {live, NoStore}
    BY <1>5 DEF Start, Recover, EndCleanup, AfterCleanup, Shutdown, ServerFails, Killed,
                Stop, files
  <2> QED BY <1>2, <1>3, <1>4, <2>1 DEF Disk!Next
<1>6. CASE Open \/ Write \/ Sync
  <2>1. Materialising /\ Touches(Path) /\ live' = live
    BY <1>6, OpenInv, WriteInv, SyncInv DEF Open, Write, Sync
  <2> QED BY <1>2, <1>3, <2>1, MaterialiseFound DEF Disk!Next
<1>7. CASE CallFails
  <2>1. /\ live' \in {live, NoStore}
        /\ \/ UNCHANGED files
           \/ Materialising /\ Touches(Path)
           \/ Touches(Marker) /\ DOMAIN dir' = {}
    BY <1>7, CallFailsInv
  <2>2. Touches(Marker) /\ DOMAIN dir' = {} => Recoverable' /\ Found' = Found
    BY NamesDiffer, TouchFound
  <2> QED BY <1>2, <1>3, <1>4, <2>1, <2>2, MaterialiseFound DEF Disk!Next
<1>8. CASE CleanupOne
  <2>1. PICK a \in FileNames \ {Manifest, Marker} :
          /\ Touches(a) /\ (Exists(Manifest) \/ Exists(Marker))
          /\ \A g \in Gens : Named(g) => a \notin {Snapshot(g), Aof(g)}
    BY <1>8, CleanupOneInv
  <2>2. Manifest \in DOMAIN dir \/ Marker \in DOMAIN dir'
    BY <2>1, TouchKeeps DEF Exists
  <2>3. Recoverable' /\ Found' = Found
    BY <2>1, <2>2, TouchFound
  <2>4. live' = live
    BY <1>8 DEF CleanupOne
  <2> QED BY <1>2, <1>3, <2>3, <2>4 DEF Disk!Next
<1>9. CASE CreateMarker \/ UnlinkMarker
  <2>1. /\ Touches(Marker) /\ live' = live
        /\ Manifest \in DOMAIN dir \/ Marker \in DOMAIN dir' \/ DOMAIN dir' = {}
    BY <1>9, CreateMarkerInv, UnlinkMarkerInv DEF CreateMarker, UnlinkMarker, Exists
  <2>2. Recoverable' /\ Found' = Found
    BY <2>1, NamesDiffer, TouchFound
  <2> QED BY <1>2, <1>3, <2>1, <2>2 DEF Disk!Next
<1>10. CASE RenameManifest
  <2>1. Recoverable' /\ Found' = Found \cup {live} /\ live \in Stores /\ live' = live
    BY <1>10, RenameFound DEF RenameManifest
  <2>2. Disk!Publish
    BY <1>1, <2>1, PersistenceAssumption DEF Disk!Publish
  <2> QED BY <2>1, <2>2 DEF Disk!Next
<1>11. CASE SyncDir
  <2>1. /\ images' = {dir} /\ live' = live
        /\ \A n \in DOMAIN dir : inode'[dir[n]] = inode[dir[n]]
    BY <1>11, SyncDirectoryOK, IndPlace DEF SyncDir
  <2>2. \A n \in DOMAIN dir : Still(dir[n])
    BY <2>1 DEF Still
  <2>3. PICK d \in images : d = dir
    BY <1>2
  <2>4. Recoverable' /\ Found' \subseteq Found /\ Found' # {}
    BY <2>1, <2>2, <2>3, SettleFound
  <2> QED BY <1>3, <2>1, <2>4 DEF Disk!Next
<1>12. CASE PowerLoss
  <2>1. /\ dir' \in images /\ images' = {dir'} /\ live' = NoStore
        /\ \A n \in DOMAIN dir' : /\ inode'[dir'[n]].safe \subseteq inode[dir'[n]].safe
                                  /\ inode'[dir'[n]].safe # {}
    BY <1>12, LosePowerOK, IndPlace DEF PowerLoss, Stop
  <2>2. PICK d \in images : d = dir'
    BY <2>1
  <2>3. \A n \in DOMAIN d : Still(d[n])
    BY <2>1, <2>2 DEF Still
  <2>4. Recoverable' /\ Found' \subseteq Found /\ Found' # {}
    BY <2>1, <2>2, <2>3, SettleFound
  <2> QED BY <1>3, <2>1, <2>4 DEF Disk!Next
<1>13. CASE LoadInit
  <2>1. /\ live = NoStore /\ live' = InitStore /\ Manifest \notin DOMAIN dir
        /\ UNCHANGED files
    BY <1>13, LoadInitInv DEF LoadInit, Exists
  <2>2. NoStore \in Found
    BY <1>2, <2>1 DEF Recoverable, Found, Holds
  <2>3. Recoverable' /\ Disk!Start
    BY <1>1, <1>4, <2>1, <2>2 DEF Disk!Start
  <2> QED BY <2>3 DEF Disk!Next
<1>14. CASE Load
  <2>1. /\ UNCHANGED files /\ live = NoStore
        /\ live' = NoStore \/ \E s \in Stores : Holds(dir, s) /\ live' = s
    BY <1>14, LoadInv DEF Load
  <2>2. CASE live' = NoStore
    BY <1>2, <1>3, <1>4, <2>1, <2>2 DEF Disk!Next
  <2>3. CASE \E s \in Stores : Holds(dir, s) /\ live' = s
    <3>1. PICK s \in Stores : Holds(dir, s) /\ live' = s
      BY <2>3
    <3>2. s \in Found /\ s # NoStore
      BY <1>2, <3>1, PersistenceAssumption DEF Found
    <3>3. Recoverable' /\ Disk!Start
      BY <1>1, <1>4, <2>1, <3>1, <3>2 DEF Disk!Start
    <3> QED BY <3>3 DEF Disk!Next
  <2> QED BY <2>1, <2>2, <2>3
<1>15. CASE Trade
  <2>1. UNCHANGED files /\ live' \in Stores /\ live # NoStore
    BY <1>15, PersistenceAssumption DEF Trade, IndInv, TypeOK, ControlOK
  <2>2. Recoverable' /\ Disk!Trade
    BY <1>1, <1>4, <2>1 DEF Disk!Trade
  <2> QED BY <2>2 DEF Disk!Next
<1>16. CASE UNCHANGED vars
  <2>1. UNCHANGED files /\ live' = live
    BY <1>16 DEF vars, files
  <2> QED BY <1>2, <1>3, <1>4, <2>1 DEF Disk!Next
<1> QED
  BY <1>5, <1>6, <1>7, <1>8, <1>9, <1>10, <1>11, <1>12, <1>13, <1>14, <1>15, <1>16
  DEF Next, Proceed

RecInv == IndInv /\ (Ordered => Recoverable)

\* At first there is nothing on the disk, and a start begins the bootstrap.
LEMMA DiskInit == Init => (Ordered => Recoverable) /\ Disk!Init
<1> SUFFICES ASSUME Init PROVE Recoverable /\ Disk!Init
  OBVIOUS
<1>1. images = {dir} /\ DOMAIN dir = {} /\ live = NoStore
  BY DEF Init, FileInit
<1>2. Holds(dir, NoStore)
  BY <1>1 DEF Holds
<1>3. Recoverable
  BY <1>1, <1>2 DEF Recoverable
<1>4. Finds(dir) = {NoStore}
  BY <1>2, HoldsFinds
<1> QED BY <1>1, <1>3, <1>4 DEF Durable, Disk!Init

LEMMA RecInvariant == Spec => []RecInv
<1>1. Init => RecInv
  BY IndInit, DiskInit DEF RecInv
<1>2. RecInv /\ [Next]_vars => RecInv'
  BY IndStep, DiskStep DEF RecInv
<1> QED BY <1>1, <1>2, PTL DEF Spec

\* If directory changes reach the disk in order, a bootstrap that is cut short
\* is told from a clean state.
THEOREM BootstrapIsMarked == Spec => [](Ordered => InterruptedBootstrapIsMarked)
<1>1. RecInv => (Ordered => InterruptedBootstrapIsMarked)
  BY DurableIsFound, PersistenceAssumption
  DEF RecInv, Found, InterruptedBootstrapIsMarked
<1> QED BY <1>1, RecInvariant, PTL

\* If directory changes reach the disk in order, the server and its files
\* implement a durable store.
THEOREM Implements == ASSUME Ordered PROVE Spec => ImplementsDurableStore
<1>1. Init => Disk!Init
  BY DiskInit
<1>2. RecInv /\ [Next]_vars => [Disk!Next]_(Disk!vars)
  BY DiskStep DEF RecInv
<1> QED BY <1>1, <1>2, RecInvariant, PTL DEF Spec, ImplementsDurableStore, Disk!Spec
=============================================================================
