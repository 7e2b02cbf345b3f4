-------------------------- MODULE AtomicFileProofs --------------------------
(***************************************************************************)
(* Replacing a file is atomic and durable, for any number of processes and *)
(* writes: every step of AtomicFile is one of DurableFile, a reader sees   *)
(* whole versions, what was acknowledged survives a power loss, and only   *)
(* the dead leave temporaries behind.                                      *)
(***************************************************************************)
EXTENDS AtomicFile, FiniteSetTheorems, TLAPS

-----------------------------------------------------------------------------
(* The inductive invariant, in parts. *)

Directories == [Names -> 0..MaxWrites]
Data        == [of : 0..MaxWrites, parts : 0..Parts]

DiskTypes ==
    /\ names \in Directories /\ entries \subseteq Directories
    /\ exists \in BOOLEAN /\ anchored \in BOOLEAN
    /\ bytes \in [Inodes -> Data] /\ blocks \in [Inodes -> SUBSET Data]
TaskTypes ==
    /\ task \in [Writers -> [at : {"idle", "write", "fsync", "rename", "fsyncdir"},
                             num : 0..MaxWrites, inode : 0..MaxWrites]]
    /\ writes \in 0..MaxWrites
RankTypes == renames \in Nat /\ order \in [Inodes -> Nat] /\ acked \in Nat

\* What processes see is among what the medium may have.
SeenInv ==
    /\ names \in entries
    /\ \A i \in Inodes : bytes[i] \in blocks[i]

\* In every directory the medium may have, an inode has one name; inodes come up in order; and
\* what is a temporary now is in none of them the file.
NameInv ==
    /\ \A d \in entries : \A m, n \in Names : d[m] = d[n] /\ d[m] # None => m = n
    /\ \A d \in entries : \A n \in Names : d[n] <= writes
    /\ \A d \in entries : \A w \in Writers : names[w] # None => d[Final] # names[w]
    /\ ~exists => entries = {EmptyDir}

\* How far a writer is with its temporary.
TaskInv ==
    \A w \in Writers :
        /\ task[w].at \in {"write", "fsync", "rename"} =>
              /\ task[w].inode = names[w] /\ names[w] \in Inodes
              /\ task[w].num \in 1..MaxWrites /\ bytes[names[w]].of = task[w].num
        /\ task[w].at \in {"fsync", "rename"} => bytes[names[w]].parts = Parts
        /\ task[w].at = "rename" => blocks[names[w]] = {bytes[names[w]]}
        /\ task[w].at = "fsyncdir" => task[w].inode \in Inodes /\ names[w] = None

\* Whatever may be found under the final name is a whole version.
WholeInv ==
    \A d \in entries : d[Final] # None =>
        \A data \in blocks[d[Final]] : data.of \in 1..MaxWrites /\ data.parts = Parts

FileInv == DiskTypes /\ TaskTypes /\ SeenInv /\ NameInv /\ TaskInv /\ WholeInv

LEMMA InitOK == Init => FileInv
<1>. SUFFICES ASSUME Init PROVE FileInv
  OBVIOUS
<1>. USE AtomicFileAssumption
<1>1. EmptyDir \in Directories /\ \A n \in Names : EmptyDir[n] = None
  BY DEF EmptyDir, Directories, None
<1>2. Final \in Names /\ Writers \subseteq Names
  BY DEF Names
<1>3. Empty \in Data /\ Empty.of = 0 /\ Empty.parts = 0
  BY DEF Empty, Data
<1>4. DiskTypes
  <2>1. exists \in BOOLEAN /\ anchored \in BOOLEAN
    BY Zenon DEF Init
  <2>2. names \in Directories /\ entries \subseteq Directories
    BY <1>1 DEF Init
  <2>3. bytes \in [Inodes -> Data] /\ blocks \in [Inodes -> SUBSET Data]
    BY <1>3 DEF Init
  <2>. QED  BY <2>1, <2>2, <2>3 DEF DiskTypes
<1>5. TaskTypes
  BY DEF Init, TaskTypes, Idle, None
<1>6. SeenInv
  BY DEF Init, SeenInv
<1>7. NameInv
  BY <1>1, <1>2 DEF Init, NameInv, None
<1>8. TaskInv
  BY DEF Init, TaskInv, Idle
<1>9. WholeInv
  BY <1>1, <1>2 DEF Init, WholeInv
<1>. QED  BY <1>4, <1>5, <1>6, <1>7, <1>8, <1>9 DEF FileInv

-----------------------------------------------------------------------------
(* The inode a writer works on is nobody else's, and not the file. *)

LEMMA Constants ==
    /\ Final \in Names /\ Writers \subseteq Names /\ Final \notin Writers
    /\ None = 0 /\ MaxWrites \in Nat \ {0} /\ Parts \in Nat \ {0}
BY AtomicFileAssumption DEF Names, Final, None

LEMMA OwnTemporary ==
    ASSUME FileInv, NEW w \in Writers, task[w].at \in {"write", "fsync", "rename"}
    PROVE  /\ task[w].inode = names[w] /\ names[w] \in Inodes /\ names[w] # None
           /\ \A d \in entries : d[Final] # names[w]
           /\ names[Final] # names[w]
           /\ \A v \in Writers \ {w} : names[v] # names[w]
BY Constants DEF FileInv, TaskInv, NameInv, SeenInv, Inodes

\* So is the one it opens.
LEMMA NewTemporary ==
    ASSUME FileInv, NEW w \in Writers, writes < MaxWrites
    PROVE  /\ Temporary(w) \in Inodes /\ Temporary(w) <= writes + 1
           /\ names[w] # None => Temporary(w) = names[w]
           /\ \A d \in entries : d[Final] # Temporary(w)
           /\ \A v \in Names \ {w} : names[v] # Temporary(w)
<1>1. names \in Directories /\ writes \in 0..MaxWrites /\ names \in entries
  BY DEF FileInv, DiskTypes, TaskTypes, SeenInv
<1>2. names[w] \in 0..MaxWrites
  BY <1>1, Constants DEF Directories
<1>3. CASE names[w] = None
  BY <1>1, <1>3, Constants DEF Temporary, FileInv, NameInv, Inodes
<1>4. CASE names[w] # None
  BY <1>1, <1>2, <1>4, Constants DEF Temporary, FileInv, NameInv, Inodes
<1>. QED  BY <1>3, <1>4

-----------------------------------------------------------------------------
(* The writers' steps preserve the invariant. *)

\* A step that leaves the disk alone.
LEMMA DiskStays ==
    ASSUME FileInv, UNCHANGED <<disk, writes>>, TaskTypes', TaskInv'
    PROVE  FileInv'
<1>1. DiskTypes' /\ SeenInv' /\ NameInv' /\ WholeInv'
  BY DEF FileInv, DiskTypes, SeenInv, NameInv, WholeInv, disk, Directories, Data, Inodes, EmptyDir, Names
<1>. QED  BY <1>1 DEF FileInv

\* A new task for one writer.
LEMMA NewTask ==
    ASSUME TaskTypes, NEW w \in Writers,
           NEW t \in [at : {"idle", "write", "fsync", "rename", "fsyncdir"},
                      num : 0..MaxWrites, inode : 0..MaxWrites],
           task' = [task EXCEPT ![w] = t], writes' \in 0..MaxWrites
    PROVE  /\ TaskTypes' /\ task'[w] = t
           /\ \A v \in Writers \ {w} : task'[v] = task[v]
BY DEF TaskTypes

LEMMA IdleTask ==
    Idle \in [at : {"idle", "write", "fsync", "rename", "fsyncdir"},
              num : 0..MaxWrites, inode : 0..MaxWrites] /\ Idle.at = "idle"
BY Constants DEF Idle

LEMMA GoesTask ==
    ASSUME TaskTypes, NEW w \in Writers, NEW label \in {"write", "fsync", "rename", "fsyncdir"},
           Goes(w, label), writes' = writes
    PROVE  /\ TaskTypes'
           /\ task'[w].at = label /\ task'[w].num = task[w].num /\ task'[w].inode = task[w].inode
           /\ \A v \in Writers \ {w} : task'[v] = task[v]
BY DEF TaskTypes, Goes

LEMMA ReturnsTask ==
    ASSUME TaskTypes, NEW w \in Writers, task' = [task EXCEPT ![w] = Idle],
           writes' \in 0..MaxWrites
    PROVE  /\ TaskTypes' /\ task'[w].at = "idle"
           /\ \A v \in Writers \ {w} : task'[v] = task[v]
BY IdleTask, NewTask

LEMMA GiveUpStep ==
    ASSUME FileInv, NEW w \in Writers, task' = [task EXCEPT ![w] = Idle],
           UNCHANGED <<disk, writes>>
    PROVE  FileInv'
<1>1. TaskTypes /\ TaskInv /\ writes' \in 0..MaxWrites
  BY DEF FileInv, TaskTypes
<1>2. /\ TaskTypes' /\ task'[w].at = "idle"
      /\ \A v \in Writers \ {w} : task'[v] = task[v]
  BY <1>1, ReturnsTask
<1>3. UNCHANGED <<names, bytes, blocks>>
  BY DEF disk
<1>4. TaskInv'
  BY <1>1, <1>2, <1>3 DEF TaskInv, Inodes
<1>. QED  BY <1>2, <1>4, DiskStays

LEMMA OpenStep == ASSUME FileInv, NEW w \in Writers, Open(w) PROVE FileInv'
<1>1. DiskTypes /\ TaskTypes /\ SeenInv /\ NameInv /\ TaskInv /\ WholeInv
  BY DEF FileInv
<1>2. writes \in 0..MaxWrites /\ writes < MaxWrites /\ writes' = writes + 1
  BY <1>1 DEF TaskTypes, Open
<1>3. writes' \in 1..MaxWrites /\ writes' \in 0..MaxWrites /\ writes <= writes'
  BY <1>2, Constants
<1>4. exists' \in BOOLEAN /\ anchored' \in BOOLEAN /\ (~exists' => ~exists)
  <2>1. exists' = (exists \/ how = "replace") /\ anchored' = anchored
    BY DEF Open
  <2>. QED  BY <1>1, <2>1 DEF DiskTypes
<1>5. CASE Returns(w) /\ UNCHANGED <<names, entries, bytes, blocks>>
  <2>1. /\ TaskTypes' /\ task'[w].at = "idle"
        /\ \A v \in Writers \ {w} : task'[v] = task[v]
    BY <1>1, <1>3, <1>5, ReturnsTask DEF Returns
  <2>2. DiskTypes' /\ SeenInv' /\ WholeInv'
    BY <1>1, <1>4, <1>5 DEF DiskTypes, SeenInv, WholeInv, Directories, Data, Inodes, Names
  <2>3. NameInv'
    BY <1>1, <1>2, <1>4, <1>5, Constants DEF NameInv, DiskTypes, Directories, Names, EmptyDir
  <2>4. TaskInv'
    BY <1>1, <1>5, <2>1 DEF TaskInv, Inodes
  <2>. QED  BY <2>1, <2>2, <2>3, <2>4 DEF FileInv
<1>6. CASE ~(Returns(w) /\ UNCHANGED <<names, entries, bytes, blocks>>)
  <2>. DEFINE i == Temporary(w)
              t == [at |-> "write", num |-> writes + 1, inode |-> i]
              c == [of |-> writes + 1, parts |-> 0]
              d == [names EXCEPT ![w] = i]
  <2>1. /\ task' = [task EXCEPT ![w] = t]
        /\ bytes' = [bytes EXCEPT ![i] = c] /\ blocks' = [blocks EXCEPT ![i] = @ \cup {c}]
        /\ names' = d /\ entries' = entries \cup {d}
        /\ CanOpen(w) /\ exists' = (exists \/ how = "replace")
    BY <1>6 DEF Open, Stores, Links
  <2>2. /\ i \in Inodes /\ i <= writes + 1 /\ i # None
        /\ names[w] # None => i = names[w]
        /\ \A e \in entries : e[Final] # i
        /\ \A v \in Names \ {w} : names[v] # i
    BY <1>2, NewTemporary, Constants DEF Inodes
  <2>3. /\ TaskTypes' /\ task'[w] = t
        /\ \A v \in Writers \ {w} : task'[v] = task[v]
    <3>1. t \in [at : {"idle", "write", "fsync", "rename", "fsyncdir"},
                 num : 0..MaxWrites, inode : 0..MaxWrites]
      BY <1>2, <1>3, <2>2, Constants DEF Inodes
    <3>. QED  BY <1>1, <1>3, <2>1, <3>1, NewTask
  <2>4. /\ c \in Data /\ w \in Names /\ w # Final
        /\ names \in Directories /\ d \in Directories
        /\ d[w] = i /\ \A n \in Names \ {w} : d[n] = names[n]
    BY <1>1, <1>2, <2>2, Constants DEF Data, DiskTypes, Directories, Inodes
  <2>5. /\ bytes'[i] = c /\ blocks'[i] = blocks[i] \cup {c}
        /\ \A k \in Inodes \ {i} : bytes'[k] = bytes[k] /\ blocks'[k] = blocks[k]
    BY <1>1, <2>1, <2>2 DEF DiskTypes
  <2>6. DiskTypes'
    BY <1>1, <1>4, <2>1, <2>2, <2>4 DEF DiskTypes, Directories, Data, Inodes, Names
  <2>7. SeenInv'
    BY <1>1, <2>1, <2>5 DEF SeenInv, Inodes
  <2>8. NameInv'
    <3>1. \A e \in entries : e \in Directories
      BY <1>1 DEF DiskTypes
    <3>2. ASSUME NEW e \in entries', NEW m \in Names, NEW n \in Names, e[m] = e[n], e[m] # None
          PROVE  m = n
      <4>1. CASE e \in entries
        BY <1>1, <3>2, <4>1 DEF NameInv
      <4>2. CASE e = d
        <5>1. CASE m = w \/ n = w
          BY <2>2, <2>4, <3>2, <4>2, <5>1
        <5>2. CASE m # w /\ n # w
          BY <1>1, <2>4, <3>2, <4>2, <5>2 DEF NameInv, SeenInv
        <5>. QED  BY <5>1, <5>2
      <4>. QED  BY <2>1, <4>1, <4>2
    <3>3. ASSUME NEW e \in entries', NEW n \in Names PROVE e[n] <= writes'
      <4>1. CASE e \in entries
        <5>1. e[n] <= writes /\ e[n] \in 0..MaxWrites
          BY <1>1, <3>1, <4>1 DEF NameInv, Directories
        <5>. QED  BY <1>2, <5>1
      <4>2. CASE e = d
        <5>1. names[n] <= writes /\ names[n] \in 0..MaxWrites
          BY <1>1, <2>4 DEF NameInv, SeenInv, Directories
        <5>. QED  BY <1>2, <2>2, <2>4, <4>2, <5>1
      <4>. QED  BY <2>1, <4>1, <4>2
    <3>4. ASSUME NEW e \in entries', NEW v \in Writers, names'[v] # None
          PROVE  e[Final] # names'[v]
      <4>1. d[Final] = names[Final] /\ names \in entries /\ Final \in Names
        BY <1>1, <2>4, Constants DEF SeenInv
      <4>2. CASE v = w
        BY <2>1, <2>2, <2>4, <4>1, <4>2
      <4>3. CASE v # w
        BY <1>1, <2>1, <2>4, <3>4, <4>1, <4>3, Constants DEF NameInv
      <4>. QED  BY <4>2, <4>3
    <3>5. exists'
      BY <2>1 DEF CanOpen
    <3>6. Names' = Names
      BY DEF Names
    <3>. QED  BY <3>2, <3>3, <3>4, <3>5, <3>6 DEF NameInv
  <2>9. TaskInv'
    <3>1. ASSUME NEW v \in Writers \ {w}, task[v].at \in {"write", "fsync", "rename"}
          PROVE  names[v] \in Inodes \ {i} /\ names'[v] = names[v]
      BY <2>1, <2>2, <2>4, <3>1, OwnTemporary, Constants
    <3>2. ASSUME NEW v \in Writers \ {w} PROVE names'[v] = names[v]
      BY <2>1, <2>4, Constants
    <3>3. ASSUME NEW v \in Writers, v # w
          PROVE  /\ task'[v].at \in {"write", "fsync", "rename"} =>
                       /\ task'[v].inode = names'[v] /\ names'[v] \in Inodes
                       /\ task'[v].num \in 1..MaxWrites /\ bytes'[names'[v]].of = task'[v].num
                 /\ task'[v].at \in {"fsync", "rename"} => bytes'[names'[v]].parts = Parts
                 /\ task'[v].at = "rename" => blocks'[names'[v]] = {bytes'[names'[v]]}
                 /\ task'[v].at = "fsyncdir" => task'[v].inode \in Inodes /\ names'[v] = None
      BY <1>1, <2>3, <2>5, <3>1, <3>2, <3>3 DEF TaskInv
    <3>4. task'[w].inode = names'[w] /\ names'[w] \in Inodes /\ task'[w].num = writes + 1
          /\ bytes'[names'[w]].of = writes + 1 /\ task'[w].at = "write"
      BY <2>1, <2>2, <2>3, <2>4, <2>5
    <3>5. Inodes' = Inodes
      BY DEF Inodes
    <3>. QED  BY <1>2, <1>3, <3>3, <3>4, <3>5 DEF TaskInv
  <2>10. WholeInv'
    <3>1. ASSUME NEW e \in entries', e[Final] # None
          PROVE  e[Final] \in Inodes /\ blocks'[e[Final]] = blocks[e[Final]]
                 /\ \E f \in entries : f[Final] = e[Final]
      BY <1>1, <2>1, <2>2, <2>4, <2>5, <3>1, Constants DEF DiskTypes, Directories, SeenInv, Inodes
    <3>. QED  BY <1>1, <3>1 DEF WholeInv
  <2>. QED  BY <2>3, <2>6, <2>7, <2>8, <2>9, <2>10 DEF FileInv
<1>. QED  BY <1>5, <1>6

\* A writer that changes nothing but the contents of its own temporary, and its label.
LEMMA ContentStep ==
    ASSUME FileInv, NEW w \in Writers, task[w].at \in {"write", "fsync"},
           UNCHANGED <<names, entries, exists, anchored, writes>>,
           NEW label \in {"write", "fsync", "rename"}, Goes(w, label),
           NEW data \in Data, data.of = task[w].num,
           label \in {"fsync", "rename"} => data.parts = Parts,
           NEW kept \in SUBSET Data, data \in kept, label = "rename" => kept = {data},
           bytes' = [bytes EXCEPT ![names[w]] = data],
           blocks' = [blocks EXCEPT ![names[w]] = kept]
    PROVE  FileInv'
<1>1. DiskTypes /\ TaskTypes /\ SeenInv /\ NameInv /\ TaskInv /\ WholeInv
  BY DEF FileInv
<1>. DEFINE i == names[w]
<1>2. /\ task[w].inode = i /\ i \in Inodes
      /\ \A d \in entries : d[Final] # i
      /\ \A v \in Writers \ {w} : names[v] # i
  BY OwnTemporary
<1>3. /\ TaskTypes'
      /\ task'[w].at = label /\ task'[w].num = task[w].num /\ task'[w].inode = task[w].inode
      /\ \A v \in Writers \ {w} : task'[v] = task[v]
  BY <1>1, GoesTask
<1>4. /\ bytes'[i] = data /\ blocks'[i] = kept
      /\ \A k \in Inodes \ {i} : bytes'[k] = bytes[k] /\ blocks'[k] = blocks[k]
  BY <1>1, <1>2 DEF DiskTypes
<1>5. Inodes' = Inodes /\ Names' = Names /\ EmptyDir' = EmptyDir
  BY DEF Inodes, Names, EmptyDir
<1>6. DiskTypes'
  BY <1>1, <1>2, <1>5 DEF DiskTypes, Directories, Data
<1>7. SeenInv'
  BY <1>1, <1>4, <1>5 DEF SeenInv
<1>8. NameInv'
  BY <1>1, <1>5 DEF NameInv
<1>9. TaskInv'
  <2>1. ASSUME NEW v \in Writers, v # w
        PROVE  /\ task'[v].at \in {"write", "fsync", "rename"} =>
                     /\ task'[v].inode = names'[v] /\ names'[v] \in Inodes
                     /\ task'[v].num \in 1..MaxWrites /\ bytes'[names'[v]].of = task'[v].num
               /\ task'[v].at \in {"fsync", "rename"} => bytes'[names'[v]].parts = Parts
               /\ task'[v].at = "rename" => blocks'[names'[v]] = {bytes'[names'[v]]}
               /\ task'[v].at = "fsyncdir" => task'[v].inode \in Inodes /\ names'[v] = None
    BY <1>1, <1>2, <1>3, <1>4, <2>1 DEF TaskInv
  <2>2. /\ task'[w].inode = names'[w] /\ names'[w] \in Inodes
        /\ task'[w].num \in 1..MaxWrites /\ bytes'[names'[w]].of = task'[w].num
        /\ task'[w].at \in {"fsync", "rename"} => bytes'[names'[w]].parts = Parts
        /\ task'[w].at = "rename" => blocks'[names'[w]] = {bytes'[names'[w]]}
    BY <1>1, <1>2, <1>3, <1>4 DEF TaskInv
  <2>. QED  BY <1>3, <1>5, <2>1, <2>2 DEF TaskInv
<1>10. WholeInv'
  <2>1. ASSUME NEW d \in entries, d[Final] # None
        PROVE  blocks'[d[Final]] = blocks[d[Final]]
    BY <1>1, <1>2, <1>4, <2>1, Constants DEF DiskTypes, Directories, Inodes
  <2>. QED  BY <1>1, <2>1 DEF WholeInv
<1>. QED  BY <1>3, <1>6, <1>7, <1>8, <1>9, <1>10 DEF FileInv

LEMMA WriteStep == ASSUME FileInv, NEW w \in Writers, Write(w) PROVE FileInv'
<1>. DEFINE i == names[w]
            had == bytes[i].parts
            new == [of |-> task[w].num, parts |-> had + 1]
<1>1. /\ task[w].at = "write" /\ task[w].inode = i /\ i \in Inodes
      /\ UNCHANGED <<names, entries, exists, anchored, writes>>
  BY OwnTemporary DEF Write
<1>2. /\ bytes \in [Inodes -> Data] /\ blocks \in [Inodes -> SUBSET Data]
      /\ bytes[i] \in Data /\ bytes[i] \in blocks[i] /\ had \in 0..Parts
      /\ bytes[i].of = task[w].num /\ task[w].num \in 0..MaxWrites
  BY <1>1 DEF FileInv, DiskTypes, SeenInv, TaskInv, Data
<1>3. CASE had = Parts
  <2>1. Goes(w, "fsync") /\ UNCHANGED <<bytes, blocks>>
    BY <1>1, <1>3 DEF Write
  <2>2. bytes' = [bytes EXCEPT ![i] = bytes[i]] /\ blocks' = [blocks EXCEPT ![i] = blocks[i]]
    BY <1>2, <2>1
  <2>. QED  BY <1>1, <1>2, <1>3, <2>1, <2>2, ContentStep
<1>4. CASE had # Parts
  <2>1. Stores(i, new) /\ Goes(w, "write")
    BY <1>1, <1>4 DEF Write
  <2>2. new \in Data
    BY <1>2, <1>4, Constants DEF Data
  <2>3. /\ bytes' = [bytes EXCEPT ![i] = new]
        /\ blocks' = [blocks EXCEPT ![i] = blocks[i] \cup {new}]
        /\ blocks[i] \cup {new} \in SUBSET Data
    BY <1>1, <1>2, <2>1, <2>2 DEF Stores
  <2>4. new.of = task[w].num /\ new \in blocks[i] \cup {new} /\ "write" \notin {"fsync", "rename"}
    OBVIOUS
  <2>. HIDE DEF new
  <2>. QED  BY <1>1, <2>1, <2>2, <2>3, <2>4, ContentStep
<1>. QED  BY <1>3, <1>4

LEMMA FsyncDataStep == ASSUME FileInv, NEW w \in Writers, FsyncData(w) PROVE FileInv'
<1>. DEFINE i == names[w]
<1>1. /\ task[w].at = "fsync" /\ task[w].inode = i /\ i \in Inodes /\ Goes(w, "rename")
      /\ UNCHANGED <<names, entries, exists, anchored, bytes, writes>>
      /\ blocks' = [blocks EXCEPT ![i] = {bytes[i]}]
  BY OwnTemporary DEF FsyncData
<1>2. /\ bytes \in [Inodes -> Data] /\ bytes[i] \in Data
      /\ bytes[i].of = task[w].num /\ bytes[i].parts = Parts
  BY <1>1 DEF FileInv, DiskTypes, TaskInv
<1>3. bytes' = [bytes EXCEPT ![i] = bytes[i]] /\ {bytes[i]} \in SUBSET Data
  BY <1>1, <1>2
<1>. QED  BY <1>1, <1>2, <1>3, ContentStep

\* A change of the directory that takes the temporary away, as the file or for good.
LEMMA DirectoryStep ==
    ASSUME FileInv, NEW w \in Writers, NEW d \in Directories, Links(d), d[w] = None,
           \A v \in Writers \ {w} : d[v] = names[v],
           \/ d[Final] = names[Final]
           \/ d[Final] = names[w] /\ task[w].at = "rename",
           UNCHANGED <<exists, anchored, bytes, blocks, writes>>, names[w] # None,
           TaskTypes', \A v \in Writers \ {w} : task'[v] = task[v],
           \/ task'[w].at = "idle"
           \/ task'[w].at = "fsyncdir" /\ task'[w].inode \in Inodes
    PROVE  FileInv'
<1>1. DiskTypes /\ TaskTypes /\ SeenInv /\ NameInv /\ TaskInv /\ WholeInv
  BY DEF FileInv
<1>2. names' = d /\ entries' = entries \cup {d}
  BY DEF Links
<1>3. Inodes' = Inodes /\ Names' = Names /\ EmptyDir' = EmptyDir
  BY DEF Inodes, Names, EmptyDir
<1>4. names \in entries /\ names \in Directories /\ w # Final
  BY <1>1, Constants DEF SeenInv, DiskTypes
<1>5. DiskTypes'
  BY <1>1, <1>2, <1>3 DEF DiskTypes, Directories, Data
<1>6. SeenInv'
  BY <1>1, <1>2, <1>3 DEF SeenInv
<1>7. NameInv'
  <2>1. exists
    <3>1. EmptyDir[w] = None
      BY Constants DEF EmptyDir
    <3>. QED  BY <1>1, <1>4, <3>1 DEF NameInv
  <2>2. ASSUME NEW m \in Names, NEW n \in Names, d[m] = d[n], d[m] # None PROVE m = n
    <3>1. m # w /\ n # w
      BY <2>2
    <3>2. \A k \in Names \ {w} : d[k] = names[k] \/ (k = Final /\ d[k] = names[w])
      BY DEF Names, Final
    <3>3. \A k, l \in Names : names[k] = names[l] /\ names[k] # None => k = l
      BY <1>1, <1>4 DEF NameInv
    <3>. QED  BY <2>2, <3>1, <3>2, <3>3, Constants
  <2>3. ASSUME NEW n \in Names PROVE d[n] <= writes
    <3>1. \A k \in Names : names[k] <= writes
      BY <1>1, <1>4 DEF NameInv
    <3>2. d[n] = None \/ d[n] = names[n] \/ d[n] = names[w]
      BY Constants DEF Names, Final
    <3>3. writes \in 0..MaxWrites
      BY <1>1 DEF TaskTypes
    <3>. QED  BY <3>1, <3>2, <3>3, Constants
  <2>4. ASSUME NEW e \in entries', NEW v \in Writers, names'[v] # None PROVE e[Final] # names'[v]
    <3>1. v # w /\ names'[v] = names[v]
      BY <1>2, <2>4
    <3>2. CASE e \in entries
      BY <1>1, <2>4, <3>1, <3>2 DEF NameInv
    <3>3. CASE e = d
      BY <1>1, <1>4, <2>4, <3>1, <3>3, Constants DEF NameInv
    <3>. QED  BY <1>2, <3>2, <3>3
  <2>. QED  BY <1>1, <1>2, <1>3, <2>1, <2>2, <2>3, <2>4 DEF NameInv
<1>8. TaskInv'
  <2>1. names'[w] = None /\ \A v \in Writers \ {w} : names'[v] = names[v]
    BY <1>2
  <2>. QED  BY <1>1, <1>3, <2>1 DEF TaskInv
<1>9. WholeInv'
  <2>1. CASE d[Final] = names[Final]
    BY <1>1, <1>2, <1>4, <2>1 DEF WholeInv
  <2>2. CASE d[Final] = names[w] /\ task[w].at = "rename"
    <3>1. /\ blocks[names[w]] = {bytes[names[w]]} /\ bytes[names[w]].parts = Parts
          /\ bytes[names[w]].of \in 1..MaxWrites
      BY <1>1, <2>2 DEF TaskInv
    <3>. QED  BY <1>1, <1>2, <2>2, <3>1 DEF WholeInv
  <2>. QED  BY <2>1, <2>2
<1>. QED  BY <1>5, <1>6, <1>7, <1>8, <1>9 DEF FileInv

LEMMA RenameStep == ASSUME FileInv, NEW w \in Writers, Rename(w) PROVE FileInv'
<1>. DEFINE d == [names EXCEPT ![Final] = names[w], ![w] = None]
<1>1. /\ task[w].at = "rename" /\ task[w].inode = names[w] /\ names[w] \in Inodes
      /\ names[w] # None /\ Links(d) /\ Goes(w, "fsyncdir")
      /\ UNCHANGED <<exists, anchored, bytes, blocks, writes>>
  BY OwnTemporary DEF Rename
<1>2. names \in Directories /\ TaskTypes
  BY DEF FileInv, DiskTypes
<1>3. /\ d \in Directories /\ d[w] = None /\ d[Final] = names[w]
      /\ \A v \in Writers \ {w} : d[v] = names[v]
  BY <1>1, <1>2, Constants DEF Directories, Inodes
<1>4. /\ TaskTypes' /\ task'[w].at = "fsyncdir" /\ task'[w].inode = task[w].inode
      /\ \A v \in Writers \ {w} : task'[v] = task[v]
  BY <1>1, <1>2, GoesTask
<1>. QED  BY <1>1, <1>3, <1>4, DirectoryStep

LEMMA FailStep == ASSUME FileInv, NEW w \in Writers, Fail(w) PROVE FileInv'
<1>0. Returns(w) /\ UNCHANGED <<exists, anchored, bytes, blocks, writes>>
  BY DEF Fail
<1>1. CASE task[w].at \in {"write", "fsync", "rename"}
  <2>. DEFINE d == [names EXCEPT ![w] = None]
  <2>1. names[w] \in Inodes /\ names[w] # None /\ Links(d)
    BY <1>1, OwnTemporary DEF Fail
  <2>2. names \in Directories /\ TaskTypes /\ writes \in 0..MaxWrites
    BY DEF FileInv, DiskTypes, TaskTypes
  <2>3. /\ d \in Directories /\ d[w] = None /\ d[Final] = names[Final]
        /\ \A v \in Writers \ {w} : d[v] = names[v]
    BY <2>2, Constants DEF Directories
  <2>4. /\ TaskTypes' /\ task'[w].at = "idle"
        /\ \A v \in Writers \ {w} : task'[v] = task[v]
    BY <1>0, <2>2, ReturnsTask DEF Returns
  <2>. QED  BY <1>0, <2>1, <2>3, <2>4, DirectoryStep
<1>2. CASE task[w].at = "fsyncdir"
  <2>1. UNCHANGED <<disk, writes>>
    BY <1>0, <1>2 DEF Fail, disk
  <2>. QED  BY <1>0, <2>1, GiveUpStep DEF Returns
<1>. QED  BY <1>1, <1>2 DEF Fail

LEMMA FsyncDirStep == ASSUME FileInv, NEW w \in Writers, FsyncDir(w) PROVE FileInv'
<1>1. DiskTypes /\ TaskTypes /\ SeenInv /\ NameInv /\ TaskInv /\ WholeInv
  BY DEF FileInv
<1>2. /\ entries' = {names} /\ Returns(w) /\ names \in entries
      /\ UNCHANGED <<names, exists, anchored, bytes, blocks, writes>>
  BY <1>1 DEF FsyncDir, SeenInv
<1>3. /\ TaskTypes' /\ task'[w].at = "idle"
      /\ \A v \in Writers \ {w} : task'[v] = task[v]
  BY <1>1, <1>2, ReturnsTask DEF Returns, TaskTypes
<1>4. Inodes' = Inodes /\ Names' = Names /\ EmptyDir' = EmptyDir
  BY DEF Inodes, Names, EmptyDir
<1>5. DiskTypes' /\ SeenInv' /\ WholeInv'
  BY <1>1, <1>2, <1>4 DEF DiskTypes, SeenInv, WholeInv, Directories, Data
<1>6. NameInv'
  BY <1>1, <1>2, <1>4 DEF NameInv
<1>7. TaskInv'
  BY <1>1, <1>2, <1>3, <1>4 DEF TaskInv
<1>. QED  BY <1>3, <1>5, <1>6, <1>7 DEF FileInv

-----------------------------------------------------------------------------
(* A power loss, and the rest. *)

LEMMA PowerLossStep == ASSUME FileInv, PowerLoss PROVE FileInv'
<1>1. DiskTypes /\ TaskTypes /\ SeenInv /\ NameInv /\ TaskInv /\ WholeInv
  BY DEF FileInv
<1>2. PICK data \in IF names'[Final] = None THEN {Empty} ELSE blocks[names'[Final]] :
          bytes' = [i \in Inodes |-> IF i = names'[Final] THEN data ELSE Empty]
  BY DEF PowerLoss
<1>3. /\ entries' = {names'} /\ blocks' = [i \in Inodes |-> {bytes'[i]}]
      /\ task' = [w \in Writers |-> Idle] /\ writes' = writes
      /\ anchored' = (anchored \/ exists')
      /\ \/ names' \in entries /\ exists' = exists
         \/ names' = EmptyDir /\ exists' = FALSE
  BY DEF PowerLoss
<1>4. EmptyDir \in Directories /\ \A n \in Names : EmptyDir[n] = None
  BY Constants DEF EmptyDir, Directories
<1>5. names' \in Directories /\ names'[Final] \in 0..MaxWrites
  BY <1>1, <1>3, <1>4, Constants DEF DiskTypes, Directories
<1>6. /\ \A m, n \in Names : names'[m] = names'[n] /\ names'[m] # None => m = n
      /\ \A n \in Names : names'[n] <= writes
  <2>1. CASE names' \in entries
    BY <1>1, <2>1 DEF NameInv
  <2>2. CASE names' = EmptyDir
    BY <1>1, <1>4, <2>2, Constants DEF TaskTypes
  <2>. QED  BY <1>3, <2>1, <2>2
<1>7. Empty \in Data
  BY Constants DEF Empty, Data
<1>8. data \in Data /\ (names'[Final] # None => data.of \in 1..MaxWrites /\ data.parts = Parts)
  <2>1. CASE names'[Final] = None
    BY <1>2, <1>7, <2>1
  <2>2. CASE names'[Final] # None
    <3>1. names' \in entries /\ names'[Final] \in Inodes
      BY <1>3, <1>4, <1>5, <2>2, Constants DEF Inodes
    <3>2. data \in blocks[names'[Final]]
      BY <1>2, <2>2
    <3>. QED  BY <1>1, <2>2, <3>1, <3>2 DEF DiskTypes, WholeInv
  <2>. QED  BY <2>1, <2>2
<1>9. Inodes' = Inodes /\ Names' = Names /\ EmptyDir' = EmptyDir
  BY DEF Inodes, Names, EmptyDir
<1>10. DiskTypes'
  <2>1. exists' \in BOOLEAN /\ anchored' \in BOOLEAN
    BY <1>1, <1>3 DEF DiskTypes
  <2>2. bytes' \in [Inodes -> Data]
    BY <1>2, <1>7, <1>8
  <2>3. blocks' \in [Inodes -> SUBSET Data]
    BY <1>3, <2>2
  <2>. QED  BY <1>3, <1>5, <1>9, <2>1, <2>2, <2>3 DEF DiskTypes, Directories, Data
<1>11. TaskTypes' /\ \A w \in Writers : task'[w].at = "idle"
  BY <1>1, <1>3, IdleTask DEF TaskTypes
<1>12. SeenInv'
  BY <1>3, <1>9 DEF SeenInv
<1>13. NameInv'
  <2>1. ~exists' => names' = EmptyDir
    BY <1>1, <1>3 DEF NameInv
  <2>2. \A w \in Writers : names'[w] # None => names'[Final] # names'[w]
    BY <1>6, Constants
  <2>. QED  BY <1>3, <1>6, <1>9, <2>1, <2>2 DEF NameInv
<1>14. TaskInv'
  BY <1>11 DEF TaskInv
<1>15. WholeInv'
  <2>1. ASSUME names'[Final] # None PROVE blocks'[names'[Final]] = {data}
    <3>1. names'[Final] \in Inodes
      BY <1>5, <2>1, Constants DEF Inodes
    <3>. QED  BY <1>2, <1>3, <3>1
  <2>. QED  BY <1>3, <1>8, <2>1 DEF WholeInv
<1>. QED  BY <1>10, <1>11, <1>12, <1>13, <1>14, <1>15 DEF FileInv

LEMMA AnchorStep == ASSUME FileInv, Anchor PROVE FileInv'
<1>1. /\ anchored' = TRUE /\ UNCHANGED <<names, entries, exists, bytes, blocks, task, writes>>
  BY DEF Anchor
<1>2. DiskTypes' /\ SeenInv' /\ NameInv' /\ WholeInv' /\ TaskTypes' /\ TaskInv'
  BY <1>1 DEF FileInv, DiskTypes, SeenInv, NameInv, WholeInv, TaskTypes, TaskInv, Directories, Data,
              Inodes, EmptyDir, Names
<1>. QED  BY <1>2 DEF FileInv

LEMMA ReaderStep ==
    ASSUME FileInv, ReaderOpen \/ ReaderRead \/ ReaderClose \/ UNCHANGED vars
    PROVE  FileInv' /\ UNCHANGED <<disk, task, writes>>
<1>1. UNCHANGED <<disk, task, writes>>
  BY DEF ReaderOpen, ReaderRead, ReaderClose, vars
<1>2. TaskTypes' /\ TaskInv'
  BY <1>1 DEF FileInv, TaskTypes, TaskInv, disk, Inodes
<1>. QED  BY <1>1, <1>2, DiskStays

LEMMA FileStep == FileInv /\ [Next]_vars => FileInv'
<1>. SUFFICES ASSUME FileInv, [Next]_vars PROVE FileInv'
  OBVIOUS
<1>1. ASSUME NEW w \in Writers, Killed(w) PROVE FileInv'
  BY <1>1, GiveUpStep DEF Killed
<1>. QED  BY <1>1, OpenStep, WriteStep, FsyncDataStep, RenameStep, FsyncDirStep, FailStep, PowerLossStep,
             AnchorStep, ReaderStep DEF Next

LEMMA FileInvariant == Spec => []FileInv
BY InitOK, FileStep, PTL DEF Spec

-----------------------------------------------------------------------------
(* What a step leaves alone. *)

WriterStep(w) ==
    \/ Open(w) \/ Write(w) \/ FsyncData(w) \/ Rename(w) \/ FsyncDir(w) \/ Fail(w) \/ Killed(w)

\* No writer touches an inode that is not the temporary of a process.
LEMMA Untouched ==
    ASSUME FileInv, NEW w \in Writers, WriterStep(w),
           NEW k \in Inodes, k <= writes, \A v \in Writers : names[v] # k
    PROVE  /\ bytes'[k] = bytes[k] /\ blocks'[k] = blocks[k] /\ k <= writes'
           /\ \A v \in Writers : names'[v] # k
<1>1. /\ bytes \in [Inodes -> Data] /\ blocks \in [Inodes -> SUBSET Data]
      /\ names \in Directories /\ writes \in 0..MaxWrites /\ k # None /\ k \in Nat
  BY Constants DEF FileInv, DiskTypes, TaskTypes, Inodes
<1>2. CASE Open(w)
  <2>1. writes' = writes + 1 /\ writes < MaxWrites
    BY <1>2 DEF Open
  <2>2. Temporary(w) # k /\ Temporary(w) \in Inodes
    BY <1>1, <2>1, NewTemporary DEF Temporary
  <2>3. CASE UNCHANGED <<names, bytes, blocks>>
    BY <1>1, <2>1, <2>3
  <2>4. CASE Stores(Temporary(w), [of |-> writes + 1, parts |-> 0])
             /\ names' = [names EXCEPT ![w] = Temporary(w)]
    BY <1>1, <2>1, <2>2, <2>4, Constants DEF Stores, Directories
  <2>. QED  BY <1>2, <2>3, <2>4 DEF Open, Links
<1>3. CASE Write(w)
  <2>1. task[w].inode # k /\ UNCHANGED <<names, writes>>
    BY <1>3, OwnTemporary DEF Write
  <2>. QED  BY <1>1, <1>3, <2>1 DEF Write, Stores
<1>4. CASE FsyncData(w)
  <2>1. task[w].inode # k /\ UNCHANGED <<names, writes>>
    BY <1>4, OwnTemporary DEF FsyncData
  <2>. QED  BY <1>1, <1>4, <2>1 DEF FsyncData
<1>5. CASE Rename(w)
  BY <1>1, <1>5, Constants DEF Rename, Links, Directories
<1>6. CASE FsyncDir(w) \/ Killed(w)
  BY <1>6 DEF FsyncDir, Killed, disk
<1>7. CASE Fail(w)
  BY <1>1, <1>7, Constants DEF Fail, Links, Directories
<1>. QED  BY <1>2, <1>3, <1>4, <1>5, <1>6, <1>7 DEF WriterStep

\* That is what every file in a directory is.
LEMMA FinalUntouched ==
    ASSUME FileInv, NEW d \in entries, d[Final] # None
    PROVE  /\ d[Final] \in Inodes /\ d[Final] <= writes
           /\ \A v \in Writers : names[v] # d[Final]
<1>1. d[Final] \in 0..MaxWrites
  BY Constants DEF FileInv, DiskTypes, Directories
<1>. QED  BY <1>1, Constants DEF FileInv, NameInv, Inodes

-----------------------------------------------------------------------------
(* Readers. *)

ReadInv ==
    reader.at # "closed" =>
        /\ reader.inode \in Inodes /\ reader.inode <= writes
        /\ \A w \in Writers : names[w] # reader.inode
        /\ bytes[reader.inode].parts = Parts
        /\ reader.parts \in 0..Parts
        /\ reader.parts = 0 => reader.from = {}
        /\ reader.parts # 0 => reader.from = {bytes[reader.inode].of}
        /\ reader.at = "done" => reader.parts = Parts

LEMMA ReadStep == FileInv /\ ReadInv /\ [Next]_vars => ReadInv'
<1>. SUFFICES ASSUME FileInv, ReadInv, [Next]_vars PROVE ReadInv'
  OBVIOUS
<1>1. ASSUME NEW w \in Writers, WriterStep(w) PROVE ReadInv'
  <2>1. reader' = reader
    BY <1>1 DEF WriterStep, Open, Write, FsyncData, Rename, FsyncDir, Fail, Killed, Goes, Returns
  <2>. QED  BY <1>1, <2>1, Untouched DEF ReadInv, Inodes
<1>2. CASE Anchor \/ UNCHANGED vars
  BY <1>2 DEF Anchor, vars, disk, ReadInv, Inodes
<1>3. CASE PowerLoss
  BY <1>3 DEF PowerLoss, Nobody, ReadInv
<1>4. CASE ReaderOpen
  <2>1. names \in entries /\ names[Final] # None
    BY <1>4 DEF FileInv, SeenInv, ReaderOpen
  <2>2. /\ names[Final] \in Inodes /\ names[Final] <= writes
        /\ \A v \in Writers : names[v] # names[Final]
    BY <2>1, FinalUntouched
  <2>3. bytes[names[Final]].parts = Parts
    BY <2>1, <2>2 DEF FileInv, SeenInv, WholeInv
  <2>4. /\ reader'.at = "reading" /\ reader'.inode = names[Final] /\ reader'.parts = 0
        /\ reader'.from = {} /\ UNCHANGED <<names, bytes, writes>>
    BY <1>4 DEF ReaderOpen, Nobody, disk
  <2>. QED  BY <2>2, <2>3, <2>4, Constants DEF ReadInv, Inodes
<1>5. CASE ReaderRead
  <2>1. reader.at = "reading" /\ UNCHANGED <<names, bytes, writes>>
    BY <1>5 DEF ReaderRead, disk
  <2>2. /\ bytes[reader.inode].parts = Parts /\ reader.parts \in 0..Parts
    BY <2>1 DEF ReadInv
  <2>3. CASE reader.parts >= Parts
    <3>1. reader' = [reader EXCEPT !.at = "done"] /\ reader.parts = Parts
      BY <1>5, <2>2, <2>3, Constants DEF ReaderRead
    <3>. QED  BY <2>1, <2>2, <3>1 DEF ReadInv, Inodes
  <2>4. CASE ~(reader.parts >= Parts)
    <3>1. reader' = [reader EXCEPT !.from = @ \cup {bytes[reader.inode].of}, !.parts = @ + 1]
      BY <1>5, <2>2, <2>4 DEF ReaderRead
    <3>2. reader.parts + 1 \in 0..Parts /\ reader.parts + 1 # 0
      BY <2>2, <2>4, Constants
    <3>. QED  BY <2>1, <2>2, <3>1, <3>2 DEF ReadInv, Inodes
  <2>. QED  BY <2>3, <2>4
<1>6. CASE ReaderClose
  BY <1>6 DEF ReaderClose, Nobody, ReadInv
<1>. QED  BY <1>1, <1>2, <1>3, <1>4, <1>5, <1>6 DEF Next, WriterStep

-----------------------------------------------------------------------------
(* Temporaries. *)

LEMMA TempStep == FileInv /\ TempsAreLeftByTheDead /\ [Next]_vars => TempsAreLeftByTheDead'
<1>. SUFFICES ASSUME FileInv, TempsAreLeftByTheDead, [Next]_vars PROVE TempsAreLeftByTheDead'
  OBVIOUS
<1>. USE DEF TempsAreLeftByTheDead
<1>0. names \in Directories /\ TaskTypes /\ TaskInv
  BY DEF FileInv, DiskTypes
<1>1. ASSUME NEW w \in Writers, Open(w) PROVE TempsAreLeftByTheDead'
  <2>1. died' = died /\ task[w].at = "idle"
    BY <1>1 DEF Open, Returns
  <2>2. CASE Returns(w) /\ UNCHANGED names
    BY <1>0, <2>1, <2>2 DEF Returns, TaskTypes
  <2>3. CASE ~(Returns(w) /\ UNCHANGED names)
    <3>1. /\ task' = [task EXCEPT ![w] = [at |-> "write", num |-> writes + 1, inode |-> Temporary(w)]]
          /\ names' = [names EXCEPT ![w] = Temporary(w)]
      BY <1>1, <2>3 DEF Open, Links
    <3>. QED  BY <1>0, <2>1, <3>1, Constants DEF TaskTypes, Directories
  <2>. QED  BY <2>2, <2>3
<1>2. ASSUME NEW w \in Writers, Write(w) \/ FsyncData(w) PROVE TempsAreLeftByTheDead'
  BY <1>0, <1>2 DEF Write, FsyncData, Goes, TaskTypes
<1>3. ASSUME NEW w \in Writers, Rename(w) PROVE TempsAreLeftByTheDead'
  BY <1>0, <1>3, Constants DEF Rename, Links, Goes, TaskTypes, Directories
<1>4. ASSUME NEW w \in Writers, FsyncDir(w) PROVE TempsAreLeftByTheDead'
  BY <1>0, <1>4 DEF FsyncDir, Returns, TaskTypes, TaskInv
<1>5. ASSUME NEW w \in Writers, Fail(w) PROVE TempsAreLeftByTheDead'
  BY <1>0, <1>5, Constants DEF Fail, Links, Returns, TaskTypes, TaskInv, Directories
<1>6. ASSUME NEW w \in Writers, Killed(w) PROVE TempsAreLeftByTheDead'
  BY <1>0, <1>6 DEF Killed, disk, TaskTypes
<1>7. CASE PowerLoss
  <2>1. \A w \in Writers : names'[w] # None => w \in died'
    BY <1>7 DEF PowerLoss
  <2>. QED  BY <2>1
<1>8. CASE Anchor \/ ReaderOpen \/ ReaderRead \/ ReaderClose \/ UNCHANGED vars
  BY <1>8 DEF Anchor, ReaderOpen, ReaderRead, ReaderClose, vars, disk
<1>. QED  BY <1>1, <1>2, <1>3, <1>4, <1>5, <1>6, <1>7, <1>8 DEF Next

-----------------------------------------------------------------------------
(* Acknowledgements. *)

\* The latest rename since the last power loss is the one that is seen; and no directory the
\* medium may have is older than what was acknowledged.
AckInv ==
    /\ RankTypes /\ acked <= renames
    /\ \A i \in Inodes : order[i] <= renames
    /\ AckedSurvives
    /\ \A w \in Writers : task[w].at = "fsyncdir" => names[Final] # None /\ order[names[Final]] = renames

LEMMA MaxOfTwo == \A a, b \in Nat : Max({a, b}) \in Nat /\ Max({a, b}) >= a /\ Max({a, b}) >= b
                                    /\ Max({a, b}) \in {a, b}
<1>. SUFFICES ASSUME NEW a \in Nat, NEW b \in Nat
              PROVE  \E x \in {a, b} : \A y \in {a, b} : x >= y
  BY DEF Max
<1>1. CASE a >= b
  BY <1>1
<1>2. CASE b >= a
  BY <1>2
<1>. QED  BY <1>1, <1>2

\* A step that keeps the ranks, and adds no directory with another file.
LEMMA AckStays ==
    ASSUME FileInv, AckInv, UNCHANGED <<renames, order, acked>>, names'[Final] = names[Final],
           \A d \in entries' : d \in entries \/ d[Final] = names[Final],
           \A w \in Writers : task'[w].at = "fsyncdir" => task[w].at = "fsyncdir"
    PROVE  AckInv'
<1>1. names \in entries
  BY DEF FileInv, SeenInv
<1>2. RankTypes' /\ acked' <= renames' /\ \A i \in Inodes : order'[i] <= renames'
  BY DEF AckInv, RankTypes, Inodes
<1>3. AckedSurvives'
  BY <1>1 DEF AckInv, AckedSurvives
<1>. QED  BY <1>2, <1>3 DEF AckInv, Inodes

LEMMA AckStep == FileInv /\ AckInv /\ [Next]_vars => AckInv'
<1>. SUFFICES ASSUME FileInv, AckInv, [Next]_vars PROVE AckInv'
  OBVIOUS
<1>0. /\ names \in Directories /\ TaskTypes /\ TaskInv /\ names \in entries
      /\ renames \in Nat /\ acked \in Nat /\ order \in [Inodes -> Nat]
  BY DEF FileInv, DiskTypes, SeenInv, AckInv, RankTypes
<1>1. ASSUME NEW w \in Writers, Open(w) PROVE AckInv'
  <2>1. UNCHANGED <<renames, order, acked>>
    BY <1>1 DEF Open, ranks
  <2>2. CASE Returns(w) /\ UNCHANGED <<names, entries>>
    BY <1>0, <2>1, <2>2, AckStays DEF Returns, Idle, TaskTypes
  <2>3. CASE ~(Returns(w) /\ UNCHANGED <<names, entries>>)
    <3>1. /\ task' = [task EXCEPT ![w] = [at |-> "write", num |-> writes + 1, inode |-> Temporary(w)]]
          /\ Links([names EXCEPT ![w] = Temporary(w)])
      BY <1>1, <2>3 DEF Open
    <3>. QED  BY <1>0, <2>1, <3>1, AckStays, Constants DEF Links, TaskTypes, Directories
  <2>. QED  BY <2>2, <2>3
<1>2. ASSUME NEW w \in Writers, Write(w) \/ FsyncData(w) PROVE AckInv'
  BY <1>0, <1>2, AckStays DEF Write, FsyncData, Goes, TaskTypes, ranks
<1>3. ASSUME NEW w \in Writers, Rename(w) PROVE AckInv'
  <2>. DEFINE d == [names EXCEPT ![Final] = names[w], ![w] = None]
              i == names[w]
  <2>1. /\ task[w].at = "rename" /\ i \in Inodes /\ i # None /\ \A e \in entries : e[Final] # i
        /\ names' = d /\ entries' = entries \cup {d} /\ d[Final] = i
        /\ renames' = renames + 1 /\ order' = [order EXCEPT ![i] = renames + 1] /\ acked' = acked
    BY <1>0, <1>3, OwnTemporary, Constants DEF Rename, Links, Directories
  <2>2. order'[i] = renames + 1 /\ \A k \in Inodes \ {i} : order'[k] = order[k]
    BY <1>0, <2>1
  <2>3. RankTypes' /\ acked' <= renames' /\ \A k \in Inodes : order'[k] <= renames'
    BY <1>0, <2>1, <2>2 DEF RankTypes, AckInv, Inodes
  <2>4. AckedSurvives'
    <3>1. ASSUME NEW e \in entries, acked > 0 PROVE e[Final] # None /\ order'[e[Final]] >= acked
      <4>1. e[Final] # None /\ order[e[Final]] >= acked
        BY <3>1 DEF AckInv, AckedSurvives
      <4>. QED  BY <2>1, <2>2, <4>1, FinalUntouched
    <3>2. order'[d[Final]] >= acked
      BY <1>0, <2>1, <2>2 DEF AckInv
    <3>. QED  BY <2>1, <3>1, <3>2 DEF AckedSurvives
  <2>. QED  BY <2>1, <2>2, <2>3, <2>4 DEF AckInv, Inodes
<1>4. ASSUME NEW w \in Writers, FsyncDir(w) PROVE AckInv'
  <2>1. /\ task[w].at = "fsyncdir" /\ task[w].inode \in Inodes
        /\ entries' = {names} /\ UNCHANGED <<names, renames, order>>
        /\ acked' = Max({acked, order[task[w].inode]})
        /\ task' = [task EXCEPT ![w] = Idle]
    BY <1>0, <1>4 DEF FsyncDir, ranks, Returns, TaskInv
  <2>2. order[task[w].inode] \in Nat /\ order[task[w].inode] <= renames /\ acked <= renames
    BY <1>0, <2>1 DEF AckInv
  <2>3. acked' \in Nat /\ acked' <= renames
    BY <1>0, <2>1, <2>2, MaxOfTwo
  <2>4. names[Final] # None /\ order[names[Final]] = renames
    BY <2>1 DEF AckInv
  <2>5. AckedSurvives'
    BY <1>0, <2>1, <2>3, <2>4 DEF AckedSurvives
  <2>6. \A v \in Writers : task'[v].at = "fsyncdir" => task[v].at = "fsyncdir"
    BY <1>0, <2>1 DEF TaskTypes, Idle
  <2>. QED  BY <1>0, <2>1, <2>3, <2>4, <2>5, <2>6 DEF AckInv, RankTypes, Inodes
<1>5. ASSUME NEW w \in Writers, Fail(w) PROVE AckInv'
  <2>1. UNCHANGED <<renames, order, acked>> /\ task' = [task EXCEPT ![w] = Idle]
    BY <1>5 DEF Fail, Returns, ranks
  <2>2. names'[Final] = names[Final] /\ \A d \in entries' : d \in entries \/ d[Final] = names[Final]
    BY <1>0, <1>5, Constants DEF Fail, Links, Directories
  <2>. QED  BY <1>0, <2>1, <2>2, AckStays DEF TaskTypes, Idle
<1>6. ASSUME NEW w \in Writers, Killed(w) PROVE AckInv'
  BY <1>0, <1>6, AckStays DEF Killed, disk, ranks, TaskTypes, Idle
<1>7. CASE PowerLoss
  <2>1. UNCHANGED <<renames, order>> /\ acked' = IF exists' THEN acked ELSE 0
    BY <1>7 DEF PowerLoss, ranks
  <2>2. \A w \in Writers : task'[w].at = "idle"
    BY <1>7 DEF PowerLoss, Idle
  <2>3. exists' => names' \in entries /\ entries' = {names'}
    BY <1>7 DEF PowerLoss
  <2>4. AckedSurvives'
    BY <1>0, <2>1, <2>3 DEF AckInv, AckedSurvives
  <2>. QED  BY <1>0, <2>1, <2>2, <2>4 DEF AckInv, RankTypes, Inodes
<1>8. CASE Anchor \/ ReaderOpen \/ ReaderRead \/ ReaderClose \/ UNCHANGED vars
  BY <1>8, AckStays DEF Anchor, ReaderOpen, ReaderRead, ReaderClose, vars, disk, ranks
<1>. QED  BY <1>1, <1>2, <1>3, <1>4, <1>5, <1>6, <1>7, <1>8 DEF Next

-----------------------------------------------------------------------------
(* The file as its readers see it: AtomicFile implements DurableFile. *)

\* Stutters: the file is the same, and no directory with another one came up.
LEMMA SameView ==
    ASSUME FileInv, anchored' = anchored, names'[Final] = names[Final], entries \subseteq entries',
           \A d \in entries' : d \in entries \/ d[Final] = names[Final],
           \A d \in entries : d[Final] # None =>
               blocks'[d[Final]] = blocks[d[Final]] /\ bytes'[d[Final]] = bytes[d[Final]]
    PROVE  UNCHANGED <<File, Safe>>
<1>1. names \in entries
  BY DEF FileInv, SeenInv
<1>2. File' = File
  BY <1>1 DEF File, Version
<1>3. \A d \in entries : MayHold(d)' = MayHold(d)
  BY DEF MayHold, Version
<1>4. \A d \in entries' : d \in entries \/ MayHold(d)' = MayHold(names)
  BY <1>1 DEF MayHold, Version
<1>5. UNION {MayHold(d)' : d \in entries'} = UNION {MayHold(d) : d \in entries}
  BY <1>1, <1>3, <1>4
<1>. QED  BY <1>2, <1>5 DEF Safe

\* The file is always among what a power loss may bring back.
LEMMA FileIsSafe == FileInv => File \in Safe
<1>. SUFFICES ASSUME FileInv PROVE File \in Safe
  OBVIOUS
<1>1. names \in entries
  BY DEF FileInv, SeenInv
<1>2. File \in MayHold(names)
  <2>1. CASE names[Final] = None
    BY <2>1 DEF File, MayHold
  <2>2. CASE names[Final] # None
    <3>1. bytes[names[Final]] \in blocks[names[Final]]
      BY <1>1, <2>2, FinalUntouched DEF FileInv, SeenInv
    <3>. QED  BY <2>2, <3>1 DEF File, MayHold
  <2>. QED  BY <2>1, <2>2
<1>. QED  BY <1>1, <1>2 DEF Safe

LEMMA FileStaysSafe == (FileInv => File \in Safe)'
BY FileIsSafe, PTL

LEMMA WriterRefines ==
    ASSUME FileInv, FileInv', NEW w \in Writers, WriterStep(w)
    PROVE  [Durable!Next]_Durable!vars
<1>0. /\ names \in Directories /\ TaskTypes /\ TaskInv /\ names \in entries
      /\ bytes \in [Inodes -> Data] /\ blocks \in [Inodes -> SUBSET Data]
  BY DEF FileInv, DiskTypes, SeenInv
<1>1. \A d \in entries : d[Final] # None =>
          blocks'[d[Final]] = blocks[d[Final]] /\ bytes'[d[Final]] = bytes[d[Final]]
  BY FinalUntouched, Untouched
<1>2. CASE Open(w) \/ Write(w) \/ FsyncData(w) \/ Fail(w) \/ Killed(w)
  <2>1. /\ anchored' = anchored /\ names'[Final] = names[Final] /\ entries \subseteq entries'
        /\ \A d \in entries' : d \in entries \/ d[Final] = names[Final]
    BY <1>0, <1>2, Constants
       DEF Open, Write, FsyncData, Fail, Killed, Links, disk, Directories
  <2>. QED  BY <1>1, <2>1, SameView DEF Durable!vars
<1>3. CASE Rename(w)
  <2>. DEFINE d == [names EXCEPT ![Final] = names[w], ![w] = None]
              i == names[w]
              v == task[w].num
  <2>1. /\ task[w].at = "rename" /\ i \in Inodes /\ i # None
        /\ names' = d /\ entries' = entries \cup {d} /\ d[Final] = i
        /\ UNCHANGED <<anchored, bytes, blocks>>
    BY <1>0, <1>3, OwnTemporary, Constants DEF Rename, Links, Directories
  <2>2. v \in 1..MaxWrites /\ bytes[i].of = v /\ bytes[i].parts = Parts /\ blocks[i] = {bytes[i]}
    BY <1>0, <2>1 DEF TaskInv
  <2>3. Version(bytes[i]) = v
    BY <2>2 DEF Version
  <2>4. File' = v
    BY <2>1, <2>3 DEF File
  <2>5. \A e : e[Final] = i => MayHold(e)' = {v}
    BY <2>1, <2>2, <2>3, Constants DEF MayHold
  <2>6. /\ \A e \in entries : MayHold(e)' = MayHold(e)
        /\ d \in entries' /\ \A e \in entries' : e \in entries \/ MayHold(e)' = {v}
    BY <2>1, <2>5 DEF MayHold
  <2>7. Safe' = Safe \cup {v}
    <3>. DEFINE held == UNION {MayHold(e) : e \in entries}
                heldNow == UNION {MayHold(e)' : e \in entries'}
    <3>1. v \in heldNow /\ held \subseteq heldNow
      BY <2>1, <2>5, <2>6
    <3>2. heldNow \subseteq held \cup {v}
      BY <2>6
    <3>3. heldNow = held \cup {v}
      BY <3>1, <3>2
    <3>4. Safe = held \cup (IF anchored THEN {} ELSE {0})
      BY DEF Safe
    <3>5. Safe' = heldNow \cup (IF anchored' THEN {} ELSE {0})
      BY DEF Safe
    <3>6. anchored' = anchored
      BY <2>1
    <3>. HIDE DEF held, heldNow
    <3>. QED  BY <3>3, <3>4, <3>5, <3>6
  <2>. QED  BY <2>2, <2>4, <2>7 DEF Durable!Next, Durable!Install
<1>4. CASE FsyncDir(w)
  <2>1. entries' = {names} /\ UNCHANGED <<names, anchored, bytes, blocks>>
    BY <1>4 DEF FsyncDir
  <2>2. File' = File
    BY <2>1 DEF File
  <2>3. \A d \in entries' : d \in entries /\ MayHold(d)' = MayHold(d)
    BY <1>0, <2>1 DEF MayHold
  <2>4. Safe' \subseteq Safe
    BY <2>1, <2>3 DEF Safe
  <2>5. File \in Safe'
    BY <2>2, FileStaysSafe
  <2>. QED  BY <2>2, <2>4, <2>5 DEF Durable!Next, Durable!Settle
<1>. QED  BY <1>2, <1>3, <1>4 DEF WriterStep

LEMMA AnchorRefines == ASSUME FileInv, FileInv', Anchor PROVE [Durable!Next]_Durable!vars
<1>1. anchored' = TRUE /\ UNCHANGED <<names, entries, bytes, blocks>>
  BY DEF Anchor
<1>2. File' = File
  BY <1>1 DEF File
<1>3. \A d \in entries : MayHold(d)' = MayHold(d)
  BY <1>1 DEF MayHold
<1>4. Safe' \subseteq Safe
  BY <1>1, <1>3 DEF Safe
<1>5. File \in Safe'
  BY <1>2, FileStaysSafe
<1>. QED  BY <1>2, <1>4, <1>5 DEF Durable!Next, Durable!Settle

LEMMA PowerLossRefines ==
    ASSUME FileInv, FileInv', PowerLoss
    PROVE  [Durable!Next]_Durable!vars
<1>1. /\ entries' = {names'} /\ anchored' = (anchored \/ exists')
      /\ blocks' = [i \in Inodes |-> {bytes'[i]}]
      /\ \/ names' \in entries /\ exists' = exists
         \/ ~anchored /\ names' = EmptyDir /\ exists' = FALSE
  BY DEF PowerLoss
<1>2. PICK data \in IF names'[Final] = None THEN {Empty} ELSE blocks[names'[Final]] :
          bytes' = [i \in Inodes |-> IF i = names'[Final] THEN data ELSE Empty]
  BY DEF PowerLoss
<1>3. names'[Final] \in 0..MaxWrites /\ EmptyDir[Final] = None
  BY Constants DEF FileInv, DiskTypes, Directories, EmptyDir
<1>4. ~anchored' => File' = 0
  <2>1. ASSUME ~anchored' PROVE names' = EmptyDir
    BY <1>1, <2>1 DEF FileInv, NameInv
  <2>. QED  BY <1>3, <2>1 DEF File
<1>5. CASE names'[Final] = None
  <2>1. File' = 0
    BY <1>5 DEF File
  <2>2. \A e \in entries' : MayHold(e)' = {0}
    BY <1>1, <1>5 DEF MayHold
  <2>3. Safe' = {0}
    BY <1>1, <2>2 DEF Safe
  <2>4. 0 \in Safe
    <3>1. CASE names' \in entries
      BY <1>5, <3>1 DEF Safe, MayHold
    <3>2. CASE ~anchored
      BY <3>2 DEF Safe
    <3>. QED  BY <1>1, <3>1, <3>2
  <2>. QED  BY <2>1, <2>3, <2>4 DEF Durable!Next, Durable!PowerLoss
<1>6. CASE names'[Final] # None
  <2>1. names' \in entries /\ names'[Final] \in Inodes /\ data \in blocks[names'[Final]]
    BY <1>1, <1>2, <1>3, <1>6, Constants DEF Inodes
  <2>2. bytes'[names'[Final]] = data /\ blocks'[names'[Final]] = {data}
    BY <1>1, <1>2, <2>1
  <2>3. File' = Version(data)
    BY <1>6, <2>2 DEF File
  <2>4. \A e \in entries' : MayHold(e)' = {Version(data)}
    BY <1>1, <1>6, <2>2 DEF MayHold
  <2>5. anchored'
    BY <1>1, <1>3, <1>6, <2>1 DEF FileInv, NameInv
  <2>6. Safe' = {Version(data)}
    BY <1>1, <2>4, <2>5 DEF Safe
  <2>7. Version(data) \in Safe
    BY <1>6, <2>1 DEF Safe, MayHold
  <2>. QED  BY <2>3, <2>6, <2>7 DEF Durable!Next, Durable!PowerLoss
<1>. QED  BY <1>5, <1>6

LEMMA InitRefines == Init => Durable!Init
<1>. SUFFICES ASSUME Init PROVE Durable!Init
  OBVIOUS
<1>1. names = EmptyDir /\ entries = {EmptyDir} /\ EmptyDir[Final] = None
  BY Constants DEF Init, EmptyDir
<1>2. File = 0
  BY <1>1 DEF File
<1>3. MayHold(EmptyDir) = {0}
  BY <1>1 DEF MayHold
<1>4. Safe = {0}
  BY <1>1, <1>3 DEF Safe
<1>. QED  BY <1>2, <1>4 DEF Durable!Init

LEMMA StepRefines == FileInv /\ FileInv' /\ [Next]_vars => [Durable!Next]_Durable!vars
<1>. SUFFICES ASSUME FileInv, FileInv', [Next]_vars PROVE [Durable!Next]_Durable!vars
  OBVIOUS
<1>1. CASE ReaderOpen \/ ReaderRead \/ ReaderClose \/ UNCHANGED vars
  <2>1. UNCHANGED <<names, entries, anchored, bytes, blocks>>
    BY <1>1 DEF ReaderOpen, ReaderRead, ReaderClose, vars, disk
  <2>. QED  BY <2>1, SameView DEF Durable!vars
<1>. QED  BY <1>1, WriterRefines, AnchorRefines, PowerLossRefines DEF Next, WriterStep

-----------------------------------------------------------------------------
(* The theorems. *)

\* Every behaviour of atomic_write_file and publish_file, with any number of processes that are
\* killed, calls that fail and power losses, is one of DurableFile: whole versions replace each
\* other, and a power loss brings back one that the medium was allowed to hold.
THEOREM ImplementsDurableFile == Spec => IsDurable
BY FileInvariant, InitRefines, StepRefines, PTL DEF Spec, IsDurable, Durable!Spec

\* read_text_file returns one version, all of it, however many writers replace the file under it.
THEOREM ReadersSeeWholeFiles == Spec => []ReadsAreWhole
<1>1. Init => ReadInv
  BY DEF Init, Nobody, ReadInv
<1>2. FileInv /\ ReadInv => ReadsAreWhole
  <2>. SUFFICES ASSUME ReadInv, reader.at = "done"
                PROVE  Cardinality(reader.from) = 1 /\ reader.parts = Parts
    BY DEF ReadsAreWhole
  <2>1. reader.parts = Parts /\ reader.from = {bytes[reader.inode].of}
    BY Constants DEF ReadInv
  <2>. QED  BY <2>1, FS_Singleton
<1>. QED  BY FileInvariant, ReadStep, <1>1, <1>2, PTL DEF Spec

\* What a write has reported as written is not undone by a power loss, as long as the job
\* directory is not lost as a whole.
THEOREM AcknowledgedIsKept == Spec => []AckedSurvives
<1>1. Init => AckInv
  BY DEF Init, AckInv, RankTypes, AckedSurvives, Idle
<1>2. AckInv => AckedSurvives
  BY DEF AckInv
<1>. QED  BY FileInvariant, AckStep, <1>1, <1>2, PTL DEF Spec

\* A write that returns, with true or false, leaves no temporary behind.
THEOREM WritersCleanUp == Spec => []TempsAreLeftByTheDead
<1>1. Init => TempsAreLeftByTheDead
  BY Constants DEF Init, TempsAreLeftByTheDead, EmptyDir
<1>. QED  BY FileInvariant, TempStep, <1>1, PTL DEF Spec
=============================================================================
