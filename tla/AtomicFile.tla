----------------------------- MODULE AtomicFile -----------------------------
(***************************************************************************)
(* The durable replacement of a small file: atomic_write_file (records,    *)
(* controller.pid, results) and the copy worker with publish_file, on a    *)
(* file system that keeps in its cache what no fsync has forced out.       *)
(* Several processes write the same name; each may be killed between two   *)
(* system calls, any call may fail, and the power may go. A process stands *)
(* for its pid: the next process with that pid uses the same temporary.    *)
(***************************************************************************)
EXTENDS Naturals, FiniteSetsExt

CONSTANTS
    Writers,    \* pids
    MaxWrites,  \* bound: calls of atomic_write_file, or copies
    Parts       \* write calls it takes to write the data

ASSUME AtomicFileAssumption ==
    MaxWrites \in Nat \ {0} /\ Parts \in Nat \ {0} /\ "meta" \notin Writers

VARIABLES
    how,        \* "replace": atomic_write_file, or "copy": the copy worker
    names,      \* the directory as processes see it: name -> inode
    entries,    \* the directories the medium may hold
    exists,     \* is there a job directory?
    anchored,   \* has the medium the entry of the job directory in jobs/?
    bytes,      \* bytes[i]: which write's data inode i holds, and how many parts
    blocks,     \* blocks[i]: the contents the medium may hold for inode i
    task,       \* of each writer: its next call, its write's number, its open temporary
    died,       \* pids of which a process was killed in the middle of a write
    writes,     \* writes begun
    renames,    \* renames made
    order,      \* order[i]: the how-manieth rename put inode i in place
    acked,      \* the order of the latest write that returned true
    reader      \* read_text_file: the open inode and what was read

disk  == <<names, entries, exists, anchored, bytes, blocks>>
ranks == <<renames, order>>
vars  == <<how, disk, task, died, writes, ranks, acked, reader>>

None   == 0                     \* no inode
Inodes == 1..MaxWrites          \* the k-th write makes inode k, unless it reuses one
Final  == "meta"
Names  == {Final} \cup Writers  \* a writer stands for the name of its temporary too
Nobody == [at |-> "closed", inode |-> None, from |-> {}, parts |-> 0]

Idle == [at |-> "idle", num |-> 0, inode |-> None]
Empty == [of |-> 0, parts |-> 0]
EmptyDir == [n \in Names |-> None]

Init ==
    /\ how \in {"replace", "copy"}
    /\ names = EmptyDir /\ entries = {EmptyDir}
    /\ exists = (how = "copy") /\ anchored \in {FALSE, exists}
    /\ bytes = [i \in Inodes |-> Empty] /\ blocks = [i \in Inodes |-> {Empty}]
    /\ task = [w \in Writers |-> Idle]
    /\ died = {} /\ writes = 0
    /\ renames = 0 /\ order = [i \in Inodes |-> 0] /\ acked = 0
    /\ reader = Nobody

-----------------------------------------------------------------------------
\* A directory operation is seen at once; the medium may have it or not.
Links(d) ==
    /\ names' = d
    /\ entries' = entries \cup {d}

Stores(i, data) ==
    /\ bytes' = [bytes EXCEPT ![i] = data]
    /\ blocks' = [blocks EXCEPT ![i] = @ \cup {data}]

Goes(w, label) ==
    /\ task' = [task EXCEPT ![w].at = label]
    /\ UNCHANGED <<how, died, reader>>

Returns(w) ==
    /\ task' = [task EXCEPT ![w] = Idle]
    /\ UNCHANGED <<how, died, reader>>

\* save_meta's mkdir, whose own entry in jobs/ nothing forces out, and the temporary: O_TRUNC
\* takes over what a dead process with this pid has left, O_EXCL refuses it.
CanOpen(w) == how = "replace" \/ (exists /\ names[w] = None)
InPlace(w)   == IF names[Final] = None THEN writes + 1 ELSE names[Final]
Temporary(w) == IF names[w] = None THEN writes + 1 ELSE names[w]
Open(w) ==
    /\ task[w].at = "idle" /\ writes < MaxWrites
    /\ writes' = writes + 1
    /\ exists' = (exists \/ how = "replace")
    /\ \/ /\ CanOpen(w)
          /\ task' = [task EXCEPT ![w] = [at |-> "write", num |-> writes + 1,
                                           inode |-> Temporary(w)]]
          /\ Stores(Temporary(w), [of |-> writes + 1, parts |-> 0])
          /\ Links([names EXCEPT ![w] = Temporary(w)])
          /\ UNCHANGED <<how, died, reader>>
       \/ /\ Returns(w)
          /\ UNCHANGED <<names, entries, bytes, blocks>>
    /\ UNCHANGED <<anchored, ranks, acked>>

\* write_all, part by part.
Write(w) ==
    /\ task[w].at = "write"
    /\ LET had == bytes[task[w].inode].parts IN
          IF had = Parts THEN Goes(w, "fsync") /\ UNCHANGED <<bytes, blocks>>
          ELSE Stores(task[w].inode, [of |-> task[w].num, parts |-> had + 1]) /\ Goes(w, "write")
    /\ UNCHANGED <<names, entries, exists, anchored, writes, ranks, acked>>

NoFsync(w) ==
    /\ task[w].at = "fsync"
    /\ Goes(w, "rename")
    /\ UNCHANGED <<disk, writes, ranks, acked>>

\* fsync(filefd): the medium has the data.
FsyncData(w) ==
    /\ task[w].at = "fsync"
    /\ blocks' = [blocks EXCEPT ![task[w].inode] = {bytes[task[w].inode]}]
    /\ Goes(w, "rename")
    /\ UNCHANGED <<names, entries, exists, anchored, bytes, writes, ranks, acked>>

\* replace_at: one directory operation.
Rename(w) ==
    /\ task[w].at = "rename"
    /\ Links([names EXCEPT ![Final] = names[w], ![w] = None])
    /\ renames' = renames + 1 /\ order' = [order EXCEPT ![names[w]] = renames + 1]
    /\ Goes(w, "fsyncdir")
    /\ UNCHANGED <<exists, anchored, bytes, blocks, writes, acked>>

NoFsyncDir(w) ==
    /\ task[w].at = "fsyncdir"
    /\ acked' = Max({acked, order[task[w].inode]})
    /\ Returns(w)
    /\ UNCHANGED <<disk, writes, ranks>>

\* fsync(dirfd), and true is returned.
FsyncDir(w) ==
    /\ task[w].at = "fsyncdir"
    /\ entries' = {names}
    /\ acked' = Max({acked, order[task[w].inode]})
    /\ Returns(w)
    /\ UNCHANGED <<names, exists, anchored, bytes, blocks, writes, ranks>>

FailKeeping(w) ==
    /\ task[w].at \in {"write", "fsync", "rename", "fsyncdir"}
    /\ Returns(w)
    /\ UNCHANGED <<disk, writes, ranks, acked>>

\* A call fails: false is returned. Before the rename the temporary is removed.
Fail(w) ==
    /\ \/ /\ task[w].at \in {"write", "fsync", "rename"}
          /\ Links([names EXCEPT ![w] = None])
       \/ /\ task[w].at = "fsyncdir"
          /\ UNCHANGED <<names, entries>>
    /\ Returns(w)
    /\ UNCHANGED <<exists, anchored, bytes, blocks, writes, ranks, acked>>

-----------------------------------------------------------------------------
(* What may happen to it. *)

\* A writer is killed; its temporary stays.
Killed(w) ==
    /\ task[w] # Idle
    /\ task' = [task EXCEPT ![w] = Idle]
    /\ died' = died \cup {w}
    /\ UNCHANGED <<how, disk, writes, ranks, acked, reader>>

\* The kernel writes the entry of the job directory back on its own.
Anchor ==
    /\ exists /\ ~anchored
    /\ anchored' = TRUE
    /\ UNCHANGED <<how, names, entries, exists, bytes, blocks, task, died, writes, ranks,
                   acked, reader>>

\* The cache is lost: what is left is one of the directories the medium may hold, or none at
\* all, and in the file one of the contents its inode may hold. (What is in a temporary does
\* not matter: it is truncated or refused, never read.)
PowerLoss ==
    /\ \/ names' \in entries /\ exists' = exists
       \/ ~anchored /\ names' = EmptyDir /\ exists' = FALSE
    /\ entries' = {names'} /\ anchored' = (anchored \/ exists')
    /\ \E data \in IF names'[Final] = None THEN {Empty} ELSE blocks[names'[Final]] :
          bytes' = [i \in Inodes |-> IF i = names'[Final] THEN data ELSE Empty]
    /\ blocks' = [i \in Inodes |-> {bytes'[i]}]
    /\ task' = [w \in Writers |-> Idle]
    /\ died' = died \cup {w \in Writers : task[w] # Idle \/ names'[w] # None}
    /\ reader' = Nobody
    /\ acked' = IF exists' THEN acked ELSE 0
    /\ UNCHANGED <<how, writes, ranks>>

-----------------------------------------------------------------------------
(* read_text_file: open, read until a read returns nothing. *)

ReaderOpen ==
    /\ reader.at = "closed" /\ names[Final] # None
    /\ reader' = [Nobody EXCEPT !.at = "reading", !.inode = names[Final]]
    /\ UNCHANGED <<how, disk, task, died, writes, ranks, acked>>

ReaderRead ==
    /\ reader.at = "reading"
    /\ LET data == bytes[reader.inode] IN
          IF reader.parts >= data.parts THEN reader' = [reader EXCEPT !.at = "done"]
          ELSE reader' = [reader EXCEPT !.from = @ \cup {data.of}, !.parts = @ + 1]
    /\ UNCHANGED <<how, disk, task, died, writes, ranks, acked>>

ReaderClose ==
    /\ reader.at = "done" /\ reader' = Nobody
    /\ UNCHANGED <<how, disk, task, died, writes, ranks, acked>>

Next ==
    \/ \E w \in Writers : \/ Open(w) \/ Write(w) \/ FsyncData(w) \/ Rename(w) \/ FsyncDir(w)
                          \/ Fail(w) \/ Killed(w)
    \/ Anchor \/ PowerLoss
    \/ ReaderOpen \/ ReaderRead \/ ReaderClose

Spec == Init /\ [][Next]_vars

-----------------------------------------------------------------------------
\* store.cpp:545, "A reader that opens "meta" sees the old inode or the new one, never a mix of
\* the two": whatever is written, killed or lost meanwhile, a read of the file to its end has
\* all of one write and nothing of another.
ReadsAreWhole ==
    reader.at = "done" => Cardinality(reader.from) = 1 /\ reader.parts = Parts

\* GUIDE.md:35, "the new name survives power loss": once a write has returned true, no power
\* loss brings back the file of an earlier rename, provided the job directory itself is not
\* lost (nothing forces out the entry that save_meta's mkdir makes).
AckedSurvives ==
    acked > 0 => \A d \in entries : d[Final] # None /\ order[d[Final]] >= acked

\* A write that fails leaves no temporary; only a process that was killed, or a power loss,
\* does. (A later copy with the same pid is refused by its O_EXCL, a later atomic_write_file
\* takes it over.)
TempsAreLeftByTheDead ==
    \A w \in Writers : task[w].at = "idle" /\ names[w] # None => w \in died

-----------------------------------------------------------------------------
(* The file as its readers see it. *)

\* What a reader takes one content for: a version, or something torn.
Version(data) == IF data.parts = Parts THEN data.of ELSE MaxWrites + 1

File == IF names[Final] = None THEN 0 ELSE Version(bytes[names[Final]])
MayHold(d) ==
    IF d[Final] = None THEN {0} ELSE {Version(data) : data \in blocks[d[Final]]}
Safe == (UNION {MayHold(d) : d \in entries}) \cup (IF anchored THEN {} ELSE {0})

Durable == INSTANCE DurableFile WITH
    Versions <- 1..MaxWrites, Absent <- 0, file <- File, safe <- Safe

\* Every step of the writers, of the kernel and of the power is a step of DurableFile.
IsDurable == Durable!Spec
=============================================================================
