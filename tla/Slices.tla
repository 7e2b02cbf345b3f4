------------------------------- MODULE Slices -------------------------------
(***************************************************************************)
(* How a job's input is cut into slices (split_ranges) and how the workers *)
(* read them (feed_range), while somebody may be truncating the file. The  *)
(* slices are numbered from 1, and positions are in bytes.                 *)
(***************************************************************************)
EXTENDS Integers, Sequences, FiniteSetsExt

CONSTANTS
    Sizes,          \* sizes of the input at launch_job's inspect_file
    WorkerCounts,   \* --workers
    kDirectAlign,   \* 4096
    BufSize,        \* 1 << 20, the read buffer
    PageSize,       \* 4096
    MayShrink       \* may the file be truncated while it is read?

ASSUME SlicesAssumption ==
    /\ Sizes \subseteq Nat /\ WorkerCounts \subseteq Nat \ {0}
    /\ kDirectAlign \in Nat \ {0, 1} /\ PageSize \in Nat \ {0}
    /\ BufSize \in Nat \ {0} /\ BufSize % kDirectAlign = 0
    /\ MayShrink \in BOOLEAN

VARIABLES
    size, workers, io,  \* the job
    out,                \* the slices so far, a sequence of [offset, length]
    off,                \* where the next slice begins
    pc,                 \* "split", then "read"
    fed,                \* fed[k]: bytes of slice k its worker has read
    res,                \* res[k]: "reading", then "ok", or why feed_range failed
    len                 \* length of the input now

job  == <<size, workers, io>>
vars == <<job, out, off, pc, fed, res, len>>

Init ==
    /\ size \in Sizes /\ workers \in WorkerCounts /\ io \in {"mmap", "read", "direct"}
    /\ out = <<>> /\ off = 0 /\ pc = "split"
    /\ fed = <<>> /\ res = <<>>
    /\ len = size

-----------------------------------------------------------------------------
(* split_ranges. With align = 1 a block is a byte, and there is no leftover. *)

AlignOne == 1
align    == IF io = "direct" THEN kDirectAlign ELSE 1

prefix   == size - (size % align)
blocks == prefix \div align

\* An empty file, one worker, or less than one block: one slice.
Whole == size = 0 \/ workers = 1 \/ prefix = 0

AllToFirst(i) == (blocks \div workers) + IF i = 1 THEN blocks % workers ELSE 0
BlocksOf(i)   == (blocks \div workers) + IF i <= blocks % workers THEN 1 ELSE 0

\* Slice i, counted from 1: its blocks, and for the last one the leftover bytes.
LengthNoTail(i) == BlocksOf(i) * align
LengthOf(i)     == (BlocksOf(i) * align) + IF i = workers THEN size - prefix ELSE 0

Starts(n) == /\ pc' = "read"
             /\ fed' = [k \in 1..n |-> 0] /\ res' = [k \in 1..n |-> "reading"]

OneSlice ==
    /\ pc = "split" /\ Whole
    /\ out' = <<[offset |-> 0, length |-> size]>>
    /\ Starts(1)
    /\ UNCHANGED <<job, off, len>>

NextSlice ==
    /\ pc = "split" /\ ~Whole
    /\ LET n == LengthOf(Len(out) + 1) IN
        /\ out' = Append(out, [offset |-> off, length |-> n])
        /\ off' = off + n
    /\ IF Len(out) + 1 = workers THEN Starts(workers) ELSE UNCHANGED <<pc, fed, res>>
    /\ UNCHANGED <<job, len>>

-----------------------------------------------------------------------------
(* feed_range, by the worker of slice k. It fails with "error" if a call fails, with *)
(* "unaligned" if O_DIRECT refuses the slice, with "beyond" at the end of the file.  *)

Failures == {"error", "unaligned", "beyond"}

Least(a, b) == IF a <= b THEN a ELSE b

Reading(k) == pc = "read" /\ res[k] = "reading"
Left(k)    == out[k].length - fed[k]
At(k)      == out[k].offset + fed[k]

\* The part of the slice O_DIRECT can read.
Aligned(k) == IF io = "direct" THEN out[k].length - (out[k].length % kDirectAlign) ELSE 0

EndsAs(k, r) ==
    /\ res' = [res EXCEPT ![k] = r]
    /\ UNCHANGED <<job, out, off, pc, fed, len>>

\* All of it is read; an empty slice is from the start.
Complete(k) == Reading(k) /\ Left(k) = 0 /\ EndsAs(k, "ok")

\* Any call on the way may fail, whatever the file: the open, the O_DIRECT open of a file
\* system that has none of it, the second open, the mapping under --mem-mb, posix_memalign, a
\* read or the sink. What such a call would have fed is not fed, and nothing is tried again.
CallFails(k) == Reading(k) /\ Left(k) > 0 /\ EndsAs(k, "error")

\* mmap, if no call fails: one call of the sink. A byte on a page beyond the end of the file is
\* SIGBUS; on the last page it reads as zero.
Map(k) ==
    /\ io = "mmap" /\ Reading(k) /\ Left(k) > 0
    /\ IF out[k].offset + out[k].length <= ((len + PageSize - 1) \div PageSize) * PageSize
       THEN /\ fed' = [fed EXCEPT ![k] = out[k].length]
            /\ UNCHANGED <<job, out, off, pc, res, len>>
       ELSE EndsAs(k, "beyond")

\* A pread of up to `want` bytes, by the lengths it may return. It returns none at the end of
\* the file, and fails if the kernel (EINVAL) or the check at the top of feed_range refuses it.
Refused(k, want) ==
    /\ io = "direct"
    /\ \/ out[k].offset % kDirectAlign # 0
       \/ fed[k] < Aligned(k) /\ (At(k) % kDirectAlign # 0 \/ want % kDirectAlign # 0)

EofIgnored(k, want, lengths) ==
    /\ fed' = [fed EXCEPT ![k] = @ + IF len <= At(k) THEN 0 ELSE Least(want, len - At(k))]
    /\ UNCHANGED <<job, out, off, pc, res, len>>
Pread(k, want, lengths) ==
    \/ Refused(k, want) /\ EndsAs(k, "unaligned")
    \/ len <= At(k) /\ EndsAs(k, "beyond")
    \/ /\ ~Refused(k, want)
       /\ \E r \in lengths \cap 1..Least(want, len - At(k)) : fed' = [fed EXCEPT ![k] = @ + r]
       /\ UNCHANGED <<job, out, off, pc, res, len>>

\* O_DIRECT, into what is left of the buffer: short by whole blocks, or at the end of the file.
ReadDirect(k) ==
    /\ io = "direct" /\ Reading(k) /\ fed[k] < Aligned(k)
    /\ LET want == Least(BufSize - (fed[k] % BufSize), Aligned(k) - fed[k])
       IN Pread(k, want, {r \in 1..want : r % kDirectAlign = 0 \/ r = len - At(k)})

\* Buffered: the whole slice, or the tail O_DIRECT cannot read.
ReadBuffered(k) ==
    /\ io # "mmap" /\ Reading(k) /\ Left(k) > 0 /\ fed[k] >= Aligned(k)
    /\ Pread(k, Least(BufSize, Left(k)), 1..BufSize)

Worker(k) == Complete(k) \/ Map(k) \/ ReadDirect(k) \/ ReadBuffered(k)

\* Somebody truncates the input.
Shrink ==
    /\ MayShrink /\ pc = "read"
    /\ len' \in 0..(len - 1)
    /\ UNCHANGED <<job, out, off, pc, fed, res>>

Next == OneSlice \/ NextSlice \/ Shrink \/ \E k \in 1..Len(out) : Worker(k) \/ CallFails(k)

Spec == Init /\ [][Next]_vars

\* The controller finishes the split, and every worker runs on. No call has to fail.
FairSpec ==
    /\ Spec /\ WF_vars(OneSlice \/ NextSlice)
    /\ \A k \in 1..Max(WorkerCounts) : WF_vars(k \in DOMAIN out /\ Worker(k))

-----------------------------------------------------------------------------
Slice(k) == {b \in 0..(size - 1) : out[k].offset <= b /\ b < out[k].offset + out[k].length}

\* forge.hpp:117, "Ranges produced by split_ranges are contiguous and cover [0, size)": every
\* byte is in one slice, no slice reaches beyond the file, and they are in order.
SlicesCoverInput ==
    pc = "read" =>
        /\ \A b \in 0..(size - 1) : \E k \in 1..Len(out) : b \in Slice(k)
        /\ \A j, k \in 1..Len(out) : j < k => out[j].offset + out[j].length <= out[k].offset
        /\ \A k \in 1..Len(out) : out[k].offset + out[k].length <= size

\* forge.hpp:126, "so the work is as even as it can be": in blocks, the leftover apart.
WorkIsEven ==
    pc = "read" => \A j, k \in 1..Len(out) :
        out[j].length \div align <= (out[k].length \div align) + 1

\* GUIDE.md:112, "The buffer, the offset, and the length have to be multiples of 4096": on a file
\* nobody has truncated no worker is refused a read for its alignment, and none meets the end of
\* the file, whatever the size, the number of workers and the short reads. That its calls may
\* fail for other reasons is another matter (CallFails).
SlicesAreReadable ==
    pc = "read" /\ len = size => \A k \in 1..Len(out) : res[k] \notin {"unaligned", "beyond"}

\* Every worker ends, truncated file or not, even if no call fails: the read loops make progress
\* or stop.
WorkersEnd == <>(pc = "read" /\ \A k \in 1..Len(out) : res[k] # "reading")
=============================================================================
