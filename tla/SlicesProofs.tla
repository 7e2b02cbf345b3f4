---------------------------- MODULE SlicesProofs ----------------------------
(***************************************************************************)
(* Theorems about Slices for every size of the input, number of workers,   *)
(* alignment and buffer.                                                   *)
(***************************************************************************)
EXTENDS Slices, TLAPS

-----------------------------------------------------------------------------
(* Division. *)

LEMMA DivMod ==
    ASSUME NEW a \in Int, NEW d \in Nat \ {0}
    PROVE  /\ a \div d \in Int /\ a % d \in 0..(d - 1)
           /\ a = (d * (a \div d)) + (a % d)
BY Z3

\* A quotient is known by its remainder.
LEMMA DivUnique ==
    ASSUME NEW a \in Int, NEW d \in Nat \ {0}, NEW q \in Int, NEW r \in 0..(d - 1),
           a = (d * q) + r
    PROVE  a \div d = q /\ a % d = r
BY Z3

LEMMA Distributes ==
    ASSUME NEW a \in Int, NEW b \in Int, NEW c \in Int
    PROVE  /\ (a + b) * c = (a * c) + (b * c) /\ (a - b) * c = (a * c) - (b * c)
           /\ a * b = b * a /\ (a * b) * c = a * (b * c)
BY Z3

-----------------------------------------------------------------------------
Parts == [offset : Nat, length : Nat]

TypeOK ==
    /\ size \in Sizes /\ workers \in WorkerCounts /\ io \in {"mmap", "read", "direct"}
    /\ out \in Seq(Parts) /\ off \in Nat
    /\ pc \in {"split", "read"}
    /\ pc = "read" => /\ fed \in [1..Len(out) -> Nat]
                      /\ res \in [1..Len(out) -> {"reading", "ok"} \cup Failures]
    /\ len \in Nat /\ len <= size
    /\ pc = "split" => len = size

\* Where slice i + 1 begins: an equal share of the blocks for each slice before it, and
\* one of the odd blocks for each of the first ones.
Share     == blocks \div workers
Odd       == blocks % workers
Before(i) == ((i * Share) + Least(i, Odd)) * align

\* The slices cut so far are those of the formula.
SplitInv ==
    /\ pc = "split" => /\ Len(out) < workers
                       /\ IF Whole THEN out = <<>> /\ off = 0 ELSE off = Before(Len(out))
    /\ pc = "read" => Len(out) = IF Whole THEN 1 ELSE workers
    /\ \A k \in 1..Len(out) :
        out[k] = IF Whole THEN [offset |-> 0, length |-> size]
                 ELSE [offset |-> Before(k - 1), length |-> LengthOf(k)]

\* They cover what has been cut so far, one after the other.
Cut == IF pc = "read" THEN size ELSE off

CutInv ==
    /\ \A b \in 0..(Cut - 1) : \E k \in 1..Len(out) :
        out[k].offset <= b /\ b < out[k].offset + out[k].length
    /\ \A j, k \in 1..Len(out) : j < k => out[j].offset + out[j].length <= out[k].offset
    /\ \A k \in 1..Len(out) : out[k].offset + out[k].length <= Cut

\* While nobody truncates the file no read is refused or finds its end, for O_DIRECT reads whole
\* blocks.
ReadInv ==
    pc = "read" /\ len = size => \A k \in 1..Len(out) :
        /\ res[k] \notin {"unaligned", "beyond"} /\ fed[k] <= out[k].length
        /\ fed[k] < Aligned(k) => fed[k] % kDirectAlign = 0

-----------------------------------------------------------------------------
(* The arithmetic of split_ranges. *)

LEMMA BlocksOfInput ==
    ASSUME TypeOK
    PROVE  /\ size \in Nat /\ workers \in Nat \ {0} /\ align \in Nat \ {0}
           /\ blocks \in Nat /\ prefix = blocks * align
           /\ prefix <= size /\ size - prefix < align
           /\ Share \in Nat /\ Odd \in Nat /\ Odd < workers
           /\ blocks = (workers * Share) + Odd
<1>1. size \in Nat /\ workers \in Nat \ {0} /\ align \in Nat \ {0}
  BY SlicesAssumption DEF SlicesAssumption, TypeOK, align
<1>2. /\ size % align \in 0..(align - 1)
      /\ size = (align * (size \div align)) + (size % align)
      /\ size \div align \in Int
  BY <1>1, DivMod
<1>3. prefix = (align * (size \div align)) + 0 /\ prefix \in Int
  BY <1>1, <1>2 DEF prefix
<1>4. blocks = size \div align
  BY <1>1, <1>2, <1>3, DivUnique DEF blocks
<1>5. prefix = blocks * align
  BY <1>1, <1>2, <1>3, <1>4, Z3
<1>6. blocks \in Nat
  <2>1. blocks \in Int /\ blocks * align > -align
    BY <1>1, <1>2, <1>4, <1>5 DEF prefix
  <2>. QED  BY <1>1, <2>1, Z3
<1>7. /\ Share \in Int /\ Odd \in 0..(workers - 1)
      /\ blocks = (workers * Share) + Odd
  BY <1>1, <1>6, DivMod DEF Share, Odd
<1>8. Share \in Nat
  <2>1. workers * Share > -workers /\ workers * Share \in Int
    BY <1>1, <1>6, <1>7
  <2>. QED  BY <1>1, <1>7, <2>1, Z3
<1>. QED  BY <1>1, <1>2, <1>5, <1>6, <1>7, <1>8 DEF prefix

LEMMA BeforeIs ==
    ASSUME TypeOK, NEW i \in 0..workers
    PROVE  /\ Before(i) \in Nat
           /\ i = 0 => Before(i) = 0
           /\ i = workers => Before(i) = prefix
<1>1. /\ workers \in Nat \ {0} /\ align \in Nat \ {0} /\ Share \in Nat /\ Odd \in Nat
      /\ Odd < workers /\ blocks = (workers * Share) + Odd /\ prefix = blocks * align
  BY BlocksOfInput
<1>2. Least(i, Odd) \in Nat /\ (i = 0 => Least(i, Odd) = 0) /\ (i = workers => Least(i, Odd) = Odd)
  BY <1>1 DEF Least
<1>3. i * Share \in Nat
  BY <1>1
<1>4. (i * Share) + Least(i, Odd) \in Nat
  BY <1>2, <1>3
<1>5. Before(i) \in Nat
  BY <1>1, <1>4 DEF Before
<1>6. i = 0 => Before(i) = 0
  BY <1>1, <1>2 DEF Before
<1>7. i = workers => Before(i) = prefix
  BY <1>1, <1>2 DEF Before
<1>. QED  BY <1>5, <1>6, <1>7

\* Slice i ends where slice i + 1 begins, and the last one ends with the file.
LEMMA LengthIs ==
    ASSUME TypeOK, NEW i \in 1..workers
    PROVE  /\ BlocksOf(i) \in {Share, Share + 1} /\ LengthOf(i) \in Nat
           /\ Before(i - 1) + LengthOf(i) = IF i = workers THEN size ELSE Before(i)
           /\ LengthOf(i) \div align = BlocksOf(i)
<1>1. /\ workers \in Nat \ {0} /\ align \in Nat \ {0} /\ Share \in Nat /\ Odd \in Nat
      /\ size \in Nat /\ prefix <= size /\ size - prefix < align /\ prefix \in Nat
      /\ Before(i) \in Nat /\ Before(i - 1) \in Nat
      /\ i = workers => Before(i) = prefix
  BY BlocksOfInput, BeforeIs
<1>2. BlocksOf(i) = Share + IF i <= Odd THEN 1 ELSE 0
  BY DEF BlocksOf, Share, Odd
<1>3. Before(i) = Before(i - 1) + (BlocksOf(i) * align)
  <2>. DEFINE x == ((i - 1) * Share) + Least(i - 1, Odd)
  <2>1. x \in Nat /\ BlocksOf(i) \in Nat /\ Before(i - 1) = x * align
    BY <1>1, <1>2 DEF Before, Least
  <2>2. (i * Share) + Least(i, Odd) = x + BlocksOf(i)
    <3>1. i * Share = ((i - 1) * Share) + Share
      BY <1>1
    <3>2. Least(i, Odd) = Least(i - 1, Odd) + IF i <= Odd THEN 1 ELSE 0
      BY <1>1 DEF Least
    <3>3. Least(i, Odd) \in Nat /\ Least(i - 1, Odd) \in Nat /\ (i - 1) * Share \in Nat
      BY <1>1 DEF Least
    <3>. QED  BY <1>1, <1>2, <3>1, <3>2, <3>3
  <2>. HIDE DEF x
  <2>3. Before(i) = (x + BlocksOf(i)) * align
    BY <2>2 DEF Before
  <2>. QED  BY <1>1, <2>1, <2>3, Distributes
<1>4. /\ BlocksOf(i) * align \in Nat /\ BlocksOf(i) \in Nat
  BY <1>1, <1>2
<1>5. LengthOf(i) = (align * BlocksOf(i)) + IF i = workers THEN size - prefix ELSE 0
  BY <1>1, <1>4 DEF LengthOf
<1>6. LengthOf(i) \in Nat /\ LengthOf(i) \div align = BlocksOf(i)
  <2>. DEFINE r == IF i = workers THEN size - prefix ELSE 0
  <2>1. r \in 0..(align - 1)
    BY <1>1
  <2>2. LengthOf(i) = (align * BlocksOf(i)) + r /\ LengthOf(i) \in Nat
    BY <1>1, <1>4, <1>5, <2>1
  <2>. HIDE DEF r
  <2>3. LengthOf(i) \in Int /\ BlocksOf(i) \in Int /\ align \in Nat \ {0}
    BY <1>1, <1>4, <2>2
  <2>4. LengthOf(i) \div align = BlocksOf(i)
    BY <2>1, <2>2, <2>3, DivUnique
  <2>. QED  BY <2>2, <2>4
<1>7. Before(i - 1) + LengthOf(i) = IF i = workers THEN size ELSE Before(i)
  BY <1>1, <1>3, <1>4 DEF LengthOf
<1>. QED  BY <1>1, <1>2, <1>6, <1>7

-----------------------------------------------------------------------------
(* The cut. *)

\* A slice ends inside the file.
LEMMA SliceFits ==
    ASSUME TypeOK, NEW k \in 1..Len(out)
    PROVE  out[k] \in Parts /\ out[k].offset \in Nat /\ out[k].length \in Nat
<1>1. out[k] \in Parts
  BY DEF TypeOK
<1>. QED  BY <1>1 DEF Parts

\* A worker reads on, or ends, and touches nothing else.
LEMMA WorkerSteps ==
    ASSUME TypeOK, NEW k \in 1..Len(out), Worker(k) \/ CallFails(k)
    PROVE  /\ pc = "read" /\ UNCHANGED <<job, out, off, pc, len>>
           /\ \/ \E r \in {"ok"} \cup Failures : EndsAs(k, r)
              \/ \E b \in Nat : fed' = [fed EXCEPT ![k] = b] /\ UNCHANGED res
<1>1. pc = "read" => fed[k] \in Nat /\ out[k].length \in Nat
  BY SliceFits DEF TypeOK
<1>2. ASSUME NEW want, NEW lengths, Pread(k, want, lengths), pc = "read"
      PROVE  /\ UNCHANGED <<job, out, off, pc, len>>
             /\ \/ \E r \in Failures : EndsAs(k, r)
                \/ \E b \in Nat : fed' = [fed EXCEPT ![k] = b] /\ UNCHANGED res
  <2>1. CASE EndsAs(k, "unaligned") \/ EndsAs(k, "beyond")
    BY <2>1 DEF EndsAs, Failures
  <2>2. CASE ~(EndsAs(k, "unaligned") \/ EndsAs(k, "beyond"))
    <3>1. PICK r \in 1..Least(want, len - At(k)) :
            /\ fed' = [fed EXCEPT ![k] = @ + r]
            /\ UNCHANGED <<job, out, off, pc, res, len>>
      BY <1>2, <2>2 DEF Pread
    <3>2. fed[k] + r \in Nat
      BY <1>1, <1>2, <3>1
    <3>. QED  BY <3>1, <3>2
  <2>. QED  BY <2>1, <2>2
<1>3. CASE Complete(k)
  BY <1>3 DEF Complete, Reading, EndsAs
<1>4. CASE Map(k)
  BY <1>1, <1>4 DEF Map, Reading, EndsAs, Failures
<1>5. CASE ReadDirect(k)
  BY <1>2, <1>5 DEF ReadDirect, Reading
<1>6. CASE ReadBuffered(k)
  BY <1>2, <1>6 DEF ReadBuffered, Reading
<1>7. CASE CallFails(k)
  BY <1>7 DEF CallFails, Reading, EndsAs, Failures
<1>. QED  BY <1>3, <1>4, <1>5, <1>6, <1>7 DEF Worker

LEMMA TypeStep == TypeOK /\ SplitInv /\ [Next]_vars => TypeOK'
<1>1. TypeOK /\ UNCHANGED vars => TypeOK'
  BY DEF TypeOK, vars, job
<1>. SUFFICES ASSUME TypeOK, SplitInv, Next PROVE TypeOK'
  BY <1>1
<1>2. size \in Nat /\ workers \in Nat \ {0} /\ len \in Nat
  BY SlicesAssumption DEF SlicesAssumption, TypeOK
<1>3. CASE OneSlice
  <2>1. [offset |-> 0, length |-> size] \in Parts
    BY <1>2 DEF Parts
  <2>2. out' \in Seq(Parts) /\ Len(out') = 1
    BY <1>3, <2>1 DEF OneSlice
  <2>3. /\ pc' = "read" /\ fed' = [k \in 1..1 |-> 0] /\ res' = [k \in 1..1 |-> "reading"]
        /\ UNCHANGED <<size, workers, io, off, len>>
    BY <1>3 DEF OneSlice, Starts, job
  <2>. QED  BY <2>2, <2>3 DEF TypeOK
<1>4. CASE NextSlice
  <2>. DEFINE n == LengthOf(Len(out) + 1)
  <2>1. Len(out) \in Nat /\ Len(out) < workers
    BY <1>4 DEF NextSlice, SplitInv, TypeOK
  <2>2. n \in Nat
    BY <1>2, <2>1, LengthIs
  <2>. HIDE DEF n
  <2>3. /\ out' = Append(out, [offset |-> off, length |-> n]) /\ off' = off + n
        /\ UNCHANGED <<size, workers, io, len>>
        /\ \/ UNCHANGED <<pc, fed, res>> /\ pc = "split"
           \/ /\ pc' = "read" /\ Len(out) + 1 = workers
              /\ fed' = [k \in 1..workers |-> 0] /\ res' = [k \in 1..workers |-> "reading"]
    BY <1>4 DEF NextSlice, Starts, job, n
  <2>4. [offset |-> off, length |-> n] \in Parts
    BY <2>2 DEF Parts, TypeOK
  <2>5. out' \in Seq(Parts) /\ Len(out') = Len(out) + 1
    BY <2>3, <2>4 DEF TypeOK
  <2>6. off' \in Nat
    BY <2>2, <2>3 DEF TypeOK
  <2>. QED  BY <2>3, <2>5, <2>6 DEF TypeOK
<1>5. CASE Shrink
  <2>1. len' \in Nat /\ len' <= size
    BY <1>2, <1>5 DEF Shrink, TypeOK
  <2>. QED  BY <1>5, <2>1 DEF Shrink, TypeOK, job
<1>6. ASSUME NEW k \in 1..Len(out), Worker(k) \/ CallFails(k) PROVE TypeOK'
  BY <1>6, WorkerSteps DEF TypeOK, job, EndsAs
<1>. QED  BY <1>3, <1>4, <1>5, <1>6 DEF Next

LEMMA SameArithmetic ==
    ASSUME UNCHANGED job
    PROVE  /\ Whole' = Whole /\ workers' = workers /\ size' = size
           /\ \A i : Before(i)' = Before(i) /\ LengthOf(i)' = LengthOf(i)
<1>1. align' = align
  BY DEF job, align
<1>2. prefix' = prefix
  BY <1>1 DEF job, prefix
<1>3. blocks' = blocks
  BY <1>1, <1>2 DEF blocks
<1>4. Whole' = Whole
  BY <1>2 DEF job, Whole
<1>. QED  BY <1>1, <1>2, <1>3, <1>4 DEF job, Before, Share, Odd, LengthOf, BlocksOf

LEMMA SplitStep ==
    ASSUME TypeOK, SplitInv, [Next]_vars PROVE SplitInv'
<1>1. size \in Nat /\ workers \in Nat \ {0} /\ Len(out) \in Nat /\ out \in Seq(Parts)
  BY SlicesAssumption DEF SlicesAssumption, TypeOK
<1>2. CASE UNCHANGED <<job, out, off, pc>>
  BY <1>2, SameArithmetic DEF SplitInv
<1>3. CASE OneSlice
  <2>1. /\ out' = <<[offset |-> 0, length |-> size]>> /\ pc' = "read" /\ UNCHANGED job /\ Whole
    BY <1>3 DEF OneSlice, Starts
  <2>2. Len(out') = 1 /\ out'[1] = [offset |-> 0, length |-> size]
    BY <2>1
  <2>. QED  BY <2>1, <2>2, SameArithmetic DEF SplitInv
<1>4. CASE NextSlice
  <2>. DEFINE n == LengthOf(Len(out) + 1)
              N == Len(out) + 1
  <2>1. /\ out' = Append(out, [offset |-> off, length |-> n]) /\ off' = off + n
        /\ UNCHANGED job /\ ~Whole /\ pc = "split"
        /\ IF N = workers THEN pc' = "read" ELSE pc' = "split"
    BY <1>4 DEF NextSlice, Starts
  <2>2. Len(out) < workers /\ off = Before(Len(out))
    BY <2>1 DEF SplitInv
  <2>3. N \in 1..workers /\ N - 1 = Len(out)
    BY <1>1, <2>2
  <2>4. Before(Len(out)) + n = IF N = workers THEN size ELSE Before(N)
    BY <2>3, LengthIs
  <2>5. /\ Len(out') = N /\ out'[N] = [offset |-> off, length |-> n]
        /\ \A k \in 1..Len(out) : out'[k] = out[k]
    BY <1>1, <2>1
  <2>. HIDE DEF n, N
  <2>6. ASSUME NEW k \in 1..Len(out')
        PROVE  out'[k] = [offset |-> Before(k - 1), length |-> LengthOf(k)]
    <3>1. CASE k = N
      BY <2>2, <2>3, <2>5, <3>1 DEF n, N
    <3>2. CASE k # N
      <4>1. k \in 1..Len(out)
        BY <1>1, <2>3, <2>5, <3>2
      <4>. QED  BY <2>1, <2>5, <4>1 DEF SplitInv
    <3>. QED  BY <3>1, <3>2
  <2>7. pc' = "split" => Len(out') < workers /\ off' = Before(Len(out'))
    BY <1>1, <2>1, <2>2, <2>3, <2>4, <2>5
  <2>8. pc' = "read" => Len(out') = workers
    BY <2>1, <2>5
  <2>. QED  BY <2>1, <2>6, <2>7, <2>8, SameArithmetic DEF SplitInv
<1>. QED
  <2>1. ASSUME NEW k \in 1..Len(out), Worker(k) \/ CallFails(k)
        PROVE  UNCHANGED <<job, out, off, pc>>
    BY <2>1, WorkerSteps
  <2>. QED  BY <1>2, <1>3, <1>4, <2>1 DEF Next, Shrink, vars

LEMMA CutStep ==
    ASSUME TypeOK, SplitInv, CutInv, [Next]_vars PROVE CutInv'
<1>1. size \in Nat /\ workers \in Nat \ {0} /\ Len(out) \in Nat /\ out \in Seq(Parts) /\ off \in Nat
  BY SlicesAssumption DEF SlicesAssumption, TypeOK
<1>2. CASE UNCHANGED <<job, out, off, pc>>
  BY <1>2 DEF CutInv, Cut, job
<1>3. CASE OneSlice
  <2>1. /\ out' = <<[offset |-> 0, length |-> size]>> /\ pc' = "read" /\ size' = size
    BY <1>3 DEF OneSlice, Starts, job
  <2>2. Len(out') = 1 /\ out'[1].offset = 0 /\ out'[1].length = size /\ Cut' = size
    BY <2>1 DEF Cut
  <2>. QED  BY <1>1, <2>2 DEF CutInv
<1>4. CASE NextSlice
  <2>. DEFINE n == LengthOf(Len(out) + 1)
              N == Len(out) + 1
  <2>1. /\ out' = Append(out, [offset |-> off, length |-> n]) /\ off' = off + n
        /\ size' = size /\ ~Whole /\ pc = "split"
        /\ IF N = workers THEN pc' = "read" ELSE pc' = "split"
    BY <1>4 DEF NextSlice, Starts, job
  <2>2. Len(out) < workers /\ off = Before(Len(out))
    BY <2>1 DEF SplitInv
  <2>3. N \in 1..workers /\ N - 1 = Len(out)
    BY <1>1, <2>2
  <2>4. n \in Nat /\ (N = workers => off + n = size)
    BY <2>2, <2>3, LengthIs
  <2>5. /\ Len(out') = N /\ out'[N].offset = off /\ out'[N].length = n
        /\ \A k \in 1..Len(out) : out'[k] = out[k]
    BY <1>1, <2>1
  <2>. HIDE DEF n, N
  <2>6. Cut = off /\ Cut' = off + n
    BY <2>1, <2>4 DEF Cut
  <2>7. \A k \in 1..N : k \in 1..Len(out) \/ k = N
    BY <1>1, <2>3
  <2>8. N \in 1..N /\ \A k \in 1..Len(out) : k \in 1..N
    BY <1>1, <2>3
  <2>9. \A k \in 1..Len(out) : out[k].offset \in Nat /\ out[k].length \in Nat
    BY SliceFits
  <2>10. ASSUME NEW b \in 0..(Cut' - 1)
         PROVE  \E k \in 1..N : out'[k].offset <= b /\ b < out'[k].offset + out'[k].length
    <3>1. CASE b < off
      <4>1. b \in 0..(Cut - 1)
        BY <1>1, <2>4, <2>6, <3>1
      <4>2. PICK k \in 1..Len(out) : out[k].offset <= b /\ b < out[k].offset + out[k].length
        BY <4>1 DEF CutInv
      <4>. QED  BY <2>5, <2>8, <4>2
    <3>2. CASE b >= off
      BY <1>1, <2>4, <2>5, <2>6, <2>8, <3>2
    <3>. QED  BY <1>1, <2>4, <2>6, <3>1, <3>2
  <2>11. ASSUME NEW k \in 1..N
         PROVE  out'[k].offset + out'[k].length <= Cut'
    BY <1>1, <2>4, <2>5, <2>6, <2>7, <2>9 DEF CutInv
  <2>12. ASSUME NEW j \in 1..N, NEW k \in 1..N, j < k
         PROVE  out'[j].offset + out'[j].length <= out'[k].offset
    <3>1. j \in 1..Len(out)
      BY <1>1, <2>3, <2>12
    <3>2. CASE k = N
      BY <2>5, <2>6, <3>1, <3>2 DEF CutInv
    <3>3. CASE k \in 1..Len(out)
      BY <2>5, <2>12, <3>1, <3>3 DEF CutInv
    <3>. QED  BY <2>7, <3>2, <3>3
  <2>. QED  BY <2>5, <2>10, <2>11, <2>12 DEF CutInv
<1>. QED
  <2>1. ASSUME NEW k \in 1..Len(out), Worker(k) \/ CallFails(k)
        PROVE  UNCHANGED <<job, out, off, pc>>
    BY <2>1, WorkerSteps
  <2>. QED  BY <1>2, <1>3, <1>4, <2>1 DEF Next, Shrink, vars

LEMMA CutInvariant == Spec => [](TypeOK /\ SplitInv /\ CutInv)
<1>1. Init => TypeOK /\ SplitInv /\ CutInv
  <2>. SUFFICES ASSUME Init PROVE TypeOK /\ SplitInv /\ CutInv
    OBVIOUS
  <2>1. /\ size \in Nat /\ workers \in Nat \ {0} /\ out = <<>> /\ off = 0 /\ pc = "split"
        /\ len = size
    BY SlicesAssumption DEF SlicesAssumption, Init
  <2>2. TypeOK
    BY <2>1 DEF Init, TypeOK
  <2>3. Before(0) = 0
    BY <2>1, <2>2, BeforeIs
  <2>4. SplitInv
    BY <2>1, <2>3 DEF SplitInv
  <2>5. CutInv
    BY <2>1 DEF CutInv, Cut
  <2>. QED  BY <2>2, <2>4, <2>5
<1>2. TypeOK /\ SplitInv /\ CutInv /\ [Next]_vars => (TypeOK /\ SplitInv /\ CutInv)'
  BY TypeStep, SplitStep, CutStep
<1>. QED  BY <1>1, <1>2, PTL DEF Spec

\* Every byte of the input is in one slice and no slice reaches beyond the file, for every
\* size, number of workers and alignment (forge.hpp:117).
THEOREM SlicesCover == Spec => []SlicesCoverInput
<1>1. TypeOK /\ CutInv => SlicesCoverInput
  <2>. SUFFICES ASSUME TypeOK, CutInv, pc = "read" PROVE SlicesCoverInput
    BY DEF SlicesCoverInput
  <2>1. Cut = size
    BY DEF Cut
  <2>2. ASSUME NEW b \in 0..(size - 1) PROVE \E k \in 1..Len(out) : b \in Slice(k)
    <3>1. PICK k \in 1..Len(out) : out[k].offset <= b /\ b < out[k].offset + out[k].length
      BY <2>1 DEF CutInv
    <3>. QED  BY <3>1 DEF Slice
  <2>. QED  BY <2>1, <2>2 DEF CutInv, SlicesCoverInput
<1>. QED  BY <1>1, CutInvariant, PTL

\* The numbers of blocks of two slices differ by one at most (forge.hpp:126).
THEOREM SlicesAreEven == Spec => []WorkIsEven
<1>1. TypeOK /\ SplitInv => WorkIsEven
  <2>. SUFFICES ASSUME TypeOK, SplitInv, pc = "read", NEW j \in 1..Len(out), NEW k \in 1..Len(out)
                PROVE  out[j].length \div align <= (out[k].length \div align) + 1
    BY DEF WorkIsEven
  <2>1. size \in Nat /\ align \in Nat \ {0} /\ Share \in Nat
    BY BlocksOfInput
  <2>2. CASE Whole
    <3>1. out[j].length = size /\ out[k].length = size
      BY <2>2 DEF SplitInv
    <3>2. size \div align \in Int
      BY <2>1, DivMod
    <3>. QED  BY <3>1, <3>2
  <2>3. CASE ~Whole
    <3>1. j \in 1..workers /\ k \in 1..workers
      BY <2>3 DEF SplitInv
    <3>2. out[j].length = LengthOf(j) /\ out[k].length = LengthOf(k)
      <4>1. ASSUME NEW i \in 1..Len(out) PROVE out[i].length = LengthOf(i)
        <5>1. out[i] = [offset |-> Before(i - 1), length |-> LengthOf(i)]
          BY <2>3 DEF SplitInv
        <5>. QED  BY <5>1
      <4>. QED  BY <4>1
    <3>3. /\ out[j].length \div align \in {Share, Share + 1}
          /\ out[k].length \div align \in {Share, Share + 1}
      BY <3>1, <3>2, LengthIs
    <3>. QED  BY <2>1, <3>3
  <2>. QED  BY <2>2, <2>3
<1>. QED  BY <1>1, CutInvariant, PTL

-----------------------------------------------------------------------------
(* Reading: O_DIRECT is asked for whole blocks at whole blocks, as long as the *)
(* file keeps its length.                                                      *)

LEMMA Multiples ==
    ASSUME NEW d \in Nat \ {0}, NEW a \in Int, NEW b \in Int, a % d = 0, b % d = 0
    PROVE  (a + b) % d = 0 /\ (a - b) % d = 0
<1>. DEFINE x == a \div d
            y == b \div d
<1>1. x \in Int /\ y \in Int /\ a = (d * x) + 0 /\ b = (d * y) + 0 /\ 0 \in 0..(d - 1)
  BY DivMod
<1>. HIDE DEF x, y
<1>2. a + b = (d * (x + y)) + 0 /\ a - b = (d * (x - y)) + 0
  BY <1>1, Z3
<1>3. x + y \in Int /\ x - y \in Int /\ a + b \in Int /\ a - b \in Int
  BY <1>1
<1>. QED  BY <1>1, <1>2, <1>3, DivUnique

LEMMA TimesMultiple ==
    ASSUME NEW d \in Nat \ {0}, NEW a \in Int, NEW c \in Int, a % d = 0
    PROVE  (a * c) % d = 0
<1>. DEFINE x == a \div d
<1>1. x \in Int /\ a = (d * x) + 0 /\ 0 \in 0..(d - 1)
  BY DivMod
<1>. HIDE DEF x
<1>2. a * c = (d * (x * c)) + 0
  BY <1>1, Z3
<1>3. x * c \in Int /\ a * c \in Int
  BY <1>1
<1>. QED  BY <1>1, <1>2, <1>3, DivUnique

LEMMA SelfMultiple == ASSUME NEW d \in Nat \ {0} PROVE d % d = 0 /\ 0 % d = 0
<1>1. d = (d * 1) + 0 /\ 0 = (d * 0) + 0 /\ 0 \in 0..(d - 1)
  OBVIOUS
<1>. QED  BY <1>1, DivUnique

LEMMA RoundDown ==
    ASSUME NEW d \in Nat \ {0}, NEW n \in Nat
    PROVE  n - (n % d) \in 0..n /\ (n - (n % d)) % d = 0
<1>. DEFINE q == n \div d
            r == n % d
<1>1. q \in Int /\ r \in 0..(d - 1) /\ n = (d * q) + r /\ 0 \in 0..(d - 1)
  BY DivMod
<1>. HIDE DEF q, r
<1>2. n - r = (d * q) + 0 /\ n - r \in Int /\ n - r <= n /\ d * q > -d
  BY <1>1
<1>3. q >= 0
  BY <1>1, <1>2, Z3
<1>4. d * q >= 0
  BY <1>1, <1>3, Z3
<1>5. n - r \in 0..n
  BY <1>1, <1>2, <1>4
<1>6. (n - r) % d = 0
  BY <1>1, <1>2, DivUnique
<1>. QED  BY <1>5, <1>6 DEF r

\* What O_DIRECT wants of a slice.
LEMMA AlignedSlice ==
    ASSUME TypeOK, SplitInv, NEW k \in 1..Len(out)
    PROVE  /\ Aligned(k) \in Nat /\ Aligned(k) <= out[k].length
           /\ io = "direct" => /\ out[k].offset % kDirectAlign = 0
                               /\ Aligned(k) % kDirectAlign = 0
           /\ io # "direct" => Aligned(k) = 0
<1>1. out[k].length \in Nat /\ out[k].offset \in Nat /\ kDirectAlign \in Nat \ {0}
  BY SliceFits, SlicesAssumption DEF SlicesAssumption
<1>2. CASE io # "direct"
  BY <1>1, <1>2 DEF Aligned
<1>3. CASE io = "direct"
  <2>1. Aligned(k) = out[k].length - (out[k].length % kDirectAlign)
    BY <1>3 DEF Aligned
  <2>2. Aligned(k) \in 0..out[k].length /\ Aligned(k) % kDirectAlign = 0
    BY <1>1, <2>1, RoundDown
  <2>3. out[k].offset % kDirectAlign = 0
    <3>1. CASE Whole
      <4>1. out[k] = [offset |-> 0, length |-> size]
        BY <3>1 DEF SplitInv
      <4>. QED  BY <1>1, <4>1, SelfMultiple
    <3>2. CASE ~Whole
      <4>1. out[k] = [offset |-> Before(k - 1), length |-> LengthOf(k)]
        BY <3>2 DEF SplitInv
      <4>2. align = kDirectAlign
        BY <1>3 DEF align
      <4>3. Share \in Nat /\ Odd \in Nat
        BY BlocksOfInput
      <4>4. k - 1 \in Nat
        OBVIOUS
      <4>. DEFINE before == ((k - 1) * Share) + Least(k - 1, Odd)
      <4>5. before \in Int /\ Before(k - 1) = before * kDirectAlign
        BY <4>2, <4>3, <4>4 DEF Least, Before
      <4>. HIDE DEF before
      <4>6. before * kDirectAlign = kDirectAlign * before /\ kDirectAlign \in Int
        BY <1>1, <4>5
      <4>7. Before(k - 1) % kDirectAlign = 0
        BY <1>1, <4>5, <4>6, SelfMultiple, TimesMultiple
      <4>. QED  BY <4>1, <4>7
    <3>. QED  BY <3>1, <3>2
  <2>. QED  BY <1>1, <1>3, <2>2, <2>3
<1>. QED  BY <1>2, <1>3

\* A position inside the file is on a page of it.
LEMMA OnAPage ==
    ASSUME NEW n \in Nat, NEW e \in Nat, e <= n
    PROVE  e <= ((n + PageSize - 1) \div PageSize) * PageSize
<1>1. PageSize \in Nat \ {0}
  BY SlicesAssumption DEF SlicesAssumption
<1>. DEFINE q == (n + PageSize - 1) \div PageSize
            r == (n + PageSize - 1) % PageSize
<1>2. n + PageSize - 1 \in Int
  BY <1>1
<1>3. q \in Int /\ r \in 0..(PageSize - 1) /\ n + PageSize - 1 = (PageSize * q) + r
  BY <1>2, <1>1, DivMod
<1>. HIDE DEF q, r
<1>4. q * PageSize = PageSize * q /\ PageSize * q \in Int
  BY <1>1, <1>3
<1>5. e <= q * PageSize
  BY <1>1, <1>3, <1>4
<1>. QED  BY <1>5 DEF q

\* ReadDirect asks for whole blocks at a whole block.
LEMMA WholeBlocks ==
    ASSUME TypeOK, SplitInv, NEW k \in 1..Len(out), pc = "read", io = "direct",
           fed[k] < Aligned(k), fed[k] % kDirectAlign = 0,
           NEW want, want = Least(BufSize - (fed[k] % BufSize), Aligned(k) - fed[k])
    PROVE  /\ want \in Nat /\ want <= Aligned(k) - fed[k] /\ want % kDirectAlign = 0
           /\ ~Refused(k, want)
<1>1. /\ fed[k] \in Nat /\ out[k].offset \in Nat /\ Aligned(k) \in Nat
      /\ kDirectAlign \in Nat \ {0} /\ BufSize \in Nat \ {0} /\ BufSize % kDirectAlign = 0
  BY SliceFits, AlignedSlice, SlicesAssumption DEF SlicesAssumption, TypeOK
<1>. DEFINE f == fed[k]
            q == f \div BufSize
            r == f % BufSize
            A == Aligned(k)
<1>2. f \in Int /\ A \in Int /\ BufSize \in Int /\ kDirectAlign \in Int
  BY <1>1
<1>3. q \in Int /\ r \in 0..(BufSize - 1) /\ f = (BufSize * q) + r
  BY <1>2, <1>1, DivMod
<1>4. f % kDirectAlign = 0 /\ A % kDirectAlign = 0 /\ want = Least(BufSize - r, A - f) /\ f < A
  BY AlignedSlice
<1>. HIDE DEF f, q, r, A
<1>5. (BufSize * q) % kDirectAlign = 0
  BY <1>2, <1>1, <1>3, TimesMultiple
<1>6. r % kDirectAlign = 0 /\ BufSize * q \in Int /\ r \in Int
  <2>1. r = f - (BufSize * q) /\ BufSize * q \in Int /\ r \in Int
    BY <1>2, <1>1, <1>3
  <2>2. r % kDirectAlign = 0
    BY <1>2, <1>1, <1>4, <1>5, <2>1, Multiples
  <2>. QED  BY <2>1, <2>2
<1>7. (BufSize - r) % kDirectAlign = 0 /\ (A - f) % kDirectAlign = 0
  BY <1>2, <1>1, <1>3, <1>4, <1>6, Multiples
<1>8. want \in Nat /\ want <= A - f /\ want % kDirectAlign = 0
  <2>1. want = BufSize - r \/ want = A - f
    BY <1>4 DEF Least
  <2>2. want \in Nat /\ want <= A - f
    BY <1>2, <1>1, <1>3, <1>4 DEF Least
  <2>. QED  BY <1>7, <2>1, <2>2
<1>9. out[k].offset % kDirectAlign = 0 /\ At(k) = out[k].offset + f
  BY AlignedSlice DEF At, f
<1>10. At(k) % kDirectAlign = 0
  <2>1. out[k].offset \in Int /\ kDirectAlign \in Nat \ {0}
    BY <1>1
  <2>2. f % kDirectAlign = 0 /\ out[k].offset % kDirectAlign = 0 /\ f \in Int
    BY <1>2, <1>4, <1>9
  <2>3. (out[k].offset + f) % kDirectAlign = 0
    BY <2>1, <2>2, Multiples
  <2>. QED  BY <1>9, <2>3
<1>11. ~Refused(k, want)
  BY <1>8, <1>9, <1>10 DEF Refused
<1>. QED  BY <1>8, <1>11 DEF A, f

\* A read of a file nobody truncated goes on.
LEMMA ReadGoesOn ==
    ASSUME TypeOK, SplitInv, CutInv, ReadInv, NEW k \in 1..Len(out), Worker(k), len = size
    PROVE  \/ res' = [res EXCEPT ![k] = "ok"] /\ fed' = fed
           \/ \E b \in Nat : /\ fed' = [fed EXCEPT ![k] = b] /\ UNCHANGED res
                             /\ b <= out[k].length
                             /\ b < Aligned(k) => b % kDirectAlign = 0
<1>1. /\ fed[k] \in Nat /\ out[k].offset \in Nat /\ out[k].length \in Nat
      /\ Aligned(k) \in 0..out[k].length /\ len \in Nat /\ pc = "read"
      /\ kDirectAlign \in Nat \ {0}
  <2>1. pc = "read" /\ kDirectAlign \in Nat \ {0}
    BY WorkerSteps, SlicesAssumption DEF SlicesAssumption
  <2>2. out[k].offset \in Nat /\ out[k].length \in Nat
    BY SliceFits
  <2>3. Aligned(k) \in Nat /\ Aligned(k) <= out[k].length
    BY AlignedSlice
  <2>4. fed[k] \in Nat /\ len \in Nat
    BY <2>1 DEF TypeOK
  <2>. QED  BY <2>1, <2>2, <2>3, <2>4
<1>2. out[k].offset + out[k].length <= len
  BY <1>1 DEF CutInv, Cut
<1>3. fed[k] <= out[k].length /\ (fed[k] < Aligned(k) => fed[k] % kDirectAlign = 0)
  BY <1>1 DEF ReadInv
<1>. DEFINE GoesOn == \E b \in Nat : /\ fed' = [fed EXCEPT ![k] = b] /\ UNCHANGED res
                                     /\ b <= out[k].length
                                     /\ b < Aligned(k) => b % kDirectAlign = 0
<1>4. CASE Complete(k)
  BY <1>4 DEF Complete, EndsAs
<1>5. CASE Map(k)
  <2>1. out[k].offset + out[k].length <= ((len + PageSize - 1) \div PageSize) * PageSize
    BY <1>1, <1>2, OnAPage
  <2>2. fed' = [fed EXCEPT ![k] = out[k].length] /\ UNCHANGED res
    BY <1>5, <2>1 DEF Map
  <2>3. ~(out[k].length < Aligned(k)) /\ out[k].length \in Nat /\ out[k].length <= out[k].length
    BY <1>1
  <2>. QED  BY <2>2, <2>3
<1>6. ASSUME NEW want \in Nat, NEW lengths, Pread(k, want, lengths), ~Refused(k, want),
             fed[k] + want <= out[k].length, fed[k] < out[k].length,
             \A r \in lengths : \/ fed[k] + r >= Aligned(k)
                                \/ r = len - At(k)
                                \/ r \in Int => (fed[k] + r) % kDirectAlign = 0
      PROVE  GoesOn
  <2>1. At(k) \in Nat /\ At(k) = out[k].offset + fed[k] /\ At(k) < len
    BY <1>1, <1>2, <1>6 DEF At
  <2>2. PICK r \in lengths : /\ r \in 1..Least(want, len - At(k))
                             /\ fed' = [fed EXCEPT ![k] = @ + r] /\ UNCHANGED res
    BY <1>1, <1>6, <2>1 DEF Pread
  <2>3. r \in Nat /\ r <= want
    BY <1>1, <2>1, <2>2 DEF Least
  <2>4. fed[k] + r \in Nat /\ fed[k] + r <= out[k].length
    BY <1>1, <1>6, <2>3
  <2>5. r = len - At(k) => fed[k] + r >= out[k].length
    BY <1>1, <1>2, <2>1, SMTT(20)
  <2>6. fed[k] + r < Aligned(k) => (fed[k] + r) % kDirectAlign = 0
    BY <1>1, <1>6, <2>2, <2>3, <2>4, <2>5, SMTT(20)
  <2>7. fed' = [fed EXCEPT ![k] = fed[k] + r]
    BY <2>2
  <2>. QED  BY <2>2, <2>4, <2>6, <2>7
<1>7. CASE ReadDirect(k)
  <2>. DEFINE want == Least(BufSize - (fed[k] % BufSize), Aligned(k) - fed[k])
              lengths == {r \in 1..want : r % kDirectAlign = 0 \/ r = len - At(k)}
  <2>1. Pread(k, want, lengths) /\ io = "direct" /\ fed[k] < Aligned(k)
    BY <1>7 DEF ReadDirect
  <2>2. \A r \in lengths : r \in Int /\ (r % kDirectAlign = 0 \/ r = len - At(k))
    OBVIOUS
  <2>. HIDE DEF lengths
  <2>3. /\ want \in Nat /\ want <= Aligned(k) - fed[k] /\ ~Refused(k, want)
        /\ fed[k] % kDirectAlign = 0
    BY <1>1, <1>3, <2>1, WholeBlocks
  <2>. HIDE DEF want
  <2>4. \A r \in lengths : r = len - At(k) \/ (fed[k] + r) % kDirectAlign = 0
    BY <1>1, <2>2, <2>3, Multiples
  <2>5. fed[k] + want <= out[k].length /\ fed[k] < out[k].length
    BY <1>1, <2>1, <2>3
  <2>. QED  BY <1>6, <2>1, <2>3, <2>4, <2>5
<1>8. CASE ReadBuffered(k)
  <2>. DEFINE want == Least(BufSize, Left(k))
  <2>1. /\ Pread(k, want, 1..BufSize) /\ Left(k) > 0 /\ fed[k] >= Aligned(k)
        /\ Left(k) = out[k].length - fed[k]
    BY <1>8 DEF ReadBuffered, Left
  <2>2. want \in Nat /\ want <= out[k].length - fed[k]
    BY <1>1, <1>3, <2>1, SlicesAssumption DEF SlicesAssumption, Least
  <2>. HIDE DEF want
  <2>3. ~Refused(k, want)
    BY <1>1, <2>1, AlignedSlice DEF Refused
  <2>4. \A r \in 1..BufSize : fed[k] + r >= Aligned(k)
    BY <1>1, <2>1, SlicesAssumption DEF SlicesAssumption
  <2>5. fed[k] + want <= out[k].length /\ fed[k] < out[k].length
    BY <1>1, <2>1, <2>2
  <2>. QED  BY <1>6, <2>1, <2>2, <2>3, <2>4, <2>5
<1>. QED  BY <1>4, <1>5, <1>7, <1>8 DEF Worker

LEMMA ReadStep == TypeOK /\ SplitInv /\ CutInv /\ ReadInv /\ [Next]_vars => ReadInv'
<1>1. ReadInv /\ UNCHANGED vars => ReadInv'
  BY DEF ReadInv, Aligned, vars, job
<1>. SUFFICES ASSUME TypeOK, SplitInv, CutInv, ReadInv, Next, pc' = "read", len' = size',
                     NEW i \in 1..Len(out')
              PROVE  /\ res'[i] \notin {"unaligned", "beyond"} /\ fed'[i] <= out'[i].length
                     /\ fed'[i] < Aligned(i)' => fed'[i] % kDirectAlign = 0
  BY <1>1 DEF ReadInv
<1>2. CASE OneSlice \/ NextSlice
  <2>1. TypeOK' /\ SplitInv'
    BY TypeStep, SplitStep
  <2>2. out'[i] \in Parts
    BY <2>1 DEF TypeOK
  <2>3. \E n : fed' = [k \in 1..n |-> 0] /\ res' = [k \in 1..n |-> "reading"]
    BY <1>2 DEF OneSlice, NextSlice, Starts
  <2>4. fed' \in [1..Len(out') -> Nat] /\ res' \in [1..Len(out') -> {"reading", "ok"} \cup Failures]
    BY <2>1 DEF TypeOK
  <2>5. fed'[i] = 0 /\ res'[i] = "reading"
    BY <2>3, <2>4
  <2>6. 0 % kDirectAlign = 0
    BY SelfMultiple, SlicesAssumption DEF SlicesAssumption
  <2>. QED  BY <2>2, <2>5, <2>6 DEF Parts
<1>3. CASE Shrink
  <2>1. len' < len /\ size' = size /\ len \in Nat /\ size \in Nat /\ len <= size /\ len' \in Int
    BY <1>3, SlicesAssumption DEF Shrink, job, TypeOK, SlicesAssumption
  <2>. QED  BY <2>1
<1>4. ASSUME NEW k \in 1..Len(out), Worker(k) \/ CallFails(k)
      PROVE  /\ res'[i] \notin {"unaligned", "beyond"} /\ fed'[i] <= out'[i].length
             /\ fed'[i] < Aligned(i)' => fed'[i] % kDirectAlign = 0
  <2>1. pc = "read" /\ UNCHANGED <<job, out, len>>
    BY <1>4, WorkerSteps
  <2>2. len = size /\ i \in 1..Len(out) /\ Aligned(i)' = Aligned(i) /\ out'[i] = out[i]
    BY <2>1 DEF job, Aligned
  <2>3. /\ res[i] \notin {"unaligned", "beyond"} /\ fed[i] <= out[i].length
        /\ fed[i] < Aligned(i) => fed[i] % kDirectAlign = 0
    BY <2>1, <2>2 DEF ReadInv
  <2>4. fed \in [1..Len(out) -> Nat] /\ res \in [1..Len(out) -> {"reading", "ok"} \cup Failures]
    BY <2>1 DEF TypeOK
  <2>5. ASSUME NEW r \in {"ok", "error"}, res' = [res EXCEPT ![k] = r], fed' = fed
        PROVE  /\ res'[i] \notin {"unaligned", "beyond"} /\ fed'[i] <= out'[i].length
               /\ fed'[i] < Aligned(i)' => fed'[i] % kDirectAlign = 0
    BY <2>2, <2>3, <2>4, <2>5
  <2>6. ASSUME NEW b \in Nat, fed' = [fed EXCEPT ![k] = b], UNCHANGED res, b <= out[k].length,
               b < Aligned(k) => b % kDirectAlign = 0
        PROVE  /\ res'[i] \notin {"unaligned", "beyond"} /\ fed'[i] <= out'[i].length
               /\ fed'[i] < Aligned(i)' => fed'[i] % kDirectAlign = 0
    <3>1. CASE i = k
      BY <2>2, <2>3, <2>4, <2>6, <3>1
    <3>2. CASE i # k
      BY <2>2, <2>3, <2>4, <2>6, <3>2
    <3>. QED  BY <3>1, <3>2
  <2>7. CASE CallFails(k)
    BY <2>5, <2>7 DEF CallFails, EndsAs
  <2>. QED  BY <1>4, <2>2, <2>5, <2>6, <2>7, ReadGoesOn
<1>. QED  BY <1>2, <1>3, <1>4 DEF Next

\* GUIDE.md:112: for every size, number of workers, alignment and buffer, and however short the
\* reads, split_ranges hands feed_range slices that no read refuses for its alignment, and that
\* end inside the file as long as nobody truncates it, though any of its calls may fail.
THEOREM SlicesCanBeRead == Spec => []SlicesAreReadable
<1>1. Init => ReadInv
  BY DEF Init, ReadInv
<1>2. ReadInv => SlicesAreReadable
  BY DEF ReadInv, SlicesAreReadable
<1>. QED  BY <1>1, <1>2, CutInvariant, ReadStep, PTL DEF Spec
=============================================================================
