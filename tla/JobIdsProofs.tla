---------------------------- MODULE JobIdsProofs ----------------------------
(***************************************************************************)
(* Job ids are unique and increasing for any number of submitters, if no   *)
(* update of next_id is cut between its ftruncate and its pwrite.          *)
(***************************************************************************)
EXTENDS JobIds, TLAPS

\* One process holds the lock.
LockInv == \A p, q \in Submitters : Holds(p) /\ Holds(q) => p = q

\* next_id is the largest id given out, except while its holder has emptied it.
FileInv ==
    /\ \A p \in Submitters : pc[p] = "read" => next[p] = next_id + 1
    /\ \A p, q \in Submitters : HasId(p) /\ pc[q] \in {"read", "truncated"} => next[p] < next[q]
    /\ (\A q \in Submitters : pc[q] # "truncated") =>
           \A p \in Submitters : HasId(p) => next[p] <= next_id

IdInv == TypeOK /\ LockInv /\ FileInv /\ UniqueIds

LEMMA InitOK == Init => IdInv
BY DEF Init, IdInv, TypeOK, LockInv, Holds, FileInv, UniqueIds, HasId

LEMMA TypeStep == TypeOK /\ [Next]_vars => TypeOK'
<1>. SUFFICES ASSUME TypeOK, [Next]_vars PROVE TypeOK'
  OBVIOUS
<1>1. CASE UNCHANGED vars
  BY <1>1 DEF vars, TypeOK
<1>2. ASSUME NEW p \in Submitters, Step(p) \/ Die(p) PROVE TypeOK'
  <2>1. CASE SaveMeta(p)
    BY <2>1 DEF TypeOK, SaveMeta, Moves
  <2>2. CASE Lock(p) \/ Read(p) \/ Unlock(p) \/ SaveFails(p) \/ Die(p)
    BY <2>2 DEF TypeOK, Lock, Read, Unlock, SaveFails, Die, Moves
  <2>3. CASE Truncate(p) \/ Write(p) \/ UpdateFails(p)
    BY <2>3 DEF TypeOK, Truncate, Write, UpdateFails, Moves
  <2>. QED  BY <1>2, <2>1, <2>2, <2>3 DEF Step
<1>. QED  BY <1>1, <1>2 DEF Next

\* How a step moves one process.
LEMMA OneMoves ==
    ASSUME TypeOK, NEW p \in Submitters, Step(p) \/ Die(p)
    PROVE  /\ \A q \in Submitters \ {p} : pc'[q] = pc[q] /\ next'[q] = next[q]
           /\ pc[p] # "locked" => next'[p] = next[p]
<1>1. pc \in [Submitters -> {"start", "locked", "read", "truncated", "written", "allocated",
                             "saved", "failed", "dead"}] /\ next \in [Submitters -> Nat]
  BY DEF TypeOK
<1>. QED  BY <1>1 DEF Step, Lock, Read, Truncate, Write, UpdateFails, Unlock, SaveMeta, SaveFails, Die,
                      Moves

LEMMA IdStep == ~Torn /\ IdInv /\ [Next]_vars => IdInv'
<1>. SUFFICES ASSUME ~Torn, IdInv, [Next]_vars PROVE IdInv'
  OBVIOUS
<1>. USE DEF IdInv
<1>0. TypeOK'
  BY TypeStep
<1>1. CASE UNCHANGED vars
  BY <1>0, <1>1 DEF vars, LockInv, Holds, FileInv, UniqueIds, HasId
<1>2. ASSUME NEW p \in Submitters, Step(p) \/ Die(p)
      PROVE  LockInv' /\ FileInv' /\ UniqueIds'
  <2>0. /\ pc \in [Submitters -> {"start", "locked", "read", "truncated", "written", "allocated",
                                  "saved", "failed", "dead"}]
        /\ next \in [Submitters -> Nat] /\ next_id \in Nat
    BY DEF TypeOK
  <2>1. \A q \in Submitters \ {p} : pc'[q] = pc[q] /\ next'[q] = next[q]
    BY <1>2, OneMoves
  <2>2. CASE Lock(p)
    BY <2>0, <2>1, <2>2 DEF Lock, Moves, LockInv, Holds, FileInv, UniqueIds, HasId
  <2>3. CASE Read(p)
    BY <2>0, <2>1, <2>3 DEF Read, Moves, LockInv, Holds, FileInv, UniqueIds, HasId
  <2>4. CASE Truncate(p)
    BY <2>0, <2>1, <2>4 DEF Truncate, Moves, LockInv, Holds, FileInv, UniqueIds, HasId
  <2>5. CASE Write(p)
    BY <2>0, <2>1, <2>5 DEF Write, Moves, LockInv, Holds, FileInv, UniqueIds, HasId
  <2>6. CASE UpdateFails(p)
    BY <2>0, <2>1, <2>6 DEF UpdateFails, Moves, LockInv, Holds, FileInv, UniqueIds, HasId
  <2>7. CASE Unlock(p) \/ SaveMeta(p) \/ SaveFails(p)
    BY <2>0, <2>1, <2>7 DEF Unlock, SaveMeta, SaveFails, Moves, LockInv, Holds, FileInv, UniqueIds,
                            HasId
  <2>8. CASE Die(p)
    BY <2>0, <2>1, <2>8 DEF Die, Moves, LockInv, Holds, FileInv, UniqueIds, HasId
  <2>. QED  BY <1>2, <2>2, <2>3, <2>4, <2>5, <2>6, <2>7, <2>8 DEF Step
<1>. QED  BY <1>0, <1>1, <1>2 DEF Next

\* Two submitters never have the same id: the record lock is held from the pread to the
\* pwrite of next_id.
THEOREM IdsAreUnique == ~Torn => (Spec => []UniqueIds)
<1>. SUFFICES ASSUME ~Torn PROVE Spec => []UniqueIds
  OBVIOUS
<1>1. IdInv /\ [Next]_vars => IdInv'
  BY IdStep
<1>2. IdInv => UniqueIds
  BY DEF IdInv
<1>. QED  BY InitOK, <1>1, <1>2, PTL DEF Spec

\* A later id is a larger one.
THEOREM IdsIncrease == ~Torn => (Spec => IdsGrow)
<1>. SUFFICES ASSUME ~Torn PROVE Spec => IdsGrow
  OBVIOUS
<1>1. IdInv /\ [Next]_vars => IdInv'
  BY IdStep
<1>2. ASSUME IdInv, [Next]_vars, NEW p \in Submitters, NEW q \in Submitters,
             HasId(p)', ~HasId(p), HasId(q)
      PROVE  next[q] < next[p]
  <2>1. pc \in [Submitters -> {"start", "locked", "read", "truncated", "written", "allocated",
                               "saved", "failed", "dead"}]
    BY <1>2 DEF IdInv, TypeOK
  <2>2. pc[p] = "truncated"
    BY <1>2, <2>1 DEF HasId, Next, Step, Lock, Read, Truncate, Write, UpdateFails, Unlock, SaveMeta,
                      SaveFails, Die, Moves, vars
  <2>. QED  BY <1>2, <2>2 DEF IdInv, FileInv
<1>3. IdInv /\ [Next]_vars
      => [\A p, q \in Submitters : HasId(p)' /\ ~HasId(p) /\ HasId(q) => next[q] < next[p]]_vars
  BY <1>2
<1>. QED  BY InitOK, <1>1, <1>3, PTL DEF Spec, IdsGrow

\* Every saved record stays the record of its id: save_meta of another submit cannot
\* replace it.
THEOREM RecordsAreKept == ~Torn => (Spec => []NoRecordLost)
<1>. SUFFICES ASSUME ~Torn PROVE Spec => []NoRecordLost
  OBVIOUS
<1>1. IdInv /\ [Next]_vars => IdInv'
  BY IdStep
<1>2. Init => NoRecordLost
  BY DEF Init, NoRecordLost
<1>3. ASSUME IdInv, NoRecordLost, [Next]_vars PROVE NoRecordLost'
  <2>1. CASE UNCHANGED vars
    BY <1>3, <2>1 DEF vars, NoRecordLost
  <2>2. ASSUME NEW q \in Submitters, Step(q) \/ Die(q) PROVE NoRecordLost'
    <3>1. \A p \in Submitters \ {q} : pc'[p] = pc[p] /\ next'[p] = next[p]
      BY <1>3, <2>2, OneMoves DEF IdInv
    <3>2. pc[q] # "locked" => next'[q] = next[q]
      BY <1>3, <2>2, OneMoves DEF IdInv
    <3>3. pc \in [Submitters -> {"start", "locked", "read", "truncated", "written", "allocated",
                                 "saved", "failed", "dead"}]
      BY <1>3 DEF IdInv, TypeOK
    <3>4. CASE SaveMeta(q)
      <4>1. ASSUME NEW p \in Submitters \ {q}, pc[p] = "saved" PROVE next[p] # next[q]
        BY <1>3, <3>4, <4>1 DEF IdInv, UniqueIds, HasId, SaveMeta, Moves
      <4>. QED  BY <1>3, <3>1, <3>2, <3>4, <4>1 DEF NoRecordLost, SaveMeta, Moves
    <3>5. CASE ~SaveMeta(q)
      <4>1. records' = records /\ (pc'[q] = "saved" => pc[q] = "saved")
        BY <2>2, <3>3, <3>5 DEF Step, Lock, Read, Truncate, Write, UpdateFails, Unlock, SaveFails,
                                Die, Moves
      <4>. QED  BY <1>3, <3>1, <3>2, <4>1 DEF NoRecordLost
    <3>. QED  BY <3>4, <3>5
  <2>. QED  BY <1>3, <2>1, <2>2 DEF Next
<1>. QED  BY InitOK, <1>1, <1>2, <1>3, PTL DEF Spec
=============================================================================
