-------------------------- MODULE CoreContractProofs --------------------------
(***************************************************************************)
(* CoreCollection implements SnapshotContract, for every value of the      *)
(* constants: what a reader of market_snapshot.db is promised holds of     *)
(* every behaviour of the collection. Each step of the collection maps to  *)
(* one step of the contract, or to none.                                   *)
(***************************************************************************)
EXTENDS CoreCollectionProofs

Excused == barsLost \cup splitsLost

\* The file changes only when a copy is published, and what is known of a
\* split stays known.
LEMMA FileKept ==
    ASSUME Next, snap' # snap
    PROVE  SnapshotPublish
BY DEF Next, Environment, CloseSession, NextDay, Split, Reclassify, Kill, Interrupt, RunStep,
       StartRun, BeginCore, BeginRotation, Finish, CoreStep, CoreCommit, CoreFailed, CoreRecord,
       CoreExhausted, CoreLoopEnds, SplitStep, SplitCommit, SplitFailed, SplitRecord,
       SplitExhausted, SplitLoopEnds, RotationStep, RotationCommit, RotationFailed,
       RotationRecord, RotationLoopEnds, SnapshotStep, SnapshotRecord

LEMMA SplitKept ==
    ASSUME TypeInv, Next, NEW s \in Symbols, split[s] # 0
    PROVE  split'[s] = split[s]
BY LoopSteps DEF LoopFrame, Next, Environment, CloseSession, NextDay, Split, Reclassify, Kill,
                 Interrupt, RunStep, StartRun, BeginCore, BeginRotation, Finish, SnapshotStep,
                 SnapshotRecord, SnapshotPublish, TypeInv, TypeOK, envVars, clockVars

\* The market may open with a split while the copy is made: that does not make
\* it wrong, since no stored row is rescaled for a split nobody knew.
LEMMA CopyStands ==
    ASSUME TypeInv, TypeInv', Quiet, RescaledKnown, Next, pc = "copy", pc' = "copy"
    PROVE  CopyOf(record)' = CopyOf(record) /\ UNCHANGED <<snap, Excused>>
<1>1. ~SnapshotRecord
  BY DEF SnapshotRecord
<1>2. UNCHANGED <<record, core, db, disk, barsLost, splitsLost>>
  BY <1>1, CopyReached
<1>3. UNCHANGED snap
  BY FileKept DEF SnapshotPublish, Ended
<1>4. \A s \in Symbols : split[s] # 0 => split'[s] = split[s]
  BY SplitKept
<1>5. \A s \in Symbols : Keeps(db[s], split[s], record.session)'
                           = Keeps(db[s], split[s], record.session)
  BY <1>2, <1>4 DEF Keeps, RescaledKnown
<1>6. record.core \subseteq Symbols
  BY DEF TypeInv, TypeOK, Record
<1>7. CopyOf(record)' = CopyOf(record)
  BY <1>2, <1>5, <1>6 DEF CopyOf
<1> QED
  BY <1>2, <1>3, <1>7 DEF Excused

LEMMA ContractInit == Init => Contract!Init
BY DEF Init, Contract!Init, Contract!Nothing, NoCopy

LEMMA ContractStep ==
    ASSUME IInv, IInv', Next
    PROVE  [Contract!Next]_(Contract!vars)
<1> USE DEF IInv
<1>1. CASE pc = "copy" /\ pc' = "copy"
  BY <1>1, CopyStands DEF Contract!vars, Excused
<1>2. CASE pc # "copy" /\ pc' = "copy"
  <2>1. SnapshotRecord
    BY <1>2, CopyReached
  <2>2. UNCHANGED <<snap, barsLost, splitsLost>>
    BY <2>1 DEF SnapshotRecord, lostVars
  <2>3. CopyOf(record)' \in Copy
    BY DEF CopyOf, Copy, TypeInv, TypeOK, Record
  <2>4. CopyOf(record)'.complete => CopyOf(record)'.broken \subseteq Excused
    <3>1. CompleteHasBars' /\ CompleteHasSplits' /\ Quiet' /\ UNCHANGED Excused
      BY <2>2 DEF Excused
    <3> QED
      BY <1>2, <3>1 DEF CompleteHasBars, CompleteHasSplits, Recorded, CopyOf, Keeps, Quiet,
                        Excused
  <2>5. Contract!Offer
    BY <1>2, <2>2, <2>3, <2>4 DEF Contract!Offer, Contract!Copy, Copy, Excused
  <2> QED
    BY <2>5 DEF Contract!Next
<1>3. CASE pc = "copy" /\ pc' # "copy"
  <2>1. SnapshotPublish \/ Kill
    BY <1>3, LoopSteps DEF LoopFrame, Next, Environment, CloseSession, NextDay, Split, Reclassify,
                           Interrupt, RunStep, StartRun, BeginCore, BeginRotation, Finish,
                           SnapshotStep, SnapshotRecord
  <2>2. CASE SnapshotPublish
    <3>1. snap' = CopyOf(record) /\ UNCHANGED <<barsLost, splitsLost>>
      BY <2>2 DEF SnapshotPublish, lostVars
    <3> QED
      BY <1>3, <3>1 DEF Contract!Next, Contract!Publish
  <2>3. CASE Kill
    <3>1. UNCHANGED <<snap, barsLost, splitsLost>>
      BY <1>3, <2>3 DEF Kill, Quiet, TypeInv, TypeOK
    <3> QED
      BY <1>3, <3>1 DEF Contract!Next, Contract!Withdraw
  <2> QED
    BY <2>1, <2>2, <2>3
<1>4. CASE pc # "copy" /\ pc' # "copy"
  <2>1. UNCHANGED snap
    BY <1>4, FileKept DEF SnapshotPublish
  <2>2. (barsLost \cup splitsLost)' \in SUBSET Symbols
    BY DEF TypeInv, TypeOK
  <2>3. Contract!Collect
    BY <1>4, <2>1, <2>2 DEF Contract!Collect
  <2> QED
    BY <2>3 DEF Contract!Next
<1> QED
  BY <1>1, <1>2, <1>3, <1>4

\* The published file changes in one step from one recorded copy to the next,
\* and a complete copy is wrong only about symbols whose bookkeeping was lost.
THEOREM ImplementsContract == Spec => ContractHolds
<1>1. IInv /\ IInv' /\ [Next]_vars => [Contract!Next]_(Contract!vars)
  <2>1. ASSUME UNCHANGED vars PROVE UNCHANGED (Contract!vars)
    BY <2>1 DEF vars, envVars, clockVars, runVars, lostVars, Contract!vars, CopyOf, Keeps
  <2> QED
    BY <2>1, ContractStep
<1> QED
  BY <1>1, Invariant, ContractInit, PTL DEF Spec, ContractHolds, Contract!Spec
=============================================================================
