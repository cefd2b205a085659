------------------------ MODULE CoreCollectionProofs ------------------------
(***************************************************************************)
(* Theorems about CoreCollection, for any number of symbols, any save      *)
(* interval, any lateness of the provider and any number of kills.         *)
(***************************************************************************)
EXTENDS CoreCollection, TLAPS

USE CollectionAssumption

(***************************************************************************)
(* Types                                                                   *)
(***************************************************************************)
\* A commit that is not recorded yet is of some symbol.
CurChosen == pc = "record" => cur \in Symbols

TypeInv == TypeOK /\ CurChosen

(***************************************************************************)
(* The inductive invariant                                                 *)
(***************************************************************************)
\* Sessions and days count from one; a run works with a session that closed.
Clocks ==
    /\ session # 0 /\ runSession <= session
    /\ pc \in {"loop", "record", "end"} => runDay # 0

\* Rows are rescaled only for a split the provider knows.
RescaledKnown == \A s \in Symbols : db[s].rescaled => split[s] # 0

\* Between runs, and while a snapshot is made, nothing is unsaved.
Quiet ==
    /\ pc \in {"idle", "copy"} => unsaved = {} /\ moved = {} /\ mem = disk
    /\ pc = "copy" => record.core = core /\ record.session # 0

\* A symbol with a success or with checked splits has rows.
HasRows(e) == \A s \in Symbols : (e[s].checked \/ e[s].success # 0) => db[s].last # 0
WithRows ==
    /\ HasRows(mem) /\ HasRows(disk)
    /\ pc = "record" => db[cur].last # 0
    /\ phase = "splits" => \A s \in todo : db[s].last # 0

\* The commit of cur is what found says of it, until it is recorded.
Committing(s) == pc = "record" /\ phase = "core" /\ s = cur
FoundHeld == \A s \in Symbols : Committing(s) => found.last = db[s].last /\ found.adj = db[s].adj

\* core_session tells the last bar: state.json does so of the symbols whose
\* commits it knows, the memory of all but the one being committed.
BarsTold(e, s) == e[s].session # 0 => db[s].last = e[s].session /\ db[s].adj
DiskBars == \A s \in Symbols \ (barsLost \cup unsaved) : BarsTold(disk, s)
MemBars  == \A s \in Symbols \ barsLost : Committing(s) \/ BarsTold(mem, s)

\* Likewise the split marks tell whether corporate_actions has the split.
Derived(s)       == db[s].rescaled => db[s].event
SplitsTold(e, s) == SplitsComplete(e[s]) => Derived(s)
DiskSplits == \A s \in Symbols \ (splitsLost \cup moved) : SplitsTold(disk, s)
MemSplits  == \A s \in Symbols \ splitsLost :
                 (Committing(s) /\ found.changed) \/ SplitsTold(mem, s)
SplitsHeld == \A s \in Symbols \ splitsLost :
                 (pc = "record" /\ phase = "splits" /\ s = cur) => Derived(s)

\* A mark that memory has dropped was dropped by a split refresh.
StaleKept == \A s \in Symbols : (disk[s].stale /\ ~mem[s].stale) => mem[s].checked

\* While nothing has failed, what has left the loop is done.
CleanSoFar ==
    (clean /\ pc \in {"loop", "record"}) =>
       /\ phase = "core"   => \A s \in core \ todo : mem[s].session = runSession
       /\ phase = "splits" => \A s \in core :
              /\ mem[s].session = runSession
              /\ (mem[s].success = runDay /\ s \notin todo) => SplitsComplete(mem[s])

IInv ==
    /\ TypeInv /\ Clocks /\ NoUnfinishedBar /\ RescaledKnown /\ Quiet
    /\ WithRows /\ FoundHeld /\ DiskBars /\ MemBars
    /\ DiskSplits /\ MemSplits /\ SplitsHeld /\ StaleKept /\ CleanSoFar
    /\ CompleteHasBars /\ CompleteHasSplits

LEMMA Blank ==
    /\ NoRows \in Rows /\ NoEntry \in Entry /\ NotFound \in Found
    /\ NoRecord \in Record /\ NoCopy \in Copy
BY DEF NoRows, NoEntry, NoRecord, NoCopy, NotFound, Rows, Entry, Record, Copy, Found, Statuses

LEMMA TypeInit == Init => TypeInv
<1> SUFFICES ASSUME Init PROVE TypeInv
  OBVIOUS
<1>1. 0 \in 0..(SaveEvery - 1)
  OBVIOUS
<1>2. /\ split \in [Symbols -> Nat] /\ db \in [Symbols -> Rows]
      /\ disk \in [Symbols -> Entry] /\ mem \in [Symbols -> Entry]
  BY Blank DEF Init
<1>3. closed \in BOOLEAN /\ both \in BOOLEAN /\ force \in BOOLEAN /\ clean \in BOOLEAN
  BY DEF Init
<1> QED
  BY <1>1, <1>2, <1>3, Blank DEF Init, TypeInv, TypeOK, CurChosen, Phases, Places

LEMMA EndedType ==
    ASSUME TypeInv, Ended, disk' \in [Symbols -> Entry]
    PROVE  /\ mem' \in [Symbols -> Entry] /\ record' \in Record
           /\ phase' \in Phases /\ pc' = "idle"
           /\ both' \in BOOLEAN /\ force' \in BOOLEAN
           /\ runSession' \in Nat /\ runDay' \in Nat
           /\ todo' \in SUBSET Symbols /\ cur' \in Symbols \cup {0} /\ found' \in Found
           /\ handled' \in 0..(SaveEvery - 1) /\ clean' \in BOOLEAN
<1>1. 0 \in 0..(SaveEvery - 1)
  OBVIOUS
<1>2. both' \in BOOLEAN /\ force' \in BOOLEAN /\ clean' \in BOOLEAN
  BY DEF Ended
<1> QED
  BY <1>1, <1>2, Blank DEF Ended, Phases

LEMMA SavedType ==
    ASSUME TypeInv, mem' \in [Symbols -> Entry], Tick
    PROVE  /\ disk' \in [Symbols -> Entry] /\ handled' \in 0..(SaveEvery - 1)
           /\ unsaved' \in SUBSET Symbols /\ moved' \in SUBSET Symbols
<1>1. (handled + 1) % SaveEvery \in 0..(SaveEvery - 1)
  BY DEF TypeInv, TypeOK
<1> QED
  BY <1>1 DEF Tick, Saved, TypeInv, TypeOK

LEMMA EnvironmentType ==
    ASSUME TypeInv, Environment
    PROVE  TypeInv'
<1>1. CASE CloseSession
  BY <1>1 DEF CloseSession, TypeInv, TypeOK, CurChosen, runVars, lostVars
<1>2. CASE NextDay
  <2>1. day' \in Nat \ {0}
    <3>1. day' = day + 1
      BY <1>2 DEF NextDay
    <3>2. day \in Nat
      BY DEF TypeInv, TypeOK
    <3> QED
      BY <3>1, <3>2
  <2>2. closed' \in BOOLEAN
    BY <1>2 DEF NextDay
  <2> QED
    BY <1>2, <2>1, <2>2 DEF NextDay, TypeInv, TypeOK, CurChosen, runVars, lostVars
<1>3. ASSUME NEW s \in Symbols, Split(s) PROVE TypeInv'
  BY <1>3 DEF Split, TypeInv, TypeOK, CurChosen, runVars, lostVars
<1>4. ASSUME NEW s \in Symbols, Reclassify(s) PROVE TypeInv'
  BY <1>4 DEF Reclassify, TypeInv, TypeOK, CurChosen, runVars, lostVars
<1>5. CASE Kill
  BY <1>5, EndedType DEF Kill, TypeInv, TypeOK, CurChosen, clockVars, Places
<1>6. CASE Interrupt
  <2>1. disk' \in [Symbols -> Entry]
    BY <1>6 DEF Interrupt, TypeInv, TypeOK, CurChosen
  <2>2. barsLost' \in SUBSET Symbols /\ splitsLost' \in SUBSET Symbols
    BY <1>6 DEF Interrupt, TypeInv, TypeOK, CurChosen
  <2> QED
    BY <1>6, <2>1, <2>2, EndedType DEF Interrupt, TypeInv, TypeOK, CurChosen, clockVars, Places
<1> QED
  BY <1>1, <1>2, <1>3, <1>4, <1>5, <1>6 DEF Environment

LEMMA RunType ==
    ASSUME TypeInv, RunStep
    PROVE  TypeInv'
<1>1. ASSUME NEW first \in {"core", "rotation"}, NEW all \in BOOLEAN, NEW forced \in BOOLEAN,
             StartRun(first, all, forced)
      PROVE  TypeInv'
  BY <1>1 DEF StartRun, TypeInv, TypeOK, CurChosen, envVars, clockVars, lostVars, Phases, Places
<1>2. CASE BeginCore
  BY <1>2 DEF BeginCore, Saved, TypeInv, TypeOK, CurChosen, envVars, clockVars, Phases, Places
<1>3. CASE BeginRotation
  BY <1>3 DEF BeginRotation, Saved, TypeInv, TypeOK, CurChosen, envVars, clockVars, Phases, Places
<1>4. CASE Finish
  BY <1>4, EndedType DEF Finish, TypeInv, TypeOK, CurChosen, envVars, clockVars, Places
<1> QED
  BY <1>1, <1>2, <1>3, <1>4 DEF RunStep

LEMMA CoreType ==
    ASSUME TypeInv, CoreStep
    PROVE  TypeInv'
<1>1. ASSUME NEW s \in Symbols, CoreCommit(s) PROVE TypeInv'
  BY <1>1 DEF CoreCommit, CoreTurn, Latest, BarsUntil, Rows, Found, TypeInv, TypeOK, CurChosen, envVars, clockVars,
              runVars, Places
<1>2. ASSUME NEW s \in Symbols, CoreFailed(s) PROVE TypeInv'
  BY <1>2, SavedType DEF CoreFailed, CoreTurn, TypeInv, TypeOK, CurChosen, envVars, clockVars, runVars
<1>3. CASE CoreRecord
  BY <1>3, SavedType DEF CoreRecord, Entry, Found, NotFound, TypeInv, TypeOK, CurChosen, envVars, clockVars, runVars, Places
<1>4. CASE CoreExhausted \/ CoreLoopEnds
  BY <1>4 DEF CoreExhausted, CoreLoopEnds, TypeInv, TypeOK, CurChosen, envVars, clockVars, runVars, lostVars, Phases
<1> QED
  BY <1>1, <1>2, <1>3, <1>4 DEF CoreStep

LEMMA SplitType ==
    ASSUME TypeInv, SplitStep
    PROVE  TypeInv'
<1>1. ASSUME NEW s \in Symbols, SplitCommit(s) PROVE TypeInv'
  <2>1. \A e \in BOOLEAN : [db EXCEPT ![s].event = e] \in [Symbols -> Rows]
    BY DEF TypeInv, TypeOK, Rows
  <2>2. \A raw : SeesSplit(s, raw) \in BOOLEAN
    BY Zenon DEF SeesSplit
  <2>3. db' \in [Symbols -> Rows] /\ splitsLost' \in SUBSET Symbols
    BY <1>1, <2>1, <2>2 DEF SplitCommit, TypeInv, TypeOK
  <2> QED
    BY <2>3, <1>1 DEF SplitCommit, SplitTurn, SeesSplit, Rows, TypeInv, TypeOK, CurChosen, envVars, clockVars, runVars, Places
<1>2. ASSUME NEW s \in Symbols, SplitFailed(s) PROVE TypeInv'
  BY <1>2, SavedType DEF SplitFailed, SplitTurn, TypeInv, TypeOK, CurChosen, envVars, clockVars, runVars
<1>3. CASE SplitRecord
  BY <1>3, SavedType DEF SplitRecord, Entry, TypeInv, TypeOK, CurChosen, envVars, clockVars, runVars, Places
<1>4. CASE SplitExhausted \/ SplitLoopEnds
  BY <1>4 DEF SplitExhausted, SplitLoopEnds, TypeInv, TypeOK, CurChosen, envVars, clockVars, runVars, lostVars, Phases, Places
<1> QED
  BY <1>1, <1>2, <1>3, <1>4 DEF SplitStep

LEMMA RotationType ==
    ASSUME TypeInv, RotationStep
    PROVE  TypeInv'
<1>1. ASSUME NEW s \in Symbols, RotationCommit(s) PROVE TypeInv'
  BY <1>1 DEF RotationCommit, Latest, BarsUntil, Rows, TypeInv, TypeOK, CurChosen, envVars, clockVars, runVars, Places
<1>2. ASSUME NEW s \in Symbols, RotationFailed(s) PROVE TypeInv'
  BY <1>2, SavedType DEF RotationFailed, TypeInv, TypeOK, CurChosen, envVars, clockVars, runVars
<1>3. CASE RotationRecord
  BY <1>3, SavedType DEF RotationRecord, Entry, TypeInv, TypeOK, CurChosen, envVars, clockVars, runVars, Places
<1>4. CASE RotationLoopEnds
  BY <1>4 DEF RotationLoopEnds, TypeInv, TypeOK, CurChosen, envVars, clockVars, runVars, lostVars, Places
<1> QED
  BY <1>1, <1>2, <1>3, <1>4 DEF RotationStep

LEMMA SnapshotType ==
    ASSUME TypeInv, SnapshotStep
    PROVE  TypeInv'
<1>1. CASE SnapshotRecord
  BY <1>1 DEF SnapshotRecord, Evaluate, Record, Statuses, TypeInv, TypeOK, CurChosen, envVars, clockVars, runVars,
              lostVars, Phases, Places
<1>2. CASE SnapshotPublish
  BY <1>2, EndedType DEF SnapshotPublish, CopyOf, Copy, Record, TypeInv, TypeOK, CurChosen, envVars,
       clockVars, Places, lostVars
<1> QED
  BY <1>1, <1>2 DEF SnapshotStep

LEMMA TypeStep == TypeInv /\ [Next]_vars => TypeInv'
<1>1. ASSUME TypeInv, UNCHANGED vars PROVE TypeInv'
  BY <1>1 DEF TypeInv, TypeOK, CurChosen, vars, envVars, clockVars, runVars, lostVars
<1> QED
  BY <1>1, EnvironmentType, RunType, CoreType, SplitType, RotationType, SnapshotType DEF Next

(***************************************************************************)
(* Clocks and places                                                       *)
(***************************************************************************)
LEMMA Initially == Init => IInv
<1> SUFFICES ASSUME Init PROVE IInv
  OBVIOUS
<1>1. TypeInv
  BY TypeInit
<1>2. /\ Clocks /\ NoUnfinishedBar /\ RescaledKnown /\ Quiet /\ WithRows
      /\ CompleteHasBars /\ CompleteHasSplits
  BY DEF Init, NoRows, NoEntry, Clocks, NoUnfinishedBar, RescaledKnown, Quiet, WithRows, HasRows,
         CompleteHasBars, CompleteHasSplits, Recorded
<1>3. /\ FoundHeld /\ DiskBars /\ MemBars /\ DiskSplits /\ MemSplits /\ SplitsHeld
      /\ StaleKept /\ CleanSoFar
  BY DEF Init, NoRows, NoEntry, FoundHeld, DiskBars, MemBars, DiskSplits, MemSplits, SplitsHeld,
         StaleKept, CleanSoFar, BarsTold, SplitsTold, SplitsComplete, Derived, Committing
<1> QED
  BY <1>1, <1>2, <1>3 DEF IInv

\* A step of a loop leaves the world, the run and the snapshot as they are.
LoopFrame == /\ pc \in {"loop", "record"} /\ pc' \in {"loop", "record", "begin", "end"}
             /\ UNCHANGED <<session, core, split, record, runSession, runDay>>

LEMMA LoopSteps ==
    ASSUME CoreStep \/ SplitStep \/ RotationStep
    PROVE  LoopFrame
<1>1. CASE CoreStep
  <2>1. pc \in {"loop", "record"} /\ pc' \in {"loop", "record"}
    BY <1>1 DEF CoreStep, CoreCommit, CoreTurn, CoreFailed, CoreRecord, CoreExhausted, CoreLoopEnds
  <2>2. UNCHANGED <<session, core, split, record, runSession, runDay>>
    BY <1>1 DEF CoreStep, CoreCommit, CoreFailed, CoreRecord, CoreExhausted, CoreLoopEnds,
                envVars, clockVars, runVars
  <2> QED
    BY <2>1, <2>2 DEF LoopFrame
<1>2. CASE SplitStep
  <2>1. pc \in {"loop", "record"} /\ pc' \in {"loop", "record", "begin", "end"}
    BY <1>2 DEF SplitStep, SplitCommit, SplitTurn, SplitFailed, SplitRecord, SplitExhausted,
                SplitLoopEnds
  <2>2. UNCHANGED <<session, core, split, record, runSession, runDay>>
    BY <1>2 DEF SplitStep, SplitCommit, SplitFailed, SplitRecord, SplitExhausted, SplitLoopEnds,
                envVars, clockVars, runVars
  <2> QED
    BY <2>1, <2>2 DEF LoopFrame
<1>3. CASE RotationStep
  <2>1. pc \in {"loop", "record"} /\ pc' \in {"loop", "record", "end"}
    BY <1>3 DEF RotationStep, RotationCommit, RotationFailed, RotationRecord, RotationLoopEnds
  <2>2. UNCHANGED <<session, core, split, record, runSession, runDay>>
    BY <1>3 DEF RotationStep, RotationCommit, RotationFailed, RotationRecord, RotationLoopEnds,
                envVars, clockVars, runVars
  <2> QED
    BY <2>1, <2>2 DEF LoopFrame
<1> QED
  BY <1>1, <1>2, <1>3

\* Sessions and days only grow.
LEMMA ClocksStep ==
    ASSUME TypeInv, Clocks, Next
    PROVE  Clocks'
<1>1. CASE Environment
  BY <1>1 DEF Environment, CloseSession, NextDay, Split, Reclassify, Kill, Interrupt, Ended,
              Clocks, TypeInv, TypeOK, runVars, clockVars
<1>2. CASE RunStep
  BY <1>2 DEF RunStep, StartRun, BeginCore, BeginRotation, Finish, Ended, Clocks, TypeInv, TypeOK,
              envVars, clockVars
<1>3. CASE CoreStep \/ SplitStep \/ RotationStep
  BY <1>3, LoopSteps DEF LoopFrame, Clocks
<1>4. CASE SnapshotStep
  BY <1>4 DEF SnapshotStep, SnapshotRecord, SnapshotPublish, Ended, Clocks, TypeInv, TypeOK,
              envVars, clockVars, runVars
<1> QED
  BY <1>1, <1>2, <1>3, <1>4 DEF Next

\* Between runs everything recorded is saved.
LEMMA QuietStep ==
    ASSUME TypeInv, Clocks, Quiet, Next
    PROVE  Quiet'
<1>1. CASE Environment
  BY <1>1 DEF Environment, CloseSession, NextDay, Split, Reclassify, Kill, Interrupt, Ended,
              Quiet, lostVars, clockVars
<1>2. CASE RunStep
  BY <1>2 DEF RunStep, StartRun, BeginCore, BeginRotation, Finish, Ended, Quiet
<1>3. CASE CoreStep \/ SplitStep \/ RotationStep
  BY <1>3, LoopSteps DEF LoopFrame, Quiet
<1>4. CASE SnapshotStep
  BY <1>4 DEF SnapshotStep, SnapshotRecord, SnapshotPublish, Ended, Quiet, Clocks, lostVars,
              envVars, clockVars
<1> QED
  BY <1>1, <1>2, <1>3, <1>4 DEF Next

(***************************************************************************)
(* Rows                                                                    *)
(***************************************************************************)

\* The steps that write market.db, and what each writes of a symbol's rows.
LEMMA RowsWritten ==
    ASSUME TypeInv, Next, db' # db
    PROVE  \E s \in Symbols : CoreCommit(s) \/ SplitCommit(s) \/ RotationCommit(s)
BY DEF Next, Environment, CloseSession, NextDay, Split, Reclassify, Kill, Interrupt, RunStep,
       StartRun, BeginCore, BeginRotation, Finish, CoreStep, CoreFailed, CoreRecord,
       CoreExhausted, CoreLoopEnds, SplitStep, SplitFailed, SplitRecord, SplitExhausted,
       SplitLoopEnds, RotationStep, RotationFailed, RotationRecord, RotationLoopEnds,
       SnapshotStep, SnapshotRecord, SnapshotPublish

LEMMA CoreCommitRows ==
    ASSUME TypeInv, NEW s \in Symbols, CoreCommit(s)
    PROVE  /\ \A t \in Symbols \ {s} : db'[t] = db[t]
           /\ db'[s].last \in Nat \ {0} /\ db'[s].last <= runSession
           /\ db'[s].rescaled = (split[s] # 0) /\ db'[s].event = db[s].event
           /\ found'.last = db'[s].last /\ found'.adj = db'[s].adj
           /\ found'.changed = (db[s].last # 0 /\ db[s].rescaled # (split[s] # 0))
BY DEF CoreCommit, CoreTurn, Latest, BarsUntil, TypeInv, TypeOK, Rows

LEMMA RotationCommitRows ==
    ASSUME TypeInv, NEW s \in Symbols, RotationCommit(s)
    PROVE  /\ \A t \in Symbols \ {s} : db'[t] = db[t]
           /\ db'[s].last \in Nat \ {0} /\ db'[s].last <= runSession
           /\ db'[s].rescaled = (split[s] # 0) /\ db'[s].event = db[s].event
BY DEF RotationCommit, Latest, BarsUntil, TypeInv, TypeOK, Rows

LEMMA SplitCommitRows ==
    ASSUME TypeInv, NEW s \in Symbols, SplitCommit(s)
    PROVE  /\ \A t \in Symbols \ {s} : db'[t] = db[t]
           /\ db'[s].last = db[s].last /\ db'[s].adj = db[s].adj
           /\ db'[s].rescaled = db[s].rescaled
           /\ s \notin splitsLost' => Derived(s)'
BY DEF SplitCommit, SplitTurn, TypeInv, TypeOK, Rows, Derived

LEMMA UnfinishedStep ==
    ASSUME TypeInv, Clocks, NoUnfinishedBar, Next
    PROVE  NoUnfinishedBar'
<1>1. session' \in Nat /\ session <= session'
  BY LoopSteps DEF LoopFrame, Next, Environment, CloseSession, NextDay, Split, Reclassify, Kill,
                   Interrupt, RunStep, StartRun, BeginCore, BeginRotation, Finish, SnapshotStep,
                   SnapshotRecord, SnapshotPublish, TypeInv, TypeOK, envVars, clockVars
<1>2. CASE UNCHANGED db
  BY <1>1, <1>2 DEF NoUnfinishedBar, TypeInv, TypeOK, Rows
<1>3. ASSUME NEW s \in Symbols, CoreCommit(s) PROVE NoUnfinishedBar'
  BY <1>1, <1>3, CoreCommitRows DEF NoUnfinishedBar, Clocks, TypeInv, TypeOK, Rows
<1>4. ASSUME NEW s \in Symbols, RotationCommit(s) PROVE NoUnfinishedBar'
  BY <1>1, <1>4, RotationCommitRows DEF NoUnfinishedBar, Clocks, TypeInv, TypeOK, Rows
<1>5. ASSUME NEW s \in Symbols, SplitCommit(s) PROVE NoUnfinishedBar'
  BY <1>1, <1>5, SplitCommitRows DEF NoUnfinishedBar, TypeInv, TypeOK, Rows
<1> QED
  BY <1>2, <1>3, <1>4, <1>5, RowsWritten

LEMMA RescaledStep ==
    ASSUME TypeInv, RescaledKnown, Next
    PROVE  RescaledKnown'
<1>1. \A s \in Symbols : split[s] # 0 => split'[s] # 0
  BY LoopSteps DEF LoopFrame, Next, Environment, CloseSession, NextDay, Split, Reclassify, Kill,
                   Interrupt, RunStep, StartRun, BeginCore, BeginRotation, Finish, SnapshotStep,
                   SnapshotRecord, SnapshotPublish, TypeInv, TypeOK, envVars, clockVars
<1>2. CASE UNCHANGED db
  BY <1>1, <1>2 DEF RescaledKnown
<1>3. ASSUME NEW s \in Symbols, CoreCommit(s) PROVE RescaledKnown'
  BY <1>1, <1>3, CoreCommitRows DEF RescaledKnown
<1>4. ASSUME NEW s \in Symbols, RotationCommit(s) PROVE RescaledKnown'
  BY <1>1, <1>4, RotationCommitRows DEF RescaledKnown
<1>5. ASSUME NEW s \in Symbols, SplitCommit(s) PROVE RescaledKnown'
  BY <1>1, <1>5, SplitCommitRows DEF RescaledKnown
<1> QED
  BY <1>2, <1>3, <1>4, <1>5, RowsWritten

(***************************************************************************)
(* Entries                                                                 *)
(***************************************************************************)

\* The entries in memory change when a symbol is recorded, or are read from
\* state.json.
LEMMA MemWritten ==
    ASSUME Next, mem' # mem
    PROVE  mem' = disk \/ CoreRecord \/ SplitRecord \/ RotationRecord
BY DEF Next, Environment, CloseSession, NextDay, Split, Reclassify, Kill, Interrupt, RunStep,
       StartRun, BeginCore, BeginRotation, Finish, CoreStep, CoreCommit, CoreFailed, CoreRecord,
       CoreExhausted, CoreLoopEnds, SplitStep, SplitCommit, SplitFailed, SplitRecord,
       SplitExhausted, SplitLoopEnds, RotationStep, RotationCommit, RotationFailed,
       RotationRecord, RotationLoopEnds, SnapshotStep, SnapshotRecord, SnapshotPublish,
       Ended

\* state.json holds what it held, or all that was recorded.
LEMMA DiskWritten ==
    ASSUME Next
    PROVE  disk' = disk \/ disk' = mem \/ disk' = mem'
BY DEF Next, Environment, CloseSession, NextDay, Split, Reclassify, Kill, Interrupt, RunStep,
       StartRun, BeginCore, BeginRotation, Finish, CoreStep, CoreCommit, CoreFailed, CoreRecord,
       CoreExhausted, CoreLoopEnds, SplitStep, SplitCommit, SplitFailed, SplitRecord,
       SplitExhausted, SplitLoopEnds, RotationStep, RotationCommit, RotationFailed,
       RotationRecord, RotationLoopEnds, SnapshotStep, SnapshotRecord, SnapshotPublish,
       Tick, Saved, Ended

LEMMA CoreRecordEntry ==
    ASSUME TypeInv, CoreRecord
    PROVE  /\ \A t \in Symbols \ {cur} : mem'[t] = mem[t]
           /\ mem'[cur].session # 0 =>
                 mem'[cur].session = runSession /\ found.last = runSession /\ found.adj
           /\ mem'[cur].success = runDay /\ mem'[cur].checked = mem[cur].checked
           /\ mem'[cur].stale = (mem[cur].stale \/ found.changed)
BY DEF CoreRecord, TypeInv, TypeOK, CurChosen, Entry

LEMMA SplitRecordEntry ==
    ASSUME TypeInv, SplitRecord
    PROVE  /\ \A t \in Symbols \ {cur} : mem'[t] = mem[t]
           /\ mem'[cur].session = mem[cur].session /\ mem'[cur].success = mem[cur].success
           /\ mem'[cur].checked /\ ~mem'[cur].stale
BY DEF SplitRecord, TypeInv, TypeOK, CurChosen, Entry

LEMMA RotationRecordEntry ==
    ASSUME TypeInv, RotationRecord
    PROVE  /\ \A t \in Symbols \ {cur} : mem'[t] = mem[t]
           /\ mem'[cur].session = mem[cur].session /\ mem'[cur].success = runDay
           /\ mem'[cur].checked = mem[cur].checked /\ mem'[cur].stale = mem[cur].stale
BY DEF RotationRecord, TypeInv, TypeOK, CurChosen, Entry

LEMMA RowsKept ==
    ASSUME TypeInv, Next, NEW s \in Symbols, db[s].last # 0
    PROVE  db'[s].last # 0
<1>1. CASE UNCHANGED db
  BY <1>1
<1>2. ASSUME NEW t \in Symbols, CoreCommit(t) \/ SplitCommit(t) \/ RotationCommit(t)
      PROVE  db'[s].last # 0
  BY <1>2, CoreCommitRows, RotationCommitRows, SplitCommitRows
<1> QED
  BY <1>1, <1>2, RowsWritten

\* A commit waits to be recorded because it was just made, or still waits.
LEMMA RecordReached ==
    ASSUME Next, pc' = "record"
    PROVE  \/ pc = "record" /\ UNCHANGED <<phase, cur, found, db, barsLost, splitsLost>>
           \/ \E s \in Symbols : CoreCommit(s) \/ SplitCommit(s) \/ RotationCommit(s)
BY DEF Next, Environment, CloseSession, NextDay, Split, Reclassify, Kill, Interrupt, RunStep,
       StartRun, BeginCore, BeginRotation, Finish, CoreStep, CoreCommit, CoreFailed, CoreRecord,
       CoreExhausted, CoreLoopEnds, SplitStep, SplitCommit, SplitFailed, SplitRecord,
       SplitExhausted, SplitLoopEnds, RotationStep, RotationCommit, RotationFailed,
       RotationRecord, RotationLoopEnds, SnapshotStep, SnapshotRecord, SnapshotPublish,
       Ended, CoreTurn, SplitTurn, lostVars

\* The split loop begins when the core loop ends, and only runs down.
LEMMA SplitsReached ==
    ASSUME Next, phase' = "splits"
    PROVE  CoreLoopEnds \/ (phase = "splits" /\ todo' \subseteq todo)
BY DEF Next, Environment, CloseSession, NextDay, Split, Reclassify, Kill, Interrupt, RunStep,
       StartRun, BeginCore, BeginRotation, Finish, CoreStep, CoreCommit, CoreFailed, CoreRecord,
       CoreExhausted, CoreLoopEnds, SplitStep, SplitCommit, SplitFailed, SplitRecord,
       SplitExhausted, SplitLoopEnds, RotationStep, RotationCommit, RotationFailed,
       RotationRecord, RotationLoopEnds, SnapshotStep, SnapshotRecord, SnapshotPublish,
       Ended, CoreTurn, SplitTurn

LEMMA WithRowsStep ==
    ASSUME TypeInv, TypeInv', Clocks, WithRows, Next
    PROVE  WithRows'
<1>1. \A s \in Symbols : db[s].last # 0 => db'[s].last # 0
  BY RowsKept
<1>2. HasRows(mem)'
  <2>1. CASE mem' = mem \/ mem' = disk
    BY <1>1, <2>1 DEF WithRows, HasRows
  <2>2. CASE CoreRecord \/ RotationRecord
    BY <1>1, <2>2, CoreRecordEntry, RotationRecordEntry DEF CoreRecord, RotationRecord, WithRows,
       HasRows, TypeInv, CurChosen
  <2>3. CASE SplitRecord
    BY <1>1, <2>3, SplitRecordEntry DEF SplitRecord, WithRows, HasRows, TypeInv, CurChosen
  <2> QED
    BY <2>1, <2>2, <2>3, MemWritten
<1>3. HasRows(disk)'
  BY <1>1, <1>2, DiskWritten DEF WithRows, HasRows
<1>4. pc' = "record" => db'[cur'].last # 0
  <2>1. ASSUME NEW s \in Symbols, CoreCommit(s) \/ RotationCommit(s) PROVE db'[cur'].last # 0
    BY <2>1, CoreCommitRows, RotationCommitRows DEF CoreCommit, RotationCommit
  <2>2. ASSUME NEW s \in Symbols, SplitCommit(s) PROVE db'[cur'].last # 0
    BY <1>1, <2>2 DEF SplitCommit, SplitTurn, WithRows
  <2>3. CASE pc = "record" /\ UNCHANGED <<phase, cur, found, db, barsLost, splitsLost>>
    BY <2>3 DEF WithRows
  <2> QED
    BY <2>1, <2>2, <2>3, RecordReached
<1>5. phase' = "splits" => \A s \in todo' : db'[s].last # 0
  <2>1. CASE CoreLoopEnds
    BY <2>1 DEF CoreLoopEnds, WithRows, HasRows, Clocks, TypeInv, TypeOK
  <2>2. CASE phase = "splits" /\ todo' \subseteq todo
    BY <1>1, <2>2 DEF WithRows, TypeInv, TypeOK
  <2> QED
    BY <2>1, <2>2, SplitsReached
<1> QED
  BY <1>2, <1>3, <1>4, <1>5 DEF WithRows

LEMMA FoundStep ==
    ASSUME TypeInv, FoundHeld, Next
    PROVE  FoundHeld'
<1> SUFFICES ASSUME NEW s \in Symbols, Committing(s)'
             PROVE  found'.last = db'[s].last /\ found'.adj = db'[s].adj
  BY DEF FoundHeld
<1>1. CASE pc = "record" /\ UNCHANGED <<phase, cur, found, db, barsLost, splitsLost>>
  BY <1>1 DEF FoundHeld, Committing
<1>2. ASSUME NEW t \in Symbols, CoreCommit(t) PROVE found'.last = db'[s].last /\ found'.adj = db'[s].adj
  BY <1>2, CoreCommitRows DEF CoreCommit, Committing
<1>3. ASSUME NEW t \in Symbols PROVE ~SplitCommit(t) /\ ~RotationCommit(t)
  BY DEF SplitCommit, SplitTurn, RotationCommit, Committing
<1> QED
  BY <1>1, <1>2, <1>3, RecordReached DEF Committing

(***************************************************************************)
(* core_session tells the last bar                                         *)
(***************************************************************************)

\* Steps that leave the rows and the entries alone, or only save the entries.
StoresKept == /\ UNCHANGED <<db, mem, barsLost, splitsLost>>
              /\ \/ UNCHANGED <<disk, unsaved, moved>>
                 \/ disk' = mem /\ unsaved' = {} /\ moved' = {} /\ pc # "record"
              /\ \/ UNCHANGED <<pc, phase, cur, found>>
                 \/ pc # "record" /\ pc' # "record"

LEMMA OtherSteps ==
    ASSUME TypeInv, Quiet, Next
    PROVE  \/ StoresKept \/ Kill \/ Interrupt \/ CoreRecord \/ SplitRecord \/ RotationRecord
           \/ \E s \in Symbols : CoreCommit(s) \/ SplitCommit(s) \/ RotationCommit(s)
<1>1. CASE Environment
  BY <1>1 DEF Environment, CloseSession, NextDay, Split, Reclassify, StoresKept, lostVars
<1>2. CASE RunStep
  BY <1>2 DEF RunStep, StartRun, BeginCore, BeginRotation, Finish, Ended, Saved, Quiet, StoresKept,
              lostVars
<1>3. CASE CoreStep
  BY <1>3 DEF CoreStep, CoreTurn, CoreFailed, CoreExhausted, CoreLoopEnds, Tick, Saved, StoresKept,
              lostVars
<1>4. CASE SplitStep
  BY <1>4 DEF SplitStep, SplitTurn, SplitFailed, SplitExhausted, SplitLoopEnds, Tick, Saved,
              StoresKept, lostVars
<1>5. CASE RotationStep
  BY <1>5 DEF RotationStep, RotationFailed, RotationLoopEnds, Tick, Saved, StoresKept, lostVars
<1>6. CASE SnapshotStep
  BY <1>6 DEF SnapshotStep, SnapshotRecord, SnapshotPublish, Ended, Quiet, StoresKept, lostVars
<1> QED
  BY <1>1, <1>2, <1>3, <1>4, <1>5, <1>6 DEF Next

LEMMA MemBarsStep ==
    ASSUME TypeInv, Quiet, FoundHeld, DiskBars, MemBars, Next
    PROVE  MemBars'
<1>1. CASE StoresKept
  BY <1>1 DEF StoresKept, MemBars, BarsTold, Committing
<1>2. CASE Kill
  BY <1>2 DEF Kill, Ended, MemBars, DiskBars, BarsTold
<1>3. CASE Interrupt
  BY <1>3 DEF Interrupt, Ended, MemBars, BarsTold, Committing
<1>4. CASE CoreRecord
  BY <1>4, CoreRecordEntry DEF CoreRecord, FoundHeld, MemBars, BarsTold, Committing
<1>5. CASE SplitRecord \/ RotationRecord
  BY <1>5, SplitRecordEntry, RotationRecordEntry DEF SplitRecord, RotationRecord, MemBars, BarsTold,
     Committing
<1>6. ASSUME NEW s \in Symbols, CoreCommit(s) PROVE MemBars'
  BY <1>6, CoreCommitRows DEF CoreCommit, CoreTurn, MemBars, BarsTold, Committing
<1>7. ASSUME NEW s \in Symbols, RotationCommit(s) PROVE MemBars'
  BY <1>7, RotationCommitRows DEF RotationCommit, MemBars, BarsTold, Committing
<1>8. ASSUME NEW s \in Symbols, SplitCommit(s) PROVE MemBars'
  BY <1>8, SplitCommitRows DEF SplitCommit, SplitTurn, MemBars, BarsTold, Committing
<1> QED
  BY <1>1, <1>2, <1>3, <1>4, <1>5, <1>6, <1>7, <1>8, OtherSteps

LEMMA DiskBarsStep ==
    ASSUME TypeInv, Quiet, DiskBars, MemBars, MemBars', Next
    PROVE  DiskBars'
<1>1. CASE StoresKept
  BY <1>1 DEF StoresKept, MemBars, DiskBars, BarsTold, Committing
<1>2. CASE Kill
  BY <1>2 DEF Kill, DiskBars, BarsTold
<1>3. CASE Interrupt
  BY <1>3 DEF Interrupt, MemBars, DiskBars, BarsTold, Committing
<1>4. CASE CoreRecord \/ SplitRecord \/ RotationRecord
  BY <1>4 DEF CoreRecord, SplitRecord, RotationRecord, Tick, Saved, MemBars, DiskBars, BarsTold, Committing
<1>5. ASSUME NEW s \in Symbols, CoreCommit(s) PROVE DiskBars'
  BY <1>5, CoreCommitRows DEF CoreCommit, DiskBars, BarsTold
<1>6. ASSUME NEW s \in Symbols, RotationCommit(s) PROVE DiskBars'
  BY <1>6, RotationCommitRows DEF RotationCommit, DiskBars, BarsTold
<1>7. ASSUME NEW s \in Symbols, SplitCommit(s) PROVE DiskBars'
  BY <1>7, SplitCommitRows DEF SplitCommit, DiskBars, BarsTold
<1> QED
  BY <1>1, <1>2, <1>3, <1>4, <1>5, <1>6, <1>7, OtherSteps

(***************************************************************************)
(* The split marks tell whether the split is in corporate_actions          *)
(***************************************************************************)

\* A commit hides a split from the bookkeeping only if it says so.
LEMMA CommitKeepsSplit ==
    ASSUME TypeInv, NEW s \in Symbols, CoreCommit(s) \/ RotationCommit(s), db[s].last # 0,
           db[s].rescaled = (split[s] # 0)
    PROVE  Derived(s)' <=> Derived(s)
BY CoreCommitRows, RotationCommitRows DEF Derived

LEMMA SplitsHeldStep ==
    ASSUME TypeInv, SplitsHeld, Next
    PROVE  SplitsHeld'
<1> SUFFICES ASSUME NEW s \in Symbols, s \notin splitsLost', pc' = "record", phase' = "splits",
                    s = cur'
             PROVE  Derived(s)'
  BY DEF SplitsHeld
<1>1. CASE pc = "record" /\ UNCHANGED <<phase, cur, found, db, barsLost, splitsLost>>
  BY <1>1 DEF SplitsHeld, Derived
<1>2. ASSUME NEW t \in Symbols, SplitCommit(t) PROVE Derived(s)'
  BY <1>2, SplitCommitRows DEF SplitCommit
<1>3. ASSUME NEW t \in Symbols PROVE ~CoreCommit(t) /\ ~RotationCommit(t)
  BY DEF CoreCommit, CoreTurn, RotationCommit
<1> QED
  BY <1>1, <1>2, <1>3, RecordReached

LEMMA MemSplitsStep ==
    ASSUME TypeInv, Quiet, WithRows, DiskSplits, MemSplits, SplitsHeld, Next
    PROVE  MemSplits'
<1>1. CASE StoresKept
  BY <1>1 DEF StoresKept, MemSplits, SplitsTold, Derived, Committing
<1>2. CASE Kill
  BY <1>2 DEF Kill, Ended, DiskSplits, MemSplits, SplitsTold, Derived
<1>3. CASE Interrupt
  BY <1>3 DEF Interrupt, Ended, MemSplits, SplitsTold, Derived, Committing
<1>4. CASE CoreRecord
  BY <1>4, CoreRecordEntry DEF CoreRecord, MemSplits, SplitsTold, SplitsComplete, Derived, Committing
<1>5. CASE SplitRecord
  BY <1>5, SplitRecordEntry DEF SplitRecord, MemSplits, SplitsHeld, SplitsTold, SplitsComplete, Derived, Committing
<1>6. CASE RotationRecord
  BY <1>6, RotationRecordEntry DEF RotationRecord, MemSplits, SplitsTold, SplitsComplete, Derived, Committing
<1>7. ASSUME NEW s \in Symbols, CoreCommit(s) PROVE MemSplits'
  <2>1. UNCHANGED <<mem, splitsLost>> /\ cur' = s /\ pc = "loop" /\ pc' = "record" /\ phase' = "core"
    BY <1>7 DEF CoreCommit, CoreTurn
  <2>2. ASSUME NEW t \in Symbols, t # s, t \notin splitsLost PROVE SplitsTold(mem, t)'
    BY <1>7, <2>1, <2>2, CoreCommitRows DEF MemSplits, SplitsTold, Derived, Committing
  <2>3. ASSUME s \notin splitsLost, ~found'.changed PROVE SplitsTold(mem, s)'
    <3>1. CASE db[s].last = 0
      BY <2>1, <3>1 DEF WithRows, HasRows, SplitsTold, SplitsComplete
    <3>2. CASE db[s].last # 0
      BY <1>7, <2>1, <2>3, <3>2, CoreCommitRows, CommitKeepsSplit
         DEF MemSplits, SplitsTold, Committing
    <3> QED
      BY <3>1, <3>2
  <2> QED
    BY <2>1, <2>2, <2>3 DEF MemSplits, Committing
<1>8. ASSUME NEW s \in Symbols, RotationCommit(s) PROVE MemSplits'
  <2>1. UNCHANGED mem /\ pc = "loop" /\ splitsLost \subseteq splitsLost'
    BY <1>8 DEF RotationCommit, TypeInv, TypeOK
  <2>2. ASSUME NEW t \in Symbols, t # s, t \notin splitsLost PROVE SplitsTold(mem, t)'
    BY <1>8, <2>1, <2>2, RotationCommitRows DEF MemSplits, SplitsTold, Derived, Committing
  <2>3. ASSUME s \notin splitsLost' PROVE SplitsTold(mem, s)'
    <3>1. CASE db[s].last = 0
      BY <2>1, <3>1 DEF WithRows, HasRows, SplitsTold, SplitsComplete
    <3>2. CASE db[s].last # 0
      <4>1. db[s].rescaled = (split[s] # 0)
        BY <1>8, <2>3, <3>2 DEF RotationCommit, TypeInv, TypeOK
      <4> QED
        BY <1>8, <2>1, <2>3, <3>2, <4>1, CommitKeepsSplit DEF MemSplits, SplitsTold, Committing
    <3> QED
      BY <3>1, <3>2
  <2> QED
    BY <2>1, <2>2, <2>3 DEF MemSplits
<1>9. ASSUME NEW s \in Symbols, SplitCommit(s) PROVE MemSplits'
  <2>1. UNCHANGED mem /\ pc = "loop" /\ splitsLost \subseteq (splitsLost' \cup {s})
    BY <1>9 DEF SplitCommit, SplitTurn, TypeInv, TypeOK
  <2>2. ASSUME NEW t \in Symbols, t # s, t \notin splitsLost PROVE SplitsTold(mem, t)'
    BY <1>9, <2>1, <2>2, SplitCommitRows DEF MemSplits, SplitsTold, Derived, Committing
  <2>3. ASSUME s \notin splitsLost' PROVE SplitsTold(mem, s)'
    BY <1>9, <2>3, SplitCommitRows DEF SplitsTold
  <2> QED
    BY <2>1, <2>2, <2>3 DEF MemSplits
<1> QED
  BY <1>1, <1>2, <1>3, <1>4, <1>5, <1>6, <1>7, <1>8, <1>9, OtherSteps

LEMMA DiskSplitsStep ==
    ASSUME TypeInv, Quiet, WithRows, DiskSplits, MemSplits, MemSplits', Next
    PROVE  DiskSplits'
<1>1. CASE StoresKept
  BY <1>1 DEF StoresKept, MemSplits, DiskSplits, SplitsTold, Derived, Committing
<1>2. CASE Kill
  BY <1>2 DEF Kill, DiskSplits, SplitsTold, Derived
<1>3. CASE Interrupt
  BY <1>3 DEF Interrupt, MemSplits, DiskSplits, SplitsTold, Derived, Committing
<1>4. CASE CoreRecord \/ SplitRecord \/ RotationRecord
  BY <1>4 DEF CoreRecord, SplitRecord, RotationRecord, Tick, Saved, MemSplits, DiskSplits,
              SplitsTold, Derived, Committing
<1>5. ASSUME NEW s \in Symbols, CoreCommit(s) \/ RotationCommit(s) PROVE DiskSplits'
  <2>1. /\ UNCHANGED disk /\ splitsLost \subseteq splitsLost' /\ moved \subseteq moved'
        /\ \A t \in Symbols \ {s} : db'[t] = db[t]
    BY <1>5, CoreCommitRows, RotationCommitRows DEF CoreCommit, RotationCommit, TypeInv, TypeOK
  <2>2. ASSUME NEW t \in Symbols, t # s, t \notin splitsLost', t \notin moved'
        PROVE  SplitsTold(disk, t)'
    BY <2>1, <2>2 DEF DiskSplits, SplitsTold, Derived
  <2>3. ASSUME s \notin splitsLost', s \notin moved' PROVE SplitsTold(disk, s)'
    <3>1. CASE db[s].last = 0
      BY <2>1, <3>1 DEF WithRows, HasRows, SplitsTold, SplitsComplete
    <3>2. CASE db[s].last # 0
      <4>1. db[s].rescaled = (split[s] # 0)
        BY <1>5, <2>3, <3>2 DEF CoreCommit, RotationCommit, TypeInv, TypeOK, Rows
      <4> QED
        BY <1>5, <2>1, <2>3, <3>2, <4>1, CommitKeepsSplit DEF DiskSplits, SplitsTold
    <3> QED
      BY <3>1, <3>2
  <2> QED
    BY <2>2, <2>3 DEF DiskSplits
<1>6. ASSUME NEW s \in Symbols, SplitCommit(s) PROVE DiskSplits'
  <2>1. UNCHANGED <<disk, moved>> /\ splitsLost \subseteq (splitsLost' \cup {s})
    BY <1>6 DEF SplitCommit, SplitTurn, TypeInv, TypeOK
  <2>2. ASSUME NEW t \in Symbols, t # s, t \notin splitsLost, t \notin moved
        PROVE  SplitsTold(disk, t)'
    BY <1>6, <2>1, <2>2, SplitCommitRows DEF DiskSplits, SplitsTold, Derived
  <2>3. ASSUME s \notin splitsLost' PROVE SplitsTold(disk, s)'
    BY <1>6, <2>3, SplitCommitRows DEF SplitsTold
  <2> QED
    BY <2>1, <2>2, <2>3 DEF DiskSplits
<1> QED
  BY <1>1, <1>2, <1>3, <1>4, <1>5, <1>6, OtherSteps

LEMMA StaleStep ==
    ASSUME TypeInv, Quiet, StaleKept, Next
    PROVE  StaleKept'
<1>1. CASE mem' = disk'
  BY <1>1 DEF StaleKept
<1>2. CASE UNCHANGED <<disk, mem>>
  BY <1>2 DEF StaleKept
<1>3. CASE UNCHANGED disk /\ CoreRecord
  BY <1>3, CoreRecordEntry DEF StaleKept
<1>4. CASE UNCHANGED disk /\ SplitRecord
  BY <1>4, SplitRecordEntry DEF StaleKept
<1>5. CASE UNCHANGED disk /\ RotationRecord
  BY <1>5, RotationRecordEntry DEF StaleKept
<1>6. CASE Kill \/ Interrupt
  BY <1>1, <1>6 DEF Kill, Interrupt, Ended
<1>7. CASE StoresKept
  BY <1>1, <1>2, <1>7 DEF StoresKept
<1>8. CASE CoreRecord \/ SplitRecord \/ RotationRecord
  BY <1>1, <1>3, <1>4, <1>5, <1>8 DEF CoreRecord, SplitRecord, RotationRecord, Tick, Saved
<1>9. ASSUME NEW s \in Symbols, CoreCommit(s) \/ SplitCommit(s) \/ RotationCommit(s)
      PROVE  StaleKept'
  BY <1>2, <1>9 DEF CoreCommit, SplitCommit, RotationCommit
<1> QED
  BY <1>6, <1>7, <1>8, <1>9, OtherSteps

(***************************************************************************)
(* Completion                                                              *)
(***************************************************************************)

\* A snapshot is recorded by SnapshotRecord alone, and until it is published
\* nothing of what it was judged by changes.
LEMMA CopyReached ==
    ASSUME TypeInv, Quiet, Next, pc' = "copy"
    PROVE  \/ SnapshotRecord
           \/ pc = "copy" /\ UNCHANGED <<record, core, db, disk, barsLost, splitsLost>>
<1>1. CASE Environment
  BY <1>1 DEF Environment, CloseSession, NextDay, Split, Reclassify, Kill, Interrupt, Ended,
              clockVars, lostVars
<1>2. CASE RunStep
  BY <1>2 DEF RunStep, StartRun, BeginCore, BeginRotation, Finish, Ended
<1>3. CASE CoreStep \/ SplitStep \/ RotationStep
  BY <1>3, LoopSteps DEF LoopFrame
<1>4. CASE SnapshotStep
  BY <1>4 DEF SnapshotStep, SnapshotPublish, Ended
<1> QED
  BY <1>1, <1>2, <1>3, <1>4 DEF Next

\* What evaluate_completion has found when it says complete.
LEMMA CompleteMeans ==
    ASSUME TypeInv, SnapshotRecord, record'.status = "complete"
    PROVE  /\ record'.session = session /\ record'.core = core
           /\ \A s \in core : disk[s].session = session /\ SplitsComplete(disk[s])
BY DEF SnapshotRecord, Evaluate, Missing, MissingSplits, TypeInv, TypeOK

LEMMA HasBarsStep ==
    ASSUME TypeInv, Clocks, Quiet, DiskBars, CompleteHasBars, Next
    PROVE  CompleteHasBars'
<1> SUFFICES ASSUME pc' = "copy", record'.status = "complete"
             PROVE  \A s \in core' \ barsLost' : db'[s].last = record'.session /\ db'[s].adj
  BY DEF CompleteHasBars, Recorded
<1>1. CASE SnapshotRecord
  <2>1. UNCHANGED <<core, db, disk, barsLost>> /\ unsaved = {}
    BY <1>1 DEF SnapshotRecord, Quiet, envVars, clockVars, lostVars
  <2> QED
    BY <1>1, <2>1, CompleteMeans DEF DiskBars, BarsTold, Clocks, TypeInv, TypeOK
<1>2. CASE pc = "copy" /\ UNCHANGED <<record, core, db, disk, barsLost, splitsLost>>
  BY <1>2 DEF CompleteHasBars, Recorded
<1> QED
  BY <1>1, <1>2, CopyReached

LEMMA HasSplitsStep ==
    ASSUME TypeInv, Clocks, Quiet, DiskSplits, CompleteHasSplits, Next
    PROVE  CompleteHasSplits'
<1> SUFFICES ASSUME pc' = "copy", record'.status = "complete"
             PROVE  \A s \in core' \ splitsLost' : db'[s].rescaled => db'[s].event
  BY DEF CompleteHasSplits, Recorded
<1>1. CASE SnapshotRecord
  <2>1. UNCHANGED <<core, db, disk, splitsLost>> /\ moved = {}
    BY <1>1 DEF SnapshotRecord, Quiet, envVars, clockVars, lostVars
  <2> QED
    BY <1>1, <2>1, CompleteMeans DEF DiskSplits, SplitsTold, Derived, TypeInv, TypeOK
<1>2. CASE pc = "copy" /\ UNCHANGED <<record, core, db, disk, barsLost, splitsLost>>
  BY <1>2 DEF CompleteHasSplits, Recorded
<1> QED
  BY <1>1, <1>2, CopyReached

(***************************************************************************)
(* A core phase without failures                                           *)
(***************************************************************************)
LEMMA CleanStep ==
    ASSUME TypeInv, CleanSoFar, Next
    PROVE  CleanSoFar'
<1>1. CASE Environment
  BY <1>1 DEF Environment, CloseSession, NextDay, Split, Reclassify, Kill, Interrupt, Ended,
              CleanSoFar, runVars
<1>2. CASE RunStep
  BY <1>2 DEF RunStep, StartRun, BeginCore, BeginRotation, Finish, Ended, CleanSoFar, TypeInv,
              TypeOK, envVars, clockVars
<1>3. ASSUME NEW s \in Symbols, CoreCommit(s) \/ SplitCommit(s) \/ RotationCommit(s)
      PROVE  CleanSoFar'
  BY <1>3 DEF CoreCommit, CoreTurn, SplitCommit, SplitTurn, RotationCommit, CleanSoFar, envVars,
              clockVars, runVars
<1>4. CASE CoreRecord
  <2>1. /\ phase' = "core" /\ todo' = todo \ {cur} /\ UNCHANGED <<core, runSession>>
        /\ clean' => clean /\ found.last = runSession /\ found.adj
    BY <1>4 DEF CoreRecord, envVars, clockVars, runVars
  <2>2. clean' => mem'[cur].session = runSession
    BY <1>4, <2>1 DEF CoreRecord, TypeInv, TypeOK, CurChosen, Entry
  <2> QED
    BY <1>4, <2>1, <2>2, CoreRecordEntry DEF CoreRecord, CleanSoFar, TypeInv, TypeOK
<1>5. CASE SplitRecord
  BY <1>5, SplitRecordEntry DEF SplitRecord, CleanSoFar, SplitsComplete, envVars, clockVars,
     runVars, TypeInv, TypeOK
<1>6. CASE CoreLoopEnds
  BY <1>6 DEF CoreLoopEnds, CleanSoFar, envVars, clockVars, runVars, TypeInv, TypeOK
<1>7. CASE CoreExhausted \/ SplitExhausted \/ SplitLoopEnds
  BY <1>7 DEF CoreExhausted, SplitExhausted, SplitLoopEnds, CleanSoFar
<1>8. ASSUME NEW s \in Symbols, CoreFailed(s) \/ SplitFailed(s) PROVE CleanSoFar'
  BY <1>8 DEF CoreFailed, SplitFailed, CleanSoFar
<1>9. CASE RotationStep
  BY <1>9 DEF RotationStep, RotationCommit, RotationFailed, RotationRecord, RotationLoopEnds,
              CleanSoFar
<1>10. CASE SnapshotStep
  BY <1>10 DEF SnapshotStep, SnapshotRecord, SnapshotPublish, Ended, CleanSoFar
<1> QED
  BY <1>1, <1>2, <1>3, <1>4, <1>5, <1>6, <1>7, <1>8, <1>9, <1>10
     DEF Next, CoreStep, SplitStep

(***************************************************************************)
(* Theorems                                                                *)
(***************************************************************************)
LEMMA Inductive == IInv /\ [Next]_vars => IInv'
<1>1. ASSUME IInv, Next PROVE IInv'
  <2> USE <1>1 DEF IInv
  <2>1. TypeInv'
    BY TypeStep
  <2>2. Clocks' /\ Quiet'
    BY ClocksStep, QuietStep
  <2>3. NoUnfinishedBar' /\ RescaledKnown'
    BY UnfinishedStep, RescaledStep
  <2>4. WithRows' /\ FoundHeld'
    BY <2>1, WithRowsStep, FoundStep
  <2>5. MemBars' /\ DiskBars'
    BY MemBarsStep, DiskBarsStep
  <2>6. SplitsHeld' /\ MemSplits' /\ DiskSplits'
    BY SplitsHeldStep, MemSplitsStep, DiskSplitsStep
  <2>7. StaleKept' /\ CleanSoFar'
    BY StaleStep, CleanStep
  <2>8. CompleteHasBars' /\ CompleteHasSplits'
    BY HasBarsStep, HasSplitsStep
  <2> QED
    BY <2>1, <2>2, <2>3, <2>4, <2>5, <2>6, <2>7, <2>8
<1>2. ASSUME IInv, UNCHANGED vars PROVE IInv'
  <2> USE <1>2 DEF IInv, vars, envVars, clockVars, runVars, lostVars
  <2>1. TypeInv'
    BY TypeStep
  <2>2. Clocks' /\ Quiet' /\ NoUnfinishedBar' /\ RescaledKnown' /\ WithRows' /\ FoundHeld'
    BY DEF Clocks, Quiet, NoUnfinishedBar, RescaledKnown, WithRows, HasRows, FoundHeld, Committing
  <2>3. MemBars' /\ DiskBars' /\ SplitsHeld' /\ MemSplits' /\ DiskSplits'
    BY DEF MemBars, DiskBars, BarsTold, SplitsHeld, MemSplits, DiskSplits, SplitsTold,
           SplitsComplete, Derived, Committing
  <2>4. StaleKept' /\ CleanSoFar' /\ CompleteHasBars' /\ CompleteHasSplits'
    BY DEF StaleKept, CleanSoFar, SplitsComplete, CompleteHasBars, CompleteHasSplits, Recorded
  <2> QED
    BY <2>1, <2>2, <2>3, <2>4
<1> QED
  BY <1>1, <1>2

LEMMA Invariant == Spec => []IInv
BY Initially, Inductive, PTL DEF Spec

\* The variables of the collection always have their types, for every value of
\* the constants.
THEOREM TypeCorrect == Spec => []TypeOK
BY Invariant, PTL DEF IInv, TypeInv

\* Whatever runs, kills, interrupts and late responses precede it, a copy that
\* create_snapshot records as complete has the session bar and adj_close of
\* every core symbol whose bookkeeping was not lost.
THEOREM BarsComplete == Spec => []CompleteHasBars
BY Invariant, PTL DEF IInv

\* Likewise the copy has the split of every rescaled core symbol, unless the
\* change of its split basis was consumed unseen.
THEOREM SplitHistoryComplete == Spec => []CompleteHasSplits
BY Invariant, PTL DEF IInv

\* bars_until keeps every bar of an unfinished session out of market.db.
THEOREM FinishedBarsOnly == Spec => []NoUnfinishedBar
BY Invariant, PTL DEF IInv

\* A core phase whose calls all succeed leaves nothing for a later run.
THEOREM CleanRunComplete == Spec => []CleanRunLeavesNoGap
<1>1. IInv => CleanRunLeavesNoGap
  BY DEF IInv, CleanSoFar, CleanRunLeavesNoGap
<1> QED
  BY <1>1, Invariant, PTL

\* splits_stale leaves state.json only after the events are derived again.
THEOREM StaleMarkSurvives == Spec => StaleSurvives
<1>1. ASSUME IInv, IInv', Next, NEW s \in Symbols, disk[s].stale, ~disk'[s].stale,
             db'[s].rescaled, s \notin splitsLost'
      PROVE  db'[s].event
  <2>1. ASSUME moved' = {}, disk'[s].checked PROVE db'[s].event
    BY <1>1, <2>1 DEF IInv, DiskSplits, SplitsTold, SplitsComplete, Derived
  <2>2. CASE disk' = disk
    BY <1>1, <2>2
  <2>3. CASE disk' = mem /\ moved' = {}
    BY <1>1, <2>1, <2>3 DEF IInv, StaleKept
  <2>4. CASE disk' = mem' /\ moved' = {} /\ (CoreRecord \/ SplitRecord \/ RotationRecord)
    <3>1. TypeInv /\ StaleKept
      BY <1>1 DEF IInv
    <3>2. mem'[s].checked
      BY <1>1, <2>4, <3>1, CoreRecordEntry, SplitRecordEntry, RotationRecordEntry DEF StaleKept
    <3> QED
      BY <2>1, <2>4, <3>2
  <2>5. TypeInv /\ Quiet
    BY <1>1 DEF IInv
  <2>6. CASE Kill \/ Interrupt \/ StoresKept
    BY <2>2, <2>3, <2>6 DEF Kill, Interrupt, StoresKept
  <2>7. CASE CoreRecord \/ SplitRecord \/ RotationRecord
    BY <2>2, <2>4, <2>7 DEF CoreRecord, SplitRecord, RotationRecord, Tick, Saved
  <2>8. ASSUME NEW t \in Symbols, CoreCommit(t) \/ SplitCommit(t) \/ RotationCommit(t)
        PROVE  db'[s].event
    BY <2>2, <2>8 DEF CoreCommit, SplitCommit, RotationCommit
  <2> QED
    BY <1>1, <2>5, <2>6, <2>7, <2>8, OtherSteps
<1>2. IInv /\ IInv' /\ [Next]_vars =>
         [\A s \in Symbols :
             (disk[s].stale /\ ~disk'[s].stale /\ db'[s].rescaled /\ s \notin splitsLost')
             => db'[s].event]_vars
  BY <1>1
<1> QED
  BY <1>2, Invariant, PTL DEF Spec, StaleSurvives
=============================================================================
