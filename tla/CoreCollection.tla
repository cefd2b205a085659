--------------------------- MODULE CoreCollection ---------------------------
(***************************************************************************)
(* Collection of daily prices and split history, and the snapshot that is  *)
(* published from them: the core, split and rotation loops of src.main,    *)
(* the per-symbol bookkeeping in the state document, and src.snapshot.     *)
(*                                                                         *)
(* Three stores are kept apart, because the code writes them at different  *)
(* moments: market.db (one transaction per symbol), the state document in  *)
(* memory (after the transaction), and state.json (every SaveEvery symbols *)
(* and at the end of a run). A process may be killed between any two of    *)
(* those writes, or be interrupted and save what it has.                   *)
(*                                                                         *)
(* Prices are abstracted to what completion is about: the session of the   *)
(* last stored bar, whether that bar has an adj_close, whether the rows    *)
(* are scaled for the symbol's split, and whether corporate_actions has    *)
(* the split. Each symbol splits at most once. The provider rescales a     *)
(* symbol's whole history when the market opens on the split's effective   *)
(* session, so hours before that session's bar is final.                   *)
(*                                                                         *)
(* The pipeline lock lets one process run at a time. Which calls the       *)
(* credit budget allows is CreditBudget's business: here a call succeeds,  *)
(* fails, or ends the loop with BudgetExhaustedError.                      *)
(***************************************************************************)
EXTENDS Integers

CONSTANTS
    SymbolCount,     \* symbols, in the order the code lists them
    SaveEvery,       \* main.SAVE_EVERY
    Movable,         \* symbols that a universe refresh may move in or out of the core
    Splitting,       \* symbols that may split
    OffHours,        \* whether runs also happen while a session with a split is open
    MaxLag,          \* sessions a response may be late by
    MaxKills,        \* bound: times a process is killed or interrupted
    MaxSession,      \* bound: market sessions that close
    MaxDay           \* bound: UTC days that pass

Symbols == 1..SymbolCount

ASSUME CollectionAssumption ==
    /\ SymbolCount \in Nat
    /\ SaveEvery \in Nat \ {0}
    /\ Movable \subseteq Symbols /\ Splitting \subseteq Symbols
    /\ OffHours \in BOOLEAN /\ MaxLag \in Nat
    /\ MaxKills \in Nat /\ MaxSession \in Nat /\ MaxDay \in Nat

VARIABLES
    session,     \* expected_session(now): the latest session whose bar is final
    day,         \* the UTC date
    closed,      \* a session has closed on this UTC date
    split,       \* [Symbols -> Nat] effective session of the split, 0 before it is known
    core,        \* Universe.core_symbols()
    kills,       \* times a process has been killed or interrupted
    db,          \* market.db: ohlcv and corporate_actions of each symbol
    disk,        \* state.json: the twelve_data entry of each symbol
    mem,         \* the same entries in the memory of the running src.main
    record,      \* the collection_runs row of the snapshot being made
    snap,        \* market_snapshot.db: is it complete, and the core symbols it is wrong about
    phase,       \* which loop, or process, runs
    pc,          \* where it is
    both,        \* --phase all: the rotation follows the core phase
    force,       \* --force
    runSession,  \* the session computed when the run started
    runDay,      \* the UTC date computed when the phase started
    todo,        \* symbols the loop has left
    cur,         \* symbol whose transaction is committed and not recorded yet
    found,       \* what collect_core_symbol returned for it
    handled,     \* Run.handled, modulo SaveEvery
    unsaved,     \* history: core symbols whose last commit state.json does not know
    moved,       \* history: those of them whose split basis changed
    barsLost,    \* history: symbols whose rows changed behind core_session
    splitsLost,  \* history: symbols whose split the bookkeeping has missed
    clean        \* history: every call of this core phase succeeded, with fresh bars

clockVars == <<session, day, closed, split, core>>
envVars  == <<clockVars, kills>>
runVars  == <<both, force, runSession, runDay>>
lostVars == <<unsaved, moved, barsLost, splitsLost>>
vars == <<envVars, db, disk, mem, record, snap, phase, pc, runVars, todo, cur, found,
          handled, lostVars, clean>>

Phases   == {"core", "splits", "rotation", "snapshot"}
Places   == {"idle", "begin", "loop", "record", "end", "copy"}
Statuses == {"complete", "partial", "failed"}

Rows   == [last : Nat, adj : BOOLEAN, rescaled : BOOLEAN, event : BOOLEAN]
Entry  == [session : Nat, success : Nat, checked : BOOLEAN, stale : BOOLEAN]
Found  == [last : Nat, adj : BOOLEAN, changed : BOOLEAN]
Record == [status : Statuses, session : Nat, core : SUBSET Symbols]
Copy   == [complete : BOOLEAN, broken : SUBSET Symbols]

NoRows   == [last |-> 0, adj |-> FALSE, rescaled |-> FALSE, event |-> FALSE]
NoEntry  == [session |-> 0, success |-> 0, checked |-> FALSE, stale |-> FALSE]
NotFound == [last |-> 0, adj |-> FALSE, changed |-> FALSE]
NoRecord == [status |-> "failed", session |-> 0, core |-> {}]
NoCopy   == [complete |-> FALSE, broken |-> {}]

\* Type invariant of the whole specification.
TypeOK ==
    /\ session \in Nat /\ day \in Nat \ {0} /\ closed \in BOOLEAN
    /\ split \in [Symbols -> Nat]
    /\ core \in SUBSET Symbols /\ kills \in Nat
    /\ db \in [Symbols -> Rows]
    /\ disk \in [Symbols -> Entry] /\ mem \in [Symbols -> Entry]
    /\ record \in Record /\ snap \in Copy
    /\ phase \in Phases /\ pc \in Places
    /\ both \in BOOLEAN /\ force \in BOOLEAN
    /\ runSession \in Nat /\ runDay \in Nat
    /\ todo \in SUBSET Symbols /\ cur \in Symbols \cup {0} /\ found \in Found
    /\ handled \in 0..(SaveEvery - 1)
    /\ unsaved \in SUBSET Symbols /\ moved \in SUBSET Symbols
    /\ barsLost \in SUBSET Symbols /\ splitsLost \in SUBSET Symbols
    /\ clean \in BOOLEAN

(***************************************************************************)
(* Helpers                                                                 *)
(***************************************************************************)

\* The last bar of a response: late, on time, or today's unfinished bar
Latest == {last \in 0..(session + 1) : session <= last + MaxLag}

\* Mutant of BarsUntil: the unfinished bar is not filtered
AllBars(last, until) == last

\* bars_until: the last bar kept of a response, 0 when none is
BarsUntil(last, until) == IF last <= until THEN last ELSE until

\* split_events: the ratio changes on the effective date, so stored rows and
\* raw response must both have that bar
SeesSplit(s, raw) == db[s].rescaled /\ split[s] <= db[s].last /\ split[s] <= raw

\* snapshot.splits_complete
SplitsComplete(e) == e.checked /\ ~e.stale

\* The bookkeeping of a process that is gone
Ended ==
    /\ pc' = "idle" /\ phase' = "snapshot"
    /\ mem' = disk'
    /\ both' = FALSE /\ force' = FALSE
    /\ runSession' = 0 /\ runDay' = 0
    /\ todo' = {} /\ cur' = 0 /\ found' = NotFound
    /\ handled' = 0
    /\ record' = NoRecord
    /\ clean' = TRUE

\* save_state: state.json has everything that has been recorded in memory
Saved == disk' = mem' /\ unsaved' = {} /\ moved' = {}

\* Mutant of Tick: the count does not start over
TickOn ==
    /\ handled' = handled + 1
    /\ IF handled' = SaveEvery THEN Saved ELSE UNCHANGED <<disk, unsaved, moved>>

\* Run.tick
Tick ==
    /\ handled' = (handled + 1) % SaveEvery
    /\ IF handled' = 0 THEN Saved ELSE UNCHANGED <<disk, unsaved, moved>>

Init ==
    /\ session = 1 /\ day = 1 /\ closed = TRUE
    /\ split = [s \in Symbols |-> 0]
    /\ core = Symbols /\ kills = 0
    /\ db = [s \in Symbols |-> NoRows]
    /\ disk = [s \in Symbols |-> NoEntry] /\ mem = disk
    /\ record = NoRecord /\ snap = NoCopy
    /\ phase = "snapshot" /\ pc = "idle"
    /\ both = FALSE /\ force = FALSE
    /\ runSession = 0 /\ runDay = 0
    /\ todo = {} /\ cur = 0 /\ found = NotFound
    /\ handled = 0
    /\ unsaved = {} /\ moved = {} /\ barsLost = {} /\ splitsLost = {}
    /\ clean = TRUE

(***************************************************************************)
(* The environment                                                         *)
(***************************************************************************)

\* A regular session closes, at most one a UTC day
CloseSession ==
    /\ session < MaxSession /\ ~closed
    /\ session' = session + 1
    /\ closed' = TRUE
    /\ UNCHANGED <<day, split, core, kills, db, disk, mem, record, snap, phase, pc, runVars, todo,
                   cur, found, handled, lostVars, clean>>

\* Midnight UTC
NextDay ==
    /\ day < MaxDay
    /\ day' = day + 1
    /\ closed' = FALSE
    /\ UNCHANGED <<session, split, core, kills, db, disk, mem, record, snap, phase, pc, runVars, todo,
                   cur, found, handled, lostVars, clean>>

\* The market opens with s split: the provider rescales its history from now on
Split(s) ==
    /\ s \in Splitting /\ split[s] = 0
    /\ OffHours \/ pc = "idle"
    /\ split' = [split EXCEPT ![s] = session + 1]
    /\ UNCHANGED <<session, day, closed, core, kills, db, disk, mem, record, snap, phase, pc,
                   runVars, todo, cur, found, handled, lostVars, clean>>

\* src.universe moves a symbol between the core and the rotation pool
Reclassify(s) ==
    /\ pc = "idle" /\ s \in Movable
    /\ core' = IF s \in core THEN core \ {s} ELSE core \cup {s}
    /\ UNCHANGED <<session, day, closed, split, kills, db, disk, mem, record, snap, phase, pc,
                   runVars, todo, cur, found, handled, lostVars, clean>>

\* SIGKILL or power loss: nothing is saved, committed rows stay
Kill ==
    /\ kills < MaxKills /\ pc # "idle"
    /\ kills' = kills + 1
    /\ barsLost' = barsLost \cup unsaved
    /\ splitsLost' = splitsLost \cup moved
    /\ unsaved' = {} /\ moved' = {}
    /\ UNCHANGED <<clockVars, db, disk, snap>>
    /\ Ended

\* Ctrl-C or an exception nobody catches: the finally block of run_collection
\* saves what is recorded; a commit that is not recorded yet stays unknown
Interrupt ==
    /\ kills < MaxKills /\ pc \in {"begin", "loop", "record"}
    /\ kills' = kills + 1
    /\ disk' = mem
    /\ barsLost' = IF pc = "record" /\ phase = "core" THEN barsLost \cup {cur} ELSE barsLost
    /\ splitsLost' = IF pc = "record" /\ phase = "core" /\ found.changed
                     THEN splitsLost \cup {cur} ELSE splitsLost
    /\ unsaved' = {} /\ moved' = {}
    /\ Ended
    /\ UNCHANGED <<clockVars, db, snap>>

(***************************************************************************)
(* run_collection                                                          *)
(***************************************************************************)

\* Load the universe and the state, compute the session
StartRun(first, all, forced) ==
    /\ pc = "idle"
    /\ OffHours \/ \A s \in Symbols : split[s] <= session
    /\ phase' = first /\ both' = all /\ force' = forced
    /\ mem' = disk
    /\ runSession' = session
    /\ pc' = "begin"
    /\ UNCHANGED <<envVars, db, disk, record, snap, runDay, todo, cur, found, handled, lostVars,
                   clean>>

\* run_core: the date, the pending symbols, Run.persist
BeginCore ==
    /\ pc = "begin" /\ phase = "core"
    /\ runDay' = day
    /\ todo' = {s \in core : force \/ mem[s].session # runSession}
    /\ clean' = TRUE
    /\ pc' = "loop"
    /\ UNCHANGED <<envVars, db, mem, record, snap, phase, both, force, runSession, cur, found,
                   handled, barsLost, splitsLost>>
    /\ Saved

\* run_rotation: choose_rotation_symbols leaves out what succeeded today; the
\* order, the limit and the backoff of failed symbols pick among the others
BeginRotation ==
    /\ pc = "begin" /\ phase = "rotation"
    /\ runDay' = day
    /\ todo' \in SUBSET {s \in Symbols \ core : force \/ mem[s].success # runDay'}
    /\ pc' = "loop"
    /\ UNCHANGED <<envVars, db, mem, record, snap, phase, both, force, runSession, cur, found,
                   handled, barsLost, splitsLost, clean>>
    /\ Saved

\* The end of the phases: the finally block saves the state
Finish ==
    /\ pc = "end"
    /\ disk' = mem
    /\ unsaved' = {} /\ moved' = {}
    /\ Ended
    /\ UNCHANGED <<envVars, db, snap, barsLost, splitsLost>>

(***************************************************************************)
(* The core loop                                                           *)
(***************************************************************************)
CoreTurn(s) == pc = "loop" /\ phase = "core" /\ s \in todo /\ \A t \in todo : s <= t

\* collect_core_symbol, both calls good: compare the split-adjusted closes with
\* the stored ones and replace the symbol's rows in one transaction
CoreCommit(s) ==
    /\ CoreTurn(s)
    /\ \E latest \in Latest, adj \in BOOLEAN :
          LET last    == BarsUntil(latest, runSession)
              changed == db[s].last # 0 /\ db[s].rescaled # (split[s] # 0)
          IN /\ last > 0
             /\ db' = [db EXCEPT ![s] = [last |-> last, adj |-> adj, rescaled |-> split[s] # 0,
                                         event |-> @.event]]
             /\ found' = [last |-> last, adj |-> adj, changed |-> changed]
             /\ moved' = IF changed THEN moved \cup {s} ELSE moved
    /\ unsaved' = unsaved \cup {s}
    /\ barsLost' = barsLost \ {s}
    /\ cur' = s
    /\ pc' = "record"
    /\ UNCHANGED <<envVars, disk, mem, record, snap, phase, runVars, todo, handled, splitsLost,
                   clean>>

\* Mutant of CoreRecord: splits_stale is assigned instead of set
CoreRecordAssigns ==
    /\ pc = "record" /\ phase = "core"
    /\ LET complete == found.last = runSession /\ found.adj IN
          /\ mem' = [mem EXCEPT ![cur] =
                       [session |-> IF complete THEN runSession ELSE 0, success |-> runDay,
                        checked |-> @.checked, stale |-> found.changed]]
          /\ clean' = (clean /\ complete)
    /\ todo' = todo \ {cur} /\ cur' = 0 /\ found' = NotFound
    /\ pc' = "loop"
    /\ Tick
    /\ UNCHANGED <<envVars, db, record, snap, phase, runVars, barsLost, splitsLost>>

\* Mutant of CoreRecord: the session counts although adj_close is missing
CoreRecordNoAdj ==
    /\ pc = "record" /\ phase = "core"
    /\ LET complete == found.last = runSession IN
          /\ mem' = [mem EXCEPT ![cur] =
                       [session |-> IF complete THEN runSession ELSE 0, success |-> runDay,
                        checked |-> @.checked, stale |-> @.stale \/ found.changed]]
          /\ clean' = (clean /\ complete)
    /\ todo' = todo \ {cur} /\ cur' = 0 /\ found' = NotFound
    /\ pc' = "loop"
    /\ Tick
    /\ UNCHANGED <<envVars, db, record, snap, phase, runVars, barsLost, splitsLost>>

\* record_success, the splits_stale mark, Run.tick
CoreRecord ==
    /\ pc = "record" /\ phase = "core"
    /\ LET complete == found.last = runSession /\ found.adj IN
          /\ mem' = [mem EXCEPT ![cur] =
                       [session |-> IF complete THEN runSession ELSE 0, success |-> runDay,
                        checked |-> @.checked, stale |-> @.stale \/ found.changed]]
          /\ clean' = (clean /\ complete)
    /\ todo' = todo \ {cur} /\ cur' = 0 /\ found' = NotFound
    /\ pc' = "loop"
    /\ Tick
    /\ UNCHANGED <<envVars, db, record, snap, phase, runVars, barsLost, splitsLost>>

\* A failed call or a bad response: record_failure leaves these fields alone
CoreFailed(s) ==
    /\ CoreTurn(s)
    /\ todo' = todo \ {s}
    /\ clean' = FALSE
    /\ UNCHANGED <<envVars, db, mem, record, snap, phase, pc, runVars, cur, found, barsLost,
                   splitsLost>>
    /\ Tick

\* BudgetExhaustedError: record_skip, and the loop breaks without a tick
CoreExhausted ==
    /\ pc = "loop" /\ phase = "core" /\ todo # {}
    /\ todo' = {}
    /\ clean' = FALSE
    /\ UNCHANGED <<envVars, db, disk, mem, record, snap, phase, pc, runVars, cur, found, handled,
                   lostVars>>

\* Mutant of CoreLoopEnds: only symbols never checked before are candidates
OnlyNeverChecked ==
    /\ pc = "loop" /\ phase = "core" /\ todo = {}
    /\ todo' = {s \in core : mem[s].success = runDay /\ ~mem[s].checked}
    /\ phase' = "splits"
    /\ UNCHANGED <<envVars, db, disk, mem, record, snap, pc, runVars, cur, found, handled,
                   lostVars, clean>>

\* The candidates of the split loop: stale or never checked, refreshed today
CoreLoopEnds ==
    /\ pc = "loop" /\ phase = "core" /\ todo = {}
    /\ todo' = {s \in core : mem[s].success = runDay /\ ~SplitsComplete(mem[s])}
    /\ phase' = "splits"
    /\ UNCHANGED <<envVars, db, disk, mem, record, snap, pc, runVars, cur, found, handled,
                   lostVars, clean>>

(***************************************************************************)
(* The split loop: stale symbols first                                     *)
(***************************************************************************)
SplitTurn(s) ==
    /\ pc = "loop" /\ phase = "splits" /\ s \in todo
    /\ \A t \in todo : \/ mem[s].stale /\ ~mem[t].stale
                       \/ mem[s].stale = mem[t].stale /\ s <= t

\* refresh_split_events: derive the events and replace them in one transaction
SplitCommit(s) ==
    /\ SplitTurn(s)
    /\ \E latest \in Latest :
          LET seen == SeesSplit(s, BarsUntil(latest, runSession))
          IN /\ db' = [db EXCEPT ![s].event = seen]
             /\ splitsLost' = IF db[s].rescaled /\ ~seen THEN splitsLost \cup {s}
                                                         ELSE splitsLost \ {s}
    /\ cur' = s
    /\ pc' = "record"
    /\ UNCHANGED <<envVars, disk, mem, record, snap, phase, runVars, todo, found, handled,
                   unsaved, moved, barsLost, clean>>

\* splits_checked_at, splits_stale = False, Run.tick
SplitRecord ==
    /\ pc = "record" /\ phase = "splits"
    /\ mem' = [mem EXCEPT ![cur] = [@ EXCEPT !.checked = TRUE, !.stale = FALSE]]
    /\ todo' = todo \ {cur} /\ cur' = 0
    /\ pc' = "loop"
    /\ Tick
    /\ UNCHANGED <<envVars, db, record, snap, phase, runVars, found, barsLost, splitsLost, clean>>

\* Mutant of SplitFailed: the mark is cleared although nothing was derived
SplitFailedClears(s) ==
    /\ SplitTurn(s)
    /\ mem' = [mem EXCEPT ![s].stale = FALSE]
    /\ todo' = todo \ {s}
    /\ clean' = FALSE
    /\ UNCHANGED <<envVars, db, record, snap, phase, pc, runVars, cur, found, barsLost,
                   splitsLost>>
    /\ Tick

\* The call failed: the marks stay, Run.tick
SplitFailed(s) ==
    /\ SplitTurn(s)
    /\ todo' = todo \ {s}
    /\ clean' = FALSE
    /\ UNCHANGED <<envVars, db, mem, record, snap, phase, pc, runVars, cur, found, barsLost,
                   splitsLost>>
    /\ Tick

\* BudgetExhaustedError breaks the split loop
SplitExhausted ==
    /\ pc = "loop" /\ phase = "splits" /\ todo # {}
    /\ todo' = {}
    /\ clean' = FALSE
    /\ UNCHANGED <<envVars, db, disk, mem, record, snap, phase, pc, runVars, cur, found, handled,
                   lostVars>>

\* --phase all goes on with the rotation
SplitLoopEnds ==
    /\ pc = "loop" /\ phase = "splits" /\ todo = {}
    /\ IF both THEN phase' = "rotation" /\ pc' = "begin"
               ELSE phase' = phase      /\ pc' = "end"
    /\ UNCHANGED <<envVars, db, disk, mem, record, snap, runVars, todo, cur, found, handled,
                   lostVars, clean>>

(***************************************************************************)
(* The rotation loop                                                       *)
(***************************************************************************)

\* collect_rotation_symbol: replaces the rows without adj_close and without
\* looking for a change of the split basis
RotationCommit(s) ==
    /\ pc = "loop" /\ phase = "rotation" /\ s \in todo
    /\ \E latest \in Latest :
          LET last == BarsUntil(latest, runSession)
          IN /\ last > 0
             /\ db' = [db EXCEPT ![s] = [last |-> last, adj |-> FALSE, rescaled |-> split[s] # 0,
                                         event |-> @.event]]
    /\ barsLost' = barsLost \cup {s}
    /\ splitsLost' = IF db[s].last # 0 /\ db[s].rescaled # (split[s] # 0)
                     THEN splitsLost \cup {s} ELSE splitsLost
    /\ cur' = s
    /\ pc' = "record"
    /\ UNCHANGED <<envVars, disk, mem, record, snap, phase, runVars, todo, found, handled,
                   unsaved, moved, clean>>

\* record_success without core_session, Run.tick
RotationRecord ==
    /\ pc = "record" /\ phase = "rotation"
    /\ mem' = [mem EXCEPT ![cur].success = runDay]
    /\ todo' = todo \ {cur} /\ cur' = 0
    /\ pc' = "loop"
    /\ Tick
    /\ UNCHANGED <<envVars, db, record, snap, phase, runVars, found, barsLost, splitsLost, clean>>

RotationFailed(s) ==
    /\ pc = "loop" /\ phase = "rotation" /\ s \in todo
    /\ todo' = todo \ {s}
    /\ UNCHANGED <<envVars, db, mem, record, snap, phase, pc, runVars, cur, found, barsLost,
                   splitsLost, clean>>
    /\ Tick

\* The list is done, or BudgetExhaustedError breaks the loop
RotationLoopEnds ==
    /\ pc = "loop" /\ phase = "rotation"
    /\ todo' = {}
    /\ pc' = "end"
    /\ UNCHANGED <<envVars, db, disk, mem, record, snap, phase, runVars, cur, found, handled,
                   lostVars, clean>>

(***************************************************************************)
(* src.snapshot                                                            *)
(***************************************************************************)
Missing       == {s \in core : disk[s].session # session}
MissingSplits == {s \in core : ~SplitsComplete(disk[s])}

\* evaluate_completion. The S&P 500 list may be missing and macro series may be
\* late: fred and listed are the outcomes of those checks.
Evaluate(listed, fred) ==
    IF ~listed \/ (core # {} /\ Missing = core) THEN "failed"
    ELSE IF Missing # {} \/ MissingSplits # {} \/ ~fred THEN "partial"
    ELSE "complete"

\* What a complete copy promises of a core symbol's rows: the session bar, its
\* adj_close, and the split once its effective session is among the stored bars
Keeps(rows, effective, until) ==
    /\ rows.last = until /\ rows.adj
    /\ (rows.rescaled /\ effective <= rows.last) => rows.event

\* The copy of market.db as its readers judge it; one that is not complete
\* promises nothing
CopyOf(r) ==
    [complete |-> r.status = "complete",
     broken   |-> {s \in r.core : r.status = "complete" /\ ~Keeps(db[s], split[s], r.session)}]

\* Mutant of SnapshotRecord: split history is not looked at
RecordWithoutSplits ==
    /\ pc = "idle"
    /\ \E fred \in BOOLEAN :
          record' = [status  |-> IF Missing = {} /\ fred THEN "complete" ELSE "partial",
                     session |-> session, core |-> core]
    /\ phase' = "snapshot" /\ pc' = "copy"
    /\ UNCHANGED <<envVars, db, disk, mem, snap, runVars, todo, cur, found, handled, lostVars,
                   clean>>

\* create_snapshot decides from state.json and the clock, and commits the
\* collection_runs row in market.db
SnapshotRecord ==
    /\ pc = "idle"
    /\ \E listed \in BOOLEAN, fred \in BOOLEAN :
          record' = [status |-> Evaluate(listed, fred), session |-> session, core |-> core]
    /\ phase' = "snapshot" /\ pc' = "copy"
    /\ UNCHANGED <<envVars, db, disk, mem, snap, runVars, todo, cur, found, handled, lostVars,
                   clean>>

\* _copy_verified: the copy of market.db replaces the published file
SnapshotPublish ==
    /\ pc = "copy"
    /\ snap' = CopyOf(record)
    /\ UNCHANGED <<envVars, db, disk, lostVars>>
    /\ Ended

(***************************************************************************)
(* Specification                                                           *)
(***************************************************************************)
Environment == \/ CloseSession \/ NextDay \/ Kill \/ Interrupt
               \/ \E s \in Symbols : Split(s) \/ Reclassify(s)

RunStep == \/ \E forced \in BOOLEAN : \/ StartRun("core", FALSE, forced)
                                      \/ StartRun("core", TRUE, forced)
                                      \/ StartRun("rotation", FALSE, forced)
           \/ BeginCore \/ BeginRotation \/ Finish

CoreStep == \/ \E s \in Symbols : CoreCommit(s) \/ CoreFailed(s)
            \/ CoreRecord \/ CoreExhausted \/ CoreLoopEnds

SplitStep == \/ \E s \in Symbols : SplitCommit(s) \/ SplitFailed(s)
             \/ SplitRecord \/ SplitExhausted \/ SplitLoopEnds

RotationStep == \/ \E s \in Symbols : RotationCommit(s) \/ RotationFailed(s)
                \/ RotationRecord \/ RotationLoopEnds

SnapshotStep == SnapshotRecord \/ SnapshotPublish

Next == Environment \/ RunStep \/ CoreStep \/ SplitStep \/ RotationStep \/ SnapshotStep

Spec == Init /\ [][Next]_vars

(***************************************************************************)
(* Properties                                                              *)
(***************************************************************************)
Recorded == pc = "copy" /\ record.status = "complete"

\* "complete" is decided from state.json, the copy is made of market.db. When
\* it is recorded, every core symbol really has the session bar with adj_close,
\* unless a commit's bookkeeping was lost with its process or the symbol was
\* collected in the rotation phase since its last core collection.
CompleteHasBars ==
    Recorded => \A s \in core \ barsLost : db[s].last = record.session /\ db[s].adj

\* Likewise the split of every rescaled core symbol is in corporate_actions,
\* unless its basis change was consumed unseen: by a lost commit, by a rotation
\* collection, or by deriving events before the effective bar could be stored.
CompleteHasSplits ==
    Recorded => \A s \in core \ splitsLost : db[s].rescaled => db[s].event

\* The splits_stale mark in state.json is cleared only when the events have
\* been derived again: it survives failed and exhausted split loops, later runs
\* and rows replaced once more, until a split refresh has committed.
StaleSurvives ==
    [][\A s \in Symbols :
          (disk[s].stale /\ ~disk'[s].stale /\ db'[s].rescaled /\ s \notin splitsLost')
          => db'[s].event]_vars

\* No bar of an unfinished session is ever stored, also when the session closes
\* while the run is under way (DESIGN: bars after the session are not stored).
NoUnfinishedBar == \A s \in Symbols : db[s].last <= session

\* A core phase whose calls all succeeded with fresh bars leaves nothing to
\* complete: every core symbol has the run's session, and those it refreshed
\* have their split history.
CleanRunLeavesNoGap ==
    (phase = "splits" /\ pc = "loop" /\ todo = {} /\ clean) =>
       \A s \in core : /\ mem[s].session = runSession
                       /\ (mem[s].success = runDay => SplitsComplete(mem[s]))

\* Contract of the published file, as readers see it.
Contract == INSTANCE SnapshotContract WITH
    snap    <- snap,
    offered <- IF pc = "copy" THEN <<CopyOf(record)>> ELSE <<>>,
    excused <- barsLost \cup splitsLost

\* The published file changes atomically, to a copy that was recorded as a
\* whole, and a complete copy is wrong only about symbols with lost bookkeeping.
ContractHolds == Contract!Spec

\* DESIGN.md, table of statuses: complete means that all core symbols have the
\* session bar, adj_close and split history.
CompletePromise == snap.complete => snap.broken = {}

\* splits_complete: the split history was derived and has not been invalidated
\* by a later split, so a complete copy has every split of its stored bars.
SplitsPromise ==
    Recorded => \A s \in core :
                   (db[s].rescaled /\ split[s] <= db[s].last) => db[s].event
=============================================================================
