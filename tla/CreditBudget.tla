---------------------------- MODULE CreditBudget ----------------------------
(***************************************************************************)
(* Twelve Data credit accounting: the per-key daily budgets and the key    *)
(* rotation of rate_limit.KeyPool, the credit cap of one pipeline run, the *)
(* request loop of twelve_data.TwelveDataClient, the usage sync at the     *)
(* start of a run, and the two places the counts live: the state document  *)
(* in memory and state.json, which a run saves now and then.               *)
(*                                                                         *)
(* Two programs use it. A "main" process is one invocation of src.main     *)
(* (core and rotation phases, paid calls, run cap, saves). A "catalog"     *)
(* process is src.universe: it asks the free endpoints (/stocks, /etfs)    *)
(* with no cap and never saves the state it loaded. The pipeline lock lets *)
(* one of them run at a time.                                              *)
(*                                                                         *)
(* The provider bills credits per key and per UTC day. A process may be    *)
(* killed at any point, an answer may be lost after it was billed, and     *)
(* midnight UTC may fall anywhere, also while a call waits for the         *)
(* per-minute limiter (PerMinuteRateLimiter.wait, inside _get).            *)
(***************************************************************************)
EXTENDS Integers

CONSTANTS
    KeyCount,            \* keys with a value in the environment, in rotation order
    DailyLimit,          \* daily_limit of config/providers.yaml
    DailyReserve,        \* daily_reserve
    RunCap,              \* max_credits_per_run
    SaveEvery,           \* main.SAVE_EVERY
    NetworkAttempts,     \* twelve_data.NETWORK_ATTEMPTS
    UsageSyncAttempts,   \* twelve_data.USAGE_SYNC_ATTEMPTS
    RateLimitRetries,    \* twelve_data.RATE_LIMIT_RETRIES
    MaxDay,              \* bound: UTC days that pass
    MaxRun               \* bound: pipeline run ids that are used

ASSUME BudgetAssumption ==
    /\ KeyCount \in Nat
    /\ DailyLimit \in Nat /\ DailyReserve \in Nat
    /\ RunCap \in Nat \ {0}
    /\ SaveEvery \in Nat \ {0}
    /\ NetworkAttempts \in Nat \ {0}
    /\ UsageSyncAttempts \in Nat \ {0}
    /\ RateLimitRetries \in Nat
    /\ MaxDay \in Nat /\ MaxRun \in Nat

VARIABLES
    today,      \* the UTC date
    billed,     \* [Keys -> Nat] credits the provider billed to each key today
    disk,       \* state.json: the key buckets and state["pipeline_run"]
    bucket,     \* the key buckets in memory: [Keys -> [date, used]]
    active,     \* keys without a disabled_reason
    run,        \* id of the pipeline run in progress
    capUsed,    \* RunCreditCap.used
    phase,      \* which loop of the process runs
    pc,         \* where the process is
    sync,       \* sync_usage: the slot it is at and its attempt number
    need,       \* calls the current symbol still needs
    handled,    \* Run.handled, modulo SaveEvery
    req,        \* the request() call in progress
    verified,   \* history: keys whose usage sync_usage read in this invocation
    synced,     \* history: this invocation ran sync_usage
    startDay,   \* history: UTC date when this invocation started
    syncDay,    \* history: UTC date when its usage sync ended
    runBilled,  \* history: credits the provider billed for this run id
    crashed     \* history: an invocation with this run id was killed

envVars   == <<today, billed>>
memVars   == <<bucket, active, run, capUsed>>
ctlVars   == <<phase, pc, sync, need, handled, req>>
histVars  == <<verified, synced, startDay, syncDay, runBilled, crashed>>
vars      == <<envVars, disk, memVars, ctlVars, histVars>>

Keys   == 1..KeyCount
Usable == IF DailyReserve <= DailyLimit THEN DailyLimit - DailyReserve ELSE 0

Cost       == [time_series |-> 1, api_usage |-> 1, catalog |-> 0]
Endpoints  == DOMAIN Cost
Places     == {"idle", "sync", "begin", "ready", "pick", "wait", "returned", "end"}
Phases     == {"core", "splits", "rotation", "catalog"}
Results    == {"none", "ok", "unreadable", "error", "exhausted"}

Bucket  == [date : Nat, used : Nat]
Request == [endpoint : Endpoints, fixed : BOOLEAN, key : Keys \cup {0},
            attempt : 1..NetworkAttempts, uncertain : 0..NetworkAttempts,
            retries : 0..RateLimitRetries, result : Results, report : Nat]

(***************************************************************************)
(* Types                                                                   *)
(***************************************************************************)

\* Type invariant of the whole specification.
TypeOK ==
    /\ today \in Nat
    /\ billed \in [Keys -> Nat]
    /\ disk \in [bucket : [Keys -> Bucket], run : Nat, used : Nat]
    /\ bucket \in [Keys -> Bucket]
    /\ active \in SUBSET Keys
    /\ run \in Nat
    /\ capUsed \in Nat
    /\ phase \in Phases
    /\ pc \in Places
    /\ sync \in [slot : Nat \ {0}, attempt : 1..UsageSyncAttempts]
    /\ need \in 0..2
    /\ handled \in 0..(SaveEvery - 1)
    /\ req \in Request
    /\ verified \in SUBSET Keys
    /\ synced \in BOOLEAN
    /\ startDay \in Nat /\ syncDay \in Nat
    /\ runBilled \in Nat
    /\ crashed \in BOOLEAN

(***************************************************************************)
(* Budgets                                                                 *)
(***************************************************************************)

\* DailyBudget.remaining_before_reserve
Remaining(b) == IF b.used <= Usable THEN Usable - b.used ELSE 0

\* Mutant of Refreshed: forgets the date it stored, so every lookup starts over
ForgetsDate(b) == [date |-> today, used |-> 0]

\* ensure_daily_provider_state: a bucket of another UTC date starts over
Refreshed(b) == IF b.date = today THEN b ELSE [date |-> today, used |-> 0]

\* KeyPool._refresh_day, and KeyPool.from_env applied to a loaded state
RefreshDay(buckets) == [k \in Keys |-> Refreshed(buckets[k])]

\* DailyBudget.spend
Spend(buckets, k, c) == [buckets EXCEPT ![k].used = @ + c]

\* Mutant of Exhaust: the daily-limit answer leaves the local count alone
DayLimitIgnored(buckets, k) == buckets

\* DailyBudget.force_exhaust
Exhaust(buckets, k) ==
    [buckets EXCEPT ![k].used = IF @ < DailyLimit THEN DailyLimit ELSE @]

\* Mutant of Adopt: the provider's count is read and dropped
ReportDropped(buckets, k, n) == buckets

\* DailyBudget.sync_server_usage
Adopt(buckets, k, n) == [buckets EXCEPT ![k].used = IF @ < n THEN n ELSE @]

\* Mutant of CapAllows: any credit left lets a call through, whatever it costs
CapNotSpent(c) == phase = "catalog" \/ capUsed <= RunCap

\* RunCreditCap.allows; src.universe builds RunCreditCap(None)
CapAllows(c) == phase = "catalog" \/ capUsed + c <= RunCap

\* KeyPool.current_slot takes the first of the active keys that can pay
Payers(buckets, c) == {k \in active : c <= Remaining(buckets[k])}

SaveState ==
    disk' = [bucket |-> bucket', run |-> run', used |-> capUsed']

NoRequest == [endpoint |-> "catalog", fixed |-> FALSE, key |-> 0, attempt |-> 1,
              uncertain |-> 0, retries |-> 0, result |-> "none", report |-> 0]

\* The arguments of a request() call that has not looked for a key yet
Call(endpoint, k) ==
    [NoRequest EXCEPT !.endpoint = endpoint, !.fixed = (k # 0), !.key = k]

(***************************************************************************)
(* Initial state: no state.json, nothing running                           *)
(***************************************************************************)
NoBuckets == [k \in Keys |-> [date |-> 0, used |-> 0]]

Init ==
    /\ today = 1
    /\ billed \in [Keys -> {0}]
    /\ disk = [bucket |-> NoBuckets, run |-> 0, used |-> 0]
    /\ bucket = NoBuckets
    /\ active = Keys
    /\ run = 0
    /\ capUsed = 0
    /\ phase = "catalog"
    /\ pc = "idle"
    /\ sync = [slot |-> 1, attempt |-> 1]
    /\ need = 0
    /\ handled = 0
    /\ req = NoRequest
    /\ verified = {}
    /\ synced = FALSE
    /\ startDay = 1 /\ syncDay = 1
    /\ runBilled = 0
    /\ crashed = FALSE

(***************************************************************************)
(* The environment                                                         *)
(***************************************************************************)

\* Midnight UTC: the provider's daily counters start over
Midnight ==
    /\ today < MaxDay
    /\ today' = today + 1
    /\ billed' \in [Keys -> {0}]
    /\ UNCHANGED <<disk, memVars, ctlVars, histVars>>

\* Somebody uses a key outside this state. An assumption: not while a process of
\* ours runs, which learns of it from the next sync only.
ExternalUse(k) ==
    /\ pc = "idle"
    /\ billed[k] < DailyLimit
    /\ billed' = [billed EXCEPT ![k] = @ + 1]
    /\ UNCHANGED <<today, disk, memVars, ctlVars, histVars>>

\* Memory of a process that ended; run and its history outlive the process
Gone ==
    /\ bucket' = NoBuckets
    /\ active' = Keys
    /\ capUsed' = 0
    /\ phase' = "catalog"
    /\ pc' = "idle"
    /\ sync' = [slot |-> 1, attempt |-> 1]
    /\ need' = 0
    /\ handled' = 0
    /\ req' = NoRequest
    /\ verified' = {}
    /\ synced' = FALSE
    /\ UNCHANGED <<run, startDay, syncDay, runBilled>>

\* SIGKILL or power loss: no finally block runs, nothing is saved
Crash ==
    /\ pc # "idle"
    /\ Gone
    /\ crashed' = (crashed \/ phase # "catalog")
    /\ UNCHANGED <<envVars, disk>>

(***************************************************************************)
(* run_collection: start, usage sync, phases, end                          *)
(***************************************************************************)

\* Load the state, resume the credits of the same run id, attach the keys
StartRun(id, first, withSync) ==
    /\ pc = "idle"
    /\ run' = id
    /\ capUsed' = IF disk.run = id THEN disk.used ELSE 0
    /\ bucket' = RefreshDay(disk.bucket)
    /\ phase' = first
    /\ pc' = IF withSync THEN "sync" ELSE "begin"
    /\ sync' = [slot |-> 1, attempt |-> 1]
    /\ synced' = withSync
    /\ verified' = {}
    /\ startDay' = today /\ syncDay' = today
    /\ runBilled' = IF id = run THEN runBilled ELSE 0
    /\ crashed' = (id = run /\ crashed)
    /\ UNCHANGED <<envVars, disk, active, need, handled, req>>

\* src.universe: the same state and keys, no cap, no sync, never saved
StartCatalog ==
    /\ pc = "idle"
    /\ bucket' = RefreshDay(disk.bucket)
    /\ phase' = "catalog"
    /\ pc' = "ready"
    /\ UNCHANGED <<envVars, disk, active, run, capUsed, sync, need, handled, req, histVars>>

\* sync_usage reaches a slot that has no local budget or that the cap cannot
\* pay for: the key is not queried and stays active
SyncSkip ==
    /\ pc = "sync" /\ sync.slot <= KeyCount
    /\ \/ Cost["api_usage"] > Remaining(bucket[sync.slot])
       \/ ~CapAllows(Cost["api_usage"])
    /\ sync' = [slot |-> sync.slot + 1, attempt |-> 1]
    /\ UNCHANGED <<envVars, disk, memVars, phase, pc, need, handled, req, histVars>>

\* sync_usage asks /api_usage with the slot's own key
SyncAsk ==
    /\ pc = "sync" /\ sync.slot <= KeyCount
    /\ Cost["api_usage"] <= Remaining(bucket[sync.slot])
    /\ CapAllows(Cost["api_usage"])
    /\ req' = Call("api_usage", sync.slot)
    /\ pc' = "pick"
    /\ UNCHANGED <<envVars, disk, memVars, phase, sync, need, handled, histVars>>

\* The usage was read: adopt it when it is higher than the local count
SyncRead ==
    /\ pc = "returned" /\ req.fixed /\ req.result = "ok"
    /\ bucket' = Adopt(bucket, sync.slot, req.report)
    /\ verified' = verified \cup {sync.slot}
    /\ sync' = [slot |-> sync.slot + 1, attempt |-> 1]
    /\ req' = NoRequest
    /\ pc' = "sync"
    /\ UNCHANGED <<envVars, disk, active, run, capUsed, phase, need, handled,
                   synced, startDay, syncDay, runBilled, crashed>>

\* Mutant of SyncRetry: no attempt limit
SyncRetryForever ==
    /\ pc = "returned" /\ req.fixed /\ req.result \in {"error", "unreadable"}
    /\ sync' = [sync EXCEPT !.attempt = @ + 1]
    /\ req' = Call("api_usage", sync.slot)
    /\ pc' = "pick"
    /\ UNCHANGED <<envVars, disk, memVars, phase, need, handled, histVars>>

\* An error or an unreadable body with an attempt left: ask again (the budget
\* checks before the attempts are not repeated here, request() repeats them)
SyncRetry ==
    /\ pc = "returned" /\ req.fixed /\ req.result \in {"error", "unreadable"}
    /\ sync.attempt < UsageSyncAttempts
    /\ sync' = [sync EXCEPT !.attempt = @ + 1]
    /\ req' = Call("api_usage", sync.slot)
    /\ pc' = "pick"
    /\ UNCHANGED <<envVars, disk, memVars, phase, need, handled, histVars>>

\* Mutant of SyncExclude: an unreadable key stays in use
SyncKeepsKey ==
    /\ pc = "returned" /\ req.fixed /\ req.result # "ok"
    /\ sync' = [slot |-> sync.slot + 1, attempt |-> 1]
    /\ req' = NoRequest
    /\ pc' = "sync"
    /\ UNCHANGED <<envVars, disk, memVars, phase, need, handled, histVars>>

\* Attempts or budget used up: the key is excluded for the rest of the run
SyncExclude ==
    /\ pc = "returned" /\ req.fixed
    /\ \/ req.result = "exhausted"
       \/ /\ req.result \in {"error", "unreadable"}
          /\ sync.attempt = UsageSyncAttempts
    /\ active' = active \ {sync.slot}
    /\ sync' = [slot |-> sync.slot + 1, attempt |-> 1]
    /\ req' = NoRequest
    /\ pc' = "sync"
    /\ UNCHANGED <<envVars, disk, bucket, run, capUsed, phase, need, handled, histVars>>

\* After the sync, key_pool.summary() and total_remaining() refresh the day
SyncEnd ==
    /\ pc = "sync" /\ sync.slot > KeyCount
    /\ bucket' = RefreshDay(bucket)
    /\ syncDay' = today
    /\ pc' = "begin"
    /\ UNCHANGED <<envVars, disk, active, run, capUsed, phase, sync, need, handled, req,
                   verified, synced, startDay, runBilled, crashed>>

\* run_core and run_rotation save the state before their first symbol
BeginPhase ==
    /\ pc = "begin"
    /\ pc' = "ready"
    /\ UNCHANGED <<envVars, memVars, phase, sync, need, handled, req, histVars>>
    /\ SaveState

\* A loop ends (its list is done, or a BudgetExhaustedError broke it) and the
\* next one starts: core symbols, split history, then the rotation phase
NextLoop ==
    /\ pc = "ready"
    /\ \/ phase = "core"   /\ phase' = "splits"   /\ pc' = "ready"
       \/ phase = "splits" /\ phase' = "rotation" /\ pc' = "begin"
    /\ UNCHANGED <<envVars, disk, memVars, sync, need, handled, req, histVars>>

\* The finally block: refresh the day (key_pool_end), save, leave
FinishRun ==
    /\ \/ pc = "ready" /\ phase \in {"splits", "rotation"}
       \/ pc = "end"
    /\ disk' = [bucket |-> RefreshDay(bucket), run |-> run, used |-> capUsed]
    /\ Gone
    /\ UNCHANGED <<envVars, crashed>>

\* An exception nobody catches (Ctrl-C, a database error) leaves the phases
\* early: the same finally block saves what has been charged so far
Interrupt ==
    /\ pc \in {"begin", "ready", "pick", "wait", "returned"}
    /\ phase # "catalog" /\ ~req.fixed
    /\ disk' = [bucket |-> RefreshDay(bucket), run |-> run, used |-> capUsed]
    /\ Gone
    /\ crashed' = TRUE
    /\ UNCHANGED envVars

\* src.universe ends without saving the state
FinishCatalog ==
    /\ pc = "ready" /\ phase = "catalog"
    /\ Gone
    /\ UNCHANGED <<envVars, disk, crashed>>

(***************************************************************************)
(* Symbols: the calls of one step of a loop                                *)
(***************************************************************************)

\* collect_core_symbol asks can_afford for both of its calls first
StartCoreSymbol ==
    /\ pc = "ready" /\ phase = "core"
    /\ CapAllows(2)
    /\ bucket' = RefreshDay(bucket)
    /\ Payers(bucket', 2) # {}
    /\ need' = 2
    /\ req' = Call("time_series", 0)
    /\ pc' = "pick"
    /\ UNCHANGED <<envVars, disk, active, run, capUsed, phase, sync, handled, histVars>>

\* can_afford says no: the core loop breaks (current_slot has refreshed the
\* day when the cap itself would have allowed the symbol)
CoreBudgetGone ==
    /\ pc = "ready" /\ phase = "core"
    /\ bucket' = IF CapAllows(2) THEN RefreshDay(bucket) ELSE bucket
    /\ CapAllows(2) => Payers(bucket', 2) = {}
    /\ phase' = "splits"
    /\ UNCHANGED <<envVars, disk, active, run, capUsed, pc, sync, need, handled, req, histVars>>

\* refresh_split_events and collect_rotation_symbol make one call
StartOneCall ==
    /\ pc = "ready" /\ phase \in {"splits", "rotation"}
    /\ need' = 1
    /\ req' = Call("time_series", 0)
    /\ pc' = "pick"
    /\ UNCHANGED <<envVars, disk, memVars, phase, sync, handled, histVars>>

\* refresh_universe asks the free catalog endpoints
StartCatalogCall ==
    /\ pc = "ready" /\ phase = "catalog"
    /\ need' = 1
    /\ req' = Call("catalog", 0)
    /\ pc' = "pick"
    /\ UNCHANGED <<envVars, disk, memVars, phase, sync, handled, histVars>>

\* The first of two calls is back: the second follows
SecondCall ==
    /\ pc = "returned" /\ ~req.fixed /\ phase = "core"
    /\ req.result = "ok" /\ need = 2
    /\ need' = 1
    /\ req' = Call("time_series", 0)
    /\ pc' = "pick"
    /\ UNCHANGED <<envVars, disk, memVars, phase, sync, handled, histVars>>

\* The symbol succeeded or failed: Run.tick saves after every SaveEvery symbols
SymbolDone ==
    /\ pc = "returned" /\ ~req.fixed /\ phase # "catalog"
    /\ \/ req.result = "ok" /\ need = 1
       \/ req.result \in {"error", "unreadable"}
    /\ need' = 0
    /\ handled' = (handled + 1) % SaveEvery
    /\ req' = NoRequest
    /\ pc' = "ready"
    /\ UNCHANGED <<envVars, memVars, phase, sync, histVars>>
    /\ IF handled' = 0 THEN SaveState ELSE UNCHANGED disk

\* BudgetExhaustedError breaks the loop before Run.tick. After the core loop
\* the split loop still runs, after the split loop the rotation phase if it was
\* asked for.
SymbolExhausted ==
    /\ pc = "returned" /\ ~req.fixed /\ phase # "catalog"
    /\ req.result = "exhausted"
    /\ need' = 0
    /\ req' = NoRequest
    /\ \/ phase = "core"   /\ phase' = "splits"   /\ pc' = "ready"
       \/ phase = "splits" /\ phase' = "rotation" /\ pc' = "begin"
       \/ phase # "core"   /\ phase' = phase      /\ pc' = "end"
    /\ UNCHANGED <<envVars, disk, memVars, sync, handled, histVars>>

\* A catalog answer or error is back
CatalogDone ==
    /\ pc = "returned" /\ phase = "catalog"
    /\ need' = 0
    /\ req' = NoRequest
    /\ pc' = "ready"
    /\ UNCHANGED <<envVars, disk, memVars, phase, sync, handled, histVars>>

(***************************************************************************)
(* TwelveDataClient.request: the loop, and _get inside it                  *)
(***************************************************************************)
ReqCost == Cost[req.endpoint]

\* request() leaves its loop
Return(result) ==
    /\ pc' = "returned"
    /\ req' = [req EXCEPT !.result = result]

\* _get: the attempt it is at and the lost attempts so far
Round(r, attempt, lost) == [r EXCEPT !.attempt = attempt, !.uncertain = lost]

\* Top of the loop, a key is found: a fixed slot is checked against the bucket
\* as it is, the pool refreshes the UTC day and takes the first key that can pay
PickKey ==
    /\ pc = "pick" /\ CapAllows(ReqCost)
    /\ IF req.fixed
       THEN /\ ReqCost <= Remaining(bucket[req.key])
            /\ req' = Round(req, 1, 0)
            /\ UNCHANGED bucket
       ELSE /\ bucket' = RefreshDay(bucket)
            /\ \E k \in Payers(bucket', ReqCost) :
                  /\ \A j \in Payers(bucket', ReqCost) : k <= j
                  /\ req' = Round([req EXCEPT !.key = k], 1, 0)
    /\ pc' = "wait"
    /\ UNCHANGED <<envVars, disk, active, run, capUsed, phase, sync, need, handled, histVars>>

\* Top of the loop, nothing can pay: BudgetExhaustedError
NothingCanPay ==
    /\ pc = "pick"
    /\ bucket' = IF req.fixed \/ ~CapAllows(ReqCost) THEN bucket ELSE RefreshDay(bucket)
    /\ CapAllows(ReqCost) =>
          IF req.fixed THEN ReqCost > Remaining(bucket[req.key])
                       ELSE Payers(bucket', ReqCost) = {}
    /\ Return("exhausted")
    /\ UNCHANGED <<envVars, disk, active, run, capUsed, phase, sync, need, handled, histVars>>

\* The provider bills n credits for the attempt in progress
Bill(n) ==
    /\ billed[req.key] + n <= DailyLimit
    /\ billed' = [billed EXCEPT ![req.key] = @ + n]
    /\ runBilled' = runBilled + n
    /\ UNCHANGED <<today, verified, synced, startDay, syncDay, crashed>>

\* TwelveDataClient._charge
Charge(buckets, n) ==
    /\ bucket' = Spend(buckets, req.key, n)
    /\ capUsed' = capUsed + n

\* A network error, a lost answer or a 5xx with an attempt left: the billing is
\* unknown, _get sleeps and tries again
AttemptLost ==
    /\ pc = "wait" /\ req.attempt < NetworkAttempts
    /\ \E n \in {0, ReqCost} : Bill(n)
    /\ req' = Round(req, req.attempt + 1, req.uncertain + 1)
    /\ UNCHANGED <<disk, memVars, phase, pc, sync, need, handled>>

\* Mutant of RequestLost: a call that never got an answer is not charged
LostIsFree ==
    /\ pc = "wait" /\ req.attempt = NetworkAttempts
    /\ \E n \in {0, ReqCost} : Bill(n)
    /\ Return("error")
    /\ UNCHANGED <<disk, memVars, phase, sync, need, handled>>

\* The last attempt is lost too: every attempt is charged, TwelveDataError
RequestLost ==
    /\ pc = "wait" /\ req.attempt = NetworkAttempts
    /\ \E n \in {0, ReqCost} : Bill(n)
    /\ Charge(bucket, ReqCost * (req.uncertain + 1))
    /\ Return("error")
    /\ UNCHANGED <<disk, active, run, phase, sync, need, handled>>

\* An answer below 500 charges the lost attempts before it and then, by its
\* kind, itself. A good payload: charged. For /api_usage it carries the
\* provider's count, this call included.
AnswerOk ==
    /\ pc = "wait"
    /\ Bill(ReqCost)
    /\ Charge(bucket, ReqCost * req.uncertain + ReqCost)
    /\ \E r \in {"ok", "unreadable"} :
          req' = [req EXCEPT !.result = r,
                             !.report = IF req.fixed THEN billed'[req.key] ELSE 0]
    /\ pc' = "returned"
    /\ UNCHANGED <<disk, active, run, phase, sync, need, handled>>

\* "for the day": the key is used up. A fixed slot gives up, otherwise the loop
\* looks for another key. The provider says so once its count is at the limit.
AnswerDayLimit ==
    /\ pc = "wait" /\ billed[req.key] = DailyLimit
    /\ bucket' = Exhaust(Spend(bucket, req.key, ReqCost * req.uncertain), req.key)
    /\ capUsed' = capUsed + ReqCost * req.uncertain
    /\ IF req.fixed THEN Return("error")
       ELSE /\ pc' = "pick"
            /\ req' = Round([req EXCEPT !.key = 0], 1, 0)
    /\ UNCHANGED <<envVars, disk, active, run, phase, sync, need, handled, histVars>>

\* Mutant of AnswerMinuteLimit: the retries are not counted
MinuteLimitUncounted ==
    /\ pc = "wait"
    /\ Charge(bucket, ReqCost * req.uncertain)
    /\ pc' = "pick"
    /\ req' = Round([req EXCEPT !.key = IF req.fixed THEN @ ELSE 0], 1, 0)
    /\ UNCHANGED <<envVars, disk, active, run, phase, sync, need, handled, histVars>>

\* The per-minute limit: not billed and not charged; again after a pause while
\* retries are left, TemporaryRateLimitError afterwards
AnswerMinuteLimit ==
    /\ pc = "wait"
    /\ Charge(bucket, ReqCost * req.uncertain)
    /\ IF req.retries < RateLimitRetries
       THEN /\ pc' = "pick"
            /\ req' = Round([req EXCEPT !.retries = @ + 1,
                                        !.key = IF req.fixed THEN @ ELSE 0], 1, 0)
       ELSE Return("error")
    /\ UNCHANGED <<envVars, disk, active, run, phase, sync, need, handled, histVars>>

\* 403: not billed by the provider, not charged
AnswerForbidden ==
    /\ pc = "wait"
    /\ Charge(bucket, ReqCost * req.uncertain)
    /\ Return("error")
    /\ UNCHANGED <<envVars, disk, active, run, phase, sync, need, handled, histVars>>

\* Any other error answer (404 and the rest): charged, whether billed or not
AnswerRejected ==
    /\ pc = "wait"
    /\ \E n \in {0, ReqCost} : Bill(n)
    /\ Charge(bucket, ReqCost * req.uncertain + ReqCost)
    /\ Return("error")
    /\ UNCHANGED <<disk, active, run, phase, sync, need, handled>>

(***************************************************************************)
(* Specification                                                           *)
(***************************************************************************)
Answer == \/ AnswerOk \/ AnswerDayLimit \/ AnswerMinuteLimit
          \/ AnswerForbidden \/ AnswerRejected

RequestStep == PickKey \/ NothingCanPay \/ AttemptLost \/ RequestLost \/ Answer

SyncStep == SyncSkip \/ SyncAsk \/ SyncRead \/ SyncRetry \/ SyncExclude \/ SyncEnd

RunStart ==
    \E id \in {run, run + 1} \cap (1..MaxRun), first \in {"core", "rotation"}, s \in BOOLEAN :
       StartRun(id, first, s)

SymbolStep == \/ StartCoreSymbol \/ CoreBudgetGone \/ StartOneCall \/ StartCatalogCall
              \/ SecondCall \/ SymbolDone \/ SymbolExhausted \/ CatalogDone

PhaseStep == BeginPhase \/ NextLoop \/ FinishRun \/ FinishCatalog \/ Interrupt

Environment == Midnight \/ (\E k \in Keys : ExternalUse(k)) \/ Crash

Next == \/ RunStart \/ StartCatalog \/ SyncStep \/ PhaseStep
        \/ SymbolStep \/ RequestStep \/ Environment

Spec == Init /\ [][Next]_vars

\* A running process keeps executing its request loop: Python runs on, and
\* http_get returns or times out (60 seconds). Nothing is assumed about which
\* answer comes, nor that processes are ever started or killed.
FairSpec == Spec /\ WF_vars(RequestStep)

(***************************************************************************)
(* Properties                                                              *)
(***************************************************************************)

\* Credits the attempts of the call in progress may already have been billed
InFlight == IF pc = "wait" THEN ReqCost * req.uncertain ELSE 0

\* The run cap is checked for one credit and then pays for every attempt of
\* the call, so a run can pass its cap by the attempts before the last one;
\* never by more, also when phases share the cap or a killed run is resumed.
CapOvershootBound ==
    /\ capUsed <= RunCap + NetworkAttempts - 1
    /\ disk.used <= RunCap + NetworkAttempts - 1

\* Unknown billing outcomes are charged conservatively: unless a process of
\* this run was killed, the cap has counted every credit the provider billed.
ChargesCoverBilling == (pc # "idle" /\ phase # "catalog" /\ ~crashed) => runBilled <= capUsed + InFlight

\* A key whose usage was read at the start of the run is never counted below
\* the provider's own count (that would let the run eat into the reserve),
\* whatever was used outside before the run or lost by earlier crashes; up to
\* midnight UTC. (What is used outside during the run, nobody here can count.)
VerifiedKeyCovered ==
    \A k \in verified : today = startDay =>
       billed[k] <= bucket[k].used + (IF req.key = k THEN InFlight ELSE 0)

\* After midnight UTC a key may miss the attempts of the one call that was
\* under way at midnight: PickKey refreshes the day before every other call. A
\* fixed slot is never refreshed, so a sync that runs into midnight may miss all
\* the calls of that key's sync.
SyncCalls == UsageSyncAttempts * ((RateLimitRetries + 1) * (NetworkAttempts - 1) + 1)
MidnightSlack == IF syncDay = startDay THEN NetworkAttempts ELSE SyncCalls

MidnightUndercountBound ==
    \A k \in verified : bucket[k].date = today =>
       billed[k] <= bucket[k].used + MidnightSlack
                      + (IF req.key = k THEN InFlight ELSE 0)

\* A run that syncs pays only with keys whose usage it has read (up to midnight
\* UTC): a skipped key could not pay, an unreadable one is excluded.
SyncedRunPaysVerified ==
    (synced /\ today = startDay /\ pc = "wait" /\ ~req.fixed) => req.key \in verified

\* request() for a paid endpoint always comes back: with a payload, an error or
\* BudgetExhaustedError, whatever the provider answers.
PaidRequestReturns ==
    (pc = "wait" /\ ReqCost > 0) ~> (pc \in {"returned", "idle"})

\* What is left of a request() call: the keys that can still pay for it today,
\* whether its round began before midnight, and the attempts of that round
PayersLeft    == Payers(RefreshDay(bucket), ReqCost)
FromYesterday == pc = "wait" /\ ~req.fixed /\ bucket[req.key].date # today
AttemptsLeft  == IF pc = "pick" THEN NetworkAttempts + 1 ELSE NetworkAttempts - req.attempt

\* A step of the call gives back no key and no retry, and uses up a key, a retry
\* or an attempt, or brings the call into the new day
Advance ==
    /\ PayersLeft' \subseteq PayersLeft
    /\ req'.retries >= req.retries
    /\ FromYesterday' => FromYesterday
    /\ \/ PayersLeft' # PayersLeft
       \/ req'.retries # req.retries
       \/ FromYesterday' # FromYesterday
       \/ AttemptsLeft' < AttemptsLeft

\* Why a paid call comes back: between two midnights every step of it, whatever
\* the provider answers, brings it nearer to its end. (A free call asks a key
\* that is used up again and again.)
RequestAdvances ==
    [][(ReqCost > 0 /\ {pc, pc'} \subseteq {"pick", "wait"} /\ UNCHANGED today) => Advance]_vars

\* request() for a free endpoint comes back too (request docstring: it rotates
\* to the next key on the daily limit, and raises BudgetExhaustedError).
CatalogRequestReturns ==
    (pc = "wait" /\ ReqCost = 0) ~> (pc \in {"returned", "idle"})

\* sync_usage docstring: a key with no local budget is not queried because it
\* would not be used anyway.
SkippedKeyUnused ==
    (synced /\ pc = "wait" /\ ~req.fixed) => req.key \in verified
=============================================================================
