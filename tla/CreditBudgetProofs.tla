------------------------- MODULE CreditBudgetProofs -------------------------
(***************************************************************************)
(* Proofs about CreditBudget, for every number of keys, every limit, cap   *)
(* and retry count.                                                        *)
(***************************************************************************)
EXTENDS CreditBudget, TLAPS

USE BudgetAssumption

(***************************************************************************)
(* What the budget operators return                                        *)
(***************************************************************************)

\* A refreshed map of buckets is a map of buckets (KeyPool._refresh_day)
LEMMA RefreshDayType ==
    ASSUME today \in Nat, NEW b \in [Keys -> Bucket]
    PROVE  RefreshDay(b) \in [Keys -> Bucket]
BY DEF RefreshDay, Refreshed, Bucket

\* Spending, exhausting and adopting keep it one (DailyBudget.spend,
\* force_exhaust, sync_server_usage)
LEMMA SpendType ==
    ASSUME NEW b \in [Keys -> Bucket], NEW k \in Keys, NEW n \in Nat
    PROVE  /\ Spend(b, k, n) \in [Keys -> Bucket]
           /\ Exhaust(b, k) \in [Keys -> Bucket]
           /\ Adopt(b, k, n) \in [Keys -> Bucket]
<1> b[k] \in Bucket /\ b[k].used \in Nat /\ DailyLimit \in Nat
  BY DEF Bucket
<1>1. \A m \in Nat : [b[k] EXCEPT !.used = m] \in Bucket
  BY DEF Bucket
<1>2. \A m \in Nat : [b EXCEPT ![k] = [b[k] EXCEPT !.used = m]] \in [Keys -> Bucket]
  BY <1>1
<1>3. Spend(b, k, n) = [b EXCEPT ![k] = [b[k] EXCEPT !.used = b[k].used + n]]
  BY DEF Spend
<1>4. Exhaust(b, k) = [b EXCEPT ![k] = [b[k] EXCEPT !.used =
                         IF b[k].used < DailyLimit THEN DailyLimit ELSE b[k].used]]
  BY DEF Exhaust
<1>5. Adopt(b, k, n) = [b EXCEPT ![k] = [b[k] EXCEPT !.used =
                         IF b[k].used < n THEN n ELSE b[k].used]]
  BY DEF Adopt
<1> QED
  BY <1>2, <1>3, <1>4, <1>5

\* Every endpoint costs nothing or one credit (CREDIT_COSTS)
LEMMA CostOfCall ==
    ASSUME TypeOK
    PROVE  /\ ReqCost \in {0, 1}
           /\ \A n \in Nat : ReqCost * n \in {0, n} /\ (ReqCost = 1 => ReqCost * n = n)
           /\ \A n \in Nat : ReqCost = 0 => ReqCost * n = 0
<1>1. ReqCost \in {0, 1}
  BY DEF TypeOK, Request, Endpoints, ReqCost, Cost
<1> QED
  BY <1>1

\* The request of no call and of a call before its first look for a key
LEMMA FreshRequestType ==
    /\ NoRequest \in Request /\ ~NoRequest.fixed /\ NoRequest.endpoint = "catalog"
    /\ \A e \in Endpoints, k \in Keys \cup {0} : Call(e, k) \in Request
<1>1. NoRequest \in Request /\ ~NoRequest.fixed /\ NoRequest.endpoint = "catalog"
  BY DEF NoRequest, Request, Endpoints, Cost, Results
<1>2. ASSUME NEW e \in Endpoints, NEW k \in Keys \cup {0}
      PROVE  Call(e, k) \in Request
  BY <1>1, <1>2 DEF Call, Request, NoRequest
<1> QED
  BY <1>1, <1>2

(***************************************************************************)
(* Type correctness                                                        *)
(***************************************************************************)

\* Where a process can be: a call that is under way has a key and has counted
\* every lost attempt; src.universe makes free calls only.
Placed ==
    /\ pc = "wait" => req.key \in Keys /\ req.uncertain = req.attempt - 1
    /\ pc \notin {"pick", "wait", "returned"} => req = NoRequest
    /\ req.fixed => req.key \in Keys /\ sync.slot \in Keys
    /\ phase = "catalog" =>
          /\ pc \notin {"sync", "begin", "end"}
          /\ req.endpoint = "catalog" /\ ~req.fixed

TypeInv == TypeOK /\ Placed

LEMMA TypeInit == Init => TypeInv
<1> SUFFICES ASSUME Init PROVE TypeInv
  OBVIOUS
<1>1. NoBuckets \in [Keys -> Bucket]
  BY DEF NoBuckets, Bucket
<1>2. NoRequest \in Request
  BY FreshRequestType
<1>3. [slot |-> 1, attempt |-> 1] \in [slot : Nat \ {0}, attempt : 1..UsageSyncAttempts]
  OBVIOUS
<1>4. 0 \in 0..(SaveEvery - 1)
  OBVIOUS
<1>5. /\ active \in SUBSET Keys /\ verified \in SUBSET Keys
      /\ synced \in BOOLEAN /\ crashed \in BOOLEAN
  BY DEF Init
<1>6. disk \in [bucket : [Keys -> Bucket], run : Nat, used : Nat]
  BY <1>1 DEF Init
<1>7. billed \in [Keys -> Nat]
  BY DEF Init
<1>8. TypeOK
  BY <1>1, <1>2, <1>3, <1>4, <1>5, <1>6, <1>7 DEF Init, TypeOK, Phases, Places
<1>9. Placed
  BY DEF Init, Placed, NoRequest
<1> QED
  BY <1>8, <1>9 DEF TypeInv

\* Memory of a process that ended is well typed
LEMMA GoneType ==
    ASSUME TypeInv, Gone, envVars' = envVars, crashed' \in BOOLEAN,
           disk' \in [bucket : [Keys -> Bucket], run : Nat, used : Nat]
    PROVE  TypeInv'
<1>1. NoBuckets \in [Keys -> Bucket]
  BY DEF NoBuckets, Bucket
<1>2. NoRequest \in Request
  BY FreshRequestType
<1>3. [slot |-> 1, attempt |-> 1] \in [slot : Nat \ {0}, attempt : 1..UsageSyncAttempts]
  OBVIOUS
<1>4. 0 \in 0..(SaveEvery - 1)
  OBVIOUS
<1>5. active' \in SUBSET Keys /\ verified' \in SUBSET Keys /\ synced' \in BOOLEAN
  BY DEF Gone
<1>6. TypeOK'
  BY <1>1, <1>2, <1>3, <1>4, <1>5 DEF TypeInv, TypeOK, Gone, envVars, Phases, Places
<1>7. Placed'
  BY DEF Gone, Placed, NoRequest
<1> QED
  BY <1>6, <1>7 DEF TypeInv

\* Every step of the usage sync keeps the types
LEMMA SyncType == ASSUME TypeInv, SyncStep PROVE TypeInv'
<1> USE DEF TypeInv, TypeOK, Placed, vars, envVars, memVars, ctlVars, histVars, Places, Phases
<1>1. CASE SyncSkip
  BY <1>1, FreshRequestType DEF SyncSkip
<1>2. CASE SyncAsk
  <2>1. sync.slot \in Keys
    BY <1>2 DEF SyncAsk, Keys
  <2>2. Call("api_usage", sync.slot) \in Request
    BY <2>1, FreshRequestType DEF Endpoints, Cost
  <2>3. /\ Call("api_usage", sync.slot).fixed
        /\ Call("api_usage", sync.slot).key = sync.slot
    BY <2>1 DEF Call, NoRequest, Keys
  <2> QED
    BY <1>2, <2>1, <2>2, <2>3 DEF SyncAsk
<1>3. CASE SyncRead
  <2>1. Adopt(bucket, sync.slot, req.report) \in [Keys -> Bucket]
    BY <1>3, SpendType DEF SyncRead, Request
  <2> QED
    BY <1>3, <2>1, FreshRequestType DEF SyncRead, NoRequest
<1>4. CASE SyncRetry
  <2>1. sync.slot \in Keys
    BY <1>4 DEF SyncRetry
  <2>2. Call("api_usage", sync.slot) \in Request
    BY <2>1, FreshRequestType DEF Endpoints, Cost
  <2>3. /\ Call("api_usage", sync.slot).fixed
        /\ Call("api_usage", sync.slot).key = sync.slot
    BY <2>1 DEF Call, NoRequest, Keys
  <2> QED
    BY <1>4, <2>1, <2>2, <2>3 DEF SyncRetry
<1>5. CASE SyncExclude
  BY <1>5, FreshRequestType DEF SyncExclude, NoRequest
<1>6. CASE SyncEnd
  BY <1>6, RefreshDayType DEF SyncEnd
<1> QED
  BY <1>1, <1>2, <1>3, <1>4, <1>5, <1>6 DEF SyncStep

\* Starting an invocation, and the steps of its phases
LEMMA PhaseType ==
    ASSUME TypeInv, RunStart \/ StartCatalog \/ PhaseStep
    PROVE  TypeInv'
<1> USE DEF TypeInv, TypeOK, Placed, vars, envVars, memVars, ctlVars, histVars, Places, Phases
<1>0. RefreshDay(bucket) \in [Keys -> Bucket] /\ RefreshDay(disk.bucket) \in [Keys -> Bucket]
  BY RefreshDayType
<1>1. CASE RunStart
  <2> PICK id \in {run, run + 1} \cap (1..MaxRun), first \in {"core", "rotation"}, s \in BOOLEAN :
        StartRun(id, first, s)
    BY <1>1 DEF RunStart
  <2>1. capUsed' \in Nat /\ runBilled' \in Nat /\ run' \in Nat
    BY DEF StartRun
  <2>2. synced' \in BOOLEAN /\ crashed' \in BOOLEAN /\ verified' \in SUBSET Keys
    BY DEF StartRun
  <2>3. pc' \in {"sync", "begin"} /\ phase' \in {"core", "rotation"}
    BY DEF StartRun
  <2>4. sync' \in [slot : Nat \ {0}, attempt : 1..UsageSyncAttempts]
    BY DEF StartRun
  <2>5. req = NoRequest
    BY DEF StartRun
  <2> QED
    BY <1>0, <2>1, <2>2, <2>3, <2>4, <2>5, FreshRequestType DEF StartRun
<1>2. CASE StartCatalog
  BY <1>0, <1>2, FreshRequestType DEF StartCatalog
<1>3. CASE BeginPhase
  <2>1. disk' \in [bucket : [Keys -> Bucket], run : Nat, used : Nat]
    BY <1>3 DEF BeginPhase, SaveState
  <2> QED
    BY <1>3, <2>1 DEF BeginPhase
<1>4. CASE NextLoop
  BY <1>4 DEF NextLoop
<1>5. CASE FinishRun \/ Interrupt
  <2>1. disk' \in [bucket : [Keys -> Bucket], run : Nat, used : Nat]
    BY <1>0, <1>5 DEF FinishRun, Interrupt
  <2>2. crashed' \in BOOLEAN /\ Gone /\ envVars' = envVars
    BY <1>5 DEF FinishRun, Interrupt
  <2> QED
    BY <2>1, <2>2, GoneType
<1>6. CASE FinishCatalog
  BY <1>6, GoneType DEF FinishCatalog
<1> QED
  BY <1>1, <1>2, <1>3, <1>4, <1>5, <1>6 DEF PhaseStep

\* Starting and ending the calls of a symbol
LEMMA SymbolType == ASSUME TypeInv, SymbolStep PROVE TypeInv'
<1> USE DEF TypeInv, TypeOK, Placed, vars, envVars, memVars, ctlVars, histVars, Places, Phases
<1>0. RefreshDay(bucket) \in [Keys -> Bucket]
  BY RefreshDayType
<1>a. \A e \in {"time_series", "catalog"} :
         /\ Call(e, 0) \in Request /\ ~Call(e, 0).fixed
         /\ Call(e, 0).endpoint = e
  <2>1. \A e \in {"time_series", "catalog"} : Call(e, 0) \in Request
    BY FreshRequestType DEF Endpoints, Cost
  <2>2. \A e : ~Call(e, 0).fixed /\ Call(e, 0).endpoint = e
    BY DEF Call, NoRequest
  <2> QED
    BY <2>1, <2>2
<1>b. NoRequest \in Request /\ ~NoRequest.fixed /\ NoRequest.endpoint = "catalog"
  BY FreshRequestType
<1>1. CASE StartCoreSymbol
  BY <1>0, <1>1, <1>a DEF StartCoreSymbol
<1>2. CASE CoreBudgetGone
  BY <1>0, <1>2 DEF CoreBudgetGone
<1>3. CASE StartOneCall
  BY <1>3, <1>a DEF StartOneCall
<1>4. CASE StartCatalogCall
  BY <1>4, <1>a DEF StartCatalogCall
<1>5. CASE SecondCall
  BY <1>5, <1>a DEF SecondCall
<1>6. CASE SymbolDone
  <2>1. handled' \in 0..(SaveEvery - 1)
    BY <1>6 DEF SymbolDone
  <2>2. disk' \in [bucket : [Keys -> Bucket], run : Nat, used : Nat]
    BY <1>6 DEF SymbolDone, SaveState
  <2> QED
    BY <1>6, <1>b, <2>1, <2>2 DEF SymbolDone
<1>7. CASE SymbolExhausted
  BY <1>7, <1>b DEF SymbolExhausted
<1>8. CASE CatalogDone
  BY <1>8, <1>b DEF CatalogDone
<1> QED
  BY <1>1, <1>2, <1>3, <1>4, <1>5, <1>6, <1>7, <1>8 DEF SymbolStep

\* What an answer charges to the key and to the cap (_charge)
LEMMA ChargeType ==
    ASSUME TypeInv, pc = "wait"
    PROVE  /\ req.key \in Keys /\ req.uncertain \in Nat
           /\ \A n \in Nat : /\ Spend(bucket, req.key, n) \in [Keys -> Bucket]
                             /\ Exhaust(Spend(bucket, req.key, n), req.key) \in [Keys -> Bucket]
                             /\ capUsed + n \in Nat
           /\ ReqCost * req.uncertain \in Nat
           /\ ReqCost * req.uncertain + ReqCost \in Nat
           /\ ReqCost * (req.uncertain + 1) \in Nat
<1>1. req.key \in Keys /\ req.uncertain \in Nat
  BY DEF TypeInv, TypeOK, Placed, Request
<1>2. bucket \in [Keys -> Bucket] /\ capUsed \in Nat
  BY DEF TypeInv, TypeOK
<1>3. \A n \in Nat : Spend(bucket, req.key, n) \in [Keys -> Bucket]
  BY <1>1, <1>2, SpendType
<1>4. \A n \in Nat : Exhaust(Spend(bucket, req.key, n), req.key) \in [Keys -> Bucket]
  BY <1>1, <1>3, SpendType
<1>5. ReqCost \in Nat /\ ReqCost * req.uncertain \in Nat /\ ReqCost * (req.uncertain + 1) \in Nat
  <2>1. \A n \in Nat : ReqCost * n \in Nat
    BY CostOfCall DEF TypeInv
  <2> QED
    BY <1>1, <2>1, CostOfCall DEF TypeInv
<1> QED
  BY <1>1, <1>2, <1>3, <1>4, <1>5

\* What the provider bills keeps the types of the counters
LEMMA BillType ==
    ASSUME TypeInv, pc = "wait", NEW n \in {0, ReqCost}, Bill(n)
    PROVE  /\ billed' \in [Keys -> Nat] /\ runBilled' \in Nat
           /\ n \in Nat /\ runBilled' = runBilled + n
           /\ UNCHANGED <<today, verified, synced, startDay, syncDay, crashed>>
BY ChargeType, CostOfCall DEF Bill, TypeInv, TypeOK

\* A call whose loop has written one of its fields is a call: the attempt number,
\* the lost attempts, the key, the retries, the result, the report
SameCall(q, r) == q \in Request /\ q.fixed = r.fixed /\ q.endpoint = r.endpoint

LEMMA AttemptField ==
    ASSUME NEW r \in Request, NEW a \in 1..NetworkAttempts
    PROVE  /\ SameCall([r EXCEPT !.attempt = a], r)
           /\ [r EXCEPT !.attempt = a].key = r.key /\ [r EXCEPT !.attempt = a].attempt = a
BY DEF Request, SameCall

LEMMA UncertainField ==
    ASSUME NEW r \in Request, NEW u \in 0..NetworkAttempts
    PROVE  /\ SameCall([r EXCEPT !.uncertain = u], r)
           /\ [r EXCEPT !.uncertain = u].key = r.key
           /\ [r EXCEPT !.uncertain = u].attempt = r.attempt
           /\ [r EXCEPT !.uncertain = u].uncertain = u
BY DEF Request, SameCall

LEMMA KeyField ==
    ASSUME NEW r \in Request, NEW k \in Keys \cup {0}
    PROVE  /\ SameCall([r EXCEPT !.key = k], r) /\ [r EXCEPT !.key = k].key = k
           /\ [r EXCEPT !.key = k].retries = r.retries
BY DEF Request, SameCall

LEMMA RetriesField ==
    ASSUME NEW r \in Request, NEW n \in 0..RateLimitRetries
    PROVE  /\ SameCall([r EXCEPT !.retries = n], r) /\ [r EXCEPT !.retries = n].key = r.key
           /\ [r EXCEPT !.retries = n].retries = n
BY DEF Request, SameCall

LEMMA ResultField ==
    ASSUME NEW r \in Request, NEW x \in Results
    PROVE  SameCall([r EXCEPT !.result = x], r) /\ [r EXCEPT !.result = x].key = r.key
BY DEF Request, SameCall

LEMMA ReportField ==
    ASSUME NEW r \in Request, NEW n \in Nat
    PROVE  SameCall([r EXCEPT !.report = n], r) /\ [r EXCEPT !.report = n].key = r.key
BY DEF Request, SameCall

\* The loop starts a new round of attempts, or counts a lost one
LEMMA RoundType ==
    ASSUME NEW r \in Request, NEW a \in 1..NetworkAttempts, NEW u \in 0..NetworkAttempts
    PROVE  /\ SameCall(Round(r, a, u), r) /\ Round(r, a, u).key = r.key
           /\ Round(r, a, u).attempt = a /\ Round(r, a, u).uncertain = u
<1> DEFINE r1 == [r EXCEPT !.attempt = a]
<1>1. Round(r, a, u) = [r1 EXCEPT !.uncertain = u]
  BY DEF Round
<1>2. SameCall(r1, r) /\ r1 \in Request /\ r1.key = r.key /\ r1.attempt = a
  BY AttemptField DEF SameCall
<1> HIDE DEF r1
<1>3. /\ SameCall([r1 EXCEPT !.uncertain = u], r1)
      /\ [r1 EXCEPT !.uncertain = u].key = r1.key
      /\ [r1 EXCEPT !.uncertain = u].attempt = r1.attempt
      /\ [r1 EXCEPT !.uncertain = u].uncertain = u
  BY <1>2, UncertainField, Zenon
<1> QED
  BY <1>1, <1>2, <1>3, Zenon DEF SameCall

\* The call after a key was found for it
LEMMA PickKeyRequest ==
    ASSUME TypeInv, PickKey
    PROVE  SameCall(req', req) /\ req'.key \in Keys /\ req'.uncertain = 0 /\ req'.attempt = 1
<1>0. /\ req \in Request /\ 1 \in 1..NetworkAttempts /\ 0 \in 0..NetworkAttempts
  BY DEF TypeInv, TypeOK
<1>1. CASE req.fixed
  <2>1. req' = Round(req, 1, 0) /\ req.key \in Keys
    BY <1>1 DEF PickKey, TypeInv, Placed
  <2> QED
    BY <1>0, <2>1, RoundType
<1>2. CASE ~req.fixed
  <2>0. PICK k \in Payers(bucket', ReqCost) : req' = Round([req EXCEPT !.key = k], 1, 0)
    BY <1>2 DEF PickKey
  <2>1. k \in Keys /\ k \in Keys \cup {0}
    BY DEF Payers, TypeInv, TypeOK
  <2> DEFINE r1 == [req EXCEPT !.key = k]
  <2>2. SameCall(r1, req) /\ r1.key = k
    BY <1>0, <2>1, KeyField
  <2> HIDE DEF r1
  <2>3. req' = Round(r1, 1, 0)
    BY <2>0 DEF r1
  <2> QED
    BY <1>0, <2>1, <2>2, <2>3, RoundType DEF SameCall
<1> QED
  BY <1>1, <1>2

\* Every step of request() keeps the types
LEMMA RequestType == ASSUME TypeInv, RequestStep PROVE TypeInv'
<1> USE DEF vars, envVars, memVars, ctlVars, histVars, Places, Phases
<1>0. RefreshDay(bucket) \in [Keys -> Bucket]
  BY RefreshDayType DEF TypeInv, TypeOK
<1>a. /\ req \in Request /\ 1 \in 1..NetworkAttempts /\ 0 \in 0..NetworkAttempts
      /\ 0 \in Keys \cup {0} /\ {"ok", "unreadable", "error", "exhausted"} \subseteq Results
  BY DEF TypeInv, TypeOK, Results
<1>1. CASE PickKey
  <2>1. bucket' \in [Keys -> Bucket]
    BY <1>0, <1>1 DEF PickKey, TypeInv, TypeOK
  <2>2. SameCall(req', req) /\ req'.key \in Keys /\ req'.uncertain = 0 /\ req'.attempt = 1
    BY <1>1, PickKeyRequest
  <2> QED
    BY <1>1, <2>1, <2>2 DEF PickKey, TypeInv, TypeOK, Placed, SameCall
<1>2. CASE NothingCanPay
  <2>1. SameCall(req', req) /\ req'.key = req.key
    BY <1>2, <1>a, ResultField DEF NothingCanPay, Return
  <2> QED
    BY <1>0, <1>2, <2>1 DEF NothingCanPay, Return, TypeInv, TypeOK, Placed, SameCall
<1>3. CASE AttemptLost
  <2>1. /\ SameCall(req', req) /\ req'.key = req.key /\ req'.uncertain = req'.attempt - 1
    <3>1. /\ req.attempt + 1 \in 1..NetworkAttempts
          /\ req.uncertain + 1 \in 0..NetworkAttempts /\ req.uncertain = req.attempt - 1
      BY <1>3 DEF AttemptLost, TypeInv, TypeOK, Placed, Request
    <3>2. req' = Round(req, req.attempt + 1, req.uncertain + 1)
      BY <1>3 DEF AttemptLost
    <3>3. /\ SameCall(req', req) /\ req'.key = req.key
          /\ req'.attempt = req.attempt + 1 /\ req'.uncertain = req.uncertain + 1
      BY <1>a, <3>1, <3>2, RoundType
    <3> QED
      BY <1>a, <3>1, <3>3 DEF Request
  <2>2. /\ billed' \in [Keys -> Nat] /\ runBilled' \in Nat
        /\ UNCHANGED <<today, verified, synced, startDay, syncDay, crashed>>
    BY <1>3, BillType DEF AttemptLost
  <2> QED
    BY <1>3, <2>1, <2>2 DEF AttemptLost, TypeInv, TypeOK, Placed, SameCall
<1>4. CASE RequestLost \/ AnswerRejected
  <2>1. SameCall(req', req) /\ req'.key = req.key /\ pc' = "returned"
    BY <1>4, <1>a, ResultField DEF RequestLost, AnswerRejected, Return
  <2>2. /\ billed' \in [Keys -> Nat] /\ runBilled' \in Nat
        /\ UNCHANGED <<today, verified, synced, startDay, syncDay, crashed>>
    BY <1>4, BillType DEF RequestLost, AnswerRejected
  <2>3. bucket' \in [Keys -> Bucket] /\ capUsed' \in Nat
    BY <1>4, ChargeType DEF RequestLost, AnswerRejected, Charge
  <2>4. UNCHANGED <<disk, active, run, phase, sync, need, handled>>
    BY <1>4 DEF RequestLost, AnswerRejected
  <2> QED
    BY <2>1, <2>2, <2>3, <2>4 DEF TypeInv, TypeOK, Placed, SameCall
<1>5. CASE AnswerOk
  <2>0. ReqCost \in {0, ReqCost} /\ Bill(ReqCost) /\ pc = "wait"
    BY <1>5 DEF AnswerOk
  <2>1. /\ billed' \in [Keys -> Nat] /\ runBilled' \in Nat
        /\ UNCHANGED <<today, verified, synced, startDay, syncDay, crashed>>
    BY <2>0, BillType
  <2>2. billed'[req.key] \in Nat
    BY <2>0, <2>1, ChargeType
  <2>3. SameCall(req', req) /\ req'.key = req.key /\ pc' = "returned"
    <3>1. PICK r \in {"ok", "unreadable"} :
             req' = [req EXCEPT !.result = r,
                                !.report = IF req.fixed THEN billed'[req.key] ELSE 0]
      BY <1>5 DEF AnswerOk
    <3> DEFINE r1 == [req EXCEPT !.result = r]
               n  == IF req.fixed THEN billed'[req.key] ELSE 0
    <3>2. SameCall(r1, req) /\ r1 \in Request /\ r1.key = req.key
      BY <1>a, ResultField DEF SameCall
    <3>3. req' = [r1 EXCEPT !.report = n]
      BY <3>1
    <3>4. pc' = "returned"
      BY <1>5 DEF AnswerOk
    <3>5. n \in Nat
      BY <2>2
    <3> HIDE DEF r1, n
    <3>6. SameCall([r1 EXCEPT !.report = n], r1) /\ [r1 EXCEPT !.report = n].key = r1.key
      BY <3>2, <3>5, ReportField, Zenon
    <3> QED
      BY <3>2, <3>3, <3>4, <3>6, Zenon DEF SameCall
  <2>4. bucket' \in [Keys -> Bucket] /\ capUsed' \in Nat
    BY <1>5, ChargeType DEF AnswerOk, Charge
  <2>5. UNCHANGED <<disk, active, run, phase, sync, need, handled>>
    BY <1>5 DEF AnswerOk
  <2> QED
    BY <2>1, <2>3, <2>4, <2>5 DEF TypeInv, TypeOK, Placed, SameCall
<1>6. CASE AnswerDayLimit \/ AnswerMinuteLimit \/ AnswerForbidden
  <2>0. pc = "wait" /\ UNCHANGED <<envVars, disk, active, run, phase, sync, need, handled, histVars>>
    BY <1>6 DEF AnswerDayLimit, AnswerMinuteLimit, AnswerForbidden
  <2>1. bucket' \in [Keys -> Bucket] /\ capUsed' \in Nat
    BY <1>6, <2>0, ChargeType DEF AnswerDayLimit, AnswerMinuteLimit, AnswerForbidden, Charge
  <2>2. /\ SameCall(req', req)
        /\ req.fixed => req'.key = req.key
        /\ pc' \in {"pick", "returned"}
    <3>1. CASE AnswerDayLimit /\ ~req.fixed
      <4> DEFINE r1 == [req EXCEPT !.key = 0]
      <4>1. SameCall(r1, req)
        BY <1>a, KeyField
      <4>2. req' = Round(r1, 1, 0) /\ pc' = "pick"
        BY <3>1 DEF AnswerDayLimit
      <4> HIDE DEF r1
      <4> QED
        BY <1>a, <3>1, <4>1, <4>2, RoundType DEF SameCall
    <3>2. CASE AnswerMinuteLimit /\ req.retries < RateLimitRetries
      <4> DEFINE k  == IF req.fixed THEN req.key ELSE 0
                 r1 == [req EXCEPT !.retries = req.retries + 1]
                 r2 == [r1 EXCEPT !.key = k]
      <4>1. k \in Keys \cup {0} /\ req.retries + 1 \in 0..RateLimitRetries
        BY <1>a, <3>2 DEF Request
      <4>2. SameCall(r1, req) /\ r1 \in Request
        BY <1>a, <4>1, RetriesField DEF SameCall
      <4>3. req' = Round(r2, 1, 0) /\ pc' = "pick"
        BY <3>2 DEF AnswerMinuteLimit
      <4>4. req.fixed => k = req.key
        OBVIOUS
      <4> HIDE DEF r1, k
      <4>5. SameCall(r2, r1) /\ r2.key = k
        BY <4>1, <4>2, KeyField
      <4> HIDE DEF r2
      <4> QED
        BY <1>a, <4>2, <4>3, <4>4, <4>5, RoundType DEF SameCall
    <3>3. CASE Return("error")
      BY <1>a, <3>3, ResultField DEF Return
    <3> QED
      BY <1>6, <3>1, <3>2, <3>3 DEF AnswerDayLimit, AnswerMinuteLimit, AnswerForbidden
  <2> QED
    BY <2>0, <2>1, <2>2 DEF TypeInv, TypeOK, Placed, SameCall
<1> QED
  BY <1>1, <1>2, <1>3, <1>4, <1>5, <1>6 DEF RequestStep, Answer

\* Midnight, use of the keys by others, and a crash keep the types
LEMMA EnvironmentType == ASSUME TypeInv, Environment PROVE TypeInv'
<1> USE DEF vars, envVars, memVars, ctlVars, histVars
<1>1. CASE Midnight
  <2>1. billed' \in [Keys -> Nat] /\ today' \in Nat
    BY <1>1 DEF Midnight, TypeInv, TypeOK
  <2> QED
    BY <1>1, <2>1 DEF Midnight, TypeInv, TypeOK, Placed
<1>2. ASSUME NEW k \in Keys, ExternalUse(k) PROVE TypeInv'
  <2>1. billed' \in [Keys -> Nat]
    BY <1>2 DEF ExternalUse, TypeInv, TypeOK
  <2> QED
    BY <1>2, <2>1 DEF ExternalUse, TypeInv, TypeOK, Placed
<1>3. CASE Crash
  BY <1>3, GoneType DEF Crash, TypeInv, TypeOK
<1> QED
  BY <1>1, <1>2, <1>3 DEF Environment

\* Every step keeps the types
LEMMA TypeStep == TypeInv /\ [Next]_vars => TypeInv'
<1>1. ASSUME TypeInv, UNCHANGED vars PROVE TypeInv'
  BY <1>1 DEF TypeInv, TypeOK, Placed, vars, envVars, memVars, ctlVars, histVars
<1> QED
  BY <1>1, SyncType, PhaseType, SymbolType, RequestType, EnvironmentType DEF Next

\* Type correctness: every reachable state of the accounting is well typed, and
\* a call under way always has a configured key.
THEOREM TypeCorrect == Spec => []TypeOK
<1>1. TypeInv => TypeOK
  BY DEF TypeInv
<1> QED
  BY TypeInit, TypeStep, <1>1, PTL DEF Spec

(***************************************************************************)
(* The run cap                                                             *)
(***************************************************************************)

\* The bound alone is not inductive: a call under way must have found room for
\* its own cost, which is what request() checks before each round of attempts.
CapInv ==
    /\ CapOvershootBound
    /\ (pc = "wait" /\ phase # "catalog") => capUsed + ReqCost <= RunCap

\* What one round of attempts can charge: every attempt, or all but the last one
\* and the answer
LEMMA RoundCharge ==
    ASSUME TypeInv, pc = "wait",
           NEW n \in {ReqCost * (req.uncertain + 1), ReqCost * req.uncertain,
                      ReqCost * req.uncertain + ReqCost}
    PROVE  n \in Nat /\ (ReqCost = 0 => n = 0) /\ n <= NetworkAttempts
<1>1. /\ req.uncertain \in Nat /\ req.uncertain + 1 <= NetworkAttempts
  BY DEF TypeInv, TypeOK, Placed, Request
<1>2. CASE ReqCost = 0
  BY <1>1, <1>2
<1>3. CASE ReqCost = 1
  BY <1>1, <1>3
<1> QED
  BY <1>2, <1>3, CostOfCall DEF TypeInv

\* A step outside request() charges nothing: it keeps the cap's count, starts
\* from the saved one, or forgets it
LEMMA QuietSteps ==
    ASSUME TypeInv,
           RunStart \/ StartCatalog \/ SyncStep \/ PhaseStep \/ SymbolStep \/ Crash
    PROVE  /\ pc' # "wait"
           /\ capUsed' \in {capUsed, disk.used, 0}
           /\ disk'.used \in {capUsed, disk.used}
<1> USE DEF memVars, vars, TypeInv, TypeOK, Placed, SaveState
<1>1. CASE RunStart
  BY <1>1 DEF RunStart, StartRun
<1>2. CASE StartCatalog
  BY <1>2 DEF StartCatalog
<1>3. CASE SyncStep
  BY <1>3 DEF SyncStep, SyncSkip, SyncAsk, SyncRead, SyncRetry, SyncExclude, SyncEnd
<1>4. CASE PhaseStep
  BY <1>4 DEF PhaseStep, BeginPhase, NextLoop, FinishRun, FinishCatalog, Interrupt, Gone
<1>5. CASE SymbolStep
  BY <1>5 DEF SymbolStep, StartCoreSymbol, CoreBudgetGone, StartOneCall, StartCatalogCall,
              SecondCall, SymbolDone, SymbolExhausted, CatalogDone
<1>6. CASE Crash
  BY <1>6 DEF Crash, Gone
<1> QED
  BY <1>1, <1>2, <1>3, <1>4, <1>5, <1>6

LEMMA CapInit == Init => CapInv
BY DEF Init, CapInv, CapOvershootBound

LEMMA CapStep == TypeInv /\ CapInv /\ [Next]_vars => CapInv'
<1> SUFFICES ASSUME TypeInv, CapInv, [Next]_vars PROVE CapInv'
  OBVIOUS
<1> DEFINE Top == RunCap + NetworkAttempts - 1
<1>0. /\ capUsed \in Nat /\ disk.used \in Nat /\ ReqCost \in {0, 1}
      /\ capUsed <= Top /\ disk.used <= Top
  BY CostOfCall DEF TypeInv, TypeOK, CapInv, CapOvershootBound
<1>1. CASE RunStart \/ StartCatalog \/ SyncStep \/ PhaseStep \/ SymbolStep \/ Crash
  BY <1>0, <1>1, QuietSteps DEF CapInv, CapOvershootBound
<1>2. CASE PickKey
  BY <1>0, <1>2, PickKeyRequest DEF PickKey, CapAllows, CapInv, CapOvershootBound, ReqCost, SameCall
<1>3. CASE NothingCanPay
  BY <1>0, <1>3 DEF NothingCanPay, Return, CapInv, CapOvershootBound
<1>4. CASE AttemptLost
  BY <1>0, <1>4 DEF AttemptLost, memVars, CapInv, CapOvershootBound, ReqCost, Round
<1>5. CASE RequestLost \/ Answer
  <2>1. pc = "wait" /\ pc' # "wait" /\ UNCHANGED disk
    BY <1>5 DEF RequestLost, Answer, AnswerOk, AnswerDayLimit, AnswerMinuteLimit,
                AnswerForbidden, AnswerRejected, Return
  <2>2. PICK n \in {ReqCost * (req.uncertain + 1), ReqCost * req.uncertain,
                    ReqCost * req.uncertain + ReqCost} : capUsed' = capUsed + n
    BY <1>5 DEF RequestLost, Answer, AnswerOk, AnswerDayLimit, AnswerMinuteLimit,
                AnswerForbidden, AnswerRejected, Charge
  <2>3. n \in Nat /\ (ReqCost = 0 => n = 0) /\ n <= NetworkAttempts
    BY <2>1, RoundCharge
  <2>4. CASE ReqCost = 0
    BY <1>0, <2>1, <2>2, <2>3, <2>4 DEF CapInv, CapOvershootBound
  <2>5. CASE ReqCost = 1
    <3>1. phase # "catalog"
      BY <2>5 DEF TypeInv, Placed, ReqCost, Cost
    <3>2. capUsed + 1 <= RunCap
      BY <2>1, <2>5, <3>1 DEF CapInv
    <3> QED
      BY <1>0, <2>1, <2>2, <2>3, <3>2 DEF CapInv, CapOvershootBound
  <2> QED
    BY <1>0, <2>4, <2>5
<1>6. CASE Midnight \/ (\E k \in Keys : ExternalUse(k)) \/ UNCHANGED vars
  BY <1>0, <1>6 DEF Midnight, ExternalUse, vars, memVars, ctlVars, CapInv, CapOvershootBound, ReqCost
<1> QED
  BY <1>1, <1>2, <1>3, <1>4, <1>5, <1>6 DEF Next, RequestStep, Environment

\* A pipeline run never passes its credit cap by more than the lost attempts of
\* one call, whatever the number of keys, phases, crashes and resumed processes.
THEOREM CapBounded == Spec => []CapOvershootBound
<1>1. TypeInv /\ CapInv => CapOvershootBound
  BY DEF CapInv
<1> QED
  BY TypeInit, TypeStep, CapInit, CapStep, <1>1, PTL DEF Spec

(***************************************************************************)
(* Billing                                                                 *)
(***************************************************************************)

\* Between processes the saved count carries the promise: what a later process
\* with this run id resumes from covers what the provider billed to the run.
Resumable == IF disk.run = run THEN disk.used ELSE 0

BillInv ==
    /\ ChargesCoverBilling
    /\ ((pc = "idle" \/ phase = "catalog") /\ ~crashed) => runBilled <= Resumable

LEMMA BillInit == Init => BillInv
BY DEF Init, BillInv, ChargesCoverBilling, Resumable

\* Steps of the sync and of the symbols bill and charge nothing
LEMMA NoBilling ==
    ASSUME TypeInv, BillInv, SyncStep \/ SymbolStep
    PROVE  BillInv'
<1>1. UNCHANGED <<run, capUsed, runBilled, crashed>> /\ pc # "idle" /\ pc # "wait"
  BY DEF memVars, histVars, SyncStep, SyncSkip, SyncAsk, SyncRead, SyncRetry, SyncExclude,
         SyncEnd, SymbolStep, StartCoreSymbol, CoreBudgetGone, StartOneCall,
         StartCatalogCall, SecondCall, SymbolDone, SymbolExhausted, CatalogDone
<1>2. pc' # "idle" /\ pc' # "wait" /\ (phase' = "catalog" <=> phase = "catalog")
  BY DEF SyncStep, SyncSkip, SyncAsk, SyncRead, SyncRetry, SyncExclude,
         SyncEnd, SymbolStep, StartCoreSymbol, CoreBudgetGone, StartOneCall,
         StartCatalogCall, SecondCall, SymbolDone, SymbolExhausted, CatalogDone
<1>3. phase = "catalog" => UNCHANGED disk
  BY DEF TypeInv, Placed, SyncStep, SyncSkip, SyncAsk, SyncRead, SyncRetry, SyncExclude,
         SyncEnd, SymbolStep, StartCoreSymbol, CoreBudgetGone, StartOneCall,
         StartCatalogCall, SecondCall, SymbolDone, SymbolExhausted, CatalogDone
<1> QED
  BY <1>1, <1>2, <1>3 DEF BillInv, ChargesCoverBilling, InFlight, Resumable

LEMMA NothingInFlight ==
    ASSUME NEW b \in Nat, NEW c \in Nat, NEW f, b <= c, f = 0
    PROVE  b <= c + f
OBVIOUS

\* Steps of request() charge what they may have billed
LEMMA RequestBilling ==
    ASSUME TypeInv, BillInv, RequestStep
    PROVE  BillInv'
<1>0. /\ capUsed \in Nat /\ runBilled \in Nat /\ ReqCost \in {0, 1}
      /\ (phase = "catalog" => ReqCost = 0)
  BY CostOfCall DEF TypeInv, TypeOK, Placed, ReqCost, Cost
<1>a. UNCHANGED <<run, disk, phase, crashed>> /\ pc # "idle" /\ pc' # "idle"
  BY DEF memVars, histVars, RequestStep, PickKey, NothingCanPay, AttemptLost, RequestLost, Answer,
         AnswerOk, AnswerDayLimit, AnswerMinuteLimit, AnswerForbidden, AnswerRejected, Bill, Return
<1>1. CASE PickKey
  <2>1. runBilled' = runBilled /\ capUsed' = capUsed /\ pc = "pick" /\ InFlight = 0
    BY <1>1 DEF PickKey, histVars, InFlight
  <2>2. InFlight' = 0
    <3>1. req'.uncertain = 0 /\ req'.endpoint = req.endpoint
      BY <1>1, PickKeyRequest DEF SameCall
    <3>2. ReqCost' = ReqCost
      BY <3>1 DEF ReqCost
    <3> QED
      BY <1>0, <3>1, <3>2 DEF InFlight
  <2> QED
    BY <1>a, <2>1, <2>2 DEF BillInv, ChargesCoverBilling, Resumable
<1>2. CASE NothingCanPay
  <2>1. runBilled' = runBilled /\ capUsed' = capUsed /\ InFlight = 0 /\ InFlight' = 0
    BY <1>2 DEF NothingCanPay, Return, histVars, InFlight
  <2> QED
    BY <1>a, <2>1 DEF BillInv, ChargesCoverBilling, Resumable
<1>3. CASE AttemptLost
  <2>0. pc = "wait" /\ pc' = "wait" /\ capUsed' = capUsed
    BY <1>3 DEF AttemptLost, memVars
  <2>1. PICK n \in {0, ReqCost} : runBilled' = runBilled + n
    BY <1>3, BillType DEF AttemptLost
  <2>2. InFlight' = InFlight + ReqCost /\ InFlight \in Nat
    <3>1. /\ req \in Request /\ req.attempt + 1 \in 1..NetworkAttempts
          /\ req.uncertain + 1 \in 0..NetworkAttempts /\ req.uncertain \in Nat
      BY <1>3 DEF AttemptLost, TypeInv, TypeOK, Placed, Request
    <3>2. req'.uncertain = req.uncertain + 1 /\ req'.endpoint = req.endpoint
      BY <1>3, <3>1, RoundType DEF AttemptLost, SameCall
    <3>3. ReqCost' = ReqCost
      BY <3>2 DEF ReqCost
    <3>4. CASE ReqCost = 0
      BY <2>0, <3>1, <3>2, <3>3, <3>4 DEF InFlight
    <3>5. CASE ReqCost = 1
      BY <2>0, <3>1, <3>2, <3>3, <3>5 DEF InFlight
    <3> QED
      BY <1>0, <3>4, <3>5
  <2> QED
    BY <1>0, <1>a, <2>0, <2>1, <2>2 DEF BillInv, ChargesCoverBilling, Resumable
<1>4. CASE RequestLost \/ Answer
  <2>0. pc = "wait" /\ pc' # "wait"
    BY <1>4 DEF RequestLost, Answer, AnswerOk, AnswerDayLimit, AnswerMinuteLimit,
                AnswerForbidden, AnswerRejected, Return
  <2>1. InFlight = ReqCost * req.uncertain /\ InFlight' = 0 /\ InFlight \in Nat
        /\ ReqCost * (req.uncertain + 1) = InFlight + ReqCost
    BY <1>0, <2>0, ChargeType DEF InFlight
  <2>2. PICK n \in {0, ReqCost} : /\ runBilled' = runBilled + n
                                  /\ capUsed' >= capUsed + InFlight + n
    <3>1. CASE RequestLost
      <4>1. PICK n \in {0, ReqCost} : Bill(n)
        BY <3>1 DEF RequestLost
      <4>2. capUsed' = capUsed + InFlight + ReqCost
        BY <1>0, <2>1, <3>1 DEF RequestLost, Charge
      <4> QED
        BY <1>0, <2>0, <2>1, <4>1, <4>2, BillType
    <3>2. CASE AnswerOk \/ AnswerRejected
      <4>1. PICK n \in {0, ReqCost} : Bill(n)
        BY <3>2 DEF AnswerOk, AnswerRejected
      <4>2. capUsed' = capUsed + InFlight + ReqCost
        BY <1>0, <2>1, <3>2 DEF AnswerOk, AnswerRejected, Charge
      <4> QED
        BY <1>0, <2>0, <2>1, <4>1, <4>2, BillType
    <3>3. CASE AnswerDayLimit \/ AnswerMinuteLimit \/ AnswerForbidden
      <4>1. capUsed' = capUsed + InFlight /\ runBilled' = runBilled
        BY <2>1, <3>3 DEF AnswerDayLimit, AnswerMinuteLimit, AnswerForbidden, Charge, histVars
      <4> QED
        BY <1>0, <2>1, <4>1
    <3> QED
      BY <1>4, <3>1, <3>2, <3>3 DEF Answer
  <2>3. capUsed' \in Nat
    BY RequestType DEF TypeInv, TypeOK
  <2>4. CASE phase = "catalog"
    BY <1>0, <1>a, <2>2, <2>4 DEF BillInv, ChargesCoverBilling, Resumable
  <2>5. CASE phase # "catalog"
    <3>1. InFlight \in Nat /\ n \in Nat /\ InFlight' = 0 /\ runBilled' \in Nat
      BY <1>0, <2>1, <2>2
    <3>2. CASE crashed
      BY <1>a, <2>5, <3>2 DEF BillInv, ChargesCoverBilling
    <3>3. CASE ~crashed
      <4>1. runBilled <= capUsed + InFlight
        BY <1>a, <2>5, <3>3 DEF BillInv, ChargesCoverBilling
      <4>2. runBilled' <= capUsed'
        BY <1>0, <2>2, <2>3, <3>1, <4>1
      <4>3. runBilled' <= capUsed' + InFlight'
        BY <2>3, <3>1, <4>2, NothingInFlight
      <4>4. ChargesCoverBilling'
        BY <4>3, Zenon DEF ChargesCoverBilling
      <4> QED
        BY <1>a, <2>5, <4>4 DEF BillInv
    <3> QED
      BY <3>2, <3>3
  <2> QED
    BY <2>4, <2>5
<1> QED
  BY <1>1, <1>2, <1>3, <1>4 DEF RequestStep

\* A new invocation resumes the saved count, a process that ends cleanly saves
\* its own, and one that is killed is excused
LEMMA ProcessBilling ==
    ASSUME TypeInv, BillInv, RunStart \/ StartCatalog \/ PhaseStep \/ Crash
    PROVE  BillInv'
<1>0. capUsed \in Nat /\ runBilled \in Nat /\ disk.used \in Nat /\ run \in Nat
  BY DEF TypeInv, TypeOK
<1>1. CASE RunStart
  <2>1. PICK id \in {run, run + 1} \cap (1..MaxRun), first \in {"core", "rotation"}, s \in BOOLEAN :
          StartRun(id, first, s)
    BY <1>1 DEF RunStart
  <2>2. /\ pc = "idle" /\ pc' \in {"sync", "begin"} /\ phase' # "catalog" /\ run' = id
        /\ capUsed' = IF disk.run = id THEN disk.used ELSE 0
        /\ runBilled' = IF id = run THEN runBilled ELSE 0
        /\ crashed' = (id = run /\ crashed)
    BY <2>1 DEF StartRun
  <2>3. InFlight' = 0
    BY <2>2 DEF InFlight
  <2>4. capUsed' \in Nat /\ runBilled' \in Nat
    BY <1>0, <2>2
  <2>5. CASE id = run
    <3>1. ASSUME ~crashed PROVE runBilled' <= capUsed'
      <4>1. runBilled <= Resumable
        BY <2>2, <3>1 DEF BillInv
      <4> QED
        BY <1>0, <2>2, <2>5, <4>1 DEF Resumable
    <3>2. crashed' <=> crashed
      BY <2>2, <2>5
    <3> QED
      BY <2>2, <2>3, <2>4, <3>1, <3>2 DEF BillInv, ChargesCoverBilling
  <2>6. CASE id # run
    <3>1. runBilled' = 0
      BY <2>2, <2>6
    <3> QED
      BY <2>2, <2>3, <2>4, <3>1 DEF BillInv, ChargesCoverBilling
  <2> QED
    BY <2>5, <2>6
<1>2. CASE StartCatalog
  BY <1>2 DEF StartCatalog, histVars, BillInv, ChargesCoverBilling, Resumable
<1>3. CASE BeginPhase \/ NextLoop
  BY <1>3 DEF BeginPhase, NextLoop, memVars, histVars, SaveState, BillInv, ChargesCoverBilling,
              InFlight, TypeInv, Placed
<1>4. CASE FinishRun
  <2>1. pc \in {"ready", "end"} /\ phase # "catalog"
    BY <1>4 DEF FinishRun, TypeInv, Placed
  <2>2. /\ pc' = "idle" /\ disk'.run = run /\ disk'.used = capUsed /\ crashed' = crashed
        /\ UNCHANGED <<run, runBilled>>
    BY <1>4 DEF FinishRun, Gone
  <2> QED
    BY <1>0, <2>1, <2>2 DEF BillInv, ChargesCoverBilling, Resumable, InFlight
<1>5. CASE FinishCatalog
  BY <1>5 DEF FinishCatalog, Gone, BillInv, ChargesCoverBilling, Resumable
<1>6. CASE Interrupt
  BY <1>6 DEF Interrupt, Gone, BillInv, ChargesCoverBilling
<1>7. CASE Crash
  BY <1>7 DEF Crash, Gone, BillInv, ChargesCoverBilling, Resumable
<1> QED
  BY <1>1, <1>2, <1>3, <1>4, <1>5, <1>6, <1>7 DEF PhaseStep

LEMMA BillStep == TypeInv /\ BillInv /\ [Next]_vars => BillInv'
<1>1. ASSUME TypeInv, BillInv,
             Midnight \/ (\E k \in Keys : ExternalUse(k)) \/ UNCHANGED vars
      PROVE  BillInv'
  <2>1. UNCHANGED <<disk, run, capUsed, runBilled, crashed, pc, phase, req>>
    BY <1>1 DEF Midnight, ExternalUse, vars, memVars, ctlVars, histVars
  <2> QED
    BY <1>1, <2>1 DEF BillInv, ChargesCoverBilling, Resumable, InFlight, ReqCost
<1> QED
  BY <1>1, NoBilling, RequestBilling, ProcessBilling DEF Next, Environment

\* Unless one of its processes was killed, a run has counted every credit the
\* provider billed to it: a lost answer is charged as if it had been billed.
THEOREM BillingCovered == Spec => []ChargesCoverBilling
<1>1. BillInv => ChargesCoverBilling
  BY DEF BillInv
<1> QED
  BY TypeInit, TypeStep, BillInit, BillStep, <1>1, PTL DEF Spec

(***************************************************************************)
(* What one step of request() does to the two counts of a key              *)
(***************************************************************************)

\* A new round of attempts leaves the pauses already taken alone (_get inside
\* the loop of request)
LEMMA RoundRetries ==
    ASSUME NEW r \in Request, NEW a \in 1..NetworkAttempts, NEW u \in 0..NetworkAttempts
    PROVE  Round(r, a, u).retries = r.retries
BY DEF Round, Request

\* The local count after a spend and after the daily-limit answer
LEMMA SpendCount ==
    ASSUME NEW b \in [Keys -> Bucket], NEW k \in Keys, NEW n \in Nat
    PROVE  /\ Spend(b, k, n)[k].date = b[k].date
           /\ Spend(b, k, n)[k].used = b[k].used + n
           /\ \A j \in Keys \ {k} : Spend(b, k, n)[j] = b[j]
BY DEF Spend, Bucket

LEMMA ExhaustCount ==
    ASSUME NEW b \in [Keys -> Bucket], NEW k \in Keys
    PROVE  /\ Exhaust(b, k)[k].date = b[k].date
           /\ Exhaust(b, k)[k].used >= b[k].used
           /\ \A j \in Keys \ {k} : Exhaust(b, k)[j] = b[j]
BY DEF Exhaust, Bucket

LEMMA AdoptCount ==
    ASSUME NEW b \in [Keys -> Bucket], NEW k \in Keys, NEW n \in Nat
    PROVE  /\ Adopt(b, k, n)[k].date = b[k].date
           /\ Adopt(b, k, n)[k].used >= b[k].used
           /\ Adopt(b, k, n)[k].used >= n
           /\ \A j \in Keys \ {k} : Adopt(b, k, n)[j] = b[j]
BY DEF Adopt, Bucket

\* A refreshed bucket: the same one on its own day, an empty one otherwise
LEMMA RefreshCount ==
    ASSUME NEW b \in [Keys -> Bucket], NEW k \in Keys
    PROVE  /\ RefreshDay(b)[k].date = today
           /\ b[k].date = today => RefreshDay(b)[k] = b[k]
           /\ b[k].date # today => RefreshDay(b)[k].used = 0
BY DEF RefreshDay, Refreshed, Bucket

\* The calls that wait for an answer: the provider bills n credits to the key of
\* the call, and once the call stops waiting its key was charged for them.
WaitStep == AttemptLost \/ RequestLost \/ Answer

Counted(n) ==
    /\ billed'[req.key] = billed[req.key] + n
    /\ bucket'[req.key].date = bucket[req.key].date
    /\ \A k \in Keys \ {req.key} : billed'[k] = billed[k] /\ bucket'[k] = bucket[k]
    /\ pc' = "wait" => /\ bucket' = bucket /\ req'.key = req.key
                       /\ req'.uncertain = req.uncertain + 1
                       /\ req'.retries = req.retries
    /\ pc' # "wait" => bucket'[req.key].used >= bucket[req.key].used + InFlight + n
    /\ pc' = "pick" => n = 0 /\ (req.fixed => req'.retries = req.retries + 1)

LEMMA WaitCount ==
    ASSUME TypeInv, WaitStep
    PROVE  /\ pc = "wait" /\ pc' \in {"wait", "pick", "returned"}
           /\ \E n \in {0, ReqCost} : Counted(n)
<1>0. /\ pc = "wait" /\ req.key \in Keys /\ req \in Request
      /\ bucket \in [Keys -> Bucket] /\ billed \in [Keys -> Nat] /\ capUsed \in Nat
      /\ ReqCost \in {0, 1} /\ InFlight \in Nat /\ InFlight = ReqCost * req.uncertain
      /\ ReqCost * (req.uncertain + 1) = InFlight + ReqCost
  <2>1. pc = "wait"
    BY DEF WaitStep, AttemptLost, RequestLost, Answer, AnswerOk, AnswerDayLimit, AnswerMinuteLimit,
           AnswerForbidden, AnswerRejected
  <2>2. ReqCost \in {0, 1}
    BY CostOfCall DEF TypeInv
  <2> QED
    BY <2>1, <2>2, ChargeType DEF TypeInv, TypeOK, InFlight
<1>a. /\ \A k \in Keys : bucket[k].used \in Nat
      /\ \A n \in {0, ReqCost} : Bill(n) =>
            /\ billed'[req.key] = billed[req.key] + n
            /\ \A k \in Keys \ {req.key} : billed'[k] = billed[k]
  BY <1>0 DEF Bill, Bucket
<1>1. CASE AttemptLost
  <2>1. /\ req.attempt + 1 \in 1..NetworkAttempts /\ req.uncertain + 1 \in 0..NetworkAttempts
    BY <1>1 DEF AttemptLost, TypeInv, TypeOK, Placed, Request
  <2>2. /\ req'.key = req.key /\ req'.uncertain = req.uncertain + 1 /\ req'.retries = req.retries
        /\ bucket' = bucket /\ pc' = "wait"
    BY <1>0, <1>1, <2>1, RoundType, RoundRetries DEF AttemptLost, memVars
  <2>3. PICK n \in {0, ReqCost} : Bill(n)
    BY <1>1 DEF AttemptLost
  <2>4. Counted(n)
    BY <1>a, <2>2, <2>3 DEF Counted
  <2> QED
    BY <1>0, <2>2, <2>4
<1>2. CASE RequestLost \/ AnswerOk \/ AnswerRejected
  <2>1. PICK n \in {0, ReqCost} : Bill(n)
    BY <1>2 DEF RequestLost, AnswerOk, AnswerRejected
  <2>2. bucket' = Spend(bucket, req.key, InFlight + ReqCost) /\ pc' = "returned"
    BY <1>0, <1>2 DEF RequestLost, AnswerOk, AnswerRejected, Charge, Return
  <2>3. /\ bucket'[req.key].date = bucket[req.key].date
        /\ bucket'[req.key].used = bucket[req.key].used + (InFlight + ReqCost)
        /\ \A k \in Keys \ {req.key} : bucket'[k] = bucket[k]
    <3>1. InFlight + ReqCost \in Nat
      BY <1>0
    <3> QED
      BY <1>0, <2>2, <3>1, SpendCount
  <2>4. Counted(n)
    BY <1>0, <1>a, <2>1, <2>2, <2>3 DEF Counted
  <2> QED
    BY <1>0, <2>2, <2>4
<1>3. CASE AnswerDayLimit
  <2>1. billed' = billed /\ bucket' = Exhaust(Spend(bucket, req.key, InFlight), req.key)
    BY <1>0, <1>3 DEF AnswerDayLimit, envVars
  <2> DEFINE b1 == Spend(bucket, req.key, InFlight)
  <2>2. /\ b1 \in [Keys -> Bucket] /\ b1[req.key].date = bucket[req.key].date
        /\ b1[req.key].used = bucket[req.key].used + InFlight
        /\ \A k \in Keys \ {req.key} : b1[k] = bucket[k]
    BY <1>0, SpendType, SpendCount
  <2>b. bucket' = Exhaust(b1, req.key)
    BY <2>1
  <2> HIDE DEF b1
  <2>3. bucket'[req.key].used \in Nat
    <3>1. TypeInv'
      BY <1>3, RequestType DEF RequestStep, Answer
    <3>2. bucket' \in [Keys -> Bucket]
      BY <3>1 DEF TypeInv, TypeOK
    <3> QED
      BY <1>0, <3>2 DEF Bucket
  <2>4. /\ bucket'[req.key].date = bucket[req.key].date
        /\ bucket'[req.key].used >= bucket[req.key].used + InFlight
        /\ \A k \in Keys \ {req.key} : bucket'[k] = bucket[k]
    BY <1>0, <2>b, <2>2, ExhaustCount
  <2>5. pc' \in {"pick", "returned"} /\ (req.fixed => pc' = "returned")
    BY <1>3 DEF AnswerDayLimit, Return
  <2>6. Counted(0)
    BY <1>0, <1>a, <2>1, <2>3, <2>4, <2>5 DEF Counted
  <2> QED
    BY <1>0, <2>5, <2>6
<1>4. CASE AnswerMinuteLimit \/ AnswerForbidden
  <2>1. billed' = billed /\ bucket' = Spend(bucket, req.key, InFlight)
    BY <1>0, <1>4 DEF AnswerMinuteLimit, AnswerForbidden, Charge, envVars
  <2>2. pc' \in {"pick", "returned"}
    BY <1>4 DEF AnswerMinuteLimit, AnswerForbidden, Return
  <2>3. ASSUME pc' = "pick" PROVE req'.retries = req.retries + 1
    <3>1. /\ AnswerMinuteLimit /\ req.retries < RateLimitRetries
      BY <1>4, <2>3 DEF AnswerMinuteLimit, AnswerForbidden, Return
    <3> DEFINE k  == IF req.fixed THEN req.key ELSE 0
               r0 == [req EXCEPT !.retries = req.retries + 1]
               r1 == [r0 EXCEPT !.key = k]
    <3>a. k \in Keys \cup {0} /\ req.retries + 1 \in 0..RateLimitRetries
      <4>1. req.retries \in 0..RateLimitRetries /\ req.key \in Keys
        BY <1>0 DEF Request
      <4>2. req.retries + 1 \in 0..RateLimitRetries
        BY <3>1, <4>1
      <4> QED
        BY <4>1, <4>2
    <3>b. r0 \in Request /\ r0.retries = req.retries + 1
      BY <1>0, <3>a, RetriesField DEF SameCall
    <3>2. req' = Round(r1, 1, 0)
      BY <3>1 DEF AnswerMinuteLimit
    <3> HIDE DEF r0, k
    <3>3. r1 \in Request /\ r1.retries = req.retries + 1
      BY <3>a, <3>b, KeyField DEF SameCall
    <3> HIDE DEF r1
    <3> QED
      BY <3>2, <3>3, RoundRetries
  <2>4. Counted(0)
    BY <1>0, <1>a, <2>1, <2>2, <2>3, SpendCount DEF Counted
  <2> QED
    BY <1>0, <2>2, <2>4
<1> QED
  BY <1>1, <1>2, <1>3, <1>4 DEF WaitStep, Answer

(***************************************************************************)
(* The usage sync and the calls of a run                                   *)
(***************************************************************************)
Live    == pc # "idle" /\ phase # "catalog"
Syncing == pc = "sync" \/ req.fixed

\* Only a live run that syncs has verified keys; its fixed calls are for the slot
\* it is at, each answered with the provider's own count; when the sync is over
\* it has been at every slot. A run makes paid calls only.
SyncInv ==
    /\ synced => Live
    /\ ~synced => verified = {}
    /\ Syncing => synced
    /\ req.fixed => req.key = sync.slot
    /\ pc = "sync" => sync.attempt = 1
    /\ synced /\ ~Syncing => sync.slot > KeyCount
    /\ Live /\ pc \in {"pick", "wait"} => ReqCost = 1

LEMMA SyncInit == Init => SyncInv
BY DEF Init, SyncInv, Live, Syncing, NoRequest

\* A call before its first look for a key
LEMMA CallFields ==
    \A e, k : /\ Call(e, k).endpoint = e /\ Call(e, k).key = k
              /\ (k # 0 => Call(e, k).fixed) /\ (k = 0 => ~Call(e, k).fixed)
              /\ Call(e, k).retries = 0
              /\ Call(e, k).result = "none"
BY DEF Call, NoRequest

LEMMA SyncSteps == ASSUME TypeInv, SyncInv, SyncStep PROVE SyncInv'
<1> USE DEF TypeInv, TypeOK, Placed, SyncInv, Live, Syncing, ReqCost, Cost, memVars, histVars
<1>0. NoRequest.fixed = FALSE
  BY FreshRequestType
<1>1. CASE SyncSkip
  BY <1>0, <1>1 DEF SyncSkip
<1>2. CASE SyncAsk
  <2>1. sync.slot # 0
    BY <1>2 DEF SyncAsk
  <2>2. req' = Call("api_usage", sync.slot)
    BY <1>2 DEF SyncAsk
  <2>3. /\ req'.fixed /\ req'.key = sync.slot /\ req'.endpoint = "api_usage"
    BY <2>1, <2>2, CallFields
  <2>4. ReqCost' = 1
    BY <2>3
  <2> QED
    BY <1>0, <1>2, <2>3, <2>4 DEF SyncAsk
<1>3. CASE SyncRead
  BY <1>0, <1>3 DEF SyncRead
<1>4. CASE SyncRetry
  <2>1. sync.slot # 0
    BY <1>4 DEF SyncRetry
  <2>2. req' = Call("api_usage", sync.slot)
    BY <1>4 DEF SyncRetry
  <2>3. /\ req'.fixed /\ req'.key = sync.slot /\ req'.endpoint = "api_usage"
    BY <2>1, <2>2, CallFields
  <2>4. ReqCost' = 1
    BY <2>3
  <2> QED
    BY <1>0, <1>4, <2>3, <2>4 DEF SyncRetry
<1>5. CASE SyncExclude
  BY <1>0, <1>5 DEF SyncExclude
<1>6. CASE SyncEnd
  BY <1>0, <1>6 DEF SyncEnd
<1> QED
  BY <1>1, <1>2, <1>3, <1>4, <1>5, <1>6 DEF SyncStep

LEMMA SyncPhases ==
    ASSUME TypeInv, SyncInv, RunStart \/ StartCatalog \/ PhaseStep \/ Crash
    PROVE  SyncInv'
<1> USE DEF TypeInv, TypeOK, Placed, SyncInv, Live, Syncing, ReqCost, memVars, histVars
<1>0. NoRequest.fixed = FALSE
  BY FreshRequestType
<1>1. CASE RunStart
  BY <1>0, <1>1 DEF RunStart, StartRun
<1>2. CASE StartCatalog
  BY <1>0, <1>2 DEF StartCatalog
<1>3. CASE BeginPhase \/ NextLoop
  BY <1>0, <1>3 DEF BeginPhase, NextLoop
<1>4. CASE FinishRun \/ FinishCatalog \/ Interrupt \/ Crash
  BY <1>0, <1>4 DEF FinishRun, FinishCatalog, Interrupt, Crash, Gone
<1> QED
  BY <1>1, <1>2, <1>3, <1>4 DEF PhaseStep

LEMMA SyncSymbols == ASSUME TypeInv, SyncInv, SymbolStep PROVE SyncInv'
<1> USE DEF TypeInv, TypeOK, Placed, SyncInv, Live, Syncing, ReqCost, Cost, memVars, histVars
<1>0. NoRequest.fixed = FALSE
  BY FreshRequestType
<1>1. CASE StartCoreSymbol \/ StartOneCall \/ StartCatalogCall \/ SecondCall
  <2>1. PICK e \in {"time_series", "catalog"} :
           req' = Call(e, 0) /\ (phase # "catalog" => e = "time_series")
    BY <1>1 DEF StartCoreSymbol, StartOneCall, StartCatalogCall, SecondCall
  <2>2. ~req'.fixed /\ req'.endpoint = e
    BY <2>1, CallFields
  <2>3. phase # "catalog" => ReqCost' = 1
    BY <2>1, <2>2
  <2>4. ~req.fixed /\ pc \in {"ready", "returned"} /\ pc' = "pick"
    BY <1>0, <1>1 DEF StartCoreSymbol, StartOneCall, StartCatalogCall, SecondCall
  <2>5. UNCHANGED <<phase, verified, synced, sync>>
    BY <1>1 DEF StartCoreSymbol, StartOneCall, StartCatalogCall, SecondCall
  <2> QED
    BY <2>2, <2>3, <2>4, <2>5
<1>2. CASE CoreBudgetGone \/ SymbolDone \/ SymbolExhausted \/ CatalogDone
  BY <1>0, <1>2 DEF CoreBudgetGone, SymbolDone, SymbolExhausted, CatalogDone
<1> QED
  BY <1>1, <1>2 DEF SymbolStep

\* A step of request() keeps the endpoint and a fixed slot, and the sync where it is
LEMMA CallKept ==
    ASSUME TypeInv, RequestStep
    PROVE  /\ req'.fixed = req.fixed /\ req'.endpoint = req.endpoint
           /\ req.fixed => req'.key = req.key
           /\ pc \in {"pick", "wait"} /\ pc' \in {"pick", "wait", "returned"}
           /\ UNCHANGED <<today, phase, sync, active, verified, synced, startDay, syncDay>>
<1> USE DEF envVars, histVars, memVars
<1>1. /\ pc \in {"pick", "wait"} /\ pc' \in {"pick", "wait", "returned"}
      /\ UNCHANGED <<today, phase, sync, active, verified, synced, startDay, syncDay>>
  BY DEF RequestStep, PickKey, NothingCanPay, AttemptLost, RequestLost, Answer, AnswerOk,
         AnswerDayLimit, AnswerMinuteLimit, AnswerForbidden, AnswerRejected, Bill, Return
<1>2. req'.fixed = req.fixed /\ req'.endpoint = req.endpoint
  BY DEF RequestStep, PickKey, NothingCanPay, AttemptLost, RequestLost, Answer, AnswerOk,
         AnswerDayLimit, AnswerMinuteLimit, AnswerForbidden, AnswerRejected, Return, Round,
         TypeInv, TypeOK, Request
<1>3. req.fixed => req'.key = req.key
  BY DEF RequestStep, PickKey, NothingCanPay, AttemptLost, RequestLost, Answer, AnswerOk,
         AnswerDayLimit, AnswerMinuteLimit, AnswerForbidden, AnswerRejected, Return, Round,
         TypeInv, TypeOK, Request
<1> QED
  BY <1>1, <1>2, <1>3

LEMMA SyncRequests == ASSUME TypeInv, SyncInv, RequestStep PROVE SyncInv'
BY CallKept DEF SyncInv, Live, Syncing, ReqCost

LEMMA SyncKept == TypeInv /\ SyncInv /\ [Next]_vars => SyncInv'
<1>1. ASSUME TypeInv, SyncInv, Midnight \/ (\E k \in Keys : ExternalUse(k)) \/ UNCHANGED vars
      PROVE  SyncInv'
  BY <1>1 DEF Midnight, ExternalUse, vars, memVars, ctlVars, histVars, SyncInv, Live, Syncing, ReqCost
<1> QED
  BY <1>1, SyncSteps, SyncPhases, SyncSymbols, SyncRequests DEF Next, Environment

(***************************************************************************)
(* The kinds of steps, by what they do to the counts                       *)
(***************************************************************************)
QuietStep ==
    \/ SyncSkip \/ SyncAsk \/ SyncRetry \/ SyncExclude \/ SyncEnd
    \/ BeginPhase \/ NextLoop \/ SymbolStep \/ PickKey \/ NothingCanPay

BoundaryStep == RunStart \/ StartCatalog \/ FinishRun \/ FinishCatalog \/ Interrupt \/ Crash

LEMMA StepKinds ==
    [Next]_vars => \/ WaitStep \/ QuietStep \/ SyncRead \/ BoundaryStep
                   \/ Midnight \/ (\E k \in Keys : ExternalUse(k)) \/ UNCHANGED vars
BY DEF Next, SyncStep, PhaseStep, RequestStep, Environment, WaitStep, QuietStep, BoundaryStep

\* A quiet step bills and charges nothing; it leaves the buckets alone or refreshes
\* their day, which no step of a usage sync does before its end.
LEMMA QuietCount ==
    ASSUME TypeInv, QuietStep
    PROVE  /\ UNCHANGED <<today, billed, startDay, synced, verified, capUsed>>
           /\ active' \subseteq active
           /\ \/ bucket' = bucket /\ (Syncing' => Syncing)
              \/ bucket' = RefreshDay(bucket) /\ ~Syncing'
           /\ Live' <=> Live
           /\ phase' = "catalog" <=> phase = "catalog"
           /\ pc # "wait"
<1> USE DEF TypeInv, Placed, envVars, memVars, histVars, Syncing, Live
<1>0. NoRequest.fixed = FALSE
  BY FreshRequestType
<1>1. CASE SyncSkip \/ SyncAsk \/ SyncRetry
  BY <1>1 DEF SyncSkip, SyncAsk, SyncRetry
<1>2. CASE SyncExclude \/ SyncEnd
  BY <1>0, <1>2 DEF SyncExclude, SyncEnd
<1>3. CASE BeginPhase \/ NextLoop
  BY <1>0, <1>3 DEF BeginPhase, NextLoop
<1>4. CASE StartCoreSymbol \/ StartOneCall \/ StartCatalogCall \/ SecondCall
  <2>1. PICK e \in {"time_series", "catalog"} : req' = Call(e, 0)
    BY <1>4 DEF StartCoreSymbol, StartOneCall, StartCatalogCall, SecondCall
  <2>2. ~req'.fixed
    BY <2>1, CallFields
  <2> QED
    BY <1>4, <2>2 DEF StartCoreSymbol, StartOneCall, StartCatalogCall, SecondCall
<1>5. CASE CoreBudgetGone \/ SymbolDone \/ SymbolExhausted \/ CatalogDone
  BY <1>0, <1>5 DEF CoreBudgetGone, SymbolDone, SymbolExhausted, CatalogDone
<1>6. CASE PickKey
  <2>1. req'.fixed = req.fixed
    BY <1>6, CallKept DEF RequestStep
  <2> QED
    BY <1>6, <2>1 DEF PickKey
<1>7. CASE NothingCanPay
  <2>1. req'.fixed = req.fixed
    BY <1>7, CallKept DEF RequestStep
  <2> QED
    BY <1>7, <2>1 DEF NothingCanPay, Return
<1> QED
  BY <1>1, <1>2, <1>3, <1>4, <1>5, <1>6, <1>7 DEF QuietStep, SymbolStep

\* Reading a key's usage never lowers its local count, and covers the report
LEMMA ReadCount ==
    ASSUME TypeInv, SyncRead
    PROVE  /\ pc = "returned" /\ req.fixed /\ req.result = "ok" /\ sync.slot \in Keys
           /\ bucket'[sync.slot].used >= req.report
           /\ \A k \in Keys : /\ bucket'[k].date = bucket[k].date
                              /\ bucket'[k].used >= bucket[k].used
           /\ verified' = verified \cup {sync.slot}
           /\ sync' = [slot |-> sync.slot + 1, attempt |-> 1]
           /\ pc' = "sync" /\ req' = NoRequest
           /\ UNCHANGED <<today, billed, active, capUsed, phase, synced, startDay, syncDay>>
<1>1. /\ pc = "returned" /\ req.fixed /\ req.result = "ok"
      /\ bucket' = Adopt(bucket, sync.slot, req.report)
      /\ verified' = verified \cup {sync.slot}
      /\ sync' = [slot |-> sync.slot + 1, attempt |-> 1]
      /\ pc' = "sync" /\ req' = NoRequest
      /\ UNCHANGED <<today, billed, active, capUsed, phase, synced, startDay, syncDay>>
  BY DEF SyncRead, envVars
<1>2. /\ sync.slot \in Keys /\ req.report \in Nat /\ bucket \in [Keys -> Bucket]
      /\ \A k \in Keys : bucket[k].used \in Nat
  BY <1>1 DEF TypeInv, TypeOK, Placed, Request, Bucket
<1>3. /\ bucket'[sync.slot].date = bucket[sync.slot].date
      /\ bucket'[sync.slot].used >= bucket[sync.slot].used
      /\ bucket'[sync.slot].used >= req.report
      /\ \A k \in Keys \ {sync.slot} : bucket'[k] = bucket[k]
  BY <1>1, <1>2, AdoptCount
<1> QED
  BY <1>1, <1>2, <1>3

\* A process that starts has buckets of today and has verified nothing
LEMMA BoundaryCount ==
    ASSUME TypeInv, SyncInv, BoundaryStep
    PROVE  /\ today' = today /\ verified' = {} /\ startDay' \in {startDay, today}
           /\ synced' => pc' = "sync" /\ sync'.slot = 1
           /\ ~req'.fixed /\ pc' # "wait" /\ pc' # "returned"
           /\ Live' => /\ startDay' = today
                       /\ \A k \in Keys : bucket'[k].date = today
<1> USE DEF TypeInv, TypeOK, Placed, SyncInv, envVars, memVars, histVars, Live
<1>0. NoRequest.fixed = FALSE
  BY FreshRequestType
<1>1. CASE RunStart
  <2>1. PICK id \in {run, run + 1} \cap (1..MaxRun), first \in {"core", "rotation"}, s \in BOOLEAN :
          StartRun(id, first, s)
    BY <1>1 DEF RunStart
  <2>2. \A k \in Keys : bucket'[k].date = today
    BY <2>1, RefreshCount DEF StartRun
  <2> QED
    BY <1>0, <2>1, <2>2 DEF StartRun
<1>2. CASE StartCatalog
  BY <1>0, <1>2 DEF StartCatalog
<1>3. CASE FinishRun \/ FinishCatalog \/ Interrupt \/ Crash
  BY <1>0, <1>3 DEF FinishRun, FinishCatalog, Interrupt, Crash, Gone
<1> QED
  BY <1>1, <1>2, <1>3 DEF BoundaryStep

\* The UTC days of the buckets: none is ahead of today, and they are those of the
\* start of the run until midnight passes, in a sync also afterwards.
DayInv ==
    /\ startDay <= today
    /\ Live => \A k \in Keys :
          /\ bucket[k].date <= today
          /\ today = startDay \/ Syncing => bucket[k].date = startDay

LEMMA DayInit == Init => DayInv
BY DEF Init, DayInv, Live

LEMMA DayKept == TypeInv /\ SyncInv /\ DayInv /\ [Next]_vars => DayInv'
<1> SUFFICES ASSUME TypeInv, SyncInv, DayInv, [Next]_vars PROVE DayInv'
  OBVIOUS
<1>0. /\ bucket \in [Keys -> Bucket] /\ today \in Nat /\ startDay \in Nat
      /\ \A k \in Keys : bucket[k].date \in Nat
  BY DEF TypeInv, TypeOK, Bucket
<1>1. CASE WaitStep
  <2>1. \A k \in Keys : bucket'[k].date = bucket[k].date
    BY <1>1, WaitCount DEF Counted
  <2>2. UNCHANGED <<today, startDay, phase>> /\ req'.fixed = req.fixed /\ pc' # "idle" /\ pc # "idle"
        /\ pc' # "sync"
    BY <1>1, CallKept DEF RequestStep, WaitStep
  <2> QED
    BY <2>1, <2>2 DEF DayInv, Live, Syncing
<1>2. CASE QuietStep
  <2>1. CASE bucket' = bucket /\ (Syncing' => Syncing)
    BY <1>2, <2>1, QuietCount DEF DayInv
  <2>2. CASE bucket' = RefreshDay(bucket) /\ ~Syncing'
    <3>1. \A k \in Keys : bucket'[k].date = today
      BY <1>0, <2>2, RefreshCount
    <3> QED
      BY <1>0, <1>2, <2>2, <3>1, QuietCount DEF DayInv
  <2> QED
    BY <1>2, <2>1, <2>2, QuietCount
<1>3. CASE SyncRead
  BY <1>3, ReadCount DEF DayInv, Live, Syncing
<1>4. CASE BoundaryStep
  BY <1>0, <1>4, BoundaryCount DEF DayInv
<1>5. CASE Midnight
  BY <1>0, <1>5 DEF Midnight, DayInv, Live, Syncing, memVars, ctlVars, histVars
<1>6. CASE (\E k \in Keys : ExternalUse(k)) \/ UNCHANGED vars
  BY <1>6 DEF ExternalUse, vars, envVars, memVars, ctlVars, histVars, DayInv, Live, Syncing
<1> QED
  BY <1>1, <1>2, <1>3, <1>4, <1>5, <1>6, StepKinds

(***************************************************************************)
(* Verified keys                                                           *)
(***************************************************************************)

\* What the call in progress may have cost key k without being charged yet
Own(k) == IF req.key = k THEN InFlight ELSE 0

LEMMA OwnType == TypeInv => \A k \in Keys : Own(k) \in Nat /\ (pc # "wait" => Own(k) = 0)
<1> SUFFICES ASSUME TypeInv PROVE \A k \in Keys : Own(k) \in Nat /\ (pc # "wait" => Own(k) = 0)
  OBVIOUS
<1>1. InFlight \in Nat /\ (pc # "wait" => InFlight = 0)
  BY ChargeType DEF InFlight
<1> QED
  BY <1>1 DEF Own

LEMMA OwnTypeNext == TypeInv' => \A k \in Keys : Own(k)' \in Nat /\ (pc' # "wait" => Own(k)' = 0)
<1>1. (TypeInv => \A k \in Keys : Own(k) \in Nat /\ (pc # "wait" => Own(k) = 0))'
  BY OwnType, PTL
<1> QED
  BY <1>1

\* A step of a call never widens the gap between what a key was billed and what
\* is counted for it, the call's own uncertain attempts included.
LEMMA WaitGap ==
    ASSUME TypeInv, WaitStep, NEW k \in Keys, NEW s \in Nat,
           billed[k] <= bucket[k].used + s + Own(k)
    PROVE  billed'[k] <= bucket'[k].used + s + Own(k)'
<1>0. /\ TypeInv' /\ ReqCost \in {0, 1} /\ bucket[k].used \in Nat /\ billed[k] \in Nat
      /\ bucket'[k].used \in Nat /\ billed'[k] \in Nat /\ req.key \in Keys
      /\ InFlight \in Nat /\ InFlight = ReqCost * req.uncertain /\ req.uncertain \in Nat
  <2>1. TypeInv'
    BY RequestType DEF WaitStep, RequestStep
  <2>2. pc = "wait"
    BY WaitCount
  <2> QED
    BY <2>1, <2>2, CostOfCall, ChargeType DEF TypeInv, TypeOK, Bucket, InFlight
<1>1. PICK n \in {0, ReqCost} : Counted(n)
  BY WaitCount
<1>2. Own(k)' \in Nat /\ (pc' # "wait" => Own(k)' = 0)
  BY <1>0, OwnTypeNext
<1>3. CASE k # req.key
  <2>1. billed'[k] = billed[k] /\ bucket'[k] = bucket[k] /\ Own(k) = 0
    BY <1>1, <1>3 DEF Counted, Own
  <2> QED
    BY <1>0, <1>2, <2>1
<1>4. CASE k = req.key /\ pc' # "wait"
  <2>1. /\ billed'[k] = billed[k] + n /\ bucket'[k].used >= bucket[k].used + InFlight + n
        /\ Own(k) = InFlight /\ Own(k)' = 0
    BY <1>1, <1>2, <1>4 DEF Counted, Own
  <2> QED
    BY <1>0, <2>1
<1>5. CASE k = req.key /\ pc' = "wait"
  <2>1. /\ billed'[k] = billed[k] + n /\ bucket' = bucket /\ req'.key = k
        /\ req'.uncertain = req.uncertain + 1
    BY <1>1, <1>5 DEF Counted
  <2>2. ReqCost' = ReqCost
    BY CallKept DEF ReqCost, WaitStep, RequestStep
  <2>3. Own(k)' = ReqCost * (req.uncertain + 1) /\ Own(k) = InFlight
    BY <1>0, <1>5, <2>1, <2>2 DEF Own, InFlight
  <2>4. ReqCost * (req.uncertain + 1) = InFlight + ReqCost
    BY <1>0
  <2>5. n <= ReqCost
    BY <1>0
  <2> QED
    BY <1>0, <2>1, <2>3, <2>4, <2>5
<1> QED
  BY <1>3, <1>4, <1>5

\* The usage report a sync is about to adopt is not below the provider's count
ReportInv ==
    (pc = "returned" /\ req.fixed /\ req.result = "ok") => billed[req.key] <= req.report

LEMMA ReportInit == Init => ReportInv
BY DEF Init, ReportInv

LEMMA ReportKept == TypeInv /\ SyncInv /\ ReportInv /\ [Next]_vars => ReportInv'
<1> SUFFICES ASSUME TypeInv, SyncInv, ReportInv, [Next]_vars PROVE ReportInv'
  OBVIOUS
<1>1. CASE WaitStep
  <2>1. CASE AnswerOk
    <3>1. PICK r \in {"ok", "unreadable"} :
             req' = [req EXCEPT !.result = r,
                                !.report = IF req.fixed THEN billed'[req.key] ELSE 0]
      BY <2>1 DEF AnswerOk
    <3>2. req'.report = (IF req.fixed THEN billed'[req.key] ELSE 0)
      BY <3>1 DEF TypeInv, TypeOK, Request
    <3>3. req'.fixed = req.fixed /\ (req.fixed => req'.key = req.key)
      BY <1>1, CallKept DEF WaitStep, RequestStep
    <3>4. req.fixed => billed'[req.key] \in Nat
      BY <1>1, RequestType DEF WaitStep, RequestStep, TypeInv, TypeOK, Placed
    <3> QED
      BY <3>2, <3>3, <3>4 DEF ReportInv
  <2>2. CASE RequestLost \/ AnswerDayLimit \/ AnswerMinuteLimit \/ AnswerForbidden \/ AnswerRejected
    <3>1. pc' = "pick" \/ Return("error")
      BY <2>2 DEF RequestLost, AnswerDayLimit, AnswerMinuteLimit, AnswerForbidden, AnswerRejected
    <3>2. Return("error") => req'.result = "error"
      BY DEF Return, TypeInv, TypeOK, Request
    <3> QED
      BY <3>1, <3>2 DEF ReportInv
  <2>3. CASE AttemptLost
    BY <2>3 DEF AttemptLost, ReportInv
  <2> QED
    BY <1>1, <2>1, <2>2, <2>3 DEF WaitStep, Answer
<1>2. CASE NothingCanPay
  <2>1. req'.result = "exhausted"
    BY <1>2 DEF NothingCanPay, Return, TypeInv, TypeOK, Request
  <2> QED
    BY <2>1 DEF ReportInv
<1>3. CASE QuietStep /\ ~NothingCanPay
  <2>1. pc' = "returned" => UNCHANGED <<pc, req, billed>>
    BY <1>3 DEF QuietStep, SyncSkip, SyncAsk, SyncRetry, SyncExclude, SyncEnd, BeginPhase, NextLoop,
                SymbolStep, StartCoreSymbol, CoreBudgetGone, StartOneCall, StartCatalogCall,
                SecondCall, SymbolDone, SymbolExhausted, CatalogDone, PickKey
  <2> QED
    BY <2>1 DEF ReportInv
<1>4. CASE SyncRead \/ BoundaryStep
  BY <1>4, ReadCount, BoundaryCount DEF ReportInv
<1>5. CASE Midnight
  <2>1. \A k \in Keys : billed'[k] = 0
    BY <1>5 DEF Midnight
  <2>2. UNCHANGED <<pc, req>>
    BY <1>5 DEF Midnight, ctlVars
  <2> QED
    BY <2>1, <2>2 DEF ReportInv, TypeInv, TypeOK, Placed, Request
<1>6. CASE (\E k \in Keys : ExternalUse(k)) \/ UNCHANGED vars
  BY <1>6 DEF ExternalUse, vars, envVars, ctlVars, ReportInv
<1> QED
  BY <1>1, <1>2, <1>3, <1>4, <1>5, <1>6, StepKinds

LEMMA VerifiedInit == Init => VerifiedKeyCovered
BY DEF Init, VerifiedKeyCovered

LEMMA VerifiedKept ==
    TypeInv /\ SyncInv /\ DayInv /\ ReportInv /\ VerifiedKeyCovered /\ [Next]_vars
       => VerifiedKeyCovered'
<1> SUFFICES ASSUME TypeInv, SyncInv, DayInv, ReportInv, VerifiedKeyCovered, [Next]_vars,
                    NEW k \in Keys, k \in verified', today' <= startDay'
             PROVE  billed'[k] <= bucket'[k].used + Own(k)'
  <2>1. TypeInv' => verified' \in SUBSET Keys
    BY DEF TypeInv, TypeOK
  <2>2. TypeInv' => (today' = startDay' => today' <= startDay')
    BY DEF TypeInv, TypeOK
  <2> QED
    BY <2>1, <2>2, TypeStep DEF VerifiedKeyCovered, Own
<1>0. /\ TypeInv' /\ k \in Keys /\ bucket \in [Keys -> Bucket]
      /\ bucket[k].used \in Nat /\ billed[k] \in Nat
      /\ bucket'[k].used \in Nat /\ billed'[k] \in Nat
      /\ Own(k) \in Nat /\ Own(k)' \in Nat /\ (pc # "wait" => Own(k) = 0)
  <2>1. TypeInv'
    BY TypeStep
  <2> QED
    BY <2>1, OwnType, OwnTypeNext DEF TypeInv, TypeOK, Bucket
<1>a. k \in verified /\ today <= startDay => billed[k] <= bucket[k].used + Own(k)
  BY DEF VerifiedKeyCovered, Own, DayInv, TypeInv, TypeOK
<1>1. CASE WaitStep
  <2>1. UNCHANGED <<today, startDay, verified>>
    BY <1>1, CallKept DEF WaitStep, RequestStep
  <2> QED
    <3>1. billed[k] <= bucket[k].used + 0 + Own(k)
      BY <1>0, <1>a, <2>1
    <3>2. billed'[k] <= bucket'[k].used + 0 + Own(k)'
      BY <1>0, <1>1, <3>1, WaitGap
    <3> QED
      BY <1>0, <3>2
<1>2. CASE QuietStep
  <2>1. UNCHANGED <<today, startDay, verified, billed>> /\ Own(k) = 0
    BY <1>0, <1>2, QuietCount
  <2>2. bucket'[k] = bucket[k]
    <3>1. Live
      BY <2>1 DEF SyncInv
    <3>2. bucket[k].date = today
      BY <1>0, <2>1, <3>1 DEF DayInv, TypeInv, TypeOK
    <3> QED
      BY <1>0, <1>2, <3>2, QuietCount, RefreshCount
  <2>3. billed[k] <= bucket[k].used
    BY <1>0, <1>a, <2>1
  <2>4. billed'[k] <= bucket'[k].used
    BY <2>1, <2>2, <2>3
  <2> QED
    BY <1>0, <2>4
<1>3. CASE SyncRead
  <2>1. Own(k) = 0 /\ UNCHANGED <<today, startDay, billed>>
    BY <1>0, <1>3, ReadCount
  <2>2. CASE k = sync.slot
    <3>1. billed[k] <= req.report /\ req.report \in Nat /\ bucket'[k].used >= req.report
      BY <1>3, <2>2, ReadCount DEF ReportInv, SyncInv, TypeInv, TypeOK, Request
    <3> QED
      BY <1>0, <2>1, <3>1
  <2>3. CASE k # sync.slot
    BY <1>0, <1>3, <1>a, <2>1, <2>3, ReadCount
  <2> QED
    BY <2>2, <2>3
<1>4. CASE BoundaryStep
  BY <1>4, BoundaryCount
<1>5. CASE Midnight
  <2>1. today' = today + 1 /\ startDay' = startDay
    BY <1>5 DEF Midnight, histVars
  <2> QED
    BY <2>1 DEF DayInv, TypeInv, TypeOK
<1>6. CASE \E j \in Keys : ExternalUse(j)
  BY <1>6 DEF ExternalUse, SyncInv, Live, histVars
<1>7. CASE UNCHANGED vars
  <2>1. UNCHANGED <<today, startDay, verified, billed, bucket>> /\ Own(k)' = Own(k)
    BY <1>7 DEF vars, envVars, memVars, ctlVars, histVars, Own, InFlight, ReqCost
  <2> QED
    BY <1>0, <1>a, <2>1
<1> QED
  BY <1>1, <1>2, <1>3, <1>4, <1>5, <1>6, <1>7, StepKinds

\* Whatever was used outside or lost in crashes, a key whose usage the run has read
\* is not counted below the provider's own count until midnight UTC.
THEOREM VerifiedCovered == Spec => []VerifiedKeyCovered
BY TypeInit, TypeStep, SyncInit, SyncKept, DayInit, DayKept, ReportInit, ReportKept,
   VerifiedInit, VerifiedKept, PTL DEF Spec

(***************************************************************************)
(* Paying with verified keys                                               *)
(***************************************************************************)

\* Neither the local budget of key k nor the run cap pays for another call
Unpaid(k) == Remaining(bucket[k]) < 1 \/ ~CapAllows(1)

\* Budget and cap only shrink within a run, so such a key stays unpaid.
LEMMA UnpaidKept ==
    ASSUME TypeInv, TypeInv', NEW k \in Keys, Unpaid(k),
           bucket'[k].used >= bucket[k].used, capUsed' >= capUsed,
           phase' = "catalog" => phase = "catalog"
    PROVE  Unpaid(k)'
<1>0. /\ bucket[k].used \in Nat /\ bucket'[k].used \in Nat /\ capUsed \in Nat /\ capUsed' \in Nat
      /\ Usable \in Nat
  BY DEF TypeInv, TypeOK, Bucket, Usable
<1>1. CASE Remaining(bucket[k]) < 1
  <2>1. Remaining(bucket'[k]) < 1
    BY <1>0, <1>1 DEF Remaining
  <2> QED
    BY <2>1 DEF Unpaid
<1>2. CASE ~CapAllows(1)
  <2>1. phase # "catalog" /\ ~(capUsed + 1 <= RunCap)
    BY <1>2 DEF CapAllows
  <2>2. phase' # "catalog"
    BY <2>1
  <2>3. ~(capUsed' + 1 <= RunCap)
    <3> DEFINE now == capUsed'
    <3>1. now \in Nat /\ now >= capUsed /\ RunCap \in Nat
      BY <1>0
    <3> HIDE DEF now
    <3>2. ~(now + 1 <= RunCap)
      BY <1>0, <2>1, <3>1
    <3> QED
      BY <3>2 DEF now
  <2> QED
    BY <2>2, <2>3 DEF Unpaid, CapAllows
<1> QED
  BY <1>1, <1>2 DEF Unpaid

\* The cap's count only grows while a call waits
LEMMA WaitCharge == ASSUME TypeInv, WaitStep PROVE capUsed' >= capUsed
<1>1. pc = "wait"
  BY WaitCount
<1>2. \A n \in {ReqCost * (req.uncertain + 1), ReqCost * req.uncertain,
                ReqCost * req.uncertain + ReqCost} : n \in Nat
  BY <1>1, ChargeType
<1>3. capUsed' = capUsed \/ \E n \in {ReqCost * (req.uncertain + 1), ReqCost * req.uncertain,
                ReqCost * req.uncertain + ReqCost} : capUsed' = capUsed + n
  BY DEF WaitStep, AttemptLost, RequestLost, Answer, AnswerOk, AnswerDayLimit, AnswerMinuteLimit,
         AnswerForbidden, AnswerRejected, Charge, memVars
<1> QED
  BY <1>2, <1>3 DEF TypeInv, TypeOK

\* Behind the slot of the sync a key in use is verified or cannot pay, up to
\* midnight UTC: skipping needs an empty budget, and giving up disables the key.
PayInv ==
    (synced /\ today <= startDay) =>
       /\ \A k \in active : k \in verified \/ k >= sync.slot \/ Unpaid(k)
       /\ (pc = "wait" /\ ~req.fixed) => req.key \in verified

LEMMA PayInit == Init => PayInv
BY DEF Init, PayInv

\* On the day of the start a quiet step of a live run leaves the buckets alone
LEMMA QuietBuckets ==
    ASSUME TypeInv, DayInv, QuietStep, Live, today <= startDay
    PROVE  \A k \in Keys : bucket'[k] = bucket[k]
<1>1. bucket \in [Keys -> Bucket] /\ \A k \in Keys : bucket[k].date = today
  BY DEF DayInv, TypeInv, TypeOK
<1> QED
  BY <1>1, QuietCount, RefreshCount

LEMMA PayKept == TypeInv /\ SyncInv /\ DayInv /\ PayInv /\ [Next]_vars => PayInv'
<1> SUFFICES ASSUME TypeInv, SyncInv, DayInv, PayInv, [Next]_vars,
                    synced', today' <= startDay'
             PROVE  /\ \A k \in active' : k \in verified' \/ k >= sync'.slot \/ Unpaid(k)'
                    /\ (pc' = "wait" /\ ~req'.fixed) => req'.key \in verified'
  BY DEF PayInv
<1>0. /\ TypeInv' /\ active \subseteq Keys /\ active' \subseteq Keys
      /\ sync.slot \in Nat /\ sync'.slot \in Nat
      /\ capUsed \in Nat /\ \A k \in Keys : bucket[k].used \in Nat
  BY TypeStep DEF TypeInv, TypeOK, Bucket
<1>1. CASE WaitStep
  <2>1. /\ UNCHANGED <<today, startDay, synced, verified, active, sync, phase>>
        /\ req'.fixed = req.fixed
    BY <1>1, CallKept DEF WaitStep, RequestStep
  <2>2. pc = "wait" /\ (pc' = "wait" => req'.key = req.key)
    BY <1>1, WaitCount DEF Counted
  <2>3. \A k \in Keys : bucket'[k].used >= bucket[k].used
    <3>1. /\ InFlight \in Nat /\ ReqCost \in {0, 1} /\ req.key \in Keys
      BY <2>2, ChargeType, CostOfCall DEF InFlight, TypeInv
    <3>2. PICK n \in {0, ReqCost} : Counted(n)
      BY <1>1, WaitCount
    <3>3. \A k \in Keys \ {req.key} : bucket'[k] = bucket[k]
      BY <3>2 DEF Counted
    <3>4. bucket'[req.key].used >= bucket[req.key].used
      <4>1. bucket'[req.key].used \in Nat
        BY <1>0, <3>1 DEF TypeInv, TypeOK, Bucket
      <4>2. CASE pc' = "wait"
        BY <1>0, <3>1, <3>2, <4>2 DEF Counted
      <4>3. CASE pc' # "wait"
        BY <1>0, <3>1, <3>2, <4>1, <4>3 DEF Counted
      <4> QED
        BY <4>2, <4>3
    <3> QED
      BY <1>0, <3>3, <3>4
  <2> QED
    BY <1>0, <1>1, <2>1, <2>2, <2>3, WaitCharge, UnpaidKept DEF PayInv
<1>2. CASE QuietStep
  <2>1. /\ UNCHANGED <<today, startDay, synced, verified, capUsed>> /\ active' \subseteq active
        /\ (phase' = "catalog" <=> phase = "catalog")
    BY <1>2, QuietCount
  <2>2. \A k \in Keys : bucket'[k] = bucket[k]
    BY <1>2, <2>1, QuietBuckets DEF SyncInv
  <2>3. \A k \in Keys : Unpaid(k) => Unpaid(k)'
    BY <1>0, <2>1, <2>2, UnpaidKept
  <2>4. \A k \in active : k \in verified \/ k >= sync.slot \/ Unpaid(k)
    BY <2>1 DEF PayInv
  <2>5. \A k \in active' : k \in verified' \/ k >= sync'.slot \/ Unpaid(k)'
    <3>1. CASE SyncSkip
      <4>1. sync.slot \in Keys => Unpaid(sync.slot)
        BY <3>1 DEF SyncSkip, Cost, Unpaid, Remaining, Usable, TypeInv, TypeOK, Bucket
      <4>2. sync'.slot = sync.slot + 1
        BY <3>1 DEF SyncSkip
      <4> QED
        BY <1>0, <2>1, <2>3, <2>4, <4>1, <4>2 DEF Keys
    <3>2. CASE SyncExclude
      <4>1. active' = active \ {sync.slot} /\ sync'.slot = sync.slot + 1
        BY <3>2 DEF SyncExclude
      <4> QED
        BY <1>0, <2>1, <2>3, <2>4, <4>1 DEF Keys
    <3>3. CASE ~SyncSkip /\ ~SyncExclude
      <4>1. sync'.slot = sync.slot
        BY <1>2, <3>3
        DEF QuietStep, SyncAsk, SyncRetry, SyncEnd, BeginPhase, NextLoop, SymbolStep,
            StartCoreSymbol, CoreBudgetGone, StartOneCall, StartCatalogCall, SecondCall,
            SymbolDone, SymbolExhausted, CatalogDone, PickKey, NothingCanPay, TypeInv, TypeOK
      <4> QED
        BY <1>0, <2>1, <2>3, <2>4, <4>1
    <3> QED
      BY <3>1, <3>2, <3>3
  <2>6. ASSUME pc' = "wait", ~req'.fixed PROVE req'.key \in verified'
    <3>1. PickKey
      BY <1>2, <2>6, QuietCount
      DEF QuietStep, SyncSkip, SyncAsk, SyncRetry, SyncExclude, SyncEnd, BeginPhase, NextLoop,
          SymbolStep, StartCoreSymbol, CoreBudgetGone, StartOneCall, StartCatalogCall, SecondCall,
          SymbolDone, SymbolExhausted, CatalogDone, NothingCanPay, Return
    <3>2. ~req.fixed /\ pc = "pick" /\ CapAllows(ReqCost)
      BY <2>6, <3>1, CallKept DEF RequestStep, PickKey
    <3>3. Live /\ ReqCost = 1 /\ sync.slot > KeyCount
      BY <2>1, <3>2 DEF SyncInv, Syncing
    <3>4. PICK k \in Payers(bucket', ReqCost) : req' = Round([req EXCEPT !.key = k], 1, 0)
      BY <3>1, <3>2 DEF PickKey
    <3>5. k \in active /\ k \in Keys /\ 1 <= Remaining(bucket[k])
      BY <1>0, <2>2, <3>3, <3>4 DEF Payers
    <3>6. req'.key = k
      <4> DEFINE r1 == [req EXCEPT !.key = k]
      <4>1. r1 \in Request /\ r1.key = k
        BY <3>5, KeyField DEF SameCall, TypeInv, TypeOK
      <4>2. req' = Round(r1, 1, 0) /\ 1 \in 1..NetworkAttempts /\ 0 \in 0..NetworkAttempts
        BY <3>4
      <4> HIDE DEF r1
      <4> QED
        BY <4>1, <4>2, RoundType
    <3>7. ~Unpaid(k)
      BY <3>2, <3>3, <3>5 DEF Unpaid, Remaining, Usable, TypeInv, TypeOK, Bucket
    <3> QED
      BY <1>0, <2>1, <2>4, <3>3, <3>5, <3>6, <3>7 DEF Keys
  <2> QED
    BY <2>5, <2>6
<1>3. CASE SyncRead
  <2>1. /\ UNCHANGED <<today, startDay, active, capUsed, phase, synced>>
        /\ verified' = verified \cup {sync.slot}
        /\ sync' = [slot |-> sync.slot + 1, attempt |-> 1]
        /\ \A k \in Keys : bucket'[k].used >= bucket[k].used
        /\ pc' = "sync"
    BY <1>3, ReadCount
  <2>a. sync'.slot = sync.slot + 1
    BY <2>1
  <2>2. \A k \in Keys : Unpaid(k) => Unpaid(k)'
    BY <1>0, <2>1, UnpaidKept
  <2>3. \A k \in active : k \in verified \/ k >= sync.slot \/ Unpaid(k)
    BY <2>1 DEF PayInv
  <2> QED
    BY <1>0, <2>1, <2>a, <2>2, <2>3 DEF Keys
<1>4. CASE BoundaryStep
  <2>1. sync'.slot = 1 /\ pc' # "wait"
    BY <1>4, BoundaryCount
  <2>2. \A k \in active' : k >= 1
    BY <1>0 DEF Keys
  <2> QED
    BY <2>1, <2>2
<1>5. CASE Midnight
  <2>1. today' = today + 1 /\ startDay' = startDay
    BY <1>5 DEF Midnight, histVars
  <2> QED
    BY <2>1 DEF DayInv, TypeInv, TypeOK
<1>6. CASE (\E k \in Keys : ExternalUse(k)) \/ UNCHANGED vars
  <2>1. UNCHANGED <<today, memVars, ctlVars, histVars>>
    BY <1>6 DEF ExternalUse, vars, envVars
  <2> QED
    BY <2>1 DEF PayInv, Unpaid, CapAllows, memVars, ctlVars, histVars
<1> QED
  BY <1>1, <1>2, <1>3, <1>4, <1>5, <1>6, StepKinds

\* A run that syncs pays only with keys whose usage it has read, up to midnight
\* UTC, for any number of keys and whatever the provider answered to the sync.
THEOREM SyncedPaysVerified == Spec => []SyncedRunPaysVerified
<1>1. TypeInv /\ PayInv => SyncedRunPaysVerified
  BY DEF PayInv, SyncedRunPaysVerified, TypeInv, TypeOK
<1> QED
  BY <1>1, TypeInit, TypeStep, SyncInit, SyncKept, DayInit, DayKept, PayInit, PayKept, PTL DEF Spec

(***************************************************************************)
(* Midnight                                                                *)
(***************************************************************************)

\* A larger factor gives a larger product
LEMMA TimesMono ==
    ASSUME NEW a \in Nat, NEW b \in Nat, NEW c \in Nat, a <= b
    PROVE  a * c \in Nat /\ b * c \in Nat /\ a * c <= b * c
<1>1. b = a + (b - a) /\ b - a \in Nat
  OBVIOUS
<1> DEFINE d == b - a
<1>2. (a + d) * c = a * c + d * c
  BY <1>1
<1>3. a * c \in Nat /\ d * c \in Nat
  BY <1>1
<1>4. b * c = a * c + d * c
  BY <1>1, <1>2
<1> QED
  BY <1>3, <1>4

\* Credits one call of the sync may be billed: the attempts before the last in
\* each round up to the last retry, and the one that ends the call
PerCall == (RateLimitRetries + 1) * (NetworkAttempts - 1) + 1

LEMMA CallBounds ==
    /\ PerCall \in Nat /\ SyncCalls \in Nat /\ NetworkAttempts <= SyncCalls
    /\ \A a \in 1..UsageSyncAttempts :
          /\ (a - 1) * PerCall \in Nat
          /\ ((a + 1) - 1) * PerCall = (a - 1) * PerCall + PerCall
          /\ (a - 1) * PerCall + PerCall <= SyncCalls
    /\ (1 - 1) * PerCall = 0
    /\ \A r \in 0..RateLimitRetries :
          /\ r * (NetworkAttempts - 1) \in Nat
          /\ r * (NetworkAttempts - 1) + NetworkAttempts <= PerCall
          /\ (r + 1) * (NetworkAttempts - 1) = r * (NetworkAttempts - 1) + (NetworkAttempts - 1)
    /\ 0 * (NetworkAttempts - 1) = 0
<1> DEFINE N == NetworkAttempts - 1
           R == RateLimitRetries
<1>1. N \in Nat /\ R \in Nat /\ NetworkAttempts = N + 1
  OBVIOUS
<1>2. ASSUME NEW r \in 0..R
      PROVE  r * N \in Nat /\ (r + 1) * N = r * N + N /\ r * N + NetworkAttempts <= PerCall
  <2>1. r \in Nat /\ r + 1 \in Nat /\ R + 1 \in Nat /\ r + 1 <= R + 1
    BY <1>1, <1>2
  <2>2. (r + 1) * N = r * N + N
    BY <1>1, <2>1
  <2>3. r * N \in Nat /\ (r + 1) * N <= (R + 1) * N /\ (R + 1) * N \in Nat
    BY <1>1, <2>1, TimesMono
  <2>4. PerCall = (R + 1) * N + 1
    BY DEF PerCall
  <2> HIDE DEF N, R
  <2> QED
    BY <1>1, <2>2, <2>3, <2>4
<1>3. PerCall \in Nat /\ NetworkAttempts <= PerCall
  <2>1. 0 \in 0..R /\ 0 * N = 0
    BY <1>1
  <2>2. (R + 1) * N \in Nat /\ PerCall = (R + 1) * N + 1
    BY <1>1, TimesMono DEF PerCall
  <2>3. 0 * N + NetworkAttempts <= PerCall
    BY <1>2, <2>1
  <2> QED
    BY <1>1, <2>1, <2>2, <2>3
<1>4. SyncCalls = UsageSyncAttempts * PerCall
  BY DEF SyncCalls, PerCall
<1>5. ASSUME NEW a \in 1..UsageSyncAttempts
      PROVE  /\ (a - 1) * PerCall \in Nat
             /\ ((a + 1) - 1) * PerCall = (a - 1) * PerCall + PerCall
             /\ (a - 1) * PerCall + PerCall <= SyncCalls
  <2> DEFINE b == a - 1
  <2>1. b \in Nat /\ b + 1 \in Nat /\ b + 1 <= UsageSyncAttempts /\ (a + 1) - 1 = b + 1
    OBVIOUS
  <2> HIDE DEF b
  <2>2. (b + 1) * PerCall = b * PerCall + PerCall /\ b * PerCall \in Nat
    BY <1>3, <2>1
  <2>3. (b + 1) * PerCall <= UsageSyncAttempts * PerCall
    BY <1>3, <2>1, TimesMono
  <2>4. b * PerCall + PerCall <= SyncCalls
    BY <1>4, <2>2, <2>3
  <2> QED
    BY <2>1, <2>2, <2>4 DEF b
<1>6. SyncCalls \in Nat /\ NetworkAttempts <= SyncCalls /\ (1 - 1) * PerCall = 0 /\ 0 * N = 0
  <2>1. 1 \in 1..UsageSyncAttempts /\ (1 - 1) * PerCall = 0
    BY <1>3
  <2>2. PerCall <= SyncCalls
    BY <1>3, <1>5, <2>1
  <2>3. SyncCalls \in Nat
    BY <1>3, <1>4, TimesMono
  <2> QED
    BY <1>1, <1>3, <2>1, <2>2, <2>3
<1> QED
  BY <1>2, <1>3, <1>5, <1>6

\* Credits the call of the sync may have been billed at its present place
CallSoFar == CASE pc = "pick"     -> req.retries * (NetworkAttempts - 1)
               [] pc = "wait"     -> req.retries * (NetworkAttempts - 1) + req.uncertain
               [] pc = "returned" -> PerCall
               [] OTHER           -> 0
SlotSoFar == (sync.attempt - 1) * PerCall + CallSoFar

\* While a sync goes on after midnight: the slots behind it were billed at most a
\* whole sync since then, the one it is at what its calls can have cost, the ones
\* ahead nothing.
LateSync(k) ==
    /\ k < sync.slot => billed[k] <= SyncCalls
    /\ k = sync.slot => billed[k] <= SlotSoFar
    /\ k > sync.slot => billed[k] = 0

LEMMA SoFarBound ==
    ASSUME TypeInv, Syncing
    PROVE  /\ CallSoFar \in Nat /\ CallSoFar <= PerCall
           /\ SlotSoFar \in Nat /\ SlotSoFar <= SyncCalls
           /\ pc = "pick" => CallSoFar = req.retries * (NetworkAttempts - 1)
           /\ pc = "wait" => CallSoFar = req.retries * (NetworkAttempts - 1) + req.uncertain
           /\ pc = "returned" => CallSoFar = PerCall
           /\ pc = "sync" => CallSoFar = 0
<1>1. /\ req.retries \in 0..RateLimitRetries /\ req.uncertain \in Nat
      /\ req.uncertain <= NetworkAttempts /\ sync.attempt \in 1..UsageSyncAttempts
      /\ pc \in {"sync", "pick", "wait", "returned"}
  BY FreshRequestType DEF TypeInv, TypeOK, Placed, Request, Syncing
<1> DEFINE r == req.retries * (NetworkAttempts - 1)
           a == (sync.attempt - 1) * PerCall
<1>2. /\ r \in Nat /\ r + NetworkAttempts <= PerCall /\ PerCall \in Nat
      /\ a \in Nat /\ a + PerCall <= SyncCalls /\ SyncCalls \in Nat
  BY <1>1, CallBounds
<1>3. /\ pc = "pick" => CallSoFar = r
      /\ pc = "wait" => CallSoFar = r + req.uncertain
      /\ pc = "returned" => CallSoFar = PerCall
      /\ pc = "sync" => CallSoFar = 0
      /\ SlotSoFar = a + CallSoFar
  BY DEF CallSoFar, SlotSoFar
<1> HIDE DEF r, a
<1>4. CallSoFar \in Nat /\ CallSoFar <= PerCall
  BY <1>1, <1>2, <1>3
<1>5. SlotSoFar \in Nat /\ SlotSoFar <= SyncCalls
  BY <1>2, <1>3, <1>4
<1> QED
  BY <1>3, <1>4, <1>5 DEF r

LEMMA SoFarBoundNext ==
    (TypeInv /\ Syncing)' =>
           /\ CallSoFar' \in Nat /\ CallSoFar' <= PerCall
           /\ SlotSoFar' \in Nat /\ SlotSoFar' <= SyncCalls
           /\ pc' = "pick" => CallSoFar' = req'.retries * (NetworkAttempts - 1)
           /\ pc' = "wait" => CallSoFar' = req'.retries * (NetworkAttempts - 1) + req'.uncertain
           /\ pc' = "returned" => CallSoFar' = PerCall
           /\ pc' = "sync" => CallSoFar' = 0
<1>1. (TypeInv /\ Syncing =>
           /\ CallSoFar \in Nat /\ CallSoFar <= PerCall
           /\ SlotSoFar \in Nat /\ SlotSoFar <= SyncCalls
           /\ pc = "pick" => CallSoFar = req.retries * (NetworkAttempts - 1)
           /\ pc = "wait" => CallSoFar = req.retries * (NetworkAttempts - 1) + req.uncertain
           /\ pc = "returned" => CallSoFar = PerCall
           /\ pc = "sync" => CallSoFar = 0)'
  BY SoFarBound, PTL
<1> QED
  BY <1>1

\* Within a call of the sync the credits billed and the room for them grow together
LEMMA LateWait ==
    ASSUME TypeInv, SyncInv, WaitStep, Syncing, \A k \in Keys : LateSync(k)
    PROVE  \A k \in Keys : LateSync(k)'
<1>0. /\ TypeInv' /\ req.fixed /\ req.key = sync.slot /\ pc = "wait" /\ ReqCost = 1 /\ Syncing'
      /\ sync' = sync /\ req.key \in Keys /\ pc' \in {"wait", "pick", "returned"}
  <2>1. pc = "wait" /\ pc' \in {"wait", "pick", "returned"}
    BY WaitCount
  <2>2. req'.fixed = req.fixed /\ sync' = sync
    BY CallKept DEF WaitStep, RequestStep
  <2>3. req.fixed /\ req.key = sync.slot /\ ReqCost = 1 /\ req.key \in Keys
    BY <2>1 DEF Syncing, SyncInv, TypeInv, Placed
  <2>4. TypeInv'
    BY RequestType DEF WaitStep, RequestStep
  <2> QED
    BY <2>1, <2>2, <2>3, <2>4 DEF Syncing
<1>1. PICK n \in {0, ReqCost} : Counted(n)
  BY WaitCount
<1>2. n \in {0, 1} /\ \A k \in Keys : k # sync.slot => billed'[k] = billed[k]
  BY <1>0, <1>1 DEF Counted
<1>3. billed[sync.slot] <= SlotSoFar /\ billed[sync.slot] \in Nat
  BY <1>0 DEF LateSync, TypeInv, TypeOK
<1> DEFINE now  == billed'[sync.slot]
           room == SlotSoFar'
           more == CallSoFar'
           a    == (sync.attempt - 1) * PerCall
<1>4. now = billed[sync.slot] + n
  BY <1>0, <1>1 DEF Counted
<1>5. /\ a \in Nat /\ SlotSoFar = a + CallSoFar /\ room = a + more
      /\ CallSoFar \in Nat /\ more \in Nat
  BY <1>0, CallBounds, SoFarBound, SoFarBoundNext DEF SlotSoFar, TypeInv, TypeOK
<1>6. CallSoFar + n <= more
  <2> DEFINE r == req.retries * (NetworkAttempts - 1)
  <2>1. /\ req.retries \in 0..RateLimitRetries /\ req.uncertain \in Nat
        /\ req.uncertain <= NetworkAttempts - 1
    BY <1>0 DEF TypeInv, TypeOK, Placed, Request
  <2>2. /\ r \in Nat /\ r + NetworkAttempts <= PerCall /\ PerCall \in Nat
        /\ (req.retries + 1) * (NetworkAttempts - 1) = r + (NetworkAttempts - 1)
    BY <2>1, CallBounds
  <2>3. CallSoFar = r + req.uncertain
    BY <1>0, SoFarBound
  <2>4. CASE pc' = "wait"
    <3>1. req'.retries = req.retries /\ req'.uncertain = req.uncertain + 1
      BY <1>1, <2>4 DEF Counted
    <3>2. more = r + (req.uncertain + 1)
      BY <1>0, <2>4, <3>1, SoFarBoundNext
    <3> HIDE DEF r, more
    <3> QED
      BY <1>2, <2>1, <2>2, <2>3, <3>2
  <2>5. CASE pc' = "pick"
    <3>1. req'.retries = req.retries + 1 /\ n = 0
      BY <1>0, <1>1, <2>5 DEF Counted
    <3>2. more = r + (NetworkAttempts - 1)
      BY <1>0, <2>2, <2>5, <3>1, SoFarBoundNext
    <3> HIDE DEF r, more
    <3> QED
      BY <2>1, <2>2, <2>3, <3>1, <3>2
  <2>6. CASE pc' = "returned"
    <3>1. more = PerCall
      BY <1>0, <2>6, SoFarBoundNext
    <3> HIDE DEF r, more
    <3> QED
      BY <1>2, <2>1, <2>2, <2>3, <3>1
  <2> QED
    BY <1>0, <2>4, <2>5, <2>6
<1> HIDE DEF now, room, more, a
<1>7. now <= room
  BY <1>2, <1>3, <1>4, <1>5, <1>6
<1>8. billed'[sync.slot] <= SlotSoFar'
  BY <1>7 DEF now, room
<1>9. sync'.slot = sync.slot
  BY <1>0
<1> QED
  <2> SUFFICES ASSUME NEW k \in Keys PROVE LateSync(k)'
    OBVIOUS
  <2>1. CASE k = sync.slot
    BY <1>0, <1>8, <1>9, <2>1 DEF LateSync, Keys
  <2>2. CASE k # sync.slot
    <3>1. billed'[k] = billed[k] /\ LateSync(k)
      BY <1>2, <2>2
    <3> QED
      BY <1>9, <2>2, <3>1 DEF LateSync
  <2> QED
    BY <2>1, <2>2

\* The steps of a sync between its calls
LEMMA LateBetween ==
    ASSUME TypeInv, SyncInv, QuietStep \/ SyncRead, Syncing, Syncing', \A k \in Keys : LateSync(k)
    PROVE  \A k \in Keys : LateSync(k)'
<1>0. /\ TypeInv' /\ SyncInv' /\ billed' = billed
      /\ sync.slot \in Nat /\ sync'.slot \in Nat
      /\ sync.attempt \in 1..UsageSyncAttempts /\ sync'.attempt \in 1..UsageSyncAttempts
      /\ \A k \in Keys : k \in Nat /\ billed[k] \in Nat
      /\ SlotSoFar \in Nat /\ SlotSoFar <= SyncCalls /\ SlotSoFar' \in Nat
      /\ SyncCalls \in Nat
  <2>1. [Next]_vars
    BY DEF Next, QuietStep, SyncStep, PhaseStep, RequestStep
  <2>2. TypeInv' /\ SyncInv'
    BY <2>1, TypeStep, SyncKept
  <2>3. billed' = billed
    BY QuietCount, ReadCount
  <2>4. SlotSoFar \in Nat /\ SlotSoFar <= SyncCalls /\ SlotSoFar' \in Nat /\ SyncCalls \in Nat
    BY <2>2, SoFarBound, SoFarBoundNext, CallBounds
  <2>5. /\ sync.slot \in Nat /\ sync'.slot \in Nat
        /\ sync.attempt \in 1..UsageSyncAttempts /\ sync'.attempt \in 1..UsageSyncAttempts
    BY <2>2 DEF TypeInv, TypeOK
  <2>6. \A k \in Keys : k \in Nat /\ billed[k] \in Nat
    BY DEF TypeInv, TypeOK, Keys
  <2> QED
    BY <2>2, <2>3, <2>4, <2>5, <2>6
\* the slot moves on: nothing was billed to the next one
<1>1. ASSUME sync'.slot = sync.slot + 1
      PROVE  \A k \in Keys : LateSync(k)'
  <2> SUFFICES ASSUME NEW k \in Keys PROVE LateSync(k)'
    OBVIOUS
  <2>1. LateSync(k) /\ billed'[k] = billed[k]
    BY <1>0
  <2>2. CASE k <= sync.slot
    <3>1. billed[k] <= SyncCalls
      BY <1>0, <2>1, <2>2 DEF LateSync
    <3> QED
      BY <1>0, <1>1, <2>1, <2>2, <3>1 DEF LateSync
  <2>3. CASE sync.slot < k
    <3>1. billed'[k] = 0
      BY <1>0, <2>1, <2>3 DEF LateSync
    <3>2. billed'[k] <= SlotSoFar'
      BY <1>0, <3>1
    <3> QED
      BY <1>0, <1>1, <2>3, <3>1, <3>2 DEF LateSync
  <2> QED
    BY <1>0, <2>2, <2>3
\* the same slot: a new call, or the next round of one
<1>2. ASSUME sync'.slot = sync.slot, SlotSoFar <= SlotSoFar'
      PROVE  \A k \in Keys : LateSync(k)'
  <2> SUFFICES ASSUME NEW k \in Keys PROVE LateSync(k)'
    OBVIOUS
  <2>1. LateSync(k) /\ billed'[k] = billed[k]
    BY <1>0
  <2> DEFINE room == SlotSoFar'
  <2>2. SlotSoFar <= room /\ room \in Nat
    BY <1>0, <1>2
  <2> HIDE DEF room
  <2>3. k = sync.slot => billed[k] <= room
    BY <1>0, <2>1, <2>2 DEF LateSync
  <2>4. k = sync.slot => billed'[k] <= SlotSoFar'
    BY <2>1, <2>3 DEF room
  <2> QED
    BY <1>0, <1>2, <2>1, <2>4 DEF LateSync
<1>3. CASE SyncSkip \/ SyncExclude \/ SyncRead
  <2>1. sync' = [slot |-> sync.slot + 1, attempt |-> 1]
    BY <1>3 DEF SyncSkip, SyncExclude, SyncRead
  <2>2. sync'.slot = sync.slot + 1
    BY <2>1
  <2> QED
    BY <1>1, <2>2
<1>4. CASE SyncAsk
  <2>1. pc = "sync" /\ pc' = "pick" /\ sync' = sync /\ req' = Call("api_usage", sync.slot)
    BY <1>4 DEF SyncAsk
  <2>2. CallSoFar = 0
    BY <2>1, SoFarBound
  <2>3. CallSoFar' \in Nat
    BY <1>0, SoFarBoundNext
  <2> DEFINE a    == (sync.attempt - 1) * PerCall
             more == CallSoFar'
             room == SlotSoFar'
  <2>4. a \in Nat /\ SlotSoFar = a + CallSoFar /\ room = a + more /\ more \in Nat
    BY <1>0, <2>1, <2>3, CallBounds DEF SlotSoFar
  <2> HIDE DEF a, more, room
  <2>5. SlotSoFar <= room
    BY <2>2, <2>4
  <2> QED
    BY <1>2, <2>1, <2>5 DEF room
<1>5. CASE SyncRetry
  <2>1. pc = "returned" /\ sync' = [sync EXCEPT !.attempt = sync.attempt + 1]
    BY <1>5 DEF SyncRetry
  <2>2. CallSoFar = PerCall
    BY <2>1, SoFarBound
  <2>3. CallSoFar' \in Nat
    BY <1>0, SoFarBoundNext
  <2>4. sync'.slot = sync.slot /\ sync'.attempt = sync.attempt + 1
    BY <2>1 DEF TypeInv, TypeOK
  <2> DEFINE a    == (sync.attempt - 1) * PerCall
             more == CallSoFar'
             room == SlotSoFar'
  <2>5. /\ a \in Nat /\ PerCall \in Nat /\ SlotSoFar = a + CallSoFar
        /\ room = ((sync.attempt + 1) - 1) * PerCall + more /\ more \in Nat
    BY <1>0, <2>3, <2>4, CallBounds DEF SlotSoFar
  <2>6. ((sync.attempt + 1) - 1) * PerCall = a + PerCall
    BY <1>0, CallBounds
  <2> HIDE DEF a, more, room
  <2>7. SlotSoFar <= room
    BY <2>2, <2>5, <2>6
  <2> QED
    BY <1>2, <2>4, <2>7 DEF room
<1>6. CASE PickKey \/ NothingCanPay
  <2>1. pc = "pick" /\ sync' = sync /\ pc' \in {"wait", "returned"}
    BY <1>6 DEF PickKey, NothingCanPay, Return
  <2> DEFINE a    == (sync.attempt - 1) * PerCall
             r    == req.retries * (NetworkAttempts - 1)
             more == CallSoFar'
             room == SlotSoFar'
  <2>2. /\ req.retries \in 0..RateLimitRetries /\ req \in Request
    BY DEF TypeInv, TypeOK, Request
  <2>3. CallSoFar = r /\ r \in Nat /\ r + NetworkAttempts <= PerCall /\ PerCall \in Nat
    BY <2>1, <2>2, CallBounds, SoFarBound
  <2>4. ASSUME PickKey PROVE more = r
    <3>1. req.fixed /\ req' = Round(req, 1, 0)
      BY <2>1, <2>4 DEF Syncing, PickKey
    <3>2. req'.retries = req.retries /\ req'.uncertain = 0 /\ pc' = "wait"
      <4>1. 1 \in 1..NetworkAttempts /\ 0 \in 0..NetworkAttempts
        OBVIOUS
      <4> QED
        BY <2>2, <2>4, <3>1, <4>1, RoundType, RoundRetries DEF PickKey
    <3>3. more = r + 0
      BY <1>0, <3>2, SoFarBoundNext
    <3> HIDE DEF more, r
    <3> QED
      BY <2>3, <3>3
  <2>5. ASSUME NothingCanPay PROVE more = PerCall
    <3>1. pc' = "returned"
      BY <2>5 DEF NothingCanPay, Return
    <3> QED
      BY <1>0, <3>1, SoFarBoundNext
  <2>6. a \in Nat /\ SlotSoFar = a + CallSoFar /\ room = a + more
    BY <1>0, <2>1, CallBounds DEF SlotSoFar
  <2>7. more \in Nat /\ r <= more
    <3>1. more \in Nat
      BY <1>0, SoFarBoundNext
    <3> HIDE DEF a, r, more, room
    <3>2. CASE more = r
      BY <2>3, <3>1, <3>2
    <3>3. CASE more = PerCall
      BY <2>3, <3>1, <3>3
    <3> QED
      BY <1>6, <2>4, <2>5, <3>1, <3>2, <3>3
  <2> HIDE DEF a, r, more, room
  <2>8. SlotSoFar <= room
    BY <2>3, <2>6, <2>7
  <2> QED
    BY <1>2, <2>1, <2>8 DEF room
<1>7. CASE SyncEnd \/ BeginPhase \/ NextLoop \/ SymbolStep
  BY <1>7, FreshRequestType
  DEF SyncEnd, BeginPhase, NextLoop, SymbolStep, StartCoreSymbol, CoreBudgetGone, StartOneCall,
      StartCatalogCall, SecondCall, SymbolDone, SymbolExhausted, CatalogDone, Syncing,
      TypeInv, Placed
<1> QED
  BY <1>3, <1>4, <1>5, <1>6, <1>7 DEF QuietStep

\* After the sync: a key whose bucket is of today misses at most the slack; until
\* its bucket is refreshed, at most the attempts of the call that saw midnight.
Missed(k) == IF pc = "wait" /\ req.key = k THEN req.uncertain ELSE NetworkAttempts

LateRun(k) ==
    /\ bucket[k].date = today => billed[k] <= bucket[k].used + MidnightSlack + Own(k)
    /\ bucket[k].date # today => billed[k] <= Missed(k)

LateInv ==
    (synced /\ startDay < today) =>
       \A k \in Keys : IF Syncing THEN LateSync(k) ELSE LateRun(k)

LEMMA LateInit == Init => LateInv
BY DEF Init, LateInv

LEMMA SlackType == MidnightSlack \in Nat /\ NetworkAttempts <= MidnightSlack
BY CallBounds DEF MidnightSlack

\* The calls of a run after its sync
LEMMA LateCalls ==
    ASSUME TypeInv, WaitStep, NEW k \in Keys, LateRun(k)
    PROVE  LateRun(k)'
<1>0. /\ UNCHANGED <<today, startDay, syncDay>> /\ bucket'[k].date = bucket[k].date
      /\ pc = "wait"
  BY CallKept, WaitCount DEF WaitStep, RequestStep, Counted
<1>1. MidnightSlack' = MidnightSlack /\ MidnightSlack \in Nat
  BY <1>0, SlackType DEF MidnightSlack
<1>2. ASSUME bucket'[k].date = today'
      PROVE  billed'[k] <= bucket'[k].used + MidnightSlack' + Own(k)'
  <2>1. billed[k] <= bucket[k].used + MidnightSlack + Own(k)
    BY <1>0, <1>2 DEF LateRun
  <2>2. billed'[k] <= bucket'[k].used + MidnightSlack + Own(k)'
    BY <1>1, <2>1, WaitGap
  <2> QED
    BY <1>1, <2>2
<1>3. ASSUME bucket'[k].date # today'
      PROVE  billed'[k] <= Missed(k)'
  <2>1. billed[k] <= Missed(k) /\ billed[k] \in Nat
    BY <1>0, <1>3 DEF LateRun, TypeInv, TypeOK
  <2>2. /\ req.uncertain \in Nat /\ req.uncertain + 1 <= NetworkAttempts /\ ReqCost \in {0, 1}
    BY <1>0, CostOfCall DEF TypeInv, TypeOK, Placed, Request
  <2>3. PICK n \in {0, ReqCost} : Counted(n)
    BY WaitCount
  <2> DEFINE now == billed'[k]
  <2>4. CASE k # req.key
    <3>1. billed'[k] = billed[k] /\ Missed(k) = NetworkAttempts /\ Missed(k)' = NetworkAttempts
      BY <2>3, <2>4 DEF Counted, Missed
    <3> QED
      BY <2>1, <3>1
  <2>5. CASE k = req.key
    <3>1. now = billed[k] + n /\ n \in {0, 1} /\ billed[k] <= req.uncertain
      BY <1>0, <2>1, <2>2, <2>3, <2>5 DEF Counted, Missed
    <3>2. Missed(k)' \in {req.uncertain + 1, NetworkAttempts}
      BY <2>3, <2>5 DEF Counted, Missed
    <3> HIDE DEF now
    <3>3. now <= req.uncertain + 1 /\ now <= NetworkAttempts
      BY <2>1, <2>2, <3>1
    <3> QED
      BY <3>2, <3>3 DEF now
  <2> QED
    BY <2>4, <2>5
<1> QED
  BY <1>2, <1>3 DEF LateRun

\* Between the calls of a run: nothing is billed, and no call starts to wait before
\* its bucket is refreshed
LEMMA LateQuiet ==
    ASSUME TypeInv, QuietStep, ~Syncing, ~Syncing', syncDay' = syncDay, NEW k \in Keys, LateRun(k)
    PROVE  LateRun(k)'
<1>0. /\ TypeInv' /\ UNCHANGED <<today, startDay, billed>> /\ pc # "wait" /\ Own(k) = 0
      /\ Own(k)' \in Nat /\ bucket \in [Keys -> Bucket] /\ billed[k] \in Nat
      /\ bucket[k].used \in Nat /\ MidnightSlack \in Nat /\ NetworkAttempts <= MidnightSlack
      /\ MidnightSlack' = MidnightSlack
  <2>1. [Next]_vars
    BY DEF Next, QuietStep, SyncStep, PhaseStep, RequestStep
  <2>2. TypeInv'
    BY <2>1, TypeStep
  <2>3. UNCHANGED <<today, startDay, billed>> /\ pc # "wait"
    BY QuietCount
  <2>4. MidnightSlack' = MidnightSlack
    BY <2>3 DEF MidnightSlack
  <2>5. Own(k) = 0 /\ Own(k)' \in Nat
    BY <2>2, <2>3, OwnType, OwnTypeNext
  <2> QED
    BY <2>2, <2>3, <2>4, <2>5, SlackType DEF TypeInv, TypeOK, Bucket
<1> DEFINE own == Own(k)'
<1>1. CASE bucket' = RefreshDay(bucket)
  <2>1. bucket'[k].date = today'
    BY <1>0, <1>1, RefreshCount
  <2>2. CASE bucket[k].date = today
    <3>1. billed[k] <= bucket[k].used + MidnightSlack + Own(k) /\ bucket'[k] = bucket[k]
      BY <1>0, <1>1, <2>2, RefreshCount DEF LateRun
    <3> HIDE DEF own
    <3>2. billed[k] <= bucket[k].used + MidnightSlack + own
      BY <1>0, <3>1 DEF own
    <3>3. billed'[k] <= bucket'[k].used + MidnightSlack' + Own(k)'
      BY <1>0, <3>1, <3>2 DEF own
    <3> QED
      BY <2>1, <3>3 DEF LateRun
  <2>3. CASE bucket[k].date # today
    <3>1. billed[k] <= NetworkAttempts /\ bucket'[k].used = 0
      BY <1>0, <1>1, <2>3, RefreshCount DEF LateRun, Missed
    <3> HIDE DEF own
    <3>2. billed[k] <= 0 + MidnightSlack + own
      BY <1>0, <3>1 DEF own
    <3>3. billed'[k] <= bucket'[k].used + MidnightSlack' + Own(k)'
      BY <1>0, <3>1, <3>2 DEF own
    <3> QED
      BY <2>1, <3>3 DEF LateRun
  <2> QED
    BY <2>2, <2>3
<1>2. CASE bucket' # RefreshDay(bucket)
  <2>1. bucket' = bucket
    BY <1>2, QuietCount
  <2>2. pc' # "wait"
    <3>1. CASE PickKey
      BY <1>2, <3>1 DEF PickKey, Syncing
    <3>2. CASE ~PickKey
      BY <3>2
      DEF QuietStep, SyncSkip, SyncAsk, SyncRetry, SyncExclude, SyncEnd, BeginPhase, NextLoop,
          SymbolStep, StartCoreSymbol, CoreBudgetGone, StartOneCall, StartCatalogCall, SecondCall,
          SymbolDone, SymbolExhausted, CatalogDone, NothingCanPay, Return
    <3> QED
      BY <3>1, <3>2
  <2>3. CASE bucket[k].date = today
    <3>1. billed[k] <= bucket[k].used + MidnightSlack + Own(k)
      BY <2>3 DEF LateRun
    <3> HIDE DEF own
    <3>2. billed[k] <= bucket[k].used + MidnightSlack + own
      BY <1>0, <3>1 DEF own
    <3>3. billed'[k] <= bucket'[k].used + MidnightSlack' + Own(k)'
      BY <1>0, <2>1, <3>2 DEF own
    <3> QED
      BY <1>0, <2>1, <2>3, <3>3 DEF LateRun
  <2>4. CASE bucket[k].date # today
    BY <1>0, <2>1, <2>2, <2>4 DEF LateRun, Missed
  <2> QED
    BY <2>3, <2>4
<1> QED
  BY <1>1, <1>2

LEMMA LateKept ==
    TypeInv /\ SyncInv /\ DayInv /\ LateInv /\ [Next]_vars => LateInv'
<1> SUFFICES ASSUME TypeInv, SyncInv, DayInv, LateInv, [Next]_vars,
                    synced', startDay' < today'
             PROVE  \A k \in Keys : (IF Syncing THEN LateSync(k) ELSE LateRun(k))'
  BY DEF LateInv
<1>0. /\ TypeInv' /\ SyncInv'
  BY TypeStep, SyncKept
<1>1. CASE WaitStep
  <2>1. UNCHANGED <<today, startDay, synced>> /\ (Syncing' <=> Syncing)
    <3>1. UNCHANGED <<today, startDay, synced>> /\ req'.fixed = req.fixed
      BY <1>1, CallKept DEF WaitStep, RequestStep
    <3>2. pc # "sync" /\ pc' # "sync"
      BY <1>1, WaitCount
    <3> QED
      BY <3>1, <3>2 DEF Syncing
  <2>2. CASE Syncing
    <3>1. \A k \in Keys : LateSync(k)
      BY <2>1, <2>2 DEF LateInv
    <3> QED
      BY <1>1, <2>1, <2>2, <3>1, LateWait
  <2>3. CASE ~Syncing
    <3>1. \A k \in Keys : LateRun(k)
      BY <2>1, <2>3 DEF LateInv
    <3> QED
      BY <1>1, <2>1, <2>3, <3>1, LateCalls
  <2> QED
    BY <2>2, <2>3
<1>2. CASE SyncEnd
  <2>1. /\ UNCHANGED <<today, startDay, synced, billed>> /\ Syncing /\ ~Syncing' /\ pc' # "wait"
        /\ sync.slot > KeyCount /\ syncDay' = today /\ bucket' = RefreshDay(bucket)
    <3>1. ~req.fixed
      BY <1>2, FreshRequestType DEF SyncEnd, TypeInv, Placed
    <3> QED
      BY <1>2, <3>1 DEF SyncEnd, Syncing, envVars
  <2>2. SyncCalls \in Nat /\ MidnightSlack' = SyncCalls
    BY <2>1, CallBounds DEF MidnightSlack, TypeInv, TypeOK
  <2> SUFFICES ASSUME NEW k \in Keys PROVE LateRun(k)'
    BY <2>1
  <2>3. k < sync.slot
    BY <2>1 DEF Keys, TypeInv, TypeOK
  <2>4. billed[k] <= SyncCalls /\ billed[k] \in Nat
    BY <2>1, <2>3 DEF LateInv, LateSync, TypeInv, TypeOK
  <2>5. /\ bucket'[k].date = today' /\ bucket'[k].used \in Nat /\ Own(k)' \in Nat
    BY <1>0, <2>1, RefreshCount, OwnTypeNext DEF TypeInv, TypeOK, Bucket
  <2> DEFINE used == bucket'[k].used
             own  == Own(k)'
  <2>6. used \in Nat /\ own \in Nat
    BY <2>5
  <2> HIDE DEF used, own
  <2>7. billed[k] <= used + SyncCalls + own
    BY <2>2, <2>4, <2>6
  <2>8. billed'[k] <= bucket'[k].used + MidnightSlack' + Own(k)'
    BY <2>1, <2>2, <2>7 DEF used, own
  <2> QED
    BY <2>5, <2>8 DEF LateRun
<1>3. CASE (QuietStep /\ ~SyncEnd) \/ SyncRead
  <2>1. UNCHANGED <<today, startDay, synced>>
    BY <1>3, QuietCount, ReadCount
  <2>2. Syncing' <=> Syncing
    <3>1. CASE SyncRead
      BY <3>1, ReadCount DEF Syncing
    <3>2. CASE SyncSkip \/ SyncAsk \/ SyncRetry \/ SyncExclude
      <4>1. Syncing
        BY <3>2 DEF SyncSkip, SyncAsk, SyncRetry, SyncExclude, Syncing
      <4>2. CASE SyncSkip \/ SyncExclude
        BY <4>1, <4>2 DEF SyncSkip, SyncExclude, Syncing
      <4>3. CASE SyncAsk \/ SyncRetry
        <5>1. req' = Call("api_usage", sync.slot) /\ sync.slot # 0
          BY <4>3 DEF SyncAsk, SyncRetry, TypeInv, TypeOK
        <5>2. req'.fixed
          BY <5>1, CallFields
        <5> QED
          BY <4>1, <5>2 DEF Syncing
      <4> QED
        BY <3>2, <4>2, <4>3
    <3>3. CASE PickKey \/ NothingCanPay
      <4>1. req'.fixed = req.fixed /\ pc # "sync" /\ pc' # "sync"
        BY <3>3, CallKept DEF RequestStep
      <4> QED
        BY <4>1 DEF Syncing
    <3>4. CASE BeginPhase \/ NextLoop \/ SymbolStep
      <4>1. ~Syncing
        BY <3>4, FreshRequestType
        DEF BeginPhase, NextLoop, SymbolStep, StartCoreSymbol, CoreBudgetGone, StartOneCall,
            StartCatalogCall, SecondCall, SymbolDone, SymbolExhausted, CatalogDone, Syncing,
            TypeInv, Placed
      <4>2. QuietStep
        BY <3>4 DEF QuietStep
      <4> QED
        BY <4>1, <4>2, QuietCount
    <3> QED
      BY <1>3, <3>1, <3>2, <3>3, <3>4 DEF QuietStep
  <2>3. CASE Syncing
    <3>1. \A k \in Keys : LateSync(k)
      BY <2>1, <2>3 DEF LateInv
    <3> QED
      BY <1>3, <2>2, <2>3, <3>1, LateBetween
  <2>4. CASE ~Syncing
    <3>1. \A k \in Keys : LateRun(k)
      BY <2>1, <2>4 DEF LateInv
    <3>2. ~SyncRead
      BY <2>4 DEF SyncRead, Syncing
    <3>3. syncDay' = syncDay
      BY <1>3, <3>2
      DEF QuietStep, SyncSkip, SyncAsk, SyncRetry, SyncExclude, BeginPhase, NextLoop,
          SymbolStep, StartCoreSymbol, CoreBudgetGone, StartOneCall, StartCatalogCall, SecondCall,
          SymbolDone, SymbolExhausted, CatalogDone, PickKey, NothingCanPay, histVars
    <3> QED
      BY <1>3, <2>2, <2>4, <3>1, <3>2, <3>3, LateQuiet
  <2> QED
    BY <2>3, <2>4
<1>4. CASE BoundaryStep
  <2>1. Live'
    BY <1>0 DEF SyncInv
  <2>2. startDay' = today /\ today' = today
    BY <1>4, <2>1, BoundaryCount
  <2> QED
    BY <2>2 DEF TypeInv, TypeOK
<1>5. CASE Midnight
  <2>1. /\ \A k \in Keys : billed'[k] = 0
        /\ UNCHANGED <<memVars, ctlVars, histVars>>
    BY <1>5 DEF Midnight
  <2>2. MidnightSlack' \in Nat
    BY <1>0, CallBounds DEF MidnightSlack
  <2> SUFFICES ASSUME NEW k \in Keys PROVE (IF Syncing THEN LateSync(k) ELSE LateRun(k))'
    OBVIOUS
  <2>3. ASSUME Syncing' PROVE LateSync(k)'
    <3>1. SlotSoFar' \in Nat /\ SyncCalls \in Nat
      BY <1>0, <2>3, SoFarBoundNext, CallBounds
    <3>2. billed'[k] <= SlotSoFar' /\ billed'[k] <= SyncCalls
      BY <2>1, <3>1
    <3> QED
      BY <2>1, <3>2 DEF LateSync
  <2>4. LateRun(k)'
    <3>1. Own(k)' \in Nat /\ bucket'[k].used \in Nat /\ Missed(k)' \in Nat
      BY <1>0, OwnTypeNext DEF TypeInv, TypeOK, Bucket, Request, Missed
    <3> DEFINE slack == MidnightSlack'
               used  == bucket'[k].used
               own   == Own(k)'
    <3>2. slack \in Nat /\ used \in Nat /\ own \in Nat
      BY <2>2, <3>1
    <3> HIDE DEF slack, used, own
    <3>3. 0 <= used + slack + own
      BY <3>2
    <3>4. billed'[k] <= bucket'[k].used + MidnightSlack' + Own(k)'
      BY <2>1, <3>3 DEF slack, used, own
    <3>5. billed'[k] <= Missed(k)'
      BY <2>1, <3>1
    <3> QED
      BY <3>4, <3>5 DEF LateRun
  <2> QED
    BY <2>3, <2>4
<1>6. CASE \E j \in Keys : ExternalUse(j)
  BY <1>6 DEF ExternalUse, SyncInv, Live, histVars
<1>7. CASE UNCHANGED vars
  BY <1>7 DEF vars, envVars, memVars, ctlVars, histVars, LateInv, LateSync, LateRun, Syncing,
              SlotSoFar, CallSoFar, MidnightSlack, Own, InFlight, ReqCost, Missed
<1> QED
  BY <1>1, <1>2, <1>3, <1>4, <1>5, <1>6, <1>7, StepKinds

\* A key whose usage the run has read misses, after midnight UTC, at most the
\* attempts of the one call that was under way, or the calls of a sync that ran into
\* midnight: for any keys, limits, attempts and retries, and any number of midnights.
THEOREM MidnightBounded == Spec => []MidnightUndercountBound
<1>1. ASSUME TypeInv, SyncInv, DayInv, VerifiedKeyCovered, LateInv
      PROVE  MidnightUndercountBound
  <2> SUFFICES ASSUME NEW k \in verified, bucket[k].date = today
               PROVE  billed[k] <= bucket[k].used + MidnightSlack + Own(k)
    BY DEF MidnightUndercountBound, Own
  <2>1. /\ k \in Keys /\ Live /\ synced
        /\ billed[k] \in Nat /\ bucket[k].used \in Nat /\ Own(k) \in Nat /\ MidnightSlack \in Nat
    BY <1>1, OwnType, SlackType DEF TypeInv, TypeOK, Bucket, SyncInv
  <2>2. CASE today = startDay
    <3>1. billed[k] <= bucket[k].used + Own(k)
      BY <1>1, <2>2 DEF VerifiedKeyCovered, Own
    <3> QED
      BY <2>1, <3>1
  <2>3. CASE today # startDay
    <3>1. startDay < today
      BY <1>1, <2>3 DEF DayInv, TypeInv, TypeOK
    <3>2. ~Syncing
      BY <1>1, <2>1, <2>3 DEF DayInv
    <3> QED
      BY <1>1, <2>1, <3>1, <3>2 DEF LateInv, LateRun
  <2> QED
    BY <2>2, <2>3
<1> QED
  BY <1>1, TypeInit, TypeStep, SyncInit, SyncKept, DayInit, DayKept, ReportInit, ReportKept,
     VerifiedInit, VerifiedKept, LateInit, LateKept, PTL DEF Spec

(***************************************************************************)
(* Progress of a paid call                                                 *)
(***************************************************************************)

\* The key of a paid call that waits could pay for it when the pool chose it,
\* and its bucket is as it was then.
PayerInv ==
    (pc = "wait" /\ ~req.fixed /\ ReqCost > 0) =>
        req.key \in active /\ ReqCost <= Remaining(bucket[req.key])

\* A call waits because it was given a key, lost an attempt, or waited before.
LEMMA WaitReached ==
    ASSUME TypeInv, Next, pc' = "wait"
    PROVE  PickKey \/ AttemptLost \/ Midnight
<1>1. CASE WaitStep
  BY <1>1 DEF WaitStep, RequestLost, Answer, AnswerOk, AnswerDayLimit, AnswerMinuteLimit,
              AnswerForbidden, AnswerRejected, Return
<1>2. CASE SyncStep \/ PhaseStep \/ SymbolStep \/ NothingCanPay
  BY <1>2 DEF SyncStep, SyncSkip, SyncAsk, SyncRead, SyncRetry, SyncExclude, SyncEnd, PhaseStep,
              BeginPhase, NextLoop, FinishRun, FinishCatalog, Interrupt, Gone, SymbolStep,
              StartCoreSymbol, CoreBudgetGone, StartOneCall, StartCatalogCall, SecondCall,
              SymbolDone, SymbolExhausted, CatalogDone, NothingCanPay, Return
<1>3. CASE RunStart \/ StartCatalog
  BY <1>3 DEF RunStart, StartRun, StartCatalog
<1>4. CASE Environment
  BY <1>4 DEF Environment, ExternalUse, Crash, Gone, ctlVars
<1> QED
  BY <1>1, <1>2, <1>3, <1>4 DEF Next, RequestStep, WaitStep

\* The call after a lost attempt
LEMMA LostRequest ==
    ASSUME TypeInv, AttemptLost
    PROVE  /\ SameCall(req', req) /\ req'.key = req.key /\ req'.retries = req.retries
           /\ req.attempt \in Nat /\ req'.attempt = req.attempt + 1
           /\ pc = "wait" /\ pc' = "wait" /\ UNCHANGED <<today, bucket, active>>
<1>1. /\ req \in Request /\ req.attempt + 1 \in 1..NetworkAttempts
      /\ req.uncertain + 1 \in 0..NetworkAttempts /\ req.attempt \in Nat
  BY DEF AttemptLost, TypeInv, TypeOK, Placed, Request
<1>2. req' = Round(req, req.attempt + 1, req.uncertain + 1)
  BY DEF AttemptLost
<1>3. UNCHANGED <<today, bucket, active>> /\ pc = "wait" /\ pc' = "wait"
  BY DEF AttemptLost, Bill, memVars
<1> QED
  BY <1>1, <1>2, <1>3, RoundType, RoundRetries

\* The call after a key was found for it, and its key
LEMMA PickedRequest ==
    ASSUME TypeInv, PickKey
    PROVE  /\ SameCall(req', req) /\ req'.retries = req.retries /\ req'.attempt = 1
           /\ pc = "pick" /\ pc' = "wait" /\ UNCHANGED <<today, active>>
           /\ req.fixed => bucket' = bucket
           /\ ~req.fixed => /\ bucket' = RefreshDay(bucket)
                            /\ req'.key \in Payers(bucket', ReqCost)
<1>1. /\ req \in Request /\ 1 \in 1..NetworkAttempts /\ 0 \in 0..NetworkAttempts
  BY DEF TypeInv, TypeOK
<1>2. SameCall(req', req) /\ req'.attempt = 1
  BY PickKeyRequest
<1>3. pc = "pick" /\ pc' = "wait" /\ UNCHANGED <<today, active>>
  BY DEF PickKey, envVars
<1>4. CASE req.fixed
  <2>1. req' = Round(req, 1, 0) /\ bucket' = bucket
    BY <1>4 DEF PickKey
  <2>2. req'.retries = req.retries
    BY <1>1, <2>1, RoundRetries
  <2> QED
    BY <1>2, <1>3, <1>4, <2>1, <2>2
<1>5. CASE ~req.fixed
  <2>1. bucket' = RefreshDay(bucket)
    BY <1>5 DEF PickKey
  <2>2. PICK k \in Payers(bucket', ReqCost) : req' = Round([req EXCEPT !.key = k], 1, 0)
    BY <1>5 DEF PickKey
  <2>3. k \in Keys \cup {0}
    BY DEF Payers, TypeInv, TypeOK
  <2> DEFINE r1 == [req EXCEPT !.key = k]
  <2>4. r1 \in Request /\ r1.key = k /\ r1.retries = req.retries
    BY <1>1, <2>3, KeyField DEF SameCall
  <2> HIDE DEF r1
  <2>5. req' = Round(r1, 1, 0)
    BY <2>2 DEF r1
  <2>6. req'.retries = req.retries /\ req'.key = k
    BY <1>1, <2>4, <2>5, RoundType, RoundRetries
  <2> QED
    BY <1>2, <1>3, <1>5, <2>1, <2>6
<1> QED
  BY <1>4, <1>5

LEMMA PayerInit == Init => PayerInv
BY DEF Init, PayerInv

LEMMA PayerKept == TypeInv /\ PayerInv /\ [Next]_vars => PayerInv'
<1> SUFFICES ASSUME TypeInv, PayerInv, [Next]_vars, pc' = "wait", ~req'.fixed, ReqCost' > 0
             PROVE  req'.key \in active' /\ ReqCost' <= Remaining(bucket'[req'.key])
  BY DEF PayerInv, Remaining
<1>1. CASE PickKey
  <2>1. /\ ~req.fixed /\ ReqCost' = ReqCost /\ req'.key \in Payers(bucket', ReqCost)
        /\ active' = active
    BY <1>1, PickedRequest DEF SameCall, ReqCost
  <2> QED
    BY <2>1 DEF Payers
<1>2. CASE AttemptLost
  <2>1. /\ pc = "wait" /\ ~req.fixed /\ ReqCost' = ReqCost /\ req'.key = req.key
        /\ bucket' = bucket /\ active' = active
    BY <1>2, LostRequest DEF SameCall, ReqCost
  <2> QED
    BY <2>1 DEF PayerInv
<1>3. CASE Midnight \/ UNCHANGED vars
  <2>1. UNCHANGED <<pc, req, bucket, active>>
    BY <1>3 DEF Midnight, memVars, ctlVars, vars
  <2>2. ReqCost' = ReqCost
    BY <2>1 DEF ReqCost
  <2> QED
    BY <2>1, <2>2 DEF PayerInv
<1> QED
  BY <1>1, <1>2, <1>3, WaitReached

\* The call after the daily-limit answer: its key is used up
LEMMA LimitedRequest ==
    ASSUME TypeInv, AnswerDayLimit, pc' = "pick"
    PROVE  /\ SameCall(req', req) /\ req'.retries = req.retries
           /\ pc = "wait" /\ ~req.fixed /\ UNCHANGED <<today, active>>
           /\ bucket' \in [Keys -> Bucket]
           /\ \A k \in Keys : /\ bucket'[k].date = bucket[k].date
                              /\ bucket'[k].used >= bucket[k].used
           /\ bucket'[req.key].used >= DailyLimit
<1>1. /\ pc = "wait" /\ ~req.fixed /\ UNCHANGED <<today, active>>
      /\ req' = Round([req EXCEPT !.key = 0], 1, 0)
      /\ bucket' = Exhaust(Spend(bucket, req.key, ReqCost * req.uncertain), req.key)
  BY DEF AnswerDayLimit, Return, envVars
<1>2. /\ req \in Request /\ 1 \in 1..NetworkAttempts /\ 0 \in 0..NetworkAttempts
      /\ 0 \in Keys \cup {0} /\ bucket \in [Keys -> Bucket] /\ req.key \in Keys
      /\ ReqCost * req.uncertain \in Nat
  BY <1>1, ChargeType DEF TypeInv, TypeOK
<1>3. SameCall(req', req) /\ req'.retries = req.retries
  <2> DEFINE r1 == [req EXCEPT !.key = 0]
  <2>1. SameCall(r1, req) /\ r1 \in Request /\ r1.retries = req.retries
    BY <1>2, KeyField DEF SameCall
  <2> HIDE DEF r1
  <2>2. req' = Round(r1, 1, 0)
    BY <1>1 DEF r1
  <2> QED
    BY <1>2, <2>1, <2>2, RoundType, RoundRetries DEF SameCall
<1> DEFINE n  == ReqCost * req.uncertain
           b1 == Spend(bucket, req.key, n)
<1>4. n \in Nat
  BY <1>2
<1> HIDE DEF n
<1>5. /\ b1 \in [Keys -> Bucket] /\ b1[req.key].date = bucket[req.key].date
      /\ b1[req.key].used = bucket[req.key].used + n
      /\ \A j \in Keys \ {req.key} : b1[j] = bucket[j]
  BY <1>2, <1>4, SpendType, SpendCount
<1>6. bucket' = Exhaust(b1, req.key)
  BY <1>1 DEF n
<1> HIDE DEF b1
<1>7. /\ bucket' \in [Keys -> Bucket] /\ bucket'[req.key].date = b1[req.key].date
      /\ bucket'[req.key].used >= b1[req.key].used
      /\ \A j \in Keys \ {req.key} : bucket'[j] = b1[j]
  BY <1>2, <1>4, <1>5, <1>6, SpendType, ExhaustCount
<1>8. bucket'[req.key].used >= DailyLimit
  BY <1>2, <1>5, <1>6 DEF Exhaust, Bucket
<1>9. \A k \in Keys : /\ bucket'[k].date = bucket[k].date
                      /\ bucket'[k].used >= bucket[k].used
  <2>1. bucket[req.key].used \in Nat /\ b1[req.key].used \in Nat /\ bucket'[req.key].used \in Nat
    BY <1>2, <1>5, <1>7 DEF Bucket
  <2>2. bucket'[req.key].used >= bucket[req.key].used
    BY <1>4, <1>5, <1>7, <2>1
  <2>3. \A k \in Keys \ {req.key} : bucket'[k].used >= bucket[k].used
    BY <1>2, <1>5, <1>7 DEF Bucket
  <2> QED
    BY <1>5, <1>7, <2>2, <2>3
<1> QED
  BY <1>1, <1>3, <1>7, <1>8, <1>9

\* The call after the per-minute limit with a retry left
LEMMA PausedRequest ==
    ASSUME TypeInv, AnswerMinuteLimit, pc' = "pick"
    PROVE  /\ SameCall(req', req) /\ req.retries \in Nat /\ req'.retries = req.retries + 1
           /\ pc = "wait" /\ UNCHANGED <<today, active>>
           /\ bucket' \in [Keys -> Bucket]
           /\ \A k \in Keys : /\ bucket'[k].date = bucket[k].date
                              /\ bucket'[k].used >= bucket[k].used
<1> DEFINE k == IF req.fixed THEN req.key ELSE 0
           n == ReqCost * req.uncertain
<1>1. /\ pc = "wait" /\ UNCHANGED <<today, active>> /\ req.retries < RateLimitRetries
      /\ req' = Round([req EXCEPT !.retries = req.retries + 1, !.key = k], 1, 0)
      /\ bucket' = Spend(bucket, req.key, n)
  BY DEF AnswerMinuteLimit, Return, Charge, envVars
<1>2. /\ req \in Request /\ 1 \in 1..NetworkAttempts /\ 0 \in 0..NetworkAttempts
      /\ bucket \in [Keys -> Bucket] /\ req.key \in Keys /\ n \in Nat
  BY <1>1, ChargeType DEF TypeInv, TypeOK
<1>3. req.retries \in Nat /\ req.retries + 1 \in 0..RateLimitRetries /\ k \in Keys \cup {0}
  BY <1>1, <1>2 DEF Request
<1> HIDE DEF k, n
<1>4. SameCall(req', req) /\ req'.retries = req.retries + 1
  <2> DEFINE r1 == [req EXCEPT !.retries = req.retries + 1]
             r2 == [r1 EXCEPT !.key = k]
  <2>1. SameCall(r1, req) /\ r1 \in Request /\ r1.retries = req.retries + 1
    BY <1>2, <1>3, RetriesField DEF SameCall
  <2>2. req' = Round(r2, 1, 0)
    BY <1>1
  <2> HIDE DEF r1
  <2>3. SameCall(r2, r1) /\ r2 \in Request /\ r2.retries = r1.retries
    BY <1>3, <2>1, KeyField DEF SameCall
  <2> HIDE DEF r2
  <2>4. SameCall(req', r2) /\ req'.retries = r2.retries
    BY <1>2, <2>2, <2>3, RoundType, RoundRetries
  <2> QED
    BY <2>1, <2>3, <2>4 DEF SameCall
<1>5. /\ bucket' \in [Keys -> Bucket] /\ bucket'[req.key].date = bucket[req.key].date
      /\ bucket'[req.key].used = bucket[req.key].used + n
      /\ \A j \in Keys \ {req.key} : bucket'[j] = bucket[j]
  BY <1>1, <1>2, SpendType, SpendCount
<1>6. \A j \in Keys : /\ bucket'[j].date = bucket[j].date
                      /\ bucket'[j].used >= bucket[j].used
  <2>1. bucket'[req.key].used >= bucket[req.key].used
    BY <1>2, <1>5 DEF Bucket
  <2>2. \A j \in Keys \ {req.key} : bucket'[j].used >= bucket[j].used
    BY <1>2, <1>5 DEF Bucket
  <2> QED
    BY <1>5, <2>1, <2>2
<1> QED
  BY <1>1, <1>3, <1>4, <1>5, <1>6

\* More use of a key, counted in the bucket it has, never brings a key back
LEMMA FewerPayers ==
    ASSUME NEW b \in [Keys -> Bucket], NEW c \in [Keys -> Bucket], NEW k \in Keys, NEW n \in {0, 1},
           c[k].date = b[k].date, c[k].used >= b[k].used, today \in Nat,
           n <= Remaining(RefreshDay(c)[k])
    PROVE  n <= Remaining(RefreshDay(b)[k])
<1>1. /\ b[k].used \in Nat /\ c[k].used \in Nat /\ Usable \in Nat
  BY DEF Bucket, Usable
<1>2. RefreshDay(b)[k] = Refreshed(b[k]) /\ RefreshDay(c)[k] = Refreshed(c[k])
  BY DEF RefreshDay
<1>3. CASE b[k].date = today
  BY <1>1, <1>2, <1>3 DEF Refreshed, Remaining
<1>4. CASE b[k].date # today
  BY <1>2, <1>4 DEF Refreshed
<1> QED
  BY <1>3, <1>4

\* A key with DailyLimit used on its day cannot pay
LEMMA UsedUp ==
    ASSUME NEW b \in [Keys -> Bucket], NEW k \in Keys, b[k].date = today,
           b[k].used >= DailyLimit
    PROVE  Remaining(RefreshDay(b)[k]) = 0
<1>1. b[k].used \in Nat /\ Usable \in Nat /\ Usable <= DailyLimit
  BY DEF Bucket, Usable
<1>2. RefreshDay(b)[k] = b[k]
  BY RefreshCount
<1> QED
  BY <1>1, <1>2 DEF Remaining

\* The steps of a call between its first look for a key and its return
LEMMA CallSteps ==
    ASSUME TypeInv, Next, pc \in {"pick", "wait"}, pc' \in {"pick", "wait"}, UNCHANGED today
    PROVE  \/ PickKey \/ AttemptLost
           \/ AnswerDayLimit /\ pc' = "pick"
           \/ AnswerMinuteLimit /\ pc' = "pick"
<1>0. ~Midnight
  BY DEF Midnight, TypeInv, TypeOK
<1>1. CASE pc' = "wait"
  BY <1>0, <1>1, WaitReached
<1>2. CASE pc' = "pick"
  <2>1. CASE RequestStep
    BY <1>2, <2>1 DEF RequestStep, NothingCanPay, RequestLost, Answer, AnswerOk, AnswerForbidden,
                      AnswerRejected, Return
  <2>2. CASE SyncStep \/ PhaseStep \/ SymbolStep
    BY <1>2, <2>2 DEF SyncStep, SyncSkip, SyncAsk, SyncRead, SyncRetry, SyncExclude, SyncEnd,
                PhaseStep, BeginPhase, NextLoop, FinishRun, FinishCatalog, Interrupt, Gone,
                SymbolStep, StartCoreSymbol, CoreBudgetGone, StartOneCall, StartCatalogCall,
                SecondCall, SymbolDone, SymbolExhausted, CatalogDone
  <2>3. CASE RunStart \/ StartCatalog
    BY <2>3 DEF RunStart, StartRun, StartCatalog
  <2>4. CASE Environment
    BY <1>0, <1>2, <2>4 DEF Environment, ExternalUse, Crash, Gone
  <2> QED
    BY <2>1, <2>2, <2>3, <2>4 DEF Next
<1> QED
  BY <1>1, <1>2

\* The payers after a step of the call
LEMMA PayersNext ==
    ASSUME UNCHANGED <<today, active>>, ReqCost' = ReqCost
    PROVE  PayersLeft' = {k \in active : ReqCost <= Remaining(RefreshDay(bucket')[k])}
BY DEF PayersLeft, Payers, RefreshDay, Refreshed, Remaining

\* Each of them uses up something, and gives nothing back.
LEMMA CallAdvances ==
    ASSUME TypeInv, PayerInv, Next, ReqCost > 0, UNCHANGED today,
           pc \in {"pick", "wait"}, pc' \in {"pick", "wait"}
    PROVE  Advance
<1>0. /\ bucket \in [Keys -> Bucket] /\ RefreshDay(bucket) \in [Keys -> Bucket]
      /\ active \subseteq Keys /\ today \in Nat /\ ReqCost = 1 /\ req.retries \in Nat
  BY RefreshDayType, CostOfCall DEF TypeInv, TypeOK, Request
<1>1. CASE PickKey
  <2>1. /\ SameCall(req', req) /\ req'.retries = req.retries /\ req'.attempt = 1
        /\ pc = "pick" /\ pc' = "wait" /\ UNCHANGED <<today, active>>
        /\ req.fixed => bucket' = bucket
        /\ ~req.fixed => /\ bucket' = RefreshDay(bucket)
                         /\ req'.key \in Payers(bucket', ReqCost)
    BY <1>1, PickedRequest
  <2>2. ReqCost' = ReqCost
    BY <2>1 DEF ReqCost, SameCall
  <2>3. \A k \in Keys : RefreshDay(bucket')[k] = RefreshDay(bucket)[k]
    BY <1>0, <2>1, RefreshCount
  <2>4. PayersLeft' = PayersLeft
    BY <1>0, <2>1, <2>2, <2>3, PayersNext DEF PayersLeft, Payers
  <2>5. ~FromYesterday'
    <3>1. CASE req.fixed
      BY <2>1, <3>1 DEF FromYesterday, SameCall
    <3>2. CASE ~req.fixed
      <4>1. req'.key \in Keys /\ bucket'[req'.key].date = today
        BY <1>0, <2>1, <3>2, RefreshCount DEF Payers
      <4> QED
        BY <2>1, <4>1 DEF FromYesterday
    <3> QED
      BY <3>1, <3>2
  <2>6. AttemptsLeft = NetworkAttempts + 1 /\ AttemptsLeft' = NetworkAttempts - 1
    BY <2>1 DEF AttemptsLeft
  <2> QED
    BY <1>0, <2>1, <2>4, <2>5, <2>6 DEF Advance
<1>2. CASE AttemptLost
  <2>1. /\ SameCall(req', req) /\ req'.key = req.key /\ req'.retries = req.retries
        /\ req.attempt \in Nat /\ req'.attempt = req.attempt + 1
        /\ pc = "wait" /\ pc' = "wait" /\ UNCHANGED <<today, bucket, active>>
    BY <1>2, LostRequest
  <2>2. ReqCost' = ReqCost
    BY <2>1 DEF ReqCost, SameCall
  <2>3. PayersLeft' = PayersLeft
    BY <2>1, <2>2, PayersNext DEF PayersLeft, Payers
  <2>4. FromYesterday' = FromYesterday
    BY <2>1 DEF FromYesterday, SameCall
  <2>5. AttemptsLeft = NetworkAttempts - req.attempt
        /\ AttemptsLeft' = NetworkAttempts - (req.attempt + 1)
    BY <2>1 DEF AttemptsLeft
  <2>6. AttemptsLeft' < AttemptsLeft
    BY <2>1, <2>5
  <2> QED
    BY <1>0, <2>1, <2>3, <2>4, <2>6 DEF Advance
<1>3. CASE (AnswerDayLimit \/ AnswerMinuteLimit) /\ pc' = "pick"
  <2>1. /\ SameCall(req', req) /\ req'.retries >= req.retries
        /\ pc = "wait" /\ UNCHANGED <<today, active>> /\ bucket' \in [Keys -> Bucket]
        /\ \A k \in Keys : /\ bucket'[k].date = bucket[k].date
                           /\ bucket'[k].used >= bucket[k].used
    BY <1>0, <1>3, LimitedRequest, PausedRequest
  <2>2. ReqCost' = ReqCost
    BY <2>1 DEF ReqCost, SameCall
  <2>3. \A k \in active : ReqCost <= Remaining(RefreshDay(bucket')[k])
                             => ReqCost <= Remaining(RefreshDay(bucket)[k])
    BY <1>0, <2>1, FewerPayers
  <2>4. PayersLeft' \subseteq PayersLeft
    BY <2>1, <2>2, <2>3, PayersNext DEF PayersLeft, Payers
  <2>5. ~FromYesterday'
    BY <1>3 DEF FromYesterday
  <2>6. CASE FromYesterday
    BY <2>1, <2>4, <2>5, <2>6 DEF Advance
  <2>7. CASE AnswerMinuteLimit
    <3>1. req'.retries # req.retries
      BY <1>0, <1>3, <2>7, PausedRequest
    <3> QED
      BY <2>1, <2>4, <2>5, <3>1 DEF Advance
  <2>8. CASE AnswerDayLimit /\ ~FromYesterday
    <3>1. /\ ~req.fixed /\ bucket'[req.key].used >= DailyLimit /\ req.key \in Keys
      BY <1>3, <2>8, LimitedRequest, ChargeType
    <3>2. bucket[req.key].date = today
      BY <2>1, <2>8, <3>1 DEF FromYesterday
    <3>3. req.key \in active /\ ReqCost <= Remaining(bucket[req.key])
      BY <1>0, <2>1, <3>1 DEF PayerInv
    <3>4. req.key \in PayersLeft
      BY <1>0, <3>1, <3>2, <3>3, RefreshCount DEF PayersLeft, Payers
    <3>5. Remaining(RefreshDay(bucket')[req.key]) = 0
      BY <2>1, <3>1, <3>2, UsedUp
    <3>6. req.key \notin PayersLeft'
      BY <1>0, <2>1, <2>2, <3>5, PayersNext
    <3> QED
      BY <2>1, <2>4, <2>5, <3>4, <3>6 DEF Advance
  <2> QED
    BY <1>3, <2>6, <2>7, <2>8
<1> QED
  BY <1>1, <1>2, <1>3, CallSteps

\* A paid call comes back because it advances: whatever the provider answers,
\* and however keys, attempts and pauses are spent, none of its steps between
\* two midnights gives back what an earlier one has used up.
THEOREM PaidRequestAdvances == Spec => RequestAdvances
<1>1. TypeInv /\ PayerInv /\ [Next]_vars =>
         [(ReqCost > 0 /\ {pc, pc'} \subseteq {"pick", "wait"} /\ UNCHANGED today) => Advance]_vars
  <2> SUFFICES ASSUME TypeInv, PayerInv, Next, ReqCost > 0, pc \in {"pick", "wait"},
                      pc' \in {"pick", "wait"}, UNCHANGED today
               PROVE  Advance
    OBVIOUS
  <2> QED
    BY CallAdvances
<1>2. Spec => [](TypeInv /\ PayerInv)
  BY TypeInit, TypeStep, PayerInit, PayerKept, PTL DEF Spec
<1> QED
  BY <1>1, <1>2, PTL DEF Spec, RequestAdvances
=============================================================================
