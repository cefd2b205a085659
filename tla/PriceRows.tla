------------------------------ MODULE PriceRows ------------------------------
(***************************************************************************)
(* The stored rows of one symbol: what collection (main.py, as a core or a *)
(* rotation symbol, and alpha_vantage.py), the data rules (data_rules.py), *)
(* ohlcv_cleanup.py and indicators.py do to the tables ohlcv and           *)
(* indicators. Each writes in one transaction under the pipeline lock, so  *)
(* they take turns; a killed one changes nothing, and symbols do not share *)
(* rows. The price of a bar is reduced to its split basis: how many splits *)
(* its provider had applied to it.                                         *)
(***************************************************************************)
EXTENDS Integers

CONSTANTS
    Days,        \* days that bars are dated with
    PatchDay,    \* bar_patches.csv: date of the symbol's patch
    RefDay,      \* bar_patches.csv: ref_date
    Starts,      \* dates that history_start.txt may have for the symbol
    Closures,    \* days that may turn out to be closed
    MaxSplits,   \* bound: splits of the symbol
    MaxSecond    \* bound: seconds that are told apart

ASSUME RowsAssumption ==
    /\ Days \subseteq Nat
    /\ PatchDay \in Days /\ RefDay \in Days /\ PatchDay # RefDay
    /\ Starts \subseteq Nat /\ 0 \in Starts
    /\ Closures \subseteq Days
    /\ MaxSplits \in Nat /\ MaxSecond \in Nat \ {0}

VARIABLES
    rows,      \* ohlcv: day -> bar
    written,   \* the latest updated_at of the rows
    ind,       \* indicators: day -> calculated from the rows as they are now
    indAt,     \* the latest updated_at of the indicators
    rules,     \* the data rules in force
    splits,    \* splits of the symbol so far
    second,    \* the clock
    call,      \* a core symbol between its two calls
    old,       \* history: days that were stored before a rule rejected them
    mixed,     \* history: alpha_vantage wrote after the last full replacement
    torn,      \* history: the symbol split between the two calls behind the rows
    cleaned,   \* history: the cleanup removed rows after the last replacement
    tie        \* history: rows written in the second of older indicators

history == <<old, mixed, torn, cleaned, tie>>
vars    == <<rows, written, ind, indAt, rules, splits, second, call, history>>

NoAdj == -1         \* adj_close is NULL
Raw   == -1         \* not split-adjusted
Bar   == [basis : Raw..MaxSplits, adj : NoAdj..MaxSplits, patch : BOOLEAN]
Empty == [d \in {} |-> 0]

\* load_data_rules refuses a patch before the start or on a closed day.
Rules == {r \in [start : Starts, closed : SUBSET Closures, patch : BOOLEAN] :
            r.patch => r.start <= PatchDay /\ {PatchDay, RefDay} \cap r.closed = {}}
NoRules == [start |-> 0, closed |-> {}, patch |-> FALSE]
NoCall  == [busy |-> FALSE, days |-> {}, basis |-> 0]

TypeOK ==
    /\ DOMAIN rows \subseteq Days /\ \A d \in DOMAIN rows : rows[d] \in Bar
    /\ DOMAIN ind \subseteq Days /\ \A d \in DOMAIN ind : ind[d] \in BOOLEAN
    /\ written \in 0..MaxSecond /\ indAt \in 0..MaxSecond /\ second \in 1..MaxSecond
    /\ rules \in Rules
    /\ splits \in 0..MaxSplits
    /\ call \in [busy : BOOLEAN, days : SUBSET Days, basis : 0..MaxSplits]
    /\ old \subseteq Days
    /\ mixed \in BOOLEAN /\ torn \in BOOLEAN /\ cleaned \in BOOLEAN /\ tie \in BOOLEAN

Init ==
    /\ rows = Empty /\ written = 0
    /\ ind = Empty /\ indAt = 0
    /\ rules = NoRules
    /\ splits = 0
    /\ second = 1
    /\ call = NoCall
    /\ old = {}
    /\ mixed = FALSE /\ torn = FALSE /\ cleaned = FALSE /\ tie = FALSE

-----------------------------------------------------------------------------
(* The environment *)

Tick ==
    /\ second < MaxSecond
    /\ second' = second + 1
    /\ UNCHANGED <<rows, written, ind, indAt, rules, splits, call, history>>

\* The providers rescale the whole history they answer with.
Split ==
    /\ splits < MaxSplits
    /\ splits' = splits + 1
    /\ UNCHANGED <<rows, written, ind, indAt, rules, second, call, history>>

\* DataRules.keep_bar
KeepBar(d) == d \notin rules.closed /\ d >= rules.start

\* Mutant of EditRules: the files are not checked against each other
EditRulesUnchecked ==
    /\ ~call.busy
    /\ rules' \in [start : Starts, closed : SUBSET Closures, patch : BOOLEAN]
    /\ old' = {d \in DOMAIN rows : ~(d \notin rules'.closed /\ d >= rules'.start)}
    /\ UNCHANGED <<rows, written, ind, indAt, splits, second, call, mixed, torn, cleaned, tie>>

\* Somebody edits the rule files, or a closure goes into SPECIAL_CLOSURES.
EditRules ==
    /\ ~call.busy
    /\ rules' \in Rules
    /\ old' = {d \in DOMAIN rows : ~(d \notin rules'.closed /\ d >= rules'.start)}
    /\ UNCHANGED <<rows, written, ind, indAt, splits, second, call, mixed, torn, cleaned, tie>>

-----------------------------------------------------------------------------
(* The data rules *)

\* Mutant of Filter: closed days pass
FilterStartOnly(days) == {d \in days : d >= rules.start}

\* DataRules.filter_rows
Filter(days) == {d \in days : KeepBar(d)}

\* Mutant of Patches: also behind the last bar of the answer
PatchesBehind(days) ==
    /\ rules.patch
    /\ PatchDay \notin days
    /\ \E d \in days : d < PatchDay
    /\ RefDay \in days

\* DataRules.apply_patches: the patch goes in when the answer lacks its day,
\* goes beyond it on both sides, and has the reference day.
Patches(days) ==
    /\ rules.patch
    /\ PatchDay \notin days
    /\ \E d \in days : d < PatchDay
    /\ \E d \in days : d > PatchDay
    /\ RefDay \in days

\* For a core symbol (adj: the days of adjust=all), its adj_close has to be
\* known or derivable from that of the reference day.
AdjDerivable(adj) == PatchDay \in adj \/ RefDay \in adj

\* Mutant of PatchBar: the recorded prices as they are
PatchBarRecorded(basis, adj) == [basis |-> 0, adj |-> adj, patch |-> TRUE]

\* BarPatch.bar: on the split basis of the reference day.
PatchBar(basis, adj) == [basis |-> basis, adj |-> adj, patch |-> TRUE]

-----------------------------------------------------------------------------
(* Collection *)

\* Mutant of ReplaceRows: the indicators stay
ReplaceRowsOnly(new) ==
    /\ rows' = new
    /\ written' = second
    /\ ind' = [d \in DOMAIN ind |-> FALSE] /\ indAt' = indAt
    /\ old' = {}
    /\ mixed' = FALSE /\ cleaned' = FALSE /\ tie' = FALSE
    /\ UNCHANGED <<rules, splits, second>>

\* replace_symbol_prices: every row of the symbol is replaced, and its
\* indicators are deleted.
ReplaceRows(new) ==
    /\ rows' = new
    /\ written' = second
    /\ ind' = Empty /\ indAt' = 0
    /\ old' = {}
    /\ mixed' = FALSE /\ cleaned' = FALSE /\ tie' = FALSE
    /\ UNCHANGED <<rules, splits, second>>

\* collect_core_symbol up to its second call: no bar left is an error.
CoreFirstCall ==
    /\ ~call.busy
    /\ \E answer \in SUBSET Days :
         /\ Filter(answer) # {}
         /\ call' = [busy |-> TRUE, days |-> Filter(answer), basis |-> splits]
    /\ UNCHANGED <<rows, written, ind, indAt, rules, splits, second, history>>

\* The second call fails, or the process is killed.
CoreFails ==
    /\ call.busy
    /\ call' = NoCall
    /\ UNCHANGED <<rows, written, ind, indAt, rules, splits, second, history>>

CoreBar(adj) ==
    [d \in call.days |->
        [basis |-> call.basis, adj |-> IF d \in adj THEN splits ELSE NoAdj, patch |-> FALSE]]

\* collect_core_symbol from the second answer on.
CoreReplace ==
    /\ call.busy
    /\ \E adj \in SUBSET Days :
         LET patched == Patches(call.days) /\ AdjDerivable(adj)
         IN  ReplaceRows([d \in call.days \cup (IF patched THEN {PatchDay} ELSE {}) |->
                 IF d \in call.days THEN CoreBar(adj)[d] ELSE PatchBar(call.basis, splits)])
    /\ torn' = (call.basis # splits)
    /\ call' = NoCall

\* collect_rotation_symbol: one call, and no adj_close.
RotationReplace ==
    /\ ~call.busy
    /\ \E answer \in SUBSET Days :
         LET days == Filter(answer)
         IN  /\ days # {}
             /\ ReplaceRows([d \in days \cup (IF Patches(days) THEN {PatchDay} ELSE {}) |->
                    [basis |-> splits, adj |-> NoAdj, patch |-> d \notin days]])
    /\ torn' = FALSE
    /\ UNCHANGED call

\* alpha_vantage.collect_symbol: upsert_ohlcv_db adds and overwrites rows with
\* prices that are not split-adjusted; it has no adj_close to overwrite and
\* leaves the indicators alone.
AvUpsert ==
    /\ ~call.busy
    /\ \E answer \in SUBSET Days :
         LET days == Filter(answer)
         IN  /\ days # {}
             /\ rows' = [d \in DOMAIN rows \cup days |->
                           IF d \notin days THEN rows[d]
                           ELSE [basis |-> Raw, patch |-> FALSE,
                                 adj   |-> IF d \in DOMAIN rows THEN rows[d].adj ELSE NoAdj]]
    /\ written' = second
    /\ ind' = [d \in DOMAIN ind |-> FALSE]
    /\ mixed' = TRUE
    /\ tie' = (DOMAIN ind # {} /\ (tie \/ indAt = second))
    /\ UNCHANGED <<indAt, rules, splits, second, call, old, torn, cleaned>>

-----------------------------------------------------------------------------
(* ohlcv_cleanup.run: the rows that the rules reject go, with every indicator *)
(* row of the symbol.                                                         *)

Targets == {d \in DOMAIN rows : ~KeepBar(d)}

Cleanup ==
    /\ ~call.busy /\ Targets # {}
    /\ rows' = [d \in DOMAIN rows \ Targets |-> rows[d]]
    /\ ind' = Empty /\ indAt' = 0
    /\ old' = {}
    /\ cleaned' = TRUE
    /\ tie' = FALSE
    /\ UNCHANGED <<written, rules, splits, second, call, mixed, torn>>

-----------------------------------------------------------------------------
(* indicators.run *)

\* find_stale_symbols
Stale == DOMAIN ind = {} \/ written > indAt

\* calculate_batches upserts one indicator row for each price row.
Calculate(full) ==
    /\ ~call.busy
    /\ DOMAIN rows # {}
    /\ full \/ Stale
    /\ ind' = [d \in DOMAIN ind \cup DOMAIN rows |-> IF d \in DOMAIN rows THEN TRUE ELSE ind[d]]
    /\ indAt' = second
    /\ tie' = FALSE
    /\ UNCHANGED <<rows, written, rules, splits, second, call, old, mixed, torn, cleaned>>

Next ==
    \/ Tick \/ Split \/ EditRules
    \/ CoreFirstCall \/ CoreFails \/ CoreReplace
    \/ RotationReplace \/ AvUpsert
    \/ Cleanup
    \/ \E full \in BOOLEAN : Calculate(full)

Spec == Init /\ [][Next]_vars

-----------------------------------------------------------------------------
(* Properties *)

\* Indicators that the incremental run takes for up to date are those of the
\* present rows, one for each, whoever wrote, cleaned or calculated in which
\* order. updated_at has seconds: only an upsert in the second of the
\* calculation goes unnoticed. No indicator row is left without its price row.
IndicatorsCurrent ==
    /\ DOMAIN ind \subseteq DOMAIN rows
    /\ ~Stale /\ ~tie => DOMAIN ind = DOMAIN rows /\ \A d \in DOMAIN ind : ind[d]

\* A stored bar that the rules reject was stored before the rule came; one
\* fetch or one cleanup removes it.
RulesKept == Targets \subseteq old

\* All stored bars of a symbol, the patched one included, are on one split
\* basis, and so are its adj_closes, unless alpha_vantage mixed others in.
\* The two agree unless the symbol split between the two calls.
OneBasis ==
    ~mixed =>
        \A d, e \in DOMAIN rows :
            /\ rows[d].basis = rows[e].basis
            /\ rows[d].adj # NoAdj /\ rows[e].adj # NoAdj => rows[d].adj = rows[e].adj
            /\ rows[d].adj # NoAdj /\ ~torn => rows[d].adj = rows[d].basis

\* A patch never stands in for the first or last bar of an answer, so it hides
\* no stale answer, and it never leaves a hole in a core symbol's adj_closes.
PatchesInside ==
    \A d \in DOMAIN rows : rows[d].patch =>
        /\ ~mixed /\ ~cleaned => \E b, a \in DOMAIN rows :
                b < d /\ d < a /\ ~rows[b].patch /\ ~rows[a].patch
        /\ (\E e \in DOMAIN rows : rows[e].adj # NoAdj) => rows[d].adj # NoAdj
=============================================================================
