--------------------------- MODULE PriceRowsProofs ---------------------------
(***************************************************************************)
(* Proofs about PriceRows, for every set of days, every patch, start and   *)
(* closure, and any number of splits and seconds.                          *)
(***************************************************************************)
EXTENDS PriceRows, TLAPS

USE RowsAssumption

(***************************************************************************)
(* The invariant                                                           *)
(***************************************************************************)

\* The first answer of a core symbol keeps to the rules until it is stored,
\* since nobody edits them meanwhile; and no indicator is from the future.
Between ==
    /\ call.busy => call.days = Filter(call.days)
    /\ indAt <= second

Inv == TypeOK /\ Between /\ IndicatorsCurrent /\ RulesKept /\ OneBasis /\ PatchesInside

(***************************************************************************)
(* The bars that collection writes                                         *)
(***************************************************************************)

\* What every full replacement writes: bars that keep to the rules, on one
\* basis, with a patch only between bars that came from the provider.
GoodRows(new, basis, adj) ==
    /\ DOMAIN new \subseteq Days
    /\ \A d \in DOMAIN new :
         /\ KeepBar(d)
         /\ new[d] \in Bar
         /\ new[d].basis = basis
         /\ new[d].adj \in {NoAdj, adj}
         /\ new[d].patch =>
              /\ \E b, a \in DOMAIN new : b < d /\ d < a /\ ~new[b].patch /\ ~new[a].patch
              /\ (\E e \in DOMAIN new : new[e].adj # NoAdj) => new[d].adj # NoAdj

\* filter_rows leaves days that the rules keep
LEMMA FilterKeeps ==
    ASSUME NEW days \in SUBSET Days
    PROVE  /\ Filter(days) \subseteq Days
           /\ \A d \in Filter(days) : KeepBar(d)
           /\ Filter(Filter(days)) = Filter(days)
BY DEF Filter

\* The patch keeps to the rules, for load_data_rules refuses one that does not
LEMMA PatchKept ==
    ASSUME TypeOK, rules.patch
    PROVE  KeepBar(PatchDay)
BY DEF TypeOK, Rules, KeepBar

\* Types of the values that the actions pass on
LEMMA Types ==
    ASSUME TypeOK
    PROVE  /\ splits \in 0..MaxSplits /\ splits \in Nat /\ splits # NoAdj
           /\ call.days \subseteq Days /\ call.basis \in 0..MaxSplits
           /\ second \in 1..MaxSecond /\ second \in 0..MaxSecond
           /\ NoAdj \in NoAdj..MaxSplits /\ Raw \in Raw..MaxSplits
           /\ 0..MaxSplits \subseteq NoAdj..MaxSplits /\ 0..MaxSplits \subseteq Raw..MaxSplits
BY DEF TypeOK, NoAdj, Raw

\* A core symbol's bars (collect_core_symbol)
LEMMA CoreRowsGood ==
    ASSUME TypeOK, Between, call.busy, NEW adj \in SUBSET Days
    PROVE  LET patched == Patches(call.days) /\ AdjDerivable(adj)
           IN  GoodRows([d \in call.days \cup (IF patched THEN {PatchDay} ELSE {}) |->
                           IF d \in call.days THEN CoreBar(adj)[d] ELSE PatchBar(call.basis, splits)],
                        call.basis, splits)
<1> DEFINE patched == Patches(call.days) /\ AdjDerivable(adj)
           dom     == call.days \cup (IF patched THEN {PatchDay} ELSE {})
           new     == [d \in dom |-> IF d \in call.days THEN CoreBar(adj)[d]
                                     ELSE PatchBar(call.basis, splits)]
<1>1. dom \subseteq Days
  BY Types
<1>2. \A d \in dom : KeepBar(d)
  <2>1. \A d \in call.days : KeepBar(d)
    BY Types, FilterKeeps DEF Between
  <2>2. patched => KeepBar(PatchDay)
    BY PatchKept DEF Patches
  <2> QED
    BY <2>1, <2>2
<1>3. \A d \in call.days :
        /\ new[d].basis = call.basis
        /\ new[d].adj \in {NoAdj, splits}
        /\ new[d].patch = FALSE
        /\ new[d] \in Bar
  BY Types DEF CoreBar, Bar
<1>4. \A d \in dom \ call.days :
        /\ d = PatchDay /\ patched
        /\ new[d].basis = call.basis
        /\ new[d].adj = splits
        /\ new[d] \in Bar
  BY Types DEF PatchBar, Bar
<1>5. ASSUME NEW d \in dom, new[d].patch
      PROVE  /\ \E b, a \in dom : b < d /\ d < a /\ ~new[b].patch /\ ~new[a].patch
             /\ new[d].adj # NoAdj
  <2>1. d \in dom \ call.days
    BY <1>3, <1>5
  <2>2. d = PatchDay /\ Patches(call.days) /\ new[d].adj # NoAdj
    BY <1>4, <2>1, Types
  <2>3. PICK b \in call.days, a \in call.days : b < PatchDay /\ a > PatchDay
    BY <2>2 DEF Patches
  <2>4. b < d /\ d < a /\ ~new[b].patch /\ ~new[a].patch
    BY <2>2, <2>3, <1>1, <1>3
  <2> QED
    BY <2>2, <2>3, <2>4
<1>6. GoodRows(new, call.basis, splits)
  <2>1. DOMAIN new = dom
    OBVIOUS
  <2> HIDE DEF new, dom, patched
  <2>2. \A d \in dom : new[d].basis = call.basis /\ new[d].adj \in {NoAdj, splits} /\ new[d] \in Bar
    BY <1>3, <1>4
  <2> QED
    BY <1>1, <1>2, <1>5, <2>1, <2>2 DEF GoodRows
<1> QED
  BY <1>6

\* A rotation symbol's bars (collect_rotation_symbol)
LEMMA RotationRowsGood ==
    ASSUME TypeOK, NEW answer \in SUBSET Days
    PROVE  LET days == Filter(answer)
           IN  GoodRows([d \in days \cup (IF Patches(days) THEN {PatchDay} ELSE {}) |->
                           [basis |-> splits, adj |-> NoAdj, patch |-> d \notin days]],
                        splits, splits)
<1> DEFINE days == Filter(answer)
           dom  == days \cup (IF Patches(days) THEN {PatchDay} ELSE {})
           new  == [d \in dom |-> [basis |-> splits, adj |-> NoAdj, patch |-> d \notin days]]
<1>1. days \subseteq Days /\ (\A d \in days : KeepBar(d)) /\ dom \subseteq Days
  BY FilterKeeps
<1> HIDE DEF days
<1>2. \A d \in dom : KeepBar(d)
  BY <1>1, PatchKept DEF Patches
<1>3. \A d \in dom :
        /\ new[d].basis = splits /\ new[d].adj = NoAdj /\ new[d] \in Bar
        /\ new[d].patch = (d \notin days)
  BY Types DEF Bar
<1>4. ASSUME NEW d \in dom, new[d].patch
      PROVE  \E b, a \in dom : b < d /\ d < a /\ ~new[b].patch /\ ~new[a].patch
  <2>1. d \notin days
    BY <1>3, <1>4
  <2>2. d = PatchDay /\ Patches(days)
    BY <2>1
  <2>3. PICK b \in days, a \in days : b < PatchDay /\ a > PatchDay
    BY <2>2 DEF Patches
  <2>4. b < d /\ d < a /\ ~new[b].patch /\ ~new[a].patch
    BY <2>2, <2>3, <1>1, <1>3
  <2> QED
    BY <2>3, <2>4
<1>5. GoodRows(new, splits, splits)
  <2>1. DOMAIN new = dom
    OBVIOUS
  <2> HIDE DEF new, dom
  <2> QED
    BY <1>1, <1>2, <1>3, <1>4, <2>1 DEF GoodRows
<1> QED
  BY <1>5 DEF days

(***************************************************************************)
(* Every step keeps the invariant                                          *)
(***************************************************************************)

\* A symbol without rows, or without indicators
LEMMA NoRows == DOMAIN Empty = {}
BY DEF Empty

LEMMA InvInit == Init => Inv
<1> SUFFICES ASSUME Init PROVE Inv
  OBVIOUS
<1>1. TypeOK
  <2>1. NoRules \in Rules
    BY DEF NoRules, Rules
  <2>2. NoCall \in [busy : BOOLEAN, days : SUBSET Days, basis : 0..MaxSplits]
    BY DEF NoCall
  <2> QED
    <3>1. 0 \in 0..MaxSecond /\ 1 \in 1..MaxSecond /\ 0 \in 0..MaxSplits
      OBVIOUS
    <3>2. DOMAIN rows = {} /\ DOMAIN ind = {} /\ old = {}
      BY NoRows DEF Init
    <3> QED
      BY <2>1, <2>2, <3>1, <3>2 DEF Init, TypeOK
<1>2. Between
  BY DEF Init, Between, NoCall
<1>3. IndicatorsCurrent /\ RulesKept /\ OneBasis /\ PatchesInside
  BY DEF Init, IndicatorsCurrent, Stale, RulesKept, Targets, OneBasis, PatchesInside, Empty
<1> QED
  BY <1>1, <1>2, <1>3 DEF Inv

\* A full replacement by good rows makes all four promises true again,
\* whatever was stored before (replace_symbol_prices)
LEMMA ReplaceRowsPromises ==
    ASSUME TypeOK, NEW new, NEW basis \in 0..MaxSplits,
           GoodRows(new, basis, splits), ReplaceRows(new),
           torn' \in BOOLEAN, ~torn' => basis = splits,
           call' \in [busy : BOOLEAN, days : SUBSET Days, basis : 0..MaxSplits],
           call'.busy => call'.days = Filter(call'.days)
    PROVE  Inv'
<1>1. /\ rows' = new /\ written' = second /\ ind' = Empty /\ indAt' = 0
      /\ old' = {} /\ mixed' = FALSE /\ cleaned' = FALSE /\ tie' = FALSE
      /\ rules' = rules /\ splits' = splits /\ second' = second
  BY DEF ReplaceRows
<1>2. TypeOK'
  <2>1. DOMAIN ind' = {} /\ 0 \in 0..MaxSecond
    BY <1>1, NoRows
  <2>2. DOMAIN rows' \subseteq Days /\ \A d \in DOMAIN rows' : rows'[d] \in Bar
    BY <1>1 DEF GoodRows
  <2> QED
    BY <1>1, <2>1, <2>2, Types DEF TypeOK
<1>3. Between'
  BY <1>1, Types DEF Between, Filter, KeepBar
<1>4. IndicatorsCurrent'
  BY <1>1 DEF IndicatorsCurrent, Stale, Empty
<1>5. RulesKept'
  BY <1>1 DEF RulesKept, Targets, GoodRows, KeepBar
<1>6. OneBasis'
  BY <1>1 DEF OneBasis, GoodRows
<1>7. PatchesInside'
  BY <1>1 DEF PatchesInside, GoodRows
<1> QED
  BY <1>2, <1>3, <1>4, <1>5, <1>6, <1>7 DEF Inv

\* collect_core_symbol, from its second answer on
LEMMA CoreReplaceInv ==
    ASSUME Inv, CoreReplace
    PROVE  Inv'
<1>1. TypeOK /\ Between /\ call.busy
  BY DEF Inv, CoreReplace
<1>2. PICK adj \in SUBSET Days :
         LET patched == Patches(call.days) /\ AdjDerivable(adj)
         IN  ReplaceRows([d \in call.days \cup (IF patched THEN {PatchDay} ELSE {}) |->
                 IF d \in call.days THEN CoreBar(adj)[d] ELSE PatchBar(call.basis, splits)])
  BY DEF CoreReplace
<1> DEFINE patched == Patches(call.days) /\ AdjDerivable(adj)
           new == [d \in call.days \cup (IF patched THEN {PatchDay} ELSE {}) |->
                     IF d \in call.days THEN CoreBar(adj)[d] ELSE PatchBar(call.basis, splits)]
<1>3. GoodRows(new, call.basis, splits)
  BY <1>1, CoreRowsGood
<1>4. torn' = (call.basis # splits) /\ call' = NoCall
  BY DEF CoreReplace
<1>5. call' \in [busy : BOOLEAN, days : SUBSET Days, basis : 0..MaxSplits] /\ ~call'.busy
  BY <1>4 DEF NoCall
<1>6. ReplaceRows(new)
  BY <1>2
<1> HIDE DEF new
<1> QED
  BY <1>1, <1>3, <1>4, <1>5, <1>6, Types, ReplaceRowsPromises

\* collect_rotation_symbol
LEMMA RotationReplaceInv ==
    ASSUME Inv, RotationReplace
    PROVE  Inv'
<1>1. TypeOK /\ Between /\ ~call.busy
  BY DEF Inv, RotationReplace
<1>2. PICK answer \in SUBSET Days :
         LET days == Filter(answer)
         IN  ReplaceRows([d \in days \cup (IF Patches(days) THEN {PatchDay} ELSE {}) |->
                    [basis |-> splits, adj |-> NoAdj, patch |-> d \notin days]])
  BY DEF RotationReplace
<1> DEFINE days == Filter(answer)
           new  == [d \in days \cup (IF Patches(days) THEN {PatchDay} ELSE {}) |->
                      [basis |-> splits, adj |-> NoAdj, patch |-> d \notin days]]
<1>3. GoodRows(new, splits, splits)
  BY <1>1, RotationRowsGood
<1>4. torn' = FALSE /\ call' = call
  BY DEF RotationReplace
<1>5. ReplaceRows(new)
  BY <1>2
<1>6. call' \in [busy : BOOLEAN, days : SUBSET Days, basis : 0..MaxSplits] /\ ~call'.busy
  BY <1>1, <1>4 DEF TypeOK
<1> HIDE DEF new, days
<1> QED
  BY <1>1, <1>3, <1>4, <1>5, <1>6, Types, ReplaceRowsPromises

\* alpha_vantage.collect_symbol
LEMMA AvUpsertInv ==
    ASSUME Inv, AvUpsert
    PROVE  Inv'
<1>0. /\ TypeOK /\ Between /\ IndicatorsCurrent /\ RulesKept /\ OneBasis /\ PatchesInside
      /\ ~call.busy
  BY DEF Inv, AvUpsert
<1>1. PICK answer \in SUBSET Days :
        rows' = [d \in DOMAIN rows \cup Filter(answer) |->
                   IF d \notin Filter(answer) THEN rows[d]
                   ELSE [basis |-> Raw, patch |-> FALSE,
                         adj   |-> IF d \in DOMAIN rows THEN rows[d].adj ELSE NoAdj]]
  BY DEF AvUpsert
<1> DEFINE days == Filter(answer)
<1>2. days \subseteq Days /\ \A d \in days : KeepBar(d)
  BY FilterKeeps
<1> HIDE DEF days
<1>3. DOMAIN rows' = DOMAIN rows \cup days
  BY <1>1 DEF days
<1>4. /\ written' = second /\ mixed' = TRUE
      /\ ind' = [d \in DOMAIN ind |-> FALSE]
      /\ tie' = (DOMAIN ind # {} /\ (tie \/ indAt = second))
      /\ indAt' = indAt /\ rules' = rules /\ splits' = splits /\ second' = second
      /\ call' = call /\ old' = old /\ torn' = torn /\ cleaned' = cleaned
  BY DEF AvUpsert
<1>5. \A d \in DOMAIN rows' :
        /\ d \notin days => d \in DOMAIN rows /\ rows'[d] = rows[d]
        /\ d \in days => /\ rows'[d].basis = Raw /\ ~rows'[d].patch /\ rows'[d] \in Bar
                         /\ rows'[d].adj = (IF d \in DOMAIN rows THEN rows[d].adj ELSE NoAdj)
  <2>1. \A d \in DOMAIN rows : rows[d] \in Bar
    BY <1>0 DEF TypeOK
  <2> QED
    BY <1>0, <1>1, <1>3, <2>1, Types DEF Bar, days
<1>6. TypeOK'
  BY <1>0, <1>2, <1>3, <1>4, <1>5, Types DEF TypeOK
<1>7. Between'
  BY <1>0, <1>4 DEF Between, Filter, KeepBar
<1>8. IndicatorsCurrent'
  <2>1. DOMAIN ind' = DOMAIN ind /\ DOMAIN ind \subseteq DOMAIN rows'
    BY <1>0, <1>3, <1>4 DEF IndicatorsCurrent
  <2>2. indAt <= second /\ indAt \in Int /\ second \in Int
    BY <1>0 DEF Between, TypeOK
  <2>3. Stale' \/ tie'
    <3>1. CASE DOMAIN ind' = {}
      BY <3>1 DEF Stale
    <3>2. CASE DOMAIN ind # {} /\ indAt = second
      BY <1>4, <3>2
    <3>3. CASE indAt < second
      BY <1>4, <2>2, <3>3 DEF Stale
    <3> QED
      BY <2>1, <2>2, <3>1, <3>2, <3>3
  <2> QED
    BY <2>1, <2>3 DEF IndicatorsCurrent
<1>9. RulesKept'
  BY <1>0, <1>2, <1>3, <1>4 DEF RulesKept, Targets, KeepBar
<1>10. OneBasis'
  BY <1>4 DEF OneBasis
<1>11. PatchesInside'
  <2>1. ASSUME NEW d \in DOMAIN rows', rows'[d].patch, NEW e \in DOMAIN rows', rows'[e].adj # NoAdj
        PROVE  rows'[d].adj # NoAdj
    <3>1. d \in DOMAIN rows /\ rows'[d] = rows[d]
      BY <1>5, <2>1
    <3>2. e \in DOMAIN rows /\ rows[e].adj # NoAdj
      BY <1>5, <2>1
    <3> QED
      BY <1>0, <2>1, <3>1, <3>2 DEF PatchesInside
  <2> QED
    BY <1>4, <2>1 DEF PatchesInside
<1> QED
  BY <1>6, <1>7, <1>8, <1>9, <1>10, <1>11 DEF Inv

\* ohlcv_cleanup.run
LEMMA CleanupInv ==
    ASSUME Inv, Cleanup
    PROVE  Inv'
<1>0. TypeOK /\ Between /\ IndicatorsCurrent /\ RulesKept /\ OneBasis /\ PatchesInside
  BY DEF Inv
<1>1. /\ rows' = [d \in DOMAIN rows \ Targets |-> rows[d]]
      /\ ind' = Empty /\ indAt' = 0 /\ old' = {} /\ cleaned' = TRUE /\ tie' = FALSE
      /\ written' = written /\ rules' = rules /\ splits' = splits /\ second' = second
      /\ call' = call /\ mixed' = mixed /\ torn' = torn
  BY DEF Cleanup
<1>2. /\ DOMAIN rows' = DOMAIN rows \ Targets
      /\ \A d \in DOMAIN rows' : d \in DOMAIN rows /\ rows'[d] = rows[d] /\ KeepBar(d)
  BY <1>1 DEF Targets
<1>3. TypeOK'
  <2>1. DOMAIN ind' = {} /\ 0 \in 0..MaxSecond
    BY <1>1, NoRows
  <2> QED
    BY <1>0, <1>1, <1>2, <2>1 DEF TypeOK
<1>4. Between'
  BY <1>0, <1>1, Types DEF Between, Filter, KeepBar
<1>5. IndicatorsCurrent'
  BY <1>1 DEF IndicatorsCurrent, Stale, Empty
<1>6. RulesKept'
  BY <1>1, <1>2 DEF RulesKept, Targets, KeepBar
<1>7. OneBasis'
  BY <1>0, <1>1, <1>2 DEF OneBasis
<1>8. PatchesInside'
  BY <1>0, <1>1, <1>2 DEF PatchesInside
<1> QED
  BY <1>3, <1>4, <1>5, <1>6, <1>7, <1>8 DEF Inv

\* indicators.run
LEMMA CalculateInv ==
    ASSUME Inv, NEW full \in BOOLEAN, Calculate(full)
    PROVE  Inv'
<1>0. TypeOK /\ Between /\ IndicatorsCurrent /\ RulesKept /\ OneBasis /\ PatchesInside
  BY DEF Inv
<1>1. /\ ind' = [d \in DOMAIN ind \cup DOMAIN rows |-> IF d \in DOMAIN rows THEN TRUE ELSE ind[d]]
      /\ indAt' = second /\ tie' = FALSE
      /\ UNCHANGED <<rows, written, rules, splits, second, call, old, mixed, torn, cleaned>>
  BY DEF Calculate
<1>2. DOMAIN ind' = DOMAIN rows /\ \A d \in DOMAIN rows : ind'[d] = TRUE
  BY <1>0, <1>1 DEF IndicatorsCurrent
<1>3. TypeOK'
  BY <1>0, <1>1, <1>2, Types DEF TypeOK
<1>4. Between'
  BY <1>0, <1>1, Types DEF Between, Filter, KeepBar
<1>5. IndicatorsCurrent'
  BY <1>1, <1>2 DEF IndicatorsCurrent
<1>6. RulesKept' /\ OneBasis' /\ PatchesInside'
  BY <1>0, <1>1 DEF RulesKept, Targets, KeepBar, OneBasis, PatchesInside
<1> QED
  BY <1>3, <1>4, <1>5, <1>6 DEF Inv

\* The clock, a split, an edit of the rules, the first call and its failure
LEMMA OtherInv ==
    ASSUME Inv, Tick \/ Split \/ EditRules \/ CoreFirstCall \/ CoreFails \/ UNCHANGED vars
    PROVE  Inv'
<1>0. TypeOK /\ Between /\ IndicatorsCurrent /\ RulesKept /\ OneBasis /\ PatchesInside
  BY DEF Inv
<1>1. /\ UNCHANGED <<rows, written, ind, indAt, mixed, torn, cleaned, tie>>
      /\ EditRules \/ UNCHANGED <<rules, old>>
  BY DEF Tick, Split, EditRules, CoreFirstCall, CoreFails, vars, history
<1>2. IndicatorsCurrent' /\ OneBasis' /\ PatchesInside'
  BY <1>0, <1>1 DEF IndicatorsCurrent, Stale, OneBasis, PatchesInside
<1>3. RulesKept'
  <2>1. CASE EditRules
    BY <2>1 DEF EditRules, RulesKept, Targets, KeepBar
  <2>2. CASE ~EditRules
    BY <1>0, <1>1, <2>2 DEF RulesKept, Targets, KeepBar
  <2> QED
    BY <2>1, <2>2
<1>4. TypeOK'
  <2>1. CASE Tick
    BY <1>0, <2>1, Types DEF Tick, TypeOK, history
  <2>2. CASE Split
    BY <1>0, <2>2, Types DEF Split, TypeOK, history
  <2>3. CASE EditRules
    BY <1>0, <2>3 DEF EditRules, TypeOK
  <2>4. CASE CoreFirstCall
    BY <1>0, <2>4, Types, FilterKeeps DEF CoreFirstCall, TypeOK, history
  <2>5. CASE CoreFails
    BY <1>0, <2>5 DEF CoreFails, NoCall, TypeOK, history
  <2>6. CASE UNCHANGED vars
    BY <1>0, <2>6 DEF vars, history, TypeOK
  <2> QED
    BY <2>1, <2>2, <2>3, <2>4, <2>5, <2>6
<1>5. Between'
  <2>1. CASE Tick
    BY <1>0, <2>1, Types DEF Tick, TypeOK, Between, Filter, KeepBar
  <2>2. CASE Split \/ UNCHANGED vars
    BY <1>0, <2>2 DEF Split, vars, Between, Filter, KeepBar
  <2>3. CASE EditRules
    BY <1>0, <2>3 DEF EditRules, Between
  <2>4. CASE CoreFirstCall
    BY <1>0, <2>4, FilterKeeps DEF CoreFirstCall, Between, Filter, KeepBar
  <2>5. CASE CoreFails
    BY <1>0, <2>5 DEF CoreFails, NoCall, Between
  <2> QED
    BY <2>1, <2>2, <2>3, <2>4, <2>5
<1> QED
  BY <1>2, <1>3, <1>4, <1>5 DEF Inv

LEMMA InvNext == Inv /\ [Next]_vars => Inv'
BY CoreReplaceInv, RotationReplaceInv, AvUpsertInv, CleanupInv, CalculateInv, OtherInv DEF Next

(***************************************************************************)
(* Theorems                                                                *)
(***************************************************************************)

LEMMA InvAlways == Spec => []Inv
BY InvInit, InvNext, PTL DEF Spec

\* Every table and rule of a symbol keeps its type
THEOREM RowsTypeCorrect == Spec => []TypeOK
<1>1. Inv => TypeOK
  BY DEF Inv
<1> QED
  BY InvAlways, <1>1, PTL

\* The incremental run takes no outdated indicators for current ones
\* (find_stale_symbols), but for an upsert in the second of the calculation
THEOREM IndicatorsCurrentAlways == Spec => []IndicatorsCurrent
<1>1. Inv => IndicatorsCurrent
  BY DEF Inv
<1> QED
  BY InvAlways, <1>1, PTL

\* A stored bar that the data rules reject is older than the rule (DataRules.keep_bar)
THEOREM RulesKeptAlways == Spec => []RulesKept
<1>1. Inv => RulesKept
  BY DEF Inv
<1> QED
  BY InvAlways, <1>1, PTL

\* The bars of a symbol are on one split basis, patched ones included
\* (replace_symbol_prices, BarPatch.bar)
THEOREM OneBasisAlways == Spec => []OneBasis
<1>1. Inv => OneBasis
  BY DEF Inv
<1> QED
  BY InvAlways, <1>1, PTL

\* Patches fill gaps and extend no history (DataRules.apply_patches)
THEOREM PatchesInsideAlways == Spec => []PatchesInside
<1>1. Inv => PatchesInside
  BY DEF Inv
<1> QED
  BY InvAlways, <1>1, PTL
=============================================================================
