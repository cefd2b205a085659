--------------------------- MODULE UniverseRefresh ---------------------------
(***************************************************************************)
(* universe.py: the weekly refresh of the S&P 500 members, of the NASDAQ   *)
(* list, of the former core members and of the delisted symbols, and the   *)
(* readers that put the universe together from three files again. Each     *)
(* file is replaced atomically, one after the other; a refresh may be      *)
(* killed between two of them, and a branch switch may delete              *)
(* config/symbols.txt. Everything runs under the pipeline lock.            *)
(*                                                                         *)
(* The fixed core lists (core_etfs.txt, core_extra.txt) do not take part.  *)
(***************************************************************************)
EXTENDS Integers, Sequences, FiniteSets

CONSTANTS
    Symbols,
    BootstrapDays,  \* FORMER_CORE_BOOTSTRAP_DAYS
    MaxAge,         \* --max-age-days
    MinCatalog,     \* MIN_STOCK_CATALOG, MIN_ETF_CATALOG
    MaxDay,         \* bound: days
    MaxChanges,     \* bound: changes of the index
    MaxFaults       \* bound: failed and killed refreshes

ASSUME UniverseAssumption ==
    /\ IsFiniteSet(Symbols)
    /\ BootstrapDays \in Nat /\ MaxAge \in Nat /\ MinCatalog \in Nat
    /\ MaxDay \in Nat \ {0} /\ MaxChanges \in Nat \ {0} /\ MaxFaults \in Nat

VARIABLES
    day,        \* the date
    history,    \* the published index history: [on, members], oldest first
    listing,    \* symbols listed in the United States
    cache,      \* sp500_hist.csv: the history of some refresh; empty: no file
    list,       \* config/symbols.txt; empty: no file, or nothing valid in it
    uni,        \* universe.json; at 0: no file
    run,        \* the refresh in progress, and what it has computed
    tracked,    \* symbols with an entry in state.json
    served,     \* history: index members that a collection treated as core
    promised,   \* history: recent removals when universe.json was first saved
    halfDone,   \* history: a first refresh was killed after it wrote the cache
    dropped,    \* history: the former members that such a refresh knew of
    faults      \* history: failed and killed refreshes

files   == <<cache, list, uni>>
world   == <<day, history, listing>>
ghosts  == <<served, promised, dropped, halfDone>>
vars    == <<world, files, run, tracked, ghosts, faults>>

Day      == 0..MaxDay
Change   == [on : Day, members : SUBSET Symbols]
Saved    == [at : Day, sp500 : SUBSET Symbols, former : SUBSET Symbols, delisted : SUBSET Symbols]
NoFile   == [at |-> 0, sp500 |-> {}, former |-> {}, delisted |-> {}]
Refresh  == [to : {"idle", "cache", "list", "save"}, history : Seq(Change), uni : Saved,
             list : SUBSET Symbols, useCatalog : BOOLEAN, catalog : SUBSET Symbols, boot : SUBSET Symbols]
NoRun    == [to |-> "idle", history |-> <<>>, uni |-> NoFile,
             list |-> {}, useCatalog |-> FALSE, catalog |-> {}, boot |-> {}]

TypeOK ==
    /\ day \in 1..MaxDay
    /\ history \in Seq(Change) /\ Len(history) \in 1..MaxChanges
    /\ cache \in Seq(Change)
    /\ uni \in Saved
    /\ listing \subseteq Symbols /\ list \subseteq Symbols /\ tracked \subseteq Symbols
    /\ run \in Refresh
    /\ served \subseteq Symbols /\ promised \subseteq Symbols /\ dropped \subseteq Symbols
    /\ halfDone \in BOOLEAN
    /\ faults \in 0..MaxFaults

Init ==
    /\ day = 1
    /\ \E members \in (SUBSET Symbols) \ {{}} : history = <<[on |-> 1, members |-> members]>>
    /\ listing = Symbols
    /\ cache = <<>> /\ list = {} /\ uni = NoFile
    /\ run = NoRun
    /\ tracked = {}
    /\ served = {} /\ promised = {} /\ dropped = {}
    /\ halfDone = FALSE
    /\ faults = 0

-----------------------------------------------------------------------------
(* The world. A refresh reads it once, so a change during a refresh is as good *)
(* as one after it.                                                            *)

NextDay ==
    /\ run.to = "idle" /\ day < MaxDay
    /\ day' = day + 1
    /\ UNCHANGED <<history, listing, files, run, tracked, ghosts, faults>>

Latest(changes) == changes[Len(changes)]

\* The index takes in a symbol, or drops one, or both.
IndexChange(in, out) ==
    /\ run.to = "idle" /\ Len(history) < MaxChanges
    /\ LET members == (Latest(history).members \cup in) \ out
       IN  /\ members \notin {{}, Latest(history).members}
           /\ history' = Append(history, [on |-> day, members |-> members])
    /\ UNCHANGED <<day, listing, files, run, tracked, ghosts, faults>>

\* A symbol leaves the exchanges.
Delist(s) ==
    /\ run.to = "idle" /\ s \in listing
    /\ listing' = listing \ {s}
    /\ UNCHANGED <<day, history, files, run, tracked, ghosts, faults>>

\* config/symbols.txt is gitignored; a branch switch can delete it.
LoseList ==
    /\ run.to = "idle" /\ list # {}
    /\ list' = {}
    /\ UNCHANGED <<world, cache, uni, run, tracked, ghosts, faults>>

-----------------------------------------------------------------------------
(* The universe as readers see it *)

\* load_universe: the members come from the cached history while
\* universe.json has none.
Members ==
    IF uni.sp500 # {} THEN uni.sp500
    ELSE IF cache # <<>> THEN Latest(cache).members ELSE {}

Rotation   == ((list \cup uni.former) \ Members) \ uni.delisted
AllSymbols == Members \cup list \cup uni.former \cup uni.delisted

\* A collection works on the universe: some symbols get an entry.
Collect ==
    /\ run.to = "idle"
    /\ \E some \in SUBSET (Members \cup Rotation) : tracked' = tracked \cup some
    /\ served' = served \cup Members
    /\ UNCHANGED <<world, files, run, promised, dropped, halfDone, faults>>

-----------------------------------------------------------------------------
(* A refresh *)

\* Mutant of Due: a missing list waits for max_age
DueByAge(useCatalog) == uni.at = 0 \/ day - uni.at >= MaxAge

\* refresh_reason
Due(useCatalog) ==
    \/ uni.at = 0
    \/ useCatalog /\ list = {}
    \/ day - uni.at >= MaxAge

\* recent_removals: left within BootstrapDays of the latest change, and no member now.
RecentRemovals(changes) ==
    {s \in Symbols \ Latest(changes).members :
        \E i \in 1..(Len(changes) - 1) :
            /\ changes[i + 1].on >= Latest(changes).on - BootstrapDays
            /\ s \in changes[i].members \ changes[i + 1].members}

Removed(changes) ==
    IF Members # {} THEN Members \ Latest(changes).members ELSE RecentRemovals(changes)

\* Mutant of Former: earlier former members are forgotten
FormerNow(changes) == Removed(changes) \ Latest(changes).members

Former(changes) == (uni.former \cup Removed(changes)) \ Latest(changes).members

\* Mutant of Delisted: only the new lists are compared with the catalog
DelistedNow(members, nasdaq, catalog) ==
    IF Cardinality(catalog) < MinCatalog THEN uni.delisted
    ELSE (nasdaq \cup members \cup uni.delisted) \ catalog

\* Delisting: everything known that the catalog lacks, unless it is too small.
Delisted(members, nasdaq, catalog) ==
    IF Cardinality(catalog) < MinCatalog THEN uni.delisted
    ELSE ((AllSymbols \cup nasdaq \cup members \cup tracked) \cup uni.delisted) \ catalog

\* main and the first half of refresh_universe: the history and the catalogs
\* are fetched (each possibly cut short, even to nothing) and the new universe is
\* computed.
\* --force and --skip-catalog; --check and --dry-run write nothing.
Fetch(force, useCatalog) ==
    /\ run.to = "idle"
    /\ force \/ Due(useCatalog)
    /\ \E nasdaq, catalog \in SUBSET listing :
         /\ ~useCatalog => nasdaq = {} /\ catalog = {}
         /\ LET members == Latest(history).members
            IN  run' = [to         |-> "cache",
                        history    |-> history,
                        uni        |-> [at       |-> day,
                                        sp500    |-> members,
                                        former   |-> Former(history),
                                        delisted |-> IF useCatalog THEN Delisted(members, nasdaq, catalog)
                                                     ELSE uni.delisted],
                        list       |-> nasdaq,
                        useCatalog |-> useCatalog,
                        catalog    |-> catalog,
                        boot       |-> IF Members = {} THEN RecentRemovals(history) ELSE {}]
    /\ UNCHANGED <<world, files, tracked, ghosts, faults>>

\* The three files, in the order of the code.
WriteCache ==
    /\ run.to = "cache"
    /\ cache' = run.history
    /\ run' = [run EXCEPT !.to = IF run.useCatalog THEN "list" ELSE "save"]
    /\ UNCHANGED <<world, list, uni, tracked, ghosts, faults>>

WriteList ==
    /\ run.to = "list"
    /\ list' = run.list
    /\ run' = [run EXCEPT !.to = "save"]
    /\ UNCHANGED <<world, cache, uni, tracked, ghosts, faults>>

\* Mutant of SaveUniverse: the time of the refresh is not the UTC one
SaveUniverseAhead ==
    /\ run.to = "save"
    /\ uni' = [run.uni EXCEPT !.at = @ + 1]
    /\ promised' = IF uni.at = 0 THEN RecentRemovals(run.history) ELSE promised
    /\ run' = NoRun
    /\ UNCHANGED <<world, cache, list, tracked, served, dropped, halfDone, faults>>

\* save_universe
SaveUniverse ==
    /\ run.to = "save"
    /\ uni' = run.uni
    /\ promised' = IF uni.at = 0 THEN RecentRemovals(run.history) ELSE promised
    /\ run' = NoRun
    /\ UNCHANGED <<world, cache, list, tracked, served, dropped, halfDone, faults>>

\* The refresh is killed, or a write fails. (A failed download or catalog
\* call ends it before it wrote anything, as a kill at "cache" does.)
Kill ==
    /\ run.to # "idle" /\ faults < MaxFaults
    /\ faults' = faults + 1
    /\ run' = NoRun
    /\ IF uni.at = 0 /\ run.to # "cache"
       THEN halfDone' = TRUE /\ dropped' = dropped \cup run.uni.former
       ELSE UNCHANGED <<halfDone, dropped>>
    /\ UNCHANGED <<world, files, tracked, served, promised>>

-----------------------------------------------------------------------------
\* fetch_tickers.run: the exchange's list, alone or behind the present one. An
\* empty answer is written as well.
FetchTickers(append) ==
    /\ run.to = "idle"
    /\ \E fetched \in SUBSET listing :
         list' = IF append THEN list \cup fetched ELSE fetched
    /\ UNCHANGED <<world, cache, uni, run, tracked, ghosts, faults>>

Next ==
    \/ NextDay \/ LoseList \/ Collect
    \/ \E in, out \in SUBSET Symbols : IndexChange(in, out)
    \/ \E s \in Symbols : Delist(s)
    \/ \E force, useCatalog \in BOOLEAN : Fetch(force, useCatalog)
    \/ WriteCache \/ WriteList \/ SaveUniverse \/ Kill
    \/ \E append \in BOOLEAN : FetchTickers(append)

Spec == Init /\ [][Next]_vars

\* A refresh that is due and gets a list. The provider may answer with none, but
\* not for ever while symbols are listed.
FetchListed == Fetch(FALSE, TRUE) /\ run'.list # {}

\* run_daily.sh starts src.universe every day, whatever is started by hand in
\* between, and a refresh runs on to its end.
FairSpec ==
    /\ Spec
    /\ SF_vars(FetchListed) /\ WF_vars(WriteCache) /\ WF_vars(WriteList) /\ WF_vars(SaveUniverse)

-----------------------------------------------------------------------------
(* Properties *)

\* A symbol that a collection ever treated as an index member stays a core or
\* former core symbol, and so do the recent removals that the first refresh
\* takes from the history, through every change, kill and lost list: every
\* collection finds it, since none runs beside a refresh. Only
\* what a first refresh knew when it was killed between the cache and
\* universe.json is gone: the next one takes the new cache for the old state.
FormerKept ==
    run.to = "idle" =>
        (served \ dropped) \cup (IF halfDone THEN {} ELSE promised) \subseteq Members \cup uni.former

\* After a refresh with a large enough catalog, rotation has no symbol that
\* the catalog lacks, whatever was in the lists, entries and marks before,
\* except former members that this refresh took from the history.
RotationListed ==
    [][SaveUniverse /\ run.useCatalog /\ Cardinality(run.catalog) >= MinCatalog
        => Rotation' \subseteq run.catalog \cup run.boot]_vars

\* A NASDAQ list that was lost, or overwritten by an empty answer, is fetched again,
\* however recent the last refresh.
ListComesBack == (list = {} /\ listing # {}) ~> (list # {} \/ listing = {})
=============================================================================
