------------------------ MODULE UniverseRefreshProofs ------------------------
(***************************************************************************)
(* Proofs about UniverseRefresh, for every finite set of symbols, every    *)
(* bootstrap and age limit, and any number of days, changes and faults.    *)
(***************************************************************************)
EXTENDS UniverseRefresh, FiniteSetTheorems, TLAPS

USE UniverseAssumption

(***************************************************************************)
(* The invariant                                                           *)
(***************************************************************************)

\* The index is never empty, and neither is a saved one.
World == \A i \in 1..Len(history) : history[i].members # {}
Files ==
    /\ uni.at = 0 => uni = NoFile /\ promised = {}
    /\ uni.at # 0 => uni.sp500 # {}

\* What is promised, as the readers see it: whenever no new cache stands in
\* for a universe.json that is not there yet.
Kept     == (served \ dropped) \cup (IF halfDone THEN {} ELSE promised) \subseteq Members \cup uni.former
KeptHere == run.to \in {"idle", "cache"} \/ uni.at # 0 => Kept

\* A cache without universe.json is the rest of a killed first refresh.
CacheAlone == uni.at = 0 /\ run.to \in {"idle", "cache"} /\ cache # <<>> => halfDone

\* What a refresh carries from its computation to its last file.
Carried ==
    run.to # "idle" =>
        /\ run.history \in Seq(Change) /\ run.history # <<>>
        /\ run.uni.at # 0
        /\ run.uni.sp500 = Latest(run.history).members /\ run.uni.sp500 # {}
        /\ served \ dropped \subseteq run.uni.sp500 \cup run.uni.former
        /\ ~halfDone => promised \subseteq run.uni.sp500 \cup run.uni.former
        /\ ~halfDone /\ uni.at = 0 => RecentRemovals(run.history) \subseteq run.uni.sp500 \cup run.uni.former
        /\ run.to \in {"list", "save"} => cache = run.history
        /\ run.to = "save" /\ run.useCatalog => list = run.list
        /\ run.useCatalog /\ Cardinality(run.catalog) >= MinCatalog =>
             ((run.list \cup run.uni.former) \ run.uni.sp500) \ run.uni.delisted
                 \subseteq run.catalog \cup run.boot

Inv == TypeOK /\ World /\ Files /\ KeptHere /\ CacheAlone /\ Carried

LEMMA InvParts == Inv => TypeOK /\ World /\ Files /\ KeptHere /\ CacheAlone /\ Carried
BY DEF Inv

LEMMA InvInit == Init => Inv
<1> SUFFICES ASSUME Init PROVE Inv
  OBVIOUS
<1>1. PICK members \in (SUBSET Symbols) \ {{}} : history = <<[on |-> 1, members |-> members]>>
  BY DEF Init
<1>2. [on |-> 1, members |-> members] \in Change
  BY DEF Change, Day
<1>3. history \in Seq(Change) /\ Len(history) = 1 /\ history[1].members # {}
  <2>1. \A c \in Change : <<c>> \in Seq(Change) /\ Len(<<c>>) = 1 /\ <<c>>[1] = c
    OBVIOUS
  <2> DEFINE first == [on |-> 1, members |-> members]
  <2>2. history = <<first>>
    BY <1>1
  <2>3. first \in Change /\ first.members = members /\ members # {}
    BY <1>2
  <2> HIDE DEF first
  <2> QED
    BY <2>1, <2>2, <2>3
<1>4. NoFile \in Saved /\ NoFile.at = 0
  BY DEF NoFile, Saved, Day
<1>5. NoRun \in Refresh /\ NoRun.to = "idle"
  <2>1. <<>> \in Seq(Change)
    OBVIOUS
  <2> QED
    BY <1>4, <2>1 DEF NoRun, Refresh
<1>6. TypeOK
  <2>1. cache \in Seq(Change) /\ uni \in Saved /\ run \in Refresh
    BY <1>4, <1>5 DEF Init
  <2>2. Len(history) \in 1..MaxChanges /\ day \in 1..MaxDay /\ faults \in 0..MaxFaults
    BY <1>3 DEF Init
  <2>3. /\ listing \subseteq Symbols /\ list \subseteq Symbols /\ tracked \subseteq Symbols
        /\ served \subseteq Symbols /\ promised \subseteq Symbols /\ dropped \subseteq Symbols
        /\ halfDone \in BOOLEAN
    BY DEF Init
  <2> QED
    BY <1>3, <2>1, <2>2, <2>3 DEF TypeOK
<1>7. World /\ Files /\ KeptHere /\ CacheAlone /\ Carried
  BY <1>3, <1>4, <1>5 DEF Init, World, Files, KeptHere, Kept, CacheAlone, Carried
<1> QED
  BY <1>6, <1>7 DEF Inv

(***************************************************************************)
(* Types                                                                   *)
(***************************************************************************)

LEMMA SavedParts ==
    /\ \A u \in Saved : u.at \in Day /\ u.sp500 \subseteq Symbols /\ u.former \subseteq Symbols
                        /\ u.delisted \subseteq Symbols
    /\ \A c \in Change : c.on \in Day /\ c.members \subseteq Symbols
    /\ NoFile \in Saved /\ NoRun \in Refresh /\ NoRun.to = "idle"
<1>1. NoFile \in Saved
  BY DEF NoFile, Saved, Day
<1>2. <<>> \in Seq(Change)
  OBVIOUS
<1>3. NoRun \in Refresh /\ NoRun.to = "idle"
  BY <1>1, <1>2 DEF NoRun, Refresh
<1> QED
  BY <1>1, <1>3 DEF Saved, Change

LEMMA LatestType ==
    ASSUME NEW changes \in Seq(Change), changes # <<>>
    PROVE  Latest(changes) \in Change
BY DEF Latest

\* Whatever universe readers put together is made of symbols
LEMMA ReadTypes ==
    ASSUME TypeOK
    PROVE  /\ uni.at \in Day /\ uni.sp500 \subseteq Symbols /\ uni.former \subseteq Symbols
           /\ uni.delisted \subseteq Symbols
           /\ Members \subseteq Symbols /\ Rotation \subseteq Symbols
           /\ history \in Seq(Change) /\ history # <<>> /\ Latest(history) \in Change
           /\ Latest(history).members \subseteq Symbols
           /\ day \in Day /\ day # 0
<1>1. uni \in Saved /\ list \subseteq Symbols /\ cache \in Seq(Change)
  BY DEF TypeOK
<1>2. history \in Seq(Change) /\ history # <<>>
  BY DEF TypeOK
<1>3. Latest(history) \in Change
  BY <1>2, LatestType
<1>4. Members \subseteq Symbols
  BY <1>1, LatestType, SavedParts DEF Members
<1>5. Rotation \subseteq Symbols
  BY <1>1, SavedParts DEF Rotation
<1> QED
  BY <1>1, <1>2, <1>3, <1>4, <1>5, SavedParts DEF TypeOK, Day

(***************************************************************************)
(* Every step keeps the invariant                                          *)
(***************************************************************************)

\* What the readers see depends on the two files only
LEMMA SameView ==
    ASSUME UNCHANGED <<cache, uni, served, promised, dropped, halfDone>>
    PROVE  Members' = Members /\ (Kept' <=> Kept)
BY DEF Members, Latest, Kept

\* The world moves on while no refresh runs, and the NASDAQ list may be lost
\* or fetched again (fetch_tickers.run)
LEMMA WorldInv ==
    ASSUME Inv,
           \/ NextDay \/ LoseList
           \/ \E in, out \in SUBSET Symbols : IndexChange(in, out)
           \/ \E s \in Symbols : Delist(s)
           \/ \E append \in BOOLEAN : FetchTickers(append)
    PROVE  Inv'
<1>0. TypeOK /\ World /\ Files /\ KeptHere /\ CacheAlone /\ Carried
  BY InvParts
<1>1. /\ run.to = "idle"
      /\ UNCHANGED <<cache, uni, run, tracked, served, promised, dropped, halfDone>>
  BY DEF NextDay, LoseList, IndexChange, Delist, FetchTickers, files, ghosts, world
<1>2. Files' /\ KeptHere' /\ CacheAlone' /\ Carried'
  BY <1>0, <1>1, SameView DEF Files, KeptHere, CacheAlone, Carried
<1>3. ASSUME NEW in \in SUBSET Symbols, NEW out \in SUBSET Symbols, IndexChange(in, out)
      PROVE  TypeOK' /\ World'
  <2> DEFINE members == (Latest(history).members \cup in) \ out
             new     == [on |-> day, members |-> members]
  <2>1. /\ members # {} /\ history' = Append(history, new)
        /\ Len(history) < MaxChanges
        /\ UNCHANGED <<day, listing, list, faults>>
    BY <1>3 DEF IndexChange, files
  <2>2. new \in Change
    BY <1>0, ReadTypes DEF Change
  <2> HIDE DEF new
  <2>3. /\ history \in Seq(Change) /\ history' \in Seq(Change) /\ Len(history') = Len(history) + 1
        /\ \A i \in 1..Len(history) : history'[i] = history[i]
        /\ history'[Len(history) + 1] = new
    BY <1>0, <2>1, <2>2 DEF TypeOK
  <2>4. new.members # {}
    BY <2>1 DEF new
  <2>5. World'
    BY <1>0, <2>3, <2>4 DEF World, TypeOK
  <2>6. TypeOK'
    BY <1>0, <1>1, <2>1, <2>3 DEF TypeOK
  <2> QED
    BY <2>5, <2>6
<1>4. ASSUME NextDay \/ LoseList \/ (\E s \in Symbols : Delist(s))
             \/ (\E append \in BOOLEAN : FetchTickers(append))
      PROVE  TypeOK' /\ World'
  <2>1. CASE NextDay
    BY <1>0, <2>1 DEF NextDay, TypeOK, World, files, ghosts
  <2>2. CASE LoseList
    BY <1>0, <2>2 DEF LoseList, TypeOK, World, world, ghosts
  <2>3. CASE \E s \in Symbols : Delist(s)
    BY <1>0, <2>3 DEF Delist, TypeOK, World, files, ghosts
  <2>4. CASE \E append \in BOOLEAN : FetchTickers(append)
    BY <1>0, <2>4 DEF FetchTickers, TypeOK, World, world, ghosts
  <2> QED
    BY <1>4, <2>1, <2>2, <2>3, <2>4
<1> QED
  BY <1>2, <1>3, <1>4 DEF Inv

\* A collection serves the members that it reads, so they are kept from the start
LEMMA CollectInv ==
    ASSUME Inv, Collect
    PROVE  Inv'
<1>0. TypeOK /\ World /\ Files /\ KeptHere /\ CacheAlone /\ Carried
  BY InvParts
<1>1. /\ run.to = "idle" /\ served' = served \cup Members
      /\ UNCHANGED <<day, history, listing, cache, list, uni, run, promised, dropped, halfDone, faults>>
  BY DEF Collect, world, files
<1>2. PICK some \in SUBSET (Members \cup Rotation) : tracked' = tracked \cup some
  BY DEF Collect
<1>3. Members' = Members
  BY <1>1 DEF Members, Latest
<1>4. TypeOK'
  BY <1>0, <1>1, <1>2, ReadTypes DEF TypeOK
<1>5. World' /\ Files' /\ CacheAlone' /\ Carried'
  BY <1>0, <1>1 DEF World, Files, CacheAlone, Carried
<1>6. KeptHere'
  BY <1>0, <1>1, <1>3 DEF KeptHere, Kept
<1> QED
  BY <1>4, <1>5, <1>6 DEF Inv

\* The first half of refresh_universe: nothing that is kept is left out of
\* the new universe, and nothing unlisted is left in its rotation
LEMMA FetchInv ==
    ASSUME Inv, NEW force \in BOOLEAN, NEW useCatalog \in BOOLEAN, Fetch(force, useCatalog)
    PROVE  Inv'
<1>0. TypeOK /\ World /\ Files /\ KeptHere /\ CacheAlone /\ Carried
  BY InvParts
<1> DEFINE members == Latest(history).members
<1>1. PICK nasdaq \in SUBSET listing, catalog \in SUBSET listing :
        /\ ~useCatalog => nasdaq = {} /\ catalog = {}
        /\ run' = [to         |-> "cache",
                   history    |-> history,
                   uni        |-> [at       |-> day,
                                   sp500    |-> members,
                                   former   |-> Former(history),
                                   delisted |-> IF useCatalog THEN Delisted(members, nasdaq, catalog)
                                                ELSE uni.delisted],
                   list       |-> nasdaq,
                   useCatalog |-> useCatalog,
                   catalog    |-> catalog,
                   boot       |-> IF Members = {} THEN RecentRemovals(history) ELSE {}]
  BY DEF Fetch
<1>2. /\ run.to = "idle"
      /\ UNCHANGED <<day, history, listing, cache, list, uni, tracked,
                     served, promised, dropped, halfDone, faults>>
  BY DEF Fetch, world, files, ghosts
<1>3. /\ Kept /\ (uni.at = 0 /\ cache # <<>> => halfDone)
      /\ members # {} /\ members \subseteq Symbols
      /\ nasdaq \subseteq Symbols /\ catalog \subseteq Symbols
  <2>1. history \in Seq(Change) /\ Len(history) >= 1 /\ members = history[Len(history)].members
    BY <1>0 DEF TypeOK, Latest
  <2>2. members # {}
    BY <1>0, <2>1 DEF World
  <2> QED
    BY <1>0, <1>2, <2>2, ReadTypes DEF KeptHere, CacheAlone, TypeOK
<1>4. RecentRemovals(history) \subseteq Symbols
  BY DEF RecentRemovals
<1>5. Removed(history) \subseteq Symbols /\ Former(history) \subseteq Symbols
  BY <1>0, <1>4, ReadTypes DEF Removed, Former
<1>6. Delisted(members, nasdaq, catalog) \subseteq Symbols
  <2>1. AllSymbols \subseteq Symbols /\ tracked \subseteq Symbols /\ uni.delisted \subseteq Symbols
    BY <1>0, ReadTypes DEF AllSymbols, TypeOK
  <2> QED
    BY <1>3, <2>1 DEF Delisted
<1>7. Members \cup uni.former \subseteq members \cup Former(history)
  BY DEF Removed, Former
<1>8. ~halfDone /\ uni.at = 0 => RecentRemovals(history) \subseteq members \cup Former(history)
  <2>1. ~halfDone /\ uni.at = 0 => Members = {}
    BY <1>0, <1>3 DEF Files, Members, NoFile
  <2> QED
    BY <2>1 DEF Removed, Former
<1>9. useCatalog /\ Cardinality(catalog) >= MinCatalog =>
        ((nasdaq \cup Former(history)) \ members) \ Delisted(members, nasdaq, catalog)
            \subseteq catalog \cup (IF Members = {} THEN RecentRemovals(history) ELSE {})
  <2>1. Cardinality(catalog) \in Nat
    BY <1>3, FS_Subset, FS_CardinalityType
  <2>2. SUFFICES ASSUME Cardinality(catalog) >= MinCatalog,
                        NEW x \in nasdaq \cup Former(history),
                        x \notin catalog, x \notin Delisted(members, nasdaq, catalog)
                 PROVE  Members = {} /\ x \in RecentRemovals(history)
    OBVIOUS
  <2>3. x \notin (AllSymbols \cup nasdaq \cup members \cup tracked) \cup uni.delisted
    BY <2>1, <2>2 DEF Delisted
  <2>4. x \in Removed(history) /\ x \notin Members
    BY <2>2, <2>3 DEF AllSymbols, Former
  <2> QED
    BY <2>4 DEF Removed
<1>10. TypeOK'
  <2> HIDE DEF members
  <2>1. run'.uni \in Saved
    BY <1>0, <1>1, <1>3, <1>5, <1>6, ReadTypes DEF Saved
  <2>2. run' \in Refresh
    BY <1>0, <1>1, <1>3, <1>4, <2>1, ReadTypes DEF Refresh
  <2> QED
    BY <1>0, <1>2, <2>2 DEF TypeOK
<1>11. World' /\ Files' /\ KeptHere' /\ CacheAlone'
  BY <1>0, <1>1, <1>2, <1>3, SameView DEF World, Files, KeptHere, CacheAlone
<1>12. Carried'
  <2>0. /\ run'.to = "cache" /\ run'.history = history /\ run'.uni.at = day
        /\ run'.uni.sp500 = members /\ run'.uni.former = Former(history)
        /\ run'.uni.delisted = (IF useCatalog THEN Delisted(members, nasdaq, catalog) ELSE uni.delisted)
        /\ run'.list = nasdaq /\ run'.useCatalog = useCatalog /\ run'.catalog = catalog
        /\ run'.boot = (IF Members = {} THEN RecentRemovals(history) ELSE {})
    BY <1>1
  <2>1. history \in Seq(Change) /\ history # <<>> /\ day # 0
    BY <1>0, ReadTypes
  <2>2. RecentRemovals(run'.history) = RecentRemovals(history) /\ Latest(run'.history).members = members
    BY <2>0
  <2>3. /\ served \ dropped \subseteq members \cup Former(history)
        /\ ~halfDone => promised \subseteq members \cup Former(history)
    BY <1>3, <1>7 DEF Kept
  <2> HIDE DEF members
  <2> QED
    BY <1>2, <1>3, <1>8, <1>9, <2>0, <2>1, <2>2, <2>3 DEF Carried
<1> QED
  BY <1>10, <1>11, <1>12 DEF Inv

\* The cache and the list are written (refresh_universe)
LEMMA WriteInv ==
    ASSUME Inv, WriteCache \/ WriteList
    PROVE  Inv'
<1>0. TypeOK /\ World /\ Files /\ KeptHere /\ CacheAlone /\ Carried
  BY InvParts
<1>1. CASE WriteCache
  <2>1. /\ run.to = "cache" /\ cache' = run.history
        /\ run' = [run EXCEPT !.to = IF run.useCatalog THEN "list" ELSE "save"]
        /\ UNCHANGED <<day, history, listing, list, uni, tracked,
                       served, promised, dropped, halfDone, faults>>
    BY <1>1 DEF WriteCache, world, ghosts
  <2>2. /\ run' \in Refresh /\ run'.to = (IF run.useCatalog THEN "list" ELSE "save")
        /\ run'.history = run.history /\ run'.uni = run.uni /\ run'.list = run.list
        /\ run'.useCatalog = run.useCatalog /\ run'.catalog = run.catalog /\ run'.boot = run.boot
    BY <1>0, <2>1 DEF TypeOK, Refresh
  <2>3. TypeOK' /\ World' /\ Files' /\ CacheAlone'
    BY <1>0, <2>1, <2>2 DEF TypeOK, World, Files, CacheAlone, Refresh
  <2>4. KeptHere'
    <3>1. uni.at # 0 => Members' = Members /\ Kept
      BY <1>0, <2>1 DEF Files, Members, KeptHere
    <3> QED
      BY <2>1, <2>2, <3>1 DEF KeptHere, Kept
  <2>5. Carried'
    <3>1. RecentRemovals(run'.history) = RecentRemovals(run.history)
          /\ Latest(run'.history) = Latest(run.history)
      BY <2>2
    <3> QED
      BY <1>0, <2>1, <2>2, <3>1 DEF Carried
  <2> QED
    BY <2>3, <2>4, <2>5 DEF Inv
<1>2. CASE WriteList
  <2>1. /\ run.to = "list" /\ list' = run.list
        /\ run' = [run EXCEPT !.to = "save"]
        /\ UNCHANGED <<day, history, listing, cache, uni, tracked,
                       served, promised, dropped, halfDone, faults>>
    BY <1>2 DEF WriteList, world, ghosts
  <2>2. /\ run' \in Refresh /\ run'.to = "save" /\ run.list \subseteq Symbols
        /\ run'.history = run.history /\ run'.uni = run.uni /\ run'.list = run.list
        /\ run'.useCatalog = run.useCatalog /\ run'.catalog = run.catalog /\ run'.boot = run.boot
    BY <1>0, <2>1 DEF TypeOK, Refresh
  <2>3. TypeOK' /\ World' /\ Files' /\ CacheAlone'
    BY <1>0, <2>1, <2>2 DEF TypeOK, World, Files, CacheAlone
  <2>4. KeptHere'
    BY <1>0, <2>1, <2>2, SameView DEF KeptHere
  <2>5. Carried'
    <3>1. RecentRemovals(run'.history) = RecentRemovals(run.history)
          /\ Latest(run'.history) = Latest(run.history)
      BY <2>2
    <3> QED
      BY <1>0, <2>1, <2>2, <3>1 DEF Carried
  <2> QED
    BY <2>3, <2>4, <2>5 DEF Inv
<1> QED
  BY <1>1, <1>2

\* save_universe: what was carried is what readers see from now on
LEMMA SaveInv ==
    ASSUME Inv, SaveUniverse
    PROVE  Inv'
<1>0. TypeOK /\ World /\ Files /\ KeptHere /\ CacheAlone /\ Carried
  BY InvParts
<1>1. /\ run.to = "save" /\ uni' = run.uni /\ run' = NoRun
      /\ promised' = IF uni.at = 0 THEN RecentRemovals(run.history) ELSE promised
      /\ UNCHANGED <<day, history, listing, cache, list, tracked, served, dropped, halfDone, faults>>
  BY DEF SaveUniverse, world
<1>2. run'.to = "idle" /\ uni' \in Saved /\ run' \in Refresh
  BY <1>0, <1>1, SavedParts DEF TypeOK, Refresh
<1>3. promised' \subseteq Symbols
  BY <1>0, <1>1 DEF TypeOK, RecentRemovals
<1>4. uni'.at # 0 /\ uni'.sp500 # {} /\ Members' = run.uni.sp500
  BY <1>0, <1>1 DEF Carried, Members
<1>5. TypeOK' /\ World' /\ Files' /\ CacheAlone' /\ Carried'
  BY <1>0, <1>1, <1>2, <1>3, <1>4 DEF TypeOK, World, Files, CacheAlone, Carried
<1>6. KeptHere'
  BY <1>0, <1>1, <1>4 DEF Carried, KeptHere, Kept
<1> QED
  BY <1>5, <1>6 DEF Inv

\* A killed refresh leaves the readers what they had, but for a first one
\* between its cache and universe.json
LEMMA KillInv ==
    ASSUME Inv, Kill
    PROVE  Inv'
<1>0. TypeOK /\ World /\ Files /\ KeptHere /\ CacheAlone /\ Carried
  BY InvParts
<1>1. /\ run.to # "idle" /\ run' = NoRun /\ faults' = faults + 1 /\ faults < MaxFaults
      /\ IF uni.at = 0 /\ run.to # "cache"
         THEN halfDone' = TRUE /\ dropped' = dropped \cup run.uni.former
         ELSE UNCHANGED <<halfDone, dropped>>
      /\ UNCHANGED <<day, history, listing, cache, list, uni, tracked, served, promised>>
  BY DEF Kill, world, files
<1>2. run'.to = "idle" /\ run' \in Refresh
  BY <1>1, SavedParts
<1>3. run.uni.former \subseteq Symbols /\ run.to \in {"cache", "list", "save"}
  BY <1>0, <1>1, SavedParts DEF TypeOK, Refresh
<1>4. TypeOK'
  <2>1. halfDone' \in BOOLEAN /\ dropped' \subseteq Symbols
    BY <1>0, <1>1, <1>3 DEF TypeOK
  <2>2. faults' \in 0..MaxFaults
    BY <1>0, <1>1 DEF TypeOK
  <2> QED
    BY <1>0, <1>1, <1>2, <2>1, <2>2 DEF TypeOK
<1>5. World' /\ Files' /\ CacheAlone' /\ Carried'
  BY <1>0, <1>1, <1>2, <1>3 DEF World, Files, CacheAlone, Carried
<1>6. KeptHere'
  <2>1. CASE uni.at = 0 /\ run.to # "cache"
    <3>1. uni = NoFile /\ promised = {} /\ cache = run.history /\ cache # <<>>
      BY <1>0, <1>1, <1>3, <2>1 DEF Files, Carried
    <3>2. Members' = run.uni.sp500
      BY <1>0, <1>1, <3>1 DEF Members, Carried, NoFile, Latest
    <3>3. served \ dropped \subseteq run.uni.sp500 \cup run.uni.former
      BY <1>0, <1>1 DEF Carried
    <3> QED
      BY <1>1, <2>1, <3>1, <3>2, <3>3 DEF KeptHere, Kept
  <2>2. CASE ~(uni.at = 0 /\ run.to # "cache")
    <3>1. Kept
      BY <1>0, <1>3, <2>2 DEF KeptHere
    <3> QED
      BY <1>1, <2>2, <3>1, SameView DEF KeptHere
  <2> QED
    BY <2>1, <2>2
<1> QED
  BY <1>4, <1>5, <1>6 DEF Inv

LEMMA InvNext == Inv /\ [Next]_vars => Inv'
<1> SUFFICES ASSUME Inv, [Next]_vars PROVE Inv'
  OBVIOUS
<1>1. CASE UNCHANGED vars
  <2>1. TypeOK /\ World /\ Files /\ KeptHere /\ CacheAlone /\ Carried
    BY InvParts
  <2>2. UNCHANGED <<day, history, listing, cache, list, uni, run, tracked,
                    served, promised, dropped, halfDone, faults>>
    BY <1>1 DEF vars, world, files, ghosts
  <2>3. TypeOK' /\ World' /\ Files' /\ CacheAlone' /\ Carried'
    BY <2>1, <2>2 DEF TypeOK, World, Files, CacheAlone, Carried
  <2>4. KeptHere'
    BY <2>1, <2>2, SameView DEF KeptHere
  <2> QED
    BY <2>3, <2>4 DEF Inv
<1> QED
  BY <1>1, WorldInv, CollectInv, FetchInv, WriteInv, SaveInv, KillInv DEF Next

(***************************************************************************)
(* Theorems                                                                *)
(***************************************************************************)

LEMMA InvAlways == Spec => []Inv
BY InvInit, InvNext, PTL DEF Spec

\* The files, and what a refresh carries between them, keep their types
THEOREM UniverseTypeCorrect == Spec => []TypeOK
<1>1. Inv => TypeOK
  BY DEF Inv
<1> QED
  BY InvAlways, <1>1, PTL

\* No refresh, kill or lost list forgets a member that was served, but for a
\* killed first refresh (refresh_universe, load_universe)
THEOREM FormerKeptAlways == Spec => []FormerKept
<1>1. Inv => FormerKept
  BY DEF Inv, KeptHere, Kept, FormerKept
<1> QED
  BY InvAlways, <1>1, PTL

\* A checked rotation list has listed symbols only (refresh_universe)
THEOREM RotationListedAlways == Spec => RotationListed
<1>1. Inv /\ SaveUniverse /\ run.useCatalog /\ Cardinality(run.catalog) >= MinCatalog
        => Rotation' \subseteq run.catalog \cup run.boot
  <2> SUFFICES ASSUME Inv, SaveUniverse, run.useCatalog, Cardinality(run.catalog) >= MinCatalog
               PROVE  Rotation' \subseteq run.catalog \cup run.boot
    OBVIOUS
  <2>1. run.to = "save" /\ uni' = run.uni /\ list' = list
    BY DEF SaveUniverse
  <2>2. Carried
    BY InvParts
  <2>3. list = run.list /\ run.uni.sp500 # {}
    BY <2>1, <2>2 DEF Carried
  <2>4. Members' = run.uni.sp500
    BY <2>1, <2>3 DEF Members
  <2>5. Rotation' = ((run.list \cup run.uni.former) \ run.uni.sp500) \ run.uni.delisted
    BY <2>1, <2>3, <2>4 DEF Rotation
  <2> QED
    BY <2>1, <2>2, <2>5 DEF Carried
<1>2. Inv /\ [Next]_vars =>
        [SaveUniverse /\ run.useCatalog /\ Cardinality(run.catalog) >= MinCatalog
            => Rotation' \subseteq run.catalog \cup run.boot]_vars
  BY <1>1
<1> QED
  BY InvAlways, <1>2, PTL DEF Spec, RotationListed
=============================================================================
