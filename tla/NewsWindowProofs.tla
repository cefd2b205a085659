-------------------------- MODULE NewsWindowProofs --------------------------
(***************************************************************************)
(* Proofs about NewsWindow, for every page size and threshold, every       *)
(* setting of the windows, and any number of days, articles and faults.    *)
(***************************************************************************)
EXTENDS NewsWindow, FiniteSetTheorems, WellFoundedInduction, TLAPS

USE NewsAssumption

(***************************************************************************)
(* Pages                                                                   *)
(***************************************************************************)

\* The articles of a day, and whether a page has all of them
DayOf(d)       == {a \in Published : a[1] = d}
Whole(d, rows) == DayOf(d) \subseteq rows

LEMMA SmallestDay ==
    ASSUME NEW days \in SUBSET Nat, days # {}
    PROVE  \E d \in days : \A other \in days : d <= other
<1>1. PICK d \in days : \A other \in days : ~(<<other, d>> \in OpToRel(<, Nat))
  BY WFMin, NatLessThanWellFounded
<1>2. \A other \in days : ~(other < d)
  BY <1>1 DEF OpToRel
<1> QED
  BY <1>2

\* How many articles a day has
LEMMA DaySize ==
    ASSUME published \in [Days -> 0..MaxArticles], NEW d \in Days
    PROVE  IsFiniteSet(DayOf(d)) /\ Cardinality(DayOf(d)) = published[d]
<1>1. published[d] \in 0..MaxArticles
  OBVIOUS
<1>2. DayOf(d) = {d} \X (1..published[d])
  <2>1. DayOf(d) \subseteq {d} \X (1..published[d])
    BY <1>1 DEF DayOf, Published, Article
  <2>2. {d} \X (1..published[d]) \subseteq DayOf(d)
    BY <1>1 DEF DayOf, Published, Article
  <2> QED
    BY <2>1, <2>2
<1>3. IsFiniteSet({d}) /\ Cardinality({d}) = 1
  BY FS_Singleton
<1>4. IsFiniteSet(1..published[d]) /\ Cardinality(1..published[d]) = published[d]
  BY <1>1, FS_Interval
<1>5. /\ IsFiniteSet({d} \X (1..published[d]))
      /\ Cardinality({d} \X (1..published[d])) = 1 * published[d]
  BY <1>3, <1>4, FS_Product
<1> QED
  BY <1>1, <1>2, <1>5

\* A page has every day after its oldest one whole
LEMMA WholeAfterOldest ==
    ASSUME NEW from \in Days, NEW cursor \in Days, NEW rows \in Answers(from, cursor),
           NEW a \in rows, NEW d \in Days, a[1] < d, from <= d, d <= cursor
    PROVE  Whole(d, rows)
<1>1. SUFFICES ASSUME NEW b \in DayOf(d), b \notin rows PROVE FALSE
  BY DEF Whole
<1>2. b \in InRange(from, cursor) \ rows /\ b[1] = d
  BY <1>1 DEF DayOf, InRange
<1>3. Newer(a, b) /\ a \in Article /\ b \in Article
  BY <1>2 DEF Answers, InRange, Published
<1> QED
  BY <1>2, <1>3 DEF Newer, Article, Days

\* A full page that has one day only has this day whole, unless it is crowded
LEMMA WholeDayPage ==
    ASSUME published \in [Days -> 0..MaxArticles],
           NEW from \in Days, NEW cursor \in Days, NEW rows \in Answers(from, cursor),
           NEW d \in Days, from <= d, d <= cursor, rows \subseteq DayOf(d), ~Crowded(d)
    PROVE  Whole(d, rows)
<1>1. CASE rows = InRange(from, cursor)
  BY <1>1 DEF Whole, DayOf, InRange
<1>2. CASE Cardinality(rows) \in PageSizes
  <2>1. IsFiniteSet(DayOf(d)) /\ Cardinality(DayOf(d)) = published[d]
    BY DaySize
  <2>2. IsFiniteSet(rows) /\ Cardinality(rows) <= published[d]
    BY <2>1, FS_Subset
  <2>3. published[d] <= Cardinality(rows)
    BY <1>2 DEF Crowded
  <2>4. Cardinality(rows) = Cardinality(DayOf(d))
    BY <1>2, <2>1, <2>2, <2>3
  <2>5. rows = DayOf(d)
    BY <2>1, <2>4, FS_Subset
  <2> QED
    BY <2>5 DEF Whole
<1> QED
  BY <1>1, <1>2 DEF Answers

\* What next_cursor leaves behind it is stored: the whole window when it ends
\* the walk, and everything after its result when it goes on
LEMMA NextCursorCovers ==
    ASSUME published \in [Days -> 0..MaxArticles],
           NEW from \in Days, NEW cursor \in Days, from <= cursor,
           NEW rows \in Answers(from, cursor)
    PROVE  LET next == NextCursor(rows, from, cursor)
           IN  /\ next = 0 =>
                    \A d \in Days : from < d /\ d <= cursor /\ ~Crowded(d) => Whole(d, rows)
               /\ next # 0 =>
                    /\ next \in Days /\ from <= next /\ next <= cursor
                    /\ \A d \in Days : next < d /\ d <= cursor /\ ~Crowded(d) => Whole(d, rows)
               /\ Cardinality(rows) < Threshold =>
                    \A d \in Days : from <= d /\ d <= cursor => Whole(d, rows)
<1> DEFINE next   == NextCursor(rows, from, cursor)
           days   == {a[1] : a \in rows}
           oldest == CHOOSE d \in days : \A other \in days : d <= other
           step   == IF oldest < cursor THEN oldest ELSE cursor - 1
<1>1. /\ rows \subseteq InRange(from, cursor)
      /\ \A a \in rows : a \in Article /\ a[1] \in Days /\ from <= a[1] /\ a[1] <= cursor
  BY DEF Answers, InRange, Published, Article
<1>2. next = IF Cardinality(rows) < Threshold \/ oldest <= from \/ step < from THEN 0 ELSE step
  BY DEF NextCursor
<1>3. CASE Cardinality(rows) < Threshold
  <2>1. Cardinality(rows) \notin PageSizes
    BY <1>3
  <2>2. rows = InRange(from, cursor)
    BY <2>1 DEF Answers
  <2>3. next = 0
    BY <1>2, <1>3
  <2>4. \A d \in Days : from <= d /\ d <= cursor => Whole(d, rows)
    BY <2>2 DEF Whole, DayOf, InRange, Days
  <2> QED
    BY <2>3, <2>4 DEF Days
<1>4. CASE ~(Cardinality(rows) < Threshold)
  <2>1. days # {}
    <3>1. rows # {}
      BY <1>4, FS_EmptySet
    <3> QED
      BY <3>1
  <2>2. days \subseteq Days /\ \A d \in days : from <= d /\ d <= cursor
    BY <1>1
  <2>3. oldest \in days /\ \A other \in days : oldest <= other
    <3> HIDE DEF days
    <3>1. days \in SUBSET Nat
      BY <2>2 DEF Days
    <3>2. \E d \in days : \A other \in days : d <= other
      BY <2>1, <3>1, SmallestDay
    <3> QED
      BY <3>2 DEF oldest
  <2>4. PICK a \in rows : a[1] = oldest
    BY <2>3
  <2>5. oldest \in Days /\ from <= oldest /\ oldest <= cursor
    BY <2>2, <2>3
  <2>0. \A b \in rows : b[1] \in days
    OBVIOUS
  <2> HIDE DEF oldest, days
  <2>6. \A d \in Days : oldest < d /\ d <= cursor => Whole(d, rows)
    BY <2>4, <2>5, WholeAfterOldest DEF Days
  <2>7. ASSUME oldest = cursor, ~Crowded(cursor)
        PROVE  Whole(cursor, rows)
    <3>1. \A b \in rows : b[1] = cursor
      BY <1>1, <2>0, <2>3, <2>7 DEF Days
    <3>2. rows \subseteq DayOf(cursor)
      BY <1>1, <3>1 DEF DayOf, InRange
    <3> QED
      BY <2>7, <3>2, WholeDayPage DEF Days
  <2>8. CASE oldest <= from
    BY <1>2, <1>4, <2>5, <2>6, <2>8 DEF Days
  <2>9. CASE ~(oldest <= from) /\ oldest < cursor
    BY <1>2, <1>4, <2>5, <2>6, <2>9 DEF Days
  <2>10. CASE ~(oldest <= from) /\ oldest = cursor
    BY <1>2, <1>4, <2>5, <2>7, <2>10 DEF Days
  <2> QED
    BY <1>4, <2>5, <2>8, <2>9, <2>10 DEF Days
<1> QED
  BY <1>3, <1>4

(***************************************************************************)
(* The invariant                                                           *)
(***************************************************************************)

\* The days between two dates are over and stored
Covered(from, to) ==
    \A d \in Days : from < d /\ d < to /\ ~Crowded(d) /\ d \notin early => d < today /\ HasDay(d)

\* A window joins what an entry has finished before: it starts where the
\* finished days end, or before they begin, or begins a new sequence.
Joins(e, from, base) ==
    \/ base = from
    \/ base = e.since /\ (from < e.last \/ from <= e.since)

\* An entry, saved or in memory: its finished days, and its saved window
GoodEntry(e) ==
    /\ e.last # 0 => e.since # 0
    /\ Covered(e.since, e.last)
    /\ e.cursor # 0 =>
         /\ e.from # 0 /\ e.from <= e.cursor /\ e.cursor <= e.to
         /\ e.base # 0 /\ Joins(e, e.from, e.base)
         /\ Covered(e.cursor, e.to)

\* The window that a run walks
Walking ==
    run.at \in {"chosen", "paging"} =>
        /\ run.from # 0 /\ run.from <= run.cursor /\ run.cursor <= run.to
        /\ run.base # 0 /\ Joins(entry, run.from, run.base)
        /\ Covered(run.cursor, run.to)

Inv == TypeOK /\ GoodEntry(saved) /\ GoodEntry(entry) /\ Walking

LEMMA InvParts == Inv => TypeOK /\ GoodEntry(saved) /\ GoodEntry(entry) /\ Walking
BY DEF Inv

LEMMA Types ==
    ASSUME TypeOK
    PROVE  /\ \A e \in {saved, entry} :
                /\ e.last \in Date /\ e.from \in Date /\ e.to \in Date /\ e.cursor \in Date
                /\ e.since \in Date /\ e.base \in Date
           /\ run.from \in Date /\ run.to \in Date /\ run.cursor \in Date /\ run.base \in Date
           /\ run.pages \in 0..MaxPages - 1
           /\ NewEntry \in Entry /\ Days \subseteq Date /\ 0 \in Date
           /\ \A d \in Date : d # 0 => d \in Days
           /\ NoRun \in [at : {"idle", "chosen", "paging", "done"}, from : Date, to : Date,
                         cursor : Date, base : Date, pages : 0..MaxPages - 1]
           /\ NoRun.at = "idle"
<1>1. \A e \in Entry :
        /\ e.last \in Date /\ e.from \in Date /\ e.to \in Date /\ e.cursor \in Date
        /\ e.since \in Date /\ e.base \in Date
  BY DEF Entry
<1>2. Days \subseteq Date /\ 0 \in Date /\ \A d \in Date : d # 0 => d \in Days
  BY DEF Date, Days
<1>3. NewEntry \in Entry
  BY <1>2 DEF NewEntry, Entry
<1>4. NoRun \in [at : {"idle", "chosen", "paging", "done"}, from : Date, to : Date,
                 cursor : Date, base : Date, pages : 0..MaxPages - 1] /\ NoRun.at = "idle"
  BY <1>2 DEF NoRun
<1> QED
  BY <1>1, <1>2, <1>3, <1>4 DEF TypeOK

LEMMA InvInit == Init => Inv
<1> SUFFICES ASSUME Init PROVE Inv
  OBVIOUS
<1>1. NewEntry \in Entry /\ NewEntry.last = 0 /\ NewEntry.cursor = 0
  BY DEF NewEntry, Entry, Date
<1>2. NoRun \in [at : {"idle", "chosen", "paging", "done"}, from : Date, to : Date,
                 cursor : Date, base : Date, pages : 0..MaxPages - 1] /\ NoRun.at = "idle"
  BY DEF NoRun, Date
<1>3. published \in [Days -> 0..MaxArticles] /\ today \in Days /\ faults \in 0..MaxFaults
  BY DEF Init, Days
<1>4. TypeOK
  BY <1>1, <1>2, <1>3 DEF Init, TypeOK
<1>5. GoodEntry(NewEntry)
  <2>1. Covered(NewEntry.since, 0)
    BY DEF Covered, Days
  <2> QED
    BY <1>1, <1>3, <2>1 DEF GoodEntry, Days
<1>6. GoodEntry(saved) /\ GoodEntry(entry) /\ Walking
  BY <1>2, <1>5 DEF Init, Walking
<1> QED
  BY <1>4, <1>6 DEF Inv

(***************************************************************************)
(* Covered days stay covered                                               *)
(***************************************************************************)

\* The steps of others leave behind what a walk has left behind
Outside ==
    /\ Publish \/ (UNCHANGED published /\ stored \subseteq stored')
    /\ today' \in Days /\ today <= today' /\ UNCHANGED early

\* Articles are published today only, and none is ever removed
LEMMA CoveredStays ==
    ASSUME TypeOK, Outside, NEW from \in Date, NEW to \in Date, Covered(from, to)
    PROVE  Covered(from, to)'
<1>1. stored \subseteq stored'
  BY DEF Outside, Publish
<1>2. /\ \A d \in Days : d < today => published'[d] = published[d]
      /\ \A d \in Days : published[d] <= published'[d] /\ published[d] \in Nat /\ published'[d] \in Nat
  BY DEF Outside, Publish, TypeOK, Days
<1>3. \A a \in Published' : a[1] < today => a \in Published
  BY <1>2 DEF Published, Article
<1>4. SUFFICES ASSUME NEW d \in Days, from < d, d < to, ~Crowded(d)', d \notin early
               PROVE  d < today' /\ HasDay(d)'
  BY DEF Covered, Outside
<1>5. ~Crowded(d)
  BY <1>2, <1>4 DEF Crowded
<1>6. d < today /\ HasDay(d)
  BY <1>4, <1>5 DEF Covered
<1>7. d < today'
  BY <1>6 DEF Outside, TypeOK, Days
<1>8. HasDay(d)'
  BY <1>1, <1>3, <1>6 DEF HasDay
<1> QED
  BY <1>7, <1>8

\* So do entries
LEMMA EntryStays ==
    ASSUME TypeOK, Outside, NEW e \in Entry, GoodEntry(e)
    PROVE  /\ e.last # 0 => e.since # 0
           /\ Covered(e.since, e.last)'
           /\ e.cursor # 0 =>
                /\ e.from # 0 /\ e.from <= e.cursor /\ e.cursor <= e.to
                /\ e.base # 0 /\ Joins(e, e.from, e.base)
                /\ Covered(e.cursor, e.to)'
<1>1. /\ e.last \in Date /\ e.from \in Date /\ e.to \in Date /\ e.cursor \in Date
      /\ e.since \in Date /\ e.base \in Date
  BY DEF Entry
<1>2. Covered(e.since, e.last)'
  BY <1>1, CoveredStays DEF GoodEntry
<1>3. e.cursor # 0 => Covered(e.cursor, e.to)'
  BY <1>1, CoveredStays DEF GoodEntry
<1> QED
  BY <1>2, <1>3 DEF GoodEntry

(***************************************************************************)
(* Every step keeps the invariant                                          *)
(***************************************************************************)

\* The provider's days and articles
LEMMA ProviderInv ==
    ASSUME Inv, Publish \/ NextDay
    PROVE  Inv'
<1>0. TypeOK /\ GoodEntry(saved) /\ GoodEntry(entry) /\ Walking
  BY InvParts
<1>1. UNCHANGED <<stored, saved, entry, run, early, faults>> /\ Outside
  BY <1>0 DEF Outside, Publish, NextDay, TypeOK, Days
<1>2. TypeOK'
  <2>1. published' \in [Days -> 0..MaxArticles]
    <3>1. CASE Publish
      BY <1>0, <3>1 DEF Publish, TypeOK
    <3>2. CASE NextDay
      BY <1>0, <3>2 DEF NextDay, TypeOK
    <3> QED
      BY <3>1, <3>2
  <2> QED
    BY <1>0, <1>1, <2>1 DEF TypeOK, Outside
<1>3. GoodEntry(saved)'
  BY <1>0, <1>1, EntryStays DEF TypeOK, GoodEntry, Joins
<1>4. GoodEntry(entry)'
  BY <1>0, <1>1, EntryStays DEF TypeOK, GoodEntry, Joins
<1>5. Walking'
  <2>1. SUFFICES ASSUME run.at \in {"chosen", "paging"} PROVE Walking'
    BY <1>1 DEF Walking
  <2>2. Covered(run.cursor, run.to) /\ run.cursor \in Date /\ run.to \in Date
    BY <1>0, <2>1, Types DEF Walking
  <2>3. Covered(run.cursor, run.to)'
    <3>1. \A from, to \in Date : Covered(from, to) => Covered(from, to)'
      BY <1>0, <1>1, CoveredStays
    <3> QED
      BY <1>1, <2>2, <3>1
  <2> QED
    BY <1>0, <1>1, <2>1, <2>3 DEF Walking, Joins
<1> QED
  BY <1>2, <1>3, <1>4, <1>5 DEF Inv

\* A window of the settings joins the finished days, unless they leave a gap
\* (resolve_symbol_range)
LEMMA BeginInv ==
    ASSUME Inv, NEW end \in Days, NEW from \in Days, NEW gap \in BOOLEAN,
           Begin(from, end, gap), ~gap /\ saved.last # 0 => from < saved.last \/ from <= saved.since
    PROVE  Inv'
<1>0. TypeOK /\ GoodEntry(saved) /\ GoodEntry(entry) /\ Walking
  BY InvParts
<1> DEFINE base == IF saved.last = 0 \/ gap \/ from < saved.since THEN from ELSE saved.since
<1>1. /\ from <= end /\ entry' = saved
      /\ run' = [at |-> "chosen", from |-> from, to |-> end, cursor |-> end, pages |-> 0, base |-> base]
      /\ UNCHANGED <<today, published, stored, saved, early, faults>>
  BY DEF Begin
<1>2. base \in Date /\ base # 0
  BY <1>0, Types DEF GoodEntry, Days
<1>3. Joins(saved, from, base)
  BY DEF Joins
<1> HIDE DEF base
<1>4. TypeOK'
  <2>1. run' \in [at : {"idle", "chosen", "paging", "done"}, from : Date, to : Date,
                 cursor : Date, base : Date, pages : 0..MaxPages - 1]
    BY <1>0, <1>1, <1>2, Types
  <2> QED
    BY <1>0, <1>1, <2>1 DEF TypeOK
<1>5. GoodEntry(saved)' /\ GoodEntry(entry)'
  BY <1>0, <1>1 DEF GoodEntry, Joins, Covered, Crowded, HasDay, Published
<1>6. Walking'
  <2>1. Covered(end, end)'
    BY DEF Covered, Days
  <2> QED
    BY <1>1, <1>2, <1>3, <2>1 DEF Walking, Joins, Days, Covered
<1> QED
  BY <1>4, <1>5, <1>6 DEF Inv

LEMMA StartInv ==
    ASSUME Inv, NEW end \in Days, StartDefault(end) \/ \E from \in Days : StartFixed(from, end)
    PROVE  Inv'
<1>0. TypeOK /\ GoodEntry(saved)
  BY InvParts
<1>1. CASE StartDefault(end)
  <2> DEFINE from == WindowFrom(saved, end)
             gap  == end - MaxDaysBack >= saved.last
  <2>1. from \in Days
    BY <1>0, Types DEF WindowFrom, Larger, Smaller, Days, Date
  <2>2. gap \in BOOLEAN
    OBVIOUS
  <2>3. ~gap /\ saved.last # 0 => from < saved.last \/ from <= saved.since
    BY <1>0, Types DEF WindowFrom, Larger, Smaller, Days, Date, GoodEntry
  <2>4. Begin(from, end, gap)
    BY <1>1 DEF StartDefault
  <2> HIDE DEF from, gap
  <2> QED
    BY <2>1, <2>2, <2>3, <2>4, BeginInv
<1>2. ASSUME NEW from \in Days, StartFixed(from, end)
      PROVE  Inv'
  <2> DEFINE gap == from >= saved.last
  <2>1. ~gap => from < saved.last
    BY <1>0, Types DEF Days, Date
  <2>2. Begin(from, end, gap) /\ gap \in BOOLEAN
    BY <1>2 DEF StartFixed
  <2> HIDE DEF gap
  <2> QED
    BY <2>1, <2>2, BeginInv
<1> QED
  BY <1>1, <1>2

\* A saved window is resumed
LEMMA ResumeInv ==
    ASSUME Inv, Resume
    PROVE  Inv'
<1>0. TypeOK /\ GoodEntry(saved) /\ GoodEntry(entry) /\ Walking
  BY InvParts
<1>1. /\ run.at = "chosen"
      /\ run' = IF entry.from # 0 /\ entry.cursor # 0
                THEN [run EXCEPT !.at = "paging", !.from = entry.from, !.to = entry.to,
                                 !.cursor = entry.cursor, !.base = entry.base]
                ELSE [run EXCEPT !.at = "paging"]
      /\ UNCHANGED <<today, published, stored, saved, entry, early, faults>>
  BY DEF Resume
<1>2. run' \in [at : {"idle", "chosen", "paging", "done"}, from : Date, to : Date,
               cursor : Date, base : Date, pages : 0..MaxPages - 1]
  BY <1>0, <1>1, Types DEF TypeOK
<1>3. TypeOK'
  BY <1>0, <1>1, <1>2 DEF TypeOK
<1>4. GoodEntry(saved)' /\ GoodEntry(entry)'
  BY <1>0, <1>1 DEF GoodEntry, Joins, Covered, Crowded, HasDay, Published
<1>5. Walking'
  <2>1. CASE entry.from # 0 /\ entry.cursor # 0
    <3>1. /\ run'.from = entry.from /\ run'.to = entry.to /\ run'.cursor = entry.cursor
          /\ run'.base = entry.base /\ run'.pages = run.pages
      BY <1>0, <1>1, <2>1 DEF TypeOK
    <3> QED
      BY <1>0, <1>1, <2>1, <3>1 DEF GoodEntry, Walking, Joins, Covered, Crowded, HasDay, Published
  <2>2. CASE ~(entry.from # 0 /\ entry.cursor # 0)
    <3>1. /\ run'.from = run.from /\ run'.to = run.to /\ run'.cursor = run.cursor
          /\ run'.base = run.base /\ run'.pages = run.pages
      BY <1>0, <1>1, <2>2 DEF TypeOK
    <3> QED
      BY <1>0, <1>1, <2>2, <3>1 DEF Walking, Joins, Covered, Crowded, HasDay, Published
  <2> QED
    BY <2>1, <2>2
<1> QED
  BY <1>3, <1>4, <1>5 DEF Inv

\* A page is stored, and the walk goes on, ends, or is saved (collect_symbol_news)
LEMMA PageInv ==
    ASSUME Inv, Page
    PROVE  Inv'
<1>0. TypeOK /\ GoodEntry(saved) /\ GoodEntry(entry) /\ Walking
  BY InvParts
<1>1. run.at = "paging" /\ UNCHANGED <<today, published, saved, faults>>
  BY DEF Page
<1>2. /\ run.from # 0 /\ run.from <= run.cursor /\ run.cursor <= run.to
      /\ run.base # 0 /\ Joins(entry, run.from, run.base) /\ Covered(run.cursor, run.to)
  BY <1>0, <1>1 DEF Walking
<1>3. /\ run.from \in Days /\ run.cursor \in Days /\ run.to \in Days
      /\ run.base \in Date /\ run.pages \in 0..MaxPages - 1 /\ today \in Days
      /\ published \in [Days -> 0..MaxArticles]
  <2>1. run.from \in Date /\ run.cursor \in Date /\ run.to \in Date /\ run.base \in Date
        /\ run.pages \in 0..MaxPages - 1
    BY <1>0, Types
  <2>2. today \in Days /\ published \in [Days -> 0..MaxArticles]
    BY <1>0 DEF TypeOK
  <2> QED
    BY <1>2, <2>1, <2>2 DEF Date, Days
\* The window's dates, as constants
<1>w. PICK from \in Days, to \in Days, cursor \in Days, base \in Date :
        from = run.from /\ to = run.to /\ cursor = run.cursor /\ base = run.base
  BY <1>3
<1>e. PICK last \in Date, since \in Date : last = entry.last /\ since = entry.since
  BY <1>0, Types
<1>4. PICK rows \in Answers(run.from, run.cursor) :
        LET next == NextCursor(rows, run.from, run.cursor)
        IN  /\ stored' = stored \cup rows
            /\ Early(Walked(rows, next))
            /\ IF next # 0 /\ run.pages + 1 < MaxPages
               THEN /\ run' = [run EXCEPT !.cursor = next, !.pages = @ + 1]
                    /\ UNCHANGED entry
               ELSE /\ run' = Over
                    /\ entry' = IF next = 0 THEN Finished ELSE Unfinished(next)
  BY DEF Page
<1>n. PICK next : next = NextCursor(rows, run.from, run.cursor)
  OBVIOUS
<1>5. /\ next = 0 =>
           \A d \in Days : from < d /\ d <= cursor /\ ~Crowded(d) => Whole(d, rows)
      /\ next # 0 =>
           /\ next \in Days /\ from <= next /\ next <= cursor
           /\ \A d \in Days : next < d /\ d <= cursor /\ ~Crowded(d) => Whole(d, rows)
      /\ Cardinality(rows) < Threshold =>
           \A d \in Days : from <= d /\ d <= cursor => Whole(d, rows)
  BY <1>2, <1>3, <1>n, <1>w, NextCursorCovers
<1>6. /\ stored' = stored \cup rows
      /\ next # 0 /\ run.pages + 1 < MaxPages =>
           run' = [run EXCEPT !.cursor = next, !.pages = @ + 1] /\ entry' = entry
      /\ ~(next # 0 /\ run.pages + 1 < MaxPages) =>
           /\ run' = Over
           /\ entry' = IF next = 0 THEN Finished ELSE Unfinished(next)
  BY <1>4, <1>n
<1>7. \A d \in Days : Whole(d, rows) => HasDay(d)'
  BY <1>1, <1>6 DEF Whole, DayOf, HasDay, Published
<1>8. \A d \in Days : HasDay(d) => HasDay(d)'
  BY <1>1, <1>6 DEF HasDay, Published
<1>9. \A d \in Days : Crowded(d)' <=> Crowded(d)
  BY <1>1 DEF Crowded
\* The days that the walk leaves behind
<1>p. PICK walked : walked = Walked(rows, next)
  OBVIOUS
<1>q. walked = IF Cardinality(rows) < Threshold THEN from..cursor
               ELSE (Larger(next, from) + 1)..cursor
  BY <1>p, <1>w DEF Walked
<1>r. /\ \A d \in walked : d \in Days /\ (~Crowded(d) => Whole(d, rows))
      /\ next = 0 => \A d \in Days : from < d /\ d <= cursor => d \in walked
      /\ next # 0 => \A d \in Days : next < d /\ d <= cursor => d \in walked
  BY <1>5, <1>q DEF Days, Larger
<1>s. early' = {d \in early : d \notin walked \/ d >= today}
                 \cup {d \in walked : today <= d /\ d < to}
  BY <1>4, <1>n, <1>p, <1>w DEF Early
\* A walked day before the window's end is stored, or kept as passed too early
<1>t. \A d \in walked : d < to /\ ~Crowded(d) /\ d \notin early' => d < today /\ HasDay(d)'
  BY <1>3, <1>7, <1>r, <1>s DEF Days
<1>u. \A x, y \in Date : Covered(x, y) => Covered(x, y)'
  <2>1. SUFFICES ASSUME NEW x \in Date, NEW y \in Date, Covered(x, y),
                        NEW d \in Days, x < d, d < y, ~Crowded(d), d \notin early'
                 PROVE  d < today /\ HasDay(d)'
    BY <1>1, <1>9 DEF Covered
  <2>2. CASE d \notin early
    BY <1>8, <2>1, <2>2 DEF Covered
  <2>3. CASE d \in early
    <3>1. d \in walked /\ d < today
      BY <1>3, <1>s, <2>1, <2>3 DEF Days
    <3> QED
      BY <1>7, <1>r, <2>1, <3>1
  <2> QED
    BY <2>2, <2>3
<1>v. Covered(cursor, to)'
  BY <1>2, <1>3, <1>u, <1>w, Types, <1>0
<1>10. next = 0 => Covered(from, to)'
  BY <1>1, <1>9, <1>r, <1>t, <1>v DEF Covered, Days
<1>11. next # 0 => Covered(next, to)'
  BY <1>1, <1>5, <1>9, <1>r, <1>t, <1>v DEF Covered, Days
<1>12. \A e \in Entry : GoodEntry(e) => GoodEntry(e)'
  BY <1>1, <1>u DEF GoodEntry, Entry, Joins
<1>13. GoodEntry(saved)'
  BY <1>0, <1>1, <1>12 DEF TypeOK, GoodEntry, Joins
<1>14. Covered(since, last)' /\ (last # 0 => since # 0)
  BY <1>0, <1>e, <1>u DEF GoodEntry
<1>z. early' \subseteq Days
  BY <1>0, <1>r, <1>s DEF TypeOK
<1>15. CASE next # 0 /\ run.pages + 1 < MaxPages
  <2>1. run' = [run EXCEPT !.cursor = next, !.pages = @ + 1] /\ entry' = entry
    BY <1>6, <1>15
  <2>2. /\ run'.at = "paging" /\ run'.from = from /\ run'.to = to /\ run'.cursor = next
        /\ run'.base = base /\ run'.pages = run.pages + 1
    BY <1>0, <1>1, <1>w, <2>1 DEF TypeOK
  <2>3. next \in Date /\ from <= next /\ next <= to /\ next <= cursor
    BY <1>2, <1>w, <1>5, <1>15 DEF Days, Date
  <2>4. TypeOK'
    <3>1. stored' \subseteq Article
      BY <1>0, <1>6 DEF Answers, InRange, Published, TypeOK
    <3>2. run' \in [at : {"idle", "chosen", "paging", "done"}, from : Date, to : Date,
                   cursor : Date, base : Date, pages : 0..MaxPages - 1]
      <4>1. run.pages + 1 \in 0..MaxPages - 1
        BY <1>3, <1>15
      <4> QED
        BY <1>0, <2>1, <2>3, <4>1 DEF TypeOK
    <3> QED
      BY <1>0, <1>1, <1>z, <2>1, <3>1, <3>2 DEF TypeOK
  <2>5. GoodEntry(entry)'
    BY <1>0, <1>1, <1>12, <2>1 DEF TypeOK, GoodEntry, Joins
  <2>6. Walking'
    <3>1. Covered(next, to)' /\ base # 0 /\ from # 0
      BY <1>2, <1>w, <1>11, <1>15
    <3>2. Covered(run.cursor, run.to)'
      BY <2>2, <3>1 DEF Covered
    <3>3. Joins(entry, run.from, run.base)'
      BY <1>2, <1>w, <2>1, <2>2 DEF Joins
    <3> QED
      BY <1>1, <2>2, <2>3, <3>1, <3>2, <3>3 DEF Walking
  <2> QED
    BY <1>13, <2>4, <2>5, <2>6 DEF Inv
<1>16. CASE ~(next # 0 /\ run.pages + 1 < MaxPages)
  <2>1. run' = Over /\ entry' = IF next = 0 THEN Finished ELSE Unfinished(next)
    BY <1>6, <1>16
  <2>2. run'.at = "done" /\ run' \in [at : {"idle", "chosen", "paging", "done"}, from : Date,
                to : Date, cursor : Date, base : Date, pages : 0..MaxPages - 1]
    BY <1>0, <2>1, Types DEF Over
  <2>3. stored' \subseteq Article
    BY <1>0, <1>6 DEF Answers, InRange, Published, TypeOK
  <2>4. CASE next = 0
    <3>1. entry' = Finished
      BY <2>1, <2>4
    <3>2. /\ entry' \in Entry /\ entry'.last = to /\ entry'.since = base
          /\ entry'.cursor = 0
      BY <1>w, <3>1, Types, <1>0 DEF Finished, NewEntry, Entry, Days, Date
    <3>3. Covered(base, to)'
      <4>1. Covered(from, to)'
        BY <1>10, <2>4
      <4>2. base = from \/ (base = since /\ (from < last \/ from <= since))
        BY <1>2, <1>w, <1>e DEF Joins
      <4> QED
        BY <1>14, <4>1, <4>2 DEF Covered, Date, Days
    <3>4. GoodEntry(entry)'
      <4>1. Covered(entry.since, entry.last)'
        BY <3>2, <3>3 DEF Covered
      <4> QED
        BY <1>1, <1>2, <1>w, <3>2, <4>1 DEF GoodEntry
    <3> QED
      BY <1>0, <1>1, <1>13, <1>z, <2>2, <2>3, <3>2, <3>4 DEF Inv, TypeOK, Walking
  <2>5. CASE next # 0
    <3>1. entry' = Unfinished(next)
      BY <2>1, <2>5
    <3>0. next \in Date /\ from <= next /\ next <= to
      BY <1>2, <1>w, <1>5, <2>5 DEF Days, Date
    <3>2. /\ entry' \in Entry /\ entry'.last = last /\ entry'.since = since
          /\ entry'.cursor = next /\ entry'.from = from /\ entry'.to = to
          /\ entry'.base = base
      <4>1. entry \in Entry /\ run.from \in Date /\ run.to \in Date
        BY <1>0, Types DEF TypeOK
      <4> QED
        BY <1>3, <1>w, <1>e, <3>0, <3>1, <4>1 DEF Unfinished, Entry
    <3>3. Covered(next, to)'
      BY <1>11, <2>5
    <3>4. GoodEntry(entry)'
      <4>1. Covered(entry.since, entry.last)' /\ Covered(entry.cursor, entry.to)'
        BY <1>14, <3>2, <3>3 DEF Covered
      <4>2. Joins(entry, entry.from, entry.base)'
        BY <1>2, <1>w, <1>e, <3>2 DEF Joins
      <4> QED
        BY <1>1, <1>2, <1>w, <1>14, <2>5, <3>0, <3>2, <4>1, <4>2 DEF GoodEntry
    <3> QED
      BY <1>0, <1>1, <1>13, <1>z, <2>2, <2>3, <3>2, <3>4 DEF Inv, TypeOK, Walking
  <2> QED
    BY <2>4, <2>5
<1> QED
  BY <1>15, <1>16

\* A request fails, the state is saved, or the run is killed: what is stored
\* stays, and the entry is the one in memory or the one of the file.
LEMMA EndInv ==
    ASSUME Inv, Fail \/ Persist \/ Kill
    PROVE  Inv'
<1>0. TypeOK /\ GoodEntry(saved) /\ GoodEntry(entry)
  BY InvParts
<1>1. /\ UNCHANGED <<today, published, early>>
      /\ saved' \in {saved, entry} /\ entry' \in {saved, entry} /\ faults' \in 0..MaxFaults
      /\ run' \in [at : {"idle", "chosen", "paging", "done"}, from : Date, to : Date,
                   cursor : Date, base : Date, pages : 0..MaxPages - 1]
      /\ run'.at \in {"idle", "done"}
  BY <1>0, Types DEF Fail, Persist, Kill, TypeOK, Over
<1>2. stored \subseteq stored' /\ stored' \subseteq Article
  <2>1. CASE Fail
    BY <1>0, <2>1 DEF Fail, Answers, InRange, Published, TypeOK
  <2> QED
    BY <1>0, <2>1 DEF Persist, Kill, TypeOK
<1>3. TypeOK' /\ Walking'
  BY <1>0, <1>1, <1>2 DEF TypeOK, Walking
<1>4. \A x, y \in Date : Covered(x, y) => Covered(x, y)'
  BY <1>1, <1>2 DEF Covered, Crowded, HasDay, Published
<1>5. \A e \in Entry : GoodEntry(e) => GoodEntry(e)'
  BY <1>1, <1>4 DEF GoodEntry, Entry, Joins
<1>6. GoodEntry(saved)' /\ GoodEntry(entry)'
  BY <1>0, <1>1, <1>5 DEF TypeOK, GoodEntry, Joins
<1> QED
  BY <1>3, <1>6 DEF Inv

LEMMA InvNext == Inv /\ [Next]_vars => Inv'
<1> SUFFICES ASSUME Inv, [Next]_vars PROVE Inv'
  OBVIOUS
<1>1. CASE Publish \/ NextDay
  BY <1>1, ProviderInv
<1>2. CASE \E end \in Days : StartDefault(end) \/ \E from \in Days : StartFixed(from, end)
  BY <1>2, StartInv
<1>3. CASE Resume
  BY <1>3, ResumeInv
<1>4. CASE Page
  BY <1>4, PageInv
<1>5. CASE Fail \/ Persist \/ Kill
  BY <1>5, EndInv
<1>6. CASE UNCHANGED vars
  BY <1>6 DEF vars, Inv, TypeOK, GoodEntry, Walking, Joins, Covered, Crowded, HasDay, Published
<1> QED
  BY <1>1, <1>2, <1>3, <1>4, <1>5, <1>6 DEF Next

LEMMA InvAlways == Spec => []Inv
BY InvInit, InvNext, PTL DEF Spec

(***************************************************************************)
(* Progress of a saved window                                              *)
(***************************************************************************)

\* Where the walk goes on is before the page, however crowded its days
LEMMA NextCursorBelow ==
    ASSUME NEW from \in Days, NEW cursor \in Days, from <= cursor,
           NEW rows \in Answers(from, cursor), NextCursor(rows, from, cursor) # 0
    PROVE  LET next == NextCursor(rows, from, cursor)
           IN  next \in Days /\ from <= next /\ next < cursor
<1> DEFINE next   == NextCursor(rows, from, cursor)
           days   == {a[1] : a \in rows}
           oldest == CHOOSE d \in days : \A other \in days : d <= other
           step   == IF oldest < cursor THEN oldest ELSE cursor - 1
<1>1. next = IF Cardinality(rows) < Threshold \/ oldest <= from \/ step < from THEN 0 ELSE step
  BY DEF NextCursor
<1>2. rows # {}
  BY <1>1, FS_EmptySet
<1>3. days # {} /\ days \subseteq Days
  BY <1>2 DEF Answers, InRange, Published, Article
<1>4. oldest \in Days
  <2> HIDE DEF days
  <2>1. days \in SUBSET Nat
    BY <1>3 DEF Days
  <2>2. \E d \in days : \A other \in days : d <= other
    BY <1>3, <2>1, SmallestDay
  <2> QED
    BY <1>3, <2>2 DEF oldest
<1> HIDE DEF oldest
<1>5. next = step /\ ~(step < from)
  BY <1>1
<1> QED
  BY <1>4, <1>5 DEF Days

\* What a run may leave of a saved window: all of it, less of it, or last_to at its end
Successor(e) ==
    saved.cursor # 0 =>
        \/ e = saved
        \/ e.cursor = 0 /\ e.last = saved.to /\ e.since = saved.base
        \/ /\ e = [saved EXCEPT !.cursor = e.cursor]
           /\ saved.from <= e.cursor /\ e.cursor < saved.cursor

\* A run walks the window of the file, and has its result when it is done
Follows ==
    /\ run.at \in {"chosen", "paging"} => entry = saved
    /\ run.at = "paging" /\ saved.cursor # 0 =>
         /\ run.from = saved.from /\ run.to = saved.to /\ run.base = saved.base
         /\ run.cursor <= saved.cursor
    /\ run.at = "done" => Successor(entry)

LEMMA FollowsInit == Init => Follows
BY DEF Init, Follows, NoRun

\* A page goes down, and what it leaves follows the saved window
LEMMA FollowsPage ==
    ASSUME Inv, Follows, Page
    PROVE  Follows' /\ Left' < Left
<1>0. TypeOK /\ GoodEntry(saved) /\ Walking
  BY InvParts
<1>1. run.at = "paging" /\ entry = saved /\ UNCHANGED saved
  BY DEF Page, Follows
<1>2. /\ run.from \in Days /\ run.cursor \in Days /\ run.to \in Date /\ run.base \in Date
      /\ run.from <= run.cursor
  <2>1. run.from # 0 /\ run.from <= run.cursor
    BY <1>0, <1>1 DEF Walking
  <2>2. run.from \in Date /\ run.cursor \in Date /\ run.to \in Date /\ run.base \in Date
    BY <1>0, Types
  <2> QED
    BY <2>1, <2>2 DEF Date, Days
<1>3. PICK from \in Days, cursor \in Days, to \in Date, base \in Date :
        from = run.from /\ cursor = run.cursor /\ to = run.to /\ base = run.base
  BY <1>2
<1>4. PICK old \in Entry : old = saved
  BY <1>0 DEF TypeOK
<1>5. PICK rows \in Answers(run.from, run.cursor) :
        LET next == NextCursor(rows, run.from, run.cursor)
        IN  /\ stored' = stored \cup rows
            /\ Early(Walked(rows, next))
            /\ IF next # 0 /\ run.pages + 1 < MaxPages
               THEN /\ run' = [run EXCEPT !.cursor = next, !.pages = @ + 1]
                    /\ UNCHANGED entry
               ELSE /\ run' = Over
                    /\ entry' = IF next = 0 THEN Finished ELSE Unfinished(next)
  BY DEF Page
<1>6. PICK next : next = NextCursor(rows, from, cursor)
  OBVIOUS
<1>7. next # 0 => next \in Days /\ from <= next /\ next < cursor
  BY <1>2, <1>3, <1>6, NextCursorBelow
<1>8. old.cursor # 0 => from = old.from /\ to = old.to /\ base = old.base /\ cursor <= old.cursor
  BY <1>1, <1>3, <1>4 DEF Follows
<1>9. saved' = old /\ old.cursor \in Date
  BY <1>1, <1>4 DEF Entry
<1>10. Left = cursor
  BY <1>1, <1>3 DEF Left
<1>11. CASE next # 0 /\ run.pages + 1 < MaxPages
  <2>1. run' = [run EXCEPT !.cursor = next, !.pages = @ + 1] /\ entry' = old
    BY <1>1, <1>3, <1>4, <1>5, <1>6, <1>11
  <2>2. /\ run'.at = "paging" /\ run'.from = from /\ run'.to = to /\ run'.base = base
        /\ run'.cursor = next
    BY <1>0, <1>1, <1>3, <2>1 DEF TypeOK
  <2>3. next <= cursor /\ (old.cursor # 0 => next <= old.cursor)
    BY <1>7, <1>8, <1>9, <1>11 DEF Days, Date
  <2>4. Follows'
    BY <1>8, <1>9, <2>1, <2>2, <2>3 DEF Follows
  <2>5. Left' = next
    BY <2>2 DEF Left
  <2> QED
    BY <1>7, <1>10, <1>11, <2>4, <2>5
<1>12. CASE ~(next # 0 /\ run.pages + 1 < MaxPages)
  <2>1. /\ run' = Over
        /\ entry' = IF next = 0 THEN Finished ELSE Unfinished(next)
    BY <1>3, <1>5, <1>6, <1>12
  <2>2. run'.at = "done"
    BY <2>1 DEF Over, NoRun
  <2>3. CASE next = 0
    <3>1. entry'.cursor = 0 /\ entry'.last = to /\ entry'.since = base
      BY <1>3, <2>1, <2>3 DEF Finished, NewEntry
    <3>2. Successor(entry)'
      BY <1>8, <1>9, <3>1 DEF Successor
    <3>3. Left' = 0
      BY <2>2, <3>1 DEF Left
    <3> QED
      BY <1>10, <2>2, <3>2, <3>3 DEF Follows, Days
  <2>4. CASE next # 0
    <3>1. entry' = [old EXCEPT !.from = from, !.to = to, !.cursor = next, !.base = base]
      BY <1>1, <1>3, <1>4, <2>1, <2>4 DEF Unfinished
    <3>2. entry'.cursor = next
      BY <3>1 DEF Entry
    <3>3. old.cursor # 0 => entry' = [old EXCEPT !.cursor = next]
      BY <1>8, <3>1 DEF Entry
    <3>4. old.cursor # 0 => old.from <= next /\ next < old.cursor
      BY <1>7, <1>8, <1>9, <2>4 DEF Days, Date
    <3>5. Successor(entry)'
      BY <1>9, <3>2, <3>3, <3>4 DEF Successor
    <3>6. Left' = next
      BY <2>2, <3>2 DEF Left
    <3> QED
      BY <1>7, <1>10, <2>2, <2>4, <3>5, <3>6 DEF Follows
  <2> QED
    BY <2>3, <2>4
<1> QED
  BY <1>11, <1>12

\* Any other step of a run, and the steps of the provider
LEMMA FollowsOther ==
    ASSUME Inv, Follows,
           \/ Publish \/ NextDay
           \/ \E end \in Days : StartDefault(end) \/ \E from \in Days : StartFixed(from, end)
           \/ Resume \/ Fail \/ Persist \/ Kill
    PROVE  Follows'
<1>0. TypeOK /\ GoodEntry(saved)
  BY InvParts
<1>1. CASE Publish \/ NextDay
  BY <1>1 DEF Publish, NextDay, Follows, Successor
<1>2. CASE \E end \in Days : StartDefault(end) \/ \E from \in Days : StartFixed(from, end)
  <2>1. entry' = saved /\ saved' = saved /\ run'.at = "chosen"
    BY <1>2 DEF StartDefault, StartFixed, Begin
  <2> QED
    BY <2>1 DEF Follows
<1>3. CASE Resume
  <2>1. run.at = "chosen" /\ entry = saved /\ UNCHANGED <<saved, entry>>
    BY <1>3 DEF Resume, Follows
  <2>2. run'.at = "paging"
    BY <1>0, <1>3 DEF Resume, TypeOK
  <2>3. saved.cursor # 0 => /\ run'.from = saved.from /\ run'.to = saved.to
                            /\ run'.base = saved.base /\ run'.cursor = saved.cursor
    BY <1>0, <1>3, <2>1 DEF Resume, TypeOK, GoodEntry
  <2>4. saved.cursor # 0 => saved.cursor <= saved.cursor
    BY <1>0, Types DEF Date
  <2> QED
    BY <2>1, <2>2, <2>3, <2>4 DEF Follows
<1>4. CASE Fail
  <2>1. run.at = "paging" /\ entry = saved /\ UNCHANGED <<saved, entry>>
    BY <1>4 DEF Fail, Follows
  <2>2. run'.at = "done"
    BY <1>4 DEF Fail, Over, NoRun
  <2> QED
    BY <2>1, <2>2 DEF Follows, Successor
<1>5. CASE Persist \/ Kill
  <2>1. run'.at = "idle"
    BY <1>5 DEF Persist, Kill, NoRun
  <2> QED
    BY <2>1 DEF Follows
<1> QED
  BY <1>1, <1>2, <1>3, <1>4, <1>5

LEMMA FollowsNext == Inv /\ Follows /\ [Next]_vars => Follows'
<1> SUFFICES ASSUME Inv, Follows, [Next]_vars PROVE Follows'
  OBVIOUS
<1>1. CASE UNCHANGED vars
  BY <1>1 DEF vars, Follows, Successor
<1>2. CASE Next
  BY <1>2, FollowsPage, FollowsOther DEF Next
<1> QED
  BY <1>1, <1>2

\* Only persist writes the file, and writes the successor of what is in it
LEMMA SavedFollows ==
    ASSUME Inv, Follows, Next, saved.cursor # 0, saved' # saved
    PROVE  \/ saved'.cursor = 0 /\ saved'.last = saved.to /\ saved'.since = saved.base
           \/ /\ saved' = [saved EXCEPT !.cursor = saved'.cursor]
              /\ saved.from <= saved'.cursor /\ saved'.cursor < saved.cursor
<1>1. Persist
  BY DEF Next, Publish, NextDay, StartDefault, StartFixed, Begin, Resume, Page, Fail, Kill
<1>2. saved' = entry /\ Successor(entry)
  BY <1>1 DEF Persist, Follows
<1>3. entry # saved
  BY <1>2
<1>4. \/ entry.cursor = 0 /\ entry.last = saved.to /\ entry.since = saved.base
      \/ /\ entry = [saved EXCEPT !.cursor = entry.cursor]
         /\ saved.from <= entry.cursor /\ entry.cursor < saved.cursor
  BY <1>2, <1>3 DEF Successor
<1> QED
  BY <1>2, <1>4

(***************************************************************************)
(* Theorems                                                                *)
(***************************************************************************)

\* Every variable keeps its type, for any settings, days, articles and faults.
THEOREM NewsTypeCorrect == Spec => []TypeOK
<1>1. Inv => TypeOK
  BY InvParts
<1> QED
  BY <1>1, InvAlways, PTL

\* last_to has no day before it, back to the start of its sequence of windows,
\* whose articles are missing, but for days with more articles than a page holds
\* and days that the walk of a window with a --to-date ahead of them passed too
\* early (finnhub_news.collect_symbol_news).
THEOREM NoDateSkippedAlways == Spec => []NoDateSkipped
<1>1. Inv => NoDateSkipped
  BY InvParts DEF GoodEntry, Covered, NoDateSkipped
<1> QED
  BY <1>1, InvAlways, PTL

\* A saved window has every day after its cursor stored, but for crowded days and
\* those passed before they were over: resuming it at the cursor loses nothing
\* (finnhub_news.next_cursor).
THEOREM WalkedPartStoredAlways == Spec => []WalkedPartStored
<1>1. Inv => WalkedPartStored
  BY InvParts DEF GoodEntry, Covered, WalkedPartStored
<1> QED
  BY <1>1, InvAlways, PTL

\* A saved window is never given up for another: the run that takes it up writes
\* it back walked further down, or with last_to at its end, and every answered
\* request goes down (finnhub_news.collect_symbol_news, next_cursor).
THEOREM WindowsWalkOn == Spec => WindowWalksOn
<1>1. Spec => []Follows
  BY InvAlways, FollowsInit, FollowsNext, PTL DEF Spec
<1>2. Inv /\ Follows /\ [Next]_vars =>
        [/\ saved.cursor # 0 /\ saved' # saved =>
              \/ saved'.cursor = 0 /\ saved'.last = saved.to /\ saved'.since = saved.base
              \/ /\ saved' = [saved EXCEPT !.cursor = saved'.cursor]
                 /\ saved.from <= saved'.cursor /\ saved'.cursor < saved.cursor
         /\ Page => Left' < Left]_vars
  BY SavedFollows, FollowsPage
<1> QED
  BY <1>1, <1>2, InvAlways, PTL DEF Spec, WindowWalksOn
=============================================================================
