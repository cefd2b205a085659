----------------------------- MODULE NewsWindow -----------------------------
(***************************************************************************)
(* finnhub_news.py for one symbol: the provider returns only the newest    *)
(* articles of a range, so a window of days is walked backwards page by    *)
(* page; a window that a run does not finish is saved and resumed, and     *)
(* last_to advances only with a finished window. Symbols do not share      *)
(* windows: of a run's other symbols only the moment matters at which the  *)
(* state file is saved (after every tenth symbol, and at the end).         *)
(* Articles go to the database at once, page by page.                      *)
(***************************************************************************)
EXTENDS Integers, FiniteSets

CONSTANTS
    Threshold,     \* TRUNCATION_THRESHOLD
    PageSizes,     \* how many articles the provider returns at most
    MaxPages,      \* --max-pages
    DaysBack,      \* --days-back
    MaxDaysBack,   \* --max-days-back
    MaxDay,        \* bound: UTC days
    MaxArticles,   \* bound: articles of a day
    MaxPublished,  \* bound: articles of all days
    MaxFaults      \* bound: failed requests and killed runs

\* The observed caps (244-250) are not below the threshold (200).
ASSUME NewsAssumption ==
    /\ Threshold \in Nat \ {0}
    /\ PageSizes # {} /\ \A n \in PageSizes : n \in Nat /\ n >= Threshold
    /\ MaxPages \in Nat \ {0}
    /\ DaysBack \in Nat /\ MaxDaysBack \in Nat
    /\ MaxDay \in Nat \ {0} /\ MaxArticles \in Nat
    /\ MaxPublished \in Nat /\ MaxFaults \in Nat

Days     == 1..MaxDay
Article  == Days \X (1..MaxArticles)
\* A symbol's entry. 0: no such date. since is history: the first day from
\* which the finished windows follow each other, and base what it will be
\* once the saved window is finished.
Date     == 0..MaxDay
Entry    == [last : Date, from : Date, to : Date, cursor : Date, since : Date, base : Date]
NewEntry == [last |-> 0, from |-> 0, to |-> 0, cursor |-> 0, since |-> 0, base |-> 0]
NoRun    == [at |-> "idle", from |-> 0, to |-> 0, cursor |-> 0, base |-> 0, pages |-> 0]
Over     == [NoRun EXCEPT !.at = "done"]

VARIABLES
    today,      \* the UTC date
    published,  \* articles the provider has, per day
    stored,     \* articles in the news table
    saved,      \* the entry in finnhub_news.json
    entry,      \* the entry in the memory of the run
    run,        \* the run, and the window it walks
    early,      \* history: days walked before they were over, and not again since
    faults      \* history: failed requests and killed runs

vars == <<today, published, stored, saved, entry, run, early, faults>>

TypeOK ==
    /\ today \in Days
    /\ published \in [Days -> 0..MaxArticles]
    /\ stored \subseteq Article
    /\ saved \in Entry /\ entry \in Entry
    /\ run \in [at : {"idle", "chosen", "paging", "done"}, from : Date, to : Date,
                cursor : Date, base : Date, pages : 0..MaxPages - 1]
    /\ early \subseteq Days
    /\ faults \in 0..MaxFaults

Init ==
    /\ today = 1
    /\ published = [d \in Days |-> 0]
    /\ stored = {}
    /\ saved = NewEntry /\ entry = NewEntry
    /\ run = NoRun
    /\ early = {}
    /\ faults = 0

-----------------------------------------------------------------------------
(* The provider *)

Published == {a \in Article : a[2] <= published[a[1]]}
Newer(a, b) == a[1] > b[1] \/ (a[1] = b[1] /\ a[2] > b[2])

\* Articles carry the date of their publication.
Publish ==
    /\ published[today] < MaxArticles /\ Cardinality(Published) < MaxPublished
    /\ published' = [published EXCEPT ![today] = @ + 1]
    /\ UNCHANGED <<today, stored, saved, entry, run, early, faults>>

NextDay ==
    /\ today < MaxDay
    /\ today' = today + 1
    /\ UNCHANGED <<published, stored, saved, entry, run, early, faults>>

InRange(from, to) == {a \in Published : from <= a[1] /\ a[1] <= to}

\* The newest articles of the days from..to, as many as an answer holds.
Answers(from, to) ==
    LET range == InRange(from, to)
    IN  {rows \in SUBSET range :
           /\ \/ Cardinality(rows) \in PageSizes
              \/ rows = range /\ \E size \in PageSizes : Cardinality(rows) < size
           /\ \A a \in rows, b \in range \ rows : Newer(a, b)}

-----------------------------------------------------------------------------
(* The window *)

Larger(x, y)  == IF x > y THEN x ELSE y
Smaller(x, y) == IF x < y THEN x ELSE y

\* resolve_symbol_range. (Days before the first stand for the first.)
WindowFrom(e, end) ==
    LET start == IF e.last # 0 THEN Larger(e.last - 1, end - MaxDaysBack) ELSE end - DaysBack
    IN  Larger(1, Smaller(start, end))

\* Mutant of NextCursor: no step back on a crowded day
NextCursorStays(rows, from, cursor) ==
    LET days   == {a[1] : a \in rows}
        oldest == CHOOSE d \in days : \A other \in days : d <= other
    IN  IF Cardinality(rows) < Threshold \/ oldest <= from THEN 0 ELSE oldest

\* next_cursor: the next `to` date for a truncated page, 0 when the window is covered.
NextCursor(rows, from, cursor) ==
    LET days   == {a[1] : a \in rows}
        oldest == CHOOSE d \in days : \A other \in days : d <= other
        next   == IF oldest < cursor THEN oldest ELSE cursor - 1
    IN  IF Cardinality(rows) < Threshold \/ oldest <= from \/ next < from THEN 0 ELSE next

-----------------------------------------------------------------------------
(* A run *)

\* run: the state is loaded, and the window of this symbol is from..end. A
\* gap is one that the settings ask for.
Begin(from, end, gap) ==
    /\ run.at = "idle"
    /\ from <= end
    /\ entry' = saved
    /\ run' = [at |-> "chosen", from |-> from, to |-> end, cursor |-> end, pages |-> 0,
               base |-> IF saved.last = 0 \/ gap \/ from < saved.since THEN from ELSE saved.since]
    /\ UNCHANGED <<today, published, stored, saved, early, faults>>

\* Up to today, or to any --to-date, also one ahead of today. --max-days-back may
\* cut the range.
StartDefault(end) == Begin(WindowFrom(saved, end), end, end - MaxDaysBack >= saved.last)

\* --from-date: the same range for every symbol.
StartFixed(from, end) == Begin(from, end, from >= saved.last)

\* Mutant of Resume: a saved cursor with the new end
ResumeToNewEnd ==
    /\ run.at = "chosen"
    /\ run' = IF entry.from # 0 /\ entry.cursor # 0
              THEN [run EXCEPT !.at = "paging", !.from = entry.from,
                               !.cursor = entry.cursor, !.base = entry.base]
              ELSE [run EXCEPT !.at = "paging"]
    /\ UNCHANGED <<today, published, stored, saved, entry, early, faults>>

\* collect_symbol_news: a saved window is resumed first.
Resume ==
    /\ run.at = "chosen"
    /\ run' = IF entry.from # 0 /\ entry.cursor # 0
              THEN [run EXCEPT !.at = "paging", !.from = entry.from, !.to = entry.to,
                               !.cursor = entry.cursor, !.base = entry.base]
              ELSE [run EXCEPT !.at = "paging"]
    /\ UNCHANGED <<today, published, stored, saved, entry, early, faults>>

\* A finished window: last_to advances.
Finished == [NewEntry EXCEPT !.last = run.to, !.since = run.base]

\* Mutant of Unfinished: the day cut by the page is not asked for again
UnfinishedBefore(cursor) ==
    [entry EXCEPT !.from = run.from, !.to = run.to, !.base = run.base,
                  !.cursor = Larger(run.from, cursor - 1)]

\* An unfinished one is kept for the next run.
Unfinished(cursor) ==
    [entry EXCEPT !.from = run.from, !.to = run.to, !.cursor = cursor, !.base = run.base]

\* The days that an answer lets the walk leave behind: whole ones, the first of
\* the window only when the answer was not truncated.
Walked(rows, next) ==
    IF Cardinality(rows) < Threshold THEN run.from..run.cursor
    ELSE (Larger(next, run.from) + 1)..run.cursor

\* What the history keeps of it.
Early(walked) ==
    early' = {d \in early : d \notin walked \/ d >= today}
                 \cup {d \in walked : today <= d /\ d < run.to}

\* Mutant of Page: one request too many
PageTooMany ==
    /\ run.at = "paging"
    /\ \E rows \in Answers(run.from, run.cursor) :
         LET next == NextCursor(rows, run.from, run.cursor)
         IN  /\ stored' = stored \cup rows
             /\ Early(Walked(rows, next))
             /\ IF next # 0 /\ run.pages < MaxPages
                THEN /\ run' = [run EXCEPT !.cursor = next, !.pages = @ + 1]
                     /\ UNCHANGED entry
                ELSE /\ run' = Over
                     /\ entry' = IF next = 0 THEN Finished ELSE Unfinished(next)
    /\ UNCHANGED <<today, published, saved, faults>>

\* One request of the loop: its articles are committed, and the loop goes on
\* or its result goes into the entry.
Page ==
    /\ run.at = "paging"
    /\ \E rows \in Answers(run.from, run.cursor) :
         LET next == NextCursor(rows, run.from, run.cursor)
         IN  /\ stored' = stored \cup rows
             /\ Early(Walked(rows, next))
             /\ IF next # 0 /\ run.pages + 1 < MaxPages
                THEN /\ run' = [run EXCEPT !.cursor = next, !.pages = @ + 1]
                     /\ UNCHANGED entry
                ELSE /\ run' = Over
                     /\ entry' = IF next = 0 THEN Finished ELSE Unfinished(next)
    /\ UNCHANGED <<today, published, saved, faults>>

\* A request or a commit fails, or the raw copy after the last commit: the
\* entry keeps its window.
Fail ==
    /\ run.at = "paging" /\ faults < MaxFaults
    /\ faults' = faults + 1
    /\ \E rows \in Answers(run.from, run.cursor) \cup {{}} : stored' = stored \cup rows
    /\ run' = Over
    /\ UNCHANGED <<today, published, saved, entry, early>>

\* persist, and the end of the run.
Persist ==
    /\ run.at = "done"
    /\ saved' = entry
    /\ run' = NoRun
    /\ UNCHANGED <<today, published, stored, entry, early, faults>>

\* The run is killed, and its memory is lost.
Kill ==
    /\ run.at # "idle" /\ faults < MaxFaults
    /\ faults' = faults + 1
    /\ run' = NoRun /\ entry' = saved
    /\ UNCHANGED <<today, published, stored, saved, early>>

Next ==
    \/ Publish \/ NextDay
    \/ \E end \in Days : StartDefault(end) \/ \E from \in Days : StartFixed(from, end)
    \/ Resume \/ Page \/ Fail \/ Persist \/ Kill

Spec == Init /\ [][Next]_vars

\* run_daily.sh starts the next run, and a run goes on to its end unless it
\* is killed; nothing is assumed about the provider's days.
FairSpec ==
    Spec /\ WF_vars(StartDefault(today)) /\ WF_vars(Resume) /\ WF_vars(Page) /\ WF_vars(Persist)

-----------------------------------------------------------------------------
(* Properties *)

\* A day with more articles than a page holds: "step back a day instead of
\* looping forever".
Crowded(d) == \E size \in PageSizes : published[d] > size

HasDay(d) == \A a \in Published : a[1] = d => a \in stored

\* "last_to advances only after a window is fully covered, so no dates are
\* skipped": whatever was truncated, resumed, killed and asked again, every
\* day after the first and before last_to has all its articles, but for crowded
\* days and those that a --to-date ahead of them made the walk pass too early.
NoDateSkipped ==
    \A e \in {saved, entry} : \A d \in Days :
        e.since < d /\ d < e.last /\ ~Crowded(d) /\ d \notin early => HasDay(d)

\* The part of a saved window that its resumption will not ask for again is
\* stored already, with the same exceptions.
WalkedPartStored ==
    \A e \in {saved, entry} : \A d \in Days :
        e.cursor # 0 /\ e.cursor < d /\ d < e.to /\ ~Crowded(d) /\ d \notin early => HasDay(d)

\* How far the walk has to go down: the last day of the next request, 0 at the end
Left == IF run.at = "paging" THEN run.cursor ELSE entry.cursor

\* Why a window is finished: a saved one is never given up for another, whatever
\* range is asked for, whichever runs fail or are killed; it is walked down by the
\* run that takes it up until last_to is its end. Every answered request goes down.
WindowWalksOn ==
    [][/\ saved.cursor # 0 /\ saved' # saved =>
            \/ saved'.cursor = 0 /\ saved'.last = saved.to /\ saved'.since = saved.base
            \/ /\ saved' = [saved EXCEPT !.cursor = saved'.cursor]
               /\ saved.from <= saved'.cursor /\ saved'.cursor < saved.cursor
       /\ Page => Left' < Left]_vars

\* A window is walked to its end by the runs that follow, however crowded its
\* days: no page is asked for again and again.
WindowsFinish == (saved.cursor # 0) ~> (saved.cursor = 0)
=============================================================================
