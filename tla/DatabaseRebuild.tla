-------------------------- MODULE DatabaseRebuild --------------------------
(***************************************************************************)
(* rebuild.py: market.db is copied into a new file, verified, hard-linked  *)
(* as a backup and swapped in; older backups are pruned and the new size   *)
(* becomes the baseline of the next --if-needed check. Everything runs     *)
(* under the pipeline lock, so writers (any collector) and rebuilds take   *)
(* turns; a writer or a rebuild may be killed at any point.                *)
(*                                                                         *)
(* A file is reduced to the number of the last commit that it holds, its   *)
(* schema version and its size. A hard link is the same file under a       *)
(* second name: while a backup is linked, writes to market.db change it.   *)
(***************************************************************************)
EXTENDS Integers, FiniteSets

CONSTANTS
    KeepBackups,    \* --keep-backups (KEEP_BACKUPS)
    GrowthFactor,   \* --growth-factor (DEFAULT_GROWTH_FACTOR)
    MaxCommit,      \* bound: commits to market.db
    MaxSize,        \* bound: size of market.db
    MaxDay,         \* bound: UTC days
    MaxSecond,      \* bound: seconds of a UTC day that are told apart
    MaxKills        \* bound: processes killed

\* rebuild_database refuses keep_backups below one before it does anything.
ASSUME RebuildAssumption ==
    /\ KeepBackups \in Nat \ {0}
    /\ GrowthFactor \in Nat
    /\ MaxCommit \in Nat /\ MaxSize \in Nat
    /\ MaxDay \in Nat \ {0} /\ MaxSecond \in Nat \ {0} /\ MaxKills \in Nat

VARIABLES
    live,        \* market.db
    wal,         \* market.db.wal is there: commits that are not in the file yet
    tmp,         \* .market.db.rebuild.tmp
    baks,        \* market.db.bak-*: name -> last commit it holds
    linked,      \* backups that are still hard links of market.db
    baseline,    \* baseline_bytes of db_maintenance.json; 0: none
    clock,       \* UTC day and second
    job,         \* the rebuild in progress
    committed,   \* history: last commit made to market.db
    replaced,    \* history: what the last rebuild replaced, and under which name it was kept
    newSize,     \* history: size right after the last rebuild; 0: none yet
    unrecorded,  \* history: the last rebuild did not get to its record
    kills        \* history: processes killed

vars == <<live, wal, tmp, baks, linked, baseline, clock, job,
          committed, replaced, newSize, unrecorded, kills>>

SchemaVersion      == 4
ConvertFromVersion == 3
File   == [held : Nat, version : 0..SchemaVersion, size : Nat]
NoFile == [held |-> 0, version |-> 0, size |-> 0]
Exists(f) == f.version > 0

\* A backup name is a date, or a date and a time; time 0 stands for no time.
Names  == (1..MaxDay) \X (0..MaxSecond)
NoName == <<0, 0>>
\* Names are sorted as strings: a bare date comes before every time of that date.
Older(m, n) == m[1] < n[1] \/ (m[1] = n[1] /\ m[2] < n[2])

Modes  == {"if_needed", "rebuild", "to_v4"}
Places == {"idle", "open", "build", "verify", "link", "replace", "prune", "record"}
NoJob  == [at |-> "idle", mode |-> "rebuild", now |-> NoName, backup |-> NoName]

TypeOK ==
    /\ live \in File /\ tmp \in File
    /\ wal \in BOOLEAN
    /\ DOMAIN baks \subseteq Names /\ \A n \in DOMAIN baks : baks[n] \in Nat
    /\ linked \subseteq DOMAIN baks
    /\ baseline \in Nat /\ newSize \in Nat /\ kills \in Nat /\ committed \in Nat
    /\ clock \in (1..MaxDay) \X (1..MaxSecond)
    /\ job \in [at : Places, mode : Modes, now : Names \cup {NoName}, backup : Names \cup {NoName}]
    /\ replaced \in [held : Nat, name : Names \cup {NoName}, reused : BOOLEAN]
    /\ unrecorded \in BOOLEAN

\* No database yet, one of version 3, or one of version 4.
Init ==
    /\ \E v \in {0, ConvertFromVersion, SchemaVersion} :
         /\ live = IF v = 0 THEN NoFile ELSE [held |-> 1, version |-> v, size |-> 1]
         /\ committed = IF v = 0 THEN 0 ELSE 1
    /\ wal = FALSE
    /\ tmp = NoFile
    /\ baks = [n \in {} |-> 0]
    /\ linked = {}
    /\ baseline = 0
    /\ clock = <<1, 1>>
    /\ job = NoJob
    /\ replaced = [held |-> 0, name |-> NoName, reused |-> FALSE]
    /\ newSize = 0
    /\ unrecorded = FALSE
    /\ kills = 0

-----------------------------------------------------------------------------
(* Writers: any stage that commits to market.db. *)

\* ensure_db_schema: a new file is created at the current version; any other
\* version is refused.
SchemaReady == ~Exists(live) \/ live.version = SchemaVersion

\* The backups that follow market.db because they are the same file.
Following(rows) == [n \in DOMAIN baks |-> IF n \in linked THEN rows ELSE baks[n]]

\* A stage commits and closes the file. Rows are replaced, and the space of
\* the old ones stays in the file.
Write ==
    /\ job.at = "idle" /\ SchemaReady
    /\ committed < MaxCommit /\ live.size < MaxSize
    /\ live' = [held |-> committed + 1, version |-> SchemaVersion, size |-> live.size + 1]
    /\ committed' = committed + 1
    /\ wal' = FALSE
    /\ baks' = Following(committed + 1)
    /\ UNCHANGED <<tmp, linked, baseline, clock, job, replaced, newSize, unrecorded, kills>>

\* A stage is killed after its commit: the commit is in the write-ahead log.
WriteKilled ==
    /\ job.at = "idle" /\ live.version = SchemaVersion
    /\ committed < MaxCommit /\ kills < MaxKills
    /\ committed' = committed + 1
    /\ wal' = TRUE
    /\ kills' = kills + 1
    /\ UNCHANGED <<live, tmp, baks, linked, baseline, clock, job, replaced, newSize, unrecorded>>

Tick ==
    /\ \/ clock[2] < MaxSecond /\ clock' = <<clock[1], clock[2] + 1>>
       \/ clock[1] < MaxDay /\ clock' = <<clock[1] + 1, 1>>
    /\ UNCHANGED <<live, wal, tmp, baks, linked, baseline, job,
                   committed, replaced, newSize, unrecorded, kills>>

-----------------------------------------------------------------------------
(* The check before a rebuild. *)

\* Mutant of Due: any growth will do
DueAnyGrowth == baseline > 0 /\ live.size > baseline

\* rebuild_check
Due == baseline > 0 /\ live.size > baseline * GrowthFactor

\* run --if-needed without a recorded size: the present one becomes the
\* baseline and nothing is rebuilt.
InitializeBaseline ==
    /\ job.at = "idle" /\ Exists(live) /\ baseline = 0
    /\ baseline' = live.size
    /\ newSize' = live.size
    /\ unrecorded' = FALSE
    /\ UNCHANGED <<live, wal, tmp, baks, linked, clock, job, committed, replaced, kills>>

\* Mutant of Begin: the date is not the UTC date
BeginDateAhead(mode) ==
    /\ job.at = "idle" /\ Exists(live)
    /\ mode = "if_needed" => Due
    /\ tmp' = NoFile
    /\ job' = [at |-> "open", mode |-> mode, now |-> <<clock[1] + 1, clock[2]>>, backup |-> NoName]
    /\ UNCHANGED <<live, wal, baks, linked, baseline, clock,
                   committed, replaced, newSize, unrecorded, kills>>

\* run: --if-needed when due, or a rebuild or conversion started by hand. What
\* a killed rebuild left behind is removed first.
Begin(mode) ==
    /\ job.at = "idle" /\ Exists(live)
    /\ mode = "if_needed" => Due
    /\ tmp' = NoFile
    /\ job' = [at |-> "open", mode |-> mode, now |-> clock, backup |-> NoName]
    /\ UNCHANGED <<live, wal, baks, linked, baseline, clock,
                   committed, replaced, newSize, unrecorded, kills>>

-----------------------------------------------------------------------------
(* rebuild_database *)

ExpectedSource == IF job.mode = "to_v4" THEN ConvertFromVersion ELSE SchemaVersion

\* The try/finally around the steps up to the swap: only the temporary file goes.
GiveUp ==
    /\ tmp' = NoFile
    /\ job' = NoJob
    /\ UNCHANGED <<live, wal, clock, baseline, committed, replaced, newSize, unrecorded, kills>>

\* Opening market.db and closing it again folds its log into the file.
FoldLog ==
    /\ live' = [live EXCEPT !.held = committed]
    /\ wal' = FALSE
    /\ baks' = Following(committed)

\* Step 1: the version is the expected one, and CHECKPOINT.
OpenSource ==
    /\ job.at = "open"
    /\ live.version = ExpectedSource
    /\ FoldLog
    /\ job' = [job EXCEPT !.at = "build"]
    /\ UNCHANGED <<tmp, linked, baseline, clock, committed, replaced, newSize, unrecorded, kills>>

\* Already converted, another version, the log still there because another
\* process has the file open, or too little free space.
OpenRefused ==
    /\ job.at = "open"
    /\ FoldLog \/ UNCHANGED <<live, wal, baks>>
    /\ tmp' = NoFile
    /\ job' = NoJob
    /\ UNCHANGED <<linked, baseline, clock, committed, replaced, newSize, unrecorded, kills>>

\* COPY FROM DATABASE, or the schema and the converted tables. The copy is
\* never larger than the source; it may turn out wrong (held 0).
Copies == [held : {0, live.held}, version : {SchemaVersion}, size : 1..live.size]

\* Step 2: build the new file next to market.db.
Build ==
    /\ job.at = "build"
    /\ \E copy \in Copies : tmp' = copy
    /\ job' = [job EXCEPT !.at = "verify"]
    /\ UNCHANGED <<live, wal, baks, linked, baseline, clock,
                   committed, replaced, newSize, unrecorded, kills>>

\* A value does not convert exactly, or DuckDB runs out of memory or space.
BuildFails ==
    /\ job.at = "build"
    /\ GiveUp
    /\ UNCHANGED <<baks, linked>>

\* Mutant of Verified: only the version is looked at
VersionOnly == tmp.version = SchemaVersion

\* verify_rebuild: tables, rows, constraints, views and version agree.
Verified == tmp.held = live.held /\ tmp.version = SchemaVersion

\* Step 3: verify the closed file against the source.
Verify ==
    /\ job.at = "verify" /\ Verified
    /\ job' = [job EXCEPT !.at = "link"]
    /\ UNCHANGED <<live, wal, tmp, baks, linked, baseline, clock,
                   committed, replaced, newSize, unrecorded, kills>>

\* The copy differs, or verification itself runs out of memory.
VerifyFails ==
    /\ job.at = "verify"
    /\ GiveUp
    /\ UNCHANGED <<baks, linked>>

\* backup_path: the date of the start of the rebuild, with the time when a
\* backup of that date exists.
BackupPath ==
    IF <<job.now[1], 0>> \in DOMAIN baks THEN job.now ELSE <<job.now[1], 0>>

\* Step 4, first half: market.db gets a second name.
Link ==
    /\ job.at = "link" /\ BackupPath \notin DOMAIN baks
    /\ baks' = [n \in DOMAIN baks \cup {BackupPath} |->
                    IF n = BackupPath THEN live.held ELSE baks[n]]
    /\ linked' = linked \cup {BackupPath}
    /\ job' = [job EXCEPT !.at = "replace", !.backup = BackupPath]
    /\ UNCHANGED <<live, wal, tmp, baseline, clock, committed, replaced, newSize, unrecorded, kills>>

\* os.link raises, because the name exists or for another reason.
LinkFails ==
    /\ job.at = "link"
    /\ GiveUp
    /\ UNCHANGED <<baks, linked>>

\* Step 4, second half: os.replace. market.db is a file of its own again.
Replace ==
    /\ job.at = "replace"
    /\ live' = tmp
    /\ tmp' = NoFile
    /\ linked' = {}
    /\ job' = [job EXCEPT !.at = "prune"]
    /\ replaced' = [held   |-> live.held,
                    name   |-> job.backup,
                    reused |-> \E n \in DOMAIN baks : Older(job.backup, n)]
    /\ newSize' = tmp.size
    /\ unrecorded' = TRUE
    /\ UNCHANGED <<wal, baks, baseline, clock, committed, kills>>

\* Mutant of ReplaceFails: the link stays
ReplaceFailsLinked ==
    /\ job.at = "replace"
    /\ UNCHANGED <<baks, linked>>
    /\ GiveUp

\* os.replace raises: the backup link just made is removed again.
ReplaceFails ==
    /\ job.at = "replace"
    /\ baks' = [n \in DOMAIN baks \ {job.backup} |-> baks[n]]
    /\ linked' = linked \ {job.backup}
    /\ GiveUp

\* _fsync_dir raises after the swap: nothing is pruned or recorded.
SyncFails ==
    /\ job.at = "prune"
    /\ job' = NoJob
    /\ UNCHANGED <<live, wal, tmp, baks, linked, baseline, clock,
                   committed, replaced, newSize, unrecorded, kills>>

\* Mutant of Newest: sorted the other way round
OldestKept(count) ==
    {n \in DOMAIN baks : Cardinality({m \in DOMAIN baks : Older(m, n)}) < count}

\* The names that prune_backups leaves when it keeps count of them.
Newest(count) ==
    {n \in DOMAIN baks : Cardinality({m \in DOMAIN baks : Older(n, m)}) < count}

\* prune_backups removes the oldest first; an OSError ends it early and is
\* only reported.
Prune ==
    /\ job.at = "prune"
    /\ \E count \in KeepBackups..(KeepBackups + Cardinality(DOMAIN baks)) :
         baks' = [n \in Newest(count) |-> baks[n]]
    /\ job' = [job EXCEPT !.at = "record"]
    /\ UNCHANGED <<live, wal, tmp, linked, baseline, clock,
                   committed, replaced, newSize, unrecorded, kills>>

\* record_rebuild: the new size is the baseline of the next check.
RecordRebuild ==
    /\ job.at = "record"
    /\ baseline' = live.size
    /\ unrecorded' = FALSE
    /\ job' = NoJob
    /\ UNCHANGED <<live, wal, tmp, baks, linked, clock, committed, replaced, newSize, kills>>

\* db_maintenance.json cannot be written: reported, the baseline stays.
RecordFails ==
    /\ job.at = "record"
    /\ job' = NoJob
    /\ UNCHANGED <<live, wal, tmp, baks, linked, baseline, clock,
                   committed, replaced, newSize, unrecorded, kills>>

\* SIGKILL or power loss: nothing is cleaned up. A build leaves a part of its file.
Kill ==
    /\ job.at # "idle" /\ kills < MaxKills
    /\ kills' = kills + 1
    /\ job' = NoJob
    /\ tmp' = IF job.at = "build" THEN [NoFile EXCEPT !.version = SchemaVersion] ELSE tmp
    /\ UNCHANGED <<live, wal, baks, linked, baseline, clock,
                   committed, replaced, newSize, unrecorded>>

Next ==
    \/ Write \/ WriteKilled \/ Tick
    \/ InitializeBaseline
    \/ \E mode \in Modes : Begin(mode)
    \/ OpenSource \/ OpenRefused
    \/ Build \/ BuildFails
    \/ Verify \/ VerifyFails
    \/ Link \/ LinkFails
    \/ Replace \/ ReplaceFails \/ SyncFails
    \/ Prune
    \/ RecordRebuild \/ RecordFails
    \/ Kill

Spec == Init /\ [][Next]_vars

-----------------------------------------------------------------------------
(* Properties *)

\* market.db (with its log) holds every commit ever made, through every build,
\* swap, failure and kill, and no log outlives the file it belongs to.
NothingLost ==
    /\ ~wal => live.held = committed
    /\ wal => live.held < committed

\* The file that the last rebuild replaced is kept as a backup, with exactly
\* the rows it had then, unless its name sorts before an older backup (a bare
\* date taken again after it was pruned on the same day).
ReplacedFileKept ==
    replaced.name # NoName /\ ~replaced.reused =>
        /\ replaced.name \in DOMAIN baks
        /\ baks[replaced.name] = replaced.held

\* A backup that later writes would change is left only by a kill between the
\* link and the swap: a rebuild that fails leaves none.
LinkOnlyByKill == kills = 0 /\ job.at # "replace" => linked = {}

\* --if-needed starts from the size right after the last rebuild, so it never
\* rebuilds a file that has not grown, unless that rebuild's record was lost.
NoNeedlessRebuild ==
    [][\A mode \in Modes :
         Begin(mode) /\ mode = "if_needed" /\ ~unrecorded
             => live.size > GrowthFactor * newSize]_vars

\* KEEP_BACKUPS: the backups left after a successful rebuild are the newest
\* ones, and the one just made counts among them.
JustMadeBackupKept ==
    replaced.name # NoName => replaced.name \in DOMAIN baks
=============================================================================
