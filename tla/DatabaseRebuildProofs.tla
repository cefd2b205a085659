------------------------ MODULE DatabaseRebuildProofs ------------------------
(***************************************************************************)
(* Proofs about DatabaseRebuild, for every number of backups, growth       *)
(* factor, commits, days, seconds and kills.                               *)
(***************************************************************************)
EXTENDS DatabaseRebuild, FiniteSetTheorems, TLAPS

USE RebuildAssumption

(***************************************************************************)
(* The invariant                                                           *)
(***************************************************************************)

Checkpointed == job.at \in {"build", "verify", "link", "replace"}
Swapped      == job.at \in {"prune", "record"}

\* What holds between two steps of a rebuild: nobody writes meanwhile, so the
\* log stays folded in and the verified copy stays equal to market.db; the
\* backup is a name of market.db until the swap, and afterwards the newest.
Underway ==
    /\ job.at # "idle" => job.now \in Names
    /\ Checkpointed => ~wal
    /\ job.at \in {"link", "replace"} => Verified
    /\ job.at = "replace" =>
         /\ job.backup \in linked /\ job.backup \in Names
         /\ baks[job.backup] = live.held
         /\ kills = 0 => linked = {job.backup}
    /\ Swapped => linked = {} /\ newSize = live.size
    /\ job.at = "prune" =>
         replaced.reused \/ \A n \in DOMAIN baks : ~Older(replaced.name, n)

\* The last backup is not a name of market.db any more, and the baseline is
\* the size of the last recorded rebuild.
Settled ==
    /\ replaced.name # NoName /\ ~replaced.reused => replaced.name \notin linked
    /\ ~unrecorded => baseline = newSize

Inv == TypeOK /\ Underway /\ Settled /\ NothingLost /\ ReplacedFileKept /\ LinkOnlyByKill

LEMMA InvParts ==
    Inv => TypeOK /\ Underway /\ Settled /\ NothingLost /\ ReplacedFileKept /\ LinkOnlyByKill
BY DEF Inv

\* Types of what the actions pass on
LEMMA Types ==
    ASSUME TypeOK
    PROVE  /\ live.held \in Nat /\ live.version \in 0..SchemaVersion /\ live.size \in Nat
           /\ tmp.held \in Nat /\ tmp.version \in 0..SchemaVersion /\ tmp.size \in Nat
           /\ SchemaVersion = 4 /\ ConvertFromVersion = 3
           /\ committed \in Nat /\ kills \in Nat
           /\ NoFile \in File /\ NoFile.held = 0 /\ NoFile.version = 0
           /\ NoJob.at = "idle"
           /\ NoJob \in [at : Places, mode : Modes, now : Names \cup {NoName},
                         backup : Names \cup {NoName}]
BY DEF TypeOK, File, NoFile, NoJob, Places, Modes, SchemaVersion, ConvertFromVersion

\* Writes go to the linked backups only
LEMMA FollowingType ==
    ASSUME TypeOK, NEW held \in Nat
    PROVE  /\ DOMAIN Following(held) = DOMAIN baks
           /\ \A n \in DOMAIN baks : Following(held)[n] \in Nat
           /\ \A n \in DOMAIN baks \ linked : Following(held)[n] = baks[n]
           /\ \A n \in linked : Following(held)[n] = held
BY DEF Following, TypeOK

LEMMA InvInit == Init => Inv
<1> SUFFICES ASSUME Init PROVE Inv
  OBVIOUS
<1>1. PICK v \in {0, ConvertFromVersion, SchemaVersion} :
         /\ live = IF v = 0 THEN NoFile ELSE [held |-> 1, version |-> v, size |-> 1]
         /\ committed = IF v = 0 THEN 0 ELSE 1
  BY DEF Init
<1>2. live \in File /\ live.held = committed /\ committed \in Nat
  BY <1>1 DEF File, NoFile, SchemaVersion, ConvertFromVersion
<1>3. tmp \in File
  BY DEF Init, NoFile, File, SchemaVersion
<1>4. job \in [at : Places, mode : Modes, now : Names \cup {NoName}, backup : Names \cup {NoName}]
      /\ job.at = "idle"
  BY DEF Init, NoJob, Places, Modes
<1>5. clock \in (1..MaxDay) \X (1..MaxSecond)
  BY DEF Init
<1>6. DOMAIN baks = {} /\ linked = {}
  BY DEF Init
<1>7. replaced \in [held : Nat, name : Names \cup {NoName}, reused : BOOLEAN] /\ replaced.name = NoName
  BY DEF Init
<1>8. wal = FALSE /\ baseline = 0 /\ newSize = 0 /\ unrecorded = FALSE /\ kills = 0
  BY DEF Init
<1>9. TypeOK
  BY <1>2, <1>3, <1>4, <1>5, <1>6, <1>7, <1>8 DEF TypeOK
<1>10. Underway /\ Settled
  BY <1>4, <1>6, <1>7, <1>8 DEF Underway, Settled, Checkpointed, Swapped
<1>11. NothingLost /\ ReplacedFileKept /\ LinkOnlyByKill
  BY <1>2, <1>4, <1>6, <1>7, <1>8 DEF NothingLost, ReplacedFileKept, LinkOnlyByKill
<1> QED
  BY <1>9, <1>10, <1>11 DEF Inv

(***************************************************************************)
(* Every step keeps the invariant                                          *)
(***************************************************************************)

\* A stage commits (Write), or commits and is killed (WriteKilled)
LEMMA WriterInv ==
    ASSUME Inv, Write \/ WriteKilled \/ Tick \/ InitializeBaseline
    PROVE  Inv'
<1>0. TypeOK /\ Underway /\ Settled /\ NothingLost /\ ReplacedFileKept /\ LinkOnlyByKill
  BY InvParts
<1>1. CASE Write
  <2>1. /\ live' = [held |-> committed + 1, version |-> SchemaVersion, size |-> live.size + 1]
        /\ committed' = committed + 1 /\ wal' = FALSE /\ baks' = Following(committed + 1)
        /\ job.at = "idle"
        /\ UNCHANGED <<tmp, linked, baseline, clock, job, replaced, newSize, unrecorded, kills>>
    BY <1>1 DEF Write
  <2>2. live' \in File /\ live'.held = committed' /\ committed' \in Nat
    BY <1>0, <2>1, Types DEF File
  <2>3. TypeOK'
    <3>1. DOMAIN baks' = DOMAIN baks /\ \A n \in DOMAIN baks : baks'[n] \in Nat
      <4>1. committed + 1 \in Nat
        BY <1>0, Types
      <4> QED
        BY <1>0, <2>1, <4>1, FollowingType
    <3> QED
      BY <1>0, <2>1, <2>2, <3>1 DEF TypeOK
  <2>4. Underway' /\ Settled' /\ LinkOnlyByKill'
    BY <1>0, <2>1 DEF Underway, Settled, LinkOnlyByKill, Checkpointed, Swapped
  <2>5. NothingLost'
    BY <2>1, <2>2 DEF NothingLost
  <2>6. ReplacedFileKept'
    BY <1>0, <2>1, FollowingType, Types DEF ReplacedFileKept, Settled
  <2> QED
    BY <2>3, <2>4, <2>5, <2>6 DEF Inv
<1>2. CASE WriteKilled
  <2>1. /\ committed' = committed + 1 /\ wal' = TRUE /\ kills' = kills + 1
        /\ job.at = "idle"
        /\ UNCHANGED <<live, tmp, baks, linked, baseline, clock, job, replaced, newSize, unrecorded>>
    BY <1>2 DEF WriteKilled
  <2>2. TypeOK'
    BY <1>0, <2>1 DEF TypeOK
  <2>3. Underway' /\ Settled' /\ ReplacedFileKept' /\ LinkOnlyByKill'
    BY <1>0, <2>1, Types DEF Underway, Settled, ReplacedFileKept, LinkOnlyByKill, Checkpointed, Swapped
  <2>4. NothingLost'
    BY <1>0, <2>1, Types DEF NothingLost
  <2> QED
    BY <2>2, <2>3, <2>4 DEF Inv
<1>3. CASE Tick
  <2>1. clock' \in (1..MaxDay) \X (1..MaxSecond)
    BY <1>0, <1>3 DEF Tick, TypeOK
  <2>2. UNCHANGED <<live, wal, tmp, baks, linked, baseline, job,
                    committed, replaced, newSize, unrecorded, kills>>
    BY <1>3 DEF Tick
  <2>3. TypeOK'
    BY <1>0, <2>1, <2>2 DEF TypeOK
  <2> QED
    BY <1>0, <2>2, <2>3 DEF Inv, Underway, Settled, NothingLost, ReplacedFileKept, LinkOnlyByKill,
                            Checkpointed, Swapped, Verified
<1>4. CASE InitializeBaseline
  <2>1. /\ job.at = "idle" /\ baseline' = live.size /\ newSize' = live.size /\ unrecorded' = FALSE
        /\ UNCHANGED <<live, wal, tmp, baks, linked, clock, job, committed, replaced, kills>>
    BY <1>4 DEF InitializeBaseline
  <2>2. TypeOK'
    BY <1>0, <2>1, Types DEF TypeOK
  <2> QED
    BY <1>0, <2>1, <2>2 DEF Inv, Underway, Settled, NothingLost, ReplacedFileKept, LinkOnlyByKill,
                            Checkpointed, Swapped, Verified
<1> QED
  BY <1>1, <1>2, <1>3, <1>4

\* Steps that end a rebuild before the swap: only the temporary file goes
\* (the finally of rebuild_database)
LEMMA GiveUpInv ==
    ASSUME Inv, GiveUp, UNCHANGED <<baks, linked>>, job.at # "replace"
    PROVE  Inv'
<1>0. TypeOK /\ Underway /\ Settled /\ NothingLost /\ ReplacedFileKept /\ LinkOnlyByKill
  BY InvParts
<1>1. /\ tmp' = NoFile /\ job' = NoJob
      /\ UNCHANGED <<live, wal, clock, baseline, committed, replaced, newSize, unrecorded, kills>>
  BY DEF GiveUp
<1>2. TypeOK'
  BY <1>0, <1>1, Types DEF TypeOK
<1>3. job'.at = "idle"
  BY <1>0, <1>1, Types
<1> QED
  BY <1>0, <1>1, <1>2, <1>3 DEF Inv, Underway, Settled, NothingLost, ReplacedFileKept,
                                LinkOnlyByKill, Checkpointed, Swapped

\* The start of a rebuild, and its steps up to the link
LEMMA BuildInv ==
    ASSUME Inv, (\E mode \in Modes : Begin(mode)) \/ OpenSource \/ Build \/ Verify
    PROVE  Inv'
<1>0. TypeOK /\ Underway /\ Settled /\ NothingLost /\ ReplacedFileKept /\ LinkOnlyByKill
  BY InvParts
<1>1. ASSUME NEW mode \in Modes, Begin(mode)
      PROVE  Inv'
  <2>1. /\ job.at = "idle" /\ tmp' = NoFile
        /\ job' = [at |-> "open", mode |-> mode, now |-> clock, backup |-> NoName]
        /\ UNCHANGED <<live, wal, baks, linked, baseline, clock,
                       committed, replaced, newSize, unrecorded, kills>>
    BY <1>1 DEF Begin
  <2>2. clock \in Names
    BY <1>0 DEF TypeOK, Names
  <2>3. TypeOK' /\ job'.at = "open" /\ job'.now \in Names
    BY <1>0, <2>1, <2>2, Types DEF TypeOK, Places
  <2> QED
    BY <1>0, <2>1, <2>3 DEF Inv, Underway, Settled, NothingLost, ReplacedFileKept, LinkOnlyByKill,
                            Checkpointed, Swapped
<1>2. CASE OpenSource
  <2>1. /\ job.at = "open"
        /\ live' = [live EXCEPT !.held = committed] /\ wal' = FALSE
        /\ baks' = Following(committed)
        /\ job' = [job EXCEPT !.at = "build"]
        /\ UNCHANGED <<tmp, linked, baseline, clock, committed, replaced, newSize, unrecorded, kills>>
    BY <1>2 DEF OpenSource, FoldLog
  <2>2. live' \in File /\ live'.held = committed /\ live'.size = live.size
    BY <1>0, <2>1 DEF TypeOK, File
  <2>3. DOMAIN baks' = DOMAIN baks /\ \A n \in DOMAIN baks : baks'[n] \in Nat
    BY <1>0, <2>1, FollowingType, Types
  <2>4. job' \in [at : Places, mode : Modes, now : Names \cup {NoName}, backup : Names \cup {NoName}]
        /\ job'.at = "build" /\ job'.now = job.now
    BY <1>0, <2>1 DEF TypeOK, Places
  <2>5. TypeOK'
    BY <1>0, <2>1, <2>2, <2>3, <2>4 DEF TypeOK
  <2>6. Underway' /\ Settled' /\ LinkOnlyByKill'
    BY <1>0, <2>1, <2>4 DEF Underway, Settled, LinkOnlyByKill, Checkpointed, Swapped
  <2>7. ReplacedFileKept'
    BY <1>0, <2>1, FollowingType, Types DEF ReplacedFileKept, Settled
  <2>8. NothingLost'
    BY <2>1, <2>2 DEF NothingLost
  <2> QED
    BY <2>5, <2>6, <2>7, <2>8 DEF Inv
<1>3. CASE Build
  <2>1. /\ job.at = "build" /\ tmp' \in Copies
        /\ job' = [job EXCEPT !.at = "verify"]
        /\ UNCHANGED <<live, wal, baks, linked, baseline, clock,
                       committed, replaced, newSize, unrecorded, kills>>
    BY <1>3 DEF Build
  <2>2. tmp' \in File
    BY <1>0, <2>1, Types DEF Copies, File
  <2>3. job' \in [at : Places, mode : Modes, now : Names \cup {NoName}, backup : Names \cup {NoName}]
        /\ job'.at = "verify" /\ job'.now = job.now
    BY <1>0, <2>1 DEF TypeOK, Places
  <2>4. TypeOK'
    BY <1>0, <2>1, <2>2, <2>3 DEF TypeOK
  <2> QED
    BY <1>0, <2>1, <2>3, <2>4 DEF Inv, Underway, Settled, NothingLost, ReplacedFileKept,
                                  LinkOnlyByKill, Checkpointed, Swapped
<1>4. CASE Verify
  <2>1. /\ job.at = "verify" /\ Verified
        /\ job' = [job EXCEPT !.at = "link"]
        /\ UNCHANGED <<live, wal, tmp, baks, linked, baseline, clock,
                       committed, replaced, newSize, unrecorded, kills>>
    BY <1>4 DEF Verify
  <2>2. job' \in [at : Places, mode : Modes, now : Names \cup {NoName}, backup : Names \cup {NoName}]
        /\ job'.at = "link" /\ job'.now = job.now
    BY <1>0, <2>1 DEF TypeOK, Places
  <2>3. TypeOK'
    BY <1>0, <2>1, <2>2 DEF TypeOK
  <2>4. Verified'
    BY <2>1 DEF Verified
  <2> QED
    BY <1>0, <2>1, <2>2, <2>3, <2>4 DEF Inv, Underway, Settled, NothingLost, ReplacedFileKept,
                                        LinkOnlyByKill, Checkpointed, Swapped
<1> QED
  BY <1>1, <1>2, <1>3, <1>4

\* A rebuild that is refused may have folded the log into the file
LEMMA OpenRefusedInv ==
    ASSUME Inv, OpenRefused
    PROVE  Inv'
<1>0. TypeOK /\ Underway /\ Settled /\ NothingLost /\ ReplacedFileKept /\ LinkOnlyByKill
  BY InvParts
<1>1. /\ job.at = "open" /\ tmp' = NoFile /\ job' = NoJob
      /\ FoldLog \/ UNCHANGED <<live, wal, baks>>
      /\ UNCHANGED <<linked, baseline, clock, committed, replaced, newSize, unrecorded, kills>>
  BY DEF OpenRefused
<1>2. CASE UNCHANGED <<live, wal, baks>>
  BY <1>0, <1>1, <1>2, GiveUpInv DEF GiveUp
<1>3. CASE FoldLog
  <2>1. live' = [live EXCEPT !.held = committed] /\ wal' = FALSE /\ baks' = Following(committed)
    BY <1>3 DEF FoldLog
  <2>2. live' \in File /\ live'.held = committed /\ live'.size = live.size
    BY <1>0, <2>1 DEF TypeOK, File
  <2>3. DOMAIN baks' = DOMAIN baks /\ \A n \in DOMAIN baks : baks'[n] \in Nat
    BY <1>0, <2>1, FollowingType, Types
  <2>4. TypeOK' /\ job'.at = "idle"
    BY <1>0, <1>1, <2>1, <2>2, <2>3, Types DEF TypeOK
  <2>5. Underway' /\ Settled' /\ LinkOnlyByKill'
    BY <1>0, <1>1, <2>1, <2>2, <2>4 DEF Underway, Settled, LinkOnlyByKill, Checkpointed, Swapped
  <2>6. ReplacedFileKept'
    BY <1>0, <1>1, <2>1, FollowingType, Types DEF ReplacedFileKept, Settled
  <2>7. NothingLost'
    BY <2>1, <2>2, <1>1 DEF NothingLost
  <2> QED
    BY <2>4, <2>5, <2>6, <2>7 DEF Inv
<1> QED
  BY <1>1, <1>2, <1>3

\* os.link: the name is new, so no kept backup is overwritten
LEMMA LinkInv ==
    ASSUME Inv, Link
    PROVE  Inv'
<1>0. TypeOK /\ Underway /\ Settled /\ NothingLost /\ ReplacedFileKept /\ LinkOnlyByKill
  BY InvParts
<1> DEFINE name == BackupPath
<1>1. /\ job.at = "link" /\ name \notin DOMAIN baks
      /\ baks' = [n \in DOMAIN baks \cup {name} |-> IF n = name THEN live.held ELSE baks[n]]
      /\ linked' = linked \cup {name}
      /\ job' = [job EXCEPT !.at = "replace", !.backup = name]
      /\ UNCHANGED <<live, wal, tmp, baseline, clock, committed, replaced, newSize, unrecorded, kills>>
  BY DEF Link
<1>2. name \in Names
  <2>1. job.now \in Names
    BY <1>0, <1>1 DEF Underway
  <2> QED
    BY <2>1 DEF BackupPath, Names
<1> HIDE DEF name
<1>3. job' \in [at : Places, mode : Modes, now : Names \cup {NoName}, backup : Names \cup {NoName}]
      /\ job'.at = "replace" /\ job'.now = job.now /\ job'.backup = name
  BY <1>0, <1>1, <1>2 DEF TypeOK, Places
<1>4. /\ DOMAIN baks' = DOMAIN baks \cup {name}
      /\ baks'[name] = live.held
      /\ \A n \in DOMAIN baks : baks'[n] = baks[n]
  BY <1>1
<1>5. TypeOK'
  BY <1>0, <1>1, <1>2, <1>3, <1>4, Types DEF TypeOK
<1>6. Underway'
  BY <1>0, <1>1, <1>2, <1>3, <1>4, Types
  DEF Underway, Checkpointed, Swapped, Verified, LinkOnlyByKill
<1>7. Settled' /\ ReplacedFileKept'
  BY <1>0, <1>1, <1>4 DEF Settled, ReplacedFileKept
<1>8. NothingLost' /\ LinkOnlyByKill'
  BY <1>0, <1>1, <1>3 DEF NothingLost, LinkOnlyByKill
<1> QED
  BY <1>5, <1>6, <1>7, <1>8 DEF Inv

\* os.replace succeeds or raises
LEMMA ReplaceInv ==
    ASSUME Inv, Replace \/ ReplaceFails
    PROVE  Inv'
<1>0. TypeOK /\ Underway /\ Settled /\ NothingLost /\ ReplacedFileKept /\ LinkOnlyByKill
  BY InvParts
<1>1. CASE Replace
  <2>1. /\ job.at = "replace"
        /\ live' = tmp /\ tmp' = NoFile /\ linked' = {}
        /\ job' = [job EXCEPT !.at = "prune"]
        /\ replaced' = [held   |-> live.held,
                        name   |-> job.backup,
                        reused |-> \E n \in DOMAIN baks : Older(job.backup, n)]
        /\ newSize' = tmp.size /\ unrecorded' = TRUE
        /\ UNCHANGED <<wal, baks, baseline, clock, committed, kills>>
    BY <1>1 DEF Replace
  <2>2. job.backup \in DOMAIN baks /\ baks[job.backup] = live.held /\ job.backup \in Names
    BY <1>0, <2>1 DEF Underway, TypeOK
  <2>3. tmp.held = live.held /\ ~wal
    BY <1>0, <2>1 DEF Underway, Checkpointed, Verified
  <2>4. job' \in [at : Places, mode : Modes, now : Names \cup {NoName}, backup : Names \cup {NoName}]
        /\ job'.at = "prune" /\ job'.now = job.now
    BY <1>0, <2>1 DEF TypeOK, Places
  <2>5. /\ replaced'.held = live.held /\ replaced'.name = job.backup
        /\ replaced'.reused = (\E n \in DOMAIN baks : Older(job.backup, n))
        /\ replaced' \in [held : Nat, name : Names \cup {NoName}, reused : BOOLEAN]
    BY <1>0, <2>1, <2>2, Types
  <2>6. TypeOK'
    BY <1>0, <2>1, <2>4, <2>5, Types DEF TypeOK
  <2>7. Underway' /\ Settled'
    BY <1>0, <2>1, <2>4, <2>5 DEF Underway, Settled, Checkpointed, Swapped
  <2>8. ReplacedFileKept' /\ LinkOnlyByKill'
    BY <2>1, <2>2, <2>5 DEF ReplacedFileKept, LinkOnlyByKill
  <2>9. NothingLost'
    BY <1>0, <2>1, <2>3 DEF NothingLost
  <2> QED
    BY <2>6, <2>7, <2>8, <2>9 DEF Inv
<1>2. CASE ReplaceFails
  <2>1. /\ job.at = "replace"
        /\ baks' = [n \in DOMAIN baks \ {job.backup} |-> baks[n]]
        /\ linked' = linked \ {job.backup}
        /\ tmp' = NoFile /\ job' = NoJob
        /\ UNCHANGED <<live, wal, clock, baseline, committed, replaced, newSize, unrecorded, kills>>
    BY <1>2 DEF ReplaceFails, GiveUp
  <2>2. job'.at = "idle"
    BY <1>0, <2>1, Types
  <2>3. TypeOK'
    BY <1>0, <2>1, Types DEF TypeOK
  <2>4. Underway' /\ Settled' /\ NothingLost' /\ LinkOnlyByKill'
    BY <1>0, <2>1, <2>2 DEF Underway, Settled, NothingLost, LinkOnlyByKill, Checkpointed, Swapped
  <2>5. ReplacedFileKept'
    BY <1>0, <2>1 DEF ReplacedFileKept, Settled, Underway
  <2> QED
    BY <2>3, <2>4, <2>5 DEF Inv
<1> QED
  BY <1>1, <1>2

\* The newest backup survives every pruning (prune_backups)
LEMMA NewestStays ==
    ASSUME NEW name \in DOMAIN baks, \A n \in DOMAIN baks : ~Older(name, n),
           NEW count \in Nat \ {0}
    PROVE  name \in Newest(count)
<1>1. {m \in DOMAIN baks : Older(name, m)} = {}
  OBVIOUS
<1>2. Cardinality({m \in DOMAIN baks : Older(name, m)}) = 0
  BY <1>1, FS_EmptySet
<1> QED
  BY <1>2 DEF Newest

LEMMA PruneInv ==
    ASSUME Inv, Prune
    PROVE  Inv'
<1>0. TypeOK /\ Underway /\ Settled /\ NothingLost /\ ReplacedFileKept /\ LinkOnlyByKill
  BY InvParts
<1>1. PICK count \in KeepBackups..(KeepBackups + Cardinality(DOMAIN baks)) :
        baks' = [n \in Newest(count) |-> baks[n]]
  BY DEF Prune
<1>2. /\ job.at = "prune" /\ job' = [job EXCEPT !.at = "record"]
      /\ UNCHANGED <<live, wal, tmp, linked, baseline, clock,
                     committed, replaced, newSize, unrecorded, kills>>
  BY DEF Prune
<1>3. count \in Nat \ {0}
  BY <1>1
<1>4. Newest(count) \subseteq DOMAIN baks
  BY DEF Newest
<1>5. linked = {} /\ (replaced.reused \/ \A n \in DOMAIN baks : ~Older(replaced.name, n))
  BY <1>0, <1>2 DEF Underway, Swapped
<1>6. job' \in [at : Places, mode : Modes, now : Names \cup {NoName}, backup : Names \cup {NoName}]
      /\ job'.at = "record" /\ job'.now = job.now
  BY <1>0, <1>2 DEF TypeOK, Places
<1>7. TypeOK'
  BY <1>0, <1>1, <1>2, <1>4, <1>5, <1>6 DEF TypeOK
<1>8. Underway' /\ Settled' /\ NothingLost' /\ LinkOnlyByKill'
  BY <1>0, <1>2, <1>5, <1>6 DEF Underway, Settled, NothingLost, LinkOnlyByKill, Checkpointed, Swapped
<1>9. ReplacedFileKept'
  <2>1. SUFFICES ASSUME replaced.name # NoName, ~replaced.reused
                 PROVE  replaced.name \in DOMAIN baks' /\ baks'[replaced.name] = replaced.held
    BY <1>2 DEF ReplacedFileKept
  <2>2. replaced.name \in DOMAIN baks /\ baks[replaced.name] = replaced.held
    BY <1>0, <2>1 DEF ReplacedFileKept
  <2>3. replaced.name \in Newest(count)
    BY <1>3, <1>5, <2>1, <2>2, NewestStays
  <2> QED
    BY <1>1, <2>2, <2>3
<1> QED
  BY <1>7, <1>8, <1>9 DEF Inv

\* The record of a rebuild, made or not, an early end after the swap, and a kill at any step
LEMMA EndInv ==
    ASSUME Inv, RecordRebuild \/ RecordFails \/ SyncFails \/ Kill \/ UNCHANGED vars
    PROVE  Inv'
<1>0. TypeOK /\ Underway /\ Settled /\ NothingLost /\ ReplacedFileKept /\ LinkOnlyByKill
  BY InvParts
<1>1. CASE RecordRebuild
  <2>1. /\ job.at = "record" /\ baseline' = live.size /\ unrecorded' = FALSE /\ job' = NoJob
        /\ UNCHANGED <<live, wal, tmp, baks, linked, clock, committed, replaced, newSize, kills>>
    BY <1>1 DEF RecordRebuild
  <2>2. newSize = live.size /\ linked = {} /\ job'.at = "idle"
    BY <1>0, <2>1, Types DEF Underway, Swapped
  <2>3. TypeOK'
    BY <1>0, <2>1, Types DEF TypeOK
  <2> QED
    BY <1>0, <2>1, <2>2, <2>3 DEF Inv, Underway, Settled, NothingLost, ReplacedFileKept,
                                  LinkOnlyByKill, Checkpointed, Swapped
<1>2. CASE RecordFails \/ SyncFails
  <2>1. /\ job.at \in {"prune", "record"} /\ job' = NoJob
        /\ UNCHANGED <<live, wal, tmp, baks, linked, baseline, clock,
                       committed, replaced, newSize, unrecorded, kills>>
    BY <1>2 DEF RecordFails, SyncFails
  <2>2. linked = {} /\ job'.at = "idle"
    BY <1>0, <2>1, Types DEF Underway, Swapped
  <2>3. TypeOK'
    BY <1>0, <2>1, Types DEF TypeOK
  <2> QED
    BY <1>0, <2>1, <2>2, <2>3 DEF Inv, Underway, Settled, NothingLost, ReplacedFileKept,
                                  LinkOnlyByKill, Checkpointed, Swapped
<1>3. CASE Kill
  <2>1. /\ kills' = kills + 1 /\ job' = NoJob
        /\ tmp' = IF job.at = "build" THEN [NoFile EXCEPT !.version = SchemaVersion] ELSE tmp
        /\ UNCHANGED <<live, wal, baks, linked, baseline, clock,
                       committed, replaced, newSize, unrecorded>>
    BY <1>3 DEF Kill
  <2>2. tmp' \in File /\ kills' \in Nat /\ kills' # 0 /\ job'.at = "idle"
    BY <1>0, <2>1, Types DEF TypeOK, File, NoFile
  <2>3. TypeOK'
    BY <1>0, <2>1, <2>2, Types DEF TypeOK
  <2> QED
    BY <1>0, <2>1, <2>2, <2>3 DEF Inv, Underway, Settled, NothingLost, ReplacedFileKept,
                                  LinkOnlyByKill, Checkpointed, Swapped
<1>4. CASE UNCHANGED vars
  BY <1>0, <1>4 DEF vars, Inv, TypeOK, Underway, Settled, NothingLost, ReplacedFileKept,
                    LinkOnlyByKill, Checkpointed, Swapped, Verified
<1> QED
  BY <1>1, <1>2, <1>3, <1>4

LEMMA InvNext == Inv /\ [Next]_vars => Inv'
<1> SUFFICES ASSUME Inv, [Next]_vars PROVE Inv'
  OBVIOUS
<1>1. CASE BuildFails \/ VerifyFails \/ LinkFails
  BY <1>1, GiveUpInv DEF BuildFails, VerifyFails, LinkFails
<1>0. CASE OpenRefused
  BY <1>0, OpenRefusedInv
<1> QED
  BY <1>0, <1>1, WriterInv, BuildInv, LinkInv, ReplaceInv, PruneInv, EndInv DEF Next

(***************************************************************************)
(* Theorems                                                                *)
(***************************************************************************)

LEMMA InvAlways == Spec => []Inv
BY InvInit, InvNext, PTL DEF Spec

\* Every file, name and record keeps its type
THEOREM RebuildTypeCorrect == Spec => []TypeOK
<1>1. Inv => TypeOK
  BY DEF Inv
<1> QED
  BY InvAlways, <1>1, PTL

\* No build, swap, failure or kill loses a commit (rebuild_database)
THEOREM NothingLostAlways == Spec => []NothingLost
<1>1. Inv => NothingLost
  BY DEF Inv
<1> QED
  BY InvAlways, <1>1, PTL

\* The replaced file stays as it was, under a backup name (backup_path, prune_backups)
THEOREM ReplacedFileKeptAlways == Spec => []ReplacedFileKept
<1>1. Inv => ReplacedFileKept
  BY DEF Inv
<1> QED
  BY InvAlways, <1>1, PTL

\* Without a kill no backup shares its file with market.db (rebuild_database)
THEOREM LinkOnlyByKillAlways == Spec => []LinkOnlyByKill
<1>1. Inv => LinkOnlyByKill
  BY DEF Inv
<1> QED
  BY InvAlways, <1>1, PTL

\* --if-needed rebuilds only what has grown since the last rebuild (rebuild_check)
THEOREM NoNeedlessRebuildAlways == Spec => NoNeedlessRebuild
<1>1. Inv => \A mode \in Modes :
               Begin(mode) /\ mode = "if_needed" /\ ~unrecorded
                   => live.size > GrowthFactor * newSize
  <2> SUFFICES ASSUME Inv, NEW mode \in Modes, Begin(mode), mode = "if_needed", ~unrecorded
               PROVE  live.size > GrowthFactor * newSize
    OBVIOUS
  <2>1. live.size > baseline * GrowthFactor
    BY DEF Begin, Due
  <2>2. baseline = newSize /\ newSize \in Nat
    BY DEF Inv, Settled, TypeOK
  <2>3. newSize * GrowthFactor = GrowthFactor * newSize
    BY <2>2
  <2> QED
    BY <2>1, <2>2, <2>3
<1>2. Inv /\ [Next]_vars =>
        [\A mode \in Modes : Begin(mode) /\ mode = "if_needed" /\ ~unrecorded
            => live.size > GrowthFactor * newSize]_vars
  BY <1>1
<1> QED
  BY InvAlways, <1>2, PTL DEF Spec, NoNeedlessRebuild
=============================================================================
