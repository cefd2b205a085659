------------------------- MODULE DailyPipelineProofs -------------------------
(***************************************************************************)
(* Proofs about DailyPipeline and AtomicFile, for any number of daily      *)
(* runs, backups, jobs started by hand and viewers, and of stages.         *)
(***************************************************************************)
EXTENDS DailyPipeline, TLAPS

USE PipelineAssumption

(***************************************************************************)
(* The invariant                                                           *)
(***************************************************************************)

\* Whoever does something has the lock: the shell or CLI that acquired it, the
\* stage and the monitor that inherited the descriptor.
Held ==
    /\ \A o \in Owners : at[o] \in {"got", "run"} => lock = o
    /\ \A s \in Scripts : child[s] => lock = s /\ stage[s] <= LastStage(s)
    /\ \A d \in Daily : monitor[d] # "off" => lock = d

\* The pid in the lock file is that of the holder from the first stage on.
Named == \A o \in Owners : at[o] = "run" \/ (o \in Scripts /\ child[o]) => named = o

\* The monitor's loop runs beside a stage, or after its script was killed.
Beside ==
    \A d \in Daily : monitor[d] = "on" => at[d] = "out" \/ (at[d] = "run" /\ child[d])

\* Status processes belong to the run with the lock. An update never runs
\* beside the loop, and a refresh does, unless it outlived the loop.
Status ==
    /\ place["update"] # "idle" => lock \in Daily /\ monitor[lock] # "on"
    /\ place["refresh"] # "idle" => lock \in Daily /\ monitor[lock] # "off"

\* A writer before its Open has no file open.
Closed == \A w \in Writers : place[w] \in {"idle", "loaded"} => handle[w] = "none"

\* What writers do to the file and its temporary file one at a time.
Alone ==
    /\ target = "whole" /\ ~Sharing(place)
    /\ \A w \in Writers :
         /\ place[w] = "open"    => handle[w] = "tmp" /\ tmp = "empty"
         /\ place[w] = "written" => handle[w] = "tmp" /\ tmp = "whole"

File == Closed /\ (met \/ Alone)

Inv == TypeOK /\ Held /\ Named /\ Beside /\ Status /\ File

LEMMA InvParts == Inv => TypeOK /\ Held /\ Named /\ Beside /\ Status /\ File
BY DEF Inv

LEMMA Kinds ==
    /\ Daily \subseteq Scripts /\ Backups \subseteq Scripts
    /\ Scripts \subseteq Owners /\ Clis \subseteq Owners
    /\ NoOne \notin Scripts /\ NoOne \notin Daily /\ NoOne \notin Clis
    /\ \A s \in Scripts : s \notin Clis
    /\ \A s \in Scripts : LastStage(s) \in 1..StageCount
BY DEF Scripts, Owners, LastStage

LEMMA InvInit == Init => Inv
<1> SUFFICES ASSUME Init PROVE Inv
  OBVIOUS
<1>1. FileTypeOK /\ Alone /\ Closed
  BY DEF Init, FileInit, FileTypeOK, Alone, Closed, Sharing, Texts, Places
<1>2. TypeOK
  <2>1. /\ at \in [Owners -> {"out", "wait", "got", "run"}]
        /\ stage \in [Scripts -> 0..(StageCount + 1)]
        /\ child \in [Scripts -> BOOLEAN] /\ failed \in [Scripts -> BOOLEAN]
        /\ monitor \in [Daily -> {"off", "on", "late"}]
    BY DEF Init
  <2>2. lock = NoOne /\ named = NoOne /\ probing = {} /\ sigkilled = {} /\ met = FALSE
    BY DEF Init
  <2> QED
    BY <1>1, <2>1, <2>2 DEF TypeOK
<1>3. Held /\ Named /\ Beside /\ Status
  BY Kinds DEF Init, FileInit, Held, Named, Beside, Status
<1> QED
  BY <1>1, <1>2, <1>3 DEF Inv, File

\* The file is left alone
LEMMA FileUnchanged ==
    ASSUME FileTypeOK, File, UNCHANGED fileVars, met => met'
    PROVE  FileTypeOK' /\ File'
BY DEF FileTypeOK, File, Alone, Closed, Sharing, fileVars

(***************************************************************************)
(* The lock                                                                *)
(***************************************************************************)

\* Waiting, taking the lock, and the probes (acquire_pipeline_lock,
\* PipelineLock.acquire, pipeline_running)
LEMMA TakeInv ==
    ASSUME Inv,
           \/ \E s \in Scripts : Start(s) \/ Acquire(s) \/ GiveUp(s)
           \/ \E c \in Clis : CliAcquire(c)
           \/ \E v \in Viewers : Probe(v) \/ ProbeEnds(v)
    PROVE  Inv'
<1>0. TypeOK /\ Held /\ Named /\ Beside /\ Status /\ File
  BY InvParts
<1>1. FileTypeOK' /\ File'
  BY <1>0, FileUnchanged DEF TypeOK, Start, Acquire, GiveUp, CliAcquire, Probe, ProbeEnds
<1>2. ASSUME NEW s \in Scripts, Start(s)
      PROVE  Inv'
  <2>1. /\ at[s] = "out" /\ lock # s
        /\ at' = [at EXCEPT ![s] = "wait"] /\ stage' = [stage EXCEPT ![s] = 1]
        /\ failed' = [failed EXCEPT ![s] = FALSE] /\ sigkilled' = sigkilled \ {s}
        /\ UNCHANGED <<lock, probing, named, child, monitor, met, place>>
    BY <1>2 DEF Start, Gone, lockVars, fileVars
  <2>2. s \in Owners /\ 1 \in 0..(StageCount + 1)
    BY Kinds
  <2>3. TypeOK'
    BY <1>0, <1>1, <2>1, <2>2 DEF TypeOK
  <2>4. Held' /\ Named' /\ Beside' /\ Status'
    BY <1>0, <2>1, <2>2, Kinds DEF TypeOK, Held, Named, Beside, Status
  <2> QED
    BY <1>1, <2>3, <2>4 DEF Inv
<1>3. ASSUME NEW o \in Owners, lock = NoOne, at[o] \in {"out", "wait"},
             lock' = o, at' = [at EXCEPT ![o] = "got"],
             UNCHANGED <<probing, named, stage, child, failed, monitor, sigkilled, met, place>>
      PROVE  Inv'
  <2>1. TypeOK'
    BY <1>0, <1>1, <1>3 DEF TypeOK
  <2>2. \A p \in Owners : at[p] \notin {"got", "run"}
    BY <1>0, <1>3 DEF Held
  <2>3. (\A s \in Scripts : ~child[s]) /\ (\A d \in Daily : monitor[d] = "off")
    BY <1>0, <1>3, Kinds DEF Held
  <2>4. Held' /\ Named' /\ Beside' /\ Status'
    BY <1>0, <1>3, <2>2, <2>3, Kinds DEF TypeOK, Held, Named, Beside, Status
  <2> QED
    BY <1>1, <2>1, <2>4 DEF Inv
<1>4. ASSUME NEW s \in Scripts, GiveUp(s)
      PROVE  Inv'
  <2>1. /\ at[s] = "wait" /\ at' = [at EXCEPT ![s] = "out"]
        /\ UNCHANGED <<lock, probing, named, stage, child, failed, monitor, sigkilled, met, place>>
    BY <1>4 DEF GiveUp, lockVars, fileVars
  <2>2. TypeOK'
    BY <1>0, <1>1, <2>1, Kinds DEF TypeOK
  <2>3. Held' /\ Named' /\ Beside' /\ Status'
    BY <1>0, <2>1, Kinds DEF TypeOK, Held, Named, Beside, Status
  <2> QED
    BY <1>1, <2>2, <2>3 DEF Inv
<1>5. ASSUME NEW v \in Viewers, Probe(v) \/ ProbeEnds(v)
      PROVE  Inv'
  BY <1>0, <1>1, <1>5 DEF Inv, TypeOK, Held, Named, Beside, Status, Probe, ProbeEnds, procVars, fileVars
<1>6. ASSUME NEW s \in Scripts, Acquire(s)
      PROVE  Inv'
  <2>1. /\ s \in Owners /\ lock = NoOne /\ at[s] \in {"out", "wait"}
        /\ lock' = s /\ at' = [at EXCEPT ![s] = "got"]
        /\ UNCHANGED <<probing, named, stage, child, failed, monitor, sigkilled, met, place>>
    BY <1>6, Kinds DEF Acquire, fileVars
  <2> QED
    BY <1>3, <2>1
<1>7. ASSUME NEW c \in Clis, CliAcquire(c)
      PROVE  Inv'
  <2>1. /\ c \in Owners /\ lock = NoOne /\ at[c] \in {"out", "wait"}
        /\ lock' = c /\ at' = [at EXCEPT ![c] = "got"]
        /\ UNCHANGED <<probing, named, stage, child, failed, monitor, sigkilled, met, place>>
    BY <1>7, Kinds DEF CliAcquire, fileVars
  <2> QED
    BY <1>3, <2>1
<1> QED
  BY <1>2, <1>4, <1>5, <1>6, <1>7

\* The holder writes its pid
LEMMA NameInv ==
    ASSUME Inv, NEW o \in Owners, NameHolder(o)
    PROVE  Inv'
<1>0. TypeOK /\ Held /\ Named /\ Beside /\ Status /\ File
  BY InvParts
<1>1. FileTypeOK' /\ File'
  BY <1>0, FileUnchanged DEF TypeOK, NameHolder
<1>2. /\ at[o] = "got" /\ named' = o /\ at' = [at EXCEPT ![o] = "run"]
      /\ UNCHANGED <<lock, probing, stage, child, failed, monitor, sigkilled, met, place>>
  BY DEF NameHolder, fileVars
<1>3. lock = o
  BY <1>0, <1>2 DEF Held
<1>4. TypeOK'
  BY <1>0, <1>1, <1>2 DEF TypeOK
<1>5. Held' /\ Named' /\ Beside' /\ Status'
  BY <1>0, <1>2, <1>3, Kinds DEF TypeOK, Held, Named, Beside, Status
<1> QED
  BY <1>1, <1>4, <1>5 DEF Inv

\* PipelineLock.release, and the end of a killed CLI
LEMMA CliEndsInv ==
    ASSUME Inv, NEW c \in Clis, CliEnds(c)
    PROVE  Inv'
<1>0. TypeOK /\ Held /\ Named /\ Beside /\ Status /\ File
  BY InvParts
<1>1. FileTypeOK' /\ File'
  BY <1>0, FileUnchanged DEF TypeOK, CliEnds
<1>2. /\ at[c] \in {"got", "run"} /\ lock' = NoOne /\ at' = [at EXCEPT ![c] = "out"]
      /\ UNCHANGED <<probing, named, stage, child, failed, monitor, sigkilled, met, place>>
  BY DEF CliEnds, fileVars
<1>3. lock = c
  BY <1>0, <1>2, Kinds DEF Held
<1>4. TypeOK'
  BY <1>0, <1>1, <1>2, Kinds DEF TypeOK
<1>5. Held' /\ Named' /\ Beside' /\ Status'
  BY <1>0, <1>2, <1>3, Kinds DEF TypeOK, Held, Named, Beside, Status
<1> QED
  BY <1>1, <1>4, <1>5 DEF Inv

(***************************************************************************)
(* The scripts                                                             *)
(***************************************************************************)

\* When the kernel drops the lock, nobody of that owner is left
LEMMA FreedWhenGone ==
    ASSUME NEW s \in Scripts, NEW a, NEW c, NEW m, NEW p
    PROVE  \/ Freed(s, a, c, m, p) = lock
           \/ /\ Freed(s, a, c, m, p) = NoOne /\ lock = s
              /\ a[s] \notin {"got", "run"} /\ ~c[s]
              /\ s \in Daily => m[s] = "off" /\ p["update"] = "idle"
BY DEF Freed, Inherited

\* update_discord_status, and the monitor's next refresh: no other status
\* process is under way
LEMMA LoadInv ==
    ASSUME Inv, NEW d \in Daily, Update(d) \/ Refresh(d)
    PROVE  Inv'
<1>0. TypeOK /\ Held /\ Named /\ Beside /\ Status /\ File
  BY InvParts
<1>1. PICK w \in Writers :
        /\ Load(w)
        /\ lock = d /\ (w = "update" => monitor[d] # "on") /\ (w = "refresh" => monitor[d] = "on")
  <2>1. CASE Update(d)
    BY <1>0, <2>1, Kinds DEF Update, Held, Beside
  <2>2. CASE Refresh(d)
    BY <1>0, <2>2, Kinds DEF Refresh, Held
  <2> QED
    BY <2>1, <2>2
<1>2. UNCHANGED <<lock, probing, named, at, stage, child, failed, monitor, sigkilled, met>>
  BY DEF Update, Refresh, lockVars, procVars
<1>3. /\ place[w] = "idle" /\ place' = [place EXCEPT ![w] = "loaded"]
      /\ UNCHANGED <<target, tmp, handle>>
  BY <1>1 DEF Load
<1>4. FileTypeOK'
  BY <1>0, <1>3 DEF TypeOK, FileTypeOK, Places
<1>5. TypeOK'
  BY <1>0, <1>2, <1>4 DEF TypeOK
<1>6. Held' /\ Named' /\ Beside'
  BY <1>0, <1>2 DEF Held, Named, Beside
<1>7. Status'
  BY <1>0, <1>1, <1>2, <1>3 DEF TypeOK, FileTypeOK, Status
<1>8. File'
  BY <1>0, <1>2, <1>3 DEF TypeOK, FileTypeOK, File, Alone, Closed, Sharing
<1> QED
  BY <1>5, <1>6, <1>7, <1>8 DEF Inv

\* A stage starts, with its monitor (start_status_monitor, run_stage)
LEMMA BeginStageInv ==
    ASSUME Inv, NEW s \in Scripts, BeginStage(s)
    PROVE  Inv'
<1>0. TypeOK /\ Held /\ Named /\ Beside /\ Status /\ File
  BY InvParts
<1>1. FileTypeOK' /\ File'
  BY <1>0, FileUnchanged DEF TypeOK, BeginStage
<1>2. /\ at[s] = "run" /\ ~child[s] /\ stage[s] <= LastStage(s)
      /\ s \in Daily => place["update"] = "idle"
      /\ child' = [child EXCEPT ![s] = TRUE]
      /\ monitor' = IF s \in Daily /\ stage[s] \in Monitored
                    THEN [monitor EXCEPT ![s] = "on"] ELSE monitor
      /\ UNCHANGED <<lock, probing, named, at, stage, failed, sigkilled, met, place>>
  BY DEF BeginStage, lockVars, fileVars
<1>3. lock = s /\ named = s
  BY <1>0, <1>2, Kinds DEF Held, Named
<1>4. monitor' \in [Daily -> {"off", "on", "late"}] /\ \A d \in Daily : d # s => monitor'[d] = monitor[d]
  BY <1>0, <1>2 DEF TypeOK
<1>5. TypeOK'
  BY <1>0, <1>1, <1>2, <1>4 DEF TypeOK
<1>6. Held' /\ Named'
  BY <1>0, <1>2, <1>3, <1>4, Kinds DEF TypeOK, Held, Named
<1>7. Beside'
  BY <1>0, <1>2, <1>4, Kinds DEF TypeOK, Beside
<1>8. Status'
  BY <1>0, <1>2, <1>3 DEF TypeOK, Status
<1> QED
  BY <1>1, <1>5, <1>6, <1>7, <1>8 DEF Inv

\* A stage ends and its monitor is stopped (run_stage, stop_status_monitor)
LEMMA EndStageInv ==
    ASSUME Inv, NEW s \in Scripts, EndStage(s)
    PROVE  Inv'
<1>0. TypeOK /\ Held /\ Named /\ Beside /\ Status /\ File
  BY InvParts
<1>1. /\ at[s] = "run" /\ child[s]
      /\ child' = [child EXCEPT ![s] = FALSE]
      /\ stage' = [stage EXCEPT ![s] = @ + 1]
      /\ UNCHANGED <<lock, probing, named, at, sigkilled, met, place>>
  BY DEF EndStage, lockVars, fileVars
<1>2. FileTypeOK' /\ File'
  BY <1>0, <1>1, FileUnchanged DEF TypeOK, EndStage
<1>3. PICK bad \in BOOLEAN : failed' = [failed EXCEPT ![s] = @ \/ bad]
  BY DEF EndStage
<1>4. lock = s /\ stage[s] <= LastStage(s)
  BY <1>0, <1>1 DEF Held
<1>5. /\ monitor' \in [Daily -> {"off", "on", "late"}]
      /\ \A d \in Daily : d # s => monitor'[d] = monitor[d]
      /\ s \in Daily =>
           /\ monitor'[s] # "on"
           /\ monitor'[s] # "off" => monitor[s] # "off"
           /\ place["refresh"] # "idle" /\ monitor[s] # "off" => monitor'[s] = "late"
  <2>1. CASE s \notin Daily
    BY <1>0, <2>1 DEF EndStage, TypeOK
  <2>2. CASE s \in Daily
    <3>1. PICK m \in Stopped(s) : monitor' = [monitor EXCEPT ![s] = m]
      BY <2>2 DEF EndStage
    <3>2. /\ m \in {"off", "late"} /\ (m # "off" => monitor[s] # "off")
          /\ place["refresh"] # "idle" /\ monitor[s] # "off" => m = "late"
      BY <1>0, <2>2, <3>1 DEF Stopped, TypeOK
    <3> QED
      BY <1>0, <2>2, <3>1, <3>2 DEF TypeOK
  <2> QED
    BY <2>1, <2>2
<1>6. TypeOK'
  <2>1. stage[s] + 1 \in 0..(StageCount + 1)
    BY <1>0, <1>4, Kinds DEF TypeOK
  <2>2. stage' \in [Scripts -> 0..(StageCount + 1)]
    BY <1>0, <1>1, <2>1 DEF TypeOK
  <2>3. failed' \in [Scripts -> BOOLEAN] /\ child' \in [Scripts -> BOOLEAN] /\ met' \in BOOLEAN
    BY <1>0, <1>1, <1>3 DEF TypeOK
  <2> QED
    BY <1>0, <1>1, <1>2, <1>5, <2>2, <2>3 DEF TypeOK
<1>7. Held' /\ Named' /\ Beside'
  BY <1>0, <1>1, <1>4, <1>5, Kinds DEF TypeOK, Held, Named, Beside
<1>8. Status'
  BY <1>0, <1>1, <1>4, <1>5 DEF Status
<1> QED
  BY <1>2, <1>6, <1>7, <1>8 DEF Inv

\* An owner whose last process with the descriptor may just have ended, or
\* not: the script ends or is killed, its stage or monitor ends
LEMMA LeaveInv ==
    ASSUME Inv, NEW s \in Scripts,
           \/ Finish(s) \/ KillScript(s) \/ OrphanEnds(s)
           \/ s \in Daily /\ LateEnds(s)
    PROVE  Inv'
<1>0. TypeOK /\ Held /\ Named /\ Beside /\ Status /\ File
  BY InvParts
<1>1. FileTypeOK' /\ File'
  BY <1>0, FileUnchanged DEF TypeOK, Finish, KillScript, OrphanEnds, LateEnds
<1>2. /\ at' = at \/ at' = [at EXCEPT ![s] = "out"]
      /\ \/ child' = child
         \/ child' = [child EXCEPT ![s] = FALSE] /\ at[s] = "out" /\ at' = at
      /\ \/ monitor' = monitor
         \/ /\ s \in Daily /\ monitor[s] = "late" /\ place["refresh"] = "idle"
            /\ monitor' = [monitor EXCEPT ![s] = "off"] /\ at' = at
      /\ sigkilled' \subseteq sigkilled \cup {s}
      /\ UNCHANGED <<probing, named, stage, failed, met, place>>
  <2>1. CASE Finish(s)
    BY <2>1 DEF Finish, fileVars
  <2>2. CASE KillScript(s)
    BY <2>2 DEF KillScript, fileVars
  <2>3. CASE OrphanEnds(s)
    BY <2>3 DEF OrphanEnds, fileVars
  <2>4. CASE s \in Daily /\ LateEnds(s)
    BY <2>4 DEF LateEnds, fileVars
  <2> QED
    BY <2>1, <2>2, <2>3, <2>4
<1>3. s \in Owners
  BY Kinds
<1>4. /\ at' \in [Owners -> {"out", "wait", "got", "run"}] /\ child' \in [Scripts -> BOOLEAN]
      /\ monitor' \in [Daily -> {"off", "on", "late"}]
  BY <1>0, <1>2 DEF TypeOK
<1>5. /\ \A o \in Owners : at'[o] = at[o] \/ at'[o] = "out"
      /\ \A t \in Scripts : child'[t] => child[t]
      /\ \A d \in Daily : monitor'[d] = monitor[d] \/ monitor'[d] = "off"
  BY <1>0, <1>2 DEF TypeOK
<1>6. \/ lock' = lock
      \/ /\ lock' = NoOne /\ lock = s
         /\ at'[s] \notin {"got", "run"} /\ ~child'[s]
         /\ s \in Daily => monitor'[s] = "off" /\ place["update"] = "idle"
  <2>1. CASE Finish(s)
    <3>1. lock' = Freed(s, at', child, monitor, place) /\ child' = child /\ monitor' = monitor
      BY <2>1 DEF Finish
    <3> QED
      BY <3>1, FreedWhenGone
  <2>2. CASE KillScript(s)
    <3>1. lock' = Freed(s, at', child, monitor, place) /\ child' = child /\ monitor' = monitor
      BY <2>2 DEF KillScript
    <3> QED
      BY <3>1, FreedWhenGone
  <2>3. CASE OrphanEnds(s)
    <3>1. lock' = Freed(s, at, child', monitor, place) /\ at' = at /\ monitor' = monitor
      BY <2>3 DEF OrphanEnds
    <3> QED
      BY <3>1, FreedWhenGone
  <2>4. CASE s \in Daily /\ LateEnds(s)
    <3>1. lock' = Freed(s, at, child, monitor', place) /\ at' = at /\ child' = child
      BY <2>4 DEF LateEnds
    <3> QED
      BY <3>1, FreedWhenGone
  <2> QED
    BY <2>1, <2>2, <2>3, <2>4
<1>7. TypeOK'
  BY <1>0, <1>1, <1>2, <1>4, <1>6 DEF TypeOK
<1>8. Held' /\ Named'
  BY <1>0, <1>2, <1>5, <1>6, Kinds DEF TypeOK, Held, Named
<1>9. Beside'
  BY <1>0, <1>2, <1>3, Kinds DEF TypeOK, Beside
<1>10. Status'
  <2>1. CASE lock' = lock /\ monitor' = monitor
    BY <1>0, <1>2, <2>1 DEF Status
  <2>2. CASE monitor' # monitor
    BY <1>0, <1>2, <1>5, <1>6, <2>2 DEF Status, Held, TypeOK
  <2>3. CASE lock' = NoOne /\ monitor' = monitor
    BY <1>0, <1>2, <1>6, <2>3 DEF Status
  <2> QED
    BY <1>6, <2>1, <2>2, <2>3
<1> QED
  BY <1>1, <1>7, <1>8, <1>9, <1>10 DEF Inv

\* A step of a status process: alone, it keeps the file whole (atomic_write_bytes)
LEMMA StatusStepInv ==
    ASSUME Inv, NEW w \in Writers, StatusStep(w)
    PROVE  Inv'
<1>0. TypeOK /\ Held /\ Named /\ Beside /\ Status /\ File
  BY InvParts
<1>1. /\ Open(w) \/ Fill(w) \/ Swap(w) \/ Fail(w)
      /\ lock' = IF lock \in Daily THEN Freed(lock, at, child, monitor, place') ELSE lock
      /\ UNCHANGED <<probing, named, at, stage, child, failed, monitor, sigkilled>>
      /\ met' = ((met \/ Sharing(place')) /\ (target' # "whole" \/ \E v \in Writers : place'[v] # "idle"))
  BY DEF StatusStep, WriterStep, Met, procVars
<1>2. /\ place[w] # "idle"
      /\ \E p \in Places : place' = [place EXCEPT ![w] = p]
  BY <1>1 DEF Open, Fill, Swap, Fail, Places
<1>3. FileTypeOK'
  <2>1. CASE Open(w)
    BY <1>0, <2>1 DEF TypeOK, FileTypeOK, Open, Texts, Places
  <2>2. CASE Fill(w)
    BY <1>0, <2>2 DEF TypeOK, FileTypeOK, Fill, Texts, Over, Places
  <2>3. CASE Swap(w)
    BY <1>0, <2>3 DEF TypeOK, FileTypeOK, Swap, Moved, Places
  <2>4. CASE Fail(w)
    BY <1>0, <2>4 DEF TypeOK, FileTypeOK, Fail, Places
  <2> QED
    BY <1>1, <2>1, <2>2, <2>3, <2>4
<1>4. lock' = lock \/ (/\ lock' = NoOne /\ lock \in Daily
                       /\ at[lock] \notin {"got", "run"} /\ ~child[lock]
                       /\ monitor[lock] = "off" /\ place'["update"] = "idle")
  BY <1>1, FreedWhenGone, Kinds
<1>5. TypeOK'
  BY <1>0, <1>1, <1>3, <1>4 DEF TypeOK
<1>6. Held' /\ Named' /\ Beside'
  BY <1>0, <1>1, <1>4, Kinds DEF TypeOK, Held, Named, Beside
<1>7. Status'
  BY <1>0, <1>1, <1>2, <1>4 DEF TypeOK, FileTypeOK, Status
<1>8. Closed'
  <2>1. CASE Open(w)
    BY <1>0, <2>1 DEF Open, File, Closed, TypeOK, FileTypeOK
  <2>2. CASE Fill(w)
    BY <1>0, <2>2 DEF Fill, File, Closed, TypeOK, FileTypeOK
  <2>3. CASE Swap(w)
    <3>1. /\ handle' = [[v \in Writers |-> Moved[handle[v]]] EXCEPT ![w] = "none"]
          /\ place' = [place EXCEPT ![w] = "idle"] /\ Moved["none"] = "none"
      BY <2>3 DEF Swap, Moved
    <3> QED
      BY <1>0, <3>1 DEF File, Closed, TypeOK, FileTypeOK
  <2>4. CASE Fail(w)
    BY <1>0, <2>4 DEF Fail, File, Closed, TypeOK, FileTypeOK
  <2> QED
    BY <1>1, <2>1, <2>2, <2>3, <2>4
<1>9. ASSUME target' = "whole", \A v \in Writers : place'[v] = "idle"
      PROVE  Alone'
  BY <1>9 DEF Alone, Sharing
<1>10. ASSUME ~met, ~Sharing(place')
       PROVE  Alone'
  <2>1. Alone
    BY <1>0, <1>10 DEF File
  <2>2. \A v \in Writers : v # w => place'[v] = place[v]
    BY <1>0, <1>2 DEF TypeOK, FileTypeOK
  <2>3. ASSUME {place[w], place'[w]} \cap {"open", "written"} # {}
        PROVE  \A v \in Writers : v # w => place[v] \in {"idle", "loaded"}
    BY <1>0, <1>10, <2>1, <2>2, <2>3 DEF Alone, Sharing, TypeOK, FileTypeOK, Places
  <2>4. CASE Open(w)
    <3>1. place'[w] = "open" /\ handle'[w] = "tmp" /\ tmp' = "empty" /\ target' = target
      BY <1>0, <2>4 DEF Open, TypeOK, FileTypeOK
    <3> QED
      BY <1>10, <2>1, <2>2, <2>3, <3>1 DEF Alone
  <2>5. CASE Fill(w)
    <3>1. /\ place[w] = "open" /\ place'[w] = "written" /\ handle[w] = "tmp"
          /\ tmp' = "whole" /\ target' = target /\ handle' = handle
      BY <1>0, <2>1, <2>5 DEF Fill, Alone, Over, TypeOK, FileTypeOK
    <3> QED
      BY <1>10, <2>1, <2>2, <2>3, <3>1 DEF Alone
  <2>6. CASE Swap(w)
    <3>1. place[w] = "written" /\ place'[w] = "idle" /\ target' = "whole"
      BY <1>0, <2>1, <2>6 DEF Swap, Alone, TypeOK, FileTypeOK
    <3>2. \A v \in Writers : place'[v] \in {"idle", "loaded"}
      BY <2>2, <2>3, <3>1
    <3> QED
      BY <1>10, <3>1, <3>2 DEF Alone
  <2>7. CASE Fail(w)
    <3>1. /\ place'[w] = "idle" /\ target' = target /\ tmp' = tmp
          /\ \A v \in Writers : v # w => handle'[v] = handle[v]
      BY <1>0, <2>7 DEF Fail, TypeOK, FileTypeOK
    <3> QED
      BY <1>10, <2>1, <2>2, <3>1 DEF Alone
  <2> QED
    BY <1>1, <2>4, <2>5, <2>6, <2>7
<1>11. File'
  BY <1>1, <1>8, <1>9, <1>10 DEF File
<1> QED
  BY <1>5, <1>6, <1>7, <1>11 DEF Inv

\* systemd stops the unit: all processes of the run go, wherever they are
LEMMA KillTreeInv ==
    ASSUME Inv, NEW s \in Scripts, KillTree(s)
    PROVE  Inv'
<1>0. TypeOK /\ Held /\ Named /\ Beside /\ Status /\ File
  BY InvParts
<1>1. /\ at' = [at EXCEPT ![s] = "out"] /\ child' = [child EXCEPT ![s] = FALSE]
      /\ monitor' = IF s \in Daily THEN [monitor EXCEPT ![s] = "off"] ELSE monitor
      /\ IF s \in Daily /\ lock = s THEN Drop(Writers) /\ Met ELSE UNCHANGED <<fileVars, met>>
      /\ lock' = Freed(s, at', child', monitor', place')
      /\ UNCHANGED <<probing, named, stage, failed, sigkilled>>
  BY DEF KillTree
<1>2. \/ /\ place' = [w \in Writers |-> "idle"] /\ handle' = [w \in Writers |-> "none"]
         /\ UNCHANGED <<target, tmp>> /\ s \in Daily /\ lock = s
         /\ met' = ((met \/ Sharing(place')) /\ (target' # "whole" \/ \E w \in Writers : place'[w] # "idle"))
      \/ UNCHANGED <<fileVars, met>> /\ ~(s \in Daily /\ lock = s)
  BY <1>1 DEF Drop, Met
<1>3. FileTypeOK' /\ File' /\ met' \in BOOLEAN
  <2>1. CASE UNCHANGED <<fileVars, met>>
    BY <1>0, <2>1, FileUnchanged DEF TypeOK
  <2>2. CASE /\ place' = [w \in Writers |-> "idle"] /\ handle' = [w \in Writers |-> "none"]
             /\ UNCHANGED <<target, tmp>>
             /\ met' = ((met \/ Sharing(place')) /\ (target' # "whole" \/ \E w \in Writers : place'[w] # "idle"))
    <3>1. FileTypeOK' /\ Closed' /\ ~Sharing(place')
      BY <1>0, <2>2 DEF TypeOK, FileTypeOK, Places, Closed, Sharing
    <3>2. met' \/ Alone'
      BY <1>0, <2>2, <3>1 DEF File, Alone
    <3> QED
      BY <2>2, <3>1, <3>2 DEF File
  <2> QED
    BY <1>2, <2>1, <2>2
<1>4. s \in Owners
  BY Kinds
<1>5. /\ at' \in [Owners -> {"out", "wait", "got", "run"}] /\ child' \in [Scripts -> BOOLEAN]
      /\ monitor' \in [Daily -> {"off", "on", "late"}]
      /\ at'[s] = "out" /\ ~child'[s] /\ (s \in Daily => monitor'[s] = "off")
      /\ \A o \in Owners : o # s => at'[o] = at[o]
      /\ \A t \in Scripts : t # s => child'[t] = child[t]
      /\ \A d \in Daily : d # s => monitor'[d] = monitor[d]
  BY <1>0, <1>1, <1>4 DEF TypeOK
<1>6. lock' = lock \/ (lock' = NoOne /\ lock = s)
  BY <1>1, FreedWhenGone
<1>7. TypeOK'
  BY <1>0, <1>1, <1>3, <1>5, <1>6 DEF TypeOK
<1>8. Held' /\ Named' /\ Beside'
  <2>1. /\ \A o \in Owners : at'[o] = at[o] \/ (o = s /\ at'[o] = "out")
        /\ \A t \in Scripts : child'[t] => child[t] /\ t # s
        /\ \A d \in Daily : monitor'[d] = "off" \/ (monitor'[d] = monitor[d] /\ d # s)
    BY <1>5
  <2>2. Held'
    BY <1>0, <1>1, <1>5, <1>6, <2>1, Kinds DEF Held
  <2>3. Named'
    BY <1>0, <1>1, <2>1, Kinds DEF Named
  <2>4. Beside'
    BY <1>0, <1>5, <2>1, Kinds DEF Beside
  <2> QED
    BY <2>2, <2>3, <2>4
<1>9. Status'
  <2>1. CASE s \in Daily /\ lock = s
    BY <1>2, <2>1 DEF Status
  <2>2. CASE ~(s \in Daily /\ lock = s)
    BY <1>0, <1>1, <1>2, <1>5, <1>6, <2>2 DEF Status, fileVars
  <2> QED
    BY <2>1, <2>2
<1> QED
  BY <1>3, <1>7, <1>8, <1>9 DEF Inv

LEMMA InvNext == Inv /\ [Next]_vars => Inv'
<1> SUFFICES ASSUME Inv, [Next]_vars PROVE Inv'
  OBVIOUS
<1>1. CASE UNCHANGED vars
  <2>1. TypeOK /\ Held /\ Named /\ Beside /\ Status /\ File
    BY InvParts
  <2>2. UNCHANGED <<lock, probing, named, at, stage, child, failed, monitor, sigkilled, met,
                    target, tmp, place, handle>>
    BY <1>1 DEF vars, lockVars, procVars, fileVars
  <2> QED
    BY <2>1, <2>2 DEF Inv, TypeOK, FileTypeOK, Held, Named, Beside, Status, File, Alone, Closed, Sharing
<1>2. ASSUME NEW s \in Scripts, Start(s) \/ ScriptStep(s) \/ KillScript(s) \/ KillTree(s)
      PROVE  Inv'
  BY <1>2, TakeInv, NameInv, BeginStageInv, EndStageInv, LeaveInv, KillTreeInv, Kinds DEF ScriptStep
<1>3. ASSUME NEW d \in Daily, Update(d) \/ Refresh(d) \/ LateEnds(d)
      PROVE  Inv'
  BY <1>3, LoadInv, LeaveInv, Kinds
<1>4. ASSUME NEW c \in Clis, CliAcquire(c) \/ NameHolder(c) \/ CliEnds(c)
      PROVE  Inv'
  BY <1>4, TakeInv, NameInv, CliEndsInv, Kinds
<1>5. ASSUME NEW v \in Viewers, Probe(v) \/ ProbeEnds(v)
      PROVE  Inv'
  BY <1>5, TakeInv
<1>6. ASSUME NEW w \in Writers, StatusStep(w)
      PROVE  Inv'
  BY <1>6, StatusStepInv
<1> QED
  BY <1>1, <1>2, <1>3, <1>4, <1>5, <1>6 DEF Next

(***************************************************************************)
(* Turns                                                                   *)
(***************************************************************************)

\* Something of the owner is alive that has the descriptor
Alive(o) ==
    \/ at[o] \in {"got", "run"}
    \/ o \in Scripts /\ child[o]
    \/ o \in Daily /\ (monitor[o] # "off" \/ place["update"] # "idle")

\* The lock is never left to nobody
Lives == lock # NoOne => Alive(lock)

\* The kernel keeps the lock only for a process with the descriptor
LEMMA KeptForProcess ==
    ASSUME NEW s \in Scripts, NEW a, NEW c, NEW m, NEW p, lock = s, Freed(s, a, c, m, p) # NoOne
    PROVE  \/ a[s] \in {"got", "run"} \/ c[s]
           \/ s \in Daily /\ (m[s] # "off" \/ p["update"] # "idle")
BY DEF Freed, Inherited

\* An ending of a process, the kill of a script, or of all that it started
LEMMA LivesWhenOneEnds ==
    ASSUME Inv, Lives, NEW s \in Scripts,
           \/ Finish(s) \/ KillScript(s) \/ OrphanEnds(s) \/ KillTree(s)
           \/ s \in Daily /\ LateEnds(s)
    PROVE  Lives'
<1>0. TypeOK /\ Status
  BY InvParts
<1>1. /\ lock' = Freed(s, at', child', monitor', place')
      /\ \A o \in Owners : o # s => at'[o] = at[o]
      /\ \A t \in Scripts : t # s => child'[t] = child[t]
      /\ \A d \in Daily : d # s => monitor'[d] = monitor[d]
      /\ place' = place \/ lock = s
  <2>1. CASE Finish(s)
    BY <1>0, <2>1 DEF Finish, TypeOK, fileVars
  <2>2. CASE KillScript(s)
    BY <1>0, <2>2 DEF KillScript, TypeOK, fileVars
  <2>3. CASE OrphanEnds(s)
    BY <1>0, <2>3 DEF OrphanEnds, TypeOK, fileVars
  <2>4. CASE KillTree(s)
    BY <1>0, <2>4 DEF KillTree, TypeOK, fileVars
  <2>5. CASE s \in Daily /\ LateEnds(s)
    BY <1>0, <2>5 DEF LateEnds, TypeOK, fileVars
  <2> QED
    BY <2>1, <2>2, <2>3, <2>4, <2>5
<1>2. CASE lock = s
  <2>1. lock' = NoOne \/ lock' = s
    BY <1>1, <1>2, FreedWhenGone
  <2>2. lock' # NoOne =>
          \/ at'[s] \in {"got", "run"} \/ child'[s]
          \/ s \in Daily /\ (monitor'[s] # "off" \/ place'["update"] # "idle")
    BY <1>1, <1>2, KeptForProcess
  <2> QED
    BY <2>1, <2>2 DEF Lives, Alive
<1>3. CASE lock # s
  <2>1. lock' = lock /\ place' = place
    BY <1>1, <1>3, FreedWhenGone
  <2>2. lock \in Owners \cup {NoOne}
    BY <1>0 DEF TypeOK
  <2> QED
    BY <1>1, <1>3, <2>1, <2>2 DEF Lives, Alive
<1> QED
  BY <1>2, <1>3

\* Any other step
LEMMA LivesElsewhere ==
    ASSUME Inv, Lives,
           \/ \E s \in Scripts : Start(s) \/ Acquire(s) \/ GiveUp(s) \/ BeginStage(s) \/ EndStage(s)
           \/ \E o \in Owners : NameHolder(o)
           \/ \E d \in Daily : Update(d) \/ Refresh(d)
           \/ \E c \in Clis : CliAcquire(c) \/ CliEnds(c)
           \/ \E v \in Viewers : Probe(v) \/ ProbeEnds(v)
           \/ \E w \in Writers : StatusStep(w)
    PROVE  Lives'
<1>0. TypeOK /\ Held /\ Status
  BY InvParts
<1>1. ASSUME NEW s \in Scripts, Start(s) \/ GiveUp(s)
      PROVE  Lives'
  <2>1. /\ UNCHANGED <<lock, child, monitor, place>>
        /\ at[s] \notin {"got", "run"}
        /\ \A o \in Owners : o # s => at'[o] = at[o]
    BY <1>0, <1>1 DEF Start, GiveUp, Gone, TypeOK, lockVars, fileVars
  <2>2. lock \in Owners \cup {NoOne}
    BY <1>0 DEF TypeOK
  <2> QED
    BY <2>1, <2>2 DEF Lives, Alive
<1>2. ASSUME NEW o \in Owners, lock' = o, at'[o] \in {"got", "run"}
      PROVE  Lives'
  BY <1>2 DEF Lives, Alive
<1>3. ASSUME NEW s \in Scripts, Acquire(s)
      PROVE  Lives'
  <2>1. s \in Owners /\ lock' = s /\ at'[s] = "got"
    BY <1>0, <1>3, Kinds DEF Acquire, TypeOK
  <2> QED
    BY <1>2, <2>1
<1>4. ASSUME NEW c \in Clis, CliAcquire(c)
      PROVE  Lives'
  <2>1. c \in Owners /\ lock' = c /\ at'[c] = "got"
    BY <1>0, <1>4, Kinds DEF CliAcquire, TypeOK
  <2> QED
    BY <1>2, <2>1
<1>5. ASSUME NEW o \in Owners, NameHolder(o)
      PROVE  Lives'
  <2>1. lock' = o /\ at'[o] = "run"
    BY <1>0, <1>5 DEF NameHolder, TypeOK, Held
  <2> QED
    BY <1>2, <2>1
<1>6. ASSUME NEW s \in Scripts, BeginStage(s) \/ EndStage(s)
      PROVE  Lives'
  <2>1. s \in Owners /\ at[s] = "run" /\ UNCHANGED <<lock, at>>
    BY <1>6, Kinds DEF BeginStage, EndStage, lockVars
  <2>2. lock' = s /\ at'[s] = "run"
    BY <1>0, <2>1 DEF Held
  <2> QED
    BY <1>2, <2>1, <2>2
<1>7. ASSUME NEW d \in Daily, Update(d) \/ Refresh(d)
      PROVE  Lives'
  <2>1. \E w \in Writers : Load(w)
    BY <1>7 DEF Update, Refresh
  <2>2. place["update"] # "idle" => place'["update"] # "idle"
    BY <1>0, <2>1 DEF Load, TypeOK, FileTypeOK
  <2>3. UNCHANGED <<lock, at, child, monitor>>
    BY <1>7 DEF Update, Refresh, lockVars, procVars
  <2> QED
    BY <2>2, <2>3 DEF Lives, Alive
<1>8. ASSUME NEW c \in Clis, CliEnds(c)
      PROVE  Lives'
  BY <1>8 DEF CliEnds, Lives
<1>9. ASSUME NEW v \in Viewers, Probe(v) \/ ProbeEnds(v)
      PROVE  Lives'
  BY <1>9 DEF Probe, ProbeEnds, Lives, Alive, procVars, fileVars
<1>10. ASSUME NEW w \in Writers, StatusStep(w)
       PROVE  Lives'
  <2>1. /\ WriterStep(w) /\ UNCHANGED <<at, child, monitor>>
        /\ lock' = IF lock \in Daily THEN Freed(lock, at, child, monitor, place') ELSE lock
    BY <1>10 DEF StatusStep, procVars
  <2>2. place[w] # "idle"
    BY <2>1 DEF WriterStep, Open, Fill, Swap, Fail
  <2>3. lock \in Daily
    BY <1>0, <2>2 DEF Status
  <2>4. PICK d \in Scripts : d = lock /\ d \in Daily
    BY <2>3, Kinds
  <2>5. lock' = Freed(d, at, child, monitor, place')
    BY <2>1, <2>4
  <2>6. lock' = NoOne \/ lock' = d
    BY <2>4, <2>5, FreedWhenGone
  <2>7. lock' # NoOne =>
          \/ at[d] \in {"got", "run"} \/ child[d]
          \/ monitor[d] # "off" \/ place'["update"] # "idle"
    BY <2>4, <2>5, KeptForProcess
  <2> QED
    BY <2>1, <2>4, <2>6, <2>7 DEF Lives, Alive
<1> QED
  BY <1>1, <1>3, <1>4, <1>5, <1>6, <1>7, <1>8, <1>9, <1>10

LEMMA LivesNext == Inv /\ Lives /\ [Next]_vars => Lives'
<1> SUFFICES ASSUME Inv, Lives, [Next]_vars PROVE Lives'
  OBVIOUS
<1>1. CASE UNCHANGED vars
  BY <1>1 DEF vars, lockVars, procVars, fileVars, Lives, Alive
<1>2. ASSUME NEW s \in Scripts, Start(s) \/ ScriptStep(s) \/ KillScript(s) \/ KillTree(s)
      PROVE  Lives'
  BY <1>2, LivesWhenOneEnds, LivesElsewhere, Kinds DEF ScriptStep
<1>3. ASSUME NEW d \in Daily, Update(d) \/ Refresh(d) \/ LateEnds(d)
      PROVE  Lives'
  BY <1>3, LivesWhenOneEnds, LivesElsewhere, Kinds
<1>4. ASSUME NEW c \in Clis, CliAcquire(c) \/ NameHolder(c) \/ CliEnds(c)
      PROVE  Lives'
  BY <1>4, LivesElsewhere, Kinds
<1>5. ASSUME NEW v \in Viewers, Probe(v) \/ ProbeEnds(v)
      PROVE  Lives'
  BY <1>5, LivesElsewhere
<1>6. ASSUME NEW w \in Writers, StatusStep(w)
      PROVE  Lives'
  BY <1>6, LivesElsewhere
<1> QED
  BY <1>1, <1>2, <1>3, <1>4, <1>5, <1>6 DEF Next

\* All processes of a turn are the holder's
Roles == {"main", "stage", "monitor", "status"}

LEMMA OfHolder == Inv => Processes \subseteq {lock} \X Roles /\ (lock = NoOne => Processes = {})
<1> SUFFICES ASSUME Inv
             PROVE  Processes \subseteq {lock} \X Roles /\ (lock = NoOne => Processes = {})
  OBVIOUS
<1>0. Held /\ Status
  BY InvParts
<1>1. \A o \in Owners : at[o] \in {"got", "run"} => o = lock /\ lock # NoOne
  BY <1>0 DEF Held
<1>2. \A s \in Scripts : child[s] => s = lock /\ lock # NoOne
  BY <1>0, Kinds DEF Held
<1>3. \A d \in Daily : monitor[d] # "off" => d = lock /\ lock # NoOne
  BY <1>0, Kinds DEF Held
<1>4. \A w \in Writers : place[w] # "idle" => lock # NoOne
  BY <1>0, Kinds DEF Status
<1> QED
  BY <1>1, <1>2, <1>3, <1>4 DEF Processes, Roles

\* And there is one as long as there is a holder
LEMMA SomeProcess == Inv /\ Lives /\ lock # NoOne => Processes # {}
<1> SUFFICES ASSUME Inv, Lives, lock # NoOne PROVE Processes # {}
  OBVIOUS
<1>1. lock \in Owners /\ Alive(lock)
  BY InvParts DEF TypeOK, Lives
<1>2. CASE at[lock] \in {"got", "run"}
  BY <1>1, <1>2 DEF Processes
<1>3. CASE lock \in Scripts /\ child[lock]
  BY <1>3 DEF Processes
<1>4. CASE lock \in Daily /\ monitor[lock] # "off"
  BY <1>4 DEF Processes
<1>5. CASE place["update"] # "idle"
  BY <1>5 DEF Processes
<1> QED
  BY <1>1, <1>2, <1>3, <1>4, <1>5 DEF Alive

\* The lock is granted to the first process of a turn; otherwise it stays or goes
LEMMA LockSteps ==
    ASSUME Inv, Next, lock' # lock
    PROVE  \/ lock' = NoOne
           \/ /\ lock = NoOne
              /\ \E o \in Owners :
                    /\ lock' = o /\ at' = [at EXCEPT ![o] = "got"]
                    /\ UNCHANGED <<child, monitor, place>>
<1>1. ASSUME NEW s \in Scripts, Start(s) \/ ScriptStep(s) \/ KillScript(s) \/ KillTree(s)
      PROVE  \/ lock' = NoOne
             \/ lock = NoOne /\ lock' = s /\ at' = [at EXCEPT ![s] = "got"]
                /\ UNCHANGED <<child, monitor, place>>
  <2>1. CASE Start(s) \/ GiveUp(s) \/ NameHolder(s) \/ BeginStage(s) \/ EndStage(s)
    BY <2>1 DEF Start, GiveUp, NameHolder, BeginStage, EndStage, lockVars
  <2>2. CASE Acquire(s)
    BY <2>2 DEF Acquire, fileVars
  <2>3. CASE Finish(s) \/ OrphanEnds(s) \/ KillScript(s) \/ KillTree(s)
    <3>1. lock' = Freed(s, at', child', monitor', place')
      BY <2>3 DEF Finish, OrphanEnds, KillScript, KillTree, fileVars
    <3> QED
      BY <3>1 DEF Freed
  <2> QED
    BY <1>1, <2>1, <2>2, <2>3 DEF ScriptStep
<1>2. ASSUME NEW d \in Daily, Update(d) \/ Refresh(d) \/ LateEnds(d)
      PROVE  lock' = NoOne
  <2>1. LateEnds(d)
    BY <1>2 DEF Update, Refresh, lockVars
  <2> QED
    BY <2>1 DEF LateEnds, Freed
<1>3. ASSUME NEW c \in Clis, CliAcquire(c) \/ NameHolder(c) \/ CliEnds(c)
      PROVE  \/ lock' = NoOne
             \/ lock = NoOne /\ lock' = c /\ at' = [at EXCEPT ![c] = "got"]
                /\ UNCHANGED <<child, monitor, place>>
  BY <1>3 DEF CliAcquire, NameHolder, CliEnds, fileVars
<1>4. ASSUME NEW v \in Viewers, Probe(v) \/ ProbeEnds(v)
      PROVE  FALSE
  BY <1>4 DEF Probe, ProbeEnds
<1>5. ASSUME NEW w \in Writers, StatusStep(w)
      PROVE  lock' = NoOne
  BY <1>5 DEF StatusStep, Freed
<1> QED
  BY <1>1, <1>2, <1>3, <1>4, <1>5, Kinds DEF Next

LEMMA TurnInit == Init => Turns!Init
<1> SUFFICES ASSUME Init PROVE Turns!Init
  OBVIOUS
<1>1. lock = NoOne
  BY DEF Init
<1>2. Inv
  BY InvInit
<1> QED
  BY <1>1, <1>2, OfHolder DEF Turns!Init

\* Every step begins a turn, ends it, or belongs to it
LEMMA TurnStep ==
    ASSUME Inv, Lives, Inv', Lives', Next
    PROVE  [Turns!Next]_(Turns!vars)
<1>1. Processes \subseteq {lock} \X Roles /\ (lock = NoOne => Processes = {})
  BY OfHolder
<1>2. Processes' \subseteq {lock'} \X Roles /\ (lock' = NoOne => Processes' = {})
  <2>1. (Inv => Processes \subseteq {lock} \X Roles /\ (lock = NoOne => Processes = {}))'
    BY OfHolder, PTL
  <2> QED
    BY <2>1 DEF Roles
<1>3. lock' # NoOne => Processes' # {}
  <2>1. (Inv /\ Lives /\ lock # NoOne => Processes # {})'
    BY SomeProcess, PTL
  <2> QED
    BY <2>1
<1> DEFINE now == Processes'
<1> HIDE DEF now
<1>4. CASE lock' = lock /\ lock # NoOne
  <2>1. PICK o : o = lock /\ o = lock'
    BY <1>4
  <2>2. now # {} /\ now \subseteq {o} \X Roles
    BY <1>2, <1>3, <1>4, <2>1 DEF now
  <2> QED
    BY <1>4, <2>1, <2>2 DEF Turns!Next, Turns!GoOn, Roles, now
<1>5. CASE lock' = lock /\ lock = NoOne
  BY <1>1, <1>2, <1>5 DEF Turns!vars
<1>6. CASE lock' # lock /\ lock' = NoOne
  BY <1>2, <1>6 DEF Turns!Next, Turns!Leave
<1>7. CASE lock' # lock /\ lock' # NoOne
  <2>1. PICK o \in Owners : /\ lock = NoOne /\ lock' = o /\ at' = [at EXCEPT ![o] = "got"]
                            /\ UNCHANGED <<child, monitor, place>>
    BY <1>7, LockSteps
  <2>2. at \in [Owners -> {"out", "wait", "got", "run"}] /\ Held /\ Status
    BY InvParts DEF TypeOK
  <2>3. \A p \in Owners : at'[p] \in {"got", "run"} <=> p = o
    BY <2>1, <2>2 DEF Held
  <2>4. /\ \A s \in Scripts : ~child'[s]
        /\ \A d \in Daily : monitor'[d] = "off"
        /\ \A w \in Writers : place'[w] = "idle"
    BY <2>1, <2>2, Kinds DEF Held, Status
  <2>5. now = {<<o, "main">>}
    BY <2>3, <2>4 DEF Processes, now
  <2>6. Turns!Enter(o)
    BY <2>1, <2>5 DEF Turns!Enter, now
  <2> QED
    BY <2>6 DEF Turns!Next
<1> QED
  BY <1>4, <1>5, <1>6, <1>7

\* What a killed script leaves running, with no loop to start more of it
Orphaned(s) == lock = s /\ at[s] = "out" /\ (s \in Daily => monitor[s] # "on")

OrphansOnlyEnd ==
    [][\A s \in Scripts : Orphaned(s) /\ lock' = s => Processes' \subseteq Processes]_vars

\* The steps that can happen in such a turn
LEMMA OrphanSteps ==
    ASSUME Inv, NEW s \in Scripts, Orphaned(s), Next, lock' = s
    PROVE  /\ \A o \in Owners : at'[o] \in {"got", "run"} => at[o] \in {"got", "run"}
           /\ \A t \in Scripts : child'[t] => child[t]
           /\ \A d \in Daily : monitor'[d] # "off" => monitor[d] # "off"
           /\ \A w \in Writers : place'[w] # "idle" => place[w] # "idle"
<1>0. TypeOK /\ Held
  BY InvParts
<1>1. lock = s /\ s \in Owners /\ lock # NoOne /\ at[s] = "out"
  BY Kinds DEF Orphaned
<1>2. \A o \in Owners : at[o] \notin {"got", "run"}
  BY <1>0, <1>1 DEF Held
<1>3. \A d \in Daily : monitor[d] # "on"
  BY <1>0, <1>1 DEF Held, Orphaned
<1>4. ASSUME NEW t \in Scripts, Start(t) \/ ScriptStep(t) \/ KillScript(t) \/ KillTree(t)
      PROVE  /\ \A o \in Owners : at'[o] \in {"got", "run"} => at[o] \in {"got", "run"}
             /\ \A x \in Scripts : child'[x] => child[x]
             /\ \A d \in Daily : monitor'[d] # "off" => monitor[d] # "off"
             /\ \A w \in Writers : place'[w] # "idle" => place[w] # "idle"
  <2>0. t \in Owners
    BY Kinds
  <2>1. ~Acquire(t) /\ ~NameHolder(t) /\ ~BeginStage(t) /\ ~EndStage(t) /\ ~Finish(t)
    BY <1>1, <1>2, <2>0 DEF Acquire, NameHolder, BeginStage, EndStage, Finish
  <2>2. CASE Start(t)
    BY <1>0, <2>0, <2>2 DEF Start, TypeOK, fileVars
  <2>3. CASE GiveUp(t)
    BY <1>0, <2>0, <2>3 DEF GiveUp, TypeOK, fileVars
  <2>4. CASE OrphanEnds(t)
    BY <1>0, <2>4 DEF OrphanEnds, TypeOK, fileVars
  <2>5. CASE KillScript(t)
    BY <1>0, <2>0, <2>5 DEF KillScript, TypeOK, fileVars
  <2>6. CASE KillTree(t)
    BY <1>0, <2>0, <2>6 DEF KillTree, TypeOK, fileVars, Drop
  <2> QED
    BY <1>4, <2>1, <2>2, <2>3, <2>4, <2>5, <2>6 DEF ScriptStep
<1>5. ASSUME NEW d \in Daily, Update(d) \/ Refresh(d) \/ LateEnds(d)
      PROVE  UNCHANGED <<at, child, place>> /\ monitor' = [monitor EXCEPT ![d] = "off"]
  BY <1>2, <1>3, <1>5, Kinds DEF Update, Refresh, LateEnds, fileVars
<1>6. ASSUME NEW c \in Clis, CliAcquire(c) \/ NameHolder(c) \/ CliEnds(c)
      PROVE  FALSE
  BY <1>1, <1>2, <1>6, Kinds DEF CliAcquire, NameHolder, CliEnds
<1>7. ASSUME NEW v \in Viewers, Probe(v) \/ ProbeEnds(v)
      PROVE  UNCHANGED <<at, child, monitor, place>>
  BY <1>7 DEF Probe, ProbeEnds, procVars, fileVars
<1>8. ASSUME NEW w \in Writers, StatusStep(w)
      PROVE  /\ UNCHANGED <<at, child, monitor>>
             /\ \A v \in Writers : place'[v] # "idle" => place[v] # "idle"
  <2>1. WriterStep(w) /\ UNCHANGED <<at, child, monitor>>
    BY <1>8 DEF StatusStep, procVars
  <2>2. place[w] # "idle" /\ \E p \in Places : place' = [place EXCEPT ![w] = p]
    BY <2>1 DEF WriterStep, Open, Fill, Swap, Fail, Places
  <2> QED
    BY <1>0, <2>1, <2>2 DEF TypeOK, FileTypeOK
<1> QED
  BY <1>0, <1>4, <1>5, <1>6, <1>7, <1>8 DEF Next, TypeOK

(***************************************************************************)
(* Theorems                                                                *)
(***************************************************************************)

LEMMA InvAlways == Spec => []Inv
BY InvInit, InvNext, PTL DEF Spec

\* Every process and file keeps its type
THEOREM PipelineTypeCorrect == Spec => []TypeOK
<1>1. Inv => TypeOK
  BY DEF Inv
<1> QED
  BY InvAlways, <1>1, PTL

\* One writer at a time, though stages never take the lock (PipelineLock)
THEOREM OneWriterAlways == Spec => []OneWriter
<1>1. Inv => OneWriter
  BY Kinds DEF Inv, Held, OneWriter, Working
<1> QED
  BY InvAlways, <1>1, PTL

\* The reported holder is the one that works (acquire_pipeline_lock, PipelineLock.acquire)
THEOREM HolderNamedAlways == Spec => []HolderNamed
<1>1. Inv => HolderNamed
  BY Kinds DEF Inv, Named, HolderNamed, Working
<1> QED
  BY InvAlways, <1>1, PTL

\* Readers find the status file whole, whatever is killed and whichever refresh outlives
\* its monitor, as long as it and an update do not have the temporary file open together
\* (atomic_write_bytes, discord_status.main)
THEOREM StatusWholeAlways == Spec => []StatusWhole
<1>1. Inv => StatusWhole
  BY InvParts DEF File, Alone, StatusWhole
<1> QED
  BY InvAlways, <1>1, PTL
\* The writers of data/ take turns: a turn begins when no process of an earlier
\* one is left and ends with its last process, whatever is killed
\* (PipelineLock, acquire_pipeline_lock and its inherited descriptor).
THEOREM TakeTurnsAlways == Spec => TakeTurns
<1>1. Init => Lives
  BY DEF Init, Lives
<1>2. Spec => []Lives
  BY <1>1, InvAlways, LivesNext, PTL DEF Spec
<1>3. Inv /\ Lives /\ Inv' /\ Lives' /\ [Next]_vars => [Turns!Next]_(Turns!vars)
  <2>1. ASSUME UNCHANGED vars PROVE UNCHANGED (Turns!vars)
    BY <2>1 DEF vars, lockVars, procVars, fileVars, Turns!vars, Processes
  <2> QED
    BY <2>1, TurnStep
<1> QED
  BY <1>2, <1>3, InvAlways, TurnInit, PTL DEF Spec, TakeTurns, Turns!Spec
\* Why the lock comes free after a SIGKILL of a script: nothing of its turn starts
\* anything any more, unless a monitor loops on. Its processes only end.
THEOREM OrphansOnlyEndAlways == Spec => OrphansOnlyEnd
<1>1. ASSUME Inv, Next, NEW s \in Scripts, Orphaned(s), lock' = s
      PROVE  Processes' \subseteq Processes
  <2>1. lock' = lock
    BY <1>1 DEF Orphaned
  <2> QED
    BY <1>1, <2>1, OrphanSteps DEF Processes
<1>2. Inv /\ [Next]_vars =>
        [\A s \in Scripts : Orphaned(s) /\ lock' = s => Processes' \subseteq Processes]_vars
  BY <1>1
<1> QED
  BY <1>2, InvAlways, PTL DEF Spec, OrphansOnlyEnd
=============================================================================
