--------------------------- MODULE DailyPipeline ---------------------------
(***************************************************************************)
(* The pipeline lock (lock.PipelineLock, lib_env.sh) and who runs under    *)
(* it: run_daily.sh with its stages and its Discord status monitor,        *)
(* rclone_backup.sh, CLIs started by hand, and the probe of progress.py.   *)
(*                                                                         *)
(* A flock belongs to an open file, not to a process. Descriptor 9 of a    *)
(* script is inherited by everything it starts, and the lock is free only  *)
(* when the last of them has exited; the descriptor of a Python CLI is not *)
(* inherited. A killed script leaves its children running.                 *)
(***************************************************************************)
EXTENDS AtomicFile

CONSTANTS
    Daily,        \* invocations of run_daily.sh
    Backups,      \* invocations of rclone_backup.sh on its own
    Clis,         \* CLIs started by hand
    Viewers,      \* invocations of progress.py
    StageCount,   \* stages of run_daily.sh
    Monitored,    \* stages during which the status monitor runs
    NoOne         \* no owner

Scripts == Daily \cup Backups
Owners  == Scripts \cup Clis

ASSUME PipelineAssumption ==
    /\ NoOne \notin Owners
    /\ Daily \cap Backups = {} /\ Scripts \cap Clis = {}
    /\ StageCount \in Nat \ {0}
    /\ Monitored \subseteq 1..StageCount
    /\ Writers = {"update", "refresh"}

VARIABLES
    lock,       \* owner of the open file with the exclusive lock
    probing,    \* viewers with the shared lock
    named,      \* whose pid is in pipeline.lock
    at,         \* the owner's own process (the shell, or the CLI)
    stage,      \* the stage a script is at
    child,      \* the stage (or rclone) is running
    failed,     \* failed_stages is not empty
    monitor,    \* the status monitor: its loop runs, or only its last command
    sigkilled,  \* history: scripts killed while their children lived on
    met         \* history: an update and a refresh shared the temporary file,
                \* and since then a writer is under way or the file is broken

lockVars == <<lock, probing, named>>
procVars == <<at, stage, child, failed, monitor>>
vars     == <<lockVars, procVars, sigkilled, met, fileVars>>

TypeOK ==
    /\ FileTypeOK
    /\ lock \in Owners \cup {NoOne} /\ named \in Owners \cup {NoOne}
    /\ probing \subseteq Viewers
    /\ at \in [Owners -> {"out", "wait", "got", "run"}]
    /\ stage \in [Scripts -> 0..(StageCount + 1)]
    /\ child \in [Scripts -> BOOLEAN]
    /\ failed \in [Scripts -> BOOLEAN]
    /\ monitor \in [Daily -> {"off", "on", "late"}]
    /\ sigkilled \subseteq Scripts
    /\ met \in BOOLEAN

Init ==
    /\ FileInit
    /\ lock = NoOne /\ named = NoOne /\ probing = {}
    /\ at = [o \in Owners |-> "out"]
    /\ stage = [s \in Scripts |-> 0]
    /\ child = [s \in Scripts |-> FALSE]
    /\ failed = [s \in Scripts |-> FALSE]
    /\ monitor = [d \in Daily |-> "off"]
    /\ sigkilled = {}
    /\ met = FALSE

-----------------------------------------------------------------------------
(* flock *)

LastStage(s) == IF s \in Daily THEN StageCount ELSE 1

\* Mutant of Inherited: the stage is started without descriptor 9
InheritedNotByStage(s, a, c, m, p) ==
    \/ a[s] \in {"got", "run"}
    \/ s \in Daily /\ (m[s] # "off" \/ p["update"] # "idle")

\* Descriptor 9 is open in the shell, the running stage, the monitor and a
\* status process.
Inherited(s, a, c, m, p) ==
    \/ a[s] \in {"got", "run"}
    \/ c[s]
    \/ s \in Daily /\ (m[s] # "off" \/ p["update"] # "idle")

\* The kernel drops the lock when the last process with the descriptor exits.
Freed(s, a, c, m, p) ==
    IF lock = s /\ ~Inherited(s, a, c, m, p) THEN NoOne ELSE lock

Gone(s) == at[s] = "out" /\ lock # s

\* acquire_pipeline_lock: flock -w. A shared lock keeps it waiting, too.
Acquire(s) ==
    /\ at[s] = "wait" /\ lock = NoOne /\ probing = {}
    /\ lock' = s
    /\ at' = [at EXCEPT ![s] = "got"]
    /\ UNCHANGED <<probing, named, stage, child, failed, monitor, sigkilled, met, fileVars>>

\* flock gives up after its seconds (30 for the run, six hours for a backup):
\* exit code 2. A probe is over long before that.
GiveUp(s) ==
    /\ at[s] = "wait" /\ lock # NoOne
    /\ at' = [at EXCEPT ![s] = "out"]
    /\ UNCHANGED <<lockVars, stage, child, failed, monitor, sigkilled, met, fileVars>>

\* The pid goes into the lock file once the lock is held, and the environment
\* variable that makes children skip the lock is exported.
NameHolder(o) ==
    /\ at[o] = "got"
    /\ named' = o
    /\ at' = [at EXCEPT ![o] = "run"]
    /\ UNCHANGED <<lock, probing, stage, child, failed, monitor, sigkilled, met, fileVars>>

\* PipelineLock.acquire in a CLI started by hand: LOCK_NB, refused (exit code
\* 2, no change) while anyone has the lock, a probing viewer included.
CliAcquire(c) ==
    /\ at[c] = "out" /\ lock = NoOne /\ probing = {}
    /\ lock' = c
    /\ at' = [at EXCEPT ![c] = "got"]
    /\ UNCHANGED <<probing, named, stage, child, failed, monitor, sigkilled, met, fileVars>>

\* PipelineLock.release, or the end of a killed CLI.
CliEnds(c) ==
    /\ at[c] \in {"got", "run"}
    /\ lock' = NoOne
    /\ at' = [at EXCEPT ![c] = "out"]
    /\ UNCHANGED <<probing, named, stage, child, failed, monitor, sigkilled, met, fileVars>>

\* pipeline_running: a shared lock for a moment, granted when nobody has the
\* exclusive one.
Probe(v) ==
    /\ v \notin probing /\ lock = NoOne
    /\ probing' = probing \cup {v}
    /\ UNCHANGED <<lock, named, procVars, sigkilled, met, fileVars>>

ProbeEnds(v) ==
    /\ v \in probing
    /\ probing' = probing \ {v}
    /\ UNCHANGED <<lock, named, procVars, sigkilled, met, fileVars>>

-----------------------------------------------------------------------------
(* run_daily.sh and rclone_backup.sh *)

\* Mutant of Start: the pid is written before the lock is held
StartNames(s) ==
    /\ Gone(s)
    /\ named' = s
    /\ at' = [at EXCEPT ![s] = "wait"]
    /\ stage' = [stage EXCEPT ![s] = 1]
    /\ failed' = [failed EXCEPT ![s] = FALSE]
    /\ sigkilled' = sigkilled \ {s}
    /\ UNCHANGED <<lock, probing, child, monitor, met, fileVars>>

Start(s) ==
    /\ Gone(s)
    /\ at' = [at EXCEPT ![s] = "wait"]
    /\ stage' = [stage EXCEPT ![s] = 1]
    /\ failed' = [failed EXCEPT ![s] = FALSE]
    /\ sigkilled' = sigkilled \ {s}
    /\ UNCHANGED <<lockVars, child, monitor, met, fileVars>>

\* update_discord_status: a process in the foreground, between stages.
Update(d) ==
    /\ at[d] = "run" /\ ~child[d] /\ place["update"] = "idle"
    /\ Load("update")
    /\ UNCHANGED <<lockVars, procVars, sigkilled, met>>

\* Mutant of BeginStage: one stage more than there are
BeginStagePastLast(s) ==
    /\ at[s] = "run" /\ ~child[s]
    /\ s \in Daily => place["update"] = "idle"
    /\ child' = [child EXCEPT ![s] = TRUE]
    /\ monitor' = IF s \in Daily /\ stage[s] \in Monitored
                  THEN [monitor EXCEPT ![s] = "on"] ELSE monitor
    /\ UNCHANGED <<lockVars, at, stage, failed, sigkilled, met, fileVars>>

\* start_status_monitor, and run_stage up to the start of its command. The
\* stage runs under the lock of the script.
BeginStage(s) ==
    /\ at[s] = "run" /\ ~child[s] /\ stage[s] <= LastStage(s)
    /\ s \in Daily => place["update"] = "idle"
    /\ child' = [child EXCEPT ![s] = TRUE]
    /\ monitor' = IF s \in Daily /\ stage[s] \in Monitored
                  THEN [monitor EXCEPT ![s] = "on"] ELSE monitor
    /\ UNCHANGED <<lockVars, at, stage, failed, sigkilled, met, fileVars>>

\* Mutant of Stopped: the monitor is not stopped
NotStopped(d) == {monitor[d]}

\* stop_status_monitor kills the loop and waits for it, not for the command
\* the loop was running (a refresh, or sleep).
Stopped(d) ==
    IF monitor[d] # "on" THEN {monitor[d]}
    ELSE IF place["refresh"] = "idle" THEN {"off", "late"} ELSE {"late"}

\* A stage ends, well or badly (run_stage only records it), and the monitor
\* is stopped.
EndStage(s) ==
    /\ at[s] = "run" /\ child[s]
    /\ \E bad \in BOOLEAN : failed' = [failed EXCEPT ![s] = @ \/ bad]
    /\ child' = [child EXCEPT ![s] = FALSE]
    /\ stage' = [stage EXCEPT ![s] = @ + 1]
    /\ IF s \in Daily
       THEN \E m \in Stopped(s) : monitor' = [monitor EXCEPT ![s] = m]
       ELSE UNCHANGED monitor
    /\ UNCHANGED <<lockVars, at, sigkilled, met, fileVars>>

\* The script ends after its last stage (exit code 1 when one failed), and
\* the EXIT trap has no monitor left to stop.
Finish(s) ==
    /\ at[s] = "run" /\ ~child[s] /\ stage[s] > LastStage(s)
    /\ s \in Daily => place["update"] = "idle"
    /\ at' = [at EXCEPT ![s] = "out"]
    /\ lock' = Freed(s, at', child, monitor, place)
    /\ UNCHANGED <<probing, named, stage, child, failed, monitor, sigkilled, met, fileVars>>

\* The monitor's loop runs the next refresh.
Refresh(d) ==
    /\ monitor[d] = "on"
    /\ Load("refresh")
    /\ UNCHANGED <<lockVars, procVars, sigkilled, met>>

\* What the history keeps: once they met, until no writer is left and the file is whole.
Met == met' = ((met \/ Sharing(place')) /\ (target' # "whole" \/ \E w \in Writers : place'[w] # "idle"))

\* One more step of a status process; it is the last one of a stopped monitor
\* that may still be writing when the next update starts.
StatusStep(w) ==
    /\ WriterStep(w)
    /\ Met
    /\ lock' = IF lock \in Daily THEN Freed(lock, at, child, monitor, place') ELSE lock
    /\ UNCHANGED <<probing, named, procVars, sigkilled>>

\* The last command of a stopped monitor ends.
LateEnds(d) ==
    /\ monitor[d] = "late" /\ place["refresh"] = "idle"
    /\ monitor' = [monitor EXCEPT ![d] = "off"]
    /\ lock' = Freed(d, at, child, monitor', place)
    /\ UNCHANGED <<probing, named, at, stage, child, failed, sigkilled, met, fileVars>>

\* SIGKILL of the script alone: no trap runs, its children live on.
KillScript(s) ==
    /\ at[s] \in {"wait", "got", "run"}
    /\ at' = [at EXCEPT ![s] = "out"]
    /\ lock' = Freed(s, at', child, monitor, place)
    /\ sigkilled' = IF lock' = s THEN sigkilled \cup {s} ELSE sigkilled
    /\ UNCHANGED <<probing, named, stage, child, failed, monitor, met, fileVars>>

\* The stage of a killed script ends.
OrphanEnds(s) ==
    /\ at[s] = "out" /\ child[s]
    /\ child' = [child EXCEPT ![s] = FALSE]
    /\ lock' = Freed(s, at, child', monitor, place)
    /\ UNCHANGED <<probing, named, at, stage, failed, monitor, sigkilled, met, fileVars>>

\* systemd stops the unit, or the machine goes down: every process of the run
\* is killed at once.
KillTree(s) ==
    /\ ~Gone(s)
    /\ at' = [at EXCEPT ![s] = "out"]
    /\ child' = [child EXCEPT ![s] = FALSE]
    /\ monitor' = IF s \in Daily THEN [monitor EXCEPT ![s] = "off"] ELSE monitor
    /\ IF s \in Daily /\ lock = s THEN Drop(Writers) /\ Met ELSE UNCHANGED <<fileVars, met>>
    /\ lock' = Freed(s, at', child', monitor', place')
    /\ UNCHANGED <<probing, named, stage, failed, sigkilled>>

ScriptStep(s) ==
    Acquire(s) \/ GiveUp(s) \/ NameHolder(s) \/ BeginStage(s) \/ EndStage(s) \/ Finish(s)
        \/ OrphanEnds(s)

Next ==
    \/ \E s \in Scripts : Start(s) \/ ScriptStep(s) \/ KillScript(s) \/ KillTree(s)
    \/ \E d \in Daily : Update(d) \/ Refresh(d) \/ LateEnds(d)
    \/ \E c \in Clis : CliAcquire(c) \/ NameHolder(c) \/ CliEnds(c)
    \/ \E v \in Viewers : Probe(v) \/ ProbeEnds(v)
    \/ \E w \in Writers : StatusStep(w)

Spec == Init /\ [][Next]_vars

\* Processes run on: a stage, a CLI, a post to Discord (15 seconds), sleep and
\* a probe end, and a script goes on to its next stage after finitely many
\* updates. Nothing is assumed about starts and kills.
FairSpec ==
    /\ Spec
    /\ \A s \in Scripts : /\ WF_vars(NameHolder(s)) /\ WF_vars(EndStage(s)) /\ WF_vars(OrphanEnds(s))
                          /\ SF_vars(BeginStage(s)) /\ SF_vars(Finish(s))
    /\ \A d \in Daily : SF_vars(LateEnds(d))
    /\ \A c \in Clis : WF_vars(NameHolder(c)) /\ WF_vars(CliEnds(c))
    /\ \A w \in Writers : WF_vars(StatusStep(w))

-----------------------------------------------------------------------------
(* Properties *)

\* Something of this owner writes to data/, or copies it.
Working(o) == IF o \in Scripts THEN child[o] ELSE at[o] = "run"

\* PipelineLock: one writer of market.db and the state files at a time, though
\* its stages never take the lock themselves, and also while a stage outlives
\* its killed script.
OneWriter == \A o, p \in Owners : Working(o) /\ Working(p) => o = p

\* The holder that a refused CLI reports is the one that works, however many
\* tried in between.
HolderNamed == \A o \in Owners : Working(o) => named = o

\* Readers of discord_status.json find a whole file at every moment, through
\* kills, refreshes that outlive their monitor and the updates beside them. Only
\* after an update and a refresh had the temporary file open together may it be
\* empty or mixed: until both have ended if the last one repairs it, else for good.
StatusWhole == target # "whole" => met

\* The processes that belong to a turn under the lock: the shell or CLI, the
\* stage or rclone, the monitor, and status processes.
Processes ==
    {<<o, "main">> : o \in {x \in Owners : at[x] \in {"got", "run"}}}
        \cup {<<s, "stage">> : s \in {x \in Scripts : child[x]}}
        \cup {<<d, "monitor">> : d \in {x \in Daily : monitor[x] # "off"}}
        \cup {<<lock, "status">> : w \in {x \in Writers : place[x] # "idle"}}

Turns == INSTANCE PipelineTurns
    WITH Roles <- {"main", "stage", "monitor", "status"}, holder <- lock, live <- Processes

\* Whichever processes are killed, and whatever they leave running: a new owner gets
\* the lock only when nothing of the last one is left, and the lock is free from that
\* moment on. A killed run leaves neither a second writer nor a lock without a process.
TakeTurns == Turns!Spec

\* Whatever happens to its processes, an owner gives the lock back, unless its
\* script was killed while a monitor went on.
LockComesFree ==
    \A o \in Owners : (lock = o) ~> (lock # o \/ (o \in sigkilled \cap Daily /\ monitor[o] = "on"))
=============================================================================
