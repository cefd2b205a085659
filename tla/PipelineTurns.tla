--------------------------- MODULE PipelineTurns ---------------------------
(***************************************************************************)
(* What the writers of data/ are promised about the pipeline lock: they    *)
(* take turns. A turn begins when nothing of an earlier one is left, it    *)
(* has processes of one owner only, and it ends in the same step as the    *)
(* last of them ("The kernel releases it when the process tree holding     *)
(* fd 9 exits", lib_env.sh), however they end.                             *)
(*                                                                         *)
(* DailyPipeline implements this specification.                            *)
(***************************************************************************)
CONSTANTS
    Owners,     \* who may take a turn
    Roles,      \* what a process of a turn does
    NoOne       \* no owner

VARIABLES
    holder,     \* whose turn it is
    live        \* the processes of the turn: <<owner, role>>

vars == <<holder, live>>

Init == holder = NoOne /\ live = {}

\* acquire_pipeline_lock, PipelineLock.acquire: one process begins
Enter(o) ==
    /\ holder = NoOne
    /\ holder' = o
    /\ \E role \in Roles : live' = {<<o, role>>}

\* Processes of the turn start and end, or are killed, and one is left
GoOn ==
    /\ holder # NoOne
    /\ live' # {} /\ live' \subseteq {holder} \X Roles
    /\ UNCHANGED holder

\* With the last process the lock goes
Leave ==
    /\ holder # NoOne
    /\ holder' = NoOne /\ live' = {}

Next == (\E o \in Owners : Enter(o)) \/ GoOn \/ Leave

Spec == Init /\ [][Next]_vars
=============================================================================
