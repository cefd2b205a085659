-------------------------- MODULE SnapshotContract --------------------------
(***************************************************************************)
(* What stockpred is promised about market_snapshot.db, the only file it   *)
(* opens: the file changes in one step, from one recorded copy to the next *)
(* (os.replace), and a copy recorded "complete" holds the session bar,     *)
(* adj_close and split history of every core symbol, except of symbols     *)
(* whose bookkeeping an earlier step of the system has lost.               *)
(*                                                                         *)
(* CoreCollection implements this specification.                           *)
(***************************************************************************)
CONSTANT Symbols

VARIABLES
    snap,       \* the published copy: is it complete, and the core symbols it is wrong about
    offered,    \* a copy recorded in market.db and not published yet, or Nothing
    excused     \* symbols whose bookkeeping has been lost

Copy    == [complete : BOOLEAN, broken : SUBSET Symbols]
Nothing == [complete |-> FALSE, broken |-> {}]

vars == <<snap, offered, excused>>

Init == snap = Nothing /\ offered = <<>> /\ excused = {}

\* create_snapshot commits its collection_runs row
Offer ==
    /\ offered = <<>>
    /\ \E copy \in Copy :
          /\ copy.complete => copy.broken \subseteq excused
          /\ offered' = <<copy>>
    /\ UNCHANGED <<snap, excused>>

\* os.replace puts the verified copy in place
Publish ==
    /\ offered # <<>>
    /\ snap' = offered[1]
    /\ offered' = <<>>
    /\ UNCHANGED excused

\* The process dies before it has replaced the file: readers keep the old copy
Withdraw ==
    /\ offered # <<>>
    /\ offered' = <<>>
    /\ UNCHANGED <<snap, excused>>

\* Collection goes on between snapshots, never while one is copied
Collect ==
    /\ offered = <<>>
    /\ excused' \in SUBSET Symbols
    /\ UNCHANGED <<snap, offered>>

Next == Offer \/ Publish \/ Withdraw \/ Collect

Spec == Init /\ [][Next]_vars
=============================================================================
