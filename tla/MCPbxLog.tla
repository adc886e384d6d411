------------------------------ MODULE MCPbxLog ------------------------------
(***************************************************************************)
(* A small instance of PbxLog for TLC, and its liveness.                   *)
(***************************************************************************)
EXTENDS PbxLog

\* The collector's loop goes on and a lost port comes back.
LoopSpec ==
    /\ Spec
    /\ WF_vars(Tick)
    /\ WF_vars(FeedLine)
    /\ WF_vars(FeedNone)
    /\ WF_vars(Opens /\ Port)

\* The counters are dumped again and again, also while the PBX is silent.
CountersKeepComing == [](clock >= tracker.next => <>(clock < tracker.next))
=============================================================================
