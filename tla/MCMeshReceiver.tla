--------------------------- MODULE MCMeshReceiver ---------------------------
(***************************************************************************)
(* Small instances of MeshReceiver for TLC, and what needs fairness or the *)
(* end of the bounded clock to be stated.                                  *)
(***************************************************************************)
EXTENDS MeshReceiver

OneNode      == {"node-1"}
KindsOfNode  == [n \in Node |-> {"device", "position"}]
FlowsOfNodes == UNION {{n} \X Kinds[n] : n \in Node}
Intervals    == [f \in Flow |-> IF f[2] = "position" THEN 3 ELSE 2]
Windows      == [f \in Flow |-> 6]

\* The bound on the clock ends time, not the sweeps: a listen loop that has done
\* every sweep due by then, and is armed for one to come, gets to do that one.
SweepAtTheEnd ==
    /\ clock = MaxClock
    /\ nextSweep \in clock + 1 .. clock + SweepSec
    /\ SweepDue
    /\ UNCHANGED <<receiver, mesh, past>>

\* Time and the listen loop go on; nothing is assumed of the receive thread,
\* nor of the mesh but that a node that is up sends what is due.
SilenceSpec ==
    /\ MeshInit
    /\ [][MeshNext \/ SweepAtTheEnd]_allVars
    /\ WF_allVars(MeshTick)
    /\ WF_allVars(\E f \in Flow : Broadcast(f))
    /\ WF_allVars(ListenWakes \/ SweepAtTheEnd)
    /\ WF_allVars(ListenSweeps)

\* A node that fell silent becomes visible: every interval of its silence is
\* charged in the end, whatever the receive thread does (unless the gateway
\* restarts and forgets that it ever heard the node).
SilenceIsCharged ==
    \A f \in Flow :
        <>[](f \in DOMAIN flows =>
                flows[f].charged = Due(f, flows[f].last, MaxClock))

\* mesh_receiver.py:356: "the downtime affected every flow, so the reboot is
\* applied node-wide".  With every packet heard, the losses the downtime put
\* on the flows of a node are gone once its reboot has been applied.
RebootErasesDowntime ==
    [][\A n \in Node \ lost :
          refunds # {} /\ refunds \subseteq FlowsOf(n) /\ refunds' = {} =>
              \A f \in (FlowsOf(n) \cap DOMAIN flows') \ disturbed :
                  flows'[f].missed = 0]_allVars
=============================================================================
