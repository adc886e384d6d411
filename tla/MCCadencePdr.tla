---------------------------- MODULE MCCadencePdr ----------------------------
(***************************************************************************)
(* A small instance of CadencePdr for TLC, and what a comment of the       *)
(* tracker says of the packet after a reboot.                              *)
(***************************************************************************)
EXTENDS CadencePdr

OneFlow   == {"device"}
Intervals == [f \in Flow |-> 2]
Windows   == [f \in Flow |-> 6]

\* No thread is preempted: neither clock nor sweep moves while a packet is
\* being handled.
UnpreemptedSpec ==
    Init /\ [][Next /\ (held # Idle => clock' = clock /\ sweptAt' = sweptAt)]_vars

\* mesh_receiver.py:86: the first packet after a reboot "is scored as neither
\* early nor late whatever dt says": whatever was charged while it was awaited
\* is off the books once it arrives.
RebootPacketNotJudged ==
    [][\A f \in DOMAIN flows \cap DOMAIN flows' :
          flows[f].restart /\ ~flows'[f].restart =>
              flows'[f].missed = flows[f].missed - flows[f].charged]_vars
=============================================================================
