---------------------------- MODULE MeshReceiver ----------------------------
(***************************************************************************)
(* MeshReceiver of src/gateway/mesh_receiver.py around the cadence tracker *)
(* (CadencePdr, whose every step this module constrains): which packets    *)
(* are accepted, which reports of uptime count as a reboot, when the       *)
(* listen loop sweeps.  The mesh is the environment: nodes broadcast each  *)
(* kind on its cadence, crash and boot, and their packets are heard late,  *)
(* more than once, or never.                                               *)
(***************************************************************************)
EXTENDS CadencePdr, SequencesExt

CONSTANTS Node,        \* known_nodes
          Kinds,       \* the kinds each node declares a cadence for
          SeenMax,     \* SEEN_MAX
          SweepSec,    \* sweep_interval_sec
          MaxDelay,    \* how long a packet can still be heard after sending
          MaxFirst,    \* latest first broadcast of a flow after a boot
          MaxCrashes,  \* bound on crashes of nodes
          RelayUntil   \* bound: PBX messages are relayed before this time only

ASSUME MeshAssumption ==
    /\ Kinds \in [Node -> SUBSET {"device", "environment", "position"}]
    /\ Flow = UNION {{n} \X Kinds[n] : n \in Node}
    /\ SeenMax \in Nat \ {0} /\ SweepSec \in Nat \ {0}
    /\ MaxDelay \in Nat /\ MaxFirst \in Nat \ {0} /\ MaxCrashes \in Nat
    /\ RelayUntil \in Nat

VARIABLES seen,        \* seen_ids
          uptime,      \* _uptime: last uptimeSeconds of each node, or Off
          nextSweep,   \* next_sweep of listen()
          \* The mesh:
          bootAt,      \* when each node booted, or Off
          dueAt,       \* when each flow of a node broadcasts next
          air,         \* packets that can still be heard
          crashes,
          \* History:
          accepted,    \* ids of the packets accepted, in order
          lost,        \* nodes with a packet that was never accepted
          unreported,  \* nodes with no device report accepted since they booted
          unnoticed    \* nodes with a boot that went unnoticed when first heard of

receiver == <<seen, uptime, nextSweep>>
mesh     == <<bootAt, dueAt, air, crashes>>
past     == <<accepted, lost, unreported, unnoticed>>
allVars  == <<vars, receiver, mesh, past>>

Off == -1
FlowsOf(n)  == {f \in Flow : f[1] = n}
Sender(p)   == p.id[1][1]
KindOf(p)   == p.id[1][2]
SentAt(p)   == p.id[2]
NewPacket(n, k, up) == [id |-> <<<<n, k>>, clock>>, uptime |-> up]
-----------------------------------------------------------------------------
MeshInit ==
    /\ Init
    /\ seen = <<>>
    /\ uptime = [n \in Node |-> Off]
    /\ nextSweep = SweepSec
    /\ bootAt = [n \in Node |-> 0]
    /\ dueAt \in [Flow -> 0 .. 1]
    /\ air = {}
    /\ crashes = 0
    /\ accepted = <<>>
    /\ lost = {} /\ unreported = {} /\ unnoticed = {}

\* The mesh ---------------------------------------------------------------
\* Time passes once every broadcast that is due has been sent; what has been
\* in the air too long can no longer be heard.
Gone(p) == SentAt(p) + MaxDelay <= clock

MeshTick ==
    /\ Tick
    /\ \A f \in Flow : bootAt[f[1]] # Off => dueAt[f] > clock
    /\ air' = {p \in air : ~Gone(p)}
    /\ lost' = lost \cup {Sender(p) : p \in
                    {q \in air : Gone(q) /\ ~Contains(accepted, q.id)}}
    /\ UNCHANGED <<receiver, bootAt, dueAt, crashes, accepted, unreported, unnoticed>>

Broadcast(f) ==
    /\ bootAt[f[1]] # Off
    /\ dueAt[f] = clock
    /\ dueAt' = [dueAt EXCEPT ![f] = @ + Interval[f]]
    /\ air' = air \cup {NewPacket(f[1], f[2], clock - bootAt[f[1]])}
    /\ UNCHANGED <<vars, receiver, bootAt, crashes, past>>

\* A node also relays PBX messages, which belong to no flow.
RelayMessage(n) ==
    /\ clock < RelayUntil
    /\ bootAt[n] # Off
    /\ air' = air \cup {NewPacket(n, "message", 0)}
    /\ UNCHANGED <<vars, receiver, bootAt, dueAt, crashes, past>>

Crash(n) ==
    /\ bootAt[n] # Off
    /\ crashes < MaxCrashes
    /\ crashes' = crashes + 1
    /\ bootAt' = [bootAt EXCEPT ![n] = Off]
    /\ UNCHANGED <<vars, receiver, dueAt, air, past>>

\* A boot takes longer than a packet stays in the air.
Boot(n) ==
    /\ bootAt[n] = Off
    /\ \A p \in air : Sender(p) # n
    /\ bootAt' = [bootAt EXCEPT ![n] = clock]
    /\ \E first \in [FlowsOf(n) -> 1 .. MaxFirst] :
          dueAt' = [f \in Flow |-> IF f \in FlowsOf(n) THEN clock + first[f]
                                   ELSE dueAt[f]]
    /\ unreported' = unreported \cup {n}
    /\ UNCHANGED <<vars, receiver, air, crashes, accepted, lost, unnoticed>>

\* The receiver -----------------------------------------------------------
\* _is_valid(): a known sender, and an id not among the last SeenMax.
IsValid(p) == Sender(p) \in Node /\ ~Contains(seen, p.id)

\* Mutant: the window is one id short.
Remembered_OneShort(id) ==
    LET all == Append(seen, id)
    IN  SubSeq(all, AtLeast(0, Len(all) - (SeenMax - 1)) + 1, Len(all))

Remembered(id) ==
    LET all == Append(seen, id)
    IN  SubSeq(all, AtLeast(0, Len(all) - SeenMax) + 1, Len(all))

\* Mutant: any change of uptime counts as a reboot.
Rebooted_AnyChange(p) == KindOf(p) = "device" /\ p.uptime # uptime[Sender(p)]

\* _note_uptime(): a report below the last one means the node rebooted.  Off
\* is below every report, so a first report never does.
Rebooted(p) == KindOf(p) = "device" /\ p.uptime < uptime[Sender(p)]

OnReceive(p) ==
    LET n == Sender(p)
    IN  /\ IsValid(p)
        /\ seen' = Remembered(p.id)
        /\ uptime' = IF KindOf(p) = "device"
                     THEN [uptime EXCEPT ![n] = p.uptime] ELSE uptime
        /\ refunds' = IF Rebooted(p) THEN FlowsOf(n) ELSE {}
        /\ scores' = {p.id[1]} \cap Flow
        /\ Receive
        /\ accepted' = Append(accepted, p.id)
        /\ unreported' = IF KindOf(p) = "device"
                         THEN unreported \ {n} ELSE unreported
        /\ unnoticed' = IF n \in unreported /\ ~Rebooted(p)
                        THEN unnoticed \cup {n} ELSE unnoticed
        /\ UNCHANGED <<nextSweep, mesh, lost>>

\* Re-anchoring, scoring and dropping the packet are the tracker's steps.
HandlePacket ==
    /\ \/ \E f \in Flow : RefundStep(f) \/ ScoreStep(f)
       \/ Handled
    /\ UNCHANGED <<receiver, mesh, past>>

\* Mutant: a loop that wakes past the time does not sweep any more.
ListenWakes_OnTheDot ==
    /\ clock = nextSweep
    /\ nextSweep' = clock + SweepSec
    /\ SweepDue
    /\ UNCHANGED <<seen, uptime, mesh, past>>

\* listen(): the loop wakes, and sweeps when the time has come.
ListenWakes ==
    /\ clock >= nextSweep
    /\ nextSweep' = clock + SweepSec
    /\ SweepDue
    /\ UNCHANGED <<seen, uptime, mesh, past>>

ListenSweeps ==
    /\ RunSweep
    /\ UNCHANGED <<receiver, mesh, past>>

GatewayRestart ==
    /\ Restart
    /\ seen' = <<>>
    /\ uptime' = [n \in Node |-> Off]
    /\ nextSweep' = clock + SweepSec
    /\ accepted' = <<>>
    /\ UNCHANGED <<mesh, lost, unreported, unnoticed>>

MeshNext ==
    \/ MeshTick
    \/ \E f \in Flow : Broadcast(f)
    \/ \E n \in Node : RelayMessage(n) \/ Crash(n) \/ Boot(n)
    \/ \E p \in air : OnReceive(p)
    \/ HandlePacket
    \/ ListenWakes
    \/ ListenSweeps
    \/ GatewayRestart

MeshSpec == MeshInit /\ [][MeshNext]_allVars

-----------------------------------------------------------------------------
\* A packet that the mesh repeats is handled once, unless at least SeenMax
\* other packets (of any node, PBX messages included) came in between.
AcceptedOnce ==
    \A i, j \in DOMAIN accepted :
        i < j /\ accepted[i] = accepted[j] => j - i > SeenMax

\* Downtime is not radio loss: while every packet a node sent was heard and
\* each of its reboots was noticed from the first packet heard of it, no flow
\* of that node, of any kind, has a loss beyond the gap still open.
NoFalseLoss ==
    \A f \in DOMAIN flows \ disturbed :
        f[1] \notin lost \cup unnoticed => flows[f].missed = flows[f].charged

\* A refund is never granted without a reboot: the node has booted since its
\* last report was heard.
RefundsNeedAReboot ==
    [][\A n \in Node : refunds' \cap FlowsOf(n) # {} /\ refunds = {}
                           => n \in unreported]_allVars

\* When the reboot has been handled, no flow of the node is left on the old
\* grid: each one waits for its first packet or has begun a new grid with it.
RebootIsNodeWide ==
    [][\A n \in Node :
          refunds # {} /\ refunds \subseteq FlowsOf(n) /\ refunds' = {} =>
              \A f \in FlowsOf(n) \cap DOMAIN flows' :
                  flows'[f].restart /\ flows'[f].last = held]_allVars
=============================================================================
