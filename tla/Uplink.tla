------------------------------- MODULE Uplink -------------------------------
(***************************************************************************)
(* From the gateway's books to the database: the two threads of            *)
(* src/gateway/mesh_receiver.py that publish, the client of                *)
(* src/gateway/mqtt_connector.py with the queue paho keeps for it, and,    *)
(* from telegraf.conf, the broker's one consumer and the points it writes. *)
(* A flow's books are reduced to the number of its last snapshot; records  *)
(* are named by the order of their publish().                              *)
(***************************************************************************)
EXTENDS Integers, Sequences, FiniteSets, Functions

CONSTANTS Flow,         \* flows with a cadence: heard, and swept while silent
          SweepSec,     \* sweep_interval_sec
          MaxInflight,  \* paho: max_inflight_messages
          MaxClock,     \* bound on the wall clock, in seconds
          MaxRecords,   \* bound on snapshots taken of each flow
          MaxFaults     \* bound on faults of the broker, links and processes

ASSUME UplinkAssumption ==
    /\ SweepSec \in Nat \ {0} /\ MaxInflight \in Nat \ {0}
    /\ MaxClock \in Nat /\ MaxRecords \in Nat /\ MaxFaults \in Nat

VARIABLES clock,
          phase,      \* of the gateway: "down", "connecting" or "running"
          \* MeshReceiver:
          books,      \* number of the last snapshot of each flow
          hand,       \* the record the receive thread works on, {} if it has none
          charges,    \* the records a sweep has still to publish
          swept,      \* received_at of the sweep under way, or Off
          nextSweep,  \* next_sweep of listen()
          \* MQTTConnector and paho:
          event,      \* _connected_event
          sock,       \* "none", "dialing" (CONNECT sent), "open" (CONNACK seen)
          records,    \* every record given to publish(), in order
          out,        \* paho's _out_messages: published, not acknowledged
          sent,       \* those of out on their way, awaiting the PUBACK
          \* Broker and link:
          brokerUp, linked, wire, acks,
          \* Telegraf and InfluxDB:
          listening,  \* Telegraf is connected and subscribed
          buffer,     \* what Telegraf has not flushed yet
          stored,     \* the database: the record last written at each point
          \* History:
          lost,       \* snapshots gone with a process, or with no one listening
          faults

receiver == <<phase, books, hand, charges, swept, nextSweep>>
client   == <<event, sock, records, out, sent>>
net      == <<brokerUp, linked, wire, acks>>
telegraf == <<listening, buffer, stored>>
vars     == <<clock, receiver, client, net, telegraf, lost, faults>>

Off == -1
Record(f, source, at, v) == [flow |-> f, source |-> source, at |-> at, v |-> v]
Names == DOMAIN records
Fault == faults < MaxFaults /\ faults' = faults + 1

\* A record: the payload's flow, its topic (that of the flow, or `pdr'), its
\* received_at, and the snapshot it carries; 0 while it carries none.
Rec == [flow : Flow, source : {"received", "sweep"}, at : Nat, v : Nat]

TypeOK ==
    /\ clock \in Nat /\ nextSweep \in Nat /\ swept \in Nat \cup {Off}
    /\ books \in [Flow -> Nat]
    /\ records \in Seq(Rec)
    /\ hand \subseteq Rec /\ charges \subseteq Rec
    /\ out \subseteq Names /\ sent \subseteq out
    /\ wire \in Seq(Names) /\ acks \in Seq(Names) /\ buffer \in Seq(Names)
-----------------------------------------------------------------------------
Init ==
    /\ clock = 0
    /\ phase = "down"
    /\ books = [f \in Flow |-> 0]
    /\ hand = {} /\ charges = {} /\ swept = Off /\ nextSweep = 0
    /\ event = FALSE /\ sock = "none"
    /\ records = <<>> /\ out = {} /\ sent = {}
    /\ brokerUp \in BOOLEAN /\ linked = FALSE /\ wire = <<>> /\ acks = <<>>
    /\ listening = FALSE /\ buffer = <<>> /\ stored = <<>>
    /\ lost = {} /\ faults = 0

\* Nothing reads the clock while the gateway is not running.
Tick ==
    /\ phase = "running"
    /\ clock < MaxClock
    /\ clock' = clock + 1
    /\ UNCHANGED <<receiver, client, net, telegraf, lost, faults>>

\* Publishing -------------------------------------------------------------
\* Mutant: published with qos=0, which paho does not queue.
Publish_AtMostOnce(r) ==
    /\ records' = Append(records, r)
    /\ wire' = IF sock = "none" THEN wire ELSE Append(wire, Len(records) + 1)
    /\ UNCHANGED <<event, sock, out, sent, brokerUp, linked, acks>>

\* publish(): qos=1, so the client keeps the record until it is acknowledged.
\* It is sent at once if there is a socket, connected or not, and room in
\* flight; without a socket the return code is logged and nothing else.
Publish(r) ==
    LET name == Len(records) + 1
        now  == sock # "none" /\ Cardinality(sent) < MaxInflight
    IN  /\ records' = Append(records, r)
        /\ out' = out \cup {name}
        /\ sent' = IF now THEN sent \cup {name} ELSE sent
        /\ wire' = IF now THEN Append(wire, name) ELSE wire
        /\ UNCHANGED <<event, sock, brokerUp, linked, acks>>

\* The receive thread: received_at is read, then the flow scored under the
\* tracker's lock, and the record published once the lock was left.
ReceiveStamps(f) ==
    /\ phase = "running" /\ hand = {}
    /\ books[f] < MaxRecords
    /\ hand' = {Record(f, "received", clock, 0)}
    /\ UNCHANGED <<clock, phase, books, charges, swept, nextSweep, client, net,
                   telegraf, lost, faults>>

ReceiveScores ==
    \E r \in hand :
        /\ r.v = 0
        /\ books[r.flow] < MaxRecords
        /\ books' = [books EXCEPT ![r.flow] = @ + 1]
        /\ hand' = {[r EXCEPT !.v = books[r.flow] + 1]}
        /\ UNCHANGED <<clock, phase, charges, swept, nextSweep, client, net,
                       telegraf, lost, faults>>

ReceivePublishes ==
    \E r \in hand :
        /\ r.v > 0
        /\ Publish(r)
        /\ hand' = {}
        /\ UNCHANGED <<clock, phase, books, charges, swept, nextSweep,
                       telegraf, lost, faults>>

\* Mutant: the time of the next sweep is not moved on.
SweepStamps_NotMoved ==
    /\ phase = "running" /\ swept = Off /\ charges = {}
    /\ clock >= nextSweep
    /\ swept' = clock
    /\ UNCHANGED <<clock, phase, books, hand, charges, nextSweep, client, net,
                   telegraf, lost, faults>>

\* The main thread: listen() wakes, _run_sweep() reads received_at, the tracker
\* charges silent flows under its lock, and the snapshots follow one by one.
SweepStamps ==
    /\ phase = "running" /\ swept = Off /\ charges = {}
    /\ clock >= nextSweep
    /\ nextSweep' = clock + SweepSec
    /\ swept' = clock
    /\ UNCHANGED <<clock, phase, books, hand, charges, client, net,
                   telegraf, lost, faults>>

\* Mutant: a snapshot is stamped with the time of the next sweep.
SweepCharges_StampsNext ==
    /\ swept # Off
    /\ \E silent \in SUBSET {f \in Flow : books[f] < MaxRecords} :
          /\ books' = [f \in Flow |-> books[f] + (IF f \in silent THEN 1 ELSE 0)]
          /\ charges' = {Record(f, "sweep", nextSweep, books[f] + 1) : f \in silent}
    /\ swept' = Off
    /\ UNCHANGED <<clock, phase, hand, nextSweep, client, net, telegraf, lost, faults>>

SweepCharges ==
    /\ swept # Off
    /\ \E silent \in SUBSET {f \in Flow : books[f] < MaxRecords} :
          /\ books' = [f \in Flow |-> books[f] + (IF f \in silent THEN 1 ELSE 0)]
          /\ charges' = {Record(f, "sweep", swept, books[f] + 1) : f \in silent}
    /\ swept' = Off
    /\ UNCHANGED <<clock, phase, hand, nextSweep, client, net, telegraf, lost, faults>>

SweepPublishes ==
    \E r \in charges :
        /\ Publish(r)
        /\ charges' = charges \ {r}
        /\ UNCHANGED <<clock, phase, books, hand, swept, nextSweep,
                       telegraf, lost, faults>>

\* The gateway's process --------------------------------------------------
\* main(): connect() dials and starts the loop, or raises with the broker down.
\* The container is started again until it comes up.
Starts ==
    /\ phase = "down" /\ brokerUp
    /\ phase' = "connecting"
    /\ sock' = "dialing" /\ linked' = TRUE
    /\ UNCHANGED <<clock, books, hand, charges, swept, nextSweep, event, records, out,
                   sent, brokerUp, wire, acks, telegraf, lost, faults>>

\* wait_until_connected() returned: receiver and tracker are new.
Listens ==
    /\ phase = "connecting" /\ event
    /\ phase' = "running"
    /\ nextSweep' = clock + SweepSec
    /\ UNCHANGED <<clock, books, hand, charges, swept, client, net,
                   telegraf, lost, faults>>

\* What is queued, or still in hand, ends with the process.
ProcessEnds ==
    /\ phase' = "down"
    /\ hand' = {} /\ charges' = {} /\ swept' = Off
    /\ event' = FALSE /\ sock' = "none" /\ out' = {} /\ sent' = {}
    /\ linked' = FALSE /\ wire' = <<>> /\ acks' = <<>>
    /\ lost' = lost \cup {records[m] : m \in out}
                    \cup {r \in hand : r.v > 0} \cup charges
    /\ UNCHANGED <<clock, books, nextSweep, records, brokerUp, telegraf>>

\* The wait timed out.  A broker that is up answers within the ten seconds.
GivesUp ==
    /\ phase = "connecting" /\ ~event
    /\ ~(brokerUp /\ linked /\ sock = "dialing")
    /\ ProcessEnds
    /\ UNCHANGED faults

\* The process is killed, or close() stops the loop and disconnects: neither
\* sends what is queued.
GatewayEnds ==
    /\ Fault
    /\ phase # "down"
    /\ ProcessEnds

\* paho's network thread --------------------------------------------------
Dials ==
    /\ phase # "down" /\ sock = "none" /\ brokerUp
    /\ sock' = "dialing" /\ linked' = TRUE
    /\ sent' = {} /\ wire' = <<>> /\ acks' = <<>>
    /\ UNCHANGED <<clock, receiver, event, records, out, brokerUp,
                   telegraf, lost, faults>>

\* What is sent next: the first of the queued records, in order, as far as
\* there is room.
Sendable(queued, room) ==
    {q \in UNION {[1 .. n -> queued] : n \in 0 .. room} :
        /\ \A i, j \in DOMAIN q : i < j => q[i] < q[j]
        /\ \A m \in queued \ Range(q) : Len(q) = room /\ \A i \in DOMAIN q : q[i] < m}

\* Mutant: the event is never set.
OnConnect_NoEvent ==
    /\ sock = "dialing" /\ linked /\ brokerUp
    /\ sock' = "open"
    /\ \E next \in Sendable(out \ sent, MaxInflight - Cardinality(sent)) :
          wire' = wire \o next /\ sent' = sent \cup Range(next)
    /\ UNCHANGED <<clock, receiver, event, records, out, brokerUp, linked, acks,
                   telegraf, lost, faults>>

\* on_connect(): the CONNACK came; paho sends what it kept, in order.  One that
\* refuses sets no event and paho dials again, as after a link that broke while
\* it was dialling.
OnConnect ==
    /\ sock = "dialing" /\ linked /\ brokerUp
    /\ sock' = "open"
    /\ event' = TRUE
    /\ \E next \in Sendable(out \ sent, MaxInflight - Cardinality(sent)) :
          wire' = wire \o next /\ sent' = sent \cup Range(next)
    /\ UNCHANGED <<clock, receiver, records, out, brokerUp, linked, acks,
                   telegraf, lost, faults>>

\* on_disconnect(): the client notices that the link is gone.
OnDisconnect ==
    /\ sock # "none" /\ ~linked
    /\ sock' = "none"
    /\ event' = FALSE
    /\ UNCHANGED <<clock, receiver, records, out, sent, net, telegraf, lost, faults>>

\* Mutant: an acknowledged record still takes its room in flight.
PubAck_KeepsRoom ==
    /\ acks # <<>> /\ sock = "open"
    /\ acks' = Tail(acks)
    /\ out' = out \ {Head(acks)}
    /\ UNCHANGED <<clock, receiver, event, sock, records, sent, brokerUp, linked, wire,
                   telegraf, lost, faults>>

\* A PUBACK frees the record, and the room it took.
PubAck ==
    LET away == sent \ {Head(acks)}
    IN  /\ acks # <<>> /\ sock = "open"
        /\ acks' = Tail(acks)
        /\ out' = out \ {Head(acks)}
        /\ \E next \in Sendable(out' \ away, MaxInflight - Cardinality(away)) :
              wire' = wire \o next /\ sent' = away \cup Range(next)
        /\ UNCHANGED <<clock, receiver, event, sock, records, brokerUp, linked,
                       telegraf, lost, faults>>

\* Broker, Telegraf, InfluxDB ---------------------------------------------
\* The broker acknowledges a record and hands it on.  The subscription has
\* qos = 0: nobody listening, nothing is kept.
BrokerReceives ==
    /\ brokerUp /\ linked /\ wire # <<>>
    /\ wire' = Tail(wire)
    /\ acks' = Append(acks, Head(wire))
    /\ IF listening
       THEN buffer' = Append(buffer, Head(wire)) /\ UNCHANGED lost
       ELSE lost' = lost \cup {records[Head(wire)]} /\ UNCHANGED buffer
    /\ UNCHANGED <<clock, receiver, client, brokerUp, linked, listening, stored, faults>>

\* A point is a measurement, its tags and received_at, in whole seconds: `pdr'
\* is tagged by node, flow and source, what was received by node and topic.
PointOf(r) == <<r.flow, r.source, r.at>>

\* The buffer is flushed in the order received; a point that exists already is
\* overwritten.
Flushes ==
    /\ buffer # <<>>
    /\ buffer' = Tail(buffer)
    /\ stored' = LET point == PointOf(records[Head(buffer)])
                 IN  [p \in DOMAIN stored \cup {point} |->
                         IF p = point THEN Head(buffer) ELSE stored[p]]
    /\ UNCHANGED <<clock, receiver, client, net, listening, lost, faults>>

TelegrafListens ==
    /\ ~listening /\ brokerUp
    /\ listening' = TRUE
    /\ UNCHANGED <<clock, receiver, client, net, buffer, stored, lost, faults>>

TelegrafEnds ==
    /\ Fault
    /\ listening' = FALSE
    /\ buffer' = <<>>
    /\ lost' = lost \cup {records[m] : m \in Range(buffer)}
    /\ UNCHANGED <<clock, receiver, client, net, stored>>

BrokerReturns ==
    /\ ~brokerUp
    /\ brokerUp' = TRUE
    /\ UNCHANGED <<clock, receiver, client, linked, wire, acks, telegraf, lost, faults>>

Breaks == linked' = FALSE /\ wire' = <<>> /\ acks' = <<>>

BrokerFails ==
    /\ Fault
    /\ brokerUp
    /\ brokerUp' = FALSE /\ listening' = FALSE
    /\ Breaks
    /\ UNCHANGED <<clock, receiver, client, buffer, stored, lost>>

LinkBreaks ==
    /\ Fault
    /\ linked
    /\ Breaks
    /\ UNCHANGED <<clock, receiver, client, brokerUp, telegraf, lost>>

Threads == ReceiveScores \/ ReceivePublishes \/ SweepCharges \/ SweepPublishes
Process == Starts \/ Listens \/ GivesUp
Paho    == Dials \/ OnConnect \/ OnDisconnect \/ PubAck
Servers == BrokerReceives \/ TelegrafListens \/ Flushes \/ BrokerReturns

Next ==
    \/ Tick
    \/ \E f \in Flow : ReceiveStamps(f)
    \/ SweepStamps
    \/ Threads \/ Process \/ Paho \/ Servers
    \/ GatewayEnds \/ TelegrafEnds \/ BrokerFails \/ LinkBreaks

Spec == Init /\ [][Next]_vars

\* Threads run, containers are restarted (restart: unless-stopped), paho and
\* Telegraf dial again; nothing has to be heard, and no fault has to happen.
FairSpec ==
    /\ Spec
    /\ WF_vars(ReceiveScores) /\ WF_vars(ReceivePublishes)
    /\ WF_vars(SweepCharges) /\ WF_vars(SweepPublishes)
    /\ WF_vars(Process) /\ WF_vars(Dials) /\ WF_vars(OnConnect)
    /\ WF_vars(OnDisconnect) /\ WF_vars(PubAck)
    /\ WF_vars(BrokerReceives) /\ WF_vars(TelegrafListens)
    /\ WF_vars(Flushes) /\ WF_vars(BrokerReturns)
-----------------------------------------------------------------------------
Written(r) == \E p \in DOMAIN stored : records[stored[p]] = r

\* The point of a packet holds another packet of its flow, heard in the same
\* second.
SameSecond(r) ==
    /\ r.source = "received"
    /\ \E p \in DOMAIN stored : p = PointOf(r) /\ records[stored[p]] # r

Settles(r) == r \in lost \/ Written(r) \/ SameSecond(r)

(***************************************************************************)
(* Every record the connector was given is queued at the client, buffered  *)
(* at Telegraf or in the database, whatever outages, resends and restarts  *)
(* came between, but for the three losses the design allows: it ended with *)
(* a process, it came while Telegraf was away, or another packet of its    *)
(* flow arrived in the same second.  The charges of a sweep never collide. *)
(***************************************************************************)
EveryRecordAccounted ==
    \A m \in Names :
        m \in out \cup Range(buffer) \/ Settles(records[m])

Points(f) == {r \in {records[stored[p]] : p \in DOMAIN stored} : r.flow = f}

(***************************************************************************)
(* The two threads publish after they left the tracker's lock, and the     *)
(* stamp was read before they took it: once every snapshot of a flow is in *)
(* the database, the point a dashboard shows, the newest, is the last      *)
(* snapshot of the books or the one before it, never an older one.         *)
(***************************************************************************)
NewestAtMostOneBehind ==
    \A f \in Flow :
        books[f] > 0 /\ (1 .. books[f]) = {r.v : r \in Points(f)} =>
            \E r \in Points(f) :
                /\ \A q \in Points(f) : q.at <= r.at
                /\ r.v >= books[f] - 1

(***************************************************************************)
(* What was published reaches the database, however often the link drops   *)
(* and the broker comes back, unless its process or Telegraf failed it.    *)
(***************************************************************************)
ReachesDatabase == []<>(\A m \in Names : Settles(records[m]))

(***************************************************************************)
(* However the start-up meets an absent broker, a dropped link or its own  *)
(* ten-second limit, the gateway ends up running and connected for good.   *)
(***************************************************************************)
ComesUp == <>[](phase = "running" /\ event /\ sock = "open")
=============================================================================
