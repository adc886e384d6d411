# Meshtastic testbed: verification project

TLA+ models of the Meshtastic testbed platform, TLC runs over small instances
of them, and TLAPS proofs about the packet-loss estimator, the receiver around
it, the path of its records to the database, the two console collectors, the
capture of a configuration, the monitor and its map, and the provisioning
scripts. `PROJECT.json` maps
every definition to the lines it models, lists the runs, the hazards and the
disagreements found. Run a configuration with
`tlc -config <run>.cfg <module>`, a proof with `tlapm <module>.tla`.

## 1. The system

LoRa nodes broadcast telemetry and positions on fixed cadences and relay the
messages of two PBX sites. A gateway listens to the mesh, infers losses, and
publishes to MQTT; Telegraf stores what is published; a monitor shows it. At
each PBX site two collectors tap serial consoles: that of the node's firmware
and that of the PBX's. Scripts provision the radios; a tool captures a node's
configuration over the Stream API.

| Component (source) | State it keeps | Operations | What is hard |
|---|---|---|---|
| Cadence estimator (`gateway/mesh_receiver.py:38-178`) | per flow: anchor, heard, missed, early, provisional charge, restart flag, window of outcomes | `observe`, `sweep`, `reanchor` | two threads; a clock reading older than the other thread's charge; refunds out of a bounded window |
| Gateway receiver (`gateway/mesh_receiver.py:181-555`, `receiver.py`) | window of packet ids, last uptime per node, time of the next sweep | `_on_receive`, `_note_uptime`, `listen`, restart | duplicates, reboots told from losses, order in which flows are heard after a boot |
| Console reader (`pbx/collector/serial_lines.py`) | the open port | open, fail, reopen, yield lines and idle ticks | outages without ticks, cut lines |
| Node collector (`pbx/collector/node_logd.py`) | packets in flight, last transmission, uptime, counts | `feed(line)`, `feed(None)` | expiry against retries, reboots, airtime without id |
| PBX collector (`pbx/collector/pbx_logd.py`) | per phone sequence, slot map, uptime, next dump | `feed(line)`, `feed(None)` | sessions that restart numbers, restarts told twice |
| Configuration capture (`pbx/fetch_node_config.py`) | rolling buffer, frames, end seen | wake, request, `read_frames` | reads cut anywhere, stray bytes, stale answers |
| Provisioning (`pbx/`, `node/`, `gateway/configure.py`, `common/meshtastic_cli.py`) | failed steps | CLI steps with retries, verify, keys | partial failure, commands applied yet failed, re-runs |
| Configuration (`common/mesh_config.py`, `gateway/receiver.py`) | `mesh_config.json` | cadences, surveyed positions, the gateway's maps | read at different times by different processes |
| Monitor (`monitor/app.py`, `monitor/utils.py`) | subscriptions, MQTT link, timers | connect, subscribe, `/api/nodes` | three parties dialing the broker; stale rows |
| Gateway publisher (`gateway/mqtt_connector.py`) and ingestion (`telegraf.conf`, `docker-compose.yaml`) | connected event; paho's socket and queue; Telegraf's buffer; the points of the database | connect, wait, publish, close, PUBACK, flush | two threads publish outside the lock; outages of broker, link and process; points that overwrite each other |
| Health check (`tools/check_node_info.py`) | issues found | compare a radio with `radio_config`, the mesh with `mesh_config.json` | agrees with what three scripts set, or not |
| Monitor pages (`monitor/templates/dashboard.html`, `app.py`) | chart, socket, history asked for | seed, push | history and events overtake each other |
| Plotting tools, earlier receivers | | | not modelled, see section 8 |

They interact through the radio (nodes to gateway), serial consoles (radios to
collectors), MQTT (gateway and collectors to database and monitor), the file
`mesh_config.json` (gateway, monitor, scripts), and inside the gateway through
one lock between the receive thread and the sweeping main thread.

What makes each correct: the estimator's books equal what the gaps imply, once
each; the receiver counts neither duplicates nor downtime; a collector gives
each packet one true verdict and charges what was dropped, no more; the capture
passes on the whole burst only; a script says what it left unset and can be run
again, and the health check finds what it left; every snapshot published reaches
the database or is lost in a way the design names; nobody surveyed or heard is
missing from the map, each has one fix on it, its latest, and the labels are
those of the database; the monitor ends up subscribed, and its charts have no holes but those its design
explains.

## 2. Modules

| Module | Models |
|---|---|
| `Rounding` | Python's `round()` of a quotient (ties to even), with `AtLeast` for `max` |
| `CadenceTracker` | the estimator: one action per branch of `observe`, `sweep`, `reanchor` |
| `CadencePdr` | the estimator under its two callers; properties |
| `SweepFree` | abstract: losses follow from gaps alone, no sweep and no thread |
| `MeshReceiver` | the receiver around `CadencePdr` (each of its steps constrains a step of `CadencePdr`), and the mesh; `MeshReceiverProofs`: theorems about rounding, the estimator, its refinement of `SweepFree`, and the receiver, in this order |
| `ConsoleReader` | the serial reader, shared by the next two |
| `NodeLogTracker`, `NodeLog` | node collector; the same fed by `ConsoleReader` from a node; `NodeLogProofs`: theorems |
| `PbxLogTracker`, `PbxLog` | PBX collector; the same fed by `ConsoleReader` from a PBX; `PbxLogProofs`: theorems |
| `Varint`, `StreamFraming` | protobuf primitives; the capture of a node's configuration; `StreamFramingProofs`: theorems |
| `Provisioning` | the three scripts |
| `MeshConfig`, `NodeMap` | meaning of `mesh_config.json`; gateway, database and map around it; `NodeMapProofs`: a theorem |
| `MonitorMqtt` | the monitor's MQTT client |
| `Dashboard` | a chart of the monitor's page beside that client and the database; `MonitorProofs`: theorems about both |
| `Uplink`, `UplinkProofs` | from the gateway's books to the database: two publishing threads, the MQTT client, broker, Telegraf, InfluxDB; theorems |
| `HealthCheck` | the health check, run between the scripts of `Provisioning`; `HealthCheckProofs`: theorems about both |
| `MC*` | constants, fairness and comments-as-properties for TLC |

Time is in integer ticks and stands for `time.monotonic()`. Packets, phones and
slots are model values or small numbers. An action is a whole handler wherever
nothing can come between its steps; the estimator's calls are separate actions
because each takes the lock anew, and a thread's clock reading is an action of
its own because it precedes the lock. The firmware, the radios, the operators,
the broker and paho are environment, modelled as loosely as the code's own use
of them permits and marked external in the map. Variables under "History" are
read by no action of the program.

Definitions named after another with a suffix (`Reanchor_KeepsCharge`) are
mutants: plausible bugs, each of which makes a property of a run fail. They are
used nowhere else.

## 3. What the runs check

Every property is stated in a comment above it, in terms of the code.

**`cadence`** (one flow, interval 2, window of 3, clock to 10, three packets).
`LedgerExact`: what a sweep charged is not charged again by the packet that ends
the gap. `NeverUndercounts`: refunds give back provisional charges only.
`DriftBounded`: over all scored gaps the count is within half an interval per
gap. `ChargeWithinGap`, `TailIsTheCharge`: the refund of `reanchor()` pops
exactly the zeros `sweep()` pushed. `SweepIsInvisible`: `CadencePdr` implements
`SweepFree`, with provisional charges set aside. A flow whose charge was dropped
unreckoned (a packet after a reboot, or scored at a clock reading older than the
sweep's) is `disturbed` and excused; that the drop happens is a finding, or the
race of `mesh_receiver.py:290`.
*Bounds:* the estimator has no code that relates two flows, so one suffices; the
receive thread is told an arbitrary set to refund and score, which covers any
packet. Three packets are a first, a gap, and a gap after a refund; ten ticks
are gaps of up to five intervals, more than the window holds.

**`mesh`** (one node, a device and a position flow with intervals 2 and 3, one
crash, window of one id). `AcceptedOnce`: a repeated packet is scored once while
its id is remembered. `NoFalseLoss`: a node all of whose packets were heard and
whose reboots were noticed at the first packet heard has no loss but the open
charge. `RefundsNeedAReboot`, `RebootIsNodeWide`: refunds come with reboots only
and reach every flow of the node. `SilenceIsCharged`: every interval of a
node's silence ends up charged.
*Bounds:* two flows of different cadence are what a node-wide reboot needs; a
packet is heard within the tick it was sent, repeats included, so that a boot
takes longer than a packet stays on the air.

**`node_log`** (two packets, one with acknowledgement, two attempts, one
transmission of the node's own, one restart, one cut line).
`VerdictsTrue`, `OneRecordPerPacket`, `NothingOutlivesAReboot`,
`AttributionExact` (attempts and airtime go to the packet they belong to, the
node's own traffic to none), and `ExpiredResolves` (liveness). Of `lost_to_reboot`
`VerdictsTrue` says that the packet had been handed over before a restart and,
if no line was missed, that the node had done no more with it than drop it in
silence: none that was sent or acknowledged gets that verdict (section 6).
*Bounds:* expiry 2 exceeds the budget 1 of a packet's next step, as
`collector/config.py:37-41` demands. Failures of the port are left to `pbx_log`,
which uses the same reader.

**`pbx_log`** (one phone, one slot, two sessions, three packets, one restart,
one port failure). `LossFigureTrue`: no loss is invented and none missed.
`RebootsCountedOnce`, `SlotsExact`, `CountersKeepComing` (liveness).
*Bounds:* sequences and slots of phones do not interact in the code but through
the slot map, whose collisions need a phone to leave and come back. Sessions
start at number 1: a session that starts above the last number is charged as a
gap (section 6). Cut lines are off here, since a shortened number is one.

**`framing`** (one payload with the magic inside, a stale and a true
`config_complete_id`, two frames, one stray byte, a wake echo, reads cut
anywhere, MAX_PAYLOAD 4). `FramesComeOutWhole`,
`PassMeansWholeBurst`, `BufferBounded`, `CaptureEnds` (liveness).
*Bounds:* `FramingAssumption` says that stray bytes are no short length, and that
messages the reset of the input may cut (payloads and late answers) do not hold a
whole frame header with a short length; no reader of this protocol could tell.
Lengths below 256 times the start byte keep a start byte from being a short
length. Of the varints it says only that the two answers yield their nonces;
`AnswersTell` (`MCStreamFraming`) computes it for numbers of one to five bytes.

**`provision`** (module `HealthCheck`: three scripts, four failing attempts, two
runs, interrupts, a check between any two runs). `MissingIsReported`,
`FaultsAreMasked`, `RerunRepairs`. Three attempts exhaust a step and the fourth
hits another. `CheckAgreesWithScripts`: what a device must share with the mesh
(`Shared`) is there when the check calls it healthy, and the check blames a
sensor or PBX node for nothing its script is content with. What the mesh shows
(absent, unknown, coarse or misconfigured neighbours) is any subset.

**`node_map`** (two nodes, two labels, two edits, three reports).
The file is any sequence of entries, an id in two of them included, since neither
`mesh_config.load` nor `surveyed_positions` looks for that; the query of the
database may fail. `MapMatchesReports`: with or without an answer nobody surveyed
is missing, and with one nobody who ever reported; such a node has one fix on the
map, its latest, unless its label fell back (section 6), from however many
entries; and the map's label for it is the database's, if the gateway had read
the present file and the file names the node once.
*Bounds:* two entries hold an id twice, two edits a relabelling, and three reports
a label that was left and returned to.

**`monitor_mqtt`** (module `Dashboard`: three timers, three changes of the broker,
two dropped links or sockets, a chart of two points, four published).
`SubscribedWhenUp`, `SettlesDown` (liveness). `ChartTellsTheTruth`: the page asks
the database for history once and appends what the monitor forwards meanwhile;
with the answer, what was drawn before is replaced. The chart is in order,
without repetition, and a point missing from it is one that gave way to newer
ones, or was unflushed when the database answered and published while page or
monitor were not connected, or handled as an event before the answer replaced the chart. The page does not ask
again after its socket was lost; such a hole stays until it is reloaded.
*Bounds:* twice a full chart: a point in the answer, and more events before it
than the chart holds, so that one has given way when the chart is replaced; or a
point before the page opens, one around the answer, and those after. The property excuses a chart one of whose events
took longer to the page than its point to the database and back (`late`): it is
then drawn twice, which no code prevents.

**`uplink`** (one flow, heard and swept; a sweep every second; one record in
flight; two seconds; three snapshots; two faults). A record is the payload's
flow, its topic (`source`: the flow's own topic, or `pdr` for a sweep), its
`received_at`, and `v`, the number of the snapshot of the flow's books it
carries. The receive thread reads `received_at` (`ReceiveStamps`), scores under
the tracker's lock (`ReceiveScores`) and publishes outside it
(`ReceivePublishes`); the sweep of the main thread does the same in
`SweepStamps`, `SweepCharges` and `SweepPublishes`. `out` is what paho keeps until it is
acknowledged, `sent` the part of it on its way. Telegraf listens with QoS 0,
buffers, and writes points, which InfluxDB identifies by measurement, tags and
second (`PointOf`).
`EveryRecordAccounted`: a record is queued, buffered, stored, or lost in one of
three ways: with its process, because Telegraf was away, or overwritten by
another packet of its flow of the same second, which no sweep's record is.
`NewestAtMostOneBehind`: the newest point of a flow, which a dashboard
shows, is the last snapshot of the books or the one before it, though stamp,
snapshot and publication happen in three places. `ReachesDatabase` and `ComesUp`
(liveness): outages delay, they do not block.
*Bounds:* flows share nothing here but paho's queue, which one flow fills with
its two kinds of record. One place in flight makes the second record wait for the
first one's PUBACK. Three snapshots are two packets and a sweep before, between or
after them, or three packets. Two seconds have room for one sweep: that two of
them never share a point is not shown by the run but by the theorem
`RecordsAccounted`, for any interval of at least a second. Two faults are an outage and a process end, or an outage
during the recovery from another. The wall clock is taken not to step back.
Nothing advances it while the gateway is down, since nothing reads it then.

Deadlock is checked except where the program ends (`framing`), the operator
stops (`provision`, `node_map`), or all bounds are used up (`monitor_mqtt`,
`uplink`).

**Violations.** Three runs check what a comment says and TLC refutes:

* `cadence_restart`: `mesh_receiver.py:86` says the first packet after a reboot
  is not judged, but a charge made while it was awaited stays for good.
* `mesh_order`: `mesh_receiver.py:356` says a reboot is applied node-wide, but a
  flow heard before the device report has booked the downtime as loss by then.
* `node_log_cut`: `node_logd.py:49` says cut lines match nothing; two patterns
  match an id that was cut short.

## 4. Fairness

* `SilenceSpec` (`mesh`): time passes, a node that is up sends what is due, and
  `listen()` wakes and sweeps: it is a loop around `time.sleep(1)`. Nothing is
  assumed of the receive thread. The bound on the clock ends time, so the sweep
  that would be next is made at the last instant (`SweepAtTheEnd`), but only if
  the loop has made every one that was due before: one that stops waking charges
  nothing more.
* `LoopSpec` (`node_log`, `pbx_log`): time passes, the collector's loop runs,
  and a port that can be opened is opened in the end (`iter_lines` retries for
  ever). Without the last the collectors do nothing at all: `iter_lines` yields
  no tick while the port is closed.
* `RunSpec` (`framing`): the program runs on. The deadline is not assumed to
  pass, nor the node to answer.
* `Fairness` (`monitor_mqtt`): start-up, timers and paho's thread run; the
  broker owes nothing, and no page has to be opened.
* `FairSpec` (`uplink`): the gateway's threads and paho's run; a container that
  ended is started again (`restart: unless-stopped` for gateway, broker and
  Telegraf in `docker-compose.yaml`); paho and Telegraf dial until they succeed; a
  broker that is up answers within the ten seconds of `wait_until_connected`.
  Nothing has to be heard and no fault has to happen.

## 5. What is proved

Every theorem is about the specification the runs check, for all values of its
constants (sets of flows, nodes, packets; cadences, windows, limits) and runs of
any length. A proof of `Spec => []P` has the same shape throughout: an invariant
of which `P` is a part or a consequence, a lemma that each action keeps it, and
the temporal step. What follows says why `P` alone is not inductive, which is
where the argument lies.

**Estimator** (`MeshReceiverProofs`, first part).
`TypeCorrect`, `LedgerIsExact`, `BooksNeverUndercount`, `ChargesStayWithinGaps`:
the inductive invariant `IInv` is the conjunction of these four and
`UnheardUnsettled` (a flow not heard has nothing settled, which `ObserveFirst`
needs). `LedgerExact` needs `ChargeWithinGap` *and* the rounding to be monotone:
a charge made at an earlier sweep is at most what the gap is worth at a later
reading. Monotony (`RoundMonotone`) rests on the bounds of round-half-even
division (`RoundBounds`), which rest on `DivMod`; they come first in the module.
`CountDoesNotDrift`: `SettledDrift` says it of the slots settled rather than of
the counters, whatever was disturbed; `AnchorsBehind` (no anchor lies ahead of
the reading that is to score it) makes spans non-negative.
`WindowEndsInTheCharge`: `WindowTrue` adds that the window never exceeds its
length and that a tail shorter than the charge means that the window is full of
it: eviction takes from the front what `reanchor()` does not look for.
`TrackerImplementsSweepFree`: every step of `CadencePdr`, with the charges of the
open gaps set aside, is a step of `SweepFree` or a stutter. The hard step is the
packet that ends a gap, where the counted losses of the gap minus the charge made
must be what `SweepFree` counts at once; it uses `IInv`.

**Receiver** (`MeshReceiverProofs`). `ReceiverImplementsTracker`: each of its
steps is one of `CadencePdr`'s, so all the above holds on the mesh.
`PacketsHandledOnce`: the window holds the last `SeenMax` ids accepted, in the
order of acceptance (`SeenInv`).
`RebootsAreNodeWide`: `NodeWide` describes a node half re-anchored: its flows are
pending or on the new grid, with sweeps between.
`RefundsMeanReboots`: assumes that packets stay on the air for less than the
cadence of the device reports (`Apart`). A report refunds if it carries a lower
uptime than the one before; what is on the air then is of the last report's time
or later (`ReportsRise`), so the uptime falls only with a boot.
`DowntimeIsNotLoss`: assumes that packets are heard within half an interval
(`Punctual`), as beyond that a slot cannot be told from a loss. `GridInv` says of
each flow of a node with nothing lost where its anchor lies relative to the
broadcasts made since the boot, and of one that was re-anchored that it waits.

**Node collector** (`NodeLogProofs`).
`CollectorTyped`: needs the types of console and firmware.
`RecordedOnce`: `CountInv` counts per packet its reports, its open record and its
hand-over lines still to be read: at most the times it was handed over; equal to
one, with nothing missed, if it was handed over once.
`RebootClosesRecords` holds without looking at the console: every record was
stamped with an uptime the collector had noted.
`VerdictsAreTrue`: assumes `Budget < Expiry`, which `collector/config.py:37-41`
demands ("MUST exceed the firmware's retransmission budget"). Three invariants:
`LinesTrue` (what a line on the console says has happened, and a cut line counts
as missed), `BootInv` (between the hand-over of a packet and what is read next
uptimes do not fall, unless the node restarted) and `FollowInv`: while a packet
is in flight or its hand-over still to be read, every transmission and
acknowledgement of it is recorded or still on the console, in that order, and a
packet the node still works on was heard of within `Budget`. For what a
restart flushes: a packet the node neither works on nor left unfinished was seen
through (`FateInv`); one that wants no acknowledgement leaves with its first
transmission (`OnceInv`); and as long as the line that would resolve a packet is
still to be read, no restart shows before it (`EndsInv`). So what is flushed was left unfinished
(`LostInv`). The lemmas on the
operators of the tracker (`NotedFate`, `DispatchedFate`, `ExpiredFate`) say what
each can do to one packet: keep it, begin it, retry it or resolve it.
`AttributionIsExact`: under the same hypothesis. No airtime line names its packet;
the tracker takes it for that of the last `Started Tx` it read. `OnAir` says whose
that is before any line of the console, and `TraceInv` that it ends with what the
node has on the air; that the record of a packet, with the completions and
airtimes of it still on the console, makes all the node has done with it (where
`FollowInv` says "some", this counts); and that all of those are read while the
record is open: after its hand-over, with no reboot, acknowledgement or expiry
before them. They are printed only while the node works on the packet, and
`OverInv` says when it does not. `OtherInv` then does the sum for the node's own
traffic.

**PBX collector** (`PbxLogProofs`). All rests on `ConsoleInv`: the lines on the
console are in the order of the boots, a boot begins with its banners, and within
a boot uptimes do not fall. The lemmas on the tracker's operators say what one
line, whole or cut, does to its counts (`BootedIs` and those after it).
`RestartsCountedOnce`: `RebootInv` names the last boot that can have been counted
and says that no line still to come tells of it again: neither a lower uptime nor
a banner the collector could take for another boot. `ExactInv` is the converse
while nothing is missed.
`SlotMapIsThePbxs`: `SlotInv` says for each slot that the last line about it on
the console, or without one the tracker, names who holds it.
`ChargedIsWhatWasSkipped`: `NumberInv` relates, for each line still to be read,
the number before it in its session to the one the tracker will hold when it
comes to that line. A second session of a phone within a boot would blur it,
which is why the statement sets such runs aside (`resumed`).
`LossFigureIsTrue`: assumes that all sessions start at one number (`OneStart`).
`ChargeInv` exhibits the packets charged: as many as the figure says, each made
available, not read, not still to be read, and behind whatever comes next, so
that none is charged twice. `MadeInv` says that each line's number stands for a
packet, and that the lines of a phone are in the order of its sessions. A
session that starts higher than the last number of the one before refutes the
statement (section 6).

**Capture** (`StreamFramingProofs`). `Framed` describes the bytes in the buffer
and on the wire as one stream: the frames still to come lie in it one after the
other, with anything in between, and wherever there is a magic with a short
length there is a frame around it. A read moves bytes from one part to the other
and keeps the stream; a stray byte or a frame extends it (`FramedByte`,
`FramedMore`); what the drain loop drops lies before the frames to come
(`FramedDrop`), because the first magic is either a frame's own or one with an
impossible length (`HeaderSays`).
`FramingIsExact`: `SyncInv` adds that the frames read are the first of those
sent, and that the frames left when the loop stops are not whole in the buffer.
`WaitingBufferIsBounded` and `TypeCorrect` follow, the latter because what is cut
out is a message that was sent. `SuccessIsWhole`: `BurstInv` says that the answer
is the stretch sent since the request, and that our nonce comes once, at its end.
`StageInv` says what may have arrived before the input was reset: of that three
bytes may survive, which no reader can take for a header.

**Map** (`NodeMapProofs`). `MapMatches`: `Stored` says that a point counted as
current was stored under the label the file has for its node. The rest is about
finite choices: of the entries of one id one is first and alone gets the fix
(`Smallest`), each series has a last point and each node a highest label
(`Largest`), and what the query answers is therefore one point a node (`ReportedIs`).

**Publisher** (`UplinkProofs`). `UplinkTyped`, `RecordsAccounted`: a PUBACK takes
a record off the queue, so what was acknowledged must have been received
(`AckedIsReceived`). A flush may overwrite a point, so each point must hold a
record of its own (`PointsTrue`), and two charges must never share one:
`ChargesApart` says that every charge was stamped before the next sweep is due
and before a sweep that has stamped but not charged yet, from which it follows
that no two charges of a flow carry the same second, across restarts too.
`NewestIsRecent`: `OrderInv` orders the snapshots by the stamps of their own
thread, and bounds how far the other thread's stamp may lie behind: it was read
before at most one more snapshot was taken.

**Monitor** (`MonitorProofs`). `UpMeansSubscribed`: the topic is remembered
before it is sent, and only start-up may find a link without it (`SubInv`);
`SubscribedWithPages` carries it to `MonitorSpec`. `ChartIsTrue`: `DashInv` adds
that what is on its way to the page is in order and ahead of what is drawn, that
the answer is what was newest when it was given, and which points may be missing
while it is awaited.

**Scripts and check** (`HealthCheckProofs`). `NothingMissingInSilence`: while a
script runs, what the steps behind it should have set is set, or is reported, or
is left for the read-back (`MissingSoFar`). `RetriesMask`, `RunsRepair`: fewer
faults than attempts leave no step failed, except that `--ch-add` may meet the
channel it has itself created (`FaultsSoFar`). `CheckAndScriptsAgree`, and
`CheckOnlyLooks`: a check changes nothing, so the theorems about the scripts hold
with checks in between (`ScriptsWithChecks`).

*Assumptions.* Those the modules state about their constants (cadences are
positive integers, which `mesh_config.intervals_for` enforces; at least one
second between sweeps, which the `sleep(1)` of `listen()` ensures; room for one
record in flight; frames that stray bytes do not imitate; no id that is `None`;
and so on), and the four hypotheses named above, which stand in the theorems that
need them: `Apart`, `Punctual`, `Budget < Expiry`, `OneStart`. The runs satisfy them (`MaxDelay = 0`;
`Budget = 1`, `Expiry = 2`; `Starts = {1}`).

*Proving corrected the models twice.* The history `replaced` of `Dashboard`
recorded what was drawn when the answer came, but an event drawn earlier may by
then have given way to newer ones and is missing all the same: a chart of two
points and four published refute the old definition, and the run now has four.
The history `unnoticed` of `MeshReceiver` overlooked a boot all of whose reports
arrive after the next crash: with two crashes `NoFalseLoss` failed, for a
downtime no code could have noticed.

*Only model-checked.* Every invariant the runs check is proved. All liveness
and everything that involves `ENABLED` is out of the prover's reach. `Varint`
computes a recursive function; that encoding and reading agree for every number
is induction over data, which the installed provers cannot do: the theorems about
the capture take it from `FramingAssumption` for the two nonces.

## 6. Disagreements without a run

* `tests/test_pdr_tracker.py:175` expects the same count with and without
  sweeps; `now` is read before the lock (`mesh_receiver.py:290`), so a sweep in
  between breaks it. `disturbed` names these flows.
* `mesh_receiver.py:55-57`: downtime is not charged; a node down for longer than
  it had been up goes unnoticed (`mesh_receiver.py:364`). `unnoticed`.
* `pbx_logd.py:26-28`: charging a session restart would invent failures; one
  that starts two or more above the last number is charged.
* `serial_lines.py:102-105`: `None` is the tick while the device is silent;
  during an outage there is none (`serial_lines.py:108-122`).
* `node_logd.py:75`: `lost_to_reboot` is "in flight when the node restarted";
  all that is held is flushed, also a packet the node had dropped in silence and
  that was waiting for its expiry (`abandoned`). One that was sent or acknowledged
  is not among them (`VerdictsTrue`).
* `pbx_logd.py:380-381`: a banner is unambiguous, "independent of whether any
  line from the previous boot was ever seen"; without state it counts nothing.
* `pbx/configure.py:145-146`: a repeated `--ch-add` is "reported but harmless";
  every later run of the script exits 1.
* `gateway/receiver.py:54-55`: the cadences are "the same values the
  provisioning scripts write"; `pbx/configure.py` writes none for environment.
* `docs/architecture/pdr-cadence-tracker.md:293` says the window of ids holds
  200; the code says 50.
* `app.py:97-98` promises "the latest the node reported over GPS", but
  `get_nodes_position()` returns a row per id and label, and `app.py:116` keeps
  the last by label: a relabelled node is shown where its last-sorting label saw
  it (`NodeMap!Reported`).
* `app.py:119-126`: a node that has its id in two surveyed entries of
  `mesh_config.json` is on the map at both places, the fix beside the first;
  nothing rejects such a file (`NodeMap!ApiNodes`).
* `check_node_info.py:24` ("exit code is 1 when any drift / mismatch is found")
  and line 20 of the repository's README ("on any drift"): hop limit, gain, cadences, telemetry, GPS, serial and bluetooth
  settings are shown, not compared (`HealthCheck!RadioHealthCheck`).
* `check_node_info.py:421-438`: the check of the local node's own hop limit and
  role never runs: it looks the node's id up among the labels of `nodes_cfg`.
* `check_node_info.py:305` compares `rebroadcast_mode`, which
  `gateway/configure.py` does not set: a gateway provisioned to the letter is
  healthy only if its firmware default agrees. In the model it never is.
* `check_node_info.py:370` reads `v["id"]` of every entry; an entry without an
  id, which the gateway skips, ends the check with a `KeyError`.
* `telegraf.conf:70` says of the node collector's `tx` records "one per packet";
  they carry whole seconds and no tag of the packet (`node_logd.py:325`), so
  packets of one second, kind, port, channel and outcome are one point.
* `telegraf.conf:22`: Telegraf subscribes with QoS 0 and a clean session, so
  what paho keeps during an outage and delivers after it is lost if paho is back
  before Telegraf is (`lost` in `Uplink!BrokerReceives`).
* `monitor/utils.py:22` and `dashboard.html` map a topic `rx_metrics`, which
  nobody publishes: the charts of rssi, snr and hop are filled from history and
  never move while the page is open.

## 7. Plan

Done: (1) the estimator with its abstract specification and proofs, (2) the
receiver, (3) console reader and node collector, (4) PBX collector, (5) capture,
provisioning, configuration and map, monitor client, (6) gateway publisher and
ingestion with proofs, health check, (7) a dashboard's chart, (8) proofs of the
refinement of `SweepFree` and of the invariants of receiver, node collector,
PBX collector, capture, map, publisher, monitor, scripts and check.

Next:

1. The points of the PBX collectors (`node_logd.py:325`).

## 8. Not modelled

Payload formatting, the PBX frame header and the published ratios, which are
functions of the counts; PBX messages, which are published like packets but
belong to no flow; re-anchoring in `Uplink`, which changes the books without
publishing; counters that only count lines; drawing of pages and validation of requests;
plotting, which is stateless; the earlier receivers under `tools/`, whose state
is the last record of each kind and which append rows to files; constants read
from the environment. Packets without an id,
which are never duplicates (`mesh_receiver.py:329`), the gateway's own, which are
dropped (325), and device reports without uptime, which tell of no reboot (359).
The remainder of a line that a read timeout cut is dropped, where the code hands
it over as a line of its own. Writing the keys raises no error for a missing
channel. PBX sessions that never registered do not end. Telegraf's buffer has no
limit, a point that meets another replaces it whole where InfluxDB merges the
fields, and a broker that refuses is a link that breaks while dialling. A line damaged in the middle is not modelled: lines lose
their end, or are lost. A device report that arrives after the boot that follows
it is excluded by a bound of `mesh`; the code cannot tell it from a reboot.
