------------------------------ MODULE Dashboard ------------------------------
(***************************************************************************)
(* One chart of monitor/templates/dashboard.html beside the MQTT client of *)
(* MonitorMqtt.  The page fills the chart from the database, once, and     *)
(* appends what _on_message() of monitor/utils.py forwards meanwhile; the  *)
(* database is behind by what Telegraf has not flushed.  Points of the     *)
(* chart's field are numbered in the order of publication.                 *)
(***************************************************************************)
EXTENDS MonitorMqtt, Sequences, FiniteSets, Functions

CONSTANTS MAX_POINTS,    \* points a chart holds
          MaxPublished   \* bound on points published

ASSUME DashboardAssumption == MAX_POINTS \in Nat \ {0} /\ MaxPublished \in Nat

VARIABLES published,   \* points published so far
          flushed,     \* the first so many are in the database
          socket,      \* of the page: "none" before it is opened, "off", "live"
          emitted,     \* forwarded to the page, not handled yet
          seed,        \* seedChart(): "none", "asked", "answered" or "done"
          rows,        \* its answer
          chart,       \* the points drawn
          \* History:
          answeredAt,  \* what the database held when it answered
          unheard,     \* points that no event brings to this page
          replaced,    \* points drawn before the answer came
          late         \* points answered before their event was handled

data == <<published, flushed>>
page == <<socket, emitted, seed, rows, chart>>
told == <<answeredAt, unheard, replaced, late>>
dash == <<data, page, told>>

Newest(n) == [i \in 1 .. n - (IF n > MAX_POINTS THEN n - MAX_POINTS ELSE 0) |->
                 i + (IF n > MAX_POINTS THEN n - MAX_POINTS ELSE 0)]
-----------------------------------------------------------------------------
MonitorInit ==
    /\ Init
    /\ published = 0 /\ flushed = 0
    /\ socket = "none" /\ emitted = <<>> /\ seed = "none" /\ rows = <<>> /\ chart = <<>>
    /\ answeredAt = 0 /\ unheard = {} /\ replaced = {} /\ late = {}

\* A point is published: to Telegraf, and to the monitor if its link carries
\* the subscription.  _on_message() emits it to the pages connected.
Publish ==
    /\ published < MaxPublished
    /\ published' = published + 1
    /\ IF link = "up" /\ held /\ socket = "live"
       THEN emitted' = Append(emitted, published') /\ UNCHANGED unheard
       ELSE unheard' = unheard \cup {published'} /\ UNCHANGED emitted
    /\ UNCHANGED <<flushed, socket, seed, rows, chart, answeredAt, replaced, late>>

Flush ==
    /\ flushed < published
    /\ flushed' = published
    /\ UNCHANGED <<published, page, told>>

\* The page is opened: the socket dials, and history is asked for.
OpenPage ==
    /\ socket = "none"
    /\ socket' = "off"
    /\ seed' = "asked"
    /\ unheard' = 1 .. published
    /\ UNCHANGED <<data, emitted, rows, chart, answeredAt, replaced, late>>

SocketConnects ==
    /\ socket = "off"
    /\ socket' = "live"
    /\ UNCHANGED <<data, emitted, seed, rows, chart, told>>

SocketDrops ==
    /\ socket = "live"
    /\ drops < MaxDrops /\ drops' = drops + 1
    /\ socket' = "off"
    /\ emitted' = <<>>
    /\ unheard' = unheard \cup Range(emitted)
    /\ UNCHANGED <<data, seed, rows, chart, answeredAt, replaced, late,
                   client, session, broker, changes>>

\* api_recent(): the newest points the database holds, in ascending order; none
\* where the query fails.
ApiRecent ==
    /\ seed = "asked"
    /\ seed' = "answered"
    /\ \/ rows' = Newest(flushed) /\ answeredAt' = flushed
       \/ rows' = <<>> /\ answeredAt' = 0
    /\ UNCHANGED <<data, socket, emitted, chart, unheard, replaced, late>>

\* Mutant: history is put behind what is drawn already.
SeedChart_Appends ==
    /\ seed = "answered"
    /\ seed' = "done"
    /\ chart' = chart \o rows
    /\ UNCHANGED <<data, socket, emitted, rows, told>>

\* seedChart() resumes: history replaces what is drawn already.
SeedChart ==
    /\ seed = "answered"
    /\ seed' = "done"
    /\ IF rows = <<>> THEN UNCHANGED <<chart, replaced, late>>
       ELSE /\ chart' = rows
            /\ replaced' = (1 .. published) \ (unheard \cup Range(emitted))
            /\ late' = {p \in Range(emitted) : p <= answeredAt}
    /\ UNCHANGED <<data, socket, emitted, rows, answeredAt, unheard>>

\* pushPoint(): the oldest point gives way.
PushPoint ==
    /\ emitted # <<>>
    /\ emitted' = Tail(emitted)
    /\ LET more == Append(chart, Head(emitted))
       IN  chart' = IF Len(more) > MAX_POINTS THEN Tail(more) ELSE more
    /\ UNCHANGED <<data, socket, seed, rows, told>>

PageStep == OpenPage \/ SocketConnects \/ ApiRecent \/ SeedChart \/ PushPoint

MonitorNext ==
    \/ Next /\ UNCHANGED dash
    \/ (Publish \/ Flush \/ PageStep) /\ UNCHANGED vars
    \/ SocketDrops

MonitorSpec == MonitorInit /\ [][MonitorNext]_<<vars, dash>> /\ Fairness
-----------------------------------------------------------------------------
\* Points the chart has once its history is in: what it draws, and what is on
\* its way.
Shown == Range(chart) \cup Range(emitted)

(***************************************************************************)
(* A chart whose history is in draws no point twice and none out of order, *)
(* and leaves a point out only if it had to give way to newer ones, or if  *)
(* the answer came too early for it and no event brings it: not flushed    *)
(* when the page asked, it was published while page or monitor were not    *)
(* connected, or handled as an event before the answer replaced the chart. *)
(* Not so if events took longer to the page than the points to the         *)
(* database and back.                                                      *)
(***************************************************************************)
ChartTellsTheTruth ==
    seed = "done" /\ late = {} =>
        /\ \A i, j \in DOMAIN chart : i < j => chart[i] < chart[j]
        /\ \A p \in (1 .. published) \ Shown :
              \/ Cardinality({q \in Range(chart) : q > p}) = MAX_POINTS
              \/ p > answeredAt /\ p \in unheard \cup replaced
=============================================================================
