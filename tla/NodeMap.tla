------------------------------- MODULE NodeMap -------------------------------
(***************************************************************************)
(* The map of src/monitor/app.py against what feeds it: mesh_config.json,  *)
(* which the gateway reads when it starts and the monitor on each request, *)
(* and the positions in the database, tagged by the gateway with the id    *)
(* and the label of the node.  Operators edit the file; nodes report.      *)
(***************************************************************************)
EXTENDS MeshConfig

CONSTANTS NodeId, Label,   \* node ids; keys of nodes_cfg, in the order of labels
          Entries,         \* entries an operator may write
          MaxEntries,      \* bound on the entries of a file
          MaxReports, MaxEdits   \* bounds

ASSUME MapAssumption ==
    /\ \A entry \in Entries : entry.id \in Seq(NodeId) /\ Len(entry.id) <= 1
    /\ Label \subseteq Nat /\ MaxEntries \in Nat
    /\ MaxReports \in Nat /\ MaxEdits \in Nat

VARIABLES file,        \* <<nodes_cfg>> as it is on disk, empty if there is none
          gateway,     \* <<the maps it loaded>> while it runs, else empty
          points,      \* positions in the database, by time: <<node_id, node_label>>
          edits,
          current      \* history: the points labelled by the file as it is now

vars == <<file, gateway, points, edits, current>>

\* A key stands once in the file; nothing keeps an id from standing there twice.
Files ==
    UNION {{f \in [1 .. n -> [key : Label, cfg : Entries]] :
               \A j, k \in 1 .. n : j # k => f[j].key # f[k].key} : n \in 0 .. MaxEntries}
-----------------------------------------------------------------------------
Init ==
    /\ file = <<>> /\ gateway = <<>>
    /\ points = <<>>
    /\ edits = 0 /\ current = {}

Edit ==
    /\ edits < MaxEdits
    /\ edits' = edits + 1
    /\ file' = <<>> \/ \E f \in Files : file' = <<f>>
    /\ current' = {}
    /\ UNCHANGED <<gateway, points>>

GatewayStarts ==
    /\ gateway = <<>>
    /\ file # <<>>
    /\ Starts(file[1])
    /\ gateway' = <<[known |-> LoadKnownNodes(file[1]), intervals |-> LoadIntervals(file[1])]>>
    /\ UNCHANGED <<file, points, edits, current>>

GatewayStops ==
    /\ gateway # <<>>
    /\ gateway' = <<>>
    /\ UNCHANGED <<file, points, edits, current>>

\* A position report of a known node reaches the database.
Report(i) ==
    /\ gateway # <<>>
    /\ i \in DOMAIN gateway[1].known
    /\ Len(points) < MaxReports
    /\ points' = Append(points, <<i, gateway[1].known[i]>>)
    /\ current' = IF file # <<>> /\ gateway[1].known = LoadKnownNodes(file[1])
                  THEN current \cup {Len(points')} ELSE current
    /\ UNCHANGED <<file, gateway, edits>>

Next == Edit \/ GatewayStarts \/ GatewayStops \/ \E i \in NodeId : Report(i)

Spec == Init /\ [][Next]_vars
-----------------------------------------------------------------------------
\* The monitor ------------------------------------------------------------
\* get_nodes_position(): the last point of each series, that is of each id and
\* label; keyed by node_id, of the series of one node the last by label.
Series == {points[k] : k \in DOMAIN points}
LastOf(series) ==
    CHOOSE k \in DOMAIN points :
        points[k] = series /\ \A j \in DOMAIN points : points[j] = series => j <= k
Reported ==
    [i \in {s[1] : s \in Series} |->
        LET mine == {s \in Series : s[1] = i}
            kept == CHOOSE s \in mine : \A q \in mine : q[2] <= s[2]
        IN  [label |-> kept[2], fix |-> LastOf(kept)]]

\* The query may fail, which reads as if nothing had been reported.
Answers == {Reported, [i \in {} |-> <<>>]}

\* surveyed_positions(): the entries that are surveyed, by their place.
Surveyed ==
    IF file = <<>> THEN {}
    ELSE {k \in WithId(file[1]) : PositionFor(file[1][k].cfg) # <<>>}
SurveyedIds == {IdAt(file[1], k) : k \in Surveyed}
First(k) == \A j \in Surveyed : IdAt(file[1], j) = IdAt(file[1], k) => k <= j

BySurvey(k, label, fix) ==
    [id |-> IdAt(file[1], k), label |-> label, source |-> "surveyed",
     at |-> PositionFor(file[1][k].cfg), fix |-> fix]
ByGps(i, answer) ==
    [id |-> i, label |-> answer[i].label, source |-> "gps", at |-> <<>>,
     fix |-> <<answer[i].fix>>]
FixFor(k, answer) ==
    IF First(k) /\ IdAt(file[1], k) \in DOMAIN answer
    THEN <<answer[IdAt(file[1], k)].fix>> ELSE <<>>

\* Mutant: what a surveyed node reported is looked up and not taken out.
ApiNodes_Kept(answer) ==
    {BySurvey(k, file[1][k].key, FixFor(k, answer)) : k \in Surveyed}
    \cup {ByGps(i, answer) : i \in DOMAIN answer}

\* api_nodes(): each surveyed entry, the first of a node with what it reported
\* beside; and each other node where it last reported itself.
ApiNodes(answer) ==
    {BySurvey(k, file[1][k].key, FixFor(k, answer)) : k \in Surveyed}
    \cup {ByGps(i, answer) : i \in DOMAIN answer \ SurveyedIds}
-----------------------------------------------------------------------------
IsLatest(k, i) ==
    /\ k \in DOMAIN points /\ points[k][1] = i
    /\ \A j \in DOMAIN points : points[j][1] = i => j <= k

\* Its label now sorts below one under which the node reported before.
FellBack(i) ==
    \E k, j \in DOMAIN points :
        IsLatest(k, i) /\ points[j][1] = i /\ points[j][2] > points[k][2]

\* Nobody who was surveyed is missing, whether or not the database answers; and if
\* it does, a node that ever reported, under however many labels and from however
\* many entries of the file, has one fix on the map: its latest, unless its label
\* fell back (then it is the last under the highest label: section 6 of README).
LatestFixOnce ==
    /\ \A answer \in Answers :
          {n.id : n \in ApiNodes(answer)} = SurveyedIds \cup DOMAIN answer
    /\ \A i \in {s[1] : s \in Series} : \E n \in ApiNodes(Reported) :
          /\ n.id = i /\ n.fix # <<>>
          /\ \A m \in ApiNodes(Reported) : m.id = i /\ m.fix # <<>> => m = n
          /\ IsLatest(n.fix[1], i) \/ FellBack(i)

\* The map calls a node what the database calls its latest position, if that was
\* stored by a gateway that had read the file as it is now, the file has the node
\* once, and its label did not fall back: then the two can be correlated by label.
LabelsAgree ==
    \A n \in ApiNodes(Reported) : \A k \in current :
        /\ IsLatest(k, n.id) /\ ~FellBack(n.id)
        /\ \A j, l \in WithId(file[1]) :
              IdAt(file[1], j) = n.id /\ IdAt(file[1], l) = n.id => j = l
        => n.label = points[k][2]

\* What the map shows matches what the nodes reported, whatever has become of the
\* file, the gateway and the database in between.
MapMatchesReports == LatestFixOnce /\ LabelsAgree
=============================================================================
