------------------------------ MODULE MeshConfig ------------------------------
(***************************************************************************)
(* src/common/mesh_config.py and the loaders of src/gateway/receiver.py:   *)
(* what the entries of mesh_config.json mean.  An entry is a record; an    *)
(* optional value in it is a sequence, empty when absent or null.          *)
(***************************************************************************)
EXTENDS Integers, Sequences

FLOW_KINDS == {"device", "environment", "position"}
DEFAULT_INTERVALS == [device |-> 120, environment |-> 120, position |-> 600]

\* Kinds with a null cadence are not broadcast; without the block, all are.
\* Empty where the code raises ValueError.
IntervalsFor(cfg) ==
    IF cfg.intervals = <<>> THEN <<DEFAULT_INTERVALS>>
    ELSE LET raw == cfg.intervals[1]
         IN  IF \A k \in DOMAIN raw : k \in FLOW_KINDS /\ (raw[k] # <<>> => raw[k][1] > 0)
             THEN <<[k \in {j \in DOMAIN raw : raw[j] # <<>>} |-> raw[k][1]]>>
             ELSE <<>>

\* A surveyed position: two coordinates in range, neither of them unset.  Empty
\* where the code returns None or raises ValueError.
Coordinate(raw, limit) == raw # <<>> /\ raw[1] \in -limit .. limit /\ raw[1] # 0
PositionFor(cfg) ==
    IF cfg.position = <<>> THEN <<>>
    ELSE LET raw == cfg.position[1]
         IN  IF Coordinate(raw.lat, 90) /\ Coordinate(raw.lon, 180) /\ ~raw.unknown
             THEN <<[lat |-> raw.lat[1], lon |-> raw.lon[1]]>>
             ELSE <<>>

\* nodes_cfg, a sequence of keys and entries in the order of the file.  The
\* gateway's maps leave out entries without an id; of an id given twice the last
\* key counts.  An invalid cadence, or nothing to watch, ends the program.
WithId(nodes) == {k \in DOMAIN nodes : nodes[k].cfg.id # <<>>}
IdAt(nodes, k) == nodes[k].cfg.id[1]
LoadKnownNodes(nodes) ==
    [i \in {IdAt(nodes, k) : k \in WithId(nodes)} |->
        LET mine == {k \in WithId(nodes) : IdAt(nodes, k) = i}
        IN  nodes[CHOOSE k \in mine : \A j \in mine : j <= k].key]
LoadIntervals(nodes) ==
    [label \in {nodes[k].key : k \in WithId(nodes)} |->
        IntervalsFor(nodes[CHOOSE k \in WithId(nodes) : nodes[k].key = label].cfg)[1]]
Starts(nodes) ==
    /\ WithId(nodes) # {}
    /\ \A k \in WithId(nodes) : IntervalsFor(nodes[k].cfg) # <<>>
=============================================================================
