---------------------------- MODULE NodeMapProofs ----------------------------
(***************************************************************************)
(* Proofs about the map of the monitor, for any set of nodes and labels,   *)
(* any number of entries in the file, of edits and of reports.             *)
(***************************************************************************)
EXTENDS NodeMap, WellFoundedInduction, TLAPS

LEMMA Smallest ==
    ASSUME NEW S, S \subseteq Nat, S # {}
    PROVE  \E k \in S : \A j \in S : k <= j
<1>1. PICK k \in S : \A j \in S : ~ (<<j, k>> \in OpToRel(<, Nat))
  BY NatLessThanWellFounded, WFMin
<1>2. \A j \in S : ~ (j < k)
  BY <1>1 DEF OpToRel
<1> QED BY <1>2

LEMMA Largest ==
    ASSUME NEW n \in Nat, NEW S, S \subseteq 1 .. n, S # {}
    PROVE  \E k \in S : \A j \in S : j <= k
<1> DEFINE T == {n - k : k \in S}
<1>1. T \subseteq Nat /\ T # {}
  <2>1. \A k \in S : n - k \in Nat
    OBVIOUS
  <2> QED BY <2>1
<1>2. PICK t \in T : \A u \in T : t <= u
  BY <1>1, Smallest
<1>3. PICK k \in S : t = n - k
  BY <1>2
<1>4. \A j \in S : n - k <= n - j
  BY <1>2, <1>3
<1> QED BY <1>4

\* What is on disk, in the gateway and in the database -------------------------
Known(f) == LoadKnownNodes(f)

\* The file is one an operator can write; the gateway knows nodes by labels; a
\* point counted as current has the label that the file gives its node.
Stored ==
    /\ file = <<>> \/ \E f \in Files : file = <<f>>
    /\ gateway # <<>> => \A i \in DOMAIN gateway[1].known : gateway[1].known[i] \in Label
    /\ points \in Seq(NodeId \X Label)
    /\ current \subseteq DOMAIN points
    /\ \A k \in current :
          /\ file # <<>> /\ points[k][1] \in DOMAIN Known(file[1])
          /\ points[k][2] = Known(file[1])[points[k][1]]

LEMMA FileIs ==
    ASSUME NEW f \in Files
    PROVE  /\ \E n \in Nat : DOMAIN f = 1 .. n
           /\ \A k \in DOMAIN f : f[k].key \in Label /\ f[k].cfg \in Entries
           /\ \A j, k \in DOMAIN f : j # k => f[j].key # f[k].key
           /\ WithId(f) \subseteq DOMAIN f
<1>1. PICK n \in 0 .. MaxEntries :
          /\ f \in [1 .. n -> [key : Label, cfg : Entries]]
          /\ \A j, k \in 1 .. n : j # k => f[j].key # f[k].key
  BY DEF Files
<1>2. n \in Nat
  BY MapAssumption
<1> QED BY <1>1, <1>2 DEF WithId

\* The label of a node is the key of its last entry.
LEMMA KnownIs ==
    ASSUME NEW f \in Files, NEW k \in WithId(f)
    PROVE  /\ IdAt(f, k) \in DOMAIN Known(f)
           /\ \E j \in WithId(f) : IdAt(f, j) = IdAt(f, k) /\ Known(f)[IdAt(f, k)] = f[j].key
<1> DEFINE i == IdAt(f, k)
           mine == {j \in WithId(f) : IdAt(f, j) = i}
<1>1. PICK n \in Nat : DOMAIN f = 1 .. n
  BY FileIs
<1>2. mine \subseteq 1 .. n /\ k \in mine
  BY <1>1, FileIs
<1>3. \E m \in mine : \A j \in mine : j <= m
  BY <1>1, <1>2, Largest
<1>4. /\ i \in DOMAIN Known(f)
      /\ Known(f)[i] = f[CHOOSE m \in mine : \A j \in mine : j <= m].key
  BY DEF Known, LoadKnownNodes
<1> QED BY <1>3, <1>4

LEMMA KnownLabels ==
    ASSUME NEW f \in Files, NEW i \in DOMAIN Known(f)
    PROVE  Known(f)[i] \in Label
<1>1. PICK k \in WithId(f) : i = IdAt(f, k)
  BY DEF Known, LoadKnownNodes
<1>2. PICK j \in WithId(f) : Known(f)[i] = f[j].key
  BY <1>1, KnownIs
<1> QED BY <1>2, FileIs

LEMMA StoredInit == Init => Stored
BY DEF Init, Stored

LEMMA StoredNext == Stored /\ [Next]_vars => Stored'
<1> SUFFICES ASSUME Stored, [Next]_vars PROVE Stored'
  OBVIOUS
<1>1. CASE Edit
  <2>1. file' = <<>> \/ \E f \in Files : file' = <<f>>
    BY <1>1 DEF Edit
  <2>2. current' = {} /\ gateway' = gateway /\ points' = points
    BY <1>1 DEF Edit
  <2> QED BY <2>1, <2>2 DEF Stored
<1>2. CASE GatewayStarts
  <2>1. PICK f \in Files : file = <<f>> /\ file' = file
    BY <1>2 DEF GatewayStarts, Stored
  <2>2. gateway'[1].known = Known(f)
    BY <1>2, <2>1 DEF GatewayStarts, Known
  <2>3. \A i \in DOMAIN gateway'[1].known : gateway'[1].known[i] \in Label
    BY <2>2, KnownLabels
  <2> QED BY <1>2, <2>3 DEF GatewayStarts, Stored
<1>3. CASE GatewayStops
  BY <1>3 DEF GatewayStops, Stored
<1>4. ASSUME NEW i \in NodeId, Report(i) PROVE Stored'
  <2> DEFINE label == gateway[1].known[i]
             p == <<i, label>>
  <2>1. p \in NodeId \X Label /\ points \in Seq(NodeId \X Label) /\ Len(points) \in Nat
    BY <1>4 DEF Report, Stored
  <2>2. points' = Append(points, p) /\ file' = file /\ gateway' = gateway
    BY <1>4 DEF Report
  <2>3. /\ points' \in Seq(NodeId \X Label) /\ Len(points') = Len(points) + 1
        /\ DOMAIN points = 1 .. Len(points) /\ DOMAIN points' = 1 .. Len(points) + 1
        /\ points'[Len(points) + 1] = p
        /\ \A k \in DOMAIN points : points'[k] = points[k]
    BY <2>1, <2>2
  <2>4. ASSUME NEW k \in current'
        PROVE  /\ k \in DOMAIN points'
               /\ file # <<>> /\ points'[k][1] \in DOMAIN Known(file[1])
               /\ points'[k][2] = Known(file[1])[points'[k][1]]
    <3>1. CASE k \in current
      <4>1. k \in DOMAIN points /\ points'[k] = points[k]
        BY <2>3, <3>1 DEF Stored
      <4> QED BY <2>1, <2>3, <3>1, <4>1 DEF Stored
    <3>2. CASE k \notin current
      <4>1. k = Len(points) + 1 /\ file # <<>> /\ gateway[1].known = Known(file[1])
        BY <1>4, <2>3, <3>2 DEF Report, Known
      <4>2. points'[k][1] = i /\ points'[k][2] = label /\ i \in DOMAIN gateway[1].known
        BY <1>4, <2>3, <4>1 DEF Report
      <4> QED BY <2>1, <2>3, <4>1, <4>2
    <3> QED BY <3>1, <3>2
  <2> QED BY <2>2, <2>3, <2>4 DEF Stored
<1>5. CASE UNCHANGED vars
  BY <1>5 DEF vars, Stored
<1> QED BY <1>1, <1>2, <1>3, <1>4, <1>5 DEF Next

\* What the database answers ----------------------------------------------------
LEMMA LatestExists ==
    ASSUME Stored, NEW s \in Series
    PROVE  \E k : IsLatest(k, s[1])
<1> DEFINE S == {k \in DOMAIN points : points[k][1] = s[1]}
<1>1. DOMAIN points = 1 .. Len(points) /\ Len(points) \in Nat
  BY DEF Stored
<1>2. S \subseteq 1 .. Len(points) /\ S # {}
  BY <1>1 DEF Series
<1>3. PICK k \in S : \A j \in S : j <= k
  BY <1>1, <1>2, Largest
<1> QED BY <1>3 DEF IsLatest

\* The fix and the label of a node are those of its latest point, unless its label
\* fell back: of its series, that of its latest point is the last by label.
LEMMA ReportedIs ==
    ASSUME Stored, NEW i, NEW k, IsLatest(k, i), ~FellBack(i)
    PROVE  Reported[i] = [label |-> points[k][2], fix |-> k]
<1> DEFINE mine == {s \in Series : s[1] = i}
           kept == CHOOSE s \in mine : \A q \in mine : q[2] <= s[2]
<1>0. DOMAIN points = 1 .. Len(points) /\ Len(points) \in Nat
      /\ \A j \in DOMAIN points : points[j] \in NodeId \X Label
  BY DEF Stored
<1>1. ASSUME NEW s \in mine
      PROVE  s = <<i, s[2]>> /\ s[2] \in Nat /\ \E j \in DOMAIN points : s = points[j]
  <2>1. PICK j \in DOMAIN points : s = points[j]
    BY DEF Series
  <2>2. s \in NodeId \X Label /\ s[1] = i
    BY <1>0, <2>1
  <2>3. s = <<s[1], s[2]>> /\ s[2] \in Label
    BY <2>2
  <2> QED BY <2>1, <2>2, <2>3, MapAssumption
<1>2. points[k] \in mine
  BY DEF IsLatest, Series
<1>3. \A q \in mine : q[2] <= points[k][2]
  <2>1. ASSUME NEW j \in DOMAIN points, points[j][1] = i PROVE ~(points[j][2] > points[k][2])
    <3>1. k \in DOMAIN points /\ IsLatest(k, i) /\ ~FellBack(i)
      BY DEF IsLatest
    <3> QED BY <2>1, <3>1 DEF FellBack
  <2> SUFFICES ASSUME NEW q \in mine PROVE q[2] <= points[k][2]
    OBVIOUS
  <2>2. PICK j \in DOMAIN points : q = points[j]
    BY <1>1
  <2>3. q[1] = i /\ q[2] \in Nat /\ points[k][2] \in Nat
    BY <1>1, <1>2
  <2>4. ~(q[2] > points[k][2])
    BY <2>1, <2>2, <2>3
  <2> QED BY <2>3, <2>4
<1>4. kept \in mine /\ points[k][2] <= kept[2]
  BY <1>2, <1>3
<1>5. kept = points[k]
  BY <1>1, <1>2, <1>3, <1>4
<1>6. LastOf(points[k]) = k
  <2>1. k \in DOMAIN points /\ \A j \in DOMAIN points : points[j] = points[k] => j <= k
    BY DEF IsLatest
  <2>2. \A j \in DOMAIN points : points[j] = points[k] /\ k <= j => j = k
    BY <1>0, <2>1
  <2> QED BY <1>0, <2>1, <2>2 DEF LastOf
<1>7. i \in {s[1] : s \in Series}
  BY <1>2
<1>8. Reported[i] = [label |-> kept[2], fix |-> LastOf(kept)]
  BY <1>7 DEF Reported
<1> QED BY <1>5, <1>6, <1>8

\* What the map shows -------------------------------------------------------------
LEMMA SurveyedIs ==
    ASSUME Stored, NEW k \in Surveyed
    PROVE  /\ k \in Nat /\ k \in WithId(file[1])
           /\ file[1] \in Files /\ file # <<>>
           /\ \E j \in Surveyed : IdAt(file[1], j) = IdAt(file[1], k) /\ First(j)
<1>1. file # <<>>
  BY DEF Surveyed
<1>2. PICK f \in Files : file = <<f>>
  BY <1>1 DEF Stored
<1>3. Surveyed \subseteq WithId(f)
  BY <1>1, <1>2 DEF Surveyed
<1>4. Surveyed \subseteq Nat
  BY <1>3, FileIs
<1> DEFINE S == {j \in Surveyed : IdAt(f, j) = IdAt(f, k)}
<1>5. PICK j \in S : \A m \in S : j <= m
  BY <1>4, Smallest
<1> QED BY <1>1, <1>2, <1>3, <1>4, <1>5 DEF First

LEMMA ShownIs ==
    ASSUME NEW answer, NEW n
    PROVE  n \in ApiNodes(answer) <=>
              \/ \E k \in Surveyed : n = BySurvey(k, file[1][k].key, FixFor(k, answer))
              \/ \E i \in DOMAIN answer \ SurveyedIds : n = ByGps(i, answer)
BY DEF ApiNodes

LEMMA BySurveyIs ==
    ASSUME NEW k, NEW label, NEW fix
    PROVE  LET n == BySurvey(k, label, fix)
           IN  n.id = IdAt(file[1], k) /\ n.label = label /\ n.fix = fix
BY DEF BySurvey

LEMMA ByGpsIs ==
    ASSUME NEW i, NEW answer
    PROVE  LET n == ByGps(i, answer)
           IN  n.id = i /\ n.label = answer[i].label /\ n.fix = <<answer[i].fix>>
BY DEF ByGps

LEMMA NobodyMissing ==
    ASSUME NEW answer
    PROVE  {n.id : n \in ApiNodes(answer)} = SurveyedIds \cup DOMAIN answer
<1>1. ASSUME NEW n \in ApiNodes(answer) PROVE n.id \in SurveyedIds \cup DOMAIN answer
  BY ShownIs, BySurveyIs, ByGpsIs DEF SurveyedIds
<1>2. ASSUME NEW i \in SurveyedIds PROVE \E n \in ApiNodes(answer) : n.id = i
  <2>1. PICK k \in Surveyed : i = IdAt(file[1], k)
    BY DEF SurveyedIds
  <2>2. BySurvey(k, file[1][k].key, FixFor(k, answer)) \in ApiNodes(answer)
    BY ShownIs
  <2> QED BY <2>1, <2>2, BySurveyIs
<1>3. ASSUME NEW i \in DOMAIN answer \ SurveyedIds PROVE \E n \in ApiNodes(answer) : n.id = i
  <2>1. ByGps(i, answer) \in ApiNodes(answer)
    BY ShownIs
  <2> QED BY <2>1, ByGpsIs
<1> QED BY <1>1, <1>2, <1>3

\* One of the places where a node is shown carries what it reported.
LEMMA FixIsOnce ==
    ASSUME Stored, NEW answer, NEW i \in DOMAIN answer
    PROVE  \E n \in ApiNodes(answer) :
              /\ n.id = i /\ n.fix = <<answer[i].fix>>
              /\ \A m \in ApiNodes(answer) : m.id = i /\ m.fix # <<>> => m = n
<1>1. CASE i \in SurveyedIds
  <2>1. PICK j \in Surveyed : IdAt(file[1], j) = i /\ First(j)
    BY <1>1, SurveyedIs DEF SurveyedIds
  <2> DEFINE n == BySurvey(j, file[1][j].key, FixFor(j, answer))
  <2>2. n \in ApiNodes(answer)
    BY ShownIs
  <2>3. n.id = i /\ n.fix = <<answer[i].fix>>
    BY <2>1, BySurveyIs DEF FixFor
  <2>4. ASSUME NEW m \in ApiNodes(answer), m.id = i, m.fix # <<>> PROVE m = n
    <3>1. PICK k \in Surveyed : m = BySurvey(k, file[1][k].key, FixFor(k, answer))
      BY <1>1, <2>4, ShownIs, ByGpsIs
    <3>2. IdAt(file[1], k) = i /\ FixFor(k, answer) # <<>>
      BY <2>4, <3>1, BySurveyIs
    <3>3. First(k)
      BY <3>2 DEF FixFor
    <3>4. k <= j /\ j <= k /\ j \in Nat /\ k \in Nat
      BY <2>1, <3>2, <3>3, SurveyedIs DEF First
    <3> QED BY <3>1, <3>4
  <2> HIDE DEF n
  <2> QED BY <2>2, <2>3, <2>4
<1>2. CASE i \notin SurveyedIds
  <2> DEFINE n == ByGps(i, answer)
  <2>1. n \in ApiNodes(answer)
    BY <1>2, ShownIs
  <2>2. n.id = i /\ n.fix = <<answer[i].fix>>
    BY ByGpsIs
  <2>3. ASSUME NEW m \in ApiNodes(answer), m.id = i PROVE m = n
    <3>1. ASSUME NEW k \in Surveyed, m = BySurvey(k, file[1][k].key, FixFor(k, answer))
          PROVE  FALSE
      BY <1>2, <2>3, <3>1, BySurveyIs DEF SurveyedIds
    <3> QED BY <2>3, <3>1, ShownIs, ByGpsIs
  <2> HIDE DEF n
  <2> QED BY <2>1, <2>2, <2>3
<1> QED BY <1>1, <1>2

LEMMA FixesMatch ==
    ASSUME Stored
    PROVE  LatestFixOnce
<1>1. \A answer \in Answers : {n.id : n \in ApiNodes(answer)} = SurveyedIds \cup DOMAIN answer
  BY NobodyMissing
<1>2. ASSUME NEW i \in {s[1] : s \in Series}
      PROVE  \E n \in ApiNodes(Reported) :
                /\ n.id = i /\ n.fix # <<>>
                /\ \A m \in ApiNodes(Reported) : m.id = i /\ m.fix # <<>> => m = n
                /\ IsLatest(n.fix[1], i) \/ FellBack(i)
  <2>1. i \in DOMAIN Reported
    BY DEF Reported
  <2>2. PICK n \in ApiNodes(Reported) :
            /\ n.id = i /\ n.fix = <<Reported[i].fix>>
            /\ \A m \in ApiNodes(Reported) : m.id = i /\ m.fix # <<>> => m = n
    BY <2>1, FixIsOnce
  <2>3. PICK k : IsLatest(k, i)
    BY <1>2, LatestExists
  <2>4. ASSUME ~FellBack(i) PROVE n.fix[1] = k
    <3>1. Reported[i] = [label |-> points[k][2], fix |-> k]
      BY <2>3, <2>4, ReportedIs
    <3> QED BY <2>2, <3>1
  <2> QED BY <2>2, <2>3, <2>4
<1> QED BY <1>1, <1>2 DEF LatestFixOnce

LEMMA LabelsMatch ==
    ASSUME Stored
    PROVE  LabelsAgree
<1> SUFFICES ASSUME NEW n \in ApiNodes(Reported), NEW k \in current,
                    IsLatest(k, n.id), ~FellBack(n.id),
                    \A j, l \in WithId(file[1]) :
                       IdAt(file[1], j) = n.id /\ IdAt(file[1], l) = n.id => j = l
             PROVE  n.label = points[k][2]
  BY DEF LabelsAgree
<1>1. ASSUME NEW j \in Surveyed, n = BySurvey(j, file[1][j].key, FixFor(j, Reported))
      PROVE  n.label = points[k][2]
  <2>1. n.id = IdAt(file[1], j) /\ n.label = file[1][j].key
    BY <1>1, BySurveyIs
  <2>2. j \in WithId(file[1]) /\ file[1] \in Files
    BY SurveyedIs
  <2>3. PICK l \in WithId(file[1]) :
            IdAt(file[1], l) = n.id /\ Known(file[1])[n.id] = file[1][l].key
    BY <2>1, <2>2, KnownIs
  <2>4. l = j
    BY <2>1, <2>2, <2>3
  <2>5. points[k][2] = Known(file[1])[n.id]
    BY DEF Stored, IsLatest
  <2> QED BY <2>1, <2>3, <2>4, <2>5
<1>2. ASSUME NEW i \in DOMAIN Reported \ SurveyedIds, n = ByGps(i, Reported)
      PROVE  n.label = points[k][2]
  <2>1. n.id = i /\ n.label = Reported[i].label
    BY <1>2, ByGpsIs
  <2>2. IsLatest(k, i) /\ ~FellBack(i)
    BY <2>1
  <2>3. Reported[i] = [label |-> points[k][2], fix |-> k]
    BY <2>2, ReportedIs
  <2> QED BY <2>1, <2>3
<1> QED BY <1>1, <1>2, ShownIs

\* The map (app.py: api_nodes) matches what was reported, for any nodes, labels,
\* edits (also of files that have an id twice), restarts and reports: nobody who
\* was surveyed is missing; whoever ever reported has one fix there, its latest
\* unless its label fell back; and the labels are those of the database, for a node
\* the file has once and whose latest position was labelled by the file as it is.
THEOREM MapMatches == Spec => []MapMatchesReports
<1>1. Stored => MapMatchesReports
  BY FixesMatch, LabelsMatch DEF MapMatchesReports
<1> QED BY <1>1, StoredInit, StoredNext, PTL DEF Spec
=============================================================================
