---------------------------- MODULE NodeLogProofs ----------------------------
(***************************************************************************)
(* Proofs about the collector of a node's console, for every set of        *)
(* packets, every loss on the console and every bound.                     *)
(***************************************************************************)
EXTENDS NodeLog, FiniteSetTheorems, SequenceTheorems, TLAPS

\* Maps keyed by packets -------------------------------------------------------
Maps(R) == UNION {[D -> R] : D \in SUBSET Pkt}

LEMMA MapIs ==
    ASSUME NEW R, NEW m
    PROVE  m \in Maps(R) <=> DOMAIN m \subseteq Pkt /\ m \in [DOMAIN m -> R]
BY DEF Maps

\* Forgetting some packets leaves the others as they are; so does adding one,
\* and replacing what is kept of one.
LEMMA RestrictIs ==
    ASSUME NEW m, NEW D
    PROVE  DOMAIN Restrict(m, D) = D /\ \A p \in D : Restrict(m, D)[p] = m[p]
BY DEF Restrict

LEMMA WithIs ==
    ASSUME NEW m, NEW p, NEW r
    PROVE  /\ DOMAIN With(m, p, r) = DOMAIN m \cup {p}
           /\ With(m, p, r)[p] = r
           /\ \A q \in DOMAIN m : q # p => With(m, p, r)[q] = m[q]
BY DEF With

LEMMA ReplacedIs ==
    ASSUME NEW m, NEW p \in DOMAIN m, NEW r
    PROVE  /\ DOMAIN [m EXCEPT ![p] = r] = DOMAIN m
           /\ [m EXCEPT ![p] = r][p] = r
           /\ \A q \in DOMAIN m : q # p => [m EXCEPT ![p] = r][q] = m[q]
OBVIOUS

LEMMA MapsAre ==
    ASSUME NEW R, NEW m \in Maps(R)
    PROVE  /\ \A D \in SUBSET DOMAIN m : Restrict(m, D) \in Maps(R)
           /\ \A p \in Pkt, r \in R : With(m, p, r) \in Maps(R)
           /\ \A p \in DOMAIN m, r \in R : [m EXCEPT ![p] = r] \in Maps(R)
<1>1. m \in [DOMAIN m -> R] /\ DOMAIN m \subseteq Pkt
  BY MapIs
<1>2. ASSUME NEW D \in SUBSET DOMAIN m PROVE Restrict(m, D) \in Maps(R)
  <2>1. Restrict(m, D) \in [D -> R]
    BY <1>1 DEF Restrict
  <2> QED BY <1>1, <2>1, MapIs, RestrictIs
<1>3. ASSUME NEW p \in Pkt, NEW r \in R PROVE With(m, p, r) \in Maps(R)
  <2>1. With(m, p, r) \in [DOMAIN m \cup {p} -> R]
    BY <1>1 DEF With
  <2> QED BY <1>1, <2>1, MapIs, WithIs
<1>4. ASSUME NEW p \in DOMAIN m, NEW r \in R PROVE [m EXCEPT ![p] = r] \in Maps(R)
  <2>1. [m EXCEPT ![p] = r] \in [DOMAIN m -> R]
    BY <1>1
  <2> QED BY <1>1, <2>1, MapIs
<1> QED BY <1>2, <1>3, <1>4

\* The tracker ----------------------------------------------------------------
Rec      == [attempts: Nat, airtime: Nat, uptime: Nat, seen: Nat]
Entry    == [outcome: Outcomes, attempts: Nat, airtime: Nat]
Inflight == Maps(Rec)
Reported == [Pkt -> Seq(Entry)]
LogState ==
    [inflight: Inflight, lastTx: Pkt \cup {Other, Nothing}, uptime: Nat \cup {Nothing},
     txOther: Nat, reboots: Nat, published: Reported]

LEMMA InflightIs ==
    ASSUME NEW m
    PROVE  m \in Inflight <=> DOMAIN m \subseteq Pkt /\ m \in [DOMAIN m -> Rec]
BY MapIs DEF Inflight

\* A packet leaves with its outcome; the others stay as they are.
Told(s, p, o) ==
    Append(s.published[p], [outcome |-> o, attempts |-> s.inflight[p].attempts,
                            airtime |-> s.inflight[p].airtime])

LEMMA FinishedIs ==
    ASSUME NEW s \in LogState, NEW o, DOMAIN o \subseteq DOMAIN s.inflight,
           \A p \in DOMAIN o : o[p] \in Outcomes
    PROVE  /\ Finished(s, o) \in LogState
           /\ Finished(s, o).lastTx = s.lastTx /\ Finished(s, o).uptime = s.uptime
           /\ Finished(s, o).txOther = s.txOther
           /\ DOMAIN Finished(s, o).inflight = DOMAIN s.inflight \ DOMAIN o
           /\ \A p \in DOMAIN s.inflight \ DOMAIN o :
                 Finished(s, o).inflight[p] = s.inflight[p]
           /\ \A p \in Pkt : Finished(s, o).published[p] =
                 IF p \in DOMAIN o THEN Told(s, p, o[p]) ELSE s.published[p]
<1> DEFINE m == Restrict(s.inflight, DOMAIN s.inflight \ DOMAIN o)
           r == [p \in Pkt |-> IF p \in DOMAIN o THEN Told(s, p, o[p]) ELSE s.published[p]]
<1>1. s.inflight \in Inflight /\ s.published \in Reported
  BY DEF LogState
<1>2. /\ m \in Inflight /\ DOMAIN m = DOMAIN s.inflight \ DOMAIN o
      /\ \A p \in DOMAIN m : m[p] = s.inflight[p]
  BY <1>1, RestrictIs, MapsAre DEF Inflight
<1>3. r \in Reported
  <2>1. ASSUME NEW p \in Pkt PROVE r[p] \in Seq(Entry)
    <3>1. CASE p \in DOMAIN o
      <4>1. s.inflight[p] \in Rec
        BY <1>1, <3>1, InflightIs
      <4>2. [outcome |-> o[p], attempts |-> s.inflight[p].attempts,
             airtime |-> s.inflight[p].airtime] \in Entry
        BY <3>1, <4>1 DEF Entry, Rec
      <4>3. s.published[p] \in Seq(Entry)
        BY <1>1 DEF Reported
      <4> QED BY <3>1, <4>2, <4>3 DEF Told
    <3>2. CASE p \notin DOMAIN o
      BY <1>1, <3>2 DEF Reported
    <3> QED BY <3>1, <3>2
  <2> QED BY <2>1 DEF Reported
<1>4. Finished(s, o) = [s EXCEPT !.inflight = m, !.published = r]
  BY DEF Finished, Told
<1> HIDE DEF m, r
<1>5. Finished(s, o) \in LogState
  BY <1>2, <1>3, <1>4 DEF LogState
<1>6. Finished(s, o).inflight = m /\ Finished(s, o).published = r
      /\ Finished(s, o).lastTx = s.lastTx /\ Finished(s, o).uptime = s.uptime
      /\ Finished(s, o).txOther = s.txOther
  BY <1>4 DEF LogState
<1> QED BY <1>2, <1>5, <1>6 DEF r

\* What is kept of the state by an operator that only resolves packets.
Rest(s, t) == t.lastTx = s.lastTx /\ t.uptime = s.uptime /\ t.txOther = s.txOther

LEMMA ExpiredIs ==
    ASSUME NEW s \in LogState, NEW now \in Nat
    PROVE  /\ Expired(s, now) \in LogState
           /\ Rest(s, Expired(s, now))
           /\ DOMAIN Expired(s, now).inflight = DOMAIN s.inflight \ Overdue(s, now)
           /\ \A p \in DOMAIN s.inflight \ Overdue(s, now) :
                 Expired(s, now).inflight[p] = s.inflight[p]
           /\ \A p \in Pkt : Expired(s, now).published[p] =
                 IF p \in Overdue(s, now)
                 THEN Told(s, p, IF s.inflight[p].attempts > 0 THEN "unacked"
                                 ELSE "dropped_before_tx")
                 ELSE s.published[p]
<1> DEFINE o == [p \in Overdue(s, now) |->
                    IF s.inflight[p].attempts > 0 THEN "unacked" ELSE "dropped_before_tx"]
<1>1. DOMAIN o = Overdue(s, now) /\ DOMAIN o \subseteq DOMAIN s.inflight
  BY DEF Overdue
<1>2. \A p \in DOMAIN o : o[p] \in Outcomes
  BY DEF Outcomes
<1>3. Expired(s, now) = Finished(s, o)
  BY DEF Expired
<1>4. \A p \in DOMAIN o : o[p] = IF s.inflight[p].attempts > 0 THEN "unacked"
                                 ELSE "dropped_before_tx"
  OBVIOUS
<1> HIDE DEF o
<1> QED BY <1>1, <1>2, <1>3, <1>4, FinishedIs DEF Rest

LEMMA NotedIs ==
    ASSUME NEW s \in LogState, NEW up \in Nat
    PROVE  /\ Noted(s, up) \in LogState /\ Noted(s, up).uptime = up
           /\ Noted(s, up).txOther = s.txOther
           /\ \/ /\ s.uptime <= up
                 /\ Noted(s, up).inflight = s.inflight
                 /\ Noted(s, up).published = s.published
                 /\ Noted(s, up).lastTx = s.lastTx
              \/ /\ up < s.uptime
                 /\ Noted(s, up).lastTx = Nothing
                 /\ DOMAIN Noted(s, up).inflight = {}
                 /\ \A p \in Pkt : Noted(s, up).published[p] =
                       IF p \in DOMAIN s.inflight THEN Told(s, p, "lost_to_reboot")
                       ELSE s.published[p]
<1>1. s.uptime \in Int
  BY DEF LogState, Nothing
<1>2. CASE up >= s.uptime
  <2>1. Noted(s, up) = [s EXCEPT !.uptime = up]
    BY <1>2 DEF Noted
  <2> QED BY <1>1, <1>2, <2>1 DEF LogState
<1>3. CASE up < s.uptime
  <2> DEFINE r == [s EXCEPT !.uptime = up, !.lastTx = Nothing, !.reboots = @ + 1]
             o == [p \in DOMAIN s.inflight |-> "lost_to_reboot"]
  <2>1. r \in LogState /\ r.inflight = s.inflight /\ r.published = s.published
        /\ r.uptime = up /\ r.txOther = s.txOther /\ r.lastTx = Nothing
    <3>1. s.reboots + 1 \in Nat
      BY DEF LogState
    <3>2. r.inflight = s.inflight /\ r.published = s.published
          /\ r.uptime = up /\ r.txOther = s.txOther /\ r.lastTx = Nothing
      BY DEF LogState
    <3>3. r \in LogState
      BY <3>1 DEF LogState
    <3> QED BY <3>2, <3>3
  <2>2. Noted(s, up) = Finished(r, o)
    BY <1>1, <1>3 DEF Noted
  <2>3. DOMAIN o = DOMAIN s.inflight /\ \A p \in DOMAIN o : o[p] = "lost_to_reboot"
        /\ o[p] \in Outcomes
    BY DEF Outcomes
  <2>4. \A p \in DOMAIN o : Told(r, p, o[p]) = Told(s, p, "lost_to_reboot")
    BY <2>1, <2>3 DEF Told
  <2> HIDE DEF r, o
  <2>5. Finished(r, o) \in LogState /\ Finished(r, o).uptime = up
        /\ Finished(r, o).txOther = s.txOther /\ Finished(r, o).lastTx = Nothing
        /\ DOMAIN Finished(r, o).inflight = {}
    BY <2>1, <2>3, FinishedIs
  <2>6. \A p \in Pkt : Finished(r, o).published[p] =
            IF p \in DOMAIN s.inflight THEN Told(s, p, "lost_to_reboot")
            ELSE s.published[p]
    BY <2>1, <2>3, <2>4, FinishedIs
  <2> QED BY <1>3, <2>2, <2>5, <2>6
<1> QED BY <1>1, <1>2, <1>3

LEMMA HandedIs ==
    ASSUME NEW s \in LogState, NEW p \in Pkt, NEW up \in Nat, NEW now \in Nat
    PROVE  /\ Handed(s, p, up, now) \in LogState
           /\ Rest(s, Handed(s, p, up, now))
           /\ Handed(s, p, up, now).published = s.published
           /\ DOMAIN Handed(s, p, up, now).inflight = DOMAIN s.inflight \cup {p}
           /\ \A q \in DOMAIN s.inflight :
                 Handed(s, p, up, now).inflight[q] = s.inflight[q]
           /\ p \notin DOMAIN s.inflight =>
                 Handed(s, p, up, now).inflight[p] = Record(up, now)
<1>1. CASE p \in DOMAIN s.inflight
  BY <1>1 DEF Handed, Rest
<1>2. CASE p \notin DOMAIN s.inflight
  <2>0. PICK r : r = Record(up, now)
    OBVIOUS
  <2> DEFINE m == With(s.inflight, p, r)
  <2>1. Record(up, now) \in Rec /\ s.inflight \in Inflight
    <3>1. Record(up, now) \in Rec
      BY DEF Record, Rec
    <3>2. s.inflight \in Inflight
      BY DEF LogState
    <3> QED BY <3>1, <3>2
  <2>2. /\ m \in Inflight /\ DOMAIN m = DOMAIN s.inflight \cup {p}
        /\ m[p] = r /\ \A q \in DOMAIN s.inflight : m[q] = s.inflight[q]
    <3>1. r \in Rec
      BY <2>0, <2>1
    <3>2. /\ m \in Inflight /\ DOMAIN m = DOMAIN s.inflight \cup {p} /\ m[p] = r
          /\ \A q \in DOMAIN s.inflight : q # p => m[q] = s.inflight[q]
      <4>1. m \in Inflight
        BY <2>1, <3>1, MapsAre DEF Inflight
      <4>2. DOMAIN m = DOMAIN s.inflight \cup {p}
        BY WithIs
      <4>3. m[p] = r
        BY DEF With
      <4>4. \A q \in DOMAIN s.inflight : q # p => m[q] = s.inflight[q]
        BY DEF With
      <4> QED BY <4>1, <4>2, <4>3, <4>4
    <3> QED BY <1>2, <3>2
  <2>3. Handed(s, p, up, now) = [s EXCEPT !.inflight = m]
    BY <1>2, <2>0 DEF Handed
  <2> HIDE DEF m
  <2> QED BY <1>2, <2>0, <2>2, <2>3 DEF LogState, Rest
<1> QED BY <1>1, <1>2

LEMMA TxStartedIs ==
    ASSUME NEW s \in LogState, NEW p \in Pkt \cup {Other}
    PROVE  /\ TxStarted(s, p) \in LogState
           /\ TxStarted(s, p).inflight = s.inflight
           /\ TxStarted(s, p).published = s.published
           /\ TxStarted(s, p).uptime = s.uptime
           /\ TxStarted(s, p).lastTx = p
           /\ TxStarted(s, p).txOther =
                 IF p \in DOMAIN s.inflight THEN s.txOther ELSE s.txOther + 1
<1> DEFINE n == IF p \in DOMAIN s.inflight THEN s.txOther ELSE s.txOther + 1
<1>1. n \in Nat
  BY DEF LogState
<1>2. TxStarted(s, p) = [s EXCEPT !.lastTx = p, !.txOther = n]
  BY DEF TxStarted
<1> HIDE DEF n
<1>3. TxStarted(s, p) \in LogState
  BY <1>1, <1>2 DEF LogState
<1>4. /\ TxStarted(s, p).inflight = s.inflight /\ TxStarted(s, p).published = s.published
      /\ TxStarted(s, p).uptime = s.uptime /\ TxStarted(s, p).lastTx = p
      /\ TxStarted(s, p).txOther = n
  BY <1>1, <1>2 DEF LogState
<1> QED BY <1>3, <1>4 DEF n

LEMMA AirtimeIs ==
    ASSUME NEW s \in LogState
    PROVE  /\ Airtime(s) \in LogState
           /\ Rest(s, Airtime(s)) /\ Airtime(s).published = s.published
           /\ DOMAIN Airtime(s).inflight = DOMAIN s.inflight
           /\ \A q \in DOMAIN s.inflight :
                 /\ Airtime(s).inflight[q].attempts = s.inflight[q].attempts
                 /\ Airtime(s).inflight[q].uptime = s.inflight[q].uptime
                 /\ Airtime(s).inflight[q].seen = s.inflight[q].seen
                 /\ Airtime(s).inflight[q].airtime =
                       IF q = s.lastTx THEN s.inflight[q].airtime + 1
                       ELSE s.inflight[q].airtime
<1>1. CASE s.lastTx \notin DOMAIN s.inflight
  BY <1>1 DEF Airtime, Rest
<1>2. CASE s.lastTx \in DOMAIN s.inflight
  <2> DEFINE p == s.lastTx
             r == [s.inflight[p] EXCEPT !.airtime = @ + 1]
             m == [s.inflight EXCEPT ![p] = r]
  <2>1. s.inflight \in Inflight /\ s.inflight[p] \in Rec
    BY <1>2, InflightIs DEF LogState
  <2>2. /\ r \in Rec /\ r.airtime = s.inflight[p].airtime + 1
        /\ r.attempts = s.inflight[p].attempts /\ r.uptime = s.inflight[p].uptime
        /\ r.seen = s.inflight[p].seen
    BY <2>1 DEF Rec
  <2>3. Airtime(s) = [s EXCEPT !.inflight = m]
    BY <1>2 DEF Airtime
  <2> HIDE DEF r
  <2>4. /\ m \in Inflight /\ DOMAIN m = DOMAIN s.inflight /\ m[p] = r
        /\ \A q \in DOMAIN s.inflight : q # p => m[q] = s.inflight[q]
    BY <1>2, <2>1, <2>2, ReplacedIs, MapsAre DEF Inflight
  <2> HIDE DEF m
  <2>5. Airtime(s) \in LogState /\ Rest(s, Airtime(s)) /\ Airtime(s).published = s.published
        /\ Airtime(s).inflight = m
    BY <2>3, <2>4 DEF LogState, Rest
  <2> QED BY <2>2, <2>4, <2>5
<1> QED BY <1>1, <1>2

Sent(s, p) ==
    [outcome |-> "sent", attempts |-> s.inflight[p].attempts + 1,
     airtime |-> s.inflight[p].airtime]

DoneTells(s, d, p, up, now) ==
    /\ p \notin DOMAIN s.inflight => d = s
    /\ \A q \in Pkt : q # p =>
          /\ d.published[q] = s.published[q]
          /\ q \in DOMAIN d.inflight <=> q \in DOMAIN s.inflight
          /\ q \in DOMAIN s.inflight => d.inflight[q] = s.inflight[q]
    /\ p \in DOMAIN s.inflight /\ p \in WantAck =>
          /\ p \in DOMAIN d.inflight
          /\ d.inflight[p] = Counted(s.inflight[p], up, now)
          /\ d.published[p] = s.published[p]
    /\ p \in DOMAIN s.inflight /\ p \notin WantAck =>
          /\ p \notin DOMAIN d.inflight
          /\ d.published[p] = Append(s.published[p], Sent(s, p))

LEMMA TxDoneIs ==
    ASSUME NEW s \in LogState, NEW p, NEW up \in Nat, NEW now \in Nat
    PROVE  /\ TxDone(s, p, up, now) \in LogState
           /\ Rest(s, TxDone(s, p, up, now))
           /\ DoneTells(s, TxDone(s, p, up, now), p, up, now)
<1>1. CASE p \notin DOMAIN s.inflight
  BY <1>1 DEF TxDone, Rest, DoneTells
<1>2. CASE p \in DOMAIN s.inflight
  <2> DEFINE r == Counted(s.inflight[p], up, now)
             m == [s.inflight EXCEPT ![p] = r]
             t == [s EXCEPT !.inflight = m]
  <2>1. s.inflight \in Inflight /\ s.inflight[p] \in Rec /\ p \in Pkt
    BY <1>2, InflightIs DEF LogState
  <2>2. /\ r \in Rec /\ r.attempts = s.inflight[p].attempts + 1
        /\ r.airtime = s.inflight[p].airtime
    BY <2>1 DEF Rec, Counted
  <2>3. t = [s EXCEPT !.inflight[p] = Counted(@, up, now)]
    OBVIOUS
  <2>5. TxDone(s, p, up, now) =
            IF p \in WantAck THEN t ELSE Finished(t, [q \in {p} |-> "sent"])
    BY <1>2, <2>3 DEF TxDone
  <2> HIDE DEF r
  <2>6. /\ m \in Inflight /\ DOMAIN m = DOMAIN s.inflight /\ m[p] = r
        /\ \A q \in DOMAIN s.inflight : q # p => m[q] = s.inflight[q]
    BY <1>2, <2>1, <2>2, ReplacedIs, MapsAre DEF Inflight
  <2> HIDE DEF m
  <2>7. t \in LogState /\ Rest(s, t) /\ t.published = s.published /\ t.inflight = m
    BY <2>6 DEF LogState, Rest
  <2> HIDE DEF t
  <2>8. CASE p \in WantAck
    BY <1>2, <2>5, <2>6, <2>7, <2>8 DEF r, DoneTells
  <2>9. CASE p \notin WantAck
    <3> DEFINE o == [q \in {p} |-> "sent"]
    <3>1. DOMAIN o = {p} /\ o[p] = "sent" /\ \A q \in DOMAIN o : o[q] \in Outcomes
      BY DEF Outcomes
    <3>2. TxDone(s, p, up, now) = Finished(t, o)
      BY <2>5, <2>9
    <3> HIDE DEF o
    <3>3. /\ Finished(t, o) \in LogState /\ Rest(t, Finished(t, o))
          /\ DOMAIN Finished(t, o).inflight = DOMAIN m \ {p}
          /\ \A q \in DOMAIN m \ {p} : Finished(t, o).inflight[q] = m[q]
      BY <1>2, <2>6, <2>7, <3>1, FinishedIs DEF Rest
    <3>4. \A q \in Pkt : Finished(t, o).published[q] =
              IF q = p THEN Told(t, p, "sent") ELSE s.published[q]
      BY <1>2, <2>6, <2>7, <3>1, FinishedIs
    <3>5. Told(t, p, "sent") = Append(s.published[p], Sent(s, p))
      BY <2>2, <2>6, <2>7 DEF Told, Sent
    <3> QED BY <1>2, <2>1, <2>6, <2>7, <2>9, <3>2, <3>3, <3>4, <3>5 DEF Rest, DoneTells
  <2> QED BY <2>8, <2>9
<1> QED BY <1>1, <1>2

LEMMA AckedIs ==
    ASSUME NEW s \in LogState, NEW p
    PROVE  /\ Acked(s, p) \in LogState /\ Rest(s, Acked(s, p))
           /\ DOMAIN Acked(s, p).inflight = DOMAIN s.inflight \ {p}
           /\ \A q \in DOMAIN s.inflight \ {p} : Acked(s, p).inflight[q] = s.inflight[q]
           /\ \A q \in Pkt : Acked(s, p).published[q] =
                 IF q = p /\ p \in DOMAIN s.inflight THEN Told(s, p, "acked")
                 ELSE s.published[q]
<1>1. CASE p \notin DOMAIN s.inflight
  BY <1>1 DEF Acked, Rest
<1>2. CASE p \in DOMAIN s.inflight
  <2> DEFINE o == [q \in {p} |-> "acked"]
  <2>1. DOMAIN o = {p} /\ o[p] = "acked" /\ \A q \in DOMAIN o : o[q] \in Outcomes
    BY DEF Outcomes
  <2>2. Acked(s, p) = Finished(s, o)
    BY <1>2 DEF Acked
  <2> HIDE DEF o
  <2> QED BY <1>2, <2>1, <2>2, FinishedIs DEF Rest
<1> QED BY <1>1, <1>2

\* What a step of the tracker does to one packet --------------------------------
Holds(s, p) == p \in DOMAIN s.inflight

Kept(s, t, p) ==
    /\ Holds(t, p) <=> Holds(s, p)
    /\ t.published[p] = s.published[p]
    /\ Holds(s, p) => /\ t.inflight[p].attempts = s.inflight[p].attempts
                      /\ t.inflight[p].uptime = s.inflight[p].uptime
                      /\ t.inflight[p].seen = s.inflight[p].seen

Begun(s, t, p, up, now) ==
    /\ ~Holds(s, p) /\ Holds(t, p) /\ t.published[p] = s.published[p]
    /\ t.inflight[p] = Record(up, now)

Retried(s, t, p, up, now) ==
    /\ Holds(s, p) /\ Holds(t, p) /\ t.published[p] = s.published[p]
    /\ t.inflight[p] = Counted(s.inflight[p], up, now)

Resolved(s, t, p, o) ==
    /\ Holds(s, p) /\ ~Holds(t, p)
    /\ \E e \in Entry : e.outcome = o /\ t.published[p] = Append(s.published[p], e)

LEMMA HeldIs ==
    ASSUME NEW s \in LogState, NEW p, Holds(s, p)
    PROVE  p \in Pkt /\ s.inflight[p] \in Rec
<1>1. s.inflight \in Inflight
  BY DEF LogState
<1> QED BY <1>1, InflightIs DEF Holds

LEMMA ToldIs ==
    ASSUME NEW s \in LogState, NEW t \in LogState, NEW p, Holds(s, p), ~Holds(t, p),
           NEW o \in Outcomes, t.published[p] = Told(s, p, o)
    PROVE  Resolved(s, t, p, o)
<1> DEFINE e == [outcome |-> o, attempts |-> s.inflight[p].attempts,
                 airtime |-> s.inflight[p].airtime]
<1>1. s.inflight[p].attempts \in Nat /\ s.inflight[p].airtime \in Nat
  BY HeldIs DEF Rec
<1>2. e \in Entry /\ e.outcome = o
  BY <1>1 DEF Entry
<1>3. t.published[p] = Append(s.published[p], e)
  BY DEF Told
<1> QED BY <1>2, <1>3 DEF Resolved

LEMMA NotedFate ==
    ASSUME NEW s \in LogState, NEW up \in Nat, NEW t, t = Noted(s, up), NEW p \in Pkt
    PROVE  \/ s.uptime <= up /\ Kept(s, t, p)
           \/ up < s.uptime /\ ~Holds(s, p) /\ Kept(s, t, p)
           \/ up < s.uptime /\ Resolved(s, t, p, "lost_to_reboot")
<1>1. t \in LogState
  BY NotedIs
<1>2. CASE s.uptime <= up /\ t.inflight = s.inflight /\ t.published = s.published
  BY <1>2 DEF Kept, Holds
<1>3. CASE /\ up < s.uptime /\ DOMAIN t.inflight = {}
           /\ t.published[p] = IF p \in DOMAIN s.inflight THEN Told(s, p, "lost_to_reboot")
                               ELSE s.published[p]
  <2>1. CASE Holds(s, p)
    <3>1. ~Holds(t, p) /\ t.published[p] = Told(s, p, "lost_to_reboot")
      BY <1>3, <2>1 DEF Holds
    <3> QED BY <1>1, <1>3, <2>1, <3>1, ToldIs DEF Outcomes
  <2>2. CASE ~Holds(s, p)
    BY <1>3, <2>2 DEF Kept, Holds
  <2> QED BY <2>1, <2>2
<1> QED BY <1>2, <1>3, NotedIs

LEMMA ExpiredFate ==
    ASSUME NEW s \in LogState, NEW now \in Nat, NEW t, t = Expired(s, now), NEW p \in Pkt
    PROVE  \/ Kept(s, t, p)
           \/ /\ s.inflight[p].seen <= now - Expiry
              /\ Resolved(s, t, p, IF s.inflight[p].attempts > 0 THEN "unacked"
                                   ELSE "dropped_before_tx")
<1>1. t \in LogState
  BY ExpiredIs
<1>2. CASE p \in Overdue(s, now)
  <2> DEFINE o == IF s.inflight[p].attempts > 0 THEN "unacked" ELSE "dropped_before_tx"
  <2>1. o \in Outcomes
    BY DEF Outcomes
  <2>2. Holds(s, p) /\ s.inflight[p].seen <= now - Expiry
    BY <1>2 DEF Overdue, Holds
  <2>3. ~Holds(t, p) /\ t.published[p] = Told(s, p, o)
    BY <1>2, ExpiredIs DEF Holds
  <2> HIDE DEF o
  <2>4. Resolved(s, t, p, o)
    BY <1>1, <2>1, <2>2, <2>3, ToldIs
  <2> QED BY <2>2, <2>4 DEF o
<1>3. CASE p \notin Overdue(s, now)
  <2>1. DOMAIN t.inflight = DOMAIN s.inflight \ Overdue(s, now)
        /\ t.published[p] = s.published[p]
    BY <1>3, ExpiredIs
  <2>2. p \in DOMAIN s.inflight => t.inflight[p] = s.inflight[p]
    BY <1>3, ExpiredIs
  <2> QED BY <1>3, <2>1, <2>2 DEF Kept, Holds
<1> QED BY <1>2, <1>3

\* The lines of a console --------------------------------------------------------
Bodies  == {"handed", "started", "airtime", "done", "acked", "boot", "nothing"}
LineSet == {l \in [body: Bodies, pkt: Pkt \cup {Other}, uptime: Nat, cut: BOOLEAN] :
                l.body \in {"handed", "acked"} => l.pkt \in Pkt}

LEMMA DispatchedTyped ==
    ASSUME NEW s \in LogState, NEW l \in LineSet, NEW now \in Nat
    PROVE  Dispatched(s, l, now) \in LogState /\ Dispatched(s, l, now).uptime = s.uptime
<1>1. l.pkt \in Pkt \cup {Other} /\ l.uptime \in Nat /\ (l.body = "handed" => l.pkt \in Pkt)
  BY DEF LineSet
<1>2. CASE l.body = "handed"
  BY <1>1, <1>2, HandedIs DEF Dispatched, Rest
<1>3. CASE l.body = "started"
  BY <1>1, <1>3, TxStartedIs DEF Dispatched
<1>4. CASE l.body = "airtime"
  BY <1>4, AirtimeIs DEF Dispatched, Rest
<1>5. CASE l.body = "done"
  <2>1. Dispatched(s, l, now) = TxDone(s, l.pkt, l.uptime, now)
    BY <1>5 DEF Dispatched
  <2>2. l.uptime \in Nat
    BY <1>1
  <2>3. Dispatched(s, l, now) \in LogState /\ Rest(s, Dispatched(s, l, now))
    BY <2>1, <2>2, TxDoneIs
  <2> QED BY <2>3 DEF Rest
<1>6. CASE l.body = "acked"
  BY <1>6, AckedIs DEF Dispatched, Rest
<1>7. CASE l.body \notin {"handed", "started", "airtime", "done", "acked"}
  BY <1>7 DEF Dispatched
<1> QED BY <1>2, <1>3, <1>4, <1>5, <1>6, <1>7

LEMMA DispatchedFate ==
    ASSUME NEW s \in LogState, NEW l \in LineSet, NEW now \in Nat,
           NEW t, t = Dispatched(s, l, now), NEW p \in Pkt
    PROVE  \/ /\ Kept(s, t, p)
              /\ l.pkt = p /\ l.body \in {"done", "acked"} => ~Holds(s, p)
              /\ l.pkt = p /\ l.body = "handed" => Holds(s, p)
           \/ l.body = "handed" /\ l.pkt = p /\ Begun(s, t, p, l.uptime, now)
           \/ l.body = "done" /\ l.pkt = p /\ p \in WantAck /\ Retried(s, t, p, l.uptime, now)
           \/ l.body = "done" /\ l.pkt = p /\ p \notin WantAck /\ Resolved(s, t, p, "sent")
           \/ l.body = "acked" /\ l.pkt = p /\ Resolved(s, t, p, "acked")
<1>1. l.pkt \in Pkt \cup {Other} /\ l.uptime \in Nat /\ (l.body = "handed" => l.pkt \in Pkt)
  BY DEF LineSet
<1>0. t \in LogState
  BY DispatchedTyped
<1>2. CASE l.body = "handed"
  <2>1. t = Handed(s, l.pkt, l.uptime, now)
    BY <1>2 DEF Dispatched
  <2>2. l.pkt \in Pkt
    BY <1>1, <1>2
  <2>3. DOMAIN t.inflight = DOMAIN s.inflight \cup {l.pkt} /\ t.published = s.published
        /\ (\A q \in DOMAIN s.inflight : t.inflight[q] = s.inflight[q])
        /\ (l.pkt \notin DOMAIN s.inflight => t.inflight[l.pkt] = Record(l.uptime, now))
    BY <1>1, <2>1, <2>2, HandedIs
  <2>4. CASE l.pkt = p /\ ~Holds(s, p)
    BY <1>2, <2>3, <2>4 DEF Begun, Holds
  <2>5. CASE l.pkt # p \/ Holds(s, p)
    BY <1>2, <2>3, <2>5 DEF Kept, Holds
  <2> QED BY <2>4, <2>5
<1>3. CASE l.body = "started"
  <2>1. t = TxStarted(s, l.pkt)
    BY <1>3 DEF Dispatched
  <2> QED BY <1>1, <1>3, <2>1, TxStartedIs DEF Kept, Holds
<1>4. CASE l.body = "airtime"
  <2>1. t = Airtime(s)
    BY <1>4 DEF Dispatched
  <2> QED BY <1>4, <2>1, AirtimeIs DEF Kept, Holds
<1>5. CASE l.body = "done"
  <2>0. t = TxDone(s, l.pkt, l.uptime, now)
    BY <1>5 DEF Dispatched
  <2>1. DoneTells(s, t, l.pkt, l.uptime, now)
    BY <1>1, <2>0, TxDoneIs
  <2>2. CASE l.pkt # p
    <3>1. t.published[p] = s.published[p]
          /\ (Holds(t, p) <=> Holds(s, p))
          /\ (Holds(s, p) => t.inflight[p] = s.inflight[p])
      BY <2>1, <2>2 DEF Holds, DoneTells
    <3> QED BY <1>5, <2>2, <3>1 DEF Kept, Holds
  <2>3. CASE l.pkt = p /\ ~Holds(s, p)
    <3>1. t = s
      BY <2>1, <2>3 DEF Holds, DoneTells
    <3> QED BY <1>5, <2>3, <3>1 DEF Kept
  <2>4. CASE l.pkt = p /\ Holds(s, p) /\ p \in WantAck
    <3>1. /\ p \in DOMAIN t.inflight /\ t.published[p] = s.published[p]
          /\ t.inflight[p] = Counted(s.inflight[p], l.uptime, now)
      BY <2>1, <2>4 DEF Holds, DoneTells
    <3> QED BY <1>5, <2>4, <3>1 DEF Retried, Holds
  <2>5. CASE l.pkt = p /\ Holds(s, p) /\ p \notin WantAck
    <3> DEFINE e == Sent(s, p)
    <3>1. p \notin DOMAIN t.inflight /\ t.published[p] = Append(s.published[p], e)
      BY <2>1, <2>5 DEF Holds, DoneTells
    <3>2. s.inflight[p].attempts \in Nat /\ s.inflight[p].airtime \in Nat
      BY <2>5, HeldIs DEF Rec
    <3>3. e \in Entry /\ e.outcome = "sent"
      BY <3>2 DEF Entry, Outcomes, Sent
    <3> HIDE DEF e
    <3>4. Resolved(s, t, p, "sent")
      BY <2>5, <3>1, <3>3 DEF Resolved, Holds
    <3> QED BY <1>5, <2>5, <3>4
  <2> QED BY <2>2, <2>3, <2>4, <2>5
<1>6. CASE l.body = "acked"
  <2>1. t = Acked(s, l.pkt)
    BY <1>6 DEF Dispatched
  <2>2. CASE l.pkt = p /\ Holds(s, p)
    <3>1. ~Holds(t, p) /\ t.published[p] = Told(s, p, "acked")
      BY <2>1, <2>2, AckedIs DEF Holds
    <3> QED BY <1>0, <1>6, <2>2, <3>1, ToldIs DEF Outcomes
  <2>3. CASE ~(l.pkt = p /\ Holds(s, p))
    <3>1. /\ DOMAIN t.inflight = DOMAIN s.inflight \ {l.pkt}
          /\ t.published[p] = s.published[p]
          /\ \A q \in DOMAIN s.inflight \ {l.pkt} : t.inflight[q] = s.inflight[q]
      BY <2>1, <2>3, AckedIs DEF Holds
    <3> QED BY <1>6, <2>3, <3>1 DEF Kept, Holds
  <2> QED BY <2>2, <2>3
<1>7. CASE l.body \notin {"handed", "started", "airtime", "done", "acked"}
  BY <1>7 DEF Dispatched, Kept
<1> QED BY <1>2, <1>3, <1>4, <1>5, <1>6, <1>7

LEMMA AppendedIs ==
    ASSUME NEW c \in Seq(LineSet), NEW l \in LineSet
    PROVE  /\ Append(c, l) \in Seq(LineSet) /\ Len(Append(c, l)) = Len(c) + 1
           /\ DOMAIN Append(c, l) = 1 .. Len(c) + 1 /\ DOMAIN c = 1 .. Len(c)
           /\ \A i \in DOMAIN c : Append(c, l)[i] = c[i]
           /\ Append(c, l)[Len(c) + 1] = l /\ Len(c) \in Nat
OBVIOUS

LEMMA TailIs ==
    ASSUME NEW c \in Seq(LineSet), c # <<>>
    PROVE  /\ Tail(c) \in Seq(LineSet) /\ Len(Tail(c)) = Len(c) - 1
           /\ Len(c) \in Nat /\ Len(c) > 0 /\ Head(c) \in LineSet /\ Head(c) = c[1]
           /\ DOMAIN c = 1 .. Len(c) /\ DOMAIN Tail(c) = 1 .. Len(c) - 1
           /\ \A i \in DOMAIN Tail(c) : i + 1 \in DOMAIN c /\ Tail(c)[i] = c[i + 1]
OBVIOUS

LEMMA CutIs ==
    ASSUME NEW c \in Seq(LineSet), NEW k \in DOMAIN c
    PROVE  LET d == [c EXCEPT ![k].cut = TRUE]
           IN  /\ d \in Seq(LineSet) /\ Len(d) = Len(c) /\ DOMAIN d = DOMAIN c
               /\ \A i \in DOMAIN c : /\ d[i].body = c[i].body /\ d[i].pkt = c[i].pkt
                                      /\ d[i].uptime = c[i].uptime
<1> DEFINE l == [c[k] EXCEPT !.cut = TRUE]
           d == [c EXCEPT ![k] = l]
<1>1. c[k] \in LineSet
  OBVIOUS
<1>2. l \in LineSet /\ l.body = c[k].body /\ l.pkt = c[k].pkt /\ l.uptime = c[k].uptime
  BY <1>1 DEF LineSet
<1> HIDE DEF l
<1>3. d \in Seq(LineSet) /\ Len(d) = Len(c) /\ DOMAIN d = DOMAIN c
  BY <1>2
<1>4. \A i \in DOMAIN c : d[i] = IF i = k THEN l ELSE c[i]
  BY <1>2
<1> QED BY <1>2, <1>3, <1>4 DEF l

\* The types of the whole ----------------------------------------------------------
Typed ==
    /\ log \in LogState
    /\ port \in {"open", "closed"} /\ (port = "closed" => console = <<>>)
    /\ console \in Seq(LineSet) /\ Len(console) <= Backlog
    /\ missed \in BOOLEAN
    /\ clock \in 0 .. MaxClock /\ bootAt \in Nat /\ bootAt <= clock
    /\ work \in Maps(Nat) /\ \A p \in DOMAIN work : work[p] <= clock
    /\ radio \in Pkt \cup {Other, Nothing}
    /\ radio \in Pkt /\ radio # Nothing => radio \in DOMAIN work
    /\ handed \in [Pkt -> Nat] /\ sent \in [Pkt -> Nat] /\ ontime \in [Pkt -> Nat]

\* Printed lines are queued whole, or missed.
Printed(l) ==
    \/ port = "open" /\ console' = Append(console, l) /\ missed' = missed
    \/ port = "closed" /\ console' = console /\ missed'

LEMMA PrintsIs ==
    ASSUME Typed, NEW l \in LineSet, Prints(<<l>>)
    PROVE  /\ Printed(l) /\ port' = port
           /\ console' \in Seq(LineSet) /\ Len(console') <= Backlog
           /\ port' = "closed" => console' = <<>>
           /\ missed' \in BOOLEAN
<1>1. console \in Seq(LineSet) /\ Len(console) <= Backlog /\ missed \in BOOLEAN
      /\ port \in {"open", "closed"} /\ (port = "closed" => console = <<>>)
  BY DEF Typed
<1>2. CASE port = "closed"
  BY <1>1, <1>2 DEF Prints, Printed
<1>3. CASE port # "closed"
  <2>1. console' = console \o <<l>> /\ Len(console) + Len(<<l>>) <= Backlog
        /\ missed' = missed /\ port' = port
    BY <1>3 DEF Prints
  <2>2. console \o <<l>> = Append(console, l)
    BY <1>1, AppendIsConcat
  <2>3. Len(<<l>>) = 1
    OBVIOUS
  <2> QED BY <1>1, <1>3, <2>1, <2>2, <2>3, AppendedIs DEF Printed
<1> QED BY <1>2, <1>3

LEMMA LineIs ==
    ASSUME Typed, NEW b \in Bodies, NEW p \in Pkt \cup {Other},
           b \in {"handed", "acked"} => p \in Pkt
    PROVE  /\ Line(b, p) \in LineSet /\ Line(b, p).body = b /\ Line(b, p).pkt = p
           /\ Line(b, p).uptime = Uptime /\ Line(b, p).cut = FALSE /\ Uptime \in Nat
<1>1. clock - bootAt \in Nat
  BY DEF Typed
<1> QED BY <1>1 DEF Line, LineSet, Uptime

LEMMA LineSaid ==
    ASSUME Typed, NEW b \in Bodies, NEW p \in Pkt \cup {Other},
           b \in {"handed", "acked"} => p \in Pkt, Prints(<<Line(b, p)>>)
    PROVE  \E l \in LineSet : /\ l.body = b /\ l.pkt = p /\ l.cut = FALSE
                              /\ l.uptime = Uptime /\ Printed(l)
<1> DEFINE l == Line(b, p)
<1>1. l \in LineSet /\ l.body = b /\ l.pkt = p /\ l.cut = FALSE /\ l.uptime = Uptime
  BY LineIs
<1>2. Prints(<<l>>)
  OBVIOUS
<1> HIDE DEF l
<1>3. Printed(l)
  BY <1>1, <1>2, PrintsIs
<1> QED BY <1>1, <1>3

BootLine == [Line("boot", Other) EXCEPT !.uptime = 0]

LEMMA BootLineIs ==
    ASSUME Typed
    PROVE  BootLine \in LineSet /\ BootLine.body = "boot" /\ BootLine.pkt = Other
           /\ BootLine.uptime = 0 /\ BootLine.cut = FALSE
<1>1. Line("boot", Other) \in LineSet /\ Line("boot", Other).body = "boot"
      /\ Line("boot", Other).pkt = Other /\ Line("boot", Other).cut = FALSE
  BY LineIs DEF Bodies
<1> QED BY <1>1 DEF BootLine, LineSet

\* A line fed: whole, or what is left of a cut one.
Remains(l, k) ==
    /\ k \in LineSet /\ k.uptime = l.uptime
    /\ \/ k = l
       \/ l.cut /\ k.body = "nothing"
       \/ l.cut /\ k.body \in {"started", "done"} /\ k.pkt = Other

Noting(k)      == Noted(log, k.uptime)
Dispatching(k) == Dispatched(Noting(k), k, clock)

LEMMA FedIs ==
    ASSUME Typed, FeedLine
    PROVE  /\ console # <<>> /\ Head(console) \in LineSet
           /\ \/ Head(console).cut /\ log' = log
              \/ \E k : Remains(Head(console), k) /\ log' = Expired(Dispatching(k), clock)
<1> DEFINE l == Head(console)
<1>1. console # <<>> /\ console \in Seq(LineSet)
  BY DEF FeedLine, ReadsLine, Typed
<1>2. l \in LineSet
  BY <1>1, TailIs
<1>3. log' \in IF l.cut THEN FedCut(log, l, clock) ELSE {Fed(log, l, clock)}
  BY DEF FeedLine
<1> HIDE DEF l
<1>4. \A k : Fed(log, k, clock) = Expired(Dispatching(k), clock)
  BY DEF Fed, Dispatching, Noting
<1>5. l.cut \in BOOLEAN /\ Remains(l, l)
  BY <1>2 DEF LineSet, Remains
<1>6. CASE ~l.cut
  BY <1>1, <1>2, <1>3, <1>4, <1>5, <1>6 DEF l
<1>7. CASE l.cut
  <2> DEFINE k == [l EXCEPT !.body = "nothing"]
             m == [l EXCEPT !.pkt = Other]
  <2>1. Remains(l, k)
    BY <1>2, <1>7 DEF LineSet, Remains, Bodies
  <2>2. l.body \in {"started", "done"} => Remains(l, m)
    BY <1>2, <1>7 DEF LineSet, Remains, Bodies
  <2>3. \/ log' = log
        \/ log' = Fed(log, k, clock)
        \/ l.body \in {"started", "done"} /\ log' = Fed(log, m, clock)
        \/ log' = Fed(log, l, clock)
    BY <1>3, <1>7 DEF FedCut
  <2> HIDE DEF k, m
  <2> QED BY <1>1, <1>2, <1>4, <1>5, <1>7, <2>1, <2>2, <2>3 DEF l
<1> QED BY <1>5, <1>6, <1>7

LEMMA FedTyped ==
    ASSUME Typed, NEW k \in LineSet
    PROVE  /\ Noting(k) \in LogState /\ Noting(k).uptime = k.uptime
           /\ Dispatching(k) \in LogState /\ Dispatching(k).uptime = k.uptime
           /\ Expired(Dispatching(k), clock) \in LogState
           /\ Expired(Dispatching(k), clock).uptime = k.uptime
<1>1. log \in LogState /\ clock \in Nat /\ k.uptime \in Nat
  BY DEF Typed, LineSet
<1>2. Noting(k) \in LogState /\ Noting(k).uptime = k.uptime
  BY <1>1, NotedIs DEF Noting
<1>3. Dispatching(k) \in LogState /\ Dispatching(k).uptime = k.uptime
  BY <1>1, <1>2, DispatchedTyped DEF Dispatching
<1>4. Expired(Dispatching(k), clock) \in LogState
      /\ Rest(Dispatching(k), Expired(Dispatching(k), clock))
  BY <1>1, <1>3, ExpiredIs
<1> QED BY <1>2, <1>3, <1>4 DEF Rest

LEMMA InitTyped == Init => Typed
<1> SUFFICES ASSUME Init PROVE Typed
  OBVIOUS
<1>1. log \in LogState
  <2>1. [p \in {} |-> Record(0, 0)] \in Inflight
    BY InflightIs
  <2>2. [p \in Pkt |-> <<>>] \in Reported
    BY DEF Reported
  <2>3. log = InitialLog
    BY DEF Init
  <2> QED BY <2>1, <2>2, <2>3 DEF InitialLog, LogState, Nothing
<1>2. work \in Maps(Nat) /\ DOMAIN work = {}
  <2>1. work = <<>> /\ DOMAIN work = {}
    BY DEF Init
  <2>2. work \in [DOMAIN work -> Nat]
    BY <2>1
  <2> QED BY <2>1, <2>2, MapIs
<1>3. console = <<>> /\ <<>> \in Seq(LineSet) /\ Len(<<>>) <= Backlog
  BY ReaderAssumption DEF Init, ReaderInit
<1>4. clock \in 0 .. MaxClock
  BY NodeAssumption DEF Init
<1>5. handed \in [Pkt -> Nat] /\ sent \in [Pkt -> Nat] /\ ontime \in [Pkt -> Nat]
  BY DEF Init
<1>6. /\ port = "closed" /\ console = <<>> /\ missed = FALSE
      /\ bootAt = 0 /\ radio = Nothing /\ clock = 1
  BY DEF Init, ReaderInit
<1>7. console \in Seq(LineSet) /\ Len(console) <= Backlog
  BY <1>3, <1>6
<1>8. /\ clock \in 0 .. MaxClock /\ bootAt \in Nat /\ bootAt <= clock
      /\ \A p \in DOMAIN work : work[p] <= clock
  BY <1>2, <1>4, <1>6
<1>9. port \in {"open", "closed"} /\ missed \in BOOLEAN
  BY <1>6
<1> QED BY <1>1, <1>2, <1>5, <1>6, <1>7, <1>8, <1>9 DEF Typed

LEMMA CountIs ==
    ASSUME NEW h \in [Pkt -> Nat], NEW p \in Pkt
    PROVE  /\ Count(h, p) \in [Pkt -> Nat] /\ Count(h, p)[p] = h[p] + 1
           /\ \A q \in Pkt : q # p => Count(h, p)[q] = h[q]
BY DEF Count

\* What the node still works on, when it lets go of a packet or takes one.
LEMMA WorkIs ==
    ASSUME Typed
    PROVE  /\ \A p : Restrict(work, DOMAIN work \ {p}) \in Maps(Nat)
           /\ \A p \in Pkt : With(work, p, clock) \in Maps(Nat)
           /\ \A p \in DOMAIN work : [work EXCEPT ![p] = clock] \in Maps(Nat)
           /\ DOMAIN work \subseteq Pkt /\ clock \in Nat
           /\ \A p \in DOMAIN work : work[p] \in Nat
<1>1. work \in Maps(Nat) /\ clock \in Nat
  BY DEF Typed
<1>2. DOMAIN work \subseteq Pkt /\ work \in [DOMAIN work -> Nat]
  BY <1>1, MapIs
<1>3. \A p : Restrict(work, DOMAIN work \ {p}) \in Maps(Nat)
  BY <1>1, MapsAre
<1>4. \A p \in Pkt : With(work, p, clock) \in Maps(Nat)
  BY <1>1, MapsAre
<1>5. \A p \in DOMAIN work : [work EXCEPT ![p] = clock] \in Maps(Nat)
  BY <1>1, MapsAre
<1> QED BY <1>1, <1>2, <1>3, <1>4, <1>5

LEMMA WorkLeaves ==
    ASSUME Typed, NEW p
    PROVE  LET w == Restrict(work, DOMAIN work \ {p})
           IN  w \in Maps(Nat) /\ \A q \in DOMAIN w : w[q] <= clock
<1>1. \A q \in DOMAIN work : work[q] <= clock
  BY DEF Typed
<1>2. /\ DOMAIN Restrict(work, DOMAIN work \ {p}) = DOMAIN work \ {p}
      /\ \A q \in DOMAIN work \ {p} : Restrict(work, DOMAIN work \ {p})[q] = work[q]
  BY RestrictIs
<1> QED BY <1>1, <1>2, WorkIs

LEMMA TypedNode ==
    ASSUME Typed, NodeStep
    PROVE  Typed'
<1> USE DEF Typed
<1>1. log' = log /\ clock' = clock
  BY DEF NodeStep, HandOver, GetAck, GiveUp, StartTx, PrintAirtime, CompleteTx, Reboot
<1>2. ASSUME NEW p \in Pkt, HandOver(p) PROVE Typed'
  <2>1. Line("handed", p) \in LineSet
    BY LineIs DEF Bodies
  <2>2. Prints(<<Line("handed", p)>>)
    BY <1>2 DEF HandOver
  <2>3. work' \in Maps(Nat) /\ \A q \in DOMAIN work' : work'[q] <= clock
    <3>1. CASE p \in DOMAIN work
      BY <1>2, <3>1 DEF HandOver
    <3>2. CASE p \notin DOMAIN work
      <4>1. work' = With(work, p, clock)
        BY <1>2, <3>2 DEF HandOver
      <4>2. work' \in Maps(Nat)
        BY <4>1, WorkIs
      <4>3. \A q \in DOMAIN work' : work'[q] <= clock
        BY <4>1, WorkIs DEF With
      <4> QED BY <4>2, <4>3
    <3> QED BY <3>1, <3>2
  <2>4. DOMAIN work \subseteq DOMAIN work'
    BY <1>2 DEF HandOver, With
  <2>5. handed' \in [Pkt -> Nat]
    BY <1>2, CountIs DEF HandOver
  <2>6. UNCHANGED <<bootAt, radio, sent, ontime>>
    BY <1>2 DEF HandOver
  <2> QED BY <1>1, <2>1, <2>2, <2>3, <2>4, <2>5, <2>6, PrintsIs
<1>3. ASSUME NEW p \in Pkt, GetAck(p) PROVE Typed'
  <2>1. Line("acked", p) \in LineSet
    BY LineIs DEF Bodies
  <2>2. Prints(<<Line("acked", p)>>) /\ work' = Restrict(work, DOMAIN work \ {p})
        /\ radio # p /\ UNCHANGED <<bootAt, radio, handed, sent, ontime>>
    BY <1>3 DEF GetAck
  <2>3. work' \in Maps(Nat) /\ \A q \in DOMAIN work' : work'[q] <= clock
    BY <2>2, WorkLeaves
  <2>4. radio \in Pkt /\ radio # Nothing => radio \in DOMAIN work'
    BY <2>2, RestrictIs
  <2> QED BY <1>1, <2>1, <2>2, <2>3, <2>4, PrintsIs
<1>4. ASSUME NEW p \in Pkt, GiveUp(p) PROVE Typed'
  <2>2. work' = Restrict(work, DOMAIN work \ {p})
        /\ radio # p /\ UNCHANGED <<reader, bootAt, radio, handed, sent, ontime>>
    BY <1>4 DEF GiveUp, history
  <2>3. work' \in Maps(Nat) /\ \A q \in DOMAIN work' : work'[q] <= clock
    BY <2>2, WorkLeaves
  <2>4. radio \in Pkt /\ radio # Nothing => radio \in DOMAIN work'
    BY <2>2, RestrictIs
  <2> QED BY <1>1, <2>2, <2>3, <2>4 DEF reader
<1>5. ASSUME NEW p \in Pkt \cup {Other}, StartTx(p) PROVE Typed'
  <2>1. Line("started", p) \in LineSet
    BY LineIs DEF Bodies
  <2>2. Prints(<<Line("started", p)>>) /\ UNCHANGED <<work, bootAt, handed, sent, ontime>>
        /\ radio' = p /\ (p \in DOMAIN work \/ p = Other)
    BY <1>5 DEF StartTx
  <2> QED BY <1>1, <2>1, <2>2, PrintsIs, LogAssumption
<1>6. CASE PrintAirtime
  <2>1. Line("airtime", Other) \in LineSet
    BY LineIs DEF Bodies
  <2>2. Prints(<<Line("airtime", Other)>>) /\ UNCHANGED <<work, bootAt, radio, handed, sent>>
    BY <1>6 DEF PrintAirtime
  <2>3. ontime' \in [Pkt -> Nat]
    BY <1>6, CountIs DEF PrintAirtime
  <2> QED BY <1>1, <2>1, <2>2, <2>3, PrintsIs
<1>7. CASE CompleteTx
  <2>1. radio \in Pkt \cup {Other} /\ radio # Nothing
    BY <1>7 DEF CompleteTx
  <2>2. Line("done", radio) \in LineSet
    BY <2>1, LineIs DEF Bodies
  <2>3. Prints(<<Line("done", radio)>>) /\ UNCHANGED <<bootAt, handed, ontime>>
        /\ radio' = Nothing
    BY <1>7 DEF CompleteTx
  <2>4. sent' \in [Pkt -> Nat]
    BY <1>7, CountIs DEF CompleteTx
  <2>5. work' \in Maps(Nat) /\ \A q \in DOMAIN work' : work'[q] <= clock
    <3>1. CASE radio \in WantAck
      <4>1. radio \in DOMAIN work /\ work' = [work EXCEPT ![radio] = clock]
        BY <1>7, <2>1, <3>1, LogAssumption DEF CompleteTx
      <4>2. work' \in Maps(Nat) /\ DOMAIN work' = DOMAIN work
        BY <4>1, WorkIs
      <4> QED BY <4>1, <4>2, WorkIs, ReplacedIs
    <3>2. CASE radio \notin WantAck
      <4>1. work' = Restrict(work, DOMAIN work \ {radio})
        BY <1>7, <3>2 DEF CompleteTx
      <4> QED BY <4>1, WorkLeaves
    <3> QED BY <3>1, <3>2
  <2> QED BY <1>1, <2>2, <2>3, <2>4, <2>5, PrintsIs
<1>8. CASE Reboot
  <2>1. BootLine \in LineSet /\ Prints(<<BootLine>>)
    BY <1>8, BootLineIs DEF Reboot, BootLine
  <2>2. /\ bootAt' = clock /\ work' = <<>> /\ radio' = Nothing
        /\ UNCHANGED <<handed, sent, ontime>>
    BY <1>8 DEF Reboot
  <2>3. work' \in Maps(Nat) /\ DOMAIN work' = {}
    <3>1. DOMAIN work' = {} /\ work' \in [DOMAIN work' -> Nat]
      BY <2>2
    <3> QED BY <3>1, MapIs
  <2> QED BY <1>1, <2>1, <2>2, <2>3, PrintsIs
<1> QED BY <1>2, <1>3, <1>4, <1>5, <1>6, <1>7, <1>8 DEF NodeStep

LEMMA TypedStep == Typed /\ [Next]_vars => Typed'
<1> SUFFICES ASSUME Typed, [Next]_vars PROVE Typed'
  OBVIOUS
<1>1. CASE Tick
  <2>1. /\ clock < MaxClock /\ clock' = clock + 1
        /\ UNCHANGED <<log, reader, node, history>>
    BY <1>1 DEF Tick
  <2>2. clock' \in 0 .. MaxClock /\ clock <= clock' /\ clock \in Nat
    BY <2>1, NodeAssumption DEF Typed
  <2>3. \A p \in DOMAIN work : work[p] <= clock'
    BY <2>2, WorkIs DEF Typed
  <2> QED BY <2>1, <2>2, <2>3 DEF Typed, reader, node, history
<1>2. CASE NodeStep
  BY <1>2, TypedNode
<1>3. CASE FeedLine
  <2>1. console # <<>> /\ console' = Tail(console) /\ UNCHANGED <<port, missed>>
        /\ port = "open" /\ UNCHANGED <<clock, node, history>>
    BY <1>3 DEF FeedLine, ReadsLine
  <2>2. console' \in Seq(LineSet) /\ Len(console') <= Backlog
    BY <2>1, TailIs, ReaderAssumption DEF Typed
  <2>3. log' \in LogState
    <3>1. ASSUME NEW k, Remains(Head(console), k), log' = Expired(Dispatching(k), clock)
          PROVE  log' \in LogState
      BY <3>1, FedTyped DEF Remains
    <3> QED BY <1>3, <3>1, FedIs DEF Typed
  <2> QED BY <2>1, <2>2, <2>3 DEF Typed, node, history
<1>4. CASE FeedNone
  <2>1. log' = Expired(log, clock) /\ UNCHANGED <<reader, clock, node, history>>
    BY <1>4 DEF FeedNone, IdleTick
  <2>2. log' \in LogState
    BY <2>1, ExpiredIs DEF Typed
  <2> QED BY <2>1, <2>2 DEF Typed, reader, node, history
<1>5. CASE Port
  <2>1. UNCHANGED <<log, clock, node, history>>
    BY <1>5 DEF Port
  <2>2. CASE Opens \/ OpenFails
    BY <2>1, <2>2 DEF Opens, OpenFails, Typed, reader, node, history
  <2>3. CASE ReadFails
    <3>1. console' = <<>> /\ port' = "closed" /\ missed' = (missed \/ console # <<>>)
      BY <2>3 DEF ReadFails
    <3>2. <<>> \in Seq(LineSet) /\ Len(<<>>) <= Backlog
      BY ReaderAssumption
    <3> QED BY <2>1, <3>1, <3>2 DEF Typed, node, history
  <2>4. CASE Cut
    <3>1. PICK k \in DOMAIN console : console' = [console EXCEPT ![k].cut = TRUE]
      BY <2>4 DEF Cut
    <3>2. missed' = TRUE /\ port' = port /\ console # <<>>
      BY <2>4, <3>1 DEF Cut, Typed
    <3>3. console' \in Seq(LineSet) /\ Len(console') = Len(console)
      BY <3>1, CutIs DEF Typed
    <3> QED BY <2>1, <3>2, <3>3 DEF Typed, node, history
  <2> QED BY <1>5, <2>2, <2>3, <2>4 DEF Port
<1>6. CASE UNCHANGED vars
  BY <1>6 DEF vars, Typed, reader, node, history
<1> QED BY <1>1, <1>2, <1>3, <1>4, <1>5, <1>6 DEF Next

LEMMA Types == Spec => []Typed
<1> QED BY InitTyped, TypedStep, PTL DEF Spec

\* What the collector keeps has the shape it is written in.
THEOREM CollectorTyped == Spec => []TypeOK
<1>1. Typed => TypeOK
  <2> SUFFICES ASSUME Typed PROVE TypeOK
    OBVIOUS
  <2>1. log \in LogState /\ log.inflight \in Inflight /\ log.published \in Reported
    BY DEF Typed, LogState
  <2>2. DOMAIN log.inflight \subseteq Pkt /\ log.inflight \in [DOMAIN log.inflight -> Rec]
    BY <2>1, InflightIs
  <2>3. \A p \in Pkt : \A i \in DOMAIN log.published[p] :
            log.published[p][i].outcome \in Outcomes
    <3> SUFFICES ASSUME NEW p \in Pkt, NEW i \in DOMAIN log.published[p]
                 PROVE  log.published[p][i].outcome \in Outcomes
      OBVIOUS
    <3>1. log.published[p] \in Seq(Entry)
      BY <2>1 DEF Reported
    <3>2. log.published[p][i] \in Entry
      BY <3>1
    <3> QED BY <3>2 DEF Entry
  <2>4. log.lastTx \in Pkt \cup {Other, Nothing} /\ log.uptime \in Nat \cup {Nothing}
        /\ log.txOther \in Nat /\ log.reboots \in Nat
    BY <2>1 DEF LogState
  <2>5. DOMAIN work \subseteq Pkt /\ clock \in 0 .. MaxClock
        /\ radio \in Pkt \cup {Other, Nothing}
    BY WorkIs DEF Typed
  <2>6. ReaderTypeOK
    BY DEF ReaderTypeOK, Typed
  <2> QED BY <2>2, <2>3, <2>4, <2>5, <2>6 DEF TypeOK, Rec
<1> QED BY <1>1, Types, PTL

\* A reboot closes every record ------------------------------------------------------
Young(s) == \A p \in DOMAIN s.inflight : s.inflight[p].uptime <= s.uptime

LEMMA FedStaysYoung ==
    ASSUME Typed, NEW k \in LineSet, Young(log)
    PROVE  Young(Expired(Dispatching(k), clock))
<1> DEFINE t == Expired(Dispatching(k), clock)
<1>0. /\ log \in LogState /\ Noting(k) \in LogState /\ Dispatching(k) \in LogState
      /\ t \in LogState
      /\ Noting(k).uptime = k.uptime /\ Dispatching(k).uptime = k.uptime
      /\ t.uptime = k.uptime /\ k.uptime \in Nat /\ clock \in Nat /\ log.uptime \in Int
  <2>1. log \in LogState /\ clock \in Nat /\ k.uptime \in Nat
    BY DEF Typed, LineSet
  <2>2. log.uptime \in Int
    BY <2>1 DEF LogState, Nothing
  <2> QED BY <2>1, <2>2, FedTyped
<1> HIDE DEF t
<1> SUFFICES ASSUME NEW p, Holds(t, p) PROVE t.inflight[p].uptime <= k.uptime
  BY <1>0 DEF Young, Holds, t
<1>1. p \in Pkt /\ t.inflight[p].uptime \in Nat
  BY <1>0, HeldIs DEF Rec
<1>2. Holds(Noting(k), p) => Noting(k).inflight[p].uptime <= k.uptime
  <2>1. CASE log.uptime <= k.uptime /\ Kept(log, Noting(k), p)
    <3> SUFFICES ASSUME Holds(Noting(k), p) PROVE Noting(k).inflight[p].uptime <= k.uptime
      OBVIOUS
    <3>1. Holds(log, p) /\ Noting(k).inflight[p].uptime = log.inflight[p].uptime
      BY <2>1 DEF Kept
    <3>2. log.inflight[p].uptime <= log.uptime
      BY <3>1 DEF Young, Holds
    <3>3. log.inflight[p].uptime \in Nat
      BY <1>0, <3>1, HeldIs DEF Rec
    <3> QED BY <1>0, <2>1, <3>1, <3>2, <3>3
  <2>2. CASE ~Holds(log, p) /\ Kept(log, Noting(k), p)
    BY <2>2 DEF Kept
  <2>3. CASE Resolved(log, Noting(k), p, "lost_to_reboot")
    BY <2>3 DEF Resolved
  <2> QED BY <1>0, <1>1, <2>1, <2>2, <2>3, NotedFate DEF Noting
<1>3. Holds(Dispatching(k), p) => Dispatching(k).inflight[p].uptime <= k.uptime
  <2>1. CASE Kept(Noting(k), Dispatching(k), p)
    BY <1>2, <2>1 DEF Kept
  <2>2. CASE Begun(Noting(k), Dispatching(k), p, k.uptime, clock)
    BY <1>0, <2>2 DEF Begun, Record
  <2>3. CASE Retried(Noting(k), Dispatching(k), p, k.uptime, clock)
    BY <1>0, <2>3 DEF Retried, Counted
  <2>4. CASE \/ Resolved(Noting(k), Dispatching(k), p, "sent")
             \/ Resolved(Noting(k), Dispatching(k), p, "acked")
    BY <2>4 DEF Resolved
  <2> QED BY <1>0, <1>1, <2>1, <2>2, <2>3, <2>4, DispatchedFate DEF Dispatching
<1>4. Kept(Dispatching(k), t, p)
  BY <1>0, <1>1, ExpiredFate DEF Resolved, t
<1> QED BY <1>3, <1>4 DEF Kept

\* No packet is held past the line that shows the reboot it preceded, however
\* many lines are lost or cut around it.
THEOREM RebootClosesRecords == Spec => []NothingOutlivesAReboot
<1>1. Init => Young(log)
  BY DEF Init, InitialLog, Young
<1>2. Typed /\ Young(log) /\ [Next]_vars => Young(log)'
  <2> SUFFICES ASSUME Typed, Young(log), [Next]_vars PROVE Young(log')
    BY DEF Young
  <2>1. CASE FeedLine
    <3>1. CASE log' = log
      BY <3>1
    <3>2. ASSUME NEW k, Remains(Head(console), k), log' = Expired(Dispatching(k), clock)
          PROVE  Young(log')
      BY <3>2, FedStaysYoung DEF Remains
    <3> QED BY <2>1, <3>1, <3>2, FedIs
  <2>2. CASE FeedNone
    <3> DEFINE t == Expired(log, clock)
    <3>1. log' = t /\ log \in LogState /\ clock \in Nat
      BY <2>2 DEF FeedNone, Typed
    <3>2. t \in LogState /\ t.uptime = log.uptime
      BY <3>1, ExpiredIs DEF Rest
    <3>3. \A p \in Pkt : Holds(t, p) => Kept(log, t, p)
      BY <3>1, ExpiredFate DEF Resolved
    <3> HIDE DEF t
    <3> QED BY <3>1, <3>2, <3>3, HeldIs DEF Young, Holds, Kept
  <2>3. CASE log' = log
    BY <2>3
  <2> QED BY <2>1, <2>2, <2>3 DEF Next, Tick, NodeStep, HandOver, GetAck, GiveUp,
             StartTx, PrintAirtime, CompleteTx, Reboot, Port, vars
<1>3. Young(log) <=> NothingOutlivesAReboot
  BY DEF Young, NothingOutlivesAReboot
<1> QED BY <1>1, <1>2, <1>3, Types, PTL DEF Spec

\* What the lines say is true --------------------------------------------------------
\* A line l is, given what was missed (m) and the packets handed over (h), sent
\* (s) and acknowledged (a).
TrueLine(l, m, h, s, a) ==
    /\ l.cut => m
    /\ l.pkt \in Pkt => h[l.pkt] > 0
    /\ l.body = "done" /\ l.pkt \in Pkt => s[l.pkt] > 0
    /\ l.body = "acked" => l.pkt \in a

LinesTrue ==
    /\ \A i \in DOMAIN console : TrueLine(console[i], missed, handed, sent, ackd)
    /\ \A p \in DOMAIN work : handed[p] > 0

\* Histories only grow.
Grown ==
    /\ missed => missed'
    /\ \A p \in Pkt : handed[p] <= handed'[p] /\ sent[p] <= sent'[p]
    /\ ackd \subseteq ackd' /\ handedAtBoot \subseteq handedAtBoot'

LEMMA HistoryGrows ==
    ASSUME Typed, [Next]_vars
    PROVE  Grown
<1>0. handed \in [Pkt -> Nat] /\ sent \in [Pkt -> Nat] /\ missed \in BOOLEAN
  BY DEF Typed
<1> USE <1>0
<1>1. ASSUME NEW p \in Pkt, HandOver(p) PROVE Grown
  <2>1. \A q \in Pkt : handed[q] <= handed'[q] /\ sent[q] <= sent'[q]
    BY <1>1 DEF HandOver, Count
  <2> QED BY <1>1, <2>1 DEF HandOver, Prints, Grown
<1>2. ASSUME NEW p \in Pkt, GetAck(p) PROVE Grown
  BY <1>2 DEF GetAck, Prints, Grown
<1>3. ASSUME NEW p \in Pkt, GiveUp(p) PROVE Grown
  BY <1>3 DEF GiveUp, Grown, reader, history
<1>4. ASSUME NEW p \in Pkt \cup {Other}, StartTx(p) PROVE Grown
  BY <1>4 DEF StartTx, Prints, Grown
<1>5. CASE PrintAirtime
  BY <1>5 DEF PrintAirtime, Prints, Grown
<1>6. CASE CompleteTx
  <2>1. \A q \in Pkt : handed[q] <= handed'[q] /\ sent[q] <= sent'[q]
    BY <1>6 DEF CompleteTx, Count
  <2> QED BY <1>6, <2>1 DEF CompleteTx, Prints, Grown
<1>7. CASE Reboot
  BY <1>7 DEF Reboot, Prints, Grown
<1>8. CASE Tick \/ FeedLine \/ FeedNone \/ UNCHANGED vars
  BY <1>8 DEF Tick, FeedLine, FeedNone, ReadsLine, IdleTick, Grown, reader, history, vars
<1>9. CASE Port
  BY <1>9 DEF Port, Opens, OpenFails, ReadFails, Cut, Grown, reader, history
<1> QED BY <1>1, <1>2, <1>3, <1>4, <1>5, <1>6, <1>7, <1>8, <1>9 DEF Next, NodeStep

LEMMA StaysTrue ==
    ASSUME Typed, Grown, NEW l \in LineSet, TrueLine(l, missed, handed, sent, ackd),
           handed' \in [Pkt -> Nat], sent' \in [Pkt -> Nat]
    PROVE  TrueLine(l, missed', handed', sent', ackd')
<1>1. handed \in [Pkt -> Nat] /\ sent \in [Pkt -> Nat]
  BY DEF Typed
<1>2. \A p \in Pkt : handed[p] <= handed'[p] /\ sent[p] <= sent'[p]
  BY DEF Grown
<1> QED BY <1>1, <1>2 DEF Grown, TrueLine

LEMMA TruePrinted ==
    ASSUME Typed, LinesTrue, Typed', Grown, NEW l \in LineSet, Printed(l),
           TrueLine(l, missed', handed', sent', ackd')
    PROVE  \A i \in DOMAIN console' : TrueLine(console'[i], missed', handed', sent', ackd')
<1>1. console \in Seq(LineSet) /\ handed' \in [Pkt -> Nat] /\ sent' \in [Pkt -> Nat]
  BY DEF Typed
<1>2. \A i \in DOMAIN console : TrueLine(console[i], missed', handed', sent', ackd')
  <2>1. \A i \in DOMAIN console : console[i] \in LineSet
    BY <1>1
  <2> QED BY <1>1, <2>1, StaysTrue DEF LinesTrue
<1>3. CASE console' = Append(console, l)
  <2> SUFFICES ASSUME NEW i \in DOMAIN console'
               PROVE  TrueLine(console'[i], missed', handed', sent', ackd')
    OBVIOUS
  <2>1. i \in DOMAIN console \/ i = Len(console) + 1
    BY <1>1, <1>3, AppendedIs
  <2>2. CASE i \in DOMAIN console
    <3>1. console'[i] = console[i]
      BY <1>1, <1>3, <2>2, AppendedIs
    <3> QED BY <1>2, <2>2, <3>1
  <2>3. CASE i = Len(console) + 1
    <3>1. console'[i] = l
      BY <1>1, <1>3, <2>3, AppendedIs
    <3> QED BY <3>1
  <2> QED BY <2>1, <2>2, <2>3
<1>4. CASE console' = console
  BY <1>2, <1>4
<1> QED BY <1>3, <1>4 DEF Printed

LEMMA TrueNode ==
    ASSUME Typed, LinesTrue, Typed', Grown, NodeStep
    PROVE  LinesTrue'
<1>0. /\ handed \in [Pkt -> Nat] /\ sent \in [Pkt -> Nat] /\ console \in Seq(LineSet)
      /\ handed' \in [Pkt -> Nat] /\ sent' \in [Pkt -> Nat]
      /\ \A p \in Pkt : handed[p] <= handed'[p]
      /\ Other \notin Pkt /\ DOMAIN work \subseteq Pkt
  BY LogAssumption, WorkIs DEF Typed, Grown
<1>1. ASSUME NEW p \in Pkt, HandOver(p) PROVE LinesTrue'
  <2>1. PICK l \in LineSet : /\ l.body = "handed" /\ l.pkt = p /\ l.cut = FALSE
                             /\ Printed(l)
    <3>1. Prints(<<Line("handed", p)>>)
      BY <1>1 DEF HandOver
    <3>2. "handed" \in Bodies
      BY DEF Bodies
    <3> QED BY <3>1, <3>2, LineSaid
  <2>2. handed'[p] > 0 /\ DOMAIN work' \subseteq DOMAIN work \cup {p}
    <3>1. handed'[p] = handed[p] + 1 /\ handed[p] \in Nat
      BY <1>0, <1>1, CountIs DEF HandOver
    <3>2. DOMAIN work' \subseteq DOMAIN work \cup {p}
      BY <1>1 DEF HandOver, With
    <3> QED BY <3>1, <3>2
  <2>3. TrueLine(l, missed', handed', sent', ackd')
    BY <2>1, <2>2 DEF TrueLine
  <2>4. \A q \in DOMAIN work' : handed'[q] > 0
    BY <1>0, <2>2 DEF LinesTrue
  <2> QED BY <2>1, <2>3, <2>4, PrintsIs, TruePrinted DEF LinesTrue
<1>2. ASSUME NEW p \in Pkt, GetAck(p) PROVE LinesTrue'
  <2>1. PICK l \in LineSet : /\ l.body = "acked" /\ l.pkt = p /\ l.cut = FALSE
                             /\ Printed(l)
    <3>1. Prints(<<Line("acked", p)>>)
      BY <1>2 DEF GetAck
    <3>2. "acked" \in Bodies
      BY DEF Bodies
    <3> QED BY <3>1, <3>2, LineSaid
  <2>2. p \in ackd' /\ p \in DOMAIN work /\ handed' = handed /\ DOMAIN work' \subseteq DOMAIN work
    BY <1>2, RestrictIs DEF GetAck
  <2>3. TrueLine(l, missed', handed', sent', ackd')
    BY <2>1, <2>2 DEF TrueLine, LinesTrue
  <2>4. \A q \in DOMAIN work' : handed'[q] > 0
    BY <2>2 DEF LinesTrue
  <2> QED BY <2>1, <2>3, <2>4, PrintsIs, TruePrinted DEF LinesTrue
<1>3. ASSUME NEW p \in Pkt, GiveUp(p) PROVE LinesTrue'
  <2>1. DOMAIN work' \subseteq DOMAIN work /\ UNCHANGED <<console, missed, handed, sent, ackd>>
    BY <1>3, RestrictIs DEF GiveUp, reader, history
  <2> QED BY <2>1 DEF LinesTrue
<1>4. ASSUME NEW p \in Pkt \cup {Other}, StartTx(p) PROVE LinesTrue'
  <2>1. PICK l \in LineSet : /\ l.body = "started" /\ l.pkt = p /\ l.cut = FALSE
                             /\ Printed(l)
    BY <1>4, LineSaid DEF StartTx, Bodies
  <2>2. (p \in DOMAIN work \/ p = Other) /\ UNCHANGED <<work, handed>>
    BY <1>4 DEF StartTx
  <2>3. TrueLine(l, missed', handed', sent', ackd')
    BY <1>0, <2>1, <2>2 DEF TrueLine, LinesTrue
  <2> QED BY <2>1, <2>2, <2>3, PrintsIs, TruePrinted DEF LinesTrue
<1>5. CASE PrintAirtime
  <2>1. PICK l \in LineSet : /\ l.body = "airtime" /\ l.pkt = Other /\ l.cut = FALSE
                             /\ Printed(l)
    <3>1. Prints(<<Line("airtime", Other)>>)
      BY <1>5 DEF PrintAirtime
    <3>2. "airtime" \in Bodies
      BY DEF Bodies
    <3> QED BY <3>1, <3>2, LineSaid
  <2>2. UNCHANGED <<work, handed>>
    BY <1>5 DEF PrintAirtime
  <2>3. TrueLine(l, missed', handed', sent', ackd')
    BY <1>0, <2>1 DEF TrueLine
  <2> QED BY <2>1, <2>2, <2>3, PrintsIs, TruePrinted DEF LinesTrue
<1>6. CASE CompleteTx
  <2>0. radio \in Pkt \cup {Other} /\ (radio \in Pkt => radio \in DOMAIN work)
    BY <1>6 DEF CompleteTx, Typed
  <2>1. PICK l \in LineSet : /\ l.body = "done" /\ l.pkt = radio /\ l.cut = FALSE
                             /\ Printed(l)
    BY <1>6, <2>0, LineSaid DEF CompleteTx, Bodies
  <2>2. handed' = handed /\ DOMAIN work' \subseteq DOMAIN work
    BY <1>6, RestrictIs DEF CompleteTx
  <2>3. radio \in Pkt => sent'[radio] > 0
    BY <1>0, <1>6, CountIs DEF CompleteTx
  <2>4. TrueLine(l, missed', handed', sent', ackd')
    BY <2>0, <2>1, <2>2, <2>3 DEF TrueLine, LinesTrue
  <2>5. \A q \in DOMAIN work' : handed'[q] > 0
    BY <2>2 DEF LinesTrue
  <2> QED BY <2>1, <2>4, <2>5, PrintsIs, TruePrinted DEF LinesTrue
<1>7. CASE Reboot
  <2>1. BootLine \in LineSet /\ Prints(<<BootLine>>) /\ DOMAIN work' = {}
    BY <1>7, BootLineIs DEF Reboot, BootLine
  <2>2. TrueLine(BootLine, missed', handed', sent', ackd')
    BY <1>0, BootLineIs DEF TrueLine
  <2> QED BY <2>1, <2>2, PrintsIs, TruePrinted DEF LinesTrue
<1> QED BY <1>1, <1>2, <1>3, <1>4, <1>5, <1>6, <1>7 DEF NodeStep

LEMMA TrueStep == Typed /\ LinesTrue /\ [Next]_vars => LinesTrue'
<1> SUFFICES ASSUME Typed, LinesTrue, [Next]_vars PROVE LinesTrue'
  OBVIOUS
<1>1. Typed' /\ Grown
  BY TypedStep, HistoryGrows
<1>2. CASE NodeStep
  BY <1>1, <1>2, TrueNode
<1>3. CASE Tick \/ FeedNone \/ UNCHANGED vars
  BY <1>3 DEF Tick, FeedNone, IdleTick, vars, reader, node, history, LinesTrue
<1>4. CASE FeedLine
  <2>1. console # <<>> /\ console' = Tail(console) /\ console \in Seq(LineSet)
        /\ UNCHANGED <<missed, node, history>>
    BY <1>4 DEF FeedLine, ReadsLine, Typed
  <2>2. \A i \in DOMAIN console' : \E j \in DOMAIN console : console'[i] = console[j]
    BY <2>1, TailIs
  <2> QED BY <2>1, <2>2 DEF LinesTrue, node, history
<1>5. CASE Port
  <2>1. UNCHANGED <<node, history>>
    BY <1>5 DEF Port
  <2>2. CASE Opens \/ OpenFails
    BY <2>1, <2>2 DEF Opens, OpenFails, reader, LinesTrue, node, history
  <2>3. CASE ReadFails
    BY <2>1, <2>3 DEF ReadFails, LinesTrue, node, history
  <2>4. CASE Cut
    <3>1. PICK k \in DOMAIN console : console' = [console EXCEPT ![k].cut = TRUE]
      BY <2>4 DEF Cut
    <3>2. missed' /\ DOMAIN console' = DOMAIN console
          /\ \A i \in DOMAIN console : /\ console'[i].body = console[i].body
                                       /\ console'[i].pkt = console[i].pkt
      BY <2>4, <3>1, CutIs DEF Cut, Typed
    <3> QED BY <2>1, <3>2 DEF LinesTrue, TrueLine, node, history
  <2> QED BY <1>5, <2>2, <2>3, <2>4 DEF Port
<1> QED BY <1>2, <1>3, <1>4, <1>5 DEF Next

LEMMA InitTrue == Init => LinesTrue
BY DEF Init, ReaderInit, LinesTrue

\* One record per packet ------------------------------------------------------------
TellsOf(c, b, p) == {i \in DOMAIN c : c[i].body = b /\ c[i].pkt = p}

LEMMA TellsFinite ==
    ASSUME NEW c \in Seq(LineSet), NEW b, NEW p
    PROVE  /\ IsFiniteSet(TellsOf(c, b, p)) /\ Cardinality(TellsOf(c, b, p)) \in Nat
           /\ TellsOf(c, b, p) = {} <=> Cardinality(TellsOf(c, b, p)) = 0
<1>1. IsFiniteSet(1 .. Len(c)) /\ TellsOf(c, b, p) \subseteq 1 .. Len(c)
  BY FS_Interval DEF TellsOf
<1>2. IsFiniteSet(TellsOf(c, b, p))
  BY <1>1, FS_Subset
<1> QED BY <1>2, FS_CardinalityType, FS_EmptySet

LEMMA TellsAppended ==
    ASSUME NEW c \in Seq(LineSet), NEW l \in LineSet, NEW b, NEW p
    PROVE  Cardinality(TellsOf(Append(c, l), b, p)) =
               IF l.body = b /\ l.pkt = p THEN Cardinality(TellsOf(c, b, p)) + 1
               ELSE Cardinality(TellsOf(c, b, p))
<1>1. CASE l.body = b /\ l.pkt = p
  <2>1. TellsOf(Append(c, l), b, p) = TellsOf(c, b, p) \cup {Len(c) + 1}
    BY <1>1, AppendedIs DEF TellsOf
  <2>2. Len(c) + 1 \notin TellsOf(c, b, p)
    BY AppendedIs DEF TellsOf
  <2>3. IsFiniteSet(TellsOf(c, b, p))
    BY TellsFinite
  <2>4. Cardinality(TellsOf(c, b, p) \cup {Len(c) + 1}) = Cardinality(TellsOf(c, b, p)) + 1
    BY <2>2, <2>3, FS_AddElement
  <2> QED BY <1>1, <2>1, <2>4
<1>2. CASE ~(l.body = b /\ l.pkt = p)
  <2>1. TellsOf(Append(c, l), b, p) = TellsOf(c, b, p)
    BY <1>2, AppendedIs DEF TellsOf
  <2> QED BY <1>2, <2>1
<1> QED BY <1>1, <1>2

LEMMA TellsTail ==
    ASSUME NEW c \in Seq(LineSet), c # <<>>, NEW b, NEW p
    PROVE  Cardinality(TellsOf(c, b, p)) =
               IF Head(c).body = b /\ Head(c).pkt = p
               THEN Cardinality(TellsOf(Tail(c), b, p)) + 1
               ELSE Cardinality(TellsOf(Tail(c), b, p))
<1> DEFINE S == TellsOf(Tail(c), b, p)
           T == TellsOf(c, b, p) \ {1}
           f == [i \in S |-> i + 1]
<1>0. Tail(c) \in Seq(LineSet) /\ DOMAIN c = 1 .. Len(c) /\ Len(c) \in Nat /\ Len(c) > 0
      /\ DOMAIN Tail(c) = 1 .. Len(c) - 1 /\ Head(c) = c[1]
      /\ \A i \in DOMAIN Tail(c) : Tail(c)[i] = c[i + 1]
  BY TailIs
<1>1. \A i : i \in S <=> i \in 1 .. Len(c) - 1 /\ i + 1 \in T
  BY <1>0 DEF TellsOf
<1>2. \A j \in T : j - 1 \in 1 .. Len(c) - 1 /\ (j - 1) + 1 = j /\ j - 1 \in S
  BY <1>0, <1>1 DEF TellsOf
<1>3. S \subseteq Nat
  BY <1>0 DEF TellsOf
<1> HIDE DEF S, T
<1>4. f \in [S -> T] /\ \A i, j \in S : f[i] = f[j] => i = j
  BY <1>1, <1>3
<1>5. \A j \in T : \E i \in S : f[i] = j
  BY <1>2
<1>6. f \in Bijection(S, T)
  BY <1>4, <1>5 DEF Bijection, Injection, Surjection, IsInjective
<1>7. IsFiniteSet(S)
  BY <1>0, TellsFinite DEF S
<1>8. Cardinality(T) = Cardinality(S)
  BY <1>6, <1>7, FS_Bijection DEF ExistsBijection
<1>9. /\ IsFiniteSet(TellsOf(c, b, p)) /\ Cardinality(TellsOf(c, b, p)) \in Nat
      /\ 1 \in TellsOf(c, b, p) <=> Head(c).body = b /\ Head(c).pkt = p
  <2>1. IsFiniteSet(TellsOf(c, b, p)) /\ Cardinality(TellsOf(c, b, p)) \in Nat
    BY TellsFinite
  <2>2. 1 \in TellsOf(c, b, p) <=> Head(c).body = b /\ Head(c).pkt = p
    BY <1>0 DEF TellsOf
  <2> QED BY <2>1, <2>2
<1>10. Cardinality(T) = IF 1 \in TellsOf(c, b, p) THEN Cardinality(TellsOf(c, b, p)) - 1
                        ELSE Cardinality(TellsOf(c, b, p))
  BY <1>9, FS_RemoveElement DEF T
<1> QED BY <1>8, <1>9, <1>10 DEF S

LEMMA TellsSame ==
    ASSUME NEW c, NEW d, DOMAIN d = DOMAIN c, NEW b, NEW p,
           \A i \in DOMAIN c : d[i].body = c[i].body /\ d[i].pkt = c[i].pkt
    PROVE  TellsOf(d, b, p) = TellsOf(c, b, p)
BY DEF TellsOf

Balance(s, p) == Len(s.published[p]) + (IF Holds(s, p) THEN 1 ELSE 0)
ToCome(c, p)  == Cardinality(TellsOf(c, "handed", p))

LEMMA BalanceIs ==
    ASSUME NEW s \in LogState, NEW t \in LogState, NEW p \in Pkt
    PROVE  /\ Balance(s, p) \in Nat /\ Len(s.published[p]) \in Nat
           /\ \A up, now : Begun(s, t, p, up, now) => Balance(t, p) = Balance(s, p) + 1
           /\ \A up, now : Retried(s, t, p, up, now) => Balance(t, p) = Balance(s, p)
           /\ \A o : Resolved(s, t, p, o) => Balance(t, p) = Balance(s, p)
           /\ Kept(s, t, p) => Balance(t, p) = Balance(s, p)
<1>1. s.published[p] \in Seq(Entry) /\ Len(s.published[p]) \in Nat
  BY DEF LogState, Reported
<1>2. \A e \in Entry : Len(Append(s.published[p], e)) = Len(s.published[p]) + 1
  BY <1>1
<1>3. \A up, now : Begun(s, t, p, up, now) => Balance(t, p) = Balance(s, p) + 1
  BY <1>1 DEF Begun, Balance
<1>4. \A up, now : Retried(s, t, p, up, now) => Balance(t, p) = Balance(s, p)
  BY DEF Retried, Balance
<1>5. \A o : Resolved(s, t, p, o) => Balance(t, p) = Balance(s, p)
  BY <1>1, <1>2 DEF Resolved, Balance
<1>6. Kept(s, t, p) => Balance(t, p) = Balance(s, p)
  BY DEF Kept, Balance
<1>7. Balance(s, p) \in Nat
  <2>1. PICK n \in Nat : n = Len(s.published[p])
    BY <1>1
  <2>2. Balance(s, p) = n + (IF Holds(s, p) THEN 1 ELSE 0)
    BY <2>1 DEF Balance
  <2>3. CASE Holds(s, p)
    BY <2>2, <2>3
  <2>4. CASE ~Holds(s, p)
    BY <2>2, <2>4
  <2> QED BY <2>3, <2>4
<1> QED BY <1>1, <1>3, <1>4, <1>5, <1>6, <1>7

\* What a line fed adds.
LEMMA FedBalance ==
    ASSUME Typed, NEW k \in LineSet, NEW p \in Pkt
    PROVE  LET t == Expired(Dispatching(k), clock)
           IN  \/ Balance(t, p) = Balance(log, p)
                  /\ (k.body = "handed" /\ k.pkt = p => Balance(log, p) > 0)
               \/ Balance(t, p) = Balance(log, p) + 1 /\ k.body = "handed" /\ k.pkt = p
<1> DEFINE t == Expired(Dispatching(k), clock)
<1>0. /\ log \in LogState /\ Noting(k) \in LogState /\ Dispatching(k) \in LogState
      /\ t \in LogState /\ k.uptime \in Nat /\ clock \in Nat
  BY FedTyped DEF Typed, LineSet
<1>1. Balance(Noting(k), p) = Balance(log, p)
  BY <1>0, NotedFate, BalanceIs DEF Noting
<1>2. \/ Balance(Dispatching(k), p) = Balance(log, p)
         /\ (k.body = "handed" /\ k.pkt = p => Holds(Noting(k), p))
      \/ Balance(Dispatching(k), p) = Balance(log, p) + 1 /\ k.body = "handed" /\ k.pkt = p
  <2>1. CASE Kept(Noting(k), Dispatching(k), p)
             /\ (k.pkt = p /\ k.body = "handed" => Holds(Noting(k), p))
    BY <1>0, <1>1, <2>1, BalanceIs
  <2>2. CASE k.body = "handed" /\ k.pkt = p
             /\ Begun(Noting(k), Dispatching(k), p, k.uptime, clock)
    BY <1>0, <1>1, <2>2, BalanceIs
  <2>3. CASE k.body = "done" /\ Retried(Noting(k), Dispatching(k), p, k.uptime, clock)
    BY <1>0, <1>1, <2>3, BalanceIs
  <2>4. CASE k.body = "done" /\ Resolved(Noting(k), Dispatching(k), p, "sent")
    BY <1>0, <1>1, <2>4, BalanceIs
  <2>5. CASE k.body = "acked" /\ Resolved(Noting(k), Dispatching(k), p, "acked")
    BY <1>0, <1>1, <2>5, BalanceIs
  <2> QED BY <1>0, <2>1, <2>2, <2>3, <2>4, <2>5, DispatchedFate DEF Dispatching
<1>3. Balance(t, p) = Balance(Dispatching(k), p)
  BY <1>0, ExpiredFate, BalanceIs
<1>4. Holds(Noting(k), p) => Balance(log, p) > 0
  <2>1. Len(Noting(k).published[p]) \in Nat
    BY <1>0, BalanceIs
  <2>2. Holds(Noting(k), p) => Balance(Noting(k), p) > 0
    BY <2>1 DEF Balance
  <2> QED BY <1>1, <2>2
<1> QED BY <1>2, <1>3, <1>4

CountInv ==
    \A p \in Pkt :
        /\ Balance(log, p) + ToCome(console, p) <= handed[p]
        /\ handed[p] = 1 /\ ~missed => Balance(log, p) + ToCome(console, p) = 1

\* A line that says nothing of a handing leaves the count.
CountOf(p, b, c, h, m) ==
    /\ b + ToCome(c, p) <= h[p]
    /\ h[p] = 1 /\ ~m => b + ToCome(c, p) = 1

LEMMA CountPrinted ==
    ASSUME Typed, NEW l \in LineSet, Printed(l), NEW p \in Pkt,
           CountOf(p, Balance(log, p), console, handed, missed),
           handed'[p] = IF l.body = "handed" /\ l.pkt = p THEN handed[p] + 1 ELSE handed[p],
           missed' \in BOOLEAN
    PROVE  CountOf(p, Balance(log, p), console', handed', missed')
<1> DEFINE B == Balance(log, p)
           N == ToCome(console, p)
           M == ToCome(console', p)
<1>1. B \in Nat /\ N \in Nat /\ handed[p] \in Nat
  BY TellsFinite, BalanceIs DEF Typed, ToCome
<1>2. B + N <= handed[p] /\ (handed[p] = 1 /\ ~missed => B + N = 1)
  BY DEF CountOf
<1>3. CASE console' = Append(console, l) /\ missed' = missed
  <2>1. M = IF l.body = "handed" /\ l.pkt = p THEN N + 1 ELSE N
    BY <1>3, TellsAppended DEF Typed, ToCome
  <2> HIDE DEF B, N, M
  <2>2. B + M <= handed'[p] /\ (handed'[p] = 1 /\ ~missed' => B + M = 1)
    BY <1>1, <1>2, <1>3, <2>1
  <2> QED BY <2>2 DEF CountOf, B, M
<1>4. CASE console' = console /\ missed'
  <2>1. M = N
    BY <1>4
  <2> HIDE DEF B, N, M
  <2>2. B + M <= handed'[p] /\ (handed'[p] = 1 /\ ~missed' => B + M = 1)
    BY <1>1, <1>2, <1>4, <2>1
  <2> QED BY <2>2 DEF CountOf, B, M
<1> QED BY <1>3, <1>4 DEF Printed

LEMMA CountNode ==
    ASSUME Typed, CountInv, Typed', NodeStep, NEW p \in Pkt
    PROVE  CountOf(p, Balance(log, p), console', handed', missed')
<1>0. /\ CountOf(p, Balance(log, p), console, handed, missed) /\ missed' \in BOOLEAN
      /\ handed \in [Pkt -> Nat]
  BY DEF CountInv, CountOf, Typed
<1>1. ASSUME NEW q \in Pkt, HandOver(q)
      PROVE  CountOf(p, Balance(log, p), console', handed', missed')
  <2>1. PICK l \in LineSet : l.body = "handed" /\ l.pkt = q /\ Printed(l)
    <3>1. Prints(<<Line("handed", q)>>)
      BY <1>1 DEF HandOver
    <3>2. "handed" \in Bodies
      BY DEF Bodies
    <3> QED BY <3>1, <3>2, LineSaid
  <2>2. handed'[p] = IF p = q THEN handed[p] + 1 ELSE handed[p]
    BY <1>0, <1>1 DEF HandOver, Count
  <2> QED BY <1>0, <2>1, <2>2, CountPrinted
<1>2. ASSUME NEW l \in LineSet, l.body # "handed", Printed(l), handed' = handed
      PROVE  CountOf(p, Balance(log, p), console', handed', missed')
  BY <1>0, <1>2, CountPrinted
<1>3. ASSUME NEW b \in Bodies, b # "handed", NEW q \in Pkt \cup {Other},
             b = "acked" => q \in Pkt, Prints(<<Line(b, q)>>), handed' = handed
      PROVE  CountOf(p, Balance(log, p), console', handed', missed')
  BY <1>2, <1>3, LineSaid
<1>4. ASSUME NEW q \in Pkt, GetAck(q)
      PROVE  CountOf(p, Balance(log, p), console', handed', missed')
  BY <1>3, <1>4 DEF GetAck, Bodies
<1>5. ASSUME NEW q \in Pkt \cup {Other}, StartTx(q)
      PROVE  CountOf(p, Balance(log, p), console', handed', missed')
  BY <1>3, <1>5 DEF StartTx, Bodies
<1>6. CASE PrintAirtime
  BY <1>3, <1>6 DEF PrintAirtime, Bodies
<1>7. CASE CompleteTx
  <2>1. radio \in Pkt \cup {Other} /\ Prints(<<Line("done", radio)>>) /\ handed' = handed
    BY <1>7 DEF CompleteTx, Typed
  <2> QED BY <1>3, <2>1 DEF Bodies
<1>8. CASE Reboot
  <2>1. Prints(<<BootLine>>) /\ handed' = handed
    BY <1>8 DEF Reboot, BootLine
  <2> QED BY <1>2, <2>1, BootLineIs, PrintsIs
<1>9. ASSUME NEW q \in Pkt, GiveUp(q)
      PROVE  CountOf(p, Balance(log, p), console', handed', missed')
  BY <1>0, <1>9 DEF GiveUp, reader, history
<1> QED BY <1>1, <1>4, <1>5, <1>6, <1>7, <1>8, <1>9 DEF NodeStep

LEMMA CountFed ==
    ASSUME Typed, LinesTrue, CountInv, FeedLine, NEW p \in Pkt
    PROVE  CountOf(p, Balance(log', p), console', handed, missed)
<1> DEFINE l == Head(console)
           B == Balance(log, p)
           N == ToCome(console, p)
           C == Balance(log', p)
           M == ToCome(console', p)
<1>0. B \in Nat /\ N \in Nat /\ handed[p] \in Nat
  BY TellsFinite, BalanceIs DEF Typed, ToCome
<1>1. B + N <= handed[p] /\ (handed[p] = 1 /\ ~missed => B + N = 1)
  BY DEF CountInv
<1>2. console # <<>> /\ console' = Tail(console) /\ console \in Seq(LineSet)
  BY DEF FeedLine, ReadsLine, Typed
<1>3. N = IF l.body = "handed" /\ l.pkt = p THEN M + 1 ELSE M
  BY <1>2, TellsTail DEF ToCome
<1>4. M \in Nat /\ (l.cut => missed)
  <2>1. console' \in Seq(LineSet) /\ l = console[1] /\ 1 \in DOMAIN console
    BY <1>2, TailIs
  <2>2. M \in Nat
    BY <2>1, TellsFinite DEF ToCome
  <2>3. TrueLine(console[1], missed, handed, sent, ackd)
    BY <2>1 DEF LinesTrue
  <2> QED BY <2>1, <2>2, <2>3 DEF TrueLine
<1>5. \/ C = B /\ (l.cut \/ (l.body = "handed" /\ l.pkt = p => B > 0))
      \/ C = B + 1 /\ l.body = "handed" /\ l.pkt = p
  <2>1. CASE l.cut /\ log' = log
    BY <2>1
  <2>2. ASSUME NEW k, Remains(l, k), log' = Expired(Dispatching(k), clock)
        PROVE  \/ C = B /\ (l.cut \/ (l.body = "handed" /\ l.pkt = p => B > 0))
               \/ C = B + 1 /\ l.body = "handed" /\ l.pkt = p
    <3>1. k \in LineSet /\ (k = l \/ (l.cut /\ k.body # "handed"))
      BY <2>2 DEF Remains
    <3> HIDE DEF l
    <3> QED BY <2>2, <3>1, FedBalance
  <2> QED BY <2>1, <2>2, FedIs
<1> HIDE DEF l, B, N, C, M
<1>6. C + M <= handed[p] /\ (handed[p] = 1 /\ ~missed => C + M = 1)
  BY <1>0, <1>1, <1>3, <1>4, <1>5
<1> QED BY <1>6 DEF CountOf, C, M

LEMMA CountStep == Typed /\ LinesTrue /\ CountInv /\ [Next]_vars => CountInv'
<1> SUFFICES ASSUME Typed, LinesTrue, CountInv, [Next]_vars, NEW p \in Pkt
             PROVE  CountOf(p, Balance(log', p), console', handed', missed')
  BY DEF CountInv, CountOf, Balance, ToCome, Holds, TellsOf
<1>0. Typed' /\ CountOf(p, Balance(log, p), console, handed, missed)
  BY TypedStep DEF CountInv, CountOf
<1>1. CASE NodeStep
  <2>1. log' = log
    BY <1>1 DEF NodeStep, HandOver, GetAck, GiveUp, StartTx, PrintAirtime, CompleteTx, Reboot
  <2> QED BY <1>0, <1>1, <2>1, CountNode
<1>2. CASE FeedLine
  <2>1. handed' = handed /\ missed' = missed
    BY <1>2 DEF FeedLine, ReadsLine, history
  <2> QED BY <1>2, <2>1, CountFed
<1>3. CASE FeedNone
  <2>1. log' = Expired(log, clock) /\ UNCHANGED <<console, missed, handed>>
        /\ log \in LogState /\ log' \in LogState /\ clock \in Nat
    BY <1>0, <1>3 DEF FeedNone, IdleTick, reader, history, Typed
  <2>2. Balance(log', p) = Balance(log, p)
    BY <2>1, ExpiredFate, BalanceIs
  <2> QED BY <1>0, <2>1, <2>2
<1>4. CASE Port
  <2>1. UNCHANGED <<log, handed>>
    BY <1>4 DEF Port, history
  <2>2. CASE Opens \/ OpenFails
    BY <1>0, <2>1, <2>2 DEF Opens, OpenFails, reader
  <2>3. CASE ReadFails
    <3>1. console' = <<>> /\ missed' = (missed \/ console # <<>>)
      BY <2>3 DEF ReadFails
    <3>2. Balance(log, p) \in Nat /\ ToCome(console, p) \in Nat /\ handed[p] \in Nat
      BY TellsFinite, BalanceIs DEF Typed, ToCome
    <3>3. TellsOf(console', "handed", p) = {}
      BY <3>1 DEF TellsOf
    <3>4. ToCome(console', p) = 0
      BY <3>3, FS_EmptySet DEF ToCome
    <3>5. ~missed' => console = console'
      BY <3>1
    <3>6. Balance(log, p) + ToCome(console', p) <= handed[p]
      BY <1>0, <3>2, <3>4 DEF CountOf
    <3>7. ~missed' => ~missed
      BY <3>1
    <3>8. handed[p] = 1 /\ ~missed' => Balance(log, p) + ToCome(console', p) = 1
      BY <1>0, <3>5, <3>7 DEF CountOf
    <3> QED BY <2>1, <3>6, <3>8 DEF CountOf
  <2>4. CASE Cut
    <3>1. PICK k \in DOMAIN console : console' = [console EXCEPT ![k].cut = TRUE]
      BY <2>4 DEF Cut
    <3>2. missed' = TRUE
      BY <2>4 DEF Cut
    <3>3. DOMAIN console' = DOMAIN console
          /\ \A i \in DOMAIN console : /\ console'[i].body = console[i].body
                                       /\ console'[i].pkt = console[i].pkt
      BY <3>1, CutIs DEF Typed
    <3>4. ToCome(console', p) = ToCome(console, p)
      BY <3>3, TellsSame DEF ToCome
    <3> QED BY <1>0, <2>1, <3>2, <3>4 DEF CountOf
  <2> QED BY <1>4, <2>2, <2>3, <2>4 DEF Port
<1>5. CASE Tick \/ UNCHANGED vars
  <2>1. UNCHANGED <<log, console, missed, handed>>
    BY <1>5 DEF Tick, vars, reader, history
  <2> QED BY <1>0, <2>1
<1> QED BY <1>1, <1>2, <1>3, <1>4, <1>5 DEF Next

LEMMA InitCount == Init => CountInv
<1> SUFFICES ASSUME Init, NEW p \in Pkt
             PROVE  Balance(log, p) = 0 /\ ToCome(console, p) = 0 /\ handed[p] = 0
  BY DEF CountInv
<1>1. /\ log.published[p] = <<>> /\ DOMAIN log.inflight = {} /\ console = <<>>
      /\ handed[p] = 0
  BY DEF Init, ReaderInit, InitialLog
<1>2. TellsOf(console, "handed", p) = {}
  BY <1>1 DEF TellsOf
<1>3. ToCome(console, p) = 0
  BY <1>2, FS_EmptySet DEF ToCome
<1>4. Balance(log, p) = 0
  BY <1>1 DEF Balance, Holds
<1> QED BY <1>1, <1>3, <1>4

LEMMA Counts == Spec => [](Typed /\ LinesTrue /\ CountInv)
<1> QED BY InitTyped, TypedStep, InitTrue, TrueStep, InitCount, CountStep, PTL DEF Spec

\* Every packet handed over has one record, and none has more records than it was
\* handed over, whatever is lost or cut on the console.
THEOREM RecordedOnce == Spec => []OneRecordPerPacket
<1>1. Typed /\ CountInv => OneRecordPerPacket
  <2> SUFFICES ASSUME Typed, CountInv, NEW p \in Pkt
               PROVE  /\ Accounted(p) <= handed[p]
                      /\ handed[p] = 1 /\ ~missed /\ ToldOf(p) => Accounted(p) = 1
    BY DEF OneRecordPerPacket
  <2>1. Accounted(p) = Balance(log, p)
    BY DEF Accounted, Balance, Holds
  <2>2. Balance(log, p) \in Nat /\ ToCome(console, p) \in Nat /\ handed[p] \in Nat
    BY TellsFinite, BalanceIs DEF Typed, ToCome
  <2>3. ToldOf(p) => ToCome(console, p) = 0
    <3>1. ToldOf(p) => TellsOf(console, "handed", p) = {}
      BY DEF ToldOf, TellsOf
    <3> QED BY <3>1, FS_EmptySet DEF ToCome
  <2> QED BY <2>1, <2>2, <2>3 DEF CountInv
<1> QED BY <1>1, Counts, PTL

\* A falling uptime is a reboot ------------------------------------------------------
\* From line i on, the uptimes printed rise to the node's.
Steady(c, i, up) ==
    \A j, k \in i .. Len(c) : c[j].uptime <= up /\ (j <= k => c[j].uptime <= c[k].uptime)

\* No reboot lies between the handing of a packet and what is fed next.
Fresh(s, c, up, p) ==
    /\ Holds(s, p) => /\ Steady(c, 1, up) /\ s.uptime <= up
                      /\ \A j \in DOMAIN c : s.uptime <= c[j].uptime
    /\ \A i \in TellsOf(c, "handed", p) : Steady(c, i, up)

BootInv == \A p \in Pkt \ handedAtBoot : Fresh(log, console, Uptime, p)

LEMMA SteadyTail ==
    ASSUME NEW c \in Seq(LineSet), c # <<>>, NEW i \in 1 .. Len(c), NEW up, Steady(c, i, up),
           NEW h \in 1 .. Len(c), h + 1 >= i
    PROVE  Steady(Tail(c), h, up)
<1> SUFFICES ASSUME NEW j \in h .. Len(Tail(c)), NEW k \in h .. Len(Tail(c))
             PROVE  /\ Tail(c)[j].uptime <= up
                    /\ j <= k => Tail(c)[j].uptime <= Tail(c)[k].uptime
  BY DEF Steady
<1>1. /\ j + 1 \in i .. Len(c) /\ k + 1 \in i .. Len(c)
      /\ Tail(c)[j] = c[j + 1] /\ Tail(c)[k] = c[k + 1]
  BY TailIs
<1>2. c[j + 1].uptime <= up /\ (j + 1 <= k + 1 => c[j + 1].uptime <= c[k + 1].uptime)
  BY <1>1 DEF Steady
<1> QED BY <1>1, <1>2

LEMMA SteadyAppended ==
    ASSUME NEW c \in Seq(LineSet), NEW i \in 1 .. Len(c) + 1, NEW up \in Nat,
           NEW l \in LineSet, l.uptime = up, i \in 1 .. Len(c) => Steady(c, i, up)
    PROVE  Steady(Append(c, l), i, up)
<1> SUFFICES ASSUME NEW j \in i .. Len(Append(c, l)), NEW k \in i .. Len(Append(c, l))
             PROVE  /\ Append(c, l)[j].uptime <= up
                    /\ j <= k => Append(c, l)[j].uptime <= Append(c, l)[k].uptime
  BY DEF Steady
<1>1. Len(c) \in Nat /\ j \in i .. Len(c) + 1 /\ k \in i .. Len(c) + 1
  BY AppendedIs
<1>2. ASSUME NEW n \in i .. Len(c) + 1
      PROVE  /\ n <= Len(c) => Append(c, l)[n] = c[n] /\ c[n].uptime <= up
             /\ n = Len(c) + 1 => Append(c, l)[n] = l
  <2>1. CASE n <= Len(c)
    <3>1. n \in DOMAIN c /\ i \in 1 .. Len(c) /\ n \in i .. Len(c)
      BY <1>1, <2>1, AppendedIs
    <3>2. Append(c, l)[n] = c[n] /\ c[n].uptime <= up
      BY <3>1, AppendedIs DEF Steady
    <3> QED BY <1>1, <2>1, <3>2
  <2>2. CASE n = Len(c) + 1
    BY <1>1, <2>2, AppendedIs
  <2> QED BY <1>1, <2>1, <2>2
<1>3. CASE j <= Len(c) /\ k <= Len(c)
  <2>1. i \in 1 .. Len(c) /\ j \in i .. Len(c) /\ k \in i .. Len(c)
    BY <1>1, <1>3
  <2>2. j <= k => c[j].uptime <= c[k].uptime
    BY <2>1 DEF Steady
  <2> QED BY <1>1, <1>2, <1>3, <2>2
<1>4. CASE j = Len(c) + 1
  <2>1. j <= k => k = Len(c) + 1
    BY <1>1, <1>4
  <2> QED BY <1>1, <1>2, <1>4, <2>1
<1>5. CASE j <= Len(c) /\ k = Len(c) + 1
  BY <1>1, <1>2, <1>5
<1> QED BY <1>1, <1>3, <1>4, <1>5

LEMMA FreshPrinted ==
    ASSUME Typed, NEW l \in LineSet, Printed(l), l.uptime = Uptime, NEW p \in Pkt,
           Fresh(log, console, Uptime, p)
    PROVE  Fresh(log, console', Uptime, p)
<1>1. CASE console' = Append(console, l)
  <2>0. console \in Seq(LineSet) /\ Uptime \in Nat /\ Len(console) \in Nat
    BY <1>1, AppendedIs DEF Typed, Uptime
  <2>1. ASSUME NEW i \in TellsOf(console', "handed", p)
        PROVE  Steady(console', i, Uptime)
    <3>1. i \in 1 .. Len(console) + 1
          /\ (i \in 1 .. Len(console) => i \in TellsOf(console, "handed", p))
      BY <1>1, <2>0, AppendedIs DEF TellsOf
    <3>2. i \in 1 .. Len(console) => Steady(console, i, Uptime)
      BY <3>1 DEF Fresh
    <3> QED BY <1>1, <2>0, <3>1, <3>2, SteadyAppended
  <2>2. ASSUME Holds(log, p)
        PROVE  /\ Steady(console', 1, Uptime) /\ log.uptime <= Uptime
               /\ \A j \in DOMAIN console' : log.uptime <= console'[j].uptime
    <3>1. /\ Steady(console, 1, Uptime) /\ log.uptime <= Uptime
          /\ \A j \in DOMAIN console : log.uptime <= console[j].uptime
      BY <2>2 DEF Fresh
    <3>2. Steady(console', 1, Uptime)
      BY <1>1, <2>0, <3>1, SteadyAppended
    <3>3. \A j \in DOMAIN console' : log.uptime <= console'[j].uptime
      BY <1>1, <2>0, <3>1, AppendedIs
    <3> QED BY <3>1, <3>2, <3>3
  <2> QED BY <2>1, <2>2 DEF Fresh
<1>2. CASE console' = console
  BY <1>2
<1> QED BY <1>1, <1>2 DEF Printed

\* What feeding one line can leave in flight.
LEMMA FedHolds ==
    ASSUME Typed, NEW k \in LineSet, NEW p \in Pkt,
           Holds(Expired(Dispatching(k), clock), p)
    PROVE  Holds(log, p) \/ (k.body = "handed" /\ k.pkt = p)
<1> DEFINE t == Expired(Dispatching(k), clock)
<1>0. /\ log \in LogState /\ Noting(k) \in LogState /\ Dispatching(k) \in LogState
      /\ k.uptime \in Nat /\ clock \in Nat
  BY FedTyped DEF Typed, LineSet
<1>1. Holds(t, p) => Holds(Dispatching(k), p)
  BY <1>0, ExpiredFate DEF Kept, Resolved
<1>2. Holds(Dispatching(k), p) => Holds(Noting(k), p) \/ (k.body = "handed" /\ k.pkt = p)
  <2>1. CASE Kept(Noting(k), Dispatching(k), p)
    BY <2>1 DEF Kept
  <2>2. CASE k.body = "handed" /\ k.pkt = p
    BY <2>2
  <2>3. CASE Retried(Noting(k), Dispatching(k), p, k.uptime, clock)
    BY <2>3 DEF Retried
  <2>4. CASE \/ Resolved(Noting(k), Dispatching(k), p, "sent")
             \/ Resolved(Noting(k), Dispatching(k), p, "acked")
    BY <2>4 DEF Resolved
  <2> QED BY <1>0, <2>1, <2>2, <2>3, <2>4, DispatchedFate DEF Dispatching
<1>3. Holds(Noting(k), p) => Holds(log, p)
  BY <1>0, NotedFate DEF Noting, Kept, Resolved
<1> QED BY <1>1, <1>2, <1>3

LEMMA FreshFed ==
    ASSUME Typed, FeedLine, NEW p \in Pkt, Fresh(log, console, Uptime, p)
    PROVE  Fresh(log', console', Uptime, p)
<1>0. /\ console # <<>> /\ console' = Tail(console) /\ console \in Seq(LineSet)
      /\ Len(console) \in Nat /\ Len(console) > 0 /\ Head(console) = console[1]
      /\ DOMAIN console = 1 .. Len(console) /\ DOMAIN console' = 1 .. Len(console) - 1
      /\ \A i \in DOMAIN console' : console'[i] = console[i + 1]
  <2>1. console # <<>> /\ console' = Tail(console) /\ console \in Seq(LineSet)
    BY DEF FeedLine, ReadsLine, Typed
  <2> QED BY <2>1, TailIs
<1>1. \A i \in TellsOf(console', "handed", p) : Steady(console', i, Uptime)
  <2> SUFFICES ASSUME NEW i \in TellsOf(console', "handed", p)
               PROVE  Steady(console', i, Uptime)
    OBVIOUS
  <2>1. i \in 1 .. Len(console) - 1 /\ i + 1 \in TellsOf(console, "handed", p)
    BY <1>0 DEF TellsOf
  <2>2. Steady(console, i + 1, Uptime)
    BY <2>1 DEF Fresh
  <2>3. i + 1 \in 1 .. Len(console) /\ i \in 1 .. Len(console)
    BY <1>0, <2>1
  <2> QED BY <1>0, <2>2, <2>3, SteadyTail
<1>2. ASSUME Steady(console, 1, Uptime)
      PROVE  /\ Steady(console', 1, Uptime) /\ console[1].uptime <= Uptime
             /\ \A j \in DOMAIN console' : console[1].uptime <= console'[j].uptime
  <2>1. Steady(console', 1, Uptime)
    BY <1>0, <1>2, SteadyTail
  <2>2. console[1].uptime <= Uptime
        /\ \A j \in 1 .. Len(console) : console[1].uptime <= console[j].uptime
    BY <1>0, <1>2 DEF Steady
  <2>3. \A j \in DOMAIN console' : console[1].uptime <= console'[j].uptime
    BY <1>0, <2>2
  <2> QED BY <2>1, <2>2, <2>3
<1>3. CASE log' = log
  <2>1. Holds(log, p) => /\ Steady(console, 1, Uptime) /\ log.uptime <= Uptime
                         /\ \A j \in DOMAIN console : log.uptime <= console[j].uptime
    BY DEF Fresh
  <2>2. \A j \in DOMAIN console' : j + 1 \in DOMAIN console
    BY <1>0
  <2> QED BY <1>0, <1>1, <1>2, <1>3, <2>1, <2>2 DEF Fresh
<1>4. ASSUME NEW k, Remains(Head(console), k), log' = Expired(Dispatching(k), clock)
      PROVE  Fresh(log', console', Uptime, p)
  <2>1. k \in LineSet /\ k.uptime = console[1].uptime
        /\ (k.body = "handed" => k = console[1])
    BY <1>0, <1>4 DEF Remains
  <2>2. log'.uptime = console[1].uptime
    BY <1>4, <2>1, FedTyped
  <2>3. Holds(log', p) => Steady(console, 1, Uptime)
    <3>1. Holds(log', p) => Holds(log, p) \/ (k.body = "handed" /\ k.pkt = p)
      BY <1>4, <2>1, FedHolds
    <3>2. k.body = "handed" /\ k.pkt = p => 1 \in TellsOf(console, "handed", p)
      BY <1>0, <2>1 DEF TellsOf
    <3> QED BY <3>1, <3>2 DEF Fresh
  <2> QED BY <1>1, <1>2, <2>2, <2>3 DEF Fresh
<1> QED BY <1>3, <1>4, FedIs

LEMMA NodeSaid ==
    ASSUME Typed, NodeStep
    PROVE  \/ Reboot
           \/ /\ Uptime' = Uptime /\ UNCHANGED <<log, clock, handedAtBoot>>
              /\ \/ UNCHANGED <<console, missed>>
                 \/ \E l \in LineSet : l.uptime = Uptime /\ Printed(l)
<1>1. ASSUME NEW b \in Bodies, NEW q \in Pkt \cup {Other},
             b \in {"handed", "acked"} => q \in Pkt, Prints(<<Line(b, q)>>)
      PROVE  \E l \in LineSet : l.uptime = Uptime /\ Printed(l)
  BY <1>1, LineSaid
<1>2. ASSUME NEW q \in Pkt, HandOver(q)
      PROVE  \E l \in LineSet : l.uptime = Uptime /\ Printed(l)
  BY <1>1, <1>2 DEF HandOver, Bodies
<1>3. ASSUME NEW q \in Pkt, GetAck(q)
      PROVE  \E l \in LineSet : l.uptime = Uptime /\ Printed(l)
  BY <1>1, <1>3 DEF GetAck, Bodies
<1>4. ASSUME NEW q \in Pkt \cup {Other}, StartTx(q)
      PROVE  \E l \in LineSet : l.uptime = Uptime /\ Printed(l)
  BY <1>1, <1>4 DEF StartTx, Bodies
<1>5. PrintAirtime => \E l \in LineSet : l.uptime = Uptime /\ Printed(l)
  BY <1>1 DEF PrintAirtime, Bodies
<1>6. CompleteTx => \E l \in LineSet : l.uptime = Uptime /\ Printed(l)
  <2> SUFFICES ASSUME CompleteTx PROVE \E l \in LineSet : l.uptime = Uptime /\ Printed(l)
    OBVIOUS
  <2>1. radio \in Pkt \cup {Other} /\ Prints(<<Line("done", radio)>>)
    BY DEF CompleteTx, Typed
  <2> QED BY <1>1, <2>1 DEF Bodies
<1>7. \A q \in Pkt : GiveUp(q) => UNCHANGED <<console, missed>>
  BY DEF GiveUp, reader
<1>8. Reboot \/ (bootAt' = bootAt /\ UNCHANGED <<log, clock, handedAtBoot>>)
  BY DEF NodeStep, HandOver, GetAck, GiveUp, StartTx, PrintAirtime, CompleteTx, Reboot, history
<1>9. Reboot \/ (Uptime' = Uptime /\ UNCHANGED <<log, clock, handedAtBoot>>)
  BY <1>8 DEF Uptime
<1> QED BY <1>2, <1>3, <1>4, <1>5, <1>6, <1>7, <1>9 DEF NodeStep

LEMMA NothingHanded ==
    ASSUME Typed, CountInv, NEW p \in Pkt, handed[p] = 0
    PROVE  ~Holds(log, p) /\ TellsOf(console, "handed", p) = {} /\ Len(log.published[p]) = 0
<1>1. Balance(log, p) \in Nat /\ ToCome(console, p) \in Nat /\ Len(log.published[p]) \in Nat
  BY TellsFinite, BalanceIs DEF Typed, ToCome
<1>2. Balance(log, p) = 0 /\ ToCome(console, p) = 0
  BY <1>1 DEF CountInv
<1>3. TellsOf(console, "handed", p) = {}
  BY <1>2, TellsFinite DEF ToCome, Typed
<1>4. PICK n \in Nat : n = Len(log.published[p])
  BY <1>1
<1>5. n + (IF Holds(log, p) THEN 1 ELSE 0) = 0
  BY <1>2, <1>4 DEF Balance
<1>6. ~Holds(log, p) /\ n = 0
  BY <1>5
<1> QED BY <1>3, <1>4, <1>6

LEMMA BootStep == Typed /\ CountInv /\ BootInv /\ [Next]_vars => BootInv'
<1> SUFFICES ASSUME Typed, CountInv, BootInv, [Next]_vars, NEW p \in Pkt,
                    p \notin handedAtBoot'
             PROVE  Fresh(log', console', Uptime', p)
  BY DEF BootInv, Fresh, Holds, TellsOf, Steady
<1>0. /\ Typed' /\ Fresh(log, console, Uptime, p)
      /\ console \in Seq(LineSet) /\ log \in LogState /\ clock \in Nat
  <2>1. Typed' /\ Grown
    BY TypedStep, HistoryGrows
  <2>2. p \notin handedAtBoot
    BY <2>1 DEF Grown
  <2>3. Fresh(log, console, Uptime, p)
    BY <2>2 DEF BootInv
  <2>4. console \in Seq(LineSet) /\ log \in LogState /\ clock \in Nat
    BY DEF Typed
  <2> QED BY <2>1, <2>3, <2>4
<1>1. CASE NodeStep /\ ~Reboot
  BY <1>0, <1>1, NodeSaid, FreshPrinted
<1>2. CASE Reboot
  <2>1. handed[p] = 0 /\ log' = log
    BY <1>2 DEF Reboot, Typed
  <2>2. ~Holds(log, p) /\ TellsOf(console, "handed", p) = {}
    BY <2>1, NothingHanded
  <2>3. Printed(BootLine)
    BY <1>2, BootLineIs, PrintsIs DEF Reboot, BootLine
  <2>4. TellsOf(console', "handed", p) = {}
    <3>1. CASE console' = console
      BY <2>2, <3>1
    <3>2. CASE console' = Append(console, BootLine)
      BY <1>0, <2>2, <3>2, BootLineIs, AppendedIs DEF TellsOf
    <3> QED BY <2>3, <3>1, <3>2 DEF Printed
  <2> QED BY <2>1, <2>2, <2>4 DEF Fresh
<1>3. CASE FeedLine
  <2>1. Uptime' = Uptime
    BY <1>3 DEF FeedLine, node, Uptime
  <2> QED BY <1>0, <1>3, <2>1, FreshFed
<1>4. CASE FeedNone
  <2>1. log' = Expired(log, clock) /\ console' = console /\ Uptime' = Uptime
    BY <1>4 DEF FeedNone, IdleTick, reader, node, Uptime
  <2>2. log'.uptime = log.uptime
    BY <1>0, <2>1, ExpiredIs DEF Rest
  <2>3. Holds(log', p) => Holds(log, p)
    BY <1>0, <2>1, ExpiredFate DEF Kept, Resolved
  <2> QED BY <1>0, <2>1, <2>2, <2>3 DEF Fresh
<1>5. CASE Port
  <2>1. log' = log /\ Uptime' = Uptime
    BY <1>5 DEF Port, node, Uptime
  <2>2. CASE Opens \/ OpenFails
    BY <1>0, <2>1, <2>2 DEF Opens, OpenFails, reader
  <2>3. CASE ReadFails
    <3>1. console' = <<>>
      BY <2>3 DEF ReadFails
    <3>2. Steady(<<>>, 1, Uptime)
      BY DEF Steady
    <3> QED BY <1>0, <2>1, <3>1, <3>2 DEF Fresh, TellsOf
  <2>4. CASE Cut
    <3>1. PICK k \in DOMAIN console : console' = [console EXCEPT ![k].cut = TRUE]
      BY <2>4 DEF Cut
    <3>2. /\ DOMAIN console' = DOMAIN console /\ Len(console') = Len(console)
          /\ \A i \in DOMAIN console : /\ console'[i].body = console[i].body
                                       /\ console'[i].pkt = console[i].pkt
                                       /\ console'[i].uptime = console[i].uptime
      BY <1>0, <3>1, CutIs
    <3>3. TellsOf(console', "handed", p) = TellsOf(console, "handed", p)
      BY <3>2, TellsSame
    <3>4. ASSUME NEW i \in 1 .. Len(console), Steady(console, i, Uptime)
          PROVE  Steady(console', i, Uptime)
      <4>1. \A j \in i .. Len(console) : console'[j].uptime = console[j].uptime
        BY <1>0, <3>2
      <4> QED BY <3>2, <3>4, <4>1 DEF Steady
    <3>5. \A i \in TellsOf(console, "handed", p) : i \in 1 .. Len(console)
      BY <1>0 DEF TellsOf
    <3>6. 1 \in 1 .. Len(console)
      BY <1>0, <3>1
    <3> QED BY <1>0, <2>1, <3>2, <3>3, <3>4, <3>5, <3>6 DEF Fresh
  <2> QED BY <1>5, <2>2, <2>3, <2>4 DEF Port
<1>6. CASE Tick
  <2>1. /\ console = <<>> /\ console' = <<>> /\ log' = log /\ Uptime' = Uptime + 1
        /\ Uptime \in Nat
    BY <1>6 DEF Tick, reader, node, Uptime, Typed
  <2>2. log.uptime \in Int /\ (Holds(log, p) => log.uptime <= Uptime)
    BY <1>0 DEF LogState, Nothing, Fresh
  <2>3. Steady(<<>>, 1, Uptime + 1)
    BY DEF Steady
  <2> QED BY <2>1, <2>2, <2>3 DEF Fresh, TellsOf
<1>7. CASE UNCHANGED vars
  <2>1. log' = log /\ console' = console /\ Uptime' = Uptime
    BY <1>7 DEF vars, reader, node, Uptime
  <2> QED BY <1>0, <2>1
<1> QED BY <1>1, <1>2, <1>3, <1>4, <1>5, <1>6, <1>7 DEF Next

LEMMA InitBoot == Init => BootInv
<1> SUFFICES ASSUME Init, NEW p \in Pkt PROVE Fresh(log, console, Uptime, p)
  BY DEF BootInv
<1>1. DOMAIN log.inflight = {} /\ console = <<>>
  BY DEF Init, ReaderInit, InitialLog
<1> QED BY <1>1 DEF Fresh, Holds, TellsOf

\* The collector follows the node ----------------------------------------------------
Handings(c, p) == TellsOf(c, "handed", p)
Dones(c, p)    == TellsOf(c, "done", p)
Acks(c, p)     == TellsOf(c, "acked", p)

\* While the packet p is in flight in s, or its handing is still to be read in c,
\* what the node has done with it (w what it works on, n transmissions of p, a
\* acknowledged) is recorded or still to be read, and recent enough.
Followed(s, c, w, n, a, now, p) ==
    /\ \A i \in Handings(c, p), j \in Dones(c, p) \cup Acks(c, p) : i < j
    /\ Holds(s, p) \/ Handings(c, p) # {} =>
          /\ n > 0 => (Holds(s, p) /\ s.inflight[p].attempts > 0) \/ Dones(c, p) # {}
          /\ p \in a => Acks(c, p) # {}
    /\ Holds(s, p) =>
          /\ p \in DOMAIN w => w[p] <= s.inflight[p].seen \/ Dones(c, p) # {}
          /\ p \in DOMAIN w \/ Dones(c, p) # {} \/ Acks(c, p) # {} =>
                now <= s.inflight[p].seen + Budget

TriedSent(s, p) == Holds(s, p) /\ s.inflight[p].attempts > 0 => sent[p] > 0

FollowInv ==
    \A p \in Pkt :
        /\ handed[p] = 0 => sent[p] = 0 /\ p \notin ackd
        /\ TriedSent(log, p)
        /\ handed[p] = 1 /\ ~missed =>
              Followed(log, console, work, sent[p], ackd, clock, p)

LEMMA TellsGrown ==
    ASSUME NEW c \in Seq(LineSet), NEW l \in LineSet, NEW b, NEW p
    PROVE  /\ TellsOf(Append(c, l), b, p) =
                 IF l.body = b /\ l.pkt = p THEN TellsOf(c, b, p) \cup {Len(c) + 1}
                 ELSE TellsOf(c, b, p)
           /\ \A i \in TellsOf(c, b, p) : i < Len(c) + 1
<1>1. \A i \in TellsOf(c, b, p) : i < Len(c) + 1
  BY AppendedIs DEF TellsOf
<1>2. CASE l.body = b /\ l.pkt = p
  BY <1>1, <1>2, AppendedIs DEF TellsOf
<1>3. CASE ~(l.body = b /\ l.pkt = p)
  BY <1>1, <1>3, AppendedIs DEF TellsOf
<1> QED BY <1>1, <1>2, <1>3

LEMMA TellsShrunk ==
    ASSUME NEW c \in Seq(LineSet), c # <<>>, NEW b, NEW p
    PROVE  /\ \A i \in TellsOf(Tail(c), b, p) : i \in Nat /\ i + 1 \in TellsOf(c, b, p)
           /\ \A j \in TellsOf(c, b, p) : j \in Nat /\ (j > 1 => j - 1 \in TellsOf(Tail(c), b, p))
           /\ 1 \in TellsOf(c, b, p) <=> Head(c).body = b /\ Head(c).pkt = p
           /\ ~(Head(c).body = b /\ Head(c).pkt = p) =>
                 (TellsOf(Tail(c), b, p) = {} <=> TellsOf(c, b, p) = {})
<1>0. Tail(c) \in Seq(LineSet) /\ DOMAIN c = 1 .. Len(c) /\ Len(c) \in Nat /\ Len(c) > 0
      /\ DOMAIN Tail(c) = 1 .. Len(c) - 1 /\ Head(c) = c[1]
      /\ \A i \in DOMAIN Tail(c) : Tail(c)[i] = c[i + 1]
  BY TailIs
<1>1. \A i \in TellsOf(Tail(c), b, p) : i \in Nat /\ i + 1 \in TellsOf(c, b, p)
  BY <1>0 DEF TellsOf
<1>2. ASSUME NEW j \in TellsOf(c, b, p)
      PROVE  j \in Nat /\ j >= 1 /\ (j > 1 => j - 1 \in TellsOf(Tail(c), b, p))
  <2>1. j \in 1 .. Len(c) /\ c[j].body = b /\ c[j].pkt = p
    BY <1>0 DEF TellsOf
  <2>2. j > 1 => j - 1 \in DOMAIN Tail(c) /\ Tail(c)[j - 1] = c[j]
    BY <1>0, <2>1
  <2> QED BY <2>1, <2>2 DEF TellsOf
<1>3. 1 \in TellsOf(c, b, p) <=> Head(c).body = b /\ Head(c).pkt = p
  BY <1>0 DEF TellsOf
<1>4. ~(Head(c).body = b /\ Head(c).pkt = p) =>
          (TellsOf(Tail(c), b, p) = {} <=> TellsOf(c, b, p) = {})
  <2>1. ASSUME 1 \notin TellsOf(c, b, p), NEW j \in TellsOf(c, b, p)
        PROVE  TellsOf(Tail(c), b, p) # {}
    <3>1. j \in Nat /\ j > 1
      BY <1>2, <2>1
    <3> QED BY <1>2, <3>1
  <2> QED BY <1>1, <1>3, <2>1
<1> QED BY <1>1, <1>2, <1>3, <1>4

\* Nothing is asked of a packet neither in flight nor to be announced.
LEMMA FollowGone ==
    ASSUME NEW s, NEW c, NEW w, NEW n, NEW a, NEW now, NEW p,
           ~Holds(s, p), Handings(c, p) = {}
    PROVE  Followed(s, c, w, n, a, now, p)
BY DEF Followed

LEMMA FollowKept ==
    ASSUME NEW s, NEW t, NEW c, NEW w, NEW n, NEW a, NEW now, NEW p,
           Kept(s, t, p), Followed(s, c, w, n, a, now, p)
    PROVE  Followed(t, c, w, n, a, now, p)
BY DEF Followed, Kept

\* The node does one more thing with the packet, and its console says so.
LEMMA FollowSaid ==
    ASSUME Typed, NEW l \in LineSet, console' = Append(console, l), NEW p \in Pkt,
           NEW n0, NEW a0, Followed(log, console, work, n0, a0, clock, p),
           ~(l.body = "handed" /\ l.pkt = p),
           NEW w, p \in DOMAIN w =>
                      p \in DOMAIN work /\ (w[p] = work[p] \/ (l.body = "done" /\ l.pkt = p)),
           NEW n, n = n0 \/ (l.body = "done" /\ l.pkt = p),
           NEW a, p \in a => p \in a0 \/ (l.body = "acked" /\ l.pkt = p),
           l.pkt = p /\ l.body \in {"done", "acked"} => p \in DOMAIN work
    PROVE  Followed(log, console', w, n, a, clock, p)
<1>0. console \in Seq(LineSet)
  BY DEF Typed
<1>1. Handings(console', p) = Handings(console, p)
  BY <1>0, TellsGrown DEF Handings
<1>2. /\ \A i \in Handings(console, p) : i < Len(console) + 1
      /\ \A j \in Dones(console', p) : j \in Dones(console, p) \/ j = Len(console) + 1
      /\ \A j \in Acks(console', p) : j \in Acks(console, p) \/ j = Len(console) + 1
  BY <1>0, TellsGrown DEF Handings, Dones, Acks
<1>3. /\ Dones(console', p) # {} <=> Dones(console, p) # {} \/ (l.body = "done" /\ l.pkt = p)
      /\ Acks(console', p) # {} <=> Acks(console, p) # {} \/ (l.body = "acked" /\ l.pkt = p)
  <2>1. Dones(console', p) = IF l.body = "done" /\ l.pkt = p
                             THEN Dones(console, p) \cup {Len(console) + 1}
                             ELSE Dones(console, p)
    BY <1>0, TellsGrown DEF Dones
  <2>2. Acks(console', p) = IF l.body = "acked" /\ l.pkt = p
                            THEN Acks(console, p) \cup {Len(console) + 1}
                            ELSE Acks(console, p)
    BY <1>0, TellsGrown DEF Acks
  <2> QED BY <2>1, <2>2
<1>4. \A i \in Handings(console', p), j \in Dones(console', p) \cup Acks(console', p) : i < j
  BY <1>1, <1>2 DEF Followed
<1>5. Holds(log, p) \/ Handings(console', p) # {} =>
          /\ n > 0 => (Holds(log, p) /\ log.inflight[p].attempts > 0) \/ Dones(console', p) # {}
          /\ p \in a => Acks(console', p) # {}
  BY <1>1, <1>3 DEF Followed
<1>6. Holds(log, p) =>
          /\ p \in DOMAIN w => w[p] <= log.inflight[p].seen \/ Dones(console', p) # {}
          /\ p \in DOMAIN w \/ Dones(console', p) # {} \/ Acks(console', p) # {} =>
                clock <= log.inflight[p].seen + Budget
  BY <1>3 DEF Followed
<1> QED BY <1>4, <1>5, <1>6 DEF Followed

LEMMA FollowNode ==
    ASSUME Typed, LinesTrue, CountInv, FollowInv, NodeStep, NEW p \in Pkt,
           handed'[p] = 1, ~missed'
    PROVE  Followed(log, console', work', sent'[p], ackd', clock, p)
<1>0. /\ console \in Seq(LineSet) /\ handed \in [Pkt -> Nat] /\ sent \in [Pkt -> Nat]
      /\ missed \in BOOLEAN
  BY DEF Typed
<1>1. ASSUME NEW l, Printed(l)
      PROVE  console' = Append(console, l) /\ ~missed
  BY <1>0, <1>1 DEF Printed
<1>2. CASE HandOver(p)
  <2>1. PICK l \in LineSet : l.body = "handed" /\ l.pkt = p /\ Printed(l)
    <3>1. Prints(<<Line("handed", p)>>)
      BY <1>2 DEF HandOver
    <3>2. "handed" \in Bodies
      BY DEF Bodies
    <3> QED BY <3>1, <3>2, LineSaid
  <2>2. handed[p] = 0 /\ UNCHANGED <<sent, ackd>>
    BY <1>0, <1>2, CountIs DEF HandOver
  <2>3. ~Holds(log, p) /\ sent'[p] = 0 /\ p \notin ackd'
    BY <2>2, NothingHanded DEF FollowInv
  <2>4. ASSUME NEW b, TellsOf(console, b, p) # {} PROVE FALSE
    <3>1. PICK i \in DOMAIN console : console[i].pkt = p
      BY <2>4 DEF TellsOf
    <3> QED BY <2>2, <3>1 DEF LinesTrue, TrueLine
  <2>5. Dones(console', p) = {} /\ Acks(console', p) = {}
    <3>1. TellsOf(console, "done", p) = {} /\ TellsOf(console, "acked", p) = {}
      BY <2>4
    <3>2. console' = Append(console, l)
      BY <1>1, <2>1
    <3>3. TellsOf(Append(console, l), "done", p) = TellsOf(console, "done", p)
      BY <1>0, <2>1, TellsGrown
    <3>4. TellsOf(Append(console, l), "acked", p) = TellsOf(console, "acked", p)
      BY <1>0, <2>1, TellsGrown
    <3> QED BY <3>1, <3>2, <3>3, <3>4 DEF Dones, Acks
  <2> QED BY <2>3, <2>5 DEF Followed
<1>3. CASE ~HandOver(p)
  <2>0. handed[p] = 1
    <3>1. ASSUME NEW q \in Pkt, HandOver(q) PROVE handed'[p] = handed[p]
      <4>1. q # p
        BY <1>3, <3>1
      <4> QED BY <3>1, <4>1 DEF HandOver, Count
    <3>2. handed'[p] = handed[p]
      BY <3>1 DEF NodeStep, HandOver, GetAck, GiveUp, StartTx, PrintAirtime, CompleteTx,
                  Reboot, history
    <3> QED BY <3>2
  <2>1. ~missed => Followed(log, console, work, sent[p], ackd, clock, p)
    BY <2>0 DEF FollowInv
  <2>2. ASSUME NEW q \in Pkt, HandOver(q)
        PROVE  Followed(log, console', work', sent'[p], ackd', clock, p)
    <3>1. PICK l \in LineSet : l.body = "handed" /\ l.pkt = q /\ Printed(l)
      <4>1. Prints(<<Line("handed", q)>>)
        BY <2>2 DEF HandOver
      <4>2. "handed" \in Bodies
        BY DEF Bodies
      <4> QED BY <4>1, <4>2, LineSaid
    <3>2. q # p /\ UNCHANGED <<sent, ackd>>
      BY <1>3, <2>2 DEF HandOver
    <3>3. p \in DOMAIN work' => p \in DOMAIN work /\ work'[p] = work[p]
      BY <2>2, <3>2 DEF HandOver, With
    <3>4. console' = Append(console, l) /\ Followed(log, console, work, sent[p], ackd, clock, p)
      BY <1>1, <2>1, <3>1
    <3> QED BY <3>1, <3>2, <3>3, <3>4, FollowSaid
  <2>3. ASSUME NEW q \in Pkt, GetAck(q)
        PROVE  Followed(log, console', work', sent'[p], ackd', clock, p)
    <3>1. PICK l \in LineSet : l.body = "acked" /\ l.pkt = q /\ Printed(l)
      <4>1. Prints(<<Line("acked", q)>>)
        BY <2>3 DEF GetAck
      <4>2. "acked" \in Bodies
        BY DEF Bodies
      <4> QED BY <4>1, <4>2, LineSaid
    <3>2. sent' = sent /\ ackd' = ackd \cup {q} /\ q \in DOMAIN work
      BY <2>3 DEF GetAck
    <3>3. p \in DOMAIN work' => p \in DOMAIN work /\ work'[p] = work[p]
      BY <2>3, RestrictIs DEF GetAck
    <3>4. console' = Append(console, l) /\ Followed(log, console, work, sent[p], ackd, clock, p)
      BY <1>1, <2>1, <3>1
    <3> QED BY <3>1, <3>2, <3>3, <3>4, FollowSaid
  <2>4. ASSUME NEW q \in Pkt, GiveUp(q)
        PROVE  Followed(log, console', work', sent'[p], ackd', clock, p)
    <3>1. UNCHANGED <<console, missed, sent, ackd>>
      BY <2>4 DEF GiveUp, reader, history
    <3>2. p \in DOMAIN work' => p \in DOMAIN work /\ work'[p] = work[p]
      BY <2>4, RestrictIs DEF GiveUp
    <3> QED BY <2>1, <3>1, <3>2 DEF Followed
  <2>5. ASSUME NEW q \in Pkt \cup {Other}, StartTx(q)
        PROVE  Followed(log, console', work', sent'[p], ackd', clock, p)
    <3>1. PICK l \in LineSet : l.body = "started" /\ Printed(l)
      <4>1. Prints(<<Line("started", q)>>)
        BY <2>5 DEF StartTx
      <4>2. "started" \in Bodies
        BY DEF Bodies
      <4> QED BY <4>1, <4>2, LineSaid
    <3>2. UNCHANGED <<work, sent, ackd>>
      BY <2>5 DEF StartTx
    <3>3. console' = Append(console, l) /\ Followed(log, console, work, sent[p], ackd, clock, p)
      BY <1>1, <2>1, <3>1
    <3> QED BY <3>1, <3>2, <3>3, FollowSaid
  <2>6. CASE PrintAirtime
    <3>1. PICK l \in LineSet : l.body = "airtime" /\ Printed(l)
      <4>1. Prints(<<Line("airtime", Other)>>)
        BY <2>6 DEF PrintAirtime
      <4>2. "airtime" \in Bodies
        BY DEF Bodies
      <4> QED BY <4>1, <4>2, LineSaid
    <3>2. UNCHANGED <<work, sent, ackd>>
      BY <2>6 DEF PrintAirtime
    <3>3. console' = Append(console, l) /\ Followed(log, console, work, sent[p], ackd, clock, p)
      BY <1>1, <2>1, <3>1
    <3> QED BY <3>1, <3>2, <3>3, FollowSaid
  <2>7. CASE CompleteTx
    <3>0. radio \in Pkt \cup {Other} /\ (radio \in Pkt => radio \in DOMAIN work)
      BY <2>7 DEF CompleteTx, Typed
    <3>1. PICK l \in LineSet : l.body = "done" /\ l.pkt = radio /\ Printed(l)
      <4>1. Prints(<<Line("done", radio)>>)
        BY <2>7 DEF CompleteTx
      <4>2. "done" \in Bodies
        BY DEF Bodies
      <4> QED BY <3>0, <4>1, <4>2, LineSaid
    <3>2. ackd' = ackd /\ (sent'[p] = sent[p] \/ radio = p)
      BY <2>7 DEF CompleteTx, Count
    <3>3. p \in DOMAIN work' => p \in DOMAIN work /\ (work'[p] = work[p] \/ radio = p)
      <4>1. CASE radio \in WantAck
        BY <2>7, <4>1 DEF CompleteTx
      <4>2. CASE radio \notin WantAck
        BY <2>7, <4>2, RestrictIs DEF CompleteTx
      <4> QED BY <4>1, <4>2
    <3>4. console' = Append(console, l) /\ Followed(log, console, work, sent[p], ackd, clock, p)
      BY <1>1, <2>1, <3>1
    <3> QED BY <3>0, <3>1, <3>2, <3>3, <3>4, FollowSaid
  <2>8. CASE Reboot
    <3>1. Printed(BootLine) /\ DOMAIN work' = {} /\ UNCHANGED <<sent, ackd>>
      BY <2>8, BootLineIs, PrintsIs DEF Reboot, BootLine
    <3>2. console' = Append(console, BootLine)
          /\ Followed(log, console, work, sent[p], ackd, clock, p)
      BY <1>1, <2>1, <3>1
    <3> QED BY <3>1, <3>2, BootLineIs, FollowSaid
  <2> QED BY <2>2, <2>3, <2>4, <2>5, <2>6, <2>7, <2>8 DEF NodeStep
<1> QED BY <1>2, <1>3

\* What was fed and not yet expired is followed in what is left to read.
LEMMA FollowDispatched ==
    ASSUME Typed, CountInv, FollowInv, NEW p \in Pkt, handed[p] = 1, ~missed,
           console # <<>>, NEW k \in LineSet, k = Head(console)
    PROVE  Followed(Dispatching(k), Tail(console), work, sent[p], ackd, clock, p)
<1> DEFINE s == Noting(k)
           t == Dispatching(k)
           c == Tail(console)
<1>0. /\ console \in Seq(LineSet) /\ log \in LogState /\ s \in LogState /\ t \in LogState
      /\ k.uptime \in Nat /\ clock \in Nat /\ c \in Seq(LineSet)
  <2>1. console \in Seq(LineSet) /\ log \in LogState /\ clock \in Nat /\ k.uptime \in Nat
    BY DEF Typed, LineSet
  <2> QED BY <2>1, FedTyped, TailIs
<1>1. Followed(log, console, work, sent[p], ackd, clock, p)
  BY DEF FollowInv
<1>2. Holds(log, p) => Handings(console, p) = {}
  <2>1. PICK n \in Nat : n = Len(log.published[p])
    BY <1>0, BalanceIs
  <2>2. Balance(log, p) + ToCome(console, p) = 1 /\ ToCome(console, p) \in Nat
    BY <1>0, TellsFinite DEF CountInv, ToCome
  <2>3. Holds(log, p) => Balance(log, p) = n + 1
    BY <2>1 DEF Balance
  <2>4. Holds(log, p) => ToCome(console, p) = 0
    BY <2>2, <2>3
  <2> QED BY <1>0, <2>4, TellsFinite DEF ToCome, Handings
<1>3. Followed(s, console, work, sent[p], ackd, clock, p)
      /\ (Holds(s, p) => Handings(console, p) = {})
  <2>1. CASE Kept(log, s, p)
    BY <1>1, <1>2, <2>1, FollowKept DEF Kept
  <2>2. CASE Resolved(log, s, p, "lost_to_reboot")
    BY <1>2, <2>2, FollowGone DEF Resolved
  <2> QED BY <1>0, <2>1, <2>2, NotedFate DEF Noting
<1>4. /\ Handings(c, p) = {} <=> Handings(console, p) = {} \/ Handings(console, p) = {1}
      /\ \A i \in Handings(c, p) : i \in Nat /\ i + 1 \in Handings(console, p)
      /\ \A j \in Dones(c, p) : j \in Nat /\ j + 1 \in Dones(console, p)
      /\ \A j \in Acks(c, p) : j \in Nat /\ j + 1 \in Acks(console, p)
      /\ 1 \in Handings(console, p) <=> k.body = "handed" /\ k.pkt = p
      /\ 1 \in Dones(console, p) <=> k.body = "done" /\ k.pkt = p
      /\ 1 \in Acks(console, p) <=> k.body = "acked" /\ k.pkt = p
      /\ \A i \in Handings(console, p) : i \in Nat /\ i >= 1
  <2>1. \A i \in Handings(console, p) : i \in Nat /\ i >= 1
    BY <1>0 DEF Handings, TellsOf
  <2>2. /\ \A i \in Handings(c, p) : i \in Nat /\ i + 1 \in Handings(console, p)
        /\ \A j \in Handings(console, p) : j > 1 => j - 1 \in Handings(c, p)
        /\ 1 \in Handings(console, p) <=> k.body = "handed" /\ k.pkt = p
    BY <1>0, TellsShrunk DEF Handings
  <2>3. /\ \A j \in Dones(c, p) : j \in Nat /\ j + 1 \in Dones(console, p)
        /\ 1 \in Dones(console, p) <=> k.body = "done" /\ k.pkt = p
    BY <1>0, TellsShrunk DEF Dones
  <2>4. /\ \A j \in Acks(c, p) : j \in Nat /\ j + 1 \in Acks(console, p)
        /\ 1 \in Acks(console, p) <=> k.body = "acked" /\ k.pkt = p
    BY <1>0, TellsShrunk DEF Acks
  <2>5. Handings(c, p) = {} <=> Handings(console, p) = {} \/ Handings(console, p) = {1}
    <3>1. ASSUME Handings(c, p) = {}, NEW j \in Handings(console, p) PROVE j = 1
      BY <2>1, <2>2, <3>1
    <3>2. ASSUME NEW i \in Handings(c, p), Handings(console, p) = {1} PROVE FALSE
      <4>1. i \in 1 .. Len(c)
        BY <1>0 DEF Handings, TellsOf
      <4>2. i + 1 = 1
        BY <2>2, <3>2
      <4> QED BY <4>1, <4>2
    <3> QED BY <2>2, <3>1, <3>2
  <2> QED BY <2>1, <2>2, <2>3, <2>4, <2>5
<1>5. /\ ~(k.body = "done" /\ k.pkt = p) => (Dones(c, p) = {} <=> Dones(console, p) = {})
      /\ ~(k.body = "acked" /\ k.pkt = p) => (Acks(c, p) = {} <=> Acks(console, p) = {})
      /\ ~(k.body = "handed" /\ k.pkt = p) =>
            (Handings(c, p) = {} <=> Handings(console, p) = {})
  BY <1>0, TellsShrunk DEF Dones, Acks, Handings
\* What ends a packet's life was preceded by its handing.
<1>6. k.pkt = p /\ k.body \in {"done", "acked"} => Handings(console, p) = {}
  <2>1. ASSUME k.pkt = p, k.body \in {"done", "acked"}, NEW i \in Handings(console, p)
        PROVE  FALSE
    <3>1. 1 \in Dones(console, p) \cup Acks(console, p)
      BY <1>4, <2>1
    <3>2. i < 1
      BY <1>3, <3>1 DEF Followed
    <3> QED BY <1>4, <3>2
  <2> QED BY <2>1
<1>7. \A i \in Handings(c, p), j \in Dones(c, p) \cup Acks(c, p) : i < j
  <2> SUFFICES ASSUME NEW i \in Handings(c, p), NEW j \in Dones(c, p) \cup Acks(c, p)
               PROVE  i < j
    OBVIOUS
  <2>1. i + 1 \in Handings(console, p) /\ j + 1 \in Dones(console, p) \cup Acks(console, p)
        /\ i \in Nat /\ j \in Nat
    BY <1>4
  <2>2. i + 1 < j + 1
    BY <1>3, <2>1 DEF Followed
  <2> QED BY <2>1, <2>2
<1> HIDE DEF s, t, c
<1>8. CASE /\ Kept(s, t, p)
           /\ k.pkt = p /\ k.body \in {"done", "acked"} => ~Holds(s, p)
           /\ k.pkt = p /\ k.body = "handed" => Holds(s, p)
  <2>1. CASE k.pkt = p /\ k.body \in {"done", "acked"}
    <3>1. ~Holds(t, p) /\ Handings(console, p) = {} /\ Handings(c, p) = {}
      BY <1>4, <1>6, <1>8, <2>1 DEF Kept
    <3> QED BY <3>1, FollowGone DEF t, c
  <2>2. CASE ~(k.pkt = p /\ k.body \in {"done", "acked"})
    <3>1. ~(k.body = "handed" /\ k.pkt = p)
      BY <1>3, <1>4, <1>8
    <3>2. /\ Dones(c, p) = {} <=> Dones(console, p) = {}
          /\ Acks(c, p) = {} <=> Acks(console, p) = {}
          /\ Handings(c, p) = {} <=> Handings(console, p) = {}
      BY <1>5, <2>2, <3>1
    <3>3. Followed(s, c, work, sent[p], ackd, clock, p)
      BY <1>3, <1>7, <3>2 DEF Followed
    <3> QED BY <1>8, <3>3, FollowKept DEF t, c
  <2> QED BY <2>1, <2>2
<1>9. CASE k.body = "handed" /\ k.pkt = p /\ Begun(s, t, p, k.uptime, clock)
  <2>1. ~Holds(s, p) /\ Holds(t, p) /\ t.inflight[p].seen = clock
    BY <1>9 DEF Begun, Record
  <2>2. /\ Dones(c, p) = {} <=> Dones(console, p) = {}
        /\ Acks(c, p) = {} <=> Acks(console, p) = {}
        /\ Handings(console, p) # {}
    BY <1>4, <1>5, <1>9
  <2>3. /\ sent[p] > 0 => Dones(c, p) # {}
        /\ p \in ackd => Acks(c, p) # {}
    BY <1>3, <2>1, <2>2 DEF Followed
  <2>4. p \in DOMAIN work => work[p] <= t.inflight[p].seen
    BY <2>1 DEF Typed
  <2>5. clock <= t.inflight[p].seen + Budget
    BY <1>0, <2>1, NodeAssumption
  <2>6. Followed(t, c, work, sent[p], ackd, clock, p)
    BY <1>7, <2>3, <2>4, <2>5 DEF Followed
  <2> QED BY <2>6 DEF t, c
<1>10. CASE k.body = "done" /\ k.pkt = p /\ Retried(s, t, p, k.uptime, clock)
  <2>1. Holds(s, p) /\ Holds(t, p) /\ t.inflight[p].seen = clock
        /\ t.inflight[p].attempts = s.inflight[p].attempts + 1
    BY <1>10 DEF Retried, Counted
  <2>2. t.inflight[p].attempts > 0
    <3>1. s.inflight[p].attempts \in Nat
      BY <1>0, <2>1, HeldIs DEF Rec
    <3> QED BY <2>1, <3>1
  <2>3. p \in ackd => Acks(c, p) # {}
    BY <1>3, <1>5, <1>10, <2>1 DEF Followed
  <2>4. p \in DOMAIN work => work[p] <= t.inflight[p].seen
    BY <2>1 DEF Typed
  <2>5. clock <= t.inflight[p].seen + Budget
    BY <1>0, <2>1, NodeAssumption
  <2>6. Followed(t, c, work, sent[p], ackd, clock, p)
    BY <1>7, <2>1, <2>2, <2>3, <2>4, <2>5 DEF Followed
  <2> QED BY <2>6 DEF t, c
<1>11. CASE /\ k.body \in {"done", "acked"} /\ k.pkt = p
            /\ Resolved(s, t, p, "sent") \/ Resolved(s, t, p, "acked")
  <2>1. ~Holds(t, p) /\ Handings(c, p) = {}
    BY <1>4, <1>6, <1>11 DEF Resolved
  <2> QED BY <2>1, FollowGone DEF t, c
<1> QED BY <1>0, <1>8, <1>9, <1>10, <1>11, DispatchedFate DEF Dispatching, s, t

LEMMA TriedDispatched ==
    ASSUME Typed, LinesTrue, FollowInv, NEW p \in Pkt, console # <<>>,
           NEW k, Remains(Head(console), k)
    PROVE  TriedSent(Dispatching(k), p)
<1> DEFINE s == Noting(k)
           t == Dispatching(k)
<1>0. /\ log \in LogState /\ s \in LogState /\ k \in LineSet
      /\ k.uptime \in Nat /\ clock \in Nat
  BY FedTyped DEF Typed, LineSet, Remains
<1>1. TriedSent(log, p)
  BY DEF FollowInv
<1>2. TriedSent(s, p)
  BY <1>0, <1>1, NotedFate DEF Noting, TriedSent, Kept, Resolved
<1>3. k.body = "done" /\ k.pkt = p => sent[p] > 0
  <2>1. k.body = "done" /\ k.pkt = p => k = console[1] /\ 1 \in DOMAIN console
    BY TailIs, LogAssumption DEF Remains, Typed
  <2> QED BY <2>1 DEF LinesTrue, TrueLine
<1> HIDE DEF s, t
<1>4. CASE Kept(s, t, p)
  BY <1>2, <1>4 DEF Kept, TriedSent, t
<1>5. CASE Begun(s, t, p, k.uptime, clock)
  BY <1>5 DEF Begun, Record, TriedSent, t
<1>6. CASE k.body = "done" /\ k.pkt = p /\ Retried(s, t, p, k.uptime, clock)
  BY <1>3, <1>6 DEF TriedSent, t
<1>7. CASE Resolved(s, t, p, "sent") \/ Resolved(s, t, p, "acked")
  BY <1>7 DEF Resolved, TriedSent, t
<1> QED BY <1>0, <1>4, <1>5, <1>6, <1>7, DispatchedFate DEF Dispatching, s, t

\* Expiry ends what was followed without asking more.
LEMMA FollowExpired ==
    ASSUME Typed', CountInv', NEW s \in LogState, NEW now \in Nat, NEW p \in Pkt,
           log' = Expired(s, now), handed'[p] = 1, ~missed',
           NEW w, NEW n, NEW a, NEW d, Followed(s, console', w, n, a, d, p)
    PROVE  Followed(log', console', w, n, a, d, p)
<1>1. CASE Kept(s, log', p)
  BY <1>1, FollowKept
<1>2. ASSUME NEW o, Resolved(s, log', p, o)
      PROVE  Followed(log', console', w, n, a, d, p)
  <2>1. ~Holds(log', p)
    BY <1>2 DEF Resolved
  <2>2. PICK e \in Entry : log'.published[p] = Append(s.published[p], e)
    BY <1>2 DEF Resolved
  <2>3. s.published[p] \in Seq(Entry)
    BY DEF LogState, Reported
  <2>4. PICK m \in Nat : m = Len(log'.published[p]) /\ m > 0
    BY <2>2, <2>3
  <2>5. Balance(log', p) = m
    BY <2>1, <2>4 DEF Balance
  <2>6. ToCome(console', p) \in Nat /\ Balance(log', p) + ToCome(console', p) = 1
    <3>1. console' \in Seq(LineSet)
      BY DEF Typed
    <3>2. ToCome(console', p) \in Nat
      BY <3>1, TellsFinite DEF ToCome
    <3>3. (Balance(log, p) + ToCome(console, p) = 1)'
      BY DEF CountInv
    <3>4. Balance(log', p) + ToCome(console', p) = 1
      BY <3>3 DEF Balance, ToCome, Holds, TellsOf
    <3> QED BY <3>2, <3>4
  <2>7. ToCome(console', p) = 0
    BY <2>4, <2>5, <2>6
  <2>8. Handings(console', p) = {}
    BY <2>7, TellsFinite DEF ToCome, Handings, Typed
  <2> QED BY <2>1, <2>8, FollowGone
<1> QED BY <1>1, <1>2, ExpiredFate

LEMMA UnhandedStep ==
    ASSUME Typed, LinesTrue, FollowInv, [Next]_vars, NEW p \in Pkt, handed'[p] = 0
    PROVE  sent'[p] = 0 /\ p \notin ackd'
<1>0. handed \in [Pkt -> Nat] /\ sent \in [Pkt -> Nat] /\ Typed'
  BY TypedStep DEF Typed
<1>1. handed[p] = 0
  <2>1. handed[p] <= handed'[p] /\ handed'[p] \in Nat /\ handed[p] \in Nat
    BY <1>0, HistoryGrows DEF Grown, Typed
  <2> QED BY <2>1
<1>2. sent[p] = 0 /\ p \notin ackd /\ p \notin DOMAIN work
  BY <1>1 DEF FollowInv, LinesTrue
<1>3. CASE CompleteTx
  <2>1. radio # p
    BY <1>2, <1>3 DEF CompleteTx, Typed
  <2> QED BY <1>2, <1>3, <2>1 DEF CompleteTx, Count
<1>4. ASSUME NEW q \in Pkt, GetAck(q) PROVE sent'[p] = 0 /\ p \notin ackd'
  <2>1. q # p
    BY <1>2, <1>4 DEF GetAck
  <2> QED BY <1>2, <1>4, <2>1 DEF GetAck
<1>5. (\E q \in Pkt : GetAck(q)) \/ CompleteTx \/ UNCHANGED <<sent, ackd>>
  BY DEF Next, NodeStep, HandOver, GetAck, GiveUp, StartTx, PrintAirtime, CompleteTx,
         Reboot, Tick, FeedLine, FeedNone, Port, history, vars
<1> QED BY <1>2, <1>3, <1>4, <1>5

LEMMA FollowStep ==
    Typed /\ LinesTrue /\ CountInv /\ FollowInv /\ [Next]_vars => FollowInv'
<1> SUFFICES ASSUME Typed, LinesTrue, CountInv, FollowInv, [Next]_vars, NEW p \in Pkt
             PROVE  /\ handed'[p] = 0 => sent'[p] = 0 /\ p \notin ackd'
                    /\ Holds(log', p) /\ log'.inflight[p].attempts > 0 => sent'[p] > 0
                    /\ handed'[p] = 1 /\ ~missed' =>
                          Followed(log', console', work', sent'[p], ackd', clock', p)
  BY DEF FollowInv, TriedSent, Holds, Followed, Handings, Dones, Acks, TellsOf
<1>0. Typed' /\ Grown /\ CountInv' /\ log \in LogState /\ clock \in Nat
      /\ handed \in [Pkt -> Nat] /\ sent \in [Pkt -> Nat] /\ sent'[p] \in Nat
  <2>1. Typed' /\ Grown /\ CountInv'
    BY TypedStep, HistoryGrows, CountStep
  <2>2. sent' \in [Pkt -> Nat]
    BY <2>1 DEF Typed
  <2>3. log \in LogState /\ clock \in Nat /\ handed \in [Pkt -> Nat] /\ sent \in [Pkt -> Nat]
    BY DEF Typed
  <2> QED BY <2>1, <2>2, <2>3
<1>1. handed'[p] = 0 => sent'[p] = 0 /\ p \notin ackd'
  BY UnhandedStep
<1>2. TriedSent(log, p)
      /\ (handed[p] = 1 /\ ~missed => Followed(log, console, work, sent[p], ackd, clock, p))
  BY DEF FollowInv
<1>3. ASSUME log' = log
      PROVE  Holds(log', p) /\ log'.inflight[p].attempts > 0 => sent'[p] > 0
  BY <1>0, <1>2, <1>3 DEF TriedSent, Grown
<1>4. CASE NodeStep
  <2>1. UNCHANGED <<log, clock>>
    BY <1>4 DEF NodeStep, HandOver, GetAck, GiveUp, StartTx, PrintAirtime, CompleteTx, Reboot
  <2> QED BY <1>1, <1>3, <1>4, <2>1, FollowNode
<1>5. CASE FeedLine
  <2>1. /\ console # <<>> /\ console' = Tail(console) /\ console \in Seq(LineSet)
        /\ UNCHANGED <<clock, work, handed, sent, ackd, missed>>
    BY <1>5 DEF FeedLine, ReadsLine, Typed, node, history
  <2>2. CASE Head(console).cut /\ log' = log
    <3>1. missed
      BY <2>1, <2>2, TailIs DEF LinesTrue, TrueLine
    <3> QED BY <1>1, <1>3, <2>1, <2>2, <3>1
  <2>3. ASSUME NEW k, Remains(Head(console), k), log' = Expired(Dispatching(k), clock)
        PROVE  /\ Holds(log', p) /\ log'.inflight[p].attempts > 0 => sent'[p] > 0
               /\ handed'[p] = 1 /\ ~missed' =>
                     Followed(log', console', work', sent'[p], ackd', clock', p)
    <3>1. k \in LineSet /\ Dispatching(k) \in LogState
      BY <2>3, FedTyped DEF Remains
    <3>2. TriedSent(Dispatching(k), p)
      BY <2>1, <2>3, TriedDispatched
    <3>3. Holds(log', p) => Kept(Dispatching(k), log', p)
      BY <1>0, <2>3, <3>1, ExpiredFate DEF Resolved
    <3>4. Holds(log', p) /\ log'.inflight[p].attempts > 0 => sent'[p] > 0
      BY <2>1, <3>2, <3>3 DEF Kept, TriedSent
    <3>5. ASSUME handed'[p] = 1, ~missed'
          PROVE  Followed(log', console', work', sent'[p], ackd', clock', p)
      <4>1. ~Head(console).cut
        BY <2>1, <3>5, TailIs DEF LinesTrue, TrueLine
      <4>2. k = Head(console)
        BY <2>3, <4>1 DEF Remains
      <4>3. Followed(Dispatching(k), console', work, sent[p], ackd, clock, p)
        BY <2>1, <3>1, <3>5, <4>2, FollowDispatched
      <4>4. Followed(log', console', work, sent[p], ackd, clock, p)
        BY <1>0, <2>3, <3>1, <3>5, <4>3, FollowExpired
      <4> QED BY <2>1, <4>4
    <3> QED BY <3>4, <3>5
  <2> QED BY <1>1, <1>5, <2>2, <2>3, FedIs
<1>6. CASE FeedNone
  <2>1. /\ log' = Expired(log, clock)
        /\ UNCHANGED <<console, clock, work, handed, sent, ackd, missed>>
    BY <1>6 DEF FeedNone, IdleTick, reader, node, history
  <2>2. Holds(log', p) => Kept(log, log', p)
    BY <1>0, <2>1, ExpiredFate DEF Resolved
  <2>3. Holds(log', p) /\ log'.inflight[p].attempts > 0 => sent'[p] > 0
    BY <1>2, <2>1, <2>2 DEF Kept, TriedSent
  <2>4. ASSUME handed'[p] = 1, ~missed'
        PROVE  Followed(log', console', work', sent'[p], ackd', clock', p)
    <3>1. Followed(log, console', work, sent[p], ackd, clock, p)
      BY <1>2, <2>1, <2>4
    <3>2. Followed(log', console', work, sent[p], ackd, clock, p)
      BY <1>0, <2>1, <2>4, <3>1, FollowExpired
    <3> QED BY <2>1, <3>2
  <2> QED BY <1>1, <2>3, <2>4
<1>7. CASE Port
  <2>1. UNCHANGED <<log, clock, work, handed, sent, ackd>>
    BY <1>7 DEF Port, node, history
  <2>2. ~missed' => console' = console /\ ~missed
    BY <1>0, <1>7 DEF Port, Opens, OpenFails, ReadFails, Cut, reader, Typed
  <2> QED BY <1>1, <1>2, <1>3, <2>1, <2>2
<1>8. CASE Tick
  <2>1. /\ UNCHANGED <<log, console, work, handed, sent, ackd, missed>> /\ console = <<>>
        /\ clock' = clock + 1 /\ \A q \in DOMAIN work : clock < work[q] + Budget
    BY <1>8 DEF Tick, reader, node, history
  <2>2. ASSUME handed'[p] = 1, ~missed'
        PROVE  Followed(log, console, work, sent[p], ackd, clock + 1, p)
    <3>1. Followed(log, console, work, sent[p], ackd, clock, p)
      BY <1>2, <2>1, <2>2
    <3>2. Dones(console, p) = {} /\ Acks(console, p) = {}
      BY <2>1 DEF Dones, Acks, TellsOf
    <3>3. Holds(log, p) /\ p \in DOMAIN work => clock + 1 <= log.inflight[p].seen + Budget
      <4> SUFFICES ASSUME Holds(log, p), p \in DOMAIN work
                   PROVE  clock + 1 <= log.inflight[p].seen + Budget
        OBVIOUS
      <4>1. work[p] <= log.inflight[p].seen /\ clock < work[p] + Budget
        BY <2>1, <3>1, <3>2 DEF Followed
      <4>2. log.inflight[p].seen \in Nat /\ work[p] \in Nat
        BY <1>0, HeldIs, WorkIs DEF Rec
      <4> QED BY <1>0, <4>1, <4>2, NodeAssumption
    <3> QED BY <3>1, <3>2, <3>3 DEF Followed
  <2> QED BY <1>1, <1>3, <2>1, <2>2
<1>9. CASE UNCHANGED vars
  <2>1. UNCHANGED <<log, console, clock, work, handed, sent, ackd, missed>>
    BY <1>9 DEF vars, reader, node, history
  <2> QED BY <1>1, <1>2, <1>3, <2>1
<1> QED BY <1>4, <1>5, <1>6, <1>7, <1>8, <1>9 DEF Next

LEMMA InitFollow == Init => FollowInv
<1> SUFFICES ASSUME Init, NEW p \in Pkt
             PROVE  /\ sent[p] = 0 /\ p \notin ackd /\ handed[p] = 0
                    /\ TriedSent(log, p)
  BY DEF FollowInv
<1>1. DOMAIN log.inflight = {}
  BY DEF Init, InitialLog
<1> QED BY <1>1 DEF Init, TriedSent, Holds

\* Verdicts --------------------------------------------------------------------------
\* The outcome o is true of the packet p: of what the node works on (w), the times
\* it sent p (n), what was acknowledged (a) and handed over before a boot (b), the
\* times p was handed over (h) and what was missed (m).
Verdict(p, o, w, n, a, b, h, m) ==
    /\ o = "acked" => p \in a
    /\ o = "sent" => n > 0 /\ p \notin WantAck
    /\ o = "lost_to_reboot" => p \in b
    /\ o \in {"unacked", "dropped_before_tx"} /\ ~m /\ h = 1 =>
          /\ p \notin DOMAIN w \cup a
          /\ o = "unacked" <=> n > 0

Says(s, p, o) == \E i \in DOMAIN s.published[p] : s.published[p][i].outcome = o

VerdictInv ==
    \A p \in Pkt : \A o : Says(log, p, o) =>
        Verdict(p, o, work, sent[p], ackd, handedAtBoot, handed[p], missed)

\* What is said of a packet changes only when it is resolved.
LEMMA SaysIs ==
    ASSUME NEW s \in LogState, NEW t \in LogState, NEW p \in Pkt, NEW o, Says(t, p, o)
    PROVE  /\ t.published[p] = s.published[p] => Says(s, p, o)
           /\ \A x : Resolved(s, t, p, x) => Says(s, p, o) \/ o = x
<1>1. t.published[p] = s.published[p] => Says(s, p, o)
  BY DEF Says
<1>2. ASSUME NEW x, Resolved(s, t, p, x), ~Says(s, p, o) PROVE o = x
  <2>1. PICK e \in Entry : e.outcome = x /\ t.published[p] = Append(s.published[p], e)
    BY <1>2 DEF Resolved
  <2>2. s.published[p] \in Seq(Entry)
    BY DEF LogState, Reported
  <2>3. PICK i \in DOMAIN t.published[p] : t.published[p][i].outcome = o
    BY DEF Says
  <2>4. PICK n \in Nat : n = Len(s.published[p])
    BY <2>2
  <2>5. i \in 1 .. n + 1 /\ (i = n + 1 => t.published[p][i] = e)
        /\ (i \in 1 .. n => t.published[p][i] = s.published[p][i])
    BY <2>1, <2>2, <2>3, <2>4
  <2>6. i \notin DOMAIN s.published[p]
    <3>1. i \in DOMAIN s.published[p] => i \in 1 .. n
      BY <2>2, <2>4
    <3> QED BY <1>2, <2>3, <2>5, <3>1 DEF Says
  <2>7. i \notin 1 .. n
    BY <2>2, <2>4, <2>6
  <2>8. i = n + 1
    BY <2>5, <2>7
  <2> QED BY <2>1, <2>3, <2>5, <2>8
<1> QED BY <1>1, <1>2

\* Told of by the expiry that ends s at `now'.
Timed(s, now, p, o) ==
    /\ Holds(s, p) /\ s.inflight[p].seen <= now - Expiry
    /\ o = IF s.inflight[p].attempts > 0 THEN "unacked" ELSE "dropped_before_tx"

LEMMA ExpiredSays ==
    ASSUME NEW s \in LogState, NEW now \in Nat, NEW p \in Pkt, NEW o,
           Says(Expired(s, now), p, o)
    PROVE  Says(s, p, o) \/ Timed(s, now, p, o)
<1> DEFINE t == Expired(s, now)
           x == IF s.inflight[p].attempts > 0 THEN "unacked" ELSE "dropped_before_tx"
<1>1. t \in LogState /\ Says(t, p, o)
  BY ExpiredIs
<1>2. Kept(s, t, p) \/ (s.inflight[p].seen <= now - Expiry /\ Resolved(s, t, p, x))
  BY ExpiredFate
<1> HIDE DEF t, x
<1>3. CASE Kept(s, t, p)
  BY <1>1, <1>3, SaysIs DEF Kept
<1>4. CASE s.inflight[p].seen <= now - Expiry /\ Resolved(s, t, p, x)
  <2>1. Says(s, p, o) \/ o = x
    BY <1>1, <1>4, SaysIs
  <2>2. Holds(s, p)
    BY <1>4 DEF Resolved
  <2> QED BY <1>4, <2>1, <2>2 DEF Timed, x
<1> QED BY <1>2, <1>3, <1>4

LEMMA FedSays ==
    ASSUME Typed, NEW k \in LineSet, NEW p \in Pkt, NEW o,
           Says(Expired(Dispatching(k), clock), p, o)
    PROVE  \/ Says(log, p, o)
           \/ o = "lost_to_reboot" /\ Holds(log, p) /\ k.uptime < log.uptime
           \/ o = "sent" /\ k.body = "done" /\ k.pkt = p /\ p \notin WantAck
           \/ o = "acked" /\ k.body = "acked" /\ k.pkt = p
           \/ Timed(Dispatching(k), clock, p, o)
<1> DEFINE s == Noting(k)
           t == Dispatching(k)
<1>0. /\ log \in LogState /\ s \in LogState /\ t \in LogState
      /\ k.uptime \in Nat /\ clock \in Nat
  BY FedTyped DEF Typed, LineSet
<1>1. Says(t, p, o) \/ Timed(t, clock, p, o)
  BY <1>0, ExpiredSays
<1>2. s = Noted(log, k.uptime) /\ t = Dispatched(s, k, clock)
  BY DEF Noting, Dispatching
<1> HIDE DEF s, t
<1>3. Says(t, p, o) => \/ Says(s, p, o)
                       \/ o = "sent" /\ k.body = "done" /\ k.pkt = p /\ p \notin WantAck
                       \/ o = "acked" /\ k.body = "acked" /\ k.pkt = p
  <2> SUFFICES ASSUME Says(t, p, o)
               PROVE  \/ Says(s, p, o)
                      \/ o = "sent" /\ k.body = "done" /\ k.pkt = p /\ p \notin WantAck
                      \/ o = "acked" /\ k.body = "acked" /\ k.pkt = p
    OBVIOUS
  <2>1. CASE Kept(s, t, p)
    BY <1>0, <2>1, SaysIs DEF Kept
  <2>2. CASE Begun(s, t, p, k.uptime, clock)
    BY <1>0, <2>2, SaysIs DEF Begun
  <2>3. CASE Retried(s, t, p, k.uptime, clock)
    BY <1>0, <2>3, SaysIs DEF Retried
  <2>4. CASE k.body = "done" /\ k.pkt = p /\ p \notin WantAck /\ Resolved(s, t, p, "sent")
    BY <1>0, <2>4, SaysIs
  <2>5. CASE k.body = "acked" /\ k.pkt = p /\ Resolved(s, t, p, "acked")
    BY <1>0, <2>5, SaysIs
  <2> QED BY <1>0, <1>2, <2>1, <2>2, <2>3, <2>4, <2>5, DispatchedFate
<1>4. Says(s, p, o) =>
          Says(log, p, o) \/ (o = "lost_to_reboot" /\ Holds(log, p) /\ k.uptime < log.uptime)
  <2> SUFFICES ASSUME Says(s, p, o)
               PROVE  \/ Says(log, p, o)
                      \/ o = "lost_to_reboot" /\ Holds(log, p) /\ k.uptime < log.uptime
    OBVIOUS
  <2>1. CASE Kept(log, s, p)
    BY <1>0, <2>1, SaysIs DEF Kept
  <2>2. CASE k.uptime < log.uptime /\ Resolved(log, s, p, "lost_to_reboot")
    <3>1. Says(log, p, o) \/ o = "lost_to_reboot"
      BY <1>0, <2>2, SaysIs
    <3> QED BY <2>2, <3>1 DEF Resolved
  <2> QED BY <1>0, <1>2, <2>1, <2>2, NotedFate
<1> QED BY <1>1, <1>3, <1>4 DEF t

\* The node does nothing more with a packet it has finished with, unless it is
\* handed over again.
LEMMA FinishedWith ==
    ASSUME Typed, [Next]_vars, NEW p \in Pkt, p \notin DOMAIN work, handed'[p] = handed[p]
    PROVE  p \notin DOMAIN work' /\ sent'[p] = sent[p] /\ (p \in ackd' => p \in ackd)
<1>0. handed \in [Pkt -> Nat] /\ sent \in [Pkt -> Nat] /\ work \in Maps(Nat)
  BY DEF Typed
<1>1. ASSUME NEW q \in Pkt, HandOver(q)
      PROVE  p \notin DOMAIN work' /\ UNCHANGED <<sent, ackd>>
  <2>1. q # p
    BY <1>0, <1>1 DEF HandOver, Count
  <2>2. DOMAIN With(work, q, clock) = DOMAIN work \cup {q}
    BY DEF With
  <2>3. work' = work \/ work' = With(work, q, clock)
    BY <1>1 DEF HandOver
  <2>4. p \notin DOMAIN work'
    BY <2>1, <2>2, <2>3
  <2> QED BY <1>1, <2>4 DEF HandOver
<1>2. ASSUME NEW q \in Pkt, GetAck(q)
      PROVE  p \notin DOMAIN work' /\ sent' = sent /\ ackd' = ackd \cup {q} /\ q # p
  <2>1. q # p
    BY <1>2 DEF GetAck
  <2> QED BY <1>0, <1>2, <2>1, RestrictIs DEF GetAck
<1>3. ASSUME NEW q \in Pkt, GiveUp(q)
      PROVE  p \notin DOMAIN work' /\ UNCHANGED <<sent, ackd>>
  BY <1>0, <1>3, RestrictIs DEF GiveUp, history
<1>4. CASE CompleteTx
  <2>1. radio # p
    BY <1>4 DEF CompleteTx, Typed
  <2>2. p \notin DOMAIN work'
    <3>1. DOMAIN [work EXCEPT ![radio] = clock] = DOMAIN work
      OBVIOUS
    <3> QED BY <1>0, <1>4, <2>1, <3>1, RestrictIs DEF CompleteTx
  <2>3. sent'[p] = sent[p] /\ ackd' = ackd
    BY <1>0, <1>4, <2>1 DEF CompleteTx, Count
  <2> QED BY <2>2, <2>3
<1>5. CASE Reboot
  BY <1>5 DEF Reboot
<1>6. ASSUME NEW q \in Pkt \cup {Other}, StartTx(q)
      PROVE  UNCHANGED <<work, sent, ackd>>
  BY <1>6 DEF StartTx
<1>7. CASE PrintAirtime \/ Tick \/ FeedLine \/ FeedNone \/ Port \/ UNCHANGED vars
  BY <1>7 DEF PrintAirtime, Tick, FeedLine, FeedNone, Port, node, history, vars
<1> QED BY <1>1, <1>2, <1>3, <1>4, <1>5, <1>6, <1>7 DEF Next, NodeStep

LEMMA SaidIsHanded ==
    ASSUME Typed, CountInv, NEW p \in Pkt, NEW o, Says(log, p, o)
    PROVE  handed[p] >= 1
<1>1. log.published[p] \in Seq(Entry) /\ handed[p] \in Nat
  BY DEF Typed, LogState, Reported
<1>2. handed[p] # 0
  <2>1. Len(log.published[p]) # 0
    BY <1>1 DEF Says
  <2> QED BY <2>1, NothingHanded
<1> QED BY <1>1, <1>2

\* What was true when it was said stays true.
LEMMA VerdictStays ==
    ASSUME Typed, CountInv, [Next]_vars, NEW p \in Pkt, NEW o, Says(log, p, o),
           Verdict(p, o, work, sent[p], ackd, handedAtBoot, handed[p], missed)
    PROVE  Verdict(p, o, work', sent'[p], ackd', handedAtBoot', handed'[p], missed')
<1>1. Typed' /\ Grown
  BY TypedStep, HistoryGrows
<1>2. /\ handed[p] \in Nat /\ handed'[p] \in Nat /\ sent[p] \in Nat /\ sent'[p] \in Nat
      /\ handed[p] <= handed'[p] /\ sent[p] <= sent'[p]
      /\ ackd \subseteq ackd' /\ handedAtBoot \subseteq handedAtBoot' /\ (missed => missed')
  BY <1>1 DEF Typed, Grown
<1>3. handed[p] >= 1
  BY SaidIsHanded
<1>4. ASSUME o \in {"unacked", "dropped_before_tx"}, ~missed', handed'[p] = 1
      PROVE  p \notin DOMAIN work' \cup ackd' /\ (o = "unacked" <=> sent'[p] > 0)
  <2>1. handed[p] = 1 /\ ~missed
    BY <1>2, <1>3, <1>4
  <2>2. p \notin DOMAIN work \cup ackd /\ (o = "unacked" <=> sent[p] > 0)
    BY <1>4, <2>1 DEF Verdict
  <2>3. p \notin DOMAIN work' /\ sent'[p] = sent[p] /\ (p \in ackd' => p \in ackd)
    BY <1>4, <2>1, <2>2, FinishedWith
  <2> QED BY <2>2, <2>3
<1> QED BY <1>2, <1>4 DEF Verdict

\* A packet that was followed and has not been heard of for Expiry is one the node
\* has given up on: a step of its life would have shown by now.
LEMMA ExpiryIsTrue ==
    ASSUME Budget < Expiry, NEW s \in LogState, NEW now \in Nat, NEW p \in Pkt, NEW o,
           NEW c, NEW w, NEW n \in Nat, NEW a, Timed(s, now, p, o),
           Followed(s, c, w, n, a, now, p), s.inflight[p].attempts > 0 => n > 0
    PROVE  p \notin DOMAIN w \cup a /\ (o = "unacked" <=> n > 0)
<1>1. /\ Holds(s, p) /\ s.inflight[p].seen <= now - Expiry
      /\ s.inflight[p].seen \in Nat /\ s.inflight[p].attempts \in Nat
  BY HeldIs DEF Timed, Rec
<1>2. ~(now <= s.inflight[p].seen + Budget)
  <2> DEFINE seen == s.inflight[p].seen
  <2>1. seen \in Nat /\ seen <= now - Expiry
    BY <1>1
  <2> HIDE DEF seen
  <2>2. ~(now <= seen + Budget)
    BY <2>1, LogAssumption, NodeAssumption
  <2> QED BY <2>2 DEF seen
<1>3. p \notin DOMAIN w /\ Dones(c, p) = {} /\ Acks(c, p) = {}
  BY <1>1, <1>2 DEF Followed
<1>4. p \notin a /\ (n > 0 <=> s.inflight[p].attempts > 0)
  BY <1>1, <1>3 DEF Followed
<1> QED BY <1>3, <1>4 DEF Timed

LEMMA VerdictStep ==
    ASSUME Budget < Expiry
    PROVE  Typed /\ LinesTrue /\ CountInv /\ BootInv /\ FollowInv /\ VerdictInv /\ [Next]_vars
              => VerdictInv'
<1> SUFFICES ASSUME Typed, LinesTrue, CountInv, BootInv, FollowInv, VerdictInv, [Next]_vars,
                    NEW p \in Pkt, NEW o, Says(log', p, o)
             PROVE  Verdict(p, o, work', sent'[p], ackd', handedAtBoot', handed'[p], missed')
  BY DEF VerdictInv, Says
<1>0. log \in LogState /\ clock \in Nat /\ console \in Seq(LineSet) /\ sent[p] \in Nat
  BY DEF Typed
<1>1. CASE Says(log, p, o)
  BY <1>1, VerdictStays DEF VerdictInv
<1>2. CASE FeedLine /\ ~Says(log, p, o)
  <2>1. /\ console # <<>> /\ console' = Tail(console)
        /\ UNCHANGED <<clock, work, handed, sent, ackd, handedAtBoot, missed>>
    BY <1>2 DEF FeedLine, ReadsLine, node, history
  <2>2. PICK k : Remains(Head(console), k) /\ log' = Expired(Dispatching(k), clock)
    BY <1>2, FedIs
  <2>3. k \in LineSet /\ Dispatching(k) \in LogState
    BY <2>2, FedTyped DEF Remains
  <2>4. /\ 1 \in DOMAIN console /\ Head(console) = console[1]
        /\ TrueLine(console[1], missed, handed, sent, ackd)
    BY <1>0, <2>1, TailIs DEF LinesTrue
  <2>5. CASE o = "lost_to_reboot" /\ Holds(log, p) /\ k.uptime < log.uptime
    <3>1. k.uptime = console[1].uptime /\ k.uptime \in Nat /\ log.uptime \in Int
      BY <1>0, <2>2, <2>3, <2>4 DEF Remains, LineSet, LogState, Nothing
    <3>2. p \in handedAtBoot
      BY <2>4, <2>5, <3>1 DEF BootInv, Fresh
    <3> QED BY <2>1, <2>5, <3>2 DEF Verdict
  <2>6. CASE o = "sent" /\ k.body = "done" /\ k.pkt = p /\ p \notin WantAck
    <3>1. k = console[1]
      BY <2>2, <2>4, <2>6, LogAssumption DEF Remains
    <3>2. sent[p] > 0
      BY <2>4, <2>6, <3>1 DEF TrueLine
    <3> QED BY <2>1, <2>6, <3>2 DEF Verdict
  <2>7. CASE o = "acked" /\ k.body = "acked" /\ k.pkt = p
    <3>1. k = console[1]
      BY <2>2, <2>4, <2>7 DEF Remains
    <3>2. p \in ackd
      BY <2>4, <2>7, <3>1 DEF TrueLine
    <3> QED BY <2>1, <2>7, <3>2 DEF Verdict
  <2>8. CASE Timed(Dispatching(k), clock, p, o)
    <3>1. o \in {"unacked", "dropped_before_tx"}
      BY <2>8 DEF Timed
    <3>2. ASSUME handed[p] = 1, ~missed
          PROVE  p \notin DOMAIN work \cup ackd /\ (o = "unacked" <=> sent[p] > 0)
      <4>1. k = Head(console)
        BY <2>2, <2>4, <3>2 DEF Remains, TrueLine
      <4>2. Followed(Dispatching(k), Tail(console), work, sent[p], ackd, clock, p)
        BY <2>1, <2>3, <3>2, <4>1, FollowDispatched
      <4>3. Dispatching(k).inflight[p].attempts > 0 => sent[p] > 0
        BY <2>1, <2>2, <2>8, TriedDispatched DEF TriedSent, Timed
      <4> QED BY <1>0, <2>3, <2>8, <4>2, <4>3, ExpiryIsTrue
    <3> QED BY <2>1, <3>1, <3>2 DEF Verdict
  <2> QED BY <1>2, <2>2, <2>3, <2>5, <2>6, <2>7, <2>8, FedSays
<1>3. CASE FeedNone /\ ~Says(log, p, o)
  <2>1. /\ log' = Expired(log, clock)
        /\ UNCHANGED <<clock, work, handed, sent, ackd, handedAtBoot, missed>>
    BY <1>3 DEF FeedNone, IdleTick, reader, node, history
  <2>2. Timed(log, clock, p, o)
    BY <1>0, <1>3, <2>1, ExpiredSays
  <2>3. o \in {"unacked", "dropped_before_tx"}
    BY <2>2 DEF Timed
  <2>4. ASSUME handed[p] = 1, ~missed
        PROVE  p \notin DOMAIN work \cup ackd /\ (o = "unacked" <=> sent[p] > 0)
    <3>1. /\ Followed(log, console, work, sent[p], ackd, clock, p)
          /\ log.inflight[p].attempts > 0 => sent[p] > 0
      BY <2>2, <2>4 DEF FollowInv, TriedSent, Timed
    <3> QED BY <1>0, <2>2, <3>1, ExpiryIsTrue
  <2> QED BY <2>1, <2>3, <2>4 DEF Verdict
<1>4. CASE log' = log
  BY <1>1, <1>4
<1> QED BY <1>1, <1>2, <1>3, <1>4 DEF Next, Tick, NodeStep, HandOver, GetAck, GiveUp,
           StartTx, PrintAirtime, CompleteTx, Reboot, Port, vars

\* Whose airtime is printed -----------------------------------------------------------
\* No transmission starts between lines i and j of c.
Quiet(c, i, j) == \A k \in i .. j : c[k].body # "started"
Starts(c, p)   == TellsOf(c, "started", p)

\* The packet p is on the air before line i of c, if `last' was before line 1.
OnAir(last, c, i, p) ==
    \/ last = p /\ Quiet(c, 1, i - 1)
    \/ \E j \in Starts(c, p) : j < i /\ Quiet(c, j + 1, i - 1)

\* The airtimes printed of p; all the lines its transmissions print.
Airs(last, c, p) == {i \in DOMAIN c : c[i].body = "airtime" /\ OnAir(last, c, i, p)}
Acts(last, c, p) == Starts(c, p) \cup Airs(last, c, p) \cup Dones(c, p)

\* The line l, next after c, is one of them.
ActOf(l, last, c, p) ==
    \/ l.body \in {"started", "done"} /\ l.pkt = p
    \/ l.body = "airtime" /\ OnAir(last, c, Len(c) + 1, p)

LEMMA OnAirAppended ==
    ASSUME NEW c \in Seq(LineSet), NEW l \in LineSet, NEW last, NEW p,
           NEW i \in 1 .. Len(c) + 1
    PROVE  OnAir(last, Append(c, l), i, p) <=> OnAir(last, c, i, p)
<1> DEFINE d == Append(c, l)
<1>1. /\ DOMAIN c = 1 .. Len(c) /\ DOMAIN d = 1 .. Len(c) + 1 /\ Len(c) \in Nat
      /\ \A k \in 1 .. Len(c) : d[k] = c[k]
  BY AppendedIs
<1> HIDE DEF d
<1>2. \A j \in Nat \ {0} : Quiet(d, j, i - 1) <=> Quiet(c, j, i - 1)
  <2> SUFFICES ASSUME NEW j \in Nat \ {0} PROVE Quiet(d, j, i - 1) <=> Quiet(c, j, i - 1)
    OBVIOUS
  <2>1. \A k \in j .. i - 1 : d[k] = c[k]
    BY <1>1
  <2> QED BY <2>1 DEF Quiet
<1>3. \A j : j < i => (j \in Starts(d, p) <=> j \in Starts(c, p))
  <2> SUFFICES ASSUME NEW j, j < i PROVE j \in Starts(d, p) <=> j \in Starts(c, p)
    OBVIOUS
  <2>1. j \in 1 .. Len(c) + 1 => j \in 1 .. Len(c)
    BY <1>1
  <2> QED BY <1>1, <2>1 DEF Starts, TellsOf
<1>4. \A j \in Starts(d, p) \cup Starts(c, p) : j \in Nat /\ j + 1 \in Nat \ {0}
  BY <1>1 DEF Starts, TellsOf
<1>5. 1 \in Nat \ {0}
  OBVIOUS
<1> QED BY <1>2, <1>3, <1>4, <1>5 DEF OnAir, d

LEMMA OnAirNext ==
    ASSUME NEW c \in Seq(LineSet), NEW l \in LineSet, NEW last, NEW p
    PROVE  OnAir(last, Append(c, l), Len(c) + 2, p) <=>
               IF l.body = "started" THEN l.pkt = p ELSE OnAir(last, c, Len(c) + 1, p)
<1> DEFINE d == Append(c, l)
           n == Len(c)
<1>1. /\ DOMAIN c = 1 .. n /\ DOMAIN d = 1 .. n + 1 /\ n \in Nat
      /\ \A k \in 1 .. n : d[k] = c[k]
      /\ d[n + 1] = l
  BY AppendedIs
<1>2. (n + 2) - 1 = n + 1 /\ (n + 1) - 1 = n
  BY <1>1
<1> HIDE DEF d, n
<1>3. ASSUME NEW j \in 1 .. n + 1
      PROVE  Quiet(d, j, n + 1) <=> Quiet(c, j, n) /\ l.body # "started"
  <2>1. \A k \in j .. n : d[k] = c[k]
    BY <1>1
  <2>2. \A k : k \in j .. n + 1 <=> k \in j .. n \/ k = n + 1
    BY <1>1
  <2> QED BY <1>1, <2>1, <2>2 DEF Quiet
<1>4. CASE l.body = "started"
  <2>1. ASSUME OnAir(last, d, n + 2, p) PROVE l.pkt = p
    <3>1. ~Quiet(d, 1, n + 1)
      BY <1>1, <1>3, <1>4
    <3>2. PICK j \in Starts(d, p) : j < n + 2 /\ Quiet(d, j + 1, n + 1)
      BY <1>2, <2>1, <3>1 DEF OnAir
    <3>3. j \in 1 .. n + 1 /\ d[j].pkt = p
      BY <1>1 DEF Starts, TellsOf
    <3>4. ~(j + 1 \in 1 .. n + 1)
      BY <1>3, <1>4, <3>2
    <3>5. j = n + 1
      BY <1>1, <3>3, <3>4
    <3> QED BY <1>1, <3>3, <3>5
  <2>2. ASSUME l.pkt = p PROVE OnAir(last, d, n + 2, p)
    <3>1. n + 1 \in Starts(d, p)
      BY <1>1, <1>4, <2>2 DEF Starts, TellsOf
    <3>2. n + 1 < n + 2 /\ Quiet(d, (n + 1) + 1, n + 1)
      BY <1>1 DEF Quiet
    <3> QED BY <1>2, <3>1, <3>2 DEF OnAir
  <2> QED BY <1>4, <2>1, <2>2 DEF d, n
<1>5. CASE l.body # "started"
  <2>1. \A j : j \in Starts(d, p) <=> j \in Starts(c, p)
    <3> SUFFICES ASSUME NEW j PROVE j \in Starts(d, p) <=> j \in Starts(c, p)
      OBVIOUS
    <3>1. j \in 1 .. n + 1 <=> j \in 1 .. n \/ j = n + 1
      BY <1>1
    <3> QED BY <1>1, <1>5, <3>1 DEF Starts, TellsOf
  <2>2. \A j \in Starts(c, p) : j < n + 1 /\ j < n + 2 /\ j + 1 \in 1 .. n + 1
    BY <1>1 DEF Starts, TellsOf
  <2>3. 1 \in 1 .. n + 1
    BY <1>1
  <2>4. OnAir(last, d, n + 2, p) <=> OnAir(last, c, n + 1, p)
    BY <1>2, <1>3, <1>5, <2>1, <2>2, <2>3 DEF OnAir
  <2> QED BY <1>5, <2>4 DEF d, n
<1> QED BY <1>4, <1>5

\* Reading a line moves what is on the air, and nothing else.
Playing(l, last) == IF l.body = "started" THEN l.pkt ELSE last

LEMMA OnAirTail ==
    ASSUME NEW c \in Seq(LineSet), c # <<>>, NEW last, NEW p, NEW i \in 1 .. Len(c)
    PROVE  OnAir(Playing(Head(c), last), Tail(c), i, p) <=> OnAir(last, c, i + 1, p)
<1> DEFINE d == Tail(c)
           n == Len(c)
           l == Head(c)
<1>1. /\ DOMAIN c = 1 .. n /\ DOMAIN d = 1 .. n - 1 /\ n \in Nat /\ n > 0
      /\ \A k \in 1 .. n - 1 : d[k] = c[k + 1]
      /\ l = c[1]
  BY TailIs
<1> HIDE DEF d, n, l
<1>2. (i + 1) - 1 = i /\ i \in Nat /\ i >= 1 /\ i <= n
  BY <1>1 DEF n
<1>3. ASSUME NEW j \in Nat, j >= 1
      PROVE  Quiet(d, j, i - 1) <=> Quiet(c, j + 1, i)
  <2>1. ASSUME Quiet(c, j + 1, i), NEW k \in j .. i - 1 PROVE d[k].body # "started"
    <3>1. k + 1 \in j + 1 .. i /\ k \in 1 .. n - 1
      BY <1>1, <1>2, <1>3
    <3> QED BY <1>1, <2>1, <3>1 DEF Quiet
  <2>2. ASSUME Quiet(d, j, i - 1), NEW k \in j + 1 .. i PROVE c[k].body # "started"
    <3>1. k - 1 \in j .. i - 1 /\ k - 1 \in 1 .. n - 1 /\ (k - 1) + 1 = k
      BY <1>1, <1>2, <1>3
    <3> QED BY <1>1, <2>2, <3>1 DEF Quiet
  <2> QED BY <2>1, <2>2 DEF Quiet
<1>4. ASSUME NEW j \in Nat, j >= 1
      PROVE  j \in Starts(d, p) <=> j + 1 \in Starts(c, p)
  <2>1. j \in 1 .. n - 1 <=> j + 1 \in 1 .. n
    BY <1>1, <1>4
  <2> QED BY <1>1, <2>1 DEF Starts, TellsOf
<1>5. \A j \in Starts(d, p) \cup Starts(c, p) : j \in Nat /\ j >= 1
  BY <1>1 DEF Starts, TellsOf
<1>6. Quiet(c, 1, i) <=> l.body # "started" /\ Quiet(d, 1, i - 1)
  <2>1. \A k : k \in 1 .. i <=> k = 1 \/ k \in 1 + 1 .. i
    BY <1>2
  <2>2. Quiet(c, 1, i) <=> c[1].body # "started" /\ Quiet(c, 1 + 1, i)
    BY <2>1 DEF Quiet
  <2>3. Quiet(d, 1, i - 1) <=> Quiet(c, 1 + 1, i)
    BY <1>3
  <2> QED BY <1>1, <2>2, <2>3
<1>7. 1 \in Starts(c, p) <=> l.body = "started" /\ l.pkt = p
  BY <1>1 DEF Starts, TellsOf
<1>8. ASSUME OnAir(Playing(l, last), d, i, p) PROVE OnAir(last, c, i + 1, p)
  <2>1. CASE Playing(l, last) = p /\ Quiet(d, 1, i - 1)
    <3>1. CASE l.body = "started"
      <4>1. 1 \in Starts(c, p) /\ 1 < i + 1 /\ Quiet(c, 1 + 1, i)
        BY <1>2, <1>3, <1>7, <2>1, <3>1 DEF Playing
      <4> QED BY <1>2, <4>1 DEF OnAir
    <3>2. CASE l.body # "started"
      BY <1>2, <1>6, <2>1, <3>2 DEF Playing, OnAir
    <3> QED BY <3>1, <3>2
  <2>2. ASSUME NEW j \in Starts(d, p), j < i, Quiet(d, j + 1, i - 1)
        PROVE  OnAir(last, c, i + 1, p)
    <3>1. j \in Nat /\ j >= 1 /\ j + 1 \in Nat /\ j + 1 >= 1
      BY <1>5
    <3>2. j + 1 \in Starts(c, p) /\ j + 1 < i + 1 /\ Quiet(c, (j + 1) + 1, i)
      BY <1>2, <1>3, <1>4, <2>2, <3>1
    <3> QED BY <1>2, <3>2 DEF OnAir
  <2> QED BY <1>8, <2>1, <2>2 DEF OnAir
<1>9. ASSUME OnAir(last, c, i + 1, p) PROVE OnAir(Playing(l, last), d, i, p)
  <2>1. CASE last = p /\ Quiet(c, 1, i)
    BY <1>6, <2>1 DEF OnAir, Playing
  <2>2. ASSUME NEW j \in Starts(c, p), j < i + 1, Quiet(c, j + 1, i)
        PROVE  OnAir(Playing(l, last), d, i, p)
    <3>1. j \in Nat /\ j >= 1
      BY <1>5
    <3>2. CASE j = 1
      <4>1. Quiet(d, 1, i - 1) /\ l.body = "started" /\ l.pkt = p
        BY <1>3, <1>7, <2>2, <3>2
      <4> QED BY <4>1 DEF OnAir, Playing
    <3>3. CASE j # 1
      <4>1. j - 1 \in Nat /\ j - 1 >= 1 /\ (j - 1) + 1 = j /\ j - 1 < i
        BY <1>2, <2>2, <3>1, <3>3
      <4>2. j - 1 \in Starts(d, p) /\ Quiet(d, (j - 1) + 1, i - 1)
        BY <1>3, <1>4, <2>2, <3>1, <4>1
      <4> QED BY <4>1, <4>2 DEF OnAir
    <3> QED BY <3>2, <3>3
  <2> QED BY <1>2, <1>9, <2>1, <2>2 DEF OnAir
<1> QED BY <1>8, <1>9 DEF d, l

\* The members of S are those of T above 1, one less each.
LEMMA ShiftedIs ==
    ASSUME NEW n \in Nat, NEW S \in SUBSET (1 .. n), NEW T \in SUBSET (1 .. n + 1),
           \A i \in 1 .. n : i \in S <=> i + 1 \in T
    PROVE  /\ IsFiniteSet(S) /\ IsFiniteSet(T) /\ Cardinality(S) \in Nat
           /\ Cardinality(T) = IF 1 \in T THEN Cardinality(S) + 1 ELSE Cardinality(S)
<1> DEFINE R == T \ {1}
           f == [i \in S |-> i + 1]
<1>1. IsFiniteSet(S) /\ IsFiniteSet(T)
  <2>1. IsFiniteSet(1 .. n) /\ IsFiniteSet(1 .. n + 1)
    BY FS_Interval
  <2> QED BY <2>1, FS_Subset
<1>2. \A j \in R : j - 1 \in S /\ (j - 1) + 1 = j
  OBVIOUS
<1>3. \A i \in S : i \in Nat /\ i + 1 \in R
  OBVIOUS
<1> HIDE DEF R
<1>4. f \in [S -> R] /\ \A i, j \in S : f[i] = f[j] => i = j
  BY <1>3
<1>5. \A j \in R : \E i \in S : f[i] = j
  BY <1>2
<1>6. f \in Bijection(S, R)
  BY <1>4, <1>5 DEF Bijection, Injection, Surjection, IsInjective
<1>7. Cardinality(R) = Cardinality(S)
  BY <1>1, <1>6, FS_Bijection DEF ExistsBijection
<1>8. Cardinality(R) = IF 1 \in T THEN Cardinality(T) - 1 ELSE Cardinality(T)
  BY <1>1, FS_RemoveElement DEF R
<1>9. Cardinality(S) \in Nat /\ Cardinality(T) \in Nat
  BY <1>1, FS_CardinalityType
<1> QED BY <1>1, <1>7, <1>8, <1>9

LEMMA AirsFinite ==
    ASSUME NEW c \in Seq(LineSet), NEW last, NEW p
    PROVE  /\ IsFiniteSet(Airs(last, c, p)) /\ Cardinality(Airs(last, c, p)) \in Nat
           /\ Airs(last, c, p) = {} => Cardinality(Airs(last, c, p)) = 0
<1>1. Airs(last, c, p) \subseteq 1 .. Len(c)
  BY DEF Airs
<1>2. IsFiniteSet(Airs(last, c, p))
  BY <1>1, FS_Interval, FS_Subset
<1> QED BY <1>2, FS_CardinalityType, FS_EmptySet

LEMMA AirsAppended ==
    ASSUME NEW c \in Seq(LineSet), NEW l \in LineSet, NEW last, NEW p
    PROVE  LET heard == l.body = "airtime" /\ OnAir(last, c, Len(c) + 1, p)
               m     == Cardinality(Airs(last, c, p))
           IN  /\ Airs(last, Append(c, l), p) =
                      Airs(last, c, p) \cup (IF heard THEN {Len(c) + 1} ELSE {})
               /\ Cardinality(Airs(last, Append(c, l), p)) = IF heard THEN m + 1 ELSE m
<1> DEFINE d == Append(c, l)
           n == Len(c)
           heard == l.body = "airtime" /\ OnAir(last, c, n + 1, p)
<1>1. /\ DOMAIN c = 1 .. n /\ DOMAIN d = 1 .. n + 1 /\ n \in Nat
      /\ \A k \in 1 .. n : d[k] = c[k]
      /\ d[n + 1] = l
  BY AppendedIs
<1>2. \A i \in 1 .. n + 1 : OnAir(last, d, i, p) <=> OnAir(last, c, i, p)
  BY OnAirAppended
<1> HIDE DEF d, n
<1>3. \A i \in 1 .. n : i \in Airs(last, d, p) <=> i \in Airs(last, c, p)
  BY <1>1, <1>2 DEF Airs
<1>4. n + 1 \in Airs(last, d, p) <=> heard
  BY <1>1, <1>2 DEF Airs
<1>5. /\ \A i : i \in Airs(last, d, p) => i \in 1 .. n \/ i = n + 1
      /\ \A i : i \in Airs(last, c, p) => i \in 1 .. n
      /\ n + 1 \notin 1 .. n
  BY <1>1 DEF Airs
<1>6. Airs(last, d, p) = Airs(last, c, p) \cup (IF heard THEN {n + 1} ELSE {})
  BY <1>3, <1>4, <1>5
<1>7. IsFiniteSet(Airs(last, c, p)) /\ n + 1 \notin Airs(last, c, p)
  BY <1>5, AirsFinite
<1>8. Cardinality(Airs(last, c, p) \cup {n + 1}) = Cardinality(Airs(last, c, p)) + 1
  BY <1>7, FS_AddElement
<1> QED BY <1>6, <1>8 DEF d, n

LEMMA AirsTail ==
    ASSUME NEW c \in Seq(LineSet), c # <<>>, NEW last, NEW p
    PROVE  LET left == Airs(Playing(Head(c), last), Tail(c), p)
           IN  /\ \A i \in Nat \ {0} : i \in left <=> i + 1 \in Airs(last, c, p)
               /\ 1 \in Airs(last, c, p) <=> Head(c).body = "airtime" /\ last = p
               /\ Cardinality(Airs(last, c, p)) =
                      IF 1 \in Airs(last, c, p) THEN Cardinality(left) + 1
                      ELSE Cardinality(left)
<1> DEFINE d == Tail(c)
           n == Len(c) - 1
           S == Airs(Playing(Head(c), last), d, p)
           T == Airs(last, c, p)
<1>1. /\ DOMAIN c = 1 .. n + 1 /\ DOMAIN d = 1 .. n /\ n \in Nat /\ Len(c) = n + 1
      /\ \A k \in 1 .. n : d[k] = c[k + 1]
      /\ Head(c) = c[1]
  BY TailIs
<1>2. \A i \in 1 .. n : OnAir(Playing(Head(c), last), d, i, p) <=> OnAir(last, c, i + 1, p)
  BY <1>1, OnAirTail
<1> HIDE DEF d, n
<1>3. \A i \in 1 .. n : i \in S <=> i + 1 \in T
  <2> SUFFICES ASSUME NEW i \in 1 .. n PROVE i \in S <=> i + 1 \in T
    OBVIOUS
  <2>1. i + 1 \in 1 .. n + 1 /\ d[i] = c[i + 1]
    BY <1>1
  <2> QED BY <1>1, <1>2, <2>1 DEF Airs
<1>4. S \in SUBSET (1 .. n) /\ T \in SUBSET (1 .. n + 1)
  BY <1>1 DEF Airs
<1>5. OnAir(last, c, 1, p) <=> last = p
  <2>1. Quiet(c, 1, 1 - 1)
    BY DEF Quiet
  <2>2. \A j \in Starts(c, p) : ~(j < 1)
    BY <1>1 DEF Starts, TellsOf
  <2> QED BY <2>1, <2>2 DEF OnAir
<1>6. 1 \in T <=> Head(c).body = "airtime" /\ last = p
  BY <1>1, <1>5 DEF Airs
<1> HIDE DEF S, T
<1>7. \A i \in Nat \ {0} : i \in S <=> i + 1 \in T
  BY <1>1, <1>3, <1>4
<1>8. Cardinality(T) = IF 1 \in T THEN Cardinality(S) + 1 ELSE Cardinality(S)
  <2>1. n \in Nat
    BY <1>1
  <2> QED BY <1>3, <1>4, <2>1, ShiftedIs
<1> QED BY <1>6, <1>7, <1>8 DEF S, T, d

LEMMA ActsAppended ==
    ASSUME NEW c \in Seq(LineSet), NEW l \in LineSet, NEW last, NEW p
    PROVE  /\ Acts(last, Append(c, l), p) = Acts(last, c, p) \cup
                  (IF ActOf(l, last, c, p) THEN {Len(c) + 1} ELSE {})
           /\ Acts(last, c, p) \subseteq 1 .. Len(c)
<1> DEFINE d == Append(c, l)
           n == Len(c)
           heard == l.body = "airtime" /\ OnAir(last, c, n + 1, p)
<1>1. \A b : TellsOf(d, b, p) =
                IF l.body = b /\ l.pkt = p THEN TellsOf(c, b, p) \cup {n + 1}
                ELSE TellsOf(c, b, p)
  BY TellsGrown
<1>2. Airs(last, d, p) = Airs(last, c, p) \cup (IF heard THEN {n + 1} ELSE {})
  BY AirsAppended
<1>3. Acts(last, c, p) \subseteq 1 .. n
  BY DEF Acts, Starts, Dones, Airs, TellsOf
<1>4. ActOf(l, last, c, p) <=> heard \/ (l.body = "started" /\ l.pkt = p)
                                     \/ (l.body = "done" /\ l.pkt = p)
  BY DEF ActOf
<1>5. Starts(d, p) = Starts(c, p) \cup
          (IF l.body = "started" /\ l.pkt = p THEN {n + 1} ELSE {})
  BY <1>1 DEF Starts
<1>6. Dones(d, p) = Dones(c, p) \cup (IF l.body = "done" /\ l.pkt = p THEN {n + 1} ELSE {})
  BY <1>1 DEF Dones
<1> HIDE DEF d, n, heard
<1>7. Acts(last, d, p) =
          Acts(last, c, p) \cup (IF ActOf(l, last, c, p) THEN {n + 1} ELSE {})
  BY <1>2, <1>4, <1>5, <1>6 DEF Acts
<1> QED BY <1>3, <1>7 DEF d, n

LEMMA ActsTail ==
    ASSUME NEW c \in Seq(LineSet), c # <<>>, NEW last, NEW p
    PROVE  LET left == Acts(Playing(Head(c), last), Tail(c), p)
           IN  /\ \A i \in left : i \in Nat /\ i >= 1 /\ i + 1 \in Acts(last, c, p)
               /\ \A i \in Nat \ {0} : i + 1 \in Acts(last, c, p) => i \in left
               /\ 1 \in Acts(last, c, p) <=> ActOf(Head(c), last, <<>>, p)
<1> DEFINE d == Tail(c)
           n == Len(c) - 1
           left == Acts(Playing(Head(c), last), d, p)
<1>1. /\ DOMAIN c = 1 .. n + 1 /\ DOMAIN d = 1 .. n /\ n \in Nat /\ Len(c) = n + 1
      /\ \A k \in 1 .. n : d[k] = c[k + 1]
      /\ Head(c) = c[1]
  BY TailIs
<1>2. /\ \A i \in Nat \ {0} :
            i \in Airs(Playing(Head(c), last), d, p) <=> i + 1 \in Airs(last, c, p)
      /\ 1 \in Airs(last, c, p) <=> Head(c).body = "airtime" /\ last = p
  BY AirsTail
<1> HIDE DEF d, n
<1>3. \A b : \A i \in Nat \ {0} : i \in TellsOf(d, b, p) <=> i + 1 \in TellsOf(c, b, p)
  <2> SUFFICES ASSUME NEW b, NEW i \in Nat \ {0}
               PROVE  i \in TellsOf(d, b, p) <=> i + 1 \in TellsOf(c, b, p)
    OBVIOUS
  <2>1. i \in 1 .. n <=> i + 1 \in 1 .. n + 1
    BY <1>1
  <2> QED BY <1>1, <2>1 DEF TellsOf
<1>4. \A i \in Nat \ {0} : i \in left <=> i + 1 \in Acts(last, c, p)
  BY <1>2, <1>3 DEF Acts, Starts, Dones
<1>5. left \subseteq Nat \ {0}
  BY <1>1 DEF Acts, Starts, Dones, Airs, TellsOf
<1>6. OnAir(last, <<>>, Len(<<>>) + 1, p) <=> last = p
  <2>1. Quiet(<<>>, 1, (Len(<<>>) + 1) - 1)
    BY DEF Quiet
  <2>2. Starts(<<>>, p) = {}
    BY DEF Starts, TellsOf
  <2> QED BY <2>1, <2>2 DEF OnAir
<1>7. 1 \in Acts(last, c, p) <=> ActOf(Head(c), last, <<>>, p)
  <2>1. \A b : 1 \in TellsOf(c, b, p) <=> Head(c).body = b /\ Head(c).pkt = p
    BY <1>1 DEF TellsOf
  <2> QED BY <1>2, <1>6, <2>1 DEF Acts, ActOf, Starts, Dones
<1> HIDE DEF left
<1>8. \A i \in left : i >= 1
  BY <1>5
<1> QED BY <1>4, <1>5, <1>7, <1>8 DEF left, d

\* What is recorded of a packet ---------------------------------------------------------
\* The transmissions and airtimes recorded of p, which has one record at most.
Tried(s, p) == IF Holds(s, p) THEN s.inflight[p].attempts
               ELSE IF s.published[p] = <<>> THEN 0 ELSE s.published[p][1].attempts
Heard(s, p) == IF Holds(s, p) THEN s.inflight[p].airtime
               ELSE IF s.published[p] = <<>> THEN 0 ELSE s.published[p][1].airtime

LEMMA TallyIs ==
    ASSUME NEW s \in LogState, NEW p \in Pkt
    PROVE  Tried(s, p) \in Nat /\ Heard(s, p) \in Nat
<1>1. s.published[p] \in Seq(Entry)
  BY DEF LogState, Reported
<1>2. CASE Holds(s, p)
  BY <1>2, HeldIs DEF Tried, Heard, Rec
<1>3. CASE ~Holds(s, p) /\ s.published[p] = <<>>
  BY <1>3 DEF Tried, Heard
<1>4. CASE ~Holds(s, p) /\ s.published[p] # <<>>
  <2>1. s.published[p][1] \in Entry
    BY <1>1, <1>4
  <2> QED BY <1>4, <2>1 DEF Tried, Heard, Entry
<1> QED BY <1>2, <1>3, <1>4

\* A packet leaves with what the entry e says.
LEMMA TallyResolved ==
    ASSUME NEW s \in LogState, NEW t, NEW p \in Pkt, Holds(s, p), ~Holds(t, p),
           Balance(s, p) <= 1, NEW e, t.published[p] = Append(s.published[p], e)
    PROVE  Tried(t, p) = e.attempts /\ Heard(t, p) = e.airtime
<1>1. s.published[p] \in Seq(Entry)
  BY DEF LogState, Reported
<1>2. PICK n \in Nat : n = Len(s.published[p])
  BY <1>1
<1>3. n + 1 <= 1
  BY <1>2 DEF Balance
<1>4. s.published[p] = <<>>
  BY <1>1, <1>2, <1>3
<1>5. t.published[p] = <<e>>
  BY <1>4
<1>6. t.published[p] # <<>> /\ t.published[p][1] = e
  BY <1>5
<1> QED BY <1>6 DEF Tried, Heard

LEMMA TallyTold ==
    ASSUME NEW s \in LogState, NEW t, NEW p \in Pkt, Holds(s, p), ~Holds(t, p),
           Balance(s, p) <= 1, NEW o, t.published[p] = Told(s, p, o)
    PROVE  Tried(t, p) = Tried(s, p) /\ Heard(t, p) = Heard(s, p)
<1> DEFINE e == [outcome |-> o, attempts |-> s.inflight[p].attempts,
                 airtime |-> s.inflight[p].airtime]
<1>1. t.published[p] = Append(s.published[p], e)
  BY DEF Told
<1>2. e.attempts = s.inflight[p].attempts /\ e.airtime = s.inflight[p].airtime
  OBVIOUS
<1> HIDE DEF e
<1>3. Tried(t, p) = e.attempts /\ Heard(t, p) = e.airtime
  BY <1>1, TallyResolved
<1> QED BY <1>2, <1>3 DEF Tried, Heard

LEMMA TallyNoted ==
    ASSUME NEW s \in LogState, NEW up \in Nat, NEW p \in Pkt, Balance(s, p) <= 1
    PROVE  LET t == Noted(s, up)
           IN  Tried(t, p) = Tried(s, p) /\ Heard(t, p) = Heard(s, p)
<1> DEFINE t == Noted(s, up)
<1>1. CASE t.inflight = s.inflight /\ t.published = s.published
  BY <1>1 DEF Tried, Heard, Holds
<1>2. CASE /\ DOMAIN t.inflight = {}
           /\ t.published[p] = IF p \in DOMAIN s.inflight THEN Told(s, p, "lost_to_reboot")
                               ELSE s.published[p]
  <2>1. CASE Holds(s, p)
    <3>1. ~Holds(t, p) /\ t.published[p] = Told(s, p, "lost_to_reboot")
      BY <1>2, <2>1 DEF Holds
    <3> HIDE DEF t
    <3>2. Tried(t, p) = Tried(s, p) /\ Heard(t, p) = Heard(s, p)
      BY <2>1, <3>1, TallyTold
    <3> QED BY <3>2 DEF t
  <2>2. CASE ~Holds(s, p)
    BY <1>2, <2>2 DEF Tried, Heard, Holds
  <2> QED BY <2>1, <2>2
<1> QED BY <1>1, <1>2, NotedIs

LEMMA TallyExpired ==
    ASSUME NEW s \in LogState, NEW now \in Nat, NEW p \in Pkt, Balance(s, p) <= 1
    PROVE  LET t == Expired(s, now)
           IN  Tried(t, p) = Tried(s, p) /\ Heard(t, p) = Heard(s, p)
<1> DEFINE t == Expired(s, now)
           o == IF s.inflight[p].attempts > 0 THEN "unacked" ELSE "dropped_before_tx"
<1>1. CASE p \in Overdue(s, now)
  <2>1. Holds(s, p) /\ ~Holds(t, p) /\ t.published[p] = Told(s, p, o)
    BY <1>1, ExpiredIs DEF Holds, Overdue
  <2> HIDE DEF t, o
  <2>2. Tried(t, p) = Tried(s, p) /\ Heard(t, p) = Heard(s, p)
    BY <2>1, TallyTold
  <2> QED BY <2>2 DEF t
<1>2. CASE p \notin Overdue(s, now)
  <2>1. /\ Holds(t, p) <=> Holds(s, p)
        /\ t.published[p] = s.published[p]
        /\ Holds(s, p) => t.inflight[p] = s.inflight[p]
    BY <1>2, ExpiredIs DEF Holds
  <2> HIDE DEF t
  <2>2. Tried(t, p) = Tried(s, p) /\ Heard(t, p) = Heard(s, p)
    BY <2>1 DEF Tried, Heard
  <2> QED BY <2>2 DEF t
<1> QED BY <1>1, <1>2

\* A line adds what it says to the record in flight.
Marked(s, t, l, p) ==
    LET tried == Holds(s, p) /\ l.body = "done" /\ l.pkt = p
        heard == Holds(s, p) /\ l.body = "airtime" /\ s.lastTx = p
    IN  /\ Tried(t, p) = IF tried THEN Tried(s, p) + 1 ELSE Tried(s, p)
        /\ Heard(t, p) = IF heard THEN Heard(s, p) + 1 ELSE Heard(s, p)

LEMMA HandedTells ==
    ASSUME NEW s \in LogState, NEW n \in Pkt, NEW up \in Nat, NEW now \in Nat,
           NEW t, t = Handed(s, n, up, now)
    PROVE  /\ t.published = s.published
           /\ DOMAIN t.inflight = DOMAIN s.inflight \cup {n}
           /\ \A q \in DOMAIN s.inflight : t.inflight[q] = s.inflight[q]
           /\ n \notin DOMAIN s.inflight => t.inflight[n] = Record(up, now)
BY HandedIs

LEMMA TallyDispatched ==
    ASSUME NEW s \in LogState, NEW l \in LineSet, NEW now \in Nat, NEW p \in Pkt,
           NEW t, t = Dispatched(s, l, now), Balance(s, p) <= 1,
           l.body = "handed" /\ l.pkt = p /\ ~Holds(s, p) => s.published[p] = <<>>
    PROVE  Marked(s, t, l, p)
<1>0. l.pkt \in Pkt \cup {Other} /\ l.uptime \in Nat
      /\ (l.body \in {"handed", "acked"} => l.pkt \in Pkt)
  BY DEF LineSet
<1>1. ASSUME /\ Holds(t, p) <=> Holds(s, p)
             /\ t.published[p] = s.published[p]
             /\ Holds(s, p) => t.inflight[p] = s.inflight[p],
             ~(Holds(s, p) /\ l.body = "done" /\ l.pkt = p),
             ~(Holds(s, p) /\ l.body = "airtime" /\ s.lastTx = p)
      PROVE  Marked(s, t, l, p)
  <2>1. Tried(t, p) = Tried(s, p) /\ Heard(t, p) = Heard(s, p)
    BY <1>1 DEF Tried, Heard
  <2> QED BY <1>1, <2>1 DEF Marked
<1>2. CASE l.body = "handed"
  <2>0. l.pkt \in Pkt /\ l.uptime \in Nat
    BY <1>0, <1>2
  <2>1. t = Handed(s, l.pkt, l.uptime, now)
    BY <1>2 DEF Dispatched
  <2>2. /\ t.published = s.published
        /\ DOMAIN t.inflight = DOMAIN s.inflight \cup {l.pkt}
        /\ \A q \in DOMAIN s.inflight : t.inflight[q] = s.inflight[q]
        /\ l.pkt \notin DOMAIN s.inflight => t.inflight[l.pkt] = Record(l.uptime, now)
    BY <2>0, <2>1, HandedTells
  <2>3. CASE l.pkt = p /\ ~Holds(s, p)
    <3>1. Holds(t, p) /\ t.inflight[p].attempts = 0 /\ t.inflight[p].airtime = 0
      BY <2>2, <2>3 DEF Holds, Record
    <3>2. Tried(t, p) = 0 /\ Heard(t, p) = 0
      BY <3>1 DEF Tried, Heard
    <3>3. Tried(s, p) = 0 /\ Heard(s, p) = 0
      BY <1>2, <2>3 DEF Tried, Heard
    <3> QED BY <1>2, <2>3, <3>2, <3>3 DEF Marked
  <2>4. CASE l.pkt # p \/ Holds(s, p)
    <3>1. /\ Holds(t, p) <=> Holds(s, p)
          /\ t.published[p] = s.published[p]
          /\ Holds(s, p) => t.inflight[p] = s.inflight[p]
      BY <2>2, <2>4 DEF Holds
    <3> QED BY <1>1, <1>2, <3>1
  <2> QED BY <2>3, <2>4
<1>3. CASE l.body = "started"
  <2>1. t = TxStarted(s, l.pkt)
    BY <1>3 DEF Dispatched
  <2>2. t.inflight = s.inflight /\ t.published = s.published
    BY <1>0, <2>1, TxStartedIs
  <2>3. /\ Holds(t, p) <=> Holds(s, p)
        /\ t.published[p] = s.published[p]
        /\ Holds(s, p) => t.inflight[p] = s.inflight[p]
    BY <2>2 DEF Holds
  <2> QED BY <1>1, <1>3, <2>3
<1>4. CASE l.body = "airtime"
  <2>1. t = Airtime(s)
    BY <1>4 DEF Dispatched
  <2>2. /\ t.published = s.published
        /\ Holds(t, p) <=> Holds(s, p)
        /\ Holds(s, p) =>
              /\ t.inflight[p].attempts = s.inflight[p].attempts
              /\ t.inflight[p].airtime = IF p = s.lastTx THEN s.inflight[p].airtime + 1
                                         ELSE s.inflight[p].airtime
    BY <2>1, AirtimeIs DEF Holds
  <2> QED BY <1>4, <2>2 DEF Tried, Heard, Marked
<1>5. CASE l.body = "done"
  <2>0. t = TxDone(s, l.pkt, l.uptime, now)
    BY <1>5 DEF Dispatched
  <2>1. DoneTells(s, t, l.pkt, l.uptime, now)
    BY <1>0, <2>0, TxDoneIs
  <2>2. CASE l.pkt # p \/ ~Holds(s, p)
    <3>1. /\ Holds(t, p) <=> Holds(s, p)
          /\ t.published[p] = s.published[p]
          /\ Holds(s, p) => t.inflight[p] = s.inflight[p]
      BY <2>1, <2>2 DEF Holds, DoneTells
    <3> QED BY <1>1, <1>5, <2>2, <3>1
  <2>3. CASE l.pkt = p /\ Holds(s, p) /\ p \in WantAck
    <3>1. Holds(t, p) /\ t.inflight[p] = Counted(s.inflight[p], l.uptime, now)
      BY <2>1, <2>3 DEF Holds, DoneTells
    <3>2. t.inflight[p].attempts = s.inflight[p].attempts + 1
          /\ t.inflight[p].airtime = s.inflight[p].airtime
      BY <3>1 DEF Counted
    <3> QED BY <1>5, <2>3, <3>1, <3>2 DEF Tried, Heard, Marked
  <2>4. CASE l.pkt = p /\ Holds(s, p) /\ p \notin WantAck
    <3>1. ~Holds(t, p) /\ t.published[p] = Append(s.published[p], Sent(s, p))
      BY <2>1, <2>4 DEF Holds, DoneTells
    <3>2. Sent(s, p).attempts = s.inflight[p].attempts + 1
          /\ Sent(s, p).airtime = s.inflight[p].airtime
      BY DEF Sent
    <3>3. Tried(t, p) = Sent(s, p).attempts /\ Heard(t, p) = Sent(s, p).airtime
      BY <2>4, <3>1, TallyResolved
    <3> QED BY <1>5, <2>4, <3>2, <3>3 DEF Tried, Heard, Marked
  <2> QED BY <2>2, <2>3, <2>4
<1>6. CASE l.body = "acked"
  <2>1. t = Acked(s, l.pkt)
    BY <1>6 DEF Dispatched
  <2>2. CASE l.pkt = p /\ Holds(s, p)
    <3>1. ~Holds(t, p) /\ t.published[p] = Told(s, p, "acked")
      BY <2>1, <2>2, AckedIs DEF Holds
    <3>2. Tried(t, p) = Tried(s, p) /\ Heard(t, p) = Heard(s, p)
      BY <2>2, <3>1, TallyTold
    <3> QED BY <1>6, <3>2 DEF Marked
  <2>3. CASE ~(l.pkt = p /\ Holds(s, p))
    <3>1. /\ DOMAIN t.inflight = DOMAIN s.inflight \ {l.pkt}
          /\ t.published[p] = s.published[p]
          /\ \A q \in DOMAIN s.inflight \ {l.pkt} : t.inflight[q] = s.inflight[q]
      BY <2>1, <2>3, AckedIs DEF Holds
    <3>2. /\ Holds(t, p) <=> Holds(s, p)
          /\ Holds(s, p) => t.inflight[p] = s.inflight[p]
      BY <2>3, <3>1 DEF Holds
    <3> QED BY <1>1, <1>6, <3>1, <3>2
  <2> QED BY <2>2, <2>3
<1>7. CASE l.body \notin {"handed", "started", "airtime", "done", "acked"}
  <2>1. t = s
    BY <1>7 DEF Dispatched
  <2> QED BY <1>1, <1>7, <2>1
<1> QED BY <1>2, <1>3, <1>4, <1>5, <1>6, <1>7

LEMMA DispatchedLast ==
    ASSUME NEW s \in LogState, NEW l \in LineSet, NEW now \in Nat
    PROVE  LET t == Dispatched(s, l, now)
           IN  /\ t.lastTx = Playing(l, s.lastTx)
               /\ t.txOther = IF l.body = "started" /\ ~Holds(s, l.pkt) THEN s.txOther + 1
                              ELSE s.txOther
<1> DEFINE t == Dispatched(s, l, now)
<1>1. l.pkt \in Pkt \cup {Other} /\ l.uptime \in Nat
      /\ (l.body \in {"handed", "acked"} => l.pkt \in Pkt)
  BY DEF LineSet
<1>2. CASE l.body = "started"
  <2>1. t = TxStarted(s, l.pkt)
    BY <1>2 DEF Dispatched
  <2> QED BY <1>1, <1>2, <2>1, TxStartedIs DEF Playing, Holds
<1>3. CASE l.body # "started"
  <2>1. \/ t = Handed(s, l.pkt, l.uptime, now) /\ l.pkt \in Pkt
        \/ t = Airtime(s)
        \/ t = TxDone(s, l.pkt, l.uptime, now)
        \/ t = Acked(s, l.pkt)
        \/ t = s
    BY <1>1, <1>3 DEF Dispatched
  <2>2. Rest(s, t)
    BY <1>1, <2>1, HandedIs, AirtimeIs, TxDoneIs, AckedIs DEF Rest
  <2> QED BY <1>3, <2>2 DEF Rest, Playing
<1> QED BY <1>2, <1>3

\* Every transmission is traced -----------------------------------------------------------
\* No reboot shows from line i to line k.
Rising(c, i, k) == \A j, m \in i .. k : j <= m => c[j].uptime <= c[m].uptime

LEMMA RisingTail ==
    ASSUME NEW c \in Seq(LineSet), c # <<>>, NEW i \in Nat, i >= 1,
           NEW k \in Nat, k + 1 <= Len(c), Rising(c, i + 1, k + 1)
    PROVE  Rising(Tail(c), i, k)
<1> SUFFICES ASSUME NEW j \in i .. k, NEW m \in i .. k, j <= m
             PROVE  Tail(c)[j].uptime <= Tail(c)[m].uptime
  BY DEF Rising
<1>1. /\ Len(c) \in Nat /\ DOMAIN Tail(c) = 1 .. Len(c) - 1
      /\ \A n \in DOMAIN Tail(c) : Tail(c)[n] = c[n + 1]
  BY TailIs
<1>2. j \in 1 .. Len(c) - 1 /\ m \in 1 .. Len(c) - 1
  BY <1>1
<1>3. Tail(c)[j] = c[j + 1] /\ Tail(c)[m] = c[m + 1]
  BY <1>1, <1>2
<1>4. j + 1 \in i + 1 .. k + 1 /\ m + 1 \in i + 1 .. k + 1 /\ j + 1 <= m + 1
  OBVIOUS
<1> QED BY <1>3, <1>4 DEF Rising

LEMMA RisingAppended ==
    ASSUME NEW c \in Seq(LineSet), NEW l \in LineSet, NEW i \in Nat, i >= 1,
           NEW k \in 1 .. Len(c), Rising(c, i, k)
    PROVE  Rising(Append(c, l), i, k)
<1>1. \A n \in 1 .. Len(c) : Append(c, l)[n] = c[n]
  BY AppendedIs
<1>2. \A n \in i .. k : n \in 1 .. Len(c)
  BY AppendedIs
<1> QED BY <1>1, <1>2 DEF Rising

LEMMA SteadyRises ==
    ASSUME NEW c \in Seq(LineSet), NEW i \in Nat, NEW k \in 1 .. Len(c), NEW up, Steady(c, i, up)
    PROVE  Rising(c, i, k)
<1>1. \A n \in i .. k : n \in i .. Len(c)
  OBVIOUS
<1> QED BY <1>1 DEF Steady, Rising

\* What the lines A of the transmissions of p, still to be read in c, say: they
\* follow its handing with no reboot between,
Announced(s, c, A, p) ==
    /\ \A h \in Handings(c, p), i \in A : h < i /\ Rising(c, h, i)
    /\ Handings(c, p) # {} => s.lastTx # p
    /\ A # {} => Holds(s, p) \/ Handings(c, p) # {}

\* nothing that resolves the packet precedes them,
Lively(s, c, A, now, p) ==
    /\ Holds(s, p) => \A i \in A : /\ now <= s.inflight[p].seen + Budget
                                   /\ s.uptime <= c[1].uptime /\ Rising(c, 1, i)
    /\ \A i \in Acks(c, p), j \in A : j < i
    /\ p \notin WantAck => \A i \in Dones(c, p), j \in A : j <= i

\* with what is recorded they make all the node has done, n transmissions and o
\* airtimes, and they end with what is on the air.
Tallied(s, c, n, o, p) ==
    /\ n = Tried(s, p) + Cardinality(Dones(c, p))
    /\ o = Heard(s, p) + Cardinality(Airs(s.lastTx, c, p))

OnRadio(s, c, rad, p) ==
    /\ rad = p => OnAir(s.lastTx, c, Len(c) + 1, p)
    /\ OnAir(s.lastTx, c, Len(c) + 1, p) => rad \in {p, Nothing}

Traced(s, c, rad, n, o, now, p) ==
    /\ Announced(s, c, Acts(s.lastTx, c, p), p)
    /\ Lively(s, c, Acts(s.lastTx, c, p), now, p)
    /\ Tallied(s, c, n, o, p)
    /\ OnRadio(s, c, rad, p)

\* A reboot that shows forgets what was on the air, but nothing of a packet that
\* is still followed.
LEMMA OnAirForgets ==
    ASSUME NEW c, NEW i, NEW p, NEW last, NEW next, next # p
    PROVE  /\ OnAir(next, c, i, p) => OnAir(last, c, i, p)
           /\ last # p => (OnAir(next, c, i, p) <=> OnAir(last, c, i, p))
BY DEF OnAir

LEMMA TracedNoted ==
    ASSUME NEW s \in LogState, NEW c \in Seq(LineSet), c # <<>>, NEW p \in Pkt,
           NEW up \in Nat, up = Head(c).uptime, Balance(s, p) <= 1,
           NEW rad, NEW n, NEW o, NEW now, Traced(s, c, rad, n, o, now, p),
           rad = p /\ Handings(c, p) = {} => s.uptime <= up,
           NEW t, t = Noted(s, up)
    PROVE  Traced(t, c, rad, n, o, now, p)
<1>0. /\ Tried(t, p) = Tried(s, p) /\ Heard(t, p) = Heard(s, p)
      /\ t.uptime = up /\ c[1].uptime = up /\ s.uptime \in Int
      /\ p # Nothing
  <2>1. Tried(t, p) = Tried(s, p) /\ Heard(t, p) = Heard(s, p)
    BY TallyNoted
  <2>2. c[1].uptime = up /\ p # Nothing
    BY TailIs, LogAssumption
  <2>4. t.uptime = up
    BY NotedIs
  <2>3. s.uptime \in Int
    BY DEF LogState, Nothing
  <2> QED BY <2>1, <2>2, <2>3, <2>4
<1>1. CASE /\ s.uptime <= up /\ t.inflight = s.inflight /\ t.published = s.published
           /\ t.lastTx = s.lastTx
  <2>1. Holds(t, p) <=> Holds(s, p)
    BY <1>1 DEF Holds
  <2>2. t.uptime <= c[1].uptime
    BY <1>0
  <2> QED BY <1>0, <1>1, <2>1, <2>2 DEF Traced, Announced, Lively, Tallied, OnRadio
<1>2. CASE up < s.uptime /\ DOMAIN t.inflight = {} /\ t.lastTx = Nothing
  <2> DEFINE A == Acts(s.lastTx, c, p)
             B == Acts(t.lastTx, c, p)
  <2>1. /\ \A i : OnAir(t.lastTx, c, i, p) => OnAir(s.lastTx, c, i, p)
        /\ s.lastTx # p => \A i : OnAir(t.lastTx, c, i, p) <=> OnAir(s.lastTx, c, i, p)
    BY <1>0, <1>2, OnAirForgets
  <2>2. ~(s.uptime <= up)
    BY <1>0, <1>2
  <2>3. A # {} => ~Holds(s, p)
    BY <1>0, <2>2 DEF Traced, Lively
  <2>4. Handings(c, p) = {} => A = {}
    BY <2>3 DEF Traced, Announced
  <2>5. Handings(c, p) # {} => s.lastTx # p
    BY DEF Traced, Announced
  <2>6. Airs(t.lastTx, c, p) = Airs(s.lastTx, c, p)
    <3>1. CASE Handings(c, p) # {}
      BY <2>1, <2>5, <3>1 DEF Airs
    <3>2. CASE Handings(c, p) = {}
      <4>1. Airs(t.lastTx, c, p) \subseteq Airs(s.lastTx, c, p)
        BY <2>1 DEF Airs
      <4>2. Airs(s.lastTx, c, p) \subseteq A
        BY DEF Acts
      <4> QED BY <2>4, <3>2, <4>1, <4>2
    <3> QED BY <3>1, <3>2
  <2>7. B = A
    BY <2>6 DEF Acts
  <2>8. ~Holds(t, p)
    BY <1>2 DEF Holds
  <2>9. Announced(t, c, A, p) /\ Lively(t, c, A, now, p)
    BY <1>0, <1>2, <2>3, <2>4, <2>8 DEF Traced, Announced, Lively
  <2>10. Tallied(t, c, n, o, p)
    BY <1>0, <2>6 DEF Traced, Tallied
  <2>11. OnRadio(t, c, rad, p)
    <3>1. rad = p => s.lastTx # p
      BY <2>2, <2>5
    <3> QED BY <2>1, <3>1 DEF Traced, OnRadio
  <2> QED BY <2>7, <2>9, <2>10, <2>11 DEF Traced
<1> QED BY <1>1, <1>2, NotedIs

\* Expiry spares every packet with something still to be read.
LEMMA TracedExpired ==
    ASSUME Budget < Expiry, NEW s \in LogState, NEW c, NEW p \in Pkt, NEW now \in Nat,
           Balance(s, p) <= 1, Handings(c, p) # {} => ~Holds(s, p),
           NEW rad, NEW n, NEW o, Traced(s, c, rad, n, o, now, p),
           NEW t, t = Expired(s, now)
    PROVE  Traced(t, c, rad, n, o, now, p)
<1> DEFINE A == Acts(s.lastTx, c, p)
<1>1. /\ Tried(t, p) = Tried(s, p) /\ Heard(t, p) = Heard(s, p)
      /\ t.lastTx = s.lastTx /\ t.uptime = s.uptime
  BY TallyExpired, ExpiredIs DEF Rest
<1>2. Tallied(t, c, n, o, p) /\ OnRadio(t, c, rad, p)
  BY <1>1 DEF Traced, Tallied, OnRadio
<1>3. CASE Kept(s, t, p)
  <2>1. Announced(t, c, A, p) /\ Lively(t, c, A, now, p)
    BY <1>1, <1>3 DEF Traced, Announced, Lively, Kept
  <2> QED BY <1>1, <1>2, <2>1 DEF Traced
<1>4. CASE s.inflight[p].seen <= now - Expiry /\ Holds(s, p) /\ ~Holds(t, p)
  <2>1. ~(now <= s.inflight[p].seen + Budget)
    <3>1. PICK seen \in Nat : seen = s.inflight[p].seen
      BY <1>4, HeldIs DEF Rec
    <3>2. seen <= now - Expiry
      BY <1>4, <3>1
    <3>3. ~(now <= seen + Budget)
      BY <3>2, LogAssumption, NodeAssumption
    <3> QED BY <3>1, <3>3
  <2>2. A = {}
    BY <1>4, <2>1 DEF Traced, Lively
  <2>3. Announced(t, c, A, p) /\ Lively(t, c, A, now, p)
    BY <1>1, <1>4, <2>2 DEF Traced, Announced, Lively
  <2> QED BY <1>1, <1>2, <2>3 DEF Traced
<1> QED BY <1>3, <1>4, ExpiredFate DEF Resolved

\* A line read: what it says of a transmission goes to the record of its packet.
LEMMA TracedDispatched ==
    ASSUME NEW s \in LogState, NEW c \in Seq(LineSet), c # <<>>, NEW p \in Pkt,
           NEW l \in LineSet, l = Head(c), s.uptime = l.uptime, NEW now \in Nat,
           Balance(s, p) + ToCome(c, p) = 1,
           NEW rad, NEW n, NEW o, Traced(s, c, rad, n, o, now, p),
           NEW t, t = Dispatched(s, l, now)
    PROVE  /\ Traced(t, Tail(c), rad, n, o, now, p)
           /\ l.body = "started" /\ l.pkt = p => Holds(s, p)
<1> DEFINE d == Tail(c)
           A == Acts(s.lastTx, c, p)
           B == Acts(t.lastTx, d, p)
<1>0. /\ t \in LogState /\ t.uptime = l.uptime /\ t.lastTx = Playing(l, s.lastTx)
      /\ l.uptime \in Nat
  BY DispatchedTyped, DispatchedLast DEF LineSet
<1>1. /\ d \in Seq(LineSet) /\ DOMAIN d = 1 .. Len(c) - 1 /\ Len(c) \in Nat /\ Len(c) > 0
      /\ \A i \in DOMAIN d : d[i] = c[i + 1]
      /\ l = c[1] /\ Len(d) = Len(c) - 1
  BY TailIs
<1>2. /\ \A i \in B : i \in Nat /\ i >= 1 /\ i + 1 \in A
      /\ 1 \in A <=> ActOf(l, s.lastTx, <<>>, p)
      /\ A \subseteq 1 .. Len(c)
  <2>1. \A i \in B : i \in Nat /\ i >= 1 /\ i + 1 \in A
    BY <1>0, ActsTail
  <2>2. 1 \in A <=> ActOf(l, s.lastTx, <<>>, p)
    BY ActsTail
  <2>3. A \subseteq 1 .. Len(c)
    BY ActsAppended
  <2> QED BY <2>1, <2>2, <2>3
<1>3. /\ \A i \in Handings(d, p) : i \in Nat /\ i >= 1 /\ i + 1 \in Handings(c, p)
      /\ \A i \in Dones(d, p) : i \in Nat /\ i + 1 \in Dones(c, p)
      /\ \A i \in Acks(d, p) : i \in Nat /\ i + 1 \in Acks(c, p)
      /\ \A h \in Handings(c, p) : h \in Nat /\ h >= 1 /\ (h > 1 => h - 1 \in Handings(d, p))
      /\ 1 \in Handings(c, p) <=> l.body = "handed" /\ l.pkt = p
      /\ 1 \in Dones(c, p) <=> l.body = "done" /\ l.pkt = p
      /\ 1 \in Acks(c, p) <=> l.body = "acked" /\ l.pkt = p
  <2>1. /\ \A i \in Handings(d, p) : i \in Nat /\ i + 1 \in Handings(c, p)
        /\ \A h \in Handings(c, p) : h \in Nat /\ (h > 1 => h - 1 \in Handings(d, p))
        /\ 1 \in Handings(c, p) <=> l.body = "handed" /\ l.pkt = p
    BY TellsShrunk DEF Handings
  <2>2. /\ \A i \in Dones(d, p) : i \in Nat /\ i + 1 \in Dones(c, p)
        /\ 1 \in Dones(c, p) <=> l.body = "done" /\ l.pkt = p
    BY TellsShrunk DEF Dones
  <2>3. /\ \A i \in Acks(d, p) : i \in Nat /\ i + 1 \in Acks(c, p)
        /\ 1 \in Acks(c, p) <=> l.body = "acked" /\ l.pkt = p
    BY TellsShrunk DEF Acks
  <2>4. (\A i \in Handings(d, p) : i >= 1) /\ \A i \in Handings(c, p) : i >= 1
    BY <1>1 DEF Handings, TellsOf
  <2> QED BY <2>1, <2>2, <2>3, <2>4
<1>4. /\ \A h \in Handings(c, p), i \in A : h < i /\ Rising(c, h, i)
      /\ Handings(c, p) # {} => s.lastTx # p
      /\ A # {} => Holds(s, p) \/ Handings(c, p) # {}
      /\ Holds(s, p) => \A i \in A : now <= s.inflight[p].seen + Budget /\ Rising(c, 1, i)
      /\ \A i \in Acks(c, p), j \in A : j < i
      /\ p \notin WantAck => \A i \in Dones(c, p), j \in A : j <= i
  BY DEF Traced, Announced, Lively
<1>5. 1 \in A => Holds(s, p)
  <2>1. 1 \in A => Handings(c, p) = {}
    BY <1>3, <1>4
  <2> QED BY <1>4, <2>1
<1>6. /\ Holds(s, p) => Handings(c, p) = {}
      /\ Balance(s, p) <= 1
      /\ Handings(c, p) # {} => s.published[p] = <<>>
  <2>0. s.published[p] \in Seq(Entry)
    BY DEF LogState, Reported
  <2>1. PICK m \in Nat : m = Len(s.published[p])
    BY <2>0
  <2>2. ToCome(c, p) \in Nat /\ (Handings(c, p) = {} <=> ToCome(c, p) = 0)
    BY TellsFinite DEF ToCome, Handings
  <2>3. Balance(s, p) = m + (IF Holds(s, p) THEN 1 ELSE 0)
    BY <2>1 DEF Balance
  <2>4. /\ Holds(s, p) => ToCome(c, p) = 0
        /\ Balance(s, p) <= 1
        /\ ToCome(c, p) # 0 => m = 0
    BY <2>2, <2>3
  <2> QED BY <2>0, <2>1, <2>2, <2>4
<1> HIDE DEF A, B, d
\* No line of p that resolves it is read while others of p are to come.
<1>7. B # {} => Holds(t, p) \/ Handings(d, p) # {}
  <2> SUFFICES ASSUME B # {}, Handings(d, p) = {} PROVE Holds(t, p)
    OBVIOUS
  <2>1. PICK i \in B : i \in Nat /\ i >= 1 /\ i + 1 \in A
    BY <1>2
  <2>2. ~(l.body = "acked" /\ l.pkt = p) /\ ~(l.body = "done" /\ l.pkt = p /\ p \notin WantAck)
    <3>1. ~(i + 1 < 1) /\ ~(i + 1 <= 1)
      BY <2>1
    <3> QED BY <1>3, <1>4, <2>1, <3>1
  <2>3. Holds(s, p) \/ (l.body = "handed" /\ l.pkt = p)
    <3>1. ASSUME NEW h \in Handings(c, p) PROVE h = 1
      BY <1>3
    <3> QED BY <1>3, <1>4, <2>1, <3>1
  <2> QED BY <2>2, <2>3, DispatchedFate DEF Kept, Begun, Retried
<1>8. Announced(t, d, B, p)
  <2>1. ASSUME NEW h \in Handings(d, p), NEW i \in B PROVE h < i /\ Rising(d, h, i)
    <3>1. /\ h \in Nat /\ h >= 1 /\ i \in Nat /\ i >= 1
          /\ h + 1 < i + 1 /\ Rising(c, h + 1, i + 1) /\ i + 1 <= Len(c)
      BY <1>1, <1>2, <1>3, <1>4
    <3> QED BY <3>1, RisingTail DEF d
  <2>2. ASSUME NEW h \in Handings(d, p) PROVE t.lastTx # p
    <3>1. s.lastTx # p /\ 1 \notin A
      <4>1. h + 1 \in Handings(c, p) /\ ~(h + 1 < 1)
        BY <1>3
      <4> QED BY <1>4, <4>1
    <3>2. ~(l.body = "started" /\ l.pkt = p)
      BY <1>2, <3>1 DEF ActOf
    <3> QED BY <1>0, <3>1, <3>2 DEF Playing
  <2> QED BY <1>7, <2>1, <2>2 DEF Announced
<1>9. Lively(t, d, B, now, p)
  <2>1. ASSUME Holds(t, p), NEW i \in B
        PROVE  now <= t.inflight[p].seen + Budget /\ t.uptime <= d[1].uptime /\ Rising(d, 1, i)
    <3>1. i \in Nat /\ i >= 1 /\ i + 1 \in A /\ i + 1 <= Len(c)
      BY <1>1, <1>2
    <3>2. Rising(c, 1, i + 1)
      <4>1. CASE Holds(s, p)
        BY <1>4, <3>1, <4>1
      <4>2. CASE l.body = "handed" /\ l.pkt = p
        BY <1>3, <1>4, <3>1, <4>2
      <4> QED BY <2>1, <4>1, <4>2, DispatchedFate DEF Kept, Retried, Resolved
    <3>3. Rising(c, 1 + 1, i + 1)
      BY <3>2 DEF Rising
    <3>4. Rising(d, 1, i)
      BY <3>1, <3>3, RisingTail DEF d
    <3>5. t.uptime <= d[1].uptime
      <4>1. 1 \in 1 .. i + 1 /\ 2 \in 1 .. i + 1 /\ 1 <= 2 /\ 1 \in DOMAIN d /\ 1 + 1 = 2
        BY <1>1, <3>1
      <4>2. c[1].uptime <= c[2].uptime
        BY <3>2, <4>1 DEF Rising
      <4> QED BY <1>0, <1>1, <4>1, <4>2
    <3>6. now <= t.inflight[p].seen + Budget
      <4>1. CASE Kept(s, t, p)
        BY <1>4, <2>1, <3>1, <4>1 DEF Kept
      <4>2. CASE t.inflight[p].seen = now
        <5>1. now <= now + Budget
          BY NodeAssumption
        <5> QED BY <4>2, <5>1
      <4>3. ASSUME NEW up, Begun(s, t, p, up, now) \/ Retried(s, t, p, up, now)
            PROVE  t.inflight[p].seen = now
        BY <4>3 DEF Begun, Record, Retried, Counted
      <4>4. \A x : ~Resolved(s, t, p, x)
        BY <2>1 DEF Resolved
      <4> QED BY <4>1, <4>2, <4>3, <4>4, DispatchedFate
    <3> QED BY <3>4, <3>5, <3>6
  <2>2. ASSUME NEW i \in Acks(d, p), NEW j \in B PROVE j < i
    <3>1. i \in Nat /\ j \in Nat /\ j + 1 < i + 1
      BY <1>2, <1>3, <1>4
    <3> QED BY <3>1
  <2>3. ASSUME p \notin WantAck, NEW i \in Dones(d, p), NEW j \in B PROVE j <= i
    <3>1. i \in Nat /\ j \in Nat /\ j + 1 <= i + 1
      BY <1>2, <1>3, <1>4, <2>3
    <3> QED BY <3>1
  <2> QED BY <2>1, <2>2, <2>3 DEF Lively
<1>10. Tallied(t, d, n, o, p)
  <2>1. Marked(s, t, l, p)
    <3>1. l.body = "handed" /\ l.pkt = p => s.published[p] = <<>>
      BY <1>3, <1>6
    <3> QED BY <1>6, <3>1, TallyDispatched
  <2>2. /\ l.body = "done" /\ l.pkt = p => Holds(s, p)
        /\ l.body = "airtime" /\ s.lastTx = p => Holds(s, p)
    <3>1. l.body = "airtime" /\ s.lastTx = p => 1 \in Airs(s.lastTx, c, p)
      BY AirsTail
    <3>2. Airs(s.lastTx, c, p) \subseteq A
      BY DEF Acts, A
    <3>3. l.body = "done" /\ l.pkt = p => 1 \in A
      BY <1>2 DEF ActOf
    <3> QED BY <1>5, <3>1, <3>2, <3>3
  <2>3. Cardinality(Dones(c, p)) = IF l.body = "done" /\ l.pkt = p
                                   THEN Cardinality(Dones(d, p)) + 1
                                   ELSE Cardinality(Dones(d, p))
    BY TellsTail DEF Dones, d
  <2>4. Cardinality(Airs(s.lastTx, c, p)) = IF l.body = "airtime" /\ s.lastTx = p
                                            THEN Cardinality(Airs(t.lastTx, d, p)) + 1
                                            ELSE Cardinality(Airs(t.lastTx, d, p))
    BY <1>0, AirsTail DEF d
  <2>5. /\ Cardinality(Dones(d, p)) \in Nat /\ Cardinality(Airs(t.lastTx, d, p)) \in Nat
        /\ Tried(s, p) \in Nat /\ Heard(s, p) \in Nat
    BY <1>1, TellsFinite, AirsFinite, TallyIs DEF Dones
  <2>6. Tried(s, p) + Cardinality(Dones(c, p)) = Tried(t, p) + Cardinality(Dones(d, p))
    BY <2>1, <2>2, <2>3, <2>5 DEF Marked
  <2>7. Heard(s, p) + Cardinality(Airs(s.lastTx, c, p))
          = Heard(t, p) + Cardinality(Airs(t.lastTx, d, p))
    BY <2>1, <2>2, <2>4, <2>5 DEF Marked
  <2> QED BY <2>6, <2>7 DEF Traced, Tallied
<1>11. OnRadio(t, d, rad, p)
  <2>1. Len(d) + 1 = Len(c) /\ Len(c) \in 1 .. Len(c)
    BY <1>1
  <2>2. OnAir(t.lastTx, d, Len(d) + 1, p) <=> OnAir(s.lastTx, c, Len(c) + 1, p)
    BY <1>0, <2>1, OnAirTail DEF d
  <2> QED BY <2>2 DEF Traced, OnRadio
<1>12. l.body = "started" /\ l.pkt = p => Holds(s, p)
  BY <1>2, <1>5 DEF ActOf
<1> QED BY <1>8, <1>9, <1>10, <1>11, <1>12 DEF Traced, B, d

\* What the node has finished with --------------------------------------------------------
\* The node has nothing more to do with p, unless it is handed over again.
Over(p) == p \in ackd \/ p \in handedAtBoot \/ (p \notin WantAck /\ sent[p] > 0)

OverInv ==
    /\ \A p \in Pkt :
          /\ handed[p] = 1 /\ Over(p) => p \notin DOMAIN work
          /\ handed[p] = 0 => ontime[p] = 0 /\ p \notin handedAtBoot
    /\ log.lastTx \in Pkt => handed[log.lastTx] > 0

\* What is last on the air after a line was fed.
LEMMA FedLast ==
    ASSUME Typed, NEW k \in LineSet
    PROVE  LET t == Expired(Dispatching(k), clock)
           IN  /\ t.lastTx = Playing(k, Noting(k).lastTx)
               /\ Noting(k).lastTx \in {log.lastTx, Nothing}
               /\ Noting(k).txOther = log.txOther
               /\ t.txOther = Dispatching(k).txOther
<1>0. /\ log \in LogState /\ clock \in Nat /\ k.uptime \in Nat
      /\ Noting(k) \in LogState /\ Dispatching(k) \in LogState
  BY FedTyped DEF Typed, LineSet
<1>1. Noting(k).lastTx \in {log.lastTx, Nothing} /\ Noting(k).txOther = log.txOther
  BY <1>0, NotedIs DEF Noting
<1>2. Dispatching(k).lastTx = Playing(k, Noting(k).lastTx)
  BY <1>0, DispatchedLast DEF Dispatching
<1>3. Rest(Dispatching(k), Expired(Dispatching(k), clock))
  BY <1>0, ExpiredIs
<1> QED BY <1>1, <1>2, <1>3 DEF Rest

LEMMA HandedBySelf ==
    ASSUME Typed, [Next]_vars, NEW p \in Pkt
    PROVE  HandOver(p) \/ handed'[p] = handed[p]
<1> SUFFICES ASSUME ~HandOver(p) PROVE handed'[p] = handed[p]
  OBVIOUS
<1>1. ASSUME NEW q \in Pkt, HandOver(q) PROVE handed'[p] = handed[p]
  <2>1. q # p
    BY <1>1
  <2> QED BY <1>1, <2>1 DEF HandOver, Count
<1> QED BY <1>1 DEF Next, NodeStep, GetAck, GiveUp, StartTx, PrintAirtime, CompleteTx,
                    Reboot, Tick, FeedLine, FeedNone, Port, history, vars

LEMMA OverStep ==
    Typed /\ LinesTrue /\ FollowInv /\ OverInv /\ [Next]_vars => OverInv'
<1> SUFFICES ASSUME Typed, LinesTrue, FollowInv, OverInv, [Next]_vars PROVE OverInv'
  OBVIOUS
<1>0. /\ Typed' /\ Grown /\ handed \in [Pkt -> Nat] /\ handed' \in [Pkt -> Nat]
      /\ sent \in [Pkt -> Nat]
  <2>1. Typed' /\ Grown
    BY TypedStep, HistoryGrows
  <2> QED BY <2>1 DEF Typed
<1>1. ASSUME NEW p \in Pkt, handed'[p] = 1, Over(p)' PROVE p \notin DOMAIN work'
  <2>1. CASE HandOver(p)
    <3>1. handed[p] = 0 /\ UNCHANGED <<sent, ackd, handedAtBoot>>
      <4>1. handed'[p] = handed[p] + 1 /\ handed[p] \in Nat
        BY <1>0, <2>1, CountIs DEF HandOver
      <4> QED BY <1>1, <2>1, <4>1 DEF HandOver
    <3>2. ~Over(p)
      BY <3>1 DEF FollowInv, OverInv, Over
    <3> QED BY <1>1, <3>1, <3>2 DEF Over
  <2>2. CASE handed'[p] = handed[p] /\ Over(p)
    <3>1. p \notin DOMAIN work
      BY <1>1, <2>2 DEF OverInv
    <3> QED BY <2>2, <3>1, FinishedWith
  <2>3. CASE handed'[p] = handed[p] /\ ~Over(p)
    <3>1. CASE GetAck(p)
      BY <3>1, RestrictIs DEF GetAck
    <3>2. CASE Reboot
      BY <3>2 DEF Reboot
    <3>3. CASE CompleteTx /\ radio = p /\ p \notin WantAck
      BY <3>3, RestrictIs DEF CompleteTx
    <3>4. CASE CompleteTx /\ (radio # p \/ p \in WantAck)
      <4>1. sent'[p] = sent[p] \/ p \in WantAck
        BY <3>4 DEF CompleteTx, Count
      <4> QED BY <1>1, <2>3, <3>4, <4>1 DEF CompleteTx, Over
    <3>5. ASSUME NEW q \in Pkt, GetAck(q), q # p PROVE FALSE
      BY <1>1, <2>3, <3>5 DEF GetAck, Over
    <3>6. CASE UNCHANGED <<sent, ackd, handedAtBoot>>
      BY <1>1, <2>3, <3>6 DEF Over
    <3>7. \/ \E q \in Pkt : GetAck(q)
          \/ Reboot \/ CompleteTx \/ UNCHANGED <<sent, ackd, handedAtBoot>>
      BY DEF Next, NodeStep, HandOver, GiveUp, StartTx, PrintAirtime, Tick, FeedLine,
             FeedNone, Port, history, vars
    <3> QED BY <3>1, <3>2, <3>3, <3>4, <3>5, <3>6, <3>7
  <2> QED BY <2>1, <2>2, <2>3, HandedBySelf
<1>2. ASSUME NEW p \in Pkt, handed'[p] = 0 PROVE ontime'[p] = 0 /\ p \notin handedAtBoot'
  <2>1. handed[p] = 0
    <3>1. handed[p] <= handed'[p] /\ handed[p] \in Nat
      BY <1>0 DEF Grown
    <3> QED BY <1>2, <3>1
  <2>2. ontime[p] = 0 /\ p \notin handedAtBoot /\ p \notin DOMAIN work
    BY <2>1 DEF OverInv, LinesTrue
  <2>3. CASE PrintAirtime
    <3>1. radio # p
      BY <2>2, <2>3 DEF PrintAirtime, Typed
    <3> QED BY <2>2, <2>3, <3>1 DEF PrintAirtime, Count
  <2>4. CASE Reboot
    BY <2>1, <2>2, <2>4 DEF Reboot
  <2>5. PrintAirtime \/ Reboot \/ UNCHANGED <<ontime, handedAtBoot>>
    BY DEF Next, NodeStep, HandOver, GetAck, GiveUp, StartTx, CompleteTx, Tick, FeedLine,
           FeedNone, Port, history, vars
  <2> QED BY <2>2, <2>3, <2>4, <2>5
<1>3. ASSUME log'.lastTx \in Pkt PROVE handed'[log'.lastTx] > 0
  <2>1. CASE log'.lastTx = log.lastTx
    <3>1. handed[log.lastTx] > 0 /\ handed[log.lastTx] <= handed'[log.lastTx]
      BY <1>0, <1>3, <2>1 DEF OverInv, Grown
    <3> QED BY <1>0, <1>3, <2>1, <3>1
  <2>2. CASE FeedLine /\ log'.lastTx # log.lastTx
    <3>1. PICK k : Remains(Head(console), k) /\ log' = Expired(Dispatching(k), clock)
      BY <2>2, FedIs
    <3>2. k \in LineSet /\ console # <<>> /\ console \in Seq(LineSet) /\ handed' = handed
      BY <2>2, <3>1, FedIs DEF Remains, Typed, FeedLine, history
    <3>3. log'.lastTx = Playing(k, Noting(k).lastTx)
          /\ Noting(k).lastTx \in {log.lastTx, Nothing}
      BY <3>1, <3>2, FedLast
    <3>4. Nothing \notin Pkt /\ Other \notin Pkt
      BY LogAssumption
    <3>5. k.body = "started" /\ log'.lastTx = k.pkt
      BY <1>3, <2>2, <3>3, <3>4 DEF Playing
    <3>6. k = Head(console)
      BY <1>3, <3>1, <3>4, <3>5 DEF Remains
    <3>7. Head(console) = console[1] /\ 1 \in DOMAIN console
      BY <3>2, TailIs
    <3> QED BY <1>3, <3>2, <3>5, <3>6, <3>7 DEF LinesTrue, TrueLine
  <2>3. CASE FeedNone
    <3>1. log' = Expired(log, clock) /\ log \in LogState /\ clock \in Nat
      BY <2>3 DEF FeedNone, Typed
    <3>2. log'.lastTx = log.lastTx
      BY <3>1, ExpiredIs DEF Rest
    <3> QED BY <2>1, <3>2
  <2>4. FeedLine \/ FeedNone \/ log' = log
    BY DEF Next, NodeStep, HandOver, GetAck, GiveUp, StartTx, CompleteTx, PrintAirtime,
           Reboot, Tick, Port, vars
  <2> QED BY <2>1, <2>2, <2>3, <2>4
<1> QED BY <1>1, <1>2, <1>3 DEF OverInv, Over

LEMMA InitOver == Init => OverInv
<1> SUFFICES ASSUME Init PROVE OverInv
  OBVIOUS
<1>1. /\ log.lastTx = Nothing /\ handedAtBoot = {} /\ DOMAIN work = {}
      /\ \A p \in Pkt : ontime[p] = 0
  BY DEF Init, InitialLog
<1> QED BY <1>1, LogAssumption DEF OverInv

\* While the node works on p, the collector waits for more of it.
Awaited(s, c, up, now, p) ==
    /\ Holds(s, p) \/ Handings(c, p) # {}
    /\ Acks(c, p) = {} /\ (p \notin WantAck => Dones(c, p) = {})
    /\ Fresh(s, c, up, p)
    /\ Holds(s, p) => now <= s.inflight[p].seen + Budget

LEMMA WorkAwaited ==
    ASSUME Typed, LinesTrue, CountInv, BootInv, FollowInv, VerdictInv, OverInv,
           NEW p \in DOMAIN work, handed[p] = 1, ~missed
    PROVE  Awaited(log, console, Uptime, clock, p)
<1>0. /\ p \in Pkt /\ log.published[p] \in Seq(Entry) /\ console \in Seq(LineSet)
  <2>1. p \in Pkt
    BY WorkIs
  <2> QED BY <2>1 DEF Typed, LogState, Reported
<1>1. ~Over(p)
  BY <1>0 DEF OverInv
<1>2. log.published[p] = <<>>
  <2> SUFFICES ASSUME log.published[p] # <<>> PROVE FALSE
    OBVIOUS
  <2>1. 1 \in DOMAIN log.published[p] /\ log.published[p][1] \in Entry
    BY <1>0
  <2>2. PICK o \in Outcomes : o = log.published[p][1].outcome
    BY <2>1 DEF Entry
  <2>3. Says(log, p, o)
    BY <2>1, <2>2 DEF Says
  <2>4. Verdict(p, o, work, sent[p], ackd, handedAtBoot, handed[p], missed)
    BY <1>0, <2>3 DEF VerdictInv
  <2> QED BY <1>1, <2>2, <2>4 DEF Verdict, Outcomes, Over
<1>3. Acks(console, p) = {} /\ (p \notin WantAck => Dones(console, p) = {})
  <2>1. ASSUME NEW b, NEW i \in TellsOf(console, b, p)
        PROVE  (b = "acked" => p \in ackd) /\ (b = "done" => sent[p] > 0)
    <3>1. i \in DOMAIN console /\ console[i].body = b /\ console[i].pkt = p
      BY DEF TellsOf
    <3>2. TrueLine(console[i], missed, handed, sent, ackd)
      BY <3>1 DEF LinesTrue
    <3> QED BY <1>0, <3>1, <3>2 DEF TrueLine
  <2> QED BY <1>1, <2>1 DEF Acks, Dones, Over
<1>4. Holds(log, p) \/ Handings(console, p) # {}
  <2>1. Balance(log, p) + ToCome(console, p) = 1
    BY <1>0 DEF CountInv
  <2>2. Len(log.published[p]) = 0
    BY <1>2
  <2>3. Handings(console, p) = {} => ToCome(console, p) = 0
    BY <1>0, TellsFinite DEF Handings, ToCome
  <2> QED BY <2>1, <2>2, <2>3 DEF Balance
<1>5. Fresh(log, console, Uptime, p)
  BY <1>0, <1>1 DEF BootInv, Over
<1>6. Followed(log, console, work, sent[p], ackd, clock, p)
  BY <1>0 DEF FollowInv
<1> QED BY <1>3, <1>4, <1>5, <1>6 DEF Awaited, Followed

\* The node prints one line more, of a transmission of p only while it works on p.
LEMMA TracedSaid ==
    ASSUME Typed, NEW l \in LineSet, console' = Append(console, l), NEW p \in Pkt,
           ~(l.body = "handed" /\ l.pkt = p),
           NEW n0, NEW o0, Traced(log, console, radio, n0, o0, clock, p),
           ActOf(l, log.lastTx, console, p) =>
               l.uptime = Uptime /\ Awaited(log, console, Uptime, clock, p),
           NEW n, n = IF l.body = "done" /\ l.pkt = p THEN n0 + 1 ELSE n0,
           NEW o, o = IF l.body = "airtime" /\ OnAir(log.lastTx, console, Len(console) + 1, p)
                      THEN o0 + 1 ELSE o0,
           NEW rad, IF l.body = "started" THEN rad = l.pkt ELSE rad \in {radio, Nothing}
    PROVE  Traced(log, console', rad, n, o, clock, p)
<1> DEFINE c == console
           d == console'
           last == log.lastTx
           m == Len(console)
           acts == ActOf(l, last, c, p)
           A == Acts(last, c, p)
           B == Acts(last, d, p)
<1>0. /\ c \in Seq(LineSet) /\ d = Append(c, l) /\ m \in Nat /\ m = Len(c) /\ Uptime \in Nat
      /\ p # Nothing
  BY LogAssumption, AppendedIs DEF Typed, Uptime
<1>1. /\ d \in Seq(LineSet) /\ Len(d) = m + 1 /\ d[m + 1] = l
      /\ DOMAIN c = 1 .. m /\ DOMAIN d = 1 .. m + 1
      /\ \A i \in 1 .. m : d[i] = c[i]
  BY <1>0, AppendedIs
<1>2. B = A \cup (IF acts THEN {m + 1} ELSE {}) /\ A \subseteq 1 .. m
  BY <1>0, ActsAppended
<1>3. /\ Announced(log, c, A, p) /\ Lively(log, c, A, clock, p)
      /\ Tallied(log, c, n0, o0, p) /\ OnRadio(log, c, radio, p)
  BY DEF Traced
<1>4. acts => l.uptime = Uptime /\ Awaited(log, c, Uptime, clock, p)
  OBVIOUS
<1>5. /\ Handings(d, p) = Handings(c, p)
      /\ \A i \in Handings(c, p) : i \in 1 .. m
      /\ \A i \in Dones(c, p) \cup Acks(c, p) : i \in 1 .. m
      /\ \A i \in Dones(d, p) : i \in Dones(c, p) \/ i = m + 1
      /\ \A i \in Acks(d, p) : i \in Acks(c, p) \/ (i = m + 1 /\ l.body = "acked" /\ l.pkt = p)
  <2>1. \A b : TellsOf(d, b, p) = IF l.body = b /\ l.pkt = p THEN TellsOf(c, b, p) \cup {m + 1}
                                  ELSE TellsOf(c, b, p)
    BY <1>0, TellsGrown
  <2>2. \A b : \A i \in TellsOf(c, b, p) : i \in 1 .. m
    BY <1>1 DEF TellsOf
  <2> HIDE DEF c, d, m
  <2>3. Handings(d, p) = Handings(c, p)
    BY <2>1 DEF Handings
  <2>4. \A i \in Dones(d, p) : i \in Dones(c, p) \/ i = m + 1
    BY <2>1 DEF Dones
  <2>5. \A i \in Acks(d, p) : i \in Acks(c, p) \/ (i = m + 1 /\ l.body = "acked" /\ l.pkt = p)
    BY <2>1 DEF Acks
  <2> QED BY <2>2, <2>3, <2>4, <2>5 DEF Handings, Dones, Acks
<1>6. acts => l.body # "acked"
  BY DEF ActOf
<1> HIDE DEF c, d, m, acts, A, B, last
\* Line m + 1 shows no reboot since line i, if none shows from i to m.
<1>7. ASSUME acts, NEW i \in 1 .. m + 1, i \in 1 .. m => Steady(c, i, Uptime)
      PROVE  Rising(d, i, m + 1)
  <2>1. Steady(d, i, Uptime)
    BY <1>0, <1>4, <1>7, SteadyAppended
  <2>2. m + 1 \in 1 .. Len(d) /\ i \in Nat
    BY <1>0, <1>1
  <2> QED BY <1>1, <2>1, <2>2, SteadyRises
<1>8. Announced(log, d, B, p)
  <2>1. ASSUME NEW h \in Handings(d, p), NEW i \in B PROVE h < i /\ Rising(d, h, i)
    <3>1. h \in Handings(c, p) /\ h \in 1 .. m
      BY <1>5
    <3>2. CASE i \in A
      <4>1. h < i /\ Rising(c, h, i) /\ i \in 1 .. m /\ h \in Nat /\ h >= 1
        BY <1>0, <1>2, <1>3, <3>1, <3>2 DEF Announced
      <4> QED BY <1>0, <4>1, RisingAppended
    <3>3. CASE acts /\ i = m + 1
      <4>1. Steady(c, h, Uptime)
        BY <1>4, <3>1, <3>3 DEF Awaited, Fresh, Handings
      <4>2. h < m + 1 /\ h \in 1 .. m + 1
        BY <1>0, <3>1
      <4> QED BY <1>7, <3>3, <4>1, <4>2
    <3> QED BY <1>2, <3>2, <3>3
  <2>2. Handings(d, p) # {} => log.lastTx # p
    BY <1>3, <1>5 DEF Announced
  <2>3. B # {} => Holds(log, p) \/ Handings(d, p) # {}
    BY <1>2, <1>3, <1>4, <1>5 DEF Announced, Awaited
  <2> QED BY <2>1, <2>2, <2>3 DEF Announced
<1>9. Lively(log, d, B, clock, p)
  <2>1. ASSUME Holds(log, p), NEW i \in B
        PROVE  /\ clock <= log.inflight[p].seen + Budget
               /\ log.uptime <= d[1].uptime /\ Rising(d, 1, i)
    <3>1. CASE i \in A
      <4>1. /\ clock <= log.inflight[p].seen + Budget
            /\ log.uptime <= c[1].uptime /\ Rising(c, 1, i) /\ i \in 1 .. m
        BY <1>2, <1>3, <2>1, <3>1 DEF Lively
      <4>2. d[1] = c[1]
        BY <1>0, <1>1, <4>1
      <4>3. Rising(d, 1, i)
        BY <1>0, <4>1, RisingAppended
      <4> QED BY <4>1, <4>2, <4>3
    <3>2. CASE acts /\ i = m + 1
      <4>1. /\ clock <= log.inflight[p].seen + Budget /\ Steady(c, 1, Uptime)
            /\ log.uptime <= Uptime /\ \A j \in DOMAIN c : log.uptime <= c[j].uptime
        BY <1>4, <2>1, <3>2 DEF Awaited, Fresh
      <4>2. 1 \in 1 .. m + 1 /\ (1 \in 1 .. m \/ m = 0)
        BY <1>0
      <4>3. log.uptime <= d[1].uptime
        BY <1>1, <1>4, <3>2, <4>1, <4>2
      <4>4. Rising(d, 1, i)
        BY <1>7, <3>2, <4>1, <4>2
      <4> QED BY <4>1, <4>3, <4>4
    <3> QED BY <1>2, <3>1, <3>2
  <2>2. ASSUME NEW i \in Acks(d, p), NEW j \in B PROVE j < i
    <3>1. CASE i \in Acks(c, p) /\ j \in A
      BY <1>3, <3>1 DEF Lively
    <3>2. CASE i \in Acks(c, p) /\ acts
      BY <1>4, <3>2 DEF Awaited
    <3>3. CASE i = m + 1 /\ l.body = "acked"
      <4>1. j \in 1 .. m
        BY <1>2, <1>6, <3>3
      <4> QED BY <1>0, <3>3, <4>1
    <3> QED BY <1>2, <1>5, <3>1, <3>2, <3>3
  <2>3. ASSUME p \notin WantAck, NEW i \in Dones(d, p), NEW j \in B PROVE j <= i
    <3>1. CASE i \in Dones(c, p) /\ j \in A
      BY <1>3, <2>3, <3>1 DEF Lively
    <3>2. CASE i \in Dones(c, p) /\ acts
      BY <1>4, <2>3, <3>2 DEF Awaited
    <3>3. CASE i = m + 1
      <4>1. j \in 1 .. m \/ j = m + 1
        BY <1>2
      <4> QED BY <1>0, <3>3, <4>1
    <3> QED BY <1>2, <1>5, <3>1, <3>2, <3>3
  <2> QED BY <2>1, <2>2, <2>3 DEF Lively
<1>10. Tallied(log, d, n, o, p)
  <2>1. Cardinality(Dones(d, p)) = IF l.body = "done" /\ l.pkt = p
                                   THEN Cardinality(Dones(c, p)) + 1
                                   ELSE Cardinality(Dones(c, p))
    BY <1>0, TellsAppended DEF Dones
  <2>2. Cardinality(Airs(last, d, p)) = IF l.body = "airtime" /\ OnAir(last, c, m + 1, p)
                                        THEN Cardinality(Airs(last, c, p)) + 1
                                        ELSE Cardinality(Airs(last, c, p))
    BY <1>0, AirsAppended
  <2>3. /\ Cardinality(Dones(c, p)) \in Nat /\ Cardinality(Airs(last, c, p)) \in Nat
        /\ Tried(log, p) \in Nat /\ Heard(log, p) \in Nat
    BY <1>0, TellsFinite, AirsFinite, TallyIs DEF Dones, Typed
  <2>4. n0 = Tried(log, p) + Cardinality(Dones(c, p))
        /\ o0 = Heard(log, p) + Cardinality(Airs(last, c, p))
    BY <1>3 DEF Tallied, last
  <2>5. n = Tried(log, p) + Cardinality(Dones(d, p))
    BY <2>1, <2>3, <2>4
  <2>6. o = IF l.body = "airtime" /\ OnAir(last, c, m + 1, p) THEN o0 + 1 ELSE o0
    BY DEF last, c, m
  <2>7. o = Heard(log, p) + Cardinality(Airs(last, d, p))
    BY <2>2, <2>3, <2>4, <2>6
  <2> QED BY <2>5, <2>7 DEF Tallied, last
<1>11. OnRadio(log, d, rad, p)
  <2>1. Len(d) + 1 = m + 2
    BY <1>0, <1>1
  <2>2. OnAir(last, d, m + 2, p) <=>
            IF l.body = "started" THEN l.pkt = p ELSE OnAir(last, c, m + 1, p)
    BY <1>0, OnAirNext
  <2>3. /\ radio = p => OnAir(last, c, m + 1, p)
        /\ OnAir(last, c, m + 1, p) => radio \in {p, Nothing}
    BY <1>0, <1>3 DEF OnRadio, last
  <2>4. /\ rad = p => OnAir(last, d, m + 2, p)
        /\ OnAir(last, d, m + 2, p) => rad \in {p, Nothing}
    BY <1>0, <2>2, <2>3
  <2> QED BY <2>1, <2>4 DEF OnRadio, last
<1> QED BY <1>8, <1>9, <1>10, <1>11 DEF Traced, B, d, last

TraceInv ==
    \A p \in Pkt : handed[p] = 1 /\ ~missed =>
        Traced(log, console, radio, sent[p], ontime[p], clock, p)

\* A packet handed over for the first time: nothing was said of it before.
LEMMA TracedHanded ==
    ASSUME Typed, LinesTrue, CountInv, FollowInv, OverInv, NEW p \in Pkt, handed[p] = 0,
           NEW l \in LineSet, l.body = "handed", l.pkt = p, console' = Append(console, l)
    PROVE  Traced(log, console', radio, sent[p], ontime[p], clock, p)
<1> DEFINE c == console
           d == console'
           last == log.lastTx
<1>0. c \in Seq(LineSet) /\ d = Append(c, l) /\ d \in Seq(LineSet)
  BY AppendedIs DEF Typed
<1>1. \A b : TellsOf(c, b, p) = {}
  BY DEF LinesTrue, TrueLine, TellsOf
<1>2. last # p /\ radio # p /\ sent[p] = 0 /\ ontime[p] = 0
  <2>1. p \notin DOMAIN work
    BY DEF LinesTrue
  <2>2. radio # p
    BY <2>1, LogAssumption DEF Typed
  <2> QED BY <2>2 DEF OverInv, FollowInv
<1>3. \A i : ~OnAir(last, c, i, p)
  BY <1>1, <1>2 DEF OnAir, Starts
<1>4. Acts(last, d, p) = {}
  <2>1. Acts(last, c, p) = {}
    BY <1>1, <1>3 DEF Acts, Airs, Starts, Dones
  <2>2. ~ActOf(l, last, c, p)
    BY DEF ActOf
  <2> QED BY <1>0, <2>1, <2>2, ActsAppended
<1>5. ~OnAir(last, d, Len(d) + 1, p)
  <2>1. Starts(d, p) = {}
    BY <1>4 DEF Acts
  <2> QED BY <1>2, <2>1 DEF OnAir
<1>6. Tried(log, p) = 0 /\ Heard(log, p) = 0
  <2>1. ~Holds(log, p) /\ Len(log.published[p]) = 0
    BY NothingHanded
  <2>2. log.published[p] = <<>>
    BY <2>1 DEF Typed, LogState, Reported
  <2> QED BY <2>1, <2>2 DEF Tried, Heard
<1>7. Dones(d, p) = {} /\ Airs(last, d, p) = {}
  BY <1>4 DEF Acts
<1>8. Cardinality(Dones(d, p)) = 0 /\ Cardinality(Airs(last, d, p)) = 0
  BY <1>7, FS_EmptySet
<1> HIDE DEF d, last
<1>9. Announced(log, d, Acts(last, d, p), p) /\ Lively(log, d, Acts(last, d, p), clock, p)
  BY <1>2, <1>4 DEF Announced, Lively, last
<1>10. Tallied(log, d, sent[p], ontime[p], p)
  BY <1>2, <1>6, <1>8 DEF Tallied, last
<1>11. OnRadio(log, d, radio, p)
  BY <1>2, <1>5 DEF OnRadio, last
<1> QED BY <1>9, <1>10, <1>11 DEF Traced, d, last

LEMMA TracedNode ==
    ASSUME Typed, LinesTrue, CountInv, BootInv, FollowInv, VerdictInv, OverInv, TraceInv,
           NodeStep, NEW p \in Pkt, handed'[p] = 1, ~missed'
    PROVE  Traced(log, console', radio', sent'[p], ontime'[p], clock, p)
<1>0. /\ console \in Seq(LineSet) /\ handed \in [Pkt -> Nat] /\ sent \in [Pkt -> Nat]
      /\ ontime \in [Pkt -> Nat] /\ missed \in BOOLEAN /\ Other \notin Pkt
  BY LogAssumption DEF Typed
<1>1. ASSUME NEW l, Printed(l)
      PROVE  console' = Append(console, l) /\ ~missed
  BY <1>0, <1>1 DEF Printed
<1>2. CASE HandOver(p)
  <2>1. PICK l \in LineSet : l.body = "handed" /\ l.pkt = p /\ Printed(l)
    <3>1. Prints(<<Line("handed", p)>>)
      BY <1>2 DEF HandOver
    <3>2. "handed" \in Bodies
      BY DEF Bodies
    <3> QED BY <3>1, <3>2, LineSaid
  <2>2. handed[p] = 0
    <3>1. handed'[p] = handed[p] + 1 /\ handed[p] \in Nat
      BY <1>0, <1>2, CountIs DEF HandOver
    <3> QED BY <3>1
  <2>3. UNCHANGED <<radio, sent, ontime>>
    BY <1>2 DEF HandOver
  <2> QED BY <1>1, <2>1, <2>2, <2>3, TracedHanded
<1>3. CASE ~HandOver(p)
  <2>0. handed[p] = 1
    BY <1>3, HandedBySelf DEF Next
  <2>1. ~missed => Traced(log, console, radio, sent[p], ontime[p], clock, p)
    BY <2>0 DEF TraceInv
  <2>2. ~missed /\ p \in DOMAIN work => Awaited(log, console, Uptime, clock, p)
    BY <2>0, WorkAwaited
  <2>3. ASSUME NEW q \in Pkt, HandOver(q)
        PROVE  Traced(log, console', radio', sent'[p], ontime'[p], clock, p)
    <3>1. PICK l \in LineSet : l.body = "handed" /\ l.pkt = q /\ Printed(l)
      <4>1. Prints(<<Line("handed", q)>>)
        BY <2>3 DEF HandOver
      <4>2. "handed" \in Bodies
        BY DEF Bodies
      <4> QED BY <4>1, <4>2, LineSaid
    <3>2. q # p /\ UNCHANGED <<radio, sent, ontime>>
      BY <1>3, <2>3 DEF HandOver
    <3>3. console' = Append(console, l)
          /\ Traced(log, console, radio, sent[p], ontime[p], clock, p)
      BY <1>1, <2>1, <3>1
    <3>4. ~ActOf(l, log.lastTx, console, p)
      BY <3>1 DEF ActOf
    <3> QED BY <3>1, <3>2, <3>3, <3>4, TracedSaid
  <2>4. ASSUME NEW q \in Pkt, GetAck(q)
        PROVE  Traced(log, console', radio', sent'[p], ontime'[p], clock, p)
    <3>1. PICK l \in LineSet : l.body = "acked" /\ l.pkt = q /\ Printed(l)
      <4>1. Prints(<<Line("acked", q)>>)
        BY <2>4 DEF GetAck
      <4>2. "acked" \in Bodies
        BY DEF Bodies
      <4> QED BY <4>1, <4>2, LineSaid
    <3>2. UNCHANGED <<radio, sent, ontime>>
      BY <2>4 DEF GetAck
    <3>3. console' = Append(console, l)
          /\ Traced(log, console, radio, sent[p], ontime[p], clock, p)
      BY <1>1, <2>1, <3>1
    <3>4. ~ActOf(l, log.lastTx, console, p)
      BY <3>1 DEF ActOf
    <3> QED BY <3>1, <3>2, <3>3, <3>4, TracedSaid
  <2>5. ASSUME NEW q \in Pkt, GiveUp(q)
        PROVE  Traced(log, console', radio', sent'[p], ontime'[p], clock, p)
    <3>1. UNCHANGED <<console, missed, radio, sent, ontime>>
      BY <2>5 DEF GiveUp, reader, history
    <3> QED BY <2>1, <3>1
  <2>6. ASSUME NEW q \in Pkt \cup {Other}, StartTx(q)
        PROVE  Traced(log, console', radio', sent'[p], ontime'[p], clock, p)
    <3>1. PICK l \in LineSet : /\ l.body = "started" /\ l.pkt = q /\ l.uptime = Uptime
                               /\ Printed(l)
      <4>1. Prints(<<Line("started", q)>>)
        BY <2>6 DEF StartTx
      <4>2. "started" \in Bodies
        BY DEF Bodies
      <4> QED BY <4>1, <4>2, LineSaid
    <3>2. radio' = q /\ UNCHANGED <<sent, ontime>> /\ (q = p => p \in DOMAIN work)
      BY <1>0, <2>6 DEF StartTx
    <3>3. console' = Append(console, l) /\ ~missed
          /\ Traced(log, console, radio, sent[p], ontime[p], clock, p)
      BY <1>1, <2>1, <3>1
    <3>4. ActOf(l, log.lastTx, console, p) => Awaited(log, console, Uptime, clock, p)
      BY <2>2, <3>1, <3>2, <3>3 DEF ActOf
    <3> QED BY <3>1, <3>2, <3>3, <3>4, TracedSaid
  <2>7. CASE PrintAirtime
    <3>1. PICK l \in LineSet : /\ l.body = "airtime" /\ l.pkt = Other /\ l.uptime = Uptime
                               /\ Printed(l)
      <4>1. Prints(<<Line("airtime", Other)>>)
        BY <2>7 DEF PrintAirtime
      <4>2. "airtime" \in Bodies
        BY DEF Bodies
      <4> QED BY <4>1, <4>2, LineSaid
    <3>2. console' = Append(console, l) /\ ~missed
          /\ Traced(log, console, radio, sent[p], ontime[p], clock, p)
      BY <1>1, <2>1, <3>1
    <3>3. OnAir(log.lastTx, console, Len(console) + 1, p) <=> radio = p
      BY <2>7, <3>2 DEF PrintAirtime, Traced, OnRadio
    <3>4. radio = p => p \in DOMAIN work
      BY <2>7 DEF PrintAirtime, Typed
    <3>5. ActOf(l, log.lastTx, console, p) => Awaited(log, console, Uptime, clock, p)
      BY <2>2, <3>1, <3>2, <3>3, <3>4 DEF ActOf
    <3>6. radio' = radio /\ sent' = sent
          /\ ontime'[p] = IF radio = p THEN ontime[p] + 1 ELSE ontime[p]
      BY <1>0, <2>7 DEF PrintAirtime, Count
    <3>7. ontime'[p] = IF l.body = "airtime" /\ OnAir(log.lastTx, console, Len(console) + 1, p)
                       THEN ontime[p] + 1 ELSE ontime[p]
      BY <3>1, <3>3, <3>6
    <3> QED BY <3>1, <3>2, <3>5, <3>6, <3>7, TracedSaid
  <2>8. CASE CompleteTx
    <3>0. radio \in Pkt \cup {Other} /\ (radio = p => p \in DOMAIN work)
      BY <2>8 DEF CompleteTx, Typed
    <3>1. PICK l \in LineSet : /\ l.body = "done" /\ l.pkt = radio /\ l.uptime = Uptime
                               /\ Printed(l)
      <4>1. Prints(<<Line("done", radio)>>)
        BY <2>8 DEF CompleteTx
      <4>2. "done" \in Bodies
        BY DEF Bodies
      <4> QED BY <3>0, <4>1, <4>2, LineSaid
    <3>2. console' = Append(console, l) /\ ~missed
          /\ Traced(log, console, radio, sent[p], ontime[p], clock, p)
      BY <1>1, <2>1, <3>1
    <3>3. radio' = Nothing /\ ontime' = ontime
          /\ sent'[p] = IF radio = p THEN sent[p] + 1 ELSE sent[p]
      BY <1>0, <2>8 DEF CompleteTx, Count
    <3>4. ActOf(l, log.lastTx, console, p) => Awaited(log, console, Uptime, clock, p)
      BY <2>2, <3>0, <3>1, <3>2 DEF ActOf
    <3> QED BY <3>1, <3>2, <3>3, <3>4, TracedSaid
  <2>9. CASE Reboot
    <3>1. Printed(BootLine) /\ radio' = Nothing /\ UNCHANGED <<sent, ontime>>
      BY <2>9, BootLineIs, PrintsIs DEF Reboot, BootLine
    <3>2. console' = Append(console, BootLine)
          /\ Traced(log, console, radio, sent[p], ontime[p], clock, p)
      BY <1>1, <2>1, <3>1
    <3>3. BootLine \in LineSet /\ BootLine.body = "boot"
      BY BootLineIs
    <3>4. ~ActOf(BootLine, log.lastTx, console, p)
      BY <3>3 DEF ActOf
    <3> QED BY <3>1, <3>2, <3>3, <3>4, TracedSaid
  <2> QED BY <2>3, <2>4, <2>5, <2>6, <2>7, <2>8, <2>9 DEF NodeStep
<1> QED BY <1>2, <1>3

\* What the balance of a packet handed over once says.
LEMMA BalanceTells ==
    ASSUME NEW s \in LogState, NEW c \in Seq(LineSet), NEW p \in Pkt,
           Balance(s, p) + ToCome(c, p) = 1
    PROVE  Balance(s, p) <= 1 /\ (Handings(c, p) # {} => ~Holds(s, p))
<1>1. Balance(s, p) \in Nat /\ Len(s.published[p]) \in Nat
  BY BalanceIs
<1>2. ToCome(c, p) \in Nat /\ (Handings(c, p) = {} <=> ToCome(c, p) = 0)
  BY TellsFinite DEF ToCome, Handings
<1>3. PICK m \in Nat : m = Len(s.published[p])
  BY <1>1
<1>4. Balance(s, p) = m + (IF Holds(s, p) THEN 1 ELSE 0)
  BY <1>3 DEF Balance
<1>5. Balance(s, p) <= 1 /\ (Holds(s, p) => ToCome(c, p) = 0)
  BY <1>2, <1>4
<1> QED BY <1>2, <1>5

LEMMA TracedFed ==
    ASSUME Budget < Expiry, Typed, LinesTrue, CountInv, BootInv, FollowInv, VerdictInv,
           OverInv, TraceInv, FeedLine, NEW p \in Pkt, handed[p] = 1, ~missed
    PROVE  /\ Traced(log', console', radio, sent[p], ontime[p], clock, p)
           /\ Head(console).body = "started" /\ Head(console).pkt = p =>
                  Holds(Noting(Head(console)), p)
<1> DEFINE k == Head(console)
<1>0. /\ console # <<>> /\ console' = Tail(console) /\ console \in Seq(LineSet)
      /\ Tail(console) \in Seq(LineSet) /\ k = console[1] /\ 1 \in DOMAIN console
      /\ k \in LineSet /\ k.uptime \in Nat /\ clock \in Nat /\ log \in LogState
      /\ DOMAIN console = 1 .. Len(console)
  <2>1. console # <<>> /\ console' = Tail(console) /\ console \in Seq(LineSet)
        /\ clock \in Nat /\ log \in LogState
    BY DEF FeedLine, ReadsLine, Typed
  <2>2. Tail(console) \in Seq(LineSet) /\ k = console[1] /\ k \in LineSet
        /\ DOMAIN console = 1 .. Len(console) /\ 1 \in DOMAIN console
    BY <2>1, TailIs
  <2> QED BY <2>1, <2>2 DEF LineSet
<1>1. ~k.cut
  BY <1>0 DEF LinesTrue, TrueLine
<1> HIDE DEF k
<1>2. log' = Expired(Dispatching(k), clock)
  BY <1>1, FedIs DEF Remains, k
<1>3. /\ Noting(k) \in LogState /\ Noting(k).uptime = k.uptime
      /\ Dispatching(k) \in LogState /\ log' \in LogState
  BY <1>0, <1>2, FedTyped
<1>4. Balance(log, p) + ToCome(console, p) = 1
  BY DEF CountInv
<1>5. Traced(Noting(k), console, radio, sent[p], ontime[p], clock, p)
  <2>1. Balance(log, p) <= 1
    BY <1>0, <1>4, BalanceTells
  <2>2. radio = p /\ Handings(console, p) = {} => log.uptime <= k.uptime
    <3> SUFFICES ASSUME radio = p, Handings(console, p) = {} PROVE log.uptime <= k.uptime
      OBVIOUS
    <3>1. p \in DOMAIN work
      BY LogAssumption DEF Typed
    <3>2. Awaited(log, console, Uptime, clock, p)
      BY <3>1, WorkAwaited
    <3> QED BY <1>0, <3>2 DEF Awaited, Fresh
  <2>3. Traced(log, console, radio, sent[p], ontime[p], clock, p)
    BY DEF TraceInv
  <2>4. k.uptime = Head(console).uptime
    BY DEF k
  <2> QED BY <1>0, <2>1, <2>2, <2>3, <2>4, TracedNoted DEF Noting
<1>6. Balance(Noting(k), p) + ToCome(console, p) = 1
  <2>1. Balance(Noting(k), p) = Balance(log, p)
    BY <1>0, <1>3, NotedFate, BalanceIs DEF Noting
  <2> QED BY <1>4, <2>1
<1>7. /\ Traced(Dispatching(k), Tail(console), radio, sent[p], ontime[p], clock, p)
      /\ k.body = "started" /\ k.pkt = p => Holds(Noting(k), p)
  <2>1. k = Head(console)
    BY DEF k
  <2> QED BY <1>0, <1>3, <1>5, <1>6, <2>1, TracedDispatched DEF Dispatching
<1>8. Balance(Dispatching(k), p) + ToCome(Tail(console), p) = 1
  <2>1. Balance(log', p) = Balance(Dispatching(k), p)
    BY <1>0, <1>2, <1>3, ExpiredFate, BalanceIs
  <2>2. Balance(log', p) + ToCome(console', p) = 1
    BY CountFed DEF CountOf
  <2> QED BY <1>0, <2>1, <2>2
<1>9. Balance(Dispatching(k), p) <= 1 /\ (Handings(Tail(console), p) # {} => ~Holds(Dispatching(k), p))
  BY <1>0, <1>3, <1>8, BalanceTells
<1>10. Traced(log', console', radio, sent[p], ontime[p], clock, p)
  BY <1>0, <1>2, <1>3, <1>7, <1>9, TracedExpired
<1> QED BY <1>7, <1>10 DEF k

LEMMA TraceStep ==
    ASSUME Budget < Expiry
    PROVE  Typed /\ LinesTrue /\ CountInv /\ BootInv /\ FollowInv /\ VerdictInv /\ OverInv
              /\ TraceInv /\ [Next]_vars => TraceInv'
<1> SUFFICES ASSUME Typed, LinesTrue, CountInv, BootInv, FollowInv, VerdictInv, OverInv,
                    TraceInv, [Next]_vars, NEW p \in Pkt, handed'[p] = 1, ~missed'
             PROVE  Traced(log', console', radio', sent'[p], ontime'[p], clock', p)
  BY DEF TraceInv, Traced, Announced, Lively, Tallied, OnRadio, Acts, Airs, OnAir, Starts,
         Quiet, Rising, Handings, Dones, Acks, TellsOf, Holds, Tried, Heard
<1>0. log \in LogState /\ clock \in Nat /\ console \in Seq(LineSet)
  BY DEF Typed
<1>1. CASE NodeStep
  <2>1. UNCHANGED <<log, clock>>
    BY <1>1 DEF NodeStep, HandOver, GetAck, GiveUp, StartTx, PrintAirtime, CompleteTx, Reboot
  <2> QED BY <1>1, <2>1, TracedNode
<1>2. CASE ~NodeStep
  <2>0. handed' = handed
    BY <1>2 DEF Next, Tick, FeedLine, FeedNone, Port, history, vars
  <2>1. UNCHANGED <<radio, sent, ontime>>
    BY <1>2 DEF Next, Tick, FeedLine, FeedNone, Port, node, history, vars
  <2>2. ~missed => Traced(log, console, radio, sent[p], ontime[p], clock, p)
    BY <2>0 DEF TraceInv
  <2>3. CASE FeedLine
    <3>1. clock' = clock /\ missed' = missed
      BY <2>3 DEF FeedLine, ReadsLine
    <3>2. Traced(log', console', radio, sent[p], ontime[p], clock, p)
      BY <2>0, <2>3, <3>1, TracedFed
    <3> QED BY <2>1, <3>1, <3>2
  <2>4. CASE FeedNone
    <3>1. log' = Expired(log, clock) /\ UNCHANGED <<console, clock, missed>> /\ console = <<>>
      BY <2>4 DEF FeedNone, IdleTick, reader
    <3>2. Balance(log, p) <= 1 /\ (Handings(console, p) # {} => ~Holds(log, p))
      <4>1. Balance(log, p) + ToCome(console, p) = 1
        BY <2>0, <3>1 DEF CountInv
      <4> QED BY <1>0, <4>1, BalanceTells
    <3>3. Traced(log', console, radio, sent[p], ontime[p], clock, p)
      BY <1>0, <2>2, <3>1, <3>2, TracedExpired
    <3> QED BY <2>1, <3>1, <3>3
  <2>5. CASE Tick
    <3>1. console = <<>> /\ UNCHANGED <<log, console, missed>>
      BY <2>5 DEF Tick, reader
    <3>2. Acts(log.lastTx, console, p) = {}
      BY <3>1 DEF Acts, Starts, Airs, Dones, TellsOf
    <3>3. Traced(log, console, radio, sent[p], ontime[p], clock', p)
      BY <2>2, <3>1, <3>2 DEF Traced, Lively
    <3> QED BY <2>1, <3>1, <3>3
  <2>6. CASE Port
    <3>1. UNCHANGED <<log, clock>>
      BY <2>6 DEF Port
    <3>2. console' = console /\ ~missed
      BY <2>6 DEF Port, Opens, OpenFails, ReadFails, Cut, reader, Typed
    <3> QED BY <2>1, <2>2, <3>1, <3>2
  <2>7. CASE UNCHANGED vars
    <3>1. UNCHANGED <<log, console, clock, missed>>
      BY <2>7 DEF vars, reader
    <3> QED BY <2>1, <2>2, <3>1
  <2> QED BY <1>2, <2>3, <2>4, <2>5, <2>6, <2>7 DEF Next
<1> QED BY <1>1, <1>2

LEMMA InitTrace == Init => TraceInv
BY DEF Init, TraceInv

\* The traffic that is not the PBX's --------------------------------------------------------
\* What the tracker counts as not originated by the PBX, with what it has still to
\* read of it, is the node's own traffic.
OtherInv ==
    ~missed /\ (\A p \in Pkt : handed[p] <= 1) =>
        log.txOther + Cardinality(Starts(console, Other)) = own

LEMMA NothingStarted ==
    ASSUME Typed, NodeStep, \A q \in Pkt \cup {Other} : ~StartTx(q)
    PROVE  /\ UNCHANGED <<log, own>>
           /\ \/ UNCHANGED <<console, missed>>
              \/ \E l \in LineSet : l.body # "started" /\ Printed(l)
<1>1. ASSUME NEW b \in Bodies, NEW q \in Pkt \cup {Other}, b # "started",
             b \in {"handed", "acked"} => q \in Pkt, Prints(<<Line(b, q)>>)
      PROVE  \E l \in LineSet : l.body # "started" /\ Printed(l)
  BY <1>1, LineSaid
<1>2. ASSUME NEW q \in Pkt, HandOver(q)
      PROVE  UNCHANGED <<log, own>> /\ \E l \in LineSet : l.body # "started" /\ Printed(l)
  BY <1>1, <1>2 DEF HandOver, Bodies
<1>3. ASSUME NEW q \in Pkt, GetAck(q)
      PROVE  UNCHANGED <<log, own>> /\ \E l \in LineSet : l.body # "started" /\ Printed(l)
  BY <1>1, <1>3 DEF GetAck, Bodies
<1>4. ASSUME NEW q \in Pkt, GiveUp(q) PROVE UNCHANGED <<log, own, console, missed>>
  BY <1>4 DEF GiveUp, reader, history
<1>5. CASE PrintAirtime
  BY <1>1, <1>5 DEF PrintAirtime, Bodies
<1>6. CASE CompleteTx
  <2>1. radio \in Pkt \cup {Other} /\ Prints(<<Line("done", radio)>>) /\ UNCHANGED <<log, own>>
    BY <1>6 DEF CompleteTx, Typed
  <2> QED BY <1>1, <2>1 DEF Bodies
<1>7. CASE Reboot
  <2>1. Printed(BootLine) /\ UNCHANGED <<log, own>>
    BY <1>7, BootLineIs, PrintsIs DEF Reboot, BootLine
  <2>2. BootLine \in LineSet /\ BootLine.body # "started"
    BY BootLineIs
  <2> QED BY <2>1, <2>2
<1> QED BY <1>2, <1>3, <1>4, <1>5, <1>6, <1>7 DEF NodeStep

LEMMA OtherStep ==
    ASSUME Budget < Expiry
    PROVE  Typed /\ LinesTrue /\ CountInv /\ BootInv /\ FollowInv /\ VerdictInv /\ OverInv
              /\ TraceInv /\ OtherInv /\ [Next]_vars => OtherInv'
<1> SUFFICES ASSUME Typed, LinesTrue, CountInv, BootInv, FollowInv, VerdictInv, OverInv,
                    TraceInv, OtherInv, [Next]_vars, ~missed', \A p \in Pkt : handed'[p] <= 1
             PROVE  log'.txOther + Cardinality(Starts(console', Other)) = own'
  BY DEF OtherInv, Starts, TellsOf
<1> DEFINE N == Cardinality(Starts(console, Other))
           M == Cardinality(Starts(console', Other))
           Booked == log'.txOther + M = own'
<1>0. /\ log \in LogState /\ clock \in Nat /\ console \in Seq(LineSet) /\ Other \notin Pkt
      /\ handed \in [Pkt -> Nat] /\ log.txOther \in Nat /\ N \in Nat
  BY LogAssumption, TellsFinite DEF Typed, LogState, Starts
<1>1. ~missed /\ \A p \in Pkt : handed[p] <= 1
  <2>1. handed' \in [Pkt -> Nat] /\ Grown
    BY TypedStep, HistoryGrows DEF Typed
  <2>2. \A p \in Pkt : handed[p] <= handed'[p]
    BY <2>1 DEF Grown
  <2>3. \A p \in Pkt : handed[p] \in Nat /\ handed'[p] \in Nat
    BY <1>0, <2>1
  <2> QED BY <2>1, <2>2, <2>3 DEF Grown
<1>2. log.txOther + N = own
  BY <1>1 DEF OtherInv
<1>3. ASSUME NEW l \in LineSet, console' = Append(console, l)
      PROVE  M = IF l.body = "started" /\ l.pkt = Other THEN N + 1 ELSE N
  BY <1>0, <1>3, TellsAppended DEF Starts
<1> SUFFICES Booked
  OBVIOUS
<1> HIDE DEF N, M
<1>4. ASSUME NEW q \in Pkt \cup {Other}, StartTx(q) PROVE Booked
  <2>1. PICK l \in LineSet : l.body = "started" /\ l.pkt = q /\ Printed(l)
    <3>1. Prints(<<Line("started", q)>>)
      BY <1>4 DEF StartTx
    <3>2. "started" \in Bodies
      BY DEF Bodies
    <3> QED BY <3>1, <3>2, LineSaid
  <2>2. log' = log /\ own' = IF q = Other THEN own + 1 ELSE own
    BY <1>4 DEF StartTx
  <2>3. M = IF q = Other THEN N + 1 ELSE N
    BY <1>3, <2>1 DEF Printed
  <2> QED BY <1>0, <1>2, <2>2, <2>3
<1>5. CASE NodeStep /\ \A q \in Pkt \cup {Other} : ~StartTx(q)
  <2>1. UNCHANGED <<log, own>>
    BY <1>5, NothingStarted
  <2>2. CASE console' = console
    BY <1>2, <2>1, <2>2 DEF N, M
  <2>3. ASSUME NEW l \in LineSet, l.body # "started", Printed(l) PROVE M = N
    <3>1. console' = Append(console, l)
      BY <2>3 DEF Printed
    <3> QED BY <1>3, <2>3, <3>1
  <2> QED BY <1>2, <1>5, <2>1, <2>2, <2>3, NothingStarted
<1>6. CASE FeedLine
  <2> DEFINE k == Head(console)
  <2>1. /\ console # <<>> /\ console' = Tail(console) /\ own' = own
        /\ k = console[1] /\ 1 \in DOMAIN console /\ k \in LineSet
    <3>1. console # <<>> /\ console' = Tail(console) /\ own' = own
      BY <1>6 DEF FeedLine, ReadsLine, history
    <3> QED BY <1>0, <3>1, TailIs
  <2>2. TrueLine(k, missed, handed, sent, ackd)
    BY <2>1 DEF LinesTrue
  <2>3. N = IF k.body = "started" /\ k.pkt = Other THEN M + 1 ELSE M
    BY <1>0, <2>1, TellsTail DEF Starts, N, M
  <2>4. M \in Nat
    <3>1. console' \in Seq(LineSet)
      BY <1>0, <2>1, TailIs
    <3> QED BY <3>1, TellsFinite DEF Starts, M
  <2>5. ASSUME k.body = "started", k.pkt \in Pkt PROVE Holds(Noting(k), k.pkt)
    <3>1. handed[k.pkt] = 1
      <4>1. handed[k.pkt] > 0 /\ handed[k.pkt] <= 1 /\ handed[k.pkt] \in Nat
        BY <1>0, <1>1, <2>2, <2>5 DEF TrueLine
      <4> QED BY <4>1
    <3> QED BY <1>1, <1>6, <2>5, <3>1, TracedFed
  <2> HIDE DEF k
  <2>6. log' = Expired(Dispatching(k), clock)
    BY <1>1, <1>6, <2>2, FedIs DEF Remains, TrueLine, k
  <2>7. Noting(k) \in LogState /\ ~Holds(Noting(k), Other)
    BY <1>0, <2>1, FedTyped, HeldIs
  <2>8. log'.txOther = IF k.body = "started" /\ ~Holds(Noting(k), k.pkt)
                       THEN log.txOther + 1 ELSE log.txOther
    BY <1>0, <2>1, <2>6, <2>7, FedLast, DispatchedLast DEF Dispatching
  <2>9. k.pkt \in Pkt \cup {Other}
    BY <2>1 DEF LineSet
  <2>10. log'.txOther = IF k.body = "started" /\ k.pkt = Other
                        THEN log.txOther + 1 ELSE log.txOther
    BY <1>0, <2>5, <2>7, <2>8, <2>9
  <2>11. own' = own /\ own = log.txOther + N /\ log.txOther \in Nat
    BY <1>0, <1>2, <2>1
  <2>12. CASE k.body = "started" /\ k.pkt = Other
    <3>1. log'.txOther = log.txOther + 1 /\ N = M + 1
      BY <2>3, <2>10, <2>12
    <3>2. (log.txOther + 1) + M = log.txOther + (M + 1)
      BY <2>4, <2>11
    <3> QED BY <2>11, <3>1, <3>2
  <2>13. CASE ~(k.body = "started" /\ k.pkt = Other)
    BY <2>3, <2>10, <2>11, <2>13
  <2> QED BY <2>12, <2>13
<1>7. CASE FeedNone
  <2>1. log' = Expired(log, clock) /\ UNCHANGED <<console, own>>
    BY <1>7 DEF FeedNone, IdleTick, reader, history
  <2>2. log'.txOther = log.txOther
    BY <1>0, <2>1, ExpiredIs DEF Rest
  <2> QED BY <1>2, <2>1, <2>2 DEF N, M
<1>8. CASE Tick \/ Port \/ UNCHANGED vars
  <2>1. UNCHANGED <<log, own>>
    BY <1>8 DEF Tick, Port, history, vars
  <2>2. console' = console
    BY <1>8 DEF Tick, Port, Opens, OpenFails, ReadFails, Cut, reader, vars, Typed
  <2> QED BY <1>2, <2>1, <2>2 DEF N, M
<1>9. \/ \E q \in Pkt \cup {Other} : StartTx(q)
      \/ NodeStep /\ \A q \in Pkt \cup {Other} : ~StartTx(q)
      \/ FeedLine \/ FeedNone \/ Tick \/ Port \/ UNCHANGED vars
  BY DEF Next
<1> QED BY <1>4, <1>5, <1>6, <1>7, <1>8, <1>9

LEMMA InitOther == Init => OtherInv
<1> SUFFICES ASSUME Init PROVE log.txOther + Cardinality(Starts(console, Other)) = own
  BY DEF OtherInv
<1>1. log.txOther = 0 /\ own = 0 /\ console = <<>>
  BY DEF Init, ReaderInit, InitialLog
<1>2. Starts(console, Other) = {}
  BY <1>1 DEF Starts, TellsOf
<1> QED BY <1>1, <1>2, FS_EmptySet

LEMMA TracedIsExact ==
    Typed /\ CountInv /\ TraceInv /\ OtherInv => AttributionExact
<1> SUFFICES ASSUME Typed, CountInv, TraceInv, OtherInv, ~missed PROVE AttributionExact
  BY DEF AttributionExact
<1>0. log \in LogState /\ console \in Seq(LineSet)
  BY DEF Typed
<1>1. ASSUME NEW p \in Pkt, NEW i \in DOMAIN log.published[p], handed[p] = 1
      PROVE  /\ log.published[p][i].attempts = sent[p]
             /\ log.published[p][i].airtime = ontime[p]
  <2>1. log.published[p] \in Seq(Entry)
    BY <1>0 DEF LogState, Reported
  <2>2. PICK m \in Nat : m = Len(log.published[p]) /\ i \in 1 .. m
    BY <2>1
  <2>3. Balance(log, p) + ToCome(console, p) = 1 /\ ToCome(console, p) \in Nat
        /\ (ToCome(console, p) = 0 => Handings(console, p) = {})
    BY <1>0, <1>1, TellsFinite DEF CountInv, ToCome, Handings
  <2>4. Balance(log, p) = m + (IF Holds(log, p) THEN 1 ELSE 0)
    BY <2>2 DEF Balance
  <2>5. m = 1 /\ ~Holds(log, p) /\ ToCome(console, p) = 0
    <3>1. PICK h \in {0, 1} : h = IF Holds(log, p) THEN 1 ELSE 0
      OBVIOUS
    <3>2. PICK b \in Nat : b = ToCome(console, p)
      BY <2>3
    <3>3. m + h + b = 1
      BY <2>3, <2>4, <3>1, <3>2
    <3>4. m >= 1
      BY <2>2
    <3>5. m = 1 /\ h = 0 /\ b = 0
      BY <3>3, <3>4
    <3> QED BY <3>1, <3>2, <3>5
  <2>6. i = 1 /\ log.published[p] # <<>>
    BY <2>2, <2>5
  <2>7. Traced(log, console, radio, sent[p], ontime[p], clock, p)
    BY <1>1 DEF TraceInv
  <2>8. Acts(log.lastTx, console, p) = {}
    BY <2>3, <2>5, <2>7 DEF Traced, Announced
  <2>9. Cardinality(Dones(console, p)) = 0 /\ Cardinality(Airs(log.lastTx, console, p)) = 0
    BY <2>8, FS_EmptySet DEF Acts
  <2>10. Tried(log, p) \in Nat /\ Heard(log, p) \in Nat
    BY <1>0, TallyIs
  <2>11. sent[p] = Tried(log, p) /\ ontime[p] = Heard(log, p)
    BY <2>7, <2>9, <2>10 DEF Traced, Tallied
  <2> QED BY <2>5, <2>6, <2>11 DEF Tried, Heard
<1>2. ASSUME console = <<>>, \A p \in Pkt : handed[p] <= 1 PROVE log.txOther = own
  <2>1. Starts(console, Other) = {}
    BY <1>2 DEF Starts, TellsOf
  <2>2. Cardinality(Starts(console, Other)) = 0 /\ log.txOther \in Nat
    BY <1>0, <2>1, FS_EmptySet DEF LogState
  <2> QED BY <1>2, <2>2 DEF OtherInv
<1> QED BY <1>1, <1>2 DEF AttributionExact

\* Every transmission is booked where it belongs, as long as the node never takes
\* longer over a step of a packet's life than expiry_sec: what the tracker publishes
\* of a packet handed over once has each of its transmissions and airtimes, though
\* no airtime line names its packet, and what it counts as traffic not originated
\* by the PBX is the node's own.
THEOREM AttributionIsExact ==
    ASSUME Budget < Expiry
    PROVE  Spec => []AttributionExact
<1> DEFINE IInv == BootInv /\ FollowInv /\ VerdictInv /\ OverInv /\ TraceInv /\ OtherInv
<1>1. Init => IInv
  <2>1. Init => VerdictInv
    BY DEF Init, InitialLog, VerdictInv, Says
  <2> QED BY <2>1, InitBoot, InitFollow, InitOver, InitTrace, InitOther
<1>2. (Typed /\ LinesTrue /\ CountInv) /\ IInv /\ [Next]_vars => IInv'
  BY BootStep, FollowStep, VerdictStep, OverStep, TraceStep, OtherStep
<1> HIDE DEF IInv
<1>3. (Typed /\ LinesTrue /\ CountInv) /\ IInv => AttributionExact
  BY TracedIsExact DEF IInv
<1> QED BY <1>1, <1>2, <1>3, Counts, PTL DEF Spec

\* What a reboot loses ----------------------------------------------------------------------
\* What becomes of a packet handed over once: the node works on it, or has seen it
\* through, or has left it unfinished.
FateInv ==
    \A p \in Pkt : handed[p] = 1 =>
        \/ p \in DOMAIN work \cup ackd \cup abandoned
        \/ p \notin WantAck /\ sent[p] > 0

LEMMA FateStep == Typed /\ LinesTrue /\ FateInv /\ [Next]_vars => FateInv'
<1> SUFFICES ASSUME Typed, LinesTrue, FateInv, [Next]_vars, NEW p \in Pkt, handed'[p] = 1
             PROVE  \/ p \in DOMAIN work' \cup ackd' \cup abandoned'
                    \/ p \notin WantAck /\ sent'[p] > 0
  BY DEF FateInv
<1>0. /\ handed \in [Pkt -> Nat] /\ sent \in [Pkt -> Nat] /\ sent' \in [Pkt -> Nat]
      /\ sent[p] <= sent'[p] /\ ackd \subseteq ackd'
  BY TypedStep, HistoryGrows DEF Typed, Grown
<1>1. CASE HandOver(p)
  BY <1>1 DEF HandOver, With
<1>2. CASE ~HandOver(p)
  <2>1. handed[p] = 1
    BY <1>2, HandedBySelf
  <2>2. \/ p \in DOMAIN work \cup ackd \cup abandoned
        \/ p \notin WantAck /\ sent[p] > 0
    BY <2>1 DEF FateInv
  <2>3. p \notin WantAck /\ sent[p] > 0 => sent'[p] > 0
    BY <1>0
  <2>4. abandoned \subseteq abandoned'
    BY DEF Next, NodeStep, HandOver, GetAck, GiveUp, StartTx, PrintAirtime, CompleteTx,
           Reboot, Tick, FeedLine, FeedNone, Port, history, vars
  <2>5. ASSUME p \in DOMAIN work
        PROVE  \/ p \in DOMAIN work' \cup ackd' \cup abandoned'
               \/ p \notin WantAck /\ sent'[p] > 0
    <3>1. ASSUME NEW q \in Pkt, HandOver(q) PROVE p \in DOMAIN work'
      BY <2>5, <3>1 DEF HandOver, With
    <3>2. ASSUME NEW q \in Pkt, GetAck(q) PROVE p \in DOMAIN work' \cup ackd'
      BY <2>5, <3>2, RestrictIs DEF GetAck
    <3>3. ASSUME NEW q \in Pkt, GiveUp(q) PROVE p \in DOMAIN work' \cup abandoned'
      BY <2>5, <3>3, RestrictIs DEF GiveUp
    <3>4. CASE Reboot
      BY <2>5, <3>4 DEF Reboot
    <3>5. CASE CompleteTx /\ radio \in WantAck
      BY <2>5, <3>5 DEF CompleteTx
    <3>6. CASE CompleteTx /\ radio \notin WantAck
      <4>1. p # radio => p \in DOMAIN work'
        BY <2>5, <3>6, RestrictIs DEF CompleteTx
      <4>2. p = radio => sent'[p] > 0
        BY <1>0, <3>6, CountIs DEF CompleteTx
      <4> QED BY <3>6, <4>1, <4>2
    <3>7. \/ \E q \in Pkt : HandOver(q) \/ GetAck(q) \/ GiveUp(q)
          \/ Reboot \/ CompleteTx \/ work' = work
      BY DEF Next, NodeStep, StartTx, PrintAirtime, Tick, FeedLine, FeedNone, Port, node, vars
    <3> QED BY <2>5, <3>1, <3>2, <3>3, <3>4, <3>5, <3>6, <3>7
  <2> QED BY <1>0, <2>2, <2>3, <2>4, <2>5
<1> QED BY <1>1, <1>2

\* A packet that wants no acknowledgement leaves with its first transmission.
OnceInv ==
    \A p \in Pkt \ WantAck : Holds(log, p) => log.inflight[p].attempts = 0

LEMMA OnceStep == Typed /\ OnceInv /\ [Next]_vars => OnceInv'
<1> SUFFICES ASSUME Typed, OnceInv, [Next]_vars, NEW p \in Pkt \ WantAck, Holds(log', p)
             PROVE  log'.inflight[p].attempts = 0
  BY DEF OnceInv, Holds
<1>0. log \in LogState /\ clock \in Nat
  BY DEF Typed
<1>1. ASSUME NEW s \in LogState, log' = Expired(s, clock),
             Holds(s, p) => s.inflight[p].attempts = 0
      PROVE  log'.inflight[p].attempts = 0
  <2>1. Kept(s, log', p)
    BY <1>0, <1>1, ExpiredFate DEF Resolved
  <2> QED BY <1>1, <2>1 DEF Kept
<1>2. ASSUME NEW k \in LineSet, log' = Expired(Dispatching(k), clock)
      PROVE  log'.inflight[p].attempts = 0
  <2> DEFINE s == Noting(k)
             t == Dispatching(k)
  <2>0. s \in LogState /\ t \in LogState /\ k.uptime \in Nat
    BY FedTyped DEF LineSet
  <2>1. s = Noted(log, k.uptime) /\ t = Dispatched(s, k, clock) /\ log' = Expired(t, clock)
    BY <1>2 DEF Noting, Dispatching
  <2> HIDE DEF s, t
  <2>2. Holds(s, p) => s.inflight[p].attempts = 0
    <3>1. Kept(log, s, p) \/ ~Holds(s, p)
      BY <1>0, <2>0, <2>1, NotedFate DEF Resolved
    <3> QED BY <3>1 DEF OnceInv, Kept
  <2>3. Holds(t, p) => t.inflight[p].attempts = 0
    <3>1. \/ Kept(s, t, p) \/ Begun(s, t, p, k.uptime, clock) \/ ~Holds(t, p)
      BY <1>0, <2>0, <2>1, DispatchedFate DEF Resolved
    <3> QED BY <2>2, <3>1 DEF Kept, Begun, Record
  <2> QED BY <1>1, <2>0, <2>1, <2>3
<1>3. CASE FeedLine
  <2>1. log' = log \/ \E k \in LineSet : log' = Expired(Dispatching(k), clock)
    BY <1>3, FedIs DEF Remains
  <2> QED BY <1>2, <2>1 DEF OnceInv
<1>4. CASE FeedNone
  BY <1>0, <1>1, <1>4 DEF FeedNone, OnceInv
<1>5. CASE log' = log
  BY <1>5 DEF OnceInv
<1> QED BY <1>3, <1>4, <1>5 DEF Next, Tick, NodeStep, HandOver, GetAck, GiveUp,
           StartTx, PrintAirtime, CompleteTx, Reboot, Port, vars

\* No reboot shows between the handing of p, or what was last fed of its record,
\* and a line on p still to be read.
Ends(c, p) == Dones(c, p) \cup Acks(c, p)
SameBoot(s, c, i, p) ==
    /\ Holds(s, p) => s.uptime <= c[1].uptime /\ Rising(c, 1, i)
    /\ \A h \in Handings(c, p) : Rising(c, h, i)

EndsInv ==
    \A p \in Pkt : handed[p] = 1 /\ ~missed =>
        \A i \in Ends(console, p) : SameBoot(log, console, i, p)

LEMMA EndsFed ==
    ASSUME Typed, LinesTrue, EndsInv, FeedLine, NEW p \in Pkt, handed[p] = 1, ~missed,
           NEW i \in Ends(console', p)
    PROVE  SameBoot(log', console', i, p)
<1> DEFINE c == console
           d == console'
           k == Head(console)
<1>0. /\ c # <<>> /\ c \in Seq(LineSet) /\ d = Tail(c) /\ k = c[1] /\ k \in LineSet
      /\ Len(c) \in Nat /\ DOMAIN c = 1 .. Len(c) /\ DOMAIN d = 1 .. Len(c) - 1
      /\ \A j \in DOMAIN d : d[j] = c[j + 1]
  <2>1. c # <<>> /\ d = Tail(c) /\ c \in Seq(LineSet)
    BY DEF FeedLine, ReadsLine, Typed
  <2> QED BY <2>1, TailIs
<1>1. i \in 1 .. Len(c) - 1 /\ i + 1 \in Ends(c, p)
  BY <1>0 DEF Ends, Dones, Acks, TellsOf
<1>2. SameBoot(log, c, i + 1, p)
  BY <1>1 DEF EndsInv
<1>3. log' = Expired(Dispatching(k), clock) /\ log'.uptime = c[1].uptime
  <2>1. ~k.cut
    BY <1>0 DEF LinesTrue, TrueLine
  <2>2. log' = Expired(Dispatching(k), clock)
    BY <2>1, FedIs DEF Remains
  <2> QED BY <1>0, <2>2, FedTyped
<1> HIDE DEF k, c, d
<1>4. ASSUME NEW h \in 1 .. Len(c), h <= i, Rising(c, h, i + 1)
      PROVE  Rising(d, h, i)
  <2>1. Rising(c, h + 1, i + 1)
    BY <1>0, <1>1, <1>4 DEF Rising
  <2> QED BY <1>0, <1>1, <2>1, RisingTail
<1>5. ASSUME Holds(log', p)
      PROVE  log'.uptime <= d[1].uptime /\ Rising(d, 1, i)
  <2>1. Rising(c, 1, i + 1)
    <3>1. Holds(log, p) \/ (k.body = "handed" /\ k.pkt = p)
      BY <1>0, <1>3, <1>5, FedHolds
    <3>2. k.body = "handed" /\ k.pkt = p => 1 \in Handings(c, p)
      BY <1>0, <1>1 DEF Handings, TellsOf
    <3> QED BY <1>2, <3>1, <3>2 DEF SameBoot
  <2>2. c[1].uptime <= c[2].uptime
    <3>1. 1 \in 1 .. i + 1 /\ 2 \in 1 .. i + 1
      BY <1>1
    <3> QED BY <2>1, <3>1 DEF Rising
  <2>3. d[1] = c[2]
    BY <1>0, <1>1
  <2> QED BY <1>0, <1>1, <1>3, <1>4, <2>1, <2>2, <2>3
<1>6. ASSUME NEW h \in Handings(d, p) PROVE Rising(d, h, i)
  <2>1. h \in 1 .. Len(c) - 1 /\ h + 1 \in Handings(c, p)
    BY <1>0 DEF Handings, TellsOf
  <2>2. Rising(c, h + 1, i + 1)
    BY <1>2, <2>1 DEF SameBoot
  <2> QED BY <1>0, <1>1, <2>1, <2>2, RisingTail
<1> QED BY <1>5, <1>6 DEF SameBoot, d

\* A line printed: one that ends a step of p is printed while the node works on it.
LEMMA EndsSaid ==
    ASSUME Typed, LinesTrue, CountInv, BootInv, FollowInv, VerdictInv, OverInv, EndsInv,
           NEW l \in LineSet, console' = Append(console, l), ~missed, log' = log,
           NEW p \in Pkt, handed[p] = 1 \/ handed[p] = 0,
           l.body \in {"done", "acked"} /\ l.pkt = p =>
               l.uptime = Uptime /\ p \in DOMAIN work /\ handed[p] = 1,
           NEW i \in Ends(console', p)
    PROVE  SameBoot(log', console', i, p)
<1> DEFINE c == console
           d == console'
           n == Len(console)
<1>0. /\ c \in Seq(LineSet) /\ d = Append(c, l) /\ d \in Seq(LineSet) /\ n \in Nat
      /\ Len(d) = n + 1 /\ DOMAIN d = 1 .. n + 1 /\ DOMAIN c = 1 .. n /\ d[n + 1] = l
      /\ \A j \in 1 .. n : d[j] = c[j]
  BY AppendedIs DEF Typed
<1>1. CASE i \in 1 .. n
  <2>1. i \in Ends(c, p)
    BY <1>0, <1>1 DEF Ends, Dones, Acks, TellsOf
  <2>2. SameBoot(log, c, i, p)
    <3>1. i \in DOMAIN console /\ console[i].pkt = p
      BY <2>1 DEF Ends, Dones, Acks, TellsOf
    <3>2. handed[p] # 0
      BY <3>1 DEF LinesTrue, TrueLine
    <3> QED BY <2>1, <3>2 DEF EndsInv
  <2> HIDE DEF c, d, n
  <2>3. ASSUME NEW h \in Nat, h >= 1, Rising(c, h, i) PROVE Rising(d, h, i)
    BY <1>0, <1>1, <2>3, RisingAppended DEF n
  <2>4. ASSUME NEW h \in Handings(d, p) PROVE Rising(d, h, i)
    <3>1. h \in Handings(c, p) \/ h = n + 1
      BY <1>0 DEF Handings, TellsOf
    <3>2. CASE h = n + 1
      BY <1>0, <1>1, <3>2 DEF Rising
    <3>3. CASE h \in Handings(c, p)
      <4>1. h \in 1 .. n /\ Rising(c, h, i)
        BY <1>0, <2>2, <3>3 DEF SameBoot, Handings, TellsOf
      <4> QED BY <2>3, <4>1
    <3> QED BY <3>1, <3>2, <3>3
  <2>5. Holds(log, p) => log.uptime <= d[1].uptime /\ Rising(d, 1, i)
    <3>1. d[1] = c[1]
      BY <1>0, <1>1
    <3> QED BY <2>2, <2>3, <3>1 DEF SameBoot
  <2> QED BY <2>4, <2>5 DEF SameBoot, d
<1>2. CASE i = n + 1
  <2>1. l.uptime = Uptime /\ p \in DOMAIN work /\ handed[p] = 1
    BY <1>0, <1>2 DEF Ends, Dones, Acks, TellsOf
  <2>2. Fresh(log, d, Uptime, p)
    <3>1. Fresh(log, console, Uptime, p)
      BY <2>1, WorkAwaited DEF Awaited
    <3>2. /\ Uptime \in Nat /\ log.uptime \in Int
      BY DEF Typed, Uptime, LogState, Nothing
    <3> HIDE DEF c, d, n
    <3>3. ASSUME NEW h \in 1 .. n + 1, h \in 1 .. n => Steady(c, h, Uptime)
          PROVE  Steady(d, h, Uptime)
      BY <1>0, <2>1, <3>2, <3>3, SteadyAppended DEF n
    <3>4. ASSUME NEW h \in Handings(d, p) PROVE Steady(d, h, Uptime)
      <4>1. h \in 1 .. n + 1 /\ (h \in 1 .. n => h \in Handings(c, p))
        BY <1>0 DEF Handings, TellsOf
      <4> QED BY <3>1, <3>3, <4>1 DEF Fresh, Handings, c
    <3>5. ASSUME Holds(log, p)
          PROVE  /\ Steady(d, 1, Uptime) /\ log.uptime <= Uptime
                 /\ \A j \in DOMAIN d : log.uptime <= d[j].uptime
      <4>1. /\ Steady(c, 1, Uptime) /\ log.uptime <= Uptime
            /\ \A j \in DOMAIN c : log.uptime <= c[j].uptime
        BY <3>1, <3>5 DEF Fresh, c
      <4>2. 1 \in 1 .. n + 1
        BY <1>0
      <4>3. Steady(d, 1, Uptime)
        BY <3>3, <4>1, <4>2
      <4>4. \A j \in DOMAIN d : log.uptime <= d[j].uptime
        BY <1>0, <2>1, <4>1
      <4> QED BY <4>1, <4>3, <4>4
    <3> QED BY <3>4, <3>5 DEF Fresh, Handings
  <2> HIDE DEF c, d, n
  <2>3. ASSUME NEW h \in DOMAIN d, Steady(d, h, Uptime) PROVE Rising(d, h, i)
    <3>1. h \in Nat /\ i \in 1 .. Len(d) /\ d \in Seq(LineSet)
      BY <1>0, <1>2
    <3> QED BY <2>3, <3>1, SteadyRises
  <2>4. 1 \in DOMAIN d /\ Handings(d, p) \subseteq DOMAIN d
    BY <1>0 DEF Handings, TellsOf
  <2> QED BY <2>2, <2>3, <2>4 DEF Fresh, SameBoot, Handings, d
<1>3. i \in 1 .. n \/ i = n + 1
  BY <1>0 DEF Ends, Dones, Acks, TellsOf
<1> QED BY <1>1, <1>2, <1>3

LEMMA EndsNode ==
    ASSUME Typed, LinesTrue, CountInv, BootInv, FollowInv, VerdictInv, OverInv, EndsInv,
           NodeStep, [Next]_vars, NEW p \in Pkt, handed'[p] = 1, ~missed',
           NEW i \in Ends(console', p)
    PROVE  SameBoot(log', console', i, p)
<1>0. /\ log' = log /\ handed \in [Pkt -> Nat] /\ handed[p] <= handed'[p] /\ ~missed
  <2>1. log' = log
    BY DEF NodeStep, HandOver, GetAck, GiveUp, StartTx, PrintAirtime, CompleteTx, Reboot
  <2> QED BY <2>1, HistoryGrows DEF Typed, Grown
<1>1. handed[p] = 1 \/ handed[p] = 0
  BY <1>0
<1>2. ASSUME NEW l \in LineSet, Printed(l),
             l.body \in {"done", "acked"} /\ l.pkt = p =>
                 l.uptime = Uptime /\ p \in DOMAIN work /\ handed[p] = 1
      PROVE  SameBoot(log', console', i, p)
  <2>1. console' = Append(console, l)
    BY <1>2 DEF Printed
  <2> QED BY <1>0, <1>1, <1>2, <2>1, EndsSaid
<1>3. ASSUME NEW b \in Bodies \ {"done", "acked"}, NEW q \in Pkt \cup {Other},
             b = "handed" => q \in Pkt, Prints(<<Line(b, q)>>)
      PROVE  SameBoot(log', console', i, p)
  <2>1. PICK l \in LineSet : l.body = b /\ Printed(l)
    BY <1>3, LineSaid
  <2> QED BY <1>2, <1>3, <2>1
<1>4. ASSUME NEW b \in {"done", "acked"}, NEW q \in Pkt \cup {Other},
             b = "acked" => q \in Pkt, Prints(<<Line(b, q)>>),
             q \in Pkt => q \in DOMAIN work, handed' = handed
      PROVE  SameBoot(log', console', i, p)
  <2>0. b \in Bodies /\ (b \in {"handed", "acked"} => q \in Pkt)
    BY <1>4 DEF Bodies
  <2>1. PICK l \in LineSet : l.body = b /\ l.pkt = q /\ l.uptime = Uptime /\ Printed(l)
    BY <1>4, <2>0, LineSaid
  <2>2. l.pkt = p => l.uptime = Uptime /\ p \in DOMAIN work /\ handed[p] = 1
    BY <1>4, <2>1
  <2> QED BY <1>2, <2>1, <2>2
<1>5. ASSUME NEW q \in Pkt, HandOver(q) PROVE SameBoot(log', console', i, p)
  BY <1>3, <1>5 DEF HandOver, Bodies
<1>6. ASSUME NEW q \in Pkt, GetAck(q) PROVE SameBoot(log', console', i, p)
  BY <1>4, <1>6 DEF GetAck
<1>7. ASSUME NEW q \in Pkt, GiveUp(q) PROVE SameBoot(log', console', i, p)
  BY <1>0, <1>7 DEF GiveUp, reader, EndsInv
<1>8. ASSUME NEW q \in Pkt \cup {Other}, StartTx(q) PROVE SameBoot(log', console', i, p)
  BY <1>3, <1>8 DEF StartTx, Bodies
<1>9. CASE PrintAirtime
  BY <1>3, <1>9 DEF PrintAirtime, Bodies
<1>10. CASE CompleteTx
  <2>1. radio \in Pkt \cup {Other} /\ (radio \in Pkt => radio \in DOMAIN work)
    BY <1>10 DEF CompleteTx, Typed
  <2> QED BY <1>4, <1>10, <2>1 DEF CompleteTx
<1>11. CASE Reboot
  <2>1. BootLine \in LineSet /\ BootLine.body = "boot" /\ Printed(BootLine)
    BY <1>11, BootLineIs, PrintsIs DEF Reboot, BootLine
  <2> QED BY <1>2, <2>1
<1> QED BY <1>5, <1>6, <1>7, <1>8, <1>9, <1>10, <1>11 DEF NodeStep

LEMMA EndsStep ==
    Typed /\ LinesTrue /\ CountInv /\ BootInv /\ FollowInv /\ VerdictInv /\ OverInv
       /\ EndsInv /\ [Next]_vars => EndsInv'
<1> SUFFICES ASSUME Typed, LinesTrue, CountInv, BootInv, FollowInv, VerdictInv, OverInv,
                    EndsInv, [Next]_vars, NEW p \in Pkt, handed'[p] = 1, ~missed',
                    NEW i \in Ends(console', p)
             PROVE  SameBoot(log', console', i, p)
  BY DEF EndsInv, SameBoot, Ends, Dones, Acks, Handings, TellsOf, Holds, Rising
<1>1. CASE NodeStep
  BY <1>1, EndsNode
<1>2. CASE ~NodeStep
  <2>0. handed' = handed
    BY <1>2 DEF Next, Tick, FeedLine, FeedNone, Port, history, vars
  <2>1. CASE FeedLine
    <3>1. missed' = missed
      BY <2>1 DEF FeedLine, ReadsLine
    <3> QED BY <2>0, <2>1, <3>1, EndsFed
  <2>2. CASE FeedNone
    <3>1. console' = <<>>
      BY <2>2 DEF FeedNone, IdleTick, reader
    <3> QED BY <3>1 DEF Ends, Dones, Acks, TellsOf
  <2>3. CASE Tick \/ Port \/ UNCHANGED vars
    <3>1. log' = log /\ console' = console /\ ~missed
      BY <2>3 DEF Tick, Port, Opens, OpenFails, ReadFails, Cut, reader, vars, Typed
    <3> QED BY <2>0, <3>1 DEF EndsInv
  <2> QED BY <1>2, <2>1, <2>2, <2>3 DEF Next
<1> QED BY <1>1, <1>2

\* With no line missed, what is lost to a reboot is what the node left unfinished: had
\* it been sent or acknowledged, a line of the boot that ended would have said so.
LostInv ==
    \A p \in Pkt : Says(log, p, "lost_to_reboot") /\ ~missed /\ handed[p] = 1 => p \in abandoned

LEMMA FlushIsTrue ==
    ASSUME Typed, LinesTrue, BootInv, FollowInv, OverInv, FateInv, OnceInv, EndsInv,
           NEW p \in Pkt, Holds(log, p), handed[p] = 1, ~missed,
           console # <<>>, console[1].uptime < log.uptime
    PROVE  p \in abandoned
<1>0. /\ console[1].uptime \in Nat /\ log.uptime \in Int /\ sent[p] \in Nat
      /\ ~(log.uptime <= console[1].uptime) /\ 1 \in DOMAIN console
  <2>1. console[1] \in LineSet /\ 1 \in DOMAIN console
    BY TailIs DEF Typed
  <2> QED BY <2>1 DEF Typed, LogState, Nothing, LineSet
<1>1. Ends(console, p) = {}
  BY <1>0 DEF EndsInv, SameBoot
<1>2. Followed(log, console, work, sent[p], ackd, clock, p)
  BY DEF FollowInv
<1>3. p \notin ackd
  BY <1>1, <1>2 DEF Followed, Ends
<1>4. p \notin WantAck => sent[p] = 0
  <2>1. sent[p] > 0 => log.inflight[p].attempts > 0
    BY <1>1, <1>2 DEF Followed, Ends
  <2>2. p \notin WantAck => log.inflight[p].attempts = 0
    BY DEF OnceInv
  <2>3. p \notin WantAck => ~(sent[p] > 0)
    BY <2>1, <2>2
  <2> QED BY <1>0, <2>3
<1>5. p \notin DOMAIN work
  <2>1. p \in handedAtBoot
    BY <1>0 DEF BootInv, Fresh
  <2> QED BY <2>1 DEF OverInv, Over
<1> QED BY <1>3, <1>4, <1>5 DEF FateInv

LEMMA LostStep ==
    Typed /\ LinesTrue /\ CountInv /\ BootInv /\ FollowInv /\ OverInv /\ FateInv /\ OnceInv
       /\ EndsInv /\ LostInv /\ [Next]_vars => LostInv'
<1> SUFFICES ASSUME Typed, LinesTrue, CountInv, BootInv, FollowInv, OverInv, FateInv,
                    OnceInv, EndsInv, LostInv, [Next]_vars, NEW p \in Pkt,
                    Says(log', p, "lost_to_reboot"), ~missed', handed'[p] = 1
             PROVE  p \in abandoned'
  BY DEF LostInv, Says
<1>0. /\ log \in LogState /\ clock \in Nat /\ console \in Seq(LineSet)
      /\ handed[p] \in Nat /\ handed[p] <= handed'[p] /\ ~missed
  BY HistoryGrows DEF Typed, Grown
<1>1. CASE Says(log, p, "lost_to_reboot")
  <2>1. handed[p] >= 1
    BY <1>1, SaidIsHanded
  <2>2. p \in abandoned
    BY <1>0, <1>1, <2>1 DEF LostInv
  <2>3. abandoned \subseteq abandoned'
    BY DEF Next, NodeStep, HandOver, GetAck, GiveUp, StartTx, PrintAirtime, CompleteTx,
           Reboot, Tick, FeedLine, FeedNone, Port, history, vars
  <2> QED BY <2>2, <2>3
<1>2. CASE FeedLine /\ ~Says(log, p, "lost_to_reboot")
  <2>1. /\ console # <<>> /\ UNCHANGED <<handed, abandoned>>
    BY <1>2 DEF FeedLine, ReadsLine, history
  <2>2. PICK k : Remains(Head(console), k) /\ log' = Expired(Dispatching(k), clock)
    BY <1>2, FedIs
  <2>3. k \in LineSet /\ k.uptime = console[1].uptime
    BY <1>0, <2>1, <2>2, TailIs DEF Remains
  <2>4. Says(Expired(Dispatching(k), clock), p, "lost_to_reboot")
    BY <2>2
  <2>5. ~Timed(Dispatching(k), clock, p, "lost_to_reboot")
    BY DEF Timed
  <2>6. Holds(log, p) /\ k.uptime < log.uptime
    BY <1>2, <2>3, <2>4, <2>5, FedSays
  <2> QED BY <1>0, <2>1, <2>3, <2>6, FlushIsTrue
<1>3. CASE FeedNone /\ ~Says(log, p, "lost_to_reboot")
  <2>1. log' = Expired(log, clock)
    BY <1>3 DEF FeedNone
  <2>2. Timed(log, clock, p, "lost_to_reboot")
    BY <1>0, <1>3, <2>1, ExpiredSays
  <2> QED BY <2>2 DEF Timed
<1>4. CASE log' = log
  BY <1>1, <1>4
<1> QED BY <1>1, <1>2, <1>3, <1>4 DEF Next, Tick, NodeStep, HandOver, GetAck, GiveUp,
           StartTx, PrintAirtime, CompleteTx, Reboot, Port, vars

LEMMA VerdictsAre == VerdictInv /\ LostInv => VerdictsTrue
<1> SUFFICES ASSUME VerdictInv, LostInv, NEW p \in Pkt, NEW i \in DOMAIN log.published[p],
                    NEW o, o = log.published[p][i].outcome
             PROVE  /\ o = "acked" => p \in ackd
                    /\ o = "sent" => sent[p] > 0 /\ p \notin WantAck
                    /\ o = "lost_to_reboot" => p \in handedAtBoot
                    /\ o = "lost_to_reboot" /\ ~missed /\ handed[p] = 1 => p \in abandoned
                    /\ o \in {"unacked", "dropped_before_tx"} /\ ~missed /\ handed[p] = 1 =>
                          /\ p \notin DOMAIN work \cup ackd
                          /\ o = "unacked" <=> sent[p] > 0
  BY DEF VerdictsTrue
<1>1. Says(log, p, o)
  BY DEF Says
<1>2. Verdict(p, o, work, sent[p], ackd, handedAtBoot, handed[p], missed)
  BY <1>1 DEF VerdictInv
<1> QED BY <1>1, <1>2 DEF Verdict, LostInv

\* A verdict of the collector is never a guess, as long as the node never takes
\* longer over a step of a packet's life than expiry_sec.  Whatever is lost of the
\* console, acknowledged and sent are true, and what is lost to a reboot was handed
\* over before one.  With no line missed, a packet lost to a reboot is one the node
\* left unfinished, restarting or dropping it in silence before, never one it had
\* sent or got acknowledged; and the expiry never beats a retry or an
\* acknowledgement still to come.
THEOREM VerdictsAreTrue ==
    ASSUME Budget < Expiry
    PROVE  Spec => []VerdictsTrue
<1> DEFINE IInv == /\ BootInv /\ FollowInv /\ VerdictInv /\ OverInv
                   /\ FateInv /\ OnceInv /\ EndsInv /\ LostInv
<1>1. Init => IInv
  <2>1. Init => VerdictInv /\ LostInv
    BY DEF Init, InitialLog, VerdictInv, LostInv, Says
  <2>2. Init => FateInv /\ OnceInv /\ EndsInv
    BY DEF Init, ReaderInit, InitialLog, FateInv, OnceInv, EndsInv, Holds, Ends, Dones, Acks,
           TellsOf
  <2> QED BY <2>1, <2>2, InitBoot, InitFollow, InitOver
<1>2. (Typed /\ LinesTrue /\ CountInv) /\ IInv /\ [Next]_vars => IInv'
  BY BootStep, FollowStep, VerdictStep, OverStep, FateStep, OnceStep, EndsStep, LostStep
<1> HIDE DEF IInv
<1>3. IInv => VerdictsTrue
  BY VerdictsAre DEF IInv
<1> QED BY <1>1, <1>2, <1>3, Counts, PTL DEF Spec
=============================================================================
