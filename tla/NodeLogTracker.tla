--------------------------- MODULE NodeLogTracker ---------------------------
(***************************************************************************)
(* NodeLogTracker of src/pbx/collector/node_logd.py: one record per packet *)
(* the PBX handed to the node, assembled from the node's console lines.    *)
(* A state s of the tracker is a record; Fed(s, line, now) and             *)
(* Expired(s, now) are the states after feed(line) and feed(None).         *)
(***************************************************************************)
EXTENDS Integers, Sequences, Functions

CONSTANTS Pkt,         \* ids of the packets the PBX hands over
          WantAck,     \* those handed over with WantAck=1
          Other,       \* stands for every id the PBX never handed over
          Expiry       \* expiry_sec

Nothing == -1          \* None, for an uptime or an id

ASSUME LogAssumption ==
    /\ WantAck \subseteq Pkt /\ Other \notin Pkt /\ Expiry \in Nat \ {0}
    /\ Nothing \notin Pkt \cup {Other}

Outcomes == {"sent", "acked", "unacked", "dropped_before_tx", "lost_to_reboot"}

Record(up, now) == [attempts |-> 0, airtime |-> 0, uptime |-> up, seen |-> now]

InitialLog ==
    [inflight |-> [p \in {} |-> Record(0, 0)], lastTx |-> Nothing,
     uptime |-> Nothing, txOther |-> 0, reboots |-> 0,
     published |-> [p \in Pkt |-> <<>>]]

\* Mutant: a resolved packet stays in flight.
Finished_Kept(s, outcome) ==
    [s EXCEPT !.published = [p \in Pkt |->
        IF p \in DOMAIN outcome
        THEN Append(@[p], [outcome  |-> outcome[p],
                           attempts |-> s.inflight[p].attempts,
                           airtime  |-> s.inflight[p].airtime])
        ELSE @[p]]]

\* _finish(): the packets in the domain of `outcome' leave with that outcome.
Finished(s, outcome) ==
    [s EXCEPT
        !.inflight  = Restrict(@, DOMAIN @ \ DOMAIN outcome),
        !.published = [p \in Pkt |->
            IF p \in DOMAIN outcome
            THEN Append(@[p], [outcome  |-> outcome[p],
                               attempts |-> s.inflight[p].attempts,
                               airtime  |-> s.inflight[p].airtime])
            ELSE @[p]]]

\* Mutant: a packet expires one second early.
Overdue_Early(s, now) ==
    {p \in DOMAIN s.inflight : s.inflight[p].seen <= now - Expiry + 1}

\* _expire(): resolves the packets nothing was said about for Expiry.
Overdue(s, now) ==
    {p \in DOMAIN s.inflight : s.inflight[p].seen <= now - Expiry}
Expired(s, now) ==
    Finished(s, [p \in Overdue(s, now) |->
        IF s.inflight[p].attempts > 0 THEN "unacked" ELSE "dropped_before_tx"])

\* Mutant: a reboot is counted and flushes nothing.
Noted_NoFlush(s, up) ==
    IF up >= s.uptime THEN [s EXCEPT !.uptime = up]
    ELSE [s EXCEPT !.uptime = up, !.lastTx = Nothing, !.reboots = @ + 1]

\* _note_uptime(): a falling uptime flushes what is in flight.
Noted(s, up) ==
    IF up >= s.uptime THEN [s EXCEPT !.uptime = up]
    ELSE Finished([s EXCEPT !.uptime = up, !.lastTx = Nothing, !.reboots = @ + 1],
                  [p \in DOMAIN s.inflight |-> "lost_to_reboot"])

\* _dispatch(), by the kind of line.
With(m, p, value) == [q \in DOMAIN m \cup {p} |-> IF q = p THEN value ELSE m[q]]

Handed(s, p, up, now) ==
    IF p \in DOMAIN s.inflight THEN s
    ELSE [s EXCEPT !.inflight = With(@, p, Record(up, now))]

\* Mutant: traffic of the node leaves the last transmission as it was.
TxStarted_KeepsLast(s, p) ==
    IF p \in DOMAIN s.inflight THEN [s EXCEPT !.lastTx = p]
    ELSE [s EXCEPT !.txOther = @ + 1]

TxStarted(s, p) ==
    [s EXCEPT !.lastTx  = p,
              !.txOther = IF p \in DOMAIN s.inflight THEN @ ELSE @ + 1]

\* Mutant: airtime opens a record of whatever is on the air.
Airtime_OpensRecord(s) ==
    [Handed(s, s.lastTx, s.uptime, 0) EXCEPT !.inflight[s.lastTx].airtime = @ + 1]

Airtime(s) ==
    IF s.lastTx \in DOMAIN s.inflight
    THEN [s EXCEPT !.inflight[s.lastTx].airtime = @ + 1] ELSE s

Counted(record, up, now) ==
    [attempts |-> record.attempts + 1, airtime |-> record.airtime,
     uptime |-> up, seen |-> now]

TxDone(s, p, up, now) ==
    IF p \notin DOMAIN s.inflight THEN s
    ELSE LET t == [s EXCEPT !.inflight[p] = Counted(@, up, now)]
         IN  IF p \in WantAck THEN t ELSE Finished(t, [q \in {p} |-> "sent"])

Acked(s, p) == IF p \in DOMAIN s.inflight THEN Finished(s, [q \in {p} |-> "acked"]) ELSE s

Dispatched(s, l, now) ==
    CASE l.body = "handed"  -> Handed(s, l.pkt, l.uptime, now)
      [] l.body = "started" -> TxStarted(s, l.pkt)
      [] l.body = "airtime" -> Airtime(s)
      [] l.body = "done"    -> TxDone(s, l.pkt, l.uptime, now)
      [] l.body = "acked"   -> Acked(s, l.pkt)
      [] OTHER              -> s

Fed(s, l, now) == Expired(Dispatched(Noted(s, l.uptime), l, now), now)

\* A cut line matches nothing; or its prefix alone; or, cut after what its
\* pattern needs, as a whole one (within the port number that ends the pattern of
\* a packet handed over, with another port number); or, cut within the id that
\* ends its pattern, it passes for a line on another packet.
FedCut(s, l, now) ==
    {s, Fed(s, [l EXCEPT !.body = "nothing"], now), Fed(s, l, now)} \cup
        IF l.body \in {"started", "done"}
        THEN {Fed(s, [l EXCEPT !.pkt = Other], now)} ELSE {}
=============================================================================
