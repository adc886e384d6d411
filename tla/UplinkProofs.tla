---------------------------- MODULE UplinkProofs ----------------------------
(***************************************************************************)
(* Proofs about Uplink, for every set of flows, bound and interval.        *)
(***************************************************************************)
EXTENDS Uplink, TLAPS

\* The charges taken so far, published or not.
Charges == charges \cup {r \in Range(records) : r.source = "sweep"}

\* A sweep is stamped later than every charge before it, so two charges of a
\* flow never carry the same second.
ChargesApart ==
    /\ \A r \in hand : r.source = "received"
    /\ \A r \in charges : r.source = "sweep"
    /\ \A r \in Charges : r.at < nextSweep /\ r.at <= clock
    /\ swept # Off => /\ swept <= clock /\ swept < nextSweep /\ charges = {}
                      /\ \A r \in Charges : r.at < swept
    /\ \A q, r \in Charges : q.flow = r.flow /\ q.at = r.at => q = r

\* Each point holds a record of its own.
PointsTrue ==
    \A p \in DOMAIN stored :
        stored[p] \in Names /\ PointOf(records[stored[p]]) = p

\* What was acknowledged was received: it is accounted for without the client.
AckedIsReceived ==
    \A m \in Range(acks) : m \in Range(buffer) \/ Settles(records[m])

AccountInv == PointsTrue /\ AckedIsReceived /\ EveryRecordAccounted
-----------------------------------------------------------------------------
\* What an appended record leaves in place.
LEMMA AppendedRecords ==
    ASSUME NEW S, NEW s \in Seq(S), NEW e \in S
    PROVE  /\ Append(s, e) \in Seq(S)
           /\ DOMAIN Append(s, e) = DOMAIN s \cup {Len(s) + 1}
           /\ \A m \in DOMAIN s : Append(s, e)[m] = s[m]
           /\ Append(s, e)[Len(s) + 1] = e
           /\ Range(Append(s, e)) = Range(s) \cup {e}
           /\ Len(s) + 1 \notin DOMAIN s
PROOF
<1>1. /\ Append(s, e) \in Seq(S)
      /\ DOMAIN s = 1 .. Len(s)
      /\ DOMAIN Append(s, e) = 1 .. Len(s) + 1
      /\ Len(s) \in Nat
      /\ \A m \in 1 .. Len(s) : Append(s, e)[m] = s[m]
      /\ Append(s, e)[Len(s) + 1] = e
  OBVIOUS
<1>2. 1 .. Len(s) + 1 = (1 .. Len(s)) \cup {Len(s) + 1} /\ Len(s) + 1 \notin 1 .. Len(s)
  BY <1>1
<1>3. Range(Append(s, e)) = Range(s) \cup {e}
  BY <1>1, <1>2 DEF Range
<1> QED BY <1>1, <1>2, <1>3

\* What the tail of a sequence leaves in place.
LEMMA TailKeeps ==
    ASSUME NEW S, NEW s \in Seq(S), s # <<>>
    PROVE  /\ Tail(s) \in Seq(S) /\ Head(s) \in S /\ Head(s) \in Range(s)
           /\ Range(s) = Range(Tail(s)) \cup {Head(s)}
PROOF
<1>1. /\ Tail(s) \in Seq(S) /\ Head(s) \in S /\ Head(s) = s[1]
      /\ Len(s) \in Nat \ {0} /\ DOMAIN s = 1 .. Len(s)
      /\ DOMAIN Tail(s) = 1 .. Len(s) - 1
      /\ \A i \in 1 .. Len(s) - 1 : Tail(s)[i] = s[i + 1]
  OBVIOUS
<1>2. Head(s) \in Range(s)
  BY <1>1 DEF Range
<1>3. Range(Tail(s)) \subseteq Range(s)
  <2>1. ASSUME NEW i \in 1 .. Len(s) - 1 PROVE i + 1 \in 1 .. Len(s)
    BY <1>1
  <2> QED BY <1>1, <2>1 DEF Range
<1>4. ASSUME NEW i \in 1 .. Len(s) PROVE s[i] \in Range(Tail(s)) \cup {Head(s)}
  <2>1. CASE i = 1
    BY <2>1, <1>1
  <2>2. CASE i # 1
    <3>1. i - 1 \in 1 .. Len(s) - 1 /\ (i - 1) + 1 = i
      BY <2>2, <1>1, <1>4
    <3>2. Tail(s)[i - 1] = s[i]
      BY <3>1, <1>1
    <3> QED BY <3>1, <3>2, <1>1 DEF Range
  <2> QED BY <2>1, <2>2
<1> QED BY <1>1, <1>2, <1>3, <1>4 DEF Range

\* Widening what the members are taken from.
LEMMA SeqWidens ==
    ASSUME NEW S, NEW T, S \subseteq T, NEW s \in Seq(S)
    PROVE  s \in Seq(T)
OBVIOUS

\* A sequence's range.
LEMMA RangeOfSeq ==
    ASSUME NEW S, NEW s \in Seq(S)
    PROVE  Range(s) \subseteq S /\ \A m \in DOMAIN s : s[m] \in S
PROOF
<1>1. DOMAIN s = 1 .. Len(s) /\ \A m \in 1 .. Len(s) : s[m] \in S
  OBVIOUS
<1> QED BY <1>1 DEF Range

\* Records that are resent come from those still queued.
LEMMA SendableOfQueued ==
    ASSUME NEW queued, NEW room, NEW q \in Sendable(queued, room)
    PROVE  q \in Seq(queued)
PROOF
<1>1. PICK n \in 0 .. room : q \in [1 .. n -> queued]
  BY DEF Sendable
<1> QED BY <1>1
-----------------------------------------------------------------------------
\* publish() keeps the types.
LEMMA PublishTypes ==
    ASSUME TypeOK, NEW r \in Rec, Publish(r)
    PROVE  /\ records' \in Seq(Rec) /\ out' \subseteq Names' /\ sent' \subseteq out'
           /\ wire' \in Seq(Names') /\ acks' \in Seq(Names')
           /\ buffer \in Seq(Names')
PROOF
<1> DEFINE name == Len(records) + 1
<1>1. records' \in Seq(Rec) /\ Names' = Names \cup {name}
  BY AppendedRecords DEF Publish, TypeOK, Names
<1>2. out' = out \cup {name} /\ sent' \subseteq sent \cup {name} /\ acks' = acks
  BY DEF Publish
<1>3. wire' \in Seq(Names')
  <2>1. wire \in Seq(Names')
    BY <1>1, SeqWidens DEF TypeOK
  <2>2. wire' = wire \/ wire' = Append(wire, name)
    BY DEF Publish
  <2> QED BY <2>1, <2>2, <1>1, AppendedRecords
<1>4. acks' \in Seq(Names') /\ buffer \in Seq(Names')
  BY <1>1, <1>2, SeqWidens DEF TypeOK
<1> QED BY <1>1, <1>2, <1>3, <1>4 DEF TypeOK

\* The state is what its parts say it is.
THEOREM UplinkTyped == Spec => []TypeOK
PROOF
<1>1. Init => TypeOK
  BY DEF Init, TypeOK, Names, Off
<1>2. TypeOK /\ [Next]_vars => TypeOK'
  <2> SUFFICES ASSUME TypeOK, [Next]_vars PROVE TypeOK'
    OBVIOUS
  <2> USE DEF TypeOK
  <2>1. CASE Tick
    BY <2>1 DEF Tick, receiver, client, net, telegraf, Names
  <2>2. ASSUME NEW f \in Flow, ReceiveStamps(f) PROVE TypeOK'
    BY <2>2 DEF ReceiveStamps, Record, Rec, client, net, telegraf, Names
  <2>3. CASE ReceiveScores
    <3>1. PICK r \in hand : /\ books' = [books EXCEPT ![r.flow] = @ + 1]
                            /\ hand' = {[r EXCEPT !.v = books[r.flow] + 1]}
      BY <2>3 DEF ReceiveScores
    <3>2. r \in Rec /\ r.flow \in Flow
      BY DEF Rec
    <3>3. books[r.flow] + 1 \in Nat /\ books' \in [Flow -> Nat]
      BY <3>1, <3>2
    <3>4. \A n \in Nat : [r EXCEPT !.v = n] \in Rec
      BY <3>2 DEF Rec
    <3>5. hand' \subseteq Rec
      BY <3>1, <3>3, <3>4
    <3>6. UNCHANGED <<records, charges, nextSweep, swept, clock, client, net, telegraf>>
      BY <2>3 DEF ReceiveScores, client
    <3> QED BY <3>3, <3>5, <3>6 DEF client, net, telegraf, Names
  <2>4. CASE ReceivePublishes
    <3>1. PICK r \in hand : Publish(r)
      BY <2>4 DEF ReceivePublishes
    <3> QED BY <2>4, <3>1, PublishTypes DEF ReceivePublishes, telegraf
  <2>5. CASE SweepStamps
    BY <2>5, UplinkAssumption DEF SweepStamps, client, net, telegraf, Names
  <2>6. CASE SweepCharges
    <3>1. PICK silent \in SUBSET Flow :
             /\ books' = [f \in Flow |-> books[f] + (IF f \in silent THEN 1 ELSE 0)]
             /\ charges' = {Record(f, "sweep", swept, books[f] + 1) : f \in silent}
      BY <2>6 DEF SweepCharges
    <3>2. books' \in [Flow -> Nat] /\ charges' \subseteq Rec
      BY <2>6, <3>1 DEF SweepCharges, Record, Rec, Off
    <3> QED BY <2>6, <3>2 DEF SweepCharges, client, net, telegraf, Names, Off
  <2>7. CASE SweepPublishes
    <3>1. PICK r \in charges : Publish(r) /\ charges' = charges \ {r}
      BY <2>7 DEF SweepPublishes
    <3> QED BY <2>7, <3>1, PublishTypes DEF SweepPublishes, telegraf
  <2>8. CASE Starts \/ OnDisconnect \/ TelegrafListens \/ BrokerReturns
    BY <2>8 DEF Starts, OnDisconnect, TelegrafListens, BrokerReturns, receiver, client,
                net, telegraf, Names
  <2>9. CASE Listens
    BY <2>9, UplinkAssumption DEF Listens, client, net, telegraf, Names
  <2>10. CASE GivesUp \/ GatewayEnds
    <3>1. ProcessEnds
      BY <2>10 DEF GivesUp, GatewayEnds
    <3>2. /\ clock' = clock /\ nextSweep' = nextSweep /\ books' = books
          /\ records' = records /\ buffer' = buffer
          /\ hand' = {} /\ charges' = {} /\ swept' = Off /\ out' = {} /\ sent' = {}
          /\ wire' = <<>> /\ acks' = <<>> /\ clock' = clock
      BY <2>10, <3>1 DEF ProcessEnds, GivesUp, GatewayEnds, telegraf
    <3>3. <<>> \in Seq(Names)
      OBVIOUS
    <3> QED BY <3>2, <3>3 DEF Names
  <2>11. CASE Dials
    BY <2>11 DEF Dials, receiver, telegraf, Names
  <2>12. CASE OnConnect
    <3>1. PICK next \in Sendable(out \ sent, MaxInflight - Cardinality(sent)) :
             wire' = wire \o next /\ sent' = sent \cup Range(next)
      BY <2>12 DEF OnConnect
    <3>2. next \in Seq(Names) /\ Range(next) \subseteq out
      <4>1. next \in Seq(out \ sent)
        BY <3>1, SendableOfQueued
      <4> QED BY <4>1, SeqWidens, RangeOfSeq
    <3> QED BY <2>12, <3>1, <3>2 DEF OnConnect, receiver, telegraf, Names
  <2>13. CASE PubAck
    <3> DEFINE away == sent \ {Head(acks)}
    <3>1. PICK next \in Sendable(out' \ away, MaxInflight - Cardinality(away)) :
             wire' = wire \o next /\ sent' = away \cup Range(next)
      BY <2>13 DEF PubAck
    <3>2. out' \subseteq Names /\ Tail(acks) \in Seq(Names)
      BY <2>13, TailKeeps DEF PubAck
    <3>3. next \in Seq(Names) /\ Range(next) \subseteq out'
      <4>1. next \in Seq(out' \ away)
        BY <3>1, SendableOfQueued
      <4> QED BY <3>2, <4>1, SeqWidens, RangeOfSeq
    <3>4. away \subseteq out'
      BY <2>13 DEF PubAck
    <3> QED BY <2>13, <3>1, <3>2, <3>3, <3>4 DEF PubAck, receiver, telegraf, Names
  <2>14. CASE BrokerReceives
    <3>1. Tail(wire) \in Seq(Names) /\ Head(wire) \in Names
      BY <2>14, TailKeeps DEF BrokerReceives
    <3>2. Append(acks, Head(wire)) \in Seq(Names) /\ Append(buffer, Head(wire)) \in Seq(Names)
      BY <3>1, AppendedRecords
    <3> QED BY <2>14, <3>1, <3>2 DEF BrokerReceives, receiver, client, Names
  <2>15. CASE Flushes
    <3>1. Tail(buffer) \in Seq(Names)
      BY <2>15, TailKeeps DEF Flushes
    <3> QED BY <2>15, <3>1 DEF Flushes, receiver, client, net, Names
  <2>16. CASE TelegrafEnds \/ BrokerFails \/ LinkBreaks
    <3>1. <<>> \in Seq(Names)
      OBVIOUS
    <3>2. CASE TelegrafEnds
      BY <3>1, <3>2 DEF TelegrafEnds, receiver, client, net, Names
    <3>3. CASE BrokerFails
      BY <3>1, <3>3 DEF BrokerFails, Breaks, receiver, client, Names
    <3>4. CASE LinkBreaks
      BY <3>1, <3>4 DEF LinkBreaks, Breaks, receiver, client, telegraf, Names
    <3> QED BY <2>16, <3>2, <3>3, <3>4
  <2>17. CASE UNCHANGED vars
    BY <2>17 DEF vars, receiver, client, net, telegraf, Names
  <2> QED
    BY <2>1, <2>2, <2>3, <2>4, <2>5, <2>6, <2>7, <2>8, <2>9, <2>10, <2>11, <2>12,
       <2>13, <2>14, <2>15, <2>16, <2>17
    DEF Next, Threads, Process, Paho, Servers
<1> QED BY <1>1, <1>2, PTL DEF Spec

LEMMA ChargesTyped == ASSUME TypeOK PROVE Charges \subseteq Rec
BY RangeOfSeq DEF TypeOK, Charges

\* Publishing moves a record, it takes no charge.
LEMMA PublishCharges ==
    ASSUME TypeOK, NEW r \in Rec, Publish(r)
    PROVE  Range(records') = Range(records) \cup {r}
BY AppendedRecords DEF Publish, TypeOK

LEMMA ChargesStayApart == Spec => []ChargesApart
PROOF
<1>1. Init => ChargesApart
  BY DEF Init, ChargesApart, Charges, Range, Off
<1>2. ChargesApart /\ TypeOK /\ [Next]_vars => ChargesApart'
  <2> SUFFICES ASSUME ChargesApart, TypeOK, [Next]_vars PROVE ChargesApart'
    OBVIOUS
  <2>1. CASE Tick
    <3>1. Charges' = Charges /\ clock' = clock + 1 /\ clock \in Nat
      BY <2>1 DEF Tick, receiver, client, Charges, TypeOK
    <3>2. \A r \in Charges : r.at \in Nat
      BY ChargesTyped DEF Rec
    <3>3. hand' = hand /\ charges' = charges /\ swept' = swept /\ nextSweep' = nextSweep
      BY <2>1 DEF Tick, receiver
    <3>4. \A r \in Charges' : r.at < nextSweep' /\ r.at <= clock'
      BY <3>1, <3>2, <3>3 DEF ChargesApart
    <3>5. swept # Off => swept <= clock'
      BY <3>1 DEF ChargesApart, TypeOK
    <3> QED BY <3>1, <3>3, <3>4, <3>5 DEF ChargesApart
  <2>2. ASSUME NEW f \in Flow, ReceiveStamps(f) PROVE ChargesApart'
    BY <2>2 DEF ReceiveStamps, Record, client, ChargesApart, Charges
  <2>3. CASE ReceiveScores
    <3>1. PICK r \in hand : hand' = {[r EXCEPT !.v = books[r.flow] + 1]}
      BY <2>3 DEF ReceiveScores
    <3>2. \A q \in hand' : q.source = "received"
      BY <3>1 DEF ChargesApart, TypeOK, Rec
    <3> QED BY <2>3, <3>2 DEF ReceiveScores, client, ChargesApart, Charges
  <2>4. CASE ReceivePublishes
    <3>1. PICK r \in hand : Publish(r)
      BY <2>4 DEF ReceivePublishes
    <3>2. charges' = charges /\ hand' = {} /\ r.source = "received"
      BY <2>4 DEF ReceivePublishes, ChargesApart
    <3>3. Charges' = Charges
      BY <3>1, <3>2, PublishCharges DEF Charges, TypeOK
    <3> QED BY <2>4, <3>2, <3>3 DEF ReceivePublishes, ChargesApart
  <2>5. CASE SweepStamps
    <3>1. Charges' = Charges
      BY <2>5 DEF SweepStamps, client, Charges
    <3>2. nextSweep' > clock /\ clock >= nextSweep /\ clock \in Nat
      BY <2>5, UplinkAssumption DEF SweepStamps, TypeOK
    <3>3. \A r \in Charges : r.at \in Nat
      BY ChargesTyped DEF Rec
    <3> QED BY <2>5, <3>1, <3>2, <3>3 DEF SweepStamps, ChargesApart, TypeOK
  <2>6. CASE SweepCharges
    <3>1. PICK silent \in SUBSET Flow :
             charges' = {Record(f, "sweep", swept, books[f] + 1) : f \in silent}
      BY <2>6 DEF SweepCharges
    <3>2. charges = {} /\ swept <= clock /\ swept < nextSweep /\ swept' = Off
          /\ clock' = clock /\ nextSweep' = nextSweep /\ hand' = hand /\ records' = records
      BY <2>6 DEF SweepCharges, ChargesApart, client
    <3>3. Charges' = Charges \cup charges'
      BY <3>2 DEF Charges
    <3>4. \A r \in charges' : r.source = "sweep" /\ r.at = swept
      BY <3>1 DEF Record
    <3>5. \A q, r \in charges' : q.flow = r.flow => q = r
      BY <3>1 DEF Record
    <3>6. \A r \in Charges : r.at < swept /\ r.at # swept
      <4>1. \A r \in Charges : r.at \in Nat
        BY ChargesTyped DEF Rec
      <4>2. swept \in Nat
        BY <2>6 DEF SweepCharges, TypeOK
      <4> QED BY <2>6, <4>1, <4>2 DEF SweepCharges, ChargesApart
    <3> QED BY <3>2, <3>3, <3>4, <3>5, <3>6 DEF ChargesApart
  <2>7. CASE SweepPublishes
    <3>1. PICK r \in charges : Publish(r) /\ charges' = charges \ {r}
      BY <2>7 DEF SweepPublishes
    <3>2. r.source = "sweep"
      BY <3>1 DEF ChargesApart
    <3>3. Charges' = Charges
      BY <3>1, <3>2, PublishCharges DEF Charges, TypeOK
    <3> QED BY <2>7, <3>1, <3>3 DEF SweepPublishes, ChargesApart
  <2>8. CASE Listens
    <3>1. Charges' = Charges
      BY <2>8 DEF Listens, client, Charges
    <3>2. nextSweep' > clock /\ clock \in Nat /\ nextSweep' \in Nat
      BY <2>8, UplinkAssumption DEF Listens, TypeOK
    <3>3. \A r \in Charges : r.at \in Nat
      BY ChargesTyped DEF Rec
    <3>4. \A r \in Charges' : r.at < nextSweep' /\ r.at <= clock'
      BY <2>8, <3>1, <3>2, <3>3 DEF Listens, ChargesApart
    <3>5. swept # Off => swept < nextSweep'
      BY <3>2 DEF ChargesApart, TypeOK
    <3> QED BY <2>8, <3>1, <3>4, <3>5 DEF Listens, ChargesApart
  <2>9. CASE ProcessEnds
    <3>1. Charges' \subseteq Charges
      BY <2>9 DEF ProcessEnds, Charges
    <3>2. hand' = {} /\ charges' = {} /\ swept' = Off
          /\ clock' = clock /\ nextSweep' = nextSweep
      BY <2>9 DEF ProcessEnds
    <3> QED BY <3>1, <3>2 DEF ChargesApart
  <2>10. CASE UNCHANGED <<clock, hand, charges, swept, nextSweep, records>>
    BY <2>10 DEF ChargesApart, Charges
  <2>11. ASSUME \/ Starts \/ Dials \/ OnConnect \/ OnDisconnect \/ PubAck \/ Servers
                \/ TelegrafEnds \/ BrokerFails \/ LinkBreaks \/ UNCHANGED vars
         PROVE UNCHANGED <<clock, hand, charges, swept, nextSweep, records>>
    BY <2>11 DEF Starts, Dials, OnConnect, OnDisconnect, PubAck, Servers, BrokerReceives,
       TelegrafListens, Flushes, BrokerReturns, TelegrafEnds, BrokerFails, LinkBreaks,
       vars, receiver, client
  <2> QED
    BY <2>1, <2>2, <2>3, <2>4, <2>5, <2>6, <2>7, <2>8, <2>9, <2>10, <2>11
    DEF Next, Threads, Process, Paho, GivesUp, GatewayEnds
<1> QED BY <1>1, <1>2, UplinkTyped, PTL DEF Spec
-----------------------------------------------------------------------------
\* A record that is settled stays so while nothing is written.
LEMMA SettledStays ==
    ASSUME NEW r, Settles(r), lost \subseteq lost', stored' = stored,
           PointsTrue, \A m \in Names : records'[m] = records[m]
    PROVE  Settles(r)'
PROOF
<1>1. \A p \in DOMAIN stored : records'[stored'[p]] = records[stored[p]]
  BY DEF PointsTrue
<1> QED BY <1>1 DEF Settles, Written, SameSecond

\* What publish() adds is queued, and disturbs nothing.
LEMMA PublishAccounts ==
    ASSUME TypeOK, AccountInv, NEW r \in Rec, Publish(r), UNCHANGED <<telegraf, lost>>
    PROVE  AccountInv'
PROOF
<1> DEFINE name == Len(records) + 1
<1>1. Names' = Names \cup {name} /\ \A m \in Names : records'[m] = records[m]
  BY AppendedRecords DEF Publish, TypeOK, Names
<1>2. out' = out \cup {name} /\ acks' = acks /\ buffer' = buffer /\ stored' = stored
      /\ lost' = lost
  BY DEF Publish, telegraf
<1>3. \A q : Settles(q) => Settles(q)'
  BY <1>1, <1>2, SettledStays DEF AccountInv
<1>4. PointsTrue'
  BY <1>1, <1>2 DEF AccountInv, PointsTrue
<1>5. Range(acks) \subseteq Names
  BY RangeOfSeq DEF TypeOK
<1>6. AckedIsReceived'
  BY <1>1, <1>2, <1>3, <1>5 DEF AccountInv, AckedIsReceived
<1>7. EveryRecordAccounted'
  BY <1>1, <1>2, <1>3 DEF AccountInv, EveryRecordAccounted
<1> QED BY <1>4, <1>6, <1>7 DEF AccountInv

\* The write of a point: what it overwrites is the same charge, or a packet of
\* the same second.
LEMMA FlushAccounts ==
    ASSUME TypeOK, ChargesApart, AccountInv, Flushes
    PROVE  AccountInv'
PROOF
<1>0. PICK h \in Names : h = Head(buffer) /\ Range(buffer) = Range(Tail(buffer)) \cup {h}
  BY TailKeeps DEF Flushes, TypeOK
<1>1. /\ Range(buffer) = Range(buffer') \cup {h}
      /\ records' = records /\ out' = out /\ acks' = acks /\ lost' = lost
  BY <1>0 DEF Flushes, client, net
<1> DEFINE point == PointOf(records[h])
<1>2. /\ DOMAIN stored' = DOMAIN stored \cup {point}
      /\ stored'[point] = h
      /\ \A p \in DOMAIN stored : p # point => stored'[p] = stored[p]
  BY <1>0 DEF Flushes
<1>3. Names' = Names
  BY <1>1 DEF Names
<1>4. PointsTrue'
  BY <1>1, <1>2, <1>3 DEF AccountInv, PointsTrue
<1>5. ASSUME NEW m \in Names, PointOf(records[m]) = point
      PROVE  Settles(records[m])'
  <2>1. CASE records[m] = records[h]
    BY <2>1, <1>1, <1>2 DEF Settles, Written
  <2>2. CASE records[m] # records[h] /\ records[m].source = "received"
    BY <2>2, <1>1, <1>2, <1>5 DEF Settles, SameSecond
  <2>3. CASE records[m].source = "sweep"
    <3>1. records[m].flow = records[h].flow /\ records[m].at = records[h].at
          /\ records[h].source = "sweep"
      BY <2>3, <1>5 DEF PointOf
    <3>2. records[m] \in Charges /\ records[h] \in Charges
      BY <1>1, <2>3, <3>1 DEF Charges, Range, Names
    <3>3. records[m] = records[h]
      BY <3>1, <3>2 DEF ChargesApart
    <3> QED BY <3>3, <2>1
  <2>4. records[m] \in Rec
    BY RangeOfSeq DEF TypeOK, Names
  <2> QED BY <2>1, <2>2, <2>3, <2>4 DEF Rec
<1>6. ASSUME NEW m \in Names, Settles(records[m])
      PROVE  Settles(records[m])'
  <2>1. CASE PointOf(records[m]) = point
    BY <2>1, <1>5
  <2>2. CASE PointOf(records[m]) # point
    <3>1. CASE records[m] \in lost
      BY <3>1, <1>1 DEF Settles
    <3>2. CASE Written(records[m])
      <4>1. PICK p \in DOMAIN stored : records[stored[p]] = records[m]
        BY <3>2 DEF Written
      <4>2. p = PointOf(records[m])
        BY <4>1 DEF AccountInv, PointsTrue
      <4> QED BY <4>1, <4>2, <2>2, <1>1, <1>2 DEF Settles, Written
    <3>3. CASE SameSecond(records[m])
      BY <3>3, <2>2, <1>1, <1>2 DEF Settles, SameSecond
    <3> QED BY <1>6, <3>1, <3>2, <3>3 DEF Settles
  <2> QED BY <2>1, <2>2
<1>7. Settles(records[h])'
  BY <1>1, <1>5
<1>8. Range(acks) \subseteq Names
  BY RangeOfSeq DEF TypeOK
<1>9. AckedIsReceived'
  BY <1>1, <1>6, <1>7, <1>8 DEF AccountInv, AckedIsReceived
<1>10. EveryRecordAccounted'
  BY <1>1, <1>3, <1>6, <1>7 DEF AccountInv, EveryRecordAccounted
<1> QED BY <1>4, <1>9, <1>10 DEF AccountInv

\* Steps that write and publish nothing: what leaves the queue was lost or
\* acknowledged, what leaves the buffer was lost.
LEMMA OthersAccount ==
    ASSUME TypeOK, AccountInv, records' = records, stored' = stored,
           lost \subseteq lost',
           \A m \in out \ out' : m \in Range(acks) \/ records[m] \in lost',
           \A m \in Range(buffer) \ Range(buffer') : records[m] \in lost',
           \A m \in Range(acks') \ Range(acks) :
               m \in Range(buffer') \/ records[m] \in lost'
    PROVE  AccountInv'
PROOF
<1>1. Names' = Names
  BY DEF Names
<1>2. \A q : Settles(q) => Settles(q)'
  BY SettledStays DEF AccountInv
<1>3. \A q : q \in lost' => Settles(q)'
  BY DEF Settles
<1>4. PointsTrue'
  BY <1>1 DEF AccountInv, PointsTrue
<1>5. AckedIsReceived'
  BY <1>2, <1>3 DEF AccountInv, AckedIsReceived
<1>6. EveryRecordAccounted'
  BY <1>1, <1>2, <1>3 DEF AccountInv, AckedIsReceived, EveryRecordAccounted
<1> QED BY <1>4, <1>5, <1>6 DEF AccountInv

LEMMA AccountsHold == Spec => []AccountInv
PROOF
<1>1. Init => AccountInv
  BY DEF Init, AccountInv, PointsTrue, AckedIsReceived, EveryRecordAccounted, Range, Names
<1>2. AccountInv /\ TypeOK /\ ChargesApart /\ [Next]_vars => AccountInv'
  <2> SUFFICES ASSUME AccountInv, TypeOK, ChargesApart, [Next]_vars PROVE AccountInv'
    OBVIOUS
  <2>1. CASE ReceivePublishes
    <3>1. PICK r \in hand : Publish(r)
      BY <2>1 DEF ReceivePublishes
    <3> QED BY <2>1, <3>1, PublishAccounts DEF ReceivePublishes, TypeOK
  <2>2. CASE SweepPublishes
    <3>1. PICK r \in charges : Publish(r)
      BY <2>2 DEF SweepPublishes
    <3> QED BY <2>2, <3>1, PublishAccounts DEF SweepPublishes, TypeOK
  <2>3. CASE Flushes
    BY <2>3, FlushAccounts
  <2>4. CASE ProcessEnds
    <3>1. acks' = <<>> /\ out' = {} /\ records' = records /\ UNCHANGED telegraf
          /\ lost \subseteq lost' /\ \A m \in out : records[m] \in lost'
      BY <2>4 DEF ProcessEnds
    <3>2. Range(acks') = {}
      BY <3>1 DEF Range
    <3> QED BY <3>1, <3>2, OthersAccount DEF telegraf
  <2>5. CASE PubAck
    <3>1. acks # <<>> /\ acks' = Tail(acks) /\ out' = out \ {Head(acks)}
          /\ UNCHANGED <<records, telegraf, lost>>
      BY <2>5 DEF PubAck
    <3>2. Head(acks) \in Range(acks) /\ Range(acks') \subseteq Range(acks)
      BY <3>1, TailKeeps DEF TypeOK
    <3> QED BY <3>1, <3>2, OthersAccount DEF telegraf
  <2>6. CASE BrokerReceives
    <3> DEFINE h == Head(wire)
    <3>1. h \in Names /\ UNCHANGED <<records, out, stored>>
      BY <2>6, TailKeeps DEF BrokerReceives, TypeOK, client
    <3>2. Range(acks') = Range(acks) \cup {h}
      BY <2>6, <3>1, AppendedRecords DEF BrokerReceives, TypeOK
    <3>3. CASE listening
      <4>1. buffer' = Append(buffer, h) /\ lost' = lost
        BY <2>6, <3>3 DEF BrokerReceives
      <4>2. Range(buffer') = Range(buffer) \cup {h}
        BY <4>1, <3>1, AppendedRecords DEF TypeOK
      <4> QED BY <3>1, <3>2, <4>1, <4>2, OthersAccount
    <3>4. CASE ~listening
      <4>1. buffer' = buffer /\ lost' = lost \cup {records[h]}
        BY <2>6, <3>4 DEF BrokerReceives
      <4> QED BY <3>1, <3>2, <4>1, OthersAccount
    <3> QED BY <3>3, <3>4
  <2>7. CASE TelegrafEnds
    <3>1. UNCHANGED <<records, out, acks, stored>> /\ buffer' = <<>>
          /\ lost' = lost \cup {records[m] : m \in Range(buffer)}
      BY <2>7 DEF TelegrafEnds, client, net
    <3> QED BY <3>1, OthersAccount
  <2>8. CASE Dials \/ BrokerFails \/ LinkBreaks
    <3>1. UNCHANGED <<records, out, buffer, stored, lost>> /\ acks' = <<>>
      BY <2>8 DEF Dials, BrokerFails, LinkBreaks, Breaks, client, telegraf
    <3>2. Range(acks') = {}
      BY <3>1 DEF Range
    <3> QED BY <3>1, <3>2, OthersAccount
  <2>9. ASSUME \/ Tick \/ (\E f \in Flow : ReceiveStamps(f)) \/ ReceiveScores
               \/ SweepStamps \/ SweepCharges \/ Starts \/ Listens
               \/ OnConnect \/ OnDisconnect \/ TelegrafListens \/ BrokerReturns
               \/ UNCHANGED vars
        PROVE  AccountInv'
    <3>1. UNCHANGED <<records, out, acks, buffer, stored, lost>>
      BY <2>9 DEF Tick, ReceiveStamps, ReceiveScores, SweepStamps, SweepCharges, Starts,
         Listens, OnConnect, OnDisconnect, TelegrafListens, BrokerReturns, vars, client,
         net, telegraf
    <3> QED BY <3>1, OthersAccount
  <2> QED
    BY <2>1, <2>2, <2>3, <2>4, <2>5, <2>6, <2>7, <2>8, <2>9
    DEF Next, Threads, Process, Paho, Servers, GivesUp, GatewayEnds
<1> QED BY <1>1, <1>2, UplinkTyped, ChargesStayApart, PTL DEF Spec

(***************************************************************************)
(* For every set of flows, interval, limit in flight and number of faults: *)
(* nothing the connector was given is unaccounted for.                     *)
(***************************************************************************)
THEOREM RecordsAccounted == Spec => []EveryRecordAccounted
PROOF
<1>1. AccountInv => EveryRecordAccounted
  BY DEF AccountInv
<1> QED BY <1>1, AccountsHold, PTL
-----------------------------------------------------------------------------
\* The order of the snapshots -----------------------------------------------
\* Every snapshot taken that its process still had or has given away.
Taken == Range(records) \cup {r \in hand : r.v > 0} \cup charges

\* The snapshots A are told apart by flow and number; each thread's are stamped
\* in the order taken; and what was taken before another snapshot of the same
\* thread is stamped no later than the thread's next.
Ordered(A) ==
    \A q, r \in A : q.flow = r.flow =>
        /\ q.v = r.v => q = r
        /\ q.v < r.v /\ q.source = r.source => q.at <= r.at
        /\ \A s \in A : s.flow = r.flow /\ s.source = r.source /\ q.v < s.v /\ s.v < r.v =>
               q.at <= r.at

\* The stamp at, read by the thread of source, is behind none that it must follow.
Ahead(A, f, source, at) ==
    \A s \in A : s.flow = f /\ s.source = source =>
        /\ s.at <= at
        /\ \A q \in A : q.flow = f /\ q.v < s.v => q.at <= at

OrderInv ==
    /\ \A r \in Taken : r.v \in 1 .. books[r.flow] /\ r.at <= clock
    /\ Ordered(Taken)
    /\ \A h \in hand : /\ h.at <= clock
                       /\ \A g \in hand : g = h
                       /\ h.v = 0 => Ahead(Taken, h.flow, "received", h.at)
    /\ swept # Off => \A f \in Flow : Ahead(Taken, f, "sweep", swept)

LEMMA TakenTyped == ASSUME TypeOK PROVE Taken \subseteq Rec
BY RangeOfSeq DEF TypeOK, Taken

\* A part of an ordered set is ordered, and what is ahead of it stays ahead.
LEMMA OrderedPart ==
    ASSUME NEW A, NEW B \in SUBSET A, Ordered(A)
    PROVE  Ordered(B)
BY DEF Ordered

LEMMA AheadOfPart ==
    ASSUME NEW A, NEW B \in SUBSET A, NEW f, NEW source, NEW at, Ahead(A, f, source, at)
    PROVE  Ahead(B, f, source, at)
BY DEF Ahead

\* New snapshots, one of a flow at most, whose numbers are above all taken
\* before and whose stamps are ahead.
LEMMA OrderedTaking ==
    ASSUME NEW A \in SUBSET Rec, NEW New \in SUBSET Rec, NEW b \in [Flow -> Nat],
           Ordered(A), \A r \in A : r.v <= b[r.flow],
           \A r \in New : r.v > b[r.flow] /\ Ahead(A, r.flow, r.source, r.at),
           \A q, r \in New : q.flow = r.flow => q = r
    PROVE  Ordered(A \cup New)
<1>1. \A r \in A \cup New : r.v \in Nat /\ r.at \in Nat /\ r.flow \in Flow /\ b[r.flow] \in Nat
  BY DEF Rec
<1>2. ASSUME NEW q \in A \cup New, NEW r \in A \cup New, q.flow = r.flow
      PROVE  /\ q.v = r.v => q = r
             /\ q.v < r.v => q \in A
  <2>1. CASE q \in A /\ r \in A
    BY <1>2, <2>1 DEF Ordered
  <2>2. CASE q \in New /\ r \in A
    BY <1>1, <1>2, <2>2
  <2>3. CASE q \in A /\ r \in New
    BY <1>1, <1>2, <2>3
  <2>4. CASE q \in New /\ r \in New
    BY <1>1, <1>2, <2>4
  <2> QED
    BY <2>1, <2>2, <2>3, <2>4
<1>3. ASSUME NEW q \in A \cup New, NEW r \in A \cup New, q.flow = r.flow,
             q.v < r.v, q.source = r.source
      PROVE  q.at <= r.at
  <2>1. q \in A
    BY <1>2, <1>3
  <2>2. CASE r \in A
    BY <1>3, <2>1, <2>2 DEF Ordered
  <2>3. CASE r \in New
    BY <1>3, <2>1, <2>3 DEF Ahead
  <2> QED
    BY <2>2, <2>3
<1>4. ASSUME NEW q \in A \cup New, NEW r \in A \cup New, NEW s \in A \cup New,
             q.flow = r.flow, s.flow = r.flow, s.source = r.source, q.v < s.v, s.v < r.v
      PROVE  q.at <= r.at
  <2>1. q \in A /\ s \in A
    BY <1>2, <1>4
  <2>2. CASE r \in A
    BY <1>4, <2>1, <2>2 DEF Ordered
  <2>3. CASE r \in New
    BY <1>4, <2>1, <2>3 DEF Ahead
  <2> QED
    BY <2>2, <2>3
<1> QED
  BY <1>2, <1>3, <1>4 DEF Ordered

\* Snapshots above all that are taken do not overtake a stamp, unless they are
\* its own thread's.
LEMMA AheadTaking ==
    ASSUME NEW A \in SUBSET Rec, NEW New \in SUBSET Rec, NEW b \in [Flow -> Nat],
           \A r \in A : r.v <= b[r.flow], \A r \in New : r.v > b[r.flow],
           NEW f \in Flow, NEW source, NEW at, Ahead(A, f, source, at),
           \A r \in New : r.source # source
    PROVE  Ahead(A \cup New, f, source, at)
<1>1. \A r \in A \cup New : r.v \in Nat /\ r.flow \in Flow /\ b[r.flow] \in Nat
  BY DEF Rec
<1>2. ASSUME NEW s \in A \cup New, s.flow = f, s.source = source
      PROVE  s \in A /\ s.at <= at
  BY <1>2 DEF Ahead
<1>3. ASSUME NEW s \in A \cup New, s.flow = f, s.source = source,
             NEW q \in A \cup New, q.flow = f, q.v < s.v
      PROVE  q.at <= at
  <2>1. s \in A
    BY <1>2, <1>3
  <2>2. q \notin New
    BY <1>1, <1>3, <2>1
  <2> QED
    BY <1>3, <2>1, <2>2 DEF Ahead
<1> QED
  BY <1>2, <1>3 DEF Ahead

\* A stamp read now is ahead of all.
LEMMA NowIsAhead ==
    ASSUME OrderInv, NEW f, NEW source
    PROVE  Ahead(Taken, f, source, clock)
BY DEF OrderInv, Ahead

\* Steps after which no snapshot is new.
LEMMA OrderStays ==
    ASSUME TypeOK, OrderInv, Taken' \subseteq Taken, books' = books, clock \in Nat,
           clock' \in Nat, clock <= clock', hand' \subseteq hand,
           swept' = swept \/ swept' = Off
    PROVE  OrderInv'
<1>1. \A r \in Taken : r.at \in Nat
  BY TakenTyped DEF Rec
<1>2. \A r \in Taken' : r.v \in 1 .. books'[r.flow] /\ r.at <= clock'
  BY <1>1 DEF OrderInv
<1>3. Ordered(Taken')
  BY OrderedPart DEF OrderInv
<1>4. ASSUME NEW h \in hand'
      PROVE  /\ h.at <= clock' /\ \A g \in hand' : g = h
             /\ h.v = 0 => Ahead(Taken', h.flow, "received", h.at)
  <2>1. h.at \in Nat
    BY DEF TypeOK, Rec
  <2>2. h.at <= clock' /\ \A g \in hand' : g = h
    BY <2>1 DEF OrderInv
  <2>3. h.v = 0 => Ahead(Taken', h.flow, "received", h.at)
    BY AheadOfPart DEF OrderInv
  <2> QED
    BY <2>2, <2>3
<1>5. swept' # Off => \A f \in Flow : Ahead(Taken', f, "sweep", swept')
  BY AheadOfPart DEF OrderInv
<1> QED
  BY <1>2, <1>3, <1>4, <1>5 DEF OrderInv

\* A snapshot that is published was taken already.
LEMMA PublishTakesNone ==
    ASSUME TypeOK, NEW r \in Rec, Publish(r), r \in Taken
    PROVE  Range(records') \subseteq Taken
BY PublishCharges DEF Taken

LEMMA ScoresOrder ==
    ASSUME TypeOK, ChargesApart, OrderInv, ReceiveScores
    PROVE  OrderInv'
<1>1. PICK h \in hand : /\ h.v = 0
                        /\ books' = [books EXCEPT ![h.flow] = @ + 1]
                        /\ hand' = {[h EXCEPT !.v = books[h.flow] + 1]}
  BY DEF ReceiveScores
<1> DEFINE r == [h EXCEPT !.v = books[h.flow] + 1]
<1>2. UNCHANGED <<clock, charges, swept, records>>
  BY DEF ReceiveScores, client
<1>3. h \in Rec /\ h.flow \in Flow /\ h.source = "received" /\ h.at \in Nat
  BY DEF TypeOK, Rec, ChargesApart
<1>4. books[h.flow] \in Nat /\ books \in [Flow -> Nat]
  BY <1>3 DEF TypeOK
<1>5. r \in Rec /\ r.flow = h.flow /\ r.source = "received" /\ r.at = h.at
      /\ r.v = books[h.flow] + 1
  BY <1>3, <1>4 DEF Rec
<1> HIDE DEF r
<1>6. hand' = {r}
  BY <1>1 DEF r
<1>7. Taken' = Taken \cup {r} /\ Taken \subseteq Rec
  <2>1. {q \in hand : q.v > 0} = {}
    BY <1>1 DEF OrderInv
  <2>2. {q \in hand' : q.v > 0} = {r}
    BY <1>4, <1>5, <1>6
  <2> QED
    BY <1>2, <2>1, <2>2, TakenTyped DEF Taken
<1>8. /\ \A q \in Taken : q.v <= books[q.flow] /\ q.v >= 1 /\ q.v \in Nat /\ q.flow \in Flow
      /\ \A q \in {r} : q.v > books[q.flow]
  <2>1. \A q \in Taken : q.v \in Nat /\ q.flow \in Flow /\ books[q.flow] \in Nat
    BY <1>4, <1>7 DEF Rec
  <2> QED
    BY <1>4, <1>5, <2>1 DEF OrderInv
<1>9. Ahead(Taken, r.flow, r.source, r.at)
  BY <1>1, <1>5 DEF OrderInv
<1>10. Ordered(Taken')
  BY <1>4, <1>5, <1>7, <1>8, <1>9, OrderedTaking DEF OrderInv
<1>11. \A q \in Taken' : q.v \in 1 .. books'[q.flow] /\ q.at <= clock'
  <2>1. \A f \in Flow : books'[f] = IF f = h.flow THEN books[f] + 1 ELSE books[f]
    BY <1>1, <1>4
  <2>2. \A f \in Flow : books'[f] \in Nat /\ books[f] \in Nat /\ books[f] <= books'[f]
    BY <1>4, <2>1
  <2>3. ASSUME NEW q \in Taken PROVE q.v \in 1 .. books'[q.flow] /\ q.at <= clock'
    BY <1>2, <1>8, <2>2, <2>3 DEF OrderInv
  <2>4. r.v \in 1 .. books'[r.flow] /\ r.at <= clock'
    BY <1>1, <1>2, <1>3, <1>4, <1>5, <2>1 DEF OrderInv
  <2> QED
    BY <1>7, <2>3, <2>4
<1>12. r.at <= clock' /\ r.v # 0
  BY <1>1, <1>2, <1>4, <1>5 DEF OrderInv
<1>13. ASSUME swept' # Off, NEW f \in Flow
       PROVE  Ahead(Taken', f, "sweep", swept')
  BY <1>2, <1>4, <1>5, <1>7, <1>8, <1>13, AheadTaking DEF OrderInv
<1> QED
  BY <1>6, <1>10, <1>11, <1>12, <1>13 DEF OrderInv

LEMMA ChargesOrder ==
    ASSUME TypeOK, ChargesApart, OrderInv, SweepCharges
    PROVE  OrderInv'
<1>1. PICK silent \in SUBSET Flow :
         /\ books' = [f \in Flow |-> books[f] + (IF f \in silent THEN 1 ELSE 0)]
         /\ charges' = {Record(f, "sweep", swept, books[f] + 1) : f \in silent}
  BY DEF SweepCharges
<1>2. UNCHANGED <<clock, hand, records>> /\ swept # Off /\ swept' = Off /\ swept \in Nat
      /\ charges = {} /\ swept <= clock
  BY DEF SweepCharges, client, TypeOK, ChargesApart
<1>3. books \in [Flow -> Nat] /\ \A f \in Flow : books[f] \in Nat
  BY DEF TypeOK
<1>4. ASSUME NEW r \in charges'
      PROVE  /\ r \in Rec /\ r.flow \in silent /\ r.source = "sweep" /\ r.at = swept
             /\ r.v = books[r.flow] + 1 /\ r.v > books[r.flow]
             /\ r = Record(r.flow, "sweep", swept, books[r.flow] + 1)
  <2>1. PICK f \in silent : r = Record(f, "sweep", swept, books[f] + 1)
    BY <1>1
  <2> QED
    BY <1>2, <1>3, <2>1 DEF Record, Rec
<1>5. Taken' = Taken \cup charges' /\ Taken \subseteq Rec /\ charges' \subseteq Rec
  BY <1>2, <1>4, TakenTyped DEF Taken
<1>6. /\ \A q \in Taken : q.v <= books[q.flow] /\ q.v >= 1 /\ q.v \in Nat /\ q.flow \in Flow
      /\ \A q \in charges' : q.v > books[q.flow]
  <2>1. \A q \in Taken : q.v \in Nat /\ q.flow \in Flow /\ books[q.flow] \in Nat
    BY <1>3, <1>5 DEF Rec
  <2> QED
    BY <1>4, <2>1 DEF OrderInv
<1>7. \A r \in charges' : Ahead(Taken, r.flow, r.source, r.at)
  BY <1>2, <1>4 DEF OrderInv
<1>8. \A q, r \in charges' : q.flow = r.flow => q = r
  BY <1>4
<1>9. Ordered(Taken')
  BY <1>3, <1>5, <1>6, <1>7, <1>8, OrderedTaking DEF OrderInv
<1>10. \A q \in Taken' : q.v \in 1 .. books'[q.flow] /\ q.at <= clock'
  <2>1. \A f \in Flow : /\ books'[f] \in Nat /\ books[f] <= books'[f]
                        /\ f \in silent => books'[f] = books[f] + 1
    BY <1>1, <1>3
  <2>2. ASSUME NEW q \in Taken PROVE q.v \in 1 .. books'[q.flow] /\ q.at <= clock'
    BY <1>2, <1>3, <1>6, <2>1, <2>2 DEF OrderInv
  <2>3. ASSUME NEW q \in charges' PROVE q.v \in 1 .. books'[q.flow] /\ q.at <= clock'
    BY <1>2, <1>3, <1>4, <2>1, <2>3
  <2> QED
    BY <1>5, <2>2, <2>3
<1>11. ASSUME NEW h \in hand', h.v = 0
       PROVE  Ahead(Taken', h.flow, "received", h.at)
  <2>1. h \in hand /\ h.flow \in Flow /\ \A r \in charges' : r.source # "received"
    BY <1>2, <1>4 DEF TypeOK, Rec
  <2>2. Ahead(Taken, h.flow, "received", h.at)
    BY <1>11, <2>1 DEF OrderInv
  <2> QED
    BY <1>3, <1>5, <1>6, <2>1, <2>2, AheadTaking
<1> QED
  BY <1>2, <1>9, <1>10, <1>11 DEF OrderInv

LEMMA SnapshotsOrdered == Spec => []OrderInv
<1>1. Init => OrderInv
  BY DEF Init, OrderInv, Taken, Ordered, Range, Off
<1>2. OrderInv /\ TypeOK /\ ChargesApart /\ [Next]_vars => OrderInv'
  <2> SUFFICES ASSUME OrderInv, TypeOK, ChargesApart, [Next]_vars PROVE OrderInv'
    OBVIOUS
  <2>0. clock \in Nat /\ clock <= clock
    BY DEF TypeOK
  <2>1. CASE Tick
    <3>1. Taken' = Taken /\ clock' = clock + 1 /\ UNCHANGED <<books, hand, swept>>
      BY <2>1 DEF Tick, receiver, client, Taken
    <3> QED BY <2>0, <3>1, OrderStays
  <2>2. ASSUME NEW f \in Flow, ReceiveStamps(f) PROVE OrderInv'
    <3> DEFINE h == Record(f, "received", clock, 0)
    <3>1. /\ hand = {} /\ hand' = {h}
          /\ UNCHANGED <<clock, books, charges, swept, records>>
      BY <2>2 DEF ReceiveStamps, client
    <3>2. h.v = 0 /\ h.at = clock /\ h.flow = f
      BY DEF Record
    <3> HIDE DEF h
    <3>3. Taken' = Taken
      BY <3>1, <3>2 DEF Taken
    <3>4. Ahead(Taken, f, "received", clock)
      BY NowIsAhead
    <3> QED BY <2>0, <3>1, <3>2, <3>3, <3>4 DEF OrderInv
  <2>3. CASE ReceiveScores
    BY <2>3, ScoresOrder
  <2>4. CASE ReceivePublishes
    <3>1. PICK r \in hand : r.v > 0 /\ Publish(r)
      BY <2>4 DEF ReceivePublishes
    <3>2. UNCHANGED <<clock, books, charges, swept>> /\ hand' = {}
      BY <2>4 DEF ReceivePublishes
    <3>3. Taken' \subseteq Taken
      BY <3>1, <3>2, PublishTakesNone DEF Taken, TypeOK
    <3> QED BY <2>0, <3>2, <3>3, OrderStays
  <2>5. CASE SweepStamps
    <3>1. swept' = clock /\ UNCHANGED <<clock, books, hand, charges, records>>
      BY <2>5 DEF SweepStamps, client
    <3>2. Taken' = Taken
      BY <3>1 DEF Taken
    <3>3. \A f \in Flow : Ahead(Taken, f, "sweep", clock)
      BY NowIsAhead
    <3> QED BY <3>1, <3>2, <3>3 DEF OrderInv
  <2>6. CASE SweepCharges
    BY <2>6, ChargesOrder
  <2>7. CASE SweepPublishes
    <3>1. PICK r \in charges : Publish(r) /\ charges' = charges \ {r}
      BY <2>7 DEF SweepPublishes
    <3>2. UNCHANGED <<clock, books, hand, swept>>
      BY <2>7 DEF SweepPublishes
    <3>3. Taken' \subseteq Taken
      BY <3>1, <3>2, PublishTakesNone DEF Taken, TypeOK
    <3> QED BY <2>0, <3>2, <3>3, OrderStays
  <2>8. CASE ProcessEnds
    <3>1. /\ UNCHANGED <<clock, books, records>> /\ hand' = {} /\ charges' = {}
          /\ swept' = Off
      BY <2>8 DEF ProcessEnds
    <3>2. Taken' \subseteq Taken
      BY <3>1 DEF Taken
    <3> QED BY <2>0, <3>1, <3>2, OrderStays
  <2>9. ASSUME \/ Starts \/ Listens \/ Dials \/ OnConnect \/ OnDisconnect \/ PubAck
               \/ Servers \/ TelegrafEnds \/ BrokerFails \/ LinkBreaks \/ UNCHANGED vars
        PROVE  OrderInv'
    <3>1. UNCHANGED <<clock, books, hand, charges, swept, records>>
      BY <2>9 DEF Starts, Listens, Dials, OnConnect, OnDisconnect, PubAck, Servers,
         BrokerReceives, TelegrafListens, Flushes, BrokerReturns, TelegrafEnds,
         BrokerFails, LinkBreaks, vars, receiver, client
    <3>2. Taken' = Taken
      BY <3>1 DEF Taken
    <3> QED BY <2>0, <3>1, <3>2, OrderStays
  <2> QED
    BY <2>1, <2>2, <2>3, <2>4, <2>5, <2>6, <2>7, <2>8, <2>9
    DEF Next, Threads, Process, Paho, GivesUp, GatewayEnds
<1> QED BY <1>1, <1>2, UplinkTyped, ChargesStayApart, PTL DEF Spec

\* The last snapshot and the one before: any older one is of the thread of one
\* of them, or both are of the other thread.
LEMMA OldestTwo ==
    ASSUME TypeOK, NEW A \in SUBSET Rec, Ordered(A), NEW last \in A, NEW before \in A,
           before.flow = last.flow, before.v < last.v,
           NEW q \in A, q.flow = last.flow, q.v < before.v
    PROVE  q.at <= before.at \/ q.at <= last.at
<1>1. \A r \in A : r.source \in {"received", "sweep"} /\ r.v \in Nat
  BY DEF Rec
<1>2. CASE before.source = last.source
  BY <1>2 DEF Ordered
<1>3. CASE q.source = before.source
  BY <1>3 DEF Ordered
<1>4. CASE q.source = last.source
  <2>1. q.v < last.v
    BY <1>1
  <2> QED
    BY <1>4, <2>1 DEF Ordered
<1> QED
  BY <1>1, <1>2, <1>3, <1>4

(***************************************************************************)
(* For every set of flows and bound: once all snapshots of a flow are in   *)
(* the database, the newest point is the last snapshot or the one before.  *)
(***************************************************************************)
THEOREM NewestIsRecent == Spec => []NewestAtMostOneBehind
<1>1. TypeOK /\ PointsTrue /\ OrderInv => NewestAtMostOneBehind
  <2> SUFFICES ASSUME TypeOK, PointsTrue, OrderInv, NEW f \in Flow, books[f] > 0,
                      (1 .. books[f]) = {r.v : r \in Points(f)}
               PROVE  \E r \in Points(f) :
                          /\ \A q \in Points(f) : q.at <= r.at
                          /\ r.v >= books[f] - 1
    BY DEF NewestAtMostOneBehind
  <2> DEFINE P == Points(f)
             B == books[f]
  <2>1. B \in Nat /\ B > 0
    BY DEF TypeOK
  <2>2. P \subseteq Taken /\ \A r \in P : r.flow = f
    BY DEF Points, PointsTrue, Taken, Range, Names
  <2>3. Taken \subseteq Rec /\ Ordered(Taken)
    BY TakenTyped DEF OrderInv
  <2>4. \A r \in P : r.v \in 1 .. B /\ r.at \in Nat /\ r.v \in Nat
    BY <2>2, <2>3 DEF OrderInv, Rec
  <2>5. \A n \in 1 .. B : \E r \in P : r.v = n
    OBVIOUS
  <2> HIDE DEF P, B
  <2>6. PICK last \in P : last.v = B
    BY <2>1, <2>5
  <2>7. \A r \in P : r.v = B => r = last
    BY <2>2, <2>3, <2>6 DEF Ordered
  <2>8. CASE B = 1
    <3>1. \A q \in P : q = last
      BY <2>4, <2>7, <2>8
    <3>2. last.at <= last.at /\ last.v >= B - 1
      BY <2>1, <2>4, <2>6
    <3> QED
      BY <3>1, <3>2 DEF P, B
  <2>9. CASE B # 1
    <3>1. B - 1 \in 1 .. B
      BY <2>1, <2>9
    <3>2. PICK before \in P : before.v = B - 1
      BY <2>5, <3>1
    <3>3. \A r \in P : r.v = B - 1 => r = before
      BY <2>2, <2>3, <3>2 DEF Ordered
    <3>4. before.v < last.v
      BY <2>1, <2>6, <3>2
    <3>5. ASSUME NEW q \in P
          PROVE  q.at <= before.at \/ q.at <= last.at
      <4>1. CASE q = last \/ q = before
        BY <2>4, <4>1
      <4>2. CASE q # last /\ q # before
        <5>1. q.v < before.v
          BY <2>1, <2>4, <2>7, <3>2, <3>3, <4>2
        <5> QED
          BY <2>2, <2>3, <3>4, <5>1, OldestTwo
      <4> QED
        BY <4>1, <4>2
    <3>6. CASE before.at <= last.at
      <4>1. \A q \in P : q.at <= last.at
        BY <2>4, <3>5, <3>6
      <4>2. last.v >= B - 1
        BY <2>1, <2>6
      <4> QED
        BY <4>1, <4>2 DEF P, B
    <3>7. CASE last.at <= before.at
      <4>1. \A q \in P : q.at <= before.at
        BY <2>4, <3>5, <3>7
      <4>2. before.v >= B - 1
        BY <2>1, <3>2
      <4> QED
        BY <4>1, <4>2 DEF P, B
    <3> QED
      BY <2>4, <3>6, <3>7
  <2> QED
    BY <2>8, <2>9
<1>2. AccountInv => PointsTrue
  BY DEF AccountInv
<1> QED
  BY <1>1, <1>2, UplinkTyped, AccountsHold, SnapshotsOrdered, PTL
=============================================================================
