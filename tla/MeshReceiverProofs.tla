------------------------- MODULE MeshReceiverProofs -------------------------
(***************************************************************************)
(* Proofs about the cadence tracker and the receiver around it.  Of the    *)
(* tracker and its two threads (CadencePdr), for every set of flows, every *)
(* cadence and window, and every bound: its books, that it counts what     *)
(* SweepFree counts, that the count does not drift, and that its window    *)
(* ends in what was charged.  Of the receiver on a mesh (MeshReceiver),    *)
(* for every set of nodes and kinds and every size of the window of        *)
(* remembered ids: duplicates, reboots and downtime.                       *)
(***************************************************************************)
EXTENDS MeshReceiver, SequenceTheorems, WellFoundedInduction, TLAPS

(***************************************************************************)
(* Rounding.                                                               *)
(***************************************************************************)

\* Division leaves a remainder below the divisor.
LEMMA DivMod ==
    ASSUME NEW n \in Int, NEW d \in Nat \ {0}
    PROVE  /\ n \div d \in Int
           /\ n % d \in 0 .. d - 1
           /\ n = d * (n \div d) + (n % d)
BY Z3

\* The rounded quotient is an integer within half a unit of the quotient.
LEMMA RoundBounds ==
    ASSUME NEW n \in Int, NEW d \in Nat \ {0}
    PROVE  /\ RoundHalfEven(n, d) \in Int
           /\ 2 * n <= d * (2 * RoundHalfEven(n, d) + 1)
           /\ d * (2 * RoundHalfEven(n, d) - 1) <= 2 * n
<1> DEFINE q == n \div d
           r == n % d
<1>1. q \in Int /\ r \in 0 .. d - 1 /\ n = d * q + r
  BY DivMod
<1>2. q % 2 \in Int
  BY <1>1
<1> QED
  BY <1>1, <1>2 DEF RoundHalfEven

\* Rounding preserves order: ties are broken by the quotient alone.
LEMMA RoundMonotone ==
    ASSUME NEW a \in Int, NEW b \in Int, NEW d \in Nat \ {0}, a <= b
    PROVE  RoundHalfEven(a, d) <= RoundHalfEven(b, d)
<1> DEFINE ra == RoundHalfEven(a, d)
           rb == RoundHalfEven(b, d)
<1>1. /\ ra \in Int /\ d * (2 * ra - 1) <= 2 * a
      /\ rb \in Int /\ 2 * b <= d * (2 * rb + 1)
  BY RoundBounds
<1>2. SUFFICES ASSUME ra > rb PROVE FALSE
  BY <1>1
<1> HIDE DEF ra, rb
<1>3. d * (2 * rb + 1) <= d * (2 * ra - 1)
  BY <1>1, <1>2
<1>4. a = b
  BY <1>1, <1>3
<1> QED
  BY <1>2, <1>4, <1>1 DEF ra, rb

(***************************************************************************)
(* The books: the charges of the open gaps and what they settle to.        *)
(***************************************************************************)

\* What a gap is worth is a natural number, and grows with the gap.
LEMMA DueType ==
    ASSUME NEW f \in Flow, NEW last \in Int, NEW now \in Int
    PROVE  Slots(f, last, now) \in Int /\ Due(f, last, now) \in Nat
<1>1. now - last \in Int /\ Interval[f] \in Nat \ {0}
  BY CadenceAssumption
<1>2. Slots(f, last, now) \in Int
  BY <1>1, RoundBounds DEF Slots
<1> QED
  BY <1>2 DEF Due, AtLeast

LEMMA DueMonotone ==
    ASSUME NEW f \in Flow, NEW last \in Int,
           NEW now \in Int, NEW later \in Int, now <= later
    PROVE  Due(f, last, now) <= Due(f, last, later)
<1>1. /\ now - last \in Int /\ later - last \in Int
      /\ now - last <= later - last
      /\ Interval[f] \in Nat \ {0}
  BY CadenceAssumption
<1>2. Slots(f, last, now) <= Slots(f, last, later)
  BY <1>1, RoundMonotone DEF Slots
<1> QED
  BY <1>2, DueType DEF Due, AtLeast

LEMMA WindowSlotsType == ASSUME NEW f \in Flow
                         PROVE  WindowSlots(f) \in Nat
<1>1. WindowSec[f] \in Int /\ Interval[f] \in Nat \ {0}
  BY CadenceAssumption
<1>2. RoundHalfEven(WindowSec[f], Interval[f]) \in Int
  BY <1>1, RoundBounds
<1> QED
  BY <1>2 DEF WindowSlots, AtLeast, MIN_WINDOW_SLOTS

\* The window stays a sequence of outcomes, whatever is pushed or popped.
Outcome == {0, 1}

LEMMA LossesType == ASSUME NEW n \in Nat PROVE Losses(n) \in Seq(Outcome)
BY IsASeq DEF Losses, Outcome

LEMMA PushedType ==
    ASSUME NEW f \in Flow, NEW r \in Seq(Outcome), NEW o \in Seq(Outcome)
    PROVE  Pushed(f, r, o) \in Seq(Outcome)
<1> DEFINE all  == r \o o
           drop == AtLeast(0, Len(all) - WindowSlots(f))
<1>1. all \in Seq(Outcome)
  BY ConcatProperties
<1>2. drop \in Nat
  BY <1>1, LenProperties, WindowSlotsType DEF AtLeast
<1>3. SubSeq(all, drop + 1, Len(all)) \in Seq(Outcome)
  BY <1>1, <1>2, SubSeqProperties, LenProperties
<1> QED
  BY <1>3 DEF Pushed

\* The position of the last reception exists: it is the least k with nothing
\* but losses behind it.
LEMMA LastHeardType ==
    ASSUME NEW r \in Seq(Outcome)
    PROVE  /\ LastHeard(r) \in 0 .. Len(r)
           /\ LastHeard(r) = 0 \/ r[LastHeard(r)] = 1
           /\ \A i \in LastHeard(r) + 1 .. Len(r) : r[i] = 0
<1> DEFINE OnlyLosses == {k \in 0 .. Len(r) : \A i \in k + 1 .. Len(r) : r[i] = 0}
<1>1. Len(r) \in Nat /\ \A i \in 1 .. Len(r) : r[i] \in Outcome
  BY LenProperties, ElementOfSeq
<1>2. OnlyLosses \subseteq Nat /\ Len(r) \in OnlyLosses
  BY <1>1
<1>3. PICK k \in OnlyLosses : \A j \in OnlyLosses : ~ (j < k)
  <2>1. PICK k \in OnlyLosses : \A j \in OnlyLosses : ~ (<<j, k>> \in OpToRel(<, Nat))
    BY <1>2, NatLessThanWellFounded, WFMin
  <2>2. ASSUME NEW j \in OnlyLosses, j < k PROVE FALSE
    BY <2>1, <2>2, <1>2 DEF OpToRel
  <2> QED BY <2>2
<1>4. k = 0 \/ r[k] = 1
  <2>1. SUFFICES ASSUME k # 0, r[k] # 1 PROVE FALSE
    OBVIOUS
  <2>2. k \in 1 .. Len(r) /\ r[k] = 0
    BY <2>1, <1>1 DEF Outcome
  <2>3. k - 1 \in OnlyLosses
    BY <2>2, <1>1
  <2>4. k - 1 < k
    BY <2>2, <1>1
  <2> QED BY <2>3, <2>4, <1>3
<1> QED
  BY <1>3, <1>4 DEF LastHeard

LEMMA WithoutTailType ==
    ASSUME NEW r \in Seq(Outcome), NEW n \in Nat
    PROVE  WithoutTail(r, n) \in Seq(Outcome)
<1>1. AtLeast(LastHeard(r), Len(r) - n) \in 0 .. Len(r)
  BY LastHeardType, LenProperties DEF AtLeast
<1> QED
  BY <1>1, SubSeqProperties, LenProperties DEF WithoutTail
-----------------------------------------------------------------------------
\* The inductive invariant.  What a sweep has charged is at most what the gap
\* is worth at the latest sweep: that is why a packet scored later than every
\* sweep can absorb the charge, and why the books stay exact.
UnheardUnsettled == \A f \in Flow \ DOMAIN flows : settled[f] = 0

IInv ==
    /\ TypeOK
    /\ ChargeWithinGap
    /\ NeverUndercounts
    /\ LedgerExact
    /\ UnheardUnsettled

LEMMA InitIInv == Init => IInv
BY DEF Init, IInv, TypeOK, TrackerInit, NoFlows, NothingSettled, NoGaps, Idle,
       ChargeWithinGap, NeverUndercounts, LedgerExact, UnheardUnsettled

\* A step that leaves the books, the sweeps and the history alone.
LEMMA IdleStep ==
    ASSUME IInv, TypeOK', UNCHANGED <<flows, history>>
    PROVE  IInv'
BY DEF IInv, history, ChargeWithinGap, NeverUndercounts, LedgerExact,
       UnheardUnsettled, Due, Slots

LEMMA TickStep == ASSUME IInv, Tick PROVE IInv'
<1>1. TypeOK'
  BY DEF IInv, TypeOK, Tick, FlowState, history
<1> QED
  BY <1>1, IdleStep DEF Tick

LEMMA ReceiveStep == ASSUME IInv, Receive PROVE IInv'
<1>1. TypeOK'
  BY DEF IInv, TypeOK, Receive, FlowState, history
<1> QED
  BY <1>1, IdleStep DEF Receive

LEMMA HandledStep == ASSUME IInv, Handled PROVE IInv'
<1>1. TypeOK'
  BY DEF IInv, TypeOK, Handled, FlowState, history, Idle
<1> QED
  BY <1>1, IdleStep DEF Handled

LEMMA SweepDueStep == ASSUME IInv, SweepDue PROVE IInv'
<1>1. TypeOK'
  BY DEF IInv, TypeOK, SweepDue, FlowState, history
<1> QED
  BY <1>1, IdleStep DEF SweepDue

LEMMA RestartStep == ASSUME IInv, Restart PROVE IInv'
BY DEF IInv, Restart, TypeOK, TrackerReset, NoFlows, NothingSettled, NoGaps, Idle,
       ChargeWithinGap, NeverUndercounts, LedgerExact, UnheardUnsettled

\* The flow f gets the state fl; every other flow, and what the history says
\* of it, stays.  What is left to show is about fl alone.
LEMMA OneFlowStep ==
    ASSUME NEW f \in Flow, NEW fl \in FlowState, IInv,
           flows' = [g \in DOMAIN flows \cup {f} |-> IF g = f THEN fl ELSE flows[g]],
           sweptAt' = sweptAt,
           \A g \in Flow : g # f => settled'[g] = settled[g],
           disturbed \subseteq disturbed', disturbed' \subseteq disturbed \cup {f},
           clock' \in Nat /\ held' \in Int /\ held' <= clock',
           refunds' \subseteq Flow, scores' \subseteq Flow, packets' \in Nat,
           sweepNow' \in Int /\ sweepNow' <= clock', sweptAt' <= clock',
           settled' \in [Flow -> Nat], gaps' \in [Flow -> [count: Nat, span: Int]],
           fl.charged <= Due(f, fl.last, sweptAt),
           fl.missed >= settled'[f] + fl.charged,
           f \notin disturbed' => fl.missed = settled'[f] + fl.charged
    PROVE  IInv'
<1>1. /\ DOMAIN flows \subseteq Flow /\ flows \in [DOMAIN flows -> FlowState]
      /\ disturbed \subseteq Flow /\ sweptAt \in Int
  BY DEF IInv, TypeOK
<1>2. /\ DOMAIN flows' = DOMAIN flows \cup {f}
      /\ flows'[f] = fl
      /\ \A g \in DOMAIN flows : g # f => flows'[g] = flows[g]
  OBVIOUS
<1>3. TypeOK'
  <2>1. flows' \in [DOMAIN flows' -> FlowState]
    BY <1>1, <1>2
  <2> QED BY <1>1, <1>2, <2>1 DEF TypeOK
<1>4. ASSUME NEW g \in DOMAIN flows'
      PROVE  /\ flows'[g].charged <= Due(g, flows'[g].last, sweptAt')
             /\ flows'[g].missed >= settled'[g] + flows'[g].charged
             /\ g \notin disturbed' => flows'[g].missed = settled'[g] + flows'[g].charged
  <2>1. CASE g = f
    BY <2>1, <1>2
  <2>2. CASE g # f
    <3>1. g \in DOMAIN flows /\ g \in Flow /\ flows'[g] = flows[g]
      BY <2>2, <1>1, <1>2
    <3>2. settled'[g] = settled[g] /\ (g \in disturbed' <=> g \in disturbed)
      BY <2>2, <3>1
    <3> QED
      BY <3>1, <3>2 DEF IInv, ChargeWithinGap, NeverUndercounts, LedgerExact
  <2> QED BY <2>1, <2>2
<1>5. ChargeWithinGap'
  BY <1>4 DEF ChargeWithinGap
<1>6. NeverUndercounts' /\ LedgerExact'
  BY <1>4 DEF NeverUndercounts, LedgerExact
<1>7. UnheardUnsettled'
  BY <1>2 DEF IInv, UnheardUnsettled
<1> QED BY <1>3, <1>5, <1>6, <1>7 DEF IInv

\* What the invariant says of a flow that has been heard.
LEMMA HeardFlow ==
    ASSUME NEW f \in DOMAIN flows, IInv
    PROVE  /\ f \in Flow
           /\ flows[f] \in FlowState
           /\ flows[f].last \in Int /\ flows[f].rx \in Nat /\ flows[f].missed \in Int
           /\ flows[f].early \in Nat /\ flows[f].charged \in Nat
           /\ flows[f].recent \in Seq(Outcome)
           /\ flows[f].charged <= Due(f, flows[f].last, sweptAt)
           /\ flows[f].missed >= settled[f] + flows[f].charged
           /\ f \notin disturbed => flows[f].missed = settled[f] + flows[f].charged
<1>1. f \in Flow /\ flows[f] \in FlowState
  BY DEF IInv, TypeOK
<1>2. /\ flows[f].charged <= Due(f, flows[f].last, sweptAt)
      /\ flows[f].missed >= settled[f] + flows[f].charged
      /\ f \notin disturbed => flows[f].missed = settled[f] + flows[f].charged
  BY DEF IInv, ChargeWithinGap, NeverUndercounts, LedgerExact
<1> QED BY <1>1, <1>2 DEF FlowState, Outcome

LEMMA ThreadTypes ==
    ASSUME IInv
    PROVE  /\ clock \in Nat /\ held \in Int /\ held <= clock
           /\ refunds \subseteq Flow /\ scores \subseteq Flow /\ packets \in Nat
           /\ sweepNow \in Int /\ sweepNow <= clock
           /\ sweptAt \in Int /\ sweptAt <= clock
           /\ settled \in [Flow -> Nat]
           /\ gaps \in [Flow -> [count: Nat, span: Int]]
           /\ disturbed \subseteq Flow
           /\ flows \in [DOMAIN flows -> FlowState]
BY DEF IInv, TypeOK

\* The state of a flow whose window is drawn from S: no fact about sequences
\* is needed to see that an update keeps the fields' types.
FlowOver(S) == [last: Int, rx: Nat, missed: Int, early: Nat, charged: Nat,
                restart: BOOLEAN, recent: S]

LEMMA FlowStateOver == FlowState = FlowOver(Seq(Outcome))
BY DEF FlowState, FlowOver, Outcome

\* A refund takes back the charge and nothing else.
LEMMA RefundPreserves ==
    ASSUME NEW f \in Flow, IInv, RefundStep(f) PROVE IInv'
<1>1. CASE f \notin DOMAIN flows
  <2>1. UNCHANGED <<flows, history>>
    BY <1>1 DEF RefundStep, Reanchor
  <2>2. TypeOK'
    BY <2>1 DEF IInv, TypeOK, RefundStep, FlowState, history
  <2> QED BY <2>1, <2>2, IdleStep
<1>2. CASE f \in DOMAIN flows
  <2> DEFINE tail == WithoutTail(flows[f].recent, flows[f].charged)
             left == flows[f].missed - flows[f].charged
             fl   == [flows[f] EXCEPT !.missed  = left,
                                      !.recent  = tail,
                                      !.charged = 0,
                                      !.last    = held,
                                      !.restart = TRUE]
  <2>1. tail \in Seq(Outcome)
    BY <1>2, HeardFlow, WithoutTailType
  <2>2. /\ fl \in FlowState
        /\ fl.charged = 0 /\ fl.missed = left
    <3> DEFINE W == Seq(Outcome)
    <3>1. /\ flows[f] \in FlowOver(W) /\ held \in Int
          /\ tail \in W /\ left \in Int /\ FlowState = FlowOver(W)
      BY <1>2, <2>1, HeardFlow, FlowStateOver, ThreadTypes
    <3> HIDE DEF W, left, tail
    <3> QED BY <3>1 DEF FlowOver
  <2>3. fl.last \in Int
    BY <2>2 DEF FlowState
  <2>4. flows' = [g \in DOMAIN flows \cup {f} |-> IF g = f THEN fl ELSE flows[g]]
    <3>1. flows' = [flows EXCEPT ![f] = fl]
      BY <1>2 DEF RefundStep, Reanchor
    <3> HIDE DEF fl
    <3> QED BY <1>2, <3>1, ThreadTypes
  <2> HIDE DEF fl
  <2>5. /\ fl.charged <= Due(f, fl.last, sweptAt)
        /\ fl.missed >= settled[f] + fl.charged
        /\ f \notin disturbed => fl.missed = settled[f] + fl.charged
    <3>1. settled[f] \in Nat /\ Due(f, fl.last, sweptAt) \in Nat
      BY <2>3, ThreadTypes, DueType
    <3> QED BY <1>2, <2>2, <3>1, HeardFlow
  <2>6. /\ UNCHANGED <<sweptAt, settled, gaps, disturbed, clock, held, scores,
                       packets, sweepNow>>
        /\ refunds' \subseteq Flow
    BY ThreadTypes DEF RefundStep, history
  <2> QED
    BY <2>2, <2>4, <2>5, <2>6, ThreadTypes, OneFlowStep
<1> QED BY <1>1, <1>2

\* The first packet of a flow opens books with nothing lost.
LEMMA FirstPreserves ==
    ASSUME NEW f \in Flow, IInv, ScoreStep(f), ObserveFirst(f, held) PROVE IInv'
<1> DEFINE fl == NewFlow(held)
<1>1. held \in Int
  BY ThreadTypes
<1>2. /\ fl \in FlowState /\ fl.charged = 0 /\ fl.missed = 0 /\ fl.last = held
  <2>1. <<1>> \in Seq({0, 1})
    OBVIOUS
  <2> QED BY <1>1, <2>1 DEF NewFlow, FlowState
<1>3. flows' = [g \in DOMAIN flows \cup {f} |-> IF g = f THEN fl ELSE flows[g]]
  BY DEF ObserveFirst
<1>4. f \notin DOMAIN flows
  BY DEF ObserveFirst
<1>5. /\ UNCHANGED <<settled, gaps, disturbed, clock, held, refunds, packets,
                     sweepNow, sweptAt>>
      /\ scores' \subseteq Flow
  BY <1>4, ThreadTypes DEF ScoreStep, Ends, Drops
<1> HIDE DEF fl
<1>6. /\ fl.charged <= Due(f, fl.last, sweptAt)
      /\ fl.missed = settled[f] + fl.charged
  <2>1. Due(f, fl.last, sweptAt) \in Nat
    BY <1>1, <1>2, ThreadTypes, DueType
  <2>2. settled[f] = 0
    BY <1>4 DEF IInv, UnheardUnsettled
  <2> QED BY <1>2, <2>1, <2>2
<1> QED BY <1>2, <1>3, <1>5, <1>6, ThreadTypes, OneFlowStep

\* The first packet after a reboot: a charge still pending is not given back,
\* so the flow is disturbed if there is one.
LEMMA RestartedPreserves ==
    ASSUME NEW f \in Flow, IInv, ScoreStep(f), ObserveRestart(f, held) PROVE IInv'
<1> DEFINE w  == Pushed(f, flows[f].recent, <<1>>)
           n  == flows[f].rx + 1
           fl == [flows[f] EXCEPT !.restart = FALSE, !.rx = n, !.last = held,
                                  !.charged = 0, !.recent = w]
<1>1. f \in DOMAIN flows /\ flows[f].restart
  BY DEF ObserveRestart
<1>2. /\ fl \in FlowState /\ fl.charged = 0 /\ fl.missed = flows[f].missed
      /\ fl.last \in Int
  <2> DEFINE W == Seq(Outcome)
  <2>1. <<1>> \in W
    BY DEF Outcome
  <2>2. w \in W
    BY <1>1, <2>1, HeardFlow, PushedType
  <2>3. /\ flows[f] \in FlowOver(W) /\ held \in Int /\ n \in Nat
        /\ FlowState = FlowOver(W)
    BY <1>1, HeardFlow, FlowStateOver, ThreadTypes
  <2> HIDE DEF W, n, w
  <2> QED BY <2>2, <2>3 DEF FlowOver
<1>3. flows' = [g \in DOMAIN flows \cup {f} |-> IF g = f THEN fl ELSE flows[g]]
  <2>1. flows' = [flows EXCEPT ![f] = fl]
    BY <1>1 DEF ObserveRestart
  <2> HIDE DEF fl
  <2> QED BY <1>1, <2>1, ThreadTypes
<1>4. /\ UNCHANGED <<settled, gaps, clock, held, refunds, packets, sweepNow, sweptAt>>
      /\ scores' \subseteq Flow
      /\ disturbed \subseteq disturbed' /\ disturbed' \subseteq disturbed \cup {f}
      /\ flows[f].charged > 0 => f \in disturbed'
  BY <1>1, ThreadTypes DEF ScoreStep, Ends, Drops
<1> HIDE DEF fl
<1>5. /\ fl.charged <= Due(f, fl.last, sweptAt)
      /\ fl.missed >= settled[f] + fl.charged
      /\ f \notin disturbed' => fl.missed = settled[f] + fl.charged
  <2>1. settled[f] \in Nat /\ Due(f, fl.last, sweptAt) \in Nat
    BY <1>2, ThreadTypes, DueType
  <2> QED BY <1>1, <1>2, <1>4, <2>1, HeardFlow
<1> QED BY <1>2, <1>3, <1>4, <1>5, ThreadTypes, OneFlowStep

\* An extra packet is counted and changes nothing else.
LEMMA EarlyPreserves ==
    ASSUME NEW f \in Flow, IInv, ScoreStep(f), ObserveEarly(f, held) PROVE IInv'
<1> DEFINE n  == flows[f].early + 1
           fl == [flows[f] EXCEPT !.early = n]
<1>1. f \in DOMAIN flows /\ Slots(f, flows[f].last, held) = 0
  BY DEF ObserveEarly
<1>2. /\ fl \in FlowState /\ fl.charged = flows[f].charged
      /\ fl.missed = flows[f].missed /\ fl.last = flows[f].last
  <2> DEFINE W == Seq(Outcome)
  <2>1. flows[f] \in FlowOver(W) /\ n \in Nat /\ FlowState = FlowOver(W)
    BY <1>1, HeardFlow, FlowStateOver
  <2> HIDE DEF W, n
  <2> QED BY <2>1 DEF FlowOver
<1>3. flows' = [g \in DOMAIN flows \cup {f} |-> IF g = f THEN fl ELSE flows[g]]
  <2>1. flows' = [flows EXCEPT ![f] = fl]
    BY <1>1 DEF ObserveEarly
  <2> HIDE DEF fl
  <2> QED BY <1>1, <2>1, ThreadTypes
<1>4. /\ UNCHANGED <<settled, gaps, clock, held, refunds, packets, sweepNow, sweptAt>>
      /\ scores' \subseteq Flow
      /\ disturbed \subseteq disturbed' /\ disturbed' \subseteq disturbed \cup {f}
  BY <1>1, ThreadTypes DEF ScoreStep, Ends, Drops
<1> HIDE DEF fl
<1>5. /\ fl.charged <= Due(f, fl.last, sweptAt)
      /\ fl.missed >= settled[f] + fl.charged
      /\ f \notin disturbed' => fl.missed = settled[f] + fl.charged
  BY <1>1, <1>2, <1>4, HeardFlow
<1> QED BY <1>2, <1>3, <1>4, <1>5, ThreadTypes, OneFlowStep

\* The packet that ends a gap.  If no sweep is ahead of its reading, what was
\* charged is at most what the gap is worth, and it tops the charge up to it;
\* if one is ahead, the excess stays and the flow is disturbed.
LEMMA ScheduledPreserves ==
    ASSUME NEW f \in Flow, IInv, ScoreStep(f), ObserveScheduled(f, held) PROVE IInv'
<1> DEFINE more == MissedNow(f, held)
           w  == Pushed(f, flows[f].recent, Losses(more) \o <<1>>)
           n  == flows[f].rx + 1
           m  == flows[f].missed + more
           fl == [flows[f] EXCEPT !.rx = n, !.missed = m, !.last = held,
                                  !.charged = 0, !.recent = w]
           worth == Due(f, flows[f].last, held)
<1>1. /\ f \in DOMAIN flows /\ ~flows[f].restart
      /\ Slots(f, flows[f].last, held) # 0
  BY DEF ObserveScheduled
<1>2. /\ Slots(f, flows[f].last, held) \in Int /\ worth \in Nat
      /\ Due(f, flows[f].last, sweptAt) \in Nat
      /\ held >= sweptAt => Due(f, flows[f].last, sweptAt) <= worth
  BY <1>1, HeardFlow, ThreadTypes, DueType, DueMonotone
<1>3. /\ more \in Nat
      /\ more + flows[f].charged >= worth
      /\ flows[f].charged <= worth => more + flows[f].charged = worth
  BY <1>1, <1>2, HeardFlow DEF MissedNow, Due, AtLeast
<1> HIDE DEF more, worth
<1>4. /\ fl \in FlowState /\ fl.charged = 0 /\ fl.missed = m /\ fl.last \in Int
  <2> DEFINE W == Seq(Outcome)
             o == Losses(more) \o <<1>>
  <2>1. <<1>> \in W /\ Losses(more) \in W
    BY <1>3, LossesType DEF Outcome
  <2>2. o \in W
    BY <2>1, ConcatProperties
  <2>3. w \in W
    <3> HIDE DEF o
    <3> QED BY <1>1, <2>2, HeardFlow, PushedType DEF o
  <2>4. /\ flows[f] \in FlowOver(W) /\ held \in Int /\ n \in Nat /\ m \in Int
        /\ FlowState = FlowOver(W)
    <3>1. flows[f] \in FlowOver(W) /\ FlowState = FlowOver(W)
      BY <1>1, HeardFlow, FlowStateOver
    <3>2. held \in Int
      BY <1>1, ThreadTypes
    <3>3. n \in Nat /\ m \in Int
      <4>1. flows[f].rx \in Nat /\ flows[f].missed \in Int
        BY <1>1, HeardFlow
      <4> QED BY <1>3, <4>1
    <3> QED BY <3>1, <3>2, <3>3
  <2> HIDE DEF W, n, m, w
  <2> QED BY <2>3, <2>4 DEF FlowOver
<1>5. flows' = [g \in DOMAIN flows \cup {f} |-> IF g = f THEN fl ELSE flows[g]]
  <2>1. flows' = [flows EXCEPT ![f] = fl]
    BY <1>1 DEF ObserveScheduled, more
  <2> HIDE DEF fl
  <2> QED BY <1>1, <2>1, ThreadTypes
<1>6. /\ UNCHANGED <<clock, held, refunds, packets, sweepNow, sweptAt>>
      /\ scores' \subseteq Flow
      /\ disturbed \subseteq disturbed' /\ disturbed' \subseteq disturbed \cup {f}
      /\ flows[f].charged > 0 /\ held < sweptAt => f \in disturbed'
      /\ settled' = [settled EXCEPT ![f] = @ + worth]
      /\ gaps' = [gaps EXCEPT ![f].count = @ + 1,
                              ![f].span  = @ + (held - flows[f].last)]
  BY <1>1, ThreadTypes DEF ScoreStep, Ends, Drops, worth
<1>7. /\ settled' \in [Flow -> Nat] /\ settled'[f] = settled[f] + worth
      /\ \A g \in Flow : g # f => settled'[g] = settled[g]
      /\ gaps' \in [Flow -> [count: Nat, span: Int]]
  <2>1. settled[f] + worth \in Nat /\ held - flows[f].last \in Int
    BY <1>1, <1>2, ThreadTypes, HeardFlow DEF worth
  <2>2. /\ settled' \in [Flow -> Nat] /\ settled'[f] = settled[f] + worth
        /\ \A g \in Flow : g # f => settled'[g] = settled[g]
    BY <1>6, <2>1, ThreadTypes
  <2>3. gaps' \in [Flow -> [count: Nat, span: Int]]
    <3> DEFINE c == gaps[f].count + 1
               d == gaps[f].span + (held - flows[f].last)
               p == [gaps[f] EXCEPT !.count = c, !.span = d]
    <3>1. gaps' = [gaps EXCEPT ![f] = p]
      BY <1>6
    <3>2. p \in [count: Nat, span: Int]
      <4>1. gaps[f] \in [count: Nat, span: Int]
        BY ThreadTypes
      <4>2. c \in Nat /\ d \in Int
        BY <2>1, <4>1
      <4> HIDE DEF c, d
      <4> QED BY <4>1, <4>2
    <3> HIDE DEF p
    <3> QED BY <3>1, <3>2, ThreadTypes
  <2> QED BY <2>2, <2>3
<1> HIDE DEF fl
<1>8. /\ fl.charged <= Due(f, fl.last, sweptAt)
      /\ fl.missed >= settled'[f] + fl.charged
      /\ f \notin disturbed' => fl.missed = settled'[f] + fl.charged
  <2>1. settled[f] \in Nat /\ Due(f, fl.last, sweptAt) \in Nat
    BY <1>4, ThreadTypes, DueType
  <2>0. /\ flows[f].charged \in Nat /\ flows[f].missed \in Int
        /\ held \in Int /\ sweptAt \in Int
        /\ flows[f].charged <= Due(f, flows[f].last, sweptAt)
        /\ flows[f].missed >= settled[f] + flows[f].charged
        /\ f \notin disturbed => flows[f].missed = settled[f] + flows[f].charged
    BY <1>1, HeardFlow, ThreadTypes
  <2>2. f \notin disturbed' => flows[f].charged <= worth
    BY <1>2, <1>6, <2>0
  <2>3. fl.charged <= Due(f, fl.last, sweptAt)
    BY <1>4, <2>1
  <2>4. fl.missed >= settled'[f] + fl.charged
    BY <1>2, <1>3, <1>4, <1>7, <2>0, <2>1
  <2>5. f \notin disturbed' => fl.missed = settled'[f] + fl.charged
    BY <1>2, <1>3, <1>4, <1>6, <1>7, <2>0, <2>1, <2>2
  <2> QED BY <2>3, <2>4, <2>5
<1> QED BY <1>4, <1>5, <1>6, <1>7, <1>8, ThreadTypes, OneFlowStep

LEMMA ScorePreserves ==
    ASSUME NEW f \in Flow, IInv, ScoreStep(f) PROVE IInv'
BY FirstPreserves, RestartedPreserves, EarlyPreserves, ScheduledPreserves
   DEF ScoreStep, Observe

\* A sweep raises what is charged to what the gap is worth at its reading.
LEMMA SweepPreserves == ASSUME IInv, RunSweep PROVE IInv'
<1>1. /\ flows' = [f \in DOMAIN flows |->
                      IF f \in Changed(sweepNow) THEN Charge(f, sweepNow) ELSE flows[f]]
      /\ UNCHANGED <<clock, held, refunds, scores, packets, settled, gaps, disturbed>>
      /\ sweptAt' = AtLeast(sweptAt, sweepNow)
      /\ sweepNow' = Idle
  BY DEF RunSweep, Sweep
<1>2. /\ sweptAt' \in Int /\ sweptAt' <= clock
      /\ sweptAt <= sweptAt' /\ sweepNow <= sweptAt'
  BY <1>1, ThreadTypes DEF AtLeast
<1>3. DOMAIN flows' = DOMAIN flows
  BY <1>1
<1>4. ASSUME NEW f \in DOMAIN flows
      PROVE  /\ flows'[f] \in FlowState
             /\ flows'[f].charged <= Due(f, flows'[f].last, sweptAt')
             /\ flows'[f].missed >= settled[f] + flows'[f].charged
             /\ f \notin disturbed => flows'[f].missed = settled[f] + flows'[f].charged
  <2>1. /\ f \in Flow /\ settled[f] \in Nat
        /\ Due(f, flows[f].last, sweptAt) <= Due(f, flows[f].last, sweptAt')
        /\ Due(f, flows[f].last, sweepNow) <= Due(f, flows[f].last, sweptAt')
        /\ Due(f, flows[f].last, sweepNow) \in Nat
        /\ Due(f, flows[f].last, sweptAt) \in Nat
        /\ Due(f, flows[f].last, sweptAt') \in Nat
    BY <1>2, HeardFlow, ThreadTypes, DueType, DueMonotone
  <2>2. CASE f \notin Changed(sweepNow)
    <3>1. flows'[f] = flows[f]
      BY <1>1, <2>2
    <3> QED BY <2>1, <3>1, HeardFlow
  <2>3. CASE f \in Changed(sweepNow)
    <3> DEFINE more == Delta(f, sweepNow)
               w == Pushed(f, flows[f].recent, Losses(more))
               m == flows[f].missed + more
               c == flows[f].charged + more
               fl == [flows[f] EXCEPT !.missed = m, !.charged = c, !.recent = w]
    <3>1. flows'[f] = fl
      BY <1>1, <2>3 DEF Charge
    <3>2. /\ more \in Nat
          /\ c <= Due(f, flows[f].last, sweptAt')
      BY <2>1, HeardFlow DEF Delta, AtLeast
    <3> HIDE DEF more
    <3>3. /\ fl \in FlowState /\ fl.charged = c /\ fl.missed = m
          /\ fl.last = flows[f].last
      <4> DEFINE W == Seq(Outcome)
      <4>1. Losses(more) \in W
        BY <3>2, LossesType
      <4>2. w \in W
        BY <2>1, <4>1, HeardFlow, PushedType
      <4>3. flows[f] \in FlowOver(W) /\ m \in Int /\ c \in Nat /\ FlowState = FlowOver(W)
        BY <3>2, HeardFlow, FlowStateOver
      <4> HIDE DEF W, w, m, c
      <4> QED BY <4>2, <4>3 DEF FlowOver
    <3> HIDE DEF fl
    <3> QED BY <2>1, <3>1, <3>2, <3>3, HeardFlow
  <2> QED BY <2>2, <2>3
<1>5. TypeOK'
  <2>1. flows' \in [DOMAIN flows' -> FlowState] /\ DOMAIN flows' \subseteq Flow
    BY <1>1, <1>3, <1>4, HeardFlow
  <2>2. Idle \in Int /\ Idle <= clock
    BY ThreadTypes DEF Idle
  <2> QED BY <1>1, <1>2, <2>1, <2>2, ThreadTypes DEF TypeOK
<1>6. ChargeWithinGap'
  BY <1>3, <1>4 DEF ChargeWithinGap
<1>7. NeverUndercounts' /\ LedgerExact'
  BY <1>1, <1>3, <1>4 DEF NeverUndercounts, LedgerExact
<1>8. UnheardUnsettled'
  BY <1>1, <1>3 DEF IInv, UnheardUnsettled
<1> QED BY <1>5, <1>6, <1>7, <1>8 DEF IInv

LEMMA NextIInv == IInv /\ [Next]_vars => IInv'
<1>1. SUFFICES ASSUME IInv, [Next]_vars PROVE IInv'
  OBVIOUS
<1>2. CASE UNCHANGED vars
  <2>1. TypeOK'
    BY <1>1, <1>2 DEF vars, threads, history, IInv, TypeOK
  <2> QED BY <1>1, <1>2, <2>1, IdleStep DEF vars
<1>3. CASE Tick
  BY <1>1, <1>3, TickStep
<1>4. CASE Receive
  BY <1>1, <1>4, ReceiveStep
<1>5. ASSUME NEW f \in Flow, RefundStep(f) \/ ScoreStep(f) PROVE IInv'
  BY <1>1, <1>5, RefundPreserves, ScorePreserves
<1>6. CASE Handled
  BY <1>1, <1>6, HandledStep
<1>7. CASE SweepDue
  BY <1>1, <1>7, SweepDueStep
<1>8. CASE RunSweep
  BY <1>1, <1>8, SweepPreserves
<1>9. CASE Restart
  BY <1>1, <1>9, RestartStep
<1> QED
  BY <1>1, <1>2, <1>3, <1>4, <1>5, <1>6, <1>7, <1>8, <1>9 DEF Next

LEMMA Invariance == Spec => []IInv
BY InitIInv, NextIInv, PTL DEF Spec
-----------------------------------------------------------------------------
\* The tracker's state keeps its shape under every interleaving of the two
\* threads, for every set of flows, every cadence and every window.
THEOREM TypeCorrect == Spec => []TypeOK
<1>1. IInv => TypeOK
  BY DEF IInv
<1> QED BY <1>1, Invariance, PTL

\* No loss is counted twice, by a sweep and again by the packet that ends the
\* gap, and none is forgotten, while no charge has been dropped unreckoned.
THEOREM LedgerIsExact == Spec => []LedgerExact
<1>1. IInv => LedgerExact
  BY DEF IInv
<1> QED BY <1>1, Invariance, PTL

\* No interleaving of sweeps, refunds and packets makes the tracker count
\* fewer losses than the gaps it has scored account for.
THEOREM BooksNeverUndercount == Spec => []NeverUndercounts
<1>1. IInv => NeverUndercounts
  BY DEF IInv
<1> QED BY <1>1, Invariance, PTL

\* A sweep never charges a gap more than the gap is worth.
THEOREM ChargesStayWithinGaps == Spec => []ChargeWithinGap
<1>1. IInv => ChargeWithinGap
  BY DEF IInv
<1> QED BY <1>1, Invariance, PTL

(***************************************************************************)
(* The abstract estimator: drift, the end of the window, and the step by   *)
(* step refinement of SweepFree.                                           *)
(***************************************************************************)

\* Clock readings are instants of the clock, and a flow's anchor is one that
\* was read no later than the packet now being handled.
TimesInRange ==
    /\ clock \in 0 .. MaxClock
    /\ held \in {Idle} \cup 0 .. clock

AnchorsBehind ==
    \A f \in DOMAIN flows : /\ flows[f].last <= clock
                            /\ held # Idle => flows[f].last <= held

DisturbedHeard == disturbed \subseteq DOMAIN flows

\* The count of an estimator that never sweeps is off by at most half an
\* interval per gap.
SettledDrift ==
    \A f \in Flow :
        LET drift == Interval[f] * (gaps[f].count + settled[f]) - gaps[f].span
        IN  /\ 2 * drift <= Interval[f] * gaps[f].count
            /\ -2 * drift <= Interval[f] * gaps[f].count

\* The window holds no more than it may, and ends in what was charged.
Trailing(fl) ==
    Len(fl.recent) - LastHeard(fl.recent)
WindowTrue(f, fl) ==
    /\ Len(fl.recent) <= WindowSlots(f)
    /\ \/ Trailing(fl) = fl.charged
       \/ /\ Trailing(fl) = Len(fl.recent)
          /\ Trailing(fl) < fl.charged
          /\ Trailing(fl) = WindowSlots(f)

WindowsTrue == \A f \in DOMAIN flows : WindowTrue(f, flows[f])

RInv == TimesInRange /\ AnchorsBehind /\ DisturbedHeard /\ SettledDrift /\ WindowsTrue
-----------------------------------------------------------------------------
\* What each call of the tracker makes of the flow it is about: the other flows
\* stay as they are.
OthersStay(f) ==
    /\ DOMAIN flows' = DOMAIN flows \cup {f}
    /\ \A g \in DOMAIN flows : g # f => flows'[g] = flows[g]

LEMMA FlowFields ==
    ASSUME NEW f \in DOMAIN flows, IInv
    PROVE  /\ f \in Flow
           /\ flows[f] = [last |-> flows[f].last, rx |-> flows[f].rx,
                          missed |-> flows[f].missed, early |-> flows[f].early,
                          charged |-> flows[f].charged, restart |-> flows[f].restart,
                          recent |-> flows[f].recent]
           /\ flows[f].restart \in BOOLEAN
<1> DEFINE W == Seq(Outcome)
<1>1. flows[f] \in FlowOver(W) /\ f \in Flow
  BY HeardFlow, FlowStateOver
<1> HIDE DEF W
<1> QED BY <1>1 DEF FlowOver

LEMMA RefundedFlow ==
    ASSUME NEW f \in DOMAIN flows, IInv, RefundStep(f)
    PROVE  /\ OthersStay(f)
           /\ flows'[f] = [flows[f] EXCEPT
                              !.missed  = flows[f].missed - flows[f].charged,
                              !.recent  = WithoutTail(flows[f].recent, flows[f].charged),
                              !.charged = 0, !.last = held, !.restart = TRUE]
<1>1. flows' = [flows EXCEPT ![f] = [flows[f] EXCEPT
                              !.missed  = flows[f].missed - flows[f].charged,
                              !.recent  = WithoutTail(flows[f].recent, flows[f].charged),
                              !.charged = 0, !.last = held, !.restart = TRUE]]
  BY DEF RefundStep, Reanchor
<1> QED BY <1>1, ThreadTypes DEF OthersStay

LEMMA RestartedFlow ==
    ASSUME NEW f \in Flow, IInv, ObserveRestart(f, held)
    PROVE  /\ f \in DOMAIN flows /\ OthersStay(f)
           /\ flows'[f] = [flows[f] EXCEPT
                              !.restart = FALSE, !.rx = flows[f].rx + 1, !.last = held,
                              !.charged = 0,
                              !.recent = Pushed(f, flows[f].recent, <<1>>)]
<1>1. flows' = [flows EXCEPT ![f] = [flows[f] EXCEPT
                              !.restart = FALSE, !.rx = flows[f].rx + 1, !.last = held,
                              !.charged = 0,
                              !.recent = Pushed(f, flows[f].recent, <<1>>)]]
  BY DEF ObserveRestart
<1>2. f \in DOMAIN flows
  BY DEF ObserveRestart
<1> QED BY <1>1, <1>2, ThreadTypes DEF OthersStay

LEMMA EarlyFlow ==
    ASSUME NEW f \in Flow, IInv, ObserveEarly(f, held)
    PROVE  /\ f \in DOMAIN flows /\ OthersStay(f)
           /\ flows'[f] = [flows[f] EXCEPT !.early = flows[f].early + 1]
<1>1. flows' = [flows EXCEPT ![f] = [flows[f] EXCEPT !.early = flows[f].early + 1]]
  BY DEF ObserveEarly
<1>2. f \in DOMAIN flows
  BY DEF ObserveEarly
<1> QED BY <1>1, <1>2, ThreadTypes DEF OthersStay

LEMMA ScheduledFlow ==
    ASSUME NEW f \in Flow, IInv, ObserveScheduled(f, held)
    PROVE  /\ f \in DOMAIN flows /\ OthersStay(f)
           /\ flows'[f] = [flows[f] EXCEPT
                              !.rx = flows[f].rx + 1,
                              !.missed = flows[f].missed + MissedNow(f, held),
                              !.last = held, !.charged = 0,
                              !.recent = Pushed(f, flows[f].recent,
                                             Losses(MissedNow(f, held)) \o <<1>>)]
<1>1. flows' = [flows EXCEPT ![f] = [flows[f] EXCEPT
                              !.rx = flows[f].rx + 1,
                              !.missed = flows[f].missed + MissedNow(f, held),
                              !.last = held, !.charged = 0,
                              !.recent = Pushed(f, flows[f].recent,
                                             Losses(MissedNow(f, held)) \o <<1>>)]]
  BY DEF ObserveScheduled
<1>2. f \in DOMAIN flows
  BY DEF ObserveScheduled
<1> QED BY <1>1, <1>2, ThreadTypes DEF OthersStay

\* A packet scored on f, by cases: what becomes of f and of its history.
LEMMA ScoredFlow ==
    ASSUME NEW f \in Flow, IInv, ScoreStep(f)
    PROVE  /\ OthersStay(f)
           /\ flows'[f].last \in {held, flows[f].last}
           /\ flows'[f].last = held \/ f \in DOMAIN flows
<1>1. CASE ObserveFirst(f, held)
  <2>1. flows' = [g \in DOMAIN flows \cup {f} |->
                    IF g = f THEN NewFlow(held) ELSE flows[g]]
    BY <1>1 DEF ObserveFirst
  <2>2. NewFlow(held).last = held
    BY DEF NewFlow
  <2>3. f \notin DOMAIN flows
    BY <1>1 DEF ObserveFirst
  <2> HIDE DEF NewFlow
  <2> QED BY <2>1, <2>2, <2>3 DEF OthersStay
<1>2. CASE ObserveRestart(f, held)
  BY <1>2, RestartedFlow, FlowFields
<1>3. CASE ObserveEarly(f, held)
  BY <1>3, EarlyFlow, FlowFields
<1>4. CASE ObserveScheduled(f, held)
  BY <1>4, ScheduledFlow, FlowFields
<1> QED BY <1>1, <1>2, <1>3, <1>4 DEF ScoreStep, Observe

LEMMA SweptFlow ==
    ASSUME NEW f \in DOMAIN flows, IInv, RunSweep
    PROVE  /\ DOMAIN flows' = DOMAIN flows
           /\ \/ Delta(f, sweepNow) > 0 /\ flows'[f] = Charge(f, sweepNow)
              \/ flows'[f] = flows[f]
BY DEF RunSweep, Sweep, Changed

LEMMA ChargedFields ==
    ASSUME NEW f \in DOMAIN flows, IInv
    PROVE  LET more == Delta(f, sweepNow)
           IN  Charge(f, sweepNow) =
                 [last |-> flows[f].last, rx |-> flows[f].rx,
                  missed |-> flows[f].missed + more, early |-> flows[f].early,
                  charged |-> flows[f].charged + more, restart |-> flows[f].restart,
                  recent |-> Pushed(f, flows[f].recent, Losses(more))]
<1> DEFINE W == Seq(Outcome)
           m == flows[f].missed + Delta(f, sweepNow)
           c == flows[f].charged + Delta(f, sweepNow)
           w == Pushed(f, flows[f].recent, Losses(Delta(f, sweepNow)))
<1>1. flows[f] \in FlowOver(W)
  BY HeardFlow, FlowStateOver
<1>2. Charge(f, sweepNow) = [flows[f] EXCEPT !.missed = m, !.charged = c, !.recent = w]
  BY DEF Charge
<1> HIDE DEF W, m, c, w
<1>3. Charge(f, sweepNow) =
        [last |-> flows[f].last, rx |-> flows[f].rx, missed |-> m,
         early |-> flows[f].early, charged |-> c, restart |-> flows[f].restart,
         recent |-> w]
  BY <1>1, <1>2 DEF FlowOver
<1> QED BY <1>3 DEF m, c, w
-----------------------------------------------------------------------------
LEMMA TimesStep ==
    ASSUME TimesInRange, [Next]_vars
    PROVE  TimesInRange'
<1> USE DEF TimesInRange, history
<1>1. clock \in Nat /\ MaxClock \in Nat
  BY BoundAssumption
<1>2. CASE Tick
  BY <1>1, <1>2 DEF Tick
<1>3. CASE Receive
  BY <1>1, <1>3 DEF Receive
<1>4. CASE Handled \/ Restart
  BY <1>4 DEF Handled, Restart
<1>5. CASE (\E f \in Flow : RefundStep(f) \/ ScoreStep(f)) \/ SweepDue \/ RunSweep
           \/ UNCHANGED vars
  BY <1>5 DEF RefundStep, ScoreStep, SweepDue, RunSweep, vars, threads
<1> QED BY <1>2, <1>3, <1>4, <1>5 DEF Next

LEMMA AnchorsStep ==
    ASSUME IInv, TimesInRange, AnchorsBehind, [Next]_vars
    PROVE  AnchorsBehind'
<1>1. /\ clock \in Nat /\ held \in Int /\ Idle \notin Nat
      /\ held # Idle => held <= clock
      /\ \A f \in DOMAIN flows : flows[f].last \in Int
  BY HeardFlow, ThreadTypes DEF TimesInRange, Idle
<1>2. CASE Tick \/ Receive \/ Handled \/ SweepDue \/ UNCHANGED vars
  BY <1>1, <1>2 DEF Tick, Receive, Handled, SweepDue, vars, threads, history, AnchorsBehind
<1>3. ASSUME NEW f \in Flow, OthersStay(f), UNCHANGED <<clock, held>>, held # Idle,
             flows'[f].last = held \/ (f \in DOMAIN flows /\ flows'[f].last = flows[f].last)
      PROVE  AnchorsBehind'
  <2>1. flows'[f].last <= clock /\ flows'[f].last <= held
    BY <1>1, <1>3 DEF AnchorsBehind
  <2> QED BY <1>3, <2>1 DEF OthersStay, AnchorsBehind
<1>4. ASSUME NEW f \in Flow, RefundStep(f)
      PROVE  AnchorsBehind'
  <2>1. CASE f \in DOMAIN flows
    <3>1. flows'[f].last = held /\ OthersStay(f)
      BY <1>4, <2>1, RefundedFlow, FlowFields
    <3> QED BY <1>3, <1>4, <3>1 DEF RefundStep
  <2>2. CASE f \notin DOMAIN flows
    BY <1>4, <2>2 DEF RefundStep, Reanchor, AnchorsBehind
  <2> QED BY <2>1, <2>2
<1>5. ASSUME NEW f \in Flow, ScoreStep(f)
      PROVE  AnchorsBehind'
  BY <1>3, <1>5, ScoredFlow DEF ScoreStep
<1>6. CASE RunSweep
  <2>1. ASSUME NEW f \in DOMAIN flows PROVE flows'[f].last = flows[f].last
    BY <1>6, SweptFlow, ChargedFields
  <2> QED BY <1>6, <2>1, SweptFlow DEF RunSweep, Sweep, AnchorsBehind
<1>7. CASE Restart
  BY <1>7 DEF Restart, TrackerReset, NoFlows, AnchorsBehind
<1> QED BY <1>2, <1>4, <1>5, <1>6, <1>7 DEF Next

LEMMA DisturbedStep ==
    ASSUME IInv, DisturbedHeard, [Next]_vars
    PROVE  DisturbedHeard'
<1>1. CASE Tick \/ Receive \/ Handled \/ SweepDue \/ UNCHANGED vars
  BY <1>1 DEF Tick, Receive, Handled, SweepDue, vars, history, DisturbedHeard
<1>2. ASSUME NEW f \in Flow, RefundStep(f)
      PROVE  DisturbedHeard'
  BY <1>2, RefundedFlow DEF RefundStep, Reanchor, OthersStay, history, DisturbedHeard
<1>3. ASSUME NEW f \in Flow, ScoreStep(f)
      PROVE  DisturbedHeard'
  BY <1>3, ScoredFlow DEF ScoreStep, OthersStay, DisturbedHeard
<1>4. CASE RunSweep
  BY <1>4 DEF RunSweep, Sweep, DisturbedHeard
<1>5. CASE Restart
  BY <1>5 DEF Restart, DisturbedHeard
<1> QED BY <1>1, <1>2, <1>3, <1>4, <1>5 DEF Next

\* A gap that ends adds one packet heard and what rounding makes of its length:
\* at most half an interval too much or too little.  Its length is not negative,
\* for no anchor lies ahead of the packet; that the interval before the packet
\* itself is not a loss is what keeps the two sides in step.
LEMMA GapDrift ==
    ASSUME NEW f \in Flow, NEW last \in Int, NEW now \in Int, last <= now,
           Slots(f, last, now) # 0
    PROVE  LET drift == Interval[f] * (1 + Due(f, last, now)) - (now - last)
           IN  2 * drift <= Interval[f] /\ -2 * drift <= Interval[f]
<1> DEFINE n == now - last
           d == Interval[f]
<1>1. n \in Nat /\ n \in Int /\ d \in Nat \ {0}
  BY CadenceAssumption
<1> HIDE DEF n, d
<1> DEFINE k == RoundHalfEven(n, d)
<1>2. k \in Int /\ 2 * n <= d * (2 * k + 1) /\ d * (2 * k - 1) <= 2 * n
  BY <1>1, RoundBounds
<1>3. k = Slots(f, last, now)
  BY DEF Slots, n, d
<1> HIDE DEF k
<1>4. k >= 1
  <2>1. SUFFICES ASSUME k <= -1 PROVE FALSE
    BY <1>2, <1>3
  <2>2. d * (2 * k + 1) < 0
    BY <1>1, <1>2, <2>1, Z3
  <2> QED BY <1>1, <1>2, <2>2
<1>5. Due(f, last, now) = k - 1
  BY <1>2, <1>3, <1>4 DEF Due, AtLeast
<1>6. 2 * (d * k - n) <= d /\ -2 * (d * k - n) <= d
  BY <1>1, <1>2, Z3
<1>7. 1 + Due(f, last, now) = k
  BY <1>2, <1>5
<1> QED BY <1>6, <1>7 DEF n, d

LEMMA DriftStep ==
    ASSUME IInv, TimesInRange, AnchorsBehind, SettledDrift, [Next]_vars
    PROVE  SettledDrift'
<1>1. CASE UNCHANGED <<settled, gaps>>
  BY <1>1 DEF SettledDrift
<1>2. ASSUME NEW f \in Flow, ScoreStep(f), Ends(f)
      PROVE  SettledDrift'
  <2> DEFINE worth == Due(f, flows[f].last, held)
             long  == held - flows[f].last
             d     == Interval[f]
             c     == gaps[f].count
             n     == gaps[f].span
             s     == settled[f]
  <2>1. /\ f \in DOMAIN flows /\ flows[f].last \in Int /\ held \in Int
        /\ flows[f].last <= held /\ Slots(f, flows[f].last, held) # 0
    BY <1>2, HeardFlow, ThreadTypes DEF Ends, ScoreStep, AnchorsBehind
  <2>2. /\ worth \in Nat /\ long \in Int
        /\ 2 * (d * (1 + worth) - long) <= d
        /\ -2 * (d * (1 + worth) - long) <= d
    BY <2>1, GapDrift, DueType
  <2>3. /\ c \in Nat /\ n \in Int /\ s \in Nat /\ d \in Nat \ {0}
    BY ThreadTypes, CadenceAssumption
  <2>4. settled' = [settled EXCEPT ![f] = @ + worth]
    BY <1>2 DEF ScoreStep
  <2>5. /\ settled'[f] = s + worth
        /\ gaps'[f].count = c + 1 /\ gaps'[f].span = n + long
        /\ \A g \in Flow : g # f => settled'[g] = settled[g] /\ gaps'[g] = gaps[g]
    <3> DEFINE c1 == c + 1
               n1 == n + long
               p  == [gaps[f] EXCEPT !.count = c1, !.span = n1]
    <3>1. gaps' = [gaps EXCEPT ![f] = p]
      BY <1>2 DEF ScoreStep
    <3>2. gaps[f] \in [count: Nat, span: Int]
      BY ThreadTypes
    <3>3. p.count = c1 /\ p.span = n1
      <4> HIDE DEF c1, n1
      <4> QED BY <3>2
    <3> HIDE DEF p, worth, long
    <3> QED BY <2>4, <3>1, <3>3, ThreadTypes
  <2> HIDE DEF worth, long
  <2>6. /\ 2 * (d * (c + s) - n) <= d * c
        /\ -2 * (d * (c + s) - n) <= d * c
    BY DEF SettledDrift
  <2>7. /\ 2 * (d * ((c + 1) + (s + worth)) - (n + long)) <= d * (c + 1)
        /\ -2 * (d * ((c + 1) + (s + worth)) - (n + long)) <= d * (c + 1)
    <3> HIDE DEF d, c, n, s
    <3>1. /\ d * ((c + 1) + (s + worth)) = d * (c + s) + d * (1 + worth)
          /\ d * (c + 1) = d * c + d
      BY <2>2, <2>3, Z3
    <3>2. d * (c + s) \in Int /\ d * (1 + worth) \in Int /\ d * c \in Int
      BY <2>2, <2>3
    <3> QED BY <2>2, <2>3, <2>6, <3>1, <3>2
  <2>8. ASSUME NEW g \in Flow
        PROVE  LET drift == Interval[g] * (gaps'[g].count + settled'[g]) - gaps'[g].span
               IN  /\ 2 * drift <= Interval[g] * gaps'[g].count
                   /\ -2 * drift <= Interval[g] * gaps'[g].count
    <3>1. CASE g = f
      BY <3>1, <2>5, <2>7
    <3>2. CASE g # f
      BY <3>2, <2>5 DEF SettledDrift
    <3> QED BY <3>1, <3>2
  <2> QED BY <2>8 DEF SettledDrift
<1>3. CASE Restart
  <2>1. \A f \in Flow : Interval[f] \in Nat
    BY CadenceAssumption
  <2>2. \A f \in Flow : settled'[f] = 0 /\ gaps'[f].count = 0 /\ gaps'[f].span = 0
    BY <1>3 DEF Restart, NothingSettled, NoGaps
  <2> QED BY <2>1, <2>2 DEF SettledDrift
<1>4. ASSUME NEW f \in Flow, ScoreStep(f), ~Ends(f) PROVE UNCHANGED <<settled, gaps>>
  BY <1>4 DEF ScoreStep
<1>5. ASSUME \/ Tick \/ Receive \/ Handled \/ SweepDue \/ RunSweep \/ UNCHANGED vars
             \/ \E f \in Flow : RefundStep(f)
      PROVE  UNCHANGED <<settled, gaps>>
  BY <1>5 DEF Tick, Receive, Handled, SweepDue, RunSweep, RefundStep, vars, history
<1> QED BY <1>1, <1>2, <1>3, <1>4, <1>5 DEF Next
-----------------------------------------------------------------------------
\* The last reception in a window is the only position like it.
LEMMA LastHeardIs ==
    ASSUME NEW r \in Seq(Outcome), NEW k \in 0 .. Len(r),
           k = 0 \/ r[k] = 1, \A i \in k + 1 .. Len(r) : r[i] = 0
    PROVE  LastHeard(r) = k
<1> DEFINE h == LastHeard(r)
<1>1. /\ h \in 0 .. Len(r) /\ (h = 0 \/ r[h] = 1)
      /\ \A i \in h + 1 .. Len(r) : r[i] = 0
  BY LastHeardType
<1>2. Len(r) \in Nat
  BY LenProperties
<1> HIDE DEF h
<1>3. ~(h < k)
  <2>1. SUFFICES ASSUME h < k PROVE FALSE
    OBVIOUS
  <2>2. k \in h + 1 .. Len(r) /\ r[k] = 1
    BY <1>1, <1>2, <2>1
  <2> QED BY <1>1, <2>2
<1>4. ~(k < h)
  <2>1. SUFFICES ASSUME k < h PROVE FALSE
    OBVIOUS
  <2>2. h \in k + 1 .. Len(r) /\ r[h] = 1
    BY <1>1, <1>2, <2>1
  <2> QED BY <2>2
<1> QED BY <1>1, <1>2, <1>3, <1>4 DEF h

LEMMA WindowAtLeastThree ==
    ASSUME NEW f \in Flow PROVE WindowSlots(f) \in Nat /\ WindowSlots(f) >= 3
<1>1. WindowSec[f] \in Int /\ Interval[f] \in Nat \ {0}
  BY CadenceAssumption
<1>2. RoundHalfEven(WindowSec[f], Interval[f]) \in Int
  BY <1>1, RoundBounds
<1> QED BY <1>2 DEF WindowSlots, AtLeast, MIN_WINDOW_SLOTS

\* What a push leaves in the window: the end of what was there, then the new.
Dropped(f, n) == AtLeast(0, n - WindowSlots(f))

LEMMA PushedIs ==
    ASSUME NEW f \in Flow, NEW r \in Seq(Outcome), NEW o \in Seq(Outcome)
    PROVE  LET p == Pushed(f, r, o)
               n == Len(r)
               d == Dropped(f, Len(r) + Len(o))
           IN  /\ p \in Seq(Outcome) /\ n \in Nat /\ Len(o) \in Nat /\ d \in Nat
               /\ Len(p) = n + Len(o) - d /\ Len(p) \in Nat
               /\ \A i \in 1 .. Len(p) : i + d <= n => p[i] = r[i + d]
               /\ \A i \in 1 .. Len(p) : i + d > n => p[i] = o[i + d - n]
<1> DEFINE all == r \o o
           n   == Len(r)
           m   == Len(o)
           d   == Dropped(f, n + m)
           p   == SubSeq(all, d + 1, n + m)
<1>1. /\ n \in Nat /\ m \in Nat /\ WindowSlots(f) \in Nat
      /\ all \in Seq(Outcome) /\ Len(all) = n + m
  BY ConcatProperties, LenProperties, WindowAtLeastThree
<1>2. \A i \in 1 .. n + m : all[i] = IF i <= n THEN r[i] ELSE o[i - n]
  BY ConcatProperties
<1>3. d \in Nat /\ d <= n + m
  BY <1>1 DEF AtLeast, Dropped
<1>4. Pushed(f, r, o) = p
  BY <1>1 DEF Pushed, Dropped
<1>5. \A i \in 1 .. n + m : all[i] \in Outcome
  BY <1>1, ElementOfSeq
<1> HIDE DEF d, all, n, m
<1>6. \A i \in d + 1 .. n + m : all[i] \in Outcome
  BY <1>1, <1>3, <1>5
<1>7. /\ p \in Seq(Outcome)
      /\ Len(p) = IF d + 1 <= n + m THEN (n + m) - (d + 1) + 1 ELSE 0
      /\ \A i \in 1 .. (n + m) - (d + 1) + 1 : p[i] = all[(d + 1) + i - 1]
  BY <1>1, <1>3, <1>6, SubSeqProperties
<1> HIDE DEF p
<1>8. Len(p) = n + m - d /\ Len(p) \in Nat
  BY <1>1, <1>3, <1>7
<1>9. ASSUME NEW i \in 1 .. Len(p), NEW j \in Nat, j = i + d
      PROVE  /\ j <= n => p[i] = r[j]
             /\ j > n => p[i] = o[j - n]
  <2>1. i \in Nat /\ i \in 1 .. (n + m) - (d + 1) + 1 /\ (d + 1) + i - 1 = j
        /\ j \in 1 .. n + m
    BY <1>1, <1>3, <1>8, <1>9
  <2>2. p[i] = all[j]
    BY <1>7, <2>1
  <2>3. all[j] = IF j <= n THEN r[j] ELSE o[j - n]
    BY <1>2, <2>1
  <2> QED BY <1>1, <2>2, <2>3
<1>10. /\ p \in Seq(Outcome) /\ n \in Nat /\ m \in Nat /\ d \in Nat
       /\ Len(p) = n + m - d /\ Len(p) \in Nat
       /\ \A i \in 1 .. Len(p) : i + d <= n => p[i] = r[i + d]
       /\ \A i \in 1 .. Len(p) : i + d > n => p[i] = o[i + d - n]
  <2>1. \A i \in 1 .. Len(p) : i + d \in Nat
    BY <1>3
  <2>2. \A i \in 1 .. Len(p) : i + d <= n => p[i] = r[i + d]
    BY <1>9, <2>1
  <2>3. \A i \in 1 .. Len(p) : i + d > n => p[i] = o[i + d - n]
    BY <1>1, <1>3, <1>9, <2>1
  <2> QED BY <1>1, <1>3, <1>7, <1>8, <2>2, <2>3
<1> QED BY <1>4, <1>10 DEF d, n, m

\* A reception pushed last ends the window.
LEMMA ReceptionEnds ==
    ASSUME NEW f \in Flow, NEW r \in Seq(Outcome), NEW o \in Seq(Outcome),
           Len(o) > 0, o[Len(o)] = 1
    PROVE  LET p == Pushed(f, r, o)
           IN  /\ Len(p) \in Nat /\ Len(p) <= WindowSlots(f)
               /\ LastHeard(p) = Len(p)
<1> DEFINE p == Pushed(f, r, o)
           n == Len(r)
           m == Len(o)
           d == Dropped(f, n + m)
           l == Len(p)
<1>1. /\ p \in Seq(Outcome) /\ n \in Nat /\ m \in Nat /\ d \in Nat
      /\ l = n + m - d /\ l \in Nat
  BY PushedIs
<1>2. \A i \in 1 .. l : i + d > n => p[i] = o[i + d - n]
  BY PushedIs
<1>3. l <= WindowSlots(f) /\ l >= 1
  <2>1. m > 0 /\ WindowSlots(f) \in Nat /\ WindowSlots(f) >= 3
    BY WindowAtLeastThree
  <2> HIDE DEF n, m, p
  <2> QED BY <1>1, <2>1 DEF Dropped, AtLeast
<1>4. p[l] = 1
  <2>1. m > 0 /\ o[m] = 1
    OBVIOUS
  <2> HIDE DEF p, n, m, d, l
  <2>2. l \in 1 .. l /\ l + d > n /\ l + d - n = m
    BY <1>1, <1>3, <2>1
  <2> QED BY <1>2, <2>1, <2>2
<1> HIDE DEF p
<1>5. LastHeard(p) = l
  <2>1. l \in 0 .. Len(p) /\ \A i \in l + 1 .. Len(p) : p[i] = 0
    BY <1>1
  <2> QED BY <1>1, <1>4, <2>1, LastHeardIs
<1> QED BY <1>1, <1>3, <1>5 DEF p

\* Losses pushed last lengthen the tail, until nothing else is left.
LEMMA LossesLengthen ==
    ASSUME NEW f \in Flow, NEW r \in Seq(Outcome), NEW m \in Nat
    PROVE  LET p == Pushed(f, r, Losses(m))
               d == Dropped(f, Len(r) + m)
           IN  /\ Len(p) \in Nat /\ Len(p) = Len(r) + m - d
               /\ LastHeard(p) = AtLeast(0, LastHeard(r) - d)
<1> DEFINE o == Losses(m)
           p == Pushed(f, r, o)
           h == LastHeard(r)
           n == Len(r)
           d == Dropped(f, n + m)
           l == Len(p)
<1>1. o \in Seq(Outcome) /\ Len(o) = m
  <2>1. o \in Seq(Outcome)
    BY LossesType
  <2>2. DOMAIN o = 1 .. m /\ DOMAIN o = 1 .. Len(o) /\ Len(o) \in Nat
    BY <2>1, LenProperties DEF Losses
  <2> HIDE DEF o
  <2> QED BY <2>1, <2>2
<1>2. \A i \in 1 .. m : o[i] = 0
  BY DEF Losses
<1> HIDE DEF o
<1>3. /\ h \in 0 .. n /\ (h = 0 \/ r[h] = 1)
      /\ \A i \in h + 1 .. n : r[i] = 0
  BY LastHeardType
<1>4. /\ p \in Seq(Outcome) /\ n \in Nat /\ d \in Nat
      /\ l = n + m - d /\ l \in Nat
  BY <1>1, PushedIs
<1>5. /\ \A i \in 1 .. l : i + d <= n => p[i] = r[i + d]
      /\ \A i \in 1 .. l : i + d > n => p[i] = o[i + d - n]
  BY <1>1, PushedIs
<1> HIDE DEF p, h, n, d, l
<1>6. ASSUME NEW i \in 1 .. l, i + d > h
      PROVE  p[i] = 0
  <2>1. i \in Nat /\ i <= n + m - d
    BY <1>4
  <2>2. CASE i + d <= n
    <3>1. i + d \in h + 1 .. n
      BY <1>3, <1>4, <1>6, <2>1, <2>2
    <3> QED BY <1>3, <1>5, <2>2, <3>1
  <2>3. CASE i + d > n
    <3>1. i + d - n \in 1 .. m
      BY <1>4, <2>1, <2>3
    <3> QED BY <1>2, <1>5, <2>3, <3>1
  <2> QED BY <1>4, <2>1, <2>2, <2>3
<1>7. ASSUME h > d PROVE LastHeard(p) = AtLeast(0, h - d)
  <2>1. h - d \in 1 .. l /\ h - d \in 0 .. l /\ (h - d) + d = h /\ h <= n /\ h # 0
    BY <1>3, <1>4, <1>7
  <2>2. p[h - d] = 1
    BY <1>3, <1>5, <2>1
  <2>3. ASSUME NEW i \in (h - d) + 1 .. l PROVE p[i] = 0
    <3>1. i \in 1 .. l /\ i + d > h
      BY <1>3, <1>4, <1>7
    <3> QED BY <1>6, <3>1
  <2>4. LastHeard(p) = h - d
    BY <1>4, <2>1, <2>2, <2>3, LastHeardIs DEF l
  <2>5. AtLeast(0, h - d) = h - d
    BY <1>3, <1>4, <1>7 DEF AtLeast
  <2> QED BY <2>4, <2>5
<1>8. ASSUME h <= d PROVE LastHeard(p) = AtLeast(0, h - d)
  <2>1. ASSUME NEW i \in 0 + 1 .. l PROVE p[i] = 0
    <3>1. i \in 1 .. l /\ i + d > h
      BY <1>3, <1>4, <1>8
    <3> QED BY <1>6, <3>1
  <2>2. LastHeard(p) = 0
    BY <1>4, <2>1, LastHeardIs DEF l
  <2>3. AtLeast(0, h - d) = 0
    BY <1>3, <1>4, <1>8 DEF AtLeast
  <2> QED BY <2>2, <2>3
<1>9. LastHeard(p) = AtLeast(0, h - d)
  BY <1>3, <1>4, <1>7, <1>8
<1> QED BY <1>4, <1>9 DEF p, o, h, n, d, l

\* A refund pops the charged tail, and leaves the window at a reception.
LEMMA TailPopped ==
    ASSUME NEW r \in Seq(Outcome), NEW c \in Nat,
           \/ Len(r) - LastHeard(r) = c
           \/ LastHeard(r) = 0 /\ Len(r) < c
    PROVE  LET p == WithoutTail(r, c)
           IN  /\ Len(p) \in Nat /\ Len(p) <= Len(r)
               /\ LastHeard(p) = Len(p)
<1> DEFINE h == LastHeard(r)
           p == SubSeq(r, 1, h)
<1>1. /\ Len(r) \in Nat /\ h \in 0 .. Len(r) /\ (h = 0 \/ r[h] = 1)
      /\ \A i \in 1 .. Len(r) : r[i] \in Outcome
  BY LastHeardType, LenProperties, ElementOfSeq
<1>2. AtLeast(h, Len(r) - c) = h
  BY <1>1 DEF AtLeast
<1>3. WithoutTail(r, c) = p
  BY <1>2 DEF WithoutTail
<1> HIDE DEF h
<1>4. /\ p \in Seq(Outcome)
      /\ Len(p) = IF 1 <= h THEN h - 1 + 1 ELSE 0
      /\ \A i \in 1 .. h - 1 + 1 : p[i] = r[1 + i - 1]
  <2>1. \A i \in 1 .. h : r[i] \in Outcome
    BY <1>1
  <2> QED BY <1>1, <2>1, SubSeqProperties
<1> HIDE DEF p
<1>5. Len(p) = h /\ (h = 0 \/ p[h] = 1)
  BY <1>1, <1>4
<1>6. LastHeard(p) = h
  <2>1. h \in 0 .. Len(p) /\ \A i \in h + 1 .. Len(p) : p[i] = 0
    BY <1>1, <1>5
  <2> QED BY <1>4, <1>5, <2>1, LastHeardIs
<1> QED BY <1>1, <1>3, <1>5, <1>6

\* Losses charged by a sweep keep the window true.
LEMMA ChargeKeepsWindow ==
    ASSUME NEW f \in Flow, NEW r \in Seq(Outcome), NEW c \in Nat, NEW more \in Nat,
           Len(r) <= WindowSlots(f),
           \/ Len(r) - LastHeard(r) = c
           \/ /\ Len(r) - LastHeard(r) = Len(r)
              /\ Len(r) - LastHeard(r) < c
              /\ Len(r) - LastHeard(r) = WindowSlots(f)
    PROVE  LET p == Pushed(f, r, Losses(more))
               t == Len(p) - LastHeard(p)
           IN  /\ Len(p) <= WindowSlots(f)
               /\ \/ t = c + more
                  \/ t = Len(p) /\ t < c + more /\ t = WindowSlots(f)
<1> DEFINE p == Pushed(f, r, Losses(more))
           n == Len(r)
           h == LastHeard(r)
           w == WindowSlots(f)
           d == Dropped(f, Len(r) + more)
           l == Len(p)
           g == LastHeard(p)
<1>1. /\ n \in Nat /\ h \in 0 .. n /\ w \in Nat /\ w >= 3
      /\ n <= w
      /\ \/ n - h = c
         \/ n - h = n /\ n - h < c /\ n - h = w
  BY LastHeardType, LenProperties, WindowAtLeastThree
<1>2. l \in Nat /\ l = n + more - d /\ g = AtLeast(0, h - d)
  BY LossesLengthen
<1>3. d = IF n + more - w < 0 THEN 0 ELSE n + more - w
  BY <1>1 DEF Dropped, AtLeast
<1>4. d = IF n + more - w > 0 THEN n + more - w ELSE 0
  <2> HIDE DEF n, w, d
  <2> QED BY <1>1, <1>3
<1> HIDE DEF p, n, h, w, d, l, g
<1>5. d \in Nat /\ l <= w
  BY <1>1, <1>2, <1>4
<1>6. g = IF h > d THEN h - d ELSE 0
  BY <1>1, <1>2, <1>5 DEF AtLeast
<1>7. \/ l - g = c + more
      \/ l - g = l /\ l - g < c + more /\ l - g = w
  BY <1>1, <1>2, <1>4, <1>5, <1>6
<1> QED BY <1>5, <1>7 DEF l, g, w, p

\* A window that ends in a reception is true once nothing is charged.
LEMMA FreshWindow ==
    ASSUME NEW f \in Flow, NEW fl, fl.charged = 0, Len(fl.recent) \in Nat,
           Len(fl.recent) <= WindowSlots(f), LastHeard(fl.recent) = Len(fl.recent)
    PROVE  WindowTrue(f, fl)
BY DEF WindowTrue, Trailing

LEMMA WindowsStep ==
    ASSUME IInv, WindowsTrue, [Next]_vars
    PROVE  WindowsTrue'
<1>1. CASE UNCHANGED flows
  BY <1>1 DEF WindowsTrue, WindowTrue, Trailing
<1>2. ASSUME NEW f \in Flow, OthersStay(f), WindowTrue(f, flows'[f]) PROVE WindowsTrue'
  BY <1>2 DEF OthersStay, WindowsTrue
<1>3. ASSUME NEW f \in Flow, RefundStep(f) PROVE WindowsTrue'
  <2>1. CASE f \notin DOMAIN flows
    BY <1>1, <1>3, <2>1 DEF RefundStep, Reanchor
  <2>2. CASE f \in DOMAIN flows
    <3> DEFINE r == flows[f].recent
               c == flows[f].charged
               p == WithoutTail(r, c)
    <3>1. /\ OthersStay(f) /\ flows'[f].charged = 0 /\ flows'[f].recent = p
      BY <1>3, <2>2, RefundedFlow, FlowFields
    <3>2. /\ r \in Seq(Outcome) /\ c \in Nat
          /\ WindowTrue(f, flows[f])
      BY <2>2, HeardFlow DEF WindowsTrue
    <3>3. /\ Len(r) <= WindowSlots(f)
          /\ \/ Len(r) - LastHeard(r) = c
             \/ Len(r) - LastHeard(r) = Len(r) /\ Len(r) < c
      BY <3>2 DEF WindowTrue, Trailing
    <3>4. Len(r) \in Nat /\ LastHeard(r) \in 0 .. Len(r) /\ WindowSlots(f) \in Nat
      BY <3>2, LenProperties, LastHeardType, WindowSlotsType
    <3>5. \/ Len(r) - LastHeard(r) = c
          \/ LastHeard(r) = 0 /\ Len(r) < c
      BY <3>3, <3>4
    <3> HIDE DEF r, c
    <3>6. Len(p) \in Nat /\ Len(p) <= Len(r) /\ LastHeard(p) = Len(p)
      BY <3>2, <3>5, TailPopped
    <3> HIDE DEF p
    <3>7. WindowTrue(f, flows'[f])
      BY <3>1, <3>3, <3>4, <3>6, FreshWindow
    <3> QED BY <1>2, <3>1, <3>7
  <2> QED BY <2>1, <2>2
<1>4. ASSUME NEW f \in Flow, ScoreStep(f) PROVE WindowsTrue'
  <2>1. CASE ObserveFirst(f, held)
    <3> DEFINE fl == NewFlow(held)
    <3>1. flows' = [g \in DOMAIN flows \cup {f} |-> IF g = f THEN fl ELSE flows[g]]
          /\ f \notin DOMAIN flows
      BY <2>1 DEF ObserveFirst
    <3>2. fl.charged = 0 /\ fl.recent = <<1>>
      BY DEF NewFlow
    <3> HIDE DEF fl
    <3>3. OthersStay(f) /\ flows'[f] = fl
      BY <3>1 DEF OthersStay
    <3>4. <<1>> \in Seq(Outcome) /\ Len(<<1>>) = 1 /\ <<1>>[1] = 1
      BY DEF Outcome
    <3>5. LastHeard(<<1>>) = 1
      <4> DEFINE r == <<1>>
      <4>1. r \in Seq(Outcome) /\ Len(r) = 1 /\ r[1] = 1
        BY <3>4
      <4> HIDE DEF r
      <4>2. 1 \in 0 .. Len(r) /\ \A i \in 1 + 1 .. Len(r) : r[i] = 0
        BY <4>1
      <4>3. LastHeard(r) = 1
        BY <4>1, <4>2, LastHeardIs
      <4> QED BY <4>3 DEF r
    <3>6. WindowTrue(f, fl)
      <4>1. /\ Len(fl.recent) = 1 /\ LastHeard(fl.recent) = 1
            /\ WindowSlots(f) \in Nat /\ WindowSlots(f) >= 3
        BY <3>2, <3>4, <3>5, WindowAtLeastThree
      <4>2. /\ Len(fl.recent) \in Nat /\ Len(fl.recent) <= WindowSlots(f)
            /\ LastHeard(fl.recent) = Len(fl.recent)
        BY <4>1
      <4> QED BY <3>2, <4>2, FreshWindow
    <3> QED BY <1>2, <3>3, <3>6
  <2>2. CASE ObserveRestart(f, held)
    <3> DEFINE p == Pushed(f, flows[f].recent, <<1>>)
    <3>1. /\ f \in DOMAIN flows /\ OthersStay(f)
          /\ flows'[f].charged = 0 /\ flows'[f].recent = p
      BY <2>2, RestartedFlow, FlowFields
    <3>2. <<1>> \in Seq(Outcome) /\ Len(<<1>>) = 1 /\ <<1>>[1] = 1
      BY DEF Outcome
    <3>3. Len(p) \in Nat /\ Len(p) <= WindowSlots(f) /\ LastHeard(p) = Len(p)
      <4> DEFINE o == <<1>>
      <4>1. o \in Seq(Outcome) /\ Len(o) = 1 /\ o[1] = 1
        BY <3>2
      <4> HIDE DEF o
      <4>2. Len(o) > 0 /\ o[Len(o)] = 1 /\ flows[f].recent \in Seq(Outcome)
        BY <3>1, <4>1, HeardFlow
      <4>3. LET q == Pushed(f, flows[f].recent, o)
            IN  Len(q) \in Nat /\ Len(q) <= WindowSlots(f) /\ LastHeard(q) = Len(q)
        BY <4>1, <4>2, ReceptionEnds
      <4> QED BY <4>3 DEF o
    <3> HIDE DEF p
    <3>4. WindowTrue(f, flows'[f])
      BY <3>1, <3>3, FreshWindow
    <3> QED BY <1>2, <3>1, <3>4
  <2>3. CASE ObserveEarly(f, held)
    <3>1. /\ f \in DOMAIN flows /\ OthersStay(f)
          /\ flows'[f].charged = flows[f].charged
          /\ flows'[f].recent = flows[f].recent
      BY <2>3, EarlyFlow, FlowFields
    <3>2. WindowTrue(f, flows'[f])
      BY <3>1 DEF WindowsTrue, WindowTrue, Trailing
    <3> QED BY <1>2, <3>1, <3>2
  <2>4. CASE ObserveScheduled(f, held)
    <3> DEFINE m == MissedNow(f, held)
               o == Losses(m) \o <<1>>
               p == Pushed(f, flows[f].recent, o)
    <3>1. /\ f \in DOMAIN flows /\ OthersStay(f)
          /\ flows'[f].charged = 0 /\ flows'[f].recent = p
      BY <2>4, ScheduledFlow, FlowFields
    <3>2. m \in Nat
      <4>1. /\ flows[f].last \in Int /\ held \in Int
            /\ flows[f].charged \in Nat
        BY <3>1, HeardFlow, ThreadTypes
      <4>2. Slots(f, flows[f].last, held) \in Int
        BY <4>1, DueType
      <4> QED BY <4>1, <4>2 DEF MissedNow, AtLeast
    <3> HIDE DEF m
    <3>3. o \in Seq(Outcome) /\ Len(o) > 0 /\ o[Len(o)] = 1
      <4>1. /\ Losses(m) \in Seq(Outcome) /\ <<1>> \in Seq(Outcome)
            /\ Len(<<1>>) = 1 /\ <<1>>[1] = 1
        BY <3>2, LossesType DEF Outcome
      <4>2. /\ o \in Seq(Outcome) /\ Len(o) = Len(Losses(m)) + 1
            /\ Len(Losses(m)) \in Nat
        BY <4>1, ConcatProperties, LenProperties
      <4>3. \A i \in 1 .. Len(Losses(m)) + 1 :
               o[i] = IF i <= Len(Losses(m)) THEN Losses(m)[i]
                      ELSE <<1>>[i - Len(Losses(m))]
        BY <4>1, ConcatProperties
      <4> DEFINE n == Len(Losses(m))
      <4> HIDE DEF o, n
      <4>4. o[n + 1] = <<1>>[(n + 1) - n] /\ (n + 1) - n = 1 /\ n + 1 > 0
        BY <4>2, <4>3 DEF n
      <4> QED BY <4>1, <4>2, <4>4 DEF n
    <3> HIDE DEF o
    <3>4. Len(p) \in Nat /\ Len(p) <= WindowSlots(f) /\ LastHeard(p) = Len(p)
      BY <3>1, <3>3, HeardFlow, ReceptionEnds
    <3> HIDE DEF p
    <3>5. WindowTrue(f, flows'[f])
      BY <3>1, <3>4, FreshWindow
    <3> QED BY <1>2, <3>1, <3>5
  <2> QED BY <1>4, <2>1, <2>2, <2>3, <2>4 DEF ScoreStep, Observe
<1>5. CASE RunSweep
  <2>1. ASSUME NEW f \in DOMAIN flows PROVE WindowTrue(f, flows'[f])
    <3>1. CASE flows'[f] = flows[f]
      BY <3>1 DEF WindowsTrue
    <3>2. CASE Delta(f, sweepNow) > 0 /\ flows'[f] = Charge(f, sweepNow)
      <4> DEFINE r    == flows[f].recent
                 c    == flows[f].charged
                 more == Delta(f, sweepNow)
                 p    == Pushed(f, r, Losses(more))
      <4>1. /\ f \in Flow /\ r \in Seq(Outcome) /\ c \in Nat
            /\ WindowTrue(f, flows[f])
        BY HeardFlow DEF WindowsTrue
      <4>2. more \in Nat
        <5>1. /\ flows[f].last \in Int /\ sweepNow \in Int
              /\ flows[f].charged \in Nat
          BY HeardFlow, ThreadTypes
        <5>2. Due(f, flows[f].last, sweepNow) \in Nat
          BY <4>1, <5>1, DueType
        <5> QED BY <5>1, <5>2 DEF Delta, AtLeast
      <4>3. flows'[f].recent = p /\ flows'[f].charged = c + more
        BY <3>2, ChargedFields
      <4> HIDE DEF more
      <4>4. /\ Len(r) <= WindowSlots(f)
            /\ \/ Len(r) - LastHeard(r) = c
               \/ /\ Len(r) - LastHeard(r) = Len(r)
                  /\ Len(r) - LastHeard(r) < c
                  /\ Len(r) - LastHeard(r) = WindowSlots(f)
        BY <4>1 DEF WindowTrue, Trailing
      <4> HIDE DEF r, c
      <4>5. /\ Len(p) <= WindowSlots(f)
            /\ \/ Len(p) - LastHeard(p) = c + more
               \/ /\ Len(p) - LastHeard(p) = Len(p)
                  /\ Len(p) - LastHeard(p) < c + more
                  /\ Len(p) - LastHeard(p) = WindowSlots(f)
        BY <4>1, <4>2, <4>4, ChargeKeepsWindow
      <4> HIDE DEF p
      <4> QED BY <4>3, <4>5 DEF WindowTrue, Trailing
    <3> QED BY <1>5, <3>1, <3>2, SweptFlow
  <2>2. DOMAIN flows' = DOMAIN flows
    BY <1>5 DEF RunSweep, Sweep
  <2> QED BY <2>1, <2>2 DEF WindowsTrue
<1>6. CASE Restart
  BY <1>6 DEF Restart, TrackerReset, NoFlows, WindowsTrue
<1>7. ASSUME Tick \/ Receive \/ Handled \/ SweepDue \/ UNCHANGED vars
      PROVE  UNCHANGED flows
  BY <1>7 DEF Tick, Receive, Handled, SweepDue, vars
<1> QED BY <1>1, <1>3, <1>4, <1>5, <1>6, <1>7 DEF Next
-----------------------------------------------------------------------------
LEMMA RefinedInvariance == Spec => [](IInv /\ RInv)
<1>1. Init => RInv
  <2>1. ASSUME Init PROVE SettledDrift
    BY <2>1, CadenceAssumption DEF Init, NothingSettled, NoGaps, SettledDrift
  <2>2. ASSUME Init PROVE TimesInRange
    BY <2>2, BoundAssumption DEF Init, TimesInRange
  <2>3. ASSUME Init PROVE AnchorsBehind /\ DisturbedHeard /\ WindowsTrue
    BY <2>3 DEF Init, TrackerInit, NoFlows, AnchorsBehind, DisturbedHeard, WindowsTrue
  <2> QED BY <2>1, <2>2, <2>3 DEF RInv
<1>2. (IInv /\ RInv) /\ [Next]_vars => RInv'
  <2>1. SUFFICES ASSUME IInv, RInv, [Next]_vars PROVE RInv'
    OBVIOUS
  <2>2. TimesInRange' /\ AnchorsBehind' /\ DisturbedHeard'
    BY <2>1, TimesStep, AnchorsStep, DisturbedStep DEF RInv
  <2>3. SettledDrift' /\ WindowsTrue'
    BY <2>1, DriftStep, WindowsStep DEF RInv
  <2> QED BY <2>2, <2>3 DEF RInv
<1> QED BY <1>1, <1>2, Invariance, PTL DEF Spec

\* The tracker's count is accurate to half an interval per gap scored, for
\* every flow whose provisional charge was never dropped unreckoned, however
\* long it runs and whatever its cadence: rounding does not add up.
THEOREM CountDoesNotDrift == Spec => []DriftBounded
<1>1. IInv /\ RInv => DriftBounded
  <2>1. SUFFICES ASSUME IInv, RInv, NEW f \in DOMAIN flows \ disturbed
        PROVE  LET counted == gaps[f].count + flows[f].missed - flows[f].charged
                   drift   == Interval[f] * counted - gaps[f].span
               IN  /\ 2 * drift <= Interval[f] * gaps[f].count
                   /\ -2 * drift <= Interval[f] * gaps[f].count
    BY DEF DriftBounded
  <2>2. /\ f \in Flow /\ flows[f].missed = settled[f] + flows[f].charged
        /\ settled[f] \in Nat /\ flows[f].charged \in Nat /\ gaps[f].count \in Nat
    BY <2>1, HeardFlow, ThreadTypes
  <2>3. gaps[f].count + flows[f].missed - flows[f].charged = gaps[f].count + settled[f]
    BY <2>2
  <2> QED BY <2>1, <2>2, <2>3 DEF RInv, SettledDrift
<1> QED BY <1>1, RefinedInvariance, PTL

\* What a refund pops from a flow's window is what the sweeps put there: the
\* window ends in the charged losses, as many as fit it.
THEOREM WindowEndsInTheCharge == Spec => []TailIsTheCharge
<1>1. RInv => TailIsTheCharge
  BY DEF RInv, WindowsTrue, WindowTrue, Trailing, TailIsTheCharge
<1> QED BY <1>1, RefinedInvariance, PTL
-----------------------------------------------------------------------------
\* The books SweepFree keeps: the accounts of the flows no charge was dropped
\* from, with the charge of the open gap set aside.
Books == [f \in DOMAIN flows \ disturbed |-> Settled(flows[f])]

LEMMA WorthIsSlots ==
    ASSUME NEW f, NEW last, NEW now
    PROVE  Reference!Worth(f, last, now) = Slots(f, last, now)
BY DEF Reference!Worth, Reference!RoundHalfEven, Slots, RoundHalfEven

LEMMA BooksAre ==
    /\ DOMAIN Books = DOMAIN flows \ disturbed
    /\ \A f \in DOMAIN flows \ disturbed : Books[f] = Settled(flows[f])
BY DEF Books

\* Accounts that stay are not told apart by the charges they set aside.
LEMMA SameBooks ==
    ASSUME DOMAIN flows' \ disturbed' = DOMAIN flows \ disturbed,
           \A f \in DOMAIN flows \ disturbed : Settled(flows'[f]) = Settled(flows[f])
    PROVE  Books' = Books
<1>1. Books' = [f \in DOMAIN flows \ disturbed |-> Settled(flows'[f])]
  BY DEF Books, Settled
<1>2. Books = [f \in DOMAIN flows \ disturbed |-> Settled(flows[f])]
  BY DEF Books
<1> QED BY <1>1, <1>2, Zenon

LEMMA OneBook ==
    ASSUME NEW f \in DOMAIN flows \ disturbed, OthersStay(f), disturbed' = disturbed
    PROVE  Books' = [Books EXCEPT ![f] = Settled(flows'[f])]
<1>1. Books' = [g \in DOMAIN flows \ disturbed |-> Settled(flows'[g])]
  <2>1. DOMAIN flows' \ disturbed' = DOMAIN flows \ disturbed
    BY DEF OthersStay
  <2> QED BY <2>1 DEF Books, Settled
<1>2. \A g \in DOMAIN flows \ disturbed : g # f => Settled(flows'[g]) = Settled(flows[g])
  BY DEF OthersStay
<1>3. Books = [g \in DOMAIN flows \ disturbed |-> Settled(flows[g])]
  BY DEF Books
<1> HIDE DEF Books, Settled
<1> QED BY <1>1, <1>2, <1>3

\* An account, and what the operations of SweepFree make of one.
Account == [last: Int, rx: Nat, lost: Int, early: Nat, restart: BOOLEAN]

LEMMA SettledFields ==
    ASSUME NEW fl \in FlowState
    PROVE  /\ Settled(fl) \in Account
           /\ Settled(fl).last = fl.last /\ Settled(fl).rx = fl.rx
           /\ Settled(fl).lost = fl.missed - fl.charged
           /\ Settled(fl).early = fl.early /\ Settled(fl).restart = fl.restart
<1> DEFINE W == Seq(Outcome)
<1>1. fl \in FlowOver(W)
  BY FlowStateOver
<1> HIDE DEF W
<1> QED BY <1>1 DEF Settled, Account, FlowOver

LEMMA SameAccount ==
    ASSUME NEW a \in Account, NEW b \in Account, a.last = b.last, a.rx = b.rx,
           a.lost = b.lost, a.early = b.early, a.restart = b.restart
    PROVE  a = b
BY DEF Account

LEMMA RebootedAccount ==
    ASSUME NEW a \in Account, NEW b \in Account, NEW now \in Int, b.last = now,
           b.rx = a.rx, b.lost = a.lost, b.early = a.early, b.restart = TRUE
    PROVE  b = [a EXCEPT !.last = now, !.restart = TRUE]
<1> DEFINE c == [a EXCEPT !.last = now, !.restart = TRUE]
<1>1. /\ c \in Account /\ c.last = now /\ c.rx = a.rx /\ c.lost = a.lost
      /\ c.early = a.early /\ c.restart = TRUE
  BY DEF Account
<1> HIDE DEF c
<1>2. b = c
  BY <1>1, SameAccount
<1> QED BY <1>2 DEF c

LEMMA NewGridAccount ==
    ASSUME NEW a \in Account, NEW b \in Account, NEW now \in Int, b.last = now,
           b.rx = a.rx + 1, b.lost = a.lost, b.early = a.early, b.restart = FALSE
    PROVE  b = [a EXCEPT !.restart = FALSE, !.rx = @ + 1, !.last = now]
<1> DEFINE n == a.rx + 1
           c == [a EXCEPT !.restart = FALSE, !.rx = n, !.last = now]
<1>1. n \in Nat
  BY DEF Account
<1>2. b.rx = n
  OBVIOUS
<1> HIDE DEF n
<1>3. /\ c \in Account /\ c.last = now /\ c.rx = n /\ c.lost = a.lost
      /\ c.early = a.early /\ c.restart = FALSE
  BY <1>1 DEF Account
<1> HIDE DEF c
<1>4. b = c
  BY <1>2, <1>3, SameAccount
<1> QED BY <1>4 DEF c, n

LEMMA ExtraAccount ==
    ASSUME NEW a \in Account, NEW b \in Account, b.last = a.last, b.rx = a.rx,
           b.lost = a.lost, b.early = a.early + 1, b.restart = a.restart
    PROVE  b = [a EXCEPT !.early = @ + 1]
<1> DEFINE n == a.early + 1
           c == [a EXCEPT !.early = n]
<1>1. n \in Nat
  BY DEF Account
<1>2. b.early = n
  OBVIOUS
<1> HIDE DEF n
<1>3. /\ c \in Account /\ c.last = a.last /\ c.rx = a.rx /\ c.lost = a.lost
      /\ c.early = n /\ c.restart = a.restart
  BY <1>1 DEF Account
<1> HIDE DEF c
<1>4. b = c
  BY <1>2, <1>3, SameAccount
<1> QED BY <1>4 DEF c, n

LEMMA ClosedAccount ==
    ASSUME NEW a \in Account, NEW b \in Account, NEW now \in Int, NEW worth \in Int,
           b.last = now, b.rx = a.rx + 1, b.lost = a.lost + worth,
           b.early = a.early, b.restart = a.restart
    PROVE  b = [a EXCEPT !.rx = @ + 1, !.lost = @ + worth, !.last = now]
<1> DEFINE n == a.rx + 1
           m == a.lost + worth
           c == [a EXCEPT !.rx = n, !.lost = m, !.last = now]
<1>1. n \in Nat /\ m \in Int
  BY DEF Account
<1>2. b.rx = n /\ b.lost = m
  OBVIOUS
<1> HIDE DEF n, m
<1>3. /\ c \in Account /\ c.last = now /\ c.rx = n /\ c.lost = m
      /\ c.early = a.early /\ c.restart = a.restart
  BY <1>1 DEF Account
<1> HIDE DEF c
<1>4. b = c
  BY <1>2, <1>3, SameAccount
<1> QED BY <1>4 DEF c, n, m

\* A step that neither touches an account nor excuses a flow is no step there.
LEMMA Stutters ==
    ASSUME Books' = Books, disturbed' = disturbed
    PROVE  UNCHANGED Reference!vars
BY DEF Reference!vars, Books

\* The account of a flow the promise covers, before and after a step.
LEMMA AccountBefore ==
    ASSUME NEW f \in DOMAIN flows \ disturbed, IInv
    PROVE  /\ Books[f] = Settled(flows[f]) /\ Books[f] \in Account
           /\ Books[f].last = flows[f].last /\ Books[f].rx = flows[f].rx
           /\ Books[f].lost = flows[f].missed - flows[f].charged
           /\ Books[f].early = flows[f].early /\ Books[f].restart = flows[f].restart
BY BooksAre, HeardFlow, SettledFields

LEMMA AccountAfter ==
    ASSUME NEW f \in DOMAIN flows', IInv'
    PROVE  /\ Settled(flows'[f]) \in Account
           /\ Settled(flows'[f]).last = flows'[f].last
           /\ Settled(flows'[f]).rx = flows'[f].rx
           /\ Settled(flows'[f]).lost = flows'[f].missed - flows'[f].charged
           /\ Settled(flows'[f]).early = flows'[f].early
           /\ Settled(flows'[f]).restart = flows'[f].restart
<1>1. flows'[f] \in FlowState
  BY DEF IInv, TypeOK, FlowState
<1> QED BY <1>1, SettledFields

LEMMA RefundRefines ==
    ASSUME NEW f \in Flow, IInv, RInv, IInv', RefundStep(f)
    PROVE  [Reference!Next]_(Reference!vars)
<1>1. disturbed' = disturbed
  BY DEF RefundStep, history
<1>2. CASE f \notin DOMAIN flows
  <2>1. flows' = flows
    BY <1>2 DEF RefundStep, Reanchor
  <2> QED BY <1>1, <2>1, SameBooks, Stutters
<1>3. CASE f \in disturbed
  <2>1. f \in DOMAIN flows
    BY <1>3 DEF RInv, DisturbedHeard
  <2>2. OthersStay(f)
    BY <2>1, RefundedFlow
  <2>3. Books' = Books
    BY <1>1, <1>3, <2>1, <2>2, SameBooks DEF OthersStay
  <2> QED BY <1>1, <2>3, Stutters
<1>4. CASE f \in DOMAIN flows \ disturbed
  <2> DEFINE b == Settled(flows'[f])
  <2>1. /\ OthersStay(f)
        /\ flows'[f].last = held /\ flows'[f].rx = flows[f].rx
        /\ flows'[f].missed = flows[f].missed - flows[f].charged
        /\ flows'[f].charged = 0
        /\ flows'[f].early = flows[f].early /\ flows'[f].restart = TRUE
    <3> DEFINE w == WithoutTail(flows[f].recent, flows[f].charged)
               m == flows[f].missed - flows[f].charged
    <3>1. /\ OthersStay(f)
          /\ flows'[f] = [flows[f] EXCEPT !.missed = m, !.recent = w, !.charged = 0,
                                          !.last = held, !.restart = TRUE]
      BY <1>4, RefundedFlow
    <3> HIDE DEF w, m
    <3>2. /\ flows'[f].last = held /\ flows'[f].rx = flows[f].rx
          /\ flows'[f].missed = m /\ flows'[f].charged = 0
          /\ flows'[f].early = flows[f].early /\ flows'[f].restart = TRUE
      BY <1>4, <3>1, FlowFields
    <3> QED BY <3>1, <3>2 DEF m
  <2>2. flows[f].missed \in Int /\ flows[f].charged \in Nat /\ held \in Int
    BY <1>4, HeardFlow, ThreadTypes
  <2>3. flows'[f].missed - flows'[f].charged = flows[f].missed - flows[f].charged
    BY <2>1, <2>2
  <2>4. f \in DOMAIN flows'
    BY <1>4, <2>1 DEF OthersStay
  <2>5. Books' = [Books EXCEPT ![f] = b]
    BY <1>1, <1>4, <2>1, OneBook
  <2>6. b = [Books[f] EXCEPT !.last = held, !.restart = TRUE]
    <3>1. /\ Books[f] \in Account
          /\ Books[f].rx = flows[f].rx /\ Books[f].early = flows[f].early
          /\ Books[f].lost = flows[f].missed - flows[f].charged
      BY <1>4, AccountBefore
    <3>2. /\ b \in Account
          /\ b.last = held /\ b.rx = flows[f].rx /\ b.early = flows[f].early
          /\ b.lost = flows[f].missed - flows[f].charged /\ b.restart = TRUE
      BY <2>1, <2>3, <2>4, AccountAfter
    <3> HIDE DEF b
    <3> QED BY <2>2, <3>1, <3>2, RebootedAccount
  <2> HIDE DEF b
  <2>7. Books' = [Books EXCEPT ![f].last = held, ![f].restart = TRUE]
    BY <2>5, <2>6
  <2>8. Reference!Reboot(f, held)
    BY <1>4, <2>7, BooksAre DEF Reference!Reboot, Books
  <2>9. held \in 0 .. MaxClock
    BY ThreadTypes, BoundAssumption DEF RInv, TimesInRange, RefundStep, Idle
  <2> QED BY <1>1, <2>8, <2>9 DEF Reference!Next
<1> QED BY <1>2, <1>3, <1>4

LEMMA ScoreRefines ==
    ASSUME NEW f \in Flow, IInv, RInv, IInv', ScoreStep(f)
    PROVE  [Reference!Next]_(Reference!vars)
<1>1. /\ OthersStay(f)
      /\ disturbed' = IF Drops(f) THEN disturbed \cup {f} ELSE disturbed
  BY ScoredFlow DEF ScoreStep
<1>2. /\ held \in Int /\ held \in 0 .. MaxClock
      /\ f \in DOMAIN flows'
  BY <1>1, ThreadTypes, BoundAssumption
     DEF RInv, TimesInRange, ScoreStep, Idle, OthersStay
<1>3. CASE f \in disturbed
  <2>1. f \in DOMAIN flows /\ disturbed' = disturbed
    BY <1>1, <1>3 DEF RInv, DisturbedHeard
  <2>2. Books' = Books
    BY <1>1, <1>3, <2>1, SameBooks DEF OthersStay
  <2> QED BY <2>1, <2>2, Stutters
<1>4. CASE f \notin disturbed /\ Drops(f)
  <2>1. f \in DOMAIN flows \ disturbed /\ disturbed' = disturbed \cup {f}
    BY <1>1, <1>4 DEF Drops
  <2>2. /\ DOMAIN flows' \ disturbed' = (DOMAIN flows \ disturbed) \ {f}
        /\ \A g \in (DOMAIN flows \ disturbed) \ {f} : flows'[g] = flows[g]
    BY <1>1, <2>1 DEF OthersStay
  <2>3. Books' = [g \in (DOMAIN flows \ disturbed) \ {f} |-> Settled(flows'[g])]
    BY <2>2 DEF Books, Settled
  <2>4. Books' = [g \in (DOMAIN flows \ disturbed) \ {f} |-> Books[g]]
    <3>1. \A g \in (DOMAIN flows \ disturbed) \ {f} : Settled(flows'[g]) = Books[g]
      BY <2>2, BooksAre
    <3> HIDE DEF Books, Settled
    <3> QED BY <2>3, <3>1
  <2>5. Reference!Excuse(f)
    BY <2>1, <2>4, BooksAre DEF Reference!Excuse, Books
  <2> QED BY <2>5 DEF Reference!Next
<1>5. CASE f \notin disturbed /\ ~Drops(f) /\ ObserveFirst(f, held)
  <2>1. disturbed' = disturbed /\ f \notin DOMAIN flows
    BY <1>1, <1>5 DEF ObserveFirst
  <2> DEFINE fl == NewFlow(held)
  <2>2. flows' = [g \in DOMAIN flows \cup {f} |-> IF g = f THEN fl ELSE flows[g]]
    BY <1>5 DEF ObserveFirst
  <2>3. /\ fl.last = held /\ fl.rx = 1 /\ fl.missed = 0 /\ fl.charged = 0
        /\ fl.early = 0 /\ fl.restart = FALSE
    BY DEF NewFlow
  <2> HIDE DEF fl
  <2>4. fl.missed - fl.charged = 0
    BY <2>3
  <2> DEFINE b == [last |-> held, rx |-> 1, lost |-> 0, early |-> 0, restart |-> FALSE]
  <2>5. Settled(fl) = b
    BY <2>3, <2>4 DEF Settled
  <2>6. (DOMAIN flows \ disturbed) \cup {f} = DOMAIN flows' \ disturbed'
    BY <1>1, <1>5, <2>1 DEF OthersStay
  <2>7. /\ \A g \in DOMAIN flows \ disturbed : flows'[g] = flows[g] /\ g # f
        /\ flows'[f] = fl
    BY <2>1, <2>2
  <2>8. Books' = [g \in (DOMAIN flows \ disturbed) \cup {f} |-> Settled(flows'[g])]
    BY <2>6 DEF Books, Settled
  <2> HIDE DEF b
  <2>9. Books' = [g \in DOMAIN Books \cup {f} |-> IF g = f THEN b ELSE Books[g]]
    <3>1. \A g \in (DOMAIN flows \ disturbed) \cup {f} :
             Settled(flows'[g]) = IF g = f THEN b ELSE Books[g]
      BY <2>5, <2>7, BooksAre
    <3>2. DOMAIN Books = DOMAIN flows \ disturbed
      BY BooksAre
    <3> HIDE DEF Books, Settled
    <3> QED BY <2>8, <3>1, <3>2
  <2>10. Reference!Open(f, held)
    BY <1>5, <2>1, <2>9, BooksAre DEF Reference!Open, Books, b
  <2> QED BY <1>2, <2>1, <2>10 DEF Reference!Next
<1>6. CASE f \notin disturbed /\ ~Drops(f) /\ ObserveRestart(f, held)
  <2> DEFINE b == Settled(flows'[f])
  <2>1. f \in DOMAIN flows \ disturbed /\ flows[f].restart /\ disturbed' = disturbed
    BY <1>1, <1>6 DEF ObserveRestart
  <2>2. /\ flows'[f].last = held /\ flows'[f].rx = flows[f].rx + 1
        /\ flows'[f].missed = flows[f].missed /\ flows'[f].charged = 0
        /\ flows'[f].early = flows[f].early /\ flows'[f].restart = FALSE
    <3> DEFINE w == Pushed(f, flows[f].recent, <<1>>)
               n == flows[f].rx + 1
    <3>1. flows'[f] = [flows[f] EXCEPT !.restart = FALSE, !.rx = n, !.last = held,
                                       !.charged = 0, !.recent = w]
      BY <1>6, RestartedFlow
    <3> HIDE DEF w, n
    <3>2. /\ flows'[f].last = held /\ flows'[f].rx = n
          /\ flows'[f].missed = flows[f].missed /\ flows'[f].charged = 0
          /\ flows'[f].early = flows[f].early /\ flows'[f].restart = FALSE
      BY <2>1, <3>1, FlowFields
    <3> QED BY <3>2 DEF n
  <2>3. flows[f].missed \in Int /\ flows[f].charged = 0
    BY <1>6, <2>1, HeardFlow DEF Drops
  <2>4. flows'[f].missed - flows'[f].charged = flows[f].missed - flows[f].charged
    BY <2>2, <2>3
  <2>5. b = [Books[f] EXCEPT !.restart = FALSE, !.rx = @ + 1, !.last = held]
    <3>1. /\ Books[f] \in Account
          /\ Books[f].rx = flows[f].rx /\ Books[f].early = flows[f].early
          /\ Books[f].lost = flows[f].missed - flows[f].charged
      BY <2>1, AccountBefore
    <3>2. /\ b \in Account
          /\ b.last = held /\ b.rx = flows[f].rx + 1 /\ b.early = flows[f].early
          /\ b.lost = flows[f].missed - flows[f].charged /\ b.restart = FALSE
      BY <1>2, <2>2, <2>4, AccountAfter
    <3> HIDE DEF b
    <3>3. /\ b.rx = Books[f].rx + 1 /\ b.lost = Books[f].lost
          /\ b.early = Books[f].early
      BY <3>1, <3>2
    <3> QED BY <1>2, <3>1, <3>2, <3>3, NewGridAccount
  <2>6. Books' = [Books EXCEPT ![f] = b]
    BY <1>1, <2>1, OneBook
  <2> HIDE DEF b
  <2>7. Books' = [Books EXCEPT ![f].restart = FALSE, ![f].rx = @ + 1, ![f].last = held]
    BY <2>5, <2>6
  <2>8. Books[f].restart
    BY <2>1, AccountBefore
  <2>9. Reference!NewGrid(f, held)
    BY <2>1, <2>7, <2>8, BooksAre DEF Reference!NewGrid, Books
  <2> QED BY <1>2, <2>1, <2>9 DEF Reference!Next
<1>7. CASE f \notin disturbed /\ ~Drops(f) /\ ObserveEarly(f, held)
  <2> DEFINE b == Settled(flows'[f])
  <2>1. /\ f \in DOMAIN flows \ disturbed /\ ~flows[f].restart /\ disturbed' = disturbed
        /\ Slots(f, flows[f].last, held) = 0
    BY <1>1, <1>7 DEF ObserveEarly
  <2>2. /\ flows'[f].last = flows[f].last /\ flows'[f].rx = flows[f].rx
        /\ flows'[f].missed = flows[f].missed /\ flows'[f].charged = flows[f].charged
        /\ flows'[f].early = flows[f].early + 1 /\ flows'[f].restart = flows[f].restart
    <3> DEFINE n == flows[f].early + 1
    <3>1. flows'[f] = [flows[f] EXCEPT !.early = n]
      BY <1>7, EarlyFlow
    <3> HIDE DEF n
    <3>2. /\ flows'[f].last = flows[f].last /\ flows'[f].rx = flows[f].rx
          /\ flows'[f].missed = flows[f].missed /\ flows'[f].charged = flows[f].charged
          /\ flows'[f].early = n /\ flows'[f].restart = flows[f].restart
      BY <2>1, <3>1, FlowFields
    <3> QED BY <3>2 DEF n
  <2>3. b = [Books[f] EXCEPT !.early = @ + 1]
    <3>1. /\ Books[f] \in Account
          /\ Books[f].last = flows[f].last /\ Books[f].rx = flows[f].rx
          /\ Books[f].early = flows[f].early /\ Books[f].restart = flows[f].restart
          /\ Books[f].lost = flows[f].missed - flows[f].charged
      BY <2>1, AccountBefore
    <3>2. /\ b \in Account
          /\ b.last = flows[f].last /\ b.rx = flows[f].rx
          /\ b.early = flows[f].early + 1 /\ b.restart = flows[f].restart
          /\ b.lost = flows[f].missed - flows[f].charged
      BY <1>2, <2>2, AccountAfter
    <3> HIDE DEF b
    <3> QED BY <3>1, <3>2, ExtraAccount
  <2>4. Books' = [Books EXCEPT ![f] = b]
    BY <1>1, <2>1, OneBook
  <2> HIDE DEF b
  <2>5. Books' = [Books EXCEPT ![f].early = @ + 1]
    BY <2>3, <2>4
  <2>6. ~Books[f].restart /\ Reference!Worth(f, Books[f].last, held) = 0
    BY <2>1, AccountBefore, WorthIsSlots
  <2>7. Reference!Extra(f, held)
    BY <2>1, <2>5, <2>6, BooksAre DEF Reference!Extra, Books
  <2> QED BY <1>2, <2>1, <2>7 DEF Reference!Next
<1>8. CASE f \notin disturbed /\ ~Drops(f) /\ ObserveScheduled(f, held)
  <2> DEFINE b     == Settled(flows'[f])
             worth == AtLeast(0, Slots(f, flows[f].last, held) - 1)
             more  == MissedNow(f, held)
  <2>1. /\ f \in DOMAIN flows \ disturbed /\ ~flows[f].restart /\ disturbed' = disturbed
        /\ Slots(f, flows[f].last, held) # 0
    BY <1>1, <1>8 DEF ObserveScheduled
  <2>2. /\ flows'[f].last = held /\ flows'[f].rx = flows[f].rx + 1
        /\ flows'[f].missed = flows[f].missed + more /\ flows'[f].charged = 0
        /\ flows'[f].early = flows[f].early /\ flows'[f].restart = flows[f].restart
    <3> DEFINE w == Pushed(f, flows[f].recent, Losses(MissedNow(f, held)) \o <<1>>)
               n == flows[f].rx + 1
               m == flows[f].missed + more
    <3>1. flows'[f] = [flows[f] EXCEPT !.rx = n, !.missed = m, !.last = held,
                                       !.charged = 0, !.recent = w]
      BY <1>8, ScheduledFlow
    <3> HIDE DEF w, n, m
    <3>2. /\ flows'[f].last = held /\ flows'[f].rx = n
          /\ flows'[f].missed = m /\ flows'[f].charged = 0
          /\ flows'[f].early = flows[f].early /\ flows'[f].restart = flows[f].restart
      BY <2>1, <3>1, FlowFields
    <3> QED BY <3>2 DEF n, m
  <2>3. /\ flows[f].missed \in Int /\ flows[f].charged \in Nat /\ flows[f].last \in Int
        /\ sweptAt \in Int /\ Slots(f, flows[f].last, held) \in Int
        /\ flows[f].charged <= Due(f, flows[f].last, sweptAt)
        /\ Due(f, flows[f].last, sweptAt) \in Nat
        /\ worth \in Nat
    <3>1. /\ flows[f].missed \in Int /\ flows[f].charged \in Nat /\ flows[f].last \in Int
          /\ sweptAt \in Int
          /\ flows[f].charged <= Due(f, flows[f].last, sweptAt)
      BY <2>1, HeardFlow, ThreadTypes
    <3>2. Slots(f, flows[f].last, held) \in Int /\ Due(f, flows[f].last, sweptAt) \in Nat
      BY <1>2, <3>1, DueType
    <3> QED BY <3>1, <3>2 DEF AtLeast
  <2>4. flows[f].charged <= worth
    <3>1. CASE flows[f].charged = 0
      BY <2>3, <3>1
    <3>2. CASE held >= sweptAt
      <4>1. Due(f, flows[f].last, sweptAt) <= Due(f, flows[f].last, held)
        BY <1>2, <2>3, <3>2, DueMonotone
      <4>2. Due(f, flows[f].last, held) = worth
        BY DEF Due
      <4> HIDE DEF worth
      <4> QED BY <2>3, <4>1, <4>2
    <3>3. flows[f].charged = 0 \/ held >= sweptAt
      BY <1>2, <1>8, <2>1, <2>3 DEF Drops
    <3> QED BY <3>1, <3>2, <3>3
  <2>5. more = worth - flows[f].charged
    BY <2>3, <2>4 DEF MissedNow, AtLeast
  <2> HIDE DEF more, worth
  <2>6. flows'[f].missed - flows'[f].charged = (flows[f].missed - flows[f].charged) + worth
    BY <2>2, <2>3, <2>5
  <2>7. b = [Books[f] EXCEPT !.rx = @ + 1, !.lost = @ + worth, !.last = held]
    <3>1. /\ Books[f] \in Account
          /\ Books[f].rx = flows[f].rx /\ Books[f].early = flows[f].early
          /\ Books[f].lost = flows[f].missed - flows[f].charged
          /\ Books[f].restart = flows[f].restart
      BY <2>1, AccountBefore
    <3>2. /\ b \in Account
          /\ b.last = held /\ b.rx = flows[f].rx + 1 /\ b.early = flows[f].early
          /\ b.lost = (flows[f].missed - flows[f].charged) + worth
          /\ b.restart = flows[f].restart
      BY <1>2, <2>2, <2>6, AccountAfter
    <3> HIDE DEF b
    <3>3. /\ b.rx = Books[f].rx + 1 /\ b.lost = Books[f].lost + worth
          /\ b.early = Books[f].early /\ b.restart = Books[f].restart
      BY <3>1, <3>2
    <3>4. /\ worth \in Int /\ held \in Int
          /\ Books[f] \in Account /\ b \in Account /\ b.last = held
      BY <1>2, <2>3, <3>1, <3>2
    <3> DEFINE a == Books[f]
    <3>5. /\ a \in Account /\ b \in Account /\ held \in Int /\ worth \in Int
          /\ b.last = held /\ b.rx = a.rx + 1 /\ b.lost = a.lost + worth
          /\ b.early = a.early /\ b.restart = a.restart
      BY <3>3, <3>4
    <3> HIDE DEF a
    <3>6. b = [a EXCEPT !.rx = @ + 1, !.lost = @ + worth, !.last = held]
      BY <3>5, ClosedAccount
    <3> QED BY <3>6 DEF a
  <2>8. Books' = [Books EXCEPT ![f] = b]
    BY <1>1, <2>1, OneBook
  <2> HIDE DEF b
  <2>9. Books' = [Books EXCEPT ![f].rx = @ + 1, ![f].lost = @ + worth, ![f].last = held]
    BY <2>7, <2>8
  <2>10. /\ ~Books[f].restart /\ Reference!Worth(f, Books[f].last, held) # 0
         /\ worth = Reference!AtLeast(0, Reference!Worth(f, Books[f].last, held) - 1)
    BY <2>1, AccountBefore, WorthIsSlots DEF worth, AtLeast, Reference!AtLeast
  <2>11. Reference!CloseGap(f, held)
    BY <2>1, <2>9, <2>10, BooksAre DEF Reference!CloseGap, Books
  <2> QED BY <1>2, <2>1, <2>11 DEF Reference!Next
<1> QED BY <1>3, <1>4, <1>5, <1>6, <1>7, <1>8 DEF ScoreStep, Observe

LEMMA SweepRefines ==
    ASSUME IInv, RInv, IInv', RunSweep
    PROVE  UNCHANGED Reference!vars
<1>1. disturbed' = disturbed /\ DOMAIN flows' = DOMAIN flows
  BY DEF RunSweep, Sweep
<1>2. ASSUME NEW f \in DOMAIN flows PROVE Settled(flows'[f]) = Settled(flows[f])
  <2>1. CASE flows'[f] = flows[f]
    BY <2>1
  <2>2. CASE flows'[f] = Charge(f, sweepNow)
    <3> DEFINE more == Delta(f, sweepNow)
    <3>1. /\ flows[f].last \in Int /\ sweepNow \in Int /\ f \in Flow
          /\ flows[f].charged \in Nat /\ flows[f].missed \in Int
      BY HeardFlow, ThreadTypes
    <3>2. more \in Int
      <4>1. Due(f, flows[f].last, sweepNow) \in Nat
        BY <3>1, DueType
      <4> QED BY <3>1, <4>1 DEF Delta, AtLeast
    <3>3. /\ flows'[f].last = flows[f].last /\ flows'[f].rx = flows[f].rx
          /\ flows'[f].missed = flows[f].missed + more
          /\ flows'[f].charged = flows[f].charged + more
          /\ flows'[f].early = flows[f].early /\ flows'[f].restart = flows[f].restart
      BY <2>2, ChargedFields
    <3> HIDE DEF more
    <3>4. flows'[f].missed - flows'[f].charged = flows[f].missed - flows[f].charged
      BY <3>1, <3>2, <3>3
    <3> QED BY <3>3, <3>4 DEF Settled
  <2> QED BY <2>1, <2>2, SweptFlow
<1>3. Books' = Books
  BY <1>1, <1>2, SameBooks
<1> QED BY <1>1, <1>3, Stutters

LEMMA RestartRefines == ASSUME Restart PROVE Reference!Forget
<1>1. disturbed' = {} /\ DOMAIN flows' = {}
  BY DEF Restart, TrackerReset, NoFlows
<1> QED BY <1>1 DEF Reference!Forget, Reference!NoBooks

\* Set the charges of the open gaps aside, and the tracker, with its sweeps,
\* refunds, races and restarts, counts what an estimator without sweeps counts:
\* it implements SweepFree.
THEOREM TrackerImplementsSweepFree == Spec => SweepIsInvisible
<1>1. Init => Reference!Init
  BY DEF Init, TrackerInit, NoFlows, Reference!Init, Reference!NoBooks
<1>2. (IInv /\ RInv) /\ (IInv /\ RInv)' /\ [Next]_vars => [Reference!Next]_(Reference!vars)
  <2>1. SUFFICES ASSUME IInv, RInv, IInv', [Next]_vars
                 PROVE  [Reference!Next]_(Reference!vars)
    OBVIOUS
  <2>2. ASSUME UNCHANGED <<flows, disturbed>> PROVE UNCHANGED Reference!vars
    BY <2>2, SameBooks, Stutters
  <2>3. CASE Tick \/ Receive \/ Handled \/ SweepDue \/ UNCHANGED vars
    BY <2>2, <2>3 DEF Tick, Receive, Handled, SweepDue, vars, history
  <2>4. CASE \E f \in Flow : RefundStep(f) \/ ScoreStep(f)
    BY <2>1, <2>4, RefundRefines, ScoreRefines
  <2>5. CASE RunSweep
    BY <2>1, <2>5, SweepRefines
  <2>6. CASE Restart
    BY <2>6, RestartRefines DEF Reference!Next
  <2> QED BY <2>1, <2>3, <2>4, <2>5, <2>6 DEF Next
<1> QED BY <1>1, <1>2, RefinedInvariance, PTL DEF Spec, SweepIsInvisible, Reference!Spec

(***************************************************************************)
(* The receiver takes no step of the tracker that CadencePdr does not      *)
(* have: all that is proved of the tracker holds of it on a mesh.          *)
(***************************************************************************)
LEMMA TrackerStep == [MeshNext]_allVars => [Next]_vars
<1>1. SUFFICES ASSUME [MeshNext]_allVars PROVE [Next]_vars
  OBVIOUS
<1>2. CASE MeshTick
  BY <1>2 DEF MeshTick, Next
<1>3. CASE (\E f \in Flow : Broadcast(f))
           \/ (\E n \in Node : RelayMessage(n) \/ Crash(n) \/ Boot(n))
  BY <1>3 DEF Broadcast, RelayMessage, Crash, Boot
<1>4. CASE \E p \in air : OnReceive(p)
  BY <1>4 DEF OnReceive, Next
<1>5. CASE HandlePacket
  BY <1>5 DEF HandlePacket, Next
<1>6. CASE ListenWakes
  BY <1>6 DEF ListenWakes, Next
<1>7. CASE ListenSweeps
  BY <1>7 DEF ListenSweeps, Next
<1>8. CASE GatewayRestart
  BY <1>8 DEF GatewayRestart, Next
<1>9. CASE UNCHANGED allVars
  BY <1>9 DEF allVars
<1> QED
  BY <1>1, <1>2, <1>3, <1>4, <1>5, <1>6, <1>7, <1>8, <1>9 DEF MeshNext

THEOREM ReceiverImplementsTracker == MeshSpec => Spec
<1>1. MeshInit => Init
  BY DEF MeshInit
<1> QED
  BY <1>1, TrackerStep, PTL DEF MeshSpec, Spec
-----------------------------------------------------------------------------
\* What the environment may do: flows are those of the nodes.
LEMMA FlowIs ==
    ASSUME NEW f \in Flow
    PROVE  /\ f[1] \in Node
           /\ f = <<f[1], f[2]>>
           /\ f[2] # "message"
           /\ Interval[f] \in Nat \ {0}
<1>1. PICK n \in Node : f \in {n} \X Kinds[n]
  BY MeshAssumption
<1>2. Kinds[n] \subseteq {"device", "environment", "position"}
  BY MeshAssumption
<1> QED
  BY <1>1, <1>2, CadenceAssumption

MeshId == (Flow \cup (Node \X {"message"})) \X Nat

MeshTyped ==
    /\ uptime \in [Node -> Nat \cup {Off}]
    /\ bootAt \in [Node -> Nat \cup {Off}]
    /\ dueAt \in [Flow -> Nat]
    /\ unreported \subseteq Node
    /\ \A n \in Node : bootAt[n] <= clock
    /\ \A f \in Flow : bootAt[f[1]] # Off => clock <= dueAt[f]
    /\ \A p \in air : p.id \in MeshId /\ p.uptime \in Nat

\* What an id tells of its packet.
LEMMA PacketIs ==
    ASSUME NEW p \in air, MeshTyped
    PROVE  /\ Sender(p) \in Node
           /\ SentAt(p) \in Nat
           /\ p.id = <<p.id[1], SentAt(p)>>
           /\ p.id[1] \in Flow => p.id[1] = <<Sender(p), KindOf(p)>>
           /\ KindOf(p) = "message" \/ p.id[1] \in Flow
<1>1. p.id \in MeshId
  BY DEF MeshTyped
<1>2. p.id[1] \in Flow \cup (Node \X {"message"}) /\ p.id[2] \in Nat
      /\ p.id = <<p.id[1], p.id[2]>>
  BY <1>1 DEF MeshId
<1> QED
  BY <1>2, FlowIs DEF Sender, KindOf, SentAt

LEMMA SentPacket ==
    ASSUME NEW n, NEW k, NEW up
    PROVE  /\ NewPacket(n, k, up).id = <<<<n, k>>, clock>>
           /\ NewPacket(n, k, up).uptime = up
           /\ SentAt(NewPacket(n, k, up)) = clock
           /\ Sender(NewPacket(n, k, up)) = n
           /\ KindOf(NewPacket(n, k, up)) = k
BY DEF NewPacket, SentAt, Sender, KindOf

LEMMA BroadcastTyped ==
    ASSUME MeshTyped, IInv, NEW f \in Flow, Broadcast(f)
    PROVE  MeshTyped'
<1> DEFINE q == NewPacket(f[1], f[2], clock - bootAt[f[1]])
<1>1. /\ clock \in Nat /\ clock' = clock
      /\ f[1] \in Node /\ f = <<f[1], f[2]>> /\ Interval[f] \in Nat \ {0}
      /\ dueAt \in [Flow -> Nat] /\ bootAt \in [Node -> Nat \cup {Off}]
  BY FlowIs, ThreadTypes DEF MeshTyped, Broadcast, vars, threads
<1>2. bootAt[f[1]] \in Nat /\ bootAt[f[1]] <= clock
  BY <1>1 DEF Broadcast, MeshTyped, Off
<1>3. q.id \in MeshId /\ q.uptime \in Nat
  BY <1>1, <1>2, SentPacket DEF MeshId
<1>4. air' = air \cup {q}
  BY DEF Broadcast
<1>5. \A p \in air' : p.id \in MeshId /\ p.uptime \in Nat
  BY <1>3, <1>4 DEF MeshTyped
<1> HIDE DEF q
<1>6. dueAt' \in [Flow -> Nat] /\ \A g \in Flow : dueAt[g] <= dueAt'[g]
  BY <1>1 DEF Broadcast
<1>7. /\ \A n \in Node : bootAt'[n] <= clock'
      /\ \A g \in Flow : bootAt'[g[1]] # Off => clock' <= dueAt'[g]
  BY <1>1, <1>6 DEF Broadcast, MeshTyped
<1>8. UNCHANGED <<uptime, bootAt, unreported>>
  BY DEF Broadcast, receiver, past
<1> QED BY <1>1, <1>5, <1>6, <1>7, <1>8 DEF MeshTyped

LEMMA BootTyped ==
    ASSUME MeshTyped, IInv, NEW n \in Node, Boot(n)
    PROVE  MeshTyped'
<1>1. /\ clock \in Nat /\ clock' = clock
      /\ dueAt \in [Flow -> Nat] /\ bootAt \in [Node -> Nat \cup {Off}]
  BY ThreadTypes DEF MeshTyped, Boot, vars, threads
<1>2. PICK first \in [FlowsOf(n) -> 1 .. MaxFirst] :
          dueAt' = [f \in Flow |-> IF f \in FlowsOf(n) THEN clock + first[f]
                                   ELSE dueAt[f]]
  BY DEF Boot
<1>3. MaxFirst \in Nat
  BY MeshAssumption
<1>4. ASSUME NEW f \in Flow
      PROVE  /\ dueAt'[f] \in Nat
             /\ bootAt'[f[1]] # Off => clock' <= dueAt'[f]
  <2>1. CASE f \in FlowsOf(n)
    <3>1. first[f] \in 1 .. MaxFirst /\ dueAt'[f] = clock + first[f]
      BY <1>2, <2>1
    <3> QED BY <1>1, <1>3, <3>1
  <2>2. CASE f \notin FlowsOf(n)
    <3>1. dueAt'[f] = dueAt[f] /\ f[1] # n /\ f[1] \in Node
      BY <1>2, <2>2, FlowIs DEF FlowsOf
    <3>2. bootAt'[f[1]] = bootAt[f[1]]
      BY <1>1, <3>1 DEF Boot
    <3> QED BY <1>1, <3>1, <3>2 DEF MeshTyped
  <2> QED BY <2>1, <2>2
<1>5. dueAt' \in [Flow -> Nat]
  BY <1>2, <1>4
<1>6. /\ bootAt' \in [Node -> Nat \cup {Off}]
      /\ \A m \in Node : bootAt'[m] <= clock'
  BY <1>1 DEF Boot, MeshTyped
<1>7. UNCHANGED <<uptime, air>> /\ unreported' \subseteq Node
  BY DEF Boot, receiver, past, MeshTyped
<1> QED BY <1>1, <1>4, <1>5, <1>6, <1>7 DEF MeshTyped

LEMMA TypedStep ==
    ASSUME MeshTyped, IInv, [MeshNext]_allVars
    PROVE  MeshTyped'
<1>1. /\ clock \in Nat /\ bootAt \in [Node -> Nat \cup {Off}]
      /\ dueAt \in [Flow -> Nat]
      /\ \A f \in Flow : f[1] \in Node
  BY FlowIs, ThreadTypes DEF MeshTyped
<1>2. CASE MeshTick
  <2>1. clock' = clock + 1 /\ air' \subseteq air
        /\ UNCHANGED <<uptime, bootAt, dueAt, unreported>>
    BY <1>2 DEF MeshTick, Tick, receiver
  <2>2. \A f \in Flow : bootAt[f[1]] # Off => clock' <= dueAt[f]
    BY <1>1, <1>2, <2>1 DEF MeshTick
  <2>3. \A n \in Node : bootAt[n] <= clock'
    BY <1>1, <2>1 DEF MeshTyped, Off
  <2> QED BY <2>1, <2>2, <2>3 DEF MeshTyped
<1>3. ASSUME NEW f \in Flow, Broadcast(f) PROVE MeshTyped'
  BY <1>3, BroadcastTyped
<1>4. ASSUME NEW n \in Node, RelayMessage(n) PROVE MeshTyped'
  <2> DEFINE q == NewPacket(n, "message", 0)
  <2>1. q.id \in MeshId /\ q.uptime \in Nat
    BY <1>1, SentPacket DEF MeshId
  <2>2. air' = air \cup {q} /\ UNCHANGED <<clock, uptime, bootAt, dueAt, unreported>>
    BY <1>4 DEF RelayMessage, vars, threads, receiver, past
  <2> HIDE DEF q
  <2> QED BY <2>1, <2>2 DEF MeshTyped
<1>5. ASSUME NEW n \in Node, Crash(n) PROVE MeshTyped'
  <2>1. UNCHANGED <<clock, uptime, air, dueAt, unreported>>
    BY <1>5 DEF Crash, vars, threads, receiver, past
  <2>2. bootAt' = [bootAt EXCEPT ![n] = Off]
    BY <1>5 DEF Crash
  <2>3. /\ bootAt' \in [Node -> Nat \cup {Off}]
        /\ \A m \in Node : bootAt'[m] <= clock
        /\ \A m \in Node : bootAt'[m] # Off => bootAt[m] # Off
    BY <1>1, <2>2 DEF MeshTyped, Off
  <2> QED BY <1>1, <2>1, <2>3 DEF MeshTyped
<1>6. ASSUME NEW n \in Node, Boot(n) PROVE MeshTyped'
  BY <1>6, BootTyped
<1>7. ASSUME NEW p \in air, OnReceive(p) PROVE MeshTyped'
  <2>1. /\ UNCHANGED <<clock, bootAt, air, dueAt>>
        /\ uptime' \in {uptime, [uptime EXCEPT ![Sender(p)] = p.uptime]}
        /\ unreported' \subseteq unreported
    BY <1>7 DEF OnReceive, Receive, mesh
  <2>2. p.uptime \in Nat
    BY DEF MeshTyped
  <2> QED BY <2>1, <2>2 DEF MeshTyped
<1>8. CASE HandlePacket \/ ListenWakes \/ ListenSweeps
  <2>1. UNCHANGED <<clock, uptime, bootAt, air, dueAt, unreported>>
    BY <1>8 DEF HandlePacket, ListenWakes, ListenSweeps, receiver, mesh, past,
                RefundStep, ScoreStep, Handled, SweepDue, RunSweep
  <2> QED BY <2>1 DEF MeshTyped
<1>9. CASE GatewayRestart
  <2>1. UNCHANGED <<clock, bootAt, air, dueAt, unreported>>
    BY <1>9 DEF GatewayRestart, Restart, mesh
  <2>2. uptime' \in [Node -> Nat \cup {Off}]
    BY <1>9 DEF GatewayRestart
  <2> QED BY <2>1, <2>2 DEF MeshTyped
<1>10. CASE UNCHANGED allVars
  BY <1>10 DEF allVars, vars, threads, receiver, mesh, past, MeshTyped
<1> QED
  BY <1>2, <1>3, <1>4, <1>5, <1>6, <1>7, <1>8, <1>9, <1>10 DEF MeshNext
-----------------------------------------------------------------------------
\* The ids remembered -------------------------------------------------------
\* w is the end of a, as much of it as a window of m holds.
EndsIn(a, w, m) ==
    LET k == AtLeast(0, Len(a) - m)
    IN  Len(w) = Len(a) - k /\ \A i \in 1 .. Len(w) : w[i] = a[k + i]

\* Far apart: equal entries have more than m positions between them.
FarApart(a, m) ==
    \A i, j \in DOMAIN a : i < j /\ a[i] = a[j] => j - i > m

Slid(w, x, m) ==
    LET all == Append(w, x)
    IN  SubSeq(all, AtLeast(0, Len(all) - m) + 1, Len(all))

LEMMA Overhang ==
    ASSUME NEW la \in Nat, NEW lw \in Nat, NEW m \in Nat \ {0},
           lw = la - AtLeast(0, la - m)
    PROVE  /\ AtLeast(0, la - m) \in 0 .. la
           /\ AtLeast(0, lw + 1 - m) \in 0 .. lw + 1
           /\ AtLeast(0, la + 1 - m) = AtLeast(0, la - m) + AtLeast(0, lw + 1 - m)
BY DEF AtLeast

LEMMA WindowSlides ==
    ASSUME NEW S, NEW a \in Seq(S), NEW w \in Seq(S), NEW m \in Nat \ {0},
           NEW x \in S, EndsIn(a, w, m)
    PROVE  Slid(w, x, m) \in Seq(S) /\ EndsIn(Append(a, x), Slid(w, x, m), m)
<1> DEFINE k   == AtLeast(0, Len(a) - m)
           all == Append(w, x)
           b   == Append(a, x)
           d   == AtLeast(0, Len(all) - m)
           v   == Slid(w, x, m)
<1>1. /\ Len(a) \in Nat /\ Len(w) \in Nat
      /\ Len(w) = Len(a) - k /\ \A i \in 1 .. Len(w) : w[i] = a[k + i]
  BY DEF EndsIn
<1>2. /\ all \in Seq(S) /\ Len(all) = Len(w) + 1
      /\ all[Len(w) + 1] = x /\ \A i \in 1 .. Len(w) : all[i] = w[i]
      /\ b \in Seq(S) /\ Len(b) = Len(a) + 1
      /\ b[Len(a) + 1] = x /\ \A i \in 1 .. Len(a) : b[i] = a[i]
  OBVIOUS
<1>3. k \in 0 .. Len(a)
  BY <1>1, Overhang
<1>4. d \in 0 .. Len(all)
  <2> HIDE DEF all
  <2>1. d = AtLeast(0, Len(w) + 1 - m)
    BY <1>2
  <2>2. d \in 0 .. Len(w) + 1
    BY <1>1, <2>1, Overhang
  <2> QED BY <1>2, <2>2
<1>5. v = SubSeq(all, d + 1, Len(all))
  BY DEF Slid
<1>6. AtLeast(0, Len(b) - m) = k + d
  <2> HIDE DEF all, b
  <2> QED BY <1>1, <1>2, Overhang
<1> HIDE DEF v, d, k, all, b
<1>7. \A i \in 1 .. Len(all) : all[i] = b[k + i]
  <2>1. ASSUME NEW i \in 1 .. Len(w) PROVE all[i] = b[k + i]
    <3>1. k + i \in 1 .. Len(a)
      BY <1>1, <1>3
    <3> QED BY <1>1, <1>2, <3>1
  <2>2. all[Len(w) + 1] = b[k + (Len(w) + 1)]
    <3>1. k + (Len(w) + 1) = Len(a) + 1
      BY <1>1, <1>3
    <3> QED BY <1>1, <1>2, <3>1
  <2>3. \A i \in 1 .. Len(all) : i \in 1 .. Len(w) \/ i = Len(w) + 1
    BY <1>1, <1>2
  <2> QED BY <2>1, <2>2, <2>3
<1>8. /\ v \in Seq(S) /\ Len(v) = Len(all) - d
      /\ \A i \in 1 .. Len(v) : v[i] = all[d + i]
  <2>1. d + 1 \in Int /\ Len(all) \in Nat /\ d + 1 <= Len(all) + 1
    BY <1>1, <1>2, <1>4
  <2> QED BY <1>2, <1>4, <1>5, <2>1, SubSeqProperties
<1>9. Len(v) = Len(b) - (k + d)
  BY <1>1, <1>2, <1>3, <1>4, <1>8
<1>10. ASSUME NEW i \in 1 .. Len(v) PROVE v[i] = b[(k + d) + i]
  <2>1. d \in Nat /\ k \in Nat /\ Len(all) \in Nat /\ i \in 1 .. Len(all) - d
    BY <1>1, <1>2, <1>3, <1>4, <1>8
  <2>2. d + i \in 1 .. Len(all) /\ k + (d + i) = (k + d) + i
    BY <2>1
  <2> QED BY <2>2, <1>7, <1>8
<1> QED
  BY <1>6, <1>8, <1>9, <1>10 DEF EndsIn, v, b

LEMMA StaysFarApart ==
    ASSUME NEW S, NEW a \in Seq(S), NEW w \in Seq(S), NEW m \in Nat \ {0},
           NEW x \in S, EndsIn(a, w, m), FarApart(a, m), ~Contains(w, x)
    PROVE  FarApart(Append(a, x), m)
<1> DEFINE k == AtLeast(0, Len(a) - m)
           b == Append(a, x)
<1>1. /\ Len(a) \in Nat /\ Len(w) \in Nat
      /\ Len(w) = Len(a) - k /\ \A i \in 1 .. Len(w) : w[i] = a[k + i]
      /\ \A i \in 1 .. Len(w) : w[i] # x
  BY DEF EndsIn, Contains
<1>2. /\ DOMAIN b = 1 .. Len(a) + 1 /\ DOMAIN a = 1 .. Len(a)
      /\ b[Len(a) + 1] = x /\ \A i \in 1 .. Len(a) : b[i] = a[i]
  OBVIOUS
<1>3. k \in Nat /\ (k = 0 \/ k = Len(a) - m)
  BY <1>1 DEF AtLeast
<1> HIDE DEF b, k
<1>4. ASSUME NEW i \in 1 .. Len(a), a[i] = x PROVE Len(a) + 1 - i > m
  <2>1. ASSUME i > k PROVE FALSE
    <3>1. i - k \in 1 .. Len(w) /\ k + (i - k) = i
      BY <1>1, <1>3, <2>1
    <3> QED BY <1>1, <1>4, <3>1
  <2> QED BY <1>1, <1>3, <2>1
<1>5. ASSUME NEW i \in DOMAIN b, NEW j \in DOMAIN b, i < j, b[i] = b[j]
      PROVE  j - i > m
  <2>1. CASE j \in 1 .. Len(a)
    BY <1>1, <1>2, <1>5, <2>1 DEF FarApart
  <2>2. CASE j = Len(a) + 1
    BY <1>1, <1>2, <1>4, <1>5, <2>2
  <2> QED BY <1>1, <1>2, <2>1, <2>2
<1> QED BY <1>5 DEF FarApart, b

SeenInv ==
    /\ accepted \in Seq(MeshId) /\ seen \in Seq(MeshId)
    /\ EndsIn(accepted, seen, SeenMax)
    /\ FarApart(accepted, SeenMax)

LEMMA NothingSeen == EndsIn(<<>>, <<>>, SeenMax) /\ FarApart(<<>>, SeenMax)
BY MeshAssumption DEF EndsIn, FarApart, AtLeast

LEMMA SeenStep ==
    ASSUME SeenInv, MeshTyped, [MeshNext]_allVars
    PROVE  SeenInv'
<1>1. ASSUME NEW p \in air, OnReceive(p) PROVE SeenInv'
  <2>1. p.id \in MeshId /\ SeenMax \in Nat \ {0}
    BY MeshAssumption DEF MeshTyped
  <2>2. ~Contains(seen, p.id) /\ seen' = Slid(seen, p.id, SeenMax)
        /\ accepted' = Append(accepted, p.id)
    BY <1>1 DEF OnReceive, IsValid, Remembered, Slid
  <2> QED BY <2>1, <2>2, WindowSlides, StaysFarApart DEF SeenInv
<1>2. CASE GatewayRestart
  BY <1>2, NothingSeen DEF GatewayRestart, SeenInv
<1>3. CASE UNCHANGED <<seen, accepted>>
  BY <1>3 DEF SeenInv
<1>4. CASE MeshTick \/ (\E f \in Flow : Broadcast(f))
           \/ (\E n \in Node : RelayMessage(n) \/ Crash(n) \/ Boot(n))
           \/ HandlePacket \/ ListenWakes \/ ListenSweeps \/ UNCHANGED allVars
  BY <1>3, <1>4 DEF MeshTick, Broadcast, RelayMessage, Crash, Boot, HandlePacket,
                    ListenWakes, ListenSweeps, receiver, past, allVars
<1> QED BY <1>1, <1>2, <1>4 DEF MeshNext

LEMMA InitTyped == MeshInit => MeshTyped /\ SeenInv
<1>1. SUFFICES ASSUME MeshInit PROVE MeshTyped /\ SeenInv
  OBVIOUS
<1>2. dueAt \in [Flow -> Nat]
  BY <1>1 DEF MeshInit
<1> QED
  BY <1>1, <1>2, FlowIs, NothingSeen DEF MeshInit, Init, MeshTyped, SeenInv, Off

LEMMA MeshTypes == MeshSpec => [](IInv /\ MeshTyped /\ SeenInv)
<1>1. MeshInit => IInv /\ MeshTyped /\ SeenInv
  BY InitTyped, InitIInv DEF MeshInit
<1>2. IInv /\ MeshTyped /\ SeenInv /\ [MeshNext]_allVars => (IInv /\ MeshTyped /\ SeenInv)'
  BY TypedStep, SeenStep, TrackerStep, NextIInv
<1> QED BY <1>1, <1>2, PTL DEF MeshSpec

\* A packet the mesh repeats is handled once, unless more than SeenMax others
\* were accepted in between: for every size of the window.
THEOREM PacketsHandledOnce == MeshSpec => []AcceptedOnce
<1>1. SeenInv => AcceptedOnce
  BY DEF SeenInv, FarApart, AcceptedOnce
<1> QED BY <1>1, MeshTypes, PTL
-----------------------------------------------------------------------------
\* A reboot is node-wide ----------------------------------------------------
\* Between packets there is nothing left to re-anchor or to score.
Quiet == held = Idle => refunds = {} /\ scores = {}

\* While a reboot is being applied: what it still has to re-anchor are flows
\* of one node, and the node's other flows have left the old grid.
NewGrid(f) == flows[f].restart /\ flows[f].last = held
HalfApplied(n) ==
    /\ refunds \subseteq FlowsOf(n)
    /\ \A f \in (FlowsOf(n) \ refunds) \cap DOMAIN flows : NewGrid(f)
NodeWide == refunds # {} => \E n \in Node : HalfApplied(n)

LEMMA QuietStep ==
    ASSUME IInv, Quiet, [Next]_vars
    PROVE  Quiet'
<1>1. clock \in Nat /\ Idle \notin Nat
  BY ThreadTypes DEF Idle
<1>2. CASE Receive
  BY <1>1, <1>2 DEF Receive, Quiet
<1>3. ASSUME NEW f \in Flow, RefundStep(f) \/ ScoreStep(f) PROVE Quiet'
  BY <1>3 DEF RefundStep, ScoreStep, Quiet
<1>4. CASE Handled \/ Restart
  BY <1>4 DEF Handled, Restart, Quiet
<1>5. CASE Tick \/ SweepDue \/ RunSweep \/ UNCHANGED vars
  BY <1>5 DEF Tick, SweepDue, RunSweep, vars, threads, Quiet
<1> QED BY <1>2, <1>3, <1>4, <1>5 DEF Next

\* Re-anchoring one flow takes it out of those left to do.
LEMMA OneMoreRefunded ==
    ASSUME IInv, NEW n \in Node, HalfApplied(n), NEW f \in Flow, RefundStep(f)
    PROVE  HalfApplied(n)'
<1>1. refunds' = refunds \ {f} /\ held' = held
  BY DEF RefundStep
<1>2. CASE f \in DOMAIN flows
  <2>1. flows'[f].last = held /\ flows'[f].restart /\ OthersStay(f)
    BY <1>2, RefundedFlow, FlowFields
  <2>2. ASSUME NEW g \in (FlowsOf(n) \ refunds') \cap DOMAIN flows', g # f
        PROVE  flows'[g].restart /\ flows'[g].last = held
    <3>1. g \in (FlowsOf(n) \ refunds) \cap DOMAIN flows /\ flows'[g] = flows[g]
      BY <1>1, <1>2, <2>1, <2>2 DEF OthersStay
    <3> QED BY <3>1 DEF HalfApplied, NewGrid
  <2> QED BY <1>1, <2>1, <2>2 DEF HalfApplied, NewGrid
<1>3. CASE f \notin DOMAIN flows
  <2>1. flows' = flows
    BY <1>3 DEF RefundStep, Reanchor
  <2> QED BY <1>1, <1>3, <2>1 DEF HalfApplied, NewGrid
<1> QED BY <1>2, <1>3

\* A sweep moves no anchor.
LEMMA SweepKeepsAnchors ==
    ASSUME IInv, RunSweep
    PROVE  /\ DOMAIN flows' = DOMAIN flows
           /\ \A f \in DOMAIN flows : /\ flows'[f].last = flows[f].last
                                      /\ flows'[f].restart = flows[f].restart
<1>1. ASSUME NEW f \in DOMAIN flows
      PROVE  flows'[f].last = flows[f].last /\ flows'[f].restart = flows[f].restart
  BY SweptFlow, ChargedFields
<1> QED BY <1>1 DEF RunSweep, Sweep

LEMMA NodeWideStep ==
    ASSUME IInv, MeshTyped, Quiet, NodeWide, [MeshNext]_allVars
    PROVE  NodeWide'
<1>1. ASSUME NEW p \in air, OnReceive(p) PROVE NodeWide'
  <2>1. Sender(p) \in Node /\ refunds' \in {{}, FlowsOf(Sender(p))}
    BY <1>1, PacketIs DEF OnReceive
  <2> QED BY <2>1 DEF NodeWide, HalfApplied
<1>2. ASSUME NEW f \in Flow, RefundStep(f) PROVE NodeWide'
  <2>1. refunds # {}
    BY <1>2 DEF RefundStep
  <2> QED BY <1>2, <2>1, OneMoreRefunded DEF NodeWide
<1>3. ASSUME NEW f \in Flow, ScoreStep(f) PROVE NodeWide'
  BY <1>3 DEF ScoreStep, NodeWide
<1>4. CASE Handled \/ Restart
  BY <1>4 DEF Handled, Restart, NodeWide
<1>5. CASE RunSweep
  BY <1>5, SweepKeepsAnchors DEF RunSweep, NodeWide, HalfApplied, NewGrid
<1>6. CASE UNCHANGED <<flows, held, refunds>>
  BY <1>6 DEF NodeWide, HalfApplied, NewGrid
<1>7. CASE MeshTick \/ (\E f \in Flow : Broadcast(f))
           \/ (\E n \in Node : RelayMessage(n) \/ Crash(n) \/ Boot(n))
           \/ ListenWakes \/ UNCHANGED allVars
  BY <1>6, <1>7 DEF MeshTick, Tick, Broadcast, RelayMessage, Crash, Boot, ListenWakes,
                    SweepDue, history, allVars, vars, threads
<1> QED
  BY <1>1, <1>2, <1>3, <1>4, <1>5, <1>7
     DEF MeshNext, HandlePacket, ListenSweeps, GatewayRestart

LEMMA NodeWideInvariance == MeshSpec => [](Quiet /\ NodeWide)
<1>1. MeshInit => Quiet /\ NodeWide
  BY DEF MeshInit, Init, Quiet, NodeWide
<1>2. IInv /\ MeshTyped /\ Quiet /\ NodeWide /\ [MeshNext]_allVars => (Quiet /\ NodeWide)'
  BY TrackerStep, QuietStep, NodeWideStep
<1>3. MeshSpec => [](IInv /\ MeshTyped)
  BY MeshTypes, PTL
<1> QED BY <1>1, <1>2, <1>3, PTL DEF MeshSpec

\* Once a reboot has been applied, no flow of the node is left on the grid it
\* kept before: for every number of flows a node may have.
THEOREM RebootsAreNodeWide == MeshSpec => RebootIsNodeWide
<1> DEFINE Applied(n) ==
        refunds # {} /\ refunds \subseteq FlowsOf(n) /\ refunds' = {} =>
              \A f \in FlowsOf(n) \cap DOMAIN flows' :
                  flows'[f].restart /\ flows'[f].last = held
<1>1. ASSUME IInv, MeshTyped, Quiet, NodeWide, [MeshNext]_allVars, NEW n \in Node,
             refunds # {}, refunds \subseteq FlowsOf(n), refunds' = {},
             NEW f \in FlowsOf(n) \cap DOMAIN flows'
      PROVE  flows'[f].restart /\ flows'[f].last = held
  <2>1. PICK g \in refunds : g \in FlowsOf(n)
    BY <1>1
  <2>2. HalfApplied(n)
    BY <1>1, <2>1 DEF NodeWide, HalfApplied, FlowsOf
  <2>3. held # Idle
    BY <1>1 DEF Quiet
  <2>4. CASE \E h \in Flow : RefundStep(h)
    <3>1. HalfApplied(n)' /\ held' = held
      BY <1>1, <2>2, <2>4, OneMoreRefunded DEF RefundStep
    <3> QED BY <1>1, <3>1 DEF HalfApplied, NewGrid
  <2>5. CASE GatewayRestart
    BY <1>1, <2>5 DEF GatewayRestart, Restart, TrackerReset, NoFlows
  <2>6. CASE \E p \in air : OnReceive(p)
    BY <2>3, <2>6 DEF OnReceive, Receive
  <2>7. CASE Handled \/ (\E h \in Flow : ScoreStep(h))
    BY <1>1, <2>7 DEF Handled, ScoreStep
  <2>8. CASE refunds' = refunds
    BY <1>1, <2>8
  <2>9. CASE MeshTick \/ (\E h \in Flow : Broadcast(h))
             \/ (\E m \in Node : RelayMessage(m) \/ Crash(m) \/ Boot(m))
             \/ ListenWakes \/ ListenSweeps \/ UNCHANGED allVars
    BY <2>8, <2>9 DEF MeshTick, Tick, Broadcast, RelayMessage, Crash, Boot, ListenWakes,
                      ListenSweeps, SweepDue, RunSweep, allVars, vars, threads
  <2> QED BY <1>1, <2>4, <2>5, <2>6, <2>7, <2>9 DEF MeshNext, HandlePacket
<1>2. IInv /\ MeshTyped /\ Quiet /\ NodeWide /\ [MeshNext]_allVars
         => [\A n \in Node : Applied(n)]_allVars
  BY <1>1
<1>3. MeshSpec => [](IInv /\ MeshTyped /\ Quiet /\ NodeWide)
  BY MeshTypes, NodeWideInvariance, PTL
<1> QED BY <1>2, <1>3, PTL DEF MeshSpec, RebootIsNodeWide
-----------------------------------------------------------------------------
\* Reports of uptime --------------------------------------------------------
\* A flow whose packets are heard, or not at all, before the next is sent.
Apart(f) == MaxDelay < Interval[f]

\* Of a node that is up, what its packets say of it.
AirTimes ==
    /\ \A p \in air : SentAt(p) <= clock /\ clock <= SentAt(p) + MaxDelay
    /\ \A p \in air : bootAt[Sender(p)] # Off /\ p.id[1] \in Flow =>
          /\ p.uptime = SentAt(p) - bootAt[Sender(p)]
          /\ Apart(p.id[1]) => dueAt[p.id[1]] = SentAt(p) + Interval[p.id[1]]
    /\ \A p, q \in air : p.id[1] = q.id[1] /\ p.id[1] \in Flow /\ Apart(p.id[1])
                            => p = q

\* No report still to be heard, nor the next one, is below the last, once a
\* report since the boot was heard.
DeviceFlow(n) == <<n, "device">>
ReportsRise ==
    \A n \in Node \ unreported : DeviceFlow(n) \in Flow /\ Apart(DeviceFlow(n)) =>
        /\ \A p \in air : p.id[1] = DeviceFlow(n) => uptime[n] <= p.uptime
        /\ bootAt[n] # Off => uptime[n] <= clock - bootAt[n]

\* A packet is sent when the last one of its flow can no longer be heard.
LEMMA AirClear ==
    ASSUME IInv, MeshTyped, AirTimes, NEW f \in Flow, Apart(f),
           bootAt[f[1]] # Off, dueAt[f] = clock,
           NEW p \in air, p.id[1] = f
    PROVE  FALSE
<1>1. clock \in Nat /\ MaxDelay \in Nat /\ Interval[f] \in Nat /\ SentAt(p) \in Nat
  BY FlowIs, ThreadTypes, MeshAssumption, PacketIs
<1>2. Sender(p) = f[1]
  BY DEF Sender
<1>3. dueAt[f] = SentAt(p) + Interval[f] /\ clock <= SentAt(p) + MaxDelay
  BY <1>2 DEF AirTimes
<1> QED BY <1>1, <1>3 DEF Apart

LEMMA AirBroadcast ==
    ASSUME IInv, MeshTyped, AirTimes, NEW f \in Flow, Broadcast(f)
    PROVE  AirTimes'
<1> DEFINE b == NewPacket(f[1], f[2], clock - bootAt[f[1]])
<1>1. /\ clock \in Nat /\ clock' = clock /\ MaxDelay \in Nat
      /\ f[1] \in Node /\ f = <<f[1], f[2]>> /\ Interval[f] \in Nat \ {0}
      /\ dueAt \in [Flow -> Nat] /\ bootAt \in [Node -> Nat \cup {Off}]
      /\ bootAt' = bootAt /\ bootAt[f[1]] # Off /\ dueAt[f] = clock
      /\ dueAt' = [dueAt EXCEPT ![f] = @ + Interval[f]]
  BY FlowIs, ThreadTypes, MeshAssumption DEF MeshTyped, Broadcast, vars, threads
<1>2. bootAt[f[1]] \in Nat
  BY <1>1
<1>3. /\ b.id[1] = f /\ SentAt(b) = clock /\ Sender(b) = f[1]
      /\ b.uptime = clock - bootAt[f[1]]
  BY <1>1, SentPacket
<1>4. air' = air \cup {b}
  BY DEF Broadcast
<1> HIDE DEF b
<1>5. \A p \in air' : SentAt(p) <= clock' /\ clock' <= SentAt(p) + MaxDelay
  BY <1>1, <1>3, <1>4 DEF AirTimes
<1>6. ASSUME NEW p \in air', bootAt'[Sender(p)] # Off, p.id[1] \in Flow
      PROVE  /\ p.uptime = SentAt(p) - bootAt'[Sender(p)]
             /\ Apart(p.id[1]) => dueAt'[p.id[1]] = SentAt(p) + Interval[p.id[1]]
  <2>1. CASE p = b
    BY <1>1, <1>3, <2>1
  <2>2. CASE p \in air
    <3>1. /\ p.uptime = SentAt(p) - bootAt[Sender(p)]
          /\ Apart(p.id[1]) => dueAt[p.id[1]] = SentAt(p) + Interval[p.id[1]]
      BY <1>1, <1>6, <2>2 DEF AirTimes
    <3>2. Apart(p.id[1]) => p.id[1] # f
      BY <1>1, <2>2, AirClear
    <3> QED BY <1>1, <1>6, <3>1, <3>2
  <2> QED BY <1>4, <2>1, <2>2
<1>7. ASSUME NEW p \in air', NEW q \in air',
             p.id[1] = q.id[1], p.id[1] \in Flow, Apart(p.id[1])
      PROVE  p = q
  <2>1. CASE p \in air /\ q \in air
    BY <1>7, <2>1 DEF AirTimes
  <2>2. CASE p = b \/ q = b
    BY <1>1, <1>3, <1>4, <1>7, <2>2, AirClear
  <2> QED BY <1>4, <2>1, <2>2
<1> QED BY <1>5, <1>6, <1>7 DEF AirTimes, Apart

LEMMA AirBoot ==
    ASSUME IInv, MeshTyped, AirTimes, NEW n \in Node, Boot(n)
    PROVE  AirTimes'
<1>1. air' = air /\ clock' = clock /\ \A p \in air : Sender(p) # n
  BY DEF Boot, vars, threads
<1>2. ASSUME NEW p \in air
      PROVE  /\ bootAt'[Sender(p)] = bootAt[Sender(p)]
             /\ p.id[1] \in Flow => dueAt'[p.id[1]] = dueAt[p.id[1]]
  <2>1. Sender(p) \in Node /\ Sender(p) # n /\ (p.id[1] \in Flow => p.id[1] \notin FlowsOf(n))
    BY <1>1, PacketIs DEF FlowsOf, Sender
  <2> QED BY <2>1 DEF Boot, MeshTyped
<1> QED BY <1>1, <1>2 DEF AirTimes, Apart

LEMMA AirStep ==
    ASSUME IInv, MeshTyped, AirTimes, [MeshNext]_allVars
    PROVE  AirTimes'
<1>1. CASE MeshTick
  <2>1. clock' = clock + 1 /\ air' \subseteq air /\ UNCHANGED <<bootAt, dueAt>>
        /\ \A p \in air' : ~Gone(p)
    BY <1>1 DEF MeshTick, Tick
  <2>2. ASSUME NEW p \in air'
        PROVE  SentAt(p) <= clock' /\ clock' <= SentAt(p) + MaxDelay
    <3>1. p \in air /\ SentAt(p) \in Nat /\ clock \in Nat /\ MaxDelay \in Nat
      BY <2>1, ThreadTypes, PacketIs, MeshAssumption
    <3>2. SentAt(p) <= clock /\ SentAt(p) + MaxDelay > clock
      BY <2>1, <3>1 DEF Gone, AirTimes
    <3> QED BY <2>1, <3>1, <3>2
  <2> QED BY <2>1, <2>2 DEF AirTimes, Apart
<1>2. ASSUME NEW f \in Flow, Broadcast(f) PROVE AirTimes'
  BY <1>2, AirBroadcast
<1>3. ASSUME NEW n \in Node, RelayMessage(n) PROVE AirTimes'
  <2> DEFINE b == NewPacket(n, "message", 0)
  <2>1. air' = air \cup {b} /\ UNCHANGED <<clock, bootAt, dueAt>>
    BY <1>3 DEF RelayMessage, vars, threads
  <2>2. b.id[1] \notin Flow /\ SentAt(b) = clock
    BY SentPacket, FlowIs
  <2>3. clock \in Nat /\ MaxDelay \in Nat
    BY ThreadTypes, MeshAssumption
  <2> HIDE DEF b
  <2> QED BY <2>1, <2>2, <2>3 DEF AirTimes, Apart
<1>4. ASSUME NEW n \in Node, Crash(n) PROVE AirTimes'
  <2>1. UNCHANGED <<clock, air, dueAt>> /\ bootAt' = [bootAt EXCEPT ![n] = Off]
    BY <1>4 DEF Crash, vars, threads
  <2>2. \A m \in Node : bootAt'[m] # Off => bootAt'[m] = bootAt[m]
    BY <2>1 DEF MeshTyped
  <2> QED BY <2>1, <2>2, PacketIs DEF AirTimes, Apart
<1>5. ASSUME NEW n \in Node, Boot(n) PROVE AirTimes'
  BY <1>5, AirBoot
<1>6. CASE UNCHANGED <<clock, air, bootAt, dueAt>>
  BY <1>6 DEF AirTimes, Apart
<1>7. CASE (\E p \in air : OnReceive(p)) \/ HandlePacket \/ ListenWakes \/ ListenSweeps
           \/ GatewayRestart \/ UNCHANGED allVars
  BY <1>6, <1>7 DEF OnReceive, Receive, HandlePacket, ListenWakes, ListenSweeps,
                    GatewayRestart, Restart, RefundStep, ScoreStep, Handled, SweepDue,
                    RunSweep, mesh, allVars, vars, threads
<1> QED BY <1>1, <1>2, <1>3, <1>4, <1>5, <1>7 DEF MeshNext

LEMMA RiseHeard ==
    ASSUME IInv, MeshTyped, AirTimes, ReportsRise, NEW p \in air, OnReceive(p)
    PROVE  ReportsRise'
<1> DEFINE n == Sender(p)
<1>1. UNCHANGED <<clock, air, bootAt>>
  BY DEF OnReceive, Receive, mesh
<1>2. n \in Node /\ (KindOf(p) = "device" => p.id[1] = DeviceFlow(n) /\ DeviceFlow(n) \in Flow)
  BY PacketIs DEF DeviceFlow
<1>3. SUFFICES ASSUME NEW m \in Node \ unreported',
                      DeviceFlow(m) \in Flow, Apart(DeviceFlow(m))
               PROVE  /\ \A q \in air : q.id[1] = DeviceFlow(m) => uptime'[m] <= q.uptime
                      /\ bootAt[m] # Off => uptime'[m] <= clock - bootAt[m]
  BY <1>1 DEF ReportsRise, Apart
<1>4. CASE KindOf(p) = "device" /\ m = n
  <2>1. uptime'[m] = p.uptime /\ p.uptime \in Nat
    BY <1>2, <1>4 DEF OnReceive, MeshTyped
  <2>2. \A q \in air : q.id[1] = DeviceFlow(m) => q = p
    BY <1>2, <1>3, <1>4 DEF AirTimes
  <2>3. ASSUME bootAt[m] # Off PROVE p.uptime <= clock - bootAt[m]
    <3>1. p.uptime = SentAt(p) - bootAt[m] /\ SentAt(p) <= clock
      BY <1>2, <1>4, <2>3 DEF AirTimes
    <3>2. SentAt(p) \in Nat /\ clock \in Nat /\ bootAt[m] \in Nat
      BY <2>3, ThreadTypes, PacketIs DEF MeshTyped
    <3> QED BY <3>1, <3>2
  <2> QED BY <2>1, <2>2, <2>3
<1>5. CASE ~(KindOf(p) = "device" /\ m = n)
  <2>1. uptime'[m] = uptime[m] /\ m \notin unreported
    BY <1>2, <1>3, <1>5 DEF OnReceive, MeshTyped
  <2> QED BY <1>3, <2>1 DEF ReportsRise
<1> QED BY <1>4, <1>5

LEMMA RiseBroadcast ==
    ASSUME IInv, MeshTyped, ReportsRise, NEW f \in Flow, Broadcast(f)
    PROVE  ReportsRise'
<1> DEFINE b == NewPacket(f[1], f[2], clock - bootAt[f[1]])
<1>1. air' = air \cup {b} /\ UNCHANGED <<clock, bootAt, uptime, unreported>>
      /\ bootAt[f[1]] # Off
  BY DEF Broadcast, vars, threads, receiver, past
<1>2. b.id[1] = f /\ b.uptime = clock - bootAt[f[1]]
  BY SentPacket, FlowIs
<1> HIDE DEF b
<1>3. ASSUME NEW n \in Node \ unreported, DeviceFlow(n) \in Flow, Apart(DeviceFlow(n)),
             NEW p \in air', p.id[1] = DeviceFlow(n)
      PROVE  uptime[n] <= p.uptime
  <2>1. CASE p = b
    <3>1. f[1] = n
      BY <1>2, <1>3, <2>1 DEF DeviceFlow
    <3> QED BY <1>1, <1>2, <1>3, <2>1, <3>1 DEF ReportsRise
  <2>2. CASE p \in air
    BY <1>3, <2>2 DEF ReportsRise
  <2> QED BY <1>1, <2>1, <2>2
<1> QED BY <1>1, <1>3 DEF ReportsRise, Apart

LEMMA RiseStep ==
    ASSUME IInv, MeshTyped, AirTimes, ReportsRise, [MeshNext]_allVars
    PROVE  ReportsRise'
<1>1. /\ clock \in Nat /\ bootAt \in [Node -> Nat \cup {Off}]
      /\ uptime \in [Node -> Nat \cup {Off}] /\ Off = -1
      /\ \A n \in Node : bootAt[n] <= clock
      /\ \A p \in air : p.uptime \in Nat
  BY ThreadTypes DEF MeshTyped, Off
<1>2. CASE MeshTick
  <2>1. clock' = clock + 1 /\ air' \subseteq air /\ UNCHANGED <<bootAt, uptime, unreported>>
    BY <1>2 DEF MeshTick, Tick, receiver
  <2>2. ASSUME NEW n \in Node, bootAt[n] # Off, uptime[n] <= clock - bootAt[n]
        PROVE  uptime[n] <= clock' - bootAt[n]
    <3>1. bootAt[n] \in Nat /\ uptime[n] \in Int
      BY <1>1, <2>2
    <3> QED BY <1>1, <2>1, <2>2, <3>1
  <2> QED BY <2>1, <2>2 DEF ReportsRise, Apart
<1>3. ASSUME NEW f \in Flow, Broadcast(f) PROVE ReportsRise'
  BY <1>3, RiseBroadcast
<1>4. ASSUME NEW n \in Node, RelayMessage(n) PROVE ReportsRise'
  <2> DEFINE b == NewPacket(n, "message", 0)
  <2>1. air' = air \cup {b} /\ UNCHANGED <<clock, bootAt, uptime, unreported>>
    BY <1>4 DEF RelayMessage, vars, threads, receiver, past
  <2>2. b.id[1] \notin Flow
    BY SentPacket, FlowIs
  <2> HIDE DEF b
  <2> QED BY <2>1, <2>2 DEF ReportsRise, Apart
<1>5. ASSUME NEW n \in Node, Crash(n) PROVE ReportsRise'
  <2>1. UNCHANGED <<clock, air, uptime, unreported>> /\ bootAt' = [bootAt EXCEPT ![n] = Off]
    BY <1>5 DEF Crash, vars, threads, receiver, past
  <2>2. \A m \in Node : bootAt'[m] # Off => bootAt'[m] = bootAt[m]
    BY <1>1, <2>1
  <2> QED BY <2>1, <2>2 DEF ReportsRise, Apart
<1>6. ASSUME NEW n \in Node, Boot(n) PROVE ReportsRise'
  <2>1. UNCHANGED <<clock, air, uptime>> /\ unreported' = unreported \cup {n}
        /\ bootAt' = [bootAt EXCEPT ![n] = clock]
    BY <1>6 DEF Boot, vars, threads, receiver
  <2>2. \A m \in Node \ unreported' : bootAt'[m] = bootAt[m] /\ m \notin unreported
    BY <1>1, <2>1
  <2> QED BY <2>1, <2>2 DEF ReportsRise, Apart
<1>7. ASSUME NEW p \in air, OnReceive(p) PROVE ReportsRise'
  BY <1>7, RiseHeard
<1>8. CASE GatewayRestart
  <2>1. UNCHANGED <<clock, air, bootAt, unreported>> /\ uptime' = [n \in Node |-> Off]
    BY <1>8 DEF GatewayRestart, Restart, mesh, past
  <2>2. \A n \in Node : bootAt[n] # Off => bootAt[n] \in Nat /\ Off <= clock - bootAt[n]
    BY <1>1
  <2> QED BY <1>1, <2>1, <2>2 DEF ReportsRise, Apart
<1>9. CASE UNCHANGED <<clock, air, bootAt, uptime, unreported>>
  BY <1>9 DEF ReportsRise, Apart
<1>10. CASE HandlePacket \/ ListenWakes \/ ListenSweeps \/ UNCHANGED allVars
  BY <1>9, <1>10 DEF HandlePacket, ListenWakes, ListenSweeps, RefundStep, ScoreStep,
                     Handled, SweepDue, RunSweep, receiver, mesh, past, allVars, vars,
                     threads
<1> QED
  BY <1>2, <1>3, <1>4, <1>5, <1>6, <1>7, <1>8, <1>10 DEF MeshNext

LEMMA AirInvariance == MeshSpec => [](AirTimes /\ ReportsRise)
<1>1. MeshInit => AirTimes /\ ReportsRise
  BY MeshAssumption DEF MeshInit, Init, AirTimes, ReportsRise, Off
<1>2. IInv /\ MeshTyped /\ AirTimes /\ ReportsRise /\ [MeshNext]_allVars
         => (AirTimes /\ ReportsRise)'
  BY AirStep, RiseStep
<1>3. MeshSpec => [](IInv /\ MeshTyped)
  BY MeshTypes, PTL
<1> QED BY <1>1, <1>2, <1>3, PTL DEF MeshSpec

\* No refund without a boot since the last report, provided that a report is
\* heard before the node sends its next one: for every number of nodes,
\* crashes, and repetitions.
THEOREM RefundsMeanReboots ==
    ASSUME \A n \in Node : DeviceFlow(n) \in Flow => Apart(DeviceFlow(n))
    PROVE  MeshSpec => RefundsNeedAReboot
<1> DEFINE Granted(n) == refunds' \cap FlowsOf(n) # {} /\ refunds = {} => n \in unreported
<1>1. ASSUME IInv, MeshTyped, ReportsRise, [MeshNext]_allVars, NEW n \in Node,
             refunds' \cap FlowsOf(n) # {}, refunds = {}
      PROVE  n \in unreported
  <2>1. CASE \E p \in air : OnReceive(p)
    <3>1. PICK p \in air : OnReceive(p)
      BY <2>1
    <3>2. Rebooted(p) /\ Sender(p) = n
      BY <1>1, <3>1 DEF OnReceive, FlowsOf
    <3>3. p.id[1] = DeviceFlow(n) /\ DeviceFlow(n) \in Flow
      BY <1>1, <3>2, PacketIs DEF Rebooted, DeviceFlow
    <3>4. p.uptime < uptime[n] /\ p.uptime \in Nat /\ uptime[n] \in Int
      BY <1>1, <3>2 DEF Rebooted, MeshTyped, Off
    <3> QED BY <1>1, <3>3, <3>4 DEF ReportsRise
  <2>2. CASE refunds' \subseteq refunds
    BY <1>1, <2>2
  <2>3. CASE MeshTick \/ (\E h \in Flow : Broadcast(h))
             \/ (\E m \in Node : RelayMessage(m) \/ Crash(m) \/ Boot(m))
             \/ HandlePacket \/ ListenWakes \/ ListenSweeps \/ GatewayRestart
             \/ UNCHANGED allVars
    BY <2>2, <2>3 DEF MeshTick, Tick, Broadcast, RelayMessage, Crash, Boot, HandlePacket,
                      ListenWakes, ListenSweeps, GatewayRestart, Restart, SweepDue,
                      RunSweep, RefundStep, ScoreStep, Handled, allVars, vars, threads
  <2> QED BY <1>1, <2>1, <2>3 DEF MeshNext
<1>2. IInv /\ MeshTyped /\ ReportsRise /\ [MeshNext]_allVars
         => [\A n \in Node : Granted(n)]_allVars
  BY <1>1
<1>3. MeshSpec => [](IInv /\ MeshTyped /\ ReportsRise)
  BY MeshTypes, AirInvariance, PTL
<1> QED BY <1>2, <1>3, PTL DEF MeshSpec, RefundsNeedAReboot
-----------------------------------------------------------------------------
\* Downtime is not radio loss -------------------------------------------------
\* What is accepted was sent before now, and before the next broadcast of its
\* flow.
AcceptedBefore ==
    \A i \in DOMAIN accepted :
        /\ accepted[i][2] <= clock
        /\ accepted[i][1] \in Flow /\ bootAt[accepted[i][1][1]] # Off /\ Apart(accepted[i][1])
              => accepted[i][2] < dueAt[accepted[i][1]]

\* The packet being handled is the last one accepted.
Handling ==
    /\ held # Idle => accepted # <<>>
    /\ \A f \in scores : accepted[Len(accepted)][1] = f
HandledAt == accepted[Len(accepted)][2]

\* A flow about to be scored, one with no anchor to judge a gap by, one whose
\* anchor is the packet it sent at t, and one that is where that packet puts it.
Pending(f)     == held # Idle /\ f \in scores
Clear(f)       == f \notin DOMAIN flows \/ flows[f].restart \/ f \in refunds
Anchored(f, t) == t <= flows[f].last /\ flows[f].last <= t + MaxDelay
Heard(f, t)    == IF Pending(f) THEN t = HandledAt ELSE Clear(f) \/ Anchored(f, t)

PendingFits(f) ==
    /\ HandledAt <= held /\ held <= HandledAt + MaxDelay
    /\ Clear(f) \/ Anchored(f, HandledAt) \/ Anchored(f, HandledAt - Interval[f])

\* The anchor of f is the packet before the one still to be heard of it.
IsAccepted(p) == Contains(accepted, p.id)
UpToDate(f) ==
    /\ \A p \in air : p.id[1] = f /\ IsAccepted(p) => Heard(f, SentAt(p))
    /\ \A p \in air : p.id[1] = f /\ ~IsAccepted(p) => Heard(f, SentAt(p) - Interval[f])
    /\ bootAt[f[1]] # Off /\ (\A p \in air : p.id[1] = f => IsAccepted(p))
          => Heard(f, dueAt[f] - Interval[f])

OnGrid(f) ==
    /\ settled[f] = 0
    /\ Pending(f) => PendingFits(f)
    /\ f[1] \notin unreported => UpToDate(f)
GridInv == \A f \in Flow : f[1] \notin lost \cup unnoticed => OnGrid(f)

\* Packets are heard well before the next is sent: no gap between two packets
\* of a flow rounds to none or to two intervals.
Punctual == \A f \in Flow : 2 * MaxDelay < Interval[f]

LEMMA PunctualApart ==
    ASSUME Punctual, NEW f \in Flow
    PROVE  Apart(f) /\ 2 * MaxDelay < Interval[f] /\ MaxDelay \in Nat /\ Interval[f] \in Nat
BY MeshAssumption, FlowIs DEF Punctual, Apart

\* A gap within the delay is an extra; one about the interval, a single slot.
LEMMA PunctualSlots ==
    ASSUME Punctual, NEW f \in Flow, NEW t \in Int, NEW last \in Int, NEW now \in Int,
           t <= now, now <= t + MaxDelay
    PROVE  /\ t <= last /\ last <= t + MaxDelay => Slots(f, last, now) = 0
           /\ t - Interval[f] <= last /\ last <= t - Interval[f] + MaxDelay
                 => Slots(f, last, now) = 1
<1> DEFINE i == Interval[f]
           d == MaxDelay
           r == Slots(f, last, now)
<1>1. d \in Nat /\ i \in Nat \ {0} /\ 2 * d < i
  BY PunctualApart, FlowIs
<1>2. r \in Int /\ 2 * (now - last) <= i * (2 * r + 1) /\ i * (2 * r - 1) <= 2 * (now - last)
  <2> HIDE DEF i
  <2>1. now - last \in Int /\ i \in Nat \ {0}
    BY <1>1
  <2>2. r = RoundHalfEven(now - last, i)
    BY DEF Slots, i
  <2> HIDE DEF r
  <2> QED BY <2>1, <2>2, RoundBounds
<1> HIDE DEF r, i, d
<1>3. ASSUME t <= last, last <= t + d PROVE r = 0
  <2>1. -i < 2 * (now - last) /\ 2 * (now - last) < i
    BY <1>1, <1>3 DEF d
  <2>2. i * (2 * r - 1) < i /\ -i < i * (2 * r + 1)
    BY <1>1, <1>2, <2>1
  <2>3. r < 1 /\ -1 < r
    BY <1>1, <1>2, <2>2, Z3
  <2> QED BY <1>2, <2>3
<1>4. ASSUME t - i <= last, last <= t - i + d PROVE r = 1
  <2>1. i < 2 * (now - last) /\ 2 * (now - last) < 3 * i
    BY <1>1, <1>4 DEF d
  <2>2. i * (2 * r - 1) < 3 * i /\ i < i * (2 * r + 1)
    BY <1>1, <1>2, <2>1
  <2>3. r < 2 /\ 0 < r
    BY <1>1, <1>2, <2>2, Z3
  <2> QED BY <1>2, <2>3
<1> QED BY <1>3, <1>4 DEF r, i, d

LEMMA BeforeStep ==
    ASSUME IInv, MeshTyped, SeenInv, AirTimes, AcceptedBefore, [MeshNext]_allVars
    PROVE  AcceptedBefore'
<1>1. /\ clock \in Nat /\ Off \notin Nat
      /\ dueAt \in [Flow -> Nat] /\ bootAt \in [Node -> Nat \cup {Off}]
      /\ \A f \in Flow : f[1] \in Node /\ Interval[f] \in Nat \ {0}
      /\ \A i \in DOMAIN accepted : accepted[i][2] \in Nat
  BY FlowIs, ThreadTypes DEF MeshTyped, SeenInv, MeshId, Off
<1>2. CASE MeshTick
  <2>1. clock' = clock + 1 /\ UNCHANGED <<bootAt, dueAt, accepted>>
    BY <1>2 DEF MeshTick, Tick
  <2> QED BY <1>1, <2>1 DEF AcceptedBefore, Apart
<1>3. ASSUME NEW f \in Flow, Broadcast(f) PROVE AcceptedBefore'
  <2>1. UNCHANGED <<clock, bootAt, accepted>> /\ dueAt' = [dueAt EXCEPT ![f] = @ + Interval[f]]
    BY <1>3 DEF Broadcast, vars, threads, past
  <2>2. \A g \in Flow : dueAt[g] <= dueAt'[g] /\ dueAt'[g] \in Nat
    BY <1>1, <2>1
  <2> QED BY <1>1, <2>1, <2>2 DEF AcceptedBefore, Apart
<1>4. ASSUME NEW n \in Node, Crash(n) PROVE AcceptedBefore'
  <2>1. UNCHANGED <<clock, dueAt, accepted>> /\ bootAt' = [bootAt EXCEPT ![n] = Off]
    BY <1>4 DEF Crash, vars, threads, past
  <2>2. \A f \in Flow : bootAt'[f[1]] # Off => bootAt[f[1]] # Off
    BY <1>1, <2>1
  <2> QED BY <2>1, <2>2 DEF AcceptedBefore, Apart
<1>5. ASSUME NEW n \in Node, Boot(n) PROVE AcceptedBefore'
  <2>1. UNCHANGED <<clock, accepted>> /\ bootAt' = [bootAt EXCEPT ![n] = clock]
    BY <1>5 DEF Boot, vars, threads
  <2>2. ASSUME NEW f \in Flow
        PROVE  clock < dueAt'[f] \/ (f[1] # n /\ dueAt'[f] = dueAt[f])
    <3>1. PICK first \in [FlowsOf(n) -> 1 .. MaxFirst] :
              dueAt' = [g \in Flow |-> IF g \in FlowsOf(n) THEN clock + first[g]
                                       ELSE dueAt[g]]
      BY <1>5 DEF Boot
    <3>2. MaxFirst \in Nat
      BY MeshAssumption
    <3>3. CASE f \in FlowsOf(n)
      <4>1. first[f] \in 1 .. MaxFirst /\ dueAt'[f] = clock + first[f]
        BY <3>1, <3>3
      <4> QED BY <1>1, <3>2, <4>1
    <3>4. CASE f \notin FlowsOf(n)
      BY <3>1, <3>4 DEF FlowsOf
    <3> QED BY <3>3, <3>4
  <2>3. \A f \in Flow : f[1] # n => bootAt'[f[1]] = bootAt[f[1]]
    BY <1>1, <2>1
  <2>4. dueAt' \in [Flow -> Nat]
    BY <1>5, BootTyped DEF MeshTyped
  <2> QED BY <1>1, <2>1, <2>2, <2>3, <2>4 DEF AcceptedBefore, Apart
<1>6. ASSUME NEW p \in air, OnReceive(p) PROVE AcceptedBefore'
  <2>1. UNCHANGED <<clock, bootAt, dueAt>> /\ accepted' = Append(accepted, p.id)
    BY <1>6 DEF OnReceive, Receive, mesh
  <2>2. /\ SentAt(p) <= clock /\ SentAt(p) \in Nat
        /\ p.id[1] \in Flow /\ bootAt[p.id[1][1]] # Off /\ Apart(p.id[1])
              => dueAt[p.id[1]] = SentAt(p) + Interval[p.id[1]]
    BY PacketIs DEF AirTimes, Sender
  <2>3. \A i \in DOMAIN accepted' : \/ i \in DOMAIN accepted /\ accepted'[i] = accepted[i]
                                 \/ accepted'[i] = p.id
    BY <2>1 DEF SeenInv
  <2> HIDE DEF SentAt
  <2>4. /\ p.id[2] <= clock
        /\ p.id[1] \in Flow /\ bootAt[p.id[1][1]] # Off /\ Apart(p.id[1])
              => p.id[2] < dueAt[p.id[1]]
    BY <1>1, <2>2 DEF SentAt
  <2> QED BY <2>1, <2>3, <2>4 DEF AcceptedBefore, Apart
<1>7. CASE GatewayRestart
  BY <1>7 DEF GatewayRestart, AcceptedBefore
<1>8. CASE UNCHANGED <<clock, bootAt, dueAt, accepted>>
  BY <1>8 DEF AcceptedBefore, Apart
<1>9. CASE (\E n \in Node : RelayMessage(n)) \/ HandlePacket \/ ListenWakes \/ ListenSweeps
           \/ UNCHANGED allVars
  BY <1>8, <1>9 DEF RelayMessage, HandlePacket, ListenWakes, ListenSweeps, RefundStep,
                    ScoreStep, Handled, SweepDue, RunSweep, mesh, past, allVars, vars,
                    threads
<1> QED BY <1>2, <1>3, <1>4, <1>5, <1>6, <1>7, <1>9 DEF MeshNext

LEMMA HandlingStep ==
    ASSUME IInv, MeshTyped, SeenInv, Quiet, Handling, [MeshNext]_allVars
    PROVE  Handling'
<1>1. ASSUME NEW p \in air, OnReceive(p) PROVE Handling'
  <2>1. accepted' = Append(accepted, p.id) /\ scores' \subseteq {p.id[1]}
    BY <1>1 DEF OnReceive
  <2>2. accepted' # <<>> /\ accepted'[Len(accepted')] = p.id
    BY <2>1 DEF SeenInv
  <2> QED BY <2>1, <2>2 DEF Handling
<1>2. CASE GatewayRestart
  BY <1>2 DEF GatewayRestart, Restart, Handling
<1>3. CASE accepted' = accepted /\ held' \in {held, Idle} /\ scores' \subseteq scores
  BY <1>3 DEF Handling
<1>4. CASE MeshTick \/ (\E h \in Flow : Broadcast(h))
           \/ (\E m \in Node : RelayMessage(m) \/ Crash(m) \/ Boot(m))
           \/ HandlePacket \/ ListenWakes \/ ListenSweeps \/ UNCHANGED allVars
  BY <1>3, <1>4 DEF MeshTick, Tick, Broadcast, RelayMessage, Crash, Boot, HandlePacket,
                    ListenWakes, ListenSweeps, SweepDue, RunSweep, RefundStep, ScoreStep,
                    Handled, past, allVars, vars, threads
<1> QED BY <1>1, <1>2, <1>4 DEF MeshNext

\* A step that does not score f and moves no anchor of it, and takes from the
\* air only packets of f that were heard.
LEMMA OnGridStays ==
    ASSUME NEW f \in Flow, OnGrid(f),
           settled'[f] = settled[f], held' = held, accepted' = accepted,
           f \in scores' => f \in scores, f \in scores => f \in scores',
           Clear(f) => Clear(f)',
           Clear(f)' \/ flows'[f].last = flows[f].last,
           \A p \in air' : p.id[1] = f => p \in air,
           f[1] \notin unreported' => f[1] \notin unreported,
           bootAt'[f[1]] # Off => bootAt[f[1]] # Off /\ dueAt'[f] = dueAt[f],
           \A p \in air : p.id[1] = f /\ ~IsAccepted(p) => p \in air'
    PROVE  OnGrid(f)'
<1>1. ASSUME NEW t, Heard(f, t) PROVE Heard(f, t)'
  BY <1>1 DEF Heard, Pending, Anchored, HandledAt, Clear
<1>2. Pending(f)' => PendingFits(f)'
  BY DEF OnGrid, Pending, PendingFits, Anchored, HandledAt, Clear
<1>3. ASSUME UpToDate(f) PROVE UpToDate(f)'
  <2>1. \A p : IsAccepted(p)' <=> IsAccepted(p)
    BY DEF IsAccepted
  <2>2. ASSUME NEW p \in air', p.id[1] = f, IsAccepted(p)' PROVE Heard(f, SentAt(p))'
    BY <1>1, <1>3, <2>1, <2>2 DEF UpToDate
  <2>3. ASSUME NEW p \in air', p.id[1] = f, ~IsAccepted(p)'
        PROVE  Heard(f, SentAt(p) - Interval[f])'
    BY <1>1, <1>3, <2>1, <2>3 DEF UpToDate
  <2>4. ASSUME bootAt'[f[1]] # Off, \A p \in air' : p.id[1] = f => IsAccepted(p)'
        PROVE  Heard(f, dueAt[f] - Interval[f])' /\ dueAt'[f] = dueAt[f]
    BY <1>1, <1>3, <2>1, <2>4 DEF UpToDate
  <2> QED BY <2>2, <2>3, <2>4 DEF UpToDate
<1> QED BY <1>2, <1>3 DEF OnGrid

LEMMA GridTick ==
    ASSUME NEW f \in Flow, OnGrid(f), MeshTick, f[1] \notin lost'
    PROVE  OnGrid(f)'
<1>1. /\ UNCHANGED <<settled, held, accepted, scores, flows, refunds, bootAt, dueAt, unreported>>
      /\ air' = {p \in air : ~Gone(p)}
      /\ lost' = lost \cup {Sender(p) : p \in
                    {q \in air : Gone(q) /\ ~Contains(accepted, q.id)}}
  BY DEF MeshTick, Tick, history
<1>2. ASSUME NEW p \in air, p.id[1] = f, ~IsAccepted(p) PROVE p \in air'
  <2>1. Sender(p) = f[1]
    BY <1>2 DEF Sender
  <2> QED BY <1>1, <1>2, <2>1 DEF IsAccepted
<1>3. Clear(f)' <=> Clear(f)
  BY <1>1 DEF Clear
<1> QED BY <1>1, <1>2, <1>3, OnGridStays

\* A new packet is not one that was accepted, and finds the air clear.
LEMMA GridBroadcast ==
    ASSUME NEW f \in Flow, OnGrid(f), NEW g \in Flow, Broadcast(g), Apart(f),
           IInv, MeshTyped, SeenInv, AirTimes, AcceptedBefore
    PROVE  OnGrid(f)'
<1>0. PICK b : b = NewPacket(g[1], g[2], clock - bootAt[g[1]])
  OBVIOUS
<1>1. /\ UNCHANGED <<settled, held, accepted, scores, flows, refunds, bootAt, unreported, clock>>
      /\ air' = air \cup {b} /\ dueAt' = [dueAt EXCEPT ![g] = @ + Interval[g]]
      /\ bootAt[g[1]] # Off /\ dueAt[g] = clock
  BY <1>0 DEF Broadcast, vars, threads, history, past
<1>2. b.id = <<g, clock>> /\ b.id[1] = g /\ SentAt(b) = clock
  BY <1>0, SentPacket, FlowIs
<1>3. Clear(f)' <=> Clear(f)
  BY <1>1 DEF Clear
<1>4. CASE g # f
  <2>1. dueAt'[f] = dueAt[f]
    BY <1>1, <1>4 DEF MeshTyped
  <2>2. \A p \in air' : p.id[1] = f => p \in air
    BY <1>1, <1>2, <1>4
  <2> QED BY <1>1, <1>3, <2>1, <2>2, OnGridStays
<1>5. CASE g = f
  <2>1. \A p \in air : p.id[1] # f
    BY <1>1, <1>5, AirClear
  <2>2. ~IsAccepted(b)
    <3>1. SUFFICES ASSUME NEW i \in DOMAIN accepted, accepted[i] = b.id PROVE FALSE
      BY DEF IsAccepted, Contains, SeenInv
    <3>2. accepted[i][1] = f /\ accepted[i][2] = clock
      BY <1>2, <1>5, <3>1
    <3>3. clock < dueAt[f]
      BY <1>1, <1>5, <3>2 DEF AcceptedBefore
    <3> QED BY <1>1, <1>5, <3>3, ThreadTypes
  <2>3. UpToDate(f) => Heard(f, clock - Interval[f])
    BY <1>1, <1>5, <2>1 DEF UpToDate
  <2>4. \A t : Heard(f, t) => Heard(f, t)'
    BY <1>1, <1>3 DEF Heard, Pending, Anchored, HandledAt
  <2>5. IsAccepted(b)' <=> IsAccepted(b)
    BY <1>1 DEF IsAccepted
  <2>6. \A p \in air' : p.id[1] = f => p = b
    BY <1>1, <2>1
  <2>7. b \in air' /\ b.id[1] = f
    BY <1>1, <1>2, <1>5
  <2>8. UpToDate(f) => UpToDate(f)'
    BY <1>2, <2>2, <2>3, <2>4, <2>5, <2>6, <2>7 DEF UpToDate
  <2>9. (Pending(f)' => Pending(f)) /\ (PendingFits(f) => PendingFits(f)')
    BY <1>1, <1>3 DEF Pending, PendingFits, Anchored, HandledAt
  <2> QED BY <1>1, <2>8, <2>9 DEF OnGrid
<1> QED BY <1>4, <1>5

LEMMA GridBoot ==
    ASSUME NEW f \in Flow, OnGrid(f), NEW n \in Node, MeshTyped,
           RelayMessage(n) \/ Crash(n) \/ Boot(n)
    PROVE  OnGrid(f)'
<1>1. UNCHANGED <<settled, held, accepted, scores, flows, refunds>>
  BY DEF RelayMessage, Crash, Boot, vars, threads, history, past
<1>2. Clear(f)' <=> Clear(f)
  BY <1>1 DEF Clear
<1>3. f[1] \in Node
  BY FlowIs
<1>4. CASE RelayMessage(n)
  <2> DEFINE b == NewPacket(n, "message", 0)
  <2>1. air' = air \cup {b} /\ UNCHANGED <<bootAt, dueAt, unreported>>
    BY <1>4 DEF RelayMessage, past
  <2>2. b.id[1] \notin Flow
    BY SentPacket, FlowIs
  <2> HIDE DEF b
  <2> QED BY <1>1, <1>2, <2>1, <2>2, OnGridStays
<1>5. CASE Crash(n)
  <2>1. UNCHANGED <<air, dueAt, unreported>> /\ bootAt' = [bootAt EXCEPT ![n] = Off]
    BY <1>5 DEF Crash, past
  <2>2. bootAt'[f[1]] # Off => bootAt[f[1]] # Off
    BY <1>3, <2>1 DEF MeshTyped
  <2> QED BY <1>1, <1>2, <2>1, <2>2, OnGridStays
<1>6. CASE Boot(n)
  <2>1. air' = air /\ unreported' = unreported \cup {n}
        /\ bootAt' = [bootAt EXCEPT ![n] = clock]
    BY <1>6 DEF Boot
  <2>2. CASE f[1] = n
    <3>1. (Pending(f)' => Pending(f)) /\ (PendingFits(f) => PendingFits(f)')
      BY <1>1, <1>2 DEF Pending, PendingFits, Anchored, HandledAt
    <3> QED BY <1>1, <2>1, <2>2, <3>1 DEF OnGrid
  <2>3. CASE f[1] # n
    <3>1. dueAt'[f] = dueAt[f] /\ bootAt'[f[1]] = bootAt[f[1]]
      BY <1>3, <1>6, <2>1, <2>3 DEF Boot, FlowsOf, MeshTyped
    <3> QED BY <1>1, <1>2, <2>1, <3>1, OnGridStays
  <2> QED BY <2>2, <2>3
<1> QED BY <1>4, <1>5, <1>6

\* A packet of another flow: of another node, or of the same node while its
\* reports go on rising, or the one that shows its reboot.
LEMMA GridOtherHeard ==
    ASSUME NEW f \in Flow, OnGrid(f), NEW p \in air, OnReceive(p), p.id[1] # f,
           f[1] \notin unnoticed', IInv, MeshTyped, SeenInv, Quiet, Handling
    PROVE  OnGrid(f)'
<1> DEFINE n == Sender(p)
<1>1. /\ UNCHANGED <<settled, flows, bootAt, dueAt, air>>
      /\ held = Idle /\ accepted' = Append(accepted, p.id)
      /\ scores' \subseteq {p.id[1]}
      /\ refunds' = IF Rebooted(p) THEN FlowsOf(n) ELSE {}
  BY DEF OnReceive, Receive, history, mesh
<1>2. ~Pending(f) /\ ~Pending(f)' /\ refunds = {}
  BY <1>1 DEF Pending, Quiet
<1>3. CASE Rebooted(p) /\ f[1] = n
  <2>1. Clear(f)'
    BY <1>1, <1>3 DEF Clear, FlowsOf
  <2> QED BY <1>1, <1>2, <2>1 DEF OnGrid, UpToDate, Heard
<1>4. CASE ~(Rebooted(p) /\ f[1] = n)
  <2>1. f[1] \notin unreported' => f[1] \notin unreported
    BY <1>4 DEF OnReceive
  <2>2. Clear(f) => Clear(f)'
    BY <1>1, <1>2 DEF Clear
  <2>3. \A t : Heard(f, t) => Heard(f, t)'
    BY <1>1, <1>2, <2>2 DEF Heard, Anchored
  <2>4. ASSUME NEW q \in air, q.id[1] = f PROVE IsAccepted(q)' <=> IsAccepted(q)
    <3>1. q.id # p.id
      BY <2>4
    <3>2. \A i \in 1 .. Len(accepted) : accepted'[i] = accepted[i]
      BY <1>1 DEF SeenInv
    <3>3. Len(accepted') = Len(accepted) + 1 /\ accepted'[Len(accepted) + 1] = p.id
          /\ Len(accepted) \in Nat
      BY <1>1 DEF SeenInv
    <3> QED BY <3>1, <3>2, <3>3 DEF IsAccepted, Contains
  <2>5. UpToDate(f) => UpToDate(f)'
    BY <1>1, <2>3, <2>4 DEF UpToDate
  <2> QED BY <1>1, <1>2, <2>1, <2>5 DEF OnGrid
<1> QED BY <1>3, <1>4

\* A packet of f itself: its anchor is that of the packet before, or of the
\* packet itself when the window of ids has forgotten it.
LEMMA GridOwnHeard ==
    ASSUME NEW f \in Flow, OnGrid(f), NEW p \in air, OnReceive(p), p.id[1] = f,
           f[1] \notin unnoticed', Apart(f),
           IInv, MeshTyped, SeenInv, Quiet, AirTimes
    PROVE  OnGrid(f)'
<1>1. /\ UNCHANGED <<settled, flows, bootAt, dueAt, air, clock>>
      /\ held = Idle /\ held' = clock /\ accepted' = Append(accepted, p.id)
      /\ scores' = {f} /\ Sender(p) = f[1]
      /\ refunds' = IF Rebooted(p) THEN FlowsOf(f[1]) ELSE {}
  BY DEF OnReceive, Receive, history, mesh, Sender
<1>2. /\ clock \in Nat /\ Idle \notin Nat /\ SentAt(p) \in Nat /\ Interval[f] \in Nat
      /\ dueAt \in [Flow -> Nat]
  BY ThreadTypes, PacketIs, FlowIs DEF Idle, MeshTyped
<1>3. ~Pending(f) /\ refunds = {} /\ (Clear(f) => Clear(f)')
  BY <1>1 DEF Pending, Quiet, Clear
<1>4. Pending(f)' /\ HandledAt' = SentAt(p)
  BY <1>1, <1>2 DEF Pending, HandledAt, SentAt, SeenInv
<1>5. Clear(f)' \/ Anchored(f, SentAt(p))' \/ Anchored(f, SentAt(p) - Interval[f])'
  <2>1. CASE f[1] \in unreported
    <3>1. Rebooted(p)
      BY <1>1, <2>1 DEF OnReceive
    <3> QED BY <1>1, <3>1 DEF Clear, FlowsOf
  <2>2. CASE f[1] \notin unreported
    <3>1. Heard(f, SentAt(p)) \/ Heard(f, SentAt(p) - Interval[f])
      BY <2>2 DEF OnGrid, UpToDate
    <3> QED BY <1>1, <1>3, <3>1 DEF Heard, Anchored, SentAt
  <2> QED BY <2>1, <2>2
<1>6. PendingFits(f)'
  <2>1. SentAt(p) <= clock /\ clock <= SentAt(p) + MaxDelay
    BY DEF AirTimes
  <2> QED BY <1>1, <1>4, <1>5, <2>1 DEF PendingFits, SentAt
<1>7. \A q \in air : q.id[1] = f => q = p
  BY DEF AirTimes
<1>8. IsAccepted(p)'
  BY <1>1 DEF IsAccepted, Contains, SeenInv
<1>9. bootAt[f[1]] # Off => dueAt[f] - Interval[f] = SentAt(p)
  BY <1>1, <1>2 DEF AirTimes
<1>10. UpToDate(f)'
  <2>1. Heard(f, SentAt(p))'
    BY <1>4 DEF Heard, SentAt
  <2>2. ASSUME bootAt'[f[1]] # Off PROVE Heard(f, dueAt[f] - Interval[f])'
    BY <1>1, <1>4, <1>9, <2>2 DEF Heard
  <2> QED BY <1>1, <1>7, <1>8, <2>1, <2>2 DEF UpToDate, SentAt
<1> QED BY <1>1, <1>6, <1>10 DEF OnGrid

\* Scoring f settles no loss, and anchors it at the packet being handled.
LEMMA ScoreAnchors ==
    ASSUME Punctual, NEW f \in Flow, OnGrid(f), ScoreStep(f), accepted' = accepted,
           IInv, MeshTyped, SeenInv, Handling
    PROVE  settled'[f] = 0 /\ f \in DOMAIN flows' /\ Anchored(f, HandledAt)'
<1> DEFINE t == HandledAt
<1>1. /\ held # Idle /\ refunds = {} /\ f \in scores /\ held' = held
      /\ settled' = IF Ends(f)
                    THEN [settled EXCEPT ![f] = @ + Due(f, flows[f].last, held)]
                    ELSE settled
      /\ Observe(f, held)
  BY DEF ScoreStep
<1>2. /\ settled \in [Flow -> Nat] /\ settled[f] = 0
      /\ PendingFits(f) /\ held \in Int /\ MaxDelay \in Nat
  BY <1>1, ThreadTypes, MeshAssumption DEF OnGrid, Pending
<1>3. t \in Int /\ t <= held /\ held <= t + MaxDelay
  <2>1. Len(accepted) \in 1 .. Len(accepted)
    BY <1>1 DEF Handling, SeenInv
  <2>2. accepted[Len(accepted)] \in MeshId
    BY <2>1 DEF SeenInv
  <2> QED BY <1>2, <2>2 DEF PendingFits, HandledAt, MeshId
<1>4. OthersStay(f) /\ (flows'[f].last = held \/ f \in DOMAIN flows)
  BY ScoredFlow
<1>5. SUFFICES /\ settled'[f] = 0
               /\ t <= flows'[f].last /\ flows'[f].last <= t + MaxDelay
  BY <1>4 DEF OthersStay, Anchored, HandledAt
<1> HIDE DEF t
<1>6. CASE f \notin DOMAIN flows
  BY <1>1, <1>2, <1>3, <1>4, <1>6 DEF Ends
<1>7. CASE f \in DOMAIN flows /\ flows[f].restart
  <2>1. ObserveRestart(f, held)
    BY <1>1, <1>7 DEF Observe, ObserveFirst, ObserveEarly, ObserveScheduled
  <2>2. flows'[f].last = held
    BY <2>1, RestartedFlow, FlowFields
  <2> QED BY <1>1, <1>2, <1>3, <1>7, <2>2 DEF Ends
<1>8. CASE f \in DOMAIN flows /\ ~flows[f].restart
  <2> DEFINE last == flows[f].last
             i    == Interval[f]
  <2>1. last \in Int /\ i \in Nat
    BY <1>8, HeardFlow, FlowIs
  <2>2. \/ t <= last /\ last <= t + MaxDelay
        \/ t - i <= last /\ last <= t - i + MaxDelay
    BY <1>1, <1>2, <1>8 DEF PendingFits, Clear, Anchored, t
  <2> HIDE DEF last, i
  <2>3. CASE ObserveEarly(f, held)
    <3>1. Slots(f, last, held) = 0
      BY <2>3 DEF ObserveEarly, last
    <3>2. ~(t - i <= last /\ last <= t - i + MaxDelay)
      BY <1>2, <1>3, <2>1, <3>1, PunctualSlots DEF i
    <3>3. flows'[f].last = last
      BY <1>8, <2>3, EarlyFlow, FlowFields DEF last
    <3>4. ~Ends(f)
      BY <3>1 DEF Ends, last
    <3> QED BY <1>1, <1>2, <2>2, <3>2, <3>3, <3>4
  <2>4. CASE ObserveScheduled(f, held)
    <3>1. Slots(f, last, held) # 0
      BY <2>4 DEF ObserveScheduled, last
    <3>2. Slots(f, last, held) = 1
      BY <1>2, <1>3, <2>1, <2>2, <3>1, PunctualSlots DEF i
    <3>3. Due(f, last, held) = 0
      BY <3>2 DEF Due, AtLeast
    <3>4. settled'[f] = 0
      BY <1>1, <1>2, <3>3 DEF last
    <3>5. flows'[f].last = held
      BY <1>8, <2>4, ScheduledFlow, FlowFields
    <3> QED BY <1>3, <3>4, <3>5
  <2> QED BY <1>1, <1>8, <2>3, <2>4 DEF Observe, ObserveFirst, ObserveRestart
<1> QED BY <1>6, <1>7, <1>8

LEMMA GridScored ==
    ASSUME Punctual, NEW f \in Flow, OnGrid(f), NEW g \in Flow, ScoreStep(g),
           UNCHANGED <<receiver, mesh, past>>, IInv, MeshTyped, SeenInv, Handling
    PROVE  OnGrid(f)'
<1>1. /\ held # Idle /\ UNCHANGED <<held, refunds>> /\ scores' = scores \ {g}
      /\ UNCHANGED <<accepted, air, bootAt, dueAt, unreported>>
      /\ g \in scores
  BY DEF ScoreStep, mesh, past
<1>2. CASE g = f
  <2>1. settled'[f] = 0 /\ f \in DOMAIN flows' /\ Anchored(f, HandledAt)'
    BY <1>1, <1>2, ScoreAnchors
  <2>2. Pending(f) /\ ~Pending(f)' /\ HandledAt' = HandledAt
    BY <1>1, <1>2 DEF Pending, HandledAt
  <2>3. ASSUME NEW t, Heard(f, t) PROVE Heard(f, t)'
    BY <2>1, <2>2, <2>3 DEF Heard, Anchored
  <2>4. \A p : IsAccepted(p)' <=> IsAccepted(p)
    BY <1>1 DEF IsAccepted
  <2>5. UpToDate(f) => UpToDate(f)'
    BY <1>1, <2>3, <2>4 DEF UpToDate
  <2> QED BY <1>1, <2>1, <2>2, <2>5 DEF OnGrid
<1>3. CASE g # f
  <2>1. OthersStay(g)
    BY ScoredFlow
  <2>2. f \in DOMAIN flows' <=> f \in DOMAIN flows
    BY <1>3, <2>1 DEF OthersStay
  <2>3. f \in DOMAIN flows => flows'[f] = flows[f]
    BY <1>3, <2>1 DEF OthersStay
  <2>4. settled'[f] = settled[f]
    BY <1>3, ThreadTypes DEF ScoreStep
  <2>5. Clear(f) => Clear(f)'
    BY <1>1, <2>2, <2>3 DEF Clear
  <2>6. Clear(f)' \/ flows'[f].last = flows[f].last
    BY <2>2, <2>3 DEF Clear
  <2> QED BY <1>1, <1>3, <2>4, <2>5, <2>6, OnGridStays
<1> QED BY <1>2, <1>3

LEMMA GridRefunded ==
    ASSUME NEW f \in Flow, OnGrid(f), NEW g \in Flow, RefundStep(g),
           UNCHANGED <<receiver, mesh, past>>, IInv
    PROVE  OnGrid(f)'
<1>1. /\ UNCHANGED <<held, scores, settled>> /\ refunds' = refunds \ {g}
      /\ UNCHANGED <<accepted, air, bootAt, dueAt, unreported>>
  BY DEF RefundStep, history, mesh, past
<1>2. CASE g \in DOMAIN flows
  <2>1. OthersStay(g) /\ flows'[g].restart
    BY <1>2, RefundedFlow, FlowFields
  <2>2. (Clear(f) => Clear(f)') /\ (Clear(f)' \/ flows'[f].last = flows[f].last)
    BY <1>1, <2>1 DEF OthersStay, Clear
  <2> QED BY <1>1, <2>2, OnGridStays
<1>3. CASE g \notin DOMAIN flows
  <2>1. flows' = flows
    BY <1>3 DEF RefundStep, Reanchor
  <2>2. Clear(f) => Clear(f)'
    BY <1>1, <1>3, <2>1 DEF Clear
  <2> QED BY <1>1, <2>1, <2>2, OnGridStays
<1> QED BY <1>2, <1>3

LEMMA GridStep ==
    ASSUME Punctual, NEW f \in Flow, OnGrid(f), f[1] \notin lost' \cup unnoticed',
           IInv, MeshTyped, SeenInv, Quiet, AirTimes, AcceptedBefore, Handling,
           [MeshNext]_allVars
    PROVE  OnGrid(f)'
<1>1. Apart(f)
  BY PunctualApart
<1>2. CASE MeshTick
  BY <1>2, GridTick
<1>3. ASSUME NEW g \in Flow, Broadcast(g) PROVE OnGrid(f)'
  BY <1>1, <1>3, GridBroadcast
<1>4. ASSUME NEW n \in Node, RelayMessage(n) \/ Crash(n) \/ Boot(n) PROVE OnGrid(f)'
  BY <1>4, GridBoot
<1>5. ASSUME NEW p \in air, OnReceive(p) PROVE OnGrid(f)'
  BY <1>1, <1>5, GridOtherHeard, GridOwnHeard
<1>6. CASE HandlePacket
  <2>1. CASE Handled
    <3>1. /\ UNCHANGED <<flows, refunds, scores, settled, accepted, air, bootAt, dueAt, unreported>>
          /\ scores = {}
      BY <1>6, <2>1 DEF HandlePacket, Handled, history, mesh, past
    <3>2. ~Pending(f) /\ ~Pending(f)' /\ (Clear(f)' <=> Clear(f))
      BY <3>1 DEF Pending, Clear
    <3>3. \A t : Heard(f, t) => Heard(f, t)'
      BY <3>1, <3>2 DEF Heard, Anchored
    <3>4. UpToDate(f) => UpToDate(f)'
      BY <3>1, <3>3 DEF UpToDate, IsAccepted
    <3> QED BY <3>1, <3>2, <3>4 DEF OnGrid
  <2> QED BY <1>6, <2>1, GridScored, GridRefunded DEF HandlePacket
<1>7. CASE ListenSweeps
  <2>1. UNCHANGED <<held, refunds, scores, settled, accepted, air, bootAt, dueAt, unreported>>
    BY <1>7 DEF ListenSweeps, RunSweep, mesh, past
  <2>2. RunSweep
    BY <1>7 DEF ListenSweeps
  <2>3. (Clear(f) => Clear(f)') /\ (Clear(f)' \/ flows'[f].last = flows[f].last)
    BY <2>1, <2>2, SweepKeepsAnchors DEF Clear
  <2> QED BY <2>1, <2>3, OnGridStays
<1>8. CASE GatewayRestart
  <2>1. DOMAIN flows' = {} /\ held' = Idle /\ settled'[f] = 0
    BY <1>8 DEF GatewayRestart, Restart, TrackerReset, NoFlows, NothingSettled
  <2>2. Clear(f)' /\ ~Pending(f)'
    BY <2>1 DEF Clear, Pending
  <2> QED BY <2>1, <2>2 DEF OnGrid, UpToDate, Heard
<1>9. CASE ListenWakes \/ UNCHANGED allVars
  <2>1. UNCHANGED <<flows, held, refunds, scores, settled, accepted, air, bootAt, dueAt, unreported>>
    BY <1>9 DEF ListenWakes, SweepDue, history, mesh, past, allVars, vars, threads
  <2>2. Clear(f) => Clear(f)'
    BY <2>1 DEF Clear
  <2> QED BY <2>1, <2>2, OnGridStays
<1> QED BY <1>2, <1>3, <1>4, <1>5, <1>6, <1>7, <1>8, <1>9 DEF MeshNext

LEMMA LossesGrow ==
    ASSUME [MeshNext]_allVars
    PROVE  lost \subseteq lost' /\ unnoticed \subseteq unnoticed'
BY DEF MeshNext, MeshTick, Broadcast, RelayMessage, Crash, Boot, OnReceive, HandlePacket,
       ListenWakes, ListenSweeps, GatewayRestart, past, allVars

LEMMA GridInvariance ==
    ASSUME Punctual
    PROVE  MeshSpec => [](AcceptedBefore /\ Handling /\ GridInv)
<1>1. ASSUME MeshInit PROVE AcceptedBefore /\ Handling /\ GridInv
  <2>1. ASSUME NEW f \in Flow PROVE OnGrid(f)
    <3>1. f \notin DOMAIN flows /\ settled[f] = 0 /\ held = Idle
      BY <1>1 DEF MeshInit, Init, TrackerInit, NoFlows, NothingSettled
    <3> QED BY <3>1 DEF OnGrid, UpToDate, Heard, Pending, Clear
  <2>2. AcceptedBefore /\ Handling
    BY <1>1 DEF MeshInit, Init, AcceptedBefore, Handling
  <2> QED BY <2>1, <2>2 DEF GridInv
<1>2. ASSUME IInv, MeshTyped, SeenInv, Quiet, AirTimes, AcceptedBefore, Handling, GridInv,
             [MeshNext]_allVars
      PROVE  (AcceptedBefore /\ Handling /\ GridInv)'
  <2>1. GridInv'
    BY <1>2, GridStep, LossesGrow DEF GridInv
  <2> QED BY <1>2, <2>1, BeforeStep, HandlingStep
<1>3. MeshSpec => [](IInv /\ MeshTyped /\ SeenInv /\ Quiet /\ AirTimes)
  BY MeshTypes, NodeWideInvariance, AirInvariance, PTL
<1> QED BY <1>1, <1>2, <1>3, PTL DEF MeshSpec

\* Downtime is never booked as radio loss, provided that packets are heard
\* within half an interval of being sent: for every number of nodes, flows,
\* crashes and sweeps.
THEOREM DowntimeIsNotLoss ==
    ASSUME Punctual
    PROVE  MeshSpec => []NoFalseLoss
<1>1. ASSUME IInv, GridInv PROVE NoFalseLoss
  <2>1. ASSUME NEW f \in DOMAIN flows \ disturbed, f[1] \notin lost \cup unnoticed
        PROVE  flows[f].missed = flows[f].charged
    <3>1. f \in Flow /\ flows[f].missed = settled[f] + flows[f].charged
          /\ flows[f].charged \in Nat
      BY <1>1, <2>1, HeardFlow
    <3>2. settled[f] = 0
      BY <1>1, <2>1, <3>1 DEF GridInv, OnGrid
    <3> QED BY <3>1, <3>2
  <2> QED BY <2>1 DEF NoFalseLoss
<1>2. MeshSpec => [](IInv /\ GridInv)
  BY MeshTypes, GridInvariance, PTL
<1> QED BY <1>1, <1>2, PTL
=============================================================================
