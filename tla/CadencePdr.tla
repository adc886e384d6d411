----------------------------- MODULE CadencePdr -----------------------------
(***************************************************************************)
(* The tracker under its two callers.  The receive thread reads the        *)
(* monotonic clock once per packet and then takes the lock once per call:  *)
(* first for the flows of a rebooted node, then for the flows the packet   *)
(* is scored on.  The main thread reads the clock and sweeps.  Either may  *)
(* be preempted between its clock reading and the lock.                    *)
(***************************************************************************)
EXTENDS CadenceTracker

CONSTANTS MaxClock,    \* bound on the clock
          MaxPackets   \* bound on the packets received

ASSUME BoundAssumption == MaxClock \in Nat /\ MaxPackets \in Nat

VARIABLES clock,       \* time.monotonic()
          held,        \* now_mono of the packet being handled, or Idle
          refunds,     \* flows that packet still has to re-anchor
          scores,      \* flows that packet still has to be scored on
          packets,     \* packets received so far
          sweepNow,    \* `now' of the sweep about to run, or Idle
          \* History, read by no action of the program:
          sweptAt,     \* latest clock reading a sweep has charged up to
          settled,     \* losses an estimator that never sweeps would count
          gaps,        \* scored gaps of a flow: how many, and their total length
          disturbed    \* flows whose provisional charge was dropped unreckoned

threads == <<clock, held, refunds, scores, packets, sweepNow>>
history == <<sweptAt, settled, gaps, disturbed>>
vars    == <<flows, threads, history>>

Idle == -1

TypeOK ==
    /\ DOMAIN flows \subseteq Flow
    /\ flows \in [DOMAIN flows -> FlowState]
    /\ clock \in Nat
    /\ held \in Int /\ held <= clock
    /\ refunds \subseteq Flow
    /\ scores \subseteq Flow
    /\ packets \in Nat
    /\ sweepNow \in Int /\ sweepNow <= clock
    /\ sweptAt \in Int /\ sweptAt <= clock
    /\ settled \in [Flow -> Nat]
    /\ gaps \in [Flow -> [count: Nat, span: Int]]
    /\ disturbed \subseteq Flow
-----------------------------------------------------------------------------
NothingSettled == [f \in Flow |-> 0]
NoGaps         == [f \in Flow |-> [count |-> 0, span |-> 0]]

Init ==
    /\ TrackerInit
    /\ clock = 0
    /\ held = Idle /\ refunds = {} /\ scores = {} /\ packets = 0
    /\ sweepNow = Idle
    /\ sweptAt = Idle
    /\ settled = NothingSettled
    /\ gaps = NoGaps
    /\ disturbed = {}

Tick ==
    /\ clock < MaxClock
    /\ clock' = clock + 1
    /\ UNCHANGED <<flows, held, refunds, scores, packets, sweepNow, history>>

\* _on_receive() reads the clock.  The flows it will re-anchor and score are
\* settled by then: they follow from the packet and the node's last uptime.
Receive ==
    /\ held = Idle
    /\ packets < MaxPackets
    /\ packets' = packets + 1
    /\ held' = clock
    /\ refunds' \in SUBSET Flow
    /\ scores' \in SUBSET Flow
    /\ UNCHANGED <<flows, clock, sweepNow, history>>

\* A charge is dropped unreckoned when the packet that ends the gap starts a
\* new grid, or is scored at a reading older than the sweep that charged it.
Drops(f) ==
    /\ f \in DOMAIN flows
    /\ flows[f].charged > 0
    /\ flows[f].restart \/ held < sweptAt

\* The packet ends a gap of f: not the first, not a new grid, not an extra.
Ends(f) ==
    /\ f \in DOMAIN flows
    /\ ~flows[f].restart
    /\ Slots(f, flows[f].last, held) # 0

RefundStep(f) ==
    /\ held # Idle
    /\ f \in refunds
    /\ Reanchor(f, held)
    /\ refunds' = refunds \ {f}
    /\ UNCHANGED <<clock, held, scores, packets, sweepNow, history>>

ScoreStep(f) ==
    /\ held # Idle
    /\ refunds = {}
    /\ f \in scores
    /\ Observe(f, held)
    /\ scores' = scores \ {f}
    /\ settled' = IF Ends(f)
                  THEN [settled EXCEPT ![f] = @ + Due(f, flows[f].last, held)]
                  ELSE settled
    /\ gaps' = IF Ends(f)
               THEN [gaps EXCEPT ![f].count = @ + 1,
                                 ![f].span  = @ + (held - flows[f].last)]
               ELSE gaps
    /\ disturbed' = IF Drops(f) THEN disturbed \cup {f} ELSE disturbed
    /\ UNCHANGED <<clock, held, refunds, packets, sweepNow, sweptAt>>

Handled ==
    /\ held # Idle
    /\ refunds = {} /\ scores = {}
    /\ held' = Idle
    /\ UNCHANGED <<flows, clock, refunds, scores, packets, sweepNow, history>>

SweepDue ==
    /\ sweepNow = Idle
    /\ sweepNow' = clock
    /\ UNCHANGED <<flows, clock, held, refunds, scores, packets, history>>

RunSweep ==
    /\ sweepNow # Idle
    /\ Sweep(sweepNow)
    /\ sweptAt' = AtLeast(sweptAt, sweepNow)
    /\ sweepNow' = Idle
    /\ UNCHANGED <<clock, held, refunds, scores, packets,
                   settled, gaps, disturbed>>

\* The container is restarted: everything the program knew is gone.
Restart ==
    /\ TrackerReset
    /\ held' = Idle /\ refunds' = {} /\ scores' = {} /\ sweepNow' = Idle
    /\ settled' = NothingSettled /\ gaps' = NoGaps /\ disturbed' = {}
    /\ UNCHANGED <<clock, packets, sweptAt>>

Next ==
    \/ Tick
    \/ Receive
    \/ \E f \in Flow : RefundStep(f) \/ ScoreStep(f)
    \/ Handled
    \/ SweepDue
    \/ RunSweep
    \/ Restart

Spec == Init /\ [][Next]_vars
-----------------------------------------------------------------------------
\* Every loss on the books is one the gaps account for, or one that a sweep
\* has charged to the gap still open: no loss is counted twice (once by the
\* sweep and again by the packet that ends the gap) and none is forgotten,
\* for every flow whose provisional charge was never dropped.
LedgerExact ==
    \A f \in DOMAIN flows \ disturbed :
        flows[f].missed = settled[f] + flows[f].charged

\* Whatever the threads do, the books never fall below what the gaps account
\* for: refunds give back only what a sweep has charged, never settled losses.
NeverUndercounts ==
    \A f \in DOMAIN flows : flows[f].missed >= settled[f] + flows[f].charged

\* The count is accurate to one packet per gap: over the gaps scored so far,
\* packets heard and packets counted lost differ from the time that passed by
\* at most half an interval per gap, sweeps and races notwithstanding.
DriftBounded ==
    \A f \in DOMAIN flows \ disturbed :
        LET counted == gaps[f].count + flows[f].missed - flows[f].charged
            drift   == Interval[f] * counted - gaps[f].span
        IN  /\ 2 * drift <= Interval[f] * gaps[f].count
            /\ -2 * drift <= Interval[f] * gaps[f].count

\* A provisional charge never exceeds what the gap is worth at the latest
\* sweep, so the packet that ends the gap has a charge it can absorb.
ChargeWithinGap ==
    \A f \in DOMAIN flows :
        flows[f].charged <= Due(f, flows[f].last, sweptAt)

\* The window ends in exactly the charged losses (as many as fit it), behind
\* the last packet heard: the zeros reanchor() pops are the ones sweep() added.
TailIsTheCharge ==
    \A f \in DOMAIN flows :
        LET recent == flows[f].recent
            tail   == Len(recent) - LastHeard(recent)
        IN  \/ tail = flows[f].charged
            \/ /\ tail = Len(recent)
               /\ tail < flows[f].charged
               /\ tail = WindowSlots(f)

\* Set the provisional charges aside, and the tracker counts what an estimator
\* without sweeps counts: a sweep is invisible once the next packet settles it,
\* for every flow whose provisional charge was never dropped.
Settled(fl) == [last |-> fl.last, rx |-> fl.rx, lost |-> fl.missed - fl.charged,
                early |-> fl.early, restart |-> fl.restart]

Reference == INSTANCE SweepFree
                 WITH books    <- [f \in DOMAIN flows \ disturbed |-> Settled(flows[f])],
                      excused  <- disturbed,
                      Instants <- 0 .. MaxClock

SweepIsInvisible == Reference!Spec
=============================================================================
