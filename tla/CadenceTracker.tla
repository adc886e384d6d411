--------------------------- MODULE CadenceTracker ---------------------------
(***************************************************************************)
(* CadencePdrTracker of src/gateway/mesh_receiver.py: losses of a flow are *)
(* inferred from the gaps between its packets and a known cadence.  Each   *)
(* action is one public method, run under the tracker's lock; `now' is the *)
(* caller's reading of the monotonic clock.                                *)
(***************************************************************************)
EXTENDS Sequences, Rounding

CONSTANTS Flow,        \* (node_label, kind) pairs with a declared cadence
          Interval,    \* the cadence of each flow
          WindowSec    \* length of the rolling window of each flow

ASSUME CadenceAssumption == /\ Interval \in [Flow -> Nat \ {0}]
                            /\ WindowSec \in [Flow -> Nat]

VARIABLE flows         \* the dict _flows: only flows heard at least once

MIN_WINDOW_SLOTS == 3
WindowSlots(f) ==
    AtLeast(MIN_WINDOW_SLOTS, RoundHalfEven(WindowSec[f], Interval[f]))

FlowState == [last: Int, rx: Nat, missed: Int, early: Nat, charged: Nat,
              restart: BOOLEAN, recent: Seq({0, 1})]

\* Nominal intervals between the anchor of f and `now', and the losses that
\* many intervals imply when no packet of the gap arrived.
Slots(f, last, now) == RoundHalfEven(now - last, Interval[f])
Due(f, last, now)   == AtLeast(0, Slots(f, last, now) - 1)

\* deque(maxlen = WindowSlots(f)): the newest outcomes push out the oldest.
Pushed(f, recent, outcomes) ==
    LET all  == recent \o outcomes
        drop == AtLeast(0, Len(all) - WindowSlots(f))
    IN  SubSeq(all, drop + 1, Len(all))
Losses(n) == [i \in 1..n |-> 0]

\* The tail of losses that reanchor() pops: at most n, stopping at a 1.
LastHeard(recent) ==
    CHOOSE k \in 0 .. Len(recent) :
        /\ k = 0 \/ recent[k] = 1
        /\ \A i \in k + 1 .. Len(recent) : recent[i] = 0
\* Mutant: the refund leaves one of the charged losses in the window.
WithoutTail_OneShort(recent, n) ==
    SubSeq(recent, 1, AtLeast(LastHeard(recent), Len(recent) - AtLeast(0, n - 1)))
WithoutTail(recent, n) ==
    SubSeq(recent, 1, AtLeast(LastHeard(recent), Len(recent) - n))
-----------------------------------------------------------------------------
NewFlow(now) == [last |-> now, rx |-> 1, missed |-> 0, early |-> 0,
                 charged |-> 0, restart |-> FALSE, recent |-> <<1>>]

NoFlows      == [f \in {} |-> NewFlow(0)]
TrackerInit  == flows = NoFlows
TrackerReset == flows' = NoFlows

ObserveFirst(f, now) ==
    /\ f \notin DOMAIN flows
    /\ flows' = [g \in DOMAIN flows \cup {f} |->
                    IF g = f THEN NewFlow(now) ELSE flows[g]]

\* The first packet after a reboot starts a new grid and is not judged.
ObserveRestart(f, now) ==
    /\ f \in DOMAIN flows
    /\ flows[f].restart
    /\ flows' = [flows EXCEPT ![f].restart = FALSE,
                              ![f].rx      = @ + 1,
                              ![f].last    = now,
                              ![f].charged = 0,
                              ![f].recent  = Pushed(f, @, <<1>>)]

ObserveEarly(f, now) ==
    /\ f \in DOMAIN flows
    /\ ~flows[f].restart
    /\ Slots(f, flows[f].last, now) = 0
    /\ flows' = [flows EXCEPT ![f].early = @ + 1]

\* Mutants: the provisional charge is counted again; the packet that ends the
\* gap is counted as lost.
MissedNow_Recounted(f, now) == Due(f, flows[f].last, now)
MissedNow_CountsArrival(f, now) ==
    AtLeast(0, Slots(f, flows[f].last, now) - flows[f].charged)

MissedNow(f, now) ==
    AtLeast(0, Slots(f, flows[f].last, now) - 1 - flows[f].charged)

ObserveScheduled(f, now) ==
    /\ f \in DOMAIN flows
    /\ ~flows[f].restart
    /\ Slots(f, flows[f].last, now) # 0
    /\ flows' = [flows EXCEPT
                    ![f].rx      = @ + 1,
                    ![f].missed  = @ + MissedNow(f, now),
                    ![f].last    = now,
                    ![f].charged = 0,
                    ![f].recent  = Pushed(f, @, Losses(MissedNow(f, now)) \o <<1>>)]

Observe(f, now) == \/ ObserveFirst(f, now)
                   \/ ObserveRestart(f, now)
                   \/ ObserveEarly(f, now)
                   \/ ObserveScheduled(f, now)

\* Mutant: every sweep charges the whole gap.
Delta_Recharged(f, now) == Due(f, flows[f].last, now)

\* The losses sweep() adds to f, and the flows it reports as changed.
Delta(f, now)  == AtLeast(0, Due(f, flows[f].last, now) - flows[f].charged)
Changed(now)   == {f \in DOMAIN flows : Delta(f, now) > 0}

Charge(f, now) ==
    [flows[f] EXCEPT !.missed  = @ + Delta(f, now),
                     !.charged = @ + Delta(f, now),
                     !.recent  = Pushed(f, @, Losses(Delta(f, now)))]

Sweep(now) ==
    flows' = [f \in DOMAIN flows |->
                 IF f \in Changed(now) THEN Charge(f, now) ELSE flows[f]]

\* Mutants: the refund is what the gap is worth by now, not what was charged;
\* the refunded charge stays on account; the old grid stays in force.
Reanchor_RefundsDue(f, now) ==
    flows' = IF f \notin DOMAIN flows THEN flows
             ELSE [flows EXCEPT ![f].missed  = @ - Due(f, flows[f].last, now),
                                ![f].charged = @ - Due(f, flows[f].last, now),
                                ![f].last    = now,
                                ![f].restart = TRUE]
Reanchor_KeepsCharge(f, now) ==
    flows' = IF f \notin DOMAIN flows THEN flows
             ELSE [flows EXCEPT ![f].missed  = @ - flows[f].charged,
                                ![f].recent  = WithoutTail(@, flows[f].charged),
                                ![f].last    = now,
                                ![f].restart = TRUE]
Reanchor_OldGrid(f, now) ==
    flows' = IF f \notin DOMAIN flows THEN flows
             ELSE [flows EXCEPT ![f].missed  = @ - flows[f].charged,
                                ![f].recent  = WithoutTail(@, flows[f].charged),
                                ![f].charged = 0]

Reanchor(f, now) ==
    flows' = IF f \notin DOMAIN flows THEN flows
             ELSE [flows EXCEPT
                      ![f].missed  = @ - flows[f].charged,
                      ![f].recent  = WithoutTail(@, flows[f].charged),
                      ![f].charged = 0,
                      ![f].last    = now,
                      ![f].restart = TRUE]
=============================================================================
