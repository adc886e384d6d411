----------------------------- MODULE MonitorMqtt -----------------------------
(***************************************************************************)
(* MQTTConnector of monitor/utils.py as monitor/app.py starts it: connect, *)
(* start the network loop, subscribe.  Three things dial the broker: the   *)
(* start-up, paho's own loop, and a 5 s timer for every refused or failed  *)
(* connect().  A new dial closes the link there was, and the session is    *)
(* clean: the broker forgets the subscription with the link.               *)
(***************************************************************************)
EXTENDS Integers

CONSTANTS MaxTimers,  \* bound on connect() timers pending at once
          MaxChanges, \* bound on what the broker does: go down, refuse, recover
          MaxDrops    \* bound on links lost while the broker is fine

ASSUME MonitorAssumption ==
    MaxTimers \in Nat \ {0} /\ MaxChanges \in Nat /\ MaxDrops \in Nat

VARIABLES main,       \* what app.py does next; "run" once started
          remembered, \* the topic is in _subscriptions
          looping,    \* paho's network thread runs
          link,       \* "closed", "dialing" (CONNECT sent), "up" (accepted)
          early,      \* SUBSCRIBE was sent behind the CONNECT of this dial
          held,       \* the broker holds the subscription for this link
          timers,     \* connect() timers pending
          broker,     \* "down", "refusing" or "ok"
          changes, drops

client == <<main, remembered, looping, timers>>
session == <<link, early, held>>
world == <<broker, changes, drops>>
vars == <<client, session, world>>

Init == /\ main = "connect" /\ remembered = FALSE
        /\ looping = FALSE /\ timers = 0
        /\ link = "closed" /\ early = FALSE /\ held = FALSE
        /\ broker \in {"down", "refusing", "ok"} /\ changes = 0 /\ drops = 0

Closed(l) == link' = l /\ early' = FALSE /\ held' = FALSE

\* connect(): dials, closing whatever link there was, or fails at once and is
\* tried again in 5 s.  pending is the number of timers without this call.
Connect(pending) ==
    IF broker = "down"
    THEN /\ pending < MaxTimers
         /\ timers' = pending + 1
         /\ Closed("closed")
    ELSE timers' = pending /\ Closed("dialing")

MainConnect ==
    /\ main = "connect" /\ main' = "loop"
    /\ Connect(timers)
    /\ UNCHANGED <<remembered, looping, world>>

\* Mutant: the timer is armed again each time it fires.
TimerConnect_Rearms ==
    /\ timers > 0
    /\ Connect(timers)
    /\ UNCHANGED <<main, remembered, looping, world>>

TimerConnect ==
    /\ timers > 0
    /\ Connect(timers - 1)
    /\ UNCHANGED <<main, remembered, looping, world>>

MainLoop ==
    /\ main = "loop" /\ main' = "append" /\ looping' = TRUE
    /\ UNCHANGED <<remembered, timers, session, world>>

\* subscribe(): the topic is remembered, then sent; what is sent without a link
\* is lost.
MainAppend ==
    /\ main = "append" /\ main' = "subscribe" /\ remembered' = TRUE
    /\ UNCHANGED <<looping, timers, session, world>>

MainSubscribe ==
    /\ main = "subscribe" /\ main' = "run"
    /\ early' = (link = "dialing")
    /\ held' = (held \/ link = "up")
    /\ UNCHANGED <<remembered, looping, timers, link, world>>

\* Mutant: the topics are not sent again.
OnConnect_NoResubscribe ==
    /\ link = "dialing" /\ looping /\ broker = "ok"
    /\ link' = "up" /\ early' = FALSE
    /\ held' = early
    /\ UNCHANGED <<client, world>>

\* _on_connect(): accepted, every remembered topic is sent again; refused, the
\* link goes down and a timer dials again in 5 s.
OnConnect ==
    /\ link = "dialing" /\ looping /\ broker = "ok"
    /\ link' = "up" /\ early' = FALSE
    /\ held' = (remembered \/ early)
    /\ UNCHANGED <<client, world>>

OnRefused ==
    /\ link = "dialing" /\ looping /\ broker = "refusing"
    /\ timers < MaxTimers
    /\ timers' = timers + 1
    /\ Closed("closed")
    /\ UNCHANGED <<main, remembered, looping, world>>

\* paho's loop dials again by itself once the link is gone.
PahoRetry ==
    /\ looping /\ link = "closed" /\ broker # "down"
    /\ Closed("dialing")
    /\ UNCHANGED <<client, world>>

BrokerChanges ==
    /\ changes < MaxChanges /\ changes' = changes + 1
    /\ broker' \in {"down", "refusing", "ok"} \ {broker}
    /\ Closed("closed")
    /\ UNCHANGED <<client, drops>>

LinkDrops ==
    /\ drops < MaxDrops /\ drops' = drops + 1
    /\ link # "closed"
    /\ Closed("closed")
    /\ UNCHANGED <<client, broker, changes>>

Next == \/ MainConnect \/ MainLoop \/ MainAppend \/ MainSubscribe
        \/ TimerConnect \/ OnConnect \/ OnRefused
        \/ PahoRetry \/ BrokerChanges \/ LinkDrops

Spec == Init /\ [][Next]_vars

\* The program, its timers and paho's thread keep running; the broker owes
\* nothing.
Fairness == /\ WF_vars(MainConnect \/ MainLoop \/ MainAppend \/ MainSubscribe)
            /\ WF_vars(TimerConnect) /\ WF_vars(OnConnect \/ OnRefused)
            /\ WF_vars(PahoRetry)

(***************************************************************************)
(* However start-up, drops, refusals and timers interleave, an accepted    *)
(* link of a started monitor carries the subscription: subscribe() before, *)
(* during or after the first CONNACK loses no topic.                       *)
(***************************************************************************)
SubscribedWhenUp == main = "run" /\ link = "up" => held

(***************************************************************************)
(* Once the broker stays up and accepts, the timers that piled up while it *)
(* did not drain, each closing a good link once, and the monitor ends up   *)
(* connected and subscribed for good.                                      *)
(***************************************************************************)
SettlesDown ==
    <>[](broker = "ok") => <>[](link = "up" /\ held /\ timers = 0)
=============================================================================
