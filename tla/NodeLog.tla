------------------------------- MODULE NodeLog -------------------------------
(***************************************************************************)
(* node_logd at work: NodeLogTracker fed by ConsoleReader from the console *)
(* of a node.  The node is the environment: it is handed packets, sends    *)
(* them one at a time among its own traffic, retries the ones that want an *)
(* acknowledgement, gives up, restarts, and prints each step as a line.    *)
(***************************************************************************)
EXTENDS NodeLogTracker, ConsoleReader

CONSTANTS Budget,      \* longest time between two steps of a packet's life
          MaxClock, MaxHandings, MaxAttempts, MaxOwn, MaxBoots   \* bounds

ASSUME NodeAssumption ==
    /\ Budget \in Nat \ {0} /\ MaxClock \in Nat \ {0} /\ MaxHandings \in Nat
    /\ MaxAttempts \in Nat /\ MaxOwn \in Nat /\ MaxBoots \in Nat

VARIABLES log,         \* the tracker
          clock,       \* its monotonic clock, in step with the node's
          \* The node:
          work,        \* packets the node has not finished with: since when
          radio,       \* the transmission on the air: its id, or Nothing
          aired,       \* whether its airtime has been printed
          bootAt, boots,
          \* History, of each packet: times handed over, transmissions
          \* completed, airtimes printed; packets acknowledged; packets the
          \* node left unfinished, dropping them or restarting; packets it
          \* had been handed when it restarted
          handed, sent, ontime, ackd, abandoned, handedAtBoot,
          own          \* transmissions of the node's own traffic

node    == <<work, radio, aired, bootAt, boots>>
history == <<handed, sent, ontime, ackd, abandoned, handedAtBoot, own>>
vars    == <<log, clock, reader, node, history>>

Uptime == clock - bootAt
Line(body, p) == [body |-> body, pkt |-> p, uptime |-> Uptime, cut |-> FALSE]
Count(h, p) == [h EXCEPT ![p] = @ + 1]

TypeOK ==
    /\ ReaderTypeOK
    /\ DOMAIN log.inflight \subseteq Pkt
    /\ log.inflight \in [DOMAIN log.inflight ->
          [attempts: Nat, airtime: Nat, uptime: Nat, seen: Nat]]
    /\ log.lastTx \in Pkt \cup {Other, Nothing}
    /\ log.uptime \in Nat \cup {Nothing}
    /\ log.txOther \in Nat /\ log.reboots \in Nat
    /\ \A p \in Pkt : \A i \in DOMAIN log.published[p] :
          log.published[p][i].outcome \in Outcomes
    /\ clock \in 0 .. MaxClock
    /\ DOMAIN work \subseteq Pkt
    /\ radio \in Pkt \cup {Other, Nothing}
-----------------------------------------------------------------------------
Init ==
    /\ ReaderInit
    /\ log = InitialLog
    /\ clock = 1
    /\ work = <<>> /\ radio = Nothing /\ aired = FALSE
    /\ bootAt = 0 /\ boots = 0
    /\ handed = [p \in Pkt |-> 0] /\ sent = handed /\ ontime = handed
    /\ ackd = {} /\ abandoned = {} /\ handedAtBoot = {} /\ own = 0

\* Time passes once what was printed has been read, and no packet waits for
\* the node longer than its budget.
Tick ==
    /\ clock < MaxClock
    /\ console = <<>>
    /\ \A p \in DOMAIN work : clock < work[p] + Budget
    /\ clock' = clock + 1
    /\ UNCHANGED <<log, reader, node, history>>

\* The node ---------------------------------------------------------------
\* A packet handed over again while the node works on it is printed only.
HandOver(p) ==
    /\ Uptime > 0
    /\ handed[p] < MaxHandings
    /\ handed' = Count(handed, p)
    /\ work' = IF p \in DOMAIN work THEN work ELSE With(work, p, clock)
    /\ Prints(<<Line("handed", p)>>)
    /\ UNCHANGED <<log, clock, radio, aired, bootAt, boots,
                   sent, ontime, ackd, abandoned, handedAtBoot, own>>

StartTx(p) ==
    /\ radio = Nothing
    /\ p \in DOMAIN work \/ (p = Other /\ own < MaxOwn)
    /\ p \in Pkt => sent[p] < (IF p \in WantAck THEN MaxAttempts ELSE handed[p])
    /\ radio' = p
    /\ aired' = FALSE
    /\ own' = IF p = Other THEN own + 1 ELSE own
    /\ Prints(<<Line("started", p)>>)
    /\ UNCHANGED <<log, clock, work, bootAt, boots,
                   handed, sent, ontime, ackd, abandoned, handedAtBoot>>

PrintAirtime ==
    /\ radio # Nothing /\ ~aired
    /\ aired' = TRUE
    /\ ontime' = IF radio \in Pkt THEN Count(ontime, radio) ELSE ontime
    /\ Prints(<<Line("airtime", Other)>>)
    /\ UNCHANGED <<log, clock, work, radio, bootAt, boots,
                   handed, sent, ackd, abandoned, handedAtBoot, own>>

CompleteTx ==
    /\ radio # Nothing /\ aired
    /\ radio' = Nothing
    /\ sent' = IF radio \in Pkt THEN Count(sent, radio) ELSE sent
    /\ work' = IF radio \in WantAck THEN [work EXCEPT ![radio] = clock]
               ELSE Restrict(work, DOMAIN work \ {radio})
    /\ Prints(<<Line("done", radio)>>)
    /\ UNCHANGED <<log, clock, aired, bootAt, boots,
                   handed, ontime, ackd, abandoned, handedAtBoot, own>>

GetAck(p) ==
    /\ p \in WantAck \cap DOMAIN work
    /\ sent[p] > 0
    /\ radio # p
    /\ work' = Restrict(work, DOMAIN work \ {p})
    /\ ackd' = ackd \cup {p}
    /\ Prints(<<Line("acked", p)>>)
    /\ UNCHANGED <<log, clock, radio, aired, bootAt, boots,
                   handed, sent, ontime, abandoned, handedAtBoot, own>>

\* The node drops the packet, or its retries are exhausted: nothing is printed.
GiveUp(p) ==
    /\ p \in DOMAIN work /\ radio # p
    /\ work' = Restrict(work, DOMAIN work \ {p})
    /\ abandoned' = abandoned \cup {p}
    /\ UNCHANGED <<log, clock, reader, radio, aired, bootAt, boots,
                   handed, sent, ontime, ackd, handedAtBoot, own>>

Reboot ==
    /\ boots < MaxBoots
    /\ Uptime > 1
    /\ boots' = boots + 1
    /\ bootAt' = clock
    /\ work' = <<>> /\ radio' = Nothing /\ aired' = FALSE
    /\ abandoned' = abandoned \cup DOMAIN work
    /\ handedAtBoot' = handedAtBoot \cup {p \in Pkt : handed[p] > 0}
    /\ Prints(<<[Line("boot", Other) EXCEPT !.uptime = 0]>>)
    /\ UNCHANGED <<log, clock, handed, sent, ontime, ackd, own>>

\* The collector ----------------------------------------------------------
FeedLine ==
    /\ ReadsLine
    /\ LET l == Head(console)
       IN  log' \in IF l.cut THEN FedCut(log, l, clock) ELSE {Fed(log, l, clock)}
    /\ UNCHANGED <<clock, node, history>>

\* Mutant: an idle tick expires nothing.
FeedNone_Ignored == IdleTick /\ UNCHANGED <<log, clock, node, history>>

FeedNone ==
    /\ IdleTick
    /\ log' = Expired(log, clock)
    /\ UNCHANGED <<clock, node, history>>

Port ==
    /\ Opens \/ OpenFails \/ ReadFails \/ Cut
    /\ UNCHANGED <<log, clock, node, history>>

NodeStep ==
    \/ \E p \in Pkt : HandOver(p) \/ GetAck(p) \/ GiveUp(p)
    \/ \E p \in Pkt \cup {Other} : StartTx(p)
    \/ PrintAirtime \/ CompleteTx \/ Reboot

Next == Tick \/ NodeStep \/ FeedLine \/ FeedNone \/ Port

Spec == Init /\ [][Next]_vars
-----------------------------------------------------------------------------
\* A verdict is never a guess.  Acknowledged and sent are always true, and what
\* is lost to a reboot was handed over before one.  While no line was missed, a
\* packet lost to a reboot is one the node left unfinished, by restarting or by
\* dropping it in silence before (no line tells which), never one that was
\* acknowledged or sent; and a packet reported unacked or dropped is one the
\* node has given up on, after or before transmitting it: the expiry never
\* beats a retry or an acknowledgement still to come.
VerdictsTrue ==
    \A p \in Pkt : \A i \in DOMAIN log.published[p] :
        LET o == log.published[p][i].outcome
        IN  /\ o = "acked" => p \in ackd
            /\ o = "sent" => sent[p] > 0 /\ p \notin WantAck
            /\ o = "lost_to_reboot" => p \in handedAtBoot
            /\ o = "lost_to_reboot" /\ ~missed /\ handed[p] = 1 => p \in abandoned
            /\ o \in {"unacked", "dropped_before_tx"} /\ ~missed /\ handed[p] = 1 =>
                   /\ p \notin DOMAIN work \cup ackd
                   /\ o = "unacked" <=> sent[p] > 0

\* Every packet handed over is accounted for exactly once, and none more often
\* than it was handed over, whatever is lost on the console.
Accounted(p) == Len(log.published[p]) + (IF p \in DOMAIN log.inflight THEN 1 ELSE 0)
ToldOf(p) == \A i \in DOMAIN console : console[i].body # "handed" \/ console[i].pkt # p
OneRecordPerPacket ==
    \A p \in Pkt : /\ Accounted(p) <= handed[p]
                   /\ handed[p] = 1 /\ ~missed /\ ToldOf(p) => Accounted(p) = 1

\* Every transmission is booked where it belongs: the record says how often the
\* packet was on the air and for how long, and what is counted as not originated
\* by the PBX is the node's own traffic, however the two are interleaved.
AttributionExact ==
    ~missed =>
        /\ \A p \in Pkt : \A i \in DOMAIN log.published[p] :
              handed[p] = 1 => /\ log.published[p][i].attempts = sent[p]
                               /\ log.published[p][i].airtime = ontime[p]
        /\ console = <<>> /\ (\A p \in Pkt : handed[p] <= 1) => log.txOther = own

\* No packet of an earlier boot is held once the reboot shows.
NothingOutlivesAReboot ==
    \A p \in DOMAIN log.inflight : log.inflight[p].uptime <= log.uptime
=============================================================================
