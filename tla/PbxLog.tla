------------------------------- MODULE PbxLog -------------------------------
(***************************************************************************)
(* pbx_logd at work: PbxLogTracker fed by ConsoleReader from the console   *)
(* of a PBX.  The PBX is the environment: phones connect, register, are    *)
(* delivered packets under a number that restarts with each session, and   *)
(* leave; it restarts; its log drops notifications.                        *)
(***************************************************************************)
EXTENDS PbxLogTracker, ConsoleReader, FiniteSets

CONSTANTS Starts,      \* numbers a session can start at
          MaxClock, MaxMade, MaxSessions, MaxBoots   \* bounds

ASSUME StartsAssumption ==
    /\ Starts \subseteq Nat \ {0}
    /\ MaxClock \in Nat /\ MaxMade \in Nat /\ MaxSessions \in Nat /\ MaxBoots \in Nat

VARIABLES tracker, clock,
          \* The PBX:
          bootAt, boots,
          session,     \* the slot of each phone with a session, or Nothing
          number,      \* the number of its next packet
          \* History:
          made,        \* packets made available to the phones
          read,        \* those of the fromnum lines read
          skipped,     \* notifications known to be missing before those lines
          notified,    \* the last number notified in each phone's session, or Nothing
          sessions,    \* sessions so far
          fresh,       \* phones without a session in this boot
          resumed,     \* some phone had a second session within a boot
          attached,    \* a line was read before the first restart
          at           \* the boot of the last line read

pbx     == <<bootAt, boots, session, number>>
history == <<made, read, skipped, notified, sessions, fresh, resumed, attached, at>>
vars    == <<tracker, clock, reader, pbx, history>>

\* A line.  `boot', `session' and `after' are history: where the line comes from
\* and the number notified before it in the session.
Line(body) ==
    [body |-> body, phone |-> Nothing, slot |-> Nothing, seq |-> 0,
     uptime |-> clock - bootAt, cut |-> FALSE,
     boot |-> boots, session |-> 0, after |-> Nothing]
Packet(ph, n, k) == [phone |-> ph, session |-> n, seq |-> k]
-----------------------------------------------------------------------------
Init ==
    /\ ReaderInit
    /\ clock = 1
    /\ tracker = InitialTracker(clock)
    /\ bootAt = 0 /\ boots = 0
    /\ session = [ph \in Phone |-> Nothing]
    /\ number = [ph \in Phone |-> 0]
    /\ made = {} /\ read = {} /\ skipped = 0 /\ notified = session
    /\ sessions = number /\ fresh = Phone /\ resumed = FALSE
    /\ attached = FALSE /\ at = 0

Tick ==
    /\ clock < MaxClock
    /\ clock' = clock + 1
    /\ UNCHANGED <<tracker, reader, pbx, history>>

\* The PBX ----------------------------------------------------------------
Register(ph, sl) ==
    /\ session[ph] = Nothing
    /\ \A other \in Phone : session[other] # sl
    /\ sessions[ph] < MaxSessions
    /\ session' = [session EXCEPT ![ph] = sl]
    /\ \E n \in Starts : number' = [number EXCEPT ![ph] = n]
    /\ notified' = [notified EXCEPT ![ph] = Nothing]
    /\ sessions' = [sessions EXCEPT ![ph] = @ + 1]
    /\ fresh' = fresh \ {ph}
    /\ resumed' = (resumed \/ ph \notin fresh)
    /\ Prints(<<[Line("register") EXCEPT !.phone = ph, !.slot = sl]>>)
    /\ UNCHANGED <<tracker, clock, bootAt, boots, made, read, skipped, attached, at>>

\* A packet is made available; its notification is logged, or is not.
Deliver(ph) ==
    /\ session[ph] # Nothing
    /\ Cardinality(made) < MaxMade
    /\ made' = made \cup {Packet(ph, sessions[ph], number[ph])}
    /\ number' = [number EXCEPT ![ph] = @ + 1]
    /\ \/ UNCHANGED <<reader, notified>>
       \/ /\ notified' = [notified EXCEPT ![ph] = number[ph]]
          /\ Prints(<<[Line("fromnum") EXCEPT !.phone = ph, !.seq = number[ph],
                                              !.session = sessions[ph],
                                              !.after = notified[ph]]>>)
    /\ UNCHANGED <<tracker, clock, bootAt, boots, session,
                   read, skipped, sessions, fresh, resumed, attached, at>>

Disconnect(ph) ==
    /\ session[ph] # Nothing
    /\ session' = [session EXCEPT ![ph] = Nothing]
    /\ Prints(<<[Line("disconnect") EXCEPT !.slot = session[ph]]>>)
    /\ UNCHANGED <<tracker, clock, bootAt, boots, number, history>>

\* Traffic, routes, faults: lines that only count.
Chatter ==
    /\ Prints(<<Line("other")>>)
    /\ UNCHANGED <<tracker, clock, pbx, history>>

\* A restart prints its two banners before any other line.
Reboot ==
    /\ boots < MaxBoots
    /\ boots' = boots + 1
    /\ bootAt' = clock
    /\ session' = [ph \in Phone |-> Nothing]
    /\ notified' = session'
    /\ fresh' = Phone
    /\ LET First(body) == [Line(body) EXCEPT !.uptime = 0, !.boot = boots']
       IN  Prints(<<First("banner"), First("banner"), First("other")>>)
    /\ UNCHANGED <<tracker, clock, number, made, read, skipped, sessions, resumed, attached, at>>

\* The collector ----------------------------------------------------------
FeedLine ==
    /\ ReadsLine
    /\ LET l == Head(console)
       IN  /\ tracker' \in IF l.cut THEN FedCut(tracker, l, clock)
                           ELSE {Fed(tracker, l, clock)}
           /\ read' = IF l.body = "fromnum" /\ ~l.cut
                      THEN read \cup {Packet(l.phone, l.session, l.seq)} ELSE read
           /\ skipped' = skipped + (IF l.after = Nothing THEN 0 ELSE l.seq - l.after - 1)
           /\ attached' = (attached \/ (l.body # "banner" /\ ~l.cut /\ boots = 0))
           /\ at' = l.boot
    /\ UNCHANGED <<clock, pbx, made, notified, sessions, fresh, resumed>>

\* Mutant: an idle tick dumps nothing.
FeedNone_Ignored == IdleTick /\ UNCHANGED <<tracker, clock, pbx, history>>

FeedNone ==
    /\ IdleTick
    /\ tracker' = Idled(tracker, clock)
    /\ UNCHANGED <<clock, pbx, history>>

Port ==
    /\ Opens \/ OpenFails \/ ReadFails \/ Cut
    /\ UNCHANGED <<tracker, clock, pbx, history>>

PbxStep ==
    \/ \E ph \in Phone : Deliver(ph) \/ Disconnect(ph) \/ \E sl \in Slot : Register(ph, sl)
    \/ Chatter \/ Reboot

Next == Tick \/ PbxStep \/ FeedLine \/ FeedNone \/ Port

Spec == Init /\ [][Next]_vars
-----------------------------------------------------------------------------
Pending == {Packet(l.phone, l.session, l.seq) :
               l \in {console[i] : i \in {j \in DOMAIN console : console[j].body = "fromnum"}}}

\* The loss figure invents nothing: if no number was cut short, it never exceeds
\* the packets made available whose notification was not read and is not about
\* to be.  And it misses nothing: while each phone keeps to one session per boot
\* and the console is read whole, what is charged is what the log dropped.
LossFigureTrue ==
    /\ cuts = 0 => tracker.missed <= Cardinality(made \ (read \cup Pending))
    /\ ~missed /\ ~resumed => tracker.missed = skipped

\* A restart is counted at most once, though its banners and the fall of the
\* uptime both tell of it and either may be lost; and exactly once when all was
\* read and the collector had heard of the boot before.
RebootsCountedOnce ==
    /\ tracker.reboots <= boots
    /\ ~missed /\ attached /\ console = <<>> => tracker.reboots = boots

\* The slot map names only phones on the books; and while all was read it is the
\* PBX's own: no slot keeps a phone that has left or that the restart
\* disconnected, and none is forgotten.
SlotsExact ==
    /\ \A sl \in DOMAIN tracker.slots : tracker.slots[sl] \in DOMAIN tracker.phones
    /\ ~missed /\ attached /\ console = <<>> =>
           \A sl \in Slot, ph \in Phone :
               session[ph] = sl <=> sl \in DOMAIN tracker.slots /\ tracker.slots[sl] = ph
=============================================================================
