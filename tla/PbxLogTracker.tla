---------------------------- MODULE PbxLogTracker ----------------------------
(***************************************************************************)
(* PbxLogTracker of src/pbx/collector/pbx_logd.py: cumulative counters     *)
(* from the console of a PBX.  A state s of the tracker is a record;       *)
(* Fed(s, line, now) and Idled(s, now) are the states after feed(line) and *)
(* feed(None).  Of the counters, those whose value depends on what earlier *)
(* lines said are kept; the others count lines of one kind each.           *)
(***************************************************************************)
EXTENDS Integers, Sequences, Functions

CONSTANTS Phone, Slot,
          Every        \* counters_every

ASSUME PbxAssumption == Slot \subseteq Nat /\ Every \in Nat \ {0}

Nothing == -1          \* None, for an uptime or a sequence number

NewPhone == [seq |-> Nothing, delivered |-> 0, missed |-> 0, gaps |-> 0, resets |-> 0]
NoPhones == [ph \in {} |-> NewPhone]
NoSlots  == [sl \in {} |-> Nothing]

InitialTracker(now) ==
    [phones |-> NoPhones, slots |-> NoSlots, uptime |-> Nothing,
     missed |-> 0, sessionResets |-> 0, reboots |-> 0, banners |-> 0,
     next |-> now + Every]

With(f, k, v) == [j \in DOMAIN f \cup {k} |-> IF j = k THEN v ELSE f[j]]

\* _phone(): known from now on.
Known(s, ph) ==
    IF ph \in DOMAIN s.phones THEN s
    ELSE [s EXCEPT !.phones = With(@, ph, NewPhone)]

\* Mutant: the packet that was notified is counted as missing too.
Missing_OffByOne(prev, seq) == seq - prev

Missing(prev, seq) == seq - prev - 1

\* _note_fromnum(): a step above one is charged, a falling number is not.
NoteFromnum(s, ph, seq) ==
    LET t     == Known(s, ph)
        prev  == t.phones[ph].seq
        heard == [t.phones[ph] EXCEPT !.seq = seq, !.delivered = @ + 1]
    IN  IF prev # Nothing /\ seq < prev
        THEN [t EXCEPT !.phones[ph] = [heard EXCEPT !.resets = @ + 1],
                       !.sessionResets = @ + 1]
        ELSE IF prev # Nothing /\ Missing(prev, seq) > 0
        THEN [t EXCEPT !.phones[ph] = [heard EXCEPT !.gaps   = @ + 1,
                                                    !.missed = @ + Missing(prev, seq)],
                       !.missed = @ + Missing(prev, seq)]
        ELSE [t EXCEPT !.phones[ph] = heard]

\* Mutant: the slots outlive the restart.
Forgotten_KeepsSlots(s) == [s EXCEPT !.phones = NoPhones, !.reboots = @ + 1]

Forgotten(s) == [s EXCEPT !.phones = NoPhones, !.slots = NoSlots, !.reboots = @ + 1]

\* Mutant: every banner counts a restart.
NoteBoot_Always(s) == [Forgotten([s EXCEPT !.banners = @ + 1]) EXCEPT !.uptime = Nothing]

\* _note_boot(): of the two banners of a boot, the first to find any state.
NoteBoot(s) ==
    LET t == [s EXCEPT !.banners = @ + 1]
    IN  IF DOMAIN s.phones = {} /\ DOMAIN s.slots = {} /\ s.uptime = Nothing
        THEN t ELSE [Forgotten(t) EXCEPT !.uptime = Nothing]

\* _note_uptime()
NoteUptime(s, up) ==
    IF up >= s.uptime THEN [s EXCEPT !.uptime = up]
    ELSE [Forgotten(s) EXCEPT !.uptime = up]

Dispatched(s, l) ==
    CASE l.body = "fromnum" -> NoteFromnum(s, l.phone, l.seq)
      [] l.body = "register" ->
             [Known(s, l.phone) EXCEPT !.slots = With(@, l.slot, l.phone)]
      [] l.body = "disconnect" ->
             [s EXCEPT !.slots = Restrict(@, DOMAIN @ \ {l.slot})]
      [] OTHER -> s

\* _maybe_publish_counters()
Idled(s, now) ==
    IF now < s.next THEN s ELSE [s EXCEPT !.next = now + Every]

Fed(s, l, now) ==
    IF l.body = "banner" THEN NoteBoot(s)
    ELSE Idled(Dispatched(NoteUptime(s, l.uptime), l), now)

\* A cut line has no prefix left, or a body that matches nothing; or the cut
\* leaves the leading digits of the number that ends a fromnum line.  Banners
\* have no prefix, and match by their beginning.
FedCut(s, l, now) ==
    {s} \cup
    CASE l.body = "banner"  -> {NoteBoot(s)}
      [] l.body = "fromnum" -> {Fed(s, [l EXCEPT !.seq = n], now) : n \in 0 .. l.seq - 1}
                               \cup {Idled(NoteUptime(s, l.uptime), now)}
      [] OTHER              -> {Idled(NoteUptime(s, l.uptime), now)}
=============================================================================
