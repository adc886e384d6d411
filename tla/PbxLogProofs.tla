---------------------------- MODULE PbxLogProofs ----------------------------
(***************************************************************************)
(* Proofs about the PBX console collector, for every set of phones and     *)
(* slots, every dump period, and every bound.                              *)
(***************************************************************************)
EXTENDS PbxLog, FiniteSetTheorems, SequenceTheorems, TLAPS

\* Types -------------------------------------------------------------------
PhoneState(st) ==
    /\ DOMAIN st = {"seq", "delivered", "missed", "gaps", "resets"}
    /\ st.seq \in Nat \cup {Nothing}
    /\ st.delivered \in Nat /\ st.missed \in Nat /\ st.gaps \in Nat /\ st.resets \in Nat

TrackerType(s) ==
    /\ DOMAIN s = {"phones", "slots", "uptime", "missed", "sessionResets",
                   "reboots", "banners", "next"}
    /\ DOMAIN s.phones \subseteq Phone /\ \A ph \in DOMAIN s.phones : PhoneState(s.phones[ph])
    /\ DOMAIN s.slots \subseteq Slot /\ \A sl \in DOMAIN s.slots : s.slots[sl] \in Phone
    /\ s.uptime \in Nat \cup {Nothing}
    /\ s.missed \in Nat /\ s.sessionResets \in Nat
    /\ s.reboots \in Nat /\ s.banners \in Nat /\ s.next \in Nat

LineType ==
    [body : {"register", "fromnum", "disconnect", "other", "banner"},
     phone : Phone \cup {Nothing}, slot : Slot \cup {Nothing}, seq : Nat,
     uptime : Nat, cut : BOOLEAN,
     boot : Nat, session : Nat, after : Nat \cup {Nothing}]

\* A line of a body names what the body names, and numbers grow in a session.
Names(l) ==
    /\ l \in LineType
    /\ l.body \in {"register", "fromnum"} => l.phone \in Phone
    /\ l.body \in {"register", "disconnect"} => l.slot \in Slot
LineOK(l) ==
    /\ Names(l)
    /\ l.body = "fromnum" => l.after < l.seq
    /\ l.body # "fromnum" => l.after = Nothing

\* What the tracker knows: the number of a phone, the phone in a slot.
Heard(s, ph)   == IF ph \in DOMAIN s.phones THEN s.phones[ph].seq ELSE Nothing
Holders(s, sl) == IF sl \in DOMAIN s.slots THEN {s.slots[sl]} ELSE {}
Empty(s) == DOMAIN s.phones = {} /\ DOMAIN s.slots = {} /\ s.uptime = Nothing

\* Without an uptime it knows nothing, and a phone in a slot is on the books.
BooksAgree(s) ==
    /\ s.uptime = Nothing => Empty(s)
    /\ \A sl \in DOMAIN s.slots : s.slots[sl] \in DOMAIN s.phones

TypeInv ==
    /\ TrackerType(tracker) /\ BooksAgree(tracker)
    /\ clock \in Nat /\ bootAt \in 0 .. clock /\ boots \in Nat /\ at \in 0 .. boots
    /\ session \in [Phone -> Slot \cup {Nothing}]
    /\ number \in [Phone -> Nat] /\ sessions \in [Phone -> Nat]
    /\ notified \in [Phone -> Nat \cup {Nothing}]
    /\ fresh \in SUBSET Phone
    /\ \A ph \in Phone : notified[ph] # Nothing => notified[ph] < number[ph]
    /\ \A ph \in fresh : notified[ph] = Nothing /\ session[ph] = Nothing
    /\ made \in SUBSET [phone : Phone, session : Nat, seq : Nat] /\ IsFiniteSet(made)
    /\ skipped \in Nat /\ missed \in BOOLEAN /\ cuts \in Nat
    /\ resumed \in BOOLEAN /\ attached \in BOOLEAN

\* The console -------------------------------------------------------------
\* Lines come in the order of the boots and of the uptimes within a boot; a boot
\* begins with its banners, and what follows a banner is of its boot.
ConsoleInv ==
    /\ port \in {"open", "closed"} /\ (port = "closed" => console = <<>>)
    /\ console \in Seq(LineType) /\ \A i \in DOMAIN console : LineOK(console[i])
    /\ \A i \in DOMAIN console :
          /\ at <= console[i].boot /\ console[i].boot <= boots
          /\ console[i].boot = boots => console[i].uptime <= clock - bootAt
          /\ console[i].cut => missed /\ cuts > 0
    /\ \A i, j \in DOMAIN console : i < j =>
          /\ console[i].boot <= console[j].boot
          /\ console[i].boot = console[j].boot =>
                /\ console[i].uptime <= console[j].uptime
                /\ console[j].body = "banner" => console[i].body = "banner"
    /\ \A i \in DOMAIN console : i + 1 \in DOMAIN console =>
          \/ console[i + 1].boot = console[i].boot
          \/ /\ console[i + 1].boot = console[i].boot + 1
             /\ console[i].body # "banner" /\ console[i + 1].body = "banner"
    /\ \A i \in DOMAIN console : console[i].body = "banner" =>
          i + 1 \in DOMAIN console /\ console[i + 1].boot = console[i].boot
    /\ console # <<>> => console[Len(console)].boot = boots

\* Restarts ----------------------------------------------------------------
\* Boot t is the last that can have been counted: its lines still to come do not
\* tell of a restart.
CountedUpTo(t) ==
    /\ tracker.reboots <= t /\ t <= boots
    /\ \A i \in DOMAIN console :
          /\ t <= console[i].boot
          /\ console[i].boot = t =>
                /\ tracker.uptime <= console[i].uptime
                /\ console[i].body = "banner" => Empty(tracker)
    /\ t = boots => tracker.uptime <= clock - bootAt
RebootInv == \E t \in Nat : CountedUpTo(t)

\* While nothing is missed, all boots up to that of the last line are counted,
\* once the collector has heard of the first.
ExactInv ==
    ~missed =>
        /\ \A i \in DOMAIN console : console[i].boot = at =>
              /\ tracker.uptime <= console[i].uptime
              /\ console[i].body = "banner" => Empty(tracker)
        /\ at = boots => tracker.uptime <= clock - bootAt
        /\ console = <<>> => at = boots
        /\ console # <<>> => \/ console[1].boot = at
                             \/ console[1].boot = at + 1 /\ console[1].body = "banner"
        /\ attached =>
              /\ tracker.reboots = at
              /\ tracker.uptime = Nothing => console # <<>> /\ console[1].boot = at

\* Slots -------------------------------------------------------------------
\* The last line about a slot says who holds it now; without one the tracker does.
About(l, sl) == l.body = "banner" \/ (l.body \in {"register", "disconnect"} /\ l.slot = sl)
Says(l) == IF l.body = "register" THEN {l.phone} ELSE {}
Held(sl) == {ph \in Phone : session[ph] = sl}
OnePerSlot ==
    \A ph, other \in Phone : session[ph] = session[other] /\ ph # other => session[ph] = Nothing
Told(sl) ==
    /\ \A i \in DOMAIN console :
          /\ About(console[i], sl)
          /\ \A k \in DOMAIN console : k > i => ~About(console[k], sl)
          => Held(sl) = Says(console[i])
    /\ (\A i \in DOMAIN console : ~About(console[i], sl)) => Held(sl) = Holders(tracker, sl)
SlotInv == OnePerSlot /\ (~missed => \A sl \in Slot : Told(sl))

\* Numbers -----------------------------------------------------------------
\* With the first n lines of the console read, the last number known of a phone
\* in boot b is v.
Of(l, ph, b) == l.body = "fromnum" /\ l.phone = ph /\ l.boot = b
KnownSoFar(ph, b, n, v) ==
    /\ \A i \in 1 .. n :
          /\ Of(console[i], ph, b)
          /\ \A k \in i + 1 .. n : ~Of(console[k], ph, b)
          => v = console[i].seq
    /\ (\A i \in 1 .. n : ~Of(console[i], ph, b)) =>
          v = IF b = at THEN Heard(tracker, ph) ELSE Nothing

\* The number before each line in its session, which the history knows, is the
\* one the tracker will hold when it reads the line.
LinesKnown ==
    \A i \in DOMAIN console : console[i].body = "fromnum" =>
        KnownSoFar(console[i].phone, console[i].boot, i - 1, console[i].after)
PhonesKnown == \A ph \in Phone : KnownSoFar(ph, boots, Len(console), notified[ph])
NumberInv ==
    ~missed /\ ~resumed => LinesKnown /\ PhonesKnown /\ tracker.missed = skipped

\* Packets -----------------------------------------------------------------
OneStart == \E n \in Nat : Starts = {n}
FirstNumber == CHOOSE n \in Starts : TRUE
UpTo(ph, n, k) == \A m \in FirstNumber .. k : Packet(ph, n, m) \in made
InOrder(n, k, l) == n < l.session \/ (n = l.session /\ k < l.seq)

\* What is numbered has been made, from the first number of the session on; and
\* the lines of a phone come in the order of its sessions and numbers.
MadeSoFar ==
    /\ \A p \in made :
          /\ p.session <= sessions[p.phone]
          /\ p.session = sessions[p.phone] /\ session[p.phone] # Nothing
             => p.seq < number[p.phone]
    /\ \A ph \in Phone : session[ph] # Nothing =>
          FirstNumber <= number[ph] /\ UpTo(ph, sessions[ph], number[ph] - 1)
LinesInOrder ==
    /\ \A i \in DOMAIN console : console[i].body = "fromnum" =>
          /\ FirstNumber <= console[i].seq
          /\ UpTo(console[i].phone, console[i].session, console[i].seq)
    /\ \A i, j \in DOMAIN console :
          /\ i < j
          /\ console[i].body = "fromnum" /\ console[j].body = "fromnum"
          /\ console[i].phone = console[j].phone
          => InOrder(console[i].session, console[i].seq, console[j])
MadeInv == MadeSoFar /\ LinesInOrder

\* The packets charged: made, not notified, and behind what is still to be read.
Behind(p) ==
    /\ \A i \in DOMAIN console :
          console[i].body = "fromnum" /\ console[i].phone = p.phone =>
              /\ InOrder(p.session, p.seq, console[i])
              /\ p.session = console[i].session /\ Heard(tracker, p.phone) # Nothing
                 => p.seq <= Heard(tracker, p.phone)
    /\ p.session = sessions[p.phone] /\ Heard(tracker, p.phone) # Nothing
       => p.seq <= Heard(tracker, p.phone)
ChargeInv ==
    cuts = 0 =>
        /\ \A ph \in Phone : Heard(tracker, ph) # Nothing => FirstNumber <= Heard(tracker, ph)
        /\ read \subseteq made
        /\ \A p \in read : Behind(p)
        /\ \E charged \in SUBSET (made \ (read \cup Pending)) :
              /\ Cardinality(charged) = tracker.missed
              /\ \A p \in charged : Behind(p)
\* The operators of the tracker --------------------------------------------
\* Charged when number `seq' follows `prev'.
Charged(prev, seq) == IF prev = Nothing \/ seq <= prev THEN 0 ELSE seq - prev - 1

LEMMA KnownFate ==
    ASSUME NEW s, TrackerType(s), NEW ph \in Phone
    PROVE  LET t == Known(s, ph)
           IN  /\ TrackerType(t)
               /\ DOMAIN t.phones = DOMAIN s.phones \cup {ph}
               /\ \A q \in Phone : Heard(t, q) = Heard(s, q)
               /\ t.slots = s.slots /\ t.uptime = s.uptime /\ t.missed = s.missed
               /\ t.reboots = s.reboots
<1>1. CASE ph \in DOMAIN s.phones
  BY <1>1 DEF Known
<1>2. CASE ph \notin DOMAIN s.phones
  <2> DEFINE book == With(s.phones, ph, NewPhone)
  <2>1. /\ DOMAIN book = DOMAIN s.phones \cup {ph}
        /\ \A q \in DOMAIN s.phones : book[q] = s.phones[q]
        /\ book[ph] = NewPhone
    BY <1>2 DEF With
  <2>2. PhoneState(NewPhone) /\ NewPhone.seq = Nothing
    BY DEF NewPhone, PhoneState, Nothing
  <2>3. Known(s, ph) = [s EXCEPT !.phones = book]
    BY <1>2 DEF Known
  <2> HIDE DEF book
  <2> QED
    BY <1>2, <2>1, <2>2, <2>3 DEF TrackerType, Heard
<1> QED
  BY <1>1, <1>2

LEMMA FromnumFate ==
    ASSUME NEW s, TrackerType(s), NEW ph \in Phone, NEW seq \in Nat
    PROVE  LET t == NoteFromnum(s, ph, seq)
           IN  /\ TrackerType(t)
               /\ DOMAIN t.phones = DOMAIN s.phones \cup {ph}
               /\ t.slots = s.slots /\ t.uptime = s.uptime /\ t.reboots = s.reboots
               /\ \A q \in Phone : Heard(t, q) = IF q = ph THEN seq ELSE Heard(s, q)
               /\ t.missed = s.missed + Charged(Heard(s, ph), seq)
<1> DEFINE t == Known(s, ph)
           st == t.phones[ph]
           prev == st.seq
           n == Missing(prev, seq)
           heard == [st EXCEPT !.seq = seq, !.delivered = @ + 1]
           reset == [heard EXCEPT !.resets = @ + 1]
           gap == [heard EXCEPT !.gaps = @ + 1, !.missed = @ + n]
<1>1. /\ TrackerType(t) /\ DOMAIN t.phones = DOMAIN s.phones \cup {ph}
      /\ \A q \in Phone : Heard(t, q) = Heard(s, q)
      /\ t.slots = s.slots /\ t.uptime = s.uptime /\ t.reboots = s.reboots
      /\ t.missed = s.missed
  BY KnownFate
<1>2. prev \in Nat \cup {Nothing} /\ prev = Heard(s, ph) /\ PhoneState(st)
  BY <1>1 DEF TrackerType, PhoneState, Heard
<1>3. NoteFromnum(s, ph, seq) =
          IF prev # Nothing /\ seq < prev
          THEN [t EXCEPT !.phones[ph] = reset, !.sessionResets = @ + 1]
          ELSE IF prev # Nothing /\ n > 0
          THEN [t EXCEPT !.phones[ph] = gap, !.missed = @ + n]
          ELSE [t EXCEPT !.phones[ph] = heard]
  BY DEF NoteFromnum
<1>4. PhoneState(heard) /\ heard.seq = seq
  BY <1>2 DEF PhoneState
<1>5. PhoneState(reset) /\ reset.seq = seq
  <2> HIDE DEF heard
  <2> QED BY <1>4 DEF PhoneState
<1>6. n \in Nat => PhoneState(gap) /\ gap.seq = seq
  <2> HIDE DEF heard, n
  <2> QED BY <1>4 DEF PhoneState
<1> DEFINE Became(u, m) ==
        /\ TrackerType(u) /\ DOMAIN u.phones = DOMAIN t.phones
        /\ u.slots = t.slots /\ u.uptime = t.uptime /\ u.reboots = t.reboots
        /\ \A q \in Phone : Heard(u, q) = IF q = ph THEN seq ELSE Heard(t, q)
        /\ u.missed = m
<1> HIDE DEF t, st, prev, n, heard, reset, gap
<1>7. Became([t EXCEPT !.phones[ph] = heard], t.missed)
  BY <1>1, <1>4 DEF TrackerType, Heard
<1>8. Became([t EXCEPT !.phones[ph] = reset, !.sessionResets = @ + 1], t.missed)
  BY <1>1, <1>5 DEF TrackerType, Heard
<1>9. n \in Nat => Became([t EXCEPT !.phones[ph] = gap, !.missed = @ + n], t.missed + n)
  BY <1>1, <1>6 DEF TrackerType, Heard
<1> HIDE DEF Became
<1>10. Became(NoteFromnum(s, ph, seq), t.missed + Charged(prev, seq))
  <2>1. t.missed + 0 = t.missed
    BY <1>1 DEF TrackerType
  <2>2. CASE prev # Nothing /\ seq < prev
    <3>1. Charged(prev, seq) = 0
      BY <1>2, <2>2 DEF Charged
    <3> QED
      BY <1>3, <1>8, <2>1, <2>2, <3>1
  <2>3. CASE prev # Nothing /\ seq >= prev /\ n > 0
    <3>1. Charged(prev, seq) = n /\ n \in Nat
      BY <1>2, <2>3 DEF Charged, Missing, n
    <3>2. ~(seq < prev)
      BY <1>2, <2>3
    <3> QED
      BY <1>3, <1>9, <2>3, <3>1, <3>2
  <2>4. CASE prev = Nothing \/ (seq >= prev /\ ~(n > 0))
    <3>1. Charged(prev, seq) = 0
      BY <1>2, <2>4 DEF Charged, Missing, n
    <3>2. ~(prev # Nothing /\ seq < prev)
      BY <1>2, <2>4
    <3> QED
      BY <1>3, <1>7, <2>1, <2>4, <3>1, <3>2
  <2> QED
    BY <1>2, <2>2, <2>3, <2>4
<1> QED
  BY <1>1, <1>2, <1>10 DEF Became

LEMMA DispatchedFate ==
    ASSUME NEW s, TrackerType(s), NEW l, Names(l)
    PROVE  LET t == Dispatched(s, l)
           IN  /\ TrackerType(t)
               /\ t.uptime = s.uptime /\ t.reboots = s.reboots
               /\ \A q \in Phone : Heard(t, q) =
                     IF l.body = "fromnum" /\ l.phone = q THEN l.seq ELSE Heard(s, q)
               /\ \A sl \in Slot : Holders(t, sl) =
                     IF l.body \in {"register", "disconnect"} /\ l.slot = sl THEN Says(l)
                     ELSE Holders(s, sl)
               /\ t.missed = s.missed + IF l.body = "fromnum"
                                       THEN Charged(Heard(s, l.phone), l.seq) ELSE 0
               /\ (\A sl \in DOMAIN s.slots : s.slots[sl] \in DOMAIN s.phones) =>
                   \A sl \in DOMAIN t.slots : t.slots[sl] \in DOMAIN t.phones
<1> DEFINE t == Dispatched(s, l)
<1>1. l \in LineType /\ s.missed + 0 = s.missed
  BY DEF Names, TrackerType
<1>2. CASE l.body = "fromnum"
  <2>1. t = NoteFromnum(s, l.phone, l.seq) /\ l.phone \in Phone /\ l.seq \in Nat
    BY <1>2, <1>1 DEF Dispatched, Names, LineType
  <2> HIDE DEF t
  <2>2. /\ TrackerType(t)
        /\ DOMAIN t.phones = DOMAIN s.phones \cup {l.phone}
        /\ t.slots = s.slots /\ t.uptime = s.uptime /\ t.reboots = s.reboots
        /\ \A q \in Phone : Heard(t, q) = IF q = l.phone THEN l.seq ELSE Heard(s, q)
        /\ t.missed = s.missed + Charged(Heard(s, l.phone), l.seq)
    BY <2>1, FromnumFate
  <2>3. \A sl \in Slot : Holders(t, sl) = Holders(s, sl)
    BY <2>2 DEF Holders
  <2> QED
    BY <2>2, <2>3, <1>2 DEF t
<1>3. CASE l.body = "register"
  <2> DEFINE u == Known(s, l.phone)
             slots == With(u.slots, l.slot, l.phone)
  <2>1. t = [u EXCEPT !.slots = slots] /\ l.phone \in Phone /\ l.slot \in Slot
    BY <1>3 DEF Dispatched, Names
  <2>2. /\ TrackerType(u) /\ DOMAIN u.phones = DOMAIN s.phones \cup {l.phone}
        /\ \A q \in Phone : Heard(u, q) = Heard(s, q)
        /\ u.slots = s.slots /\ u.uptime = s.uptime /\ u.missed = s.missed
        /\ u.reboots = s.reboots
    BY <2>1, KnownFate
  <2>3. /\ DOMAIN slots = DOMAIN s.slots \cup {l.slot}
        /\ \A sl \in DOMAIN slots :
              slots[sl] = IF sl = l.slot THEN l.phone ELSE s.slots[sl]
    BY <2>2 DEF With
  <2> HIDE DEF u, slots, t
  <2>4. /\ TrackerType(t) /\ t.phones = u.phones /\ t.slots = slots
        /\ t.uptime = u.uptime /\ t.missed = u.missed /\ t.reboots = u.reboots
    <3>1. DOMAIN slots \subseteq Slot /\ \A sl \in DOMAIN slots : slots[sl] \in Phone
      BY <2>1, <2>3 DEF TrackerType
    <3> QED BY <2>1, <2>2, <3>1 DEF TrackerType
  <2>5. \A q \in Phone : Heard(t, q) = Heard(s, q)
    BY <2>2, <2>4 DEF Heard
  <2>6. \A sl \in Slot : Holders(t, sl) = IF l.slot = sl THEN {l.phone} ELSE Holders(s, sl)
    BY <2>3, <2>4 DEF Holders
  <2>7. (\A sl \in DOMAIN s.slots : s.slots[sl] \in DOMAIN s.phones) =>
            \A sl \in DOMAIN t.slots : t.slots[sl] \in DOMAIN t.phones
    BY <2>2, <2>3, <2>4
  <2> QED BY <1>1, <1>3, <2>2, <2>4, <2>5, <2>6, <2>7 DEF Says, t
<1>4. CASE l.body = "disconnect"
  <2> DEFINE slots == Restrict(s.slots, DOMAIN s.slots \ {l.slot})
  <2>1. t = [s EXCEPT !.slots = slots]
    BY <1>4 DEF Dispatched
  <2>2. /\ DOMAIN slots = DOMAIN s.slots \ {l.slot}
        /\ \A sl \in DOMAIN slots : slots[sl] = s.slots[sl]
    BY DEF Restrict
  <2> HIDE DEF slots, t
  <2>3. /\ TrackerType(t) /\ t.phones = s.phones /\ t.slots = slots
        /\ t.uptime = s.uptime /\ t.missed = s.missed /\ t.reboots = s.reboots
    BY <2>1, <2>2 DEF TrackerType
  <2>4. \A q \in Phone : Heard(t, q) = Heard(s, q)
    BY <2>3 DEF Heard
  <2>5. \A sl \in Slot : Holders(t, sl) = IF l.slot = sl THEN {} ELSE Holders(s, sl)
    BY <2>2, <2>3 DEF Holders
  <2>6. (\A sl \in DOMAIN s.slots : s.slots[sl] \in DOMAIN s.phones) =>
            \A sl \in DOMAIN t.slots : t.slots[sl] \in DOMAIN t.phones
    BY <2>2, <2>3
  <2> QED BY <1>1, <1>4, <2>3, <2>4, <2>5, <2>6 DEF Says, t
<1>5. CASE l.body \notin {"fromnum", "register", "disconnect"}
  <2>1. t = s
    BY <1>5 DEF Dispatched
  <2> QED BY <1>1, <1>5, <2>1
<1> QED BY <1>2, <1>3, <1>4, <1>5

\* The uptime falls at line l: all that was known is forgotten first.
Falls(s, l) == l.uptime < s.uptime
HeardAt(s, l, ph) == IF Falls(s, l) THEN Nothing ELSE Heard(s, ph)

\* State t is s after line l.
FedTo(s, l, t) ==
    IF l.body = "banner"
    THEN /\ Empty(t) /\ t.missed = s.missed
         /\ t.reboots = IF Empty(s) THEN s.reboots ELSE s.reboots + 1
    ELSE /\ t.uptime = l.uptime
         /\ t.reboots = IF Falls(s, l) THEN s.reboots + 1 ELSE s.reboots
         /\ \A q \in Phone : Heard(t, q) =
               IF l.body = "fromnum" /\ l.phone = q THEN l.seq ELSE HeardAt(s, l, q)
         /\ \A sl \in Slot : Holders(t, sl) =
               IF l.body \in {"register", "disconnect"} /\ l.slot = sl THEN Says(l)
               ELSE IF Falls(s, l) THEN {} ELSE Holders(s, sl)
         /\ t.missed = s.missed + IF l.body = "fromnum"
                                 THEN Charged(HeardAt(s, l, l.phone), l.seq) ELSE 0

LEMMA BootFate ==
    ASSUME NEW s, TrackerType(s)
    PROVE  LET t == NoteBoot(s)
           IN  /\ TrackerType(t) /\ Empty(t) /\ t.missed = s.missed
               /\ t.reboots = IF Empty(s) THEN s.reboots ELSE s.reboots + 1
<1> DEFINE b == [s EXCEPT !.banners = @ + 1]
           f == Forgotten(b)
<1>1. /\ TrackerType(b) /\ b.phones = s.phones /\ b.slots = s.slots
      /\ b.uptime = s.uptime /\ b.missed = s.missed /\ b.reboots = s.reboots
  BY DEF TrackerType
<1>2. NoteBoot(s) = IF Empty(s) THEN b ELSE [f EXCEPT !.uptime = Nothing]
  BY DEF NoteBoot, Empty
<1> HIDE DEF b
<1>3. /\ TrackerType(f) /\ f.missed = s.missed /\ f.reboots = s.reboots + 1
      /\ DOMAIN f.phones = {} /\ DOMAIN f.slots = {}
  BY <1>1 DEF Forgotten, TrackerType, NoPhones, NoSlots
<1> HIDE DEF f
<1>4. /\ TrackerType([f EXCEPT !.uptime = Nothing])
      /\ Empty([f EXCEPT !.uptime = Nothing])
      /\ [f EXCEPT !.uptime = Nothing].missed = s.missed
      /\ [f EXCEPT !.uptime = Nothing].reboots = s.reboots + 1
  BY <1>3 DEF TrackerType, Empty
<1>5. Empty(s) => Empty(b)
  BY <1>1 DEF Empty
<1> QED BY <1>1, <1>2, <1>4, <1>5

LEMMA UptimeFate ==
    ASSUME NEW s, TrackerType(s), NEW l \in LineType
    PROVE  LET t == NoteUptime(s, l.uptime)
           IN  /\ TrackerType(t) /\ t.uptime = l.uptime /\ t.missed = s.missed
               /\ t.reboots = IF Falls(s, l) THEN s.reboots + 1 ELSE s.reboots
               /\ \A q \in Phone : Heard(t, q) = HeardAt(s, l, q)
               /\ \A sl \in Slot : Holders(t, sl) = IF Falls(s, l) THEN {} ELSE Holders(s, sl)
               /\ (\A sl \in DOMAIN s.slots : s.slots[sl] \in DOMAIN s.phones) =>
                   \A sl \in DOMAIN t.slots : t.slots[sl] \in DOMAIN t.phones
<1> DEFINE t == NoteUptime(s, l.uptime)
           f == Forgotten(s)
<1>1. l.uptime \in Nat /\ s.uptime \in Int
  BY DEF LineType, TrackerType, Nothing
<1>2. CASE ~Falls(s, l)
  <2>1. t = [s EXCEPT !.uptime = l.uptime]
    BY <1>1, <1>2 DEF NoteUptime, Falls
  <2> HIDE DEF t
  <2>2. TrackerType(t) /\ t.uptime = l.uptime /\ t.missed = s.missed /\ t.reboots = s.reboots
        /\ t.phones = s.phones /\ t.slots = s.slots
    BY <1>1, <2>1 DEF TrackerType
  <2> QED BY <1>2, <2>2 DEF Heard, HeardAt, Holders, t
<1>3. CASE Falls(s, l)
  <2>1. t = [f EXCEPT !.uptime = l.uptime]
    BY <1>1, <1>3 DEF NoteUptime, Falls
  <2>2. /\ TrackerType(f) /\ f.missed = s.missed /\ f.reboots = s.reboots + 1
        /\ DOMAIN f.phones = {} /\ DOMAIN f.slots = {}
    BY DEF Forgotten, TrackerType, NoPhones, NoSlots
  <2> HIDE DEF t, f
  <2>3. TrackerType(t) /\ t.uptime = l.uptime /\ t.missed = s.missed
        /\ t.reboots = s.reboots + 1 /\ DOMAIN t.phones = {} /\ DOMAIN t.slots = {}
    BY <1>1, <2>1, <2>2 DEF TrackerType
  <2> QED BY <1>3, <2>3 DEF Heard, HeardAt, Holders, t
<1> QED BY <1>2, <1>3

LEMMA IdledFate ==
    ASSUME NEW s, TrackerType(s), NEW now \in Nat
    PROVE  LET t == Idled(s, now)
           IN  /\ TrackerType(t)
               /\ t.phones = s.phones /\ t.slots = s.slots /\ t.uptime = s.uptime
               /\ t.missed = s.missed /\ t.reboots = s.reboots
<1>1. now + Every \in Nat
  BY PbxAssumption
<1> QED BY <1>1 DEF Idled, TrackerType

\* What a line, whole or what a cut left of it, does to the tracker.
LEMMA FedFate ==
    ASSUME NEW s, TrackerType(s), BooksAgree(s), NEW l, Names(l), NEW now \in Nat
    PROVE  LET t == Fed(s, l, now)
           IN  TrackerType(t) /\ BooksAgree(t) /\ FedTo(s, l, t)
<1> DEFINE t == Fed(s, l, now)
           u == NoteUptime(s, l.uptime)
           d == Dispatched(u, l)
<1>1. l \in LineType
  BY DEF Names
<1>2. CASE l.body = "banner"
  <2>1. t = NoteBoot(s)
    BY <1>2 DEF Fed
  <2> HIDE DEF t
  <2>2. TrackerType(t) /\ Empty(t) /\ t.missed = s.missed
        /\ t.reboots = IF Empty(s) THEN s.reboots ELSE s.reboots + 1
    BY <2>1, BootFate
  <2> QED BY <1>2, <2>2 DEF FedTo, BooksAgree, Empty, t
<1>3. CASE l.body # "banner"
  <2>1. t = Idled(d, now)
    BY <1>3 DEF Fed
  <2>2. /\ TrackerType(u) /\ u.uptime = l.uptime /\ u.missed = s.missed
        /\ u.reboots = IF Falls(s, l) THEN s.reboots + 1 ELSE s.reboots
        /\ \A q \in Phone : Heard(u, q) = HeardAt(s, l, q)
        /\ \A sl \in Slot : Holders(u, sl) = IF Falls(s, l) THEN {} ELSE Holders(s, sl)
        /\ \A sl \in DOMAIN u.slots : u.slots[sl] \in DOMAIN u.phones
    BY <1>1, UptimeFate DEF BooksAgree
  <2> HIDE DEF u
  <2>3. /\ TrackerType(d)
        /\ d.uptime = u.uptime /\ d.reboots = u.reboots
        /\ \A q \in Phone : Heard(d, q) =
              IF l.body = "fromnum" /\ l.phone = q THEN l.seq ELSE Heard(u, q)
        /\ \A sl \in Slot : Holders(d, sl) =
              IF l.body \in {"register", "disconnect"} /\ l.slot = sl THEN Says(l)
              ELSE Holders(u, sl)
        /\ d.missed = u.missed + IF l.body = "fromnum"
                                THEN Charged(Heard(u, l.phone), l.seq) ELSE 0
        /\ \A sl \in DOMAIN d.slots : d.slots[sl] \in DOMAIN d.phones
    BY <2>2, DispatchedFate
  <2> HIDE DEF d, t
  <2>4. /\ TrackerType(t)
        /\ t.phones = d.phones /\ t.slots = d.slots /\ t.uptime = d.uptime
        /\ t.missed = d.missed /\ t.reboots = d.reboots
    BY <2>1, <2>3, IdledFate
  <2>5. /\ \A q \in Phone : Heard(t, q) = Heard(d, q)
        /\ \A sl \in Slot : Holders(t, sl) = Holders(d, sl)
    BY <2>4 DEF Heard, Holders
  <2>6. t.uptime \in Nat /\ BooksAgree(t)
    BY <1>1, <2>2, <2>3, <2>4 DEF BooksAgree, LineType, Nothing
  <2>7. l.body = "fromnum" => Heard(u, l.phone) = HeardAt(s, l, l.phone)
    BY <2>2 DEF Names
  <2>8. FedTo(s, l, t)
    BY <1>3, <2>2, <2>3, <2>4, <2>5, <2>7 DEF FedTo
  <2> QED BY <2>4, <2>6, <2>8 DEF t
<1> QED BY <1>2, <1>3

\* The lines of the PBX ------------------------------------------------------
BootLine(body)    == [Line(body) EXCEPT !.uptime = 0, !.boot = boots']
BootLines         == <<BootLine("banner"), BootLine("banner"), BootLine("other")>>
RegisterLine(ph, sl) == [Line("register") EXCEPT !.phone = ph, !.slot = sl]
LeaveLine(ph)     == [Line("disconnect") EXCEPT !.slot = session[ph]]
NumberLine(ph)    == [Line("fromnum") EXCEPT !.phone = ph, !.seq = number[ph],
                                             !.session = sessions[ph],
                                             !.after = notified[ph]]

\* A line of the present boot.
Current(l) ==
    /\ LineOK(l) /\ l.body # "banner" /\ ~l.cut
    /\ l.boot = boots /\ l.uptime = clock - bootAt

LEMMA LineIs ==
    ASSUME TypeInv, NEW body \in {"register", "fromnum", "disconnect", "other", "banner"}
    PROVE  /\ Line(body) \in LineType /\ Line(body).body = body
           /\ Line(body).boot = boots /\ Line(body).uptime = clock - bootAt
           /\ Line(body).cut = FALSE /\ Line(body).after = Nothing
<1>1. clock - bootAt \in Nat
  BY DEF TypeInv
<1> QED BY <1>1 DEF Line, LineType, TypeInv, Nothing

LEMMA OtherLineIs ==
    ASSUME TypeInv
    PROVE  Current(Line("other")) /\ Line("other").body = "other"
BY LineIs DEF Current, LineOK, Names

LEMMA RegisterLineIs ==
    ASSUME TypeInv, NEW ph \in Phone, NEW sl \in Slot
    PROVE  LET l == RegisterLine(ph, sl)
           IN  Current(l) /\ l.body = "register" /\ l.phone = ph /\ l.slot = sl
<1> DEFINE k == Line("register")
<1>1. /\ k \in LineType /\ k.body = "register" /\ k.boot = boots /\ k.uptime = clock - bootAt
      /\ k.cut = FALSE /\ k.after = Nothing
  BY LineIs
<1> HIDE DEF k
<1> DEFINE l == [k EXCEPT !.phone = ph, !.slot = sl]
<1>2. l \in LineType /\ l.body = "register" /\ l.phone = ph /\ l.slot = sl
      /\ l.boot = boots /\ l.uptime = clock - bootAt /\ l.cut = FALSE /\ l.after = Nothing
  BY <1>1 DEF LineType
<1>3. l = RegisterLine(ph, sl)
  BY DEF RegisterLine, k
<1> HIDE DEF l
<1> QED BY <1>2, <1>3 DEF Current, LineOK, Names

LEMMA LeaveLineIs ==
    ASSUME TypeInv, NEW ph \in Phone, session[ph] # Nothing
    PROVE  LET l == LeaveLine(ph)
           IN  Current(l) /\ l.body = "disconnect" /\ l.slot = session[ph]
<1> DEFINE k == Line("disconnect")
<1>1. /\ k \in LineType /\ k.body = "disconnect" /\ k.boot = boots /\ k.uptime = clock - bootAt
      /\ k.cut = FALSE /\ k.after = Nothing
  BY LineIs
<1>2. session[ph] \in Slot
  BY DEF TypeInv
<1> HIDE DEF k
<1> DEFINE l == [k EXCEPT !.slot = session[ph]]
<1>3. l \in LineType /\ l.body = "disconnect" /\ l.slot = session[ph]
      /\ l.boot = boots /\ l.uptime = clock - bootAt /\ l.cut = FALSE /\ l.after = Nothing
  BY <1>1, <1>2 DEF LineType
<1>4. l = LeaveLine(ph)
  BY DEF LeaveLine, k
<1> HIDE DEF l
<1> QED BY <1>2, <1>3, <1>4 DEF Current, LineOK, Names

LEMMA NumberLineIs ==
    ASSUME TypeInv, NEW ph \in Phone
    PROVE  LET l == NumberLine(ph)
           IN  /\ Current(l) /\ l.body = "fromnum" /\ l.phone = ph /\ l.seq = number[ph]
               /\ l.session = sessions[ph] /\ l.after = notified[ph]
<1> DEFINE k == Line("fromnum")
<1>1. /\ k \in LineType /\ k.body = "fromnum" /\ k.boot = boots /\ k.uptime = clock - bootAt
      /\ k.cut = FALSE /\ k.after = Nothing
  BY LineIs
<1>2. /\ number[ph] \in Nat /\ sessions[ph] \in Nat /\ notified[ph] \in Nat \cup {Nothing}
      /\ notified[ph] < number[ph]
  BY DEF TypeInv, Nothing
<1> HIDE DEF k
<1> DEFINE l == [k EXCEPT !.phone = ph, !.seq = number[ph], !.session = sessions[ph],
                          !.after = notified[ph]]
<1>3. l \in LineType /\ l.body = "fromnum" /\ l.phone = ph /\ l.seq = number[ph]
      /\ l.boot = boots /\ l.uptime = clock - bootAt /\ l.cut = FALSE
      /\ l.session = sessions[ph] /\ l.after = notified[ph]
  BY <1>1, <1>2 DEF LineType
<1>4. l = NumberLine(ph)
  BY DEF NumberLine, k
<1> HIDE DEF l
<1> QED BY <1>2, <1>3, <1>4 DEF Current, LineOK, Names

LEMMA BootLineIs ==
    ASSUME TypeInv, boots' = boots + 1, NEW body \in {"banner", "other"}
    PROVE  LET l == BootLine(body)
           IN  /\ LineOK(l) /\ l.body = body /\ l.cut = FALSE
               /\ l.boot = boots + 1 /\ l.uptime = 0
<1> DEFINE k == Line(body)
<1>1. k \in LineType /\ k.body = body /\ k.cut = FALSE /\ k.after = Nothing
  BY LineIs
<1>2. boots' \in Nat
  BY DEF TypeInv
<1> HIDE DEF k
<1> DEFINE l == [k EXCEPT !.uptime = 0, !.boot = boots']
<1>3. l \in LineType /\ l.body = body /\ l.boot = boots + 1 /\ l.uptime = 0
      /\ l.cut = FALSE /\ l.after = Nothing
  BY <1>1, <1>2 DEF LineType
<1>4. l = BootLine(body)
  BY DEF BootLine, k
<1> HIDE DEF l
<1> QED BY <1>3, <1>4 DEF LineOK, Names

\* Steps of the console -----------------------------------------------------
\* Lines are queued, or lost while the port is closed.
Printed(lines) ==
    /\ port' = port /\ cuts' = cuts
    /\ \/ port = "open" /\ console' = console \o lines /\ missed' = missed
       \/ port = "closed" /\ console' = console /\ missed'

LEMMA PrintsIs ==
    ASSUME ConsoleInv, NEW lines, Prints(lines)
    PROVE  Printed(lines)
BY DEF ConsoleInv, Prints, Printed

LEMMA JoinedIs ==
    ASSUME NEW c \in Seq(LineType), NEW d \in Seq(LineType)
    PROVE  /\ c \o d \in Seq(LineType) /\ Len(c \o d) = Len(c) + Len(d)
           /\ Len(c) \in Nat /\ Len(d) \in Nat
           /\ DOMAIN c = 1 .. Len(c) /\ DOMAIN d = 1 .. Len(d)
           /\ DOMAIN (c \o d) = 1 .. Len(c) + Len(d)
           /\ \A i \in DOMAIN (c \o d) :
                 (c \o d)[i] = IF i <= Len(c) THEN c[i] ELSE d[i - Len(c)]
OBVIOUS

LEMMA TailIs ==
    ASSUME NEW c \in Seq(LineType), c # <<>>
    PROVE  /\ Tail(c) \in Seq(LineType) /\ Len(Tail(c)) = Len(c) - 1
           /\ Len(c) \in Nat /\ Len(c) > 0 /\ Head(c) \in LineType /\ Head(c) = c[1]
           /\ DOMAIN c = 1 .. Len(c) /\ DOMAIN Tail(c) = 1 .. Len(c) - 1
           /\ \A i \in DOMAIN Tail(c) : i + 1 \in DOMAIN c /\ Tail(c)[i] = c[i + 1]
OBVIOUS

\* What a cut leaves alone.
SameButCut(l, k) ==
    /\ l.body = k.body /\ l.phone = k.phone /\ l.slot = k.slot /\ l.seq = k.seq
    /\ l.uptime = k.uptime /\ l.boot = k.boot /\ l.session = k.session /\ l.after = k.after

LEMMA CutIs ==
    ASSUME NEW c \in Seq(LineType), NEW k \in DOMAIN c
    PROVE  LET d == [c EXCEPT ![k].cut = TRUE]
           IN  /\ d \in Seq(LineType) /\ Len(d) = Len(c) /\ DOMAIN d = DOMAIN c
               /\ \A i \in DOMAIN c : SameButCut(d[i], c[i])
<1> DEFINE l == [c[k] EXCEPT !.cut = TRUE]
           d == [c EXCEPT ![k] = l]
<1>1. c[k] \in LineType
  OBVIOUS
<1>2. l \in LineType /\ SameButCut(l, c[k])
  BY <1>1 DEF LineType, SameButCut
<1> HIDE DEF l
<1>3. d \in Seq(LineType) /\ Len(d) = Len(c) /\ DOMAIN d = DOMAIN c
  BY <1>2
<1>4. \A i \in DOMAIN c : d[i] = IF i = k THEN l ELSE c[i]
  BY <1>2
<1> QED BY <1>2, <1>3, <1>4 DEF l, SameButCut

\* The kinds of step: nothing happens to the lines, or one is added, or a boot is;
\* or they are all lost; or one is cut; or one is read.
Steady == boots' = boots /\ bootAt' = bootAt /\ tracker' = tracker /\ at' = at
          /\ attached' = attached
Still ==
    /\ boots' = boots /\ bootAt' = bootAt /\ at' = at /\ attached' = attached
    /\ clock' \in Nat /\ clock <= clock'
    /\ console' = console /\ missed' = missed /\ cuts' = cuts
    /\ port' \in {"open", "closed"} /\ (port' = "closed" => console = <<>>)
    /\ tracker' = tracker \/ tracker' = Idled(tracker, clock)
    /\ UNCHANGED <<session, notified, sessions, fresh, resumed, skipped, read>>
    /\ \/ UNCHANGED <<number, made>>
       \/ \E ph \in Phone : Deliver(ph)
Speaks(l) ==
    \/ Chatter /\ l = Line("other")
    \/ \E ph \in Phone : Disconnect(ph) /\ l = LeaveLine(ph)
    \/ \E ph \in Phone, sl \in Slot : Register(ph, sl) /\ l = RegisterLine(ph, sl)
    \/ \E ph \in Phone : /\ Deliver(ph) /\ l = NumberLine(ph)
                         /\ notified' = [notified EXCEPT ![ph] = number[ph]]
Says1(l) == Current(l) /\ Speaks(l) /\ Printed(<<l>>) /\ Steady /\ clock' = clock
Boots ==
    /\ Reboot
    /\ boots' = boots + 1 /\ bootAt' = clock /\ clock' = clock
    /\ tracker' = tracker /\ at' = at /\ attached' = attached
    /\ Printed(BootLines)
Drops ==
    /\ Steady /\ UNCHANGED <<clock, pbx, history>> /\ port' = "closed" /\ console' = <<>>
    /\ missed' = (missed \/ console # <<>>) /\ cuts' = cuts
Cuts ==
    /\ Steady /\ UNCHANGED <<clock, pbx, history>> /\ port' = port /\ missed' /\ cuts' = cuts + 1
    /\ \E k \in DOMAIN console : console' = [console EXCEPT ![k].cut = TRUE]

LEMMA StepIs ==
    ASSUME TypeInv, ConsoleInv, [Next]_vars
    PROVE  Still \/ (\E l : Says1(l)) \/ Boots \/ Drops \/ Cuts \/ FeedLine
<1> USE DEF Steady
<1>1. CASE UNCHANGED vars
  BY <1>1 DEF vars, pbx, history, reader, Still, TypeInv, ConsoleInv
<1>2. CASE Tick
  BY <1>2 DEF Tick, pbx, history, reader, Still, TypeInv, ConsoleInv
<1>3. ASSUME NEW ph \in Phone, Deliver(ph)
      PROVE  Still \/ \E l : Says1(l)
  <2>1. CASE UNCHANGED <<reader, notified>>
    <3>1. /\ UNCHANGED <<port, console, missed, cuts, clock, boots, bootAt, at, attached, tracker>>
          /\ UNCHANGED <<session, notified, sessions, fresh, resumed, skipped, read>>
      BY <1>3, <2>1 DEF Deliver, reader
    <3>2. clock \in Nat /\ clock <= clock /\ port \in {"open", "closed"}
          /\ (port = "closed" => console = <<>>)
      BY DEF TypeInv, ConsoleInv
    <3>3. \E p \in Phone : Deliver(p)
      BY <1>3
    <3> QED BY <3>1, <3>2, <3>3 DEF Still
  <2>2. CASE Prints(<<NumberLine(ph)>>) /\ notified' = [notified EXCEPT ![ph] = number[ph]]
    <3>1. Current(NumberLine(ph)) /\ Printed(<<NumberLine(ph)>>)
      BY <2>2, NumberLineIs, PrintsIs
    <3>2. Steady /\ clock' = clock
      BY <1>3 DEF Deliver
    <3>3. Speaks(NumberLine(ph))
      BY <1>3, <2>2 DEF Speaks
    <3> QED BY <3>1, <3>2, <3>3 DEF Says1
  <2> QED BY <1>3, <2>1, <2>2 DEF Deliver, NumberLine
<1>4. ASSUME NEW ph \in Phone, Disconnect(ph)
      PROVE  \E l : Says1(l)
  <2>1. Current(LeaveLine(ph)) /\ Prints(<<LeaveLine(ph)>>)
    BY <1>4, LeaveLineIs DEF Disconnect, LeaveLine
  <2>2. Speaks(LeaveLine(ph))
    BY <1>4 DEF Speaks
  <2>3. Says1(LeaveLine(ph))
    BY <1>4, <2>1, <2>2, PrintsIs DEF Disconnect, Says1, history
  <2> QED BY <2>3
<1>5. ASSUME NEW ph \in Phone, NEW sl \in Slot, Register(ph, sl)
      PROVE  \E l : Says1(l)
  <2>1. Current(RegisterLine(ph, sl)) /\ Prints(<<RegisterLine(ph, sl)>>)
    BY <1>5, RegisterLineIs DEF Register, RegisterLine
  <2>2. Speaks(RegisterLine(ph, sl))
    BY <1>5 DEF Speaks
  <2>3. Says1(RegisterLine(ph, sl))
    BY <1>5, <2>1, <2>2, PrintsIs DEF Register, Says1
  <2> QED BY <2>3
<1>6. CASE Chatter
  <2>1. Speaks(Line("other"))
    BY <1>6 DEF Speaks
  <2>2. Says1(Line("other"))
    BY <1>6, <2>1, OtherLineIs, PrintsIs DEF Chatter, Says1, pbx, history
  <2> QED BY <2>2
<1>7. CASE Reboot
  <2>1. Prints(BootLines)
    BY <1>7 DEF Reboot, BootLines, BootLine
  <2>2. /\ boots' = boots + 1 /\ bootAt' = clock /\ clock' = clock
        /\ tracker' = tracker /\ at' = at /\ attached' = attached
    BY <1>7 DEF Reboot
  <2> QED BY <1>7, <2>1, <2>2, PrintsIs DEF Boots
<1>8. CASE FeedNone
  BY <1>8 DEF FeedNone, IdleTick, pbx, history, reader, Still, TypeInv, ConsoleInv
<1>9. CASE Port
  <2>1. CASE Opens \/ OpenFails
    BY <1>9, <2>1 DEF Port, Opens, OpenFails, pbx, history, reader, Still, TypeInv, ConsoleInv
  <2>2. CASE ReadFails
    BY <1>9, <2>2 DEF Port, ReadFails, pbx, history, Drops
  <2>3. CASE Cut
    BY <1>9, <2>3 DEF Port, Cut, pbx, history, Cuts
  <2> QED BY <1>9, <2>1, <2>2, <2>3 DEF Port
<1> QED BY <1>1, <1>2, <1>3, <1>4, <1>5, <1>6, <1>7, <1>8, <1>9 DEF Next, PbxStep

\* A line read, or what is left of one that was cut.
Remains(l, k) ==
    /\ Names(k) /\ k.uptime = l.uptime /\ (k.body = "banner" <=> l.body = "banner")
    /\ k = l \/ l.cut
Reads(l) ==
    /\ console # <<>> /\ l = console[1] /\ LineOK(l)
    /\ console' = Tail(console) /\ port = "open" /\ port' = port
    /\ missed' = missed /\ cuts' = cuts /\ clock' = clock /\ boots' = boots /\ bootAt' = bootAt
    /\ at' = l.boot /\ attached' = (attached \/ (l.body # "banner" /\ ~l.cut /\ boots = 0))
    /\ TrackerType(tracker') /\ BooksAgree(tracker')
    /\ \/ l.cut /\ tracker' = tracker
       \/ \E k : Remains(l, k) /\ FedTo(tracker, k, tracker')

LEMMA FeedLineIs ==
    ASSUME TypeInv, ConsoleInv, FeedLine
    PROVE  Reads(console[1])
<1> DEFINE l == console[1]
<1>1. console # <<>> /\ console \in Seq(LineType) /\ console' = Tail(console)
      /\ Head(console) = l /\ LineOK(l) /\ port = "open" /\ port' = port
      /\ missed' = missed /\ cuts' = cuts
  BY TailIs DEF FeedLine, ReadsLine, ConsoleInv
<1>2. /\ clock' = clock /\ boots' = boots /\ bootAt' = bootAt /\ at' = l.boot
      /\ attached' = (attached \/ (l.body # "banner" /\ ~l.cut /\ boots = 0))
      /\ tracker' \in IF l.cut THEN FedCut(tracker, l, clock) ELSE {Fed(tracker, l, clock)}
  BY <1>1 DEF FeedLine, pbx
<1> HIDE DEF l
<1>3. Names(l) /\ l \in LineType /\ l.cut \in BOOLEAN /\ TrackerType(tracker)
      /\ BooksAgree(tracker) /\ clock \in Nat
  BY <1>1 DEF LineOK, Names, LineType, TypeInv
<1> DEFINE After(k) == /\ TrackerType(tracker') /\ BooksAgree(tracker')
                       /\ FedTo(tracker, k, tracker')
<1>4. ASSUME NEW k, Names(k), tracker' = Fed(tracker, k, clock)
      PROVE  After(k)
  BY <1>3, <1>4, FedFate
<1>5. /\ TrackerType(tracker') /\ BooksAgree(tracker')
      /\ \/ l.cut /\ tracker' = tracker
         \/ \E k : Remains(l, k) /\ FedTo(tracker, k, tracker')
  <2>1. CASE tracker' = Fed(tracker, l, clock)
    BY <1>3, <1>4, <2>1 DEF Remains
  <2>2. CASE l.cut /\ tracker' = tracker
    BY <1>3, <2>2
  <2>3. CASE l.cut /\ l.body = "banner" /\ tracker' = NoteBoot(tracker)
    BY <2>1, <2>3 DEF Fed
  <2>4. CASE l.cut /\ l.body # "banner"
             /\ tracker' = Idled(NoteUptime(tracker, l.uptime), clock)
    <3> DEFINE k == [l EXCEPT !.body = "other"]
    <3>1. k \in LineType /\ k.body = "other" /\ k.uptime = l.uptime
      BY <1>3 DEF LineType
    <3> HIDE DEF k
    <3>2. Remains(l, k)
      BY <2>4, <3>1 DEF Remains, Names
    <3>3. Dispatched(NoteUptime(tracker, k.uptime), k) = NoteUptime(tracker, k.uptime)
      BY <3>1 DEF Dispatched
    <3>4. tracker' = Fed(tracker, k, clock)
      BY <2>4, <3>1, <3>3 DEF Fed
    <3> QED BY <1>4, <3>2, <3>4 DEF Remains
  <2>5. ASSUME NEW n \in 0 .. l.seq - 1, l.cut, l.body = "fromnum",
               tracker' = Fed(tracker, [l EXCEPT !.seq = n], clock)
        PROVE  /\ TrackerType(tracker') /\ BooksAgree(tracker')
               /\ \E k : Remains(l, k) /\ FedTo(tracker, k, tracker')
    <3> DEFINE k == [l EXCEPT !.seq = n]
    <3>1. n \in Nat
      BY <1>3 DEF LineType
    <3>2. k \in LineType /\ k.body = "fromnum" /\ k.uptime = l.uptime /\ k.phone = l.phone
      BY <1>3, <2>5, <3>1 DEF LineType
    <3> HIDE DEF k
    <3>3. Remains(l, k)
      BY <1>3, <2>5, <3>2 DEF Remains, Names
    <3> QED BY <1>4, <2>5, <3>3 DEF Remains, k
  <2> QED
    <3>1. CASE ~l.cut
      BY <1>2, <2>1, <3>1
    <3>2. CASE l.cut
      <4>1. tracker' \in FedCut(tracker, l, clock)
        BY <1>2, <3>2
      <4>2. CASE l.body = "banner"
        BY <2>2, <2>3, <3>2, <4>1, <4>2 DEF FedCut
      <4>3. CASE l.body = "fromnum"
        BY <2>2, <2>4, <2>5, <3>2, <4>1, <4>3 DEF FedCut
      <4>4. CASE l.body \notin {"banner", "fromnum"}
        BY <2>2, <2>4, <3>2, <4>1, <4>4 DEF FedCut
      <4> QED BY <4>2, <4>3, <4>4
    <3> QED BY <3>1, <3>2
<1> QED BY <1>1, <1>2, <1>5 DEF Reads, l

\* Type correctness ---------------------------------------------------------
LEMMA InitTyped == Init => TypeInv /\ ConsoleInv
<1> SUFFICES ASSUME Init PROVE TypeInv /\ ConsoleInv
  OBVIOUS
<1>1. TrackerType(tracker) /\ BooksAgree(tracker)
  <2>1. tracker = [phones |-> NoPhones, slots |-> NoSlots, uptime |-> Nothing,
                   missed |-> 0, sessionResets |-> 0, reboots |-> 0, banners |-> 0,
                   next |-> 1 + Every]
    BY DEF Init, InitialTracker
  <2>2. 1 + Every \in Nat
    BY PbxAssumption
  <2> QED BY <2>1, <2>2 DEF TrackerType, BooksAgree, Empty, NoPhones, NoSlots
<1>2. IsFiniteSet(made)
  BY FS_EmptySet DEF Init
<1>3. console = <<>> /\ port = "closed" /\ missed = FALSE /\ cuts = 0
  BY DEF Init, ReaderInit
<1>4. ConsoleInv
  BY <1>3 DEF ConsoleInv
<1>5. /\ clock = 1 /\ bootAt = 0 /\ boots = 0 /\ at = 0 /\ made = {} /\ skipped = 0
      /\ session = [ph \in Phone |-> Nothing] /\ number = [ph \in Phone |-> 0]
      /\ sessions = number /\ notified = session /\ fresh = Phone
      /\ resumed = FALSE /\ attached = FALSE
  BY DEF Init
<1>6. /\ session \in [Phone -> Slot \cup {Nothing}]
      /\ number \in [Phone -> Nat] /\ sessions \in [Phone -> Nat]
      /\ notified \in [Phone -> Nat \cup {Nothing}]
      /\ fresh \in SUBSET Phone
      /\ \A ph \in Phone : notified[ph] = Nothing
      /\ \A ph \in fresh : notified[ph] = Nothing /\ session[ph] = Nothing
  BY <1>5
<1>7. /\ clock \in Nat /\ bootAt \in 0 .. clock /\ boots \in Nat /\ at \in 0 .. boots
      /\ made \in SUBSET [phone : Phone, session : Nat, seq : Nat]
      /\ skipped \in Nat /\ cuts \in Nat
  BY <1>3, <1>5
<1>8. missed \in BOOLEAN /\ resumed \in BOOLEAN /\ attached \in BOOLEAN
  BY <1>3, <1>5
<1> QED BY <1>1, <1>2, <1>4, <1>6, <1>7, <1>8 DEF TypeInv

LEMMA TypeStep == TypeInv /\ ConsoleInv /\ [Next]_vars => TypeInv'
<1> SUFFICES ASSUME TypeInv, ConsoleInv, [Next]_vars PROVE TypeInv'
  OBVIOUS
<1> DEFINE Books == TrackerType(tracker) /\ BooksAgree(tracker)
           Times == clock \in Nat /\ bootAt \in 0 .. clock /\ boots \in Nat /\ at \in 0 .. boots
           Phones == /\ session \in [Phone -> Slot \cup {Nothing}]
                     /\ number \in [Phone -> Nat] /\ sessions \in [Phone -> Nat]
                     /\ notified \in [Phone -> Nat \cup {Nothing}]
                     /\ fresh \in SUBSET Phone
                     /\ \A ph \in Phone : notified[ph] # Nothing => notified[ph] < number[ph]
                     /\ \A ph \in fresh : notified[ph] = Nothing /\ session[ph] = Nothing
           Packets == made \in SUBSET [phone : Phone, session : Nat, seq : Nat]
                      /\ IsFiniteSet(made)
           Losses == missed \in BOOLEAN /\ cuts \in Nat
                     /\ resumed \in BOOLEAN /\ attached \in BOOLEAN
           Skips == skipped \in Nat
<1>1. Books /\ Times /\ Phones /\ Packets /\ Losses /\ Skips
  BY DEF TypeInv
<1> SUFFICES Books' /\ Times' /\ Phones' /\ Packets' /\ Losses' /\ Skips'
  BY DEF TypeInv
<1>2. CASE UNCHANGED vars
  BY <1>1, <1>2 DEF vars, pbx, history, reader
<1>3. CASE Tick
  BY <1>1, <1>3 DEF Tick, pbx, history, reader
<1>4. ASSUME NEW ph \in Phone, Deliver(ph)
      PROVE  Books' /\ Times' /\ Phones' /\ Packets' /\ Losses' /\ Skips'
  <2>1. Books' /\ Times' /\ Skips'
    BY <1>1, <1>4 DEF Deliver
  <2>2. Packets'
    <3>1. Packet(ph, sessions[ph], number[ph]) \in [phone : Phone, session : Nat, seq : Nat]
      BY <1>1 DEF Packet
    <3>2. made' = made \cup {Packet(ph, sessions[ph], number[ph])}
      BY <1>4 DEF Deliver
    <3> QED BY <1>1, <3>1, <3>2, FS_AddElement
  <2>3. Losses'
    BY <1>1, <1>4 DEF Deliver, reader, Prints
  <2>4. Phones'
    <3>1. /\ number' = [number EXCEPT ![ph] = @ + 1] /\ session' = session
          /\ sessions' = sessions /\ fresh' = fresh
          /\ \/ notified' = notified
             \/ notified' = [notified EXCEPT ![ph] = number[ph]]
      BY <1>4 DEF Deliver
    <3>2. session[ph] # Nothing /\ ph \notin fresh
      BY <1>1, <1>4 DEF Deliver
    <3>3. number[ph] \in Nat
      BY <1>1
    <3> QED BY <1>1, <3>1, <3>2, <3>3
  <2> QED BY <2>1, <2>2, <2>3, <2>4
<1>5. ASSUME NEW ph \in Phone, Disconnect(ph)
      PROVE  Books' /\ Times' /\ Phones' /\ Packets' /\ Losses' /\ Skips'
  <2>1. Books' /\ Times' /\ Packets' /\ Skips'
    BY <1>1, <1>5 DEF Disconnect, history
  <2>2. Losses'
    BY <1>1, <1>5 DEF Disconnect, history, Prints
  <2>3. Phones'
    BY <1>1, <1>5 DEF Disconnect, history
  <2> QED BY <2>1, <2>2, <2>3
<1>6. ASSUME NEW ph \in Phone, NEW sl \in Slot, Register(ph, sl)
      PROVE  Books' /\ Times' /\ Phones' /\ Packets' /\ Losses' /\ Skips'
  <2>1. Books' /\ Times' /\ Packets' /\ Skips'
    BY <1>1, <1>6 DEF Register
  <2>2. Losses'
    BY <1>1, <1>6 DEF Register, Prints
  <2>3. Phones'
    <3>1. PICK n \in Starts : number' = [number EXCEPT ![ph] = n]
      BY <1>6 DEF Register
    <3>2. /\ n \in Nat /\ session' = [session EXCEPT ![ph] = sl]
          /\ notified' = [notified EXCEPT ![ph] = Nothing]
          /\ sessions' = [sessions EXCEPT ![ph] = @ + 1] /\ fresh' = fresh \ {ph}
      BY <1>6, StartsAssumption DEF Register
    <3> QED BY <1>1, <3>1, <3>2
  <2> QED BY <2>1, <2>2, <2>3
<1>7. CASE Chatter
  <2>1. Losses'
    BY <1>1, <1>7 DEF Chatter, history, Prints
  <2>2. Books' /\ Times' /\ Phones' /\ Packets' /\ Skips'
    BY <1>1, <1>7 DEF Chatter, pbx, history
  <2> QED BY <2>1, <2>2
<1>8. CASE Reboot
  <2>1. Losses'
    BY <1>1, <1>8 DEF Reboot, Prints
  <2>2. Books' /\ Times' /\ Packets' /\ Skips'
    BY <1>1, <1>8 DEF Reboot
  <2>3. Phones'
    <3>1. /\ session' = [ph \in Phone |-> Nothing] /\ notified' = session' /\ fresh' = Phone
          /\ number' = number /\ sessions' = sessions
      BY <1>8 DEF Reboot
    <3> QED BY <1>1, <3>1
  <2> QED BY <2>1, <2>2, <2>3
<1>9. CASE FeedLine
  <2> DEFINE l == console[1]
  <2>1. Reads(l)
    BY <1>9, FeedLineIs
  <2>2. l \in LineType /\ LineOK(l) /\ l = Head(console) /\ 1 \in DOMAIN console
    BY <2>1, TailIs DEF Reads, LineOK, Names, ConsoleInv
  <2>3. l.boot \in 0 .. boots
    BY <2>2 DEF LineType, ConsoleInv
  <2>4. Books' /\ Times'
    BY <1>1, <2>1, <2>3 DEF Reads
  <2>5. Losses'
    BY <1>1, <1>9, <2>1, <2>2 DEF Reads, FeedLine, LineType
  <2>6. Skips'
    <3>1. skipped' = skipped + (IF l.after = Nothing THEN 0 ELSE l.seq - l.after - 1)
      BY <1>9, <2>2 DEF FeedLine
    <3>2. l.after # Nothing => l.seq - l.after - 1 \in Nat
      BY <2>2 DEF LineOK, LineType, Nothing
    <3> QED BY <1>1, <3>1, <3>2
  <2>7. Phones' /\ Packets'
    BY <1>1, <1>9 DEF FeedLine, pbx
  <2> QED BY <2>4, <2>5, <2>6, <2>7
<1>10. CASE FeedNone
  <2>1. TrackerType(tracker') /\ BooksAgree(tracker')
    <3>1. tracker' = Idled(tracker, clock)
      BY <1>10 DEF FeedNone
    <3> HIDE DEF Phones, Packets, Times, Losses, Skips
    <3> QED BY <1>1, <3>1, IdledFate DEF BooksAgree, Empty, Times
  <2> QED BY <1>1, <1>10, <2>1 DEF FeedNone, IdleTick, reader, pbx, history
<1>11. CASE Port
  <2>1. Losses'
    <3>1. missed' \in BOOLEAN /\ cuts' \in Nat
      <4>1. CASE Opens \/ OpenFails
        BY <1>1, <4>1 DEF Opens, OpenFails, reader
      <4>2. CASE ReadFails
        BY <1>1, <4>2 DEF ReadFails
      <4>3. CASE Cut
        <5>1. missed' = TRUE /\ cuts' = cuts + 1
          BY <4>3 DEF Cut
        <5> QED BY <1>1, <5>1
      <4> QED BY <1>11, <4>1, <4>2, <4>3 DEF Port
    <3> QED BY <1>1, <1>11, <3>1 DEF Port, history
  <2>2. Books' /\ Times' /\ Phones' /\ Packets' /\ Skips'
    BY <1>1, <1>11 DEF Port, pbx, history
  <2> QED BY <2>1, <2>2
<1> QED BY <1>2, <1>3, <1>4, <1>5, <1>6, <1>7, <1>8, <1>9, <1>10, <1>11 DEF Next, PbxStep

\* The console ----------------------------------------------------------------
LEMMA SaidIs ==
    ASSUME ConsoleInv, NEW l \in LineType, console' = console \o <<l>>
    PROVE  /\ console' \in Seq(LineType) /\ Len(console) \in Nat
           /\ Len(console') = Len(console) + 1
           /\ DOMAIN console = 1 .. Len(console) /\ DOMAIN console' = 1 .. Len(console) + 1
           /\ \A i \in DOMAIN console : console'[i] = console[i]
           /\ console'[Len(console) + 1] = l
<1>1. <<l>> \in Seq(LineType) /\ Len(<<l>>) = 1 /\ <<l>>[1] = l /\ console \in Seq(LineType)
  BY DEF ConsoleInv
<1> QED BY <1>1, JoinedIs

LEMMA BootedIs ==
    ASSUME TypeInv, ConsoleInv, boots' = boots + 1, console' = console \o BootLines
    PROVE  LET n == Len(console)
           IN  /\ console' \in Seq(LineType) /\ n \in Nat /\ Len(console') = n + 3
               /\ DOMAIN console = 1 .. n /\ DOMAIN console' = 1 .. n + 3
               /\ \A i \in DOMAIN console : console'[i] = console[i]
               /\ \A i \in n + 1 .. n + 3 :
                     /\ LineOK(console'[i]) /\ console'[i].cut = FALSE
                     /\ console'[i].boot = boots + 1 /\ console'[i].uptime = 0
                     /\ console'[i].body = IF i = n + 3 THEN "other" ELSE "banner"
<1> DEFINE b == BootLine("banner")
           o == BootLine("other")
<1>1. /\ LineOK(b) /\ b.body = "banner" /\ b.cut = FALSE /\ b.boot = boots + 1 /\ b.uptime = 0
      /\ LineOK(o) /\ o.body = "other" /\ o.cut = FALSE /\ o.boot = boots + 1 /\ o.uptime = 0
  BY BootLineIs
<1>2. b \in LineType /\ o \in LineType /\ BootLines = <<b, b, o>>
  BY <1>1 DEF LineOK, Names, BootLines
<1> HIDE DEF b, o
<1>3. /\ BootLines \in Seq(LineType) /\ Len(BootLines) = 3
      /\ BootLines[1] = b /\ BootLines[2] = b /\ BootLines[3] = o
      /\ console \in Seq(LineType)
  BY <1>2 DEF ConsoleInv
<1> DEFINE n == Len(console)
<1>4. /\ console' \in Seq(LineType) /\ n \in Nat /\ Len(console') = n + 3
      /\ DOMAIN console = 1 .. n /\ DOMAIN console' = 1 .. n + 3
      /\ \A i \in DOMAIN console' :
            console'[i] = IF i <= n THEN console[i] ELSE BootLines[i - n]
  <2>1. LET c == console \o BootLines
        IN  /\ c \in Seq(LineType) /\ Len(c) = n + Len(BootLines) /\ n \in Nat
            /\ DOMAIN console = 1 .. n /\ DOMAIN c = 1 .. n + Len(BootLines)
            /\ \A i \in DOMAIN c : c[i] = IF i <= n THEN console[i] ELSE BootLines[i - n]
    BY <1>3, JoinedIs, Zenon
  <2> QED BY <1>3, <2>1
<1>5. \A i \in DOMAIN console : console'[i] = console[i]
  BY <1>4
<1>6. console'[n + 1] = b /\ console'[n + 2] = b /\ console'[n + 3] = o
  BY <1>3, <1>4
<1>7. \A i \in n + 1 .. n + 3 : i = n + 1 \/ i = n + 2 \/ i = n + 3
  BY <1>4
<1>8. n + 1 # n + 3 /\ n + 2 # n + 3
  BY <1>4
<1>9. \A i \in n + 1 .. n + 3 :
        /\ LineOK(console'[i]) /\ console'[i].cut = FALSE
        /\ console'[i].boot = boots + 1 /\ console'[i].uptime = 0
        /\ console'[i].body = IF i = n + 3 THEN "other" ELSE "banner"
  BY <1>1, <1>6, <1>7, <1>8
<1> QED BY <1>4, <1>5, <1>9

LEMMA ConsoleSaid ==
    ASSUME TypeInv, ConsoleInv, NEW l, Says1(l)
    PROVE  ConsoleInv'
<1>1. CASE port = "closed"
  <2>1. console' = <<>> /\ port' = "closed"
    BY <1>1 DEF Says1, Printed, ConsoleInv
  <2> QED BY <2>1 DEF ConsoleInv
<1>2. CASE port = "open"
  <2> DEFINE n == Len(console)
  <2>1. console' = console \o <<l>> /\ missed' = missed /\ cuts' = cuts /\ port' = "open"
        /\ clock' = clock /\ bootAt' = bootAt /\ boots' = boots /\ at' = at
    BY <1>2 DEF Says1, Printed, Steady
  <2>2. LineOK(l) /\ l \in LineType /\ l.body # "banner" /\ l.cut = FALSE /\ l.boot = boots
        /\ l.uptime = clock - bootAt
    BY DEF Says1, Current, LineOK, Names, LineType
  <2>3. /\ console' \in Seq(LineType) /\ n \in Nat /\ Len(console') = n + 1
        /\ DOMAIN console = 1 .. n /\ DOMAIN console' = 1 .. n + 1
        /\ \A i \in DOMAIN console : console'[i] = console[i]
        /\ console'[n + 1] = l
    BY <2>1, <2>2, SaidIs
  <2>4. /\ boots \in Nat /\ at \in 0 .. boots
        /\ \A i \in DOMAIN console : console[i].boot \in Nat /\ console[i].uptime \in Nat
    BY DEF TypeInv, ConsoleInv, LineOK, Names, LineType
  <2>5. \A i \in DOMAIN console' : LineOK(console'[i])
    BY <2>2, <2>3 DEF ConsoleInv
  <2>6. \A i \in DOMAIN console' :
          /\ at <= console'[i].boot /\ console'[i].boot <= boots
          /\ console'[i].boot = boots => console'[i].uptime <= clock - bootAt
          /\ console'[i].cut => missed /\ cuts > 0
    <3>1. \A i \in DOMAIN console :
            /\ at <= console[i].boot /\ console[i].boot <= boots
            /\ console[i].boot = boots => console[i].uptime <= clock - bootAt
            /\ console[i].cut => missed /\ cuts > 0
      BY DEF ConsoleInv
    <3>2. \A i \in DOMAIN console' : i \in DOMAIN console \/ console'[i] = l
      BY <2>3
    <3>3. at <= l.boot /\ l.boot <= boots /\ l.uptime <= clock - bootAt
      BY <2>2, <2>4 DEF LineType
    <3> QED BY <2>2, <2>3, <3>1, <3>2, <3>3
  <2>7. \A i, j \in DOMAIN console' : i < j =>
          /\ console'[i].boot <= console'[j].boot
          /\ console'[i].boot = console'[j].boot =>
                /\ console'[i].uptime <= console'[j].uptime
                /\ console'[j].body = "banner" => console'[i].body = "banner"
    BY <2>2, <2>3 DEF ConsoleInv
  <2>8. \A i \in DOMAIN console' : i + 1 \in DOMAIN console' =>
          \/ console'[i + 1].boot = console'[i].boot
          \/ /\ console'[i + 1].boot = console'[i].boot + 1
             /\ console'[i].body # "banner" /\ console'[i + 1].body = "banner"
    BY <2>2, <2>3 DEF ConsoleInv
  <2>9. \A i \in DOMAIN console' : console'[i].body = "banner" =>
          i + 1 \in DOMAIN console' /\ console'[i + 1].boot = console'[i].boot
    BY <2>2, <2>3 DEF ConsoleInv
  <2> QED BY <2>1, <2>2, <2>3, <2>5, <2>6, <2>7, <2>8, <2>9 DEF ConsoleInv
<1> QED BY <1>1, <1>2 DEF ConsoleInv

LEMMA ConsoleBooted ==
    ASSUME TypeInv, ConsoleInv, Boots
    PROVE  ConsoleInv'
<1>1. CASE port = "closed"
  <2>1. console' = <<>> /\ port' = "closed"
    BY <1>1 DEF Boots, Printed, ConsoleInv
  <2> QED BY <2>1 DEF ConsoleInv
<1>2. CASE port = "open"
  <2> DEFINE n == Len(console)
  <2>1. console' = console \o BootLines /\ missed' = missed /\ cuts' = cuts /\ port' = "open"
        /\ clock' = clock /\ bootAt' = clock /\ boots' = boots + 1 /\ at' = at
    BY <1>2 DEF Boots, Printed
  <2>2. /\ console' \in Seq(LineType) /\ n \in Nat /\ Len(console') = n + 3
        /\ DOMAIN console = 1 .. n /\ DOMAIN console' = 1 .. n + 3
        /\ \A i \in DOMAIN console : console'[i] = console[i]
        /\ \A i \in n + 1 .. n + 3 :
              /\ LineOK(console'[i]) /\ console'[i].cut = FALSE
              /\ console'[i].boot = boots + 1 /\ console'[i].uptime = 0
              /\ console'[i].body = IF i = n + 3 THEN "other" ELSE "banner"
    BY <2>1, BootedIs
  <2>3. /\ boots \in Nat /\ at \in 0 .. boots /\ clock \in Nat
        /\ \A i \in DOMAIN console : console[i].boot \in Nat /\ console[i].uptime \in Nat
    BY DEF TypeInv, ConsoleInv, LineOK, Names, LineType
  <2>4. \A i \in DOMAIN console : console[i].boot <= boots
    BY DEF ConsoleInv
  <2>5. \A i \in DOMAIN console' : LineOK(console'[i])
    BY <2>2 DEF ConsoleInv
  <2>6. \A i \in DOMAIN console' :
          /\ at <= console'[i].boot /\ console'[i].boot <= boots + 1
          /\ console'[i].boot = boots + 1 => console'[i].uptime <= clock - clock
          /\ console'[i].cut => missed /\ cuts > 0
    BY <2>2, <2>3, <2>4 DEF ConsoleInv
  <2>7. \A i, j \in DOMAIN console' : i < j =>
          /\ console'[i].boot <= console'[j].boot
          /\ console'[i].boot = console'[j].boot =>
                /\ console'[i].uptime <= console'[j].uptime
                /\ console'[j].body = "banner" => console'[i].body = "banner"
    <3> SUFFICES ASSUME NEW i \in 1 .. n + 3, NEW j \in 1 .. n + 3, i < j
                 PROVE  /\ console'[i].boot <= console'[j].boot
                        /\ console'[i].boot = console'[j].boot =>
                              /\ console'[i].uptime <= console'[j].uptime
                              /\ console'[j].body = "banner" => console'[i].body = "banner"
      BY <2>2
    <3>1. CASE j <= n
      BY <3>1, <2>2 DEF ConsoleInv
    <3>2. CASE i <= n /\ j > n
      <4>1. i \in DOMAIN console /\ j \in n + 1 .. n + 3
        BY <3>2, <2>2
      <4>2. console'[i].boot < console'[j].boot
        BY <4>1, <2>2, <2>3, <2>4
      <4> QED BY <4>1, <4>2, <2>2, <2>3
    <3>3. CASE i > n
      BY <3>3, <2>2, <2>3
    <3> QED BY <3>1, <3>2, <3>3, <2>2
  <2>8. \A i \in DOMAIN console' : i + 1 \in DOMAIN console' =>
          \/ console'[i + 1].boot = console'[i].boot
          \/ /\ console'[i + 1].boot = console'[i].boot + 1
             /\ console'[i].body # "banner" /\ console'[i + 1].body = "banner"
    <3> SUFFICES ASSUME NEW i \in 1 .. n + 3, i + 1 \in 1 .. n + 3
                 PROVE  \/ console'[i + 1].boot = console'[i].boot
                        \/ /\ console'[i + 1].boot = console'[i].boot + 1
                           /\ console'[i].body # "banner" /\ console'[i + 1].body = "banner"
      BY <2>2
    <3>1. CASE i < n
      BY <3>1, <2>2 DEF ConsoleInv
    <3>2. CASE i = n
      <4>1. console[n].boot = boots /\ console[n].body # "banner"
        BY <3>2, <2>2 DEF ConsoleInv
      <4> QED BY <3>2, <4>1, <2>2
    <3>3. CASE i > n
      BY <3>3, <2>2
    <3> QED BY <3>1, <3>2, <3>3, <2>2
  <2>9. \A i \in DOMAIN console' : console'[i].body = "banner" =>
          i + 1 \in DOMAIN console' /\ console'[i + 1].boot = console'[i].boot
    BY <2>2 DEF ConsoleInv
  <2>10. console' # <<>> => console'[Len(console')].boot = boots + 1
    <3>1. n + 3 \in n + 1 .. n + 3
      BY <2>2
    <3> QED BY <2>2, <3>1
  <2> QED BY <2>1, <2>2, <2>5, <2>6, <2>7, <2>8, <2>9, <2>10 DEF ConsoleInv
<1> QED BY <1>1, <1>2 DEF ConsoleInv

LEMMA ConsoleRead ==
    ASSUME TypeInv, ConsoleInv, NEW l, Reads(l)
    PROVE  ConsoleInv'
<1> DEFINE n == Len(console)
<1>1. console' = Tail(console) /\ missed' = missed /\ cuts' = cuts /\ port' = "open"
      /\ clock' = clock /\ bootAt' = bootAt /\ boots' = boots /\ at' = l.boot /\ l = console[1]
      /\ console # <<>>
  BY DEF Reads
<1>2. /\ console' \in Seq(LineType) /\ Len(console') = n - 1 /\ n \in Nat /\ n > 0
      /\ DOMAIN console = 1 .. n /\ DOMAIN console' = 1 .. n - 1
      /\ \A i \in DOMAIN console' : i + 1 \in DOMAIN console /\ console'[i] = console[i + 1]
  BY <1>1, TailIs DEF ConsoleInv
<1>3. \A i \in DOMAIN console' : LineOK(console'[i])
  BY <1>2 DEF ConsoleInv
<1>4. \A i \in DOMAIN console' :
        /\ l.boot <= console'[i].boot /\ console'[i].boot <= boots
        /\ console'[i].boot = boots => console'[i].uptime <= clock - bootAt
        /\ console'[i].cut => missed /\ cuts > 0
  BY <1>1, <1>2 DEF ConsoleInv
<1>5. \A i, j \in DOMAIN console' : i < j =>
        /\ console'[i].boot <= console'[j].boot
        /\ console'[i].boot = console'[j].boot =>
              /\ console'[i].uptime <= console'[j].uptime
              /\ console'[j].body = "banner" => console'[i].body = "banner"
  BY <1>2 DEF ConsoleInv
<1>6. \A i \in DOMAIN console' : i + 1 \in DOMAIN console' =>
        \/ console'[i + 1].boot = console'[i].boot
        \/ /\ console'[i + 1].boot = console'[i].boot + 1
           /\ console'[i].body # "banner" /\ console'[i + 1].body = "banner"
  BY <1>2 DEF ConsoleInv
<1>7. \A i \in DOMAIN console' : console'[i].body = "banner" =>
        i + 1 \in DOMAIN console' /\ console'[i + 1].boot = console'[i].boot
  <2> SUFFICES ASSUME NEW i \in DOMAIN console', console'[i].body = "banner"
               PROVE  i + 1 \in DOMAIN console' /\ console'[i + 1].boot = console'[i].boot
    OBVIOUS
  <2>1. i + 1 \in DOMAIN console /\ console[i + 1].body = "banner"
    BY <1>2
  <2>2. (i + 1) + 1 \in DOMAIN console /\ console[(i + 1) + 1].boot = console[i + 1].boot
    BY <2>1 DEF ConsoleInv
  <2>3. i + 1 \in DOMAIN console'
    BY <1>2, <2>2
  <2> QED BY <1>2, <2>2, <2>3
<1>8. console' # <<>> => console'[Len(console')].boot = boots
  BY <1>1, <1>2 DEF ConsoleInv
<1> QED BY <1>1, <1>2, <1>3, <1>4, <1>5, <1>6, <1>7, <1>8 DEF ConsoleInv

LEMMA ConsoleStep == TypeInv /\ ConsoleInv /\ [Next]_vars => ConsoleInv'
<1> SUFFICES ASSUME TypeInv, ConsoleInv, [Next]_vars PROVE ConsoleInv'
  OBVIOUS
<1>1. CASE Still
  <2>1. /\ bootAt' = bootAt /\ boots' = boots /\ at' = at /\ clock' \in Nat /\ clock <= clock'
        /\ console' = console /\ missed' = missed /\ cuts' = cuts
        /\ port' \in {"open", "closed"} /\ (port' = "closed" => console = <<>>)
        /\ clock \in Nat /\ bootAt \in Nat
        /\ \A i \in DOMAIN console : console[i].uptime \in Nat
    BY <1>1 DEF Still, TypeInv, ConsoleInv, LineOK, Names, LineType
  <2>2. \A i \in DOMAIN console : console[i].boot = boots => console[i].uptime <= clock' - bootAt
    BY <2>1 DEF ConsoleInv
  <2> QED BY <2>1, <2>2 DEF ConsoleInv
<1>2. ASSUME NEW l, Says1(l) PROVE ConsoleInv'
  BY <1>2, ConsoleSaid
<1>3. CASE Boots
  BY <1>3, ConsoleBooted
<1>4. CASE Drops
  <2>1. console' = <<>> /\ port' = "closed"
    BY <1>4 DEF Drops
  <2> QED BY <2>1 DEF ConsoleInv
<1>5. CASE Cuts
  <2>1. PICK k \in DOMAIN console : console' = [console EXCEPT ![k].cut = TRUE]
    BY <1>5 DEF Cuts
  <2>2. /\ console' \in Seq(LineType) /\ Len(console') = Len(console)
        /\ DOMAIN console' = DOMAIN console
        /\ \A i \in DOMAIN console : SameButCut(console'[i], console[i])
    BY <2>1, CutIs DEF ConsoleInv
  <2>3. /\ missed' /\ cuts' > 0 /\ port' = port /\ at' = at /\ boots' = boots
        /\ bootAt' = bootAt /\ clock' = clock
    BY <1>5 DEF Cuts, Steady, TypeInv
  <2>4. \A i \in DOMAIN console' : LineOK(console'[i])
    <3> TAKE i \in DOMAIN console'
    <3>1. console'[i] \in LineType /\ LineOK(console[i]) /\ SameButCut(console'[i], console[i])
      BY <2>2 DEF ConsoleInv
    <3> QED BY <3>1 DEF LineOK, Names, SameButCut
  <2>5. console \in Seq(LineType) /\ (port = "open" \/ port = "closed")
        /\ (console = <<>> => console' = <<>>) /\ (console' # <<>> => console # <<>>)
    BY <2>2 DEF ConsoleInv
  <2>6. \A i \in DOMAIN console' :
          /\ at <= console'[i].boot /\ console'[i].boot <= boots
          /\ console'[i].boot = boots => console'[i].uptime <= clock - bootAt
    BY <2>2 DEF ConsoleInv, SameButCut
  <2>7. \A i, j \in DOMAIN console' : i < j =>
          /\ console'[i].boot <= console'[j].boot
          /\ console'[i].boot = console'[j].boot =>
                /\ console'[i].uptime <= console'[j].uptime
                /\ console'[j].body = "banner" => console'[i].body = "banner"
    BY <2>2 DEF ConsoleInv, SameButCut
  <2>8. \A i \in DOMAIN console' : i + 1 \in DOMAIN console' =>
          \/ console'[i + 1].boot = console'[i].boot
          \/ /\ console'[i + 1].boot = console'[i].boot + 1
             /\ console'[i].body # "banner" /\ console'[i + 1].body = "banner"
    BY <2>2 DEF ConsoleInv, SameButCut
  <2>9. \A i \in DOMAIN console' : console'[i].body = "banner" =>
          i + 1 \in DOMAIN console' /\ console'[i + 1].boot = console'[i].boot
    BY <2>2 DEF ConsoleInv, SameButCut
  <2>10. console' # <<>> => console'[Len(console')].boot = boots
    <3> HAVE console' # <<>>
    <3>1. Len(console) \in DOMAIN console /\ console[Len(console)].boot = boots
      BY <2>5 DEF ConsoleInv
    <3> QED BY <2>2, <3>1 DEF SameButCut
  <2>11. port' \in {"open", "closed"} /\ (port' = "closed" => console' = <<>>)
    BY <2>3, <2>5 DEF ConsoleInv
  <2> QED BY <2>2, <2>3, <2>4, <2>6, <2>7, <2>8, <2>9, <2>10, <2>11 DEF ConsoleInv
<1>6. CASE FeedLine
  BY <1>6, FeedLineIs, ConsoleRead
<1> QED BY <1>1, <1>2, <1>3, <1>4, <1>5, <1>6, StepIs

LEMMA Lines == Spec => [](TypeInv /\ ConsoleInv)
BY InitTyped, TypeStep, ConsoleStep, PTL DEF Spec

\* Restarts -------------------------------------------------------------------
LEMMA LineTypes ==
    ASSUME ConsoleInv
    PROVE  \A i \in DOMAIN console :
              /\ LineOK(console[i]) /\ console[i] \in LineType
              /\ console[i].boot \in Nat /\ console[i].uptime \in Nat /\ console[i].seq \in Nat
              /\ console[i].session \in Nat /\ console[i].after \in Nat \cup {Nothing}
              /\ console[i].cut \in BOOLEAN
BY DEF ConsoleInv, LineOK, Names, LineType

\* Nothing that is asked of the tracker changes when it publishes.
SameBooks(s, t) ==
    /\ t.phones = s.phones /\ t.slots = s.slots /\ t.uptime = s.uptime
    /\ t.missed = s.missed /\ t.reboots = s.reboots

\* No line of the console comes before the first one.
LEMMA FirstLineIsOldest ==
    ASSUME ConsoleInv, 1 \in DOMAIN console
    PROVE  \A j \in DOMAIN console : j > 1 =>
              /\ console[1].boot <= console[j].boot
              /\ console[1].boot = console[j].boot =>
                    /\ console[1].uptime <= console[j].uptime
                    /\ console[j].body = "banner" => console[1].body = "banner"
<1>1. \A i, j \in DOMAIN console : i < j =>
          /\ console[i].boot <= console[j].boot
          /\ console[i].boot = console[j].boot =>
                /\ console[i].uptime <= console[j].uptime
                /\ console[j].body = "banner" => console[i].body = "banner"
  BY DEF ConsoleInv
<1>2. DOMAIN console \subseteq Int
  BY DEF ConsoleInv
<1> QED BY <1>1, <1>2

LEMMA StillBooks ==
    ASSUME TypeInv, Still
    PROVE  SameBooks(tracker, tracker')
BY IdledFate DEF Still, TypeInv, SameBooks

LEMMA RebootStep ==
    TypeInv /\ ConsoleInv /\ RebootInv /\ [Next]_vars => RebootInv'
<1> SUFFICES ASSUME TypeInv, ConsoleInv, RebootInv, [Next]_vars PROVE RebootInv'
  OBVIOUS
<1>1. PICK t \in Nat : CountedUpTo(t)
  BY DEF RebootInv
<1>2. /\ clock \in Nat /\ bootAt \in 0 .. clock /\ boots \in Nat
      /\ tracker.reboots \in Nat /\ tracker.uptime \in Nat \cup {Nothing}
  BY DEF TypeInv, TrackerType
<1>3. CASE Still
  <2>1. SameBooks(tracker, tracker')
    BY <1>3, StillBooks
  <2>2. clock' \in Nat /\ clock <= clock' /\ boots' = boots /\ bootAt' = bootAt /\ console' = console
    BY <1>3 DEF Still
  <2>3. t = boots => tracker.uptime <= clock' - bootAt
    BY <1>1, <1>2, <2>2 DEF CountedUpTo, Nothing
  <2>4. CountedUpTo(t)'
    BY <1>1, <2>1, <2>2, <2>3 DEF CountedUpTo, SameBooks, Empty
  <2> QED BY <2>4 DEF RebootInv
<1>4. ASSUME NEW l, Says1(l) PROVE RebootInv'
  <2>1. /\ tracker' = tracker /\ boots' = boots /\ bootAt' = bootAt /\ clock' = clock
        /\ console' = console \/ console' = console \o <<l>>
        /\ l \in LineType /\ l.body # "banner" /\ l.boot = boots /\ l.uptime = clock - bootAt
    BY <1>4 DEF Says1, Steady, Printed, Current, LineOK, Names
  <2>2. CASE console' = console
    BY <1>1, <2>1, <2>2 DEF CountedUpTo, RebootInv
  <2>3. CASE console' = console \o <<l>>
    <3>1. /\ DOMAIN console = 1 .. Len(console) /\ DOMAIN console' = 1 .. Len(console) + 1
          /\ \A i \in DOMAIN console : console'[i] = console[i]
          /\ console'[Len(console) + 1] = l /\ Len(console) \in Nat
      BY <2>1, <2>3, SaidIs
    <3>2. \A i \in DOMAIN console' : i \in DOMAIN console \/ console'[i] = l
      BY <3>1
    <3>3. CountedUpTo(t)'
      BY <1>1, <2>1, <3>1, <3>2 DEF CountedUpTo
    <3> QED BY <3>3 DEF RebootInv
  <2> QED BY <2>1, <2>2, <2>3
<1>5. CASE Boots
  <2>1. /\ tracker' = tracker /\ boots' = boots + 1
        /\ console' = console \/ console' = console \o BootLines
    BY <1>5 DEF Boots, Printed
  <2>2. t # boots' /\ t <= boots'
    BY <1>1, <1>2, <2>1 DEF CountedUpTo
  <2>3. CASE console' = console
    BY <1>1, <2>1, <2>2, <2>3 DEF CountedUpTo, RebootInv
  <2>4. CASE console' = console \o BootLines
    <3> DEFINE n == Len(console)
    <3>1. /\ n \in Nat /\ DOMAIN console = 1 .. n /\ DOMAIN console' = 1 .. n + 3
          /\ \A i \in DOMAIN console : console'[i] = console[i]
          /\ \A i \in n + 1 .. n + 3 : console'[i].boot = boots'
      BY <2>1, <2>4, BootedIs
    <3>2. \A i \in DOMAIN console' : i \in DOMAIN console \/ console'[i].boot = boots'
      BY <3>1
    <3>3. CountedUpTo(t)'
      BY <1>1, <2>1, <2>2, <3>1, <3>2 DEF CountedUpTo
    <3> QED BY <3>3 DEF RebootInv
  <2> QED BY <2>1, <2>3, <2>4
<1>6. CASE Drops
  BY <1>1, <1>6 DEF Drops, Steady, CountedUpTo, RebootInv
<1>7. CASE Cuts
  <2>1. PICK k \in DOMAIN console : console' = [console EXCEPT ![k].cut = TRUE]
    BY <1>7 DEF Cuts
  <2>2. DOMAIN console' = DOMAIN console
        /\ \A i \in DOMAIN console : SameButCut(console'[i], console[i])
    BY <2>1, CutIs DEF ConsoleInv
  <2>3. CountedUpTo(t)'
    BY <1>1, <1>7, <2>2 DEF Cuts, Steady, CountedUpTo, SameButCut
  <2> QED BY <2>3 DEF RebootInv
<1>8. CASE FeedLine
  <2> DEFINE l == console[1]
             n == Len(console)
  <2>1. Reads(l)
    BY <1>8, FeedLineIs
  <2>2. /\ DOMAIN console = 1 .. n /\ n \in Nat /\ n > 0 /\ DOMAIN console' = 1 .. n - 1
        /\ \A i \in DOMAIN console' : i + 1 \in DOMAIN console /\ console'[i] = console[i + 1]
    BY <2>1, TailIs DEF Reads, ConsoleInv
  <2>3. /\ 1 \in DOMAIN console /\ l.boot \in Nat /\ l.uptime \in Nat /\ l.boot <= boots
        /\ l.boot = boots => l.uptime <= clock - bootAt
    BY <2>2, LineTypes DEF ConsoleInv
  <2>4. \A i \in DOMAIN console' :
           /\ l.boot <= console'[i].boot
           /\ l.boot = console'[i].boot =>
                 /\ l.uptime <= console'[i].uptime
                 /\ console'[i].body = "banner" => l.body = "banner"
    BY <2>2, <2>3, FirstLineIsOldest
  <2>5. boots' = boots /\ clock' = clock /\ bootAt' = bootAt
    BY <2>1 DEF Reads
  <2>6. /\ tracker.reboots <= t /\ t <= l.boot
        /\ l.boot = t => /\ tracker.uptime <= l.uptime
                         /\ l.body = "banner" => Empty(tracker)
    <3>1. \A i \in DOMAIN console :
             /\ t <= console[i].boot
             /\ console[i].boot = t =>
                   /\ tracker.uptime <= console[i].uptime
                   /\ console[i].body = "banner" => Empty(tracker)
      BY <1>1 DEF CountedUpTo
    <3>2. tracker.reboots <= t
      BY <1>1 DEF CountedUpTo
    <3> HIDE DEF l
    <3> QED BY <2>3, <3>1, <3>2 DEF l
  <2> HIDE DEF l
  <2>6a. PICK b \in Nat : b = l.boot
    BY <2>3
  <2>7. CASE tracker' = tracker
    <3>1. CountedUpTo(t)'
      BY <1>1, <2>2, <2>5, <2>7 DEF CountedUpTo
    <3> QED BY <3>1 DEF RebootInv
  <2>8. ASSUME NEW k, Remains(l, k), FedTo(tracker, k, tracker')
        PROVE  RebootInv'
    <3>1. k.uptime = l.uptime /\ (k.body = "banner" <=> l.body = "banner")
      BY <2>8 DEF Remains
    <3>2. CASE l.body = "banner"
      <4>1. Empty(tracker') /\ tracker'.uptime = Nothing
            /\ tracker'.reboots = IF Empty(tracker) THEN tracker.reboots ELSE tracker.reboots + 1
        BY <2>8, <3>1, <3>2 DEF FedTo, Empty
      <4>2. tracker'.reboots <= l.boot
        BY <1>2, <2>3, <2>6, <3>2, <4>1
      <4>3. CountedUpTo(b)'
        <5>1. \A i \in DOMAIN console' : Nothing <= console'[i].uptime
          BY <2>2, LineTypes DEF Nothing
        <5>2. Nothing <= clock - bootAt
          BY <1>2 DEF Nothing
        <5> QED BY <2>3, <2>6a, <2>4, <2>5, <4>1, <4>2, <5>1, <5>2 DEF CountedUpTo
      <4> QED BY <4>3 DEF RebootInv
    <3>3. CASE l.body # "banner"
      <4>1. tracker'.uptime = l.uptime
            /\ tracker'.reboots = IF l.uptime < tracker.uptime THEN tracker.reboots + 1
                                  ELSE tracker.reboots
        BY <2>8, <3>1, <3>3 DEF FedTo, Falls
      <4>2. tracker'.reboots <= l.boot
        BY <1>2, <2>3, <2>6, <4>1 DEF Nothing
      <4>3. CountedUpTo(b)'
        BY <2>3, <2>6a, <2>4, <2>5, <3>3, <4>1, <4>2 DEF CountedUpTo
      <4> QED BY <4>3 DEF RebootInv
    <3> QED BY <3>2, <3>3
  <2> QED BY <2>1, <2>7, <2>8 DEF Reads
<1> QED BY <1>3, <1>4, <1>5, <1>6, <1>7, <1>8, StepIs

LEMMA InitReboot == Init => RebootInv /\ ExactInv
<1> SUFFICES ASSUME Init PROVE RebootInv /\ ExactInv
  OBVIOUS
<1>1. /\ tracker.reboots = 0 /\ tracker.uptime = Nothing /\ console = <<>> /\ boots = 0
      /\ clock = 1 /\ bootAt = 0 /\ attached = FALSE /\ at = 0
  BY DEF Init, ReaderInit, InitialTracker
<1>2. CountedUpTo(0)
  BY <1>1 DEF CountedUpTo, Nothing
<1> QED BY <1>1, <1>2 DEF RebootInv, ExactInv, Nothing

LEMMA ExactStep ==
    TypeInv /\ ConsoleInv /\ RebootInv /\ ExactInv /\ [Next]_vars => ExactInv'
<1> SUFFICES ASSUME TypeInv, ConsoleInv, RebootInv, ExactInv, [Next]_vars, ~missed'
             PROVE  ExactInv'
  BY DEF ExactInv
<1>1. /\ clock \in Nat /\ bootAt \in 0 .. clock /\ boots \in Nat /\ at \in 0 .. boots
      /\ tracker.reboots \in Nat /\ tracker.uptime \in Nat \cup {Nothing}
  BY DEF TypeInv, TrackerType
<1>2. tracker.reboots <= boots
  BY <1>1 DEF RebootInv, CountedUpTo
<1>3. CASE Still
  <2>1. SameBooks(tracker, tracker')
    BY <1>3, StillBooks
  <2>2. clock' \in Nat /\ clock <= clock' /\ boots' = boots /\ bootAt' = bootAt
        /\ console' = console /\ at' = at /\ attached' = attached /\ missed' = missed
    BY <1>3 DEF Still
  <2>3. at = boots => tracker.uptime <= clock' - bootAt
    BY <1>1, <2>2 DEF ExactInv, Nothing
  <2> QED BY <2>1, <2>2, <2>3 DEF ExactInv, SameBooks, Empty
<1>4. ASSUME NEW l, Says1(l) PROVE ExactInv'
  <2>1. /\ tracker' = tracker /\ boots' = boots /\ bootAt' = bootAt /\ clock' = clock
        /\ at' = at /\ attached' = attached /\ missed' = missed
        /\ console' = console \o <<l>>
        /\ l \in LineType /\ l.body # "banner" /\ l.boot = boots /\ l.uptime = clock - bootAt
    BY <1>4 DEF Says1, Steady, Printed, Current, LineOK, Names
  <2> DEFINE n == Len(console)
  <2>2. /\ DOMAIN console = 1 .. n /\ DOMAIN console' = 1 .. n + 1
        /\ \A i \in DOMAIN console : console'[i] = console[i]
        /\ console'[n + 1] = l /\ n \in Nat
    BY <2>1, SaidIs
  <2>3. \A i \in DOMAIN console' : i \in DOMAIN console \/ console'[i] = l
    BY <2>2
  <2>4. CASE console = <<>>
    <3>1. console'[1] = l /\ console' # <<>>
      BY <2>2, <2>4
    <3> QED BY <2>1, <2>2, <2>3, <2>4, <3>1 DEF ExactInv
  <2>5. CASE console # <<>>
    <3>1. console'[1] = console[1] /\ console' # <<>> /\ 1 \in DOMAIN console
      BY <2>2, <2>5 DEF ConsoleInv
    <3> QED BY <2>1, <2>2, <2>3, <2>5, <3>1 DEF ExactInv
  <2> QED BY <2>4, <2>5
<1>5. CASE Boots
  <2> DEFINE n == Len(console)
  <2>1. /\ tracker' = tracker /\ boots' = boots + 1 /\ at' = at /\ attached' = attached
        /\ missed' = missed /\ console' = console \o BootLines
    BY <1>5 DEF Boots, Printed
  <2>2. /\ n \in Nat /\ DOMAIN console = 1 .. n /\ DOMAIN console' = 1 .. n + 3
        /\ \A i \in DOMAIN console : console'[i] = console[i]
        /\ \A i \in n + 1 .. n + 3 :
              console'[i].boot = boots + 1
              /\ console'[i].body = IF i = n + 3 THEN "other" ELSE "banner"
    BY <2>1, BootedIs
  <2>3. \A i \in DOMAIN console' : i \in DOMAIN console \/ console'[i].boot = boots + 1
    BY <2>2
  <2>4. at # boots + 1
    BY <1>1
  <2>5. CASE console = <<>>
    <3>1. n = 0 /\ console' # <<>> /\ 1 \in n + 1 .. n + 3 /\ 1 # n + 3
      BY <2>2, <2>5
    <3>2. console'[1].boot = boots + 1 /\ console'[1].body = "banner"
      BY <2>2, <3>1
    <3> QED BY <2>1, <2>2, <2>3, <2>4, <2>5, <3>1, <3>2 DEF ExactInv
  <2>6. CASE console # <<>>
    <3>1. console'[1] = console[1] /\ console' # <<>> /\ 1 \in DOMAIN console
      BY <2>2, <2>6 DEF ConsoleInv
    <3> QED BY <2>1, <2>2, <2>3, <2>4, <2>6, <3>1 DEF ExactInv
  <2> QED BY <2>5, <2>6
<1>6. CASE Drops
  <2>1. ~missed /\ console' = console
    BY <1>6 DEF Drops, TypeInv
  <2> QED BY <1>6, <2>1 DEF Drops, Steady, ExactInv
<1>7. CASE Cuts
  BY <1>7 DEF Cuts
<1>8. CASE FeedLine
  <2> DEFINE l == console[1]
             n == Len(console)
  <2>1. Reads(l)
    BY <1>8, FeedLineIs
  <2>2. /\ DOMAIN console = 1 .. n /\ n \in Nat /\ n > 0 /\ DOMAIN console' = 1 .. n - 1
        /\ \A i \in DOMAIN console' : i + 1 \in DOMAIN console /\ console'[i] = console[i + 1]
        /\ Len(console') = n - 1 /\ console' \in Seq(LineType) /\ console # <<>>
    BY <2>1, TailIs DEF Reads, ConsoleInv
  <2>3. /\ 1 \in DOMAIN console /\ l.boot \in Nat /\ l.uptime \in Nat /\ l.boot <= boots
        /\ l.boot = boots => l.uptime <= clock - bootAt
    BY <2>2, LineTypes DEF ConsoleInv
  <2>4. \A i \in DOMAIN console' :
           /\ l.boot <= console'[i].boot
           /\ l.boot = console'[i].boot =>
                 /\ l.uptime <= console'[i].uptime
                 /\ console'[i].body = "banner" => l.body = "banner"
    BY <2>2, <2>3, FirstLineIsOldest
  <2>5. ~missed /\ ~l.cut /\ boots' = boots /\ clock' = clock /\ bootAt' = bootAt /\ at' = l.boot
        /\ attached' = (attached \/ (l.body # "banner" /\ boots = 0))
    BY <2>1, <2>3 DEF Reads, ConsoleInv
  <2>6. FedTo(tracker, l, tracker')
    BY <2>1, <2>5 DEF Reads, Remains
  <2>7. \/ l.boot = at /\ tracker.uptime <= l.uptime /\ (l.body = "banner" => Empty(tracker))
        \/ l.boot = at + 1 /\ l.body = "banner"
    BY <2>2, <2>3, <2>5 DEF ExactInv
  <2> HIDE DEF l
  <2>8. tracker'.uptime = IF l.body = "banner" THEN Nothing ELSE l.uptime
    BY <2>6 DEF FedTo, Empty
  <2>9. l.body = "banner" => Empty(tracker')
    BY <2>6 DEF FedTo
  <2>10. \A i \in DOMAIN console' : console'[i].boot = l.boot =>
            /\ tracker'.uptime <= console'[i].uptime
            /\ console'[i].body = "banner" => Empty(tracker')
    <3>1. \A i \in DOMAIN console' : Nothing <= console'[i].uptime
      BY <2>2, LineTypes DEF Nothing
    <3> QED BY <2>4, <2>8, <2>9, <3>1
  <2>11. l.boot = boots => tracker'.uptime <= clock - bootAt
    BY <1>1, <2>3, <2>8 DEF Nothing
  <2>12. console' = <<>> => l.boot = boots
    BY <2>2 DEF ConsoleInv, l
  <2>13. console' # <<>> => /\ 1 \in DOMAIN console' /\ console'[1] = console[2]
                            /\ \/ console[2].boot = l.boot
                               \/ console[2].boot = l.boot + 1 /\ console[2].body = "banner"
    <3> HAVE console' # <<>>
    <3>1. 1 \in DOMAIN console' /\ console'[1] = console[2] /\ 1 + 1 \in DOMAIN console /\ 1 + 1 = 2
      BY <2>2
    <3> QED BY <2>3, <3>1 DEF ConsoleInv, l
  <2>14. l.body = "banner" => console' # <<>> /\ console'[1].boot = l.boot
    <3> HAVE l.body = "banner"
    <3>1. 1 + 1 \in DOMAIN console /\ console[1 + 1].boot = l.boot
      BY <2>3 DEF ConsoleInv, l
    <3> QED BY <2>2, <3>1
  <2>15. attached' => tracker'.reboots = l.boot
    <3> HAVE attached'
    <3>1. tracker'.reboots = IF l.body = "banner"
                             THEN IF Empty(tracker) THEN tracker.reboots ELSE tracker.reboots + 1
                             ELSE IF l.uptime < tracker.uptime THEN tracker.reboots + 1
                             ELSE tracker.reboots
      BY <2>6 DEF FedTo, Falls
    <3>2. CASE attached /\ l.boot = at
      <4>1. tracker.reboots = at
        BY <2>5, <3>2 DEF ExactInv
      <4>2. tracker.uptime <= l.uptime /\ (l.body = "banner" => Empty(tracker))
        BY <1>1, <2>7, <3>2
      <4>3. ~(l.uptime < tracker.uptime)
        BY <1>1, <2>3, <4>2 DEF Nothing
      <4> QED BY <3>1, <3>2, <4>1, <4>2, <4>3
    <3>3. CASE attached /\ l.boot = at + 1 /\ l.body = "banner"
      <4>1. tracker.reboots = at /\ tracker.uptime # Nothing
        <5>1. tracker.reboots = at
              /\ (tracker.uptime = Nothing => l.boot = at)
          BY <2>5, <3>3 DEF ExactInv, l
        <5> QED BY <1>1, <3>3, <5>1
      <4> QED BY <3>1, <3>3, <4>1 DEF Empty
    <3>4. CASE ~attached
      <4>1. l.body # "banner" /\ boots = 0 /\ l.boot = 0 /\ tracker.reboots = 0
        <5>1. l.body # "banner" /\ boots = 0
          BY <2>5, <3>4
        <5> QED BY <1>1, <1>2, <2>3, <5>1
      <4>2. ~(l.uptime < tracker.uptime)
        BY <1>1, <2>3, <2>7, <4>1 DEF Nothing
      <4> QED BY <3>1, <4>1, <4>2
    <3> QED BY <2>7, <3>2, <3>3, <3>4
  <2>16. tracker'.uptime = Nothing => l.body = "banner"
    BY <2>3, <2>8 DEF Nothing
  <2> QED BY <2>5, <2>10, <2>11, <2>12, <2>13, <2>14, <2>15, <2>16 DEF ExactInv
<1> QED BY <1>3, <1>4, <1>5, <1>6, <1>7, <1>8, StepIs

LEMMA Restarts == Spec => [](TypeInv /\ ConsoleInv /\ RebootInv /\ ExactInv)
BY InitTyped, InitReboot, TypeStep, ConsoleStep, RebootStep, ExactStep, PTL DEF Spec

\* A restart is counted at most once, though its two banners and the fall of the
\* uptime each tell of it (_note_boot, _note_uptime), and whatever of them is lost
\* or cut; and exactly once when nothing was missed and the collector had heard
\* the boot before.
THEOREM RestartsCountedOnce == Spec => []RebootsCountedOnce
<1>1. TypeInv /\ RebootInv /\ ExactInv => RebootsCountedOnce
  <2>1. TypeInv /\ RebootInv => tracker.reboots <= boots
    BY DEF TypeInv, TrackerType, RebootInv, CountedUpTo
  <2> QED BY <2>1 DEF ExactInv, RebootsCountedOnce
<1> QED BY <1>1, Restarts, PTL

\* Slots ------------------------------------------------------------------------
LEMMA SlotsAre == Slot \subseteq Nat /\ Nothing \notin Slot
BY PbxAssumption DEF Nothing

\* What the PBX says of a slot is so.
LEMMA HeldSaid ==
    ASSUME TypeInv, OnePerSlot, NEW l, Says1(l)
    PROVE  /\ OnePerSlot'
           /\ \A sl \in Slot : Held(sl)' = IF About(l, sl) THEN Says(l) ELSE Held(sl)
<1>1. session \in [Phone -> Slot \cup {Nothing}]
  BY DEF TypeInv
<1>2. CASE Chatter /\ l = Line("other")
  <2>1. l.body = "other" /\ session' = session
    BY <1>2, OtherLineIs DEF Chatter, pbx
  <2> QED BY <2>1 DEF OnePerSlot, About, Held
<1>3. ASSUME NEW ph \in Phone, Deliver(ph), l = NumberLine(ph)
      PROVE  /\ OnePerSlot'
             /\ \A sl \in Slot : Held(sl)' = IF About(l, sl) THEN Says(l) ELSE Held(sl)
  <2>1. l.body = "fromnum" /\ session' = session
    BY <1>3, NumberLineIs DEF Deliver
  <2> QED BY <2>1 DEF OnePerSlot, About, Held
<1>4. ASSUME NEW ph \in Phone, Disconnect(ph), l = LeaveLine(ph)
      PROVE  /\ OnePerSlot'
             /\ \A sl \in Slot : Held(sl)' = IF About(l, sl) THEN Says(l) ELSE Held(sl)
  <2>1. session[ph] # Nothing /\ session' = [session EXCEPT ![ph] = Nothing]
    BY <1>4 DEF Disconnect
  <2>2. l.body = "disconnect" /\ l.slot = session[ph]
    BY <1>4, <2>1, LeaveLineIs
  <2>3. OnePerSlot'
    BY <1>1, <2>1 DEF OnePerSlot
  <2>4. \A sl \in Slot : Held(sl)' = IF sl = session[ph] THEN {} ELSE Held(sl)
    BY <1>1, <2>1, SlotsAre DEF OnePerSlot, Held
  <2> QED BY <2>2, <2>3, <2>4 DEF About, Says
<1>5. ASSUME NEW ph \in Phone, NEW slot \in Slot, Register(ph, slot), l = RegisterLine(ph, slot)
      PROVE  /\ OnePerSlot'
             /\ \A sl \in Slot : Held(sl)' = IF About(l, sl) THEN Says(l) ELSE Held(sl)
  <2>1. /\ session[ph] = Nothing /\ \A other \in Phone : session[other] # slot
        /\ session' = [session EXCEPT ![ph] = slot]
    BY <1>5 DEF Register
  <2>2. l.body = "register" /\ l.slot = slot /\ l.phone = ph
    BY <1>5, RegisterLineIs
  <2>3. OnePerSlot'
    BY <1>1, <2>1 DEF OnePerSlot
  <2>4. \A sl \in Slot : Held(sl)' = IF sl = slot THEN {ph} ELSE Held(sl)
    BY <1>1, <2>1, SlotsAre DEF Held
  <2> QED BY <2>2, <2>3, <2>4 DEF About, Says
<1> QED BY <1>2, <1>3, <1>4, <1>5 DEF Says1, Speaks

\* While nothing is missed no line but a banner forgets anything.
LEMMA NoFall ==
    ASSUME TypeInv, ConsoleInv, ExactInv, ~missed, console # <<>>, console[1].body # "banner"
    PROVE  ~Falls(tracker, console[1]) /\ console[1].boot = at
<1>1. 1 \in DOMAIN console
  BY DEF ConsoleInv
<1>2. console[1].boot = at /\ tracker.uptime <= console[1].uptime
  BY <1>1 DEF ExactInv
<1>3. console[1].uptime \in Nat /\ tracker.uptime \in Nat \cup {Nothing}
  BY <1>1, LineTypes DEF TypeInv, TrackerType
<1> QED BY <1>2, <1>3 DEF Falls, Nothing

LEMMA SlotStep ==
    TypeInv /\ ConsoleInv /\ ExactInv /\ SlotInv /\ [Next]_vars => SlotInv'
<1> SUFFICES ASSUME TypeInv, ConsoleInv, ExactInv, SlotInv, [Next]_vars
             PROVE  OnePerSlot' /\ (~missed' => \A sl \in Slot : Told(sl)')
  BY DEF SlotInv
<1>1. OnePerSlot /\ (~missed => \A sl \in Slot : Told(sl)) /\ missed \in BOOLEAN
  BY DEF SlotInv, TypeInv
<1>2. CASE Still
  <2>1. SameBooks(tracker, tracker') /\ console' = console /\ session' = session /\ missed' = missed
    BY <1>2, StillBooks DEF Still
  <2> QED BY <1>1, <2>1 DEF OnePerSlot, Told, Held, Holders, SameBooks
<1>3. ASSUME NEW l, Says1(l)
      PROVE  OnePerSlot' /\ (~missed' => \A sl \in Slot : Told(sl)')
  <2>1. /\ OnePerSlot'
        /\ \A sl \in Slot : Held(sl)' = IF About(l, sl) THEN Says(l) ELSE Held(sl)
    BY <1>1, <1>3, HeldSaid
  <2> SUFFICES ASSUME ~missed', NEW sl \in Slot PROVE Told(sl)'
    BY <2>1
  <2> DEFINE n == Len(console)
  <2>2. tracker' = tracker /\ console' = console \o <<l>> /\ ~missed /\ l \in LineType
    BY <1>3 DEF Says1, Steady, Printed, Current, LineOK, Names
  <2>3. /\ DOMAIN console = 1 .. n /\ DOMAIN console' = 1 .. n + 1
        /\ \A i \in DOMAIN console : console'[i] = console[i]
        /\ console'[n + 1] = l /\ n \in Nat
    BY <2>2, SaidIs
  <2>4. \A i \in DOMAIN console' : i \in DOMAIN console \/ i = n + 1
    BY <2>3
  <2>5. n + 1 \in DOMAIN console' /\ \A i \in DOMAIN console : n + 1 > i /\ i \in DOMAIN console'
    BY <2>3
  <2>6. CASE About(l, sl)
    <3>1. Held(sl)' = Says(l)
      BY <2>1, <2>6
    <3>2. ASSUME NEW i \in DOMAIN console',
                 \A k \in DOMAIN console' : k > i => ~About(console'[k], sl)
          PROVE  i = n + 1
      BY <2>3, <2>4, <2>5, <2>6, <3>2
    <3> QED BY <2>3, <2>5, <2>6, <3>1, <3>2 DEF Told
  <2>7. CASE ~About(l, sl)
    <3>1. Held(sl)' = Held(sl) /\ Told(sl)
      BY <1>1, <2>1, <2>2, <2>7
    <3>2. ASSUME NEW i \in DOMAIN console', About(console'[i], sl),
                 \A k \in DOMAIN console' : k > i => ~About(console'[k], sl)
          PROVE  Held(sl)' = Says(console'[i])
      <4>1. i \in DOMAIN console /\ About(console[i], sl) /\ console'[i] = console[i]
        BY <2>3, <2>4, <2>7, <3>2
      <4>2. \A k \in DOMAIN console : k > i => ~About(console[k], sl)
        BY <2>3, <2>5, <3>2
      <4> QED BY <3>1, <4>1, <4>2 DEF Told
    <3>3. (\A i \in DOMAIN console' : ~About(console'[i], sl)) => Held(sl)' = Holders(tracker', sl)
      BY <2>2, <2>3, <2>5, <3>1 DEF Told
    <3> QED BY <3>2, <3>3 DEF Told
  <2> QED BY <2>6, <2>7
<1>4. CASE Boots
  <2>1. session' = [ph \in Phone |-> Nothing]
    BY <1>4 DEF Boots, Reboot
  <2>2. OnePerSlot' /\ \A sl \in Slot : Held(sl)' = {}
    BY <2>1, SlotsAre DEF OnePerSlot, Held
  <2> SUFFICES ASSUME ~missed', NEW sl \in Slot PROVE Told(sl)'
    BY <2>2
  <2> DEFINE n == Len(console)
  <2>3. console' = console \o BootLines /\ boots' = boots + 1
    BY <1>4 DEF Boots, Printed
  <2>4. /\ n \in Nat /\ DOMAIN console = 1 .. n /\ DOMAIN console' = 1 .. n + 3
        /\ \A i \in n + 1 .. n + 3 : console'[i].body = IF i = n + 3 THEN "other" ELSE "banner"
    BY <2>3, BootedIs
  <2>5. n + 2 \in DOMAIN console' /\ console'[n + 2].body = "banner"
        /\ n + 3 \in DOMAIN console' /\ console'[n + 3].body = "other"
    <3>1. n + 2 \in n + 1 .. n + 3 /\ n + 3 \in n + 1 .. n + 3 /\ n + 2 # n + 3
      BY <2>4
    <3> QED BY <2>4, <3>1
  <2>6. About(console'[n + 2], sl) /\ ~About(console'[n + 3], sl)
    BY <2>5 DEF About
  <2>7. \A i \in DOMAIN console' : i = n + 2 \/ i = n + 3 \/ n + 2 > i
    BY <2>4
  <2>8. Says(console'[n + 2]) = {}
    BY <2>5 DEF Says
  <2>9. ASSUME NEW i \in DOMAIN console', About(console'[i], sl),
               \A k \in DOMAIN console' : k > i => ~About(console'[k], sl)
        PROVE  i = n + 2
    BY <2>5, <2>6, <2>7, <2>9
  <2> QED BY <2>2, <2>5, <2>6, <2>8, <2>9 DEF Told
<1>5. CASE Drops
  <2>1. ~missed' => ~missed /\ console' = console
    BY <1>5 DEF Drops, TypeInv
  <2>2. tracker' = tracker /\ session' = session
    BY <1>5 DEF Drops, Steady, pbx
  <2> QED BY <1>1, <2>1, <2>2 DEF OnePerSlot, Told, Held
<1>6. CASE Cuts
  BY <1>1, <1>6 DEF Cuts, pbx, OnePerSlot
<1>7. CASE FeedLine
  <2> DEFINE l == console[1]
             n == Len(console)
  <2>1. Reads(l) /\ session' = session
    BY <1>7, FeedLineIs DEF FeedLine, pbx
  <2>2. OnePerSlot'
    BY <1>1, <2>1 DEF OnePerSlot
  <2> SUFFICES ASSUME ~missed', NEW sl \in Slot PROVE Told(sl)'
    BY <2>2
  <2>3. /\ DOMAIN console = 1 .. n /\ n \in Nat /\ n > 0 /\ DOMAIN console' = 1 .. n - 1
        /\ \A i \in DOMAIN console' : i + 1 \in DOMAIN console /\ console'[i] = console[i + 1]
        /\ console # <<>> /\ 1 \in DOMAIN console
    BY <2>1, TailIs DEF Reads, ConsoleInv
  <2>4. ~missed /\ ~l.cut
    BY <2>1, <2>3 DEF Reads, ConsoleInv
  <2>5. FedTo(tracker, l, tracker') /\ Told(sl) /\ Held(sl)' = Held(sl)
    BY <1>1, <2>1, <2>4 DEF Reads, Remains, Held
  <2>6. l.body # "banner" => ~Falls(tracker, l)
    BY <2>3, <2>4, NoFall
  <2>7. \A k \in DOMAIN console : k = 1 \/ (k > 1 /\ k - 1 \in DOMAIN console' /\ console'[k - 1] = console[k])
    BY <2>3
  <2> HIDE DEF l
  <2>8. Holders(tracker', sl) = IF About(l, sl) THEN Says(l) ELSE Holders(tracker, sl)
    BY <2>5, <2>6 DEF FedTo, Holders, About, Says, Empty
  <2>9. ASSUME NEW i \in DOMAIN console', About(console'[i], sl),
               \A k \in DOMAIN console' : k > i => ~About(console'[k], sl)
        PROVE  Held(sl)' = Says(console'[i])
    <3>1. i + 1 \in DOMAIN console /\ console'[i] = console[i + 1]
      BY <2>3
    <3>2. ASSUME NEW k \in DOMAIN console, k > i + 1
          PROVE  ~About(console[k], sl)
      <4>1. k - 1 \in DOMAIN console' /\ console'[k - 1] = console[k] /\ k - 1 > i
        BY <2>3, <2>7, <3>2
      <4> QED BY <2>9, <4>1
    <3> QED BY <2>5, <2>9, <3>1, <3>2 DEF Told
  <2>10. ASSUME \A i \in DOMAIN console' : ~About(console'[i], sl)
         PROVE  Held(sl)' = Holders(tracker', sl)
    <3>1. \A k \in DOMAIN console : k > 1 => ~About(console[k], sl)
      BY <2>3, <2>7, <2>10
    <3>2. CASE About(l, sl)
      <4>1. Held(sl) = Says(l)
        BY <2>3, <2>5, <3>1, <3>2 DEF Told, l
      <4> QED BY <2>5, <2>8, <3>2, <4>1
    <3>3. CASE ~About(l, sl)
      <4>1. \A k \in DOMAIN console : ~About(console[k], sl)
        BY <2>7, <3>1, <3>3 DEF l
      <4> QED BY <2>5, <2>8, <3>3, <4>1 DEF Told
    <3> QED BY <3>2, <3>3
  <2> QED BY <2>9, <2>10 DEF Told
<1> QED BY <1>2, <1>3, <1>4, <1>5, <1>6, <1>7, StepIs

LEMMA InitSlot == Init => SlotInv
<1> SUFFICES ASSUME Init PROVE SlotInv
  OBVIOUS
<1>1. /\ session = [ph \in Phone |-> Nothing] /\ console = <<>>
      /\ DOMAIN tracker.slots = {}
  BY DEF Init, ReaderInit, InitialTracker, NoSlots
<1>2. OnePerSlot /\ \A sl \in Slot : Held(sl) = {} /\ Holders(tracker, sl) = {}
  BY <1>1, SlotsAre DEF OnePerSlot, Held, Holders
<1> QED BY <1>1, <1>2 DEF SlotInv, Told

\* The slot map names only phones on the books, and while all was read it is the
\* PBX's own: _on_register and _on_disconnect keep it, _forget_all empties it with
\* the sessions the restart ends.
THEOREM SlotMapIsThePbxs == Spec => []SlotsExact
<1>1. TypeInv /\ SlotInv => SlotsExact
  <2> SUFFICES ASSUME TypeInv, SlotInv PROVE SlotsExact
    OBVIOUS
  <2>1. \A sl \in DOMAIN tracker.slots : tracker.slots[sl] \in DOMAIN tracker.phones
    BY DEF TypeInv, BooksAgree
  <2>2. ASSUME ~missed, console = <<>>, NEW sl \in Slot, NEW ph \in Phone
        PROVE  session[ph] = sl <=> sl \in DOMAIN tracker.slots /\ tracker.slots[sl] = ph
    <3>1. Held(sl) = Holders(tracker, sl)
      BY <2>2 DEF SlotInv, Told
    <3>2. ph \in Held(sl) <=> ph \in Holders(tracker, sl)
      BY <3>1
    <3> QED BY <3>2 DEF Held, Holders
  <2> QED BY <2>1, <2>2 DEF SlotsExact
<1> QED BY <1>1, InitTyped, InitReboot, InitSlot,
           TypeStep, ConsoleStep, RebootStep, ExactStep, SlotStep, PTL DEF Spec

\* Numbers ------------------------------------------------------------------------
\* A line more: what is known before it is what was known.
LEMMA KnownAppended ==
    ASSUME ConsoleInv, NEW d \in Seq(LineType), console' = console \o d,
           tracker' = tracker, at' = at,
           NEW ph, NEW b, NEW v, NEW n \in 0 .. Len(console), KnownSoFar(ph, b, n, v)
    PROVE  KnownSoFar(ph, b, n, v)'
<1>1. console \in Seq(LineType)
  BY DEF ConsoleInv
<1>2. /\ Len(console) \in Nat /\ DOMAIN console = 1 .. Len(console)
      /\ DOMAIN (console \o d) = 1 .. Len(console) + Len(d) /\ Len(d) \in Nat
      /\ \A i \in DOMAIN (console \o d) :
            (console \o d)[i] = IF i <= Len(console) THEN console[i] ELSE d[i - Len(console)]
  BY <1>1, JoinedIs
<1>3. \A i \in 1 .. n : console'[i] = console[i]
  BY <1>2
<1>4. \A i \in 1 .. n : \A k \in i + 1 .. n : k \in 1 .. n
  OBVIOUS
<1> QED BY <1>3, <1>4 DEF KnownSoFar

LEMMA KnownSaid ==
    ASSUME TypeInv, ConsoleInv, NEW l \in LineType, console' = console \o <<l>>,
           tracker' = tracker, at' = at,
           NEW ph, NEW b, NEW v, NEW w, NEW n, n = Len(console),
           KnownSoFar(ph, b, n, v),
           w = IF Of(l, ph, b) THEN l.seq ELSE v
    PROVE  KnownSoFar(ph, b, n + 1, w)' /\ n + 1 = Len(console')
<1>1. /\ Len(console') = n + 1 /\ n \in Nat /\ DOMAIN console = 1 .. n
      /\ \A i \in DOMAIN console : console'[i] = console[i]
      /\ console'[n + 1] = l
  BY SaidIs
<1>2. \A i \in 1 .. n + 1 : i = n + 1 \/ (i \in 1 .. n /\ n + 1 \in i + 1 .. n + 1)
  BY <1>1
<1>3. \A i \in 1 .. n : i \in 1 .. n + 1 /\ \A k \in i + 1 .. n : k \in i + 1 .. n + 1 /\ k \in 1 .. n
  BY <1>1
<1>4. n + 1 \in 1 .. n + 1
  BY <1>1
<1>5. /\ \A i \in 1 .. n :
            /\ Of(console[i], ph, b)
            /\ \A k \in i + 1 .. n : ~Of(console[k], ph, b)
            => v = console[i].seq
      /\ (\A i \in 1 .. n : ~Of(console[i], ph, b)) =>
            v = IF b = at THEN Heard(tracker, ph) ELSE Nothing
  BY DEF KnownSoFar
<1>6. ASSUME NEW i \in 1 .. n + 1, Of(console'[i], ph, b),
             \A k \in i + 1 .. n + 1 : ~Of(console'[k], ph, b)
      PROVE  w = console'[i].seq
  <2>1. CASE i = n + 1
    BY <1>1, <1>6, <2>1
  <2>2. CASE i # n + 1
    <3>1. i \in 1 .. n /\ ~Of(l, ph, b)
      BY <1>1, <1>2, <1>6, <2>2
    <3>2. \A k \in i + 1 .. n : ~Of(console[k], ph, b)
      BY <1>1, <1>3, <1>6, <3>1
    <3> QED BY <1>1, <1>5, <1>6, <3>1, <3>2
  <2> QED BY <2>1, <2>2
<1>7. ASSUME \A i \in 1 .. n + 1 : ~Of(console'[i], ph, b)
      PROVE  w = IF b = at THEN Heard(tracker, ph) ELSE Nothing
  <2>1. ~Of(l, ph, b)
    BY <1>1, <1>4, <1>7
  <2>2. \A i \in 1 .. n : ~Of(console[i], ph, b)
    BY <1>1, <1>3, <1>7
  <2> QED BY <1>5, <2>1, <2>2
<1>8. KnownSoFar(ph, b, n + 1, w)'
  BY <1>6, <1>7 DEF KnownSoFar
<1> QED BY <1>1, <1>8

\* A line read: what was known after it is known after it still.
LEMMA KnownRead ==
    ASSUME TypeInv, ConsoleInv, ExactInv, ~missed, Reads(console[1]),
           NEW ph \in Phone, NEW b, b >= console[1].boot, b \in Nat, NEW v,
           NEW n \in 1 .. Len(console), KnownSoFar(ph, b, n, v)
    PROVE  KnownSoFar(ph, b, n - 1, v)'
<1> DEFINE l == console[1]
<1>1. /\ DOMAIN console = 1 .. Len(console) /\ Len(console) \in Nat
      /\ DOMAIN console' = 1 .. Len(console) - 1
      /\ \A i \in DOMAIN console' : console'[i] = console[i + 1]
      /\ console # <<>> /\ 1 \in DOMAIN console
  BY TailIs DEF Reads, ConsoleInv
<1>2. at' = l.boot /\ FedTo(tracker, l, tracker') /\ at \in Nat /\ l.boot \in Nat
  BY <1>1, LineTypes DEF Reads, Remains, ConsoleInv, TypeInv
<1>3. \/ l.body # "banner" /\ ~Falls(tracker, l) /\ l.boot = at
      \/ l.body = "banner" /\ l.boot = at /\ Empty(tracker)
      \/ l.body = "banner" /\ l.boot = at + 1
  BY <1>1, NoFall DEF ExactInv
<1> HIDE DEF l
<1>4. /\ \A i \in 1 .. n :
            /\ Of(console[i], ph, b)
            /\ \A k \in i + 1 .. n : ~Of(console[k], ph, b)
            => v = console[i].seq
      /\ (\A i \in 1 .. n : ~Of(console[i], ph, b)) =>
            v = IF b = at THEN Heard(tracker, ph) ELSE Nothing
  BY DEF KnownSoFar
<1>5. n \in Nat /\ n > 0 /\ 1 \in 1 .. n /\ n - 1 + 1 = n
  BY <1>1
<1>6. \A k \in 1 .. n : k = 1 \/ (k - 1 \in 1 .. n - 1 /\ console'[k - 1] = console[k])
  BY <1>1
<1>7. ASSUME NEW i \in 1 .. n - 1, Of(console'[i], ph, b),
             \A k \in i + 1 .. n - 1 : ~Of(console'[k], ph, b)
      PROVE  v = console'[i].seq
  <2>1. i + 1 \in 1 .. n /\ console'[i] = console[i + 1]
    BY <1>1
  <2>2. ASSUME NEW k \in (i + 1) + 1 .. n PROVE ~Of(console[k], ph, b)
    <3>1. k - 1 \in i + 1 .. n - 1 /\ k \in 1 .. n /\ k # 1
      BY <1>1
    <3> QED BY <1>6, <1>7, <3>1
  <2> QED BY <1>4, <1>7, <2>1, <2>2
<1>8. ASSUME \A i \in 1 .. n - 1 : ~Of(console'[i], ph, b)
      PROVE  v = IF b = at' THEN Heard(tracker', ph) ELSE Nothing
  <2>1. \A k \in 1 + 1 .. n : k \in 1 .. n /\ k # 1
    BY <1>5
  <2>2. \A k \in 1 + 1 .. n : ~Of(console[k], ph, b)
    BY <1>6, <1>8, <2>1
  <2>3. CASE Of(l, ph, b)
    <3>1. v = l.seq
      BY <1>4, <1>5, <2>2, <2>3 DEF l
    <3>2. b = at' /\ Heard(tracker', ph) = l.seq
      BY <1>2, <2>3 DEF Of, FedTo
    <3> QED BY <3>1, <3>2
  <2>4. CASE ~Of(l, ph, b)
    <3>1. \A i \in 1 .. n : i = 1 \/ i \in 1 + 1 .. n
      BY <1>5
    <3>2. v = IF b = at THEN Heard(tracker, ph) ELSE Nothing
      BY <1>4, <2>2, <2>4, <3>1 DEF l
    <3>3. CASE l.body # "banner"
      <4>1. at' = at /\ ~Falls(tracker, l)
        BY <1>2, <1>3, <3>3
      <4>2. b = at => Heard(tracker', ph) = Heard(tracker, ph)
        BY <1>2, <2>4, <3>3, <4>1 DEF FedTo, HeardAt, Of
      <4> QED BY <3>2, <4>1, <4>2
    <3>4. CASE l.body = "banner"
      <4>1. Heard(tracker', ph) = Nothing
        BY <1>2, <3>4 DEF FedTo, Empty, Heard
      <4>2. b = at => Empty(tracker)
        BY <1>2, <1>3, <3>4 DEF l
      <4> QED BY <3>2, <4>1, <4>2 DEF Empty, Heard
    <3> QED BY <3>3, <3>4
  <2> QED BY <2>3, <2>4
<1> QED BY <1>7, <1>8 DEF KnownSoFar

LEMMA NumberStill ==
    ASSUME TypeInv, NumberInv, SameBooks(tracker, tracker'), console' = console,
           boots' = boots, at' = at, notified' = notified, missed' = missed,
           resumed' = resumed, skipped' = skipped
    PROVE  NumberInv'
<1>1. \A ph : Heard(tracker', ph) = Heard(tracker, ph)
  BY DEF SameBooks, Heard
<1>2. tracker'.missed = tracker.missed
  BY DEF SameBooks
<1> QED BY <1>1, <1>2 DEF NumberInv, LinesKnown, PhonesKnown, KnownSoFar

\* The number of the notification before a line is the tracker's when it comes to
\* read the line: a phone's second session within a boot would blur it.
LEMMA NumberSaid ==
    ASSUME TypeInv, ConsoleInv, NumberInv, NEW l, Says1(l)
    PROVE  NumberInv'
<1> SUFFICES ASSUME ~missed', ~resumed' PROVE NumberInv'
  BY DEF NumberInv
<1>1. /\ tracker' = tracker /\ console' = console \o <<l>> /\ ~missed /\ l \in LineType
      /\ at' = at /\ boots' = boots /\ l.boot = boots /\ <<l>> \in Seq(LineType)
  BY DEF Says1, Steady, Printed, Current, LineOK, Names
<1>2. /\ Len(console) \in Nat
      /\ DOMAIN console = 1 .. Len(console) /\ DOMAIN console' = 1 .. Len(console) + 1
      /\ \A i \in DOMAIN console : console'[i] = console[i]
      /\ console'[Len(console) + 1] = l
  BY <1>1, SaidIs
<1> DEFINE Noted ==
        /\ ~resumed /\ skipped' = skipped
        /\ \A ph \in Phone : notified'[ph] = IF Of(l, ph, boots) THEN l.seq ELSE notified[ph]
        /\ l.body = "fromnum" => l.phone \in Phone /\ l.after = notified[l.phone]
<1>3. Noted
  <2>1. CASE Chatter /\ l = Line("other")
    <3>1. l.body = "other"
      BY <2>1, OtherLineIs
    <3> QED BY <2>1, <3>1 DEF Chatter, history, Of
  <2>2. ASSUME NEW q \in Phone, Disconnect(q), l = LeaveLine(q)
        PROVE  Noted
    <3>1. l.body = "disconnect"
      BY <2>2, LeaveLineIs DEF Disconnect
    <3> QED BY <2>2, <3>1 DEF Disconnect, history, Of
  <2>3. ASSUME NEW q \in Phone, Deliver(q), l = NumberLine(q),
               notified' = [notified EXCEPT ![q] = number[q]]
        PROVE  Noted
    <3>1. /\ l.body = "fromnum" /\ l.phone = q /\ l.seq = number[q] /\ l.after = notified[q]
      BY <2>3, NumberLineIs
    <3>2. resumed' = resumed /\ skipped' = skipped
      BY <2>3 DEF Deliver
    <3>3. notified \in [Phone -> Nat \cup {Nothing}]
      BY DEF TypeInv
    <3> QED BY <1>1, <2>3, <3>1, <3>2, <3>3 DEF Of
  <2>4. ASSUME NEW q \in Phone, NEW sl \in Slot, Register(q, sl), l = RegisterLine(q, sl)
        PROVE  Noted
    <3>1. l.body = "register"
      BY <2>4, RegisterLineIs
    <3>2. /\ notified' = [notified EXCEPT ![q] = Nothing] /\ skipped' = skipped
          /\ ~resumed /\ q \in fresh
      BY <2>4 DEF Register
    <3>3. notified \in [Phone -> Nat \cup {Nothing}] /\ notified[q] = Nothing
      BY <3>2 DEF TypeInv
    <3>4. notified' = notified
      BY <3>2, <3>3
    <3> QED BY <3>1, <3>2, <3>4 DEF Of
  <2> HIDE DEF Noted
  <2> QED BY <2>1, <2>2, <2>3, <2>4 DEF Says1, Speaks
<1>4. LinesKnown /\ PhonesKnown /\ tracker.missed = skipped
  BY <1>1, <1>3 DEF NumberInv
<1>5. LinesKnown'
  <2> SUFFICES ASSUME NEW i \in DOMAIN console', console'[i].body = "fromnum",
                      NEW p, NEW b, NEW v, p = console'[i].phone, b = console'[i].boot,
                      v = console'[i].after
               PROVE  KnownSoFar(p, b, i - 1, v)'
    BY DEF LinesKnown, KnownSoFar
  <2>1. i - 1 \in 0 .. Len(console)
    BY <1>2
  <2>2. KnownSoFar(p, b, i - 1, v)
    <3>1. CASE i \in DOMAIN console
      <4>1. KnownSoFar(console[i].phone, console[i].boot, i - 1, console[i].after)
        BY <1>2, <1>4, <3>1 DEF LinesKnown
      <4> QED BY <1>2, <3>1, <4>1
    <3>2. CASE i = Len(console) + 1
      <4>1. i - 1 = Len(console) /\ console'[i] = l
        BY <1>2, <3>2
      <4>2. p \in Phone /\ b = boots /\ v = notified[p]
        BY <1>1, <1>3, <4>1
      <4> QED BY <1>4, <4>1, <4>2 DEF PhonesKnown
    <3> QED BY <1>2, <3>1, <3>2
  <2> QED BY <1>1, <2>1, <2>2, KnownAppended
<1>6. PhonesKnown'
  <2> SUFFICES ASSUME NEW ph \in Phone, NEW b, NEW n, NEW w,
                      b = boots, n = Len(console'), w = notified'[ph]
               PROVE  KnownSoFar(ph, b, n, w)'
    BY <1>1 DEF PhonesKnown, KnownSoFar
  <2>1. PICK v, m : v = notified[ph] /\ m = Len(console)
    OBVIOUS
  <2>2. KnownSoFar(ph, b, m, v) /\ w = IF Of(l, ph, b) THEN l.seq ELSE v
    BY <1>3, <1>4, <2>1 DEF PhonesKnown
  <2>3. KnownSoFar(ph, b, m + 1, w)' /\ m + 1 = Len(console')
    BY <1>1, <2>1, <2>2, KnownSaid
  <2> QED BY <2>3
<1> QED BY <1>1, <1>3, <1>4, <1>5, <1>6 DEF NumberInv

LEMMA NumberBooted ==
    ASSUME TypeInv, ConsoleInv, NumberInv, Boots
    PROVE  NumberInv'
<1> SUFFICES ASSUME ~missed', ~resumed' PROVE NumberInv'
  BY DEF NumberInv
<1>1. /\ tracker' = tracker /\ console' = console \o BootLines /\ ~missed /\ ~resumed
      /\ at' = at /\ boots' = boots + 1 /\ skipped' = skipped
      /\ notified' = [ph \in Phone |-> Nothing]
  BY DEF Boots, Printed, Reboot
<1> DEFINE n == Len(console)
<1>2. /\ n \in Nat /\ DOMAIN console = 1 .. n /\ DOMAIN console' = 1 .. n + 3
      /\ Len(console') = n + 3
      /\ \A i \in DOMAIN console : console'[i] = console[i]
      /\ \A i \in n + 1 .. n + 3 : console'[i].body = IF i = n + 3 THEN "other" ELSE "banner"
  BY <1>1, BootedIs
<1>3. \A i \in DOMAIN console' : i \in DOMAIN console \/ console'[i].body # "fromnum"
  BY <1>2
<1>4. LinesKnown /\ PhonesKnown /\ tracker.missed = skipped
  BY <1>1 DEF NumberInv
<1>5. BootLines \in Seq(LineType)
  <2>1. BootLine("banner") \in LineType /\ BootLine("other") \in LineType
    BY <1>1, BootLineIs DEF LineOK, Names
  <2> QED BY <2>1 DEF BootLines
<1>6. LinesKnown'
  <2> SUFFICES ASSUME NEW i \in DOMAIN console', console'[i].body = "fromnum",
                      NEW p, NEW b, NEW v, p = console'[i].phone, b = console'[i].boot,
                      v = console'[i].after
               PROVE  KnownSoFar(p, b, i - 1, v)'
    BY DEF LinesKnown, KnownSoFar
  <2>1. i \in DOMAIN console /\ console'[i] = console[i] /\ i - 1 \in 0 .. Len(console)
    BY <1>2, <1>3
  <2>2. KnownSoFar(p, b, i - 1, v)
    BY <1>4, <2>1 DEF LinesKnown
  <2> QED BY <1>1, <1>5, <2>1, <2>2, KnownAppended
<1>7. PhonesKnown'
  <2>1. \A i \in 1 .. Len(console') : \A ph : ~Of(console'[i], ph, boots')
    <3> SUFFICES ASSUME NEW i \in DOMAIN console', console'[i].body = "fromnum"
                 PROVE  console'[i].boot # boots'
      BY <1>2 DEF Of
    <3>1. i \in DOMAIN console /\ console'[i] = console[i]
      BY <1>2, <1>3
    <3>2. console[i].boot <= boots /\ console[i].boot \in Nat /\ boots \in Nat
      BY <3>1, LineTypes DEF ConsoleInv, TypeInv
    <3> QED BY <1>1, <3>1, <3>2
  <2>2. boots' # at'
    BY <1>1 DEF TypeInv
  <2> QED BY <1>1, <2>1, <2>2 DEF PhonesKnown, KnownSoFar
<1> QED BY <1>1, <1>4, <1>6, <1>7 DEF NumberInv

LEMMA NumberRead ==
    ASSUME TypeInv, ConsoleInv, ExactInv, NumberInv, FeedLine
    PROVE  NumberInv'
<1> SUFFICES ASSUME ~missed', ~resumed' PROVE NumberInv'
  BY DEF NumberInv
<1> DEFINE l == console[1]
<1>1. Reads(l)
  BY FeedLineIs
<1>2. /\ DOMAIN console = 1 .. Len(console) /\ Len(console) \in Nat
      /\ DOMAIN console' = 1 .. Len(console) - 1 /\ Len(console') = Len(console) - 1
      /\ Len(console) \in 1 .. Len(console)
      /\ \A i \in DOMAIN console' : i + 1 \in DOMAIN console /\ console'[i] = console[i + 1]
      /\ console # <<>> /\ 1 \in DOMAIN console /\ l = Head(console)
  BY <1>1, TailIs DEF Reads, ConsoleInv
<1>3. ~missed /\ ~resumed /\ boots' = boots /\ notified' = notified
  BY <1>1 DEF Reads, FeedLine
<1>4. LinesKnown /\ PhonesKnown /\ tracker.missed = skipped
  BY <1>3 DEF NumberInv
<1>5. LinesKnown'
  <2> SUFFICES ASSUME NEW i \in DOMAIN console', console'[i].body = "fromnum",
                      NEW p, NEW b, NEW v, p = console'[i].phone, b = console'[i].boot,
                      v = console'[i].after
               PROVE  KnownSoFar(p, b, i - 1, v)'
    BY DEF LinesKnown, KnownSoFar
  <2>1. i + 1 \in DOMAIN console /\ console'[i] = console[i + 1] /\ i + 1 - 1 = i
        /\ i \in 1 .. Len(console) /\ i + 1 > 1
    BY <1>2
  <2>2. KnownSoFar(p, b, i, v)
    BY <1>4, <2>1 DEF LinesKnown
  <2>3. b >= l.boot /\ b \in Nat /\ p \in Phone
    <3>1. console[1].boot <= console[i + 1].boot
      BY <1>2, <2>1 DEF ConsoleInv
    <3>2. LineOK(console[i + 1]) /\ b \in Nat /\ console[1].boot \in Nat
      BY <1>2, <2>1, LineTypes
    <3> QED BY <2>1, <3>1, <3>2 DEF LineOK, Names
  <2> QED BY <1>1, <1>3, <2>1, <2>2, <2>3, KnownRead
<1>6. PhonesKnown'
  <2> SUFFICES ASSUME NEW ph \in Phone, NEW b, NEW n, NEW v,
                      b = boots, n = Len(console'), v = notified'[ph]
               PROVE  KnownSoFar(ph, b, n, v)'
    BY <1>3 DEF PhonesKnown, KnownSoFar
  <2>1. PICK m : m = Len(console)
    OBVIOUS
  <2>2. KnownSoFar(ph, b, m, v) /\ n = m - 1 /\ m \in 1 .. Len(console)
    BY <1>2, <1>3, <1>4, <2>1 DEF PhonesKnown
  <2>3. b >= l.boot /\ b \in Nat
    BY <1>2 DEF ConsoleInv, TypeInv
  <2>4. KnownSoFar(ph, b, m - 1, v)'
    BY <1>1, <1>3, <2>2, <2>3, KnownRead
  <2> QED BY <2>2, <2>4
<1>7. tracker'.missed = skipped'
  <2>1. FedTo(tracker, l, tracker') /\ LineOK(l)
    BY <1>1, <1>2, <1>3 DEF Reads, Remains, ConsoleInv
  <2>2. skipped' = skipped + (IF l.after = Nothing THEN 0 ELSE l.seq - l.after - 1)
    BY <1>2 DEF FeedLine
  <2>3. skipped \in Nat /\ l.seq \in Nat /\ l.after \in Nat \cup {Nothing}
    BY <1>2, LineTypes DEF TypeInv
  <2>4. CASE l.body = "fromnum"
    <3>1. ~Falls(tracker, l) /\ l.boot = at
      BY <1>2, <1>3, <2>4, NoFall
    <3>2. KnownSoFar(l.phone, l.boot, 0, l.after)
      BY <1>2, <1>4, <2>4 DEF LinesKnown
    <3>3. l.after = Heard(tracker, l.phone)
      BY <3>1, <3>2 DEF KnownSoFar
    <3> HIDE DEF l
    <3>4. tracker'.missed = tracker.missed + Charged(l.after, l.seq)
      BY <2>1, <2>4, <3>1, <3>3 DEF FedTo, HeardAt
    <3>5. l.after < l.seq
      BY <2>1, <2>4 DEF LineOK
    <3>6. Charged(l.after, l.seq) = IF l.after = Nothing THEN 0 ELSE l.seq - l.after - 1
      BY <2>3, <3>5 DEF Charged, Nothing
    <3> QED BY <1>4, <2>2, <3>4, <3>6
  <2>5. CASE l.body # "fromnum"
    <3> HIDE DEF l
    <3>1. l.after = Nothing
      BY <2>1, <2>5 DEF LineOK
    <3>2. tracker'.missed = tracker.missed \/ tracker'.missed = tracker.missed + 0
      BY <2>1, <2>5 DEF FedTo
    <3> QED BY <1>4, <2>2, <2>3, <3>1, <3>2
  <2> QED BY <2>4, <2>5
<1> QED BY <1>5, <1>6, <1>7 DEF NumberInv

LEMMA NumberStep ==
    TypeInv /\ ConsoleInv /\ ExactInv /\ NumberInv /\ [Next]_vars => NumberInv'
<1> SUFFICES ASSUME TypeInv, ConsoleInv, ExactInv, NumberInv, [Next]_vars PROVE NumberInv'
  OBVIOUS
<1>1. CASE Still
  BY <1>1, StillBooks, NumberStill DEF Still
<1>2. ASSUME NEW l, Says1(l) PROVE NumberInv'
  BY <1>2, NumberSaid
<1>3. CASE Boots
  BY <1>3, NumberBooted
<1>4. CASE Drops
  <2>1. CASE missed'
    BY <2>1 DEF NumberInv
  <2>2. CASE ~missed'
    <3>1. ~missed /\ console' = console
      BY <1>4, <2>2 DEF Drops
    <3>2. missed' = missed /\ SameBooks(tracker, tracker')
      BY <1>4, <2>2, <3>1 DEF Drops, Steady, SameBooks, TypeInv
    <3> QED BY <1>4, <3>1, <3>2, NumberStill DEF Drops, Steady, history
  <2> QED BY <2>1, <2>2
<1>5. CASE Cuts
  BY <1>5 DEF Cuts, NumberInv
<1>6. CASE FeedLine
  BY <1>6, NumberRead
<1> QED BY <1>1, <1>2, <1>3, <1>4, <1>5, <1>6, StepIs

LEMMA InitNumber == Init => NumberInv
<1> SUFFICES ASSUME Init PROVE NumberInv
  OBVIOUS
<1>1. /\ console = <<>> /\ DOMAIN tracker.phones = {} /\ tracker.missed = 0 /\ skipped = 0
      /\ notified = [ph \in Phone |-> Nothing]
  BY DEF Init, ReaderInit, InitialTracker, NoPhones
<1>2. \A ph : Heard(tracker, ph) = Nothing
  BY <1>1 DEF Heard
<1> QED BY <1>1, <1>2 DEF NumberInv, LinesKnown, PhonesKnown, KnownSoFar

LEMMA BooksKept ==
    Spec => [](TypeInv /\ ConsoleInv /\ ExactInv /\ SlotInv /\ NumberInv)
BY InitTyped, InitReboot, InitSlot, InitNumber, TypeStep, ConsoleStep, RebootStep, ExactStep,
   SlotStep, NumberStep, PTL DEF Spec

\* Packets ------------------------------------------------------------------------
LEMMA StartIs == OneStart => FirstNumber \in Nat /\ \A n \in Starts : n = FirstNumber
BY StartsAssumption DEF OneStart, FirstNumber

LEMMA DeliverIs ==
    ASSUME TypeInv, OneStart, MadeSoFar, NEW ph \in Phone, Deliver(ph)
    PROVE  /\ MadeSoFar' /\ made \subseteq made'
           /\ made' = made \cup {Packet(ph, sessions[ph], number[ph])}
           /\ Packet(ph, sessions[ph], number[ph]) \notin made
           /\ FirstNumber <= number[ph]
           /\ \A m \in FirstNumber .. number[ph] : Packet(ph, sessions[ph], m) \in made'
<1>1. /\ made' = made \cup {Packet(ph, sessions[ph], number[ph])}
      /\ number' = [number EXCEPT ![ph] = @ + 1]
      /\ session' = session /\ sessions' = sessions /\ session[ph] # Nothing
  BY DEF Deliver
<1>2. FirstNumber \in Nat /\ number \in [Phone -> Nat] /\ sessions \in [Phone -> Nat]
      /\ \A p \in made : p.phone \in Phone /\ p.session \in Nat /\ p.seq \in Nat
  BY StartIs DEF TypeInv
<1>3. FirstNumber <= number[ph] /\ UpTo(ph, sessions[ph], number[ph] - 1)
  BY <1>1 DEF MadeSoFar
<1> DEFINE new == Packet(ph, sessions[ph], number[ph])
<1>4. new.phone = ph /\ new.session = sessions[ph] /\ new.seq = number[ph]
  BY DEF Packet
<1>5. new \notin made
  BY <1>1, <1>2, <1>4 DEF MadeSoFar
<1>6. \A m \in FirstNumber .. number[ph] : Packet(ph, sessions[ph], m) \in made'
  <2> TAKE m \in FirstNumber .. number[ph]
  <2>1. CASE m = number[ph]
    BY <1>1, <2>1
  <2>2. CASE m # number[ph]
    <3>1. m \in FirstNumber .. number[ph] - 1
      BY <1>2, <2>2
    <3> QED BY <1>1, <1>3, <3>1 DEF UpTo
  <2> QED BY <2>1, <2>2
<1>7. \A p \in made' :
        /\ p.session <= sessions[p.phone]
        /\ p.session = sessions[p.phone] /\ session[p.phone] # Nothing
           => p.seq < number'[p.phone]
  <2> TAKE p \in made'
  <2>1. CASE p = new
    BY <1>1, <1>2, <1>4, <2>1
  <2>2. CASE p # new
    <3>1. p \in made
      BY <1>1, <2>2
    <3>2. number[p.phone] <= number'[p.phone] /\ number'[p.phone] \in Nat /\ number[p.phone] \in Nat
      BY <1>1, <1>2, <3>1
    <3> QED BY <1>2, <3>1, <3>2 DEF MadeSoFar
  <2> QED BY <2>1, <2>2
<1>8. ASSUME NEW q \in Phone, session[q] # Nothing
      PROVE  /\ FirstNumber <= number'[q]
             /\ \A m \in FirstNumber .. number'[q] - 1 : Packet(q, sessions[q], m) \in made'
  <2>1. CASE q = ph
    <3>1. number'[q] - 1 = number[ph] /\ FirstNumber <= number'[q]
      BY <1>1, <1>2, <1>3, <2>1
    <3> QED BY <1>6, <2>1, <3>1
  <2>2. CASE q # ph
    <3>1. number'[q] = number[q]
      BY <1>1, <1>2, <2>2
    <3> QED BY <1>1, <1>8, <3>1 DEF MadeSoFar, UpTo
  <2> QED BY <2>1, <2>2
<1>9. MadeSoFar'
  BY <1>1, <1>7, <1>8 DEF MadeSoFar, UpTo
<1> QED BY <1>1, <1>3, <1>5, <1>6, <1>9

LEMMA MadeStep ==
    OneStart /\ TypeInv /\ MadeSoFar /\ [Next]_vars
    => /\ MadeSoFar' /\ made \subseteq made'
       /\ \A ph \in Phone : sessions[ph] <= sessions'[ph]
<1> SUFFICES ASSUME OneStart, TypeInv, MadeSoFar, [Next]_vars
             PROVE  /\ MadeSoFar' /\ made \subseteq made'
                    /\ \A ph \in Phone : sessions[ph] <= sessions'[ph]
  OBVIOUS
<1>1. FirstNumber \in Nat /\ number \in [Phone -> Nat] /\ sessions \in [Phone -> Nat]
      /\ session \in [Phone -> Slot \cup {Nothing}]
      /\ \A p \in made : p.phone \in Phone /\ p.session \in Nat /\ p.seq \in Nat
  BY StartIs DEF TypeInv
<1> DEFINE Goal == /\ MadeSoFar' /\ made \subseteq made'
                   /\ \A ph \in Phone : sessions[ph] <= sessions'[ph]
<1>2. ASSUME UNCHANGED <<made, sessions, session, number>> PROVE Goal
  <2>1. MadeSoFar'
    BY <1>2 DEF MadeSoFar, UpTo
  <2> QED BY <1>1, <1>2, <2>1
<1>3. ASSUME NEW ph \in Phone, Deliver(ph) PROVE Goal
  <2>1. sessions' = sessions
    BY <1>3 DEF Deliver
  <2> QED BY <1>1, <1>3, <2>1, DeliverIs
<1>4. ASSUME NEW ph \in Phone, Disconnect(ph) PROVE Goal
  <2>1. session' = [session EXCEPT ![ph] = Nothing] /\ made' = made /\ sessions' = sessions
        /\ number' = number
    BY <1>4 DEF Disconnect, history
  <2>2. \A q \in Phone : session'[q] # Nothing => session[q] # Nothing
    BY <1>1, <2>1
  <2>3. MadeSoFar'
    BY <1>1, <2>1, <2>2 DEF MadeSoFar, UpTo
  <2> QED BY <1>1, <2>1, <2>3
<1>5. ASSUME NEW ph \in Phone, NEW sl \in Slot, Register(ph, sl) PROVE Goal
  <2>1. /\ session' = [session EXCEPT ![ph] = sl] /\ made' = made
        /\ sessions' = [sessions EXCEPT ![ph] = @ + 1]
        /\ number' = [number EXCEPT ![ph] = FirstNumber]
    BY <1>5, StartIs DEF Register
  <2>2. \A q \in Phone : q # ph => session'[q] = session[q] /\ sessions'[q] = sessions[q]
                                   /\ number'[q] = number[q]
    BY <1>1, <2>1
  <2>3. sessions'[ph] = sessions[ph] + 1 /\ number'[ph] = FirstNumber
    BY <1>1, <2>1
  <2>4. \A p \in made : p.phone = ph => p.session < sessions'[ph]
    BY <1>1, <2>3 DEF MadeSoFar
  <2>5. \A p \in made :
          /\ p.session <= sessions'[p.phone]
          /\ p.session = sessions'[p.phone] /\ session'[p.phone] # Nothing
             => p.seq < number'[p.phone]
    <3> TAKE p \in made
    <3>1. CASE p.phone = ph
      BY <1>1, <2>3, <2>4, <3>1
    <3>2. CASE p.phone # ph
      BY <1>1, <2>2, <3>2 DEF MadeSoFar
    <3> QED BY <3>1, <3>2
  <2>6. \A q \in Phone : session'[q] # Nothing =>
           /\ FirstNumber <= number'[q]
           /\ \A m \in FirstNumber .. number'[q] - 1 : Packet(q, sessions'[q], m) \in made
    <3> TAKE q \in Phone
    <3>1. CASE q = ph
      <4>1. FirstNumber .. number'[q] - 1 = {} /\ FirstNumber <= number'[q]
        BY <1>1, <2>3, <3>1
      <4> QED BY <4>1
    <3>2. CASE q # ph
      BY <2>2, <3>2 DEF MadeSoFar, UpTo
    <3> QED BY <3>1, <3>2
  <2>7. MadeSoFar'
    BY <2>1, <2>5, <2>6 DEF MadeSoFar, UpTo
  <2>8. \A q \in Phone : sessions[q] <= sessions'[q]
    BY <1>1, <2>2, <2>3
  <2> QED BY <2>1, <2>7, <2>8
<1>6. CASE Reboot
  <2>1. made' = made /\ sessions' = sessions /\ number' = number
        /\ session' = [ph \in Phone |-> Nothing]
    BY <1>6 DEF Reboot
  <2>2. MadeSoFar'
    BY <1>1, <2>1 DEF MadeSoFar
  <2> QED BY <1>1, <2>1, <2>2
<1>7. CASE Tick \/ Chatter \/ FeedLine \/ FeedNone \/ Port \/ UNCHANGED vars
  <2>1. UNCHANGED <<made, sessions, session, number>>
    BY <1>7 DEF Tick, Chatter, FeedLine, FeedNone, Port, vars, pbx, history
  <2> QED BY <1>2, <2>1
<1> QED BY <1>3, <1>4, <1>5, <1>6, <1>7 DEF Next, PbxStep

\* The fromnum lines after a step that reads none: those before it, and that of a
\* packet delivered in the step.
LEMMA NumbersCome ==
    ASSUME TypeInv, ConsoleInv, Still \/ (\E l : Says1(l)) \/ Boots \/ Drops \/ Cuts,
           NEW i \in DOMAIN console', console'[i].body = "fromnum"
    PROVE  \/ i \in DOMAIN console /\ SameButCut(console'[i], console[i])
           \/ Says1(console'[i]) /\ \A j \in DOMAIN console' : j <= i
<1>1. CASE Still
  BY <1>1 DEF Still, SameButCut
<1>2. ASSUME NEW l, Says1(l)
      PROVE  \/ i \in DOMAIN console /\ SameButCut(console'[i], console[i])
             \/ Says1(console'[i]) /\ \A j \in DOMAIN console' : j <= i
  <2>1. l \in LineType /\ (console' = console \/ console' = console \o <<l>>)
    BY <1>2 DEF Says1, Printed, Current, LineOK, Names
  <2>2. CASE console' = console
    BY <2>2 DEF SameButCut
  <2>3. CASE console' = console \o <<l>>
    <3>1. /\ Len(console) \in Nat
          /\ DOMAIN console = 1 .. Len(console) /\ DOMAIN console' = 1 .. Len(console) + 1
          /\ \A k \in DOMAIN console : console'[k] = console[k]
          /\ console'[Len(console) + 1] = l
      BY <2>1, <2>3, SaidIs
    <3>2. CASE i \in DOMAIN console
      BY <3>1, <3>2 DEF SameButCut
    <3>3. CASE i = Len(console) + 1
      BY <1>2, <3>1, <3>3
    <3> QED BY <3>1, <3>2, <3>3
  <2> QED BY <2>1, <2>2, <2>3
<1>3. CASE Boots
  <2>1. boots' = boots + 1 /\ (console' = console \/ console' = console \o BootLines)
    BY <1>3 DEF Boots, Printed
  <2>2. CASE console' = console
    BY <2>2 DEF SameButCut
  <2>3. CASE console' = console \o BootLines
    <3> DEFINE n == Len(console)
    <3>1. /\ n \in Nat /\ DOMAIN console = 1 .. n /\ DOMAIN console' = 1 .. n + 3
          /\ \A k \in DOMAIN console : console'[k] = console[k]
          /\ \A k \in n + 1 .. n + 3 : console'[k].body = IF k = n + 3 THEN "other" ELSE "banner"
      BY <2>1, <2>3, BootedIs
    <3>2. i \in DOMAIN console
      BY <3>1
    <3> QED BY <3>1, <3>2 DEF SameButCut
  <2> QED BY <2>1, <2>2, <2>3
<1>4. CASE Drops
  BY <1>4 DEF Drops
<1>5. CASE Cuts
  <2>1. PICK k \in DOMAIN console : console' = [console EXCEPT ![k].cut = TRUE]
    BY <1>5 DEF Cuts
  <2> QED BY <2>1, CutIs DEF ConsoleInv
<1> QED BY <1>1, <1>2, <1>3, <1>4, <1>5

LEMMA NumberSaidIs ==
    ASSUME TypeInv, OneStart, MadeSoFar, NEW l, Says1(l), l.body = "fromnum"
    PROVE  /\ l.phone \in Phone /\ l.session = sessions[l.phone] /\ FirstNumber <= l.seq
           /\ \A m \in FirstNumber .. l.seq : Packet(l.phone, l.session, m) \in made'
           /\ \A p \in made : p.phone = l.phone => InOrder(p.session, p.seq, l)
           /\ Packet(l.phone, l.session, l.seq) \notin made
<1>1. PICK ph \in Phone : Deliver(ph) /\ l = NumberLine(ph)
  <2>1. Line("other").body = "other"
    BY OtherLineIs
  <2>2. \A ph \in Phone : session[ph] # Nothing => LeaveLine(ph).body = "disconnect"
    BY LeaveLineIs
  <2>3. \A ph \in Phone, sl \in Slot : RegisterLine(ph, sl).body = "register"
    BY RegisterLineIs
  <2>4. \A ph \in Phone : Disconnect(ph) => session[ph] # Nothing
    BY DEF Disconnect
  <2>5. \/ l = Line("other")
        \/ \E ph \in Phone : Disconnect(ph) /\ l = LeaveLine(ph)
        \/ \E ph \in Phone, sl \in Slot : l = RegisterLine(ph, sl)
        \/ \E ph \in Phone : Deliver(ph) /\ l = NumberLine(ph)
    BY DEF Says1, Speaks
  <2> QED BY <2>1, <2>2, <2>3, <2>4, <2>5
<1>2. l.phone = ph /\ l.session = sessions[ph] /\ l.seq = number[ph]
  BY <1>1, NumberLineIs
<1>3. /\ Packet(ph, sessions[ph], number[ph]) \notin made
      /\ FirstNumber <= number[ph]
      /\ \A m \in FirstNumber .. number[ph] : Packet(ph, sessions[ph], m) \in made'
  BY <1>1, DeliverIs
<1>4. ASSUME NEW p \in made, p.phone = ph
      PROVE  p.session < sessions[ph] \/ (p.session = sessions[ph] /\ p.seq < number[ph])
  <2>1. session[ph] # Nothing
    BY <1>1 DEF Deliver
  <2>2. p.session \in Nat /\ sessions[ph] \in Nat
    BY DEF TypeInv
  <2> QED BY <1>4, <2>1, <2>2 DEF MadeSoFar
<1> QED BY <1>2, <1>3, <1>4 DEF InOrder

LEMMA InOrderStep ==
    OneStart /\ TypeInv /\ ConsoleInv /\ MadeInv /\ [Next]_vars => LinesInOrder'
<1> SUFFICES ASSUME OneStart, TypeInv, ConsoleInv, MadeSoFar, LinesInOrder, [Next]_vars
             PROVE  LinesInOrder'
  BY DEF MadeInv
<1>1. made \subseteq made'
  BY MadeStep
<1>2. CASE Still \/ (\E l : Says1(l)) \/ Boots \/ Drops \/ Cuts
  <2>1. ASSUME NEW i \in DOMAIN console', console'[i].body = "fromnum"
        PROVE  /\ FirstNumber <= console'[i].seq
               /\ \A m \in FirstNumber .. console'[i].seq :
                     Packet(console'[i].phone, console'[i].session, m) \in made'
    <3>1. CASE i \in DOMAIN console /\ SameButCut(console'[i], console[i])
      BY <1>1, <2>1, <3>1 DEF LinesInOrder, UpTo, SameButCut
    <3>2. CASE Says1(console'[i])
      BY <2>1, <3>2, NumberSaidIs
    <3> QED BY <1>2, <2>1, <3>1, <3>2, NumbersCome
  <2>2. ASSUME NEW i \in DOMAIN console', NEW j \in DOMAIN console', i < j,
               console'[i].body = "fromnum", console'[j].body = "fromnum",
               console'[i].phone = console'[j].phone
        PROVE  InOrder(console'[i].session, console'[i].seq, console'[j])
    <3>1. i \in DOMAIN console /\ SameButCut(console'[i], console[i])
      <4>1. ~(j <= i)
        <5>1. i \in Nat /\ j \in Nat
          <6>1. console' \in Seq(LineType)
            BY ConsoleStep DEF ConsoleInv
          <6> QED BY <6>1
        <5> QED BY <2>2, <5>1
      <4> QED BY <1>2, <2>2, <4>1, NumbersCome
    <3>2. CASE j \in DOMAIN console /\ SameButCut(console'[j], console[j])
      BY <2>2, <3>1, <3>2 DEF LinesInOrder, SameButCut, InOrder
    <3>3. CASE Says1(console'[j])
      <4> DEFINE l == console'[j]
                 c == console[i]
      <4>1. c.seq \in Nat /\ FirstNumber <= c.seq /\ FirstNumber \in Nat
            /\ \A m \in FirstNumber .. c.seq : Packet(c.phone, c.session, m) \in made
        BY <2>2, <3>1, LineTypes, StartIs DEF LinesInOrder, UpTo, SameButCut
      <4>2. Packet(c.phone, c.session, c.seq) \in made /\ c.phone = l.phone
        BY <2>2, <3>1, <4>1 DEF SameButCut
      <4>3. InOrder(c.session, c.seq, l)
        <5>1. \A p \in made : p.phone = l.phone => InOrder(p.session, p.seq, l)
          BY <2>2, <3>3, NumberSaidIs
        <5> HIDE DEF c, l
        <5> QED BY <4>2, <5>1 DEF Packet
      <4> QED BY <3>1, <4>3 DEF SameButCut
    <3> QED BY <1>2, <2>2, <3>2, <3>3, NumbersCome
  <2> QED BY <2>1, <2>2 DEF LinesInOrder, UpTo, InOrder
<1>3. CASE FeedLine
  <2>1. Reads(console[1])
    BY <1>3, FeedLineIs
  <2>2. /\ DOMAIN console = 1 .. Len(console) /\ Len(console) \in Nat
        /\ DOMAIN console' = 1 .. Len(console) - 1
        /\ \A i \in DOMAIN console' : i + 1 \in DOMAIN console /\ console'[i] = console[i + 1]
    BY <2>1, TailIs DEF Reads, ConsoleInv
  <2>3. \A i, j \in DOMAIN console' : i < j => i + 1 < j + 1
    BY <2>2
  <2> QED BY <1>1, <2>2, <2>3 DEF LinesInOrder, UpTo, InOrder
<1> QED BY <1>2, <1>3, StepIs

LEMMA InitMade == Init => MadeInv
<1> SUFFICES ASSUME Init PROVE MadeInv
  OBVIOUS
<1>1. console = <<>> /\ made = {} /\ session = [ph \in Phone |-> Nothing]
  BY DEF Init, ReaderInit
<1> QED BY <1>1 DEF MadeInv, MadeSoFar, LinesInOrder

\* The charge ---------------------------------------------------------------------
LEMMA PendingIs ==
    /\ \A p : p \in Pending <=>
          \E i \in DOMAIN console :
             /\ console[i].body = "fromnum"
             /\ p = Packet(console[i].phone, console[i].session, console[i].seq)
    /\ \A p : p \in Pending' <=>
          \E i \in DOMAIN console' :
             /\ console'[i].body = "fromnum"
             /\ p = Packet(console'[i].phone, console'[i].session, console'[i].seq)
BY DEF Pending

LEMMA InitCharge == Init => ChargeInv
<1> SUFFICES ASSUME Init PROVE ChargeInv
  OBVIOUS
<1>1. read = {} /\ DOMAIN tracker.phones = {} /\ tracker.missed = 0 /\ made = {}
  BY DEF Init, InitialTracker, NoPhones
<1>2. \A ph : Heard(tracker, ph) = Nothing
  BY <1>1 DEF Heard
<1>3. {} \in SUBSET (made \ (read \cup Pending)) /\ Cardinality({}) = tracker.missed
  BY <1>1, FS_EmptySet
<1> QED BY <1>1, <1>2, <1>3 DEF ChargeInv

\* Nothing is read: what is charged stays behind what is to come.
LEMMA ReadKept ==
    ASSUME TypeInv, Still \/ (\E l : Says1(l)) \/ Boots \/ Drops \/ Cuts
    PROVE  /\ read' = read /\ tracker'.missed = tracker.missed
           /\ \A ph : Heard(tracker', ph) = Heard(tracker, ph)
           /\ cuts' = 0 => cuts = 0
<1>1. CASE Still
  BY <1>1, StillBooks DEF Still, SameBooks, Heard
<1>2. ASSUME NEW l, Says1(l) PROVE read' = read /\ tracker' = tracker /\ cuts' = cuts
  <2>1. read' = read
    BY <1>2 DEF Says1, Speaks, Chatter, Disconnect, Register, Deliver, history
  <2> QED BY <1>2, <2>1 DEF Says1, Steady, Printed
<1>3. CASE Boots
  BY <1>3 DEF Boots, Reboot, Printed
<1>4. CASE Drops
  BY <1>4 DEF Drops, Steady, history
<1>5. CASE Cuts
  BY <1>5 DEF Cuts, Steady, history, TypeInv
<1> QED BY <1>1, <1>2, <1>3, <1>4, <1>5

\* Nothing is read: what is charged stays behind what is to come.
LEMMA ChargeKept ==
    ASSUME OneStart, TypeInv, ConsoleInv, MadeInv, ChargeInv, [Next]_vars,
           Still \/ (\E l : Says1(l)) \/ Boots \/ Drops \/ Cuts
    PROVE  ChargeInv'
<1> SUFFICES ASSUME cuts' = 0 PROVE ChargeInv'
  BY DEF ChargeInv
<1>1. /\ cuts = 0 /\ read' = read /\ tracker'.missed = tracker.missed
      /\ \A ph : Heard(tracker', ph) = Heard(tracker, ph)
  BY ReadKept
<1>2. made \subseteq made' /\ (\A ph \in Phone : sessions[ph] <= sessions'[ph]) /\ MadeSoFar
  BY MadeStep DEF MadeInv
<1>3. \A p \in made : /\ p.phone \in Phone /\ p.session \in Nat /\ p.seq \in Nat
                      /\ sessions[p.phone] \in Nat /\ sessions'[p.phone] \in Nat
  <2>1. sessions' \in [Phone -> Nat]
    BY TypeStep DEF TypeInv
  <2> QED BY <2>1 DEF TypeInv
<1>4. ASSUME NEW p \in made, Behind(p) PROVE Behind(p)'
  <2>1. ASSUME NEW i \in DOMAIN console', console'[i].body = "fromnum", console'[i].phone = p.phone
        PROVE  /\ InOrder(p.session, p.seq, console'[i])
               /\ p.session = console'[i].session /\ Heard(tracker, p.phone) # Nothing
                  => p.seq <= Heard(tracker, p.phone)
    <3>1. CASE i \in DOMAIN console /\ SameButCut(console'[i], console[i])
      BY <1>4, <2>1, <3>1 DEF Behind, InOrder, SameButCut
    <3>2. CASE Says1(console'[i])
      <4>1. /\ console'[i].session = sessions[p.phone]
            /\ InOrder(p.session, p.seq, console'[i])
        BY <1>2, <2>1, <3>2, NumberSaidIs
      <4> QED BY <1>4, <4>1 DEF Behind
    <3> QED BY <2>1, <3>1, <3>2, NumbersCome
  <2>2. p.session = sessions'[p.phone] => p.session = sessions[p.phone]
    BY <1>2, <1>3 DEF MadeSoFar
  <2> QED BY <1>1, <1>4, <2>1, <2>2 DEF Behind, InOrder
<1>5. ASSUME NEW p \in made, p \in Pending' PROVE p \in Pending
  <2>1. PICK i \in DOMAIN console' :
           /\ console'[i].body = "fromnum"
           /\ p = Packet(console'[i].phone, console'[i].session, console'[i].seq)
    BY <1>5, PendingIs
  <2>2. CASE i \in DOMAIN console /\ SameButCut(console'[i], console[i])
    BY <2>1, <2>2, PendingIs DEF SameButCut
  <2>3. CASE Says1(console'[i])
    BY <1>2, <1>5, <2>1, <2>3, NumberSaidIs
  <2> QED BY <2>1, <2>2, <2>3, NumbersCome
<1>6. PICK charged \in SUBSET (made \ (read \cup Pending)) :
         Cardinality(charged) = tracker.missed /\ \A p \in charged : Behind(p)
  BY <1>1 DEF ChargeInv
<1>7. charged \in SUBSET (made' \ (read' \cup Pending'))
  BY <1>1, <1>2, <1>5, <1>6
<1>8. \A p \in charged : Behind(p)'
  BY <1>4, <1>6
<1>9. /\ \A ph \in Phone : Heard(tracker', ph) # Nothing => FirstNumber <= Heard(tracker', ph)
      /\ read' \subseteq made' /\ \A p \in read' : Behind(p)'
  BY <1>1, <1>2, <1>4 DEF ChargeInv
<1> QED BY <1>1, <1>6, <1>7, <1>8, <1>9 DEF ChargeInv

\* The packets of a session with the numbers m .. n.
Run(ph, k, m, n) == {Packet(ph, k, j) : j \in m .. n}

LEMMA RunIs ==
    ASSUME NEW ph, NEW k, NEW m \in Int, NEW n \in Int
    PROVE  /\ IsFiniteSet(Run(ph, k, m, n))
           /\ Cardinality(Run(ph, k, m, n)) = IF m > n THEN 0 ELSE n - m + 1
<1> DEFINE S == m .. n
           T == Run(ph, k, m, n)
           f == [j \in S |-> Packet(ph, k, j)]
<1>1. f \in [S -> T] /\ \A j \in T : \E i \in S : f[i] = j
  BY DEF Run
<1>2. \A i, j \in S : f[i] = f[j] => i = j
  BY DEF Packet
<1>3. f \in Bijection(S, T)
  BY <1>1, <1>2 DEF Bijection, Injection, Surjection, IsInjective
<1>4. IsFiniteSet(S) /\ Cardinality(S) = IF m > n THEN 0 ELSE n - m + 1
  BY FS_Interval
<1> HIDE DEF S, T
<1>5. IsFiniteSet(T) /\ Cardinality(T) = Cardinality(S)
  BY <1>3, <1>4, FS_Bijection DEF ExistsBijection
<1> QED BY <1>4, <1>5 DEF T

LEMMA Disjoint ==
    ASSUME NEW S, NEW T, IsFiniteSet(S), IsFiniteSet(T), S \cap T = {}
    PROVE  IsFiniteSet(S \cup T) /\ Cardinality(S \cup T) = Cardinality(S) + Cardinality(T)
<1>1. Cardinality(S) \in Nat /\ Cardinality(T) \in Nat /\ Cardinality(S \cap T) = 0
  BY FS_CardinalityType, FS_EmptySet
<1>2. IsFiniteSet(S \cup T)
      /\ Cardinality(S \cup T) = Cardinality(S) + Cardinality(T) - Cardinality(S \cap T)
  BY FS_Union
<1> QED BY <1>1, <1>2

\* A number is read: what it skips is charged, and was neither read nor charged,
\* for that is behind it, nor is it still to be read.
LEMMA ChargeRead ==
    ASSUME OneStart, TypeInv, ConsoleInv, MadeInv, ChargeInv, [Next]_vars, FeedLine
    PROVE  ChargeInv'
<1> SUFFICES ASSUME cuts' = 0 PROVE ChargeInv'
  BY DEF ChargeInv
<1> DEFINE l == console[1]
<1>1. Reads(l)
  BY FeedLineIs
<1>2. /\ DOMAIN console = 1 .. Len(console) /\ Len(console) \in Nat
      /\ DOMAIN console' = 1 .. Len(console) - 1
      /\ \A i \in DOMAIN console' : i + 1 \in DOMAIN console /\ console'[i] = console[i + 1]
      /\ console # <<>> /\ 1 \in DOMAIN console /\ l = Head(console)
  BY <1>1, TailIs DEF Reads, ConsoleInv
<1>3. cuts = 0 /\ ~l.cut /\ made' = made /\ sessions' = sessions
  BY <1>1, <1>2 DEF Reads, FeedLine, ConsoleInv
<1>4. FedTo(tracker, l, tracker') /\ LineOK(l)
  BY <1>1, <1>3 DEF Reads, Remains
<1>5. /\ l.seq \in Nat /\ l.session \in Nat /\ FirstNumber \in Nat
      /\ \A ph \in Phone : Heard(tracker, ph) \in Nat \cup {Nothing}
  BY <1>2, LineTypes, StartIs DEF TypeInv, TrackerType, Heard, PhoneState
<1>6. \A i \in DOMAIN console' : i + 1 \in DOMAIN console /\ 1 < i + 1
  BY <1>2
<1>7. \A p \in made : p.phone \in Phone /\ p.session \in Nat /\ p.seq \in Nat
  BY DEF TypeInv
<1>8. PICK charged \in SUBSET (made \ (read \cup Pending)) :
         Cardinality(charged) = tracker.missed /\ \A p \in charged : Behind(p)
  BY <1>3 DEF ChargeInv
<1>9. /\ \A ph \in Phone : Heard(tracker, ph) # Nothing => FirstNumber <= Heard(tracker, ph)
      /\ read \subseteq made /\ \A p \in read : Behind(p)
  BY <1>3 DEF ChargeInv
<1>10. CASE l.body # "fromnum"
  <2>1. read' = read
    BY <1>2, <1>10 DEF FeedLine
  <2>2. tracker'.missed = tracker.missed
        /\ \A ph \in Phone : Heard(tracker', ph) \in {Heard(tracker, ph), Nothing}
    <3> HIDE DEF l
    <3>1. tracker.missed \in Nat
      BY DEF TypeInv, TrackerType
    <3>2. l.body = "banner" => \A ph \in Phone : Heard(tracker', ph) = Nothing
      BY <1>4 DEF FedTo, Empty, Heard
    <3>3. l.body # "banner" => \A ph \in Phone : Heard(tracker', ph) = HeardAt(tracker, l, ph)
      BY <1>4, <1>10 DEF FedTo
    <3>4. tracker'.missed = tracker.missed
      BY <1>4, <1>10, <3>1 DEF FedTo
    <3> QED BY <3>2, <3>3, <3>4 DEF HeardAt
  <2>3. ASSUME NEW p \in made, Behind(p) PROVE Behind(p)'
    BY <1>2, <1>3, <1>6, <1>7, <2>2, <2>3 DEF Behind, InOrder
  <2>4. \A p : p \in Pending' => p \in Pending
    <3> TAKE p
    <3> HAVE p \in Pending'
    <3>1. PICK i \in DOMAIN console' :
             /\ console'[i].body = "fromnum"
             /\ p = Packet(console'[i].phone, console'[i].session, console'[i].seq)
      BY PendingIs
    <3> QED BY <1>2, <3>1, PendingIs
  <2>5. charged \in SUBSET (made' \ (read' \cup Pending'))
    BY <1>3, <1>8, <2>1, <2>4
  <2>6. \A p \in charged \cup read : Behind(p)'
    BY <1>8, <1>9, <2>3
  <2>7. \A ph \in Phone : Heard(tracker', ph) # Nothing => FirstNumber <= Heard(tracker', ph)
    BY <1>9, <2>2
  <2> QED BY <1>3, <1>8, <1>9, <2>1, <2>2, <2>5, <2>6, <2>7 DEF ChargeInv
<1>11. CASE l.body = "fromnum"
  <2> DEFINE ph == l.phone
             prev == HeardAt(tracker, l, ph)
             P == Packet(ph, l.session, l.seq)
             N == IF prev = Nothing THEN {} ELSE Run(ph, l.session, prev + 1, l.seq - 1)
             C == charged \cup N
  <2>1. ph \in Phone
    BY <1>4, <1>11 DEF LineOK, Names
  <2>2. /\ tracker'.missed = tracker.missed + Charged(prev, l.seq)
        /\ \A q \in Phone : q # ph => Heard(tracker', q) \in {Heard(tracker, q), Nothing}
        /\ Heard(tracker', ph) = l.seq
        /\ prev \in {Heard(tracker, ph), Nothing} /\ prev \in Nat \cup {Nothing}
    <3> HIDE DEF l
    <3>1. \A q \in Phone : HeardAt(tracker, l, q) \in {Heard(tracker, q), Nothing}
      BY DEF HeardAt
    <3>2. /\ tracker'.missed = tracker.missed + Charged(prev, l.seq)
          /\ \A q \in Phone : q # ph => Heard(tracker', q) = HeardAt(tracker, l, q)
          /\ Heard(tracker', ph) = l.seq
      BY <1>4, <1>11, <2>1 DEF FedTo
    <3> QED BY <1>5, <2>1, <3>1, <3>2
  <2>3. read' = read \cup {P}
    BY <1>2, <1>3, <1>11 DEF FeedLine
  <2>4. /\ FirstNumber <= l.seq
        /\ \A m \in FirstNumber .. l.seq : Packet(ph, l.session, m) \in made
    BY <1>2, <1>11 DEF MadeInv, LinesInOrder, UpTo
  <2>5. P \in made /\ l.session <= sessions[ph] /\ P \in Pending
    <3>1. P \in made
      BY <1>5, <2>4
    <3>2. P.session = l.session /\ P.phone = ph
      BY DEF Packet
    <3>3. P.session <= sessions[P.phone]
      BY <3>1 DEF MadeInv, MadeSoFar
    <3> QED BY <1>2, <1>11, <3>1, <3>2, <3>3, PendingIs
  <2>6. \A i \in DOMAIN console' :
           console'[i].body = "fromnum" /\ console'[i].phone = ph
           => /\ InOrder(l.session, l.seq, console'[i])
              /\ console'[i].session \in Nat /\ console'[i].seq \in Nat
    BY <1>2, <1>6, <1>11, LineTypes DEF MadeInv, LinesInOrder
  <2>7. sessions[ph] \in Nat
    BY <2>1 DEF TypeInv
  <2>8. \A p \in made : Behind(p) /\ p.phone = ph =>
           /\ p.session < l.session \/ (p.session = l.session /\ p.seq < l.seq)
           /\ p.session = l.session /\ prev # Nothing => p.seq <= prev
    BY <1>2, <1>11, <2>2 DEF Behind, InOrder
  <2>9. ASSUME NEW p, p.phone = ph, p.session \in Nat, p.seq \in Nat,
               p.session < l.session \/ (p.session = l.session /\ p.seq <= l.seq)
        PROVE  Behind(p)'
    <3> DEFINE n == p.session
               k == p.seq
    <3> HIDE DEF ph, l
    <3>1. \A i \in DOMAIN console' : console'[i].body = "fromnum" /\ console'[i].phone = ph =>
              /\ InOrder(n, k, console'[i])
              /\ n = console'[i].session => k <= l.seq
      BY <1>5, <2>6, <2>9 DEF InOrder
    <3>2. n = sessions[ph] => k <= l.seq
      BY <1>5, <2>5, <2>7, <2>9
    <3> QED BY <1>3, <2>2, <2>9, <3>1, <3>2 DEF Behind, InOrder
  <2>10. ASSUME NEW p \in made, Behind(p) PROVE Behind(p)'
    <3>1. CASE p.phone = ph
      <4>1. p.session < l.session \/ (p.session = l.session /\ p.seq <= l.seq)
        BY <1>5, <1>7, <2>8, <2>10, <3>1
      <4> QED BY <1>7, <2>9, <3>1, <4>1
    <3>2. CASE p.phone # ph
      <4>1. Heard(tracker', p.phone) \in {Heard(tracker, p.phone), Nothing}
        BY <1>7, <2>2, <3>2
      <4> HIDE DEF ph, l
      <4> QED BY <1>2, <1>3, <1>6, <1>7, <2>10, <4>1 DEF Behind, InOrder
    <3> QED BY <3>1, <3>2
  <2>11. /\ \A p : p \in Pending' => p \in Pending
         /\ \A k \in Nat : k <= l.seq => Packet(ph, l.session, k) \notin Pending'
    <3>1. ASSUME NEW p, p \in Pending' PROVE p \in Pending
      <4>1. PICK i \in DOMAIN console' :
               /\ console'[i].body = "fromnum"
               /\ p = Packet(console'[i].phone, console'[i].session, console'[i].seq)
        BY <3>1, PendingIs
      <4> QED BY <1>2, <4>1, PendingIs
    <3>2. ASSUME NEW k \in Nat, k <= l.seq, Packet(ph, l.session, k) \in Pending' PROVE FALSE
      <4>1. PICK i \in DOMAIN console' :
               /\ console'[i].body = "fromnum"
               /\ Packet(ph, l.session, k)
                     = Packet(console'[i].phone, console'[i].session, console'[i].seq)
        BY <3>2, PendingIs
      <4>2. ph = console'[i].phone /\ l.session = console'[i].session /\ k = console'[i].seq
        BY <4>1 DEF Packet
      <4> QED BY <1>5, <2>6, <3>2, <4>1, <4>2 DEF InOrder
    <3> QED BY <3>1, <3>2
  <2>12. ASSUME prev # Nothing
         PROVE  /\ prev \in Nat /\ prev = Heard(tracker, ph) /\ FirstNumber <= prev
    BY <1>9, <2>1, <2>2, <2>12
  <2>13. ASSUME NEW p \in N
         PROVE  /\ p \in made /\ ~Behind(p) /\ p # P /\ p \notin Pending' /\ Behind(p)'
    <3>1. prev # Nothing
      BY <2>13
    <3>2. PICK j \in prev + 1 .. l.seq - 1 : p = Packet(ph, l.session, j)
      BY <2>13, <3>1 DEF Run
    <3> HIDE DEF ph, l, prev
    <3>3. j \in Nat /\ j \in FirstNumber .. l.seq /\ j < l.seq /\ j > prev
      BY <1>5, <2>12, <3>1
    <3>4. p.phone = ph /\ p.session = l.session /\ p.seq = j
      BY <3>2 DEF Packet
    <3>5. p \in made /\ p \notin Pending'
      BY <2>4, <2>11, <3>2, <3>3
    <3>6. ~Behind(p)
      BY <2>8, <2>12, <3>1, <3>3, <3>4, <3>5
    <3>7. p # P
      BY <1>5, <3>3, <3>4 DEF Packet
    <3>8. Behind(p)'
      BY <1>5, <2>9, <3>3, <3>4
    <3> QED BY <3>5, <3>6, <3>7, <3>8
  <2>14. C \in SUBSET (made' \ (read' \cup Pending'))
    <3>1. P \notin Pending'
      BY <1>5, <2>11
    <3> HIDE DEF N, P
    <3> QED BY <1>3, <1>8, <1>9, <2>3, <2>5, <2>11, <2>13
  <2>15. IsFiniteSet(N) /\ Cardinality(N) = Charged(prev, l.seq)
    <3>1. CASE prev = Nothing
      BY <3>1, FS_EmptySet DEF Charged
    <3>2. CASE prev # Nothing
      <4> HIDE DEF l, ph, prev
      <4>1. prev \in Nat /\ prev + 1 \in Int /\ l.seq - 1 \in Int
        BY <1>5, <2>12, <3>2
      <4>2. /\ IsFiniteSet(N)
            /\ Cardinality(N) = IF prev + 1 > l.seq - 1 THEN 0 ELSE (l.seq - 1) - (prev + 1) + 1
        BY <3>2, <4>1, RunIs
      <4> QED BY <1>5, <3>2, <4>1, <4>2 DEF Charged
    <3> QED BY <3>1, <3>2
  <2>16. Cardinality(C) = tracker'.missed
    <3>1. IsFiniteSet(charged)
      <4>1. charged \in SUBSET made /\ IsFiniteSet(made)
        BY <1>8 DEF TypeInv
      <4> QED BY <4>1, FS_Subset
    <3>2. charged \cap N = {}
      <4> HIDE DEF N
      <4> QED BY <1>8, <2>13
    <3> HIDE DEF N, prev
    <3>3. Cardinality(C) = Cardinality(charged) + Cardinality(N)
      BY <2>15, <3>1, <3>2, Disjoint
    <3> QED BY <1>8, <2>2, <2>15, <3>3
  <2>17. \A p \in C : Behind(p)'
    <3> HIDE DEF N
    <3> QED BY <1>8, <2>10, <2>13
  <2>18. \A p \in read' : Behind(p)'
    <3>1. ASSUME NEW p, p = P PROVE Behind(p)'
      <4>1. p.phone = ph /\ p.session = l.session /\ p.seq = l.seq
        BY <3>1 DEF Packet
      <4> HIDE DEF P, ph, l
      <4> QED BY <1>5, <2>9, <4>1
    <3> HIDE DEF P
    <3> QED BY <1>9, <2>3, <2>10, <3>1
  <2>19. /\ \A q \in Phone : Heard(tracker', q) # Nothing => FirstNumber <= Heard(tracker', q)
         /\ read' \subseteq made'
    <3>1. \A q \in Phone : Heard(tracker', q) # Nothing => FirstNumber <= Heard(tracker', q)
      <4> HIDE DEF ph, l
      <4> QED BY <1>9, <2>2, <2>4
    <3>2. read' \subseteq made'
      <4> HIDE DEF P
      <4> QED BY <1>3, <1>9, <2>3, <2>5
    <3> QED BY <3>1, <3>2
  <2> HIDE DEF C
  <2>20. \E D \in SUBSET (made' \ (read' \cup Pending')) :
            Cardinality(D) = tracker'.missed /\ \A p \in D : Behind(p)'
    BY <2>14, <2>16, <2>17
  <2> QED BY <2>18, <2>19, <2>20 DEF ChargeInv
<1> QED BY <1>10, <1>11

LEMMA ChargeStep ==
    OneStart /\ TypeInv /\ ConsoleInv /\ MadeInv /\ ChargeInv /\ [Next]_vars => ChargeInv'
BY ChargeKept, ChargeRead, StepIs

LEMMA MadeInvStep ==
    OneStart /\ TypeInv /\ ConsoleInv /\ MadeInv /\ [Next]_vars => MadeInv'
BY MadeStep, InOrderStep DEF MadeInv

\* The loss figure is exact: while nothing is missed and no phone has a second
\* session in a boot, what _note_fromnum charges is what the log left out.
THEOREM ChargedIsWhatWasSkipped ==
    Spec => [](~missed /\ ~resumed => tracker.missed = skipped)
<1>1. NumberInv => (~missed /\ ~resumed => tracker.missed = skipped)
  BY DEF NumberInv
<1> QED BY <1>1, BooksKept, PTL

\* And it invents nothing: each packet charged was made available, and its
\* notification neither read nor still to be read, whatever was lost on the way.
\* The sessions have one start: see the README for what another does.
THEOREM LossFigureIsTrue ==
    ASSUME OneStart
    PROVE  Spec => []LossFigureTrue
<1>1. TypeInv /\ NumberInv /\ ChargeInv => LossFigureTrue
  <2> SUFFICES ASSUME TypeInv, NumberInv, ChargeInv PROVE LossFigureTrue
    OBVIOUS
  <2>1. ASSUME cuts = 0
        PROVE  tracker.missed <= Cardinality(made \ (read \cup Pending))
    <3>1. PICK charged \in SUBSET (made \ (read \cup Pending)) :
             Cardinality(charged) = tracker.missed
      BY <2>1 DEF ChargeInv
    <3>2. IsFiniteSet(made \ (read \cup Pending))
      BY FS_Difference DEF TypeInv
    <3> QED BY <3>1, <3>2, FS_Subset
  <2> QED BY <2>1 DEF LossFigureTrue, NumberInv
<1>2. Init => TypeInv /\ ConsoleInv /\ MadeInv /\ ChargeInv
  BY InitTyped, InitMade, InitCharge
<1>3. TypeInv /\ ConsoleInv /\ MadeInv /\ ChargeInv /\ [Next]_vars
      => TypeInv' /\ ConsoleInv' /\ MadeInv' /\ ChargeInv'
  BY TypeStep, ConsoleStep, MadeInvStep, ChargeStep
<1> QED BY <1>1, <1>2, <1>3, BooksKept, PTL DEF Spec
=============================================================================
