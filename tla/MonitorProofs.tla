---------------------------- MODULE MonitorProofs ----------------------------
(***************************************************************************)
(* The monitor's subscription and the truth of its charts, for any number  *)
(* of timers, faults and points, and any size of a chart.                  *)
(***************************************************************************)
EXTENDS Dashboard, FiniteSetTheorems, TLAPS

\* The subscription --------------------------------------------------------
\* The topic is remembered before it is sent, and a link is up only with the
\* subscription unless the start-up has yet to send it.
SubInv ==
    /\ main \in {"connect", "loop", "append", "subscribe", "run"}
    /\ main \in {"subscribe", "run"} => remembered
    /\ SubscribedWhenUp

LEMMA InitSub == Init => SubInv
BY DEF Init, SubInv, SubscribedWhenUp

LEMMA NextSub ==
    ASSUME SubInv, [Next]_vars
    PROVE  SubInv'
<1>1. ASSUME NEW l, Closed(l), l # "up" PROVE link' # "up"
  BY <1>1 DEF Closed
<1>2. ASSUME NEW pending, Connect(pending) PROVE link' # "up"
  BY <1>2 DEF Connect, Closed
<1>3. CASE MainConnect
  BY <1>2, <1>3 DEF MainConnect, SubInv, SubscribedWhenUp
<1>4. CASE TimerConnect
  BY <1>2, <1>4 DEF TimerConnect, SubInv, SubscribedWhenUp
<1>5. CASE MainLoop \/ MainAppend \/ MainSubscribe
  BY <1>5 DEF MainLoop, MainAppend, MainSubscribe, SubInv, SubscribedWhenUp, session
<1>6. CASE OnConnect
  BY <1>6 DEF OnConnect, SubInv, SubscribedWhenUp, client
<1>7. CASE OnRefused
  BY <1>1, <1>7 DEF OnRefused, SubInv, SubscribedWhenUp
<1>8. CASE PahoRetry \/ BrokerChanges \/ LinkDrops
  BY <1>1, <1>8 DEF PahoRetry, BrokerChanges, LinkDrops, SubInv, SubscribedWhenUp, client
<1>9. CASE UNCHANGED vars
  BY <1>9 DEF vars, client, session, SubInv, SubscribedWhenUp
<1> QED
  BY <1>3, <1>4, <1>5, <1>6, <1>7, <1>8, <1>9 DEF Next

\* However start-up, drops, refusals and timers interleave, an accepted link of
\* a started monitor carries the subscription (MQTTConnector of utils.py).
THEOREM UpMeansSubscribed == Spec => []SubscribedWhenUp
<1>1. SubInv => SubscribedWhenUp
  BY DEF SubInv
<1> QED
  BY InitSub, NextSub, <1>1, PTL DEF Spec

\* The chart ---------------------------------------------------------------
Rising(s) == \A i, j \in DOMAIN s : i < j => s[i] < s[j]

DashTyped ==
    /\ published \in Nat /\ flushed \in 0..published /\ answeredAt \in 0..flushed
    /\ socket \in {"none", "off", "live"}
    /\ seed \in {"none", "asked", "answered", "done"}
    /\ emitted \in Seq(1..published) /\ chart \in Seq(1..published)
    /\ unheard \subseteq 1..published /\ replaced \subseteq 1..published
    /\ socket = "none" => seed = "none" /\ emitted = <<>> /\ chart = <<>>
    /\ seed = "answered" => rows = <<>> \/ rows = Newest(answeredAt)
    /\ rows = <<>> => answeredAt = 0

\* p had to give way to newer points.
GaveWay(p) == Len(chart) = MAX_POINTS /\ \A q \in Range(chart) : q > p

\* The answer came too early for p, and no event brings it.
Excused(p) == seed = "done" /\ p > answeredAt /\ p \in unheard \cup replaced

\* As long as no event was overtaken by the answer: chart and events are one
\* rising sequence; before the answer is in, it misses only what no event
\* brings or what gave way, and after, what is excused, the events that are
\* still to come being newer than the answer.
ChartSound ==
    seed # "done" \/ late = {} =>
        /\ Rising(chart) /\ Len(chart) <= MAX_POINTS
        /\ \A c \in Range(chart), e \in Range(emitted) : c < e
        /\ \A p \in (1..published) \ Shown :
              \/ GaveWay(p)
              \/ Excused(p)
              \/ seed # "done" /\ p \in unheard
        /\ seed = "done" => \A e \in Range(emitted) : e > answeredAt

DashInv == DashTyped /\ Rising(emitted) /\ ChartSound

\* Rising sequences --------------------------------------------------------
LEMMA RangeIn ==
    ASSUME NEW S, NEW T, S \subseteq T, NEW s \in Seq(S)
    PROVE  Range(s) \subseteq S /\ s \in Seq(T)
<1>1. DOMAIN s = 1..Len(s) /\ \A i \in 1..Len(s) : s[i] \in S
  OBVIOUS
<1>2. ASSUME NEW x \in Range(s) PROVE x \in S
  BY <1>1, <1>2 DEF Range
<1>3. s \in Seq(T)
  OBVIOUS
<1> QED
  BY <1>2, <1>3

LEMMA AppendIs ==
    ASSUME NEW S, NEW s \in Seq(S), NEW e \in S
    PROVE  /\ Append(s, e) \in Seq(S) /\ Len(Append(s, e)) = Len(s) + 1
           /\ Range(Append(s, e)) = Range(s) \cup {e}
<1>1. /\ Append(s, e) \in Seq(S) /\ Len(Append(s, e)) = Len(s) + 1
      /\ DOMAIN Append(s, e) = 1..(Len(s) + 1) /\ DOMAIN s = 1..Len(s) /\ Len(s) \in Nat
      /\ \A i \in 1..Len(s) : Append(s, e)[i] = s[i]
      /\ Append(s, e)[Len(s) + 1] = e
  OBVIOUS
<1>2. \A i \in 1..(Len(s) + 1) : i \in 1..Len(s) \/ i = Len(s) + 1
  BY <1>1
<1>3. Range(Append(s, e)) \subseteq Range(s) \cup {e}
  BY <1>1, <1>2 DEF Range
<1>4. Range(s) \cup {e} \subseteq Range(Append(s, e))
  <2>1. Len(s) + 1 \in 1..(Len(s) + 1) /\ \A i \in 1..Len(s) : i \in 1..(Len(s) + 1)
    BY <1>1
  <2> QED
    BY <1>1, <2>1 DEF Range
<1> QED
  BY <1>1, <1>3, <1>4

LEMMA AppendRises ==
    ASSUME NEW s \in Seq(Nat), NEW e \in Nat, Rising(s), \A q \in Range(s) : q < e
    PROVE  Rising(Append(s, e))
<1>1. /\ DOMAIN Append(s, e) = 1..(Len(s) + 1) /\ DOMAIN s = 1..Len(s) /\ Len(s) \in Nat
      /\ \A i \in 1..Len(s) : Append(s, e)[i] = s[i]
      /\ Append(s, e)[Len(s) + 1] = e
  OBVIOUS
<1>2. \A i \in 1..Len(s) : s[i] < e
  BY <1>1 DEF Range
<1>3. ASSUME NEW i \in 1..(Len(s) + 1), NEW j \in 1..(Len(s) + 1), i < j
      PROVE  Append(s, e)[i] < Append(s, e)[j]
  <2>1. i \in 1..Len(s) /\ (j \in 1..Len(s) \/ j = Len(s) + 1)
    BY <1>1, <1>3
  <2> QED
    BY <1>1, <1>2, <1>3, <2>1 DEF Rising
<1> QED
  BY <1>1, <1>3 DEF Rising

LEMMA TailRises ==
    ASSUME NEW S \in SUBSET Nat, NEW s \in Seq(S), s # <<>>, Rising(s)
    PROVE  /\ Tail(s) \in Seq(S) /\ Len(Tail(s)) = Len(s) - 1 /\ Rising(Tail(s))
           /\ Head(s) \in S /\ Range(s) = {Head(s)} \cup Range(Tail(s))
           /\ \A q \in Range(Tail(s)) : Head(s) < q
<1>1. /\ Tail(s) \in Seq(S) /\ Len(Tail(s)) = Len(s) - 1
      /\ DOMAIN Tail(s) = 1..(Len(s) - 1) /\ DOMAIN s = 1..Len(s)
      /\ Len(s) \in Nat /\ Len(s) >= 1 /\ Head(s) = s[1]
      /\ \A i \in 1..(Len(s) - 1) : Tail(s)[i] = s[i + 1]
  OBVIOUS
<1>2. \A i \in 1..(Len(s) - 1) : i + 1 \in 1..Len(s) /\ 1 < i + 1
  BY <1>1
<1>3. 1 \in 1..Len(s) /\ \A i \in 1..Len(s) : i = 1 \/ (i - 1 \in 1..(Len(s) - 1) /\ (i - 1) + 1 = i)
  BY <1>1
<1>4. Head(s) \in S
  BY <1>1, <1>3
<1>5. Rising(Tail(s))
  <2> SUFFICES ASSUME NEW i \in 1..(Len(s) - 1), NEW j \in 1..(Len(s) - 1), i < j
               PROVE  Tail(s)[i] < Tail(s)[j]
    BY <1>1 DEF Rising
  <2>1. i + 1 < j + 1
    OBVIOUS
  <2> QED
    BY <1>1, <1>2, <2>1 DEF Rising
<1>6. \A q \in Range(Tail(s)) : Head(s) < q
  BY <1>1, <1>2, <1>3 DEF Range, Rising
<1>7. Range(s) \subseteq {Head(s)} \cup Range(Tail(s))
  <2> SUFFICES ASSUME NEW i \in 1..Len(s), i # 1
               PROVE  s[i] \in Range(Tail(s))
    BY <1>1 DEF Range
  <2>1. Tail(s)[i - 1] = s[i] /\ i - 1 \in DOMAIN Tail(s)
    BY <1>1, <1>3
  <2> QED
    BY <2>1 DEF Range
<1>8. {Head(s)} \cup Range(Tail(s)) \subseteq Range(s)
  BY <1>1, <1>2, <1>3 DEF Range
<1> QED
  BY <1>1, <1>4, <1>5, <1>6, <1>7, <1>8

\* A rising sequence has as many members as places.
LEMMA RisingCounts ==
    ASSUME NEW s \in Seq(Nat), Rising(s)
    PROVE  Cardinality(Range(s)) = Len(s)
<1>1. DOMAIN s = 1..Len(s) /\ Len(s) \in Nat
  OBVIOUS
<1>2. \A i, j \in 1..Len(s) : i # j => s[i] # s[j]
  <2> SUFFICES ASSUME NEW i \in 1..Len(s), NEW j \in 1..Len(s), i # j PROVE s[i] # s[j]
    OBVIOUS
  <2>1. i < j \/ j < i
    OBVIOUS
  <2>2. s[i] \in Nat /\ s[j] \in Nat
    BY <1>1
  <2> QED
    BY <1>1, <2>1, <2>2 DEF Rising
<1>3. s \in Bijection(1..Len(s), Range(s))
  <2>1. s \in [1..Len(s) -> Range(s)]
    BY <1>1 DEF Range
  <2> QED
    BY <1>1, <1>2, <2>1 DEF Bijection, Injection, IsInjective, Surjection, Range
<1>4. ExistsBijection(1..Len(s), Range(s))
  BY <1>3 DEF ExistsBijection
<1> QED
  BY <1>1, <1>4, FS_CountingElements

\* The answer is a rising sequence of the newest points.
LEMMA NewestIs ==
    ASSUME NEW n \in Nat
    PROVE  /\ Newest(n) \in Seq(1..n) /\ Rising(Newest(n)) /\ Len(Newest(n)) <= MAX_POINTS
           /\ \A p \in (1..n) \ Range(Newest(n)) :
                  Len(Newest(n)) = MAX_POINTS /\ \A q \in Range(Newest(n)) : q > p
           /\ Newest(n) = <<>> => n = 0
<1> DEFINE k == IF n > MAX_POINTS THEN n - MAX_POINTS ELSE 0
<1>1. k \in 0..n /\ n - k <= MAX_POINTS /\ (k > 0 => n - k = MAX_POINTS)
      /\ MAX_POINTS \in Nat /\ MAX_POINTS > 0
  BY DashboardAssumption
<1>2. Newest(n) = [i \in 1..(n - k) |-> i + k]
  BY DEF Newest
<1> HIDE DEF k
<1>3. n - k \in Nat /\ \A i \in 1..(n - k) : i + k \in 1..n
  BY <1>1
<1>4. Newest(n) \in Seq(1..n) /\ Len(Newest(n)) = n - k /\ DOMAIN Newest(n) = 1..(n - k)
  BY <1>2, <1>3
<1>5. \A i \in 1..(n - k) : Newest(n)[i] = i + k
  BY <1>2
<1>6. Rising(Newest(n))
  BY <1>1, <1>4, <1>5 DEF Rising
<1>7. ASSUME NEW p \in (1..n) \ Range(Newest(n))
      PROVE  Len(Newest(n)) = MAX_POINTS /\ \A q \in Range(Newest(n)) : q > p
  <2>1. p <= k
    <3> SUFFICES ASSUME p > k PROVE FALSE
      BY <1>1
    <3>1. p - k \in 1..(n - k) /\ (p - k) + k = p
      BY <1>1
    <3> QED
      BY <1>4, <1>5, <1>7, <3>1 DEF Range
  <2>2. k > 0
    BY <1>1, <2>1
  <2>3. \A i \in 1..(n - k) : i + k > p
    BY <1>1, <2>1
  <2> QED
    BY <1>1, <1>4, <1>5, <2>2, <2>3 DEF Range
<1>8. ASSUME Newest(n) = <<>> PROVE n = 0
  <2>1. n - k = 0
    BY <1>4, <1>8
  <2> QED
    BY <1>1, <2>1
<1> QED
  BY <1>1, <1>4, <1>6, <1>7, <1>8

\* The steps ---------------------------------------------------------------
LEMMA DashNumbers ==
    ASSUME DashTyped
    PROVE  /\ published \in Nat /\ flushed \in Nat /\ answeredAt \in Nat
           /\ answeredAt <= flushed /\ flushed <= published
           /\ Range(emitted) \subseteq 1..published /\ Range(chart) \subseteq 1..published
           /\ emitted \in Seq(Nat) /\ chart \in Seq(Nat)
<1>1. published \in Nat /\ flushed \in 0..published /\ answeredAt \in 0..flushed
  BY DEF DashTyped
<1>2. ASSUME NEW s \in Seq(1..published)
      PROVE  Range(s) \subseteq 1..published /\ s \in Seq(Nat)
  <2>1. 1..published \subseteq Nat
    BY <1>1
  <2> QED
    BY <2>1, RangeIn
<1> QED
  BY <1>1, <1>2 DEF DashTyped

LEMMA InitDash == MonitorInit => DashInv
<1> SUFFICES ASSUME MonitorInit PROVE DashInv
  OBVIOUS
<1>1. DashTyped
  BY DEF MonitorInit, DashTyped
<1>2. Rising(emitted) /\ Rising(chart)
  BY DEF MonitorInit, Rising
<1>3. Range(chart) = {} /\ Len(chart) = 0 /\ 1..published = {}
  BY DEF MonitorInit, Range
<1>4. Len(chart) <= MAX_POINTS
  BY <1>3, DashboardAssumption
<1> QED
  BY <1>1, <1>2, <1>3, <1>4 DEF DashInv, ChartSound, MonitorInit

LEMMA PublishKeeps ==
    ASSUME DashInv, Publish
    PROVE  DashInv'
<1>1. /\ published \in Nat /\ published' = published + 1 /\ published < published'
      /\ UNCHANGED <<flushed, socket, seed, rows, chart, answeredAt, replaced, late>>
      /\ answeredAt < published' /\ published' \in 1..published'
      /\ 1..published' = (1..published) \cup {published'}
  BY DashNumbers DEF DashInv, Publish
<1>2. /\ Range(emitted) \subseteq 1..published /\ Range(chart) \subseteq 1..published
      /\ emitted \in Seq(1..published') /\ chart \in Seq(1..published')
      /\ emitted \in Seq(Nat) /\ chart \in Seq(Nat)
  <2>1. \A s \in Seq(1..published) : s \in Seq(1..published')
    BY <1>1
  <2> QED
    BY <2>1, DashNumbers DEF DashInv, DashTyped
<1>3. /\ \A q \in Range(emitted) \cup Range(chart) : q < published'
      /\ published' \in Nat
  BY <1>1, <1>2
<1>4. CASE emitted' = Append(emitted, published') /\ unheard' = unheard /\ socket = "live"
  <2>1. /\ emitted' \in Seq(1..published')
        /\ Range(emitted') = Range(emitted) \cup {published'}
    BY <1>1, <1>2, <1>4, AppendIs
  <2>2. Rising(emitted')
    BY <1>2, <1>3, <1>4, AppendRises DEF DashInv
  <2>3. DashTyped'
    BY <1>1, <1>2, <1>4, <2>1 DEF DashInv, DashTyped
  <2>4. ChartSound'
    <3> SUFFICES ASSUME seed # "done" \/ late = {} PROVE ChartSound'
      BY <1>1 DEF ChartSound
    <3>1. \A c \in Range(chart), e \in Range(emitted') : c < e
      BY <1>3, <2>1 DEF DashInv, ChartSound
    <3>2. \A p \in (1..published') \ Shown' : p \in (1..published) \ Shown
      BY <1>1, <2>1 DEF Shown
    <3>3. seed = "done" => \A e \in Range(emitted') : e > answeredAt
      BY <1>1, <2>1 DEF DashInv, ChartSound
    <3> QED
      BY <1>1, <1>4, <3>1, <3>2, <3>3 DEF DashInv, ChartSound, GaveWay, Excused
  <2> QED
    BY <2>2, <2>3, <2>4 DEF DashInv
<1>5. CASE unheard' = unheard \cup {published'} /\ emitted' = emitted
  <2>1. DashTyped'
    BY <1>1, <1>2, <1>5 DEF DashInv, DashTyped
  <2>2. ChartSound'
    <3> SUFFICES ASSUME seed # "done" \/ late = {} PROVE ChartSound'
      BY <1>1 DEF ChartSound
    <3>1. Shown' = Shown
      BY <1>1, <1>5 DEF Shown
    <3>2. ASSUME NEW p \in (1..published') \ Shown
          PROVE  GaveWay(p)' \/ Excused(p)' \/ (seed # "done" /\ p \in unheard')
      <4>1. CASE p = published'
        BY <1>1, <1>5, <4>1 DEF Excused
      <4>2. CASE p # published'
        BY <1>1, <1>5, <3>2, <4>2 DEF DashInv, ChartSound, GaveWay, Excused
      <4> QED
        BY <4>1, <4>2
    <3> QED
      BY <1>1, <1>5, <3>1, <3>2 DEF DashInv, ChartSound
  <2> QED
    BY <1>5, <2>1, <2>2 DEF DashInv
<1> QED
  BY <1>4, <1>5 DEF Publish

\* Steps that leave what is published, heard and drawn as it is.
LEMMA AsideKeeps ==
    ASSUME DashInv, Flush \/ SocketConnects \/ ApiRecent
    PROVE  DashInv'
<1>1. UNCHANGED <<published, emitted, chart, unheard, replaced, late>>
  BY DEF Flush, SocketConnects, ApiRecent, data, page, told
<1>2. /\ published \in Nat /\ flushed \in Nat /\ answeredAt \in Nat
      /\ answeredAt <= flushed /\ flushed <= published
  BY DashNumbers DEF DashInv
<1>3. flushed' \in 0..published
  BY <1>2 DEF Flush, SocketConnects, ApiRecent, data
<1>4. CASE Flush \/ SocketConnects
  <2>1. UNCHANGED <<seed, rows, answeredAt>> /\ flushed <= flushed'
    BY <1>2, <1>4 DEF Flush, SocketConnects, data, page, told
  <2>2. socket' = socket \/ (socket # "none" /\ socket' = "live")
    BY <1>4 DEF Flush, SocketConnects, page
  <2>3. DashTyped'
    BY <1>1, <1>2, <1>3, <2>1, <2>2 DEF DashInv, DashTyped
  <2> QED
    BY <1>1, <2>1, <2>3 DEF DashInv, ChartSound, GaveWay, Excused, Shown
<1>5. CASE ApiRecent
  <2>1. seed = "asked" /\ seed' = "answered" /\ UNCHANGED <<published, flushed, socket>>
    BY <1>5 DEF ApiRecent, data
  <2>2. /\ answeredAt' \in 0..flushed /\ (rows' = <<>> \/ rows' = Newest(answeredAt'))
        /\ (rows' = <<>> => answeredAt' = 0)
    <3>1. CASE rows' = Newest(flushed) /\ answeredAt' = flushed
      BY <1>2, <3>1, NewestIs
    <3>2. CASE rows' = <<>> /\ answeredAt' = 0
      BY <1>2, <3>2
    <3> QED
      BY <1>5, <3>1, <3>2 DEF ApiRecent
  <2>3. DashTyped'
    BY <1>1, <1>2, <2>1, <2>2 DEF DashInv, DashTyped, Newest
  <2>4. ChartSound'
    BY <1>1, <2>1 DEF DashInv, ChartSound, GaveWay, Excused, Shown
  <2> QED
    BY <1>1, <2>3, <2>4 DEF DashInv
<1> QED
  BY <1>4, <1>5

LEMMA OpenPageKeeps ==
    ASSUME DashInv, OpenPage
    PROVE  DashInv'
<1>1. emitted = <<>> /\ chart = <<>> /\ socket = "none" /\ seed' = "asked"
      /\ unheard' = 1..published /\ socket' = "off"
      /\ UNCHANGED <<published, flushed, emitted, rows, chart, answeredAt, replaced, late>>
  BY DEF DashInv, DashTyped, OpenPage, data
<1>2. DashTyped'
  BY <1>1 DEF DashInv, DashTyped
<1>3. Rising(chart) /\ Len(chart) <= MAX_POINTS /\ Range(chart) = {}
  BY <1>1, DashboardAssumption DEF Rising, Range
<1> QED
  BY <1>1, <1>2, <1>3 DEF DashInv, ChartSound

LEMMA SocketDropsKeeps ==
    ASSUME DashInv, SocketDrops
    PROVE  DashInv'
<1>1. /\ socket = "live" /\ socket' = "off" /\ emitted' = <<>>
      /\ unheard' = unheard \cup Range(emitted)
      /\ UNCHANGED <<published, flushed, seed, rows, chart, answeredAt, replaced, late>>
  BY DEF SocketDrops, data
<1>2. DashTyped'
  <2>1. unheard' \subseteq 1..published
    BY <1>1, DashNumbers DEF DashInv, DashTyped
  <2> QED
    BY <1>1, <2>1 DEF DashInv, DashTyped
<1>3. Rising(emitted') /\ Range(emitted') = {}
  BY <1>1 DEF Rising, Range
<1>4. ChartSound'
  <2> SUFFICES ASSUME seed # "done" \/ late = {} PROVE ChartSound'
    BY <1>1 DEF ChartSound
  <2>1. ASSUME NEW p \in (1..published) \ Shown'
        PROVE  GaveWay(p)' \/ Excused(p)' \/ (seed # "done" /\ p \in unheard')
    <3>1. CASE p \in Range(emitted)
      BY <1>1, <3>1 DEF DashInv, ChartSound, Excused
    <3>2. CASE p \notin Range(emitted)
      <4>1. p \in (1..published) \ Shown
        BY <1>1, <2>1, <3>2 DEF Shown
      <4> QED
        BY <1>1, <4>1 DEF DashInv, ChartSound, Excused, GaveWay
    <3> QED
      BY <3>1, <3>2
  <2> QED
    BY <1>1, <1>3, <2>1 DEF DashInv, ChartSound
<1> QED
  BY <1>2, <1>3, <1>4 DEF DashInv

LEMMA PushPointKeeps ==
    ASSUME DashInv, PushPoint
    PROVE  DashInv'
<1> DEFINE e == Head(emitted)
           more == Append(chart, e)
<1>1. /\ emitted # <<>> /\ emitted' = Tail(emitted)
      /\ chart' = IF Len(more) > MAX_POINTS THEN Tail(more) ELSE more
      /\ UNCHANGED <<published, flushed, socket, seed, rows, answeredAt, unheard, replaced,
                     late>>
  BY DEF PushPoint, data, told
<1>2. 1..published \in SUBSET Nat /\ emitted \in Seq(1..published) /\ chart \in Seq(1..published)
      /\ emitted \in Seq(Nat) /\ chart \in Seq(Nat) /\ Rising(emitted)
  BY DashNumbers DEF DashInv, DashTyped
<1>3. /\ emitted' \in Seq(1..published) /\ Rising(emitted') /\ e \in 1..published
      /\ Range(emitted) = {e} \cup Range(emitted') /\ \A q \in Range(emitted') : e < q
  BY <1>1, <1>2, TailRises
<1>4. /\ more \in Seq(1..published) /\ Len(more) = Len(chart) + 1
      /\ Range(more) = Range(chart) \cup {e} /\ more # <<>>
  <2>1. /\ more \in Seq(1..published) /\ Len(more) = Len(chart) + 1
        /\ Range(more) = Range(chart) \cup {e}
    BY <1>2, <1>3, AppendIs
  <2> QED
    BY <2>1
<1>5. Tail(more) \in Seq(1..published)
  BY <1>4
<1> HIDE DEF more
<1>6. chart' \in Seq(1..published)
  BY <1>1, <1>4, <1>5
<1> HIDE DEF e
<1>7. DashTyped'
  BY <1>1, <1>3, <1>6 DEF DashInv, DashTyped
<1>8. ChartSound'
  <2> SUFFICES ASSUME seed # "done" \/ late = {} PROVE ChartSound'
    BY <1>1 DEF ChartSound
  <2>1. /\ Rising(chart) /\ Len(chart) <= MAX_POINTS
        /\ \A c \in Range(chart), q \in Range(emitted) : c < q
    BY DEF DashInv, ChartSound
  <2>2. Rising(more)
    <3>1. \A c \in Range(chart) : c < e
      BY <1>3, <2>1
    <3> QED
      BY <1>2, <1>3, <2>1, <3>1, AppendRises DEF more, e
  <2>3. /\ \A c \in Range(more), q \in Range(emitted') : c < q
    BY <1>3, <1>4, <2>1
  <2>4. seed = "done" => \A q \in Range(emitted') : q > answeredAt
    BY <1>3 DEF DashInv, ChartSound
  <2>5. Len(chart) \in Nat /\ MAX_POINTS \in Nat /\ MAX_POINTS > 0
    BY <1>2, DashboardAssumption
  <2>6. ASSUME NEW p \in (1..published) \ (Range(more) \cup Range(emitted'))
        PROVE  \/ Len(chart) = MAX_POINTS /\ \A q \in Range(more) : q > p
               \/ Excused(p)'
               \/ seed # "done" /\ p \in unheard
    <3>1. p \notin Shown
      BY <1>3, <1>4, <2>6 DEF Shown
    <3>2. CASE GaveWay(p)
      <4>1. PICK c \in Range(chart) : c > p
        <5>1. 1 \in DOMAIN chart
          BY <1>2, <2>5, <3>2 DEF GaveWay
        <5>2. chart[1] \in Range(chart)
          BY <5>1 DEF Range
        <5> QED
          BY <3>2, <5>2 DEF GaveWay
      <4>2. c \in Nat /\ e \in Nat /\ p \in Nat /\ c < e
        BY <1>2, <1>3, <2>1, <2>6, <4>1, DashNumbers DEF DashInv
      <4>3. e > p
        BY <4>1, <4>2
      <4> QED
        BY <1>4, <3>2, <4>3 DEF GaveWay
    <3>3. CASE ~GaveWay(p)
      BY <1>1, <2>6, <3>1, <3>3 DEF DashInv, ChartSound, Excused
    <3> QED
      BY <3>2, <3>3
  <2>7. CASE Len(more) <= MAX_POINTS
    <3>1. chart' = more
      BY <1>1, <1>4, <2>5, <2>7
    <3>2. Len(chart) # MAX_POINTS
      BY <1>4, <2>5, <2>7
    <3> QED
      BY <1>1, <2>2, <2>3, <2>4, <2>6, <2>7, <3>1, <3>2 DEF ChartSound, Shown, GaveWay
  <2>8. CASE Len(more) > MAX_POINTS
    <3>1. chart' = Tail(more) /\ Len(chart) = MAX_POINTS
      BY <1>1, <1>4, <2>1, <2>5, <2>8
    <3>2. /\ Len(chart') = MAX_POINTS /\ Rising(chart')
          /\ Range(more) = {Head(more)} \cup Range(chart')
          /\ \A q \in Range(chart') : Head(more) < q
      <4>1. /\ Len(Tail(more)) = Len(more) - 1 /\ Rising(Tail(more))
            /\ Range(more) = {Head(more)} \cup Range(Tail(more))
            /\ \A q \in Range(Tail(more)) : Head(more) < q
        BY <1>2, <1>4, <2>2, TailRises
      <4> QED
        BY <1>4, <2>5, <3>1, <4>1
    <3>3. ASSUME NEW p \in (1..published) \ Shown'
          PROVE  GaveWay(p)' \/ Excused(p)' \/ (seed # "done" /\ p \in unheard)
      <4>1. CASE p = Head(more)
        BY <3>2, <4>1 DEF GaveWay
      <4>2. CASE p # Head(more)
        <5>1. p \in (1..published) \ (Range(more) \cup Range(emitted'))
          BY <3>2, <3>3, <4>2 DEF Shown
        <5> QED
          BY <2>6, <3>1, <3>2, <5>1 DEF GaveWay
      <4> QED
        BY <4>1, <4>2
    <3>4. \A c \in Range(chart'), q \in Range(emitted') : c < q
      BY <2>3, <3>2
    <3>5. Len(chart') <= MAX_POINTS
      BY <2>5, <3>2
    <3> QED
      BY <1>1, <2>4, <3>2, <3>3, <3>4, <3>5 DEF ChartSound
  <2> QED
    BY <1>4, <2>5, <2>7, <2>8
<1> QED
  BY <1>3, <1>7, <1>8 DEF DashInv

LEMMA SeedChartKeeps ==
    ASSUME DashInv, SeedChart
    PROVE  DashInv'
<1>1. /\ seed = "answered" /\ seed' = "done"
      /\ UNCHANGED <<published, flushed, socket, emitted, rows, answeredAt, unheard>>
  BY DEF SeedChart, data
<1>2. /\ published \in Nat /\ flushed \in Nat /\ answeredAt \in Nat
      /\ answeredAt <= flushed /\ flushed <= published
      /\ Range(emitted) \subseteq 1..published /\ Range(chart) \subseteq 1..published
  BY DashNumbers DEF DashInv
<1>3. socket # "none"
  BY <1>1 DEF DashInv, DashTyped
<1>4. CASE rows = <<>>
  <2>1. UNCHANGED <<chart, replaced, late>> /\ answeredAt = 0
    BY <1>4 DEF SeedChart, DashInv, DashTyped
  <2>2. DashTyped'
    BY <1>1, <1>3, <2>1 DEF DashInv, DashTyped
  <2>3. \A p \in 1..published : p > answeredAt
    BY <1>2, <2>1
  <2>4. ChartSound'
    <3>1. \A e \in Range(emitted) : e > answeredAt
      BY <1>2, <2>3
    <3>2. ASSUME NEW p \in (1..published) \ Shown
          PROVE  GaveWay(p)' \/ Excused(p)'
      BY <1>1, <2>1, <2>3, <3>2 DEF DashInv, ChartSound, GaveWay, Excused
    <3> QED
      BY <1>1, <2>1, <3>1, <3>2 DEF DashInv, ChartSound, Shown
  <2> QED
    BY <1>1, <2>2, <2>4 DEF DashInv
<1>5. CASE rows # <<>>
  <2>1. /\ chart' = rows /\ replaced' = (1..published) \ (unheard \cup Range(emitted))
        /\ late' = {p \in Range(emitted) : p <= answeredAt}
    BY <1>5 DEF SeedChart
  <2>2. rows = Newest(answeredAt)
    BY <1>1, <1>5 DEF DashInv, DashTyped
  <2>3. /\ rows \in Seq(1..answeredAt) /\ Rising(rows) /\ Len(rows) <= MAX_POINTS
        /\ \A p \in (1..answeredAt) \ Range(rows) :
               Len(rows) = MAX_POINTS /\ \A q \in Range(rows) : q > p
    BY <1>2, <2>2, NewestIs
  <2>4. rows \in Seq(1..published) /\ Range(rows) \subseteq 1..answeredAt
    <3>1. 1..answeredAt \subseteq 1..published
      BY <1>2
    <3> QED
      BY <2>3, <3>1, RangeIn
  <2>5. DashTyped'
    BY <1>1, <1>3, <1>5, <2>1, <2>4 DEF DashInv, DashTyped
  <2>6. ChartSound'
    <3> SUFFICES ASSUME late' = {} PROVE ChartSound'
      BY <1>1 DEF ChartSound
    <3>1. \A e \in Range(emitted) : e > answeredAt
      BY <1>2, <2>1
    <3>2. \A c \in Range(chart'), e \in Range(emitted') : c < e
      BY <1>1, <1>2, <2>1, <2>4, <3>1
    <3>3. ASSUME NEW p \in (1..published) \ Shown'
          PROVE  GaveWay(p)' \/ Excused(p)'
      <4>1. CASE p \in 1..answeredAt
        BY <1>1, <2>1, <2>3, <3>3, <4>1 DEF GaveWay, Shown
      <4>2. CASE p \notin 1..answeredAt
        <5>1. p > answeredAt
          BY <1>2, <3>3, <4>2
        <5>2. p \in unheard \cup replaced'
          BY <1>1, <2>1, <3>3 DEF Shown
        <5> QED
          BY <1>1, <5>1, <5>2 DEF Excused
      <4> QED
        BY <4>1, <4>2
    <3> QED
      BY <1>1, <2>1, <2>3, <3>1, <3>2, <3>3 DEF ChartSound
  <2> QED
    BY <1>1, <2>5, <2>6 DEF DashInv
<1> QED
  BY <1>4, <1>5

LEMMA NextDash ==
    ASSUME DashInv, [MonitorNext]_<<vars, dash>>
    PROVE  DashInv'
<1>1. CASE UNCHANGED dash
  BY <1>1 DEF dash, data, page, told, DashInv, DashTyped, ChartSound, Rising, GaveWay, Excused,
     Shown
<1> QED
  BY <1>1, PublishKeeps, AsideKeeps, OpenPageKeeps, SocketDropsKeeps, PushPointKeeps,
     SeedChartKeeps DEF MonitorNext, PageStep

LEMMA ChartFromInv ==
    ASSUME DashInv
    PROVE  ChartTellsTheTruth
<1> SUFFICES ASSUME seed = "done", late = {}
             PROVE  /\ \A i, j \in DOMAIN chart : i < j => chart[i] < chart[j]
                    /\ \A p \in (1 .. published) \ Shown :
                          \/ Cardinality({q \in Range(chart) : q > p}) = MAX_POINTS
                          \/ p > answeredAt /\ p \in unheard \cup replaced
  BY DEF ChartTellsTheTruth
<1>1. Rising(chart) /\ chart \in Seq(Nat)
  BY DashNumbers DEF DashInv, ChartSound
<1>2. ASSUME NEW p \in (1 .. published) \ Shown, GaveWay(p)
      PROVE  Cardinality({q \in Range(chart) : q > p}) = MAX_POINTS
  <2>1. {q \in Range(chart) : q > p} = Range(chart)
    BY <1>2 DEF GaveWay
  <2> QED
    BY <1>1, <1>2, <2>1, RisingCounts DEF GaveWay
<1> QED
  BY <1>1, <1>2 DEF DashInv, ChartSound, Rising, Excused

\* A chart whose history is in is in order and has no holes but those its design
\* has (seedChart() and pushPoint() of dashboard.html, api_recent() of app.py).
THEOREM ChartIsTrue == MonitorSpec => []ChartTellsTheTruth
<1>1. MonitorSpec => MonitorInit /\ [][MonitorNext]_<<vars, dash>>
  BY DEF MonitorSpec
<1>2. DashInv /\ [MonitorNext]_<<vars, dash>> => DashInv'
  BY NextDash
<1>3. DashInv => ChartTellsTheTruth
  BY ChartFromInv
<1> QED
  BY <1>1, <1>2, <1>3, InitDash, PTL

\* The dashboard's steps are none of the client's.
THEOREM SubscribedWithPages == MonitorSpec => []SubscribedWhenUp
<1>1. MonitorSpec => MonitorInit /\ [][MonitorNext]_<<vars, dash>>
  BY DEF MonitorSpec
<1>2. MonitorInit => SubInv
  BY InitSub DEF MonitorInit
<1>3. ASSUME SubInv, [MonitorNext]_<<vars, dash>>
      PROVE  SubInv'
  <2>1. CASE [Next]_vars
    BY <1>3, <2>1, NextSub
  <2>2. CASE SocketDrops
    BY <1>3, <2>2 DEF SocketDrops, client, session, SubInv, SubscribedWhenUp
  <2> QED
    BY <1>3, <2>1, <2>2 DEF MonitorNext
<1>4. SubInv => SubscribedWhenUp
  BY DEF SubInv
<1> QED
  BY <1>1, <1>2, <1>3, <1>4, PTL
=============================================================================
