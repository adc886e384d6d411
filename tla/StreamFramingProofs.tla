------------------------ MODULE StreamFramingProofs -------------------------
(***************************************************************************)
(* Proofs about the capture of a node's configuration, for every nonce,    *)
(* every set of messages and of stray bytes that does not imitate a frame  *)
(* header, however the reads cut the stream, and for every bound.          *)
(***************************************************************************)
EXTENDS StreamFraming, SequenceTheorems, WellFoundedInduction, TLAPS

\* The high byte of the longest length that is accepted.
Short == MAX_PAYLOAD \div 256

\* Bytes and frames --------------------------------------------------------
LEMMA Sizes ==
    /\ MAX_PAYLOAD \in Nat /\ Short \in Nat /\ Short < START1
    /\ \A h, l \in Bytes : h * 256 + l <= MAX_PAYLOAD => h <= Short
<1>1. MAX_PAYLOAD \in Nat /\ MAX_PAYLOAD < 256 * 148
  BY FramingAssumption DEF START1
<1>2. ASSUME NEW n \in Nat, n < 256 * 148
      PROVE  /\ n \div 256 \in Nat /\ n \div 256 < 148
             /\ \A h, l \in 0 .. 255 : h * 256 + l <= n => h <= n \div 256
  <2>1. PICK q \in Int, r \in 0 .. 255 : n \div 256 = q /\ n = 256 * q + r
    <3>1. /\ n \div 256 \in Int /\ n % 256 \in 0 .. 255
          /\ n = 256 * (n \div 256) + (n % 256)
      OBVIOUS
    <3> QED BY <3>1
  <2>2. q \in Nat /\ q < 148
    BY <1>2, <2>1
  <2>3. ASSUME NEW h \in 0 .. 255, NEW l \in 0 .. 255, h * 256 + l <= n
        PROVE  h <= q
    BY <2>1, <2>3
  <2>4. \A h, l \in 0 .. 255 : h * 256 + l <= n => h <= n \div 256
    BY <2>1, <2>3, Zenon
  <2> QED BY <2>1, <2>2, <2>4
<1> QED BY <1>1, <1>2 DEF Short, START1, Bytes

LEMMA MessageIs ==
    ASSUME NEW p \in Message
    PROVE  /\ p \in Seq(Bytes) /\ Len(p) \in Nat /\ Len(p) <= MAX_PAYLOAD
           /\ DOMAIN p = 1 .. Len(p) /\ \A j \in 1 .. Len(p) : p[j] \in Bytes
           /\ Len(p) \div 256 \in Bytes /\ Len(p) % 256 \in Bytes
           /\ Len(p) \div 256 <= Short
           /\ (Len(p) \div 256) * 256 + (Len(p) % 256) = Len(p)
<1>1. p \in Seq(Bytes) /\ Len(p) <= MAX_PAYLOAD
  BY FramingAssumption
<1>2. Len(p) \in Nat /\ DOMAIN p = 1 .. Len(p) /\ \A j \in 1 .. Len(p) : p[j] \in Bytes
  BY <1>1
<1>3. ASSUME NEW n \in Nat, n <= MAX_PAYLOAD
      PROVE  /\ n \div 256 \in Bytes /\ n % 256 \in Bytes /\ n \div 256 <= Short
             /\ (n \div 256) * 256 + (n % 256) = n
  BY <1>3, FramingAssumption DEF Short, START1, Bytes
<1>4. /\ Len(p) \div 256 \in Bytes /\ Len(p) % 256 \in Bytes /\ Len(p) \div 256 <= Short
      /\ (Len(p) \div 256) * 256 + (Len(p) % 256) = Len(p)
  BY <1>1, <1>2, <1>3, Zenon
<1> QED BY <1>1, <1>2, <1>4, Zenon

LEMMA ByteIs ==
    ASSUME NEW s \in Seq(Bytes), NEW i \in 1 .. Len(s)
    PROVE  s[i] \in Bytes /\ s[i] \in Int
<1>1. s[i] \in Bytes
  OBVIOUS
<1>2. Bytes \subseteq Int
  BY DEF Bytes
<1> QED BY <1>1, <1>2

LEMMA JoinIs ==
    ASSUME NEW S, NEW s \in Seq(S), NEW t \in Seq(S)
    PROVE  /\ s \o t \in Seq(S) /\ Len(s) \in Nat /\ Len(t) \in Nat
           /\ Len(s \o t) = Len(s) + Len(t)
           /\ \A i \in 1 .. Len(s) : (s \o t)[i] = s[i]
           /\ \A i \in Len(s) + 1 .. Len(s) + Len(t) : (s \o t)[i] = t[i - Len(s)]
OBVIOUS

\* A part of a sequence that may be empty.
LEMMA PartIs ==
    ASSUME NEW S, NEW s \in Seq(S), NEW m \in Nat \ {0}, NEW n \in Nat, n <= Len(s)
    PROVE  /\ SubSeq(s, m, n) \in Seq(S)
           /\ Len(SubSeq(s, m, n)) = IF m <= n THEN n - m + 1 ELSE 0
           /\ \A i \in 1 .. n - m + 1 : SubSeq(s, m, n)[i] = s[m + i - 1]
OBVIOUS

LEMMA FrameIs ==
    ASSUME NEW p \in Message
    PROVE  /\ Frame(p) \in Seq(Bytes) /\ Len(Frame(p)) = 4 + Len(p)
           /\ Frame(p)[1] = START1 /\ Frame(p)[2] = START2
           /\ Frame(p)[3] = Len(p) \div 256 /\ Frame(p)[4] = Len(p) % 256
           /\ \A j \in 1 .. Len(p) : Frame(p)[4 + j] = p[j]
<1> DEFINE head == <<START1, START2, Len(p) \div 256, Len(p) % 256>>
<1>1. /\ head \in Seq(Bytes) /\ Len(head) = 4
      /\ head[1] = START1 /\ head[2] = START2
      /\ head[3] = Len(p) \div 256 /\ head[4] = Len(p) % 256
  BY MessageIs DEF START1, START2, Bytes
<1>2. p \in Seq(Bytes) /\ Len(p) \in Nat
  BY MessageIs
<1>3. Frame(p) = head \o p
  BY DEF Frame
<1> HIDE DEF head
<1>4. /\ head \o p \in Seq(Bytes) /\ Len(head \o p) = 4 + Len(p)
      /\ \A i \in 1 .. 4 : (head \o p)[i] = head[i]
      /\ \A i \in 5 .. 4 + Len(p) : (head \o p)[i] = p[i - 4]
  <2>1. /\ head \o p \in Seq(Bytes) /\ Len(head \o p) = Len(head) + Len(p)
        /\ \A i \in 1 .. Len(head) : (head \o p)[i] = head[i]
        /\ \A i \in Len(head) + 1 .. Len(head) + Len(p) : (head \o p)[i] = p[i - Len(head)]
    <3>1. head \in Seq(Bytes) /\ p \in Seq(Bytes)
      BY <1>1, <1>2
    <3> QED BY <3>1, JoinIs, Zenon
  <2> QED BY <1>1, <2>1
<1>5. \A j \in 1 .. Len(p) : 4 + j \in 5 .. 4 + Len(p) /\ (4 + j) - 4 = j
  BY <1>2
<1> QED BY <1>1, <1>3, <1>4, <1>5

\* Streams -----------------------------------------------------------------
\* The bytes of the frame of p.
Size(p) == 4 + Len(p)

\* The frame of p begins at place i of stream s.
FrameAt(s, i, p) ==
    /\ i + 3 + Len(p) <= Len(s)
    /\ s[i] = START1 /\ s[i + 1] = START2
    /\ s[i + 2] = Len(p) \div 256 /\ s[i + 3] = Len(p) % 256
    /\ \A j \in 1 .. Len(p) : s[i + 3 + j] = p[j]

\* Stream s carries the frames of q from the n-th on at the places `at', one
\* after the other; where it has a magic and a short length, it is in a frame.
Framed(s, q, n, at) ==
    /\ at \in [n + 1 .. Len(q) -> 1 .. Len(s)]
    /\ \A k \in n + 1 .. Len(q) : FrameAt(s, at[k], q[k])
    /\ \A k, l \in n + 1 .. Len(q) : k < l => at[k] + Size(q[k]) <= at[l]
    /\ \A i \in 1 .. Len(s) - 2 :
          s[i] = START1 /\ s[i + 1] = START2 /\ s[i + 2] <= Short =>
             \E k \in n + 1 .. Len(q) : at[k] <= i /\ i < at[k] + Size(q[k])

\* t is s without its first d bytes.
Without(s, d, t) == Len(t) = Len(s) - d /\ \A i \in 1 .. Len(t) : t[i] = s[i + d]

\* The first d bytes hold the frames up to the m-th and nothing of those after.
Past(q, n, at, d, m) ==
    /\ n <= m
    /\ \A k \in n + 1 .. Len(q) : IF k <= m THEN at[k] + Size(q[k]) <= d + 1 ELSE at[k] > d

\* The places after the first d bytes are gone.
Moved(q, m, at, d, to) ==
    /\ to \in [m + 1 .. Len(q) -> Int]
    /\ \A k \in m + 1 .. Len(q) : to[k] = at[k] - d

LEMMA SizeIs ==
    ASSUME NEW q \in Seq(Message)
    PROVE  /\ Len(q) \in Nat
           /\ \A k \in 1 .. Len(q) :
                 /\ q[k] \in Message /\ Len(q[k]) \in Nat
                 /\ Size(q[k]) \in Nat /\ Size(q[k]) >= 4
<1>1. Len(q) \in Nat /\ \A k \in 1 .. Len(q) : q[k] \in Message
  OBVIOUS
<1>2. \A p \in Message : Len(p) \in Nat /\ Size(p) \in Nat /\ Size(p) >= 4
  BY MessageIs DEF Size
<1> QED BY <1>1, <1>2

\* What Framed says of the places, with their types.
LEMMA FramedIs ==
    ASSUME NEW s \in Seq(Bytes), NEW q \in Seq(Message), NEW n \in Nat, NEW at,
           Framed(s, q, n, at)
    PROVE  /\ Len(s) \in Nat /\ Len(q) \in Nat
           /\ \A k \in n + 1 .. Len(q) :
                 /\ k \in 1 .. Len(q) /\ q[k] \in Message /\ Len(q[k]) \in Nat
                 /\ Size(q[k]) \in Nat /\ Size(q[k]) >= 4
                 /\ at[k] \in Nat /\ at[k] >= 1 /\ at[k] <= Len(s)
                 /\ FrameAt(s, at[k], q[k])
           /\ \A k, l \in n + 1 .. Len(q) : k < l => at[k] + Size(q[k]) <= at[l]
           /\ \A i \in 1 .. Len(s) - 2 :
                 s[i] = START1 /\ s[i + 1] = START2 /\ s[i + 2] <= Short =>
                    \E k \in n + 1 .. Len(q) : at[k] <= i /\ i < at[k] + Size(q[k])
<1>1. Len(s) \in Nat /\ Len(q) \in Nat
  OBVIOUS
<1>2. \A k \in n + 1 .. Len(q) : k \in 1 .. Len(q)
  BY <1>1
<1>3. \A k \in n + 1 .. Len(q) : at[k] \in 1 .. Len(s) /\ FrameAt(s, at[k], q[k])
  BY DEF Framed
<1>4. \A k \in n + 1 .. Len(q) : at[k] \in Nat /\ at[k] >= 1 /\ at[k] <= Len(s)
  BY <1>1, <1>3
<1>5. /\ \A k, l \in n + 1 .. Len(q) : k < l => at[k] + Size(q[k]) <= at[l]
      /\ \A i \in 1 .. Len(s) - 2 :
            s[i] = START1 /\ s[i + 1] = START2 /\ s[i + 2] <= Short =>
               \E k \in n + 1 .. Len(q) : at[k] <= i /\ i < at[k] + Size(q[k])
  BY DEF Framed
<1> QED BY <1>1, <1>2, <1>3, <1>4, <1>5, SizeIs

\* A frame that is found again in t, d places earlier.
LEMMA FrameShift ==
    ASSUME NEW s, NEW t, NEW p, Len(p) \in Nat, NEW i \in Int, NEW d \in Int,
           Len(t) \in Nat, i + 3 + Len(p) - d <= Len(t), FrameAt(s, i, p),
           \A x \in i .. i + 3 + Len(p) : t[x - d] = s[x]
    PROVE  FrameAt(t, i - d, p)
<1>1. PICK n \in Nat : n = Len(p)
  OBVIOUS
<1>2. i - d + 3 + n <= Len(t)
  BY <1>1
<1>3. \A x \in i .. i + 3 + n : t[x - d] = s[x]
  BY <1>1
<1>4. /\ t[i - d] = s[i] /\ t[(i + 1) - d] = s[i + 1]
      /\ t[(i + 2) - d] = s[i + 2] /\ t[(i + 3) - d] = s[i + 3]
      /\ \A j \in 1 .. n : t[(i + 3 + j) - d] = s[i + 3 + j]
  <2>1. /\ i \in i .. i + 3 + n /\ i + 1 \in i .. i + 3 + n
        /\ i + 2 \in i .. i + 3 + n /\ i + 3 \in i .. i + 3 + n
        /\ \A j \in 1 .. n : i + 3 + j \in i .. i + 3 + n
    OBVIOUS
  <2> QED BY <1>3, <2>1
<1>5. /\ (i + 1) - d = i - d + 1 /\ (i + 2) - d = i - d + 2 /\ (i + 3) - d = i - d + 3
      /\ \A j \in 1 .. n : (i + 3 + j) - d = i - d + 3 + j
  OBVIOUS
<1> QED BY <1>1, <1>2, <1>4, <1>5 DEF FrameAt

\* The stream without bytes that hold nothing of the frames to come.
LEMMA FramedDrop ==
    ASSUME NEW s \in Seq(Bytes), NEW t \in Seq(Bytes), NEW q \in Seq(Message),
           NEW n \in Nat, NEW m \in Nat, NEW d \in Nat, NEW at, NEW to,
           Framed(s, q, n, at), Without(s, d, t), Past(q, n, at, d, m), Moved(q, m, at, d, to)
    PROVE  Framed(t, q, m, to)
<1> DEFINE N == n + 1 .. Len(q)
           K == m + 1 .. Len(q)
<1>1. /\ Len(s) \in Nat /\ Len(q) \in Nat
      /\ \A k \in N : /\ q[k] \in Message /\ Len(q[k]) \in Nat /\ Size(q[k]) \in Nat
                      /\ at[k] \in Nat /\ at[k] >= 1 /\ at[k] <= Len(s)
                      /\ FrameAt(s, at[k], q[k])
      /\ \A k, l \in N : k < l => at[k] + Size(q[k]) <= at[l]
  BY FramedIs
<1>2. \A i \in 1 .. Len(s) - 2 :
         s[i] = START1 /\ s[i + 1] = START2 /\ s[i + 2] <= Short =>
            \E k \in N : at[k] <= i /\ i < at[k] + Size(q[k])
  BY FramedIs
<1>3. Len(t) \in Nat /\ Len(t) = Len(s) - d /\ \A i \in 1 .. Len(t) : t[i] = s[i + d]
  BY DEF Without
<1>4. n <= m /\ \A k \in N : IF k <= m THEN at[k] + Size(q[k]) <= d + 1 ELSE at[k] > d
  BY DEF Past
<1>5. K \subseteq N /\ N \subseteq Int /\ \A k \in N : k <= m \/ k \in K
  BY <1>1, <1>4
<1>6. \A k \in K : ~(k <= m)
  BY <1>1
<1>7. to \in [K -> Int] /\ \A k \in K : to[k] = at[k] - d
  BY DEF Moved
<1> HIDE DEF N, K
<1>8. \A k \in K : at[k] > d /\ to[k] \in 1 .. Len(t)
  <2> TAKE k \in K
  <2>1. at[k] > d /\ at[k] \in Nat /\ at[k] <= Len(s)
    BY <1>1, <1>4, <1>5, <1>6
  <2>2. to[k] = at[k] - d
    BY <1>7
  <2> QED BY <1>1, <1>3, <2>1, <2>2
<1>9. ASSUME NEW k \in K
      PROVE  FrameAt(t, to[k], q[k])
  <2>1. PICK p \in Message, i \in Nat : p = q[k] /\ i = at[k]
    BY <1>1, <1>5
  <2>2. FrameAt(s, i, p) /\ i > d /\ to[k] = i - d /\ Len(p) \in Nat
    BY <1>1, <1>5, <1>7, <1>8, <2>1
  <2>3. i + 3 + Len(p) <= Len(s)
    BY <2>2 DEF FrameAt
  <2>4. \A x \in i .. i + 3 + Len(p) : x - d \in 1 .. Len(t) /\ (x - d) + d = x
    BY <1>1, <1>3, <2>2, <2>3
  <2>5. \A x \in i .. i + 3 + Len(p) : t[x - d] = s[x]
    BY <1>3, <2>4
  <2>6. i + 3 + Len(p) - d <= Len(t) /\ i \in Int /\ d \in Int
    BY <1>1, <1>3, <2>2, <2>3
  <2>7. FrameAt(t, i - d, p)
    BY <1>3, <2>2, <2>5, <2>6, FrameShift, Zenon
  <2> QED BY <2>1, <2>2, <2>7
<1>10. ASSUME NEW k \in K, NEW l \in K, k < l
       PROVE  to[k] + Size(q[k]) <= to[l]
  <2>1. at[k] + Size(q[k]) <= at[l]
    BY <1>1, <1>5, <1>10
  <2>2. at[k] \in Nat /\ at[l] \in Nat /\ Size(q[k]) \in Nat
    BY <1>1, <1>5
  <2>3. to[k] = at[k] - d /\ to[l] = at[l] - d
    BY <1>7
  <2> QED BY <2>1, <2>2, <2>3
<1>11. ASSUME NEW i \in 1 .. Len(t) - 2,
              t[i] = START1, t[i + 1] = START2, t[i + 2] <= Short
       PROVE  \E k \in K : to[k] <= i /\ i < to[k] + Size(q[k])
  <2>1. /\ i + d \in 1 .. Len(s) - 2 /\ (i + 1) + d = (i + d) + 1 /\ (i + 2) + d = (i + d) + 2
        /\ i \in 1 .. Len(t) /\ i + 1 \in 1 .. Len(t) /\ i + 2 \in 1 .. Len(t)
    BY <1>1, <1>3
  <2>2. t[i] = s[i + d] /\ t[i + 1] = s[(i + d) + 1] /\ t[i + 2] = s[(i + d) + 2]
    <3>1. \A x \in 1 .. Len(t) : t[x] = s[x + d]
      BY <1>3
    <3>2. t[i] = s[i + d] /\ t[i + 1] = s[(i + 1) + d] /\ t[i + 2] = s[(i + 2) + d]
      BY <2>1, <3>1, Zenon
    <3> QED BY <2>1, <3>2, Zenon
  <2>3. PICK k \in N : at[k] <= i + d /\ i + d < at[k] + Size(q[k])
    BY <1>2, <1>11, <2>1, <2>2
  <2>4. PICK x \in Nat, z \in Nat : x = at[k] /\ z = Size(q[k])
    BY <1>1, Zenon
  <2>5. x <= i + d /\ i + d < x + z /\ i \in Nat /\ i >= 1
    BY <2>3, <2>4
  <2>6. ~(x + z <= d + 1)
    BY <2>5
  <2>7. k \in K
    BY <1>4, <1>5, <2>4, <2>6
  <2>8. to[k] = x - d
    BY <1>7, <2>4, <2>7
  <2>9. to[k] <= i /\ i < to[k] + z
    <3>1. x - d <= i /\ i < (x - d) + z
      BY <2>5
    <3> QED BY <2>8, <3>1
  <2> QED BY <2>4, <2>7, <2>9
<1>12. to \in [K -> 1 .. Len(t)]
  BY <1>7, <1>8
<1> QED BY <1>9, <1>10, <1>11, <1>12 DEF Framed, K

\* There are places to move to.
LEMMA MovedIs ==
    ASSUME NEW s \in Seq(Bytes), NEW q \in Seq(Message), NEW n \in Nat, NEW at,
           Framed(s, q, n, at), NEW d \in Nat, NEW m \in Nat, n <= m
    PROVE  \E to : Moved(q, m, at, d, to)
<1> DEFINE to == [k \in m + 1 .. Len(q) |-> at[k] - d]
<1>1. \A k \in n + 1 .. Len(q) : at[k] \in Nat
  BY FramedIs
<1>2. m + 1 .. Len(q) \subseteq n + 1 .. Len(q)
  BY FramedIs
<1>3. \A k \in m + 1 .. Len(q) : at[k] - d \in Int
  BY <1>1, <1>2
<1>4. Moved(q, m, at, d, to)
  BY <1>3 DEF Moved
<1> QED BY <1>4

\* One more byte, which is no short length.
LEMMA FramedByte ==
    ASSUME NEW s \in Seq(Bytes), NEW t \in Seq(Bytes), NEW q \in Seq(Message),
           NEW n \in Nat, NEW at, Framed(s, q, n, at),
           Len(t) = Len(s) + 1, \A i \in 1 .. Len(s) : t[i] = s[i], t[Len(t)] > Short
    PROVE  Framed(t, q, n, at)
<1> DEFINE K == n + 1 .. Len(q)
<1>1. /\ \A k \in K : q[k] \in Message /\ Len(q[k]) \in Nat
      /\ Len(s) \in Nat /\ Len(t) \in Nat
  BY MessageIs
<1>2. at \in [K -> 1 .. Len(s)] /\ \A k \in K : FrameAt(s, at[k], q[k])
  BY DEF Framed
<1>3. at \in [K -> 1 .. Len(t)]
  BY <1>1, <1>2
<1> HIDE DEF K
<1>4. ASSUME NEW k \in K
      PROVE  FrameAt(t, at[k], q[k])
  <2>1. PICK p \in Message, i \in Nat : p = q[k] /\ i = at[k]
    BY <1>1, <1>2
  <2>2. FrameAt(s, i, p) /\ i >= 1 /\ Len(p) \in Nat
    BY <1>1, <1>2, <2>1
  <2>3. i + 3 + Len(p) <= Len(s)
    BY <2>2 DEF FrameAt
  <2>4. \A x \in i .. i + 3 + Len(p) : x \in 1 .. Len(s) /\ x - 0 = x
    BY <1>1, <2>2, <2>3
  <2>5. \A x \in i .. i + 3 + Len(p) : t[x - 0] = s[x]
    BY <2>4
  <2>6. i + 3 + Len(p) - 0 <= Len(t) /\ 0 \in Int /\ i \in Int /\ i - 0 = i
    BY <1>1, <2>2, <2>3
  <2>7. FrameAt(t, i - 0, p)
    BY <1>1, <2>2, <2>5, <2>6, FrameShift, Zenon
  <2> QED BY <2>1, <2>6, <2>7
<1>5. \A k, l \in K : k < l => at[k] + Size(q[k]) <= at[l]
  BY DEF Framed, K
<1>6. ASSUME NEW i \in 1 .. Len(t) - 2,
             t[i] = START1, t[i + 1] = START2, t[i + 2] <= Short
      PROVE  \E k \in K : at[k] <= i /\ i < at[k] + Size(q[k])
  <2>1. t[i] = s[i] /\ t[i + 1] = s[i + 1]
    BY <1>1
  <2>2. CASE i + 2 = Len(t)
    <3>1. Len(t) \in 1 .. Len(t)
      BY <1>1
    <3>2. PICK x \in Int : x = t[Len(t)]
      BY <3>1, ByteIs
    <3>3. x > Short /\ x <= Short
      BY <1>6, <2>2, <3>2
    <3> QED BY <3>2, <3>3, Sizes
  <2>3. CASE i + 2 # Len(t)
    <3>1. i \in 1 .. Len(s) - 2 /\ i + 2 \in 1 .. Len(s)
      BY <1>1, <2>3
    <3>2. t[i + 2] = s[i + 2]
      BY <3>1
    <3>3. \A x \in 1 .. Len(s) - 2 :
             s[x] = START1 /\ s[x + 1] = START2 /\ s[x + 2] <= Short =>
                \E k \in K : at[k] <= x /\ x < at[k] + Size(q[k])
      BY DEF Framed, K
    <3> QED BY <1>6, <2>1, <3>1, <3>2, <3>3
  <2> QED BY <2>2, <2>3
<1> QED BY <1>3, <1>4, <1>5, <1>6 DEF Framed, K

\* The places of the frames, and i for one more.
Extended(q, n, at, i) == [k \in n + 1 .. Len(q) + 1 |-> IF k = Len(q) + 1 THEN i ELSE at[k]]

\* One more frame.
LEMMA FramedMore ==
    ASSUME NEW s \in Seq(Bytes), NEW t \in Seq(Bytes), NEW q \in Seq(Message),
           NEW n \in Nat, n <= Len(q), NEW at, Framed(s, q, n, at),
           NEW p \in Message, Len(t) = Len(s) + Size(p),
           \A i \in 1 .. Len(s) : t[i] = s[i],
           \A i \in 1 .. Size(p) : t[Len(s) + i] = Frame(p)[i]
    PROVE  Framed(t, Append(q, p), n, Extended(q, n, at, Len(s) + 1))
<1> DEFINE K  == n + 1 .. Len(q)
           L  == Len(q) + 1
           N  == n + 1 .. L
           u  == Append(q, p)
           to == [k \in N |-> IF k = L THEN Len(s) + 1 ELSE at[k]]
<1>1. /\ \A k \in K : q[k] \in Message /\ Len(q[k]) \in Nat
      /\ Len(s) \in Nat /\ Len(t) \in Nat /\ Len(p) \in Nat /\ Len(q) \in Nat
      /\ Size(p) = Len(p) + 4
  <2>1. \A k \in K : q[k] \in Message
    OBVIOUS
  <2>2. Len(s) \in Nat /\ Len(t) \in Nat /\ Len(q) \in Nat /\ Len(p) \in Nat
    BY MessageIs
  <2>3. Size(p) = Len(p) + 4
    BY <2>2 DEF Size
  <2> QED BY <2>1, <2>2, <2>3, MessageIs
<1>2. at \in [K -> 1 .. Len(s)] /\ \A k \in K : FrameAt(s, at[k], q[k])
  BY DEF Framed
<1>3. /\ Len(u) = L /\ u[L] = p /\ \A k \in K : u[k] = q[k]
      /\ L \in Nat /\ L \in N /\ L \notin K
      /\ \A k \in N : k \in Nat /\ (k \in K \/ k = L)
      /\ \A k \in K : k \in N /\ k < L
  BY <1>1
<1>4. to[L] = Len(s) + 1 /\ \A k \in K : to[k] = at[k]
  BY <1>3
<1>5. to \in [N -> 1 .. Len(t)]
  <2>1. Len(s) + 1 \in 1 .. Len(t) /\ 1 .. Len(s) \subseteq 1 .. Len(t)
    BY <1>1
  <2>2. \A k \in N : to[k] \in 1 .. Len(t)
    BY <1>2, <1>3, <1>4, <2>1
  <2> QED BY <2>2
<1> HIDE DEF K, L, N, u, to
<1>6. ASSUME NEW k \in K
      PROVE  FrameAt(t, to[k], u[k])
  <2>1. PICK f \in Message, i \in Nat : f = q[k] /\ i = at[k]
    <3>1. q[k] \in Message /\ at[k] \in Nat
      BY <1>1, <1>2
    <3> QED BY <3>1, Zenon
  <2>2. FrameAt(s, i, f) /\ i >= 1 /\ Len(f) \in Nat
    BY <1>1, <1>2, <2>1
  <2>3. i + 3 + Len(f) <= Len(s)
    BY <2>2 DEF FrameAt
  <2>4. \A x \in i .. i + 3 + Len(f) : x \in 1 .. Len(s) /\ x - 0 = x
    BY <1>1, <2>2, <2>3
  <2>5. \A x \in i .. i + 3 + Len(f) : t[x - 0] = s[x]
    BY <2>4
  <2>6. i + 3 + Len(f) - 0 <= Len(t) /\ 0 \in Int /\ i \in Int /\ i - 0 = i
    BY <1>1, <2>2, <2>3
  <2>7. FrameAt(t, i - 0, f)
    BY <1>1, <2>2, <2>5, <2>6, FrameShift, Zenon
  <2> QED BY <1>3, <1>4, <2>1, <2>6, <2>7
<1>7. FrameAt(t, to[L], u[L])
  <2>1. PICK z \in Nat : z = Len(s)
    BY <1>1
  <2>2. \A i \in 1 .. 4 + Len(p) : t[z + i] = Frame(p)[i]
    BY <1>1, <2>1
  <2>3. /\ t[z + 1] = START1 /\ t[z + 2] = START2
        /\ t[z + 3] = Len(p) \div 256 /\ t[z + 4] = Len(p) % 256
    <3>1. 1 \in 1 .. 4 + Len(p) /\ 2 \in 1 .. 4 + Len(p) /\ 3 \in 1 .. 4 + Len(p) /\ 4 \in 1 .. 4 + Len(p)
      BY <1>1
    <3>2. /\ t[z + 1] = Frame(p)[1] /\ t[z + 2] = Frame(p)[2]
          /\ t[z + 3] = Frame(p)[3] /\ t[z + 4] = Frame(p)[4]
      BY <2>2, <3>1
    <3> QED BY <3>2, FrameIs
  <2>4. \A j \in 1 .. Len(p) : t[z + (4 + j)] = p[j]
    <3>1. \A j \in 1 .. Len(p) : 4 + j \in 1 .. 4 + Len(p)
      BY <1>1
    <3> QED BY <2>2, <3>1, FrameIs
  <2>5. /\ z + 1 + 1 = z + 2 /\ z + 1 + 2 = z + 3 /\ z + 1 + 3 = z + 4
        /\ \A j \in 1 .. Len(p) : z + 1 + 3 + j = z + (4 + j)
        /\ z + 1 + 3 + Len(p) <= Len(t)
    BY <1>1, <2>1
  <2>6. FrameAt(t, z + 1, p)
    BY <2>3, <2>4, <2>5 DEF FrameAt
  <2> QED BY <1>3, <1>4, <2>1, <2>6
<1>8. ASSUME NEW k \in N, NEW l \in N, k < l
      PROVE  to[k] + Size(u[k]) <= to[l]
  <2>1. k \in K
    BY <1>3, <1>8
  <2>2. CASE l \in K
    <3>1. at[k] + Size(q[k]) <= at[l]
      BY <1>8, <2>1, <2>2 DEF Framed, K
    <3> QED BY <1>3, <1>4, <2>1, <2>2, <3>1
  <2>3. CASE l = L
    <3>1. PICK f \in Message, i \in Nat : f = q[k] /\ i = at[k]
      <4>1. q[k] \in Message /\ at[k] \in Nat
        BY <1>1, <1>2, <2>1
      <4> QED BY <4>1, Zenon
    <3>2. FrameAt(s, i, f) /\ Len(f) \in Nat
      BY <1>2, <2>1, <3>1, MessageIs
    <3>3. i + Size(f) <= Len(s) + 1
      BY <1>1, <3>2 DEF FrameAt, Size
    <3> QED BY <1>3, <1>4, <2>1, <2>3, <3>1, <3>3
  <2> QED BY <1>3, <2>2, <2>3
<1>9. ASSUME NEW i \in 1 .. Len(t) - 2,
             t[i] = START1, t[i + 1] = START2, t[i + 2] <= Short
      PROVE  \E k \in N : to[k] <= i /\ i < to[k] + Size(u[k])
  <2>1. t[Len(s) + 1] = START1 /\ t[Len(s) + 2] = START2
    <3>1. 1 \in 1 .. Size(p) /\ 2 \in 1 .. Size(p)
      BY <1>1
    <3>2. t[Len(s) + 1] = Frame(p)[1] /\ t[Len(s) + 2] = Frame(p)[2]
      BY <3>1, Zenon
    <3> QED BY <3>2, FrameIs
  <2>2. CASE i > Len(s)
    <3>1. to[L] <= i /\ i < to[L] + Size(u[L])
      BY <1>1, <1>3, <1>4, <2>2
    <3> QED BY <1>3, <3>1
  <2>3. i # Len(s)
    BY <1>1, <1>9, <2>1 DEF START1, START2
  <2>4. i # Len(s) - 1
    <3>1. i = Len(s) - 1 => i + 2 = Len(s) + 1
      BY <1>1
    <3> QED BY <1>9, <2>1, <3>1, Sizes DEF START1
  <2>5. CASE i <= Len(s) - 2
    <3>1. i \in 1 .. Len(s) - 2 /\ i \in 1 .. Len(s) /\ i + 1 \in 1 .. Len(s) /\ i + 2 \in 1 .. Len(s)
      BY <1>1, <2>5
    <3>2. t[i] = s[i] /\ t[i + 1] = s[i + 1] /\ t[i + 2] = s[i + 2]
      BY <3>1
    <3>3. PICK k \in K : at[k] <= i /\ i < at[k] + Size(q[k])
      BY <1>9, <3>1, <3>2 DEF Framed, K
    <3> QED BY <1>3, <1>4, <3>3
  <2> QED BY <1>1, <2>2, <2>3, <2>4, <2>5
<1>10. \A k \in N : FrameAt(t, to[k], u[k])
  BY <1>3, <1>6, <1>7
<1> QED BY <1>3, <1>5, <1>8, <1>9, <1>10 DEF Framed, Extended, N, L, u, to

\* What the header at the front of the buffer says of the frames to come.
LEMMA HeaderSays ==
    ASSUME NEW a \in Seq(Bytes), NEW w \in Seq(Bytes), Len(a) >= 4,
           a[1] = START1, a[2] = START2,
           NEW q \in Seq(Message), NEW n \in Nat, NEW at, Framed(a \o w, q, n, at)
    PROVE  LET size == a[3] * 256 + a[4]
           IN  /\ size <= MAX_PAYLOAD =>
                     n < Len(q) /\ at[n + 1] = 1 /\ size = Len(q[n + 1])
               /\ size > MAX_PAYLOAD => \A k \in n + 1 .. Len(q) : at[k] > 2
<1> DEFINE s == a \o w
           K == n + 1 .. Len(q)
           size == a[3] * 256 + a[4]
<1>1. /\ Len(s) \in Nat /\ Len(s) >= 4 /\ s[1] = a[1] /\ s[2] = a[2] /\ s[3] = a[3] /\ s[4] = a[4]
  <2>1. /\ Len(a) \in Nat /\ Len(w) \in Nat /\ Len(s) = Len(a) + Len(w)
        /\ \A i \in 1 .. Len(a) : s[i] = a[i]
    BY JoinIs
  <2>2. 1 \in 1 .. Len(a) /\ 2 \in 1 .. Len(a) /\ 3 \in 1 .. Len(a) /\ 4 \in 1 .. Len(a)
    BY <2>1
  <2> QED BY <2>1, <2>2
<1>2. PICK h \in Bytes, l \in Bytes : h = a[3] /\ l = a[4]
  <2>1. 3 \in 1 .. Len(a) /\ 4 \in 1 .. Len(a)
    OBVIOUS
  <2> QED BY <2>1, ByteIs
<1>3. h \in Int /\ l \in Int
  BY DEF Bytes
<1>4. Framed(s, q, n, at)
  OBVIOUS
<1> HIDE DEF s
<1>5. /\ \A k \in K : at[k] \in Nat /\ at[k] >= 1 /\ FrameAt(s, at[k], q[k])
      /\ \A i, j \in K : i < j => at[i] + Size(q[i]) <= at[j]
  <2>1. at \in [K -> 1 .. Len(s)] /\ \A k \in K : FrameAt(s, at[k], q[k])
    BY <1>4 DEF Framed
  <2>2. \A i, j \in K : i < j => at[i] + Size(q[i]) <= at[j]
    BY <1>4 DEF Framed
  <2>3. \A k \in K : at[k] \in 1 .. Len(s)
    BY <2>1
  <2> QED BY <1>1, <2>1, <2>2, <2>3
<1>6. \A k \in K : k \in Int /\ q[k] \in Message /\ Size(q[k]) \in Nat /\ Size(q[k]) >= 4
  <2>1. \A k \in K : k \in Int /\ q[k] \in Message
    OBVIOUS
  <2>2. \A p \in Message : Size(p) \in Nat /\ Size(p) >= 4
    BY MessageIs DEF Size
  <2> QED BY <2>1, <2>2
<1>7. ASSUME NEW k \in K, at[k] = 1
      PROVE  size = Len(q[k]) /\ size <= MAX_PAYLOAD
  <2>1. PICK p \in Message : p = q[k]
    BY <1>6
  <2>2. FrameAt(s, 1, p)
    BY <1>5, <1>7, <2>1
  <2>3. s[1 + 2] = Len(p) \div 256 /\ s[1 + 3] = Len(p) % 256
    BY <2>2 DEF FrameAt
  <2>4. h = Len(p) \div 256 /\ l = Len(p) % 256
    BY <1>1, <1>2, <2>3
  <2>5. h * 256 + l = Len(p) /\ Len(p) <= MAX_PAYLOAD
    BY <2>4, MessageIs
  <2> QED BY <1>2, <2>1, <2>5
<1>8. ASSUME size <= MAX_PAYLOAD
      PROVE  n < Len(q) /\ at[n + 1] = 1 /\ size = Len(q[n + 1])
  <2>1. h <= Short
    BY <1>2, <1>8, Sizes
  <2>2. 1 \in 1 .. Len(s) - 2 /\ s[1] = START1 /\ s[1 + 1] = START2 /\ s[1 + 2] <= Short
    BY <1>1, <1>2, <2>1
  <2>3. PICK k \in K : at[k] <= 1 /\ 1 < at[k] + Size(q[k])
    BY <1>4, <2>2 DEF Framed
  <2>4. at[k] = 1
    BY <1>5, <2>3
  <2>5. k = n + 1
    <3>1. n + 1 \in K
      BY <1>6
    <3>2. CASE n + 1 < k
      <4>1. PICK x \in Nat, z \in Nat : x = at[n + 1] /\ z = Size(q[n + 1]) /\ x >= 1 /\ z >= 4
        BY <1>5, <1>6, <3>1
      <4>2. x + z <= 1
        BY <1>5, <2>4, <3>1, <3>2, <4>1
      <4> QED BY <4>1, <4>2
    <3> QED BY <1>6, <3>1, <3>2
  <2>6. n < Len(q)
    BY <2>5
  <2> QED BY <1>7, <2>4, <2>5, <2>6
<1>9. ASSUME size > MAX_PAYLOAD, NEW k \in K
      PROVE  at[k] > 2
  <2>1. at[k] # 1
    <3>1. MAX_PAYLOAD \in Nat /\ size \in Int
      BY <1>2, <1>3, Sizes
    <3> QED BY <1>7, <1>9, <3>1
  <2>2. at[k] # 2
    <3>1. CASE at[k] = 2
      <4>1. FrameAt(s, 2, q[k])
        BY <1>5, <3>1
      <4>2. s[2] = START1
        BY <4>1 DEF FrameAt
      <4> QED BY <1>1, <4>2 DEF START1, START2
    <3> QED BY <3>1
  <2>3. PICK x \in Nat : x = at[k] /\ x >= 1 /\ x # 1 /\ x # 2
    BY <1>5, <2>1, <2>2
  <2>4. x > 2
    BY <2>3
  <2> QED BY <2>3, <2>4
<1> QED BY <1>8, <1>9

LEMMA SameSequence ==
    ASSUME NEW S, NEW s \in Seq(S), NEW t \in Seq(S), Len(s) = Len(t),
           \A i \in 1 .. Len(s) : s[i] = t[i]
    PROVE  s = t
OBVIOUS

\* A sequence without its first bytes is a sequence of bytes.
LEMMA DropIs ==
    ASSUME NEW a \in Seq(Bytes), NEW d \in Nat, d <= Len(a)
    PROVE  /\ SubSeq(a, d + 1, Len(a)) \in Seq(Bytes)
           /\ Without(a, d, SubSeq(a, d + 1, Len(a)))
<1>1. PICK m \in Nat \ {0}, l \in Nat : m = d + 1 /\ l = Len(a)
  OBVIOUS
<1>2. l <= Len(a)
  BY <1>1
<1>3. /\ SubSeq(a, m, l) \in Seq(Bytes)
      /\ Len(SubSeq(a, m, l)) = IF m <= l THEN l - m + 1 ELSE 0
      /\ \A i \in 1 .. l - m + 1 : SubSeq(a, m, l)[i] = a[m + i - 1]
  BY <1>2, PartIs
<1>4. PICK t \in Seq(Bytes) : t = SubSeq(a, m, l)
  BY <1>3
<1>5. Len(t) = l - d /\ l - m + 1 = l - d
  BY <1>1, <1>3, <1>4
<1>6. \A i \in 1 .. l - d : m + i - 1 = i + d
  BY <1>1
<1>7. \A i \in 1 .. Len(t) : t[i] = a[i + d]
  BY <1>3, <1>4, <1>5, <1>6
<1> QED BY <1>1, <1>4, <1>5, <1>7 DEF Without

\* What follows in the stream is there still.
LEMMA StreamWithout ==
    ASSUME NEW b \in Seq(Bytes), NEW c \in Seq(Bytes), NEW w \in Seq(Bytes),
           NEW d \in Nat, Without(b, d, c)
    PROVE  Without(b \o w, d, c \o w)
<1>1. /\ Len(b \o w) = Len(b) + Len(w) /\ Len(b) \in Nat /\ Len(w) \in Nat
      /\ \A i \in 1 .. Len(b) : (b \o w)[i] = b[i]
      /\ \A i \in Len(b) + 1 .. Len(b) + Len(w) : (b \o w)[i] = w[i - Len(b)]
  BY JoinIs
<1>2. /\ Len(c \o w) = Len(c) + Len(w) /\ Len(c) \in Nat
      /\ \A i \in 1 .. Len(c) : (c \o w)[i] = c[i]
      /\ \A i \in Len(c) + 1 .. Len(c) + Len(w) : (c \o w)[i] = w[i - Len(c)]
  BY JoinIs
<1>3. Len(c) = Len(b) - d /\ \A i \in 1 .. Len(c) : c[i] = b[i + d]
  BY DEF Without
<1>4. PICK s, t : s = b \o w /\ t = c \o w
  OBVIOUS
<1>5. PICK x \in Nat, y \in Nat, z \in Nat : x = Len(b) /\ y = Len(c) /\ z = Len(w)
  BY <1>1, <1>2
<1>6. y = x - d
  BY <1>3, <1>5
<1>7. ASSUME NEW i \in 1 .. y + z
      PROVE  t[i] = s[i + d]
  <2>1. CASE i <= y
    <3>1. i \in 1 .. y /\ i + d \in 1 .. x
      BY <1>6, <2>1
    <3> QED BY <1>1, <1>2, <1>3, <1>4, <1>5, <3>1
  <2>2. CASE i > y
    <3>1. i \in y + 1 .. y + z /\ i + d \in x + 1 .. x + z /\ (i + d) - x = i - y
      BY <1>6, <2>2
    <3>2. t[i] = w[i - y]
      BY <1>2, <1>4, <1>5, <3>1
    <3>3. s[i + d] = w[(i + d) - x]
      BY <1>1, <1>4, <1>5, <3>1
    <3> QED BY <3>1, <3>2, <3>3
  <2> QED BY <2>1, <2>2
<1>8. Len(t) = y + z /\ Len(s) = x + z
  BY <1>1, <1>2, <1>4, <1>5
<1>9. Len(t) = Len(s) - d
  BY <1>6, <1>8
<1> QED BY <1>4, <1>7, <1>8, <1>9 DEF Without

\* A buffer that loses bytes which hold nothing of the frames to come.
LEMMA BufferDrop ==
    ASSUME NEW b \in Seq(Bytes), NEW c \in Seq(Bytes), NEW w \in Seq(Bytes), NEW q \in Seq(Message),
           NEW n \in Nat, NEW m \in Nat, NEW d \in Nat, NEW at,
           Framed(b \o w, q, n, at), Without(b, d, c), Past(q, n, at, d, m)
    PROVE  \E to : Framed(c \o w, q, m, to) /\ Moved(q, m, at, d, to)
<1>1. PICK s \in Seq(Bytes), t \in Seq(Bytes) : s = b \o w /\ t = c \o w
  BY JoinIs
<1>2. Without(s, d, t)
  BY <1>1, StreamWithout
<1>3. Framed(s, q, n, at)
  BY <1>1
<1>4. n <= m
  BY DEF Past
<1>5. PICK to : Moved(q, m, at, d, to)
  BY <1>3, <1>4, MovedIs, Zenon
<1>6. Framed(t, q, m, to)
  BY <1>2, <1>3, <1>5, FramedDrop, Zenon
<1> QED BY <1>1, <1>5, <1>6

\* The drain loop ----------------------------------------------------------
\* The frames from the n-th on are still in the buffer b and behind it; at rest
\* none of them is whole in the buffer.
Carries(b, w, q, n) == \E at : Framed(b \o w, q, n, at)
Partial(b, q, n, at) == \A k \in n + 1 .. Len(q) : at[k] + Size(q[k]) > Len(b) + 1
Waits(b, w, q, n)   == \E at : Framed(b \o w, q, n, at) /\ Partial(b, q, n, at)

MagicAt(b, i) == b[i] = START1 /\ b[i + 1] = START2

\* Bytes before the first magic hold nothing of the frames to come.
LEMMA SkippedIs ==
    ASSUME NEW b \in Seq(Bytes), NEW w \in Seq(Bytes), NEW q \in Seq(Message), NEW n \in Nat,
           NEW at, Framed(b \o w, q, n, at),
           NEW d \in Nat, d < Len(b), \A i \in 1 .. d : ~MagicAt(b, i)
    PROVE  Past(q, n, at, d, n)
<1>1. PICK s \in Seq(Bytes) : s = b \o w
  BY JoinIs
<1>2. /\ Len(q) \in Nat
      /\ \A k \in n + 1 .. Len(q) : at[k] \in Nat /\ at[k] >= 1 /\ FrameAt(s, at[k], q[k])
  <2>1. Framed(s, q, n, at)
    BY <1>1
  <2> QED BY <2>1, FramedIs
<1>3. Len(b) \in Nat /\ \A i \in 1 .. Len(b) : s[i] = b[i]
  BY <1>1, JoinIs
<1>4. ASSUME NEW k \in n + 1 .. Len(q), at[k] <= d
      PROVE  FALSE
  <2>1. PICK i \in Nat : i = at[k] /\ i >= 1 /\ i <= d
    BY <1>2, <1>4
  <2>2. s[i] = START1 /\ s[i + 1] = START2
    BY <1>2, <2>1 DEF FrameAt
  <2>3. i \in 1 .. d /\ i \in 1 .. Len(b) /\ i + 1 \in 1 .. Len(b)
    BY <1>3, <2>1
  <2>4. MagicAt(b, i)
    BY <1>3, <2>2, <2>3 DEF MagicAt
  <2> QED BY <2>3, <2>4
<1>5. ASSUME NEW k \in n + 1 .. Len(q)
      PROVE  at[k] > d /\ ~(k <= n)
  <2>1. at[k] \in Nat /\ ~(at[k] <= d)
    BY <1>2, <1>4
  <2> QED BY <1>2, <2>1
<1> QED BY <1>5 DEF Past

LEMMA AlignedIs ==
    ASSUME buf \in Seq(Bytes), Magics # {}
    PROVE  /\ Aligned \in Seq(Bytes) /\ Len(Aligned) >= 2
           /\ Aligned[1] = START1 /\ Aligned[2] = START2
           /\ \E d \in Nat : /\ d < Len(buf) /\ Without(buf, d, Aligned)
                             /\ \A i \in 1 .. d : ~MagicAt(buf, i)
<1>1. /\ Len(buf) \in Nat /\ Magics \subseteq Nat
      /\ \A i \in Magics : i >= 1 /\ i < Len(buf) /\ MagicAt(buf, i)
      /\ \A i \in 1 .. Len(buf) - 1 : MagicAt(buf, i) => i \in Magics
  BY DEF Magics, MagicAt
<1> DEFINE Least(i) == i \in Magics /\ \A j \in Magics : i <= j
<1>2. PICK i : Least(i)
  <2>1. PICK k \in Magics : \A j \in Magics : ~ (<<j, k>> \in OpToRel(<, Nat))
    BY <1>1, NatLessThanWellFounded, WFMin
  <2>2. ASSUME NEW j \in Magics, j < k PROVE FALSE
    BY <2>1, <2>2, <1>1 DEF OpToRel
  <2>3. \A j \in Magics : k <= j
    BY <2>2, <1>1
  <2> QED BY <2>3
<1>3. PICK first \in Nat :
         /\ Least(first) /\ Aligned = SubSeq(buf, first, Len(buf))
  <2> DEFINE first == CHOOSE f \in Magics : \A j \in Magics : f <= j
  <2>1. first \in Magics /\ \A j \in Magics : first <= j
    BY <1>2
  <2> QED BY <1>1, <2>1 DEF Aligned
<1>4. PICK d \in Nat : first = d + 1 /\ d + 1 < Len(buf)
  <2>1. first - 1 \in Nat /\ first = (first - 1) + 1 /\ (first - 1) + 1 < Len(buf)
    BY <1>1, <1>3
  <2> QED BY <2>1
<1>5. Aligned \in Seq(Bytes) /\ Without(buf, d, Aligned)
  <2>1. d <= Len(buf)
    BY <1>1, <1>4
  <2> QED BY <1>3, <1>4, <2>1, DropIs
<1>6. \A j \in 1 .. d : ~MagicAt(buf, j)
  <2>1. \A j \in 1 .. d : j \in 1 .. Len(buf) - 1 /\ ~(first <= j)
    BY <1>1, <1>4
  <2> QED BY <1>1, <1>3, <2>1
<1>7. Len(Aligned) = Len(buf) - d /\ \A j \in 1 .. Len(Aligned) : Aligned[j] = buf[j + d]
  BY <1>5 DEF Without
<1>8. /\ Len(Aligned) >= 2 /\ 1 \in 1 .. Len(Aligned) /\ 2 \in 1 .. Len(Aligned)
      /\ 1 + d = first /\ 2 + d = first + 1
  BY <1>1, <1>4, <1>7
<1>9. Aligned[1] = buf[first] /\ Aligned[2] = buf[first + 1]
  BY <1>7, <1>8
<1>10. buf[first] = START1 /\ buf[first + 1] = START2
  BY <1>1, <1>3 DEF MagicAt
<1>11. d < Len(buf)
  BY <1>1, <1>4
<1> QED BY <1>5, <1>6, <1>8, <1>9, <1>10, <1>11

\* Aligning keeps the frames to come.
LEMMA AlignKeeps ==
    ASSUME buf \in Seq(Bytes), wire \in Seq(Bytes), NEW q \in Seq(Message), NEW n \in Nat,
           Carries(buf, wire, q, n), Magics # {}
    PROVE  Carries(Aligned, wire, q, n)
<1>1. PICK at : Framed(buf \o wire, q, n, at)
  BY DEF Carries
<1>2. PICK d \in Nat, a \in Seq(Bytes) :
         /\ a = Aligned /\ d < Len(buf) /\ Without(buf, d, a)
         /\ \A i \in 1 .. d : ~MagicAt(buf, i)
  BY AlignedIs
<1>3. Past(q, n, at, d, n)
  BY <1>1, <1>2, SkippedIs
<1>4. \E to : Framed(a \o wire, q, n, to) /\ Moved(q, n, at, d, to)
  BY <1>1, <1>2, <1>3, BufferDrop
<1> QED BY <1>2, <1>4 DEF Carries

\* No frame is whole in three bytes.
LEMMA PartialIs ==
    ASSUME NEW b \in Seq(Bytes), NEW w \in Seq(Bytes), NEW q \in Seq(Message), NEW n \in Nat,
           NEW at, Framed(b \o w, q, n, at), Len(b) < 4
    PROVE  Partial(b, q, n, at)
<1>1. PICK s \in Seq(Bytes) : s = b \o w
  BY JoinIs
<1>2. Framed(s, q, n, at)
  BY <1>1
<1>3. \A k \in n + 1 .. Len(q) : /\ at[k] \in Nat /\ at[k] >= 1
                                 /\ Size(q[k]) \in Nat /\ Size(q[k]) >= 4
  BY <1>2, FramedIs
<1>4. ASSUME NEW k \in n + 1 .. Len(q)
      PROVE  at[k] + Size(q[k]) > Len(b) + 1
  <2>1. PICK x \in Nat, z \in Nat, l \in Nat :
           x = at[k] /\ z = Size(q[k]) /\ l = Len(b) /\ x >= 1 /\ z >= 4 /\ l < 4
    BY <1>3
  <2>2. x + z > l + 1
    BY <2>1
  <2> QED BY <2>1, <2>2
<1> QED BY <1>4 DEF Partial

LEMMA NoMagicKeeps ==
    ASSUME buf \in Seq(Bytes), wire \in Seq(Bytes), NEW q \in Seq(Message), NEW n \in Nat,
           Carries(buf, wire, q, n), Magics = {}
    PROVE  LET rest == IF buf = <<>> THEN buf ELSE <<Last(buf)>>
           IN  rest \in Seq(Bytes) /\ Len(rest) <= 1 /\ Waits(rest, wire, q, n)
<1> DEFINE rest == IF buf = <<>> THEN buf ELSE <<Last(buf)>>
<1>1. PICK at : Framed(buf \o wire, q, n, at)
  BY DEF Carries
<1>2. CASE buf = <<>>
  <2>1. Len(buf) < 4
    BY <1>2
  <2>2. Partial(buf, q, n, at)
    BY <1>1, <2>1, PartialIs
  <2> QED BY <1>1, <1>2, <2>2 DEF Waits
<1>3. CASE buf # <<>>
  <2>1. PICK x \in Nat : Len(buf) = x + 1
    <3>1. Len(buf) \in Nat /\ Len(buf) # 0
      BY <1>3
    <3>2. Len(buf) - 1 \in Nat /\ Len(buf) = (Len(buf) - 1) + 1
      BY <3>1
    <3> QED BY <3>2
  <2>2. x + 1 \in 1 .. Len(buf)
    BY <2>1
  <2>3. PICK z \in Bytes : z = buf[x + 1] /\ rest = <<z>>
    BY <1>3, <2>1, <2>2, ByteIs DEF Last
  <2> DEFINE c == <<z>>
  <2>4. c \in Seq(Bytes) /\ Len(c) = 1 /\ c[1] = z /\ c = rest
    BY <2>3
  <2> HIDE DEF c, rest
  <2>5. Without(buf, x, c)
    <3>1. Len(c) = Len(buf) - x
      BY <2>1, <2>4
    <3>2. \A i \in 1 .. Len(c) : i = 1 /\ i + x = x + 1
      BY <2>4
    <3> QED BY <2>3, <2>4, <3>1, <3>2 DEF Without
  <2>6. \A i \in 1 .. x : ~MagicAt(buf, i)
    <3>1. 1 .. x = 1 .. Len(buf) - 1
      BY <2>1
    <3> QED BY <3>1 DEF Magics, MagicAt
  <2>7. x < Len(buf)
    BY <2>1
  <2>8. Past(q, n, at, x, n)
    BY <1>1, <2>6, <2>7, SkippedIs
  <2>9. PICK to : Framed(c \o wire, q, n, to)
    BY <1>1, <2>4, <2>5, <2>8, BufferDrop
  <2>10. Len(c) < 4 /\ Len(c) <= 1
    BY <2>4
  <2>11. Partial(c, q, n, to)
    BY <2>4, <2>9, <2>10, PartialIs
  <2> QED BY <2>4, <2>9, <2>10, <2>11 DEF Waits, rest
<1> QED BY <1>2, <1>3

LEMMA ShortKeeps ==
    ASSUME buf \in Seq(Bytes), wire \in Seq(Bytes), NEW q \in Seq(Message), NEW n \in Nat,
           Carries(buf, wire, q, n), Magics # {}, Len(Aligned) < 4
    PROVE  Waits(Aligned, wire, q, n)
<1>1. PICK a \in Seq(Bytes) : a = Aligned /\ Len(a) < 4
  BY AlignedIs
<1>2. PICK at : Framed(a \o wire, q, n, at)
  BY <1>1, AlignKeeps DEF Carries
<1>3. Partial(a, q, n, at)
  BY <1>1, <1>2, PartialIs
<1> QED BY <1>1, <1>2, <1>3 DEF Waits

\* What a header in the buffer says, in the terms of the model.
LEMMA PayloadLenIs ==
    ASSUME buf \in Seq(Bytes), wire \in Seq(Bytes), NEW q \in Seq(Message), NEW n \in Nat,
           Carries(buf, wire, q, n), Magics # {}, Len(Aligned) >= 4
    PROVE  /\ PayloadLen \in Int
           /\ \E at : /\ Framed(Aligned \o wire, q, n, at)
                      /\ PayloadLen <= MAX_PAYLOAD =>
                            n < Len(q) /\ at[n + 1] = 1 /\ PayloadLen = Len(q[n + 1])
                      /\ PayloadLen > MAX_PAYLOAD => \A k \in n + 1 .. Len(q) : at[k] > 2
<1>1. PICK a \in Seq(Bytes) : a = Aligned /\ Len(a) >= 4 /\ a[1] = START1 /\ a[2] = START2
  BY AlignedIs
<1>2. PICK at : Framed(a \o wire, q, n, at)
  BY <1>1, AlignKeeps DEF Carries
<1>3. PayloadLen = a[3] * 256 + a[4]
  BY <1>1 DEF PayloadLen
<1>4. 3 \in 1 .. Len(a) /\ 4 \in 1 .. Len(a)
  BY <1>1
<1>5. a[3] \in Int /\ a[4] \in Int
  BY <1>4, ByteIs
<1>6. PayloadLen \in Int
  BY <1>3, <1>5
<1>7. /\ PayloadLen <= MAX_PAYLOAD =>
            n < Len(q) /\ at[n + 1] = 1 /\ PayloadLen = Len(q[n + 1])
      /\ PayloadLen > MAX_PAYLOAD => \A k \in n + 1 .. Len(q) : at[k] > 2
  BY <1>1, <1>2, <1>3, HeaderSays
<1> QED BY <1>1, <1>2, <1>6, <1>7

LEMMA BadLengthKeeps ==
    ASSUME buf \in Seq(Bytes), wire \in Seq(Bytes), NEW q \in Seq(Message), NEW n \in Nat,
           Carries(buf, wire, q, n), Magics # {}, Len(Aligned) >= 4, PayloadLen > MAX_PAYLOAD
    PROVE  /\ SubSeq(Aligned, 3, Len(Aligned)) \in Seq(Bytes)
           /\ Carries(SubSeq(Aligned, 3, Len(Aligned)), wire, q, n)
<1>1. PICK a \in Seq(Bytes) : a = Aligned /\ Len(a) >= 4
  BY AlignedIs
<1>2. PICK at : Framed(a \o wire, q, n, at) /\ \A k \in n + 1 .. Len(q) : at[k] > 2
  BY <1>1, PayloadLenIs
<1>3. PICK c \in Seq(Bytes) : c = SubSeq(a, 3, Len(a)) /\ Without(a, 2, c)
  <2>1. 2 \in Nat /\ 2 <= Len(a) /\ 2 + 1 = 3
    BY <1>1
  <2>2. SubSeq(a, 2 + 1, Len(a)) \in Seq(Bytes) /\ Without(a, 2, SubSeq(a, 2 + 1, Len(a)))
    BY <2>1, DropIs, Zenon
  <2> QED BY <2>1, <2>2
<1>4. Past(q, n, at, 2, n)
  <2>1. n <= n /\ \A k \in n + 1 .. Len(q) : ~(k <= n)
    OBVIOUS
  <2> QED BY <1>2, <2>1 DEF Past
<1>5. PICK d \in Nat : d = 2
  OBVIOUS
<1>6. Without(a, d, c) /\ Past(q, n, at, d, n)
  BY <1>3, <1>4, <1>5
<1>7. \E to : Framed(c \o wire, q, n, to) /\ Moved(q, n, at, d, to)
  BY <1>2, <1>6, BufferDrop
<1> QED BY <1>1, <1>3, <1>7 DEF Carries

LEMMA AwaitKeeps ==
    ASSUME buf \in Seq(Bytes), wire \in Seq(Bytes), NEW q \in Seq(Message), NEW n \in Nat,
           Carries(buf, wire, q, n), Magics # {}, Len(Aligned) >= 4,
           PayloadLen <= MAX_PAYLOAD, Len(Aligned) < 4 + PayloadLen
    PROVE  Waits(Aligned, wire, q, n)
<1>1. PICK a \in Seq(Bytes) : a = Aligned /\ Len(a) < 4 + PayloadLen
  BY AlignedIs
<1>2. PICK at : /\ Framed(a \o wire, q, n, at)
                /\ n < Len(q) /\ at[n + 1] = 1 /\ PayloadLen = Len(q[n + 1])
  BY <1>1, PayloadLenIs
<1>3. PICK s \in Seq(Bytes) : s = a \o wire
  BY JoinIs
<1>4. Framed(s, q, n, at)
  BY <1>2, <1>3
<1>5. /\ Len(q) \in Nat
      /\ \A k \in n + 1 .. Len(q) : at[k] \in Nat /\ Size(q[k]) \in Nat
      /\ \A k, l \in n + 1 .. Len(q) : k < l => at[k] + Size(q[k]) <= at[l]
  BY <1>4, FramedIs
<1>6. n + 1 \in n + 1 .. Len(q)
  BY <1>2, <1>5
<1>7. PICK z \in Nat, l \in Nat : z = Size(q[n + 1]) /\ l = Len(a) /\ l < z
  BY <1>1, <1>2, <1>5, <1>6 DEF Size
<1>8. ASSUME NEW k \in n + 1 .. Len(q)
      PROVE  at[k] + Size(q[k]) > Len(a) + 1
  <2>1. PICK x \in Nat, y \in Nat : x = at[k] /\ y = Size(q[k])
    BY <1>5
  <2>2. CASE k = n + 1
    BY <1>2, <1>7, <2>1, <2>2
  <2>3. CASE n + 1 < k
    <3>1. 1 + z <= x
      BY <1>2, <1>5, <1>6, <1>7, <2>1, <2>3
    <3>2. x + y > l + 1
      BY <1>7, <3>1
    <3> QED BY <1>7, <2>1, <3>2
  <2> QED BY <2>2, <2>3
<1>9. Partial(a, q, n, at)
  BY <1>8 DEF Partial
<1> QED BY <1>1, <1>2, <1>9 DEF Waits

\* The frame at the front of the buffer, whole: its payload is the next message,
\* and what remains carries those after it.
LEMMA TakeKeeps ==
    ASSUME buf \in Seq(Bytes), wire \in Seq(Bytes), NEW q \in Seq(Message), NEW n \in Nat,
           Carries(buf, wire, q, n), Magics # {}, Len(Aligned) >= 4,
           PayloadLen <= MAX_PAYLOAD, Len(Aligned) >= 4 + PayloadLen
    PROVE  /\ n < Len(q) /\ PayloadOf = q[n + 1]
           /\ SubSeq(Aligned, 5 + PayloadLen, Len(Aligned)) \in Seq(Bytes)
           /\ Carries(SubSeq(Aligned, 5 + PayloadLen, Len(Aligned)), wire, q, n + 1)
<1>1. PICK a \in Seq(Bytes) : a = Aligned /\ Len(a) >= 4 + PayloadLen
  BY AlignedIs
<1>2. PICK at : /\ Framed(a \o wire, q, n, at)
                /\ n < Len(q) /\ at[n + 1] = 1 /\ PayloadLen = Len(q[n + 1])
  BY <1>1, PayloadLenIs
<1> DEFINE s == a \o wire
<1>3. s \in Seq(Bytes) /\ \A i \in 1 .. Len(a) : s[i] = a[i]
  BY JoinIs, Zenon
<1>4. Framed(s, q, n, at)
  BY <1>2
<1> HIDE DEF s
<1>5. /\ Len(q) \in Nat
      /\ \A k \in n + 1 .. Len(q) : /\ at[k] \in Nat /\ Size(q[k]) \in Nat /\ q[k] \in Message
                                    /\ FrameAt(s, at[k], q[k])
      /\ \A k, l \in n + 1 .. Len(q) : k < l => at[k] + Size(q[k]) <= at[l]
  BY <1>3, <1>4, FramedIs
<1>6. n + 1 \in n + 1 .. Len(q)
  BY <1>2, <1>5
<1>7. PICK p \in Message : p = q[n + 1]
  BY <1>5, <1>6
<1>8. PICK z \in Nat, l \in Nat : z = Len(p) /\ l = Len(a) /\ 4 + z <= l /\ PayloadLen = z
  <2>1. Len(p) \in Nat /\ Len(a) \in Nat /\ PayloadLen = Len(p)
    BY <1>2, <1>7, MessageIs
  <2> QED BY <1>1, <2>1
<1>9. SubSeq(a, 5, 4 + z) = p
  <2>1. PICK i \in Nat \ {0}, j \in Nat : i = 5 /\ j = 4 + z
    OBVIOUS
  <2>2. j <= Len(a)
    BY <1>8, <2>1
  <2>3. /\ SubSeq(a, i, j) \in Seq(Bytes)
        /\ Len(SubSeq(a, i, j)) = IF i <= j THEN j - i + 1 ELSE 0
        /\ \A y \in 1 .. j - i + 1 : SubSeq(a, i, j)[y] = a[i + y - 1]
    BY <2>2, PartIs
  <2>4. PICK t \in Seq(Bytes) : t = SubSeq(a, i, j)
    BY <2>3
  <2>5. j - i + 1 = z /\ (i <= j \/ z = 0)
    BY <2>1
  <2>6. Len(t) = z
    BY <2>3, <2>4, <2>5
  <2>7. \A y \in 1 .. z : i + y - 1 = 4 + y /\ 4 + y \in 1 .. Len(a) /\ 1 + 3 + y = 4 + y
    BY <1>8, <2>1
  <2>8. \A y \in 1 .. z : t[y] = a[4 + y]
    BY <2>3, <2>4, <2>5, <2>7
  <2>9. \A y \in 1 .. z : s[4 + y] = p[y]
    <3>1. FrameAt(s, 1, p)
      BY <1>2, <1>5, <1>6, <1>7
    <3>2. \A y \in 1 .. Len(p) : s[1 + 3 + y] = p[y]
      BY <3>1 DEF FrameAt
    <3> QED BY <1>8, <2>7, <3>2
  <2>10. \A y \in 1 .. z : t[y] = p[y]
    BY <1>3, <2>7, <2>8, <2>9
  <2>11. p \in Seq(Bytes) /\ Len(t) = Len(p)
    BY <1>8, <2>6, MessageIs
  <2>12. t = p
    BY <1>8, <2>10, <2>11, SameSequence
  <2> QED BY <2>1, <2>4, <2>12
<1>10. PICK d \in Nat, m \in Nat : d = 4 + z /\ m = n + 1
  OBVIOUS
<1>11. PICK c \in Seq(Bytes) : c = SubSeq(a, 5 + z, l) /\ Without(a, d, c)
  <2>1. d <= Len(a) /\ d + 1 = 5 + z
    BY <1>8, <1>10
  <2>2. SubSeq(a, d + 1, Len(a)) \in Seq(Bytes) /\ Without(a, d, SubSeq(a, d + 1, Len(a)))
    BY <2>1, DropIs
  <2> QED BY <1>8, <2>1, <2>2
<1>12. ASSUME NEW k \in n + 1 .. Len(q)
       PROVE  IF k <= m THEN at[k] + Size(q[k]) <= d + 1 ELSE at[k] > d
  <2>1. PICK x \in Nat : x = at[k]
    BY <1>5
  <2>2. Size(p) = d
    BY <1>8, <1>10 DEF Size
  <2>3. CASE k = n + 1
    <3>1. at[k] + Size(q[k]) = 1 + d /\ k <= m
      BY <1>2, <1>7, <1>10, <2>2, <2>3
    <3> QED BY <3>1
  <2>4. CASE n + 1 < k
    <3>1. 1 + d <= x
      BY <1>2, <1>5, <1>6, <1>7, <2>1, <2>2, <2>4
    <3>2. x > d /\ ~(k <= m)
      BY <1>10, <2>4, <3>1
    <3> QED BY <2>1, <3>2
  <2> QED BY <2>3, <2>4
<1>13. Past(q, n, at, d, m)
  BY <1>10, <1>12 DEF Past
<1>14. \E to : Framed(c \o wire, q, m, to) /\ Moved(q, m, at, d, to)
  BY <1>2, <1>11, <1>13, BufferDrop
<1>15. PayloadOf = p /\ SubSeq(Aligned, 5 + PayloadLen, Len(Aligned)) = c
  BY <1>1, <1>8, <1>9, <1>11 DEF PayloadOf
<1> QED BY <1>2, <1>7, <1>10, <1>14, <1>15 DEF Carries

\* The bytes that arrive ---------------------------------------------------
\* A stray byte.
LEMMA ByteKeeps ==
    ASSUME NEW b \in Seq(Bytes), NEW w \in Seq(Bytes), NEW x \in Bytes, x > Short,
           NEW q \in Seq(Message), NEW n \in Nat
    PROVE  /\ Append(w, x) \in Seq(Bytes)
           /\ Carries(b, w, q, n) => Carries(b, Append(w, x), q, n)
           /\ Waits(b, w, q, n) => Waits(b, Append(w, x), q, n)
<1> DEFINE v == Append(w, x)
<1>1. /\ v \in Seq(Bytes) /\ Len(v) = Len(w) + 1 /\ v[Len(w) + 1] = x
      /\ \A i \in 1 .. Len(w) : v[i] = w[i]
  OBVIOUS
<1> HIDE DEF v
<1> DEFINE s == b \o w
           t == b \o v
<1>2. /\ s \in Seq(Bytes) /\ Len(s) = Len(b) + Len(w) /\ Len(b) \in Nat /\ Len(w) \in Nat
      /\ \A i \in 1 .. Len(b) : s[i] = b[i]
      /\ \A i \in Len(b) + 1 .. Len(b) + Len(w) : s[i] = w[i - Len(b)]
  BY JoinIs, Zenon
<1>3. /\ t \in Seq(Bytes) /\ Len(t) = Len(b) + Len(v)
      /\ \A i \in 1 .. Len(b) : t[i] = b[i]
      /\ \A i \in Len(b) + 1 .. Len(b) + Len(v) : t[i] = v[i - Len(b)]
  <2>1. v \in Seq(Bytes)
    BY <1>1
  <2> QED BY <2>1, JoinIs, Zenon
<1> HIDE DEF s, t
<1>4. PICK y \in Nat, z \in Nat : y = Len(b) /\ z = Len(w)
  BY <1>2
<1>5. Len(v) = z + 1 /\ Len(s) = y + z /\ Len(t) = y + z + 1
  BY <1>1, <1>2, <1>3, <1>4
<1>6. ASSUME NEW i \in 1 .. y + z
      PROVE  t[i] = s[i]
  <2>1. CASE i <= y
    <3>1. i \in 1 .. y
      BY <2>1
    <3> QED BY <1>2, <1>3, <1>4, <3>1
  <2>2. CASE i > y
    <3>1. i \in y + 1 .. y + z /\ i \in y + 1 .. y + (z + 1) /\ i - y \in 1 .. z
      BY <2>2
    <3>2. s[i] = w[i - y] /\ t[i] = v[i - y]
      BY <1>2, <1>3, <1>4, <1>5, <3>1
    <3> QED BY <1>1, <1>4, <3>1, <3>2
  <2> QED BY <2>1, <2>2
<1>7. t[Len(t)] > Short
  <2>1. y + z + 1 \in y + 1 .. y + (z + 1) /\ (y + z + 1) - y = z + 1
    OBVIOUS
  <2>2. t[y + z + 1] = v[z + 1]
    BY <1>3, <1>4, <1>5, <2>1
  <2> QED BY <1>1, <1>4, <1>5, <2>2
<1>8. Len(t) = Len(s) + 1 /\ \A i \in 1 .. Len(s) : t[i] = s[i]
  BY <1>5, <1>6
<1>9. \A at : Framed(s, q, n, at) => Framed(t, q, n, at)
  BY <1>2, <1>3, <1>7, <1>8, FramedByte
<1> QED BY <1>1, <1>9 DEF Carries, Waits, s, t, v

\* A frame.
LEMMA FrameKeeps ==
    ASSUME NEW b \in Seq(Bytes), NEW w \in Seq(Bytes), NEW p \in Message,
           NEW q \in Seq(Message), NEW n \in Nat, n <= Len(q)
    PROVE  /\ w \o Frame(p) \in Seq(Bytes)
           /\ Carries(b, w, q, n) => Carries(b, w \o Frame(p), Append(q, p), n)
           /\ Waits(b, w, q, n) => Waits(b, w \o Frame(p), Append(q, p), n)
<1>0. PICK f \in Seq(Bytes) : f = Frame(p) /\ Len(f) = Size(p)
  BY FrameIs DEF Size
<1> DEFINE v == w \o f
           s == b \o w
           t == b \o v
<1>1. /\ v \in Seq(Bytes) /\ Len(v) = Len(w) + Len(f) /\ Len(f) \in Nat
      /\ \A i \in 1 .. Len(w) : v[i] = w[i]
      /\ \A i \in Len(w) + 1 .. Len(w) + Len(f) : v[i] = f[i - Len(w)]
  BY JoinIs, Zenon
<1>2. /\ s \in Seq(Bytes) /\ Len(s) = Len(b) + Len(w) /\ Len(b) \in Nat /\ Len(w) \in Nat
      /\ \A i \in 1 .. Len(b) : s[i] = b[i]
      /\ \A i \in Len(b) + 1 .. Len(b) + Len(w) : s[i] = w[i - Len(b)]
  BY JoinIs, Zenon
<1> HIDE DEF v
<1>3. /\ t \in Seq(Bytes) /\ Len(t) = Len(b) + Len(v)
      /\ \A i \in 1 .. Len(b) : t[i] = b[i]
      /\ \A i \in Len(b) + 1 .. Len(b) + Len(v) : t[i] = v[i - Len(b)]
  <2>1. v \in Seq(Bytes)
    BY <1>1
  <2> QED BY <2>1, JoinIs, Zenon
<1> HIDE DEF s, t
<1>4. PICK y \in Nat, z \in Nat, l \in Nat : y = Len(b) /\ z = Len(w) /\ l = Len(f) /\ l = Size(p)
  BY <1>0, <1>1, <1>2
<1>5. Len(v) = z + l /\ Len(s) = y + z /\ Len(t) = y + (z + l)
  BY <1>1, <1>2, <1>3, <1>4
<1>6. ASSUME NEW i \in 1 .. y + z
      PROVE  t[i] = s[i]
  <2>1. CASE i <= y
    <3>1. i \in 1 .. y
      BY <2>1
    <3> QED BY <1>2, <1>3, <1>4, <3>1
  <2>2. CASE i > y
    <3>1. i \in y + 1 .. y + z /\ i \in y + 1 .. y + (z + l) /\ i - y \in 1 .. z
      BY <2>2
    <3>2. s[i] = w[i - y] /\ t[i] = v[i - y]
      BY <1>2, <1>3, <1>4, <1>5, <3>1
    <3> QED BY <1>1, <1>4, <3>1, <3>2
  <2> QED BY <2>1, <2>2
<1>7. ASSUME NEW i \in 1 .. l
      PROVE  t[y + z + i] = f[i]
  <2>1. /\ y + z + i \in y + 1 .. y + (z + l) /\ (y + z + i) - y = z + i
        /\ z + i \in z + 1 .. z + l /\ (z + i) - z = i
    OBVIOUS
  <2>2. t[y + z + i] = v[z + i]
    BY <1>3, <1>4, <1>5, <2>1
  <2>3. v[z + i] = f[i]
    BY <1>1, <1>4, <2>1
  <2> QED BY <2>2, <2>3
<1>8. /\ Len(t) = Len(s) + Size(p) /\ \A i \in 1 .. Len(s) : t[i] = s[i]
      /\ \A i \in 1 .. Size(p) : t[Len(s) + i] = Frame(p)[i]
  <2>1. Len(t) = Len(s) + Size(p)
    <3>1. y + (z + l) = (y + z) + l
      OBVIOUS
    <3> QED BY <1>4, <1>5, <3>1
  <2> QED BY <1>0, <1>4, <1>5, <1>6, <1>7, <2>1
<1> DEFINE u == Append(q, p)
           moved(at) == Extended(q, n, at, Len(s) + 1)
<1>9. ASSUME NEW at, Framed(s, q, n, at)
      PROVE  Framed(t, u, n, moved(at))
  BY <1>2, <1>3, <1>8, <1>9, FramedMore
<1>10. ASSUME NEW at, Partial(b, q, n, at)
       PROVE  Partial(b, u, n, moved(at))
  <2>1. Len(u) = Len(q) + 1 /\ Len(q) \in Nat /\ u[Len(q) + 1] = p
        /\ \A k \in 1 .. Len(q) : u[k] = q[k]
    OBVIOUS
  <2> SUFFICES ASSUME NEW k \in n + 1 .. Len(q) + 1
               PROVE  moved(at)[k] + Size(u[k]) > Len(b) + 1
    BY <2>1 DEF Partial
  <2>2. CASE k = Len(q) + 1
    <3>1. moved(at)[k] = y + z + 1 /\ Size(u[k]) = l
      BY <1>4, <1>5, <2>1, <2>2 DEF Extended
    <3>2. l >= 4
      <4>1. Len(p) \in Nat
        BY MessageIs
      <4> QED BY <1>4, <4>1 DEF Size
    <3>3. y + z + 1 + l > y + 1
      BY <3>2
    <3> QED BY <1>4, <3>1, <3>3
  <2>3. CASE k # Len(q) + 1
    <3>1. k \in n + 1 .. Len(q) /\ k \in 1 .. Len(q)
      BY <2>1, <2>3
    <3>2. moved(at)[k] = at[k] /\ u[k] = q[k]
      BY <2>1, <2>3, <3>1 DEF Extended
    <3> QED BY <1>10, <3>1, <3>2 DEF Partial
  <2> QED BY <2>2, <2>3
<1> HIDE DEF moved, u
<1>11. Carries(b, w, q, n) => Carries(b, w \o Frame(p), u, n)
  BY <1>0, <1>9 DEF Carries, s, t, v
<1>12. Waits(b, w, q, n) => Waits(b, w \o Frame(p), u, n)
  BY <1>0, <1>9, <1>10 DEF Waits, s, t, v
<1> QED BY <1>0, <1>1, <1>11, <1>12 DEF u, v

\* A read.
LEMMA ReadKeeps ==
    ASSUME NEW b \in Seq(Bytes), NEW w \in Seq(Bytes), NEW k \in 0 .. Len(w)
    PROVE  /\ b \o SubSeq(w, 1, k) \in Seq(Bytes) /\ SubSeq(w, k + 1, Len(w)) \in Seq(Bytes)
           /\ (b \o SubSeq(w, 1, k)) \o SubSeq(w, k + 1, Len(w)) = b \o w
<1>1. PICK l \in Nat : l = Len(w) /\ k \in Nat /\ k <= l
  OBVIOUS
<1>2. PICK g \in Seq(Bytes) :
         /\ g = SubSeq(w, 1, k) /\ Len(g) = k /\ \A i \in 1 .. k : g[i] = w[i]
  <2>1. PICK m \in Nat \ {0}, j \in Nat : m = 1 /\ j = k
    BY <1>1
  <2>2. j <= Len(w)
    BY <1>1, <2>1
  <2>3. /\ SubSeq(w, m, j) \in Seq(Bytes)
        /\ Len(SubSeq(w, m, j)) = IF m <= j THEN j - m + 1 ELSE 0
        /\ \A i \in 1 .. j - m + 1 : SubSeq(w, m, j)[i] = w[m + i - 1]
    BY <2>2, PartIs
  <2>4. j - m + 1 = k /\ (m <= j \/ k = 0) /\ \A i \in 1 .. k : m + i - 1 = i
    BY <1>1, <2>1
  <2>5. PICK g \in Seq(Bytes) : g = SubSeq(w, m, j)
    BY <2>3
  <2>6. Len(g) = k
    BY <2>3, <2>4, <2>5
  <2>7. \A i \in 1 .. k : g[i] = w[i]
    BY <2>3, <2>4, <2>5
  <2> QED BY <2>1, <2>5, <2>6, <2>7
<1>3. PICK h \in Seq(Bytes) :
         /\ h = SubSeq(w, k + 1, Len(w)) /\ Len(h) = l - k /\ \A i \in 1 .. l - k : h[i] = w[i + k]
  <2>1. SubSeq(w, k + 1, Len(w)) \in Seq(Bytes) /\ Without(w, k, SubSeq(w, k + 1, Len(w)))
    BY <1>1, DropIs
  <2> QED BY <1>1, <2>1 DEF Without
<1> DEFINE c == b \o g
           s == b \o w
           t == c \o h
<1>4. /\ c \in Seq(Bytes) /\ Len(c) = Len(b) + Len(g) /\ Len(b) \in Nat
      /\ \A i \in 1 .. Len(b) : c[i] = b[i]
      /\ \A i \in Len(b) + 1 .. Len(b) + Len(g) : c[i] = g[i - Len(b)]
  BY JoinIs, Zenon
<1>5. /\ s \in Seq(Bytes) /\ Len(s) = Len(b) + Len(w)
      /\ \A i \in 1 .. Len(b) : s[i] = b[i]
      /\ \A i \in Len(b) + 1 .. Len(b) + Len(w) : s[i] = w[i - Len(b)]
  BY JoinIs, Zenon
<1> HIDE DEF c, s
<1>6. /\ t \in Seq(Bytes) /\ Len(t) = Len(c) + Len(h)
      /\ \A i \in 1 .. Len(c) : t[i] = c[i]
      /\ \A i \in Len(c) + 1 .. Len(c) + Len(h) : t[i] = h[i - Len(c)]
  <2>1. c \in Seq(Bytes)
    BY <1>4
  <2> QED BY <2>1, JoinIs, Zenon
<1> HIDE DEF t
<1>7. PICK y \in Nat : y = Len(b)
  BY <1>4
<1>8. Len(c) = y + k /\ Len(s) = y + l /\ Len(t) = y + l
  <2>1. (y + k) + (l - k) = y + l
    BY <1>1
  <2> QED BY <1>1, <1>2, <1>3, <1>4, <1>5, <1>6, <1>7, <2>1
<1>9. ASSUME NEW i \in 1 .. y + l
      PROVE  t[i] = s[i]
  <2>1. CASE i <= y
    <3>1. i \in 1 .. y /\ i \in 1 .. y + k
      BY <1>1, <2>1
    <3> QED BY <1>4, <1>5, <1>6, <1>7, <1>8, <3>1
  <2>2. CASE i > y /\ i <= y + k
    <3>1. i \in y + 1 .. y + k /\ i \in 1 .. y + k /\ i \in y + 1 .. y + l /\ i - y \in 1 .. k
      BY <1>1, <2>2
    <3>2. t[i] = c[i] /\ c[i] = g[i - y] /\ s[i] = w[i - y]
      BY <1>1, <1>2, <1>4, <1>5, <1>6, <1>7, <1>8, <3>1
    <3> QED BY <1>2, <3>1, <3>2
  <2>3. CASE i > y + k
    <3>1. /\ i \in y + k + 1 .. (y + k) + (l - k) /\ i \in y + 1 .. y + l
          /\ i - (y + k) \in 1 .. l - k /\ (i - (y + k)) + k = i - y
      BY <1>1, <2>3
    <3>2. t[i] = h[i - (y + k)] /\ s[i] = w[i - y]
      BY <1>1, <1>3, <1>5, <1>6, <1>7, <1>8, <3>1
    <3>3. h[i - (y + k)] = w[(i - (y + k)) + k]
      BY <1>3, <3>1
    <3> QED BY <3>1, <3>2, <3>3
  <2> QED BY <1>1, <2>1, <2>2, <2>3
<1>10. t = s
  BY <1>5, <1>6, <1>8, <1>9, SameSequence
<1> QED BY <1>2, <1>3, <1>4, <1>10 DEF c, s, t

\* Before anything is sent, a stream without a short header carries nothing.
LEMMA NothingIs ==
    ASSUME NEW t \in Seq(Bytes),
           \A i \in 1 .. Len(t) - 2 : ~(t[i] = START1 /\ t[i + 1] = START2 /\ t[i + 2] <= Short)
    PROVE  Carries(<<>>, t, <<>>, 0)
<1>1. Len(<<>>) = 0 /\ 0 + 1 .. 0 = {} /\ <<>> \o t = t
  OBVIOUS
<1>2. [j \in {} |-> 1] \in [{} -> 1 .. Len(t)]
  OBVIOUS
<1>3. Framed(t, <<>>, 0, [j \in {} |-> 1])
  BY <1>1, <1>2 DEF Framed
<1> QED BY <1>1, <1>3 DEF Carries

\* The reset of the input: of a frame on its way three bytes are left at most,
\* and they look like no header.
LEMMA ResetKeeps ==
    ASSUME NEW p \in Message, ~LooksLikeHeader(p), NEW k \in 0 .. 3, NEW f, f = Frame(p), NEW t,
           t = SubSeq(f, Len(f) - k + 1, Len(f))
    PROVE  t \in Seq(Bytes) /\ Carries(<<>>, t, <<>>, 0)
<1>1. PICK z \in Nat : /\ z = Len(p) /\ f \in Seq(Bytes) /\ Len(f) = 4 + z
                       /\ f[2] = START2 /\ f[3] = z \div 256 /\ f[4] = z % 256
                       /\ \A j \in 1 .. z : f[4 + j] = p[j]
  <2>1. Len(p) \in Nat
    BY MessageIs
  <2> QED BY <2>1, FrameIs
<1>2. PICK d \in Nat : d = 4 + z - k
  <2>1. \A x \in Nat, y \in 0 .. 3 : 4 + x - y \in Nat
    OBVIOUS
  <2>2. 4 + z - k \in Nat
    BY <2>1
  <2> QED BY <2>2
<1>3. t \in Seq(Bytes) /\ Len(t) = k /\ \A i \in 1 .. k : t[i] = f[i + d]
  <2>1. d <= Len(f) /\ d + 1 = Len(f) - k + 1 /\ Len(f) - d = k
    BY <1>1, <1>2
  <2>2. SubSeq(f, d + 1, Len(f)) \in Seq(Bytes) /\ Without(f, d, SubSeq(f, d + 1, Len(f)))
    BY <1>1, <2>1, DropIs
  <2>3. t = SubSeq(f, d + 1, Len(f))
    BY <2>1
  <2>4. t \in Seq(Bytes) /\ Without(f, d, t)
    BY <2>2, <2>3
  <2> QED BY <2>1, <2>4 DEF Without
<1>4. ASSUME NEW i \in 1 .. Len(t) - 2, t[i] = START1, t[i + 1] = START2, t[i + 2] <= Short
      PROVE  FALSE
  <2>1. i = 1 /\ k = 3
    BY <1>3, <1>4
  <2>2. d = z + 1 /\ 1 \in 1 .. k /\ 2 \in 1 .. k /\ 3 \in 1 .. k
    BY <1>2, <2>1
  <2>3. f[z + 2] = START1 /\ f[z + 3] = START2 /\ f[z + 4] <= Short
    <3>1. t[1] = f[1 + d] /\ t[2] = f[2 + d] /\ t[3] = f[3 + d]
      BY <1>3, <2>2
    <3>2. 1 + d = z + 2 /\ 2 + d = z + 3 /\ 3 + d = z + 4
      BY <2>2
    <3> QED BY <1>4, <2>1, <3>1, <3>2
  <2>4. z # 0
    BY <1>1, <2>3 DEF START1, START2
  <2>5. z # 1
    <3>1. z = 1 => z \div 256 = 0
      OBVIOUS
    <3>2. z = 1 => f[3] = 148
      BY <2>3 DEF START1
    <3>3. z = 1 => f[3] = 0
      BY <1>1, <3>1
    <3> QED BY <3>2, <3>3
  <2>6. z # 2
    <3>1. z = 2 => z % 256 = 2
      OBVIOUS
    <3>2. z = 2 => f[4] = 148
      BY <2>3 DEF START1
    <3>3. z = 2 => f[4] = 2
      BY <1>1, <3>1
    <3> QED BY <3>2, <3>3
  <2>7. PICK j \in 1 .. z - 2 : j = z - 2
    BY <2>4, <2>5, <2>6
  <2>8. /\ z + 2 = 4 + j /\ z + 3 = 4 + (j + 1) /\ z + 4 = 4 + (j + 2)
        /\ j \in 1 .. z /\ j + 1 \in 1 .. z /\ j + 2 \in 1 .. z
    BY <2>7
  <2>9. p[j] = START1 /\ p[j + 1] = START2 /\ p[j + 2] <= Short
    BY <1>1, <2>3, <2>8
  <2> QED BY <1>1, <2>7, <2>9 DEF LooksLikeHeader, Short
<1>5. \A i \in 1 .. Len(t) - 2 : ~(t[i] = START1 /\ t[i + 1] = START2 /\ t[i + 2] <= Short)
  BY <1>4
<1> QED BY <1>3, <1>5, NothingIs

LEMMA EmptyKeeps ==
    ASSUME NEW t, t = <<>> \/ \E b \in Bytes : t = <<b>>, NEW k \in 0 .. 3, k <= Len(t), NEW r,
           r = SubSeq(t, Len(t) - k + 1, Len(t))
    PROVE  r \in Seq(Bytes) /\ Carries(<<>>, r, <<>>, 0)
<1>1. t \in Seq(Bytes) /\ Len(t) \in Nat /\ Len(t) <= 1
  OBVIOUS
<1>2. PICK d \in Nat : d = Len(t) - k /\ d <= Len(t) /\ Len(t) - d = k
  BY <1>1
<1>3. r \in Seq(Bytes) /\ Len(r) = k
  <2>1. SubSeq(t, d + 1, Len(t)) \in Seq(Bytes) /\ Without(t, d, SubSeq(t, d + 1, Len(t)))
    BY <1>1, <1>2, DropIs
  <2>2. r = SubSeq(t, d + 1, Len(t))
    BY <1>2
  <2> QED BY <1>2, <2>1, <2>2 DEF Without
<1>4. 1 .. Len(r) - 2 = {}
  <2>1. Len(r) <= 1 /\ Len(r) \in Nat
    BY <1>1, <1>3
  <2> QED BY <2>1
<1>5. \A i \in 1 .. Len(r) - 2 : ~(r[i] = START1 /\ r[i + 1] = START2 /\ r[i + 2] <= Short)
  BY <1>4
<1> QED BY <1>3, <1>5, NothingIs

\* The messages of the node ------------------------------------------------
LEMMA Answer ==
    /\ \A p \in Message : ExtractConfigCompleteId(p) = Nonce => p = ConfigComplete(Nonce)
    /\ ExtractConfigCompleteId(ConfigComplete(Nonce)) = Nonce
    /\ \A p \in Payload \cup {ConfigComplete(StaleNonce)} : p \in Message /\ p # ConfigComplete(Nonce)
    /\ ConfigComplete(Nonce) \in Message
<1>1. Nonce \in Nat /\ StaleNonce # Nonce /\ NoId # Nonce
  BY FramingAssumption DEF NoId
<1>2. /\ \A p \in Payload : ExtractConfigCompleteId(p) = NoId
      /\ ExtractConfigCompleteId(ConfigComplete(Nonce)) = Nonce
      /\ ExtractConfigCompleteId(ConfigComplete(StaleNonce)) = StaleNonce
  BY FramingAssumption
<1> QED BY <1>1, <1>2 DEF Message

\* The invariant -----------------------------------------------------------
Early == Payload \cup {ConfigComplete(StaleNonce)}

TypeInv ==
    /\ TypeOK
    /\ sent \in Seq(Message) /\ burst \in Seq(Message)
    /\ asked \in BOOLEAN /\ answered \in BOOLEAN

\* What goes with the stages of main(): nothing is read before the request is
\* out, and at most one thing has arrived before the input is reset.
StageInv ==
    /\ stage \in {"open", "wake", "request"} =>
          buf = <<>> /\ frames = <<>> /\ ~complete /\ ~asked
    /\ ~asked => burst = <<>> /\ ~answered
    /\ stage = "open" => \/ wire = <<>>
                         \/ \E p \in Early : wire = Frame(p)
                         \/ \E b \in Noise : wire = <<b>>
    /\ stage = "drain" => ~complete
    /\ stage # "exit" => exit = NoExit
    /\ exit = 0 => complete

\* The frames read are the first of those sent; the others are in the buffer
\* and on the wire, one after the other.
SyncInv ==
    /\ Len(frames) <= Len(sent)
    /\ \A k \in 1 .. Len(frames) : frames[k] = sent[k]
    /\ stage # "open" =>
          IF stage = "read" /\ ~complete THEN Waits(buf, wire, sent, Len(frames))
                                         ELSE Carries(buf, wire, sent, Len(frames))

\* The answer to the request is what was sent after `base'; config_complete_id
\* with our nonce is sent once, at its end.
AnswerAt(q, a, done, base) ==
    /\ base + Len(a) <= Len(q)
    /\ \A i \in 1 .. Len(a) : a[i] = q[base + i]
    /\ ~done => base + Len(a) = Len(q)
    /\ \A k \in 1 .. Len(q) : q[k] = ConfigComplete(Nonce) => done /\ k = base + Len(a)

BurstInv ==
    /\ \E base \in Nat : AnswerAt(sent, burst, answered, base)
    /\ complete => Len(frames) > 0 /\ frames[Len(frames)] = ConfigComplete(Nonce)

IInv == TypeInv /\ StageInv /\ SyncInv /\ BurstInv /\ BufferBounded

LEMMA WaitsCarries ==
    ASSUME NEW b, NEW w, NEW q, NEW n, Waits(b, w, q, n)
    PROVE  Carries(b, w, q, n)
BY DEF Waits, Carries

\* While it waits, the stream carries the frames to come.
LEMMA StillCarried ==
    ASSUME IInv, stage # "open"
    PROVE  Carries(buf, wire, sent, Len(frames))
BY WaitsCarries DEF IInv, SyncInv

LEMMA NoiseIs == Noise \subseteq Bytes /\ \A b \in Noise : b > Short
<1>1. MAX_PAYLOAD \in Nat /\ Short \in Nat /\ \A b \in Noise : b \in Short + 1 .. 255
  BY FramingAssumption, Sizes DEF Short
<1> QED BY <1>1 DEF Bytes

LEMMA InitInv == Init => IInv
<1> SUFFICES ASSUME Init PROVE IInv
  OBVIOUS
<1> USE DEF Init
<1>1. TypeInv
  <2>1. <<>> \in Seq(Bytes) /\ <<>> \in Seq(Message)
    OBVIOUS
  <2> QED BY <2>1 DEF TypeInv, TypeOK
<1>2. StageInv
  BY DEF StageInv, NoExit
<1>3. SyncInv
  BY DEF SyncInv
<1>4. BurstInv
  <2>1. AnswerAt(sent, burst, answered, 0)
    BY DEF AnswerAt
  <2> QED BY <2>1 DEF BurstInv
<1>5. BufferBounded
  BY DEF BufferBounded
<1> QED BY <1>1, <1>2, <1>3, <1>4, <1>5 DEF IInv

\* One more message of the node.
LEMMA AnswerMore ==
    ASSUME NEW q \in Seq(Message), NEW a \in Seq(Message), NEW done \in BOOLEAN, NEW base \in Nat,
           AnswerAt(q, a, done, base), NEW p \in Message
    PROVE  /\ p # ConfigComplete(Nonce) =>
                 IF done THEN AnswerAt(Append(q, p), a, done, base)
                         ELSE AnswerAt(Append(q, p), Append(a, p), done, base)
           /\ p # ConfigComplete(Nonce) /\ ~done /\ a = <<>> =>
                 AnswerAt(Append(q, p), a, done, base + 1)
           /\ ~done => AnswerAt(Append(q, p), Append(a, p), TRUE, base)
<1>1. PICK l \in Nat, m \in Nat : l = Len(q) /\ m = Len(a)
  OBVIOUS
<1>2. /\ base + m <= l
      /\ \A i \in 1 .. m : a[i] = q[base + i]
      /\ ~done => base + m = l
      /\ \A k \in 1 .. l : q[k] = ConfigComplete(Nonce) => done /\ k = base + m
  BY <1>1 DEF AnswerAt
<1> DEFINE u == Append(q, p)
           c == Append(a, p)
<1>3. Len(u) = l + 1 /\ u[l + 1] = p /\ \A k \in 1 .. l : u[k] = q[k]
  BY <1>1
<1>4. Len(c) = m + 1 /\ c[m + 1] = p /\ \A k \in 1 .. m : c[k] = a[k]
  BY <1>1
<1> HIDE DEF u, c
<1>5. \A i \in 1 .. m : base + i \in 1 .. l
  BY <1>2
<1>6. \A i \in 1 .. m : a[i] = u[base + i]
  BY <1>2, <1>3, <1>5
<1>7. \A k \in 1 .. l + 1 : k \in 1 .. l \/ k = l + 1
  OBVIOUS
<1>8. ASSUME p # ConfigComplete(Nonce), done
      PROVE  AnswerAt(u, a, done, base)
  <2>1. base + m <= l + 1
    BY <1>2
  <2>2. \A k \in 1 .. l + 1 : u[k] = ConfigComplete(Nonce) => done /\ k = base + m
    BY <1>2, <1>3, <1>7, <1>8
  <2> QED BY <1>1, <1>3, <1>6, <1>8, <2>1, <2>2 DEF AnswerAt
<1>9. ASSUME ~done
      PROVE  /\ base + (m + 1) = l + 1
             /\ \A i \in 1 .. m + 1 : c[i] = u[base + i]
             /\ \A k \in 1 .. l : u[k] # ConfigComplete(Nonce)
  <2>1. base + m = l
    BY <1>2, <1>9
  <2>2. base + (m + 1) = l + 1
    BY <2>1
  <2>3. \A i \in 1 .. m + 1 : i \in 1 .. m \/ i = m + 1
    OBVIOUS
  <2>4. \A i \in 1 .. m + 1 : c[i] = u[base + i]
    BY <1>3, <1>4, <1>6, <2>2, <2>3
  <2> QED BY <1>2, <1>3, <1>9, <2>2, <2>4
<1>10. ASSUME p # ConfigComplete(Nonce), ~done
       PROVE  AnswerAt(u, c, done, base)
  <2>1. \A k \in 1 .. l + 1 : u[k] # ConfigComplete(Nonce)
    BY <1>3, <1>7, <1>9, <1>10
  <2> QED BY <1>3, <1>4, <1>9, <1>10, <2>1 DEF AnswerAt
<1>11. ASSUME p # ConfigComplete(Nonce), ~done, a = <<>>
       PROVE  AnswerAt(u, a, done, base + 1)
  <2>1. \A k \in 1 .. l + 1 : u[k] # ConfigComplete(Nonce)
    BY <1>3, <1>7, <1>9, <1>11
  <2>2. Len(a) = 0 /\ m = 0
    BY <1>1, <1>11
  <2>3. (base + 1) + 0 = l + 1
    BY <1>2, <1>11, <2>2
  <2> QED BY <1>3, <2>1, <2>2, <2>3 DEF AnswerAt
<1>12. ASSUME ~done
       PROVE  AnswerAt(u, c, TRUE, base)
  <2>1. \A k \in 1 .. l + 1 : u[k] = ConfigComplete(Nonce) => k = base + (m + 1)
    BY <1>7, <1>9, <1>12
  <2>2. base + Len(c) <= Len(u) /\ base + Len(c) = Len(u)
    BY <1>3, <1>4, <1>9, <1>12
  <2>3. \A i \in 1 .. Len(c) : c[i] = u[base + i]
    BY <1>4, <1>9, <1>12
  <2>4. \A k \in 1 .. Len(u) : u[k] = ConfigComplete(Nonce) => TRUE /\ k = base + Len(c)
    BY <1>3, <1>4, <2>1
  <2> QED BY <2>2, <2>3, <2>4 DEF AnswerAt
<1> QED BY <1>8, <1>10, <1>11, <1>12 DEF u, c

LEMMA SendsInv ==
    ASSUME IInv, NEW p \in Message, Sends(p),
           \/ p \in Early /\ UNCHANGED answered
           \/ asked /\ ~answered /\ p = ConfigComplete(Nonce) /\ answered' = TRUE
    PROVE  IInv'
<1>1. /\ MaySend /\ wire' = wire \o Frame(p) /\ sent' = Append(sent, p)
      /\ burst' = IF asked /\ ~answered THEN Append(burst, p) ELSE burst
      /\ stage' = stage /\ buf' = buf /\ frames' = frames /\ complete' = complete
      /\ exit' = exit /\ asked' = asked
  BY DEF Sends, program
<1>2. /\ wire \in Seq(Bytes) /\ buf \in Seq(Bytes) /\ frames \in Seq(Message)
      /\ sent \in Seq(Message) /\ burst \in Seq(Message)
      /\ asked \in BOOLEAN /\ answered \in BOOLEAN
  BY DEF IInv, TypeInv, TypeOK
<1>3. PICK n \in Nat : n = Len(frames) /\ n <= Len(sent)
  BY <1>2 DEF IInv, SyncInv
<1>4. /\ wire' \in Seq(Bytes)
      /\ Carries(buf, wire, sent, n) => Carries(buf, wire', sent', n)
      /\ Waits(buf, wire, sent, n) => Waits(buf, wire', sent', n)
  BY <1>1, <1>2, <1>3, FrameKeeps
<1>5. answered' \in BOOLEAN /\ (answered' = answered \/ answered' = TRUE)
  BY <1>2
<1>6. TypeInv'
  <2>1. sent' \in Seq(Message) /\ burst' \in Seq(Message)
    BY <1>1, <1>2
  <2> QED BY <1>1, <1>4, <1>5, <2>1 DEF IInv, TypeInv, TypeOK
<1>7. StageInv'
  <2>1. ~asked => burst' = <<>> /\ ~answered'
    BY <1>1 DEF IInv, StageInv
  <2>2. stage = "open" => \E m \in Early : wire' = Frame(m)
    <3>1. SUFFICES ASSUME stage = "open" PROVE \E m \in Early : wire' = Frame(m)
      OBVIOUS
    <3>2. ~asked /\ wire = <<>>
      BY <1>1, <3>1 DEF IInv, StageInv, MaySend
    <3>3. p \in Early
      BY <3>2
    <3>4. wire' = Frame(p)
      BY <1>1, <3>2, FrameIs
    <3> QED BY <3>3, <3>4
  <2> QED BY <1>1, <2>1, <2>2 DEF IInv, StageInv
<1>8. SyncInv'
  <2>1. Len(sent') = Len(sent) + 1 /\ \A k \in 1 .. Len(sent) : sent'[k] = sent[k]
    BY <1>1, <1>2
  <2>2. Len(frames') <= Len(sent') /\ \A k \in 1 .. Len(frames') : frames'[k] = sent'[k]
    <3>1. \A k \in 1 .. n : k \in 1 .. Len(sent)
      BY <1>2, <1>3
    <3>2. \A k \in 1 .. n : frames[k] = sent[k]
      BY <1>3 DEF IInv, SyncInv
    <3> QED BY <1>1, <1>2, <1>3, <2>1, <3>1, <3>2
  <2>3. stage # "open" => IF stage = "read" /\ ~complete THEN Waits(buf, wire', sent', n)
                                                       ELSE Carries(buf, wire', sent', n)
    BY <1>3, <1>4 DEF IInv, SyncInv
  <2> QED BY <1>1, <1>3, <2>2, <2>3 DEF SyncInv
<1>9. BurstInv'
  <2>1. PICK base \in Nat : AnswerAt(sent, burst, answered, base)
    BY DEF IInv, BurstInv
  <2>2. \E b \in Nat : AnswerAt(sent', burst', answered', b)
    <3>1. CASE p \in Early /\ UNCHANGED answered
      <4>1. p # ConfigComplete(Nonce)
        BY <3>1, Answer DEF Early
      <4>2. CASE answered
        <5>1. burst' = burst /\ answered' = answered
          BY <1>1, <3>1, <4>2
        <5>2. AnswerAt(Append(sent, p), burst, answered, base)
          BY <1>2, <2>1, <4>1, <4>2, AnswerMore
        <5> QED BY <1>1, <5>1, <5>2
      <4>3. CASE ~answered /\ asked
        <5>1. burst' = Append(burst, p) /\ answered' = answered
          BY <1>1, <3>1, <4>3
        <5>2. AnswerAt(Append(sent, p), Append(burst, p), answered, base)
          BY <1>2, <2>1, <4>1, <4>3, AnswerMore
        <5> QED BY <1>1, <5>1, <5>2
      <4>4. CASE ~asked
        <5>1. ~answered /\ burst = <<>> /\ burst' = burst /\ answered' = answered
          BY <1>1, <3>1, <4>4 DEF IInv, StageInv
        <5>2. AnswerAt(Append(sent, p), burst, answered, base + 1)
          BY <1>2, <2>1, <4>1, <5>1, AnswerMore
        <5> QED BY <1>1, <5>1, <5>2
      <4> QED BY <4>2, <4>3, <4>4
    <3>2. CASE asked /\ ~answered /\ p = ConfigComplete(Nonce) /\ answered' = TRUE
      <4>1. AnswerAt(Append(sent, p), Append(burst, p), TRUE, base)
        BY <1>2, <2>1, <3>2, AnswerMore
      <4>2. burst' = Append(burst, p)
        BY <1>1, <3>2
      <4> QED BY <1>1, <3>2, <4>1, <4>2
    <3> QED BY <3>1, <3>2
  <2> QED BY <1>1, <2>2 DEF IInv, BurstInv
<1>10. BufferBounded'
  BY <1>1 DEF IInv, BufferBounded
<1> QED BY <1>6, <1>7, <1>8, <1>9, <1>10 DEF IInv

\* A stray byte, of the node or of the wake echo.
LEMMA StrayKeeps ==
    ASSUME IInv, NEW b \in Bytes, b > Short, wire' = Append(wire, b)
    PROVE  /\ wire' \in Seq(Bytes)
           /\ Carries(buf, wire, sent, Len(frames)) => Carries(buf, wire', sent, Len(frames))
           /\ Waits(buf, wire, sent, Len(frames)) => Waits(buf, wire', sent, Len(frames))
<1>1. wire \in Seq(Bytes) /\ buf \in Seq(Bytes) /\ sent \in Seq(Message) /\ Len(frames) \in Nat
  BY DEF IInv, TypeInv, TypeOK
<1> QED BY <1>1, ByteKeeps

LEMMA NodeSendsInv == ASSUME IInv, NodeSends PROVE IInv'
<1>1. CASE SendMessage
  BY <1>1, SendsInv, Answer DEF SendMessage, Early
<1>2. CASE SendStale
  BY <1>2, SendsInv, Answer DEF SendStale, Early
<1>3. CASE SendComplete
  BY <1>3, SendsInv, Answer DEF SendComplete
<1>4. CASE SendNoise
  <2>1. PICK b \in Noise : wire' = Append(wire, b)
    BY <1>4 DEF SendNoise
  <2>2. /\ MaySend /\ stage' = stage /\ buf' = buf /\ frames' = frames /\ complete' = complete
        /\ exit' = exit /\ asked' = asked /\ answered' = answered /\ sent' = sent /\ burst' = burst
    BY <1>4 DEF SendNoise, program
  <2>3. /\ wire' \in Seq(Bytes)
        /\ Carries(buf, wire, sent, Len(frames)) => Carries(buf, wire', sent, Len(frames))
        /\ Waits(buf, wire, sent, Len(frames)) => Waits(buf, wire', sent, Len(frames))
    BY <2>1, NoiseIs, StrayKeeps
  <2>4. TypeInv'
    BY <2>2, <2>3 DEF IInv, TypeInv, TypeOK
  <2>5. StageInv'
    <3>1. stage = "open" => wire' = <<b>>
      BY <2>1, <2>2 DEF MaySend
    <3> QED BY <2>2, <3>1 DEF IInv, StageInv
  <2>6. SyncInv'
    BY <2>2, <2>3 DEF IInv, SyncInv
  <2>7. BurstInv' /\ BufferBounded'
    BY <2>2 DEF IInv, BurstInv, BufferBounded
  <2> QED BY <2>4, <2>5, <2>6, <2>7 DEF IInv
<1> QED BY <1>1, <1>2, <1>3, <1>4 DEF NodeSends

LEMMA ResetInputInv == ASSUME IInv, ResetInput PROVE IInv'
<1>1. /\ stage = "open" /\ stage' = "wake" /\ sent' = <<>>
      /\ buf' = buf /\ frames' = frames /\ complete' = complete /\ exit' = exit
      /\ asked' = asked /\ answered' = answered /\ burst' = burst
  BY DEF ResetInput, node
<1>2. buf = <<>> /\ frames = <<>> /\ ~complete /\ ~asked /\ burst = <<>> /\ ~answered
  BY <1>1 DEF IInv, StageInv
<1>3. PICK k \in 0 .. 3 : k <= Len(wire) /\ wire' = SubSeq(wire, Len(wire) - k + 1, Len(wire))
  BY DEF ResetInput
<1>4. wire' \in Seq(Bytes) /\ Carries(<<>>, wire', <<>>, 0)
  <2>1. CASE \E p \in Early : wire = Frame(p)
    <3>1. PICK p \in Early : wire = Frame(p)
      BY <2>1
    <3>2. p \in Message /\ ~LooksLikeHeader(p)
      BY Answer, FramingAssumption DEF Early
    <3> QED BY <1>3, <3>1, <3>2, ResetKeeps
  <2>2. CASE wire = <<>> \/ \E b \in Noise : wire = <<b>>
    <3>1. wire = <<>> \/ \E b \in Bytes : wire = <<b>>
      BY <2>2, NoiseIs
    <3> QED BY <1>3, <3>1, EmptyKeeps
  <2> QED BY <1>1, <2>1, <2>2 DEF IInv, StageInv
<1>5. TypeInv'
  BY <1>1, <1>4 DEF IInv, TypeInv, TypeOK
<1>6. StageInv'
  BY <1>1, <1>2 DEF IInv, StageInv
<1>7. SyncInv'
  <2>1. frames' = <<>> /\ sent' = <<>> /\ buf' = <<>> /\ Len(<<>>) = 0
    BY <1>1, <1>2
  <2> QED BY <1>1, <1>4, <2>1 DEF SyncInv
<1>8. BurstInv'
  <2>1. AnswerAt(sent', burst', answered', 0)
    BY <1>1, <1>2 DEF AnswerAt
  <2> QED BY <1>1, <1>2, <2>1 DEF BurstInv
<1>9. BufferBounded'
  BY <1>1 DEF BufferBounded
<1> QED BY <1>5, <1>6, <1>7, <1>8, <1>9 DEF IInv

LEMMA WakeInv == ASSUME IInv, Wake PROVE IInv'
<1>1. /\ stage = "wake" /\ stage' = "request"
      /\ buf' = buf /\ frames' = frames /\ complete' = complete /\ exit' = exit
      /\ asked' = asked /\ answered' = answered /\ sent' = sent /\ burst' = burst
  BY DEF Wake, node
<1>2. wire' = wire \/ wire' = Append(wire, START2)
  BY DEF Wake
<1>3. START2 \in Bytes /\ START2 > Short
  <2>1. 195 \in 0 .. 255 /\ \A h \in Nat : h < 148 => 195 > h
    OBVIOUS
  <2>2. Short \in Nat /\ Short < 148
    BY Sizes DEF START1
  <2> QED BY <2>1, <2>2 DEF START2, Bytes
<1>4. wire' \in Seq(Bytes) /\ Carries(buf, wire', sent, Len(frames))
  <2>1. Carries(buf, wire, sent, Len(frames)) /\ wire \in Seq(Bytes)
    BY <1>1, StillCarried DEF IInv, TypeInv, TypeOK
  <2> QED BY <1>2, <1>3, <2>1, StrayKeeps
<1>5. TypeInv' /\ StageInv'
  BY <1>1, <1>4 DEF IInv, TypeInv, TypeOK, StageInv
<1>6. SyncInv'
  BY <1>1, <1>4 DEF IInv, SyncInv
<1>7. BurstInv' /\ BufferBounded'
  BY <1>1 DEF IInv, BurstInv, BufferBounded
<1> QED BY <1>5, <1>6, <1>7 DEF IInv

LEMMA RequestInv == ASSUME IInv, Request PROVE IInv'
<1>1. /\ stage = "request" /\ stage' = "read" /\ asked' \in BOOLEAN
      /\ buf' = buf /\ frames' = frames /\ complete' = complete /\ exit' = exit
      /\ wire' = wire /\ answered' = answered /\ sent' = sent /\ burst' = burst
  BY DEF Request
<1>2. buf = <<>> /\ frames = <<>> /\ ~complete /\ burst = <<>> /\ ~answered
  BY <1>1 DEF IInv, StageInv
<1>3. Waits(buf, wire, sent, Len(frames))
  <2>1. /\ buf \in Seq(Bytes) /\ wire \in Seq(Bytes) /\ sent \in Seq(Message)
        /\ Len(frames) \in Nat /\ Len(buf) < 4
    BY <1>2 DEF IInv, TypeInv, TypeOK
  <2>2. PICK at : Framed(buf \o wire, sent, Len(frames), at)
    BY <1>1, StillCarried DEF Carries
  <2>3. Partial(buf, sent, Len(frames), at)
    BY <2>1, <2>2, PartialIs
  <2> QED BY <2>2, <2>3 DEF Waits
<1>4. TypeInv' /\ StageInv'
  BY <1>1, <1>2 DEF IInv, TypeInv, TypeOK, StageInv
<1>5. SyncInv'
  BY <1>1, <1>3 DEF IInv, SyncInv
<1>6. BurstInv'
  BY <1>1 DEF IInv, BurstInv
<1>7. BufferBounded'
  <2>1. MAX_PAYLOAD \in Nat /\ Len(buf') = 0
    BY <1>1, <1>2, Sizes
  <2> QED BY <2>1 DEF BufferBounded
<1> QED BY <1>4, <1>5, <1>6, <1>7 DEF IInv

LEMMA ReadChunkInv == ASSUME IInv, ReadChunk PROVE IInv'
<1>1. /\ stage = "read" /\ ~complete /\ stage' = "drain"
      /\ frames' = frames /\ complete' = complete /\ exit' = exit
      /\ asked' = asked /\ answered' = answered /\ sent' = sent /\ burst' = burst
  BY DEF ReadChunk, node
<1>2. PICK n \in 0 .. Len(wire) : /\ buf' = buf \o SubSeq(wire, 1, n)
                                  /\ wire' = SubSeq(wire, n + 1, Len(wire))
  BY DEF ReadChunk
<1>3. buf' \in Seq(Bytes) /\ wire' \in Seq(Bytes) /\ buf' \o wire' = buf \o wire
  <2>1. buf \in Seq(Bytes) /\ wire \in Seq(Bytes)
    BY DEF IInv, TypeInv, TypeOK
  <2> QED BY <1>2, <2>1, ReadKeeps
<1>4. Carries(buf', wire', sent, Len(frames))
  BY <1>1, <1>3, StillCarried DEF Carries
<1>5. TypeInv' /\ StageInv'
  BY <1>1, <1>3 DEF IInv, TypeInv, TypeOK, StageInv
<1>6. SyncInv'
  BY <1>1, <1>4 DEF IInv, SyncInv
<1>7. BurstInv' /\ BufferBounded'
  BY <1>1 DEF IInv, BurstInv, BufferBounded
<1> QED BY <1>5, <1>6, <1>7 DEF IInv

\* A turn of the drain loop that takes no frame.
LEMMA NoFrameInv ==
    ASSUME IInv, stage = "drain", UNCHANGED <<exit, wire, node, sent, burst>>,
           frames' = frames, complete' = complete, buf' \in Seq(Bytes),
           \/ /\ stage' = "read" /\ Waits(buf', wire, sent, Len(frames))
              /\ Len(buf') < 4 + MAX_PAYLOAD
           \/ stage' = "drain" /\ Carries(buf', wire, sent, Len(frames))
    PROVE  IInv'
<1>1. /\ exit' = exit /\ wire' = wire /\ sent' = sent /\ burst' = burst
      /\ asked' = asked /\ answered' = answered /\ ~complete
  BY DEF node, IInv, StageInv
<1>2. TypeInv' /\ StageInv'
  BY <1>1 DEF IInv, TypeInv, TypeOK, StageInv
<1>3. SyncInv'
  BY <1>1 DEF IInv, SyncInv
<1>4. BurstInv' /\ BufferBounded'
  BY <1>1 DEF IInv, BurstInv, BufferBounded
<1> QED BY <1>2, <1>3, <1>4 DEF IInv

LEMMA DrainInv == ASSUME IInv, Drain PROVE IInv'
<1>1. /\ stage = "drain" /\ UNCHANGED <<exit, wire, node, sent, burst>>
      /\ buf \in Seq(Bytes) /\ wire \in Seq(Bytes) /\ sent \in Seq(Message)
      /\ frames \in Seq(Message) /\ Len(frames) \in Nat /\ MAX_PAYLOAD \in Nat /\ ~complete
  BY Sizes DEF Drain, IInv, TypeInv, TypeOK, StageInv
<1>2. Carries(buf, wire, sent, Len(frames))
  BY <1>1, StillCarried
<1>3. CASE NoMagic
  <2>1. Magics = {} /\ stage' = "read" /\ frames' = frames /\ complete' = complete
    BY <1>3 DEF NoMagic
  <2>2. buf' \in Seq(Bytes) /\ Len(buf') <= 1 /\ Waits(buf', wire, sent, Len(frames))
    BY <1>1, <1>2, <1>3, <2>1, NoMagicKeeps DEF NoMagic
  <2>3. Len(buf') < 4 + MAX_PAYLOAD
    BY <1>1, <2>2
  <2> QED BY <1>1, <2>1, <2>2, <2>3, NoFrameInv
<1>4. CASE ShortHeader
  <2>1. /\ Magics # {} /\ Len(Aligned) < 4 /\ buf' = Aligned
        /\ stage' = "read" /\ frames' = frames /\ complete' = complete
    BY <1>4 DEF ShortHeader
  <2>2. buf' \in Seq(Bytes) /\ Waits(buf', wire, sent, Len(frames))
    BY <1>1, <1>2, <2>1, ShortKeeps, AlignedIs
  <2>3. Len(buf') < 4 + MAX_PAYLOAD
    BY <1>1, <2>1, <2>2
  <2> QED BY <1>1, <2>1, <2>2, <2>3, NoFrameInv
<1>5. CASE BadLength
  <2>1. /\ Magics # {} /\ Len(Aligned) >= 4 /\ PayloadLen > MAX_PAYLOAD
        /\ buf' = SubSeq(Aligned, 3, Len(Aligned))
        /\ stage' = stage /\ frames' = frames /\ complete' = complete
    BY <1>5 DEF BadLength
  <2>2. buf' \in Seq(Bytes) /\ Carries(buf', wire, sent, Len(frames))
    BY <1>1, <1>2, <2>1, BadLengthKeeps
  <2> QED BY <1>1, <2>1, <2>2, NoFrameInv
<1>6. CASE AwaitPayload
  <2>1. /\ Magics # {} /\ Len(Aligned) >= 4 /\ PayloadLen <= MAX_PAYLOAD
        /\ Len(Aligned) < 4 + PayloadLen /\ buf' = Aligned
        /\ stage' = "read" /\ frames' = frames /\ complete' = complete
    BY <1>6 DEF AwaitPayload
  <2>2. buf' \in Seq(Bytes) /\ Waits(buf', wire, sent, Len(frames))
    BY <1>1, <1>2, <2>1, AwaitKeeps, AlignedIs
  <2>3. Len(buf') < 4 + MAX_PAYLOAD
    <3>1. PayloadLen \in Int
      BY <1>1, <1>2, <2>1, PayloadLenIs
    <3> QED BY <1>1, <2>1, <2>2, <3>1
  <2> QED BY <1>1, <2>1, <2>2, <2>3, NoFrameInv
<1>7. CASE TakeFrame
  <2> DEFINE n == Len(frames)
  <2>1. /\ Magics # {} /\ Len(Aligned) >= 4 /\ PayloadLen <= MAX_PAYLOAD
        /\ Len(Aligned) >= 4 + PayloadLen
        /\ frames' = Append(frames, PayloadOf) /\ complete' = Answers(PayloadOf)
        /\ buf' = SubSeq(Aligned, 5 + PayloadLen, Len(Aligned))
        /\ stage' = IF complete' THEN "read" ELSE "drain"
    BY <1>7 DEF TakeFrame
  <2>2. /\ n < Len(sent) /\ PayloadOf = sent[n + 1]
        /\ buf' \in Seq(Bytes) /\ Carries(buf', wire, sent, n + 1)
    BY <1>1, <1>2, <2>1, TakeKeeps
  <2>3. PayloadOf \in Message
    BY <1>1, <2>2
  <2>4. complete' \in BOOLEAN /\ (complete' => PayloadOf = ConfigComplete(Nonce))
    BY <2>1, <2>3, Answer DEF Answers
  <2>5. /\ frames' \in Seq(Message) /\ Len(frames') = n + 1 /\ frames'[n + 1] = PayloadOf
        /\ \A k \in 1 .. n : frames'[k] = frames[k]
    BY <1>1, <2>1, <2>3
  <2>6. /\ exit' = exit /\ wire' = wire /\ sent' = sent /\ burst' = burst
        /\ asked' = asked /\ answered' = answered
    BY <1>1 DEF node
  <2>7. TypeInv'
    BY <2>1, <2>2, <2>4, <2>5, <2>6 DEF IInv, TypeInv, TypeOK
  <2>8. StageInv'
    BY <1>1, <2>1, <2>6 DEF IInv, StageInv, NoExit
  <2>9. SyncInv'
    <3>1. \A k \in 1 .. n : frames[k] = sent[k]
      BY DEF IInv, SyncInv
    <3>2. \A k \in 1 .. n + 1 : frames'[k] = sent[k]
      <4>1. \A k \in 1 .. n + 1 : k \in 1 .. n \/ k = n + 1
        BY <1>1
      <4> QED BY <2>2, <2>5, <3>1, <4>1
    <3>3. n + 1 <= Len(sent)
      BY <1>1, <2>2
    <3>4. ~(stage' = "read" /\ ~complete')
      BY <2>1
    <3> QED BY <2>2, <2>5, <2>6, <3>2, <3>3, <3>4 DEF SyncInv
  <2>10. BurstInv'
    <3>1. \E base \in Nat : AnswerAt(sent', burst', answered', base)
      BY <2>6 DEF IInv, BurstInv
    <3>2. complete' => Len(frames') > 0 /\ frames'[Len(frames')] = ConfigComplete(Nonce)
      BY <1>1, <2>4, <2>5
    <3> QED BY <3>1, <3>2 DEF BurstInv
  <2>11. BufferBounded'
    BY <2>1 DEF BufferBounded
  <2> QED BY <2>7, <2>8, <2>9, <2>10, <2>11 DEF IInv
<1> QED BY <1>3, <1>4, <1>5, <1>6, <1>7 DEF Drain

LEMMA FinishInv == ASSUME IInv, Finish PROVE IInv'
<1>1. /\ stage = "read" /\ stage' = "exit" /\ exit' = IF complete THEN 0 ELSE 1
      /\ buf' = buf /\ frames' = frames /\ complete' = complete /\ wire' = wire
      /\ asked' = asked /\ answered' = answered /\ sent' = sent /\ burst' = burst
  BY DEF Finish, node
<1>2. Carries(buf, wire, sent, Len(frames))
  BY <1>1, StillCarried
<1>3. TypeInv' /\ StageInv'
  BY <1>1 DEF IInv, TypeInv, TypeOK, StageInv, NoExit
<1>4. SyncInv'
  BY <1>1, <1>2 DEF IInv, SyncInv
<1>5. BurstInv' /\ BufferBounded'
  BY <1>1 DEF IInv, BurstInv, BufferBounded
<1> QED BY <1>3, <1>4, <1>5 DEF IInv

LEMMA NextInv == IInv /\ [Next]_vars => IInv'
<1> SUFFICES ASSUME IInv, [Next]_vars PROVE IInv'
  OBVIOUS
<1>1. CASE UNCHANGED vars
  <2>1. /\ stage' = stage /\ buf' = buf /\ frames' = frames /\ complete' = complete
        /\ exit' = exit /\ wire' = wire /\ asked' = asked /\ answered' = answered
        /\ sent' = sent /\ burst' = burst
    BY <1>1 DEF vars, program, node
  <2>2. TypeInv' /\ StageInv' /\ SyncInv' /\ BurstInv' /\ BufferBounded'
    BY <2>1 DEF IInv, TypeInv, TypeOK, StageInv, SyncInv, BurstInv, BufferBounded
  <2> QED BY <2>2 DEF IInv
<1>2. CASE Next
  BY <1>2, NodeSendsInv, ResetInputInv, WakeInv, RequestInv, ReadChunkInv, DrainInv, FinishInv
     DEF Next
<1> QED BY <1>1, <1>2

THEOREM Invariant == Spec => []IInv
BY InitInv, NextInv, PTL DEF Spec

\* Theorems ----------------------------------------------------------------
\* Type correctness: what is cut out of the stream is a message of the node,
\* and the buffer and the wire hold bytes.
THEOREM TypeCorrect == Spec => []TypeOK
<1>1. IInv => TypeOK
  BY DEF IInv, TypeInv
<1> QED BY <1>1, Invariant, PTL

\* The rolling buffer is bounded: whatever the node and the line deliver, what
\* is kept while waiting is less than the longest frame.
THEOREM WaitingBufferIsBounded == Spec => []BufferBounded
<1>1. IInv => BufferBounded
  BY DEF IInv
<1> QED BY <1>1, Invariant, PTL

LEMMA PrefixIs ==
    ASSUME NEW S, NEW f \in Seq(S), NEW q \in Seq(S), Len(f) <= Len(q),
           \A k \in 1 .. Len(f) : f[k] = q[k]
    PROVE  IsPrefix(f, q) /\ (Len(f) = Len(q) => f = q)
<1>1. PICK n \in Nat : n = Len(f) /\ n <= Len(q) /\ Len(q) \in Nat
  OBVIOUS
<1>2. SubSeq(f, 1, n) = SubSeq(q, 1, n)
  BY <1>1
<1>3. Len(f) = Len(q) => f = q
  BY SameSequence
<1> QED BY <1>1, <1>2, <1>3 DEF IsPrefix

\* Framing: however the reads cut the stream, whatever stray bytes lie between
\* the frames and whatever their payloads hold, the frames read are the first
\* of those sent, and at rest none that has arrived whole is left.
THEOREM FramingIsExact == Spec => []FramesComeOutWhole
<1>1. ASSUME IInv PROVE FramesComeOutWhole
  <2>1. /\ frames \in Seq(Message) /\ sent \in Seq(Message)
        /\ buf \in Seq(Bytes) /\ wire \in Seq(Bytes) /\ Len(frames) \in Nat
    BY <1>1 DEF IInv, TypeInv, TypeOK
  <2>2. IsPrefix(frames, sent) /\ (Len(frames) = Len(sent) => frames = sent)
    BY <1>1, <2>1, PrefixIs DEF IInv, SyncInv
  <2>3. ASSUME stage = "read", wire = <<>>, ~complete
        PROVE  Len(frames) = Len(sent)
    <3>1. PICK at : /\ Framed(buf \o wire, sent, Len(frames), at)
                    /\ Partial(buf, sent, Len(frames), at)
      BY <1>1, <2>3 DEF IInv, SyncInv, Waits
    <3>2. buf \o wire = buf
      BY <2>1, <2>3
    <3>3. Framed(buf, sent, Len(frames), at)
      BY <3>1, <3>2
    <3>4. ASSUME NEW k \in Len(frames) + 1 .. Len(sent)
          PROVE  FALSE
      <4>1. PICK p \in Message, i \in Nat, l \in Nat :
               p = sent[k] /\ i = at[k] /\ l = Len(buf) /\ FrameAt(buf, i, p) /\ Len(p) \in Nat
        BY <2>1, <3>3, FramedIs
      <4>2. i + 3 + Len(p) <= l
        BY <4>1 DEF FrameAt
      <4>3. i + (4 + Len(p)) > l + 1
        BY <3>1, <4>1 DEF Partial, Size
      <4> QED BY <4>1, <4>2, <4>3
    <3>5. Len(frames) <= Len(sent) /\ Len(sent) \in Nat
      BY <1>1, <2>1 DEF IInv, SyncInv
    <3> QED BY <2>1, <3>4, <3>5
  <2> QED BY <2>2, <2>3 DEF FramesComeOutWhole
<1> QED BY <1>1, Invariant, PTL

LEMMA SuffixIs ==
    ASSUME NEW S, NEW a \in Seq(S), NEW f \in Seq(S), NEW base \in Nat, base + Len(a) = Len(f),
           \A i \in 1 .. Len(a) : a[i] = f[base + i]
    PROVE  IsSuffix(a, f)
<1>1. PICK m \in Nat, n \in Nat : m = Len(a) /\ n = Len(f) /\ base + m = n
  OBVIOUS
<1>2. \A j \in 1 .. m : /\ (m - j) + 1 \in 1 .. m /\ base + ((m - j) + 1) = (n - j) + 1
                        /\ (n - j) + 1 \in 1 .. n /\ j \in 1 .. n
  BY <1>1
<1> DEFINE r == Reverse(a)
           t == Reverse(f)
<1>3. /\ r \in Seq(S) /\ Len(r) = m /\ \A j \in 1 .. m : r[j] = a[(m - j) + 1]
      /\ t \in Seq(S) /\ Len(t) = n /\ \A j \in 1 .. n : t[j] = f[(n - j) + 1]
  <2>1. \A j \in 1 .. m : a[(m - j) + 1] \in S
    BY <1>1, <1>2
  <2>2. \A j \in 1 .. n : f[(n - j) + 1] \in S
    BY <1>1
  <2>3. [j \in 1 .. m |-> a[(m - j) + 1]] \in Seq(S) /\ [j \in 1 .. n |-> f[(n - j) + 1]] \in Seq(S)
    BY <2>1, <2>2
  <2>4. /\ Reverse(a) = [j \in 1 .. m |-> a[(m - j) + 1]]
        /\ Reverse(f) = [j \in 1 .. n |-> f[(n - j) + 1]]
    BY <1>1 DEF Reverse
  <2>5. /\ Len([j \in 1 .. m |-> a[(m - j) + 1]]) = m
        /\ Len([j \in 1 .. n |-> f[(n - j) + 1]]) = n
    BY <2>3
  <2> QED BY <2>3, <2>4, <2>5
<1> HIDE DEF r, t
<1>4. \A j \in 1 .. m : r[j] = t[j]
  <2>1. \A j \in 1 .. m : a[(m - j) + 1] = f[base + ((m - j) + 1)]
    BY <1>1, <1>2
  <2>2. \A j \in 1 .. m : f[base + ((m - j) + 1)] = f[(n - j) + 1]
    BY <1>2, Zenon
  <2>3. \A j \in 1 .. m : r[j] = a[(m - j) + 1] /\ t[j] = f[(n - j) + 1]
    BY <1>2, <1>3
  <2> QED BY <2>1, <2>2, <2>3, Zenon
<1>5. IsPrefix(r, t)
  <2>1. Len(r) <= Len(t) /\ r \in Seq(S) /\ t \in Seq(S)
    BY <1>1, <1>3
  <2>2. \A j \in 1 .. Len(r) : r[j] = t[j]
    BY <1>3, <1>4
  <2> QED BY <2>1, <2>2, PrefixIs
<1> QED BY <1>5 DEF IsSuffix, r, t

\* Success is true: when the capture reports it, the node has answered this
\* request, and the frames end with all it sent in answer.
THEOREM SuccessIsWhole == Spec => []PassMeansWholeBurst
<1>1. ASSUME IInv PROVE PassMeansWholeBurst
  <2> SUFFICES ASSUME exit = 0 PROVE answered /\ IsSuffix(burst, frames)
    BY DEF PassMeansWholeBurst
  <2>1. /\ frames \in Seq(Message) /\ sent \in Seq(Message) /\ burst \in Seq(Message)
    BY <1>1 DEF IInv, TypeInv, TypeOK
  <2>2. PICK n \in Nat : n = Len(frames) /\ n > 0 /\ frames[n] = ConfigComplete(Nonce)
    <3>1. complete
      BY <1>1 DEF IInv, StageInv
    <3> QED BY <1>1, <2>1, <3>1 DEF IInv, BurstInv
  <2>3. n \in 1 .. Len(sent) /\ \A k \in 1 .. n : frames[k] = sent[k]
    BY <1>1, <2>1, <2>2 DEF IInv, SyncInv
  <2>4. PICK base \in Nat : AnswerAt(sent, burst, answered, base)
    BY <1>1 DEF IInv, BurstInv
  <2>5. sent[n] = ConfigComplete(Nonce)
    BY <2>2, <2>3
  <2>6. answered /\ base + Len(burst) = n /\ \A i \in 1 .. Len(burst) : burst[i] = sent[base + i]
    BY <2>3, <2>4, <2>5 DEF AnswerAt
  <2>7. \A i \in 1 .. Len(burst) : base + i \in 1 .. n
    BY <2>1, <2>6
  <2>8. \A i \in 1 .. Len(burst) : burst[i] = frames[base + i]
    BY <2>3, <2>6, <2>7
  <2>9. IsSuffix(burst, frames)
    BY <2>1, <2>2, <2>6, <2>8, SuffixIs
  <2> QED BY <2>6, <2>9
<1> QED BY <1>1, Invariant, PTL
=============================================================================
