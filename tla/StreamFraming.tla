---------------------------- MODULE StreamFraming ----------------------------
(***************************************************************************)
(* The capture of src/pbx/fetch_node_config.py: wake the node, request its *)
(* configuration under a nonce, and cut the bytes that come back into      *)
(* frames until config_complete_id answers the nonce or time is up.  The   *)
(* node is the environment: it answers with a burst of frames, and prints  *)
(* other frames and stray bytes before and between them.                   *)
(***************************************************************************)
EXTENDS Varint

CONSTANTS Nonce,        \* want_config_id of this capture
          StaleNonce,   \* of a capture the node answers late
          Payload,      \* messages of the node other than config_complete_id
          Noise,        \* stray bytes: console text, wake echoes
          MAX_PAYLOAD,  \* longest payload (512)
          MaxChunk,     \* bytes one read returns at most (256)
          MaxFrames, MaxNoise   \* bounds on what the node sends

START1 == 148
START2 == 195
Bytes  == 0 .. 255

\* Bytes that could pass for a frame header: the magic and a short length.
LooksLikeHeader(bytes) ==
    \E i \in 1 .. Len(bytes) - 2 :
        bytes[i] = START1 /\ bytes[i + 1] = START2 /\ bytes[i + 2] <= MAX_PAYLOAD \div 256

Message == Payload \cup {ConfigComplete(n) : n \in {Nonce, StaleNonce}}

\* What the node sends before it is asked can be cut by the reset of the input:
\* it must not look like a header then.  A start byte is no short length.
ASSUME FramingAssumption ==
    /\ MAX_PAYLOAD \in Nat /\ MAX_PAYLOAD < 256 * START1
    /\ Nonce \in Nat \ {0, 1} /\ StaleNonce \in Nat \ {Nonce}
    /\ \A p \in Message : p \in Seq(Bytes) /\ Len(p) <= MAX_PAYLOAD
    /\ \A p \in Payload : ExtractConfigCompleteId(p) = NoId
    /\ \A n \in {Nonce, StaleNonce} : ExtractConfigCompleteId(ConfigComplete(n)) = n
    /\ \A p \in Payload \cup {ConfigComplete(StaleNonce)} : ~LooksLikeHeader(p)
    /\ \A b \in Noise : b \in MAX_PAYLOAD \div 256 + 1 .. 255
    /\ MaxChunk \in Nat \ {0} /\ MaxFrames \in Nat /\ MaxNoise \in Nat

VARIABLES stage,       \* of main(): "open", "wake", "request", "read", "drain", "exit"
          wire,        \* bytes sent by the node and not read yet
          buf,         \* bytes read and not cut into frames yet
          frames,      \* payloads of the frames read
          complete,    \* complete_seen
          exit,        \* exit code, or NoExit
          \* The node:
          asked,       \* it has received the request
          answered,    \* it has sent config_complete_id for it
          noises,      \* stray bytes sent so far
          \* History:
          sent,        \* payloads of the frames sent and not discarded
          burst        \* those sent in answer to the request

program == <<stage, buf, frames, complete, exit>>
node    == <<asked, answered, noises>>
vars    == <<program, wire, node, sent, burst>>

NoExit == -1
Frame(p) == <<START1, START2, Len(p) \div 256, Len(p) % 256>> \o p

TypeOK ==
    /\ stage \in {"open", "wake", "request", "read", "drain", "exit"}
    /\ wire \in Seq(Bytes) /\ buf \in Seq(Bytes)
    /\ frames \in Seq(Message)
    /\ complete \in BOOLEAN
    /\ exit \in {NoExit, 0, 1}
-----------------------------------------------------------------------------
Init ==
    /\ stage = "open" /\ wire = <<>> /\ buf = <<>> /\ frames = <<>>
    /\ complete = FALSE /\ exit = NoExit
    /\ asked = FALSE /\ answered = FALSE /\ noises = 0
    /\ sent = <<>> /\ burst = <<>>

\* The node ---------------------------------------------------------------
\* Bound: at most one thing is sent before the capture resets its input.
MaySend == stage = "open" => wire = <<>>

Sends(p) ==
    /\ MaySend
    /\ Len(sent) < MaxFrames
    /\ wire' = wire \o Frame(p)
    /\ sent' = Append(sent, p)
    /\ burst' = IF asked /\ ~answered THEN Append(burst, p) ELSE burst
    /\ UNCHANGED <<program, asked, noises>>

SendMessage  == \E p \in Payload : Sends(p) /\ UNCHANGED answered
SendStale    == Sends(ConfigComplete(StaleNonce)) /\ UNCHANGED answered
SendComplete == /\ asked /\ ~answered
                /\ Sends(ConfigComplete(Nonce))
                /\ answered' = TRUE

SendNoise ==
    /\ MaySend
    /\ noises < MaxNoise
    /\ noises' = noises + 1
    /\ \E b \in Noise : wire' = Append(wire, b)
    /\ UNCHANGED <<program, asked, answered, sent, burst>>

NodeSends == SendMessage \/ SendStale \/ SendComplete \/ SendNoise

\* main() -----------------------------------------------------------------
\* reset_input_buffer(): what has arrived is dropped; of a frame on its way the
\* last bytes are still to come.
ResetInput ==
    /\ stage = "open"
    /\ stage' = "wake"
    /\ \E k \in 0 .. 3 : k <= Len(wire) /\ wire' = SubSeq(wire, Len(wire) - k + 1, Len(wire))
    /\ sent' = <<>>
    /\ UNCHANGED <<buf, frames, complete, exit, node, burst>>

\* The wake preamble; the node may echo it.
Wake ==
    /\ stage = "wake"
    /\ stage' = "request"
    /\ wire' \in {wire, Append(wire, START2)}
    /\ UNCHANGED <<buf, frames, complete, exit, node, sent, burst>>

Request ==
    /\ stage = "request"
    /\ stage' = "read"
    /\ asked' = (ReadVarint(BuildWantConfig(Nonce), 2).value = Nonce)
    /\ UNCHANGED <<wire, buf, frames, complete, exit, answered, noises, sent, burst>>

\* read_frames(): a read of what has arrived, however cut, or an idle one.
ReadChunk ==
    /\ stage = "read" /\ ~complete
    /\ \E n \in 0 .. Len(wire) :
          /\ n <= MaxChunk
          /\ n = 0 => wire = <<>>
          /\ buf' = buf \o SubSeq(wire, 1, n)
          /\ wire' = SubSeq(wire, n + 1, Len(wire))
    /\ stage' = "drain"
    /\ UNCHANGED <<frames, complete, exit, node, sent, burst>>

\* One turn of the drain loop.  Frames start at the magic; what is before it
\* is dropped.
Magics == {i \in 1 .. Len(buf) - 1 : buf[i] = START1 /\ buf[i + 1] = START2}
Aligned == LET first == CHOOSE i \in Magics : \A j \in Magics : i <= j
           IN  SubSeq(buf, first, Len(buf))
PayloadLen == Aligned[3] * 256 + Aligned[4]

\* Mutants: the header is kept with the payload; any config_complete_id will do.
PayloadOf_WithHeader == SubSeq(Aligned, 1, 4 + PayloadLen)
Answers_Any(payload) == ExtractConfigCompleteId(payload) # NoId

PayloadOf == SubSeq(Aligned, 5, 4 + PayloadLen)
Answers(payload) == ExtractConfigCompleteId(payload) = Nonce

\* Mutant: the first byte of a magic still to be completed is dropped.
NoMagic_DropsAll ==
    /\ Magics = {}
    /\ buf' = <<>>
    /\ stage' = "read"
    /\ UNCHANGED <<frames, complete>>

NoMagic ==
    /\ Magics = {}
    /\ buf' = IF buf = <<>> THEN buf ELSE <<Last(buf)>>
    /\ stage' = "read"
    /\ UNCHANGED <<frames, complete>>

ShortHeader ==
    /\ Magics # {} /\ Len(Aligned) < 4
    /\ buf' = Aligned
    /\ stage' = "read"
    /\ UNCHANGED <<frames, complete>>

\* Mutant: the magic of a header that makes no sense is kept.
BadLength_KeepsMagic ==
    /\ Magics # {} /\ Len(Aligned) >= 4
    /\ PayloadLen > MAX_PAYLOAD
    /\ buf' = Aligned
    /\ UNCHANGED <<stage, frames, complete>>

BadLength ==
    /\ Magics # {} /\ Len(Aligned) >= 4
    /\ PayloadLen > MAX_PAYLOAD
    /\ buf' = SubSeq(Aligned, 3, Len(Aligned))
    /\ UNCHANGED <<stage, frames, complete>>

\* Mutant: the length is not checked before its bytes are awaited.
AwaitPayload_AnyLength ==
    /\ Magics # {} /\ Len(Aligned) >= 4
    /\ Len(Aligned) < 4 + PayloadLen
    /\ buf' = Aligned
    /\ stage' = "read"
    /\ UNCHANGED <<frames, complete>>

AwaitPayload ==
    /\ Magics # {} /\ Len(Aligned) >= 4
    /\ PayloadLen <= MAX_PAYLOAD
    /\ Len(Aligned) < 4 + PayloadLen
    /\ buf' = Aligned
    /\ stage' = "read"
    /\ UNCHANGED <<frames, complete>>

TakeFrame ==
    /\ Magics # {} /\ Len(Aligned) >= 4
    /\ PayloadLen <= MAX_PAYLOAD
    /\ Len(Aligned) >= 4 + PayloadLen
    /\ frames' = Append(frames, PayloadOf)
    /\ complete' = Answers(PayloadOf)
    /\ buf' = SubSeq(Aligned, 5 + PayloadLen, Len(Aligned))
    /\ stage' = IF complete' THEN "read" ELSE "drain"

Drain ==
    /\ stage = "drain"
    /\ NoMagic \/ ShortHeader \/ BadLength \/ AwaitPayload \/ TakeFrame
    /\ UNCHANGED <<exit, wire, node, sent, burst>>

\* The burst is complete, or the deadline has passed.
Finish ==
    /\ stage = "read"
    /\ stage' = "exit"
    /\ exit' = IF complete THEN 0 ELSE 1
    /\ UNCHANGED <<buf, frames, complete, wire, node, sent, burst>>

Next == NodeSends \/ ResetInput \/ Wake \/ Request \/ ReadChunk \/ Drain \/ Finish

Spec == Init /\ [][Next]_vars
-----------------------------------------------------------------------------
\* Frames come out whole and in the order they went in, however the reads cut
\* them and whatever stray bytes lie between them; a magic inside a payload
\* starts no frame.  And none is skipped: once the drain loop stops, every frame
\* that has arrived whole has been taken.
FramesComeOutWhole ==
    /\ stage # "open" => IsPrefix(frames, sent)
    /\ stage = "read" /\ wire = <<>> /\ ~complete => frames = sent

\* Success is never reported on a partial burst, nor on the answer to another
\* request: the frames end with all the node sent in answer to this one.
PassMeansWholeBurst ==
    exit = 0 => answered /\ IsSuffix(burst, frames)

\* The rolling buffer never holds a whole frame at rest: what is kept while
\* waiting is less than one frame, whatever was sent.
BufferBounded == stage = "read" /\ ~complete => Len(buf) < 4 + MAX_PAYLOAD
=============================================================================
