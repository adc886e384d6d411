-------------------------- MODULE MCStreamFraming ---------------------------
(***************************************************************************)
(* Small instances of StreamFraming for TLC, and its liveness.             *)
(***************************************************************************)
EXTENDS StreamFraming

\* A packet whose payload contains the magic.
Messages == {<<18, START1, START2>>}

\* Console text, and the two bytes of the magic.
StrayBytes == {10, START1, START2}

\* A node's answer tells which request it is for, whatever number that carried:
\* one to four bytes of it and the boundaries between.
ASSUME AnswersTell ==
    \A n \in (2 .. 3000) \cup (16000 .. 17000) \cup (2097000 .. 2097300)
              \cup (268435400 .. 268435500) :
        /\ ExtractConfigCompleteId(ConfigComplete(n)) = n
        /\ ReadVarint(BuildWantConfig(n), 2).value = n

\* The program runs on; nothing is assumed of the node, nor of the deadline.
RunSpec == Spec /\ WF_vars(ResetInput) /\ WF_vars(Wake) /\ WF_vars(Request)
                /\ WF_vars(ReadChunk) /\ WF_vars(Drain)

\* An answer that has been sent is found unless time runs out first: neither
\* the drain loop nor what is left in the buffer keeps it from being read.
CaptureEnds == answered ~> complete \/ stage = "exit"
=============================================================================
