-------------------------- MODULE HealthCheckProofs --------------------------
(***************************************************************************)
(* What the provisioning scripts promise, and that the health check agrees *)
(* with them, for every set of declared kinds and any number of runs and   *)
(* of faults.                                                              *)
(***************************************************************************)
EXTENDS HealthCheck, TLAPS

\* The shape of the scripts ------------------------------------------------
\* What the proofs need to know of the three scripts, each a fact about the
\* order of the steps: a channel is added before anything is set in it, and the
\* rebroadcast mode is set by the second step and, on the nodes, read back by
\* the third.
Devices == {"pbx", "node", "gateway"}
InChannel == {"psk 1", "precision 1"}
VERIFIED == 3

ShapeOf(script) ==
    /\ DOMAIN script = 1..Len(script) /\ Len(script) \in Nat /\ Len(script) >= VERIFIED
    /\ \A i \in DOMAIN script :
          /\ script[i].kind = "add" =>
                script[i].sets = {"channel"}
                /\ \A j \in 1..i : script[j].sets \cap InChannel = {}
          /\ script[i].kind = "channel" => \E j \in 1..(i - 1) : script[j].kind = "add"
          /\ script[i].kind = "psk" => script[i].sets = SetPsks.sets
          /\ script[i].kind = "verify" => i = VERIFIED /\ script[i].sets = {}
          /\ "rebroadcast" \in script[i].sets => i = 2

\* A cadence is none of the settings that the order of the steps is about.
LEMMA CadenceApart ==
    ASSUME NEW kinds, NEW s \in Cadence(kinds)
    PROVE  s \in {"device cadence", "environment cadence", "position cadence"}
<1> DEFINE of == [device |-> "device cadence", environment |-> "environment cadence",
                  position |-> "position cadence"]
<1>1. PICK k \in kinds \cap Declared : s = of[k]
  BY DEF Cadence
<1>2. k \in {"device", "environment", "position"}
  BY <1>1, ProvisioningAssumption
<1>3. of["device"] = "device cadence" /\ of["environment"] = "environment cadence"
      /\ of["position"] = "position cadence"
  OBVIOUS
<1> QED
  BY <1>1, <1>2, <1>3

\* The three scripts have that shape.
LEMMA PbxScriptShape == ShapeOf(PbxScript) /\ PbxScript[VERIFIED].kind = "verify"
<1> DEFINE S == PbxScript
<1>1. Len(S) = 13 /\ DOMAIN S = 1..13
  BY DEF PbxScript
<1>2. /\ S[1].kind = "cli" /\ S[2].kind = "cli" /\ S[3].kind = "verify"
      /\ S[4].kind = "cli" /\ S[5].kind = "cli" /\ S[6].kind = "add"
      /\ S[7].kind = "cli" /\ S[8].kind = "channel" /\ S[9].kind = "psk"
      /\ S[10].kind = "cli" /\ S[11].kind = "cli" /\ S[12].kind = "cli"
      /\ S[13].kind = "cli"
  BY DEF PbxScript, Cli, OnChannel, AddChannel, Verify, SetPsks
<1>3. /\ S[1].sets = {"lora", "hops and gain"} /\ S[2].sets = {"role", "rebroadcast"}
      /\ S[3].sets = {} /\ S[4].sets = {"bluetooth"} /\ S[5].sets = {"name 0"}
      /\ S[6].sets = {"channel"} /\ S[7].sets = {"precision 0"}
      /\ S[8].sets = {"precision 1"} /\ S[9].sets = SetPsks.sets
      /\ S[10].sets = {"telemetry"} \cup Cadence({"device"})
      /\ S[11].sets = {"serial"}
      /\ S[12].sets = {"gps"} \cup Cadence({"position"}) /\ S[13].sets = {}
  BY DEF PbxScript, Cli, OnChannel, AddChannel, Verify, SetPsks
<1>4. "rebroadcast" \notin S[10].sets \cup S[12].sets
  BY <1>3, CadenceApart
<1> HIDE DEF S
<1>5. ASSUME NEW i \in DOMAIN S, S[i].kind = "add"
      PROVE  /\ S[i].sets = {"channel"}
             /\ \A j \in 1..i : S[j].sets \cap InChannel = {}
  <2>1. i = 6
    BY <1>1, <1>2, <1>5
  <2>2. /\ S[1].sets \cap InChannel = {} /\ S[2].sets \cap InChannel = {}
        /\ S[3].sets \cap InChannel = {} /\ S[4].sets \cap InChannel = {}
        /\ S[5].sets \cap InChannel = {} /\ S[6].sets \cap InChannel = {}
    BY <1>3 DEF InChannel
  <2>3. \A j \in 1..6 : S[j].sets \cap InChannel = {}
    BY <2>2
  <2> QED
    BY <1>3, <2>1, <2>3
<1>6. ASSUME NEW i \in DOMAIN S, S[i].kind = "channel"
      PROVE  \E j \in 1..(i - 1) : S[j].kind = "add"
  <2>1. i = 8 /\ 6 \in 1..(i - 1)
    BY <1>1, <1>2, <1>6
  <2> QED
    BY <1>2, <2>1
<1>7. ASSUME NEW i \in DOMAIN S
      PROVE  /\ S[i].kind = "psk" => S[i].sets = SetPsks.sets
             /\ S[i].kind = "verify" => i = VERIFIED /\ S[i].sets = {}
  <2>1. /\ S[i].kind = "psk" => i = 9
        /\ S[i].kind = "verify" => i = 3
    BY <1>1, <1>2
  <2> QED
    BY <1>3, <2>1 DEF VERIFIED
<1>8. ASSUME NEW i \in DOMAIN S, "rebroadcast" \in S[i].sets
      PROVE  i = 2
  <2>1. "rebroadcast" \notin SetPsks.sets
    BY DEF SetPsks
  <2>2. /\ "rebroadcast" \notin S[1].sets /\ "rebroadcast" \notin S[3].sets
        /\ "rebroadcast" \notin S[4].sets /\ "rebroadcast" \notin S[5].sets
        /\ "rebroadcast" \notin S[6].sets /\ "rebroadcast" \notin S[7].sets
        /\ "rebroadcast" \notin S[8].sets /\ "rebroadcast" \notin S[9].sets
        /\ "rebroadcast" \notin S[10].sets /\ "rebroadcast" \notin S[11].sets
        /\ "rebroadcast" \notin S[12].sets /\ "rebroadcast" \notin S[13].sets
    BY <1>3, <1>4, <2>1
  <2> QED
    BY <1>1, <1>8, <2>2
<1>9. Len(S) \in Nat /\ DOMAIN S = 1..Len(S) /\ Len(S) >= VERIFIED
  BY <1>1 DEF VERIFIED
<1>10. ShapeOf(S)
  BY <1>5, <1>6, <1>7, <1>8, <1>9 DEF ShapeOf
<1> QED
  BY <1>2, <1>10 DEF S, VERIFIED

LEMMA NodeScriptShape == ShapeOf(NodeScript) /\ NodeScript[VERIFIED].kind = "verify"
<1> DEFINE S == NodeScript
<1>1. Len(S) = 9 /\ DOMAIN S = 1..9
  BY DEF NodeScript
<1>2. /\ S[1].kind = "cli" /\ S[2].kind = "cli" /\ S[3].kind = "verify"
      /\ S[4].kind = "cli" /\ S[5].kind = "add" /\ S[6].kind = "channel"
      /\ S[7].kind = "cli" /\ S[8].kind = "cli" /\ S[9].kind = "cli"
  BY DEF NodeScript, Cli, OnChannel, AddChannel, Verify, SetPsks
<1>3. /\ S[1].sets = {"lora", "hops and gain"} /\ S[2].sets = {"role", "rebroadcast"}
      /\ S[3].sets = {} /\ S[4].sets = {"name 0", "psk 0", "precision 0"}
      /\ S[5].sets = {"channel"} /\ S[6].sets = {"psk 1", "precision 1"}
      /\ S[7].sets = {"telemetry"} \cup Cadence({"device", "environment"})
      /\ S[8].sets = {"gps"} \cup Cadence({"position"}) /\ S[9].sets = {}
  BY DEF NodeScript, Cli, OnChannel, AddChannel, Verify, SetPsks
<1>4. "rebroadcast" \notin S[7].sets \cup S[8].sets
  BY <1>3, CadenceApart
<1> HIDE DEF S
<1>5. ASSUME NEW i \in DOMAIN S, S[i].kind = "add"
      PROVE  /\ S[i].sets = {"channel"}
             /\ \A j \in 1..i : S[j].sets \cap InChannel = {}
  <2>1. i = 5
    BY <1>1, <1>2, <1>5
  <2>2. /\ S[1].sets \cap InChannel = {} /\ S[2].sets \cap InChannel = {}
        /\ S[3].sets \cap InChannel = {} /\ S[4].sets \cap InChannel = {}
        /\ S[5].sets \cap InChannel = {}
    BY <1>3 DEF InChannel
  <2>3. \A j \in 1..5 : S[j].sets \cap InChannel = {}
    BY <2>2
  <2> QED
    BY <1>3, <2>1, <2>3
<1>6. ASSUME NEW i \in DOMAIN S, S[i].kind = "channel"
      PROVE  \E j \in 1..(i - 1) : S[j].kind = "add"
  <2>1. i = 6 /\ 5 \in 1..(i - 1)
    BY <1>1, <1>2, <1>6
  <2> QED
    BY <1>2, <2>1
<1>7. ASSUME NEW i \in DOMAIN S
      PROVE  /\ S[i].kind = "psk" => S[i].sets = SetPsks.sets
             /\ S[i].kind = "verify" => i = VERIFIED /\ S[i].sets = {}
  <2>1. /\ S[i].kind = "psk" => FALSE
        /\ S[i].kind = "verify" => i = 3
    BY <1>1, <1>2
  <2> QED
    BY <1>3, <2>1 DEF VERIFIED
<1>8. ASSUME NEW i \in DOMAIN S, "rebroadcast" \in S[i].sets
      PROVE  i = 2
  <2>1. "rebroadcast" \notin SetPsks.sets
    BY DEF SetPsks
  <2>2. /\ "rebroadcast" \notin S[1].sets /\ "rebroadcast" \notin S[3].sets
        /\ "rebroadcast" \notin S[4].sets /\ "rebroadcast" \notin S[5].sets
        /\ "rebroadcast" \notin S[6].sets /\ "rebroadcast" \notin S[7].sets
        /\ "rebroadcast" \notin S[8].sets /\ "rebroadcast" \notin S[9].sets
    BY <1>3, <1>4, <2>1
  <2> QED
    BY <1>1, <1>8, <2>2
<1>9. Len(S) \in Nat /\ DOMAIN S = 1..Len(S) /\ Len(S) >= VERIFIED
  BY <1>1 DEF VERIFIED
<1>10. ShapeOf(S)
  BY <1>5, <1>6, <1>7, <1>8, <1>9 DEF ShapeOf
<1> QED
  BY <1>2, <1>10 DEF S, VERIFIED

LEMMA GatewayScriptShape == ShapeOf(GatewayScript)
<1> DEFINE S == GatewayScript
<1>1. Len(S) = 6 /\ DOMAIN S = 1..6
  BY DEF GatewayScript
<1>2. /\ S[1].kind = "cli" /\ S[2].kind = "cli" /\ S[3].kind = "add"
      /\ S[4].kind = "channel" /\ S[5].kind = "cli" /\ S[6].kind = "cli"
  BY DEF GatewayScript, Cli, OnChannel, AddChannel, Verify, SetPsks
<1>3. /\ S[1].sets = {"lora", "hops and gain", "role"}
      /\ S[2].sets = {"name 0", "psk 0", "precision 0"}
      /\ S[3].sets = {"channel"} /\ S[4].sets = {"psk 1", "precision 1"}
      /\ S[5].sets = {"telemetry", "gps"} /\ S[6].sets = {}
  BY DEF GatewayScript, Cli, OnChannel, AddChannel, Verify, SetPsks
<1> HIDE DEF S
<1>5. ASSUME NEW i \in DOMAIN S, S[i].kind = "add"
      PROVE  /\ S[i].sets = {"channel"}
             /\ \A j \in 1..i : S[j].sets \cap InChannel = {}
  <2>1. i = 3
    BY <1>1, <1>2, <1>5
  <2>2. /\ S[1].sets \cap InChannel = {} /\ S[2].sets \cap InChannel = {}
        /\ S[3].sets \cap InChannel = {}
    BY <1>3 DEF InChannel
  <2>3. \A j \in 1..3 : S[j].sets \cap InChannel = {}
    BY <2>2
  <2> QED
    BY <1>3, <2>1, <2>3
<1>6. ASSUME NEW i \in DOMAIN S, S[i].kind = "channel"
      PROVE  \E j \in 1..(i - 1) : S[j].kind = "add"
  <2>1. i = 4 /\ 3 \in 1..(i - 1)
    BY <1>1, <1>2, <1>6
  <2> QED
    BY <1>2, <2>1
<1>7. ASSUME NEW i \in DOMAIN S
      PROVE  /\ S[i].kind = "psk" => S[i].sets = SetPsks.sets
             /\ S[i].kind = "verify" => i = VERIFIED /\ S[i].sets = {}
  <2>1. /\ S[i].kind = "psk" => FALSE
        /\ S[i].kind = "verify" => FALSE
    BY <1>1, <1>2
  <2> QED
    BY <1>3, <2>1 DEF VERIFIED
<1>8. ASSUME NEW i \in DOMAIN S, "rebroadcast" \in S[i].sets
      PROVE  i = 2
  <2>1. "rebroadcast" \notin SetPsks.sets
    BY DEF SetPsks
  <2>2. /\ "rebroadcast" \notin S[1].sets /\ "rebroadcast" \notin S[3].sets
        /\ "rebroadcast" \notin S[4].sets /\ "rebroadcast" \notin S[5].sets
        /\ "rebroadcast" \notin S[6].sets
    BY <1>3, <2>1
  <2> QED
    BY <1>1, <1>8, <2>2
<1>9. Len(S) \in Nat /\ DOMAIN S = 1..Len(S) /\ Len(S) >= VERIFIED
  BY <1>1 DEF VERIFIED
<1>10. ShapeOf(S)
  BY <1>5, <1>6, <1>7, <1>8, <1>9 DEF ShapeOf
<1> QED
  BY <1>10 DEF S

LEMMA ScriptShape ==
    ASSUME device \in Devices
    PROVE  /\ ShapeOf(Script)
           /\ device = "pbx" => Script[VERIFIED].kind = "verify"
BY PbxScriptShape, NodeScriptShape, GatewayScriptShape DEF Devices, Script

\* The run -----------------------------------------------------------------
RunTyped ==
    /\ device \in Devices
    /\ pos \in 0..(Len(Script) + 1)
    /\ attempt \in 1..MAX_RETRIES
    /\ exit \in {NoExit, 0, 1} /\ (pos # 0 => exit = NoExit)
    /\ wentWrong \in Nat
    /\ lost \subseteq {"rebroadcast"}

\* The steps that the run has behind it; a run that was interrupted has none to
\* answer for.
Reached == IF pos # 0 THEN 1..(pos - 1)
           ELSE IF exit # NoExit THEN DOMAIN Script ELSE {}

\* Whatever a step puts on the device, it leaves there what the steps before it
\* have set: only adding a channel resets anything, and what is in the channel
\* is set after that.
LEMMA AppliedKeeps ==
    ASSUME RunTyped, pos \in DOMAIN Script, NEW sets
    PROVE  /\ sets \subseteq Applied(sets)
           /\ on \ InChannel \subseteq Applied(sets)
           /\ \A i \in 1..pos : Script[i].sets \cap on \subseteq Applied(sets)
<1>1. sets \subseteq Applied(sets) /\ on \ InChannel \subseteq Applied(sets)
  BY DEF Applied, InChannel
<1>2. CASE Now.kind = "add"
  <2>1. \A i \in 1..pos : Script[i].sets \cap InChannel = {}
    BY <1>2, ScriptShape DEF RunTyped, ShapeOf, Now
  <2> QED
    BY <1>1, <2>1
<1>3. CASE Now.kind # "add"
  BY <1>1, <1>3 DEF Applied
<1> QED
  BY <1>1, <1>2, <1>3

LEMMA InitRun == Init => RunTyped /\ Reached = {}
<1> SUFFICES ASSUME Init PROVE RunTyped /\ Reached = {}
  OBVIOUS
<1>1. device \in Devices
  BY DEF Init, Devices
<1>2. Len(Script) \in Nat
  BY <1>1, ScriptShape DEF ShapeOf
<1> QED
  BY <1>1, <1>2 DEF Init, RunTyped, Reached, NoExit, MAX_RETRIES

\* The run goes on by one step, stays at one, or is over.
Leaves == pos \in DOMAIN Script /\ pos' = pos + 1 /\ attempt' = 1
          /\ UNCHANGED <<device, exit>>
Stays  == pos \in DOMAIN Script /\ pos' = pos /\ UNCHANGED <<device, exit, failures>>

LEMMA LeavesRun ==
    ASSUME RunTyped, Leaves
    PROVE  /\ Script' = Script /\ Len(Script) \in Nat /\ DOMAIN Script = 1..Len(Script)
           /\ pos' \in 1..(Len(Script) + 1) /\ pos' # 0 /\ exit' = NoExit
           /\ Reached = 1..(pos - 1) /\ Reached' = 1..pos
<1>1. Script' = Script
  BY DEF Leaves, Script
<1>2. Len(Script) \in Nat /\ DOMAIN Script = 1..Len(Script)
  BY ScriptShape DEF RunTyped, ShapeOf
<1>3. pos \in 1..Len(Script) /\ pos' = pos + 1
  BY <1>2 DEF Leaves
<1>4. pos # 0 /\ exit = NoExit /\ exit' = exit
  BY <1>2, <1>3 DEF RunTyped, Leaves
<1>5. Reached = 1..(pos - 1)
  BY <1>4 DEF Reached
<1>6. pos' # 0 /\ pos' - 1 = pos
  BY <1>2, <1>3
<1>7. Reached' = 1..pos
  BY <1>6 DEF Reached
<1> QED
  BY <1>1, <1>2, <1>3, <1>4, <1>5, <1>6, <1>7

LEMMA StaysRun ==
    ASSUME RunTyped, Stays
    PROVE  /\ Script' = Script /\ pos # 0 /\ pos' # 0
           /\ Reached = 1..(pos - 1) /\ Reached' = 1..(pos - 1)
<1>1. Len(Script) \in Nat /\ DOMAIN Script = 1..Len(Script)
  BY ScriptShape DEF RunTyped, ShapeOf
<1>2. pos # 0 /\ pos' = pos
  BY <1>1 DEF Stays
<1> QED
  BY <1>2 DEF Stays, Script, Reached

\* Every command step leaves its step or stays at it.
LEMMA StepsGoOn ==
    ASSUME RunTyped
    PROVE  /\ CliSucceeds => Leaves
           /\ CliFails => Leaves \/ (Stays /\ MayRetry /\ attempt' = attempt + 1)
           /\ ReadBack => Leaves
           /\ WritePsks => Leaves
BY DEF CliSucceeds, CliFails, ReadBack, WritePsks, Leaves, Stays, Leave, CliStep

LEMMA NextRun ==
    ASSUME RunTyped, [Next]_vars
    PROVE  RunTyped'
<1>1. Len(Script) \in Nat /\ DOMAIN Script = 1..Len(Script) /\ Len(Script) >= VERIFIED
  BY ScriptShape DEF RunTyped, ShapeOf
<1>2. device' = device /\ Script' = Script
  BY DEF Next, vars, Start, CliSucceeds, CliFails, ReadBack, WritePsks, Exit, Abort, Script
<1>3. wentWrong' \in Nat
  <2>1. wentWrong' \in {0, wentWrong, wentWrong + 1}
    <3>1. Fault \/ NoFault => wentWrong' \in {wentWrong, wentWrong + 1}
      BY DEF Fault, NoFault
    <3> QED
      BY <3>1 DEF Next, vars, history, Start, CliSucceeds, CliFails, ReadBack, WritePsks,
         Exit, Abort
  <2> QED
    BY <2>1 DEF RunTyped
<1>4. lost' \subseteq {"rebroadcast"}
  BY DEF RunTyped, Next, vars, history, Start, CliSucceeds, CliFails, ReadBack, WritePsks,
     Exit, Abort
<1>5. /\ pos' \in 0..(Len(Script) + 1) /\ attempt' \in 1..MAX_RETRIES
      /\ exit' \in {NoExit, 0, 1} /\ (pos' # 0 => exit' = NoExit)
  <2>1. CASE Start \/ Exit \/ Abort \/ UNCHANGED vars
    BY <1>1, <2>1 DEF RunTyped, Start, Exit, Abort, vars, run, MAX_RETRIES, NoExit, VERIFIED
  <2>2. CASE Leaves
    BY <1>1, <2>2, LeavesRun DEF RunTyped, Leaves, MAX_RETRIES
  <2>3. CASE Stays /\ MayRetry /\ attempt' = attempt + 1
    BY <1>1, <2>3 DEF RunTyped, Stays, MayRetry, MAX_RETRIES
  <2> QED
    BY <2>1, <2>2, <2>3, StepsGoOn DEF Next
<1> QED
  BY <1>1, <1>2, <1>3, <1>4, <1>5 DEF RunTyped

\* What is missing, and where it is reported -------------------------------
\* Of what the steps behind the run were to set, what is missing is reported; a
\* rebroadcast mode that was not kept is, at the latest, once it is read back.
MissingSoFar ==
    device = "pbx" =>
        \A i \in Reached : \A s \in Script[i].sets \ on :
            \/ Script[i].label \in failures
            \/ s = "rebroadcast"
               /\ (VERIFIED \in Reached => Script[VERIFIED].label \in failures)

ReportInv == RunTyped /\ MissingSoFar

LEMMA InitMissing == Init => MissingSoFar
BY InitRun DEF MissingSoFar

\* A step behind the run keeps what it has set, and its label among the failures.
LEMMA BehindKept ==
    ASSUME RunTyped, Next, pos \in DOMAIN Script, pos' # 0
    PROVE  /\ \A i \in 1..(pos - 1) : Script[i].sets \cap on \subseteq on'
           /\ failures \subseteq failures'
           /\ on \ InChannel \subseteq on'
<1>1. Len(Script) \in Nat /\ DOMAIN Script = 1..Len(Script)
  BY ScriptShape DEF RunTyped, ShapeOf
<1>2. pos \in 1..Len(Script)
  BY <1>1
<1>3. CliSucceeds \/ CliFails \/ ReadBack \/ WritePsks
  BY <1>1, <1>2 DEF Next, Start, Exit, Abort
<1>4. failures \subseteq failures'
  BY <1>3 DEF CliSucceeds, CliFails, ReadBack, WritePsks, Leave
<1>5. on' = on \/ \E sets : on' = Applied(sets)
  BY <1>3 DEF CliSucceeds, CliFails, ReadBack, WritePsks
<1>6. \A i \in 1..(pos - 1) : i \in 1..pos
  BY <1>2
<1> QED
  BY <1>4, <1>5, <1>6, AppliedKeeps

LEMMA NextMissing ==
    ASSUME RunTyped, MissingSoFar, [Next]_vars
    PROVE  MissingSoFar'
<1> SUFFICES ASSUME device' = "pbx"
             PROVE  \A i \in Reached' : \A s \in (Script[i].sets)' \ on' :
                      \/ (Script[i].label \in failures)'
                      \/ s = "rebroadcast"
                         /\ (VERIFIED \in Reached' => (Script[VERIFIED].label \in failures)')
  BY DEF MissingSoFar
<1>1. device = "pbx" /\ Script' = Script
  BY DEF Next, vars, Start, CliSucceeds, CliFails, ReadBack, WritePsks, Exit, Abort, Script
<1>2. /\ Len(Script) \in Nat /\ DOMAIN Script = 1..Len(Script) /\ ShapeOf(Script)
      /\ Script[VERIFIED].kind = "verify"
  BY <1>1, ScriptShape DEF RunTyped, ShapeOf
<1>3. \A i \in Reached : \A s \in Script[i].sets \ on :
          \/ Script[i].label \in failures
          \/ s = "rebroadcast"
             /\ (VERIFIED \in Reached => Script[VERIFIED].label \in failures)
  BY <1>1 DEF MissingSoFar
<1>4. CASE UNCHANGED vars
  BY <1>3, <1>4 DEF vars, run, Reached, Script
<1>5. CASE Start
  <2>1. Reached' = {}
    BY <1>5 DEF Start, Reached
  <2> QED
    BY <2>1
<1>6. CASE Exit
  <2>1. Reached' = Reached
    <3>1. pos # 0 /\ pos - 1 = Len(Script) /\ pos' = 0 /\ exit' # NoExit
      BY <1>2, <1>6 DEF Exit, NoExit
    <3>2. Reached = DOMAIN Script /\ Reached' = DOMAIN Script
      BY <1>1, <1>2, <3>1 DEF Reached
    <3> QED
      BY <3>2
  <2>2. UNCHANGED <<on, failures>>
    BY <1>6 DEF Exit
  <2> QED
    BY <1>1, <1>3, <2>1, <2>2
<1>7. CASE Abort
  <2>1. Reached' = {}
    BY <1>7 DEF Abort, Reached, RunTyped
  <2> QED
    BY <2>1
<1>8. ASSUME CliSucceeds \/ CliFails \/ ReadBack \/ WritePsks, Stays
      PROVE  \A i \in Reached' : \A s \in Script[i].sets \ on' :
                \/ Script[i].label \in failures'
                \/ s = "rebroadcast"
                   /\ (VERIFIED \in Reached' => Script[VERIFIED].label \in failures')
  <2>1. Reached = 1..(pos - 1) /\ Reached' = Reached /\ failures' = failures
    BY <1>8, StaysRun DEF Stays
  <2>2. \A i \in Reached : Script[i].sets \cap on \subseteq on'
    BY <1>2, <1>8, <2>1, BehindKept, StaysRun DEF Next, Stays
  <2> QED
    BY <1>3, <2>1, <2>2
<1>9. ASSUME CliSucceeds \/ CliFails \/ ReadBack \/ WritePsks, Leaves
      PROVE  \A i \in Reached' : \A s \in Script[i].sets \ on' :
                \/ Script[i].label \in failures'
                \/ s = "rebroadcast"
                   /\ (VERIFIED \in Reached' => Script[VERIFIED].label \in failures')
  <2>1. Reached = 1..(pos - 1) /\ Reached' = 1..pos /\ pos \in 1..Len(Script) /\ pos' # 0
    BY <1>2, <1>9, LeavesRun DEF Leaves
  <2>2. /\ \A i \in Reached : Script[i].sets \cap on \subseteq on'
        /\ failures \subseteq failures' /\ on \ InChannel \subseteq on'
    BY <1>2, <1>9, <2>1, BehindKept DEF Next
  <2> DEFINE Reported(i, s) == \/ Script[i].label \in failures'
                               \/ s = "rebroadcast" /\ pos < VERIFIED
                               \/ s = "rebroadcast" /\ Script[VERIFIED].label \in failures'
  \* The step that reads the mode back either finds it or reports it.
  <2>3. pos = VERIFIED => "rebroadcast" \in on' \/ Script[VERIFIED].label \in failures'
    <3>1. SUFFICES ASSUME pos = VERIFIED
                   PROVE  "rebroadcast" \in on' \/ Script[VERIFIED].label \in failures'
      OBVIOUS
    <3>2. ReadBack
      BY <1>2, <1>9, <3>1 DEF CliSucceeds, CliFails, WritePsks, CliStep, Now
    <3> QED
      BY <1>1, <3>1, <3>2 DEF ReadBack, Leave, Now
  <2>4. ASSUME NEW s \in Script[pos].sets \ on'
        PROVE  Reported(pos, s)
    <3>1. CASE CliSucceeds
      <4>1. s \in Now.sets \cap {"rebroadcast"}
        <5>1. PICK forgotten \in SUBSET (Now.sets \cap {"rebroadcast"}) :
                  on' = Applied(Now.sets \ forgotten)
          BY <3>1 DEF CliSucceeds
        <5>2. Now.sets \ forgotten \subseteq on'
          BY <5>1, <1>2, <2>1, AppliedKeeps
        <5> QED
          BY <2>4, <5>1, <5>2 DEF Now
      <4>2. pos = 2
        BY <1>2, <2>1, <4>1 DEF ShapeOf, Now
      <4> QED
        BY <4>1, <4>2 DEF VERIFIED
    <3>2. CASE CliFails
      BY <1>1, <1>2, <2>1, <3>2, <1>9 DEF CliFails, Leave, Now, Leaves
    <3>3. CASE ReadBack
      BY <1>2, <2>1, <2>4, <3>3 DEF ReadBack, ShapeOf, Now
    <3>4. CASE WritePsks
      <4>1. on' # Applied(Now.sets)
        BY <1>2, <2>1, <2>4, AppliedKeeps DEF Now
      <4> QED
        BY <1>1, <3>4, <4>1 DEF WritePsks, Leave, Now
    <3> QED
      BY <1>9, <3>1, <3>2, <3>3, <3>4
  <2>5. ASSUME NEW i \in Reached, NEW s \in Script[i].sets \ on'
        PROVE  Reported(i, s)
    <3>1. s \notin on
      BY <2>2, <2>5
    <3>2. CASE Script[i].label \in failures
      BY <2>2, <3>2
    <3>3. CASE s = "rebroadcast"
               /\ (VERIFIED \in Reached => Script[VERIFIED].label \in failures)
      <4>1. CASE pos < VERIFIED
        BY <3>3, <4>1
      <4>2. CASE pos = VERIFIED
        BY <2>3, <2>5, <3>3, <4>2
      <4>3. CASE pos > VERIFIED
        <5>1. VERIFIED \in Reached
          BY <2>1, <4>3 DEF VERIFIED
        <5> QED
          BY <2>2, <3>3, <5>1
      <4> QED
        BY <2>1, <4>1, <4>2, <4>3 DEF VERIFIED
    <3> QED
      BY <1>3, <2>5, <3>1, <3>2, <3>3
  <2>6. VERIFIED \in Reached' => ~(pos < VERIFIED)
    BY <2>1 DEF VERIFIED
  <2>7. \A i \in Reached' : i = pos \/ i \in Reached
    BY <2>1
  <2> QED
    BY <2>4, <2>5, <2>6, <2>7
<1> QED
  BY <1>1, <1>4, <1>5, <1>6, <1>7, <1>8, <1>9, StepsGoOn DEF Next

THEOREM ReportInvariance == Spec => []ReportInv
<1>1. Init => ReportInv
  BY InitRun, InitMissing DEF ReportInv
<1>2. ReportInv /\ [Next]_vars => ReportInv'
  BY NextRun, NextMissing DEF ReportInv
<1> QED
  BY <1>1, <1>2, PTL DEF Spec

\* What a PBX node does not hold when its script ends, the script has reported,
\* whatever failed before and in this run (provision_pbx_node.py).
THEOREM NothingMissingInSilence == Spec => []MissingIsReported
<1>1. ReportInv => MissingIsReported
  <2> SUFFICES ASSUME ReportInv, Ended, device = "pbx", NEW s \in Wanted \ on
               PROVE  \E i \in DOMAIN Script :
                         /\ Script[i].label \in failures
                         /\ s \in Script[i].sets
                            \/ (Script[i].kind = "verify" /\ s = "rebroadcast")
    BY DEF MissingIsReported
  <2>1. Reached = DOMAIN Script
    BY DEF Ended, Reached
  <2>2. PICK i \in DOMAIN Script : s \in Script[i].sets
    BY DEF Wanted
  <2>3. VERIFIED \in DOMAIN Script /\ Script[VERIFIED].kind = "verify"
    BY ScriptShape DEF ReportInv, RunTyped, ShapeOf, VERIFIED
  <2> QED
    BY <2>1, <2>2, <2>3 DEF ReportInv, MissingSoFar
<1> QED
  BY <1>1, ReportInvariance, PTL

\* What goes wrong in passing ----------------------------------------------
\* What a failure that the run survives may leave unset: nothing, or the keys
\* that are written in a single try.
Unmasked == IF wentWrong = 0 THEN {} ELSE ByApi

LEMMA ByApiIs ==
    ASSUME RunTyped
    PROVE  /\ "channel" \notin ByApi
           /\ pos \in DOMAIN Script /\ Now.kind = "psk" => Script[pos].sets \subseteq ByApi
<1>1. /\ Len(Script) \in Nat /\ DOMAIN Script = 1..Len(Script) /\ ShapeOf(Script)
  BY ScriptShape DEF RunTyped, ShapeOf
<1>2. \A i \in DOMAIN Script : Script[i].kind = "psk" => Script[i].sets = SetPsks.sets
  BY <1>1 DEF ShapeOf
<1>3. "channel" \notin ByApi
  <2>1. \A i \in DOMAIN Script : Script[i].kind = "psk" => "channel" \notin Script[i].sets
    <3>1. "channel" \notin SetPsks.sets
      BY DEF SetPsks
    <3> QED
      BY <1>2, <3>1
  <2> QED
    BY <2>1, Zenon DEF ByApi
<1>4. ASSUME pos \in DOMAIN Script, Now.kind = "psk"
      PROVE  Script[pos].sets \subseteq ByApi
  BY <1>4, Zenon DEF ByApi, Now
<1> QED
  BY <1>3, <1>4

\* A channel that is there already cannot be added: that step fails for good
\* and nothing has gone wrong.
AddsAgain == Now.kind = "add" /\ "channel" \in on

\* While less has gone wrong than there are attempts, no step has been given up
\* but those; and a step in its n-th attempt has seen n - 1 things go wrong.
FaultsSoFar ==
    wentWrong < MAX_RETRIES =>
        /\ \A i \in Reached : Script[i].sets \ on \subseteq lost \cup Unmasked
        /\ CliStep /\ ~AddsAgain => attempt - 1 <= wentWrong

FaultInv == RunTyped /\ FaultsSoFar

LEMMA InitFaults == Init => FaultsSoFar
<1> SUFFICES ASSUME Init PROVE FaultsSoFar
  OBVIOUS
<1>1. Reached = {}
  BY InitRun
<1>2. attempt - 1 <= wentWrong
  BY DEF Init
<1> QED
  BY <1>1, <1>2 DEF FaultsSoFar

\* With so few faults the channel is there once the step that adds it is done.
LEMMA ChannelIsThere ==
    ASSUME RunTyped, FaultsSoFar, wentWrong < MAX_RETRIES,
           pos \in DOMAIN Script, Now.kind = "channel"
    PROVE  "channel" \in on
<1>1. /\ Len(Script) \in Nat /\ DOMAIN Script = 1..Len(Script) /\ ShapeOf(Script)
  BY ScriptShape DEF RunTyped, ShapeOf
<1>2. PICK j \in 1..(pos - 1) : Script[j].kind = "add"
  BY <1>1 DEF ShapeOf, Now
<1>3. j \in DOMAIN Script
  BY <1>1
<1>4. Script[j].sets = {"channel"}
  BY <1>1, <1>2, <1>3 DEF ShapeOf
<1>5. j \in Reached
  BY <1>1 DEF Reached
<1>6. "channel" \notin lost \cup Unmasked
  BY ByApiIs DEF RunTyped, Unmasked
<1> QED
  BY <1>4, <1>5, <1>6 DEF FaultsSoFar

LEMMA NextFaults ==
    ASSUME RunTyped, FaultsSoFar, [Next]_vars
    PROVE  FaultsSoFar'
<1> SUFFICES ASSUME wentWrong' < MAX_RETRIES
             PROVE  /\ \A i \in Reached' : (Script[i].sets)' \ on' \subseteq lost' \cup Unmasked'
                    /\ CliStep' /\ ~AddsAgain' => attempt' - 1 <= wentWrong'
  BY DEF FaultsSoFar
<1>1. Script' = Script
  BY DEF Next, vars, Start, CliSucceeds, CliFails, ReadBack, WritePsks, Exit, Abort, Script
<1>2. /\ Len(Script) \in Nat /\ DOMAIN Script = 1..Len(Script) /\ ShapeOf(Script)
      /\ ByApi' = ByApi
  BY <1>1, ScriptShape DEF RunTyped, ShapeOf, ByApi
<1>3. wentWrong \in Nat /\ wentWrong' \in Nat
  BY NextRun DEF RunTyped
<1>4. attempt \in 1..MAX_RETRIES
  BY DEF RunTyped
<1>5. CASE UNCHANGED vars
  BY <1>1, <1>2, <1>5 DEF FaultsSoFar, vars, run, history, Reached, Unmasked, CliStep,
     AddsAgain, Now
<1>6. CASE Start
  <2>1. Reached' = {} /\ attempt' = 1 /\ wentWrong' = 0
    BY <1>6 DEF Start, Reached
  <2> QED
    BY <2>1
<1>7. CASE Exit
  <2>1. Reached' = Reached
    <3>1. pos # 0 /\ pos - 1 = Len(Script) /\ pos' = 0 /\ exit' # NoExit
      BY <1>2, <1>7 DEF Exit, NoExit
    <3>2. Reached = DOMAIN Script /\ Reached' = DOMAIN Script
      BY <1>1, <1>2, <3>1 DEF Reached
    <3> QED
      BY <3>2
  <2>2. UNCHANGED <<on, wentWrong, lost>> /\ Unmasked' = Unmasked
    BY <1>2, <1>7 DEF Exit, history, Unmasked
  <2>3. ~CliStep'
    BY <1>1, <1>2, <1>7 DEF CliStep, Exit
  <2> QED
    BY <1>1, <2>1, <2>2, <2>3 DEF FaultsSoFar
<1>8. CASE Abort
  <2>1. Reached' = {} /\ attempt' = 1
    BY <1>8 DEF Abort, Reached, RunTyped
  <2> QED
    BY <1>3, <2>1
<1>9. ASSUME CliFails, Stays, MayRetry, attempt' = attempt + 1
      PROVE  /\ \A i \in Reached' : Script[i].sets \ on' \subseteq lost' \cup Unmasked'
             /\ CliStep' /\ ~AddsAgain' => attempt' - 1 <= wentWrong'
  <2>1. /\ Reached = 1..(pos - 1) /\ Reached' = Reached /\ pos # 0 /\ pos' = pos
        /\ lost' = lost /\ Now' = Now /\ CliStep
    BY <1>1, <1>9, StaysRun DEF Stays, CliFails, Now
  <2>2. \A i \in Reached : Script[i].sets \cap on \subseteq on'
    BY <1>2, <1>9, <2>1, BehindKept DEF Next, Stays
  <2>3. CASE Ready
    <3>1. wentWrong' = wentWrong + 1
      BY <1>9, <2>3 DEF CliFails, Fault
    <3>2. wentWrong < MAX_RETRIES /\ Unmasked \subseteq Unmasked'
      BY <1>2, <1>3, <3>1 DEF Unmasked, MAX_RETRIES
    <3>3. ~AddsAgain
      BY <2>3 DEF Ready, AddsAgain
    <3> QED
      BY <1>3, <1>4, <1>9, <2>1, <2>2, <3>1, <3>2, <3>3 DEF FaultsSoFar
  <2>4. CASE ~Ready
    <3>1. wentWrong' = wentWrong /\ on' = on /\ Unmasked' = Unmasked
      BY <1>2, <1>9, <2>4 DEF CliFails, NoFault, Unmasked
    <3>2. Now.kind # "channel"
      BY <1>2, <2>1, <2>4, <3>1, ChannelIsThere DEF Ready, CliStep
    <3>3. AddsAgain /\ AddsAgain'
      BY <2>1, <2>4, <3>1, <3>2 DEF Ready, AddsAgain
    <3> QED
      BY <2>1, <3>1, <3>3 DEF FaultsSoFar
  <2> QED
    BY <2>3, <2>4
<1>10. ASSUME CliSucceeds \/ CliFails \/ ReadBack \/ WritePsks, Leaves
       PROVE  /\ \A i \in Reached' : Script[i].sets \ on' \subseteq lost' \cup Unmasked'
              /\ CliStep' /\ ~AddsAgain' => attempt' - 1 <= wentWrong'
  <2>1. Reached = 1..(pos - 1) /\ Reached' = 1..pos /\ pos \in 1..Len(Script) /\ pos' # 0
    BY <1>2, <1>10, LeavesRun DEF Leaves
  <2>2. \A i \in Reached : Script[i].sets \cap on \subseteq on'
    BY <1>2, <1>10, <2>1, BehindKept DEF Next
  <2>3. wentWrong' \in {wentWrong, wentWrong + 1}
    <3>1. Fault \/ NoFault => wentWrong' \in {wentWrong, wentWrong + 1}
      BY DEF Fault, NoFault
    <3> QED
      BY <1>10, <3>1 DEF CliSucceeds, CliFails, ReadBack, WritePsks
  <2>4. wentWrong < MAX_RETRIES /\ Unmasked \subseteq Unmasked'
    BY <1>2, <1>3, <2>3 DEF Unmasked, MAX_RETRIES
  <2>5. lost \subseteq lost'
    BY <1>10 DEF CliSucceeds, CliFails, ReadBack, WritePsks
  <2>6. Script[pos].sets \ on' \subseteq lost' \cup Unmasked'
    <3>1. CASE CliSucceeds
      <4>1. PICK forgotten \in SUBSET (Now.sets \cap {"rebroadcast"}) :
                on' = Applied(Now.sets \ forgotten) /\ lost' = lost \cup forgotten
        BY <3>1 DEF CliSucceeds
      <4>2. Now.sets \ forgotten \subseteq on'
        BY <1>2, <2>1, <4>1, AppliedKeeps
      <4> QED
        BY <4>1, <4>2 DEF Now
    \* A step is given up in its last attempt: all three went wrong, or the
    \* channel is there.
    <3>2. CASE CliFails
      <4>1. ~MayRetry /\ attempt = MAX_RETRIES /\ CliStep
        BY <1>4, <1>10, <2>1, <3>2 DEF CliFails, Leaves, MayRetry, MAX_RETRIES
      <4>2. CASE AddsAgain
        <5>1. Script[pos].sets = {"channel"}
          BY <1>2, <2>1, <4>2 DEF ShapeOf, AddsAgain, Now
        <5>2. "channel" \in on'
          <6>1. ~Ready
            BY <4>2 DEF AddsAgain, Ready
          <6> QED
            BY <3>2, <4>2, <6>1 DEF CliFails, AddsAgain
        <5> QED
          BY <5>1, <5>2
      <4>3. CASE ~AddsAgain
        <5>1. attempt - 1 <= wentWrong
          BY <2>4, <4>1, <4>3 DEF FaultsSoFar
        <5>2. Ready
          BY <1>2, <2>1, <2>4, <4>3, ChannelIsThere DEF Ready, AddsAgain
        <5>3. wentWrong' = wentWrong + 1
          BY <3>2, <5>2 DEF CliFails, Fault
        <5> QED
          BY <1>3, <4>1, <5>1, <5>3 DEF MAX_RETRIES
      <4> QED
        BY <4>2, <4>3
    <3>3. CASE ReadBack
      BY <1>2, <2>1, <3>3 DEF ReadBack, ShapeOf, Now
    <3>4. CASE WritePsks
      <4>1. Script[pos].sets \subseteq ByApi
        BY <1>2, <2>1, <3>4, ByApiIs DEF WritePsks
      <4>2. CASE NoFault /\ on' = Applied(Now.sets)
        BY <1>2, <2>1, <4>2, AppliedKeeps DEF Now
      <4>3. CASE Fault
        <5>1. Unmasked' = ByApi
          <6>1. wentWrong' # 0
            BY <1>3, <4>3 DEF Fault
          <6> QED
            BY <1>2, <6>1 DEF Unmasked
        <5> QED
          BY <4>1, <5>1
      <4> QED
        BY <3>4, <4>2, <4>3 DEF WritePsks
    <3> QED
      BY <1>10, <3>1, <3>2, <3>3, <3>4
  <2>7. \A i \in Reached' : i = pos \/ i \in Reached
    BY <2>1
  <2>8. \A i \in Reached : Script[i].sets \ on' \subseteq lost' \cup Unmasked'
    BY <2>2, <2>4, <2>5 DEF FaultsSoFar
  <2>9. attempt' - 1 <= wentWrong'
    BY <1>3, <1>10 DEF Leaves
  <2> QED
    BY <2>6, <2>7, <2>8, <2>9
<1> QED
  BY <1>1, <1>5, <1>6, <1>7, <1>8, <1>9, <1>10, StepsGoOn DEF Next

THEOREM FaultInvariance == Spec => []FaultInv
<1>1. Init => FaultInv
  BY InitRun, InitFaults DEF FaultInv
<1>2. FaultInv /\ [Next]_vars => FaultInv'
  BY NextRun, NextFaults DEF FaultInv
<1> QED
  BY <1>1, <1>2, PTL DEF Spec

LEMMA EndedReached ==
    ASSUME FaultInv, Ended, wentWrong < MAX_RETRIES
    PROVE  Wanted \ on \subseteq lost \cup Unmasked
<1>1. Reached = DOMAIN Script
  BY DEF Ended, Reached
<1> QED
  BY <1>1 DEF FaultInv, FaultsSoFar, Wanted

\* Fewer faults than attempts in a run leave nothing unset at its end but what
\* the device did not keep and, on a PBX node, the keys (run(),
\* set_channel_psks()).
THEOREM RetriesMask == Spec => []FaultsAreMasked
<1>1. FaultInv => FaultsAreMasked
  BY EndedReached DEF FaultsAreMasked, Unmasked
<1> QED
  BY <1>1, FaultInvariance, PTL

\* A run in which nothing goes wrong repairs whatever runs before it left.
THEOREM RunsRepair == Spec => []RerunRepairs
<1>1. FaultInv => RerunRepairs
  BY EndedReached DEF RerunRepairs, Unmasked, FaultInv, RunTyped, MAX_RETRIES
<1> QED
  BY <1>1, FaultInvariance, PTL

\* The health check --------------------------------------------------------
\* What the sensor and PBX scripts want holds what the check compares.
LEMMA WantedIsShared ==
    ASSUME device \in {"pbx", "node"}
    PROVE  Shared \cup {"role"} \subseteq Wanted
<1>1. CASE device = "pbx"
  <2>1. Script = PbxScript
    BY <1>1 DEF Script
  <2>2. DOMAIN PbxScript = 1..13
    BY DEF PbxScript
  <2>3. /\ PbxScript[1].sets = {"lora", "hops and gain"} /\ PbxScript[2].sets = {"role", "rebroadcast"}
        /\ PbxScript[5].sets = {"name 0"} /\ PbxScript[6].sets = {"channel"}
        /\ PbxScript[7].sets = {"precision 0"} /\ PbxScript[8].sets = {"precision 1"}
        /\ PbxScript[9].sets = {"psk 0", "psk 1"}
    BY DEF PbxScript, Cli, OnChannel, AddChannel, SetPsks
  <2>4. \A i \in {1, 2, 5, 6, 7, 8, 9} : PbxScript[i].sets \subseteq Wanted
    BY <2>1, <2>2 DEF Wanted
  <2> QED
    BY <2>3, <2>4 DEF Shared
<1>2. CASE device = "node"
  <2>1. Script = NodeScript
    BY <1>2 DEF Script
  <2>2. DOMAIN NodeScript = 1..9
    BY DEF NodeScript
  <2>3. /\ NodeScript[1].sets = {"lora", "hops and gain"} /\ NodeScript[2].sets = {"role", "rebroadcast"}
        /\ NodeScript[4].sets = {"name 0", "psk 0", "precision 0"}
        /\ NodeScript[5].sets = {"channel"} /\ NodeScript[6].sets = {"psk 1", "precision 1"}
    BY DEF NodeScript, Cli, OnChannel, AddChannel
  <2>4. \A i \in {1, 2, 4, 5, 6} : NodeScript[i].sets \subseteq Wanted
    BY <2>1, <2>2 DEF Wanted
  <2> QED
    BY <2>3, <2>4 DEF Shared
<1> QED
  BY <1>1, <1>2

CheckInv == device \in Devices /\ CheckAgreesWithScripts

LEMMA CheckAgrees ==
    ASSUME device \in Devices, NEW noMesh \in BOOLEAN, Check(noMesh)
    PROVE  CheckAgreesWithScripts'
<1>1. PICK position \in SUBSET {"quantized"}, mesh \in SUBSET MeshIssues :
          issues' = position \cup RadioHealthCheck
                    \cup (IF noMesh THEN {} ELSE OwnRole \cup mesh)
  BY DEF Check
<1>2. on' = on /\ device' = device /\ Wanted' = Wanted
  BY DEF Check, vars, Wanted, Script
<1>3. verdict' = 0 => Shared \subseteq on
  <2> SUFFICES ASSUME verdict' = 0 PROVE Shared \subseteq on
    OBVIOUS
  <2>1. RadioHealthCheck = {}
    BY <1>1 DEF Check
  <2>2. "channel" \in on
    BY <2>1 DEF RadioHealthCheck, ChannelOne
  <2> QED
    BY <2>1, <2>2 DEF RadioHealthCheck, ChannelOne, Shared
<1>4. ASSUME device # "gateway", Wanted \subseteq on
      PROVE  issues' \subseteq MeshIssues
  <2>1. Shared \cup {"role"} \subseteq on
    BY <1>4, WantedIsShared DEF Devices
  <2>2. RadioHealthCheck = {} /\ OwnRole = {}
    BY <2>1 DEF RadioHealthCheck, ChannelOne, OwnRole, Shared
  <2>3. position \subseteq MeshIssues /\ mesh \subseteq MeshIssues
    BY DEF MeshIssues
  <2> QED
    BY <1>1, <2>2, <2>3
<1> QED
  BY <1>2, <1>3, <1>4 DEF CheckAgreesWithScripts

\* Scripts and check agree on what the device must share with the mesh, after
\* any history of runs (check_node_info.py, radio_health_check()).
THEOREM CheckAndScriptsAgree == CheckSpec => []CheckAgreesWithScripts
<1>1. CheckInit => CheckInv
  BY DEF CheckInit, Init, CheckInv, Devices, CheckAgreesWithScripts, NoExit
<1>2. ASSUME CheckInv, [CheckNext]_checkVars
      PROVE  CheckInv'
  <2>1. device' \in Devices
    <3>1. device' = device
      BY <1>2 DEF CheckNext, Provision, Check, CheckCannotOpen, checkVars, vars, Next, Start,
         CliSucceeds, CliFails, ReadBack, WritePsks, Exit, Abort
    <3> QED
      BY <1>2, <3>1 DEF CheckInv
  <2>2. CheckAgreesWithScripts'
    <3>1. CASE Provision
      BY <3>1 DEF Provision, CheckAgreesWithScripts, NoExit
    <3>2. ASSUME NEW noMesh \in BOOLEAN, Check(noMesh)
          PROVE  CheckAgreesWithScripts'
      BY <1>2, <3>2, CheckAgrees DEF CheckInv
    <3>3. CASE CheckCannotOpen
      BY <3>3 DEF CheckCannotOpen, CheckAgreesWithScripts
    <3>4. CASE UNCHANGED checkVars
      BY <1>2, <3>4 DEF checkVars, vars, CheckInv, CheckAgreesWithScripts, Wanted, Script
    <3> QED
      BY <1>2, <3>1, <3>2, <3>3, <3>4 DEF CheckNext
  <2> QED
    BY <2>1, <2>2 DEF CheckInv
<1>3. CheckInv => CheckAgreesWithScripts
  BY DEF CheckInv
<1> QED
  BY <1>1, <1>2, <1>3, PTL DEF CheckSpec

\* To check a device changes nothing on it: what holds of the scripts holds of
\* scripts and checks in any order.
THEOREM CheckOnlyLooks == CheckSpec => Spec
<1>1. CheckInit => Init
  BY DEF CheckInit
<1>2. [CheckNext]_checkVars => [Next]_vars
  BY DEF CheckNext, checkVars, Provision, Check, CheckCannotOpen
<1> QED
  BY <1>1, <1>2, PTL DEF CheckSpec, Spec

COROLLARY ScriptsWithChecks ==
    CheckSpec => [](MissingIsReported /\ FaultsAreMasked /\ RerunRepairs)
BY CheckOnlyLooks, NothingMissingInSilence, RetriesMask, RunsRepair, PTL
=============================================================================
