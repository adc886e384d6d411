---------------------------- MODULE Provisioning ----------------------------
(***************************************************************************)
(* The configuration scripts of the PBX nodes, the mesh nodes and the      *)
(* gateway: a list of steps put to a device, each a command of the         *)
(* meshtastic CLI that is retried.  The PBX script collects what failed    *)
(* and exits non-zero; the others go on and exit 0.  A setting is `on' the *)
(* device when it has the value the script wants.                          *)
(***************************************************************************)
EXTENDS Integers, Sequences, FiniteSets

CONSTANTS Declared,    \* kinds mesh_config.intervals_for() returns for the device
          MaxFaults,   \* bound on attempts that go wrong, in all runs
          MaxRuns      \* bound on runs of the script

ASSUME ProvisioningAssumption ==
    /\ Declared \subseteq {"device", "environment", "position"}
    /\ MaxFaults \in Nat /\ MaxRuns \in Nat

VARIABLES device,      \* "pbx", "node" or "gateway": which script runs
          pos,         \* the step being run, 0 between runs
          attempt,     \* its attempt, from 1
          failures,    \* labels of the steps reported as failed
          exit,        \* exit code of the last run, or NoExit
          on,          \* settings of the device, applied
          runs, faults,
          \* History, of the current run:
          wentWrong,   \* attempts that went wrong, and settings that were not kept
          lost

run     == <<pos, attempt, failures, exit>>
history == <<wentWrong, lost>>
vars    == <<device, run, on, runs, faults, history>>

MAX_RETRIES == 3
NoExit == -1
-----------------------------------------------------------------------------
\* The scripts ------------------------------------------------------------
Cli(label, sets) == [kind |-> "cli", label |-> label, sets |-> sets]
OnChannel(label, sets) == [kind |-> "channel", label |-> label, sets |-> sets]
AddChannel  == [kind |-> "add", label |-> "add channel", sets |-> {"channel"}]
Verify      == [kind |-> "verify", label |-> "verify", sets |-> {}]
SetPsks     == [kind |-> "psk", label |-> "psk", sets |-> {"psk 0", "psk 1"}]

Cadence(kinds) ==
    LET of == [device |-> "device cadence", environment |-> "environment cadence",
               position |-> "position cadence"]
    IN  {of[k] : k \in kinds \cap Declared}

PbxScript == <<
    Cli("lora", {"lora", "hops and gain"}),
    Cli("device", {"role", "rebroadcast"}),
    Verify,
    Cli("bluetooth", {"bluetooth"}),
    Cli("rename", {"name 0"}),
    AddChannel,
    Cli("precision 0", {"precision 0"}),
    OnChannel("precision 1", {"precision 1"}),
    SetPsks,
    Cli("telemetry", {"telemetry"} \cup Cadence({"device"})),
    Cli("serial", {"serial"}),
    Cli("gps", {"gps"} \cup Cadence({"position"})),
    Cli("reboot", {}) >>

NodeScript == <<
    Cli("lora", {"lora", "hops and gain"}),
    Cli("device", {"role", "rebroadcast"}),
    Verify,
    Cli("channel 0", {"name 0", "psk 0", "precision 0"}),
    AddChannel,
    OnChannel("channel 1", {"psk 1", "precision 1"}),
    Cli("telemetry", {"telemetry"} \cup Cadence({"device", "environment"})),
    Cli("gps", {"gps"} \cup Cadence({"position"})),
    Cli("reboot", {}) >>

GatewayScript == <<
    Cli("lora", {"lora", "hops and gain", "role"}),
    Cli("channel 0", {"name 0", "psk 0", "precision 0"}),
    AddChannel,
    OnChannel("channel 1", {"psk 1", "precision 1"}),
    Cli("telemetry", {"telemetry", "gps"}),
    Cli("reboot", {}) >>

Script == CASE device = "pbx" -> PbxScript
            [] device = "node" -> NodeScript
            [] device = "gateway" -> GatewayScript
Wanted == UNION {Script[i].sets : i \in DOMAIN Script}
Now    == Script[pos]
-----------------------------------------------------------------------------
Init ==
    /\ device \in {"pbx", "node", "gateway"}
    /\ pos = 0 /\ attempt = 1 /\ failures = {} /\ exit = NoExit
    /\ on = {} /\ runs = 0 /\ faults = 0
    /\ wentWrong = 0 /\ lost = {}

Start ==
    /\ pos = 0
    /\ runs < MaxRuns
    /\ runs' = runs + 1
    /\ pos' = 1 /\ attempt' = 1 /\ failures' = {} /\ exit' = NoExit
    /\ wentWrong' = 0 /\ lost' = {}
    /\ UNCHANGED <<device, on, faults>>

\* The device -------------------------------------------------------------
\* A channel is added once, with a key and a precision of its own; the settings
\* of a channel need it.
Ready == /\ Now.kind = "add"     => "channel" \notin on
         /\ Now.kind = "channel" => "channel" \in on

Applied(sets) ==
    sets \cup (IF Now.kind = "add" THEN on \ {"psk 1", "precision 1"} ELSE on)

Fault == /\ faults < MaxFaults
         /\ faults' = faults + 1
         /\ wentWrong' = wentWrong + 1
NoFault == UNCHANGED <<faults, wentWrong>>

\* Mutants: a failure is not collected; the first one ends the script.
Leave_Silent(reported) ==
    pos' = pos + 1 /\ attempt' = 1 /\ UNCHANGED <<failures, exit>>
Leave_StopsAtFailure(reported) ==
    /\ pos' = IF reported = {} THEN pos + 1 ELSE Len(Script) + 1
    /\ attempt' = 1
    /\ failures' = IF device = "pbx" THEN failures \cup reported ELSE failures
    /\ UNCHANGED exit

\* A step is left: for the next one, with the failure reported if at all.
Leave(reported) ==
    /\ pos' = pos + 1
    /\ attempt' = 1
    /\ failures' = IF device = "pbx" THEN failures \cup reported ELSE failures
    /\ UNCHANGED exit

\* run(): an attempt succeeds; but of the settings of one command, the
\* rebroadcast mode may not be kept.
CliStep == pos \in DOMAIN Script /\ Now.kind \in {"cli", "add", "channel"}

CliSucceeds ==
    /\ CliStep /\ Ready /\ NoFault
    /\ \E forgotten \in SUBSET (Now.sets \cap {"rebroadcast"}) :
          /\ on' = Applied(Now.sets \ forgotten)
          /\ lost' = lost \cup forgotten
    /\ Leave({})
    /\ UNCHANGED <<device, runs>>

\* Mutant: one attempt is lost.
MayRetry_OneShort == attempt < MAX_RETRIES - 1

MayRetry == attempt < MAX_RETRIES

\* It fails, before or after the device has applied it; it is tried again or,
\* after MAX_RETRIES attempts, given up.
CliFails ==
    /\ CliStep
    /\ IF Ready THEN Fault /\ on' \in {on, Applied(Now.sets)}
                ELSE NoFault /\ UNCHANGED on
    /\ IF MayRetry
       THEN attempt' = attempt + 1 /\ UNCHANGED <<pos, failures, exit>>
       ELSE Leave({Now.label})
    /\ UNCHANGED <<device, runs, lost>>

\* The rebroadcast mode is read back; a value that cannot be read does not
\* verify.
ReadBack ==
    /\ pos \in DOMAIN Script /\ Now.kind = "verify"
    /\ \/ NoFault /\ Leave(IF "rebroadcast" \in on THEN {} ELSE {Now.label})
       \/ Fault /\ Leave({Now.label})
    /\ UNCHANGED <<device, on, runs, lost>>

\* The keys are written one after the other through the API, in a single try.
WritePsks ==
    /\ pos \in DOMAIN Script /\ Now.kind = "psk"
    /\ \/ NoFault /\ on' = Applied(Now.sets) /\ Leave({})
       \/ Fault /\ on' \in {on, Applied({"psk 0"}), Applied(Now.sets)} /\ Leave({Now.label})
    /\ UNCHANGED <<device, runs, lost>>

Exit ==
    /\ pos = Len(Script) + 1
    /\ pos' = 0
    /\ exit' = IF failures = {} THEN 0 ELSE 1
    /\ UNCHANGED <<device, attempt, failures, on, runs, faults, history>>

\* The operator interrupts the script.
Abort ==
    /\ pos # 0
    /\ pos' = 0 /\ attempt' = 1
    /\ UNCHANGED <<device, failures, exit, on, runs, faults, history>>

Next == Start \/ CliSucceeds \/ CliFails \/ ReadBack \/ WritePsks \/ Exit \/ Abort

Spec == Init /\ [][Next]_vars
-----------------------------------------------------------------------------
Ended == pos = 0 /\ exit # NoExit

\* Nothing is missing in silence: what the device does not hold when the PBX
\* script ends is what a step it reports as failed was to set, the mode that
\* was accepted and not kept included.
MissingIsReported ==
    Ended /\ device = "pbx" => \A s \in Wanted \ on :
        \E i \in DOMAIN Script :
            /\ Script[i].label \in failures
            /\ s \in Script[i].sets \/ (Script[i].kind = "verify" /\ s = "rebroadcast")

\* What the script writes through the API: the keys, by the PBX script.
ByApi == UNION {Script[i].sets : i \in {j \in DOMAIN Script : Script[j].kind = "psk"}}

\* Retries mask what goes wrong in passing: fewer faults than attempts leave
\* nothing unset but what the device did not keep and, by the PBX script, the
\* keys, which set_channel_psks() writes in a single try.  The scripts of node
\* and gateway write them with the CLI and leave no key unset.
FaultsAreMasked ==
    Ended /\ wentWrong < MAX_RETRIES => Wanted \ on \subseteq lost \cup ByApi

\* A run of the script repairs whatever earlier runs left undone, failed or
\* were interrupted in.
RerunRepairs == Ended /\ wentWrong = 0 => Wanted \ on \subseteq lost
=============================================================================
