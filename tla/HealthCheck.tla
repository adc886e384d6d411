----------------------------- MODULE HealthCheck -----------------------------
(***************************************************************************)
(* src/tools/check_node_info.py run on a device that the scripts of        *)
(* Provisioning have worked on, between their runs: what it compares with  *)
(* common/radio_config.py, what it finds in the device's node database,    *)
(* and the exit code it makes of both.                                     *)
(***************************************************************************)
EXTENDS Provisioning

VARIABLES issues,   \* what the last check listed
          verdict   \* its exit code, or NoExit once the scripts ran again

checkVars == <<vars, issues, verdict>>

\* What every device must hold to hear the others and be heard.
Shared == {"lora", "rebroadcast", "channel", "name 0", "psk 0", "psk 1",
           "precision 0", "precision 1"}

\* What the mesh can have wrong: a planned node absent or in another role, one
\* that sends coarse coordinates, a node that is not planned.
MeshIssues == {"absent", "other role", "quantized", "unknown"}
-----------------------------------------------------------------------------
CheckInit == Init /\ issues = {} /\ verdict = NoExit

\* A channel that is not there is one issue; one that is there has its key and
\* its precision compared.  The first channel always is.
ChannelOne == IF "channel" \in on THEN {"psk 1", "precision 1"} \ on ELSE {"channel"}

\* Mutant: a missing channel is passed over.
RadioHealthCheck_SkipsMissing ==
    ({"lora", "rebroadcast", "name 0", "psk 0", "precision 0"} \ on)
    \cup (IF "channel" \in on THEN ChannelOne ELSE {})

\* radio_health_check(): region and preset ("lora") are compared, hop limit and
\* gain are not.
RadioHealthCheck ==
    ({"lora", "rebroadcast", "name 0", "psk 0", "precision 0"} \ on) \cup ChannelOne

\* Of the device itself, only the role that its own entry in the database shows;
\* the gateway is not in the plan.
OwnRole == IF device = "gateway" THEN {} ELSE {"role"} \ on

\* One pass; the mesh is looked at unless --no-mesh is given.
Check(noMesh) ==
    /\ pos = 0
    /\ \E position \in SUBSET {"quantized"}, mesh \in SUBSET MeshIssues :
          issues' = position \cup RadioHealthCheck
                    \cup (IF noMesh THEN {} ELSE OwnRole \cup mesh)
    /\ verdict' = IF issues' = {} THEN 0 ELSE 1
    /\ UNCHANGED vars

\* The port cannot be opened.
CheckCannotOpen ==
    /\ pos = 0
    /\ issues' = {} /\ verdict' = 2
    /\ UNCHANGED vars

Provision == Next /\ issues' = {} /\ verdict' = NoExit

CheckNext == Provision \/ (\E noMesh \in BOOLEAN : Check(noMesh)) \/ CheckCannotOpen

CheckSpec == CheckInit /\ [][CheckNext]_checkVars
-----------------------------------------------------------------------------
\* Scripts and check agree on what a device must share with the mesh: after any
\* history of runs that failed, were interrupted or failed in silence with exit
\* code 0, a device found healthy holds all of it; and a sensor or PBX node that
\* holds all its script wants is given no issue of its own.
CheckAgreesWithScripts ==
    /\ verdict = 0 => Shared \subseteq on
    /\ device # "gateway" /\ verdict = 1 /\ Wanted \subseteq on =>
           issues \subseteq MeshIssues
=============================================================================
