---------------------------- MODULE ConsoleReader ----------------------------
(***************************************************************************)
(* ConsoleReader of src/pbx/collector/serial_lines.py: a serial console    *)
(* read line by line and reopened on failure.  What the device prints      *)
(* while the port is closed is lost, and a line can arrive cut.            *)
(***************************************************************************)
EXTENDS Sequences, Integers

CONSTANTS MaxFailures, \* bound on failures of the port
          MaxCuts,     \* bound on lines that arrive cut
          Backlog      \* bound on the lines printed and not read yet

ASSUME ReaderAssumption ==
    MaxFailures \in Nat /\ MaxCuts \in Nat /\ Backlog \in Nat \ {0}

VARIABLES port,        \* "open" or "closed": whether _ser is set
          console,     \* lines printed and not read yet
          failures, cuts,
          missed       \* history: some line was lost or cut

reader == <<port, console, failures, cuts, missed>>

ReaderTypeOK == /\ port \in {"open", "closed"}
                /\ port = "closed" => console = <<>>
                /\ Len(console) <= Backlog

ReaderInit ==
    /\ port = "closed" /\ console = <<>>
    /\ failures = 0 /\ cuts = 0 /\ missed = FALSE

\* One turn of iter_lines(): the port is opened, with its input discarded, or
\* could not be; a read fails; a line is read; or a read timed out.  Only the
\* last two yield to the parser.
Opens ==
    /\ port = "closed"
    /\ port' = "open"
    /\ UNCHANGED <<console, failures, cuts, missed>>

OpenFails == port = "closed" /\ UNCHANGED reader

ReadFails ==
    /\ port = "open"
    /\ failures < MaxFailures
    /\ failures' = failures + 1
    /\ port' = "closed"
    /\ console' = <<>>
    /\ missed' = (missed \/ console # <<>>)
    /\ UNCHANGED cuts

ReadsLine ==
    /\ port = "open"
    /\ console # <<>>
    /\ console' = Tail(console)
    /\ UNCHANGED <<port, failures, cuts, missed>>

IdleTick == port = "open" /\ console = <<>> /\ UNCHANGED reader

\* The device prints lines: they are queued, or lost while the port is closed.
Prints(lines) ==
    IF port = "closed"
    THEN missed' = TRUE /\ UNCHANGED <<port, console, failures, cuts>>
    ELSE /\ Len(console) + Len(lines) <= Backlog
         /\ console' = console \o lines
         /\ UNCHANGED <<port, failures, cuts, missed>>

\* A queued line loses its end: an overrun, or a read that timed out in it.
Cut ==
    /\ cuts < MaxCuts
    /\ cuts' = cuts + 1
    /\ \E i \in DOMAIN console :
          /\ ~console[i].cut
          /\ console' = [console EXCEPT ![i].cut = TRUE]
    /\ missed' = TRUE
    /\ UNCHANGED <<port, failures>>
=============================================================================
