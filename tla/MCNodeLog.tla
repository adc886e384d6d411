------------------------------ MODULE MCNodeLog ------------------------------
(***************************************************************************)
(* Small instances of NodeLog for TLC, its liveness, and what the comments *)
(* of the collector say of it.                                             *)
(***************************************************************************)
EXTENDS NodeLog

\* The collector's loop goes on and a lost port comes back.  Nothing is assumed
\* of the node.
LoopSpec ==
    /\ Spec
    /\ WF_vars(Tick)
    /\ WF_vars(FeedLine)
    /\ WF_vars(FeedNone)
    /\ WF_vars(Opens /\ Port)

\* A packet nothing more is said about leaves the in-flight map, however quiet
\* the node becomes: idle ticks expire what no line will resolve.
ExpiredResolves ==
    \A p \in Pkt : p \in Overdue(log, clock) ~> p \notin Overdue(log, clock)

\* node_logd.py:49: "A truncated line therefore fails to match and is counted
\* as a rejection, rather than half-matching and yielding a plausible-looking
\* wrong value."  A cut line leaves what is known of transmissions alone, or says
\* what the whole line says.
CutLinesYieldNothingWrong ==
    [][ReadsLine /\ Head(console).cut =>
          \/ /\ log'.txOther = log.txOther
             /\ log'.lastTx \in {log.lastTx, Nothing}
          \/ log' = Fed(log, Head(console), clock)]_vars
=============================================================================
