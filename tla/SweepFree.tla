------------------------------ MODULE SweepFree ------------------------------
(***************************************************************************)
(* What the loss count of a flow promises: losses follow from the gaps     *)
(* between receptions alone.  There is no sweep, no provisional charge and *)
(* no thread here; a reboot only moves the anchor.  The tracker implements *)
(* this with its provisional charges set aside; a flow that lost one to a  *)
(* race or a reboot is excused from then on.                               *)
(***************************************************************************)
EXTENDS Rounding

CONSTANTS Flow,      \* the flows that may be heard
          Interval,  \* the nominal interval of each, positive
          Instants   \* the times a reception may carry, integers

VARIABLES books,   \* the account of each flow heard
          excused  \* flows the promise no longer covers

vars == <<books, excused>>

Worth(f, last, now) == RoundHalfEven(now - last, Interval[f])

NoBooks == [f \in {} |-> [last |-> 0]]
Init == books = NoBooks /\ excused = {}
Forget == books' = NoBooks /\ excused' = {}

Excuse(f) ==
    /\ f \in DOMAIN books
    /\ books' = [g \in DOMAIN books \ {f} |-> books[g]]
    /\ excused' = excused \cup {f}

Open(f, now) ==
    /\ f \notin DOMAIN books \cup excused
    /\ books' = [g \in DOMAIN books \cup {f} |->
                    IF g = f THEN [last |-> now, rx |-> 1, lost |-> 0,
                                   early |-> 0, restart |-> FALSE]
                    ELSE books[g]]

NewGrid(f, now) ==
    /\ f \in DOMAIN books /\ books[f].restart
    /\ books' = [books EXCEPT ![f].restart = FALSE, ![f].rx = @ + 1,
                              ![f].last = now]

Extra(f, now) ==
    /\ f \in DOMAIN books /\ ~books[f].restart
    /\ Worth(f, books[f].last, now) = 0
    /\ books' = [books EXCEPT ![f].early = @ + 1]

CloseGap(f, now) ==
    /\ f \in DOMAIN books /\ ~books[f].restart
    /\ Worth(f, books[f].last, now) # 0
    /\ books' = [books EXCEPT
                    ![f].rx   = @ + 1,
                    ![f].lost = @ + AtLeast(0, Worth(f, books[f].last, now) - 1),
                    ![f].last = now]

Reboot(f, now) ==
    /\ f \in DOMAIN books
    /\ books' = [books EXCEPT ![f].last = now, ![f].restart = TRUE]

Next ==
    \/ Forget
    \/ \E f \in Flow : Excuse(f)
    \/ /\ \E f \in Flow, now \in Instants :
             \/ Open(f, now)
             \/ NewGrid(f, now)
             \/ Extra(f, now)
             \/ CloseGap(f, now)
             \/ Reboot(f, now)
       /\ UNCHANGED excused

Spec == Init /\ [][Next]_vars
=============================================================================
