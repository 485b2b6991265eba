---------------------------- MODULE OneTimeCode ----------------------------
(***************************************************************************)
(* What verification codes promise, with no requests, locks or clock in    *)
(* sight: an account becomes verified only by using up a code that is      *)
(* live, and no code survives MaxAttempts wrong guesses.                   *)
(***************************************************************************)
EXTENDS Naturals

CONSTANTS Ids, MaxAttempts

VARIABLES
    issued,     \* codes ever created
    live,       \* those neither used nor invalidated
    wrong,      \* wrong guesses compared with each
    verified    \* is the address?

vars == <<issued, live, wrong, verified>>

Init ==
    /\ issued = {} /\ live = {}
    /\ wrong = [i \in Ids |-> 0]
    /\ verified = FALSE

(* A new code, and with it older ones may stop to count.                   *)
Issue(i, old) ==
    /\ i \in Ids \ issued
    /\ issued' = issued \cup {i}
    /\ live' = (live \ old) \cup {i}
    /\ UNCHANGED <<wrong, verified>>

Invalidate(old) ==
    /\ live' = live \ old
    /\ UNCHANGED <<issued, wrong, verified>>

WrongGuess(i) ==
    /\ i \in live /\ wrong[i] < MaxAttempts
    /\ wrong' = [wrong EXCEPT ![i] = @ + 1]
    /\ UNCHANGED <<issued, live, verified>>

Use(i) ==
    /\ i \in live /\ wrong[i] < MaxAttempts
    /\ live' = live \ {i}
    /\ verified' = TRUE
    /\ UNCHANGED <<issued, wrong>>

Next ==
    \/ \E old \in SUBSET live : Invalidate(old) \/ \E i \in Ids : Issue(i, old)
    \/ \E i \in Ids : WrongGuess(i) \/ Use(i)

Spec == Init /\ [][Next]_vars
=============================================================================
