---------------------------- MODULE EventChannel ----------------------------
(***************************************************************************)
(* What the payment providers promise to the rest of the backend: the      *)
(* events that reach it are events the provider reported, and in the       *)
(* backend's terms they say what the provider said.  Of one that was       *)
(* changed on the way, where a signature binds only the transaction and    *)
(* its status, those two are true; where none does, a stray delivery       *)
(* brings one event at most that is untrue.                                *)
(***************************************************************************)
VARIABLES
    reported, \* what the provider has said, in our terms
    altered,  \* what of it was received changed, its transaction signed
    stray,    \* deliveries received changed, no transaction signed
    received  \* what has reached the business logic

vars == <<reported, altered, stray, received>>

SameFact(e, f) == e.tx = f.tx /\ e.status = f.status

Init == reported = {} /\ altered = {} /\ stray = {} /\ received = {}

Report  == reported \subseteq reported' /\ UNCHANGED <<altered, stray, received>>

\* A new event, or one heard before: as it was reported, changed, or untrue.
Receive ==
    /\ \E e \in received' :
          /\ received' = received \cup {e}
          /\ \/ e \in reported /\ UNCHANGED <<altered, stray>>
             \/ /\ \E f \in reported : SameFact(e, f) /\ altered' = altered \cup {f}
                /\ UNCHANGED stray
             \/ stray \subseteq stray' /\ stray # stray' /\ UNCHANGED altered
    /\ UNCHANGED reported

Spec == Init /\ [][Report \/ Receive]_vars
=============================================================================
