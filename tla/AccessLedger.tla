---------------------------- MODULE AccessLedger ----------------------------
(***************************************************************************)
(* What buying a course promises, whatever requests, deliveries and        *)
(* crashes there are: a purchase has terms that never change; access needs *)
(* an approval, is given once per student and course and never taken back; *)
(* the provider's approval is acknowledged, and the student told, only     *)
(* when the access is there.                                               *)
(***************************************************************************)
CONSTANTS Purchases, Terms, None

VARIABLES
    terms,    \* per purchase: student, course and price, once it is made
    approved, \* the purchases whose payment the provider has approved
    granted,  \* those that give access
    settled,  \* those whose approval we have acknowledged to the provider
    told      \* those whose access we have confirmed to the student

vars == <<terms, approved, granted, settled, told>>

Init == /\ terms = [p \in Purchases |-> None]
        /\ approved = {} /\ granted = {} /\ settled = {} /\ told = {}

SameAccess(p, q) == /\ terms[p].user = terms[q].user
                    /\ terms[p].course = terms[q].course

Open(p, t) == /\ terms[p] = None
              /\ terms' = [terms EXCEPT ![p] = t]
              /\ UNCHANGED <<approved, granted, settled, told>>

Approve(p) == /\ terms[p] # None
              /\ approved' = approved \cup {p}
              /\ UNCHANGED <<terms, granted, settled, told>>

Grant(p) == /\ p \in approved
            /\ \A q \in granted : ~SameAccess(p, q)
            /\ granted' = granted \cup {p}
            /\ UNCHANGED <<terms, approved, settled, told>>

Settle(p) == /\ p \in approved \cap granted
             /\ settled' = settled \cup {p}
             /\ UNCHANGED <<terms, approved, granted, told>>

Tell(p) == /\ p \in granted
           /\ told' = told \cup {p}
           /\ UNCHANGED <<terms, approved, granted, settled>>

Next == \E p \in Purchases :
            \/ \E t \in Terms : Open(p, t)
            \/ Approve(p) \/ Grant(p) \/ Settle(p) \/ Tell(p)

Spec == Init /\ [][Next]_vars
=============================================================================
