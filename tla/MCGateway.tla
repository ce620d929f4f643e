----------------------------- MODULE MCGateway -----------------------------
(* Gateway for TLC: two prices whose cents, with the timestamps after them, *)
(* can read alike up to where the one ends and the other begins; statuses   *)
(* known and new to the code; lists that name less or something else.       *)
EXTENDS Gateway

MCPrices == {[coef |-> 15, exp |-> 1], [coef |-> 1503, exp |-> 2]}
MCTimestamps == {7, 37}
MCPropertyLists == {WompiSigned, OtherSigned, <<"id", "status", "reference">>}

Written ==
    [n \in Numbers |->
        LET length == CHOOSE k \in 1 .. 4 : n < 10 ^ k /\ \A j \in 1 .. k - 1 : n >= 10 ^ j
        IN  [i \in 1 .. length |->
                <<"0", "1", "2", "3", "4", "5", "6", "7", "8", "9">>
                    [((n \div 10 ^ (length - i)) % 10) + 1]]]
MCDigits(n) == Written[n]
=============================================================================
