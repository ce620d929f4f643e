----------------------------- MODULE MCCommerce -----------------------------
(* Instances of Commerce for TLC: the model values of the cfgs and the      *)
(* permutations under which the safety runs are reduced.                    *)
EXTENDS Commerce, TLC

SlotSymmetry == Permutations(RequestSlots) \cup Permutations(WebhookSlots)
IdSymmetry   == Permutations(PurchaseIds) \cup Permutations(References)
                \cup Permutations(Transactions)
Symmetry     == SlotSymmetry \cup IdSymmetry
=============================================================================
