---------------------------- MODULE MCStorefront ----------------------------
(* Storefront for TLC: a curso that revision 0002 reprices, a taller that it *)
(* does not, and the sample course; an administrator who sets the old price. *)
EXTENDS Storefront, TLC

CONSTANTS curso, taller, sample

MCPriceList == <<curso>>
MCOldPrice  == (curso :> 25) @@ (taller :> 30) @@ (sample :> 20)
MCNewPrice  == (curso :> 15) @@ (taller :> 30) @@ (sample :> 20)
MCTitleRank == (curso :> 1) @@ (taller :> 2) @@ (sample :> 3)

=============================================================================
