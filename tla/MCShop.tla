------------------------------- MODULE MCShop -------------------------------
(***************************************************************************)
(* The orders of examples/rollback, for model-checking Shop with TLC.      *)
(***************************************************************************)
EXTENDS Shop

CONSTANTS paid

ThreeOrders == <<paid, declinedOrder, flakyOrder>>
=============================================================================
