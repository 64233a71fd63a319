--------------------------- MODULE MCDealPipeline ---------------------------
(* One old and one new stage, one owner who is not in the tables yet.       *)
EXTENDS DealPipeline
=============================================================================
