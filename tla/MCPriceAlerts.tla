--------------------------- MODULE MCPriceAlerts ---------------------------
(* The two pages the runs of PriceAlerts serve.  Both of them show a price *)
(* above threshold 2; some selector reads one below it off the first.      *)
EXTENDS PriceAlerts, TLC

CONSTANTS sale, plain

MCReadings == (sale :> {1, 3}) @@ (plain :> {3})

MCSymmetry == Permutations(Workers)
=============================================================================
