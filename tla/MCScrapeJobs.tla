---------------------------- MODULE MCScrapeJobs ----------------------------
(* Small instances of ScrapeJobs for TLC.                                  *)
EXTENDS ScrapeJobs

(* Every task scrapes the same product.                                    *)
MCProductOf == [t \in Tasks |-> CHOOSE p \in Products : TRUE]
=============================================================================
