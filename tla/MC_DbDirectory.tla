---------------------------- MODULE MC_DbDirectory -----------------------------
EXTENDS DbDirectory

(* Three databases with a listing window of two, so the slice drops one;  *)
(* the jobs may compress or archive all of them.                           *)
RaceDbs == 3
RaceLimit == 2
RaceCompressible == 1..3

(* The commands one invocation may run.                                    *)
BothCommands == {"inventory", "analyze"}
InventoryOnly == {"inventory"}
AnalyzeOnly == {"analyze"}
=============================================================================
