------------------------- MODULE MC_TimestampCadence -------------------------
EXTENDS TimestampCadence

(* Every whole-millisecond cadence below one second.                       *)
AllCadences == 1..999
=============================================================================
