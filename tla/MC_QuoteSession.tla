-------------------------- MODULE MC_QuoteSession --------------------------
(***************************************************************************)
(* Instantiation of QuoteSession for TLC.  The cfg files choose which of  *)
(* these constant definitions to use.                                      *)
(***************************************************************************)
EXTENDS QuoteSession

CONSTANTS s1, s2, Missing

(* Capture control: two symbols, both markers, every read fault, one      *)
(* price and a timestamp that may be missing.                              *)
CtlSymbols    == {s1, s2}
CtlLabels     == {"SIMULATED", "YOFX"}
CtlBids       == {1000000}
CtlAsks       == {1000020}
CtlStamps     == {0, Missing}
CtlFaults     == {"badjson", "other", "nonobject", "nosymbol", "closed"}

(* Analysis: one symbol and enough ticks (5) for every analyzer to vote   *)
(* both ways: two bids, two sub-second timestamps; the spread analyzer votes "real" whatever the asks.               *)
AnaSymbols    == {s1}
AnaLabels     == {"YOFX", "UNKNOWN"}
AnaBids       == {1000000, 1000010}
AnaAsks       == {1000020}
AnaStamps     == {0, 3}

(* The code's own capacity: 20 ticks of one symbol at one spread.          *)
FullSymbols   == {s1}
FullLabels    == {"UNKNOWN"}
FullBids      == {1000000}
FullAsks      == {1000020}
FullStamps    == {0}
NoFaults      == {}
=============================================================================
