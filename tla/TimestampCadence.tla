--------------------------- MODULE TimestampCadence ---------------------------
(***************************************************************************)
(* analyze_timestamps() on the float timestamps a fixed-cadence generator  *)
(* sends: tick i of a capture started at epoch second b carries            *)
(* b + i * step, rounded to the nearest double.  Near the current epoch    *)
(* (2^30 <= b < 2^31) doubles are 2^-22 s apart, so with StampsPerSecond = *)
(* 2^22 a timestamp is a whole number of ulps and b a multiple of          *)
(* StampsPerSecond; the model measures time in ulps from b.  (The error of *)
(* i * step itself is below 1e-16 s and never moves a rounding.)  The gaps *)
(* the code takes are exact differences of those doubles, and set(gaps)    *)
(* compares them bit for bit.                                               *)
(***************************************************************************)
EXTENDS TickAnalyzers

CONSTANTS
  CadencesMs,    \* cadences of the generator, in milliseconds
  MaxTicks       \* longest capture considered

(* round(i * step * UlpsPerSecond), step = ms / 1000, to the nearest ulp, *)
(* split into whole and fractional ulps-per-millisecond so that no        *)
(* intermediate value leaves TLC's 32-bit integers.                        *)
WholePart(x) == x * (StampsPerSecond \div 1000)
FracTwice(x) == 2 * x * (StampsPerSecond % 1000)

FloatStamp(i, ms) == WholePart(i * ms) + (FracTwice(i * ms) + 1000) \div 2000

ASSUME
  /\ CadencesMs \subseteq 1..999
  \* no timestamp is a rounding tie, so rounding to nearest is unambiguous
  /\ \A ms \in CadencesMs, i \in 0..MaxTicks :
       FracTwice(i * ms) % 2000 # 1000

(* A capture of n ticks of one symbol at the given cadence.                *)
CadenceCapture(n, ms) ==
  [s \in Symbols |-> [i \in 1..n |-> [timestamp |-> FloatStamp(i - 1, ms)]]]

VARIABLES cadence, ticks

vars == <<cadence, ticks>>

Init ==
  /\ cadence \in CadencesMs
  /\ ticks \in 2..MaxTicks

(* The captures are fixed; the behaviour is the analysis of one of them.  *)
Next == UNCHANGED vars

Spec == Init /\ [][Next]_vars

-----------------------------------------------------------------------------
(* The timestamp heuristic survives the float representation: whatever  *)
(* the sub-second cadence, a capture of at least 8 ticks gets "simulated" *)
(* from analyze_timestamps.  Rounding to the double grid makes the gaps   *)
(* take two values (floor and ceiling of the step in ulps), so 5 to 7     *)
(* ticks, which exact gaps would already flag, may not be.                 *)
UniformCadenceFlaggedFromEight ==
  ticks >= 8 =>
    TimestampEvidence(CadenceCapture(ticks, cadence))
      = {Ev("simulated", "timestamps", "pooled")}
=============================================================================
