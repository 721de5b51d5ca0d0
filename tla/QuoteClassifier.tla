--------------------------- MODULE QuoteClassifier ---------------------------
(***************************************************************************)
(* What one classification session promises, whatever the order of its    *)
(* reads and analyzers: while it captures, each symbol's buffer only grows *)
(* by appending a tick, up to CAPTURE_COUNT; the session then ends either  *)
(* without a verdict (a failure or an interrupt) or with exit status 0 and *)
(* the verdict of the rule list over the evidence of the four analyzers,   *)
(* all computed from the buffers as they are at that moment.               *)
(*                                                                         *)
(* QuoteSession implements this specification under the mapping given in   *)
(* that module (ClassifierSpec): its capture, drain and analyzer steps are *)
(* Keep steps or stuttering steps here, and its last step is Decide or     *)
(* Abort.                                                                  *)
(***************************************************************************)
EXTENDS TickAnalyzers

CONSTANTS
  CAPTURE_COUNT,    \* ticks kept per symbol
  Ticks             \* the ticks the feed may send

VARIABLES status, kept, verdict, exitCode

vars == <<status, kept, verdict, exitCode>>

(* All evidence of one session: the four analyzers over one snapshot.     *)
Evidence(buf) ==
  LpEvidence(buf) \cup PriceEvidence(buf) \cup TimestampEvidence(buf)
  \cup SpreadEvidence(buf)

Init ==
  /\ status = "capturing"
  /\ kept = [s \in Symbols |-> << >>]
  /\ verdict = "none"
  /\ exitCode = -1

(* The buffer of t's symbol, with t appended if it is not full.          *)
Kept(buf, t) ==
  IF Len(buf[t.symbol]) < CAPTURE_COUNT
    THEN [buf EXCEPT ![t.symbol] = Append(@, t)] ELSE buf

Keep(t) ==
  /\ status = "capturing"
  /\ Len(kept[t.symbol]) < CAPTURE_COUNT
  /\ kept' = Kept(kept, t)
  /\ UNCHANGED <<status, verdict, exitCode>>

(* A connection error, an empty capture, an uncaught exception (status 1) *)
(* or the user's interrupt (status 0): no verdict.  The step that fails   *)
(* may be the one that kept a tick.                                        *)
Abort(code) ==
  /\ status = "capturing"
  /\ status' = "done"
  /\ exitCode' = code
  /\ kept' \in {kept} \cup {Kept(kept, t) : t \in Ticks}
  /\ UNCHANGED verdict

(* A verdict needs a non-empty capture whose ticks all carry a timestamp. *)
Decide ==
  /\ status = "capturing"
  /\ SeenSymbols(kept) # {}
  /\ ~StampMissing(kept)
  /\ verdict' = Verdict(LpLabels(kept), Evidence(kept))
  /\ exitCode' = 0
  /\ status' = "done"
  /\ UNCHANGED kept

Next ==
  \/ \E t \in Ticks : Keep(t)
  \/ \E code \in {0, 1} : Abort(code)
  \/ Decide

Spec == Init /\ [][Next]_vars
=============================================================================
