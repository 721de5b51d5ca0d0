---------------------------- MODULE QuoteSession ----------------------------
(***************************************************************************)
(* One run of src/test_ws_analysis.py: connect, the capture loop of        *)
(* capture_and_analyze() with its overall deadline and 5 s read timeout,   *)
(* the check for an empty capture, the four analyzers in the order the     *)
(* code calls them, the verdict, and the exits (sys.exit(1) on a connection *)
(* error or empty capture, exit 0 on KeyboardInterrupt).                   *)
(*                                                                         *)
(* The feed is the environment: each read either times out or returns one  *)
(* message after d seconds, 0 <= d <= READ_TIMEOUT.  Time is the elapsed   *)
(* whole seconds since the loop started (the code's `start`).              *)
(***************************************************************************)
EXTENDS TickAnalyzers

CONSTANTS
  CAPTURE_COUNT,    \* ticks kept per symbol (20 in the code)
  TIMEOUT,          \* overall capture deadline in seconds (30)
  READ_TIMEOUT,     \* asyncio.wait_for timeout of one recv (5.0)
  Bids, Asks,       \* prices the feed may send, in units of 1e-7
  TickStamps,       \* timestamps the feed may send (may include NoStamp)
  Faults,           \* the kinds of non-tick read outcomes the feed produces
  MaxMessages       \* bound on the number of messages the feed sends

(* Read outcomes other than a tick: invalid JSON, a JSON object whose type *)
(* is not "tick", JSON that is not an object, a tick without "symbol", and *)
(* the connection closing (recv raising ConnectionClosed).                 *)
FaultKinds == {"badjson", "other", "nonobject", "nosymbol", "closed"}

ASSUME
  /\ CAPTURE_COUNT \in Nat \ {0}
  /\ TIMEOUT \in Nat /\ READ_TIMEOUT \in Nat \ {0}
  /\ MaxMessages \in Nat
  /\ Faults \subseteq FaultKinds
  /\ TickStamps \subseteq Nat \cup {NoStamp}
  \* no price difference is a tie for round(x, 6)
  /\ \A a, b \in Bids \cup Asks : (a - b) % 10 # 5

(* The literal of `if total_tick_count <= 5` (the log of the first ticks). *)
LOG_LIMIT == 5

(* The elapsed time can never pass this value; only a broken deadline     *)
(* check lets it reach it.                                                 *)
NowCap == TIMEOUT + READ_TIMEOUT + 1

Tick == [symbol : Symbols, lp : Labels, bid : Bids, ask : Asks,
         timestamp : TickStamps]

Message == [kind : {"tick"}, tick : Tick] \cup [kind : Faults]

NoVerdict == "none"
NoExit    == -1

VARIABLES
  pc,          \* where the single task is
  now,         \* seconds elapsed since `start`
  msgs,        \* messages received so far (bounded by MaxMessages)
  total,       \* total_tick_count
  symbols,     \* analysis['symbols']
  captured,    \* captured_ticks: symbol -> kept ticks, arrival order
  lpSources,   \* analysis['lp_sources']
  evidence,    \* analysis['evidence']
  verdict,     \* the verdict printed by generate_verdict
  exitCode,    \* the process exit status once pc = "done"
  error,       \* the exception that ended the process with status 1
  received     \* history: every tick received per symbol, kept or dropped

vars == <<pc, now, msgs, total, symbols, captured, lpSources, evidence,
          verdict, exitCode, error, received>>

captureVars  == <<now, msgs, total, symbols, captured, received>>
analysisVars == <<lpSources, evidence, verdict>>

Phases == {"connect", "loop", "recv", "drained", "lp", "price",
           "timestamps", "spread", "verdict", "done"}

Init ==
  /\ pc = "connect"
  /\ now = 0
  /\ msgs = 0
  /\ total = 0
  /\ symbols = {}
  /\ captured = [s \in Symbols |-> << >>]
  /\ lpSources = {}
  /\ evidence = {}
  /\ verdict = NoVerdict
  /\ exitCode = NoExit
  /\ error = "none"
  /\ received = [s \in Symbols |-> << >>]

(* An exception that ends the process with sys.exit(1) or a traceback.    *)
Fail(e) ==
  /\ pc' = "done"
  /\ exitCode' = 1
  /\ error' = e

Advance(d) == now' = IF now + d < NowCap THEN now + d ELSE NowCap

(***************************************************************************)
(* websockets.connect succeeds or raises.                                  *)
(***************************************************************************)
ConnectOk ==
  /\ pc = "connect"
  /\ pc' = "loop"
  /\ UNCHANGED <<captureVars, analysisVars, exitCode, error>>

ConnectFail ==
  /\ pc = "connect"
  /\ Fail("connect")
  /\ UNCHANGED <<captureVars, analysisVars>>

(***************************************************************************)
(* Top of the while loop: leave it once more than TIMEOUT seconds passed. *)
(***************************************************************************)
(* Mutant: the deadline check left out of the loop.                        *)
LoopTopNoDeadline ==
  /\ pc = "loop"
  /\ pc' = "recv"
  /\ UNCHANGED <<captureVars, analysisVars, exitCode, error>>

LoopTop ==
  /\ pc = "loop"
  /\ pc' = IF now > TIMEOUT THEN "drained" ELSE "recv"
  /\ UNCHANGED <<captureVars, analysisVars, exitCode, error>>

(***************************************************************************)
(* wait_for(recv(), 5.0) raises TimeoutError: `continue`.                  *)
(***************************************************************************)
(* Mutant: the timeout swallowed without the clock moving on, as if the   *)
(* deadline were measured from the last read.                             *)
ReadTimeoutNoAdvance ==
  /\ pc = "recv"
  /\ pc' = "loop"
  /\ UNCHANGED <<now, msgs, total, symbols, captured, received, analysisVars,
                 exitCode, error>>

ReadTimeout ==
  /\ pc = "recv"
  /\ Advance(READ_TIMEOUT)
  /\ pc' = "loop"
  /\ UNCHANGED <<msgs, total, symbols, captured, received, analysisVars,
                 exitCode, error>>

(* symbols_with_enough >= min(3, len(symbols)) and total >= CAPTURE_COUNT *)
Enough(buf, syms, n) ==
  /\ Cardinality({s \in Symbols : Len(buf[s]) >= CAPTURE_COUNT})
       >= Min({3, Cardinality(syms)})
  /\ n >= CAPTURE_COUNT

(***************************************************************************)
(* A message of type "tick": count it, record its symbol, keep it if the  *)
(* symbol's buffer is not full, log it if among the first LOG_LIMIT (which *)
(* formats its timestamp: KeyError when it has none), then break if       *)
(* enough was captured.                                                     *)
(***************************************************************************)
(* Mutant: the capacity test written `<=`, one tick too many kept.        *)
OnTickOffByOne(t) ==
  LET s     == t.symbol
      buf   == IF Len(captured[s]) <= CAPTURE_COUNT
                 THEN [captured EXCEPT ![s] = Append(@, t)]
                 ELSE captured
      syms  == symbols \cup {s}
      count == total + 1
  IN  /\ total' = count
      /\ symbols' = syms
      /\ captured' = buf
      /\ received' = [received EXCEPT ![s] = Append(@, t)]
      /\ IF count <= LOG_LIMIT /\ t.timestamp = NoStamp
           THEN Fail("logging")
           ELSE /\ pc' = IF Enough(buf, syms, count) THEN "drained" ELSE "loop"
                /\ UNCHANGED <<exitCode, error>>

OnTick(t) ==
  LET s     == t.symbol
      buf   == IF Len(captured[s]) < CAPTURE_COUNT
                 THEN [captured EXCEPT ![s] = Append(@, t)]
                 ELSE captured
      syms  == symbols \cup {s}
      count == total + 1
  IN  /\ total' = count
      /\ symbols' = syms
      /\ captured' = buf
      /\ received' = [received EXCEPT ![s] = Append(@, t)]
      /\ IF count <= LOG_LIMIT /\ t.timestamp = NoStamp
           THEN Fail("logging")
           ELSE /\ pc' = IF Enough(buf, syms, count) THEN "drained" ELSE "loop"
                /\ UNCHANGED <<exitCode, error>>

(***************************************************************************)
(* recv() returns message m after d seconds.  Invalid JSON is skipped and  *)
(* other types are ignored; anything else that raises ends in the outer    *)
(* `except Exception`, i.e. sys.exit(1).                                   *)
(***************************************************************************)
Receive(m, d) ==
  /\ pc = "recv"
  /\ msgs < MaxMessages
  /\ msgs' = msgs + 1
  /\ Advance(d)
  /\ \/ /\ m.kind \in {"badjson", "other"}
        /\ pc' = "loop"
        /\ UNCHANGED <<total, symbols, captured, received, exitCode, error>>
     \/ /\ m.kind \in {"nonobject", "nosymbol", "closed"}
        /\ Fail(m.kind)
        /\ UNCHANGED <<total, symbols, captured, received>>
     \/ /\ m.kind = "tick"
        /\ OnTick(m.tick)
  /\ UNCHANGED analysisVars

(***************************************************************************)
(* After the connection closes: all_ticks, and sys.exit(1) if empty.       *)
(***************************************************************************)
(* Mutant: the `if not all_ticks` exit left out.                         *)
DrainNoEmptyCheck ==
  /\ pc = "drained"
  /\ pc' = "lp"
  /\ UNCHANGED <<captureVars, analysisVars, exitCode, error>>

Drain ==
  /\ pc = "drained"
  /\ IF SeenSymbols(captured) = {}
       THEN Fail("empty")
       ELSE pc' = "lp" /\ UNCHANGED <<exitCode, error>>
  /\ UNCHANGED <<captureVars, analysisVars>>

AnalyzeLp ==
  /\ pc = "lp"
  /\ lpSources' = lpSources \cup LpLabels(captured)
  /\ evidence' = evidence \cup LpEvidence(captured)
  /\ pc' = "price"
  /\ UNCHANGED <<captureVars, verdict, exitCode, error>>

(* Mutant: analysis['evidence'] replaced instead of extended.            *)
AnalyzePricePatternsOverwrites ==
  /\ pc = "price"
  /\ evidence' = PriceEvidence(captured)
  /\ pc' = "timestamps"
  /\ UNCHANGED <<captureVars, lpSources, verdict, exitCode, error>>

AnalyzePricePatterns ==
  /\ pc = "price"
  /\ evidence' = evidence \cup PriceEvidence(captured)
  /\ pc' = "timestamps"
  /\ UNCHANGED <<captureVars, lpSources, verdict, exitCode, error>>

(* An uncaught KeyError from a tick kept without timestamp: exit 1.       *)
AnalyzeTimestamps ==
  /\ pc = "timestamps"
  /\ IF StampMissing(captured)
       THEN Fail("timestamps") /\ UNCHANGED evidence
       ELSE /\ evidence' = evidence \cup TimestampEvidence(captured)
            /\ pc' = "spread"
            /\ UNCHANGED <<exitCode, error>>
  /\ UNCHANGED <<captureVars, lpSources, verdict>>

AnalyzeSpread ==
  /\ pc = "spread"
  /\ evidence' = evidence \cup SpreadEvidence(captured)
  /\ pc' = "verdict"
  /\ UNCHANGED <<captureVars, lpSources, verdict, exitCode, error>>

GenerateVerdict ==
  /\ pc = "verdict"
  /\ verdict' = Verdict(lpSources, evidence)
  /\ pc' = "done"
  /\ exitCode' = 0
  /\ UNCHANGED <<captureVars, lpSources, evidence, error>>

(***************************************************************************)
(* KeyboardInterrupt, at any point before the process ends: exit 0.        *)
(***************************************************************************)
(* Mutant: no `except KeyboardInterrupt`; the interpreter exits with 130. *)
InterruptUncaught ==
  /\ pc # "done"
  /\ pc' = "done"
  /\ exitCode' = 130
  /\ UNCHANGED <<captureVars, analysisVars, error>>

Interrupt ==
  /\ pc # "done"
  /\ pc' = "done"
  /\ exitCode' = 0
  /\ UNCHANGED <<captureVars, analysisVars, error>>

(* The process has exited. *)
Terminated ==
  /\ pc = "done"
  /\ UNCHANGED vars

Next ==
  \/ ConnectOk \/ ConnectFail
  \/ LoopTop
  \/ ReadTimeout
  \/ \E m \in Message, d \in 0..READ_TIMEOUT : Receive(m, d)
  \/ Drain
  \/ AnalyzeLp \/ AnalyzePricePatterns \/ AnalyzeTimestamps
  \/ AnalyzeSpread \/ GenerateVerdict
  \/ Interrupt
  \/ Terminated

(***************************************************************************)
(* One task runs the session and every await is bounded by wait_for, so    *)
(* its steps are weakly fair; the feed's timing and the user's interrupt   *)
(* are not.  A read always completes (message or timeout) once started.    *)
(***************************************************************************)
SessionStep ==
  \/ ConnectOk \/ ConnectFail \/ LoopTop \/ Drain
  \/ AnalyzeLp \/ AnalyzePricePatterns \/ AnalyzeTimestamps
  \/ AnalyzeSpread \/ GenerateVerdict

ReadStep ==
  \/ ReadTimeout
  \/ \E m \in Message, d \in 0..READ_TIMEOUT : Receive(m, d)

Spec == Init /\ [][Next]_vars /\ WF_vars(SessionStep) /\ WF_vars(ReadStep)
-----------------------------------------------------------------------------
Errors == {"none", "connect", "closed", "nonobject", "nosymbol", "logging",
           "empty", "timestamps"}

TypeOK ==
  /\ pc \in Phases
  /\ now \in 0..NowCap
  /\ msgs \in 0..MaxMessages
  /\ total \in 0..MaxMessages
  /\ symbols \subseteq Symbols
  /\ captured \in [Symbols -> Seq(Tick)]
  /\ received \in [Symbols -> Seq(Tick)]
  /\ lpSources \subseteq Labels
  /\ evidence \subseteq [pol : Polarities,
                         by : {"lp", "price", "timestamps", "spread"},
                         on : Symbols \cup Labels \cup {"pooled"}]
  /\ verdict \in Verdicts \cup {NoVerdict}
  /\ exitCode \in {NoExit, 0, 1}
  /\ error \in Errors

(* Drop policy (captured_ticks, line 228): each symbol's buffer holds     *)
(* exactly the first CAPTURE_COUNT ticks received for it, in arrival      *)
(* order; later ones are dropped, never swapped in, yet still counted in  *)
(* total_tick_count and analysis['symbols'].                               *)
BufferKeepsFirstTicks ==
  /\ \A s \in Symbols :
       /\ captured[s] = SubSeq(received[s], 1,
                               Min({CAPTURE_COUNT, Len(received[s])}))
       /\ (s \in symbols) <=> Len(received[s]) > 0
  /\ total = FoldFunction(LAMBDA x, acc : Len(x) + acc, 0, received)

(* The capture loop checks the deadline only at its top and then waits up *)
(* to READ_TIMEOUT for a message, so the capture never runs longer than   *)
(* TIMEOUT + READ_TIMEOUT seconds.                                          *)
DeadlineOverrunBounded == now <= TIMEOUT + READ_TIMEOUT

(* Every session ends: a silent or useless feed is cut off by the         *)
(* deadline, whatever the feed sends.                                       *)
Termination == <>(pc = "done")

(* With at most 20 ticks kept per symbol the spread analyzer always says  *)
(* "real" and cancels the price analyzer's vote for every symbol, so a    *)
(* LIKELY_SIMULATED verdict needs the timestamp analyzer to flag the      *)
(* capture and the price analyzer to flag every symbol.                    *)
LikelySimulatedNeedsTimestampFlag ==
  verdict = "LIKELY_SIMULATED" =>
    /\ Ev("simulated", "timestamps", "pooled") \in evidence
    /\ \A s \in SeenSymbols(captured) : Ev("simulated", "price", s) \in evidence

-----------------------------------------------------------------------------
(***************************************************************************)
(* Refinement: the session implements QuoteClassifier.  The abstract       *)
(* session is capturing until the process has exited, its buffers are     *)
(* captured_ticks, and its verdict and exit status are the printed ones.   *)
(***************************************************************************)
Classifier == INSTANCE QuoteClassifier
                WITH status <- IF pc = "done" THEN "done" ELSE "capturing",
                     kept <- captured,
                     Ticks <- Tick

(* Whatever the interleaving of reads, timeouts and interrupts, the       *)
(* verdict printed is the rule list applied to all four analyzers' evidence *)
(* over the final buffers, and the buffers only ever grow by appending.    *)
ClassifierSpec == Classifier!Spec

-----------------------------------------------------------------------------
(* Properties that state what the spec says of the program; TLC finds     *)
(* them violated (see README).                                              *)

(* Spec 4.1 and 7: a message that is not a valid tick is logged and       *)
(* skipped; only a connection error or an empty capture ends the run      *)
(* with status 1.                                                           *)
MalformedMessageNeverFatal == error \in {"none", "connect", "closed", "empty"}

(* Spec 8: when the feed marks ticks "SIMULATED" anywhere, the verdict is *)
(* SIMULATED.                                                              *)
SimulatedPrecedence ==
  (/\ verdict # NoVerdict
   /\ \E s \in Symbols : \E i \in DOMAIN received[s] :
        received[s][i].lp = SIMULATED)
  => verdict = "SIMULATED"

(* Spec 4.5: a symbol whose spread is near-constant is evidence of        *)
(* simulation; a full buffer with one single spread is as constant as a   *)
(* capture can be.                                                          *)
ConstantSpreadFlagged ==
  verdict # NoVerdict =>
    \A s \in SeenSymbols(captured) :
      (/\ Len(captured[s]) = CAPTURE_COUNT
       /\ Cardinality({captured[s][i].ask - captured[s][i].bid :
                         i \in DOMAIN captured[s]}) = 1)
      => Ev("simulated", "spread", s) \in evidence
=============================================================================
