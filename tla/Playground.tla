------------------------------ MODULE Playground ------------------------------
(***************************************************************************)
(* The playground proxy of one workspace and one provider: the budget      *)
(* check, the circuit breaker around the provider, the stream and the log  *)
(* entry that charges the workspace.                                       *)
(*                                                                         *)
(* A completion costs 1, whether the provider is asked for a whole answer  *)
(* or for a stream; `bill' counts what the provider did for a request.     *)
(* The spend of the month is what the logs table holds.  Entries that      *)
(* clients post themselves are left out: they only use the budget up.      *)
(***************************************************************************)
EXTENDS Naturals, FiniteSets

CONSTANTS
    Requests,  \* POST /v1/playground/chat, /completion or /chat/stream, each sent once
    Budget     \* workspace_budget or the default

ASSUME PlaygroundAssumption == IsFiniteSet(Requests) /\ Budget \in Nat \ {0}

VARIABLES
    kind,
    pc,
    status,    \* the answer
    bill,      \* completions the provider has made for the request
    running,   \* requests whose provider call still runs, waited for or not
    metrics,   \* streams whose metrics chunk has passed
    logged,    \* requests with an entry in the logs table
    breaker,   \* opossum's state
    trial,     \* half-open, and the one call that it lets through has not come yet
    peak       \* history: the most requests that were ever between check and end

vars == <<kind, pc, status, bill, running, metrics, logged, breaker, trial, peak>>
gate == <<breaker, trial>>

TypeOK ==
    /\ kind \in [Requests -> {"chat", "stream"}]
    /\ pc \in [Requests -> {"idle", "fire", "calling", "stream", "log", "done"}]
    /\ status \in [Requests -> {"none", "ok", "refused", "failed"}]
    /\ bill \in [Requests -> 0..2]
    /\ running \in SUBSET Requests /\ metrics \in SUBSET Requests /\ logged \in SUBSET Requests
    /\ breaker \in {"closed", "open", "half"} /\ trial \in BOOLEAN
    /\ peak \in Nat

Init ==
    /\ kind \in [Requests -> {"chat", "stream"}]
    /\ pc = [r \in Requests |-> "idle"]
    /\ status = [r \in Requests |-> "none"]
    /\ bill = [r \in Requests |-> 0]
    /\ running = {} /\ metrics = {} /\ logged = {}
    /\ breaker = "closed" /\ trial = FALSE
    /\ peak = 0

Goto(r, step) == pc' = [pc EXCEPT ![r] = step]
End(r, answer) == Goto(r, "done") /\ status' = [status EXCEPT ![r] = answer]
Bill(r) == bill' = [bill EXCEPT ![r] = @ + 1]

\* Requests that passed the budget check and are not at their end.
InFlight == {r \in Requests : pc[r] \notin {"idle", "done"}}
Spend == Cardinality(logged)

-----------------------------------------------------------------------------
\* Mutant: the budget is exceeded only when the spend is above it.
OverBudgetOffByOne == Spend > Budget
OverBudget == Spend >= Budget

\* checkBudget reads the spend; nothing is reserved for the request that passes.
CheckBudget(r) ==
    /\ pc[r] = "idle"
    /\ IF OverBudget
       THEN End(r, "refused") /\ UNCHANGED peak
       ELSE /\ Goto(r, "fire")
            /\ LET n == Cardinality(InFlight \union {r}) IN peak' = IF n > peak THEN n ELSE peak
            /\ UNCHANGED status
    /\ UNCHANGED <<kind, bill, running, metrics, logged, gate>>

\* A failing query, an unknown provider, a template variable that is missing.
Unusable(r) ==
    /\ pc[r] \in {"idle", "fire"}
    /\ End(r, "failed")
    /\ UNCHANGED <<kind, bill, running, metrics, logged, gate, peak>>

\* What follows when the breaker or the call behind it fails: an error for a
\* completion, a direct stream past the breaker for a stream.
GiveUp(r) == IF kind[r] = "stream" THEN Goto(r, "stream") /\ UNCHANGED status ELSE End(r, "failed")

LetsThrough == breaker = "closed" \/ (breaker = "half" /\ trial)

\* breaker.fire: a stream makes a whole completion first, to test the connection.
Fire(r) ==
    /\ pc[r] = "fire"
    /\ IF LetsThrough
       THEN Goto(r, "calling") /\ running' = running \union {r} /\ trial' = FALSE /\ UNCHANGED status
       ELSE GiveUp(r) /\ UNCHANGED <<running, trial>>
    /\ UNCHANGED <<kind, bill, metrics, logged, breaker, peak>>

\* A failure opens the breaker when it was the trial or when it makes the error rate of
\* the last seconds pass 50 % of at least 5 calls (a choice here).
CountFailure ==
    IF breaker = "half" THEN breaker' = "open" /\ trial' = FALSE
    ELSE breaker' \in {breaker, "open"} /\ UNCHANGED trial

CountSuccess == IF breaker = "half" THEN breaker' = "closed" /\ trial' = FALSE ELSE UNCHANGED gate

\* The provider completes within the breaker's timeout.
Answered(r) ==
    /\ pc[r] = "calling"
    /\ running' = running \ {r} /\ Bill(r)
    /\ Goto(r, IF kind[r] = "stream" THEN "stream" ELSE "log")
    /\ CountSuccess
    /\ UNCHANGED <<kind, status, metrics, logged, peak>>

CallFails(r) ==
    /\ pc[r] = "calling"
    /\ running' = running \ {r}
    /\ GiveUp(r)
    /\ CountFailure
    /\ UNCHANGED <<kind, bill, metrics, logged, peak>>

\* Mutant: only streams time out.
TimesOutStreamOnly(r) ==
    /\ pc[r] = "calling" /\ kind[r] = "stream"
    /\ GiveUp(r)
    /\ CountFailure
    /\ UNCHANGED <<kind, bill, running, metrics, logged, peak>>

\* After 60 s the breaker gives up; the call it started is not aborted.
TimesOut(r) ==
    /\ pc[r] = "calling"
    /\ GiveUp(r)
    /\ CountFailure
    /\ UNCHANGED <<kind, bill, running, metrics, logged, peak>>

\* A call nobody waits for ends, completed and billed or not.
LateAnswer(r) ==
    /\ r \in running /\ pc[r] # "calling"
    /\ running' = running \ {r}
    /\ Bill(r) \/ UNCHANGED bill
    /\ UNCHANGED <<kind, pc, status, metrics, logged, gate, peak>>

ResetTimeout ==
    /\ breaker = "open"
    /\ breaker' = "half" /\ trial' = TRUE
    /\ UNCHANGED <<kind, pc, status, bill, running, metrics, logged, peak>>

\* Mutant: the answer is sent although the entry was not written.
LogSkipped(r) ==
    /\ pc[r] = "log"
    /\ End(r, "ok")
    /\ UNCHANGED <<kind, bill, running, metrics, logged, gate, peak>>

\* createLog; its failure is the request's.
Log(r) ==
    /\ pc[r] = "log"
    /\ \/ logged' = logged \union {r} /\ End(r, "ok")
       \/ End(r, "failed") /\ UNCHANGED logged
    /\ UNCHANGED <<kind, bill, running, metrics, gate, peak>>

\* The provider's last chunk but one: the stream is complete and its usage known.
StreamMetrics(r) ==
    /\ pc[r] = "stream" /\ r \notin metrics
    /\ metrics' = metrics \union {r} /\ Bill(r)
    /\ UNCHANGED <<kind, pc, status, running, logged, gate, peak>>

\* The last chunk, `done'.  The controller stops at it, which ends the service's
\* generator at its yield: the createLog after the generator's loop is not reached.
StreamDone(r) ==
    /\ pc[r] = "stream" /\ r \in metrics
    /\ End(r, "ok")
    /\ UNCHANGED <<kind, bill, running, metrics, logged, gate, peak>>

\* An `error' chunk, the deadline of 10 minutes, or a client that has gone.
StreamBreaks(r) ==
    /\ pc[r] = "stream"
    /\ End(r, "failed")
    /\ UNCHANGED <<kind, bill, running, metrics, logged, gate, peak>>

Next ==
    \/ ResetTimeout
    \/ \E r \in Requests :
          \/ CheckBudget(r) \/ Unusable(r) \/ Fire(r) \/ Answered(r) \/ CallFails(r) \/ TimesOut(r)
          \/ LateAnswer(r) \/ Log(r) \/ StreamMetrics(r) \/ StreamDone(r) \/ StreamBreaks(r)

Spec == Init /\ [][Next]_vars

\* The database answers and the timers of the breaker fire; the provider need not answer,
\* and a stream may stall: its deadline is looked at when a chunk arrives.
FairSpec ==
    /\ Spec
    /\ WF_vars(ResetTimeout)
    /\ \A r \in Requests : WF_vars(Fire(r)) /\ WF_vars(TimesOut(r)) /\ WF_vars(Log(r))

-----------------------------------------------------------------------------
(* Properties.                                                             *)

\* The check reserves nothing, so requests that pass it together overspend together: the
\* spend passes the budget by less than the number of requests that were ever in flight
\* at once, and with one at a time it never does.
OverspendIsBounded == Spend < Budget + peak

\* Only what the provider has completed is charged, and a completion that was answered
\* has been charged.
ChargedAsAnswered ==
    /\ \A r \in logged : bill[r] > 0
    /\ \A r \in Requests : kind[r] = "chat" /\ status[r] = "ok" => r \in logged

\* A completion that passed the budget check is answered although the provider may hang.
CompletionsEnd == \A r \in Requests : kind[r] = "chat" /\ pc[r] = "fire" ~> pc[r] = "done"

\* "After the stream completes, the `metrics' chunk is logged via LogService"
\* (docs/architecture.md): a stream that ran to its end is in the logs table.
CompletedStreamIsLogged ==
    \A r \in Requests : kind[r] = "stream" /\ status[r] = "ok" => r \in logged
=============================================================================
