-------------------------- MODULE InterceptorPromise --------------------------
(***************************************************************************)
(* What lnd and the caller see of one call of InterceptHtlcs or of         *)
(* HtlcModifier, without its channels and goroutines: while the call runs  *)
(* every request gets a handler of its own, in lnd's order and none        *)
(* skipped; a handler answers once or fails; and the call returns for a    *)
(* reason that is a true one.  HtlcInterceptor implements this.            *)
(***************************************************************************)
EXTENDS Naturals, Sequences

CONSTANTS
    Htlcs       \* the HTLCs lnd may ask about

VARIABLES
    strict,     \* InterceptHtlcs: it validates requests and responses
    waiting,    \* the requests that have no handler yet, in lnd's order
    malformed,  \* those that do not parse
    handler,    \* of each HTLC: none, runs, answered, or why it failed
    answers,    \* how many answers lnd got for each HTLC
    cancelled,  \* the caller has cancelled its context
    lost,       \* lnd has ended the stream, or the connection is closed
    closing,    \* the client shuts down
    result      \* why the call has returned; "none" before

vars == <<strict, waiting, malformed, handler, answers, cancelled, lost, closing, result>>

Init ==
    /\ strict \in BOOLEAN
    /\ waiting = <<>> /\ malformed = {}
    /\ handler = [h \in Htlcs |-> "none"]
    /\ answers = [h \in Htlcs |-> 0]
    /\ cancelled = FALSE /\ lost = FALSE /\ closing = FALSE
    /\ result = "none"

Running == result = "none"

Ask(h) ==
    /\ Running /\ ~cancelled /\ ~lost
    /\ handler[h] = "none" /\ \A i \in DOMAIN waiting : waiting[i] # h
    /\ waiting' = Append(waiting, h)
    /\ \/ UNCHANGED malformed
       \/ strict /\ malformed' = malformed \cup {h}
    /\ UNCHANGED <<strict, handler, answers, cancelled, lost, closing, result>>

\* The next request gets its handler.  One that does not parse never does, and no
\* request passes it.
Start ==
    /\ Running
    /\ waiting # <<>> /\ Head(waiting) \notin malformed
    /\ waiting' = Tail(waiting)
    /\ handler' = [handler EXCEPT ![Head(waiting)] = "runs"]
    /\ UNCHANGED <<strict, malformed, answers, cancelled, lost, closing, result>>

\* The handler of HtlcModifier names the HTLC that it answers for.
Answer(h) ==
    /\ handler[h] = "runs"
    /\ handler' = [handler EXCEPT ![h] = "answered"]
    /\ \E key \in IF strict THEN {h} ELSE Htlcs :
          answers' = [answers EXCEPT ![key] = @ + 1]
    /\ UNCHANGED <<strict, waiting, malformed, cancelled, lost, closing, result>>

\* The caller's function fails, its response is refused, or the stream has ended.
Fail(h, why) ==
    /\ handler[h] = "runs"
    /\ \/ why = "handler"
       \/ why = "response" /\ strict
       \/ why = "stream" /\ (lost \/ cancelled \/ ~Running)
    /\ handler' = [handler EXCEPT ![h] = why]
    /\ UNCHANGED <<strict, waiting, malformed, answers, cancelled, lost, closing, result>>

Return(why) ==
    /\ Running
    /\ \/ why = "open" /\ waiting = <<>> /\ \A h \in Htlcs : handler[h] = "none"
       \/ why = "ctx" /\ cancelled
       \/ why = "quit" /\ closing
       \/ why = "stream" /\ (lost \/ cancelled)
       \/ why = "request" /\ waiting # <<>> /\ Head(waiting) \in malformed
       \/ why \in {"handler", "response"} /\ \E h \in Htlcs : handler[h] = why
    /\ result' = why
    /\ UNCHANGED <<strict, waiting, malformed, handler, answers, cancelled, lost, closing>>

Cancel ==
    /\ cancelled' = TRUE
    /\ UNCHANGED <<strict, waiting, malformed, handler, answers, lost, closing, result>>

Lose ==
    /\ lost' = TRUE
    /\ UNCHANGED <<strict, waiting, malformed, handler, answers, cancelled, closing, result>>

Close ==
    /\ closing' = TRUE
    /\ UNCHANGED <<strict, waiting, malformed, handler, answers, cancelled, lost, result>>

Reasons == {"open", "ctx", "quit", "stream", "request", "handler", "response"}

Next ==
    \/ Start
    \/ \E h \in Htlcs : Ask(h) \/ Answer(h) \/ \E why \in Reasons : Fail(h, why)
    \/ \E why \in Reasons : Return(why)
    \/ Cancel \/ Lose \/ Close

Spec == Init /\ [][Next]_vars

=============================================================================
