--------------------------- MODULE HtlcInterceptor ---------------------------
(***************************************************************************)
(* One call of routerClient.InterceptHtlcs, or of its twin                 *)
(* invoicesClient.HtlcModifier, against the shutdown of its client.        *)
(*                                                                         *)
(* The call runs a receiver goroutine that turns lnd's stream of requests  *)
(* into sends on the unbuffered requestChan, a main loop (the caller's own *)
(* goroutine) that starts one handler goroutine per request, and the       *)
(* handlers, which answer lnd on the same stream.  All of them report      *)
(* errors with sendErr into a channel with room for one.                   *)
(***************************************************************************)
EXTENDS Naturals, Sequences, FiniteSets

CONSTANTS
    Htlcs,      \* the HTLCs lnd may ask about
    None,       \* no request
    Receiver    \* the name of the receiver goroutine

\* Where the two methods differ: InterceptHtlcs rejects a request without a
\* valid hash and circuit key, validates the handler's response, and takes the
\* circuit key of the answer from the request.
InterceptHtlcs == [checks |-> TRUE, keyFrom |-> "request"]
HtlcModifier == [checks |-> FALSE, keyFrom |-> "response"]

ASSUME HtlcsAssumption == IsFiniteSet(Htlcs)
ASSUME NamesAssumption == None \notin Htlcs /\ Receiver \notin Htlcs

ErrorKinds ==
    {"open", "stream", "request", "handler", "response", "quit", "ctx"}

VARIABLES
    method,     \* the method called
    malformed,  \* the requests that do not parse
    asked,      \* the HTLCs lnd has sent a request for
    inbox,      \* the requests in the stream's local buffer
    lndFailed,  \* lnd has ended the stream with an error
    answers,    \* how many answers lnd got for each HTLC
    connOpen,   \* the gRPC connection
    parent,     \* the caller has cancelled its context
    child,      \* the deferred cancel of the child context has run
    quit,       \* the quit channel is closed
    mpc, mreq,  \* main loop: where it is, the request it took
    result,     \* what the call returned
    rpc, rreq,  \* receiver: where it is, the request it offers
    hpc,        \* where the handler of each HTLC is
    pend,       \* the error a goroutine is to report
    errBuf,     \* errChan's buffer
    failures,   \* history: the kinds of error that have occurred
    wg,         \* the client's wait group
    waiter,     \* WaitForFinished: idle, waiting, returned
    late        \* history: goroutines started after WaitForFinished returned

Traits == IF method = "InterceptHtlcs" THEN InterceptHtlcs ELSE HtlcModifier

lndVars  == <<method, malformed, asked, inbox, lndFailed, connOpen>>
mainVars == <<mpc, mreq, result, child>>
recvVars == <<rpc, rreq>>
errVars  == <<pend, errBuf, failures>>
waitVars == <<wg, waiter, quit, late>>
vars == <<lndVars, answers, parent, mainVars, recvVars, hpc, errVars, waitVars>>

Goroutines == Htlcs \cup {Receiver}

CtxDone == parent \/ child

Init ==
    /\ method \in {"InterceptHtlcs", "HtlcModifier"}
    /\ malformed = {}
    /\ asked = {} /\ inbox = <<>> /\ lndFailed = FALSE
    /\ answers = [h \in Htlcs |-> 0]
    /\ connOpen = TRUE
    /\ parent = FALSE /\ child = FALSE /\ quit = FALSE
    /\ mpc = "call" /\ mreq = None /\ result = "none"
    /\ rpc = "idle" /\ rreq = None
    /\ hpc = [h \in Htlcs |-> "idle"]
    /\ pend = [g \in Goroutines |-> "none"]
    /\ errBuf = <<>> /\ failures = {}
    /\ wg = 0 /\ waiter = "idle" /\ late = {}

-----------------------------------------------------------------------------
(* lnd, the caller, and Close. *)

\* Only InterceptHtlcs expects requests that do not parse: one without a circuit
\* key would make HtlcModifier panic.
LndAsks(h) ==
    /\ mpc # "call"
    /\ connOpen /\ ~CtxDone /\ ~lndFailed
    /\ h \notin asked
    /\ asked' = asked \cup {h}
    /\ inbox' = Append(inbox, h)
    /\ \/ UNCHANGED malformed
       \/ Traits.checks /\ malformed' = malformed \cup {h}
    /\ UNCHANGED <<method, lndFailed, connOpen, answers, parent, mainVars,
                   recvVars, hpc, errVars, waitVars>>

LndFails ==
    /\ mpc # "call"
    /\ connOpen /\ ~lndFailed
    /\ lndFailed' = TRUE
    /\ UNCHANGED <<method, malformed, asked, inbox, connOpen, answers, parent,
                   mainVars, recvVars, hpc, errVars, waitVars>>

CallerCancels ==
    /\ ~parent
    /\ parent' = TRUE
    /\ UNCHANGED <<lndVars, answers, mainVars, recvVars, hpc, errVars,
                   waitVars>>

\* Close closes the connection before it waits for any client.
CloseConn ==
    /\ connOpen
    /\ connOpen' = FALSE
    /\ UNCHANGED <<method, malformed, asked, inbox, lndFailed, answers, parent,
                   mainVars, recvVars, hpc, errVars, waitVars>>

\* WaitForFinished: close(quit), then wg.Wait.
BeginWait ==
    /\ ~connOpen
    /\ waiter = "idle"
    /\ waiter' = "waiting"
    /\ quit' = TRUE
    /\ UNCHANGED <<lndVars, answers, parent, mainVars, recvVars, hpc, errVars,
                   wg, late>>

EndWait ==
    /\ waiter = "waiting"
    /\ wg = 0
    /\ waiter' = "returned"
    /\ UNCHANGED <<lndVars, answers, parent, mainVars, recvVars, hpc, errVars,
                   wg, quit, late>>

-----------------------------------------------------------------------------
(* sendErr. *)

\* A goroutine g hits an error and turns to sendErr.
Fail(g, kind) ==
    /\ pend' = [pend EXCEPT ![g] = kind]
    /\ failures' = failures \cup {kind}
    /\ UNCHANGED errBuf

\* A faulty sendErr: no select, the goroutine waits for room in the buffer.
SendErrBlocks(g) ==
    /\ errBuf = <<>> /\ errBuf' = <<pend[g]>>
    /\ UNCHANGED <<pend, failures>>

\* sendErr returns: the error went into the buffer, or the context is done, or
\* the client shuts down.
SendErr(g) ==
    /\ \/ errBuf = <<>> /\ errBuf' = <<pend[g]>>
       \/ (CtxDone \/ quit) /\ UNCHANGED errBuf
    /\ UNCHANGED <<pend, failures>>

GoroutineStarts(g) ==
    /\ wg' = wg + 1
    /\ late' = IF waiter = "returned" THEN late \cup {g} ELSE late
    /\ UNCHANGED <<waiter, quit>>

GoroutineEnds ==
    /\ wg' = wg - 1
    /\ UNCHANGED <<waiter, quit, late>>

-----------------------------------------------------------------------------
(* The main loop. *)

\* A faulty return: no deferred cancel.
ReturnWithoutCancel(kind) ==
    /\ mpc' = "returned"
    /\ result' = kind
    /\ UNCHANGED <<mreq, child>>

\* return err; the deferred cancel makes the child context done.
Return(kind) ==
    /\ mpc' = "returned"
    /\ result' = kind
    /\ child' = TRUE
    /\ UNCHANGED mreq

Open ==
    /\ mpc = "call"
    /\ \/ /\ connOpen /\ ~CtxDone
          /\ mpc' = "opened"
          /\ UNCHANGED <<mreq, result, child, errVars>>
       \/ /\ Return("open")
          /\ failures' = failures \cup {"open"}
          /\ UNCHANGED <<pend, errBuf>>
    /\ UNCHANGED <<lndVars, answers, parent, recvVars, hpc, waitVars>>

StartReceiver ==
    /\ mpc = "opened"
    /\ mpc' = "select"
    /\ rpc' = "check"
    /\ GoroutineStarts(Receiver)
    /\ UNCHANGED <<lndVars, answers, parent, mreq, result, child, rreq, hpc,
                   errVars>>

\* The unbuffered requestChan: the receiver's send and the main loop's receive.
Handover ==
    /\ mpc = "select" /\ rpc = "offer"
    /\ mreq' = rreq /\ mpc' = "spawn"
    /\ rpc' = "check"
    /\ UNCHANGED <<lndVars, answers, parent, result, child, rreq, hpc, errVars,
                   waitVars>>

\* A faulty start: no wg.Add.
StartHandlerUncounted ==
    /\ mpc = "spawn"
    /\ mpc' = "select"
    /\ hpc' = [hpc EXCEPT ![mreq] = "running"]
    /\ UNCHANGED <<lndVars, answers, parent, mreq, result, child, recvVars,
                   errVars, waitVars>>

\* wg.Add(1) and the go statement of a handler.
StartHandler ==
    /\ mpc = "spawn"
    /\ mpc' = "select"
    /\ hpc' = [hpc EXCEPT ![mreq] = "running"]
    /\ GoroutineStarts(mreq)
    /\ UNCHANGED <<lndVars, answers, parent, mreq, result, child, recvVars,
                   errVars>>

\* A faulty select: no case for errChan.
ReturnErrorMissing == FALSE

ReturnError ==
    /\ mpc = "select"
    /\ errBuf # <<>>
    /\ Return(Head(errBuf))
    /\ errBuf' = <<>>
    /\ UNCHANGED <<lndVars, answers, parent, recvVars, hpc, pend, failures,
                   waitVars>>

ReturnQuit ==
    /\ mpc = "select"
    /\ quit
    /\ Return("quit")
    /\ UNCHANGED <<lndVars, answers, parent, recvVars, hpc, errVars, waitVars>>

ReturnCtx ==
    /\ mpc = "select"
    /\ CtxDone
    /\ Return("ctx")
    /\ UNCHANGED <<lndVars, answers, parent, recvVars, hpc, errVars, waitVars>>

-----------------------------------------------------------------------------
(* The receiver. *)

ReceiverChecksCtx ==
    /\ rpc = "check"
    /\ IF CtxDone
          THEN rpc' = "done" /\ GoroutineEnds
          ELSE rpc' = "recv" /\ UNCHANGED waitVars
    /\ UNCHANGED <<lndVars, answers, parent, mainVars, rreq, hpc, errVars>>

\* A faulty receiver: it forgets to validate the request.
ReceiveUnchecked ==
    /\ rpc = "recv"
    /\ inbox # <<>>
    /\ inbox' = Tail(inbox)
    /\ rreq' = Head(inbox)
    /\ rpc' = "offer"
    /\ UNCHANGED <<method, malformed, asked, lndFailed, connOpen, answers,
                   parent, mainVars, hpc, errVars, waitVars>>

ReceiveRequest ==
    /\ rpc = "recv"
    /\ inbox # <<>>
    /\ inbox' = Tail(inbox)
    /\ rreq' = Head(inbox)
    /\ IF Traits.checks /\ Head(inbox) \in malformed
          THEN rpc' = "report" /\ Fail(Receiver, "request")
          ELSE rpc' = "offer" /\ UNCHANGED errVars
    /\ UNCHANGED <<method, malformed, asked, lndFailed, connOpen, answers,
                   parent, mainVars, hpc, waitVars>>

ReceiveFails ==
    /\ rpc = "recv"
    /\ CtxDone \/ ~connOpen \/ (lndFailed /\ inbox = <<>>)
    /\ rpc' = "report"
    /\ Fail(Receiver, "stream")
    /\ UNCHANGED <<lndVars, answers, parent, mainVars, rreq, hpc, waitVars>>

\* A faulty select: a default case that gives the request up.
OfferDropped ==
    /\ rpc = "offer"
    /\ rpc' = "check"
    /\ UNCHANGED <<lndVars, answers, parent, mainVars, rreq, hpc, errVars,
                   waitVars>>

\* A faulty select: the two errors are swapped.
OfferAbortedSwapped ==
    /\ rpc = "offer"
    /\ rpc' = "report"
    /\ \/ quit /\ Fail(Receiver, "ctx")
       \/ CtxDone /\ Fail(Receiver, "quit")
    /\ UNCHANGED <<lndVars, answers, parent, mainVars, rreq, hpc, waitVars>>

OfferAborted ==
    /\ rpc = "offer"
    /\ rpc' = "report"
    /\ \/ quit /\ Fail(Receiver, "quit")
       \/ CtxDone /\ Fail(Receiver, "ctx")
    /\ UNCHANGED <<lndVars, answers, parent, mainVars, rreq, hpc, waitVars>>

ReceiverReports ==
    /\ rpc = "report"
    /\ SendErr(Receiver)
    /\ rpc' = "done"
    /\ GoroutineEnds
    /\ UNCHANGED <<lndVars, answers, parent, mainVars, rreq, hpc>>

-----------------------------------------------------------------------------
(* The handlers. *)

\* The caller's handler returns: a response, an error, or a response that
\* rpcInterceptorResponse refuses.
HandlerReturns(h) ==
    /\ hpc[h] = "running"
    /\ \/ /\ hpc' = [hpc EXCEPT ![h] = "sending"]
          /\ UNCHANGED errVars
       \/ /\ hpc' = [hpc EXCEPT ![h] = "report"]
          /\ \/ Fail(h, "handler")
             \/ Traits.checks /\ Fail(h, "response")
    /\ UNCHANGED <<lndVars, answers, parent, mainVars, recvVars, waitVars>>

\* stream.Send.  A cancelled context may, but need not, fail it; HtlcModifier
\* answers for whatever circuit key the handler put in its response.
HandlerSends(h) ==
    /\ hpc[h] = "sending"
    /\ \/ /\ connOpen
          /\ \E key \in IF Traits.keyFrom = "request" THEN {h} ELSE asked :
                answers' = [answers EXCEPT ![key] = @ + 1]
          /\ hpc' = [hpc EXCEPT ![h] = "done"]
          /\ GoroutineEnds
          /\ UNCHANGED errVars
       \/ /\ ~connOpen \/ CtxDone \/ lndFailed
          /\ hpc' = [hpc EXCEPT ![h] = "report"]
          /\ Fail(h, "stream")
          /\ UNCHANGED <<answers, waitVars>>
    /\ UNCHANGED <<lndVars, parent, mainVars, recvVars>>

HandlerReports(h) ==
    /\ hpc[h] = "report"
    /\ SendErr(h)
    /\ hpc' = [hpc EXCEPT ![h] = "done"]
    /\ GoroutineEnds
    /\ UNCHANGED <<lndVars, answers, parent, mainVars, recvVars>>

-----------------------------------------------------------------------------

MainStep ==
    \/ Open \/ StartReceiver \/ Handover \/ StartHandler
    \/ ReturnError \/ ReturnQuit \/ ReturnCtx

ReceiverStep ==
    \/ ReceiverChecksCtx \/ ReceiveRequest \/ ReceiveFails
    \/ OfferAborted \/ ReceiverReports

HandlerStep(h) == HandlerSends(h) \/ HandlerReports(h)

Next ==
    \/ MainStep
    \/ ReceiverStep
    \/ \E h \in Htlcs : HandlerReturns(h) \/ HandlerStep(h) \/ LndAsks(h)
    \/ LndFails \/ CallerCancels \/ CloseConn \/ BeginWait \/ EndWait

Spec == Init /\ [][Next]_vars

\* Goroutines are scheduled.  A handler may block for as long as it likes, "but
\* must exit if the context passed in is canceled".
Fairness ==
    /\ WF_vars(MainStep) /\ WF_vars(ReceiverStep) /\ WF_vars(EndWait)
    /\ \A h \in Htlcs :
          /\ WF_vars(HandlerStep(h))
          /\ WF_vars(CtxDone /\ HandlerReturns(h))

FairSpec == Spec /\ Fairness

-----------------------------------------------------------------------------
(* Properties. *)

TypeOK ==
    /\ method \in {"InterceptHtlcs", "HtlcModifier"}
    /\ malformed \subseteq asked
    /\ asked \subseteq Htlcs /\ inbox \in Seq(Htlcs)
    /\ answers \in [Htlcs -> Nat]
    /\ lndFailed \in BOOLEAN /\ connOpen \in BOOLEAN
    /\ parent \in BOOLEAN /\ child \in BOOLEAN /\ quit \in BOOLEAN
    /\ mpc \in {"call", "opened", "select", "spawn", "returned"}
    /\ mreq \in Htlcs \cup {None} /\ rreq \in Htlcs \cup {None}
    /\ mpc = "spawn" => mreq \in Htlcs
    /\ rpc = "offer" => rreq \in Htlcs
    /\ result \in ErrorKinds \cup {"none"}
    /\ rpc \in {"idle", "check", "recv", "offer", "report", "done"}
    /\ hpc \in [Htlcs -> {"idle", "running", "sending", "report", "done"}]
    /\ pend \in [Goroutines -> ErrorKinds \cup {"none"}]
    /\ errBuf \in Seq(ErrorKinds) /\ Len(errBuf) <= 1
    /\ failures \subseteq ErrorKinds
    /\ wg \in Nat
    /\ waiter \in {"idle", "waiting", "returned"}
    /\ late \subseteq Goroutines

\* The call has a reason to end, seen or not yet seen by the main loop.
Ending ==
    \/ CtxDone \/ quit \/ errBuf # <<>>
    \/ rpc = "report" \/ \E h \in Htlcs : hpc[h] = "report"

\* Every request is handled until the call ends: a request the receiver took
\* off the stream is with the receiver, the main loop or its handler, or was
\* answered, unless the call is about to return.
NoRequestDropped ==
    \A h \in asked :
        \/ \E i \in DOMAIN inbox : inbox[i] = h
        \/ rpc = "offer" /\ rreq = h
        \/ mpc = "spawn" /\ mreq = h
        \/ hpc[h] \in {"running", "sending"}
        \/ hpc[h] = "done" /\ (Traits.keyFrom = "request" => answers[h] = 1)
        \/ Ending

\* InterceptHtlcs answers an HTLC at most once, only after lnd asked about it,
\* and never one whose request did not parse.
OneAnswerPerRequest ==
    Traits.keyFrom = "request" =>
        \A h \in Htlcs :
            /\ answers[h] <= 1
            /\ answers[h] = 1 => h \in asked \ malformed /\ hpc[h] = "done"

\* The error the call returns tells the truth: the shutdown error only after
\* quit, the context's error only when the caller cancelled, a stream error
\* only when the stream was cut, and a handler's only when a handler failed.
ResultIsTrue ==
    /\ result = "quit" => quit
    /\ result = "ctx" => parent
    /\ result = "stream" => lndFailed \/ ~connOpen \/ parent
    /\ result # "none" /\ result \notin {"quit", "ctx"} => result \in failures

\* The requests that no handler was started for, in lnd's order: the main loop may
\* have one in its hand, the receiver another, which it keeps when it gives up.
Held ==
    /\ rreq # None
    /\ hpc[rreq] = "idle"
    /\ ~ (mpc = "spawn" /\ mreq = rreq)

Waiting ==
    (IF mpc = "spawn" THEN <<mreq>> ELSE <<>>)
        \o (IF Held THEN <<rreq>> ELSE <<>>) \o inbox

\* What a handler has come to.  It fails at most once.
HandlerState(h) ==
    IF hpc[h] = "idle" THEN "none"
    ELSE IF pend[h] # "none" THEN pend[h]
    ELSE IF hpc[h] = "done" THEN "answered" ELSE "runs"

\* What lnd and the caller see, as the abstract specification has it.
Promise == INSTANCE InterceptorPromise WITH
    strict <- Traits.checks,
    waiting <- Waiting,
    handler <- [h \in Htlcs |-> HandlerState(h)],
    cancelled <- parent,
    lost <- lndFailed \/ ~connOpen,
    closing <- quit

\* The call is an implementation of what lnd and the caller are promised: requests are
\* handled in lnd's order, and none after the call has returned; each handler answers
\* once or fails; and the error returned is one that has occurred, whatever goes on
\* between the goroutines (InterceptHtlcs, HtlcModifier).
KeepsPromise == Promise!Spec

Running(g) ==
    IF g = Receiver THEN rpc \in {"check", "recv", "offer", "report"}
                    ELSE hpc[g] \in {"running", "sending", "report"}

\* WaitForFinished covers the goroutines started before it returned.
WaitCoversGoroutines ==
    waiter = "returned" => \A g \in Goroutines : Running(g) => g \in late

\* A goroutine that has an error to report makes the call return, even when
\* several fail at once and the error channel holds one.
FailureEndsCall ==
    /\ rpc = "report" ~> mpc = "returned"
    /\ \A h \in Htlcs : hpc[h] = "report" ~> mpc = "returned"

\* Once the call has returned, every goroutine it started ends, as long as the
\* handlers honour their context; and WaitForFinished, which makes the call return,
\* returns itself.
CallLeavesNothingBehind ==
    /\ mpc = "returned" ~> \A g \in Goroutines : ~Running(g)
    /\ waiter = "waiting" ~> waiter = "returned"

=============================================================================
