--------------------------- MODULE LightningCalls ---------------------------
(***************************************************************************)
(* The calls of the lightning client that run in a goroutine of their own  *)
(* without being a subscription: PayInvoice, which follows one payment to  *)
(* its end, and ChannelAcceptor and RegisterRPCMiddleware, which pass lnd's *)
(* requests one at a time through a function of the caller.                *)
(*                                                                         *)
(* All PayInvoice calls here pay the same invoice, so that what lnd tells  *)
(* one of them depends on what another has started.                        *)
(***************************************************************************)
EXTENDS Naturals, Sequences, FiniteSets

CONSTANTS
    Calls,          \* the calls there are
    Mixes,          \* which method each of them may be of
    MaxRequests,    \* bound: requests lnd makes of one call
    MaxPayments     \* bound: times lnd starts to pay the invoice

Handlers == {"ChannelAcceptor", "RegisterRPCMiddleware"}
Methods == Handlers \cup {"PayInvoice"}

ASSUME CallsAssumption == IsFiniteSet(Calls)
ASSUME MixesAssumption == Mixes \subseteq [Calls -> Methods]
ASSUME BoundsAssumption == MaxRequests \in Nat /\ MaxPayments \in Nat

VARIABLES
    kind,       \* the method of each call
    pc,         \* where its goroutine is
    reader,     \* where the goroutine that reads the registration is
    reg,        \* registerChan: none, or what is in its buffer
    rcvd,       \* requests received
    answered,   \* requests answered
    hand,       \* what payInvoice has returned
    results,    \* what is in paymentChan
    errs,       \* errors in errChan, which has room for one
    ctx,        \* the caller's context: open, cancelled or expired
    ended,      \* lnd has ended the stream, or lost it
    follows,    \* which payment a PayInvoice stream is about
    refused,    \* lnd has refused to pay, and the stream does not say so yet
    payments,   \* lnd: the state of each attempt to pay the invoice
    connOpen,   \* the connection is open
    wg,         \* the lightning client's wait group
    waited      \* its WaitForFinished has returned

chanVars == <<reg, results, errs>>
lndVars == <<ended, follows, refused, payments>>
svcVars == <<connOpen, wg, waited>>
callVars == <<kind, pc, reader, rcvd, answered, hand, ctx>>
vars == <<callVars, chanVars, lndVars, svcVars>>

Init ==
    /\ kind \in Mixes
    /\ pc = [c \in Calls |-> "unused"]
    /\ reader = [c \in Calls |-> "unused"]
    /\ reg = [c \in Calls |-> "none"]
    /\ rcvd = [c \in Calls |-> 0]
    /\ answered = [c \in Calls |-> 0]
    /\ hand = [c \in Calls |-> "none"]
    /\ results = [c \in Calls |-> <<>>]
    /\ errs = [c \in Calls |-> 0]
    /\ ctx = [c \in Calls |-> "open"]
    /\ ended = [c \in Calls |-> FALSE]
    /\ follows = [c \in Calls |-> 0]
    /\ refused = [c \in Calls |-> FALSE]
    /\ payments = <<>>
    /\ connOpen = TRUE
    /\ wg = 0
    /\ waited = FALSE

\* A call on the stream of c may return an error.
Interrupted(c) == ctx[c] # "open" \/ ~connOpen \/ ended[c]

\* A gRPC error may have the code Canceled: the context was cancelled, or the
\* connection closed.
Canceled(c) == ctx[c] = "cancelled" \/ ~connOpen

\* A gRPC error may have another code.
OtherError(c) == ctx[c] = "expired" \/ ~connOpen \/ ended[c]

Go(c, from, to) ==
    /\ pc[c] = from
    /\ pc' = [pc EXCEPT ![c] = to]

-----------------------------------------------------------------------------
(* PayInvoice. *)

\* The method: it counts the goroutine and starts it.
PayInvoice(c) ==
    /\ kind[c] = "PayInvoice"
    /\ Go(c, "unused", "send")
    /\ wg' = wg + 1
    /\ UNCHANGED <<kind, reader, rcvd, answered, hand, ctx, chanVars, lndVars,
                   connOpen, waited>>

\* payInvoice returns; "none" stands for nil, which is not sent on.
Returns(c, from, result) ==
    /\ Go(c, from, IF result = "none" THEN "end" ELSE "result")
    /\ hand' = [hand EXCEPT ![c] = result]
    /\ UNCHANGED <<kind, reader, rcvd, answered, ctx, chanVars, lndVars, svcVars>>

\* SendPaymentV2 (external): lnd starts to pay unless a payment is under way or
\* has succeeded.
CanPay == \A k \in DOMAIN payments : payments[k] = "failed"

StartsPayment(c) ==
    /\ CanPay /\ Len(payments) < MaxPayments
    /\ payments' = Append(payments, "inflight")
    /\ follows' = [follows EXCEPT ![c] = Len(payments')]
    /\ UNCHANGED <<ended, refused>>

\* TrackPaymentV2 (external).
TracksPayment(c) ==
    /\ follows' = [follows EXCEPT ![c] = Len(payments)]
    /\ UNCHANGED <<ended, refused, payments>>

\* The invoice is not one, the call fails, or there is a stream.  A refusal is
\* an error of the call, or it comes with the stream's first message: gRPC has
\* both, and trackPayment expects the second.
SendPayment(c) ==
    \/ Returns(c, "send", "error")
    \/ Canceled(c) /\ Returns(c, "send", "none")
    \/ /\ ~Interrupted(c)
       /\ \/ Go(c, "send", "follow") /\ StartsPayment(c)
          \/ ~CanPay /\ Go(c, "send", "track") /\ UNCHANGED lndVars
          \/ /\ ~CanPay
             /\ Go(c, "send", "follow")
             /\ refused' = [refused EXCEPT ![c] = TRUE]
             /\ UNCHANGED <<ended, follows, payments>>
       /\ UNCHANGED <<kind, reader, rcvd, answered, hand, ctx, chanVars, svcVars>>

TrackPayment(c) ==
    \/ OtherError(c) /\ Returns(c, "track", "error")
    \/ Canceled(c) /\ Returns(c, "track", "none")
    \/ /\ ~Interrupted(c)
       /\ Go(c, "track", "follow")
       /\ TracksPayment(c)
       /\ UNCHANGED <<kind, reader, rcvd, answered, hand, ctx, chanVars, svcVars>>

\* What a state of the payment makes paymentResultFromStream return; a payment
\* in flight keeps it in its loop.
ResultOf(state) == CASE state = "succeeded" -> "paid"
                     [] state = "failed"    -> "failed"
                     [] state = "inflight"  -> "none"

\* A faulty loop: it takes every state but success for a failure.
PaymentResultTooEarly(c) ==
    \/ /\ follows[c] # 0
       /\ Returns(c, "follow", IF payments[follows[c]] = "succeeded"
                                THEN "paid" ELSE "failed")
    \/ Canceled(c) /\ Returns(c, "follow", "none")
    \/ OtherError(c) /\ Returns(c, "follow", "error")

\* paymentResultFromStream.  An update that does not convert, EOF and an error
\* are all an error to the caller.
PaymentResult(c) ==
    \/ /\ follows[c] # 0
       /\ payments[follows[c]] # "inflight"
       /\ Returns(c, "follow", ResultOf(payments[follows[c]]))
    \/ refused[c] /\ Returns(c, "follow", "exists")
    \/ Canceled(c) /\ Returns(c, "follow", "none")
    \/ OtherError(c) /\ Returns(c, "follow", "error")

\* A faulty channel, without a buffer; the caller has stopped reading it.
SendResultUnbuffered(c) == FALSE

\* paymentChan <- *result, which has room for it.
SendResult(c) ==
    /\ Go(c, "result", "end")
    /\ Len(results[c]) < 1
    /\ results' = [results EXCEPT ![c] = Append(@, hand[c])]
    /\ UNCHANGED <<kind, reader, rcvd, answered, hand, ctx, reg, errs,
                   lndVars, svcVars>>

-----------------------------------------------------------------------------
(* ChannelAcceptor and RegisterRPCMiddleware. *)

\* ChannelAcceptor opens its stream.
ChannelAcceptor(c) ==
    /\ kind[c] = "ChannelAcceptor"
    /\ ~Interrupted(c)
    /\ Go(c, "unused", "launch")
    /\ UNCHANGED <<kind, reader, rcvd, answered, hand, ctx, chanVars, lndVars,
                   svcVars>>

\* RegisterRPCMiddleware opens its stream, sends the registration and starts a
\* goroutine, which nobody counts, to read the answer.
RegisterRPCMiddleware(c) ==
    /\ kind[c] = "RegisterRPCMiddleware"
    /\ ~Interrupted(c)
    /\ Go(c, "unused", "register")
    /\ reader' = [reader EXCEPT ![c] = "recv"]
    /\ UNCHANGED <<kind, rcvd, answered, hand, ctx, chanVars, lndVars, svcVars>>

\* The answer arrives.
LndRegisters(c, answer) ==
    /\ reader[c] = "recv"
    /\ reader' = [reader EXCEPT ![c] = "done"]
    /\ reg' = [reg EXCEPT ![c] = answer]
    /\ UNCHANGED <<kind, pc, rcvd, answered, hand, ctx, results, errs,
                   lndVars, svcVars>>

\* The answer does not arrive.
ReaderFails(c) ==
    /\ reader[c] = "recv"
    /\ Interrupted(c)
    /\ errs[c] < 1
    /\ reader' = [reader EXCEPT ![c] = "done"]
    /\ errs' = [errs EXCEPT ![c] = @ + 1]
    /\ UNCHANGED <<kind, pc, rcvd, answered, hand, ctx, reg, results,
                   lndVars, svcVars>>

\* The select over errChan and registerChan.
Registered(c) ==
    /\ \/ /\ errs[c] > 0
          /\ errs' = [errs EXCEPT ![c] = @ - 1]
          /\ Go(c, "register", "failed")
          /\ UNCHANGED reg
       \/ /\ reg[c] # "none"
          /\ reg' = [reg EXCEPT ![c] = "none"]
          /\ Go(c, "register", IF reg[c] = "complete" THEN "launch" ELSE "failed")
          /\ UNCHANGED errs
    /\ UNCHANGED <<kind, reader, rcvd, answered, hand, ctx, results, lndVars,
                   svcVars>>

\* A faulty launch: no wg.Add.
LaunchUncounted(c) ==
    /\ Go(c, "launch", "check")
    /\ UNCHANGED <<kind, reader, rcvd, answered, hand, ctx, chanVars, lndVars,
                   svcVars>>

\* wg.Add(1) and the go statement.
Launch(c) ==
    /\ Go(c, "launch", "check")
    /\ wg' = wg + 1
    /\ UNCHANGED <<kind, reader, rcvd, answered, hand, ctx, chanVars, lndVars,
                   connOpen, waited>>

\* A step of the goroutine between two of its calls.
Loop(c, from, to) ==
    /\ Go(c, from, to)
    /\ UNCHANGED <<kind, reader, rcvd, answered, hand, ctx, chanVars, lndVars,
                   svcVars>>

\* The select with a default.
CheckCtx(c) ==
    \/ ctx[c] # "open" /\ Loop(c, "check", "report")
    \/ ctx[c] = "open" /\ Loop(c, "check", "recv")

\* A request arrives; the acceptor's may be one that newAcceptorRequest cannot
\* convert.
LndAsks(c) ==
    /\ rcvd[c] < MaxRequests
    /\ \/ Go(c, "recv", "handler")
       \/ kind[c] = "ChannelAcceptor" /\ Go(c, "recv", "report")
    /\ rcvd' = [rcvd EXCEPT ![c] = @ + 1]
    /\ UNCHANGED <<kind, reader, answered, hand, ctx, chanVars, lndVars, svcVars>>

ReceiveFails(c) == Interrupted(c) /\ Loop(c, "recv", "report")

\* The caller's function returns; its context ends after the given timeout.
HandlerReturns(c) == Loop(c, "handler", "answer") \/ Loop(c, "handler", "report")

\* A faulty reaction: a response that could not be sent is forgotten.
AnswerForgotten(c) ==
    \/ /\ Go(c, "answer", "check")
       /\ answered' = [answered EXCEPT ![c] = @ + 1]
       /\ UNCHANGED <<kind, reader, rcvd, hand, ctx, chanVars, lndVars, svcVars>>
    \/ Interrupted(c) /\ Loop(c, "answer", "end")

Answer(c) ==
    \/ /\ Go(c, "answer", "check")
       /\ answered' = [answered EXCEPT ![c] = @ + 1]
       /\ UNCHANGED <<kind, reader, rcvd, hand, ctx, chanVars, lndVars, svcVars>>
    \/ Interrupted(c) /\ Loop(c, "answer", "report")

\* errChan <- err
Report(c) ==
    /\ Go(c, "report", "end")
    /\ errs[c] < 1
    /\ errs' = [errs EXCEPT ![c] = @ + 1]
    /\ UNCHANGED <<kind, reader, rcvd, answered, hand, ctx, reg, results,
                   lndVars, svcVars>>

-----------------------------------------------------------------------------
(* Both. *)

\* The deferred wg.Done().
End(c) ==
    /\ Go(c, "end", "done")
    /\ wg' = wg - 1
    /\ UNCHANGED <<kind, reader, rcvd, answered, hand, ctx, chanVars, lndVars,
                   connOpen, waited>>

\* The caller (external): its context ends.  What it reads from the channels
\* is left out; it is harder for a call when nobody reads them.
ContextEnds(c) ==
    /\ ctx[c] = "open" /\ pc[c] \notin {"unused", "failed", "done"}
    /\ \E how \in {"cancelled", "expired"} : ctx' = [ctx EXCEPT ![c] = how]
    /\ UNCHANGED <<kind, pc, reader, rcvd, answered, hand, chanVars, lndVars,
                   svcVars>>

\* lnd (external): a payment comes to its end, or a stream does.
LndPays ==
    /\ \E k \in DOMAIN payments, state \in {"succeeded", "failed"} :
          /\ payments[k] = "inflight"
          /\ payments' = [payments EXCEPT ![k] = state]
    /\ UNCHANGED <<callVars, chanVars, ended, follows, refused, svcVars>>

LndEnds(c) ==
    /\ ~ended[c] /\ pc[c] \notin {"unused", "failed", "done"}
    /\ ended' = [ended EXCEPT ![c] = TRUE]
    /\ UNCHANGED <<callVars, chanVars, follows, refused, payments, svcVars>>

\* Close: the connection, and then the lightning client.
CloseConn ==
    /\ connOpen
    /\ connOpen' = FALSE
    /\ UNCHANGED <<callVars, chanVars, lndVars, wg, waited>>

WaitForFinished ==
    /\ ~connOpen /\ ~waited
    /\ wg = 0
    /\ waited' = TRUE
    /\ UNCHANGED <<callVars, chanVars, lndVars, connOpen, wg>>

-----------------------------------------------------------------------------

\* What the goroutines of a call do next, and the method itself once it has
\* begun.
CallStep(c) ==
    \/ SendPayment(c) \/ TrackPayment(c) \/ PaymentResult(c) \/ SendResult(c)
    \/ ReaderFails(c) \/ Registered(c) \/ Launch(c)
    \/ CheckCtx(c) \/ ReceiveFails(c) \/ HandlerReturns(c) \/ Answer(c)
    \/ Report(c) \/ End(c)

Next ==
    \/ \E c \in Calls :
          \/ PayInvoice(c) \/ ChannelAcceptor(c) \/ RegisterRPCMiddleware(c)
          \/ CallStep(c)
          \/ \E answer \in {"complete", "other"} : LndRegisters(c, answer)
          \/ LndAsks(c) \/ LndEnds(c) \/ ContextEnds(c)
    \/ LndPays \/ CloseConn \/ WaitForFinished

Spec == Init /\ [][Next]_vars

\* Goroutines run, and a handler returns once its timeout has passed.  lnd and
\* the caller promise nothing.
FairSpec ==
    /\ Spec
    /\ \A c \in Calls : WF_vars(CallStep(c))
    /\ WF_vars(WaitForFinished)

-----------------------------------------------------------------------------
(* Properties. *)

Results == {"paid", "failed", "exists", "error"}

TypeOK ==
    /\ kind \in [Calls -> Methods]
    /\ pc \in [Calls -> {"unused", "send", "track", "follow", "result",
                         "register", "failed", "launch", "check", "recv",
                         "handler", "answer", "report", "end", "done"}]
    /\ reader \in [Calls -> {"unused", "recv", "done"}]
    /\ reg \in [Calls -> {"none", "complete", "other"}]
    /\ rcvd \in [Calls -> 0 .. MaxRequests] /\ answered \in [Calls -> Nat]
    /\ hand \in [Calls -> Results \cup {"none"}]
    /\ results \in [Calls -> {<<>>} \cup {<<r>> : r \in Results}]
    /\ errs \in [Calls -> 0 .. 1]
    /\ ctx \in [Calls -> {"open", "cancelled", "expired"}]
    /\ ended \in [Calls -> BOOLEAN]
    /\ payments \in Seq({"inflight", "succeeded", "failed"})
    /\ follows \in [Calls -> 0 .. Len(payments)]
    /\ refused \in [Calls -> BOOLEAN]
    /\ connOpen \in BOOLEAN /\ waited \in BOOLEAN
    /\ wg \in 0 .. Cardinality(Calls)

\* A caller of PayInvoice is told of a success or a failure only when that is
\* how the payment its call follows has ended.
ResultIsTrue ==
    \A c \in Calls : \A i \in DOMAIN results[c] :
        results[c][i] \in {"paid", "failed"} =>
            follows[c] # 0 /\ ResultOf(payments[follows[c]]) = results[c][i]

\* The end of a call can be told: a handler's goroutine has put exactly one
\* error into its channel, and PayInvoice a result into its own unless the
\* caller cancelled or the connection was closed.  While a handler's goroutine
\* goes on it has skipped no request.
EndIsTold ==
    \A c \in Calls :
        /\ pc[c] = "done" =>
              IF kind[c] = "PayInvoice"
                 THEN results[c] # <<>> \/ Canceled(c)
                 ELSE errs[c] = 1
        /\ kind[c] \in Handlers /\ pc[c] \in {"check", "recv"} =>
              answered[c] = rcvd[c]

\* None of the goroutines of a call is running.
Ended(c) ==
    pc[c] \in {"unused", "failed", "done"} /\ reader[c] # "recv"

\* Close needs no help of the caller here: with the connection closed every
\* call ends, the goroutine that nobody counts as well, and Close returns.
CloseEndsCalls == ~connOpen ~> (waited /\ \A c \in Calls : Ended(c))

\* When WaitForFinished returns, no call is between its wg.Add and its wg.Done: each has
\* ended, or its goroutine is not started yet, and the one thing that may go on is a
\* registration, which the method itself waits for.
WaitFindsNoneRunning ==
    [][WaitForFinished =>
          \A c \in Calls :
              /\ pc[c] \in {"unused", "register", "launch", "failed", "done"}
              /\ reader[c] = "recv" => pc[c] = "register"]_vars

\* The doc of payInvoice, "returns its final result", for a payment that is
\* "already initiated(inflight) or completed(settled)": PayInvoice follows it
\* and does not hand out lnd's refusal.
InFlightIsFollowed == \A c \in Calls : results[c] # <<"exists">>

=============================================================================
