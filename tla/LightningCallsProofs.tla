------------------------- MODULE LightningCallsProofs -------------------------
(* Theorems about LightningCalls and their proofs. *)
EXTENDS LightningCalls, FiniteSetTheorems, SequenceTheorems, TLAPS

USE CallsAssumption, MixesAssumption, BoundsAssumption

-----------------------------------------------------------------------------
(***************************************************************************)
(* The inductive invariant.                                                *)
(***************************************************************************)

\* The course of a PayInvoice call: payInvoice returns once, what it returns is sent on
\* once, and only a cancelled or cut call ends with nothing.
PaymentInv(c) ==
    kind[c] = "PayInvoice" =>
        /\ pc[c] \in {"unused", "send", "track", "follow", "result", "end", "done"}
        /\ pc[c] \in {"unused", "send", "track", "follow"} => hand[c] = "none"
        /\ pc[c] \in {"unused", "send", "track", "follow", "result"} => results[c] = <<>>
        /\ pc[c] = "result" => hand[c] # "none"
        /\ pc[c] \in {"end", "done"} => results[c] # <<>> \/ Canceled(c)
        /\ reader[c] = "unused"

\* The course of a handler's call: the registration has one answer or one error, the
\* goroutine reports one error, as its last act, and answers each request before it
\* receives the next.
HandlerInv(c) ==
    kind[c] \in Handlers =>
        /\ pc[c] \in {"unused", "register", "failed", "launch", "check", "recv",
                      "handler", "answer", "report", "end", "done"}
        /\ hand[c] = "none" /\ results[c] = <<>>
        /\ reader[c] = "recv" => pc[c] = "register" /\ errs[c] = 0 /\ reg[c] = "none"
        /\ reg[c] # "none" => pc[c] = "register" /\ errs[c] = 0
        /\ pc[c] \in {"unused", "launch", "check", "recv", "handler", "answer", "report"}
               => errs[c] = 0
        /\ pc[c] \in {"end", "done"} => errs[c] = 1
        /\ pc[c] \in {"unused", "register", "launch", "check", "recv"}
               => answered[c] = rcvd[c]
        /\ pc[c] \in {"handler", "answer"} => rcvd[c] = answered[c] + 1

\* What payInvoice has returned is what it has sent on, and the truth about the payment
\* it follows.
ResultInv(c) ==
    /\ results[c] # <<>> => results[c] = <<hand[c]>>
    /\ hand[c] \in {"paid", "failed"} =>
          follows[c] # 0 /\ ResultOf(payments[follows[c]]) = hand[c]

\* The goroutines that the wait group counts, by the places where they can be.
CountedPlaces == {"send", "track", "follow", "result", "check", "recv", "handler",
                  "answer", "report", "end"}
Counted == {c \in Calls : pc[c] \in CountedPlaces}
WgCounts == wg = Cardinality(Counted)

Inv ==
    /\ TypeOK /\ WgCounts
    /\ \A c \in Calls : PaymentInv(c) /\ HandlerInv(c) /\ ResultInv(c)

-----------------------------------------------------------------------------
(***************************************************************************)
(* Types.                                                                  *)
(***************************************************************************)

Places == {"unused", "send", "track", "follow", "result", "register", "failed", "launch",
           "check", "recv", "handler", "answer", "report", "end", "done"}

\* A call goes from a place to a place.
LEMMA GoTypes ==
    ASSUME TypeOK, NEW c \in Calls, NEW from, NEW to \in Places, Go(c, from, to)
    PROVE  pc' \in [Calls -> Places]
BY DEF TypeOK, Go, Places

\* The step of a call that changes no more than where it is.
LEMMA LoopTypes ==
    ASSUME TypeOK, NEW c \in Calls, NEW from, NEW to \in Places, Loop(c, from, to),
           wg' \in 0 .. Cardinality(Calls)
    PROVE  TypeOK'
<1>1. pc' \in [Calls -> Places]
  BY GoTypes DEF Loop
<1>2. QED
  BY <1>1 DEF Loop, TypeOK, Places, chanVars, lndVars, svcVars

\* A return keeps the types.
LEMMA ReturnsTypes ==
    ASSUME TypeOK, NEW c \in Calls, NEW from, NEW result \in Results \cup {"none"},
           Returns(c, from, result), wg' \in 0 .. Cardinality(Calls)
    PROVE  TypeOK'
<1>1. pc' \in [Calls -> Places]
  BY GoTypes DEF Returns, Places
<1>2. hand' \in [Calls -> Results \cup {"none"}]
  BY DEF Returns, TypeOK
<1>3. QED
  BY <1>1, <1>2 DEF Returns, TypeOK, Places, chanVars, lndVars, svcVars

\* lnd's list of payments grows.
LEMMA StartsTypes ==
    ASSUME TypeOK, NEW c \in Calls, StartsPayment(c) \/ TracksPayment(c)
    PROVE  /\ payments' \in Seq({"inflight", "succeeded", "failed"})
           /\ follows' \in [Calls -> 0 .. Len(payments')]
           /\ refused' \in [Calls -> BOOLEAN] /\ ended' \in [Calls -> BOOLEAN]
<1>1. /\ payments \in Seq({"inflight", "succeeded", "failed"}) /\ Len(payments) \in Nat
      /\ follows \in [Calls -> 0 .. Len(payments)]
      /\ refused \in [Calls -> BOOLEAN] /\ ended \in [Calls -> BOOLEAN]
  BY DEF TypeOK
<1>2. CASE TracksPayment(c)
  BY <1>1, <1>2 DEF TracksPayment
<1>3. CASE StartsPayment(c)
  <2>1. /\ payments' \in Seq({"inflight", "succeeded", "failed"})
        /\ Len(payments') = Len(payments) + 1
    BY <1>1, <1>3, AppendProperties DEF StartsPayment
  <2>2. follows' \in [Calls -> 0 .. Len(payments')]
    BY <1>1, <1>3, <2>1 DEF StartsPayment
  <2>3. QED
    BY <1>1, <1>3, <2>1, <2>2 DEF StartsPayment
<1>4. QED
  BY <1>2, <1>3

\* The steps of a payment keep the types.
LEMMA PaymentTypes ==
    ASSUME TypeOK, NEW c \in Calls, PaymentInv(c), HandlerInv(c),
           wg' \in 0 .. Cardinality(Calls),
           \/ SendPayment(c) \/ TrackPayment(c) \/ PaymentResult(c) \/ SendResult(c)
           \/ PayInvoice(c)
    PROVE  TypeOK'
<1>0. /\ "error" \in Results /\ "exists" \in Results
      /\ {"send", "track", "follow", "end"} \subseteq Places
  BY DEF Results, Places
<1>1. ASSUME NEW to \in Places, Go(c, "send", to) \/ Go(c, "track", to),
             StartsPayment(c) \/ TracksPayment(c),
             UNCHANGED <<kind, reader, rcvd, answered, hand, ctx, chanVars, svcVars>>
      PROVE  TypeOK'
  <2>1. pc' \in [Calls -> Places]
    BY <1>1, GoTypes
  <2>2. QED
    BY <1>1, <2>1, StartsTypes DEF TypeOK, Places, chanVars, svcVars
<1>2. CASE SendPayment(c)
  <2>1. ASSUME Returns(c, "send", "error") \/ Returns(c, "send", "none")
        PROVE  TypeOK'
    BY <1>0, <2>1, ReturnsTypes
  <2>2. ASSUME Go(c, "send", "follow"), StartsPayment(c),
               UNCHANGED <<kind, reader, rcvd, answered, hand, ctx, chanVars, svcVars>>
        PROVE  TypeOK'
    BY <1>0, <1>1, <2>2
  <2>3. ASSUME Go(c, "send", "track"), UNCHANGED lndVars,
               UNCHANGED <<kind, reader, rcvd, answered, hand, ctx, chanVars, svcVars>>
        PROVE  TypeOK'
    BY <1>0, <2>3, LoopTypes DEF Loop
  <2>4. ASSUME Go(c, "send", "follow"), refused' = [refused EXCEPT ![c] = TRUE],
               UNCHANGED <<ended, follows, payments>>,
               UNCHANGED <<kind, reader, rcvd, answered, hand, ctx, chanVars, svcVars>>
        PROVE  TypeOK'
    <3>1. pc' \in [Calls -> Places]
      BY <1>0, <2>4, GoTypes
    <3>2. refused' \in [Calls -> BOOLEAN]
      BY <2>4 DEF TypeOK
    <3>3. QED
      BY <2>4, <3>1, <3>2 DEF TypeOK, Places, chanVars, svcVars
  <2>5. QED
    BY <1>2, <2>1, <2>2, <2>3, <2>4 DEF SendPayment
<1>3. CASE TrackPayment(c)
  <2>1. ASSUME Returns(c, "track", "error") \/ Returns(c, "track", "none")
        PROVE  TypeOK'
    BY <1>0, <2>1, ReturnsTypes
  <2>2. QED
    BY <1>0, <1>1, <1>3, <2>1 DEF TrackPayment
<1>4. CASE PaymentResult(c)
  <2>1. follows[c] # 0 => payments[follows[c]] \in {"inflight", "succeeded", "failed"}
    BY DEF TypeOK
  <2>2. \A state \in {"inflight", "succeeded", "failed"} :
            ResultOf(state) \in Results \cup {"none"}
    BY DEF ResultOf, Results
  <2>3. ASSUME NEW result \in Results \cup {"none"}, Returns(c, "follow", result)
        PROVE  TypeOK'
    BY <2>3, ReturnsTypes
  <2>4. QED
    BY <1>0, <1>4, <2>1, <2>2, <2>3 DEF PaymentResult
<1>5. CASE SendResult(c)
  <2>1. pc' \in [Calls -> Places]
    BY <1>0, <1>5, GoTypes DEF SendResult
  <2>2. results' \in [Calls -> {<<>>} \cup {<<r>> : r \in Results}]
    <3>1. kind[c] \in Methods /\ results \in [Calls -> {<<>>} \cup {<<r>> : r \in Results}]
          /\ hand[c] \in Results \cup {"none"}
      BY DEF TypeOK
    <3>2. pc[c] = "result" /\ results[c] = <<>>
      BY <1>5, <3>1 DEF SendResult, Go, PaymentInv, HandlerInv, Methods
    <3>3. hand[c] \in Results
      BY <3>1, <3>2 DEF PaymentInv, HandlerInv, Methods
    <3>4. results' = [results EXCEPT ![c] = <<hand[c]>>]
      BY <1>5, <3>2 DEF SendResult
    <3>5. QED
      BY <3>1, <3>3, <3>4
  <2>3. QED
    BY <1>5, <2>1, <2>2 DEF SendResult, TypeOK, Places, lndVars, svcVars
<1>6. CASE PayInvoice(c)
  <2>1. pc' \in [Calls -> Places]
    BY <1>0, <1>6, GoTypes DEF PayInvoice
  <2>2. QED
    BY <1>6, <2>1 DEF PayInvoice, TypeOK, Places, chanVars, lndVars
<1>7. QED
  BY <1>2, <1>3, <1>4, <1>5, <1>6

\* An error goes into errChan only when there is room for it.
LEMMA ErrsTypes ==
    ASSUME TypeOK, NEW c \in Calls,
           \/ errs[c] < 1 /\ errs' = [errs EXCEPT ![c] = @ + 1]
           \/ errs[c] > 0 /\ errs' = [errs EXCEPT ![c] = @ - 1]
           \/ errs' = errs
    PROVE  errs' \in [Calls -> 0 .. 1]
<1>1. errs \in [Calls -> 0 .. 1] /\ errs[c] \in 0 .. 1
  BY DEF TypeOK
<1>2. \E n \in 0 .. 1 : errs' = [errs EXCEPT ![c] = n]
  <2>1. CASE errs[c] < 1 /\ errs' = [errs EXCEPT ![c] = @ + 1]
    <3>1. errs[c] + 1 \in 0 .. 1
      BY <1>1, <2>1
    <3>2. QED
      BY <2>1, <3>1
  <2>2. CASE errs[c] > 0 /\ errs' = [errs EXCEPT ![c] = @ - 1]
    <3>1. errs[c] - 1 \in 0 .. 1
      BY <1>1, <2>2
    <3>2. QED
      BY <2>2, <3>1
  <2>3. CASE errs' = errs
    BY <1>1, <2>3
  <2>4. QED
    BY <2>1, <2>2, <2>3
<1>3. QED
  BY <1>1, <1>2

\* The steps of a handler, and of lnd with it, keep the types.
LEMMA HandlerTypes ==
    ASSUME TypeOK, NEW c \in Calls, HandlerInv(c), PaymentInv(c),
           wg' \in 0 .. Cardinality(Calls),
           \/ ChannelAcceptor(c) \/ RegisterRPCMiddleware(c)
           \/ (\E answer \in {"complete", "other"} : LndRegisters(c, answer))
           \/ ReaderFails(c) \/ Registered(c) \/ Launch(c) \/ CheckCtx(c) \/ LndAsks(c)
           \/ ReceiveFails(c) \/ HandlerReturns(c) \/ Answer(c) \/ Report(c) \/ End(c)
    PROVE  TypeOK'
<1> USE DEF lndVars, chanVars, svcVars
<1>0. {"launch", "register", "failed", "check", "recv", "handler", "report", "answer",
       "end", "done"} \subseteq Places
  BY DEF Places
<1>1. CASE ChannelAcceptor(c)
  BY <1>0, <1>1, LoopTypes DEF ChannelAcceptor, Loop
<1>2. CASE RegisterRPCMiddleware(c)
  <2>1. pc' \in [Calls -> Places]
    BY <1>0, <1>2, GoTypes DEF RegisterRPCMiddleware
  <2>2. reader' \in [Calls -> {"unused", "recv", "done"}]
    BY <1>2 DEF RegisterRPCMiddleware, TypeOK
  <2>3. QED
    BY <1>2, <2>1, <2>2 DEF RegisterRPCMiddleware, TypeOK, Places
<1>3. ASSUME NEW answer \in {"complete", "other"}, LndRegisters(c, answer)
      PROVE  TypeOK'
  <2>1. /\ reader' \in [Calls -> {"unused", "recv", "done"}]
        /\ reg' \in [Calls -> {"none", "complete", "other"}]
    BY <1>3 DEF LndRegisters, TypeOK
  <2>2. QED
    BY <1>3, <2>1 DEF LndRegisters, TypeOK
<1>4. CASE ReaderFails(c)
  <2>1. /\ reader' \in [Calls -> {"unused", "recv", "done"}]
        /\ errs' \in [Calls -> 0 .. 1]
    <3>1. reader' \in [Calls -> {"unused", "recv", "done"}]
      BY <1>4 DEF ReaderFails, TypeOK
    <3>2. errs' \in [Calls -> 0 .. 1]
      BY <1>4, ErrsTypes DEF ReaderFails
    <3>3. QED
      BY <3>1, <3>2
  <2>2. QED
    BY <1>4, <2>1 DEF ReaderFails, TypeOK
<1>5. CASE Registered(c)
  <2>1. pc' \in [Calls -> Places]
    BY <1>0, <1>5, GoTypes DEF Registered
  <2>2. errs' \in [Calls -> 0 .. 1] /\ reg' \in [Calls -> {"none", "complete", "other"}]
    <3>1. errs' \in [Calls -> 0 .. 1]
      BY <1>5, ErrsTypes DEF Registered
    <3>2. reg' \in [Calls -> {"none", "complete", "other"}]
      BY <1>5 DEF Registered, TypeOK
    <3>3. QED
      BY <3>1, <3>2
  <2>3. QED
    BY <1>5, <2>1, <2>2 DEF Registered, TypeOK, Places
<1>6. CASE Launch(c) \/ End(c)
  <2>1. pc' \in [Calls -> Places]
    BY <1>0, <1>6, GoTypes DEF Launch, End
  <2>2. QED
    BY <1>6, <2>1 DEF Launch, End, TypeOK, Places
<1>7. CASE CheckCtx(c) \/ ReceiveFails(c) \/ HandlerReturns(c)
  BY <1>0, <1>7, LoopTypes DEF CheckCtx, ReceiveFails, HandlerReturns
<1>8. CASE LndAsks(c)
  <2>1. pc' \in [Calls -> Places]
    BY <1>0, <1>8, GoTypes DEF LndAsks
  <2>2. rcvd' \in [Calls -> 0 .. MaxRequests]
    BY <1>8 DEF LndAsks, TypeOK
  <2>3. QED
    BY <1>8, <2>1, <2>2 DEF LndAsks, TypeOK, Places
<1>9. CASE Answer(c)
  <2>1. CASE Loop(c, "answer", "report")
    BY <1>0, <2>1, LoopTypes
  <2>2. CASE Go(c, "answer", "check") /\ answered' = [answered EXCEPT ![c] = @ + 1]
             /\ UNCHANGED <<kind, reader, rcvd, hand, ctx, chanVars, lndVars, svcVars>>
    <3>1. pc' \in [Calls -> Places]
      BY <1>0, <2>2, GoTypes
    <3>2. answered' \in [Calls -> Nat]
      BY <2>2 DEF TypeOK
    <3>3. QED
      BY <2>2, <3>1, <3>2 DEF TypeOK, Places
  <2>3. QED
    BY <1>9, <2>1, <2>2 DEF Answer
<1>10. CASE Report(c)
  <2>1. pc' \in [Calls -> Places]
    BY <1>0, <1>10, GoTypes DEF Report
  <2>2. errs' \in [Calls -> 0 .. 1]
    BY <1>10, ErrsTypes DEF Report
  <2>3. QED
    BY <1>10, <2>1, <2>2 DEF Report, TypeOK, Places
<1>11. QED
  BY <1>1, <1>2, <1>3, <1>4, <1>5, <1>6, <1>7, <1>8, <1>9, <1>10

\* Every step keeps the types.
LEMMA StepTypes ==
    ASSUME TypeOK, \A c \in Calls : PaymentInv(c) /\ HandlerInv(c),
           wg' \in 0 .. Cardinality(Calls), Next
    PROVE  TypeOK'
<1> USE DEF callVars, lndVars, chanVars, svcVars
<1>1. ASSUME NEW c \in Calls, ContextEnds(c)
      PROVE  TypeOK'
  <2>1. ctx' \in [Calls -> {"open", "cancelled", "expired"}]
    BY <1>1 DEF ContextEnds, TypeOK
  <2>2. QED
    BY <1>1, <2>1 DEF ContextEnds, TypeOK
<1>2. ASSUME NEW c \in Calls, LndEnds(c)
      PROVE  TypeOK'
  <2>1. ended' \in [Calls -> BOOLEAN]
    BY <1>2 DEF LndEnds, TypeOK
  <2>2. QED
    BY <1>2, <2>1 DEF LndEnds, TypeOK
<1>3. CASE LndPays
  <2>1. PICK k \in DOMAIN payments, state \in {"succeeded", "failed"} :
            payments' = [payments EXCEPT ![k] = state]
    BY <1>3 DEF LndPays
  <2>2. /\ payments' \in Seq({"inflight", "succeeded", "failed"})
        /\ Len(payments') = Len(payments)
    BY <2>1, ExceptSeq DEF TypeOK
  <2>3. QED
    BY <1>3, <2>2 DEF LndPays, TypeOK
<1>4. CASE CloseConn \/ WaitForFinished
  BY ZenonT(60), <1>4 DEF CloseConn, WaitForFinished, TypeOK
<1>5. QED
  BY <1>1, <1>2, <1>3, <1>4, PaymentTypes, HandlerTypes DEF Next, CallStep

-----------------------------------------------------------------------------
(***************************************************************************)
(* The wait group.                                                         *)
(***************************************************************************)

\* The goroutines in the wait group can be counted.
LEMMA CountedFinite ==
    /\ IsFiniteSet(Counted)
    /\ Cardinality(Counted) \in 0 .. Cardinality(Calls)
<1>1. Counted \subseteq Calls
  BY DEF Counted
<1>2. /\ IsFiniteSet(Counted) /\ Cardinality(Counted) <= Cardinality(Calls)
      /\ Cardinality(Counted) \in Nat /\ Cardinality(Calls) \in Nat
  BY <1>1, FS_Subset, FS_CardinalityType
<1>3. QED
  BY <1>2

\* They can be counted after a step, too.
LEMMA CountedFiniteNext ==
    Cardinality(Counted') \in 0 .. Cardinality(Calls)
<1>1. Counted' \subseteq Calls
  BY DEF Counted
<1>2. /\ IsFiniteSet(Counted') /\ Cardinality(Counted') <= Cardinality(Calls)
      /\ Cardinality(Counted') \in Nat /\ Cardinality(Calls) \in Nat
  BY <1>1, FS_Subset, FS_CardinalityType
<1>3. QED
  BY <1>2

\* A goroutine that goes on: neither it nor the count changes.
LEMMA GoCounts ==
    ASSUME TypeOK, WgCounts, NEW c \in Calls, NEW from, NEW to, Go(c, from, to),
           from \in CountedPlaces <=> to \in CountedPlaces, wg' = wg
    PROVE  WgCounts' /\ wg' \in 0 .. Cardinality(Calls)
<1>1. pc' = [pc EXCEPT ![c] = to] /\ pc[c] = from /\ DOMAIN pc = Calls
  BY DEF Go, TypeOK
<1>2. Counted' = Counted
  BY <1>1 DEF Counted
<1>3. QED
  BY <1>2, CountedFiniteNext DEF WgCounts

\* One that starts.
LEMMA StartCounts ==
    ASSUME TypeOK, WgCounts, NEW c \in Calls, NEW from, NEW to, Go(c, from, to),
           from \notin CountedPlaces, to \in CountedPlaces, wg' = wg + 1
    PROVE  WgCounts' /\ wg' \in 0 .. Cardinality(Calls)
<1>1. pc' = [pc EXCEPT ![c] = to] /\ pc[c] = from /\ DOMAIN pc = Calls
  BY DEF Go, TypeOK
<1>2. Counted' = Counted \cup {c} /\ c \notin Counted
  BY <1>1 DEF Counted
<1>3. Cardinality(Counted') = Cardinality(Counted) + 1
  BY <1>2, CountedFinite, FS_AddElement
<1>4. QED
  BY <1>3, CountedFiniteNext DEF WgCounts

\* One that ends.
LEMMA EndCounts ==
    ASSUME TypeOK, WgCounts, NEW c \in Calls, End(c)
    PROVE  WgCounts' /\ wg' \in 0 .. Cardinality(Calls)
<1>1. pc' = [pc EXCEPT ![c] = "done"] /\ pc[c] = "end" /\ DOMAIN pc = Calls
  BY DEF End, Go, TypeOK
<1>2. Counted' = Counted \ {c} /\ c \in Counted
  BY <1>1 DEF Counted, CountedPlaces
<1>3. Cardinality(Counted') = Cardinality(Counted) - 1
  BY <1>2, CountedFinite, FS_RemoveElement
<1>4. QED
  BY <1>3, CountedFiniteNext DEF WgCounts, End

\* A step that moves no goroutine keeps the count.
LEMMA StillCounts ==
    ASSUME WgCounts, pc' = pc, wg' = wg
    PROVE  WgCounts' /\ wg' \in 0 .. Cardinality(Calls)
BY CountedFinite DEF WgCounts, Counted

\* The wait group counts the goroutines after every step.
LEMMA StepCounts ==
    ASSUME TypeOK, WgCounts, Next
    PROVE  WgCounts' /\ wg' \in 0 .. Cardinality(Calls)
<1> USE DEF callVars, lndVars, chanVars, svcVars
<1>1. ASSUME NEW c \in Calls, PayInvoice(c) \/ Launch(c)
      PROVE  WgCounts' /\ wg' \in 0 .. Cardinality(Calls)
  BY <1>1, StartCounts DEF PayInvoice, Launch, CountedPlaces
<1>2. ASSUME NEW c \in Calls,
             \/ SendPayment(c) \/ TrackPayment(c) \/ PaymentResult(c) \/ SendResult(c)
             \/ ChannelAcceptor(c) \/ RegisterRPCMiddleware(c) \/ Registered(c)
      PROVE  WgCounts' /\ wg' \in 0 .. Cardinality(Calls)
  <2>1. CASE SendPayment(c)
    BY <2>1, GoCounts DEF SendPayment, Returns, CountedPlaces
  <2>2. CASE TrackPayment(c)
    BY <2>2, GoCounts DEF TrackPayment, Returns, CountedPlaces
  <2>3. CASE PaymentResult(c)
    BY <2>3, GoCounts DEF PaymentResult, Returns, CountedPlaces
  <2>4. CASE SendResult(c)
    BY <2>4, GoCounts DEF SendResult, CountedPlaces
  <2>5. CASE ChannelAcceptor(c) \/ RegisterRPCMiddleware(c)
    BY <2>5, GoCounts DEF ChannelAcceptor, RegisterRPCMiddleware, CountedPlaces
  <2>6. CASE Registered(c)
    BY <2>6, GoCounts DEF Registered, CountedPlaces
  <2>7. QED
    BY <1>2, <2>1, <2>2, <2>3, <2>4, <2>5, <2>6
<1>3. ASSUME NEW c \in Calls,
             \/ CheckCtx(c) \/ LndAsks(c) \/ ReceiveFails(c) \/ HandlerReturns(c)
             \/ Answer(c) \/ Report(c)
      PROVE  WgCounts' /\ wg' \in 0 .. Cardinality(Calls)
  <2>1. CASE CheckCtx(c) \/ ReceiveFails(c) \/ HandlerReturns(c)
    BY <2>1, GoCounts DEF CheckCtx, ReceiveFails, HandlerReturns, Loop, CountedPlaces
  <2>2. CASE LndAsks(c)
    BY <2>2, GoCounts DEF LndAsks, CountedPlaces
  <2>3. CASE Answer(c)
    BY <2>3, GoCounts DEF Answer, Loop, CountedPlaces
  <2>4. CASE Report(c)
    BY <2>4, GoCounts DEF Report, CountedPlaces
  <2>5. QED
    BY <1>3, <2>1, <2>2, <2>3, <2>4
<1>4. ASSUME NEW c \in Calls,
             \/ \E answer \in {"complete", "other"} : LndRegisters(c, answer)
             \/ ReaderFails(c) \/ LndEnds(c) \/ ContextEnds(c)
      PROVE  WgCounts' /\ wg' \in 0 .. Cardinality(Calls)
  BY <1>4, StillCounts DEF LndRegisters, ReaderFails, LndEnds, ContextEnds
<1>5. CASE LndPays \/ CloseConn \/ WaitForFinished
  BY <1>5, StillCounts DEF LndPays, CloseConn, WaitForFinished
<1>6. QED
  BY <1>1, <1>2, <1>3, <1>4, <1>5, EndCounts DEF Next, CallStep

-----------------------------------------------------------------------------
(***************************************************************************)
(* The steps of other calls.                                               *)
(***************************************************************************)

\* A step that leaves a call's own state alone.
Same(d) ==
    /\ kind'[d] = kind[d] /\ pc'[d] = pc[d] /\ reader'[d] = reader[d]
    /\ reg'[d] = reg[d] /\ rcvd'[d] = rcvd[d] /\ answered'[d] = answered[d]
    /\ hand'[d] = hand[d] /\ results'[d] = results[d] /\ errs'[d] = errs[d]
    /\ ctx'[d] = ctx[d] /\ follows'[d] = follows[d]

\* The steps of a call, with those of lnd and the caller about it.
StepOf(c) ==
    \/ PayInvoice(c) \/ ChannelAcceptor(c) \/ RegisterRPCMiddleware(c)
    \/ CallStep(c)
    \/ \E answer \in {"complete", "other"} : LndRegisters(c, answer)
    \/ LndAsks(c) \/ LndEnds(c) \/ ContextEnds(c)

\* A step of one call does not touch another.
LEMMA OthersAreSame ==
    ASSUME TypeOK, NEW c \in Calls, StepOf(c), NEW d \in Calls \ {c}
    PROVE  Same(d)
<1> USE DEF callVars, lndVars, chanVars, svcVars
<1>0. /\ DOMAIN pc = Calls /\ DOMAIN reader = Calls /\ DOMAIN reg = Calls
      /\ DOMAIN rcvd = Calls /\ DOMAIN answered = Calls /\ DOMAIN hand = Calls
      /\ DOMAIN results = Calls /\ DOMAIN errs = Calls /\ DOMAIN ctx = Calls
      /\ DOMAIN follows = Calls
  BY DEF TypeOK
<1>1. CASE SendPayment(c)
  BY <1>0, <1>1 DEF SendPayment, Returns, Go, StartsPayment, Same
<1>2. CASE TrackPayment(c)
  BY <1>0, <1>2 DEF TrackPayment, Returns, Go, TracksPayment, Same
<1>3. CASE PaymentResult(c) \/ SendResult(c) \/ PayInvoice(c)
  BY <1>0, <1>3 DEF PaymentResult, Returns, SendResult, PayInvoice, Go, Same
<1>4. CASE ChannelAcceptor(c) \/ RegisterRPCMiddleware(c) \/ Registered(c) \/ Launch(c)
             \/ ReaderFails(c)
             \/ \E answer \in {"complete", "other"} : LndRegisters(c, answer)
  BY <1>0, <1>4 DEF ChannelAcceptor, RegisterRPCMiddleware, Registered, Launch,
     ReaderFails, LndRegisters, Go, Same
<1>5. CASE CheckCtx(c) \/ ReceiveFails(c) \/ HandlerReturns(c) \/ Answer(c)
  BY <1>0, <1>5 DEF CheckCtx, ReceiveFails, HandlerReturns, Answer, Loop, Go, Same
<1>6. CASE LndAsks(c) \/ Report(c) \/ End(c) \/ LndEnds(c) \/ ContextEnds(c)
  BY <1>0, <1>6 DEF LndAsks, Report, End, LndEnds, ContextEnds, Go, Same
<1>7. QED
  BY <1>1, <1>2, <1>3, <1>4, <1>5, <1>6 DEF StepOf, CallStep

\* A payment that has ended stays as it is, and a connection closed.
LEMMA EndsAreFinal ==
    ASSUME TypeOK, Next
    PROVE  /\ \A k \in DOMAIN payments : payments[k] # "inflight" => payments'[k] = payments[k]
           /\ ~connOpen => ~connOpen'
<1> USE DEF callVars, lndVars, chanVars, svcVars
<1>0. payments \in Seq({"inflight", "succeeded", "failed"})
  BY DEF TypeOK
<1>1. CASE LndPays
  BY <1>0, <1>1 DEF LndPays
<1>2. ASSUME NEW c \in Calls, SendPayment(c)
      PROVE  /\ UNCHANGED connOpen
             /\ \A k \in DOMAIN payments : payments'[k] = payments[k]
  <2>1. CASE StartsPayment(c)
    <3>1. payments' = Append(payments, "inflight") /\ DOMAIN payments = 1 .. Len(payments)
      BY <1>0, <2>1, LenProperties DEF StartsPayment
    <3>2. \A k \in DOMAIN payments : payments'[k] = payments[k]
      BY <1>0, <3>1, AppendProperties
    <3>3. QED
      BY <1>2, <3>2 DEF SendPayment, Returns
  <2>2. CASE ~StartsPayment(c)
    BY <1>2, <2>2 DEF SendPayment, Returns
  <2>3. QED
    BY <2>1, <2>2
<1>3. ASSUME NEW c \in Calls, StepOf(c), ~SendPayment(c)
      PROVE  UNCHANGED <<payments, connOpen>>
  BY <1>3 DEF StepOf, CallStep, PayInvoice, ChannelAcceptor, RegisterRPCMiddleware,
     LndRegisters, LndAsks, LndEnds, ContextEnds, TrackPayment, TracksPayment, Returns,
     PaymentResult, SendResult, ReaderFails, Registered, Launch, CheckCtx, ReceiveFails,
     HandlerReturns, Answer, Loop, Report, End
<1>4. CASE CloseConn \/ WaitForFinished
  BY <1>4 DEF CloseConn, WaitForFinished
<1>5. QED
  BY <1>1, <1>2, <1>3, <1>4 DEF Next, StepOf

\* A call that is not touched keeps what is said of it.
LEMMA SameKeepsInv ==
    ASSUME TypeOK, Next, NEW d \in Calls, Same(d),
           PaymentInv(d), HandlerInv(d), ResultInv(d)
    PROVE  PaymentInv(d)' /\ HandlerInv(d)' /\ ResultInv(d)'
<1>1. HandlerInv(d)'
  BY DEF Same, HandlerInv
<1>2. PaymentInv(d)'
  <2>1. Canceled(d) => Canceled(d)'
    BY EndsAreFinal DEF Canceled, Same
  <2>2. QED
    BY <2>1 DEF PaymentInv, Same
<1>3. ResultInv(d)'
  <2>1. SUFFICES ASSUME hand[d] \in {"paid", "failed"}
                 PROVE  ResultOf(payments'[follows[d]]) = hand[d]
    BY DEF ResultInv, Same
  <2>2. /\ follows[d] \in DOMAIN payments /\ ResultOf(payments[follows[d]]) = hand[d]
        /\ follows[d] # 0
    <3>1. /\ payments \in Seq({"inflight", "succeeded", "failed"})
          /\ follows[d] \in 0 .. Len(payments)
      BY DEF TypeOK
    <3>2. QED
      BY <2>1, <3>1 DEF ResultInv
  <2>3. payments[follows[d]] # "inflight"
    BY <2>1, <2>2 DEF ResultOf
  <2>4. QED
    BY <2>2, <2>3, EndsAreFinal
<1>4. QED
  BY <1>1, <1>2, <1>3

-----------------------------------------------------------------------------
(***************************************************************************)
(* A call's own steps.                                                     *)
(***************************************************************************)

\* Where a call's own step can leave it.
LEMMA Moved ==
    ASSUME TypeOK, NEW c \in Calls, NEW from, NEW to, Go(c, from, to)
    PROVE  pc[c] = from /\ pc'[c] = to
BY DEF Go, TypeOK

\* The steps of a payment keep what is said of its call.
LEMMA PaymentSteps ==
    ASSUME TypeOK, NEW c \in Calls, PaymentInv(c), HandlerInv(c), ResultInv(c),
           \/ SendPayment(c) \/ TrackPayment(c) \/ PaymentResult(c) \/ SendResult(c)
           \/ PayInvoice(c)
    PROVE  PaymentInv(c)' /\ HandlerInv(c)' /\ ResultInv(c)'
<1> USE DEF lndVars, chanVars, svcVars
<1>0. /\ kind[c] = "PayInvoice" /\ kind' = kind /\ "PayInvoice" \notin Handlers
      /\ hand \in [Calls -> Results \cup {"none"}] /\ DOMAIN results = Calls
      /\ results[c] \in {<<>>} \cup {<<r>> : r \in Results}
      /\ DOMAIN follows = Calls
  <2>1. /\ hand \in [Calls -> Results \cup {"none"}] /\ DOMAIN results = Calls
        /\ results[c] \in {<<>>} \cup {<<r>> : r \in Results}
        /\ kind[c] \in Methods /\ DOMAIN follows = Calls
    BY DEF TypeOK
  <2>2. kind' = kind
    BY DEF SendPayment, TrackPayment, PaymentResult, SendResult, PayInvoice, Returns
  <2>3. pc[c] \in {"send", "track", "follow", "result"} \/ kind[c] = "PayInvoice"
    BY DEF SendPayment, TrackPayment, PaymentResult, SendResult, PayInvoice, Returns, Go
  <2>4. QED
    BY <2>1, <2>2, <2>3 DEF HandlerInv, Methods, Handlers
<1>1. HandlerInv(c)'
  BY <1>0 DEF HandlerInv
\* payInvoice returns something true, or is cut off with nothing.
<1>2. ASSUME NEW from \in {"send", "track", "follow"}, NEW result,
             Returns(c, from, result),
             result = "none" => Canceled(c),
             result \in {"paid", "failed"} =>
                 follows[c] # 0 /\ ResultOf(payments[follows[c]]) = result
      PROVE  PaymentInv(c)' /\ ResultInv(c)'
  <2>1. /\ pc[c] = from /\ pc'[c] = IF result = "none" THEN "end" ELSE "result"
        /\ hand'[c] = result
        /\ UNCHANGED <<reader, ctx, results, follows, payments, connOpen>>
    BY <1>0, <1>2, Moved DEF Returns
  <2>2. results[c] = <<>> /\ reader[c] = "unused"
    BY <1>0, <1>2, <2>1 DEF PaymentInv
  <2>3. PaymentInv(c)'
    BY <1>2, <2>1, <2>2 DEF PaymentInv, Canceled
  <2>4. ResultInv(c)'
    BY <1>2, <2>1, <2>2 DEF ResultInv
  <2>5. QED
    BY <2>3, <2>4
\* payInvoice goes on.
<1>3. ASSUME pc[c] \in {"unused", "send", "track"},
             pc'[c] \in {"send", "track", "follow"},
             UNCHANGED <<reader, hand, results>>
      PROVE  PaymentInv(c)' /\ ResultInv(c)'
  <2>1. hand[c] = "none" /\ results[c] = <<>> /\ reader[c] = "unused"
    BY <1>0, <1>3 DEF PaymentInv
  <2>2. QED
    BY <1>3, <2>1 DEF PaymentInv, ResultInv
<1>4. CASE SendPayment(c)
  <2>1. CASE Returns(c, "send", "error") \/ (Canceled(c) /\ Returns(c, "send", "none"))
    BY <1>1, <1>2, <2>1
  <2>2. CASE UNCHANGED <<kind, reader, rcvd, answered, hand, ctx, chanVars, svcVars>>
             /\ (Go(c, "send", "follow") \/ Go(c, "send", "track"))
    BY <1>1, <1>3, <2>2, Moved
  <2>3. QED
    BY <1>4, <2>1, <2>2 DEF SendPayment
<1>5. CASE TrackPayment(c)
  <2>1. CASE Returns(c, "track", "error") \/ (Canceled(c) /\ Returns(c, "track", "none"))
    BY <1>1, <1>2, <2>1
  <2>2. CASE UNCHANGED <<kind, reader, rcvd, answered, hand, ctx, chanVars, svcVars>>
             /\ Go(c, "track", "follow")
    BY <1>1, <1>3, <2>2, Moved
  <2>3. QED
    BY <1>5, <2>1, <2>2 DEF TrackPayment
<1>6. CASE PaymentResult(c)
  <2>1. CASE /\ follows[c] # 0 /\ payments[follows[c]] # "inflight"
             /\ Returns(c, "follow", ResultOf(payments[follows[c]]))
    <3>1. payments[follows[c]] \in {"succeeded", "failed"}
      <4>1. /\ payments \in Seq({"inflight", "succeeded", "failed"})
            /\ follows[c] \in 0 .. Len(payments)
        BY DEF TypeOK
      <4>2. QED
        BY <2>1, <4>1
    <3>2. ResultOf(payments[follows[c]]) # "none"
      BY <3>1 DEF ResultOf
    <3>3. QED
      BY <1>1, <1>2, <2>1, <3>2
  <2>2. CASE Returns(c, "follow", "exists") \/ Returns(c, "follow", "error")
    BY <1>1, <1>2, <2>2
  <2>3. CASE Canceled(c) /\ Returns(c, "follow", "none")
    BY <1>1, <1>2, <2>3
  <2>4. QED
    BY <1>6, <2>1, <2>2, <2>3 DEF PaymentResult
<1>7. CASE SendResult(c)
  <2>1. /\ pc[c] = "result" /\ pc'[c] = "end"
        /\ UNCHANGED <<reader, hand, follows, payments>>
    BY <1>7, Moved DEF SendResult
  <2>2. results[c] = <<>> /\ hand[c] # "none" /\ reader[c] = "unused"
    BY <1>0, <2>1 DEF PaymentInv
  <2>3. results'[c] = <<hand[c]>>
    BY <1>0, <1>7, <2>2 DEF SendResult
  <2>4. results'[c] # <<>>
    BY <2>3
  <2>5. QED
    BY <1>1, <2>1, <2>2, <2>3, <2>4 DEF PaymentInv, ResultInv
<1>8. CASE PayInvoice(c)
  <2>1. pc[c] = "unused" /\ pc'[c] = "send" /\ UNCHANGED <<reader, hand, results>>
    BY <1>8, Moved DEF PayInvoice
  <2>2. QED
    BY <1>1, <1>3, <2>1
<1>9. QED
  BY <1>1, <1>4, <1>5, <1>6, <1>7, <1>8

\* So do those of a handler,
LEMMA HandlerSteps ==
    ASSUME TypeOK, NEW c \in Calls, PaymentInv(c), HandlerInv(c), ResultInv(c),
           \/ ChannelAcceptor(c) \/ RegisterRPCMiddleware(c)
           \/ (\E answer \in {"complete", "other"} : LndRegisters(c, answer))
           \/ ReaderFails(c) \/ Registered(c) \/ Launch(c) \/ CheckCtx(c) \/ LndAsks(c)
           \/ ReceiveFails(c) \/ HandlerReturns(c) \/ Answer(c) \/ Report(c)
    PROVE  PaymentInv(c)' /\ HandlerInv(c)' /\ ResultInv(c)'
<1> USE DEF lndVars, chanVars, svcVars
<1>0. /\ kind[c] \in Handlers /\ kind' = kind /\ "PayInvoice" \notin Handlers
      /\ UNCHANGED <<hand, results, follows, payments>>
  <2>1. kind' = kind /\ UNCHANGED <<hand, results, follows, payments>>
    BY DEF ChannelAcceptor, RegisterRPCMiddleware, LndRegisters, ReaderFails, Registered,
       Launch, CheckCtx, LndAsks, ReceiveFails, HandlerReturns, Answer, Loop, Report
  <2>2. \/ pc[c] \in {"register", "launch", "check", "recv", "handler", "answer", "report"}
        \/ reader[c] = "recv"
        \/ kind[c] \in Handlers
    BY DEF ChannelAcceptor, RegisterRPCMiddleware, LndRegisters, ReaderFails, Registered,
       Launch, CheckCtx, LndAsks, ReceiveFails, HandlerReturns, Answer, Loop, Report, Go,
       Handlers
  <2>3. kind[c] \in Methods
    BY DEF TypeOK
  <2>4. QED
    BY <2>1, <2>2, <2>3 DEF PaymentInv, Methods, Handlers
<1>1. PaymentInv(c)' /\ ResultInv(c)'
  BY <1>0 DEF PaymentInv, ResultInv
<1>2. /\ DOMAIN pc = Calls /\ DOMAIN reader = Calls /\ DOMAIN reg = Calls
      /\ DOMAIN errs = Calls /\ DOMAIN rcvd = Calls /\ DOMAIN answered = Calls
      /\ errs[c] \in 0 .. 1 /\ rcvd[c] \in Nat /\ answered[c] \in Nat
      /\ reg[c] \in {"none", "complete", "other"}
      /\ reader[c] \in {"unused", "recv", "done"}
  BY DEF TypeOK
<1>3. CASE ChannelAcceptor(c) \/ RegisterRPCMiddleware(c)
  BY <1>0, <1>1, <1>2, <1>3 DEF ChannelAcceptor, RegisterRPCMiddleware, Go, HandlerInv
<1>4. CASE \E answer \in {"complete", "other"} : LndRegisters(c, answer)
  BY <1>0, <1>1, <1>2, <1>4 DEF LndRegisters, HandlerInv
<1>5. CASE ReaderFails(c)
  BY <1>0, <1>1, <1>2, <1>5 DEF ReaderFails, HandlerInv
<1>6. CASE Registered(c)
  BY <1>0, <1>1, <1>2, <1>6 DEF Registered, Go, HandlerInv
<1>7. CASE Launch(c)
  BY <1>0, <1>1, <1>2, <1>7 DEF Launch, Go, HandlerInv
<1>8. CASE CheckCtx(c) \/ ReceiveFails(c) \/ HandlerReturns(c)
  BY <1>0, <1>1, <1>2, <1>8 DEF CheckCtx, ReceiveFails, HandlerReturns, Loop, Go, HandlerInv
<1>9. CASE LndAsks(c)
  BY <1>0, <1>1, <1>2, <1>9 DEF LndAsks, Go, HandlerInv
<1>10. CASE Answer(c)
  BY <1>0, <1>1, <1>2, <1>10 DEF Answer, Loop, Go, HandlerInv
<1>11. CASE Report(c)
  BY <1>0, <1>1, <1>2, <1>11 DEF Report, Go, HandlerInv
<1>12. QED
  BY <1>1, <1>3, <1>4, <1>5, <1>6, <1>7, <1>8, <1>9, <1>10, <1>11

\* and the end of a call or of its context.
LEMMA OtherSteps ==
    ASSUME TypeOK, NEW c \in Calls, PaymentInv(c), HandlerInv(c), ResultInv(c),
           End(c) \/ ContextEnds(c)
    PROVE  PaymentInv(c)' /\ HandlerInv(c)' /\ ResultInv(c)'
<1> USE DEF lndVars, chanVars, svcVars
<1>0. /\ UNCHANGED <<kind, reader, rcvd, answered, hand, results, errs, reg, follows,
                     payments, connOpen>>
      /\ Canceled(c) => Canceled(c)'
  <2>1. UNCHANGED <<kind, reader, rcvd, answered, hand, results, errs, reg, follows,
                    payments, connOpen>>
    BY DEF End, ContextEnds
  <2>2. ctx[c] = "cancelled" => ctx'[c] = "cancelled"
    BY DEF End, ContextEnds
  <2>3. QED
    BY <2>1, <2>2 DEF Canceled
<1>1. ResultInv(c)'
  BY <1>0 DEF ResultInv
<1>2. pc'[c] = pc[c] \/ (pc[c] = "end" /\ pc'[c] = "done")
  BY Moved DEF End, ContextEnds
<1>3. PaymentInv(c)' /\ HandlerInv(c)'
  BY <1>0, <1>2 DEF PaymentInv, HandlerInv
<1>4. QED
  BY <1>1, <1>3

-----------------------------------------------------------------------------
(***************************************************************************)
(* The invariant and the theorems.                                         *)
(***************************************************************************)

\* At first no call has been made.
LEMMA InitInv ==
    ASSUME Init
    PROVE  Inv
<1>1. TypeOK
  <2>1. kind \in [Calls -> Methods]
    BY DEF Init
  <2>2. connOpen \in BOOLEAN /\ waited \in BOOLEAN
    BY DEF Init
  <2>3. wg \in 0 .. Cardinality(Calls)
    BY FS_CardinalityType, CallsAssumption DEF Init
  <2>4. /\ pc \in [Calls -> Places] /\ reader \in [Calls -> {"unused", "recv", "done"}]
        /\ reg \in [Calls -> {"none", "complete", "other"}]
        /\ ctx \in [Calls -> {"open", "cancelled", "expired"}]
        /\ hand \in [Calls -> Results \cup {"none"}]
    BY DEF Init, Places
  <2>5. /\ rcvd \in [Calls -> 0 .. MaxRequests] /\ answered \in [Calls -> Nat]
        /\ errs \in [Calls -> 0 .. 1]
    BY DEF Init
  <2>6. results \in [Calls -> {<<>>} \cup {<<r>> : r \in Results}]
    BY DEF Init
  <2>7. ended \in [Calls -> BOOLEAN] /\ refused \in [Calls -> BOOLEAN]
    BY DEF Init
  <2>8. /\ payments \in Seq({"inflight", "succeeded", "failed"})
        /\ follows \in [Calls -> 0 .. Len(payments)]
    BY DEF Init
  <2>9. QED
    BY <2>1, <2>2, <2>3, <2>4, <2>5, <2>6, <2>7, <2>8 DEF TypeOK, Places
<1>2. WgCounts
  <2>1. Counted = {}
    BY DEF Init, Counted, CountedPlaces
  <2>2. QED
    BY <2>1, FS_EmptySet DEF Init, WgCounts
<1>3. ASSUME NEW c \in Calls
      PROVE  PaymentInv(c) /\ HandlerInv(c) /\ ResultInv(c)
  BY DEF Init, PaymentInv, HandlerInv, ResultInv
<1>4. QED
  BY <1>1, <1>2, <1>3 DEF Inv

\* Every step keeps the invariant.
LEMMA StepInv ==
    ASSUME Inv, Next
    PROVE  Inv'
<1>1. TypeOK /\ WgCounts /\ \A c \in Calls : PaymentInv(c) /\ HandlerInv(c) /\ ResultInv(c)
  BY DEF Inv
<1>2. WgCounts' /\ wg' \in 0 .. Cardinality(Calls)
  BY <1>1, StepCounts
<1>3. TypeOK'
  BY <1>1, <1>2, StepTypes
<1>4. ASSUME NEW d \in Calls
      PROVE  PaymentInv(d)' /\ HandlerInv(d)' /\ ResultInv(d)'
  <2>1. ASSUME Same(d)
        PROVE  PaymentInv(d)' /\ HandlerInv(d)' /\ ResultInv(d)'
    BY <1>1, <2>1, SameKeepsInv
  <2>2. CASE LndPays \/ CloseConn \/ WaitForFinished
    <3>1. Same(d)
      BY <2>2 DEF LndPays, CloseConn, WaitForFinished, Same, callVars, chanVars, lndVars
    <3>2. QED
      BY <2>1, <3>1
  <2>3. ASSUME NEW c \in Calls, StepOf(c)
        PROVE  PaymentInv(d)' /\ HandlerInv(d)' /\ ResultInv(d)'
    <3>1. CASE c # d
      BY <1>1, <2>1, <2>3, <3>1, OthersAreSame
    <3>2. CASE c = d
      <4>1. CASE LndEnds(d)
        <5>1. Same(d)
          BY <4>1 DEF LndEnds, Same, callVars, chanVars
        <5>2. QED
          BY <2>1, <5>1
      <4>2. CASE ~LndEnds(d)
        BY <1>1, <2>3, <3>2, <4>2, PaymentSteps, HandlerSteps, OtherSteps
           DEF StepOf, CallStep
      <4>3. QED
        BY <4>1, <4>2
    <3>3. QED
      BY <3>1, <3>2
  <2>4. QED
    BY <2>2, <2>3 DEF Next, StepOf
<1>5. QED
  BY <1>2, <1>3, <1>4 DEF Inv

\* So does a step that changes nothing.
LEMMA StutterInv ==
    ASSUME Inv, UNCHANGED vars
    PROVE  Inv'
<1> USE DEF vars, callVars, lndVars, chanVars, svcVars
<1>1. TypeOK' /\ WgCounts'
  BY DEF Inv, TypeOK, WgCounts, Counted
<1>2. ASSUME NEW c \in Calls
      PROVE  PaymentInv(c)' /\ HandlerInv(c)' /\ ResultInv(c)'
  BY DEF Inv, PaymentInv, HandlerInv, ResultInv, Canceled
<1>3. QED
  BY <1>1, <1>2 DEF Inv

\* What the theorems below rest on holds in every reachable state, for any finite set of
\* calls of any methods and any bounds on requests and payments.
THEOREM Invariance == Spec => []Inv
<1>1. Init => Inv
  BY InitInv
<1>2. Inv /\ [Next]_vars => Inv'
  BY StepInv, StutterInv
<1>3. QED
  BY <1>1, <1>2, PTL DEF Spec

\* Types, the room in the channels, and a wait group between zero and the number of
\* calls.
THEOREM TypeCorrect == Spec => []TypeOK
<1>1. Inv => TypeOK
  BY DEF Inv
<1>2. QED
  BY Invariance, <1>1, PTL

\* A caller of PayInvoice is told of a success or a failure only when that is how the
\* payment its call follows has ended.
THEOREM PaymentResultIsTrue == Spec => []ResultIsTrue
<1>1. Inv => ResultIsTrue
  <2>1. SUFFICES ASSUME Inv, NEW c \in Calls, NEW i \in DOMAIN results[c],
                        results[c][i] \in {"paid", "failed"}
                 PROVE  /\ follows[c] # 0
                        /\ ResultOf(payments[follows[c]]) = results[c][i]
    BY DEF ResultIsTrue
  <2>2. results[c] = <<hand[c]>>
    BY <2>1 DEF Inv, ResultInv
  <2>3. results[c][i] = hand[c]
    BY <2>1, <2>2
  <2>4. QED
    BY <2>1, <2>3 DEF Inv, ResultInv
<1>2. QED
  BY Invariance, <1>1, PTL

\* A handler's goroutine ends with exactly one error in its channel and PayInvoice with a
\* result in its own, unless it was cancelled or cut off; and a handler's goroutine that
\* goes on has answered every request.
THEOREM CallEndIsTold == Spec => []EndIsTold
<1>1. Inv => EndIsTold
  <2>1. SUFFICES ASSUME Inv, NEW c \in Calls
                 PROVE  /\ pc[c] = "done" =>
                              IF kind[c] = "PayInvoice"
                                 THEN results[c] # <<>> \/ Canceled(c)
                                 ELSE errs[c] = 1
                        /\ kind[c] \in Handlers /\ pc[c] \in {"check", "recv"} =>
                              answered[c] = rcvd[c]
    BY DEF EndIsTold
  <2>2. PaymentInv(c) /\ HandlerInv(c) /\ kind[c] \in Methods
    BY <2>1 DEF Inv, TypeOK
  <2>3. QED
    BY <2>2 DEF PaymentInv, HandlerInv, Methods
<1>2. QED
  BY Invariance, <1>1, PTL

\* When WaitForFinished returns, no goroutine of a call is between its wg.Add and its
\* wg.Done: the counter is the number of those that are, so zero means none.  Only the
\* reader of a registration may go on, which no group counts.
THEOREM WaitIsForAll == Spec => WaitFindsNoneRunning
<1>1. ASSUME Inv, WaitForFinished, NEW c \in Calls
      PROVE  /\ pc[c] \in {"unused", "register", "launch", "failed", "done"}
             /\ reader[c] = "recv" => pc[c] = "register"
  <2>1. Counted = {}
    BY <1>1, CountedFinite, FS_EmptySet DEF Inv, WgCounts, WaitForFinished
  <2>2. pc[c] \in Places /\ pc[c] \notin CountedPlaces
    BY <1>1, <2>1 DEF Inv, TypeOK, Places, Counted
  <2>3. kind[c] \in Methods /\ PaymentInv(c) /\ HandlerInv(c)
    BY <1>1 DEF Inv, TypeOK
  <2>4. reader[c] = "recv" => pc[c] = "register"
    BY <2>3 DEF PaymentInv, HandlerInv, Methods
  <2>5. QED
    BY <2>2, <2>4 DEF Places, CountedPlaces
<1>2. Inv => [WaitForFinished =>
          \A c \in Calls :
              /\ pc[c] \in {"unused", "register", "launch", "failed", "done"}
              /\ reader[c] = "recv" => pc[c] = "register"]_vars
  BY <1>1
<1>3. QED
  BY Invariance, <1>2, PTL DEF WaitFindsNoneRunning
=============================================================================
