---------------------------- MODULE PromiseProofs ----------------------------
(***************************************************************************)
(* Every pump implements SubscriptionPromise, and what follows for its     *)
(* caller.  SubscribeTransactions is the exception throughout: it goes on  *)
(* after it has reported an error.                                         *)
(***************************************************************************)
EXTENDS SubscriptionsProofs

-----------------------------------------------------------------------------
(* The inductive invariant of one pump. *)

Told(s) == errs[s] + errGot[s]

InLoop(s) == pc[s] \in {"unused", "launch", "recv", "deliver", "report"}

\* What is in the pump's hand, and what may be in its stream.
Holds(s) ==
    /\ rcvd[s] <= Len(sent[s])
    /\ Profile(s).updCap = 0 => upd[s] = <<>>
    /\ \A i \in DOMAIN sent[s] :
          sent[s][i] = "final" => Profile(s).finalCloses
    /\ pc[s] = "deliver" =>
          hand[s] = rcvd[s] /\ rcvd[s] > 0 /\ sent[s][rcvd[s]] # "bad"

\* What has been passed was received, converted, and is older than what is in
\* the pump's hand.
Ordered(s) ==
    \A i \in DOMAIN Passed(s) :
        /\ Passed(s)[i] \in 1 .. rcvd[s]
        /\ pc[s] = "deliver" => Passed(s)[i] < rcvd[s]
        /\ sent[s][Passed(s)[i]] # "bad"
        /\ \A j \in DOMAIN Passed(s) : i < j => Passed(s)[i] < Passed(s)[j]

\* Unless the caller has cancelled, nothing is missing but the message in the
\* pump's hand or the bad one that ends its loop.
Gapless(s) ==
    ~ctx[s] =>
        /\ \A i \in DOMAIN Passed(s) : Passed(s)[i] = i
        /\ \/ pc[s] # "deliver" /\ Len(Passed(s)) = rcvd[s]
           \/ pc[s] = "deliver" /\ Len(Passed(s)) + 1 = rcvd[s]
           \/ /\ pc[s] \in {"report", "exit", "done"}
              /\ Len(Passed(s)) + 1 = rcvd[s]
              /\ sent[s][rcvd[s]] = "bad"

FinalPassed(s) ==
    Passed(s) # <<>> /\ sent[s][Passed(s)[Len(Passed(s))]] = "final"

\* A pump in its loop has not shown an end.
Silent(s) == InLoop(s) => Told(s) = 0 /\ closed[s] = {} /\ ~FinalPassed(s)

\* A pump that reports or ends has a reason, and one that has ended has shown
\* it.
Reason(s) ==
    /\ pc[s] = "report" =>
          \/ ctx[s] \/ ~connOpen
          \/ Len(Passed(s)) + 1 = rcvd[s] /\ sent[s][rcvd[s]] = "bad"
          \/ ended[s] # "no" /\ Len(Passed(s)) = Len(sent[s])
    /\ pc[s] \in {"exit", "done"} =>
          \/ ctx[s] \/ Told(s) > 0 \/ FinalPassed(s)
          \/ ended[s] = "eof" /\ Len(Passed(s)) = Len(sent[s])
    /\ pc[s] = "exit" => ctx[s] \/ Told(s) > 0 \/ cause[s] \in {"eof", "final"}
    /\ pc[s] = "done" => ctx[s] \/ Told(s) > 0 \/ closed[s] = {"upd", "err"}

PumpInv(s) ==
    Holds(s) /\ Ordered(s) /\ Gapless(s) /\ Silent(s) /\ Reason(s)

-----------------------------------------------------------------------------
(* What has been passed, as a sequence. *)

\* An update that enters the buffer is the last of what has been passed.
LEMMA AppendPasses ==
    ASSUME NEW g \in Seq(Nat), NEW u \in Seq(Nat), NEW n \in Nat
    PROVE  g \o Append(u, n) = Append(g \o u, n)
<1>1. g \o u \in Seq(Nat) /\ Append(u, n) \in Seq(Nat)
  OBVIOUS
<1>2. Len(g \o Append(u, n)) = Len(Append(g \o u, n))
  BY <1>1
<1>3. \A i \in 1 .. Len(g \o Append(u, n)) :
          (g \o Append(u, n))[i] = Append(g \o u, n)[i]
  BY <1>1
<1>4. QED
  BY <1>1, <1>2, <1>3, SeqEqual

\* What a caller was passed is a sequence of numbers.
LEMMA PassedType ==
    ASSUME TypeOK, NEW s \in Subs
    PROVE  Passed(s) \in Seq(Nat)
BY DEF TypeOK, Passed

-----------------------------------------------------------------------------
(* Steps. *)

\* The step leaves what lnd has sent to s, and what s's caller can see, alone.
Unseen(s) ==
    /\ kind' = kind
    /\ sent'[s] = sent[s] /\ ended'[s] = ended[s] /\ ctx'[s] = ctx[s]
    /\ Passed(s)' = Passed(s) /\ Told(s)' = Told(s) /\ closed'[s] = closed[s]
    /\ upd[s] = <<>> => upd'[s] = <<>>

\* The step leaves the pump of s alone as well.
Elsewhere(s) ==
    /\ Unseen(s)
    /\ pc'[s] = pc[s] /\ rcvd'[s] = rcvd[s] /\ hand'[s] = hand[s]
    /\ cause'[s] = cause[s]
    /\ connOpen' = connOpen \/ connOpen' = FALSE

PromiseStep(s) == [Promise(s)!Next]_(Promise(s)!vars)

\* Who is not in a step keeps its invariant, and its promise stutters or is cancelled.
LEMMA ElsewhereKeeps ==
    ASSUME TypeOK, NEW s \in Subs, PumpInv(s), Elsewhere(s)
    PROVE  PumpInv(s)' /\ PromiseStep(s)
<1>0. ctx[s] \in BOOLEAN /\ connOpen \in BOOLEAN
  BY DEF TypeOK
<1>1. PumpInv(s)'
  <2>1. Holds(s)'
    BY DEF PumpInv, Holds, Elsewhere, Unseen, Profile
  <2>2. Ordered(s)' /\ Gapless(s)'
    BY DEF PumpInv, Ordered, Gapless, Elsewhere, Unseen
  <2>3. FinalPassed(s)' = FinalPassed(s)
    BY DEF FinalPassed, Elsewhere, Unseen
  <2>4. Silent(s)'
    BY <2>3 DEF PumpInv, Silent, InLoop, Elsewhere, Unseen
  <2>5. Reason(s)'
    BY <1>0, <2>3 DEF PumpInv, Reason, Elsewhere, Unseen
  <2>6. QED
    BY <2>1, <2>2, <2>4, <2>5 DEF PumpInv
<1>2. CASE connOpen' = connOpen
  BY <1>1, <1>2 DEF PromiseStep, Promise!vars, Elsewhere, Unseen, Told
<1>3. CASE connOpen' = FALSE
  BY <1>1, <1>3 DEF PromiseStep, Promise!Next, Promise!Lose, Elsewhere, Unseen, Told
<1>4. QED
  BY <1>2, <1>3 DEF Elsewhere

\* A step of another subscription is elsewhere.
LEMMA OtherStep ==
    ASSUME TypeOK, NEW s \in Subs, NEW t \in Subs \ {s},
           QuietStep(t) \/ Launch(t) \/ Finish(t)
    PROVE  Elsewhere(s)
<1> USE DEF TypeOK, Elsewhere, Unseen, Passed, Told,
    pumpVars, lndVars, chanVars, readVars, svcVars
<1>1. CASE OpenStream(t)
  BY <1>1 DEF OpenStream
<1>2. CASE Launch(t) \/ Finish(t)
  BY <1>2 DEF Launch, Finish
<1>3. CASE ReceiveValue(t) \/ ReceiveBad(t)
  BY <1>3 DEF ReceiveValue, ReceiveBad
<1>4. CASE ReceiveEOF(t) \/ ReceiveError(t)
  BY <1>4 DEF ReceiveEOF, ReceiveError
<1>5. CASE Report(t) \/ ReportHandover(t) \/ ReportCancelled(t)
  BY <1>5 DEF Report, ReportHandover, ReportCancelled, AfterReport
<1>6. CASE Deliver(t)
  BY <1>6, ZenonT(60) DEF Deliver, AfterDelivery
<1>7. CASE DeliverHandover(t)
  BY <1>7, ZenonT(60) DEF DeliverHandover, AfterDelivery
<1>8. CASE DeliverCancelled(t)
  BY <1>8 DEF DeliverCancelled
<1>9. CASE TakeUpdate(t) \/ TakeError(t) \/ Cancel(t)
  BY <1>9, ZenonT(60) DEF TakeUpdate, TakeError, Cancel
<1>10. CASE LndStep(t) \/ \E ch \in {"upd", "err"} : CloseChan(t, ch)
  BY <1>10, ZenonT(60) DEF LndStep, LndSends, LndEnds, CloseChan
<1>11. QED
  BY <1>1, <1>2, <1>3, <1>4, <1>5, <1>6, <1>7, <1>8, <1>9, <1>10 DEF QuietStep

\* So is reading, for the one who reads.
LEMMA ReadingIsElsewhere ==
    ASSUME TypeOK, NEW s \in Subs, TakeUpdate(s) \/ TakeError(s)
    PROVE  Elsewhere(s)
<1>1. CASE TakeUpdate(s)
  <2>1. /\ got[s] \in Seq(Nat) /\ upd[s] \in Seq(Nat) /\ upd[s] # <<>>
        /\ got'[s] = Append(got[s], Head(upd[s])) /\ upd'[s] = Tail(upd[s])
    BY <1>1 DEF TypeOK, TakeUpdate
  <2>2. Passed(s)' = Passed(s)
    BY <2>1, TakeKeeps DEF Passed
  <2>3. QED
    BY <1>1, <2>1, <2>2
       DEF TakeUpdate, Elsewhere, Unseen, Told, pumpVars, lndVars, svcVars
<1>2. CASE TakeError(s)
  <2>1. Told(s)' = Told(s)
    BY <1>2 DEF TypeOK, TakeError, Told
  <2>2. QED
    BY <1>2, <2>1
       DEF TakeError, Elsewhere, Unseen, Passed, pumpVars, lndVars, svcVars
<1>3. QED
  BY <1>1, <1>2

-----------------------------------------------------------------------------
(* The steps of a pump that its caller does not see. *)

Internal(s) ==
    \/ OpenStream(s) \/ Launch(s)
    \/ ReceiveValue(s) \/ ReceiveBad(s) \/ ReceiveEOF(s) \/ ReceiveError(s)
    \/ ReportCancelled(s) \/ DeliverCancelled(s) \/ Finish(s)

\* An internal step shows the caller nothing.
LEMMA InternalIsUnseen ==
    ASSUME TypeOK, NEW s \in Subs, Internal(s)
    PROVE  Unseen(s) /\ connOpen' = connOpen
BY ZenonT(60)
   DEF Internal, Unseen, Passed, Told, OpenStream, Launch, ReceiveValue,
   ReceiveBad, ReceiveEOF, ReceiveError, ReportCancelled, DeliverCancelled,
   Finish, lndVars, chanVars, readVars, svcVars

\* The values of one pump.
LEMMA ValueTypes ==
    ASSUME TypeOK, NEW s \in Subs
    PROVE  /\ rcvd[s] \in Nat /\ hand[s] \in Nat /\ Told(s) \in Nat
           /\ sent[s] \in Seq({"value", "bad", "final"})
           /\ ctx[s] \in BOOLEAN /\ connOpen \in BOOLEAN
           /\ Passed(s) \in Seq(Nat) /\ Profile(s) \in ProfileType
BY PassedType, ProfileOfSub, SMTT(30) DEF TypeOK, Told

\* It keeps the invariant of its pump and is a stutter of the promise.
LEMMA InternalKeeps ==
    ASSUME TypeOK, OneReport, NEW s \in Subs, PumpInv(s), Internal(s)
    PROVE  PumpInv(s)' /\ PromiseStep(s)
<1>1. Unseen(s) /\ connOpen' = connOpen
  BY InternalIsUnseen
<1>2. PromiseStep(s)
  BY <1>1 DEF PromiseStep, Promise!vars, Unseen, Told
<1>3. Profile(s)' = Profile(s) /\ FinalPassed(s)' = FinalPassed(s)
  BY <1>1 DEF Unseen, Profile, FinalPassed
<1> USE <1>1, <1>3, ValueTypes
    DEF PumpInv, Holds, Ordered, Gapless, Silent, InLoop, Reason, Unseen
<1>4. CASE OpenStream(s)
  <2>1. pc[s] = "unused" /\ pc'[s] = "launch" /\ UNCHANGED <<rcvd, hand, cause>>
    BY <1>4 DEF TypeOK, OpenStream
  <2>2. PumpInv(s)'
    BY <2>1
  <2>3. QED
    BY <1>2, <2>2
<1>5. CASE Launch(s)
  <2>1. pc[s] = "launch" /\ pc'[s] = "recv" /\ UNCHANGED <<rcvd, hand, cause>>
    BY <1>5 DEF TypeOK, Launch
  <2>2. PumpInv(s)'
    BY <2>1
  <2>3. QED
    BY <1>2, <2>2
<1>6. CASE ReceiveValue(s)
  <2>1. /\ pc[s] = "recv" /\ pc'[s] = "deliver" /\ rcvd[s] < Len(sent[s])
        /\ sent[s][rcvd[s] + 1] # "bad"
        /\ rcvd'[s] = rcvd[s] + 1 /\ hand'[s] = rcvd[s] + 1
    BY <1>6 DEF TypeOK, ReceiveValue, HasNext
  <2>2. PumpInv(s)'
    BY <2>1
  <2>3. QED
    BY <1>2, <2>2
<1>7. CASE ReceiveBad(s)
  <2>1. /\ pc[s] = "recv" /\ pc'[s] = "report" /\ rcvd[s] < Len(sent[s])
        /\ sent[s][rcvd[s] + 1] = "bad" /\ rcvd'[s] = rcvd[s] + 1
    BY <1>7 DEF TypeOK, ReceiveBad, HasNext
  <2>2. PumpInv(s)'
    BY <2>1
  <2>3. QED
    BY <1>2, <2>2
<1>8. CASE ReceiveEOF(s)
  <2>1. /\ pc[s] = "recv" /\ pc'[s] = "exit" /\ rcvd[s] >= Len(sent[s])
        /\ ended[s] = "eof" /\ cause'[s] = "eof" /\ rcvd' = rcvd
    BY <1>8 DEF TypeOK, ReceiveEOF, HasNext
  <2>2. PumpInv(s)'
    BY <2>1
  <2>3. QED
    BY <1>2, <2>2
<1>9. CASE ReceiveError(s)
  <2>1. /\ pc[s] = "recv" /\ pc'[s] = "report" /\ rcvd' = rcvd
        /\ \/ ctx[s] \/ ~connOpen
           \/ rcvd[s] >= Len(sent[s]) /\ ended[s] \in {"eof", "err"}
    BY <1>9 DEF TypeOK, ReceiveError, HasNext
  <2>2. PumpInv(s)'
    BY <2>1
  <2>3. QED
    BY <1>2, <2>2
<1>10. CASE ReportCancelled(s)
  <2>1. pc[s] = "report" /\ pc'[s] = "exit" /\ ctx[s] /\ rcvd' = rcvd
    BY <1>10 DEF TypeOK, OneReport, ReportCancelled, AfterReport
  <2>2. PumpInv(s)'
    BY <2>1
  <2>3. QED
    BY <1>2, <2>2
<1>11. CASE DeliverCancelled(s)
  <2>1. /\ pc[s] = "deliver" /\ pc'[s] \in {"exit", "report", "recv"}
        /\ ctx[s] /\ rcvd' = rcvd
    BY <1>11 DEF TypeOK, DeliverCancelled
  <2>2. PumpInv(s)'
    BY <2>1
  <2>3. QED
    BY <1>2, <2>2
<1>12. CASE Finish(s)
  <2>1. pc[s] = "exit" /\ pc'[s] = "done" /\ rcvd' = rcvd
    BY <1>12 DEF TypeOK, Finish
  <2>2. cause[s] \in {"eof", "final"} => closed[s] = {"upd", "err"}
    BY <1>12 DEF TypeOK, Finish, Unclosed
  <2>3. PumpInv(s)'
    BY <2>1, <2>2
  <2>4. QED
    BY <1>2, <2>3
<1>13. QED
  BY <1>4, <1>5, <1>6, <1>7, <1>8, <1>9, <1>10, <1>11, <1>12 DEF Internal

-----------------------------------------------------------------------------
(* The steps that are steps of the promise. *)

\* lnd's steps and the cancelling of the context.
LEMMA OutsideKeeps ==
    ASSUME TypeOK, NEW s \in Subs, PumpInv(s), LndStep(s) \/ Cancel(s)
    PROVE  PumpInv(s)' /\ PromiseStep(s)
<1>1. /\ kind' = kind /\ connOpen' = connOpen /\ pc' = pc /\ rcvd' = rcvd
      /\ hand' = hand /\ cause' = cause /\ closed' = closed /\ upd' = upd
      /\ Passed(s)' = Passed(s) /\ Told(s)' = Told(s)
  BY DEF LndStep, LndSends, LndEnds, Cancel, pumpVars, chanVars, readVars,
     svcVars, Passed, Told
<1>2. Profile(s)' = Profile(s)
  BY <1>1 DEF Profile
<1> USE <1>1, <1>2, ValueTypes
    DEF PumpInv, Holds, Ordered, Gapless, Silent, InLoop, Reason
<1>3. ASSUME NEW class \in MessageClass(s), LndSends(s, class)
      PROVE  PumpInv(s)' /\ PromiseStep(s)
  <2>1. /\ connOpen /\ ~ctx[s] /\ ended[s] = "no"
        /\ sent'[s] = Append(sent[s], class)
        /\ ended'[s] = ended[s] /\ ctx'[s] = ctx[s]
        /\ class \in {"value", "bad", "final"}
        /\ class = "final" => Profile(s).finalCloses
    BY <1>3 DEF TypeOK, LndSends, MessageClass
  <2>2. /\ Len(sent'[s]) = Len(sent[s]) + 1
        /\ \A i \in 1 .. Len(sent[s]) : sent'[s][i] = sent[s][i]
        /\ sent'[s][Len(sent[s]) + 1] = class
    BY <2>1
  <2>3. FinalPassed(s)' = FinalPassed(s)
    <3>1. Passed(s) # <<>> =>
              Passed(s)[Len(Passed(s))] \in 1 .. Len(sent[s])
      <4>1. Passed(s) # <<>> => Len(Passed(s)) \in DOMAIN Passed(s)
        OBVIOUS
      <4>2. QED
        BY <4>1
    <3>2. QED
      BY <2>2, <3>1 DEF FinalPassed
  <2>4. Holds(s)' /\ Ordered(s)'
    <3>1. Holds(s)'
      <4>1. rcvd[s] \in Nat /\ sent[s] \in Seq({"value", "bad", "final"})
        BY DEF TypeOK
      <4>2. rcvd[s] <= Len(sent[s]) /\ Len(sent[s]) \in Nat
        BY <4>1
      <4>3. sent'[s] \in Seq({"value", "bad", "final"})
        BY <2>1, <4>1
      <4>4. DOMAIN sent[s] = 1 .. Len(sent[s]) /\ DOMAIN sent'[s] = 1 .. Len(sent[s]) + 1
        BY <2>2, <4>1, <4>3
      <4>5. /\ rcvd'[s] <= Len(sent'[s])
            /\ rcvd[s] > 0 => sent'[s][rcvd[s]] = sent[s][rcvd[s]]
        BY <2>2, <4>1, <4>2
      <4>6. \A i \in DOMAIN sent'[s] :
                sent'[s][i] = "final" => Profile(s)'.finalCloses
        BY <2>1, <2>2, <4>2, <4>4
      <4>7. QED
        BY <4>5, <4>6
    <3>2. Ordered(s)'
      BY <2>1, <2>2, SMTT(30)
    <3>3. QED
      BY <3>1, <3>2
  <2>5. Gapless(s)' /\ Silent(s)'
    BY <2>1, <2>2, <2>3
  <2>6. Reason(s)'
    BY <2>1, <2>2, <2>3
  <2>7. PromiseStep(s)
    BY <2>1 DEF PromiseStep, Promise!Next, Promise!LndSends, Told
  <2>8. QED
    BY <2>4, <2>5, <2>6, <2>7
<1>4. ASSUME NEW how \in {"eof", "err"}, LndEnds(s, how)
      PROVE  PumpInv(s)' /\ PromiseStep(s)
  <2>1. /\ connOpen /\ ~ctx[s] /\ ended[s] = "no" /\ ended'[s] = how
        /\ sent'[s] = sent[s] /\ ctx'[s] = ctx[s]
    BY <1>4 DEF TypeOK, LndEnds
  <2>2. FinalPassed(s)' = FinalPassed(s)
    BY <2>1 DEF FinalPassed
  <2>3. PumpInv(s)'
    BY <2>1, <2>2
  <2>4. PromiseStep(s)
    BY <2>1 DEF PromiseStep, Promise!Next, Promise!LndEnds, Told
  <2>5. QED
    BY <2>3, <2>4
<1>5. CASE Cancel(s)
  <2>1. ctx'[s] = TRUE /\ sent'[s] = sent[s] /\ ended'[s] = ended[s]
    BY <1>5 DEF TypeOK, Cancel, lndVars
  <2>2. FinalPassed(s)' = FinalPassed(s)
    BY <2>1 DEF FinalPassed
  <2>3. PumpInv(s)'
    BY <2>1, <2>2
  <2>4. PromiseStep(s)
    BY <2>1 DEF PromiseStep, Promise!Next, Promise!Cancel, Told
  <2>5. QED
    BY <2>3, <2>4
<1>6. QED
  BY <1>3, <1>4, <1>5 DEF LndStep

\* A pump that reports is told of once, and for a reason.
LEMMA ReportKeeps ==
    ASSUME TypeOK, OneReport, NEW s \in Subs, PumpInv(s),
           Report(s) \/ ReportHandover(s)
    PROVE  PumpInv(s)' /\ PromiseStep(s)
<1>1. /\ kind' = kind /\ connOpen' = connOpen /\ rcvd' = rcvd /\ sent' = sent
      /\ ended' = ended /\ ctx' = ctx /\ closed' = closed /\ upd' = upd
      /\ Passed(s)' = Passed(s)
      /\ pc[s] = "report" /\ pc'[s] = "exit"
  BY DEF TypeOK, OneReport, Report, ReportHandover, AfterReport, lndVars,
     chanVars, readVars, svcVars, Passed
<1>2. Told(s)' = Told(s) + 1
  BY DEF TypeOK, Report, ReportHandover, Told, readVars, chanVars
<1>3. Told(s) = 0 /\ closed[s] = {} /\ ~FinalPassed(s)
  BY <1>1 DEF PumpInv, Silent, InLoop
<1>4. PumpInv(s)'
  BY <1>1, <1>2, <1>3, ValueTypes
     DEF PumpInv, Holds, Ordered, Gapless, Silent, InLoop, Reason, Profile
<1>5. Promise(s)!Open
  BY <1>3 DEF Promise!Open, Promise!FinalPassed, FinalPassed, Told
<1>6. Promise(s)!Complete \/ Promise(s)!NextIsBad \/ ctx[s] \/ ~connOpen
  BY <1>1, ValueTypes
     DEF PumpInv, Holds, Reason, Promise!Complete, Promise!NextIsBad
<1>7. PromiseStep(s)
  BY <1>1, <1>2, <1>3, <1>5, <1>6
     DEF PromiseStep, Promise!Next, Promise!Tell, Told
<1>8. QED
  BY <1>4, <1>7

\* What is delivered is the last of what has been passed, and the next one.
LEMMA DeliverKeeps ==
    ASSUME TypeOK, NEW s \in Subs, PumpInv(s),
           Deliver(s) \/ DeliverHandover(s)
    PROVE  PumpInv(s)' /\ PromiseStep(s)
<1>1. /\ kind' = kind /\ connOpen' = connOpen /\ rcvd' = rcvd /\ sent' = sent
      /\ ended' = ended /\ ctx' = ctx /\ closed' = closed
      /\ hand' = hand /\ Told(s)' = Told(s) /\ pc[s] = "deliver"
  BY DEF Deliver, DeliverHandover, lndVars, chanVars, readVars, svcVars, Told
<1>2. hand[s] = rcvd[s] /\ rcvd[s] > 0 /\ sent[s][rcvd[s]] # "bad"
  BY <1>1 DEF PumpInv, Holds
<1>3. Passed(s)' = Append(Passed(s), rcvd[s])
  <2>1. got[s] \in Seq(Nat) /\ upd[s] \in Seq(Nat) /\ rcvd[s] \in Nat
    BY DEF TypeOK
  <2>2. CASE Deliver(s)
    <3>1. got'[s] = got[s] /\ upd'[s] = Append(upd[s], rcvd[s])
      BY <1>2, <2>2 DEF TypeOK, Deliver, readVars
    <3>2. QED
      BY <2>1, <3>1, AppendPasses DEF Passed
  <2>3. CASE DeliverHandover(s)
    <3>1. /\ got'[s] = Append(got[s], rcvd[s]) /\ upd'[s] = upd[s]
          /\ upd[s] = <<>>
      BY <1>2, <2>3 DEF TypeOK, DeliverHandover, chanVars, PumpInv, Holds
    <3>2. /\ Append(got[s], rcvd[s]) \o <<>> = Append(got[s], rcvd[s])
          /\ got[s] \o <<>> = got[s]
      BY <2>1, ConcatEmptySeq
    <3>3. QED
      BY <3>1, <3>2 DEF Passed
  <2>4. QED
    BY <2>2, <2>3
<1>4. Profile(s).updCap = 0 => upd'[s] = <<>>
  <2>1. upd[s] \in Seq(Nat) /\ Profile(s).updCap \in {0, 1}
    BY ValueTypes DEF TypeOK, ProfileType
  <2>2. CASE Deliver(s)
    BY <2>1, <2>2 DEF Deliver
  <2>3. CASE DeliverHandover(s)
    BY <2>3 DEF DeliverHandover, chanVars, PumpInv, Holds
  <2>4. QED
    BY <2>2, <2>3
<1>5. /\ pc'[s] = IF sent[s][rcvd[s]] = "final" THEN "exit" ELSE "recv"
      /\ sent[s][rcvd[s]] = "final" => cause'[s] = "final"
  <2>1. sent[s][rcvd[s]] = "final" => Profile(s).finalCloses
    BY <1>2, ValueTypes DEF PumpInv, Holds
  <2>2. QED
    BY <1>2, <2>1 DEF TypeOK, Deliver, DeliverHandover, AfterDelivery
<1>6. Profile(s)' = Profile(s)
  BY <1>1 DEF Profile
<1>7. /\ Len(Passed(s)') = Len(Passed(s)) + 1
      /\ Passed(s)'[Len(Passed(s)) + 1] = rcvd[s]
      /\ \A i \in 1 .. Len(Passed(s)) : Passed(s)'[i] = Passed(s)[i]
      /\ Passed(s)' \in Seq(Nat)
  BY <1>3, ValueTypes
<1>8. FinalPassed(s)' <=> sent[s][rcvd[s]] = "final"
  BY <1>1, <1>7, ValueTypes DEF FinalPassed
<1>9. /\ \A i \in 1 .. Len(Passed(s)) :
            /\ Passed(s)[i] \in 1 .. rcvd[s] /\ Passed(s)[i] < rcvd[s]
            /\ sent[s][Passed(s)[i]] # "bad"
            /\ \A j \in 1 .. Len(Passed(s)) :
                  i < j => Passed(s)[i] < Passed(s)[j]
      /\ ~ctx[s] => /\ \A i \in 1 .. Len(Passed(s)) : Passed(s)[i] = i
                    /\ Len(Passed(s)) + 1 = rcvd[s]
      /\ Told(s) = 0 /\ closed[s] = {} /\ ~FinalPassed(s)
  BY <1>1, ValueTypes DEF PumpInv, Ordered, Gapless, Silent, InLoop
<1>10. Holds(s)'
  BY <1>1, <1>4, <1>5, <1>6 DEF PumpInv, Holds
<1>11. DOMAIN Passed(s)' = 1 .. Len(Passed(s)) + 1 /\ pc'[s] # "deliver"
  BY <1>5, <1>7, ValueTypes
<1>12. Ordered(s)'
  <2>1. SUFFICES ASSUME NEW i \in 1 .. Len(Passed(s)) + 1
                 PROVE  /\ Passed(s)'[i] \in 1 .. rcvd[s]
                        /\ sent[s][Passed(s)'[i]] # "bad"
                        /\ \A j \in 1 .. Len(Passed(s)) + 1 :
                              i < j => Passed(s)'[i] < Passed(s)'[j]
    BY <1>1, <1>11 DEF Ordered
  <2>2. CASE i = Len(Passed(s)) + 1
    BY <1>2, <1>7, <2>2, ValueTypes
  <2>3. CASE i \in 1 .. Len(Passed(s))
    <3>1. Passed(s)'[i] = Passed(s)[i]
      BY <1>7, <2>3
    <3>2. ASSUME NEW j \in 1 .. Len(Passed(s)) + 1, i < j
          PROVE  Passed(s)[i] < Passed(s)'[j]
      <4>1. CASE j = Len(Passed(s)) + 1
        BY <1>7, <1>9, <2>3, <4>1
      <4>2. CASE j \in 1 .. Len(Passed(s))
        BY <1>7, <1>9, <2>3, <3>2, <4>2
      <4>3. QED
        BY <4>1, <4>2, ValueTypes
    <3>3. QED
      BY <1>9, <2>3, <3>1, <3>2
  <2>4. QED
    BY <2>2, <2>3, ValueTypes
<1>13. Gapless(s)'
  <2>1. SUFFICES ASSUME ~ctx[s]
                 PROVE  /\ \A i \in 1 .. Len(Passed(s)) + 1 : Passed(s)'[i] = i
                        /\ Len(Passed(s)') = rcvd[s]
    BY <1>1, <1>7, <1>11 DEF Gapless
  <2>2. Len(Passed(s)') = rcvd[s]
    BY <1>7, <1>9, <2>1
  <2>3. ASSUME NEW i \in 1 .. Len(Passed(s)) + 1
        PROVE  Passed(s)'[i] = i
    <3>1. i \in 1 .. Len(Passed(s)) \/ i = Len(Passed(s)) + 1
      BY ValueTypes
    <3>2. QED
      BY <1>7, <1>9, <2>1, <3>1
  <2>4. QED
    BY <2>2, <2>3
<1>14. Silent(s)' /\ Reason(s)'
  BY <1>1, <1>5, <1>8, <1>9 DEF Silent, InLoop, Reason
<1>15. PromiseStep(s)
  <2>1. rcvd[s] \in DOMAIN sent[s]
    BY <1>2, ValueTypes DEF PumpInv, Holds
  <2>2. Promise(s)!Open
    BY <1>9 DEF Promise!Open, Promise!FinalPassed, FinalPassed, Told
  <2>3. \A i \in DOMAIN Passed(s) : Passed(s)[i] < rcvd[s]
    BY <1>9, ValueTypes
  <2>4. Promise(s)!Pass(rcvd[s])
    BY <1>1, <1>2, <1>3, <1>9, <2>2, <2>3 DEF Promise!Pass, Told
  <2>5. QED
    BY <2>1, <2>4 DEF PromiseStep, Promise!Next
<1>16. QED
  BY <1>10, <1>12, <1>13, <1>14, <1>15 DEF PumpInv

\* A channel is closed for a reason the caller can know.
LEMMA CloseChanKeeps ==
    ASSUME TypeOK, NEW s \in Subs, PumpInv(s),
           NEW ch \in {"upd", "err"}, CloseChan(s, ch)
    PROVE  PumpInv(s)' /\ PromiseStep(s)
<1>1. /\ kind' = kind /\ connOpen' = connOpen /\ rcvd' = rcvd /\ sent' = sent
      /\ ended' = ended /\ ctx' = ctx /\ hand' = hand /\ cause' = cause
      /\ pc' = pc /\ upd' = upd /\ Passed(s)' = Passed(s)
      /\ Told(s)' = Told(s) /\ pc[s] = "exit"
      /\ ch \notin closed[s] /\ closed'[s] = closed[s] \cup {ch}
  BY DEF TypeOK, CloseChan, Unclosed, pumpVars, lndVars, readVars, svcVars,
     Passed, Told
<1>2. FinalPassed(s)' = FinalPassed(s) /\ Profile(s)' = Profile(s)
  BY <1>1 DEF FinalPassed, Profile
<1>3. PumpInv(s)'
  BY <1>1, <1>2, ValueTypes
     DEF PumpInv, Holds, Ordered, Gapless, Silent, InLoop, Reason
<1>4. \/ Told(s) > 0 \/ ctx[s] \/ FinalPassed(s)
      \/ ended[s] = "eof" /\ Len(Passed(s)) = Len(sent[s])
  BY <1>1 DEF PumpInv, Reason
<1>5. Promise(s)!Shut(ch)
  BY <1>1, <1>4
     DEF Promise!Shut, Promise!FinalPassed, Promise!Complete, FinalPassed, Told
<1>6. QED
  BY <1>3, <1>5 DEF PromiseStep, Promise!Next

-----------------------------------------------------------------------------

PumpsInv == \A s \in Subs : PumpInv(s)

\* Before its call a pump has done nothing.
LEMMA InitPumps == Init => \A s \in Subs : PumpInv(s) /\ Promise(s)!Init
<1> SUFFICES ASSUME Init, NEW s \in Subs PROVE PumpInv(s) /\ Promise(s)!Init
  OBVIOUS
<1>1. /\ pc[s] = "unused" /\ rcvd[s] = 0 /\ sent[s] = <<>> /\ ended[s] = "no"
      /\ upd[s] = <<>> /\ got[s] = <<>> /\ errs[s] = 0 /\ errGot[s] = 0
      /\ closed[s] = {} /\ ctx[s] = FALSE /\ connOpen = TRUE
  BY DEF Init
<1>2. Passed(s) = <<>> /\ Told(s) = 0
  BY <1>1, ConcatEmptySeq DEF Passed, Told
<1>3. PumpInv(s)
  BY <1>1, <1>2 DEF PumpInv, Holds, Ordered, Gapless, Silent, InLoop, Reason,
     FinalPassed
<1>4. Promise(s)!Init
  BY <1>1, <1>2 DEF Promise!Init, Told
<1>5. QED
  BY <1>3, <1>4

\* A step of the whole is a step of each promise, or none.
LEMMA NextPumps ==
    ASSUME TypeOK, OneReport, PumpsInv, [Next]_vars, NEW s \in Subs
    PROVE  PumpInv(s)' /\ PromiseStep(s)
<1>1. PumpInv(s)
  BY DEF PumpsInv
<1>2. CASE UNCHANGED vars \/ CloseConn \/ WaitForFinished
  <2>1. Elsewhere(s)
    BY <1>2 DEF vars, CloseConn, WaitForFinished, Elsewhere, Unseen, Passed,
       Told, pumpVars, lndVars, chanVars, readVars, svcVars
  <2>2. QED
    BY <1>1, <2>1, ElsewhereKeeps
<1>3. ASSUME NEW t \in Subs, PumpStep(t) \/ CallerStep(t) \/ LndStep(t)
      PROVE  PumpInv(s)' /\ PromiseStep(s)
  <2>1. CASE t # s
    <3>1. QuietStep(t) \/ Launch(t) \/ Finish(t)
      BY <1>3 DEF PumpStep, CallerStep, QuietStep
    <3>2. QED
      BY <1>1, <2>1, <3>1, OtherStep, ElsewhereKeeps
  <2>2. CASE t = s
    <3>1. \/ Internal(s) \/ LndStep(s) \/ Cancel(s)
          \/ TakeUpdate(s) \/ TakeError(s)
          \/ Report(s) \/ ReportHandover(s)
          \/ Deliver(s) \/ DeliverHandover(s)
          \/ \E ch \in {"upd", "err"} : CloseChan(s, ch)
      BY <1>3, <2>2 DEF PumpStep, CallerStep, Internal
    <3>2. CASE Internal(s)
      BY <1>1, <3>2, InternalKeeps
    <3>3. CASE LndStep(s) \/ Cancel(s)
      BY <1>1, <3>3, OutsideKeeps
    <3>4. CASE TakeUpdate(s) \/ TakeError(s)
      BY <1>1, <3>4, ReadingIsElsewhere, ElsewhereKeeps
    <3>5. CASE Report(s) \/ ReportHandover(s)
      BY <1>1, <3>5, ReportKeeps
    <3>6. CASE Deliver(s) \/ DeliverHandover(s)
      BY <1>1, <3>6, DeliverKeeps
    <3>7. CASE \E ch \in {"upd", "err"} : CloseChan(s, ch)
      BY <1>1, <3>7, CloseChanKeeps
    <3>8. QED
      BY <3>1, <3>2, <3>3, <3>4, <3>5, <3>6, <3>7
  <2>3. QED
    BY <2>1, <2>2
<1>4. QED
  BY <1>2, <1>3 DEF Next

\* The invariant of the pumps holds in every behaviour.
THEOREM PumpInvariance ==
    ASSUME "SubscribeTransactions" \notin Kinds
    PROVE  Spec => []PumpsInv
<1>1. Init => PumpsInv
  BY InitPumps DEF PumpsInv
<1>2. TypeOK /\ OneReport /\ PumpsInv /\ [Next]_vars => PumpsInv'
  BY NextPumps DEF PumpsInv
<1>3. QED
  BY <1>1, <1>2, TypeCorrect, OneReportHolds, PTL DEF Spec

\* Every pump, beside any others and beside Close, implements its promise.
THEOREM PumpsKeepTheirPromises ==
    ASSUME "SubscribeTransactions" \notin Kinds
    PROVE  Spec => KeepsPromises
<1>1. Init => \A s \in Subs : Promise(s)!Init
  BY InitPumps
<1>2. TypeOK /\ OneReport /\ PumpsInv /\ [Next]_vars =>
        [\A s \in Subs : [Promise(s)!Next]_(Promise(s)!vars)]_vars
  BY NextPumps DEF PromiseStep
<1>3. QED
  BY <1>1, <1>2, TypeCorrect, OneReportHolds, PumpInvariance, PTL
     DEF Spec, KeepsPromises

\* The same as an implication of specifications, for one subscription.
THEOREM SubscriptionImplementsPromise ==
    ASSUME "SubscribeTransactions" \notin Kinds, NEW s \in Subs
    PROVE  Spec => Promise(s)!Spec
<1>1. Init => Promise(s)!Init
  BY InitPumps
<1>2. TypeOK /\ OneReport /\ PumpsInv /\ [Next]_vars =>
        [Promise(s)!Next]_(Promise(s)!vars)
  BY NextPumps DEF PromiseStep
<1>3. QED
  BY <1>1, <1>2, TypeCorrect, OneReportHolds, PumpInvariance, PTL
     DEF Spec, Promise!Spec

\* Updates are lnd's messages, in order, none twice, and none missing unless the
\* caller cancelled.
THEOREM DeliveryIsInOrder ==
    ASSUME "SubscribeTransactions" \notin Kinds
    PROVE  Spec => []InOrderDelivery
<1>1. TypeOK /\ PumpsInv => InOrderDelivery
  <2> SUFFICES ASSUME TypeOK, NEW s \in Subs, PumpInv(s)
               PROVE
        /\ \A i \in DOMAIN Passed(s) :
              /\ Passed(s)[i] \in 1 .. rcvd[s]
              /\ sent[s][Passed(s)[i]] # "bad"
              /\ \A j \in DOMAIN Passed(s) : i < j => Passed(s)[i] < Passed(s)[j]
        /\ ~ctx[s] => \A n \in 1 .. rcvd[s] :
              \/ sent[s][n] = "bad"
              \/ \E i \in DOMAIN Passed(s) : Passed(s)[i] = n
              \/ pc[s] = "deliver" /\ hand[s] = n
    BY DEF PumpsInv, InOrderDelivery
  <2>1. \A i \in DOMAIN Passed(s) :
            /\ Passed(s)[i] \in 1 .. rcvd[s]
            /\ sent[s][Passed(s)[i]] # "bad"
            /\ \A j \in DOMAIN Passed(s) : i < j => Passed(s)[i] < Passed(s)[j]
    BY DEF PumpInv, Ordered
  <2>2. ASSUME ~ctx[s], NEW n \in 1 .. rcvd[s]
        PROVE  \/ sent[s][n] = "bad"
               \/ \E i \in DOMAIN Passed(s) : Passed(s)[i] = n
               \/ pc[s] = "deliver" /\ hand[s] = n
    <3>1. CASE n \in DOMAIN Passed(s)
      BY <2>2, <3>1 DEF PumpInv, Gapless
    <3>2. CASE n \notin DOMAIN Passed(s)
      <4>1. n = rcvd[s] /\ Len(Passed(s)) + 1 = rcvd[s]
        BY <2>2, <3>2, ValueTypes DEF PumpInv, Gapless
      <4>2. QED
        BY <2>2, <4>1, ValueTypes DEF PumpInv, Gapless, Holds
    <3>3. QED
      BY <3>1, <3>2
  <2>3. QED
    BY <2>1, <2>2
<1>2. QED
  BY <1>1, TypeCorrect, PumpInvariance, PTL

\* A caller that has not cancelled can tell why its subscription has ended.
THEOREM EndsAreExplained ==
    ASSUME "SubscribeTransactions" \notin Kinds
    PROVE  Spec => []EndIsExplained
<1>1. TypeOK /\ PumpsInv => EndIsExplained
  <2> SUFFICES ASSUME TypeOK, NEW s \in Subs, PumpInv(s),
                      pc[s] = "done" \/ closed[s] # {}
               PROVE
        \/ ctx[s]
        \/ errs[s] + errGot[s] > 0
        \/ /\ pc[s] = "done" => closed[s] = {"upd", "err"}
           /\ \/ ended[s] = "eof" /\ Len(Passed(s)) = Len(sent[s])
              \/ /\ Passed(s) # <<>>
                 /\ sent[s][Passed(s)[Len(Passed(s))]] = "final"
    BY DEF PumpsInv, EndIsExplained
  <2>1. pc[s] \in {"exit", "done"}
    BY DEF TypeOK, PumpInv, Silent, InLoop
  <2>2. QED
    BY <2>1 DEF PumpInv, Reason, FinalPassed, Told
<1>2. QED
  BY <1>1, TypeCorrect, PumpInvariance, PTL

=============================================================================
