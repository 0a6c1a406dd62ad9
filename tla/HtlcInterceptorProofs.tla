------------------------ MODULE HtlcInterceptorProofs ------------------------
(* Theorems about HtlcInterceptor and their proofs. *)
EXTENDS HtlcInterceptor, FiniteSetTheorems, SequenceTheorems, TLAPS

USE HtlcsAssumption, NamesAssumption

-----------------------------------------------------------------------------
(***************************************************************************)
(* The inductive invariant.                                                *)
(***************************************************************************)

\* How far the call is: the receiver is started by the main loop, and the deferred
\* cancel and the result come with the return.
Phases ==
    /\ mpc \in {"call", "opened"} => rpc = "idle"
    /\ child <=> mpc = "returned"
    /\ result # "none" => mpc = "returned"

\* The places where a request can be.
InInbox(h) == \E i \in DOMAIN inbox : inbox[i] = h
Offered(h) == rpc = "offer" /\ rreq = h
Taken(h) == mpc = "spawn" /\ mreq = h
Started(h) == hpc[h] # "idle"

\* lnd has asked for what is in one of them, and it is in no other.
OnePlace ==
    /\ \A i, j \in DOMAIN inbox : inbox[i] = inbox[j] => i = j
    /\ \A h \in Htlcs :
          /\ InInbox(h) => h \in asked /\ ~Offered(h) /\ ~Taken(h) /\ ~Started(h)
          /\ Offered(h) => h \in asked /\ ~Taken(h) /\ ~Started(h)
          /\ Taken(h) => h \in asked /\ ~Started(h)
          /\ Started(h) => h \in asked

\* Past the receiver's validation a request parses.
Validated ==
    Traits.checks =>
        \A h \in Htlcs : Offered(h) \/ Taken(h) \/ Started(h) => h \notin malformed

\* An answer is the last thing a handler does.
AnsweredOnce ==
    Traits.keyFrom = "request" =>
        \A h \in Htlcs : /\ answers[h] <= 1
                         /\ hpc[h] # "done" => answers[h] = 0

\* An error that was raised and not yet returned has its cause.
Caused(e) ==
    /\ e # "none" => e \in failures
    /\ e = "quit" => quit
    /\ e = "ctx" => CtxDone
    /\ e = "stream" => lndFailed \/ ~connOpen \/ CtxDone

ErrorsAreCaused ==
    /\ \A g \in Goroutines : Caused(pend[g])
    /\ \A i \in DOMAIN errBuf : Caused(errBuf[i])
    /\ rpc = "report" => pend[Receiver] # "none"
    /\ \A h \in Htlcs : hpc[h] = "report" => pend[h] # "none"

\* The wait group counts the goroutines that run.
Runners == {g \in Goroutines : Running(g)}
WgCounts == wg = Cardinality(Runners)

Inv ==
    /\ TypeOK /\ Phases /\ OnePlace /\ Validated /\ AnsweredOnce
    /\ ErrorsAreCaused /\ WgCounts
    /\ NoRequestDropped /\ ResultIsTrue /\ WaitCoversGoroutines

-----------------------------------------------------------------------------
(***************************************************************************)
(* Facts about the definitions.                                            *)
(***************************************************************************)

\* The two methods and what they do differently.
LEMMA TraitsOfMethod ==
    ASSUME method \in {"InterceptHtlcs", "HtlcModifier"}
    PROVE  /\ Traits.checks \in BOOLEAN
           /\ Traits.checks <=> method = "InterceptHtlcs"
           /\ Traits.keyFrom = "request" <=> method = "InterceptHtlcs"
BY DEF Traits, InterceptHtlcs, HtlcModifier

\* No step changes the method, and so none the traits.
LEMMA SameTraits == [Next]_vars => method' = method /\ Traits' = Traits
<1>1. [Next]_vars => method' = method
  BY DEF Next, MainStep, ReceiverStep, HandlerStep, Open, StartReceiver, Handover,
     StartHandler, ReturnError, ReturnQuit, ReturnCtx, ReceiverChecksCtx,
     ReceiveRequest, ReceiveFails, OfferAborted, ReceiverReports, HandlerReturns,
     HandlerSends, HandlerReports, LndAsks, LndFails, CallerCancels, CloseConn,
     BeginWait, EndWait, lndVars, vars
<1>2. method' = method => Traits' = Traits
  BY DEF Traits
<1>3. QED
  BY <1>1, <1>2

-----------------------------------------------------------------------------
(***************************************************************************)
(* Types.                                                                  *)
(***************************************************************************)

\* An error that a goroutine raises is one of the kinds.
LEMMA FailTypes ==
    ASSUME TypeOK, NEW g \in Goroutines, NEW kind \in ErrorKinds, Fail(g, kind)
    PROVE  /\ pend' \in [Goroutines -> ErrorKinds \cup {"none"}]
           /\ failures' \subseteq ErrorKinds
           /\ errBuf' = errBuf
BY DEF TypeOK, Fail

\* sendErr leaves at most one error in the channel, and a goroutine calls it with an
\* error only.
LEMMA SendErrTypes ==
    ASSUME TypeOK, NEW g \in Goroutines, pend[g] # "none", SendErr(g)
    PROVE  /\ errBuf' \in Seq(ErrorKinds) /\ Len(errBuf') <= 1
           /\ pend' = pend /\ failures' = failures
<1>1. pend[g] \in ErrorKinds
  BY DEF TypeOK
<1>2. <<pend[g]>> \in Seq(ErrorKinds) /\ Len(<<pend[g]>>) = 1
  BY <1>1
<1>3. CASE errBuf = <<>> /\ errBuf' = <<pend[g]>>
  BY <1>2, <1>3 DEF SendErr
<1>4. CASE errBuf' = errBuf
  BY <1>4 DEF SendErr, TypeOK
<1>5. QED
  BY <1>3, <1>4 DEF SendErr

\* Every step keeps the types, if it keeps the wait group a natural number.
LEMMA StepTypes ==
    ASSUME TypeOK, ErrorsAreCaused, wg' \in Nat, Next
    PROVE  TypeOK'
<1> USE DEF TypeOK, lndVars, mainVars, recvVars, errVars, waitVars
<1>0. /\ {"open", "stream", "request", "handler", "response", "quit", "ctx"}
             \subseteq ErrorKinds
      /\ Receiver \in Goroutines /\ Htlcs \subseteq Goroutines
  BY DEF ErrorKinds, Goroutines
<1>1. CASE Open
  <2>1. CASE mpc' = "opened"
    BY <1>1, <2>1 DEF Open, Return
  <2>2. CASE Return("open")
    BY <1>0, <1>1, <2>2 DEF Open, Return
  <2>3. QED
    BY <1>1, <2>1, <2>2 DEF Open
<1>2. CASE StartReceiver
  BY <1>0, <1>2 DEF StartReceiver, GoroutineStarts
<1>3. CASE Handover
  BY <1>3 DEF Handover
<1>4. CASE StartHandler
  BY <1>0, <1>4 DEF StartHandler, GoroutineStarts
<1>5. CASE ReturnError
  <2>1. Head(errBuf) \in ErrorKinds
    BY <1>5 DEF ReturnError
  <2>2. QED
    BY <1>5, <2>1 DEF ReturnError, Return
<1>6. CASE ReturnQuit \/ ReturnCtx
  <2>1. CASE ReturnQuit
    BY <1>0, <2>1 DEF ReturnQuit, Return
  <2>2. CASE ReturnCtx
    BY <1>0, <2>2 DEF ReturnCtx, Return
  <2>3. QED
    BY <1>6, <2>1, <2>2
<1>7. CASE ReceiverChecksCtx
  BY <1>7 DEF ReceiverChecksCtx, GoroutineEnds
<1>8. CASE ReceiveRequest
  <2>1. inbox' \in Seq(Htlcs) /\ rreq' \in Htlcs
    BY <1>8 DEF ReceiveRequest
  <2>2. Fail(Receiver, "request") \/ UNCHANGED errVars
    BY <1>8 DEF ReceiveRequest
  <2>3. /\ pend' \in [Goroutines -> ErrorKinds \cup {"none"}]
        /\ failures' \subseteq ErrorKinds /\ errBuf' = errBuf
    BY <1>0, <2>2, FailTypes
  <2>4. QED
    BY <1>8, <2>1, <2>3 DEF ReceiveRequest
<1>9. CASE ReceiveFails \/ OfferAborted
  <2>1. \E kind \in {"stream", "quit", "ctx"} : Fail(Receiver, kind)
    BY <1>9 DEF ReceiveFails, OfferAborted
  <2>2. /\ pend' \in [Goroutines -> ErrorKinds \cup {"none"}]
        /\ failures' \subseteq ErrorKinds /\ errBuf' = errBuf
    BY <1>0, <2>1, FailTypes
  <2>3. QED
    BY <1>9, <2>2 DEF ReceiveFails, OfferAborted
<1>10. CASE ReceiverReports
  <2>1. pend[Receiver] # "none" /\ SendErr(Receiver)
    BY <1>10 DEF ReceiverReports, ErrorsAreCaused
  <2>2. /\ errBuf' \in Seq(ErrorKinds) /\ Len(errBuf') <= 1
        /\ pend' = pend /\ failures' = failures
    BY <1>0, <2>1, SendErrTypes
  <2>3. QED
    BY <1>10, <2>2 DEF ReceiverReports, GoroutineEnds
<1>11. ASSUME NEW h \in Htlcs, HandlerReturns(h)
       PROVE  TypeOK'
  <2>1. Fail(h, "handler") \/ Fail(h, "response") \/ UNCHANGED errVars
    BY <1>11 DEF HandlerReturns
  <2>2. /\ pend' \in [Goroutines -> ErrorKinds \cup {"none"}]
        /\ failures' \subseteq ErrorKinds /\ errBuf' = errBuf
    BY <1>0, <2>1, FailTypes
  <2>3. hpc' \in [Htlcs -> {"idle", "running", "sending", "report", "done"}]
    BY <1>11 DEF HandlerReturns
  <2>4. QED
    BY <1>11, <2>2, <2>3 DEF HandlerReturns
<1>12. ASSUME NEW h \in Htlcs, HandlerSends(h)
       PROVE  TypeOK'
  <2>1. Fail(h, "stream") \/ UNCHANGED errVars
    BY <1>12 DEF HandlerSends
  <2>2. /\ pend' \in [Goroutines -> ErrorKinds \cup {"none"}]
        /\ failures' \subseteq ErrorKinds /\ errBuf' = errBuf
    BY <1>0, <2>1, FailTypes
  <2>3. hpc' \in [Htlcs -> {"idle", "running", "sending", "report", "done"}]
    BY <1>12 DEF HandlerSends
  <2>4. answers' \in [Htlcs -> Nat]
    BY <1>12 DEF HandlerSends
  <2>5. QED
    BY <1>12, <2>2, <2>3, <2>4 DEF HandlerSends, GoroutineEnds
<1>13. ASSUME NEW h \in Htlcs, HandlerReports(h)
       PROVE  TypeOK'
  <2>1. pend[h] # "none" /\ SendErr(h)
    BY <1>13 DEF HandlerReports, ErrorsAreCaused
  <2>2. /\ errBuf' \in Seq(ErrorKinds) /\ Len(errBuf') <= 1
        /\ pend' = pend /\ failures' = failures
    BY <1>0, <2>1, SendErrTypes
  <2>3. QED
    BY <1>13, <2>2 DEF HandlerReports, GoroutineEnds
<1>14. ASSUME NEW h \in Htlcs, LndAsks(h)
       PROVE  TypeOK'
  BY <1>14 DEF LndAsks
<1>15. CASE LndFails
  BY <1>15 DEF LndFails
<1>16. CASE CallerCancels
  BY <1>16 DEF CallerCancels
<1>17. CASE CloseConn
  <2>1. connOpen' = FALSE
    BY <1>17 DEF CloseConn
  <2>2. UNCHANGED <<method, malformed, asked, inbox, lndFailed, answers, parent,
                    mainVars, recvVars, hpc, errVars, waitVars>>
    BY <1>17 DEF CloseConn
  <2>3. connOpen' \in BOOLEAN
    BY <2>1
  <2>4. /\ lndFailed' = lndFailed /\ parent' = parent /\ child' = child /\ quit' = quit
        /\ waiter' = waiter /\ late' = late /\ pend' = pend /\ errBuf' = errBuf
        /\ failures' = failures /\ rpc' = rpc /\ rreq' = rreq /\ hpc' = hpc
        /\ mpc' = mpc /\ mreq' = mreq /\ result' = result /\ answers' = answers
        /\ method' = method /\ malformed' = malformed /\ asked' = asked /\ inbox' = inbox
    BY <2>2
  <2>5. QED
    BY <2>3, <2>4
<1>18. CASE BeginWait
  BY <1>18 DEF BeginWait
<1>19. CASE EndWait
  BY <1>19 DEF EndWait
<1>20. QED
  BY <1>1, <1>2, <1>3, <1>4, <1>5, <1>6, <1>7, <1>8, <1>9, <1>10, <1>11, <1>12,
     <1>13, <1>14, <1>15, <1>16, <1>17, <1>18, <1>19 DEF Next, MainStep, ReceiverStep, HandlerStep

-----------------------------------------------------------------------------
(***************************************************************************)
(* The wait group.                                                         *)
(***************************************************************************)

\* The goroutines can be counted.
LEMMA RunnersFinite ==
    IsFiniteSet(Runners) /\ Cardinality(Runners) \in Nat
<1>1. IsFiniteSet(Goroutines)
  BY FS_AddElement, FS_Singleton, FS_Union DEF Goroutines
<1>2. Runners \subseteq Goroutines
  BY DEF Runners
<1>3. QED
  BY <1>1, <1>2, FS_Subset, FS_CardinalityType

\* wg.Add(1) and the start of a goroutine go together.
LEMMA StartCounts ==
    ASSUME WgCounts, WaitCoversGoroutines, NEW g \in Goroutines,
           ~Running(g), Running(g)',
           \A f \in Goroutines \ {g} : Running(f)' <=> Running(f),
           GoroutineStarts(g)
    PROVE  WgCounts' /\ wg' \in Nat /\ WaitCoversGoroutines'
<1>1. Runners' = Runners \cup {g} /\ g \notin Runners
  BY DEF Runners
<1>2. Cardinality(Runners') = Cardinality(Runners) + 1
  BY <1>1, RunnersFinite, FS_AddElement
<1>3. WgCounts' /\ wg' \in Nat
  BY <1>2, RunnersFinite DEF WgCounts, GoroutineStarts
<1>4. WaitCoversGoroutines'
  BY DEF WaitCoversGoroutines, GoroutineStarts
<1>5. QED
  BY <1>3, <1>4

\* wg.Done and the end of a goroutine go together, so the group does not go below zero.
LEMMA EndCounts ==
    ASSUME WgCounts, WaitCoversGoroutines, NEW g \in Goroutines,
           Running(g), ~Running(g)',
           \A f \in Goroutines \ {g} : Running(f)' <=> Running(f),
           GoroutineEnds
    PROVE  WgCounts' /\ wg' \in Nat /\ WaitCoversGoroutines'
<1>1. Runners' = Runners \ {g} /\ g \in Runners
  BY DEF Runners
<1>2. /\ Cardinality(Runners') = Cardinality(Runners) - 1
      /\ Cardinality(Runners') \in Nat
  BY <1>1, RunnersFinite, FS_RemoveElement, FS_CardinalityType
<1>3. WgCounts' /\ wg' \in Nat
  BY <1>2 DEF WgCounts, GoroutineEnds
<1>4. WaitCoversGoroutines'
  BY DEF WaitCoversGoroutines, GoroutineEnds
<1>5. QED
  BY <1>3, <1>4

\* Other steps start and end no goroutine.
LEMMA QuietCounts ==
    ASSUME WgCounts, WaitCoversGoroutines,
           \A f \in Goroutines : Running(f)' <=> Running(f),
           wg' = wg, late' = late, waiter' = "returned" => waiter = "returned"
    PROVE  WgCounts' /\ wg' \in Nat /\ WaitCoversGoroutines'
<1>1. Runners' = Runners
  BY DEF Runners
<1>2. WgCounts' /\ wg' \in Nat
  BY <1>1, RunnersFinite DEF WgCounts
<1>3. WaitCoversGoroutines'
  BY DEF WaitCoversGoroutines
<1>4. QED
  BY <1>2, <1>3

\* WaitForFinished returns when no goroutine runs.
LEMMA EndWaitCovers ==
    ASSUME WgCounts, EndWait
    PROVE  WgCounts' /\ wg' \in Nat /\ WaitCoversGoroutines'
<1>1. Runners = {}
  BY RunnersFinite, FS_EmptySet DEF WgCounts, EndWait
<1>2. \A g \in Goroutines : ~Running(g) /\ ~Running(g)'
  BY <1>1 DEF Runners, EndWait, Running, recvVars
<1>3. Runners' = Runners
  BY <1>1, <1>2 DEF Runners
<1>4. QED
  BY <1>2, <1>3, RunnersFinite DEF WgCounts, WaitCoversGoroutines, EndWait

\* Every step keeps the count right and the wait sound.
LEMMA StepCounts ==
    ASSUME Inv, Next
    PROVE  WgCounts' /\ wg' \in Nat /\ WaitCoversGoroutines'
<1> USE DEF Running, Goroutines, lndVars, mainVars, recvVars, errVars, waitVars
<1>0. /\ WgCounts /\ WaitCoversGoroutines /\ Phases /\ OnePlace
      /\ hpc \in [Htlcs -> {"idle", "running", "sending", "report", "done"}]
      /\ mpc = "spawn" => mreq \in Htlcs
  BY DEF Inv, TypeOK
<1>1. CASE StartReceiver
  BY <1>0, <1>1, StartCounts DEF StartReceiver, Phases
<1>2. CASE StartHandler
  <2>1. mreq \in Htlcs /\ hpc[mreq] = "idle"
    BY <1>0, <1>2 DEF StartHandler, OnePlace, Taken, Started
  <2>2. hpc' = [hpc EXCEPT ![mreq] = "running"] /\ rpc' = rpc /\ GoroutineStarts(mreq)
    BY <1>2 DEF StartHandler
  <2>3. QED
    BY <1>0, <2>1, <2>2, StartCounts
<1>3. CASE ReceiverChecksCtx
  <2>1. CASE rpc' = "done"
    BY <1>0, <1>3, <2>1, EndCounts DEF ReceiverChecksCtx
  <2>2. CASE rpc' = "recv"
    BY <1>0, <1>3, <2>2, QuietCounts DEF ReceiverChecksCtx
  <2>3. QED
    BY <1>3, <2>1, <2>2 DEF ReceiverChecksCtx
<1>4. CASE ReceiverReports
  BY <1>0, <1>4, EndCounts DEF ReceiverReports
<1>5. ASSUME NEW h \in Htlcs, HandlerSends(h)
      PROVE  WgCounts' /\ wg' \in Nat /\ WaitCoversGoroutines'
  <2>1. CASE hpc' = [hpc EXCEPT ![h] = "done"]
    BY <1>0, <1>5, <2>1, EndCounts DEF HandlerSends
  <2>2. CASE hpc' = [hpc EXCEPT ![h] = "report"]
    BY <1>0, <1>5, <2>2, QuietCounts DEF HandlerSends
  <2>3. QED
    BY <1>5, <2>1, <2>2 DEF HandlerSends
<1>6. ASSUME NEW h \in Htlcs, HandlerReports(h)
      PROVE  WgCounts' /\ wg' \in Nat /\ WaitCoversGoroutines'
  BY <1>0, <1>6, EndCounts DEF HandlerReports
<1>7. ASSUME NEW h \in Htlcs, HandlerReturns(h)
      PROVE  WgCounts' /\ wg' \in Nat /\ WaitCoversGoroutines'
  <2>1. \E to \in {"sending", "report"} : hpc' = [hpc EXCEPT ![h] = to]
    BY <1>7 DEF HandlerReturns
  <2>2. hpc[h] = "running" /\ UNCHANGED <<rpc, wg, late, waiter>>
    BY <1>7 DEF HandlerReturns
  <2>3. QED
    BY <1>0, <2>1, <2>2, QuietCounts
<1>8. CASE Open \/ Handover \/ ReturnError \/ ReturnQuit \/ ReturnCtx
  BY <1>0, <1>8, QuietCounts DEF Open, Handover, ReturnError, ReturnQuit, ReturnCtx
<1>9. CASE ReceiveRequest \/ ReceiveFails \/ OfferAborted
  BY <1>0, <1>9, QuietCounts DEF ReceiveRequest, ReceiveFails, OfferAborted
<1>10. CASE (\E h \in Htlcs : LndAsks(h)) \/ LndFails \/ CallerCancels \/ CloseConn
  BY <1>0, <1>10, QuietCounts DEF LndAsks, LndFails, CallerCancels, CloseConn
<1>11. CASE BeginWait
  BY <1>0, <1>11, QuietCounts DEF BeginWait
<1>12. CASE EndWait
  BY <1>0, <1>12, EndWaitCovers
<1>13. QED
  BY <1>1, <1>2, <1>3, <1>4, <1>5, <1>6, <1>7, <1>8, <1>9, <1>10, <1>11, <1>12
     DEF Next, MainStep, ReceiverStep, HandlerStep

-----------------------------------------------------------------------------
(***************************************************************************)
(* Requests and their answers.                                             *)
(***************************************************************************)

\* Every step keeps how far the call, its receiver and its result have come.
LEMMA StepPhases ==
    ASSUME TypeOK, Phases, Next
    PROVE  Phases'
<1> USE DEF Phases, lndVars, mainVars, recvVars, errVars, waitVars
<1>1. CASE Open \/ ReturnError \/ ReturnQuit \/ ReturnCtx
  BY <1>1 DEF Open, ReturnError, ReturnQuit, ReturnCtx, Return, TypeOK
<1>2. CASE StartReceiver \/ Handover \/ StartHandler
  BY <1>2 DEF StartReceiver, Handover, StartHandler, TypeOK
<1>3. CASE ReceiverStep
  BY <1>3 DEF ReceiverStep, ReceiverChecksCtx, ReceiveRequest, ReceiveFails,
     OfferAborted, ReceiverReports
<1>4. CASE \E h \in Htlcs : HandlerReturns(h) \/ HandlerStep(h) \/ LndAsks(h)
  BY <1>4 DEF HandlerStep, HandlerReturns, HandlerSends, HandlerReports, LndAsks
<1>5. CASE LndFails \/ CallerCancels \/ CloseConn \/ BeginWait \/ EndWait
  BY <1>5 DEF LndFails, CallerCancels, CloseConn, BeginWait, EndWait
<1>6. QED
  BY <1>1, <1>2, <1>3, <1>4, <1>5 DEF Next, MainStep


\* A step that moves no request from one place to another: it starts no handler,
\* and neither the receiver nor the main loop takes a request.
Unmoved ==
    /\ asked' = asked /\ inbox' = inbox
    /\ rpc' = "offer" => rpc = "offer" /\ rreq' = rreq
    /\ mpc' = "spawn" => mpc = "spawn" /\ mreq' = mreq
    /\ \A h \in Htlcs : hpc'[h] # "idle" <=> hpc[h] # "idle"

\* While no request moves, each stays in its one place.
LEMMA UnmovedKeepsPlaces ==
    ASSUME OnePlace, Unmoved
    PROVE  OnePlace'
BY DEF OnePlace, Unmoved, InInbox, Offered, Taken, Started

\* The steps that move a request.
Moves ==
    Handover \/ StartHandler \/ ReceiveRequest \/ \E h \in Htlcs : LndAsks(h)

\* All other steps leave the requests where they are.
LEMMA OtherStepsDoNotMove ==
    ASSUME TypeOK, Next, ~Moves
    PROVE  Unmoved
<1> USE DEF Unmoved, lndVars, mainVars, recvVars
<1>1. CASE Open \/ ReturnError \/ ReturnQuit \/ ReturnCtx \/ StartReceiver
  BY <1>1 DEF Open, ReturnError, ReturnQuit, ReturnCtx, Return, StartReceiver
<1>2. CASE ReceiverChecksCtx \/ ReceiveFails \/ OfferAborted \/ ReceiverReports
  BY <1>2 DEF ReceiverChecksCtx, ReceiveFails, OfferAborted, ReceiverReports
<1>3. ASSUME NEW h \in Htlcs, HandlerReturns(h) \/ HandlerStep(h)
      PROVE  Unmoved
  <2>1. /\ \E to \in {"sending", "report", "done"} : hpc' = [hpc EXCEPT ![h] = to]
        /\ hpc[h] # "idle"
    BY <1>3 DEF HandlerStep, HandlerReturns, HandlerSends, HandlerReports
  <2>2. \A f \in Htlcs : hpc'[f] # "idle" <=> hpc[f] # "idle"
    BY <2>1 DEF TypeOK
  <2>3. UNCHANGED <<asked, inbox, rpc, rreq, mpc, mreq>>
    BY <1>3 DEF HandlerStep, HandlerReturns, HandlerSends, HandlerReports
  <2>4. QED
    BY <2>2, <2>3
<1>4. CASE LndFails \/ CallerCancels \/ CloseConn \/ BeginWait \/ EndWait
  BY <1>4 DEF LndFails, CallerCancels, CloseConn, BeginWait, EndWait
<1>5. QED
  BY <1>1, <1>2, <1>3, <1>4 DEF Next, Moves, MainStep, ReceiverStep

\* lnd asks for every HTLC once, so what is appended is not there yet.
LEMMA AskKeepsPlaces ==
    ASSUME TypeOK, OnePlace, NEW h \in Htlcs, LndAsks(h)
    PROVE  OnePlace' /\ \A f \in Htlcs : InInbox(f)' <=> InInbox(f) \/ f = h
<1>1. /\ inbox \in Seq(Htlcs) /\ inbox' = Append(inbox, h)
      /\ h \notin asked /\ asked' = asked \cup {h}
      /\ UNCHANGED <<rpc, rreq, mpc, mreq, hpc>>
  BY DEF TypeOK, LndAsks, mainVars, recvVars
<1>2. /\ DOMAIN inbox' = 1 .. Len(inbox) + 1 /\ DOMAIN inbox = 1 .. Len(inbox)
      /\ Len(inbox) \in Nat
      /\ inbox'[Len(inbox) + 1] = h
      /\ \A i \in 1 .. Len(inbox) : inbox'[i] = inbox[i]
  BY <1>1
<1>3. \A f \in Htlcs : InInbox(f)' <=> InInbox(f) \/ f = h
  BY <1>2 DEF InInbox
<1>4. ~InInbox(h) /\ ~Offered(h) /\ ~Taken(h) /\ ~Started(h)
  BY <1>1 DEF OnePlace
<1>5. \A i, j \in DOMAIN inbox' : inbox'[i] = inbox'[j] => i = j
  BY <1>2, <1>4 DEF OnePlace, InInbox
<1>6. QED
  BY <1>1, <1>3, <1>4, <1>5 DEF OnePlace, Offered, Taken, Started

\* The receiver takes the first request, and no other request like it stays.
LEMMA ReceiveMovesHead ==
    ASSUME TypeOK, OnePlace, ReceiveRequest
    PROVE  /\ rreq' \in Htlcs /\ InInbox(rreq')
           /\ \A f \in Htlcs : InInbox(f)' <=> InInbox(f) /\ f # rreq'
           /\ \A i, j \in DOMAIN inbox' : inbox'[i] = inbox'[j] => i = j
<1>1. /\ inbox \in Seq(Htlcs) /\ inbox # <<>>
      /\ inbox' = Tail(inbox) /\ rreq' = Head(inbox)
  BY DEF TypeOK, ReceiveRequest
<1>2. /\ DOMAIN inbox = 1 .. Len(inbox) /\ Len(inbox) \in Nat \ {0}
      /\ DOMAIN inbox' = 1 .. Len(inbox) - 1
      /\ inbox[1] = rreq' /\ rreq' \in Htlcs
      /\ \A i \in 1 .. Len(inbox) - 1 : inbox'[i] = inbox[i + 1]
  BY <1>1
<1>3. \A i, j \in DOMAIN inbox : inbox[i] = inbox[j] => i = j
  BY DEF OnePlace
<1>4. \A i, j \in DOMAIN inbox' : inbox'[i] = inbox'[j] => i = j
  BY <1>2, <1>3
<1>5. ASSUME NEW f \in Htlcs, InInbox(f)'
      PROVE  InInbox(f) /\ f # rreq'
  <2>1. PICK i \in 1 .. Len(inbox) - 1 : inbox[i + 1] = f
    BY <1>2, <1>5 DEF InInbox
  <2>2. QED
    BY <1>2, <1>3, <2>1 DEF InInbox
<1>6. ASSUME NEW f \in Htlcs, InInbox(f), f # rreq'
      PROVE  InInbox(f)'
  <2>1. PICK i \in 1 .. Len(inbox) : inbox[i] = f
    BY <1>2, <1>6 DEF InInbox
  <2>2. i - 1 \in 1 .. Len(inbox) - 1 /\ inbox'[i - 1] = f
    BY <1>2, <1>6, <2>1
  <2>3. QED
    BY <1>2, <2>2 DEF InInbox
<1>7. InInbox(rreq')
  BY <1>2 DEF InInbox
<1>8. QED
  BY <1>2, <1>4, <1>5, <1>6, <1>7

\* A request that is received is nowhere else.
LEMMA ReceiveKeepsPlaces ==
    ASSUME TypeOK, OnePlace, ReceiveRequest
    PROVE  OnePlace'
<1>1. UNCHANGED <<asked, mpc, mreq, hpc>> /\ rpc' # "idle"
  BY DEF ReceiveRequest, mainVars
<1>2. QED
  BY <1>1, ReceiveMovesHead DEF OnePlace, Offered, Taken, Started

\* Every request is in one place after every step.
LEMMA StepPlaces ==
    ASSUME TypeOK, OnePlace, Next
    PROVE  OnePlace'
<1>1. CASE Handover
  <2>1. /\ mpc = "select" /\ rpc = "offer" /\ rreq \in Htlcs /\ mreq' = rreq
        /\ rpc' = "check" /\ UNCHANGED <<asked, inbox, rreq, hpc>>
    BY <1>1 DEF TypeOK, Handover, lndVars
  <2>2. QED
    BY <2>1 DEF OnePlace, InInbox, Offered, Taken, Started
<1>2. CASE StartHandler
  <2>1. /\ mpc = "spawn" /\ mpc' = "select" /\ mreq \in Htlcs
        /\ hpc' = [hpc EXCEPT ![mreq] = "running"]
        /\ UNCHANGED <<asked, inbox, rpc, rreq, mreq>>
    BY <1>2 DEF TypeOK, StartHandler, lndVars, recvVars
  <2>2. \A h \in Htlcs : Started(h)' <=> Started(h) \/ h = mreq
    BY <2>1 DEF TypeOK, Started
  <2>3. QED
    BY <2>1, <2>2 DEF OnePlace, InInbox, Offered, Taken
<1>3. CASE ReceiveRequest
  BY <1>3, ReceiveKeepsPlaces
<1>4. ASSUME NEW h \in Htlcs, LndAsks(h)
      PROVE  OnePlace'
  BY <1>4, AskKeepsPlaces
<1>5. CASE ~Moves
  BY <1>5, OtherStepsDoNotMove, UnmovedKeepsPlaces
<1>6. QED
  BY <1>1, <1>2, <1>3, <1>4, <1>5 DEF Moves

\* What the receiver does not let pass, nobody sees; and lnd's requests do not change.
LEMMA StepValidated ==
    ASSUME TypeOK, OnePlace, Validated, Next
    PROVE  Validated'
<1>0. SUFFICES ASSUME Traits.checks, NEW h \in Htlcs,
                      (Offered(h) \/ Taken(h) \/ Started(h))'
               PROVE  h \notin malformed'
  BY SameTraits DEF Validated
<1>1. Offered(h) \/ Taken(h) \/ Started(h) => h \notin malformed
  BY <1>0 DEF Validated
<1>2. CASE Handover
  BY <1>0, <1>1, <1>2 DEF Handover, Offered, Taken, Started, lndVars
<1>3. CASE StartHandler
  BY <1>0, <1>1, <1>3 DEF TypeOK, StartHandler, Offered, Taken, Started, lndVars, recvVars
<1>4. CASE ReceiveRequest
  BY <1>0, <1>1, <1>4 DEF ReceiveRequest, Offered, Taken, Started, mainVars
<1>5. ASSUME NEW f \in Htlcs, LndAsks(f)
      PROVE  h \notin malformed'
  <2>1. Offered(h) \/ Taken(h) \/ Started(h)
    BY <1>0, <1>5 DEF LndAsks, Offered, Taken, Started, recvVars, mainVars
  <2>2. h # f
    BY <1>5, <2>1 DEF OnePlace, LndAsks
  <2>3. QED
    BY <1>1, <1>5, <2>1, <2>2 DEF LndAsks
<1>6. CASE ~Moves
  <2>1. Offered(h) \/ Taken(h) \/ Started(h)
    BY <1>0, <1>6, OtherStepsDoNotMove DEF Unmoved, Offered, Taken, Started
  <2>2. malformed' = malformed
    BY <1>6 DEF Next, Moves, MainStep, ReceiverStep, HandlerStep, Open, StartReceiver,
       ReturnError, ReturnQuit, ReturnCtx, ReceiverChecksCtx, ReceiveFails,
       OfferAborted, ReceiverReports, HandlerReturns, HandlerSends, HandlerReports,
       LndFails, CallerCancels, CloseConn, BeginWait, EndWait, lndVars
  <2>3. QED
    BY <1>1, <2>1, <2>2
<1>7. QED
  BY <1>2, <1>3, <1>4, <1>5, <1>6 DEF Moves

\* A handler answers once, when it is about to be done.
LEMMA StepAnsweredOnce ==
    ASSUME TypeOK, OnePlace, AnsweredOnce, Next
    PROVE  AnsweredOnce'
<1>0. SUFFICES ASSUME Traits.keyFrom = "request", NEW h \in Htlcs
               PROVE  answers'[h] <= 1 /\ (hpc'[h] # "done" => answers'[h] = 0)
  BY SameTraits DEF AnsweredOnce
<1>1. answers[h] <= 1 /\ (hpc[h] # "done" => answers[h] = 0)
  BY <1>0 DEF AnsweredOnce
<1>2. answers \in [Htlcs -> Nat]
      /\ hpc \in [Htlcs -> {"idle", "running", "sending", "report", "done"}]
  BY DEF TypeOK
<1>3. ASSUME NEW f \in Htlcs, HandlerSends(f)
      PROVE  answers'[h] <= 1 /\ (hpc'[h] # "done" => answers'[h] = 0)
  <2>1. CASE answers' = [answers EXCEPT ![f] = @ + 1] /\ hpc' = [hpc EXCEPT ![f] = "done"]
    BY <1>1, <1>2, <1>3, <2>1 DEF HandlerSends
  <2>2. CASE answers' = answers /\ hpc' = [hpc EXCEPT ![f] = "report"]
    BY <1>1, <1>2, <1>3, <2>2 DEF HandlerSends
  <2>3. QED
    BY <1>0, <1>3, <2>1, <2>2 DEF HandlerSends
<1>4. ASSUME NEW f \in Htlcs, HandlerReturns(f) \/ HandlerReports(f)
      PROVE  answers'[h] <= 1 /\ (hpc'[h] # "done" => answers'[h] = 0)
  <2>1. /\ answers' = answers /\ hpc[f] # "done"
        /\ \E to \in {"sending", "report", "done"} : hpc' = [hpc EXCEPT ![f] = to]
    BY <1>4 DEF HandlerReturns, HandlerReports
  <2>2. QED
    BY <1>1, <1>2, <2>1
<1>5. CASE StartHandler
  <2>1. /\ answers' = answers /\ mreq \in Htlcs
        /\ hpc' = [hpc EXCEPT ![mreq] = "running"]
    BY <1>5 DEF TypeOK, StartHandler
  <2>2. hpc[mreq] = "idle"
    BY <1>5, <2>1 DEF OnePlace, StartHandler, Taken, Started
  <2>3. answers'[h] = answers[h] /\ (hpc'[h] # "done" => hpc[h] # "done")
    BY <1>2, <2>1, <2>2
  <2>4. QED
    BY <1>1, <2>3
<1>6. CASE Open \/ StartReceiver \/ Handover \/ ReturnError \/ ReturnQuit \/ ReturnCtx
  BY <1>1, <1>6 DEF Open, StartReceiver, Handover, ReturnError, ReturnQuit, ReturnCtx
<1>7. CASE ReceiverStep
  BY <1>1, <1>7 DEF ReceiverStep, ReceiverChecksCtx, ReceiveRequest, ReceiveFails,
     OfferAborted, ReceiverReports
<1>8. CASE (\E f \in Htlcs : LndAsks(f)) \/ LndFails \/ CallerCancels
           \/ CloseConn \/ BeginWait \/ EndWait
  BY <1>1, <1>8 DEF LndAsks, LndFails, CallerCancels, CloseConn, BeginWait, EndWait
<1>9. QED
  BY <1>3, <1>4, <1>5, <1>6, <1>7, <1>8 DEF Next, MainStep, HandlerStep

-----------------------------------------------------------------------------
(***************************************************************************)
(* Errors.                                                                 *)
(***************************************************************************)

\* A cause stays a cause.
LEMMA CausesStay ==
    ASSUME Next, failures \subseteq failures', NEW e, Caused(e)
    PROVE  Caused(e)'
<1>1. /\ quit => quit'
      /\ lndFailed => lndFailed'
      /\ parent => parent'
      /\ child => child'
      /\ connOpen' => connOpen
  BY DEF Next, MainStep, ReceiverStep, HandlerStep, Open, Return, StartReceiver,
     Handover, StartHandler, ReturnError, ReturnQuit, ReturnCtx, ReceiverChecksCtx,
     ReceiveRequest, ReceiveFails, OfferAborted, ReceiverReports, HandlerReturns,
     HandlerSends, HandlerReports, LndAsks, LndFails, CallerCancels, CloseConn,
     BeginWait, EndWait, GoroutineStarts, GoroutineEnds, lndVars, mainVars, waitVars
<1>2. QED
  BY <1>1 DEF Caused, CtxDone

\* No goroutine begins to report.
NoNewReport ==
    /\ rpc' = "report" => rpc = "report"
    /\ \A h \in Htlcs : hpc'[h] = "report" => hpc[h] = "report"

\* A step that raises no error and moves none.
LEMMA QuietKeepsCauses ==
    ASSUME ErrorsAreCaused, Next, NoNewReport,
           pend' = pend, errBuf' = errBuf, failures \subseteq failures'
    PROVE  ErrorsAreCaused'
BY CausesStay DEF ErrorsAreCaused, NoNewReport

\* A goroutine that raises an error has a cause for it, and something to report.
LEMMA FailHasCause ==
    ASSUME TypeOK, ErrorsAreCaused, Next, NEW g \in Goroutines,
           NEW kind \in ErrorKinds, Fail(g, kind),
           kind = "quit" => quit',
           kind = "ctx" => CtxDone',
           kind = "stream" => (lndFailed \/ ~connOpen \/ CtxDone)',
           rpc' = "report" => rpc = "report" \/ g = Receiver,
           \A h \in Htlcs : hpc'[h] = "report" => hpc[h] = "report" \/ g = h
    PROVE  ErrorsAreCaused'
<1>1. /\ pend \in [Goroutines -> ErrorKinds \cup {"none"}]
      /\ pend' = [pend EXCEPT ![g] = kind]
      /\ failures' = failures \cup {kind} /\ errBuf' = errBuf
  BY DEF TypeOK, Fail
<1>2. Caused(kind)' /\ kind # "none"
  BY <1>1 DEF Caused, ErrorKinds
<1>3. \A f \in Goroutines : pend'[f] = IF f = g THEN kind ELSE pend[f]
  BY <1>1
<1>4. \A f \in Goroutines : Caused(pend[f])'
  <2>1. SUFFICES ASSUME NEW f \in Goroutines PROVE Caused(pend[f])'
    OBVIOUS
  <2>2. CASE f = g
    BY <1>2, <1>3, <2>2 DEF Caused
  <2>3. CASE f # g
    <3>1. pend'[f] = pend[f] /\ Caused(pend[f])
      BY <1>3, <2>3 DEF ErrorsAreCaused
    <3>2. PICK e : e = pend[f]
      OBVIOUS
    <3>3. Caused(e)'
      BY <1>1, <3>1, <3>2, CausesStay
    <3>4. QED
      BY <3>1, <3>2, <3>3 DEF Caused
  <2>4. QED
    BY <2>2, <2>3
<1>5. \A i \in DOMAIN errBuf' : Caused(errBuf[i])'
  <2>1. SUFFICES ASSUME NEW i \in DOMAIN errBuf PROVE Caused(errBuf[i])'
    BY <1>1
  <2>2. PICK e : e = errBuf[i]
    OBVIOUS
  <2>3. Caused(e)'
    BY <1>1, <2>2, CausesStay DEF ErrorsAreCaused
  <2>4. QED
    BY <1>1, <2>2, <2>3 DEF Caused
<1>6. /\ rpc' = "report" => pend'[Receiver] # "none"
      /\ \A h \in Htlcs : hpc'[h] = "report" => pend'[h] # "none"
  BY <1>2, <1>3 DEF ErrorsAreCaused, Goroutines
<1>7. QED
  BY <1>4, <1>5, <1>6 DEF ErrorsAreCaused

\* sendErr moves the error of the goroutine into the channel, or drops it.
LEMMA SendErrKeepsCauses ==
    ASSUME ErrorsAreCaused, Next, NEW g \in Goroutines, SendErr(g), NoNewReport
    PROVE  ErrorsAreCaused'
<1>1. pend' = pend /\ failures' = failures
  BY DEF SendErr
<1>2. CASE errBuf' = errBuf
  BY <1>1, <1>2, QuietKeepsCauses
<1>3. CASE errBuf' = <<pend[g]>>
  <2>1. \A f \in Goroutines : Caused(pend[f])'
    <3>1. SUFFICES ASSUME NEW f \in Goroutines PROVE Caused(pend[f])'
      OBVIOUS
    <3>2. PICK e : e = pend[f]
      OBVIOUS
    <3>3. Caused(e)'
      BY <1>1, <3>2, CausesStay DEF ErrorsAreCaused
    <3>4. QED
      BY <1>1, <3>2, <3>3 DEF Caused
  <2>2. errBuf' \in Seq({pend[g]}) /\ DOMAIN errBuf' = {1} /\ errBuf'[1] = pend'[g]
    BY <1>1, <1>3
  <2>3. \A i \in DOMAIN errBuf' : Caused(errBuf[i])'
    BY <2>1, <2>2 DEF Caused
  <2>4. QED
    BY <1>1, <2>1, <2>3 DEF ErrorsAreCaused, NoNewReport
<1>4. QED
  BY <1>2, <1>3 DEF SendErr

\* Every error there is has a cause after every step.
LEMMA StepErrors ==
    ASSUME TypeOK, Phases, OnePlace, ErrorsAreCaused, Next
    PROVE  ErrorsAreCaused'
<1> USE DEF lndVars, mainVars, recvVars, errVars, waitVars
<1>0. /\ {"open", "stream", "request", "handler", "response", "quit", "ctx"}
             \subseteq ErrorKinds
      /\ Receiver \in Goroutines /\ Htlcs \subseteq Goroutines
      /\ hpc \in [Htlcs -> {"idle", "running", "sending", "report", "done"}]
  BY DEF ErrorKinds, Goroutines, TypeOK
<1>1. CASE ReceiveRequest
  <2>1. CASE rpc' = "report" /\ Fail(Receiver, "request")
    BY <1>0, <1>1, <2>1, FailHasCause DEF ReceiveRequest
  <2>2. CASE rpc' = "offer" /\ UNCHANGED errVars
    BY <1>1, <2>2, QuietKeepsCauses DEF ReceiveRequest, NoNewReport
  <2>3. QED
    BY <1>1, <2>1, <2>2 DEF ReceiveRequest
<1>2. CASE ReceiveFails
  <2>1. /\ Fail(Receiver, "stream") /\ (lndFailed \/ ~connOpen \/ CtxDone)'
        /\ hpc' = hpc
    BY <1>2 DEF ReceiveFails, CtxDone
  <2>2. QED
    BY <1>0, <2>1, FailHasCause
<1>3. CASE OfferAborted
  <2>1. /\ hpc' = hpc
        /\ \/ quit' /\ Fail(Receiver, "quit")
           \/ CtxDone' /\ Fail(Receiver, "ctx")
    BY <1>3 DEF OfferAborted, CtxDone
  <2>2. QED
    BY <1>0, <2>1, FailHasCause
<1>4. CASE ReceiverReports
  <2>1. NoNewReport /\ SendErr(Receiver)
    BY <1>4 DEF ReceiverReports, NoNewReport
  <2>2. QED
    BY <1>0, <2>1, SendErrKeepsCauses
<1>5. ASSUME NEW h \in Htlcs, HandlerReturns(h)
      PROVE  ErrorsAreCaused'
  <2>1. CASE hpc' = [hpc EXCEPT ![h] = "sending"] /\ UNCHANGED errVars
    BY <1>0, <1>5, <2>1, QuietKeepsCauses DEF HandlerReturns, NoNewReport
  <2>2. ASSUME NEW kind \in {"handler", "response"},
               hpc' = [hpc EXCEPT ![h] = "report"], Fail(h, kind)
        PROVE  ErrorsAreCaused'
    <3>1. \A f \in Htlcs : hpc'[f] = "report" => hpc[f] = "report" \/ h = f
      BY <1>0, <2>2
    <3>2. rpc' = rpc
      BY <1>5 DEF HandlerReturns
    <3>3. QED
      BY <1>0, <2>2, <3>1, <3>2, FailHasCause
  <2>3. QED
    BY <1>5, <2>1, <2>2 DEF HandlerReturns
<1>6. ASSUME NEW h \in Htlcs, HandlerSends(h)
      PROVE  ErrorsAreCaused'
  <2>1. CASE hpc' = [hpc EXCEPT ![h] = "done"] /\ UNCHANGED errVars
    BY <1>0, <1>6, <2>1, QuietKeepsCauses DEF HandlerSends, NoNewReport
  <2>2. CASE hpc' = [hpc EXCEPT ![h] = "report"] /\ Fail(h, "stream")
    <3>1. \A f \in Htlcs : hpc'[f] = "report" => hpc[f] = "report" \/ h = f
      BY <1>0, <2>2
    <3>2. rpc' = rpc /\ (lndFailed \/ ~connOpen \/ CtxDone)'
      BY <1>0, <1>6, <2>2 DEF HandlerSends, CtxDone
    <3>3. QED
      BY <1>0, <2>2, <3>1, <3>2, FailHasCause
  <2>3. QED
    BY <1>6, <2>1, <2>2 DEF HandlerSends
<1>7. ASSUME NEW h \in Htlcs, HandlerReports(h)
      PROVE  ErrorsAreCaused'
  <2>1. NoNewReport /\ SendErr(h)
    BY <1>0, <1>7 DEF HandlerReports, NoNewReport
  <2>2. QED
    BY <1>0, <2>1, SendErrKeepsCauses
<1>8. CASE ReturnError
  <2>1. NoNewReport /\ errBuf' = <<>> /\ pend' = pend /\ failures' = failures
    BY <1>8 DEF ReturnError, NoNewReport
  <2>2. \A g \in Goroutines : Caused(pend[g])'
    BY <2>1, CausesStay DEF ErrorsAreCaused
  <2>3. QED
    BY <2>1, <2>2 DEF ErrorsAreCaused, NoNewReport
<1>9. CASE Open
  <2>1. NoNewReport /\ pend' = pend /\ errBuf' = errBuf /\ failures \subseteq failures'
    BY <1>9 DEF Open, NoNewReport
  <2>2. QED
    BY <2>1, QuietKeepsCauses
<1>10. CASE StartReceiver \/ Handover \/ ReturnQuit \/ ReturnCtx \/ ReceiverChecksCtx
  <2>1. NoNewReport /\ UNCHANGED errVars
    BY <1>10 DEF StartReceiver, Handover, ReturnQuit, ReturnCtx, ReceiverChecksCtx,
       NoNewReport
  <2>2. QED
    BY <2>1, QuietKeepsCauses
<1>11. CASE StartHandler
  <2>1. NoNewReport /\ UNCHANGED errVars
    BY <1>0, <1>11 DEF StartHandler, NoNewReport
  <2>2. QED
    BY <2>1, QuietKeepsCauses
<1>12. CASE (\E h \in Htlcs : LndAsks(h)) \/ LndFails \/ CallerCancels
            \/ CloseConn \/ BeginWait \/ EndWait
  <2>1. NoNewReport /\ UNCHANGED errVars
    BY <1>12 DEF LndAsks, LndFails, CallerCancels, CloseConn, BeginWait, EndWait,
       NoNewReport
  <2>2. QED
    BY <2>1, QuietKeepsCauses
<1>13. QED
  BY <1>1, <1>2, <1>3, <1>4, <1>5, <1>6, <1>7, <1>8, <1>9, <1>10, <1>11, <1>12
     DEF Next, MainStep, ReceiverStep, HandlerStep

-----------------------------------------------------------------------------
(***************************************************************************)
(* The end of the call.                                                    *)
(***************************************************************************)

\* A call that has a reason to end keeps one: an error leaves the channel only with
\* the return, and a goroutine stops reporting only when the error is in the channel
\* or the call ends anyway.
LEMMA EndingStays ==
    ASSUME TypeOK, Phases, OnePlace, Next, Ending
    PROVE  Ending'
<1> USE DEF lndVars, mainVars, recvVars, errVars, waitVars
<1>1. CASE Open
  <2>1. /\ child' = child \/ child' = TRUE
        /\ UNCHANGED <<parent, quit, errBuf, rpc, hpc>>
    BY <1>1 DEF Open, Return
  <2>2. QED
    BY <2>1 DEF Ending, CtxDone
<1>2. CASE StartReceiver \/ Handover
  <2>1. /\ rpc # "report"
        /\ UNCHANGED <<parent, child, quit, errBuf, hpc>>
    <3>1. CASE StartReceiver
      BY <3>1 DEF StartReceiver, GoroutineStarts, Phases
    <3>2. CASE Handover
      BY <3>2 DEF Handover
    <3>3. QED
      BY <1>2, <3>1, <3>2
  <2>2. QED
    BY <2>1 DEF Ending, CtxDone
<1>2a. CASE StartHandler
  <2>1. /\ mreq \in Htlcs /\ hpc' = [hpc EXCEPT ![mreq] = "running"]
        /\ UNCHANGED <<parent, child, quit, errBuf, rpc>>
    BY <1>2a DEF TypeOK, StartHandler, GoroutineStarts
  <2>2. hpc[mreq] = "idle"
    BY <1>2a, <2>1 DEF StartHandler, OnePlace, Taken, Started, TypeOK
  <2>3. ASSUME NEW h \in Htlcs, hpc[h] = "report" PROVE hpc'[h] = "report"
    BY <2>1, <2>2, <2>3 DEF TypeOK
  <2>4. QED
    BY <2>1, <2>3 DEF Ending, CtxDone
<1>3. CASE ReturnError \/ ReturnQuit \/ ReturnCtx
  BY <1>3 DEF Ending, CtxDone, ReturnError, ReturnQuit, ReturnCtx, Return
<1>4. CASE ReceiverChecksCtx \/ ReceiveRequest \/ ReceiveFails \/ OfferAborted
  BY <1>4 DEF Ending, CtxDone, ReceiverChecksCtx, ReceiveRequest, ReceiveFails,
     OfferAborted, Fail, GoroutineEnds
<1>5. ASSUME NEW g \in Goroutines, SendErr(g), UNCHANGED <<parent, child, quit>>
      PROVE  Ending'
  BY <1>5 DEF SendErr, Ending, CtxDone
<1>6. ASSUME NEW h \in Htlcs, HandlerReturns(h) \/ HandlerSends(h)
      PROVE  Ending'
  <2>1. /\ hpc[h] # "report"
        /\ \E to \in {"sending", "report", "done"} : hpc' = [hpc EXCEPT ![h] = to]
        /\ UNCHANGED <<parent, child, quit, errBuf, rpc>>
    BY <1>6 DEF HandlerReturns, HandlerSends, Fail, GoroutineEnds
  <2>2. QED
    BY <2>1 DEF Ending, CtxDone, TypeOK
<1>7. CASE LndFails \/ CallerCancels \/ CloseConn \/ BeginWait \/ EndWait
  BY <1>7 DEF Ending, CtxDone, LndFails, CallerCancels, CloseConn, BeginWait, EndWait
<1>8. CASE \E h \in Htlcs : LndAsks(h)
  BY <1>8 DEF Ending, CtxDone, LndAsks
<1>9. CASE ReceiverReports \/ \E h \in Htlcs : HandlerReports(h)
  BY <1>5, <1>9 DEF ReceiverReports, HandlerReports, GoroutineEnds, Goroutines
<1>10. QED
  BY <1>1, <1>2, <1>2a, <1>3, <1>4, <1>6, <1>7, <1>8, <1>9
     DEF Next, MainStep, ReceiverStep, HandlerStep

\* A request is on its way to its answer.
OnItsWay(h) ==
    \/ InInbox(h) \/ Offered(h) \/ Taken(h)
    \/ hpc[h] \in {"running", "sending"}
    \/ hpc[h] = "done" /\ (Traits.keyFrom = "request" => answers[h] = 1)

\* A request leaves its way only when the call is about to end.
LEMMA StepDropsNothing ==
    ASSUME TypeOK, Phases, OnePlace, AnsweredOnce, NoRequestDropped, Next
    PROVE  NoRequestDropped'
<1> USE DEF lndVars, mainVars, recvVars, errVars, waitVars
<1>0. SUFFICES ASSUME NEW h \in asked' PROVE OnItsWay(h)' \/ Ending'
  BY DEF NoRequestDropped, OnItsWay, InInbox, Offered, Taken
<1>1. SUFFICES ASSUME h \in asked => OnItsWay(h), ~Ending
               PROVE  OnItsWay(h)' \/ Ending'
  BY EndingStays DEF NoRequestDropped, OnItsWay, InInbox, Offered, Taken
<1>2. /\ Traits' = Traits
      /\ hpc \in [Htlcs -> {"idle", "running", "sending", "report", "done"}]
      /\ answers \in [Htlcs -> Nat] /\ asked \subseteq Htlcs
  BY SameTraits DEF TypeOK
<1>3. ASSUME NEW f \in Htlcs, LndAsks(f)
      PROVE  OnItsWay(h)'
  <2>1. h \in asked \/ h = f
    BY <1>3 DEF LndAsks
  <2>2. InInbox(h) \/ h = f => InInbox(h)'
    BY <1>2, <1>3, <2>1, AskKeepsPlaces
  <2>3. UNCHANGED <<rpc, rreq, mpc, mreq, hpc, answers>>
    BY <1>3 DEF LndAsks
  <2>4. QED
    BY <1>1, <1>2, <2>1, <2>2, <2>3 DEF OnItsWay, Offered, Taken
<1>4. CASE ReceiveRequest
  <2>1. CASE rpc' = "report"
    BY <2>1 DEF Ending
  <2>2. CASE rpc' = "offer"
    <3>1. h \in Htlcs /\ h \in asked
      BY <1>2, <1>4 DEF ReceiveRequest
    <3>2. InInbox(h) => InInbox(h)' \/ h = rreq'
      BY <1>4, <3>1, ReceiveMovesHead
    <3>3. rpc = "recv" /\ UNCHANGED <<mpc, mreq, hpc, answers>>
      BY <1>4 DEF ReceiveRequest
    <3>4. QED
      BY <1>1, <1>2, <2>2, <3>1, <3>2, <3>3 DEF OnItsWay, Offered, Taken
  <2>3. QED
    BY <1>4, <2>1, <2>2 DEF ReceiveRequest
<1>5. CASE Handover
  BY <1>1, <1>2, <1>5 DEF Handover, OnItsWay, InInbox, Offered, Taken
<1>6. CASE StartHandler
  <2>1. /\ mreq \in Htlcs /\ hpc[mreq] = "idle"
        /\ hpc' = [hpc EXCEPT ![mreq] = "running"]
    BY <1>6 DEF TypeOK, StartHandler, OnePlace, Taken, Started
  <2>2. h \in asked /\ h \in Htlcs
    BY <1>2, <1>6 DEF StartHandler
  <2>3. UNCHANGED <<inbox, rpc, rreq, mreq, answers>> /\ mpc = "spawn"
    BY <1>6 DEF StartHandler
  <2>4. hpc'[h] = IF h = mreq THEN "running" ELSE hpc[h]
    BY <1>2, <2>1, <2>2
  <2>5. QED
    BY <1>1, <1>2, <2>2, <2>3, <2>4 DEF OnItsWay, InInbox, Offered, Taken
<1>7. ASSUME NEW f \in Htlcs, HandlerReturns(f)
      PROVE  OnItsWay(h)' \/ Ending'
  <2>1. h \in asked /\ h \in Htlcs /\ hpc[f] = "running"
        /\ UNCHANGED <<inbox, rpc, rreq, mpc, mreq, answers>>
    BY <1>2, <1>7 DEF HandlerReturns
  <2>2. CASE hpc' = [hpc EXCEPT ![f] = "sending"]
    <3>1. hpc'[h] = hpc[h] \/ hpc'[h] = "sending"
      BY <1>2, <2>1, <2>2
    <3>2. QED
      BY <1>1, <1>2, <2>1, <3>1 DEF OnItsWay, InInbox, Offered, Taken
  <2>3. CASE hpc' = [hpc EXCEPT ![f] = "report"]
    BY <1>2, <2>3 DEF Ending
  <2>4. QED
    BY <1>7, <2>2, <2>3 DEF HandlerReturns
<1>8. ASSUME NEW f \in Htlcs, HandlerSends(f)
      PROVE  OnItsWay(h)' \/ Ending'
  <2>1. h \in asked /\ h \in Htlcs /\ hpc[f] = "sending"
        /\ UNCHANGED <<inbox, rpc, rreq, mpc, mreq>>
    BY <1>2, <1>8 DEF HandlerSends
  <2>2. CASE hpc' = [hpc EXCEPT ![f] = "report"]
    BY <1>2, <2>2 DEF Ending
  <2>3. CASE hpc' = [hpc EXCEPT ![f] = "done"]
    <3>1. Traits.keyFrom = "request" =>
              answers[f] = 0 /\ answers' = [answers EXCEPT ![f] = @ + 1]
      BY <1>2, <1>8, <2>1, <2>3 DEF HandlerSends, AnsweredOnce
    <3>2. CASE h = f
      <4>1. hpc'[h] = "done"
        BY <1>2, <2>1, <2>3, <3>2
      <4>2. Traits.keyFrom = "request" => answers'[h] = 1
        BY <1>2, <2>1, <3>1, <3>2
      <4>3. QED
        BY <1>2, <4>1, <4>2 DEF OnItsWay
    <3>3. CASE h # f
      <4>1. hpc'[h] = hpc[h]
        BY <1>2, <2>1, <2>3, <3>3
      <4>2. Traits.keyFrom = "request" => answers'[h] = answers[h]
        BY <1>2, <2>1, <3>1, <3>3
      <4>3. QED
        BY <1>1, <1>2, <2>1, <4>1, <4>2 DEF OnItsWay, InInbox, Offered, Taken
    <3>4. QED
      BY <3>2, <3>3
  <2>4. QED
    BY <1>8, <2>2, <2>3 DEF HandlerSends
<1>9. ASSUME NEW f \in Htlcs, HandlerReports(f)
      PROVE  Ending'
  BY <1>1, <1>9 DEF HandlerReports, Ending
<1>10. CASE OfferAborted \/ ReceiveFails \/ ReceiverReports
  BY <1>1, <1>10 DEF OfferAborted, ReceiveFails, ReceiverReports, Ending
<1>11. CASE Open \/ StartReceiver \/ ReturnError \/ ReturnQuit \/ ReturnCtx
            \/ ReceiverChecksCtx \/ LndFails \/ CallerCancels \/ CloseConn
            \/ BeginWait \/ EndWait
  <2>1. /\ h \in asked
        /\ UNCHANGED <<inbox, rreq, mreq, hpc, answers>>
        /\ rpc = "offer" => rpc' = "offer"
        /\ mpc = "spawn" => mpc' = "spawn"
    <3>1. CASE Open \/ ReturnError \/ ReturnQuit \/ ReturnCtx
      BY <1>0, <3>1 DEF Open, ReturnError, ReturnQuit, ReturnCtx, Return
    <3>2. CASE StartReceiver
      <4>1. rpc # "offer"
        BY <3>2 DEF OnePlace, Phases, StartReceiver
      <4>2. QED
        BY <1>0, <3>2, <4>1 DEF StartReceiver
    <3>3. CASE ReceiverChecksCtx
      BY <1>0, <3>3 DEF ReceiverChecksCtx
    <3>4. CASE LndFails \/ CallerCancels \/ CloseConn \/ BeginWait \/ EndWait
      BY <1>0, <3>4 DEF LndFails, CallerCancels, CloseConn, BeginWait, EndWait
    <3>5. QED
      BY <1>11, <3>1, <3>2, <3>3, <3>4
  <2>2. QED
    BY <1>1, <1>2, <2>1 DEF OnItsWay, InInbox, Offered, Taken
<1>12. QED
  BY <1>3, <1>4, <1>5, <1>6, <1>7, <1>8, <1>9, <1>10, <1>11
     DEF Next, MainStep, ReceiverStep, HandlerStep

-----------------------------------------------------------------------------
(***************************************************************************)
(* What the call returns.                                                  *)
(***************************************************************************)

\* The result is set once, with the return, and what it says stays true.
LEMMA StepResult ==
    ASSUME TypeOK, Phases, ErrorsAreCaused, ResultIsTrue, Next
    PROVE  ResultIsTrue'
<1> USE DEF lndVars, mainVars, recvVars, errVars, waitVars
<1>0. /\ quit => quit'
      /\ parent => parent'
      /\ lndFailed => lndFailed'
      /\ ~connOpen => ~connOpen'
      /\ failures \subseteq failures'
  <2>1. CASE MainStep
    BY <2>1 DEF MainStep, Open, StartReceiver, Handover, StartHandler, ReturnError,
       ReturnQuit, ReturnCtx, Return, GoroutineStarts
  <2>2. CASE ReceiverStep
    BY <2>2 DEF ReceiverStep, ReceiverChecksCtx, ReceiveRequest, ReceiveFails,
       OfferAborted, ReceiverReports, SendErr, Fail, GoroutineEnds
  <2>3. CASE \E h \in Htlcs : HandlerReturns(h) \/ HandlerStep(h) \/ LndAsks(h)
    BY <2>3 DEF HandlerReturns, HandlerStep, HandlerSends, HandlerReports, LndAsks,
       SendErr, Fail, GoroutineEnds
  <2>4. CASE LndFails \/ CallerCancels \/ CloseConn \/ BeginWait \/ EndWait
    BY <2>4 DEF LndFails, CallerCancels, CloseConn, BeginWait, EndWait
  <2>5. QED
    BY <2>1, <2>2, <2>3, <2>4 DEF Next
<1>1. CASE result' = result
  BY <1>0, <1>1 DEF ResultIsTrue
<1>2. CASE Open
  <2>1. result' = result \/ (result' = "open" /\ "open" \in failures')
    BY <1>2 DEF Open, Return
  <2>2. QED
    BY <1>1, <2>1 DEF ResultIsTrue
<1>3. CASE ReturnError
  <2>1. /\ mpc = "select" /\ 1 \in DOMAIN errBuf /\ result' = errBuf[1]
        /\ errBuf[1] \in ErrorKinds
    BY <1>3 DEF ReturnError, Return, TypeOK
  <2>2. ~child /\ Caused(errBuf[1]) /\ "none" \notin ErrorKinds
    BY <2>1 DEF Phases, ErrorsAreCaused, ErrorKinds
  <2>3. QED
    BY <1>0, <2>1, <2>2 DEF ResultIsTrue, Caused, CtxDone
<1>4. CASE ReturnQuit
  BY <1>0, <1>4 DEF ReturnQuit, Return, ResultIsTrue
<1>5. CASE ReturnCtx
  <2>1. ~child /\ CtxDone /\ result' = "ctx"
    BY <1>5 DEF ReturnCtx, Return, Phases
  <2>2. QED
    BY <1>0, <2>1 DEF ResultIsTrue, CtxDone
<1>6. CASE StartReceiver \/ Handover \/ StartHandler \/ ReceiverStep
  BY <1>1, <1>6 DEF StartReceiver, Handover, StartHandler, ReceiverStep,
     ReceiverChecksCtx, ReceiveRequest, ReceiveFails, OfferAborted, ReceiverReports
<1>7. CASE \E h \in Htlcs : HandlerReturns(h) \/ HandlerStep(h) \/ LndAsks(h)
  BY <1>1, <1>7 DEF HandlerReturns, HandlerStep, HandlerSends, HandlerReports, LndAsks
<1>8. CASE LndFails \/ CallerCancels \/ CloseConn \/ BeginWait \/ EndWait
  BY <1>1, <1>8 DEF LndFails, CallerCancels, CloseConn, BeginWait, EndWait
<1>9. QED
  BY <1>2, <1>3, <1>4, <1>5, <1>6, <1>7, <1>8 DEF Next, MainStep

-----------------------------------------------------------------------------
(***************************************************************************)
(* The invariant and the theorems.                                         *)
(***************************************************************************)

\* At first there is no request.
LEMMA InitInv ==
    ASSUME Init
    PROVE  Inv
<1>1. TypeOK
  <2>1. /\ lndFailed \in BOOLEAN /\ connOpen \in BOOLEAN
        /\ parent \in BOOLEAN /\ child \in BOOLEAN /\ quit \in BOOLEAN
    BY DEF Init
  <2>2. /\ method \in {"InterceptHtlcs", "HtlcModifier"}
        /\ malformed \subseteq asked /\ asked \subseteq Htlcs
        /\ mpc \in {"call", "opened", "select", "spawn", "returned"}
        /\ mreq \in Htlcs \cup {None} /\ rreq \in Htlcs \cup {None}
        /\ mpc = "spawn" => mreq \in Htlcs
        /\ rpc = "offer" => rreq \in Htlcs
        /\ result \in ErrorKinds \cup {"none"}
        /\ rpc \in {"idle", "check", "recv", "offer", "report", "done"}
        /\ failures \subseteq ErrorKinds
        /\ wg \in Nat
        /\ waiter \in {"idle", "waiting", "returned"}
        /\ late \subseteq Goroutines
    BY DEF Init
  <2>3. answers \in [Htlcs -> Nat]
    BY DEF Init
  <2>4. hpc \in [Htlcs -> {"idle", "running", "sending", "report", "done"}]
    BY DEF Init
  <2>5. pend \in [Goroutines -> ErrorKinds \cup {"none"}]
    BY DEF Init
  <2>6. inbox \in Seq(Htlcs) /\ errBuf \in Seq(ErrorKinds) /\ Len(errBuf) <= 1
    BY DEF Init
  <2>7. QED
    BY <2>1, <2>2, <2>3, <2>4, <2>5, <2>6 DEF TypeOK
<1>2. Phases /\ ResultIsTrue /\ WaitCoversGoroutines /\ NoRequestDropped
  BY DEF Init, Phases, ResultIsTrue, WaitCoversGoroutines, NoRequestDropped
<1>3. OnePlace /\ Validated /\ AnsweredOnce
  BY DEF Init, OnePlace, Validated, AnsweredOnce, InInbox, Offered, Taken, Started
<1>4. ErrorsAreCaused
  BY DEF Init, ErrorsAreCaused, Caused, Goroutines
<1>5. WgCounts
  <2>1. Runners = {}
    BY DEF Init, Runners, Running, Goroutines
  <2>2. QED
    BY <2>1, FS_EmptySet DEF Init, WgCounts
<1>6. QED
  BY <1>1, <1>2, <1>3, <1>4, <1>5 DEF Inv

\* Every step keeps the invariant.
LEMMA StepInv ==
    ASSUME Inv, Next
    PROVE  Inv'
<1>1. TypeOK /\ Phases /\ OnePlace /\ Validated /\ AnsweredOnce /\ ErrorsAreCaused
      /\ NoRequestDropped /\ ResultIsTrue
  BY DEF Inv
<1>2. WgCounts' /\ wg' \in Nat /\ WaitCoversGoroutines'
  BY StepCounts
<1>3. TypeOK' /\ Phases' /\ OnePlace'
  BY <1>1, <1>2, StepTypes, StepPhases, StepPlaces
<1>4. Validated' /\ AnsweredOnce'
  BY <1>1, StepValidated, StepAnsweredOnce
<1>5. ErrorsAreCaused' /\ NoRequestDropped' /\ ResultIsTrue'
  BY <1>1, StepErrors, StepDropsNothing, StepResult
<1>6. QED
  BY <1>2, <1>3, <1>4, <1>5 DEF Inv

\* So does a step that changes nothing.
LEMMA StutterInv ==
    ASSUME Inv, UNCHANGED vars
    PROVE  Inv'
<1> USE DEF vars, lndVars, mainVars, recvVars, errVars, waitVars
<1>1. TypeOK' /\ Phases' /\ ResultIsTrue'
  BY DEF Inv, TypeOK, Phases, ResultIsTrue
<1>2. OnePlace' /\ Validated' /\ AnsweredOnce'
  BY DEF Inv, OnePlace, Validated, AnsweredOnce, InInbox, Offered, Taken, Started,
     Traits
<1>3. ErrorsAreCaused'
  BY DEF Inv, ErrorsAreCaused, Caused, CtxDone
<1>4. WgCounts' /\ WaitCoversGoroutines'
  BY DEF Inv, WgCounts, Runners, WaitCoversGoroutines, Running
<1>5. NoRequestDropped'
  BY DEF Inv, NoRequestDropped, Ending, CtxDone, Traits
<1>6. QED
  BY <1>1, <1>2, <1>3, <1>4, <1>5 DEF Inv

\* Everything the modules' other theorems rest on holds in every reachable state of
\* InterceptHtlcs and HtlcModifier, for any finite set of HTLCs.
THEOREM Invariance == Spec => []Inv
<1>1. Init => Inv
  BY InitInv
<1>2. Inv /\ [Next]_vars => Inv'
  BY StepInv, StutterInv
<1>3. QED
  BY <1>1, <1>2, PTL DEF Spec

\* The call's variables keep their types.
THEOREM TypeCorrect == Spec => []TypeOK
<1>1. Inv => TypeOK
  BY DEF Inv
<1>2. QED
  BY Invariance, <1>1, PTL

\* A request the receiver took off the stream is with the receiver, the main loop or
\* its handler, or was answered, unless the call is about to return.
THEOREM NothingDropped == Spec => []NoRequestDropped
<1>1. Inv => NoRequestDropped
  BY DEF Inv
<1>2. QED
  BY Invariance, <1>1, PTL

\* InterceptHtlcs answers an HTLC at most once, after lnd asked about it, and never one
\* whose request did not parse.
THEOREM AtMostOneAnswer == Spec => []OneAnswerPerRequest
<1>1. Inv => OneAnswerPerRequest
  <2>1. SUFFICES ASSUME Inv, Traits.keyFrom = "request", NEW h \in Htlcs
                 PROVE  /\ answers[h] <= 1
                        /\ answers[h] = 1 => h \in asked \ malformed /\ hpc[h] = "done"
    BY DEF OneAnswerPerRequest
  <2>2. answers[h] <= 1 /\ (hpc[h] # "done" => answers[h] = 0)
    BY <2>1 DEF Inv, AnsweredOnce
  <2>3. Traits.checks
    BY <2>1, TraitsOfMethod DEF Inv, TypeOK
  <2>4. hpc[h] = "done" => h \in asked /\ h \notin malformed
    BY <2>1, <2>3 DEF Inv, OnePlace, Validated, Started
  <2>5. QED
    BY <2>2, <2>4
<1>2. QED
  BY Invariance, <1>1, PTL

\* The error the call returns names what happened: the shutdown, the caller's
\* cancellation, a cut stream, or an error that some goroutine had.
THEOREM ResultTellsTheTruth == Spec => []ResultIsTrue
<1>1. Inv => ResultIsTrue
  BY DEF Inv
<1>2. QED
  BY Invariance, <1>1, PTL

\* When WaitForFinished has returned, the only goroutines of the call that run are those
\* started after it returned.
THEOREM WaitIsComplete == Spec => []WaitCoversGoroutines
<1>1. Inv => WaitCoversGoroutines
  BY DEF Inv
<1>2. QED
  BY Invariance, <1>1, PTL

-----------------------------------------------------------------------------
(***************************************************************************)
(* The promise.                                                            *)
(***************************************************************************)

\* The requests without a handler are in line: the receiver has one in its hand only
\* while it offers it, or after it has given it up, and lnd has asked for what is there.
QueueInv ==
    /\ rreq # None => rreq \in asked /\ ~InInbox(rreq)
    /\ rpc \in {"idle", "check", "recv"} => ~Held
    /\ mpc = "call" => rreq = None /\ inbox = <<>> /\ \A h \in Htlcs : hpc[h] = "idle"
    /\ ~Traits.checks => malformed = {}
    /\ mpc = "returned" => result # "none"

\* What a goroutine can have to report, and that the channel has nothing else.
ReportInv ==
    /\ \A h \in Htlcs :
          /\ pend[h] \in {"none", "handler", "response", "stream"}
          /\ pend[h] = "response" => Traits.checks
          /\ hpc[h] \in {"idle", "running", "sending"} => pend[h] = "none"
    /\ pend[Receiver] \in {"none", "request", "stream", "quit", "ctx"}
    /\ pend[Receiver] # "none" => rpc \in {"report", "done"}
    /\ pend[Receiver] = "request" => Held /\ rreq \in malformed
    /\ \A i \in DOMAIN errBuf : \E g \in Goroutines : pend[g] = errBuf[i]

\* The line of requests stays as it is.
Still ==
    /\ UNCHANGED <<rreq, mreq, inbox>>
    /\ mpc' = "spawn" <=> mpc = "spawn"
    /\ \A h \in Htlcs : hpc'[h] = "idle" <=> hpc[h] = "idle"

LEMMA StillWaiting ==
    ASSUME TypeOK, Still
    PROVE  (Held' <=> Held) /\ Waiting' = Waiting
<1>1. Held' <=> Held
  BY DEF TypeOK, Still, Held
<1>2. Waiting' = Waiting
  BY <1>1 DEF Still, Waiting
<1>3. QED
  BY <1>1, <1>2

\* All steps but four leave it so, and what else QueueInv speaks of.
LEMMA OthersAreStill ==
    ASSUME TypeOK, Phases, Next, ~Moves
    PROVE  /\ Still /\ UNCHANGED <<asked, malformed>>
           /\ rpc' \in {"idle", "check", "recv"} => rpc \in {"idle", "check", "recv"}
           /\ mpc' = "call" => mpc = "call"
           /\ mpc' = "returned" => result' # "none" \/ (mpc = "returned" /\ result' = result)
<1> USE DEF lndVars, mainVars, recvVars
<1>0. \A h \in Htlcs : hpc'[h] = "idle" <=> hpc[h] = "idle"
  BY OtherStepsDoNotMove DEF Unmoved
<1>1. CASE Open \/ ReturnQuit \/ ReturnCtx \/ StartReceiver
  BY <1>0, <1>1 DEF Open, ReturnQuit, ReturnCtx, Return, StartReceiver, Still, Phases
<1>2. CASE ReturnError
  <2>1. Head(errBuf) \in ErrorKinds /\ "none" \notin ErrorKinds
    BY <1>2 DEF ReturnError, TypeOK, ErrorKinds
  <2>2. QED
    BY <1>0, <1>2, <2>1 DEF ReturnError, Return, Still
<1>3. CASE ReceiverChecksCtx \/ ReceiveFails \/ OfferAborted \/ ReceiverReports
  BY <1>0, <1>3 DEF ReceiverChecksCtx, ReceiveFails, OfferAborted, ReceiverReports, Still
<1>4. ASSUME NEW h \in Htlcs, HandlerReturns(h) \/ HandlerStep(h)
      PROVE  UNCHANGED <<rreq, mreq, inbox, asked, malformed, rpc, mpc, result>>
  BY <1>4 DEF HandlerStep, HandlerReturns, HandlerSends, HandlerReports
<1>5. CASE LndFails \/ CallerCancels \/ CloseConn \/ BeginWait \/ EndWait
  BY <1>0, <1>5 DEF LndFails, CallerCancels, CloseConn, BeginWait, EndWait, Still
<1>6. QED
  BY <1>0, <1>1, <1>2, <1>3, <1>4, <1>5 DEF Next, Moves, MainStep, ReceiverStep, Still

LEMMA StepQueue ==
    ASSUME TypeOK, Phases, OnePlace, QueueInv, Next
    PROVE  QueueInv'
<1>1. Traits' = Traits
  BY SameTraits
<1>2. CASE Handover
  <2>1. /\ rpc = "offer" /\ mreq' = rreq /\ rreq' = rreq
        /\ mpc' = "spawn" /\ rpc' = "check"
        /\ UNCHANGED <<asked, malformed, inbox, hpc>>
    BY <1>2 DEF Handover, lndVars
  <2>2. QED
    BY <1>1, <2>1 DEF QueueInv, Held, InInbox
<1>3. CASE StartHandler
  <2>1. /\ mpc = "spawn" /\ mpc' = "select" /\ mreq \in Htlcs
        /\ hpc' = [hpc EXCEPT ![mreq] = "running"]
        /\ UNCHANGED <<asked, malformed, inbox, rpc, rreq, mreq>>
    BY <1>3 DEF StartHandler, lndVars, recvVars, TypeOK
  <2>2. Held' => Held
    BY <2>1 DEF Held, TypeOK
  <2>3. QED
    BY <1>1, <2>1, <2>2 DEF QueueInv, InInbox
<1>4. CASE ReceiveRequest
  <2>1. /\ rpc = "recv" /\ rpc' \in {"offer", "report"}
        /\ UNCHANGED <<asked, malformed, mpc, result>>
    BY <1>4 DEF ReceiveRequest, mainVars
  <2>2. mpc # "call"
    BY <2>1 DEF Phases
  <2>3. rreq' \in Htlcs /\ rreq' \in asked
    BY <1>4, ReceiveMovesHead DEF OnePlace
  <2>4. \A i \in DOMAIN inbox' : inbox'[i] # rreq'
    BY <1>4, <2>3, ReceiveMovesHead DEF InInbox
  <2>5. QED
    BY <1>1, <2>1, <2>2, <2>3, <2>4 DEF QueueInv, InInbox
<1>5. ASSUME NEW h \in Htlcs, LndAsks(h)
      PROVE  QueueInv'
  <2>1. /\ mpc # "call" /\ h \notin asked /\ asked' = asked \cup {h}
        /\ malformed' = malformed \/ Traits.checks
        /\ UNCHANGED <<rpc, rreq, mpc, mreq, hpc, result>>
    BY <1>5 DEF LndAsks, mainVars, recvVars
  <2>2. \A f \in Htlcs : InInbox(f)' <=> InInbox(f) \/ f = h
    BY <1>5, AskKeepsPlaces
  <2>3. rreq # None => rreq \in Htlcs
    BY DEF TypeOK
  <2>4. Held' <=> Held
    BY <2>1 DEF Held
  <2>5. rreq # None => ~InInbox(rreq)'
    BY <2>1, <2>2, <2>3 DEF QueueInv
  <2>6. QED
    BY <1>1, <2>1, <2>4, <2>5 DEF QueueInv, InInbox
<1>6. CASE ~Moves
  <2>1. /\ Still /\ UNCHANGED <<asked, malformed>>
        /\ rpc' \in {"idle", "check", "recv"} => rpc \in {"idle", "check", "recv"}
        /\ mpc' = "call" => mpc = "call"
        /\ mpc' = "returned" => result' # "none" \/ (mpc = "returned" /\ result' = result)
    BY <1>6, OthersAreStill
  <2>2. Held' <=> Held
    BY <2>1, StillWaiting
  <2>3. QED
    BY <1>1, <2>1, <2>2 DEF QueueInv, InInbox, Still
<1>7. QED
  BY <1>2, <1>3, <1>4, <1>5, <1>6 DEF Moves

\* A receiver that has an error to report receives nothing more, and keeps the request
\* that it has in its hand.
LEMMA ReceiverIsDone ==
    ASSUME TypeOK, TypeOK', Phases, Next, rpc \in {"report", "done"}
    PROVE  /\ rpc' \in {"report", "done"} /\ malformed \subseteq malformed'
           /\ rreq' = rreq /\ (Held => Held')
<1>1. ~Handover /\ ~ReceiveRequest
  BY DEF Handover, ReceiveRequest
<1>2. CASE StartHandler
  <2>1. /\ mpc = "spawn" /\ mpc' = "select" /\ mreq \in Htlcs
        /\ hpc' = [hpc EXCEPT ![mreq] = "running"]
        /\ UNCHANGED <<malformed, rpc, rreq, mreq>>
    BY <1>2 DEF StartHandler, lndVars, recvVars, TypeOK
  <2>2. Held => Held'
    BY <2>1 DEF Held, TypeOK
  <2>3. QED
    BY <2>1, <2>2
<1>3. CASE \E h \in Htlcs : LndAsks(h)
  <2>1. malformed \subseteq malformed' /\ UNCHANGED <<rpc, rreq, mpc, mreq, hpc>>
    BY <1>3 DEF LndAsks, mainVars, recvVars
  <2>2. QED
    BY <2>1 DEF Held
<1>4. CASE ~Moves
  <2>1. /\ Still /\ malformed' = malformed
        /\ rpc' \in {"idle", "check", "recv"} => rpc \in {"idle", "check", "recv"}
    BY <1>4, OthersAreStill
  <2>2. rpc' = "offer" => rpc = "offer"
    BY <1>4, OtherStepsDoNotMove DEF Unmoved
  <2>3. rpc' \in {"idle", "check", "recv", "offer", "report", "done"}
    BY DEF TypeOK
  <2>4. QED
    BY <2>1, <2>2, <2>3, StillWaiting DEF Still
<1>5. QED
  BY <1>1, <1>2, <1>3, <1>4 DEF Moves

\* A request that is received is in the receiver's hand.
LEMMA ReceivedIsHeld ==
    ASSUME TypeOK, OnePlace, ReceiveRequest
    PROVE  Held' /\ rreq' \in Htlcs
<1>1. rreq' \in Htlcs /\ InInbox(rreq')
  BY ReceiveMovesHead
<1>2. ~Taken(rreq') /\ ~Started(rreq')
  BY <1>1 DEF OnePlace
<1>3. UNCHANGED <<mpc, mreq, hpc>>
  BY DEF ReceiveRequest, mainVars
<1>4. QED
  BY <1>1, <1>2, <1>3 DEF Held, Taken, Started

\* Steps that raise no error keep what can be reported.
LEMMA QuietReports ==
    ASSUME TypeOK, TypeOK', Phases, ReportInv, Next, pend' = pend,
           \A h \in Htlcs : hpc'[h] \in {"idle", "running", "sending"} =>
                                hpc[h] \in {"idle", "running", "sending"},
           \A i \in DOMAIN errBuf' : \E g \in Goroutines : pend[g] = errBuf'[i]
    PROVE  ReportInv'
<1>1. Traits' = Traits
  BY SameTraits
<1>2. pend[Receiver] # "none" =>
          /\ rpc' \in {"report", "done"} /\ malformed \subseteq malformed'
          /\ rreq' = rreq /\ (Held => Held')
  BY ReceiverIsDone DEF ReportInv
<1>3. QED
  BY <1>1, <1>2 DEF ReportInv

\* A goroutine raises one error, and nothing else has changed then.
LEMMA FailReports ==
    ASSUME TypeOK, TypeOK', Phases, ReportInv, Next,
           NEW g \in Goroutines, NEW kind, Fail(g, kind), pend[g] = "none",
           \A h \in Htlcs : h # g => hpc'[h] = hpc[h],
           g = Receiver =>
               /\ kind \in {"request", "stream", "quit", "ctx"} /\ rpc' = "report"
               /\ kind = "request" => Held' /\ rreq' \in malformed',
           g # Receiver =>
               /\ kind \in {"handler", "response", "stream"} /\ hpc'[g] = "report"
               /\ kind = "response" => Traits.checks
    PROVE  ReportInv'
<1>1. Traits' = Traits
  BY SameTraits
<1>2. /\ errBuf' = errBuf /\ pend' = [pend EXCEPT ![g] = kind]
      /\ pend \in [Goroutines -> ErrorKinds \cup {"none"}]
  BY DEF Fail, TypeOK
<1>3. \A i \in DOMAIN errBuf : errBuf[i] # "none"
  <2>1. errBuf \in Seq(ErrorKinds) /\ "none" \notin ErrorKinds
    BY DEF TypeOK, ErrorKinds
  <2>2. QED
    BY <2>1, ElementOfSeq
<1>4. \A i \in DOMAIN errBuf' : \E f \in Goroutines : pend'[f] = errBuf'[i]
  <2> TAKE i \in DOMAIN errBuf'
  <2>1. PICK f \in Goroutines : pend[f] = errBuf[i]
    BY <1>2 DEF ReportInv
  <2>2. f # g
    BY <1>2, <1>3, <2>1
  <2>3. QED
    BY <1>2, <2>1, <2>2
<1>5. /\ pend[Receiver] # "none" =>
             /\ rpc' \in {"report", "done"} /\ malformed \subseteq malformed'
             /\ rreq' = rreq /\ (Held => Held')
      /\ Receiver \in Goroutines /\ Htlcs \subseteq Goroutines
  BY ReceiverIsDone DEF ReportInv, Goroutines
<1>6. \A f \in Goroutines : pend'[f] = IF f = g THEN kind ELSE pend[f]
  BY <1>2
<1>7. \A h \in Htlcs :
         /\ pend'[h] \in {"none", "handler", "response", "stream"}
         /\ pend'[h] = "response" => Traits.checks
         /\ hpc'[h] \in {"idle", "running", "sending"} => pend'[h] = "none"
  BY <1>5, <1>6 DEF ReportInv
<1>8. /\ pend'[Receiver] \in {"none", "request", "stream", "quit", "ctx"}
      /\ pend'[Receiver] # "none" => rpc' \in {"report", "done"}
      /\ pend'[Receiver] = "request" => Held' /\ rreq' \in malformed'
  BY <1>5, <1>6 DEF ReportInv
<1>9. QED
  BY <1>1, <1>4, <1>7, <1>8 DEF ReportInv

LEMMA StepReports ==
    ASSUME TypeOK, TypeOK', Phases, OnePlace, ReportInv, Next
    PROVE  ReportInv'
<1> USE DEF lndVars, mainVars, recvVars, errVars
<1>0. Receiver \in Goroutines /\ Htlcs \subseteq Goroutines
  BY DEF Goroutines
<1>1. ASSUME pend' = pend, hpc' = hpc, errBuf' = errBuf
      PROVE  ReportInv'
  BY <1>1, QuietReports DEF ReportInv
<1>2. CASE Open \/ StartReceiver \/ Handover \/ ReturnQuit \/ ReturnCtx
            \/ ReceiverChecksCtx
  BY <1>1, <1>2 DEF Open, StartReceiver, Handover, ReturnQuit, ReturnCtx,
     ReceiverChecksCtx
<1>3. CASE LndFails \/ CallerCancels \/ CloseConn \/ BeginWait \/ EndWait
  BY <1>1, <1>3 DEF LndFails, CallerCancels, CloseConn, BeginWait, EndWait
<1>4. CASE \E h \in Htlcs : LndAsks(h)
  BY <1>1, <1>4 DEF LndAsks
<1>5. CASE ReturnError
  BY <1>5, QuietReports DEF ReturnError
<1>6. CASE StartHandler
  <2>1. /\ mreq \in Htlcs /\ hpc' = [hpc EXCEPT ![mreq] = "running"]
        /\ hpc[mreq] = "idle" /\ UNCHANGED <<pend, errBuf>>
    BY <1>6 DEF StartHandler, TypeOK, OnePlace, Taken, Started
  <2>2. \A h \in Htlcs : hpc'[h] \in {"idle", "running", "sending"} =>
                             hpc[h] \in {"idle", "running", "sending"}
    BY <2>1
  <2>3. QED
    BY <2>1, <2>2, QuietReports DEF ReportInv
<1>7. CASE ReceiveRequest
  <2>1. rpc = "recv" /\ UNCHANGED <<hpc, malformed>> /\ pend[Receiver] = "none"
    BY <1>7 DEF ReceiveRequest, ReportInv
  <2>2. CASE UNCHANGED errVars
    BY <1>1, <2>1, <2>2
  <2>3. CASE rreq' \in malformed /\ rpc' = "report" /\ Fail(Receiver, "request")
    BY <1>0, <1>7, <2>1, <2>3, FailReports, ReceivedIsHeld
  <2>4. QED
    BY <1>7, <2>2, <2>3 DEF ReceiveRequest
<1>8. CASE ReceiveFails \/ OfferAborted
  <2>1. PICK kind \in {"stream", "quit", "ctx"} : Fail(Receiver, kind)
    BY <1>8 DEF ReceiveFails, OfferAborted
  <2>2. hpc' = hpc /\ rpc' = "report" /\ pend[Receiver] = "none"
    BY <1>8 DEF ReceiveFails, OfferAborted, ReportInv
  <2>3. QED
    BY <1>0, <2>1, <2>2, FailReports
<1>9. ASSUME NEW g \in Goroutines, SendErr(g)
      PROVE  /\ pend' = pend
             /\ \A i \in DOMAIN errBuf' : \E f \in Goroutines : pend[f] = errBuf'[i]
  BY <1>9 DEF SendErr, ReportInv
<1>10. CASE ReceiverReports
  <2>1. hpc' = hpc /\ SendErr(Receiver)
    BY <1>10 DEF ReceiverReports
  <2>2. QED
    BY <1>0, <1>9, <2>1, QuietReports
<1>11. ASSUME NEW h \in Htlcs, HandlerReports(h)
       PROVE  ReportInv'
  <2>1. hpc[h] = "report" /\ hpc' = [hpc EXCEPT ![h] = "done"] /\ SendErr(h)
    BY <1>11 DEF HandlerReports
  <2>2. \A f \in Htlcs : hpc'[f] \in {"idle", "running", "sending"} => hpc'[f] = hpc[f]
    BY <2>1 DEF TypeOK
  <2>3. QED
    BY <1>0, <1>9, <2>1, <2>2, QuietReports
<1>12. ASSUME NEW h \in Htlcs, HandlerReturns(h) \/ HandlerSends(h)
       PROVE  ReportInv'
  <2>1. hpc[h] \in {"running", "sending"} /\ pend[h] = "none"
    BY <1>12 DEF HandlerReturns, HandlerSends, ReportInv
  <2>2. CASE UNCHANGED errVars /\ \E to \in {"sending", "done"} :
                                     hpc' = [hpc EXCEPT ![h] = to]
    <3>1. \A f \in Htlcs : hpc'[f] \in {"idle", "running", "sending"} =>
                               hpc[f] \in {"idle", "running", "sending"}
      BY <2>1, <2>2 DEF TypeOK
    <3>2. QED
      BY <2>2, <3>1, QuietReports DEF ReportInv
  <2>3. CASE /\ hpc' = [hpc EXCEPT ![h] = "report"]
             /\ Fail(h, "handler") \/ Fail(h, "stream")
                    \/ (Traits.checks /\ Fail(h, "response"))
    <3>1. PICK kind \in {"handler", "response", "stream"} :
              Fail(h, kind) /\ (kind = "response" => Traits.checks)
      BY <2>3
    <3>2. hpc'[h] = "report" /\ h # Receiver /\ \A f \in Htlcs : f # h => hpc'[f] = hpc[f]
      BY <2>3 DEF TypeOK
    <3>3. QED
      BY <1>0, <2>1, <3>1, <3>2, FailReports
  <2>4. QED
    BY <1>12, <2>2, <2>3 DEF HandlerReturns, HandlerSends
<1>13. QED
  BY <1>2, <1>3, <1>4, <1>5, <1>6, <1>7, <1>8, <1>10, <1>11, <1>12
     DEF Next, MainStep, ReceiverStep, HandlerStep

\* What the promise knows of the handlers.
HandlerStates == [h \in Htlcs |-> HandlerState(h)]

PromiseStep == [Promise!Next]_(Promise!vars)

\* A step that the promise does not see, or of which it sees only what is outside.
LEMMA Unseen ==
    ASSUME Traits' = Traits, Waiting' = Waiting, HandlerStates' = HandlerStates,
           UNCHANGED <<malformed, answers, result>>
    PROVE  /\ UNCHANGED <<parent, lndFailed, connOpen, quit>> => PromiseStep
           /\ parent' /\ UNCHANGED <<lndFailed, connOpen, quit>> => PromiseStep
           /\ (lndFailed' \/ ~connOpen') /\ UNCHANGED <<parent, quit>> => PromiseStep
           /\ quit' /\ UNCHANGED <<parent, lndFailed, connOpen>> => PromiseStep
BY DEF PromiseStep, Promise!vars, Promise!Next, Promise!Cancel, Promise!Lose,
   Promise!Close, HandlerStates

\* Handlers are as they were if neither they nor their errors have changed.
LEMMA SameHandlers ==
    ASSUME UNCHANGED hpc, \A h \in Htlcs : pend'[h] = pend[h]
    PROVE  HandlerStates' = HandlerStates
BY DEF HandlerStates, HandlerState

\* The receiver's hand is a place in the line: taking a request from the stream into
\* it, or passing it on to the main loop, changes no order.
LEMMA ReceiveKeepsLine ==
    ASSUME TypeOK, OnePlace, QueueInv, ReceiveRequest
    PROVE  Waiting' = Waiting
<1>1. /\ rpc = "recv" /\ inbox \in Seq(Htlcs) /\ inbox # <<>>
      /\ inbox' = Tail(inbox) /\ rreq' = Head(inbox) /\ UNCHANGED <<mpc, mreq>>
  BY DEF ReceiveRequest, TypeOK, mainVars
<1>2. ~Held /\ Held'
  BY <1>1, ReceivedIsHeld DEF QueueInv
<1>3. inbox = <<Head(inbox)>> \o Tail(inbox) /\ Tail(inbox) \in Seq(Htlcs)
      /\ Head(inbox) \in Htlcs
  BY <1>1
<1>4. CASE mpc = "spawn"
  <2>1. mreq \in Htlcs
    BY <1>4 DEF TypeOK
  <2>2. Waiting = (<<mreq>> \o <<>>) \o inbox
    BY <1>2, <1>4 DEF Waiting
  <2>3. Waiting' = (<<mreq>> \o <<Head(inbox)>>) \o Tail(inbox)
    BY <1>1, <1>2, <1>4 DEF Waiting
  <2>4. QED
    BY <1>3, <2>1, <2>2, <2>3
<1>5. CASE mpc # "spawn"
  <2>1. Waiting = (<<>> \o <<>>) \o inbox
    BY <1>2, <1>5 DEF Waiting
  <2>2. Waiting' = (<<>> \o <<Head(inbox)>>) \o Tail(inbox)
    BY <1>1, <1>2, <1>5 DEF Waiting
  <2>3. QED
    BY <1>3, <2>1, <2>2
<1>6. QED
  BY <1>4, <1>5

LEMMA HandoverKeepsLine ==
    ASSUME TypeOK, OnePlace, Handover
    PROVE  Waiting' = Waiting
<1>1. /\ mpc = "select" /\ rpc = "offer" /\ rreq \in Htlcs
      /\ mpc' = "spawn" /\ mreq' = rreq /\ UNCHANGED <<rreq, hpc, inbox>>
  BY DEF Handover, TypeOK, lndVars
<1>2. Held /\ ~Held'
  BY <1>1 DEF Held, OnePlace, Offered, Started
<1>3. Waiting = (<<>> \o <<rreq>>) \o inbox
  BY <1>1, <1>2 DEF Waiting
<1>4. Waiting' = (<<rreq>> \o <<>>) \o inbox
  BY <1>1, <1>2 DEF Waiting
<1>5. QED
  BY <1>1, <1>3, <1>4

\* The main loop starts the handler of the request that is next in line.
LEMMA StartIsNext ==
    ASSUME TypeOK, Phases, OnePlace, Validated, QueueInv, ReportInv, StartHandler
    PROVE  PromiseStep
<1>1. /\ mpc = "spawn" /\ mpc' = "select" /\ mreq \in Htlcs /\ hpc[mreq] = "idle"
      /\ hpc' = [hpc EXCEPT ![mreq] = "running"]
      /\ UNCHANGED <<lndVars, answers, parent, mreq, result, rreq, inbox, pend, quit>>
  BY DEF StartHandler, GoroutineStarts, TypeOK, OnePlace, Taken, Started, lndVars,
     recvVars, errVars
<1>2. Held' <=> Held
  BY <1>1 DEF Held, TypeOK
<1> DEFINE rest == (IF Held THEN <<rreq>> ELSE <<>>) \o inbox
<1>3. rest \in Seq(Htlcs)
  BY DEF TypeOK, Held
<1>4. Waiting = <<mreq>> \o rest /\ Waiting' = rest
  <2>1. Waiting = (<<mreq>> \o (IF Held THEN <<rreq>> ELSE <<>>)) \o inbox
    BY <1>1 DEF Waiting
  <2>2. Waiting' = (<<>> \o (IF Held THEN <<rreq>> ELSE <<>>)) \o inbox
    BY <1>1, <1>2 DEF Waiting
  <2>3. (IF Held THEN <<rreq>> ELSE <<>>) \in Seq(Htlcs) /\ inbox \in Seq(Htlcs)
    BY DEF TypeOK, Held
  <2>4. QED
    BY <1>1, <2>1, <2>2, <2>3
<1>5. Waiting # <<>> /\ Head(Waiting) = mreq /\ Waiting' = Tail(Waiting)
  BY <1>1, <1>3, <1>4
<1>6. HandlerStates' = [HandlerStates EXCEPT ![mreq] = "runs"]
  <2>1. pend[mreq] = "none"
    BY <1>1 DEF ReportInv
  <2>2. \A h \in Htlcs : HandlerState(h)' = IF h = mreq THEN "runs" ELSE HandlerState(h)
    BY <1>1, <2>1 DEF HandlerState, TypeOK
  <2>3. QED
    BY <2>2 DEF HandlerStates
<1>7. mreq \notin malformed /\ result = "none"
  BY <1>1 DEF Validated, QueueInv, Taken, Phases
<1>8. Promise!Start
  BY <1>1, <1>5, <1>6, <1>7 DEF Promise!Start, Promise!Running, HandlerStates, lndVars, Traits
<1>9. QED
  BY <1>8 DEF PromiseStep, Promise!Next

\* lnd asks for an HTLC that is not in line and has no handler.
LEMMA AskIsNew ==
    ASSUME TypeOK, Phases, OnePlace, QueueInv, NEW h \in Htlcs, LndAsks(h)
    PROVE  PromiseStep
<1>1. /\ connOpen /\ ~parent /\ ~child /\ ~lndFailed /\ h \notin asked
      /\ inbox \in Seq(Htlcs) /\ inbox' = Append(inbox, h)
      /\ malformed' = malformed \/ (Traits.checks /\ malformed' = malformed \cup {h})
      /\ UNCHANGED <<method, answers, parent, lndFailed, connOpen, quit, result, rpc,
                     rreq, mpc, mreq, hpc, pend>>
  BY DEF LndAsks, CtxDone, TypeOK, mainVars, recvVars, errVars, waitVars
<1>2. Held' <=> Held
  BY <1>1 DEF Held
<1> DEFINE front == (IF mpc = "spawn" THEN <<mreq>> ELSE <<>>)
                        \o (IF Held THEN <<rreq>> ELSE <<>>)
<1>3. front \in Seq(Htlcs) /\ \A i \in DOMAIN front : front[i] # h
  <2>1. mpc = "spawn" => mreq \in Htlcs /\ mreq # h
    BY <1>1 DEF TypeOK, OnePlace, Taken
  <2>2. Held => rreq \in Htlcs /\ rreq # h
    BY <1>1 DEF TypeOK, QueueInv, Held
  <2>3. QED
    BY <2>1, <2>2
<1>4. \A i \in DOMAIN inbox : inbox[i] # h
  BY <1>1 DEF OnePlace, InInbox
<1>5. Waiting = front \o inbox /\ Waiting' = front \o Append(inbox, h)
  BY <1>1, <1>2 DEF Waiting
<1> HIDE DEF front
<1>6. Waiting' = Append(Waiting, h) /\ \A i \in DOMAIN Waiting : Waiting[i] # h
  <2>1. front \o Append(inbox, h) = Append(front \o inbox, h)
    BY <1>1, <1>3
  <2>2. \A i \in DOMAIN (front \o inbox) : (front \o inbox)[i] # h
    BY <1>1, <1>3, <1>4
  <2>3. QED
    BY <1>5, <2>1, <2>2
<1>7. HandlerStates' = HandlerStates /\ HandlerStates[h] = "none"
  BY <1>1, SameHandlers DEF OnePlace, Started, HandlerStates, HandlerState
<1>8. result = "none"
  BY <1>1 DEF Phases, TypeOK
<1>9. Promise!Ask(h)
  BY <1>1, <1>6, <1>7, <1>8 DEF Promise!Ask, Promise!Running, HandlerStates, Traits
<1>10. QED
  BY <1>9 DEF PromiseStep, Promise!Next

\* A handler that has something to answer or to report has not failed before.
LEMMA HandlersAnswerOrFail ==
    ASSUME TypeOK, Phases, OnePlace, QueueInv, ReportInv, Next, NEW h \in Htlcs,
           HandlerReturns(h) \/ HandlerSends(h)
    PROVE  PromiseStep
<1>1. /\ hpc[h] \in {"running", "sending"} /\ pend[h] = "none"
      /\ UNCHANGED <<lndVars, parent, mainVars, recvVars, quit>>
  BY DEF HandlerReturns, HandlerSends, ReportInv, GoroutineEnds, waitVars
<1>2. Traits' = Traits /\ UNCHANGED <<malformed, lndFailed, connOpen, result>>
  BY <1>1 DEF Traits, lndVars, mainVars
<1>3. ~Moves
  BY <1>1 DEF Moves, Handover, StartHandler, ReceiveRequest, LndAsks, lndVars, mainVars,
     recvVars
<1>4. Waiting' = Waiting
  BY <1>3, OthersAreStill, StillWaiting
<1>5. HandlerStates[h] = "runs"
  BY <1>1 DEF HandlerStates, HandlerState
<1>6. CASE hpc' = [hpc EXCEPT ![h] = "sending"] /\ UNCHANGED <<pend, answers>>
  <2>1. HandlerStates' = HandlerStates
    BY <1>1, <1>6 DEF HandlerStates, HandlerState, TypeOK
  <2>2. QED
    BY <1>1, <1>2, <1>4, <1>6, <2>1, Unseen
<1>7. ASSUME hpc' = [hpc EXCEPT ![h] = "report"], answers' = answers,
             NEW kind \in {"handler", "response", "stream"}, Fail(h, kind),
             kind = "response" => Traits.checks,
             kind = "stream" => ~connOpen \/ CtxDone \/ lndFailed
      PROVE  PromiseStep
  <2>1. pend' = [pend EXCEPT ![h] = kind] /\ h \in Goroutines
    BY <1>7 DEF Fail, Goroutines
  <2>2. HandlerStates' = [HandlerStates EXCEPT ![h] = kind]
    <3>1. \A f \in Htlcs : f \in Goroutines
      BY DEF Goroutines
    <3>2. \A f \in Htlcs : HandlerState(f)' = IF f = h THEN kind ELSE HandlerState(f)
      BY <1>7, <2>1, <3>1 DEF HandlerState, TypeOK
    <3>3. QED
      BY <3>2 DEF HandlerStates
  <2>3. kind = "stream" => lndFailed \/ ~connOpen \/ parent \/ result # "none"
    BY <1>7 DEF CtxDone, Phases, QueueInv
  <2>4. Promise!Fail(h, kind)
    BY <1>1, <1>2, <1>4, <1>5, <1>7, <2>2, <2>3
       DEF Promise!Fail, Promise!Running, HandlerStates
  <2>5. QED
    BY <2>4 DEF PromiseStep, Promise!Next, Promise!Reasons
<1>8. ASSUME hpc' = [hpc EXCEPT ![h] = "done"], pend' = pend,
             NEW key \in Htlcs, Traits.keyFrom = "request" => key = h,
             answers' = [answers EXCEPT ![key] = @ + 1]
      PROVE  PromiseStep
  <2>1. HandlerStates' = [HandlerStates EXCEPT ![h] = "answered"]
    <3>1. \A f \in Htlcs : HandlerState(f)' = IF f = h THEN "answered" ELSE HandlerState(f)
      BY <1>1, <1>8 DEF HandlerState, TypeOK
    <3>2. QED
      BY <3>1 DEF HandlerStates
  <2>2. Traits.checks => key = h
    BY <1>8, TraitsOfMethod DEF TypeOK
  <2>3. Promise!Answer(h)
    BY <1>1, <1>2, <1>4, <1>5, <1>8, <2>1, <2>2 DEF Promise!Answer, HandlerStates
  <2>4. QED
    BY <2>3 DEF PromiseStep, Promise!Next
<1>9. CASE HandlerReturns(h)
  BY <1>6, <1>7, <1>9 DEF HandlerReturns, errVars
<1>10. CASE HandlerSends(h)
  <2>1. asked \subseteq Htlcs
    BY DEF TypeOK
  <2>2. QED
    BY <1>7, <1>8, <1>10, <2>1 DEF HandlerSends, errVars
<1>11. QED
  BY <1>9, <1>10

\* The call returns only what has happened.
LEMMA ReturnsAreTrue ==
    ASSUME TypeOK, Phases, ErrorsAreCaused, QueueInv, ReportInv, Next,
           Open \/ ReturnError \/ ReturnQuit \/ ReturnCtx
    PROVE  PromiseStep
<1> USE DEF lndVars, mainVars, recvVars, waitVars
<1>1. /\ mpc \in {"call", "select"} /\ result = "none" /\ ~child
      /\ UNCHANGED <<method, malformed, answers, parent, lndFailed, connOpen, quit, hpc, pend>>
  BY DEF Open, ReturnError, ReturnQuit, ReturnCtx, Phases, errVars
<1>2. Traits' = Traits /\ HandlerStates' = HandlerStates
  BY <1>1, SameHandlers DEF Traits
<1>3. ~Moves
  BY DEF Open, ReturnError, ReturnQuit, ReturnCtx, Return, Moves, Handover, StartHandler,
     ReceiveRequest, LndAsks
<1>4. Waiting' = Waiting
  BY <1>3, OthersAreStill, StillWaiting
<1>5. CASE result' = result
  BY <1>1, <1>2, <1>4, <1>5, Unseen
<1>6. ASSUME NEW why \in ErrorKinds, result' = why,
             \/ why = "open" /\ Waiting = <<>> /\ \A h \in Htlcs : HandlerStates[h] = "none"
             \/ why = "ctx" /\ parent
             \/ why = "quit" /\ quit
             \/ why = "stream" /\ (lndFailed \/ ~connOpen \/ parent)
             \/ why = "request" /\ Waiting # <<>> /\ Head(Waiting) \in malformed
             \/ /\ why \in {"handler", "response"}
                /\ \E h \in Htlcs : HandlerStates[h] = why
      PROVE  PromiseStep
  <2>1. Promise!Return(why)
    BY <1>1, <1>2, <1>4, <1>6 DEF Promise!Return, Promise!Running, HandlerStates
  <2>2. QED
    BY <2>1 DEF PromiseStep, Promise!Next, Promise!Reasons, ErrorKinds
<1>7. CASE Open
  <2>1. CASE Return("open")
    <3>1. mpc = "call"
      BY <1>7 DEF Open
    <3>2. Waiting = <<>> /\ \A h \in Htlcs : HandlerStates[h] = "none"
      BY <3>1 DEF QueueInv, Waiting, Held, HandlerStates, HandlerState
    <3>3. QED
      BY <1>6, <2>1, <3>2 DEF Return, ErrorKinds
  <2>2. QED
    BY <1>5, <1>7, <2>1 DEF Open
<1>8. CASE ReturnQuit
  BY <1>6, <1>8 DEF ReturnQuit, Return, ErrorKinds
<1>9. CASE ReturnCtx
  BY <1>1, <1>6, <1>9 DEF ReturnCtx, Return, CtxDone, ErrorKinds
<1>10. CASE ReturnError
  <2>1. /\ mpc = "select" /\ 1 \in DOMAIN errBuf /\ result' = errBuf[1]
        /\ errBuf[1] \in ErrorKinds
    BY <1>10 DEF ReturnError, Return, TypeOK
  <2>2. Caused(errBuf[1]) /\ "none" \notin ErrorKinds
    BY <2>1 DEF ErrorsAreCaused, ErrorKinds
  <2>3. PICK g \in Goroutines : pend[g] = errBuf[1]
    BY <2>1 DEF ReportInv
  <2>4. CASE errBuf[1] = "request"
    <3>1. g = Receiver
      BY <2>3, <2>4 DEF ReportInv, Goroutines
    <3>2. Held /\ rreq \in malformed /\ rreq \in Htlcs
      BY <2>3, <2>4, <3>1 DEF ReportInv, Held, TypeOK
    <3>3. Waiting = (<<>> \o <<rreq>>) \o inbox /\ inbox \in Seq(Htlcs)
      BY <2>1, <3>2 DEF Waiting, TypeOK
    <3>4. Waiting # <<>> /\ Head(Waiting) = rreq
      BY <3>2, <3>3
    <3>5. QED
      BY <1>6, <2>1, <2>4, <3>2, <3>4
  <2>5. CASE errBuf[1] \in {"handler", "response"}
    <3>1. g \in Htlcs /\ hpc[g] # "idle"
      BY <2>3, <2>5 DEF ReportInv, Goroutines
    <3>2. HandlerStates[g] = errBuf[1]
      BY <2>3, <2>5, <3>1 DEF HandlerStates, HandlerState
    <3>3. QED
      BY <1>6, <2>1, <2>5, <3>1, <3>2
  <2>6. CASE errBuf[1] \in {"ctx", "quit", "stream"}
    BY <1>1, <1>6, <2>1, <2>2, <2>6 DEF Caused, CtxDone
  <2>7. errBuf[1] # "open"
    BY <2>3 DEF ReportInv, Goroutines
  <2>8. QED
    BY <2>1, <2>4, <2>5, <2>6, <2>7 DEF ErrorKinds
<1>11. QED
  BY <1>7, <1>8, <1>9, <1>10

\* The steps that raise or report an error, or that are the call's own affair.
LEMMA QuietStepsAreUnseen ==
    ASSUME TypeOK, Phases, ErrorsAreCaused, Next,
           \/ StartReceiver \/ ReceiverChecksCtx \/ ReceiveFails \/ OfferAborted
           \/ ReceiverReports \/ EndWait
           \/ \E h \in Htlcs : HandlerReports(h)
    PROVE  PromiseStep
<1> USE DEF lndVars, mainVars, recvVars, errVars
<1>1. /\ ~Moves
      /\ UNCHANGED <<method, malformed, answers, result, parent, lndFailed, connOpen, quit>>
  BY DEF Moves, StartReceiver, ReceiverChecksCtx, ReceiveFails, OfferAborted,
     ReceiverReports, EndWait, HandlerReports, Handover, StartHandler, ReceiveRequest,
     LndAsks, GoroutineStarts, GoroutineEnds, waitVars
<1>2. Traits' = Traits
  BY <1>1 DEF Traits
<1>3. Waiting' = Waiting
  BY <1>1, OthersAreStill, StillWaiting
<1>4. CASE \E h \in Htlcs : HandlerReports(h)
  <2>1. PICK h \in Htlcs : HandlerReports(h)
    BY <1>4
  <2>2. /\ hpc[h] = "report" /\ hpc' = [hpc EXCEPT ![h] = "done"]
        /\ pend' = pend /\ pend[h] # "none"
    BY <2>1 DEF HandlerReports, SendErr, ErrorsAreCaused
  <2>3. HandlerStates' = HandlerStates
    BY <2>2 DEF HandlerStates, HandlerState, TypeOK
  <2>4. QED
    BY <1>1, <1>2, <1>3, <2>3, Unseen
<1>5. CASE \/ StartReceiver \/ ReceiverChecksCtx \/ ReceiveFails \/ OfferAborted
           \/ ReceiverReports \/ EndWait
  <2>1. UNCHANGED hpc /\ \A h \in Htlcs : pend'[h] = pend[h]
    <3>1. CASE ReceiveFails \/ OfferAborted
      <4>1. hpc' = hpc /\ \E kind \in {"stream", "quit", "ctx"} : Fail(Receiver, kind)
        BY <3>1 DEF ReceiveFails, OfferAborted
      <4>2. \A h \in Htlcs : h # Receiver /\ h \in Goroutines
        BY DEF Goroutines
      <4>3. QED
        BY <4>1, <4>2 DEF Fail, TypeOK
    <3>2. CASE StartReceiver \/ ReceiverChecksCtx \/ ReceiverReports \/ EndWait
      BY <3>2 DEF StartReceiver, ReceiverChecksCtx, ReceiverReports, SendErr, EndWait
    <3>3. QED
      BY <1>5, <3>1, <3>2
  <2>2. QED
    BY <1>1, <1>2, <1>3, <2>1, SameHandlers, Unseen
<1>6. QED
  BY <1>4, <1>5

\* Passing a request on to the receiver or to the main loop is not seen either.
LEMMA PassingOnIsUnseen ==
    ASSUME TypeOK, OnePlace, QueueInv, ReceiveRequest \/ Handover
    PROVE  PromiseStep
<1> USE DEF lndVars, mainVars, recvVars, errVars, waitVars
<1>1. UNCHANGED <<method, malformed, answers, result, parent, lndFailed, connOpen, quit,
                  hpc>>
  BY DEF ReceiveRequest, Handover
<1>2. \A h \in Htlcs : pend'[h] = pend[h]
  <2>1. pend' = pend \/ Fail(Receiver, "request")
    BY DEF ReceiveRequest, Handover
  <2>2. \A h \in Htlcs : h # Receiver /\ h \in Goroutines
    BY DEF Goroutines
  <2>3. QED
    BY <2>1, <2>2 DEF Fail, TypeOK
<1>3. Traits' = Traits /\ HandlerStates' = HandlerStates
  BY <1>1, <1>2, SameHandlers DEF Traits
<1>4. Waiting' = Waiting
  BY ReceiveKeepsLine, HandoverKeepsLine
<1>5. QED
  BY <1>1, <1>3, <1>4, Unseen

\* What happens outside the call.
LEMMA OutsideIsPromised ==
    ASSUME TypeOK, Phases, Next, LndFails \/ CallerCancels \/ CloseConn \/ BeginWait
    PROVE  PromiseStep
<1> USE DEF lndVars, mainVars, recvVars, errVars, waitVars
<1>1. /\ ~Moves
      /\ UNCHANGED <<method, malformed, answers, result, hpc, pend>>
  BY DEF Moves, LndFails, CallerCancels, CloseConn, BeginWait, Handover, StartHandler,
     ReceiveRequest, LndAsks
<1>2. Traits' = Traits /\ HandlerStates' = HandlerStates
  BY <1>1, SameHandlers DEF Traits
<1>3. Waiting' = Waiting
  BY <1>1, OthersAreStill, StillWaiting
<1>4. \/ parent' /\ UNCHANGED <<lndFailed, connOpen, quit>>
      \/ (lndFailed' \/ ~connOpen') /\ UNCHANGED <<parent, quit>>
      \/ quit' /\ UNCHANGED <<parent, lndFailed, connOpen>>
  BY DEF LndFails, CallerCancels, CloseConn, BeginWait
<1>5. QED
  BY <1>1, <1>2, <1>3, <1>4, Unseen

\* Each step is one of the promise, or is not seen.
LEMMA StepKeepsPromise ==
    ASSUME Inv, QueueInv, ReportInv, Next
    PROVE  PromiseStep
<1>1. /\ TypeOK /\ Phases /\ OnePlace /\ Validated /\ ErrorsAreCaused
  BY DEF Inv
<1>2. CASE MainStep
  BY <1>1, <1>2, ReturnsAreTrue, QuietStepsAreUnseen, PassingOnIsUnseen, StartIsNext
     DEF MainStep
<1>3. CASE ReceiverStep
  BY <1>1, <1>3, QuietStepsAreUnseen, PassingOnIsUnseen DEF ReceiverStep
<1>4. ASSUME NEW h \in Htlcs, HandlerReturns(h) \/ HandlerStep(h) \/ LndAsks(h)
      PROVE  PromiseStep
  BY <1>1, <1>4, HandlersAnswerOrFail, QuietStepsAreUnseen, AskIsNew DEF HandlerStep
<1>5. CASE LndFails \/ CallerCancels \/ CloseConn \/ BeginWait \/ EndWait
  BY <1>1, <1>5, OutsideIsPromised, QuietStepsAreUnseen
<1>6. QED
  BY <1>2, <1>3, <1>4, <1>5 DEF Next

LEMMA InitPromise ==
    ASSUME Init
    PROVE  QueueInv /\ ReportInv /\ Promise!Init
<1>1. QueueInv
  BY DEF Init, QueueInv, Held, InInbox
<1>2. ReportInv
  BY DEF Init, ReportInv, Goroutines
<1>3. Waiting = <<>>
  BY DEF Init, Waiting, Held
<1>4. HandlerStates = [h \in Htlcs |-> "none"]
  BY DEF Init, HandlerStates, HandlerState
<1>5. Traits.checks \in BOOLEAN
  BY TraitsOfMethod DEF Init
<1>6. Promise!Init
  BY <1>3, <1>4, <1>5 DEF Init, Promise!Init, HandlerStates
<1>7. QED
  BY <1>1, <1>2, <1>6

\* InterceptHtlcs and HtlcModifier keep what they promise to lnd and to the caller, for
\* any number of HTLCs and in every interleaving of the call's goroutines: requests get
\* handlers in lnd's order, none is skipped and none is started after the return; a
\* handler answers once or fails; and the error returned is one that has occurred.
THEOREM CallKeepsPromise == Spec => KeepsPromise
<1>1. Init => QueueInv /\ ReportInv /\ Promise!Init
  BY InitPromise
<1>2. Inv /\ Inv' /\ QueueInv /\ ReportInv /\ [Next]_vars => QueueInv' /\ ReportInv'
  <2>1. ASSUME Inv, Inv', QueueInv, ReportInv, Next
        PROVE  QueueInv' /\ ReportInv'
    BY <2>1, StepQueue, StepReports DEF Inv
  <2>2. ASSUME QueueInv, ReportInv, UNCHANGED vars
        PROVE  QueueInv' /\ ReportInv'
    <3> USE DEF vars, lndVars, mainVars, recvVars, errVars
    <3>1. (Held' <=> Held) /\ Traits' = Traits
      BY <2>2 DEF Held, Traits
    <3>2. QueueInv'
      BY <2>2, <3>1 DEF QueueInv, InInbox
    <3>3. ReportInv'
      BY <2>2, <3>1 DEF ReportInv
    <3>4. QED
      BY <3>2, <3>3
  <2>3. QED
    BY <2>1, <2>2
<1>3. Inv /\ QueueInv /\ ReportInv /\ [Next]_vars => [Promise!Next]_(Promise!vars)
  <2>1. ASSUME Inv, QueueInv, ReportInv, Next
        PROVE  [Promise!Next]_(Promise!vars)
    BY <2>1, StepKeepsPromise DEF PromiseStep
  <2>2. ASSUME UNCHANGED vars
        PROVE  [Promise!Next]_(Promise!vars)
    <3> USE DEF vars, lndVars, mainVars, recvVars, errVars, waitVars
    <3>1. Traits' = Traits /\ HandlerStates' = HandlerStates
      BY <2>2, SameHandlers DEF Traits
    <3>2. Waiting' = Waiting
      BY <2>2 DEF Waiting, Held
    <3>3. PromiseStep
      BY <2>2, <3>1, <3>2, Unseen
    <3>4. QED
      BY <3>3 DEF PromiseStep
  <2>3. QED
    BY <2>1, <2>2
<1>4. QED
  BY <1>1, <1>2, <1>3, Invariance, PTL DEF Spec, KeepsPromise, Promise!Spec
=============================================================================
