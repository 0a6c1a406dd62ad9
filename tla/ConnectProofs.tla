---------------------------- MODULE ConnectProofs ----------------------------
(***************************************************************************)
(* Theorems about the start-up of the services, for any number of attempts *)
(* and of messages, whatever the configuration and whatever lnd.           *)
(***************************************************************************)
EXTENDS Connect, SubscriptionsProofs

USE SubsAreAttempts, MaxStatesAssumption, MaxHeightsAssumption, StartsAssumption,
    MaxPartAssumption

(***************************************************************************)
(* The options and the version.                                            *)
(***************************************************************************)

\* A larger first digit makes a larger number of two digits.
LEMMA LargerFirstPart ==
    ASSUME NEW B \in Nat \ {0}, NEW x \in Nat, NEW y \in Nat, x > y,
           NEW p \in 0 .. B - 1, NEW q \in 0 .. B - 1
    PROVE  x * B + p > y * B + q
<1>1. x * B \in Nat /\ y * B \in Nat
  OBVIOUS
<1>2. x * B >= (y + 1) * B
  OBVIOUS
<1>3. (y + 1) * B = y * B + B
  OBVIOUS
<1>4. QED
  BY <1>1, <1>2, <1>3

\* The same for numbers of three digits.
LEMMA LargerNumber ==
    ASSUME NEW B \in Nat \ {0},
           NEW a \in Nat, NEW m \in 0 .. B - 1, NEW p \in 0 .. B - 1,
           NEW b \in Nat, NEW n \in 0 .. B - 1, NEW q \in 0 .. B - 1,
           \/ a > b
           \/ a = b /\ (m > n \/ (m = n /\ p >= q))
    PROVE  (a * B + m) * B + p >= (b * B + n) * B + q
<1>1. a * B \in Nat /\ b * B \in Nat
  OBVIOUS
<1>2. PICK x \in Nat : x = a * B + m
  BY <1>1
<1>3. PICK y \in Nat : y = b * B + n
  BY <1>1
<1>4. x * B \in Nat /\ y * B \in Nat
  OBVIOUS
<1>5. CASE x > y
  <2>1. x * B + p > y * B + q
    BY <1>5, LargerFirstPart
  <2>2. QED
    BY <1>2, <1>3, <1>4, <2>1
<1>6. CASE x = y /\ p >= q
  BY <1>2, <1>3, <1>4, <1>6
<1>7. x > y \/ (x = y /\ p >= q)
  <2>1. CASE a > b
    BY <1>2, <1>3, <2>1, LargerFirstPart
  <2>2. CASE a = b /\ m > n
    BY <1>1, <1>2, <1>3, <2>2
  <2>3. CASE a = b /\ m = n /\ p >= q
    BY <1>2, <1>3, <2>3
  <2>4. QED
    BY <2>1, <2>2, <2>3
<1>8. QED
  BY <1>5, <1>6, <1>7

\* Comparing the parts one after the other compares the versions.
LEMMA PartsAreHierarchical ==
    ASSUME NEW v \in VersionType, NEW w \in VersionType, VersionCompatible(v, w)
    PROVE  VersionNumber(v) >= VersionNumber(w)
<1>1. /\ v.major \in 0 .. MaxPart /\ v.minor \in 0 .. MaxPart /\ v.patch \in 0 .. MaxPart
      /\ w.major \in 0 .. MaxPart /\ w.minor \in 0 .. MaxPart /\ w.patch \in 0 .. MaxPart
  BY DEF VersionType
<1>2. PICK B \in Nat \ {0} : B = MaxPart + 1
  OBVIOUS
<1>3. /\ v.major \in Nat /\ v.minor \in 0 .. B - 1 /\ v.patch \in 0 .. B - 1
      /\ w.major \in Nat /\ w.minor \in 0 .. B - 1 /\ w.patch \in 0 .. B - 1
  BY <1>1, <1>2
<1>4. \/ v.major > w.major
      \/ /\ v.major = w.major
         /\ v.minor > w.minor \/ (v.minor = w.minor /\ v.patch >= w.patch)
  BY DEF VersionCompatible
<1>5. (v.major * B + v.minor) * B + v.patch >= (w.major * B + w.minor) * B + w.patch
  BY <1>3, <1>4, LargerNumber
<1>6. QED
  BY <1>2, <1>5 DEF VersionNumber

\* With at most one macaroon option, the two functions that choose agree.
LEMMA OneMacaroon ==
    ASSUME NEW o \in OptionsType, MacaroonOptionsValid(o)
    PROVE  ReadOnlyMacaroon(o) = MacaroonPouch(o)
<1>1. ASSUME "hex" \in o.macaroon, "path" \in o.macaroon
      PROVE  FALSE
  <2>1. {"hex", "path"} \subseteq o.macaroon /\ o.macaroon \subseteq {"dir", "path", "hex"}
    BY <1>1 DEF OptionsType
  <2>2. IsFiniteSet({"hex", "path"}) /\ Cardinality({"hex", "path"}) = 2
    <3>1. IsFiniteSet({"hex"}) /\ Cardinality({"hex"}) = 1
      BY FS_Singleton
    <3>2. {"hex", "path"} = {"hex"} \cup {"path"} /\ "path" \notin {"hex"}
      OBVIOUS
    <3>3. Cardinality({"hex", "path"}) = Cardinality({"hex"}) + 1
      BY <3>1, <3>2, FS_AddElement
    <3>4. QED
      BY <3>1, <3>2, <3>3, FS_AddElement
  <2>3. IsFiniteSet({"dir", "path", "hex"})
    <3>1. {"dir", "path", "hex"} = {"hex", "path"} \cup {"dir"}
      OBVIOUS
    <3>2. QED
      BY <2>2, <3>1, FS_AddElement
  <2>4. IsFiniteSet(o.macaroon)
    BY <2>1, <2>3, FS_Subset
  <2>5. Cardinality(o.macaroon) \in Nat /\ 2 <= Cardinality(o.macaroon)
    BY <2>1, <2>2, <2>4, FS_Subset, FS_CardinalityType
  <2>6. QED
    BY <2>5 DEF MacaroonOptionsValid
<1>2. QED
  BY <1>1 DEF ReadOnlyMacaroon, MacaroonPouch, LoadMacaroon

-----------------------------------------------------------------------------
(***************************************************************************)
(* A step of the start-up is one of Subscriptions, or the end of contexts, *)
(* so what holds of every step of Subscriptions holds here too.            *)
(***************************************************************************)

\* The contexts change and nothing else does.
Cancels ==
    /\ ctx' \in [Subs -> BOOLEAN]
    /\ UNCHANGED <<kind, pumpVars, lndVars, chanVars, readVars, svcVars>>

\* start-up opens, starts, reads and closes like any caller.
LEMMA StartNextIsNext ==
    ASSUME TypeOK, attempt \in 0 .. MaxAttempts, [StartNext]_allVars
    PROVE  [Next]_vars \/ Cancels
<1>1. 0 \in Subs /\ attempt \in Subs
  OBVIOUS
<1>2. ASSUME NEW s \in Subs, CallerStep(s) PROVE Next
  BY <1>2 DEF Next
<1>3. CASE \/ CheckOptions \/ Dial \/ Prepare \/ AwaitCancelled \/ GetInfo \/ Check
           \/ PollSync \/ PauseSync \/ SkipNotifier \/ NilContext
           \/ AttemptTimedOut \/ BackOff \/ LndSyncs \/ UNCHANGED allVars
  BY <1>3 DEF CheckOptions, Dial, Prepare, AwaitCancelled, GetInfo, Check, PollSync,
     PauseSync, SkipNotifier, NilContext, AttemptTimedOut, BackOff, LndSyncs, allVars
<1>4. CASE SubscribeWallet \/ AwaitState \/ AwaitError
  BY <1>1, <1>2, <1>4 DEF SubscribeWallet, AwaitState, AwaitError, CallerStep
<1>5. CASE Register
  <2>1. CASE UNCHANGED vars
    BY <2>1
  <2>2. CASE attempt < MaxAttempts /\ OpenStream(attempt + 1)
    <3>1. attempt + 1 \in Subs
      BY <2>2
    <3>2. QED
      BY <1>2, <2>2, <3>1 DEF CallerStep
  <2>3. QED
    BY <1>5, <2>1, <2>2 DEF Register
<1>6. CASE StartAttempt \/ AttemptFailed \/ AttemptSucceeded
  BY <1>1, <1>2, <1>6 DEF StartAttempt, AttemptFailed, AttemptSucceeded, CallerStep
<1>7. CASE AttemptTimeout
  BY <1>1, <1>2, <1>7 DEF AttemptTimeout, CallerStep
<1>8. CASE FailEarly \/ Cleanup
  BY <1>8 DEF FailEarly, Cleanup, Next
<1>9. CASE EndAttempt \/ CallerCancels
  BY ZenonT(60), <1>1, <1>9 DEF EndAttempt, CallerCancels, Cancels, TypeOK
<1>10. CASE LndSendsState
  BY <1>1, <1>10 DEF LndSendsState, LndStep, Next
<1>11. ASSUME NEW s \in Subs \ {0}, LndSendsHeight(s) PROVE Next
  BY <1>11 DEF LndSendsHeight, LndStep, MessageClass, Next
<1>12. ASSUME NEW s \in Subs, PumpStep(s) \/ \E how \in {"eof", "err"} : LndEnds(s, how)
       PROVE  Next
  BY <1>12 DEF LndStep, Next
<1>13. QED
  BY <1>3, <1>4, <1>5, <1>6, <1>7, <1>8, <1>9, <1>10, <1>11, <1>12
     DEF StartNext, StartStep

\* So the invariant of Subscriptions holds of start-up.
LEMMA StartKeepsInv ==
    ASSUME Inv, attempt \in 0 .. MaxAttempts, [StartNext]_allVars
    PROVE  Inv'
<1>1. CASE [Next]_vars
  BY <1>1, NextInv
<1>2. CASE Cancels
  <2>1. Quiet
    BY <1>2 DEF Cancels, Quiet, Live, pumpVars, svcVars
  <2>2. TypeOK'
    BY <1>2 DEF Inv, TypeOK, Cancels, pumpVars, lndVars, chanVars, readVars, svcVars
  <2>3. QED
    BY <2>1, <2>2, QuietKeepsCounts DEF Inv
<1>3. QED
  BY <1>1, <1>2, StartNextIsNext DEF Inv

-----------------------------------------------------------------------------
(***************************************************************************)
(* Where start-up is, and what it has found out by then.                   *)
(***************************************************************************)

Attempting == {"registered", "select", "backOff", "leave"}

\* What each point of the control flow knows.
Control ==
    /\ outcome = "none" <=> at # "returned"
    /\ at \notin {"options", "returned"} \/ outcome = "ok" =>
           MacaroonOptionsValid(cfg.options)
    /\ at \in {"sync", "pause", "notify", "cleanup"} \cup Attempting \/ outcome = "ok" =>
           LndCompatible(cfg.options, lnd)
    /\ at \in {"notify"} \cup Attempting \/ outcome = "ok" => (cfg.sync => synced)
    /\ at \in {"options", "dial", "prepare", "subscribe", "launch", "await", "getInfo",
               "check", "closeConn", "sync", "pause"} => attempt = 0
    /\ outcome = "error" => attempt = 0 \/ Closed

AfterType == {"none", "ok", "notify", "cleanup"}

\* Why an attempt is left.
Reason ==
    /\ at = "leave" => after # "none"
    /\ after = "ok" => at \in {"leave", "returned"} /\ got[attempt] # <<>>
    /\ outcome = "ok" /\ cfg.notifier => after = "ok"

\* The connection is open until cleanup closes it, so no pump starts late.
Connection ==
    /\ connOpen <=> closing = 0
    /\ ~connOpen => at = "cleanup" \/ outcome = "error"
    /\ outcome = "error" /\ pc[0] # "unused" => ~connOpen
    /\ \A s \in Subs : ~late[s]

\* The subscriptions there are, and which of their contexts is still open.
Contexts ==
    /\ at \in {"options", "dial", "prepare", "subscribe"} => pc[0] = "unused"
    /\ \A s \in Subs \ {0} : s > attempt => pc[s] = "unused"
    /\ \A s \in Subs \ {0} :
           pc[s] # "unused" => ctx[s] \/ (s = attempt /\ at \in Attempting)

\* What goes on beside start-up does not move it.
Beside ==
    /\ UNCHANGED <<kind, cfg, lnd, at, after, attempt, outcome,
                   got, connOpen, closing, late>>
    /\ \A s \in Subs :
           /\ pc'[s] = "unused" <=> pc[s] = "unused"
           /\ ctx[s] => ctx'[s]
    /\ synced => synced'

\* A pump that runs neither reads its channels nor goes back to unused.
LEMMA PumpIsBeside ==
    ASSUME TypeOK, NEW s \in Subs, PumpStep(s)
    PROVE  /\ UNCHANGED <<kind, got, ctx, connOpen, closing, late>>
           /\ \A t \in Subs : pc'[t] = "unused" <=> pc[t] = "unused"
<1> USE DEF TypeOK, lndVars, chanVars, readVars, svcVars, pumpVars
<1>1. CASE ReceiveValue(s)
  BY <1>1 DEF ReceiveValue
<1>2. CASE ReceiveBad(s)
  BY <1>2 DEF ReceiveBad
<1>3. CASE ReceiveEOF(s) \/ ReceiveError(s)
  BY <1>3 DEF ReceiveEOF, ReceiveError
<1>4. CASE Report(s) \/ ReportCancelled(s)
  BY <1>4 DEF Report, ReportCancelled, AfterReport
<1>5. CASE Deliver(s)
  BY <1>5 DEF Deliver, AfterDelivery
<1>6. CASE DeliverCancelled(s)
  BY <1>6 DEF DeliverCancelled
<1>7. CASE \E ch \in {"upd", "err"} : CloseChan(s, ch)
  BY <1>7 DEF CloseChan
<1>8. CASE Finish(s)
  BY <1>8 DEF Finish
<1>9. QED
  BY <1>1, <1>2, <1>3, <1>4, <1>5, <1>6, <1>7, <1>8 DEF PumpStep

\* Every step but start-up's own goes on beside it.
LEMMA OthersAreBeside ==
    ASSUME TypeOK, attempt \in 0 .. MaxAttempts, [StartNext]_allVars, ~StartStep
    PROVE  Beside
<1> USE DEF lndVars, chanVars, readVars, svcVars, pumpVars
<1>1. ASSUME NEW s \in Subs, PumpStep(s) /\ UNCHANGED startVars PROVE Beside
  BY <1>1, PumpIsBeside DEF Beside, startVars
<1>2. CASE LndSendsState
  BY <1>2 DEF LndSendsState, LndSends, Beside
<1>3. ASSUME NEW s \in Subs \ {0}, LndSendsHeight(s) PROVE Beside
  BY <1>3 DEF LndSendsHeight, LndSends, startVars, Beside
<1>4. ASSUME NEW s \in Subs, NEW how \in {"eof", "err"}, LndEnds(s, how),
             UNCHANGED startVars
      PROVE  Beside
  BY <1>4 DEF LndEnds, startVars, Beside
<1>5. CASE LndSyncs
  BY <1>5 DEF LndSyncs, vars, Beside
<1>6. CASE AttemptTimeout
  <2>1. attempt \in Subs /\ ctx \in [Subs -> BOOLEAN]
    BY DEF TypeOK
  <2>2. ctx' = [ctx EXCEPT ![attempt] = TRUE]
    BY <1>6 DEF AttemptTimeout, Cancel
  <2>3. \A s \in Subs : ctx[s] => ctx'[s]
    BY <2>1, <2>2
  <2>4. QED
    BY <1>6, <2>3 DEF AttemptTimeout, Cancel, startVars, Beside
<1>7. CASE CallerCancels
  BY <1>7 DEF CallerCancels, Beside
<1>8. CASE UNCHANGED allVars
  BY <1>8 DEF allVars, vars, startVars, Beside
<1>9. QED
  BY <1>1, <1>2, <1>3, <1>4, <1>5, <1>6, <1>7, <1>8 DEF StartNext

\* So whatever start-up knows, it still knows.
LEMMA BesideKeepsControl ==
    ASSUME Beside, Control, Reason, Connection, Contexts
    PROVE  Control' /\ Reason' /\ Connection' /\ Contexts'
<1>1. Control'
  BY DEF Beside, Control, Closed, Attempting
<1>2. Reason'
  BY DEF Beside, Reason
<1>3. Connection'
  BY DEF Beside, Connection
<1>4. Contexts'
  BY DEF Beside, Contexts
<1>5. QED
  BY <1>1, <1>2, <1>3, <1>4

\* Start-up goes from one point to the next with what it knows.
LEMMA OwnStepKeepsControl ==
    ASSUME TypeOK, attempt \in 0 .. MaxAttempts, after \in AfterType,
           Control, Reason, StartStep
    PROVE  Control'
<1> USE DEF GoTo, Return, Leave, Control, Attempting
<1>1. CASE CheckOptions
  BY <1>1 DEF CheckOptions, vars, svcVars
<1>2. CASE Dial
  BY <1>2 DEF Dial, vars, svcVars
<1>3. CASE Prepare
  BY <1>3 DEF Prepare, vars, svcVars
<1>4. CASE SubscribeWallet
  BY <1>4 DEF SubscribeWallet
<1>5. CASE AwaitState
  BY <1>5 DEF AwaitState
<1>6. CASE AwaitError
  BY <1>6 DEF AwaitError
<1>7. CASE AwaitCancelled
  BY <1>7 DEF AwaitCancelled
<1>8. CASE GetInfo
  BY <1>8 DEF GetInfo
<1>9. CASE Check
  BY <1>9 DEF Check
<1>10. CASE FailEarly
  BY <1>10 DEF FailEarly
<1>11. CASE PollSync
  BY <1>11 DEF PollSync
<1>12. CASE PauseSync
  BY <1>12 DEF PauseSync
<1>13. CASE SkipNotifier
  BY <1>13 DEF SkipNotifier
<1>14. CASE NilContext
  BY <1>14 DEF NilContext
<1>15. CASE Register
  BY <1>15 DEF Register
<1>16. CASE StartAttempt
  BY <1>16 DEF StartAttempt
<1>17. CASE AttemptTimedOut
  BY <1>17 DEF AttemptTimedOut
<1>18. CASE AttemptFailed
  BY <1>18 DEF AttemptFailed
<1>19. CASE BackOff
  BY <1>19 DEF BackOff
<1>20. CASE AttemptSucceeded
  BY <1>20 DEF AttemptSucceeded
<1>21. CASE EndAttempt
  BY <1>21 DEF EndAttempt, Reason, AfterType
<1>22. CASE Cleanup
  BY <1>22 DEF Cleanup, vars, svcVars, Closed
<1>23. QED
  BY <1>1, <1>2, <1>3, <1>4, <1>5, <1>6, <1>7, <1>8, <1>9, <1>10, <1>11, <1>12,
     <1>13, <1>14, <1>15, <1>16, <1>17, <1>18, <1>19, <1>20, <1>21, <1>22
     DEF StartStep

\* Something has been read.
LEMMA AppendIsNotEmpty ==
    ASSUME NEW q \in Seq(Nat), NEW m \in Nat
    PROVE  Append(q, m) # <<>>
<1>1. Len(Append(q, m)) = Len(q) + 1 /\ Len(q) \in Nat
  OBVIOUS
<1>2. Len(<<>>) = 0
  OBVIOUS
<1>3. QED
  BY <1>1, <1>2

\* What is read first.
LEMMA HeadIsFirst ==
    ASSUME NEW q \in Seq(Nat), q # <<>>
    PROVE  Head(q) = q[1] /\ 1 \in DOMAIN q /\ q[1] \in Nat
OBVIOUS

\* No step takes an update back from the caller.
LEMMA UpdatesAreKept ==
    ASSUME TypeOK, attempt \in 0 .. MaxAttempts, StartStep, got[attempt] # <<>>
    PROVE  got'[attempt] # <<>>
<1> USE DEF TypeOK, lndVars, chanVars, readVars, svcVars, pumpVars, vars
<1>0. attempt \in Subs /\ 0 \in Subs
  OBVIOUS
<1>1. ASSUME got' = got PROVE got'[attempt] # <<>>
  BY <1>1
<1>2. ASSUME NEW s \in Subs, NEW m \in Nat, got' = [got EXCEPT ![s] = Append(@, m)]
      PROVE  got'[attempt] # <<>>
  <2>1. got[s] \in Seq(Nat)
    OBVIOUS
  <2>2. Append(got[s], m) # <<>>
    BY <2>1, AppendIsNotEmpty
  <2>3. QED
    BY <1>0, <1>2, <2>2
<1>3. CASE \/ CheckOptions \/ Dial \/ Prepare \/ AwaitCancelled \/ GetInfo \/ Check
           \/ PollSync \/ PauseSync \/ SkipNotifier \/ NilContext
           \/ AttemptTimedOut \/ BackOff
  BY <1>1, <1>3 DEF CheckOptions, Dial, Prepare, AwaitCancelled, GetInfo, Check,
     PollSync, PauseSync, SkipNotifier, NilContext, AttemptTimedOut, BackOff
<1>4. CASE SubscribeWallet \/ Register \/ StartAttempt
  BY <1>1, <1>4 DEF SubscribeWallet, Register, StartAttempt, OpenStream, Launch
<1>5. CASE AwaitState
  <2>1. CASE got' = got
    BY <1>1, <2>1
  <2>2. CASE TakeUpdate(0)
    <3>1. upd[0] \in Seq(Nat) /\ upd[0] # <<>>
      BY <1>0, <2>2 DEF TakeUpdate
    <3>2. Head(upd[0]) \in Nat
      BY <3>1, HeadIsFirst
    <3>3. QED
      BY <1>0, <1>2, <2>2, <3>2 DEF TakeUpdate
  <2>3. QED
    BY <1>5, <2>1, <2>2 DEF AwaitState
<1>6. CASE AwaitError \/ AttemptFailed
  BY <1>1, <1>6 DEF AwaitError, AttemptFailed, TakeError
<1>7. CASE AttemptSucceeded
  BY <1>0, <1>2, <1>7 DEF AttemptSucceeded, DeliverHandover
<1>8. CASE FailEarly \/ EndAttempt \/ Cleanup
  BY <1>1, <1>8 DEF FailEarly, EndAttempt, Cleanup, CloseConn, WaitForFinished
<1>9. QED
  BY <1>3, <1>4, <1>5, <1>6, <1>7, <1>8 DEF StartStep

\* An attempt is left as a success with the block epoch it has read.
LEMMA OwnStepKeepsReason ==
    ASSUME TypeOK, attempt \in 0 .. MaxAttempts, after \in AfterType,
           Control, Reason, StartStep
    PROVE  Reason'
<1> USE DEF GoTo, Return, Leave, Control, Attempting, Reason, AfterType
<1>0. ASSUME after' = after, attempt' = attempt, outcome' = outcome, cfg' = cfg,
             at \notin {"leave", "returned"}, at' # "leave"
      PROVE  Reason'
  BY <1>0
<1>1. CASE CheckOptions \/ Dial \/ Prepare
  BY <1>1 DEF CheckOptions, Dial, Prepare
<1>2. CASE SubscribeWallet \/ AwaitState \/ AwaitError \/ AwaitCancelled \/ GetInfo \/ Check
  BY <1>0, <1>2 DEF SubscribeWallet, AwaitState, AwaitError, AwaitCancelled, GetInfo, Check
<1>3. CASE FailEarly
  BY <1>3 DEF FailEarly
<1>4. CASE PollSync \/ PauseSync \/ StartAttempt
  BY <1>0, <1>4 DEF PollSync, PauseSync, StartAttempt
<1>5. CASE SkipNotifier \/ NilContext
  BY <1>5 DEF SkipNotifier, NilContext
<1>6. CASE Register
  BY <1>6 DEF Register
<1>7. CASE AttemptTimedOut \/ BackOff
  BY <1>7 DEF AttemptTimedOut, BackOff
<1>8. CASE AttemptFailed
  BY <1>8 DEF AttemptFailed
<1>9. CASE AttemptSucceeded
  <2>1. attempt \in Subs /\ got \in [Subs -> Seq(Nat)] /\ hand[attempt] \in Nat
    BY DEF TypeOK
  <2>2. got[attempt] \in Seq(Nat) /\ got'[attempt] = Append(got[attempt], hand[attempt])
    BY <1>9, <2>1 DEF AttemptSucceeded, DeliverHandover
  <2>3. got'[attempt] # <<>>
    BY <2>1, <2>2, AppendIsNotEmpty
  <2>4. QED
    BY <1>9, <2>3 DEF AttemptSucceeded
<1>10. CASE EndAttempt
  <2>1. got' = got
    BY <1>10 DEF EndAttempt, readVars
  <2>2. QED
    BY <1>10, <2>1 DEF EndAttempt
<1>11. CASE Cleanup
  BY <1>11 DEF Cleanup
<1>12. QED
  BY <1>1, <1>2, <1>3, <1>4, <1>5, <1>6, <1>7, <1>8, <1>9, <1>10, <1>11 DEF StartStep

\* Before Close nothing has been waited for.
LEMMA NothingWaitedFor ==
    ASSUME closing = 0, NEW c
    PROVE  ~Waited(c)
BY FourWaits DEF Waited

\* The connection is closed only on the way to a failure.
LEMMA OwnStepKeepsConnection ==
    ASSUME TypeOK, attempt \in 0 .. MaxAttempts, after \in AfterType,
           Control, Reason, Connection, Contexts, StartStep
    PROVE  Connection'
<1> USE DEF GoTo, Return, Leave, Control, Attempting, Connection
<1>0. attempt \in Subs /\ 0 \in Subs
  OBVIOUS
<1>1. CASE CheckOptions \/ Dial \/ Prepare
  BY <1>1 DEF CheckOptions, Dial, Prepare, Contexts, vars, svcVars, pumpVars
<1>2. CASE AwaitCancelled \/ GetInfo \/ Check \/ PollSync \/ PauseSync
  BY <1>2 DEF AwaitCancelled, GetInfo, Check, PollSync, PauseSync,
     vars, svcVars, pumpVars
<1>3. CASE SkipNotifier \/ NilContext
  BY <1>3 DEF SkipNotifier, NilContext, vars, svcVars, pumpVars
<1>4. CASE AttemptTimedOut \/ BackOff
  BY <1>4 DEF AttemptTimedOut, BackOff, vars, svcVars, pumpVars
<1>5. ASSUME NEW s \in Subs, Launch(s), at \notin {"cleanup", "returned"},
             outcome' = outcome
      PROVE  Connection'
  <2>1. connOpen /\ closing = 0 /\ outcome = "none"
    BY <1>5
  <2>2. ~Waited(Profile(s).client)
    BY <2>1, NothingWaitedFor
  <2>3. \A t \in Subs : ~late'[t]
    BY <1>5, <2>2 DEF Launch, TypeOK
  <2>4. QED
    BY <1>5, <2>1, <2>3 DEF Launch
<1>6. CASE SubscribeWallet \/ StartAttempt
  BY <1>0, <1>5, <1>6 DEF SubscribeWallet, StartAttempt, OpenStream, vars, svcVars, pumpVars
<1>7. CASE AwaitState \/ AwaitError
  BY <1>7 DEF AwaitState, AwaitError, TakeUpdate, TakeError, vars, svcVars, pumpVars
<1>8. CASE Register
  BY <1>8 DEF Register, OpenStream, vars, svcVars, pumpVars
<1>9. CASE AttemptFailed
  BY <1>9 DEF AttemptFailed, TakeError, svcVars, pumpVars
<1>10. CASE AttemptSucceeded
  BY <1>10 DEF AttemptSucceeded, DeliverHandover, svcVars
<1>11. CASE EndAttempt
  BY <1>11 DEF EndAttempt, Reason, AfterType, svcVars, pumpVars
<1>12. CASE FailEarly
  BY <1>12 DEF FailEarly, CloseConn, pumpVars
<1>13. CASE Cleanup
  <2>1. CASE CloseConn /\ GoTo("cleanup")
    BY <1>13, <2>1 DEF CloseConn, pumpVars
  <2>2. CASE WaitForFinished /\ GoTo("cleanup")
    <3>1. closing # 0 /\ closing' # 0
      BY <2>2, FourWaits DEF WaitForFinished
    <3>2. connOpen' = connOpen /\ late' = late /\ pc' = pc
      BY <2>2 DEF WaitForFinished, pumpVars
    <3>3. QED
      BY <1>13, <2>2, <3>1, <3>2 DEF Cleanup
  <2>3. CASE Closed /\ Return("error") /\ UNCHANGED vars
    BY <1>13, <2>3, FourWaits DEF Closed, vars, svcVars, pumpVars
  <2>4. QED
    BY <1>13, <2>1, <2>2, <2>3 DEF Cleanup
<1>14. QED
  BY <1>1, <1>2, <1>3, <1>4, <1>6, <1>7, <1>8, <1>9, <1>10, <1>11, <1>12, <1>13
     DEF StartStep

\* Each attempt has a context of its own, and ends it.
LEMMA OwnStepKeepsContexts ==
    ASSUME TypeOK, attempt \in 0 .. MaxAttempts, after \in AfterType,
           Control, Reason, Contexts, StartStep
    PROVE  Contexts'
<1> USE DEF GoTo, Return, Leave, Attempting
<1>0. attempt \in Subs /\ 0 \in Subs
  OBVIOUS
<1>1. ASSUME pc' = pc, ctx' = ctx, attempt' = attempt,
             at' \notin {"options", "dial", "prepare", "subscribe"},
             at \in Attempting => at' \in Attempting
      PROVE  Contexts'
  BY <1>1 DEF Contexts
<1>2. CASE CheckOptions \/ Dial \/ Prepare
  BY <1>2 DEF CheckOptions, Dial, Prepare, Contexts, vars, pumpVars
<1>3. CASE AwaitCancelled \/ GetInfo \/ Check \/ PollSync \/ PauseSync
  BY <1>1, <1>3 DEF AwaitCancelled, GetInfo, Check, PollSync, PauseSync, vars, pumpVars
<1>4. CASE SkipNotifier \/ NilContext
  BY <1>1, <1>4 DEF SkipNotifier, NilContext, vars, pumpVars
<1>5. CASE AttemptTimedOut \/ BackOff
  BY <1>1, <1>5 DEF AttemptTimedOut, BackOff, vars, pumpVars
<1>6. CASE SubscribeWallet
  <2>1. CASE OpenStream(0) /\ GoTo("launch") /\ at = "subscribe"
    BY <1>0, <2>1 DEF OpenStream, TypeOK, Contexts
  <2>2. CASE GoTo("closeConn") /\ UNCHANGED vars /\ at = "subscribe"
    BY <1>1, <2>2 DEF vars, pumpVars
  <2>3. CASE Launch(0) /\ GoTo(IF cfg.unlocked THEN "await" ELSE "getInfo") /\ at = "launch"
    BY <1>0, <2>3 DEF Launch, TypeOK, Contexts
  <2>4. QED
    BY <1>6, <2>1, <2>2, <2>3 DEF SubscribeWallet
<1>7. CASE AwaitState \/ AwaitError
  BY <1>1, <1>7 DEF AwaitState, AwaitError, TakeUpdate, TakeError, vars, pumpVars
<1>8. CASE Register
  <2>1. CASE /\ OpenStream(attempt + 1) /\ at' = "registered" /\ attempt' = attempt + 1
             /\ attempt < MaxAttempts
    <3>1. attempt + 1 \in Subs
      BY <2>1
    <3>2. \A s \in Subs : s # attempt + 1 => pc'[s] = pc[s]
      BY <2>1 DEF OpenStream, TypeOK
    <3>3. at = "notify" /\ ctx' = ctx
      BY <1>8, <2>1 DEF Register, OpenStream
    <3>4. QED
      BY <2>1, <3>1, <3>2, <3>3 DEF Contexts
  <2>2. CASE GoTo("cleanup") /\ UNCHANGED vars /\ at = "notify"
    BY <1>1, <2>2 DEF vars, pumpVars
  <2>3. QED
    BY <1>8, <2>1, <2>2 DEF Register
<1>9. CASE StartAttempt
  <2>1. \A s \in Subs : s # attempt => pc'[s] = pc[s]
    BY <1>9 DEF StartAttempt, Launch, TypeOK
  <2>2. at = "registered" /\ at' = "select" /\ attempt' = attempt /\ ctx' = ctx
    BY <1>9 DEF StartAttempt, Launch
  <2>3. QED
    BY <1>0, <2>1, <2>2 DEF Contexts
<1>10. CASE AttemptFailed
  BY <1>1, <1>10 DEF AttemptFailed, TakeError, pumpVars
<1>11. CASE AttemptSucceeded
  <2>1. \A s \in Subs : s # attempt => pc'[s] = pc[s]
    BY <1>11 DEF AttemptSucceeded, DeliverHandover, AfterDelivery, TypeOK
  <2>2. at = "select" /\ at' = "leave" /\ attempt' = attempt /\ ctx' = ctx
    BY <1>11 DEF AttemptSucceeded, DeliverHandover
  <2>3. QED
    BY <1>0, <2>1, <2>2 DEF Contexts
<1>12. CASE EndAttempt
  <2>1. /\ pc' = pc /\ attempt' = attempt
        /\ at' \in {"returned", "notify", "cleanup"}
    BY <1>12 DEF EndAttempt, Reason, AfterType, pumpVars
  <2>2. ctx'[attempt] /\ \A s \in Subs : s # attempt => ctx'[s] = ctx[s]
    BY <1>0, <1>12 DEF EndAttempt, TypeOK
  <2>3. QED
    BY <2>1, <2>2 DEF Contexts
<1>13. CASE FailEarly
  BY <1>1, <1>13 DEF FailEarly, CloseConn, pumpVars
<1>14. CASE Cleanup
  BY <1>1, <1>14 DEF Cleanup, CloseConn, WaitForFinished, vars, pumpVars
<1>15. QED
  BY <1>2, <1>3, <1>4, <1>5, <1>6, <1>7, <1>8, <1>9, <1>10, <1>11, <1>12,
     <1>13, <1>14 DEF StartStep

-----------------------------------------------------------------------------
(***************************************************************************)
(* The wallet state subscription: whatever reaches its channel, and that   *)
(* the channel is closed, tells of a state that lnd has sent.              *)
(***************************************************************************)

\* The method each subscription is made with never changes.
Methods ==
    kind = [s \in Subs |-> IF s = 0 THEN "SubscribeState" ELSE "RegisterBlockEpochNtfn"]

StatePump ==
    /\ rcvd[0] <= Len(sent[0])
    /\ pc[0] = "deliver" => hand[0] \in 1 .. rcvd[0]
    /\ pc[0] = "report" => cause[0] # "none"
    /\ \A i \in DOMAIN upd[0] : upd[0][i] \in 1 .. rcvd[0]
    /\ cause[0] = "final" => \E i \in 1 .. rcvd[0] : sent[0][i] = "final"
    /\ cause[0] # "eof"
    /\ closed[0] # {} => cause[0] = "final" /\ pc[0] \in {"exit", "done"}

\* What the two methods decide.
LEMMA StartProfiles ==
    ASSUME Methods
    PROVE  /\ Profile(0).updCap = 1
           /\ ~Profile(0).eofCloses /\ ~Profile(0).exitCloses
           /\ Profile(0).convReturns
           /\ Profile(0).onCancel = "return"
           /\ \A s \in Subs \ {0} : Profile(s).counted /\ Profile(s).client = "notifier"
<1>1. Profile(0) = SubscribeState
  BY DEF Methods, Profile, Profiles
<1>2. \A s \in Subs \ {0} : Profile(s) = RegisterBlockEpochNtfn
  BY DEF Methods, Profile, Profiles
<1>3. /\ SubscribeState.updCap = 1
      /\ SubscribeState.onCancel = "return"
  BY DEF SubscribeState, SubscribeGraph
<1>4. ~SubscribeState.eofCloses /\ ~SubscribeState.exitCloses
  BY DEF SubscribeState, SubscribeGraph
<1>5. SubscribeState.convReturns
  BY DEF SubscribeState, SubscribeGraph
<1>6. RegisterBlockEpochNtfn.counted
  BY DEF RegisterBlockEpochNtfn, SubscribeGraph
<1>7. RegisterBlockEpochNtfn.client = "notifier"
  BY DEF RegisterBlockEpochNtfn, SubscribeGraph
<1>8. QED
  BY <1>1, <1>2, <1>3, <1>4, <1>5, <1>6, <1>7

StateUnmoved ==
    /\ pc'[0] = pc[0] /\ rcvd'[0] = rcvd[0] /\ hand'[0] = hand[0]
    /\ cause'[0] = cause[0] /\ sent'[0] = sent[0]
    /\ upd'[0] = upd[0] /\ closed'[0] = closed[0]

\* The other subscriptions do not touch this one.
LEMMA OthersLeaveState ==
    ASSUME TypeOK, NEW s \in Subs \ {0}, QuietStep(s) \/ Launch(s) \/ Finish(s)
    PROVE  StateUnmoved
<1> USE DEF TypeOK, lndVars, chanVars, readVars, pumpVars, StateUnmoved
<1>0. 0 \in Subs
  OBVIOUS
<1>1. CASE OpenStream(s) \/ Launch(s) \/ Finish(s)
  BY <1>0, <1>1 DEF OpenStream, Launch, Finish
<1>2. CASE ReceiveValue(s)
  BY <1>0, <1>2 DEF ReceiveValue
<1>3. CASE ReceiveBad(s)
  BY <1>0, <1>3 DEF ReceiveBad
<1>4. CASE ReceiveEOF(s) \/ ReceiveError(s)
  BY ZenonT(60), <1>0, <1>4 DEF ReceiveEOF, ReceiveError
<1>5. CASE Report(s) \/ ReportHandover(s) \/ ReportCancelled(s)
  BY <1>0, <1>5 DEF Report, ReportHandover, ReportCancelled, AfterReport
<1>6. CASE Deliver(s)
  BY <1>0, <1>6 DEF Deliver, AfterDelivery
<1>7. CASE DeliverHandover(s)
  BY <1>0, <1>7 DEF DeliverHandover, AfterDelivery
<1>8. CASE DeliverCancelled(s)
  BY <1>0, <1>8 DEF DeliverCancelled
<1>9. CASE TakeUpdate(s)
  BY <1>0, <1>9 DEF TakeUpdate
<1>10. CASE TakeError(s) \/ Cancel(s)
  BY <1>0, <1>10 DEF TakeError, Cancel
<1>11. CASE \E ch \in {"upd", "err"} : CloseChan(s, ch)
  BY <1>0, <1>11 DEF CloseChan
<1>12. CASE LndStep(s)
  BY <1>0, <1>12 DEF LndStep, LndSends, LndEnds
<1>13. QED
  BY <1>1, <1>2, <1>3, <1>4, <1>5, <1>6, <1>7, <1>8, <1>9, <1>10, <1>11, <1>12
     DEF QuietStep

\* A queue with one more, or one less, at the right end.
LEMMA QueueOf ==
    ASSUME NEW q \in Seq(Nat), NEW N \in Nat, \A i \in DOMAIN q : q[i] \in 1 .. N
    PROVE  /\ \A m \in 1 .. N : \A i \in DOMAIN Append(q, m) : Append(q, m)[i] \in 1 .. N
           /\ q # <<>> => \A i \in DOMAIN Tail(q) : Tail(q)[i] \in 1 .. N
<1>1. ASSUME NEW m \in 1 .. N, NEW i \in DOMAIN Append(q, m)
      PROVE  Append(q, m)[i] \in 1 .. N
  <2>1. DOMAIN q = 1 .. Len(q) /\ Len(q) \in Nat
    OBVIOUS
  <2>2. i \in 1 .. Len(q) + 1
    BY <1>1
  <2>3. QED
    BY <1>1, <2>1, <2>2
<1>2. ASSUME q # <<>>, NEW i \in DOMAIN Tail(q)
      PROVE  Tail(q)[i] \in 1 .. N
  <2>1. DOMAIN q = 1 .. Len(q) /\ Len(q) \in Nat \ {0}
    BY <1>2
  <2>2. i \in 1 .. Len(q) - 1 /\ Tail(q)[i] = q[i + 1]
    BY <1>2, <2>1
  <2>3. i + 1 \in DOMAIN q
    BY <2>1, <2>2
  <2>4. QED
    BY <2>2, <2>3
<1>3. QED
  BY <1>1, <1>2

\* The state pump closes its channels only after it has put the final state
\* into the one for updates.
LEMMA StepKeepsStatePump ==
    ASSUME TypeOK, Methods, StatePump, [Next]_vars \/ Cancels
    PROVE  StatePump' /\ rcvd'[0] >= rcvd[0]
<1> DEFINE Goal == StatePump' /\ rcvd'[0] >= rcvd[0]
<1> USE DEF lndVars, chanVars, readVars, pumpVars
<1>0. /\ 0 \in Subs
      /\ rcvd[0] \in Nat /\ hand[0] \in Nat /\ Len(sent[0]) \in Nat /\ upd[0] \in Seq(Nat)
  BY DEF TypeOK
<1>1. ASSUME StateUnmoved PROVE Goal
  BY <1>0, <1>1 DEF StateUnmoved, StatePump
<1>2. CASE UNCHANGED vars \/ Cancels \/ CloseConn \/ WaitForFinished
  BY <1>1, <1>2 DEF vars, Cancels, CloseConn, WaitForFinished, StateUnmoved
<1>3. ASSUME NEW s \in Subs \ {0}, PumpStep(s) \/ CallerStep(s) \/ LndStep(s)
      PROVE  Goal
  BY <1>1, <1>3, OthersLeaveState DEF PumpStep, CallerStep, QuietStep
<1>4. CASE OpenStream(0) \/ Launch(0)
  <2>1. pc[0] \in {"unused", "launch"} /\ pc'[0] \in {"launch", "recv"}
    BY <1>0, <1>4 DEF OpenStream, Launch, TypeOK
  <2>2. UNCHANGED <<rcvd, hand, cause, sent, upd, closed>>
    BY <1>4 DEF OpenStream, Launch
  <2>3. QED
    BY <1>0, <2>1, <2>2 DEF StatePump
<1>5. CASE ReceiveValue(0)
  <2>1. rcvd'[0] = rcvd[0] + 1 /\ hand'[0] = rcvd[0] + 1 /\ pc'[0] = "deliver"
    BY <1>0, <1>5 DEF ReceiveValue, TypeOK
  <2>2. /\ rcvd[0] < Len(sent[0]) /\ pc[0] = "recv"
        /\ cause' = cause /\ sent' = sent /\ upd' = upd /\ closed' = closed
    BY <1>5 DEF ReceiveValue, HasNext
  <2>3. QED
    BY SMTT(30), <1>0, <2>1, <2>2 DEF StatePump
<1>6. CASE ReceiveBad(0)
  <2>1. rcvd'[0] = rcvd[0] + 1 /\ pc'[0] = "report" /\ cause'[0] = "error"
    BY <1>0, <1>6, StartProfiles DEF ReceiveBad, TypeOK
  <2>2. /\ rcvd[0] < Len(sent[0]) /\ pc[0] = "recv"
        /\ sent' = sent /\ upd' = upd /\ closed' = closed
    BY <1>6 DEF ReceiveBad, HasNext
  <2>3. QED
    BY <1>0, <2>1, <2>2 DEF StatePump
<1>7. CASE ReceiveEOF(0) \/ ReceiveError(0)
  <2>1. cause'[0] = "error" /\ pc'[0] = "report" /\ pc[0] = "recv"
    BY <1>0, <1>7, StartProfiles DEF ReceiveEOF, ReceiveError, TypeOK
  <2>2. UNCHANGED <<rcvd, hand, sent, upd, closed>>
    BY <1>7 DEF ReceiveEOF, ReceiveError
  <2>3. QED
    BY <1>0, <2>1, <2>2 DEF StatePump
<1>8. CASE Report(0) \/ ReportHandover(0) \/ ReportCancelled(0)
  <2>1. pc[0] = "report" /\ pc'[0] = IF cause[0] = "none" THEN "deliver" ELSE "exit"
    BY <1>0, <1>8 DEF Report, ReportHandover, ReportCancelled, AfterReport, TypeOK
  <2>2. UNCHANGED <<rcvd, hand, cause, sent, upd, closed>>
    BY <1>8 DEF Report, ReportHandover, ReportCancelled
  <2>3. QED
    BY <1>0, <2>1, <2>2 DEF StatePump
<1>9. CASE Deliver(0) \/ DeliverHandover(0)
  <2>1. Deliver(0)
    BY <1>9, StartProfiles DEF DeliverHandover
  <2>2. pc[0] = "deliver" /\ hand[0] \in 1 .. rcvd[0] /\ closed[0] = {}
    BY <2>1 DEF Deliver, StatePump
  <2>3. UNCHANGED <<rcvd, hand, sent, closed>>
    BY <2>1 DEF Deliver
  <2>4. upd'[0] = Append(upd[0], hand[0])
    BY <1>0, <2>1 DEF Deliver, TypeOK
  <2>5. \A i \in DOMAIN upd'[0] : upd'[0][i] \in 1 .. rcvd[0]
    BY <1>0, <2>2, <2>4, QueueOf DEF StatePump
  <2>6. pc'[0] \in {"exit", "recv"}
    BY <1>0, <2>1 DEF Deliver, AfterDelivery, TypeOK
  <2>7. cause'[0] = "final" => cause[0] = "final" \/ sent[0][hand[0]] = "final"
    BY <1>0, <2>1 DEF Deliver, AfterDelivery, TypeOK
  <2>8. cause'[0] # "eof"
    BY <1>0, <2>1 DEF Deliver, AfterDelivery, TypeOK, StatePump
  <2>9. QED
    BY <1>0, <2>2, <2>3, <2>5, <2>6, <2>7, <2>8 DEF StatePump
<1>10. CASE DeliverCancelled(0)
  <2>1. pc[0] = "deliver" /\ pc'[0] = "exit" /\ cause'[0] = "cancel"
    BY <1>0, <1>10, StartProfiles DEF DeliverCancelled, TypeOK
  <2>2. UNCHANGED <<rcvd, hand, sent, upd, closed>>
    BY <1>10 DEF DeliverCancelled
  <2>3. QED
    BY <1>0, <2>1, <2>2 DEF StatePump
<1>11. ASSUME NEW ch \in {"upd", "err"}, CloseChan(0, ch) PROVE Goal
  <2>1. pc[0] = "exit" /\ cause[0] \in {"eof", "final"}
    BY <1>11, StartProfiles DEF CloseChan, Unclosed
  <2>2. UNCHANGED <<pc, rcvd, hand, cause, sent, upd>>
    BY <1>11 DEF CloseChan
  <2>3. cause[0] # "eof"
    BY DEF StatePump
  <2>4. QED
    BY <1>0, <2>1, <2>2, <2>3 DEF StatePump
<1>12. CASE Finish(0)
  <2>1. pc[0] = "exit" /\ pc'[0] = "done"
    BY <1>0, <1>12 DEF Finish, TypeOK
  <2>2. UNCHANGED <<rcvd, hand, cause, sent, upd, closed>>
    BY <1>12 DEF Finish
  <2>3. QED
    BY <1>0, <2>1, <2>2 DEF StatePump
<1>13. CASE TakeUpdate(0)
  <2>1. upd[0] # <<>> /\ upd'[0] = Tail(upd[0])
    BY <1>0, <1>13 DEF TakeUpdate, TypeOK
  <2>2. \A i \in DOMAIN upd'[0] : upd'[0][i] \in 1 .. rcvd[0]
    BY <1>0, <2>1, QueueOf DEF StatePump
  <2>3. UNCHANGED <<pc, rcvd, hand, cause, sent, closed>>
    BY <1>13 DEF TakeUpdate
  <2>4. QED
    BY <1>0, <2>2, <2>3 DEF StatePump
<1>14. CASE TakeError(0) \/ Cancel(0)
  BY <1>1, <1>14 DEF TakeError, Cancel, StateUnmoved
<1>15. CASE LndStep(0)
  <2>1. ASSUME NEW how \in {"eof", "err"}, LndEnds(0, how) PROVE Goal
    BY <1>1, <2>1 DEF LndEnds, StateUnmoved
  <2>2. ASSUME NEW class \in {"value", "bad", "final"}, LndSends(0, class) PROVE Goal
    <3>1. sent[0] \in Seq({"value", "bad", "final"}) /\ sent'[0] = Append(sent[0], class)
      BY <1>0, <2>2 DEF LndSends, TypeOK
    <3>2. /\ Len(sent'[0]) = Len(sent[0]) + 1
          /\ \A i \in 1 .. Len(sent[0]) : sent'[0][i] = sent[0][i]
      BY <3>1
    <3>3. UNCHANGED <<pc, rcvd, hand, cause, upd, closed>>
      BY <2>2 DEF LndSends
    <3>4. rcvd[0] <= Len(sent[0]) /\ Len(sent'[0]) \in Nat
      BY <1>0, <3>2 DEF StatePump
    <3>5. \A i \in 1 .. rcvd[0] : i \in 1 .. Len(sent[0])
      BY <1>0, <3>4
    <3>6. cause[0] = "final" => \E i \in 1 .. rcvd[0] : sent'[0][i] = "final"
      BY <3>2, <3>5 DEF StatePump
    <3>7. rcvd[0] <= Len(sent'[0])
      BY <1>0, <3>2, <3>4
    <3>8. QED
      BY <1>0, <3>3, <3>6, <3>7 DEF StatePump
  <2>3. QED
    BY <1>15, <2>1, <2>2 DEF LndStep, MessageClass
<1>16. CASE PumpStep(0) \/ CallerStep(0) \/ LndStep(0)
  BY <1>4, <1>5, <1>6, <1>7, <1>8, <1>9, <1>10, <1>11, <1>12, <1>13, <1>14, <1>15, <1>16
     DEF PumpStep, CallerStep
<1>17. QED
  BY <1>2, <1>3, <1>16 DEF Next

-----------------------------------------------------------------------------
(***************************************************************************)
(* What GetInfo waits for.                                                 *)
(***************************************************************************)

WalletStates == {"locked", "rpcActive", "serverActive", "unknown"}

\* Every message on the wallet state subscription has its state.
Wallet ==
    /\ wallet \in Seq(WalletStates)
    /\ Len(wallet) = Len(sent[0])
    /\ \A i \in 1 .. Len(wallet) : sent[0][i] = "final" => wallet[i] = "serverActive"

\* Only lnd sends, and only LndSendsState is lnd sending a wallet state.
LEMMA WalletUnmoved ==
    ASSUME TypeOK, attempt \in 0 .. MaxAttempts, [StartNext]_allVars, ~LndSendsState
    PROVE  wallet' = wallet /\ sent'[0] = sent[0]
<1> USE DEF lndVars, chanVars, readVars, pumpVars, svcVars, vars, GoTo, Return, Leave
<1>0. 0 \in Subs /\ attempt \in Subs
  OBVIOUS
<1>1. CASE CheckOptions \/ Dial \/ Prepare \/ AwaitCancelled \/ GetInfo \/ Check
  BY <1>1 DEF CheckOptions, Dial, Prepare, AwaitCancelled, GetInfo, Check
<1>2. CASE PollSync \/ PauseSync \/ SkipNotifier \/ NilContext \/ AttemptTimedOut \/ BackOff
  BY <1>2 DEF PollSync, PauseSync, SkipNotifier, NilContext, AttemptTimedOut, BackOff
<1>3. CASE SubscribeWallet \/ Register \/ StartAttempt
  BY <1>3 DEF SubscribeWallet, Register, StartAttempt, OpenStream, Launch
<1>4. CASE AwaitState \/ AwaitError \/ AttemptFailed \/ AttemptSucceeded
  BY <1>4 DEF AwaitState, AwaitError, AttemptFailed, AttemptSucceeded,
     TakeUpdate, TakeError, DeliverHandover
<1>5. CASE FailEarly \/ EndAttempt \/ Cleanup
  BY <1>5 DEF FailEarly, EndAttempt, Cleanup, CloseConn, WaitForFinished
<1>6. ASSUME NEW s \in Subs, PumpStep(s), UNCHANGED startVars
      PROVE  wallet' = wallet /\ sent'[0] = sent[0]
  BY <1>6 DEF startVars, PumpStep, ReceiveValue, ReceiveBad, ReceiveEOF, ReceiveError,
     Report, ReportCancelled, Deliver, DeliverCancelled, CloseChan, Finish
<1>7. ASSUME NEW s \in Subs \ {0}, LndSendsHeight(s)
      PROVE  wallet' = wallet /\ sent'[0] = sent[0]
  BY <1>0, <1>7 DEF LndSendsHeight, LndSends, startVars, TypeOK
<1>8. ASSUME NEW s \in Subs, NEW how \in {"eof", "err"}, LndEnds(s, how), UNCHANGED startVars
      PROVE  wallet' = wallet /\ sent'[0] = sent[0]
  BY <1>8 DEF LndEnds, startVars
<1>9. CASE LndSyncs \/ AttemptTimeout \/ CallerCancels \/ UNCHANGED allVars
  BY <1>9 DEF LndSyncs, AttemptTimeout, CallerCancels, Cancel, allVars, startVars
<1>10. QED
  BY <1>1, <1>2, <1>3, <1>4, <1>5, <1>6, <1>7, <1>8, <1>9 DEF StartNext, StartStep

\* The states lnd has told stay told.
LEMMA StepKeepsWallet ==
    ASSUME TypeOK, attempt \in 0 .. MaxAttempts, Wallet, [StartNext]_allVars
    PROVE  Wallet' /\ \A i \in 1 .. Len(wallet) : wallet'[i] = wallet[i]
<1>1. CASE ~LndSendsState
  BY <1>1, WalletUnmoved DEF Wallet
<1>2. CASE LndSendsState
  <2>0. PICK class \in MessageClass(0) :
           \E state \in StatesOf(class) :
              LndSends(0, class) /\ wallet' = Append(wallet, state)
    BY <1>2 DEF LndSendsState
  <2>1. PICK state \in StatesOf(class) :
           LndSends(0, class) /\ wallet' = Append(wallet, state)
    BY <2>0
  <2>2. class \in {"value", "bad", "final"}
    BY DEF MessageClass
  <2>3. state \in WalletStates /\ (class = "final" => state = "serverActive")
    BY <2>2 DEF StatesOf, WalletStates
  <2>4. sent[0] \in Seq({"value", "bad", "final"}) /\ sent'[0] = Append(sent[0], class)
    BY <2>1 DEF LndSends, TypeOK
  <2>5. wallet \in Seq(WalletStates) /\ Len(wallet) \in Nat
    BY DEF Wallet
  <2>6. /\ wallet' \in Seq(WalletStates) /\ Len(wallet') = Len(wallet) + 1
        /\ wallet'[Len(wallet) + 1] = state
        /\ \A i \in 1 .. Len(wallet) : wallet'[i] = wallet[i]
    BY <2>1, <2>3, <2>5
  <2>7. /\ Len(sent'[0]) = Len(sent[0]) + 1
        /\ sent'[0][Len(sent[0]) + 1] = class
        /\ \A i \in 1 .. Len(sent[0]) : sent'[0][i] = sent[0][i]
    BY <2>2, <2>4
  <2>8. ASSUME NEW i \in 1 .. Len(wallet'), sent'[0][i] = "final"
        PROVE  wallet'[i] = "serverActive"
    <3>1. i \in 1 .. Len(wallet) \/ i = Len(wallet) + 1
      BY <2>5, <2>6
    <3>2. QED
      BY <2>3, <2>6, <2>7, <2>8, <3>1 DEF Wallet
  <2>9. QED
    BY <2>6, <2>7, <2>8 DEF Wallet
<1>3. QED
  BY <1>1, <1>2

\* lnd has told that its RPC server is active.
Told == \E i \in 1 .. rcvd[0] : ReadyForGetInfo(wallet[i])

PastWait == cfg.unlocked /\ (at \in PastInfo \cup {"getInfo"} \/ outcome = "ok")

\* What comes out of the channel, and that it is closed, is such news.
LEMMA ChannelTells ==
    ASSUME TypeOK, StatePump, Wallet
    PROVE  /\ upd[0] # <<>> /\ ReadyForGetInfo(wallet[Head(upd[0])]) => Told
           /\ closed[0] # {} => Told
<1>0. 0 \in Subs /\ upd[0] \in Seq(Nat) /\ rcvd[0] \in Nat /\ Len(sent[0]) \in Nat
  BY DEF TypeOK
<1>1. ASSUME upd[0] # <<>>, ReadyForGetInfo(wallet[Head(upd[0])])
      PROVE  Told
  <2>1. Head(upd[0]) \in 1 .. rcvd[0]
    BY <1>0, <1>1, HeadIsFirst DEF StatePump
  <2>2. QED
    BY <1>1, <2>1 DEF Told
<1>2. ASSUME closed[0] # {}
      PROVE  Told
  <2>1. PICK i \in 1 .. rcvd[0] : sent[0][i] = "final"
    BY <1>2 DEF StatePump
  <2>2. rcvd[0] <= Len(wallet) /\ Len(wallet) \in Nat
    BY <1>0 DEF StatePump, Wallet
  <2>3. i \in 1 .. Len(wallet)
    BY <1>0, <2>2
  <2>4. wallet[i] = "serverActive"
    BY <2>1, <2>3 DEF Wallet
  <2>5. QED
    BY <2>4 DEF Told, ReadyForGetInfo
<1>3. QED
  BY <1>1, <1>2

\* Start-up goes on to GetInfo with such news only.
LEMMA StepKeepsInfo ==
    ASSUME TypeOK, TypeOK', attempt \in 0 .. MaxAttempts, after \in AfterType,
           Methods, Control, Reason, StatePump, Wallet, InfoOnlyWhenReady,
           [StartNext]_allVars
    PROVE  InfoOnlyWhenReady'
<1> USE DEF GoTo, Return, Leave, Control, PastWait, PastInfo
<1>0. /\ InfoOnlyWhenReady <=> (PastWait => Told)
      /\ InfoOnlyWhenReady' <=> (PastWait' => Told')
  BY DEF InfoOnlyWhenReady, Told
<1>1. ASSUME Told PROVE Told'
  <2>1. rcvd'[0] >= rcvd[0] /\ rcvd[0] \in Nat /\ rcvd'[0] \in Nat /\ Len(wallet) \in Nat
    <3>0. 0 \in Subs
      OBVIOUS
    <3>1. rcvd \in [Subs -> Nat]
      BY DEF TypeOK
    <3>2. rcvd' \in [Subs -> Nat]
      BY DEF TypeOK
    <3>3. rcvd'[0] >= rcvd[0]
      BY StartNextIsNext, StepKeepsStatePump
    <3>4. QED
      BY <3>0, <3>1, <3>2, <3>3 DEF Wallet
  <2>2. rcvd[0] <= Len(wallet)
    BY DEF StatePump, Wallet
  <2>3. PICK i \in 1 .. rcvd[0] : ReadyForGetInfo(wallet[i])
    BY <1>1 DEF Told
  <2>4. i \in 1 .. rcvd'[0] /\ i \in 1 .. Len(wallet)
    BY <2>1, <2>2
  <2>5. wallet'[i] = wallet[i]
    BY <2>4, StepKeepsWallet
  <2>6. QED
    BY <2>3, <2>4, <2>5 DEF Told, ReadyForGetInfo
<1>2. CASE ~StartStep
  BY <1>0, <1>1, <1>2, OthersAreBeside DEF Beside
<1>3. CASE PastWait
  BY <1>0, <1>1, <1>3
<1>4. CASE StartStep /\ ~PastWait
  <2>1. CASE CheckOptions \/ Dial \/ Prepare \/ AwaitCancelled \/ FailEarly
    BY <1>0, <2>1 DEF CheckOptions, Dial, Prepare, AwaitCancelled, FailEarly
  <2>2. CASE SubscribeWallet
    BY <1>0, <1>4, <2>2 DEF SubscribeWallet
  <2>3. CASE AwaitState
    BY <1>0, <1>1, <2>3, ChannelTells DEF AwaitState, TakeUpdate
  <2>4. CASE AwaitError
    BY <1>0, <1>1, <2>4, ChannelTells DEF AwaitError
  <2>5. CASE GetInfo \/ Check \/ PollSync \/ PauseSync \/ SkipNotifier \/ NilContext
    BY <1>0, <1>4, <2>5 DEF GetInfo, Check, PollSync, PauseSync, SkipNotifier, NilContext
  <2>6. CASE Register
    BY <1>0, <1>4, <2>6 DEF Register
  <2>7. CASE StartAttempt \/ AttemptTimedOut \/ AttemptFailed \/ BackOff \/ AttemptSucceeded
    BY <1>0, <1>4, <2>7 DEF StartAttempt, AttemptTimedOut, AttemptFailed, BackOff,
       AttemptSucceeded
  <2>8. CASE EndAttempt
    BY <1>0, <1>4, <2>8 DEF EndAttempt
  <2>9. CASE Cleanup
    BY <1>0, <1>4, <2>9 DEF Cleanup
  <2>10. QED
    BY <1>4, <2>1, <2>2, <2>3, <2>4, <2>5, <2>6, <2>7, <2>8, <2>9 DEF StartStep
<1>5. QED
  BY <1>2, <1>3, <1>4

-----------------------------------------------------------------------------
(***************************************************************************)
(* The inductive invariant of start-up.                                    *)
(***************************************************************************)

StartInv ==
    /\ Inv
    /\ StartTypeOK
    /\ Methods
    /\ Control
    /\ Reason
    /\ Connection
    /\ Contexts
    /\ StatePump
    /\ Wallet
    /\ InfoOnlyWhenReady

\* Every step keeps the types.
LEMMA StepKeepsTypes ==
    ASSUME StartTypeOK, TypeOK', Wallet', Reason, [StartNext]_allVars
    PROVE  StartTypeOK'
<1> USE DEF StartTypeOK, GoTo, Return, Leave
<1>0. Len(wallet') = Len(sent'[0])
  BY DEF Wallet
<1>1. CASE CheckOptions \/ Dial \/ Prepare \/ AwaitCancelled \/ GetInfo \/ Check
  BY <1>0, <1>1 DEF CheckOptions, Dial, Prepare, AwaitCancelled, GetInfo, Check
<1>2. CASE PollSync \/ PauseSync \/ SkipNotifier \/ NilContext \/ AttemptTimedOut
  BY <1>0, <1>2 DEF PollSync, PauseSync, SkipNotifier, NilContext, AttemptTimedOut
<1>3. CASE SubscribeWallet \/ StartAttempt
  BY <1>0, <1>3 DEF SubscribeWallet, StartAttempt
<1>4. CASE AwaitState \/ AwaitError
  BY <1>0, <1>4 DEF AwaitState, AwaitError
<1>5. CASE AttemptFailed \/ AttemptSucceeded \/ BackOff
  BY <1>0, <1>5 DEF AttemptFailed, AttemptSucceeded, BackOff
<1>6. CASE FailEarly \/ Cleanup
  BY <1>0, <1>6 DEF FailEarly, Cleanup
<1>7. CASE Register
  BY <1>0, <1>7 DEF Register
<1>8. CASE EndAttempt
  BY <1>0, <1>8 DEF EndAttempt, Reason
<1>9. CASE LndSendsState \/ LndSyncs \/ CallerCancels
  BY <1>0, <1>9 DEF LndSendsState, LndSyncs, CallerCancels
<1>10. CASE UNCHANGED startVars
  BY <1>0, <1>10 DEF startVars
<1>11. QED
  BY <1>1, <1>2, <1>3, <1>4, <1>5, <1>6, <1>7, <1>8, <1>9, <1>10
     DEF StartNext, StartStep, LndSendsHeight, AttemptTimeout, allVars

\* No step changes the method of a subscription.
LEMMA KindIsKept ==
    ASSUME TypeOK, [Next]_vars \/ Cancels
    PROVE  kind' = kind
<1>1. CASE UNCHANGED vars \/ Cancels \/ CloseConn \/ WaitForFinished
  BY <1>1 DEF vars, Cancels, CloseConn, WaitForFinished
<1>2. ASSUME NEW s \in Subs, PumpStep(s) \/ CallerStep(s) \/ LndStep(s)
      PROVE  kind' = kind
  <2>1. QuietStep(s) \/ Launch(s) \/ Finish(s)
    BY <1>2 DEF PumpStep, CallerStep, QuietStep
  <2>2. CASE QuietStep(s)
    BY <2>2, QuietStepIsQuiet DEF Quiet
  <2>3. QED
    BY <2>1, <2>2 DEF Launch, Finish
<1>3. QED
  BY <1>1, <1>2 DEF Next

\* Start-up begins with no subscription and nothing found out.
LEMMA StartInitInv == StartInit => StartInv
<1> SUFFICES ASSUME StartInit PROVE StartInv
  OBVIOUS
<1>0. 0 \in Subs
  OBVIOUS
<1>9. Inv
  BY InitInv DEF StartInit
<1> USE DEF StartInit, Init
<1>1. Wallet
  BY <1>0 DEF Wallet
<1>2. StartTypeOK
  <2>1. [config |-> cfg, lnd |-> lnd] \in Starts
    <3>1. PICK start \in Starts : cfg = start.config /\ lnd = start.lnd
      OBVIOUS
    <3>2. start \in [config : ConfigType, lnd : LndType]
      OBVIOUS
    <3>3. start = [config |-> cfg, lnd |-> lnd]
      BY <3>1, <3>2
    <3>4. QED
      BY <3>3
  <2>2. Len(wallet) = Len(sent[0])
    BY <1>1 DEF Wallet
  <2>3. TypeOK
    BY <1>9 DEF Inv
  <2>4. at = "options" /\ after = "none" /\ outcome = "none"
    OBVIOUS
  <2>5. attempt \in 0 .. MaxAttempts
    BY <1>0
  <2>6. synced = FALSE /\ callerDone = FALSE
    OBVIOUS
  <2>7. {synced, callerDone} \subseteq BOOLEAN
    BY <2>6
  <2>8. QED
    BY <2>1, <2>2, <2>3, <2>4, <2>5, <2>7 DEF StartTypeOK
<1>3. Methods
  BY DEF Methods
<1>4. Control /\ Reason
  BY DEF Control, Reason, Attempting
<1>5. Connection /\ Contexts
  BY <1>0 DEF Connection, Contexts
<1>6. StatePump
  BY <1>0 DEF StatePump
<1>7. InfoOnlyWhenReady
  BY DEF InfoOnlyWhenReady, PastInfo
<1>10. QED
  BY <1>9, <1>1, <1>2, <1>3, <1>4, <1>5, <1>6, <1>7 DEF StartInv

\* Every step of start-up, and beside it, keeps the invariant.
LEMMA StartNextInv == StartInv /\ [StartNext]_allVars => StartInv'
<1> SUFFICES ASSUME StartInv, [StartNext]_allVars PROVE StartInv'
  OBVIOUS
<1>1. TypeOK /\ attempt \in 0 .. MaxAttempts /\ after \in AfterType
  BY DEF StartInv, StartTypeOK, AfterType
<1>2. Inv' /\ TypeOK'
  BY <1>1, StartKeepsInv DEF StartInv, Inv
<1>3. Methods'
  <2>1. kind' = kind
    BY <1>1, StartNextIsNext, KindIsKept
  <2>2. QED
    BY <2>1 DEF StartInv, Methods
<1>4. Control' /\ Reason' /\ Connection' /\ Contexts'
  <2>1. CASE StartStep
    BY <1>1, <2>1, OwnStepKeepsControl, OwnStepKeepsReason, OwnStepKeepsConnection,
       OwnStepKeepsContexts DEF StartInv
  <2>2. CASE ~StartStep
    BY <1>1, <2>2, OthersAreBeside, BesideKeepsControl DEF StartInv
  <2>3. QED
    BY <2>1, <2>2
<1>5. StatePump'
  BY <1>1, StartNextIsNext, StepKeepsStatePump DEF StartInv
<1>6. Wallet'
  BY <1>1, StepKeepsWallet DEF StartInv
<1>7. StartTypeOK'
  BY <1>2, <1>6, StepKeepsTypes DEF StartInv
<1>8. InfoOnlyWhenReady'
  BY <1>1, <1>2, StepKeepsInfo DEF StartInv
<1>9. QED
  BY <1>2, <1>3, <1>4, <1>5, <1>6, <1>7, <1>8 DEF StartInv

\* The inductive invariant holds of every start-up.
THEOREM StartInvariance == StartSpec => []StartInv
<1>1. StartInit => StartInv
  BY StartInitInv
<1>2. StartInv /\ [StartNext]_allVars => StartInv'
  BY StartNextInv
<1>3. QED
  BY <1>1, <1>2, PTL DEF StartSpec

\* Every variable of start-up keeps its type, and so do those of the pumps.
THEOREM StartTypeCorrect == StartSpec => []StartTypeOK
<1>1. StartInv => StartTypeOK
  BY DEF StartInv
<1>2. QED
  BY <1>1, StartInvariance, PTL

\* BlockUntilUnlocked keeps its word, even where start-up concludes that the
\* wallet is ready from a channel that is closed.
THEOREM GetInfoWaits == StartSpec => []InfoOnlyWhenReady
<1>1. StartInv => InfoOnlyWhenReady
  BY DEF StartInv
<1>2. QED
  BY <1>1, StartInvariance, PTL

\* A start-up that succeeds has met the lnd it was configured for, whatever
\* the versions, and took all its macaroons from one place.
THEOREM LndIsAsConfigured == StartSpec => []StartedAsConfigured
<1>1. StartInv => StartedAsConfigured
  <2> SUFFICES ASSUME StartInv, outcome = "ok" PROVE StartedAsConfigured
    BY DEF StartedAsConfigured
  <2>1. MacaroonOptionsValid(cfg.options) /\ LndCompatible(cfg.options, lnd)
    BY DEF StartInv, Control
  <2>2. cfg \in ConfigType /\ lnd \in LndType
    BY DEF StartInv, StartTypeOK
  <2>3. cfg.options \in OptionsType /\ lnd.version \in VersionType
    BY <2>2 DEF ConfigType, LndType
  <2>4. Expected(cfg.options) \in VersionType
    BY <2>3 DEF Expected, OptionsType, MinimalCompatibleVersion, VersionType
  <2>5. VersionNumber(lnd.version) >= VersionNumber(Expected(cfg.options))
    BY <2>1, <2>3, <2>4, PartsAreHierarchical DEF LndCompatible
  <2>6. ReadOnlyMacaroon(cfg.options) = MacaroonPouch(cfg.options)
    BY <2>1, <2>3, OneMacaroon
  <2>7. QED
    BY <2>1, <2>5, <2>6 DEF StartedAsConfigured, LndCompatible, BuildTagsEnabled
<1>2. QED
  BY <1>1, StartInvariance, PTL

\* A start-up that succeeds has waited for all it was told to wait for and
\* hands out an open connection.
THEOREM ServicesAreReady == StartSpec => []SuccessMeansReady
<1>1. StartInv => SuccessMeansReady
  BY DEF StartInv, Control, Reason, Connection, SuccessMeansReady
<1>2. QED
  BY <1>1, StartInvariance, PTL

\* A start-up that fails late has closed the connection and waited for the
\* pumps of its attempts, and no attempt leaves its context open.
THEOREM NothingIsLeftBehind == StartSpec => []StartCleansUp
<1>1. StartInv => StartCleansUp
  <2> SUFFICES ASSUME StartInv PROVE StartCleansUp
    OBVIOUS
  <2> USE DEF StartInv
  <2>1. outcome = "error" /\ pc[0] # "unused" => ~connOpen
    BY DEF Connection
  <2>2. ASSUME outcome = "error", NEW s \in Subs \ {0}
        PROVE  ~Live(s)
    <3>1. CASE attempt = 0
      <4>1. pc[s] = "unused"
        BY <3>1 DEF Contexts
      <4>2. QED
        BY <4>1 DEF Live
    <3>2. CASE Closed
      <4>1. Profile(s).counted /\ Profile(s).client = "notifier" /\ ~late[s]
        BY StartProfiles DEF Connection
      <4>2. Waited("notifier")
        BY <3>2, FourWaits DEF Waited, Closed, WaitOrder
      <4>3. QED
        BY <4>1, <4>2 DEF Inv, WaitCoversPumps
    <3>3. QED
      BY <2>2, <3>1, <3>2 DEF Control
  <2>3. ASSUME outcome \in {"ok", "error"}, NEW s \in Subs \ {0}, pc[s] # "unused"
        PROVE  ctx[s]
    <3>1. at = "returned"
      BY <2>3 DEF Control
    <3>2. QED
      BY <2>3, <3>1 DEF Contexts, Attempting
  <2>4. QED
    BY <2>1, <2>2, <2>3 DEF StartCleansUp
<1>2. QED
  BY <1>1, StartInvariance, PTL
=============================================================================
