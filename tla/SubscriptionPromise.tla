------------------------- MODULE SubscriptionPromise -------------------------
(***************************************************************************)
(* What the caller of one subscription is promised, without goroutines,    *)
(* buffers or wait groups: a part of what lnd sends, in lnd's order, and   *)
(* then at most one reason to end, which is a true one.  A caller that     *)
(* does not cancel gets all of it.  Subscriptions implements this, for     *)
(* each of its subscriptions.                                              *)
(***************************************************************************)
EXTENDS Naturals, Sequences

VARIABLES
    sent,       \* the class of each message lnd has sent: value, bad, final
    ended,      \* how lnd has ended the stream: no, eof, err
    cancelled,  \* the caller has cancelled
    lost,       \* the connection is closed
    passed,     \* the messages passed to the caller, as indices of sent
    told,       \* how many errors it has been told
    shut        \* which of its channels are closed: upd, err

vars == <<sent, ended, cancelled, lost, passed, told, shut>>

Init ==
    /\ sent = <<>>
    /\ ended = "no"
    /\ cancelled = FALSE
    /\ lost = FALSE
    /\ passed = <<>>
    /\ told = 0
    /\ shut = {}

\* The caller has every message, and there will be no more.
Complete == ended # "no" /\ Len(passed) = Len(sent)

\* The message that is next does not convert.
NextIsBad == Len(passed) < Len(sent) /\ sent[Len(passed) + 1] = "bad"

\* The final value has been passed.
FinalPassed == passed # <<>> /\ sent[passed[Len(passed)]] = "final"

\* Nothing tells the caller yet that this is the end.
Open == told = 0 /\ shut = {} /\ ~FinalPassed

-----------------------------------------------------------------------------

LndSends ==
    /\ ended = "no" /\ ~cancelled /\ ~lost
    /\ \E class \in {"value", "bad", "final"} : sent' = Append(sent, class)
    /\ UNCHANGED <<ended, cancelled, lost, passed, told, shut>>

LndEnds ==
    /\ ended = "no" /\ ~cancelled /\ ~lost
    /\ ended' \in {"eof", "err"}
    /\ UNCHANGED <<sent, cancelled, lost, passed, told, shut>>

\* A message later than all before it; the next one, unless the caller has
\* cancelled.
Pass(n) ==
    /\ Open
    /\ sent[n] # "bad"
    /\ \A i \in DOMAIN passed : passed[i] < n
    /\ cancelled \/ n = Len(passed) + 1
    /\ passed' = Append(passed, n)
    /\ UNCHANGED <<sent, ended, cancelled, lost, told, shut>>

\* The one error, and there is one: the stream's, once the messages before it
\* have been passed; the conversion's; or one of a stream that was cut off.
Tell ==
    /\ Open
    /\ Complete \/ NextIsBad \/ cancelled \/ lost
    /\ told' = 1
    /\ UNCHANGED <<sent, ended, cancelled, lost, passed, shut>>

\* A closed channel tells of the same, or of an end that is no error.
Shut(ch) ==
    /\ ch \notin shut
    /\ told > 0 \/ cancelled \/ FinalPassed \/ (Complete /\ ended = "eof")
    /\ shut' = shut \cup {ch}
    /\ UNCHANGED <<sent, ended, cancelled, lost, passed, told>>

Cancel == cancelled' = TRUE /\ UNCHANGED <<sent, ended, lost, passed, told, shut>>

Lose == lost' = TRUE /\ UNCHANGED <<sent, ended, cancelled, passed, told, shut>>

Next ==
    \/ LndSends \/ LndEnds
    \/ \E n \in DOMAIN sent : Pass(n)
    \/ Tell
    \/ \E ch \in {"upd", "err"} : Shut(ch)
    \/ Cancel \/ Lose

Spec == Init /\ [][Next]_vars

=============================================================================
