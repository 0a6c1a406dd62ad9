--------------------------- MODULE MCSubscriptions ---------------------------
(* Instances of Subscriptions for TLC. *)
EXTENDS Subscriptions, TLC

CONSTANTS s1, s2

AllKinds == DOMAIN Profiles
SoundKinds == AllKinds \ {"SubscribeTransactions"}

\* For the runs with two pumps: two of one client and one of another, with and
\* without closing on every return, and one no wait group counts.
PairKinds == {"SubscribeInvoices", "SubscribeSingleInvoice",
              "SubscribeHtlcEvents"}

OnlyTransactions == {"SubscribeTransactions"}

\* The methods whose pumps Close does not wait for.
UnwaitedKinds == {"SubscribeState", "trackPayment", "SubscribeHtlcEvents"}

OneSub == {s1}
TwoSubs == {s1, s2}
Symmetry == Permutations(TwoSubs)
=============================================================================
