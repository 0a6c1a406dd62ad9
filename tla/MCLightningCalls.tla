-------------------------- MODULE MCLightningCalls --------------------------
(* Instances of LightningCalls for TLC. *)
EXTENDS LightningCalls

CONSTANTS c1, c2

TwoCalls == {c1, c2}

\* A payment beside a call of any method.
AnyAndPayment == {mix \in [TwoCalls -> Methods] : mix[c2] = "PayInvoice"}

TwoPayments == {mix \in AnyAndPayment : mix[c1] = "PayInvoice"}
=============================================================================
