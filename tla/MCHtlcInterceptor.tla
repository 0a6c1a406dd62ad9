-------------------------- MODULE MCHtlcInterceptor --------------------------
(* Instances of HtlcInterceptor for TLC. *)
EXTENDS HtlcInterceptor

CONSTANTS h1, h2

TwoHtlcs == {h1, h2}
=============================================================================
