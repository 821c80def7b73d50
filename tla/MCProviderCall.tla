--------------------------- MODULE MCProviderCall ---------------------------
(* ProviderCall for TLC: one request of every family, every retry policy.  *)
EXTENDS ProviderCall

\* Half a millisecond, one, and two and a half.
MCWaits == {0, 1, 2, 5}
MCBounds == {0, 1}
=============================================================================
