------------------------ MODULE MCClientRegistration ------------------------
(* Instances of ClientRegistration for TLC. *)
EXTENDS ClientRegistration

CONSTANTS t1, t2, t3, c1, c2

\* A close returns: checked for one thread, which stands for all, as neither
\* the initial states nor the steps nor fairness tell one thread from another.
CloseReturns == CloseReturnsOf(t1)
============================================================================
