---------------------------- MODULE MCUdpConfirm ----------------------------
(* UdpConfirm for TLC: calls are interchangeable.                          *)
EXTENDS UdpConfirm, TLC

Symmetry == Permutations(Calls)

\* where a repetition has ended the promise, the properties have nothing more
\* to say
Judged == exact
=============================================================================
