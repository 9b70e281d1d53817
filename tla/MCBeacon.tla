------------------------------ MODULE MCBeacon ------------------------------
(* Beacon for TLC: seconds of four ticks, at most two of them in the byte   *)
(* that tells the timeout.                                                  *)
EXTENDS Beacon

\* the client reads: its own timeout on both sides
DataStream(t) == [client |-> t, read |-> t]

\* less than a second, whole seconds, a fraction more, and more than the byte
\* can tell; and a server that reads with a timeout shorter or longer than the
\* client's
AllSetups ==
    {DataStream(t) : t \in {3, 4, 6, 8, 10, 12}}
        \union {[client |-> 8, read |-> r] : r \in {6, 11}}

\* the default: whole seconds
DefaultSetup == {DataStream(8)}
=============================================================================
