------------------------------ MODULE Delivery ------------------------------
(***************************************************************************)
(* What the server promises about the messages on its data streams,        *)
(* without queues, tasks, locks or publishers' loops.  A stream belongs to *)
(* one client and has a line: the messages accepted for it, oldest first.  *)
(* While the stream is open the line only grows at its end, by messages    *)
(* that are newer than everything their publisher has put there before and *)
(* that no other stream of the same client has.  When the stream closes    *)
(* the part of the line that was not written yet is lost, from some point  *)
(* on and never from the middle; afterwards nothing changes any more.      *)
(***************************************************************************)
EXTENDS Integers, Sequences

CONSTANTS
    Streams,
    Clients,
    Messages,       \* records with the publisher src and its number n
    None

VARIABLES
    owner,          \* client of each stream, None before it is attached
    open,           \* streams that accept messages
    line            \* messages accepted for each stream

vars == <<owner, open, line>>

On(d, m) == \E i \in 1..Len(line[d]) : line[d][i] = m

Attach(d, c) ==
    /\ owner[d] = None
    /\ owner' = [owner EXCEPT ![d] = c]
    /\ open' = open \union {d}
    /\ UNCHANGED line

Accept(d) ==
    /\ d \in open
    /\ Len(line'[d]) > Len(line[d])
    /\ \E m \in Messages :
         /\ line' = [line EXCEPT ![d] = Append(@, m)]
         /\ \A e \in Streams : owner[e] = owner[d] => ~On(e, m)
         /\ \A i \in 1..Len(line[d]) :
              line[d][i].src = m.src => line[d][i].n < m.n
    /\ UNCHANGED <<owner, open>>

Close(d) ==
    /\ d \in open
    /\ open' = open \ {d}
    /\ \E k \in 0..Len(line[d]) : line' = [line EXCEPT ![d] = SubSeq(@, 1, k)]
    /\ UNCHANGED owner

Init ==
    /\ owner = [d \in Streams |-> None]
    /\ open = {}
    /\ line = [d \in Streams |-> <<>>]

Next ==
    \E d \in Streams :
        \/ \E c \in Clients : Attach(d, c)
        \/ Accept(d)
        \/ Close(d)

Spec == Init /\ [][Next]_vars
=============================================================================
