----------------------------- MODULE TxChannel -----------------------------
(***************************************************************************)
(* What the transmit side of the UART promises to a program that writes to *)
(* /dev/ttyAM0: while the port is up the bytes it accepted appear on the   *)
(* wire once each and in order; they are forgotten only by an explicit     *)
(* flush or once the port is down; a close that waited for the transmitter *)
(* to drain forgets none.  The n-th accepted byte is the number n.         *)
(***************************************************************************)
EXTENDS Naturals, Sequences

VARIABLES
    port,      \* "up", "down", or "drained" (down after a close that drained)
    queue,     \* the accepted bytes that are still to appear on the wire
    wire,      \* bytes put on the wire
    accepted,  \* how many bytes were accepted
    flushes    \* how many flushes were asked for

vars == <<port, queue, wire, accepted, flushes>>

Init ==
    /\ port = "down"
    /\ queue = {}
    /\ wire = <<>>
    /\ accepted = 0
    /\ flushes = 0

Open ==
    /\ port # "up"
    /\ queue = {}
    /\ port' = "up"
    /\ UNCHANGED <<queue, wire, accepted, flushes>>

\* A write is accepted from its first byte on; the rest is refused.
Accept ==
    /\ port = "up"
    /\ accepted' \in Nat /\ accepted' > accepted
    /\ queue' = queue \cup (accepted + 1)..accepted'
    /\ UNCHANGED <<port, wire, flushes>>

\* The oldest byte goes first.
Emit ==
    \E b \in queue :
        /\ \A c \in queue : b <= c
        /\ wire' = Append(wire, b)
        /\ queue' = queue \ {b}
        /\ UNCHANGED <<port, accepted, flushes>>

\* The newest bytes are forgotten, those after the k-th.
Forget == \E k \in 0..accepted : queue' = {b \in queue : b <= k}

Flush ==
    /\ port = "up"
    /\ flushes' = flushes + 1
    /\ Forget
    /\ UNCHANGED <<port, wire, accepted>>

Close ==
    /\ port = "up"
    /\ \/ port' = "down"
       \/ queue = {} /\ port' = "drained"
    /\ UNCHANGED <<queue, wire, accepted, flushes>>

Drop ==
    /\ port # "up"
    /\ Forget
    /\ UNCHANGED <<port, wire, accepted, flushes>>

Next == Open \/ Accept \/ Emit \/ Flush \/ Close \/ Drop

Spec == Init /\ [][Next]_vars
=============================================================================
