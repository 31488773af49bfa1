---------------------------- MODULE PacketStream -----------------------------
(***************************************************************************)
(* What the server promises to one client: the packets accepted for it     *)
(* are sent once each, in the order in which they were received, until the *)
(* stream ends; a packet that is cut short ends the stream.  Only while    *)
(* lossy may a packet be dropped and the stream go on.                     *)
(***************************************************************************)
EXTENDS Sequences, Naturals

CONSTANT Packet

VARIABLES queue, stream, open, lossy

svars == <<queue, stream, open, lossy>>

Init == queue = <<>> /\ stream = <<>> /\ open = TRUE /\ lossy \in BOOLEAN

Accept ==
    /\ open
    /\ \E p \in Packet : queue' = Append(queue, p)
    /\ UNCHANGED <<stream, open>>

(* The packet transmitted may be the last one. *)
Transmit ==
    /\ open
    /\ queue # <<>>
    /\ stream' = Append(stream, Head(queue))
    /\ open' \in BOOLEAN
    /\ queue' = IF open' THEN Tail(queue) ELSE <<>>

Drop ==
    /\ lossy
    /\ queue # <<>>
    /\ queue' = Tail(queue)
    /\ UNCHANGED <<stream, open>>

End ==
    /\ open' = FALSE
    /\ queue' = <<>>
    /\ UNCHANGED stream

Next == (Accept \/ Transmit \/ Drop \/ End \/ UNCHANGED <<queue, stream, open>>)
        /\ lossy' \in BOOLEAN

Spec == Init /\ [][Next]_svars
=============================================================================
