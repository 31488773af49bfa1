--------------------------- MODULE MCPacketReader ---------------------------
(* Packets of 13 bytes for TLC: a text, a binary file, false marks, noise.  *)
EXTENDS PacketReader

A == 8    \* a text of one byte
B == 9    \* a file whose data is a mark and a header
C == 10   \* the header does not have the right sum
D == 11   \* the name cannot be the name of a file
E == 12   \* a text of any bytes but slashes

MCHeader ==
  [h \in {A, B, C, D, E} |->
     [text |-> h \in {A, E}, named |-> h # D,
      checksum |-> CASE h = A -> 8 [] h = B -> 15 [] h = C -> 1 [] h = D -> 3 [] h = E -> 12]]

Data(h, body) == [kind |-> "data", header |-> h, body |-> body]

MCSources ==
  { <<Data(A, <<8>>), [kind |-> "list", body |-> <<8, Bar>>], Data(E, <<2, 3, 7>>)>>,
    <<Data(B, <<Nul, Slash, LetterP, LetterF, B>>), Data(B, <<Nul, Slash, LetterP, LetterF, B>>)>>,
    <<Data(C, <<3>>), Data(A, <<8>>)>>,
    <<Data(A, <<8>>), Data(D, <<3>>)>>,
    <<[kind |-> "noise", body |-> <<Slash, LetterP>>], [kind |-> "noise", body |-> <<LetterF>>]>>,
    <<[kind |-> "noise", body |-> <<Slash, Back>>]>> }
=============================================================================
