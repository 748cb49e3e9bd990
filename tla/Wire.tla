-------------------------------- MODULE Wire -------------------------------
(***************************************************************************)
(* How a message travels: its destination, its type and its payload in one *)
(* text, with a space after each of the first two.  The payload is binary, *)
(* so it may hold spaces itself.                                           *)
(***************************************************************************)
EXTENDS Integers, Sequences

CONSTANT Space

\* Socket::send.
Join(m) == m.dest \o <<Space>> \o m.type \o <<Space>> \o m.payload

\* std::string::find looks from place i on.
Spaces(text, i) == {j \in i .. Len(text) : text[j] = Space}
FirstSpace(text, i) == CHOOSE j \in Spaces(text, i) : \A k \in Spaces(text, i) : j <= k

EndOfDest(text) == FirstSpace(text, 1)
EndOfType(text) == FirstSpace(text, EndOfDest(text) + 1)

HasDest(text) == Spaces(text, 1) # {}
HasType(text) == HasDest(text) /\ Spaces(text, EndOfDest(text) + 1) # {}

\* Socket::receive: a text without a second space has neither type nor payload.
Dest(text) == IF HasDest(text) THEN SubSeq(text, 1, EndOfDest(text) - 1) ELSE <<>>
Type(text) ==
  IF HasType(text) THEN SubSeq(text, EndOfDest(text) + 1, EndOfType(text) - 1) ELSE <<>>
Payload(text) ==
  IF HasType(text) THEN SubSeq(text, EndOfType(text) + 1, Len(text)) ELSE <<>>

Split(text) ==
  [dest |-> Dest(text), type |-> Type(text), payload |-> Payload(text)]

=============================================================================
