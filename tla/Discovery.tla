----------------------------- MODULE Discovery -----------------------------
(***************************************************************************)
(* UDP discovery: what the child makes of a datagram.  A datagram holds    *)
(* the version of the client as text, the answer the addresses that        *)
(* version knows of.  The buffer of the datagrams is used again and again, *)
(* and read as a string of C: up to its first byte that is no digit.       *)
(* Bytes are numbers; blanks and a + before the digits, which atoi skips,  *)
(* are left out.                                                           *)
(***************************************************************************)
EXTENDS Integers, Sequences

CONSTANTS
  Limit,         \* UDP_MESSAGE_LIMIT, the size of the buffer
  PullerUrl, PublisherUrl, ReplierUrl, AgentUrl,  \* the addresses, as bytes
  Uint8          \* how many values a byte has

ASSUME LimitAssumption == Limit \in Nat \ {0}
ASSUME UrlAssumption ==
  /\ PullerUrl \in Seq(Nat) /\ PublisherUrl \in Seq(Nat)
  /\ ReplierUrl \in Seq(Nat) /\ AgentUrl \in Seq(Nat)
  /\ Uint8 \in Nat \ {0}

Nul == 0
Minus == 45
Digit == 48 .. 57

Blank == [i \in 1 .. Limit |-> Nul]

\* recvfrom: what does not fit is lost, what it does not overwrite stays.
ReadSize(d) == IF Len(d) > Limit THEN Limit ELSE Len(d)
Filled(buffer, d) == [i \in 1 .. Limit |-> IF i <= ReadSize(d) THEN d[i] ELSE buffer[i]]

\* Mutant: as many bytes are zeroed as would leave the last one.
ZeroedButLast(buffer, size) == [i \in 1 .. Limit |-> IF i < size THEN Nul ELSE buffer[i]]

\* memset(aMessageBuffer, 0, aReadSize)
Zeroed(buffer, size) == [i \in 1 .. Limit |-> IF i <= size THEN Nul ELSE buffer[i]]

\* Where atoi starts and stops.  When every byte is a digit it does not stop in
\* the buffer.
First(buffer) == IF buffer[1] = Minus THEN 2 ELSE 1
Ends(buffer) == {i \in First(buffer) .. Limit : buffer[i] \notin Digit}
End(buffer) == CHOOSE i \in Ends(buffer) : \A j \in Ends(buffer) : i <= j

Number(buffer) ==
  LET value[i \in 0 .. Limit] ==
        IF i < First(buffer) THEN 0 ELSE 10 * value[i - 1] + (buffer[i] - 48)
  IN  value[End(buffer) - 1]

\* The versions atoi may find.  A buffer full of digits is too long for an int
\* and atoi reads on past it: what it finds is undefined, and the four cases of
\* the answer are the outcomes.
Versions(buffer) ==
  IF Ends(buffer) = {} THEN {-1, 0, 1, 2}
  ELSE {IF buffer[1] = Minus THEN - Number(buffer) ELSE Number(buffer)}

\* Each address has its tag and, in one byte, its size.
Section(tag, url) == <<tag, Len(url) % Uint8>> \o url

Answer(version) ==
  (IF version >= 0 THEN Section(160, PullerUrl) \o Section(161, PublisherUrl) ELSE <<>>)
  \o (IF version >= 1 THEN Section(162, ReplierUrl) ELSE <<>>)
  \o (IF version >= 2 THEN Section(163, AgentUrl) ELSE <<>>)
  \o <<Nul>>

\* What a datagram is answered when it comes into this buffer.  One without
\* bytes is not read at all.
Answers(buffer, d) ==
  {Answer(v) : v \in IF ReadSize(d) > 0 THEN Versions(Filled(buffer, d)) ELSE {0}}

=============================================================================
