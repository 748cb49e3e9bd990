---------------------------- MODULE ServerLoopMC ---------------------------
EXTENDS ServerLoop

CONSTANTS ann, bob

\* A text is a sequence of words and spaces; payloads may hold spaces.
Hello == <<"client", " ", "Hello", " ", "name">>
LongHello == <<"client", " ", "Hello", " ", "name", " ", "ready">>
Ping == <<"client", " ", "Ping", " ", "name">>

Hellos == {Hello, LongHello}
HelloAndPing == {Hello, Ping}
Replying == {<<"Hello">>}

=============================================================================
