---------------------------- MODULE LifecycleMC ----------------------------
(* A small instance of Lifecycle. *)
EXTENDS Lifecycle

\* Addresses of one byte each, and a buffer of three bytes.
Puller == <<112>>
Publisher == <<115>>
Replier == <<114>>
Agent == <<97>>

\* No bytes, "0", "1x", "11", "-1", "111" which fills the buffer, and "0112"
\* which does not fit.
Texts == {<<>>, <<48>>, <<49, 120>>, <<49, 49>>, <<45, 49>>, <<49, 49, 49>>,
          <<48, 49, 49, 50>>}
=============================================================================
