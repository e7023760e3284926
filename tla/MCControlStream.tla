-------------------------- MODULE MCControlStream --------------------------
(* Two controllers that rumble, one motion sensor and the display.         *)
EXTENDS ControlStream

CONSTANTS rumble1, rumble2, motion, hdr

MCPerController == {rumble1, rumble2}
MCMotion == {motion}
MCHdr == {hdr}

\* Three requests; two messages; or any two of a request, a message and a
\* failure of the host or the network.
MCBudgets ==
  {[requests |-> 3, messages |-> 0, failures |-> 0],
   [requests |-> 0, messages |-> 2, failures |-> 0],
   [requests |-> 1, messages |-> 1, failures |-> 0],
   [requests |-> 1, messages |-> 0, failures |-> 1],
   [requests |-> 0, messages |-> 1, failures |-> 1]}
=============================================================================
