-------------------------- MODULE MCRtpVideoQueue ---------------------------
(***************************************************************************)
(* RtpVideoQueue for TLC: frames of one and of two FEC blocks; sequence    *)
(* numbers wrap inside the first block of frame 3.  They are modulo 32 and *)
(* not 2^16, so that a newer packet is taken for an old one after half as  *)
(* many packets were lost: four blocks, where the program allows for       *)
(* hundreds.                                                               *)
(***************************************************************************)
EXTENDS RtpVideoQueue

MCLastBlock == <<1, 0, 1, 0>>
=============================================================================
