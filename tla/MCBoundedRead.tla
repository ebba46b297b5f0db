---------------------------- MODULE MCBoundedRead ----------------------------
(* Byte counts of a signed integer of four bits. *)
EXTENDS BoundedRead

MCLimits == 1..(MaxInt - 1)
MCSizes == 0..(MaxInt + 1)
MCBuffers == 1..(MaxInt - 1)
==============================================================================
