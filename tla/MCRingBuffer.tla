---------------------------- MODULE MCRingBuffer ----------------------------
(***************************************************************************)
(* RingBuffer for TLC.  Three different rows are enough to tell the slots  *)
(* of a buffer of up to four apart, and four slots let the write position  *)
(* wrap before, at and after a Resize in either direction.                 *)
(***************************************************************************)
EXTENDS RingBuffer
=============================================================================
