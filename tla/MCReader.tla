------------------------------ MODULE MCReader ------------------------------
(* An input of 8 bytes; lengths below, at and above every bound, and some   *)
(* larger than the input.  The source is read directly or through a buffer. *)
EXTENDS Reader
MCSizes == {0, 1, 3, 5, 8, 9}
MCSlack == {0, 1}
MCBufSizes == {0, 3}
=============================================================================
