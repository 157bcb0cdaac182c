----------------------------- MODULE MCSessions -----------------------------
(* Lines that are empty, short, and so long that one byte is left of a box. *)
EXTENDS Sessions
=============================================================================
