------------------------------ MODULE MCServer ------------------------------
(* Three clients, with two descriptors for each of them and with fewer. *)
EXTENDS Server

CONSTANTS c1, c2, c3

=============================================================================
