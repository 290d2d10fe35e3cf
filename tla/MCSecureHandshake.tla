------------------------- MODULE MCSecureHandshake -------------------------
(***************************************************************************)
(* A small instance of SecureHandshake: the two nodes of a connection, and *)
(* a key to rotate to.                                                     *)
(***************************************************************************)
EXTENDS SecureHandshake
=============================================================================
