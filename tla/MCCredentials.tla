--------------------------- MODULE MCCredentials ----------------------------
(****************************************************************************)
(* Credentials for TLC.                                                     *)
(****************************************************************************)
EXTENDS Credentials, TLC

RequestSymmetry == Permutations(Requests)
=============================================================================
