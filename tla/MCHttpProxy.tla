---------------------------- MODULE MCHttpProxy -----------------------------
(* Instances of HttpProxy for TLC.                                         *)
EXTENDS HttpProxy
=============================================================================
