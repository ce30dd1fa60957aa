------------------------------ MODULE MCHttpHost ------------------------------
(* Small instances of HttpHost for TLC. *)
EXTENDS HttpHost
=============================================================================
