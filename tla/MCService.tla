------------------------------- MODULE MCService -------------------------------
(* Small instances of Service for TLC. *)
EXTENDS Service
==============================================================================
