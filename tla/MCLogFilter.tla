----------------------------- MODULE MCLogFilter -----------------------------
(* LogFilter with two topics. *)
EXTENDS LogFilter

CONSTANTS a, b
=============================================================================
