---------------------------- MODULE MCIdleTimer ----------------------------
(* The idle timer for TLC, with a few timeouts around the period.          *)
EXTENDS IdleTimer
============================================================================
