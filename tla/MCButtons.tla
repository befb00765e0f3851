----------------------------- MODULE MCButtons -----------------------------
(* The buttons for TLC: lines by their place in LINES.                     *)
EXTENDS Buttons
============================================================================
