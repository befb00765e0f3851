---------------------------- MODULE MCInputGate ----------------------------
(* The input gate for TLC.  The job counters wrap within a behaviour.      *)
EXTENDS InputGate
============================================================================
