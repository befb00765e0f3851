-------------------------- MODULE MCSettingsStore --------------------------
(* The settings store for TLC: UINT32_MAX is MaxSeq, so that the sequence  *)
(* runs out within a behaviour, and MaxGen frames are written in one.      *)
EXTENDS SettingsStore
============================================================================
