----------------------------- MODULE MCSettings ------------------------------
(* Small instances of the settings manager. *)
EXTENDS SettingsManager, TLC

Clients == Permutations(Client)
=============================================================================
