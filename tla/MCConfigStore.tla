--------------------------- MODULE MCConfigStore ----------------------------
(* Two commands at a time, of every kind.                                   *)
EXTENDS ConfigStore, TLC

MCOps == {"set", "http", "delete", "use", "auth", "register", "init", "relay", "remove", "setup"}
Symmetry == Permutations(Ids)
=============================================================================
