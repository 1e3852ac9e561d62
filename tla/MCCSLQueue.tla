----------------------------- MODULE MCCSLQueue -----------------------------
(* Instance of CSLQueue for TLC: constants are given in the .cfg.          *)
EXTENDS CSLQueue
=============================================================================
