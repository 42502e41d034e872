-------------------------- MODULE MCEvioToolSource --------------------------
(* Small instances of EvioToolSource for TLC; the values are in the cfgs.  *)
EXTENDS EvioToolRefinement
=============================================================================
