--------------------------- MODULE MCEvioToolLoop ---------------------------
(* Small instances of EvioToolLoop for TLC; the values are in the cfgs.    *)
EXTENDS EvioToolLoop
=============================================================================
