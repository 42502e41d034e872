---------------------------- MODULE MCEvioFile ----------------------------
(***************************************************************************)
(* An instance of EvioFile in which blocks, buffers and files fill up      *)
(* after an event or two: headers have their 8 words, the sizes the        *)
(* library counts in thousands are scaled down.                            *)
(***************************************************************************)
EXTENDS EvioFile

\* A file whose last block holds data, as other programs write them.
MCForeign == <<Header(EV_HDSIZ + 6, 1, 2, TRUE, FALSE), Event(90, 2), Event(91, 4)>>
=============================================================================
