---------------------------- MODULE MCClipCache ----------------------------
(* Small instances of ClipCache for TLC. *)
EXTENDS ClipCache

CONSTANTS t1, t2, f1, f2
=============================================================================
