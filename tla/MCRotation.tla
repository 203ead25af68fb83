----------------------------- MODULE MCRotation -----------------------------
(* Rotation for TLC.  A file holds three bytes; lines have one byte, two,   *)
(* or four, so that they fit together, force a rotation, or are too long    *)
(* for any file.                                                            *)
EXTENDS Rotation

MCLength == { 1, 2, 4 }
=============================================================================
