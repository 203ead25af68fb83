-------------------------- MODULE MCCleanupStack --------------------------
(* CleanupStack for TLC: three goroutines, so that two can wait while one  *)
(* unwinds, and three callbacks, so that one can be registered between two *)
(* unwinds that each have something to run.                                *)
EXTENDS CleanupStack

CONSTANTS main, handler, other, detach, remove, umount

MCGoroutine == {main, handler, other}
MCCallback  == {detach, remove, umount}
=============================================================================
