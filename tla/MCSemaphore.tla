---------------------------- MODULE MCSemaphore ----------------------------
(***************************************************************************)
(* Four threads and two interrupt handlers.                                *)
(***************************************************************************)
EXTENDS Semaphore

MCInitLevels == {-1, 0, 1}
=============================================================================
