----------------------------- MODULE MCWorkerQueue -----------------------------
(***************************************************************************)
(* WorkerQueue for TLC.                                                    *)
(***************************************************************************)
EXTENDS WorkerQueue

CONSTANTS t1, t2, t3
================================================================================
