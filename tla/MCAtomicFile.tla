---------------------------- MODULE MCAtomicFile ----------------------------
(* Two tasks of the worker and one file; no symmetry, so that the refinement *)
(* can be checked in the same run.                                          *)
EXTENDS AtomicFile
=============================================================================
