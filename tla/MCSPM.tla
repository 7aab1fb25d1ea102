------------------------------- MODULE MCSPM --------------------------------
(* The SPM operations served by a few goroutines over a small pool.        *)
EXTENDS SPM, TLC
=============================================================================
