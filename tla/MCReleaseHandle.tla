-------------------------- MODULE MCReleaseHandle --------------------------
(* ReleaseHandle with two sessions and two goroutines, model values given  *)
(* in MCReleaseHandle.cfg.                                                 *)
EXTENDS ReleaseHandle, TLC

=============================================================================
