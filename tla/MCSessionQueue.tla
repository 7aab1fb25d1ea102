--------------------------- MODULE MCSessionQueue ---------------------------
(* Small instances of SessionQueue for TLC: sessions and goroutines are     *)
(* model values given in the .cfg files.                                    *)
EXTENDS SessionQueue, TLC

=============================================================================
