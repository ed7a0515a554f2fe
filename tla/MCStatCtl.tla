----------------------------- MODULE MCStatCtl -----------------------------
(* A small instance of StatCtl for TLC.                                    *)
EXTENDS StatCtl

CONSTANTS w1, w2, t1, t2

(* Two processes, and the loader: an on can come into the middle of an off.*)
MCWriter == {w1, w2}

(* Two task_structs: a thread that was left behind, and the next one.      *)
MCTask == {t1, t2}
=============================================================================
