---------------------------- MODULE MCXstatCtl ----------------------------
(* A small instance of XstatCtl for TLC.                                   *)
EXTENDS XstatCtl

CONSTANTS w1, w2, t1, t2

(* Two processes, so that one can write while another is in start_stat or  *)
(* stop_stat; beside them there is always the loader.                      *)
MCWriter == {w1, w2}

(* As many task_structs as nodes: enough for a second thread on a node, or *)
(* for one that was left behind, to be possible.                           *)
MCTask == {t1, t2}
=============================================================================
