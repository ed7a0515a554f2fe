------------------------------ MODULE MCMicCtl ------------------------------
(* A small instance of MicCtl for TLC.                                     *)
EXTENDS MicCtl

CONSTANTS w1, w2, t1, t2

MCWriter == {w1, w2}
MCTask == {t1, t2}
=============================================================================
