---------------------------- MODULE MCStatBuffer ----------------------------
(* Small instances of StatBuffer for TLC.                                  *)
EXTENDS StatBuffer

CONSTANTS r1, r2, k1, k2

(* Two processes, and the two threads that an "on" in the middle of an     *)
(* "off" can leave.                                                        *)
MCReader  == {r1, r2}
MCSampler == {k1, k2}

(* A page of 9 bytes and texts of 1 to 4: a read is ended by the page as   *)
(* well as by the ring.                                                    *)
MCRecordLen == {1, 4}
=============================================================================
