--------------------------- MODULE MCXstatBuffer ---------------------------
(* A small instance of XstatBuffer for TLC.                                *)
EXTENDS XstatBuffer

CONSTANTS r1, r2

(* Two processes are enough for a reader to meet another reader, a reset   *)
(* and the thread at once.                                                 *)
MCReader == {r1, r2}

(* A page of 9 bytes and texts of 1 to 4: a read is ended by the page as   *)
(* well as by the ring, and some texts end exactly at the half page.       *)
MCRecordLen == {1, 4}
=============================================================================
