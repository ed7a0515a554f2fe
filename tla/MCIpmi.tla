------------------------------- MODULE MCIpmi -------------------------------
(* A small instance of Ipmi for TLC.                                       *)
EXTENDS Ipmi, TLC

CONSTANTS n1, n2

MCNode == {n1, n2}
MCSymmetry == Permutations(MCNode)

(* A group of two sensors, so that a word is packed, and one of a single   *)
(* sensor, which has the number of a sensor of the other group.            *)
MCSensors == <<2, 1>>
MCNumber == <<(0 :> 7 @@ 1 :> 8), (0 :> 7)>>

(* No measurement is like another, or like no answer.                      *)
MCBmc == 7 :> <<1, 2>> @@ 8 :> <<3, 4>>
MCBase == -1
=============================================================================
