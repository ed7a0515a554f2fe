--------------------------- MODULE MCStatCounters ---------------------------
(* A small instance of StatCounters for TLC.                               *)
EXTENDS StatCounters, TLC

CONSTANTS w1, w2, t1, t2, c1, c2

MCWriter == {w1, w2}
MCThread == {t1, t2}
MCCpu == {c1, c2}

(* One reading for each of two eras, all different. Some do not fit into   *)
(* eight bits, some have the SMC's status bits above them, and the ratio   *)
(* has each divider but 2.                                                 *)
MCReading ==
  [TEMP_CPU |-> <<91, 2^30 + 92>>, TEMP_EXHAUST |-> <<41, 42>>, TEMP_INLET |-> <<31, 32>>,
   TEMP_VCCP |-> <<51, 300>>, TEMP_VDDG |-> <<53, 54>>, TEMP_VDDQ |-> <<55, 56>>,
   TEMP_GDDR |-> <<61, 62>>, PWR_VCCP |-> <<71, 72>>, PWR_VDDG |-> <<73, 74>>,
   PWR_VDDQ |-> <<75, 2^30 + 76>>, AVG_PWR_1 |-> <<2^30 + 65000, 2^16 + 500>>, PWR_PCIE |-> <<81, 82>>,
   PWR_2X3 |-> <<150, 260>>, PWR_2X4 |-> <<83, 84>>, VOLT_VCCP |-> <<1001, 1002>>,
   DIE_TEMP0 |-> <<11 + 12 * 2^10 + 13 * 2^20, 21 + 22 * 2^10 + 23 * 2^20>>,
   DIE_TEMP1 |-> <<14 + 15 * 2^10 + 16 * 2^20, 24 + 325 * 2^10 + 26 * 2^20>>,
   DIE_TEMP2 |-> <<17 + 18 * 2^10 + 19 * 2^20, 27 + 28 * 2^10 + 29 * 2^20>>,
   CURRENTRATIO |-> <<2 * (3 * 256 + 11) + 2^11, 2 * (256 + 22) + 1>>,
   IA32_THERM_STATUS |-> <<35 * 2^16, 36 * 2^16 + 127 * 2^24>>]

Bounds(driver, clock_, eras_, ons_, enabled, scratch4, failures) ==
  [driver |-> driver, clock |-> clock_, eras |-> eras_, ons |-> ons_, enabled |-> enabled,
   scratch4 |-> scratch4, failures |-> failures]

(* No read of the bus fails, or one, or all, or all for one counter; each  *)
(* call for itself.                                                        *)
NoFailure == {{}}
Failures == {{}, SmcRegister, TempRegister, PowerRegister} \cup {{r} : r \in SmcRegister}

(* Time, sensors and events do not meet: each goes far in behaviours of its*)
(* own. Time goes less far where two ons of micstat meet, as they can at   *)
(* any place. Base clocks are those of a part that does not say, or says too much*)
(* or too little, and of the ends and the middle of the range.             *)
MCLimits ==
  {Bounds("haswellstat", 3, 1, 2, 0, 0, NoFailure), Bounds("micstat", 3, 1, 1, 0, 0, NoFailure),
   Bounds("micstat", 1, 1, 2, 0, 0, NoFailure)}
    \cup {Bounds("micstat", 0, 2, 1, 0, iccdiv * 2^25, NoFailure) : iccdiv \in {17, 18, 20, 22, 23}}
    \cup {Bounds("micstat", 0, 2, 1, 0, 0, Failures)}
    \cup {Bounds("haswellstat", 0, 1, 2, 2, 0, NoFailure), Bounds("haswellstat", 0, 1, 1, 4, 0, NoFailure),
          Bounds("haswellstat", 0, 2, 1, 0, 0, NoFailure)}

MCSymmetry == Permutations(MCWriter) \cup Permutations(MCThread) \cup Permutations(MCCpu)
=============================================================================
