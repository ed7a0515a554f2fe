----------------------------- MODULE MicSensors -----------------------------
(***************************************************************************)
(* What micstat makes of the registers of the Xeon Phi: the SMC's, which   *)
(* it reads over a bus, and the SBOX's, which are memory.  Registers hold  *)
(* more bits than the fields of a sample, which are what a union of eight  *)
(* bytes has room for.                                                     *)
(***************************************************************************)
EXTENDS Integers

TempRegister ==
  {"TEMP_CPU", "TEMP_EXHAUST", "TEMP_INLET", "TEMP_VCCP", "TEMP_VDDG", "TEMP_VDDQ", "TEMP_GDDR"}

PowerRegister ==
  {"PWR_VCCP", "PWR_VDDG", "PWR_VDDQ", "AVG_PWR_1", "PWR_PCIE", "PWR_2X3", "PWR_2X4", "VOLT_VCCP"}

SmcRegister == TempRegister \cup PowerRegister

SboxRegister == {"DIE_TEMP0", "DIE_TEMP1", "DIE_TEMP2", "CURRENTRATIO"}

(* haswellstat and sbstat have one sensor, a register of the CPU they are on.*)
Register == SmcRegister \cup SboxRegister \cup {"IA32_THERM_STATUS"}

(* True, but the provers know no powers.                                   *)
ASSUME PowerAssumption ==
  /\ 2^0 = 1 /\ 2^1 = 2 /\ 2^2 = 4 /\ 2^3 = 8 /\ 2^5 = 32 /\ 2^8 = 256 /\ 2^10 = 1024
  /\ 2^16 = 65536 /\ 2^20 = 1024 * 1024 /\ 2^23 = 128 * 65536 /\ 2^25 = 32 * 1024 * 1024
  /\ 2^30 = 1024 * 1024 * 1024
  /\ 1024^0 = 1 /\ 1024^1 = 1024 /\ 1024^2 = 1024 * 1024

GET_BITS(l, r, v) == (v \div 2^r) % 2^(l - r + 1)

uint8(v)  == v % 2^8
uint16(v) == v % 2^16

(* mr_smc_rd: 0 if the bus failed, and nobody looks at what it returns.    *)
(* The mutant hands on the ones an idle bus shows.                         *)
ReadIdleBus(v, ok) == IF ok THEN v ELSE 2^30 - 1
mr_smc_rd(v, ok)   == IF ok THEN v ELSE 0

(* The fields of temp_union, from the words smc that were read for it and  *)
(* from DIE_TEMP0.                                                         *)
temp_restart(smc, die1) ==
  [tdie  |-> uint8(GET_BITS(15, 0, smc["TEMP_CPU"])),
   tfin  |-> uint8(GET_BITS(15, 0, smc["TEMP_INLET"])),
   tfout |-> uint8(GET_BITS(15, 0, smc["TEMP_EXHAUST"])),
   tgddr |-> uint8(GET_BITS(15, 0, smc["TEMP_GDDR"])),
   tvccp |-> uint8(GET_BITS(15, 0, smc["TEMP_VCCP"])),
   tvddg |-> uint8(GET_BITS(15, 0, smc["TEMP_VDDG"])),
   tvddq |-> uint8(GET_BITS(15, 0, smc["TEMP_VDDQ"])),
   tdie0 |-> uint8(GET_BITS(9, 0, die1))]

(* The other eight dies, three to a register.                              *)
temp2_restart(die1, die2, die3) ==
  <<uint8(GET_BITS(19, 10, die1)), uint8(GET_BITS(29, 20, die1)),
    uint8(GET_BITS(9, 0, die2)), uint8(GET_BITS(19, 10, die2)), uint8(GET_BITS(29, 20, die2)),
    uint8(GET_BITS(9, 0, die3)), uint8(GET_BITS(19, 10, die3)), uint8(GET_BITS(29, 20, die3))>>

power_restart(smc) ==
  [avgpwr  |-> uint16(GET_BITS(29, 0, smc["AVG_PWR_1"])),
   pciepwr |-> uint8(GET_BITS(15, 0, smc["PWR_PCIE"])),
   c2x3pwr |-> uint8(GET_BITS(15, 0, smc["PWR_2X3"])),
   c2x4pwr |-> uint8(GET_BITS(15, 0, smc["PWR_2X4"])),
   vccppwr |-> uint8(GET_BITS(15, 0, smc["PWR_VCCP"])),
   vddgpwr |-> uint8(GET_BITS(15, 0, smc["PWR_VDDG"])),
   vddqpwr |-> uint8(GET_BITS(15, 0, smc["PWR_VDDQ"]))]

volt_restart(smc) == GET_BITS(15, 0, smc["VOLT_VCCP"]) * 1000

therm_status_restart(tmsr) == (tmsr \div 2^16) % 128

-----------------------------------------------------------------------------
(* The clock of the cores: the base clock times the feedback divider, over *)
(* the feed forward divider, both from the ratio code the register shows.  *)

FfPos == 8

K1OM_MCLK_2_FREQ(mclk) == GET_BITS(10, 1, mclk)

(* The mutant divides by what the 8 is to be divided by.                   *)
FeedForward(code)  == 2^GET_BITS(FfPos + 1, FfPos, code)
ff_from_code(code) == 8 \div 2^GET_BITS(FfPos + 1, FfPos, code)

fb_from_code(code) == code % 2^FfPos

freq_from_code(baseclk, code) == (baseclk * fb_from_code(code)) \div ff_from_code(code)

freq_restart(bclk, mclkratio) == freq_from_code(bclk, K1OM_MCLK_2_FREQ(mclkratio))

(* pll_data_k1om: the base clock in kHz until get_baseclk has found another*)
(* and, one for each value of the two bits, the dividers of the PLL.       *)
DefaultClk == 200000
Divider    == <<8, 4, 2, 1>>

(* The base clock that scratch register 4 gives, or 0.                     *)
get_baseclk(scratch4) ==
  LET iccdiv == GET_BITS(29, 25, scratch4)
  IN  IF iccdiv \in 18 .. 22 THEN (4000 * 1000) \div iccdiv ELSE 0
=============================================================================
