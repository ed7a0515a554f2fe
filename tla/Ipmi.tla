-------------------------------- MODULE Ipmi --------------------------------
(***************************************************************************)
(* The IPMI counters of xstat. A counter is a group of sensors of the BMC  *)
(* and has one user of the IPMI layer. The threads of all nodes share the  *)
(* groups: each asks for every sensor of a group, without waiting, and     *)
(* packs the readings that are there already into one word; the replies    *)
(* come to a handler of their own. BMCs come and go, and with them the     *)
(* watcher makes users, also while the module is unloaded.                 *)
(*                                                                         *)
(* Left out: msgid, which nothing reads. The IPMI layer and the BMC are    *)
(* external: they answer each request once, with an error or with what the *)
(* BMC measured since the request was made. Requests for one sensor are    *)
(* answered in their order, those for different sensors in any.            *)
(***************************************************************************)
EXTENDS Integers, FiniteSets, Sequences

CONSTANTS
  NGroup,    \* N_IPMI_CNTS
  Sensors,   \* Sensors[g]: how many sensors the group g has
  Number,    \* Number[g][s]: the sensor_number of a sensor; two may have one
  Bmc,       \* Bmc[k][e]: what the BMC measures for the number k in era e
  Base, Mul, \* what turns a reading into what is printed, of every sensor
  BYTE,      \* readings a sensor may have (256)
  BYTES,     \* bytes of a word (8)
  Node,      \* the nodes, one thread each
  MaxEra,    \* bound: eras, in which the BMC's measurements stay the same
  MaxPending,\* bound: requests for a sensor that have no answer yet
  MaxBmc     \* bound: BMCs that come, one after the other

Group == 1 .. NGroup
Sensor(g) == 0 .. Sensors[g] - 1
Reading == 0 .. BYTE - 1

(* What one in the byte s of a word counts.                                *)
Place(s) == BYTE ^ s

ASSUME IpmiAssumption ==
  /\ NGroup \in Nat \ {0}
  /\ BYTE \in Nat \ {0}
  /\ BYTES \in Nat
  (* Nothing checks it; the largest group of the tables has eight sensors.  *)
  /\ Sensors \in [Group -> 1 .. BYTES]
  /\ MaxEra \in Nat \ {0}
  /\ \A g \in Group : \A s \in Sensor(g) : \A e \in 1 .. MaxEra : Bmc[Number[g][s]][e] \in Reading
  /\ Base \in Int
  /\ Mul \in Nat \ {0}
  /\ MaxPending \in Nat
  /\ MaxBmc \in Nat

(* True of every BYTE and BYTES, but the provers know no powers.           *)
ASSUME PlaceAssumption ==
  /\ Place(0) = 1
  /\ \A k \in 0 .. BYTES : Place(k) \in Nat \ {0} /\ Place(k) <= Place(BYTES)
  /\ \A k \in 0 .. BYTES - 1 : Place(k + 1) = BYTE * Place(k)

(* What the BMC measured in an era for a sensor; there is 0 before the     *)
(* first answer.                                                           *)
Value(g, s, e) == IF e = 0 THEN 0 ELSE Bmc[Number[g][s]][e]

VARIABLES
  mpc,            \* where loading and unloading is
  mg,             \* the group xstat_ipmi_exit is at
  muser,          \* the user xstat_ipmi_exit has taken
  watching,       \* is the watcher registered?
  wg,             \* the group xstat_register_bmc is at; 0: it does not run
  up,             \* is there a BMC?
  bmc,            \* the number of the present, or the last, BMC
  users,          \* the users there are: the group's and the BMC's number
  user,           \* user[g]: the BMC of the group's user; 0: NULL
  era,            \* the BMC's
  pending,        \* pending[g][s]: the eras of the requests not answered yet
  sensor_reading, \* sensor_reading[g][s]: what the handler stored
  npc,            \* npc[n]: where the node's thread is in xstat_ipmi_restart
  group,          \* group[n]: for which group
  nuser,          \* nuser[n]: with which user
  i,              \* i[n]: and at which sensor
  ret,            \* ret[n]: the word
  (* History.                                                              *)
  answered,       \* answered[g][s]: the era of what the last answer said
  fresh,          \* fresh[n][s]: that era, when the sample began
  cause           \* what came in between

module == <<mpc, mg, muser>>
layer  == <<watching, wg, up, bmc>>
node   == <<npc, group, nuser, i, ret>>
readings == <<era, answered, fresh>>
vars   == <<module, layer, users, user, pending, sensor_reading, node, readings, cause>>

NoRequests(g) == [s \in Sensor(g) |-> <<>>]

Init ==
  /\ mpc = "init"
  /\ mg = 1
  /\ muser = 0
  /\ watching = FALSE
  /\ wg = 0
  /\ up = FALSE
  /\ bmc = 0
  /\ users = {}
  /\ user = [g \in Group |-> 0]
  /\ era = 1
  /\ pending = [g \in Group |-> NoRequests(g)]
  /\ sensor_reading = [g \in Group |-> [s \in Sensor(g) |-> 0]]
  /\ answered = [g \in Group |-> [s \in Sensor(g) |-> 0]]
  /\ npc = [n \in Node |-> "idle"]
  /\ group = [n \in Node |-> 1]
  /\ nuser = [n \in Node |-> 0]
  /\ i = [n \in Node |-> 0]
  /\ ret = [n \in Node |-> 0]
  /\ fresh = [n \in Node |-> [s \in 0 .. BYTES - 1 |-> 0]]
  /\ cause = {}

-----------------------------------------------------------------------------
(* BMCs, and the watcher.                                                  *)

(* The first BMC there is comes when there is a watcher, or is found when  *)
(* it is registered; either way new_smi is called for it.                  *)
BmcComes ==
  /\ ~up
  /\ wg = 0
  /\ bmc < MaxBmc
  /\ up' = TRUE
  /\ bmc' = bmc + 1
  /\ wg' = IF watching THEN 1 ELSE 0
  /\ UNCHANGED <<module, watching, users, user, pending, sensor_reading, node, readings, cause>>

(* xstat_bmc_gone does nothing. The IPMI layer answers what is pending with*)
(* errors, which the handler drops.                                        *)
BmcGone ==
  /\ up
  /\ up' = FALSE
  /\ pending' = [g \in Group |-> NoRequests(g)]
  /\ UNCHANGED <<module, watching, wg, bmc, users, user, sensor_reading, node, readings, cause>>

(* One turn of the loop of xstat_register_bmc. The IPMI layer may refuse a *)
(* user, and does if the BMC is gone. The mutant replaces the user it has. *)
NextGroup(g) == IF g < NGroup THEN g + 1 ELSE 0
InExit == IF mpc \in {"exit", "destroy"} THEN {"bmc_in_exit"} ELSE {}

MakeUser(g) ==
  /\ up
  /\ user' = [user EXCEPT ![g] = bmc]
  /\ users' = users \cup {<<g, bmc>>}
  /\ cause' = cause \cup InExit

CreateUserAlways ==
  /\ wg # 0
  /\ wg' = NextGroup(wg)
  /\ MakeUser(wg) \/ UNCHANGED <<user, users, cause>>
  /\ UNCHANGED <<module, watching, up, bmc, pending, sensor_reading, node, readings>>

CreateUser ==
  /\ wg # 0
  /\ wg' = NextGroup(wg)
  /\ \/ user[wg] = 0 /\ MakeUser(wg)
     \/ UNCHANGED <<user, users, cause>>
  /\ UNCHANGED <<module, watching, up, bmc, pending, sensor_reading, node, readings>>

-----------------------------------------------------------------------------
(* The replies.                                                            *)

(* The BMC measures something else.                                        *)
Change ==
  /\ era < MaxEra
  /\ era' = era + 1
  /\ UNCHANGED <<module, layer, users, user, pending, sensor_reading, node, answered, fresh,
                 cause>>

Answered(g, s) ==
  /\ pending[g][s] # <<>>
  /\ pending' = [pending EXCEPT ![g][s] = Tail(@)]

(* xstat_ipmi_msg_handler: a reading is stored with the sensor the request *)
(* was for, which its user_msg_data points to ...                          *)
Reply(g, s) ==
  /\ Answered(g, s)
  /\ \E e \in Head(pending[g][s]) .. era :
       /\ e >= answered[g][s]
       /\ answered' = [answered EXCEPT ![g][s] = e]
       /\ sensor_reading' = [sensor_reading EXCEPT ![g][s] = Value(g, s, e)]
  /\ UNCHANGED <<module, layer, users, user, node, era, fresh, cause>>

(* ... and a reply of two bytes or fewer, an error, is dropped.            *)
ReplyError(g, s) ==
  /\ Answered(g, s)
  /\ UNCHANGED <<module, layer, users, user, sensor_reading, node, readings, cause>>

-----------------------------------------------------------------------------
(* The thread of a node. A group is one of the counters that roll_buffer   *)
(* goes through; in which order does not matter here.                      *)

Restart(n, g) ==
  /\ mpc = "up"
  /\ npc[n] = "idle"
  /\ npc' = [npc EXCEPT ![n] = "request"]
  /\ group' = [group EXCEPT ![n] = g]
  /\ nuser' = [nuser EXCEPT ![n] = user[g]]
  /\ i' = [i EXCEPT ![n] = Sensors[g] - 1]
  /\ ret' = [ret EXCEPT ![n] = 0]
  /\ fresh' = [fresh EXCEPT ![n] = [s \in 0 .. BYTES - 1 |->
                 IF s \in Sensor(g) THEN answered[g][s] ELSE 0]]
  /\ UNCHANGED <<module, layer, users, user, pending, sensor_reading, era, answered, cause>>

(* The request for a sensor, if the group has a user. It fails if the BMC  *)
(* of that user is gone, and may fail for want of memory; nobody looks.    *)
Request(n) ==
  /\ npc[n] = "request"
  /\ \/ /\ up /\ nuser[n] = bmc
        /\ Len(pending[group[n]][i[n]]) < MaxPending
        /\ pending' = [pending EXCEPT ![group[n]][i[n]] = Append(@, era)]
     \/ UNCHANGED pending
  /\ npc' = [npc EXCEPT ![n] = "or"]
  /\ UNCHANGED <<module, layer, users, user, sensor_reading, group, nuser, i, ret,
                 readings, cause>>

(* The reading there is goes to the lowest byte of the word, and the others*)
(* move up. The mutant moves up its own reading too.                       *)
WORD == Place(BYTES)
ShiftedUp(w) == (w * BYTE) % WORD

AfterOr(n) ==
  /\ npc' = [npc EXCEPT ![n] = IF i[n] > 0 THEN "request" ELSE "done"]
  /\ i' = [i EXCEPT ![n] = IF @ > 0 THEN @ - 1 ELSE @]
  /\ UNCHANGED <<module, layer, users, user, pending, sensor_reading, group, nuser,
                 readings, cause>>

OrThenShift(n) ==
  /\ npc[n] = "or"
  /\ ret' = [ret EXCEPT ![n] = ShiftedUp(@ + sensor_reading[group[n]][i[n]])]
  /\ AfterOr(n)

Or(n) ==
  /\ npc[n] = "or"
  /\ ret' = [ret EXCEPT ![n] =
               (IF i[n] # Sensors[group[n]] - 1 THEN ShiftedUp(@) ELSE @)
               + sensor_reading[group[n]][i[n]]]
  /\ AfterOr(n)

Finish(n) ==
  /\ npc[n] = "done"
  /\ npc' = [npc EXCEPT ![n] = "idle"]
  /\ i' = [i EXCEPT ![n] = 0]
  /\ ret' = [ret EXCEPT ![n] = 0]
  /\ group' = [group EXCEPT ![n] = 1]
  /\ nuser' = [nuser EXCEPT ![n] = 0]
  /\ fresh' = [fresh EXCEPT ![n] = [s \in 0 .. BYTES - 1 |-> 0]]
  /\ UNCHANGED <<module, layer, users, user, pending, sensor_reading, era, answered, cause>>

(* What xstat_ipmi_scnprintf prints for sensor s of the word w: the byte   *)
(* that s right shifts by a byte leave lowest.                             *)
Printed(w, s) == (((w \div Place(s)) % BYTE) + Base) * Mul

-----------------------------------------------------------------------------
(* Loading and unloading.                                                  *)

(* xstat_ipmi_init registers the watcher, whose new_smi is called for the  *)
(* BMC there is before anybody can use the module.                         *)
WatcherRegister ==
  /\ mpc = "init"
  /\ ~watching
  /\ watching' = TRUE
  /\ wg' = IF up THEN 1 ELSE 0
  /\ UNCHANGED <<module, up, bmc, users, user, pending, sensor_reading, node, readings, cause>>

Loaded ==
  /\ mpc = "init"
  /\ watching
  /\ wg = 0
  /\ mpc' = "up"
  /\ UNCHANGED <<mg, muser, layer, users, user, pending, sensor_reading, node, readings, cause>>

(* xstat_exit has stopped the threads when it calls xstat_ipmi_exit, which *)
(* takes the user of one group ...                                         *)
TakeUser ==
  /\ mpc \in {"up", "exit"}
  /\ \A n \in Node : npc[n] = "idle"
  /\ mg \in Group
  /\ muser' = user[mg]
  /\ user' = [user EXCEPT ![mg] = 0]
  /\ mpc' = "destroy"
  /\ UNCHANGED <<mg, layer, users, pending, sensor_reading, node, readings, cause>>

(* ... and destroys it, with what was pending for it, and so on ...        *)
DestroyUser ==
  /\ mpc = "destroy"
  /\ users' = users \ {<<mg, muser>>}
  /\ pending' = IF muser # 0 THEN [pending EXCEPT ![mg] = NoRequests(mg)] ELSE pending
  /\ mg' = mg + 1
  /\ muser' = 0
  /\ mpc' = "exit"
  /\ UNCHANGED <<layer, user, sensor_reading, node, readings, cause>>

(* ... and unregisters the watcher, once that is not at work.              *)
WatcherUnregister ==
  /\ mpc = "exit"
  /\ mg \notin Group
  /\ wg = 0
  /\ watching' = FALSE
  /\ mpc' = "gone"
  /\ UNCHANGED <<mg, muser, wg, up, bmc, users, user, pending, sensor_reading, node,
                 readings, cause>>

-----------------------------------------------------------------------------
Thread(n) == (\E g \in Group : Restart(n, g)) \/ Request(n) \/ Or(n) \/ Finish(n)
Layer == BmcComes \/ BmcGone \/ Change \/ \E g \in Group : \E s \in Sensor(g) : Reply(g, s) \/ ReplyError(g, s)
Module == WatcherRegister \/ CreateUser \/ Loaded \/ TakeUser \/ DestroyUser \/ WatcherUnregister

Next == (\E n \in Node : Thread(n)) \/ Layer \/ Module

Spec == Init /\ [][Next]_vars

-----------------------------------------------------------------------------
(* Properties.                                                             *)

TypeOK ==
  /\ mpc \in {"init", "up", "exit", "destroy", "gone"}
  /\ mg \in 1 .. NGroup + 1
  /\ mpc = "destroy" => mg \in Group
  /\ muser \in 0 .. MaxBmc
  /\ watching \in BOOLEAN
  /\ wg \in 0 .. NGroup
  /\ up \in BOOLEAN
  /\ bmc \in 0 .. MaxBmc
  /\ up => bmc # 0
  /\ users \subseteq Group \X (1 .. MaxBmc)
  /\ user \in [Group -> 0 .. MaxBmc]
  /\ DOMAIN pending = Group /\ DOMAIN sensor_reading = Group
  /\ DOMAIN answered = Group
  /\ era \in 1 .. MaxEra
  /\ \A g \in Group : pending[g] \in [Sensor(g) -> Seq(1 .. MaxEra)]
  /\ \A g \in Group : answered[g] \in [Sensor(g) -> 0 .. MaxEra]
  /\ \A g \in Group : sensor_reading[g] \in [Sensor(g) -> Reading]
  /\ npc \in [Node -> {"idle", "request", "or", "done"}]
  /\ group \in [Node -> Group]
  /\ nuser \in [Node -> 0 .. MaxBmc]
  /\ i \in [Node -> 0 .. BYTES - 1]
  /\ \A n \in Node : npc[n] # "idle" => i[n] \in Sensor(group[n])
  /\ ret \in [Node -> Nat]
  /\ fresh \in [Node -> [0 .. BYTES - 1 -> 0 .. MaxEra]]
  /\ cause \subseteq {"bmc_in_exit"}

(* What a sample prints for a sensor is what the BMC measured, at one      *)
(* moment, for the number that this sensor has in the table, and is no     *)
(* older than the last answer that the driver had when the sample began.   *)
(* So replies that are late or lost leave an old reading, of any age, but  *)
(* never bring an older one back or show another sensor's, though threads  *)
(* share the groups and replies for their sensors come in any order. (Fan6B*)
(* has the number of Fan6A in the table: ipmi_cnt.c:58, 67.)               *)
SampleShowsAnswers ==
  \A n \in Node : npc[n] = "done" =>
    \A s \in Sensor(group[n]) :
      \E e \in fresh[n][s] .. answered[group[n]][s] :
        Printed(ret[n], s) = (Value(group[n], s, e) + Base) * Mul

(* Unloading leaves no user behind, which would go on pointing to handlers *)
(* that are gone, unless a BMC came after its group's user was taken: the  *)
(* watcher is unregistered last.                                           *)
UnloadReleasesUsers == mpc = "gone" /\ cause = {} => users = {}

(* What makes it inductive: every user there is belongs to its group or is *)
(* being destroyed, and the groups that xstat_ipmi_exit has done have none.*)
UsersAreKnown ==
  \A u \in users : user[u[1]] = u[2] \/ (mpc = "destroy" /\ u = <<mg, muser>>)

TakenStayTaken ==
  \A g \in Group : g < mg \/ (g = mg /\ mpc = "destroy") => user[g] = 0

ExitInv ==
  /\ mpc \in {"init", "up"} => mg = 1
  /\ mpc = "gone" => mg = NGroup + 1 /\ wg = 0 /\ ~watching
  /\ up => bmc # 0

UserType ==
  /\ mpc \in {"init", "up", "exit", "destroy", "gone"}
  /\ mg \in 1 .. NGroup + 1
  /\ mpc = "destroy" => mg \in Group
  /\ wg \in 0 .. NGroup
  /\ bmc \in Nat
  /\ users \subseteq Group \X (Nat \ {0})
  /\ user \in [Group -> Nat]

IInv == UserType /\ ExitInv /\ (cause = {} => UsersAreKnown /\ TakenStayTaken)

(* What makes SampleShowsAnswers inductive: the word holds what sensors    *)
(* asked already may show, the last one's in the highest byte, and is no   *)
(* larger than that takes; the one asked next comes below them.            *)
Shown(n) ==
  [s \in Sensor(group[n]) |->
     {Value(group[n], s, e) : e \in fresh[n][s] .. answered[group[n]][s]}]

First(n) == IF npc[n] = "done" THEN 0 ELSE i[n] + 1

WordSoFar(n) ==
  /\ ret[n] < Place(Sensors[group[n]] - First(n))
  /\ \A s \in First(n) .. Sensors[group[n]] - 1 :
       (ret[n] \div Place(s - First(n))) % BYTE \in Shown(n)[s]
  /\ \A s \in Sensor(group[n]) : fresh[n][s] <= answered[group[n]][s]

WordInv ==
  /\ \A n \in Node : npc[n] # "idle" => WordSoFar(n)
  /\ \A g \in Group : \A s \in Sensor(g) : sensor_reading[g][s] = Value(g, s, answered[g][s])
=============================================================================
