----------------------------- MODULE IpmiProofs -----------------------------
(***************************************************************************)
(* That unloading destroys every user of the IPMI layer, unless a BMC came *)
(* in between, that no thread reads past a group or its word, and that     *)
(* what is printed for a sensor is a reading it had, for any number of     *)
(* groups, sensors, nodes and BMCs.                                        *)
(***************************************************************************)
EXTENDS Ipmi, TLAPS

LEMMA InitIInv == Init => IInv
  BY IpmiAssumption DEF Init, IInv, UserType, ExitInv, UsersAreKnown, TakenStayTaken, Group

(* Steps that leave the users, and what xstat_ipmi_exit does, alone.       *)
Untouched == UNCHANGED <<mpc, mg, muser, users, user, cause>>

LEMMA UntouchedStep ==
  ASSUME IInv, Untouched, wg' \in 0 .. NGroup, bmc' \in Nat, up' => bmc' # 0,
         mpc = "gone" => wg' = 0 /\ ~watching'
  PROVE  IInv'
<1>1. UserType'
  BY DEF IInv, UserType, Untouched
<1>2. ExitInv'
  BY DEF IInv, ExitInv, Untouched
<1>3. UsersAreKnown' <=> UsersAreKnown
  BY DEF UsersAreKnown, Untouched
<1>4. TakenStayTaken' <=> TakenStayTaken
  BY DEF TakenStayTaken, Untouched
<1> QED
  BY <1>1, <1>2, <1>3, <1>4 DEF IInv, Untouched

(* The threads and the replies.                                            *)
LEMMA ThreadStep ==
  ASSUME IInv, NEW n \in Node, Thread(n)
  PROVE  IInv'
<1>1. Untouched /\ UNCHANGED layer
  BY DEF Thread, Restart, Request, Or, AfterOr, Finish, Untouched, module
<1> QED
  BY <1>1, UntouchedStep DEF IInv, UserType, ExitInv, layer

LEMMA LayerStep ==
  ASSUME IInv, Layer
  PROVE  IInv'
<1>1. CASE BmcComes
  <2>1. Untouched
    BY <1>1 DEF BmcComes, Untouched, module
  <2>2. wg' \in 0 .. NGroup /\ bmc' \in Nat /\ bmc' # 0
    BY <1>1, IpmiAssumption DEF BmcComes, IInv, UserType
  <2>3. mpc = "gone" => wg' = 0 /\ ~watching'
    BY <1>1 DEF BmcComes, IInv, ExitInv
  <2> QED
    BY <2>1, <2>2, <2>3, UntouchedStep
<1>2. CASE BmcGone
  BY <1>2, UntouchedStep DEF BmcGone, Untouched, module, IInv, UserType, ExitInv
<1>3. CASE Change
  BY <1>3, UntouchedStep DEF Change, Untouched, module, layer, IInv, UserType, ExitInv
<1>4. ASSUME NEW g \in Group, NEW s \in Sensor(g), Reply(g, s) \/ ReplyError(g, s)
      PROVE  IInv'
  <2>1. Untouched /\ UNCHANGED layer
    BY <1>4 DEF Reply, ReplyError, Untouched, module
  <2> QED
    BY <2>1, UntouchedStep DEF IInv, UserType, ExitInv, layer
<1> QED
  BY <1>1, <1>2, <1>3, <1>4 DEF Layer

(* The watcher's callback: a user it makes is its group's, and one made    *)
(* while xstat_ipmi_exit runs is a cause.                                  *)
LEMMA CreateUserStep ==
  ASSUME IInv, CreateUser
  PROVE  IInv'
<1>1. wg \in Group /\ wg' \in 0 .. NGroup /\ mpc # "gone"
  BY IpmiAssumption DEF CreateUser, NextGroup, IInv, UserType, ExitInv, Group
<1>2. UNCHANGED <<mpc, mg, muser, watching, up, bmc>>
  BY DEF CreateUser, module
<1>3. CASE UNCHANGED <<user, users, cause>>
  BY <1>1, <1>2, <1>3, UntouchedStep DEF Untouched, IInv, UserType, ExitInv
<1>4. CASE user[wg] = 0 /\ MakeUser(wg)
  <2>1. /\ user' = [user EXCEPT ![wg] = bmc]
        /\ users' = users \cup {<<wg, bmc>>}
        /\ bmc \in Nat \ {0}
    BY <1>4 DEF MakeUser, IInv, UserType, ExitInv
  <2>2. UserType' /\ ExitInv'
    BY <1>1, <1>2, <2>1 DEF IInv, UserType, ExitInv
  <2>3. ASSUME cause' = {}
        PROVE  UsersAreKnown' /\ TakenStayTaken'
    <3>1. cause = {} /\ mpc \in {"init", "up"}
      BY <1>1, <1>4, <2>3 DEF MakeUser, InExit, IInv, UserType
    <3>2. mg = 1 /\ UsersAreKnown
      BY <3>1 DEF IInv, ExitInv
    <3>3. UsersAreKnown'
      <4> SUFFICES ASSUME NEW u \in users'
                   PROVE  user'[u[1]] = u[2]
        BY DEF UsersAreKnown
      <4>1. CASE u = <<wg, bmc>>
        BY <1>1, <2>1, <4>1 DEF IInv, UserType
      <4>2. CASE u \in users
        <5>1. user[u[1]] = u[2] /\ u[1] \in Group /\ u[2] # 0
          BY <3>1, <3>2, <4>2 DEF UsersAreKnown, IInv, UserType
        <5>2. u[1] # wg
          BY <1>4, <5>1
        <5> QED
          BY <2>1, <5>1, <5>2 DEF IInv, UserType
      <4> QED
        BY <2>1, <4>1, <4>2
    <3>4. TakenStayTaken'
      BY <1>2, <3>1, <3>2 DEF TakenStayTaken, Group
    <3> QED
      BY <3>3, <3>4
  <2> QED
    BY <2>2, <2>3 DEF IInv
<1> QED
  BY <1>3, <1>4 DEF CreateUser

(* xstat_ipmi_exit takes a user and destroys it.                           *)
LEMMA TakeUserStep ==
  ASSUME IInv, TakeUser
  PROVE  IInv'
<1>1. /\ mg \in Group /\ mpc \in {"up", "exit"} /\ mpc' = "destroy"
      /\ muser' = user[mg] /\ user' = [user EXCEPT ![mg] = 0]
      /\ UNCHANGED <<mg, watching, wg, up, bmc, users, cause>>
  BY DEF TakeUser, layer
<1>2. UserType' /\ ExitInv'
  BY <1>1 DEF IInv, UserType, ExitInv
<1>3. ASSUME cause = {}
      PROVE  UsersAreKnown' /\ TakenStayTaken'
  <2>1. UsersAreKnown /\ TakenStayTaken
    BY <1>3 DEF IInv
  <2>2. UsersAreKnown'
    <3> SUFFICES ASSUME NEW u \in users
                 PROVE  user'[u[1]] = u[2] \/ u = <<mg, muser'>>
      BY <1>1 DEF UsersAreKnown
    <3>1. user[u[1]] = u[2] /\ u \in Group \X (Nat \ {0})
      BY <1>1, <2>1 DEF UsersAreKnown, IInv, UserType
    <3>2. u = <<u[1], u[2]>>
      BY <3>1
    <3> QED
      BY <1>1, <3>1, <3>2 DEF IInv, UserType
  <2>3. TakenStayTaken'
    BY <1>1, <2>1 DEF TakenStayTaken, IInv, UserType, Group
  <2> QED
    BY <2>2, <2>3
<1> QED
  BY <1>1, <1>2, <1>3 DEF IInv

LEMMA DestroyUserStep ==
  ASSUME IInv, DestroyUser
  PROVE  IInv'
<1>1. /\ mpc = "destroy" /\ mpc' = "exit" /\ mg' = mg + 1
      /\ users' = users \ {<<mg, muser>>}
      /\ UNCHANGED <<watching, wg, up, bmc, user, cause>>
  BY DEF DestroyUser, layer
<1>2. mg \in Group /\ mg + 1 \in 1 .. NGroup + 1
  BY <1>1, IpmiAssumption DEF IInv, UserType, Group
<1>3. UserType' /\ ExitInv'
  BY <1>1, <1>2 DEF IInv, UserType, ExitInv
<1>4. ASSUME cause = {}
      PROVE  UsersAreKnown' /\ TakenStayTaken'
  <2>1. UsersAreKnown /\ TakenStayTaken
    BY <1>4 DEF IInv
  <2>2. UsersAreKnown'
    BY <1>1, <2>1 DEF UsersAreKnown
  <2>3. TakenStayTaken'
    <3>1. \A g \in Group : g < mg + 1 => g < mg \/ g = mg
      BY <1>2, IpmiAssumption DEF Group
    <3> QED
      BY <1>1, <2>1, <3>1 DEF TakenStayTaken
  <2> QED
    BY <2>2, <2>3
<1> QED
  BY <1>1, <1>3, <1>4 DEF IInv

(* The other steps of loading and unloading.                               *)
LEMMA OtherModuleStep ==
  ASSUME IInv, WatcherRegister \/ Loaded \/ WatcherUnregister
  PROVE  IInv'
<1>1. CASE WatcherRegister
  BY <1>1, UntouchedStep, IpmiAssumption
     DEF WatcherRegister, Untouched, module, IInv, UserType, ExitInv
<1>2. CASE Loaded
  <2>1. UserType' /\ ExitInv'
    BY <1>2 DEF Loaded, layer, IInv, UserType, ExitInv
  <2>2. UsersAreKnown => UsersAreKnown'
    BY <1>2 DEF Loaded, UsersAreKnown
  <2>3. TakenStayTaken => TakenStayTaken'
    BY <1>2 DEF Loaded, TakenStayTaken
  <2> QED
    BY <1>2, <2>1, <2>2, <2>3 DEF Loaded, IInv
<1>3. CASE WatcherUnregister
  <2>1. mg = NGroup + 1
    BY <1>3, IpmiAssumption DEF WatcherUnregister, IInv, UserType, Group
  <2>2. UserType' /\ ExitInv'
    BY <1>3, <2>1 DEF WatcherUnregister, IInv, UserType, ExitInv
  <2>3. UsersAreKnown => UsersAreKnown'
    BY <1>3 DEF WatcherUnregister, UsersAreKnown
  <2>4. TakenStayTaken => TakenStayTaken'
    BY <1>3 DEF WatcherUnregister, TakenStayTaken
  <2> QED
    BY <1>3, <2>2, <2>3, <2>4 DEF WatcherUnregister, IInv
<1> QED
  BY <1>1, <1>2, <1>3

LEMMA StutterStep ==
  ASSUME IInv, UNCHANGED vars
  PROVE  IInv'
  BY UntouchedStep DEF vars, module, layer, Untouched, IInv, UserType, ExitInv

(* The invariant of the users holds, whoever comes and goes.               *)
THEOREM Inductive == Spec => []IInv
<1>1. IInv /\ [Next]_vars => IInv'
  BY ThreadStep, LayerStep, CreateUserStep, TakeUserStep, DestroyUserStep,
     OtherModuleStep, StutterStep DEF Next, Module
<1> QED
  BY InitIInv, <1>1, PTL DEF Spec

(* After rmmod no user is left, unless a BMC came while it ran.            *)
THEOREM UsersReleased == Spec => []UnloadReleasesUsers
<1>1. IInv => UnloadReleasesUsers
  <2> SUFFICES ASSUME IInv, mpc = "gone", cause = {}, NEW u \in users
               PROVE  FALSE
    BY DEF UnloadReleasesUsers
  <2>1. user[u[1]] = u[2] /\ u[1] \in Group /\ u[2] # 0
    BY DEF IInv, UsersAreKnown, UserType
  <2>2. user[u[1]] = 0
    BY <2>1, IpmiAssumption DEF IInv, TakenStayTaken, ExitInv, Group
  <2> QED
    BY <2>1, <2>2
<1> QED
  BY Inductive, <1>1, PTL

-----------------------------------------------------------------------------
(* Types: a request is for a sensor its group has, and the word is a number.*)

(* A group has a first and a last sensor, and both fit a word.             *)
LEMMA SensorFacts ==
  ASSUME NEW g \in Group
  PROVE  /\ Sensors[g] \in Nat \ {0} /\ Sensors[g] <= BYTES
         /\ Sensor(g) \subseteq 0 .. BYTES - 1
         /\ 0 \in Sensor(g) /\ Sensors[g] - 1 \in Sensor(g)
         /\ 0 \in Reading
  BY IpmiAssumption DEF Sensor, Reading

(* What the BMC measures is a reading, and so is what there is before.     *)
LEMMA ValueType ==
  ASSUME NEW g \in Group, NEW s \in Sensor(g), NEW e \in 0 .. MaxEra
  PROVE  Value(g, s, e) \in Reading
<1>1. CASE e = 0
  BY <1>1, SensorFacts DEF Value
<1>2. CASE e # 0
  <2>1. e \in 1 .. MaxEra
    BY <1>2, IpmiAssumption
  <2> QED
    BY <1>2, <2>1, IpmiAssumption DEF Value
<1> QED
  BY <1>1, <1>2

(* A word has values, so that a remainder modulo their number is one.      *)
LEMMA WordFacts == WORD \in Nat \ {0} /\ \A w \in Nat : (w * BYTE) % WORD \in Nat
<1>1. WORD \in Nat \ {0}
  BY IpmiAssumption, PlaceAssumption DEF WORD
<1> QED
  BY <1>1, IpmiAssumption

(* The bounds alone.                                                       *)
LEMMA BoundsType ==
  /\ NGroup \in Nat \ {0} /\ BYTE \in Nat \ {0} /\ BYTES \in Nat
  /\ MaxEra \in Nat \ {0} /\ MaxBmc \in Nat
  BY IpmiAssumption

LEMMA InitType == Init => TypeOK
<1> SUFFICES ASSUME Init PROVE TypeOK
  OBVIOUS
<1> USE IpmiAssumption DEF Init
<1>1. 1 \in 1 .. NGroup + 1 /\ 0 \in 0 .. MaxBmc /\ 0 \in 0 .. NGroup /\ 0 \in 0 .. MaxEra /\ 1 \in 1 .. MaxEra
  OBVIOUS
<1>2. 1 \in Group /\ 0 \in 0 .. BYTES - 1
  BY SensorFacts DEF Group
<1>3. \A g \in Group : pending[g] \in [Sensor(g) -> Seq(1 .. MaxEra)]
  BY DEF NoRequests
<1>7. /\ DOMAIN answered = Group /\ \A g \in Group : answered[g] \in [Sensor(g) -> 0 .. MaxEra]
      /\ era \in 1 .. MaxEra /\ DOMAIN pending = Group
  BY <1>1
<1>4. \A g \in Group : sensor_reading[g] \in [Sensor(g) -> Reading]
  BY SensorFacts
<1>5. user \in [Group -> 0 .. MaxBmc] /\ group \in [Node -> Group] /\ nuser \in [Node -> 0 .. MaxBmc]
  BY <1>1, <1>2
<1>6. /\ i \in [Node -> 0 .. BYTES - 1] /\ ret \in [Node -> Nat]
      /\ fresh \in [Node -> [0 .. BYTES - 1 -> 0 .. MaxEra]]
      /\ npc \in [Node -> {"idle", "request", "or", "done"}]
  BY <1>1, <1>2
<1> QED
  BY <1>1, <1>3, <1>4, <1>5, <1>6, <1>7 DEF TypeOK

LEMMA TypeStep ==
  ASSUME TypeOK, Next
  PROVE  TypeOK'
<1> USE BoundsType DEF TypeOK, module, layer, node, readings
<1>1. ASSUME NEW n \in Node, NEW g \in Group, Restart(n, g)
      PROVE  TypeOK'
  <2>1. /\ Sensors[g] - 1 \in 0 .. BYTES - 1 /\ Sensors[g] - 1 \in Sensor(g)
        /\ \A s \in Sensor(g) : answered[g][s] \in 0 .. MaxEra
    BY SensorFacts
  <2>2. /\ npc' \in [Node -> {"idle", "request", "or", "done"}]
        /\ group' \in [Node -> Group]
        /\ nuser' \in [Node -> 0 .. MaxBmc]
        /\ i' \in [Node -> 0 .. BYTES - 1]
        /\ ret' \in [Node -> Nat]
    BY <1>1, <2>1 DEF Restart
  <2>3. fresh' \in [Node -> [0 .. BYTES - 1 -> 0 .. MaxEra]]
    <3> DEFINE began == [s \in 0 .. BYTES - 1 |-> IF s \in Sensor(g) THEN answered[g][s] ELSE 0]
    <3>1. 0 \in 0 .. MaxEra
      OBVIOUS
    <3>2. began \in [0 .. BYTES - 1 -> 0 .. MaxEra]
      BY <2>1, <3>1, Zenon
    <3>3. fresh' = [fresh EXCEPT ![n] = began]
      BY <1>1 DEF Restart
    <3> HIDE DEF began
    <3> QED
      BY <3>2, <3>3
  <2>4. \A m \in Node : npc'[m] # "idle" => i'[m] \in Sensor(group'[m])
    BY <1>1, <2>1 DEF Restart
  <2> QED
    BY <1>1, <2>2, <2>3, <2>4 DEF Restart
<1>2. ASSUME NEW n \in Node, Request(n)
      PROVE  TypeOK'
  <2>1. npc' \in [Node -> {"idle", "request", "or", "done"}]
    BY <1>2 DEF Request
  <2>2. \A m \in Node : npc'[m] # "idle" => i[m] \in Sensor(group[m])
    BY <1>2 DEF Request
  <2>3. DOMAIN pending' = Group /\ \A g \in Group : pending'[g] \in [Sensor(g) -> Seq(1 .. MaxEra)]
    <3>1. CASE UNCHANGED pending
      BY <3>1
    <3>2. CASE pending' = [pending EXCEPT ![group[n]][i[n]] = Append(@, era)]
      <4>1. group[n] \in Group /\ i[n] \in Sensor(group[n])
        BY <1>2 DEF Request
      <4> DEFINE more == Append(pending[group[n]][i[n]], era)
      <4>2. more \in Seq(1 .. MaxEra)
        <5>1. pending[group[n]] \in [Sensor(group[n]) -> Seq(1 .. MaxEra)]
          BY <4>1
        <5>2. pending[group[n]][i[n]] \in Seq(1 .. MaxEra) /\ era \in 1 .. MaxEra
          BY <4>1, <5>1
        <5> QED
          BY <5>2
      <4>3. pending' = [pending EXCEPT ![group[n]] = [pending[group[n]] EXCEPT ![i[n]] = more]]
        BY <3>2
      <4> HIDE DEF more
      <4>4. [pending[group[n]] EXCEPT ![i[n]] = more] \in [Sensor(group[n]) -> Seq(1 .. MaxEra)]
        BY <4>1, <4>2
      <4> QED
        BY <4>1, <4>3, <4>4
    <3> QED
      BY <1>2, <3>1, <3>2 DEF Request
  <2> QED
    BY <1>2, <2>1, <2>2, <2>3 DEF Request
<1>3. ASSUME NEW n \in Node, Or(n)
      PROVE  TypeOK'
  <2>1. /\ group[n] \in Group /\ i[n] \in Sensor(group[n])
        /\ i[n] \in 0 .. BYTES - 1 /\ Sensor(group[n]) = 0 .. Sensors[group[n]] - 1
        /\ Sensors[group[n]] \in Nat
    BY <1>3, SensorFacts DEF Or, Sensor
  <2>2. i[n] > 0 => i[n] - 1 \in 0 .. BYTES - 1 /\ i[n] - 1 \in Sensor(group[n])
    <3> HIDE DEF TypeOK
    <3> QED
      BY <2>1
  <2>3. i' \in [Node -> 0 .. BYTES - 1]
    BY <1>3, <2>2 DEF Or, AfterOr
  <2>4. npc' \in [Node -> {"idle", "request", "or", "done"}]
    BY <1>3 DEF Or, AfterOr
  <2>5. \A m \in Node : npc'[m] # "idle" => i'[m] \in Sensor(group[m])
    BY <1>3, <2>1, <2>2 DEF Or, AfterOr
  <2>6. ret' \in [Node -> Nat]
    <3>1. sensor_reading[group[n]][i[n]] \in Nat
      <4>1. sensor_reading[group[n]] \in [Sensor(group[n]) -> Reading]
        BY <2>1
      <4>2. sensor_reading[group[n]][i[n]] \in Reading
        BY <2>1, <4>1
      <4> QED
        BY <4>2 DEF Reading
    <3>2. ShiftedUp(ret[n]) \in Nat
      BY WordFacts DEF ShiftedUp
    <3> DEFINE moved == IF i[n] # Sensors[group[n]] - 1 THEN ShiftedUp(ret[n]) ELSE ret[n]
    <3>3. moved \in Nat
      BY <3>2
    <3>4. moved + sensor_reading[group[n]][i[n]] \in Nat
      <4> DEFINE read == sensor_reading[group[n]][i[n]]
      <4>1. read \in Nat
        BY <3>1
      <4> HIDE DEF moved, read
      <4>2. moved + read \in Nat
        BY <3>3, <4>1
      <4> QED
        BY <4>2 DEF read
    <3>5. ret' = [ret EXCEPT ![n] = moved + sensor_reading[group[n]][i[n]]]
      BY <1>3 DEF Or
    <3> HIDE DEF moved
    <3> QED
      BY <3>4, <3>5
  <2> QED
    BY <1>3, <2>3, <2>4, <2>5, <2>6 DEF Or, AfterOr
<1>4. ASSUME NEW n \in Node, Finish(n)
      PROVE  TypeOK'
  <2>1. 1 \in Group /\ 0 \in 0 .. BYTES - 1 /\ 0 \in 0 .. MaxBmc /\ 0 \in 0 .. MaxEra
    <3>1. 1 \in Group /\ 0 \in 0 .. MaxBmc /\ 0 \in 0 .. MaxEra
      BY DEF Group
    <3>2. 0 \in Sensor(1) /\ Sensor(1) \subseteq 0 .. BYTES - 1
      BY <3>1, SensorFacts
    <3> QED
      BY <3>1, <3>2
  <2>2. /\ npc' \in [Node -> {"idle", "request", "or", "done"}]
        /\ group' \in [Node -> Group]
        /\ nuser' \in [Node -> 0 .. MaxBmc]
        /\ i' \in [Node -> 0 .. BYTES - 1]
        /\ ret' \in [Node -> Nat]
        /\ fresh' \in [Node -> [0 .. BYTES - 1 -> 0 .. MaxEra]]
    BY <1>4, <2>1 DEF Finish
  <2>3. \A m \in Node : npc'[m] # "idle" => i'[m] \in Sensor(group'[m])
    BY <1>4 DEF Finish
  <2> QED
    BY <1>4, <2>2, <2>3 DEF Finish
<1>5. CASE BmcComes
  BY <1>5 DEF BmcComes
<1>6. CASE BmcGone
  <2>1. DOMAIN pending' = Group /\ \A g \in Group : pending'[g] \in [Sensor(g) -> Seq(1 .. MaxEra)]
    BY <1>6 DEF BmcGone, NoRequests
  <2> QED
    BY <1>6, <2>1 DEF BmcGone
<1>7. ASSUME NEW g \in Group, NEW s \in Sensor(g), Answered(g, s)
      PROVE  DOMAIN pending' = Group /\ \A h \in Group : pending'[h] \in [Sensor(h) -> Seq(1 .. MaxEra)]
  <2> DEFINE rest == Tail(pending[g][s])
  <2>1. rest \in Seq(1 .. MaxEra)
    <3> DEFINE q == pending[g][s]
    <3>1. q \in Seq(1 .. MaxEra) /\ q # <<>>
      <4>1. pending[g] \in [Sensor(g) -> Seq(1 .. MaxEra)]
        OBVIOUS
      <4> QED
        BY <1>7, <4>1 DEF Answered
    <3> HIDE DEF q
    <3>2. Tail(q) \in Seq(1 .. MaxEra)
      BY <3>1
    <3> QED
      BY <3>2 DEF q
  <2>2. pending' = [pending EXCEPT ![g] = [pending[g] EXCEPT ![s] = rest]]
    BY <1>7 DEF Answered
  <2> HIDE DEF rest
  <2>3. [pending[g] EXCEPT ![s] = rest] \in [Sensor(g) -> Seq(1 .. MaxEra)]
    BY <2>1
  <2> QED
    BY <2>2, <2>3
<1>8. ASSUME NEW g \in Group, NEW s \in Sensor(g), Reply(g, s)
      PROVE  TypeOK'
  <2>1. PICK e \in Head(pending[g][s]) .. era :
          /\ answered' = [answered EXCEPT ![g][s] = e]
          /\ sensor_reading' = [sensor_reading EXCEPT ![g][s] = Value(g, s, e)]
    BY <1>8 DEF Reply
  <2>2. e \in 0 .. MaxEra
    <3>1. pending[g][s] \in Seq(1 .. MaxEra) /\ pending[g][s] # <<>>
      BY <1>8 DEF Reply, Answered
    <3>2. Head(pending[g][s]) \in 1 .. MaxEra
      BY <3>1
    <3> QED
      BY <3>2
  <2>3. Value(g, s, e) \in Reading
    BY <2>2, ValueType
  <2>4. /\ DOMAIN sensor_reading' = Group
        /\ \A h \in Group : sensor_reading'[h] \in [Sensor(h) -> Reading]
    BY <2>1, <2>3
  <2>5. /\ DOMAIN answered' = Group
        /\ \A h \in Group : answered'[h] \in [Sensor(h) -> 0 .. MaxEra]
    BY <2>1, <2>2
  <2>6. Answered(g, s)
    BY <1>8 DEF Reply
  <2> QED
    BY <1>7, <1>8, <2>4, <2>5, <2>6 DEF Reply
<1>9. ASSUME NEW g \in Group, NEW s \in Sensor(g), ReplyError(g, s)
      PROVE  TypeOK'
  BY <1>7, <1>9 DEF ReplyError
<1>16. CASE Change
  <2>1. era' \in 1 .. MaxEra
    BY <1>16 DEF Change
  <2> QED
    BY <1>16, <2>1 DEF Change
<1>10. CASE WatcherRegister
  BY <1>10 DEF WatcherRegister
<1>11. CASE CreateUser
  <2>1. wg \in Group /\ NextGroup(wg) \in 0 .. NGroup
    BY <1>11 DEF CreateUser, NextGroup, Group
  <2>2. CASE UNCHANGED <<user, users, cause>>
    BY <1>11, <2>1, <2>2 DEF CreateUser
  <2>3. CASE MakeUser(wg)
    <3>1. bmc \in 1 .. MaxBmc
      BY <2>3 DEF MakeUser
    <3>2. user' \in [Group -> 0 .. MaxBmc] /\ users' \subseteq Group \X (1 .. MaxBmc)
      <4>1. bmc \in 0 .. MaxBmc
        OBVIOUS
      <4> QED
        BY <2>1, <2>3, <3>1, <4>1 DEF MakeUser
    <3>3. cause' \subseteq {"bmc_in_exit"}
      BY <2>3 DEF MakeUser, InExit
    <3> QED
      BY <1>11, <2>1, <3>2, <3>3 DEF CreateUser
  <2> QED
    BY <1>11, <2>2, <2>3 DEF CreateUser
<1>12. CASE Loaded
  BY <1>12 DEF Loaded
<1>13. CASE TakeUser
  <2>1. muser' \in 0 .. MaxBmc /\ user' \in [Group -> 0 .. MaxBmc]
    BY <1>13 DEF TakeUser
  <2> QED
    BY <1>13, <2>1 DEF TakeUser
<1>14. CASE DestroyUser
  <2>1. mg + 1 \in 1 .. NGroup + 1
    BY <1>14 DEF DestroyUser, Group
  <2>2. DOMAIN pending' = Group /\ \A g \in Group : pending'[g] \in [Sensor(g) -> Seq(1 .. MaxEra)]
    <3>1. [s \in Sensor(mg) |-> <<>>] \in [Sensor(mg) -> Seq(1 .. MaxEra)]
      OBVIOUS
    <3> QED
      BY <1>14, <3>1 DEF DestroyUser, NoRequests
  <2>3. users' \subseteq Group \X (1 .. MaxBmc) /\ muser' \in 0 .. MaxBmc
    BY <1>14 DEF DestroyUser
  <2> QED
    BY <1>14, <2>1, <2>2, <2>3 DEF DestroyUser
<1>15. CASE WatcherUnregister
  BY <1>15 DEF WatcherUnregister
<1> QED
  BY <1>1, <1>2, <1>3, <1>4, <1>5, <1>6, <1>8, <1>9, <1>10, <1>11, <1>12, <1>13, <1>14, <1>15,
     <1>16 DEF Next, Thread, Layer, Module

(* Every variable keeps to its type; so no thread reads past a group.      *)
THEOREM TypeCorrect == Spec => []TypeOK
<1>1. TypeOK /\ UNCHANGED vars => TypeOK'
  BY DEF TypeOK, vars, module, layer, node, readings
<1>2. TypeOK /\ [Next]_vars => TypeOK'
  BY <1>1, TypeStep
<1> QED
  BY InitType, <1>2, PTL DEF Spec
-----------------------------------------------------------------------------
(* The word: what a sample prints for a sensor is a reading it had.         *)

LEMMA Division ==
  ASSUME NEW D \in Nat \ {0}, NEW w \in Nat
  PROVE  /\ w \div D \in Nat /\ w % D \in Nat /\ w % D < D
         /\ w = (D * (w \div D)) + (w % D)
  OBVIOUS

LEMMA DivisionUnique ==
  ASSUME NEW D \in Nat \ {0}, NEW q \in Nat, NEW r \in Nat, r < D
  PROVE  (D * q + r) \div D = q /\ (D * q + r) % D = r
  OBVIOUS

LEMMA NextMultiple ==
  ASSUME NEW a \in Nat, NEW b \in Nat, NEW c \in Nat, a < b, c > 0
  PROVE  c * a + c <= c * b
  OBVIOUS

(* A word w that is moved up by a byte and takes v in its lowest one: the  *)
(* bytes of w, which P counts, are found one place higher.                 *)
LEMMA MovedUp ==
  ASSUME NEW B \in Nat \ {0}, NEW P \in Nat \ {0}, NEW w \in Nat, NEW v \in 0 .. B - 1
  PROVE  /\ (w * B + v) % B = v
         /\ (w * B + v) \div (B * P) = w \div P
         /\ w < P => w * B + v < B * P
<1>1. (w * B + v) % B = v
  BY DivisionUnique
<1> DEFINE q == w \div P
           r == w % P
<1>2. q \in Nat /\ r \in Nat /\ r < P /\ w = (P * q) + r
  BY Division
<1> HIDE DEF q, r
<1>3. B * P \in Nat \ {0} /\ B * r \in Nat
  BY <1>2
<1>4. B * r + v < B * P
  BY <1>2, NextMultiple
<1>5. w * B + v = ((B * P) * q) + (B * r + v)
  BY <1>2
<1>6. (w * B + v) \div (B * P) = q
  BY <1>2, <1>3, <1>4, <1>5, DivisionUnique
<1>7. w < P => w * B + v < B * P
  BY NextMultiple
<1> QED
  BY <1>1, <1>6, <1>7 DEF q

(* WordSoFar of a word, a group, the first sensor asked, and what the      *)
(* sensors may show.                                                       *)
WordIs(w, g, first, cur) ==
  /\ w < Place(Sensors[g] - first)
  /\ \A s \in first .. Sensors[g] - 1 : (w \div Place(s - first)) % BYTE \in cur[s]

(* None of the group's readings became older since the sample began.       *)
Ordered(n) == \A s \in Sensor(group[n]) : fresh[n][s] <= answered[group[n]][s]

(* Eras are numbers.                                                       *)
LEMMA EraType ==
  ASSUME TypeOK, NEW n \in Node, NEW g \in Group, NEW s \in Sensor(g)
  PROVE  /\ answered[g][s] \in 0 .. MaxEra /\ answered[g][s] \in Int
         /\ fresh[n][s] \in 0 .. MaxEra /\ fresh[n][s] \in Int
         /\ sensor_reading[g][s] \in Reading
<1>1. s \in 0 .. BYTES - 1
  BY SensorFacts
<1>2. /\ answered[g] \in [Sensor(g) -> 0 .. MaxEra]
      /\ sensor_reading[g] \in [Sensor(g) -> Reading]
      /\ fresh[n] \in [0 .. BYTES - 1 -> 0 .. MaxEra]
  BY DEF TypeOK
<1>3. \A e \in 0 .. MaxEra : e \in Int
  OBVIOUS
<1> QED
  BY <1>1, <1>2, <1>3, Zenon

LEMMA WordSoFarIs ==
  ASSUME NEW n \in Node
  PROVE  WordSoFar(n) <=> WordIs(ret[n], group[n], First(n), Shown(n)) /\ Ordered(n)
  BY DEF WordSoFar, WordIs, Ordered

(* One sensor more, from the last to the first.                            *)
LEMMA OneMore ==
  ASSUME NEW w \in Nat, NEW g \in Group, NEW s \in Sensor(g),
         NEW v \in Reading, NEW cur, v \in cur[s],
         WordIs(w, g, s + 1, cur)
  PROVE  WordIs((IF s # Sensors[g] - 1 THEN ShiftedUp(w) ELSE w) + v, g, s, cur)
<1> DEFINE S == Sensors[g]
           m == S - (s + 1)
           P == Place(m)
           moved == IF s # S - 1 THEN ShiftedUp(w) ELSE w
<1>1. /\ S \in Nat \ {0} /\ S <= BYTES /\ s \in 0 .. S - 1
      /\ BYTE \in Nat \ {0} /\ BYTES \in Nat
      /\ v \in 0 .. BYTE - 1
  BY SensorFacts, IpmiAssumption DEF Sensor, Reading
<1>2. m \in 0 .. BYTES - 1 /\ m \in 0 .. BYTES /\ m + 1 \in 0 .. BYTES /\ m + 1 = S - s
  BY <1>1
<1>3. /\ P \in Nat \ {0} /\ w < P
      /\ Place(S - s) = BYTE * P
      /\ BYTE * P <= WORD /\ WORD \in Nat \ {0}
  <2>1. P \in Nat \ {0} /\ Place(m + 1) = BYTE * P /\ Place(m + 1) <= Place(BYTES)
    BY <1>2, PlaceAssumption
  <2>2. w < P
    BY DEF WordIs
  <2> QED
    BY <1>2, <2>1, <2>2, WordFacts DEF WORD
<1>4. moved = w * BYTE
  <2>1. CASE s = S - 1
    <3>1. m = 0
      BY <1>1, <2>1
    <3>2. w = 0
      BY <1>3, <3>1, PlaceAssumption
    <3> QED
      BY <1>1, <2>1, <3>2
  <2>2. CASE s # S - 1
    <3>1. 0 \in 0 .. BYTE - 1
      BY <1>1
    <3>2. w * BYTE + 0 < BYTE * P
      BY <1>1, <1>3, <3>1, MovedUp
    <3>3. w * BYTE \in Nat /\ w * BYTE < WORD
      BY <1>1, <1>3, <3>2
    <3>4. (w * BYTE) % WORD = w * BYTE
      BY <1>3, <3>3
    <3> QED
      BY <2>2, <3>4 DEF ShiftedUp
  <2> QED
    BY <2>1, <2>2
<1>5. moved + v < Place(S - s)
  <2> HIDE DEF moved, P, m, S
  <2>1. w * BYTE + v < BYTE * P
    BY <1>1, <1>3, MovedUp
  <2> QED
    BY <1>3, <1>4, <2>1
<1>6. ASSUME NEW t \in s .. S - 1
      PROVE  ((moved + v) \div Place(t - s)) % BYTE \in cur[t]
  <2>1. CASE t = s
    <3>1. Place(t - s) = 1
      BY <1>1, <2>1, PlaceAssumption
    <3>2. moved + v \in Nat /\ (moved + v) \div 1 = moved + v
      BY <1>1, <1>4
    <3>3. (moved + v) % BYTE = v
      <4> HIDE DEF moved, P, m, S
      <4>1. (w * BYTE + v) % BYTE = v
        BY <1>1, <1>3, MovedUp
      <4> QED
        BY <1>4, <4>1
    <3> QED
      BY <2>1, <3>1, <3>2, <3>3
  <2>2. CASE t # s
    <3> DEFINE k == t - (s + 1)
               Q == Place(k)
    <3>1. k \in 0 .. BYTES - 1 /\ k \in 0 .. BYTES /\ k + 1 = t - s /\ t \in s + 1 .. S - 1
      BY <1>1, <2>2
    <3>2. Q \in Nat \ {0} /\ Place(t - s) = BYTE * Q
      <4>1. Q \in Nat \ {0} /\ Place(k + 1) = BYTE * Q
        BY <3>1, PlaceAssumption
      <4> QED
        BY <3>1, <4>1
    <3> HIDE DEF k
    <3>3. (moved + v) \div (BYTE * Q) = w \div Q
      <4> HIDE DEF moved, Q, S
      <4>1. Q \in Nat \ {0} /\ BYTE \in Nat \ {0} /\ w \in Nat /\ v \in 0 .. BYTE - 1
        BY <1>1, <3>2
      <4>2. (w * BYTE + v) \div (BYTE * Q) = w \div Q
        BY <4>1, MovedUp, Zenon
      <4> QED
        BY <1>4, <4>2
    <3>4. (w \div Q) % BYTE \in cur[t]
      BY <3>1 DEF WordIs, k
    <3> QED
      BY <3>2, <3>3, <3>4
  <2> QED
    BY <2>1, <2>2
<1> QED
  BY <1>5, <1>6 DEF WordIs

(* A thread whose word, sensor and group stay, while no answer of its group*)
(* gives way to an older one.                                              *)
LEMMA WordKept ==
  ASSUME TypeOK, TypeOK', WordInv, NEW n \in Node, npc[n] # "idle",
         ret'[n] = ret[n], First(n)' = First(n), group'[n] = group[n], fresh'[n] = fresh[n],
         \A s \in Sensor(group[n]) : answered[group[n]][s] <= answered'[group[n]][s]
  PROVE  WordSoFar(n)'
<1>1. group[n] \in Group /\ i[n] \in Sensor(group[n]) /\ WordSoFar(n)
  BY DEF TypeOK, WordInv
<1>2. First(n) .. Sensors[group[n]] - 1 \subseteq Sensor(group[n])
  BY <1>1, SensorFacts DEF First, Sensor
<1>3. ASSUME NEW s \in Sensor(group[n])
      PROVE  /\ Shown(n)[s] \subseteq Shown(n)'[s]
             /\ fresh'[n][s] <= answered'[group'[n]][s]
  <2>1. /\ s \in 0 .. BYTES - 1 /\ fresh[n][s] \in Int
        /\ answered[group[n]][s] \in Int /\ answered'[group[n]][s] \in Int
    <3>1. s \in 0 .. BYTES - 1
      BY <1>1, SensorFacts
    <3>2. answered'[group[n]] \in [Sensor(group[n]) -> 0 .. MaxEra]
      BY <1>1 DEF TypeOK
    <3>3. \A e \in 0 .. MaxEra : e \in Int
      OBVIOUS
    <3>4. answered'[group[n]][s] \in 0 .. MaxEra
      BY <3>2, Zenon
    <3>5. answered[group[n]][s] \in Int /\ fresh[n][s] \in Int
      BY <1>1, EraType
    <3> QED
      BY <3>1, <3>3, <3>4, <3>5
  <2>2. fresh[n][s] <= answered[group[n]][s] /\ answered[group[n]][s] <= answered'[group[n]][s]
    BY <1>1 DEF WordSoFar
  <2>3. fresh[n][s] .. answered[group[n]][s] \subseteq fresh[n][s] .. answered'[group[n]][s]
    BY <2>1, <2>2
  <2>4. Shown(n)[s] = {Value(group[n], s, e) : e \in fresh[n][s] .. answered[group[n]][s]}
    BY DEF Shown
  <2>5. Shown(n)'[s] = {Value(group[n], s, e) : e \in fresh[n][s] .. answered'[group[n]][s]}
    BY DEF Shown, Value
  <2> QED
    BY <2>1, <2>2, <2>3, <2>4, <2>5
<1>4. ASSUME NEW s \in First(n) .. Sensors[group[n]] - 1
      PROVE  (ret[n] \div Place(s - First(n))) % BYTE \in Shown(n)'[s]
  BY <1>1, <1>2, <1>3 DEF WordSoFar
<1>5. WordSoFar(n)' <=> /\ ret'[n] < Place(Sensors[group'[n]] - First(n)')
                        /\ \A s \in First(n)' .. Sensors[group'[n]] - 1 :
                             (ret'[n] \div Place(s - First(n)')) % BYTE \in Shown(n)'[s]
                        /\ \A s \in Sensor(group'[n]) : fresh'[n][s] <= answered'[group'[n]][s]
  BY DEF WordSoFar
<1> QED
  BY <1>1, <1>3, <1>4, <1>5 DEF WordSoFar

(* Only an answer changes a reading.                                       *)
ReadingsAre ==
  \A g \in Group : \A s \in Sensor(g) : sensor_reading[g][s] = Value(g, s, answered[g][s])

LEMMA ReadingsStep ==
  ASSUME TypeOK, TypeOK', ReadingsAre, [Next]_vars
  PROVE  /\ ReadingsAre'
         /\ \A g \in Group : \A s \in Sensor(g) : answered[g][s] <= answered'[g][s]
<1>1. ASSUME UNCHANGED <<sensor_reading, answered>>
      PROVE  /\ ReadingsAre'
             /\ \A g \in Group : \A s \in Sensor(g) : answered[g][s] <= answered'[g][s]
  <2>1. \A g \in Group : \A s \in Sensor(g) : answered[g][s] \in Int
    BY DEF TypeOK
  <2> QED
    BY <1>1, <2>1 DEF ReadingsAre, Value
<1>2. ASSUME NEW h \in Group, NEW t \in Sensor(h), Reply(h, t)
      PROVE  /\ ReadingsAre'
             /\ \A g \in Group : \A s \in Sensor(g) : answered[g][s] <= answered'[g][s]
  <2>1. PICK e \in Head(pending[h][t]) .. era :
          /\ e >= answered[h][t]
          /\ answered' = [answered EXCEPT ![h][t] = e]
          /\ sensor_reading' = [sensor_reading EXCEPT ![h][t] = Value(h, t, e)]
    BY <1>2 DEF Reply
  <2>2. /\ DOMAIN answered = Group /\ DOMAIN sensor_reading = Group
        /\ \A g \in Group : /\ answered[g] \in [Sensor(g) -> 0 .. MaxEra]
                            /\ sensor_reading[g] \in [Sensor(g) -> Reading]
    BY DEF TypeOK
  <2>3. ASSUME NEW g \in Group, NEW s \in Sensor(g)
        PROVE  /\ sensor_reading'[g][s] = Value(g, s, answered'[g][s])
               /\ answered[g][s] <= answered'[g][s]
    <3>1. answered[g][s] \in Int
      BY <2>2
    <3>2. CASE g = h /\ s = t
      <4>1. answered'[g][s] = e /\ sensor_reading'[g][s] = Value(g, s, e)
        BY <2>1, <2>2, <3>2
      <4> QED
        BY <2>1, <3>1, <3>2, <4>1
    <3>3. CASE ~(g = h /\ s = t)
      <4>1. answered'[g][s] = answered[g][s] /\ sensor_reading'[g][s] = sensor_reading[g][s]
        BY <2>1, <2>2, <3>3
      <4> QED
        BY <3>1, <4>1 DEF ReadingsAre
    <3> QED
      BY <3>2, <3>3
  <2>4. ReadingsAre' <=> \A g \in Group : \A s \in Sensor(g) :
                           sensor_reading'[g][s] = Value(g, s, answered'[g][s])
    BY DEF ReadingsAre, Value
  <2> QED
    BY <2>3, <2>4
<1>3. ASSUME NEW n \in Node, Thread(n)
      PROVE  UNCHANGED <<sensor_reading, answered>>
  BY <1>3 DEF Thread, Restart, Request, Or, AfterOr, Finish, readings
<1>4. ASSUME NEW g \in Group, NEW s \in Sensor(g), ReplyError(g, s)
      PROVE  UNCHANGED <<sensor_reading, answered>>
  BY <1>4 DEF ReplyError, readings
<1>5. ASSUME BmcComes \/ BmcGone \/ Change \/ Module \/ UNCHANGED vars
      PROVE  UNCHANGED <<sensor_reading, answered>>
  BY <1>5
     DEF BmcComes, BmcGone, Change, Module, WatcherRegister, CreateUser, Loaded, TakeUser,
         DestroyUser, WatcherUnregister, vars, readings
<1> QED
  BY <1>1, <1>2, <1>3, <1>4, <1>5 DEF Next, Layer

LEMMA WordStep ==
  ASSUME TypeOK, TypeOK', WordInv, [Next]_vars
  PROVE  WordInv'
<1>0. /\ ReadingsAre'
      /\ \A g \in Group : \A s \in Sensor(g) : answered[g][s] <= answered'[g][s]
  BY ReadingsStep DEF WordInv, ReadingsAre
<1> SUFFICES ASSUME NEW n \in Node, npc'[n] # "idle"
             PROVE  WordSoFar(n)'
  BY <1>0 DEF WordInv, ReadingsAre
<1>1. ASSUME npc[n] # "idle"
      PROVE  /\ group[n] \in Group /\ i[n] \in Sensor(group[n]) /\ WordSoFar(n)
             /\ \A s \in Sensor(group[n]) : answered[group[n]][s] <= answered'[group[n]][s]
  BY <1>0, <1>1 DEF TypeOK, WordInv
<1>2. ASSUME UNCHANGED <<node, fresh>>
      PROVE  WordSoFar(n)'
  BY <1>1, <1>2, WordKept DEF node, First
<1>3. ASSUME NEW m \in Node, m # n, Thread(m)
      PROVE  WordSoFar(n)'
  <2>1. /\ npc'[n] = npc[n] /\ group'[n] = group[n] /\ i'[n] = i[n] /\ ret'[n] = ret[n]
        /\ fresh'[n] = fresh[n]
    <3>1. CASE \E g \in Group : Restart(m, g)
      BY <1>3, <3>1 DEF Restart, TypeOK
    <3>2. CASE Request(m)
      BY <1>3, <3>2 DEF Request, readings, TypeOK
    <3>3. CASE Or(m)
      BY <1>3, <3>3 DEF Or, AfterOr, readings, TypeOK
    <3>4. CASE Finish(m)
      BY <1>3, <3>4 DEF Finish, TypeOK
    <3> QED
      BY <1>3, <3>1, <3>2, <3>3, <3>4 DEF Thread
  <2> QED
    BY <1>1, <2>1, WordKept DEF First
<1>4. ASSUME NEW g \in Group, Restart(n, g)
      PROVE  WordSoFar(n)'
  <2>1. /\ npc'[n] = "request" /\ group'[n] = g /\ i'[n] = Sensors[g] - 1 /\ ret'[n] = 0
        /\ answered' = answered
        /\ fresh'[n] = [s \in 0 .. BYTES - 1 |-> IF s \in Sensor(g) THEN answered[g][s] ELSE 0]
    BY <1>4 DEF Restart, TypeOK
  <2>2. First(n)' = Sensors[g] /\ Sensors[g] \in Nat
    BY <2>1, SensorFacts DEF First
  <2>3. ret'[n] < Place(Sensors[group'[n]] - First(n)')
    BY <2>1, <2>2, PlaceAssumption
  <2>4. \A s \in First(n)' .. Sensors[group'[n]] - 1 : FALSE
    BY <2>1, <2>2
  <2>5. ASSUME NEW s \in Sensor(g)
        PROVE  fresh'[n][s] <= answered'[g][s]
    <3>1. s \in 0 .. BYTES - 1 /\ answered[g][s] \in Int
      BY SensorFacts DEF TypeOK
    <3> QED
      BY <2>1, <3>1
  <2> QED
    BY <2>1, <2>3, <2>4, <2>5 DEF WordSoFar
<1>5. ASSUME Request(n)
      PROVE  WordSoFar(n)'
  <2>1. /\ npc[n] = "request" /\ npc'[n] = "or"
        /\ UNCHANGED <<group, i, ret, fresh>>
    BY <1>5 DEF Request, TypeOK, readings
  <2> QED
    BY <1>1, <2>1, WordKept DEF First
<1>6. ASSUME Or(n)
      PROVE  WordSoFar(n)'
  <2> DEFINE g == group[n]
             s == i[n]
             v == sensor_reading[g][s]
  <2>1. /\ npc[n] = "or"
        /\ ret'[n] = (IF s # Sensors[g] - 1 THEN ShiftedUp(ret[n]) ELSE ret[n]) + v
        /\ UNCHANGED <<group, answered, fresh>>
    BY <1>6 DEF Or, AfterOr, TypeOK, readings
  <2>2. g \in Group /\ s \in Sensor(g) /\ WordSoFar(n) /\ ret[n] \in Nat
    BY <1>1, <2>1 DEF TypeOK
  <2>3. First(n) = s + 1 /\ First(n)' = s
    <3>1. s > 0 => npc'[n] = "request" /\ i'[n] = s - 1
      BY <1>6 DEF Or, AfterOr, TypeOK
    <3>2. ~(s > 0) => npc'[n] = "done"
      BY <1>6 DEF Or, AfterOr, TypeOK
    <3>3. s \in Nat
      BY <2>2, SensorFacts DEF Sensor
    <3> QED
      BY <2>1, <3>1, <3>2, <3>3 DEF First
  <2>4. v \in Reading /\ v \in Shown(n)[s]
    <3>1. v \in Reading /\ answered[g][s] \in Int /\ fresh[n][s] \in Int
      BY <2>2, EraType
    <3>2. v = Value(g, s, answered[g][s]) /\ fresh[n][s] <= answered[g][s]
      BY <2>2 DEF WordInv, WordSoFar
    <3>3. answered[g][s] \in fresh[n][s] .. answered[g][s]
      BY <3>1, <3>2
    <3> QED
      BY <2>2, <3>1, <3>2, <3>3 DEF Shown
  <2>5. WordIs(ret[n], g, s + 1, Shown(n)) /\ Ordered(n)
    BY <2>2, <2>3, WordSoFarIs
  <2>6. WordIs(ret'[n], g, s, Shown(n))
    <3> HIDE DEF g, s, v
    <3> QED
      BY <2>1, <2>2, <2>4, <2>5, OneMore
  <2>7. Shown(n)' = Shown(n)
    BY <2>1 DEF Shown, Value
  <2>8. WordSoFar(n)' <=> /\ ret'[n] < Place(Sensors[group'[n]] - First(n)')
                          /\ \A t \in First(n)' .. Sensors[group'[n]] - 1 :
                               (ret'[n] \div Place(t - First(n)')) % BYTE \in Shown(n)'[t]
                          /\ \A t \in Sensor(group'[n]) : fresh'[n][t] <= answered'[group'[n]][t]
    BY DEF WordSoFar
  <2> QED
    BY <2>1, <2>3, <2>5, <2>6, <2>7, <2>8 DEF WordIs, Ordered
<1>7. ASSUME Finish(n)
      PROVE  WordSoFar(n)'
  BY <1>7 DEF Finish, TypeOK
<1>8. ASSUME BmcComes \/ BmcGone \/ Change \/ Module \/ UNCHANGED vars
             \/ \E g \in Group : \E s \in Sensor(g) : Reply(g, s) \/ ReplyError(g, s)
      PROVE  WordSoFar(n)'
  BY <1>2, <1>8
     DEF BmcComes, BmcGone, Change, Module, WatcherRegister, CreateUser, Loaded, TakeUser,
         DestroyUser, WatcherUnregister, Reply, ReplyError, vars, node, readings
<1> QED
  BY <1>3, <1>4, <1>5, <1>6, <1>7, <1>8 DEF Next, Thread, Layer

(* What a sample prints for a sensor is what the BMC measured for the      *)
(* number of that sensor, and no older than the last answer that had come  *)
(* when the sample began, for any number of threads that share the groups, *)
(* and in whatever order the replies for different sensors come.           *)
THEOREM SamplesShowAnswers == Spec => []SampleShowsAnswers
<1>1. Init => WordInv
  <2>1. Init => \A n \in Node : npc[n] = "idle"
    BY DEF Init
  <2>2. ASSUME Init, NEW g \in Group, NEW s \in Sensor(g)
        PROVE  sensor_reading[g][s] = Value(g, s, answered[g][s])
    BY <2>2 DEF Init, Value
  <2> QED
    BY <2>1, <2>2 DEF WordInv
<1>2. TypeOK /\ WordInv => SampleShowsAnswers
  <2> SUFFICES ASSUME TypeOK, WordInv, NEW n \in Node, npc[n] = "done", NEW s \in Sensor(group[n])
               PROVE  \E e \in fresh[n][s] .. answered[group[n]][s] :
                        Printed(ret[n], s) = (Value(group[n], s, e) + Base) * Mul
    BY DEF SampleShowsAnswers
  <2>1. WordSoFar(n) /\ First(n) = 0
    BY DEF WordInv, First
  <2>2. group[n] \in Group
    BY DEF TypeOK
  <2>3. s \in 0 .. Sensors[group[n]] - 1 /\ s - 0 = s
    BY <2>2, SensorFacts DEF Sensor
  <2>4. (ret[n] \div Place(s)) % BYTE \in Shown(n)[s]
    BY <2>1, <2>3 DEF WordSoFar
  <2>5. PICK e \in fresh[n][s] .. answered[group[n]][s] :
          (ret[n] \div Place(s)) % BYTE = Value(group[n], s, e)
    BY <2>4 DEF Shown
  <2> QED
    BY <2>5 DEF Printed
<1>3. TypeOK /\ TypeOK' /\ WordInv /\ [Next]_vars => WordInv'
  BY WordStep
<1>4. Spec => []WordInv
  BY TypeCorrect, <1>1, <1>3, PTL DEF Spec
<1> QED
  BY TypeCorrect, <1>2, <1>4, PTL
=============================================================================
