-------------------------- MODULE VescDriverProofs --------------------------
(***************************************************************************)
(* Proofs about VescDriver, for every firmware version, every setting of   *)
(* the parameters, every command, and any number of requests on the line:  *)
(* the node uses its VescInterface as VescInterface specifies, so what is  *)
(* proved there holds of the node's vesc_.                                 *)
(***************************************************************************)
EXTENDS VescDriver, VescInterfaceProofs

-----------------------------------------------------------------------------
(* CommandLimit, for every setting of the parameters and every command, NaN *)
(* included.                                                                *)

(* The range lo..hi a caller passes is not empty.                           *)
Sane(lo, hi) ==
    lo # None /\ hi # None => lo <= hi

(* A parameter is a double once it has been declared.                       *)
LEMMA DeclaredIsDouble ==
    ASSUME NEW p \in Optional
    PROVE  declare_parameter(p) \in Double
BY DEF declare_parameter, Optional, Double

(* Feasible yields a value the VESC can do.                                 *)
LEMMA FeasibleIsFeasible ==
    ASSUME NEW p \in Double, NEW lo \in Bounds, NEW hi \in Bounds, Sane(lo, hi)
    PROVE  /\ Feasible(p, lo, hi) \in Double
           /\ IsFeasible(lo, Feasible(p, lo, hi), hi)
BY CommandLimitAssumption
   DEF Feasible, IsFeasible, Less, Double, Bounds, Sane

(* The constructor leaves limits in order, whatever the user has set, and    *)
(* both of them feasible (LimitsSound for every input).                     *)
THEOREM LimitsAreSound ==
    ASSUME NEW low \in Optional, NEW high \in Optional,
           NEW lo \in Bounds, NEW hi \in Bounds, Sane(lo, hi)
    PROVE  LET limits == Limits(low, high, lo, hi) IN
           /\ limits \in [lower : Double, upper : Double]
           /\ ~Less(limits.upper, limits.lower)
           /\ IsFeasible(lo, limits.lower, hi)
           /\ IsFeasible(lo, limits.upper, hi)
<1> DEFINE a == Feasible(declare_parameter(low), lo, hi)
           b == Feasible(declare_parameter(high), lo, hi)
<1>1. /\ a \in Double /\ IsFeasible(lo, a, hi)
      /\ b \in Double /\ IsFeasible(lo, b, hi)
      BY DeclaredIsDouble, FeasibleIsFeasible
<1> HIDE DEF a, b
<1>2. /\ InOrder(a, b) \in [lower : Double, upper : Double]
      /\ ~Less(InOrder(a, b).upper, InOrder(a, b).lower)
      /\ IsFeasible(lo, InOrder(a, b).lower, hi)
      /\ IsFeasible(lo, InOrder(a, b).upper, hi)
  <2>1. CASE Less(b, a)
    <3>1. InOrder(a, b) = [lower |-> b, upper |-> a]
          BY <2>1 DEF InOrder
    <3>2. ~Less(a, b)
          BY <2>1, <1>1, CommandLimitAssumption DEF Less, Double
    <3> QED BY <1>1, <3>1, <3>2
  <2>2. CASE ~Less(b, a)
    <3>1. InOrder(a, b) = [lower |-> a, upper |-> b]
          BY <2>2 DEF InOrder
    <3> QED BY <1>1, <2>2, <3>1
  <2> QED BY <2>1, <2>2
<1> QED BY <1>2 DEF Limits, a, b

(* A clipped command is a double within the limits.                         *)
THEOREM ClipIsBetween ==
    ASSUME NEW limits \in [lower : Double, upper : Double], NEW v \in Double,
           ~Less(limits.upper, limits.lower)
    PROVE  /\ clip(limits, v) \in Double
           /\ Between(limits.lower, clip(limits, v), limits.upper)
<1>1. limits.lower \in Double /\ limits.upper \in Double
      OBVIOUS
<1> QED BY <1>1, CommandLimitAssumption DEF clip, Between, Less, Double

(* Clipping keeps the order of two commands.                                *)
THEOREM ClipKeepsOrder ==
    ASSUME NEW limits \in [lower : Double, upper : Double],
           NEW v \in Double, NEW w \in Double,
           ~Less(limits.upper, limits.lower), Less(v, w)
    PROVE  ~Less(clip(limits, w), clip(limits, v))
<1>1. limits.lower \in Double /\ limits.upper \in Double
      OBVIOUS
<1> QED BY <1>1, CommandLimitAssumption DEF clip, Less, Double

-----------------------------------------------------------------------------
(* The limits of the node's topics.                                         *)

(* The limits of a command topic are limits in order.                       *)
LEMMA LimitIsSound ==
    ASSUME NEW k \in Kinds
    PROVE  /\ limit(k) \in [lower : Double, upper : Double]
           /\ ~Less(limit(k).upper, limit(k).lower)
<1>1. /\ min_lower[k] \in Bounds /\ max_upper[k] \in Bounds
      /\ Sane(min_lower[k], max_upper[k])
      BY CommandLimitAssumption DEF min_lower, max_upper, Bounds, Sane, Kinds
<1>2. param_min[k] \in Optional /\ param_max[k] \in Optional
      BY DriverAssumption
<1> QED BY <1>1, <1>2, LimitsAreSound DEF limit

(* What the user has set to numbers stays a number.                         *)
LEMMA LimitIsNumber ==
    ASSUME NEW k \in Kinds, param_min[k] # NaN, param_max[k] # NaN
    PROVE  limit(k).lower # NaN /\ limit(k).upper # NaN
<1> DEFINE lo == min_lower[k]
           hi == max_upper[k]
           a == Feasible(declare_parameter(param_min[k]), lo, hi)
           b == Feasible(declare_parameter(param_max[k]), lo, hi)
<1>1. lo \in Bounds /\ hi \in Bounds
      BY CommandLimitAssumption DEF min_lower, max_upper, Bounds, Kinds
<1>2. a # NaN /\ b # NaN
      BY <1>1, CommandLimitAssumption DEF Feasible, declare_parameter, Bounds
<1> HIDE DEF a, b
<1>3. InOrder(a, b).lower # NaN /\ InOrder(a, b).upper # NaN
  <2>1. CASE Less(b, a) BY <1>2, <2>1 DEF InOrder
  <2>2. CASE ~Less(b, a) BY <1>2, <2>2 DEF InOrder
  <2> QED BY <2>1, <2>2
<1> QED BY <1>3 DEF limit, Limits, a, b

(* What a command callback sends is a double within the limits, and what    *)
(* the VESC can do when the limits are numbers.                             *)
LEMMA ClippedIsBetween ==
    ASSUME NEW k \in Kinds, NEW v \in Commands
    PROVE  /\ clip(limit(k), v) \in Double
           /\ Between(limit(k).lower, clip(limit(k), v), limit(k).upper)
           /\ param_min[k] # NaN /\ param_max[k] # NaN =>
                 IsFeasible(min_lower[k], clip(limit(k), v), max_upper[k])
<1> DEFINE lo == min_lower[k]
           hi == max_upper[k]
           c == clip(limit(k), v)
           lower == limit(k).lower
           upper == limit(k).upper
<1>1. c \in Double /\ Between(lower, c, upper)
      BY LimitIsSound, ClipIsBetween, DriverAssumption
<1>2. /\ lo \in Bounds /\ hi \in Bounds
      /\ Sane(lo, hi)
      BY CommandLimitAssumption DEF min_lower, max_upper, Bounds, Sane, Kinds
<1>3. param_min[k] \in Optional /\ param_max[k] \in Optional
      BY DriverAssumption
<1>4. /\ lower \in Double /\ upper \in Double
      /\ IsFeasible(lo, lower, hi) /\ IsFeasible(lo, upper, hi)
      BY <1>2, <1>3, LimitsAreSound DEF limit
<1>5. param_min[k] # NaN /\ param_max[k] # NaN => lower # NaN /\ upper # NaN
      BY LimitIsNumber
<1> HIDE DEF lo, hi, c, lower, upper
<1>6. lower # NaN /\ upper # NaN => IsFeasible(lo, c, hi)
      BY <1>1, <1>2, <1>4, CommandLimitAssumption
         DEF Between, IsFeasible, Less, Double, Bounds
<1> QED BY <1>1, <1>5, <1>6 DEF lo, hi, c, lower, upper

(* It is the command or one of the limits.                                  *)
LEMMA ClippedIsPassed ==
    ASSUME NEW k \in Kinds, NEW v \in Commands
    PROVE  clip(limit(k), v) \in Commands \cup {limit(k).lower, limit(k).upper}
BY DEF clip

(* A command that is sent so is one that CommandWithinLimits permits.       *)
LEMMA SentWithinLimits ==
    ASSUME NEW k \in Kinds, NEW v \in Commands, NEW c, NEW sensor,
           c = [kind |-> k, value |-> IF k = "position" THEN Degrees(clip(limit(k), v))
                                      ELSE clip(limit(k), v)],
           k = "servo" => sensor = c.value
    PROVE  /\ \E w \in Passed(c) :
                 /\ param_min[c.kind] # NaN /\ param_max[c.kind] # NaN =>
                        IsFeasible(min_lower[c.kind], w, max_upper[c.kind])
                 /\ param_min[c.kind] # None /\ param_max[c.kind] # None =>
                        Between(limit(c.kind).lower, w, limit(c.kind).upper)
           /\ c.kind = "servo" => sensor = c.value
<1> DEFINE w == clip(limit(k), v)
<1>1. /\ Between(limit(k).lower, w, limit(k).upper)
      /\ param_min[k] # NaN /\ param_max[k] # NaN => IsFeasible(min_lower[k], w, max_upper[k])
      BY ClippedIsBetween
<1>2. w \in Commands \cup {limit(k).lower, limit(k).upper}
      BY ClippedIsPassed
<1> HIDE DEF w
<1>3. c.kind = k /\ c.value = IF k = "position" THEN Degrees(w) ELSE w
      BY DEF w
<1>4. w \in Passed(c)
      BY <1>2, <1>3 DEF Passed
<1> QED BY <1>1, <1>3, <1>4

-----------------------------------------------------------------------------
\* The version numbers are unset or the VESC's, and major comes first.
VersionStored ==
    /\ fw_version_major_ \in {-1, Firmware[1]}
    /\ fw_version_minor_ \in {-1, Firmware[2]}
    /\ callback = "minor" \/ fw_version_minor_ # -1 => fw_version_major_ = Firmware[1]
    /\ timer = "minor" => fw_version_major_ = Firmware[1]

\* The driver operates once it has announced the VESC's version.
Operating ==
    /\ driver_mode_ = "OPERATING" => announced = Firmware /\ version = Firmware
    /\ driver_mode_ = "INITIALIZING" => announced = None /\ timer # "imu"

\* The constructor has finished before a callback of the executor runs.
Constructed ==
    /\ driver_mode_ = "OPERATING" \/ timer # "idle" =>
          phase \notin {"connect", "publishers", "subscriptions"}
    /\ timer # "idle" => phase = "spin"
    /\ phase \in {"subscriptions", "spin"} => publishers

\* Commands are sent in OPERATING only, and clipped.
Commanded ==
    /\ command # None => driver_mode_ = "OPERATING"
    /\ CommandWithinLimits

NodeIInv ==
    /\ IInv
    /\ NodeTypeOK
    /\ VersionStored
    /\ Operating
    /\ Constructed
    /\ Commanded

(* The version numbers are bytes.                                           *)
LEMMA FirmwareType ==
    /\ Firmware[1] \in 0..255 /\ Firmware[2] \in 0..255
    /\ Firmware = <<Firmware[1], Firmware[2]>>
    /\ Firmware \in (0..255) \X (0..255)
    /\ Firmware # None
BY DriverAssumption

-----------------------------------------------------------------------------
(* A step of the node is a step of the interface or leaves it alone.        *)
LEMMA NodeStepOfInterface == [NodeNext]_allVars => [LossyNext]_vars
<1> SUFFICES ASSUME NodeNext PROVE [LossyNext]_vars
    BY DEF allVars, vars
<1> USE DriverAssumption DEF LossyNext, Next, Client, InCall, Packets
<1>1. CASE Constructor
      BY <1>1 DEF Constructor, Connect, ConnectThrows, CreatePublishers,
                  CreateSubscriptionsAndTimer
<1>2. CASE timerCallback
      BY <1>2 DEF timerCallback, TimerFindsNoConnection, TimerRequestsVersion,
                  TimerTestsMajor, TimerTestsMinor, TimerPollsState, TimerPollsImu
<1>3. CASE commandCallback \/ StopSpinning
      BY <1>3 DEF commandCallback, servoCallback, motorCallback, StopSpinning
<1>4. CASE Destructor
      BY <1>4 DEF Destructor, DestroyPublishers, DestroyInterface
<1>5. ASSUME NEW s \in Sessions, ReceiveThread(s) PROVE [LossyNext]_vars
      BY <1>5 DEF ReceiveThread, PublishTelemetry, PublishToNobody, StoreMajor,
                  StoreMinor, ThreadRuns, Thread
<1>6. CASE VescAnswers \/ Faults
      BY <1>6 DEF VescAnswers, Faults
<1> QED BY <1>1, <1>2, <1>3, <1>4, <1>5, <1>6 DEF NodeNext

(* The initial state satisfies the inductive invariant.                     *)
LEMMA InitNodeIInv == NodeInit => NodeIInv
<1> SUFFICES ASSUME NodeInit PROVE NodeIInv
    OBVIOUS
<1>1. IInv
      BY InitIInv DEF NodeInit
<1>2. NodeTypeOK
  <2>1. phase \in Phases
        BY DEF NodeInit, Phases
  <2>2. fw_version_major_ \in -1..255 /\ fw_version_minor_ \in -1..255
        BY DEF NodeInit
  <2> QED BY <2>1, <2>2 DEF NodeInit, NodeTypeOK
<1>4. VersionStored
      BY DEF NodeInit, VersionStored
<1>5. Operating
      BY DEF NodeInit, Operating
<1>6. Constructed
      BY DEF NodeInit, Constructed
<1>7. Commanded
      BY DEF NodeInit, Commanded, CommandWithinLimits
<1> QED BY <1>1, <1>2, <1>4, <1>5, <1>6, <1>7 DEF NodeIInv

-----------------------------------------------------------------------------
\* The parts of the invariant that are about the node's own variables.
OwnIInv ==
    NodeTypeOK /\ VersionStored /\ Operating /\ Constructed /\ Commanded

(* The steps of the constructor and the destructor keep it.                 *)
LEMMA LifeIInv ==
    ASSUME OwnIInv, Constructor \/ StopSpinning \/ Destructor
    PROVE  OwnIInv'
<1> USE DEF OwnIInv, NodeTypeOK, VersionStored, Operating, Constructed,
        Commanded, CommandWithinLimits, version, modeVars, storeVars,
        commandVars, nodeVars, Phases
<1>1. CASE Connect BY <1>1 DEF Connect
<1>2. CASE ConnectThrows BY <1>2 DEF ConnectThrows
<1>3. CASE CreatePublishers BY <1>3 DEF CreatePublishers
<1>4. CASE CreateSubscriptionsAndTimer BY <1>4 DEF CreateSubscriptionsAndTimer
<1>5. CASE StopSpinning BY <1>5 DEF StopSpinning, TimerStarts
<1>6. CASE DestroyPublishers BY <1>6 DEF DestroyPublishers
<1>7. CASE DestroyInterface BY <1>7 DEF DestroyInterface
<1> QED BY <1>1, <1>2, <1>3, <1>4, <1>5, <1>6, <1>7 DEF Constructor, Destructor

(* The steps of timerCallback keep it.                                      *)
LEMMA TimerIInv == OwnIInv /\ timerCallback => OwnIInv'
<1> SUFFICES ASSUME OwnIInv, timerCallback PROVE OwnIInv'
    OBVIOUS
<1> USE FirmwareType
    DEF OwnIInv, NodeTypeOK, VersionStored, Operating, Constructed,
        Commanded, CommandWithinLimits, version, modeVars, storeVars, commandVars
<1>1. CASE TimerFindsNoConnection
      BY <1>1 DEF TimerFindsNoConnection, TimerStarts, Phases
<1>2. CASE TimerRequestsVersion
      BY <1>2 DEF TimerRequestsVersion, TimerStarts
<1>3. CASE TimerTestsMajor
      BY <1>3 DEF TimerTestsMajor
<1>4. CASE TimerTestsMinor
  <2>1. fw_version_minor_ >= 0 => version = Firmware
    <3>1. fw_version_minor_ >= 0 => fw_version_minor_ = Firmware[2]
          OBVIOUS
    <3>2. fw_version_major_ = Firmware[1]
          BY <1>4 DEF TimerTestsMinor
    <3> QED BY <3>1, <3>2
  <2>2. CASE fw_version_minor_ >= 0
    <3>1. /\ driver_mode_' = "OPERATING"
          /\ announced' = Firmware
          /\ version' = Firmware
          BY <1>4, <2>1, <2>2 DEF TimerTestsMinor, Operate
    <3>2. announced' \in ((0..255) \X (0..255)) \cup {None}
          BY <3>1
    <3> QED BY <1>4, <2>2, <3>1, <3>2 DEF TimerTestsMinor, Operate
  <2>3. CASE ~(fw_version_minor_ >= 0)
        BY <1>4, <2>3 DEF TimerTestsMinor
  <2> QED BY <2>2, <2>3
<1>5. CASE TimerPollsState
      BY <1>5 DEF TimerPollsState, TimerStarts
<1>6. CASE TimerPollsImu
      BY <1>6 DEF TimerPollsImu
<1> QED BY <1>1, <1>2, <1>3, <1>4, <1>5, <1>6 DEF timerCallback

(* A command callback keeps it.                                             *)
LEMMA CommandIInv == OwnIInv /\ commandCallback => OwnIInv'
<1> SUFFICES ASSUME OwnIInv, NEW v \in Commands,
                    servoCallback(v) \/ \E k \in MotorKinds : motorCallback(k, v)
             PROVE  OwnIInv'
    BY DEF commandCallback
<1> USE DEF OwnIInv, NodeTypeOK, VersionStored, Operating, Constructed,
        Commanded, version, modeVars, storeVars
<1>1. CASE servoCallback(v)
  <2>1. clip(limit("servo"), v) \in Double
        BY ClippedIsBetween DEF Kinds
  <2>2. command' = [kind |-> "servo", value |-> clip(limit("servo"), v)]
        BY <1>1 DEF servoCallback
  <2>3. servo_sensor' = clip(limit("servo"), v)
        BY <1>1 DEF servoCallback
  <2>4. CommandWithinLimits'
    <3>1. "servo" \in Kinds BY DEF Kinds
    <3>2. command' = [kind |-> "servo",
                      value |-> IF "servo" = "position" THEN Degrees(clip(limit("servo"), v))
                                ELSE clip(limit("servo"), v)]
          BY <2>2
    <3>3. servo_sensor' = command'.value
          BY <2>2, <2>3
    <3> QED BY <3>1, <3>2, <3>3, SentWithinLimits DEF CommandWithinLimits, Passed
  <2>5. command' \in [kind : Kinds, value : Double]
        BY <2>1, <2>2 DEF Kinds
  <2> QED BY <1>1, <2>1, <2>3, <2>4, <2>5 DEF servoCallback, TimerStarts
<1>2. ASSUME NEW k \in MotorKinds, motorCallback(k, v) PROVE OwnIInv'
  <2>1. clip(limit(k), v) \in Double
        BY ClippedIsBetween DEF Kinds
  <2>2. Degrees(clip(limit("position"), v)) \in Double
        BY DriverAssumption
  <2>3. command' = [kind |-> k, value |-> IF k = "position"
                                          THEN Degrees(clip(limit(k), v))
                                          ELSE clip(limit(k), v)]
        BY <1>2 DEF motorCallback
  <2>4. CommandWithinLimits'
    <3>1. k \in Kinds /\ k # "servo" BY DEF Kinds, MotorKinds
    <3> QED BY <2>3, <3>1, SentWithinLimits DEF CommandWithinLimits, Passed
  <2>5. command' \in [kind : Kinds, value : Double]
        BY <2>1, <2>2, <2>3 DEF Kinds
  <2> QED BY <1>2, <2>4, <2>5 DEF motorCallback, TimerStarts
<1> QED BY <1>1, <1>2

(* What has been sent stays within the limits.                              *)
LEMMA SameCommand ==
    ASSUME CommandWithinLimits, UNCHANGED commandVars
    PROVE  CommandWithinLimits'
BY DEF CommandWithinLimits, Passed, commandVars

(* The steps of the receive thread, of the line and stuttering keep it.     *)
LEMMA CallbackIInv ==
    ASSUME OwnIInv,
           \/ \E s \in Sessions : ReceiveThread(s)
           \/ VescAnswers \/ Faults \/ UNCHANGED allVars
    PROVE  OwnIInv'
<1> USE FirmwareType, SameCommand
    DEF OwnIInv, NodeTypeOK, VersionStored, Operating, Constructed, Commanded,
        version, modeVars, storeVars, commandVars, nodeVars
<1>1. ASSUME NEW s \in Sessions, PublishTelemetry(s) \/ ThreadRuns(s) PROVE OwnIInv'
  <2>1. UNCHANGED nodeVars
        BY <1>1 DEF PublishTelemetry, ThreadRuns
  <2> QED BY <2>1
<1>2. ASSUME NEW s \in Sessions, StoreMajor(s) PROVE OwnIInv'
      BY <1>2 DEF StoreMajor
<1>3. ASSUME NEW s \in Sessions, StoreMinor(s) PROVE OwnIInv'
      BY <1>3 DEF StoreMinor
<1>4. CASE VescAnswers \/ Faults \/ UNCHANGED allVars
      BY <1>4 DEF VescAnswers, Faults, allVars
<1>5. ASSUME NEW s \in Sessions, PublishToNobody(s) PROVE OwnIInv'
  <2>1. /\ ~publishers /\ phase' = "crashed"
        /\ UNCHANGED <<publishers, modeVars, storeVars, commandVars>>
        BY <1>5 DEF PublishToNobody
  <2>2. phase' \in Phases
        BY <2>1 DEF Phases
  <2>3. timer = "idle"
        BY <2>1
  <2> QED BY <2>1, <2>2, <2>3
<1> QED BY <1>1, <1>2, <1>3, <1>4, <1>5 DEF ReceiveThread

(* Every step keeps the inductive invariant.                                *)
LEMMA NodeNextIInv == NodeIInv /\ [NodeNext]_allVars => NodeIInv'
<1> SUFFICES ASSUME NodeIInv, [NodeNext]_allVars PROVE NodeIInv'
    OBVIOUS
<1>1. IInv'
      BY NodeStepOfInterface, NextIInv DEF NodeIInv
<1>3. OwnIInv
      BY DEF NodeIInv, OwnIInv
<1>4. OwnIInv'
      BY <1>3, LifeIInv, TimerIInv, CommandIInv, CallbackIInv DEF NodeNext
<1> QED BY <1>1, <1>4 DEF NodeIInv, OwnIInv

(* The invariant holds for ever.                                            *)
LEMMA NodeInvariance == NodeSpec => []NodeIInv
BY InitNodeIInv, NodeNextIInv, PTL DEF NodeSpec

-----------------------------------------------------------------------------
(* The node drives its vesc_ as VescInterface specifies: whatever is proved *)
(* of the interface, one receive thread, joined before the port is closed,  *)
(* holds in the node.                                                       *)
THEOREM NodeUsesInterface == NodeSpec => Spec
<1>1. NodeInit => Init BY DEF NodeInit
<1> QED BY <1>1, NodeStepOfInterface, PTL DEF NodeSpec, Spec

(* Every variable of the node keeps its type.                               *)
THEOREM NodeTypeCorrect == NodeSpec => []NodeTypeOK
<1>1. NodeIInv => NodeTypeOK
      BY DEF NodeIInv
<1> QED BY <1>1, NodeInvariance, PTL

(* The driver operates with the VESC's version and no torn one.             *)
THEOREM AnnouncedVersion == NodeSpec => []AnnouncedIsFirmware
<1>1. NodeIInv => AnnouncedIsFirmware
      BY FirmwareType, CommandLimitAssumption
      DEF NodeIInv, NodeTypeOK, Operating, AnnouncedIsFirmware
<1> QED BY <1>1, NodeInvariance, PTL

(* No command precedes the VESC's identification.                           *)
THEOREM CommandsWait == NodeSpec => []NoCommandBeforeVersion
<1>1. NodeIInv => NoCommandBeforeVersion
      BY DEF NodeIInv, Operating, Commanded, NoCommandBeforeVersion
<1> QED BY <1>1, NodeInvariance, PTL

(* Every number that is sent is what the VESC can do and within the limits  *)
(* that the user has set, for every setting of the parameters.              *)
THEOREM CommandsClipped == NodeSpec => []CommandWithinLimits
<1>1. NodeIInv => CommandWithinLimits
      BY DEF NodeIInv, Commanded
<1> QED BY <1>1, NodeInvariance, PTL
=============================================================================
