----------------------------- MODULE VescDriver -----------------------------
(***************************************************************************)
(* The node VescDriver (vesc_driver.cpp): its constructor, the 50 Hz timer *)
(* with the two driver modes, the command topics and the destructor, all   *)
(* run by one executor thread, against vescPacketCallback, which the       *)
(* receive thread of the member vesc_, a VescInterface, calls.             *)
(*                                                                         *)
(* A step of the node makes one step of the interface or leaves its        *)
(* variables, vars, alone.                                                 *)
(***************************************************************************)
EXTENDS CommandLimit, VescInterface

CONSTANTS
    Firmware,      \* <<major, minor>>, the version the VESC reports
    param_min,     \* the parameters <kind>_min and <kind>_max, or None
    param_max,
    Commands,      \* values that arrive on the command topics
    Degrees(_)     \* value * 180.0 / M_PI

MotorKinds == {"duty_cycle", "current", "brake", "speed", "position"}
Kinds == MotorKinds \cup {"servo"}

min_lower == [k \in Kinds |-> CASE k = "duty_cycle" -> -1 [] k = "servo" -> 0 [] OTHER -> None]
max_upper == [k \in Kinds |-> IF k \in {"duty_cycle", "servo"} THEN 1 ELSE None]

\* <kind>_limit_ as the constructor leaves it; nothing changes it later.
limit(k) == Limits(param_min[k], param_max[k], min_lower[k], max_upper[k])

ASSUME DriverAssumption ==
    /\ Asked = Packets
    /\ Firmware \in (0..255) \X (0..255)
    /\ Firmware # None
    /\ param_min \in [Kinds -> Optional]
    /\ param_max \in [Kinds -> Optional]
    /\ Commands \subseteq Double
    /\ \A v \in Commands : Degrees(clip(limit("position"), v)) \in Double

VARIABLES
    phase,              \* where the executor thread is in the node's life
    publishers,         \* whether state_pub_, imu_pub_, imu_std_pub_ exist
    driver_mode_,
    fw_version_major_,
    fw_version_minor_,
    timer,              \* what timerCallback does next, "idle" outside of it
    announced,          \* the version it logged, or None
    callback,           \* what vescPacketCallback does next
    command,            \* the last command sent to the VESC, or None
    servo_sensor        \* the last value of sensors/servo_position_command

version == <<fw_version_major_, fw_version_minor_>>
modeVars == <<driver_mode_, timer, announced>>
storeVars == <<fw_version_major_, fw_version_minor_, callback>>
commandVars == <<command, servo_sensor>>
nodeVars == <<phase, publishers, modeVars, storeVars, commandVars>>
allVars == <<vars, nodeVars>>

NodeInit ==
    /\ Init
    /\ phase = "connect"
    /\ publishers = FALSE
    /\ driver_mode_ = "INITIALIZING"
    /\ fw_version_major_ = -1
    /\ fw_version_minor_ = -1
    /\ timer = "idle"
    /\ announced = None
    /\ callback = "idle"
    /\ command = None
    /\ servo_sensor = None

-----------------------------------------------------------------------------
(* The constructor.                                                         *)

\* vesc_.connect(port) opens the port and starts the receive thread.
Connect ==
    /\ phase = "connect"
    /\ \/ ConnectOpens /\ UNCHANGED phase
       \/ ConnectStartsThread /\ phase' = "publishers"
    /\ UNCHANGED <<publishers, modeVars, storeVars, commandVars>>

\* connect() throws: rclcpp::shutdown(), and the node has neither publishers
\* nor subscriptions nor a timer.
ConnectThrows ==
    /\ phase = "connect"
    /\ ConnectFails
    /\ phase' = "shutdown"
    /\ UNCHANGED <<publishers, modeVars, storeVars, commandVars>>

CreatePublishers ==
    /\ phase = "publishers"
    /\ publishers' = TRUE
    /\ phase' = "subscriptions"
    /\ UNCHANGED <<vars, modeVars, storeVars, commandVars>>

\* The subscriptions and the timer exist, and the executor spins.
CreateSubscriptionsAndTimer ==
    /\ phase = "subscriptions"
    /\ phase' = "spin"
    /\ UNCHANGED <<vars, publishers, modeVars, storeVars, commandVars>>

-----------------------------------------------------------------------------
(* timerCallback.                                                           *)

TimerStarts == phase = "spin" /\ timer = "idle"

\* Mutation of TimerFindsNoConnection: it only returns.
TimerReturns == TimerStarts /\ ~isConnected /\ UNCHANGED allVars

\* The port failed: rclcpp::shutdown().
TimerFindsNoConnection ==
    /\ TimerStarts
    /\ ~isConnected
    /\ phase' = "shutdown"
    /\ UNCHANGED <<vars, publishers, modeVars, storeVars, commandVars>>

\* MODE_INITIALIZING: the version is asked for again at every tick ...
TimerRequestsVersion ==
    /\ TimerStarts
    /\ driver_mode_ = "INITIALIZING"
    /\ Request("FWVersion")
    /\ timer' = "major"
    /\ UNCHANGED <<phase, publishers, driver_mode_, announced, storeVars, commandVars>>

Operate ==
    /\ driver_mode_' = "OPERATING"
    /\ announced' = version
    /\ timer' = "idle"

\* Mutation of TimerTestsMajor: the minor version is not tested.
TimerTestsMajorOnly ==
    /\ timer = "major"
    /\ IF fw_version_major_ >= 0 THEN Operate
       ELSE timer' = "idle" /\ UNCHANGED <<driver_mode_, announced>>
    /\ UNCHANGED <<vars, phase, publishers, storeVars, commandVars>>

\* ... until both numbers have been set by an answer.
TimerTestsMajor ==
    /\ timer = "major"
    /\ timer' = IF fw_version_major_ >= 0 THEN "minor" ELSE "idle"
    /\ UNCHANGED <<vars, phase, publishers, driver_mode_, announced, storeVars, commandVars>>

TimerTestsMinor ==
    /\ timer = "minor"
    /\ IF fw_version_minor_ >= 0 THEN Operate
       ELSE timer' = "idle" /\ UNCHANGED <<driver_mode_, announced>>
    /\ UNCHANGED <<vars, phase, publishers, storeVars, commandVars>>

\* MODE_OPERATING: poll the telemetry ...
TimerPollsState ==
    /\ TimerStarts
    /\ driver_mode_ = "OPERATING"
    /\ Request("Values")
    /\ timer' = "imu"
    /\ UNCHANGED <<phase, publishers, driver_mode_, announced, storeVars, commandVars>>

\* ... and the IMU; what is sent to a port that has failed goes nowhere.
TimerPollsImu ==
    /\ timer = "imu"
    /\ Request("ImuData") \/ (~isConnected /\ UNCHANGED vars)
    /\ timer' = "idle"
    /\ UNCHANGED <<phase, publishers, driver_mode_, announced, storeVars, commandVars>>

-----------------------------------------------------------------------------
(* The command topics: dutyCycleCallback ... positionCallback, and          *)
(* servoCallback.  A command that arrives before MODE_OPERATING is dropped. *)

\* Mutation of motorCallback: a command is sent in any mode.
MotorCallbackAnyMode(k, v) ==
    /\ TimerStarts
    /\ command' = [kind |-> k, value |-> clip(limit(k), v)]
    /\ UNCHANGED <<vars, phase, publishers, modeVars, storeVars, servo_sensor>>

motorCallback(k, v) ==
    /\ TimerStarts
    /\ driver_mode_ = "OPERATING"
    /\ command' = [kind |-> k, value |-> IF k = "position"
                                         THEN Degrees(clip(limit(k), v))
                                         ELSE clip(limit(k), v)]
    /\ UNCHANGED <<vars, phase, publishers, modeVars, storeVars, servo_sensor>>

\* Mutation of servoCallback: the command is sent as it came.
ServoCallbackUnclipped(v) ==
    /\ TimerStarts
    /\ driver_mode_ = "OPERATING"
    /\ command' = [kind |-> "servo", value |-> v]
    /\ servo_sensor' = v
    /\ UNCHANGED <<vars, phase, publishers, modeVars, storeVars>>

\* The clipped value is also published as a "sensor".
servoCallback(v) ==
    /\ TimerStarts
    /\ driver_mode_ = "OPERATING"
    /\ command' = [kind |-> "servo", value |-> clip(limit("servo"), v)]
    /\ servo_sensor' = clip(limit("servo"), v)
    /\ UNCHANGED <<vars, phase, publishers, modeVars, storeVars>>

-----------------------------------------------------------------------------
(* The end of the node: its members are destroyed in the reverse order of   *)
(* their declaration, the publishers before vesc_.                          *)

\* Ctrl-C, or the component is unloaded, between two callbacks.
StopSpinning ==
    /\ TimerStarts
    /\ phase' = "shutdown"
    /\ UNCHANGED <<vars, publishers, modeVars, storeVars, commandVars>>

DestroyPublishers ==
    /\ phase = "shutdown"
    /\ publishers' = FALSE
    /\ phase' = "destroy"
    /\ UNCHANGED <<vars, modeVars, storeVars, commandVars>>

\* ~VescInterface: disconnect(), or std::terminate() when the port has failed.
DestroyInterface ==
    /\ phase = "destroy"
    /\ \/ DisconnectStops(TRUE) \/ DisconnectWakes \/ DisconnectJoins
       \/ DisconnectCloses \/ Destroy \/ DestroyFailed \/ Terminate
    /\ UNCHANGED nodeVars

-----------------------------------------------------------------------------
(* vescPacketCallback, in the receive thread.                               *)

Arrives(s, packet) ==
    /\ callback = "idle"
    /\ thread[s] = "handle"
    /\ batch # <<>>
    /\ Head(batch) = packet

Telemetry(s) == Arrives(s, "Values") \/ Arrives(s, "ImuData")

\* Values and ImuData are published; VescMessages has their fields.  The pointer
\* to a publisher that has been destroyed dangles: it may seem to work ...
PublishTelemetry(s) ==
    /\ Telemetry(s)
    /\ publishers \/ phase = "destroy"
    /\ Handle(s)
    /\ UNCHANGED nodeVars

\* ... or not; the pointer to one that does not exist yet is null.  An answer that
\* an earlier process has asked for can arrive that early: the process ends.
PublishToNobody(s) ==
    /\ Telemetry(s)
    /\ ~publishers
    /\ phase' = "crashed"
    /\ UNCHANGED <<vars, publishers, modeVars, storeVars, commandVars>>

\* FWVersion: the two numbers are stored one after the other, without a lock.
StoreMajor(s) ==
    /\ Arrives(s, "FWVersion")
    /\ fw_version_major_' = Firmware[1]
    /\ callback' = "minor"
    /\ UNCHANGED <<vars, phase, publishers, modeVars, fw_version_minor_, commandVars>>

\* Mutation of StoreMinor: the number is not stored.
StoreNothing(s) ==
    /\ callback = "minor"
    /\ Handle(s)
    /\ callback' = "idle"
    /\ UNCHANGED <<phase, publishers, modeVars, version, commandVars>>

StoreMinor(s) ==
    /\ callback = "minor"
    /\ Handle(s)
    /\ fw_version_minor_' = Firmware[2]
    /\ callback' = "idle"
    /\ UNCHANGED <<phase, publishers, modeVars, fw_version_major_, commandVars>>

\* What the thread does besides its callbacks.
ThreadRuns(s) ==
    /\ Check(s) \/ Repeat(s) \/ \E n \in 1..Len(answers) : Receive(s, n)
    /\ UNCHANGED nodeVars

-----------------------------------------------------------------------------
(* External: the VESC, which answers, is busy or is unplugged.              *)

VescAnswers == Answer /\ UNCHANGED nodeVars

Faults == /\ Lose \/ PortFails \/ \E s \in Sessions : ReceiveFails(s)
          /\ UNCHANGED nodeVars

-----------------------------------------------------------------------------
Constructor == Connect \/ ConnectThrows \/ CreatePublishers \/ CreateSubscriptionsAndTimer
timerCallback ==
    \/ TimerFindsNoConnection \/ TimerRequestsVersion
    \/ TimerTestsMajor \/ TimerTestsMinor \/ TimerPollsState \/ TimerPollsImu
commandCallback ==
    \E v \in Commands :
        servoCallback(v) \/ \E k \in MotorKinds : motorCallback(k, v)
Destructor == DestroyPublishers \/ DestroyInterface
ReceiveThread(s) ==
    /\ phase # "crashed"
    /\ \/ PublishTelemetry(s) \/ PublishToNobody(s)
       \/ StoreMajor(s) \/ StoreMinor(s) \/ ThreadRuns(s)

NodeNext == \/ Constructor \/ timerCallback \/ commandCallback
            \/ StopSpinning \/ Destructor
            \/ \E s \in Sessions : ReceiveThread(s)
            \/ VescAnswers \/ Faults

NodeSpec == NodeInit /\ [][NodeNext]_allVars

\* The executor calls a timer that is due, the receive thread runs, and a VESC
\* that is asked again and again answers in the end.
FairNodeSpec ==
    /\ NodeSpec
    /\ WF_allVars(Constructor)
    /\ WF_allVars(timerCallback)
    /\ WF_allVars(Destructor)
    /\ \A s \in Sessions : WF_allVars(ReceiveThread(s))
    /\ SF_allVars(VescAnswers)

-----------------------------------------------------------------------------
Phases == {"connect", "publishers", "subscriptions", "spin", "shutdown", "destroy", "crashed"}

NodeTypeOK ==
    /\ phase \in Phases
    /\ publishers \in BOOLEAN
    /\ driver_mode_ \in {"INITIALIZING", "OPERATING"}
    /\ fw_version_major_ \in -1..255
    /\ fw_version_minor_ \in -1..255
    /\ timer \in {"idle", "major", "minor", "imu"}
    /\ announced \in ((0..255) \X (0..255)) \cup {None}
    /\ callback \in {"idle", "minor"}
    /\ command \in [kind : Kinds, value : Double] \cup {None}
    /\ servo_sensor \in Double \cup {None}

\* The version the driver announces when it starts operating is the VESC's,
\* although its two numbers are written while the timer tests them.
AnnouncedIsFirmware ==
    /\ driver_mode_ = "OPERATING" => announced # None
    /\ announced # None => announced = Firmware /\ version = Firmware

\* No command reaches a VESC that has not identified itself.
NoCommandBeforeVersion == command # None => version = Firmware

\* What the callback has passed on: an angle is converted after it was clipped.
Passed(c) ==
    IF c.kind = "position"
    THEN {v \in Commands \cup {limit(c.kind).lower, limit(c.kind).upper} : Degrees(v) = c.value}
    ELSE {c.value}

\* A command that is a number reaches the VESC within the physical range of its
\* kind and, where the user has set both limits, within those; NaN passes as it
\* is.  Of a limit that is not set nothing is claimed here (AnyValueAccepted).
\* The servo "sensor" shows the last value of the servo topic that was sent.
CommandWithinLimits ==
    command # None =>
        LET k == command.kind IN
        /\ \E v \in Passed(command) :
              /\ param_min[k] # NaN /\ param_max[k] # NaN =>
                     IsFeasible(min_lower[k], v, max_upper[k])
              /\ param_min[k] # None /\ param_max[k] # None =>
                     Between(limit(k).lower, v, limit(k).upper)
        /\ k = "servo" => servo_sensor = command.value

\* The handshake ends: requests and answers may be lost, but the driver asks
\* again until it operates, unless the node ends or the port fails.
ReachesOperating ==
    phase = "spin" ~> driver_mode_ = "OPERATING" \/ phase # "spin" \/ ~isConnected

\* A port that fails ends the process of the node, whatever the receive thread
\* does (it ends in std::terminate(): nobody joins the thread).
LostPortEndsNode ==
    phase = "spin" /\ ~isConnected
        ~> client \in {"destroyed", "terminated"} \/ phase = "crashed"

-----------------------------------------------------------------------------
\* vesc_driver.cpp:281 (and 293, 306, 318) "Any value is accepted by this driver":
\* a current, brake, speed or position for which the user has set no limit is
\* sent as it was commanded.
AnyValueAccepted ==
    /\ command # None
    /\ command.kind \in {"current", "brake", "speed", "position"}
    /\ param_min[command.kind] = None /\ param_max[command.kind] = None
    => command.value \in IF command.kind = "position" THEN {Degrees(v) : v \in Commands}
                         ELSE Commands
=============================================================================
