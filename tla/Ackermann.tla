------------------------------ MODULE Ackermann ------------------------------
(***************************************************************************)
(* The nodes AckermannToVesc and VescToOdom of vesc_ackermann, joined by   *)
(* the topics of a VescDriver that is in operation.                        *)
(*                                                                         *)
(* A topic is a sequence that keeps the newest Depth messages.  There is   *)
(* no order between the topics.  The stamp of a state is the clock of the  *)
(* driver, which may be set back.  Speeds are whole numbers, times are     *)
(* ticks, and headings quarter turns, 0 along the x-axis.                  *)
(***************************************************************************)
EXTENDS Integers, Sequences, FiniteSets

CONSTANTS
    Speeds, Angles,             \* what drive commands ask for
    speed_to_erpm_gain_, speed_to_erpm_offset_,
    steering_to_servo_gain_, steering_to_servo_offset_,
    ServoLimit,                 \* the servo is clipped to 0..ServoLimit
    DeadBand,                   \* 0.05 m/s in the code
    Curvature(_),               \* tan(angle) / wheelbase, in quarter turns
    ClockSteps,                 \* how the clock moves from report to report
    Depth,                      \* the depth of a topic, 10 in the code
    MaxReports, MaxDrives,      \* bounds
    None

ASSUME AckermannAssumption ==
    /\ Speeds \subseteq Int /\ Angles \subseteq Int
    /\ speed_to_erpm_gain_ \in Nat \ {0} /\ speed_to_erpm_offset_ \in Int
    /\ steering_to_servo_gain_ \in Nat \ {0} /\ steering_to_servo_offset_ \in Int
    \* The divisions of VescToOdom have no remainder.
    /\ speed_to_erpm_offset_ % speed_to_erpm_gain_ = 0
    /\ ServoLimit \in Nat
    /\ \A servo \in 0..ServoLimit :
           /\ (servo - steering_to_servo_offset_) % steering_to_servo_gain_ = 0
           /\ Curvature((servo - steering_to_servo_offset_) \div steering_to_servo_gain_) \in Int
    /\ DeadBand \in Int
    /\ ClockSteps \subseteq Int
    /\ Depth \in Nat \ {0} /\ MaxReports \in Nat /\ MaxDrives \in Nat
    /\ None \notin Int /\ None \notin [stamp : Int, speed : Int, number : Nat]

VARIABLES
    use_servo_cmd_,     \* the parameter use_servo_cmd_to_calc_angular_velocity
    drives,             \* number of drive commands
    speedTopic,         \* commands/motor/speed
    servoTopic,         \* commands/servo/position
    erpm, clock, reports,
    core,               \* sensors/core
    sensor,             \* sensors/servo_position_command
    last_servo_cmd_, last_state_, x_, y_, yaw_,
    odom,               \* the last message on odom
    first,              \* the stamp of the first state that was used
    motions             \* <<speed, angular velocity>> of all states used

vars == <<use_servo_cmd_, drives, speedTopic, servoTopic, erpm, clock, reports, core,
          sensor, last_servo_cmd_, last_state_, x_, y_, yaw_, odom, first, motions>>
driverVars == <<erpm, clock, reports>>
odomVars == <<last_servo_cmd_, last_state_, x_, y_, yaw_, odom, first, motions>>

Init ==
    /\ use_servo_cmd_ \in BOOLEAN
    /\ drives = 0
    /\ speedTopic = <<>> /\ servoTopic = <<>>
    /\ erpm = 0 /\ clock = 0 /\ reports = 0
    /\ core = <<>> /\ sensor = <<>>
    /\ last_servo_cmd_ = None /\ last_state_ = None
    /\ x_ = 0 /\ y_ = 0 /\ yaw_ = 0
    /\ odom = None
    /\ first = None /\ motions = {}

Publish(topic, message) ==
    LET all == Append(topic, message)
    IN  IF Len(all) > Depth THEN Tail(all) ELSE all

-----------------------------------------------------------------------------
(* AckermannToVesc.                                                         *)

ackermannCmdCallback(speed, angle) ==
    /\ drives < MaxDrives
    /\ drives' = drives + 1
    /\ speedTopic' = Publish(speedTopic, speed_to_erpm_gain_ * speed + speed_to_erpm_offset_)
    /\ servoTopic' = Publish(servoTopic,
                             steering_to_servo_gain_ * angle + steering_to_servo_offset_)
    /\ UNCHANGED <<use_servo_cmd_, driverVars, core, sensor, odomVars>>

-----------------------------------------------------------------------------
(* External: VescDriver and the motor, which reaches a commanded speed.     *)

DriverSetsSpeed ==
    /\ speedTopic # <<>>
    /\ erpm' = Head(speedTopic)
    /\ speedTopic' = Tail(speedTopic)
    /\ UNCHANGED <<use_servo_cmd_, drives, servoTopic, clock, reports, core, sensor, odomVars>>

DriverSetsServo ==
    /\ servoTopic # <<>>
    /\ LET value == Head(servoTopic)
       IN  sensor' = Publish(sensor, IF value < 0 THEN 0
                                     ELSE IF value > ServoLimit THEN ServoLimit ELSE value)
    /\ servoTopic' = Tail(servoTopic)
    /\ UNCHANGED <<use_servo_cmd_, drives, speedTopic, driverVars, core, odomVars>>

DriverReports ==
    /\ reports < MaxReports
    /\ reports' = reports + 1
    /\ \E step \in ClockSteps : clock' = clock + step
    /\ core' = Publish(core, [stamp |-> clock', speed |-> erpm, number |-> reports'])
    /\ UNCHANGED <<use_servo_cmd_, drives, speedTopic, servoTopic, erpm, sensor, odomVars>>

-----------------------------------------------------------------------------
(* VescToOdom.                                                              *)

\* Subscribed to only when the servo command is used.
servoCmdCallback ==
    /\ use_servo_cmd_
    /\ sensor # <<>>
    /\ last_servo_cmd_' = Head(sensor)
    /\ sensor' = Tail(sensor)
    /\ UNCHANGED <<use_servo_cmd_, drives, speedTopic, servoTopic, driverVars, core,
                   last_state_, x_, y_, yaw_, odom, first, motions>>

Abs(n) == IF n < 0 THEN -n ELSE n

\* The speed of a state, 0 within the dead band.
CurrentSpeed(state) ==
    LET speed == (-state.speed - speed_to_erpm_offset_) \div speed_to_erpm_gain_
    IN  IF Abs(speed) < DeadBand THEN 0 ELSE speed

AngularVelocity(state) ==
    IF use_servo_cmd_
    THEN CurrentSpeed(state) * Curvature((last_servo_cmd_ - steering_to_servo_offset_)
                                            \div steering_to_servo_gain_)
    ELSE 0

Cos(yaw) == CASE yaw % 4 = 0 -> 1 [] yaw % 4 = 2 -> -1 [] OTHER -> 0
Sin(yaw) == Cos(yaw - 1)

\* Mutation of StateIgnored: the state is kept for the next one.
StateKept ==
    /\ core # <<>>
    /\ use_servo_cmd_ /\ last_servo_cmd_ = None
    /\ core' = Tail(core)
    /\ last_state_' = Head(core)
    /\ UNCHANGED <<use_servo_cmd_, drives, speedTopic, servoTopic, driverVars, sensor,
                   last_servo_cmd_, x_, y_, yaw_, odom, first, motions>>

\* vescStateCallback, before a servo command that it depends on.
StateIgnored ==
    /\ core # <<>>
    /\ use_servo_cmd_ /\ last_servo_cmd_ = None
    /\ core' = Tail(core)
    /\ UNCHANGED <<use_servo_cmd_, drives, speedTopic, servoTopic, driverVars, sensor,
                   odomVars>>

Integrate(state, saved) ==
    LET last  == IF last_state_ = None THEN state ELSE last_state_
        dt    == state.stamp - last.stamp
        speed == CurrentSpeed(state)
        turn  == AngularVelocity(state)
    IN  /\ x_' = x_ + speed * Cos(yaw_) * dt
        /\ y_' = y_ + speed * Sin(yaw_) * dt
        /\ yaw_' = yaw_ + turn * dt
        /\ last_state_' = saved
        /\ odom' = [number |-> state.number, x |-> x_', y |-> y_', yaw |-> yaw_', speed |-> speed]
        /\ first' = IF first = None THEN state.stamp ELSE first
        /\ motions' = motions \cup {<<speed, turn>>}

\* Mutation of StateUsed: the first state stays the last one.
StateForgotten ==
    /\ core # <<>>
    /\ use_servo_cmd_ => last_servo_cmd_ # None
    /\ Integrate(Head(core), IF last_state_ = None THEN Head(core) ELSE last_state_)
    /\ core' = Tail(core)
    /\ UNCHANGED <<use_servo_cmd_, drives, speedTopic, servoTopic, driverVars, sensor,
                   last_servo_cmd_>>

\* vescStateCallback: the newest speed counts for the time since the state before.
StateUsed ==
    /\ core # <<>>
    /\ use_servo_cmd_ => last_servo_cmd_ # None
    /\ Integrate(Head(core), Head(core))
    /\ core' = Tail(core)
    /\ UNCHANGED <<use_servo_cmd_, drives, speedTopic, servoTopic, driverVars, sensor,
                   last_servo_cmd_>>

-----------------------------------------------------------------------------
vescStateCallback == StateIgnored \/ StateUsed
Driver == DriverSetsSpeed \/ DriverSetsServo \/ DriverReports

Next ==
    \/ \E speed \in Speeds, angle \in Angles : ackermannCmdCallback(speed, angle)
    \/ Driver
    \/ servoCmdCallback \/ vescStateCallback

Spec == Init /\ [][Next]_vars

\* The executor of VescToOdom takes the messages of each topic.
FairSpec == Spec /\ WF_vars(servoCmdCallback) /\ WF_vars(vescStateCallback)

-----------------------------------------------------------------------------
States == [stamp : Int, speed : Int, number : Nat]

TypeOK ==
    /\ use_servo_cmd_ \in BOOLEAN
    /\ drives \in 0..MaxDrives /\ reports \in 0..MaxReports
    /\ speedTopic \in Seq(Int) /\ servoTopic \in Seq(Int)
    /\ erpm \in Int /\ clock \in Int
    /\ core \in Seq(States) /\ sensor \in Seq(0..ServoLimit)
    /\ last_servo_cmd_ \in (0..ServoLimit) \cup {None}
    /\ last_state_ \in States \cup {None}
    /\ x_ \in Int /\ y_ \in Int /\ yaw_ \in Int
    /\ odom \in [number : Nat, x : Int, y : Int, yaw : Int, speed : Int] \cup {None}
    /\ first \in Int \cup {None}
    /\ motions \subseteq Int \X Int

\* With a steady speed and steering the pose depends on the time stamps of the
\* first and the last state that were used, and on nothing else: neither on
\* states that the topic dropped, nor on a clock that was set back in between,
\* nor on what was driven before the first servo command.
SteadyDrive ==
    Cardinality(motions) = 1 =>
        LET motion  == CHOOSE m \in motions : TRUE
            elapsed == last_state_.stamp - first
        IN  /\ yaw_ = motion[2] * elapsed
            /\ motion[2] = 0 => x_ = motion[1] * elapsed /\ y_ = 0

\* Odometry catches up with the driver, once a servo command is there: every
\* report, or a later one that replaced it, comes out as a pose, and the next
\* interval begins at it.
CatchesUp ==
    \A n \in 1..MaxReports :
        reports >= n /\ (use_servo_cmd_ => last_servo_cmd_ # None) /\ core # <<>>
            ~> odom # None /\ odom.number >= n /\ last_state_.number = odom.number
=============================================================================
