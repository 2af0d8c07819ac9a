--------------------------- MODULE AckermannProofs ---------------------------
(***************************************************************************)
(* Proofs about Ackermann: what odometry makes of steady driving, for      *)
(* topics of every depth, every clock and any number of messages.          *)
(***************************************************************************)
EXTENDS Ackermann, FiniteSetTheorems, SequenceTheorems, TLAPS

\* The pose after the motion m alone, for the time between two stamps.
Pose(m, elapsed) ==
    /\ yaw_ = m[2] * elapsed
    /\ m[2] = 0 => x_ = m[1] * elapsed /\ y_ = 0

\* Before a state is used the pose is the origin; afterwards the stamps of the
\* first and of the last one are known, and one motion alone gives the pose.
Driven ==
    /\ IsFiniteSet(motions)
    /\ motions = {} => first = None /\ last_state_ = None /\ x_ = 0 /\ y_ = 0 /\ yaw_ = 0
    /\ motions # {} => first \in Int /\ last_state_ \in States
    /\ \A m \in Int \X Int : motions = {m} => Pose(m, last_state_.stamp - first)

IInv == TypeOK /\ Driven

-----------------------------------------------------------------------------
(* A topic keeps the type of its messages.                                  *)
LEMMA PublishType ==
    ASSUME NEW S, NEW topic \in Seq(S), NEW message \in S
    PROVE  Publish(topic, message) \in Seq(S)
<1>1. Append(topic, message) \in Seq(S) /\ Append(topic, message) # <<>>
      BY AppendProperties
<1>2. Tail(Append(topic, message)) \in Seq(S)
      BY <1>1, HeadTailProperties
<1> QED BY <1>1, <1>2 DEF Publish

(* What a state says of the motion is a speed and an angular velocity.      *)
LEMMA MotionType ==
    ASSUME TypeOK, NEW state \in States, use_servo_cmd_ => last_servo_cmd_ # None
    PROVE  CurrentSpeed(state) \in Int /\ AngularVelocity(state) \in Int
<1>1. CurrentSpeed(state) \in Int
      BY AckermannAssumption DEF CurrentSpeed, States, Abs
<1>2. use_servo_cmd_ =>
          Curvature((last_servo_cmd_ - steering_to_servo_offset_)
                       \div steering_to_servo_gain_) \in Int
  <2>1. use_servo_cmd_ => last_servo_cmd_ \in 0..ServoLimit
        BY DEF TypeOK
  <2> QED BY <2>1, AckermannAssumption
<1>3. \A a, b \in Int : a * b \in Int
      OBVIOUS
<1>4. CASE use_servo_cmd_
      BY <1>1, <1>2, <1>3, <1>4 DEF AngularVelocity
<1>5. CASE ~use_servo_cmd_
      BY <1>1, <1>5 DEF AngularVelocity
<1> QED BY <1>1, <1>4, <1>5

(* Two intervals in a row are one, and an empty one is nothing.             *)
LEMMA Intervals ==
    ASSUME NEW v \in Int, NEW a \in Int, NEW b \in Int, NEW c \in Int
    PROVE  /\ v * (b - a) + v * (c - b) = v * (c - a)
           /\ v * (a - a) = 0
OBVIOUS

(* Straight ahead along the x-axis.                                         *)
LEMMA Straight == Cos(0) = 1 /\ Sin(0) = 0
<1>1. \A n \in Int : (n = 0 => n % 4 = 0) /\ (n = 0 - 1 => n % 4 = 3)
      OBVIOUS
<1>2. 0 \in Int /\ 0 - 1 \in Int
      OBVIOUS
<1>3. 0 % 4 = 0 /\ (0 - 1) % 4 = 3
      BY <1>1, <1>2
<1> QED BY <1>3 DEF Cos, Sin

(* A cosine of a quarter turn is a whole number, and so is a sine.          *)
LEMMA CosSinType == ASSUME NEW yaw \in Int PROVE Cos(yaw) \in Int /\ Sin(yaw) \in Int
BY DEF Cos, Sin

-----------------------------------------------------------------------------
(* Nothing has been driven before the first step.                           *)
LEMMA InitIInv == Init => IInv
<1> SUFFICES ASSUME Init PROVE IInv
    OBVIOUS
<1>1. TypeOK
      BY AckermannAssumption DEF Init, TypeOK
<1>2. Driven
      BY FS_EmptySet DEF Init, Driven
<1> QED BY <1>1, <1>2 DEF IInv

(* Steps that leave VescToOdom alone.                                       *)
LEMMA DriveIInv ==
    ASSUME IInv, NEW speed \in Speeds, NEW angle \in Angles,
           ackermannCmdCallback(speed, angle)
    PROVE  IInv'
<1> USE DEF IInv, ackermannCmdCallback, driverVars, odomVars
<1>1. /\ speed_to_erpm_gain_ * speed + speed_to_erpm_offset_ \in Int
      /\ steering_to_servo_gain_ * angle + steering_to_servo_offset_ \in Int
      BY AckermannAssumption
<1>2. speedTopic' \in Seq(Int) /\ servoTopic' \in Seq(Int)
      BY <1>1, PublishType DEF TypeOK
<1>3. TypeOK'
      BY <1>2, AckermannAssumption DEF TypeOK
<1>4. Driven'
      BY DEF Driven, Pose
<1> QED BY <1>3, <1>4

(* What the driver publishes leaves the pose as it is.                      *)
LEMMA DriverIInv == ASSUME IInv, Driver PROVE IInv'
<1> USE DEF IInv, driverVars, odomVars
<1>1. CASE DriverSetsSpeed
  <2>1. Head(speedTopic) \in Int /\ Tail(speedTopic) \in Seq(Int)
        BY <1>1, HeadTailProperties DEF DriverSetsSpeed, TypeOK
  <2>2. TypeOK'
        BY <1>1, <2>1 DEF DriverSetsSpeed, TypeOK
  <2> QED BY <1>1, <2>2 DEF DriverSetsSpeed, Driven, Pose
<1>2. CASE DriverSetsServo
  <2>1. Head(servoTopic) \in Int /\ Tail(servoTopic) \in Seq(Int)
        BY <1>2, HeadTailProperties DEF DriverSetsServo, TypeOK
  <2>2. (IF Head(servoTopic) < 0 THEN 0
         ELSE IF Head(servoTopic) > ServoLimit THEN ServoLimit
         ELSE Head(servoTopic)) \in 0..ServoLimit
        BY <2>1, AckermannAssumption
  <2>3. sensor' \in Seq(0..ServoLimit)
        BY <1>2, <2>2, PublishType DEF DriverSetsServo, TypeOK
  <2>4. TypeOK'
        BY <1>2, <2>1, <2>3 DEF DriverSetsServo, TypeOK
  <2> QED BY <1>2, <2>4 DEF DriverSetsServo, Driven, Pose
<1>3. CASE DriverReports
  <2>1. clock' \in Int /\ reports' \in 0..MaxReports
        BY <1>3, AckermannAssumption DEF DriverReports, TypeOK
  <2>2. [stamp |-> clock', speed |-> erpm, number |-> reports'] \in States
        BY <2>1 DEF TypeOK, States
  <2>3. core' \in Seq(States)
        BY <1>3, <2>2, PublishType DEF DriverReports, TypeOK
  <2>4. TypeOK'
        BY <1>3, <2>1, <2>3 DEF DriverReports, TypeOK
  <2> QED BY <1>3, <2>4 DEF DriverReports, Driven, Pose
<1> QED BY <1>1, <1>2, <1>3 DEF Driver

(* A servo command changes no pose by itself.                               *)
LEMMA ServoIInv == ASSUME IInv, servoCmdCallback PROVE IInv'
<1> USE DEF IInv, servoCmdCallback, driverVars
<1>1. Head(sensor) \in 0..ServoLimit /\ Tail(sensor) \in Seq(0..ServoLimit)
      BY HeadTailProperties DEF TypeOK
<1>2. TypeOK'
      BY <1>1 DEF TypeOK
<1> QED BY <1>2 DEF Driven, Pose

(* Without a servo command, a state changes no pose.                        *)
LEMMA IgnoredIInv == ASSUME IInv, StateIgnored PROVE IInv'
<1> USE DEF IInv, StateIgnored, driverVars, odomVars
<1>1. Tail(core) \in Seq(States)
      BY HeadTailProperties DEF TypeOK
<1>2. TypeOK'
      BY <1>1 DEF TypeOK
<1> QED BY <1>2 DEF Driven, Pose

(* A state that is used extends the interval of a steady motion.            *)
LEMMA UsedIInv == ASSUME IInv, StateUsed PROVE IInv'
<1> DEFINE state == Head(core)
           last  == IF last_state_ = None THEN state ELSE last_state_
           dt    == state.stamp - last.stamp
           speed == CurrentSpeed(state)
           turn  == AngularVelocity(state)
<1>1. /\ core # <<>> /\ (use_servo_cmd_ => last_servo_cmd_ # None)
      /\ TypeOK /\ Driven
      BY DEF StateUsed, IInv
<1>2. state \in States /\ Tail(core) \in Seq(States)
      BY <1>1, HeadTailProperties DEF TypeOK
<1>3. speed \in Int /\ turn \in Int
      BY <1>1, <1>2, MotionType
<1>4. last \in States /\ last.stamp \in Int /\ state.stamp \in Int /\ state.number \in Nat
      BY <1>1, <1>2 DEF TypeOK, States
<1>5. dt \in Int
      BY <1>4
<1>6. /\ x_' = x_ + speed * Cos(yaw_) * dt
      /\ y_' = y_ + speed * Sin(yaw_) * dt
      /\ yaw_' = yaw_ + turn * dt
      /\ last_state_' = state
      /\ odom' = [number |-> state.number, x |-> x_', y |-> y_', yaw |-> yaw_', speed |-> speed]
      /\ first' = IF first = None THEN state.stamp ELSE first
      /\ motions' = motions \cup {<<speed, turn>>}
      /\ core' = Tail(core)
      /\ UNCHANGED <<use_servo_cmd_, drives, speedTopic, servoTopic, driverVars, sensor,
                     last_servo_cmd_>>
      BY DEF StateUsed, Integrate
<1>7. x_ \in Int /\ y_ \in Int /\ yaw_ \in Int /\ Cos(yaw_) \in Int /\ Sin(yaw_) \in Int
      BY <1>1, CosSinType DEF TypeOK
<1> HIDE DEF state, last, dt, speed, turn
<1>8. \A a, b, c, d \in Int : a + b * c * d \in Int /\ a + b * c \in Int
      OBVIOUS
<1>9. x_' \in Int /\ y_' \in Int /\ yaw_' \in Int
      BY <1>3, <1>5, <1>6, <1>7, <1>8
<1>10. TypeOK'
  <2>1. odom' \in [number : Nat, x : Int, y : Int, yaw : Int, speed : Int]
        BY <1>3, <1>4, <1>6, <1>9
  <2>2. motions' \subseteq Int \X Int
        BY <1>1, <1>3, <1>6 DEF TypeOK
  <2>3. first' \in Int \cup {None}
        BY <1>1, <1>4, <1>6 DEF TypeOK
  <2> QED BY <1>1, <1>2, <1>6, <1>9, <2>1, <2>2, <2>3 DEF TypeOK, driverVars
<1>11. Driven'
  <2>1. IsFiniteSet(motions')
        BY <1>1, <1>6, FS_AddElement DEF Driven
  <2>2. motions' # {} /\ last_state_' \in States
        BY <1>2, <1>6
  <2>3. first' \in Int
        BY <1>1, <1>4, <1>6 DEF TypeOK
  <2>4. ASSUME NEW m \in Int \X Int, motions' = {m}
        PROVE  Pose(m, last_state_.stamp - first)'
    <3>1. m = <<speed, turn>> /\ m[1] = speed /\ m[2] = turn
      <4>1. <<speed, turn>> \in {m}
            BY <2>4, <1>6, Zenon
      <4>2. <<speed, turn>> = m
            BY <4>1
      <4> QED BY <4>2
    <3>2. CASE motions = {}
      <4>1. first = None /\ last_state_ = None /\ x_ = 0 /\ y_ = 0 /\ yaw_ = 0
            BY <3>2, <1>1 DEF Driven
      <4>2. dt = 0 /\ first' = state.stamp
            BY <4>1, <1>4, <1>6 DEF dt, last
      <4>3. yaw_' = 0 /\ x_' = 0 /\ y_' = 0
            BY <4>1, <4>2, <1>3, <1>6, <1>7
      <4>4. turn * (state.stamp - state.stamp) = 0 /\ speed * (state.stamp - state.stamp) = 0
            BY <1>3, <1>4, Intervals
      <4> QED BY <3>1, <4>2, <4>3, <4>4, <1>6 DEF Pose
    <3>3. CASE motions # {}
      <4>1. motions = {m}
            BY <3>3, <2>4, <1>6
      <4>2. first \in Int /\ last_state_ \in States /\ first # None /\ last_state_ # None
            BY <3>3, <1>1, AckermannAssumption DEF Driven, States
      <4>3. /\ yaw_ = turn * (last.stamp - first)
            /\ turn = 0 => x_ = speed * (last.stamp - first) /\ y_ = 0
            BY <4>1, <4>2, <3>1, <1>1 DEF Driven, Pose, last
      <4>4. first' = first /\ last_state_' = state
            BY <4>2, <1>6
      <4>5. yaw_' = turn * (state.stamp - first)
            BY <4>2, <4>3, <1>3, <1>4, <1>6, Intervals DEF dt
      <4>6. ASSUME turn = 0 PROVE x_' = speed * (state.stamp - first) /\ y_' = 0
        <5>1. yaw_ = 0
              BY <4>2, <4>3, <4>6, <1>4
        <5>2. x_' = x_ + speed * dt /\ y_' = y_
              BY <5>1, <1>3, <1>5, <1>6, <1>7, Straight
        <5> QED BY <4>2, <4>3, <4>6, <5>2, <1>3, <1>4, Intervals DEF dt
      <4> QED BY <3>1, <4>4, <4>5, <4>6 DEF Pose
    <3> QED BY <3>2, <3>3
  <2> QED BY <2>1, <2>2, <2>3, <2>4 DEF Driven
<1> QED BY <1>10, <1>11 DEF IInv

(* Every step keeps the inductive invariant.                                *)
LEMMA NextIInv == IInv /\ [Next]_vars => IInv'
<1> SUFFICES ASSUME IInv, [Next]_vars PROVE IInv'
    OBVIOUS
<1>1. CASE \E speed \in Speeds, angle \in Angles : ackermannCmdCallback(speed, angle)
      BY <1>1, DriveIInv
<1>2. CASE Driver
      BY <1>2, DriverIInv
<1>3. CASE servoCmdCallback
      BY <1>3, ServoIInv
<1>4. CASE vescStateCallback
      BY <1>4, IgnoredIInv, UsedIInv DEF vescStateCallback
<1>5. CASE UNCHANGED vars
      BY <1>5 DEF vars, IInv, TypeOK, Driven, Pose
<1> QED BY <1>1, <1>2, <1>3, <1>4, <1>5 DEF Next

(* The invariant holds for ever.                                            *)
LEMMA InductiveIInv == Spec => []IInv
BY InitIInv, NextIInv, PTL DEF Spec

-----------------------------------------------------------------------------
(* Every variable of both nodes and their topics keeps its type.            *)
THEOREM TypeCorrect == Spec => []TypeOK
<1>1. IInv => TypeOK
      BY DEF IInv
<1> QED BY <1>1, InductiveIInv, PTL

(* The pose of steady driving depends on the stamps of the first and of the *)
(* last used state only, whatever was dropped or ignored, however often and *)
(* however far the clock was set back (vesc_to_odom.cpp:94-181).            *)
THEOREM PoseOfSteadyDrive == Spec => []SteadyDrive
<1>1. IInv => SteadyDrive
  <2> SUFFICES ASSUME IInv, Cardinality(motions) = 1
               PROVE  LET motion  == CHOOSE m \in motions : TRUE
                          elapsed == last_state_.stamp - first
                      IN  /\ yaw_ = motion[2] * elapsed
                          /\ motion[2] = 0 => x_ = motion[1] * elapsed /\ y_ = 0
      BY DEF SteadyDrive
  <2>1. PICK m : motions = {m}
        BY FS_Singleton DEF IInv, Driven
  <2>2. m \in Int \X Int /\ (CHOOSE n \in motions : TRUE) = m
        BY <2>1 DEF IInv, TypeOK
  <2>3. Pose(m, last_state_.stamp - first)
        BY <2>1, <2>2 DEF IInv, Driven
  <2> QED BY <2>2, <2>3 DEF Pose
<1> QED BY <1>1, InductiveIInv, PTL
=============================================================================
