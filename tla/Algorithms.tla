----------------------------- MODULE Algorithms -----------------------------
(***************************************************************************)
(* What the modules without state promise: CommandLimit, VescCodec,        *)
(* VescMessages and HardwareInterfaces, one input after the other.         *)
(***************************************************************************)
EXTENDS CommandLimit, VescCodec, VescMessages, HardwareInterfaces

CONSTANTS
    Settings,       \* of a parameter of a command topic
    Ranges,         \* that the callers of CommandLimit give: two Bounds
    Steps,          \* the steps of a double in a resolution
    Doubles,        \* commands, counted in steps
    Telemetry,      \* the values of all fields of a Values packet
    Masks,          \* what part of the IMU data a packet holds
    ImuData,        \* the words of all floats of an IMU packet
    Words,          \* words of single floats
    Names, Uuids,   \* of a VESC
    Descriptions    \* what a URDF may say

ASSUME TopicAssumption ==
    /\ Settings \subseteq Optional
    /\ \A range \in Ranges :
           /\ range \in Bounds \X Bounds
           /\ range[1] # None /\ range[2] # None => range[1] <= range[2]

ASSUME CommandAssumption == Steps \in Nat \ {0} /\ Doubles \subseteq Int

ASSUME TelemetryAssumption == \A values \in Telemetry :
    /\ values \in [ValuesFields -> Int]
    /\ \A f \in ValuesFields : values[f] \in Integer(ValuesWidth(f))

ASSUME ImuAssumption ==
    /\ Masks \subseteq SUBSET DOMAIN ImuFields
    /\ ImuData \subseteq [DOMAIN ImuFields -> 0..Modulus(4) - 1]

ASSUME WordAssumption == Words \subseteq 0..Modulus(4) - 2

ASSUME VersionAssumption ==
    Names \subseteq Seq(Byte \ {0}) /\ Uuids \subseteq [1..12 -> Byte]

Component == [states : Seq(Seq(STRING)), commands : Seq(Seq(STRING))]

ASSUME DescriptionAssumption == Descriptions \subseteq
    [device : BOOLEAN, joints : Seq(Component), sensors : Seq(Component)]

VARIABLE input

Topics == [min : Settings, max : Settings, range : Ranges]
TopicLimits(t) == Limits(t.min, t.max, t.range[1], t.range[2])

\* What the firmware appends to a Values packet (external).
Layout == <<"temp_fet", "temp_motor", "avg_motor_current", "avg_input_current",
    "avg_id", "avg_iq", "duty_cycle_now", "rpm", "v_in", "amp_hours",
    "amp_hours_charged", "watt_hours", "watt_hours_charged", "tachometer",
    "tachometer_abs", "fault_code", "pid_pos_now", "controller_id", "temp_mos1",
    "temp_mos2", "temp_mos3", "avg_vd", "avg_vq">>
LayoutWidth == <<2, 2, 4, 4, 4, 4, 2, 4, 2, 4, 4, 4, 4, 4, 4, 1, 4, 1, 2, 2, 2, 4, 4>>
ValuesPayload(values) ==
    <<4>> \o FlattenSeq([i \in DOMAIN Layout |-> PutInt(values[Layout[i]], LayoutWidth[i])])

\* What it sends of its IMU data: the floats that the mask asks for, behind the
\* two bytes of the mask (external).
ImuPayload(mask, words) ==
    <<1, 0, 0>> \o FlattenSeq([i \in DOMAIN ImuFields |->
                                IF i \in mask THEN PutInt(words[i], 4) ELSE <<>>])
Word(w) == getFloat32Auto(PutInt(w, 4), 0)

\* The version packet (external).
VersionPayload(name, uuid, paired) ==
    <<0, 5, 2>> \o name \o <<0>> \o uuid \o <<paired, 7, 9, 0>>

-----------------------------------------------------------------------------
Nothing == [kind |-> "nothing"]

Init == input = Nothing

Topic == \E t \in Topics :
    /\ input = Nothing
    /\ input' = [kind |-> "topic", topic |-> t]

Command == \E name \in Commands, x \in Doubles :
    /\ input = Nothing
    /\ input' = [kind |-> "command", name |-> name, x |-> x]

Values == \E values \in Telemetry :
    /\ input = Nothing
    /\ input' = [kind |-> "values", values |-> values]

Imu == \E mask \in Masks, words \in ImuData :
    /\ input = Nothing
    /\ input' = [kind |-> "imu", mask |-> mask, words |-> words]

Float == \E w \in Words :
    /\ input = Nothing
    /\ input' = [kind |-> "float", word |-> w]

Version == \E name \in Names, uuid \in Uuids, paired \in {0, 1} :
    /\ input = Nothing
    /\ input' = [kind |-> "version", name |-> name, uuid |-> uuid, paired |-> paired]

Description == \E d \in Descriptions :
    /\ input = Nothing
    /\ input' = [kind |-> "description", description |-> d]

NextInput == input # Nothing /\ input' = Nothing

Next == Topic \/ Command \/ Values \/ Imu \/ Float \/ Version \/ Description
        \/ NextInput

Spec == Init /\ [][Next]_input

TypeOK == input \in
    {Nothing}
    \cup [kind : {"topic"}, topic : Topics]
    \cup [kind : {"command"}, name : Commands, x : Doubles]
    \cup [kind : {"values"}, values : Telemetry]
    \cup [kind : {"imu"}, mask : Masks, words : ImuData]
    \cup [kind : {"float"}, word : Words]
    \cup [kind : {"version"}, name : Names, uuid : Uuids, paired : {0, 1}]
    \cup [kind : {"description"}, description : Descriptions]

-----------------------------------------------------------------------------
\* However the user sets the parameters, the limits are in order, and both are
\* values the VESC can do (vesc_driver.cpp:345-436).
LimitsSound ==
    input.kind = "topic" =>
        LET limits == TopicLimits(input.topic)
            range  == input.topic.range
        IN  /\ ~Less(limits.upper, limits.lower)
            /\ IsFeasible(range[1], limits.lower, range[2])
            /\ IsFeasible(range[1], limits.upper, range[2])

\* The VESC reads the command up to the resolution of the field, with its sign
\* and never beyond it, at both ends of the integer's range (the constructors of
\* the Set packets, vesc_packet.cpp:417-525).
CommandTransmitted ==
    input.kind = "command" => Transmitted(input.name, input.x, Steps)

\* Every accessor reads the field that the firmware wrote, with its sign, and
\* no byte of its neighbours (vesc_packet.cpp:167-400).
ValuesRead ==
    input.kind = "values" =>
        LET values  == input.values
            payload == ValuesPayload(values)
        IN  \A f \in ValuesFields : ReadValue(payload, f) = values[f]

\* Whatever part of the IMU data a packet holds, every member that it sets gets
\* the float of its own field (vesc_packet.cpp:528-558), and the answer to a
\* request leaves no member unset (vesc_packet.cpp:677-687).
ImuRead ==
    input.kind = "imu" =>
        LET payload == ImuPayload(input.mask, input.words)
            member(i) == ImuMember(payload, input.mask, i)
        IN  /\ \A i \in input.mask : member(i) = Word(input.words[i])
            /\ input.mask = RequestedImuFields =>
                   \A i \in DOMAIN ImuFields : member(i) # Uninitialized

\* Floats have the order of their words over every change of the exponent and
\* from 0 to the smallest one, strictly where a float is normal; a sign turns it
\* round (vesc_packet.cpp:565-591).
FloatKeepsOrder ==
    input.kind = "float" =>
        LET w    == input.word
            sign == Fraction * Exponent
            normal == (w \div Fraction) % Exponent \in 1..Exponent - 2
        IN  IF w >= sign
            THEN /\ Word(w + 1) <= Word(w)
                 /\ normal => Word(w + 1) < Word(w)
            ELSE w + 1 # sign =>
                 /\ Word(w) <= Word(w + 1)
                 /\ normal => Word(w) < Word(w + 1)

\* A version packet with a name, of any length, gives the name, the uuid and the
\* pairing of the VESC (vesc_packet.cpp:102-121).
VersionRead ==
    input.kind = "version" /\ input.name # <<>> =>
        LET v == FWVersion(VersionPayload(input.name, input.uuid, input.paired)) IN
        /\ v.hwname = input.name
        /\ v.uuid = input.uuid
        /\ v.paired = (input.paired = 1)

\* A VescState says the same whichever of the two publishes it, and leaves no
\* field of the packet out; so do the vectors of a VescImu, of the standard Imu
\* and of the interfaces of a sensor, whatever the packet holds.  The angles are those
\* of the component only, yaw first as VescImu.msg has them: the driver's are in
\* another order (vesc_driver.cpp:163-191, 211-246, vesc_hardware.cpp:800-923).
TelemetryAgrees ==
    /\ input.kind = "values" =>
           LET payload == ValuesPayload(input.values)
               packet  == [f \in ValuesFields |-> ReadValue(payload, f)]
           IN  /\ Fill(DriverState, packet) = Fill(HardwareState, packet)
               /\ {DriverState[f] : f \in DOMAIN DriverState} = ValuesFields
    /\ input.kind = "imu" =>
           LET payload == ImuPayload(input.mask, input.words)
               Index(a) == CHOOSE i \in DOMAIN ImuFields : ImuFields[i] = ImuAccessors[a]
               packet  == [a \in DOMAIN ImuAccessors |->
                               ImuMember(payload, input.mask, Index(a))]
               Vector(table, group) == Fill(table[group], packet)
               angles  == Vector(ImuAtomics, "euler_angles")
           IN  /\ \A group \in DOMAIN HardwareImu \ {"ypr"} :
                      Vector(DriverImu, group) = Vector(HardwareImu, group)
               /\ \A group \in DOMAIN DriverStandardImu :
                      /\ Vector(DriverStandardImu, group) = Vector(HardwareImu, group)
                      /\ Vector(ImuAtomics, group) = Vector(HardwareImu, group)
               /\ Vector(ImuAtomics, "magnetic_field") = Vector(HardwareImu, "compass")
               /\ Vector(HardwareImu, "ypr") = XYZ(angles.yaw, angles.pitch, angles.roll)

-----------------------------------------------------------------------------
Accepted(d) == "SUCCESS" \in on_init(d)

\* In an accepted description every name is there once, in the whole of it, and
\* no interface is asked for by two components (vesc_hardware.cpp:583-592,
\* 628-634).
AcceptedOnce ==
    input.kind = "description" /\ Accepted(input.description) =>
        EveryInterfaceOnce(input.description)

\* The joint of an accepted description is a motor or a servo and never both, in
\* states and commands together (vesc_hardware.cpp:652-689).
RotorOrServo ==
    input.kind = "description" /\ Accepted(input.description) =>
        MotorOrServo(input.description)

\* A joint without a fault is accepted, whatever the order of its interfaces, and
\* no mark of it keeps a sensor from being accepted.  But a sensor never is for
\* certain: with groups only, it rests on the first element of an empty set
\* (vesc_hardware.cpp:150-203, 691).
ValidIsAccepted ==
    input.kind = "description" /\ Faultless(input.description) =>
        LET d == input.description IN
        on_init(d) = IF d.sensors = <<>> THEN {"SUCCESS"} ELSE {"SUCCESS", "ERROR"}

\* vesc_hardware.cpp:659 "Ensure there is only a single type and is equal to the
\* expected type, and that there is only a single group": of a description that
\* is certainly accepted.
AcceptedMatchesTag ==
    input.kind = "description" /\ on_init(input.description) = {"SUCCESS"} =>
        LET d == input.description IN
        \A i \in DOMAIN Components(d) : MatchesTag(Components(d)[i], Tag(d, i))
=============================================================================
