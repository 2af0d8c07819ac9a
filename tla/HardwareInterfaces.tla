------------------------ MODULE HardwareInterfaces ------------------------
(***************************************************************************)
(* VescHardware::on_init (vesc_hardware.cpp): which descriptions of a      *)
(* joint and its sensors the ros2_control component accepts.               *)
(*                                                                         *)
(* A description is a record [device, joints, sensors], a component of it  *)
(* a record [states, commands] of sequences of names.  The name of an      *)
(* interface is the sequence of its parts: "orientation.x" is              *)
(* <<"orientation", "x">>, and its group is <<"orientation">>.             *)
(***************************************************************************)
EXTENDS Naturals, Sequences, FiniteSets, SequencesExt

(* The tables of populate_state_definitions and populate_command_definitions *)

RotorStates == {<<"position">>, <<"velocity">>, <<"average_id">>, <<"average_iq">>,
                <<"average_vd">>, <<"average_vq">>, <<"duty_cycle">>}
Axes(group) == CASE group = "orientation"  -> {"x", "y", "z", "w"}
                 [] group = "euler_angles" -> {"roll", "pitch", "yaw"}
                 [] OTHER                  -> {"x", "y", "z"}
ImuStates == UNION {{<<group, axis>> : axis \in Axes(group)} :
    group \in {"orientation", "euler_angles", "angular_velocity",
               "linear_acceleration", "magnetic_field"}}
state_interfaces_ == {<<"servo">>} \cup RotorStates \cup ImuStates

RotorCommands == {<<"position">>, <<"velocity">>, <<"duty_cycle">>, <<"current">>, <<"brake">>}
command_interfaces_ == {<<"servo">>} \cup RotorCommands

ComponentGroup(name) == IF name = <<"servo">> THEN "SERVO"
                        ELSE IF name \in ImuStates THEN "IMU" ELSE "ROTOR"
ComponentType(name) == IF name \in ImuStates THEN "SENSOR" ELSE "JOINT"

get_state_interface_groups == {<<name[1]>> : name \in state_interfaces_}

\* The interfaces that a name stands for: itself, or all of its group.
Named(name) == {n \in state_interfaces_ : n = name \/ (Len(name) = 1 /\ n[1] = name[1])}

-----------------------------------------------------------------------------
(* Marking: what is requested so far, and whether nothing was rejected.     *)

NoMarks == [ok |-> TRUE, states |-> {}, commands |-> {}]

\* Mutation of MarkState: a name may be requested again.
MarkStateAgain(marks, name) ==
    IF name \in get_state_interface_groups
    THEN [marks EXCEPT !.states = @ \cup Named(name)]
    ELSE [marks EXCEPT !.ok = FALSE]

\* A state interface has to be the name of a group or of a single interface, and
\* nothing that it stands for may be requested already.
MarkState(marks, name) ==
    IF name \in get_state_interface_groups /\ Named(name) \cap marks.states = {}
    THEN [marks EXCEPT !.states = @ \cup Named(name)]
    ELSE [marks EXCEPT !.ok = FALSE]

\* Mutation of MarkCommand: states and commands of one name share their mark.
MarkCommandShared(marks, name) ==
    IF name \in command_interfaces_ \ (marks.commands \cup marks.states)
    THEN [marks EXCEPT !.commands = @ \cup {name}]
    ELSE [marks EXCEPT !.ok = FALSE]

MarkCommand(marks, name) ==
    IF name \in command_interfaces_ \ marks.commands
    THEN [marks EXCEPT !.commands = @ \cup {name}]
    ELSE [marks EXCEPT !.ok = FALSE]

\* No interface at all is a warning.
MarkComponent(marks, c) ==
    FoldLeft(MarkCommand, FoldLeft(MarkState, marks, c.states), c.commands)

-----------------------------------------------------------------------------
(* validate_status_and_command_mix                                          *)

\* Mutation of Seen: only the state interfaces are looked at.
SeenStates(c) == ToSet(c.states) \cap state_interfaces_

\* The interfaces of a component that it finds in its tables, by whole names: a
\* group is not one of them.
Seen(c) == (ToSet(c.states) \cap state_interfaces_)
            \cup (ToSet(c.commands) \cap command_interfaces_)

\* *types_seen.begin(): of an empty set it is whatever lies behind its end.
FirstType(types) == IF types = {} THEN {"JOINT", "SENSOR", "neither"} ELSE types

\* One group at most, and one type, the one of the tag: the possible answers.
ValidMix(c, tag) ==
    LET types == {ComponentType(n) : n \in Seen(c)} IN
    {/\ Cardinality({ComponentGroup(n) : n \in Seen(c)}) <= 1
     /\ Cardinality(types) <= 1
     /\ first = tag : first \in FirstType(types)}

-----------------------------------------------------------------------------
Components(d) == d.joints \o d.sensors
Tag(d, i) == IF i <= Len(d.joints) THEN "JOINT" ELSE "SENSOR"

\* What on_init may return: without a device, or with another number of joints
\* than one, ERROR; then the components are validated one after the other.
on_init(d) ==
    IF d.device /\ Len(d.joints) = 1 /\ FoldLeft(MarkComponent, NoMarks, Components(d)).ok
    THEN LET mix(i) == ValidMix(Components(d)[i], Tag(d, i)) IN
         {r \in {"SUCCESS", "ERROR"} :
             IF r = "SUCCESS" THEN \A i \in DOMAIN Components(d) : TRUE \in mix(i)
             ELSE \E i \in DOMAIN Components(d) : FALSE \in mix(i)}
    ELSE {"ERROR"}

-----------------------------------------------------------------------------
(* What is expected of an answer.                                           *)

States(c) == UNION {Named(name) : name \in ToSet(c.states)}
Disjoint(c, d) == States(c) \cap States(d) = {} /\ ToSet(c.commands) \cap ToSet(d.commands) = {}

\* Every name is there once in the whole description, and no interface is asked
\* for by two components.
EveryInterfaceOnce(d) ==
    \A i \in DOMAIN Components(d) :
        LET c == Components(d)[i] IN
        /\ IsInjective(c.states) /\ IsInjective(c.commands)
        /\ \A j \in DOMAIN Components(d) \ {i} : Disjoint(c, Components(d)[j])

\* The joint is a motor or a servo and never both, in states and commands
\* together: VescHardware is built on that.
MotorOrServo(d) ==
    LET joint == d.joints[1] IN
    ~(/\ <<"servo">> \in States(joint) \cup ToSet(joint.commands)
      /\ (RotorStates \cap States(joint)) \cup (RotorCommands \cap ToSet(joint.commands)) # {})

\* A component has interfaces of one group and of the type of its tag, groups
\* included.
MatchesTag(c, tag) ==
    /\ \A n \in States(c) \cup ToSet(c.commands) : ComponentType(n) = tag
    /\ \A m, n \in States(c) \cup ToSet(c.commands) : ComponentGroup(m) = ComponentGroup(n)

\* Nothing is wrong with the description.  The joint has an interface that is
\* looked at; a sensor has none: its states are names of groups.
Faultless(d) ==
    /\ d.device
    /\ Len(d.joints) = 1
    /\ EveryInterfaceOnce(d)
    /\ \A i \in DOMAIN Components(d) :
           LET c == Components(d)[i] IN
           /\ ToSet(c.states) \subseteq get_state_interface_groups
           /\ ToSet(c.commands) \subseteq command_interfaces_
           /\ MatchesTag(c, Tag(d, i))
    /\ Seen(d.joints[1]) # {}
=============================================================================
