---------------------------- MODULE VescHardware ----------------------------
(***************************************************************************)
(* The ros2_control component VescHardware (vesc_hardware.cpp) once        *)
(* on_init has accepted its description: the lifecycle callbacks and       *)
(* read() and write(), called by the controller manager's thread, against  *)
(* vescPacketCallback, which the receive thread of vesc_interface_, a      *)
(* VescInterface, calls.                                                   *)
(*                                                                         *)
(* A step of the component makes one step of the interface or leaves its   *)
(* variables, vars, alone; a new VescInterface is one that is not          *)
(* connected.  Telemetry is numbered: the n-th Values packet carries n in  *)
(* every field, in mechanical units, and 0 is the initial value; after     *)
(* MaxPacket packets it no longer changes.                                 *)
(***************************************************************************)
EXTENDS VescInterface, FiniteSets

CONSTANTS
    Joints,             \* descriptions: the state and command interfaces of a joint
    Commands,           \* values that controllers command, NaN included
    gear_ratio,
    pole_pairs,
    None,               \* no value yet
    NaN,
    MaxPacket           \* bound on the Values packets

\* The atomics in the order in which processValuesPacket stores them.
ValuesFields == <<"position", "velocity", "avg_id", "avg_iq", "avg_vd",
                  "avg_vq", "duty_cycle">>
Fields == {ValuesFields[i] : i \in DOMAIN ValuesFields}

\* The interfaces of a joint that on_init accepts: ROTOR or SERVO, and names of
\* groups, which are no names of the tables (HardwareInterfaces).
RotorStates == Fields
RotorCommands == {"position", "velocity", "duty_cycle", "current", "brake"}
Groups == {"orientation", "euler_angles", "angular_velocity", "linear_acceleration",
           "magnetic_field"}

ASSUME HardwareAssumption ==
    /\ Asked = Packets
    /\ Joints \subseteq
           [states : SUBSET (RotorStates \cup Groups), commands : SUBSET RotorCommands]
               \cup [states : SUBSET ({"servo"} \cup Groups), commands : SUBSET {"servo"}]
    /\ Commands \subseteq Int \cup {NaN}
    /\ gear_ratio \in Int /\ pole_pairs \in Int
    /\ None \notin Int /\ NaN \notin Int /\ NaN # None
    /\ MaxPacket \in Nat

VARIABLES
    joint,              \* the description that on_init has accepted
    lifecycle,          \* ros2_control's state of the component
    call,               \* the call that the controller manager's thread is in
    toRead,             \* the interfaces that read() has still to copy
    vesc_interface_,    \* whether the pointer is set
    states,             \* the state interfaces
    commands,           \* the command interfaces
    commanded,          \* those written by a controller in this activation
    hw_state,           \* the atomics hw_state_position_ ... hw_duty_cycle_
    hw_command_servo_,
    packet,             \* the number of the last Values packet
    stored,             \* the fields of it that are stored, 0 outside the callback
    since,              \* packet at the last activation
    sent                \* the last command of each kind sent to the VESC

managerVars == <<lifecycle, call, vesc_interface_, since>>
interfaceVars == <<states, commands, toRead>>
callbackVars == <<hw_state, packet, stored>>
commandVars == <<hw_command_servo_, sent>>
componentVars == <<joint, managerVars, interfaceVars, commanded, callbackVars, commandVars>>
allVars == <<vars, componentVars>>

\* joint_state_interfaces_ and joint_command_interfaces_.
StateInterfaces == joint.states
CommandInterfaces == joint.commands

HardwareInit ==
    /\ Init
    /\ joint \in Joints
    /\ lifecycle = "unconfigured"
    /\ call = "none"
    /\ toRead = {}
    /\ vesc_interface_ = FALSE
    /\ states = [i \in StateInterfaces |-> None]
    /\ commands = [i \in CommandInterfaces |-> None]
    /\ commanded = {}
    /\ hw_state = [f \in Fields |-> 0]
    /\ hw_command_servo_ = 0
    /\ packet = 0
    /\ stored = 0
    /\ since = 0
    /\ sent = [i \in CommandInterfaces |-> None]

-----------------------------------------------------------------------------
(* Conversions: degrees and revolutions per minute are radians and radians  *)
(* per second in other units; gear_ratio and pole_pairs remain.  Arithmetic *)
(* passes NaN on, and so does std::clamp: both of its comparisons are false. *)

convertMechanicalRadToDeg(position) == position * gear_ratio
convertMechanicalRadSecToERPM(velocity) == velocity * gear_ratio * pole_pairs
clamp(value) == IF value < 0 THEN 0 ELSE IF value > 1 THEN 1 ELSE value

\* What command_interfaces_[kind].set_command sends for a value.
Sends(kind, value) ==
    IF value = NaN THEN NaN
    ELSE CASE kind = "position"   -> convertMechanicalRadToDeg(value)
           [] kind = "velocity"   -> convertMechanicalRadSecToERPM(value)
           [] kind = "duty_cycle" -> clamp(value)
           [] OTHER               -> value

-----------------------------------------------------------------------------
(* Lifecycle callbacks.                                                     *)

on_configure ==
    /\ call = "none"
    /\ lifecycle = "unconfigured"
    /\ lifecycle' = "inactive"
    /\ states' = [i \in StateInterfaces |-> 0]
    /\ commands' = [i \in CommandInterfaces |-> 0]
    /\ UNCHANGED <<vars, joint, call, vesc_interface_, since, toRead, commanded,
                   callbackVars, commandVars>>

\* on_activate makes a VescInterface.  When the pointer is still set, from a call
\* of on_activate that threw, the old one is destroyed: it disconnects ...
ReplaceStops ==
    /\ call = "none"
    /\ lifecycle = "inactive"
    /\ vesc_interface_
    /\ DisconnectStops(FALSE)
    /\ call' = "replace"
    /\ UNCHANGED <<joint, lifecycle, vesc_interface_, since, interfaceVars, commanded,
                   callbackVars, commandVars>>

\* ... and the new one is there, not connected ...
ReplaceCloses ==
    /\ call = "replace"
    /\ DisconnectCloses
    /\ call' = "replaced"
    /\ UNCHANGED <<joint, lifecycle, vesc_interface_, since, interfaceVars, commanded,
                   callbackVars, commandVars>>

\* ... unless the port of the old one has failed (DeactivateUnwinds).
ReplaceUnwinds ==
    /\ call = "none"
    /\ lifecycle = "inactive"
    /\ vesc_interface_
    /\ DestroyFailed
    /\ call' = "unwinding"
    /\ UNCHANGED <<joint, lifecycle, vesc_interface_, since, interfaceVars, commanded,
                   callbackVars, commandVars>>

NewInterface == \/ call = "none" /\ lifecycle = "inactive" /\ ~vesc_interface_
                \/ call = "replaced"

\* Mutation of ActivateOpens: the atomics are reset with the connection.
ActivateResets ==
    /\ NewInterface
    /\ ConnectOpens
    /\ call' = "connect"
    /\ vesc_interface_' = TRUE
    /\ since' = packet
    /\ hw_state' = [f \in Fields |-> 0]
    /\ UNCHANGED <<joint, lifecycle, interfaceVars, commanded, packet, stored,
                   commandVars>>

\* It connects the new interface: the port is opened ...
ActivateOpens ==
    /\ NewInterface
    /\ ConnectOpens
    /\ call' = "connect"
    /\ vesc_interface_' = TRUE
    /\ since' = packet
    /\ UNCHANGED <<joint, lifecycle, interfaceVars, commanded, callbackVars, commandVars>>

\* ... or not: the pointer stays set, and the component is given up.
ActivateFails ==
    /\ NewInterface
    /\ ConnectFails
    /\ call' = "none"
    /\ vesc_interface_' = TRUE
    /\ lifecycle' = "finalized"
    /\ UNCHANGED <<joint, since, interfaceVars, commanded, callbackVars, commandVars>>

\* ... the receive thread is started ...
ActivateStartsThread ==
    /\ call = "connect"
    /\ ConnectStartsThread
    /\ call' = "version"
    /\ UNCHANGED <<joint, lifecycle, vesc_interface_, since, interfaceVars, commanded,
                   callbackVars, commandVars>>

\* What is sent to a port that has failed goes nowhere.
Sent(name) == Request(name) \/ (~isConnected /\ UNCHANGED vars)

\* ... the version is asked for ...
ActivateRequestsVersion ==
    /\ call = "version"
    /\ Sent("FWVersion")
    /\ call' = "synchronize"
    /\ UNCHANGED <<joint, lifecycle, vesc_interface_, since, interfaceVars, commanded,
                   callbackVars, commandVars>>

\* ... and set_command() copies every state to the command of the same name ...
ActivateSynchronizes ==
    /\ call = "synchronize"
    /\ StateInterfaces \subseteq CommandInterfaces
    /\ commands' = [i \in CommandInterfaces |->
                        IF i \in StateInterfaces THEN states[i] ELSE commands[i]]
    /\ lifecycle' = "active"
    /\ call' = "none"
    /\ commanded' = {}
    /\ UNCHANGED <<vars, joint, vesc_interface_, since, states, toRead, callbackVars,
                   commandVars>>

\* ... or throws at the first, in the order of a hash table, that has no command:
\* the exception leaves on_activate, and the component is INACTIVE and connected.
ActivateThrows ==
    /\ call = "synchronize"
    /\ \E copied \in SUBSET (StateInterfaces \cap CommandInterfaces) :
           commands' = [i \in CommandInterfaces |->
                            IF i \in copied THEN states[i] ELSE commands[i]]
    /\ ~(StateInterfaces \subseteq CommandInterfaces)
    /\ call' = "none"
    /\ UNCHANGED <<vars, joint, lifecycle, vesc_interface_, since, states, toRead,
                   commanded, callbackVars, commandVars>>

\* on_deactivate calls disconnect() ...
DeactivateStops ==
    /\ call = "none"
    /\ lifecycle = "active"
    /\ DisconnectStops(FALSE)
    /\ call' = "deactivate"
    /\ UNCHANGED <<joint, lifecycle, vesc_interface_, since, interfaceVars, commanded,
                   callbackVars, commandVars>>

\* ... which waits for the receive thread ...
DeactivateDisconnects ==
    /\ call \in {"deactivate", "replace"}
    /\ DisconnectWakes \/ DisconnectJoins
    /\ UNCHANGED componentVars

\* Mutation of DeactivateResets: the pointer stays set.
DeactivateKeepsPointer ==
    /\ call = "deactivate"
    /\ DisconnectCloses
    /\ lifecycle' = "inactive"
    /\ call' = "none"
    /\ UNCHANGED <<joint, vesc_interface_, since, interfaceVars, commanded, callbackVars,
                   commandVars>>

\* ... and closes the port; then it resets the pointer.
DeactivateResets ==
    /\ call = "deactivate"
    /\ DisconnectCloses
    /\ vesc_interface_' = FALSE
    /\ lifecycle' = "inactive"
    /\ call' = "none"
    /\ UNCHANGED <<joint, since, interfaceVars, commanded, callbackVars, commandVars>>

\* disconnect() does nothing when the port has failed; reset() clears the pointer
\* and destroys the interface, whose thread may be in the callback ...
DeactivateUnwinds ==
    /\ call = "none"
    /\ lifecycle = "active"
    /\ DestroyFailed
    /\ vesc_interface_' = FALSE
    /\ call' = "unwinding"
    /\ UNCHANGED <<joint, lifecycle, since, interfaceVars, commanded, callbackVars,
                   commandVars>>

\* ... and has not been joined: the process ends.
DestructorTerminates ==
    /\ call = "unwinding"
    /\ Terminate
    /\ call' = "terminated"
    /\ UNCHANGED <<joint, lifecycle, vesc_interface_, since, interfaceVars, commanded,
                   callbackVars, commandVars>>

-----------------------------------------------------------------------------
(* read() and write(), in the states INACTIVE and ACTIVE.                   *)

\* Mutation of ReadRequestsState: requestState() is not called.
ReadRequestsNothing ==
    /\ call = "none"
    /\ lifecycle \in {"inactive", "active"}
    /\ call' = "imu"
    /\ UNCHANGED <<vars, joint, lifecycle, vesc_interface_, since, interfaceVars,
                   commanded, callbackVars, commandVars>>

\* read() asks for the telemetry, when there is an interface ...
ReadRequestsState ==
    /\ call = "none"
    /\ lifecycle \in {"inactive", "active"}
    /\ IF vesc_interface_ THEN Sent("Values") ELSE UNCHANGED vars
    /\ call' = "imu"
    /\ UNCHANGED <<joint, lifecycle, vesc_interface_, since, interfaceVars, commanded,
                   callbackVars, commandVars>>

\* ... and for the IMU data ...
ReadRequestsImu ==
    /\ call = "imu"
    /\ IF vesc_interface_ THEN Sent("ImuData") ELSE UNCHANGED vars
    /\ call' = "read"
    /\ toRead' = StateInterfaces
    /\ UNCHANGED <<joint, lifecycle, vesc_interface_, since, states, commands, commanded,
                   callbackVars, commandVars>>

\* Mutation of get_value: the servo's state is its command interface.
CommandValue(i) == IF i = "servo" THEN commands[i] ELSE hw_state[i]

\* state_interfaces_[i].get_value()
get_value(i) == IF i = "servo" THEN hw_command_servo_ ELSE hw_state[i]

\* ... and copies the interfaces one by one, in the order of a hash table; the
\* name of a group is not in state_interfaces_.
ReadInterface ==
    /\ call = "read"
    /\ \E i \in toRead :
           /\ states' = IF i \in Groups THEN states ELSE [states EXCEPT ![i] = get_value(i)]
           /\ toRead' = toRead \ {i}
    /\ UNCHANGED <<vars, joint, managerVars, commands, commanded, callbackVars, commandVars>>

ReadReturns ==
    /\ call = "read"
    /\ toRead = {}
    /\ call' = "none"
    /\ UNCHANGED <<vars, joint, lifecycle, vesc_interface_, since, interfaceVars, commanded,
                   callbackVars, commandVars>>

\* write() sends every command interface of the joint; over a port that has
\* failed nothing reaches the VESC.
write ==
    /\ call = "none"
    /\ lifecycle \in {"inactive", "active"}
    /\ vesc_interface_
    /\ sent' = IF isConnected THEN [i \in CommandInterfaces |-> Sends(i, commands[i])]
               ELSE sent
    /\ hw_command_servo_' = IF "servo" \in CommandInterfaces THEN commands["servo"]
                            ELSE hw_command_servo_
    /\ UNCHANGED <<vars, joint, managerVars, interfaceVars, commanded, callbackVars>>

\* Without an interface it returns ERROR, and the component is given up.
WriteFails ==
    /\ call = "none"
    /\ lifecycle = "inactive"
    /\ ~vesc_interface_
    /\ lifecycle' = "finalized"
    /\ UNCHANGED <<vars, joint, call, vesc_interface_, since, interfaceVars, commanded,
                   callbackVars, commandVars>>

-----------------------------------------------------------------------------
(* vescPacketCallback, in the receive thread.                               *)

Arrives(s, name) ==
    /\ thread[s] = "handle"
    /\ batch # <<>>
    /\ Head(batch) = name

\* processValuesPacket stores the fields of a Values packet one by one ...
ValuesArrives(s) ==
    /\ Arrives(s, "Values")
    /\ stored = 0
    /\ packet < MaxPacket
    /\ packet' = packet + 1
    /\ hw_state' = [hw_state EXCEPT ![ValuesFields[1]] = packet + 1]
    /\ stored' = 1
    /\ UNCHANGED <<vars, joint, managerVars, interfaceVars, commanded, commandVars>>

\* ... and publishes it or, when trylock() fails, does not (VescMessages).
StoreField(s) ==
    /\ stored \in 1..Len(ValuesFields) - 1
    /\ hw_state' = [hw_state EXCEPT ![ValuesFields[stored + 1]] = packet]
    /\ stored' = (stored + 1) % Len(ValuesFields)
    /\ IF stored' = 0 THEN Handle(s) ELSE Arrives(s, "Values") /\ UNCHANGED vars
    /\ UNCHANGED <<joint, managerVars, interfaceVars, commanded, packet, commandVars>>

\* A version is logged, and the values of an IMU packet are stored for interfaces
\* that read() does not copy; telemetry that repeats the last changes nothing.
OtherPacket(s) ==
    /\ Arrives(s, "FWVersion") \/ Arrives(s, "ImuData")
       \/ (Arrives(s, "Values") /\ stored = 0 /\ packet = MaxPacket)
    /\ Handle(s)
    /\ UNCHANGED componentVars

\* What the thread does besides its callbacks.
ThreadRuns(s) ==
    /\ Check(s) \/ Repeat(s) \/ \E n \in 1..Len(answers) : Receive(s, n)
    /\ UNCHANGED componentVars

-----------------------------------------------------------------------------
(* External: the VESC and the line, the framework and the controllers.      *)

VescAnswers == Answer /\ UNCHANGED componentVars

Faults == /\ Lose \/ PortFails \/ \E s \in Sessions : ReceiveFails(s)
          /\ UNCHANGED componentVars

on_cleanup ==
    /\ call = "none"
    /\ lifecycle = "inactive"
    /\ lifecycle' = "unconfigured"
    /\ UNCHANGED <<vars, joint, call, vesc_interface_, since, interfaceVars, commanded,
                   callbackVars, commandVars>>

\* A controller writes an interface that it has claimed, while ACTIVE.
Update ==
    /\ call = "none"
    /\ lifecycle = "active"
    /\ \E i \in CommandInterfaces, v \in Commands :
           /\ commands' = [commands EXCEPT ![i] = v]
           /\ commanded' = commanded \cup {i}
    /\ UNCHANGED <<vars, joint, managerVars, states, toRead, callbackVars, commandVars>>

-----------------------------------------------------------------------------
Replace == ReplaceStops \/ ReplaceCloses \/ ReplaceUnwinds
Activate == \/ ActivateOpens \/ ActivateFails \/ ActivateStartsThread
            \/ ActivateRequestsVersion \/ ActivateSynchronizes \/ ActivateThrows
Deactivate == \/ DeactivateStops \/ DeactivateDisconnects \/ DeactivateResets
              \/ DeactivateUnwinds \/ DestructorTerminates
read == ReadRequestsState \/ ReadRequestsImu \/ ReadInterface \/ ReadReturns
ReceiveThread(s) == ValuesArrives(s) \/ StoreField(s) \/ OtherPacket(s) \/ ThreadRuns(s)

HardwareNext == \/ on_configure \/ Replace \/ Activate \/ Deactivate \/ on_cleanup
                \/ read \/ write \/ WriteFails \/ Update
                \/ \E s \in Sessions : ReceiveThread(s)
                \/ VescAnswers \/ Faults

HardwareSpec == HardwareInit /\ [][HardwareNext]_allVars

\* The manager calls read() in a loop, the receive thread runs, and a VESC that
\* is asked for its telemetry again and again answers.
FairHardwareSpec ==
    /\ HardwareSpec
    /\ WF_allVars(read)
    /\ \A s \in Sessions : WF_allVars(ReceiveThread(s))
    /\ WF_allVars(VescAnswers)
    /\ SF_allVars(VescAnswers /\ Head(requests) = "Values")

-----------------------------------------------------------------------------
HardwareTypeOK ==
    /\ joint \in Joints
    /\ lifecycle \in {"unconfigured", "inactive", "active", "finalized"}
    /\ call \in {"none", "replace", "replaced", "connect", "version", "synchronize",
                 "deactivate", "unwinding", "terminated", "imu", "read"}
    /\ toRead \subseteq StateInterfaces
    /\ vesc_interface_ \in BOOLEAN
    /\ states \in [StateInterfaces -> Int \cup {None, NaN}]
    /\ commands \in [CommandInterfaces -> Int \cup {None, NaN}]
    /\ commanded \subseteq CommandInterfaces
    /\ hw_state \in [Fields -> 0..MaxPacket]
    /\ hw_command_servo_ \in Int \cup {NaN}
    /\ packet \in 0..MaxPacket
    /\ stored \in 0..Len(ValuesFields) - 1
    /\ since \in 0..MaxPacket
    /\ sent \in [CommandInterfaces -> Int \cup {None, NaN}]

\* The atomics that the receive thread stores while read() copies them come from
\* two successive packets at most, the newer values before the older.
AtomicsFromTwoPackets ==
    \A i \in DOMAIN ValuesFields :
        hw_state[ValuesFields[i]] = IF stored = 0 \/ i <= stored THEN packet ELSE packet - 1

\* A state interface never goes back to an older packet, whatever packets
\* arrive during a read() and over any deactivation; only on_configure resets it.
StatesNeverOlder ==
    [][lifecycle # "unconfigured" =>
           \A f \in StateInterfaces \cap Fields : states'[f] >= states[f]]_allVars

\* Whenever write() may be called with an interface, that interface has been
\* connected, and the component is ACTIVE, unless on_activate threw: then it is
\* INACTIVE, and can never be ACTIVE.
CommandsWhenActive ==
    call = "none" /\ lifecycle \in {"inactive", "active"} /\ vesc_interface_ =>
        /\ port \in {"open", "failed"}
        /\ lifecycle = "active" <=> StateInterfaces \subseteq CommandInterfaces

\* The receive thread is inside of the component's callback only while the pointer
\* is set: on_deactivate returns, and an interface is replaced, after the last
\* packet has been stored.  After a failure of the port it may be there without
\* the interface, until the process ends.
CallbackWithInterface ==
    stored # 0 \/ batch # <<>> =>
        \/ vesc_interface_ /\ lifecycle # "finalized" /\ call # "replaced"
        \/ port = "failed" /\ call \in {"unwinding", "terminated"}

\* Whoever commanded it, the duty cycle that is sent is in [0, 1] or a NaN that a
\* controller commanded, which std::clamp lets pass.
DutyCycleClamped ==
    "duty_cycle" \in CommandInterfaces =>
        sent["duty_cycle"] \in {None, 0, 1} \cup (Commands \cap {NaN})

\* The state of the servo, which the VESC does not report, is the last command
\* that was sent, through any reactivation: what read() copies is what was sent,
\* unless the port has failed.
LastServo == IF sent["servo"] = None THEN 0 ELSE sent["servo"]
ServoIsLastCommand ==
    [][call = "read" /\ call' = "none" /\ "servo" \in StateInterfaces \cap CommandInterfaces
           => states["servo"] = LastServo \/ port = "failed"]_allVars

\* While the component is active and the port works, its states come to show
\* telemetry that was received in this activation.
TelemetryArrives ==
    lifecycle = "active" /\ since < MaxPacket
        ~> \/ lifecycle # "active" \/ call = "deactivate" \/ ~isConnected
           \/ \A f \in StateInterfaces \cap Fields : states[f] > since

-----------------------------------------------------------------------------
\* vesc_hardware.cpp:280 "Synchronize command with current state": a command
\* that no controller has given since the activation holds what the VESC has
\* reported since then.
SentIsCurrentState ==
    [][\A i \in (CommandInterfaces \cap Fields) \ commanded :
           sent'[i] # sent[i] => \E n \in since+1..packet : sent'[i] = Sends(i, n)]_allVars
=============================================================================
