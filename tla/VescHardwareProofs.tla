------------------------- MODULE VescHardwareProofs -------------------------
(***************************************************************************)
(* Proofs about VescHardware, for every joint that on_init accepts, every  *)
(* command, gear ratio and number of pole pairs, and any number of packets *)
(* and requests: the component uses its VescInterface as VescInterface     *)
(* specifies, so what is proved there holds of vesc_interface_.            *)
(***************************************************************************)
EXTENDS VescHardware, VescInterfaceProofs

(* The fields of a packet, by their index.                                  *)
LEMMA FieldsByIndex ==
    /\ Len(ValuesFields) = 7 /\ DOMAIN ValuesFields = 1..7
    /\ ValuesFields[1] = "position" /\ ValuesFields[2] = "velocity"
    /\ ValuesFields[3] = "avg_id" /\ ValuesFields[4] = "avg_iq"
    /\ ValuesFields[5] = "avg_vd" /\ ValuesFields[6] = "avg_vq"
    /\ ValuesFields[7] = "duty_cycle"
BY DEF ValuesFields

(* Different indices are different fields, and "servo" is none.             *)
LEMMA FieldsDistinct ==
    /\ \A i \in 1..7 : ValuesFields[i] \in Fields
    /\ \A i, j \in 1..7 : ValuesFields[i] = ValuesFields[j] => i = j
    /\ \A f \in Fields : \E i \in 1..7 : f = ValuesFields[i]
    /\ "servo" \notin Fields \cup Groups
    /\ Fields \cap Groups = {}
<1>1. \A i, j \in 1..7 : ValuesFields[i] = ValuesFields[j] => i = j
      BY FieldsByIndex
<1>2. \A i \in 1..7 : ValuesFields[i] \notin {"servo"} \cup Groups
      BY FieldsByIndex DEF Groups
<1> QED BY <1>1, <1>2, FieldsByIndex DEF Fields, Groups

-----------------------------------------------------------------------------
\* What an interface may hold once it is configured: NaN if a controller gives it.
Value == Int \cup (Commands \cap {NaN})

\* Once configured, every interface has a value, and that of a field is a number.
Configured ==
    /\ hw_command_servo_ \in Value
    /\ lifecycle # "unconfigured" =>
        /\ states \in [StateInterfaces -> Value]
        /\ \A f \in StateInterfaces \cap Fields : states[f] \in Int
        /\ commands \in [CommandInterfaces -> Value]

Activating == {"connect", "version", "synchronize"}
Replacing == {"replace", "replaced"}
Ending == {"unwinding", "terminated"}

\* Which calls are made in which state.
Calls ==
    /\ call \in Activating \cup Replacing => lifecycle = "inactive"
    /\ call = "deactivate" => lifecycle = "active"
    /\ call \in {"imu", "read"} \cup Ending => lifecycle \in {"inactive", "active"}

\* When the pointer is set, when the port is not closed, and which joints keep the
\* interface without being ACTIVE.
Connection ==
    /\ lifecycle = "active" /\ call \notin Ending => vesc_interface_
    /\ call \in Activating \cup Replacing => vesc_interface_
    /\ vesc_interface_ /\ lifecycle # "finalized" /\ call # "replaced" => port \in Opened
    /\ port \in Opened => lifecycle # "finalized" /\ call # "replaced"
    /\ port \in Opened => vesc_interface_ \/ call \in Ending
    /\ call \in Ending => port = "failed"
    /\ lifecycle = "active" => StateInterfaces \subseteq CommandInterfaces
    /\ vesc_interface_ /\ lifecycle \in {"inactive", "unconfigured"}
          /\ call \in {"none", "imu", "read"}
          => ~(StateInterfaces \subseteq CommandInterfaces)

\* No state interface is ahead of the atomic that it copies.
StatesBehind ==
    lifecycle # "unconfigured" =>
        \A f \in StateInterfaces \cap Fields : states[f] <= hw_state[f]

\* The copy of the servo's command is the last one that was sent, unless the
\* port failed while the component was ACTIVE, and what read() has copied so far
\* is that copy.
ServoCopied ==
    /\ "servo" \in CommandInterfaces =>
           hw_command_servo_ = LastServo
               \/ (port = "failed" /\ call \notin {"deactivate", "replace"})
    /\ call = "read" /\ "servo" \in StateInterfaces \ toRead =>
           states["servo"] = hw_command_servo_

\* The receive thread stores the fields of the packet that it handles.
Storing == stored # 0 => batch # <<>> /\ Head(batch) = "Values"

OwnIInv ==
    /\ HardwareTypeOK
    /\ AtomicsFromTwoPackets
    /\ Configured
    /\ Calls
    /\ Connection
    /\ StatesBehind
    /\ ServoCopied
    /\ DutyCycleClamped

HardwareIInv ==
    /\ IInv
    /\ OwnIInv
    /\ Storing

(* An interface of the joint is a field of the packets, the servo or a name *)
(* of a group.                                                              *)
LEMMA InterfaceKinds ==
    ASSUME HardwareTypeOK
    PROVE  /\ StateInterfaces \subseteq Fields \cup {"servo"} \cup Groups
           /\ CommandInterfaces \subseteq RotorCommands \cup {"servo"}
BY HardwareAssumption DEF HardwareTypeOK, StateInterfaces, CommandInterfaces, RotorStates

(* What is sent for a number is a number; a duty cycle is clamped unless it *)
(* is NaN, and a servo's position is sent as it is.                         *)
LEMMA SendsValue ==
    ASSUME NEW k, NEW v \in Value
    PROVE  /\ Sends(k, v) \in Value
           /\ k = "duty_cycle" => Sends(k, v) \in {0, 1} \cup (Commands \cap {NaN})
           /\ k = "servo" => Sends(k, v) = v
<1> USE DEF Sends, Value
<1>1. CASE v = NaN BY <1>1, HardwareAssumption
<1>2. CASE v # NaN
  <2>1. v \in Int BY <1>2
  <2> USE DEF convertMechanicalRadToDeg, convertMechanicalRadSecToERPM, clamp
  <2>2. /\ v * gear_ratio \in Int
        /\ v * gear_ratio * pole_pairs \in Int
    <3>1. gear_ratio \in Int /\ pole_pairs \in Int BY HardwareAssumption
    <3> HIDE DEF Value
    <3> QED BY <2>1, <3>1
  <2>3. CASE k = "position" BY <1>2, <2>2, <2>3
  <2>4. CASE k = "velocity" BY <1>2, <2>2, <2>4
  <2>5. CASE k = "duty_cycle" BY <1>2, <2>1, <2>5
  <2>6. CASE k \notin {"position", "velocity", "duty_cycle"} BY <1>2, <2>6
  <2> QED BY <2>3, <2>4, <2>5, <2>6
<1> QED BY <1>1, <1>2

-----------------------------------------------------------------------------
(* A step of the component is a step of its interface or leaves it alone.   *)
LEMMA HardwareStepOfInterface == [HardwareNext]_allVars => [LossyNext]_vars
<1> SUFFICES ASSUME HardwareNext PROVE [LossyNext]_vars
    BY DEF allVars, vars
<1> USE HardwareAssumption DEF LossyNext, Next, Client, InCall, Packets, Sent
<1>1. CASE on_configure \/ on_cleanup \/ write \/ WriteFails \/ Update
      BY <1>1 DEF on_configure, on_cleanup, write, WriteFails, Update
<1>2. CASE Activate
      BY <1>2 DEF Activate, ActivateOpens, ActivateFails, ActivateStartsThread,
                  ActivateRequestsVersion, ActivateSynchronizes, ActivateThrows
<1>3. CASE Deactivate
      BY <1>3 DEF Deactivate, DeactivateStops, DeactivateDisconnects,
                  DeactivateResets, DeactivateUnwinds, DestructorTerminates
<1>7. CASE Replace
      BY <1>7 DEF Replace, ReplaceStops, ReplaceCloses, ReplaceUnwinds
<1>4. CASE read
      BY <1>4 DEF read, ReadRequestsState, ReadRequestsImu, ReadInterface, ReadReturns
<1>5. ASSUME NEW s \in Sessions, ReceiveThread(s) PROVE [LossyNext]_vars
      BY <1>5 DEF ReceiveThread, ValuesArrives, StoreField, OtherPacket, ThreadRuns,
                  Thread
<1>6. CASE VescAnswers \/ Faults
      BY <1>6 DEF VescAnswers, Faults
<1> QED BY <1>1, <1>2, <1>3, <1>4, <1>5, <1>6, <1>7 DEF HardwareNext

(* The initial states satisfy the inductive invariant.                      *)
LEMMA InitHardwareIInv == HardwareInit => HardwareIInv
<1> SUFFICES ASSUME HardwareInit PROVE HardwareIInv
    OBVIOUS
<1>1. IInv
      BY InitIInv DEF HardwareInit
<1>2. HardwareTypeOK
  <2>1. /\ hw_state \in [Fields -> 0..MaxPacket]
        /\ packet \in 0..MaxPacket /\ since \in 0..MaxPacket
        /\ stored \in 0..Len(ValuesFields) - 1
        BY HardwareAssumption, FieldsByIndex DEF HardwareInit
  <2>2. /\ states \in [StateInterfaces -> Int \cup {None, NaN}]
        /\ commands \in [CommandInterfaces -> Int \cup {None, NaN}]
        /\ sent \in [CommandInterfaces -> Int \cup {None, NaN}]
        BY DEF HardwareInit
  <2>3. /\ joint \in Joints /\ toRead \subseteq StateInterfaces
        /\ commanded \subseteq CommandInterfaces
        BY DEF HardwareInit
  <2>5. vesc_interface_ \in BOOLEAN
        BY Zenon DEF HardwareInit
  <2>6. hw_command_servo_ \in Int \cup {NaN}
        BY DEF HardwareInit
  <2>4. /\ lifecycle \in {"unconfigured", "inactive", "active", "finalized"}
        /\ call \in {"none", "replace", "replaced", "connect", "version",
                    "synchronize", "deactivate", "unwinding", "terminated", "imu",
                    "read"}
        BY DEF HardwareInit
  <2> QED BY <2>1, <2>2, <2>3, <2>4, <2>5, <2>6 DEF HardwareTypeOK
<1>3. AtomicsFromTwoPackets
      BY FieldsByIndex, FieldsDistinct DEF HardwareInit, AtomicsFromTwoPackets
<1>4. Configured /\ Calls /\ StatesBehind /\ Storing
      BY DEF HardwareInit, Configured, Value, Calls, Activating, Replacing, Ending,
             StatesBehind, Storing
<1>5. Connection
      BY DEF HardwareInit, Init, Connection, Activating, Replacing, Ending, Opened
<1>6. ServoCopied /\ DutyCycleClamped
      BY DEF HardwareInit, ServoCopied, LastServo, DutyCycleClamped
<1> QED BY <1>1, <1>2, <1>3, <1>4, <1>5, <1>6 DEF HardwareIInv, OwnIInv

-----------------------------------------------------------------------------
(* The lifecycle callbacks keep it.                                         *)
LEMMA LifecycleIInv ==
    ASSUME OwnIInv, on_configure \/ Replace \/ Activate \/ Deactivate \/ on_cleanup
    PROVE  OwnIInv'
<1> USE HardwareAssumption, FieldsByIndex, FieldsDistinct
    DEF OwnIInv, HardwareTypeOK, AtomicsFromTwoPackets, Configured, Value, Calls,
        Activating, Replacing, Ending, Connection, StatesBehind, ServoCopied, LastServo,
        DutyCycleClamped, StateInterfaces, CommandInterfaces, managerVars, interfaceVars,
        callbackVars, commandVars, Opened
<1>1. CASE on_configure BY <1>1 DEF on_configure, vars
<1>2. CASE ActivateOpens BY <1>2 DEF ActivateOpens, ConnectOpens, NewInterface
<1>3. CASE ActivateFails
      BY <1>3 DEF ActivateFails, ConnectFails, NewInterface, isConnected
<1>4. CASE ActivateStartsThread
      BY <1>4 DEF ActivateStartsThread, ConnectStartsThread
<1>5. CASE ActivateRequestsVersion
      BY <1>5 DEF ActivateRequestsVersion, Sent, Request, vars
<1>6. CASE ActivateSynchronizes BY <1>6 DEF ActivateSynchronizes, vars
<1>7. CASE DeactivateStops
      BY <1>7 DEF DeactivateStops, DisconnectStops, isConnected
<1>8. CASE DeactivateDisconnects
      BY <1>8 DEF DeactivateDisconnects, DisconnectWakes, DisconnectJoins, componentVars
<1>9. CASE DeactivateResets BY <1>9 DEF DeactivateResets, DisconnectCloses
<1>10. CASE DeactivateUnwinds BY <1>10 DEF DeactivateUnwinds, DestroyFailed
<1>11. CASE DestructorTerminates BY <1>11 DEF DestructorTerminates, Terminate
<1>12. CASE on_cleanup BY <1>12 DEF on_cleanup, vars
<1>13. CASE ActivateThrows BY <1>13 DEF ActivateThrows, vars
<1>14. CASE ReplaceStops BY <1>14 DEF ReplaceStops, DisconnectStops, isConnected
<1>15. CASE ReplaceCloses BY <1>15 DEF ReplaceCloses, DisconnectCloses
<1>16. CASE ReplaceUnwinds BY <1>16 DEF ReplaceUnwinds, DestroyFailed
<1> QED BY <1>1, <1>2, <1>3, <1>4, <1>5, <1>6, <1>7, <1>8, <1>9, <1>10, <1>11, <1>12,
           <1>13, <1>14, <1>15, <1>16
        DEF Activate, Deactivate, Replace

(* get_value() of an interface is a value, and of a field its atomic.       *)
LEMMA GetValueType ==
    ASSUME HardwareTypeOK, hw_command_servo_ \in Value, NEW i \in StateInterfaces \ Groups
    PROVE  /\ get_value(i) \in Value
           /\ i \in Fields => get_value(i) = hw_state[i] /\ get_value(i) \in Int
<1>1. i \in Fields \cup {"servo"}
      BY InterfaceKinds
<1> QED BY <1>1, FieldsDistinct, HardwareAssumption DEF HardwareTypeOK, get_value, Value

(* The steps of read() keep it.                                             *)
LEMMA ReadIInv ==
    ASSUME OwnIInv, read
    PROVE  OwnIInv'
<1> USE HardwareAssumption, FieldsByIndex, FieldsDistinct
    DEF OwnIInv, HardwareTypeOK, AtomicsFromTwoPackets, Configured, Value, Calls,
        Activating, Replacing, Ending, Connection, StatesBehind, ServoCopied, LastServo,
        DutyCycleClamped, StateInterfaces, CommandInterfaces, managerVars, interfaceVars,
        callbackVars, commandVars, Opened
<1>1. CASE ReadRequestsState
      BY <1>1 DEF ReadRequestsState, Sent, Request, vars
<1>2. CASE ReadRequestsImu
      BY <1>2 DEF ReadRequestsImu, Sent, Request, vars
<1>3. CASE ReadInterface
  <2>1. PICK i \in toRead :
            /\ states' = IF i \in Groups THEN states ELSE [states EXCEPT ![i] = get_value(i)]
            /\ toRead' = toRead \ {i}
        BY <1>3 DEF ReadInterface
  <2>2. i \notin Groups =>
            /\ get_value(i) \in Value
            /\ i \in Fields => get_value(i) = hw_state[i] /\ get_value(i) \in Int
        BY GetValueType
  <2>3. i = "servo" => get_value(i) = hw_command_servo_
        BY DEF get_value
  <2> QED BY <1>3, <2>1, <2>2, <2>3 DEF ReadInterface, vars
<1>4. CASE ReadReturns BY <1>4 DEF ReadReturns, vars
<1> QED BY <1>1, <1>2, <1>3, <1>4 DEF read

(* write() keeps it: what it sends of the servo is what it stores, unless   *)
(* the port has failed.  So does a controller.                              *)
LEMMA WriteIInv ==
    ASSUME OwnIInv, write \/ WriteFails \/ Update
    PROVE  OwnIInv'
<1> USE HardwareAssumption, FieldsByIndex, FieldsDistinct
    DEF OwnIInv, HardwareTypeOK, AtomicsFromTwoPackets, Configured, Value, Calls,
        Activating, Replacing, Ending, Connection, StatesBehind, ServoCopied, LastServo,
        DutyCycleClamped, StateInterfaces, CommandInterfaces, managerVars, interfaceVars,
        callbackVars, commandVars, Opened
<1>1. CASE write
  <2>1. \A i \in CommandInterfaces : commands[i] \in Value
        BY <1>1 DEF write
  <2>2. \A i \in CommandInterfaces :
            /\ Sends(i, commands[i]) \in Value
            /\ i = "duty_cycle" =>
                  Sends(i, commands[i]) \in {0, 1} \cup (Commands \cap {NaN})
            /\ i = "servo" => Sends(i, commands[i]) = commands[i]
    <3> HIDE DEF OwnIInv, Value, CommandInterfaces
    <3> QED BY <2>1, SendsValue
  <2>3. sent' \in [CommandInterfaces -> Int \cup {None, NaN}]
        BY <1>1, <2>2 DEF write
  <2>4. hw_command_servo_' \in Value
        BY <1>1, <2>1 DEF write
  <2>5. port \in {"open", "failed"} /\ call = "none"
        BY <1>1 DEF write
  <2>6. ServoCopied'
    <3>1. CASE port = "failed"
          BY <1>1, <2>5, <3>1 DEF write, vars
    <3>2. CASE port = "open"
      <4>1. sent' = [i \in CommandInterfaces |-> Sends(i, commands[i])]
            BY <1>1, <3>2 DEF write, isConnected
      <4> QED BY <1>1, <2>2, <2>5, <4>1 DEF write, vars
    <3> QED BY <2>5, <3>1, <3>2
  <2>7. DutyCycleClamped'
        BY <1>1, <2>2 DEF write
  <2> QED BY <1>1, <2>3, <2>4, <2>6, <2>7 DEF write, vars
<1>2. CASE WriteFails BY <1>2 DEF WriteFails, vars
<1>3. CASE Update BY <1>3 DEF Update, vars
<1> QED BY <1>1, <1>2, <1>3

(* The receive thread keeps it: it stores one field more of the newest      *)
(* packet.                                                                  *)
LEMMA ReceiveIInv ==
    ASSUME OwnIInv, NEW s \in Sessions, ReceiveThread(s)
    PROVE  OwnIInv'
<1> USE HardwareAssumption, FieldsByIndex, FieldsDistinct
    DEF OwnIInv, HardwareTypeOK, AtomicsFromTwoPackets, Configured, Value, Calls,
        Activating, Replacing, Ending, Connection, StatesBehind, ServoCopied, LastServo,
        DutyCycleClamped, StateInterfaces, CommandInterfaces, managerVars, interfaceVars,
        callbackVars, commandVars, Opened
<1>1. CASE ValuesArrives(s)
  <2>1. AtomicsFromTwoPackets' BY <1>1 DEF ValuesArrives
  <2>2. StatesBehind' BY <1>1 DEF ValuesArrives
  <2> QED BY <1>1, <2>1, <2>2 DEF ValuesArrives, vars
<1>2. CASE StoreField(s)
  <2>1. stored + 1 \in 1..7 /\ stored \in 1..6
        BY <1>2 DEF StoreField
  <2>2. AtomicsFromTwoPackets'
    <3>1. CASE stored = 6 BY <1>2, <2>1, <3>1 DEF StoreField
    <3>2. CASE stored # 6
      <4>1. stored' = stored + 1 BY <1>2, <2>1, <3>2 DEF StoreField
      <4> QED BY <1>2, <2>1, <4>1 DEF StoreField
    <3> QED BY <3>1, <3>2
  <2>3. StatesBehind' BY <1>2, <2>1 DEF StoreField
  <2>4. port' = port
        BY <1>2 DEF StoreField, Handle, vars
  <2> QED BY <1>2, <2>1, <2>2, <2>3, <2>4 DEF StoreField
<1>3. CASE OtherPacket(s)
      BY <1>3 DEF OtherPacket, Handle, componentVars
<1>4. CASE ThreadRuns(s)
  <2>1. port' = port
        BY <1>4 DEF ThreadRuns, Check, Repeat, Receive
  <2> QED BY <1>4, <2>1 DEF ThreadRuns, componentVars
<1> QED BY <1>1, <1>2, <1>3, <1>4 DEF ReceiveThread

(* So do the VESC, the line and steps that change nothing.                  *)
LEMMA ExternalIInv ==
    ASSUME OwnIInv, VescAnswers \/ Faults \/ UNCHANGED allVars
    PROVE  OwnIInv'
<1> USE HardwareAssumption, FieldsByIndex, FieldsDistinct
    DEF OwnIInv, HardwareTypeOK, AtomicsFromTwoPackets, Configured, Value, Calls,
        Activating, Replacing, Ending, Connection, StatesBehind, ServoCopied, LastServo,
        DutyCycleClamped, StateInterfaces, CommandInterfaces, managerVars, interfaceVars,
        callbackVars, commandVars, Opened
<1>1. CASE VescAnswers \/ UNCHANGED allVars
  <2>1. port' = port /\ UNCHANGED componentVars
        BY <1>1 DEF VescAnswers, Answer, allVars, vars
  <2> QED BY <2>1 DEF componentVars
<1>2. CASE Faults
  <2>1. port' = port \/ (port = "open" /\ port' = "failed")
        BY <1>2 DEF Faults, Lose, PortFails, ReceiveFails, isConnected
  <2> QED BY <1>2, <2>1 DEF Faults, componentVars
<1> QED BY <1>1, <1>2

(* A packet that is being stored stays the one that is handled.             *)
LEMMA StoringStep ==
    ASSUME IInv, Storing, [HardwareNext]_allVars
    PROVE  Storing'
<1> USE DEF Storing
<1>1. CASE batch' = batch /\ stored' = stored
      BY <1>1
<1>2. ASSUME NEW s \in Sessions, ReceiveThread(s) PROVE Storing'
  <2>1. CASE ValuesArrives(s)
        BY <2>1 DEF ValuesArrives, Arrives, vars
  <2>2. CASE StoreField(s)
        BY <2>2 DEF StoreField, Arrives, vars
  <2>3. CASE OtherPacket(s)
        BY <2>3 DEF OtherPacket, Arrives, componentVars, callbackVars
  <2>4. CASE ThreadRuns(s)
    <3>1. CASE Check(s) \/ Repeat(s)
          BY <2>4, <3>1 DEF ThreadRuns, Check, Repeat, componentVars, callbackVars
    <3>2. ASSUME NEW n \in 1..Len(answers), Receive(s, n) PROVE Storing'
      <4>1. batch \in Seq(Packets) /\ SubSeq(answers, 1, n) \in Seq(Packets)
            BY SubSeqProperties DEF IInv, TypeOK
      <4>2. batch' = batch \o SubSeq(answers, 1, n) /\ stored' = stored
            BY <2>4, <3>2 DEF Receive, ThreadRuns, componentVars, callbackVars
      <4>3. batch # <<>> => batch' # <<>> /\ Head(batch') = Head(batch)
            BY <4>1, <4>2, ConcatProperties, HeadTailProperties
      <4> QED BY <4>2, <4>3
    <3> QED BY <2>4, <3>1, <3>2 DEF ThreadRuns
  <2> QED BY <1>2, <2>1, <2>2, <2>3, <2>4 DEF ReceiveThread
<1>3. CASE on_configure \/ on_cleanup \/ write \/ WriteFails \/ Update
      BY <1>1, <1>3
         DEF on_configure, on_cleanup, write, WriteFails, Update, vars, callbackVars
<1>4. CASE Activate
      BY <1>1, <1>4
         DEF Activate, ActivateOpens, ConnectOpens, ActivateFails, ConnectFails,
             ActivateStartsThread, ConnectStartsThread, ActivateRequestsVersion,
             ActivateSynchronizes, ActivateThrows, Sent, Request, vars, callbackVars
<1>9. CASE Replace
      BY <1>1, <1>9
         DEF Replace, ReplaceStops, DisconnectStops, ReplaceCloses, DisconnectCloses,
             ReplaceUnwinds, DestroyFailed, callbackVars
<1>5. CASE Deactivate
      BY <1>1, <1>5
         DEF Deactivate, DeactivateStops, DisconnectStops, DeactivateDisconnects,
             DisconnectWakes, DisconnectJoins, DeactivateResets, DisconnectCloses,
             DeactivateUnwinds, DestroyFailed, DestructorTerminates, Terminate,
             componentVars, callbackVars
<1>6. CASE read
      BY <1>1, <1>6
         DEF read, ReadRequestsState, ReadRequestsImu, ReadInterface, ReadReturns,
             Sent, Request, vars, callbackVars
<1>7. CASE VescAnswers \/ Faults
      BY <1>1, <1>7
         DEF VescAnswers, Answer, Faults, Lose, PortFails, ReceiveFails, componentVars,
             callbackVars
<1>8. CASE UNCHANGED allVars
      BY <1>1, <1>8 DEF allVars, vars, componentVars, callbackVars
<1> QED BY <1>2, <1>3, <1>4, <1>5, <1>6, <1>7, <1>8, <1>9 DEF HardwareNext

(* Every step keeps the inductive invariant.                                *)
LEMMA HardwareNextIInv == HardwareIInv /\ [HardwareNext]_allVars => HardwareIInv'
<1> SUFFICES ASSUME HardwareIInv, [HardwareNext]_allVars PROVE HardwareIInv'
    OBVIOUS
<1>1. IInv'
      BY HardwareStepOfInterface, NextIInv DEF HardwareIInv
<1>2. Storing'
      BY StoringStep DEF HardwareIInv
<1>3. OwnIInv
      BY DEF HardwareIInv
<1>4. OwnIInv'
      BY <1>3, LifecycleIInv, ReadIInv, WriteIInv, ReceiveIInv, ExternalIInv
         DEF HardwareNext
<1> QED BY <1>1, <1>2, <1>4 DEF HardwareIInv

(* The invariant holds for ever.                                            *)
LEMMA HardwareInvariance == HardwareSpec => []HardwareIInv
BY InitHardwareIInv, HardwareNextIInv, PTL DEF HardwareSpec

-----------------------------------------------------------------------------
(* The component drives vesc_interface_ as VescInterface specifies, over    *)
(* any number of activations: whatever is proved of the interface holds.    *)
THEOREM HardwareUsesInterface == HardwareSpec => Spec
<1>1. HardwareInit => Init BY DEF HardwareInit
<1> QED BY <1>1, HardwareStepOfInterface, PTL DEF HardwareSpec, Spec

(* Every variable keeps its type, the callback stays within the fields.     *)
THEOREM HardwareTypeCorrect == HardwareSpec => []HardwareTypeOK
<1>1. HardwareIInv => HardwareTypeOK BY DEF HardwareIInv, OwnIInv
<1> QED BY <1>1, HardwareInvariance, PTL

(* read() never sees more than two packets mixed in the atomics.            *)
THEOREM TwoPackets == HardwareSpec => []AtomicsFromTwoPackets
<1>1. HardwareIInv => AtomicsFromTwoPackets BY DEF HardwareIInv, OwnIInv
<1> QED BY <1>1, HardwareInvariance, PTL

(* No number out of [0, 1] is sent as a duty cycle, whatever a controller   *)
(* commands or on_activate copies from a state; NaN is sent if a controller *)
(* may command it, and never otherwise.                                     *)
THEOREM DutyCycleIsClamped == HardwareSpec => []DutyCycleClamped
<1>1. HardwareIInv => DutyCycleClamped BY DEF HardwareIInv, OwnIInv
<1> QED BY <1>1, HardwareInvariance, PTL

(* write() finds an interface that has been connected only, and in ACTIVE   *)
(* only, whichever activations failed before, unless the joint has a state  *)
(* without a command: such a joint is never ACTIVE.                         *)
THEOREM WritesWhenActive == HardwareSpec => []CommandsWhenActive
<1>1. HardwareIInv => CommandsWhenActive
      BY DEF HardwareIInv, OwnIInv, Connection, Opened, CommandsWhenActive
<1> QED BY <1>1, HardwareInvariance, PTL

(* The receive thread is inside of the callback only while the component    *)
(* holds the interface: on_deactivate and a new on_activate wait for it.  A *)
(* port that has failed is the exception, and it ends the process.          *)
THEOREM CallbackInside == HardwareSpec => []CallbackWithInterface
<1>1. HardwareIInv => CallbackWithInterface
  <2> SUFFICES ASSUME HardwareIInv, stored # 0 \/ batch # <<>>
               PROVE  \/ vesc_interface_ /\ lifecycle # "finalized" /\ call # "replaced"
                      \/ port = "failed" /\ call \in {"unwinding", "terminated"}
      BY DEF CallbackWithInterface
  <2>1. batch # <<>>
        BY DEF HardwareIInv, Storing
  <2>2. PICK s \in Sessions : thread[s] \in {"handle", "killed"}
        BY <2>1 DEF HardwareIInv, IInv, BatchIsCurrent
  <2>3. port \in Opened
        BY <2>2, InterfaceAssumption
           DEF HardwareIInv, IInv, TypeOK, SessionsInOrder, ClientAndPort, CurrentThread,
               Running, Sessions
  <2> QED BY <2>3 DEF HardwareIInv, OwnIInv, Connection, Ending
<1> QED BY <1>1, HardwareInvariance, PTL

(* No step but that of on_configure and of read() writes a state interface. *)
LEMMA StatesWritten ==
    ASSUME HardwareNext
    PROVE  states' = states \/ on_configure \/ ReadInterface
<1> USE DEF interfaceVars, componentVars
<1>1. CASE on_configure \/ on_cleanup \/ write \/ WriteFails \/ Update
      BY <1>1 DEF on_cleanup, write, WriteFails, Update
<1>2. CASE Activate
      BY <1>2 DEF Activate, ActivateOpens, ActivateFails, ActivateStartsThread,
                  ActivateRequestsVersion, ActivateSynchronizes, ActivateThrows
<1>3. CASE Deactivate
      BY <1>3 DEF Deactivate, DeactivateStops, DeactivateDisconnects,
                  DeactivateResets, DeactivateUnwinds, DestructorTerminates
<1>7. CASE Replace
      BY <1>7 DEF Replace, ReplaceStops, ReplaceCloses, ReplaceUnwinds
<1>4. CASE read
      BY <1>4 DEF read, ReadRequestsState, ReadRequestsImu, ReadReturns
<1>5. ASSUME NEW s \in Sessions, ReceiveThread(s) PROVE states' = states
      BY <1>5 DEF ReceiveThread, ValuesArrives, StoreField, OtherPacket, ThreadRuns
<1>6. CASE VescAnswers \/ Faults
      BY <1>6 DEF VescAnswers, Faults
<1> QED BY <1>1, <1>2, <1>3, <1>4, <1>5, <1>6, <1>7 DEF HardwareNext

(* A state interface never goes back to an older packet, although a call of *)
(* read() and the callback run at the same time and connections come and go.*)
THEOREM StatesAdvance == HardwareSpec => StatesNeverOlder
<1> DEFINE Step == lifecycle # "unconfigured" =>
                      \A f \in StateInterfaces \cap Fields : states'[f] >= states[f]
<1>1. HardwareIInv /\ [HardwareNext]_allVars => [Step]_allVars
  <2> SUFFICES ASSUME HardwareIInv, HardwareNext, lifecycle # "unconfigured",
                      NEW f \in StateInterfaces \cap Fields
               PROVE  states'[f] >= states[f]
      OBVIOUS
  <2> USE DEF HardwareIInv, OwnIInv, HardwareTypeOK, Configured, StatesBehind
  <2>1. states[f] \in Int /\ hw_state[f] \in Int /\ states[f] <= hw_state[f]
        BY HardwareAssumption
  <2>2. CASE states' = states BY <2>1, <2>2
  <2>3. CASE on_configure BY <2>3 DEF on_configure
  <2>4. CASE ReadInterface
    <3>1. PICK i \in toRead :
              states' = IF i \in Groups THEN states ELSE [states EXCEPT ![i] = get_value(i)]
          BY <2>4 DEF ReadInterface
    <3>2. f # "servo" /\ f \notin Groups BY FieldsDistinct
    <3>3. CASE i = f BY <2>1, <3>1, <3>2, <3>3 DEF get_value
    <3>4. CASE i # f BY <2>1, <3>1, <3>4
    <3> QED BY <3>3, <3>4
  <2> QED BY <2>2, <2>3, <2>4, StatesWritten
<1> QED BY <1>1, HardwareInvariance, PTL DEF HardwareSpec, StatesNeverOlder

(* When read() returns, the state of a servo is the last command sent,      *)
(* unless the port has failed.                                              *)
THEOREM ServoState == HardwareSpec => ServoIsLastCommand
<1> DEFINE Step == call = "read" /\ call' = "none"
                       /\ "servo" \in StateInterfaces \cap CommandInterfaces
                   => states["servo"] = LastServo \/ port = "failed"
<1>1. HardwareIInv /\ [HardwareNext]_allVars => [Step]_allVars
  <2> SUFFICES ASSUME HardwareIInv, HardwareNext, call = "read", call' = "none",
                      "servo" \in StateInterfaces \cap CommandInterfaces
               PROVE  states["servo"] = LastServo \/ port = "failed"
      OBVIOUS
  <2> USE DEF managerVars, componentVars
  <2>1. toRead = {}
    <3>1. CASE read
          BY <3>1 DEF read, ReadRequestsState, ReadRequestsImu, ReadInterface,
                      ReadReturns
    <3>2. ASSUME NEW s \in Sessions, ReceiveThread(s) PROVE FALSE
          BY <3>2 DEF ReceiveThread, ValuesArrives, StoreField, OtherPacket, ThreadRuns
    <3>3. CASE VescAnswers \/ Faults
          BY <3>3 DEF VescAnswers, Faults
    <3>4. CASE Replace \/ Activate \/ Deactivate
          BY <3>4 DEF Activate, ActivateOpens, ActivateFails, ActivateStartsThread,
             ActivateRequestsVersion, ActivateSynchronizes, ActivateThrows, Deactivate,
             DeactivateStops, DeactivateDisconnects, DeactivateResets,
             DeactivateUnwinds, DestructorTerminates, Replace, ReplaceStops,
             ReplaceCloses, ReplaceUnwinds, NewInterface
    <3>5. CASE on_configure \/ on_cleanup \/ write \/ WriteFails \/ Update
          BY <3>5 DEF on_configure, on_cleanup, write, WriteFails, Update
    <3> QED BY <3>1, <3>2, <3>3, <3>4, <3>5 DEF HardwareNext
  <2> QED BY <2>1 DEF HardwareIInv, OwnIInv, ServoCopied
<1> QED BY <1>1, HardwareInvariance, PTL DEF HardwareSpec, ServoIsLastCommand
=============================================================================
