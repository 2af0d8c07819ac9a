----------------------- MODULE VescDeviceLookupProofs -----------------------
(***************************************************************************)
(* Proofs about VescDeviceLookup: the namer uses VescInterface as its      *)
(* specification says, so what is proved of VescInterface holds in it.     *)
(***************************************************************************)
EXTENDS VescDeviceLookup, VescInterfaceProofs

Deciding == {"poll", "test", "print", "export"}

\* Where the client of the interface is, seen from main().
MainAndClient ==
    /\ main = "construct" => client = "idle" \/ (client = "connecting" /\ session = 0)
    /\ main \in Deciding => client = "idle"
    /\ main = "return" => client \notin {"connecting", "assigning"}
    /\ main = "ended" => client = "destroyed"

\* A callback is busy with a packet of the batch.
CallbackInBatch ==
    callback # "none" => session # 0 /\ thread[session] \in {"handle", "killed"} /\ batch # <<>>

\* Until the destructor sends its own request there is at most one uuid, on its
\* way or in the string: main() has asked once.
OneAnswer ==
    LET underway == Len(requests) + Len(answers) + Len(batch) + uuid_ IN
    /\ main = "construct" => underway = 0 /\ callback = "none"
    /\ main \in Deciding => underway <= 1 + (IF callback = "written" THEN 1 ELSE 0)

\* ready_ is set after a uuid is there, and main() prints only then.
ReadyHasUUID ==
    /\ ready_ \/ callback = "written" \/ main \in {"print", "export"} => uuid_ >= 1
    /\ status = 0 => main \in {"print", "export", "return", "ended"}

LookupIInv ==
    /\ IInv
    /\ LookupTypeOK
    /\ MainAndClient
    /\ CallbackInBatch
    /\ OneAnswer
    /\ ReadyHasUUID
    /\ PrintedOnce

-----------------------------------------------------------------------------
(* What the steps of the interface do to the number of packets underway.    *)
LEMMA ReceiveCount ==
    ASSUME IInv, NEW s \in Sessions, NEW n \in 1..Len(answers), Receive(s, n)
    PROVE  Len(answers') + Len(batch') = Len(answers) + Len(batch)
<1>1. answers \in Seq(Packets) /\ Len(answers) \in Nat /\ batch \in Seq(Packets)
      BY DEF IInv, TypeOK
<1>2. /\ Len(SubSeq(answers, 1, n)) = n /\ SubSeq(answers, 1, n) \in Seq(Packets)
      /\ Len(SubSeq(answers, n + 1, Len(answers))) = Len(answers) - n
      BY <1>1, SubSeqProperties
<1>3. Len(batch \o SubSeq(answers, 1, n)) = Len(batch) + n /\ Len(batch) \in Nat
      BY <1>1, <1>2, ConcatProperties
<1>4. answers' = SubSeq(answers, n + 1, Len(answers)) /\ batch' = batch \o SubSeq(answers, 1, n)
      BY DEF Receive
<1>5. Len(answers') = Len(answers) - n /\ Len(batch') = Len(batch) + n
      BY <1>2, <1>3, <1>4
<1> QED BY <1>1, <1>3, <1>5

(* A packet that is handled leaves the batch.                               *)
LEMMA HandleCount ==
    ASSUME IInv, NEW s \in Sessions, Handle(s)
    PROVE  Len(batch') = Len(batch) - 1
BY HeadTailProperties DEF Handle, IInv, TypeOK

(* The VESC answers a request at most once.                                 *)
LEMMA LineCount ==
    ASSUME IInv, Answer \/ Lose
    PROVE  Len(requests') + Len(answers') <= Len(requests) + Len(answers)
<1>1. requests \in Seq(Packets) /\ answers \in Seq(Packets)
      BY DEF IInv, TypeOK
<1>2. Len(requests) \in Nat /\ Len(answers) \in Nat
      BY <1>1, LenProperties
<1>3. requests # <<>> =>
          Len(Tail(requests)) = Len(requests) - 1 /\ Head(requests) \in Packets
      BY <1>1, HeadTailProperties
<1>4. requests # <<>> => Len(Append(answers, Head(requests))) = Len(answers) + 1
      BY <1>1, <1>3, AppendProperties
<1> QED BY <1>2, <1>3, <1>4 DEF Answer, Lose

(* The lookup puts one request on the line.                                 *)
LEMMA RequestCount ==
    ASSUME IInv, Request("FWVersion")
    PROVE  Len(requests') = Len(requests) + 1
BY AppendProperties DEF Request, IInv, TypeOK, Packets

(* What is on the line can be counted.                                      *)
LEMMA Lengths ==
    ASSUME IInv
    PROVE  Len(requests) \in Nat /\ Len(answers) \in Nat /\ Len(batch) \in Nat
BY LenProperties DEF IInv, TypeOK

-----------------------------------------------------------------------------
(* A step of the namer is a step of the interface or leaves it alone.       *)
LEMMA StepOfInterface == [LookupNext \/ LineLoses]_<<vars, lookupVars>> => [LossyNext]_vars
<1> SUFFICES ASSUME LookupNext \/ LineLoses PROVE [LossyNext]_vars
    BY DEF vars
<1> USE DEF LossyNext
<1>1. CASE Main
      BY <1>1, LookupAssumption DEF Main, ConstructorConnects, ConstructorReturns, Poll, PollEnds,
                  TestReady, PrintUUID, Export, Destruct, Exit, Next, Client, InCall
<1>2. ASSUME NEW s \in Sessions, ReceiveThread(s) \/ ErrorCallback(s)
      PROVE  [LossyNext]_vars
      BY <1>2 DEF ReceiveThread, ThreadRuns, CallbackStarts, CallbackAppends,
                  CallbackReturns, ErrorCallback, Next, Thread
<1>3. CASE Line \/ Faults \/ LineLoses
      BY <1>3 DEF Line, Faults, LineLoses, Next
<1> QED BY <1>1, <1>2, <1>3 DEF LookupNext

(* The line is quiet before the lookup is made.                             *)
LEMMA InitLookupIInv == LookupInit => LookupIInv
<1> SUFFICES ASSUME LookupInit PROVE LookupIInv
    OBVIOUS
<1>1. IInv
      BY InitIInv DEF LookupInit
<1>0. Len(requests) = 0 /\ Len(answers) = 0 /\ Len(batch) = 0
  <2>1. PICK n \in 0..MaxLine : requests \in [1..n -> {}]
        BY LookupAssumption DEF LookupInit, Init
  <2>2. n = 0
    <3> SUFFICES ASSUME n # 0 PROVE FALSE
        OBVIOUS
    <3>1. 1 \in 1..n BY InterfaceAssumption
    <3> QED BY <2>1, <3>1
  <2>3. requests = <<>> BY <2>1, <2>2
  <2> QED BY <2>3 DEF LookupInit, Init
<1>2. LookupTypeOK
  <2>1. ready_ \in BOOLEAN BY Zenon DEF LookupInit
  <2>2. polls \in 0..maxRetry /\ noise \in 0..MaxNoise
        BY LookupAssumption DEF LookupInit
  <2> QED BY <2>1, <2>2 DEF LookupInit, LookupTypeOK
<1>3. MainAndClient /\ CallbackInBatch /\ OneAnswer /\ ReadyHasUUID /\ PrintedOnce
      BY <1>0
         DEF LookupInit, Init, MainAndClient, CallbackInBatch, OneAnswer, ReadyHasUUID,
             PrintedOnce, Deciding
<1> QED BY <1>1, <1>2, <1>3 DEF LookupIInv

(* While main() prints there is one whole uuid, and nobody writes.          *)
LEMMA OneUUID ==
    ASSUME LookupIInv, main \in {"print", "export"}
    PROVE  deviceUUID = 1
BY DEF LookupIInv, IInv, TypeOK, LookupTypeOK, CallbackInBatch, OneAnswer, ReadyHasUUID,
       Deciding, deviceUUID

(* The steps of main() keep the inductive invariant.                        *)
LEMMA MainLookupIInv == LookupIInv /\ Main => LookupIInv'
<1> SUFFICES ASSUME LookupIInv, Main PROVE LookupIInv'
    OBVIOUS
<1>0. IInv'
      BY StepOfInterface, NextIInv DEF LookupIInv, LookupNext
<1> USE <1>0, LookupAssumption
    DEF LookupIInv, IInv, TypeOK, LookupTypeOK, MainAndClient, CallbackInBatch, OneAnswer,
        ReadyHasUUID, PrintedOnce, Deciding, Disconnecting, vars, lookupVars, outputVars,
        stringVars, clientVars, lineVars
<1>1. CASE ConstructorConnects
      BY <1>1 DEF ConstructorConnects, ConnectOpens, ConnectStartsThread, Joinable,
                  CurrentThread, BatchIsCurrent
<1>2. CASE ConstructorReturns
  <2>1. CASE ConnectFails BY <1>2, <2>1 DEF ConstructorReturns, ConnectFails
  <2>2. CASE Request("FWVersion")
        BY <1>2, <2>2, RequestCount, Lengths DEF ConstructorReturns, Request
  <2>3. CASE client = "idle" /\ UNCHANGED vars
        BY <1>2, <2>3 DEF ConstructorReturns
  <2> QED BY <1>2, <2>1, <2>2, <2>3 DEF ConstructorReturns
<1>3. CASE Poll BY <1>3 DEF Poll
<1>4. CASE PollEnds BY <1>4 DEF PollEnds
<1>5. CASE TestReady BY <1>5 DEF TestReady
<1>6. CASE PrintUUID
      BY <1>6, OneUUID DEF PrintUUID
<1>7. CASE Export
      BY <1>7, OneUUID DEF Export
<1>8. CASE Destruct
  <2>1. CASE Terminate
        BY <1>8, <2>1 DEF Destruct, Terminate, ThreadState, Sessions
  <2>2. CASE Destroy \/ DestroyFailed
        BY <1>8, <2>2 DEF Destruct, Destroy, DestroyFailed
  <2>3. CASE DisconnectJoins
        BY <1>8, <2>3 DEF Destruct, DisconnectJoins
  <2> QED
      BY <1>8, <2>1, <2>2, <2>3
         DEF Destruct, DisconnectStops, DisconnectWakes, DisconnectCloses
<1>9. CASE Exit BY <1>9 DEF Exit
<1> QED BY <1>1, <1>2, <1>3, <1>4, <1>5, <1>6, <1>7, <1>8, <1>9 DEF Main

(* The steps of the receive thread and its callbacks keep it.               *)
LEMMA ThreadLookupIInv ==
    ASSUME LookupIInv, NEW s \in Sessions, ReceiveThread(s) \/ ErrorCallback(s)
    PROVE  LookupIInv'
<1>0. IInv'
      BY StepOfInterface, NextIInv DEF LookupIInv, LookupNext
<1> USE <1>0, LookupAssumption
    DEF LookupIInv, IInv, TypeOK, LookupTypeOK, MainAndClient, CallbackInBatch, OneAnswer,
        ReadyHasUUID, PrintedOnce, Deciding, BatchIsCurrent, vars, lookupVars, outputVars,
        stringVars, clientVars, lineVars
<1>1. thread[s] \in Running => s = session
      BY RunningIsCurrent DEF Running
<1>2. ASSUME Check(s), UNCHANGED lookupVars PROVE LookupIInv'
      BY <1>2 DEF Check
<1>3. ASSUME Repeat(s), UNCHANGED lookupVars PROVE LookupIInv'
      BY <1>1, <1>3 DEF Repeat, Running
<1>4. ASSUME NEW n \in 1..Len(answers), Receive(s, n), UNCHANGED lookupVars PROVE LookupIInv'
  <2>1. s = session /\ thread[s] = "receive" BY <1>1, <1>4 DEF Receive, Running
  <2>2. callback = "none" BY <2>1
  <2>4. Len(answers') + Len(batch') = Len(answers) + Len(batch)
        BY <1>4, ReceiveCount
  <2>5. requests' = requests /\ uuid_' = uuid_
        BY <1>4 DEF Receive
  <2>6. Len(requests') + Len(answers') + Len(batch') + uuid_'
            = Len(requests) + Len(answers) + Len(batch) + uuid_
    <3> HIDE DEF LookupIInv
    <3>1. uuid_ \in Nat BY DEF LookupIInv
    <3>2. /\ Len(requests) \in Nat /\ Len(answers') \in Nat /\ Len(batch') \in Nat
          /\ Len(answers) \in Nat /\ Len(batch) \in Nat
          BY Lengths, <1>0 DEF LookupIInv
    <3> QED BY <2>4, <2>5, <3>1, <3>2
  <2>7. OneAnswer'
        BY <1>4, <2>6 DEF Receive
  <2> HIDE DEF OneAnswer
  <2> QED BY <1>4, <2>1, <2>2, <2>7 DEF Receive
<1>5. CASE CallbackStarts(s)
      BY <1>1, <1>5 DEF CallbackStarts, Running, Sessions
<1>6. CASE CallbackAppends
      BY <1>6 DEF CallbackAppends
<1>7. CASE CallbackReturns(s)
      BY <1>1, <1>7, HandleCount, Lengths DEF CallbackReturns, Handle, Running
<1>8. CASE ErrorCallback(s)
  <2>1. ~ready_' /\ ready_' \in BOOLEAN
        BY <1>8, Zenon DEF ErrorCallback
  <2>2. noise' \in 0..MaxNoise
        BY <1>8 DEF ErrorCallback
  <2> QED BY <1>8, <2>1, <2>2 DEF ErrorCallback
<1> QED BY <1>2, <1>3, <1>4, <1>5, <1>6, <1>7, <1>8 DEF ReceiveThread, ThreadRuns

(* So do the steps of the VESC, and steps that change nothing.              *)
LEMMA LineLookupIInv ==
    ASSUME LookupIInv, Line \/ Faults \/ LineLoses \/ UNCHANGED <<vars, lookupVars>>
    PROVE  LookupIInv'
<1>0. IInv'
      BY StepOfInterface, NextIInv DEF LookupIInv, LookupNext
<1> USE <1>0, LookupAssumption
    DEF LookupIInv, IInv, TypeOK, LookupTypeOK, MainAndClient, CallbackInBatch, OneAnswer,
        ReadyHasUUID, PrintedOnce, Deciding, BatchIsCurrent, vars, lookupVars, outputVars,
        stringVars, clientVars, lineVars
<1>1. CASE Line \/ LineLoses
  <2>1. IInv /\ (Answer \/ Lose)
        BY <1>1 DEF Line, LineLoses
  <2>2. Len(requests') + Len(answers') <= Len(requests) + Len(answers)
        BY <2>1, LineCount
  <2>3. /\ UNCHANGED lookupVars
        /\ UNCHANGED <<port, thread, batch, clientVars>>
        BY <1>1 DEF Line, LineLoses, Answer, Lose
  <2>4. Len(requests') + Len(answers') + Len(batch') + uuid_'
            <= Len(requests) + Len(answers) + Len(batch) + uuid_
        BY <2>2, <2>3, Lengths, <1>0
  <2>5. OneAnswer'
        BY <2>3, <2>4, Lengths, <1>0
  <2> HIDE DEF OneAnswer
  <2> QED BY <2>3, <2>5
<1>2. ASSUME PortFails, UNCHANGED lookupVars PROVE LookupIInv'
      BY <1>2 DEF PortFails
<1>3. ASSUME NEW s \in Sessions, ReceiveFails(s), UNCHANGED lookupVars PROVE LookupIInv'
  <2>1. s = session BY <1>3, RunningIsCurrent DEF ReceiveFails, Running
  <2> QED BY <1>3, <2>1 DEF ReceiveFails
<1>4. CASE UNCHANGED <<vars, lookupVars>> BY <1>4
<1> QED BY <1>1, <1>2, <1>3, <1>4 DEF Faults

(* Every step keeps the inductive invariant.                                *)
LEMMA NextLookupIInv == LookupIInv /\ [LookupNext \/ LineLoses]_<<vars, lookupVars>> => LookupIInv'
BY MainLookupIInv, ThreadLookupIInv, LineLookupIInv DEF LookupNext

(* The invariant holds for ever.                                            *)
LEMMA LookupInvariance == LookupSpec => []LookupIInv
BY InitLookupIInv, NextLookupIInv, PTL DEF LookupSpec

-----------------------------------------------------------------------------
(* The namer calls the interface, and its callbacks return, as the          *)
(* specification of the interface allows: it is a VescInterface.            *)
THEOREM LookupUsesInterface == LookupSpec => Spec
<1>1. LookupInit => Init BY DEF LookupInit
<1> QED BY <1>1, StepOfInterface, PTL DEF LookupSpec, Spec

(* Every variable of the namer keeps its type.                              *)
THEOREM LookupTypeCorrect == LookupSpec => []LookupTypeOK
<1>1. LookupIInv => LookupTypeOK BY DEF LookupIInv
<1> QED BY <1>1, LookupInvariance, PTL

(* main() prints and exports one whole uuid, without a lock on the string.  *)
THEOREM OneUUIDPrinted == LookupSpec => []PrintedOnce
<1>1. LookupIInv => PrintedOnce BY DEF LookupIInv
<1> QED BY <1>1, LookupInvariance, PTL

(* The receive thread is joined before the strings it writes are destroyed. *)
THEOREM StringsOutliveThread == LookupSpec => []NoUseAfterDestruction
<1>1. LookupIInv => NoUseAfterDestruction
  <2> SUFFICES ASSUME LookupIInv, main = "ended"
               PROVE  callback = "none" /\ \A s \in Sessions : thread[s] \in {"unborn", "joined"}
      BY DEF NoUseAfterDestruction
  <2>1. client = "destroyed" BY DEF LookupIInv, MainAndClient
  <2>2. \A s \in Sessions : thread[s] \in {"unborn", "joined"}
        BY <2>1, InterfaceAssumption
           DEF LookupIInv, IInv, TypeOK, SessionsInOrder, ClientAndPort, CurrentThread, Sessions
  <2>3. callback = "none"
        BY <2>1, <2>2
           DEF LookupIInv, IInv, TypeOK, CallbackInBatch, Sessions, ThreadState
  <2> QED BY <2>2, <2>3
<1> QED BY <1>1, LookupInvariance, PTL
=============================================================================
