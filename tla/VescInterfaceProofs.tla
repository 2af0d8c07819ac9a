------------------------- MODULE VescInterfaceProofs -------------------------
(***************************************************************************)
(* Proofs about VescInterface for any number of connections and requests,  *)
(* whether or not the VESC answers and whenever the port fails.            *)
(***************************************************************************)
EXTENDS VescInterface, SequenceTheorems, TLAPS

Stopping == {"waking", "joining"}
Opened == {"open", "failed"}

\* The receive threads of earlier sessions are joined, later ones not created,
\* except for the one that connect() is about to assign.
SessionsInOrder ==
    /\ \A s \in Sessions : s < session => thread[s] = "joined"
    /\ \A s \in Sessions : s > session =>
          \/ thread[s] = "unborn"
          \/ s = session + 1 /\ client \in {"assigning", "terminated"}

\* Where the client may be while the port is open, and while it is not.
ClientAndPort ==
    /\ client \in {"connecting", "assigning", "unwinding", "terminated"} \cup Disconnecting
          => port \in Opened
    /\ client \in {"connecting", "assigning"} => session < MaxConnects
    /\ client = "destroyed" => port \notin Opened
    /\ client \in {"assigning", "unwinding", "terminated"} \cup Disconnecting => session # 0

\* What the current receive thread may be doing, seen from the client.
CurrentThread ==
    /\ client = "idle" /\ port \in Opened => session # 0
    /\ client \in {"idle", "connecting", "assigning", "unwinding"}
          /\ port \in Opened /\ session # 0 =>
          \/ packet_thread_run_ /\ thread[session] \in Running
          \/ client = "connecting" /\ thread[session] = "joined"
    /\ client = "assigning" => thread[session + 1] \in Running
    /\ client \in Stopping => thread[session] \in Running \cup {"exited"}
    /\ client = "terminated" => \A s \in Sessions : thread[s] \notin Running
    /\ session # 0 /\ (port \notin Opened \/ client = "closing") =>
          thread[session] = "joined"

\* Packets are only left to handle while a thread handles them.
BatchIsCurrent ==
    batch # <<>> => \E s \in Sessions : thread[s] \in {"handle", "killed"}

IInv ==
    /\ TypeOK
    /\ SessionsInOrder
    /\ ClientAndPort
    /\ CurrentThread
    /\ BatchIsCurrent

-----------------------------------------------------------------------------
(* The initial states satisfy the inductive invariant.                      *)
LEMMA InitIInv == Init => IInv
<1> SUFFICES ASSUME Init PROVE IInv
    OBVIOUS
<1>1. TypeOK
  <2>1. packet_thread_run_ \in BOOLEAN /\ destroying \in BOOLEAN
        BY Zenon DEF Init
  <2>2. thread \in [Sessions -> ThreadState]
        BY DEF Init, ThreadState
  <2>3. /\ session \in 0..MaxConnects
        /\ requests \in Seq(Packets) /\ answers \in Seq(Packets)
        /\ batch \in Seq(Packets)
        BY InterfaceAssumption DEF Init
  <2> QED BY <2>1, <2>2, <2>3 DEF Init, TypeOK
<1>2. SessionsInOrder
      BY DEF Init, SessionsInOrder, Sessions
<1>3. ClientAndPort /\ CurrentThread /\ BatchIsCurrent
      BY DEF Init, ClientAndPort, CurrentThread, BatchIsCurrent, Disconnecting,
             Stopping, Opened
<1> QED BY <1>1, <1>2, <1>3 DEF IInv

(* Every step of the client keeps it.                                       *)
LEMMA ClientIInv == IInv /\ Client => IInv'
<1> SUFFICES ASSUME IInv, Client PROVE IInv'
    OBVIOUS
<1> USE InterfaceAssumption
    DEF IInv, TypeOK, SessionsInOrder, ClientAndPort, CurrentThread,
        BatchIsCurrent, Sessions, ThreadState, Disconnecting, Stopping,
        Opened, Packets, isConnected, Running, clientVars, lineVars
<1>1. CASE ConnectFails BY <1>1 DEF ConnectFails
<1>2. CASE ConnectOpens BY <1>2 DEF ConnectOpens
<1>3. ASSUME NEW packet \in Asked, Request(packet) PROVE IInv'
  <2>1. requests' \in Seq(Packets)
        BY <1>3 DEF Request
  <2> QED BY <1>3, <2>1 DEF Request
<1>4. CASE Destroy \/ DestroyFailed BY <1>4 DEF Destroy, DestroyFailed
<1>5. ASSUME NEW d \in BOOLEAN, DisconnectStops(d) PROVE IInv'
      BY <1>5 DEF DisconnectStops
<1>6. CASE ConnectStartsThread BY <1>6 DEF ConnectStartsThread, Joinable
<1>7. CASE DisconnectWakes
  <2>1. requests' \in Seq(Packets)
        BY <1>7 DEF DisconnectWakes
  <2> QED BY <1>7, <2>1 DEF DisconnectWakes
<1>8. CASE DisconnectJoins BY <1>8 DEF DisconnectJoins
<1>9. CASE DisconnectCloses BY <1>9 DEF DisconnectCloses
<1>10. CASE Terminate BY <1>10 DEF Terminate
<1> QED
    BY <1>1, <1>2, <1>3, <1>4, <1>5, <1>6, <1>7, <1>8, <1>9, <1>10
       DEF Client, InCall

(* A thread that runs is the current one or the one that connect() assigns, *)
(* inside a connection.                                                     *)
LEMMA RunningIsCurrent ==
    ASSUME IInv, NEW s \in Sessions, thread[s] \in Running
    PROVE  /\ s = session \/ (s = session + 1 /\ client = "assigning")
           /\ port \in Opened
           /\ client \notin {"closing", "destroyed", "terminated"}
BY InterfaceAssumption
   DEF IInv, TypeOK, SessionsInOrder, ClientAndPort, CurrentThread, Sessions,
       Running, Opened, Disconnecting

(* Every step of a receive thread keeps the inductive invariant.            *)
LEMMA ThreadIInv ==
    ASSUME IInv, NEW s \in Sessions, Thread(s) \/ ReceiveFails(s)
    PROVE  IInv'
<1>0. thread[s] \in Running
      BY DEF Thread, Check, Receive, ReceiveFails, Handle, Repeat, Running
<1>1. /\ s = session \/ (s = session + 1 /\ client = "assigning")
      /\ port \in Opened
      BY <1>0, RunningIsCurrent
<1>2. ASSUME NEW n \in 1..Len(answers), Receive(s, n)
      PROVE  answers' \in Seq(Packets) /\ batch' \in Seq(Packets)
  <2>1. answers \in Seq(Packets) /\ Len(answers) \in Nat
        BY DEF IInv, TypeOK
  <2>2. \A m \in 1..Len(answers) + 1, k \in 0..Len(answers) :
            SubSeq(answers, m, k) \in Seq(Packets)
        BY <2>1, SubSeqProperties
  <2>3. batch \in Seq(Packets)
        BY DEF IInv, TypeOK
  <2>4. /\ n \in Nat /\ n + 1 \in 1..Len(answers) + 1 /\ 1 \in 1..Len(answers) + 1
        /\ n \in 0..Len(answers) /\ Len(answers) \in 0..Len(answers)
        BY <2>1
  <2>5. SubSeq(answers, 1, n) \in Seq(Packets)
        BY <2>2, <2>4
  <2>6. SubSeq(answers, n + 1, Len(answers)) \in Seq(Packets)
        BY <2>2, <2>4
  <2>7. batch \o SubSeq(answers, 1, n) \in Seq(Packets)
        BY <2>3, <2>5, ConcatProperties
  <2> QED BY <1>2, <2>6, <2>7 DEF Receive
<1>3. Handle(s) => batch' \in Seq(Packets)
      BY DEF Handle, IInv, TypeOK
<1> USE InterfaceAssumption
    DEF IInv, TypeOK, SessionsInOrder, ClientAndPort, CurrentThread,
        BatchIsCurrent, Sessions, ThreadState, Disconnecting, Stopping,
        Opened, isConnected, Running, clientVars, lineVars
<1>4. CASE Check(s) BY <1>1, <1>4 DEF Check
<1>5. ASSUME NEW n \in 1..Len(answers), Receive(s, n) PROVE IInv'
  <2>1. /\ port' = port /\ packet_thread_run_' = packet_thread_run_
        /\ session' = session /\ client' = client /\ destroying' = destroying
        /\ requests' = requests
        /\ thread[s] = "receive" /\ thread' = [thread EXCEPT ![s] = "handle"]
        BY <1>5 DEF Receive
  <2>2. answers' \in Seq(Packets) /\ batch' \in Seq(Packets)
        BY <1>2, <1>5
  <2>3. BatchIsCurrent'
        BY <2>1
  <2>4. TypeOK'
        BY <2>1, <2>2
  <2> QED BY <1>1, <2>1, <2>3, <2>4
<1>6. CASE Handle(s) BY <1>1, <1>3, <1>6 DEF Handle
<1>7. CASE Repeat(s) BY <1>1, <1>7 DEF Repeat
<1>8. CASE ReceiveFails(s) BY <1>1, <1>8 DEF ReceiveFails
<1> QED BY <1>4, <1>5, <1>6, <1>7, <1>8 DEF Thread

(* So do the steps of the VESC and the line, and steps that change nothing. *)
LEMMA DeviceIInv ==
    ASSUME IInv, Answer \/ Lose \/ PortFails \/ UNCHANGED vars
    PROVE  IInv'
<1>1. /\ requests' \in Seq(Packets)
      /\ answers' \in Seq(Packets)
  <2>1. requests \in Seq(Packets) /\ answers \in Seq(Packets)
        BY DEF IInv, TypeOK
  <2>2. requests # <<>> => /\ Head(requests) \in Packets
                           /\ Tail(requests) \in Seq(Packets)
        BY <2>1, HeadTailProperties
  <2>3. requests # <<>> => Append(answers, Head(requests)) \in Seq(Packets)
        BY <2>1, <2>2, AppendProperties
  <2>4. CASE Answer BY <2>1, <2>2, <2>3, <2>4 DEF Answer
  <2>5. CASE Lose BY <2>1, <2>2, <2>5 DEF Lose
  <2>6. CASE PortFails BY <2>1, <2>6 DEF PortFails, lineVars
  <2>7. CASE UNCHANGED vars BY <2>1, <2>7 DEF vars
  <2> QED BY <2>4, <2>5, <2>6, <2>7
<1> QED
    BY <1>1, InterfaceAssumption
       DEF IInv, TypeOK, SessionsInOrder, ClientAndPort, CurrentThread, Opened,
           BatchIsCurrent, isConnected, Answer, Lose, PortFails, vars,
           clientVars, Disconnecting, Stopping

(* Every step keeps the inductive invariant.                                *)
LEMMA NextIInv == IInv /\ [LossyNext]_vars => IInv'
BY ClientIInv, ThreadIInv, DeviceIInv DEF LossyNext, Next

(* The invariant holds for ever.                                            *)
LEMMA Invariance == Spec => []IInv
BY InitIInv, NextIInv, PTL DEF Spec

-----------------------------------------------------------------------------
(* Every variable keeps its type: only packets that the code asks for are   *)
(* on the line, and the client is in a call or ended.                       *)
THEOREM TypeCorrect == Spec => []TypeOK
<1>1. IInv => TypeOK BY DEF IInv
<1> QED BY <1>1, Invariance, PTL

(* Two receive threads are at work on one buffer_ only in a connect() over a *)
(* port that has failed, and connect() meets a running thread only then.    *)
THEOREM AtMostOneReceiver == Spec => OneReceiver
<1> DEFINE Apart == \A s, t \in Sessions :
                       {thread[s], thread[t]} \subseteq Running /\ s # t => client = "assigning"
           Begins == client = "idle" /\ client' = "connecting"
                        => port = "failed" \/ \A s \in Sessions : thread[s] \notin Running
<1>1. IInv => Apart
      BY RunningIsCurrent
<1>2. IInv /\ [LossyNext]_vars => [Begins]_vars
  <2> SUFFICES ASSUME IInv, LossyNext, client = "idle", client' = "connecting"
               PROVE  port = "failed" \/ \A s \in Sessions : thread[s] \notin Running
      BY DEF vars
  <2>1. port # "open"
        BY DEF LossyNext, Next, Client, InCall, ConnectFails, ConnectOpens,
           Request, Destroy, DestroyFailed, Terminate, DisconnectStops, ConnectStartsThread,
           DisconnectWakes, DisconnectJoins, DisconnectCloses, Answer, Lose,
           PortFails, ReceiveFails, Thread, Check, Receive, Handle, Repeat,
           isConnected, clientVars
  <2> QED BY <2>1, RunningIsCurrent DEF Opened
<1> QED BY <1>1, <1>2, Invariance, PTL DEF Spec, OneReceiver

(* A connected client always has a receive thread that keeps receiving.     *)
THEOREM ConnectionIsReceived == Spec => []ConnectedIsReceived
<1>1. IInv => ConnectedIsReceived
      BY InterfaceAssumption
         DEF IInv, TypeOK, CurrentThread, ConnectedIsReceived, Sessions, Opened,
             isConnected
<1> QED BY <1>1, Invariance, PTL

(* No receive thread outlives the connection: when disconnect() has closed  *)
(* the port, and when the destructor has returned, every thread has been    *)
(* joined; a destructor that finds the port failed does not return.         *)
THEOREM ThreadsAreJoined == Spec => []NoThreadLeft
<1>1. IInv => NoThreadLeft
      BY InterfaceAssumption
         DEF IInv, TypeOK, SessionsInOrder, ClientAndPort, CurrentThread,
             NoThreadLeft, Sessions, Opened
<1> QED BY <1>1, Invariance, PTL

(* packet_handler_ is never called after the disconnect() or the destructor *)
(* that ended the connection, nor while there is none.                      *)
THEOREM HandlerStaysInConnection == Spec => HandlerInConnection
<1> DEFINE Step == Len(batch') < Len(batch) =>
                      /\ {port, port'} \subseteq {"open", "failed"}
                      /\ client \notin {"destroyed", "terminated"}
<1>1. IInv /\ [LossyNext]_vars => [Step]_vars
  <2> SUFFICES ASSUME IInv, LossyNext, Len(batch') < Len(batch)
               PROVE  /\ {port, port'} \subseteq {"open", "failed"}
                      /\ client \notin {"destroyed", "terminated"}
      OBVIOUS
  <2>1. batch \in Seq(Packets) BY DEF IInv, TypeOK
  <2>2. batch' # batch BY <2>1, LenProperties
  <2>3. PICK s \in Sessions : Thread(s)
        BY <2>2 DEF LossyNext, Next, Client, InCall, ConnectFails, ConnectOpens,
           Request, Destroy, DestroyFailed, Terminate, DisconnectStops, ConnectStartsThread,
           DisconnectWakes, DisconnectJoins, DisconnectCloses, Answer, Lose,
           PortFails, ReceiveFails, vars
  <2>4. thread[s] \in Running /\ port' = port
        BY <2>3 DEF Thread, Check, Receive, Handle, Repeat, Running
  <2> QED BY <2>4, RunningIsCurrent DEF Opened
<1> QED BY <1>1, Invariance, PTL DEF Spec, HandlerInConnection

-----------------------------------------------------------------------------
(* Why disconnect() returns (DisconnectReturns) when the VESC answers every *)
(* request: what FairSpec adds to safety, nothing is lost on the line.      *)

\* While disconnect() waits for a thread that is blocked in receive(), what
\* ends the wait is on its way to the VESC or on its way back.
WakeUpUnderway ==
    port = "open" /\ client = "joining" /\ thread[session] = "receive" =>
        requests # <<>> \/ answers # <<>>

\* While disconnect() is at work the flag keeps the thread from receiving once
\* more.
StaysStopped ==
    client \in Stopping => ~packet_thread_run_

WakeInv == IInv /\ StaysStopped /\ WakeUpUnderway

(* Every step on a line that loses nothing keeps the two.                   *)
LEMMA NextWakeInv ==
    ASSUME WakeInv, [Next]_vars
    PROVE  WakeInv'
<1>1. IInv'
      BY NextIInv DEF WakeInv, LossyNext
<1>2. /\ IInv /\ TypeOK /\ StaysStopped /\ WakeUpUnderway
      /\ thread \in [Sessions -> ThreadState]
      BY DEF WakeInv, IInv, TypeOK
<1>3. CASE Client
  <2> USE <1>2 DEF StaysStopped, WakeUpUnderway, clientVars, lineVars, isConnected,
          Stopping
  <2>1. CASE ConnectFails BY <1>1, <2>1 DEF ConnectFails, WakeInv
  <2>2. CASE ConnectOpens BY <1>1, <2>2 DEF ConnectOpens, WakeInv
  <2>3. ASSUME NEW packet \in Asked, Request(packet) PROVE WakeInv'
        BY <1>1, <2>3 DEF Request, WakeInv
  <2>4. CASE Destroy \/ DestroyFailed BY <1>1, <2>4 DEF Destroy, DestroyFailed, WakeInv
  <2>5. ASSUME NEW d \in BOOLEAN, DisconnectStops(d) PROVE WakeInv'
        BY <1>1, <2>5 DEF DisconnectStops, WakeInv
  <2>6. CASE ConnectStartsThread BY <1>1, <2>6 DEF ConnectStartsThread, WakeInv
  <2>7. CASE DisconnectWakes
    <3>1. requests' # <<>>
          BY <2>7, AppendProperties DEF DisconnectWakes, TypeOK, Packets
    <3> QED BY <1>1, <2>7, <3>1 DEF DisconnectWakes, WakeInv
  <2>8. CASE DisconnectJoins BY <1>1, <2>8 DEF DisconnectJoins, WakeInv
  <2>9. CASE DisconnectCloses BY <1>1, <2>9 DEF DisconnectCloses, WakeInv
  <2>10. CASE Terminate BY <1>1, <2>10 DEF Terminate, WakeInv
  <2> QED BY <1>3, <2>1, <2>2, <2>3, <2>4, <2>5, <2>6, <2>7, <2>8, <2>9, <2>10
             DEF Client, InCall
<1>4. ASSUME NEW s \in Sessions, Thread(s) \/ ReceiveFails(s)
      PROVE  WakeInv'
  <2>1. thread[s] \in Running
        BY <1>4 DEF Thread, Check, Receive, ReceiveFails, Handle, Repeat, Running
  <2>2. client = "joining" => s = session
        BY <1>2, <2>1, RunningIsCurrent
  <2>3. /\ client' = client /\ packet_thread_run_' = packet_thread_run_
        /\ session' = session /\ port' = port
        BY <1>4 DEF Thread, Check, Receive, ReceiveFails, Handle, Repeat,
           clientVars, lineVars
  <2>4. StaysStopped'
        BY <1>2, <2>3 DEF StaysStopped
  <2>5. client = "joining" => thread'[session] # "receive"
    <3> USE <1>2, <2>2 DEF StaysStopped, Stopping
    <3>1. CASE Check(s) BY <3>1 DEF Check
    <3>2. ASSUME NEW n \in 1..Len(answers), Receive(s, n)
          PROVE  client = "joining" => thread'[session] # "receive"
          BY <3>2 DEF Receive
    <3>3. CASE Handle(s) BY <3>3 DEF Handle
    <3>4. CASE Repeat(s) BY <3>4 DEF Repeat
    <3>5. CASE ReceiveFails(s) BY <3>5 DEF ReceiveFails
    <3> QED BY <1>4, <3>1, <3>2, <3>3, <3>4, <3>5 DEF Thread
  <2> QED BY <1>1, <2>3, <2>4, <2>5 DEF WakeInv, WakeUpUnderway
<1>5. CASE Answer
  <2>1. port = "open" => answers' # <<>>
        BY <1>2, <1>5, HeadTailProperties, AppendProperties
           DEF Answer, isConnected, TypeOK
  <2> QED BY <1>1, <1>2, <1>5, <2>1
             DEF Answer, clientVars, WakeInv, StaysStopped, WakeUpUnderway
<1>6. CASE PortFails
      BY <1>1, <1>2, <1>6
         DEF PortFails, clientVars, WakeInv, StaysStopped, WakeUpUnderway
<1>7. CASE UNCHANGED vars
      BY <1>1, <1>2, <1>7 DEF vars, WakeInv, StaysStopped, WakeUpUnderway
<1> QED BY <1>3, <1>4, <1>5, <1>6, <1>7 DEF Next

(* disconnect() never waits for nothing: as long as its thread is blocked,  *)
(* a request or an answer that will wake it exists, if none gets lost.      *)
THEOREM WakeUpIsUnderway == FairSpec => []WakeUpUnderway
<1>1. Init => WakeInv
      BY InitIInv, Zenon
         DEF Init, WakeInv, StaysStopped, WakeUpUnderway, Stopping
<1>2. WakeInv /\ [Next]_vars => WakeInv'
      BY NextWakeInv
<1>3. WakeInv => WakeUpUnderway
      BY DEF WakeInv
<1> QED BY <1>1, <1>2, <1>3, PTL DEF FairSpec
=============================================================================
