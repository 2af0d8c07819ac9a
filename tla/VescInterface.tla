---------------------------- MODULE VescInterface ----------------------------
(***************************************************************************)
(* The life cycle of one VescInterface (vesc_interface.cpp): connect(),    *)
(* the request calls, disconnect() and the destructor, called by one       *)
(* client thread, against the receive thread each connect() starts and     *)
(* the VESC at the other end of the line.                                  *)
(*                                                                         *)
(* A frame is the name of its packet: requests on their way to the VESC,   *)
(* answers on their way back, and the packets of the current search that   *)
(* still have to be handed to packet_handler_.  PacketStream models how    *)
(* bytes become packets.                                                   *)
(***************************************************************************)
EXTENDS Integers, Sequences

CONSTANTS
    Asked,        \* the packets that the client asks for
    MaxConnects,  \* bound on the successful calls of connect()
    MaxLine,      \* bound on the frames on the line when the client sends one
    Leftover      \* the packets that an earlier process may have asked for, and that
                  \* the VESC still answers when this one starts

\* What requestFWVersion(), requestState() and requestImuData() ask for.
Packets == {"FWVersion", "Values", "ImuData"}

ASSUME InterfaceAssumption ==
    /\ Asked \subseteq Packets
    /\ MaxConnects \in Nat
    /\ MaxLine \in Nat
    /\ Leftover \subseteq Packets

Sessions == 1..MaxConnects

VARIABLES
    port,                \* "none", "closed", "open", or "failed": the library has
                         \* closed it, disconnect() has not
    packet_thread_run_,
    session,             \* packet_thread_ is the thread of this session
    thread,              \* what the receive thread of each session does
    client,              \* where the client is: idle, or inside a call;
                         \* "assigning" to packet_thread_ while it is joinable;
                         \* "unwinding", the destructor before that of the thread
    destroying,          \* the call of disconnect() comes from ~VescInterface
    requests,            \* requests the VESC has not answered yet
    answers,             \* answers not yet received
    batch                \* packets of this search not yet handled

vars == <<port, packet_thread_run_, session, thread, client, destroying,
          requests, answers, batch>>

clientVars == <<session, client, destroying>>
lineVars == <<requests, answers>>

ThreadState == {"unborn", "check", "receive", "handle", "exited", "joined",
                "killed"}

\* packet_thread_run_ has no initializer.
Init ==
    /\ port = "none"
    /\ packet_thread_run_ \in BOOLEAN
    /\ session = 0
    /\ thread = [s \in Sessions |-> "unborn"]
    /\ client = "idle"
    /\ destroying = FALSE
    /\ requests \in UNION {[1..n -> Leftover] : n \in 0..MaxLine}
    /\ answers = <<>>
    /\ batch = <<>>

isConnected == port = "open"

-----------------------------------------------------------------------------
(* The client.  connect() on an open port throws and changes nothing.       *)

\* init_port() replaces the port, and open() throws: SerialException.  The thread
\* of a connection whose port has failed is still there.
ConnectFails ==
    /\ client = "idle"
    /\ ~isConnected
    /\ port' = IF port = "failed" THEN "failed" ELSE "closed"
    /\ UNCHANGED <<packet_thread_run_, thread, batch, clientVars, lineVars>>

\* Mutation of ConnectOpens: no test whether the port is open already.
ConnectOpensAgain ==
    /\ client = "idle"
    /\ session < MaxConnects
    /\ port' = "open"
    /\ client' = "connecting"
    /\ UNCHANGED <<packet_thread_run_, session, thread, destroying, batch,
                   lineVars>>

\* connect() opens the port; what a port that failed still held is lost ...
ConnectOpens ==
    /\ client = "idle"
    /\ ~isConnected
    /\ session < MaxConnects
    /\ port' = "open"
    /\ answers' = <<>>
    /\ client' = "connecting"
    /\ UNCHANGED <<packet_thread_run_, session, thread, destroying, batch,
                   requests>>

\* std::thread::joinable() of packet_thread_.
Joinable == session # 0 /\ thread[session] # "joined"

\* Mutation of ConnectStartsThread: packet_thread_run_ is not set again.
ConnectStartsThreadOnly ==
    /\ client = "connecting"
    /\ thread' = [thread EXCEPT ![session + 1] = "check"]
    /\ IF Joinable THEN client' = "assigning" /\ UNCHANGED session
                   ELSE client' = "idle" /\ session' = session + 1
    /\ UNCHANGED <<port, packet_thread_run_, destroying, batch, lineVars>>

\* ... and starts a receive thread, which it then assigns to packet_thread_.
ConnectStartsThread ==
    /\ client = "connecting"
    /\ packet_thread_run_' = TRUE
    /\ thread' = [thread EXCEPT ![session + 1] = "check"]
    /\ IF Joinable THEN client' = "assigning" /\ UNCHANGED session
                   ELSE client' = "idle" /\ session' = session + 1
    /\ UNCHANGED <<port, destroying, batch, lineVars>>

\* requestState(), requestImuData() or requestFWVersion() of a connected client:
\* send() writes the frame of the packet.
Request(packet) ==
    /\ client = "idle"
    /\ isConnected
    /\ Len(requests) + Len(answers) < MaxLine
    /\ requests' = Append(requests, packet)
    /\ UNCHANGED <<port, packet_thread_run_, session, thread, client,
                   destroying, answers, batch>>

\* disconnect(), called by the client or by the destructor, stops the loop ...
DisconnectStops(destructor) ==
    /\ client = "idle"
    /\ isConnected
    /\ packet_thread_run_' = FALSE
    /\ destroying' = destructor
    /\ client' = "waking"
    /\ UNCHANGED <<port, session, thread, batch, lineVars>>

\* Mutations of DisconnectWakes: the thread is not woken; the port is closed
\* before the thread has been joined; the thread is not joined at all.
DisconnectWakesNobody ==
    /\ client = "waking"
    /\ client' = "joining"
    /\ UNCHANGED <<port, packet_thread_run_, session, thread, destroying,
                   batch, lineVars>>
DisconnectClosesFirst ==
    /\ client = "waking"
    /\ requests' = Append(requests, "FWVersion")
    /\ client' = "joining"
    /\ port' = "closed"
    /\ UNCHANGED <<packet_thread_run_, session, thread, destroying,
                   answers, batch>>
DisconnectDetaches ==
    /\ client = "waking"
    /\ requests' = Append(requests, "FWVersion")
    /\ client' = "closing"
    /\ UNCHANGED <<port, packet_thread_run_, session, thread, destroying,
                   answers, batch>>

\* ... asks for an answer that ends the thread's blocking receive ...
DisconnectWakes ==
    /\ client = "waking"
    /\ requests' = Append(requests, "FWVersion")
    /\ client' = "joining"
    /\ UNCHANGED <<port, packet_thread_run_, session, thread, destroying,
                   answers, batch>>

\* ... joins the thread ...
DisconnectJoins ==
    /\ client = "joining"
    /\ thread[session] = "exited"
    /\ thread' = [thread EXCEPT ![session] = "joined"]
    /\ client' = "closing"
    /\ UNCHANGED <<port, packet_thread_run_, session, destroying, batch,
                   lineVars>>

\* ... and closes the port: answers that were not received are lost.
DisconnectCloses ==
    /\ client = "closing"
    /\ port' = "closed"
    /\ answers' = <<>>
    /\ client' = IF destroying THEN "destroyed" ELSE "idle"
    /\ UNCHANGED <<packet_thread_run_, session, thread, destroying, requests,
                   batch>>

\* The destructor of an interface that is not connected.
Destroy ==
    /\ client = "idle"
    /\ port \in {"none", "closed"}
    /\ client' = "destroyed"
    /\ UNCHANGED <<port, packet_thread_run_, session, thread, destroying,
                   batch, lineVars>>

\* disconnect() does nothing when the port has failed; the destructor goes on to
\* destroy the members, while the receive thread uses them.
DestroyFailed ==
    /\ client = "idle"
    /\ port = "failed"
    /\ client' = "unwinding"
    /\ UNCHANGED <<port, packet_thread_run_, session, thread, destroying, batch,
                   lineVars>>

\* Mutation of Terminate: the thread is left running, as by detach().
Detach ==
    /\ client = "unwinding"
    /\ client' = "destroyed"
    /\ UNCHANGED <<port, packet_thread_run_, session, thread, destroying, batch,
                   lineVars>>

\* ~thread() of a joinable thread, in the destructor or in the assignment, is
\* std::terminate(): the process ends, with every thread that runs.
Terminate ==
    /\ client \in {"assigning", "unwinding"}
    /\ client' = "terminated"
    /\ thread' = [s \in Sessions |-> IF thread[s] \in {"unborn", "joined"}
                                     THEN thread[s] ELSE "killed"]
    /\ UNCHANGED <<port, packet_thread_run_, session, destroying, batch, lineVars>>

Disconnecting == {"waking", "joining", "closing"}

InCall == \/ ConnectStartsThread \/ Terminate
          \/ DisconnectWakes \/ DisconnectJoins \/ DisconnectCloses

Client == \/ ConnectFails \/ ConnectOpens \/ Destroy \/ DestroyFailed
          \/ \E packet \in Asked : Request(packet)
          \/ \E destructor \in BOOLEAN : DisconnectStops(destructor)
          \/ InCall

-----------------------------------------------------------------------------
(* The receive thread of session s: packet_creation_thread().               *)

Check(s) ==
    /\ thread[s] = "check"
    /\ thread' = [thread EXCEPT ![s] =
                    IF packet_thread_run_ THEN "receive" ELSE "exited"]
    /\ UNCHANGED <<port, packet_thread_run_, batch, clientVars, lineVars>>

\* receive() returns n answers, which are inserted behind what buffer_ holds;
\* without an answer it blocks.
Receive(s, n) ==
    /\ thread[s] = "receive"
    /\ isConnected
    /\ answers' = SubSeq(answers, n + 1, Len(answers))
    /\ batch' = batch \o SubSeq(answers, 1, n)
    /\ thread' = [thread EXCEPT ![s] = "handle"]
    /\ UNCHANGED <<port, packet_thread_run_, requests, clientVars>>

\* receive() may also return, with nothing, from a port that has failed, be it
\* the one that connect() has replaced since.
ReceiveFails(s) ==
    /\ thread[s] = "receive"
    /\ port = "failed" \/ (s = session /\ client \in {"connecting", "assigning"})
    /\ thread' = [thread EXCEPT ![s] = "handle"]
    /\ UNCHANGED <<port, packet_thread_run_, batch, clientVars, lineVars>>

\* packet_handler_ is called with the next packet.
Handle(s) ==
    /\ thread[s] = "handle"
    /\ batch # <<>>
    /\ batch' = Tail(batch)
    /\ UNCHANGED <<port, packet_thread_run_, thread, clientVars, lineVars>>

\* Mutation of Repeat: the search may end before the last packet.
RepeatEarly(s) ==
    /\ thread[s] = "handle"
    /\ thread' = [thread EXCEPT ![s] = "check"]
    /\ UNCHANGED <<port, packet_thread_run_, batch, clientVars, lineVars>>

\* The search is over; the thread sleeps for 5 ms and tests its flag again.
Repeat(s) ==
    /\ thread[s] = "handle"
    /\ batch = <<>>
    /\ thread' = [thread EXCEPT ![s] = "check"]
    /\ UNCHANGED <<port, packet_thread_run_, batch, clientVars, lineVars>>

Thread(s) ==
    \/ Check(s) \/ Handle(s) \/ Repeat(s)
    \/ \E n \in 1..Len(answers) : Receive(s, n)

-----------------------------------------------------------------------------
(* External: the VESC at the other end of the line, and the line.           *)

\* The answer is lost when nobody has the port open.
Answer ==
    /\ requests # <<>>
    /\ requests' = Tail(requests)
    /\ answers' = IF isConnected THEN Append(answers, Head(requests)) ELSE answers
    /\ UNCHANGED <<port, packet_thread_run_, thread, batch, clientVars>>

\* The line damages a request or its answer, or the VESC is off or busy.
Lose ==
    /\ requests # <<>>
    /\ requests' = Tail(requests)
    /\ UNCHANGED <<port, packet_thread_run_, thread, answers, batch, clientVars>>

\* The serial library finds that the device is gone.
PortFails ==
    /\ isConnected
    /\ port' = "failed"
    /\ UNCHANGED <<packet_thread_run_, thread, batch, clientVars, lineVars>>

-----------------------------------------------------------------------------
Next == \/ Client \/ Answer \/ PortFails
        \/ \E s \in Sessions : Thread(s) \/ ReceiveFails(s)

LossyNext == Next \/ Lose

Spec == Init /\ [][LossyNext]_vars

\* Calls proceed, the receive thread is scheduled and its blocking receive()
\* returns once an answer is there; on a failed port it need not return.
Scheduled == WF_vars(InCall) /\ \A s \in Sessions : WF_vars(Thread(s))

\* The client need not call anything, and the VESC need not answer.
SilentSpec == Spec /\ Scheduled

\* The VESC answers every request.
FairSpec == Init /\ [][Next]_vars /\ Scheduled /\ WF_vars(Answer)

-----------------------------------------------------------------------------
Running == {"check", "receive", "handle"}

TypeOK ==
    /\ port \in {"none", "closed", "open", "failed"}
    /\ packet_thread_run_ \in BOOLEAN
    /\ session \in 0..MaxConnects
    /\ thread \in [Sessions -> ThreadState]
    /\ client \in {"idle", "connecting", "assigning", "unwinding", "destroyed", "terminated"}
                      \cup Disconnecting
    /\ destroying \in BOOLEAN
    /\ requests \in Seq(Packets)
    /\ answers \in Seq(Packets)
    /\ batch \in Seq(Packets)

\* Two receive threads would share buffer_ and tear the stream apart.  They exist
\* side by side only inside a connect() that ends the process, and connect() finds
\* a thread that still runs only after its port has failed.
OneReceiver ==
    /\ [](\A s, t \in Sessions : {thread[s], thread[t]} \subseteq Running /\ s # t
              => client = "assigning")
    /\ [][client = "idle" /\ client' = "connecting"
              => port = "failed" \/ \A s \in Sessions : thread[s] \notin Running]_vars

\* A client that is connected has a receive thread which will keep receiving:
\* reconnecting never leaves the flag or the thread of an earlier session.
ConnectedIsReceived ==
    client = "idle" /\ isConnected =>
        /\ packet_thread_run_
        /\ session \in Sessions
        /\ thread[session] \in Running

\* Whenever the port has been closed, and when the destructor has returned, every
\* thread ever started has been joined: no handler call and no receive() can
\* follow.  (After a failure of the port neither happens: Terminate.)
NoThreadLeft ==
    port \in {"none", "closed"} \/ client = "destroyed" =>
        \A s \in Sessions : thread[s] \in {"unborn", "joined"}

\* packet_handler_ is called inside a connection only: the port has not been
\* closed, and the disconnect() or destructor that ends it has not returned.
HandlerInConnection ==
    [][Len(batch') < Len(batch) =>
          /\ {port, port'} \subseteq {"open", "failed"}
          /\ client \notin {"destroyed", "terminated"}]_vars

\* disconnect() returns, unless the port fails meanwhile: the thread is never
\* left blocked in receive().
DisconnectReturns ==
    client \in Disconnecting ~> client \in {"idle", "destroyed"} \/ port = "failed"

\* Answers are read and every packet read is handed to the handler, before or
\* after disconnect() is called; what the port still held then is lost.
AnswersHandled ==
    /\ answers # <<>> ~> \/ batch # <<>> \/ answers = <<>>
                         \/ port = "failed" \/ client = "terminated"
    /\ batch # <<>> ~> batch = <<>> \/ client = "terminated"
=============================================================================
