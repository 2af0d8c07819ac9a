--------------------------- MODULE VescDeviceLookup ---------------------------
(***************************************************************************)
(* vesc_device_namer: its main() makes a VescDeviceLookup, which asks the  *)
(* VESC for its version once, polls isReady(), and prints the uuid that    *)
(* the packet callback stores in the receive thread of VescInterface.      *)
(*                                                                         *)
(* uuid_ is the number of whole uuids that were appended to the string; a  *)
(* string that is read while it is written is Torn.  hwname_ and version_, *)
(* which nobody reads here, are left out: version_ is made by adding two   *)
(* integers to the pointer ".", and what it holds is undefined.            *)
(***************************************************************************)
EXTENDS VescInterface

CONSTANTS
    maxRetry,   \* the number of polls, 50 unless the user says otherwise
    MaxNoise,   \* bound on the errors that the interface reports
    Torn        \* what a read during a write may give

ASSUME LookupAssumption ==
    /\ Asked = {"FWVersion"}
    /\ Leftover = {}   \* the line is quiet: an answer to an earlier process would
                       \* be a second uuid
    /\ maxRetry \in Nat
    /\ MaxNoise \in Nat
    /\ Torn \notin Nat

VARIABLES
    main,       \* where main() is
    polls,
    callback,   \* how far vescPacketCallback has come
    uuid_,
    ready_,
    noise,      \* errors reported
    printed,    \* uuids on the standard output
    exported,   \* uuids in the environment
    status      \* the exit status, 1 while there is none

lookupVars == <<main, polls, callback, uuid_, ready_, noise, printed, exported, status>>
outputVars == <<printed, exported, status>>
stringVars == <<callback, uuid_, noise>>

LookupInit ==
    /\ Init
    /\ main = "construct"
    /\ polls = 0
    /\ callback = "none"
    /\ uuid_ = 0
    /\ ready_ = FALSE
    /\ noise = 0
    /\ printed = 0
    /\ exported = 0
    /\ status = 1

-----------------------------------------------------------------------------
(* The constructor connects and asks for the version; it catches the        *)
(* exception of a port that does not open.                                  *)

ConstructorConnects ==
    /\ main = "construct"
    /\ session = 0
    /\ ConnectOpens \/ ConnectStartsThread
    /\ UNCHANGED lookupVars

ConstructorReturns ==
    /\ main = "construct"
    /\ \/ session = 0 /\ ConnectFails
       \/ Request("FWVersion")
       \/ client = "idle" /\ port = "failed" /\ UNCHANGED vars
    /\ main' = "poll"
    /\ UNCHANGED <<polls, ready_, stringVars, outputVars>>

(* main().                                                                  *)

\* The loop sleeps for 20 microseconds and leaves when the lookup is ready.
Poll ==
    /\ main = "poll"
    /\ polls < maxRetry
    /\ polls' = polls + 1
    /\ main' = IF ready_ THEN "test" ELSE "poll"
    /\ UNCHANGED <<vars, ready_, stringVars, outputVars>>

PollEnds ==
    /\ main = "poll"
    /\ polls >= maxRetry
    /\ main' = "test"
    /\ UNCHANGED <<vars, polls, ready_, stringVars, outputVars>>

\* It asks again: an error may have been reported since.
TestReady ==
    /\ main = "test"
    /\ IF ready_ THEN main' = "print" /\ status' = 0
                 ELSE main' = "return" /\ status' = -1
    /\ UNCHANGED <<vars, polls, ready_, stringVars, printed, exported>>

deviceUUID == IF callback = "writing" THEN Torn ELSE uuid_

PrintUUID ==
    /\ main = "print"
    /\ printed' = deviceUUID
    /\ main' = "export"
    /\ UNCHANGED <<vars, polls, ready_, stringVars, exported, status>>

Export ==
    /\ main = "export"
    /\ exported' = deviceUUID
    /\ main' = "return"
    /\ UNCHANGED <<vars, polls, ready_, stringVars, printed, status>>

\* The destructor: vesc_ is the last member, and disconnects before the strings
\* are destroyed.
Destruct ==
    /\ main = "return"
    /\ \/ DisconnectStops(TRUE) \/ DisconnectWakes \/ DisconnectJoins
       \/ DisconnectCloses \/ Destroy \/ DestroyFailed \/ Terminate
    /\ UNCHANGED lookupVars

Exit ==
    /\ main = "return"
    /\ client = "destroyed"
    /\ main' = "ended"
    /\ UNCHANGED <<vars, polls, ready_, stringVars, outputVars>>

Main == \/ ConstructorConnects \/ ConstructorReturns \/ Poll \/ PollEnds
        \/ TestReady \/ PrintUUID \/ Export \/ Destruct \/ Exit

-----------------------------------------------------------------------------
(* The receive thread.                                                      *)

\* Mutation of CallbackStarts: ready_ is set before the uuid is there.
CallbackStartsReady(s) ==
    /\ thread[s] = "handle"
    /\ batch # <<>>
    /\ callback = "none"
    /\ callback' = "writing"
    /\ ready_' = TRUE
    /\ UNCHANGED <<vars, main, polls, uuid_, noise, outputVars>>

\* vescPacketCallback appends the uuid of the packet to the string ...
CallbackStarts(s) ==
    /\ thread[s] = "handle"
    /\ batch # <<>>
    /\ callback = "none"
    /\ callback' = "writing"
    /\ UNCHANGED <<vars, main, polls, uuid_, ready_, noise, outputVars>>

CallbackAppends ==
    /\ callback = "writing"
    /\ uuid_' = uuid_ + 1
    /\ callback' = "written"
    /\ UNCHANGED <<vars, main, polls, ready_, noise, outputVars>>

\* ... sets ready_, and returns.
CallbackReturns(s) ==
    /\ callback = "written"
    /\ Handle(s)
    /\ ready_' = TRUE
    /\ callback' = "none"
    /\ UNCHANGED <<main, polls, uuid_, noise, outputVars>>

\* vescErrorCallback: the search reports bytes that belong to no packet.
ErrorCallback(s) ==
    /\ thread[s] = "handle"
    /\ callback = "none"
    /\ noise < MaxNoise
    /\ noise' = noise + 1
    /\ ready_' = FALSE
    /\ UNCHANGED <<vars, main, polls, callback, uuid_, outputVars>>

\* What the thread does besides its callbacks.
ThreadRuns(s) ==
    /\ Check(s) \/ Repeat(s) \/ \E n \in 1..Len(answers) : Receive(s, n)
    /\ UNCHANGED lookupVars

ReceiveThread(s) ==
    \/ ThreadRuns(s) \/ CallbackStarts(s) \/ CallbackAppends \/ CallbackReturns(s)

Line == Answer /\ UNCHANGED lookupVars
Faults == /\ PortFails \/ \E s \in Sessions : ReceiveFails(s)
          /\ UNCHANGED lookupVars
LineLoses == Lose /\ UNCHANGED lookupVars

LookupNext ==
    \/ Main
    \/ \E s \in Sessions : ReceiveThread(s) \/ ErrorCallback(s)
    \/ Line \/ Faults

LookupSpec == LookupInit /\ [][LookupNext \/ LineLoses]_<<vars, lookupVars>>

\* main() and the receive thread are scheduled, and the VESC answers every request.
FairLookupSpec ==
    /\ LookupInit /\ [][LookupNext]_<<vars, lookupVars>>
    /\ WF_<<vars, lookupVars>>(Main)
    /\ WF_<<vars, lookupVars>>(\E s \in Sessions : ReceiveThread(s))
    /\ WF_<<vars, lookupVars>>(Line)

-----------------------------------------------------------------------------
LookupTypeOK ==
    /\ main \in {"construct", "poll", "test", "print", "export", "return", "ended"}
    /\ polls \in 0..maxRetry
    /\ callback \in {"none", "writing", "written"}
    /\ uuid_ \in Nat
    /\ ready_ \in BOOLEAN
    /\ noise \in 0..MaxNoise
    /\ printed \in Nat \cup {Torn}
    /\ exported \in Nat \cup {Torn}
    /\ status \in {-1, 0, 1}

\* What is printed and exported is one whole uuid, although the callback writes
\* the string without a lock and appends to it with every version packet, the
\* answer that ends disconnect() included.
PrintedOnce ==
    /\ main \in {"export", "return", "ended"} /\ status = 0 => printed = 1
    /\ main \in {"return", "ended"} /\ status = 0 => exported = 1

\* No callback writes to the strings of the lookup after they are gone.
NoUseAfterDestruction ==
    main = "ended" =>
        /\ callback = "none"
        /\ \A s \in Sessions : thread[s] \in {"unborn", "joined"}

\* The process ends, whether the port opens or not, with an answer in time or
\* too late; when the port fails it is terminated, or it may wait for the thread.
Ends == <>(main = "ended" \/ client = "terminated" \/ (client = "joining" /\ port = "failed"))
=============================================================================
