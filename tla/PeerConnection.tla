--------------------------- MODULE PeerConnection ---------------------------
(***************************************************************************)
(* A WebRTC call: CallActivity (the UI thread) and PeerConnectionClient,   *)
(* one object for the whole process whose single executor thread makes     *)
(* every call of the WebRTC library. The library answers on a thread of    *)
(* its own, each answer becomes a task of the executor, and each event of  *)
(* the client a runnable of the UI thread. The signalling client of the    *)
(* room (modules DirectRtc and WebSocketRtc) is the environment here: it   *)
(* posts to the UI thread what it hears.                                   *)
(*                                                                         *)
(* The fields of the client are set by the UI thread (a new call, the      *)
(* capturer), by the executor and by the library's thread, without a lock. *)
(***************************************************************************)
EXTENDS Naturals, Sequences, FiniteSets

CONSTANTS
  Calls,          \* the CallActivity objects, 1, 2, ... in the order of their creation
  MaxCandidates,  \* bound: remote candidates of a call
  MaxKept,        \* bound: those of them the room keeps for the one who joins
  MaxEvents,      \* bound: what the user does and what fails, together
  MaxFailures,    \* bound: failures of the library, the camera and the room
  LimitsBitrate   \* peerConnectionParameters.videoMaxBitrate > 0

ASSUME PeerAssumption ==
  /\ Calls \subseteq Nat \ {0} /\ LimitsBitrate \in BOOLEAN
  /\ {MaxCandidates, MaxKept, MaxEvents, MaxFailures} \subseteq Nat /\ MaxKept <= MaxCandidates

None == 0

VARIABLES
  act,       \* [c] fields of a CallActivity and where it is in its life
  client,    \* fields of the PeerConnectionClient
  conn,      \* [c] the PeerConnection made for a call, as the library sees it
  capturing, \* the calls whose capturer runs
  ui, exec,  \* runnables of the UI thread, tasks of the executor
  room,      \* [c] what the other end and the room server did in a call
  wire,      \* [c] what was sent through appRtcClient
  faults,    \* what threw on the executor; the executor goes on with a new thread
  dead,      \* the UI thread threw
  moves, failures

appVars == <<act, wire, dead>>
callVars == <<client, conn, capturing>>
queueVars == <<ui, exec>>
boundVars == <<moves, failures>>
vars == <<appVars, callVars, queueVars, room, faults, boundVars>>

Roles == {"initiator", "offered", "waiting"}  \* "waiting": joined, the offer is still to come
Operations == {"createOffer", "createAnswer", "setLocal", "setRemote"}
Events == {"connected", "description", "candidate", "remove", "hungUp", "error", "sdp", "ice"}
Tasks ==
  {"factory", "create", "offer", "answer", "setRemote", "setLocal", "setDone", "candidate",
   "remove", "error", "ice", "hungUp", "stop", "start", "close"}

TypeOK ==
  /\ act \in [Calls -> [phase : {"none", "shown", "hidden", "gone"}, finishing : BOOLEAN,
       client : BOOLEAN, room : BOOLEAN, running : BOOLEAN, isError : BOOLEAN,
       dialog : BOOLEAN, role : Roles \cup {"none"}, early : BOOLEAN]]
  /\ client \in [events : Calls \cup {None}, factory : BOOLEAN, pc : Calls \cup {None},
       isError : BOOLEAN, localSdp : BOOLEAN, isInitiator : BOOLEAN, queueing : BOOLEAN,
       queued : Seq(1..MaxCandidates), video : BOOLEAN, capturer : Calls \cup {None},
       source : BOOLEAN, stopped : BOOLEAN]
  /\ conn \in [Calls -> [state : {"none", "open", "disposed"}, local : BOOLEAN, remote : BOOLEAN,
       operations : Seq(Operations), added : Seq(1..MaxCandidates)]]
  /\ capturing \in SUBSET Calls
  /\ ui \in Seq([call : Calls, do : Events, of : 0..MaxCandidates])
  /\ exec \in Seq([do : Tasks, of : Nat])
  /\ room \in [Calls -> [connected : BOOLEAN, role : Roles \cup {"none"}, described : BOOLEAN,
       candidates : 0..MaxCandidates, removed : BOOLEAN]]
  /\ wire \in [Calls -> Seq({"sdp", "candidate"})]
  /\ faults \in SUBSET {"capturer", "events"}
  /\ dead \in BOOLEAN /\ moves \in 0..MaxEvents /\ failures \in 0..MaxFailures

Init ==
  /\ act = [c \in Calls |-> [phase |-> "none", finishing |-> FALSE, client |-> FALSE,
       room |-> FALSE, running |-> FALSE, isError |-> FALSE, dialog |-> FALSE,
       role |-> "none", early |-> FALSE]]
  /\ client = [events |-> None, factory |-> FALSE, pc |-> None, isError |-> FALSE,
       localSdp |-> FALSE, isInitiator |-> FALSE, queueing |-> FALSE, queued |-> <<>>,
       video |-> FALSE, capturer |-> None, source |-> FALSE, stopped |-> FALSE]
  /\ conn = [c \in Calls |-> [state |-> "none", local |-> FALSE, remote |-> FALSE,
       operations |-> <<>>, added |-> <<>>]]
  /\ capturing = {} /\ ui = <<>> /\ exec = <<>>
  /\ room = [c \in Calls |-> [connected |-> FALSE, role |-> "none", described |-> FALSE,
       candidates |-> 0, removed |-> FALSE]]
  /\ wire = [c \in Calls |-> <<>>]
  /\ faults = {} /\ dead = FALSE /\ moves = 0 /\ failures = 0

Task(do, of) == [do |-> do, of |-> of]
Event(c, do, of) == [call |-> c, do |-> do, of |-> of]
Execute(tasks) == exec' = exec \o tasks          \* executor.execute
Move == moves + failures < MaxEvents /\ moves' = moves + 1
Failure ==
  moves + failures < MaxEvents /\ failures < MaxFailures /\ failures' = failures + 1

-----------------------------------------------------------------------------
(* CallActivity: the user and the operating system.                        *)

(* onCreate and onStart: createPeerConnectionFactory resets the fields of the client, *)
(* videoCallEnabled to what was asked for, a call with video.                         *)
CreateActivity(c) ==
  /\ act[c].phase = "none"
  /\ \A b \in Calls : b < c => act[b].finishing
  /\ act' = [act EXCEPT ![c].phase = "shown", ![c].client = TRUE, ![c].room = TRUE,
                        ![c].running = TRUE]
  /\ client' = [client EXCEPT !.events = c, !.factory = FALSE, !.pc = None, !.isError = FALSE,
       !.localSdp = FALSE, !.queueing = FALSE, !.queued = <<>>, !.video = TRUE,
       !.capturer = None, !.stopped = FALSE]
  /\ Execute(<<Task("factory", c), Task("start", c)>>)
  /\ UNCHANGED <<conn, capturing, ui, room, wire, faults, dead, boundVars>>

(* disconnect: leaves the room, closes the client and finishes the activity. *)
Disconnected(a) ==
  [a EXCEPT !.running = FALSE, !.room = FALSE, !.client = FALSE, !.finishing = TRUE]
Closing(c) == IF act[c].client THEN <<Task("close", c)>> ELSE <<>>

(* onCallHangUp. *)
HangUp(c) ==
  /\ act[c].phase = "shown" /\ ~act[c].finishing /\ ~act[c].dialog /\ Move
  /\ act' = [act EXCEPT ![c] = Disconnected(@)]
  /\ Execute(Closing(c))
  /\ UNCHANGED <<callVars, ui, room, wire, faults, dead, failures>>

(* The back key finishes the activity; it is onDestroy that will disconnect. *)
Back(c) ==
  /\ act[c].phase = "shown" /\ ~act[c].finishing /\ ~act[c].dialog /\ Move
  /\ act' = [act EXCEPT ![c].finishing = TRUE]
  /\ UNCHANGED <<callVars, queueVars, room, wire, faults, dead, failures>>

(* The user closes the error dialog. *)
DialogOk(c) ==
  /\ act[c].dialog /\ act[c].phase = "shown"
  /\ act' = [act EXCEPT ![c] = [Disconnected(@) EXCEPT !.dialog = FALSE]]
  /\ Execute(Closing(c))
  /\ UNCHANGED <<callVars, ui, room, wire, faults, dead, boundVars>>

(* onStop: the user shows something else. *)
Stop(c) ==
  /\ act[c].phase = "shown" /\ ~act[c].finishing /\ Move
  /\ act' = [act EXCEPT ![c].phase = "hidden", ![c].running = FALSE]
  /\ Execute(IF act[c].client THEN <<Task("stop", c)>> ELSE <<>>)
  /\ UNCHANGED <<callVars, ui, room, wire, faults, dead, failures>>

(* onStart again. *)
Start(c) ==
  /\ act[c].phase = "hidden" /\ ~act[c].finishing
  /\ act' = [act EXCEPT ![c].phase = "shown", ![c].running = TRUE]
  /\ Execute(IF act[c].client THEN <<Task("start", c)>> ELSE <<>>)
  /\ UNCHANGED <<callVars, ui, room, wire, faults, dead, boundVars>>

(* onStop and onDestroy of an activity that finishes. *)
Destroy(c) ==
  /\ act[c].phase \in {"shown", "hidden"} /\ act[c].finishing
  /\ act' = [act EXCEPT ![c] = [Disconnected(@) EXCEPT !.phase = "gone"]]
  /\ Execute(IF act[c].client THEN <<Task("stop", c)>> \o Closing(c) ELSE <<>>)
  /\ UNCHANGED <<callVars, ui, room, wire, faults, dead, boundVars>>

-----------------------------------------------------------------------------
(* CallActivity: runnables of the UI thread.                               *)

Handling(do) == ui # <<>> /\ Head(ui).do = do /\ ui' = Tail(ui)

(* Mutant: an error of a call that is not shown does not end it. *)
Reported_OnlyShown(a) ==
  IF a.isError THEN a
  ELSE IF a.running THEN [a EXCEPT !.isError = TRUE, !.dialog = TRUE]
       ELSE [a EXCEPT !.isError = TRUE]

(* Both reportErrors and disconnectWithErrorMessage: only the first error counts. *)
Reported(a) ==
  IF a.isError THEN a
  ELSE IF a.running THEN [a EXCEPT !.isError = TRUE, !.dialog = TRUE]
       ELSE [Disconnected(a) EXCEPT !.isError = TRUE]
ClosedBy(c, after) == IF act[c].client /\ ~after.client THEN <<Task("close", c)>> ELSE <<>>

(* onConnectedToRoomInternal; of is the number of candidates the room kept. Without a *)
(* capturer (createVideoCapturer reports the error) the call goes on.                 *)
OnConnected ==
  /\ Handling("connected")
  /\ LET c == Head(ui).call
         n == Head(ui).of
     IN \E camera \in BOOLEAN :
        LET role == room[c].role
            a == [IF camera THEN act[c] ELSE Reported(act[c]) EXCEPT !.role = role]
            first == IF role = "initiator" THEN <<Task("offer", c)>>
                     ELSE IF role = "offered" THEN <<Task("setRemote", c), Task("answer", c)>>
                          ELSE <<>>
        IN /\ IF camera THEN UNCHANGED failures ELSE Failure
           /\ IF a.client
              THEN /\ act' = [act EXCEPT ![c] = [a EXCEPT !.early =
                        a.phase # "shown" \/ \E i \in 1..Len(exec) : exec[i].do = "stop"]]
                   /\ client' = [client EXCEPT !.capturer = IF camera THEN c ELSE None]
                   /\ Execute(<<Task("create", c)>> \o first
                              \o [i \in 1..n |-> Task("candidate", i)])
                   /\ UNCHANGED dead
              ELSE /\ act' = [act EXCEPT ![c] = a]       \* peerConnectionClient is null
                   /\ dead' = TRUE
                   /\ Execute(ClosedBy(c, a))
                   /\ UNCHANGED client
  /\ UNCHANGED <<conn, capturing, room, wire, faults, moves>>

(* onRemoteDescription. *)
OnDescription ==
  /\ Handling("description")
  /\ LET c == Head(ui).call
     IN Execute(IF ~act[c].client THEN <<>>
                ELSE IF act[c].role = "initiator" THEN <<Task("setRemote", c)>>
                     ELSE <<Task("setRemote", c), Task("answer", c)>>)
  /\ UNCHANGED <<appVars, callVars, room, faults, boundVars>>

(* onRemoteIceCandidate and onRemoteIceCandidatesRemoved. *)
OnCandidate ==
  /\ \/ Handling("candidate")
     \/ Handling("remove")
  /\ Execute(IF act[Head(ui).call].client THEN <<Task(Head(ui).do, Head(ui).of)>> ELSE <<>>)
  /\ UNCHANGED <<appVars, callVars, room, faults, boundVars>>

(* onChannelClose and onIceDisconnected. *)
OnHungUp ==
  /\ Handling("hungUp")
  /\ LET c == Head(ui).call
     IN act' = [act EXCEPT ![c] = Disconnected(@)] /\ Execute(Closing(c))
  /\ UNCHANGED <<callVars, room, wire, faults, dead, boundVars>>

(* onChannelError and onPeerConnectionError. *)
OnError ==
  /\ Handling("error")
  /\ LET c == Head(ui).call
         a == Reported(act[c])
     IN act' = [act EXCEPT ![c] = a] /\ Execute(ClosedBy(c, a))
  /\ UNCHANGED <<callVars, room, wire, faults, dead, boundVars>>

(* onLocalDescription: sendOfferSdp or sendAnswerSdp; peerConnectionClient may be null. *)
OnLocalDescription ==
  /\ Handling("sdp")
  /\ LET c == Head(ui).call
     IN /\ wire' = IF act[c].room THEN [wire EXCEPT ![c] = Append(@, "sdp")] ELSE wire
        /\ dead' = (LimitsBitrate /\ ~act[c].client)
  /\ UNCHANGED <<act, callVars, exec, room, faults, boundVars>>

(* onIceCandidate and onIceCandidatesRemoved. *)
OnIceCandidate ==
  /\ Handling("ice")
  /\ LET c == Head(ui).call
     IN wire' = IF act[c].room THEN [wire EXCEPT ![c] = Append(@, "candidate")] ELSE wire
  /\ UNCHANGED <<act, dead, callVars, exec, room, faults, boundVars>>

-----------------------------------------------------------------------------
(* PeerConnectionClient: tasks of the executor.                            *)

Running(do) == exec # <<>> /\ Head(exec).do = do
Done == exec' = Tail(exec)
Usable == client.pc # None /\ ~client.isError
Ask(operation) == conn' = [conn EXCEPT ![client.pc].operations = Append(@, operation)]

(* createPeerConnectionFactoryInternal. *)
CreateFactory ==
  /\ Running("factory") /\ Done
  /\ client' = [client EXCEPT !.isError = FALSE, !.factory = TRUE]
  /\ UNCHANGED <<appVars, conn, capturing, ui, room, faults, boundVars>>

(* createMediaConstraintsInternal and createPeerConnectionInternal: without a capturer the *)
(* call is of sound only, for every connection until videoCallEnabled is set again.         *)
CreatePeerConnection ==
  /\ Running("create") /\ Done
  /\ LET c == Head(exec).of
         video == client.video /\ client.capturer # None
     IN IF ~client.factory \/ client.isError
        THEN client' = [client EXCEPT !.video = video] /\ UNCHANGED <<conn, capturing>>
        ELSE /\ conn' = [conn EXCEPT ![c].state = "open"]
             /\ client' = [client EXCEPT !.pc = c, !.queueing = TRUE, !.queued = <<>>,
                             !.isInitiator = FALSE, !.video = video, !.source = video \/ @]
             /\ capturing' = IF video THEN capturing \cup {client.capturer} ELSE capturing
  /\ UNCHANGED <<appVars, ui, room, faults, boundVars>>

(* createOffer. *)
CreateOffer ==
  /\ Running("offer") /\ Done
  /\ IF Usable THEN client' = [client EXCEPT !.isInitiator = TRUE] /\ Ask("createOffer")
     ELSE UNCHANGED <<client, conn>>
  /\ UNCHANGED <<appVars, capturing, ui, room, faults, boundVars>>

(* createAnswer. *)
CreateAnswer ==
  /\ Running("answer") /\ Done
  /\ IF Usable THEN client' = [client EXCEPT !.isInitiator = FALSE] /\ Ask("createAnswer")
     ELSE UNCHANGED <<client, conn>>
  /\ UNCHANGED <<appVars, capturing, ui, room, faults, boundVars>>

(* setRemoteDescription, and the task of onCreateSuccess that sets the local one. *)
SetDescription ==
  /\ \/ Running("setRemote")
     \/ Running("setLocal")
  /\ Done
  /\ IF Usable THEN Ask(Head(exec).do) ELSE UNCHANGED conn
  /\ UNCHANGED <<appVars, client, capturing, ui, room, faults, boundVars>>

(* addRemoteIceCandidate. *)
AddCandidate ==
  /\ Running("candidate") /\ Done
  /\ LET n == Head(exec).of
     IN IF ~Usable THEN UNCHANGED <<client, conn>>
        ELSE IF client.queueing
             THEN client' = [client EXCEPT !.queued = Append(@, n)] /\ UNCHANGED conn
             ELSE /\ conn' = [conn EXCEPT ![client.pc].added = Append(@, n)]
                  /\ UNCHANGED client
  /\ UNCHANGED <<appVars, capturing, ui, room, faults, boundVars>>

(* Mutant: the queue is not forgotten. *)
DrainCandidates_NotForgotten ==
  IF client.queueing
  THEN /\ conn' = [conn EXCEPT ![client.pc].added = @ \o client.queued]
       /\ UNCHANGED client
  ELSE UNCHANGED <<client, conn>>

(* drainCandidates. *)
DrainCandidates ==
  IF client.queueing
  THEN /\ conn' = [conn EXCEPT ![client.pc].added = @ \o client.queued]
       /\ client' = [client EXCEPT !.queueing = FALSE, !.queued = <<>>]
  ELSE UNCHANGED <<client, conn>>

(* removeRemoteIceCandidates. *)
RemoveCandidates ==
  /\ Running("remove") /\ Done
  /\ IF Usable THEN DrainCandidates ELSE UNCHANGED <<client, conn>>
  /\ UNCHANGED <<appVars, capturing, ui, room, faults, boundVars>>

(* An event of the listener; it is null when an earlier call's closeInternal has run. *)
Heard == client.events # None
Tell(do) == ui' = Append(ui, Event(client.events, do, None)) /\ UNCHANGED faults
NobodyHears == faults' = faults \cup {"events"} /\ UNCHANGED ui

(* Mutant: the one who answers does not drain the queue. *)
SetSuccess_AnswererKeeps ==
  /\ Running("setDone") /\ Done
  /\ LET pc == conn[client.pc]
         done == IF client.isInitiator THEN ~pc.remote ELSE pc.local
     IN IF ~Usable \/ ~(done \/ client.isInitiator) THEN UNCHANGED <<client, conn, ui, faults>>
        ELSE IF ~done THEN DrainCandidates /\ UNCHANGED <<ui, faults>>
        ELSE IF ~Heard THEN NobodyHears /\ UNCHANGED <<client, conn>>
        ELSE Tell("sdp") /\ UNCHANGED <<client, conn>>
  /\ UNCHANGED <<appVars, capturing, room, boundVars>>

(* Mutant: the initiator asks for the local description. *)
SetSuccess_AskLocal ==
  /\ Running("setDone") /\ Done
  /\ LET pc == conn[client.pc]
         done == pc.local
     IN IF ~Usable \/ ~(done \/ client.isInitiator) THEN UNCHANGED <<client, conn, ui, faults>>
        ELSE IF ~done THEN DrainCandidates /\ UNCHANGED <<ui, faults>>
        ELSE IF ~Heard THEN NobodyHears /\ UNCHANGED <<client, conn>>
        ELSE Tell("sdp") /\ IF client.isInitiator THEN UNCHANGED <<client, conn>>
                            ELSE DrainCandidates
  /\ UNCHANGED <<appVars, capturing, room, boundVars>>

(* The task of onSetSuccess: the initiator drains the queue when it has the remote *)
(* description, the one who answers after it told its own.                         *)
SetSuccess ==
  /\ Running("setDone") /\ Done
  /\ LET pc == conn[client.pc]
         done == IF client.isInitiator THEN ~pc.remote ELSE pc.local
     IN IF ~Usable \/ ~(done \/ client.isInitiator) THEN UNCHANGED <<client, conn, ui, faults>>
        ELSE IF ~done THEN DrainCandidates /\ UNCHANGED <<ui, faults>>
        ELSE IF ~Heard THEN NobodyHears /\ UNCHANGED <<client, conn>>
        ELSE Tell("sdp") /\ IF client.isInitiator THEN UNCHANGED <<client, conn>>
                            ELSE DrainCandidates
  /\ UNCHANGED <<appVars, capturing, room, boundVars>>

(* The task of reportError. *)
HandleError ==
  /\ Running("error") /\ Done
  /\ IF client.isError THEN UNCHANGED <<client, ui, faults>>
     ELSE IF Heard THEN Tell("error") /\ client' = [client EXCEPT !.isError = TRUE]
     ELSE NobodyHears /\ UNCHANGED client
  /\ UNCHANGED <<appVars, conn, capturing, room, boundVars>>

(* Mutant: the listener is called after closeInternal. *)
HandleIce_AfterClose ==
  /\ \/ Running("ice")
     \/ Running("hungUp")
  /\ Done
  /\ Tell(Head(exec).do)
  /\ UNCHANGED <<appVars, callVars, room, boundVars>>

(* The tasks of onIceCandidate, onIceCandidatesRemoved and onIceConnectionChange. *)
HandleIce ==
  /\ \/ Running("ice")
     \/ Running("hungUp")
  /\ Done
  /\ IF Heard THEN Tell(Head(exec).do) ELSE NobodyHears
  /\ UNCHANGED <<appVars, callVars, room, boundVars>>

(* Mutant: videoCapturerStopped is not set. *)
StopVideoSource_NoFlag ==
  /\ Running("stop") /\ Done
  /\ IF client.capturer # None /\ ~client.stopped
     THEN /\ capturing' = capturing \ {client.capturer}
          /\ UNCHANGED client
     ELSE UNCHANGED <<client, capturing>>
  /\ UNCHANGED <<appVars, conn, ui, room, faults, boundVars>>

(* stopVideoSource. *)
StopVideoSource ==
  /\ Running("stop") /\ Done
  /\ IF client.capturer # None /\ ~client.stopped
     THEN /\ capturing' = capturing \ {client.capturer}
          /\ client' = [client EXCEPT !.stopped = TRUE]
     ELSE UNCHANGED <<client, capturing>>
  /\ UNCHANGED <<appVars, conn, ui, room, faults, boundVars>>

(* startVideoSource; a capturer that createVideoTrack has not initialised throws. *)
StartVideoSource ==
  /\ Running("start") /\ Done
  /\ IF client.capturer = None \/ ~client.stopped THEN UNCHANGED <<client, capturing, faults>>
     ELSE IF ~client.source
          THEN faults' = faults \cup {"capturer"} /\ UNCHANGED <<client, capturing>>
          ELSE /\ capturing' = capturing \cup {client.capturer}
               /\ client' = [client EXCEPT !.stopped = FALSE] /\ UNCHANGED faults
  /\ UNCHANGED <<appVars, conn, ui, room, boundVars>>

(* Mutant: a capturer said to be stopped is not stopped. *)
CloseInternal_TrustsFlag ==
  /\ Running("close") /\ Done
  /\ conn' = [c \in Calls |-> IF c = client.pc
                              THEN [conn[c] EXCEPT !.state = "disposed", !.operations = <<>>]
                              ELSE conn[c]]
  /\ capturing' = IF client.stopped THEN capturing ELSE capturing \ {client.capturer}
  /\ client' = [client EXCEPT !.pc = None, !.capturer = None, !.source = FALSE,
       !.stopped = client.stopped \/ client.capturer # None, !.factory = FALSE, !.events = None]
  /\ faults' = IF client.events = None THEN faults \cup {"events"} ELSE faults
  /\ UNCHANGED <<appVars, ui, room, boundVars>>

(* closeInternal; events is null when an earlier one has run. *)
CloseInternal ==
  /\ Running("close") /\ Done
  /\ conn' = [c \in Calls |-> IF c = client.pc
                              THEN [conn[c] EXCEPT !.state = "disposed", !.operations = <<>>]
                              ELSE conn[c]]
  /\ capturing' = capturing \ {client.capturer}
  /\ client' = [client EXCEPT !.pc = None, !.capturer = None, !.source = FALSE,
       !.stopped = client.stopped \/ client.capturer # None, !.factory = FALSE, !.events = None]
  /\ faults' = IF client.events = None THEN faults \cup {"events"} ELSE faults
  /\ UNCHANGED <<appVars, ui, room, boundVars>>

-----------------------------------------------------------------------------
(* The WebRTC library: it carries out one operation after another and answers on *)
(* its own thread. A PeerConnection that was disposed answers no more.           *)

(* onCreateSuccess: localSdp is read and set on the library's thread. *)
Created(c) ==
  IF client.localSdp
  THEN Execute(<<Task("error", None)>>) /\ UNCHANGED client
  ELSE Execute(<<Task("setLocal", None)>>) /\ client' = [client EXCEPT !.localSdp = TRUE]

Possible(c, operation) ==
  CASE operation = "createAnswer" -> conn[c].remote
    [] operation = "setRemote" -> room[c].role = "initiator" => conn[c].local
    [] OTHER -> TRUE

(* onCreateSuccess, onSetSuccess. *)
Answer(c) ==
  /\ conn[c].operations # <<>>
  /\ LET operation == Head(conn[c].operations)
         rest == [conn[c] EXCEPT !.operations = Tail(@)]
     IN /\ Possible(c, operation)
        /\ CASE operation = "setLocal" -> conn' = [conn EXCEPT ![c] = [rest EXCEPT !.local = TRUE]]
             [] operation = "setRemote" -> conn' = [conn EXCEPT ![c] = [rest EXCEPT !.remote = TRUE]]
             [] OTHER -> conn' = [conn EXCEPT ![c] = rest]
        /\ CASE operation = "setLocal" ->
                  (* its first candidate comes at once, or the device has no network *)
                  /\ \E candidates \in {<<>>, <<Task("ice", None)>>} :
                       Execute(<<Task("setDone", None)>> \o candidates)
                  /\ UNCHANGED client
             [] operation = "setRemote" -> Execute(<<Task("setDone", None)>>) /\ UNCHANGED client
             [] OTHER -> Created(c)
  /\ UNCHANGED <<appVars, capturing, ui, room, faults, boundVars>>

(* onCreateFailure, onSetFailure. *)
Refuse(c) ==
  /\ conn[c].operations # <<>>
  /\ IF Possible(c, Head(conn[c].operations)) THEN Failure ELSE UNCHANGED failures
  /\ conn' = [conn EXCEPT ![c].operations = Tail(@)]
  /\ Execute(<<Task("error", None)>>)
  /\ UNCHANGED <<appVars, client, capturing, ui, room, faults, moves>>

(* onIceConnectionChange with DISCONNECTED. *)
LoseConnection(c) ==
  /\ conn[c].state = "open" /\ conn[c].local /\ conn[c].remote /\ Failure
  /\ Execute(<<Task("hungUp", None)>>)
  /\ UNCHANGED <<appVars, callVars, ui, room, faults, moves>>

(* onIceConnectionChange with FAILED, an error of the microphone or the loudspeaker. *)
OtherError(c) ==
  /\ conn[c].state = "open" /\ Failure
  /\ Execute(<<Task("error", None)>>)
  /\ UNCHANGED <<appVars, callVars, ui, room, faults, moves>>

-----------------------------------------------------------------------------
(* The signalling client of the room, on its looper: what it hears it posts to the *)
(* UI thread, which may find it after the activity has disconnected.               *)

Hear(c, do, of) ==
  /\ act[c].room
  /\ ui' = Append(ui, Event(c, do, of))
  /\ UNCHANGED <<appVars, callVars, exec, faults>>

(* onConnectedToRoom: the room kept an offer and some candidates for the one who joins. *)
RoomConnected(c) ==
  /\ ~room[c].connected
  /\ \E role \in Roles, n \in 0..MaxKept :
       /\ role = "initiator" => n = 0
       /\ room' = [room EXCEPT ![c].connected = TRUE, ![c].role = role, ![c].candidates = n,
                               ![c].described = (role = "offered")]
       /\ Hear(c, "connected", n)
  /\ UNCHANGED boundVars

(* onRemoteDescription: the answer to the offer sent, or the offer. *)
RoomDescription(c) ==
  /\ room[c].connected /\ ~room[c].described
  /\ room[c].role = "initiator" => wire[c] # <<>>
  /\ room' = [room EXCEPT ![c].described = TRUE]
  /\ Hear(c, "description", None)
  /\ UNCHANGED boundVars

(* onRemoteIceCandidate: candidates may overtake the description on their way. *)
RoomCandidate(c) ==
  /\ room[c].connected /\ room[c].candidates < MaxCandidates
  /\ room[c].role = "initiator" => wire[c] # <<>>
  /\ room' = [room EXCEPT ![c].candidates = @ + 1]
  /\ Hear(c, "candidate", room[c].candidates + 1)
  /\ UNCHANGED boundVars

(* onRemoteIceCandidatesRemoved. *)
RoomRemoved(c) ==
  /\ room[c].candidates > 0 /\ ~room[c].removed
  /\ room' = [room EXCEPT ![c].removed = TRUE]
  /\ Hear(c, "remove", None)
  /\ UNCHANGED boundVars

(* onChannelClose, onChannelError. *)
RoomClosed(c) ==
  /\ Failure
  /\ \/ Hear(c, "hungUp", None)
     \/ Hear(c, "error", None)
  /\ UNCHANGED <<room, moves>>

-----------------------------------------------------------------------------
UiTask == OnConnected \/ OnDescription \/ OnCandidate \/ OnHungUp \/ OnError
            \/ OnLocalDescription \/ OnIceCandidate
ExecutorTask == CreateFactory \/ CreatePeerConnection \/ CreateOffer \/ CreateAnswer
            \/ SetDescription \/ AddCandidate \/ RemoveCandidates \/ SetSuccess \/ HandleError
            \/ HandleIce \/ StopVideoSource \/ StartVideoSource
            \/ CloseInternal
User(c) == CreateActivity(c) \/ HangUp(c) \/ Back(c) \/ DialogOk(c) \/ Stop(c) \/ Start(c)
            \/ Destroy(c)
Library(c) == Answer(c) \/ Refuse(c) \/ LoseConnection(c) \/ OtherError(c)
Room(c) == RoomConnected(c) \/ RoomDescription(c) \/ RoomCandidate(c) \/ RoomRemoved(c)
            \/ RoomClosed(c)

(* An exception on the UI thread ends the process. *)
Next ==
  /\ ~dead
  /\ \/ UiTask \/ ExecutorTask
     \/ \E c \in Calls : User(c) \/ Library(c) \/ Room(c)

Spec == Init /\ [][Next]_vars

-----------------------------------------------------------------------------
Idle == ui = <<>> /\ exec = <<>> /\ (\A c \in Calls : conn[c].operations = <<>>) /\ ~dead
InUse(c) == client.pc = c /\ ~client.isError

(* No remote candidate is lost, repeated or overtaken on its way from the room to the  *)
(* PeerConnection, whether it came before the connection, before the descriptions or   *)
(* while the queue was drained (addRemoteIceCandidate, drainCandidates). The queue is  *)
(* drained when both descriptions are set, however late each answer of the library     *)
(* (onSetSuccess); nothing leaves it before that unless the other end removes          *)
(* candidates (removeRemoteIceCandidates drains at once).                              *)
CandidatesKept ==
  \A c \in Calls :
    LET got == conn[c].added \o client.queued
        described == conn[c].local /\ conn[c].remote
    IN /\ InUse(c) => got = [i \in 1..Len(got) |-> i]
       /\ InUse(c) /\ Idle => Len(got) = room[c].candidates /\ ~(described /\ client.queueing)
       /\ conn[c].added # <<>> => described \/ room[c].removed

(* The offer or the answer is sent once, before any candidate (an error may come between), *)
(* and is not forgotten when the local description was set: onSetSuccess, which one        *)
(* observer hears for both sides' descriptions, tells them apart.                          *)
SentOnce ==
  \A c \in Calls :
    /\ \A i \in 1..Len(wire[c]) : wire[c][i] = "sdp" => i = 1
    /\ InUse(c) /\ wire[c] # <<>> => wire[c][1] = "sdp"
    /\ Idle /\ InUse(c) /\ act[c].room /\ conn[c].local => wire[c] # <<>>

(* The camera films while the call is on the screen and not while it is hidden, unless the *)
(* call was hidden, or its stopVideoSource still queued, when the room answered: the       *)
(* executor then stops a capturer that createVideoTrack starts afterwards.                 *)
CaptureFollowsScreen ==
  \A c \in Calls : Idle /\ client.pc = c /\ client.capturer = c =>
    /\ act[c].phase = "shown" => c \in capturing
    /\ act[c].phase = "hidden" /\ ~act[c].early => c \notin capturing

(* An error of the library reaches the user, who sees a dialog, or ends a call that is not *)
(* shown; no error, close or hang-up that follows it hides it (both isError flags).        *)
ErrorsHeard ==
  \A c \in Calls :
    /\ Idle /\ client.isError /\ client.events = c => act[c].isError
    /\ act[c].isError => act[c].dialog \/ ~act[c].client

(* "Disconnect from remote resources, dispose of local resources, and exit"         *)
(* (CallActivity.disconnect): when the executor has nothing left to do, a call that *)
(* disconnected has no PeerConnection and no running capturer.                      *)
DisconnectDisposes ==
  \A c \in Calls : exec = <<>> /\ act[c].finishing /\ ~act[c].client =>
    conn[c].state # "open" /\ c \notin capturing
=============================================================================
