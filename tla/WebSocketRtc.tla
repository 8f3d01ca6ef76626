---------------------------- MODULE WebSocketRtc ----------------------------
(***************************************************************************)
(* One phone of a call through a room server: CallActivity on the UI       *)
(* thread, WebSocketRTCClient and WebSocketChannelClient on a looper       *)
(* thread, a thread per HTTP request (AsyncHttpURLConnection,              *)
(* RoomParametersFetcher), the threads of the WebSocket library.  The room *)
(* server, the WebSocket server and the network are free to answer, fail   *)
(* or close at any point; what they send is any message a phone can get.   *)
(*                                                                         *)
(* The phone that makes the offer sends by HTTP requests, the other by the *)
(* WebSocket.  After Looper.quit() nothing is run and posts are dropped.   *)
(***************************************************************************)
EXTENDS Naturals, Sequences, SequencesExt

CONSTANTS
  MaxIce,    \* bound on the ICE messages of the phone
  MaxTexts   \* bound on the messages of the WebSocket server

ASSUME WebSocketAssumption == MaxIce \in Nat /\ MaxTexts \in Nat

VARIABLES
  call,     \* the activity: "idle", "calling", "left" (appRtcClient = null)
  pc,       \* its peer connection
  alert,    \* the error dialog came up
  ui,       \* runnables posted to the UI thread
  tasks,    \* messages of the looper thread
  looper,   \* "running", "waiting" in disconnect(), "quit"
  room,     \* roomState
  role,     \* initiator, once the room's parameters are known
  ws,       \* state of WebSocketChannelClient
  named,    \* roomID and clientID are set
  held,     \* wsSendQueue
  sock,     \* the library's connection
  closed,   \* closeEvent
  join,     \* the request that enters the room
  member,   \* the room server counts the phone as in the room
  posts,    \* HTTP requests under way
  texts,    \* messages the WebSocket server has sent
  said,     \* history: messages the activity asked to send
  wire,     \* history: what the WebSocket server was sent
  errors,   \* history: onChannelError events
  failed,   \* history: what has gone wrong outside the phone
  fault     \* history: an exception escaped on the UI thread

uiVars == <<call, pc, alert, said, fault>>
wsVars == <<ws, named, held>>
netVars == <<sock, closed, join, member, texts, failed>>
looperVars == <<looper, room, role, errors>>
vars == <<uiVars, wsVars, netVars, looperVars, ui, tasks, posts, wire>>

Requests == {"offer", "ice", "leave", "delete"}
Texts == {"offer", "answer", "ice", "bye", "other"}
Events == {"room", "roomOffer", "description", "ice", "close", "error"}
Tasks == {"connect", "disconnect", "offer", "answer", "ice", "roomError", "wsError", "open", "closed"}
Ready == [role : {"initiator", "receiver"}, offer : BOOLEAN]
Task == [do : Tasks] \cup [do : {"ready"}, params : Ready] \cup [do : {"text"}, msg : Texts]

TypeOK ==
  /\ call \in {"idle", "calling", "left"}
  /\ pc \in {"none", "made", "describing", "described"}
  /\ {alert, named, closed, member, fault} \subseteq BOOLEAN
  /\ ui \in Seq(Events)
  /\ tasks \in Seq(Task)
  /\ looper \in {"running", "waiting", "quit"}
  /\ room \in {"NEW", "CONNECTED", "CLOSED", "ERROR"}
  /\ role \in {"unknown", "initiator", "receiver"}
  /\ ws \in {"NEW", "REGISTERED", "CLOSED", "ERROR"}  \* CONNECTED is never seen
  /\ held \in Seq({"answer", "ice"})
  /\ sock \in {"none", "connecting", "open", "closing", "closed"}
  /\ join \in {"none", "sent", "entered", "answered"}
  /\ posts \in [Requests -> 0..(MaxIce + 1)]
  /\ failed \subseteq Requests \cup {"join", "socket", "text"}
  /\ texts \in 0..MaxTexts /\ errors \in Nat
  /\ said \in Seq({"offer", "answer", "ice"})
  /\ wire \in Seq({"register", "answer", "ice", "bye"})

Init ==
  /\ call = "idle" /\ pc = "none" /\ alert = FALSE /\ ui = <<>> /\ tasks = <<>>
  /\ looper = "running" /\ room = "NEW" /\ role = "unknown"
  /\ ws = "NEW" /\ named = FALSE /\ held = <<>>
  /\ sock = "none" /\ closed = FALSE
  /\ join = "none" /\ member = FALSE /\ posts = [r \in Requests |-> 0] /\ texts = 0
  /\ said = <<>> /\ wire = <<>> /\ errors = 0 /\ failed = {} /\ fault = FALSE

Do(what) == [do |-> what]

\* handler.post(): dropped once the looper has quit.
PostTask(t) == tasks' = IF looper = "quit" THEN tasks ELSE Append(tasks, t)

-----------------------------------------------------------------------------
(* The UI thread: CallActivity *)

StartCall ==
  /\ call = "idle"
  /\ call' = "calling"
  /\ PostTask(Do("connect"))
  /\ UNCHANGED <<pc, alert, said, fault, wsVars, netVars, looperVars, ui, posts, wire>>

\* disconnect(): nothing for the client the second time, appRtcClient is null.
Leave ==
  IF call = "calling"
  THEN call' = "left" /\ PostTask(Do("disconnect"))
  ELSE UNCHANGED <<call, tasks>>

\* The user hangs up or closes the error dialog, or ICE is lost.
HangUp ==
  /\ call = "calling"
  /\ Leave
  /\ UNCHANGED <<pc, alert, said, fault, wsVars, netVars, looperVars, ui, posts, wire>>

Say(m) == said' = Append(said, m) /\ PostTask(Do(m))

\* The peer connection has made the offer or the answer.
LocalDescription ==
  /\ call = "calling" /\ pc = "describing"
  /\ pc' = "described"
  /\ Say(IF role = "initiator" THEN "offer" ELSE "answer")
  /\ UNCHANGED <<call, alert, fault, wsVars, netVars, looperVars, ui, posts, wire>>

\* A candidate was found or removed.
IceChange ==
  /\ call = "calling" /\ pc = "described"
  /\ Len(said) <= MaxIce
  /\ Say("ice")
  /\ UNCHANGED <<call, pc, alert, fault, wsVars, netVars, looperVars, ui, posts, wire>>

\* onConnectedToRoomInternal() does not check that peerConnectionClient is
\* still there.  The offer is made by the initiator; the answer at once, if
\* the room already had the offer.
EnterRoom(offer) ==
  IF call = "left"
  THEN fault' = TRUE /\ UNCHANGED pc
  ELSE /\ pc' = IF role = "initiator" \/ offer THEN "describing" ELSE "made"
       /\ UNCHANGED fault

\* Another offer makes createAnswer() run again, and PeerConnectionClient
\* reports "Multiple SDP create."
RemoteDescription ==
  IF call = "left" \/ role = "initiator"
  THEN ui' = Tail(ui) /\ UNCHANGED <<pc, failed>>
  ELSE IF pc = "made"
  THEN pc' = "describing" /\ ui' = Tail(ui) /\ UNCHANGED failed
  ELSE ui' = Append(Tail(ui), "error") /\ failed' = failed \cup {"text"} /\ UNCHANGED pc

RunOnUiThread ==
  /\ ui # <<>>
  /\ LET e == Head(ui) IN
     \/ e = "description" /\ RemoteDescription /\ UNCHANGED <<call, alert, fault, tasks>>
     \/ /\ e # "description" /\ ui' = Tail(ui) /\ UNCHANGED failed
        /\ \/ e \in {"room", "roomOffer"} /\ EnterRoom(e = "roomOffer") /\ UNCHANGED <<call, alert, tasks>>
           \/ e = "ice" /\ UNCHANGED <<call, pc, alert, fault, tasks>>
           \/ e = "close" /\ Leave /\ UNCHANGED <<pc, alert, fault>>
           \/ /\ e = "error" /\ alert' = (alert \/ call = "calling")
              /\ UNCHANGED <<call, pc, fault, tasks>>
  /\ UNCHANGED <<said, wsVars, sock, closed, join, member, texts, looperVars, posts, wire>>

-----------------------------------------------------------------------------
(* The looper thread: WebSocketRTCClient and WebSocketChannelClient *)

Tell(e) == ui' = Append(ui, e)
Next1(more) == tasks' = Tail(tasks) \o more
Request(r) == posts' = [posts EXCEPT ![r] = @ + 1]
\* sendTextMessage() of the library: nothing goes out on a closed connection.
Transmit(msgs) == wire' = IF sock = "open" THEN wire \o msgs ELSE wire

ConnectToRoom ==
  /\ room' = "NEW" /\ join' = "sent"
  /\ Next1(<<>>)
  /\ UNCHANGED <<uiVars, wsVars, looper, role, errors, sock, closed, member, texts, failed,
                 ui, posts, wire>>

\* Mutant: the room counts as connected only later.
RoomConnected_Later == UNCHANGED room
RoomConnected == room' = "CONNECTED"

\* Mutant: without an offer the receiver is not told.
TellParameters_OnlyOffer(r) ==
  IF r.offer \/ r.role = "initiator" THEN Tell(IF r.offer THEN "roomOffer" ELSE "room")
  ELSE UNCHANGED ui
TellParameters(r) == Tell(IF r.offer THEN "roomOffer" ELSE "room")

\* Mutant: register() keeps the names only if the WebSocket is open.
SetNames_IfOpen == named' = (ws = "CONNECTED")
SetNames == named' = TRUE

\* signalingParametersReady(): the activity is told first, then the WebSocket
\* is connected (which can throw) and register() is called, before it is open.
SignalingParametersReady(r) ==
  /\ role' = r.role /\ RoomConnected
  /\ TellParameters(r)
  /\ IF ws = "NEW"
     THEN \/ sock' = "connecting" /\ Next1(<<>>) /\ UNCHANGED failed
          \/ Next1(<<Do("wsError")>>) /\ failed' = failed \cup {"socket"} /\ UNCHANGED sock
     ELSE Next1(<<>>) /\ UNCHANGED <<sock, failed>>
  /\ SetNames
  /\ UNCHANGED <<uiVars, ws, held, looper, errors, closed, join, member, texts, posts, wire>>

\* WebSocketChannelClient.send()
Send(m) ==
  /\ CASE ws \in {"NEW", "CONNECTED"} -> held' = Append(held, m) /\ UNCHANGED wire
       [] ws \in {"CLOSED", "ERROR"} -> UNCHANGED <<held, wire>>
       [] ws = "REGISTERED" -> Transmit(<<m>>) /\ UNCHANGED held
  /\ Next1(<<>>)
  /\ UNCHANGED <<uiVars, ws, named, netVars, looperVars, ui, posts>>

\* An offer, and the initiator's ICE messages, are posted to the room server,
\* each by a thread of its own.
PostMessage(m) ==
  /\ IF room = "CONNECTED"
     THEN Request(m) /\ Next1(<<>>)
     ELSE Next1(<<Do("roomError")>>) /\ UNCHANGED posts
  /\ UNCHANGED <<uiVars, wsVars, netVars, looperVars, ui, wire>>

SendMessage(m) ==
  IF m = "offer" \/ (m = "ice" /\ role = "initiator") THEN PostMessage(m) ELSE Send(m)

\* Mutant: every error is reported.
RoomError_Each ==
  /\ room' = "ERROR" /\ errors' = errors + 1 /\ Tell("error")
  /\ Next1(<<>>)
  /\ UNCHANGED <<uiVars, wsVars, netVars, looper, role, posts, wire>>

\* WebSocketRTCClient.reportError(), its posted part.
RoomError ==
  /\ IF room # "ERROR"
     THEN room' = "ERROR" /\ errors' = errors + 1 /\ Tell("error")
     ELSE UNCHANGED <<room, errors, ui>>
  /\ Next1(<<>>)
  /\ UNCHANGED <<uiVars, wsVars, netVars, looper, role, posts, wire>>

\* WebSocketChannelClient.reportError(), and onWebSocketError().
WsError ==
  /\ IF ws # "ERROR"
     THEN ws' = "ERROR" /\ Next1(<<Do("roomError")>>)
     ELSE Next1(<<>>) /\ UNCHANGED ws
  /\ UNCHANGED <<uiVars, named, held, netVars, looperVars, ui, posts, wire>>

\* Mutant: what was held is sent before the registration.
Register_HeldFirst ==
  /\ ws' = "REGISTERED" /\ Transmit(held \o <<"register">>) /\ held' = <<>>
  /\ Next1(<<>>)
  /\ UNCHANGED <<uiVars, named, netVars, looperVars, ui, posts>>
\* Mutant: wsSendQueue is cleared before it is sent.
Register_Clears ==
  /\ ws' = "REGISTERED" /\ Transmit(<<"register">>) /\ held' = <<>>
  /\ Next1(<<>>)
  /\ UNCHANGED <<uiVars, named, netVars, looperVars, ui, posts>>

\* onOpen(), and register() if connect() was followed by one: then what was
\* held is sent.
Register ==
  /\ IF named
     THEN ws' = "REGISTERED" /\ Transmit(<<"register">> \o held) /\ held' = <<>>
     ELSE ws' = "CONNECTED" /\ UNCHANGED <<wire, held>>
  /\ Next1(<<>>)
  /\ UNCHANGED <<uiVars, named, netVars, looperVars, ui, posts>>

\* Mutant: a connection that never opened is not reported.
WsClosed_OnlyOpen ==
  /\ IF ws = "REGISTERED" THEN ws' = "CLOSED" /\ Tell("close") ELSE UNCHANGED <<ws, ui>>
  /\ Next1(<<>>)
  /\ UNCHANGED <<uiVars, named, held, netVars, looperVars, posts, wire>>

\* onClose()
WsClosed ==
  /\ IF ws # "CLOSED" THEN ws' = "CLOSED" /\ Tell("close") ELSE UNCHANGED <<ws, ui>>
  /\ Next1(<<>>)
  /\ UNCHANGED <<uiVars, named, held, netVars, looperVars, posts, wire>>

\* onTextMessage() and onWebSocketMessage().
Wrong(m) ==
  m = "other" \/ (m = "answer" /\ role # "initiator") \/ (m = "offer" /\ role = "initiator")

WsMessage(m) ==
  /\ IF ws # "REGISTERED" THEN Next1(<<>>) /\ UNCHANGED ui
     ELSE IF Wrong(m) THEN Next1(<<Do("roomError")>>) /\ UNCHANGED ui
     ELSE /\ Next1(<<>>)
          /\ Tell(CASE m \in {"offer", "answer"} -> "description"
                    [] m = "ice" -> "ice"
                    [] m = "bye" -> "close")
  /\ UNCHANGED <<uiVars, wsVars, netVars, looperVars, posts, wire>>

Closes == ws \in {"CONNECTED", "REGISTERED", "ERROR"}

\* Mutant: the room is left only once the WebSocket is registered.
LeavesRoom_Registered == room = "CONNECTED" /\ ws = "REGISTERED"
LeavesRoom == room = "CONNECTED"

\* disconnectFromRoomInternal() and WebSocketChannelClient.disconnect(): LEAVE,
\* bye and DELETE, then the connection is closed and its close event awaited.
\* A WebSocket that is still connecting is left alone.  The looper then quits.
DisconnectFromRoom ==
  LET wait == Closes /\ ~closed IN
  /\ posts' = [posts EXCEPT !["leave"] = IF LeavesRoom THEN @ + 1 ELSE @,
                           !["delete"] = IF ws = "REGISTERED" THEN @ + 1 ELSE @]
  /\ room' = "CLOSED"
  /\ IF ws = "REGISTERED" THEN Transmit(<<"bye">>) ELSE UNCHANGED wire
  /\ ws' = IF Closes THEN "CLOSED" ELSE ws
  /\ sock' = IF Closes /\ sock \in {"connecting", "open"} THEN "closing" ELSE sock
  /\ looper' = IF wait THEN "waiting" ELSE "quit"
  /\ tasks' = IF wait THEN Tail(tasks) ELSE <<>>
  /\ UNCHANGED <<uiVars, named, held, closed, join, member, texts, failed, role, errors, ui>>

\* Mutant: the wait has no timeout.
WaitEnds_Never ==
  /\ looper = "waiting" /\ closed
  /\ looper' = "quit" /\ tasks' = <<>>
  /\ UNCHANGED <<uiVars, wsVars, netVars, room, role, errors, ui, posts, wire>>

\* closeEventLock.wait(CLOSE_TIMEOUT) returns, notified or not.
WaitEnds ==
  /\ looper = "waiting"
  /\ looper' = "quit" /\ tasks' = <<>>
  /\ UNCHANGED <<uiVars, wsVars, netVars, room, role, errors, ui, posts, wire>>

RunTask ==
  /\ looper = "running" /\ tasks # <<>>
  /\ LET t == Head(tasks) IN
       CASE t.do = "connect" -> ConnectToRoom
         [] t.do = "ready" -> SignalingParametersReady(t.params)
         [] t.do \in {"offer", "answer", "ice"} -> SendMessage(t.do)
         [] t.do = "roomError" -> RoomError
         [] t.do = "wsError" -> WsError
         [] t.do = "open" -> Register
         [] t.do = "closed" -> WsClosed
         [] t.do = "text" -> WsMessage(t.msg)
         [] t.do = "disconnect" -> DisconnectFromRoom

-----------------------------------------------------------------------------
(* Requests, servers, network and the WebSocket library *)

\* The room server has entered the phone.
Enter ==
  /\ join = "sent"
  /\ join' = "entered" /\ member' = TRUE
  /\ UNCHANGED <<uiVars, wsVars, looperVars, sock, closed, texts, failed, ui, tasks, posts, wire>>

\* RoomParametersFetcher has the parameters.
JoinAnswered ==
  /\ join = "entered"
  /\ join' = "answered"
  /\ \E r \in Ready :
       /\ r.role = "initiator" => ~r.offer
       /\ PostTask([do |-> "ready", params |-> r])
  /\ UNCHANGED <<uiVars, wsVars, looperVars, sock, closed, member, texts, failed, ui, posts, wire>>

\* The request or its answer is lost or malformed, or the room is full.
JoinFails ==
  /\ join \in {"sent", "entered"}
  /\ join' = "answered" /\ failed' = failed \cup {"join"}
  /\ PostTask(Do("roomError"))
  /\ UNCHANGED <<uiVars, wsVars, looperVars, sock, closed, member, texts, ui, posts, wire>>

RequestAnswered(r) ==
  /\ posts[r] > 0
  /\ posts' = [posts EXCEPT ![r] = @ - 1]
  /\ member' = (member /\ r # "leave")
  /\ UNCHANGED <<uiVars, wsVars, looperVars, sock, closed, join, texts, failed, ui, tasks, wire>>

RequestFails(r) ==
  /\ posts[r] > 0
  /\ posts' = [posts EXCEPT ![r] = @ - 1]
  /\ failed' = failed \cup {r}
  /\ PostTask(Do(IF r = "delete" THEN "wsError" ELSE "roomError"))
  /\ UNCHANGED <<uiVars, wsVars, looperVars, sock, closed, join, member, texts, ui, wire>>

SocketOpens ==
  /\ sock = "connecting"
  /\ sock' = "open"
  /\ PostTask(Do("open"))
  /\ UNCHANGED <<uiVars, wsVars, looperVars, closed, join, member, texts, failed, ui, posts, wire>>

\* The connection fails, the server or the network closes it, or the library
\* has closed it for disconnect().
SocketCloses ==
  /\ sock \in {"connecting", "open", "closing"}
  /\ sock' = "closed" /\ closed' = TRUE
  /\ PostTask(Do("closed"))
  /\ UNCHANGED <<uiVars, wsVars, looperVars, join, member, texts, failed, ui, posts, wire>>

ServerText(m) ==
  /\ sock = "open" /\ wire # <<>> /\ texts < MaxTexts
  /\ texts' = texts + 1
  /\ failed' = IF Wrong(m) THEN failed \cup {"text"} ELSE failed
  /\ PostTask([do |-> "text", msg |-> m])
  /\ UNCHANGED <<uiVars, wsVars, looperVars, sock, closed, join, member, ui, posts, wire>>

-----------------------------------------------------------------------------
Next ==
  \/ StartCall \/ HangUp \/ LocalDescription \/ IceChange \/ RunOnUiThread
  \/ RunTask \/ WaitEnds
  \/ Enter \/ JoinAnswered \/ JoinFails \/ SocketOpens \/ SocketCloses
  \/ \E r \in Requests : RequestAnswered(r) \/ RequestFails(r)
  \/ \E m \in Texts : ServerText(m)

\* The UI thread and the looper run, a wait with a timeout ends.  Nothing is
\* assumed of users, servers and the network.
Fairness == WF_vars(RunOnUiThread) /\ WF_vars(RunTask) /\ WF_vars(WaitEnds)

Spec == Init /\ [][Next]_vars /\ Fairness

-----------------------------------------------------------------------------
(* Properties *)

Pending(m) == \E k \in DOMAIN tasks : tasks[k].do = m
\* What the WebSocket server was sent between the registration and bye.
Sent == SubSeq(wire, 2, IF wire # <<>> /\ Last(wire) = "bye" THEN Len(wire) - 1 ELSE Len(wire))

\* What the answering phone sends on the WebSocket is what its activity asked
\* to send, in that order, whatever was held in wsSendQueue until the
\* registration; and once registered, with the connection open and no send
\* waiting, it is all of it.  The server first hears the registration, and
\* nothing after bye.  And nothing is heard from the other phone before the
\* activity has the room's parameters (onRemoteDescription reads
\* signalingParameters.initiator).
Delivered ==
  /\ role = "receiver" =>
       /\ IsPrefix(Sent, said)
       /\ ws = "REGISTERED" /\ sock = "open" /\ ~Pending("answer") /\ ~Pending("ice")
            => Sent = said
  /\ \A k \in DOMAIN wire : /\ wire[k] = "register" <=> k = 1
                            /\ wire[k] = "bye" => k = Len(wire)
  /\ \A k \in DOMAIN ui : ui[k] \in {"description", "ice"} =>
       pc # "none" \/ fault \/ \E j \in 1..(k - 1) : ui[j] \in {"room", "roomOffer"}

\* The activity shows no error, and the client reports none, unless a request,
\* the connection or a message from outside was bad: the phone's own threads
\* never drive each other into a wrong state.  However many requests fail at
\* once, one error is reported: the one the dialog shows.
NoFalseAlarm == /\ alert \/ errors > 0 => failed # {}
                /\ errors <= 1

\* When the looper has quit the phone is out of the room and its WebSocket
\* closing, except that: the room's parameters came too late, an error was
\* reported before, the LEAVE request is under way or failed; and the WebSocket
\* had not yet opened.
LittleLeftBehind ==
  looper = "quit" =>
    /\ member => role = "unknown" \/ errors > 0 \/ posts["leave"] > 0 \/ "leave" \in failed
    /\ sock \in {"connecting", "open"} => ws = "NEW"

\* Hanging up always ends the looper thread: disconnect() does not wait for
\* ever for a close event.  The loss of the WebSocket, before it opened or after,
\* and a bye of the other phone end the call.
CallEnds ==
  /\ call = "left" ~> looper = "quit"
  /\ (sock = "closed" \/ \E k \in DOMAIN tasks : tasks[k] = [do |-> "text", msg |-> "bye"])
       ~> call = "left"
=============================================================================
