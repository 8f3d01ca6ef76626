------------------------------ MODULE DirectRtc ------------------------------
(***************************************************************************)
(* A call between two phones without a room server (DirectRTCClient over   *)
(* TCPChannelClient, used by CallActivity when the room name is an IP      *)
(* address).  One phone listens and makes the offer, the other connects.   *)
(*                                                                         *)
(* On each phone three threads pass messages: the UI thread (the activity),*)
(* a single-thread executor (the room's state and every send) and the      *)
(* listening thread of the socket.  An exception nobody catches ends the   *)
(* task or thread it is thrown in and is recorded in faults.               *)
(***************************************************************************)
EXTENDS Naturals, Sequences, SequencesExt

CONSTANTS
  Ice,        \* kinds of ICE messages: candidates, removed candidates
  MaxChanges  \* bound on the ICE messages of each phone

Peers == {"server", "client"}

ASSUME IceAssumption ==
  /\ Ice \subseteq {"candidate", "remove-candidates"}
  /\ MaxChanges \in [Peers -> Nat]

VARIABLES
  call,       \* the activity: "idle", "calling", "left" (appRtcClient = null)
  pc,         \* its peer connection: "none", "made", "described"
  changes,    \* ICE messages asked for
  alert,      \* phones that show an error during the call
  ui,         \* runnables posted to the UI thread
  tasks,      \* queue of the executor
  shut,       \* executor.shutdown() was called
  room,       \* roomState
  client,     \* tcpClient # null
  thread,     \* where the listening thread is
  raw,        \* rawSocket # null
  end,        \* this end of the TCP connection is open
  listening,  \* serverSocket is open
  wire,       \* lines under way to a phone
  broken,     \* the network failed once
  faults,     \* phones where an exception escaped
  said, got   \* history: messages a UI asked to send, and was given

uiVars == <<call, pc, changes, alert, said, got>>
roomVars == <<shut, room, client>>
netVars == <<thread, raw, end, listening, wire, broken>>
vars == <<uiVars, roomVars, netVars, ui, tasks, faults>>

Other(p) == CHOOSE q \in Peers : q # p
Messages == {"offer", "answer"} \cup Ice
Events == Messages \cup {"connected", "close", "error"}
Task ==
  [do : {"connect", "disconnect", "connected", "tcpError", "tcpClose", "roomError"}]
    \cup [do : {"send", "write", "receive"}, msg : Messages]

TypeOK ==
  /\ call \in [Peers -> {"idle", "calling", "left"}]
  /\ pc \in [Peers -> {"none", "made", "described"}]
  /\ \A p \in Peers : changes[p] \in 0..MaxChanges[p]
  /\ alert \subseteq Peers
  /\ ui \in [Peers -> Seq(Events)] /\ tasks \in [Peers -> Seq(Task)]
  /\ shut \in [Peers -> BOOLEAN] /\ client \in [Peers -> BOOLEAN]
  /\ room \in [Peers -> {"NEW", "CONNECTED", "CLOSED", "ERROR"}]
  /\ thread \in [Peers -> {"none", "connecting", "accepting", "opening",
                           "announcing", "reading", "posting", "closing", "dead"}]
  /\ raw \in [Peers -> BOOLEAN] /\ end \in [Peers -> BOOLEAN]
  /\ \A p \in Peers : raw[p] => end[p]
  /\ listening \in BOOLEAN /\ broken \in BOOLEAN
  /\ wire \in [Peers -> Seq(Messages)]
  /\ faults \subseteq Peers
  /\ said \in [Peers -> Seq(Messages)] /\ got \in [Peers -> Seq(Messages)]

Init ==
  /\ call = [p \in Peers |-> "idle"] /\ pc = [p \in Peers |-> "none"]
  /\ changes = [p \in Peers |-> 0] /\ alert = {}
  /\ ui = [p \in Peers |-> <<>>] /\ tasks = [p \in Peers |-> <<>>]
  /\ shut = [p \in Peers |-> FALSE] /\ client = [p \in Peers |-> FALSE]
  /\ room = [p \in Peers |-> "NEW"]
  /\ thread = [p \in Peers |-> "none"]
  /\ raw = [p \in Peers |-> FALSE] /\ end = [p \in Peers |-> FALSE]
  /\ listening = FALSE /\ broken = FALSE
  /\ wire = [p \in Peers |-> <<>>] /\ faults = {}
  /\ said = [p \in Peers |-> <<>>] /\ got = [p \in Peers |-> <<>>]

Do(what) == [do |-> what]
With(what, m) == [do |-> what, msg |-> m]

\* executor.execute() by a thread that is not the executor; after shutdown()
\* it throws RejectedExecutionException.
Execute(p, task) ==
  IF shut[p]
  THEN faults' = faults \cup {p} /\ UNCHANGED tasks
  ELSE tasks' = [tasks EXCEPT ![p] = Append(@, task)] /\ UNCHANGED faults

-----------------------------------------------------------------------------
(* The UI thread: CallActivity *)

StartCall(p) ==
  /\ call[p] = "idle"
  /\ call' = [call EXCEPT ![p] = "calling"]
  /\ Execute(p, Do("connect"))
  /\ UNCHANGED <<pc, changes, alert, said, got, roomVars, netVars, ui>>

\* disconnect(): nothing the second time, appRtcClient is null.
Leave(p) ==
  IF call[p] = "calling"
  THEN call' = [call EXCEPT ![p] = "left"] /\ Execute(p, Do("disconnect"))
  ELSE UNCHANGED <<call, tasks, faults>>

\* The user hangs up, closes the error dialog, or ICE is lost.
HangUp(p) ==
  /\ call[p] = "calling"
  /\ Leave(p)
  /\ UNCHANGED <<pc, changes, alert, said, got, roomVars, netVars, ui>>

Say(p, m) ==
  /\ said' = [said EXCEPT ![p] = Append(@, m)]
  /\ Execute(p, With("send", m))

\* The peer connection has made the offer or the answer.
LocalDescription(p) ==
  /\ call[p] = "calling" /\ pc[p] = "made"
  /\ pc' = [pc EXCEPT ![p] = "described"]
  /\ Say(p, IF p = "server" THEN "offer" ELSE "answer")
  /\ UNCHANGED <<call, changes, alert, got, roomVars, netVars, ui>>

IceChange(p, m) ==
  /\ call[p] = "calling" /\ pc[p] = "described"
  /\ changes[p] < MaxChanges[p]
  /\ changes' = [changes EXCEPT ![p] = @ + 1]
  /\ Say(p, m)
  /\ UNCHANGED <<call, pc, alert, got, roomVars, netVars, ui>>

\* onConnectedToRoom: with no check that the activity still has its peer
\* connection.  The client's comes with the offer.
EnterRoom(p, e) ==
  IF call[p] = "left"
  THEN /\ faults' = faults \cup {p}
       /\ UNCHANGED <<call, tasks, pc, got, alert>>
  ELSE /\ pc' = [pc EXCEPT ![p] = "made"]
       /\ got' = IF e = "offer" THEN [got EXCEPT ![p] = Append(@, e)] ELSE got
       /\ UNCHANGED <<call, tasks, faults, alert>>

Hear(p, e) ==
  /\ got' = IF call[p] = "left" THEN got ELSE [got EXCEPT ![p] = Append(@, e)]
  /\ UNCHANGED <<call, tasks, faults, pc, alert>>

RunOnUiThread(p) ==
  /\ ui[p] # <<>>
  /\ ui' = [ui EXCEPT ![p] = Tail(@)]
  /\ LET e == Head(ui[p]) IN
       CASE e \in {"connected", "offer"} -> EnterRoom(p, e)
         [] e \in {"answer"} \cup Ice -> Hear(p, e)
         [] e = "close" -> Leave(p) /\ UNCHANGED <<pc, got, alert>>
         [] e = "error" ->
              /\ alert' = IF call[p] = "calling" THEN alert \cup {p} ELSE alert
              /\ UNCHANGED <<call, tasks, faults, pc, got>>
  /\ UNCHANGED <<changes, said, roomVars, netVars>>

-----------------------------------------------------------------------------
(* The executor: DirectRTCClient, and TCPChannelClient's public methods *)

\* The running task leaves the queue and posts more.
Finish(p, more) ==
  IF more # <<>> /\ shut[p]
  THEN /\ tasks' = [tasks EXCEPT ![p] = Tail(@)]
       /\ faults' = faults \cup {p}
  ELSE /\ tasks' = [tasks EXCEPT ![p] = Tail(@) \o more]
       /\ UNCHANGED faults

\* The running task ends with a NullPointerException.
Fail(p) ==
  /\ tasks' = [tasks EXCEPT ![p] = Tail(@)]
  /\ faults' = faults \cup {p}

Tell(p, e) == ui' = [ui EXCEPT ![p] = Append(@, e)]

ConnectToRoom(p) ==
  /\ room' = [room EXCEPT ![p] = "NEW"]
  /\ client' = [client EXCEPT ![p] = TRUE]
  /\ thread' = [thread EXCEPT ![p] = "connecting"]
  /\ Finish(p, <<>>)
  /\ UNCHANGED <<shut, ui, raw, end, listening, wire, broken>>

\* Mutant: the reference to the closed socket is kept.
CloseSocket_KeepsRaw(p) ==
  /\ listening' = (listening /\ p # "server")
  /\ raw' = raw
  /\ end' = [end EXCEPT ![p] = @ /\ ~raw[p]]
\* Mutant: the reference is dropped and the socket not closed.
CloseSocket_Drops(p) ==
  /\ listening' = (listening /\ p # "server")
  /\ raw' = [raw EXCEPT ![p] = FALSE]
  /\ end' = end
\* socket.disconnect(): the server stops listening, an open socket is closed.
CloseSocket(p) ==
  /\ listening' = (listening /\ p # "server")
  /\ raw' = [raw EXCEPT ![p] = FALSE]
  /\ end' = [end EXCEPT ![p] = @ /\ ~raw[p]]

\* onTCPClose is posted only if there was a socket to close.
DisconnectFromRoom(p) ==
  /\ room' = [room EXCEPT ![p] = "CLOSED"]
  /\ IF client[p] THEN CloseSocket(p) ELSE UNCHANGED <<listening, raw, end>>
  /\ Finish(p, IF client[p] /\ raw[p] THEN <<Do("tcpClose")>> ELSE <<>>)
  /\ client' = [client EXCEPT ![p] = FALSE]
  /\ shut' = [shut EXCEPT ![p] = TRUE]
  /\ UNCHANGED <<ui, thread, wire, broken>>

\* Mutant: ICE messages are written without waiting for their turn.
SendMessage_IceAtOnce(p, m) ==
  /\ tasks' = [tasks EXCEPT ![p] =
       IF m \in Ice /\ room[p] = "CONNECTED" THEN <<With("write", m)>> \o Tail(@)
       ELSE Append(Tail(@), IF m # "answer" /\ room[p] # "CONNECTED"
                            THEN Do("roomError") ELSE With("write", m))]
  /\ UNCHANGED <<faults, roomVars, netVars, ui>>
\* Every message but the answer asks for a connected room; the line is
\* written by a task of its own.
SendMessage(p, m) ==
  /\ Finish(p, IF m # "answer" /\ room[p] # "CONNECTED"
               THEN <<Do("roomError")>> ELSE <<With("write", m)>>)
  /\ UNCHANGED <<roomVars, netVars, ui>>

Write(p, m) ==
  /\ CASE ~client[p] -> Fail(p) /\ UNCHANGED wire
       [] client[p] /\ ~raw[p] -> Finish(p, <<Do("tcpError")>>) /\ UNCHANGED wire
       [] client[p] /\ raw[p] ->
            /\ Finish(p, <<>>)
            /\ wire' = IF end[Other(p)] THEN [wire EXCEPT ![Other(p)] = Append(@, m)] ELSE wire
  /\ UNCHANGED <<roomVars, thread, raw, end, listening, broken, ui>>

OnTCPConnected(p) ==
  /\ Finish(p, <<>>)
  /\ IF p = "server"
     THEN room' = [room EXCEPT ![p] = "CONNECTED"] /\ Tell(p, "connected")
     ELSE UNCHANGED <<room, ui>>
  /\ UNCHANGED <<shut, client, netVars>>

OnTCPMessage(p, m) ==
  /\ Finish(p, <<>>)
  /\ Tell(p, m)
  /\ room' = IF m = "offer" THEN [room EXCEPT ![p] = "CONNECTED"] ELSE room
  /\ UNCHANGED <<shut, client, netVars>>

\* Mutant: the closed channel's tcpClient is forgotten.
OnTCPClose_Forgets(p) ==
  /\ Finish(p, <<>>)
  /\ Tell(p, "close")
  /\ client' = [client EXCEPT ![p] = FALSE]
  /\ UNCHANGED <<shut, room, netVars>>
OnTCPClose(p) ==
  /\ Finish(p, <<>>)
  /\ Tell(p, "close")
  /\ UNCHANGED <<roomVars, netVars>>

\* onTCPError passes the error on in a task of its own ...
OnTCPError(p) ==
  /\ Finish(p, <<Do("roomError")>>)
  /\ UNCHANGED <<roomVars, netVars, ui>>

\* ... which is the one that tells the activity, unless it was told before.
ReportError(p) ==
  /\ Finish(p, <<>>)
  /\ IF room[p] # "ERROR"
     THEN room' = [room EXCEPT ![p] = "ERROR"] /\ Tell(p, "error")
     ELSE UNCHANGED <<room, ui>>
  /\ UNCHANGED <<shut, client, netVars>>

RunTask(p) ==
  /\ tasks[p] # <<>>
  /\ LET t == Head(tasks[p]) IN
       \/ t.do = "connect" /\ ConnectToRoom(p)
       \/ t.do = "disconnect" /\ DisconnectFromRoom(p)
       \/ t.do = "send" /\ SendMessage(p, t.msg)
       \/ t.do = "write" /\ Write(p, t.msg)
       \/ t.do = "connected" /\ OnTCPConnected(p)
       \/ t.do = "receive" /\ OnTCPMessage(p, t.msg)
       \/ t.do = "tcpError" /\ OnTCPError(p)
       \/ t.do = "tcpClose" /\ OnTCPClose(p)
       \/ t.do = "roomError" /\ ReportError(p)
  /\ UNCHANGED uiVars

-----------------------------------------------------------------------------
(* The listening thread: TCPSocket.run() *)

At(p, from, to) == thread[p] = from /\ thread' = [thread EXCEPT ![p] = to]

\* The server socket is opened; nobody asks whether disconnect() ran before.
Listen ==
  /\ At("server", "connecting", "accepting")
  /\ listening' = TRUE
  /\ UNCHANGED <<uiVars, roomVars, ui, tasks, faults, raw, end, wire, broken>>

\* The network connects the two phones; neither thread has stored its socket.
Connect ==
  /\ thread["server"] = "accepting" /\ thread["client"] = "connecting"
  /\ listening
  /\ thread' = [p \in Peers |-> "opening"]
  /\ end' = [p \in Peers |-> TRUE]
  /\ UNCHANGED <<uiVars, roomVars, ui, tasks, faults, raw, listening, wire, broken>>

\* new Socket() fails: nobody listens, or no network.
ConnectFails ==
  /\ At("client", "connecting", "dead")
  /\ Execute("client", Do("tcpError"))
  /\ broken' = TRUE
  /\ UNCHANGED <<uiVars, roomVars, ui, raw, end, listening, wire>>

\* accept() fails because disconnect() closed the server socket.
AcceptFails ==
  /\ ~listening
  /\ At("server", "accepting", "dead")
  /\ Execute("server", Do("tcpError"))
  /\ UNCHANGED <<uiVars, roomVars, ui, raw, end, listening, wire, broken>>

OpenStreams(p) ==
  /\ At(p, "opening", "announcing")
  /\ raw' = [raw EXCEPT ![p] = TRUE]
  /\ UNCHANGED <<uiVars, roomVars, ui, tasks, faults, end, listening, wire, broken>>

\* A refused execute() ends the thread.
Announce(p) ==
  /\ At(p, "announcing", IF shut[p] THEN "dead" ELSE "reading")
  /\ Execute(p, Do("connected"))
  /\ UNCHANGED <<uiVars, roomVars, ui, raw, end, listening, wire, broken>>

ReadLine(p) ==
  /\ wire[p] # <<>>
  /\ At(p, "reading", "posting")
  /\ UNCHANGED <<uiVars, roomVars, ui, tasks, faults, raw, end, listening, wire, broken>>

PostLine(p) ==
  /\ At(p, "posting", IF shut[p] THEN "dead" ELSE "reading")
  /\ wire' = [wire EXCEPT ![p] = Tail(@)]
  /\ Execute(p, With("receive", Head(wire[p])))
  /\ UNCHANGED <<uiVars, roomVars, ui, raw, end, listening, broken>>

\* The socket was closed at this end, or at the other and all is read.
ReadEnds(p) ==
  /\ ~raw[p] \/ (wire[p] = <<>> /\ ~end[Other(p)])
  /\ At(p, "reading", "closing")
  /\ UNCHANGED <<uiVars, roomVars, ui, tasks, faults, raw, end, listening, wire, broken>>

\* The network breaks under readLine(), once.
ReadFails(p) ==
  /\ raw[p] /\ ~broken
  /\ At(p, "reading", "closing")
  /\ Execute(p, Do("tcpError"))
  /\ broken' = TRUE
  /\ UNCHANGED <<uiVars, roomVars, ui, raw, end, listening, wire>>

\* Mutant: onTCPClose is not fired when the thread closes the socket.
CloseThread_Silent(p) ==
  /\ At(p, "closing", "dead")
  /\ CloseSocket(p)
  /\ UNCHANGED <<uiVars, roomVars, ui, tasks, faults, wire, broken>>
CloseThread(p) ==
  /\ At(p, "closing", "dead")
  /\ CloseSocket(p)
  /\ IF raw[p] THEN Execute(p, Do("tcpClose")) ELSE UNCHANGED <<tasks, faults>>
  /\ UNCHANGED <<uiVars, roomVars, ui, wire, broken>>

ThreadStep(p) ==
  \/ OpenStreams(p) \/ Announce(p) \/ ReadLine(p) \/ PostLine(p)
  \/ ReadEnds(p) \/ CloseThread(p)

-----------------------------------------------------------------------------
Next ==
  \/ Listen \/ Connect \/ ConnectFails \/ AcceptFails
  \/ \E p \in Peers :
       \/ StartCall(p) \/ HangUp(p) \/ LocalDescription(p)
       \/ \E m \in Ice : IceChange(p, m)
       \/ RunOnUiThread(p) \/ RunTask(p) \/ ThreadStep(p) \/ ReadFails(p)

\* Every thread that has something to do runs; nobody has to start a call,
\* hang up or break the network.
Fairness ==
  \A p \in Peers : WF_vars(RunOnUiThread(p)) /\ WF_vars(RunTask(p)) /\ WF_vars(ThreadStep(p))

Spec == Init /\ [][Next]_vars /\ Fairness

-----------------------------------------------------------------------------
\* The messages a phone's peer connection is given are the first ones the
\* other asked to send, in that order, over two executors' queues, the tasks
\* that write, the socket and the reading thread; and none comes before the
\* activity has made its peer connection: PeerConnectionClient would throw it
\* away.
InOrder == \A p \in Peers : /\ IsPrefix(got[p], said[Other(p)])
                            /\ got[p] # <<>> => pc[p] # "none"

\* While the network holds, no error dialog comes up during a call, although
\* sends race with the peer's hanging up: its close is always heard first.  And
\* no exception escapes on a phone that is still in its call.
NoFalseAlarm == /\ alert # {} => broken
                /\ \A p \in faults : call[p] = "left"

\* Once both phones read from the connection, one that hangs up takes the
\* other out of the call, as long as its threads run.
HangUpHeard ==
  (\A p \in Peers : thread[p] = "reading") /\ (\E p \in Peers : call[p] = "left")
    ~> \A p \in Peers : call[p] = "left"

\* "Disconnects the client if not already disconnected": after disconnect()
\* and the end of its listening thread a phone holds no connection.
Disconnected == \A p \in Peers : shut[p] /\ thread[p] = "dead" => ~end[p]
=============================================================================
