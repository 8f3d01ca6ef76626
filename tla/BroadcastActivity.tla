------------------------- MODULE BroadcastActivity -------------------------
(***************************************************************************)
(* The screen of a broadcaster, LiveVideoBroadcasterActivity: the button   *)
(* that starts and stops, the entry of the room in the server's list, the  *)
(* timer that watches the connection, the chat over a socket of its own.   *)
(* Callbacks, handlers and posted runnables run on the main thread; a      *)
(* start and the typed lines are AsyncTasks, run one after the other; each *)
(* start makes a thread that connects the chat, and one Thread object      *)
(* reads it. The chat is the same code in the player's screen.             *)
(*                                                                         *)
(* The service below is what modules RtmpStreamer, VideoEncoding and       *)
(* AudioCapture detail; the screen knows of it whether it is connected.    *)
(***************************************************************************)
EXTENDS Naturals, Sequences, FiniteSets, SequencesExt

CONSTANTS
  MaxStarts,  \* bound: taps that start a broadcast
  MaxRead,    \* bound: lines of others, one for each read of the socket
  MaxTyped,   \* bound: lines the user types
  MaxPauses,  \* bound: times the screen is left
  MaxLost     \* bound: CONNECTION_LOST messages waiting, one a second

ASSUME BroadcastAssumption == {MaxStarts, MaxRead, MaxTyped, MaxPauses, MaxLost} \subseteq Nat

VARIABLES
  screen,       \* where the activity is in its life, and how often it was left
  mIsRecording,
  mTimer,       \* there is a timer
  service,      \* recording: its isRecording; on: the encoders run; connected: isConnected()
  looper,       \* what is posted to the main thread
  executor,     \* AsyncTasks not finished: a Start, or the number of a line typed
  opening,      \* the first one is a start inside startBroadcasting()
  connect,      \* [n] the thread that connects the chat for start n
  socketChannel,\* the field: 0, or the start whose thread made it
  sockets,      \* [n] the socket that thread makes
  reader,       \* checkUpdate: where it is, and the socket it reads
  receivedata,  \* the field: the last line read
  short,        \* the lines read that have no two fields
  typed,        \* lines the user has typed
  shown, sent,  \* lines of others on the screen, own lines the chat server got
  requests,     \* requests about the room on their way, in the order made
  listed,       \* the server lists the room
  history,      \* what happened that spoils the list or the stop, for the properties
  dead          \* an exception nobody catches ended the process

uiVars == <<screen, mIsRecording, mTimer>>
chatVars == <<connect, socketChannel, sockets, reader, receivedata, short, typed, shown, sent>>
roomVars == <<requests, listed>>
vars == <<uiVars, service, looper, executor, opening, chatVars, roomVars, history, dead>>

Starts == 1..MaxStarts
Typed == 1..MaxTyped
Start == 0
Posted(what) == [what |-> what, line |-> 0]
Troubles == {"late", "failed", "hidden", "twice"}

Asked == Cardinality({n \in Starts : connect[n] # "none"})
Waiting(whats) == {i \in DOMAIN looper : looper[i].what \in whats}
Starting == \/ \E i \in DOMAIN executor : executor[i] = Start
            \/ Waiting({"started", "failed"}) # {}

TypeOK ==
  /\ screen \in [at : {"shown", "paused", "hidden", "destroyed"}, left : 0..MaxPauses]
  /\ {mIsRecording, mTimer, opening, listed, dead} \subseteq BOOLEAN
  /\ service \in [recording : BOOLEAN, on : BOOLEAN, connected : BOOLEAN]
  /\ looper \in Seq([what : {"started", "failed", "lost", "line"}, line : 0..MaxRead])
  /\ executor \in Seq({Start} \cup Typed)
  /\ connect \in [Starts -> {"none", "new", "connecting", "returned", "done"}]
  /\ socketChannel \in 0..Asked /\ sockets \in [Starts -> {"none", "made", "open", "closed"}]
  /\ reader \in [at : {"new", "reading", "posting", "ended"}, from : 0..Asked]
  /\ reader.at = "reading" => reader.from # 0
  /\ receivedata \in 0..MaxRead /\ short \subseteq 1..receivedata /\ shown \in Seq(1..MaxRead)
  /\ typed \in 0..MaxTyped /\ sent \in Seq(Typed)
  /\ requests \in Seq({"add", "delete"}) /\ history \subseteq Troubles

Init ==
  /\ screen = [at |-> "shown", left |-> 0]
  /\ mIsRecording = FALSE /\ mTimer = FALSE /\ opening = FALSE
  /\ service = [recording |-> FALSE, on |-> FALSE, connected |-> FALSE]
  /\ looper = <<>> /\ executor = <<>>
  /\ connect = [n \in Starts |-> "none"] /\ socketChannel = 0 /\ sockets = [n \in Starts |-> "none"]
  /\ reader = [at |-> "new", from |-> 0]
  /\ receivedata = 0 /\ short = {} /\ typed = 0 /\ shown = <<>> /\ sent = <<>>
  /\ requests = <<>> /\ listed = FALSE /\ history = {} /\ dead = FALSE

-----------------------------------------------------------------------------
(* The service, as the screen uses it. *)

\* Mutant: a connection that is lost is taken for a broadcast that has ended.
StopBroadcasting_IfConnected(s) == IF s.recording /\ s.connected THEN [s EXCEPT !.on = FALSE] ELSE s

\* stopBroadcasting(): only what has been recorded is stopped; a start that is
\* still opening has reset the flag.
StopBroadcasting(s) == IF s.recording THEN [s EXCEPT !.on = FALSE] ELSE s

\* doInBackground of a start: startBroadcasting() forgets the recording before.
BeginStart ==
  /\ executor # <<>> /\ Head(executor) = Start /\ ~opening
  /\ opening' = TRUE /\ service' = [service EXCEPT !.recording = FALSE]
  /\ UNCHANGED <<uiVars, looper, executor, chatVars, roomVars, history, dead>>

\* Connected and the encoders started, or not.
FinishStart(result) ==
  /\ opening
  /\ service' = IF result THEN [recording |-> TRUE, on |-> TRUE, connected |-> TRUE] ELSE service
  /\ opening' = FALSE /\ executor' = Tail(executor)
  /\ looper' = Append(looper, Posted(IF result THEN "started" ELSE "failed"))
  /\ UNCHANGED <<uiVars, chatVars, roomVars, history, dead>>

\* The connection is lost, or closed because the encoders have ended.
Disconnects ==
  /\ service.connected
  /\ service' = [service EXCEPT !.connected = FALSE]
  /\ UNCHANGED <<uiVars, looper, executor, opening, chatVars, roomVars, history, dead>>

-----------------------------------------------------------------------------
(* The buttons, the posted messages and the life of the screen. *)

\* SocketChannel.close(): the field null is an exception, which is caught.
CloseSocket ==
  sockets' = [n \in Starts |-> IF n = socketChannel THEN "closed" ELSE sockets[n]]

\* triggerStopRecording. Mutant: the list is told only when the screen is left.
TriggerStopRecording_KeepsRoom ==
  /\ mIsRecording' = FALSE
  /\ IF mIsRecording
     THEN /\ service' = StopBroadcasting(service)
          /\ requests' = requests /\ mTimer' = FALSE /\ CloseSocket
     ELSE UNCHANGED <<service, requests, mTimer, sockets>>

TriggerStopRecording ==
  /\ mIsRecording' = FALSE
  /\ IF mIsRecording
     THEN /\ service' = StopBroadcasting(service)
          /\ requests' = Append(requests, "delete") /\ mTimer' = FALSE /\ CloseSocket
     ELSE UNCHANGED <<service, requests, mTimer, sockets>>

ToggleBroadcasting ==
  /\ screen.at = "shown"
  /\ \/ /\ mIsRecording
        /\ TriggerStopRecording
        /\ UNCHANGED <<executor, connect, history>>
     \/ /\ ~mIsRecording /\ ~service.connected /\ Asked < MaxStarts
        /\ requests' = Append(requests, "add")
        /\ connect' = [connect EXCEPT ![Asked + 1] = "new"]
        /\ executor' = Append(executor, Start)
        /\ history' = IF Starting THEN history \cup {"twice"} ELSE history
        /\ UNCHANGED <<service, mIsRecording, mTimer, sockets>>
  /\ UNCHANGED <<screen, looper, opening, socketChannel, reader, receivedata, short, typed, shown, sent, listed, dead>>

\* onPostExecute: a start that failed calls a stop that does nothing, as
\* mIsRecording is false by then.
Started ==
  /\ mIsRecording' = TRUE /\ mTimer' = TRUE
  /\ UNCHANGED <<service, requests, sockets, shown, history, dead>>

Failed ==
  /\ mIsRecording' = FALSE
  /\ history' = history \cup {"failed"}
  /\ UNCHANGED <<service, requests, mTimer, sockets, shown, dead>>

\* The dialog needs the window of a screen that is not destroyed.
ConnectionLost ==
  /\ TriggerStopRecording
  /\ dead' = (screen.at = "destroyed")
  /\ UNCHANGED <<shown, history>>

\* showUpdate reads the plain field when it runs: the line it was posted for, or
\* any one stored since. A line without two fields is an exception nobody catches.
ShowUpdate(line) ==
  /\ \E v \in line..receivedata :
       IF v \in short THEN dead' = TRUE /\ UNCHANGED shown
                      ELSE shown' = Append(shown, v) /\ UNCHANGED dead
  /\ UNCHANGED <<mIsRecording, mTimer, service, requests, sockets, history>>

HandleMessage ==
  /\ looper # <<>>
  /\ looper' = Tail(looper)
  /\ \/ Head(looper).what = "started" /\ Started
     \/ Head(looper).what = "failed" /\ Failed
     \/ Head(looper).what = "lost" /\ ConnectionLost
     \/ Head(looper).what = "line" /\ ShowUpdate(Head(looper).line)
  /\ UNCHANGED <<screen, executor, opening, connect, socketChannel, reader, receivedata, short, typed, sent, listed>>

\* The timer's thread, once a second.
TimerTick ==
  /\ mTimer /\ ~service.connected
  /\ Cardinality(Waiting({"lost"})) < MaxLost
  /\ looper' = Append(looper, Posted("lost"))
  /\ UNCHANGED <<uiVars, service, executor, opening, chatVars, roomVars, history, dead>>

OnPause ==
  /\ screen.at = "shown" /\ screen.left < MaxPauses
  /\ screen' = [at |-> "paused", left |-> screen.left + 1]
  /\ service' = StopBroadcasting(service)
  /\ UNCHANGED <<mIsRecording, mTimer, looper, executor, opening, chatVars, roomVars, history, dead>>

OnStop ==
  /\ screen.at = "paused"
  /\ screen' = [screen EXCEPT !.at = "hidden"]
  /\ requests' = Append(requests, "delete")
  /\ history' = history \cup {"hidden"}
  /\ UNCHANGED <<mIsRecording, mTimer, service, looper, executor, opening, chatVars, listed, dead>>

OnResume ==
  /\ screen.at \in {"paused", "hidden"}
  /\ screen' = [screen EXCEPT !.at = "shown"]
  /\ UNCHANGED <<mIsRecording, mTimer, service, looper, executor, opening, chatVars, roomVars, history, dead>>

\* onDestroy: without a socket the exception skips the request as well.
OnDestroy ==
  /\ screen.at = "hidden"
  /\ screen' = [screen EXCEPT !.at = "destroyed"]
  /\ CloseSocket
  /\ requests' = IF socketChannel = 0 THEN requests ELSE Append(requests, "delete")
  /\ UNCHANGED <<mIsRecording, mTimer, service, looper, executor, opening, connect, socketChannel,
                 reader, receivedata, short, typed, shown, sent, listed, history, dead>>

-----------------------------------------------------------------------------
(* The chat. *)

\* The thread made by the start stores the new socket, connects it and starts
\* checkUpdate, connected or not: the one Thread object can be started once.
OpenSocket(n) ==
  /\ connect[n] = "new"
  /\ connect' = [connect EXCEPT ![n] = "connecting"]
  /\ sockets' = [sockets EXCEPT ![n] = "made"] /\ socketChannel' = n
  /\ UNCHANGED <<reader, receivedata, short, typed, shown, sent, looper, executor, dead>>

Connected(n) ==
  /\ connect[n] = "connecting"
  /\ connect' = [connect EXCEPT ![n] = "returned"]
  /\ IF sockets[n] = "made" THEN \E s \in {"open", "closed"} : sockets' = [sockets EXCEPT ![n] = s]
                            ELSE UNCHANGED sockets
  /\ UNCHANGED <<socketChannel, reader, receivedata, short, typed, shown, sent, looper, executor, dead>>

StartReader(n) ==
  /\ connect[n] = "returned"
  /\ connect' = [connect EXCEPT ![n] = "done"]
  /\ IF reader.at = "new" THEN reader' = [at |-> "reading", from |-> socketChannel] /\ UNCHANGED dead
                          ELSE dead' = TRUE /\ UNCHANGED reader
  /\ UNCHANGED <<socketChannel, sockets, receivedata, short, typed, shown, sent, looper, executor>>

\* receive(): what one read of at most 256 bytes returns, a line or a part of
\* one, is stored in the field, and then posted.
Read ==
  /\ reader.at = "reading" /\ sockets[reader.from] = "open" /\ receivedata < MaxRead
  /\ receivedata' = receivedata + 1
  /\ short' \in {short, short \cup {receivedata'}}
  /\ reader' = [reader EXCEPT !.at = "posting"]
  /\ UNCHANGED <<connect, socketChannel, sockets, typed, shown, sent, looper, executor, dead>>

\* Mutant: an update that waits is taken to show this line as well.
Post_UnlessWaiting ==
  /\ reader.at = "posting"
  /\ looper' = IF Waiting({"line"}) = {} THEN Append(looper, [what |-> "line", line |-> receivedata])
               ELSE looper
  /\ reader' = [at |-> "reading", from |-> socketChannel]
  /\ UNCHANGED <<connect, socketChannel, sockets, receivedata, short, typed, shown, sent, executor, dead>>

Post ==
  /\ reader.at = "posting"
  /\ looper' = Append(looper, [what |-> "line", line |-> receivedata])
  /\ reader' = [at |-> "reading", from |-> socketChannel]
  /\ UNCHANGED <<connect, socketChannel, sockets, receivedata, short, typed, shown, sent, executor, dead>>

\* The socket read is closed: receive() closes that of the field and ends.
EndOfReading ==
  /\ reader.at = "reading" /\ sockets[reader.from] = "closed"
  /\ reader' = [reader EXCEPT !.at = "ended"]
  /\ CloseSocket
  /\ UNCHANGED <<connect, socketChannel, receivedata, short, typed, shown, sent, looper, executor, dead>>

ServerCloses(n) ==
  /\ sockets[n] = "open"
  /\ sockets' = [sockets EXCEPT ![n] = "closed"]
  /\ UNCHANGED <<connect, socketChannel, reader, receivedata, short, typed, shown, sent, looper, executor, dead>>

\* The send button works once the other button was pressed.
SendMessage ==
  /\ screen.at = "shown" /\ Asked > 0 /\ typed < MaxTyped
  /\ typed' = typed + 1
  /\ executor' = Append(executor, typed')
  /\ UNCHANGED <<connect, socketChannel, sockets, reader, receivedata, short, shown, sent, looper, dead>>

\* Mutant: every line has a thread of its own, as in the open chat.
SendmsgTask_Parallel ==
  \E i \in DOMAIN executor :
    /\ executor[i] # Start
    /\ executor' = RemoveAt(executor, i)
    /\ IF socketChannel = 0 THEN dead' = TRUE /\ UNCHANGED sent
       ELSE /\ sent' = IF sockets[socketChannel] = "open" THEN Append(sent, executor[i]) ELSE sent
            /\ UNCHANGED dead
    /\ UNCHANGED <<connect, socketChannel, sockets, reader, receivedata, short, typed, shown, looper>>

\* doInBackground of a line: no socket yet is an exception nobody catches, a
\* socket that is not connected is one that is: the line is lost.
SendmsgTask ==
  /\ executor # <<>> /\ Head(executor) # Start
  /\ executor' = Tail(executor)
  /\ IF socketChannel = 0 THEN dead' = TRUE /\ UNCHANGED sent
     ELSE /\ sent' = IF sockets[socketChannel] = "open" THEN Append(sent, Head(executor)) ELSE sent
          /\ UNCHANGED dead
  /\ UNCHANGED <<connect, socketChannel, sockets, reader, receivedata, short, typed, shown, looper>>

Chat ==
  /\ \/ \E n \in Starts : OpenSocket(n) \/ Connected(n) \/ StartReader(n) \/ ServerCloses(n)
     \/ Read \/ Post \/ EndOfReading \/ SendMessage \/ SendmsgTask
  /\ UNCHANGED <<uiVars, service, opening, roomVars, history>>

-----------------------------------------------------------------------------
(* The server's list. Retrofit's calls run beside each other and nobody     *)
(* tries one again.                                                         *)

Overtakes(i) == \E j \in 1..i - 1 : requests[j] # requests[i]

Serve ==
  \E i \in DOMAIN requests :
    /\ requests' = RemoveAt(requests, i) /\ listed' = (requests[i] = "add")
    /\ history' = IF Overtakes(i) THEN history \cup {"late"} ELSE history
    /\ UNCHANGED <<uiVars, service, looper, executor, opening, chatVars, dead>>

RequestFails ==
  \E i \in DOMAIN requests :
    /\ requests' = RemoveAt(requests, i)
    /\ history' = history \cup {"late"}
    /\ UNCHANGED <<uiVars, service, looper, executor, opening, chatVars, listed, dead>>

Service == BeginStart \/ (\E result \in BOOLEAN : FinishStart(result)) \/ Disconnects
Lifecycle == OnPause \/ OnStop \/ OnResume \/ OnDestroy

Next == /\ ~dead
        /\ \/ ToggleBroadcasting \/ HandleMessage \/ TimerTick \/ Lifecycle
           \/ Service \/ Chat \/ Serve \/ RequestFails

\* The looper and the timer's thread go on; nothing is assumed of the service,
\* the network or the user.
Spec == /\ Init
        /\ [][Next]_vars
        /\ WF_vars(~dead /\ HandleMessage)
        /\ WF_vars(~dead /\ TimerTick)

-----------------------------------------------------------------------------
(* Properties. *)

Ascending(s) == IsSorted(s, LAMBDA a, b : a <= b)

\* Though one field is overwritten while updates wait, the chat never falls
\* behind: its n-th entry is the n-th line read or a later one (a line may be
\* missing, or be there twice), and when nothing is on its way the newest line is
\* the last one shown, or, when it has no two fields, it has ended the process:
\* it is never skipped. The user's own lines reach the server in the order typed.
ChatInOrder ==
  /\ \A i \in DOMAIN shown : shown[i] \in i..receivedata \ short
  /\ (reader.at # "posting" /\ Waiting({"line"}) = {} /\ receivedata > 0)
       => IF receivedata \in short THEN dead ELSE shown # <<>> /\ Last(shown) = receivedata
  /\ Ascending(sent)

\* When every request was answered in order, the server lists the room exactly
\* during the broadcast: but for a start that failed, which takes nothing back,
\* a screen that was hidden, which deletes the room and never adds it again, and
\* a start asked for twice.
RoomListed ==
  (requests = <<>> /\ "late" \notin history /\ ~Starting) =>
    /\ ~mIsRecording /\ listed => "failed" \in history
    /\ mIsRecording /\ ~listed => history \cap {"hidden", "twice"} # {}

\* A broadcast whose connection is lost ends by itself, on the screen and in the
\* encoders, hidden or not, unless it is connected again; with the screen gone
\* the dialog that says so ends the whole process.
LossStops ==
  (mIsRecording /\ ~service.connected)
    ~> \/ ~mIsRecording /\ ~service.on
       \/ service.connected \/ dead \/ "twice" \in history

\* The screen left is off the air: pause() stops the broadcast. Not checked by a
\* run, as it is not so: a start under way is not stopped.
OffAirWhenLeft == screen.at # "shown" /\ ~Starting => ~service.on
=============================================================================
