---------------------------- MODULE VideoEncoding ----------------------------
(***************************************************************************)
(* The video side of a broadcast: LiveVideoBroadcaster (main thread and    *)
(* the AsyncTask that connects), CameraSurfaceRenderer (the GL thread of   *)
(* the GLSurfaceView) and TextureMovieEncoder (a thread with a Looper per  *)
(* recording), with the calls VideoEncoderCore makes to the RTMP streamer. *)
(*                                                                         *)
(* mRecordingEnabled and mRecordingStatus belong to the GL thread, which   *)
(* runs the queued Runnables before it draws.  mRunning and mReady are     *)
(* guarded by mReadyFence; mHandler is volatile and read without it, so a  *)
(* check of mHandler and the call through it are two steps.  A message for *)
(* a Looper that has quit is dropped.  An exception ends the process:      *)
(* crash then names the method that threw it.                              *)
(***************************************************************************)
EXTENDS Naturals, Sequences

CONSTANTS
    MaxStarts,    \* bound: connections startBroadcasting opens
    MaxChanges,   \* bound: runs of the adaptive timer that post a change
    MaxPauses,    \* bound: pauses of the GLSurfaceView
    MaxQueued     \* bound: frames waiting for the encoder thread

ASSUME BoundsAssumption ==
    {MaxStarts, MaxChanges, MaxPauses, MaxQueued} \subseteq Nat

VARIABLES
    ui,           \* where the main thread is in stopBroadcasting and pause
    pausing,      \* the caller of stopBroadcasting is pause()
    opening,      \* the AsyncTask is in mRtmpStreamer.open
    isRecording,  \* LiveVideoBroadcaster.isRecording
    timer,        \* adaptiveStreamingTimer is scheduled
    task,         \* its task is running
    starts, changes, pauses,   \* counted against the bounds
    gl,           \* where the GL thread is in onDrawFrame
    events,       \* Runnables of queueEvent
    enabled,      \* mRecordingEnabled
    status,       \* mRecordingStatus
    view,         \* the GL context: "new", "ready", "released", "paused"
    rendering,    \* requestRender was called
    thread,       \* the encoder thread: "none", "new", "loop", "quit"
    running,      \* mRunning
    ready,        \* mReady
    handler,      \* mHandler is not null
    messages,     \* messages of its Looper
    core,         \* mVideoEncoder
    crash,
    connected,    \* RTMPStreamer.isConnected
    stops,        \* STOP_STREAMING messages in the streamer's Looper
    decoder,      \* the encoder whose SPS/PPS the streamer accepted last
    streamed      \* the encoder whose picture it accepted last

mainVars == <<ui, pausing, opening, isRecording, timer, task, starts, changes, pauses>>
drawVars == <<gl, enabled, status, view, rendering>>
codecVars == <<thread, running, ready, handler, core>>
rtmpVars == <<connected, stops, decoder, streamed>>
videoVars == <<mainVars, drawVars, events, codecVars, messages, crash, rtmpVars>>

Core == [id : Nat, codec : BOOLEAN, configured : BOOLEAN, writer : BOOLEAN]
NoCore == [id |-> 0, codec |-> FALSE, configured |-> FALSE, writer |-> FALSE]

VideoInit ==
    /\ ui = "free" /\ pausing = FALSE /\ opening = FALSE /\ isRecording = FALSE
    /\ timer = FALSE /\ task = FALSE /\ starts = 0 /\ changes = 0 /\ pauses = 0
    /\ gl = "idle" /\ enabled = FALSE /\ status = "none" /\ view = "new"
    /\ rendering = TRUE /\ events = <<>>
    /\ thread = "none" /\ running = FALSE /\ ready = FALSE /\ handler = FALSE
    /\ core = NoCore /\ messages = <<>> /\ crash = "none"
    /\ connected = FALSE /\ stops = 0 /\ decoder = 0 /\ streamed = 0

QueueEvent(e) == events' = Append(events, e)

(* mHandler.sendMessage from caller.                                       *)
Send(m, caller) ==
    IF handler
    THEN /\ messages' = IF thread = "quit" THEN messages ELSE Append(messages, m)
         /\ UNCHANGED crash
    ELSE crash' = caller /\ UNCHANGED messages

-----------------------------------------------------------------------------
(* startBroadcasting, in an AsyncTask.  The activity calls it when it is   *)
(* not connected and its own mIsRecording is false: nothing was started,   *)
(* or it was stopped, which cancelled the timer.                           *)

StartBroadcasting ==
    /\ ui = "free" /\ ~opening /\ ~connected /\ ~timer
    /\ view # "paused" /\ starts < MaxStarts
    /\ opening' = TRUE
    /\ isRecording' = FALSE
    /\ starts' = starts + 1
    /\ UNCHANGED <<ui, pausing, timer, task, changes, pauses, drawVars, events,
                   codecVars, messages, crash, rtmpVars>>

Opened ==
    /\ opening
    /\ opening' = FALSE
    /\ connected' = TRUE /\ decoder' = 0 /\ streamed' = 0
    /\ QueueEvent("start")
    /\ isRecording' = TRUE
    /\ timer' = TRUE
    /\ UNCHANGED <<ui, pausing, task, starts, changes, pauses, drawVars, codecVars,
                   messages, crash, stops>>

OpenFails ==
    /\ opening
    /\ opening' = FALSE
    /\ UNCHANGED <<ui, pausing, isRecording, timer, task, starts, changes, pauses,
                   drawVars, events, codecVars, messages, crash, rtmpVars>>

(* The adaptive timer's task, when it decides on another bitrate.  Timer   *)
(* .cancel() does not interrupt a task.                                    *)
TimerFires ==
    /\ timer /\ ~task /\ changes < MaxChanges
    /\ task' = TRUE
    /\ changes' = changes + 1
    /\ UNCHANGED <<ui, pausing, opening, isRecording, timer, starts, pauses,
                   drawVars, events, codecVars, messages, crash, rtmpVars>>

TimerPosts ==
    /\ task
    /\ task' = FALSE
    /\ QueueEvent("change")
    /\ UNCHANGED <<ui, pausing, opening, isRecording, timer, starts, changes, pauses,
                   drawVars, codecVars, messages, crash, rtmpVars>>

(* stopBroadcasting, from a tap or from pause(), on the main thread: ask   *)
(* the GL thread, poll the encoder, and after 300 ms stop it by force.     *)
StopBroadcasting(fromPause) ==
    /\ ui = "free"
    /\ fromPause => view # "paused" /\ pauses < MaxPauses
    /\ ~fromPause => timer
    /\ pausing' = fromPause
    /\ IF isRecording
       THEN QueueEvent("stop") /\ timer' = FALSE /\ ui' = "poll"
       ELSE fromPause /\ ui' = "pause" /\ UNCHANGED <<events, timer>>
    /\ UNCHANGED <<opening, isRecording, task, starts, changes, pauses, drawVars,
                   codecVars, messages, crash, rtmpVars>>

Returned == IF pausing THEN "pause" ELSE "free"

Poll_NoTimeout ==
    /\ ui = "poll" /\ ~running
    /\ ui' = Returned
    /\ UNCHANGED <<pausing, opening, isRecording, timer, task, starts, changes,
                   pauses, drawVars, events, codecVars, messages, crash, rtmpVars>>
Poll ==
    /\ ui = "poll"
    /\ ui' = IF running /\ handler THEN "stop" ELSE Returned
    /\ UNCHANGED <<pausing, opening, isRecording, timer, task, starts, changes,
                   pauses, drawVars, events, codecVars, messages, crash, rtmpVars>>

ForceStop_QuitOnly ==
    /\ ui = "stop"
    /\ Send("quit", "stopBroadcasting")
    /\ ui' = Returned
    /\ UNCHANGED <<pausing, opening, isRecording, timer, task, starts, changes,
                   pauses, drawVars, events, codecVars, rtmpVars>>
ForceStop ==
    /\ ui \in {"stop", "quit"}
    /\ Send(ui, "stopBroadcasting")
    /\ ui' = IF ui = "stop" THEN "quit" ELSE Returned
    /\ UNCHANGED <<pausing, opening, isRecording, timer, task, starts, changes,
                   pauses, drawVars, events, codecVars, rtmpVars>>

(* The end of pause(), and the whole of changeCamera()'s onPreExecute:     *)
(* queue notifyPausing, then GLSurfaceView.onPause, which returns when the *)
(* GL thread has paused.                                                   *)
ChangeCamera ==
    /\ ui = "free" /\ view = "ready" /\ pauses < MaxPauses
    /\ ui' = "pause"
    /\ UNCHANGED <<pausing, opening, isRecording, timer, task, starts, changes,
                   pauses, drawVars, events, codecVars, messages, crash, rtmpVars>>

QueuePausing ==
    /\ ui = "pause"
    /\ ui' = "pauseView"
    /\ QueueEvent("pausing")
    /\ UNCHANGED <<pausing, opening, isRecording, timer, task, starts, changes,
                   pauses, drawVars, codecVars, messages, crash, rtmpVars>>

PauseView ==
    /\ ui = "pauseView" /\ gl = "idle"
    /\ ui' = "free"
    /\ view' = "paused" /\ rendering' = FALSE
    /\ pauses' = pauses + 1
    /\ UNCHANGED <<pausing, opening, isRecording, timer, task, starts, changes, gl,
                   enabled, status, events, codecVars, messages, crash, rtmpVars>>

(* The camera is open again: mGLView.onResume().                           *)
ResumeView ==
    /\ ui = "free" /\ view = "paused"
    /\ view' = "new"
    /\ rendering' = TRUE
    /\ UNCHANGED <<mainVars, gl, enabled, status, events, codecVars, messages, crash,
                   rtmpVars>>

(* onFrameAvailable, delivered on the main thread: not while it polls.     *)
CameraFrame ==
    /\ ui = "free" /\ view = "ready" /\ ~rendering
    /\ rendering' = TRUE
    /\ UNCHANGED <<mainVars, gl, enabled, status, view, events, codecVars, messages,
                   crash, rtmpVars>>

-----------------------------------------------------------------------------
(* The GL thread.                                                          *)

ConfigChanged == status' = "changed" /\ UNCHANGED enabled

(* A Runnable of queueEvent; they run before a draw, and while paused.     *)
RunEvent ==
    /\ gl = "idle" /\ events # <<>>
    /\ events' = Tail(events)
    /\ LET e == Head(events) IN
       \/ e = "start" /\ enabled' = TRUE /\ UNCHANGED <<status, view>>
       \/ e = "stop" /\ enabled' = FALSE /\ UNCHANGED <<status, view>>
       \/ e = "change" /\ ConfigChanged /\ UNCHANGED view
       \/ /\ e = "pausing"
          /\ view' = IF view = "ready" THEN "released" ELSE view
          /\ UNCHANGED <<enabled, status>>
    /\ UNCHANGED <<mainVars, gl, rendering, codecVars, messages, crash, rtmpVars>>

IsRecording_Codec == core.codec
IsRecording == running

OnSurfaceCreated ==
    /\ gl = "idle" /\ events = <<>> /\ view = "new"
    /\ view' = "ready"
    /\ enabled' = IsRecording
    /\ status' = IF IsRecording THEN "resumed" ELSE "off"
    /\ UNCHANGED <<mainVars, gl, rendering, events, codecVars, messages, crash, rtmpVars>>

(* What status becomes when the recorder of the old bitrate is released.   *)
AfterRelease_On == "on"
AfterRelease == "off"

(* onDrawFrame up to the first call that another thread can disturb.       *)
CanDraw == gl = "idle" /\ events = <<>> /\ rendering /\ view \in {"ready", "released"}

Draw ==
    /\ CanDraw /\ view = "ready"
    /\ rendering' = FALSE
    /\ \/ /\ enabled /\ status = "off"
          /\ IF running THEN gl' = "texture" /\ UNCHANGED <<running, thread>>
                        ELSE gl' = "waiting" /\ running' = TRUE /\ thread' = "new"
          /\ UNCHANGED <<status, crash>>
       \/ /\ enabled /\ status = "changed"
          /\ status' = AfterRelease
          /\ gl' = IF handler THEN "release" ELSE "texture"
          /\ UNCHANGED <<running, thread, crash>>
       \/ /\ enabled /\ status = "resumed"
          /\ gl' = "update"
          /\ UNCHANGED <<status, running, thread, crash>>
       \/ /\ ~enabled /\ status \in {"on", "resumed"}
          /\ status' = "off"
          /\ gl' = IF handler THEN "stop" ELSE "texture"
          /\ UNCHANGED <<running, thread, crash>>
       \/ /\ IF enabled THEN status = "on" ELSE status = "off"
          /\ gl' = "texture"
          /\ UNCHANGED <<status, running, thread, crash>>
       \/ /\ ~enabled /\ status = "changed"
          /\ crash' = "unknown status"
          /\ UNCHANGED <<gl, status, running, thread>>
    /\ UNCHANGED <<mainVars, enabled, view, events, ready, handler, core, messages,
                   rtmpVars>>

(* mSurfaceTexture is null after notifyPausing.                            *)
DrawReleased ==
    /\ CanDraw /\ view = "released"
    /\ crash' = "released texture"
    /\ UNCHANGED <<mainVars, drawVars, events, codecVars, messages, rtmpVars>>

(* startRecording waits for mReady, then sends; releaseRecording and       *)
(* stopRecording send two messages; updateSharedContext one.               *)
StartReady ==
    /\ gl = "waiting" /\ ready
    /\ gl' = "start"
    /\ UNCHANGED <<mainVars, enabled, status, view, rendering, events, codecVars,
                   messages, crash, rtmpVars>>

GlSends ==
    /\ gl \in {"start", "update", "release", "stop", "quit"}
    /\ Send(gl, "onDrawFrame")
    /\ status' = IF gl \in {"start", "update"} THEN "on" ELSE status
    /\ gl' = IF gl \in {"release", "stop"} THEN "quit" ELSE "texture"
    /\ UNCHANGED <<mainVars, enabled, view, rendering, events, codecVars, rtmpVars>>

(* setTextureId: checks mReady, then sends (a message with no effect on    *)
(* this model's state).                                                    *)
SetTexture ==
    /\ gl = "texture"
    /\ gl' = IF ready THEN "setTexture" ELSE "idle"
    /\ UNCHANGED <<mainVars, enabled, status, view, rendering, events, codecVars,
                   messages, crash, rtmpVars>>

SendTexture ==
    /\ gl = "setTexture"
    /\ gl' = "frame"
    /\ crash' = IF handler THEN crash ELSE "setTextureId"
    /\ UNCHANGED <<mainVars, enabled, status, view, rendering, events, codecVars,
                   messages, rtmpVars>>

(* frameAvailable: checks mReady, mHandler and mVideoEncoder and whether   *)
(* the frame interval is over, then sends.                                 *)
FrameAvailable ==
    /\ gl = "frame"
    /\ gl' \in (IF ready /\ handler /\ core.id # 0 THEN {"sendFrame", "idle"} ELSE {"idle"})
    /\ UNCHANGED <<mainVars, enabled, status, view, rendering, events, codecVars,
                   messages, crash, rtmpVars>>

SendFrame ==
    /\ gl = "sendFrame"
    /\ gl' = "idle"
    /\ \/ Len(SelectSeq(messages, LAMBDA m : m = "frame")) < MaxQueued
       \/ ~handler
    /\ Send("frame", "frameAvailable")
    /\ UNCHANGED <<mainVars, enabled, status, view, rendering, events, codecVars,
                   rtmpVars>>

-----------------------------------------------------------------------------
(* The encoder thread.                                                     *)

ThreadReady ==
    /\ thread = "new"
    /\ thread' = "loop"
    /\ handler' = TRUE
    /\ ready' = TRUE
    /\ UNCHANGED <<mainVars, drawVars, events, running, core, messages, crash, rtmpVars>>

Receive(m) == thread = "loop" /\ messages # <<>> /\ Head(messages) = m /\ messages' = Tail(messages)

HandleStart ==
    /\ Receive("start")
    /\ core' = [id |-> core.id + 1, codec |-> TRUE, configured |-> FALSE, writer |-> TRUE]
    /\ UNCHANGED <<mainVars, drawVars, events, thread, running, ready, handler, crash,
                   rtmpVars>>

(* drainEncoder: once the output format is known, the SPS/PPS go to the    *)
(* streamer with time 0, then pictures follow.  The streamer discards what *)
(* is older than the last video it received (RTMPStreamer.handleMessage).  *)
Drain(configured) ==
    /\ configured \in {core.configured, TRUE}
    /\ IF configured /\ ~core.configured /\ streamed = 0
       THEN decoder' = core.id ELSE UNCHANGED decoder
    /\ streamed' \in {streamed} \cup (IF configured THEN {core.id} ELSE {})

HandleFrame ==
    /\ Receive("frame")
    /\ IF core.codec
       THEN \E configured \in BOOLEAN :
               Drain(configured) /\ core' = [core EXCEPT !.configured = configured]
       ELSE UNCHANGED <<core, decoder, streamed>>
    /\ UNCHANGED <<mainVars, drawVars, events, thread, running, ready, handler, crash,
                   connected, stops>>

(* handleStopRecording: drain to the end, release, and for MSG_STOP_       *)
(* RECORDING stop the muxer, which a core does once.                       *)
Released_NoCodec(how) == [core EXCEPT !.writer = @ /\ how = "release"]
Released(how) == [core EXCEPT !.codec = FALSE, !.writer = @ /\ how = "release"]
StopMuxer == IF core.writer THEN stops' = stops + 1 ELSE UNCHANGED stops

HandleStop ==
    /\ \/ Receive("stop") /\ StopMuxer
       \/ Receive("release") /\ UNCHANGED stops
    /\ IF core.id = 0
       THEN crash' = "handleStopRecording" /\ UNCHANGED <<core, decoder, streamed>>
       ELSE /\ \E configured \in BOOLEAN :
                  IF core.codec THEN Drain(configured) ELSE UNCHANGED <<decoder, streamed>>
            /\ core' = Released(Head(messages))
            /\ UNCHANGED crash
    /\ UNCHANGED <<mainVars, drawVars, events, thread, running, ready, handler,
                   connected>>

(* handleUpdateSharedContext: the surface is null once it was released.    *)
HandleUpdate ==
    /\ Receive("update")
    /\ crash' = IF core.codec THEN crash ELSE "handleUpdateSharedContext"
    /\ UNCHANGED <<mainVars, drawVars, events, codecVars, rtmpVars>>

(* Looper.quit() drops what is still queued.                               *)
HandleQuit ==
    /\ thread = "loop" /\ messages # <<>> /\ Head(messages) = "quit"
    /\ messages' = <<>>
    /\ thread' = "quit"
    /\ UNCHANGED <<mainVars, drawVars, events, running, ready, handler, core, crash,
                   rtmpVars>>

ThreadExits ==
    /\ thread = "quit"
    /\ thread' = "none"
    /\ running' = FALSE /\ ready' = FALSE /\ handler' = FALSE
    /\ UNCHANGED <<mainVars, drawVars, events, core, messages, crash, rtmpVars>>

-----------------------------------------------------------------------------
(* The streamer closes the connection when it handles STOP_STREAMING.      *)
StreamerStops ==
    /\ stops > 0
    /\ stops' = stops - 1
    /\ connected' = FALSE
    /\ UNCHANGED <<mainVars, drawVars, events, codecVars, messages, crash, decoder,
                   streamed>>

ConnectionLost ==
    /\ connected
    /\ connected' = FALSE
    /\ UNCHANGED <<mainVars, drawVars, events, codecVars, messages, crash, stops,
                   decoder, streamed>>

Stopping == Poll \/ ForceStop \/ QueuePausing \/ PauseView
Main == \/ StartBroadcasting \/ Opened \/ OpenFails \/ TimerFires \/ TimerPosts
        \/ \E p \in BOOLEAN : StopBroadcasting(p)
        \/ Stopping \/ ChangeCamera \/ ResumeView \/ CameraFrame
GlThread == \/ RunEvent \/ OnSurfaceCreated \/ Draw \/ DrawReleased \/ StartReady
            \/ GlSends \/ SetTexture \/ SendTexture \/ FrameAvailable \/ SendFrame
EncoderThread == \/ ThreadReady \/ HandleStart \/ HandleFrame \/ HandleStop
                 \/ HandleUpdate \/ HandleQuit \/ ThreadExits
Streamer == StreamerStops \/ ConnectionLost

VideoNext == crash = "none" /\ (Main \/ GlThread \/ EncoderThread \/ Streamer)
Alive(action) == crash = "none" /\ action
Threads ==
    /\ WF_videoVars(Alive(Stopping)) /\ WF_videoVars(Alive(GlThread))
    /\ WF_videoVars(Alive(EncoderThread)) /\ WF_videoVars(Alive(StreamerStops))

(* Each thread is scheduled, and the camera goes on delivering frames      *)
(* while it is open.  Nothing makes the user or the timer act.             *)
VideoSpec == VideoInit /\ [][VideoNext]_videoVars /\ Threads /\ WF_videoVars(Alive(CameraFrame))

-----------------------------------------------------------------------------
(* Every variable has the values the code can give it.                     *)
VideoTyped ==
    /\ ui \in {"free", "poll", "stop", "quit", "pause", "pauseView"}
    /\ {pausing, opening, isRecording, timer, task, enabled, rendering, running,
        ready, handler, connected} \subseteq BOOLEAN
    /\ starts \in 0..MaxStarts /\ changes \in 0..MaxChanges /\ pauses \in 0..MaxPauses
    /\ gl \in {"idle", "waiting", "start", "update", "release", "stop", "quit",
              "texture", "setTexture", "frame", "sendFrame"}
    /\ events \in Seq({"start", "stop", "change", "pausing"})
    /\ status \in {"none", "off", "on", "resumed", "changed"}
    /\ view \in {"new", "ready", "released", "paused"}
    /\ thread \in {"none", "new", "loop", "quit"}
    /\ messages \in Seq({"start", "stop", "release", "quit", "update", "frame"})
    /\ core \in Core
    /\ stops \in Nat /\ {decoder, streamed} \subseteq 0..core.id

(* No encoder is lost. MediaCodec is a scarce device: when the encoder     *)
(* thread is gone, so is its codec, whichever of the two ways of stopping  *)
(* won. And an encoder that runs stays known to the renderer through a     *)
(* pause of the view (another camera, a new GL context) as long as nobody  *)
(* stopped the broadcast, or the broadcast would go on without pictures.   *)
NoEncoderLost ==
    /\ crash = "none" /\ ~running => ~core.codec
    /\ running /\ timer => enabled

(* The server can decode the pictures it gets: the SPS/PPS it holds are    *)
(* those of the encoder that made the picture.  Not so after a bitrate     *)
(* change or in a second broadcast: the SPS/PPS of the new encoder have    *)
(* time 0 and the streamer discards them (RTMPStreamer.handleMessage).     *)
PicturesDecodable == streamed # 0 => decoder = streamed

(* Once the muxer was stopped no encoder of the broadcast adds a picture   *)
(* behind the STOP_STREAMING message.                                      *)
NothingAfterStop ==
    [][streamed' # streamed /\ streamed' # 0 => stops = 0]_videoVars

(* stopBroadcasting ends the encoder thread, asked or forced; a bitrate     *)
(* change ends in a new encoder, unless the broadcast is stopped.          *)
StopsAndChangesEnd ==
    /\ ui = "poll" ~> ~running \/ crash # "none"
    /\ \A n \in 0..MaxStarts + MaxChanges :
        enabled /\ status = "changed" /\ core.id = n
            ~> core.id > n \/ ~timer \/ ~enabled \/ crash # "none"

(* A stop of a broadcast that is being recorded closes the connection,     *)
(* asked or forced, whatever pause of the view interrupts it: the GL       *)
(* thread has nothing queued but the stop and no message but frames, and   *)
(* so no recording that is only beginning can be stopped before its muxer  *)
(* exists.                                                                 *)
Steady ==
    /\ thread = "loop" /\ core.codec /\ view = "ready" /\ enabled /\ status = "on"
    /\ \A i \in DOMAIN messages : messages[i] = "frame"
RecordedStopCloses ==
    ui = "poll" /\ events = <<"stop">> /\ Steady ~> ~connected \/ crash # "none"

(* "Stops broadcastings to the server": the connection is closed after a   *)
(* stop.                                                                   *)
StopCloses == ui = "poll" ~> ~connected \/ crash # "none"
=============================================================================
