# A verification project for Live_Streaming

TLA+ models of the concurrent parts of the Android app *mychat* (live video over
RTMP, a chat beside it, one-to-one calls over WebRTC), the TLC configurations
that check them on small instances, and theorems about them that the TLA+ proof
system checks for every value of the constants.

Paths are shortened: `SDK/` is
`src/liveVideoBroadcasterSDK/src/main/java/io/antmedia/android/broadcaster/`,
`APP/` is `src/app/src/main/java/com/example/dbsdn/mychat/`. `settings.gradle`
builds `:app` and `:liveVideoBroadcasterSDK` only; `library/` is vendored code
outside the build and is left aside.

## Inventory

### Broadcasting (SDK)

| Component | Threads | State | Operations | What makes it correct |
|---|---|---|---|---|
| RTMP streamer, `network/RTMPStreamer.java` | Looper of RtmpStreamerThread; called by the encoder threads and an AsyncTask | two frame lists, last received and last sent times, frame count, connected flag | open, writeAudio, writeVideo, stopMuxer, handleMessage | the connection carries the frames of its own broadcast, in time order; a stop flushes and closes; the count shows congestion |
| Video encoding, `encoder/CameraSurfaceRenderer`, `TextureMovieEncoder`, `VideoEncoderCore` | GL thread, a Looper thread per recording, main thread, adaptive timer | recording flag and status, the encoder thread's handler/ready/running, codec, surface | onSurfaceCreated, onDrawFrame, startRecording, stopRecording, releaseRecording, updateSharedContext, frameAvailable, drainEncoder | codec freed at the end, pictures decodable, recording survives a pause and a bitrate change and stops when asked |
| Audio capture, `AudioRecorderThread`, `encoder/AudioHandler`, `AudioEncoder` | recorder and encoder thread per broadcast, one handler thread for all | ring of 1000 arrays, the handler's target, codec buffers | start/stopAudioRecording, startAudioEncoder, handleMessage, encodeAudio, stopEncoding, run | samples intact and before the end, microphone and codec freed by a stop |
| Frame buffers, `getBuffer` of `AudioEncoder` and `VideoEncoderCore` | encoder thread, reading the streamer's last sent time | map from times to arrays; rounds of the 32-bit clock | getBuffer, run | an array is not reused while its frame waits; a frame has the time of its sample |
| Broadcast service, `LiveVideoBroadcaster` | main thread, AsyncTasks, timer | isRecording, camera, threads of the broadcast | startBroadcasting, stopBroadcasting, pause, changeCamera, openCamera, setResolution | start and stop bring all of the above up and down together |
| Camera, `CameraProxy`, `CameraHandler` | camera thread with a condition variable; UI, GL and AsyncTask threads as callers | the camera, released, the static sCameraProxy | openCamera, changeCamera, pause, release, startPreview, stopPreview, setParameters ... | nobody waits for an answer that does not come; no camera is lost; an open ends with a camera |
| OpenGL wrappers, `encoder/gles` | GL and encoder thread | EGL contexts, shaders | drawing | (not modelled) |

### Calls (APP/rtc)

| Component | Threads | State | Operations | What makes it correct |
|---|---|---|---|---|
| Direct signalling, `DirectRTCClient`, `TCPChannelClient` | UI, executor, listening thread, on two phones | room state, sockets, the executor's queue | connectToRoom, disconnectFromRoom, send*, onTCP* | messages heard in order, after the room; hanging up ends the other side; nothing left open |
| Room-server signalling, `WebSocketRTCClient`, `WebSocketChannelClient`, `RoomParametersFetcher`, `util/AsyncHttpURLConnection` | UI, looper, a thread per request, WebSocket library | room state, WebSocket state, held messages | connectToRoom, disconnectFromRoom, send*, register, onWebSocket* | everything said is sent once in order after the registration, one error, room left |
| Audio devices, `AppRTCAudioManager`, `AppRTCBluetoothManager`, `AppRTCProximitySensor` | main thread; broadcasts, service callbacks, timeouts | device set, selection, SCO state, attempts, timer | start, stop, updateAudioDeviceState, receivers | the call is heard on an available device, SCO attempts bounded and never forgotten |
| WebRTC session, `PeerConnectionClient`, rest of `CallActivity` | executor, WebRTC's threads, UI | peer connection, local description, queued candidates, capturer, two isError flags | create, offer/answer, candidates, start and stop of the capturer, errors, close | candidates neither lost nor early; the description sent once; the camera films for a shown call only; an error is heard; a call that ends is disposed of |
| Screens, capture quality, CPU monitor | UI | views | | (not modelled) |

### The app around them (APP)

| Component | Threads | State | Operations | What makes it correct |
|---|---|---|---|---|
| Broadcast activity | UI, AsyncTasks, timer | mIsRecording, the room's entry in the server's list | toggleBroadcasting, triggerStopRecording, timer messages, onPause ... onDestroy | the room is listed while it is on the air; a lost connection ends the broadcast |
| Live chat (`Chat`, the player, the broadcast activity) | UI, connecting and receiving thread, AsyncTasks | channel, receivedata | connect, send, receive, showUpdate | no line behind its place, the newest one shown |
| Open chat (`Openchat/OpenChat`) | UI, receiver, a thread per message | socket, list of lines | send, receive, history | lines in order, history before live lines (a history that loads late is put below them) |
| Player, FLV extractor | UI, ExoPlayer's loader | parser state | read, seek | tags delivered with their times |
| Login, rooms, HTTP client, push messages, Unity view | UI | forms, lists | | (not modelled) |

**How they interact.** The service calls the streamer (`open`) from an
AsyncTask, hands it to the encoders, and asks it for its state from the timer.
Recorder -> handler -> audio encoder -> streamer and GL thread -> encoder
thread -> streamer are chains of Looper messages; the only way back is
`getLastFrameTimestamp`, which the buffers use. Stopping is not a call down the
chain: the service raises flags and posts ends, and the *encoder* threads close
the connection. In a call the activity talks to a signalling client by tasks on
its executor or looper and is answered by runnables posted to the UI thread; it
starts and stops the audio manager in a straight line.

**What is hard.** Every hand-over above is a race with a stop. No lock covers
the streamer's `open`, the encoder's handler is checked and used without one,
the audio handler's target is re-aimed while messages wait. The network fails
inside loops. Broadcasts of the system arrive late. PROJECT.json lists each
hazard at its line.

## Modules

Each component has a module with its state as variables and one action per
handler or per step another thread can come between; an `MC` module with values
for TLC; and, where theorems are proved, a `Proofs` module. Operators named
`X_Something` just before an `X` are mutants of it: a plausible bug, which some
property must catch; they take no part in the specifications.

| Module | Models | Composes / abstracts |
|---|---|---|
| `RtmpStreamer` | `RTMPStreamer.java`; two encoders, `open` and `stopMuxer` as its environment | refines `AvMerge` |
| `AvMerge` | the abstract promise: a merge of two streams by time on a connection | |
| `VideoEncoding` | GL, encoder, main and timer threads | the streamer reduced to "connected, stop posted" |
| `FrameBuffers` | `getBuffer` against the streamer's last sent time | one kind of frame; the other only moves the clock |
| `AudioTimes` | `FrameBuffers` with the clock of the audio frames | extends and implements `FrameBuffers` |
| `AudioCapture` | recorder, handler, encoder threads of several broadcasts | timestamps left out |
| `Camera` | camera threads, their condition variables, three threads that call them | the device is exclusive; the view reduced to its surface texture |
| `BroadcastActivity` | the broadcaster's screen, its room entry, its chat | the service reduced to recording, on, connected |
| `DirectRtc` | two phones, three threads each | peer connection reduced to none/made/described |
| `WebSocketRtc` | one phone, any behaviour of servers and network | likewise |
| `PeerConnection` | `CallActivity` and `PeerConnectionClient`, the library as environment | the signalling client reduced to what it says and hears |
| `AudioDevices` | both audio managers, any behaviour of headsets and Bluetooth | user's choice NONE, as in the program |

The modules meet at these places: `VideoEncoding`, `AudioCapture`, `RtmpStreamer`
and `Camera` each hold the part of `LiveVideoBroadcaster` that talks to them;
`BroadcastActivity` is the caller of all four; `PeerConnection` is what
`DirectRtc` and `WebSocketRtc` call `pc`.

### RtmpStreamer

`looper` is the message queue, `frameList`, `lastReceived`, `lastFrameTs`,
`lastSent`, `frameCount`, `isConnected` are the fields. The handler thread is
split at `at`: "idle", "loop" (the iterator's test), "write" (the blocking
call), "record" or "failed" (after it). `phase` is the list being worked on;
`mode` tells `sendFrames` of a message, `finishframes`, and its last flush apart. The encoders
write any frame with a growing time of their kind (`WriteFrame`), and count it
in a second step (`CountFrame`), as the code does. `OpenBegin` is the unlocked
reset, `OpenSucceeds`/`OpenFails` the connect. A write may fail at any time.
A frame carries its broadcast (`session`) and its first time (`pts`), which the
code does not keep: they are for properties only, as is `left`, the frames that
waited when `open()` last set the count to zero.

`AvMerge` promises less and says more plainly what a viewer relies on: frames
of each kind leave in order, the one sent is never later than one that waits,
times on the wire grow, frames are dropped only on ties or with the connection.

### VideoEncoding

`events` are the GL thread's runnables, `messages` the encoder thread's,
`gl` and `ui` say where those threads are inside `onDrawFrame` and
`stopBroadcasting`; `handler`, `ready`, `running` are the encoder's fields,
`core` the current VideoEncoderCore. A test of `mHandler` and its use are two
steps. `crash` names the method whose exception ended the process; nothing
happens after it. The contents of frames are abstracted to the encoder that made
them. The specification is `VideoSpec`, and no name of the module is one of
`AudioCapture` or `FrameBuffers`: one module proves about the three encoders.

### AudioCapture

`recorder`, `encoders`: one record per broadcast; `queue` and `target` belong to
the shared handler; `hand` is the message being handled. `MaxSamples` gives each
recorder its number of samples, `Slots` the ring. A start is a step of its own
wherever the handler can come between: the handler's field is assigned (`Start`),
the codec is created and in the encoder's field ("created"), is configured and
started and has its buffers ("ready", `CodecGoesOn`), and the thread runs
(`StartThread`); it may fail in between (`CodecFails`), which leaves the codec null
or the handler's field null. A sample still queued finds whatever there is: null,
and is ignored, or a codec not yet configured, and ends the process
(`MisuseCodec`). `ReadAgain` is the second read of the handler's field, between the
look at the thread's state and `stopEncoding`. Three tries for an input
buffer are one step; so are `stopAudioRecording` and the set-up of the
microphone. History: `over` (recorders that were done when a codec was told the
end), `lost` (ends that reached no codec of theirs), `early` (a start before the
messages of the broadcast before were handled). `removeMessages` is
`RemoveAudio`: the only sequence that has the other messages, each once and in
their order. The specification is `CaptureSpec`, so that one module can prove
about it and about the times of the same encoder (`AudioTimes`).

### FrameBuffers and AudioTimes

`reserved` is the map from times to arrays, `content` the frame whose bytes an
array holds, `waiting` the frames in the streamer (the first `arrived` in its
list, the rest in its queue). The streamer may move `lastSent` on by the other
kind at any time (`SendOther`). `MinGap` is the least distance of two frames.

In FrameBuffers the encoder takes any growing times. AudioTimes computes them as
the program does: `PresentationTimeUs` is the 32-bit product of
`AudioHandler:64` (an int is in `-Half .. Half - 1`), `Rounds` and
`PresentationTime` are the repair at `AudioEncoder:154-164`. The codec gives
back the time it was given, as its interface says; the comment at
AudioEncoder 152 holds it for the origin of the negative values, which are the
product's. Two assumptions are in `SampleTime`: samples are less than half a
round (35 minutes) apart, and none falls on the very microsecond at which a
round starts, for which `> 0` would miss the round (one millisecond in six days
can hit it).

### Camera

`sCameraProxy` and `sCameraReleased` are the static fields. A proxy is a number
with its device (`camera`), its `released` flag, its condition variable
(`signal`), the queue of its thread (`messages`) and whether that was told to
quit. `pc` says where each of the three callers is: inside `releaseCamera`
(whose four reads of the field are four steps), inside the opening task, or
inside `pause`, `setResolution` or `startPreview` on the UI thread. "opening",
"releasing" and "stopping" are the waits in `block()`. `HandleMessage` opens the
condition variable after every message, as `handleMessage` does, whoever waits.
`posts` are messages for the UI thread, `events` runnables for the GL thread; a
surface texture is a number, and one that was released makes
`setPreviewTexture` throw.

Abstracted: consecutive messages of one call that nobody waits for are one
(`Call`); the sleep of a second lets the camera thread drain; the device has one
holder at a time, and `busy` is another application's; the UI thread runs what
is posted to it in order; `onPause` waits for the GL thread, as
`GLSurfaceView` does. `openCamera` tries again once instead of three times.
`onResume` without `onStart` and the permission dialogs are left out.

### PeerConnection

`act[c]` is an activity (its phase, its `client`, its two flags), `client` the
one `PeerConnectionClient` of the process, `conn[c]` the library's connection:
the operations it has been asked for, the descriptions it holds, the candidates
added. `client.video` is `videoCallEnabled`: without a capturer `CreatePeerConnection`
sets it to FALSE and the call goes on with sound only, which is no error; the next
call sets it again on the UI thread, so a task of an earlier call that is still
queued can make the next call one of sound only. `ui` and `exec` are the two queues. Every method that runs on the
executor is an action (`CreatePeerConnection`, `SetDescription`,
`DrainCandidates` inside `RemoveCandidates` and `SetSuccess`, `CloseInternal`,
`StartVideoSource` ...), every runnable of the UI thread one (`OnConnected`,
`OnDescription`, ...), and so are the user's and the screen's moves. `Answer`,
`Refuse`, `LoseConnection`, `OtherError` are the library, `Room...` what the
signalling client posts. `faults` are exceptions on the executor, which goes on;
`dead` is one on the UI thread, which does not. `Tell` is a call of the listener from
the executor: after `closeInternal` it is null, and the task ends in an exception
(`faults` gets "events") after what it did before and without what would follow.

Abstracted: the library answers one connection's operations in order; the first
local candidate comes with or after the local description; removed candidates
are treated like candidates; events are heard only while the room is joined;
`onStop` and `onDestroy` of a finishing activity are one step; errors of the
audio device and a failed ICE connection are `OtherError`. The statistics timer,
rendering, mute, the switch of the camera, the capture format, the bitrate
task, screen capture, a file as camera and the runs from a command line are left out.

### BroadcastActivity

`screen` is the activity's life, `looper` what is posted to the main thread,
`executor` the AsyncTasks (one after the other: a start, and every typed line),
`connect[n]` the thread that start `n` makes to connect the chat, `sockets` and
`socketChannel` the channels and the field, `reader` the one Thread object
`checkUpdate`. `requests` are the requests about the room: they are served in any
order, or fail, and are never tried again. A start succeeds or fails as the
service likes. `ShowUpdate` shows what the plain field holds when the UI thread
reads it: the line it was posted for or any later one (on memory that keeps the
order of two reads of one field, never one before what it has shown; no property
needs that). A read is `short` when it has no two fields: whatever the server
sends, the tail of a line longer than the buffer of 256 bytes (571) can be one.
`showUpdate` (614-616) then throws and the process ends (`dead`). `history`
records what spoils the list, so that a property can name its exceptions.

Abstracted: of the text of a read only whether it has the two fields (name and
text); in the program several lines in one read are shown as one. The dialogs
of permissions and resolutions, and that a dialog hides the buttons, are left out.

### DirectRtc and WebSocketRtc

`ui` and `tasks` are queues of runnables; `call` is the activity, `pc` its peer
connection. In DirectRtc `thread` is the place of the listening thread, `raw`
and `end` the socket field and the real end of the connection; a peer is
"server" or "client". In WebSocketRtc `sock` is the library's connection, `ws`
the client's state, `posts`, `join` the requests under way; servers and network
are free. Histories (`said`, `got`, `wire`, `errors`, `failed`) are for
properties.

### AudioDevices

`bt` is the Bluetooth manager as a record; its methods are operators on it,
`UpdateAudioDeviceState` is the whole of that method and ends every handler but
`stop`. `world` is what is really so, `intents` the broadcasts on their way: a
handler may find the world changed again. The SCO link is "off", "on", or "dropped":
gone by itself, which the manager does not notice. `late` is a history: the last
attempt began while the news of an earlier link was on its way, and will take it
for its own. `phone` is fixed: earpiece or not, default device, speaker before the
call.

## Runs

| Run | Question, and its properties | Bounds, and why they are enough |
|---|---|---|
| `rtmp_one` | merge, order, count, stop: `WireInTimeOrder`, `CountCoversQueue`, `StopClosesConnection`, refinement `ImplementsMerge` | 4 frames with times 1..3, one broadcast: ties between kinds, the bump to the next time and a frame that has that time, both lists non-empty at a stop. Order and count are proved for any number of broadcasts |
| `video_pause` | stop with and without force, pause at any point: `NoEncoderLost`, `NothingAfterStop`, `RecordedStopCloses` | one start, one pause (a recording survives it or is stopped in it); the first two proved for any number of pauses and frames, the third is liveness |
| `video_adapt` | a bitrate change with a stop at any point: `StopsAndChangesEnd` | one change; a second starts from the same state |
| `buffers_kept` | `BytesKept`: arrays are kept while their frame waits; `TimesRecovered`: times survive the 32 bits | 4 frames, two sizes, times to 10 ms, 2 ms apart, ints of 4 bits and 2 µs in a ms: one whole round; both proved for all |
| `direct_call` | a call with an offer, an answer, an ICE message, hanging up and network failure anywhere: `InOrder`, `NoFalseAlarm`, `HangUpHeard` | one ICE message of the offering phone, which is the one that can be early; one failure |
| `audio_stop` | two broadcasts stopped at any point: `EndIsLast`, `SampleIntact`, `StopFrees` | first recorder 2 samples in a ring of 2 (its third read is into the first array), two stops, one input buffer (it can be missing) |
| `websocket_call` | a call against free servers: `Delivered`, `NoFalseAlarm`, `LittleLeftBehind`, `CallEnds` | one ICE message, two texts of the server: an answer and one out of place |
| `audio_devices` | a link that comes late or drops, timeouts, a dying service: `HeardWhereSaid`, `AttemptsKnown`, `HeadsetFollowed` | two attempts as in the code, 4 changes of the world: enough for a headset that goes and comes back with both broadcasts late, or a link up and down inside an attempt |
| `camera_switch` | opening, changing and leaving from three threads: `NoLostWakeup`, `NoCameraLost`, `OpenGetsCamera` | three moves of the user or of another application: an open, a change and a pause in any order and at any point; one further try |
| `camera_pause` (violation) | `PauseReleases` after a change of camera | two moves: a change, a pause |
| `peer_call` | one call, hidden, shown, hung up and failing at any point: `CandidatesKept`, `SentOnce`, `CaptureFollowsScreen`, `ErrorsHeard`, `DisconnectDisposes` | two candidates, one of them kept by the room; two moves, one of which may be a failure |
| `broadcast_chat` | one broadcast with its chat: `ChatInOrder`, `RoomListed`, `LossStops` | two lines each way (one can overwrite the other), each with its two fields or not, one departure, two CONNECTION_LOST messages waiting (the second meets what the first left) |

Every property of a passing run has a mutant of the code that violates it.
Deadlock is not checked: a call or a broadcast that is over really stops, and
the moves of the user are bounded.

These configurations belong to the project too. They show what the next section
says, or a larger instance:

| Configuration | Shows |
|---|---|
| `MCRtmpStreamerStaleFrame` | `OnlyThisBroadcast` violated: a frame of a stopped broadcast on the next connection |
| `MCVideoEncodingStopCloses` | `StopCloses` violated: a stop before the encoder started |
| `MCVideoEncodingDecodable` | `PicturesDecodable` violated by a bitrate change |
| `MCAudioDevicesRouted` | `Routed` violated: SCO_CONNECTED with the link dropped |
| `MCFrameBuffersKept`, `MCFrameBuffersClose` | `BytesKept` with any times: holds 2 ms apart, violated 1 ms apart |
| `MCDirectRtcLeak` | `Disconnected` violated: hanging up while the socket connects |
| `MCPeerConnectionNext` | `DisconnectDisposes` violated by a second call |
| `MCBroadcastActivityAgain` | two starts without the chat, with the type invariant: holds |
| `MCBroadcastActivityLeft` | `OffAirWhenLeft` violated: a start under way goes on the air with the screen hidden |

### Fairness

- RtmpStreamer: the handler thread. Nothing makes an encoder write or a user stop.
- VideoEncoding: each thread is scheduled, the camera delivers frames while it
  is open; neither user nor timer must act.
- AudioCapture: the shared handler thread, each recorder and each encoder thread,
  and a message once begun (`SendEnd`). The user need not stop.
- DirectRtc, WebSocketRtc: each thread of the phones; in WebSocketRtc the wait
  with CLOSE_TIMEOUT ends. Servers and network owe nothing.
- AudioDevices: the main thread delivers broadcasts, the connection of the
  service and the four-second timeout. The world owes nothing.
- BroadcastActivity: the main thread and the timer's thread. The service, the
  network, the servers and the user owe nothing.
- Camera, PeerConnection, AudioTimes: none; their properties are about states
  and steps. That a waiting caller of the camera has an answer to come is
  stated as an invariant (`NoLostWakeup`).

### Disagreements with the documentation

Shown by the listed run `camera_pause`: after a change of camera `pause()` keeps
the camera. `changeCamera()` releases the old one, which sets `sCameraReleased`
(LiveVideoBroadcaster.java:520), and nothing resets it but `openCamera` (451), so
line 114 takes it for released. ILiveVideoBroadcaster.java:86 says "Pauses and
releases the camera, it is safe to call this function in OnPause of the
activity".

Shown by an unlisted configuration:

- `MCRtmpStreamerStaleFrame`: `open()` (RTMPStreamer.java:82) keeps the lists and
  messages of the last broadcast, and
- `MCVideoEncodingStopCloses`: `stopBroadcasting` (LiveVideoBroadcaster.java:358)
  closes nothing when no encoder runs, as the encoder threads do the closing;
  ILiveVideoBroadcaster.java:106 says of a stop "Stops broadcastings to the
  server". (Once frames are recorded a stop does close: `RecordedStopCloses`.)
- `MCVideoEncodingDecodable`: after a bitrate change the SPS/PPS of the new encoder
  have time 0 and RTMPStreamer.java:142 discards them, so the server goes on with
  those of the encoder before; in a second broadcast likewise, when a picture of an
  encoder still running came first. The comment at 143 says "some initial
  frames(decoder params) may be equal to previous ones": equal, not earlier.
- `MCAudioDevicesRouted`: a SCO link that drops leaves SCO_CONNECTED
  (AppRTCBluetoothManager.java:181), of which line 226 says "audio is now routed via
  BT SCO".
- `MCFrameBuffersClose`: with frames 1 ms apart an array is overwritten while its
  frame waits; AudioEncoder.java:204 says such an array is taken "because it is
  already written to network".
- `MCDirectRtcLeak`: a socket still connecting is opened after `disconnect()`
  (TCPChannelClient.java:228) and never closed; line 87 says "Disconnects the
  client if not already disconnected. This will fire the onTCPClose event."
- `MCPeerConnectionNext`: a new call resets the fields of the one client while
  the close of the call before is queued (PeerConnectionClient.java:311); that
  connection is never disposed of. CallActivity.java:605 says "Disconnect from
  remote resources, dispose of local resources, and exit."
- `MCBroadcastActivityLeft`: a start under way when the screen is left goes on the
  air unseen; `pause()` stops only what has been recorded.

### Known disagreements without a configuration

The models reach these states; the properties are stated around them.

- Streamer: a frame dropped for its time keeps being counted (line 234).
- Video: a message sent through a handler just cleared ends the process
  (TextureMovieEncoder 152, 195, 245, 276); a bitrate change posted before a stop
  makes `onDrawFrame` throw "unknown status" (CameraSurfaceRenderer 270);
  `notifyPausing` before the last draw leaves a null surface texture (95, 218); a
  forced stop can overtake the start (TextureMovieEncoder 418) or leave the GL
  thread waiting for ever (143). A bitrate change made while the view is paused
  is forgotten, as `onSurfaceCreated` (CameraSurfaceRenderer 161) resets the
  status, and a pause right after a stop, before the encoder thread has its
  handler, leaves the encoder running. During the poll of `stopBroadcasting` the
  main thread delivers no camera frame, so a stop by force is the usual one.
- Audio: a normal stop can end the process (AudioEncoder 78 after release,
  AudioRecorderThread 53 with `audioRecord` null), though
  ILiveVideoBroadcaster.java:86 calls it safe in `onPause`; so can a start while
  messages of the broadcast before are queued, as AudioEncoder 49 puts the codec into
  the field before it is configured (50-58) and AudioHandler 33 already points at the
  new encoder, and a failed start, which makes that field null between the tests of
  AudioHandler (45) and its uses (55, 64). AudioHandler reads the field for the thread's state
  (53) and again for the end (55): the end can go to another broadcast's encoder. A stop before the
  recorder records is ignored (78) and its samples go to the next encoder;
  `isRecording` is not reset, so a second stop posts a second end. The comment
  at AudioEncoder 186 says "do not break here"; the code breaks. The rounds of
  the clock are static fields, which an encoder still draining shares with the
  next one.
- Camera: a `MSG_SET_SURFACE_TEXTURE` that was posted for an older texture makes
  `setPreviewTexture` throw, and the handler of the exception releases the new
  camera. A call that waits (`stopPreview`, `release`) on a camera thread that was
  told to quit waits for ever. A pause beside an opening task can make
  the field null over the camera just opened.
- Room server: hanging up before the answer to the join leaves the phone in the
  room (WebSocketRTCClient 117); a connecting WebSocket stays open
  (WebSocketChannelClient 179); `onConnectedToRoomInternal` after a hang-up
  throws (CallActivity 738); an initiator's POSTs are unordered.
- WebRTC session: `removeRemoteIceCandidates` drains the queue before the
  descriptions are set, which the comment at PeerConnectionClient 131-133 rules
  out; local candidates are sent at once. Tasks queued behind a close meet null
  fields (PeerConnectionClient 696, 1138-1146; CallActivity 738, 859). A call
  hidden before the room answers films. The back key can close another call
  than its own.
- Audio devices: the setting that turns the speaker off makes the earpiece the
  default of a device that has none and the assertion at AppRTCAudioManager 333
  ends the call (the setter at 369 asks, the constructor at 184 does not);
  `AssertionHolds` confines it to that case. The news of a link of an earlier attempt
  is taken for that of the present one. The proximity sensor is never started.
- Broadcast activity: a second start in the same activity starts the Thread object
  `checkUpdate` again (353) and ends the process, though the button offers it; a
  line typed before the chat has a channel does so too (`SendmsgTask` catches
  IOException only), and a lost connection noticed after `onDestroy`, as the
  timer outlives the screen and opens a dialog (497-503). A failed start leaves the room
  listed (386). `onStop` deletes the room and nothing adds it again. A channel made
  after `onDestroy` is never closed.
- Chat: lines are overwritten before they are shown, or shown twice; the last one
  read is shown last, or ends the process when it has no two fields: `showUpdate`
  (614-616) takes them without asking and catches nothing (`ChatInOrder`).

## Proofs

| Module | Theorem | From |
|---|---|---|
| `RtmpStreamerProofs` | `TypeCorrect`: `Spec => []TypeOK` | `TimestampsAssumption`, `BoundsAssumption` |
| | `WireOrdered`: `Spec => []WireInTimeOrder` | the same |
| | `MergeImplemented`: `ASSUME MaxSessions <= 1 PROVE Spec => ImplementsMerge` | the same |
| | `QueueCovered`: `Spec => []CountCoversQueue` | the same |
| `EncoderProofs` | `BuffersTyped`, `BuffersKept`: `ASSUME MinGap >= 2 PROVE Spec => []BytesKept` | `BuffersAssumption` |
| | `TimesRight`: `TimedSpec => []TimesRecovered` | `ClockAssumption`, `BuffersAssumption` |
| | `ClockedEncoder`: `TimedSpec => Spec` of FrameBuffers; `ClockedBuffersKept` from it | the same, and `MinGap >= 2` for the latter |
| | `CaptureTypeCorrect` (`CaptureTyped`), `SamplesIntact` (`SampleIntact`), `EndStaysLast` (`EndIsLast`) | `AudioAssumption` |
| | `VideoTypeCorrect` (`VideoTyped`) | `BoundsAssumption` |
| | `EncoderNotLost` (`NoEncoderLost`), `StopIsLast` (`NothingAfterStop`) | the same, and `SingleEncoder` |
| `AudioDevicesProofs` | `DevicesTyped`, `DeviceHeard`, `AttemptsAccounted`, `AssertionOnlyEarpiece`, `NothingLeft` | `Attempts` |
| `CameraProofs` | `TypeCorrect`, `WakeupNotLost` (`NoLostWakeup`), `CameraNotLost` (`NoCameraLost`) | `CameraAssumption` |
| | `CameraGot`: `ASSUME MaxTries >= 1 PROVE Spec => OpenGetsCamera` | the same |
| `BroadcastActivityProofs` | `TypeCorrect`, `LinesInOrder` (`ChatInOrder`), `RoomOnAir` (`RoomListed`) | `BroadcastAssumption` |
| `WebSocketRtcProofs` | `TypeCorrect`, `OnlyRealAlarms` (`NoFalseAlarm`), `CleanEnd` (`LittleLeftBehind`), `SentInOrder` (`Delivered`) | `WebSocketAssumption` |
| `DirectRtcProofs` | `TypeCorrect`, `HeardInOrder` (`InOrder`), `OnlyRealAlarms` (`NoFalseAlarm`) | `IceAssumption` |
| `PeerConnectionProofs` | `PeerTyped`, `ErrorsReach` (`ErrorsHeard`) | `PeerAssumption` |
| | `CallDisposed` (`DisconnectDisposes`), `CameraFollows` (`CaptureFollowsScreen`), `DescriptionSentOnce` (`SentOnce`), `EveryCandidateKept` (`CandidatesKept`) | the same, and `SingleCall` |

**The streamer.** Types are not inductive by themselves: a time on the wire is
one of `Timestamps` or the millisecond after it, and the code moves a frame by
one each time it is equal to the last. `TypeInv` adds that every frame in a list
still has its own time, but for the one in hand, and that a frame is in hand
only when its list is not empty: so a frame moves once at most. `OrderInv` adds
`LastSentBounds`: the last sent time, which the code compares with, is not behind
what is on the wire. The steps follow the actions, one lemma each.

`ImplementsMerge` needs more (`MergeInv`): both lists are sorted and end before the
last received time of their kind (`ListsSorted`); in the last flush the other list
is empty (`FlushIsLast`); the frame in hand is not later than any that waits, nor,
outside the flush, than the last one received of either kind (`HandIsNext`); what
is on the wire is not later than what waits, and `lastSent` is its last
time (`WireIsPast`). Every step of the streamer is then a step of `StreamMerge`
or a stutter under the mapping. The premise, one broadcast per streamer, is the
code's only sound use: a frame of the broadcast before is what
`MCRtmpStreamerStaleFrame` shows with two. `CountCoversQueue` is inductive with the
types, for any number of broadcasts: every step that lowers the count takes a frame
from a list, and `open()`, which sets it to zero whatever waits, puts what waits
into `left`. That a message posted or taken changes the number that wait by at most
one needs the cardinality of a set of positions (`PostedAppend`, `PostedTail`).

**Frame buffers.** `BytesKept` says that what waits is intact; it is not
inductive, because whether an array may be taken is decided from a time
the encoder read before. `BufferInv` relates the clocks of the two threads: the
time the encoder holds is at most the streamer's last sent time, every frame that
waits is later than that time (but for the codec's first packet, at time 0 and
shorter than any frame), frames that wait are `MinGap` apart, and the array of
each is filed under the time of its frame. The premise is `MinGap >= 2`, and
`MCFrameBuffersClose` shows that it cannot be 1: the streamer may move a frame by
one millisecond.

**Audio times.** `ClockInv` says what the three fields stand for: the rounds
counted and the last time taken as unsigned add up to the sample's time in
microseconds. A new sample is in the same round, where the sign stays or comes,
or in the next, where it goes (`NextRound`); that it cannot skip a half
is the assumption on the distance of samples. The uniqueness of quotient and
remainder for a divisor that is not a numeral (`Unique`) is proved first. The
times are then those of the samples (`TimeOfSample`), so every step of
the timed encoder is one of FrameBuffers, whose theorem carries over.

**Audio capture.** For any number of broadcasts, stops, samples, arrays and input
buffers. `Rings`: the last `Slots - 2` samples posted, and the one about to be, are in
their arrays, and what is under way was posted. It is inductive because the array
about to be read into is none of those, which is division again (`SlotsDiffer`:
numbers less than `Slots` apart have different remainders). `Overs`: nothing of a
recorder that was done when a codec was told the end is under way, as
`removeMessages` leaves no sample and that recorder posts none. For the use of a codec
that is not started yet or is released, `Told` says who can have been told the end;
`Opening` and `Closing` assume that none of the four races has taken place (`Clean`).
`Opening`: nothing is under way until the new encoder runs or has failed, and the
message in hand is for the encoder of the broadcast. `Closing`: the ends on the queue
ascend with their broadcasts; the message in hand is for a codec that was not told
the end; and once the current broadcast's was told the queue is empty until the
next start.

**Video encoding.** The types need only that a pause is counted when it begins.
The other two have the premise `SingleEncoder`: at most one start and no bitrate change. They hold then for any
number of pauses, frames and messages, and for a stop of either kind at any
point. `EncoderInv` is the conjunction of what the user's actions leave among the
GL thread's runnables (`Asked`), what the renderer knows of the recording
(`KnownToRenderer`), and the `Life` of the encoder, which is in one of five stages:
there is none yet (`Fresh`); its thread is new or loops and the start was not sent
(`Starting`); a forced stop overtook the start, so the thread will throw
(`Doomed`); the start is the first message (`Pending`); there is one encoder, in
use or left (`Active`). Every quit is behind a stop, or the encoder is already
released (`StopFirst`), so the thread does not leave with a codec. Once a recording
has begun, the GL thread starts no other (`Begun`), whatever pauses and
draws follow. A codec is alive only while no stop has been posted (`Unstopped`): so
the same invariant gives the action property, as what is streamed changes only in a
drain.

The premise is needed. TLC finds `NoEncoderLost` violated with two starts: the
connection is lost, the stop comes before the encoder thread has its handler and is ignored, and the
renderer, told of the second start, no longer knows the encoder that
runs. And with a bitrate change a forced stop
between the release and the new start leaves `stop, start, quit` on the queue: the
thread ends with the codec of that start. (`video_adapt` checks liveness under such a
change.)

**Audio devices.** Every handler but `stop` ends in `updateAudioDeviceState`, so
one lemma (`UpdateKeepsInv`: from any sound state of the Bluetooth manager, with
whatever the handler changed before, the update makes the invariant hold)
carries the proof; each handler then only has to leave the manager sound.
The strengthening has three parts. `ProxyHeld`: a headset is available,
tried or connected only while there is a proxy of the service (the timeout does
nothing without a proxy, and would forget the attempt it belongs to). `Follows`: what is
selected is Bluetooth just when the Bluetooth manager is in SCO_CONNECTED.
`LinkKnown` relates that manager to the link itself, through the broadcasts on their
way: who is connected, or tries with the news of a link queued, has a link up, one
that dropped, or the late news of an earlier attempt; and a link that is up is known
or its news is queued.

**Camera.** `TypeInv` adds to the types that the executor's first task is the one
that runs and that a try is counted before its sleep (`TaskRuns`). `SafeInv` is
what `NoLostWakeup` and `NoCameraLost` rest on: a proxy's queue begins with its
open, which only the opening task can wait for (`OpenIsFirst`); a thread that
blocks has a proxy, and one that releases has marked it (`CallersKnown`); the GL
thread has work only while the UI thread waits for it (`ViewWaits`); the
camera of a marked proxy has its release queued (`ReleasedGivenBack`); and while
no pause overlaps a task, who releases works on the proxy in the field
(`OneReleases`) and a task that replaces the proxy has given its camera back
(`OldGivenBack`). `OpenInv` adds, for `OpenGetsCamera`, what a task that is not
disturbed can rely on: nobody releases beside it, because a pause stays in front of
the GL thread until that thread runs it (`Alone`, which needs that the UI thread
releases only while the screen is left, `AwayKnown`); the first try may find the old
camera still open, but after the sleep every queue is empty, so by `NoCameraLost` and
`OldGivenBack` no camera is open; the OPEN of the second try succeeds, and from
there until the parameters are set the proxy stays open and unmarked (`SecondTry`).
With `MaxTries = 0` TLC finds the property violated: the premise is what the loop of
`openCamera` is for (the code has 3).

**Broadcast activity.** `TypeInv` contains that lines are read in order
(`Ordered`). `ChatSafe` for `ChatInOrder`: the lines that wait in the
looper ascend, each later than the number of entries shown (`LinesWait`), so an
update never shows less than its entry's number; the last line read waits, or no
line does and its update has run (`LastOnItsWay`); the lines sent ascend and the
lines typed that the executor still has follow them (`Follow`). `RoomSafe` for `RoomListed`: `Expected` is what the list
will say once the requests under way are answered in order, and with a single
start it agrees with the state of the button.

**Room server.** `Inv` is a conjunction of ten parts, each about one concern:
the types, what cannot be before the connection (`Early`), the two connections
(`Connection`, `RoomState`), what every error stands for (`Failures`), what is
left behind (`LeftBehind`), which events the activity has (`Entered`), what was
asked (`Asked`), and that registration comes first and bye last on the wire
(`Framing`). `Flow` is the heart of `Delivered`: the messages on the wire, joined
with those chosen from the looper's queue in its order, are what was said.

**Direct call.** `Line` says the same over the whole way from one phone's
activity to the other's peer connection: executor, writing task, socket,
reading thread and the other executor. What was said is cut into
consecutive pieces, one for every queue on the way (`Chain`, `Carries`). Once the
way is cut (the reading thread ended, the socket closed, the room not
connected) the pieces behind the cut are waived, so that what was got stays a
prefix. `Excused`, for `NoFalseAlarm`, says that while the network holds, a close
is on its way before every error. `Types`, `Started`, `Lived` and `Made` are the
facts about the threads and sockets these rest on.

**WebRTC session.** The types need nothing else, and `Errors` (an error of the
client is the activity's, or is on the UI thread's queue to it) carries
`ErrorsHeard` through any number of calls. The other four have the premise
`SingleCall`, one call per process: the client is a singleton and
`createPeerConnectionFactory` of a second call sets the first one's connection to
null without disposing it, which `MCPeerConnectionNext` shows. Under it `Life` says of every stage of a call what can
be on the two queues and what the client still holds; closing comes last there,
so when the queues are empty and the call is over nothing is left. `Screen` adds
that the last of the queued starts and stops is what the activity's phase asks for.
`Desc` follows the two descriptions: each is on its way at most once (`LocalOnce`,
`RemoteOnce`), which of them is first depends on the role (`Sides`, `Turns`), so
`onSetSuccess`, which looks at what the connection holds and not at what was
set, cannot take one for the other; from there the description
is ahead of the candidates on every queue (`Sending`). `Kept`
is the chain of the remote candidates: what the connection was given and what
the client queues is 1, 2, ... (`Got`), the executor's queue has the next ones and the UI
thread's queue the rest (`Run`, `Flow`), those the room kept for its first word
included (`Joins`); a queue that could be drained has an `onSetSuccess` on the
executor that will (`Drained`). None of them is inductive alone: `Kept` needs from
`Desc` that both descriptions cannot be set while no success is under way.

The constants are arbitrary in all of these: any number of frames, times,
broadcasts, attempts, widths of an int and changes of the world. TLC checked the
inductive invariants on the small instances before they were proved.

**Only model-checked.** Every liveness property and everything about ENABLED,
which the prover does not treat: `StopClosesConnection`,
`StopsAndChangesEnd`, `RecordedStopCloses`, `HangUpHeard`, `StopFrees`, `CallEnds`, `HeadsetFollowed` and
`LossStops`. Every invariant, action
property and refinement of a passing run is a theorem. Induction over data
and RECURSIVE operators are out of the prover's reach as well; none of the modules
with theorems has one. What a queue holds is therefore always said with
positions (an increasing choice of positions, a cut into pieces) and never with a
filter or a flattening defined by recursion.

## Not modelled, and why

- The bytes of frames, SDP texts and JSON: payloads are opaque to what is
  checked. Parsing is reduced to its outcomes (accepted, rejected).
- The codecs, the RTMP library, ExoPlayer and WebRTC are environments: they may
  answer, fail or stay silent in any order their interface allows.
- Open chat: the actors of the live chat with a sender thread for every message;
  what that changes is the mutant `SendmsgTask_Parallel` of BroadcastActivity.
- Two phones of `WebSocketRtc` with a room server: the states of two clients, their
  requests and a server are too many for TLC; `DirectRtc` has both ends.
- The FLV extractor and the choice of a capture format are sequential code over
  bytes and floating-point numbers.
- Drawing, shaders, screens, preferences, statistics shown to the user: no
  protocol, no state that another part depends on.
- Single HTTP requests (login, room list, push messages): nothing survives the
  screen that sent them.
- `selectAudioDevice`, `setDefaultAudioDevice` and the proximity sensor are never
  called or started by the program.
- `library/` (yasea with x264, libyuv and the glue `libenc`): the only C and C++
  of the repository, some 130 000 lines of it, third-party, and not included by
  `settings.gradle`: no part of the application is built with it. A share of
  lines counted over that code alone is therefore zero; every definition here is of the
  Java code.
- Unity's and other generated code.

PROJECT.json has the status of every component, and every hazard with the
properties about it. Four hazards have no property, because the code goes wrong there or
is out of reach: the initiator's unordered POSTs, the open chat's unordered senders, the
SPS/PPS after a bitrate change (violation shown above), and the room of a failed start.
Others have one that names the failing case as its exception; their notes say so: a pause
beside an opening task, hanging up before the join is answered, a dropped SCO link, a
second call on the same client.

## What is left to prove

Nothing that a run checks and the prover can treat. Two theorems could say more than they
do: `ImplementsMerge` for several broadcasts of one streamer and `NoEncoderLost` for
several starts. Both are false for this code, as said above: a stop leaves frames
in the lists, and a stop before the encoder has its handler is ignored.
