------------------------------- MODULE Camera -------------------------------
(***************************************************************************)
(* The camera of the broadcasting service: LiveVideoBroadcaster opens,     *)
(* changes, pauses and configures it from the UI thread, the thread of the *)
(* AsyncTasks and the renderer's (GL) thread, all through the static field *)
(* sCameraProxy, which no lock protects. A CameraProxy is a camera and a   *)
(* thread with a queue of messages; a caller that wants an answer closes   *)
(* the proxy's condition variable, sends a message and blocks until the    *)
(* camera thread opens it, which it does after EVERY message.              *)
(*                                                                         *)
(* The device itself is the operating system's: one holder at a time, and  *)
(* another application may have it (busy). A SurfaceTexture is a number,   *)
(* and one that was released makes setPreviewTexture fail.                 *)
(***************************************************************************)
EXTENDS Naturals, Sequences, FiniteSets

CONSTANTS
  Proxies,    \* bound: identities of CameraProxy objects; garbage ones are reused
  MaxTries,   \* openCamera tries again while tryCount <= MaxTries (3 in the code)
  MaxSurface, \* bound: SurfaceTextures in use at a time
  MaxMoves    \* bound: what the user and other applications do

ASSUME CameraAssumption ==
  /\ Proxies \subseteq Nat \ {0}
  /\ MaxTries \in Nat /\ MaxMoves \in Nat /\ MaxSurface \in Nat \ {0}

Threads == {"ui", "async", "gl"}
None == 0

VARIABLES
  sCameraProxy,    \* the static field: a proxy or None
  sCameraReleased,
  camera,          \* [p] the field _camera and its device: "none", "open" or "released"
  released,        \* [p] CameraProxy.released
  signal,          \* [p] the condition variable is open
  messages,        \* [p] queue of the camera thread
  quitting,        \* [p] its looper was told to quit
  pc, mine,        \* [t] where a thread is, the proxy it works on
  tasks, tryCount, \* the serial executor, whose head is running; openCamera's tries
  posts,           \* messages to the UI thread: onPostExecute, MSG_SET_SURFACE_TEXTURE
  events,          \* runnables queued for the GL thread
  surface,         \* the renderer's SurfaceTexture, or None
  texture,         \* the one handleSetSurfaceTexture was given, None for setResolution
  glPaused,        \* the GLSurfaceView is paused or not visible
  away, finishing, \* the screen was left; by finishing it
  sizes,           \* choosenPreviewsSizeList is known
  crashed,         \* a NullPointerException reached the top of the UI thread
  busy,            \* another application has the camera
  moves,           \* counts towards MaxMoves
  overlapped,      \* history: releaseCamera ran beside a task
  disturbed        \* history: during this task the camera was busy or failed, or the view paused

fieldVars == <<sCameraProxy, sCameraReleased>>
proxyVars == <<camera, released, signal, messages, quitting>>
callVars == <<pc, mine>>
taskVars == <<tasks, tryCount>>
glVars == <<events, surface, glPaused>>
screenVars == <<texture, away, finishing, sizes, crashed>>
historyVars == <<overlapped, disturbed>>
vars == <<fieldVars, proxyVars, callVars, taskVars, posts, glVars, screenVars, busy,
          moves, historyVars>>

Message(what, st) == [what |-> what, st |-> st]
(* A call nobody waits for, or stopPreview; several sent in a row are one. *)
Call == Message("CALL", None)

Blocked == {"opening", "releasing", "stopping"}    \* in _signal.block()
Pcs == Blocked \cup
  {"idle", "check", "release", "quit", "forget", "construct", "assign", "available",
   "sleep", "params", "configure", "pausing", "changing", "stop", "restart"}

TypeOK ==
  /\ sCameraProxy \in Proxies \cup {None}
  /\ camera \in [Proxies -> {"none", "open", "released"}]
  /\ messages \in [Proxies ->
       Seq([what : {"OPEN", "CALL", "TEXTURE", "RELEASE"}, st : 0..MaxSurface])]
  /\ {released, signal, quitting} \subseteq [Proxies -> BOOLEAN]
  /\ pc \in [Threads -> Pcs]
  /\ mine \in [Threads -> Proxies \cup {None}]
  /\ tasks \in Seq({"open", "change"})
  /\ moves \in 0..MaxMoves /\ tryCount \in 0..(MaxTries + 1)
  /\ posts \in Seq([what : {"open", "change", "surface"}, ok : BOOLEAN, st : 0..MaxSurface])
  /\ events \in Seq({"pause", "notify"})
  /\ {surface, texture} \subseteq 0..MaxSurface
  /\ {sCameraReleased, glPaused, away, finishing, sizes, crashed, busy, overlapped, disturbed}
       \subseteq BOOLEAN

Init ==
  /\ sCameraProxy = None /\ sCameraReleased = FALSE
  /\ camera = [p \in Proxies |-> "none"]
  /\ messages = [p \in Proxies |-> <<>>]
  /\ released = [p \in Proxies |-> FALSE]
  /\ signal = released /\ quitting = released
  /\ pc = [t \in Threads |-> "idle"]
  /\ mine = [t \in Threads |-> None]
  /\ tasks = <<"open">> /\ tryCount = 0      \* onServiceConnected after onStart
  /\ posts = <<>> /\ events = <<>>
  /\ surface = None /\ texture = None /\ glPaused = TRUE
  /\ away = FALSE /\ finishing = FALSE /\ sizes = FALSE /\ crashed = FALSE
  /\ busy = FALSE /\ moves = 0
  /\ overlapped = FALSE /\ disturbed = FALSE

-----------------------------------------------------------------------------
Go(t, where) == pc' = [pc EXCEPT ![t] = where]

(* A looper that quits takes no message. *)
SendTo(p, list) ==
  messages' = IF quitting[p] THEN messages ELSE [messages EXCEPT ![p] = @ \o list]

(* _signal.close(), a message, _signal.block(). *)
SendAndBlock(t, p, message, blocked) ==
  /\ signal' = [signal EXCEPT ![p] = FALSE]
  /\ SendTo(p, <<message>>)
  /\ mine' = [mine EXCEPT ![t] = p]
  /\ Go(t, blocked)

(* The signal was opened, by the answer or by that of an earlier message. *)
Unblock(t) ==
  /\ pc[t] \in Blocked /\ signal[mine[t]]
  /\ Go(t, CASE pc[t] = "opening" -> "assign"
             [] pc[t] = "releasing" -> "quit"
             [] pc[t] = "stopping" -> "restart")
  /\ UNCHANGED <<fieldVars, proxyVars, mine, taskVars, posts, glVars, screenVars,
                 busy, historyVars>>

-----------------------------------------------------------------------------
(* releaseCamera(), on any of the three threads; done is where the thread  *)
(* goes on afterwards.                                                     *)

ReleaseCheck(t, done) ==
  /\ pc[t] = "check"
  /\ Go(t, IF sCameraProxy # None THEN "release" ELSE done)
  /\ UNCHANGED <<fieldVars, proxyVars, mine, taskVars, posts, glVars, screenVars,
                 busy, historyVars>>

Releasing(t) ==
  pc[t] \in {"releasing", "quit", "forget"}

(* sCameraProxy is read again: another thread may have made it null, and that
   NullPointerException is caught. *)
ReleaseSend(t, done) ==
  /\ pc[t] = "release"
  /\ IF sCameraProxy = None
     THEN Go(t, done) /\ UNCHANGED <<released, signal, messages, mine, overlapped>>
     ELSE /\ released' = [released EXCEPT ![sCameraProxy] = TRUE]
          /\ SendAndBlock(t, sCameraProxy, Message("RELEASE", None), "releasing")
          /\ overlapped' = (overlapped \/ IF t = "async" THEN \E u \in {"ui", "gl"} : Releasing(u)
                                         ELSE pc["async"] # "idle")
  /\ UNCHANGED <<fieldVars, camera, quitting, taskVars, posts, glVars, screenVars, busy,
                 disturbed>>

ReleaseQuit(t) ==
  /\ pc[t] = "quit"
  /\ quitting' = [quitting EXCEPT ![mine[t]] = TRUE]
  /\ Go(t, "forget")
  /\ UNCHANGED <<fieldVars, camera, released, signal, messages, mine, taskVars, posts,
                 glVars, screenVars, busy, historyVars>>

ReleaseForget(t, done) ==
  /\ pc[t] = "forget"
  /\ sCameraProxy' = None /\ sCameraReleased' = TRUE
  /\ mine' = [mine EXCEPT ![t] = None]
  /\ Go(t, done)
  /\ UNCHANGED <<proxyVars, taskVars, posts, glVars, screenVars, busy, historyVars>>

ReleaseCamera(t, done) ==
  ReleaseCheck(t, done) \/ ReleaseSend(t, done) \/ ReleaseQuit(t) \/ ReleaseForget(t, done)

-----------------------------------------------------------------------------
(* Mutant: _signal.open() stands inside the try block. *)
OpenSignal_InTry(p, throws) == signal' = [signal EXCEPT ![p] = @ \/ ~throws]

(* _signal.open() follows the try block: a call that threw lets its caller go too. *)
OpenSignal(p, throws) == signal' = [signal EXCEPT ![p] = TRUE]

(* The camera thread of proxy p: one message, then _signal.open(). A call on a
   camera that was released, or with a texture that was, throws; handleException
   then gives the camera back and marks the proxy released. *)
HandleMessage(p) ==
  /\ messages[p] # <<>>
  /\ LET m == Head(messages[p])
         free == ~busy /\ \A q \in Proxies : camera[q] # "open"
         throws == /\ m.what \in {"CALL", "TEXTURE"}
                   /\ camera[p] # "open" \/ (m.what = "TEXTURE" /\ m.st # surface)
     IN /\ camera' = [camera EXCEPT ![p] =
              CASE m.what = "OPEN" -> IF free THEN "open" ELSE "none"
                [] @ = "open" /\ (m.what = "RELEASE" \/ throws) -> "released"
                [] OTHER -> @]
        /\ released' = [released EXCEPT ![p] = @ \/ (throws /\ camera[p] # "none")]
        /\ disturbed' = (disturbed \/ (m.what = "OPEN" /\ busy)
                         \/ (m.what = "TEXTURE" /\ throws /\ pc["async"] # "idle"))
        /\ OpenSignal(p, throws)
  /\ messages' = [messages EXCEPT ![p] = Tail(@)]
  /\ UNCHANGED <<fieldVars, quitting, callVars, taskVars, posts, glVars, screenVars, busy,
                 overlapped>>

-----------------------------------------------------------------------------
(* The thread of the AsyncTasks: doInBackground of openCamera and changeCamera. *)

Opens == Head(tasks) = "open"

(* Mutant: openCamera constructs without releasing what is open. *)
StartTask_NoRelease ==
  /\ pc["async"] = "idle" /\ tasks # <<>>
  /\ sCameraReleased' = (sCameraReleased /\ ~Opens)
  /\ Go("async", IF Opens THEN "construct" ELSE "check")
  /\ disturbed' = (away \/ events # <<>> \/ pc["gl"] # "idle")
  /\ UNCHANGED <<sCameraProxy, proxyVars, mine, taskVars, posts, glVars, screenVars, busy,
                 overlapped>>

StartTask ==
  /\ pc["async"] = "idle" /\ tasks # <<>>
  /\ sCameraReleased' = (sCameraReleased /\ ~Opens)
  /\ Go("async", "check")
  /\ disturbed' = (away \/ events # <<>> \/ pc["gl"] # "idle")
  /\ UNCHANGED <<sCameraProxy, proxyVars, mine, taskVars, posts, glVars, screenVars, busy,
                 overlapped>>

(* A CameraProxy that nothing refers to, as good as a new one. *)
Unused(p) ==
  /\ p # sCameraProxy /\ camera[p] # "open" /\ messages[p] = <<>>
  /\ \A t \in Threads : mine[t] # p

(* new CameraProxy(id): OPEN_CAMERA is sent and waited for. *)
Construct ==
  /\ pc["async"] = "construct"
  /\ \E p \in Proxies :
        /\ Unused(p) /\ \A q \in Proxies : Unused(q) => p <= q
        /\ camera' = [camera EXCEPT ![p] = "none"]
        /\ released' = [released EXCEPT ![p] = FALSE]
        /\ quitting' = [quitting EXCEPT ![p] = FALSE]
        /\ signal' = [signal EXCEPT ![p] = FALSE]
        /\ messages' = [messages EXCEPT ![p] = <<Message("OPEN", None)>>]
        /\ mine' = [mine EXCEPT !["async"] = p]
  /\ Go("async", "opening")
  /\ UNCHANGED <<fieldVars, taskVars, posts, glVars, screenVars, busy, historyVars>>

(* The constructor ends by sending SET_ERROR_CALLBACK, which nobody waits for. *)
Assign ==
  /\ pc["async"] = "assign"
  /\ LET p == mine["async"]
     IN /\ SendTo(p, IF camera[p] # "none" THEN <<Call>> ELSE <<>>)
        /\ sCameraProxy' = p
  /\ mine' = [mine EXCEPT !["async"] = None]
  /\ Go("async", IF Opens THEN "available" ELSE "params")
  /\ UNCHANGED <<sCameraReleased, camera, released, signal, quitting, taskVars, posts,
                 glVars, screenVars, busy, historyVars>>

IsCameraAvailable(p) == camera[p] # "none" /\ ~released[p]

(* doInBackground ends; ok is whether it returns the parameters. *)
EndTask(ok) ==
  /\ posts' = Append(posts, [what |-> Head(tasks), ok |-> ok, st |-> None])
  /\ tasks' = Tail(tasks)
  /\ tryCount' = 0 /\ disturbed' = FALSE
  /\ Go("async", "idle")

(* A pause made sCameraProxy null: the task ends by a caught exception. *)
TaskFails ==
  /\ pc["async"] \in {"available", "params"} /\ sCameraProxy = None
  /\ EndTask(FALSE)
  /\ UNCHANGED <<fieldVars, proxyVars, mine, glVars, screenVars, busy, overlapped>>

(* openCamera: another try after a second unless the camera is available. *)
Available ==
  /\ pc["async"] = "available" /\ sCameraProxy # None
  /\ IF IsCameraAvailable(sCameraProxy)
     THEN Go("async", "params") /\ UNCHANGED tryCount
     ELSE Go("async", "sleep") /\ tryCount' = tryCount + 1
  /\ UNCHANGED <<fieldVars, proxyVars, mine, tasks, posts, glVars, screenVars, busy,
                 historyVars>>

(* Mutant: tryCount is compared after the next try. *)
Sleep_OneMore ==
  /\ pc["async"] = "sleep"
  /\ \A p \in Proxies : messages[p] = <<>>
  /\ Go("async", IF tryCount <= MaxTries + 1 THEN "construct" ELSE "params")
  /\ UNCHANGED <<fieldVars, proxyVars, mine, taskVars, posts, glVars, screenVars, busy,
                 historyVars>>

(* Mutant: openCamera, like changeCamera, gives up when the camera is not there. *)
Sleep_GivesUp ==
  /\ pc["async"] = "sleep"
  /\ \A p \in Proxies : messages[p] = <<>>
  /\ Go("async", "params")
  /\ UNCHANGED <<fieldVars, proxyVars, mine, taskVars, posts, glVars, screenVars, busy,
                 historyVars>>

(* Thread.sleep(1000): long enough for the camera threads to empty their queues. *)
Sleep ==
  /\ pc["async"] = "sleep"
  /\ \A p \in Proxies : messages[p] = <<>>
  /\ Go("async", IF tryCount <= MaxTries THEN "construct" ELSE "params")
  /\ UNCHANGED <<fieldVars, proxyVars, mine, taskVars, posts, glVars, screenVars, busy,
                 historyVars>>

(* openCamera looks whether the camera is still available, changeCamera only
   whether the constructor read parameters from it. *)
Params ==
  /\ pc["async"] = "params" /\ sCameraProxy # None
  /\ IF IF Opens THEN IsCameraAvailable(sCameraProxy) ELSE camera[sCameraProxy] # "none"
     THEN Go("async", "configure") /\ UNCHANGED <<sCameraProxy, taskVars, posts, disturbed>>
     ELSE EndTask(FALSE) /\ sCameraProxy' = IF Opens THEN None ELSE sCameraProxy
  /\ UNCHANGED <<sCameraReleased, proxyVars, mine, glVars, screenVars, busy, overlapped>>

(* setCameraParameters: the orientation and the parameters. openCamera has its
   result already should sCameraProxy be null here, changeCamera returns none. *)
Configure ==
  /\ pc["async"] = "configure"
  /\ IF sCameraProxy # None THEN SendTo(sCameraProxy, <<Call>>) ELSE UNCHANGED messages
  /\ EndTask(Opens \/ sCameraProxy # None)
  /\ sizes' = TRUE
  /\ UNCHANGED <<fieldVars, camera, released, signal, quitting, mine, glVars, texture,
                 away, finishing, crashed, busy, overlapped>>

Async ==
  \/ StartTask \/ ReleaseCamera("async", "construct") \/ Construct \/ Assign
  \/ TaskFails \/ Available \/ Sleep \/ Params \/ Configure

-----------------------------------------------------------------------------
(* The renderer's thread runs the queued runnables, even while it is paused. *)
RunEvent ==
  /\ pc["gl"] = "idle" /\ events # <<>>
  /\ events' = Tail(events)
  /\ surface' = None                                      \* notifyPausing
  /\ Go("gl", IF Head(events) = "pause" /\ ~sCameraReleased THEN "check" ELSE "idle")
  /\ disturbed' = (pc["async"] # "idle")
  /\ UNCHANGED <<fieldVars, proxyVars, mine, taskVars, posts, glPaused, screenVars, busy,
                 overlapped>>

SurfacesInUse ==
  {texture} \cup {posts[i].st : i \in DOMAIN posts}
    \cup UNION {{messages[p][i].st : i \in DOMAIN messages[p]} : p \in Proxies}

(* onSurfaceCreated, in a new EGL context: a SurfaceTexture for the UI thread. *)
OnSurfaceCreated ==
  /\ ~glPaused /\ ~away /\ surface = None
  /\ pc["gl"] = "idle" /\ events = <<>> /\ pc["ui"] \notin {"pausing", "changing"}
  /\ \E s \in 1..MaxSurface \ SurfacesInUse :
       /\ surface' = s
       /\ posts' = Append(posts, [what |-> "surface", ok |-> TRUE, st |-> s])
  /\ UNCHANGED <<fieldVars, proxyVars, callVars, taskVars, events, glPaused, screenVars, busy,
                 historyVars>>

Gl == RunEvent \/ OnSurfaceCreated \/ ReleaseCamera("gl", "idle")

-----------------------------------------------------------------------------
(* The UI thread. What the user does comes while it is idle. *)

UiIdle == pc["ui"] = "idle"

(* queueEvent of a runnable and mGLView.onPause(), which waits for the GL thread. *)
PauseView(event, why) ==
  /\ events' = Append(events, event)
  /\ Go("ui", why)

(* The user leaves the screen, for a while or by finishing it: pause(). *)
Leave(finish) ==
  /\ UiIdle /\ ~away
  /\ away' = TRUE /\ finishing' = finish
  /\ PauseView("pause", "pausing")
  /\ UNCHANGED <<fieldVars, proxyVars, mine, taskVars, posts, surface, glPaused, texture,
                 sizes, crashed, busy, historyVars>>

(* changeCamera() up to onPreExecute. *)
ChangeCamera ==
  /\ UiIdle /\ ~away /\ sCameraProxy # None
  /\ PauseView("notify", "changing")
  /\ UNCHANGED <<fieldVars, proxyVars, mine, taskVars, posts, surface, glPaused, screenVars,
                 busy, historyVars>>

(* onPause returns; a change of camera is given to the executor. *)
ViewPaused ==
  /\ pc["ui"] \in {"pausing", "changing"} /\ events = <<>> /\ pc["gl"] = "idle"
  /\ glPaused' = TRUE
  /\ tasks' = IF pc["ui"] = "changing" THEN Append(tasks, "change") ELSE tasks
  /\ Go("ui", "idle")
  /\ UNCHANGED <<fieldVars, proxyVars, mine, tryCount, posts, events, surface,
                 screenVars, busy, historyVars>>

(* The screen comes back, or a new one is made after a finished one: the
   service is connected, and openCamera hides the view until it is done. What was
   posted before the return is handled before it. *)
OpenCamera ==
  /\ UiIdle /\ away /\ posts = <<>>
  /\ away' = FALSE /\ finishing' = FALSE
  /\ glPaused' = TRUE
  /\ tasks' = Append(tasks, "open")
  /\ UNCHANGED <<fieldVars, proxyVars, callVars, tryCount, posts, events, surface, texture,
                 sizes, crashed, busy, historyVars>>

(* onPostExecute of openCamera and of changeCamera: only the first looks whether
   the screen is finishing. *)
OnPostExecute ==
  /\ UiIdle /\ posts # <<>> /\ Head(posts).what # "surface"
  /\ LET post == Head(posts)
         late == post.what = "open" /\ finishing
     IN /\ Go("ui", IF late THEN "check" ELSE "idle")
        /\ glPaused' = (glPaused /\ (late \/ ~post.ok
                          \/ (post.what = "open" /\ sCameraProxy = None)))
  /\ posts' = Tail(posts)
  /\ UNCHANGED <<fieldVars, proxyVars, mine, taskVars, events, surface, screenVars,
                 busy, historyVars>>

(* handleSetSurfaceTexture: stop the preview, then start it in the new texture. *)
HandleSetSurfaceTexture ==
  /\ UiIdle /\ posts # <<>> /\ Head(posts).what = "surface"
  /\ posts' = Tail(posts)
  /\ IF sCameraProxy # None /\ ~finishing
     THEN Go("ui", "stop") /\ texture' = Head(posts).st
     ELSE UNCHANGED <<pc, texture>>
  /\ UNCHANGED <<fieldVars, proxyVars, mine, taskVars, glVars, away, finishing, sizes,
                 crashed, busy, historyVars>>

(* setResolution, from the dialog that is shown once the sizes are known: it
   does not expect the camera, or its parameters, to be missing. *)
SetResolution ==
  /\ UiIdle /\ ~away /\ sizes
  /\ IF sCameraProxy # None /\ camera[sCameraProxy] # "none"
     THEN Go("ui", "stop") /\ UNCHANGED crashed
     ELSE crashed' = TRUE /\ UNCHANGED pc
  /\ UNCHANGED <<fieldVars, proxyVars, mine, taskVars, posts, glVars, texture, away,
                 finishing, sizes, busy, historyVars>>

(* stopPreview() waits, then the new texture or parameters and startPreview().
   sCameraProxy is read at each call. *)
StopPreview ==
  /\ pc["ui"] = "stop"
  /\ IF sCameraProxy # None
     THEN SendAndBlock("ui", sCameraProxy, Call, "stopping") /\ UNCHANGED crashed
     ELSE crashed' = TRUE /\ UNCHANGED <<signal, messages, callVars>>
  /\ UNCHANGED <<fieldVars, camera, released, quitting, taskVars, posts, glVars, texture,
                 away, finishing, sizes, busy, historyVars>>

StartPreview ==
  /\ pc["ui"] = "restart"
  /\ IF sCameraProxy # None
     THEN /\ SendTo(sCameraProxy,
               <<IF texture = None THEN Call ELSE Message("TEXTURE", texture)>>)
          /\ UNCHANGED crashed
     ELSE crashed' = TRUE /\ UNCHANGED messages
  /\ mine' = [mine EXCEPT !["ui"] = None]
  /\ texture' = None
  /\ Go("ui", "idle")
  /\ UNCHANGED <<fieldVars, camera, released, signal, quitting, taskVars, posts,
                 glVars, away, finishing, sizes, busy, historyVars>>

UiTask ==
  \/ ViewPaused \/ OnPostExecute \/ HandleSetSurfaceTexture \/ StopPreview \/ StartPreview
  \/ ReleaseCamera("ui", "idle")

User == (\E finish \in BOOLEAN : Leave(finish)) \/ ChangeCamera \/ OpenCamera \/ SetResolution

(* Another application takes the camera while it is free, and gives it back. *)
OtherApplication ==
  /\ \A p \in Proxies : camera[p] # "open"
  /\ busy' = ~busy
  /\ UNCHANGED <<fieldVars, proxyVars, callVars, taskVars, posts, glVars, screenVars,
                 historyVars>>

(* Nothing runs once the process has crashed. *)
Work ==
  /\ ~crashed /\ UNCHANGED moves
  /\ \/ Async \/ Gl \/ UiTask
     \/ \E t \in Threads : Unblock(t)
     \/ \E p \in Proxies : HandleMessage(p)

Moves ==
  /\ ~crashed /\ moves < MaxMoves /\ moves' = moves + 1
  /\ User \/ OtherApplication

Next == Work \/ Moves

Spec == Init /\ [][Next]_vars

-----------------------------------------------------------------------------
(* A thread blocked on a proxy has an answer to come (CameraProxy.block after
   close and send): the signal is open, or a message is queued whose handling
   opens it. Only a caller that came after quitSafely waits for nothing. *)
NoLostWakeup ==
  \A t \in Threads : pc[t] \in Blocked =>
     signal[mine[t]] \/ messages[mine[t]] # <<>> \/ quitting[mine[t]]

ReleaseSent(p) == \E i \in DOMAIN messages[p] : messages[p][i].what = "RELEASE"

(* An open camera is in sCameraProxy, or being put there, or its release is on
   the way: nothing else could give it back before the process dies. The one
   exception is a pause that releases while a task opens: the slower thread
   makes the field null over the other's new camera. *)
NoCameraLost ==
  \A p \in Proxies : camera[p] = "open" =>
     p = sCameraProxy \/ mine["async"] = p \/ ReleaseSent(p) \/ overlapped

(* openCamera, which tries again, ends with a camera unless the view was paused,
   the camera was busy or got a released texture, or a camera was lost: that release() may return before
   the old camera is given back costs a second and never the camera. *)
OpenGetsCamera ==
  [][ pc["async"] # "idle" /\ pc'["async"] = "idle" /\ Opens =>
        posts'[Len(posts')].ok \/ disturbed \/ overlapped ]_vars

(* ILiveVideoBroadcaster.pause(): "Pauses and releases the camera, it is safe to
   call this function in OnPause of the activity". When a pause that no task runs
   beside has returned, the camera is given back, or the message is on its way. *)
PauseReleases ==
  [][ pc["ui"] = "pausing" /\ pc'["ui"] = "idle" /\ tasks = <<>> /\ posts = <<>> =>
        \A p \in Proxies : camera[p] = "open" => ReleaseSent(p) ]_vars
=============================================================================
