---------------------------- MODULE CameraProofs ----------------------------
(* Theorems about Camera, for every number of proxies, tries, surfaces and *)
(* moves.                                                                  *)
EXTENDS Camera, SequenceTheorems, TLAPS

Sendable == [what : {"OPEN", "CALL", "TEXTURE", "RELEASE"}, st : 0..MaxSurface]
Posts == [what : {"open", "change", "surface"}, ok : BOOLEAN, st : 0..MaxSurface]

(* The types, by the groups of variables an action leaves alone.           *)
FieldsOK == sCameraProxy \in Proxies \cup {None} /\ sCameraReleased \in BOOLEAN
ProxiesOK ==
  /\ camera \in [Proxies -> {"none", "open", "released"}]
  /\ released \in [Proxies -> BOOLEAN]
  /\ signal \in [Proxies -> BOOLEAN]
  /\ messages \in [Proxies -> Seq(Sendable)]
  /\ quitting \in [Proxies -> BOOLEAN]
CallsOK == pc \in [Threads -> Pcs] /\ mine \in [Threads -> Proxies \cup {None}]
TasksOK == tasks \in Seq({"open", "change"}) /\ tryCount \in 0..(MaxTries + 1)
PostsOK == posts \in Seq(Posts)
GlOK == events \in Seq({"pause", "notify"}) /\ surface \in 0..MaxSurface /\ glPaused \in BOOLEAN
ScreenOK == /\ texture \in 0..MaxSurface /\ away \in BOOLEAN /\ finishing \in BOOLEAN
            /\ sizes \in BOOLEAN /\ crashed \in BOOLEAN
HistoryOK == overlapped \in BOOLEAN /\ disturbed \in BOOLEAN

(* What makes them inductive: the executor's head is the task that runs,   *)
(* and a try is counted before the sleep after it.                         *)
TaskRuns ==
  /\ pc["async"] # "idle" => tasks # <<>>
  /\ pc["async"] \notin {"sleep", "params", "configure"} => tryCount <= MaxTries

TypeInv ==
  /\ FieldsOK /\ ProxiesOK /\ CallsOK /\ TasksOK /\ PostsOK /\ GlOK /\ ScreenOK
  /\ busy \in BOOLEAN /\ moves \in 0..MaxMoves /\ HistoryOK
  /\ TaskRuns

LEMMA TypeInit == Init => TypeInv
<1> SUFFICES ASSUME Init PROVE TypeInv
  OBVIOUS
<1>1. FieldsOK
  BY DEF Init, FieldsOK
<1>2. ProxiesOK
  <2>1. /\ camera = [p \in Proxies |-> "none"] /\ messages = [p \in Proxies |-> <<>>]
        /\ released = [p \in Proxies |-> FALSE] /\ signal = [p \in Proxies |-> FALSE]
        /\ quitting = [p \in Proxies |-> FALSE]
    BY DEF Init
  <2>2. [p \in Proxies |-> FALSE] \in [Proxies -> BOOLEAN]
    BY ZenonT(10)
  <2> QED BY <2>1, <2>2 DEF ProxiesOK
<1>3. CallsOK
  BY DEF Init, CallsOK, Pcs
<1>4. PostsOK /\ TasksOK
  BY CameraAssumption DEF Init, PostsOK, TasksOK
<1>5. GlOK
  BY CameraAssumption DEF Init, GlOK, None
<1>6. ScreenOK
  <2>1. texture \in 0..MaxSurface
    BY CameraAssumption DEF Init, None
  <2>2. {away, finishing, sizes, crashed} \subseteq BOOLEAN
    BY DEF Init
  <2> QED BY <2>1, <2>2 DEF ScreenOK
<1>7. HistoryOK /\ busy \in BOOLEAN
  BY DEF Init, HistoryOK
<1>8. moves \in 0..MaxMoves /\ TaskRuns
  BY CameraAssumption DEF Init, TaskRuns, Threads
<1> QED BY <1>1, <1>2, <1>3, <1>4, <1>5, <1>6, <1>7, <1>8 DEF TypeInv

LEMMA TypesAgree == TypeInv => TypeOK
BY DEF TypeInv, TypeOK, FieldsOK, ProxiesOK, CallsOK, TasksOK, PostsOK, GlOK, ScreenOK, HistoryOK,
       Sendable, Posts

(* Variables an action leaves alone keep their types.                      *)
LEMMA SameFields == FieldsOK /\ UNCHANGED fieldVars => FieldsOK'
BY DEF FieldsOK, fieldVars
LEMMA SameProxies == ProxiesOK /\ UNCHANGED proxyVars => ProxiesOK'
BY DEF ProxiesOK, proxyVars
LEMMA SameTasks == TasksOK /\ UNCHANGED taskVars => TasksOK'
BY DEF TasksOK, taskVars
LEMMA SamePosts == PostsOK /\ UNCHANGED posts => PostsOK'
BY DEF PostsOK
LEMMA SameGl == GlOK /\ UNCHANGED glVars => GlOK'
BY DEF GlOK, glVars
LEMMA SameScreen == ScreenOK /\ UNCHANGED screenVars => ScreenOK'
BY DEF ScreenOK, screenVars
LEMMA SameHistory == HistoryOK /\ UNCHANGED historyVars => HistoryOK'
BY DEF HistoryOK, historyVars

(* A thread's step to another place, and what it sends, keep their types.  *)
LEMMA GoTyped ==
  ASSUME NEW t \in Threads, NEW where \in Pcs, pc \in [Threads -> Pcs], Go(t, where)
  PROVE  /\ pc' \in [Threads -> Pcs] /\ pc'[t] = where
         /\ \A u \in Threads : u # t => pc'[u] = pc[u]
BY DEF Go

LEMMA SendTyped ==
  ASSUME messages \in [Proxies -> Seq(Sendable)], NEW p, NEW list \in Seq(Sendable),
         SendTo(p, list)
  PROVE  messages' \in [Proxies -> Seq(Sendable)]
<1>1. CASE quitting[p]
  BY <1>1 DEF SendTo
<1>2. CASE ~quitting[p] /\ p \in Proxies
  BY <1>2, ConcatProperties DEF SendTo
<1>3. CASE ~quitting[p] /\ p \notin Proxies
  BY <1>3 DEF SendTo
<1> QED BY <1>1, <1>2, <1>3

LEMMA MessageTyped ==
  ASSUME NEW what \in {"OPEN", "CALL", "TEXTURE", "RELEASE"}, NEW st \in 0..MaxSurface
  PROVE  Message(what, st) \in Sendable /\ <<Message(what, st)>> \in Seq(Sendable)
BY DEF Message, Sendable

(* A step that leaves the executor's thread and the tasks it runs alone.   *)
LEMMA SameRun ==
  ASSUME TypeInv, NEW t \in Threads \ {"async"}, NEW where \in Pcs, Go(t, where),
         UNCHANGED taskVars
  PROVE  TaskRuns'
BY DEF TypeInv, TaskRuns, CallsOK, Go, taskVars, Threads

LEMMA TypeUnblock ==
  ASSUME TypeInv, NEW t \in Threads, Unblock(t), UNCHANGED moves
  PROVE  TypeInv'
<1>1. PICK where \in {"assign", "quit", "restart"} : Go(t, where) /\ pc[t] # "idle"
  BY DEF Unblock, Blocked
<1>2. CallsOK' /\ TaskRuns'
  BY <1>1 DEF TypeInv, CallsOK, TaskRuns, Unblock, Go, Pcs, taskVars, Blocked
<1> QED BY <1>2, SameFields, SameProxies, SameTasks, SamePosts, SameGl, SameScreen, SameHistory
        DEF TypeInv, Unblock

(* The executor's thread goes on with the task it runs.                    *)
LEMMA AsyncRun ==
  ASSUME TypeInv, NEW where \in Pcs, Go("async", where),
         pc["async"] \notin {"idle", "sleep", "params", "configure"}, UNCHANGED taskVars
  PROVE  TaskRuns'
BY DEF TypeInv, TaskRuns, CallsOK, Go, taskVars, Threads

LEMMA TypeSendAndBlock ==
  ASSUME TypeInv, NEW t \in Threads, NEW p \in Proxies, NEW message \in Sendable,
         NEW blocked \in Blocked, SendAndBlock(t, p, message, blocked),
         UNCHANGED <<camera, quitting>>, released' \in [Proxies -> BOOLEAN]
  PROVE  ProxiesOK' /\ CallsOK'
<1>1. blocked \in Pcs /\ <<message>> \in Seq(Sendable)
  BY DEF Pcs
<1>2. messages' \in [Proxies -> Seq(Sendable)]
  BY <1>1, SendTyped DEF SendAndBlock, TypeInv, ProxiesOK
<1>3. signal' \in [Proxies -> BOOLEAN]
  BY DEF SendAndBlock, TypeInv, ProxiesOK
<1>4. CallsOK'
  BY <1>1, GoTyped DEF SendAndBlock, TypeInv, CallsOK
<1> QED BY <1>2, <1>3, <1>4 DEF TypeInv, ProxiesOK

LEMMA TypeRelease ==
  ASSUME TypeInv, NEW t \in Threads, NEW done \in {"idle", "construct"},
         t = "async" <=> done = "construct", ReleaseCamera(t, done), UNCHANGED moves
  PROVE  TypeInv'
<1> USE SameFields, SameProxies, SameTasks, SamePosts, SameGl, SameScreen, SameHistory
<1>1. done \in Pcs /\ {"release", "releasing", "forget"} \subseteq Pcs
  BY DEF Pcs, Blocked
<1>2. ASSUME NEW where \in Pcs, Go(t, where), pc[t] \in {"check", "release", "quit", "forget"},
             UNCHANGED taskVars
      PROVE  TaskRuns'
  BY <1>2, AsyncRun, SameRun
<1>3. CASE ReleaseCheck(t, done)
  <2>1. PICK where \in Pcs : Go(t, where)
    BY <1>1, <1>3 DEF ReleaseCheck
  <2>2. CallsOK' /\ TaskRuns'
    BY <1>2, <1>3, <2>1, GoTyped DEF ReleaseCheck, TypeInv, CallsOK
  <2> QED BY <1>3, <2>2 DEF ReleaseCheck, TypeInv
<1>4. CASE ReleaseSend(t, done)
  <2>1. CASE sCameraProxy = None
    <3>1. CallsOK' /\ TaskRuns'
      BY <1>1, <1>2, <1>4, <2>1, GoTyped DEF ReleaseSend, TypeInv, CallsOK
    <3>2. UNCHANGED <<proxyVars, historyVars>>
      BY <1>4, <2>1 DEF ReleaseSend, proxyVars, historyVars
    <3> QED BY <1>4, <3>1, <3>2 DEF ReleaseSend, TypeInv
  <2>2. CASE sCameraProxy # None
    <3>1. sCameraProxy \in Proxies
      BY <2>2 DEF TypeInv, FieldsOK
    <3>2. Message("RELEASE", None) \in Sendable /\ "releasing" \in Blocked
      BY MessageTyped, CameraAssumption DEF None, Blocked
    <3>3. released' \in [Proxies -> BOOLEAN]
      BY <1>4, <2>2 DEF ReleaseSend, TypeInv, ProxiesOK
    <3>4. ProxiesOK' /\ CallsOK'
      BY <1>4, <2>2, <3>1, <3>2, <3>3, TypeSendAndBlock DEF ReleaseSend
    <3>5. TaskRuns'
      BY <1>1, <1>2, <1>4, <2>2 DEF ReleaseSend, SendAndBlock
    <3>6. HistoryOK'
      <4>1. overlapped' \in BOOLEAN
        BY <1>4, <2>2 DEF ReleaseSend
      <4> QED BY <1>4, <4>1 DEF ReleaseSend, TypeInv, HistoryOK
    <3> QED BY <1>4, <3>4, <3>5, <3>6 DEF ReleaseSend, TypeInv
  <2> QED BY <2>1, <2>2
<1>5. CASE ReleaseQuit(t)
  <2>1. CallsOK' /\ TaskRuns'
    BY <1>1, <1>2, <1>5, GoTyped DEF ReleaseQuit, TypeInv, CallsOK
  <2>2. ProxiesOK'
    BY <1>5 DEF ReleaseQuit, TypeInv, ProxiesOK
  <2> QED BY <1>5, <2>1, <2>2 DEF ReleaseQuit, TypeInv
<1>6. CASE ReleaseForget(t, done)
  <2>1. CallsOK' /\ TaskRuns'
    BY <1>1, <1>2, <1>6, GoTyped DEF ReleaseForget, TypeInv, CallsOK
  <2>2. FieldsOK'
    BY <1>6 DEF ReleaseForget, FieldsOK
  <2> QED BY <1>6, <2>1, <2>2 DEF ReleaseForget, TypeInv
<1> QED BY <1>3, <1>4, <1>5, <1>6 DEF ReleaseCamera

LEMMA TypeHandleMessage ==
  ASSUME TypeInv, NEW p \in Proxies, HandleMessage(p), UNCHANGED moves
  PROVE  TypeInv'
<1>1. camera' \in [Proxies -> {"none", "open", "released"}]
  <2>1. \E c : camera' = [camera EXCEPT ![p] = c] /\ c \in {"none", "open", "released"}
    <3>1. camera[p] \in {"none", "open", "released"}
      BY DEF TypeInv, ProxiesOK
    <3> QED BY <3>1 DEF HandleMessage
  <2> QED BY <2>1 DEF TypeInv, ProxiesOK
<1>2. messages' \in [Proxies -> Seq(Sendable)]
  BY HeadTailProperties DEF HandleMessage, TypeInv, ProxiesOK
<1>3. released' \in [Proxies -> BOOLEAN] /\ signal' \in [Proxies -> BOOLEAN]
  <2>1. \E b \in BOOLEAN : released' = [released EXCEPT ![p] = b]
    BY DEF HandleMessage
  <2>2. signal' = [signal EXCEPT ![p] = TRUE]
    BY DEF HandleMessage, OpenSignal
  <2> QED BY <2>1, <2>2 DEF TypeInv, ProxiesOK
<1>4. ProxiesOK'
  BY <1>1, <1>2, <1>3 DEF HandleMessage, TypeInv, ProxiesOK
<1>5. HistoryOK'
  <2>1. disturbed' \in BOOLEAN
    BY DEF HandleMessage
  <2> QED BY <2>1 DEF HandleMessage, TypeInv, HistoryOK
<1>6. CallsOK' /\ TaskRuns'
  BY DEF HandleMessage, TypeInv, CallsOK, callVars, taskVars, TaskRuns
<1> QED BY <1>4, <1>5, <1>6, SameFields, SameTasks, SamePosts, SameGl, SameScreen
        DEF HandleMessage, TypeInv

LEMMA NoneTyped == None \in 0..MaxSurface /\ Call \in Sendable /\ <<Call>> \in Seq(Sendable)
BY CameraAssumption, MessageTyped DEF None, Call

(* The end of doInBackground.                                              *)
LEMMA TypeEndTask ==
  ASSUME TypeInv, tasks # <<>>, NEW ok \in BOOLEAN, EndTask(ok), UNCHANGED overlapped
  PROVE  PostsOK' /\ TasksOK' /\ TaskRuns' /\ HistoryOK' /\ pc' \in [Threads -> Pcs]
<1>1. tasks \in Seq({"open", "change"}) /\ posts \in Seq(Posts) /\ pc \in [Threads -> Pcs]
  BY DEF TypeInv, TasksOK, PostsOK, CallsOK
<1>2. Head(tasks) \in {"open", "change"} /\ Tail(tasks) \in Seq({"open", "change"})
  BY <1>1, HeadTailProperties
<1>3. [what |-> Head(tasks), ok |-> ok, st |-> None] \in Posts
  BY <1>2, NoneTyped DEF Posts
<1>4. PostsOK'
  BY <1>1, <1>3, AppendProperties DEF EndTask, PostsOK
<1>5. TasksOK' /\ HistoryOK'
  <2>1. TasksOK'
    BY <1>2, CameraAssumption DEF EndTask, TasksOK
  <2>2. disturbed' \in BOOLEAN
    BY DEF EndTask
  <2> QED BY <2>1, <2>2 DEF HistoryOK, TypeInv
<1>6. pc' \in [Threads -> Pcs] /\ pc'["async"] = "idle"
  BY <1>1 DEF EndTask, Go, Threads, Pcs
<1>7. TaskRuns'
  BY <1>6, CameraAssumption DEF EndTask, TaskRuns
<1> QED BY <1>4, <1>5, <1>6, <1>7

LEMMA TypeConstruct ==
  ASSUME TypeInv, Construct, UNCHANGED moves
  PROVE  TypeInv'
<1>1. PICK p \in Proxies :
        /\ camera' = [camera EXCEPT ![p] = "none"]
        /\ released' = [released EXCEPT ![p] = FALSE]
        /\ quitting' = [quitting EXCEPT ![p] = FALSE]
        /\ signal' = [signal EXCEPT ![p] = FALSE]
        /\ messages' = [messages EXCEPT ![p] = <<Message("OPEN", None)>>]
        /\ mine' = [mine EXCEPT !["async"] = p]
  BY DEF Construct
<1>2. <<Message("OPEN", None)>> \in Seq(Sendable)
  BY MessageTyped, NoneTyped
<1>3. camera' \in [Proxies -> {"none", "open", "released"}]
      /\ messages' \in [Proxies -> Seq(Sendable)]
  BY <1>1, <1>2 DEF TypeInv, ProxiesOK
<1>4. released' \in [Proxies -> BOOLEAN] /\ quitting' \in [Proxies -> BOOLEAN]
      /\ signal' \in [Proxies -> BOOLEAN]
  BY <1>1 DEF TypeInv, ProxiesOK
<1>5. "opening" \in Pcs
  BY DEF Pcs, Blocked
<1>6. CallsOK' /\ TaskRuns'
  BY <1>1, <1>5, AsyncRun, GoTyped DEF Construct, TypeInv, CallsOK, Threads
<1> QED BY <1>3, <1>4, <1>6, SameFields, SameTasks, SamePosts, SameGl, SameScreen, SameHistory
        DEF Construct, TypeInv, ProxiesOK

LEMMA TypeAssign ==
  ASSUME TypeInv, Assign, UNCHANGED moves
  PROVE  TypeInv'
<1> DEFINE p == mine["async"]
           list == IF camera[p] # "none" THEN <<Call>> ELSE <<>>
           where == IF Opens THEN "available" ELSE "params"
<1>1. p \in Proxies \cup {None} /\ list \in Seq(Sendable) /\ {"available", "params"} \subseteq Pcs
  BY NoneTyped DEF TypeInv, CallsOK, Pcs, Threads
<1>2. ProxiesOK'
  BY <1>1, SendTyped DEF Assign, TypeInv, ProxiesOK
<1>3. FieldsOK'
  BY <1>1 DEF Assign, TypeInv, FieldsOK
<1>4. pc' \in [Threads -> Pcs] /\ mine' \in [Threads -> Proxies \cup {None}]
  BY <1>1 DEF Assign, Go, TypeInv, CallsOK, Threads
<1>5. TaskRuns'
  BY DEF Assign, Go, TypeInv, CallsOK, TaskRuns, taskVars, Threads
<1> QED BY <1>2, <1>3, <1>4, <1>5, SameTasks, SamePosts, SameGl, SameScreen, SameHistory
        DEF Assign, TypeInv, CallsOK

LEMMA TypeAsync ==
  ASSUME TypeInv, Async, UNCHANGED moves
  PROVE  TypeInv'
<1> USE SameFields, SameProxies, SameTasks, SamePosts, SameGl, SameScreen, SameHistory
<1>1. pc["async"] # "idle" => tasks # <<>>
  BY DEF TypeInv, TaskRuns
<1>2. CASE StartTask
  <2>1. CallsOK' /\ TaskRuns'
    BY <1>2 DEF StartTask, Go, TypeInv, CallsOK, TaskRuns, taskVars, Threads, Pcs
  <2>2. disturbed' \in BOOLEAN /\ sCameraReleased' \in BOOLEAN
    BY <1>2 DEF StartTask
  <2>3. HistoryOK' /\ FieldsOK'
    BY <1>2, <2>2 DEF StartTask, TypeInv, HistoryOK, FieldsOK
  <2> QED BY <1>2, <2>1, <2>3 DEF StartTask, TypeInv
<1>3. CASE TaskFails
  <2>1. PostsOK' /\ TasksOK' /\ TaskRuns' /\ HistoryOK' /\ pc' \in [Threads -> Pcs]
    BY <1>1, <1>3, TypeEndTask DEF TaskFails
  <2> QED BY <1>3, <2>1 DEF TaskFails, TypeInv, CallsOK
<1>4. CASE Available
  <2>1. tryCount <= MaxTries /\ tryCount \in Nat /\ MaxTries \in Nat
    BY <1>4, CameraAssumption DEF Available, TypeInv, TaskRuns, TasksOK
  <2>2. TasksOK'
    BY <1>4, <2>1 DEF Available, TypeInv, TasksOK
  <2>3. CallsOK'
    BY <1>4 DEF Available, Go, TypeInv, CallsOK, Threads, Pcs
  <2>4. TaskRuns'
    BY <1>1, <1>4 DEF Available, Go, TypeInv, CallsOK, Threads, TaskRuns
  <2> QED BY <1>4, <2>2, <2>3, <2>4 DEF Available, TypeInv
<1>5. CASE Sleep
  <2>1. CallsOK'
    BY <1>5 DEF Sleep, Go, TypeInv, CallsOK, Threads, Pcs
  <2>2. TaskRuns'
    BY <1>1, <1>5 DEF Sleep, Go, TypeInv, CallsOK, Threads, TaskRuns, taskVars
  <2> QED BY <1>5, <2>1, <2>2 DEF Sleep, TypeInv
<1>6. CASE Params
  <2> DEFINE goes == IF Opens THEN IsCameraAvailable(sCameraProxy) ELSE camera[sCameraProxy] # "none"
  <2>1. CASE goes
    <3>1. CallsOK' /\ TaskRuns'
      BY <1>1, <1>6, <2>1 DEF Params, Go, TypeInv, CallsOK, Threads, Pcs, TaskRuns, taskVars
    <3>2. UNCHANGED <<fieldVars, taskVars, posts, historyVars>>
      BY <1>6, <2>1 DEF Params, fieldVars, historyVars
    <3> QED BY <1>6, <3>1, <3>2 DEF Params, TypeInv
  <2>2. CASE ~goes
    <3>1. EndTask(FALSE) /\ sCameraProxy' = IF Opens THEN None ELSE sCameraProxy
      BY <1>6, <2>2 DEF Params
    <3>2. PostsOK' /\ TasksOK' /\ TaskRuns' /\ HistoryOK' /\ pc' \in [Threads -> Pcs]
      BY <1>1, <1>6, <3>1, TypeEndTask DEF Params
    <3>3. FieldsOK'
      BY <1>6, <3>1 DEF Params, TypeInv, FieldsOK
    <3> QED BY <1>6, <3>2, <3>3 DEF Params, TypeInv, CallsOK
  <2> QED BY <2>1, <2>2
<1>7. CASE Configure
  <2>1. messages' \in [Proxies -> Seq(Sendable)]
    BY <1>7, SendTyped, NoneTyped DEF Configure, TypeInv, ProxiesOK
  <2>2. (Opens \/ sCameraProxy # None) \in BOOLEAN
    BY DEF Opens
  <2>3. PostsOK' /\ TasksOK' /\ TaskRuns' /\ HistoryOK' /\ pc' \in [Threads -> Pcs]
    BY <1>1, <1>7, <2>2, TypeEndTask DEF Configure
  <2>4. ScreenOK'
    BY <1>7 DEF Configure, TypeInv, ScreenOK
  <2> QED BY <1>7, <2>1, <2>3, <2>4 DEF Configure, TypeInv, CallsOK, ProxiesOK
<1>8. CASE ReleaseCamera("async", "construct")
  BY <1>8, TypeRelease DEF Threads
<1> QED BY <1>2, <1>3, <1>4, <1>5, <1>6, <1>7, <1>8, TypeConstruct, TypeAssign DEF Async

LEMMA TypeGl ==
  ASSUME TypeInv, Gl, UNCHANGED moves
  PROVE  TypeInv'
<1> USE SameFields, SameProxies, SameTasks, SamePosts, SameGl, SameScreen, SameHistory
<1>1. CASE RunEvent
  <2> DEFINE where == IF Head(events) = "pause" /\ ~sCameraReleased THEN "check" ELSE "idle"
  <2>1. where \in Pcs /\ Go("gl", where)
    BY <1>1 DEF RunEvent, Pcs
  <2>2. CallsOK'
    BY <1>1, <2>1, GoTyped DEF RunEvent, TypeInv, CallsOK, Threads
  <2>3. TaskRuns'
    BY <1>1, <2>1, SameRun DEF RunEvent, Threads
  <2>4. events' \in Seq({"pause", "notify"}) /\ surface' \in 0..MaxSurface
    BY <1>1, HeadTailProperties, NoneTyped DEF RunEvent, TypeInv, GlOK
  <2>5. disturbed' \in BOOLEAN
    BY <1>1 DEF RunEvent
  <2> QED BY <1>1, <2>2, <2>3, <2>4, <2>5 DEF RunEvent, TypeInv, GlOK, HistoryOK
<1>2. CASE OnSurfaceCreated
  <2>1. PICK s \in 1..MaxSurface :
          /\ surface' = s
          /\ posts' = Append(posts, [what |-> "surface", ok |-> TRUE, st |-> s])
    BY <1>2 DEF OnSurfaceCreated
  <2>2. s \in 0..MaxSurface
    BY CameraAssumption
  <2>3. [what |-> "surface", ok |-> TRUE, st |-> s] \in Posts
    BY <2>2 DEF Posts
  <2>4. posts' \in Seq(Posts) /\ surface' \in 0..MaxSurface
    BY <2>1, <2>2, <2>3, AppendProperties DEF TypeInv, PostsOK
  <2>5. CallsOK' /\ TaskRuns'
    BY <1>2 DEF OnSurfaceCreated, TypeInv, CallsOK, callVars, taskVars, TaskRuns
  <2> QED BY <1>2, <2>4, <2>5 DEF OnSurfaceCreated, TypeInv, PostsOK, GlOK
<1>3. CASE ReleaseCamera("gl", "idle")
  BY <1>3, TypeRelease DEF Threads
<1> QED BY <1>1, <1>2, <1>3 DEF Gl

LEMMA TypeUiTask ==
  ASSUME TypeInv, UiTask, UNCHANGED moves
  PROVE  TypeInv'
<1> USE SameFields, SameProxies, SameTasks, SamePosts, SameGl, SameScreen, SameHistory
<1>1. CASE ViewPaused
  <2>1. CallsOK'
    BY <1>1 DEF ViewPaused, Go, TypeInv, CallsOK, Threads, Pcs
  <2>2. TasksOK'
    BY <1>1, AppendProperties DEF ViewPaused, TypeInv, TasksOK
  <2>3. TaskRuns'
    <3>1. tasks # <<>> => tasks' # <<>>
      BY <1>1, AppendProperties, EmptySeq DEF ViewPaused, TypeInv, TasksOK
    <3> QED BY <1>1, <3>1 DEF ViewPaused, Go, TypeInv, CallsOK, Threads, TaskRuns
  <2>4. GlOK'
    <3>1. glPaused' = TRUE
      BY <1>1 DEF ViewPaused
    <3> QED BY <1>1, <3>1 DEF ViewPaused, TypeInv, GlOK
  <2> QED BY <1>1, <2>1, <2>2, <2>3, <2>4 DEF ViewPaused, TypeInv
<1>2. CASE OnPostExecute
  <2> DEFINE late == Head(posts).what = "open" /\ finishing
             where == IF late THEN "check" ELSE "idle"
  <2>1. where \in Pcs /\ Go("ui", where)
    BY <1>2 DEF OnPostExecute, Pcs
  <2>2. CallsOK'
    BY <1>2, <2>1, GoTyped DEF OnPostExecute, TypeInv, CallsOK, Threads
  <2>3. TaskRuns'
    BY <1>2, <2>1, SameRun DEF OnPostExecute, Threads
  <2>4. PostsOK'
    BY <1>2, HeadTailProperties DEF OnPostExecute, TypeInv, PostsOK
  <2>5. glPaused' \in BOOLEAN
    BY <1>2 DEF OnPostExecute
  <2> QED BY <1>2, <2>2, <2>3, <2>4, <2>5 DEF OnPostExecute, TypeInv, GlOK
<1>3. CASE HandleSetSurfaceTexture
  <2>1. Head(posts) \in Posts /\ PostsOK'
    BY <1>3, HeadTailProperties DEF HandleSetSurfaceTexture, TypeInv, PostsOK
  <2>2. texture' \in 0..MaxSurface
    BY <1>3, <2>1 DEF HandleSetSurfaceTexture, Posts, TypeInv, ScreenOK
  <2>3. CallsOK'
    BY <1>3 DEF HandleSetSurfaceTexture, Go, TypeInv, CallsOK, Threads, Pcs
  <2>4. TaskRuns'
    BY <1>3 DEF HandleSetSurfaceTexture, Go, TypeInv, CallsOK, Threads, TaskRuns, taskVars
  <2> QED BY <1>3, <2>1, <2>2, <2>3, <2>4 DEF HandleSetSurfaceTexture, TypeInv, ScreenOK
<1>4. CASE StopPreview
  <2>1. CASE sCameraProxy # None
    <3>1. sCameraProxy \in Proxies /\ "stopping" \in Blocked /\ "stopping" \in Pcs
      BY <2>1 DEF TypeInv, FieldsOK, Blocked, Pcs
    <3>2. ProxiesOK' /\ CallsOK'
      BY <1>4, <2>1, <3>1, NoneTyped, TypeSendAndBlock
         DEF StopPreview, Threads, TypeInv, ProxiesOK
    <3>3. TaskRuns'
      BY <1>4, <2>1, <3>1, SameRun DEF StopPreview, SendAndBlock, Threads
    <3>4. ScreenOK'
      BY <1>4, <2>1 DEF StopPreview, TypeInv, ScreenOK
    <3> QED BY <1>4, <3>2, <3>3, <3>4 DEF StopPreview, TypeInv
  <2>2. CASE sCameraProxy = None
    <3>1. crashed' = TRUE /\ UNCHANGED <<signal, messages, callVars>>
      BY <1>4, <2>2 DEF StopPreview
    <3>2. CallsOK' /\ TaskRuns'
      BY <1>4, <3>1 DEF StopPreview, TypeInv, CallsOK, callVars, taskVars, TaskRuns
    <3>3. ScreenOK'
      BY <1>4, <3>1 DEF StopPreview, TypeInv, ScreenOK
    <3> QED BY <1>4, <3>1, <3>2, <3>3 DEF StopPreview, TypeInv, ProxiesOK
  <2> QED BY <2>1, <2>2
<1>5. CASE StartPreview
  <2>1. "idle" \in Pcs /\ Go("ui", "idle") /\ mine' = [mine EXCEPT !["ui"] = None]
    BY <1>5 DEF StartPreview, Pcs
  <2>2. CallsOK'
    BY <2>1, GoTyped DEF TypeInv, CallsOK, Threads
  <2>3. TaskRuns'
    BY <1>5, <2>1, SameRun DEF StartPreview, Threads
  <2>4. ProxiesOK'
    <3> DEFINE m == IF texture = None THEN Call ELSE Message("TEXTURE", texture)
    <3>1. <<m>> \in Seq(Sendable)
      BY NoneTyped, MessageTyped DEF TypeInv, ScreenOK
    <3>2. SendTo(sCameraProxy, <<m>>) \/ UNCHANGED messages
      BY <1>5 DEF StartPreview
    <3> HIDE DEF m
    <3>3. messages' \in [Proxies -> Seq(Sendable)]
      BY <3>1, <3>2, SendTyped DEF TypeInv, ProxiesOK
    <3> QED BY <1>5, <3>3 DEF StartPreview, TypeInv, ProxiesOK
  <2>5. ScreenOK'
    <3>1. crashed' = TRUE \/ UNCHANGED crashed
      BY <1>5 DEF StartPreview
    <3> QED BY <1>5, <3>1, NoneTyped DEF StartPreview, TypeInv, ScreenOK
  <2> QED BY <1>5, <2>2, <2>3, <2>4, <2>5 DEF StartPreview, TypeInv
<1>6. CASE ReleaseCamera("ui", "idle")
  BY <1>6, TypeRelease DEF Threads
<1> QED BY <1>1, <1>2, <1>3, <1>4, <1>5, <1>6 DEF UiTask

LEMMA TypeMoves ==
  ASSUME TypeInv, Moves
  PROVE  TypeInv'
<1> USE SameFields, SameProxies, SameTasks, SamePosts, SameGl, SameScreen, SameHistory
<1>1. moves' \in 0..MaxMoves
  BY CameraAssumption DEF Moves, TypeInv
<1>2. ASSUME NEW event \in {"pause", "notify"}, NEW why \in {"pausing", "changing"},
             PauseView(event, why), UNCHANGED <<mine, taskVars, surface, glPaused>>
      PROVE  CallsOK' /\ TaskRuns' /\ GlOK'
  <2>1. why \in Pcs /\ Go("ui", why)
    BY <1>2 DEF PauseView, Pcs
  <2>2. CallsOK'
    BY <1>2, <2>1, GoTyped DEF TypeInv, CallsOK, Threads
  <2>3. TaskRuns'
    BY <1>2, <2>1, SameRun DEF Threads
  <2>4. GlOK'
    BY <1>2, AppendProperties DEF PauseView, TypeInv, GlOK
  <2> QED BY <2>2, <2>3, <2>4
<1>3. CASE \E finish \in BOOLEAN : Leave(finish)
  <2>1. PICK finish \in BOOLEAN : Leave(finish)
    BY <1>3
  <2>2. CallsOK' /\ TaskRuns' /\ GlOK'
    BY <1>2, <2>1 DEF Leave
  <2>3. away' \in BOOLEAN /\ finishing' \in BOOLEAN
    BY <2>1 DEF Leave
  <2> QED BY <1>1, <2>1, <2>2, <2>3 DEF Leave, TypeInv, ScreenOK
<1>4. CASE ChangeCamera
  BY <1>1, <1>2, <1>4 DEF ChangeCamera, TypeInv
<1>5. CASE OpenCamera
  <2>1. tasks \in Seq({"open", "change"}) /\ tasks' = Append(tasks, "open") /\ tasks' # <<>>
        /\ UNCHANGED tryCount
    BY <1>5, AppendProperties, EmptySeq DEF OpenCamera, TypeInv, TasksOK
  <2>2. TasksOK'
    BY <2>1, AppendProperties DEF TypeInv, TasksOK
  <2>3. CallsOK' /\ TaskRuns'
    BY <1>5, <2>1 DEF OpenCamera, TypeInv, CallsOK, callVars, TaskRuns
  <2>4. away' \in BOOLEAN /\ finishing' \in BOOLEAN /\ glPaused' \in BOOLEAN
    BY <1>5 DEF OpenCamera
  <2> QED BY <1>1, <1>5, <2>2, <2>3, <2>4 DEF OpenCamera, TypeInv, ScreenOK, GlOK
<1>6. CASE SetResolution
  <2>1. (Go("ui", "stop") \/ UNCHANGED pc) /\ "stop" \in Pcs /\ UNCHANGED <<mine, taskVars>>
    BY <1>6 DEF SetResolution, Pcs
  <2>2. CallsOK' /\ TaskRuns'
    BY <2>1 DEF Go, TypeInv, CallsOK, Threads, TaskRuns, taskVars
  <2>3. crashed' = TRUE \/ UNCHANGED crashed
    BY <1>6 DEF SetResolution
  <2> QED BY <1>1, <1>6, <2>2, <2>3 DEF SetResolution, TypeInv, ScreenOK
<1>7. CASE OtherApplication
  <2>1. busy' \in BOOLEAN
    BY <1>7 DEF OtherApplication
  <2>2. CallsOK' /\ TaskRuns'
    BY <1>7 DEF OtherApplication, TypeInv, CallsOK, TaskRuns, callVars, taskVars
  <2> QED BY <1>1, <1>7, <2>1, <2>2 DEF OtherApplication, TypeInv
<1> QED BY <1>3, <1>4, <1>5, <1>6, <1>7 DEF Moves, User

LEMMA TypeStep == TypeInv /\ [Next]_vars => TypeInv'
<1> SUFFICES ASSUME TypeInv, [Next]_vars
             PROVE  TypeInv'
  OBVIOUS
<1>1. CASE Work
  BY <1>1, TypeAsync, TypeGl, TypeUiTask, TypeUnblock, TypeHandleMessage DEF Work
<1>2. CASE Moves
  BY <1>2, TypeMoves
<1>3. CASE UNCHANGED vars
  BY <1>3, SameFields, SameProxies, SameTasks, SamePosts, SameGl, SameScreen, SameHistory
     DEF vars, callVars, taskVars, TypeInv, CallsOK, TaskRuns
<1> QED BY <1>1, <1>2, <1>3 DEF Next

(* Type correctness, which says that openCamera tries a bounded number of  *)
(* times and that the executor always knows which task it ends.            *)
THEOREM TypeCorrect == Spec => []TypeOK
<1>1. TypeInv => TypeOK
  BY TypesAgree
<1>2. QED BY <1>1, TypeInit, TypeStep, PTL DEF Spec

-----------------------------------------------------------------------------
(* What keeps a caller from sleeping for ever and a camera from being lost.  *)

(* A message of a kind is queued; OPEN_CAMERA can only be the first.       *)
Has(queue, what) == \E i \in DOMAIN queue : queue[i].what = what
OpenFirst(queue) == \A i \in DOMAIN queue : queue[i].what = "OPEN" => i = 1

CallbackThreads == {"ui", "gl"}

(* OPEN_CAMERA waits while the thread of the tasks waits for it, in a proxy *)
(* no other thread knows.                                                  *)
OpenIsFirst ==
  \A p \in Proxies :
    /\ OpenFirst(messages[p])
    /\ Has(messages[p], "OPEN") =>
         /\ pc["async"] = "opening" /\ mine["async"] = p /\ p # sCameraProxy
         /\ ~signal[p] /\ ~released[p] /\ ~quitting[p]
         /\ \A t \in CallbackThreads : mine[t] # p

(* A caller holds the proxy it works on, which releaseCamera marks first.  *)
CallersKnown ==
  /\ \A t \in Threads : pc[t] \in Blocked \cup {"quit", "forget", "assign"} => mine[t] # None
  /\ \A t \in Threads : Releasing(t) => released[mine[t]]
  /\ \A p \in Proxies : quitting[p] => released[p]
  /\ pc["async"] \notin {"stopping", "restart", "pausing", "changing"}
  /\ \A t \in CallbackThreads : pc[t] \notin {"opening", "assign"}
  /\ mine["async"] # None => Releasing("async") \/ pc["async"] \in {"opening", "assign"}

(* GLSurfaceView.onPause() returns when the renderer's thread has run dry. *)
ViewWaits == pc["gl"] # "idle" \/ events # <<>> => pc["ui"] \in {"pausing", "changing"}

(* CameraProxy.released with an open camera: its release is on the way.    *)
ReleasedGivenBack ==
  \A p \in Proxies : released[p] /\ camera[p] = "open" => Has(messages[p], "RELEASE")

(* A thread that releases works on the proxy in the static field, unless   *)
(* another thread released beside it.                                      *)
OneReleases ==
  /\ Releasing("async") => sCameraProxy \in {mine["async"], None}
  /\ \A t \in CallbackThreads : Releasing(t) /\ ~overlapped =>
       sCameraProxy = mine[t] /\ pc["async"] \in {"idle", "check", "release"}

(* A task that is about to replace the proxy has given its camera back.    *)
OldGivenBack ==
  pc["async"] \in {"sleep", "construct", "opening", "assign"} /\ sCameraProxy # None =>
    camera[sCameraProxy] # "open" \/ Has(messages[sCameraProxy], "RELEASE") \/ overlapped

SafeInv ==
  /\ OpenIsFirst /\ CallersKnown /\ ViewWaits /\ ReleasedGivenBack /\ OneReleases /\ OldGivenBack
  /\ NoLostWakeup /\ NoCameraLost

(* Queues: what an append and a handled message leave in them.             *)
LEMMA QueueAppend ==
  ASSUME NEW queue \in Seq(Sendable), NEW m \in Sendable
  PROVE  /\ queue \o <<m>> # <<>>
         /\ \A what : Has(queue \o <<m>>, what) <=> Has(queue, what) \/ m.what = what
         /\ OpenFirst(queue) /\ m.what # "OPEN" => OpenFirst(queue \o <<m>>)
<1> DEFINE longer == queue \o <<m>>
<1>1. /\ longer \in Seq(Sendable) /\ Len(longer) = Len(queue) + 1 /\ Len(queue) \in Nat
      /\ \A i \in 1..Len(queue) : longer[i] = queue[i]
      /\ longer[Len(queue) + 1] = m
  BY ConcatProperties
<1>2. DOMAIN longer = 1..(Len(queue) + 1) /\ DOMAIN queue = 1..Len(queue)
  BY <1>1
<1>3. longer # <<>>
  BY <1>1
<1> HIDE DEF longer
<1>4. ASSUME NEW what PROVE Has(longer, what) <=> Has(queue, what) \/ m.what = what
  BY <1>1, <1>2 DEF Has
<1>5. OpenFirst(queue) /\ m.what # "OPEN" => OpenFirst(longer)
  BY <1>1, <1>2 DEF OpenFirst
<1> QED BY <1>3, <1>4, <1>5 DEF longer

LEMMA QueueTail ==
  ASSUME NEW queue \in Seq(Sendable), queue # <<>>
  PROVE  /\ \A what : Has(Tail(queue), what) => Has(queue, what)
         /\ \A what : Has(queue, what) /\ Head(queue).what # what => Has(Tail(queue), what)
         /\ OpenFirst(queue) => OpenFirst(Tail(queue)) /\ ~Has(Tail(queue), "OPEN")
         /\ Has(queue, Head(queue).what)
<1> DEFINE rest == Tail(queue)
<1>1. /\ rest \in Seq(Sendable) /\ Len(rest) = Len(queue) - 1 /\ Len(queue) \in Nat \ {0}
      /\ \A i \in 1..Len(rest) : rest[i] = queue[i + 1]
      /\ Head(queue) = queue[1]
  BY HeadTailProperties, EmptySeq
<1>2. DOMAIN rest = 1..(Len(queue) - 1) /\ DOMAIN queue = 1..Len(queue)
  BY <1>1
<1> HIDE DEF rest
<1>3. ASSUME NEW what, Has(rest, what) PROVE Has(queue, what)
  <2>1. PICK i \in 1..(Len(queue) - 1) : queue[i + 1].what = what
    BY <1>1, <1>2, <1>3 DEF Has
  <2>2. i + 1 \in DOMAIN queue
    BY <1>1, <1>2
  <2> QED BY <2>1, <2>2 DEF Has
<1>4. ASSUME NEW what, Has(queue, what), Head(queue).what # what PROVE Has(rest, what)
  <2>1. PICK i \in 1..Len(queue) : queue[i].what = what
    BY <1>2, <1>4 DEF Has
  <2>2. i # 1
    BY <1>1, <1>4, <2>1
  <2>3. i - 1 \in DOMAIN rest /\ rest[i - 1].what = what
    BY <1>1, <1>2, <2>1, <2>2
  <2> QED BY <2>3 DEF Has
<1>5. ASSUME OpenFirst(queue), NEW i \in DOMAIN rest PROVE rest[i].what # "OPEN"
  <2>1. i + 1 \in DOMAIN queue /\ i + 1 # 1 /\ rest[i] = queue[i + 1]
    BY <1>1, <1>2
  <2> QED BY <1>5, <2>1 DEF OpenFirst
<1>6. Has(queue, Head(queue).what)
  BY <1>1, <1>2 DEF Has
<1>7. OpenFirst(queue) => OpenFirst(rest) /\ ~Has(rest, "OPEN")
  BY <1>5 DEF OpenFirst, Has
<1> QED BY <1>3, <1>4, <1>6, <1>7 DEF rest

LEMMA QueueOne ==
  ASSUME NEW m
  PROVE  OpenFirst(<<m>>) /\ (\A what : Has(<<m>>, what) <=> m.what = what) /\ <<m>> # <<>>
BY DEF OpenFirst, Has

LEMMA QueueNone == OpenFirst(<<>>) /\ (\A what : ~Has(<<>>, what))
BY DEF OpenFirst, Has

(* What a sender does to the queues: nothing is forgotten, and only the    *)
(* constructor sends OPEN_CAMERA.                                          *)
QueuesKept ==
  \A q \in Proxies :
    /\ Has(messages'[q], "OPEN") => Has(messages[q], "OPEN")
    /\ OpenFirst(messages[q]) => OpenFirst(messages'[q])
    /\ Has(messages[q], "RELEASE") => Has(messages'[q], "RELEASE")
    /\ messages[q] # <<>> => messages'[q] # <<>>

LEMMA SentKept ==
  ASSUME ProxiesOK, NEW p \in Proxies, NEW m \in Sendable, m.what # "OPEN", SendTo(p, <<m>>)
  PROVE  /\ QueuesKept
         /\ quitting[p] \/ (messages'[p] # <<>> /\ Has(messages'[p], m.what))
<1>1. CASE quitting[p]
  BY <1>1 DEF SendTo, QueuesKept
<1>2. CASE ~quitting[p]
  <2>1. messages' = [messages EXCEPT ![p] = @ \o <<m>>] /\ messages \in [Proxies -> Seq(Sendable)]
    BY <1>2 DEF SendTo, ProxiesOK
  <2>2. messages'[p] = messages[p] \o <<m>> /\ \A q \in Proxies : q # p => messages'[q] = messages[q]
    BY <2>1
  <2> QED BY <2>1, <2>2, QueueAppend DEF QueuesKept
<1> QED BY <1>1, <1>2

LEMMA SafeInit == Init => SafeInv
<1> SUFFICES ASSUME Init PROVE SafeInv
  OBVIOUS
<1>1. /\ \A p \in Proxies : messages[p] = <<>> /\ ~released[p] /\ ~quitting[p] /\ camera[p] = "none"
      /\ \A t \in Threads : pc[t] = "idle" /\ mine[t] = None
      /\ events = <<>>
  BY DEF Init
<1>2. OpenIsFirst
  BY <1>1, QueueNone DEF OpenIsFirst
<1>3. CallersKnown
  BY <1>1 DEF CallersKnown, Blocked, Releasing, Threads, CallbackThreads
<1>4. OneReleases /\ ViewWaits /\ ReleasedGivenBack /\ OldGivenBack
  BY <1>1 DEF OneReleases, ViewWaits, ReleasedGivenBack, OldGivenBack, Releasing, Threads,
              CallbackThreads
<1>5. NoLostWakeup /\ NoCameraLost
  BY <1>1 DEF NoLostWakeup, NoCameraLost, Blocked
<1> QED BY <1>2, <1>3, <1>4, <1>5 DEF SafeInv

(* None is no proxy, and the callbacks' threads are not the executor's.    *)
LEMMA NoneIsNone == None \notin Proxies
BY CameraAssumption DEF None

LEMMA ThreadsAre ==
  /\ Threads = CallbackThreads \cup {"async"} /\ "async" \notin CallbackThreads
  /\ "ui" \in CallbackThreads /\ "gl" \in CallbackThreads
BY DEF Threads, CallbackThreads

(* A step that changes no proxy but for what it sends, nor the field.      *)
Walk == QueuesKept /\ UNCHANGED <<sCameraProxy, camera, released, signal, quitting, overlapped>>

(* A callback goes where it neither waits nor releases: its proxy does not matter. *)
LEMMA CallbackWalk ==
  ASSUME TypeInv, SafeInv, NEW t \in CallbackThreads,
         NEW where \in {"idle", "check", "release", "stop", "pausing", "changing"}, Go(t, where),
         Walk, mine' = mine \/ mine' = [mine EXCEPT ![t] = None], ViewWaits'
  PROVE  SafeInv'
<1>1. /\ pc'[t] = where /\ \A u \in Threads \ {t} : pc'[u] = pc[u] /\ mine'[u] = mine[u]
      /\ mine'[t] \in {mine[t], None}
      /\ t \in Threads /\ t # "async" /\ pc'["async"] = pc["async"] /\ mine'["async"] = mine["async"]
  BY ThreadsAre DEF Go, TypeInv, CallsOK
<1>2. OpenIsFirst'
  <2> SUFFICES ASSUME NEW p \in Proxies
               PROVE  /\ OpenFirst(messages'[p])
                      /\ Has(messages'[p], "OPEN") =>
                           /\ pc'["async"] = "opening" /\ mine'["async"] = p /\ p # sCameraProxy'
                           /\ ~signal'[p] /\ ~released'[p] /\ ~quitting'[p]
                           /\ \A u \in CallbackThreads : mine'[u] # p
    BY DEF OpenIsFirst
  <2> QED BY <1>1, NoneIsNone, ThreadsAre DEF SafeInv, OpenIsFirst, Walk, QueuesKept
<1>3. CallersKnown'
  BY <1>1, ThreadsAre DEF SafeInv, CallersKnown, Walk, Releasing, Blocked
<1>4. ReleasedGivenBack' /\ OneReleases'
  BY <1>1, ThreadsAre DEF SafeInv, ReleasedGivenBack, OneReleases, Walk, QueuesKept, Releasing
<1>5. OldGivenBack'
  BY <1>1 DEF SafeInv, OldGivenBack, Walk, QueuesKept, TypeInv, FieldsOK
<1>6. NoLostWakeup'
  <2> SUFFICES ASSUME NEW u \in Threads, pc'[u] \in Blocked
               PROVE  signal'[mine'[u]] \/ messages'[mine'[u]] # <<>> \/ quitting'[mine'[u]]
    BY DEF NoLostWakeup
  <2>1. u # t /\ pc[u] \in Blocked /\ mine'[u] = mine[u]
    BY <1>1 DEF Blocked
  <2>2. mine[u] \in Proxies
    BY <2>1 DEF SafeInv, CallersKnown, TypeInv, CallsOK
  <2> QED BY <2>1, <2>2 DEF SafeInv, NoLostWakeup, Walk, QueuesKept
<1>7. NoCameraLost'
  BY <1>1 DEF SafeInv, NoCameraLost, ReleaseSent, Has, Walk, QueuesKept
<1> QED BY <1>2, <1>3, <1>4, <1>5, <1>6, <1>7 DEF SafeInv

(* A step that moves no thread either.                                     *)
LEMMA NobodyWalks ==
  ASSUME TypeInv, SafeInv, UNCHANGED <<pc, mine>>, Walk, ViewWaits'
  PROVE  SafeInv'
<1>1. OpenIsFirst'
  BY DEF SafeInv, OpenIsFirst, Walk, QueuesKept
<1>2. CallersKnown'
  BY DEF SafeInv, CallersKnown, Walk, Releasing
<1>3. ReleasedGivenBack' /\ OneReleases'
  BY DEF SafeInv, ReleasedGivenBack, OneReleases, Walk, QueuesKept, Releasing
<1>4. OldGivenBack'
  BY DEF SafeInv, OldGivenBack, Walk, QueuesKept, TypeInv, FieldsOK
<1>5. NoLostWakeup'
  <2> SUFFICES ASSUME NEW u \in Threads, pc[u] \in Blocked
               PROVE  signal'[mine[u]] \/ messages'[mine[u]] # <<>> \/ quitting'[mine[u]]
    BY DEF NoLostWakeup
  <2>1. mine[u] \in Proxies
    BY DEF SafeInv, CallersKnown, TypeInv, CallsOK
  <2> QED BY <2>1 DEF SafeInv, NoLostWakeup, Walk, QueuesKept
<1>6. NoCameraLost'
  BY DEF SafeInv, NoCameraLost, ReleaseSent, Has, Walk, QueuesKept
<1> QED BY <1>1, <1>2, <1>3, <1>4, <1>5, <1>6 DEF SafeInv

(* The executor's thread goes on in a task; before it replaces a proxy that *)
(* proxy's camera is given back.                                           *)
LEMMA AsyncWalk ==
  ASSUME TypeInv, SafeInv,
         pc["async"] \in {"idle", "check", "release", "available", "params", "sleep", "configure"},
         NEW where \in {"idle", "check", "release", "construct", "available", "params", "sleep",
                        "configure"},
         Go("async", where), Walk, UNCHANGED mine, ViewWaits',
         pc["async"] \in {"idle", "check", "release"} =>
            where \in {"idle", "check", "release"} \/ sCameraProxy = None,
         where \in {"sleep", "construct"} /\ sCameraProxy # None =>
            camera[sCameraProxy] # "open" \/ Has(messages[sCameraProxy], "RELEASE") \/ overlapped
  PROVE  SafeInv'
<1>1. /\ pc'["async"] = where /\ \A u \in CallbackThreads : pc'[u] = pc[u]
      /\ \A u \in Threads : u # "async" => pc'[u] = pc[u]
  BY ThreadsAre DEF Go, TypeInv, CallsOK
<1>2. mine["async"] = None /\ where \notin Blocked /\ pc["async"] # "opening"
  BY DEF SafeInv, CallersKnown, Releasing, Blocked
<1>3. OpenIsFirst'
  BY <1>1, <1>2 DEF SafeInv, OpenIsFirst, Walk, QueuesKept
<1>4. CallersKnown'
  BY <1>1, <1>2, ThreadsAre DEF SafeInv, CallersKnown, Walk, Releasing, Blocked
<1>5. ReleasedGivenBack'
  BY DEF SafeInv, ReleasedGivenBack, Walk, QueuesKept
<1>6. OneReleases'
  <2> SUFFICES ASSUME NEW t \in CallbackThreads, Releasing(t), ~overlapped
               PROVE  sCameraProxy = mine[t] /\ where \in {"idle", "check", "release"}
    BY <1>1, ThreadsAre DEF OneReleases, Releasing, Walk
  <2>1. sCameraProxy = mine[t] /\ pc["async"] \in {"idle", "check", "release"}
    BY DEF SafeInv, OneReleases
  <2>2. mine[t] # None
    BY ThreadsAre DEF SafeInv, CallersKnown, Releasing, Blocked
  <2> QED BY <2>1, <2>2
<1>7. OldGivenBack'
  BY <1>1 DEF SafeInv, OldGivenBack, Walk, QueuesKept, TypeInv, FieldsOK
<1>8. NoLostWakeup'
  <2> SUFFICES ASSUME NEW u \in Threads, pc'[u] \in Blocked
               PROVE  signal'[mine[u]] \/ messages'[mine[u]] # <<>> \/ quitting'[mine[u]]
    BY DEF NoLostWakeup
  <2>1. u # "async" /\ pc[u] \in Blocked
    BY <1>1, <1>2
  <2>2. mine[u] \in Proxies
    BY <2>1 DEF SafeInv, CallersKnown, TypeInv, CallsOK
  <2> QED BY <2>1, <2>2 DEF SafeInv, NoLostWakeup, Walk, QueuesKept
<1>9. NoCameraLost'
  BY DEF SafeInv, NoCameraLost, ReleaseSent, Has, Walk, QueuesKept
<1> QED BY <1>3, <1>4, <1>5, <1>6, <1>7, <1>8, <1>9 DEF SafeInv

(* The blocked caller goes on: the signal is open, so OPEN_CAMERA, which   *)
(* closes it, was handled.                                                 *)
LEMMA SafeUnblock ==
  ASSUME TypeInv, SafeInv, NEW t \in Threads, Unblock(t)
  PROVE  SafeInv'
<1> DEFINE where == CASE pc[t] = "opening" -> "assign"
                      [] pc[t] = "releasing" -> "quit"
                      [] pc[t] = "stopping" -> "restart"
<1>1. /\ pc'[t] = where /\ \A u \in Threads \ {t} : pc'[u] = pc[u]
      /\ pc[t] \in Blocked /\ signal[mine[t]] /\ mine[t] \in Proxies
  <2>1. mine[t] \in Proxies
    BY DEF Unblock, SafeInv, CallersKnown, TypeInv, CallsOK
  <2> QED BY <2>1 DEF Unblock, Go, TypeInv, CallsOK
<1>2. UNCHANGED <<sCameraProxy, camera, released, signal, messages, quitting, mine, events, overlapped>>
  BY DEF Unblock, fieldVars, proxyVars, glVars, historyVars
<1>3. \/ (pc[t] = "opening" /\ where = "assign")
      \/ (pc[t] = "releasing" /\ where = "quit")
      \/ (pc[t] = "stopping" /\ where = "restart")
  BY <1>1 DEF Blocked
<1> HIDE DEF where
<1>4. OpenIsFirst'
  <2> SUFFICES ASSUME NEW p \in Proxies, Has(messages[p], "OPEN")
               PROVE  t # "async"
    BY <1>1, <1>2, ThreadsAre DEF SafeInv, OpenIsFirst
  <2> QED BY <1>1 DEF SafeInv, OpenIsFirst
<1>5. CallersKnown'
  BY <1>1, <1>2, <1>3, ThreadsAre DEF SafeInv, CallersKnown, Releasing, Blocked
<1>6. ViewWaits' /\ ReleasedGivenBack'
  BY <1>1, <1>2, <1>3, ThreadsAre DEF SafeInv, ViewWaits, ReleasedGivenBack
<1>7. OneReleases'
  BY <1>1, <1>2, <1>3, ThreadsAre DEF SafeInv, OneReleases, Releasing
<1>8. OldGivenBack' /\ NoCameraLost'
  BY <1>1, <1>2, <1>3, ThreadsAre DEF SafeInv, OldGivenBack, NoCameraLost, ReleaseSent, Has
<1>9. NoLostWakeup'
  BY <1>1, <1>2, <1>3 DEF SafeInv, NoLostWakeup, Blocked
<1> QED BY <1>4, <1>5, <1>6, <1>7, <1>8, <1>9 DEF SafeInv

(* stopPreview(): the message is queued before the caller blocks.          *)
LEMMA SafeStopPreview ==
  ASSUME TypeInv, SafeInv, StopPreview
  PROVE  SafeInv'
<1>1. UNCHANGED <<sCameraProxy, camera, released, quitting, events, overlapped>>
  BY DEF StopPreview, fieldVars, glVars, historyVars
<1>2. pc["gl"] = "idle" /\ events = <<>>
  BY DEF StopPreview, SafeInv, ViewWaits
<1>3. CASE sCameraProxy = None
  <2>1. UNCHANGED <<signal, messages, callVars>>
    BY <1>3 DEF StopPreview
  <2> QED BY <1>1, <1>2, <2>1, NobodyWalks DEF Walk, QueuesKept, ViewWaits, callVars
<1>4. CASE sCameraProxy # None
  <2> DEFINE p == sCameraProxy
  <2>1. /\ p \in Proxies /\ signal' = [signal EXCEPT ![p] = FALSE] /\ SendTo(p, <<Call>>)
        /\ mine' = [mine EXCEPT !["ui"] = p] /\ Go("ui", "stopping")
    BY <1>4 DEF StopPreview, SendAndBlock, TypeInv, FieldsOK
  <2>2. QueuesKept /\ (quitting[p] \/ messages'[p] # <<>>)
    <3>1. Call \in Sendable /\ Call.what # "OPEN"
      BY NoneTyped DEF Call, Message
    <3> QED BY <2>1, <3>1, SentKept DEF TypeInv
  <2>3. /\ pc'["ui"] = "stopping" /\ \A u \in Threads \ {"ui"} : pc'[u] = pc[u] /\ mine'[u] = mine[u]
        /\ mine'["ui"] = p /\ pc'["async"] = pc["async"] /\ mine'["async"] = mine["async"]
    BY <2>1, ThreadsAre DEF Go, TypeInv, CallsOK
  <2>4. \A q \in Proxies : ~signal[q] => ~signal'[q]
    BY <2>1 DEF TypeInv, ProxiesOK
  <2>5. \A q \in Proxies : q # p => signal'[q] = signal[q]
    BY <2>1 DEF TypeInv, ProxiesOK
  <2>6. OpenIsFirst'
    <3> SUFFICES ASSUME NEW q \in Proxies
                 PROVE  /\ OpenFirst(messages'[q])
                        /\ Has(messages'[q], "OPEN") =>
                             /\ pc'["async"] = "opening" /\ mine'["async"] = q /\ q # sCameraProxy'
                             /\ ~signal'[q] /\ ~released'[q] /\ ~quitting'[q]
                             /\ \A u \in CallbackThreads : mine'[u] # q
      BY DEF OpenIsFirst
    <3> QED BY <1>1, <2>2, <2>3, <2>4, ThreadsAre DEF SafeInv, OpenIsFirst, QueuesKept
  <2>7. CallersKnown'
    BY <1>1, <1>4, <2>3, ThreadsAre DEF SafeInv, CallersKnown, Releasing, Blocked
  <2>8. ViewWaits'
    BY <1>1, <1>2, <2>3, ThreadsAre DEF ViewWaits
  <2>9. ReleasedGivenBack' /\ OneReleases'
    BY <1>1, <2>2, <2>3, ThreadsAre DEF SafeInv, ReleasedGivenBack, OneReleases, QueuesKept, Releasing
  <2>10. OldGivenBack' /\ NoCameraLost'
    BY <1>1, <2>1, <2>2, <2>3
       DEF SafeInv, OldGivenBack, NoCameraLost, ReleaseSent, Has, QueuesKept
  <2>11. NoLostWakeup'
    <3> SUFFICES ASSUME NEW u \in Threads, pc'[u] \in Blocked
                 PROVE  signal'[mine'[u]] \/ messages'[mine'[u]] # <<>> \/ quitting'[mine'[u]]
      BY DEF NoLostWakeup
    <3>1. CASE mine'[u] = p
      BY <1>1, <2>2, <3>1
    <3>2. CASE mine'[u] # p
      <4>1. u # "ui" /\ pc[u] \in Blocked /\ mine'[u] = mine[u]
        BY <2>3, <3>2
      <4>2. mine[u] \in Proxies
        BY <4>1 DEF SafeInv, CallersKnown, TypeInv, CallsOK
      <4> QED BY <1>1, <2>2, <2>5, <3>2, <4>1, <4>2 DEF SafeInv, NoLostWakeup, QueuesKept
    <3> QED BY <3>1, <3>2
  <2> QED BY <2>6, <2>7, <2>8, <2>9, <2>10, <2>11 DEF SafeInv
<1> QED BY <1>3, <1>4

(* releaseCamera(), step by step. Marked as released, the proxy is given   *)
(* RELEASE_CAMERA unless its looper quit, and then an earlier release did. *)
LEMMA SafeReleaseSend ==
  ASSUME TypeInv, SafeInv, NEW t \in Threads, NEW done \in {"idle", "construct"},
         t = "async" <=> done = "construct", ReleaseSend(t, done)
  PROVE  SafeInv'
<1>1. UNCHANGED <<sCameraProxy, camera, quitting, events>> /\ pc[t] = "release"
  BY DEF ReleaseSend, fieldVars, glVars
<1>2. CASE sCameraProxy = None
  <2>1. Go(t, done) /\ UNCHANGED <<released, signal, messages, mine, overlapped>>
    BY <1>2 DEF ReleaseSend
  <2>2. Walk
    BY <1>1, <2>1 DEF Walk, QueuesKept
  <2>3. ViewWaits'
    BY <1>1, <2>1, ThreadsAre DEF Go, TypeInv, CallsOK, SafeInv, ViewWaits
  <2>4. CASE t = "async"
    BY <1>1, <1>2, <2>1, <2>2, <2>3, <2>4, AsyncWalk
  <2>5. CASE t # "async"
    <3>1. t \in CallbackThreads /\ done = "idle"
      BY <2>5, ThreadsAre
    <3> QED BY <2>1, <2>2, <2>3, <3>1, CallbackWalk
  <2> QED BY <2>4, <2>5
<1>3. CASE sCameraProxy # None
  <2> DEFINE p == sCameraProxy
  <2>1. /\ p \in Proxies /\ signal' = [signal EXCEPT ![p] = FALSE]
        /\ released' = [released EXCEPT ![p] = TRUE]
        /\ SendTo(p, <<Message("RELEASE", None)>>)
        /\ mine' = [mine EXCEPT ![t] = p] /\ Go(t, "releasing")
    BY <1>3 DEF ReleaseSend, SendAndBlock, TypeInv, FieldsOK
  <2>2. /\ QueuesKept
        /\ quitting[p] \/ (messages'[p] # <<>> /\ Has(messages'[p], "RELEASE"))
    <3>1. Message("RELEASE", None) \in Sendable /\ Message("RELEASE", None).what = "RELEASE"
      BY MessageTyped, NoneTyped DEF Message
    <3> QED BY <2>1, <3>1, SentKept DEF TypeInv
  <2>3. /\ pc'[t] = "releasing" /\ mine'[t] = p
        /\ \A u \in Threads \ {t} : pc'[u] = pc[u] /\ mine'[u] = mine[u]
    BY <2>1 DEF Go, TypeInv, CallsOK
  <2>4. \A q \in Proxies : q # p => signal'[q] = signal[q] /\ released'[q] = released[q]
    BY <2>1 DEF TypeInv, ProxiesOK
  <2>5. ~signal'[p] /\ released'[p]
    BY <2>1 DEF TypeInv, ProxiesOK
  <2>6. OpenIsFirst'
    <3> SUFFICES ASSUME NEW q \in Proxies
                 PROVE  /\ OpenFirst(messages'[q])
                        /\ Has(messages'[q], "OPEN") =>
                             /\ pc'["async"] = "opening" /\ mine'["async"] = q /\ q # sCameraProxy'
                             /\ ~signal'[q] /\ ~released'[q] /\ ~quitting'[q]
                             /\ \A u \in CallbackThreads : mine'[u] # q
      BY DEF OpenIsFirst
    <3> QED BY <1>1, <2>2, <2>3, <2>4, <2>5, ThreadsAre DEF SafeInv, OpenIsFirst, QueuesKept
  <2>7. CallersKnown'
    BY <1>1, <1>3, <2>1, <2>3, <2>4, <2>5, ThreadsAre
       DEF SafeInv, CallersKnown, Releasing, Blocked, TypeInv, CallsOK
  <2>8. ViewWaits'
    BY <1>1, <2>3, ThreadsAre DEF SafeInv, ViewWaits
  <2>9. ReleasedGivenBack'
    <3> SUFFICES ASSUME NEW q \in Proxies, released'[q], camera[q] = "open"
                 PROVE  Has(messages'[q], "RELEASE")
      BY <1>1 DEF ReleasedGivenBack
    <3>1. CASE q = p
      BY <2>2, <3>1 DEF SafeInv, CallersKnown, ReleasedGivenBack, QueuesKept
    <3>2. CASE q # p
      BY <2>2, <2>4, <3>2 DEF SafeInv, ReleasedGivenBack, QueuesKept
    <3> QED BY <3>1, <3>2
  <2>10. overlapped' = (overlapped \/ IF t = "async" THEN \E u \in {"ui", "gl"} : Releasing(u)
                                     ELSE pc["async"] # "idle")
    BY <1>3 DEF ReleaseSend
  <2>11. OneReleases'
    <3>1. (Releasing("async"))' => sCameraProxy' \in {mine'["async"], None}
      BY <1>1, <2>3, ThreadsAre DEF SafeInv, OneReleases, Releasing
    <3>2. ASSUME NEW u \in CallbackThreads, (Releasing(u))', ~overlapped'
          PROVE  sCameraProxy' = mine'[u] /\ pc'["async"] \in {"idle", "check", "release"}
      <4>1. ~overlapped
        BY <2>10, <3>2
      <4>2. CASE u = t
        BY <1>1, <2>3, <2>10, <3>2, <4>2, ThreadsAre
      <4>3. CASE u # t
        <5>1. Releasing(u) /\ mine'[u] = mine[u]
          BY <2>3, <3>2, <4>3, ThreadsAre DEF Releasing
        <5>2. t # "async"
          BY <2>10, <3>2, <5>1 DEF CallbackThreads
        <5> QED BY <1>1, <2>3, <4>1, <5>1, <5>2, ThreadsAre DEF SafeInv, OneReleases
      <4> QED BY <4>2, <4>3
    <3> QED BY <3>1, <3>2 DEF OneReleases
  <2>12. OldGivenBack'
    <3>1. overlapped => overlapped'
      BY <2>10
    <3>2. t # "async" => pc'["async"] = pc["async"]
      BY <2>3, ThreadsAre
    <3> QED BY <1>1, <2>1, <2>2, <2>3, <3>1, <3>2 DEF SafeInv, OldGivenBack, QueuesKept
  <2>13. NoCameraLost'
    <3> SUFFICES ASSUME NEW q \in Proxies, camera[q] = "open"
                 PROVE  q = p \/ mine'["async"] = q \/ Has(messages'[q], "RELEASE") \/ overlapped'
      BY <1>1 DEF NoCameraLost, ReleaseSent, Has
    <3>1. q = p \/ mine["async"] = q \/ Has(messages[q], "RELEASE") \/ overlapped
      BY DEF SafeInv, NoCameraLost, ReleaseSent, Has
    <3>2. t = "async" => mine["async"] = None
      BY <1>1 DEF SafeInv, CallersKnown, Releasing
    <3>3. t # "async" => mine'["async"] = mine["async"]
      BY <2>3, ThreadsAre
    <3> QED BY <2>2, <2>10, <3>1, <3>2, <3>3, NoneIsNone DEF QueuesKept
  <2>14. NoLostWakeup'
    <3> SUFFICES ASSUME NEW u \in Threads, pc'[u] \in Blocked
                 PROVE  signal'[mine'[u]] \/ messages'[mine'[u]] # <<>> \/ quitting'[mine'[u]]
      BY DEF NoLostWakeup
    <3>1. CASE mine'[u] = p
      BY <1>1, <2>2, <3>1
    <3>2. CASE mine'[u] # p
      <4>1. u # t /\ pc[u] \in Blocked /\ mine'[u] = mine[u]
        BY <2>3, <3>2
      <4>2. mine[u] \in Proxies
        BY <4>1 DEF SafeInv, CallersKnown, TypeInv, CallsOK
      <4> QED BY <1>1, <2>2, <2>4, <3>2, <4>1, <4>2 DEF SafeInv, NoLostWakeup, QueuesKept
    <3> QED BY <3>1, <3>2
  <2> QED BY <2>6, <2>7, <2>8, <2>9, <2>11, <2>12, <2>13, <2>14 DEF SafeInv
<1> QED BY <1>2, <1>3

LEMMA SafeReleaseQuit ==
  ASSUME TypeInv, SafeInv, NEW t \in Threads, ReleaseQuit(t)
  PROVE  SafeInv'
<1>1. /\ UNCHANGED <<sCameraProxy, camera, released, signal, messages, mine, events, overlapped>>
      /\ pc[t] = "quit" /\ pc'[t] = "forget" /\ \A u \in Threads \ {t} : pc'[u] = pc[u]
  BY DEF ReleaseQuit, fieldVars, glVars, historyVars, Go, TypeInv, CallsOK
<1>2. mine[t] \in Proxies /\ released[mine[t]]
  BY <1>1 DEF SafeInv, CallersKnown, Releasing, TypeInv, CallsOK
<1>3. quitting'[mine[t]] /\ \A q \in Proxies : q # mine[t] => quitting'[q] = quitting[q]
  BY <1>2 DEF ReleaseQuit, TypeInv, ProxiesOK
<1>4. OpenIsFirst'
  <2> SUFFICES ASSUME NEW p \in Proxies, Has(messages[p], "OPEN")
               PROVE  t # "async" /\ p # mine[t]
    BY <1>1, <1>3, ThreadsAre DEF SafeInv, OpenIsFirst
  <2> QED BY <1>1, ThreadsAre DEF SafeInv, OpenIsFirst
<1>5. CallersKnown'
  BY <1>1, <1>2, <1>3, ThreadsAre DEF SafeInv, CallersKnown, Releasing, Blocked
<1>6. ViewWaits' /\ ReleasedGivenBack'
  BY <1>1, ThreadsAre DEF SafeInv, ViewWaits, ReleasedGivenBack
<1>7. OneReleases'
  BY <1>1, ThreadsAre DEF SafeInv, OneReleases, Releasing
<1>8. OldGivenBack' /\ NoCameraLost'
  BY <1>1, ThreadsAre DEF SafeInv, OldGivenBack, NoCameraLost, ReleaseSent, Has
<1>9. NoLostWakeup'
  <2> SUFFICES ASSUME NEW u \in Threads, pc'[u] \in Blocked
               PROVE  signal[mine[u]] \/ messages[mine[u]] # <<>> \/ quitting'[mine[u]]
    BY <1>1 DEF NoLostWakeup
  <2>1. pc[u] \in Blocked /\ mine[u] \in Proxies
    BY <1>1 DEF Blocked, SafeInv, CallersKnown, TypeInv, CallsOK
  <2> QED BY <1>3, <2>1 DEF SafeInv, NoLostWakeup
<1> QED BY <1>4, <1>5, <1>6, <1>7, <1>8, <1>9 DEF SafeInv

(* The field is made null: it held the proxy that was released, or another *)
(* thread released beside this one.                                        *)
LEMMA SafeReleaseForget ==
  ASSUME TypeInv, SafeInv, NEW t \in Threads, NEW done \in {"idle", "construct"},
         t = "async" <=> done = "construct", ReleaseForget(t, done)
  PROVE  SafeInv'
<1>1. /\ UNCHANGED <<camera, released, signal, messages, quitting, events, overlapped>>
      /\ sCameraProxy' = None /\ pc[t] = "forget" /\ pc'[t] = done /\ mine'[t] = None
      /\ \A u \in Threads \ {t} : pc'[u] = pc[u] /\ mine'[u] = mine[u]
  BY DEF ReleaseForget, proxyVars, glVars, historyVars, Go, TypeInv, CallsOK
<1>2. mine[t] \in Proxies /\ released[mine[t]]
  BY <1>1 DEF SafeInv, CallersKnown, Releasing, TypeInv, CallsOK
<1>3. OpenIsFirst'
  <2> SUFFICES ASSUME NEW p \in Proxies, Has(messages[p], "OPEN")
               PROVE  t # "async" /\ p # None
    BY <1>1, ThreadsAre DEF SafeInv, OpenIsFirst
  <2> QED BY <1>1, NoneIsNone DEF SafeInv, OpenIsFirst
<1>4. CallersKnown'
  BY <1>1, ThreadsAre DEF SafeInv, CallersKnown, Releasing, Blocked
<1>5. ViewWaits' /\ ReleasedGivenBack'
  BY <1>1, ThreadsAre DEF SafeInv, ViewWaits, ReleasedGivenBack
<1>6. OneReleases'
  <2>1. ASSUME NEW u \in CallbackThreads, (Releasing(u))', ~overlapped
        PROVE  FALSE
    <3>1. u # t /\ Releasing(u)
      BY <1>1, <2>1, ThreadsAre DEF Releasing
    <3>2. t = "async"
      <4>1. u = "ui" => pc["gl"] = "idle"
        BY <3>1 DEF SafeInv, ViewWaits, Releasing
      <4>2. u = "gl" => pc["ui"] \in {"pausing", "changing"}
        BY <3>1 DEF SafeInv, ViewWaits, Releasing
      <4> QED BY <1>1, <2>1, <3>1, <4>1, <4>2 DEF Threads, CallbackThreads
    <3> QED BY <1>1, <2>1, <3>1, <3>2 DEF SafeInv, OneReleases
  <2> QED BY <1>1, <2>1 DEF OneReleases
<1>7. OldGivenBack'
  BY <1>1 DEF OldGivenBack
<1>8. NoLostWakeup'
  BY <1>1 DEF SafeInv, NoLostWakeup, Blocked
<1>9. NoCameraLost'
  <2> SUFFICES ASSUME NEW p \in Proxies, camera[p] = "open", ~overlapped
               PROVE  mine'["async"] = p \/ Has(messages[p], "RELEASE")
    BY <1>1 DEF NoCameraLost, ReleaseSent, Has
  <2>1. p = sCameraProxy \/ mine["async"] = p \/ Has(messages[p], "RELEASE")
    BY DEF SafeInv, NoCameraLost, ReleaseSent, Has
  <2>2. sCameraProxy \in {mine[t], None}
    BY <1>1, ThreadsAre DEF SafeInv, OneReleases, Releasing
  <2>3. p = mine[t] => Has(messages[p], "RELEASE")
    BY <1>2 DEF SafeInv, ReleasedGivenBack
  <2>4. t # "async" => mine'["async"] = mine["async"]
    BY <1>1, ThreadsAre
  <2> QED BY <2>1, <2>2, <2>3, <2>4, NoneIsNone
<1> QED BY <1>3, <1>4, <1>5, <1>6, <1>7, <1>8, <1>9 DEF SafeInv

LEMMA SafeRelease ==
  ASSUME TypeInv, SafeInv, NEW t \in Threads, NEW done \in {"idle", "construct"},
         t = "async" <=> done = "construct", ReleaseCamera(t, done)
  PROVE  SafeInv'
<1>1. CASE ReleaseCheck(t, done)
  <2> DEFINE where == IF sCameraProxy # None THEN "release" ELSE done
  <2>1. /\ Go(t, where) /\ pc[t] = "check" /\ UNCHANGED <<mine, events>>
        /\ UNCHANGED <<sCameraProxy, camera, released, signal, messages, quitting, overlapped>>
    BY <1>1 DEF ReleaseCheck, fieldVars, proxyVars, glVars, historyVars
  <2>2. Walk
    BY <2>1 DEF Walk, QueuesKept
  <2>3. ViewWaits'
    BY <2>1, ThreadsAre DEF Go, TypeInv, CallsOK, SafeInv, ViewWaits
  <2>4. CASE t = "async"
    BY <2>1, <2>2, <2>3, <2>4, AsyncWalk
  <2>5. CASE t # "async"
    <3>1. t \in CallbackThreads /\ where \in {"idle", "release"}
      BY <2>5, ThreadsAre
    <3> QED BY <2>1, <2>2, <2>3, <3>1, CallbackWalk
  <2> QED BY <2>4, <2>5
<1> QED BY <1>1, SafeReleaseSend, SafeReleaseQuit, SafeReleaseForget DEF ReleaseCamera

(* The camera thread: OPEN_CAMERA may give its proxy a camera, and then the *)
(* constructor's caller has it; a camera is given back by RELEASE_CAMERA or *)
(* by a call that threw; the signal is open after every message.           *)
LEMMA SafeHandleMessage ==
  ASSUME TypeInv, SafeInv, NEW p \in Proxies, HandleMessage(p)
  PROVE  SafeInv'
<1> DEFINE m == Head(messages[p])
           throws == /\ m.what \in {"CALL", "TEXTURE"}
                     /\ camera[p] # "open" \/ (m.what = "TEXTURE" /\ m.st # surface)
<1>1. /\ UNCHANGED <<sCameraProxy, quitting, pc, mine, events, overlapped>>
      /\ messages[p] # <<>> /\ messages[p] \in Seq(Sendable)
      /\ messages'[p] = Tail(messages[p])
      /\ \A q \in Proxies \ {p} : /\ messages'[q] = messages[q] /\ signal'[q] = signal[q]
                                  /\ released'[q] = released[q] /\ camera'[q] = camera[q]
      /\ signal'[p]
  BY DEF HandleMessage, OpenSignal, fieldVars, callVars, glVars, TypeInv, ProxiesOK
<1>2. released'[p] = (released[p] \/ (throws /\ camera[p] # "none"))
  BY DEF HandleMessage, TypeInv, ProxiesOK
<1>3. /\ m.what # "OPEN" /\ camera'[p] = "open" => camera[p] = "open" /\ m.what # "RELEASE" /\ ~throws
      /\ throws => m.what \notin {"OPEN", "RELEASE"}
  BY DEF HandleMessage, TypeInv, ProxiesOK
<1> HIDE DEF throws
<1>4. /\ OpenFirst(messages[p]) => OpenFirst(messages'[p]) /\ ~Has(messages'[p], "OPEN")
      /\ Has(messages[p], "RELEASE") /\ m.what # "RELEASE" => Has(messages'[p], "RELEASE")
      /\ m.what = "OPEN" => Has(messages[p], "OPEN")
  BY <1>1, QueueTail
<1> HIDE DEF m
<1>5. /\ OpenFirst(messages[p])
      /\ m.what = "OPEN" => /\ mine["async"] = p /\ p # sCameraProxy /\ ~released[p]
                            /\ pc["async"] = "opening" /\ \A t \in CallbackThreads : mine[t] # p
  BY <1>4 DEF SafeInv, OpenIsFirst
<1>6. OpenIsFirst'
  <2> SUFFICES ASSUME NEW q \in Proxies
               PROVE  /\ OpenFirst(messages'[q])
                      /\ Has(messages'[q], "OPEN") =>
                           /\ pc["async"] = "opening" /\ mine["async"] = q /\ q # sCameraProxy
                           /\ ~signal'[q] /\ ~released'[q] /\ ~quitting[q]
                           /\ \A u \in CallbackThreads : mine[u] # q
    BY <1>1 DEF OpenIsFirst
  <2>1. CASE q = p
    BY <1>4, <1>5, <2>1
  <2>2. CASE q # p
    BY <1>1, <2>2 DEF SafeInv, OpenIsFirst
  <2> QED BY <2>1, <2>2
<1>7. \A q \in Proxies : released[q] => released'[q]
  BY <1>1, <1>2
<1>8. CallersKnown'
  <2>1. \A t \in Threads : Releasing(t) => mine[t] \in Proxies
    BY DEF SafeInv, CallersKnown, Releasing, Blocked, TypeInv, CallsOK
  <2> QED BY <1>1, <1>7, <2>1 DEF SafeInv, CallersKnown, Releasing
<1>9. ViewWaits' /\ OneReleases'
  BY <1>1 DEF SafeInv, ViewWaits, OneReleases, Releasing
<1>10. ReleasedGivenBack'
  <2> SUFFICES ASSUME NEW q \in Proxies, released'[q], camera'[q] = "open"
               PROVE  Has(messages'[q], "RELEASE")
    BY DEF ReleasedGivenBack
  <2>1. CASE q # p
    BY <1>1, <2>1 DEF SafeInv, ReleasedGivenBack
  <2>2. CASE q = p
    <3>1. released[p] /\ m.what # "OPEN"
      BY <1>2, <1>3, <1>5, <2>2
    <3> QED BY <1>3, <1>4, <2>2, <3>1 DEF SafeInv, ReleasedGivenBack
  <2> QED BY <2>1, <2>2
<1>11. OldGivenBack'
  <2> SUFFICES ASSUME pc["async"] \in {"sleep", "construct", "opening", "assign"},
                      sCameraProxy # None, camera'[sCameraProxy] = "open", ~overlapped
               PROVE  Has(messages'[sCameraProxy], "RELEASE")
    BY <1>1 DEF OldGivenBack
  <2>1. camera[sCameraProxy] # "open" \/ Has(messages[sCameraProxy], "RELEASE")
    BY DEF SafeInv, OldGivenBack
  <2>2. sCameraProxy \in Proxies
    BY DEF TypeInv, FieldsOK
  <2> QED BY <1>1, <1>3, <1>4, <1>5, <2>1, <2>2
<1>12. NoLostWakeup'
  <2> SUFFICES ASSUME NEW u \in Threads, pc[u] \in Blocked
               PROVE  signal'[mine[u]] \/ messages'[mine[u]] # <<>> \/ quitting[mine[u]]
    BY <1>1 DEF NoLostWakeup
  <2>1. mine[u] \in Proxies
    BY DEF SafeInv, CallersKnown, TypeInv, CallsOK
  <2> QED BY <1>1, <2>1 DEF SafeInv, NoLostWakeup
<1>13. NoCameraLost'
  <2> SUFFICES ASSUME NEW q \in Proxies, camera'[q] = "open", ~overlapped
               PROVE  q = sCameraProxy \/ mine["async"] = q \/ Has(messages'[q], "RELEASE")
    BY <1>1 DEF NoCameraLost, ReleaseSent, Has
  <2>1. camera[q] = "open" => q = sCameraProxy \/ mine["async"] = q \/ Has(messages[q], "RELEASE")
    BY DEF SafeInv, NoCameraLost, ReleaseSent, Has
  <2> QED BY <1>1, <1>3, <1>4, <1>5, <2>1
<1> QED BY <1>6, <1>8, <1>9, <1>10, <1>11, <1>12, <1>13 DEF SafeInv

(* new CameraProxy(id), in a proxy nothing refers to.                      *)
LEMMA SafeConstruct ==
  ASSUME TypeInv, SafeInv, Construct
  PROVE  SafeInv'
<1>1. PICK p \in Proxies :
        /\ Unused(p)
        /\ camera' = [camera EXCEPT ![p] = "none"]
        /\ released' = [released EXCEPT ![p] = FALSE]
        /\ quitting' = [quitting EXCEPT ![p] = FALSE]
        /\ signal' = [signal EXCEPT ![p] = FALSE]
        /\ messages' = [messages EXCEPT ![p] = <<Message("OPEN", None)>>]
        /\ mine' = [mine EXCEPT !["async"] = p]
  BY DEF Construct
<1>2. /\ UNCHANGED <<sCameraProxy, events, overlapped>> /\ pc["async"] = "construct"
      /\ pc'["async"] = "opening" /\ mine'["async"] = p
      /\ \A u \in Threads \ {"async"} : pc'[u] = pc[u] /\ mine'[u] = mine[u]
  BY <1>1, ThreadsAre DEF Construct, fieldVars, glVars, historyVars, Go, TypeInv, CallsOK
<1>3. /\ camera'[p] = "none" /\ ~released'[p] /\ ~quitting'[p] /\ ~signal'[p]
      /\ messages'[p] = <<Message("OPEN", None)>>
      /\ \A q \in Proxies \ {p} : /\ messages'[q] = messages[q] /\ signal'[q] = signal[q]
                                  /\ released'[q] = released[q] /\ camera'[q] = camera[q]
                                  /\ quitting'[q] = quitting[q]
  BY <1>1 DEF TypeInv, ProxiesOK
<1>4. OpenFirst(messages'[p]) /\ Has(messages'[p], "OPEN") /\ messages'[p] # <<>>
  BY <1>3, QueueOne DEF Message
<1>5. /\ p # sCameraProxy /\ \A t \in Threads : mine[t] # p
      /\ mine["async"] = None
  BY <1>1, <1>2 DEF Unused, SafeInv, CallersKnown, Releasing
<1>6. OpenIsFirst'
  <2> SUFFICES ASSUME NEW q \in Proxies
               PROVE  /\ OpenFirst(messages'[q])
                      /\ Has(messages'[q], "OPEN") =>
                           /\ pc'["async"] = "opening" /\ mine'["async"] = q /\ q # sCameraProxy
                           /\ ~signal'[q] /\ ~released'[q] /\ ~quitting'[q]
                           /\ \A u \in CallbackThreads : mine'[u] # q
    BY <1>2 DEF OpenIsFirst
  <2>1. CASE q = p
    BY <1>2, <1>3, <1>4, <1>5, <2>1, ThreadsAre
  <2>2. CASE q # p
    BY <1>2, <1>3, <2>2 DEF SafeInv, OpenIsFirst
  <2> QED BY <2>1, <2>2
<1>7. CallersKnown'
  <2>1. \A t \in Threads : pc[t] \in Blocked \cup {"quit", "forget", "assign"} => mine[t] \in Proxies
    BY DEF SafeInv, CallersKnown, TypeInv, CallsOK
  <2>2. ASSUME NEW t \in Threads, (Releasing(t))' PROVE released'[mine'[t]]
    <3>1. t # "async" /\ Releasing(t) /\ mine'[t] = mine[t] /\ mine[t] # p
      BY <1>2, <1>5, <2>2 DEF Releasing
    <3>2. mine[t] \in Proxies /\ released[mine[t]]
      BY <2>1, <3>1 DEF Releasing, Blocked, SafeInv, CallersKnown
    <3> QED BY <1>3, <3>1, <3>2
  <2>3. \A q \in Proxies : quitting'[q] => released'[q]
    BY <1>3 DEF SafeInv, CallersKnown
  <2>4. \A t \in Threads : pc'[t] \in Blocked \cup {"quit", "forget", "assign"} => mine'[t] # None
    BY <1>2, <2>1, NoneIsNone
  <2> QED BY <1>2, <2>2, <2>3, <2>4, ThreadsAre DEF SafeInv, CallersKnown
<1>8. ViewWaits' /\ OneReleases'
  BY <1>2, ThreadsAre DEF SafeInv, ViewWaits, OneReleases, Releasing
<1>9. ReleasedGivenBack'
  BY <1>3 DEF SafeInv, ReleasedGivenBack
<1>10. OldGivenBack'
  BY <1>2, <1>3, <1>5 DEF SafeInv, OldGivenBack, TypeInv, FieldsOK
<1>11. NoLostWakeup'
  <2> SUFFICES ASSUME NEW u \in Threads, pc'[u] \in Blocked
               PROVE  signal'[mine'[u]] \/ messages'[mine'[u]] # <<>> \/ quitting'[mine'[u]]
    BY DEF NoLostWakeup
  <2>1. CASE u = "async"
    BY <1>2, <1>4, <2>1
  <2>2. CASE u # "async"
    <3>1. pc[u] \in Blocked /\ mine'[u] = mine[u] /\ mine[u] # p
      BY <1>2, <1>5, <2>2
    <3>2. mine[u] \in Proxies
      BY <3>1 DEF SafeInv, CallersKnown, TypeInv, CallsOK
    <3> QED BY <1>3, <3>1, <3>2 DEF SafeInv, NoLostWakeup
  <2> QED BY <2>1, <2>2
<1>12. NoCameraLost'
  <2> SUFFICES ASSUME NEW q \in Proxies, camera'[q] = "open", ~overlapped
               PROVE  q = sCameraProxy \/ mine'["async"] = q \/ Has(messages'[q], "RELEASE")
    BY <1>2 DEF NoCameraLost, ReleaseSent, Has
  <2>1. q # p /\ camera[q] = "open" /\ messages'[q] = messages[q]
    BY <1>3
  <2>2. q = sCameraProxy \/ mine["async"] = q \/ Has(messages[q], "RELEASE")
    BY <2>1 DEF SafeInv, NoCameraLost, ReleaseSent, Has
  <2> QED BY <1>5, <2>1, <2>2, NoneIsNone
<1> QED BY <1>6, <1>7, <1>8, <1>9, <1>10, <1>11, <1>12 DEF SafeInv

(* The constructor's proxy replaces the one in the field, whose camera is  *)
(* given back.                                                             *)
LEMMA SafeAssign ==
  ASSUME TypeInv, SafeInv, Assign
  PROVE  SafeInv'
<1> DEFINE p == mine["async"]
           list == IF camera[p] # "none" THEN <<Call>> ELSE <<>>
<1>1. /\ UNCHANGED <<camera, released, signal, quitting, events, overlapped>>
      /\ sCameraProxy' = p /\ mine' = [mine EXCEPT !["async"] = None]
      /\ SendTo(p, list) /\ pc["async"] = "assign"
      /\ pc'["async"] \in {"available", "params"}
      /\ \A u \in Threads \ {"async"} : pc'[u] = pc[u] /\ mine'[u] = mine[u]
      /\ mine'["async"] = None
  BY ThreadsAre DEF Assign, glVars, historyVars, Go, TypeInv, CallsOK
<1>2. p \in Proxies
  BY <1>1, ThreadsAre DEF SafeInv, CallersKnown, TypeInv, CallsOK
<1>3. QueuesKept
  <2>1. CASE camera[p] # "none"
    <3>1. Call \in Sendable /\ Call.what # "OPEN" /\ SendTo(p, <<Call>>)
      BY <1>1, <2>1, NoneTyped DEF Call, Message
    <3> QED BY <1>2, <3>1, SentKept DEF TypeInv
  <2>2. CASE camera[p] = "none"
    <3>1. SendTo(p, <<>>)
      BY <1>1, <2>2
    <3>2. messages \in [Proxies -> Seq(Sendable)]
      BY DEF TypeInv, ProxiesOK
    <3>3. messages[p] \o <<>> = messages[p]
      BY <1>2, <3>2, ConcatEmptySeq
    <3>4. UNCHANGED messages
      BY <1>2, <3>1, <3>2, <3>3 DEF SendTo
    <3> QED BY <3>4 DEF QueuesKept
  <2> QED BY <2>1, <2>2
<1> HIDE DEF list
<1>4. OpenIsFirst'
  BY <1>1, <1>3 DEF SafeInv, OpenIsFirst, QueuesKept
<1>5. CallersKnown'
  BY <1>1, ThreadsAre DEF SafeInv, CallersKnown, Releasing, Blocked
<1>6. ViewWaits' /\ ReleasedGivenBack'
  BY <1>1, <1>3, ThreadsAre DEF SafeInv, ViewWaits, ReleasedGivenBack, QueuesKept
<1>7. OneReleases'
  BY <1>1, ThreadsAre DEF SafeInv, OneReleases, Releasing
<1>8. OldGivenBack'
  BY <1>1 DEF OldGivenBack
<1>9. NoLostWakeup'
  <2> SUFFICES ASSUME NEW u \in Threads, pc'[u] \in Blocked
               PROVE  signal[mine'[u]] \/ messages'[mine'[u]] # <<>> \/ quitting[mine'[u]]
    BY <1>1 DEF NoLostWakeup
  <2>1. u # "async" /\ pc[u] \in Blocked /\ mine'[u] = mine[u]
    BY <1>1 DEF Blocked
  <2>2. mine[u] \in Proxies
    BY <2>1 DEF SafeInv, CallersKnown, TypeInv, CallsOK
  <2> QED BY <1>3, <2>1, <2>2 DEF SafeInv, NoLostWakeup, QueuesKept
<1>10. NoCameraLost'
  <2> SUFFICES ASSUME NEW q \in Proxies, camera[q] = "open", ~overlapped
               PROVE  q = p \/ Has(messages'[q], "RELEASE")
    BY <1>1 DEF NoCameraLost, ReleaseSent, Has
  <2>1. q = sCameraProxy \/ p = q \/ Has(messages[q], "RELEASE")
    BY DEF SafeInv, NoCameraLost, ReleaseSent, Has
  <2>2. q = sCameraProxy => Has(messages[q], "RELEASE")
    BY <1>1, NoneIsNone DEF SafeInv, OldGivenBack
  <2> QED BY <1>3, <2>1, <2>2 DEF QueuesKept
<1> QED BY <1>4, <1>5, <1>6, <1>7, <1>8, <1>9, <1>10 DEF SafeInv

LEMMA SafeAsync ==
  ASSUME TypeInv, SafeInv, Async
  PROVE  SafeInv'
<1>1. ASSUME NEW where, Go("async", where), UNCHANGED events
      PROVE  ViewWaits'
  BY <1>1 DEF Go, TypeInv, CallsOK, SafeInv, ViewWaits, Threads
<1>2. CASE StartTask
  <2>1. Go("async", "check") /\ Walk /\ UNCHANGED <<mine, events>>
    BY <1>2 DEF StartTask, Walk, QueuesKept, proxyVars, glVars
  <2> QED BY <1>1, <1>2, <2>1, AsyncWalk DEF StartTask
<1>3. CASE TaskFails
  <2>1. Go("async", "idle") /\ Walk /\ UNCHANGED <<mine, events>>
    BY <1>3 DEF TaskFails, EndTask, Walk, QueuesKept, fieldVars, proxyVars, glVars
  <2> QED BY <1>1, <1>3, <2>1, AsyncWalk DEF TaskFails
<1>4. CASE Available
  <2> DEFINE where == IF IsCameraAvailable(sCameraProxy) THEN "params" ELSE "sleep"
  <2>1. Go("async", where) /\ Walk /\ UNCHANGED <<mine, events>>
    BY <1>4 DEF Available, Walk, QueuesKept, fieldVars, proxyVars, glVars, historyVars
  <2>2. sCameraProxy \in Proxies
    BY <1>4 DEF Available, TypeInv, FieldsOK
  <2>3. where = "sleep" => camera[sCameraProxy] # "open" \/ Has(messages[sCameraProxy], "RELEASE")
    BY <2>2 DEF IsCameraAvailable, SafeInv, ReleasedGivenBack
  <2>4. pc["async"] = "available" /\ where \in {"params", "sleep"}
    BY <1>4 DEF Available
  <2> HIDE DEF where
  <2> QED BY <1>1, <2>1, <2>3, <2>4, AsyncWalk
<1>5. CASE Sleep
  <2> DEFINE where == IF tryCount <= MaxTries THEN "construct" ELSE "params"
  <2>1. Go("async", where) /\ Walk /\ UNCHANGED <<mine, events>> /\ pc["async"] = "sleep"
    BY <1>5 DEF Sleep, Walk, QueuesKept, fieldVars, proxyVars, glVars, historyVars
  <2>2. where \in {"params", "construct"}
    OBVIOUS
  <2>3. sCameraProxy # None =>
          camera[sCameraProxy] # "open" \/ Has(messages[sCameraProxy], "RELEASE") \/ overlapped
    BY <2>1 DEF SafeInv, OldGivenBack
  <2> HIDE DEF where
  <2> QED BY <1>1, <2>1, <2>2, <2>3, AsyncWalk
<1>6. CASE Configure
  <2>1. Go("async", "idle") /\ UNCHANGED <<mine, events>> /\ pc["async"] = "configure"
        /\ UNCHANGED <<sCameraProxy, camera, released, signal, quitting, overlapped>>
    BY <1>6 DEF Configure, EndTask, fieldVars, glVars
  <2>2. QueuesKept
    <3>1. CASE sCameraProxy # None
      <4>1. Call \in Sendable /\ Call.what # "OPEN" /\ SendTo(sCameraProxy, <<Call>>)
        BY <1>6, <3>1, NoneTyped DEF Call, Message, Configure
      <4> QED BY <3>1, <4>1, SentKept DEF TypeInv, FieldsOK
    <3>2. CASE sCameraProxy = None
      BY <1>6, <3>2 DEF Configure, QueuesKept
    <3> QED BY <3>1, <3>2
  <2> QED BY <1>1, <2>1, <2>2, AsyncWalk DEF Walk
<1>7. CASE Params
  <2> DEFINE goes == IF Opens THEN IsCameraAvailable(sCameraProxy) ELSE camera[sCameraProxy] # "none"
  <2>1. /\ UNCHANGED <<camera, released, signal, messages, quitting, mine, events, overlapped>>
        /\ pc["async"] = "params" /\ sCameraProxy \in Proxies
    BY <1>7 DEF Params, proxyVars, glVars, TypeInv, FieldsOK
  <2>2. CASE goes
    <3>1. Go("async", "configure") /\ UNCHANGED sCameraProxy
      BY <1>7, <2>2 DEF Params
    <3> QED BY <1>1, <2>1, <3>1, AsyncWalk DEF Walk, QueuesKept
  <2>3. CASE ~goes /\ ~Opens
    <3>1. Go("async", "idle") /\ UNCHANGED sCameraProxy
      BY <1>7, <2>3 DEF Params, EndTask
    <3> QED BY <1>1, <2>1, <3>1, AsyncWalk DEF Walk, QueuesKept
  <2>4. CASE ~goes /\ Opens
    <3>1. Go("async", "idle") /\ sCameraProxy' = None /\ ~IsCameraAvailable(sCameraProxy)
      BY <1>7, <2>4 DEF Params, EndTask
    <3>2. pc'["async"] = "idle" /\ \A u \in Threads \ {"async"} : pc'[u] = pc[u]
      BY <3>1, ThreadsAre DEF Go, TypeInv, CallsOK
    <3>3. mine["async"] = None
      BY <2>1 DEF SafeInv, CallersKnown, Releasing
    <3>4. OpenIsFirst' /\ ReleasedGivenBack'
      BY <2>1 DEF SafeInv, OpenIsFirst, ReleasedGivenBack
    <3>5. CallersKnown'
      BY <2>1, <3>2, <3>3, ThreadsAre DEF SafeInv, CallersKnown, Releasing, Blocked
    <3>6. ViewWaits' /\ OldGivenBack'
      BY <1>1, <2>1, <3>1, <3>2 DEF OldGivenBack
    <3>7. OneReleases'
      BY <2>1, <3>2, ThreadsAre DEF SafeInv, OneReleases, Releasing
    <3>8. NoLostWakeup'
      BY <2>1, <3>2 DEF SafeInv, NoLostWakeup, Blocked
    <3>9. NoCameraLost'
      <4> SUFFICES ASSUME NEW q \in Proxies, camera[q] = "open", ~overlapped
                   PROVE  Has(messages[q], "RELEASE")
        BY <2>1 DEF NoCameraLost, ReleaseSent, Has
      <4>1. q = sCameraProxy \/ Has(messages[q], "RELEASE")
        BY <3>3, NoneIsNone DEF SafeInv, NoCameraLost, ReleaseSent, Has
      <4> QED BY <3>1, <4>1 DEF IsCameraAvailable, SafeInv, ReleasedGivenBack
    <3> QED BY <3>4, <3>5, <3>6, <3>7, <3>8, <3>9 DEF SafeInv
  <2> QED BY <2>2, <2>3, <2>4
<1>8. CASE ReleaseCamera("async", "construct")
  BY <1>8, SafeRelease, ThreadsAre
<1> QED BY <1>2, <1>3, <1>4, <1>5, <1>6, <1>7, <1>8, SafeConstruct, SafeAssign DEF Async

LEMMA SafeGl ==
  ASSUME TypeInv, SafeInv, Gl
  PROVE  SafeInv'
<1>1. CASE RunEvent
  <2> DEFINE where == IF Head(events) = "pause" /\ ~sCameraReleased THEN "check" ELSE "idle"
  <2>1. Go("gl", where) /\ Walk /\ UNCHANGED mine /\ where \in {"check", "idle"}
    BY <1>1 DEF RunEvent, Walk, QueuesKept, fieldVars, proxyVars
  <2> HIDE DEF where
  <2>2. ViewWaits'
    BY <1>1, <2>1, ThreadsAre DEF RunEvent, SafeInv, ViewWaits, Go, TypeInv, CallsOK
  <2> QED BY <2>1, <2>2, CallbackWalk DEF CallbackThreads
<1>2. CASE OnSurfaceCreated
  <2>1. Walk /\ UNCHANGED <<pc, mine, events>>
    BY <1>2 DEF OnSurfaceCreated, Walk, QueuesKept, fieldVars, proxyVars, callVars, historyVars
  <2> QED BY <2>1, NobodyWalks DEF SafeInv, ViewWaits
<1>3. CASE ReleaseCamera("gl", "idle")
  BY <1>3, SafeRelease, ThreadsAre
<1> QED BY <1>1, <1>2, <1>3 DEF Gl

LEMMA SafeUiTask ==
  ASSUME TypeInv, SafeInv, UiTask
  PROVE  SafeInv'
<1>1. ASSUME pc["ui"] \in {"idle", "restart"}, UNCHANGED events, NEW where, Go("ui", where)
      PROVE  ViewWaits'
  BY <1>1, ThreadsAre DEF SafeInv, ViewWaits, Go, TypeInv, CallsOK
<1>2. CASE ViewPaused
  <2>1. Go("ui", "idle") /\ Walk /\ UNCHANGED mine
    BY <1>2 DEF ViewPaused, Walk, QueuesKept, fieldVars, proxyVars, historyVars
  <2>2. ViewWaits'
    BY <1>2, <2>1, ThreadsAre DEF ViewPaused, ViewWaits, Go, TypeInv, CallsOK
  <2> QED BY <2>1, <2>2, CallbackWalk DEF CallbackThreads
<1>3. CASE OnPostExecute
  <2> DEFINE where == IF Head(posts).what = "open" /\ finishing THEN "check" ELSE "idle"
  <2>1. Go("ui", where) /\ Walk /\ UNCHANGED <<mine, events>> /\ where \in {"check", "idle"}
    BY <1>3 DEF OnPostExecute, Walk, QueuesKept, fieldVars, proxyVars, historyVars
  <2> HIDE DEF where
  <2>2. ViewWaits'
    BY <1>1, <1>3, <2>1 DEF OnPostExecute, UiIdle
  <2> QED BY <2>1, <2>2, CallbackWalk DEF CallbackThreads
<1>4. CASE HandleSetSurfaceTexture
  <2>1. Walk /\ UNCHANGED <<mine, events>> /\ (Go("ui", "stop") \/ UNCHANGED pc)
    BY <1>4 DEF HandleSetSurfaceTexture, Walk, QueuesKept, fieldVars, proxyVars, glVars, historyVars
  <2>2. CASE Go("ui", "stop")
    BY <1>1, <1>4, <2>1, <2>2, CallbackWalk DEF HandleSetSurfaceTexture, UiIdle, CallbackThreads
  <2>3. CASE UNCHANGED pc
    BY <2>1, <2>3, NobodyWalks DEF SafeInv, ViewWaits
  <2> QED BY <2>1, <2>2, <2>3
<1>5. CASE StartPreview
  <2>1. /\ Go("ui", "idle") /\ mine' = [mine EXCEPT !["ui"] = None] /\ pc["ui"] = "restart"
        /\ UNCHANGED <<sCameraProxy, camera, released, signal, quitting, events, overlapped>>
    BY <1>5 DEF StartPreview, fieldVars, glVars, historyVars
  <2>2. QueuesKept
    <3>1. CASE sCameraProxy # None
      <4> DEFINE m == IF texture = None THEN Call ELSE Message("TEXTURE", texture)
      <4>1. SendTo(sCameraProxy, <<m>>)
        BY <1>5, <3>1 DEF StartPreview
      <4>2. m \in Sendable /\ m.what # "OPEN"
        BY NoneTyped, MessageTyped DEF Call, Message, TypeInv, ScreenOK
      <4> HIDE DEF m
      <4> QED BY <3>1, <4>1, <4>2, SentKept DEF TypeInv, FieldsOK
    <3>2. CASE sCameraProxy = None
      BY <1>5, <3>2 DEF StartPreview, QueuesKept
    <3> QED BY <3>1, <3>2
  <2> QED BY <1>1, <2>1, <2>2, CallbackWalk DEF Walk, CallbackThreads
<1>6. CASE ReleaseCamera("ui", "idle")
  BY <1>6, SafeRelease, ThreadsAre
<1> QED BY <1>2, <1>3, <1>4, <1>5, <1>6, SafeStopPreview DEF UiTask

LEMMA SafeMoves ==
  ASSUME TypeInv, SafeInv, User \/ OtherApplication
  PROVE  SafeInv'
<1>1. ASSUME NEW event, NEW why \in {"pausing", "changing"}, PauseView(event, why), Walk,
             UNCHANGED mine
      PROVE  SafeInv'
  <2>1. ViewWaits'
    BY <1>1, ThreadsAre DEF PauseView, ViewWaits, Go, TypeInv, CallsOK
  <2> QED BY <1>1, <2>1, CallbackWalk DEF PauseView, CallbackThreads
<1>2. CASE \E finish \in BOOLEAN : Leave(finish)
  <2>1. Walk /\ UNCHANGED mine /\ PauseView("pause", "pausing")
    BY <1>2 DEF Leave, Walk, QueuesKept, fieldVars, proxyVars, historyVars
  <2> QED BY <1>1, <2>1
<1>3. CASE ChangeCamera
  <2>1. Walk /\ UNCHANGED mine /\ PauseView("notify", "changing")
    BY <1>3 DEF ChangeCamera, Walk, QueuesKept, fieldVars, proxyVars, historyVars
  <2> QED BY <1>1, <2>1
<1>4. CASE OpenCamera \/ OtherApplication
  <2>1. Walk /\ UNCHANGED <<pc, mine, events>>
    BY <1>4 DEF OpenCamera, OtherApplication, Walk, QueuesKept, fieldVars, proxyVars, callVars,
                glVars, historyVars
  <2> QED BY <2>1, NobodyWalks DEF SafeInv, ViewWaits
<1>5. CASE SetResolution
  <2>1. /\ Walk /\ UNCHANGED <<mine, events>> /\ (Go("ui", "stop") \/ UNCHANGED pc)
        /\ pc["ui"] = "idle"
    BY <1>5 DEF SetResolution, UiIdle, Walk, QueuesKept, fieldVars, proxyVars, glVars, historyVars
  <2>2. CASE Go("ui", "stop")
    <3>1. ViewWaits'
      BY <2>1, <2>2, ThreadsAre DEF SafeInv, ViewWaits, Go, TypeInv, CallsOK
    <3> QED BY <2>1, <2>2, <3>1, CallbackWalk DEF CallbackThreads
  <2>3. CASE UNCHANGED pc
    BY <2>1, <2>3, NobodyWalks DEF SafeInv, ViewWaits
  <2> QED BY <2>1, <2>2, <2>3
<1> QED BY <1>2, <1>3, <1>4, <1>5 DEF User

LEMMA SafeStep == TypeInv /\ SafeInv /\ [Next]_vars => SafeInv'
<1> SUFFICES ASSUME TypeInv, SafeInv, [Next]_vars
             PROVE  SafeInv'
  OBVIOUS
<1>1. CASE Work
  BY <1>1, SafeAsync, SafeGl, SafeUiTask, SafeUnblock, SafeHandleMessage DEF Work
<1>2. CASE Moves
  BY <1>2, SafeMoves DEF Moves
<1>3. CASE UNCHANGED vars
  <2>1. Walk /\ UNCHANGED <<pc, mine, events>>
    BY <1>3 DEF vars, Walk, QueuesKept, fieldVars, proxyVars, callVars, glVars, historyVars
  <2> QED BY <2>1, NobodyWalks DEF SafeInv, ViewWaits
<1> QED BY <1>1, <1>2, <1>3 DEF Next

(* No thread that blocks on a CameraProxy sleeps for ever: the answer is    *)
(* there or on its way, unless the proxy's looper had quit before it came. *)
THEOREM WakeupNotLost == Spec => []NoLostWakeup
<1>1. SafeInv => NoLostWakeup
  BY DEF SafeInv
<1>2. QED BY <1>1, TypeInit, SafeInit, TypeStep, SafeStep, PTL DEF Spec

(* An open camera can be given back: the static field or the task that     *)
(* opens has its proxy, or the release is queued, or a pause released      *)
(* beside a task.                                                          *)
THEOREM CameraNotLost == Spec => []NoCameraLost
<1>1. SafeInv => NoCameraLost
  BY DEF SafeInv
<1>2. QED BY <1>1, TypeInit, SafeInit, TypeStep, SafeStep, PTL DEF Spec

-----------------------------------------------------------------------------
(* What gives openCamera its camera with the second try.                     *)

(* releaseCamera(), on any thread.                                         *)
LeavingCamera == {"check", "release", "releasing", "quit", "forget"}

(* Only a pause makes the UI thread wait or release: the screen is left.   *)
AwayKnown == finishing \/ pc["ui"] \in LeavingCamera \cup {"pausing"} => away

(* A camera is given back, or is to be, only after its proxy was marked.   *)
MarkedFirst ==
  \A p \in Proxies : camera[p] = "released" \/ Has(messages[p], "RELEASE") => released[p]

(* Tries are counted from the first constructor on.                        *)
CountedFromZero == pc["async"] \in LeavingCamera \cup {"idle"} => tryCount = 0

(* What OpenGetsCamera is about: a task that opens, with no pause since it *)
(* began, no other application and no texture released too early.          *)
Steady == pc["async"] # "idle" /\ Opens /\ ~disturbed /\ ~overlapped

(* Nobody releases beside it: a pause is still in front of the GL thread.  *)
Alone == pc["gl"] = "idle" /\ (away => pc["ui"] = "pausing" /\ events # <<>>)

Opened(p) == camera[p] = "open" /\ ~released[p]
NothingOpen == \A p \in Proxies : camera[p] # "open"

(* The first try may find the old camera still open. At the second nothing *)
(* is, so its OPEN_CAMERA succeeds, and nobody takes that camera away.     *)
SecondTry ==
  /\ pc["async"] = "construct" => NothingOpen
  /\ pc["async"] = "opening" =>
       \/ /\ NothingOpen /\ ~signal[mine["async"]]
          /\ messages[mine["async"]] = <<Message("OPEN", None)>>
       \/ Opened(mine["async"]) /\ ~Has(messages[mine["async"]], "OPEN")
  /\ pc["async"] = "assign" => Opened(mine["async"])
  /\ pc["async"] = "available" => Opened(sCameraProxy)

Trying ==
  /\ pc["async"] \in {"available", "params", "configure", "sleep"} => sCameraProxy # None
  /\ pc["async"] = "params" => Opened(sCameraProxy)
  /\ pc["async"] = "sleep" => tryCount = 1
  /\ tryCount \in {0, 1}
  /\ tryCount = 1 => SecondTry

OpenInv ==
  /\ AwayKnown /\ MarkedFirst /\ CountedFromZero
  /\ Steady => Alone /\ Trying

LEMMA OpenInit == Init => OpenInv
<1> SUFFICES ASSUME Init PROVE OpenInv
  OBVIOUS
<1>1. /\ \A p \in Proxies : messages[p] = <<>> /\ camera[p] = "none"
      /\ pc["ui"] = "idle" /\ pc["async"] = "idle" /\ ~finishing /\ tryCount = 0
  BY DEF Init, Threads
<1>2. MarkedFirst
  BY <1>1, QueueNone DEF MarkedFirst
<1> QED BY <1>1, <1>2 DEF OpenInv, AwayKnown, CountedFromZero, Steady, LeavingCamera

(* releaseCamera() moves its own thread, and only within it or out of it.  *)
LEMMA ReleaseLeaves ==
  ASSUME TypeInv, NEW t \in Threads, NEW done, ReleaseCamera(t, done)
  PROVE  /\ UNCHANGED <<tasks, tryCount, disturbed, events, away, finishing, camera>>
         /\ overlapped => overlapped'
         /\ pc[t] \in LeavingCamera /\ pc'[t] \in LeavingCamera \cup {done}
         /\ \A u \in Threads \ {t} : pc'[u] = pc[u] /\ mine'[u] = mine[u]
<1> USE DEF TypeInv, CallsOK, LeavingCamera, Go
<1>1. CASE ReleaseCheck(t, done)
  <2>1. pc[t] = "check" /\ UNCHANGED <<mine, taskVars, glVars, screenVars, historyVars, camera>>
    BY <1>1 DEF ReleaseCheck, proxyVars
  <2>2. PICK where \in {"release", done} : Go(t, where)
    BY <1>1 DEF ReleaseCheck
  <2> HIDE DEF Go
  <2>3. pc'[t] = where /\ \A u \in Threads \ {t} : pc'[u] = pc[u]
    BY <2>2 DEF Go
  <2> QED BY <2>1, <2>2, <2>3 DEF taskVars, glVars, screenVars, historyVars
<1>2. CASE ReleaseSend(t, done)
  <2>1. pc[t] = "release" /\ UNCHANGED <<taskVars, glVars, screenVars, disturbed, camera>>
    BY <1>2 DEF ReleaseSend
  <2>2. CASE sCameraProxy = None
    <3>1. Go(t, done) /\ UNCHANGED <<mine, overlapped>>
      BY <1>2, <2>2 DEF ReleaseSend
    <3> QED BY <2>1, <3>1 DEF taskVars, glVars, screenVars
  <2>3. CASE sCameraProxy # None
    <3>1. /\ Go(t, "releasing") /\ mine' = [mine EXCEPT ![t] = sCameraProxy]
          /\ overlapped => overlapped'
      BY <1>2, <2>3 DEF ReleaseSend, SendAndBlock
    <3> QED BY <2>1, <3>1 DEF taskVars, glVars, screenVars
  <2> QED BY <2>2, <2>3
<1>3. CASE ReleaseQuit(t)
  <2>1. pc[t] = "quit" /\ Go(t, "forget")
        /\ UNCHANGED <<mine, taskVars, glVars, screenVars, historyVars, camera>>
    BY <1>3 DEF ReleaseQuit
  <2> QED BY <2>1 DEF taskVars, glVars, screenVars, historyVars
<1>4. CASE ReleaseForget(t, done)
  <2>1. pc[t] = "forget" /\ Go(t, done) /\ mine' = [mine EXCEPT ![t] = None]
        /\ UNCHANGED <<taskVars, glVars, screenVars, historyVars, camera>>
    BY <1>4 DEF ReleaseForget, proxyVars
  <2> QED BY <2>1 DEF taskVars, glVars, screenVars, historyVars
<1> QED BY <1>1, <1>2, <1>3, <1>4 DEF ReleaseCamera

(* A task is steady only if it was before or begins.                       *)
LEMMA SteadyFrom ==
  ASSUME TypeInv, [Next]_vars, Steady'
  PROVE  Steady \/ (StartTask /\ ~crashed)
<1>1. tasks \in Seq({"open", "change"}) /\ pc \in [Threads -> Pcs]
      /\ (pc["async"] # "idle" => tasks # <<>>) /\ "async" \in Threads
  BY DEF TypeInv, TasksOK, CallsOK, TaskRuns, Threads
<1>2. ASSUME UNCHANGED <<pc, tasks, disturbed, overlapped>> PROVE Steady
  BY <1>2 DEF Steady, Opens
<1>3. ASSUME NEW t \in Threads, NEW where, Go(t, where), UNCHANGED <<tasks, disturbed>>,
             overlapped => overlapped', t = "async" => pc["async"] # "idle"
      PROVE  Steady
  BY <1>1, <1>3 DEF Steady, Opens, Go
<1>4. CASE Async /\ ~crashed
  <2>1. ASSUME NEW ok, EndTask(ok) PROVE FALSE
    BY <1>1, <2>1 DEF Steady, EndTask, Go
  <2>2. CASE TaskFails
    BY <2>1, <2>2 DEF TaskFails
  <2>3. CASE Params
    <3>1. Go("async", "configure") /\ UNCHANGED <<tasks, disturbed, overlapped>> /\ pc["async"] # "idle"
      BY <2>1, <2>3 DEF Params, taskVars
    <3> QED BY <1>1, <1>3, <3>1
  <2>4. CASE Configure
    BY <2>1, <2>4 DEF Configure
  <2>5. CASE Construct \/ Assign \/ Available \/ Sleep
    <3>1. UNCHANGED <<tasks, disturbed, overlapped>> /\ pc["async"] # "idle"
      BY <2>5 DEF Construct, Assign, Available, Sleep, taskVars, historyVars
    <3> QED BY <3>1 DEF Steady, Opens
  <2>6. CASE ReleaseCamera("async", "construct")
    <3>1. UNCHANGED <<tasks, disturbed>> /\ (overlapped => overlapped') /\ pc["async"] # "idle"
      BY <2>6, <1>1, ReleaseLeaves DEF LeavingCamera
    <3> QED BY <3>1 DEF Steady, Opens
  <2> QED BY <1>4, <2>2, <2>3, <2>4, <2>5, <2>6 DEF Async
<1>5. CASE Gl
  <2>1. CASE RunEvent
    <3>1. UNCHANGED <<tasks, overlapped>> /\ disturbed' = (pc["async"] # "idle")
          /\ pc'["async"] = pc["async"]
      BY <1>1, <2>1 DEF RunEvent, taskVars, Go
    <3> QED BY <3>1 DEF Steady
  <2>2. CASE OnSurfaceCreated
    BY <1>2, <2>2 DEF OnSurfaceCreated, callVars, taskVars, historyVars
  <2>3. CASE ReleaseCamera("gl", "idle")
    <3>1. UNCHANGED <<tasks, disturbed>> /\ (overlapped => overlapped') /\ pc'["async"] = pc["async"]
      BY <1>1, <2>3, ReleaseLeaves DEF Threads
    <3> QED BY <3>1 DEF Steady, Opens
  <2> QED BY <1>5, <2>1, <2>2, <2>3 DEF Gl
<1>6. CASE UiTask
  <2>1. CASE ViewPaused
    <3>1. pc'["async"] = pc["async"] /\ UNCHANGED <<disturbed, overlapped>>
          /\ tasks' \in {tasks, Append(tasks, "change")}
      BY <1>1, <2>1 DEF ViewPaused, Go, historyVars
    <3>2. tasks # <<>> => Head(tasks') = Head(tasks)
      BY <1>1, <3>1
    <3> QED BY <1>1, <3>1, <3>2 DEF Steady, Opens
  <2>2. CASE OnPostExecute \/ HandleSetSurfaceTexture \/ StopPreview \/ StartPreview
    <3>1. UNCHANGED <<tasks, disturbed, overlapped>> /\ pc'["async"] = pc["async"]
      BY <1>1, <2>2 DEF OnPostExecute, HandleSetSurfaceTexture, StopPreview, StartPreview, taskVars,
                  historyVars, Go, SendAndBlock, callVars
    <3> QED BY <3>1 DEF Steady, Opens
  <2>3. CASE ReleaseCamera("ui", "idle")
    <3>1. UNCHANGED <<tasks, disturbed>> /\ (overlapped => overlapped') /\ pc'["async"] = pc["async"]
      BY <1>1, <2>3, ReleaseLeaves DEF Threads
    <3> QED BY <3>1 DEF Steady, Opens
  <2> QED BY <1>6, <2>1, <2>2, <2>3 DEF UiTask
<1>7. CASE \E t \in Threads : Unblock(t)
  <2>1. PICK t \in Threads : Unblock(t)
    BY <1>7
  <2>2. UNCHANGED <<tasks, disturbed, overlapped>> /\ (t = "async" => pc["async"] # "idle")
    BY <2>1 DEF Unblock, taskVars, historyVars, Blocked
  <2>3. \E where : Go(t, where)
    BY <2>1 DEF Unblock
  <2> QED BY <1>3, <2>2, <2>3
<1>8. CASE \E p \in Proxies : HandleMessage(p)
  <2>1. UNCHANGED <<pc, tasks, overlapped>> /\ (disturbed => disturbed')
    BY <1>8 DEF HandleMessage, callVars, taskVars
  <2> QED BY <2>1 DEF Steady, Opens
<1>9. CASE User
  <2>1. CASE (\E finish \in BOOLEAN : Leave(finish)) \/ ChangeCamera \/ SetResolution
    <3>1. UNCHANGED <<tasks, disturbed, overlapped>> /\ pc'["async"] = pc["async"]
      BY <1>1, <2>1 DEF Leave, ChangeCamera, SetResolution, PauseView, taskVars, historyVars, Go
    <3> QED BY <3>1 DEF Steady, Opens
  <2>2. CASE OpenCamera
    <3>1. UNCHANGED <<pc, disturbed, overlapped>> /\ tasks' = Append(tasks, "open")
      BY <2>2 DEF OpenCamera, callVars, historyVars
    <3>2. tasks # <<>> => Head(tasks') = Head(tasks)
      BY <1>1, <3>1
    <3> QED BY <1>1, <3>1, <3>2 DEF Steady, Opens
  <2> QED BY <1>9, <2>1, <2>2 DEF User
<1>10. CASE OtherApplication \/ UNCHANGED vars
  BY <1>2, <1>10 DEF OtherApplication, vars, callVars, taskVars, historyVars
<1> QED BY <1>4, <1>5, <1>6, <1>7, <1>8, <1>9, <1>10 DEF Next, Work, Moves

(* What the user did last is known to the screen: it is left while the UI  *)
(* thread pauses or releases.                                              *)
LEMMA AwayStep ==
  ASSUME TypeInv, AwayKnown, [Next]_vars
  PROVE  AwayKnown'
<1>1. pc \in [Threads -> Pcs] /\ {"ui", "gl", "async"} \subseteq Threads
  BY DEF TypeInv, CallsOK, Threads
<1>2. ASSUME UNCHANGED <<away, finishing>>,
             pc'["ui"] = pc["ui"] \/ pc'["ui"] \notin LeavingCamera \cup {"pausing"}
                \/ pc["ui"] \in LeavingCamera
      PROVE  AwayKnown'
  BY <1>2 DEF AwayKnown
<1>3. ASSUME NEW t \in Threads \ {"ui"}, NEW where, Go(t, where), UNCHANGED <<away, finishing>>
      PROVE  AwayKnown'
  BY <1>1, <1>3 DEF AwayKnown, Go
<1>4. ASSUME NEW t \in Threads, NEW done \in {"idle", "construct"}, ReleaseCamera(t, done)
      PROVE  AwayKnown'
  <2>1. UNCHANGED <<away, finishing>> /\ (pc'["ui"] = pc["ui"] \/ pc["ui"] \in LeavingCamera)
    BY <1>1, <1>4, ReleaseLeaves
  <2> QED BY <1>2, <2>1
<1>5. CASE Async
  <2>1. ASSUME NEW where, Go("async", where), UNCHANGED <<away, finishing>> PROVE AwayKnown'
    BY <1>1, <1>3, <2>1
  <2>2. CASE StartTask \/ Construct \/ Assign \/ Available \/ Sleep
    <3>1. UNCHANGED <<away, finishing>> /\ \E where : Go("async", where)
      BY <2>2 DEF StartTask, Construct, Assign, Available, Sleep, screenVars
    <3> QED BY <2>1, <3>1
  <2>3. CASE TaskFails \/ Params \/ Configure
    <3>1. UNCHANGED <<away, finishing>> /\ \E where : Go("async", where)
      BY <2>3 DEF TaskFails, Params, Configure, EndTask, screenVars
    <3> QED BY <2>1, <3>1
  <2>4. CASE ReleaseCamera("async", "construct")
    BY <1>1, <1>4, <2>4
  <2> QED BY <1>5, <2>2, <2>3, <2>4 DEF Async
<1>6. CASE Gl
  <2>1. CASE RunEvent
    BY <1>1, <1>3, <2>1 DEF RunEvent, screenVars
  <2>2. CASE OnSurfaceCreated
    BY <1>2, <2>2 DEF OnSurfaceCreated, callVars, screenVars
  <2>3. CASE ReleaseCamera("gl", "idle")
    BY <1>1, <1>4, <2>3
  <2> QED BY <1>6, <2>1, <2>2, <2>3 DEF Gl
<1>7. CASE UiTask
  <2>1. CASE ViewPaused
    <3>1. pc'["ui"] = "idle" /\ UNCHANGED <<away, finishing>>
      BY <1>1, <2>1 DEF ViewPaused, Go, screenVars
    <3> QED BY <1>2, <3>1 DEF LeavingCamera
  <2>2. CASE OnPostExecute
    <3>1. (pc'["ui"] = "check" /\ finishing) \/ pc'["ui"] = "idle"
      BY <1>1, <2>2 DEF OnPostExecute, Go
    <3>2. UNCHANGED <<away, finishing>>
      BY <2>2 DEF OnPostExecute, screenVars
    <3> QED BY <3>1, <3>2 DEF AwayKnown, LeavingCamera
  <2>3. CASE HandleSetSurfaceTexture \/ StopPreview \/ StartPreview
    <3>1. pc'["ui"] \in {pc["ui"], "stop", "stopping", "idle"} /\ UNCHANGED <<away, finishing>>
      BY <1>1, <2>3 DEF HandleSetSurfaceTexture, StopPreview, StartPreview, Go, SendAndBlock, callVars
    <3> QED BY <1>2, <3>1 DEF LeavingCamera
  <2>4. CASE ReleaseCamera("ui", "idle")
    BY <1>1, <1>4, <2>4
  <2> QED BY <1>7, <2>1, <2>2, <2>3, <2>4 DEF UiTask
<1>8. CASE \E t \in Threads : Unblock(t)
  <2>1. PICK t \in Threads : Unblock(t)
    BY <1>8
  <2>2. UNCHANGED <<away, finishing>>
    BY <2>1 DEF Unblock, screenVars
  <2>3. PICK where : Go(t, where) /\ (where = "quit" => pc[t] = "releasing")
                     /\ where \in {"assign", "quit", "restart"}
    BY <2>1 DEF Unblock, Blocked
  <2>4. pc'["ui"] = pc["ui"] \/ pc'["ui"] \notin LeavingCamera \cup {"pausing"}
          \/ pc["ui"] \in LeavingCamera
    BY <1>1, <2>3 DEF Go, LeavingCamera
  <2> QED BY <1>2, <2>2, <2>4
<1>9. CASE \E p \in Proxies : HandleMessage(p)
  BY <1>2, <1>9 DEF HandleMessage, callVars, screenVars
<1>10. CASE User
  <2>1. CASE \E finish \in BOOLEAN : Leave(finish)
    <3>1. away' = TRUE
      BY <2>1 DEF Leave
    <3> QED BY <3>1 DEF AwayKnown
  <2>2. CASE ChangeCamera \/ SetResolution
    <3>1. pc'["ui"] \in {pc["ui"], "stop", "changing"} /\ UNCHANGED <<away, finishing>>
      BY <1>1, <2>2 DEF ChangeCamera, SetResolution, PauseView, Go, screenVars
    <3> QED BY <1>2, <3>1 DEF LeavingCamera
  <2>3. CASE OpenCamera
    <3>1. finishing' = FALSE /\ pc'["ui"] = "idle"
      BY <2>3 DEF OpenCamera, UiIdle, callVars
    <3> QED BY <3>1 DEF AwayKnown, LeavingCamera
  <2> QED BY <1>10, <2>1, <2>2, <2>3 DEF User
<1>11. CASE OtherApplication \/ UNCHANGED vars
  BY <1>2, <1>11 DEF OtherApplication, vars, callVars, screenVars
<1> QED BY <1>5, <1>6, <1>7, <1>8, <1>9, <1>10, <1>11 DEF Next, Work, Moves

(* The tries of a task that ended are forgotten.                           *)
LEMMA CountStep ==
  ASSUME TypeInv, SafeInv, CountedFromZero, [Next]_vars
  PROVE  CountedFromZero'
<1>1. pc \in [Threads -> Pcs] /\ {"ui", "gl", "async"} \subseteq Threads
  BY DEF TypeInv, CallsOK, Threads
<1>2. ASSUME UNCHANGED tryCount,
             pc'["async"] = pc["async"] \/ pc'["async"] \notin LeavingCamera \cup {"idle"}
                \/ pc["async"] \in LeavingCamera \cup {"idle"}
      PROVE  CountedFromZero'
  BY <1>2 DEF CountedFromZero
<1>3. ASSUME NEW t \in Threads, NEW done \in {"idle", "construct"}, ReleaseCamera(t, done)
      PROVE  CountedFromZero'
  <2>1. UNCHANGED tryCount /\ (pc'["async"] = pc["async"] \/ pc["async"] \in LeavingCamera)
    BY <1>1, <1>3, ReleaseLeaves
  <2> QED BY <1>2, <2>1
<1>4. CASE Async
  <2>1. CASE StartTask \/ Construct \/ Assign \/ Sleep
    <3>1. UNCHANGED tryCount
          /\ (pc["async"] = "idle" \/ pc'["async"] \in {"opening", "available", "params", "construct"})
      BY <1>1, <2>1 DEF StartTask, Construct, Assign, Sleep, Go, taskVars
    <3> QED BY <1>2, <3>1 DEF LeavingCamera
  <2>2. CASE Available
    <3>1. pc'["async"] \in {"params", "sleep"}
      BY <1>1, <2>2 DEF Available, Go
    <3> QED BY <3>1 DEF CountedFromZero, LeavingCamera
  <2>3. CASE Params
    <3>1. tryCount' = 0 \/ pc'["async"] = "configure"
      BY <1>1, <2>3 DEF Params, EndTask, Go
    <3> QED BY <3>1 DEF CountedFromZero, LeavingCamera
  <2>4. CASE TaskFails \/ Configure
    <3>1. tryCount' = 0
      BY <2>4 DEF TaskFails, Configure, EndTask
    <3> QED BY <3>1 DEF CountedFromZero
  <2>5. CASE ReleaseCamera("async", "construct")
    BY <1>1, <1>3, <2>5
  <2> QED BY <1>4, <2>1, <2>2, <2>3, <2>4, <2>5 DEF Async
<1>5. CASE Gl
  <2>1. CASE RunEvent \/ OnSurfaceCreated
    <3>1. UNCHANGED tryCount /\ pc'["async"] = pc["async"]
      BY <1>1, <2>1 DEF RunEvent, OnSurfaceCreated, Go, callVars, taskVars
    <3> QED BY <1>2, <3>1
  <2>2. CASE ReleaseCamera("gl", "idle")
    BY <1>1, <1>3, <2>2
  <2> QED BY <1>5, <2>1, <2>2 DEF Gl
<1>6. CASE UiTask
  <2>1. CASE ViewPaused \/ OnPostExecute \/ HandleSetSurfaceTexture \/ StopPreview \/ StartPreview
    <3>1. UNCHANGED tryCount /\ pc'["async"] = pc["async"]
      BY <1>1, <2>1 DEF ViewPaused, OnPostExecute, HandleSetSurfaceTexture, StopPreview, StartPreview,
                        Go, SendAndBlock, callVars, taskVars
    <3> QED BY <1>2, <3>1
  <2>2. CASE ReleaseCamera("ui", "idle")
    BY <1>1, <1>3, <2>2
  <2> QED BY <1>6, <2>1, <2>2 DEF UiTask
<1>7. CASE \E t \in Threads : Unblock(t)
  <2>1. PICK t \in Threads : Unblock(t)
    BY <1>7
  <2>2. UNCHANGED tryCount
    BY <2>1 DEF Unblock, taskVars
  <2>3. PICK where : Go(t, where) /\ (where = "quit" => pc[t] = "releasing")
                     /\ where \in {"assign", "quit", "restart"}
    BY <2>1 DEF Unblock, Blocked
  <2>4. pc'["async"] = pc["async"] \/ pc'["async"] \notin LeavingCamera \cup {"idle"}
          \/ pc["async"] \in LeavingCamera \cup {"idle"}
    BY <1>1, <2>3 DEF Go, LeavingCamera
  <2> QED BY <1>2, <2>2, <2>4
<1>8. CASE (\E p \in Proxies : HandleMessage(p)) \/ User \/ OtherApplication \/ UNCHANGED vars
  <2>1. UNCHANGED tryCount /\ pc'["async"] = pc["async"]
    BY <1>1, <1>8 DEF HandleMessage, User, Leave, ChangeCamera, SetResolution, OpenCamera, PauseView, Go,
                      OtherApplication, vars, callVars, taskVars
  <2> QED BY <1>2, <2>1
<1> QED BY <1>4, <1>5, <1>6, <1>7, <1>8 DEF Next, Work, Moves

(* A step that leaves the proxies alone but for what it sends, and sends a *)
(* release only to a marked one.                                           *)
LEMMA MarkedWalk ==
  ASSUME MarkedFirst, UNCHANGED camera,
         \A q \in Proxies : released[q] => released'[q],
         \A q \in Proxies : Has(messages'[q], "RELEASE") => Has(messages[q], "RELEASE") \/ released'[q]
  PROVE  MarkedFirst'
BY DEF MarkedFirst

LEMMA SentSame ==
  ASSUME ProxiesOK, NEW p \in Proxies, NEW m \in Sendable, SendTo(p, <<m>>)
  PROVE  /\ \A q \in Proxies : q # p => messages'[q] = messages[q]
         /\ \A what : Has(messages'[p], what) => Has(messages[p], what) \/ m.what = what
<1>1. CASE quitting[p]
  BY <1>1 DEF SendTo
<1>2. CASE ~quitting[p]
  <2>1. messages' = [messages EXCEPT ![p] = @ \o <<m>>] /\ messages \in [Proxies -> Seq(Sendable)]
    BY <1>2 DEF SendTo, ProxiesOK
  <2>2. messages'[p] = messages[p] \o <<m>> /\ \A q \in Proxies : q # p => messages'[q] = messages[q]
    BY <2>1
  <2> QED BY <2>1, <2>2, QueueAppend
<1> QED BY <1>1, <1>2

(* What a call or a texture adds to the queues.                            *)
LEMMA SentCall ==
  ASSUME ProxiesOK, NEW p \in Proxies, NEW m \in Sendable, m.what \in {"CALL", "TEXTURE"},
         SendTo(p, <<m>>)
  PROVE  /\ \A q \in Proxies : q # p => messages'[q] = messages[q]
         /\ \A q \in Proxies : Has(messages'[q], "RELEASE") => Has(messages[q], "RELEASE")
<1>1. /\ \A q \in Proxies : q # p => messages'[q] = messages[q]
      /\ \A what : Has(messages'[p], what) => Has(messages[p], what) \/ m.what = what
  BY SentSame
<1> QED BY <1>1

LEMMA MarkedStep ==
  ASSUME TypeInv, MarkedFirst, [Next]_vars
  PROVE  MarkedFirst'
<1>1. ProxiesOK /\ sCameraProxy \in Proxies \cup {None}
  BY DEF TypeInv, FieldsOK
<1>2. ASSUME UNCHANGED <<camera, released, messages>> PROVE MarkedFirst'
  BY <1>2 DEF MarkedFirst
<1>3. ASSUME UNCHANGED <<camera, released>>, NEW p \in Proxies, NEW m \in Sendable,
             m.what \in {"CALL", "TEXTURE"}, SendTo(p, <<m>>)
      PROVE  MarkedFirst'
  BY <1>1, <1>3, SentCall, MarkedWalk
<1>4. Call \in Sendable /\ Call.what \in {"CALL", "TEXTURE"}
  BY NoneTyped DEF Call, Message
<1>5. ASSUME NEW t \in Threads, NEW done, ReleaseCamera(t, done)
      PROVE  MarkedFirst'
  <2>1. CASE ReleaseCheck(t, done) \/ ReleaseQuit(t) \/ ReleaseForget(t, done)
    BY <1>2, <2>1 DEF ReleaseCheck, ReleaseQuit, ReleaseForget, proxyVars
  <2>2. CASE ReleaseSend(t, done)
    <3>1. CASE sCameraProxy = None
      BY <1>2, <2>2, <3>1 DEF ReleaseSend
    <3>2. CASE sCameraProxy # None
      <4>1. /\ sCameraProxy \in Proxies /\ UNCHANGED camera
            /\ released' = [released EXCEPT ![sCameraProxy] = TRUE]
            /\ SendTo(sCameraProxy, <<Message("RELEASE", None)>>)
        BY <1>1, <2>2, <3>2 DEF ReleaseSend, SendAndBlock
      <4>2. Message("RELEASE", None) \in Sendable
        BY MessageTyped, NoneTyped
      <4>3. \A q \in Proxies : q # sCameraProxy => messages'[q] = messages[q]
        BY <1>1, <4>1, <4>2, SentSame
      <4>4. released'[sCameraProxy] /\ \A q \in Proxies : released[q] => released'[q]
        BY <1>1, <4>1 DEF ProxiesOK
      <4> QED BY <4>1, <4>3, <4>4, MarkedWalk
    <3> QED BY <3>1, <3>2
  <2> QED BY <1>5, <2>1, <2>2 DEF ReleaseCamera
<1>6. CASE Async
  <2>1. CASE StartTask \/ TaskFails \/ Available \/ Sleep \/ Params
    BY <1>2, <2>1 DEF StartTask, TaskFails, Available, Sleep, Params, proxyVars
  <2>2. CASE Configure
    <3>1. CASE sCameraProxy = None
      BY <1>2, <2>2, <3>1 DEF Configure
    <3>2. CASE sCameraProxy # None
      BY <1>1, <1>3, <1>4, <2>2, <3>2 DEF Configure
    <3> QED BY <3>1, <3>2
  <2>3. CASE Assign
    <3> DEFINE p == mine["async"]
    <3>1. UNCHANGED <<camera, released>> /\ SendTo(p, IF camera[p] # "none" THEN <<Call>> ELSE <<>>)
      BY <2>3 DEF Assign
    <3>2. p \in Proxies \cup {None} /\ messages \in [Proxies -> Seq(Sendable)]
      BY <1>1 DEF TypeInv, CallsOK, Threads, ProxiesOK
    <3> HIDE DEF p
    <3>3. CASE camera[p] # "none" /\ p \in Proxies
      BY <1>3, <1>4, <3>1, <3>3
    <3>4. CASE camera[p] = "none" /\ p \in Proxies
      <4>1. SendTo(p, <<>>) /\ messages[p] \o <<>> = messages[p]
        BY <3>1, <3>2, <3>4, ConcatEmptySeq
      <4>2. UNCHANGED messages
        BY <3>2, <3>4, <4>1 DEF SendTo
      <4> QED BY <1>2, <3>1, <4>2
    <3>5. CASE p \notin Proxies
      <4>1. UNCHANGED messages
        BY <3>1, <3>2, <3>5 DEF SendTo
      <4> QED BY <1>2, <3>1, <4>1
    <3> QED BY <3>3, <3>4, <3>5
  <2>4. CASE Construct
    <3>1. PICK p \in Proxies :
            /\ camera' = [camera EXCEPT ![p] = "none"]
            /\ released' = [released EXCEPT ![p] = FALSE]
            /\ messages' = [messages EXCEPT ![p] = <<Message("OPEN", None)>>]
      BY <2>4 DEF Construct
    <3>2. camera'[p] = "none" /\ ~Has(messages'[p], "RELEASE")
      BY <1>1, <3>1, QueueOne DEF ProxiesOK, Message
    <3>3. \A q \in Proxies \ {p} : camera'[q] = camera[q] /\ released'[q] = released[q]
                                   /\ messages'[q] = messages[q]
      BY <3>1
    <3> QED BY <3>2, <3>3 DEF MarkedFirst
  <2>5. CASE ReleaseCamera("async", "construct")
    BY <1>5, <2>5 DEF Threads
  <2> QED BY <1>6, <2>1, <2>2, <2>3, <2>4, <2>5 DEF Async
<1>7. CASE Gl
  <2>1. CASE RunEvent \/ OnSurfaceCreated
    BY <1>2, <2>1 DEF RunEvent, OnSurfaceCreated, proxyVars
  <2>2. CASE ReleaseCamera("gl", "idle")
    BY <1>5, <2>2 DEF Threads
  <2> QED BY <1>7, <2>1, <2>2 DEF Gl
<1>8. CASE UiTask
  <2>1. CASE ViewPaused \/ OnPostExecute \/ HandleSetSurfaceTexture
    BY <1>2, <2>1 DEF ViewPaused, OnPostExecute, HandleSetSurfaceTexture, proxyVars
  <2>2. CASE StopPreview \/ StartPreview
    <3>1. CASE sCameraProxy = None
      BY <1>2, <2>2, <3>1 DEF StopPreview, StartPreview
    <3>2. CASE sCameraProxy # None
      <4>1. UNCHANGED <<camera, released>>
            /\ \E m \in {Call, Message("TEXTURE", texture)} : SendTo(sCameraProxy, <<m>>)
        BY <2>2, <3>2 DEF StopPreview, StartPreview, SendAndBlock
      <4>2. Message("TEXTURE", texture) \in Sendable /\ Message("TEXTURE", texture).what = "TEXTURE"
        BY MessageTyped DEF Message, TypeInv, ScreenOK
      <4> QED BY <1>1, <1>3, <1>4, <3>2, <4>1, <4>2
    <3> QED BY <3>1, <3>2
  <2>3. CASE ReleaseCamera("ui", "idle")
    BY <1>5, <2>3 DEF Threads
  <2> QED BY <1>8, <2>1, <2>2, <2>3 DEF UiTask
<1>9. CASE \E p \in Proxies : HandleMessage(p)
  <2>1. PICK p \in Proxies : HandleMessage(p)
    BY <1>9
  <2> DEFINE m == Head(messages[p])
             throws == /\ m.what \in {"CALL", "TEXTURE"}
                       /\ camera[p] # "open" \/ (m.what = "TEXTURE" /\ m.st # surface)
  <2>2. /\ messages[p] # <<>> /\ messages[p] \in Seq(Sendable) /\ messages'[p] = Tail(messages[p])
        /\ released'[p] = (released[p] \/ (throws /\ camera[p] # "none"))
        /\ \A q \in Proxies \ {p} : camera'[q] = camera[q] /\ released'[q] = released[q]
                                    /\ messages'[q] = messages[q]
    BY <1>1, <2>1 DEF HandleMessage, ProxiesOK
  <2>3. camera'[p] = "released" => camera[p] = "released" \/ m.what = "RELEASE" \/ (throws /\ camera[p] = "open")
    BY <1>1, <2>1 DEF HandleMessage, ProxiesOK
  <2> HIDE DEF throws
  <2>4. /\ Has(messages'[p], "RELEASE") => Has(messages[p], "RELEASE")
        /\ m.what = "RELEASE" => Has(messages[p], "RELEASE")
    BY <2>2, QueueTail
  <2> HIDE DEF m
  <2> QED BY <2>2, <2>3, <2>4 DEF MarkedFirst
<1>10. CASE (\E t \in Threads : Unblock(t)) \/ User \/ OtherApplication \/ UNCHANGED vars
  <2>1. UNCHANGED <<camera, released, messages>>
    BY <1>10 DEF Unblock, User, Leave, ChangeCamera, SetResolution, OpenCamera, OtherApplication, vars,
                 proxyVars
  <2> QED BY <1>2, <2>1
<1> QED BY <1>6, <1>7, <1>8, <1>9, <1>10 DEF Next, Work, Moves

(* Beside a steady task no other thread releases.                          *)
LEMMA NobodyReleases ==
  ASSUME TypeInv, AwayKnown, Alone, NEW t \in CallbackThreads
  PROVE  pc[t] \notin LeavingCamera /\ ~ReleaseCamera(t, "idle")
<1>1. pc["ui"] \notin LeavingCamera /\ pc["gl"] \notin LeavingCamera
  BY DEF AwayKnown, Alone, LeavingCamera
<1>2. pc[t] \notin LeavingCamera /\ t \in Threads
  BY <1>1, ThreadsAre DEF CallbackThreads
<1> QED BY <1>2, ReleaseLeaves

LEMMA AloneStep ==
  ASSUME TypeInv, AwayKnown, Steady, Alone, [Next]_vars, Steady'
  PROVE  Alone'
<1>1. pc \in [Threads -> Pcs] /\ {"ui", "gl", "async"} \subseteq Threads /\ pc["async"] # "idle"
  BY DEF TypeInv, CallsOK, Threads, Steady
<1>2. ASSUME pc'["gl"] = pc["gl"], UNCHANGED <<away, events>>, pc'["ui"] = pc["ui"] \/ ~away
      PROVE  Alone'
  BY <1>2 DEF Alone
<1>3. ASSUME NEW t \in Threads, NEW where, Go(t, where), t = "async" \/ (t = "ui" /\ ~away),
             UNCHANGED <<away, events>>
      PROVE  Alone'
  BY <1>1, <1>2, <1>3 DEF Go
<1>4. CASE Async
  <2>1. CASE StartTask \/ Construct \/ Assign \/ Available \/ Sleep
    <3>1. UNCHANGED <<away, events>> /\ \E where : Go("async", where)
      BY <2>1 DEF StartTask, Construct, Assign, Available, Sleep, screenVars, glVars
    <3> QED BY <1>1, <1>3, <3>1
  <2>2. CASE TaskFails \/ Params \/ Configure
    <3>1. UNCHANGED <<away, events>> /\ \E where : Go("async", where)
      BY <2>2 DEF TaskFails, Params, Configure, EndTask, screenVars, glVars
    <3> QED BY <1>1, <1>3, <3>1
  <2>3. CASE ReleaseCamera("async", "construct")
    <3>1. UNCHANGED <<away, events>> /\ pc'["gl"] = pc["gl"] /\ pc'["ui"] = pc["ui"]
      BY <1>1, <2>3, ReleaseLeaves
    <3> QED BY <1>2, <3>1
  <2> QED BY <1>4, <2>1, <2>2, <2>3 DEF Async
<1>5. CASE Gl
  <2>1. CASE RunEvent
    <3>1. disturbed'
      BY <1>1, <2>1 DEF RunEvent
    <3> QED BY <3>1 DEF Steady
  <2>2. CASE OnSurfaceCreated
    BY <1>2, <2>2 DEF OnSurfaceCreated, callVars, screenVars
  <2> QED BY <1>5, <2>1, <2>2, NobodyReleases, ThreadsAre DEF Gl
<1>6. CASE UiTask
  <2>1. pc["ui"] # "pausing" => ~away
    BY DEF Alone
  <2>2. CASE ViewPaused
    <3>1. ~away
      BY <2>2 DEF ViewPaused, Alone
    <3> QED BY <1>1, <1>3, <2>2, <3>1 DEF ViewPaused, screenVars
  <2>3. CASE OnPostExecute
    BY <1>1, <1>3, <2>1, <2>3 DEF OnPostExecute, UiIdle, screenVars, glVars
  <2>4. CASE HandleSetSurfaceTexture \/ StopPreview \/ StartPreview
    <3>1. /\ UNCHANGED <<away, events>> /\ pc["ui"] # "pausing"
          /\ UNCHANGED pc \/ \E where : Go("ui", where)
      BY <2>4 DEF HandleSetSurfaceTexture, StopPreview, StartPreview, SendAndBlock, UiIdle, glVars,
                  callVars
    <3> QED BY <1>1, <1>2, <1>3, <2>1, <3>1
  <2> QED BY <1>6, <2>2, <2>3, <2>4, NobodyReleases, ThreadsAre DEF UiTask
<1>7. CASE \E t \in Threads : Unblock(t)
  <2>1. PICK t \in Threads : Unblock(t)
    BY <1>7
  <2>2. UNCHANGED <<away, events>> /\ pc[t] \in Blocked /\ \E where : Go(t, where)
    BY <2>1 DEF Unblock, screenVars, glVars
  <2>3. t = "async" \/ (t = "ui" /\ ~away)
    BY <2>2 DEF Threads, Alone, Blocked
  <2> QED BY <1>3, <2>2, <2>3
<1>8. CASE \E p \in Proxies : HandleMessage(p)
  BY <1>2, <1>8 DEF HandleMessage, callVars, screenVars, glVars
<1>9. CASE User
  <2>1. CASE \E finish \in BOOLEAN : Leave(finish)
    <3>1. pc'["ui"] = "pausing" /\ pc'["gl"] = pc["gl"] /\ events' = Append(events, "pause")
      BY <1>1, <2>1 DEF Leave, PauseView, Go
    <3>2. events' # <<>>
      BY <3>1, AppendProperties, EmptySeq DEF TypeInv, GlOK
    <3> QED BY <3>1, <3>2 DEF Alone
  <2>2. CASE ChangeCamera
    <3>1. ~away' /\ pc'["gl"] = pc["gl"]
      BY <1>1, <2>2 DEF ChangeCamera, PauseView, Go, screenVars
    <3> QED BY <3>1 DEF Alone
  <2>3. CASE SetResolution
    <3>1. ~away' /\ pc'["gl"] = pc["gl"]
      BY <1>1, <2>3 DEF SetResolution, Go
    <3> QED BY <3>1 DEF Alone
  <2>4. CASE OpenCamera
    <3>1. ~away' /\ pc'["gl"] = pc["gl"]
      BY <2>4 DEF OpenCamera, callVars
    <3> QED BY <3>1 DEF Alone
  <2> QED BY <1>9, <2>1, <2>2, <2>3, <2>4 DEF User
<1>10. CASE OtherApplication \/ UNCHANGED vars
  BY <1>2, <1>10 DEF OtherApplication, vars, callVars, screenVars, glVars
<1> QED BY <1>4, <1>5, <1>6, <1>7, <1>8, <1>9, <1>10 DEF Next, Work, Moves

(* What other threads do to a steady task: they send to the proxy in the   *)
(* field, which is not the one the task is opening.                        *)
LEMMA TryingKept ==
  ASSUME TypeInv, SafeInv, Trying, UNCHANGED <<sCameraProxy, tryCount, camera, released>>,
         pc'["async"] = pc["async"], mine'["async"] = mine["async"],
         \A q \in Proxies : q # sCameraProxy => messages'[q] = messages[q] /\ signal'[q] = signal[q],
         \A q \in Proxies : Has(messages'[q], "OPEN") => Has(messages[q], "OPEN")
  PROVE  Trying'
<1>1. NothingOpen' <=> NothingOpen
  BY DEF NothingOpen
<1>2. \A p : Opened(p)' <=> Opened(p)
  BY DEF Opened
<1>3. ASSUME tryCount = 1, pc["async"] = "opening"
      PROVE  \/ /\ NothingOpen' /\ ~signal'[mine["async"]]
                /\ messages'[mine["async"]] = <<Message("OPEN", None)>>
             \/ Opened(mine["async"])' /\ ~Has(messages'[mine["async"]], "OPEN")
  <2> DEFINE p == mine["async"]
  <2>0. p \in Proxies
    BY <1>3, ThreadsAre DEF SafeInv, CallersKnown, TypeInv, CallsOK, Blocked
  <2>1. CASE Opened(p) /\ ~Has(messages[p], "OPEN")
    BY <2>0, <2>1 DEF Opened
  <2>2. CASE ~(Opened(p) /\ ~Has(messages[p], "OPEN"))
    <3>1. /\ NothingOpen /\ ~signal[p] /\ messages[p] = <<Message("OPEN", None)>>
      BY <1>3, <2>2 DEF Trying, SecondTry
    <3>2. p \in Proxies
      BY <2>0
    <3>3. Has(messages[p], "OPEN")
      BY <3>1, QueueOne DEF Message
    <3>4. p # sCameraProxy
      BY <3>2, <3>3 DEF SafeInv, OpenIsFirst
    <3> QED BY <1>1, <3>1, <3>2, <3>4
  <2> QED BY <2>1, <2>2
<1> HIDE DEF SafeInv, TypeInv
<1>4. tryCount = 1 => SecondTry'
  <2>1. CASE pc["async"] = "opening"
    BY <1>3, <2>1 DEF SecondTry
  <2>2. CASE pc["async"] # "opening"
    BY <1>1, <2>2 DEF Trying, SecondTry, Opened
  <2> QED BY <2>1, <2>2
<1> QED BY <1>4 DEF Trying, Opened

(* A task that begins steady has not tried yet.                            *)
LEMMA TryingBegins ==
  ASSUME TypeInv, CountedFromZero, StartTask, Steady'
  PROVE  Alone' /\ Trying'
<1>1. /\ pc'["async"] = "check" /\ pc'["gl"] = pc["gl"] /\ UNCHANGED <<away, events, tryCount>>
      /\ disturbed' = (away \/ events # <<>> \/ pc["gl"] # "idle") /\ pc["async"] = "idle"
  BY DEF StartTask, Go, TypeInv, CallsOK, Threads, screenVars, glVars, taskVars
<1>2. tryCount' = 0 /\ ~disturbed'
  BY <1>1 DEF CountedFromZero, Steady
<1>3. Alone'
  BY <1>1, <1>2 DEF Alone
<1> QED BY <1>1, <1>2, <1>3 DEF Trying

(* Two tries are enough for a steady task: that is where MaxTries counts.  *)
LEMMA TryingAsync ==
  ASSUME MaxTries >= 1, TypeInv, SafeInv, MarkedFirst, CountedFromZero, Trying, Steady, Async, Steady'
  PROVE  Trying'
<1>1. /\ pc \in [Threads -> Pcs] /\ "async" \in Threads /\ mine \in [Threads -> Proxies \cup {None}]
      /\ sCameraProxy \in Proxies \cup {None} /\ ProxiesOK
  BY DEF TypeInv, CallsOK, Threads, FieldsOK
<1>2. pc["async"] # "idle" /\ pc'["async"] # "idle" /\ Opens /\ ~overlapped
  BY DEF Steady
<1>3. ASSUME NEW ok, EndTask(ok) PROVE FALSE
  BY <1>1, <1>2, <1>3 DEF EndTask, Go
<1>4. CASE ReleaseCamera("async", "construct")
  <2>1. pc["async"] \in LeavingCamera /\ pc'["async"] \in LeavingCamera \cup {"construct"}
        /\ UNCHANGED tryCount
    BY <1>1, <1>4, ReleaseLeaves
  <2>2. tryCount' = 0
    BY <2>1 DEF CountedFromZero
  <2> QED BY <2>1, <2>2 DEF Trying, LeavingCamera
<1>5. CASE Construct
  <2>1. PICK p \in Proxies :
          /\ Unused(p)
          /\ camera' = [camera EXCEPT ![p] = "none"]
          /\ signal' = [signal EXCEPT ![p] = FALSE]
          /\ messages' = [messages EXCEPT ![p] = <<Message("OPEN", None)>>]
          /\ mine' = [mine EXCEPT !["async"] = p]
    BY <1>5 DEF Construct
  <2>2. /\ mine'["async"] = p /\ ~signal'[p] /\ messages'[p] = <<Message("OPEN", None)>>
        /\ camera'[p] = "none" /\ \A q \in Proxies \ {p} : camera'[q] = camera[q]
        /\ pc["async"] = "construct" /\ pc'["async"] = "opening" /\ UNCHANGED tryCount
    BY <1>1, <1>5, <2>1 DEF Construct, ProxiesOK, Go, taskVars
  <2>3. tryCount = 1 => NothingOpen'
    BY <2>2 DEF Trying, SecondTry, NothingOpen
  <2> QED BY <2>2, <2>3 DEF Trying, SecondTry
<1>6. CASE Assign
  <2>1. /\ pc["async"] = "assign" /\ pc'["async"] = "available" /\ sCameraProxy' = mine["async"]
        /\ UNCHANGED <<tryCount, camera, released>>
    BY <1>1, <1>2, <1>6 DEF Assign, Go, taskVars
  <2>2. sCameraProxy' # None
    BY <1>1, <2>1 DEF SafeInv, CallersKnown
  <2>3. tryCount = 1 => Opened(sCameraProxy)'
    BY <2>1 DEF Trying, SecondTry, Opened
  <2> QED BY <2>1, <2>2, <2>3 DEF Trying, SecondTry
<1>7. CASE Available
  <2>1. /\ pc["async"] = "available" /\ sCameraProxy \in Proxies
        /\ UNCHANGED <<sCameraProxy, camera, released>>
    BY <1>1, <1>7 DEF Available, fieldVars, proxyVars
  <2>2. IsCameraAvailable(sCameraProxy) <=> Opened(sCameraProxy)
    BY <1>1, <2>1 DEF IsCameraAvailable, Opened, ProxiesOK, MarkedFirst
  <2>3. CASE Opened(sCameraProxy)
    <3>1. pc'["async"] = "params" /\ UNCHANGED tryCount
      BY <1>1, <1>7, <2>2, <2>3 DEF Available, Go
    <3> QED BY <2>1, <2>3, <3>1, NoneIsNone DEF Trying, SecondTry, Opened
  <2>4. CASE ~Opened(sCameraProxy)
    <3>1. pc'["async"] = "sleep" /\ tryCount' = tryCount + 1
      BY <1>1, <1>7, <2>2, <2>4 DEF Available, Go
    <3>2. tryCount = 0
      BY <2>1, <2>4 DEF Trying, SecondTry
    <3> QED BY <2>1, <3>1, <3>2, NoneIsNone DEF Trying, SecondTry
  <2> QED BY <2>3, <2>4
<1>8. CASE Sleep
  <2>1. /\ pc["async"] = "sleep" /\ \A q \in Proxies : messages[q] = <<>>
        /\ UNCHANGED <<sCameraProxy, camera, released, tryCount>>
    BY <1>8 DEF Sleep, fieldVars, proxyVars, taskVars
  <2>2. tryCount = 1 /\ sCameraProxy # None
    BY <2>1 DEF Trying
  <2>3. pc'["async"] = "construct"
    <3>1. tryCount <= MaxTries
      BY <2>2
    <3> QED BY <1>1, <1>8, <3>1 DEF Sleep, Go
  <2>4. NothingOpen
    <3> SUFFICES ASSUME NEW q \in Proxies, camera[q] = "open" PROVE FALSE
      BY DEF NothingOpen
    <3>1. mine["async"] = None /\ ~Has(messages[q], "RELEASE")
      BY <2>1, QueueNone DEF SafeInv, CallersKnown, Releasing
    <3>2. q = sCameraProxy
      BY <1>2, <3>1, NoneIsNone DEF SafeInv, NoCameraLost, ReleaseSent, Has
    <3> QED BY <1>2, <2>1, <2>2, <3>1, <3>2 DEF SafeInv, OldGivenBack
  <2> QED BY <2>1, <2>2, <2>3, <2>4 DEF Trying, SecondTry, NothingOpen
<1>9. CASE Params
  <2>1. pc'["async"] = "configure" /\ UNCHANGED <<sCameraProxy, tryCount>> /\ sCameraProxy # None
    BY <1>1, <1>3, <1>9 DEF Params, Go, taskVars
  <2> QED BY <2>1 DEF Trying, SecondTry
<1>10. CASE TaskFails \/ Configure
  BY <1>3, <1>10 DEF TaskFails, Configure
<1>11. ~StartTask
  BY <1>2 DEF StartTask
<1> QED BY <1>4, <1>5, <1>6, <1>7, <1>8, <1>9, <1>10, <1>11 DEF Async

(* The camera threads: a second OPEN_CAMERA finds the camera free, and an  *)
(* open camera stays open as long as nothing that throws is sent to it.    *)
LEMMA TryingMessage ==
  ASSUME TypeInv, SafeInv, MarkedFirst, Trying, Steady, NEW p \in Proxies, HandleMessage(p), Steady'
  PROVE  Trying'
<1> DEFINE m == Head(messages[p])
           free == ~busy /\ \A q \in Proxies : camera[q] # "open"
           throws == /\ m.what \in {"CALL", "TEXTURE"}
                     /\ camera[p] # "open" \/ (m.what = "TEXTURE" /\ m.st # surface)
<1>1. /\ UNCHANGED <<sCameraProxy, tryCount, pc, mine>> /\ messages[p] # <<>>
      /\ messages[p] \in Seq(Sendable) /\ messages'[p] = Tail(messages[p])
      /\ \A q \in Proxies \ {p} : /\ messages'[q] = messages[q] /\ signal'[q] = signal[q]
                                  /\ released'[q] = released[q] /\ camera'[q] = camera[q]
  BY DEF HandleMessage, OpenSignal, fieldVars, callVars, taskVars, TypeInv, ProxiesOK
<1>2. /\ released'[p] = (released[p] \/ (throws /\ camera[p] # "none"))
      /\ m.what = "OPEN" => camera'[p] = IF free THEN "open" ELSE "none"
      /\ m.what # "OPEN" => camera'[p] = camera[p]
                              \/ (camera[p] = "open" /\ (m.what = "RELEASE" \/ throws))
      /\ m.what = "OPEN" => ~throws
  BY DEF HandleMessage, TypeInv, ProxiesOK
<1>3. ~(m.what = "OPEN" /\ busy) /\ ~(m.what = "TEXTURE" /\ throws)
  BY DEF HandleMessage, Steady
<1>4. throws => camera[p] # "open"
  BY <1>3
<1>5. free <=> ~busy /\ NothingOpen
  BY DEF NothingOpen
<1> HIDE DEF throws, free
<1>6. m.what \in {"OPEN", "CALL", "TEXTURE", "RELEASE"} /\ Has(messages[p], m.what)
  <2>1. m \in Sendable
    BY <1>1, HeadTailProperties
  <2> QED BY <1>1, <2>1, QueueTail DEF Sendable
<1> HIDE DEF m
<1>7. m.what = "RELEASE" => released[p]
  BY <1>6 DEF MarkedFirst
<1>8. m.what = "OPEN" => pc["async"] = "opening" /\ mine["async"] = p
  BY <1>6 DEF SafeInv, OpenIsFirst
<1>9. ASSUME NEW q \in Proxies, Opened(q), ~(q = p /\ m.what = "OPEN") PROVE Opened(q)'
  BY <1>1, <1>2, <1>4, <1>7, <1>9 DEF Opened
<1>10. pc["async"] # "opening" => (NothingOpen => NothingOpen')
  BY <1>1, <1>2, <1>8 DEF NothingOpen
<1>11. ASSUME tryCount = 1, pc["async"] = "opening"
       PROVE  \/ /\ NothingOpen' /\ ~signal'[mine["async"]]
                 /\ messages'[mine["async"]] = <<Message("OPEN", None)>>
              \/ Opened(mine["async"])' /\ ~Has(messages'[mine["async"]], "OPEN")
  <2> DEFINE r == mine["async"]
  <2>1. r \in Proxies
    BY <1>11, ThreadsAre DEF SafeInv, CallersKnown, TypeInv, CallsOK, Blocked
  <2>2. CASE Opened(r) /\ ~Has(messages[r], "OPEN")
    <3>1. ~(r = p /\ m.what = "OPEN") /\ ~Has(messages'[r], "OPEN")
      BY <1>1, <1>6, <2>1, <2>2, QueueTail
    <3>2. camera'[r] = "open" /\ ~released'[r]
      BY <1>9, <2>1, <2>2, <3>1 DEF Opened
    <3> QED BY <1>1, <3>1, <3>2 DEF Opened
  <2>3. CASE ~(Opened(r) /\ ~Has(messages[r], "OPEN"))
    <3>1. NothingOpen /\ ~signal[r] /\ messages[r] = <<Message("OPEN", None)>>
      BY <1>11, <2>3 DEF Trying, SecondTry
    <3>2. CASE p # r
      <4>1. m.what # "OPEN"
        BY <1>8, <3>2
      <4>2. NothingOpen'
        BY <1>1, <1>2, <3>1, <4>1 DEF NothingOpen
      <4> QED BY <1>1, <2>1, <3>1, <3>2, <4>2
    <3>3. CASE p = r
      <4>1. m.what = "OPEN" /\ messages'[r] = <<>>
        <5>1. messages[p] = <<Message("OPEN", None)>> /\ messages'[r] = Tail(messages[p])
          BY <1>1, <3>1, <3>3
        <5>2. \A x : Head(<<x>>) = x /\ Tail(<<x>>) = <<>>
          OBVIOUS
        <5>3. m = Message("OPEN", None)
          BY <5>1, <5>2 DEF m
        <5>4. m.what = "OPEN"
          BY <5>3 DEF Message
        <5> QED BY <5>1, <5>2, <5>4
      <4>2. ~released[p]
        BY <1>6, <3>3, <4>1 DEF SafeInv, OpenIsFirst
      <4>3. free
        BY <1>3, <1>5, <3>1, <4>1
      <4>4. Opened(r)'
        BY <1>1, <1>2, <3>3, <4>1, <4>2, <4>3 DEF Opened
      <4> QED BY <4>1, <4>4, QueueNone
    <3> QED BY <3>2, <3>3
  <2> QED BY <2>2, <2>3
<1>12. sCameraProxy \in Proxies \cup {None}
  BY DEF TypeInv, FieldsOK
<1>13. ASSUME pc["async"] \in {"params", "available"}, Opened(sCameraProxy), sCameraProxy # None
       PROVE  Opened(sCameraProxy)'
  BY <1>1, <1>8, <1>9, <1>12, <1>13 DEF Opened
<1>14. ASSUME pc["async"] = "assign", Opened(mine["async"]) PROVE Opened(mine["async"])'
  <2>1. mine["async"] \in Proxies
    BY <1>14, ThreadsAre DEF SafeInv, CallersKnown, TypeInv, CallsOK
  <2> QED BY <1>1, <1>8, <1>9, <1>14, <2>1
<1>15. tryCount = 1 => SecondTry'
  <2> SUFFICES ASSUME tryCount = 1 PROVE SecondTry'
    OBVIOUS
  <2>1. SecondTry /\ (pc["async"] = "available" => sCameraProxy # None)
    BY DEF Trying
  <2>2. (pc["async"] = "construct" => NothingOpen')
    BY <1>10, <2>1 DEF SecondTry
  <2>3. pc["async"] = "assign" => Opened(mine["async"])'
    BY <1>14, <2>1 DEF SecondTry
  <2>4. pc["async"] = "available" => Opened(sCameraProxy)'
    BY <1>13, <2>1 DEF SecondTry
  <2> QED BY <1>1, <1>11, <2>2, <2>3, <2>4 DEF SecondTry, Opened
<1>16. pc["async"] = "params" => Opened(sCameraProxy)'
  BY <1>13 DEF Trying
<1> QED BY <1>1, <1>15, <1>16 DEF Trying

LEMMA TryingStep ==
  ASSUME MaxTries >= 1, TypeInv, SafeInv, AwayKnown, MarkedFirst, CountedFromZero, Alone, Trying,
         Steady, [Next]_vars, Steady'
  PROVE  Trying'
<1>1. /\ pc \in [Threads -> Pcs] /\ {"ui", "gl", "async"} \subseteq Threads /\ ProxiesOK
      /\ mine \in [Threads -> Proxies \cup {None}] /\ sCameraProxy \in Proxies \cup {None}
  BY DEF TypeInv, CallsOK, Threads, FieldsOK
<1>2. ASSUME UNCHANGED <<sCameraProxy, tryCount, camera, released, messages, signal>>,
             pc'["async"] = pc["async"], mine'["async"] = mine["async"]
      PROVE  Trying'
  BY <1>2, TryingKept
<1>3. ASSUME UNCHANGED <<sCameraProxy, tryCount, camera, released>>, sCameraProxy \in Proxies,
             pc'["async"] = pc["async"], mine'["async"] = mine["async"],
             NEW m \in Sendable, m.what \in {"CALL", "TEXTURE"}, SendTo(sCameraProxy, <<m>>),
             \A q \in Proxies : q # sCameraProxy => signal'[q] = signal[q]
      PROVE  Trying'
  <2>1. /\ \A q \in Proxies : q # sCameraProxy => messages'[q] = messages[q]
        /\ \A q \in Proxies : Has(messages'[q], "OPEN") => Has(messages[q], "OPEN")
    BY <1>1, <1>3, SentSame
  <2> QED BY <1>3, <2>1, TryingKept
<1>4. Call \in Sendable /\ Call.what \in {"CALL", "TEXTURE"}
  BY NoneTyped DEF Call, Message
<1>5. Message("TEXTURE", texture) \in Sendable /\ Message("TEXTURE", texture).what = "TEXTURE"
  BY MessageTyped DEF Message, TypeInv, ScreenOK
<1>6. CASE Gl
  <2>1. ~RunEvent
    BY <1>1 DEF RunEvent, Steady, Go
  <2>2. CASE OnSurfaceCreated
    BY <1>2, <2>2 DEF OnSurfaceCreated, fieldVars, proxyVars, callVars, taskVars
  <2> QED BY <1>6, <2>1, <2>2, NobodyReleases, ThreadsAre DEF Gl
<1>7. CASE UiTask
  <2>1. CASE ViewPaused \/ OnPostExecute \/ HandleSetSurfaceTexture
    <3>1. UNCHANGED <<sCameraProxy, tryCount, camera, released, messages, signal, mine>>
      BY <2>1 DEF ViewPaused, OnPostExecute, HandleSetSurfaceTexture, fieldVars, proxyVars, taskVars
    <3>2. pc'["async"] = pc["async"]
      BY <1>1, <2>1 DEF ViewPaused, OnPostExecute, HandleSetSurfaceTexture, Go
    <3> QED BY <1>2, <3>1, <3>2
  <2>2. CASE StopPreview
    <3>1. UNCHANGED <<sCameraProxy, tryCount, camera, released>>
      BY <2>2 DEF StopPreview, fieldVars, taskVars
    <3>2. CASE sCameraProxy = None
      <4>1. UNCHANGED <<signal, messages, pc, mine>>
        BY <2>2, <3>2 DEF StopPreview, callVars
      <4> QED BY <1>2, <3>1, <4>1
    <3>3. CASE sCameraProxy # None
      <4>1. /\ Go("ui", "stopping") /\ SendTo(sCameraProxy, <<Call>>)
            /\ mine' = [mine EXCEPT !["ui"] = sCameraProxy]
            /\ signal' = [signal EXCEPT ![sCameraProxy] = FALSE]
        BY <2>2, <3>3 DEF StopPreview, SendAndBlock
      <4>2. pc'["async"] = pc["async"] /\ mine'["async"] = mine["async"]
        BY <1>1, <4>1 DEF Go
      <4>3. \A q \in Proxies : q # sCameraProxy => signal'[q] = signal[q]
        BY <1>1, <4>1 DEF ProxiesOK
      <4> QED BY <1>1, <1>3, <1>4, <3>1, <3>3, <4>1, <4>2, <4>3
    <3> QED BY <3>2, <3>3
  <2>3. CASE StartPreview
    <3>1. UNCHANGED <<sCameraProxy, tryCount, camera, released, signal>>
      BY <2>3 DEF StartPreview, fieldVars, taskVars
    <3>2. pc'["async"] = pc["async"] /\ mine'["async"] = mine["async"]
      BY <1>1, <2>3 DEF StartPreview, Go
    <3>3. CASE sCameraProxy = None
      <4>1. UNCHANGED messages
        BY <2>3, <3>3 DEF StartPreview
      <4> QED BY <1>2, <3>1, <3>2, <4>1
    <3>4. CASE sCameraProxy # None
      <4>1. \E m \in {Call, Message("TEXTURE", texture)} : SendTo(sCameraProxy, <<m>>)
        BY <2>3, <3>4 DEF StartPreview
      <4> QED BY <1>1, <1>3, <1>4, <1>5, <3>1, <3>2, <3>4, <4>1
    <3> QED BY <3>3, <3>4
  <2> QED BY <1>7, <2>1, <2>2, <2>3, NobodyReleases, ThreadsAre DEF UiTask
<1>8. CASE \E t \in Threads : Unblock(t)
  <2>1. PICK t \in Threads : Unblock(t)
    BY <1>8
  <2>2. UNCHANGED <<sCameraProxy, tryCount, camera, released, messages, signal, mine>>
    BY <2>1 DEF Unblock, fieldVars, proxyVars, taskVars
  <2>3. CASE t # "async"
    <3>1. pc'["async"] = pc["async"]
      BY <1>1, <2>1, <2>3 DEF Unblock, Go
    <3> QED BY <1>2, <2>2, <3>1
  <2>4. CASE t = "async" /\ pc["async"] = "opening"
    <3>1. pc'["async"] = "assign" /\ signal[mine["async"]]
      BY <1>1, <2>1, <2>4 DEF Unblock, Go
    <3>2. tryCount = 1 => Opened(mine["async"])
      BY <2>4, <3>1 DEF Trying, SecondTry
    <3> QED BY <2>2, <3>1, <3>2 DEF Trying, SecondTry, Opened
  <2>5. CASE t = "async" /\ pc["async"] # "opening"
    <3>1. pc["async"] = "releasing" /\ pc'["async"] = "quit"
      BY <1>1, <2>1, <2>5 DEF Unblock, Go, Blocked, SafeInv, CallersKnown
    <3>2. tryCount = 0
      BY <3>1 DEF CountedFromZero, LeavingCamera
    <3> QED BY <2>2, <3>1, <3>2 DEF Trying
  <2> QED BY <2>3, <2>4, <2>5
<1>9. CASE User \/ OtherApplication \/ UNCHANGED vars
  <2>1. UNCHANGED <<sCameraProxy, tryCount, camera, released, messages, signal, mine>>
    BY <1>9 DEF User, Leave, ChangeCamera, SetResolution, OpenCamera, OtherApplication, vars, fieldVars,
                proxyVars, callVars, taskVars
  <2>2. pc'["async"] = pc["async"]
    BY <1>1, <1>9 DEF User, Leave, ChangeCamera, SetResolution, OpenCamera, PauseView, Go,
                      OtherApplication, vars, callVars
  <2> QED BY <1>2, <2>1, <2>2
<1> QED BY <1>6, <1>7, <1>8, <1>9, TryingAsync, TryingMessage DEF Next, Work, Moves

LEMMA OpenStep ==
  ASSUME MaxTries >= 1, TypeInv, SafeInv, OpenInv, [Next]_vars
  PROVE  OpenInv'
<1>1. AwayKnown' /\ MarkedFirst' /\ CountedFromZero'
  BY AwayStep, MarkedStep, CountStep DEF OpenInv
<1>2. ASSUME Steady' PROVE Alone' /\ Trying'
  <2>1. CASE Steady
    BY <1>2, <2>1, AloneStep, TryingStep DEF OpenInv
  <2>2. CASE StartTask
    BY <1>2, <2>2, TryingBegins DEF OpenInv
  <2> QED BY <1>2, <2>1, <2>2, SteadyFrom
<1> QED BY <1>1, <1>2 DEF OpenInv

(* A steady task that opens ends in setCameraParameters, with a result.    *)
LEMMA OpenEnds ==
  ASSUME TypeInv, OpenInv, SafeInv, [Next]_vars,
         pc["async"] # "idle", pc'["async"] = "idle", Opens, ~disturbed, ~overlapped
  PROVE  posts'[Len(posts')].ok
<1>1. pc \in [Threads -> Pcs] /\ {"ui", "gl", "async"} \subseteq Threads /\ posts \in Seq(Posts)
  BY DEF TypeInv, CallsOK, Threads, PostsOK
<1>2. Trying
  BY DEF OpenInv, Steady
<1>3. ASSUME NEW t \in Threads, NEW where, Go(t, where), t # "async" \/ where # "idle" PROVE FALSE
  BY <1>1, <1>3 DEF Go
<1>4. ASSUME pc' = pc PROVE FALSE
  BY <1>4
<1>5. CASE Async
  <2>1. CASE StartTask \/ Construct \/ Assign \/ Available \/ Sleep
    <3>1. \E where : Go("async", where) /\ where # "idle"
      BY <2>1 DEF StartTask, Construct, Assign, Available, Sleep
    <3> QED BY <1>1, <1>3, <3>1
  <2>2. CASE ReleaseCamera("async", "construct")
    BY <1>1, <2>2, ReleaseLeaves DEF LeavingCamera
  <2>3. CASE TaskFails
    BY <1>2, <2>3 DEF TaskFails, Trying
  <2>4. CASE Params
    <3>1. Opened(sCameraProxy)
      BY <1>2, <2>4 DEF Params, Trying
    <3>2. IsCameraAvailable(sCameraProxy)
      BY <3>1 DEF Opened, IsCameraAvailable
    <3>3. Go("async", "configure")
      BY <2>4, <3>2 DEF Params
    <3> QED BY <1>1, <1>3, <3>3
  <2>5. CASE Configure
    <3> DEFINE post == [what |-> Head(tasks), ok |-> TRUE, st |-> None]
    <3>1. (Opens \/ sCameraProxy # None) = TRUE
      OBVIOUS
    <3>2. posts' = Append(posts, post)
      BY <2>5, <3>1 DEF Configure, EndTask
    <3> HIDE DEF post
    <3>3. \A x : Append(posts, x)[Len(Append(posts, x))] = x
      BY <1>1
    <3>4. posts'[Len(posts')] = post
      BY <3>2, <3>3
    <3>5. post.ok
      BY DEF post
    <3> QED BY <3>4, <3>5
  <2> QED BY <1>5, <2>1, <2>2, <2>3, <2>4, <2>5 DEF Async
<1>6. CASE Gl
  <2>1. CASE RunEvent \/ OnSurfaceCreated
    BY <1>1, <1>3, <1>4, <2>1 DEF RunEvent, OnSurfaceCreated, callVars
  <2>2. CASE ReleaseCamera("gl", "idle")
    BY <1>1, <2>2, ReleaseLeaves, ThreadsAre DEF Threads
  <2> QED BY <1>6, <2>1, <2>2 DEF Gl
<1>7. CASE UiTask
  <2>1. CASE ViewPaused \/ OnPostExecute \/ HandleSetSurfaceTexture \/ StopPreview \/ StartPreview
    <3>1. pc'["async"] = pc["async"]
      BY <1>1, <2>1 DEF ViewPaused, OnPostExecute, HandleSetSurfaceTexture, StopPreview, StartPreview,
                        Go, SendAndBlock, callVars
    <3> QED BY <3>1
  <2>2. CASE ReleaseCamera("ui", "idle")
    BY <1>1, <2>2, ReleaseLeaves, ThreadsAre DEF Threads
  <2> QED BY <1>7, <2>1, <2>2 DEF UiTask
<1>8. CASE \E t \in Threads : Unblock(t)
  <2>1. PICK t \in Threads, where \in {"assign", "quit", "restart"} : Go(t, where)
    BY <1>8 DEF Unblock, Blocked
  <2> QED BY <1>3, <2>1
<1>9. CASE (\E p \in Proxies : HandleMessage(p)) \/ User \/ OtherApplication \/ UNCHANGED vars
  <2>1. pc'["async"] = pc["async"]
    BY <1>1, <1>9 DEF HandleMessage, User, Leave, ChangeCamera, SetResolution, OpenCamera, PauseView, Go,
                      OtherApplication, vars, callVars
  <2> QED BY <2>1
<1> QED BY <1>5, <1>6, <1>7, <1>8, <1>9 DEF Next, Work, Moves

(* openCamera, which tries a second time when the old camera was still     *)
(* open, returns with a camera, unless the view was paused or the camera   *)
(* busy meanwhile, a released texture was set or releases overlapped. With *)
(* a single try (MaxTries = 0) it is false: the premise is what the loop   *)
(* of the code is for.                                                     *)
THEOREM CameraGot ==
  ASSUME MaxTries >= 1
  PROVE  Spec => OpenGetsCamera
<1>1. TypeInv /\ SafeInv /\ OpenInv /\ [Next]_vars => OpenInv'
  BY OpenStep
<1>2. TypeInv /\ SafeInv /\ OpenInv /\ [Next]_vars =>
        [pc["async"] # "idle" /\ pc'["async"] = "idle" /\ Opens =>
           posts'[Len(posts')].ok \/ disturbed \/ overlapped]_vars
  BY OpenEnds
<1>3. QED BY <1>1, <1>2, TypeInit, SafeInit, OpenInit, TypeStep, SafeStep, PTL DEF Spec, OpenGetsCamera
=============================================================================
