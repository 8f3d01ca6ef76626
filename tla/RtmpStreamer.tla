---------------------------- MODULE RtmpStreamer ----------------------------
(***************************************************************************)
(* network/RTMPStreamer.java: the interleaver between the two encoders and *)
(* the RTMP connection.                                                    *)
(*                                                                         *)
(* Two encoder threads hand frames to the streamer (writeAudio and         *)
(* writeVideo post a message to the Looper of RtmpStreamerThread); the     *)
(* handler thread merges the two streams by timestamp and writes them; the *)
(* AsyncTask of the activity calls open() for every broadcast, on the SAME *)
(* streamer object, while the handler may still be busy with the previous  *)
(* one.  The handler's loop is split where another thread can come in      *)
(* between: pick the head frame, write it to the network (a blocking call),*)
(* record that it was sent.                                                *)
(***************************************************************************)
EXTENDS Integers, Sequences, FiniteSets

CONSTANTS
    Timestamps,   \* the presentation times (ms) an encoder gives to a frame
    MaxFrames,    \* bound: frames the encoders write in a behaviour
    MaxSessions   \* bound: calls of open()

ASSUME TimestampsAssumption == Timestamps \subseteq Nat
ASSUME BoundsAssumption == MaxFrames \in Nat /\ MaxSessions \in Nat

VARIABLES
    looper,        \* messages posted to the handler thread, oldest first
    frameList,     \* audioFrameList and videoFrameList
    lastReceived,  \* mLastReceived{Audio,Video}FrameTimeStamp
    lastFrameTs,   \* last{Audio,Video}FrameTimeStamp
    lastSent,      \* lastSentFrameTimeStamp
    frameCount,
    isConnected,
    at,            \* where the handler thread is
    phase,         \* the list sendAudioFrames / sendVideoFrames works on
    mode,          \* sendFrames of a frame, finishframes, or its last flush
    opener,        \* where the thread that calls open() is
    session,       \* how many times open() was called
    live,          \* a broadcast was started and no stop was asked for yet
    writers,       \* encoder threads that still run: <<kind, session>>
    uncounted,     \* those between sendMessage and frameCount++
    left,          \* history: frames that waited when open() last reset the count
    produced,      \* frames written so far by the encoders
    wire           \* what was written on the current RTMP connection

handlerVars == <<frameList, lastReceived, lastFrameTs, lastSent, at, phase, mode>>
envVars     == <<opener, session, live, writers, uncounted, left, produced>>
vars == <<looper, handlerVars, frameCount, isConnected, envVars, wire>>

Kinds == {"audio", "video"}
Other(k) == IF k = "audio" THEN "video" ELSE "audio"
Sessions == 1..MaxSessions

(* ts is the frame's timestamp field, which the code increments in place;  *)
(* pts remembers the presentation time the encoder gave it.                *)
Frame == [pts : Timestamps, ts : Timestamps \cup {t + 1 : t \in Timestamps},
          session : Sessions]
(* msg.arg1 matters only through being zero ("empty").                     *)
Message ==
    [what : Kinds, pts : Timestamps, empty : {FALSE}, session : Sessions]
        \cup [what : {"audio"}, pts : {0}, empty : {TRUE}, session : Sessions]
        \cup [what : {"stop"}, session : Sessions]
Sent == {-1} \cup Timestamps \cup {t + 1 : t \in Timestamps}

Init ==
    /\ looper = <<>>
    /\ frameList = [k \in Kinds |-> <<>>]
    /\ lastReceived = [k \in Kinds |-> -1]
    /\ lastFrameTs = [k \in Kinds |-> 0]
    /\ lastSent = -1
    /\ frameCount = 0
    /\ isConnected = FALSE
    /\ at = "idle" /\ phase = "audio" /\ mode = "send"
    /\ opener = "idle" /\ session = 0 /\ live = FALSE
    /\ writers = {} /\ uncounted = {} /\ left = 0
    /\ produced = 0
    /\ wire = <<>>

-----------------------------------------------------------------------------
(* The thread that calls open(): the resets, the blocking connect, the     *)
(* start of the two encoders.  The lists and the Looper are left as is.    *)

Reset ==
    /\ frameCount' = 0
    /\ lastFrameTs' = [k \in Kinds |-> 0]
    /\ lastReceived' = [k \in Kinds |-> -1]
    /\ lastSent' = -1
Disconnect == isConnected' = FALSE

Posted(l) == {i \in 1..Len(l) : l[i].what \in Kinds}
Waiting == Cardinality(Posted(looper))
               + Len(frameList["audio"]) + Len(frameList["video"])

OpenBegin ==
    /\ opener = "idle" /\ ~live /\ session < MaxSessions
    /\ opener' = "connecting"
    /\ session' = session + 1
    /\ Reset /\ left' = Waiting
    /\ Disconnect
    /\ UNCHANGED <<looper, frameList, at, phase, mode, live, writers,
                   uncounted, produced, wire>>

OpenSucceeds ==
    /\ opener = "connecting"
    /\ opener' = "idle"
    /\ isConnected' = TRUE
    /\ wire' = <<>>
    /\ live' = TRUE
    /\ writers' = writers \cup (Kinds \X {session})
    /\ UNCHANGED <<looper, handlerVars, frameCount, session, uncounted, left, produced>>

OpenFails ==
    /\ opener = "connecting"
    /\ opener' = "idle"
    /\ UNCHANGED <<looper, handlerVars, frameCount, isConnected, session, live,
                   writers, uncounted, left, produced, wire>>

(* stopBroadcasting(): the encoders of the session will end on their own.  *)
StopBroadcasting ==
    /\ live
    /\ live' = FALSE
    /\ UNCHANGED <<looper, handlerVars, frameCount, isConnected, opener, session,
                   writers, uncounted, left, produced, wire>>

Stopping(s) == s < session \/ (~live /\ opener = "idle")

-----------------------------------------------------------------------------
(* The encoder threads.  writeAudio and writeVideo post the message first  *)
(* and count the frame afterwards.                                         *)

Post(m) == looper' = Append(looper, m)

WriteFrame(k, s) ==
    /\ <<k, s>> \in writers \ uncounted
    /\ produced < MaxFrames
    /\ produced' = produced + 1
    /\ uncounted' = uncounted \cup {<<k, s>>}
    /\ \E t \in Timestamps :
          Post([what |-> k, pts |-> t, empty |-> FALSE, session |-> s])
    /\ UNCHANGED <<handlerVars, frameCount, isConnected, opener, session, live,
                   writers, left, wire>>

CountFrame_Lost(k, s) ==
    /\ <<k, s>> \in uncounted
    /\ uncounted' = uncounted \ {<<k, s>>}
    /\ UNCHANGED <<looper, handlerVars, frameCount, isConnected, opener, session,
                   live, writers, left, produced, wire>>
CountFrame(k, s) ==
    /\ <<k, s>> \in uncounted
    /\ uncounted' = uncounted \ {<<k, s>>}
    /\ frameCount' = frameCount + 1
    /\ UNCHANGED <<looper, handlerVars, isConnected, opener, session, live,
                   writers, left, produced, wire>>

(* The audio encoder's last buffer is empty and carries time 0; it is      *)
(* written like any other, and the thread ends.                            *)
EndAudio(s) ==
    /\ <<"audio", s>> \in writers \ uncounted
    /\ Stopping(s)
    /\ Post([what |-> "audio", pts |-> 0, empty |-> TRUE, session |-> s])
    /\ writers' = writers \ {<<"audio", s>>}
    /\ uncounted' = uncounted \cup {<<"audio", s>>}
    /\ UNCHANGED <<handlerVars, frameCount, isConnected, opener, session, live,
                   left, produced, wire>>

(* stopMuxer(), called once by the video encoder after its last frame.     *)
StopMuxer(s) ==
    /\ <<"video", s>> \in writers \ uncounted
    /\ Stopping(s)
    /\ Post([what |-> "stop", session |-> s])
    /\ writers' = writers \ {<<"video", s>>}
    /\ UNCHANGED <<handlerVars, frameCount, isConnected, opener, session, live,
                   uncounted, left, produced, wire>>

-----------------------------------------------------------------------------
(* The handler thread.                                                     *)

(* SEND_AUDIO / SEND_VIDEO: a frame older than the last one of its kind,   *)
(* or empty, is discarded; sendFrames() runs in either case.               *)
Accepted(m) == m.pts >= lastReceived[m.what] /\ ~m.empty

ReceiveFrame ==
    /\ at = "idle" /\ looper # <<>> /\ Head(looper).what \in Kinds
    /\ LET m == Head(looper) IN
       IF Accepted(m)
       THEN /\ lastReceived' = [lastReceived EXCEPT ![m.what] = m.pts]
            /\ frameList' = [frameList EXCEPT ![m.what] =
                  Append(@, [pts |-> m.pts, ts |-> m.pts, session |-> m.session])]
       ELSE UNCHANGED <<lastReceived, frameList>>
    /\ looper' = Tail(looper)
    /\ at' = "loop" /\ phase' = "audio" /\ mode' = "send"
    /\ UNCHANGED <<lastFrameTs, lastSent, frameCount, isConnected, envVars, wire>>

(* STOP_STREAMING: finishframes() starts with the same two loops.          *)
ReceiveStop ==
    /\ at = "idle" /\ looper # <<>> /\ Head(looper).what = "stop"
    /\ looper' = Tail(looper)
    /\ at' = "loop" /\ phase' = "audio" /\ mode' = "finish"
    /\ UNCHANGED <<frameList, lastReceived, lastFrameTs, lastSent, frameCount,
                   isConnected, envVars, wire>>

(* sendXFrames(bound) is entered with the timestamp of the other list's    *)
(* first frame, if it has one, or in the flush of finishframes with that   *)
(* of its own last frame; neither changes while the loop runs.             *)
HasBound == IF mode = "flush" THEN frameList[phase] # <<>>
                              ELSE frameList[Other(phase)] # <<>>
Bound_Newest == LET l == frameList[IF mode = "flush" THEN phase ELSE Other(phase)]
                IN  l[Len(l)].ts
Bound == IF mode = "flush" THEN frameList[phase][Len(frameList[phase])].ts
                           ELSE Head(frameList[Other(phase)]).ts

InLoop == at = "loop" /\ frameList[phase] # <<>> /\ HasBound
          /\ Head(frameList[phase]).ts <= Bound

(* A frame as old as the last one sent is moved just after it; an older    *)
(* one is removed unsent.                                                  *)
SendTime_Same(t) == t
SendTime(t) == IF t = lastSent THEN t + 1 ELSE t

Pick ==
    /\ InLoop
    /\ Head(frameList[phase]).ts >= lastSent
    /\ frameList' = [frameList EXCEPT ![phase][1].ts = SendTime(@)]
    /\ at' = "write"
    /\ UNCHANGED <<looper, lastReceived, lastFrameTs, lastSent, phase, mode,
                   frameCount, isConnected, envVars, wire>>

DropFrame ==
    /\ InLoop
    /\ Head(frameList[phase]).ts < lastSent
    /\ frameList' = [frameList EXCEPT ![phase] = Tail(@)]
    /\ UNCHANGED <<looper, lastReceived, lastFrameTs, lastSent, at, phase, mode,
                   frameCount, isConnected, envVars, wire>>

(* rtmpMuxer.writeAudio / writeVideo, skipped without a connection; a      *)
(* negative result is acted on when the call has returned.                 *)
Write ==
    /\ at = "write"
    /\ \/ /\ isConnected
          /\ wire' = Append(wire, [kind |-> phase, ts |-> Head(frameList[phase]).ts,
                                   pts |-> Head(frameList[phase]).pts,
                                   session |-> Head(frameList[phase]).session])
          /\ at' = "record"
       \/ /\ isConnected
          /\ at' = "failed"
          /\ UNCHANGED wire
       \/ /\ ~isConnected
          /\ at' = "record"
          /\ UNCHANGED wire
    /\ UNCHANGED <<looper, frameList, lastReceived, lastFrameTs, lastSent, phase,
                   mode, frameCount, isConnected, envVars>>

Record ==
    /\ at \in {"record", "failed"}
    /\ isConnected' = (isConnected /\ at = "record")
    /\ lastFrameTs' = [lastFrameTs EXCEPT ![phase] = Head(frameList[phase]).ts]
    /\ lastSent' = Head(frameList[phase]).ts
    /\ frameCount' = frameCount - 1
    /\ frameList' = [frameList EXCEPT ![phase] = Tail(@)]
    /\ at' = "loop"
    /\ UNCHANGED <<looper, lastReceived, phase, mode, envVars, wire>>

(* finishframes() repeats sendFrames() while both lists have frames, then  *)
(* flushes the one that is left.                                           *)
FinishGoesOn_Any == \E k \in Kinds : frameList[k] # <<>>
FinishGoesOn == \A k \in Kinds : frameList[k] # <<>>
FlushPhase == IF frameList["video"] # <<>> THEN "video" ELSE "audio"

(* The end of sendAudioFrames and of sendVideoFrames, and what follows.    *)
EndLoop ==
    /\ at = "loop" /\ ~InLoop
    /\ \/ /\ phase = "audio" /\ mode # "flush"
          /\ phase' = "video"
          /\ UNCHANGED <<at, mode, isConnected>>
       \/ /\ phase = "video" /\ mode = "send"
          /\ at' = "idle"
          /\ UNCHANGED <<phase, mode, isConnected>>
       \/ /\ phase = "video" /\ mode = "finish"
          /\ IF FinishGoesOn THEN phase' = "audio" /\ mode' = mode
                             ELSE phase' = FlushPhase /\ mode' = "flush"
          /\ UNCHANGED <<at, isConnected>>
       \/ /\ mode = "flush"
          /\ at' = "idle"
          /\ isConnected' = FALSE
          /\ UNCHANGED <<phase, mode>>
    /\ UNCHANGED <<looper, frameList, lastReceived, lastFrameTs, lastSent,
                   frameCount, envVars, wire>>

-----------------------------------------------------------------------------
Broadcaster == OpenBegin \/ OpenSucceeds \/ OpenFails \/ StopBroadcasting
Encoder(s)  == \/ \E k \in Kinds : WriteFrame(k, s) \/ CountFrame(k, s)
               \/ EndAudio(s) \/ StopMuxer(s)
Handler     == \/ ReceiveFrame \/ ReceiveStop
               \/ Pick \/ DropFrame \/ Write \/ Record \/ EndLoop

Next == Broadcaster \/ (\E s \in Sessions : Encoder(s)) \/ Handler

(* The Looper runs the handler while it has something to do, and a native  *)
(* write returns; nothing makes the user or the encoders act.              *)
Spec == Init /\ [][Next]_vars /\ WF_vars(Handler)

-----------------------------------------------------------------------------
(* Every variable has the values the code can give it: a timestamp is one  *)
(* of an encoder or the next millisecond, never later.                     *)
TypeOK ==
    /\ looper \in Seq(Message)
    /\ frameList \in [Kinds -> Seq(Frame)]
    /\ lastReceived \in [Kinds -> {-1} \cup Timestamps]
    /\ lastFrameTs \in [Kinds -> {0} \cup Sent]
    /\ lastSent \in Sent
    /\ frameCount \in Int
    /\ isConnected \in BOOLEAN
    /\ at \in {"idle", "loop", "write", "record", "failed"}
    /\ phase \in Kinds
    /\ mode \in {"send", "finish", "flush"}
    /\ opener \in {"idle", "connecting"}
    /\ session \in 0..MaxSessions
    /\ live \in BOOLEAN
    /\ writers \subseteq Kinds \X Sessions
    /\ uncounted \subseteq Kinds \X Sessions
    /\ left \in Nat
    /\ produced \in 0..MaxFrames
    /\ wire \in Seq([kind : Kinds, ts : Timestamps \cup {t + 1 : t \in Timestamps},
                     pts : Timestamps, session : Sessions])

(* "It is critically important to send the frames in time order": on one   *)
(* connection the timestamps on the wire strictly increase, whatever the   *)
(* encoders send and however open() cuts into the handler's loop.          *)
WireInTimeOrder ==
    \A i, j \in 1..Len(wire) : i < j => wire[i].ts < wire[j].ts

(* getFrameCountInQueue() never reports less than what waits to be sent,  *)
(* whatever is dropped, flushed or fails, up to the writers about to count *)
(* their frame and the frames that waited when open() set it to zero: the  *)
(* adaptive quality of a later broadcast does not see those.               *)
CountCoversQueue == frameCount + Cardinality(uncounted) + left >= Waiting

(* A stop request, once posted, closes the connection: the loops of        *)
(* finishframes() end whatever is in the lists.                            *)
StopClosesConnection ==
    (\E i \in 1..Len(looper) : looper[i].what = "stop") ~> ~isConnected

(* "Stops broadcastings to the server": a connection carries the frames of *)
(* the broadcast it was opened for, none of a broadcast that was stopped.  *)
OnlyThisBroadcast ==
    isConnected => \A i \in 1..Len(wire) : wire[i].session = session

(* The streamer of one broadcast implements the merge it promises.         *)
InHand(k) == k = phase /\ at \in {"record", "failed"}
Waits(k) == IF InHand(k) THEN Tail(frameList[k]) ELSE frameList[k]
Pts(l) == [i \in 1..Len(l) |-> l[i].pts]
Written == [i \in 1..Len(wire) |->
               [kind |-> wire[i].kind, pts |-> wire[i].pts, ts |-> wire[i].ts]]
Pending == [k \in Kinds |-> Pts(Waits(k))]
Up == isConnected /\ at # "failed"
Merge == INSTANCE AvMerge WITH
    Times <- Timestamps, pending <- Pending, wire <- Written, connected <- Up
ImplementsMerge == Merge!Spec
=============================================================================
