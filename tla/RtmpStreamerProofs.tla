------------------------- MODULE RtmpStreamerProofs -------------------------
(* Theorems about RtmpStreamer, for all timestamps, frames and broadcasts. *)
EXTENDS RtmpStreamer, SequenceTheorems, FiniteSetTheorems, TLAPS

Later == Timestamps \cup {t + 1 : t \in Timestamps}

(* What the type invariant needs to be inductive: open() was counted when  *)
(* its thread connects; the handler has a frame in hand from Pick to       *)
(* Record, and only that frame can have been moved from its own time.      *)
Handling == at \in {"write", "record", "failed"}
InHandFrame == Head(frameList[phase])
Fresh(k, i) == frameList[k][i].ts = frameList[k][i].pts

TypeInv ==
    /\ TypeOK
    /\ opener = "connecting" => session > 0
    /\ Handling => frameList[phase] # <<>>
    /\ \A k \in Kinds : \A i \in 1..Len(frameList[k]) :
          Fresh(k, i) \/ (Handling /\ k = phase /\ i = 1)

(* Timestamps are numbers; the next millisecond of one is a later one.     *)
LEMMA LaterFacts ==
    /\ Timestamps \subseteq Int /\ Later \subseteq Int /\ Sent \subseteq Int
    /\ \A t \in Timestamps : t \in Later /\ t + 1 \in Later
    /\ Later \subseteq Sent
<1>1. \A t \in Timestamps : t \in Nat /\ t + 1 \in Nat
  BY TimestampsAssumption
<1>2. Later \subseteq Nat
  BY <1>1 DEF Later
<1>3. QED BY <1>1, <1>2 DEF Later, Sent

LEMMA TypeInit == Init => TypeInv
<1> SUFFICES ASSUME Init PROVE TypeInv
  OBVIOUS
<1>1. -1 \in Sent
  BY DEF Sent
<1>2. /\ looper \in Seq(Message) 
      /\ frameList \in [Kinds -> Seq(Frame)]
      /\ wire \in Seq([kind : Kinds, ts : Timestamps \cup {t + 1 : t \in Timestamps},
                       pts : Timestamps, session : Sessions])
  BY DEF Init
<1>3. /\ lastReceived \in [Kinds -> {-1} \cup Timestamps]
      /\ lastFrameTs \in [Kinds -> {0} \cup Sent]
  BY DEF Init
<1>4. phase \in Kinds /\ session \in 0..MaxSessions /\ produced \in 0..MaxFrames
  BY BoundsAssumption DEF Init, Kinds
<1>5. isConnected \in BOOLEAN /\ live \in BOOLEAN
  BY DEF Init
<1>6. /\ lastSent \in Sent /\ frameCount \in Int /\ left \in Nat
      /\ at \in {"idle", "loop", "write", "record", "failed"}
      /\ mode \in {"send", "finish", "flush"} /\ opener \in {"idle", "connecting"}
      /\ writers \subseteq Kinds \X Sessions
      /\ uncounted \subseteq Kinds \X Sessions
  BY <1>1 DEF Init
<1>7. TypeOK
  BY <1>2, <1>3, <1>4, <1>5, <1>6 DEF TypeOK
<1>8. QED BY <1>7 DEF Init, TypeInv, Handling

(* The steps that leave the lists and the handler alone need only keep the *)
(* types of the other variables.                                           *)
LEMMA TypeFrame ==
    ASSUME TypeInv, TypeOK', UNCHANGED <<frameList, at, phase>>,
           opener' = "connecting" => session' > 0
    PROVE  TypeInv'
BY DEF TypeInv, Handling, Fresh

LEMMA PostedFinite ==
    ASSUME NEW l \in Seq(Message)
    PROVE  IsFiniteSet(Posted(l)) /\ Cardinality(Posted(l)) \in Nat
<1>1. Len(l) \in Nat /\ IsFiniteSet(1..Len(l)) /\ Posted(l) \subseteq 1..Len(l)
  BY FS_Interval, LenProperties DEF Posted
<1> QED BY <1>1, FS_Subset, FS_CardinalityType

LEMMA WaitingTyped ==
    ASSUME TypeOK
    PROVE  Waiting \in Nat
<1>1. looper \in Seq(Message) /\ frameList \in [Kinds -> Seq(Frame)]
  BY DEF TypeOK
<1>2. Cardinality(Posted(looper)) \in Nat
  BY <1>1, PostedFinite
<1>3. Len(frameList["audio"]) \in Nat /\ Len(frameList["video"]) \in Nat
  BY <1>1, LenProperties DEF Kinds
<1> QED BY ONLY <1>2, <1>3 DEF Waiting

LEMMA TypeBroadcaster ==
    ASSUME TypeInv, Broadcaster
    PROVE  TypeInv'
<1> USE DEF handlerVars
<1>1. CASE OpenBegin
  <2>1. -1 \in Sent /\ session + 1 \in 0..MaxSessions /\ session + 1 > 0
    BY <1>1, BoundsAssumption DEF OpenBegin, TypeInv, TypeOK, Sent
  <2>2. /\ lastReceived' \in [Kinds -> {-1} \cup Timestamps]
        /\ lastFrameTs' \in [Kinds -> {0} \cup Sent]
        /\ frameCount' \in Int /\ lastSent' \in Sent /\ left' \in Nat
    BY <1>1, <2>1, WaitingTyped DEF OpenBegin, Reset, TypeInv
  <2>3. isConnected' \in BOOLEAN
    BY <1>1 DEF OpenBegin, Disconnect
  <2>4. TypeOK'
    BY <1>1, <2>1, <2>2, <2>3 DEF OpenBegin, TypeInv, TypeOK
  <2>5. QED BY <1>1, <2>1, <2>4, TypeFrame DEF OpenBegin
<1>2. CASE OpenSucceeds
  <2>1. session \in Sessions
    BY <1>2, BoundsAssumption DEF OpenSucceeds, TypeInv, TypeOK, Sessions
  <2>2. writers' \subseteq Kinds \X Sessions
    BY <1>2, <2>1 DEF OpenSucceeds, TypeInv, TypeOK
  <2>3. TypeOK'
    BY <1>2, <2>2 DEF OpenSucceeds, TypeInv, TypeOK
  <2>4. QED BY <1>2, <2>3, TypeFrame DEF OpenSucceeds
<1>3. CASE OpenFails
  <2>1. TypeOK'
    BY <1>3 DEF OpenFails, TypeInv, TypeOK
  <2>2. QED BY <1>3, <2>1, TypeFrame DEF OpenFails
<1>4. CASE StopBroadcasting
  <2>1. TypeOK'
    BY <1>4 DEF StopBroadcasting, TypeInv, TypeOK
  <2>2. QED BY <1>4, <2>1, TypeFrame DEF StopBroadcasting, TypeInv
<1>5. QED BY <1>1, <1>2, <1>3, <1>4 DEF Broadcaster

LEMMA TypeEncoder ==
    ASSUME TypeInv, NEW s \in Sessions, Encoder(s)
    PROVE  TypeInv'
<1> USE DEF handlerVars
<1>1. CASE \E k \in Kinds : WriteFrame(k, s)
  <2>1. PICK k \in Kinds : WriteFrame(k, s) BY <1>1
  <2>2. PICK t \in Timestamps :
            Post([what |-> k, pts |-> t, empty |-> FALSE, session |-> s])
    BY <2>1 DEF WriteFrame
  <2>3. [what |-> k, pts |-> t, empty |-> FALSE, session |-> s] \in Message
    BY DEF Message
  <2>4. looper' \in Seq(Message)
    BY <2>2, <2>3 DEF Post, TypeInv, TypeOK
  <2>5. produced' \in 0..MaxFrames
    BY <2>1, BoundsAssumption DEF WriteFrame, TypeInv, TypeOK
  <2>6. uncounted' \subseteq Kinds \X Sessions
    BY <2>1 DEF WriteFrame, TypeInv, TypeOK
  <2>7. TypeOK'
    BY <2>1, <2>4, <2>5, <2>6 DEF WriteFrame, TypeInv, TypeOK
  <2>8. QED BY <2>1, <2>7, TypeFrame DEF WriteFrame, TypeInv
<1>2. CASE \E k \in Kinds : CountFrame(k, s)
  <2>1. TypeOK'
    BY <1>2 DEF CountFrame, TypeInv, TypeOK
  <2>2. QED BY <1>2, <2>1, TypeFrame DEF CountFrame, TypeInv
<1>3. CASE EndAudio(s)
  <2>1. [what |-> "audio", pts |-> 0, empty |-> TRUE, session |-> s] \in Message
    BY DEF Message, Kinds
  <2>2. looper' \in Seq(Message)
    BY <1>3, <2>1 DEF EndAudio, Post, TypeInv, TypeOK
  <2>3. uncounted' \subseteq Kinds \X Sessions /\ writers' \subseteq Kinds \X Sessions
    BY <1>3 DEF EndAudio, TypeInv, TypeOK, Kinds
  <2>4. TypeOK'
    BY <1>3, <2>2, <2>3 DEF EndAudio, TypeInv, TypeOK
  <2>5. QED BY <1>3, <2>4, TypeFrame DEF EndAudio, TypeInv
<1>4. CASE StopMuxer(s)
  <2>1. [what |-> "stop", session |-> s] \in Message
    BY DEF Message
  <2>2. looper' \in Seq(Message)
    BY <1>4, <2>1 DEF StopMuxer, Post, TypeInv, TypeOK
  <2>3. TypeOK'
    BY <1>4, <2>2 DEF StopMuxer, TypeInv, TypeOK
  <2>4. QED BY <1>4, <2>3, TypeFrame DEF StopMuxer, TypeInv
<1>5. QED BY <1>1, <1>2, <1>3, <1>4 DEF Encoder

(* A frame that is accepted comes with its own time at the end of its      *)
(* list, behind any frame in hand (there is none while the handler waits). *)
LEMMA TypeReceiveFrame ==
    ASSUME TypeInv, ReceiveFrame
    PROVE  TypeInv'
<1> DEFINE m == Head(looper)
           f == [pts |-> m.pts, ts |-> m.pts, session |-> m.session]
           l == frameList[m.what]
<1>1. m \in Message /\ m.what \in Kinds /\ Tail(looper) \in Seq(Message)
  BY HeadTailProperties DEF ReceiveFrame, TypeInv, TypeOK
<1>2. /\ at' = "loop" /\ phase' = "audio" /\ mode' = "send"
      /\ looper' = Tail(looper) /\ ~Handling /\ ~Handling'
      /\ UNCHANGED <<lastFrameTs, lastSent, frameCount, isConnected, envVars, wire>>
  BY DEF ReceiveFrame, Handling
<1>3. CASE ~Accepted(m)
  <2>1. UNCHANGED <<lastReceived, frameList>>
    BY <1>3 DEF ReceiveFrame
  <2>2. TypeOK'
    BY <1>1, <1>2, <2>1 DEF TypeInv, TypeOK, envVars, Kinds
  <2>3. QED BY <1>2, <2>1, <2>2 DEF TypeInv, envVars, Fresh
<1>4. CASE Accepted(m)
  <2>1. m.pts \in Timestamps /\ m.session \in Sessions
    BY <1>1, <1>4 DEF Message, Kinds, Accepted
  <2>2. f \in Frame
    BY <2>1 DEF Frame
  <2>3. /\ lastReceived' = [lastReceived EXCEPT ![m.what] = m.pts]
        /\ frameList' = [frameList EXCEPT ![m.what] = Append(l, f)]
    BY <1>4 DEF ReceiveFrame
  <2>4. l \in Seq(Frame) /\ frameList \in [Kinds -> Seq(Frame)]
    BY <1>1 DEF TypeInv, TypeOK
  <2>5. /\ Append(l, f) \in Seq(Frame) /\ Len(Append(l, f)) = Len(l) + 1
        /\ \A i \in 1..Len(l) : Append(l, f)[i] = l[i]
        /\ Append(l, f)[Len(l) + 1] = f
    BY <2>2, <2>4, AppendProperties
  <2>6. TypeOK'
    BY <1>1, <1>2, <2>1, <2>3, <2>5 DEF TypeInv, TypeOK, envVars, Kinds
  <2>7. ASSUME NEW k \in Kinds, NEW i \in 1..Len(frameList'[k])
        PROVE  Fresh(k, i)'
    <3>1. CASE k # m.what
      BY <1>2, <2>3, <2>4, <3>1 DEF TypeInv, Fresh
    <3>2. CASE k = m.what /\ i = Len(l) + 1
      BY <1>1, <2>3, <2>4, <2>5, <3>2 DEF Fresh
    <3>3. CASE k = m.what /\ i \in 1..Len(l)
      <4>1. Fresh(k, i)
        BY <1>2, <3>3 DEF TypeInv
      <4>2. QED BY <4>1, <2>3, <2>4, <2>5, <3>3 DEF Fresh
    <3>4. i \in 1..Len(l) + 1 \/ k # m.what
      BY <2>3, <2>4, <2>5
    <3>5. Len(l) \in Nat
      BY <2>4, LenProperties
    <3>6. QED BY <3>1, <3>2, <3>3, <3>4, <3>5
  <2>8. QED BY <1>2, <2>6, <2>7 DEF TypeInv, envVars
<1>5. QED BY <1>3, <1>4

LEMMA TypeReceiveStop ==
    ASSUME TypeInv, ReceiveStop
    PROVE  TypeInv'
<1>1. Tail(looper) \in Seq(Message)
  BY HeadTailProperties DEF ReceiveStop, TypeInv, TypeOK
<1>2. TypeOK'
  BY <1>1 DEF ReceiveStop, TypeInv, TypeOK, envVars, Kinds
<1>3. QED BY <1>2 DEF ReceiveStop, TypeInv, envVars, Fresh, Handling

(* The frame picked has its own time, so it can move by one millisecond    *)
(* only; it is then the only one that may have moved.                      *)
LEMMA TypePick ==
    ASSUME TypeInv, Pick
    PROVE  TypeInv'
<1> DEFINE l == frameList[phase]
           h == Head(l)
           g == [h EXCEPT !.ts = SendTime(h.ts)]
<1>1. l \in Seq(Frame) /\ l # <<>> /\ phase \in Kinds /\ at = "loop"
  BY DEF TypeInv, TypeOK, Pick, InLoop
<1>2. Len(l) \in Nat /\ Len(l) > 0 /\ h = l[1] /\ h \in Frame
  BY <1>1, HeadTailProperties, LenProperties
<1>3. h.ts = h.pts /\ h.pts \in Timestamps
  BY <1>1, <1>2 DEF TypeInv, Fresh, Handling, Frame
<1>4. SendTime(h.ts) \in {h.pts, h.pts + 1}
  BY <1>3 DEF SendTime
<1>5. g \in Frame
  BY <1>2, <1>3, <1>4 DEF Frame
<1>6. frameList' = [frameList EXCEPT ![phase] = [l EXCEPT ![1] = g]]
  BY <1>1, <1>2 DEF Pick, TypeInv, TypeOK
<1>7. /\ [l EXCEPT ![1] = g] \in Seq(Frame) /\ Len([l EXCEPT ![1] = g]) = Len(l)
      /\ \A i \in 1..Len(l) : [l EXCEPT ![1] = g][i] = IF i = 1 THEN g ELSE l[i]
  BY <1>1, <1>2, <1>5, ExceptSeq
<1>8. /\ at' = "write" /\ UNCHANGED phase
      /\ UNCHANGED <<looper, lastReceived, lastFrameTs, lastSent, mode,
                     frameCount, isConnected, envVars, wire>>
  BY DEF Pick
<1>9. frameList \in [Kinds -> Seq(Frame)]
  BY DEF TypeInv, TypeOK
<1>10. TypeOK'
  BY <1>1, <1>6, <1>7, <1>8, <1>9 DEF TypeInv, TypeOK, envVars
<1>11. frameList'[phase'] # <<>>
  BY <1>1, <1>2, <1>6, <1>7, <1>8, <1>9
<1>12. ASSUME NEW k \in Kinds, NEW i \in 1..Len(frameList'[k])
       PROVE  Fresh(k, i)' \/ (Handling' /\ k = phase' /\ i = 1)
  <2>1. CASE k # phase
    BY <1>1, <1>6, <1>9, <2>1 DEF TypeInv, Fresh
  <2>2. CASE k = phase /\ i # 1
    <3>1. i \in 1..Len(l) /\ frameList'[k][i] = l[i]
      BY <1>1, <1>6, <1>7, <1>9, <2>2
    <3>2. Fresh(k, i)
      BY <1>1, <2>2, <3>1 DEF TypeInv, Handling
    <3>3. QED BY <2>2, <3>1, <3>2 DEF Fresh
  <2>3. QED BY <1>8, <2>1, <2>2 DEF Handling
<1>13. QED BY <1>8, <1>10, <1>11, <1>12 DEF TypeInv, envVars

(* Removing the head of a list leaves frames with their own time.          *)
LEMMA TypeRemove ==
    ASSUME TypeInv, InLoop \/ Handling, at' = "loop",
           frameList' = [frameList EXCEPT ![phase] = Tail(@)]
    PROVE  /\ frameList' \in [Kinds -> Seq(Frame)]
           /\ \A k \in Kinds : \A i \in 1..Len(frameList'[k]) : Fresh(k, i)'
<1> DEFINE l == frameList[phase]
<1>1. l \in Seq(Frame) /\ l # <<>> /\ phase \in Kinds
  BY DEF TypeInv, TypeOK, InLoop
<1>2. frameList \in [Kinds -> Seq(Frame)]
  BY DEF TypeInv, TypeOK
<1>3. /\ Tail(l) \in Seq(Frame) /\ Len(Tail(l)) = Len(l) - 1 /\ Len(l) \in Nat
      /\ \A i \in 1..Len(Tail(l)) : Tail(l)[i] = l[i + 1]
  BY <1>1, HeadTailProperties, LenProperties
<1>4. frameList' \in [Kinds -> Seq(Frame)]
  BY <1>1, <1>2, <1>3
<1>5. ASSUME NEW k \in Kinds, NEW i \in 1..Len(frameList'[k])
      PROVE  Fresh(k, i)'
  <2>1. CASE k # phase
    BY <1>1, <1>2, <2>1 DEF TypeInv, Fresh
  <2>2. CASE k = phase
    <3>1. i + 1 \in 1..Len(l) /\ i + 1 # 1 /\ frameList'[k][i] = l[i + 1]
      BY <1>1, <1>2, <1>3, <2>2
    <3>2. Fresh(k, i + 1)
      BY <2>2, <3>1 DEF TypeInv
    <3>3. QED BY <2>2, <3>1, <3>2 DEF Fresh
  <2>3. QED BY <2>1, <2>2
<1>6. QED BY <1>4, <1>5

LEMMA TypeDropFrame ==
    ASSUME TypeInv, DropFrame
    PROVE  TypeInv'
<1>1. /\ at = "loop" /\ at' = "loop" /\ InLoop
      /\ frameList' = [frameList EXCEPT ![phase] = Tail(@)]
      /\ UNCHANGED <<looper, lastReceived, lastFrameTs, lastSent, phase, mode,
                     frameCount, isConnected, envVars, wire>>
  BY DEF DropFrame, InLoop
<1>2. /\ frameList' \in [Kinds -> Seq(Frame)]
      /\ \A k \in Kinds : \A i \in 1..Len(frameList'[k]) : Fresh(k, i)'
  BY <1>1, TypeRemove
<1>3. TypeOK'
  BY <1>1, <1>2 DEF TypeInv, TypeOK, envVars
<1>4. QED BY <1>1, <1>2, <1>3 DEF TypeInv, Handling, envVars

LEMMA TypeRecord ==
    ASSUME TypeInv, Record
    PROVE  TypeInv'
<1>1. /\ at' = "loop" /\ Handling
      /\ frameList' = [frameList EXCEPT ![phase] = Tail(@)]
      /\ UNCHANGED <<looper, lastReceived, phase, mode, envVars, wire>>
  BY DEF Record, Handling
<1>2. /\ frameList' \in [Kinds -> Seq(Frame)]
      /\ \A k \in Kinds : \A i \in 1..Len(frameList'[k]) : Fresh(k, i)'
  BY <1>1, TypeRemove
<1>3. Head(frameList[phase]).ts \in Sent
  <2>1. frameList[phase] \in Seq(Frame) /\ frameList[phase] # <<>>
    BY <1>1 DEF TypeInv, TypeOK
  <2>2. Head(frameList[phase]) \in Frame
    BY <2>1, HeadTailProperties
  <2>3. QED BY <2>2 DEF Frame, Sent
<1>4. /\ lastFrameTs' \in [Kinds -> {0} \cup Sent] /\ lastSent' \in Sent
      /\ frameCount' \in Int
  BY <1>3 DEF Record, TypeInv, TypeOK
<1>5. isConnected' \in BOOLEAN
  BY DEF Record
<1>6. TypeOK'
  BY <1>1, <1>2, <1>4, <1>5 DEF TypeInv, TypeOK, envVars
<1>7. QED BY <1>1, <1>2, <1>6 DEF TypeInv, Handling, envVars

LEMMA TypeWrite ==
    ASSUME TypeInv, Write
    PROVE  TypeInv'
<1> DEFINE h == Head(frameList[phase])
           w == [kind |-> phase, ts |-> h.ts, pts |-> h.pts, session |-> h.session]
           WireFrame == [kind : Kinds, ts : Timestamps \cup {t + 1 : t \in Timestamps},
                         pts : Timestamps, session : Sessions]
<1>1. /\ at' \in {"record", "failed"} /\ Handling /\ Handling'
      /\ UNCHANGED <<looper, frameList, lastReceived, lastFrameTs, lastSent, phase,
                     mode, frameCount, isConnected, envVars>>
  BY DEF Write, Handling
<1>2. h \in Frame /\ phase \in Kinds
  <2>1. frameList[phase] \in Seq(Frame) /\ frameList[phase] # <<>>
    BY <1>1 DEF TypeInv, TypeOK
  <2>2. QED BY <2>1, HeadTailProperties DEF TypeInv, TypeOK
<1>3. w \in WireFrame
  BY <1>2 DEF Frame
<1>4. wire' = Append(wire, w) \/ UNCHANGED wire
  BY DEF Write
<1>5. wire' \in Seq(WireFrame)
  <2>1. wire \in Seq(WireFrame)
    BY DEF TypeInv, TypeOK
  <2> HIDE DEF WireFrame, w
  <2>2. QED BY <2>1, <1>3, <1>4, AppendProperties
<1>6. TypeOK'
  BY <1>1, <1>5 DEF TypeInv, TypeOK, envVars
<1>7. QED BY <1>1, <1>6 DEF TypeInv, envVars, Fresh

LEMMA TypeEndLoop ==
    ASSUME TypeInv, EndLoop
    PROVE  TypeInv'
<1>1. /\ ~Handling /\ ~Handling' /\ at' \in {"idle", "loop"}
      /\ phase' \in Kinds /\ mode' \in {"send", "finish", "flush"}
      /\ UNCHANGED <<looper, frameList, lastReceived, lastFrameTs, lastSent,
                     frameCount, envVars, wire>>
  BY DEF EndLoop, Handling, FlushPhase, Kinds, TypeInv, TypeOK
<1>2. isConnected' \in BOOLEAN
  BY DEF EndLoop, TypeInv, TypeOK
<1>3. TypeOK'
  BY <1>1, <1>2 DEF TypeInv, TypeOK, envVars
<1>4. QED BY <1>1, <1>3 DEF TypeInv, envVars, Fresh

LEMMA TypeStep == TypeInv /\ [Next]_vars => TypeInv'
<1> SUFFICES ASSUME TypeInv, [Next]_vars
             PROVE  TypeInv'
  OBVIOUS
<1>1. CASE Broadcaster
  BY <1>1, TypeBroadcaster
<1>2. CASE \E s \in Sessions : Encoder(s)
  BY <1>2, TypeEncoder
<1>3. CASE Handler
  BY <1>3, TypeReceiveFrame, TypeReceiveStop, TypePick, TypeDropFrame, TypeWrite,
     TypeRecord, TypeEndLoop DEF Handler
<1>4. CASE UNCHANGED vars
  BY <1>4 DEF vars, handlerVars, envVars, TypeInv, TypeOK, Fresh, Handling
<1>5. QED BY <1>1, <1>2, <1>3, <1>4 DEF Next

(* Type correctness: whatever the encoders, the user and the network do,   *)
(* RTMPStreamer never leaves a timestamp that is not one of an encoder or  *)
(* the millisecond after it.                                               *)
THEOREM TypeCorrect == Spec => []TypeOK
<1>1. TypeInv => TypeOK
  BY DEF TypeInv
<1>2. QED BY <1>1, TypeInit, TypeStep, PTL DEF Spec

-----------------------------------------------------------------------------
(* Time order on the wire.  lastSentFrameTimeStamp bounds what was written *)
(* on the connection the handler sees; open() resets it, but only after    *)
(* isConnected is FALSE, and the next connection starts with an empty      *)
(* wire.  Between Pick and Record the frame in hand takes its place.       *)
LastTs == wire[Len(wire)].ts

LastSentBounds ==
    isConnected /\ wire # <<>> =>
        /\ ~Handling => LastTs <= lastSent
        /\ at = "write" => LastTs < InHandFrame.ts
        /\ at \in {"record", "failed"} => LastTs <= InHandFrame.ts

OrderInv == TypeInv /\ WireInTimeOrder /\ LastSentBounds

(* The frame in hand is one of the list, with a timestamp that is a number.*)
LEMMA InHandType ==
    ASSUME TypeInv, frameList[phase] # <<>>
    PROVE  InHandFrame \in Frame /\ InHandFrame.ts \in Int
           /\ InHandFrame = frameList[phase][1]
<1>1. frameList[phase] \in Seq(Frame)
  BY DEF TypeInv, TypeOK
<1>2. InHandFrame \in Frame /\ InHandFrame = frameList[phase][1]
  BY <1>1, HeadTailProperties DEF InHandFrame
<1>3. InHandFrame.ts \in Later
  BY <1>2 DEF Frame, Later
<1>4. QED BY <1>2, <1>3, LaterFacts

(* The timestamps on the wire, and the last one sent, are numbers.         *)
LEMMA WireType ==
    ASSUME TypeInv
    PROVE  /\ Len(wire) \in Nat /\ lastSent \in Int
           /\ \A i \in 1..Len(wire) : wire[i].ts \in Int
           /\ wire # <<>> => Len(wire) \in 1..Len(wire)
<1> DEFINE WireFrame == [kind : Kinds, ts : Later, pts : Timestamps, session : Sessions]
<1>1. wire \in Seq(WireFrame)
  BY DEF TypeInv, TypeOK, Later
<1>2. \A w \in WireFrame : w.ts \in Int
  BY LaterFacts
<1> HIDE DEF WireFrame
<1>3. \A i \in 1..Len(wire) : wire[i] \in WireFrame
  BY <1>1, ElementOfSeq
<1>4. Len(wire) \in Nat /\ (wire # <<>> => Len(wire) \in 1..Len(wire))
  BY <1>1, LenProperties, EmptySeq
<1>5. lastSent \in Int
  BY LaterFacts DEF TypeInv, TypeOK
<1>6. QED BY <1>2, <1>3, <1>4, <1>5

(* A frame later than the last one written keeps the wire in order.        *)
LEMMA OrderAppend ==
    ASSUME NEW S, NEW l \in Seq(S), NEW e \in S,
           \A x \in S : x.ts \in Int,
           \A i, j \in 1..Len(l) : i < j => l[i].ts < l[j].ts,
           l # <<>> => l[Len(l)].ts < e.ts
    PROVE  \A i, j \in 1..Len(Append(l, e)) :
              i < j => Append(l, e)[i].ts < Append(l, e)[j].ts
<1> DEFINE m == Append(l, e)
<1>1. /\ Len(m) = Len(l) + 1 /\ Len(l) \in Nat /\ m[Len(l) + 1] = e
      /\ \A i \in 1..Len(l) : m[i] = l[i] /\ l[i] \in S
  BY AppendProperties, LenProperties, ElementOfSeq
<1> HIDE DEF m
<1>2. \A i \in 1..Len(l) : l[i].ts < e.ts
  <2>1. l # <<>> => Len(l) \in 1..Len(l)
    BY EmptySeq, <1>1
  <2>2. TAKE i \in 1..Len(l)
  <2>3. CASE i = Len(l)
    BY <2>1, <2>3, EmptySeq, <1>1
  <2>4. CASE i < Len(l)
    <3>1. l[i].ts < l[Len(l)].ts /\ l # <<>>
      BY <1>1, <2>4, EmptySeq
    <3>2. l[i].ts \in Int /\ l[Len(l)].ts \in Int /\ e.ts \in Int
      BY <1>1, <2>1, <3>1
    <3>3. QED BY <3>1, <3>2
  <2>5. QED BY <1>1, <2>3, <2>4
<1>3. SUFFICES ASSUME NEW i \in 1..Len(m), NEW j \in 1..Len(m), i < j
               PROVE  m[i].ts < m[j].ts
  BY DEF m
<1>4. i \in 1..Len(l)
  BY <1>1, <1>3
<1>5. CASE j = Len(l) + 1
  BY <1>1, <1>2, <1>4, <1>5
<1>6. CASE j \in 1..Len(l)
  BY <1>1, <1>3, <1>4, <1>6
<1>7. QED BY <1>1, <1>5, <1>6

LEMMA OrderStep == OrderInv /\ [Next]_vars => OrderInv'
<1> SUFFICES ASSUME OrderInv, [Next]_vars
             PROVE  OrderInv'
  OBVIOUS
<1>1. TypeInv /\ TypeInv'
  BY TypeStep DEF OrderInv
<1>2. SUFFICES WireInTimeOrder' /\ LastSentBounds'
  BY <1>1 DEF OrderInv
<1>3. CASE Broadcaster
  <2>1. CASE OpenBegin
    BY <2>1 DEF OpenBegin, Disconnect, OrderInv, LastSentBounds, WireInTimeOrder
  <2>2. CASE OpenSucceeds
    BY <2>2 DEF OpenSucceeds, WireInTimeOrder, LastSentBounds
  <2>3. CASE OpenFails \/ StopBroadcasting
    BY <2>3 DEF OpenFails, StopBroadcasting, handlerVars, OrderInv, LastSentBounds, WireInTimeOrder,
                Handling, InHandFrame, LastTs
  <2>4. QED BY <1>3, <2>1, <2>2, <2>3 DEF Broadcaster
<1>4. CASE \E s \in Sessions : Encoder(s)
  <2>1. UNCHANGED <<handlerVars, isConnected, wire>>
    BY <1>4 DEF Encoder, WriteFrame, CountFrame, EndAudio, StopMuxer
  <2>2. QED BY <2>1 DEF handlerVars, OrderInv, LastSentBounds, WireInTimeOrder, Handling, InHandFrame,
                        LastTs
<1>5. CASE Handler
  <2>1. CASE ReceiveFrame \/ ReceiveStop
    BY <2>1 DEF ReceiveFrame, ReceiveStop, OrderInv, LastSentBounds, WireInTimeOrder, Handling, LastTs
  <2>2. CASE Pick
    <3>1. InHandFrame.ts >= lastSent /\ InHandFrame.ts \in Int /\ lastSent \in Int
      BY <1>1, <2>2, InHandType, WireType DEF Pick, InLoop, InHandFrame
    <3>2. InHandFrame'.ts = SendTime(InHandFrame.ts)
      <4>1. /\ frameList \in [Kinds -> Seq(Frame)] /\ phase \in Kinds
            /\ frameList[phase] # <<>>
        BY <1>1, <2>2 DEF Pick, InLoop, TypeInv, TypeOK
      <4>2. 1 \in 1..Len(frameList[phase])
        BY <4>1, EmptySeq
      <4>3. frameList'[phase][1].ts = SendTime(frameList[phase][1].ts)
        BY <1>1, <2>2, <4>1, <4>2, LenProperties DEF Pick
      <4>4. InHandFrame = frameList[phase][1]
        BY <1>1, <4>1, InHandType
      <4>5. frameList'[phase'] # <<>>
        BY <1>1, <2>2 DEF TypeInv, Handling, Pick
      <4>6. InHandFrame' = frameList'[phase'][1] /\ phase' = phase
        BY <2>2, <4>5 DEF InHandFrame, Pick
      <4>7. QED BY <4>3, <4>4, <4>6
    <3>3. InHandFrame'.ts > lastSent /\ InHandFrame'.ts \in Int
      BY <3>1, <3>2 DEF SendTime
    <3>4. QED BY <1>1, <2>2, <3>1, <3>3, WireType
              DEF Pick, InLoop, OrderInv, LastSentBounds, WireInTimeOrder, Handling, LastTs
  <2>3. CASE DropFrame
    BY <2>3 DEF DropFrame, InLoop, OrderInv, LastSentBounds, WireInTimeOrder, Handling, LastTs
  <2>4. CASE Write
    <3> DEFINE WireFrame == [kind : Kinds, ts : Later, pts : Timestamps,
                             session : Sessions]
               w == [kind |-> phase, ts |-> InHandFrame.ts, pts |-> InHandFrame.pts,
                     session |-> InHandFrame.session]
    <3>1. /\ at = "write" /\ at' \in {"record", "failed"}
          /\ UNCHANGED <<frameList, phase, isConnected>>
      BY <2>4 DEF Write
    <3>2. InHandFrame \in Frame /\ InHandFrame.ts \in Int /\ InHandFrame' = InHandFrame
      BY <1>1, <3>1, InHandType DEF TypeInv, Handling, InHandFrame
    <3>3. w \in WireFrame /\ wire \in Seq(WireFrame)
      BY <1>1, <3>2 DEF Frame, TypeInv, TypeOK, Later
    <3>4. \A x \in WireFrame : x.ts \in Int
      BY LaterFacts
    <3>5. CASE UNCHANGED wire
      BY <1>1, <3>1, <3>2, <3>5, WireType
         DEF OrderInv, LastSentBounds, WireInTimeOrder, Handling, LastTs
    <3>6. CASE isConnected /\ wire' = Append(wire, w)
      <4>1. wire # <<>> => wire[Len(wire)].ts < w.ts
        BY <3>1, <3>6 DEF OrderInv, LastSentBounds, LastTs
      <4>2. WireInTimeOrder'
        <5> HIDE DEF WireFrame, w
        <5>1. QED BY <3>3, <3>4, <3>6, <4>1, OrderAppend DEF OrderInv, WireInTimeOrder
      <4>3. LastTs' = InHandFrame.ts
        <5>1. wire'[Len(wire')] = w
          <6> HIDE DEF WireFrame, w
          <6>1. QED BY <3>3, <3>6, AppendProperties
        <5>2. QED BY <5>1 DEF LastTs
      <4>4. QED BY <3>1, <3>2, <4>2, <4>3 DEF LastSentBounds, Handling
    <3>7. QED BY <2>4, <3>5, <3>6 DEF Write, InHandFrame
  <2>5. CASE Record
    <3>1. lastSent' = InHandFrame.ts /\ at \in {"record", "failed"} /\ at' = "loop"
          /\ UNCHANGED wire /\ (isConnected' => isConnected)
      BY <2>5 DEF Record, InHandFrame
    <3>2. QED BY <3>1 DEF OrderInv, LastSentBounds, WireInTimeOrder, Handling, LastTs
  <2>6. CASE EndLoop
    <3>1. ~Handling /\ ~Handling' /\ UNCHANGED <<lastSent, wire>>
          /\ (isConnected' => isConnected) /\ at' # "write" /\ at' \notin {"record", "failed"}
      BY <2>6 DEF EndLoop, Handling
    <3>2. QED BY <3>1 DEF OrderInv, LastSentBounds, WireInTimeOrder, LastTs
  <2>7. QED BY <1>5, <2>1, <2>2, <2>3, <2>4, <2>5, <2>6 DEF Handler
<1>6. CASE UNCHANGED vars
  BY <1>6 DEF vars, handlerVars, OrderInv, LastSentBounds, WireInTimeOrder, Handling, InHandFrame, LastTs
<1>7. QED BY <1>3, <1>4, <1>5, <1>6 DEF Next

(* On one connection the timestamps on the wire strictly increase, for     *)
(* every encoder and every interleaving of open() with the handler.        *)
THEOREM WireOrdered == Spec => []WireInTimeOrder
<1>1. Init => OrderInv
  BY TypeInit DEF Init, OrderInv, WireInTimeOrder, LastSentBounds
<1>2. OrderInv => WireInTimeOrder
  BY DEF OrderInv
<1>3. QED BY <1>1, <1>2, OrderStep, PTL DEF Spec

-----------------------------------------------------------------------------
(* The streamer of one broadcast implements AvMerge.  Nothing has happened *)
(* until open() has connected, which it does once: what waits and what is  *)
(* written belongs to one connection.                                      *)
Untouched ==
    /\ looper = <<>> /\ frameList = [k \in Kinds |-> <<>>]
    /\ lastReceived = [k \in Kinds |-> -1] /\ lastSent = -1
    /\ at = "idle" /\ mode = "send"
    /\ wire = <<>> /\ ~isConnected /\ writers = {} /\ uncounted = {} /\ ~live

(* Each list is in time order, up to the last frame received of its kind.  *)
ListsSorted ==
    \A k \in Kinds : \A i \in 1..Len(frameList[k]) :
        /\ frameList[k][i].pts <= lastReceived[k]
        /\ \A j \in 1..i : frameList[k][j].pts <= frameList[k][i].pts

(* The flush of finishframes() is about the only list that is left, and    *)
(* ends the connection.                                                    *)
FlushIsLast ==
    mode = "flush" => IF at = "idle" THEN ~isConnected
                                     ELSE frameList[Other(phase)] = <<>>

(* The frame in hand is the next one of both streams, and outside the      *)
(* flush both have received one as late.                                   *)
HandIsNext ==
    Handling =>
        /\ \A k \in Kinds : \A i \in 1..Len(frameList[k]) :
              InHandFrame.pts <= frameList[k][i].pts
        /\ mode # "flush" => \A k \in Kinds : InHandFrame.pts <= lastReceived[k]
        /\ at = "write" => InHandFrame.ts = SendTime(InHandFrame.pts)
        /\ InHandFrame.ts \in {InHandFrame.pts, InHandFrame.pts + 1}

(* So is what was written on the connection; lastSentFrameTimeStamp is its *)
(* last timestamp.                                                         *)
WireIsPast ==
    /\ \A j \in 1..Len(wire) : wire[j].ts \in {wire[j].pts, wire[j].pts + 1}
    /\ isConnected =>
        /\ \A j \in 1..Len(wire), k \in Kinds : \A i \in 1..Len(frameList[k]) :
              wire[j].pts <= frameList[k][i].pts
        /\ mode # "flush" =>
              \A j \in 1..Len(wire), k \in Kinds : wire[j].pts <= lastReceived[k]
        /\ at \notin {"record", "failed"} =>
              lastSent = IF wire = <<>> THEN -1 ELSE LastTs
        /\ at = "record" => wire # <<>> /\ LastTs = InHandFrame.ts

MergeInv ==
    /\ OrderInv
    /\ session = 0 \/ opener = "connecting" => Untouched
    /\ ListsSorted /\ FlushIsLast /\ HandIsNext /\ WireIsPast

LEMMA MergeInit == Init => MergeInv
<1> SUFFICES ASSUME Init PROVE MergeInv
  OBVIOUS
<1>1. OrderInv
  BY TypeInit DEF Init, OrderInv, WireInTimeOrder, LastSentBounds
<1>2. Untouched
  BY DEF Init, Untouched
<1>3. ListsSorted /\ FlushIsLast /\ HandIsNext /\ WireIsPast
  BY DEF Init, ListsSorted, FlushIsLast, HandIsNext, WireIsPast, Handling
<1> QED BY <1>1, <1>2, <1>3 DEF MergeInv

LEMMA ListFacts ==
    ASSUME TypeInv, NEW k \in Kinds
    PROVE  /\ frameList[k] \in Seq(Frame) /\ Len(frameList[k]) \in Nat
           /\ lastReceived[k] \in Int
           /\ \A i \in 1..Len(frameList[k]) :
                 /\ frameList[k][i] \in Frame
                 /\ frameList[k][i].pts \in Timestamps
                 /\ frameList[k][i].pts \in Int /\ frameList[k][i].ts \in Int
<1>1. frameList[k] \in Seq(Frame)
  BY DEF TypeInv, TypeOK
<1>2. Len(frameList[k]) \in Nat /\ \A i \in 1..Len(frameList[k]) : frameList[k][i] \in Frame
  BY <1>1, LenProperties, ElementOfSeq
<1>3. \A f \in Frame : f.pts \in Timestamps /\ f.pts \in Int /\ f.ts \in Int
  BY LaterFacts DEF Frame, Later
<1>4. lastReceived[k] \in Int
  <2>1. lastReceived[k] \in {-1} \cup Timestamps
    BY DEF TypeInv, TypeOK
  <2>2. \A t \in {-1} \cup Timestamps : t \in Int
    BY LaterFacts
  <2> QED BY ONLY <2>1, <2>2
<1> QED BY <1>1, <1>2, <1>3, <1>4

LEMMA WireFacts ==
    ASSUME TypeInv
    PROVE  /\ Len(wire) \in Nat
           /\ \A j \in 1..Len(wire) :
                 /\ wire[j].pts \in Timestamps /\ wire[j].pts \in Int /\ wire[j].ts \in Int
<1> DEFINE WireFrame == [kind : Kinds, ts : Later, pts : Timestamps, session : Sessions]
<1>1. wire \in Seq(WireFrame)
  BY DEF TypeInv, TypeOK, Later
<1>2. \A w \in WireFrame : w.pts \in Timestamps /\ w.pts \in Int /\ w.ts \in Int
  BY LaterFacts
<1> HIDE DEF WireFrame
<1>3. Len(wire) \in Nat /\ \A j \in 1..Len(wire) : wire[j] \in WireFrame
  BY <1>1, LenProperties, ElementOfSeq
<1> QED BY <1>2, <1>3

LEMMA OtherKind ==
    ASSUME NEW k \in Kinds
    PROVE  Other(k) \in Kinds /\ Other(k) # k /\ \A l \in Kinds : l = k \/ l = Other(k)
BY DEF Other, Kinds

(* What is left of the lists when the head of one is removed.              *)
LEMMA HeadRemoved ==
    ASSUME TypeInv, frameList[phase] # <<>>,
           frameList' = [frameList EXCEPT ![phase] = Tail(@)],
           NEW k \in Kinds, NEW i \in 1..Len(frameList'[k])
    PROVE  /\ k # phase => frameList'[k] = frameList[k]
           /\ k = phase => /\ i + 1 \in 1..Len(frameList[k])
                           /\ \A j \in 1..i : j + 1 \in 1..(i + 1)
                                  /\ frameList'[k][j] = frameList[k][j + 1]
                           /\ frameList'[k][i] = frameList[k][i + 1]
<1>1. phase \in Kinds /\ frameList \in [Kinds -> Seq(Frame)]
  BY DEF TypeInv, TypeOK
<1>2. CASE k # phase
  BY <1>1, <1>2
<1>3. CASE k = phase
  <2> DEFINE l == frameList[k]
  <2>1. l \in Seq(Frame) /\ l # <<>>
    BY <1>1, <1>3
  <2>2. /\ Len(Tail(l)) = Len(l) - 1 /\ Len(l) \in Nat
        /\ \A j \in 1..Len(Tail(l)) : Tail(l)[j] = l[j + 1]
    BY <2>1, HeadTailProperties, LenProperties
  <2>3. frameList'[k] = Tail(l)
    BY <1>1, <1>3
  <2> HIDE DEF l
  <2>4. i \in 1..Len(Tail(l))
    BY <2>3
  <2>5. i \in Nat /\ i + 1 \in 1..Len(l) /\ i <= Len(Tail(l))
    BY <2>2, <2>4
  <2>6. \A j \in 1..i : j + 1 \in 1..(i + 1) /\ j \in 1..Len(Tail(l))
    BY <2>2, <2>5
  <2> QED BY <1>3, <2>2, <2>3, <2>4, <2>5, <2>6 DEF l
<1> QED BY <1>2, <1>3

LEMMA SortedRemoved ==
    ASSUME TypeInv, ListsSorted, frameList[phase] # <<>>, UNCHANGED lastReceived,
           frameList' = [frameList EXCEPT ![phase] = Tail(@)]
    PROVE  /\ ListsSorted'
           /\ \A k \in Kinds : \A i \in 1..Len(frameList'[k]) :
                 \E j \in 1..Len(frameList[k]) : frameList'[k][i] = frameList[k][j]
<1> SUFFICES ASSUME NEW k \in Kinds, NEW i \in 1..Len(frameList'[k])
             PROVE  /\ frameList'[k][i].pts <= lastReceived[k]
                    /\ \A j \in 1..i : frameList'[k][j].pts <= frameList'[k][i].pts
                    /\ \E j \in 1..Len(frameList[k]) : frameList'[k][i] = frameList[k][j]
  BY DEF ListsSorted
<1>1. CASE k # phase
  BY <1>1, HeadRemoved DEF ListsSorted
<1>2. CASE k = phase
  <2>1. /\ i + 1 \in 1..Len(frameList[k]) /\ frameList'[k][i] = frameList[k][i + 1]
        /\ \A j \in 1..i : /\ j + 1 \in 1..(i + 1)
                            /\ frameList'[k][j] = frameList[k][j + 1]
    BY <1>2, HeadRemoved
  <2>2. /\ frameList[k][i + 1].pts <= lastReceived[k]
        /\ \A j \in 1..(i + 1) : frameList[k][j].pts <= frameList[k][i + 1].pts
    BY <2>1 DEF ListsSorted
  <2> QED BY <2>1, <2>2
<1> QED BY <1>1, <1>2

(* The steps that leave the handler and the connection alone.              *)
LEMMA MergeFrame ==
    ASSUME MergeInv, OrderInv',
           UNCHANGED <<frameList, lastReceived, lastSent, at, phase, mode, isConnected, wire>>,
           session' = 0 \/ opener' = "connecting" => Untouched'
    PROVE  MergeInv'
<1>1. ListsSorted' /\ FlushIsLast' /\ HandIsNext'
  BY DEF MergeInv, ListsSorted, FlushIsLast, HandIsNext, Handling, InHandFrame, SendTime
<1>2. WireIsPast'
  BY DEF MergeInv, WireIsPast, InHandFrame, LastTs
<1> QED BY <1>1, <1>2 DEF MergeInv

LEMMA MergeBroadcaster ==
    ASSUME MaxSessions <= 1, MergeInv, OrderInv', Broadcaster
    PROVE  MergeInv'
<1>1. session \in 0..MaxSessions /\ MaxSessions \in Nat /\ (opener = "connecting" => session > 0)
  BY BoundsAssumption DEF MergeInv, OrderInv, TypeInv, TypeOK
<1>2. CASE OpenBegin
  <2>1. Untouched
    BY <1>1, <1>2 DEF OpenBegin, MergeInv
  <2>2. Untouched'
    BY <1>2, <2>1 DEF OpenBegin, Untouched, Reset, Disconnect
  <2>3. isConnected' = isConnected
    BY <1>2, <2>1 DEF OpenBegin, Disconnect, Untouched, MergeInv, OrderInv, TypeInv, TypeOK
  <2>4. UNCHANGED <<frameList, lastReceived, lastSent, at, phase, mode, isConnected, wire>>
    BY <1>2, <2>1, <2>2, <2>3 DEF OpenBegin, Untouched
  <2> QED BY <2>2, <2>4, MergeFrame
<1>3. CASE OpenSucceeds
  <2>1. Untouched /\ session' > 0 /\ opener' = "idle"
    BY <1>1, <1>3 DEF OpenSucceeds, MergeInv
  <2>2. /\ frameList' = [k \in Kinds |-> <<>>] /\ lastSent' = -1 /\ at' = "idle"
        /\ mode' = "send" /\ wire' = <<>>
    BY <1>3, <2>1 DEF OpenSucceeds, handlerVars, Untouched
  <2>3. ListsSorted' /\ FlushIsLast' /\ HandIsNext' /\ WireIsPast'
    BY <2>2 DEF ListsSorted, FlushIsLast, HandIsNext, WireIsPast, Handling
  <2> QED BY <1>1, <2>1, <2>3 DEF MergeInv
<1>4. CASE OpenFails
  <2>1. session' > 0 /\ opener' = "idle"
    BY <1>1, <1>4 DEF OpenFails
  <2> QED BY <1>1, <1>4, <2>1, MergeFrame DEF OpenFails, handlerVars
<1>5. CASE StopBroadcasting
  <2>1. session # 0 /\ opener # "connecting"
    BY <1>5 DEF StopBroadcasting, MergeInv, Untouched
  <2> QED BY <1>5, <2>1, MergeFrame DEF StopBroadcasting, handlerVars
<1> QED BY <1>2, <1>3, <1>4, <1>5 DEF Broadcaster

(* An encoder that runs, or counts its last frame, was started by open().  *)
LEMMA MergeEncoder ==
    ASSUME MergeInv, OrderInv', NEW s \in Sessions, Encoder(s)
    PROVE  MergeInv'
<1>1. writers # {} \/ uncounted # {}
  BY DEF Encoder, WriteFrame, CountFrame, EndAudio, StopMuxer
<1>2. session # 0 /\ opener # "connecting"
  BY <1>1 DEF MergeInv, Untouched
<1>3. UNCHANGED <<handlerVars, isConnected, wire, session, opener>>
  BY DEF Encoder, WriteFrame, CountFrame, EndAudio, StopMuxer
<1> QED BY <1>2, <1>3, MergeFrame DEF handlerVars

(* The handler runs only after open() has connected.                       *)
LEMMA HandlerStarted ==
    ASSUME MergeInv, Handler
    PROVE  session' # 0 /\ opener' # "connecting"
<1>1. looper # <<>> \/ at # "idle"
  BY DEF Handler, ReceiveFrame, ReceiveStop, Pick, DropFrame, Write, Record, EndLoop, InLoop
<1>2. session # 0 /\ opener # "connecting"
  BY <1>1 DEF MergeInv, Untouched
<1>3. UNCHANGED envVars
  BY DEF Handler, ReceiveFrame, ReceiveStop, Pick, DropFrame, Write, Record, EndLoop
<1> QED BY <1>2, <1>3 DEF envVars

LEMMA MergeReceiveFrame ==
    ASSUME MergeInv, OrderInv', ReceiveFrame
    PROVE  MergeInv'
<1> DEFINE m == Head(looper)
           f == [pts |-> m.pts, ts |-> m.pts, session |-> m.session]
           l == frameList[m.what]
<1> USE DEF OrderInv
<1>1. TypeInv /\ m \in Message /\ m.what \in Kinds
  BY HeadTailProperties DEF ReceiveFrame, MergeInv, TypeInv, TypeOK
<1>2. /\ at = "idle" /\ at' = "loop" /\ mode' = "send" /\ UNCHANGED <<lastSent, isConnected, wire>>
      /\ ~Handling /\ ~Handling'
  BY DEF ReceiveFrame, Handling
<1>3. FlushIsLast' /\ HandIsNext'
  BY <1>2 DEF FlushIsLast, HandIsNext
<1>4. session' # 0 /\ opener' # "connecting"
  BY HandlerStarted DEF Handler
<1>5. isConnected => mode # "flush"
  BY <1>2 DEF MergeInv, FlushIsLast
<1>6. CASE ~Accepted(m)
  <2>1. UNCHANGED <<lastReceived, frameList>>
    BY <1>6 DEF ReceiveFrame
  <2>2. ListsSorted'
    BY <2>1 DEF MergeInv, ListsSorted
  <2>3. WireIsPast'
    BY <1>2, <1>5, <2>1 DEF MergeInv, WireIsPast, LastTs
  <2> QED BY <1>3, <1>4, <2>2, <2>3 DEF MergeInv
<1>7. CASE Accepted(m)
  <2>1. m.pts >= lastReceived[m.what] /\ m.pts \in Timestamps /\ m.pts \in Int
    BY <1>1, <1>7, LaterFacts DEF Message, Kinds, Accepted
  <2>2. f \in Frame
    BY <1>1, <1>7 DEF Message, Kinds, Accepted, Frame
  <2>3. /\ lastReceived' = [lastReceived EXCEPT ![m.what] = m.pts]
        /\ frameList' = [frameList EXCEPT ![m.what] = Append(l, f)]
    BY <1>7 DEF ReceiveFrame
  <2>4. l \in Seq(Frame) /\ Len(l) \in Nat
    BY <1>1, ListFacts
  <2>5. /\ Len(Append(l, f)) = Len(l) + 1
        /\ \A i \in 1..Len(l) : Append(l, f)[i] = l[i]
        /\ Append(l, f)[Len(l) + 1] = f
    BY <2>2, <2>4, AppendProperties
  <2>6. /\ frameList'[m.what] = Append(l, f) /\ lastReceived'[m.what] = m.pts
        /\ \A k \in Kinds : k # m.what => /\ frameList'[k] = frameList[k]
                                          /\ lastReceived'[k] = lastReceived[k]
    BY <1>1, <2>3 DEF TypeInv, TypeOK
  <2> DEFINE n == Len(l)
  <2> HIDE DEF l, f, n
  <2>7. \A i \in 1..Len(frameList'[m.what]) :
           \/ i \in 1..n /\ frameList'[m.what][i] = frameList[m.what][i]
           \/ i = n + 1 /\ frameList'[m.what][i].pts = m.pts
    BY <2>4, <2>5, <2>6 DEF f, l, n
  <2>8. n = Len(frameList[m.what]) /\ n \in Nat
    BY <2>4 DEF l, n
  <2>9. \A k \in Kinds : lastReceived[k] <= lastReceived'[k] /\ lastReceived[k] \in Int /\ lastReceived'[k] \in Int
    BY <1>1, <2>1, <2>6, ListFacts
  <2>10. ASSUME NEW k \in Kinds, NEW i \in 1..Len(frameList'[k])
         PROVE  \/ i \in 1..Len(frameList[k]) /\ \A j \in 1..i : frameList'[k][j] = frameList[k][j]
                \/ /\ frameList'[k][i].pts = m.pts /\ k = m.what
                   /\ \A j \in 1..i : frameList'[k][j].pts = m.pts
                         \/ (j \in 1..Len(frameList[k]) /\ frameList'[k][j] = frameList[k][j])
    <3>1. CASE k # m.what
      BY <2>6, <3>1, <1>1, ListFacts
    <3>2. CASE k = m.what
      <4>1. i \in 1..(n + 1) /\ Len(frameList'[k]) = n + 1
        BY <2>5, <2>6, <3>2 DEF n
      <4>2. \A j \in 1..i : j \in 1..Len(frameList'[k]) /\ (i <= n => j \in 1..n)
        BY <2>8, <4>1
      <4>3. CASE i <= n
        BY <2>7, <2>8, <3>2, <4>1, <4>2, <4>3
      <4>4. CASE i = n + 1
        <5>1. frameList'[k][i].pts = m.pts
          BY <2>7, <2>8, <3>2, <4>1, <4>4
        <5>2. \A j \in 1..i : frameList'[k][j].pts = m.pts
                     \/ (j \in 1..Len(frameList[k]) /\ frameList'[k][j] = frameList[k][j])
          <6> TAKE j \in 1..i
          <6>1. j \in 1..Len(frameList'[m.what])
            BY <3>2, <4>2
          <6> QED BY <2>7, <2>8, <3>2, <6>1
        <5> QED BY <3>2, <5>1, <5>2
      <4> QED BY <2>8, <4>1, <4>3, <4>4
    <3> QED BY <3>1, <3>2
  <2>11. ListsSorted'
    <3> SUFFICES ASSUME NEW k \in Kinds, NEW i \in 1..Len(frameList'[k])
                 PROVE  /\ frameList'[k][i].pts <= lastReceived'[k]
                        /\ \A j \in 1..i : frameList'[k][j].pts <= frameList'[k][i].pts
      BY DEF ListsSorted
    <3>1. CASE i \in 1..Len(frameList[k]) /\ \A j \in 1..i : frameList'[k][j] = frameList[k][j]
      <4>1. i \in 1..i /\ frameList[k][i].pts \in Int
        BY <1>1, <3>1, ListFacts
      <4>2. /\ frameList[k][i].pts <= lastReceived[k]
            /\ \A j \in 1..i : frameList[k][j].pts <= frameList[k][i].pts
        BY <3>1 DEF MergeInv, ListsSorted
      <4> QED BY SMTT(30), <2>9, <3>1, <4>1, <4>2
    <3>2. CASE /\ frameList'[k][i].pts = m.pts /\ k = m.what
               /\ \A j \in 1..i : frameList'[k][j].pts = m.pts
                     \/ (j \in 1..Len(frameList[k]) /\ frameList'[k][j] = frameList[k][j])
      <4>1. \A j \in 1..Len(frameList[k]) : frameList[k][j].pts <= m.pts
        BY <1>1, <2>1, <3>2, ListFacts DEF MergeInv, ListsSorted
      <4>2. frameList'[k][i].pts <= lastReceived'[k]
        BY <2>1, <2>6, <3>2
      <4>3. \A j \in 1..i : frameList'[k][j].pts <= frameList'[k][i].pts
        <5> TAKE j \in 1..i
        <5>1. CASE frameList'[k][j].pts = m.pts
          BY <2>1, <3>2, <5>1
        <5>2. CASE j \in 1..Len(frameList[k]) /\ frameList'[k][j] = frameList[k][j]
          BY <3>2, <4>1, <5>2
        <5> QED BY <3>2, <5>1, <5>2
      <4> QED BY <4>2, <4>3
    <3> QED BY <2>10, <3>1, <3>2
  <2>12. WireIsPast'
    <3>1. isConnected => /\ \A j \in 1..Len(wire), k \in Kinds : \A i \in 1..Len(frameList[k]) :
                              wire[j].pts <= frameList[k][i].pts
                         /\ \A j \in 1..Len(wire), k \in Kinds : wire[j].pts <= lastReceived[k]
      BY <1>5 DEF MergeInv, WireIsPast
    <3>2. isConnected => \A j \in 1..Len(wire), k \in Kinds : wire[j].pts <= lastReceived'[k]
      BY <1>1, <2>9, <3>1, WireFacts
    <3>3. isConnected => \A j \in 1..Len(wire) : wire[j].pts <= m.pts
      BY <1>1, <2>6, <3>2
    <3>4. isConnected => \A j \in 1..Len(wire), k \in Kinds : \A i \in 1..Len(frameList'[k]) :
                              wire[j].pts <= frameList'[k][i].pts
      <4> SUFFICES ASSUME isConnected, NEW j \in 1..Len(wire), NEW k \in Kinds,
                          NEW i \in 1..Len(frameList'[k])
                   PROVE  wire[j].pts <= frameList'[k][i].pts
        OBVIOUS
      <4>1. \/ i \in 1..Len(frameList[k]) /\ \A jj \in 1..i : frameList'[k][jj] = frameList[k][jj]
            \/ frameList'[k][i].pts = m.pts
        BY <2>10
      <4>2. i \in 1..Len(frameList[k]) => i \in 1..i
        BY <1>1, ListFacts
      <4> QED BY <3>1, <3>3, <4>1, <4>2
    <3> QED BY <1>2, <3>2, <3>4 DEF MergeInv, WireIsPast, LastTs
  <2> QED BY <1>3, <1>4, <2>11, <2>12 DEF MergeInv
<1> QED BY <1>6, <1>7

LEMMA MergeReceiveStop ==
    ASSUME MergeInv, OrderInv', ReceiveStop
    PROVE  MergeInv'
<1>1. /\ at = "idle" /\ at' = "loop" /\ mode' = "finish" /\ ~Handling /\ ~Handling'
      /\ UNCHANGED <<frameList, lastReceived, lastSent, isConnected, wire>>
  BY DEF ReceiveStop, Handling
<1>2. isConnected => mode # "flush"
  BY <1>1 DEF MergeInv, FlushIsLast
<1>3. ListsSorted' /\ FlushIsLast' /\ HandIsNext'
  BY <1>1 DEF MergeInv, ListsSorted, FlushIsLast, HandIsNext
<1>4. WireIsPast'
  BY <1>1, <1>2 DEF MergeInv, WireIsPast, LastTs
<1>5. session' # 0 /\ opener' # "connecting"
  BY HandlerStarted DEF Handler
<1> QED BY <1>3, <1>4, <1>5 DEF MergeInv

(* Pick moves a timestamp and no presentation time.                        *)
LEMMA PickFacts ==
    ASSUME TypeInv, Pick
    PROVE  /\ phase \in Kinds /\ frameList[phase] # <<>> /\ 1 \in 1..Len(frameList[phase])
           /\ InHandFrame = frameList[phase][1]
           /\ InHandFrame' = frameList'[phase][1]
           /\ InHandFrame'.ts = SendTime(InHandFrame.ts)
           /\ InHandFrame.ts = InHandFrame.pts
           /\ \A k \in Kinds : Len(frameList'[k]) = Len(frameList[k])
           /\ \A k \in Kinds : \A i \in 1..Len(frameList[k]) :
                 frameList'[k][i].pts = frameList[k][i].pts
<1> DEFINE l == frameList[phase]
<1>1. /\ frameList \in [Kinds -> Seq(Frame)] /\ phase \in Kinds /\ l \in Seq(Frame) /\ l # <<>>
      /\ at = "loop" /\ UNCHANGED phase
  BY DEF TypeInv, TypeOK, Pick, InLoop
<1>2. Len(l) \in Nat /\ 1 \in 1..Len(l) /\ l[1] \in Frame /\ Head(l) = l[1]
  BY <1>1, LenProperties, EmptySeq, HeadTailProperties
<1> DEFINE g == [l[1] EXCEPT !.ts = SendTime(l[1].ts)]
<1>3. frameList' = [frameList EXCEPT ![phase] = [l EXCEPT ![1] = g]]
  BY <1>1, <1>2 DEF Pick
<1>4. g.pts = l[1].pts /\ g.ts = SendTime(l[1].ts)
  BY <1>2 DEF Frame
<1>5. l[1].ts = l[1].pts
  BY <1>1, <1>2 DEF TypeInv, Fresh, Handling
<1> HIDE DEF g
<1>6. /\ frameList'[phase] = [l EXCEPT ![1] = g]
      /\ \A k \in Kinds : k # phase => frameList'[k] = frameList[k]
  BY <1>1, <1>3
<1>7. /\ Len([l EXCEPT ![1] = g]) = Len(l)
      /\ \A i \in 1..Len(l) : [l EXCEPT ![1] = g][i] = IF i = 1 THEN g ELSE l[i]
  <2>1. l \in [1..Len(l) -> Frame]
    BY <1>1, LenProperties
  <2>2. DOMAIN [l EXCEPT ![1] = g] = 1..Len(l)
    BY <2>1
  <2>3. \A i \in 1..Len(l) : [l EXCEPT ![1] = g][i] = IF i = 1 THEN g ELSE l[i]
    BY <2>1
  <2>4. g \in Frame
    <3>1. TypeInv'
      BY TypePick
    <3>2. frameList'[phase] \in Seq(Frame)
      BY <1>1, <3>1 DEF TypeInv, TypeOK
    <3>3. frameList'[phase] # <<>>
      BY <1>1, <3>1 DEF TypeInv, Handling, Pick
    <3>4. frameList'[phase][1] \in Frame
      BY <3>2, <3>3, EmptySeq, LenProperties, ElementOfSeq
    <3> QED BY <1>2, <1>6, <2>3, <3>4
  <2>5. [l EXCEPT ![1] = g] \in Seq(Frame) /\ Len([l EXCEPT ![1] = g]) = Len(l)
    BY <1>1, <1>2, <2>4, ExceptSeq
  <2> QED BY <2>3, <2>5
<1>8. InHandFrame = l[1] /\ InHandFrame' = frameList'[phase][1]
  <2>1. frameList'[phase] # <<>> /\ frameList'[phase] \in Seq(Frame)
    BY <1>1, TypePick DEF TypeInv, TypeOK, Handling, Pick
  <2>2. Head(frameList'[phase]) = frameList'[phase][1]
    BY <2>1, HeadTailProperties
  <2> QED BY <1>1, <1>2, <2>2 DEF InHandFrame
<1>9. \A k \in Kinds : \A i \in 1..Len(frameList[k]) :
         frameList'[k][i].pts = frameList[k][i].pts
  BY <1>4, <1>6, <1>7
<1>10. \A k \in Kinds : Len(frameList'[k]) = Len(frameList[k])
  BY <1>6, <1>7
<1>11. frameList'[phase][1] = g
  BY <1>2, <1>6, <1>7
<1> QED BY <1>1, <1>2, <1>4, <1>5, <1>8, <1>9, <1>10, <1>11

LEMMA MergePick ==
    ASSUME MergeInv, OrderInv', Pick
    PROVE  MergeInv'
<1>1. TypeInv /\ TypeInv'
  BY DEF MergeInv, OrderInv
<1> DEFINE h == InHandFrame
<1>2. /\ phase \in Kinds /\ frameList[phase] # <<>> /\ 1 \in 1..Len(frameList[phase])
      /\ h = frameList[phase][1] /\ InHandFrame' = frameList'[phase][1]
      /\ InHandFrame'.ts = SendTime(h.ts) /\ h.ts = h.pts
      /\ \A k \in Kinds : Len(frameList'[k]) = Len(frameList[k])
      /\ \A k \in Kinds : \A i \in 1..Len(frameList[k]) :
            frameList'[k][i].pts = frameList[k][i].pts
  BY <1>1, PickFacts
<1>3. /\ at = "loop" /\ at' = "write" /\ InLoop
      /\ UNCHANGED <<lastReceived, lastSent, phase, mode, isConnected, wire>>
  BY DEF Pick, InLoop
<1>4. InHandFrame'.pts = h.pts /\ h.pts \in Int
  BY <1>1, <1>2, ListFacts
<1> HIDE DEF h
<1>5. ListsSorted'
  <2> SUFFICES ASSUME NEW k \in Kinds, NEW i \in 1..Len(frameList'[k])
               PROVE  /\ frameList'[k][i].pts <= lastReceived'[k]
                      /\ \A j \in 1..i : frameList'[k][j].pts <= frameList'[k][i].pts
    BY DEF ListsSorted
  <2>1. i \in 1..Len(frameList[k]) /\ \A j \in 1..i : j \in 1..Len(frameList[k])
    BY <1>1, <1>2, ListFacts
  <2>2. /\ frameList[k][i].pts <= lastReceived[k]
        /\ \A j \in 1..i : frameList[k][j].pts <= frameList[k][i].pts
    BY <2>1 DEF MergeInv, ListsSorted
  <2> QED BY <1>2, <1>3, <2>1, <2>2
<1>6. FlushIsLast'
  <2>1. mode = "flush" => frameList[Other(phase)] = <<>>
    BY <1>3 DEF MergeInv, FlushIsLast
  <2>2. mode = "flush" => frameList'[Other(phase)] = <<>>
    BY <1>1, <1>2, <2>1, OtherKind, ListFacts, EmptySeq DEF Pick, TypeInv, TypeOK
  <2> QED BY <1>3, <2>2 DEF FlushIsLast
<1>7. \A i \in 1..Len(frameList[phase]) : h.pts <= frameList[phase][i].pts
  <2> TAKE i \in 1..Len(frameList[phase])
  <2>1. 1 \in 1..i
    BY <1>1, <1>2, ListFacts
  <2> QED BY <1>2, <2>1 DEF MergeInv, ListsSorted
<1>8. mode = "flush" =>
         \A k \in Kinds : \A i \in 1..Len(frameList[k]) : h.pts <= frameList[k][i].pts
  <2> SUFFICES ASSUME mode = "flush", NEW k \in Kinds, NEW i \in 1..Len(frameList[k])
               PROVE  h.pts <= frameList[k][i].pts
    OBVIOUS
  <2>1. frameList[Other(phase)] = <<>>
    BY <1>3 DEF MergeInv, FlushIsLast
  <2>2. k = phase
    BY <1>2, <2>1, OtherKind, EmptySeq
  <2> QED BY <1>7, <2>2
<1>9. mode # "flush" =>
         /\ \A k \in Kinds : \A i \in 1..Len(frameList[k]) : h.pts <= frameList[k][i].pts
         /\ \A k \in Kinds : h.pts <= lastReceived[k]
  <2> SUFFICES ASSUME mode # "flush"
               PROVE  /\ \A k \in Kinds : \A i \in 1..Len(frameList[k]) : h.pts <= frameList[k][i].pts
                      /\ \A k \in Kinds : h.pts <= lastReceived[k]
    OBVIOUS
  <2> DEFINE o == Other(phase)
  <2>1. o \in Kinds /\ o # phase /\ \A k \in Kinds : k = phase \/ k = o
    BY <1>2, OtherKind
  <2>2. frameList[o] # <<>> /\ Head(frameList[phase]).ts <= Head(frameList[o]).ts
    BY <1>3 DEF InLoop, HasBound, Bound
  <2>3. frameList[o] \in Seq(Frame) /\ frameList[phase] \in Seq(Frame)
    BY <1>2, <2>1, <1>1, ListFacts
  <2>4. Head(frameList[o]) = frameList[o][1] /\ Head(frameList[phase]) = h /\ 1 \in 1..Len(frameList[o])
    BY <1>2, <2>2, <2>3, HeadTailProperties, EmptySeq, LenProperties
  <2>5. Fresh(o, 1)
    BY <1>1, <2>1, <2>4 DEF TypeInv
  <2>6. h.pts <= frameList[o][1].pts
    BY <1>2, <2>2, <2>4, <2>5 DEF Fresh
  <2> HIDE DEF o
  <2>7. \A i \in 1..Len(frameList[o]) : h.pts <= frameList[o][i].pts
    <3> TAKE i \in 1..Len(frameList[o])
    <3>1. 1 \in 1..i
      BY <1>1, <2>1, ListFacts
    <3>2. frameList[o][1].pts <= frameList[o][i].pts
      BY <2>1, <3>1 DEF MergeInv, ListsSorted
    <3> QED BY <1>1, <1>4, <2>1, <2>4, <2>6, <3>2, ListFacts
  <2>8. h.pts <= lastReceived[phase] /\ frameList[o][1].pts <= lastReceived[o]
    BY <1>2, <2>1, <2>4 DEF MergeInv, ListsSorted
  <2>9. h.pts <= lastReceived[o]
    BY <1>1, <1>4, <2>1, <2>4, <2>6, <2>8, ListFacts
  <2> QED BY <1>7, <2>1, <2>7, <2>8, <2>9
<1>10. HandIsNext'
  <2>1. \A k \in Kinds : \A i \in 1..Len(frameList[k]) : h.pts <= frameList[k][i].pts
    BY <1>8, <1>9
  <2>2. \A k \in Kinds : \A i \in 1..Len(frameList'[k]) : InHandFrame'.pts <= frameList'[k][i].pts
    BY <1>2, <1>4, <2>1
  <2>3. InHandFrame'.ts \in {InHandFrame'.pts, InHandFrame'.pts + 1}
    BY <1>2, <1>4 DEF SendTime
  <2>4. InHandFrame'.ts = (IF InHandFrame'.pts = lastSent'
                            THEN InHandFrame'.pts + 1 ELSE InHandFrame'.pts)
    BY <1>2, <1>3, <1>4 DEF SendTime
  <2> QED BY <1>3, <1>4, <1>9, <2>2, <2>3, <2>4 DEF HandIsNext, SendTime
<1>11. WireIsPast'
  <2>1. /\ \A j \in 1..Len(wire) : wire[j].ts \in {wire[j].pts, wire[j].pts + 1}
        /\ isConnected =>
             /\ \A j \in 1..Len(wire), k \in Kinds : \A i \in 1..Len(frameList[k]) :
                   wire[j].pts <= frameList[k][i].pts
             /\ mode # "flush" =>
                   \A j \in 1..Len(wire), k \in Kinds : wire[j].pts <= lastReceived[k]
             /\ lastSent = IF wire = <<>> THEN -1 ELSE LastTs
    BY <1>3 DEF MergeInv, WireIsPast
  <2>2. isConnected => \A j \in 1..Len(wire), k \in Kinds : \A i \in 1..Len(frameList'[k]) :
                   wire[j].pts <= frameList'[k][i].pts
    BY <1>2, <2>1
  <2> QED BY <1>3, <2>1, <2>2 DEF WireIsPast, LastTs
<1>12. session' # 0 /\ opener' # "connecting"
  BY HandlerStarted DEF Handler
<1> QED BY <1>5, <1>6, <1>10, <1>11, <1>12 DEF MergeInv

(* The steps that remove the frame at the head of the list.                *)
LEMMA MergeRemove ==
    ASSUME MergeInv, at' = "loop", frameList[phase] # <<>>, InLoop \/ Handling,
           frameList' = [frameList EXCEPT ![phase] = Tail(@)],
           UNCHANGED <<lastReceived, phase, mode, wire>>
    PROVE  /\ ListsSorted' /\ FlushIsLast' /\ HandIsNext'
           /\ isConnected =>
                 /\ \A j \in 1..Len(wire'), k \in Kinds : \A i \in 1..Len(frameList'[k]) :
                       wire'[j].pts <= frameList'[k][i].pts
                 /\ mode' # "flush" =>
                       \A j \in 1..Len(wire'), k \in Kinds : wire'[j].pts <= lastReceived'[k]
<1>1. TypeInv /\ ListsSorted /\ phase \in Kinds
  BY DEF MergeInv, OrderInv, TypeInv, TypeOK
<1>2. ListsSorted'
  BY <1>1, SortedRemoved
<1>3. FlushIsLast'
  <2>1. mode = "flush" => frameList[Other(phase)] = <<>>
    BY DEF MergeInv, FlushIsLast, InLoop, Handling
  <2>2. frameList'[Other(phase)] = frameList[Other(phase)]
    BY <1>1, OtherKind DEF TypeInv, TypeOK
  <2> QED BY <2>1, <2>2 DEF FlushIsLast
<1>4. HandIsNext'
  BY DEF HandIsNext, Handling
<1>5. ASSUME isConnected, NEW j \in 1..Len(wire'), NEW k \in Kinds,
             NEW i \in 1..Len(frameList'[k])
      PROVE  wire'[j].pts <= frameList'[k][i].pts
  <2>1. PICK n \in 1..Len(frameList[k]) : frameList'[k][i] = frameList[k][n]
    BY <1>1, SortedRemoved
  <2> QED BY <1>5, <2>1 DEF MergeInv, WireIsPast
<1>6. isConnected /\ mode' # "flush" =>
         \A j \in 1..Len(wire'), k \in Kinds : wire'[j].pts <= lastReceived'[k]
  BY DEF MergeInv, WireIsPast
<1> QED BY <1>2, <1>3, <1>4, <1>5, <1>6

LEMMA MergeDropFrame ==
    ASSUME MergeInv, OrderInv', DropFrame
    PROVE  MergeInv'
<1>1. /\ at = "loop" /\ at' = "loop" /\ frameList[phase] # <<>> /\ InLoop
      /\ frameList' = [frameList EXCEPT ![phase] = Tail(@)]
      /\ UNCHANGED <<lastReceived, lastSent, phase, mode, isConnected, wire>>
  BY DEF DropFrame, InLoop
<1>2. ListsSorted' /\ FlushIsLast' /\ HandIsNext'
  BY <1>1, MergeRemove
<1>3. WireIsPast'
  <2>1. isConnected => lastSent = IF wire = <<>> THEN -1 ELSE LastTs
    BY <1>1 DEF MergeInv, WireIsPast
  <2>2. \A j \in 1..Len(wire) : wire[j].ts \in {wire[j].pts, wire[j].pts + 1}
    BY DEF MergeInv, WireIsPast
  <2> QED BY <1>1, <2>1, <2>2, MergeRemove DEF WireIsPast, LastTs
<1>4. session' # 0 /\ opener' # "connecting"
  BY HandlerStarted DEF Handler
<1> QED BY <1>2, <1>3, <1>4 DEF MergeInv

LEMMA MergeRecord ==
    ASSUME MergeInv, OrderInv', Record
    PROVE  MergeInv'
<1>1. /\ at \in {"record", "failed"} /\ at' = "loop" /\ Handling
      /\ frameList' = [frameList EXCEPT ![phase] = Tail(@)]
      /\ lastSent' = InHandFrame.ts
      /\ UNCHANGED <<lastReceived, phase, mode, wire>>
  BY DEF Record, InHandFrame, Handling
<1>2. frameList[phase] # <<>>
  BY <1>1 DEF MergeInv, OrderInv, TypeInv
<1>3. ListsSorted' /\ FlushIsLast' /\ HandIsNext'
  BY <1>1, <1>2, MergeRemove
<1>4. WireIsPast'
  <2>1. isConnected' => isConnected /\ at = "record"
    BY DEF Record
  <2>2. isConnected' => wire # <<>> /\ LastTs = InHandFrame.ts
    BY <2>1 DEF MergeInv, WireIsPast
  <2>3. \A j \in 1..Len(wire) : wire[j].ts \in {wire[j].pts, wire[j].pts + 1}
    BY DEF MergeInv, WireIsPast
  <2> QED BY <1>1, <1>2, <2>1, <2>2, <2>3, MergeRemove DEF WireIsPast, LastTs
<1>5. session' # 0 /\ opener' # "connecting"
  BY HandlerStarted DEF Handler
<1> QED BY <1>3, <1>4, <1>5 DEF MergeInv

LEMMA MergeEndLoop ==
    ASSUME MergeInv, OrderInv', EndLoop
    PROVE  MergeInv'
<1>1. /\ at = "loop" /\ at' \in {"idle", "loop"} /\ ~Handling /\ ~Handling'
      /\ UNCHANGED <<frameList, lastReceived, lastSent, wire>>
      /\ isConnected' => isConnected
  BY DEF EndLoop, Handling
<1>2. ListsSorted' /\ HandIsNext'
  BY <1>1 DEF MergeInv, ListsSorted, HandIsNext
<1>3. isConnected' => (mode' = mode \/ mode' = "flush")
  BY DEF EndLoop
<1>4. mode' = "flush" => IF at' = "idle" THEN ~isConnected'
                                         ELSE frameList'[Other(phase')] = <<>>
  <2>1. CASE mode # "flush" /\ mode' = "flush"
    <3>1. phase' = FlushPhase /\ ~FinishGoesOn /\ at' = at
      BY <2>1 DEF EndLoop
    <3>2. frameList[Other(FlushPhase)] = <<>>
      BY <3>1 DEF FinishGoesOn, FlushPhase, Other, Kinds
    <3> QED BY <1>1, <3>1, <3>2
  <2>2. CASE mode = "flush"
    <3>1. at' = "idle" /\ ~isConnected'
      BY <2>2 DEF EndLoop
    <3> QED BY <3>1
  <2> QED BY <2>1, <2>2
<1>5. WireIsPast'
  BY <1>1, <1>3 DEF MergeInv, WireIsPast, LastTs
<1>6. session' # 0 /\ opener' # "connecting"
  BY HandlerStarted DEF Handler
<1> QED BY <1>2, <1>4, <1>5, <1>6 DEF MergeInv, FlushIsLast

LEMMA MergeWrite ==
    ASSUME MergeInv, OrderInv', Write
    PROVE  MergeInv'
<1> DEFINE h == InHandFrame
           w == [kind |-> phase, ts |-> h.ts, pts |-> h.pts, session |-> h.session]
<1>1. /\ at = "write" /\ at' \in {"record", "failed"} /\ Handling
      /\ UNCHANGED <<frameList, lastReceived, lastSent, phase, mode, isConnected>>
      /\ InHandFrame' = h
  BY DEF Write, Handling, InHandFrame
<1>2. TypeInv /\ frameList[phase] # <<>>
  BY <1>1 DEF MergeInv, OrderInv, TypeInv
<1>3. /\ \A k \in Kinds : \A i \in 1..Len(frameList[k]) : h.pts <= frameList[k][i].pts
      /\ mode # "flush" => \A k \in Kinds : h.pts <= lastReceived[k]
      /\ h.ts \in {h.pts, h.pts + 1}
  BY <1>1 DEF MergeInv, HandIsNext
<1>4. ListsSorted' /\ FlushIsLast' /\ HandIsNext'
  BY <1>1, <1>3 DEF MergeInv, ListsSorted, FlushIsLast, HandIsNext
<1>5. session' # 0 /\ opener' # "connecting"
  BY HandlerStarted DEF Handler
<1>6. CASE UNCHANGED wire
  <2>1. isConnected => at' = "failed"
    <3>1. \/ /\ isConnected
             /\ wire' = Append(wire, w)
          \/ isConnected /\ at' = "failed"
          \/ ~isConnected
      BY DEF Write, InHandFrame
    <3>2. wire' # Append(wire, w)
      <4>1. wire \in Seq([kind : Kinds, ts : Later, pts : Timestamps, session : Sessions])
        BY <1>2 DEF TypeInv, TypeOK, Later
      <4> HIDE DEF w
      <4> QED BY <1>6, <4>1, LenProperties
    <3> QED BY <3>1, <3>2
  <2>2. WireIsPast'
    BY <1>1, <1>6, <2>1 DEF MergeInv, WireIsPast
  <2> QED BY <1>4, <1>5, <2>2 DEF MergeInv
<1>7. CASE isConnected /\ wire' = Append(wire, w)
  <2> DEFINE WireFrame == [kind : Kinds, ts : Later, pts : Timestamps, session : Sessions]
             n == Len(wire)
  <2>1. wire \in Seq(WireFrame)
    BY <1>2 DEF TypeInv, TypeOK, Later
  <2>2. w \in WireFrame /\ w.pts = h.pts /\ w.ts = h.ts
    BY <1>2, InHandType DEF Frame, Later, TypeInv, TypeOK
  <2> HIDE DEF WireFrame, w, h
  <2>3. /\ n \in Nat /\ Len(wire') = n + 1 /\ wire'[n + 1] = w
        /\ \A j \in 1..n : wire'[j] = wire[j]
    BY <1>7, <2>1, <2>2, AppendProperties, LenProperties
  <2> HIDE DEF n
  <2>4. \A j \in 1..Len(wire') : (j \in 1..n /\ wire'[j] = wire[j]) \/ wire'[j] = w
    BY <2>3
  <2>5. \A j \in 1..Len(wire') : wire'[j].ts \in {wire'[j].pts, wire'[j].pts + 1}
    BY <1>3, <2>2, <2>4 DEF MergeInv, WireIsPast, n
  <2>6. \A j \in 1..Len(wire'), k \in Kinds : \A i \in 1..Len(frameList[k]) :
            wire'[j].pts <= frameList[k][i].pts
    BY <1>3, <1>7, <2>2, <2>4 DEF MergeInv, WireIsPast, n
  <2>7. mode # "flush" => \A j \in 1..Len(wire'), k \in Kinds : wire'[j].pts <= lastReceived[k]
    BY <1>3, <1>7, <2>2, <2>4 DEF MergeInv, WireIsPast, n
  <2>8. wire' # <<>> /\ LastTs' = h.ts
    BY <2>2, <2>3 DEF LastTs
  <2>9. WireIsPast'
    BY <1>1, <2>5, <2>6, <2>7, <2>8 DEF WireIsPast, h
  <2> QED BY <1>4, <1>5, <2>9 DEF MergeInv
<1> QED BY <1>6, <1>7 DEF Write, InHandFrame

LEMMA MergeStep ==
    ASSUME MaxSessions <= 1, MergeInv, [Next]_vars
    PROVE  MergeInv'
<1>1. OrderInv'
  BY OrderStep DEF MergeInv
<1>2. CASE Broadcaster
  BY <1>1, <1>2, MergeBroadcaster
<1>3. CASE \E s \in Sessions : Encoder(s)
  BY <1>1, <1>3, MergeEncoder
<1>4. CASE Handler
  BY <1>1, <1>4, MergeReceiveFrame, MergeReceiveStop, MergePick, MergeDropFrame, MergeWrite,
     MergeRecord, MergeEndLoop DEF Handler
<1>5. CASE UNCHANGED vars
  <2>1. UNCHANGED <<frameList, lastReceived, lastSent, at, phase, mode, isConnected, wire>>
    BY <1>5 DEF vars, handlerVars
  <2>2. session' = 0 \/ opener' = "connecting" => Untouched'
    BY <1>5 DEF vars, handlerVars, envVars, MergeInv, Untouched
  <2> QED BY <1>1, <2>1, <2>2, MergeFrame
<1> QED BY <1>2, <1>3, <1>4, <1>5 DEF Next

-----------------------------------------------------------------------------
(* The steps of the streamer, seen through the refinement mapping.         *)
AbstractVars == <<Pending, Written, Up>>

LEMMA PtsFacts ==
    ASSUME NEW l \in Seq(Frame)
    PROVE  /\ Pts(l) \in Seq(Timestamps) /\ Len(Pts(l)) = Len(l)
           /\ \A i \in 1..Len(l) : Pts(l)[i] = l[i].pts
           /\ Pts(l) = <<>> <=> l = <<>>
           /\ l # <<>> => Head(Pts(l)) = Head(l).pts /\ Tail(Pts(l)) = Pts(Tail(l))
           /\ \A f \in Frame : Pts(Append(l, f)) = Append(Pts(l), f.pts)
<1>1. Len(l) \in Nat /\ \A i \in 1..Len(l) : l[i] \in Frame /\ l[i].pts \in Timestamps
  <2>1. \A f \in Frame : f.pts \in Timestamps
    BY DEF Frame
  <2> QED BY <2>1, LenProperties, ElementOfSeq
<1>2. Pts(l) \in [1..Len(l) -> Timestamps]
  BY <1>1 DEF Pts
<1>3. Pts(l) \in Seq(Timestamps)
  BY <1>1, <1>2, IsASeq
<1>4. Len(Pts(l)) = Len(l) /\ \A i \in 1..Len(l) : Pts(l)[i] = l[i].pts
  BY <1>1, <1>2, <1>3, LenProperties DEF Pts
<1>5. Pts(l) = <<>> <=> l = <<>>
  BY <1>1, <1>3, <1>4, EmptySeq
<1>6. ASSUME l # <<>>
      PROVE  Head(Pts(l)) = Head(l).pts /\ Tail(Pts(l)) = Pts(Tail(l))
  <2>1. /\ Tail(l) \in Seq(Frame) /\ Len(Tail(l)) = Len(l) - 1 /\ Head(l) = l[1]
        /\ \A i \in 1..Len(Tail(l)) : Tail(l)[i] = l[i + 1]
    BY <1>6, HeadTailProperties
  <2>2. /\ Tail(Pts(l)) \in Seq(Timestamps) /\ Len(Tail(Pts(l))) = Len(l) - 1
        /\ Head(Pts(l)) = Pts(l)[1]
        /\ \A i \in 1..Len(Tail(Pts(l))) : Tail(Pts(l))[i] = Pts(l)[i + 1]
    BY <1>3, <1>4, <1>5, <1>6, HeadTailProperties
  <2>3. 1 \in 1..Len(l)
    BY <1>1, <1>6, EmptySeq
  <2>4. \A i \in 1..(Len(l) - 1) : i + 1 \in 1..Len(l)
    BY <1>1
  <2>5. Pts(Tail(l)) = [i \in 1..(Len(l) - 1) |-> Tail(l)[i].pts]
    BY <2>1 DEF Pts
  <2>6. Tail(Pts(l)) = [i \in 1..(Len(l) - 1) |-> Tail(Pts(l))[i]]
    BY <2>2, LenProperties
  <2>7. \A i \in 1..(Len(l) - 1) : Tail(Pts(l))[i] = Tail(l)[i].pts
    BY <1>4, <2>1, <2>2, <2>4
  <2> QED BY <1>4, <2>1, <2>2, <2>3, <2>5, <2>6, <2>7
<1>7. ASSUME NEW f \in Frame
      PROVE  Pts(Append(l, f)) = Append(Pts(l), f.pts)
  <2>1. /\ Append(l, f) \in Seq(Frame) /\ Len(Append(l, f)) = Len(l) + 1
        /\ \A i \in 1..Len(l) : Append(l, f)[i] = l[i]
        /\ Append(l, f)[Len(l) + 1] = f
    BY AppendProperties
  <2>2. f.pts \in Timestamps
    BY DEF Frame
  <2>3. /\ Append(Pts(l), f.pts) \in Seq(Timestamps)
        /\ Len(Append(Pts(l), f.pts)) = Len(l) + 1
        /\ \A i \in 1..Len(l) : Append(Pts(l), f.pts)[i] = Pts(l)[i]
        /\ Append(Pts(l), f.pts)[Len(l) + 1] = f.pts
    BY <1>3, <1>4, <2>2, AppendProperties
  <2>4. \A i \in 1..(Len(l) + 1) : i \in 1..Len(l) \/ i = Len(l) + 1
    BY <1>1
  <2>5. \A i \in 1..(Len(l) + 1) : Append(l, f)[i].pts = Append(Pts(l), f.pts)[i]
    BY <1>4, <2>1, <2>3, <2>4
  <2>6. Pts(Append(l, f)) = [i \in 1..(Len(l) + 1) |-> Append(l, f)[i].pts]
    BY <2>1 DEF Pts
  <2>7. Append(Pts(l), f.pts) = [i \in 1..(Len(l) + 1) |-> Append(Pts(l), f.pts)[i]]
    BY <2>3, LenProperties
  <2> QED BY <2>5, <2>6, <2>7
<1> QED BY <1>3, <1>4, <1>5, <1>6, <1>7

LEMMA WrittenFacts ==
    ASSUME TypeInv
    PROVE  /\ Written = <<>> <=> wire = <<>>
           /\ wire # <<>> => /\ Merge!Last.pts = wire[Len(wire)].pts
                             /\ Merge!Last.ts = LastTs
           /\ Len(Written) = Len(wire)
           /\ Written \in Seq([kind : Kinds, pts : Timestamps, ts : Later])
<1> DEFINE W == [kind : Kinds, pts : Timestamps, ts : Later]
           WireFrame == [kind : Kinds, ts : Later, pts : Timestamps, session : Sessions]
<1>1. wire \in Seq(WireFrame)
  BY DEF TypeInv, TypeOK, Later
<1>2. \A x \in WireFrame : [kind |-> x.kind, pts |-> x.pts, ts |-> x.ts] \in W
  OBVIOUS
<1> HIDE DEF WireFrame, W
<1>3. Len(wire) \in Nat /\ \A i \in 1..Len(wire) : wire[i] \in WireFrame
  BY <1>1, LenProperties, ElementOfSeq
<1>4. Written \in [1..Len(wire) -> W]
  BY <1>2, <1>3 DEF Written
<1>5. Written \in Seq(W) /\ Len(Written) = Len(wire)
  BY <1>3, <1>4, IsASeq, LenProperties
<1>6. Written = <<>> <=> wire = <<>>
  BY <1>1, <1>5, EmptySeq
<1>7. wire # <<>> => Len(wire) \in 1..Len(wire)
  BY <1>1, <1>3, EmptySeq
<1> QED BY <1>5, <1>6, <1>7 DEF Written, W, Merge!Last, LastTs

(* What removing the first frame that waits means to the abstract merge.   *)
LEMMA TakeFacts ==
    ASSUME NEW k \in Kinds, Waits(k) \in Seq(Frame), Waits(k) # <<>>,
           Waits(k)' = Tail(Waits(k)),
           \A j \in Kinds : j # k => Waits(j)' = Waits(j)
    PROVE  Merge!Take(k) /\ Head(Pending[k]) = Head(Waits(k)).pts
<1>1. Pending[k] = Pts(Waits(k)) /\ Pending'[k] = Pts(Waits(k)')
  BY DEF Pending, Pts
<1>2. /\ Pts(Waits(k)) # <<>> /\ Head(Pts(Waits(k))) = Head(Waits(k)).pts
      /\ Tail(Pts(Waits(k))) = Pts(Tail(Waits(k)))
  BY PtsFacts
<1>3. \A j \in Kinds : Pending'[j] = IF j = k THEN Tail(Pending[k]) ELSE Pending[j]
  BY <1>1, <1>2 DEF Pending, Pts
<1>4. Pending' = [Pending EXCEPT ![k] = Tail(@)]
  BY <1>3 DEF Pending
<1> QED BY <1>1, <1>2, <1>4 DEF Merge!Take

LEMMA WaitsSame ==
    ASSUME \A j \in Kinds : Waits(j)' = Waits(j)
    PROVE  UNCHANGED Pending
BY DEF Pending, Pts

LEMMA StutterStep ==
    ASSUME UNCHANGED <<frameList, at, phase, isConnected, wire>>
    PROVE  UNCHANGED AbstractVars
BY DEF AbstractVars, Pending, Written, Up, Waits, InHand, Pts

LEMMA WrittenSame ==
    ASSUME UNCHANGED wire
    PROVE  UNCHANGED Written
BY DEF Written

LEMMA BroadcasterMaps ==
    ASSUME MaxSessions <= 1, MergeInv, Broadcaster
    PROVE  Merge!Next \/ UNCHANGED AbstractVars
<1>1. session \in 0..MaxSessions /\ MaxSessions \in Nat
  BY BoundsAssumption DEF MergeInv, OrderInv, TypeInv, TypeOK
<1>2. CASE OpenBegin
  <2>1. session = 0
    BY <1>1, <1>2 DEF OpenBegin
  <2>2. ~isConnected /\ isConnected \in BOOLEAN
    BY <2>1 DEF MergeInv, Untouched, OrderInv, TypeInv, TypeOK
  <2>3. ~isConnected' /\ isConnected' \in BOOLEAN
    BY <1>2 DEF OpenBegin, Disconnect
  <2>4. isConnected' = isConnected
    BY <2>2, <2>3
  <2> QED BY <1>2, <2>4, StutterStep DEF OpenBegin
<1>3. CASE OpenSucceeds
  <2>1. Untouched
    BY <1>3 DEF OpenSucceeds, MergeInv
  <2>2. ~Up /\ Up' = TRUE
    BY <1>3, <2>1 DEF OpenSucceeds, handlerVars, Untouched, Up
  <2>3. wire' = <<>> /\ UNCHANGED wire
    BY <1>3, <2>1 DEF OpenSucceeds, Untouched
  <2>4. Written' = <<>>
    BY <2>3 DEF Written
  <2>5. UNCHANGED Pending
    BY <1>3 DEF OpenSucceeds, handlerVars, Pending, Waits, InHand, Pts
  <2>6. Merge!Connect
    BY <2>2, <2>4, <2>5 DEF Merge!Connect
  <2> QED BY <2>6 DEF Merge!Next
<1>4. CASE OpenFails \/ StopBroadcasting
  BY <1>4, StutterStep DEF OpenFails, StopBroadcasting, handlerVars
<1> QED BY <1>2, <1>3, <1>4 DEF Broadcaster

LEMMA EncoderMaps ==
    ASSUME NEW s \in Sessions, Encoder(s)
    PROVE  UNCHANGED AbstractVars
<1>1. UNCHANGED <<handlerVars, isConnected, wire>>
  BY DEF Encoder, WriteFrame, CountFrame, EndAudio, StopMuxer
<1> QED BY <1>1, StutterStep DEF handlerVars

(* Outside Write and Record no frame is in hand.                           *)
LEMMA NoneInHand ==
    ASSUME at \notin {"record", "failed"}, at' \notin {"record", "failed"}
    PROVE  /\ \A k \in Kinds : Waits(k) = frameList[k] /\ Waits(k)' = frameList'[k]
           /\ isConnected \in BOOLEAN => Up = isConnected
           /\ isConnected' \in BOOLEAN => Up' = isConnected'
BY DEF Waits, InHand, Up

LEMMA ReceiveFrameMaps ==
    ASSUME MergeInv, OrderInv', ReceiveFrame
    PROVE  Merge!Next \/ UNCHANGED AbstractVars
<1> DEFINE m == Head(looper)
           f == [pts |-> m.pts, ts |-> m.pts, session |-> m.session]
<1>1. TypeInv /\ m \in Message /\ m.what \in Kinds /\ isConnected \in BOOLEAN
  BY HeadTailProperties DEF ReceiveFrame, MergeInv, OrderInv, TypeInv, TypeOK
<1>2. /\ at = "idle" /\ at' = "loop" /\ UNCHANGED <<isConnected, wire>>
      /\ \A k \in Kinds : Waits(k) = frameList[k] /\ Waits(k)' = frameList'[k]
      /\ Up = isConnected /\ Up' = isConnected
  BY <1>1, NoneInHand DEF ReceiveFrame
<1>3. UNCHANGED Written
  BY <1>2, WrittenSame
<1>4. CASE ~Accepted(m)
  <2>1. UNCHANGED frameList
    BY <1>4 DEF ReceiveFrame
  <2>2. UNCHANGED Pending
    BY <1>2, <2>1, WaitsSame
  <2> QED BY <1>2, <1>3, <2>2 DEF AbstractVars
<1>5. CASE Accepted(m)
  <2> DEFINE k == m.what
             l == frameList[k]
  <2>1. m.pts >= lastReceived[k] /\ m.pts \in Timestamps /\ m.pts \in Int /\ k \in Kinds
    BY <1>1, <1>5, LaterFacts DEF Message, Kinds, Accepted
  <2>2. f \in Frame /\ f.pts = m.pts
    BY <1>1, <1>5 DEF Message, Kinds, Accepted, Frame
  <2>3. frameList' = [frameList EXCEPT ![k] = Append(l, f)]
    BY <1>5 DEF ReceiveFrame
  <2> HIDE DEF f, m
  <2>4. l \in Seq(Frame)
    BY <1>1, <2>1, ListFacts
  <2>5. frameList'[k] = Append(l, f) /\ \A j \in Kinds : j # k => frameList'[j] = frameList[j]
    BY <1>1, <2>1, <2>3 DEF TypeInv, TypeOK
  <2>6. Pts(Append(l, f)) = Append(Pts(l), m.pts)
    BY <2>2, <2>4, PtsFacts
  <2>7. \A j \in Kinds : Pending'[j] = IF j = k THEN Append(Pending[j], m.pts) ELSE Pending[j]
    <3>1. \A j \in Kinds : Pending[j] = Pts(frameList[j]) /\ Pending'[j] = Pts(frameList'[j])
      BY <1>2 DEF Pending, Pts
    <3> QED BY <2>5, <2>6, <3>1
  <2>8. Pending' = [Pending EXCEPT ![k] = Append(@, m.pts)]
    BY <2>7 DEF Pending
  <2>9. Pending[k] = Pts(l)
    BY <1>2, <2>1 DEF Pending, Pts
  <2>10. (Pending[k] # <<>> /\ Up) => m.pts >= Pending[k][Len(Pending[k])]
    <3> SUFFICES ASSUME Pending[k] # <<>>
                 PROVE  m.pts >= Pending[k][Len(Pending[k])]
      OBVIOUS
    <3>1. l # <<>> /\ Len(Pts(l)) = Len(l) /\ Len(l) \in 1..Len(l)
      BY <2>4, <2>9, PtsFacts, LenProperties, EmptySeq
    <3>2. Pending[k][Len(Pending[k])] = l[Len(l)].pts
      <4>1. \A i \in 1..Len(l) : Pts(l)[i] = l[i].pts
        BY <2>4, PtsFacts
      <4> HIDE DEF l
      <4> QED BY <2>9, <3>1, <4>1
    <3>3. l[Len(l)].pts <= lastReceived[k] /\ l[Len(l)].pts \in Int /\ lastReceived[k] \in Int
      BY <1>1, <2>1, <3>1, ListFacts DEF MergeInv, ListsSorted
    <3> QED BY <2>1, <3>2, <3>3
  <2>11. (Written # <<>> /\ Up) => m.pts >= Merge!Last.pts
    <3> SUFFICES ASSUME Written # <<>>, Up
                 PROVE  m.pts >= Merge!Last.pts
      OBVIOUS
    <3>1. wire # <<>> /\ Merge!Last.pts = wire[Len(wire)].pts /\ Len(wire) \in 1..Len(wire)
      BY <1>1, WrittenFacts, WireType
    <3>2. isConnected /\ mode # "flush"
      BY <1>2 DEF MergeInv, FlushIsLast
    <3>3. wire[Len(wire)].pts <= lastReceived[k]
      BY <2>1, <3>1, <3>2 DEF MergeInv, WireIsPast
    <3>4. wire[Len(wire)].pts \in Int /\ lastReceived[k] \in Int
      BY <1>1, <2>1, <3>1, WireFacts, ListFacts
    <3> QED BY <2>1, <3>1, <3>3, <3>4
  <2>12. Merge!Accept(k)
    BY <1>2, <1>3, <2>1, <2>8, <2>10, <2>11 DEF Merge!Accept
  <2> QED BY <2>1, <2>12 DEF Merge!Next, Merge!Streams, Kinds
<1> QED BY <1>4, <1>5

LEMMA PickMaps ==
    ASSUME MergeInv, Pick
    PROVE  UNCHANGED AbstractVars
<1>1. TypeInv /\ isConnected \in BOOLEAN
  BY DEF MergeInv, OrderInv, TypeInv, TypeOK
<1>2. at = "loop" /\ at' = "write" /\ UNCHANGED <<isConnected, wire>>
  BY DEF Pick, InLoop
<1>3. /\ \A k \in Kinds : Waits(k) = frameList[k] /\ Waits(k)' = frameList'[k]
      /\ UNCHANGED Up
  BY <1>1, <1>2, NoneInHand
<1>4. \A k \in Kinds : Pts(frameList'[k]) = Pts(frameList[k])
  BY <1>1, PickFacts DEF Pts
<1>5. UNCHANGED Pending
  BY <1>3, <1>4 DEF Pending, Pts
<1> QED BY <1>2, <1>3, <1>5, WrittenSame DEF AbstractVars

(* A frame as old as lastSent gives the third one for its millisecond.     *)
LEMMA DropFrameMaps ==
    ASSUME MergeInv, OrderInv', DropFrame
    PROVE  Merge!Next
<1> DEFINE h == InHandFrame
<1>1. TypeInv /\ TypeInv' /\ phase \in Kinds /\ isConnected \in BOOLEAN
  BY DEF MergeInv, OrderInv, TypeInv, TypeOK
<1>2. /\ at = "loop" /\ at' = "loop" /\ frameList[phase] # <<>>
      /\ frameList' = [frameList EXCEPT ![phase] = Tail(@)]
      /\ h.ts < lastSent
      /\ UNCHANGED <<isConnected, wire, lastSent, phase>>
  BY DEF DropFrame, InLoop, InHandFrame
<1>3. /\ \A k \in Kinds : Waits(k) = frameList[k] /\ Waits(k)' = frameList'[k]
      /\ Up = isConnected /\ UNCHANGED Up
  BY <1>1, <1>2, NoneInHand
<1>4. /\ Waits(phase) \in Seq(Frame) /\ Waits(phase) # <<>>
      /\ frameList'[phase] = Tail(Waits(phase))
      /\ \A j \in Kinds : j # phase => Waits(j)' = Waits(j)
  BY SMTT(30), <1>1, <1>2, <1>3, ListFacts DEF TypeInv, TypeOK
<1>5. PICK k \in Kinds : k = phase
  BY <1>1
<1>6. Merge!Take(k) /\ Head(Pending[k]) = h.pts
  BY <1>1, <1>3, <1>4, <1>5, TakeFacts DEF InHandFrame
<1>7. /\ h = frameList[phase][1] /\ 1 \in 1..Len(frameList[phase]) /\ h.ts = h.pts /\ h.pts \in Nat
      /\ h.ts \in Int
  <2>1. h = frameList[phase][1] /\ 1 \in 1..Len(frameList[phase])
    BY <1>1, <1>2, InHandType, ListFacts, EmptySeq
  <2>2. Fresh(phase, 1) /\ h.pts \in Timestamps
    BY <1>1, <1>2, <2>1, ListFacts DEF TypeInv, Handling
  <2>3. h.ts = h.pts
    BY <2>1, <2>2 DEF Fresh
  <2>4. h.pts \in Nat
    BY <2>1, <2>2, TimestampsAssumption
  <2> HIDE DEF h
  <2> QED BY <2>1, <2>3, <2>4
<1> HIDE DEF h
<1>8. Up => Written # <<>> /\ Merge!Last.pts = Head(Pending[k]) /\ Merge!Last.ts = Merge!Last.pts + 1
  <2> SUFFICES ASSUME Up
               PROVE  Written # <<>> /\ Merge!Last.pts = Head(Pending[k])
                      /\ Merge!Last.ts = Merge!Last.pts + 1
    OBVIOUS
  <2>1. lastSent = (IF wire = <<>> THEN -1 ELSE LastTs) /\ isConnected
    BY <1>2, <1>3 DEF MergeInv, WireIsPast
  <2>2. wire # <<>> /\ LastTs = lastSent
    BY <1>2, <1>7, <2>1
  <2>3. /\ Written # <<>> /\ Len(wire) \in 1..Len(wire)
        /\ Merge!Last.pts = wire[Len(wire)].pts /\ Merge!Last.ts = wire[Len(wire)].ts
        /\ wire[Len(wire)].pts \in Int /\ wire[Len(wire)].ts \in Int
    BY <1>1, <2>2, WrittenFacts, WireType, WireFacts DEF LastTs
  <2>4. wire[Len(wire)].ts \in {wire[Len(wire)].pts, wire[Len(wire)].pts + 1}
    BY <2>3 DEF MergeInv, WireIsPast
  <2>5. wire[Len(wire)].pts <= h.pts
    BY <1>1, <1>7, <2>1, <2>3 DEF MergeInv, WireIsPast
  <2>6. h.pts < wire[Len(wire)].ts
    BY <1>2, <1>7, <2>2 DEF LastTs
  <2>7. wire[Len(wire)].pts = h.pts /\ wire[Len(wire)].ts = wire[Len(wire)].pts + 1
    BY <1>7, <2>3, <2>4, <2>5, <2>6
  <2> QED BY <1>6, <2>3, <2>7
<1>9. Merge!Discard(k)
  BY <1>2, <1>3, <1>6, <1>8, WrittenSame DEF Merge!Discard
<1> QED BY <1>9 DEF Merge!Next, Merge!Streams, Kinds

LEMMA WriteMaps ==
    ASSUME MergeInv, OrderInv', Write
    PROVE  Merge!Next
<1> DEFINE h == InHandFrame
           w == [kind |-> phase, ts |-> h.ts, pts |-> h.pts, session |-> h.session]
<1>1. TypeInv /\ TypeInv' /\ phase \in Kinds /\ isConnected \in BOOLEAN
  BY DEF MergeInv, OrderInv, TypeInv, TypeOK
<1>2. /\ at = "write" /\ at' \in {"record", "failed"} /\ Handling
      /\ UNCHANGED <<frameList, phase, isConnected, lastSent>>
  BY DEF Write, Handling
<1>3. frameList[phase] # <<>> /\ frameList[phase] \in Seq(Frame)
  BY <1>1, <1>2, ListFacts DEF TypeInv
<1>4. /\ Waits(phase) = frameList[phase]
      /\ \A j \in Kinds : j = phase => Waits(j)' = Tail(frameList[j])
      /\ \A j \in Kinds : j # phase => Waits(j)' = Waits(j)
  BY <1>2 DEF Waits, InHand
<1>5. PICK k \in Kinds : k = phase
  BY <1>1
<1>6. Waits(k) = frameList[phase] /\ Waits(k)' = Tail(Waits(k))
      /\ \A j \in Kinds : j # k => Waits(j)' = Waits(j)
  BY <1>4, <1>5
<1>7. Merge!Take(k) /\ Head(Pending[k]) = h.pts
  BY <1>3, <1>6, TakeFacts DEF InHandFrame
<1>8. h \in Frame /\ h.ts \in Int /\ h.pts \in Timestamps /\ h.pts \in Nat
  BY <1>1, <1>3, InHandType, TimestampsAssumption DEF Frame
<1>9. Up = isConnected
  BY <1>1, <1>2 DEF Up
<1>10. CASE isConnected /\ at' = "record" /\ wire' = Append(wire, w)
  <2> DEFINE d == h.ts - h.pts
             WireFrame == [kind : Kinds, ts : Later, pts : Timestamps, session : Sessions]
             V(x) == [kind |-> x.kind, pts |-> x.pts, ts |-> x.ts]
  <2>1. w \in WireFrame /\ wire \in Seq(WireFrame)
    BY <1>1, <1>8 DEF Frame, TypeInv, TypeOK, Later
  <2>2. V(w) = [kind |-> k, pts |-> h.pts, ts |-> h.ts]
    BY <1>5
  <2>3. Written' = Append(Written, V(w))
    <3> HIDE DEF w
    <3>1. \A x \in WireFrame : V(x) \in [kind : Kinds, pts : Timestamps, ts : Later]
      OBVIOUS
    <3> DEFINE W == [kind : Kinds, pts : Timestamps, ts : Later]
    <3> HIDE DEF WireFrame
    <3>2. /\ Len(wire') = Len(wire) + 1 /\ Len(wire) \in Nat /\ wire'[Len(wire) + 1] = w
          /\ \A i \in 1..Len(wire) : wire'[i] = wire[i]
      BY <1>10, <2>1, AppendProperties, LenProperties
    <3>3. V(w) \in W /\ Written \in Seq(W) /\ Len(Written) = Len(wire)
      BY <1>1, <2>1, <3>1, WrittenFacts
    <3> HIDE DEF V, W
    <3>4. /\ Append(Written, V(w)) \in Seq(W) /\ Len(Append(Written, V(w))) = Len(wire) + 1
          /\ \A i \in 1..Len(wire) : Append(Written, V(w))[i] = Written[i]
          /\ Append(Written, V(w))[Len(wire) + 1] = V(w)
      BY <3>3, AppendProperties
    <3>5. Written = [i \in 1..Len(wire) |-> V(wire[i])]
          /\ Written' = [i \in 1..Len(wire') |-> V(wire'[i])]
      BY DEF Written, V
    <3>6. \A i \in 1..(Len(wire) + 1) : i \in 1..Len(wire) \/ i = Len(wire) + 1
      BY <3>2
    <3>7. \A i \in 1..(Len(wire) + 1) : Append(Written, V(w))[i] = V(wire'[i])
      BY <3>2, <3>4, <3>5, <3>6
    <3>8. Append(Written, V(w)) = [i \in 1..(Len(wire) + 1) |-> Append(Written, V(w))[i]]
      BY <3>4, LenProperties
    <3> QED BY <3>2, <3>5, <3>7, <3>8
  <2> HIDE DEF w, V, h
  <2>4. /\ h.ts \in {h.pts, h.pts + 1}
        /\ h.ts = IF h.pts = lastSent THEN h.pts + 1 ELSE h.pts
    BY <1>2 DEF MergeInv, HandIsNext, SendTime, h
  <2>5. d \in {0, 1} /\ h.pts + d = h.ts /\ (d = 1 => h.pts = lastSent)
    BY <1>8, <2>4
  <2>6. lastSent = IF wire = <<>> THEN -1 ELSE LastTs
    BY <1>2, <1>10 DEF MergeInv, WireIsPast
  <2>7. Written # <<>> <=> wire # <<>>
    BY <1>1, WrittenFacts
  <2>8. wire # <<>> => Merge!Last.ts = LastTs /\ LastTs < h.ts
    BY <1>1, <1>2, <1>10, WrittenFacts DEF MergeInv, OrderInv, LastSentBounds, h
  <2>9. d = 1 => wire # <<>> /\ LastTs = h.pts
    BY <1>8, <2>5, <2>6
  <2>10. UNCHANGED Up
    BY <1>2, <1>9, <1>10, <1>1 DEF Up
  <2>11. Written' = Append(Written, [kind |-> k, pts |-> h.pts, ts |-> h.pts + d])
    BY <2>2, <2>3, <2>5
  <2> HIDE DEF d
  <2>12. Merge!Send(k)
    BY <1>7, <1>9, <1>10, <2>5, <2>7, <2>8, <2>9, <2>10, <2>11 DEF Merge!Send
  <2> QED BY <2>12 DEF Merge!Next, Merge!Streams, Kinds
<1>11. CASE isConnected /\ at' = "failed" /\ UNCHANGED wire
  <2>1. Up /\ Up' = FALSE
    BY <1>9, <1>11 DEF Up
  <2>2. Merge!Lose(k)
    BY <1>7, <1>11, <2>1, WrittenSame DEF Merge!Lose
  <2> QED BY <2>2 DEF Merge!Next, Merge!Streams, Kinds
<1>12. CASE ~isConnected /\ UNCHANGED wire
  <2>1. ~Up /\ Up' = Up
    BY <1>1, <1>2, <1>9, <1>12 DEF Up
  <2>2. Merge!Discard(k)
    BY <1>7, <1>12, <2>1, WrittenSame DEF Merge!Discard
  <2> QED BY <2>2 DEF Merge!Next, Merge!Streams, Kinds
<1> QED BY <1>10, <1>11, <1>12 DEF Write, InHandFrame

LEMMA RecordMaps ==
    ASSUME MergeInv, Record
    PROVE  UNCHANGED AbstractVars
<1>1. /\ at \in {"record", "failed"} /\ at' = "loop" /\ UNCHANGED <<phase, wire>>
      /\ frameList' = [frameList EXCEPT ![phase] = Tail(@)]
      /\ isConnected' = (isConnected /\ at = "record")
  BY DEF Record
<1>2. frameList \in [Kinds -> Seq(Frame)] /\ phase \in Kinds
  BY DEF MergeInv, OrderInv, TypeInv, TypeOK
<1>3. \A k \in Kinds : Waits(k)' = Waits(k)
  BY <1>1, <1>2 DEF Waits, InHand
<1>4. UNCHANGED Up
  BY <1>1 DEF Up
<1> QED BY <1>1, <1>3, <1>4, WaitsSame, WrittenSame DEF AbstractVars

LEMMA EndLoopMaps ==
    ASSUME MergeInv, OrderInv', EndLoop
    PROVE  Merge!Next \/ UNCHANGED AbstractVars
<1>1. isConnected \in BOOLEAN /\ isConnected' \in BOOLEAN
  BY DEF MergeInv, OrderInv, TypeInv, TypeOK
<1>2. at = "loop" /\ at' \in {"loop", "idle"} /\ UNCHANGED <<frameList, wire>>
  BY DEF EndLoop
<1>3. /\ \A k \in Kinds : Waits(k)' = Waits(k)
      /\ Up = isConnected /\ Up' = isConnected'
  BY <1>1, <1>2, NoneInHand
<1>4. UNCHANGED <<Pending, Written>>
  BY <1>2, <1>3, WaitsSame, WrittenSame
<1>5. CASE UNCHANGED isConnected
  BY <1>3, <1>4, <1>5 DEF AbstractVars
<1>6. CASE isConnected /\ isConnected' = FALSE
  BY <1>3, <1>4, <1>6 DEF Merge!Disconnect, Merge!Next
<1>7. UNCHANGED isConnected \/ isConnected' = FALSE
  BY DEF EndLoop
<1> QED BY <1>1, <1>5, <1>6, <1>7

LEMMA MergeNextMaps ==
    ASSUME MaxSessions <= 1, MergeInv, OrderInv', [Next]_vars
    PROVE  [Merge!Next]_(Merge!vars)
<1>1. Merge!Next \/ UNCHANGED AbstractVars
  <2>1. CASE Broadcaster
    BY <2>1, BroadcasterMaps
  <2>2. CASE \E s \in Sessions : Encoder(s)
    BY <2>2, EncoderMaps
  <2>3. CASE ReceiveStop
    BY <2>3, NoneInHand, WaitsSame, WrittenSame DEF ReceiveStop, AbstractVars, Up
  <2>4. CASE Handler /\ ~ReceiveStop
    BY <2>4, ReceiveFrameMaps, PickMaps, DropFrameMaps, WriteMaps, RecordMaps, EndLoopMaps
       DEF Handler
  <2>5. CASE UNCHANGED vars
    BY <2>5, StutterStep DEF vars, handlerVars
  <2> QED BY <2>1, <2>2, <2>3, <2>4, <2>5 DEF Next
<1> QED BY <1>1 DEF AbstractVars, Merge!vars

LEMMA MergeInitMaps == Init => Merge!Init
<1> SUFFICES ASSUME Init PROVE Merge!Init
  OBVIOUS
<1>1. Waits("audio") = <<>> /\ Waits("video") = <<>>
  BY DEF Init, Waits, InHand, Kinds
<1>2. Pts(<<>>) = <<>>
  BY PtsFacts, EmptySeq
<1>3. Pending = [k \in Kinds |-> <<>>]
  BY <1>1, <1>2 DEF Pending, Kinds, Pts
<1>4. Written = <<>>
  BY DEF Init, Written
<1>5. Up = FALSE
  BY DEF Init, Up
<1> QED BY <1>3, <1>4, <1>5 DEF Merge!Init, Merge!Streams, Kinds

(* The streamer of one broadcast keeps the promise of a muxer: whatever    *)
(* the encoders send and however the handler's loop is cut into, its steps *)
(* are the steps of the merge of the two streams or invisible to it.       *)
THEOREM MergeImplemented ==
    ASSUME MaxSessions <= 1
    PROVE  Spec => ImplementsMerge
<1>1. Init => MergeInv /\ Merge!Init
  BY MergeInit, MergeInitMaps
<1>2. MergeInv /\ [Next]_vars => MergeInv'
  BY MergeStep
<1>3. MergeInv /\ MergeInv' /\ [Next]_vars => [Merge!Next]_(Merge!vars)
  BY MergeNextMaps DEF MergeInv
<1> QED BY <1>1, <1>2, <1>3, PTL DEF Spec, ImplementsMerge, Merge!Spec

-----------------------------------------------------------------------------
(* getFrameCountInQueue().                                                 *)
QueueInv == TypeInv /\ CountCoversQueue

LEMMA UncountedFinite ==
    ASSUME TypeInv
    PROVE  IsFiniteSet(uncounted) /\ Cardinality(uncounted) \in Nat
<1>1. IsFiniteSet(Sessions)
  BY FS_Interval, BoundsAssumption DEF Sessions
<1>2. IsFiniteSet(Kinds)
  <2>1. IsFiniteSet({"audio"})
    BY FS_Singleton
  <2>2. IsFiniteSet({"audio"} \cup {"video"})
    BY ONLY <2>1, FS_AddElement
  <2>3. Kinds = {"audio"} \cup {"video"}
    BY DEF Kinds
  <2> QED BY <2>2, <2>3
<1>3. IsFiniteSet(Kinds \X Sessions)
  BY <1>1, <1>2, FS_Product
<1> QED BY <1>3, FS_Subset, FS_CardinalityType DEF TypeInv, TypeOK

LEMMA PostedAppend ==
    ASSUME NEW l \in Seq(Message), NEW m \in Message
    PROVE  Cardinality(Posted(Append(l, m))) =
              Cardinality(Posted(l)) + (IF m.what \in Kinds THEN 1 ELSE 0)
<1>1. /\ Len(Append(l, m)) = Len(l) + 1 /\ Len(l) \in Nat
      /\ \A i \in 1..Len(l) : Append(l, m)[i] = l[i]
      /\ Append(l, m)[Len(l) + 1] = m
  BY AppendProperties, LenProperties
<1>2. 1..(Len(l) + 1) = (1..Len(l)) \cup {Len(l) + 1} /\ Len(l) + 1 \notin 1..Len(l)
  BY <1>1
<1>3. Posted(Append(l, m)) = IF m.what \in Kinds THEN Posted(l) \cup {Len(l) + 1} ELSE Posted(l)
  BY <1>1, <1>2 DEF Posted
<1>4. Len(l) + 1 \notin Posted(l)
  BY <1>2 DEF Posted
<1>5. IsFiniteSet(Posted(l)) /\ Cardinality(Posted(l)) \in Nat
  BY PostedFinite
<1>6. Cardinality(Posted(l) \cup {Len(l) + 1}) = Cardinality(Posted(l)) + 1
  BY <1>4, <1>5, FS_AddElement
<1> QED BY <1>3, <1>5, <1>6

LEMMA PostedTail ==
    ASSUME NEW l \in Seq(Message), l # <<>>
    PROVE  Cardinality(Posted(Tail(l))) =
              Cardinality(Posted(l)) - (IF Head(l).what \in Kinds THEN 1 ELSE 0)
<1> DEFINE S == Posted(l) \ {1}
           T == Posted(Tail(l))
           f == [i \in S |-> i - 1]
<1>1. /\ Len(Tail(l)) = Len(l) - 1 /\ Len(l) \in Nat /\ Len(l) >= 1 /\ Head(l) = l[1]
      /\ \A i \in 1..Len(Tail(l)) : Tail(l)[i] = l[i + 1]
  BY HeadTailProperties, LenProperties, EmptySeq
<1>2. \A i \in S : i \in 2..Len(l) /\ l[i].what \in Kinds
  BY <1>1 DEF Posted
<1>3. \A i \in S : i - 1 \in T
  <2> TAKE i \in S
  <2>1. i - 1 \in 1..Len(Tail(l)) /\ (i - 1) + 1 = i
    BY <1>1, <1>2
  <2>2. Tail(l)[i - 1].what \in Kinds
    BY <1>1, <1>2, <2>1
  <2> QED BY <2>1, <2>2 DEF Posted
<1>4. \A j \in T : j + 1 \in S /\ (j + 1) - 1 = j
  <2> TAKE j \in T
  <2>1. j \in 1..Len(Tail(l)) /\ Tail(l)[j].what \in Kinds
    BY DEF Posted
  <2>2. j + 1 \in 1..Len(l) /\ j + 1 # 1 /\ l[j + 1].what \in Kinds /\ (j + 1) - 1 = j
    BY <1>1, <2>1
  <2> QED BY <2>2 DEF Posted
<1>5. \A i, j \in S : i - 1 = j - 1 => i = j
  BY <1>2
<1> HIDE DEF S, T
<1>6. f \in Bijection(S, T)
  <2>1. f \in [S -> T]
    BY <1>3
  <2>2. f \in Surjection(S, T)
    <3>1. \A j \in T : \E i \in S : f[i] = j
      BY <1>4
    <3> QED BY <2>1, <3>1 DEF Surjection
  <2>3. f \in Injection(S, T)
    BY <1>5, <2>1 DEF Injection, IsInjective
  <2> QED BY <2>2, <2>3 DEF Bijection
<1>7. IsFiniteSet(S) /\ Cardinality(S) = Cardinality(Posted(l)) - (IF 1 \in Posted(l) THEN 1 ELSE 0)
      /\ Cardinality(Posted(l)) \in Nat
  BY PostedFinite, FS_RemoveElement DEF S
<1>8. Cardinality(T) = Cardinality(S)
  BY <1>6, <1>7, FS_Bijection DEF ExistsBijection
<1>9. 1 \in Posted(l) <=> Head(l).what \in Kinds
  BY <1>1 DEF Posted
<1> QED BY <1>7, <1>8, <1>9 DEF T

LEMMA WaitingArithmetic ==
    /\ \A p, a, v \in Nat : p + a + v = p + (a + v) /\ p + a + v \in Int /\ a + v \in Nat
    /\ \A w, x, f, g, c, l \in Int : x - g <= w - f /\ f + c + l >= w => g + c + l >= x
    /\ \A p, l, f \in Int : /\ (p - 1) + (l + 1) - f <= p + l - f
                            /\ (p - 1) + l - f <= p + l - f
                            /\ p + (l - 1) - f <= p + l - f
                            /\ p + (l - 1) - (f - 1) <= p + l - f
                            /\ p + l - f <= p + l - f
    /\ \A w, f, c, l \in Int :
          f + c + l >= w => /\ f + (c + 1) + l >= w + 1
                            /\ (f + 1) + (c - 1) + l >= w
    /\ \A p, l \in Int : (p + 1) + l = p + l + 1
OBVIOUS

Listed == Len(frameList["audio"]) + Len(frameList["video"])

LEMMA WaitingFacts ==
    ASSUME TypeInv
    PROVE  /\ looper \in Seq(Message) /\ Cardinality(Posted(looper)) \in Int
           /\ Len(frameList["audio"]) \in Int /\ Len(frameList["video"]) \in Int
           /\ Waiting = Cardinality(Posted(looper)) + Listed /\ Waiting \in Int /\ Listed \in Int
           /\ frameCount \in Int /\ Cardinality(uncounted) \in Int /\ left \in Int
<1>1. /\ looper \in Seq(Message) /\ frameCount \in Int /\ left \in Int
      /\ "audio" \in Kinds /\ "video" \in Kinds
  BY DEF TypeInv, TypeOK, Kinds
<1>2. /\ Cardinality(Posted(looper)) \in Nat /\ Cardinality(uncounted) \in Nat
      /\ Len(frameList["audio"]) \in Nat /\ Len(frameList["video"]) \in Nat
  BY <1>1, PostedFinite, UncountedFinite, ListFacts
<1>3. Waiting = Cardinality(Posted(looper)) + Listed /\ Waiting \in Int /\ Listed \in Nat
  BY ONLY <1>2, WaitingArithmetic DEF Waiting, Listed
<1> QED BY <1>1, <1>2, <1>3

LEMMA WaitingNext ==
    ASSUME TypeInv'
    PROVE  /\ Waiting' = Cardinality(Posted(looper')) + Listed' /\ Waiting' \in Int
           /\ frameCount' \in Int
<1>1. /\ looper' \in Seq(Message) /\ frameCount' \in Int
      /\ frameList' \in [Kinds -> Seq(Frame)] /\ "audio" \in Kinds /\ "video" \in Kinds
  BY DEF TypeInv, TypeOK, Kinds
<1>2. /\ Cardinality(Posted(looper')) \in Nat
      /\ Len(frameList'["audio"]) \in Nat /\ Len(frameList'["video"]) \in Nat
  BY <1>1, PostedFinite, LenProperties
<1>3. Waiting' = Cardinality(Posted(looper')) + Listed' /\ Waiting' \in Int
  BY ONLY <1>2, WaitingArithmetic DEF Waiting, Listed
<1> QED BY <1>1, <1>3

(* An encoder posts a message and is about to count it, or it counts it.   *)
LEMMA QueueEncoder ==
    ASSUME QueueInv, TypeInv', NEW s \in Sessions, Encoder(s)
    PROVE  QueueInv'
<1>1. TypeInv
  BY DEF QueueInv
<1>3. UNCHANGED <<frameList, left>>
  BY DEF Encoder, WriteFrame, CountFrame, EndAudio, StopMuxer, handlerVars
<1>5. ASSUME NEW k \in Kinds, <<k, s>> \notin uncounted, UNCHANGED frameCount,
             uncounted' = uncounted \cup {<<k, s>>},
             NEW m \in Message, m.what \in Kinds, looper' = Append(looper, m)
      PROVE  CountCoversQueue'
  <2>1. Cardinality(Posted(looper')) = Cardinality(Posted(looper)) + 1
    BY <1>1, <1>5, WaitingFacts, PostedAppend
  <2>2. Cardinality(uncounted') = Cardinality(uncounted) + 1
    BY <1>1, <1>5, UncountedFinite, FS_AddElement
  <2>3. Waiting' = Waiting + 1
    <3>1. Waiting = Cardinality(Posted(looper)) + Listed
          /\ Waiting' = Cardinality(Posted(looper')) + Listed'
      BY <1>1, WaitingFacts, WaitingNext
    <3>2. Listed' = Listed
      BY <1>3 DEF Listed
    <3> QED BY <1>1, <2>1, <3>1, <3>2, WaitingFacts, WaitingArithmetic
  <2> QED BY SMTT(30), <1>1, <1>3, <1>5, <2>2, <2>3, WaitingFacts, WaitingArithmetic
          DEF QueueInv, CountCoversQueue
<1>6. CASE \E k \in Kinds : WriteFrame(k, s)
  <2>1. PICK k \in Kinds : WriteFrame(k, s)
    BY <1>6
  <2>2. PICK t \in Timestamps :
            Post([what |-> k, pts |-> t, empty |-> FALSE, session |-> s])
    BY <2>1 DEF WriteFrame
  <2> DEFINE m == [what |-> k, pts |-> t, empty |-> FALSE, session |-> s]
  <2>3. m \in Message /\ m.what = k
    BY DEF Message
  <2>4. /\ <<k, s>> \notin uncounted /\ UNCHANGED frameCount
        /\ uncounted' = uncounted \cup {<<k, s>>} /\ looper' = Append(looper, m)
    BY <2>1, <2>2 DEF WriteFrame, Post
  <2> HIDE DEF m
  <2> QED BY <1>5, <2>3, <2>4 DEF QueueInv
<1>7. CASE \E k \in Kinds : CountFrame(k, s)
  <2>1. PICK k \in Kinds : CountFrame(k, s)
    BY <1>7
  <2>2. Cardinality(uncounted') = Cardinality(uncounted) - 1
    BY <1>1, <2>1, UncountedFinite, FS_RemoveElement DEF CountFrame
  <2>3. frameCount' = frameCount + 1 /\ UNCHANGED looper
    BY <2>1 DEF CountFrame
  <2>4. CountCoversQueue'
    BY <1>1, <1>3, <2>2, <2>3, WaitingFacts, WaitingArithmetic
       DEF QueueInv, CountCoversQueue, Waiting
  <2> QED BY <2>4 DEF QueueInv
<1>8. CASE EndAudio(s)
  <2> DEFINE m == [what |-> "audio", pts |-> 0, empty |-> TRUE, session |-> s]
  <2>1. m \in Message /\ m.what \in Kinds /\ "audio" \in Kinds
    BY DEF Message, Kinds
  <2>2. /\ <<"audio", s>> \notin uncounted /\ UNCHANGED frameCount
        /\ uncounted' = uncounted \cup {<<"audio", s>>} /\ looper' = Append(looper, m)
    BY <1>8 DEF EndAudio, Post
  <2> HIDE DEF m
  <2> QED BY <1>5, <2>1, <2>2 DEF QueueInv
<1>9. CASE StopMuxer(s)
  <2> DEFINE m == [what |-> "stop", session |-> s]
  <2>1. m \in Message /\ m.what \notin Kinds
    BY DEF Message, Kinds
  <2>2. UNCHANGED <<frameCount, uncounted>> /\ looper' = Append(looper, m)
    BY <1>9 DEF StopMuxer, Post
  <2> HIDE DEF m
  <2>3. Cardinality(Posted(looper')) = Cardinality(Posted(looper))
    BY <1>1, <2>1, <2>2, WaitingFacts, PostedAppend
  <2>4. CountCoversQueue'
    BY <1>3, <2>2, <2>3 DEF QueueInv, CountCoversQueue, Waiting
  <2> QED BY <2>4 DEF QueueInv
<1> QED BY <1>6, <1>7, <1>8, <1>9 DEF Encoder

(* One list grows or shrinks by one frame.                                 *)
LEMMA ListedMoves ==
    ASSUME TypeInv, NEW q \in Kinds, NEW d \in {-1, 1},
           Len(frameList'[q]) = Len(frameList[q]) + d,
           \A k \in Kinds : k # q => frameList'[k] = frameList[k]
    PROVE  Listed' = Listed + d
<1> DEFINE a == Len(frameList["audio"])
           v == Len(frameList["video"])
<1>1. /\ a \in Int /\ v \in Int /\ d \in Int
      /\ \/ q = "audio" /\ Len(frameList'["audio"]) = a + d /\ Len(frameList'["video"]) = v
         \/ q = "video" /\ Len(frameList'["audio"]) = a /\ Len(frameList'["video"]) = v + d
  BY SMTT(30), WaitingFacts DEF Kinds
<1>2. Listed = a + v /\ Listed' = Len(frameList'["audio"]) + Len(frameList'["video"])
  BY DEF Listed
<1> HIDE DEF a, v
<1>3. (a + d) + v = (a + v) + d /\ a + (v + d) = (a + v) + d
  BY <1>1
<1> QED BY <1>1, <1>2, <1>3

LEMMA RemovedLength ==
    ASSUME TypeInv, frameList[phase] # <<>>,
           frameList' = [frameList EXCEPT ![phase] = Tail(@)]
    PROVE  Listed' = Listed - 1
<1>1. frameList \in [Kinds -> Seq(Frame)] /\ phase \in Kinds
  BY DEF TypeInv, TypeOK
<1>2. PICK q \in Kinds : q = phase
  BY <1>1
<1>3. Len(frameList'[q]) = Len(frameList[q]) - 1 /\ Len(frameList[q]) \in Nat
  BY <1>1, <1>2, HeadTailProperties, LenProperties
<1>4. Len(frameList'[q]) = Len(frameList[q]) + (-1)
  BY <1>3
<1>5. \A k \in Kinds : k # q => frameList'[k] = frameList[k]
  BY <1>1, <1>2
<1>6. Listed' = Listed + (-1)
  BY <1>4, <1>5, ListedMoves
<1> QED BY <1>6, WaitingFacts

LEMMA QueueHandler ==
    ASSUME QueueInv, TypeInv', Handler
    PROVE  QueueInv'
<1>1. TypeInv
  BY DEF QueueInv
<1>3. UNCHANGED envVars
  BY DEF Handler, ReceiveFrame, ReceiveStop, Pick, DropFrame, Write, Record, EndLoop
<1>4. UNCHANGED <<uncounted, left>>
  BY <1>3 DEF envVars
<1>6. ASSUME Waiting' - frameCount' <= Waiting - frameCount, Waiting' \in Int, frameCount' \in Int
      PROVE  CountCoversQueue'
  <2>1. Waiting \in Int /\ Cardinality(uncounted) \in Int /\ frameCount \in Int /\ left \in Int
    BY <1>1, WaitingFacts
  <2>2. frameCount + Cardinality(uncounted) + left >= Waiting
    BY DEF QueueInv, CountCoversQueue
  <2>3. frameCount' + Cardinality(uncounted) + left >= Waiting'
    BY ONLY <1>6, <2>1, <2>2, WaitingArithmetic
  <2> QED BY <1>4, <2>3 DEF CountCoversQueue
<1>7. /\ Waiting' = Cardinality(Posted(looper')) + Listed'
      /\ Waiting' \in Int /\ frameCount' \in Int
  BY WaitingNext
<1>8. Waiting' - frameCount' <= Waiting - frameCount
  <2>1. CASE ReceiveFrame \/ ReceiveStop
    <3> DEFINE m == Head(looper)
    <3>1. /\ looper # <<>> /\ looper' = Tail(looper) /\ UNCHANGED frameCount
          /\ m \in Message
      BY <1>1, <2>1, WaitingFacts, HeadTailProperties DEF ReceiveFrame, ReceiveStop
    <3>2. Cardinality(Posted(looper')) =
             Cardinality(Posted(looper)) - (IF m.what \in Kinds THEN 1 ELSE 0)
      BY <1>1, <3>1, WaitingFacts, PostedTail
    <3>3. CASE UNCHANGED frameList
      <4>1. Listed' = Listed
        BY <3>3 DEF Listed
      <4>2. \/ Cardinality(Posted(looper')) = Cardinality(Posted(looper)) - 1
            \/ Cardinality(Posted(looper')) = Cardinality(Posted(looper))
        BY <1>1, <3>2, WaitingFacts
      <4> HIDE DEF m
      <4> QED BY <1>1, <1>7, <3>1, <4>1, <4>2, WaitingFacts, WaitingArithmetic
    <3>4. CASE ReceiveFrame /\ Accepted(m)
      <4> DEFINE f == [pts |-> m.pts, ts |-> m.pts, session |-> m.session]
      <4>1. m.what \in Kinds /\ f \in Frame
            /\ frameList' = [frameList EXCEPT ![m.what] = Append(@, f)]
        BY <3>1, <3>4 DEF ReceiveFrame, Message, Kinds, Accepted, Frame
      <4> HIDE DEF f, m
      <4>2. frameList \in [Kinds -> Seq(Frame)]
        BY <1>1 DEF TypeInv, TypeOK
      <4>3. Len(frameList'[m.what]) = Len(frameList[m.what]) + 1
        BY <4>1, <4>2, AppendProperties
      <4>4. \A k \in Kinds : k # m.what => frameList'[k] = frameList[k]
        BY <4>1, <4>2
      <4>5. Listed' = Listed + 1
        <5>1. PICK q \in Kinds : q = m.what
          BY <4>1
        <5> QED BY <1>1, <4>3, <4>4, <5>1, ListedMoves
      <4> QED BY <1>1, <1>7, <3>1, <3>2, <4>1, <4>5, WaitingFacts, WaitingArithmetic
    <3> QED BY <2>1, <3>3, <3>4 DEF ReceiveFrame, ReceiveStop
  <2>2. CASE Pick
    <3>1. Listed' = Listed /\ UNCHANGED <<looper, frameCount>>
      BY <1>1, <2>2, PickFacts DEF Pick, Listed, Kinds
    <3> QED BY <1>1, <1>7, <3>1, WaitingFacts, WaitingArithmetic
  <2>3. CASE DropFrame
    <3>1. /\ frameList[phase] # <<>> /\ frameList' = [frameList EXCEPT ![phase] = Tail(@)]
          /\ UNCHANGED <<looper, frameCount>>
      BY <2>3 DEF DropFrame, InLoop
    <3> QED BY <1>1, <1>7, <3>1, RemovedLength, WaitingFacts, WaitingArithmetic
  <2>4. CASE Record
    <3>1. /\ frameList[phase] # <<>> /\ frameList' = [frameList EXCEPT ![phase] = Tail(@)]
          /\ UNCHANGED looper /\ frameCount' = frameCount - 1
      BY <1>1, <2>4 DEF Record, TypeInv, Handling
    <3> QED BY SMTT(30), <1>1, <1>7, <3>1, RemovedLength, WaitingFacts, WaitingArithmetic
  <2>5. CASE Write \/ EndLoop
    <3>1. UNCHANGED <<looper, frameList, frameCount>>
      BY <2>5 DEF Write, EndLoop
    <3>2. Listed' = Listed
      BY <3>1 DEF Listed
    <3> QED BY <1>1, <1>7, <3>1, <3>2, WaitingFacts, WaitingArithmetic
  <2> QED BY <2>1, <2>2, <2>3, <2>4, <2>5 DEF Handler
<1> QED BY <1>6, <1>7, <1>8 DEF QueueInv

LEMMA QueueBroadcaster ==
    ASSUME QueueInv, TypeInv', Broadcaster
    PROVE  QueueInv'
<1>1. TypeInv
  BY DEF QueueInv
<1>2. CASE OpenBegin
  <2>1. /\ frameCount' = 0 /\ left' = Waiting
        /\ UNCHANGED <<looper, frameList, uncounted>>
    BY <1>2 DEF OpenBegin, Reset, handlerVars
  <2>2. Waiting' = Waiting
    BY <2>1 DEF Waiting
  <2>3. Cardinality(uncounted') \in Nat /\ Waiting \in Int
    BY <1>1, <2>1, UncountedFinite, WaitingFacts
  <2>4. 0 + Cardinality(uncounted') + Waiting >= Waiting
    BY ONLY <2>3
  <2>5. CountCoversQueue'
    BY <2>1, <2>2, <2>4 DEF CountCoversQueue
  <2> QED BY <2>5 DEF QueueInv
<1>3. CASE OpenSucceeds \/ OpenFails \/ StopBroadcasting
  <2>1. UNCHANGED <<looper, frameList, frameCount, uncounted, left>>
    BY <1>3 DEF OpenSucceeds, OpenFails, StopBroadcasting, handlerVars
  <2>2. CountCoversQueue'
    BY <2>1 DEF QueueInv, CountCoversQueue, Waiting
  <2> QED BY <2>2 DEF QueueInv
<1> QED BY <1>2, <1>3 DEF Broadcaster

(* Through any number of broadcasts and every reset by open(), the count   *)
(* the adaptive quality reads is never less than what waits, but for the   *)
(* writers about to count their frame and for the frames that waited when  *)
(* open() last set it to zero.                                             *)
THEOREM QueueCovered == Spec => []CountCoversQueue
<1>1. Init => QueueInv
  <2> SUFFICES ASSUME Init PROVE QueueInv
    OBVIOUS
  <2>1. TypeInv
    BY TypeInit
  <2>2. Posted(looper) = {} /\ Len(frameList["audio"]) = 0 /\ Len(frameList["video"]) = 0
    BY DEF Init, Posted, Kinds
  <2>3. Cardinality(Posted(looper)) = 0 /\ Cardinality(uncounted) = 0
    BY <2>2, FS_EmptySet DEF Init
  <2>4. frameCount = 0 /\ left = 0
    BY DEF Init
  <2> QED BY <2>1, <2>2, <2>3, <2>4 DEF QueueInv, CountCoversQueue, Waiting
<1>2. QueueInv /\ [Next]_vars => QueueInv'
  <2> SUFFICES ASSUME QueueInv, [Next]_vars PROVE QueueInv'
    OBVIOUS
  <2>1. TypeInv'
    BY TypeStep DEF QueueInv
  <2>2. CASE UNCHANGED vars
    BY <2>1, <2>2 DEF vars, handlerVars, envVars, QueueInv, CountCoversQueue, Waiting
  <2> QED BY <2>1, <2>2, QueueBroadcaster, QueueEncoder, QueueHandler DEF Next
<1>3. QueueInv => CountCoversQueue
  BY DEF QueueInv
<1> QED BY <1>1, <1>2, <1>3, PTL DEF Spec
=============================================================================
