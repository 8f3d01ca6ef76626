--------------------------- MODULE EncoderProofs ---------------------------
(***************************************************************************)
(* FrameBuffers: no byte array is taken back too early, whatever the       *)
(* number, times and sizes of the frames, as long as two frames of a kind  *)
(* are at least 2 ms apart: the streamer may move a frame 1 ms on.         *)
(*                                                                         *)
(* BytesKept is not inductive.  What keeps it is how the two threads'      *)
(* clocks are related: the entry of a waiting frame's array carries that   *)
(* frame's time, and that time is later than any the encoder has read.     *)
(*                                                                         *)
(* AudioTimes: the times of audio frames are those of their samples, for   *)
(* any width of an int and any number of rounds, and so the encoder with   *)
(* its clock is one of the encoders of FrameBuffers.                       *)
(*                                                                         *)
(* AudioCapture: for any number of broadcasts, samples, stops, arrays of   *)
(* the ring and input buffers of a codec, a sample is copied whole as long *)
(* as the handler is within the ring, and no sample of a recorder that has *)
(* ended follows the end of the stream.                                    *)
(*                                                                         *)
(* VideoEncoding: for one broadcast at one bitrate and any number of       *)
(* pauses and waiting frames, the codec is freed, the renderer knows the   *)
(* encoder, the server can decode, and no picture follows the stop.        *)
(***************************************************************************)
EXTENDS AudioTimes, AudioCapture, VideoEncoding, FiniteSetTheorems, TLAPS

-----------------------------------------------------------------------------
(* The buffers.                                                            *)

\* Waiting frames are in time order, MinGap apart, none later than the last.
Spaced ==
  /\ \A i, j \in 1..Len(waiting) : i < j => waiting[i].pts + MinGap <= waiting[j].pts
  /\ \A i \in 1..Len(waiting) : waiting[i].pts <= lastPts

\* A waiting frame is later than the last one sent; the first packet, at time
\* 0, is as late as the streamer's initial value, and shorter than any frame.
NotYetSent ==
  \A i \in 1..Len(waiting) :
    \/ waiting[i].pts > lastFrame
    \/ waiting[i].pts = 0 /\ lastFrame = 0 /\ size[waiting[i].buf] = ConfigSize

\* The array of a waiting frame has that frame's time in the map.
KeyedByTime ==
  \A i \in 1..Len(waiting), r \in reserved :
    r.buf = waiting[i].buf => r.key = waiting[i].pts

\* The arrays in use were made for earlier frames ...
Made ==
  /\ \A i \in 1..Len(waiting) : waiting[i].buf <= frames
  /\ \A r \in reserved : r.buf <= frames

\* ... and each has one entry and holds one waiting frame at most.
Single ==
  /\ \A i, j \in 1..Len(waiting) : waiting[i].buf = waiting[j].buf => i = j
  /\ \A r, q \in reserved : r.buf = q.buf => r = q

\* What the encoder read is not ahead of the streamer, nor the streamer of
\* the encoder by more than the one millisecond it may add.
Clocks ==
  /\ seen <= lastFrame
  /\ frames = 0 => waiting = <<>> /\ reserved = {} /\ lastFrame = 0
  /\ frames > 0 => lastPts >= 0 /\ lastFrame <= lastPts + 1

\* A frame is being written only if the list has one, and asked for only if
\* one may come.
InPlace ==
  /\ writing => arrived > 0
  /\ encoder = "asked" => frames < MaxFrames

BufferInv ==
  /\ TypeOK /\ Spaced /\ NotYetSent /\ KeyedByTime /\ Made /\ Single
  /\ Clocks /\ InPlace /\ BytesKept

-----------------------------------------------------------------------------
LEMMA WaitingTypes ==
  ASSUME BufferInv, NEW i \in 1..Len(waiting)
  PROVE  /\ waiting[i] \in Frame
         /\ waiting[i].pts \in 0..MaxTime /\ waiting[i].pts \in Nat
         /\ waiting[i].buf \in Arrays
<1>1. waiting[i] \in Frame
  BY DEF BufferInv, TypeOK
<1>2. waiting[i].pts \in 0..MaxTime /\ waiting[i].buf \in Arrays
  BY <1>1 DEF Frame
<1>3. QED BY <1>1, <1>2

LEMMA BufferInit == Init => BufferInv
<1> SUFFICES ASSUME Init PROVE BufferInv
  OBVIOUS
<1>1. waiting \in Seq(Frame) /\ Len(waiting) = 0
  BY DEF Init
<1>2. TypeOK
  <2>1. /\ frames \in 0..MaxFrames /\ lastPts \in -1..MaxTime
        /\ arrived \in 0..Len(waiting) /\ lastSent \in Int /\ lastFrame \in Nat /\ seen \in Nat
    BY <1>1, BuffersAssumption DEF Init
  <2>2. size \in [Arrays -> Nat] /\ content \in [Arrays -> 0..MaxFrames]
    BY BuffersAssumption DEF Init
  <2>3. /\ reserved \subseteq [key : 0..MaxTime, buf : Arrays]
        /\ encoder \in {"waits", "asked", "ended"} /\ writing \in BOOLEAN
    BY DEF Init
  <2>4. QED BY <2>1, <2>2, <2>3, <1>1 DEF TypeOK
<1>3. Spaced /\ NotYetSent /\ KeyedByTime /\ Made /\ Single /\ BytesKept
  BY <1>1 DEF Init, Spaced, NotYetSent, KeyedByTime, Made, Single, BytesKept
<1>4. Clocks /\ InPlace
  BY DEF Init, Clocks, InPlace
<1>5. QED BY <1>2, <1>3, <1>4 DEF BufferInv

-----------------------------------------------------------------------------
(* A new frame.  b is an array no waiting frame uses, and its entry is     *)
(* replaced by one under the new frame's time.                             *)

LEMMA NewFrame ==
  ASSUME BufferInv, MinGap >= 2,
         NEW s \in Sizes \cup {ConfigSize}, NEW pts \in 0..MaxTime, NEW b \in Arrays,
         NEW gone,
         encoder = "asked", NextOutput(s, pts),
         \A i \in 1..Len(waiting) : waiting[i].buf # b,
         \A r \in reserved \ gone : r.buf # b,
         b <= frames + 1,
         Put(gone, pts, b), Post(pts, b),
         size' \in [Arrays -> Nat],
         \A c \in Arrays : c <= frames => size'[c] = size[c],
         frames = 0 => size'[b] = ConfigSize
  PROVE  BufferInv'
<1> DEFINE new == [no |-> frames + 1, pts |-> pts, buf |-> b]
<1> DEFINE n == Len(waiting)
<1>1. /\ waiting \in Seq(Frame) /\ frames \in Nat /\ frames < MaxFrames
      /\ MaxFrames \in Nat /\ MaxTime \in Nat /\ MinGap \in Nat
  BY BuffersAssumption DEF BufferInv, TypeOK, InPlace
<1>2. new \in Frame
  BY <1>1 DEF Frame, Arrays
<1>3. waiting' = Append(waiting, new) /\ frames' = frames + 1
  BY DEF Post
<1>4. /\ waiting' \in Seq(Frame) /\ Len(waiting') = n + 1 /\ n \in Nat
      /\ waiting'[n + 1] = new
      /\ \A i \in 1..n : waiting'[i] = waiting[i]
  BY <1>1, <1>2, <1>3
<1>5. \A i \in 1..n : /\ waiting[i] \in Frame
                      /\ waiting[i].pts \in 0..MaxTime /\ waiting[i].buf \in Arrays
  BY WaitingTypes
<1>6. /\ lastPts' = pts /\ encoder' = "waits" /\ seen' = seen
      /\ arrived' = arrived /\ writing' = writing
      /\ lastFrame' = lastFrame /\ lastSent' = lastSent
  BY DEF Post, streamerVars
<1>7. /\ lastPts \in Int /\ lastFrame \in Nat /\ seen \in Nat
      /\ arrived \in 0..n /\ lastPts <= MaxTime /\ -1 <= lastPts
  BY DEF BufferInv, TypeOK
<1>8. /\ reserved \subseteq [key : 0..MaxTime, buf : Arrays]
      /\ reserved' = {r \in reserved \ gone : r.key # pts} \cup {[key |-> pts, buf |-> b]}
  BY DEF BufferInv, TypeOK, Put
<1>9. \/ frames = 0 /\ pts = 0
      \/ frames > 0 /\ pts >= lastPts + MinGap
  BY <1>1 DEF NextOutput
<1> HIDE DEF new, n
<1>10. TypeOK'
  <2>1. reserved' \subseteq [key : 0..MaxTime, buf : Arrays]
    BY <1>8
  <2>2. content' \in [Arrays -> 0..MaxFrames]
    <3>1. content' = [content EXCEPT ![b] = frames + 1]
      BY DEF Post
    <3>2. content \in [Arrays -> 0..MaxFrames]
      BY DEF BufferInv, TypeOK
    <3>3. frames + 1 \in 0..MaxFrames
      BY <1>1
    <3> QED BY <3>1, <3>2, <3>3
  <2>3. frames' \in 0..MaxFrames /\ lastPts' \in -1..MaxTime /\ seen' \in Nat
    BY <1>1, <1>3, <1>6, <1>7
  <2>4. arrived' \in 0..Len(waiting')
    BY <1>4, <1>6, <1>7
  <2>5. encoder' \in {"waits", "asked", "ended"} /\ writing' \in BOOLEAN
    BY <1>6 DEF BufferInv, TypeOK
  <2>6. lastFrame' \in Nat /\ lastSent' \in Int
    BY <1>6 DEF BufferInv, TypeOK
  <2>7. QED BY <2>1, <2>2, <2>3, <2>4, <2>5, <2>6, <1>4 DEF TypeOK
<1>11. new.pts = pts /\ new.buf = b /\ new.no = frames + 1
  BY DEF new
<1>12. \A i \in 1..n : waiting[i].pts + MinGap <= pts
  <2>1. CASE frames = 0
    BY <2>1, <1>4 DEF BufferInv, Clocks, n
  <2>2. CASE frames > 0
    <3>1. ASSUME NEW i \in 1..n PROVE waiting[i].pts + MinGap <= pts
      <4>1. waiting[i].pts <= lastPts
        BY DEF BufferInv, Spaced, n
      <4>2. waiting[i].pts \in Int
        BY <1>5
      <4>3. QED BY <4>1, <4>2, <2>2, <1>1, <1>7, <1>9
    <3>2. QED BY <3>1
  <2>3. QED BY <2>1, <2>2, <1>1
<1>13. Spaced'
  <2>1. ASSUME NEW i \in 1..Len(waiting'), NEW j \in 1..Len(waiting'), i < j
        PROVE  waiting'[i].pts + MinGap <= waiting'[j].pts
    <3>1. i \in 1..n
      BY <2>1, <1>4
    <3>2. CASE j = n + 1
      BY <3>1, <3>2, <1>4, <1>11, <1>12
    <3>3. CASE j \in 1..n
      BY <3>1, <3>3, <2>1, <1>4 DEF BufferInv, Spaced, n
    <3>4. QED BY <3>2, <3>3, <1>4
  <2>2. ASSUME NEW i \in 1..Len(waiting') PROVE waiting'[i].pts <= lastPts'
    <3>1. CASE i = n + 1
      BY <3>1, <1>4, <1>6, <1>11
    <3>2. CASE i \in 1..n
      BY SMTT(30), <3>2, <1>1, <1>4, <1>5, <1>6, <1>12
    <3>3. QED BY <3>1, <3>2, <1>4
  <2>3. QED BY <2>1, <2>2 DEF Spaced
<1>14. NotYetSent'
  <2>1. ASSUME NEW i \in 1..Len(waiting')
        PROVE  \/ waiting'[i].pts > lastFrame'
               \/ waiting'[i].pts = 0 /\ lastFrame' = 0 /\ size'[waiting'[i].buf] = ConfigSize
    <3>1. CASE i \in 1..n
      <4>1. size'[waiting[i].buf] = size[waiting[i].buf]
        BY <3>1, <1>5 DEF BufferInv, Made, n
      <4>2. QED BY <4>1, <3>1, <1>4, <1>6 DEF BufferInv, NotYetSent, n
    <3>2. CASE i = n + 1 /\ frames = 0
      BY <3>2, <1>4, <1>6, <1>9, <1>11 DEF BufferInv, Clocks
    <3>3. CASE i = n + 1 /\ frames > 0
      BY <3>3, <1>1, <1>4, <1>6, <1>7, <1>9, <1>11 DEF BufferInv, Clocks
    <3>4. QED BY <3>1, <3>2, <3>3, <1>1, <1>4
  <2>2. QED BY <2>1 DEF NotYetSent
<1>15. ASSUME NEW r \in reserved'
       PROVE  \/ r \in reserved /\ r.buf # b
              \/ r.key = pts /\ r.buf = b /\ r = [key |-> pts, buf |-> b]
  BY <1>8
<1>16. KeyedByTime'
  <2>1. ASSUME NEW i \in 1..Len(waiting'), NEW r \in reserved', r.buf = waiting'[i].buf
        PROVE  r.key = waiting'[i].pts
    <3>1. CASE i = n + 1
      BY <3>1, <2>1, <1>4, <1>11, <1>15
    <3>2. CASE i \in 1..n
      BY <3>2, <2>1, <1>4, <1>15 DEF BufferInv, KeyedByTime, n
    <3>3. QED BY <3>1, <3>2, <1>4
  <2>2. QED BY <2>1 DEF KeyedByTime
<1>17. Made'
  <2>1. ASSUME NEW i \in 1..Len(waiting') PROVE waiting'[i].buf <= frames'
    <3>1. CASE i = n + 1
      BY <3>1, <1>3, <1>4, <1>11
    <3>2. CASE i \in 1..n
      <4>1. waiting[i].buf <= frames
        BY <3>2 DEF BufferInv, Made, n
      <4>2. waiting[i].buf \in Nat
        BY <3>2, <1>5 DEF Arrays
      <4>3. QED BY <4>1, <4>2, <3>2, <1>1, <1>3, <1>4
    <3>3. QED BY <3>1, <3>2, <1>4
  <2>2. ASSUME NEW r \in reserved' PROVE r.buf <= frames'
    <3>1. CASE r.buf = b
      BY <3>1, <1>3
    <3>2. CASE r \in reserved
      <4>1. r.buf <= frames
        BY <3>2 DEF BufferInv, Made
      <4>2. r.buf \in Nat
        BY <3>2, <1>8 DEF Arrays
      <4>3. QED BY <4>1, <4>2, <1>1, <1>3
    <3>3. QED BY <3>1, <3>2, <1>15
  <2>3. QED BY <2>1, <2>2 DEF Made
<1>18. Single'
  <2>1. ASSUME NEW i \in 1..Len(waiting'), NEW j \in 1..Len(waiting'),
               waiting'[i].buf = waiting'[j].buf
        PROVE  i = j
    <3>1. CASE i \in 1..n /\ j \in 1..n
      BY <3>1, <2>1, <1>4 DEF BufferInv, Single, n
    <3>2. CASE i = n + 1 /\ j \in 1..n
      BY <3>2, <2>1, <1>4, <1>11 DEF n
    <3>3. CASE i \in 1..n /\ j = n + 1
      BY <3>3, <2>1, <1>4, <1>11 DEF n
    <3>4. QED BY <3>1, <3>2, <3>3, <1>4
  <2>2. ASSUME NEW r \in reserved', NEW q \in reserved', r.buf = q.buf PROVE r = q
    <3> DEFINE e == [key |-> pts, buf |-> b]
    <3>1. CASE r \in reserved /\ q \in reserved
      BY <3>1, <2>2 DEF BufferInv, Single
    <3>2. (r \in reserved /\ r.buf # b) \/ (r.buf = b /\ r = e)
      BY <1>15
    <3>3. (q \in reserved /\ q.buf # b) \/ (q.buf = b /\ q = e)
      BY <1>15
    <3> HIDE DEF e
    <3> QED BY <2>2, <3>1, <3>2, <3>3
  <2>3. QED BY <2>1, <2>2 DEF Single
<1>19. Clocks'
  <2>1. seen' <= lastFrame'
    BY <1>6 DEF BufferInv, Clocks
  <2>2. lastPts' >= 0 /\ lastFrame' <= lastPts' + 1 /\ frames' > 0
    <3>1. pts \in Int /\ pts >= 0 /\ frames + 1 > 0
      BY <1>1
    <3>2. CASE frames = 0
      <4>1. lastFrame = 0
        BY <3>2 DEF BufferInv, Clocks
      <4> QED BY <1>3, <1>6, <3>1, <4>1
    <3>3. CASE frames > 0
      <4>1. lastFrame <= lastPts + 1 /\ pts >= lastPts + MinGap
        BY <1>9, <3>3 DEF BufferInv, Clocks
      <4>2. lastFrame <= pts + 1
        BY <1>1, <1>7, <3>1, <4>1
      <4> QED BY <1>3, <1>6, <3>1, <4>2
    <3> QED BY <1>1, <3>2, <3>3
  <2>3. QED BY <2>1, <2>2, <1>1, <1>3 DEF Clocks
<1>20. InPlace'
  BY <1>6 DEF BufferInv, InPlace
<1>21. BytesKept'
  <2>1. content \in [Arrays -> 0..MaxFrames] /\ content' = [content EXCEPT ![b] = frames + 1]
    BY DEF BufferInv, TypeOK, Post
  <2>2. ASSUME NEW i \in 1..Len(waiting')
        PROVE  content'[waiting'[i].buf] = waiting'[i].no
    <3>1. CASE i = n + 1
      BY <3>1, <2>1, <1>4, <1>11
    <3>2. CASE i \in 1..n
      BY <3>2, <2>1, <1>4, <1>5 DEF BufferInv, BytesKept, n
    <3>3. QED BY <3>1, <3>2, <1>4
  <2>3. QED BY <2>2 DEF BytesKept
<1>22. QED BY <1>10, <1>13, <1>14, <1>16, <1>17, <1>18, <1>19, <1>20, <1>21 DEF BufferInv

\* An array long enough for a frame and taken for sent is no waiting frame's.
LEMMA RecycledIsFree ==
  ASSUME BufferInv, NEW s \in Sizes, NEW r \in Eligible \ TooShort(s),
         NEW i \in 1..Len(waiting)
  PROVE  waiting[i].buf # r.buf
<1> SUFFICES ASSUME waiting[i].buf = r.buf PROVE FALSE
  OBVIOUS
<1>1. r \in reserved /\ r.key <= seen /\ ~(size[r.buf] < s)
  BY DEF Eligible, TooShort
<1>2. waiting[i] \in Frame
  BY DEF BufferInv, TypeOK
<1>3. r.key = waiting[i].pts
  BY <1>1 DEF BufferInv, KeyedByTime
<1>4. r.key \in Nat /\ r.buf \in Arrays
  BY <1>1, BuffersAssumption DEF BufferInv, TypeOK
<1>5. seen \in Nat /\ lastFrame \in Nat /\ seen <= lastFrame
  BY DEF BufferInv, TypeOK, Clocks
<1>6. size[r.buf] = ConfigSize
  BY <1>1, <1>3, <1>4, <1>5 DEF BufferInv, NotYetSent
<1>7. s \in Nat /\ ConfigSize \in Nat /\ ConfigSize < s
  BY BuffersAssumption
<1>8. QED BY <1>1, <1>6, <1>7

LEMMA RecycleStep ==
  ASSUME BufferInv, MinGap >= 2,
         NEW s \in Sizes \cup {ConfigSize}, NEW pts \in 0..MaxTime, Recycle(s, pts)
  PROVE  BufferInv'
<1>1. PICK r \in Eligible \ TooShort(s), gone \in SUBSET TooShort(s) :
        Put(gone \cup {r}, pts, r.buf) /\ Post(pts, r.buf)
  BY DEF Recycle
<1>2. encoder = "asked" /\ NextOutput(s, pts) /\ size' = size
  BY DEF Recycle
<1>3. r \in reserved
  BY DEF Eligible
<1>4. frames # 0 /\ frames \in Nat /\ s \in Sizes
  <2>1. frames \in Nat
    BY DEF BufferInv, TypeOK
  <2>2. frames # 0
    BY <1>3 DEF BufferInv, Clocks
  <2>3. QED BY <2>1, <2>2, <1>2 DEF NextOutput
<1>5. \A i \in 1..Len(waiting) : waiting[i].buf # r.buf
  BY <1>4, RecycledIsFree
<1>6. \A q \in reserved \ (gone \cup {r}) : q.buf # r.buf
  BY <1>3 DEF BufferInv, Single
<1>7. r.buf \in Arrays /\ r.buf <= frames /\ r.buf \in Nat
  BY <1>3 DEF BufferInv, TypeOK, Made, Arrays
<1>8. size' \in [Arrays -> Nat]
  BY <1>2 DEF BufferInv, TypeOK
<1>9. r.buf <= frames + 1
  BY <1>4, <1>7
<1> DEFINE taken == gone \cup {r}
<1>10. Put(taken, pts, r.buf) /\ \A q \in reserved \ taken : q.buf # r.buf
  BY <1>1, <1>6
<1> HIDE DEF taken
<1>11. QED BY <1>1, <1>2, <1>4, <1>5, <1>7, <1>8, <1>9, <1>10, NewFrame

LEMMA AllocateStep ==
  ASSUME BufferInv, MinGap >= 2,
         NEW s \in Sizes \cup {ConfigSize}, NEW pts \in 0..MaxTime, Allocate(s, pts)
  PROVE  BufferInv'
<1> DEFINE b == frames + 1
<1>1. /\ encoder = "asked" /\ NextOutput(s, pts)
      /\ Put(Eligible, pts, b) /\ Post(pts, b)
      /\ size' = [size EXCEPT ![b] = s]
  BY DEF Allocate
<1>2. frames \in Nat /\ frames < MaxFrames /\ MaxFrames \in Nat
  BY <1>1, BuffersAssumption DEF BufferInv, TypeOK, InPlace
<1>3. b \in Arrays /\ b <= frames + 1 /\ b > frames
  BY <1>2 DEF Arrays
<1>4. \A i \in 1..Len(waiting) : waiting[i].buf # b
  BY <1>2, <1>3 DEF BufferInv, Made
<1>5. \A r \in reserved \ Eligible : r.buf # b
  BY <1>2, <1>3 DEF BufferInv, Made
<1>6. s \in Nat /\ size \in [Arrays -> Nat]
  BY BuffersAssumption DEF BufferInv, TypeOK
<1>7. /\ size' \in [Arrays -> Nat] /\ size'[b] = s
      /\ \A c \in Arrays : c <= frames => size'[c] = size[c]
  BY <1>1, <1>2, <1>3, <1>6
<1>8. frames = 0 => size'[b] = ConfigSize
  BY <1>1, <1>7 DEF NextOutput
<1> HIDE DEF b
<1>9. QED BY <1>1, <1>3, <1>4, <1>5, <1>7, <1>8, NewFrame

-----------------------------------------------------------------------------
(* The first frame of the list leaves it, at the time SentAt or unsent.    *)

LEMMA FirstLeaves ==
  ASSUME BufferInv, MinGap >= 2, arrived > 0,
         waiting' = Tail(waiting), arrived' = arrived - 1,
         UNCHANGED encoderVars,
         lastFrame' \in {lastFrame, waiting[1].pts, waiting[1].pts + 1},
         lastSent' \in Int, writing' = FALSE
  PROVE  BufferInv'
<1> DEFINE n == Len(waiting)
<1>1. waiting \in Seq(Frame) /\ arrived \in 0..n /\ MinGap \in Nat /\ MaxTime \in Nat
  BY BuffersAssumption DEF BufferInv, TypeOK
<1>2. /\ n \in Nat /\ n > 0
      /\ waiting' \in Seq(Frame) /\ Len(waiting') = n - 1
      /\ \A i \in 1..(n - 1) : waiting'[i] = waiting[i + 1] /\ i + 1 \in 1..n
  BY <1>1
<1>3. /\ frames' = frames /\ lastPts' = lastPts /\ reserved' = reserved /\ size' = size
      /\ content' = content /\ encoder' = encoder /\ seen' = seen
  BY DEF encoderVars
<1>4. \A i \in 1..n : waiting[i] \in Frame /\ waiting[i].pts \in Nat
  BY WaitingTypes
<1>5. /\ lastFrame \in Nat /\ seen \in Nat /\ lastPts \in Int /\ frames \in Nat
      /\ waiting[1].pts \in Nat /\ 1 \in 1..n
  BY <1>2, <1>4 DEF BufferInv, TypeOK
<1>6. lastFrame' \in Nat /\ lastFrame <= lastFrame'
  BY <1>5 DEF BufferInv, NotYetSent, n
<1>7. \A i \in 1..(n - 1) : waiting'[i].pts >= waiting[1].pts + 2
  BY SMTT(30), <1>1, <1>2, <1>4, <1>5 DEF BufferInv, Spaced, n
<1> HIDE DEF n
<1>8. TypeOK'
  <2>1. arrived' \in 0..Len(waiting')
    BY <1>1, <1>2
  <2>2. writing' \in BOOLEAN
    OBVIOUS
  <2>3. QED BY <2>1, <2>2, <1>2, <1>3, <1>6 DEF BufferInv, TypeOK
<1>9. Spaced'
  <2>1. ASSUME NEW i \in 1..Len(waiting'), NEW j \in 1..Len(waiting'), i < j
        PROVE  waiting'[i].pts + MinGap <= waiting'[j].pts
    BY <2>1, <1>2 DEF BufferInv, Spaced, n
  <2>2. ASSUME NEW i \in 1..Len(waiting') PROVE waiting'[i].pts <= lastPts'
    BY <1>2, <1>3 DEF BufferInv, Spaced, n
  <2>3. QED BY <2>1, <2>2 DEF Spaced
<1>10. NotYetSent'
  <2>1. ASSUME NEW i \in 1..Len(waiting') PROVE waiting'[i].pts > lastFrame'
    <3>1. waiting[i + 1].pts > lastFrame
      BY <1>2, <1>4, <1>5, <1>7 DEF BufferInv, NotYetSent, n
    <3>2. QED BY <3>1, <1>2, <1>4, <1>5, <1>7
  <2>2. QED BY <2>1 DEF NotYetSent
<1>11. KeyedByTime'
  BY <1>2, <1>3 DEF BufferInv, KeyedByTime, n
<1>12. Made'
  BY <1>2, <1>3 DEF BufferInv, Made, n
<1>13. Single'
  <2>1. ASSUME NEW i \in 1..Len(waiting'), NEW j \in 1..Len(waiting'),
               waiting'[i].buf = waiting'[j].buf
        PROVE  i = j
    <3>1. i + 1 = j + 1
      BY <2>1, <1>2 DEF BufferInv, Single, n
    <3>2. QED BY <3>1
  <2>2. QED BY <2>1, <1>3 DEF BufferInv, Single
<1>14. Clocks'
  <2>1. seen' <= lastFrame'
    BY <1>3, <1>5, <1>6 DEF BufferInv, Clocks
  <2>2. frames # 0
    BY <1>2 DEF BufferInv, Clocks, n
  <2>3. lastPts >= 0 /\ lastFrame <= lastPts + 1 /\ waiting[1].pts <= lastPts
    BY <2>2, <1>5 DEF BufferInv, Clocks, Spaced, n
  <2>4. lastFrame' <= lastPts' + 1
    BY <2>3, <1>3, <1>5
  <2>5. QED BY <2>1, <2>2, <2>3, <2>4, <1>3 DEF Clocks
<1>15. InPlace'
  BY <1>3 DEF BufferInv, InPlace
<1>16. BytesKept'
  BY <1>2, <1>3 DEF BufferInv, BytesKept, n
<1>17. QED BY <1>8, <1>9, <1>10, <1>11, <1>12, <1>13, <1>14, <1>15, <1>16 DEF BufferInv

LEMMA EndWriteStep == BufferInv /\ MinGap >= 2 /\ EndWrite => BufferInv'
<1> SUFFICES ASSUME BufferInv, MinGap >= 2, EndWrite PROVE BufferInv'
  OBVIOUS
<1>1. /\ arrived > 0 /\ waiting' = Tail(waiting) /\ arrived' = arrived - 1
      /\ UNCHANGED encoderVars /\ writing' = FALSE
      /\ lastFrame' = SentAt /\ lastSent' = SentAt
  BY DEF EndWrite, BufferInv, InPlace
<1>2. SentAt \in {waiting[1].pts, waiting[1].pts + 1}
  BY DEF SentAt
<1>3. waiting \in Seq(Frame) /\ arrived \in 0..Len(waiting)
  BY DEF BufferInv, TypeOK
<1>4. waiting[1] \in Frame
  BY <1>1, <1>3
<1>5. waiting[1].pts \in Int
  BY <1>4 DEF Frame
<1>6. lastSent' \in Int
  BY <1>1, <1>2, <1>5
<1>7. QED BY <1>1, <1>2, <1>6, FirstLeaves

LEMMA DiscardStep == BufferInv /\ MinGap >= 2 /\ Discard => BufferInv'
<1> SUFFICES ASSUME BufferInv, MinGap >= 2, Discard PROVE BufferInv'
  OBVIOUS
<1>1. /\ arrived > 0 /\ waiting' = Tail(waiting) /\ arrived' = arrived - 1
      /\ UNCHANGED encoderVars /\ writing' = FALSE
      /\ lastFrame' = lastFrame /\ lastSent' = lastSent
  BY DEF Discard, BufferInv, TypeOK
<1>2. lastSent' \in Int
  BY <1>1 DEF BufferInv, TypeOK
<1>3. QED BY <1>1, <1>2, FirstLeaves

-----------------------------------------------------------------------------
(* The other steps move one of the threads and leave the frames alone.     *)

LEMMA QuietStep ==
  ASSUME BufferInv,
         UNCHANGED <<frames, lastPts, size, content, waiting, lastFrame>>,
         reserved' \in {reserved, {}},
         encoder' \in {"waits", "asked", "ended"},
         encoder' = "asked" => frames < MaxFrames,
         seen' \in {seen, lastFrame},
         arrived' \in 0..Len(waiting), writing' \in BOOLEAN, writing' => arrived' > 0,
         lastSent' \in Int
  PROVE  BufferInv'
<1>1. lastFrame \in Nat /\ seen \in Nat /\ seen <= lastFrame
  BY DEF BufferInv, TypeOK, Clocks
<1>2. reserved' \subseteq reserved
  OBVIOUS
<1>3. TypeOK'
  <2>1. seen' \in Nat
    BY <1>1
  <2>2. QED BY <2>1, <1>2 DEF BufferInv, TypeOK
<1>4. Spaced' /\ NotYetSent' /\ BytesKept'
  BY DEF BufferInv, Spaced, NotYetSent, BytesKept
<1>5. KeyedByTime' /\ Made' /\ Single'
  BY <1>2 DEF BufferInv, KeyedByTime, Made, Single
<1>6. seen' <= lastFrame'
  BY <1>1
<1>7. Clocks'
  BY <1>2, <1>6 DEF BufferInv, Clocks
<1>8. InPlace'
  BY DEF InPlace
<1>9. QED BY <1>3, <1>4, <1>5, <1>7, <1>8 DEF BufferInv

LEMMA EncoderStep == BufferInv /\ (AskStreamer \/ EndOfStream) => BufferInv'
<1> SUFFICES ASSUME BufferInv, AskStreamer \/ EndOfStream PROVE BufferInv'
  OBVIOUS
<1>1. /\ arrived \in 0..Len(waiting) /\ writing \in BOOLEAN /\ lastSent \in Int
      /\ writing => arrived > 0
  BY DEF BufferInv, TypeOK, InPlace
<1>2. CASE AskStreamer
  BY <1>1, <1>2, QuietStep DEF AskStreamer, streamerVars
<1>3. CASE EndOfStream
  BY <1>1, <1>3, QuietStep DEF EndOfStream, streamerVars
<1>4. QED BY <1>2, <1>3

LEMMA StreamerStep ==
  BufferInv /\ (Arrive \/ BeginWrite \/ \E t \in 0..MaxTime : SendOther(t)) => BufferInv'
<1> SUFFICES ASSUME BufferInv, Arrive \/ BeginWrite \/ \E t \in 0..MaxTime : SendOther(t)
             PROVE  BufferInv'
  OBVIOUS
<1>1. /\ arrived \in 0..Len(waiting) /\ writing \in BOOLEAN /\ lastSent \in Int
      /\ writing => arrived > 0
      /\ encoder \in {"waits", "asked", "ended"}
      /\ encoder = "asked" => frames < MaxFrames
      /\ Len(waiting) \in Nat
  BY DEF BufferInv, TypeOK, InPlace
<1>2. CASE Arrive
  BY <1>1, <1>2, QuietStep DEF Arrive, encoderVars
<1>3. CASE BeginWrite
  BY <1>1, <1>3, QuietStep DEF BeginWrite, encoderVars
<1>4. CASE \E t \in 0..MaxTime : SendOther(t)
  <2>1. lastSent' \in Int
    BY <1>4 DEF SendOther
  <2>2. QED BY <1>1, <1>4, <2>1, QuietStep DEF SendOther, encoderVars
<1>5. QED BY <1>2, <1>3, <1>4

LEMMA BufferInductive ==
  ASSUME MinGap >= 2
  PROVE  Spec => []BufferInv
<1>1. Init => BufferInv
  BY BufferInit
<1>2. BufferInv /\ [Next]_vars => BufferInv'
  <2> SUFFICES ASSUME BufferInv, [Next]_vars PROVE BufferInv'
    OBVIOUS
  <2>1. CASE \E s \in Sizes \cup {ConfigSize}, pts \in 0..MaxTime :
               Recycle(s, pts) \/ Allocate(s, pts)
    BY <2>1, RecycleStep, AllocateStep
  <2>2. CASE AskStreamer \/ EndOfStream
    BY <2>2, EncoderStep
  <2>3. CASE Arrive \/ BeginWrite \/ \E t \in 0..MaxTime : SendOther(t)
    BY <2>3, StreamerStep
  <2>4. CASE EndWrite
    BY <2>4, EndWriteStep
  <2>5. CASE Discard
    BY <2>5, DiscardStep
  <2>6. CASE UNCHANGED vars
    BY <2>6 DEF vars, encoderVars, streamerVars, BufferInv, TypeOK, Spaced, NotYetSent,
                KeyedByTime, Made, Single, Clocks, InPlace, BytesKept
  <2>7. QED BY <2>1, <2>2, <2>3, <2>4, <2>5, <2>6 DEF Next
<1>3. QED BY <1>1, <1>2, PTL DEF Spec

\* Whatever the times and sizes of the frames and the order of the map: while
\* frames are at least 2 ms apart, every frame that waits in the streamer or
\* is being written has its own bytes (getBuffer, RTMPStreamer.sendAudioFrames).
THEOREM BuffersKept ==
  ASSUME MinGap >= 2
  PROVE  Spec => []BytesKept
BY BufferInductive, PTL DEF BufferInv

\* With the same distance every variable keeps its type: the list of used
\* arrays, the streamer's list and the clocks (VideoEncoderCore, AudioEncoder).
THEOREM BuffersTyped ==
  ASSUME MinGap >= 2
  PROVE  Spec => []TypeOK
BY BufferInductive, PTL DEF BufferInv


-----------------------------------------------------------------------------
(* Division: what Unique says of % and \div the provers know for numerals   *)
(* only.                                                                    *)

LEMMA MultiplesApart ==
  ASSUME NEW b \in Nat \ {0}, NEW p \in Int, NEW q \in Int, p < q
  PROVE  b * p + b <= b * q
<1>1. PICK d \in Int : q = p + 1 + d /\ d >= 0
  <2>1. q = p + 1 + (q - p - 1)
    OBVIOUS
  <2> QED BY <2>1
<1>2. b * q = b * p + b + b * d
  BY <1>1
<1>3. b * d >= 0
  BY <1>1
<1>4. b * p \in Int /\ b * q \in Int /\ b * d \in Int
  OBVIOUS
<1> QED BY <1>2, <1>3, <1>4

LEMMA DivMod ==
  ASSUME NEW b \in Nat \ {0}, NEW a \in Int
  PROVE  /\ a \div b \in Int /\ (a % b) \in 0..(b - 1)
         /\ a = b * (a \div b) + (a % b)
OBVIOUS

LEMMA Unique ==
  ASSUME NEW b \in Nat \ {0}, NEW q \in Int, NEW r \in 0..(b - 1)
  PROVE  (b * q + r) % b = r /\ (b * q + r) \div b = q
<1> DEFINE a == b * q + r
<1>1. a \in Int
  OBVIOUS
<1>2. /\ a \div b \in Int /\ (a % b) \in 0..(b - 1)
      /\ a = b * (a \div b) + (a % b)
  BY <1>1, DivMod
<1>3. a \div b = q
  <2>1. CASE a \div b < q
    <3>1. b * (a \div b) + b <= b * q
      BY <1>2, <2>1, MultiplesApart
    <3> QED BY <3>1, <1>2, <2>1
  <2>2. CASE q < a \div b
    <3>1. b * q + b <= b * (a \div b)
      BY <1>2, <2>2, MultiplesApart
    <3> QED BY <3>1, <1>2, <2>2
  <2> QED BY <1>2, <2>1, <2>2
<1>4. a % b = r
  BY <1>2, <1>3
<1> QED BY <1>3, <1>4

-----------------------------------------------------------------------------
(* The 32 bits. *)

LEMMA RoundType == Round \in Nat \ {0} /\ Round = Half + Half /\ Half \in Nat \ {0} /\ Scale \in Nat \ {0}
BY ClockAssumption DEF Round

\* (int) keeps what is in the second half of a round as a negative number.
LEMMA IntOfRound ==
  ASSUME NEW k \in Int, NEW u \in 0..(Round - 1)
  PROVE  ToInt(Round * k + u) = IF u < Half THEN u ELSE u - Round
<1> USE RoundType
<1>1. CASE u < Half
  <2>1. u + Half \in 0..(Round - 1)
    BY <1>1
  <2>2. (Round * k + (u + Half)) % Round = u + Half
    BY <2>1, Unique
  <2>3. (Round * k + u) + Half = Round * k + (u + Half)
    OBVIOUS
  <2> QED BY <1>1, <2>2, <2>3 DEF ToInt
<1>2. CASE u >= Half
  <2>1. u - Half \in 0..(Round - 1)
    BY <1>2
  <2>2. (Round * (k + 1) + (u - Half)) % Round = u - Half
    BY <2>1, Unique
  <2>3. (Round * k + u) + Half = Round * (k + 1) + (u - Half)
    <3>1. Round * (k + 1) = Round * k + Round
      OBVIOUS
    <3> QED BY <3>1
  <2> QED BY <1>2, <2>2, <2>3 DEF ToInt
<1> QED BY <1>1, <1>2

\* The rounds counted and the last time given back make the time of the sample.
ClockInv ==
  /\ sampled \in Nat \cup {-1} /\ roundTimes \in Nat /\ previous \in (-Half)..(Half - 1)
  /\ (IF sampled < 0 THEN 0 ELSE sampled * Scale) = Round * roundTimes + GetUnsignedInt(previous)
  /\ TimesRecovered

\* One sample: the round is the same and the sign stays or comes, or it is the
\* next one and the sign goes.
LEMMA NextRound ==
  ASSUME ClockInv, NEW ms \in Nat, SampleTime(ms)
  PROVE  LET us == PresentationTimeUs(ms) IN
         /\ us \in (-Half)..(Half - 1)
         /\ Rounds(us) \in Nat
         /\ ms * Scale = Round * Rounds(us) + GetUnsignedInt(us)
<1> USE RoundType
<1> DEFINE us == PresentationTimeUs(ms)
           x == ms * Scale
           x0 == IF sampled < 0 THEN 0 ELSE sampled * Scale
           u0 == GetUnsignedInt(previous)
<1>1. x \in Nat /\ x0 \in Nat /\ x0 <= x /\ x < x0 + Half
  <2>1. x \in Nat
    OBVIOUS
  <2>2. x0 \in Nat
    BY DEF ClockInv
  <2>3. x - x0 < Half
    BY DEF SampleTime
  <2>4. x0 <= x
    <3>1. CASE sampled < 0
      BY <3>1, <2>1
    <3>2. CASE sampled >= 0
      <4>1. sampled \in Nat /\ ms > sampled
        BY <3>2 DEF ClockInv, SampleTime
      <4>2. Scale * sampled + Scale <= Scale * ms
        BY <4>1, MultiplesApart
      <4>3. Scale * sampled = sampled * Scale /\ Scale * ms = ms * Scale
        BY <4>1
      <4> QED BY <3>2, <4>1, <4>2, <4>3, <2>1, <2>2
    <3> QED BY <3>1, <3>2 DEF ClockInv
  <2> QED BY <2>1, <2>2, <2>3, <2>4
<1>2. u0 \in 0..(Round - 1) /\ roundTimes \in Nat /\ (previous < 0 <=> u0 >= Half)
  BY DEF ClockInv, GetUnsignedInt
<1>3. x0 = Round * roundTimes + u0
  BY DEF ClockInv
<1>4. Round * roundTimes \in Nat
  BY <1>2
<1>5. Round * (roundTimes + 1) = Round * roundTimes + Round
  BY <1>2
<1>6. ms > 0 => x % Round # 0
  BY DEF SampleTime
<1> HIDE DEF x0, u0
<1>7. CASE x < Round * roundTimes + Round
  <2> DEFINE u == x - Round * roundTimes
  <2>1. u \in 0..(Round - 1) /\ u >= u0
    BY <1>1, <1>2, <1>3, <1>4, <1>7
  <2>2. x = Round * roundTimes + u
    BY <1>1, <1>4
  <2> HIDE DEF u
  <2>3. us = IF u < Half THEN u ELSE u - Round
    <3>1. ToInt(Round * roundTimes + u) = IF u < Half THEN u ELSE u - Round
      <4>1. roundTimes \in Int /\ u \in 0..(Round - 1)
        BY <2>1, <1>2
      <4> QED BY ONLY <4>1, IntOfRound
    <3> QED BY <3>1, <2>2 DEF PresentationTimeUs
  <2> HIDE DEF us
  <2>4. GetUnsignedInt(us) = u /\ us \in (-Half)..(Half - 1)
    BY <2>1, <2>3 DEF GetUnsignedInt
  <2>5. ~(previous < 0 /\ us > 0)
    BY <2>1, <2>3, <1>2
  <2>6. Rounds(us) = roundTimes
    BY <2>5 DEF Rounds
  <2> QED BY <2>2, <2>4, <2>6, <1>2 DEF us
<1>8. CASE x >= Round * roundTimes + Round
  <2> DEFINE u == x - Round * (roundTimes + 1)
  <2>1. u \in 0..(Half - 1) /\ u0 >= Half
    BY <1>1, <1>2, <1>3, <1>4, <1>5, <1>8
  <2>2. x = Round * (roundTimes + 1) + u
    BY <1>1, <1>4, <1>5
  <2>3. u \in 0..(Round - 1) /\ roundTimes + 1 \in Int
    BY <2>1, <1>2
  <2> HIDE DEF u
  <2>4. us = u
    <3>1. ToInt(Round * (roundTimes + 1) + u) = IF u < Half THEN u ELSE u - Round
      BY <2>3, IntOfRound
    <3> QED BY <3>1, <2>1, <2>2 DEF PresentationTimeUs
  <2>5. x % Round = u
    <3>1. (Round * (roundTimes + 1) + u) % Round = u
      BY <2>3, Unique
    <3> QED BY <3>1, <2>2
  <2>6. ms > 0
    BY <1>1, <1>4, <1>8
  <2>7. u # 0
    BY <2>5, <2>6, <1>6
  <2> HIDE DEF us
  <2>8. GetUnsignedInt(us) = u /\ us \in (-Half)..(Half - 1) /\ us > 0
    BY <2>1, <2>4, <2>7 DEF GetUnsignedInt
  <2>9. Rounds(us) = roundTimes + 1
    BY <2>1, <2>8, <1>2 DEF Rounds
  <2> QED BY <2>2, <2>8, <2>9, <1>2 DEF us
<1> QED BY <1>7, <1>8, <1>1, <1>4

LEMMA TimeOfSample ==
  ASSUME ClockInv, NEW ms \in Nat, SampleTime(ms)
  PROVE  PresentationTime(PresentationTimeUs(ms)) = ms
<1> USE RoundType
<1>1. PresentationTime(PresentationTimeUs(ms)) = (ms * Scale) \div Scale
  <2>1. ms * Scale = Round * Rounds(PresentationTimeUs(ms)) + GetUnsignedInt(PresentationTimeUs(ms))
        /\ Rounds(PresentationTimeUs(ms)) \in Nat
    BY NextRound
  <2>2. Rounds(PresentationTimeUs(ms)) * Round = Round * Rounds(PresentationTimeUs(ms))
    BY <2>1
  <2> QED BY <2>1, <2>2 DEF PresentationTime
<1>2. 0 \in 0..(Scale - 1) /\ ms \in Int
  OBVIOUS
<1>3. (Scale * ms + 0) \div Scale = ms
  BY <1>2, Unique
<1>4. ms * Scale = Scale * ms + 0
  OBVIOUS
<1> QED BY <1>1, <1>3, <1>4

-----------------------------------------------------------------------------
LEMMA ClockInit == TimedInit => ClockInv
BY RoundType DEF TimedInit, Init, ClockInv, TimesRecovered, GetUnsignedInt

LEMMA ClockStep == ClockInv /\ [TimedNext]_timedVars => ClockInv'
<1> SUFFICES ASSUME ClockInv, [TimedNext]_timedVars PROVE ClockInv'
  OBVIOUS
<1> USE RoundType
<1>1. CASE \E s \in Sizes \cup {ConfigSize}, ms \in 0..MaxTime : Output(s, ms)
  <2>1. PICK s \in Sizes \cup {ConfigSize}, ms \in 0..MaxTime : Output(s, ms)
    BY <1>1
  <2>2. ms \in Nat /\ SampleTime(ms)
    BY <2>1 DEF Output
  <2> DEFINE us == PresentationTimeUs(ms)
  <2>3. /\ us \in (-Half)..(Half - 1) /\ Rounds(us) \in Nat
        /\ ms * Scale = Round * Rounds(us) + GetUnsignedInt(us)
    BY <2>2, NextRound
  <2>4. PresentationTime(us) = ms
    BY <2>2, TimeOfSample
  <2>5. lastPts' = ms
    BY <2>1, <2>4 DEF Output, Recycle, Allocate, Post
  <2>6. sampled' = ms /\ roundTimes' = Rounds(us) /\ previous' = us
    BY <2>1 DEF Output
  <2> HIDE DEF us
  <2>7. GetUnsignedInt(us)' = GetUnsignedInt(previous')
    BY <2>6 DEF GetUnsignedInt, us, PresentationTimeUs, ToInt
  <2>8. ClockInv'
    BY <2>2, <2>3, <2>5, <2>6 DEF ClockInv, TimesRecovered, GetUnsignedInt
  <2> QED BY <2>8
<1>2. CASE Others /\ UNCHANGED clockVars
  <2>1. lastPts' = lastPts
    BY <1>2 DEF Others, AskStreamer, EndOfStream, Arrive, BeginWrite, EndWrite, Discard, SendOther,
                encoderVars
  <2> QED BY <1>2, <2>1 DEF clockVars, ClockInv, TimesRecovered, GetUnsignedInt
<1>3. CASE UNCHANGED timedVars
  BY <1>3 DEF timedVars, vars, encoderVars, clockVars, ClockInv, TimesRecovered, GetUnsignedInt
<1> QED BY <1>1, <1>2, <1>3 DEF TimedNext

\* The time a frame goes out with is the time its sample was taken, through any
\* number of rounds of the 32 bits (AudioEncoder.run, AudioHandler.handleMessage).
THEOREM TimesRight == TimedSpec => []TimesRecovered
<1>1. ClockInv => TimesRecovered
  BY DEF ClockInv
<1> QED BY ClockInit, ClockStep, <1>1, PTL DEF TimedSpec

\* The encoder with its clock does what the encoder of FrameBuffers may do with
\* any growing times, so that the theorems there are about this one.
THEOREM ClockedEncoder == TimedSpec => Spec
<1>1. TimedInit => Init
  BY DEF TimedInit
<1>2. ClockInv /\ [TimedNext]_timedVars => [Next]_vars
  <2> SUFFICES ASSUME ClockInv, [TimedNext]_timedVars PROVE [Next]_vars
    OBVIOUS
  <2>1. CASE \E s \in Sizes \cup {ConfigSize}, ms \in 0..MaxTime : Output(s, ms)
    <3>1. PICK s \in Sizes \cup {ConfigSize}, ms \in 0..MaxTime : Output(s, ms)
      BY <2>1
    <3>2. ms \in Nat /\ SampleTime(ms)
      BY <3>1 DEF Output
    <3>3. PresentationTime(PresentationTimeUs(ms)) = ms
      BY <3>2, TimeOfSample
    <3>4. Recycle(s, ms) \/ Allocate(s, ms)
      BY <3>1, <3>3 DEF Output
    <3> QED BY <3>1, <3>4 DEF Next
  <2>2. CASE Others
    BY <2>2 DEF Others, Next
  <2>3. CASE UNCHANGED timedVars
    BY <2>3 DEF timedVars
  <2> QED BY <2>1, <2>2, <2>3 DEF TimedNext
<1> QED BY ClockInit, ClockStep, <1>1, <1>2, PTL DEF TimedSpec, Spec

\* No array is recycled under a frame, with the times the program has.
THEOREM ClockedBuffersKept ==
  ASSUME MinGap >= 2
  PROVE  TimedSpec => []BytesKept
BY ClockedEncoder, BuffersKept

-----------------------------------------------------------------------------
(* The threads of the sound.                                               *)

ServiceType ==
  [at : {"idle", "made", "recording", "ending", "stopped"},
   now : 0..MaxBroadcasts, stops : 0..MaxStops, again : BOOLEAN, early : BOOLEAN]
RecorderType ==
  [at : {"none", "started", "reading", "posting", "looping", "done"},
   record : {"null", "recording", "released"}, stop : BOOLEAN, posted : Nat, late : BOOLEAN]
CodecStates == {"none", "new", "created", "failed", "ready", "running", "writing",
                "writingEnd", "ending", "released", "done"}
CodecType == [at : CodecStates, input : Seq(Message), ended : BOOLEAN]

CaptureTypes ==
  /\ service \in ServiceType
  /\ service.at # "idle" => service.now \in Broadcasts
  /\ recorder \in [Broadcasts -> RecorderType]
  /\ \A b \in Broadcasts : /\ recorder[b].posted <= MaxSamples[b]
                           /\ recorder[b].at = "posting" => recorder[b].posted < MaxSamples[b]
  /\ ring \in [Broadcasts -> [0..(Slots - 1) -> Nat]]
  /\ \A b \in Broadcasts : \A i \in 0..(Slots - 1) : ring[b][i] <= MaxSamples[b]
  /\ queue \in Seq(Message) /\ target \in 0..MaxBroadcasts
  /\ hand \in [msg : Message, to : 0..MaxBroadcasts] /\ (hand # Idle => hand.to \in Broadcasts)
  /\ encoders \in [Broadcasts -> CodecType]
  /\ \A b \in Broadcasts : Len(encoders[b].input) <= InputBuffers
  /\ over \in [Broadcasts -> SUBSET Broadcasts] /\ lost \subseteq Broadcasts
  /\ fault \in {"none", "codec", "record"}

\* The last Slots - 2 samples posted, and the one about to be, are in their arrays.
Recorded(b) ==
  LET r == recorder[b] IN
  /\ r.at = "posting" => ring[b][Slot(r.posted + 1)] = r.posted + 1
  /\ \A n \in 1..r.posted : r.posted - n < Slots - 1 => ring[b][Slot(n)] = n
Rings ==
  /\ \A b \in Broadcasts : Recorded(b)
  /\ \A m \in UnderWay : m.what = "audio" => m.n <= recorder[m.from].posted

\* A recorder is made by its broadcast's start; one that was done when a codec was told the
\* end has nothing under way.
Overs ==
  /\ service.at = "made" => recorder[service.now].at = "none"
  /\ \A b \in Broadcasts : b > service.now => recorder[b].at = "none"
  /\ \A e \in Broadcasts : \A b \in over[e] : recorder[b].at = "done"
  /\ \A m \in UnderWay : m.what = "audio" => \A e \in Broadcasts : m.from \notin over[e]

\* Who ends the stream was told; all is of and for broadcasts that have started.
Told ==
  /\ \A b \in Broadcasts :
       encoders[b].at \in {"writingEnd", "ending", "released", "done"}
         \/ (\E k \in DOMAIN encoders[b].input : encoders[b].input[k].what = "end") =>
       encoders[b].ended
  /\ \A b \in Broadcasts : b > service.now => ~encoders[b].ended
  /\ \A m \in UnderWay : m.from <= service.now
  /\ target \in {0, service.now} /\ hand.to <= service.now

\* None of the four races took place.
Clean == lost = {} /\ ~service.again /\ ~service.early /\ \A b \in Broadcasts : ~recorder[b].late

\* Then nothing is under way until a new encoder is running or has failed, and what is
\* handled is for the encoder of the broadcast, which is past its start.
Going == Runnable \cup {"done"}
Opening ==
  Clean =>
     /\ service.at = "made" => queue = <<>> /\ hand = Idle
     /\ service.at # "made" /\ target \in Broadcasts => encoders[target].at \in Going \cup {"failed"}
     /\ hand # Idle => hand.to = target /\ encoders[hand.to].at \in Going

Ascend(q) ==
  \A i, j \in DOMAIN q : i < j /\ q[i].what = "end" /\ q[j].what = "end" => q[i].from < q[j].from

\* Ends come in the order of their broadcasts, each once; when a broadcast's has been told,
\* nothing is under way until the next one starts.
Closing ==
  Clean =>
     /\ fault # "codec"
     /\ Ascend(queue)
     /\ hand # Idle /\ hand.msg.what = "end" =>
          \A k \in DOMAIN queue : queue[k].what = "end" => hand.msg.from < queue[k].from
     /\ \A m \in UnderWay : m.what = "end" /\ m.from = service.now => service.at = "stopped"
     /\ hand # Idle => ~encoders[hand.to].ended
     /\ service.now > 0 /\ encoders[service.now].ended => service.at = "stopped" /\ queue = <<>>

LEMMA MessageFacts ==
  /\ \A b \in Broadcasts : End(b) \in Message
  /\ \A b \in Broadcasts : \A n \in 1..MaxSamples[b] : Audio(b, n) \in Message
  /\ \A m \in Message : /\ m.from \in Broadcasts /\ m.what \in {"audio", "end"}
                        /\ m.what = "audio" => m.n \in 1..MaxSamples[m.from]
  /\ \A m \in Message : \A b \in Broadcasts : [msg |-> m, to |-> b] # Idle
  /\ Idle \in [msg : Message, to : 0..MaxBroadcasts] /\ Idle.to = 0
  /\ 1 \in Broadcasts /\ \A b \in Broadcasts : b \in Nat /\ b > 0 /\ b <= MaxBroadcasts
<1>1. MaxBroadcasts \in Nat \ {0} /\ 1 \in Broadcasts
      /\ \A b \in Broadcasts : b \in Nat /\ b > 0 /\ b <= MaxBroadcasts
  BY AudioAssumption DEF Broadcasts
<1>2. \A b \in Broadcasts : End(b) \in Message
  BY DEF Message
<1>3. \A b \in Broadcasts : \A n \in 1..MaxSamples[b] : Audio(b, n) \in Message
  BY DEF Message
<1>4. ASSUME NEW m \in Message
      PROVE  /\ m.from \in Broadcasts /\ m.what \in {"audio", "end"}
             /\ m.what = "audio" => m.n \in 1..MaxSamples[m.from]
  <2>1. CASE \E b \in Broadcasts : m = End(b)
    BY <2>1 DEF End
  <2>2. CASE \E b \in Broadcasts : \E n \in 1..MaxSamples[b] : m = Audio(b, n)
    BY <2>2 DEF Audio
  <2> QED BY <2>1, <2>2 DEF Message
<1>5. ASSUME NEW m \in Message, NEW b \in Broadcasts PROVE [msg |-> m, to |-> b] # Idle
  BY <1>1 DEF Idle
<1>6. Idle \in [msg : Message, to : 0..MaxBroadcasts] /\ Idle.to = 0
  BY <1>1, <1>2 DEF Idle
<1> QED BY <1>1, <1>2, <1>3, <1>4, <1>5, <1>6

LEMMA PutLast ==
  ASSUME NEW S, NEW q \in Seq(S), NEW m \in S
  PROVE  /\ Append(q, m) \in Seq(S) /\ Len(q) \in Nat /\ DOMAIN q = 1..Len(q)
         /\ Len(Append(q, m)) = Len(q) + 1
         /\ DOMAIN Append(q, m) = 1..(Len(q) + 1)
         /\ \A k \in DOMAIN q : Append(q, m)[k] = q[k]
         /\ Append(q, m)[Len(q) + 1] = m
OBVIOUS

LEMMA TakeFirst ==
  ASSUME NEW S, NEW q \in Seq(S), q # <<>>
  PROVE  /\ Head(q) \in S /\ Tail(q) \in Seq(S) /\ Len(Tail(q)) = Len(q) - 1
         /\ 1 \in DOMAIN q /\ Head(q) = q[1] /\ Len(q) \in Nat
         /\ \A k \in DOMAIN Tail(q) : k \in Nat /\ k + 1 \in DOMAIN q /\ Tail(q)[k] = q[k + 1]
OBVIOUS

\* removeMessages leaves no sample, invents nothing and keeps the order.
LEMMA RestInOrder ==
  ASSUME NEW q \in Seq(Message), NEW s \in RemoveAudio(q)
  PROVE  /\ s \in Seq(Message)
         /\ \A i \in DOMAIN s : s[i].what = "end" /\ \E k \in DOMAIN q : s[i] = q[k]
         /\ \A i, j \in DOMAIN s : i < j => \E k, l \in DOMAIN q : k < l /\ s[i] = q[k] /\ s[j] = q[l]
<1> DEFINE rest == {k \in DOMAIN q : q[k].what = "end"}
<1>1. PICK f \in [1..Cardinality(rest) -> rest] :
        /\ \A i, j \in DOMAIN f : i < j => f[i] < f[j]
        /\ s = [i \in DOMAIN f |-> q[f[i]]]
  BY DEF RemoveAudio
<1>2. Cardinality(rest) \in Nat
  <2>1. DOMAIN q = 1..Len(q) /\ Len(q) \in Nat
    OBVIOUS
  <2>2. IsFiniteSet(DOMAIN q)
    BY <2>1, FS_Interval
  <2>3. IsFiniteSet(rest)
    BY <2>2, FS_Subset
  <2> QED BY <2>3, FS_CardinalityType
<1>3. DOMAIN f = 1..Cardinality(rest) /\ DOMAIN s = DOMAIN f
  BY <1>1
<1>4. \A i \in DOMAIN s : f[i] \in rest /\ s[i] = q[f[i]]
  BY <1>1, <1>3
<1>5. \A i \in DOMAIN s : f[i] \in DOMAIN q /\ s[i] \in Message /\ s[i].what = "end"
  BY <1>4
<1>6. s \in Seq(Message)
  <2>1. s = [i \in 1..Cardinality(rest) |-> q[f[i]]]
    BY <1>1, <1>3
  <2>2. \A i \in 1..Cardinality(rest) : q[f[i]] \in Message
    BY <1>3, <1>4, <1>5
  <2> QED BY <1>2, <2>1, <2>2
<1>7. \A i, j \in DOMAIN s : i < j => f[i] < f[j]
  BY <1>1, <1>3
<1> QED BY <1>4, <1>5, <1>6, <1>7

LEMMA Waits ==
  ASSUME NEW q \in Seq(Message)
  PROVE  /\ ToSet(q) \subseteq Message
         /\ \A m : m \in ToSet(q) <=> \E k \in DOMAIN q : m = q[k]
         /\ \A k \in DOMAIN q : q[k] \in ToSet(q)
BY DEF ToSet

\* Neighbours in the ring are in different arrays.
LEMMA SlotsDiffer ==
  ASSUME NEW a \in Nat \ {0}, NEW c \in Nat \ {0}, a # c, a - c < Slots, c - a < Slots
  PROVE  /\ Slot(a) \in 0..(Slots - 1) /\ Slot(c) \in 0..(Slots - 1)
         /\ Slot(a) # Slot(c)
<1> DEFINE p == (a - 1) \div Slots
           q == (c - 1) \div Slots
<1>1. Slots \in Nat \ {0}
  BY AudioAssumption
<1>2. /\ p \in Int /\ q \in Int /\ Slot(a) \in 0..(Slots - 1) /\ Slot(c) \in 0..(Slots - 1)
      /\ a - 1 = Slots * p + Slot(a) /\ c - 1 = Slots * q + Slot(c)
  BY <1>1, DivMod DEF Slot
<1> HIDE DEF p, q
<1>3. ASSUME Slot(a) = Slot(c) PROVE FALSE
  <2>1. Slots * p \in Int /\ Slots * q \in Int /\ a - c = Slots * p - Slots * q
    BY <1>1, <1>2, <1>3
  <2>2. p # q
    BY <2>1
  <2>3. CASE p < q
    <3>1. Slots * p + Slots <= Slots * q
      BY <1>1, <1>2, <2>3, MultiplesApart
    <3> QED BY <1>1, <2>1, <3>1
  <2>4. CASE q < p
    <3>1. Slots * q + Slots <= Slots * p
      BY <1>1, <1>2, <2>4, MultiplesApart
    <3> QED BY <1>1, <2>1, <3>1
  <2> QED BY <1>2, <2>2, <2>3, <2>4
<1> QED BY <1>2, <1>3

LEMMA StartTyped ==
  CaptureInit => CaptureTypes
<1> SUFFICES ASSUME CaptureInit PROVE CaptureTypes
  OBVIOUS
<1>1. MaxBroadcasts \in Nat /\ MaxStops \in Nat /\ Slots \in Nat \ {0} /\ InputBuffers \in Nat
      /\ \A b \in Broadcasts : MaxSamples[b] \in Nat
  BY AudioAssumption DEF Broadcasts
<1>2. recorder \in [Broadcasts -> RecorderType] /\ \A b \in Broadcasts : recorder[b].posted <= MaxSamples[b]
      /\ recorder[b].at # "posting"
  BY <1>1 DEF CaptureInit, RecorderType
<1>3. /\ ring \in [Broadcasts -> [0..(Slots - 1) -> Nat]]
      /\ \A b \in Broadcasts : \A i \in 0..(Slots - 1) : ring[b][i] <= MaxSamples[b]
  BY <1>1 DEF CaptureInit
<1>4. encoders \in [Broadcasts -> CodecType] /\ \A b \in Broadcasts : Len(encoders[b].input) <= InputBuffers
  BY <1>1 DEF CaptureInit, CodecType, CodecStates
<1>5. hand \in [msg : Message, to : 0..MaxBroadcasts] /\ hand = Idle
  BY MessageFacts DEF CaptureInit
<1>6. service \in ServiceType
      /\ service.at = "idle" /\ queue \in Seq(Message) /\ target \in 0..MaxBroadcasts
      /\ over \in [Broadcasts -> SUBSET Broadcasts] /\ lost \subseteq Broadcasts
      /\ fault \in {"none", "codec", "record"}
  BY <1>1 DEF CaptureInit, ServiceType
<1> QED BY <1>2, <1>3, <1>4, <1>5, <1>6 DEF CaptureTypes

\* An encoder takes another state.
LEMMA NextState ==
  ASSUME CaptureTypes, NEW n \in Broadcasts, NEW a \in CodecStates,
         encoders' = [encoders EXCEPT ![n].at = a]
  PROVE  /\ encoders' \in [Broadcasts -> CodecType]
         /\ \A b \in Broadcasts : /\ encoders'[b].input = encoders[b].input
                                  /\ encoders'[b].ended = encoders[b].ended
                                  /\ encoders'[b].at = IF b = n THEN a ELSE encoders[b].at
<1> DEFINE c == [encoders[n] EXCEPT !.at = a]
<1>1. encoders \in [Broadcasts -> CodecType] /\ encoders[n] \in CodecType
  BY DEF CaptureTypes
<1>2. c \in CodecType /\ c.input = encoders[n].input /\ c.ended = encoders[n].ended /\ c.at = a
  BY <1>1 DEF CodecType
<1>3. encoders' = [encoders EXCEPT ![n] = c]
  OBVIOUS
<1> HIDE DEF c
<1> QED BY <1>1, <1>2, <1>3

\* What startAudioEncoder() does once the handler's field is assigned.
Making == CodecGoesOn \/ StartThread \/ CodecFails
LEMMA MakingStep ==
  ASSUME CaptureTypes, Making
  PROVE  /\ service.at = "made" /\ service.now \in Broadcasts
         /\ UNCHANGED <<ring, queue, hand, over, lost>>
         /\ service' \in ServiceType /\ service'.now = service.now
         /\ service'.again = service.again /\ service'.early = service.early
         /\ \/ UNCHANGED <<service, recorder, target>> /\ CodecGoesOn
            \/ service'.at = "recording"
               /\ recorder' = [recorder EXCEPT ![service.now] = [recorder[service.now] EXCEPT !.at = "started"]]
         /\ target' \in {target, 0}
         /\ encoders' \in [Broadcasts -> CodecType]
         /\ \A b \in Broadcasts : /\ encoders'[b].input = encoders[b].input
                                  /\ encoders'[b].ended = encoders[b].ended
                                  /\ b # service.now => encoders'[b].at = encoders[b].at
         /\ encoders'[service.now].at \notin {"writingEnd", "ending", "released", "done"}
         /\ service'.at # "made" => target' = 0 \/ encoders'[service.now].at \in {"running", "failed"}
         /\ fault' = fault \/ (fault' = "codec" /\ queue # <<>>)
<1> DEFINE n == service.now
<1>1. service \in ServiceType /\ service.at = "made" /\ n \in Broadcasts
      /\ encoders \in [Broadcasts -> CodecType] /\ recorder \in [Broadcasts -> RecorderType]
  BY DEF CaptureTypes, Making, CodecGoesOn, StartThread, CodecFails, StartRecorder
<1>2. /\ [service EXCEPT !.at = "recording"] \in ServiceType
      /\ [service EXCEPT !.at = "recording"].now = n
      /\ [service EXCEPT !.at = "recording"].again = service.again
      /\ [service EXCEPT !.at = "recording"].early = service.early
      /\ [service EXCEPT !.at = "recording"].at = "recording"
  BY <1>1 DEF ServiceType
<1>3. [recorder EXCEPT ![n].at = "started"] = [recorder EXCEPT ![n] = [recorder[n] EXCEPT !.at = "started"]]
  OBVIOUS
<1>4. CASE CodecGoesOn
  <2>1. PICK a \in {"created", "ready"} : encoders' = [encoders EXCEPT ![n].at = a]
    <3>1. PICK next \in {<<"new", "created">>, <<"created", "ready">>} :
            encoders' = [encoders EXCEPT ![n].at = next[2]]
      BY <1>4 DEF CodecGoesOn
    <3>2. next[2] \in {"created", "ready"}
      OBVIOUS
    <3> QED BY <3>1, <3>2
  <2>2. a \in CodecStates
    BY DEF CodecStates
  <2>3. UNCHANGED <<service, recorder, ring, queue, target, hand, over, lost, fault>>
    BY <1>4 DEF CodecGoesOn
  <2> HIDE DEF n
  <2>4. /\ encoders' \in [Broadcasts -> CodecType]
        /\ \A b \in Broadcasts : /\ encoders'[b].input = encoders[b].input
                                 /\ encoders'[b].ended = encoders[b].ended
                                 /\ encoders'[b].at = IF b = n THEN a ELSE encoders[b].at
    BY <1>1, <2>1, <2>2, NextState
  <2> QED BY <1>1, <1>4, <2>3, <2>4 DEF n
<1>5. CASE StartThread
  <2>1. encoders' = [encoders EXCEPT ![n].at = "running"] /\ "running" \in CodecStates
    BY <1>5 DEF StartThread, CodecStates
  <2>2. UNCHANGED <<ring, queue, target, hand, over, lost, fault>>
        /\ service' = [service EXCEPT !.at = "recording"] /\ recorder' = [recorder EXCEPT ![n].at = "started"]
    BY <1>5 DEF StartThread, StartRecorder
  <2> HIDE DEF n
  <2>3. /\ encoders' \in [Broadcasts -> CodecType]
        /\ \A b \in Broadcasts : /\ encoders'[b].input = encoders[b].input
                                 /\ encoders'[b].ended = encoders[b].ended
                                 /\ encoders'[b].at = IF b = n THEN "running" ELSE encoders[b].at
    BY <1>1, <2>1, NextState
  <2> QED BY <1>1, <1>2, <1>3, <2>2, <2>3 DEF n
<1>6. CASE CodecFails
  <2>1. UNCHANGED <<ring, queue, hand, over, lost>>
        /\ service' = [service EXCEPT !.at = "recording"] /\ recorder' = [recorder EXCEPT ![n].at = "started"]
        /\ encoders[n].at \in {"new", "created"}
    BY <1>6 DEF CodecFails, StartRecorder
  <2>2. CASE encoders' = [encoders EXCEPT ![n].at = "failed"] /\ UNCHANGED <<target, fault>>
    <3>1. "failed" \in CodecStates
      BY DEF CodecStates
    <3> HIDE DEF n
    <3>2. /\ encoders' \in [Broadcasts -> CodecType]
          /\ \A b \in Broadcasts : /\ encoders'[b].input = encoders[b].input
                                   /\ encoders'[b].ended = encoders[b].ended
                                   /\ encoders'[b].at = IF b = n THEN "failed" ELSE encoders[b].at
      BY <1>1, <2>2, <3>1, NextState
    <3> QED BY <1>1, <1>2, <1>3, <2>1, <2>2, <3>2 DEF n
  <2>3. CASE target' = 0 /\ encoders' = encoders
             /\ fault' \in {fault} \cup (IF queue # <<>> /\ hand = Idle THEN {"codec"} ELSE {})
    BY <1>1, <1>2, <1>3, <2>1, <2>3
  <2> QED BY <1>6, <2>2, <2>3 DEF CodecFails
<1> QED BY <1>4, <1>5, <1>6 DEF Making

LEMMA ServiceTyped ==
  ASSUME CaptureTypes, Caller PROVE CaptureTypes'
<1>1. /\ service \in ServiceType
      /\ service.at # "idle" => service.now \in Broadcasts
      /\ encoders \in [Broadcasts -> CodecType] /\ recorder \in [Broadcasts -> RecorderType]
      /\ queue \in Seq(Message)
      /\ MaxBroadcasts \in Nat /\ MaxStops \in Nat
  BY AudioAssumption DEF CaptureTypes
<1>2. CASE Start
  <2>1. service' \in ServiceType
        /\ service'.now \in Broadcasts /\ target' \in 0..MaxBroadcasts
    <3>1. service.now \in 0..MaxBroadcasts /\ service.now < MaxBroadcasts
      BY <1>1, <1>2 DEF Start, ServiceType
    <3>2. service.now + 1 \in 1..MaxBroadcasts /\ service.now + 1 \in 0..MaxBroadcasts
      BY <1>1, <3>1
    <3>3. \A n \in 0..MaxBroadcasts, e \in BOOLEAN :
            /\ [service EXCEPT !.at = "made", !.now = n, !.early = e] \in ServiceType
            /\ [service EXCEPT !.at = "made", !.now = n, !.early = e].now = n
      BY <1>1 DEF ServiceType
    <3>4. /\ service' = [service EXCEPT !.at = "made", !.now = service.now + 1,
                          !.early = service.early \/ queue # <<>> \/ hand # Idle]
          /\ target' = service.now + 1
      BY <1>2 DEF Start
    <3>5. (service.early \/ queue # <<>> \/ hand # Idle) \in BOOLEAN
      BY <1>1 DEF ServiceType
    <3> QED BY <3>2, <3>3, <3>4, <3>5 DEF Broadcasts
  <2>2. encoders' \in [Broadcasts -> CodecType]
        /\ \A b \in Broadcasts : encoders'[b].input = encoders[b].input
    <3> DEFINE n == service.now + 1
    <3>1. encoders' = [encoders EXCEPT ![n].at = "new"] /\ "new" \in CodecStates
      BY <1>2 DEF Start, CodecStates
    <3>2. n \in Broadcasts
      BY <1>2, <2>1 DEF Start, ServiceType
    <3> HIDE DEF n
    <3> QED BY <3>1, <3>2, NextState
  <2> QED BY <1>2, <2>1, <2>2 DEF Start, CaptureTypes
<1>3. CASE Making
  <2>1. recorder' \in [Broadcasts -> RecorderType]
        /\ \A b \in Broadcasts : recorder'[b].posted = recorder[b].posted
                                 /\ (recorder'[b].at = "posting" => recorder[b].at = "posting")
    <3> DEFINE n == service.now
    <3>1. recorder' = recorder \/ recorder' = [recorder EXCEPT ![n] = [recorder[n] EXCEPT !.at = "started"]]
      BY <1>3, MakingStep
    <3>2. \A q \in RecorderType : /\ [q EXCEPT !.at = "started"] \in RecorderType
                                  /\ [q EXCEPT !.at = "started"].posted = q.posted
                                  /\ [q EXCEPT !.at = "started"].at = "started"
      BY DEF RecorderType
    <3> HIDE DEF n
    <3>3. CASE recorder' = recorder
      BY <1>1, <3>3
    <3>4. CASE recorder' = [recorder EXCEPT ![n] = [recorder[n] EXCEPT !.at = "started"]]
      <4> DEFINE q == [recorder[n] EXCEPT !.at = "started"]
      <4>1. n \in Broadcasts => q \in RecorderType /\ q.posted = recorder[n].posted /\ q.at = "started"
        BY <1>1, <3>2
      <4>2. recorder' = [recorder EXCEPT ![n] = q]
        BY <3>4
      <4> HIDE DEF q
      <4> QED BY <1>1, <4>1, <4>2
    <3> QED BY <3>1, <3>3, <3>4
  <2>2. target' \in 0..MaxBroadcasts /\ fault' \in {"none", "codec", "record"}
    BY <1>1, <1>3, MakingStep DEF CaptureTypes
  <2> QED BY <1>3, <2>1, <2>2, MakingStep DEF CaptureTypes
<1>4. CASE Stop
  <2>1. service' \in ServiceType
        /\ service'.now \in Broadcasts
    <3>1. service' = [service EXCEPT !.at = "ending", !.stops = service.stops + 1,
                        !.again = service.again \/ service.at = "stopped"]
          /\ service.stops < MaxStops /\ service.at \in {"recording", "stopped"}
      BY <1>4 DEF Stop
    <3>2. service.stops \in 0..MaxStops
      BY <1>1 DEF ServiceType
    <3>3. service.stops + 1 \in 0..MaxStops /\ (service.again \/ service.at = "stopped") \in BOOLEAN
      BY <1>1, <3>1, <3>2
    <3>4. \A n \in 0..MaxStops, a \in BOOLEAN :
            /\ [service EXCEPT !.at = "ending", !.stops = n, !.again = a] \in ServiceType
            /\ [service EXCEPT !.at = "ending", !.stops = n, !.again = a].now = service.now
      BY <1>1 DEF ServiceType
    <3>5. service.now \in Broadcasts
      BY <1>1, <3>1
    <3> QED BY <3>1, <3>3, <3>4, <3>5
  <2>2. recorder' \in [Broadcasts -> RecorderType]
        /\ \A b \in Broadcasts : recorder'[b].posted = recorder[b].posted
                                 /\ (recorder'[b].at = "posting" => recorder[b].at = "posting")
    <3> DEFINE n == service.now
    <3>1. \/ recorder' = recorder
          \/ recorder' = [recorder EXCEPT ![n] =
                           [recorder[n] EXCEPT !.stop = TRUE, !.record = "released"]]
      BY <1>1, <1>4 DEF Stop, StopAudioRecording
    <3>2. \A q \in RecorderType :
            /\ [q EXCEPT !.stop = TRUE, !.record = "released"] \in RecorderType
            /\ [q EXCEPT !.stop = TRUE, !.record = "released"].posted = q.posted
            /\ [q EXCEPT !.stop = TRUE, !.record = "released"].at = q.at
      BY DEF RecorderType
    <3> HIDE DEF n
    <3>3. CASE recorder' = recorder
      BY <1>1, <3>3
    <3>4. CASE recorder' = [recorder EXCEPT ![n] =
                             [recorder[n] EXCEPT !.stop = TRUE, !.record = "released"]]
      <4> DEFINE q == [recorder[n] EXCEPT !.stop = TRUE, !.record = "released"]
      <4>1. n \in Broadcasts => q \in RecorderType /\ q.posted = recorder[n].posted /\ q.at = recorder[n].at
        BY <1>1, <3>2
      <4>2. recorder' = [recorder EXCEPT ![n] = q]
        BY <3>4
      <4> HIDE DEF q
      <4> QED BY <1>1, <4>1, <4>2
    <3> QED BY <3>1, <3>3, <3>4
  <2> QED BY <1>4, <2>1, <2>2 DEF Stop, CaptureTypes
<1>5. CASE SendEnd
  <2>1. service' \in ServiceType
        /\ service'.now \in Broadcasts /\ service.now \in Broadcasts
    BY <1>1, <1>5 DEF SendEnd, ServiceType
  <2>2. queue' \in Seq(Message)
    BY <1>1, <1>5, <2>1, MessageFacts, PutLast DEF SendEnd
  <2> QED BY <1>5, <2>1, <2>2 DEF SendEnd, CaptureTypes
<1> QED BY <1>2, <1>3, <1>4, <1>5 DEF Caller, Making

LEMMA RecorderTyped ==
  ASSUME CaptureTypes, NEW b \in Broadcasts, Recorder(b) PROVE CaptureTypes'
<1>1. /\ recorder \in [Broadcasts -> RecorderType] /\ recorder[b] \in RecorderType
      /\ ring \in [Broadcasts -> [0..(Slots - 1) -> Nat]] /\ queue \in Seq(Message)
      /\ MaxSamples[b] \in Nat /\ recorder[b].posted \in 0..MaxSamples[b] /\ Slots \in Nat \ {0}
      /\ \A d \in Broadcasts : /\ recorder[d].posted <= MaxSamples[d]
                               /\ recorder[d].at = "posting" => recorder[d].posted < MaxSamples[d]
      /\ \A d \in Broadcasts : \A i \in 0..(Slots - 1) : ring[d][i] <= MaxSamples[d]
  <2>1. MaxSamples[b] \in Nat /\ Slots \in Nat \ {0}
    BY AudioAssumption DEF Broadcasts
  <2>2. recorder \in [Broadcasts -> RecorderType] /\ recorder[b] \in RecorderType
    BY DEF CaptureTypes
  <2>3. recorder[b].posted \in Nat /\ recorder[b].posted <= MaxSamples[b]
    BY <2>2 DEF CaptureTypes, RecorderType
  <2> QED BY <2>1, <2>2, <2>3 DEF CaptureTypes
<1>2. Slot(recorder[b].posted + 1) \in 0..(Slots - 1)
  <2>1. recorder[b].posted \in Int /\ (recorder[b].posted + 1) - 1 = recorder[b].posted
    BY <1>1
  <2> QED BY <1>1, <2>1, DivMod DEF Slot
<1> DEFINE i == Slot(recorder[b].posted + 1)
<1>3. CASE \E r : /\ r \in RecorderType /\ r.posted = recorder[b].posted
                  /\ BeginRead(b, r) /\ UNCHANGED <<service, queue, target, hand, encoders, over, lost, fault>>
  <2>1. PICK r \in RecorderType : /\ r.posted = recorder[b].posted /\ BeginRead(b, r)
                    /\ UNCHANGED <<service, queue, target, hand, encoders, over, lost, fault>>
    BY <1>3
  <2>2. recorder' \in [Broadcasts -> RecorderType]
        /\ \A d \in Broadcasts : recorder'[d].posted = recorder[d].posted
                                 /\ (recorder'[d].at = "posting" => recorder[d].at = "posting")
    BY <1>1, <2>1 DEF BeginRead, RecorderType
  <2>3. ring' = [ring EXCEPT ![b] = [ring[b] EXCEPT ![i] = 0]]
    BY <2>1 DEF BeginRead
  <2>4. i \in 0..(Slots - 1)
    BY <1>2
  <2> HIDE DEF i
  <2>5. [ring[b] EXCEPT ![i] = 0] \in [0..(Slots - 1) -> Nat]
        /\ \A j \in 0..(Slots - 1) : [ring[b] EXCEPT ![i] = 0][j] <= MaxSamples[b]
    BY <1>1, <2>4
  <2>6. /\ ring' \in [Broadcasts -> [0..(Slots - 1) -> Nat]]
        /\ \A d \in Broadcasts : \A j \in 0..(Slots - 1) : ring'[d][j] <= MaxSamples[d]
    BY <1>1, <2>3, <2>5
  <2> QED BY <2>1, <2>2, <2>6 DEF CaptureTypes, BeginRead
<1>4. CASE StartRecording(b)
  <2>1. [recorder[b] EXCEPT !.record = "recording"] \in RecorderType
        /\ [recorder[b] EXCEPT !.record = "recording"].posted = recorder[b].posted
    BY <1>1 DEF RecorderType
  <2> QED BY <1>3, <1>4, <2>1 DEF StartRecording
<1>5. CASE NextRead(b)
  <2>1. CASE recorder[b].record = "released"
    BY <1>5, <2>1 DEF NextRead, CaptureTypes
  <2>2. CASE recorder[b].record # "released"
    BY <1>1, <1>3, <1>5, <2>2 DEF NextRead
  <2> QED BY <2>1, <2>2
<1>6. CASE ReadReturns(b)
  <2> DEFINE n == recorder[b].posted + 1
  <2>1. recorder' \in [Broadcasts -> RecorderType]
        /\ \A d \in Broadcasts : /\ recorder'[d].posted = recorder[d].posted
                                 /\ d # b => recorder'[d] = recorder[d]
    BY <1>1, <1>6 DEF ReadReturns, RecorderType
  <2>2. ring' = [ring EXCEPT ![b] = [ring[b] EXCEPT ![i] = n]] /\ n \in Nat /\ n <= MaxSamples[b]
    BY <1>1, <1>6 DEF ReadReturns
  <2>3. recorder[b].posted < MaxSamples[b]
    BY <1>6 DEF ReadReturns
  <2> HIDE DEF i, n
  <2>4. /\ ring' \in [Broadcasts -> [0..(Slots - 1) -> Nat]]
        /\ \A d \in Broadcasts : \A j \in 0..(Slots - 1) : ring'[d][j] <= MaxSamples[d]
    BY <1>1, <1>2, <2>2
  <2>5. \A d \in Broadcasts : /\ recorder'[d].posted <= MaxSamples[d]
                              /\ recorder'[d].at = "posting" => recorder'[d].posted < MaxSamples[d]
    BY <1>1, <2>1, <2>3
  <2> QED BY <1>6, <2>1, <2>4, <2>5 DEF ReadReturns, CaptureTypes
<1>7. CASE ReadEnds(b)
  <2>1. recorder' \in [Broadcasts -> RecorderType]
        /\ \A d \in Broadcasts : recorder'[d].posted = recorder[d].posted
                                 /\ (recorder'[d].at = "posting" => recorder[d].at = "posting")
    BY <1>1, <1>7 DEF ReadEnds, RecorderType
  <2> QED BY <1>7, <2>1 DEF ReadEnds, CaptureTypes
<1>8. CASE PostSample(b)
  <2> DEFINE m == Audio(b, recorder[b].posted + 1)
  <2>1. recorder[b].posted + 1 \in 1..MaxSamples[b]
    BY <1>1, <1>8 DEF PostSample
  <2>2. m \in Message
    BY <2>1, MessageFacts
  <2>3. queue' = Append(queue, m)
    BY <1>8 DEF PostSample
  <2> HIDE DEF m
  <2>4. queue' \in Seq(Message)
    BY <1>1, <2>2, <2>3, PutLast
  <2>5. Stopped(b) \in BOOLEAN
    BY DEF Stopped
  <2>6. /\ recorder' \in [Broadcasts -> RecorderType]
        /\ \A d \in Broadcasts : d # b => recorder'[d] = recorder[d]
        /\ recorder'[b].posted = recorder[b].posted + 1 /\ recorder'[b].at # "posting"
    <3> DEFINE r == [recorder[b] EXCEPT
                       !.posted = recorder[b].posted + 1, !.late = recorder[b].late \/ Stopped(b),
                       !.at = IF recorder[b].stop THEN "done" ELSE "looping"]
    <3>1. recorder' = [recorder EXCEPT ![b] = r]
      BY <1>8 DEF PostSample
    <3>2. r \in RecorderType
      <4>1. recorder[b].posted + 1 \in Nat /\ (recorder[b].late \/ Stopped(b)) \in BOOLEAN
        BY <1>1, <2>1
      <4> QED BY <1>1, <4>1 DEF RecorderType
    <3>3. r.posted = recorder[b].posted + 1 /\ r.at # "posting"
      BY <1>1 DEF RecorderType
    <3> HIDE DEF r
    <3> QED BY <1>1, <3>1, <3>2, <3>3
  <2>7. \A d \in Broadcasts : /\ recorder'[d].posted <= MaxSamples[d]
                              /\ recorder'[d].at = "posting" => recorder'[d].posted < MaxSamples[d]
    <3> SUFFICES ASSUME NEW d \in Broadcasts
                 PROVE  /\ recorder'[d].posted <= MaxSamples[d]
                        /\ recorder'[d].at = "posting" => recorder'[d].posted < MaxSamples[d]
      OBVIOUS
    <3>1. CASE d = b
      BY <1>1, <2>1, <2>6, <3>1
    <3>2. CASE d # b
      BY <1>1, <2>6, <3>2
    <3> QED BY <3>1, <3>2
  <2> QED BY <1>8, <2>4, <2>6, <2>7 DEF PostSample, CaptureTypes
<1> QED BY <1>4, <1>5, <1>6, <1>7, <1>8 DEF Recorder

\* One codec gets an input, or goes on.
LEMMA CodecTyped ==
  ASSUME CaptureTypes, NEW e \in Broadcasts, NEW c \in CodecType, Len(c.input) <= InputBuffers,
         encoders' = [encoders EXCEPT ![e] = c]
  PROVE  encoders' \in [Broadcasts -> CodecType] /\ \A b \in Broadcasts : Len(encoders'[b].input) <= InputBuffers
BY DEF CaptureTypes

LEMMA HandlerTyped ==
  ASSUME CaptureTypes, Handler PROVE CaptureTypes'
<1>1. /\ queue \in Seq(Message) /\ target \in 0..MaxBroadcasts
      /\ hand \in [msg : Message, to : 0..MaxBroadcasts] /\ (hand # Idle => hand.to \in Broadcasts)
      /\ encoders \in [Broadcasts -> CodecType]
      /\ \A b \in Broadcasts : Len(encoders[b].input) <= InputBuffers
      /\ over \in [Broadcasts -> SUBSET Broadcasts] /\ lost \subseteq Broadcasts
  BY DEF CaptureTypes
<1>2. CASE Take
  <2>1. Head(queue) \in Message /\ Tail(queue) \in Seq(Message)
    BY <1>1, <1>2, TakeFirst DEF Take
  <2>2. hand' \in [msg : Message, to : 0..MaxBroadcasts] /\ (hand' # Idle => hand'.to \in Broadcasts)
    BY <1>1, <1>2, <2>1 DEF Take, Heard
  <2>3. lost' \subseteq Broadcasts
    BY <1>1, <1>2, <2>1, MessageFacts DEF Take
  <2> QED BY <1>2, <2>1, <2>2, <2>3 DEF Take, CaptureTypes
<1>3. CASE MisuseCodec
  BY <1>3 DEF MisuseCodec, CaptureTypes
<1>4. CASE EncodeAudio
  <2> DEFINE e == hand.to
             c == [encoders[e] EXCEPT !.input = Append(encoders[e].input, hand.msg)]
  <2>1. e \in Broadcasts /\ hand.msg \in Message /\ encoders[e] \in CodecType
    BY <1>1, <1>4 DEF EncodeAudio
  <2>2. c \in CodecType /\ Len(c.input) = Len(encoders[e].input) + 1
    <3>1. encoders[e].input \in Seq(Message)
      BY <2>1 DEF CodecType
    <3>2. /\ Append(encoders[e].input, hand.msg) \in Seq(Message)
          /\ Len(Append(encoders[e].input, hand.msg)) = Len(encoders[e].input) + 1
      BY <2>1, <3>1, PutLast
    <3>3. c \in CodecType /\ c.input = Append(encoders[e].input, hand.msg)
      BY <2>1, <3>2 DEF CodecType
    <3> QED BY <3>2, <3>3
  <2>3. Len(c.input) <= InputBuffers
    <3>1. Len(encoders[e].input) < InputBuffers /\ Len(encoders[e].input) \in Nat /\ InputBuffers \in Nat
      BY <1>4, <2>1, AudioAssumption DEF EncodeAudio, Free, CodecType
    <3> QED BY <2>2, <3>1
  <2>4. encoders' = encoders \/ encoders' = [encoders EXCEPT ![e] = c]
    BY <1>4 DEF EncodeAudio
  <2> HIDE DEF e, c
  <2>5. encoders' \in [Broadcasts -> CodecType] /\ \A b \in Broadcasts : Len(encoders'[b].input) <= InputBuffers
    BY <1>1, <2>1, <2>2, <2>3, <2>4, CodecTyped
  <2>6. hand' \in [msg : Message, to : 0..MaxBroadcasts] /\ hand' = Idle
    BY <1>4, MessageFacts DEF EncodeAudio
  <2> QED BY <1>4, <2>5, <2>6 DEF EncodeAudio, CaptureTypes
<1>5. CASE DropAudio
  <2>1. hand' \in [msg : Message, to : 0..MaxBroadcasts] /\ hand' = Idle
    BY <1>5, MessageFacts DEF DropAudio
  <2> QED BY <1>5, <2>1 DEF DropAudio, CaptureTypes
<1>6. CASE StopEncoding
  <2> DEFINE e == hand.to
             c == [encoders[e] EXCEPT !.input = Append(encoders[e].input, hand.msg), !.ended = TRUE]
  <2>1. e \in Broadcasts /\ hand.msg \in Message /\ encoders[e] \in CodecType
    BY <1>1, <1>6 DEF StopEncoding
  <2>2. c \in CodecType /\ Len(c.input) = Len(encoders[e].input) + 1
    <3>1. encoders[e].input \in Seq(Message)
      BY <2>1 DEF CodecType
    <3>2. /\ Append(encoders[e].input, hand.msg) \in Seq(Message)
          /\ Len(Append(encoders[e].input, hand.msg)) = Len(encoders[e].input) + 1
      BY <2>1, <3>1, PutLast
    <3>3. c \in CodecType /\ c.input = Append(encoders[e].input, hand.msg)
      BY <2>1, <3>2 DEF CodecType
    <3> QED BY <3>2, <3>3
  <2>3. Free(e) => Len(c.input) <= InputBuffers
    <3>1. Len(encoders[e].input) \in Nat /\ InputBuffers \in Nat
      BY <2>1, AudioAssumption DEF CodecType
    <3> QED BY <2>2, <3>1 DEF Free
  <2>4. encoders' = encoders \/ (Free(e) /\ encoders' = [encoders EXCEPT ![e] = c])
    <3> DEFINE d == [encoders EXCEPT ![e].input = Append(@, hand.msg), ![e].ended = TRUE]
    <3>1. \/ encoders' = encoders
          \/ Free(e) /\ encoders' = IF encoders[e].ended THEN encoders ELSE d
      BY <1>6 DEF StopEncoding
    <3>2. d = [encoders EXCEPT ![e] = c]
      BY <1>1, <2>1
    <3> HIDE DEF d
    <3>3. CASE encoders' = encoders
      BY <3>3
    <3>4. CASE Free(e) /\ encoders' = IF encoders[e].ended THEN encoders ELSE d
      <4>1. CASE encoders[e].ended
        BY <3>4, <4>1
      <4>2. CASE ~encoders[e].ended
        <5>1. encoders' = [encoders EXCEPT ![e] = c]
          BY <3>2, <3>4, <4>2
        <5> QED BY <3>4, <5>1
      <4> QED BY <4>1, <4>2
    <3> QED BY <3>1, <3>3, <3>4
  <2> HIDE DEF e, c
  <2>5. encoders' \in [Broadcasts -> CodecType] /\ \A b \in Broadcasts : Len(encoders'[b].input) <= InputBuffers
    BY <1>1, <2>1, <2>2, <2>3, <2>4, CodecTyped
  <2>6. hand' \in [msg : Message, to : 0..MaxBroadcasts] /\ hand' = Idle
    BY <1>6, MessageFacts DEF StopEncoding
  <2>7. queue' \in Seq(Message)
    BY <1>1, <1>6, RestInOrder DEF StopEncoding
  <2>8. over' \in [Broadcasts -> SUBSET Broadcasts]
    <3>1. \A s \in SUBSET Broadcasts : [over EXCEPT ![hand.to] = @ \cup s] \in [Broadcasts -> SUBSET Broadcasts]
      BY <1>1, <2>1 DEF e
    <3>2. {r \in Broadcasts : recorder[r].at = "done"} \in SUBSET Broadcasts
      OBVIOUS
    <3>3. over' = over \/ over' = [over EXCEPT ![hand.to] = @ \cup {r \in Broadcasts : recorder[r].at = "done"}]
      BY <1>6 DEF StopEncoding
    <3> QED BY <1>1, <3>1, <3>2, <3>3
  <2>9. lost' \subseteq Broadcasts
    BY <1>1, <1>6, <2>1, MessageFacts DEF StopEncoding
  <2> QED BY <1>6, <2>5, <2>6, <2>7, <2>8, <2>9 DEF StopEncoding, CaptureTypes
<1>7. CASE ReadAgain
  <2>1. hand.msg \in Message /\ hand.msg.from \in Broadcasts
    BY <1>1, MessageFacts
  <2>2. queue' \in Seq(Message)
    BY <1>1, <1>7, RestInOrder DEF ReadAgain
  <2>3. hand' \in [msg : Message, to : 0..MaxBroadcasts] /\ (hand' # Idle => hand'.to \in Broadcasts)
    <3>1. target # 0 => target \in Broadcasts
      BY <1>1, AudioAssumption DEF Broadcasts
    <3>2. hand' = hand \/ hand' = Idle \/ (target # 0 /\ hand' = [hand EXCEPT !.to = target])
      BY <1>7 DEF ReadAgain
    <3>3. [hand EXCEPT !.to = target] \in [msg : Message, to : 0..MaxBroadcasts]
          /\ [hand EXCEPT !.to = target].to = target
      BY <1>1
    <3> QED BY <1>1, <3>1, <3>2, <3>3, MessageFacts
  <2>4. lost' \subseteq Broadcasts /\ fault' \in {"none", "codec", "record"}
    BY <1>1, <1>7, <2>1 DEF ReadAgain, CaptureTypes
  <2> QED BY <1>7, <2>2, <2>3, <2>4 DEF ReadAgain, CaptureTypes
<1> QED BY <1>2, <1>3, <1>4, <1>5, <1>6, <1>7 DEF Handler

LEMMA EncoderTyped ==
  ASSUME CaptureTypes, NEW b \in Broadcasts, Encoder(b) PROVE CaptureTypes'
<1>1. encoders \in [Broadcasts -> CodecType] /\ encoders[b] \in CodecType /\ InputBuffers \in Nat
      /\ Len(encoders[b].input) <= InputBuffers
  BY AudioAssumption DEF CaptureTypes
<1>2. PICK c \in CodecType : encoders' = [encoders EXCEPT ![b] = c] /\ Len(c.input) <= InputBuffers
  <2>1. CASE DequeueOutput(b)
    <3> DEFINE c == [encoders[b] EXCEPT !.input = Tail(encoders[b].input),
                        !.at = IF Head(encoders[b].input).what = "end" THEN "writingEnd" ELSE "writing"]
    <3>1. Tail(encoders[b].input) \in Seq(Message) /\ Len(Tail(encoders[b].input)) <= InputBuffers
      <4>1. encoders[b].input \in Seq(Message) /\ encoders[b].input # <<>>
        BY <1>1, <2>1 DEF DequeueOutput, CodecType
      <4>2. Len(encoders[b].input) \in Nat /\ Len(Tail(encoders[b].input)) = Len(encoders[b].input) - 1
            /\ Tail(encoders[b].input) \in Seq(Message)
        BY <4>1, TakeFirst
      <4> QED BY <1>1, <4>2
    <3>2. c \in CodecType /\ c.input = Tail(encoders[b].input)
      BY <1>1, <3>1 DEF CodecType, CodecStates
    <3>3. encoders' = [encoders EXCEPT ![b] = c]
      BY <2>1 DEF DequeueOutput
    <3> QED BY <3>1, <3>2, <3>3
  <2>2. CASE Written(b)
    <3> DEFINE c == [encoders[b] EXCEPT !.at = IF encoders[b].at = "writing" THEN "running" ELSE "ending"]
    <3>1. c \in CodecType /\ c.input = encoders[b].input
      BY <1>1 DEF CodecType, CodecStates
    <3>2. encoders' = [encoders EXCEPT ![b] = c]
      BY <2>2 DEF Written
    <3> QED BY <1>1, <3>1, <3>2
  <2>3. CASE Release(b) \/ Exit(b)
    <3>1. \A at \in {"released", "done"} : [encoders[b] EXCEPT !.at = at] \in CodecType
            /\ [encoders[b] EXCEPT !.at = at].input = encoders[b].input
      BY <1>1 DEF CodecType, CodecStates
    <3>2. \E at \in {"released", "done"} : encoders' = [encoders EXCEPT ![b] = [encoders[b] EXCEPT !.at = at]]
      BY <2>3 DEF Release, Exit
    <3> QED BY <1>1, <3>1, <3>2
  <2> QED BY <2>1, <2>2, <2>3 DEF Encoder
<1>3. encoders' \in [Broadcasts -> CodecType] /\ \A d \in Broadcasts : Len(encoders'[d].input) <= InputBuffers
  BY <1>2, CodecTyped
<1>4. UNCHANGED <<service, recorder, ring, queue, target, hand, over, lost, fault>>
  BY DEF Encoder, DequeueOutput, Written, Release, Exit
<1> QED BY <1>3, <1>4 DEF CaptureTypes

LEMMA CaptureTypesKept ==
  ASSUME CaptureTypes, [CaptureNext]_captureVars PROVE CaptureTypes'
<1>1. CASE UNCHANGED captureVars
  BY <1>1 DEF captureVars, CaptureTypes
<1> QED BY <1>1, ServiceTyped, HandlerTyped, RecorderTyped, EncoderTyped DEF CaptureNext

\* Every variable of the sound's threads keeps its type, for any number of broadcasts,
\* samples, arrays of the ring and input buffers.
THEOREM CaptureTypeCorrect == CaptureSpec => []CaptureTyped
<1>1. CaptureTypes => CaptureTyped
  <2> SUFFICES ASSUME CaptureTypes PROVE CaptureTyped
    OBVIOUS
  <2>1. \A b \in Broadcasts :
          /\ recorder[b] \in
            [at : {"none", "started", "reading", "posting", "looping", "done"},
             record : {"null", "recording", "released"}, stop : BOOLEAN,
             posted : 0..MaxSamples[b], late : BOOLEAN]
          /\ ring[b] \in [0..(Slots - 1) -> 0..MaxSamples[b]]
    <3> SUFFICES ASSUME NEW b \in Broadcasts
                 PROVE  /\ recorder[b] \in
                             [at : {"none", "started", "reading", "posting", "looping", "done"},
                              record : {"null", "recording", "released"}, stop : BOOLEAN,
                              posted : 0..MaxSamples[b], late : BOOLEAN]
                        /\ ring[b] \in [0..(Slots - 1) -> 0..MaxSamples[b]]
      OBVIOUS
    <3>1. MaxSamples[b] \in Nat /\ recorder[b] \in RecorderType /\ recorder[b].posted <= MaxSamples[b]
          /\ ring[b] \in [0..(Slots - 1) -> Nat] /\ \A i \in 0..(Slots - 1) : ring[b][i] <= MaxSamples[b]
      BY AudioAssumption DEF CaptureTypes, Broadcasts
    <3>2. recorder[b].posted \in 0..MaxSamples[b]
      BY <3>1 DEF RecorderType
    <3>3. ASSUME NEW i \in 0..(Slots - 1) PROVE ring[b][i] \in 0..MaxSamples[b]
      <4>1. ring[b][i] \in Nat /\ ring[b][i] <= MaxSamples[b]
        BY <3>1
      <4> QED BY <3>1, <4>1
    <3>4. ring[b] \in [0..(Slots - 1) -> 0..MaxSamples[b]]
      BY <3>1, <3>3
    <3> QED BY <3>1, <3>2, <3>4 DEF RecorderType
  <2>2. \A b \in Broadcasts :
       /\ encoders[b].at \in CodecStates
       /\ Len(encoders[b].input) <= InputBuffers /\ encoders[b].ended \in BOOLEAN
    BY DEF CaptureTypes, CodecType
  <2>3. hand.msg \in Message /\ hand.to \in 0..MaxBroadcasts
    BY DEF CaptureTypes
  <2>4. \A k \in DOMAIN queue : queue[k] \in Message
    BY DEF CaptureTypes
  <2> QED BY <2>1, <2>2, <2>3, <2>4 DEF CaptureTypes, CaptureTyped, ServiceType, CodecStates
<1> QED BY <1>1, StartTyped, CaptureTypesKept, PTL DEF CaptureSpec

LEMMA UnderWayIs ==
  ASSUME CaptureTypes
  PROVE  /\ \A m : m \in UnderWay <=> (\E k \in DOMAIN queue : m = queue[k]) \/ (hand # Idle /\ m = hand.msg)
         /\ UnderWay \subseteq Message
<1>1. queue \in Seq(Message) /\ hand.msg \in Message
  BY DEF CaptureTypes
<1>2. ToSet(queue) \subseteq Message /\ \A m : m \in ToSet(queue) <=> \E k \in DOMAIN queue : m = queue[k]
  BY <1>1, Waits
<1>3. CASE hand = Idle
  BY <1>2, <1>3 DEF UnderWay
<1>4. CASE hand # Idle
  BY <1>1, <1>2, <1>4 DEF UnderWay
<1> QED BY <1>3, <1>4

LEMMA UnderWayWillBe ==
  ASSUME CaptureTypes'
  PROVE  \A m : m \in UnderWay' <=> (\E k \in DOMAIN queue' : m = queue'[k]) \/ (hand' # Idle /\ m = hand'.msg)
<1>1. queue' \in Seq(Message)
  BY DEF CaptureTypes
<1>2. \A m : m \in ToSet(queue') <=> \E k \in DOMAIN queue' : m = queue'[k]
  BY <1>1, Waits
<1>3. CASE hand' = Idle
  BY <1>2, <1>3 DEF UnderWay
<1>4. CASE hand' # Idle
  BY <1>2, <1>4 DEF UnderWay
<1> QED BY <1>3, <1>4

\* The handler's thread adds nothing, and leaves no sample behind an end.
LEMMA HandlerTakes ==
  ASSUME CaptureTypes, Handler
  PROVE  /\ UnderWay' \subseteq UnderWay /\ UNCHANGED <<service, recorder, ring, target>>
         /\ StopEncoding => \A m \in UnderWay' : m.what = "end"
<1>0. queue \in Seq(Message)
  BY DEF CaptureTypes
<1>1. CaptureTypes'
  BY HandlerTyped
<1>2. UNCHANGED <<service, recorder, ring, target>>
  BY DEF Handler, Take, MisuseCodec, EncodeAudio, DropAudio, StopEncoding, ReadAgain
<1>3. CASE Take
  <2>1. queue # <<>> /\ queue' = Tail(queue) /\ hand = Idle
        /\ (hand' = hand \/ hand' = [msg |-> Head(queue), to |-> target])
    BY <1>3 DEF Take
  <2>2. /\ 1 \in DOMAIN queue /\ Head(queue) = queue[1]
        /\ \A k \in DOMAIN Tail(queue) : k + 1 \in DOMAIN queue /\ Tail(queue)[k] = queue[k + 1]
    BY <1>0, <2>1, TakeFirst
  <2>3. ASSUME NEW m \in UnderWay' PROVE m \in UnderWay
    <3>1. CASE \E k \in DOMAIN queue' : m = queue'[k]
      BY <2>1, <2>2, <3>1, UnderWayIs
    <3>2. CASE hand' # Idle /\ m = hand'.msg
      <4>1. m = Head(queue)
        BY <2>1, <3>2
      <4> QED BY <2>2, <4>1, UnderWayIs
    <3> QED BY <1>1, <3>1, <3>2, UnderWayWillBe
  <2>4. ~StopEncoding
    BY <2>1 DEF StopEncoding
  <2> QED BY <1>2, <2>3, <2>4
<1>4. CASE MisuseCodec
  <2>1. UNCHANGED <<queue, hand>> /\ fault' = "codec"
    BY <1>4 DEF MisuseCodec
  <2>2. UnderWay' = UnderWay
    BY <2>1 DEF UnderWay
  <2>3. ~StopEncoding
    <3>1. encoders[hand.to].at \in {"created", "failed", "released", "done"}
      BY <1>4 DEF MisuseCodec
    <3> QED BY <3>1 DEF StopEncoding, Usable
  <2> QED BY <1>2, <2>2, <2>3
<1>5. CASE EncodeAudio \/ DropAudio
  <2>1. queue' = queue /\ hand' = Idle /\ hand.msg.what = "audio"
    BY <1>5 DEF EncodeAudio, DropAudio
  <2>2. ASSUME NEW m \in UnderWay' PROVE m \in UnderWay
    BY <1>1, <2>1, UnderWayIs, UnderWayWillBe
  <2>3. ~StopEncoding
    BY <2>1 DEF StopEncoding
  <2> QED BY <1>2, <2>2, <2>3
<1>6. CASE StopEncoding
  <2>1. queue' \in RemoveAudio(queue) /\ hand' = Idle
    BY <1>6 DEF StopEncoding
  <2>2. \A i \in DOMAIN queue' : queue'[i].what = "end" /\ \E k \in DOMAIN queue : queue'[i] = queue[k]
    BY <1>0, <2>1, RestInOrder
  <2>3. ASSUME NEW m \in UnderWay' PROVE m \in UnderWay /\ m.what = "end"
    <3>1. PICK i \in DOMAIN queue' : m = queue'[i]
      BY <1>1, <2>1, UnderWayWillBe
    <3>2. m.what = "end" /\ \E k \in DOMAIN queue : m = queue[k]
      BY <2>2, <3>1
    <3> QED BY <3>2, UnderWayIs
  <2> QED BY <1>2, <2>3
<1>7. CASE ReadAgain
  <2>1. CASE queue' = queue /\ hand' = hand
    <3>1. UnderWay' = UnderWay
      BY <2>1 DEF UnderWay
    <3>2. StopEncoding => FALSE
      BY <1>7, <2>1 DEF ReadAgain, StopEncoding
    <3> QED BY <1>2, <3>1, <3>2
  <2>2. CASE queue' = queue /\ hand' = [hand EXCEPT !.to = target] /\ hand # Idle
    <3>1. hand'.msg = hand.msg
      BY <2>2 DEF CaptureTypes
    <3>2. ASSUME NEW m \in UnderWay' PROVE m \in UnderWay
      BY <1>1, <2>2, <3>1, UnderWayIs, UnderWayWillBe
    <3>3. hand' # Idle
      <4>1. hand \in [msg : Message, to : 0..MaxBroadcasts] /\ target \in 0..MaxBroadcasts
        BY DEF CaptureTypes
      <4>2. target # 0 /\ hand'.to = target
        BY <1>7, <2>2, <4>1, MessageFacts DEF ReadAgain
      <4> QED BY <4>2, MessageFacts
    <3>4. ~StopEncoding
      BY <3>3 DEF StopEncoding
    <3> QED BY <1>2, <3>2, <3>4
  <2>3. CASE queue' \in RemoveAudio(queue) /\ hand' = Idle
    <3>1. \A i \in DOMAIN queue' : queue'[i].what = "end" /\ \E k \in DOMAIN queue : queue'[i] = queue[k]
      BY <1>0, <2>3, RestInOrder
    <3>2. ASSUME NEW m \in UnderWay' PROVE m \in UnderWay /\ m.what = "end"
      <4>1. PICK i \in DOMAIN queue' : m = queue'[i]
        BY <1>1, <2>3, UnderWayWillBe
      <4>2. m.what = "end" /\ \E k \in DOMAIN queue : m = queue[k]
        BY <3>1, <4>1
      <4> QED BY <4>2, UnderWayIs
    <3> QED BY <1>2, <3>2
  <2> QED BY <1>7, <2>1, <2>2, <2>3 DEF ReadAgain
<1> QED BY <1>3, <1>4, <1>5, <1>6, <1>7 DEF Handler

\* What is put into the queue is behind what is under way.
LEMMA PutUnderWay ==
  ASSUME CaptureTypes, NEW m \in Message, queue' = Append(queue, m), hand' = hand
  PROVE  UnderWay' = UnderWay \cup {m}
<1>1. queue \in Seq(Message)
  BY DEF CaptureTypes
<1>2. /\ DOMAIN queue = 1..Len(queue) /\ Len(queue) \in Nat
      /\ DOMAIN queue' = 1..(Len(queue) + 1)
      /\ \A k \in DOMAIN queue : queue'[k] = queue[k]
      /\ queue'[Len(queue) + 1] = m
  BY <1>1, PutLast
<1>3. \A d : d \in ToSet(queue') <=> d \in ToSet(queue) \/ d = m
  <2>1. \A d : d \in ToSet(queue) <=> \E k \in DOMAIN queue : d = queue[k]
    BY <1>1, Waits
  <2>2. \A d : d \in ToSet(queue') <=> \E k \in DOMAIN queue' : d = queue'[k]
    <3>1. queue' \in Seq(Message)
      BY <1>1, PutLast
    <3> QED BY <3>1, Waits
  <2>3. ASSUME NEW d, d \in ToSet(queue') PROVE d \in ToSet(queue) \/ d = m
    <3>1. PICK k \in DOMAIN queue' : d = queue'[k]
      BY <2>2, <2>3
    <3>2. k \in DOMAIN queue \/ k = Len(queue) + 1
      BY <1>2
    <3> QED BY <1>2, <2>1, <3>1, <3>2
  <2>4. ASSUME NEW d, d \in ToSet(queue) \/ d = m PROVE d \in ToSet(queue')
    <3>1. \A k \in DOMAIN queue : k \in DOMAIN queue'
      BY <1>2
    <3>2. Len(queue) + 1 \in DOMAIN queue'
      BY <1>2
    <3> QED BY <1>2, <2>1, <2>2, <2>4, <3>1, <3>2
  <2> QED BY <2>3, <2>4
<1> QED BY <1>3 DEF UnderWay

\* So for the callers of the service: only SendEnd adds, and it adds its end.
LEMMA CallerPuts ==
  ASSUME CaptureTypes, Caller
  PROVE  /\ UNCHANGED <<ring, hand, over, lost>>
         /\ \/ UnderWay' = UnderWay /\ queue' = queue
            \/ SendEnd /\ UnderWay' = UnderWay \cup {End(service.now)}
               /\ queue' = Append(queue, End(service.now))
<1>1. UNCHANGED <<ring, hand, over, lost>>
  BY MakingStep DEF Caller, Start, Making, Stop, SendEnd
<1>2. CASE Start \/ Making \/ Stop
  <2>1. queue' = queue
    BY <1>2, MakingStep DEF Start, Stop
  <2>2. UnderWay' = UnderWay
    BY <1>1, <2>1 DEF UnderWay
  <2> QED BY <1>1, <2>1, <2>2
<1>3. CASE SendEnd
  <2>1. End(service.now) \in Message /\ queue' = Append(queue, End(service.now))
    BY <1>3, MessageFacts DEF SendEnd, CaptureTypes
  <2> QED BY <1>1, <1>3, <2>1, PutUnderWay
<1> QED BY <1>2, <1>3 DEF Caller, Making

\* The ring and what was posted stay as they are.
LEMMA RingsStay ==
  ASSUME Rings, ring' = ring,
         \A b \in Broadcasts : /\ recorder'[b].posted = recorder[b].posted
                               /\ recorder'[b].at = "posting" => recorder[b].at = "posting",
         \A m \in UnderWay' : m.what = "audio" => m \in UnderWay /\ m.from \in Broadcasts
  PROVE  Rings'
<1>1. ASSUME NEW b \in Broadcasts PROVE Recorded(b)'
  BY <1>1 DEF Rings, Recorded
<1>2. \A m \in UnderWay' : m.what = "audio" => m.n <= recorder'[m.from].posted
  BY DEF Rings
<1> QED BY <1>1, <1>2 DEF Rings

LEMMA RecorderRings ==
  ASSUME CaptureTypes, Rings, NEW b \in Broadcasts, Recorder(b) PROVE Rings'
<1> DEFINE p == recorder[b].posted
           i == Slot(p + 1)
<1>0. CaptureTypes'
  BY RecorderTyped
<1>1. /\ recorder \in [Broadcasts -> RecorderType] /\ p \in Nat /\ Slots \in Nat \ {0}
      /\ ring \in [Broadcasts -> [0..(Slots - 1) -> Nat]]
  BY AudioAssumption DEF CaptureTypes, RecorderType
<1>2. i \in 0..(Slots - 1)
  <2>1. p \in Int /\ (p + 1) - 1 = p
    BY <1>1
  <2> QED BY <1>1, <2>1, DivMod DEF Slot
<1>3. \A m \in UnderWay : m.from \in Broadcasts /\ (m.what = "audio" => m.n \in Nat)
  BY UnderWayIs, MessageFacts
<1>4. \A m \in UnderWay : m.what = "audio" => m.n <= recorder[m.from].posted
  BY DEF Rings
\* The array about to be used holds none of the last samples.
<1>5. \A n \in 1..p : p - n < Slots - 1 => Slot(n) # i /\ Slot(n) \in 0..(Slots - 1)
  <2> SUFFICES ASSUME NEW n \in 1..p, p - n < Slots - 1
               PROVE  Slot(n) # i /\ Slot(n) \in 0..(Slots - 1)
    OBVIOUS
  <2>1. n \in Nat \ {0} /\ p + 1 \in Nat \ {0} /\ n <= p
    <3> HIDE DEF p
    <3> QED BY <1>1
  <2>2. n # p + 1 /\ n - (p + 1) < Slots /\ (p + 1) - n < Slots
    <3> HIDE DEF p
    <3> QED BY <1>1, <2>1
  <2> QED BY <1>1, <2>1, <2>2, SlotsDiffer
<1>6. Recorded(b) /\ \A n \in 1..p : p - n < Slots - 1 => ring[b][Slot(n)] = n
  BY DEF Rings, Recorded
<1>7. CASE UNCHANGED <<queue, hand>> /\ recorder'[b].posted = p /\ recorder'[b].at # "posting"
           /\ (\A d \in Broadcasts : d # b => recorder'[d] = recorder[d] /\ ring'[d] = ring[d])
           /\ (ring' = ring \/ ring'[b] = [ring[b] EXCEPT ![i] = 0])
  <2>1. UnderWay' = UnderWay
    BY <1>7 DEF UnderWay
  <2>2. \A m \in UnderWay : m.what = "audio" => m.n <= recorder'[m.from].posted
    BY <1>3, <1>4, <1>7
  <2>3. \A d \in Broadcasts : d # b => Recorded(d)'
    BY <1>7 DEF Rings, Recorded
  <2>4. \A n \in 1..p : p - n < Slots - 1 => ring'[b][Slot(n)] = n
    <3> SUFFICES ASSUME NEW n \in 1..p, p - n < Slots - 1 PROVE ring'[b][Slot(n)] = n
      OBVIOUS
    <3>1. Slot(n) # i /\ Slot(n) \in 0..(Slots - 1) /\ ring[b][Slot(n)] = n
      BY <1>5, <1>6
    <3> HIDE DEF i
    <3> QED BY <1>1, <1>7, <3>1
  <2>5. Recorded(b)'
    BY <1>7, <2>4 DEF Recorded
  <2> QED BY <2>1, <2>2, <2>3, <2>5 DEF Rings
<1>8. CASE StartRecording(b) \/ (NextRead(b) /\ recorder[b].record # "released")
  <2>1. PICK r : BeginRead(b, r) /\ r \in RecorderType /\ r.posted = p /\ UNCHANGED <<queue, hand>>
    <3>1. CASE StartRecording(b)
      <4>1. [recorder[b] EXCEPT !.record = "recording"] \in RecorderType
            /\ [recorder[b] EXCEPT !.record = "recording"].posted = p
        BY <1>1 DEF RecorderType
      <4> QED BY <3>1, <4>1 DEF StartRecording
    <3>2. CASE NextRead(b) /\ recorder[b].record # "released"
      BY <1>1, <3>2 DEF NextRead
    <3> QED BY <1>8, <3>1, <3>2
  <2>2. recorder' = [recorder EXCEPT ![b] = [r EXCEPT !.at = "reading"]]
        /\ ring' = [ring EXCEPT ![b] = [ring[b] EXCEPT ![i] = 0]]
    BY <2>1 DEF BeginRead
  <2>3. [r EXCEPT !.at = "reading"].posted = p /\ [r EXCEPT !.at = "reading"].at = "reading"
    BY <2>1 DEF RecorderType
  <2>4. /\ recorder'[b].posted = p /\ recorder'[b].at = "reading"
        /\ \A d \in Broadcasts : d # b => recorder'[d] = recorder[d] /\ ring'[d] = ring[d]
        /\ ring'[b] = [ring[b] EXCEPT ![i] = 0]
    <3> HIDE DEF i, p
    <3> QED BY <1>1, <2>2, <2>3
  <2> QED BY <1>7, <2>1, <2>4
<1>9. CASE NextRead(b) /\ recorder[b].record = "released"
  <2>1. UNCHANGED <<recorder, ring, queue, hand>>
    BY <1>9 DEF NextRead
  <2>2. UnderWay' = UnderWay
    BY <2>1 DEF UnderWay
  <2> QED BY <1>3, <2>1, <2>2, RingsStay
<1>10. CASE ReadEnds(b)
  <2>1. recorder' = [recorder EXCEPT ![b] = [recorder[b] EXCEPT !.at = "done"]]
        /\ UNCHANGED <<ring, queue, hand>>
    BY <1>10 DEF ReadEnds
  <2>2. [recorder[b] EXCEPT !.at = "done"].posted = p /\ [recorder[b] EXCEPT !.at = "done"].at = "done"
    BY <1>1 DEF RecorderType
  <2>3. /\ recorder'[b].posted = p /\ recorder'[b].at = "done"
        /\ \A d \in Broadcasts : d # b => recorder'[d] = recorder[d] /\ ring'[d] = ring[d]
    <3> HIDE DEF p
    <3> QED BY <1>1, <2>1, <2>2
  <2> QED BY <1>7, <2>1, <2>3
<1>11. CASE ReadReturns(b)
  <2>1. recorder' = [recorder EXCEPT ![b] = [recorder[b] EXCEPT !.at = "posting"]]
        /\ ring' = [ring EXCEPT ![b] = [ring[b] EXCEPT ![i] = p + 1]] /\ UNCHANGED <<queue, hand>>
    BY <1>11 DEF ReadReturns
  <2>2. [recorder[b] EXCEPT !.at = "posting"].posted = p
    BY <1>1 DEF RecorderType
  <2>3. /\ recorder'[b].posted = p
        /\ \A d \in Broadcasts : d # b => recorder'[d] = recorder[d] /\ ring'[d] = ring[d]
        /\ ring'[b] = [ring[b] EXCEPT ![i] = p + 1]
    <3> HIDE DEF i, p
    <3> QED BY <1>1, <2>1, <2>2
  <2>4. UnderWay' = UnderWay
    BY <2>1 DEF UnderWay
  <2>5. \A m \in UnderWay : m.what = "audio" => m.n <= recorder'[m.from].posted
    BY <1>3, <1>4, <2>3
  <2>6. \A d \in Broadcasts : d # b => Recorded(d)'
    BY <2>3 DEF Rings, Recorded
  <2>7. ring'[b][i] = p + 1 /\ \A n \in 1..p : p - n < Slots - 1 => ring'[b][Slot(n)] = n
    <3>1. \A n \in 1..p : p - n < Slots - 1 =>
            Slot(n) # i /\ Slot(n) \in 0..(Slots - 1) /\ ring[b][Slot(n)] = n
      BY <1>5, <1>6
    <3>2. ring'[b][i] = p + 1
      <4>1. i \in DOMAIN ring[b]
        BY <1>1, <1>2
      <4> HIDE DEF i
      <4> QED BY <2>3, <4>1
    <3>3. ASSUME NEW n \in 1..p, p - n < Slots - 1 PROVE ring'[b][Slot(n)] = n
      <4>1. Slot(n) # i /\ Slot(n) \in 0..(Slots - 1) /\ ring[b][Slot(n)] = n
        BY <3>1, <3>3
      <4> HIDE DEF i
      <4> QED BY <1>1, <2>3, <4>1
    <3> QED BY <3>2, <3>3
  <2>8. Recorded(b)'
    BY <2>3, <2>7 DEF Recorded
  <2> QED BY <2>4, <2>5, <2>6, <2>8 DEF Rings
<1>12. CASE PostSample(b)
  <2> DEFINE r == [recorder[b] EXCEPT
                     !.posted = p + 1, !.late = recorder[b].late \/ Stopped(b),
                     !.at = IF recorder[b].stop THEN "done" ELSE "looping"]
             a == Audio(b, p + 1)
  <2>1. recorder' = [recorder EXCEPT ![b] = r] /\ queue' = Append(queue, a)
        /\ UNCHANGED <<ring, hand>> /\ recorder[b].at = "posting"
    BY <1>12 DEF PostSample
  <2>2. r.posted = p + 1 /\ r.at # "posting"
    BY <1>1 DEF RecorderType
  <2>3. a \in Message /\ a.from = b /\ a.n = p + 1
    <3>1. p + 1 \in 1..MaxSamples[b]
      <4>1. p < MaxSamples[b] /\ MaxSamples[b] \in Nat
        BY <2>1, AudioAssumption DEF CaptureTypes, Broadcasts
      <4> QED BY <1>1, <4>1
    <3> QED BY <3>1, MessageFacts DEF Audio
  <2> HIDE DEF r, a
  <2>4. /\ recorder'[b].posted = p + 1 /\ recorder'[b].at # "posting"
        /\ \A d \in Broadcasts : d # b => recorder'[d] = recorder[d] /\ ring'[d] = ring[d]
    <3> HIDE DEF p
    <3> QED BY <1>1, <2>1, <2>2
  <2>5. UnderWay' = UnderWay \cup {a}
    BY <2>1, <2>3, PutUnderWay
  <2>6. \A m \in UnderWay' : m.what = "audio" => m.n <= recorder'[m.from].posted
    <3> SUFFICES ASSUME NEW m \in UnderWay', m.what = "audio" PROVE m.n <= recorder'[m.from].posted
      OBVIOUS
    <3>1. CASE m = a
      BY <1>1, <2>3, <2>4, <3>1
    <3>2. CASE m \in UnderWay /\ m.from = b
      <4>1. m.n \in Nat /\ m.n <= p
        BY <1>3, <1>4, <3>2
      <4>2. recorder'[m.from].posted = p + 1
        BY <2>4, <3>2
      <4> HIDE DEF p
      <4> QED BY <1>1, <4>1, <4>2
    <3>3. CASE m \in UnderWay /\ m.from # b
      <4>1. m.n <= recorder[m.from].posted /\ m.from \in Broadcasts
        BY <1>3, <1>4, <3>3
      <4> QED BY <2>4, <3>3, <4>1
    <3> QED BY <2>5, <3>1, <3>2, <3>3
  <2>7. \A d \in Broadcasts : d # b => Recorded(d)'
    BY <2>4 DEF Rings, Recorded
  <2>8. \A n \in 1..(p + 1) : (p + 1) - n < Slots - 1 => ring'[b][Slot(n)] = n
    <3> SUFFICES ASSUME NEW n \in 1..(p + 1), (p + 1) - n < Slots - 1 PROVE ring[b][Slot(n)] = n
      BY <2>1
    <3>1. CASE n = p + 1
      BY <1>6, <2>1, <3>1 DEF Recorded
    <3>2. CASE n # p + 1
      <4>1. n \in 1..p /\ p - n < Slots - 1
        BY <1>1, <3>2
      <4> QED BY <1>6, <4>1
    <3> QED BY <3>1, <3>2
  <2>9. Recorded(b)'
    BY <2>4, <2>8 DEF Recorded
  <2> QED BY <2>6, <2>7, <2>9 DEF Rings
<1> QED BY <1>8, <1>9, <1>10, <1>11, <1>12 DEF Recorder

LEMMA RingsKept ==
  ASSUME CaptureTypes, Rings, [CaptureNext]_captureVars PROVE Rings'
<1>1. \A m \in UnderWay : m.from \in Broadcasts
  BY UnderWayIs, MessageFacts
<1>2. CASE Caller
  <2>1. ring' = ring /\ \A m \in UnderWay' : m.what = "audio" => m \in UnderWay
    <3>1. CASE UnderWay' = UnderWay
      BY <1>2, <3>1, CallerPuts
    <3>2. CASE UnderWay' = UnderWay \cup {End(service.now)}
      BY <1>2, <3>2, CallerPuts DEF End
    <3> QED BY <1>2, <3>1, <3>2, CallerPuts
  <2>2. \A b \in Broadcasts : /\ recorder'[b].posted = recorder[b].posted
                              /\ recorder'[b].at = "posting" => recorder[b].at = "posting"
    <3>1. recorder \in [Broadcasts -> RecorderType]
      BY DEF CaptureTypes
    <3>2. CASE Start \/ SendEnd
      BY <3>2 DEF Start, SendEnd
    <3>3. CASE Making
      <4> DEFINE n == service.now
      <4>1. recorder' = recorder \/ recorder' = [recorder EXCEPT ![n] = [recorder[n] EXCEPT !.at = "started"]]
        BY <3>3, MakingStep
      <4>2. \A r \in RecorderType : /\ [r EXCEPT !.at = "started"].posted = r.posted
                                    /\ [r EXCEPT !.at = "started"].at = "started"
        BY DEF RecorderType
      <4> HIDE DEF n
      <4> QED BY <3>1, <4>1, <4>2
    <3>4. CASE Stop
      <4> DEFINE n == service.now
      <4>1. \/ recorder' = recorder
            \/ recorder' = [recorder EXCEPT ![n] = [recorder[n] EXCEPT !.stop = TRUE, !.record = "released"]]
        BY <3>1, <3>4 DEF Stop, StopAudioRecording
      <4>2. \A r \in RecorderType : /\ [r EXCEPT !.stop = TRUE, !.record = "released"].posted = r.posted
                                    /\ [r EXCEPT !.stop = TRUE, !.record = "released"].at = r.at
        BY DEF RecorderType
      <4> HIDE DEF n
      <4>3. CASE recorder' = recorder
        BY <4>3
      <4>4. CASE recorder' = [recorder EXCEPT ![n] = [recorder[n] EXCEPT !.stop = TRUE, !.record = "released"]]
        BY <3>1, <4>2, <4>4
      <4> QED BY <4>1, <4>3, <4>4
    <3> QED BY <1>2, <3>2, <3>3, <3>4 DEF Caller, Making
  <2> QED BY <1>1, <2>1, <2>2, RingsStay
<1>3. CASE Handler
  BY <1>1, <1>3, HandlerTakes, RingsStay
<1>4. ASSUME NEW b \in Broadcasts, Encoder(b) PROVE Rings'
  <2>1. UNCHANGED <<recorder, ring, queue, hand>>
    BY <1>4 DEF Encoder, DequeueOutput, Written, Release, Exit
  <2>2. UnderWay' = UnderWay
    BY <2>1 DEF UnderWay
  <2> QED BY <1>1, <2>1, <2>2, RingsStay
<1>5. CASE UNCHANGED captureVars
  <2>1. UNCHANGED <<recorder, ring, queue, hand>>
    BY <1>5 DEF captureVars
  <2>2. UnderWay' = UnderWay
    BY <2>1 DEF UnderWay
  <2> QED BY <1>1, <2>1, <2>2, RingsStay
<1> QED BY <1>2, <1>3, <1>4, <1>5, RecorderRings DEF CaptureNext

\* A sample on its way to the codec is what was recorded, for a ring of any size, as long as
\* the handler is fewer than Slots - 1 samples behind: the array that the recorder
\* writes next never holds one of the last.
THEOREM SamplesIntact == CaptureSpec => []SampleIntact
<1> DEFINE Inv == CaptureTypes /\ Rings
<1>1. CaptureInit => Inv
  <2> SUFFICES ASSUME CaptureInit PROVE Rings
    BY StartTyped
  <2>1. \A b \in Broadcasts : recorder[b].posted = 0 /\ recorder[b].at = "none"
    BY DEF CaptureInit
  <2>2. UnderWay = {}
    BY DEF CaptureInit, UnderWay, ToSet
  <2> QED BY <2>1, <2>2 DEF Rings, Recorded
<1>2. Inv /\ [CaptureNext]_captureVars => Inv'
  BY CaptureTypesKept, RingsKept
<1>3. Inv => SampleIntact
  <2> SUFFICES ASSUME Inv, NEW m \in UnderWay, m.what = "audio", recorder[m.from].posted - m.n < Slots - 1
               PROVE  ring[m.from][Slot(m.n)] = m.n
    BY DEF SampleIntact
  <2>1. m.from \in Broadcasts /\ m.n \in 1..MaxSamples[m.from]
    BY UnderWayIs, MessageFacts
  <2>2. m.n <= recorder[m.from].posted /\ Recorded(m.from)
    BY <2>1 DEF Rings
  <2>3. recorder[m.from].posted \in Nat /\ MaxSamples[m.from] \in Nat
    BY <2>1, AudioAssumption DEF CaptureTypes, RecorderType, Broadcasts
  <2>4. m.n \in 1..recorder[m.from].posted
    BY <2>1, <2>2, <2>3
  <2> QED BY <2>2, <2>4 DEF Recorded
<1> QED BY <1>1, <1>2, <1>3, PTL DEF CaptureSpec

\* What a step of a recorder does to the rest.
LEMMA RecorderStep ==
  ASSUME CaptureTypes, NEW b \in Broadcasts, Recorder(b)
  PROVE  /\ UNCHANGED <<service, target, hand, encoders, over, lost>> /\ fault' \in {fault, "record"}
         /\ \A d \in Broadcasts : d # b => recorder'[d] = recorder[d]
         /\ recorder[b].late => recorder'[b].late
         /\ recorder[b].at \notin {"none", "done"}
         /\ \/ UnderWay' = UnderWay /\ queue' = queue
            \/ /\ recorder[b].at = "posting"
               /\ \E n \in 1..MaxSamples[b] : queue' = Append(queue, Audio(b, n))
                                              /\ UnderWay' = UnderWay \cup {Audio(b, n)}
               /\ Stopped(b) => recorder'[b].late
<1>1. recorder \in [Broadcasts -> RecorderType] /\ recorder[b] \in RecorderType
  BY DEF CaptureTypes
<1>2. CASE StartRecording(b)
  <2> DEFINE r == [[recorder[b] EXCEPT !.record = "recording"] EXCEPT !.at = "reading"]
  <2>1. recorder' = [recorder EXCEPT ![b] = r] /\ recorder[b].at = "started"
        /\ UNCHANGED <<service, queue, target, hand, encoders, over, lost, fault>>
    BY <1>2 DEF StartRecording, BeginRead
  <2>2. r.late = recorder[b].late
    BY <1>1 DEF RecorderType
  <2> HIDE DEF r
  <2>3. UnderWay' = UnderWay
    BY <2>1 DEF UnderWay
  <2> QED BY <1>1, <2>1, <2>2, <2>3
<1>3. CASE NextRead(b)
  <2>1. CASE recorder[b].record = "released"
    <3>1. UNCHANGED <<service, recorder, queue, target, hand, encoders, over, lost>> /\ fault' = "record"
          /\ recorder[b].at = "looping"
      BY <1>3, <2>1 DEF NextRead
    <3>2. UnderWay' = UnderWay
      BY <3>1 DEF UnderWay
    <3> QED BY <3>1, <3>2
  <2>2. CASE recorder[b].record # "released"
    <3> DEFINE r == [recorder[b] EXCEPT !.at = "reading"]
    <3>1. recorder' = [recorder EXCEPT ![b] = r] /\ recorder[b].at = "looping"
          /\ UNCHANGED <<service, queue, target, hand, encoders, over, lost, fault>>
      BY <1>3, <2>2 DEF NextRead, BeginRead
    <3>2. r.late = recorder[b].late
      BY <1>1 DEF RecorderType
    <3> HIDE DEF r
    <3>3. UnderWay' = UnderWay
      BY <3>1 DEF UnderWay
    <3> QED BY <1>1, <3>1, <3>2, <3>3
  <2> QED BY <2>1, <2>2
<1>4. CASE ReadReturns(b) \/ ReadEnds(b)
  <2>1. PICK at \in {"posting", "done"} :
          recorder' = [recorder EXCEPT ![b] = [recorder[b] EXCEPT !.at = at]]
    BY <1>4 DEF ReadReturns, ReadEnds
  <2>2. recorder[b].at = "reading" /\ UNCHANGED <<service, queue, target, hand, encoders, over, lost, fault>>
    BY <1>4 DEF ReadReturns, ReadEnds
  <2>3. [recorder[b] EXCEPT !.at = at].late = recorder[b].late
    BY <1>1 DEF RecorderType
  <2>4. UnderWay' = UnderWay
    BY <2>2 DEF UnderWay
  <2> QED BY <1>1, <2>1, <2>2, <2>3, <2>4
<1>5. CASE PostSample(b)
  <2> DEFINE n == recorder[b].posted + 1
             r == [recorder[b] EXCEPT !.posted = n, !.late = recorder[b].late \/ Stopped(b),
                     !.at = IF recorder[b].stop THEN "done" ELSE "looping"]
  <2>1. recorder' = [recorder EXCEPT ![b] = r] /\ recorder[b].at = "posting"
        /\ queue' = Append(queue, Audio(b, n))
        /\ UNCHANGED <<service, target, hand, encoders, over, lost, fault>>
    BY <1>5 DEF PostSample
  <2>2. r.late = (recorder[b].late \/ Stopped(b))
    BY <1>1 DEF RecorderType
  <2>3. n \in 1..MaxSamples[b]
    <3>1. recorder[b].posted < MaxSamples[b] /\ MaxSamples[b] \in Nat /\ recorder[b].posted \in Nat
      BY <1>1, <2>1, AudioAssumption DEF CaptureTypes, Broadcasts, RecorderType
    <3> QED BY <3>1
  <2> HIDE DEF r, n
  <2>4. UnderWay' = UnderWay \cup {Audio(b, n)}
    BY <2>1, <2>3, MessageFacts, PutUnderWay
  <2>5. recorder'[b] = r /\ \A d \in Broadcasts : d # b => recorder'[d] = recorder[d]
    BY <1>1, <2>1
  <2>6. (recorder[b].late => recorder'[b].late) /\ (Stopped(b) => recorder'[b].late)
    BY <2>2, <2>5
  <2> QED BY <2>1, <2>3, <2>4, <2>5, <2>6
<1> QED BY <1>2, <1>3, <1>4, <1>5 DEF Recorder

\* What a step of the service does to its recorders.
LEMMA CallerStep ==
  ASSUME CaptureTypes, Caller
  PROVE  /\ service.now \in Nat /\ service'.now \in {service.now, service.now + 1}
         /\ service'.now # service.now => Start
         /\ (service.again => service'.again) /\ (service.early => service'.early)
         /\ \A b \in Broadcasts : /\ recorder'[b].late = recorder[b].late
                                  /\ recorder'[b].at # recorder[b].at =>
                                       service.at = "made" /\ b = service.now /\ service'.at = "recording"
<1>1. recorder \in [Broadcasts -> RecorderType] /\ service \in ServiceType /\ service.now \in Nat
  BY DEF CaptureTypes, ServiceType
<1>2. CASE Start
  <2>1. service'.now = service.now + 1 /\ service'.again = service.again /\ recorder' = recorder
        /\ (service.early => service'.early)
    BY <1>1, <1>2 DEF Start, ServiceType
  <2> QED BY <1>1, <1>2, <2>1
<1>3. CASE Making
  <2> DEFINE n == service.now
  <2>1. recorder' = recorder
        \/ (service'.at = "recording" /\ recorder' = [recorder EXCEPT ![n] = [recorder[n] EXCEPT !.at = "started"]])
    BY <1>3, MakingStep
  <2>2. \A r \in RecorderType : [r EXCEPT !.at = "started"].late = r.late
    BY DEF RecorderType
  <2>3. service'.now = service.now /\ service'.again = service.again /\ service'.early = service.early
        /\ service.at = "made"
    BY <1>3, MakingStep
  <2>4. \A b \in Broadcasts : /\ recorder'[b].late = recorder[b].late
                              /\ recorder'[b].at # recorder[b].at => b = n /\ service'.at = "recording"
    <3> HIDE DEF n
    <3>1. CASE recorder' = recorder
      BY <3>1
    <3>2. CASE service'.at = "recording" /\ recorder' = [recorder EXCEPT ![n] = [recorder[n] EXCEPT !.at = "started"]]
      <4> DEFINE r == [recorder[n] EXCEPT !.at = "started"]
      <4>1. n \in Broadcasts => r.late = recorder[n].late
        BY <1>1, <2>2
      <4>2. recorder' = [recorder EXCEPT ![n] = r]
        BY <3>2
      <4> HIDE DEF r
      <4> QED BY <1>1, <3>2, <4>1, <4>2
    <3> QED BY <2>1, <3>1, <3>2
  <2> QED BY <1>1, <2>3, <2>4
<1>4. CASE Stop
  <2> DEFINE n == service.now
  <2>1. \/ recorder' = recorder
        \/ recorder' = [recorder EXCEPT ![n] = [recorder[n] EXCEPT !.stop = TRUE, !.record = "released"]]
    BY <1>1, <1>4 DEF Stop, StopAudioRecording
  <2>2. \A r \in RecorderType : /\ [r EXCEPT !.stop = TRUE, !.record = "released"].late = r.late
                                /\ [r EXCEPT !.stop = TRUE, !.record = "released"].at = r.at
    BY DEF RecorderType
  <2> HIDE DEF n
  <2>3. \A b \in Broadcasts : recorder'[b].late = recorder[b].late /\ recorder'[b].at = recorder[b].at
    <3>1. CASE recorder' = recorder
      BY <3>1
    <3>2. CASE recorder' = [recorder EXCEPT ![n] = [recorder[n] EXCEPT !.stop = TRUE, !.record = "released"]]
      BY <1>1, <2>2, <3>2
    <3> QED BY <2>1, <3>1, <3>2
  <2>4. service'.now = service.now /\ (service.again => service'.again) /\ service'.early = service.early
    BY <1>1, <1>4 DEF Stop, ServiceType
  <2> QED BY <1>1, <2>3, <2>4
<1>5. CASE SendEnd
  <2>1. recorder' = recorder /\ service'.now = service.now /\ service'.again = service.again
        /\ service'.early = service.early
    BY <1>1, <1>5 DEF SendEnd, ServiceType
  <2> QED BY <1>1, <2>1
<1> QED BY <1>2, <1>3, <1>4, <1>5 DEF Caller, Making

LEMMA OversKept ==
  ASSUME CaptureTypes, Overs, [CaptureNext]_captureVars PROVE Overs'
<1>0. /\ \A m \in UnderWay : m.from \in Broadcasts
      /\ \A b \in Broadcasts : b \in Nat
      /\ over \in [Broadcasts -> SUBSET Broadcasts] /\ recorder \in [Broadcasts -> RecorderType]
      /\ service \in ServiceType /\ service.now \in Nat
  BY UnderWayIs, MessageFacts DEF CaptureTypes, ServiceType
<1>1. CASE Caller
  <2>1. over' = over /\ \A m \in UnderWay' : m.what = "audio" => m \in UnderWay
    <3>1. CASE UnderWay' = UnderWay
      BY <1>1, <3>1, CallerPuts
    <3>2. CASE UnderWay' = UnderWay \cup {End(service.now)}
      BY <1>1, <3>2, CallerPuts DEF End
    <3> QED BY <1>1, <3>1, <3>2, CallerPuts
  <2>2. \A e \in Broadcasts : \A b \in over'[e] : recorder'[b].at = "done"
    <3> SUFFICES ASSUME NEW e \in Broadcasts, NEW b \in over[e] PROVE recorder'[b].at = "done"
      BY <2>1
    <3>1. b \in Broadcasts /\ recorder[b].at = "done"
      BY <1>0 DEF Overs
    <3>2. ~(service.at = "made" /\ b = service.now)
      BY <3>1 DEF Overs
    <3> QED BY <1>1, <3>1, <3>2, CallerStep
  <2>3. \A b \in Broadcasts : b > service'.now => recorder'[b].at = "none"
    <3> SUFFICES ASSUME NEW b \in Broadcasts, b > service'.now PROVE recorder'[b].at = "none"
      OBVIOUS
    <3>1. b > service.now /\ b # service.now
      BY <1>0, <1>1, CallerStep
    <3>2. recorder[b].at = "none"
      BY <3>1 DEF Overs
    <3> QED BY <1>1, <3>1, <3>2, CallerStep
  <2>4. service'.at = "made" => recorder'[service'.now].at = "none"
    <3>1. CASE Start
      <4>1. service'.now = service.now + 1 /\ recorder' = recorder /\ service.now + 1 > service.now
        BY <1>0, <3>1 DEF Start, ServiceType
      <4>2. service'.now \in Broadcasts
        <5>1. service.now + 1 \in 1..MaxBroadcasts
          BY <1>0, <3>1, AudioAssumption DEF Start
        <5> QED BY <4>1, <5>1 DEF Broadcasts
      <4> QED BY <4>1, <4>2 DEF Overs
    <3>2. CASE Making
      <4>1. service' = service \/ service'.at = "recording"
        BY <3>2, MakingStep
      <4>2. service' = service /\ service.at = "made" => recorder' = recorder
        BY <3>2, MakingStep
      <4> QED BY <4>1, <4>2 DEF Overs
    <3>3. CASE Stop \/ SendEnd
      <4>1. service'.at \in {"ending", "stopped"}
        BY <1>0, <3>3 DEF Stop, SendEnd, ServiceType
      <4> QED BY <4>1
    <3> QED BY <1>1, <3>1, <3>2, <3>3 DEF Caller, Making
  <2> QED BY <2>1, <2>2, <2>3, <2>4 DEF Overs
<1>2. CASE Handler
  <2>1. UnderWay' \subseteq UnderWay /\ UNCHANGED <<service, recorder>>
    BY <1>2, HandlerTakes
  <2>2. CASE ~StopEncoding
    <3>1. over' = over
      BY <1>2, <2>2 DEF Handler, Take, MisuseCodec, EncodeAudio, DropAudio, ReadAgain
    <3> QED BY <2>1, <3>1 DEF Overs
  <2>3. CASE StopEncoding
    <3>1. \A m \in UnderWay' : m.what = "end"
      BY <1>2, <2>3, HandlerTakes
    <3>2. over' = over \/ over' = [over EXCEPT ![hand.to] = @ \cup {r \in Broadcasts : recorder[r].at = "done"}]
      BY <2>3 DEF StopEncoding
    <3>3. \A e \in Broadcasts : over'[e] \subseteq over[e] \cup {r \in Broadcasts : recorder[r].at = "done"}
      BY <1>0, <3>2
    <3>4. \A e \in Broadcasts : \A b \in over'[e] : recorder'[b].at = "done"
      BY <1>0, <2>1, <3>3 DEF Overs
    <3>5. \A m \in UnderWay' : m.what # "audio"
      BY <3>1
    <3> QED BY <2>1, <3>4, <3>5 DEF Overs
  <2> QED BY <2>2, <2>3
<1>3. ASSUME NEW b \in Broadcasts, Recorder(b) PROVE Overs'
  <2>1. /\ UNCHANGED <<service, over>> /\ (\A d \in Broadcasts : d # b => recorder'[d] = recorder[d])
        /\ recorder[b].at \notin {"none", "done"}
        /\ \A m \in UnderWay' : m \in UnderWay \/ m.from = b
    <3>1. \A n : Audio(b, n).from = b
      BY DEF Audio
    <3>2. UnderWay' = UnderWay \/ \E n : UnderWay' = UnderWay \cup {Audio(b, n)}
      BY <1>3, RecorderStep
    <3> QED BY <1>3, <3>1, <3>2, RecorderStep
  <2>2. b <= service.now /\ ~(service.at = "made" /\ b = service.now)
    BY <1>0, <2>1 DEF Overs
  <2>3. \A e \in Broadcasts : b \notin over[e]
    BY <2>1 DEF Overs
  <2>4. \A e \in Broadcasts : \A d \in over'[e] : recorder'[d].at = "done"
    BY <1>0, <2>1, <2>3 DEF Overs
  <2>5. service'.at = "made" => recorder'[service'.now].at = "none"
    <3>1. service.at = "made" => service.now \in Broadcasts
      BY DEF CaptureTypes
    <3> QED BY <2>1, <2>2, <3>1 DEF Overs
  <2>6. \A d \in Broadcasts : d > service'.now => recorder'[d].at = "none"
    BY <1>0, <2>1, <2>2 DEF Overs
  <2>7. \A m \in UnderWay' : m.what = "audio" => \A e \in Broadcasts : m.from \notin over'[e]
    BY <2>1, <2>3 DEF Overs
  <2> QED BY <2>4, <2>5, <2>6, <2>7 DEF Overs
<1>4. ASSUME UNCHANGED <<service, recorder, queue, hand, over>> PROVE Overs'
  <2>1. UnderWay' = UnderWay
    BY <1>4 DEF UnderWay
  <2> QED BY <1>4, <2>1 DEF Overs
<1>5. ASSUME NEW b \in Broadcasts, Encoder(b) PROVE Overs'
  BY <1>4, <1>5 DEF Encoder, DequeueOutput, Written, Release, Exit
<1>6. CASE UNCHANGED captureVars
  BY <1>4, <1>6 DEF captureVars
<1> QED BY <1>1, <1>2, <1>3, <1>5, <1>6 DEF CaptureNext

LEMMA ToldKept ==
  ASSUME CaptureTypes, Overs, Told, [CaptureNext]_captureVars PROVE Told'
<1> DEFINE Late == {"writingEnd", "ending", "released", "done"}
           Ended(c) == c.at \in Late \/ (\E k \in DOMAIN c.input : c.input[k].what = "end") => c.ended
<1>0. /\ \A m \in UnderWay : m.from \in Broadcasts
      /\ \A b \in Broadcasts : b \in Nat
      /\ encoders \in [Broadcasts -> CodecType] /\ recorder \in [Broadcasts -> RecorderType]
      /\ service \in ServiceType /\ service.now \in Nat /\ target \in Nat /\ hand.to \in Nat
      /\ Idle.to = 0 /\ hand.msg \in Message
  BY UnderWayIs, MessageFacts DEF CaptureTypes, ServiceType
<1>1. \A b \in Broadcasts : Ended(encoders[b])
  BY DEF Told
<1>2. ASSUME NEW b \in Broadcasts, NEW c \in CodecType, encoders' = [encoders EXCEPT ![b] = c],
             Ended(c), c.ended => encoders[b].ended \/ b <= service.now
      PROVE  /\ \A d \in Broadcasts : Ended(encoders'[d])
             /\ \A d \in Broadcasts : d > service.now => ~encoders'[d].ended
  <2> HIDE DEF Late, Ended
  <2>1. \A d \in Broadcasts : encoders'[d] = IF d = b THEN c ELSE encoders[d]
    BY <1>0, <1>2
  <2>2. \A d \in Broadcasts : d > service.now => ~encoders[d].ended
    BY DEF Told
  <2>3. \A d \in Broadcasts : Ended(encoders'[d])
    BY <1>1, <1>2, <2>1
  <2>4. \A d \in Broadcasts : d > service.now => ~encoders'[d].ended
    BY <1>0, <1>2, <2>1, <2>2
  <2> QED BY <2>3, <2>4
<1>3. CASE Start
  <2> DEFINE n == service.now + 1
             c == [encoders[n] EXCEPT !.at = "new"]
  <2>1. n \in Broadcasts /\ n \in Nat /\ n > service.now
    <3>1. service.now + 1 \in 1..MaxBroadcasts
      BY <1>0, <1>3, AudioAssumption DEF Start
    <3> QED BY <1>0, <3>1 DEF Broadcasts
  <2>2. encoders' = [encoders EXCEPT ![n] = c] /\ service'.now = n /\ target' = n /\ hand' = hand /\ queue' = queue
    BY <1>0, <1>3 DEF Start, ServiceType
  <2>3. c \in CodecType /\ c.ended = encoders[n].ended /\ Ended(c)
    <3>1. encoders[n] \in CodecType /\ Ended(encoders[n])
      BY <1>0, <1>1, <2>1
    <3> QED BY <3>1 DEF CodecType, CodecStates
  <2>4. UnderWay' = UnderWay
    BY <2>2 DEF UnderWay
  <2> HIDE DEF c, Late, Ended
  <2>5. /\ \A d \in Broadcasts : Ended(encoders'[d])
        /\ \A d \in Broadcasts : d > service.now => ~encoders'[d].ended
    BY <1>2, <2>1, <2>2, <2>3
  <2>6. \A d \in Broadcasts : d > service'.now => d > service.now
    BY <1>0, <2>1, <2>2
  <2>7. \A m \in UnderWay' : m.from <= service'.now
    <3> SUFFICES ASSUME NEW m \in UnderWay PROVE m.from <= n
      BY <2>2, <2>4
    <3>1. m.from \in Nat /\ m.from <= service.now
      BY <1>0 DEF Told
    <3> HIDE DEF n
    <3> QED BY <1>0, <2>1, <3>1
  <2>8. target' \in {0, service'.now} /\ hand'.to <= service'.now
    <3> HIDE DEF n
    <3> QED BY <1>0, <2>1, <2>2 DEF Told
  <2> QED BY <2>5, <2>6, <2>7, <2>8 DEF Told, Ended, Late
<1>4. CASE Making
  <2> DEFINE n == service.now
  <2>1. n \in Broadcasts /\ service'.now = n /\ hand' = hand /\ queue' = queue
        /\ (target' = target \/ target' = 0)
    BY <1>4, MakingStep
  <2>2. UnderWay' = UnderWay
    BY <2>1 DEF UnderWay
  <2>3. \A d \in Broadcasts : encoders'[d].ended = encoders[d].ended /\ encoders'[d].input = encoders[d].input
                             /\ (encoders'[d].at \in Late => encoders[d].at \in Late)
    <3>1. \A d \in Broadcasts : encoders'[d].ended = encoders[d].ended /\ encoders'[d].input = encoders[d].input
                               /\ (d # n => encoders'[d].at = encoders[d].at)
      BY <1>4, MakingStep
    <3>2. encoders'[n].at \notin Late
      BY <1>4, MakingStep
    <3> HIDE DEF n, Late
    <3> QED BY <3>1, <3>2
  <2>4. /\ \A d \in Broadcasts : Ended(encoders'[d])
        /\ \A d \in Broadcasts : d > service.now => ~encoders'[d].ended
    <3> HIDE DEF Late
    <3> QED BY <1>1, <2>3 DEF Told
  <2> HIDE DEF Late, Ended
  <2> QED BY <2>1, <2>2, <2>4 DEF Told, Ended, Late
<1>5. CASE Stop \/ SendEnd
  <2>1. encoders' = encoders /\ service'.now = service.now /\ hand' = hand /\ target' = target
    BY <1>0, <1>5 DEF Stop, SendEnd, ServiceType
  <2>2. \A m \in UnderWay' : m \in UnderWay \/ m.from = service.now
    <3>1. End(service.now).from = service.now
      BY DEF End
    <3>2. UnderWay' = UnderWay \/ UnderWay' = UnderWay \cup {End(service.now)}
      BY <1>5, CallerPuts DEF Caller
    <3> QED BY <3>1, <3>2
  <2>3. \A m \in UnderWay' : m.from <= service'.now
    BY <1>0, <2>1, <2>2 DEF Told
  <2> QED BY <2>1, <2>3 DEF Told
<1>6. CASE Handler
  <2>1. UnderWay' \subseteq UnderWay /\ UNCHANGED <<service, target>>
    BY <1>6, HandlerTakes
  <2>2. hand'.to \in {hand.to, target, 0}
    BY <1>0, <1>6 DEF Handler, Take, MisuseCodec, EncodeAudio, DropAudio, StopEncoding, ReadAgain, CaptureTypes
  <2>3. hand'.to <= service'.now
    BY <1>0, <2>1, <2>2 DEF Told
  <2>4. /\ \A d \in Broadcasts : Ended(encoders'[d])
        /\ \A d \in Broadcasts : d > service.now => ~encoders'[d].ended
    <3> DEFINE e == hand.to
    <3>1. CASE encoders' = encoders
      BY <1>1, <3>1 DEF Told
    <3>2. CASE EncodeAudio /\ encoders' # encoders
      <4> DEFINE q == Append(encoders[e].input, hand.msg)
                 c == [encoders[e] EXCEPT !.input = q]
      <4>1. encoders' = [encoders EXCEPT ![e] = c] /\ e \in Broadcasts /\ hand.msg.what = "audio"
        BY <3>2 DEF EncodeAudio, CaptureTypes
      <4>2. encoders[e] \in CodecType /\ Ended(encoders[e]) /\ encoders[e].input \in Seq(Message)
        BY <1>0, <1>1, <4>1 DEF CodecType
      <4>3. q \in Seq(Message) /\ \A k \in DOMAIN q : q[k].what = "end" => \E j \in DOMAIN encoders[e].input :
                                                                            encoders[e].input[j].what = "end"
        <5>1. /\ q \in Seq(Message) /\ Len(encoders[e].input) \in Nat
              /\ DOMAIN encoders[e].input = 1..Len(encoders[e].input)
              /\ DOMAIN q = 1..(Len(encoders[e].input) + 1)
              /\ \A k \in DOMAIN encoders[e].input : q[k] = encoders[e].input[k]
              /\ q[Len(encoders[e].input) + 1] = hand.msg
          <6> DEFINE i == encoders[e].input
                     m == hand.msg
          <6>1. i \in Seq(Message) /\ m \in Message
            BY <1>0, <4>2
          <6> HIDE DEF i, m
          <6>2. /\ Append(i, m) \in Seq(Message) /\ Len(i) \in Nat
                /\ DOMAIN i = 1..Len(i) /\ DOMAIN Append(i, m) = 1..(Len(i) + 1)
                /\ (\A k \in DOMAIN i : Append(i, m)[k] = i[k]) /\ Append(i, m)[Len(i) + 1] = m
            BY <6>1, PutLast
          <6> QED BY <6>2 DEF i, m
        <5>2. \A k \in DOMAIN q : k \in DOMAIN encoders[e].input \/ k = Len(encoders[e].input) + 1
          BY <5>1
        <5> HIDE DEF q
        <5>3. hand.msg.what # "end"
          BY <4>1
        <5> QED BY <5>1, <5>2, <5>3
      <4> HIDE DEF q
      <4>4. c \in CodecType /\ c.ended = encoders[e].ended /\ Ended(c)
        <5>1. c \in CodecType /\ c.ended = encoders[e].ended /\ c.at = encoders[e].at /\ c.input = q
          BY <4>2, <4>3 DEF CodecType
        <5> HIDE DEF c
        <5> QED BY <4>2, <4>3, <5>1
      <4> HIDE DEF c, e, Ended, Late
      <4> QED BY <1>2, <4>1, <4>4
    <3>3. CASE StopEncoding /\ encoders' # encoders
      <4> DEFINE q == Append(encoders[e].input, hand.msg)
                 c == [encoders[e] EXCEPT !.input = q, !.ended = TRUE]
      <4>1. e \in Broadcasts
        BY <3>3 DEF StopEncoding, CaptureTypes
      <4>2. encoders[e] \in CodecType /\ q \in Seq(Message)
        <5>1. encoders[e] \in CodecType /\ encoders[e].input \in Seq(Message)
          BY <1>0, <4>1 DEF CodecType
        <5> QED BY <1>0, <5>1, PutLast
      <4>3. encoders' = [encoders EXCEPT ![e] = c]
        <5> DEFINE d == [encoders EXCEPT ![e].input = q, ![e].ended = TRUE]
        <5>1. \/ encoders' = encoders
              \/ encoders' = IF encoders[e].ended THEN encoders ELSE d
          BY <3>3 DEF StopEncoding
        <5>2. d = [encoders EXCEPT ![e] = c]
          BY <1>0, <4>1
        <5> HIDE DEF d, c
        <5> QED BY <3>3, <5>1, <5>2
      <4>4. c \in CodecType /\ c.ended
        <5> HIDE DEF q
        <5> QED BY <4>2 DEF CodecType
      <4>5. e <= service.now
        BY DEF Told
      <4>6. Ended(c)
        BY <4>4
      <4> HIDE DEF c, q, e, Ended, Late
      <4> QED BY <1>2, <4>1, <4>3, <4>4, <4>5, <4>6
    <3>4. Take \/ MisuseCodec \/ DropAudio \/ ReadAgain => encoders' = encoders
      BY DEF Take, MisuseCodec, DropAudio, ReadAgain
    <3> QED BY <1>6, <3>1, <3>2, <3>3, <3>4 DEF Handler
  <2>5. target' \in {0, service'.now} /\ \A m \in UnderWay' : m.from <= service'.now
    BY <2>1 DEF Told
  <2> QED BY <2>1, <2>3, <2>4, <2>5 DEF Told
<1>7. ASSUME NEW b \in Broadcasts, Recorder(b) PROVE Told'
  <2>1. UNCHANGED <<service, target, hand, encoders>> /\ recorder[b].at # "none"
    BY <1>7, RecorderStep
  <2>2. b <= service.now
    BY <1>0, <2>1 DEF Overs
  <2>3. \A m \in UnderWay' : m \in UnderWay \/ m.from = b
    <3>1. \A n : Audio(b, n).from = b
      BY DEF Audio
    <3>2. UnderWay' = UnderWay \/ \E n : UnderWay' = UnderWay \cup {Audio(b, n)}
      BY <1>7, RecorderStep
    <3> QED BY <3>1, <3>2
  <2>4. \A m \in UnderWay' : m.from <= service'.now
    BY <2>1, <2>2, <2>3 DEF Told
  <2> QED BY <2>1, <2>4 DEF Told
<1>8. ASSUME NEW b \in Broadcasts, Encoder(b) PROVE Told'
  <2>1. UNCHANGED <<service, queue, target, hand>>
    BY <1>8 DEF Encoder, DequeueOutput, Written, Release, Exit
  <2>2. UnderWay' = UnderWay
    BY <2>1 DEF UnderWay
  <2>3. encoders[b] \in CodecType /\ Ended(encoders[b]) /\ encoders[b].input \in Seq(Message)
    BY <1>0, <1>1 DEF CodecType
  <2>4. PICK c \in CodecType : encoders' = [encoders EXCEPT ![b] = c] /\ c.ended = encoders[b].ended /\ Ended(c)
    <3>1. CASE DequeueOutput(b)
      <4> DEFINE q == encoders[b].input
                 at == IF Head(q).what = "end" THEN "writingEnd" ELSE "writing"
                 c == [encoders[b] EXCEPT !.input = Tail(q), !.at = at]
      <4>1. encoders' = [encoders EXCEPT ![b] = c] /\ q # <<>>
        BY <3>1 DEF DequeueOutput
      <4>2. /\ Tail(q) \in Seq(Message) /\ 1 \in DOMAIN q /\ Head(q) = q[1]
            /\ \A k \in DOMAIN Tail(q) : k + 1 \in DOMAIN q /\ Tail(q)[k] = q[k + 1]
        BY <2>3, <4>1, TakeFirst
      <4>3. c \in CodecType /\ c.ended = encoders[b].ended /\ c.input = Tail(q) /\ c.at = at
        BY <2>3, <4>2 DEF CodecType, CodecStates
      <4>4. at \in Late => encoders[b].ended
        <5>1. at \in Late => q[1].what = "end" /\ 1 \in DOMAIN q
          BY <4>2
        <5> QED BY <2>3, <5>1
      <4>5. (\E k \in DOMAIN Tail(q) : Tail(q)[k].what = "end") => encoders[b].ended
        BY <2>3, <4>2
      <4>6. Ended(c)
        <5> HIDE DEF c, at
        <5> QED BY <4>3, <4>4, <4>5
      <4> QED BY <4>1, <4>3, <4>6
    <3>2. CASE Written(b) \/ Release(b) \/ Exit(b)
      <4>1. PICK at \in {"running", "ending", "released", "done"} :
              /\ encoders' = [encoders EXCEPT ![b] = [encoders[b] EXCEPT !.at = at]]
              /\ at # "running" => encoders[b].at \in Late
        BY <3>2 DEF Written, Release, Exit
      <4> DEFINE c == [encoders[b] EXCEPT !.at = at]
      <4>2. c \in CodecType /\ c.ended = encoders[b].ended /\ c.input = encoders[b].input /\ c.at = at
        BY <2>3 DEF CodecType, CodecStates
      <4>3. Ended(c)
        <5> HIDE DEF c
        <5> QED BY <2>3, <4>1, <4>2
      <4> QED BY <4>1, <4>2, <4>3
    <3> QED BY <1>8, <3>1, <3>2 DEF Encoder
  <2> HIDE DEF Ended, Late
  <2>5. /\ \A d \in Broadcasts : Ended(encoders'[d])
        /\ \A d \in Broadcasts : d > service.now => ~encoders'[d].ended
    BY <1>2, <2>4
  <2> QED BY <2>1, <2>2, <2>5 DEF Told, Ended, Late
<1>9. CASE UNCHANGED captureVars
  <2>1. UNCHANGED <<service, queue, target, hand, encoders>>
    BY <1>9 DEF captureVars
  <2>2. UnderWay' = UnderWay
    BY <2>1 DEF UnderWay
  <2> QED BY <2>1, <2>2 DEF Told
<1> QED BY <1>3, <1>4, <1>5, <1>6, <1>7, <1>8, <1>9 DEF CaptureNext, Caller, Making

\* The races stay.
LEMMA CleanBefore ==
  ASSUME CaptureTypes, [CaptureNext]_captureVars, Clean' PROVE Clean
<1>1. CASE Caller
  BY <1>1, CallerPuts, CallerStep DEF Clean
<1>2. CASE Handler
  <2>1. UNCHANGED <<service, recorder>>
    BY <1>2, HandlerTakes
  <2>2. lost \subseteq lost'
    BY <1>2 DEF Handler, Take, MisuseCodec, EncodeAudio, DropAudio, StopEncoding, ReadAgain
  <2> QED BY <2>1, <2>2 DEF Clean
<1>3. ASSUME NEW b \in Broadcasts, Recorder(b) PROVE Clean
  <2>1. UNCHANGED <<service, lost>> /\ (\A d \in Broadcasts : recorder[d].late => recorder'[d].late)
    BY <1>3, RecorderStep
  <2> QED BY <2>1 DEF Clean
<1>4. ASSUME NEW b \in Broadcasts, Encoder(b) PROVE Clean
  BY <1>4 DEF Encoder, DequeueOutput, Written, Release, Exit, Clean
<1>5. CASE UNCHANGED captureVars
  BY <1>5 DEF captureVars, Clean
<1> QED BY <1>1, <1>2, <1>3, <1>4, <1>5 DEF CaptureNext

\* What is put into a codec leaves its thread where it is.
LEMMA SameState ==
  ASSUME CaptureTypes, hand # Idle, EncodeAudio \/ DropAudio \/ StopEncoding
  PROVE  \A b \in Broadcasts : encoders'[b].at = encoders[b].at
<1> DEFINE e == hand.to
           q == Append(encoders[e].input, hand.msg)
           c == [encoders[e] EXCEPT !.input = q]
           d == [encoders[e] EXCEPT !.input = q, !.ended = TRUE]
<1>1. encoders \in [Broadcasts -> CodecType] /\ e \in Broadcasts /\ encoders[e] \in CodecType
  BY DEF CaptureTypes
<1>2. encoders' = encoders \/ encoders' = [encoders EXCEPT ![e] = c] \/ encoders' = [encoders EXCEPT ![e] = d]
  <2>1. [encoders EXCEPT ![e].input = q, ![e].ended = TRUE] = [encoders EXCEPT ![e] = d]
    BY <1>1
  <2>2. CASE EncodeAudio \/ DropAudio
    BY <2>2 DEF EncodeAudio, DropAudio
  <2>3. CASE StopEncoding
    <3> DEFINE f == [encoders EXCEPT ![e].input = q, ![e].ended = TRUE]
    <3>1. encoders' = encoders \/ encoders' = f
      BY <2>3 DEF StopEncoding
    <3> QED BY <2>1, <3>1
  <2> QED BY <2>2, <2>3
<1>3. c.at = encoders[e].at /\ d.at = encoders[e].at
  <2> HIDE DEF q
  <2> QED BY <1>1 DEF CodecType
<1> HIDE DEF c, d, e
<1> QED BY <1>1, <1>2, <1>3

\* An encoder thread goes on, or ends.
LEMMA StaysGoing ==
  ASSUME CaptureTypes, NEW b \in Broadcasts, Encoder(b)
  PROVE  \A d \in Broadcasts : encoders'[d].at = encoders[d].at \/ encoders'[d].at \in Going
<1>1. encoders \in [Broadcasts -> CodecType] /\ encoders[b] \in CodecType
  BY DEF CaptureTypes
<1>2. PICK a \in Going : \/ encoders' = [encoders EXCEPT ![b] = [encoders[b] EXCEPT !.at = a]]
                        \/ encoders' = [encoders EXCEPT ![b] =
                                          [encoders[b] EXCEPT !.input = Tail(encoders[b].input), !.at = a]]
  <2>1. CASE DequeueOutput(b)
    BY <2>1 DEF DequeueOutput, Going, Runnable
  <2>2. CASE Written(b) \/ Release(b) \/ Exit(b)
    BY <2>2 DEF Written, Release, Exit, Going, Runnable
  <2> QED BY <2>1, <2>2 DEF Encoder
<1> DEFINE t == Tail(encoders[b].input)
           c == [encoders[b] EXCEPT !.at = a]
           e == [encoders[b] EXCEPT !.input = t, !.at = a]
<1>3. c.at = a /\ e.at = a
  <2> HIDE DEF t
  <2> QED BY <1>1 DEF CodecType
<1>4. encoders' = [encoders EXCEPT ![b] = c] \/ encoders' = [encoders EXCEPT ![b] = e]
  BY <1>2
<1> HIDE DEF c, e
<1> QED BY <1>1, <1>3, <1>4

LEMMA OpeningKept ==
  ASSUME CaptureTypes, Overs, Told, Opening, [CaptureNext]_captureVars PROVE Opening'
<1> SUFFICES ASSUME Clean'
             PROVE /\ service'.at = "made" => queue' = <<>> /\ hand' = Idle
                   /\ service'.at # "made" /\ target' \in Broadcasts =>
                        encoders'[target'].at \in Going \cup {"failed"}
                   /\ hand' # Idle => hand'.to = target' /\ encoders'[hand'.to].at \in Going
  BY DEF Opening
<1>0. /\ encoders \in [Broadcasts -> CodecType] /\ service \in ServiceType
      /\ queue \in Seq(Message) /\ (hand # Idle => hand.to \in Broadcasts)
      /\ Idle.to = 0 /\ 0 \notin Broadcasts /\ \A b \in Broadcasts : b \in Nat
  BY MessageFacts DEF CaptureTypes
<1>1. Clean
  BY CleanBefore
<1>2. /\ service.at = "made" => queue = <<>> /\ hand = Idle
      /\ service.at # "made" /\ target \in Broadcasts => encoders[target].at \in Going \cup {"failed"}
      /\ hand # Idle => hand.to = target /\ encoders[hand.to].at \in Going
  BY <1>1 DEF Opening
<1>3. CASE Start
  <2>1. queue' = queue /\ hand' = hand /\ service'.at = "made"
        /\ (queue # <<>> \/ hand # Idle => service'.early)
    BY <1>0, <1>3 DEF Start, ServiceType
  <2> QED BY <2>1 DEF Clean
<1>4. CASE Making
  <2>1. service.at = "made" /\ queue' = queue /\ hand' = hand
    BY <1>4, MakingStep
  <2>2. service'.at # "made" /\ target' \in Broadcasts => encoders'[target'].at \in Going \cup {"failed"}
    <3> SUFFICES ASSUME service'.at # "made", target' \in Broadcasts
                 PROVE  encoders'[target'].at \in Going \cup {"failed"}
      OBVIOUS
    <3>1. target' = target /\ target = service.now
      BY <1>0, <1>4, MakingStep DEF Told
    <3>2. encoders'[service.now].at \in {"running", "failed"}
      BY <1>0, <1>4, MakingStep
    <3> QED BY <3>1, <3>2 DEF Going, Runnable
  <2> QED BY <1>2, <2>1, <2>2
<1>5. CASE Stop \/ SendEnd
  <2>1. service.at # "made" /\ service'.at # "made" /\ UNCHANGED <<hand, encoders, target>>
    BY <1>0, <1>5 DEF Stop, SendEnd, ServiceType
  <2> QED BY <1>2, <2>1
<1>6. CASE Take
  <2>1. hand = Idle /\ queue # <<>> /\ UNCHANGED <<service, target, encoders>>
        /\ (hand' = hand \/ (hand' = [msg |-> Head(queue), to |-> target] /\ Heard(Head(queue))))
    BY <1>6 DEF Take
  <2>2. service.at # "made"
    BY <1>2, <2>1
  <2>3. hand' # Idle => hand'.to = target /\ encoders[target].at \in Going
    <3> SUFFICES ASSUME hand' # Idle PROVE hand'.to = target /\ encoders[target].at \in Going
      OBVIOUS
    <3>1. hand'.to = target /\ target \in Broadcasts /\ encoders[target].at # "failed"
      BY <2>1 DEF Heard, Null, Runnable
    <3> QED BY <1>2, <2>2, <3>1
  <2> QED BY <1>2, <2>1, <2>2, <2>3
<1>7. CASE MisuseCodec
  BY <1>2, <1>7 DEF MisuseCodec
<1>8. CASE EncodeAudio \/ DropAudio \/ StopEncoding
  <2>1. hand # Idle /\ hand' = Idle /\ UNCHANGED <<service, target>>
    BY <1>8 DEF EncodeAudio, DropAudio, StopEncoding
  <2>2. \A b \in Broadcasts : encoders'[b].at = encoders[b].at
    BY <1>8, <2>1, SameState
  <2> QED BY <1>2, <2>1, <2>2
<1>9. ~ReadAgain
  BY <1>2 DEF ReadAgain
<1>10. ASSUME NEW b \in Broadcasts, Recorder(b)
       PROVE  /\ service'.at = "made" => queue' = <<>> /\ hand' = Idle
              /\ service'.at # "made" /\ target' \in Broadcasts =>
                   encoders'[target'].at \in Going \cup {"failed"}
              /\ hand' # Idle => hand'.to = target' /\ encoders'[hand'.to].at \in Going
  <2>1. UNCHANGED <<service, target, hand, encoders>>
    BY <1>10, RecorderStep
  <2>2. CASE queue' = queue
    BY <1>2, <2>1, <2>2
  <2>3. CASE queue' # queue
    <3>1. recorder[b].at # "none" /\ ~Stopped(b)
      BY <1>10, <2>3, RecorderStep DEF Clean
    <3>2. service.now \in Nat /\ b <= service.now
      BY <1>0, <3>1 DEF Overs, ServiceType
    <3>3. b = service.now
      BY <1>0, <3>1, <3>2 DEF Stopped
    <3>4. service.at # "made"
      BY <3>1, <3>3 DEF Overs
    <3> QED BY <1>2, <2>1, <3>4
  <2> QED BY <2>2, <2>3
<1>11. ASSUME NEW b \in Broadcasts, Encoder(b)
       PROVE  /\ service'.at = "made" => queue' = <<>> /\ hand' = Idle
              /\ service'.at # "made" /\ target' \in Broadcasts =>
                   encoders'[target'].at \in Going \cup {"failed"}
              /\ hand' # Idle => hand'.to = target' /\ encoders'[hand'.to].at \in Going
  <2>1. UNCHANGED <<service, queue, target, hand>>
    BY <1>11 DEF Encoder, DequeueOutput, Written, Release, Exit
  <2>2. \A d \in Broadcasts : encoders'[d].at = encoders[d].at \/ encoders'[d].at \in Going
    BY <1>0, <1>11, StaysGoing
  <2> QED BY <1>0, <1>2, <2>1, <2>2
<1>12. CASE UNCHANGED captureVars
  BY <1>2, <1>12 DEF captureVars
<1> QED BY <1>3, <1>4, <1>5, <1>6, <1>7, <1>8, <1>9, <1>10, <1>11, <1>12 DEF CaptureNext, Caller, Handler, Making

LEMMA ClosingKept ==
  ASSUME CaptureTypes, Overs, Told, Opening, Closing, [CaptureNext]_captureVars PROVE Closing'
<1> SUFFICES ASSUME Clean'
             PROVE /\ fault' # "codec"
                   /\ Ascend(queue')
                   /\ hand' # Idle /\ hand'.msg.what = "end" =>
                        \A k \in DOMAIN queue' : queue'[k].what = "end" => hand'.msg.from < queue'[k].from
                   /\ \A m \in UnderWay' : m.what = "end" /\ m.from = service'.now => service'.at = "stopped"
                   /\ hand' # Idle => ~encoders'[hand'.to].ended
                   /\ service'.now > 0 /\ encoders'[service'.now].ended =>
                        service'.at = "stopped" /\ queue' = <<>>
  BY DEF Closing
<1>0. /\ \A m \in UnderWay : m.from \in Broadcasts
      /\ \A b \in Broadcasts : b \in Nat
      /\ encoders \in [Broadcasts -> CodecType] /\ recorder \in [Broadcasts -> RecorderType]
      /\ service \in ServiceType /\ service.now \in Nat /\ target \in Nat /\ hand.to \in Nat
      /\ Idle.to = 0 /\ hand.msg \in Message /\ queue \in Seq(Message)
      /\ (hand # Idle => hand.to \in Broadcasts)
  BY UnderWayIs, MessageFacts DEF CaptureTypes, ServiceType
<1>1. Clean
  BY CleanBefore
<1>2. /\ fault # "codec" /\ Ascend(queue)
      /\ hand # Idle /\ hand.msg.what = "end" =>
           \A k \in DOMAIN queue : queue[k].what = "end" => hand.msg.from < queue[k].from
      /\ \A m \in UnderWay : m.what = "end" /\ m.from = service.now => service.at = "stopped"
      /\ hand # Idle => ~encoders[hand.to].ended
      /\ service.now > 0 /\ encoders[service.now].ended => service.at = "stopped" /\ queue = <<>>
  BY <1>1 DEF Closing
<1>3. CASE UNCHANGED <<queue, hand, encoders, fault>> /\ service'.now = service.now
           /\ (service.at = "stopped" => service'.at = "stopped")
  <2>1. UnderWay' = UnderWay
    BY <1>3 DEF UnderWay
  <2> QED BY <1>2, <1>3, <2>1
<1>4. CASE Start
  <2> DEFINE n == service.now + 1
  <2>1. /\ n \in Broadcasts /\ n > service.now /\ service'.now = n
        /\ encoders' = [encoders EXCEPT ![n] = [encoders[n] EXCEPT !.at = "new"]]
        /\ UNCHANGED <<queue, hand, fault>>
    <3>1. service.now + 1 \in 1..MaxBroadcasts
      BY <1>0, <1>4, AudioAssumption DEF Start
    <3>2. service'.now = n /\ encoders' = [encoders EXCEPT ![n] = [encoders[n] EXCEPT !.at = "new"]]
          /\ UNCHANGED <<queue, hand, fault>>
      BY <1>0, <1>4 DEF Start, ServiceType
    <3> QED BY <1>0, <3>1, <3>2 DEF Broadcasts
  <2>2. \A c \in CodecType : [c EXCEPT !.at = "new"].ended = c.ended
    BY DEF CodecType
  <2> HIDE DEF n
  <2>3. \A d \in Broadcasts : encoders'[d].ended = encoders[d].ended
    BY <1>0, <2>1, <2>2
  <2>4. ~encoders'[n].ended
    BY <2>1, <2>3 DEF Told
  <2>5. UnderWay' = UnderWay
    BY <2>1 DEF UnderWay
  <2>6. \A m \in UnderWay : m.from # n
    <3> SUFFICES ASSUME NEW m \in UnderWay PROVE m.from # n
      OBVIOUS
    <3>1. m.from \in Nat /\ m.from <= service.now
      BY <1>0 DEF Told
    <3> QED BY <1>0, <2>1, <3>1
  <2>7. hand' # Idle => ~encoders'[hand'.to].ended
    BY <1>0, <1>2, <2>1, <2>3
  <2> QED BY <1>2, <2>1, <2>4, <2>5, <2>6, <2>7
<1>5. CASE Making
  <2> DEFINE n == service.now
  <2>1. n \in Broadcasts /\ service'.now = n /\ service.at = "made" /\ UNCHANGED <<queue, hand>>
    BY <1>5, MakingStep
  <2>2. fault' # "codec"
    <3>1. queue = <<>>
      BY <1>1, <2>1 DEF Opening
    <3> QED BY <1>2, <1>5, <3>1, MakingStep
  <2>3. \A d \in Broadcasts : encoders'[d].ended = encoders[d].ended
    BY <1>5, MakingStep
  <2>4. UnderWay' = UnderWay
    BY <2>1 DEF UnderWay
  <2>5. ~encoders'[service'.now].ended
    BY <1>0, <1>2, <2>1, <2>3, MessageFacts
  <2>6. \A m \in UnderWay' : ~(m.what = "end" /\ m.from = service'.now)
    BY <1>2, <2>1, <2>4
  <2>7. hand' # Idle => ~encoders'[hand'.to].ended
    BY <1>0, <1>2, <2>1, <2>3
  <2> QED BY <1>2, <2>1, <2>2, <2>5, <2>6, <2>7
<1>6. CASE Stop
  <2>1. service.at # "stopped"
    <3>1. ~service'.again
      BY DEF Clean
    <3>2. service'.again = (service.again \/ service.at = "stopped")
      BY <1>0, <1>6 DEF Stop, ServiceType
    <3> QED BY <3>1, <3>2
  <2> QED BY <1>0, <1>3, <1>6, <2>1 DEF Stop, ServiceType
<1>7. CASE SendEnd
  <2> DEFINE n == service.now
             x == End(n)
  <2>1. service'.at = "stopped" /\ service'.now = n /\ service.at = "ending" /\ queue' = Append(queue, x)
        /\ UNCHANGED <<hand, encoders, fault>> /\ n \in Broadcasts /\ n > 0
    BY <1>0, <1>7, MessageFacts DEF SendEnd, ServiceType, CaptureTypes
  <2>2. x \in Message /\ x.from = n /\ x.what = "end"
    BY <2>1, MessageFacts DEF End
  <2>3. ~encoders[n].ended
    BY <1>2, <2>1
  <2>4. \A m \in UnderWay : m.what = "end" => m.from < n
    <3> SUFFICES ASSUME NEW m \in UnderWay, m.what = "end" PROVE m.from < n
      OBVIOUS
    <3>1. m.from # n
      BY <1>2, <2>1
    <3>2. m.from \in Nat /\ m.from <= n
      BY <1>0 DEF Told
    <3> QED BY <1>0, <3>1, <3>2
  <2> HIDE DEF n, x
  <2>5. /\ DOMAIN queue = 1..Len(queue) /\ Len(queue) \in Nat
        /\ DOMAIN queue' = 1..(Len(queue) + 1)
        /\ \A k \in DOMAIN queue : queue'[k] = queue[k]
        /\ queue'[Len(queue) + 1] = x
    BY <1>0, <2>1, <2>2, PutLast
  <2>6. \A k \in DOMAIN queue' : (k \in DOMAIN queue /\ queue'[k] = queue[k]) \/ (k = Len(queue) + 1 /\ queue'[k] = x)
    BY <2>5
  <2>7. \A k \in DOMAIN queue : queue[k] \in UnderWay
    BY UnderWayIs
  <2>8. Ascend(queue')
    <3> SUFFICES ASSUME NEW i \in DOMAIN queue', NEW j \in DOMAIN queue', i < j,
                        queue'[i].what = "end", queue'[j].what = "end"
                 PROVE  queue'[i].from < queue'[j].from
      BY DEF Ascend
    <3>1. i \in DOMAIN queue /\ queue'[i] = queue[i]
      <4>1. i # Len(queue) + 1
        BY <2>5
      <4> QED BY <2>6, <4>1
    <3>2. CASE j \in DOMAIN queue /\ queue'[j] = queue[j]
      BY <1>2, <3>1, <3>2 DEF Ascend
    <3>3. CASE queue'[j] = x
      BY <2>2, <2>4, <2>7, <3>1, <3>3
    <3> QED BY <2>6, <3>2, <3>3
  <2>9. hand' # Idle /\ hand'.msg.what = "end" =>
          \A k \in DOMAIN queue' : queue'[k].what = "end" => hand'.msg.from < queue'[k].from
    <3> SUFFICES ASSUME hand # Idle, hand.msg.what = "end", NEW k \in DOMAIN queue', queue'[k].what = "end"
                 PROVE  hand.msg.from < queue'[k].from
      BY <2>1
    <3>1. hand.msg.from < n
      BY <2>4, UnderWayIs
    <3> QED BY <1>2, <2>2, <2>6, <3>1
  <2> QED BY <1>2, <2>1, <2>3, <2>8, <2>9
<1>8. CASE Take
  <2>1. queue # <<>> /\ queue' = Tail(queue) /\ hand = Idle /\ UNCHANGED <<service, encoders, fault>>
        /\ (hand' = hand \/ (hand' = [msg |-> Head(queue), to |-> target] /\ target \in Broadcasts))
    BY <1>8 DEF Take, Heard
  <2>2. /\ 1 \in DOMAIN queue /\ Head(queue) = queue[1]
        /\ \A k \in DOMAIN Tail(queue) : k \in Nat /\ k + 1 \in DOMAIN queue /\ Tail(queue)[k] = queue[k + 1]
    BY <1>0, <2>1, TakeFirst
  <2>3. Ascend(queue')
    <3> SUFFICES ASSUME NEW i \in DOMAIN queue', NEW j \in DOMAIN queue', i < j,
                        queue'[i].what = "end", queue'[j].what = "end"
                 PROVE  queue'[i].from < queue'[j].from
      BY DEF Ascend
    <3>1. i + 1 \in DOMAIN queue /\ j + 1 \in DOMAIN queue /\ i + 1 < j + 1
          /\ queue'[i] = queue[i + 1] /\ queue'[j] = queue[j + 1]
      BY <2>1, <2>2
    <3> QED BY <1>2, <3>1 DEF Ascend
  <2>4. hand' # Idle /\ hand'.msg.what = "end" =>
          \A k \in DOMAIN queue' : queue'[k].what = "end" => hand'.msg.from < queue'[k].from
    <3> SUFFICES ASSUME hand' # Idle, hand'.msg.what = "end", NEW k \in DOMAIN queue', queue'[k].what = "end"
                 PROVE  hand'.msg.from < queue'[k].from
      OBVIOUS
    <3>1. hand'.msg = queue[1]
      BY <2>1, <2>2
    <3>2. k + 1 \in DOMAIN queue /\ 1 < k + 1 /\ queue'[k] = queue[k + 1]
      <4>1. k \in Nat /\ k > 0
        <5>1. Tail(queue) \in Seq(Message)
          BY <1>0, <2>1, TakeFirst
        <5> QED BY <2>1, <5>1
      <4> QED BY <2>1, <2>2, <4>1
    <3> QED BY <1>2, <2>2, <3>1, <3>2 DEF Ascend
  <2>5. \A m \in UnderWay' : m \in UnderWay
    BY <1>8, HandlerTakes DEF Handler
  <2>6. service.now > 0 => ~encoders[service.now].ended
    BY <1>2, <2>1
  <2>7. hand' # Idle => ~encoders'[hand'.to].ended
    <3>1. hand' # Idle => target \in Broadcasts /\ hand'.to = target
      BY <2>1
    <3>2. target \in Broadcasts => target = service.now /\ service.now > 0
      BY MessageFacts DEF Told
    <3> QED BY <2>1, <2>6, <3>1, <3>2
  <2> QED BY <1>2, <2>1, <2>3, <2>4, <2>5, <2>6, <2>7
<1>9. CASE MisuseCodec
  <2>1. hand # Idle /\ encoders[hand.to].at \in {"created", "failed", "released", "done"}
    BY <1>9 DEF MisuseCodec
  <2>2. encoders[hand.to].at \in {"released", "done"}
    BY <1>1, <2>1 DEF Opening, Going, Runnable
  <2>3. encoders[hand.to].ended
    BY <1>0, <2>1, <2>2 DEF Told
  <2> QED BY <1>2, <2>1, <2>3
<1>10. CASE EncodeAudio \/ DropAudio
  <2>1. UNCHANGED <<service, queue, fault>> /\ hand' = Idle /\ hand # Idle
    BY <1>10 DEF EncodeAudio, DropAudio
  <2>2. \A b \in Broadcasts : encoders'[b].ended = encoders[b].ended
    <3> DEFINE q == Append(encoders[hand.to].input, hand.msg)
    <3>1. encoders' = encoders \/ encoders' = [encoders EXCEPT ![hand.to] = [encoders[hand.to] EXCEPT !.input = q]]
      BY <1>10 DEF EncodeAudio, DropAudio
    <3> HIDE DEF q
    <3>2. \A c \in CodecType : [c EXCEPT !.input = q].ended = c.ended
      BY DEF CodecType
    <3>3. CASE encoders' = encoders
      BY <3>3
    <3>4. CASE encoders' = [encoders EXCEPT ![hand.to] = [encoders[hand.to] EXCEPT !.input = q]]
      BY <1>0, <2>1, <3>2, <3>4
    <3> QED BY <3>1, <3>3, <3>4
  <2>3. UnderWay' \subseteq UnderWay
    BY <1>10, HandlerTakes DEF Handler
  <2>4. service'.now > 0 /\ encoders'[service'.now].ended => service'.at = "stopped" /\ queue' = <<>>
    <3>1. service.now > 0 => service.now \in Broadcasts
      <4>1. service.now \in 0..MaxBroadcasts
        BY <1>0 DEF ServiceType
      <4> QED BY <4>1, AudioAssumption DEF Broadcasts
    <3> QED BY <1>2, <2>1, <2>2, <3>1
  <2> QED BY <1>2, <2>1, <2>3, <2>4
<1>11. CASE StopEncoding
  <2> DEFINE b == hand.msg.from
             e == hand.to
  <2>1. /\ hand # Idle /\ hand.msg.what = "end" /\ hand' = Idle /\ queue' \in RemoveAudio(queue)
        /\ UNCHANGED <<service, fault>> /\ e \in Broadcasts /\ b \in Broadcasts
    BY <1>0, <1>11, MessageFacts DEF StopEncoding
  <2>2. lost = {} /\ lost' = {}
    BY <1>1 DEF Clean
  <2>3. ~encoders[e].ended
    BY <1>2, <2>1
  <2>4. e = b /\ encoders' = [encoders EXCEPT ![e].input = Append(@, hand.msg), ![e].ended = TRUE]
    <3>1. b \notin lost'
      BY <2>2
    <3> QED BY <1>11, <2>3, <3>1 DEF StopEncoding
  <2>5. encoders'[e].ended /\ \A d \in Broadcasts : d # e => encoders'[d] = encoders[d]
    <3> DEFINE q == Append(encoders[e].input, hand.msg)
               c == [encoders[e] EXCEPT !.input = q, !.ended = TRUE]
    <3>1. encoders' = [encoders EXCEPT ![e] = c]
      BY <1>0, <2>1, <2>4
    <3>2. c.ended
      <4>1. encoders[e] \in CodecType
        BY <1>0, <2>1
      <4> HIDE DEF q
      <4> QED BY <4>1 DEF CodecType
    <3> HIDE DEF c, e
    <3> QED BY <1>0, <2>1, <3>1, <3>2
  <2>6. /\ \A i \in DOMAIN queue' : queue'[i].what = "end" /\ \E k \in DOMAIN queue : queue'[i] = queue[k]
        /\ \A i, j \in DOMAIN queue' : i < j =>
             \E k, l \in DOMAIN queue : k < l /\ queue'[i] = queue[k] /\ queue'[j] = queue[l]
        /\ queue' \in Seq(Message)
    BY <1>0, <2>1, RestInOrder
  <2>7. Ascend(queue')
    <3> SUFFICES ASSUME NEW i \in DOMAIN queue', NEW j \in DOMAIN queue', i < j,
                        queue'[i].what = "end", queue'[j].what = "end"
                 PROVE  queue'[i].from < queue'[j].from
      BY DEF Ascend
    <3>1. PICK k \in DOMAIN queue, l \in DOMAIN queue : k < l /\ queue'[i] = queue[k] /\ queue'[j] = queue[l]
      BY <2>6
    <3> QED BY <1>2, <3>1 DEF Ascend
  <2>8. \A m \in UnderWay' : m \in UnderWay
    BY <1>11, HandlerTakes DEF Handler
  <2>9. CASE e = service.now
    <3>1. service.at = "stopped"
      <4>1. hand.msg \in UnderWay
        BY <2>1, UnderWayIs
      <4> QED BY <1>2, <2>1, <2>4, <2>9, <4>1
    <3>2. ASSUME NEW i \in DOMAIN queue' PROVE FALSE
      <4>1. PICK k \in DOMAIN queue : queue'[i] = queue[k] /\ queue[k].what = "end"
        BY <2>6
      <4>2. b < queue[k].from
        BY <1>2, <2>1, <4>1
      <4>3. queue[k].from \in Nat /\ queue[k].from <= service.now
        <5>1. queue[k] \in UnderWay
          BY UnderWayIs
        <5> QED BY <1>0, <5>1 DEF Told
      <4> HIDE DEF b, e
      <4> QED BY <1>0, <2>1, <2>4, <2>9, <4>2, <4>3
    <3>3. queue' = <<>>
      BY <2>6, <3>2
    <3> QED BY <1>2, <2>1, <2>7, <2>8, <3>1, <3>3
  <2>10. CASE e # service.now
    <3>1. service.now > 0 => service.now \in Broadcasts
      <4>1. service.now \in 0..MaxBroadcasts
        BY <1>0 DEF ServiceType
      <4> QED BY <4>1, AudioAssumption DEF Broadcasts
    <3>2. service.now > 0 /\ encoders'[service.now].ended => service.at = "stopped" /\ queue' = <<>>
      <4> SUFFICES ASSUME service.now > 0, encoders'[service.now].ended
                   PROVE  service.at = "stopped" /\ queue' = <<>>
        OBVIOUS
      <4>1. encoders[service.now].ended
        BY <2>5, <2>10, <3>1
      <4>2. queue = <<>> /\ service.at = "stopped"
        BY <1>2, <4>1
      <4>3. ASSUME NEW i \in DOMAIN queue' PROVE FALSE
        BY <2>6, <4>2
      <4>4. queue' = <<>>
        BY <2>6, <4>3
      <4> QED BY <4>2, <4>4
    <3> QED BY <1>2, <2>1, <2>7, <2>8, <3>2
  <2> QED BY <2>9, <2>10
<1>12. ASSUME NEW b \in Broadcasts, Recorder(b)
       PROVE /\ fault' # "codec"
             /\ Ascend(queue')
             /\ hand' # Idle /\ hand'.msg.what = "end" =>
                  \A k \in DOMAIN queue' : queue'[k].what = "end" => hand'.msg.from < queue'[k].from
             /\ \A m \in UnderWay' : m.what = "end" /\ m.from = service'.now => service'.at = "stopped"
             /\ hand' # Idle => ~encoders'[hand'.to].ended
             /\ service'.now > 0 /\ encoders'[service'.now].ended =>
                  service'.at = "stopped" /\ queue' = <<>>
  <2>1. UNCHANGED <<service, hand, encoders>> /\ fault' # "codec"
    BY <1>2, <1>12, RecorderStep
  <2>2. CASE UnderWay' = UnderWay /\ queue' = queue
    BY <1>2, <2>1, <2>2
  <2>3. CASE ~(UnderWay' = UnderWay /\ queue' = queue)
    <3>1. PICK n \in 1..MaxSamples[b] : queue' = Append(queue, Audio(b, n)) /\ UnderWay' = UnderWay \cup {Audio(b, n)}
      BY <1>12, <2>3, RecorderStep
    <3>2. recorder[b].at # "none" /\ ~Stopped(b)
      BY <1>12, <2>3, RecorderStep DEF Clean
    <3> DEFINE x == Audio(b, n)
    <3>3. x \in Message /\ x.what = "audio"
      BY MessageFacts DEF Audio
    <3> HIDE DEF x
    <3>4. /\ DOMAIN queue = 1..Len(queue) /\ Len(queue) \in Nat
          /\ DOMAIN queue' = 1..(Len(queue) + 1)
          /\ \A k \in DOMAIN queue : queue'[k] = queue[k]
          /\ queue'[Len(queue) + 1] = x
      <4>1. queue' = Append(queue, x)
        BY <3>1 DEF x
      <4> QED BY <1>0, <3>3, <4>1, PutLast
    <3>5. \A k \in DOMAIN queue' : queue'[k].what = "end" => k \in DOMAIN queue /\ queue'[k] = queue[k]
      <4>1. \A k \in DOMAIN queue' : k \in DOMAIN queue \/ k = Len(queue) + 1
        BY <3>4
      <4>2. x.what # "end"
        BY <3>3
      <4> QED BY <3>4, <4>1, <4>2
    <3>6. Ascend(queue')
      BY <1>2, <3>5 DEF Ascend
    <3>7. hand' # Idle /\ hand'.msg.what = "end" =>
            \A k \in DOMAIN queue' : queue'[k].what = "end" => hand'.msg.from < queue'[k].from
      BY <1>2, <2>1, <3>5
    <3>8. \A m \in UnderWay' : m.what = "end" => m \in UnderWay
      <4>1. UnderWay' = UnderWay \cup {x} /\ x.what # "end"
        BY <3>1, <3>3 DEF x
      <4> QED BY <4>1
    <3>9. b <= service.now
      BY <1>0, <3>2 DEF Overs
    <3>10. b = service.now /\ service.at # "stopped"
      BY <1>0, <3>2, <3>9 DEF Stopped
    <3> QED BY <1>2, <2>1, <3>6, <3>7, <3>8, <3>10
  <2> QED BY <2>2, <2>3
<1>13. ASSUME NEW b \in Broadcasts, Encoder(b)
       PROVE /\ UNCHANGED <<queue, hand, fault, service>>
             /\ \A d \in Broadcasts : encoders'[d].ended = encoders[d].ended
  <2>1. UNCHANGED <<queue, hand, fault, service>>
    BY <1>13 DEF Encoder, DequeueOutput, Written, Release, Exit
  <2>2. CASE DequeueOutput(b)
    <3> DEFINE q == encoders[b].input
               at == IF Head(q).what = "end" THEN "writingEnd" ELSE "writing"
               t == Tail(q)
    <3>1. encoders' = [encoders EXCEPT ![b] = [encoders[b] EXCEPT !.input = t, !.at = at]]
      BY <2>2 DEF DequeueOutput
    <3> HIDE DEF t, at
    <3>2. \A c \in CodecType : [c EXCEPT !.input = t, !.at = at].ended = c.ended
      BY DEF CodecType
    <3> QED BY <1>0, <2>1, <3>1, <3>2
  <2>3. CASE Written(b) \/ Release(b) \/ Exit(b)
    <3>1. PICK at : encoders' = [encoders EXCEPT ![b] = [encoders[b] EXCEPT !.at = at]]
      BY <2>3 DEF Written, Release, Exit
    <3>2. \A c \in CodecType : [c EXCEPT !.at = at].ended = c.ended
      BY DEF CodecType
    <3> QED BY <1>0, <2>1, <3>1, <3>2
  <2> QED BY <1>13, <2>2, <2>3 DEF Encoder
<1>14. CASE /\ UNCHANGED <<queue, hand, fault, service>>
            /\ \A d \in Broadcasts : encoders'[d].ended = encoders[d].ended
  <2>1. UnderWay' = UnderWay
    BY <1>14 DEF UnderWay
  <2>2. service.now > 0 => service.now \in Broadcasts
    <3>1. service.now \in 0..MaxBroadcasts
      BY <1>0 DEF ServiceType
    <3> QED BY <3>1, AudioAssumption DEF Broadcasts
  <2> QED BY <1>0, <1>2, <1>14, <2>1, <2>2
<1>15. CASE UNCHANGED captureVars
  <2>1. UNCHANGED <<queue, hand, fault, service, encoders>>
    BY <1>15 DEF captureVars
  <2> QED BY <1>14, <2>1
<1> QED
  <2>1. CASE Caller
    BY <1>4, <1>5, <1>6, <1>7, <2>1 DEF Caller, Making
  <2>2. CASE Handler
    <3>1. ~ReadAgain
      BY <1>1 DEF ReadAgain, Opening
    <3> QED BY <1>8, <1>9, <1>10, <1>11, <2>2, <3>1 DEF Handler
  <2>3. CASE \E b \in Broadcasts : Recorder(b)
    BY <1>12, <2>3
  <2>4. CASE \E b \in Broadcasts : Encoder(b)
    BY <1>13, <1>14, <2>4
  <2> QED BY <1>15, <2>1, <2>2, <2>3, <2>4 DEF CaptureNext

\* A recorder that was done when a codec was told the end has no sample under way to that
\* codec, and a codec not yet started or already released is used only after one of the four
\* races the code leaves open, for any number of broadcasts, stops, samples and input buffers.
THEOREM EndStaysLast == CaptureSpec => []EndIsLast
<1> DEFINE Inv == CaptureTypes /\ Overs /\ Told /\ Opening /\ Closing
<1>1. CaptureInit => Inv
  <2> SUFFICES ASSUME CaptureInit PROVE Overs /\ Told /\ Opening /\ Closing
    BY StartTyped
  <2>1. UnderWay = {} /\ hand = Idle /\ queue = <<>> /\ target = 0 /\ Idle.to = 0 /\ fault = "none"
    BY MessageFacts DEF CaptureInit, UnderWay, ToSet
  <2>2. service.at = "idle" /\ service.now = 0
    BY DEF CaptureInit
  <2>3. \A b \in Broadcasts : recorder[b].at = "none" /\ over[b] = {}
    BY DEF CaptureInit
  <2>4. \A b \in Broadcasts : encoders[b].at = "none" /\ encoders[b].input = <<>> /\ ~encoders[b].ended
    BY DEF CaptureInit
  <2>5. Overs
    BY <2>1, <2>2, <2>3 DEF Overs
  <2>6. Told
    BY <2>1, <2>2, <2>4 DEF Told
  <2>7. Closing
    BY <2>1, <2>2 DEF Closing, Ascend
  <2>8. Opening
    BY <2>1, <2>2, MessageFacts DEF Opening
  <2> QED BY <2>5, <2>6, <2>7, <2>8
<1>2. Inv /\ [CaptureNext]_captureVars => Inv'
  BY CaptureTypesKept, OversKept, ToldKept, OpeningKept, ClosingKept
<1>3. Inv => EndIsLast
  <2> SUFFICES ASSUME Inv PROVE EndIsLast
    OBVIOUS
  <2>1. hand # Idle /\ hand.msg.what = "audio" => hand.msg.from \notin over[hand.to]
    BY UnderWayIs DEF Overs, CaptureTypes
  <2>2. fault = "codec" => ~Clean
    BY DEF Closing
  <2>3. ~Clean => (\E b \in Broadcasts : recorder[b].late \/ b \in lost) \/ service.again \/ service.early
    <3>1. lost \subseteq Broadcasts /\ 1 \in Broadcasts
      BY MessageFacts DEF CaptureTypes
    <3> QED BY <3>1 DEF Clean
  <2> QED BY <2>1, <2>2, <2>3 DEF EndIsLast
<1> QED BY <1>1, <1>2, <1>3, PTL DEF CaptureSpec

-----------------------------------------------------------------------------
(* The encoder of the pictures.                                            *)

Runnables == {"start", "stop", "change", "pausing"}
EncoderMessages == {"start", "stop", "release", "quit", "update", "frame"}

\* Of the main thread and the timer; a pause was counted when it began.
CallTypes ==
  /\ ui \in {"free", "poll", "stop", "quit", "pause", "pauseView"}
  /\ pausing \in BOOLEAN /\ opening \in BOOLEAN /\ isRecording \in BOOLEAN
  /\ timer \in BOOLEAN /\ task \in BOOLEAN
  /\ starts \in 0..MaxStarts /\ changes \in 0..MaxChanges /\ pauses \in 0..MaxPauses
  /\ ui \in {"pause", "pauseView"} \/ (pausing /\ ui \in {"poll", "stop", "quit"}) =>
       pauses < MaxPauses
\* Of the GL thread.
DrawTypes ==
  /\ gl \in {"idle", "waiting", "start", "update", "release", "stop", "quit",
            "texture", "setTexture", "frame", "sendFrame"}
  /\ enabled \in BOOLEAN /\ rendering \in BOOLEAN
  /\ status \in {"none", "off", "on", "resumed", "changed"}
  /\ view \in {"new", "ready", "released", "paused"}
\* Of the encoder's thread and the streamer.
CoreTypes ==
  /\ thread \in {"none", "new", "loop", "quit"}
  /\ running \in BOOLEAN /\ ready \in BOOLEAN /\ handler \in BOOLEAN
  /\ core \in Core
StreamTypes ==
  /\ connected \in BOOLEAN
  /\ stops \in Nat /\ decoder \in 0..core.id /\ streamed \in 0..core.id
VideoTypes ==
  /\ CallTypes /\ DrawTypes /\ CoreTypes /\ StreamTypes
  /\ events \in Seq(Runnables) /\ messages \in Seq(EncoderMessages)

\* One broadcast at one bitrate.
SingleEncoder == MaxStarts <= 1 /\ MaxChanges = 0

\* The start of the broadcast has been run by the GL thread; none is to come.
NoMore == starts = 1 /\ ~opening /\ \A k \in DOMAIN events : events[k] # "start"

\* What the user's actions leave in the GL thread's runnables.
Asked ==
  /\ starts \in {0, 1} /\ changes = 0 /\ ~task /\ status # "changed" /\ gl # "release"
  /\ \A k \in DOMAIN events : events[k] # "change"
  /\ starts = 0 => ~opening
  /\ starts = 0 \/ opening => ~timer /\ \A k \in DOMAIN events : events[k] = "pausing"
  /\ starts = 0 \/ opening => ~isRecording
  /\ \A k \in DOMAIN events : events[k] = "stop" => ~timer
  /\ \A j, k \in DOMAIN events : events[j] = "start" /\ events[k] = "start" => j = k
  /\ enabled => NoMore

\* No thread, one whose start is to come, and one that was stopped before it.
Untouched == core = NoCore /\ stops = 0 /\ decoder = 0 /\ streamed = 0
Looping == thread = "loop" /\ running /\ ready /\ handler
Fresh ==
  /\ Untouched /\ messages = <<>> /\ thread = "none" /\ ~running /\ ~ready /\ ~handler
  /\ status \in {"none", "off"} /\ gl \in {"idle", "texture"} /\ ui \notin {"stop", "quit"}
Starting ==
  /\ Untouched /\ messages = <<>> /\ NoMore /\ status = "off" /\ ui # "quit"
  /\ \/ /\ thread = "new" /\ running /\ ~ready /\ ~handler
        /\ gl = "waiting" /\ ui # "stop"
     \/ Looping /\ gl \in {"waiting", "start"}
Doomed == Untouched /\ NoMore /\ Looping /\ messages # <<>> /\ Head(messages) = "stop"

\* Every quit comes behind a stop, and the GL thread does not start another recording.
Freed == core.id = 1 /\ ~core.codec
StopIn(n) == \E j \in DOMAIN messages : j < n /\ messages[j] = "stop"
StopFirst ==
  /\ gl = "quit" \/ ui = "quit" => Freed \/ \E j \in DOMAIN messages : messages[j] = "stop"
  /\ \A k \in DOMAIN messages : messages[k] = "quit" => Freed \/ StopIn(k)
Begun == NoMore /\ gl \notin {"waiting", "start"} /\ (enabled => status \in {"on", "resumed"})
Pending ==
  /\ Untouched /\ Looping /\ messages # <<>> /\ Head(messages) = "start"
  /\ \A k \in DOMAIN messages : messages[k] = "start" => k = 1
  /\ Begun /\ StopFirst

\* The one encoder, in use or left.
Unstopped == core.codec => stops = 0
Active ==
  /\ core.id = 1 /\ Unstopped /\ (running <=> handler) /\ (running <=> ready)
  /\ \/ thread = "loop" /\ running
     \/ thread = "quit" /\ running /\ ~core.codec /\ messages = <<>>
     \/ thread = "none" /\ ~running /\ ~core.codec /\ messages = <<>>
  /\ \A k \in DOMAIN messages : messages[k] # "start"
  /\ Begun /\ StopFirst

Life == Fresh \/ Starting \/ Doomed \/ Pending \/ Active
KnownToRenderer == running /\ timer => enabled
EncoderInv == Asked /\ KnownToRenderer /\ (crash = "none" => Life)

LEMMA VideoBounds ==
  MaxStarts \in Nat /\ MaxChanges \in Nat /\ MaxPauses \in Nat
BY BoundsAssumption

LEMMA CoreFacts ==
  /\ NoCore \in Core /\ NoCore.id = 0 /\ ~NoCore.codec
  /\ \A c \in Core : c.id \in Nat /\ c.codec \in BOOLEAN /\ c.configured \in BOOLEAN
BY DEF NoCore, Core

LEMMA SendTyped ==
  ASSUME messages \in Seq(EncoderMessages), NEW m \in EncoderMessages, NEW c, Send(m, c)
  PROVE  messages' \in Seq(EncoderMessages)
<1>1. Append(messages, m) \in Seq(EncoderMessages)
  OBVIOUS
<1> QED BY <1>1 DEF Send

\* The main thread's actions change neither the encoder nor where the GL thread is.
LEMMA MainTyped ==
  ASSUME VideoTypes, Main PROVE VideoTypes'
<1>1. /\ MaxStarts \in Nat /\ MaxChanges \in Nat /\ MaxPauses \in Nat
      /\ starts \in Nat /\ changes \in Nat /\ pauses \in Nat
  BY VideoBounds DEF VideoTypes, CallTypes
<1>2. events \in Seq(Runnables) /\ messages \in Seq(EncoderMessages)
  BY DEF VideoTypes
<1>3. ASSUME NEW e \in Runnables PROVE Append(events, e) \in Seq(Runnables)
  BY <1>2
<1>4. CallTypes /\ DrawTypes /\ CoreTypes /\ StreamTypes
  BY DEF VideoTypes
<1>5. ASSUME CallTypes', UNCHANGED <<drawVars, codecVars, rtmpVars>>,
             events' \in Seq(Runnables), messages' \in Seq(EncoderMessages)
      PROVE  VideoTypes'
  <2>1. DrawTypes'
    BY <1>4, <1>5 DEF drawVars, DrawTypes
  <2>2. CoreTypes' /\ StreamTypes'
    BY <1>4, <1>5 DEF codecVars, rtmpVars, CoreTypes, StreamTypes
  <2> QED BY <1>5, <2>1, <2>2 DEF VideoTypes
<1>6. CASE StartBroadcasting
  <2>1. CallTypes'
    <3>1. starts < MaxStarts /\ starts' = starts + 1
      BY <1>6 DEF StartBroadcasting
    <3>2. starts' \in 0..MaxStarts
      BY <1>1, <3>1
    <3> QED BY <1>4, <1>6, <3>2 DEF StartBroadcasting, CallTypes
  <2> QED BY <1>2, <1>5, <1>6, <2>1 DEF StartBroadcasting
<1>7. CASE Opened
  <2>1. CallTypes'
    BY <1>4, <1>7 DEF Opened, CallTypes
  <2>2. events' \in Seq(Runnables)
    BY <1>3, <1>7 DEF Opened, QueueEvent, Runnables
  <2>3. core' = core /\ core.id \in Nat
    BY <1>4, <1>7, CoreFacts DEF Opened, codecVars, CoreTypes
  <2>4. StreamTypes'
    BY <1>4, <1>7, <2>3 DEF Opened, StreamTypes
  <2>5. DrawTypes' /\ CoreTypes' /\ messages' = messages
    BY <1>4, <1>7 DEF Opened, drawVars, codecVars, DrawTypes, CoreTypes
  <2> QED BY <1>2, <2>1, <2>2, <2>4, <2>5 DEF VideoTypes
<1>8. CASE OpenFails
  <2>1. CallTypes'
    BY <1>4, <1>8 DEF OpenFails, CallTypes
  <2> QED BY <1>2, <1>5, <1>8, <2>1 DEF OpenFails
<1>9. CASE TimerFires
  <2>1. CallTypes'
    BY <1>1, <1>4, <1>9 DEF TimerFires, CallTypes
  <2> QED BY <1>2, <1>5, <1>9, <2>1 DEF TimerFires
<1>10. CASE TimerPosts
  <2>1. CallTypes'
    BY <1>4, <1>10 DEF TimerPosts, CallTypes
  <2>2. events' \in Seq(Runnables)
    BY <1>3, <1>10 DEF TimerPosts, QueueEvent, Runnables
  <2> QED BY <1>2, <1>5, <1>10, <2>1, <2>2 DEF TimerPosts
<1>11. CASE \E p \in BOOLEAN : StopBroadcasting(p)
  <2>1. PICK p \in BOOLEAN : StopBroadcasting(p)
    BY <1>11
  <2>2. CallTypes'
    BY <1>4, <2>1 DEF StopBroadcasting, CallTypes
  <2>3. events' \in Seq(Runnables)
    BY <1>2, <1>3, <2>1 DEF StopBroadcasting, QueueEvent, Runnables
  <2> QED BY <1>2, <1>5, <2>1, <2>2, <2>3 DEF StopBroadcasting
<1>12. CASE Poll
  <2>1. CallTypes'
    BY <1>4, <1>12 DEF Poll, Returned, CallTypes
  <2> QED BY <1>2, <1>5, <1>12, <2>1 DEF Poll
<1>13. CASE ForceStop
  <2>1. CallTypes'
    BY <1>4, <1>13 DEF ForceStop, Returned, CallTypes
  <2>2. messages' \in Seq(EncoderMessages)
    <3>1. ui \in EncoderMessages /\ Send(ui, "stopBroadcasting")
      BY <1>13 DEF ForceStop, EncoderMessages
    <3> QED BY <1>2, <3>1, SendTyped
  <2> QED BY <1>2, <1>5, <1>13, <2>1, <2>2 DEF ForceStop
<1>14. CASE QueuePausing
  <2>1. CallTypes'
    BY <1>4, <1>14 DEF QueuePausing, CallTypes
  <2>2. events' \in Seq(Runnables)
    BY <1>3, <1>14 DEF QueuePausing, QueueEvent, Runnables
  <2> QED BY <1>2, <1>5, <1>14, <2>1, <2>2 DEF QueuePausing
<1>15. CASE PauseView
  <2>1. CallTypes' /\ DrawTypes'
    <3>1. pauses < MaxPauses /\ pauses' = pauses + 1
      BY <1>4, <1>15 DEF PauseView, CallTypes
    <3>2. pauses' \in 0..MaxPauses
      BY <1>1, <3>1
    <3> QED BY <1>4, <1>15, <3>2 DEF PauseView, CallTypes, DrawTypes
  <2>2. CoreTypes' /\ StreamTypes' /\ events' = events /\ messages' = messages
    BY <1>4, <1>15 DEF PauseView, codecVars, rtmpVars, CoreTypes, StreamTypes
  <2> QED BY <1>2, <2>1, <2>2 DEF VideoTypes
<1>16. CASE ChangeCamera
  <2>1. CallTypes'
    BY <1>4, <1>16 DEF ChangeCamera, CallTypes
  <2> QED BY <1>2, <1>5, <1>16, <2>1 DEF ChangeCamera
<1>17. CASE ResumeView \/ CameraFrame
  <2>1. CallTypes'
    BY <1>4, <1>17 DEF ResumeView, CameraFrame, mainVars, CallTypes
  <2>2. DrawTypes'
    BY <1>4, <1>17 DEF ResumeView, CameraFrame, DrawTypes
  <2>3. CoreTypes' /\ StreamTypes' /\ events' = events /\ messages' = messages
    BY <1>4, <1>17 DEF ResumeView, CameraFrame, codecVars, rtmpVars, CoreTypes, StreamTypes
  <2> QED BY <1>2, <2>1, <2>2, <2>3 DEF VideoTypes
<1> QED BY <1>6, <1>7, <1>8, <1>9, <1>10, <1>11, <1>12, <1>13, <1>14, <1>15, <1>16, <1>17
        DEF Main, Stopping

LEMMA GlTyped ==
  ASSUME VideoTypes, GlThread PROVE VideoTypes'
<1>1. CallTypes /\ DrawTypes /\ CoreTypes /\ StreamTypes
      /\ events \in Seq(Runnables) /\ messages \in Seq(EncoderMessages)
  BY DEF VideoTypes
<1>2. ASSUME DrawTypes', UNCHANGED <<mainVars, codecVars, rtmpVars>>,
             events' \in Seq(Runnables), messages' \in Seq(EncoderMessages)
      PROVE  VideoTypes'
  <2>1. CallTypes'
    BY <1>1, <1>2 DEF mainVars, CallTypes
  <2>2. CoreTypes' /\ StreamTypes'
    BY <1>1, <1>2 DEF codecVars, rtmpVars, CoreTypes, StreamTypes
  <2> QED BY <1>2, <2>1, <2>2 DEF VideoTypes
<1>3. CASE RunEvent
  <2>1. DrawTypes'
    BY <1>1, <1>3 DEF RunEvent, ConfigChanged, DrawTypes
  <2>2. events' \in Seq(Runnables)
    BY <1>1, <1>3, TakeFirst DEF RunEvent
  <2> QED BY <1>1, <1>2, <1>3, <2>1, <2>2 DEF RunEvent
<1>4. CASE OnSurfaceCreated
  <2>1. DrawTypes'
    BY <1>1, <1>4 DEF OnSurfaceCreated, IsRecording, DrawTypes, CoreTypes
  <2> QED BY <1>1, <1>2, <1>4, <2>1 DEF OnSurfaceCreated
<1>5. CASE Draw
  <2>1. DrawTypes'
    BY <1>1, <1>5 DEF Draw, AfterRelease, DrawTypes
  <2>2. CoreTypes' /\ core' = core
    BY <1>1, <1>5 DEF Draw, CoreTypes
  <2>3. CallTypes' /\ StreamTypes' /\ events' = events /\ messages' = messages
    BY <1>1, <1>5 DEF Draw, mainVars, rtmpVars, CallTypes, StreamTypes
  <2> QED BY <1>1, <2>1, <2>2, <2>3 DEF VideoTypes
<1>6. CASE DrawReleased
  <2>1. DrawTypes'
    BY <1>1, <1>6 DEF DrawReleased, drawVars, DrawTypes
  <2> QED BY <1>1, <1>2, <1>6, <2>1 DEF DrawReleased
<1>7. CASE GlSends
  <2>1. DrawTypes'
    BY <1>1, <1>7 DEF GlSends, DrawTypes
  <2>2. messages' \in Seq(EncoderMessages)
    <3>1. gl \in EncoderMessages /\ Send(gl, "onDrawFrame")
      BY <1>7 DEF GlSends, EncoderMessages
    <3> QED BY <1>1, <3>1, SendTyped
  <2> QED BY <1>1, <1>2, <1>7, <2>1, <2>2 DEF GlSends
<1>8. CASE SendFrame
  <2>1. DrawTypes'
    BY <1>1, <1>8 DEF SendFrame, DrawTypes
  <2>2. messages' \in Seq(EncoderMessages)
    <3>1. "frame" \in EncoderMessages /\ Send("frame", "frameAvailable")
      BY <1>8 DEF SendFrame, EncoderMessages
    <3> QED BY <1>1, <3>1, SendTyped
  <2> QED BY <1>1, <1>2, <1>8, <2>1, <2>2 DEF SendFrame
<1>9. CASE StartReady \/ SetTexture \/ SendTexture \/ FrameAvailable
  <2>1. DrawTypes'
    BY <1>1, <1>9 DEF StartReady, SetTexture, SendTexture, FrameAvailable, DrawTypes
  <2> QED BY <1>1, <1>2, <1>9, <2>1 DEF StartReady, SetTexture, SendTexture, FrameAvailable
<1> QED BY <1>3, <1>4, <1>5, <1>6, <1>7, <1>8, <1>9 DEF GlThread

LEMMA DrainTyped ==
  ASSUME CoreTypes, StreamTypes, NEW c, Drain(c)
  PROVE  decoder' \in 0..core.id /\ streamed' \in 0..core.id
<1>1. core.id \in Nat /\ core.id \in 0..core.id
  BY CoreFacts DEF CoreTypes
<1> QED BY <1>1 DEF Drain, StreamTypes

LEMMA EncoderThreadTyped ==
  ASSUME VideoTypes, EncoderThread \/ Streamer PROVE VideoTypes'
<1>1. CallTypes /\ DrawTypes /\ CoreTypes /\ StreamTypes
      /\ events \in Seq(Runnables) /\ messages \in Seq(EncoderMessages)
  BY DEF VideoTypes
<1>2. ASSUME CoreTypes', StreamTypes', UNCHANGED <<mainVars, drawVars, events>>,
             messages' \in Seq(EncoderMessages)
      PROVE  VideoTypes'
  <2>1. CallTypes'
    BY <1>1, <1>2 DEF mainVars, CallTypes
  <2>2. DrawTypes'
    BY <1>1, <1>2 DEF drawVars, DrawTypes
  <2> QED BY <1>1, <1>2, <2>1, <2>2 DEF VideoTypes
<1>3. \A m : Receive(m) => messages' \in Seq(EncoderMessages)
  BY <1>1, TakeFirst DEF Receive
<1>4. core \in Core /\ core.id \in Nat /\ stops \in Nat
  BY <1>1, CoreFacts DEF CoreTypes, StreamTypes
<1>5. CASE ThreadReady
  <2>1. CoreTypes' /\ StreamTypes'
    BY <1>1, <1>5 DEF ThreadReady, rtmpVars, CoreTypes, StreamTypes
  <2> QED BY <1>1, <1>2, <1>5, <2>1 DEF ThreadReady
<1>6. CASE HandleStart
  <2> DEFINE c == [id |-> core.id + 1, codec |-> TRUE, configured |-> FALSE, writer |-> TRUE]
  <2>1. c \in Core /\ c.id = core.id + 1
    BY <1>4 DEF Core
  <2>2. core' = c /\ decoder' = decoder /\ streamed' = streamed
    BY <1>6 DEF HandleStart, rtmpVars
  <2> HIDE DEF c
  <2>3. CoreTypes'
    BY <1>1, <1>6, <2>1, <2>2 DEF HandleStart, CoreTypes
  <2>4. decoder' \in 0..core'.id /\ streamed' \in 0..core'.id
    <3>1. decoder \in 0..core.id /\ streamed \in 0..core.id
      BY <1>1 DEF StreamTypes
    <3> QED BY <1>4, <2>1, <2>2, <3>1
  <2>5. StreamTypes'
    BY <1>1, <1>6, <2>4 DEF HandleStart, rtmpVars, StreamTypes
  <2> QED BY <1>2, <1>3, <1>6, <2>3, <2>5 DEF HandleStart
<1>7. CASE HandleFrame
  <2>1. core' \in Core /\ core'.id = core.id /\ decoder' \in 0..core.id /\ streamed' \in 0..core.id
    <3>1. CASE core.codec
      <4>1. PICK configured \in BOOLEAN :
              Drain(configured) /\ core' = [core EXCEPT !.configured = configured]
        BY <1>7, <3>1 DEF HandleFrame
      <4>2. core' \in Core /\ core'.id = core.id
        BY <1>4, <4>1 DEF Core
      <4> QED BY <1>1, <4>1, <4>2, DrainTyped
    <3>2. CASE ~core.codec
      BY <1>1, <1>4, <1>7, <3>2 DEF HandleFrame, StreamTypes
    <3> QED BY <3>1, <3>2
  <2>2. CoreTypes'
    BY <1>1, <1>7, <2>1 DEF HandleFrame, CoreTypes
  <2>3. StreamTypes'
    BY <1>1, <1>7, <2>1 DEF HandleFrame, StreamTypes
  <2> QED BY <1>2, <1>3, <1>7, <2>2, <2>3 DEF HandleFrame
<1>8. CASE HandleStop
  <2>1. messages' \in Seq(EncoderMessages) /\ stops' \in Nat
    <3>1. stops + 1 \in Nat
      BY <1>4
    <3> QED BY <1>3, <1>4, <1>8, <3>1 DEF HandleStop, StopMuxer
  <2>2. core' \in Core /\ core'.id = core.id /\ decoder' \in 0..core.id /\ streamed' \in 0..core.id
    <3>1. CASE core.id = 0
      BY <1>1, <1>4, <1>8, <3>1 DEF HandleStop, StreamTypes
    <3>2. CASE core.id # 0
      <4>1. PICK configured \in BOOLEAN :
              IF core.codec THEN Drain(configured) ELSE UNCHANGED <<decoder, streamed>>
        BY <1>8, <3>2 DEF HandleStop
      <4>2. decoder' \in 0..core.id /\ streamed' \in 0..core.id
        BY <1>1, <4>1, DrainTyped DEF StreamTypes
      <4>3. \A how : Released(how) \in Core /\ Released(how).id = core.id
        BY <1>4 DEF Released, Core
      <4>4. core' = Released(Head(messages))
        BY <1>8, <3>2 DEF HandleStop
      <4> QED BY <4>2, <4>3, <4>4
    <3> QED BY <3>1, <3>2
  <2>3. CoreTypes'
    BY <1>1, <1>8, <2>2 DEF HandleStop, CoreTypes
  <2>4. StreamTypes'
    BY <1>1, <1>8, <2>1, <2>2 DEF HandleStop, StreamTypes
  <2> QED BY <1>2, <1>8, <2>1, <2>3, <2>4 DEF HandleStop
<1>9. CASE HandleUpdate
  <2>1. CoreTypes' /\ StreamTypes'
    BY <1>1, <1>9 DEF HandleUpdate, codecVars, rtmpVars, CoreTypes, StreamTypes
  <2> QED BY <1>2, <1>3, <1>9, <2>1 DEF HandleUpdate
<1>10. CASE HandleQuit \/ ThreadExits
  <2>1. CoreTypes' /\ StreamTypes'
    BY <1>1, <1>10 DEF HandleQuit, ThreadExits, rtmpVars, CoreTypes, StreamTypes
  <2>2. messages' \in Seq(EncoderMessages)
    <3>1. messages' = messages \/ messages' = <<>>
      BY <1>10 DEF HandleQuit, ThreadExits
    <3>2. <<>> \in Seq(EncoderMessages)
      OBVIOUS
    <3> QED BY <1>1, <3>1, <3>2
  <2> QED BY <1>2, <1>10, <2>1, <2>2 DEF HandleQuit, ThreadExits
<1>11. CASE StreamerStops \/ ConnectionLost
  <2>1. stops' \in Nat /\ connected' \in BOOLEAN
    <3>1. CASE StreamerStops
      <4>1. stops > 0 /\ stops' = stops - 1 /\ connected' = FALSE
        BY <3>1 DEF StreamerStops
      <4>2. stops' \in Nat
        BY <1>4, <4>1
      <4>3. connected' \in BOOLEAN
        BY <4>1
      <4> QED BY <4>2, <4>3
    <3>2. CASE ConnectionLost
      BY <1>4, <3>2 DEF ConnectionLost
    <3> QED BY <1>11, <3>1, <3>2
  <2>2. CoreTypes' /\ StreamTypes'
    BY <1>1, <1>11, <2>1 DEF StreamerStops, ConnectionLost, codecVars, CoreTypes, StreamTypes
  <2> QED BY <1>1, <1>2, <1>11, <2>2 DEF StreamerStops, ConnectionLost
<1> QED BY <1>5, <1>6, <1>7, <1>8, <1>9, <1>10, <1>11 DEF EncoderThread, Streamer

LEMMA VideoStart ==
  VideoInit => VideoTypes
<1> SUFFICES ASSUME VideoInit PROVE VideoTypes
  OBVIOUS
<1>1. CallTypes
  <2>1. 0 \in 0..MaxStarts /\ 0 \in 0..MaxChanges /\ 0 \in 0..MaxPauses
    BY VideoBounds
  <2>2. /\ ui = "free" /\ pausing = FALSE /\ opening = FALSE /\ isRecording = FALSE
        /\ timer = FALSE /\ task = FALSE /\ starts = 0 /\ changes = 0 /\ pauses = 0
    BY DEF VideoInit
  <2> QED BY <2>1, <2>2 DEF CallTypes
<1>2. DrawTypes
  BY DEF VideoInit, DrawTypes
<1>3. CoreTypes /\ StreamTypes
  <2>1. CoreTypes
    BY CoreFacts DEF VideoInit, CoreTypes
  <2>2. core.id = 0 /\ stops = 0 /\ decoder = 0 /\ streamed = 0 /\ connected = FALSE
    BY CoreFacts DEF VideoInit
  <2>3. StreamTypes
    <3>1. stops \in Nat /\ decoder \in 0..core.id /\ streamed \in 0..core.id
      BY <2>2
    <3>2. connected \in BOOLEAN
      BY <2>2
    <3> QED BY <3>1, <3>2 DEF StreamTypes
  <2> QED BY <2>1, <2>3
<1>4. events \in Seq(Runnables) /\ messages \in Seq(EncoderMessages)
  BY DEF VideoInit
<1> QED BY <1>1, <1>2, <1>3, <1>4 DEF VideoTypes

LEMMA VideoTypesKept ==
  ASSUME VideoTypes, [VideoNext]_videoVars PROVE VideoTypes'
<1>1. CASE UNCHANGED videoVars
  <2>1. UNCHANGED <<mainVars, drawVars, events, codecVars, messages, rtmpVars>>
    BY <1>1 DEF videoVars
  <2>2. CallTypes' /\ DrawTypes'
    BY <2>1 DEF VideoTypes, mainVars, drawVars, CallTypes, DrawTypes
  <2>3. CoreTypes' /\ StreamTypes'
    BY <2>1 DEF VideoTypes, codecVars, rtmpVars, CoreTypes, StreamTypes
  <2> QED BY <2>1, <2>2, <2>3 DEF VideoTypes
<1> QED BY <1>1, MainTyped, GlTyped, EncoderThreadTyped DEF VideoNext

\* Every variable of the GL thread, the encoder's thread, the main thread and the timer
\* keeps its type, for any number of broadcasts, bitrate changes, pauses and frames.
THEOREM VideoTypeCorrect == VideoSpec => []VideoTyped
<1>1. VideoTypes => VideoTyped
  <2> SUFFICES ASSUME VideoTypes PROVE VideoTyped
    OBVIOUS
  <2>1. CallTypes /\ DrawTypes /\ events \in Seq(Runnables) /\ messages \in Seq(EncoderMessages)
    BY DEF VideoTypes
  <2>2. CoreTypes /\ StreamTypes
    BY DEF VideoTypes
  <2>3. {pausing, opening, isRecording, timer, task} \subseteq BOOLEAN
    BY <2>1 DEF CallTypes
  <2>4. {enabled, rendering, running, ready, handler, connected} \subseteq BOOLEAN
    BY <2>1, <2>2 DEF DrawTypes, CoreTypes, StreamTypes
  <2>5. {pausing, opening, isRecording, timer, task, enabled, rendering, running,
         ready, handler, connected} \subseteq BOOLEAN
    BY <2>3, <2>4
  <2> QED BY <2>1, <2>2, <2>5 DEF VideoTyped, CallTypes, DrawTypes, CoreTypes, StreamTypes,
                                 Runnables, EncoderMessages
<1> QED BY <1>1, VideoStart, VideoTypesKept, PTL DEF VideoSpec

\* Only the start of the one broadcast lets the GL thread record.
LEMMA AskedStays ==
  ASSUME Asked, UNCHANGED <<starts, opening, isRecording, timer, task, changes, events>>,
         status' # "changed", gl' # "release", enabled' => enabled
  PROVE  Asked'
<1>1. UNCHANGED <<starts, opening, events>>
  OBVIOUS
<1>2. enabled' => NoMore'
  BY <1>1 DEF Asked, NoMore
<1> QED BY <1>2 DEF Asked

\* A runnable is queued.
LEMMA AskedMore ==
  ASSUME VideoTypes, Asked, NEW e \in {"start", "stop", "pausing"}, events' = Append(events, e),
         UNCHANGED <<starts, task, changes, status, gl, enabled, isRecording>>,
         opening' => opening, opening' \in BOOLEAN,
         e = "start" => opening /\ ~opening',
         e = "stop" => isRecording /\ ~timer',
         e # "start" => (timer' => timer)
  PROVE  Asked' /\ (NoMore => NoMore')
<1>1. /\ events \in Seq(Runnables) /\ e \in Runnables
  BY DEF VideoTypes, Runnables
<1>2. /\ Len(events) \in Nat /\ DOMAIN events = 1..Len(events)
      /\ DOMAIN events' = 1..(Len(events) + 1)
      /\ \A k \in DOMAIN events : events'[k] = events[k]
      /\ events'[Len(events) + 1] = e
  BY <1>1, PutLast
<1>3. \A k \in DOMAIN events' : (k \in DOMAIN events /\ events'[k] = events[k])
                               \/ (k = Len(events) + 1 /\ events'[k] = e)
  BY <1>2
<1>4. starts' \in {0, 1} /\ changes' = 0 /\ ~task' /\ status' # "changed" /\ gl' # "release"
      /\ (starts' = 0 => ~opening')
  BY DEF Asked
<1>5. \A k \in DOMAIN events' : events'[k] # "change"
  BY <1>3 DEF Asked
<1>6. e = "start" => \A k \in DOMAIN events : events[k] = "pausing"
  BY DEF Asked
<1>7. starts' = 0 \/ opening' => ~timer' /\ ~isRecording' /\ \A k \in DOMAIN events' : events'[k] = "pausing"
  <2> SUFFICES ASSUME starts' = 0 \/ opening'
               PROVE  ~timer' /\ ~isRecording' /\ \A k \in DOMAIN events' : events'[k] = "pausing"
    OBVIOUS
  <2>1. starts = 0 \/ opening
    OBVIOUS
  <2>2. ~timer /\ ~isRecording /\ \A k \in DOMAIN events : events[k] = "pausing"
    BY <2>1 DEF Asked
  <2>3. e = "pausing"
    BY <2>2 DEF Asked
  <2> QED BY <1>3, <2>2, <2>3
<1>8. \A k \in DOMAIN events' : events'[k] = "stop" => ~timer'
  <2> SUFFICES ASSUME NEW k \in DOMAIN events', events'[k] = "stop" PROVE ~timer'
    OBVIOUS
  <2>1. CASE e = "start"
    BY <1>3, <1>6, <2>1
  <2>2. CASE e # "start"
    BY <1>3, <2>2 DEF Asked
  <2> QED BY <2>1, <2>2
<1>9. \A j, k \in DOMAIN events' : events'[j] = "start" /\ events'[k] = "start" => j = k
  <2> SUFFICES ASSUME NEW j \in DOMAIN events', NEW k \in DOMAIN events',
                      events'[j] = "start", events'[k] = "start"
               PROVE  j = k
    OBVIOUS
  <2>1. CASE e = "start"
    BY <1>3, <1>6, <2>1
  <2>2. CASE e # "start"
    BY <1>3, <2>2 DEF Asked
  <2> QED BY <2>1, <2>2
<1>10. NoMore => NoMore'
  <2> SUFFICES ASSUME NoMore PROVE NoMore'
    OBVIOUS
  <2>1. starts = 1 /\ ~opening /\ \A k \in DOMAIN events : events[k] # "start"
    BY DEF NoMore
  <2>2. e # "start"
    BY <2>1
  <2>3. \A k \in DOMAIN events' : events'[k] # "start"
    BY <1>3, <2>1, <2>2
  <2> QED BY <2>1, <2>3 DEF NoMore
<1>11. enabled' => NoMore'
  BY <1>10 DEF Asked
<1> QED BY <1>4, <1>5, <1>7, <1>8, <1>9, <1>10, <1>11 DEF Asked

\* The GL thread runs a runnable.
LEMMA AskedLess ==
  ASSUME VideoTypes, Asked, RunEvent
  PROVE  /\ Asked' /\ (NoMore => NoMore')
         /\ Head(events) = "start" => ~NoMore
         /\ Head(events) \in {"start", "stop", "pausing"}
         /\ Head(events) = "stop" => ~timer
<1>1. events \in Seq(Runnables) /\ events # <<>> /\ events' = Tail(events)
      /\ UNCHANGED <<starts, opening, isRecording, timer, task, changes, gl>>
  BY DEF VideoTypes, RunEvent, mainVars
<1>2. /\ 1 \in DOMAIN events /\ Head(events) = events[1] /\ Head(events) \in Runnables
      /\ \A k \in DOMAIN events' : k \in Nat /\ k + 1 \in DOMAIN events /\ events'[k] = events[k + 1]
      /\ \A k \in DOMAIN events' : k # 0
  BY <1>1, TakeFirst
<1>3. Head(events) \in {"start", "stop", "pausing"}
  BY <1>2 DEF Asked, Runnables
<1>4. Head(events) = "start" =>
        ~NoMore /\ starts = 1 /\ ~opening /\ \A k \in DOMAIN events' : events'[k] # "start"
  <2> SUFFICES ASSUME Head(events) = "start"
               PROVE  ~NoMore /\ starts = 1 /\ ~opening /\ \A k \in DOMAIN events' : events'[k] # "start"
    OBVIOUS
  <2>1. ~NoMore /\ starts = 1 /\ ~opening
    BY <1>2 DEF Asked, NoMore
  <2>2. ASSUME NEW k \in DOMAIN events' PROVE events'[k] # "start"
    <3>1. k + 1 # 1 /\ k + 1 \in DOMAIN events /\ events'[k] = events[k + 1]
      BY <1>2
    <3> QED BY <1>2, <3>1 DEF Asked
  <2> QED BY <2>1, <2>2
<1>5. NoMore => NoMore'
  BY <1>1, <1>2 DEF NoMore
<1>6. enabled' => NoMore'
  <2>1. CASE Head(events) = "start"
    BY <1>1, <1>4, <2>1 DEF NoMore
  <2>2. CASE Head(events) # "start"
    <3>1. enabled' => enabled
      BY <1>3, <2>2 DEF RunEvent
    <3> QED BY <1>5, <3>1 DEF Asked
  <2> QED BY <2>1, <2>2
<1>7. status' = status
  BY <1>3 DEF RunEvent
<1>8. \A k \in DOMAIN events' : events'[k] # "change" /\ (events'[k] = "stop" => ~timer')
                               /\ (starts' = 0 \/ opening' => events'[k] = "pausing")
  BY <1>1, <1>2 DEF Asked
<1>9. \A j, k \in DOMAIN events' : events'[j] = "start" /\ events'[k] = "start" => j = k
  <2> SUFFICES ASSUME NEW j \in DOMAIN events', NEW k \in DOMAIN events',
                      events'[j] = "start", events'[k] = "start"
               PROVE  j = k
    OBVIOUS
  <2>1. j \in Nat /\ k \in Nat /\ j + 1 \in DOMAIN events /\ k + 1 \in DOMAIN events
        /\ events[j + 1] = "start" /\ events[k + 1] = "start"
    BY <1>2
  <2>2. j + 1 = k + 1
    BY <2>1 DEF Asked
  <2> QED BY <2>1, <2>2
<1>10. Head(events) = "stop" => ~timer
  BY <1>2 DEF Asked
<1> QED BY <1>1, <1>3, <1>4, <1>5, <1>6, <1>7, <1>8, <1>9, <1>10 DEF Asked

LEMMA LifeFacts ==
  ASSUME VideoTypes, Life
  PROVE  /\ ~NoMore => Fresh
         /\ running => NoMore
         /\ thread # "none" => running
         /\ running /\ ~handler => thread = "new"
BY DEF Life, Fresh, Starting, Doomed, Pending, Active, Looping, Begun, VideoTypes, CoreTypes

\* What the actions leave in Asked, and that a start that was run stays so.
LEMMA AskedKept ==
  ASSUME SingleEncoder, VideoTypes, Asked, Life, VideoNext
  PROVE  Asked' /\ (NoMore => NoMore')
<1>1. VideoTypes'
  BY VideoTypesKept
<1>2. opening' \in BOOLEAN /\ starts \in 0..MaxStarts /\ changes \in 0..MaxChanges
  BY <1>1 DEF VideoTypes, CallTypes
<1>3. CASE StartBroadcasting
  <2>1. starts < MaxStarts /\ starts' = starts + 1 /\ MaxStarts \in Nat /\ MaxStarts <= 1
    BY <1>3, VideoBounds DEF StartBroadcasting, SingleEncoder
  <2>2. starts = 0 /\ starts' = 1
    BY <2>1 DEF Asked
  <2>3. UNCHANGED <<task, changes, status, gl, events, enabled, timer>> /\ ~isRecording'
    BY <1>3 DEF StartBroadcasting, drawVars
  <2>4. ~NoMore /\ ~enabled
    BY <2>2 DEF Asked, NoMore
  <2> QED BY <2>2, <2>3, <2>4 DEF Asked
<1>4. CASE Opened
  <2>1. /\ events' = Append(events, "start") /\ opening /\ ~opening'
        /\ UNCHANGED <<starts, task, changes, status, gl, enabled>>
    BY <1>4 DEF Opened, QueueEvent, drawVars
  <2>2. /\ ~NoMore /\ ~enabled /\ starts = 1
        /\ \A k \in DOMAIN events : events[k] = "pausing"
    BY <2>1 DEF Asked, NoMore
  <2>3. /\ DOMAIN events' = 1..(Len(events) + 1) /\ DOMAIN events = 1..Len(events) /\ Len(events) \in Nat
        /\ \A k \in DOMAIN events : events'[k] = events[k]
    <3>1. events \in Seq(Runnables) /\ "start" \in Runnables
      BY DEF VideoTypes, Runnables
    <3> QED BY <2>1, <3>1, PutLast
  <2>4. events'[Len(events) + 1] = "start"
    <3>1. events \in Seq(Runnables) /\ "start" \in Runnables
      BY DEF VideoTypes, Runnables
    <3> QED BY <2>1, <3>1, PutLast
  <2>5. \A k \in DOMAIN events' : (k \in DOMAIN events /\ events'[k] = "pausing")
                                 \/ (k = Len(events) + 1 /\ events'[k] = "start")
    BY <2>2, <2>3, <2>4
  <2>6. \A j, k \in DOMAIN events' : events'[j] = "start" /\ events'[k] = "start" => j = k
    BY <2>5
  <2> QED BY <2>1, <2>2, <2>5, <2>6 DEF Asked
<1>5. CASE OpenFails
  <2>1. opening /\ ~opening' /\ UNCHANGED <<starts, isRecording, timer, task, changes, events, status, gl, enabled>>
    BY <1>5 DEF OpenFails, drawVars
  <2>2. ~NoMore /\ ~enabled /\ starts = 1
    BY <2>1 DEF Asked, NoMore
  <2> QED BY <2>1, <2>2 DEF Asked
<1>6. ~TimerFires /\ ~TimerPosts
  <2>1. changes < MaxChanges => FALSE
    BY <1>2 DEF SingleEncoder, Asked
  <2> QED BY <2>1 DEF TimerFires, TimerPosts, Asked
<1>7. CASE \E p \in BOOLEAN : StopBroadcasting(p)
  <2>1. PICK p \in BOOLEAN : StopBroadcasting(p)
    BY <1>7
  <2>2. UNCHANGED <<starts, opening, task, changes, status, gl, enabled, isRecording>>
    BY <2>1 DEF StopBroadcasting, drawVars
  <2>3. CASE isRecording
    <3>1. events' = Append(events, "stop") /\ ~timer'
      BY <2>1, <2>3 DEF StopBroadcasting, QueueEvent
    <3> QED BY <1>2, <2>2, <2>3, <3>1, AskedMore
  <2>4. CASE ~isRecording
    <3>1. UNCHANGED <<events, timer>>
      BY <2>1, <2>4 DEF StopBroadcasting
    <3> QED BY <2>2, <3>1, AskedStays DEF Asked, NoMore
  <2> QED BY <2>3, <2>4
<1>8. CASE QueuePausing
  <2>1. events' = Append(events, "pausing")
        /\ UNCHANGED <<starts, opening, task, changes, status, gl, enabled, isRecording, timer>>
    BY <1>8 DEF QueuePausing, QueueEvent, drawVars
  <2> QED BY <1>2, <2>1, AskedMore
<1>9. CASE RunEvent
  BY <1>9, AskedLess
<1>10. CASE OnSurfaceCreated
  <2>1. UNCHANGED <<starts, opening, isRecording, timer, task, changes, events, gl>>
        /\ enabled' = running /\ status' # "changed"
    BY <1>10 DEF OnSurfaceCreated, mainVars, IsRecording
  <2>2. NoMore => NoMore'
    BY <2>1 DEF NoMore
  <2>3. enabled' => NoMore'
    BY <2>1, <2>2, LifeFacts
  <2> QED BY <2>1, <2>2, <2>3 DEF Asked
<1>11. ASSUME UNCHANGED <<starts, opening, isRecording, timer, task, changes, events, enabled>>,
              status' # "changed", gl' # "release"
       PROVE  Asked' /\ (NoMore => NoMore')
  BY <1>11, AskedStays DEF NoMore
<1>12. CASE Poll \/ ForceStop \/ PauseView \/ ChangeCamera \/ ResumeView \/ CameraFrame
  <2>1. UNCHANGED <<starts, opening, isRecording, timer, task, changes, events, enabled, status, gl>>
    BY <1>12 DEF Poll, ForceStop, PauseView, ChangeCamera, ResumeView, CameraFrame, mainVars, drawVars
  <2> QED BY <1>11, <2>1 DEF Asked
<1>13. CASE Draw
  <2>1. UNCHANGED <<starts, opening, isRecording, timer, task, changes, events, enabled>>
    BY <1>13 DEF Draw, mainVars
  <2>2. status' # "changed" /\ gl' # "release"
    BY <1>13 DEF Draw, AfterRelease, Asked
  <2> QED BY <1>11, <2>1, <2>2
<1>14. CASE DrawReleased \/ StartReady \/ GlSends \/ SetTexture \/ SendTexture \/ FrameAvailable \/ SendFrame
  <2>1. UNCHANGED <<starts, opening, isRecording, timer, task, changes, events, enabled>>
    BY <1>14 DEF DrawReleased, StartReady, GlSends, SetTexture, SendTexture, FrameAvailable, SendFrame,
                 mainVars, drawVars
  <2>2. status' # "changed" /\ gl' # "release"
    BY <1>14 DEF DrawReleased, StartReady, GlSends, SetTexture, SendTexture, FrameAvailable, SendFrame,
                 drawVars, Asked
  <2> QED BY <1>11, <2>1, <2>2
<1>15. CASE EncoderThread \/ Streamer
  <2>1. UNCHANGED <<mainVars, drawVars, events>>
    BY <1>15 DEF EncoderThread, ThreadReady, HandleStart, HandleFrame, HandleStop, HandleUpdate, HandleQuit,
                 ThreadExits, Streamer, StreamerStops, ConnectionLost
  <2> QED BY <1>11, <2>1 DEF mainVars, drawVars, Asked
<1> QED BY <1>3, <1>4, <1>5, <1>6, <1>7, <1>8, <1>9, <1>10, <1>12, <1>13, <1>14, <1>15
        DEF VideoNext, Main, Stopping, GlThread

\* What is appended behind a stop, or is one.
LEMMA StopFirstPut ==
  ASSUME VideoTypes, StopFirst, NEW m \in EncoderMessages, messages' = Append(messages, m), core' = core,
         m = "quit" => gl = "quit" \/ ui = "quit",
         gl' = "quit" \/ ui' = "quit" => gl = "quit" \/ ui = "quit" \/ m = "stop"
  PROVE  StopFirst'
<1>1. /\ Len(messages) \in Nat /\ DOMAIN messages = 1..Len(messages)
      /\ DOMAIN messages' = 1..(Len(messages) + 1)
      /\ \A k \in DOMAIN messages : messages'[k] = messages[k]
      /\ messages'[Len(messages) + 1] = m
  BY PutLast DEF VideoTypes
<1>2. Freed' = Freed
  BY DEF Freed
<1>3. ASSUME \E j \in DOMAIN messages : messages[j] = "stop"
      PROVE  \E j \in DOMAIN messages' : j < Len(messages) + 1 /\ messages'[j] = "stop"
  <2>1. PICK j \in DOMAIN messages : messages[j] = "stop"
    BY <1>3
  <2>2. j \in DOMAIN messages' /\ j < Len(messages) + 1 /\ messages'[j] = "stop"
    BY <1>1, <2>1
  <2> QED BY <2>2
<1>4. gl' = "quit" \/ ui' = "quit" => Freed' \/ \E j \in DOMAIN messages' : messages'[j] = "stop"
  <2>1. CASE m = "stop"
    <3>1. Len(messages) + 1 \in DOMAIN messages' /\ messages'[Len(messages) + 1] = "stop"
      BY <1>1, <2>1
    <3> QED BY <3>1
  <2>2. CASE m # "stop"
    BY <1>2, <1>3, <2>2 DEF StopFirst
  <2> QED BY <2>1, <2>2
<1>5. ASSUME NEW k \in DOMAIN messages', messages'[k] = "quit" PROVE Freed' \/ StopIn(k)'
  <2>1. CASE k \in DOMAIN messages
    <3>1. Freed \/ StopIn(k)
      BY <1>1, <1>5, <2>1 DEF StopFirst
    <3>2. CASE StopIn(k)
      <4>1. PICK j \in DOMAIN messages : j < k /\ messages[j] = "stop"
        BY <3>2 DEF StopIn
      <4>2. j \in DOMAIN messages' /\ messages'[j] = "stop"
        BY <1>1, <4>1
      <4> QED BY <4>1, <4>2 DEF StopIn
    <3> QED BY <1>2, <3>1, <3>2
  <2>2. CASE k \notin DOMAIN messages
    <3>1. k = Len(messages) + 1 /\ m = "quit"
      BY <1>1, <1>5, <2>2
    <3>2. Freed \/ \E j \in DOMAIN messages : messages[j] = "stop"
      BY <3>1 DEF StopFirst
    <3> QED BY <1>2, <1>3, <3>1, <3>2 DEF StopIn
  <2> QED BY <2>1, <2>2
<1> QED BY <1>4, <1>5 DEF StopFirst

\* The first message is handled; a stop frees the encoder.
LEMMA StopFirstTaken ==
  ASSUME VideoTypes, StopFirst, messages # <<>>, messages' = Tail(messages), UNCHANGED <<gl, ui>>,
         Freed => Freed', Head(messages) = "stop" => Freed'
  PROVE  StopFirst'
<1>1. CASE Freed'
  BY <1>1 DEF StopFirst
<1>2. CASE ~Freed'
  <2>1. /\ Head(messages) # "stop" /\ ~Freed
        /\ Head(messages) = messages[1] /\ Len(messages) \in Nat
        /\ DOMAIN messages = 1..Len(messages) /\ DOMAIN messages' = 1..(Len(messages) - 1)
        /\ \A k \in DOMAIN messages' : k \in Nat /\ k + 1 \in DOMAIN messages /\ messages'[k] = messages[k + 1]
    BY <1>2, TakeFirst DEF VideoTypes
  <2>2. ASSUME NEW j \in DOMAIN messages, messages[j] = "stop"
        PROVE  j \in Nat /\ j - 1 \in DOMAIN messages' /\ messages'[j - 1] = "stop"
    <3>1. j # 1 /\ j \in 1..Len(messages)
      BY <2>1, <2>2
    <3>2. j - 1 \in 1..(Len(messages) - 1) /\ (j - 1) + 1 = j
      BY <2>1, <3>1
    <3> QED BY <2>1, <2>2, <3>1, <3>2
  <2>3. gl' = "quit" \/ ui' = "quit" => \E j \in DOMAIN messages' : messages'[j] = "stop"
    BY <2>1, <2>2 DEF StopFirst
  <2>4. ASSUME NEW k \in DOMAIN messages', messages'[k] = "quit" PROVE StopIn(k)'
    <3>1. k \in Nat /\ k + 1 \in DOMAIN messages /\ messages[k + 1] = "quit"
      BY <2>1, <2>4
    <3>2. PICK j \in DOMAIN messages : j < k + 1 /\ messages[j] = "stop"
      BY <2>1, <3>1 DEF StopFirst, StopIn
    <3>3. j - 1 \in DOMAIN messages' /\ messages'[j - 1] = "stop" /\ j \in Nat
      BY <2>2, <3>2
    <3>4. j - 1 < k
      BY <3>1, <3>2, <3>3
    <3> QED BY <3>3, <3>4 DEF StopIn
  <2> QED BY <2>3, <2>4 DEF StopFirst
<1> QED BY <1>1, <1>2

\* The actions of the main thread and the GL thread that send the encoder nothing.
LEMMA LifeStays ==
  ASSUME VideoTypes, Life, NoMore => NoMore',
         UNCHANGED <<core, decoder, streamed, thread, running, ready, handler, messages>>,
         stops = 0 => stops' = 0,
         ui' = "stop" => ui = "stop" \/ (running /\ handler),
         ui' = "quit" => ui = "quit",
         gl' = "quit" => gl = "quit",
         Fresh => gl' \in {"idle", "texture"} /\ status' \in {"none", "off"},
         Starting => status' = "off" /\ (gl' = gl \/ (thread = "loop" /\ gl' \in {"waiting", "start"})),
         Begun => gl' \notin {"waiting", "start"} /\ (enabled' => status' \in {"on", "resumed"})
  PROVE  Life'
<1>0. (Untouched => Untouched') /\ (Looping => Looping')
      /\ (Freed => Freed')
  BY DEF Untouched, Looping, Freed
<1>1. CASE Fresh
  <2>1. Fresh'
    BY <1>0, <1>1 DEF Fresh
  <2> QED BY <2>1 DEF Life
<1>2. CASE Starting
  <2>1. Starting'
    BY <1>0, <1>2 DEF Starting, Looping
  <2> QED BY <2>1 DEF Life
<1>3. CASE Doomed
  <2>1. Doomed'
    BY <1>0, <1>3 DEF Doomed
  <2> QED BY <2>1 DEF Life
<1>4. Begun => Begun'
  BY DEF Begun
<1>5. StopFirst => StopFirst'
  BY DEF StopFirst, StopIn, Freed
<1>6. CASE Pending
  <2>1. Pending'
    BY <1>0, <1>4, <1>5, <1>6 DEF Pending
  <2> QED BY <2>1 DEF Life
<1>7. CASE Active
  <2>1. Unstopped'
    BY <1>7 DEF Active, Unstopped
  <2>2. Active'
    BY <1>4, <1>5, <1>7, <2>1 DEF Active
  <2> QED BY <2>2 DEF Life
<1> QED BY <1>1, <1>2, <1>3, <1>6, <1>7 DEF Life

\* A message reaches the encoder's thread, or one that has quit.
LEMMA LifeSent ==
  ASSUME VideoTypes, Life, NoMore => NoMore', handler, NEW m \in EncoderMessages, m # "start",
         messages' = IF thread = "quit" THEN messages ELSE Append(messages, m),
         UNCHANGED <<core, decoder, streamed, stops, thread, running, ready, handler>>,
         Starting => m = "stop",
         m = "quit" => gl = "quit" \/ ui = "quit",
         gl' = "quit" \/ ui' = "quit" => gl = "quit" \/ ui = "quit" \/ m = "stop",
         Begun => gl' \notin {"waiting", "start"} /\ (enabled' => status' \in {"on", "resumed"})
  PROVE  Life'
<1>0. (Untouched => Untouched') /\ (Looping => Looping')
  BY DEF Untouched, Looping
<1>1. Begun => Begun'
  BY DEF Begun
<1>2. /\ messages \in Seq(EncoderMessages) /\ Len(messages) \in Nat
      /\ DOMAIN messages = 1..Len(messages)
      /\ DOMAIN Append(messages, m) = 1..(Len(messages) + 1)
      /\ \A k \in DOMAIN messages : Append(messages, m)[k] = messages[k]
      /\ Append(messages, m)[Len(messages) + 1] = m
      /\ Append(messages, m) \in Seq(EncoderMessages)
  BY PutLast DEF VideoTypes
<1>3. Append(messages, m) # <<>> /\ Head(Append(messages, m)) = Append(messages, m)[1]
  BY <1>2
<1>4. messages # <<>> => Head(Append(messages, m)) = Head(messages)
  BY <1>2, <1>3
<1>5. messages = <<>> => Head(Append(messages, m)) = m
  BY <1>2, <1>3
<1>6. ~Fresh
  BY DEF Fresh
<1>7. CASE Starting
  <2>1. Looping /\ messages' = Append(messages, m)
    BY <1>7 DEF Starting, Looping
  <2>2. Doomed'
    BY <1>0, <1>3, <1>5, <1>7, <2>1 DEF Starting, Doomed
  <2> QED BY <2>2 DEF Life
<1>8. CASE Doomed
  <2>1. messages' = Append(messages, m)
    BY <1>8 DEF Doomed, Looping
  <2>2. Doomed'
    BY <1>0, <1>3, <1>4, <1>8, <2>1 DEF Doomed
  <2> QED BY <2>2 DEF Life
<1>9. CASE Pending
  <2>1. messages' = Append(messages, m)
    BY <1>9 DEF Pending, Looping
  <2>2. StopFirst'
    BY <1>9, <2>1, StopFirstPut DEF Pending
  <2>3. \A k \in DOMAIN messages' : messages'[k] = "start" => k = 1
    BY <1>2, <1>9, <2>1 DEF Pending
  <2>4. Pending'
    BY <1>0, <1>1, <1>3, <1>4, <1>9, <2>1, <2>2, <2>3 DEF Pending
  <2> QED BY <2>4 DEF Life
<1>10. CASE Active
  <2>1. Unstopped'
    BY <1>10 DEF Active, Unstopped
  <2>2. CASE thread = "loop"
    <3>1. messages' = Append(messages, m)
      BY <2>2
    <3>2. StopFirst'
      BY <1>10, <3>1, StopFirstPut DEF Active
    <3>3. \A k \in DOMAIN messages' : messages'[k] # "start"
      BY <1>2, <1>10, <3>1 DEF Active
    <3>4. running /\ thread' = "loop" /\ running'
      BY <1>10, <2>2 DEF Active
    <3>5. Active'
      BY <1>1, <1>10, <2>1, <3>2, <3>3, <3>4 DEF Active
    <3> QED BY <3>5 DEF Life
  <2>3. CASE thread = "quit"
    <3>1. messages' = messages /\ ~core.codec /\ core.id = 1
      BY <1>10, <2>3 DEF Active
    <3>2. StopFirst'
      BY <3>1 DEF StopFirst, Freed
    <3>3. Active'
      BY <1>1, <1>10, <2>1, <3>1, <3>2 DEF Active
    <3> QED BY <3>3 DEF Life
  <2>4. thread # "none"
    BY <1>10 DEF Active
  <2> QED BY <1>10, <2>2, <2>3, <2>4 DEF Active
<1> QED BY <1>6, <1>7, <1>8, <1>9, <1>10 DEF Life

LEMMA HandlerThere ==
  ASSUME VideoTypes, Life
  PROVE  /\ handler => NoMore
         /\ handler /\ ready => running
         /\ thread = "new" => Starting /\ ~handler
         /\ core.codec => Active
         /\ core.id # 0 => Active
         /\ thread = "quit" => Active
<1>1. ASSUME Untouched PROVE core.id = 0 /\ ~core.codec
  BY <1>1, CoreFacts DEF Untouched
<1>2. Active => NoMore /\ thread # "new" /\ (handler => running)
  BY DEF Active, Begun
<1>3. Pending => NoMore /\ Looping /\ Untouched
  BY DEF Pending, Begun
<1>4. Doomed => NoMore /\ Looping /\ Untouched
  BY DEF Doomed
<1>5. Fresh => ~handler /\ thread = "none" /\ Untouched
  BY DEF Fresh
<1>6. Starting => NoMore /\ running /\ Untouched /\ (thread = "new" => ~handler) /\ thread # "quit"
  BY DEF Starting, Looping
<1>7. Looping => running /\ thread = "loop"
  BY DEF Looping
<1> QED BY <1>1, <1>2, <1>3, <1>4, <1>5, <1>6, <1>7 DEF Life

\* The main thread's actions.
LEMMA MainLife ==
  ASSUME VideoTypes, Asked, Life, Main, NoMore => NoMore', crash = "none", crash' = "none"
  PROVE  Life'
<1>1. CASE ForceStop
  <2>1. /\ handler /\ ui \in {"stop", "quit"} /\ Send(ui, "stopBroadcasting")
        /\ UNCHANGED <<gl, status, enabled, core, decoder, streamed, stops, thread, running, ready, handler>>
        /\ (ui' = "quit" => ui = "stop")
    BY <1>1 DEF ForceStop, Returned, Send, drawVars, codecVars, rtmpVars
  <2>2. messages' = IF thread = "quit" THEN messages ELSE Append(messages, ui)
    BY <2>1 DEF Send
  <2>3. ui \in EncoderMessages /\ ui # "start"
    BY <2>1 DEF EncoderMessages
  <2>4. Starting => ui = "stop"
    BY <2>1 DEF Starting
  <2>5. Begun => gl' \notin {"waiting", "start"} /\ (enabled' => status' \in {"on", "resumed"})
    BY <2>1 DEF Begun
  <2> DEFINE m == ui
  <2>6. /\ m \in EncoderMessages /\ m # "start" /\ (Starting => m = "stop")
        /\ messages' = IF thread = "quit" THEN messages ELSE Append(messages, m)
        /\ (m = "quit" => gl = "quit" \/ ui = "quit")
        /\ (gl' = "quit" \/ ui' = "quit" => gl = "quit" \/ ui = "quit" \/ m = "stop")
    BY <2>1, <2>2, <2>3, <2>4
  <2> HIDE DEF m
  <2> QED BY <2>1, <2>5, <2>6, LifeSent
<1>2. CASE Opened
  <2>1. /\ opening /\ decoder' = 0 /\ streamed' = 0
        /\ UNCHANGED <<ui, gl, status, enabled, core, stops, thread, running, ready, handler, messages>>
    BY <1>2 DEF Opened, drawVars, codecVars
  <2>2. Fresh
    BY <2>1, LifeFacts DEF NoMore
  <2>3. Fresh'
    BY <2>1, <2>2 DEF Fresh, Untouched
  <2> QED BY <2>3 DEF Life
<1>3. CASE ~ForceStop /\ ~Opened
  <2>1. /\ UNCHANGED <<core, decoder, streamed, stops, thread, running, ready, handler, messages, gl, status, enabled>>
        /\ ui' = "quit" => ui = "quit"
        /\ ui' = "stop" => ui = "stop" \/ (running /\ handler)
    <3>1. CASE StartBroadcasting \/ OpenFails \/ TimerFires \/ TimerPosts
      BY <3>1 DEF StartBroadcasting, OpenFails, TimerFires, TimerPosts, drawVars, codecVars, rtmpVars
    <3>2. CASE \E p \in BOOLEAN : StopBroadcasting(p)
      BY <3>2 DEF StopBroadcasting, drawVars, codecVars, rtmpVars
    <3>3. CASE Poll
      BY <3>3 DEF Poll, Returned, drawVars, codecVars, rtmpVars
    <3>4. CASE QueuePausing \/ PauseView \/ ChangeCamera
      BY <3>4 DEF QueuePausing, PauseView, ChangeCamera, drawVars, codecVars, rtmpVars
    <3>5. CASE ResumeView \/ CameraFrame
      BY <3>5 DEF ResumeView, CameraFrame, mainVars, drawVars, codecVars, rtmpVars
    <3> QED BY <1>3, <3>1, <3>2, <3>3, <3>4, <3>5 DEF Main, Stopping
  <2>2. Fresh => gl' \in {"idle", "texture"} /\ status' \in {"none", "off"}
    BY <2>1 DEF Fresh
  <2>3. Starting => status' = "off" /\ gl' = gl
    BY <2>1 DEF Starting
  <2>4. Begun => gl' \notin {"waiting", "start"} /\ (enabled' => status' \in {"on", "resumed"})
    BY <2>1 DEF Begun
  <2> QED BY <2>1, <2>2, <2>3, <2>4, LifeStays
<1> QED BY <1>1, <1>2, <1>3

\* The GL thread's actions.
LEMMA GlLife ==
  ASSUME VideoTypes, Asked, Life, GlThread, NoMore => NoMore', crash = "none", crash' = "none"
  PROVE  Life'
<1>1. CASE RunEvent
  <2>1. /\ UNCHANGED <<ui, gl, status, core, decoder, streamed, stops, thread, running, ready, handler, messages>>
        /\ gl = "idle" /\ (Head(events) # "start" => (enabled' => enabled))
    <3>1. Head(events) \in {"start", "stop", "pausing"}
      BY <1>1, AskedLess
    <3>2. status' = status /\ gl = "idle" /\ (Head(events) # "start" => (enabled' => enabled))
      BY <1>1, <3>1 DEF RunEvent
    <3> QED BY <1>1, <3>2 DEF RunEvent, mainVars, codecVars, rtmpVars
  <2>2. Fresh => gl' \in {"idle", "texture"} /\ status' \in {"none", "off"}
    BY <2>1 DEF Fresh
  <2>3. ~Starting
    BY <2>1 DEF Starting
  <2>4. Begun => gl' \notin {"waiting", "start"} /\ (enabled' => status' \in {"on", "resumed"})
    BY <1>1, <2>1, AskedLess DEF Begun
  <2> QED BY <2>1, <2>2, <2>3, <2>4, LifeStays
<1>2. CASE OnSurfaceCreated
  <2>1. /\ UNCHANGED <<ui, gl, core, decoder, streamed, stops, thread, running, ready, handler, messages>>
        /\ gl = "idle" /\ enabled' = running
        /\ status' = IF running THEN "resumed" ELSE "off"
    BY <1>2 DEF OnSurfaceCreated, IsRecording, mainVars, codecVars, rtmpVars
  <2>2. Fresh => gl' \in {"idle", "texture"} /\ status' \in {"none", "off"}
    BY <2>1 DEF Fresh
  <2>3. ~Starting
    BY <2>1 DEF Starting
  <2>4. Begun => gl' \notin {"waiting", "start"} /\ (enabled' => status' \in {"on", "resumed"})
    BY <2>1 DEF Begun
  <2> QED BY <2>1, <2>2, <2>3, <2>4, LifeStays
<1>3. CASE Draw
  <2>1. /\ UNCHANGED <<ui, core, decoder, streamed, stops, ready, handler, messages, enabled>>
        /\ gl = "idle"
    BY <1>3 DEF Draw, CanDraw, mainVars, rtmpVars
  <2>2. ~Starting
    BY <2>1 DEF Starting
  <2>3. CASE enabled /\ status = "off" /\ ~running
    <3>1. gl' = "waiting" /\ running' /\ thread' = "new" /\ status' = status
      BY <1>3, <2>3 DEF Draw
    <3>2. NoMore /\ ~Begun /\ ~running
      BY <2>3 DEF Asked, Begun
    <3>3. Fresh
      BY <2>2, <3>2 DEF Life, Doomed, Pending, Active, Looping
    <3>4. Starting'
      BY <2>1, <2>3, <3>1, <3>2, <3>3 DEF Fresh, Starting, Untouched
    <3> QED BY <3>4 DEF Life
  <2>4. CASE ~(enabled /\ status = "off" /\ ~running)
    <3>1. UNCHANGED <<thread, running>> /\ gl' \in {"stop", "texture", "update"}
          /\ (status' = status \/ (~enabled /\ status' = "off"))
      BY <1>3, <2>4 DEF Draw, Asked
    <3>2. Fresh => gl' = "texture" /\ status' \in {"none", "off"}
      BY <1>3, <2>4, <3>1 DEF Draw, Fresh
    <3>3. Begun => gl' \notin {"waiting", "start"} /\ (enabled' => status' \in {"on", "resumed"})
      BY <2>1, <3>1 DEF Begun
    <3> QED BY <2>1, <2>2, <3>1, <3>2, <3>3, LifeStays
  <2> QED BY <2>3, <2>4
<1>4. CASE StartReady \/ SetTexture \/ SendTexture \/ FrameAvailable
  <2>1. UNCHANGED <<ui, status, enabled, core, decoder, streamed, stops, thread, running, ready, handler, messages>>
    BY <1>4 DEF StartReady, SetTexture, SendTexture, FrameAvailable, mainVars, codecVars, rtmpVars
  <2>2. /\ gl = "waiting" => ready /\ gl' = "start"
        /\ gl # "waiting" => gl' \in {"setTexture", "idle", "frame", "sendFrame"} /\ gl # "start"
        /\ gl = "texture" => ready \/ gl' = "idle"
        /\ gl \in {"waiting", "texture", "setTexture", "frame"}
    BY <1>4 DEF StartReady, SetTexture, SendTexture, FrameAvailable
  <2>3. Fresh => gl' \in {"idle", "texture"} /\ status' \in {"none", "off"}
    BY <1>4, <2>1 DEF Fresh, StartReady, SetTexture, SendTexture, FrameAvailable
  <2>4. Starting => status' = "off" /\ thread = "loop" /\ gl' \in {"waiting", "start"}
    BY <2>1, <2>2 DEF Starting, Looping
  <2>5. Begun => gl' \notin {"waiting", "start"} /\ (enabled' => status' \in {"on", "resumed"})
    BY <2>1, <2>2 DEF Begun
  <2> QED BY <2>1, <2>2, <2>3, <2>4, <2>5, LifeStays
<1>5. CASE GlSends
  <2>1. /\ UNCHANGED <<ui, enabled, core, decoder, streamed, stops, thread, running, ready, handler>>
        /\ gl \in {"start", "update", "stop", "quit"}
        /\ status' = IF gl \in {"start", "update"} THEN "on" ELSE status
        /\ gl' = IF gl = "stop" THEN "quit" ELSE "texture"
        /\ Send(gl, "onDrawFrame")
    BY <1>5 DEF GlSends, Asked, mainVars, codecVars, rtmpVars
  <2>2. handler /\ messages' = IF thread = "quit" THEN messages ELSE Append(messages, gl)
    BY <2>1 DEF Send
  <2>3. gl \in EncoderMessages
    BY <2>1 DEF EncoderMessages
  <2>4. CASE gl = "start"
    <3>1. ~Begun /\ ~Fresh
      BY <2>2, <2>4 DEF Begun, Fresh
    <3>2. /\ messages \in Seq(EncoderMessages) /\ Len(messages) \in Nat
          /\ DOMAIN messages = 1..Len(messages)
          /\ DOMAIN Append(messages, "start") = 1..(Len(messages) + 1)
          /\ \A k \in DOMAIN messages : Append(messages, "start")[k] = messages[k]
          /\ Append(messages, "start")[Len(messages) + 1] = "start"
      BY <2>3, <2>4, PutLast DEF VideoTypes
    <3>3. Append(messages, "start") # <<>>
          /\ Head(Append(messages, "start")) = Append(messages, "start")[1]
      BY <3>2
    <3>4. (Untouched => Untouched') /\ (Looping => Looping')
      BY <2>1 DEF Untouched, Looping
    <3>5. CASE Starting
      <4>1. Looping /\ Untouched /\ messages = <<>> /\ messages' = Append(messages, "start") /\ ui # "quit" /\ NoMore
        BY <2>2, <2>4, <3>5 DEF Starting, Looping
      <4>2. DOMAIN messages' = 1..1 /\ messages'[1] = "start" /\ messages' # <<>> /\ Head(messages') = "start"
        BY <3>2, <3>3, <4>1
      <4>3. gl' = "texture" /\ status' = "on" /\ ui' # "quit"
        BY <2>1, <2>4, <4>1
      <4>4. Begun' /\ StopFirst'
        BY <4>1, <4>2, <4>3 DEF Begun, StopFirst
      <4>5. \A k \in DOMAIN messages' : messages'[k] = "start" => k = 1
        BY <4>2
      <4>6. Pending'
        BY <3>4, <4>1, <4>2, <4>4, <4>5 DEF Pending
      <4> QED BY <4>6 DEF Life
    <3>6. CASE Doomed
      <4>1. messages' = Append(messages, "start")
        BY <2>2, <2>4, <3>6 DEF Doomed, Looping
      <4>2. Head(messages') = "stop" /\ messages' # <<>>
        BY <3>2, <3>3, <3>6, <4>1 DEF Doomed
      <4>3. Doomed'
        BY <3>4, <3>6, <4>2 DEF Doomed
      <4> QED BY <4>3 DEF Life
    <3> QED BY <3>1, <3>5, <3>6 DEF Life, Pending, Active
  <2>5. CASE gl # "start"
    <3>1. ~Starting
      BY <2>1, <2>5 DEF Starting
    <3>2. Begun => gl' \notin {"waiting", "start"} /\ (enabled' => status' \in {"on", "resumed"})
      BY <2>1 DEF Begun
    <3> DEFINE m == gl
    <3>3. /\ m \in EncoderMessages /\ m # "start"
          /\ messages' = IF thread = "quit" THEN messages ELSE Append(messages, m)
          /\ (m = "quit" => gl = "quit" \/ ui = "quit")
          /\ (gl' = "quit" \/ ui' = "quit" => gl = "quit" \/ ui = "quit" \/ m = "stop")
      BY <2>1, <2>2, <2>3, <2>5
    <3> HIDE DEF m
    <3> QED BY <2>1, <2>2, <3>1, <3>2, <3>3, LifeSent
  <2> QED BY <2>4, <2>5
<1>6. CASE SendFrame
  <2>1. /\ UNCHANGED <<ui, enabled, status, core, decoder, streamed, stops, thread, running, ready, handler>>
        /\ gl = "sendFrame" /\ gl' = "idle" /\ Send("frame", "frameAvailable")
    BY <1>6 DEF SendFrame, mainVars, codecVars, rtmpVars
  <2>2. handler /\ messages' = IF thread = "quit" THEN messages ELSE Append(messages, "frame")
    BY <2>1 DEF Send
  <2>3. "frame" \in EncoderMessages /\ ~Starting
    BY <2>1 DEF EncoderMessages, Starting
  <2>4. Begun => gl' \notin {"waiting", "start"} /\ (enabled' => status' \in {"on", "resumed"})
    BY <2>1 DEF Begun
  <2> QED BY <2>1, <2>2, <2>3, <2>4, LifeSent
<1>7. ~DrawReleased
  BY DEF DrawReleased
<1> QED BY <1>1, <1>2, <1>3, <1>4, <1>5, <1>6, <1>7 DEF GlThread

\* The encoder's thread handles a message.
LEMMA ActiveTaken ==
  ASSUME VideoTypes, Active, thread = "loop", messages # <<>>, messages' = Tail(messages),
         UNCHANGED <<mainVars, drawVars, events, thread, running, ready, handler>>,
         core'.id = 1, Freed => Freed', Head(messages) = "stop" => Freed', Unstopped'
  PROVE  Life'
<1>1. UNCHANGED <<ui, gl, status, enabled, starts, opening, events>>
  BY DEF mainVars, drawVars
<1>2. StopFirst'
  BY <1>1, StopFirstTaken DEF Active
<1>3. \A k \in DOMAIN messages' : messages'[k] # "start"
  BY TakeFirst DEF Active, VideoTypes
<1>4. Begun'
  BY <1>1 DEF Active, Begun, NoMore
<1>5. Active'
  BY <1>2, <1>3, <1>4 DEF Active
<1> QED BY <1>5 DEF Life

LEMMA EncoderLife ==
  ASSUME VideoTypes, Life, EncoderThread \/ Streamer, crash = "none", crash' = "none"
  PROVE  Life'
<1>1. \A m : Receive(m) => thread = "loop" /\ messages # <<>> /\ Head(messages) = m /\ messages' = Tail(messages)
  BY DEF Receive
<1>2. messages \in Seq(EncoderMessages) /\ core \in Core
  BY DEF VideoTypes, CoreTypes
<1>3. UNCHANGED <<mainVars, drawVars, events>>
  BY DEF EncoderThread, ThreadReady, HandleStart, HandleFrame, HandleStop, HandleUpdate, HandleQuit,
         ThreadExits, Streamer, StreamerStops, ConnectionLost
<1>4. UNCHANGED <<ui, gl, status, enabled, starts, opening, events>>
  BY <1>3 DEF mainVars, drawVars
<1>5. (NoMore => NoMore') /\ (Begun => Begun')
  BY <1>4 DEF NoMore, Begun
\* Nothing but a start or a stop is first before the encoder is made.
<1>6. thread = "loop" /\ messages # <<>> /\ Head(messages) \notin {"start", "stop"} => Active
  BY DEF Life, Fresh, Starting, Doomed, Pending
<1>7. CASE ThreadReady
  <2>1. Starting
    BY <1>7, HandlerThere DEF ThreadReady
  <2>2. thread' = "loop" /\ handler' /\ ready' /\ UNCHANGED <<running, core, messages, stops, decoder, streamed>>
    BY <1>7 DEF ThreadReady, rtmpVars
  <2>3. Starting'
    BY <1>4, <1>5, <1>7, <2>1, <2>2 DEF ThreadReady, Starting, Looping, Untouched
  <2> QED BY <2>3 DEF Life
<1>8. CASE HandleStart
  <2>1. thread = "loop" /\ messages # <<>> /\ Head(messages) = "start" /\ messages' = Tail(messages)
    BY <1>1, <1>8 DEF HandleStart
  <2>2. /\ core' = [id |-> core.id + 1, codec |-> TRUE, configured |-> FALSE, writer |-> TRUE]
        /\ UNCHANGED <<thread, running, ready, handler, decoder, streamed, stops>>
    BY <1>8 DEF HandleStart, rtmpVars
  <2>3. Pending
    <3>1. 1 \in DOMAIN messages /\ messages[1] = "start"
      BY <1>2, <2>1, TakeFirst
    <3> QED BY <2>1, <3>1 DEF Life, Fresh, Starting, Doomed, Active
  <2>4. Untouched /\ Looping /\ Begun /\ StopFirst
    BY <2>3 DEF Pending
  <2>5. core.id = 0 /\ ~Freed
    BY <2>4, CoreFacts DEF Untouched, Freed
  <2>6. core'.id = 1 /\ core'.codec /\ ~core'.configured
    BY <2>2, <2>5
  <2>7. StopFirst'
    BY <1>4, <2>1, <2>4, <2>5, StopFirstTaken
  <2>8. ASSUME NEW k \in DOMAIN messages' PROVE messages'[k] # "start"
    <3>1. k \in Nat /\ k + 1 \in DOMAIN messages /\ messages'[k] = messages[k + 1] /\ k # 0
      BY <1>2, <2>1, TakeFirst
    <3>2. k + 1 # 1
      BY <3>1
    <3> QED BY <2>3, <3>1, <3>2 DEF Pending
  <2>9. Unstopped' /\ running' /\ ready' /\ handler' /\ thread' = "loop"
    BY <2>2, <2>4, <2>6 DEF Unstopped, Untouched, Looping
  <2>10. Active'
    BY <1>5, <2>4, <2>6, <2>7, <2>8, <2>9 DEF Active
  <2> QED BY <2>10 DEF Life
<1>9. CASE HandleFrame
  <2>1. thread = "loop" /\ messages # <<>> /\ Head(messages) = "frame" /\ messages' = Tail(messages)
        /\ UNCHANGED <<thread, running, ready, handler, stops>>
    BY <1>1, <1>9 DEF HandleFrame
  <2>2. Active
    BY <1>6, <2>1
  <2>3. CASE core.codec
    <3>1. PICK c \in BOOLEAN : Drain(c) /\ core' = [core EXCEPT !.configured = c]
      BY <1>9, <2>3 DEF HandleFrame
    <3>2. core'.id = core.id /\ core'.codec = core.codec /\ core'.configured = c
      BY <1>2, <3>1 DEF Core
    <3>3. Unstopped'
      BY <2>1, <2>2, <3>2 DEF Active, Unstopped
    <3> QED BY <1>3, <2>1, <2>2, <3>2, <3>3, ActiveTaken DEF Active, Freed
  <2>4. CASE ~core.codec
    <3>1. core' = core
      BY <1>9, <2>4 DEF HandleFrame
    <3>2. Unstopped' /\ core'.id = 1
      BY <2>2, <2>4, <3>1 DEF Unstopped, Active
    <3> QED BY <1>3, <2>1, <2>2, <3>1, <3>2, ActiveTaken DEF Freed
  <2> QED BY <2>3, <2>4
<1>10. CASE HandleStop
  <2>1. thread = "loop" /\ messages # <<>> /\ messages' = Tail(messages)
        /\ UNCHANGED <<thread, running, ready, handler>>
    BY <1>1, <1>10 DEF HandleStop
  <2>2. core.id # 0 /\ core' = Released(Head(messages))
    BY <1>10 DEF HandleStop
  <2>3. Active
    BY <2>2, HandlerThere
  <2>4. core'.id = core.id /\ ~core'.codec
    BY <1>2, <2>2 DEF Released, Core
  <2>5. Unstopped' /\ Freed' /\ core'.id = 1
    BY <2>3, <2>4 DEF Unstopped, Freed, Active
  <2> QED BY <1>3, <2>1, <2>3, <2>5, ActiveTaken
<1>11. CASE HandleUpdate
  <2>1. thread = "loop" /\ messages # <<>> /\ Head(messages) = "update" /\ messages' = Tail(messages)
        /\ UNCHANGED <<thread, running, ready, handler, core, stops, decoder, streamed>>
    BY <1>1, <1>11 DEF HandleUpdate, codecVars, rtmpVars
  <2>2. Active
    BY <1>6, <2>1
  <2>3. Unstopped' /\ core'.id = 1
    BY <2>1, <2>2 DEF Unstopped, Active
  <2> QED BY <1>3, <2>1, <2>2, <2>3, ActiveTaken DEF Freed
<1>12. CASE HandleQuit
  <2>1. /\ thread = "loop" /\ messages # <<>> /\ Head(messages) = "quit"
        /\ messages' = <<>> /\ thread' = "quit"
        /\ UNCHANGED <<running, ready, handler, core, stops, decoder, streamed>>
    BY <1>12 DEF HandleQuit, rtmpVars
  <2>2. Active
    BY <1>6, <2>1
  <2>3. Freed
    <3>1. 1 \in DOMAIN messages /\ messages[1] = "quit" /\ DOMAIN messages \subseteq Nat
          /\ \A j \in DOMAIN messages : ~(j < 1)
      BY <1>2, <2>1, TakeFirst
    <3> QED BY <2>2, <3>1 DEF Active, StopFirst, StopIn
  <2>4. Unstopped' /\ Freed' /\ StopFirst'
    BY <2>1, <2>2, <2>3 DEF Active, Unstopped, Freed, StopFirst
  <2>5. Active'
    BY <1>5, <2>1, <2>2, <2>4 DEF Active, Freed
  <2> QED BY <2>5 DEF Life
<1>13. CASE ThreadExits
  <2>1. /\ thread = "quit" /\ thread' = "none" /\ ~running' /\ ~ready' /\ ~handler'
        /\ UNCHANGED <<core, messages, stops, decoder, streamed>>
    BY <1>13 DEF ThreadExits, rtmpVars
  <2>2. Active
    BY <2>1, HandlerThere
  <2>3. ~core.codec /\ messages = <<>> /\ core.id = 1
    BY <2>1, <2>2 DEF Active
  <2>4. Unstopped' /\ Freed'
    BY <2>1, <2>3 DEF Unstopped, Freed
  <2>5. StopFirst'
    BY <2>4 DEF StopFirst
  <2>6. Active'
    BY <1>5, <2>1, <2>2, <2>3, <2>4, <2>5 DEF Active
  <2> QED BY <2>6 DEF Life
<1>14. CASE Streamer
  <2>1. /\ UNCHANGED <<core, decoder, streamed, thread, running, ready, handler, messages>>
        /\ stops = 0 => stops' = 0
    BY <1>14 DEF Streamer, StreamerStops, ConnectionLost, codecVars
  <2>2. Fresh => gl' \in {"idle", "texture"} /\ status' \in {"none", "off"}
    BY <1>4 DEF Fresh
  <2>3. Starting => status' = "off" /\ gl' = gl
    BY <1>4 DEF Starting
  <2>4. Begun => gl' \notin {"waiting", "start"} /\ (enabled' => status' \in {"on", "resumed"})
    BY <1>4 DEF Begun
  <2> QED BY <1>4, <1>5, <2>1, <2>2, <2>3, <2>4, LifeStays
<1> QED BY <1>7, <1>8, <1>9, <1>10, <1>11, <1>12, <1>13, <1>14 DEF EncoderThread

\* The server's view of the pictures changes with a new connection and with a codec's output.
LEMMA OnlyDrain ==
  ASSUME VideoNext
  PROVE  UNCHANGED <<decoder, streamed>> \/ Opened \/ (core.codec /\ \E c \in BOOLEAN : Drain(c))
<1>1. CASE HandleFrame
  BY <1>1 DEF HandleFrame
<1>2. CASE HandleStop
  BY <1>2 DEF HandleStop
<1>3. CASE ThreadReady \/ HandleStart \/ HandleUpdate \/ HandleQuit \/ ThreadExits \/ Streamer
  BY <1>3 DEF ThreadReady, HandleStart, HandleUpdate, HandleQuit, ThreadExits, Streamer, StreamerStops,
              ConnectionLost, rtmpVars
<1>4. CASE GlThread
  BY <1>4 DEF GlThread, RunEvent, OnSurfaceCreated, Draw, DrawReleased, StartReady, GlSends, SetTexture,
              SendTexture, FrameAvailable, SendFrame, rtmpVars
<1>5. CASE StartBroadcasting \/ OpenFails \/ TimerFires \/ TimerPosts \/ ChangeCamera \/ ResumeView \/ CameraFrame
  BY <1>5 DEF StartBroadcasting, OpenFails, TimerFires, TimerPosts, ChangeCamera, ResumeView, CameraFrame, rtmpVars
<1>6. CASE (\E p \in BOOLEAN : StopBroadcasting(p)) \/ Stopping
  BY <1>6 DEF StopBroadcasting, Stopping, Poll, ForceStop, QueuePausing, PauseView, rtmpVars
<1> QED BY <1>1, <1>2, <1>3, <1>4, <1>5, <1>6 DEF VideoNext, Main, EncoderThread

\* A running encoder stays known to the renderer.
LEMMA KnownKept ==
  ASSUME VideoTypes, Asked, Life, KnownToRenderer, VideoNext PROVE KnownToRenderer'
<1>1. running /\ timer => enabled
  BY DEF KnownToRenderer
<1>2. running' /\ timer' => enabled'
  <2>1. CASE Opened
    <3>1. opening /\ running' = running
      BY <2>1 DEF Opened, codecVars
    <3>2. ~running
      BY <3>1, LifeFacts DEF Fresh, NoMore
    <3> QED BY <3>1, <3>2
  <2>2. CASE RunEvent
    <3>1. running' = running /\ timer' = timer
      BY <2>2 DEF RunEvent, codecVars, mainVars
    <3>2. Head(events) \in {"start", "stop", "pausing"} /\ (Head(events) = "stop" => ~timer)
      BY <2>2, AskedLess
    <3>3. Head(events) # "stop" => enabled' = TRUE \/ enabled' = enabled
      BY <2>2, <3>2 DEF RunEvent
    <3> QED BY <1>1, <3>1, <3>2, <3>3
  <2>3. CASE OnSurfaceCreated
    BY <2>3 DEF OnSurfaceCreated, IsRecording, codecVars
  <2>4. CASE Draw
    <3>1. timer' = timer /\ enabled' = enabled /\ (running' = running \/ enabled)
      BY <2>4 DEF Draw, mainVars
    <3> QED BY <1>1, <3>1
  <2>5. CASE ThreadExits
    BY <2>5 DEF ThreadExits
  <2>6. ASSUME UNCHANGED <<running, enabled>>, timer' => timer PROVE running' /\ timer' => enabled'
    BY <1>1, <2>6
  <2>7. CASE DrawReleased \/ StartReady \/ GlSends \/ SetTexture \/ SendTexture \/ FrameAvailable \/ SendFrame
    BY <2>6, <2>7 DEF DrawReleased, StartReady, GlSends, SetTexture, SendTexture, FrameAvailable, SendFrame,
                      mainVars, drawVars, codecVars
  <2>8. CASE ThreadReady \/ HandleStart \/ HandleFrame \/ HandleStop \/ HandleUpdate \/ HandleQuit
    BY <2>6, <2>8 DEF ThreadReady, HandleStart, HandleFrame, HandleStop, HandleUpdate, HandleQuit,
                      mainVars, drawVars, codecVars
  <2>9. CASE StreamerStops \/ ConnectionLost
    BY <2>6, <2>9 DEF StreamerStops, ConnectionLost, mainVars, drawVars, codecVars
  <2>10. CASE StartBroadcasting \/ OpenFails \/ TimerFires \/ TimerPosts
    BY <2>6, <2>10 DEF StartBroadcasting, OpenFails, TimerFires, TimerPosts, drawVars, codecVars
  <2>11. CASE \E p \in BOOLEAN : StopBroadcasting(p)
    BY <2>6, <2>11 DEF StopBroadcasting, drawVars, codecVars
  <2>12. CASE Stopping \/ ChangeCamera \/ ResumeView \/ CameraFrame
    BY <2>6, <2>12 DEF Stopping, Poll, ForceStop, QueuePausing, PauseView, ChangeCamera, ResumeView,
                       CameraFrame, mainVars, drawVars, codecVars
  <2> QED BY <2>1, <2>2, <2>3, <2>4, <2>5, <2>7, <2>8, <2>9, <2>10, <2>11, <2>12
          DEF VideoNext, Main, GlThread, EncoderThread, Streamer
<1> QED BY <1>2 DEF KnownToRenderer

LEMMA EncoderInvKept ==
  ASSUME SingleEncoder, VideoTypes, EncoderInv, [VideoNext]_videoVars PROVE EncoderInv'
<1>1. CASE VideoNext
  <2>1. crash = "none" /\ Life /\ Asked /\ KnownToRenderer
    BY <1>1 DEF VideoNext, EncoderInv
  <2>2. Asked' /\ (NoMore => NoMore')
    BY <1>1, <2>1, AskedKept
  <2>3. KnownToRenderer'
    BY <1>1, <2>1, KnownKept
  <2>4. ASSUME crash' = "none" PROVE Life'
    BY <1>1, <2>1, <2>2, <2>4, MainLife, GlLife, EncoderLife DEF VideoNext, KnownToRenderer
  <2> QED BY <2>2, <2>3, <2>4 DEF EncoderInv
<1>2. CASE UNCHANGED videoVars
  <2>1. UNCHANGED <<mainVars, drawVars, events, codecVars, messages, crash, rtmpVars>>
    BY <1>2 DEF videoVars
  <2>2. NoMore' = NoMore
    BY <2>1 DEF mainVars, NoMore
  <2>3. Asked' = Asked
    BY <2>1, <2>2 DEF mainVars, drawVars, Asked
  <2>4. KnownToRenderer' = KnownToRenderer
    BY <2>1 DEF mainVars, drawVars, codecVars, rtmpVars, KnownToRenderer
  <2>5. Untouched' = Untouched /\ Looping' = Looping
    BY <2>1 DEF codecVars, rtmpVars, Untouched, Looping
  <2>6. Begun' = Begun /\ StopFirst' = StopFirst /\ Unstopped' = Unstopped
    BY <2>1, <2>2 DEF mainVars, drawVars, codecVars, rtmpVars, Begun, StopFirst, StopIn, Freed, Unstopped
  <2>7. Fresh' = Fresh /\ Starting' = Starting
    BY <2>1, <2>2, <2>5 DEF mainVars, drawVars, codecVars, Fresh, Starting
  <2>8. Doomed' = Doomed /\ Pending' = Pending /\ Active' = Active
    BY <2>1, <2>2, <2>5, <2>6 DEF codecVars, Doomed, Pending, Active
  <2>9. crash' = crash
    BY <2>1
  <2> QED BY <2>3, <2>4, <2>7, <2>8, <2>9 DEF EncoderInv, Life
<1> QED BY <1>1, <1>2

LEMMA EncoderInvStart ==
  VideoInit => EncoderInv
<1> SUFFICES ASSUME VideoInit PROVE EncoderInv
  OBVIOUS
<1>1. events = <<>> /\ DOMAIN events = {}
  BY DEF VideoInit
<1>2. Asked
  BY <1>1 DEF VideoInit, Asked
<1>3. KnownToRenderer
  BY DEF VideoInit, KnownToRenderer
<1>4. Fresh
  BY DEF VideoInit, Fresh, Untouched
<1> QED BY <1>2, <1>3, <1>4 DEF EncoderInv, Life

LEMMA EncoderInvAlways ==
  ASSUME SingleEncoder PROVE VideoSpec => [](VideoTypes /\ EncoderInv)
<1>1. VideoTypes /\ EncoderInv /\ [VideoNext]_videoVars => (VideoTypes /\ EncoderInv)'
  BY VideoTypesKept, EncoderInvKept
<1>2. VideoInit => VideoTypes /\ EncoderInv
  BY VideoStart, EncoderInvStart
<1> QED BY <1>1, <1>2, PTL DEF VideoSpec

\* One broadcast at one bitrate, stopped at any point and through any number of pauses of
\* the view: the codec is free when the encoder's thread is gone, and an encoder that runs
\* stays known to the renderer.
THEOREM EncoderNotLost ==
  ASSUME SingleEncoder PROVE VideoSpec => []NoEncoderLost
<1>1. VideoTypes /\ EncoderInv => NoEncoderLost
  <2> SUFFICES ASSUME VideoTypes, EncoderInv PROVE NoEncoderLost
    OBVIOUS
  <2>1. ASSUME crash = "none", ~running PROVE ~core.codec
    <3>1. Life
      BY <2>1 DEF EncoderInv
    <3>2. core.codec => Active
      BY <3>1, HandlerThere
    <3> QED BY <2>1, <3>2 DEF Active
  <2> QED BY <2>1 DEF NoEncoderLost, EncoderInv, KnownToRenderer
<1> QED BY <1>1, EncoderInvAlways, PTL

\* Of such a broadcast no picture follows the STOP_STREAMING message.
THEOREM StopIsLast ==
  ASSUME SingleEncoder PROVE VideoSpec => NothingAfterStop
<1>1. VideoTypes /\ EncoderInv /\ [VideoNext]_videoVars
        => [streamed' # streamed /\ streamed' # 0 => stops = 0]_videoVars
  <2> SUFFICES ASSUME VideoTypes, EncoderInv, VideoNext, streamed' # streamed, streamed' # 0
               PROVE  stops = 0
    OBVIOUS
  <2>1. Life
    BY DEF VideoNext, EncoderInv
  <2>2. core.codec
    <3>1. ~Opened
      BY DEF Opened
    <3> QED BY <3>1, OnlyDrain
  <2> QED BY <2>1, <2>2, HandlerThere DEF Active, Unstopped
<1> QED BY <1>1, EncoderInvAlways, PTL DEF VideoSpec, NothingAfterStop
=============================================================================
