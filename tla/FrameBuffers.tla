---------------------------- MODULE FrameBuffers ----------------------------
(***************************************************************************)
(* How an encoder thread recycles the byte arrays it hands to the RTMP     *)
(* streamer (AudioEncoder.run and getBuffer; VideoEncoderCore.getBuffer is *)
(* the same code).  The two threads share no lock: the encoder keeps a     *)
(* map from timestamps to arrays and takes an array back once the          *)
(* streamer's "last sent timestamp" has reached its key.                   *)
(*                                                                         *)
(* One kind of frame is modelled; what the streamer does with the other    *)
(* kind only moves lastSent.  An array is named by the number of the frame *)
(* it was allocated for.                                                   *)
(***************************************************************************)
EXTENDS Integers, Sequences, FiniteSets

CONSTANTS
  MaxFrames,   \* bound on the frames the codec puts out
  MaxTime,     \* bound on their timestamps, in ms
  Sizes,       \* sizes of the encoded frames
  ConfigSize,  \* size of the first packet, the codec's configuration
  MinGap       \* smallest distance of two timestamps, in ms

ASSUME BuffersAssumption ==
  /\ MaxFrames \in Nat \ {0} /\ MaxTime \in Nat /\ MinGap \in Nat \ {0}
  /\ Sizes \subseteq Nat /\ ConfigSize \in Nat
  /\ \A s \in Sizes : ConfigSize < s

VARIABLES
  frames,    \* frames encoded so far
  lastPts,   \* timestamp of the latest one, -1 before the first
  reserved,  \* reservedBuffers: entries [key, buf]
  size,      \* length of every array
  content,   \* the frame whose bytes an array holds
  encoder,   \* where the encoder thread is
  seen,      \* the last sent timestamp it read from the streamer
  waiting,   \* frames on their way: first those in the streamer's list ...
  arrived,   \* ... this many, then those in its message queue
  writing,   \* rtmpMuxer.writeAudio() is working on the first one
  lastFrame, \* lastAudioFrameTimeStamp
  lastSent   \* lastSentFrameTimeStamp, of either kind

encoderVars == <<frames, lastPts, reserved, size, content, encoder, seen>>
streamerVars == <<arrived, writing, lastFrame, lastSent>>
vars == <<encoderVars, waiting, streamerVars>>

Arrays == 1..MaxFrames
Frame == [no : Arrays, pts : 0..MaxTime, buf : Arrays]

TypeOK ==
  /\ frames \in 0..MaxFrames
  /\ lastPts \in -1..MaxTime
  /\ reserved \subseteq [key : 0..MaxTime, buf : Arrays]
  /\ size \in [Arrays -> Nat]
  /\ content \in [Arrays -> 0..MaxFrames]
  /\ encoder \in {"waits", "asked", "ended"}
  /\ seen \in Nat
  /\ waiting \in Seq(Frame)
  /\ arrived \in 0..Len(waiting)
  /\ writing \in BOOLEAN
  /\ lastFrame \in Nat
  /\ lastSent \in Int

Init ==
  /\ frames = 0 /\ lastPts = -1
  /\ reserved = {}
  /\ size = [b \in Arrays |-> 0] /\ content = [b \in Arrays |-> 0]
  /\ encoder = "waits" /\ seen = 0
  /\ waiting = <<>> /\ arrived = 0 /\ writing = FALSE
  /\ lastFrame = 0 /\ lastSent = -1

-----------------------------------------------------------------------------
(* The encoder thread *)

\* The argument of getBuffer() is read before the map is searched.
\* Mutant: the time of the last frame of either kind is read.
AskStreamer_AnyKind ==
  /\ encoder = "waits"
  /\ frames < MaxFrames
  /\ encoder' = "asked"
  /\ seen' = lastSent
  /\ UNCHANGED <<frames, lastPts, reserved, size, content, waiting, streamerVars>>
AskStreamer ==
  /\ encoder = "waits"
  /\ frames < MaxFrames
  /\ encoder' = "asked"
  /\ seen' = lastFrame
  /\ UNCHANGED <<frames, lastPts, reserved, size, content, waiting, streamerVars>>

\* The entries getBuffer() takes for sent ...
Eligible == {r \in reserved : r.key <= seen}
\* ... and of those the arrays that are too short, which it lets go of.
TooShort(s) == {r \in Eligible : size[r.buf] < s}

\* The codec's next output: its configuration at time 0, then frames.
NextOutput(s, pts) ==
  IF frames = 0 THEN s = ConfigSize /\ pts = 0
                ELSE s \in Sizes /\ pts >= lastPts + MinGap

\* reservedBuffers.put() after some entries were removed.
Put(gone, pts, b) ==
  reserved' = {r \in reserved \ gone : r.key # pts} \cup {[key |-> pts, buf |-> b]}

\* The bytes are copied into the array and writeAudio() posts the frame.
Post(pts, b) ==
  /\ content' = [content EXCEPT ![b] = frames + 1]
  /\ waiting' = Append(waiting, [no |-> frames + 1, pts |-> pts, buf |-> b])
  /\ frames' = frames + 1
  /\ lastPts' = pts
  /\ encoder' = "waits"
  /\ UNCHANGED <<seen, streamerVars>>

\* The search of the map meets a long enough array of a sent frame, after
\* having removed some of the too short ones: the order of a HashMap.
Recycle(s, pts) ==
  /\ encoder = "asked"
  /\ NextOutput(s, pts)
  /\ \E r \in Eligible \ TooShort(s), gone \in SUBSET TooShort(s) :
       /\ Put(gone \cup {r}, pts, r.buf)
       /\ Post(pts, r.buf)
  /\ UNCHANGED size

\* It meets none and a new array is made.
Allocate(s, pts) ==
  /\ encoder = "asked"
  /\ NextOutput(s, pts)
  /\ Eligible \subseteq TooShort(s)
  /\ Put(Eligible, pts, frames + 1)
  /\ Post(pts, frames + 1)
  /\ size' = [size EXCEPT ![frames + 1] = s]

\* The end of the stream: reservedBuffers.clear(), the thread's last step.
EndOfStream ==
  /\ encoder = "waits"
  /\ encoder' = "ended"
  /\ reserved' = {}
  /\ UNCHANGED <<frames, lastPts, size, content, seen, waiting, streamerVars>>

-----------------------------------------------------------------------------
(* The streamer's thread *)

\* A SEND_AUDIO message is handled: the frame goes to the end of the list.
Arrive ==
  /\ arrived < Len(waiting)
  /\ arrived' = arrived + 1
  /\ UNCHANGED <<encoderVars, waiting, writing, lastFrame, lastSent>>

\* Frames of the other kind go out, up to the first one of this kind in the
\* list (any, if the list is empty: finishframes()).
SendOther(t) ==
  /\ ~writing
  /\ t >= lastSent
  /\ arrived > 0 => t <= waiting[1].pts
  /\ lastSent' = IF t = lastSent THEN t + 1 ELSE t
  /\ UNCHANGED <<encoderVars, waiting, arrived, writing, lastFrame>>

\* The first frame of the list is given to the native writer.
BeginWrite ==
  /\ ~writing
  /\ arrived > 0
  /\ waiting[1].pts >= lastSent
  /\ writing' = TRUE
  /\ UNCHANGED <<encoderVars, waiting, arrived, lastFrame, lastSent>>

SentAt == IF waiting[1].pts = lastSent THEN waiting[1].pts + 1 ELSE waiting[1].pts

\* The writer returns: the time of the frame is recorded, the frame removed.
EndWrite ==
  /\ writing
  /\ writing' = FALSE
  /\ lastFrame' = SentAt /\ lastSent' = SentAt
  /\ waiting' = Tail(waiting) /\ arrived' = arrived - 1
  /\ UNCHANGED encoderVars

\* A frame older than the last one sent is removed without being written.
Discard ==
  /\ ~writing
  /\ arrived > 0
  /\ waiting[1].pts < lastSent
  /\ waiting' = Tail(waiting) /\ arrived' = arrived - 1
  /\ UNCHANGED <<encoderVars, writing, lastFrame, lastSent>>

-----------------------------------------------------------------------------
Next ==
  \/ AskStreamer
  \/ \E s \in Sizes \cup {ConfigSize}, pts \in 0..MaxTime : Recycle(s, pts) \/ Allocate(s, pts)
  \/ EndOfStream
  \/ Arrive
  \/ \E t \in 0..MaxTime : SendOther(t)
  \/ BeginWrite
  \/ EndWrite
  \/ Discard

Spec == Init /\ [][Next]_vars

-----------------------------------------------------------------------------
\* Every frame that waits in the streamer, or is being written, still has its
\* own bytes: getBuffer() takes no array back before it has been written
\* ("because it is already written to network").  Nothing but the timestamps
\* tells the two threads so.
BytesKept == \A i \in 1..Len(waiting) : content[waiting[i].buf] = waiting[i].no
=============================================================================
