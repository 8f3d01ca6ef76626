---------------------------- MODULE AudioCapture ----------------------------
(***************************************************************************)
(* The way of the sound of a broadcast: the recorder thread reads samples  *)
(* into a ring of byte arrays and posts them (AudioRecorderThread), the    *)
(* audio handler thread copies them into the codec (AudioHandler,          *)
(* AudioEncoder.encodeAudio), the encoder thread takes the codec's output  *)
(* to the streamer (AudioEncoder.run).  Each broadcast has a recorder and  *)
(* an encoder thread of its own; the handler thread is the same for all,   *)
(* and its field audioEncoder, assigned by startBroadcasting on another    *)
(* thread, decides which encoder a message is for.                         *)
(*                                                                         *)
(* An exception that nobody catches ends the process: see fault.           *)
(***************************************************************************)
EXTENDS Naturals, Sequences, FiniteSets, SequencesExt

CONSTANTS
  MaxBroadcasts, \* bound on the broadcasts of one service
  MaxSamples,    \* bound on the samples of each recorder
  MaxStops,      \* bound on the calls of stopBroadcasting()
  Slots,         \* arrays of the ring, 1000 in the code
  InputBuffers   \* input buffers of a codec

ASSUME AudioAssumption ==
  /\ MaxBroadcasts \in Nat \ {0} /\ MaxStops \in Nat
  /\ MaxSamples \in [1..MaxBroadcasts -> Nat]
  /\ Slots \in Nat \ {0} /\ InputBuffers \in Nat \ {0}

Broadcasts == 1..MaxBroadcasts

VARIABLES
  service,   \* where the caller of start/stopBroadcasting is, [at, now, stops, again, early]
  recorder,  \* recorder threads: [at, record, stop, posted, late]
  ring,      \* the sample each array of a recorder holds, 0 while it is read into
  queue,     \* messages of the audio handler
  target,    \* AudioHandler.audioEncoder, 0 for null
  hand,      \* the message being handled and the encoder it is for
  encoders,  \* encoder threads and their codecs: [at, input, ended]
  over,      \* history: recorders that were done when a codec was told the end
  lost,      \* history: broadcasts whose END_OF_STREAM reached no codec of theirs
  fault      \* the exception that ended the process

captureVars == <<service, recorder, ring, queue, target, hand, encoders, over, lost, fault>>

Audio(b, n) == [what |-> "audio", from |-> b, n |-> n]
End(b) == [what |-> "end", from |-> b, n |-> 0]
Message ==
  (UNION {{Audio(b, n) : n \in 1..MaxSamples[b]} : b \in Broadcasts}) \cup {End(b) : b \in Broadcasts}
Idle == [msg |-> End(1), to |-> 0]

CaptureTyped ==
  /\ service \in [at : {"idle", "made", "recording", "ending", "stopped"},
                  now : 0..MaxBroadcasts, stops : 0..MaxStops, again : BOOLEAN,
                  early : BOOLEAN]
  /\ \A b \in Broadcasts :
       /\ recorder[b] \in
            [at : {"none", "started", "reading", "posting", "looping", "done"},
             record : {"null", "recording", "released"}, stop : BOOLEAN,
             posted : 0..MaxSamples[b], late : BOOLEAN]
       /\ ring[b] \in [0..(Slots - 1) -> 0..MaxSamples[b]]
  /\ \A k \in DOMAIN queue : queue[k] \in Message
  /\ target \in 0..MaxBroadcasts
  /\ hand.msg \in Message /\ hand.to \in 0..MaxBroadcasts
  /\ \A b \in Broadcasts :
       /\ encoders[b].at \in {"none", "new", "created", "failed", "ready", "running",
                             "writing", "writingEnd", "ending", "released", "done"}
       /\ Len(encoders[b].input) <= InputBuffers /\ encoders[b].ended \in BOOLEAN
  /\ over \in [Broadcasts -> SUBSET Broadcasts] /\ lost \subseteq Broadcasts
  /\ fault \in {"none", "codec", "record"}

CaptureInit ==
  /\ service = [at |-> "idle", now |-> 0, stops |-> 0, again |-> FALSE,
              early |-> FALSE]
  /\ recorder = [b \in Broadcasts |-> [at |-> "none", record |-> "null", stop |-> FALSE,
                                       posted |-> 0, late |-> FALSE]]
  /\ ring = [b \in Broadcasts |-> [i \in 0..(Slots - 1) |-> 0]]
  /\ queue = <<>> /\ target = 0 /\ hand = Idle
  /\ encoders = [b \in Broadcasts |-> [at |-> "none", input |-> <<>>, ended |-> FALSE]]
  /\ over = [b \in Broadcasts |-> {}]
  /\ lost = {} /\ fault = "none"

-----------------------------------------------------------------------------
(* LiveVideoBroadcaster, on the thread of an AsyncTask and the main thread *)

\* startBroadcasting() once the connection is open: startAudioEncoder() first
\* assigns the field, so the handler sees an encoder whose codec is still null
\* (early: what is under way now is of the broadcast before).
Start ==
  /\ service.at \in {"idle", "stopped"} /\ service.now < MaxBroadcasts
  /\ service' = [service EXCEPT !.at = "made", !.now = @ + 1,
                               !.early = @ \/ queue # <<>> \/ hand # Idle]
  /\ target' = service.now + 1
  /\ encoders' = [encoders EXCEPT ![service.now + 1].at = "new"]
  /\ UNCHANGED <<recorder, ring, queue, hand, over, lost, fault>>

\* The codec is created and in the field before it is configured and started
\* and its input buffers are there.
CodecGoesOn ==
  /\ service.at = "made"
  /\ \E next \in {<<"new", "created">>, <<"created", "ready">>} :
       /\ encoders[service.now].at = next[1]
       /\ encoders' = [encoders EXCEPT ![service.now].at = next[2]]
  /\ UNCHANGED <<service, recorder, ring, queue, target, hand, over, lost, fault>>

\* The recorder thread is started whatever startAudioEncoder() returned;
\* isRecording = true, and it stays true after a stop, so that
\* stopBroadcasting() can be called again (pause()).
StartRecorder ==
  /\ service.at = "made"
  /\ service' = [service EXCEPT !.at = "recording"]
  /\ recorder' = [recorder EXCEPT ![service.now].at = "started"]

StartThread ==
  /\ StartRecorder
  /\ encoders[service.now].at = "ready"
  /\ encoders' = [encoders EXCEPT ![service.now].at = "running"]
  /\ UNCHANGED <<ring, queue, target, hand, over, lost, fault>>

\* It throws: the codec becomes null again; or, for another exception, the
\* field of the handler, which may be between its check of it and its use.
CodecFails ==
  /\ StartRecorder
  /\ encoders[service.now].at \in {"new", "created"}
  /\ \/ encoders' = [encoders EXCEPT ![service.now].at = "failed"] /\ UNCHANGED <<target, fault>>
     \/ /\ target' = 0 /\ UNCHANGED encoders
        /\ fault' \in {fault} \cup (IF queue # <<>> /\ hand = Idle THEN {"codec"} ELSE {})
  /\ UNCHANGED <<ring, queue, hand, over, lost>>

\* Mutant: the recorder is not stopped.
StopAudioRecording_Skipped(b) == UNCHANGED recorder

\* stopAudioRecording(): nothing unless the AudioRecord is recording already.
\* Only its first effect is visible to the recorder before the last one, and
\* a recorder that sees it ends in the same ways, so it is one step.
StopAudioRecording(b) ==
  IF recorder[b].record = "recording"
  THEN recorder' = [recorder EXCEPT ![b].stop = TRUE, ![b].record = "released"]
  ELSE UNCHANGED recorder

Stop ==
  /\ service.at \in {"recording", "stopped"} /\ service.now > 0
  /\ service.stops < MaxStops
  /\ StopAudioRecording(service.now)
  /\ service' = [service EXCEPT !.at = "ending", !.stops = @ + 1,
                               !.again = @ \/ service.at = "stopped"]
  /\ UNCHANGED <<ring, queue, target, hand, encoders, over, lost, fault>>

SendEnd ==
  /\ service.at = "ending"
  /\ queue' = Append(queue, End(service.now))
  /\ service' = [service EXCEPT !.at = "stopped"]
  /\ UNCHANGED <<recorder, ring, target, hand, encoders, over, lost, fault>>

-----------------------------------------------------------------------------
(* AudioRecorderThread.run of broadcast b                                  *)

\* Mutant: the index wraps one array too early.
Slot_Early(n) == IF Slots = 1 THEN 0 ELSE (n - 1) % (Slots - 1)

Slot(n) == (n - 1) % Slots

\* read() blocks with the next array of the ring half written.
BeginRead(b, r) ==
  /\ recorder' = [recorder EXCEPT ![b] = [r EXCEPT !.at = "reading"]]
  /\ ring' = [ring EXCEPT ![b][Slot(r.posted + 1)] = 0]

\* The AudioRecord is made and started: before that a stop is without effect.
StartRecording(b) ==
  /\ recorder[b].at = "started"
  /\ BeginRead(b, [recorder[b] EXCEPT !.record = "recording"])
  /\ UNCHANGED <<service, queue, target, hand, encoders, over, lost, fault>>

\* The loop's condition loads the field audioRecord, which a stop sets to null.
NextRead(b) ==
  /\ recorder[b].at = "looping"
  /\ IF recorder[b].record = "released"
     THEN fault' = "record" /\ UNCHANGED <<recorder, ring>>
     ELSE BeginRead(b, recorder[b]) /\ UNCHANGED fault
  /\ UNCHANGED <<service, queue, target, hand, encoders, over, lost>>

ReadReturns(b) ==
  /\ recorder[b].at = "reading" /\ recorder[b].posted < MaxSamples[b]
  /\ ring' = [ring EXCEPT ![b][Slot(recorder[b].posted + 1)] = recorder[b].posted + 1]
  /\ recorder' = [recorder EXCEPT ![b].at = "posting"]
  /\ UNCHANGED <<service, queue, target, hand, encoders, over, lost, fault>>

\* read() of a stopped AudioRecord returns no data: the thread ends.
ReadEnds(b) ==
  /\ recorder[b].at = "reading" /\ recorder[b].record = "released"
  /\ recorder' = [recorder EXCEPT ![b].at = "done"]
  /\ UNCHANGED <<service, ring, queue, target, hand, encoders, over, lost, fault>>

Stopped(b) ==
  service.now > b \/ (service.now = b /\ service.at \in {"ending", "stopped"})

\* The sample is posted, then stopThread is looked at.
PostSample(b) ==
  /\ recorder[b].at = "posting"
  /\ queue' = Append(queue, Audio(b, recorder[b].posted + 1))
  /\ recorder' = [recorder EXCEPT
       ![b].posted = @ + 1, ![b].late = @ \/ Stopped(b),
       ![b].at = IF recorder[b].stop THEN "done" ELSE "looping"]
  /\ UNCHANGED <<service, ring, target, hand, encoders, over, lost, fault>>

-----------------------------------------------------------------------------
(* The audio handler thread                                                *)

Runnable == {"running", "writing", "writingEnd", "ending", "released"}

\* AudioHandler.handleMessage() decides which encoder the message is for.  The
\* end goes only to a thread whose state is RUNNABLE: one not started is NEW, one
\* that waits for the lock of the streamer's message queue is BLOCKED.
Null(b) == encoders[b].at \in {"new", "failed"}
Heard(m) ==
  /\ target \in Broadcasts
  /\ IF m.what = "end" THEN encoders[target].at \in Runnable ELSE ~Null(target)
Unheard(m) ==
  target \in Broadcasts =>
    IF m.what = "end" THEN encoders[target].at \notin Runnable \ {"writing", "writingEnd"} ELSE Null(target)

Take ==
  /\ queue # <<>> /\ hand = Idle
  /\ queue' = Tail(queue)
  /\ LET m == Head(queue) IN
     \/ Heard(m) /\ hand' = [msg |-> m, to |-> target] /\ UNCHANGED lost
     \/ /\ Unheard(m)
        /\ lost' = IF m.what = "end" THEN lost \cup {m.from} ELSE lost
        /\ UNCHANGED hand
  /\ UNCHANGED <<service, recorder, ring, target, encoders, over, fault>>

\* dequeueInputBuffer() throws in a codec that is not configured, or that was
\* stopped and released; or its field became null since it was looked at.
MisuseCodec ==
  /\ hand # Idle /\ encoders[hand.to].at \in {"created", "failed", "released", "done"}
  /\ fault' = "codec"
  /\ UNCHANGED <<service, recorder, ring, queue, target, hand, encoders, over, lost>>

Usable(b) == encoders[b].at \in {"ready", "running", "writing", "writingEnd", "ending"}

\* Mutant: the handler does not wait for an input buffer.
Free_Always(b) == TRUE

Free(b) == Len(encoders[b].input) < InputBuffers

\* encodeAudio(): what the array holds now is copied into the codec.  After an
\* end of the stream the codec may still have a buffer, and ignores it.
EncodeAudio ==
  /\ hand # Idle /\ hand.msg.what = "audio" /\ Usable(hand.to) /\ Free(hand.to)
  /\ encoders' = IF encoders[hand.to].ended THEN encoders
                ELSE [encoders EXCEPT ![hand.to].input = Append(@, hand.msg)]
  /\ hand' = Idle
  /\ UNCHANGED <<service, recorder, ring, queue, target, over, lost, fault>>

\* Three times there was no input buffer: the sample is dropped.
DropAudio ==
  /\ hand # Idle /\ hand.msg.what = "audio" /\ Usable(hand.to)
  /\ ~Free(hand.to) \/ encoders[hand.to].ended
  /\ hand' = Idle
  /\ UNCHANGED <<service, recorder, ring, queue, target, encoders, over, lost, fault>>

\* Mutant: the samples behind the end stay in the queue.
RemoveAudio_Not(q) == {q}

\* removeMessages(RECORD_AUDIO): the rest stays, in its order (one sequence).
RemoveAudio(q) ==
  LET rest == {k \in DOMAIN q : q[k].what = "end"}
  IN {[i \in DOMAIN f |-> q[f[i]]] :
        f \in {f \in [1..Cardinality(rest) -> rest] : \A i, j \in DOMAIN f : i < j => f[i] < f[j]}}

\* stopEncoding() and removeMessages(), with an input buffer or without one in
\* three tries: then the codec is never told.
StopEncoding ==
  /\ hand # Idle /\ hand.msg.what = "end" /\ Usable(hand.to)
  /\ LET b == hand.msg.from
         e == hand.to IN
     \/ /\ Free(e)
        /\ encoders' = IF encoders[e].ended THEN encoders
                      ELSE [encoders EXCEPT ![e].input = Append(@, hand.msg), ![e].ended = TRUE]
        /\ over' = [over EXCEPT ![e] = @ \cup {r \in Broadcasts : recorder[r].at = "done"}]
        /\ lost' = IF e = b THEN lost ELSE lost \cup {b}
     \/ /\ ~Free(e) \/ encoders[e].ended
        /\ UNCHANGED <<encoders, over>>
        /\ lost' = IF e = b /\ encoders[e].ended THEN lost ELSE lost \cup {b}
  /\ queue' \in RemoveAudio(queue)
  /\ hand' = Idle
  /\ UNCHANGED <<service, recorder, ring, target, fault>>

\* The field is read again between the look at the thread's state and the call
\* of stopEncoding(): another broadcast may have assigned it.
ReadAgain ==
  /\ hand # Idle /\ hand.msg.what = "end" /\ target # hand.to
  /\ \/ /\ target = 0 /\ fault' = "codec" /\ UNCHANGED <<queue, hand, lost>>
     \/ /\ target # 0 /\ ~Null(target)
        /\ hand' = [hand EXCEPT !.to = target] /\ UNCHANGED <<queue, lost, fault>>
     \/ /\ target # 0 /\ Null(target)
        /\ hand' = Idle /\ queue' \in RemoveAudio(queue)
        /\ lost' = lost \cup {hand.msg.from} /\ UNCHANGED fault
  /\ UNCHANGED <<service, recorder, ring, target, encoders, over>>

-----------------------------------------------------------------------------
(* AudioEncoder.run of broadcast b                                         *)

\* Mutant: the loop goes on after the end of the stream, as a comment in it says.
DequeueOutput_NoBreak(b) ==
  /\ encoders[b].at = "running" /\ encoders[b].input # <<>>
  /\ encoders' = [encoders EXCEPT ![b].input = Tail(@), ![b].at = "writing"]
  /\ UNCHANGED <<service, recorder, ring, queue, target, hand, over, lost, fault>>

\* Mutant: the loop ends with the first output.
DequeueOutput_Once(b) ==
  /\ encoders[b].at = "running" /\ encoders[b].input # <<>>
  /\ encoders' = [encoders EXCEPT ![b].input = Tail(@), ![b].at = "ending"]
  /\ UNCHANGED <<service, recorder, ring, queue, target, hand, over, lost, fault>>

\* The codec puts out an encoded sample, or an empty one that ends the stream.
DequeueOutput(b) ==
  /\ encoders[b].at = "running" /\ encoders[b].input # <<>>
  /\ encoders' = [encoders EXCEPT
       ![b].input = Tail(@),
       ![b].at = IF Head(encoders[b].input).what = "end" THEN "writingEnd" ELSE "writing"]
  /\ UNCHANGED <<service, recorder, ring, queue, target, hand, over, lost, fault>>

\* writeAudio() has posted the frame to the streamer; the last one ends the loop.
Written(b) ==
  /\ encoders[b].at \in {"writing", "writingEnd"}
  /\ encoders' = [encoders EXCEPT ![b].at = IF @ = "writing" THEN "running" ELSE "ending"]
  /\ UNCHANGED <<service, recorder, ring, queue, target, hand, over, lost, fault>>

\* release() stops and releases the codec; the field keeps it.
Release(b) ==
  /\ encoders[b].at = "ending"
  /\ encoders' = [encoders EXCEPT ![b].at = "released"]
  /\ UNCHANGED <<service, recorder, ring, queue, target, hand, over, lost, fault>>

Exit(b) ==
  /\ encoders[b].at = "released"
  /\ encoders' = [encoders EXCEPT ![b].at = "done"]
  /\ UNCHANGED <<service, recorder, ring, queue, target, hand, over, lost, fault>>

-----------------------------------------------------------------------------
Recorder(b) ==
  StartRecording(b) \/ NextRead(b) \/ ReadReturns(b) \/ ReadEnds(b)
    \/ PostSample(b)
Handler == Take \/ MisuseCodec \/ EncodeAudio \/ DropAudio \/ StopEncoding \/ ReadAgain
Encoder(b) == DequeueOutput(b) \/ Written(b) \/ Release(b) \/ Exit(b)
Caller == Start \/ CodecGoesOn \/ StartThread \/ CodecFails \/ Stop \/ SendEnd

CaptureNext ==
  /\ fault = "none"
  /\ \/ Caller \/ Handler
     \/ \E b \in Broadcasts : Recorder(b) \/ Encoder(b)

\* Threads run; a caller that is in stopBroadcasting() goes on to its end.
\* Nothing makes the user start or stop a broadcast.
Fairness ==
  /\ WF_captureVars(fault = "none" /\ Handler)
  /\ WF_captureVars(fault = "none" /\ SendEnd)
  /\ \A b \in Broadcasts : /\ WF_captureVars(fault = "none" /\ Recorder(b))
                           /\ WF_captureVars(fault = "none" /\ Encoder(b))

CaptureSpec == CaptureInit /\ [][CaptureNext]_captureVars /\ Fairness
-----------------------------------------------------------------------------
(* Properties                                                              *)

\* removeMessages(RECORD_AUDIO) after the end: a recorder whose thread is over
\* when the handler tells a codec the end never has a sample given to that
\* codec afterwards, however far the handler lagged behind it.  (A recorder
\* still in its last read(), or one that was not recording yet when it was
\* stopped, can: the code does not wait for the thread.)  A codec that is not
\* started yet, or released already, is used, which ends the process, only by the
\* four races the code leaves open: a sample posted after the stop, a second call
\* of stopBroadcasting(), an end that reached no codec of its own, and a start
\* before the messages of the broadcast before were handled.
EndIsLast ==
  /\ hand # Idle /\ hand.msg.what = "audio" => hand.msg.from \notin over[hand.to]
  /\ fault = "codec" =>
       \/ \E b \in Broadcasts : recorder[b].late \/ b \in lost
       \/ service.again \/ service.early

\* The ring of arrays: a sample under way to the codec is still what was
\* recorded as long as the handler is fewer than Slots - 1 samples behind the
\* recorder (one array is always being read into).
UnderWay == ToSet(queue) \cup (IF hand = Idle THEN {} ELSE {hand.msg})
SampleIntact ==
  \A m \in UnderWay :
    m.what = "audio" /\ recorder[m.from].posted - m.n < Slots - 1
      => ring[m.from][Slot(m.n)] = m.n

\* A stop ends a running encoder thread and frees its codec, unless its END_OF_STREAM
\* found the thread not RUNNABLE, no free input buffer or another encoder; the
\* stop of a recorder that had posted a sample ends its thread and frees the
\* microphone, wherever the thread was in its loop.
StopFrees ==
  \A b \in Broadcasts :
    /\ (Stopped(b) /\ encoders[b].at \in Runnable)
         ~> (encoders[b].at = "done" \/ b \in lost \/ fault # "none")
    /\ (Stopped(b) /\ recorder[b].posted > 0 /\ ~recorder[b].late)
         ~> (recorder[b].at = "done" \/ fault # "none")
=============================================================================
