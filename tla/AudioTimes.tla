----------------------------- MODULE AudioTimes -----------------------------
(***************************************************************************)
(* Where the times of audio frames come from. AudioHandler multiplies the  *)
(* milliseconds of a sample by 1000 in 32 bits, so that the microseconds   *)
(* the codec is given are negative half of the time once 36 minutes have   *)
(* passed; AudioEncoder.run() repairs what the codec gives back, counting  *)
(* the rounds of the 32 bits. The times so repaired are the keys of        *)
(* getBuffer() and go to the streamer: module FrameBuffers, whose encoder  *)
(* thread takes its times from here.                                       *)
(***************************************************************************)
EXTENDS FrameBuffers

CONSTANTS
  Half,   \* 2^31: an int is in -Half .. Half - 1
  Scale   \* 1000: microseconds in a millisecond

ASSUME ClockAssumption == Half \in Nat \ {0} /\ Scale \in Nat \ {0}

VARIABLES
  sampled,    \* the millisecond the last sample was taken, -1 before the first
  roundTimes, \* the field
  previous    \* previousPresentationTimeUs

clockVars == <<sampled, roundTimes, previous>>
timedVars == <<vars, clockVars>>

Round == 2 * Half

TimedInit == Init /\ sampled = -1 /\ roundTimes = 0 /\ previous = 0

\* (int) x, and getUnsignedInt() of it.
ToInt(x) == ((x + Half) % Round) - Half
GetUnsignedInt(x) == IF x < 0 THEN x + Round ELSE x

\* msg.arg2 * 1000: what the codec is given for a sample, and gives back.
PresentationTimeUs(ms) == ToInt(ms * Scale)

\* Mutant: the rounds are counted where the sign comes, and not where it goes.
Rounds_AtSign(us) == IF previous > 0 /\ us < 0 THEN roundTimes + 1 ELSE roundTimes

\* A round is over when the sign has gone again.
Rounds(us) == IF previous < 0 /\ us > 0 THEN roundTimes + 1 ELSE roundTimes

\* presentationTime, in milliseconds.
PresentationTime(us) == (Rounds(us) * Round + GetUnsignedInt(us)) \div Scale

\* Samples come often enough to see each sign (one in 35 minutes), and none
\* at the very start of a round (which is a millisecond in six days).
SampleTime(ms) ==
  /\ ms > sampled /\ ms * Scale - (IF sampled < 0 THEN 0 ELSE sampled * Scale) < Half
  /\ ms > 0 => (ms * Scale) % Round # 0

\* One output of the codec, of a sample taken at ms.
Output(s, ms) ==
  LET us == PresentationTimeUs(ms)
      pts == PresentationTime(us) IN
  /\ SampleTime(ms)
  /\ Recycle(s, pts) \/ Allocate(s, pts)
  /\ sampled' = ms /\ roundTimes' = Rounds(us) /\ previous' = us

Others ==
  \/ AskStreamer \/ EndOfStream
  \/ Arrive \/ BeginWrite \/ EndWrite \/ Discard
  \/ \E t \in 0..MaxTime : SendOther(t)

TimedNext ==
  \/ \E s \in Sizes \cup {ConfigSize}, ms \in 0..MaxTime : Output(s, ms)
  \/ Others /\ UNCHANGED clockVars

TimedSpec == TimedInit /\ [][TimedNext]_timedVars

-----------------------------------------------------------------------------
\* The time a frame goes out with is the time its sample was taken, however
\* often the 32 bits went round.
TimesRecovered == lastPts = sampled
=============================================================================
