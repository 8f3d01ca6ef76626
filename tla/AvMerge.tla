------------------------------- MODULE AvMerge -------------------------------
(***************************************************************************)
(* What a muxer promises for one broadcast (network/IMediaMuxer.java and   *)
(* the comments of RTMPStreamer.java): two streams of frames, each in its  *)
(* own time order, leave merged on one connection whose timestamps         *)
(* strictly increase; a frame is sent with its own time or one millisecond *)
(* later; while the connection lasts, the only frame given up is a third   *)
(* one for the same millisecond.                                           *)
(***************************************************************************)
EXTENDS Integers, Sequences

CONSTANT Times          \* presentation times of the frames

VARIABLES
    pending,    \* per stream, the times of the frames that wait
    wire,       \* the frames written on the connection
    connected

vars == <<pending, wire, connected>>
Streams == {"audio", "video"}
Last == wire[Len(wire)]

Init ==
    /\ pending = [k \in Streams |-> <<>>]
    /\ wire = <<>>
    /\ connected = FALSE

Connect ==
    /\ ~connected
    /\ connected' = TRUE
    /\ wire' = <<>>
    /\ UNCHANGED pending

Disconnect ==
    /\ connected
    /\ connected' = FALSE
    /\ UNCHANGED <<pending, wire>>

(* A frame that is accepted on a connection is not late: neither in its    *)
(* own stream nor for what was already sent.                               *)
Accept(k) == \E t \in Times :
    /\ pending[k] # <<>> /\ connected => t >= pending[k][Len(pending[k])]
    /\ wire # <<>> /\ connected => t >= Last.pts
    /\ pending' = [pending EXCEPT ![k] = Append(@, t)]
    /\ UNCHANGED <<wire, connected>>

Take(k) ==
    /\ pending[k] # <<>>
    /\ pending' = [pending EXCEPT ![k] = Tail(@)]

Send(k) ==
    /\ connected
    /\ Take(k)
    /\ \E d \in {0, 1} : LET t == Head(pending[k]) IN
          /\ wire # <<>> => Last.ts < t + d
          /\ d = 1 => wire # <<>> /\ Last.ts = t
          /\ wire' = Append(wire, [kind |-> k, pts |-> t, ts |-> t + d])
    /\ UNCHANGED connected

(* A write that fails takes the connection down and the frame with it.     *)
Lose(k) ==
    /\ connected
    /\ Take(k)
    /\ connected' = FALSE
    /\ UNCHANGED wire

Discard(k) ==
    /\ Take(k)
    /\ \/ ~connected
       \/ wire # <<>> /\ Last.pts = Head(pending[k]) /\ Last.ts = Last.pts + 1
    /\ UNCHANGED <<wire, connected>>

Next ==
    \/ Connect \/ Disconnect
    \/ \E k \in Streams : Accept(k) \/ Send(k) \/ Lose(k) \/ Discard(k)

Spec == Init /\ [][Next]_vars
=============================================================================
