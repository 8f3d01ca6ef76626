------------------------ MODULE PeerConnectionProofs ------------------------
(***************************************************************************)
(* A WebRTC call, for any number of candidates, failures and moves of the  *)
(* user.                                                                   *)
(***************************************************************************)
EXTENDS PeerConnection, TLAPS

-----------------------------------------------------------------------------
(* What is said of a queue: of the runnables of the UI thread and the tasks *)
(* of the executor.                                                         *)

\* Some of q is do; at most one is; each a comes before each b.
Has(q, do) == \E k \in DOMAIN q : q[k].do = do
One(q, do) == \A j, k \in DOMAIN q : q[j].do = do /\ q[k].do = do => j = k
Before(q, a, b) == \A j, k \in DOMAIN q : q[j].do = a /\ q[k].do = b => j < k

\* No a is the last of the a and b in q.
Followed(q, a, b) ==
  \A k \in DOMAIN q : q[k].do = a => \E j \in DOMAIN q : k < j /\ q[j].do = b

\* The candidates in q are a + 1, a + 2, ..., b, in this order.
Run(q, a, b) ==
  /\ \A k \in DOMAIN q : q[k].do = "candidate" => q[k].of \in (a + 1)..b
  /\ \A j, k \in DOMAIN q :
       j < k /\ q[j].do = "candidate" /\ q[k].do = "candidate" => q[j].of < q[k].of
  /\ \A n \in (a + 1)..b : \E k \in DOMAIN q : q[k].do = "candidate" /\ q[k].of = n

\* Of the operations the library was asked for.
Asked(s, operation) == \E k \in DOMAIN s : s[k] = operation
AskedOne(s, operation) == \A j, k \in DOMAIN s : s[j] = operation /\ s[k] = operation => j = k

-----------------------------------------------------------------------------
(* Any number of calls.                                                     *)

TaskType == [do : Tasks, of : Nat]
EventType == [call : Calls, do : Events, of : 0..MaxCandidates]

\* Only a candidate needs its number, and only create the call that it is for.
ExecTyped(q) ==
  /\ q \in Seq(TaskType)
  /\ \A k \in DOMAIN q : /\ q[k].do = "candidate" => q[k].of \in 1..MaxCandidates
                         /\ q[k].do = "create" => q[k].of \in Calls
UiTyped(q) ==
  /\ q \in Seq(EventType)
  /\ \A k \in DOMAIN q : /\ q[k].do = "candidate" => q[k].of \in 1..MaxCandidates
                         /\ q[k].do = "connected" => q[k].of \in 0..MaxKept

ActType ==
  [phase : {"none", "shown", "hidden", "gone"}, finishing : BOOLEAN,
   client : BOOLEAN, room : BOOLEAN, running : BOOLEAN, isError : BOOLEAN,
   dialog : BOOLEAN, role : Roles \cup {"none"}, early : BOOLEAN]
ClientType ==
  [events : Calls \cup {None}, factory : BOOLEAN, pc : Calls \cup {None},
   isError : BOOLEAN, localSdp : BOOLEAN, isInitiator : BOOLEAN, queueing : BOOLEAN,
   queued : Seq(1..MaxCandidates), video : BOOLEAN, capturer : Calls \cup {None},
   source : BOOLEAN, stopped : BOOLEAN]
ConnType ==
  [state : {"none", "open", "disposed"}, local : BOOLEAN, remote : BOOLEAN,
   operations : Seq(Operations), added : Seq(1..MaxCandidates)]
RoomType ==
  [connected : BOOLEAN, role : Roles \cup {"none"}, described : BOOLEAN,
   candidates : 0..MaxCandidates, removed : BOOLEAN]

Types ==
  /\ act \in [Calls -> ActType] /\ client \in ClientType /\ conn \in [Calls -> ConnType]
  /\ capturing \in SUBSET Calls /\ room \in [Calls -> RoomType]
  /\ wire \in [Calls -> Seq({"sdp", "candidate"})]
  /\ faults \in SUBSET {"capturer", "events"}
  /\ dead \in BOOLEAN /\ moves \in 0..MaxEvents /\ failures \in 0..MaxFailures
  /\ ExecTyped(exec) /\ UiTyped(ui)

Of(q, c) == \E k \in DOMAIN q : q[k].call = c
ErrorOf(q, c) == \E k \in DOMAIN q : q[k].do = "error" /\ q[k].call = c

\* An error of the executor's client is the activity's already, or is on the way to it.
Errors ==
  \A c \in Calls :
    /\ act[c].phase = "none" =>
         ~act[c].isError /\ ~act[c].room /\ client.events # c /\ ~Of(ui, c)
    /\ client.isError /\ client.events = c => act[c].isError \/ ErrorOf(ui, c)
    /\ act[c].isError => act[c].dialog \/ ~act[c].client

-----------------------------------------------------------------------------
(* One call.                                                                *)

Unborn(c) == act[c].phase = "none"

\* Nothing of the call is left, and nothing will come.
Shut ==
  /\ client.pc = None /\ client.capturer = None /\ client.events = None /\ ~client.factory
  /\ ~Has(exec, "factory")

Started == {"create", "offer", "answer", "setRemote", "candidate", "remove"}
Said == {"description", "candidate", "remove"}
Connecting(c) == ~room[c].connected \/ Has(ui, "connected")

\* What the room says comes after its first word.
RoomFirst(c) ==
  /\ One(ui, "connected") /\ (Has(ui, "connected") => room[c].connected)
  /\ \A do \in Said : /\ Has(ui, do) => room[c].connected
                      /\ Before(ui, "connected", do)

\* The client's connection, factory and capturer are this call's.
Owned(c) ==
  /\ conn[c].state = "open" <=> client.pc = c
  /\ conn[c].state # "open" => conn[c].operations = <<>>
  /\ capturing \subseteq {client.capturer}
  /\ client.factory => client.events = c
  /\ client.pc = c => client.factory

\* Each is made once, before close, which finds it if it was to be made.
Making(c) ==
  /\ One(exec, "factory") /\ Before(exec, "factory", "close")
  /\ Has(exec, "factory") => ~client.factory /\ client.events = c
  /\ One(exec, "create") /\ Before(exec, "create", "close")
  /\ Has(exec, "create") => conn[c].state = "none" /\ client.video

\* The activity has its client until it asks the executor to close it.
Ending(c) ==
  /\ act[c].client => /\ client.events = c /\ ~Has(exec, "close")
                      /\ act[c].phase \in {"shown", "hidden"}
  /\ ~Unborn(c) /\ ~act[c].client => Has(exec, "close") \/ Shut

\* Before onCreate there is nothing; until the room's first word, no connection.
Life(c) ==
  /\ Unborn(c) =>
       /\ exec = <<>> /\ ui = <<>> /\ ~act[c].room /\ ~act[c].client /\ ~room[c].connected
       /\ client.pc = None /\ client.capturer = None
       /\ ~client.factory /\ client.events = None
  /\ Owned(c) /\ Making(c) /\ Ending(c) /\ RoomFirst(c)
  /\ Connecting(c) =>
       /\ client.capturer = None /\ conn[c].state = "none" /\ ~client.stopped
       /\ ~Unborn(c) => client.video
       /\ \A do \in Started : ~Has(exec, do)

Filming(c) == client.pc = c /\ client.capturer = c

\* The last of the asked starts and stops is what the screen wants, and the capturer does
\* what the executor was last told, unless a stop went ahead of the capturer (early).
Screen(c) ==
  /\ act[c].client => /\ act[c].phase = "shown" => Followed(exec, "stop", "start")
                      /\ act[c].phase = "hidden" => Followed(exec, "start", "stop")
  /\ Filming(c) => /\ client.source
                   /\ ~client.stopped => c \in capturing
                   /\ client.stopped /\ c \in capturing => act[c].early
  /\ act[c].client /\ Filming(c) =>
       /\ act[c].phase = "shown" /\ c \notin capturing => Has(exec, "start")
       /\ act[c].phase = "hidden" /\ c \in capturing => Has(exec, "stop") \/ act[c].early
  /\ Has(exec, "create") /\ ~act[c].early =>
       /\ ~client.stopped /\ Before(exec, "create", "stop")
       /\ act[c].client /\ act[c].phase = "hidden" => Has(exec, "stop")

-----------------------------------------------------------------------------
(* The descriptions.                                                        *)

Initiator(c) == room[c].role = "initiator"
Offered(c) == Has(ui, "connected") /\ room[c].role = "offered"

\* The one who starts the call has made its offer when it hears the answer; the other
\* has heard the offer when it makes its answer.
Sides(c) ==
  /\ IF Connecting(c) THEN room[c].connected \/ room[c].role = "none"
                      ELSE act[c].role = room[c].role
  /\ Has(exec, "offer") \/ Asked(conn[c].operations, "createOffer") => Initiator(c)
  /\ Has(exec, "answer") \/ Asked(conn[c].operations, "createAnswer") => ~Initiator(c)
  /\ client.isInitiator => Initiator(c)
  /\ Initiator(c) /\ ~client.isInitiator => conn[c].operations = <<>> /\ ~client.localSdp
  /\ conn[c].state = "none" => /\ conn[c].operations = <<>> /\ conn[c].added = <<>>
                               /\ ~conn[c].local /\ ~conn[c].remote /\ ~client.localSdp

\* The local description is set once: asked of the executor, then of the library, then set.
LocalOnce(c) ==
  /\ Has(exec, "setLocal") \/ Asked(conn[c].operations, "setLocal") \/ conn[c].local => client.localSdp
  /\ One(exec, "setLocal") /\ AskedOne(conn[c].operations, "setLocal")
  /\ Has(exec, "setLocal") => ~Asked(conn[c].operations, "setLocal") /\ ~conn[c].local
  /\ Asked(conn[c].operations, "setLocal") => ~conn[c].local

\* So is the other's, which comes with the room's first word or after it.
RemoteOnce(c) ==
  /\ Offered(c) \/ Has(ui, "description") \/ Has(exec, "setRemote")
       \/ Asked(conn[c].operations, "setRemote") \/ conn[c].remote => room[c].described
  /\ One(ui, "description") /\ One(exec, "setRemote")
  /\ AskedOne(conn[c].operations, "setRemote")
  /\ Offered(c) => ~Has(ui, "description") /\ ~Has(exec, "setRemote")
                      /\ ~Asked(conn[c].operations, "setRemote") /\ ~conn[c].remote
  /\ Has(ui, "description") => ~Has(exec, "setRemote")
                      /\ ~Asked(conn[c].operations, "setRemote") /\ ~conn[c].remote
  /\ Has(exec, "setRemote") => ~Asked(conn[c].operations, "setRemote") /\ ~conn[c].remote
  /\ Asked(conn[c].operations, "setRemote") => ~conn[c].remote
  /\ room[c].described => room[c].connected
  /\ room[c].described /\ Initiator(c) => wire[c] # <<>>

\* Nothing is sent before the local description is set, and onSetSuccess of one description
\* cannot be mistaken for that of the other: which is set first follows from the role.
Turns(c) ==
  /\ ~conn[c].local => /\ ~Has(exec, "ice") /\ ~Has(ui, "sdp") /\ ~Has(ui, "ice")
                       /\ wire[c] = <<>>
  /\ Initiator(c) => /\ conn[c].remote => conn[c].local
                     /\ ~conn[c].local => ~Has(exec, "setDone")
  /\ ~Initiator(c) => /\ client.localSdp => conn[c].remote
                      /\ ~conn[c].remote => ~Has(exec, "setDone")
                      /\ Before(exec, "setDone", "setLocal")
                      /\ Asked(conn[c].operations, "setLocal") => ~Has(exec, "setDone")

\* onSetSuccess is still to tell of the local description.
ToTell(c) == conn[c].local /\ (Initiator(c) => ~conn[c].remote) /\ Has(exec, "setDone")

\* From the set description to the wire: onSetSuccess, then the UI thread, then the room,
\* with the candidates behind it in each.
Sending(c) ==
  /\ ToTell(c) => /\ wire[c] = <<>> /\ ~Has(ui, "sdp") /\ ~Has(ui, "ice")
                  /\ One(exec, "setDone") /\ Before(exec, "setDone", "ice")
  /\ Has(ui, "sdp") => wire[c] = <<>>
  /\ One(ui, "sdp") /\ Before(ui, "sdp", "ice")
  /\ \A i \in DOMAIN wire[c] : wire[c][i] = "sdp" => i = 1
  /\ InUse(c) /\ act[c].room /\ conn[c].local /\ wire[c] = <<>> => Has(ui, "sdp") \/ ToTell(c)
  /\ InUse(c) /\ wire[c] # <<>> => wire[c][1] = "sdp"

-----------------------------------------------------------------------------
(* The candidates.                                                          *)

Described(c) == conn[c].local /\ conn[c].remote
Got(c) == conn[c].added \o client.queued

\* The executor has the next candidates, and the UI thread those after them.
Flow(c, got) ==
  \E e \in got..room[c].candidates :
    Run(exec, got, e) /\ (act[c].client => Run(ui, e, room[c].candidates))

\* The room's first word brings the candidates it kept; the others, up to m, come after it.
Joins(q, m) ==
  \A k \in DOMAIN q : q[k].do = "connected" => q[k].of <= m /\ Run(q, q[k].of, m)

\* What the connection was given and what the client queues for it are 1, 2, ..., with the
\* rest behind them in the executor's queue, the UI thread's and the room.
Ordered(c) ==
  /\ InUse(c) => (\A i \in DOMAIN Got(c) : Got(c)[i] = i) /\ Flow(c, Len(Got(c)))
  /\ Has(exec, "create") => Before(exec, "create", "candidate") /\ Flow(c, 0)
  /\ Joins(ui, room[c].candidates)

\* While both descriptions are set and candidates are still queued, an onSetSuccess that
\* drains them is in the executor's queue.
Drained(c) ==
  /\ InUse(c) /\ client.queueing /\ Described(c) => Has(exec, "setDone")
  /\ client.pc = c /\ ~client.queueing => client.queued = <<>> /\ (Described(c) \/ room[c].removed)
  /\ Has(ui, "remove") \/ Has(exec, "remove") => room[c].removed
  /\ conn[c].added # <<>> => Described(c) \/ room[c].removed

Kept(c) == Ordered(c) /\ Drained(c)
-----------------------------------------------------------------------------
(* Queues.                                                                  *)

LEMMA TailParts ==
  ASSUME NEW S, NEW q \in Seq(S), q # <<>>
  PROVE  /\ Tail(q) \in Seq(S) /\ Head(q) \in S /\ Head(q) = q[1] /\ 1 \in DOMAIN q
         /\ Len(q) \in Nat /\ Len(q) > 0 /\ Len(Tail(q)) = Len(q) - 1
         /\ DOMAIN q = 1..Len(q) /\ DOMAIN Tail(q) = 1..(Len(q) - 1)
         /\ \A i \in DOMAIN Tail(q) : Tail(q)[i] = q[i + 1] /\ i + 1 \in DOMAIN q
         /\ \A i \in DOMAIN q : i = 1 \/ (i - 1 \in DOMAIN Tail(q) /\ Tail(q)[i - 1] = q[i])
OBVIOUS

LEMMA ConcatParts ==
  ASSUME NEW S, NEW q \in Seq(S), NEW s \in Seq(S)
  PROVE  /\ q \o s \in Seq(S) /\ Len(q) \in Nat /\ Len(s) \in Nat
         /\ DOMAIN q = 1..Len(q) /\ DOMAIN s = 1..Len(s)
         /\ DOMAIN (q \o s) = 1..(Len(q) + Len(s))
         /\ \A i \in DOMAIN q : (q \o s)[i] = q[i] /\ i \in DOMAIN (q \o s)
         /\ \A i \in DOMAIN s : /\ (q \o s)[Len(q) + i] = s[i] /\ Len(q) + i \in DOMAIN (q \o s)
                                /\ \A j \in DOMAIN q : j < Len(q) + i
         /\ \A i \in DOMAIN (q \o s) :
              i \in DOMAIN q \/ (i - Len(q) \in DOMAIN s /\ (q \o s)[i] = s[i - Len(q)])
OBVIOUS

\* What a task taken from the head of a queue leaves.
LEMMA QueueTail ==
  ASSUME NEW S, NEW q \in Seq(S), q # <<>>
  PROVE  /\ Tail(q) \in Seq(S) /\ Head(q) \in S
         /\ \A do : Has(q, do) <=> (Has(Tail(q), do) \/ Head(q).do = do)
         /\ \A do : One(q, do) => One(Tail(q), do) /\ (Head(q).do = do => ~Has(Tail(q), do))
         /\ \A a, b : Before(q, a, b) =>
              Before(Tail(q), a, b) /\ (Head(q).do = b => ~Has(q, a) /\ ~Has(Tail(q), a))
         /\ \A a, b : Followed(q, a, b) =>
              Followed(Tail(q), a, b) /\ (Head(q).do = a => Has(Tail(q), b))
<1>1. /\ Tail(q) \in Seq(S) /\ Head(q) \in S /\ Head(q) = q[1] /\ 1 \in DOMAIN q
      /\ DOMAIN q = 1..Len(q) /\ DOMAIN Tail(q) = 1..(Len(q) - 1) /\ Len(q) \in Nat
      /\ \A i \in DOMAIN Tail(q) : Tail(q)[i] = q[i + 1] /\ i + 1 \in DOMAIN q
      /\ \A i \in DOMAIN q : i = 1 \/ (i - 1 \in DOMAIN Tail(q) /\ Tail(q)[i - 1] = q[i])
  BY TailParts
<1>2. \A do : Has(q, do) <=> (Has(Tail(q), do) \/ Head(q).do = do)
  BY ZenonT(60), <1>1 DEF Has
<1>3. \A do : One(q, do) => One(Tail(q), do) /\ (Head(q).do = do => ~Has(Tail(q), do))
  BY <1>1 DEF Has, One
<1>4. ASSUME NEW a, NEW b, Before(q, a, b)
      PROVE  Before(Tail(q), a, b) /\ (Head(q).do = b => ~Has(q, a) /\ ~Has(Tail(q), a))
  BY <1>1, <1>4 DEF Has, Before
<1>5. ASSUME NEW a, NEW b, Followed(q, a, b)
      PROVE  Followed(Tail(q), a, b) /\ (Head(q).do = a => Has(Tail(q), b))
  <2>1. ASSUME NEW k \in DOMAIN Tail(q), Tail(q)[k].do = a
        PROVE  \E j \in DOMAIN Tail(q) : k < j /\ Tail(q)[j].do = b
    <3>1. PICK j \in DOMAIN q : k + 1 < j /\ q[j].do = b
      BY <1>1, <1>5, <2>1 DEF Followed
    <3>2. j \in 1..Len(q) /\ k \in 1..(Len(q) - 1) /\ Len(q) \in Nat
      BY <1>1, <2>1
    <3>3. j \in Nat /\ k \in Nat /\ k > 0 /\ j # 1 /\ k < j - 1
      BY <3>1, <3>2
    <3>4. j - 1 \in DOMAIN Tail(q) /\ Tail(q)[j - 1] = q[j]
      BY <1>1, <3>3
    <3> QED BY <3>1, <3>3, <3>4
  <2>2. ASSUME Head(q).do = a PROVE Has(Tail(q), b)
    <3>1. PICK j \in DOMAIN q : 1 < j /\ q[j].do = b
      BY <1>1, <1>5, <2>2 DEF Followed
    <3>2. j # 1
      BY <3>1
    <3>3. j - 1 \in DOMAIN Tail(q) /\ Tail(q)[j - 1] = q[j]
      BY <1>1, <3>2
    <3> QED BY <3>1, <3>3 DEF Has
  <2> QED BY <2>1, <2>2 DEF Followed
<1> QED BY <1>1, <1>2, <1>3, <1>4, <1>5

\* What tasks put at the end of a queue add.
LEMMA QueueConcat ==
  ASSUME NEW S, NEW q \in Seq(S), NEW s \in Seq(S)
  PROVE  /\ q \o s \in Seq(S)
         /\ \A do : Has(q \o s, do) <=> (Has(q, do) \/ Has(s, do))
         /\ \A do : One(q, do) /\ One(s, do) /\ (Has(s, do) => ~Has(q, do)) => One(q \o s, do)
         /\ \A a, b : Before(q, a, b) /\ Before(s, a, b) /\ (Has(s, a) => ~Has(q, b)) =>
              Before(q \o s, a, b)
         /\ \A a, b : Followed(q, a, b) /\ ~Has(s, a) => Followed(q \o s, a, b)
         /\ \A a, b : Has(s, b) /\ ~Has(s, a) => Followed(q \o s, a, b)
<1>1. /\ q \o s \in Seq(S) /\ Len(q) \in Nat /\ Len(s) \in Nat
      /\ DOMAIN q = 1..Len(q) /\ DOMAIN s = 1..Len(s)
      /\ DOMAIN (q \o s) = 1..(Len(q) + Len(s))
      /\ \A i \in DOMAIN q : (q \o s)[i] = q[i] /\ i \in DOMAIN (q \o s)
      /\ \A i \in DOMAIN s : /\ (q \o s)[Len(q) + i] = s[i] /\ Len(q) + i \in DOMAIN (q \o s)
                             /\ \A j \in DOMAIN q : j < Len(q) + i
      /\ \A i \in DOMAIN (q \o s) :
           i \in DOMAIN q \/ (i - Len(q) \in DOMAIN s /\ (q \o s)[i] = s[i - Len(q)])
  BY ConcatParts
<1> DEFINE r == q \o s
<1>2. /\ \A i \in DOMAIN q : r[i] = q[i] /\ i \in DOMAIN r
      /\ \A i \in DOMAIN s : /\ r[Len(q) + i] = s[i] /\ Len(q) + i \in DOMAIN r
                             /\ \A j \in DOMAIN q : j < Len(q) + i
      /\ \A i \in DOMAIN r : i \in DOMAIN q \/ (i - Len(q) \in DOMAIN s /\ r[i] = s[i - Len(q)])
      /\ DOMAIN q \subseteq Nat /\ DOMAIN s \subseteq Nat /\ DOMAIN r \subseteq Nat
  BY <1>1
<1> HIDE DEF r
<1>3. \A do : Has(r, do) <=> (Has(q, do) \/ Has(s, do))
  BY <1>2 DEF Has
<1>4. ASSUME NEW do, One(q, do), One(s, do), Has(s, do) => ~Has(q, do)
      PROVE  One(r, do)
  <2>1. SUFFICES ASSUME NEW j \in DOMAIN r, NEW k \in DOMAIN r, r[j].do = do, r[k].do = do
                 PROVE  j = k
    BY DEF One
  <2>2. CASE j \in DOMAIN q
    <3>1. Has(q, do)
      BY <1>2, <2>1, <2>2 DEF Has
    <3>2. k \in DOMAIN q
      BY <1>2, <2>1, <3>1, <1>4 DEF Has
    <3> QED BY <1>2, <1>4, <2>1, <2>2, <3>2 DEF One
  <2>3. CASE j \notin DOMAIN q
    <3>1. j - Len(q) \in DOMAIN s /\ s[j - Len(q)].do = do
      BY <1>2, <2>1, <2>3
    <3>2. ~Has(q, do)
      BY <3>1, <1>4 DEF Has
    <3>3. k \notin DOMAIN q
      BY <1>2, <2>1, <3>2 DEF Has
    <3>4. k - Len(q) \in DOMAIN s /\ s[k - Len(q)].do = do
      BY <1>2, <2>1, <3>3
    <3>5. j - Len(q) = k - Len(q)
      BY <3>1, <3>4, <1>4 DEF One
    <3> QED BY <3>5, <1>1, <1>2, <2>1
  <2> QED BY <2>2, <2>3
<1>5. ASSUME NEW a, NEW b, Before(q, a, b), Before(s, a, b), Has(s, a) => ~Has(q, b)
      PROVE  Before(r, a, b)
  <2>1. SUFFICES ASSUME NEW j \in DOMAIN r, NEW k \in DOMAIN r, r[j].do = a, r[k].do = b
                 PROVE  j < k
    BY DEF Before
  <2>2. CASE j \in DOMAIN q /\ k \in DOMAIN q
    BY <1>2, <1>5, <2>1, <2>2 DEF Before
  <2>3. CASE j \in DOMAIN q /\ k \notin DOMAIN q
    <3>1. k - Len(q) \in DOMAIN s /\ Len(q) + (k - Len(q)) = k
      BY <1>1, <1>2, <2>3
    <3> QED BY <1>2, <2>3, <3>1
  <2>4. CASE j \notin DOMAIN q
    <3>1. j - Len(q) \in DOMAIN s /\ s[j - Len(q)].do = a
      BY <1>2, <2>1, <2>4
    <3>2. k \notin DOMAIN q
      BY <1>2, <1>5, <2>1, <3>1 DEF Has
    <3>3. k - Len(q) \in DOMAIN s /\ s[k - Len(q)].do = b
      BY <1>2, <2>1, <3>2
    <3>4. j - Len(q) < k - Len(q)
      BY <3>1, <3>3, <1>5 DEF Before
    <3> QED BY <3>4, <1>1, <1>2, <2>1
  <2> QED BY <2>2, <2>3, <2>4
<1>6. ASSUME NEW a, NEW b, Followed(q, a, b), ~Has(s, a)
      PROVE  Followed(r, a, b)
  <2>1. ASSUME NEW k \in DOMAIN r, r[k].do = a PROVE k \in DOMAIN q
    BY <1>2, <1>6, <2>1 DEF Has
  <2> QED BY <1>2, <1>6, <2>1 DEF Followed
<1>7. ASSUME NEW a, NEW b, Has(s, b), ~Has(s, a)
      PROVE  Followed(r, a, b)
  <2>1. ASSUME NEW k \in DOMAIN r, r[k].do = a PROVE k \in DOMAIN q
    BY <1>2, <1>7, <2>1 DEF Has
  <2>2. PICK j \in DOMAIN s : s[j].do = b
    BY <1>7 DEF Has
  <2> QED BY <1>2, <2>1, <2>2 DEF Followed
<1>8. r \in Seq(S)
  BY <1>1 DEF r
<1> QED BY <1>3, <1>4, <1>5, <1>6, <1>7, <1>8 DEF r

\* A queue of one task, and of none.
LEMMA QueueOne ==
  ASSUME NEW S, NEW t \in S
  PROVE  /\ <<t>> \in Seq(S)
         /\ \A do : Has(<<t>>, do) <=> t.do = do
         /\ \A do : One(<<t>>, do)
         /\ \A a, b : a # b => Before(<<t>>, a, b)
<1> DEFINE q == <<t>>
<1>1. q \in Seq(S) /\ DOMAIN q = {1} /\ q[1] = t
  OBVIOUS
<1> HIDE DEF q
<1>2. \A do : Has(q, do) <=> t.do = do
  BY <1>1 DEF Has
<1>3. \A do : One(q, do)
  BY <1>1 DEF One
<1>4. \A a, b : a # b => Before(q, a, b)
  BY <1>1 DEF Before
<1> QED BY <1>1, <1>2, <1>3, <1>4 DEF q

LEMMA QueueNone ==
  /\ \A do : ~Has(<<>>, do) /\ One(<<>>, do)
  /\ \A a, b : Before(<<>>, a, b) /\ Followed(<<>>, a, b)
<1> DEFINE q == <<>>
<1>1. DOMAIN q = {}
  OBVIOUS
<1> HIDE DEF q
<1>2. \A do : ~Has(q, do) /\ One(q, do)
  BY <1>1 DEF Has, One
<1>3. \A a, b : Before(q, a, b) /\ Followed(q, a, b)
  BY <1>1 DEF Before, Followed
<1> QED BY <1>2, <1>3 DEF q

\* Operations asked for and answered.
LEMMA AskedTail ==
  ASSUME NEW S, NEW s \in Seq(S), s # <<>>
  PROVE  /\ Tail(s) \in Seq(S) /\ Head(s) \in S
         /\ \A o : Asked(s, o) <=> (Asked(Tail(s), o) \/ Head(s) = o)
         /\ \A o : AskedOne(s, o) => AskedOne(Tail(s), o) /\ (Head(s) = o => ~Asked(Tail(s), o))
<1>1. /\ Tail(s) \in Seq(S) /\ Head(s) \in S /\ Head(s) = s[1] /\ 1 \in DOMAIN s
      /\ DOMAIN s = 1..Len(s) /\ DOMAIN Tail(s) = 1..(Len(s) - 1) /\ Len(s) \in Nat
      /\ \A i \in DOMAIN Tail(s) : Tail(s)[i] = s[i + 1] /\ i + 1 \in DOMAIN s
      /\ \A i \in DOMAIN s : i = 1 \/ (i - 1 \in DOMAIN Tail(s) /\ Tail(s)[i - 1] = s[i])
  BY TailParts
<1>2. \A o : Asked(s, o) <=> (Asked(Tail(s), o) \/ Head(s) = o)
  BY ZenonT(60), <1>1 DEF Asked
<1>3. \A o : AskedOne(s, o) => AskedOne(Tail(s), o) /\ (Head(s) = o => ~Asked(Tail(s), o))
  BY <1>1 DEF Asked, AskedOne
<1> QED BY <1>1, <1>2, <1>3

LEMMA AskedAppend ==
  ASSUME NEW S, NEW s \in Seq(S), NEW p \in S
  PROVE  /\ Append(s, p) \in Seq(S) /\ Append(s, p) # <<>>
         /\ \A o : Asked(Append(s, p), o) <=> (Asked(s, o) \/ o = p)
         /\ \A o : AskedOne(s, o) /\ (o = p => ~Asked(s, o)) => AskedOne(Append(s, p), o)
<1>1. /\ Append(s, p) \in Seq(S) /\ Append(s, p) # <<>>
      /\ Len(s) \in Nat /\ DOMAIN s = 1..Len(s) /\ DOMAIN Append(s, p) = 1..(Len(s) + 1)
      /\ Append(s, p)[Len(s) + 1] = p
      /\ \A i \in DOMAIN s : Append(s, p)[i] = s[i] /\ i \in DOMAIN Append(s, p)
      /\ \A i \in DOMAIN Append(s, p) : i \in DOMAIN s \/ i = Len(s) + 1
      /\ Len(s) + 1 \in DOMAIN Append(s, p)
  OBVIOUS
<1>2. \A o : Asked(Append(s, p), o) <=> (Asked(s, o) \/ o = p)
  BY <1>1 DEF Asked
<1>3. \A o : AskedOne(s, o) /\ (o = p => ~Asked(s, o)) => AskedOne(Append(s, p), o)
  BY <1>1 DEF Asked, AskedOne
<1> QED BY <1>1, <1>2, <1>3

LEMMA AskedNone ==
  \A o : ~Asked(<<>>, o) /\ AskedOne(<<>>, o)
<1> DEFINE q == <<>>
<1>1. DOMAIN q = {}
  OBVIOUS
<1> HIDE DEF q
<1>2. \A o : ~Asked(q, o) /\ AskedOne(q, o)
  BY <1>1 DEF Asked, AskedOne
<1> QED BY <1>2 DEF q
-----------------------------------------------------------------------------
(* Types.                                                                   *)

LEMMA Assumptions ==
  /\ Calls \subseteq Nat \ {0} /\ None \notin Calls /\ None = 0
  /\ MaxCandidates \in Nat /\ MaxKept \in Nat /\ MaxEvents \in Nat /\ MaxFailures \in Nat
  /\ MaxKept <= MaxCandidates /\ LimitsBitrate \in BOOLEAN
BY PeerAssumption DEF None

LEMMA ExecConcat ==
  ASSUME NEW q, ExecTyped(q), NEW s, ExecTyped(s)
  PROVE  ExecTyped(q \o s)
<1>1. q \in Seq(TaskType) /\ s \in Seq(TaskType)
  BY DEF ExecTyped
<1>2. /\ q \o s \in Seq(TaskType)
      /\ \A i \in DOMAIN q : (q \o s)[i] = q[i]
      /\ \A i \in DOMAIN (q \o s) :
           i \in DOMAIN q \/ (i - Len(q) \in DOMAIN s /\ (q \o s)[i] = s[i - Len(q)])
  BY <1>1, ConcatParts
<1> DEFINE r == q \o s
<1> HIDE DEF r
<1>3. ASSUME NEW k \in DOMAIN r
      PROVE  /\ r[k].do = "candidate" => r[k].of \in 1..MaxCandidates
             /\ r[k].do = "create" => r[k].of \in Calls
  <2>1. CASE k \in DOMAIN q
    BY <1>2, <2>1 DEF ExecTyped, r
  <2>2. CASE k \notin DOMAIN q
    <3>1. k - Len(q) \in DOMAIN s /\ r[k] = s[k - Len(q)]
      BY <1>2, <1>3, <2>2 DEF r
    <3> QED BY <3>1 DEF ExecTyped
  <2> QED BY <2>1, <2>2
<1> QED BY <1>2, <1>3 DEF ExecTyped, r

LEMMA ExecTail ==
  ASSUME NEW q, ExecTyped(q), q # <<>>
  PROVE  /\ ExecTyped(Tail(q)) /\ Head(q) \in TaskType
         /\ Head(q).do = "candidate" => Head(q).of \in 1..MaxCandidates
         /\ Head(q).do = "create" => Head(q).of \in Calls
<1>1. q \in Seq(TaskType)
  BY DEF ExecTyped
<1>2. /\ Tail(q) \in Seq(TaskType) /\ Head(q) \in TaskType /\ Head(q) = q[1] /\ 1 \in DOMAIN q
      /\ \A i \in DOMAIN Tail(q) : Tail(q)[i] = q[i + 1] /\ i + 1 \in DOMAIN q
  BY <1>1, TailParts
<1> QED BY <1>2 DEF ExecTyped

LEMMA ExecNone == ExecTyped(<<>>)
BY DEF ExecTyped

LEMMA ExecOne ==
  ASSUME NEW do \in Tasks, NEW of \in Nat, do = "candidate" => of \in 1..MaxCandidates,
         do = "create" => of \in Calls
  PROVE  ExecTyped(<<Task(do, of)>>) /\ Task(do, of).do = do /\ Task(do, of).of = of
                /\ Task(do, of) \in TaskType
<1>1. Task(do, of) \in TaskType /\ Task(do, of).do = do /\ Task(do, of).of = of
  BY DEF Task, TaskType
<1> DEFINE t == Task(do, of)
<1> HIDE DEF t
<1>2. <<t>> \in Seq(TaskType) /\ DOMAIN <<t>> = {1} /\ <<t>>[1] = t
  BY <1>1 DEF t
<1>3. ExecTyped(<<t>>)
  BY <1>1, <1>2 DEF ExecTyped, t
<1> QED BY <1>1, <1>3 DEF t

LEMMA ExecTwo ==
  ASSUME NEW t \in TaskType, NEW u \in TaskType, ExecTyped(<<t>>), ExecTyped(<<u>>)
  PROVE  ExecTyped(<<t, u>>) /\ <<t, u>> = <<t>> \o <<u>>
<1>1. <<t, u>> = Append(<<t>>, u)
  OBVIOUS
<1>2. <<t>> \in Seq(TaskType)
  OBVIOUS
<1> DEFINE q == <<t>>
<1> HIDE DEF q
<1>3. Append(q, u) = q \o <<u>>
  BY <1>2 DEF q
<1>4. <<t, u>> = <<t>> \o <<u>>
  BY Zenon, <1>1, <1>3 DEF q
<1> QED BY <1>4, ExecConcat

LEMMA UiAppend ==
  ASSUME NEW q, UiTyped(q), NEW c \in Calls, NEW do \in Events, NEW of \in 0..MaxCandidates,
         do = "candidate" => of \in 1..MaxCandidates, do = "connected" => of \in 0..MaxKept
  PROVE  /\ UiTyped(Append(q, Event(c, do, of))) /\ Event(c, do, of) \in EventType
         /\ Event(c, do, of).do = do /\ Event(c, do, of).of = of /\ Event(c, do, of).call = c
         /\ Append(q, Event(c, do, of)) = q \o <<Event(c, do, of)>>
<1>1. Event(c, do, of) \in EventType /\ Event(c, do, of).do = do /\ Event(c, do, of).of = of
        /\ Event(c, do, of).call = c
  BY DEF Event, EventType
<1> DEFINE e == Event(c, do, of)
<1> HIDE DEF e
<1>2. q \in Seq(EventType) /\ e \in EventType /\ e.do = do /\ e.of = of /\ e.call = c
  BY <1>1 DEF UiTyped, e
<1>3. /\ Append(q, e) \in Seq(EventType) /\ Append(q, e) = q \o <<e>>
      /\ \A k \in DOMAIN Append(q, e) : Append(q, e)[k] = e \/ (k \in DOMAIN q /\ Append(q, e)[k] = q[k])
  BY <1>2
<1>4. UiTyped(Append(q, e))
  BY <1>2, <1>3 DEF UiTyped
<1> QED BY <1>2, <1>3, <1>4 DEF e

LEMMA UiTail ==
  ASSUME NEW q, UiTyped(q), q # <<>>
  PROVE  /\ UiTyped(Tail(q)) /\ Head(q) \in EventType /\ Head(q).call \in Calls
         /\ Head(q).do \in Events /\ Head(q).of \in 0..MaxCandidates
         /\ Head(q).do = "candidate" => Head(q).of \in 1..MaxCandidates
         /\ Head(q).do = "connected" => Head(q).of \in 0..MaxKept
<1>1. q \in Seq(EventType)
  BY DEF UiTyped
<1>2. /\ Tail(q) \in Seq(EventType) /\ Head(q) \in EventType /\ Head(q) = q[1] /\ 1 \in DOMAIN q
      /\ \A i \in DOMAIN Tail(q) : Tail(q)[i] = q[i + 1] /\ i + 1 \in DOMAIN q
  BY <1>1, TailParts
<1>3. Head(q).call \in Calls /\ Head(q).do \in Events /\ Head(q).of \in 0..MaxCandidates
  BY <1>2 DEF EventType
<1> QED BY <1>2, <1>3 DEF UiTyped

LEMMA TypesGive == ASSUME Types PROVE TypeOK
BY DEF Types, TypeOK, ActType, ClientType, ConnType, RoomType, ExecTyped, UiTyped, TaskType, EventType

LEMMA InitTypes == ASSUME Init PROVE Types
<1>1. ExecTyped(<<>>) /\ UiTyped(<<>>)
  BY DEF ExecTyped, UiTyped
<1>2. act \in [Calls -> ActType] /\ client \in ClientType
  BY DEF Init, ActType, ClientType
<1>3. conn \in [Calls -> ConnType] /\ room \in [Calls -> RoomType]
  BY Assumptions DEF Init, ConnType, RoomType
<1>4. wire \in [Calls -> Seq({"sdp", "candidate"})] /\ capturing \in SUBSET Calls
  BY DEF Init
<1>5. moves \in 0..MaxEvents /\ failures \in 0..MaxFailures
  BY Assumptions DEF Init
<1>6. dead \in BOOLEAN /\ faults \in SUBSET {"capturer", "events"}
  BY DEF Init
<1>7. ExecTyped(exec) /\ UiTyped(ui)
  BY <1>1 DEF Init
<1> QED BY <1>2, <1>3, <1>4, <1>5, <1>6, <1>7 DEF Types

\* The closing task of disconnect, if there is one.
LEMMA ClosingTyped ==
  ASSUME NEW c \in Calls
  PROVE  /\ ExecTyped(Closing(c)) /\ ExecTyped(<<Task("close", c)>>) /\ ExecTyped(<<Task("stop", c)>>)
         /\ ExecTyped(<<Task("stop", c)>> \o Closing(c)) /\ \A a : ExecTyped(ClosedBy(c, a))
<1>1. c \in Nat
  BY Assumptions
<1>2. ExecTyped(<<Task("close", c)>>) /\ ExecTyped(<<Task("stop", c)>>)
  BY <1>1, ExecOne DEF Tasks
<1>3. ExecTyped(Closing(c)) /\ \A a : ExecTyped(ClosedBy(c, a))
  BY <1>2, ExecNone DEF Closing, ClosedBy
<1>4. ExecTyped(<<Task("stop", c)>> \o Closing(c))
  BY <1>2, <1>3, ExecConcat
<1> QED BY <1>2, <1>3, <1>4

\* What becomes of an activity.
LEMMA ActChanges ==
  ASSUME NEW a \in ActType
  PROVE  /\ Disconnected(a) \in ActType /\ Reported(a) \in ActType
         /\ [a EXCEPT !.finishing = TRUE] \in ActType
         /\ [Disconnected(a) EXCEPT !.dialog = FALSE] \in ActType
         /\ [Disconnected(a) EXCEPT !.phase = "gone"] \in ActType
         /\ \A role \in Roles \cup {"none"} : [a EXCEPT !.role = role] \in ActType
         /\ \A early \in BOOLEAN : [a EXCEPT !.early = early] \in ActType
<1>1. Disconnected(a) \in ActType
  BY DEF Disconnected, ActType
<1>2. Reported(a) \in ActType
  <2>1. \A b \in ActType : [b EXCEPT !.isError = TRUE] \in ActType
    BY DEF ActType
  <2>2. [a EXCEPT !.isError = TRUE, !.dialog = TRUE] \in ActType
    BY DEF ActType
  <2> QED BY <1>1, <2>1, <2>2 DEF Reported
<1>3. [Disconnected(a) EXCEPT !.dialog = FALSE] \in ActType
  BY <1>1 DEF ActType
<1>4. [Disconnected(a) EXCEPT !.phase = "gone"] \in ActType
  BY <1>1 DEF ActType
<1>5. [a EXCEPT !.finishing = TRUE] \in ActType
  BY DEF ActType
<1>6. /\ \A role \in Roles \cup {"none"} : [a EXCEPT !.role = role] \in ActType
      /\ \A early \in BOOLEAN : [a EXCEPT !.early = early] \in ActType
  BY DEF ActType
<1> QED BY <1>1, <1>2, <1>3, <1>4, <1>5, <1>6

LEMMA ActSet ==
  ASSUME act \in [Calls -> ActType], NEW c \in Calls, NEW a \in ActType
  PROVE  [act EXCEPT ![c] = a] \in [Calls -> ActType]
OBVIOUS

LEMMA UserTypes ==
  ASSUME Types, NEW c \in Calls, User(c)
  PROVE  Types'
<1>0. /\ c \in Nat /\ ExecTyped(exec) /\ UiTyped(ui) /\ act \in [Calls -> ActType]
      /\ act[c] \in ActType /\ client \in ClientType /\ moves \in 0..MaxEvents
  BY Assumptions DEF Types
<1>1. CASE CreateActivity(c)
  <2>1. /\ ExecTyped(<<Task("factory", c)>>) /\ ExecTyped(<<Task("start", c)>>)
        /\ Task("factory", c) \in TaskType /\ Task("start", c) \in TaskType
    BY <1>0, ExecOne DEF Tasks
  <2>2. ExecTyped(<<Task("factory", c), Task("start", c)>>)
    BY <2>1, ExecTwo
  <2>3. ExecTyped(exec')
    BY <1>0, <1>1, <2>2, ExecConcat DEF CreateActivity, Execute
  <2>4. act' \in [Calls -> ActType]
    BY <1>0, <1>1 DEF CreateActivity, ActType
  <2>5. client' \in ClientType
    <3>1. <<>> \in Seq(1..MaxCandidates)
      OBVIOUS
    <3>2. client' = [client EXCEPT !.events = c, !.factory = FALSE, !.pc = None, !.isError = FALSE,
            !.localSdp = FALSE, !.queueing = FALSE, !.queued = <<>>, !.video = TRUE,
            !.capturer = None, !.stopped = FALSE]
      BY <1>1 DEF CreateActivity
    <3> QED BY <1>0, <3>1, <3>2 DEF ClientType
  <2> QED BY <1>1, <2>3, <2>4, <2>5 DEF CreateActivity, Types, boundVars
<1>2. CASE HangUp(c)
  <2>1. ExecTyped(exec')
    BY <1>0, <1>2, ClosingTyped, ExecConcat DEF HangUp, Execute
  <2>2. moves' \in 0..MaxEvents
    BY <1>0, <1>2, Assumptions DEF HangUp, Move, Types
  <2>3. act' \in [Calls -> ActType]
    BY <1>0, <1>2, ActChanges, ActSet DEF HangUp
  <2> QED BY <1>2, <2>1, <2>2, <2>3 DEF HangUp, Types, callVars
<1>3. CASE Back(c)
  <2>1. moves' \in 0..MaxEvents
    BY <1>0, <1>3, Assumptions DEF Back, Move, Types
  <2>2. act' = [act EXCEPT ![c] = [act[c] EXCEPT !.finishing = TRUE]]
    BY <1>0, <1>3 DEF Back
  <2>3. act' \in [Calls -> ActType]
    BY <1>0, <2>2, ActChanges, ActSet
  <2> QED BY <1>3, <2>1, <2>3 DEF Back, Types, callVars, queueVars
<1>4. CASE DialogOk(c)
  <2>1. ExecTyped(exec')
    BY <1>0, <1>4, ClosingTyped, ExecConcat DEF DialogOk, Execute
  <2>2. act' \in [Calls -> ActType]
    BY <1>0, <1>4, ActChanges, ActSet DEF DialogOk
  <2> QED BY <1>4, <2>1, <2>2 DEF DialogOk, Types, callVars, boundVars
<1>5. CASE Stop(c)
  <2>1. ExecTyped(exec')
    BY <1>0, <1>5, ClosingTyped, ExecNone, ExecConcat DEF Stop, Execute
  <2>2. moves' \in 0..MaxEvents
    BY <1>0, <1>5, Assumptions DEF Stop, Move, Types
  <2>3. act' \in [Calls -> ActType]
    BY <1>0, <1>5 DEF Stop, ActType
  <2> QED BY <1>5, <2>1, <2>2, <2>3 DEF Stop, Types, callVars
<1>6. CASE Start(c)
  <2>1. ExecTyped(<<Task("start", c)>>)
    BY <1>0, ExecOne DEF Tasks
  <2>2. ExecTyped(exec')
    BY <1>0, <1>6, <2>1, ExecNone, ExecConcat DEF Start, Execute
  <2>3. act' \in [Calls -> ActType]
    BY <1>0, <1>6 DEF Start, ActType
  <2> QED BY <1>6, <2>2, <2>3 DEF Start, Types, callVars, boundVars
<1>7. CASE Destroy(c)
  <2>1. ExecTyped(exec')
    BY <1>0, <1>7, ClosingTyped, ExecNone, ExecConcat DEF Destroy, Execute
  <2>2. act' \in [Calls -> ActType]
    BY <1>0, <1>7, ActChanges, ActSet DEF Destroy
  <2> QED BY <1>7, <2>1, <2>2 DEF Destroy, Types, callVars, boundVars
<1> QED BY <1>1, <1>2, <1>3, <1>4, <1>5, <1>6, <1>7 DEF User

\* What onConnectedToRoom makes the executor do.
First(c) ==
  IF room[c].role = "initiator" THEN <<Task("offer", c)>>
  ELSE IF room[c].role = "offered" THEN <<Task("setRemote", c), Task("answer", c)>> ELSE <<>>
Kept0(n) == [i \in 1..n |-> Task("candidate", i)]
Asks(c, n) == <<Task("create", c)>> \o First(c) \o Kept0(n)

LEMMA KeptTyped ==
  ASSUME NEW n \in 0..MaxKept
  PROVE  ExecTyped(Kept0(n)) /\ DOMAIN Kept0(n) = 1..n /\ n \in Nat
           /\ \A i \in 1..n : Kept0(n)[i] = Task("candidate", i) /\ Task("candidate", i).do = "candidate"
                                /\ Task("candidate", i).of = i
<1>0. n \in Nat /\ \A i \in 1..n : i \in 1..MaxCandidates /\ i \in Nat
  BY Assumptions
<1>1. ASSUME NEW i \in 1..n
      PROVE  Task("candidate", i) \in TaskType /\ Task("candidate", i).do = "candidate"
               /\ Task("candidate", i).of = i
  <2>1. i \in 1..MaxCandidates /\ i \in Nat /\ "candidate" \in Tasks
    BY <1>0 DEF Tasks
  <2> QED BY <2>1, ExecOne
<1>2. Kept0(n) \in Seq(TaskType) /\ DOMAIN Kept0(n) = 1..n
  BY <1>0, <1>1 DEF Kept0
<1>3. \A i \in 1..n : Kept0(n)[i] = Task("candidate", i)
  BY DEF Kept0
<1> QED BY <1>0, <1>1, <1>2, <1>3 DEF ExecTyped

LEMMA FirstTyped ==
  ASSUME NEW c \in Calls
  PROVE  /\ ExecTyped(First(c)) /\ ExecTyped(<<Task("create", c)>>)
         /\ ExecTyped(<<Task("setRemote", c)>>)
         /\ ExecTyped(<<Task("setRemote", c), Task("answer", c)>>)
<1>0. c \in Nat
  BY Assumptions
<1>1. ExecTyped(<<Task("offer", c)>>) /\ ExecTyped(<<Task("create", c)>>)
        /\ ExecTyped(<<Task("setRemote", c)>>) /\ Task("setRemote", c) \in TaskType
  BY <1>0, ExecOne DEF Tasks
<1>2. ExecTyped(<<Task("answer", c)>>) /\ Task("answer", c) \in TaskType
  BY <1>0, ExecOne DEF Tasks
<1>3. ExecTyped(<<Task("setRemote", c), Task("answer", c)>>)
  BY <1>1, <1>2, ExecTwo
<1> QED BY <1>1, <1>3, ExecNone DEF First

LEMMA AsksTyped ==
  ASSUME NEW c \in Calls, NEW n \in 0..MaxKept
  PROVE  ExecTyped(Asks(c, n))
<1>1. ExecTyped(<<Task("create", c)>> \o First(c))
  BY FirstTyped, ExecConcat
<1> QED BY <1>1, KeptTyped, ExecConcat DEF Asks

LEMMA ConnectedCases ==
  ASSUME Types, OnConnected
  PROVE  LET c == Head(ui).call
             n == Head(ui).of
         IN /\ ui # <<>> /\ Head(ui).do = "connected" /\ ui' = Tail(ui)
            /\ c \in Calls /\ n \in 0..MaxKept
            /\ UNCHANGED <<conn, capturing, room, wire, faults, moves>>
            /\ failures' \in 0..MaxFailures
            /\ \E camera \in BOOLEAN, a \in ActType :
                 /\ a = [IF camera THEN act[c] ELSE Reported(act[c]) EXCEPT !.role = room[c].role]
                 /\ \/ /\ a.client
                       /\ act' = [act EXCEPT ![c] = [a EXCEPT !.early =
                            a.phase # "shown" \/ \E i \in 1..Len(exec) : exec[i].do = "stop"]]
                       /\ client' = [client EXCEPT !.capturer = IF camera THEN c ELSE None]
                       /\ exec' = exec \o Asks(c, n) /\ dead' = dead
                    \/ /\ ~a.client
                       /\ act' = [act EXCEPT ![c] = a]
                       /\ exec' = exec \o ClosedBy(c, a) /\ client' = client /\ dead' = TRUE
<1> DEFINE c == Head(ui).call
           n == Head(ui).of
<1>1. ui # <<>> /\ Head(ui).do = "connected" /\ ui' = Tail(ui)
  BY DEF OnConnected, Handling
<1>2. c \in Calls /\ n \in 0..MaxKept
  BY <1>1, UiTail DEF Types
<1>3. PICK camera \in BOOLEAN :
        LET a == [IF camera THEN act[c] ELSE Reported(act[c]) EXCEPT !.role = room[c].role]
        IN /\ IF camera THEN UNCHANGED failures ELSE Failure
           /\ IF a.client
              THEN /\ act' = [act EXCEPT ![c] = [a EXCEPT !.early =
                        a.phase # "shown" \/ \E i \in 1..Len(exec) : exec[i].do = "stop"]]
                   /\ client' = [client EXCEPT !.capturer = IF camera THEN c ELSE None]
                   /\ exec' = exec \o Asks(c, n)
                   /\ UNCHANGED dead
              ELSE /\ act' = [act EXCEPT ![c] = a]
                   /\ dead' = TRUE
                   /\ exec' = exec \o ClosedBy(c, a)
                   /\ UNCHANGED client
  BY DEF OnConnected, Execute, Asks, First, Kept0
<1> DEFINE a == [IF camera THEN act[c] ELSE Reported(act[c]) EXCEPT !.role = room[c].role]
<1>4. act[c] \in ActType /\ Reported(act[c]) \in ActType /\ room[c].role \in Roles \cup {"none"}
  BY <1>2, ActChanges DEF Types, RoomType
<1>5. a \in ActType
  BY <1>4, ActChanges
<1>6. failures' \in 0..MaxFailures
  <2>1. Failure \/ UNCHANGED failures
    BY <1>3
  <2>2. failures \in 0..MaxFailures /\ MaxFailures \in Nat
    BY Assumptions DEF Types
  <2> QED BY <2>1, <2>2 DEF Failure
<1>7. UNCHANGED <<conn, capturing, room, wire, faults, moves>>
  BY DEF OnConnected
<1> HIDE DEF a
<1>8. \/ /\ a.client
         /\ act' = [act EXCEPT ![c] = [a EXCEPT !.early =
              a.phase # "shown" \/ \E i \in 1..Len(exec) : exec[i].do = "stop"]]
         /\ client' = [client EXCEPT !.capturer = IF camera THEN c ELSE None]
         /\ exec' = exec \o Asks(c, n) /\ dead' = dead
      \/ /\ ~a.client
         /\ act' = [act EXCEPT ![c] = a]
         /\ exec' = exec \o ClosedBy(c, a) /\ client' = client /\ dead' = TRUE
  BY <1>3 DEF a
<1>9. a = [IF camera THEN act[c] ELSE Reported(act[c]) EXCEPT !.role = room[c].role]
  BY DEF a
<1> QED BY <1>1, <1>2, <1>5, <1>6, <1>7, <1>8, <1>9

LEMMA UiTypes == ASSUME Types, UiTask PROVE Types'
<1>0. /\ ExecTyped(exec) /\ UiTyped(ui) /\ act \in [Calls -> ActType]
      /\ client \in ClientType /\ wire \in [Calls -> Seq({"sdp", "candidate"})]
  BY DEF Types
<1> DEFINE c == Head(ui).call
           n == Head(ui).of
<1>1. CASE OnConnected
  <2>1. /\ ui # <<>> /\ ui' = Tail(ui) /\ c \in Calls /\ n \in 0..MaxKept
        /\ UNCHANGED <<conn, capturing, room, wire, faults, moves>> /\ failures' \in 0..MaxFailures
    BY <1>1, ConnectedCases
  <2>2. PICK camera \in BOOLEAN, a \in ActType :
                 \/ /\ act' = [act EXCEPT ![c] = [a EXCEPT !.early =
                            a.phase # "shown" \/ \E i \in 1..Len(exec) : exec[i].do = "stop"]]
                    /\ client' = [client EXCEPT !.capturer = IF camera THEN c ELSE None]
                    /\ exec' = exec \o Asks(c, n) /\ dead' = dead
                 \/ /\ act' = [act EXCEPT ![c] = a]
                    /\ exec' = exec \o ClosedBy(c, a) /\ client' = client /\ dead' = TRUE
    BY <1>1, ConnectedCases
  <2> HIDE DEF c, n
  <2>3. ExecTyped(exec')
    <3>1. ExecTyped(Asks(c, n)) /\ ExecTyped(ClosedBy(c, a))
      BY <2>1, AsksTyped, ClosingTyped
    <3>2. ExecTyped(exec \o Asks(c, n)) /\ ExecTyped(exec \o ClosedBy(c, a))
      BY <1>0, <3>1, ExecConcat
    <3> QED BY <2>2, <3>2
  <2>4. UiTyped(ui')
    BY <1>0, <2>1, UiTail
  <2>5. act' \in [Calls -> ActType]
    <3>1. \A early \in BOOLEAN : [act EXCEPT ![c] = [a EXCEPT !.early = early]] \in [Calls -> ActType]
      BY <1>0, <2>1, ActChanges, ActSet
    <3>2. [act EXCEPT ![c] = a] \in [Calls -> ActType]
      BY <1>0, <2>1, ActSet
    <3> QED BY <2>2, <3>1, <3>2
  <2>6. client' \in ClientType
    <3>1. \A d \in Calls \cup {None} : [client EXCEPT !.capturer = d] \in ClientType
      BY <1>0 DEF ClientType
    <3>2. client' = client \/ \E d \in Calls \cup {None} : client' = [client EXCEPT !.capturer = d]
      BY <2>1, <2>2
    <3> QED BY <1>0, <3>1, <3>2
  <2>7. dead' \in BOOLEAN
    BY <2>2 DEF Types
  <2> QED BY <2>1, <2>3, <2>4, <2>5, <2>6, <2>7 DEF Types
<1>2. ASSUME NEW do \in Events, Handling(do)
      PROVE  /\ UiTyped(ui') /\ c \in Calls /\ act[c] \in ActType /\ c \in Nat /\ Head(ui).do = do
             /\ n \in 0..MaxCandidates /\ n \in Nat /\ (do = "candidate" => n \in 1..MaxCandidates)
  <2>1. ui # <<>> /\ ui' = Tail(ui) /\ Head(ui).do = do
    BY <1>2 DEF Handling
  <2>2. UiTyped(ui') /\ c \in Calls /\ n \in 0..MaxCandidates /\ (do = "candidate" => n \in 1..MaxCandidates)
    BY <1>0, <2>1, UiTail
  <2> HIDE DEF c, n
  <2>3. c \in Nat /\ n \in Nat
    BY <2>2, Assumptions
  <2> QED BY <1>0, <2>1, <2>2, <2>3 DEF c, n
<1> HIDE DEF c, n
<1>3. CASE OnDescription
  <2>1. UiTyped(ui') /\ c \in Calls
    BY <1>2, <1>3 DEF OnDescription, Events
  <2>2. ExecTyped(exec')
    BY <1>0, <1>3, <2>1, FirstTyped, ExecNone, ExecConcat DEF OnDescription, Execute, c
  <2> QED BY <1>3, <2>1, <2>2 DEF OnDescription, Types, appVars, callVars, boundVars
<1>4. CASE OnCandidate
  <2>1. PICK do \in {"candidate", "remove"} : Handling(do)
    BY <1>4 DEF OnCandidate
  <2>2. UiTyped(ui') /\ c \in Calls /\ n \in Nat /\ (do = "candidate" => n \in 1..MaxCandidates)
          /\ Head(ui).do = do
    BY <1>2, <2>1 DEF Events
  <2>3. ExecTyped(<<Task(do, n)>>)
    BY <2>2, ExecOne DEF Tasks
  <2>4. ExecTyped(exec')
    BY <1>0, <1>4, <2>2, <2>3, ExecNone, ExecConcat DEF OnCandidate, Execute, c, n
  <2> QED BY <1>4, <2>2, <2>4 DEF OnCandidate, Types, appVars, callVars, boundVars
<1>5. CASE OnHungUp
  <2>1. UiTyped(ui') /\ c \in Calls /\ act[c] \in ActType
    BY <1>2, <1>5 DEF OnHungUp, Events
  <2>2. ExecTyped(exec')
    BY <1>0, <1>5, <2>1, ClosingTyped, ExecConcat DEF OnHungUp, Execute, c
  <2>3. act' \in [Calls -> ActType]
    BY <1>0, <1>5, <2>1, ActChanges, ActSet DEF OnHungUp, c
  <2> QED BY <1>5, <2>1, <2>2, <2>3 DEF OnHungUp, Types, callVars, boundVars
<1>6. CASE OnError
  <2>1. UiTyped(ui') /\ c \in Calls /\ act[c] \in ActType
    BY <1>2, <1>6 DEF OnError, Events
  <2>2. ExecTyped(exec')
    BY <1>0, <1>6, <2>1, ClosingTyped, ExecConcat DEF OnError, Execute, c
  <2>3. act' \in [Calls -> ActType]
    BY <1>0, <1>6, <2>1, ActChanges, ActSet DEF OnError, c
  <2> QED BY <1>6, <2>1, <2>2, <2>3 DEF OnError, Types, callVars, boundVars
<1>7. \A d \in Calls, w \in {"sdp", "candidate"} :
        [wire EXCEPT ![d] = Append(@, w)] \in [Calls -> Seq({"sdp", "candidate"})]
  <2>1. \A d \in Calls, w \in {"sdp", "candidate"} : Append(wire[d], w) \in Seq({"sdp", "candidate"})
    BY <1>0
  <2> QED BY <1>0, <2>1
<1>8. CASE OnLocalDescription
  <2>1. UiTyped(ui') /\ c \in Calls /\ act[c] \in ActType
    BY <1>2, <1>8 DEF OnLocalDescription, Events
  <2>2. wire' \in [Calls -> Seq({"sdp", "candidate"})]
    BY <1>0, <1>7, <1>8, <2>1 DEF OnLocalDescription, c
  <2>3. dead' \in BOOLEAN
    BY <1>8, <2>1, Assumptions DEF OnLocalDescription, ActType, c
  <2> QED BY <1>8, <2>1, <2>2, <2>3 DEF OnLocalDescription, Types, callVars, boundVars
<1>9. CASE OnIceCandidate
  <2>1. UiTyped(ui') /\ c \in Calls
    BY <1>2, <1>9 DEF OnIceCandidate, Events
  <2>2. wire' \in [Calls -> Seq({"sdp", "candidate"})]
    BY <1>0, <1>7, <1>9, <2>1 DEF OnIceCandidate, c
  <2> QED BY <1>9, <2>1, <2>2 DEF OnIceCandidate, Types, callVars, boundVars
<1> QED BY <1>1, <1>3, <1>4, <1>5, <1>6, <1>8, <1>9 DEF UiTask

LEMMA TaskRuns ==
  ASSUME Types, NEW do \in Tasks, Running(do)
  PROVE  /\ exec # <<>> /\ Head(exec).do = do /\ Head(exec) \in TaskType /\ ExecTyped(Tail(exec))
         /\ exec \in Seq(TaskType) /\ Head(exec).of \in Nat
         /\ do = "candidate" => Head(exec).of \in 1..MaxCandidates
         /\ do = "create" => Head(exec).of \in Calls
<1>1. exec # <<>> /\ Head(exec).do = do /\ ExecTyped(exec)
  BY DEF Running, Types
<1>2. Head(exec) \in TaskType
  BY <1>1, ExecTail
<1> QED BY <1>1, <1>2, ExecTail DEF ExecTyped, TaskType

LEMMA UsableCall ==
  ASSUME Types, Usable
  PROVE  client.pc \in Calls /\ conn[client.pc] \in ConnType
<1>1. client.pc \in Calls \cup {None}
  BY DEF Types, ClientType
<1> QED BY <1>1 DEF Usable, Types

\* What the library's connection becomes.
LEMMA ConnChanges ==
  ASSUME NEW r \in ConnType
  PROVE  /\ \A o \in Operations : [r EXCEPT !.operations = Append(@, o)] \in ConnType
         /\ [r EXCEPT !.operations = Tail(@)] \in ConnType \/ r.operations = <<>>
         /\ \A n \in 1..MaxCandidates : [r EXCEPT !.added = Append(@, n)] \in ConnType
         /\ \A s \in Seq(1..MaxCandidates) : [r EXCEPT !.added = @ \o s] \in ConnType
         /\ [r EXCEPT !.state = "open"] \in ConnType
         /\ [r EXCEPT !.state = "disposed", !.operations = <<>>] \in ConnType
         /\ [r EXCEPT !.local = TRUE] \in ConnType /\ [r EXCEPT !.remote = TRUE] \in ConnType
<1>0. r.operations \in Seq(Operations) /\ r.added \in Seq(1..MaxCandidates)
  BY DEF ConnType
<1>1. \A o \in Operations : [r EXCEPT !.operations = Append(@, o)] \in ConnType
  <2>1. ASSUME NEW o \in Operations PROVE Append(r.operations, o) \in Seq(Operations)
    BY <1>0
  <2> QED BY <2>1 DEF ConnType
<1>2. [r EXCEPT !.operations = Tail(@)] \in ConnType \/ r.operations = <<>>
  <2>1. r.operations # <<>> => Tail(r.operations) \in Seq(Operations)
    BY <1>0
  <2> QED BY <2>1 DEF ConnType
<1>3. \A n \in 1..MaxCandidates : [r EXCEPT !.added = Append(@, n)] \in ConnType
  <2>1. ASSUME NEW n \in 1..MaxCandidates PROVE Append(r.added, n) \in Seq(1..MaxCandidates)
    BY <1>0
  <2> QED BY <2>1 DEF ConnType
<1>4. \A s \in Seq(1..MaxCandidates) : [r EXCEPT !.added = @ \o s] \in ConnType
  <2>1. ASSUME NEW s \in Seq(1..MaxCandidates) PROVE r.added \o s \in Seq(1..MaxCandidates)
    BY <1>0
  <2> QED BY <2>1 DEF ConnType
<1>5. [r EXCEPT !.state = "open"] \in ConnType
  BY DEF ConnType
<1>6. [r EXCEPT !.state = "disposed", !.operations = <<>>] \in ConnType
  <2>1. <<>> \in Seq(Operations)
    OBVIOUS
  <2> QED BY <2>1 DEF ConnType
<1>7. [r EXCEPT !.local = TRUE] \in ConnType /\ [r EXCEPT !.remote = TRUE] \in ConnType
  BY DEF ConnType
<1> QED BY <1>1, <1>2, <1>3, <1>4, <1>5, <1>6, <1>7

LEMMA ConnSet ==
  ASSUME conn \in [Calls -> ConnType], NEW c \in Calls, NEW r \in ConnType
  PROVE  [conn EXCEPT ![c] = r] \in [Calls -> ConnType]
OBVIOUS

LEMMA AskTypes ==
  ASSUME Types, Usable, NEW o \in Operations, Ask(o)
  PROVE  conn' \in [Calls -> ConnType]
<1> DEFINE p == client.pc
<1>1. p \in Calls /\ conn[p] \in ConnType /\ conn \in [Calls -> ConnType]
  BY UsableCall DEF Types
<1> HIDE DEF p
<1>2. conn' = [conn EXCEPT ![p] = [conn[p] EXCEPT !.operations = Append(@, o)]]
  BY <1>1 DEF Ask, p
<1> QED BY <1>1, <1>2, ConnChanges, ConnSet

LEMMA DrainTypes ==
  ASSUME Types, Usable, DrainCandidates
  PROVE  conn' \in [Calls -> ConnType] /\ client' \in ClientType
<1> DEFINE p == client.pc
<1>1. p \in Calls /\ conn[p] \in ConnType /\ conn \in [Calls -> ConnType] /\ client \in ClientType
        /\ client.queued \in Seq(1..MaxCandidates)
  BY UsableCall DEF Types, ClientType
<1> HIDE DEF p
<1>2. CASE client.queueing
  <2>1. conn' = [conn EXCEPT ![p] = [conn[p] EXCEPT !.added = @ \o client.queued]]
    BY <1>1, <1>2 DEF DrainCandidates, p
  <2>2. client' = [client EXCEPT !.queueing = FALSE, !.queued = <<>>]
    BY <1>2 DEF DrainCandidates
  <2>3. <<>> \in Seq(1..MaxCandidates)
    OBVIOUS
  <2>4. client' \in ClientType
    BY <1>1, <2>2, <2>3 DEF ClientType
  <2> QED BY <1>1, <2>1, <2>4, ConnChanges, ConnSet
<1>3. CASE ~client.queueing
  BY <1>1, <1>3 DEF DrainCandidates
<1> QED BY <1>2, <1>3

LEMMA TellTypes ==
  ASSUME Types, Heard, NEW do \in {"sdp", "ice", "hungUp", "error"}, Tell(do)
  PROVE  UiTyped(ui') /\ client.events \in Calls /\ faults' = faults
           /\ ui' = ui \o <<Event(client.events, do, None)>>
           /\ Event(client.events, do, None) \in EventType
           /\ Event(client.events, do, None).do = do
           /\ Event(client.events, do, None).call = client.events
<1> DEFINE e == client.events
<1>1. e \in Calls \cup {None} /\ UiTyped(ui)
  BY DEF Types, ClientType
<1>2. e \in Calls
  BY <1>1 DEF Heard
<1> HIDE DEF e
<1>3. do \in Events /\ None \in 0..MaxCandidates /\ do # "candidate" /\ do # "connected"
  BY Assumptions DEF Events
<1>4. ui' = Append(ui, Event(e, do, None)) /\ faults' = faults
  BY DEF Tell, e
<1>5. /\ UiTyped(Append(ui, Event(e, do, None))) /\ Event(e, do, None) \in EventType
      /\ Event(e, do, None).do = do /\ Event(e, do, None).call = e
      /\ Append(ui, Event(e, do, None)) = ui \o <<Event(e, do, None)>>
  BY <1>1, <1>2, <1>3, UiAppend
<1> QED BY <1>2, <1>4, <1>5 DEF e

\* onSetSuccess, case by case.
LEMMA SuccessCases ==
  ASSUME Types, SetSuccess
  PROVE  /\ Running("setDone") /\ exec' = Tail(exec)
         /\ UNCHANGED <<appVars, capturing, room, boundVars>>
         /\ \/ /\ ~Usable \/ (~client.isInitiator /\ ~conn[client.pc].local)
               /\ UNCHANGED <<client, conn, ui, faults>>
            \/ /\ Usable /\ client.isInitiator /\ conn[client.pc].remote
               /\ DrainCandidates /\ UNCHANGED <<ui, faults>>
            \/ /\ Usable
               /\ IF client.isInitiator THEN ~conn[client.pc].remote ELSE conn[client.pc].local
               /\ \/ ~Heard /\ NobodyHears /\ UNCHANGED <<client, conn>>
                  \/ /\ Heard /\ Tell("sdp")
                     /\ \/ client.isInitiator /\ UNCHANGED <<client, conn>>
                        \/ ~client.isInitiator /\ DrainCandidates
<1>1. client.isInitiator \in BOOLEAN
  BY DEF Types, ClientType
<1>2. Usable => conn[client.pc].remote \in BOOLEAN /\ conn[client.pc].local \in BOOLEAN
  BY UsableCall DEF ConnType
<1>3. Running("setDone") /\ exec' = Tail(exec) /\ UNCHANGED <<appVars, capturing, room, boundVars>>
  BY DEF SetSuccess, Done
<1> DEFINE done == IF client.isInitiator THEN ~conn[client.pc].remote ELSE conn[client.pc].local
<1>4. CASE ~Usable \/ ~(done \/ client.isInitiator)
  <2>1. UNCHANGED <<client, conn, ui, faults>>
    BY <1>4 DEF SetSuccess
  <2>2. Usable => ~client.isInitiator /\ ~done
    BY <1>4
  <2>3. ~client.isInitiator /\ ~done => ~conn[client.pc].local
    OBVIOUS
  <2> HIDE DEF done
  <2>4. ~Usable \/ (~client.isInitiator /\ ~conn[client.pc].local)
    BY Zenon, <2>2, <2>3
  <2> QED BY <1>3, <2>1, <2>4
<1>5. CASE Usable /\ (done \/ client.isInitiator) /\ ~done
  BY <1>1, <1>2, <1>3, <1>5 DEF SetSuccess
<1>6. CASE Usable /\ done
  BY <1>1, <1>2, <1>3, <1>6 DEF SetSuccess
<1> QED BY <1>4, <1>5, <1>6

LEMMA ExecTypes == ASSUME Types, ExecutorTask PROVE Types'
<1>0. /\ ExecTyped(exec) /\ UiTyped(ui) /\ act \in [Calls -> ActType] /\ capturing \in SUBSET Calls
      /\ client \in ClientType /\ conn \in [Calls -> ConnType]
      /\ faults \in SUBSET {"capturer", "events"} /\ None \in Nat
      /\ client.pc \in Calls \cup {None} /\ client.capturer \in Calls \cup {None}
      /\ client.queued \in Seq(1..MaxCandidates)
  BY Assumptions DEF Types, ClientType
<1>1. CASE CreateFactory
  <2>1. ExecTyped(exec') /\ client' = [client EXCEPT !.isError = FALSE, !.factory = TRUE]
    BY <1>1, TaskRuns DEF CreateFactory, Done, Tasks
  <2>2. client' \in ClientType
    BY <1>0, <2>1 DEF ClientType
  <2> QED BY <1>1, <2>1, <2>2 DEF CreateFactory, Types, appVars, boundVars
<1>2. CASE CreatePeerConnection
  <2> DEFINE c == Head(exec).of
  <2>1. ExecTyped(Tail(exec)) /\ c \in Calls
    BY <1>2, TaskRuns DEF CreatePeerConnection, Tasks
  <2> HIDE DEF c
  <2> DEFINE video == client.video /\ client.capturer # None
  <2>2. ExecTyped(exec') /\ video \in BOOLEAN
    BY <1>2, <2>1 DEF CreatePeerConnection, Done
  <2>3. CASE ~client.factory \/ client.isError
    <3>1. client' = [client EXCEPT !.video = video]
      BY <1>2, <2>3 DEF CreatePeerConnection
    <3> HIDE DEF video
    <3>2. client' \in ClientType
      BY <1>0, <2>2, <3>1 DEF ClientType
    <3> QED BY <1>2, <2>2, <2>3, <3>2 DEF CreatePeerConnection, Types, appVars, boundVars
  <2>4. CASE ~(~client.factory \/ client.isError)
    <3>1. /\ conn' = [conn EXCEPT ![c] = [conn[c] EXCEPT !.state = "open"]]
          /\ client' = [client EXCEPT !.pc = c, !.queueing = TRUE, !.queued = <<>>,
                             !.isInitiator = FALSE, !.video = video,
                             !.source = video \/ client.source]
      BY <1>0, <1>2, <2>1, <2>4 DEF CreatePeerConnection, c
    <3>2. conn' \in [Calls -> ConnType]
      <4>1. conn[c] \in ConnType
        BY <1>0, <2>1
      <4> QED BY <1>0, <2>1, <3>1, <4>1, ConnChanges, ConnSet
    <3>3. client' \in ClientType
      <4>1. <<>> \in Seq(1..MaxCandidates) /\ (video \/ client.source) \in BOOLEAN
        OBVIOUS
      <4> HIDE DEF video
      <4> QED BY <1>0, <2>1, <2>2, <3>1, <4>1 DEF ClientType
    <3>4. capturing' \in SUBSET Calls
      BY <1>0, <1>2, <2>4 DEF CreatePeerConnection
    <3> QED BY <1>2, <2>2, <3>2, <3>3, <3>4 DEF CreatePeerConnection, Types, appVars, boundVars
  <2> QED BY <2>3, <2>4
<1>3. CASE CreateOffer
  <2>1. ExecTyped(exec')
    BY <1>3, TaskRuns DEF CreateOffer, Done, Tasks
  <2>2. conn' \in [Calls -> ConnType]
    BY <1>0, <1>3, AskTypes DEF CreateOffer, Operations
  <2>3. client' \in ClientType
    <3>1. [client EXCEPT !.isInitiator = TRUE] \in ClientType
      BY <1>0 DEF ClientType
    <3> QED BY <1>0, <1>3, <3>1 DEF CreateOffer
  <2> QED BY <1>3, <2>1, <2>2, <2>3 DEF CreateOffer, Types, appVars, boundVars
<1>4. CASE CreateAnswer
  <2>1. ExecTyped(exec')
    BY <1>4, TaskRuns DEF CreateAnswer, Done, Tasks
  <2>2. conn' \in [Calls -> ConnType]
    BY <1>0, <1>4, AskTypes DEF CreateAnswer, Operations
  <2>3. client' \in ClientType
    <3>1. [client EXCEPT !.isInitiator = FALSE] \in ClientType
      BY <1>0 DEF ClientType
    <3> QED BY <1>0, <1>4, <3>1 DEF CreateAnswer
  <2> QED BY <1>4, <2>1, <2>2, <2>3 DEF CreateAnswer, Types, appVars, boundVars
<1>5. CASE SetDescription
  <2>1. PICK do \in {"setRemote", "setLocal"} : Running(do)
    BY <1>5 DEF SetDescription
  <2>2. ExecTyped(exec') /\ Head(exec).do = do
    BY <1>5, <2>1, TaskRuns DEF SetDescription, Done, Tasks
  <2>3. conn' \in [Calls -> ConnType]
    BY <1>0, <1>5, <2>2, AskTypes DEF SetDescription, Operations
  <2> QED BY <1>5, <2>2, <2>3 DEF SetDescription, Types, appVars, boundVars
<1>6. CASE AddCandidate
  <2> DEFINE n == Head(exec).of
             p == client.pc
  <2>1. ExecTyped(exec') /\ n \in 1..MaxCandidates
    BY <1>6, TaskRuns DEF AddCandidate, Done, Tasks
  <2>2. conn' \in [Calls -> ConnType]
    <3>1. CASE Usable /\ ~client.queueing
      <4>1. p \in Calls /\ conn[p] \in ConnType
        BY <3>1, UsableCall
      <4>2. conn' = [conn EXCEPT ![p] = [conn[p] EXCEPT !.added = Append(@, n)]]
        BY <1>0, <1>6, <3>1, <4>1 DEF AddCandidate
      <4> HIDE DEF n, p
      <4> QED BY <1>0, <2>1, <4>1, <4>2, ConnChanges, ConnSet
    <3>2. CASE ~(Usable /\ ~client.queueing)
      <4>1. conn' = conn
        BY <1>6, <3>2 DEF AddCandidate
      <4> QED BY <1>0, <4>1
    <3> QED BY <3>1, <3>2
  <2>3. client' \in ClientType
    <3>1. Append(client.queued, n) \in Seq(1..MaxCandidates)
      BY <1>0, <2>1
    <3>2. client' = client \/ client' = [client EXCEPT !.queued = Append(client.queued, n)]
      BY <1>6 DEF AddCandidate
    <3> HIDE DEF n
    <3> QED BY <1>0, <3>1, <3>2 DEF ClientType
  <2> QED BY <1>6, <2>1, <2>2, <2>3 DEF AddCandidate, Types, appVars, boundVars
<1>7. CASE RemoveCandidates
  <2>1. ExecTyped(exec')
    BY <1>7, TaskRuns DEF RemoveCandidates, Done, Tasks
  <2>2. conn' \in [Calls -> ConnType] /\ client' \in ClientType
    BY <1>0, <1>7, DrainTypes DEF RemoveCandidates
  <2> QED BY <1>7, <2>1, <2>2 DEF RemoveCandidates, Types, appVars, boundVars
<1>8. CASE SetSuccess
  <2>1. Running("setDone") /\ exec' = Tail(exec) /\ UNCHANGED <<appVars, capturing, room, boundVars>>
    BY <1>8, SuccessCases
  <2>2. ExecTyped(exec')
    BY <2>1, TaskRuns DEF Tasks
  <2>3. conn' \in [Calls -> ConnType] /\ client' \in ClientType /\ UiTyped(ui')
          /\ faults' \in SUBSET {"capturer", "events"}
    <3>1. Heard /\ Tell("sdp") => UiTyped(ui') /\ faults' = faults
      BY TellTypes
    <3>2. NobodyHears => UiTyped(ui') /\ faults' \in SUBSET {"capturer", "events"}
      BY <1>0 DEF NobodyHears
    <3>3. Usable /\ DrainCandidates => conn' \in [Calls -> ConnType] /\ client' \in ClientType
      BY DrainTypes
    <3> QED BY <1>0, <1>8, <3>1, <3>2, <3>3, SuccessCases
  <2> QED BY <2>1, <2>2, <2>3 DEF Types, appVars, boundVars
<1>9. CASE HandleError
  <2>1. ExecTyped(exec')
    BY <1>9, TaskRuns DEF HandleError, Done, Tasks
  <2>2. Heard /\ Tell("error") => UiTyped(ui') /\ faults' = faults
    BY TellTypes
  <2>3. UiTyped(ui') /\ faults' \in SUBSET {"capturer", "events"}
    BY <1>0, <1>9, <2>2 DEF HandleError, NobodyHears
  <2>4. [client EXCEPT !.isError = TRUE] \in ClientType
    BY <1>0 DEF ClientType
  <2>5. client' \in ClientType
    BY <1>0, <1>9, <2>4 DEF HandleError
  <2> QED BY <1>9, <2>1, <2>3, <2>5 DEF HandleError, Types, appVars, boundVars
<1>10. CASE HandleIce
  <2>1. PICK do \in {"ice", "hungUp"} : Running(do)
    BY <1>10 DEF HandleIce
  <2>2. ExecTyped(exec') /\ Head(exec).do = do
    BY <1>10, <2>1, TaskRuns DEF HandleIce, Done, Tasks
  <2>3. Heard /\ Tell(do) => UiTyped(ui') /\ faults' = faults
    BY TellTypes
  <2>4. UiTyped(ui') /\ faults' \in SUBSET {"capturer", "events"}
    BY <1>0, <1>10, <2>2, <2>3 DEF HandleIce, NobodyHears
  <2> QED BY <1>10, <2>2, <2>4 DEF HandleIce, Types, appVars, callVars, boundVars
<1>11. CASE StopVideoSource
  <2>1. ExecTyped(exec')
    BY <1>11, TaskRuns DEF StopVideoSource, Done, Tasks
  <2>2. [client EXCEPT !.stopped = TRUE] \in ClientType
    BY <1>0 DEF ClientType
  <2>3. client' \in ClientType /\ capturing' \in SUBSET Calls
    BY <1>0, <1>11, <2>2 DEF StopVideoSource
  <2> QED BY <1>11, <2>1, <2>3 DEF StopVideoSource, Types, appVars, boundVars
<1>12. CASE StartVideoSource
  <2>1. ExecTyped(exec')
    BY <1>12, TaskRuns DEF StartVideoSource, Done, Tasks
  <2>2. [client EXCEPT !.stopped = FALSE] \in ClientType
    BY <1>0 DEF ClientType
  <2>3. client' \in ClientType /\ capturing' \in SUBSET Calls
    BY <1>0, <1>12, <2>2 DEF StartVideoSource
  <2>4. faults' \in SUBSET {"capturer", "events"}
    BY <1>0, <1>12 DEF StartVideoSource
  <2> QED BY <1>12, <2>1, <2>3, <2>4 DEF StartVideoSource, Types, appVars, boundVars
<1>13. CASE CloseInternal
  <2>1. ExecTyped(exec')
    BY <1>13, TaskRuns DEF CloseInternal, Done, Tasks
  <2>2. conn' \in [Calls -> ConnType]
    <3>1. \A c \in Calls : conn[c] \in ConnType /\
            [conn[c] EXCEPT !.state = "disposed", !.operations = <<>>] \in ConnType
      BY <1>0, ConnChanges
    <3> QED BY <1>13, <3>1 DEF CloseInternal
  <2>3. client' = [client EXCEPT !.pc = None, !.capturer = None, !.source = FALSE,
          !.stopped = client.stopped \/ client.capturer # None, !.factory = FALSE, !.events = None]
    BY <1>13 DEF CloseInternal
  <2>4. client' \in ClientType
    BY <1>0, <2>3 DEF ClientType
  <2>5. capturing' \in SUBSET Calls /\ faults' \in SUBSET {"capturer", "events"}
    BY <1>0, <1>13 DEF CloseInternal
  <2> QED BY <1>13, <2>1, <2>2, <2>4, <2>5 DEF CloseInternal, Types, appVars, boundVars
<1> QED BY <1>1, <1>2, <1>3, <1>4, <1>5, <1>6, <1>7, <1>8, <1>9, <1>10, <1>11, <1>12, <1>13
        DEF ExecutorTask

LEMMA LibraryTypes == ASSUME Types, NEW c \in Calls, Library(c) PROVE Types'
<1>0. /\ ExecTyped(exec) /\ client \in ClientType /\ conn \in [Calls -> ConnType]
      /\ conn[c] \in ConnType /\ None \in Nat /\ failures \in 0..MaxFailures
      /\ conn[c].operations \in Seq(Operations)
  BY Assumptions DEF Types, ConnType
<1>1. Failure => failures' \in 0..MaxFailures
  BY Assumptions DEF Failure, Types
<1>2. ASSUME NEW do \in {"error", "setLocal", "setDone", "ice", "hungUp"}
      PROVE  /\ ExecTyped(<<Task(do, None)>>) /\ Task(do, None) \in TaskType
             /\ ExecTyped(exec \o <<Task(do, None)>>)
  <2>1. do \in Tasks /\ do # "candidate" /\ do # "create"
    BY DEF Tasks
  <2>2. ExecTyped(<<Task(do, None)>>) /\ Task(do, None) \in TaskType
    BY <1>0, <2>1, ExecOne
  <2> QED BY <1>0, <2>2, ExecConcat
<1>3. CASE Answer(c)
  <2> DEFINE rest == [conn[c] EXCEPT !.operations = Tail(@)]
             o == Head(conn[c].operations)
  <2>1. conn[c].operations # <<>>
    BY <1>3 DEF Answer
  <2>2. rest \in ConnType
    BY <1>0, <2>1, ConnChanges
  <2>3. [rest EXCEPT !.local = TRUE] \in ConnType /\ [rest EXCEPT !.remote = TRUE] \in ConnType
    BY <2>2, ConnChanges
  <2>4. \/ o = "setLocal" /\ conn' = [conn EXCEPT ![c] = [rest EXCEPT !.local = TRUE]]
        \/ o = "setRemote" /\ conn' = [conn EXCEPT ![c] = [rest EXCEPT !.remote = TRUE]]
        \/ o \notin {"setLocal", "setRemote"} /\ conn' = [conn EXCEPT ![c] = rest]
    BY <1>3 DEF Answer
  <2> HIDE DEF rest
  <2>5. conn' \in [Calls -> ConnType]
    BY <1>0, <2>2, <2>3, <2>4, ConnSet
  <2>6. [client EXCEPT !.localSdp = TRUE] \in ClientType
    BY <1>0 DEF ClientType
  <2>7. ExecTyped(exec') /\ client' \in ClientType
    <3>1. CASE o = "setLocal"
      <4>1. PICK candidates \in {<<>>, <<Task("ice", None)>>} :
              exec' = exec \o (<<Task("setDone", None)>> \o candidates)
        BY <1>3, <3>1 DEF Answer, Execute
      <4>2. ExecTyped(candidates)
        BY <1>2, ExecNone
      <4>3. ExecTyped(<<Task("setDone", None)>> \o candidates)
        BY <1>2, <4>2, ExecConcat
      <4>4. client' = client
        BY <1>3, <3>1 DEF Answer
      <4> QED BY <1>0, <4>1, <4>3, <4>4, ExecConcat
    <3>2. CASE o = "setRemote"
      BY <1>0, <1>2, <1>3, <3>2 DEF Answer, Execute
    <3>3. CASE o \notin {"setLocal", "setRemote"}
      BY <1>0, <1>2, <1>3, <3>3, <2>6 DEF Answer, Execute, Created
    <3> QED BY <3>1, <3>2, <3>3
  <2> QED BY <1>3, <2>5, <2>7 DEF Answer, Types, appVars, boundVars
<1>4. CASE Refuse(c)
  <2>1. conn' = [conn EXCEPT ![c] = [conn[c] EXCEPT !.operations = Tail(@)]]
          /\ conn[c].operations # <<>>
    BY <1>0, <1>4 DEF Refuse
  <2>2. conn' \in [Calls -> ConnType]
    BY <1>0, <2>1, ConnChanges, ConnSet
  <2>3. ExecTyped(exec') /\ failures' \in 0..MaxFailures
    BY <1>0, <1>1, <1>2, <1>4 DEF Refuse, Execute
  <2> QED BY <1>4, <2>2, <2>3 DEF Refuse, Types, appVars
<1>5. CASE LoseConnection(c)
  <2>1. ExecTyped(exec') /\ failures' \in 0..MaxFailures
    BY <1>0, <1>1, <1>2, <1>5 DEF LoseConnection, Execute
  <2> QED BY <1>5, <2>1 DEF LoseConnection, Types, appVars, callVars
<1>6. CASE OtherError(c)
  <2>1. ExecTyped(exec') /\ failures' \in 0..MaxFailures
    BY <1>0, <1>1, <1>2, <1>6 DEF OtherError, Execute
  <2> QED BY <1>6, <2>1 DEF OtherError, Types, appVars, callVars
<1> QED BY <1>3, <1>4, <1>5, <1>6 DEF Library

\* What is heard of the room joins the runnables of the UI thread.
LEMMA HearTypes ==
  ASSUME Types, NEW c \in Calls, NEW do \in Events, NEW of \in 0..MaxCandidates, Hear(c, do, of),
         do = "candidate" => of \in 1..MaxCandidates, do = "connected" => of \in 0..MaxKept
  PROVE  /\ act[c].room /\ UiTyped(ui') /\ UNCHANGED <<appVars, callVars, exec, faults>>
         /\ ui' = ui \o <<Event(c, do, of)>> /\ Event(c, do, of) \in EventType
         /\ Event(c, do, of).do = do /\ Event(c, do, of).of = of /\ Event(c, do, of).call = c
<1>1. UiTyped(ui)
  BY DEF Types
<1>2. ui' = Append(ui, Event(c, do, of)) /\ act[c].room /\ UNCHANGED <<appVars, callVars, exec, faults>>
  BY DEF Hear
<1> QED BY <1>1, <1>2, UiAppend

LEMMA RoomTypes == ASSUME Types, NEW c \in Calls, Room(c) PROVE Types'
<1>0. room \in [Calls -> RoomType] /\ room[c] \in RoomType /\ failures \in 0..MaxFailures
        /\ 0 \in 0..MaxCandidates /\ room[c].candidates \in Nat
  BY Assumptions DEF Types, RoomType
<1>1. CASE RoomConnected(c)
  <2>1. PICK role \in Roles, n \in 0..MaxKept :
          /\ room' = [room EXCEPT ![c].connected = TRUE, ![c].role = role, ![c].candidates = n,
                               ![c].described = (role = "offered")]
          /\ Hear(c, "connected", n)
    BY <1>1 DEF RoomConnected
  <2>2. n \in 0..MaxCandidates
    BY Assumptions
  <2>3. UiTyped(ui') /\ UNCHANGED <<appVars, callVars, exec, faults>>
    BY <2>1, <2>2, HearTypes DEF Events
  <2>4. room' \in [Calls -> RoomType]
    BY <1>0, <2>1, <2>2 DEF RoomType
  <2> QED BY <1>1, <2>3, <2>4 DEF RoomConnected, Types, appVars, callVars, boundVars
<1>2. CASE RoomDescription(c)
  <2>1. UiTyped(ui') /\ UNCHANGED <<appVars, callVars, exec, faults>>
    BY <1>0, <1>2, HearTypes DEF RoomDescription, Events, None
  <2>2. room' \in [Calls -> RoomType]
    BY <1>0, <1>2 DEF RoomDescription, RoomType
  <2> QED BY <1>2, <2>1, <2>2 DEF RoomDescription, Types, appVars, callVars, boundVars
<1>3. CASE RoomCandidate(c)
  <2>1. room[c].candidates + 1 \in 1..MaxCandidates /\ room[c].candidates + 1 \in 0..MaxCandidates
    BY <1>0, <1>3, Assumptions DEF RoomCandidate
  <2>2. UiTyped(ui') /\ UNCHANGED <<appVars, callVars, exec, faults>>
    BY <1>3, <2>1, HearTypes DEF RoomCandidate, Events
  <2>3. room' \in [Calls -> RoomType]
    BY <1>0, <1>3, <2>1 DEF RoomCandidate, RoomType
  <2> QED BY <1>3, <2>2, <2>3 DEF RoomCandidate, Types, appVars, callVars, boundVars
<1>4. CASE RoomRemoved(c)
  <2>1. UiTyped(ui') /\ UNCHANGED <<appVars, callVars, exec, faults>>
    BY <1>0, <1>4, HearTypes DEF RoomRemoved, Events, None
  <2>2. room' \in [Calls -> RoomType]
    BY <1>0, <1>4 DEF RoomRemoved, RoomType
  <2> QED BY <1>4, <2>1, <2>2 DEF RoomRemoved, Types, appVars, callVars, boundVars
<1>5. CASE RoomClosed(c)
  <2>1. PICK do \in {"hungUp", "error"} : Hear(c, do, None)
    BY <1>5 DEF RoomClosed
  <2>2. UiTyped(ui') /\ UNCHANGED <<appVars, callVars, exec, faults>>
    BY <1>0, <2>1, HearTypes DEF Events, None
  <2>3. failures' \in 0..MaxFailures
    BY <1>0, <1>5, Assumptions DEF RoomClosed, Failure
  <2> QED BY <1>5, <2>2, <2>3 DEF RoomClosed, Types, appVars, callVars
<1> QED BY <1>1, <1>2, <1>3, <1>4, <1>5 DEF Room

LEMMA StutterTypes == ASSUME Types, UNCHANGED vars PROVE Types'
BY DEF Types, vars, appVars, callVars, queueVars, boundVars

LEMMA NextTypes == ASSUME Types, [Next]_vars PROVE Types'
BY UiTypes, ExecTypes, UserTypes, LibraryTypes, RoomTypes, StutterTypes DEF Next

\* Every variable keeps its type, for any number of calls, candidates and failures: the
\* listener that an earlier call's closeInternal made null is never called, and the
\* executor goes on without it.
THEOREM PeerTyped == Spec => []TypeOK
<1>1. Init => Types
  BY InitTypes
<1>2. Types /\ [Next]_vars => Types'
  BY NextTypes
<1>3. Types => TypeOK
  BY TypesGive
<1> QED BY <1>1, <1>2, <1>3, PTL DEF Spec

-----------------------------------------------------------------------------
(* Errors.                                                                  *)

LEMMA OfTail ==
  ASSUME NEW q \in Seq(EventType), q # <<>>
  PROVE  /\ Of(q, Head(q).call) /\ \A c : Of(Tail(q), c) => Of(q, c)
         /\ \A c : ErrorOf(q, c) => ErrorOf(Tail(q), c) \/ (Head(q).do = "error" /\ Head(q).call = c)
<1>1. /\ Head(q) = q[1] /\ 1 \in DOMAIN q
      /\ \A i \in DOMAIN Tail(q) : Tail(q)[i] = q[i + 1] /\ i + 1 \in DOMAIN q
      /\ \A i \in DOMAIN q : i = 1 \/ (i - 1 \in DOMAIN Tail(q) /\ Tail(q)[i - 1] = q[i])
  BY TailParts
<1>2. Of(q, Head(q).call) /\ \A c : Of(Tail(q), c) => Of(q, c)
  BY <1>1 DEF Of
<1>3. \A c : ErrorOf(q, c) => ErrorOf(Tail(q), c) \/ (Head(q).do = "error" /\ Head(q).call = c)
  BY <1>1 DEF ErrorOf
<1> QED BY <1>2, <1>3

LEMMA OfAppend ==
  ASSUME NEW q \in Seq(EventType), NEW e \in EventType
  PROVE  /\ \A c : Of(q \o <<e>>, c) => Of(q, c) \/ e.call = c
         /\ \A c : ErrorOf(q, c) => ErrorOf(q \o <<e>>, c)
         /\ e.do = "error" => ErrorOf(q \o <<e>>, e.call)
<1> DEFINE s == <<e>>
           r == q \o s
<1>1. s \in Seq(EventType) /\ DOMAIN s = {1} /\ s[1] = e
  OBVIOUS
<1> HIDE DEF s
<1>2. /\ \A i \in DOMAIN q : r[i] = q[i] /\ i \in DOMAIN r
      /\ \A i \in DOMAIN s : r[Len(q) + i] = s[i] /\ Len(q) + i \in DOMAIN r
      /\ \A i \in DOMAIN r : i \in DOMAIN q \/ (i - Len(q) \in DOMAIN s /\ r[i] = s[i - Len(q)])
  BY <1>1, ConcatParts
<1> HIDE DEF r
<1>3. \A c : Of(r, c) => Of(q, c) \/ e.call = c
  BY <1>1, <1>2 DEF Of
<1>4. \A c : ErrorOf(q, c) => ErrorOf(r, c)
  BY <1>2 DEF ErrorOf
<1>5. e.do = "error" => ErrorOf(r, e.call)
  BY <1>1, <1>2 DEF ErrorOf
<1> QED BY <1>3, <1>4, <1>5 DEF r, s

\* A step that changes no activity.
LEMMA ErrorsFrame ==
  ASSUME Errors, UNCHANGED act,
         \A d \in Calls : client'.events = d => client.events = d,
         \A d \in Calls : client'.isError /\ client'.events = d =>
           client.isError \/ ErrorOf(ui', d),
         \A d \in Calls : ErrorOf(ui, d) => ErrorOf(ui', d),
         \A d \in Calls : Of(ui', d) => Of(ui, d) \/ act[d].phase # "none"
  PROVE  Errors'
<1> SUFFICES ASSUME NEW d \in Calls
    PROVE  /\ act'[d].phase = "none" =>
                ~act'[d].isError /\ ~act'[d].room /\ client'.events # d /\ ~Of(ui', d)
           /\ client'.isError /\ client'.events = d => act'[d].isError \/ ErrorOf(ui', d)
           /\ act'[d].isError => act'[d].dialog \/ ~act'[d].client
  BY DEF Errors, Of, ErrorOf
<1> QED BY DEF Errors

\* A step that changes one activity.
LEMMA ErrorsAct ==
  ASSUME Errors, act \in [Calls -> ActType], NEW c \in Calls, NEW a \in ActType,
         act' = [act EXCEPT ![c] = a], act[c].phase # "none", a.phase # "none",
         a.isError => a.dialog \/ ~a.client, act[c].isError => a.isError,
         client'.events = client.events, client'.isError = client.isError,
         \A d \in Calls : ErrorOf(ui, d) => ErrorOf(ui', d) \/ (d = c /\ a.isError),
         \A d \in Calls : Of(ui', d) => Of(ui, d)
  PROVE  Errors'
<1> SUFFICES ASSUME NEW d \in Calls
    PROVE  /\ act'[d].phase = "none" =>
                ~act'[d].isError /\ ~act'[d].room /\ client'.events # d /\ ~Of(ui', d)
           /\ client'.isError /\ client'.events = d => act'[d].isError \/ ErrorOf(ui', d)
           /\ act'[d].isError => act'[d].dialog \/ ~act'[d].client
  BY DEF Errors, Of, ErrorOf
<1>1. CASE d = c
  BY <1>1 DEF Errors
<1>2. CASE d # c
  <2>1. act'[d] = act[d]
    BY <1>2
  <2> QED BY <1>2, <2>1 DEF Errors
<1> QED BY <1>1, <1>2

\* What becomes of an activity with an error.
LEMMA ActErrors ==
  ASSUME NEW a \in ActType, a.isError => a.dialog \/ ~a.client
  PROVE  /\ Disconnected(a).phase = a.phase /\ Disconnected(a).isError = a.isError
         /\ ~Disconnected(a).client
         /\ Reported(a).phase = a.phase /\ Reported(a).isError
         /\ Reported(a).dialog \/ ~Reported(a).client
<1>0. Disconnected(a) \in ActType
  BY ActChanges
<1>1. Disconnected(a).phase = a.phase /\ ~Disconnected(a).client
        /\ Disconnected(a).isError = a.isError
  BY DEF Disconnected, ActType
<1>2. CASE a.isError
  BY <1>1, <1>2 DEF Reported
<1>3. CASE ~a.isError /\ a.running
  BY <1>1, <1>3 DEF Reported, ActType
<1>4. CASE ~a.isError /\ ~a.running
  <2>1. Reported(a) = [Disconnected(a) EXCEPT !.isError = TRUE]
    BY <1>4 DEF Reported
  <2> QED BY <1>0, <1>1, <2>1 DEF ActType
<1> QED BY <1>1, <1>2, <1>3, <1>4

LEMMA UserErrors == ASSUME Types, Errors, NEW c \in Calls, User(c) PROVE Errors'
<1>0. /\ act \in [Calls -> ActType] /\ act[c] \in ActType /\ client \in ClientType
      /\ act[c].isError => act[c].dialog \/ ~act[c].client
  BY DEF Types, Errors
<1> DEFINE b == Disconnected(act[c])
<1>1. b \in ActType /\ b.phase = act[c].phase /\ b.isError = act[c].isError /\ ~b.client
  BY <1>0, ActErrors, ActChanges
<1> HIDE DEF b
<1>2. CASE CreateActivity(c)
  <2>1. /\ act'[c].phase = "shown" /\ act'[c].isError = act[c].isError
        /\ \A d \in Calls : d # c => act'[d] = act[d]
        /\ client'.events = c /\ ~client'.isError /\ ui' = ui /\ act[c].phase = "none"
    BY <1>0, <1>2 DEF CreateActivity, ActType, ClientType
  <2> SUFFICES ASSUME NEW d \in Calls
      PROVE  /\ act'[d].phase = "none" =>
                ~act'[d].isError /\ ~act'[d].room /\ client'.events # d /\ ~Of(ui', d)
             /\ client'.isError /\ client'.events = d => act'[d].isError \/ ErrorOf(ui', d)
             /\ act'[d].isError => act'[d].dialog \/ ~act'[d].client
    BY DEF Errors, Of, ErrorOf
  <2>2. CASE d = c
    BY <2>1, <2>2 DEF Errors
  <2>3. CASE d # c
    BY <2>1, <2>3 DEF Errors
  <2> QED BY <2>2, <2>3
<1>3. CASE HangUp(c)
  <2>1. act' = [act EXCEPT ![c] = b] /\ ui' = ui /\ client' = client /\ act[c].phase # "none"
    BY <1>3, <1>0 DEF HangUp, callVars, b
  <2> QED BY <1>0, <1>1, <2>1, ErrorsAct
<1>4. CASE Back(c)
  <2> DEFINE a == [act[c] EXCEPT !.finishing = TRUE]
  <2>1. act' = [act EXCEPT ![c] = a] /\ ui' = ui /\ client' = client
    BY <1>4, <1>0 DEF Back, callVars, queueVars
  <2>2. a \in ActType /\ a.phase = act[c].phase /\ a.isError = act[c].isError
          /\ a.dialog = act[c].dialog /\ a.client = act[c].client /\ a.phase # "none"
    BY <1>0, <1>4 DEF ActType, Back
  <2> HIDE DEF a
  <2> QED BY <1>0, <2>1, <2>2, ErrorsAct
<1>5. CASE DialogOk(c)
  <2> DEFINE a == [b EXCEPT !.dialog = FALSE]
  <2>1. act' = [act EXCEPT ![c] = a] /\ ui' = ui /\ client' = client /\ act[c].phase # "none"
    BY <1>5, <1>0 DEF DialogOk, callVars, b
  <2>2. a \in ActType /\ a.phase = act[c].phase /\ a.isError = act[c].isError /\ ~a.client
    BY <1>1 DEF ActType
  <2> HIDE DEF a
  <2> QED BY <1>0, <2>1, <2>2, ErrorsAct
<1>6. CASE Stop(c)
  <2> DEFINE a == [act[c] EXCEPT !.phase = "hidden", !.running = FALSE]
  <2>1. act' = [act EXCEPT ![c] = a] /\ ui' = ui /\ client' = client /\ act[c].phase # "none"
    BY <1>6, <1>0 DEF Stop, callVars
  <2>2. a \in ActType /\ a.phase = "hidden" /\ a.isError = act[c].isError
          /\ a.dialog = act[c].dialog /\ a.client = act[c].client
    BY <1>0 DEF ActType
  <2> HIDE DEF a
  <2> QED BY <1>0, <2>1, <2>2, ErrorsAct
<1>7. CASE Start(c)
  <2> DEFINE a == [act[c] EXCEPT !.phase = "shown", !.running = TRUE]
  <2>1. act' = [act EXCEPT ![c] = a] /\ ui' = ui /\ client' = client /\ act[c].phase # "none"
    BY <1>7, <1>0 DEF Start, callVars
  <2>2. a \in ActType /\ a.phase = "shown" /\ a.isError = act[c].isError
          /\ a.dialog = act[c].dialog /\ a.client = act[c].client
    BY <1>0 DEF ActType
  <2> HIDE DEF a
  <2> QED BY <1>0, <2>1, <2>2, ErrorsAct
<1>8. CASE Destroy(c)
  <2> DEFINE a == [b EXCEPT !.phase = "gone"]
  <2>1. act' = [act EXCEPT ![c] = a] /\ ui' = ui /\ client' = client /\ act[c].phase # "none"
    BY <1>8, <1>0 DEF Destroy, callVars, b
  <2>2. a \in ActType /\ a.phase = "gone" /\ a.isError = act[c].isError /\ ~a.client
    BY <1>1 DEF ActType
  <2> HIDE DEF a
  <2> QED BY <1>0, <2>1, <2>2, ErrorsAct
<1> QED BY <1>2, <1>3, <1>4, <1>5, <1>6, <1>7, <1>8 DEF User

LEMMA UiErrors == ASSUME Types, Errors, UiTask PROVE Errors'
<1> DEFINE c == Head(ui).call
<1>0. act \in [Calls -> ActType] /\ client \in ClientType /\ ui \in Seq(EventType)
  BY DEF Types, UiTyped
<1>1. ASSUME NEW do \in Events, Handling(do)
      PROVE  /\ c \in Calls /\ act[c] \in ActType /\ act[c].phase # "none"
             /\ \A d : Of(ui', d) => Of(ui, d)
             /\ \A d : ErrorOf(ui, d) => ErrorOf(ui', d) \/ (do = "error" /\ c = d)
             /\ act[c].isError => act[c].dialog \/ ~act[c].client
  <2>1. ui # <<>> /\ ui' = Tail(ui) /\ Head(ui).do = do
    BY <1>1 DEF Handling
  <2>2. c \in Calls
    BY <2>1, UiTail DEF Types
  <2>3. Of(ui, c) /\ \A d : Of(ui', d) => Of(ui, d)
    BY <1>0, <2>1, OfTail
  <2>4. \A d : ErrorOf(ui, d) => ErrorOf(ui', d) \/ (do = "error" /\ c = d)
    BY <1>0, <2>1, OfTail
  <2> HIDE DEF c
  <2> QED BY <1>0, <2>2, <2>3, <2>4 DEF Errors
<1>2. CASE OnConnected
  <2>1. Handling("connected")
    BY <1>2 DEF OnConnected
  <2>2. /\ c \in Calls /\ act[c] \in ActType /\ act[c].phase # "none"
        /\ \A d : Of(ui', d) => Of(ui, d)
        /\ \A d : ErrorOf(ui, d) => ErrorOf(ui', d)
        /\ act[c].isError => act[c].dialog \/ ~act[c].client
    BY <1>1, <2>1 DEF Events
  <2>3. PICK camera \in BOOLEAN, a \in ActType :
                 /\ a = [IF camera THEN act[c] ELSE Reported(act[c]) EXCEPT !.role = room[c].role]
                 /\ \/ /\ act' = [act EXCEPT ![c] = [a EXCEPT !.early =
                            a.phase # "shown" \/ \E i \in 1..Len(exec) : exec[i].do = "stop"]]
                       /\ client' = [client EXCEPT !.capturer = IF camera THEN c ELSE None]
                    \/ act' = [act EXCEPT ![c] = a] /\ client' = client
    BY <1>2, ConnectedCases
  <2> HIDE DEF c
  <2>4. client'.events = client.events /\ client'.isError = client.isError
    BY <1>0, <2>3 DEF ClientType
  <2>5. Reported(act[c]) \in ActType /\ Reported(act[c]).phase = act[c].phase /\ Reported(act[c]).isError
          /\ (Reported(act[c]).dialog \/ ~Reported(act[c]).client)
    BY <2>2, ActErrors, ActChanges
  <2>6. a.phase = act[c].phase /\ (a.isError => a.dialog \/ ~a.client) /\ (act[c].isError => a.isError)
    <3>1. CASE camera
      <4>1. a = [act[c] EXCEPT !.role = room[c].role]
        BY <2>3, <3>1
      <4> QED BY <2>2, <4>1 DEF ActType
    <3>2. CASE ~camera
      <4>1. a = [Reported(act[c]) EXCEPT !.role = room[c].role]
        BY <2>3, <3>2
      <4>2. a.phase = act[c].phase /\ a.isError
        BY <2>5, <4>1 DEF ActType
      <4>3. a.dialog = Reported(act[c]).dialog /\ a.client = Reported(act[c]).client
        BY <2>5, <4>1 DEF ActType
      <4> QED BY <2>5, <4>2, <4>3
    <3> QED BY <3>1, <3>2
  <2>7. ASSUME NEW b \in ActType, act' = [act EXCEPT ![c] = b], b.phase = a.phase,
               b.isError = a.isError, b.dialog = a.dialog, b.client = a.client
        PROVE  Errors'
    BY <1>0, <2>2, <2>4, <2>6, <2>7, ErrorsAct
  <2>8. \A early \in BOOLEAN : LET b == [a EXCEPT !.early = early]
           IN b \in ActType /\ b.phase = a.phase /\ b.isError = a.isError /\ b.dialog = a.dialog
                /\ b.client = a.client
    BY DEF ActType
  <2> QED BY <2>3, <2>7, <2>8
<1>3. ASSUME Handling("description") \/ Handling("candidate") \/ Handling("remove")
               \/ Handling("sdp") \/ Handling("ice"), UNCHANGED <<act, client>>
      PROVE  Errors'
  <2>1. /\ \A d : Of(ui', d) => Of(ui, d)
        /\ \A d : ErrorOf(ui, d) => ErrorOf(ui', d)
    BY <1>1, <1>3 DEF Events
  <2>2. client'.events = client.events /\ client'.isError = client.isError
    BY <1>3
  <2> HIDE DEF c
  <2> QED BY <1>3, <2>1, <2>2, ErrorsFrame
<1>4. CASE OnDescription
  BY <1>3, <1>4 DEF OnDescription, appVars, callVars
<1>5. CASE OnCandidate
  BY <1>3, <1>5 DEF OnCandidate, appVars, callVars
<1>6. CASE OnLocalDescription
  BY <1>3, <1>6 DEF OnLocalDescription, callVars
<1>7. CASE OnIceCandidate
  BY <1>3, <1>7 DEF OnIceCandidate, callVars
<1>8. CASE OnHungUp
  <2>1. Handling("hungUp") /\ act' = [act EXCEPT ![c] = Disconnected(act[c])] /\ UNCHANGED client
    BY <1>8, <1>0 DEF OnHungUp, callVars
  <2>2. /\ c \in Calls /\ act[c] \in ActType /\ act[c].phase # "none"
        /\ \A d : Of(ui', d) => Of(ui, d)
        /\ \A d : ErrorOf(ui, d) => ErrorOf(ui', d)
        /\ act[c].isError => act[c].dialog \/ ~act[c].client
    BY <1>1, <2>1 DEF Events
  <2> HIDE DEF c
  <2>3. Disconnected(act[c]) \in ActType /\ Disconnected(act[c]).phase = act[c].phase
          /\ Disconnected(act[c]).isError = act[c].isError /\ ~Disconnected(act[c]).client
    BY <2>2, ActErrors, ActChanges
  <2> QED BY <1>0, <2>1, <2>2, <2>3, ErrorsAct
<1>9. CASE OnError
  <2>1. Handling("error") /\ act' = [act EXCEPT ![c] = Reported(act[c])] /\ UNCHANGED client
    BY <1>9, <1>0 DEF OnError, callVars
  <2>2. /\ c \in Calls /\ act[c] \in ActType /\ act[c].phase # "none"
        /\ \A d : Of(ui', d) => Of(ui, d)
        /\ \A d : ErrorOf(ui, d) => ErrorOf(ui', d) \/ d = c
        /\ act[c].isError => act[c].dialog \/ ~act[c].client
    BY <1>1, <2>1 DEF Events
  <2> HIDE DEF c
  <2>3. Reported(act[c]) \in ActType /\ Reported(act[c]).phase = act[c].phase /\ Reported(act[c]).isError
          /\ (Reported(act[c]).dialog \/ ~Reported(act[c]).client)
    BY <2>2, ActErrors, ActChanges
  <2> QED BY <1>0, <2>1, <2>2, <2>3, ErrorsAct
<1> QED BY <1>2, <1>4, <1>5, <1>6, <1>7, <1>8, <1>9 DEF UiTask

LEMMA ExecErrors == ASSUME Types, Errors, ExecutorTask PROVE Errors'
<1>0. client \in ClientType /\ ui \in Seq(EventType) /\ None \notin Calls
      /\ \A d \in Calls : client.events = d => act[d].phase # "none"
  BY Assumptions DEF Types, UiTyped, Errors
<1>1. ASSUME UNCHANGED act, client'.events = client.events, client'.isError = client.isError,
             ui' = ui \/ \E do \in {"sdp", "ice", "hungUp", "error"} : Heard /\ Tell(do)
      PROVE  Errors'
  <2>1. CASE ui' = ui
    BY <1>1, <2>1, ErrorsFrame
  <2>2. CASE \E do \in {"sdp", "ice", "hungUp", "error"} : Heard /\ Tell(do)
    <3>1. PICK do \in {"sdp", "ice", "hungUp", "error"} : Heard /\ Tell(do)
      BY <2>2
    <3> DEFINE e == Event(client.events, do, None)
    <3>2. ui' = ui \o <<e>> /\ e \in EventType /\ e.call = client.events
      BY <3>1, TellTypes
    <3> HIDE DEF e
    <3>3. /\ \A d : Of(ui', d) => Of(ui, d) \/ client.events = d
          /\ \A d : ErrorOf(ui, d) => ErrorOf(ui', d)
      BY <1>0, <3>2, OfAppend
    <3> QED BY <1>0, <1>1, <3>3, ErrorsFrame
  <2> QED BY <1>1, <2>1, <2>2
<1>2. CASE CreateFactory
  <2>1. ui' = ui /\ act' = act /\ ~client'.isError /\ client'.events = client.events
    BY <1>0, <1>2 DEF CreateFactory, appVars, ClientType
  <2> QED BY <2>1, ErrorsFrame
<1>3. CASE CreatePeerConnection
  BY <1>0, <1>1, <1>3 DEF CreatePeerConnection, appVars, callVars, ClientType
<1>4. CASE CreateOffer \/ CreateAnswer
  BY <1>0, <1>1, <1>4 DEF CreateOffer, CreateAnswer, appVars, ClientType
<1>5. CASE SetDescription
  BY <1>1, <1>5 DEF SetDescription, appVars
<1>6. CASE AddCandidate
  BY <1>0, <1>1, <1>6 DEF AddCandidate, appVars, ClientType
<1>7. DrainCandidates => client'.events = client.events /\ client'.isError = client.isError
  BY <1>0 DEF DrainCandidates, ClientType
<1>8. CASE RemoveCandidates
  BY <1>1, <1>7, <1>8 DEF RemoveCandidates, appVars
<1>9. CASE SetSuccess
  <2>1. act' = act /\ client'.events = client.events /\ client'.isError = client.isError
    BY <1>7, <1>9, SuccessCases DEF appVars
  <2>2. ui' = ui \/ (Heard /\ Tell("sdp"))
    BY <1>9, SuccessCases DEF NobodyHears
  <2> QED BY <1>1, <2>1, <2>2
<1>10. CASE HandleError
  <2>1. CASE client.isError \/ ~Heard
    BY <1>1, <1>10, <2>1 DEF HandleError, appVars, NobodyHears
  <2>2. CASE ~client.isError /\ Heard
    <3> DEFINE e == Event(client.events, "error", None)
    <3>1. Tell("error") /\ client' = [client EXCEPT !.isError = TRUE] /\ act' = act
      BY <1>10, <2>2 DEF HandleError, appVars
    <3>2. ui' = ui \o <<e>> /\ e \in EventType /\ e.call = client.events /\ e.do = "error"
      BY <2>2, <3>1, TellTypes
    <3> HIDE DEF e
    <3>3. /\ \A d : Of(ui', d) => Of(ui, d) \/ client.events = d
          /\ \A d : ErrorOf(ui, d) => ErrorOf(ui', d)
          /\ ErrorOf(ui', client.events)
      BY <1>0, <3>2, OfAppend
    <3>4. client'.events = client.events
      BY <1>0, <3>1 DEF ClientType
    <3> QED BY <1>0, <3>1, <3>3, <3>4, ErrorsFrame
  <2> QED BY <2>1, <2>2
<1>11. CASE HandleIce
  <2>1. PICK do \in {"ice", "hungUp"} : Running(do)
    BY <1>11 DEF HandleIce
  <2>2. ui' = ui \/ (Heard /\ Tell(do))
    BY <1>11, <2>1 DEF HandleIce, Running, NobodyHears
  <2> QED BY <1>1, <1>11, <2>2 DEF HandleIce, appVars, callVars
<1>12. CASE StopVideoSource \/ StartVideoSource
  BY <1>0, <1>1, <1>12 DEF StopVideoSource, StartVideoSource, appVars, ClientType
<1>13. CASE CloseInternal
  <2>1. ui' = ui /\ act' = act /\ client'.events = None
    BY <1>0, <1>13 DEF CloseInternal, appVars, ClientType
  <2> QED BY <1>0, <2>1, ErrorsFrame
<1> QED BY <1>2, <1>3, <1>4, <1>5, <1>6, <1>8, <1>9, <1>10, <1>11, <1>12, <1>13 DEF ExecutorTask

LEMMA OtherErrors ==
  ASSUME Types, Errors, NEW c \in Calls, Library(c) \/ Room(c)
  PROVE  Errors'
<1>0. client \in ClientType /\ ui \in Seq(EventType)
  BY DEF Types, UiTyped
<1>1. ASSUME NEW do \in Events, NEW of \in 0..MaxCandidates, Hear(c, do, of),
             do = "candidate" => of \in 1..MaxCandidates, do = "connected" => of \in 0..MaxKept
      PROVE  Errors'
  <2> DEFINE e == Event(c, do, of)
  <2>1. /\ act[c].room /\ UNCHANGED <<appVars, callVars, exec, faults>>
        /\ ui' = ui \o <<e>> /\ e \in EventType /\ e.call = c
    BY <1>1, HearTypes
  <2> HIDE DEF e
  <2>2. /\ \A d : Of(ui', d) => Of(ui, d) \/ c = d
        /\ \A d : ErrorOf(ui, d) => ErrorOf(ui', d)
    BY <1>0, <2>1, OfAppend
  <2>3. act[c].phase # "none"
    BY <2>1 DEF Errors
  <2>4. client' = client /\ act' = act
    BY <2>1 DEF appVars, callVars
  <2> QED BY <2>2, <2>3, <2>4, ErrorsFrame
<1>2. 0 \in 0..MaxCandidates /\ room[c].candidates \in Nat
  BY Assumptions DEF Types, RoomType
<1>3. CASE RoomConnected(c)
  <2>1. PICK n \in 0..MaxKept : Hear(c, "connected", n)
    BY <1>3 DEF RoomConnected
  <2>2. n \in 0..MaxCandidates
    BY Assumptions
  <2> QED BY <1>1, <2>1, <2>2 DEF Events
<1>4. CASE RoomDescription(c)
  BY <1>1, <1>2, <1>4 DEF RoomDescription, Events, None
<1>5. CASE RoomCandidate(c)
  <2>1. room[c].candidates + 1 \in 1..MaxCandidates /\ room[c].candidates + 1 \in 0..MaxCandidates
    BY <1>2, <1>5, Assumptions DEF RoomCandidate
  <2> QED BY <1>1, <1>5, <2>1 DEF RoomCandidate, Events
<1>6. CASE RoomRemoved(c)
  BY <1>1, <1>2, <1>6 DEF RoomRemoved, Events, None
<1>7. CASE RoomClosed(c)
  BY <1>1, <1>2, <1>7 DEF RoomClosed, Events, None
<1>8. CASE Library(c)
  <2>1. ui' = ui /\ act' = act /\ client'.events = client.events /\ client'.isError = client.isError
    <3>1. CASE Answer(c)
      <4>1. client' = client \/ client' = [client EXCEPT !.localSdp = TRUE]
        BY <3>1 DEF Answer, Created
      <4> QED BY <1>0, <3>1, <4>1 DEF Answer, appVars, ClientType
    <3>2. CASE Refuse(c) \/ LoseConnection(c) \/ OtherError(c)
      BY <3>2 DEF Refuse, LoseConnection, OtherError, appVars, callVars
    <3> QED BY <1>8, <3>1, <3>2 DEF Library
  <2> QED BY <2>1, ErrorsFrame
<1> QED BY <1>3, <1>4, <1>5, <1>6, <1>7, <1>8 DEF Room

LEMMA NextErrors == ASSUME Types, Errors, [Next]_vars PROVE Errors'
<1>1. CASE UNCHANGED vars
  BY <1>1, ErrorsFrame DEF vars, appVars, callVars, queueVars
<1>2. CASE Next
  BY <1>2, UiErrors, ExecErrors, UserErrors, OtherErrors DEF Next
<1> QED BY <1>1, <1>2

\* An error of the library is not lost between the executor and the user, for any number of
\* calls of the process: the client that has one told its listener, which ended the call or
\* shows the dialog, whatever else the activity was told since.
THEOREM ErrorsReach == Spec => []ErrorsHeard
<1>1. Init => Types /\ Errors
  <2>1. Init => Errors
    BY Assumptions DEF Init, Errors, Of
  <2> QED BY <2>1, InitTypes
<1>2. Types /\ Errors /\ [Next]_vars => (Types /\ Errors)'
  BY NextTypes, NextErrors
<1>3. Types /\ Errors => ErrorsHeard
  <2>1. \A c : ~ErrorOf(<<>>, c)
    BY DEF ErrorOf
  <2> QED BY <2>1 DEF Errors, ErrorsHeard, Idle
<1> QED BY <1>1, <1>2, <1>3, PTL DEF Spec

-----------------------------------------------------------------------------
(* The life of one call.                                                    *)

SingleCall == \A b, d \in Calls : b = d

LEMMA TasksTail ==
  ASSUME Types, exec # <<>>
  PROVE  /\ Tail(exec) \in Seq(TaskType) /\ Head(exec) \in TaskType /\ exec \in Seq(TaskType)
         /\ \A do : Has(exec, do) <=> (Has(Tail(exec), do) \/ Head(exec).do = do)
         /\ \A do : One(exec, do) => One(Tail(exec), do) /\ (Head(exec).do = do => ~Has(Tail(exec), do))
         /\ \A a, b : Before(exec, a, b) => /\ Before(Tail(exec), a, b)
                                            /\ Head(exec).do = b => ~Has(exec, a) /\ ~Has(Tail(exec), a)
         /\ \A a, b : Followed(exec, a, b) =>
              Followed(Tail(exec), a, b) /\ (Head(exec).do = a => Has(Tail(exec), b))
<1>1. exec \in Seq(TaskType)
  BY DEF Types, ExecTyped
<1> QED BY <1>1, QueueTail

\* A task is put at the end of the queue of the executor.
LEMMA TaskMore ==
  ASSUME NEW q \in Seq(TaskType), NEW do \in Tasks, NEW of \in Nat
  PROVE  /\ q \o <<Task(do, of)>> \in Seq(TaskType)
         /\ \A d : Has(q \o <<Task(do, of)>>, d) <=> (Has(q, d) \/ d = do)
         /\ \A d : One(q, d) /\ (d = do => ~Has(q, d)) => One(q \o <<Task(do, of)>>, d)
         /\ \A a, b : a # b /\ Before(q, a, b) /\ (a = do => ~Has(q, b)) =>
              Before(q \o <<Task(do, of)>>, a, b)
         /\ \A a, b : Followed(q, a, b) /\ a # do => Followed(q \o <<Task(do, of)>>, a, b)
         /\ \A a, b : b = do /\ a # do => Followed(q \o <<Task(do, of)>>, a, b)
<1> DEFINE t == Task(do, of)
           s == <<t>>
<1>1. t \in TaskType /\ t.do = do
  BY DEF Task, TaskType
<1> HIDE DEF t
<1>2. s \in Seq(TaskType) /\ (\A d : Has(s, d) <=> d = do) /\ (\A d : One(s, d))
        /\ (\A a, b : a # b => Before(s, a, b))
  BY <1>1, QueueOne
<1> HIDE DEF s
<1>3. q \o s \in Seq(TaskType) /\ (\A d : Has(q \o s, d) <=> (Has(q, d) \/ Has(s, d)))
  BY <1>2, QueueConcat
<1>4. \A d : One(q, d) /\ (d = do => ~Has(q, d)) => One(q \o s, d)
  BY <1>2, QueueConcat
<1>5. ASSUME NEW a, NEW b, a # b, Before(q, a, b), a = do => ~Has(q, b)
      PROVE  Before(q \o s, a, b)
  BY <1>2, <1>5, QueueConcat
<1>6. ASSUME NEW a, NEW b, Followed(q, a, b), a # do PROVE Followed(q \o s, a, b)
  BY <1>2, <1>6, QueueConcat
<1>7. ASSUME NEW a, NEW b, b = do, a # do PROVE Followed(q \o s, a, b)
  BY <1>2, <1>7, QueueConcat
<1> QED BY <1>2, <1>3, <1>4, <1>5, <1>6, <1>7 DEF s, t

LEMMA RunnablesTail ==
  ASSUME Types, ui # <<>>
  PROVE  /\ Tail(ui) \in Seq(EventType) /\ Head(ui) \in EventType /\ ui \in Seq(EventType)
         /\ \A do : Has(ui, do) <=> (Has(Tail(ui), do) \/ Head(ui).do = do)
         /\ \A do : One(ui, do) => One(Tail(ui), do) /\ (Head(ui).do = do => ~Has(Tail(ui), do))
         /\ \A a, b : Before(ui, a, b) => /\ Before(Tail(ui), a, b)
                                          /\ Head(ui).do = b => ~Has(ui, a) /\ ~Has(Tail(ui), a)
<1>1. ui \in Seq(EventType)
  BY DEF Types, UiTyped
<1> QED BY <1>1, QueueTail

LEMMA RunnablesMore ==
  ASSUME Types, NEW e \in EventType
  PROVE  /\ \A d : Has(ui \o <<e>>, d) <=> (Has(ui, d) \/ d = e.do)
         /\ \A d : One(ui, d) /\ (d = e.do => ~Has(ui, d)) => One(ui \o <<e>>, d)
         /\ \A a, b : a # b /\ Before(ui, a, b) /\ (a = e.do => ~Has(ui, b)) => Before(ui \o <<e>>, a, b)
<1> DEFINE s == <<e>>
<1>1. ui \in Seq(EventType)
  BY DEF Types, UiTyped
<1>2. s \in Seq(EventType) /\ (\A d : Has(s, d) <=> d = e.do) /\ (\A d : One(s, d))
        /\ (\A a, b : a # b => Before(s, a, b))
  BY QueueOne
<1> HIDE DEF s
<1>3. \A d : Has(ui \o s, d) <=> (Has(ui, d) \/ Has(s, d))
  BY <1>1, <1>2, QueueConcat
<1>4. \A d : One(ui, d) /\ (d = e.do => ~Has(ui, d)) => One(ui \o s, d)
  BY <1>1, <1>2, QueueConcat
<1>5. ASSUME NEW a, NEW b, a # b, Before(ui, a, b), a = e.do => ~Has(ui, b)
      PROVE  Before(ui \o s, a, b)
  BY <1>1, <1>2, <1>5, QueueConcat
<1> QED BY <1>2, <1>3, <1>4, <1>5 DEF s

\* The runnables of the UI thread when one is taken, and when one is added.
LEMMA RoomFirstTail ==
  ASSUME Types, NEW c \in Calls, RoomFirst(c), ui # <<>>, ui' = Tail(ui), UNCHANGED room
  PROVE  /\ RoomFirst(c)' /\ (Connecting(c)' => Connecting(c))
         /\ Head(ui).do \in Said \cup {"connected"} => ~Connecting(c)'
<1>1. /\ \A do : Has(ui, do) <=> (Has(ui', do) \/ Head(ui).do = do)
      /\ \A do : One(ui, do) => One(ui', do) /\ (Head(ui).do = do => ~Has(ui', do))
      /\ \A a, b : Before(ui, a, b) => Before(ui', a, b) /\ (Head(ui).do = b => ~Has(ui, a) /\ ~Has(ui', a))
  BY RunnablesTail
<1>2. RoomFirst(c)'
  BY <1>1 DEF RoomFirst
<1>3. Connecting(c)' => Connecting(c)
  BY <1>1 DEF Connecting
<1>4. Head(ui).do \in Said \cup {"connected"} => ~Connecting(c)'
  BY <1>1 DEF RoomFirst, Connecting
<1> QED BY <1>2, <1>3, <1>4

LEMMA RoomFirstMore ==
  ASSUME Types, NEW c \in Calls, RoomFirst(c), NEW e \in EventType, ui' = ui \o <<e>>,
         room'[c].connected = room[c].connected, e.do # "connected",
         e.do \in Said => room[c].connected
  PROVE  RoomFirst(c)' /\ (Connecting(c)' => Connecting(c))
<1>1. /\ \A d : Has(ui', d) <=> (Has(ui, d) \/ d = e.do)
      /\ \A d : One(ui, d) /\ (d = e.do => ~Has(ui, d)) => One(ui', d)
      /\ \A a, b : a # b /\ Before(ui, a, b) /\ (a = e.do => ~Has(ui, b)) => Before(ui', a, b)
  BY RunnablesMore
<1>2. RoomFirst(c)'
  <2>1. One(ui', "connected") /\ (Has(ui', "connected") => room'[c].connected)
    BY <1>1 DEF RoomFirst
  <2>2. ASSUME NEW do \in Said
        PROVE  (Has(ui', do) => room'[c].connected) /\ Before(ui', "connected", do)
    <3>0. do # "connected"
      BY DEF Said
    <3>1. (Has(ui, do) => room[c].connected) /\ Before(ui, "connected", do)
      BY DEF RoomFirst
    <3>2. Has(ui', do) => room'[c].connected
      BY <1>1, <3>1
    <3>3. Before(ui', "connected", do)
      BY <1>1, <3>0, <3>1
    <3> QED BY <3>2, <3>3
  <2> QED BY <2>1, <2>2 DEF RoomFirst
<1>3. Connecting(c)' => Connecting(c)
  BY <1>1 DEF Connecting
<1> QED BY <1>2, <1>3

\* A step that makes no connection and ends none.
LEMMA LifeKeeps ==
  ASSUME NEW c \in Calls, Life(c), ~Unborn(c), act'[c].phase # "none",
         \A d \in {"factory", "create"} : /\ Has(exec', d) => Has(exec, d)
                                          /\ One(exec, d) => One(exec', d)
                                          /\ Before(exec, d, "close") => Before(exec', d, "close"),
         Has(exec, "close") => Has(exec', "close"),
         act'[c].client => /\ act[c].client /\ (Has(exec', "close") => Has(exec, "close"))
                           /\ act'[c].phase \in {"shown", "hidden"},
         act[c].client /\ ~act'[c].client => Has(exec', "close"),
         client'.pc = client.pc, client'.factory = client.factory, client'.events = client.events,
         client'.capturer = client.capturer \/ (act'[c].client /\ ~Connecting(c)'),
         client'.stopped = client.stopped \/ ~Connecting(c)', client'.video = client.video,
         conn'[c].state = conn[c].state,
         conn'[c].state # "open" => conn'[c].operations = <<>>,
         capturing' \subseteq {client'.capturer},
         RoomFirst(c)',
         Connecting(c)' => Connecting(c) /\ \A d \in Started : Has(exec', d) => Has(exec, d)
  PROVE  Life(c)'
<1>1. Owned(c)'
  BY DEF Life, Owned
<1>2. Making(c)'
  BY DEF Life, Making
<1>3. Ending(c)'
  <2>1. ~act'[c].client => Has(exec', "close") \/ Shut'
    BY DEF Life, Ending, Shut, Unborn
  <2> QED BY <2>1 DEF Life, Ending, Unborn
<1>4. ~Unborn(c)'
  BY DEF Unborn
<1>5. Connecting(c)' =>
       /\ client'.capturer = None /\ conn'[c].state = "none" /\ ~client'.stopped
       /\ client'.video /\ \A do \in Started : ~Has(exec', do)
  BY DEF Life
<1> QED BY <1>1, <1>2, <1>3, <1>4, <1>5 DEF Life

\* What a queue of the executor keeps when a task is taken from it.
LEMMA LifeTail ==
  ASSUME Types, NEW c \in Calls, exec # <<>>, exec' = Tail(exec), Head(exec).do \notin {"close"}
  PROVE  /\ \A d \in {"factory", "create"} : /\ Has(exec', d) => Has(exec, d)
                                             /\ One(exec, d) => One(exec', d)
                                             /\ Before(exec, d, "close") => Before(exec', d, "close")
         /\ Has(exec, "close") <=> Has(exec', "close")
         /\ \A d \in Started : Has(exec', d) => Has(exec, d)
BY TasksTail

\* ... and when one is added.
LEMMA LifeMore ==
  ASSUME Types, NEW q, q \in Seq(TaskType), NEW do \in Tasks \ {"factory", "create"}, NEW of \in Nat,
         exec' = q \o <<Task(do, of)>>
  PROVE  /\ \A d \in {"factory", "create"} : /\ Has(exec', d) => Has(q, d)
                                             /\ One(q, d) => One(exec', d)
                                             /\ Before(q, d, "close") => Before(exec', d, "close")
         /\ Has(exec', "close") <=> (Has(q, "close") \/ do = "close")
         /\ \A d \in Started : Has(exec', d) <=> (Has(q, d) \/ do = d)
<1>1. /\ \A d : Has(exec', d) <=> (Has(q, d) \/ d = do)
      /\ \A d : One(q, d) /\ (d = do => ~Has(q, d)) => One(exec', d)
      /\ \A a, b : a # b /\ Before(q, a, b) /\ (a = do => ~Has(q, b)) => Before(exec', a, b)
  BY TaskMore
<1> QED BY <1>1

\* A task of the executor that neither makes nor closes anything.
LEMMA PlainLife ==
  ASSUME Types, NEW c \in Calls, Life(c), exec # <<>>, exec' = Tail(exec),
         Head(exec).do \notin {"factory", "create", "close"}, UNCHANGED <<act, room>>,
         client'.pc = client.pc, client'.factory = client.factory, client'.events = client.events,
         client'.capturer = client.capturer, client'.video = client.video,
         client'.stopped = client.stopped \/ client.capturer # None,
         conn'[c].state = conn[c].state, conn'[c].operations = conn[c].operations \/ client.pc = c,
         capturing' \subseteq {client.capturer},
         ui' = ui \/ \E do \in {"sdp", "ice", "hungUp", "error"} : Heard /\ Tell(do)
  PROVE  Life(c)'
<1>1. ~Unborn(c) /\ act[c].phase # "none"
  BY DEF Life, Unborn
<1>2. RoomFirst(c)' /\ (Connecting(c)' => Connecting(c))
  <2>1. CASE ui' = ui
    BY <2>1 DEF Life, RoomFirst, Connecting
  <2>2. CASE \E do \in {"sdp", "ice", "hungUp", "error"} : Heard /\ Tell(do)
    <3>1. PICK do \in {"sdp", "ice", "hungUp", "error"} : Heard /\ Tell(do)
      BY <2>2
    <3> DEFINE e == Event(client.events, do, None)
    <3>2. ui' = ui \o <<e>> /\ e \in EventType /\ e.do = do
      BY <3>1, TellTypes
    <3>3. e.do # "connected" /\ e.do \notin Said
      BY <3>2 DEF Said
    <3> HIDE DEF e
    <3> QED BY <3>2, <3>3, RoomFirstMore DEF Life
  <2> QED BY <2>1, <2>2
<1>3. /\ \A d \in {"factory", "create"} : /\ Has(exec', d) => Has(exec, d)
                                          /\ One(exec, d) => One(exec', d)
                                          /\ Before(exec, d, "close") => Before(exec', d, "close")
      /\ Has(exec, "close") <=> Has(exec', "close")
      /\ \A d \in Started : Has(exec', d) => Has(exec, d)
  BY LifeTail
<1>4. act[c].client => act[c].phase \in {"shown", "hidden"}
  BY DEF Life, Ending
<1>5. conn'[c].state # "open" => conn'[c].operations = <<>>
  BY DEF Life, Owned
<1>6. client.capturer # None => ~Connecting(c)'
  BY <1>2 DEF Life
<1> QED BY <1>1, <1>2, <1>3, <1>4, <1>5, <1>6, LifeKeeps

\* What drainCandidates changes.
LEMMA DrainFields ==
  ASSUME Types, SingleCall, NEW c \in Calls, Usable, DrainCandidates
  PROVE  /\ conn'[c].state = conn[c].state /\ conn'[c].operations = conn[c].operations
         /\ conn'[c].local = conn[c].local /\ conn'[c].remote = conn[c].remote
         /\ conn'[c].added \o client'.queued = conn[c].added \o client.queued
         /\ client'.pc = client.pc /\ client'.factory = client.factory
         /\ client'.events = client.events /\ client'.isError = client.isError
         /\ client'.capturer = client.capturer /\ client'.stopped = client.stopped
         /\ client'.video = client.video
         /\ client'.source = client.source /\ client'.localSdp = client.localSdp
         /\ client'.isInitiator = client.isInitiator
         /\ ~client'.queueing /\ (client.queueing => client'.queued = <<>>)
         /\ ~client.queueing => client' = client /\ conn' = conn
<1>0. /\ client \in ClientType /\ conn \in [Calls -> ConnType] /\ client.pc = c /\ conn[c] \in ConnType
      /\ client.queueing \in BOOLEAN
      /\ client.queued \in Seq(1..MaxCandidates) /\ conn[c].added \in Seq(1..MaxCandidates)
  BY Assumptions DEF Types, ClientType, ConnType, SingleCall, Usable
<1>1. CASE client.queueing
  <2>1. /\ conn' = [conn EXCEPT ![c] = [conn[c] EXCEPT !.added = conn[c].added \o client.queued]]
        /\ client' = [client EXCEPT !.queueing = FALSE, !.queued = <<>>]
    BY <1>0, <1>1 DEF DrainCandidates
  <2>2. /\ conn'[c].state = conn[c].state /\ conn'[c].operations = conn[c].operations
        /\ conn'[c].local = conn[c].local /\ conn'[c].remote = conn[c].remote
        /\ conn'[c].added = conn[c].added \o client.queued
    BY <1>0, <2>1 DEF ConnType
  <2>3. /\ client'.pc = client.pc /\ client'.factory = client.factory
        /\ client'.events = client.events /\ client'.isError = client.isError
        /\ client'.capturer = client.capturer /\ client'.stopped = client.stopped
        /\ client'.video = client.video
        /\ client'.source = client.source /\ client'.localSdp = client.localSdp
        /\ client'.isInitiator = client.isInitiator
        /\ client'.queueing = FALSE /\ client'.queued = <<>>
    BY <1>0, <2>1 DEF ClientType
  <2> DEFINE got == conn[c].added \o client.queued
  <2>4. got \in Seq(1..MaxCandidates)
    BY <1>0
  <2> HIDE DEF got
  <2>5. got \o <<>> = got
    BY <2>4
  <2> QED BY <1>1, <2>2, <2>3, <2>5 DEF got
<1>2. CASE ~client.queueing
  <2>1. client' = client /\ conn' = conn
    BY <1>2 DEF DrainCandidates
  <2> QED BY <1>2, <2>1
<1> QED BY <1>0, <1>1, <1>2

LEMMA ExecLife ==
  ASSUME Types, SingleCall, NEW c \in Calls, Life(c), ExecutorTask
  PROVE  Life(c)'
<1>0. /\ client \in ClientType /\ conn \in [Calls -> ConnType] /\ capturing \in SUBSET Calls
      /\ client.pc \in {c, None} /\ client.capturer \in {c, None} /\ c # None
      /\ conn[c] \in ConnType
  BY Assumptions DEF Types, ClientType, SingleCall
<1>1. Usable => client.pc = c
  BY <1>0 DEF Usable
<1>2. \A o : Usable /\ Ask(o) =>
        conn'[c].state = conn[c].state /\ conn'[c].local = conn[c].local
          /\ conn'[c].remote = conn[c].remote /\ conn'[c].added = conn[c].added
          /\ conn'[c].operations = Append(conn[c].operations, o)
  BY <1>0, <1>1 DEF Ask, ConnType
<1>3. Usable /\ DrainCandidates =>
        /\ conn'[c].state = conn[c].state /\ conn'[c].operations = conn[c].operations
        /\ client'.pc = client.pc /\ client'.factory = client.factory /\ client'.events = client.events
        /\ client'.capturer = client.capturer /\ client'.stopped = client.stopped
        /\ client'.video = client.video
  BY <1>0, <1>1, DrainFields
<1>4. capturing \subseteq {client.capturer}
  BY DEF Life, Owned
<1>5. CASE CreateFactory
  <2>1. exec # <<>> /\ Head(exec).do = "factory" /\ exec' = Tail(exec) /\ act' = act /\ room' = room
          /\ conn' = conn /\ capturing' = capturing /\ ui' = ui
    BY <1>5, TaskRuns DEF CreateFactory, Done, Tasks, appVars
  <2>2. client'.pc = client.pc /\ client'.factory /\ client'.events = client.events
          /\ client'.capturer = client.capturer /\ client'.stopped = client.stopped
          /\ client'.video = client.video
    BY <1>0, <1>5 DEF CreateFactory, ClientType
  <2>3. /\ \A do : Has(exec, do) <=> (Has(Tail(exec), do) \/ Head(exec).do = do)
        /\ \A do : One(exec, do) => One(Tail(exec), do) /\ (Head(exec).do = do => ~Has(Tail(exec), do))
        /\ \A a, b : Before(exec, a, b) => Before(Tail(exec), a, b)
    BY <2>1, TasksTail
  <2>4. Has(exec, "factory") /\ ~Has(exec', "factory")
    BY <2>1, <2>3 DEF Life, Making
  <2>5. ~Unborn(c) /\ ~Unborn(c)'
    BY <2>1 DEF Life, Unborn
  <2>6. Owned(c)'
    BY <2>1, <2>2, <2>4 DEF Life, Owned, Making
  <2>7. Making(c)'
    BY <2>1, <2>2, <2>3, <2>4 DEF Life, Making
  <2>8. Ending(c)'
    BY <2>1, <2>2, <2>3, <2>4, <2>5 DEF Life, Ending, Shut
  <2>9. RoomFirst(c)' /\ (Connecting(c)' => Connecting(c))
    BY <2>1 DEF Life, RoomFirst, Connecting
  <2> QED BY <2>1, <2>2, <2>3, <2>5, <2>6, <2>7, <2>8, <2>9 DEF Life
<1>6. CASE CreatePeerConnection
  <2>1. exec # <<>> /\ Head(exec).do = "create" /\ act' = act /\ room' = room /\ ui' = ui
          /\ Head(exec).of \in Calls
    BY <1>6, TaskRuns DEF CreatePeerConnection, Tasks, appVars
  <2>2. Head(exec).of = c
    BY <2>1 DEF SingleCall
  <2>3. exec' = Tail(exec)
    BY <1>6 DEF CreatePeerConnection, Done
  <2>4. /\ \A do : Has(exec, do) <=> (Has(Tail(exec), do) \/ Head(exec).do = do)
        /\ \A do : One(exec, do) => One(Tail(exec), do) /\ (Head(exec).do = do => ~Has(Tail(exec), do))
        /\ \A a, b : Before(exec, a, b) => Before(Tail(exec), a, b)
        /\ Tail(exec) \in Seq(TaskType)
    BY <2>1, TasksTail
  <2>5. Has(exec, "create") /\ ~Has(Tail(exec), "create")
    BY <2>1, <2>4 DEF Life, Making
  <2>6. /\ \A d \in {"factory", "create"} : /\ Has(exec', d) => Has(Tail(exec), d)
                                            /\ One(Tail(exec), d) => One(exec', d)
                                            /\ Before(Tail(exec), d, "close") => Before(exec', d, "close")
        /\ Has(exec', "close") <=> Has(Tail(exec), "close")
        /\ \A d \in Started : Has(exec', d) => Has(Tail(exec), d)
    BY <2>3
  <2>7. ~Unborn(c) /\ ~Unborn(c)' /\ ~Connecting(c) /\ ~Connecting(c)'
    BY <2>1, <2>5 DEF Life, Unborn, Connecting, Started
  <2>8. CASE ~client.factory \/ client.isError
    <3>1. /\ client'.pc = client.pc /\ client'.factory = client.factory
          /\ client'.events = client.events /\ client'.capturer = client.capturer
          /\ conn' = conn /\ capturing' = capturing
      BY <1>0, <1>6, <2>8 DEF CreatePeerConnection, ClientType
    <3>2. Owned(c)' /\ RoomFirst(c)'
      BY <2>1, <3>1 DEF Life, Owned, RoomFirst
    <3>3. Making(c)'
      BY <2>1, <2>4, <2>5, <2>6, <3>1 DEF Life, Making
    <3>4. Ending(c)'
      BY <2>1, <2>4, <2>6, <2>7, <3>1 DEF Life, Ending, Shut
    <3> QED BY <2>7, <3>2, <3>3, <3>4 DEF Life
  <2>9. CASE client.factory /\ ~client.isError
    <3>1. /\ conn' = [conn EXCEPT ![c].state = "open"]
          /\ \E video, source \in BOOLEAN :
               client' = [client EXCEPT !.pc = c, !.queueing = TRUE, !.queued = <<>>,
                             !.isInitiator = FALSE, !.video = video, !.source = source]
          /\ capturing' \subseteq {client.capturer}
      BY <1>0, <1>4, <1>6, <2>2, <2>9 DEF CreatePeerConnection, ClientType
    <3>2. client'.pc = c /\ client'.factory = client.factory /\ client'.events = client.events
            /\ client'.capturer = client.capturer /\ client'.stopped = client.stopped
      BY <1>0, <3>1 DEF ClientType
    <3>3. conn'[c].state = "open"
      BY <1>0, <3>1 DEF ConnType
    <3>4. Owned(c)'
      BY <2>9, <3>1, <3>2, <3>3 DEF Life, Owned
    <3>5. RoomFirst(c)'
      BY <2>1 DEF Life, RoomFirst
    <3>6. Making(c)'
      BY <2>1, <2>4, <2>5, <2>6, <2>9, <3>2, <3>3 DEF Life, Making
    <3>7. Ending(c)'
      BY <2>1, <2>4, <2>6, <2>7, <2>9, <3>2 DEF Life, Ending, Shut
    <3> QED BY <2>7, <3>4, <3>5, <3>6, <3>7 DEF Life
  <2> QED BY <1>0, <2>8, <2>9 DEF ClientType
<1>7. CASE CreateOffer \/ CreateAnswer
  <2>1. exec # <<>> /\ Head(exec).do \in {"offer", "answer"} /\ exec' = Tail(exec)
          /\ UNCHANGED <<act, room, capturing, ui>>
    BY <1>7 DEF CreateOffer, CreateAnswer, Running, Done, appVars
  <2>2. client'.pc = client.pc /\ client'.factory = client.factory /\ client'.events = client.events
          /\ client'.capturer = client.capturer /\ client'.stopped = client.stopped
          /\ client'.video = client.video
    BY <1>0, <1>7 DEF CreateOffer, CreateAnswer, ClientType
  <2>3. conn'[c].state = conn[c].state /\ (conn'[c].operations = conn[c].operations \/ client.pc = c)
    BY <1>1, <1>2, <1>7 DEF CreateOffer, CreateAnswer
  <2> QED BY <1>4, <2>1, <2>2, <2>3, PlainLife
<1>8. CASE SetDescription
  <2>1. exec # <<>> /\ Head(exec).do \in {"setRemote", "setLocal"} /\ exec' = Tail(exec)
          /\ UNCHANGED <<act, room, capturing, ui, client>>
    BY <1>8 DEF SetDescription, Running, Done, appVars
  <2>3. conn'[c].state = conn[c].state /\ (conn'[c].operations = conn[c].operations \/ client.pc = c)
    BY <1>1, <1>2, <1>8 DEF SetDescription
  <2> QED BY <1>4, <2>1, <2>3, PlainLife
<1>9. CASE AddCandidate
  <2>1. exec # <<>> /\ Head(exec).do = "candidate" /\ exec' = Tail(exec)
          /\ UNCHANGED <<act, room, capturing, ui>>
    BY <1>9 DEF AddCandidate, Running, Done, appVars
  <2>2. client'.pc = client.pc /\ client'.factory = client.factory /\ client'.events = client.events
          /\ client'.capturer = client.capturer /\ client'.stopped = client.stopped
          /\ client'.video = client.video
    BY <1>0, <1>9 DEF AddCandidate, ClientType
  <2>3. conn'[c].state = conn[c].state /\ conn'[c].operations = conn[c].operations
    <3> DEFINE n == Head(exec).of
    <3> HIDE DEF n
    <3>1. conn' = conn \/ (client.pc = c /\ conn' = [conn EXCEPT ![c].added = Append(@, n)])
      BY <1>1, <1>9 DEF AddCandidate, n
    <3>2. CASE conn' = conn
      BY <3>2
    <3>3. CASE client.pc = c /\ conn' = [conn EXCEPT ![c].added = Append(@, n)]
      BY <1>0, <3>3 DEF ConnType
    <3> QED BY <3>1, <3>2, <3>3
  <2> QED BY <1>4, <2>1, <2>2, <2>3, PlainLife
<1>10. CASE RemoveCandidates
  <2>1. exec # <<>> /\ Head(exec).do = "remove" /\ exec' = Tail(exec)
          /\ UNCHANGED <<act, room, capturing, ui>>
    BY <1>10 DEF RemoveCandidates, Running, Done, appVars
  <2> QED BY <1>3, <1>4, <1>10, <2>1, PlainLife DEF RemoveCandidates
<1>11. CASE SetSuccess
  <2>1. exec # <<>> /\ Head(exec).do = "setDone" /\ exec' = Tail(exec)
          /\ UNCHANGED <<act, room, capturing>>
    BY <1>11, SuccessCases DEF Running, appVars
  <2>2. (client' = client /\ conn' = conn) \/ (Usable /\ DrainCandidates)
    BY <1>11, SuccessCases
  <2>3. ui' = ui \/ (Heard /\ Tell("sdp"))
    BY <1>11, SuccessCases DEF NobodyHears
  <2> QED BY <1>3, <1>4, <2>1, <2>2, <2>3, PlainLife
<1>12. CASE HandleError
  <2>1. exec # <<>> /\ Head(exec).do = "error" /\ exec' = Tail(exec)
          /\ UNCHANGED <<act, room, capturing, conn>>
    BY <1>12 DEF HandleError, Running, Done, appVars
  <2>2. client'.pc = client.pc /\ client'.factory = client.factory /\ client'.events = client.events
          /\ client'.capturer = client.capturer /\ client'.stopped = client.stopped
          /\ client'.video = client.video
    BY <1>0, <1>12 DEF HandleError, ClientType
  <2>3. ui' = ui \/ (Heard /\ Tell("error"))
    BY <1>12 DEF HandleError, NobodyHears
  <2> QED BY <1>4, <2>1, <2>2, <2>3, PlainLife
<1>13. CASE HandleIce
  <2>1. exec # <<>> /\ Head(exec).do \in {"ice", "hungUp"} /\ exec' = Tail(exec)
          /\ UNCHANGED <<act, room, capturing, conn, client>>
    BY <1>13 DEF HandleIce, Running, Done, appVars, callVars
  <2>3. ui' = ui \/ (Heard /\ Tell(Head(exec).do))
    BY <1>13 DEF HandleIce, NobodyHears
  <2> QED BY <1>4, <2>1, <2>3, PlainLife
<1>14. CASE StopVideoSource \/ StartVideoSource
  <2>1. exec # <<>> /\ Head(exec).do \in {"stop", "start"} /\ exec' = Tail(exec)
          /\ UNCHANGED <<act, room, conn, ui>>
    BY <1>14 DEF StopVideoSource, StartVideoSource, Running, Done, appVars
  <2>2. client'.pc = client.pc /\ client'.factory = client.factory /\ client'.events = client.events
          /\ client'.capturer = client.capturer /\ client'.video = client.video
          /\ (client'.stopped = client.stopped \/ client.capturer # None)
          /\ capturing' \subseteq {client.capturer}
    BY <1>0, <1>4, <1>14 DEF StopVideoSource, StartVideoSource, ClientType
  <2> QED BY <2>1, <2>2, PlainLife
<1>15. CASE CloseInternal
  <2>1. exec # <<>> /\ Head(exec).do = "close" /\ exec' = Tail(exec) /\ UNCHANGED <<act, room, ui>>
    BY <1>15 DEF CloseInternal, Running, Done, appVars
  <2>2. client'.pc = None /\ client'.capturer = None /\ ~client'.factory /\ client'.events = None
          /\ client'.stopped = (client.stopped \/ client.capturer # None)
          /\ client'.video = client.video
    BY <1>0, <1>15 DEF CloseInternal, ClientType
  <2>3. conn'[c] = IF c = client.pc THEN [conn[c] EXCEPT !.state = "disposed", !.operations = <<>>]
                   ELSE conn[c]
    BY <1>15 DEF CloseInternal
  <2>4. capturing' = {}
    BY <1>4, <1>15 DEF CloseInternal
  <2>5. /\ \A do : Has(exec, do) <=> (Has(Tail(exec), do) \/ Head(exec).do = do)
        /\ \A do : One(exec, do) => One(Tail(exec), do)
        /\ \A a, b : Before(exec, a, b) => /\ Before(Tail(exec), a, b)
                                           /\ Head(exec).do = b => ~Has(exec, a) /\ ~Has(Tail(exec), a)
    BY <2>1, TasksTail
  <2>6. ~Has(exec', "factory") /\ ~Has(exec', "create") /\ ~act[c].client /\ ~Unborn(c)
    <3>1. Before(exec, "factory", "close") /\ Before(exec, "create", "close")
      BY DEF Life, Making
    <3>2. ~Has(Tail(exec), "factory")
      BY <2>1, <2>5, <3>1
    <3>3. ~Has(Tail(exec), "create")
      BY <2>1, <2>5, <3>1
    <3>4. Has(exec, "close")
      BY <2>1, <2>5
    <3>5. ~act[c].client
      BY <3>4 DEF Life, Ending
    <3>6. ~Unborn(c)
      BY <2>1 DEF Life
    <3> QED BY <2>1, <3>2, <3>3, <3>5, <3>6
  <2>7. conn'[c].state # "open" /\ conn'[c].operations = <<>>
    <3>1. CASE c = client.pc
      BY <1>0, <2>3, <3>1 DEF ConnType
    <3>2. CASE c # client.pc
      BY <2>3, <3>2 DEF Life, Owned
    <3> QED BY <3>1, <3>2
  <2>8. Owned(c)'
    BY <1>0, <2>2, <2>4, <2>7 DEF Owned
  <2>9. Making(c)'
    <3>1. One(exec, "factory") /\ Before(exec, "factory", "close")
            /\ One(exec, "create") /\ Before(exec, "create", "close")
      BY DEF Life, Making
    <3>2. One(exec', "factory") /\ Before(exec', "factory", "close")
      BY <2>1, <2>5, <3>1
    <3>3. One(exec', "create") /\ Before(exec', "create", "close")
      BY <2>1, <2>5, <3>1
    <3> QED BY <2>6, <3>2, <3>3 DEF Making
  <2>10. Ending(c)' /\ ~Unborn(c)'
    BY <2>1, <2>2, <2>6 DEF Ending, Shut, Unborn
  <2>11. RoomFirst(c)' /\ (Connecting(c)' => Connecting(c))
    BY <2>1 DEF Life, RoomFirst, Connecting
  <2>12. Connecting(c)' => conn'[c].state = "none" /\ ~client'.stopped /\ client'.video
    <3>1. Connecting(c) => /\ client.pc # c /\ client.capturer = None /\ conn[c].state = "none"
                           /\ ~client.stopped /\ client.video
      BY <2>6 DEF Life, Owned
    <3> QED BY <2>2, <2>3, <2>11, <3>1
  <2> QED BY <2>1, <2>2, <2>5, <2>8, <2>9, <2>10, <2>11, <2>12 DEF Life
<1> QED BY <1>5, <1>6, <1>7, <1>8, <1>9, <1>10, <1>11, <1>12, <1>13, <1>14, <1>15 DEF ExecutorTask

\* What the tasks of a moment bring.
LEMMA ClosingHas ==
  ASSUME NEW c \in Calls, NEW a
  PROVE  /\ Closing(c) \in Seq(TaskType) /\ ClosedBy(c, a) \in Seq(TaskType)
         /\ \A d : Has(Closing(c), d) <=> d = "close" /\ act[c].client
         /\ \A d : Has(ClosedBy(c, a), d) <=> d = "close" /\ act[c].client /\ ~a.client
<1>1. Closing(c) \in Seq(TaskType) /\ ClosedBy(c, a) \in Seq(TaskType)
  BY ClosingTyped DEF ExecTyped
<1> DEFINE t == Task("close", c)
<1>2. t \in TaskType /\ t.do = "close"
  BY Assumptions DEF Task, TaskType, Tasks
<1> HIDE DEF t
<1>3. \A d : Has(<<t>>, d) <=> d = "close"
  BY <1>2, QueueOne
<1>4. \A d : ~Has(<<>>, d)
  BY QueueNone
<1>5. \A d : Has(Closing(c), d) <=> d = "close" /\ act[c].client
  <2>1. CASE act[c].client
    <3>1. Closing(c) = <<t>>
      BY <2>1 DEF Closing, t
    <3> QED BY <1>3, <2>1, <3>1
  <2>2. CASE ~act[c].client
    <3>1. Closing(c) = <<>>
      BY <2>2 DEF Closing
    <3> QED BY <1>4, <2>2, <3>1
  <2> QED BY <2>1, <2>2
<1>6. \A d : Has(ClosedBy(c, a), d) <=> d = "close" /\ act[c].client /\ ~a.client
  <2>1. CASE act[c].client /\ ~a.client
    <3>1. ClosedBy(c, a) = <<t>>
      BY <2>1 DEF ClosedBy, t
    <3> QED BY <1>3, <2>1, <3>1
  <2>2. CASE ~(act[c].client /\ ~a.client)
    <3>1. ClosedBy(c, a) = <<>>
      BY <2>2 DEF ClosedBy
    <3> QED BY <1>4, <2>2, <3>1
  <2> QED BY <2>1, <2>2
<1> QED BY <1>1, <1>5, <1>6

LEMMA OneTask ==
  ASSUME NEW do \in Tasks, NEW of \in Nat
  PROVE  /\ <<Task(do, of)>> \in Seq(TaskType) /\ Task(do, of) \in TaskType
         /\ \A d : Has(<<Task(do, of)>>, d) <=> d = do
         /\ \A d : One(<<Task(do, of)>>, d)
         /\ \A a, b : a # b => Before(<<Task(do, of)>>, a, b)
<1> DEFINE t == Task(do, of)
<1>1. t \in TaskType /\ t.do = do
  BY DEF Task, TaskType
<1> HIDE DEF t
<1>2. /\ <<t>> \in Seq(TaskType) /\ (\A d : Has(<<t>>, d) <=> d = do)
      /\ (\A d : One(<<t>>, d)) /\ (\A a, b : a # b => Before(<<t>>, a, b))
  BY <1>1, QueueOne
<1> QED BY <1>1, <1>2 DEF t

LEMMA ClosingOne ==
  ASSUME NEW c \in Calls
  PROVE  /\ \A d : One(Closing(c), d)
         /\ \A a, d : One(ClosedBy(c, a), d)
<1> DEFINE s == <<Task("close", c)>>
<1>1. (\A d : One(s, d)) /\ (\A d : One(<<>>, d))
  BY Assumptions, OneTask, QueueNone DEF Tasks
<1>2. Closing(c) \in {s, <<>>} /\ \A a : ClosedBy(c, a) \in {s, <<>>}
  BY DEF Closing, ClosedBy
<1> HIDE DEF s
<1> QED BY <1>1, <1>2

\* Two tasks.
LEMMA TwoTasks ==
  ASSUME NEW do \in Tasks, NEW of \in Nat, NEW then \in Tasks, NEW to \in Nat, do # then
  PROVE  /\ <<Task(do, of), Task(then, to)>> \in Seq(TaskType)
         /\ <<Task(do, of), Task(then, to)>> = <<Task(do, of)>> \o <<Task(then, to)>>
         /\ \A d : Has(<<Task(do, of), Task(then, to)>>, d) <=> d \in {do, then}
         /\ \A d : One(<<Task(do, of), Task(then, to)>>, d)
         /\ \A a, b : a # b /\ ~(a = then /\ b = do) => Before(<<Task(do, of), Task(then, to)>>, a, b)
<1> DEFINE t == Task(do, of)
           u == Task(then, to)
<1>1. t \in TaskType /\ t.do = do /\ u \in TaskType /\ u.do = then
  BY DEF Task, TaskType
<1> HIDE DEF t, u
<1>2. <<t, u>> = Append(<<t>>, u) /\ <<t>> \in Seq(TaskType) /\ <<u>> \in Seq(TaskType)
  BY <1>1
<1> DEFINE q == <<t>>
           s == <<u>>
<1>3. /\ (\A d : Has(q, d) <=> d = do) /\ (\A d : One(q, d)) /\ (\A a, b : a # b => Before(q, a, b))
      /\ (\A d : Has(s, d) <=> d = then) /\ (\A d : One(s, d)) /\ (\A a, b : a # b => Before(s, a, b))
  BY <1>1, QueueOne
<1>4. q \in Seq(TaskType) /\ s \in Seq(TaskType)
  BY <1>2
<1> HIDE DEF q
<1>5. Append(q, u) = q \o s
  BY <1>1, <1>4
<1> HIDE DEF s
<1>6. /\ q \o s \in Seq(TaskType) /\ \A d : Has(q \o s, d) <=> d \in {do, then}
  BY <1>3, <1>4, QueueConcat
<1>7. \A d : One(q \o s, d)
  BY <1>3, <1>4, QueueConcat
<1>8. \A a, b : a # b /\ ~(a = then /\ b = do) => Before(q \o s, a, b)
  BY <1>3, <1>4, QueueConcat
<1>9. <<t, u>> = q \o s
  BY <1>2, <1>5 DEF q
<1> QED BY <1>6, <1>7, <1>8, <1>9 DEF t, u, q, s

\* What an activity asks of the executor when the room answers.
LEMMA KeptHas ==
  ASSUME NEW n \in 0..MaxKept
  PROVE  /\ Kept0(n) \in Seq(TaskType) /\ \A d : Has(Kept0(n), d) <=> d = "candidate" /\ n > 0
<1> DEFINE s == Kept0(n)
<1>1. /\ ExecTyped(s) /\ DOMAIN s = 1..n /\ n \in Nat /\ \A i \in 1..n : s[i].do = "candidate"
  BY KeptTyped
<1> HIDE DEF s
<1>2. \A d : Has(s, d) <=> d = "candidate" /\ n > 0
  <2>1. CASE n > 0
    <3>1. 1 \in DOMAIN s
      BY <1>1, <2>1
    <3> QED BY <1>1, <2>1, <3>1 DEF Has
  <2>2. CASE ~(n > 0)
    <3>1. DOMAIN s = {}
      BY <1>1, <2>2
    <3> QED BY <2>2, <3>1 DEF Has
  <2> QED BY <2>1, <2>2
<1> QED BY <1>1, <1>2 DEF s, ExecTyped

\* The tasks of the one who answers.
LEMMA AnswerHas ==
  ASSUME NEW c \in Calls
  PROVE  /\ <<Task("setRemote", c), Task("answer", c)>> \in Seq(TaskType)
         /\ \A d : Has(<<Task("setRemote", c), Task("answer", c)>>, d) <=> d \in {"setRemote", "answer"}
         /\ \A d : One(<<Task("setRemote", c), Task("answer", c)>>, d)
<1>1. c \in Nat
  BY Assumptions
<1>2. "setRemote" \in Tasks /\ "answer" \in Tasks /\ "setRemote" # "answer"
  BY DEF Tasks
<1> DEFINE set == "setRemote"
           then == "answer"
           s == <<Task(set, c), Task(then, c)>>
<1> HIDE DEF set, then
<1>3. s \in Seq(TaskType) /\ (\A d : Has(s, d) <=> d \in {set, then}) /\ (\A d : One(s, d))
  BY <1>1, <1>2, TwoTasks DEF set, then
<1> QED BY <1>3 DEF set, then

\* The tasks of a call that begins.
LEMMA StartHas ==
  ASSUME NEW c \in Calls
  PROVE  /\ <<Task("factory", c), Task("start", c)>> \in Seq(TaskType)
         /\ \A d : Has(<<Task("factory", c), Task("start", c)>>, d) <=> d \in {"factory", "start"}
         /\ \A d : One(<<Task("factory", c), Task("start", c)>>, d)
<1>1. c \in Nat
  BY Assumptions
<1>2. "factory" \in Tasks /\ "start" \in Tasks /\ "factory" # "start"
  BY DEF Tasks
<1> DEFINE make == "factory"
           then == "start"
           s == <<Task(make, c), Task(then, c)>>
<1> HIDE DEF make, then
<1>3. s \in Seq(TaskType) /\ (\A d : Has(s, d) <=> d \in {make, then}) /\ (\A d : One(s, d))
  BY <1>1, <1>2, TwoTasks DEF make, then
<1> QED BY <1>3 DEF make, then

LEMMA FirstHas ==
  ASSUME NEW c \in Calls
  PROVE  /\ First(c) \in Seq(TaskType)
         /\ \A d : Has(First(c), d) <=> \/ d = "offer" /\ room[c].role = "initiator"
                                        \/ d \in {"setRemote", "answer"} /\ room[c].role = "offered"
         /\ \A d : One(First(c), d)
<1>1. c \in Nat
  BY Assumptions
<1>2. CASE room[c].role = "initiator"
  <2>1. First(c) = <<Task("offer", c)>>
    BY <1>2 DEF First
  <2> QED BY <1>1, <1>2, <2>1, OneTask DEF Tasks
<1>3. CASE room[c].role = "offered"
  <2>1. First(c) = <<Task("setRemote", c), Task("answer", c)>>
    BY <1>3 DEF First
  <2> QED BY <1>3, <2>1, AnswerHas
<1>4. CASE room[c].role \notin {"initiator", "offered"}
  <2>1. First(c) = <<>>
    BY <1>4 DEF First
  <2> QED BY <1>4, <2>1, QueueNone
<1> QED BY <1>2, <1>3, <1>4

LEMMA AsksHas ==
  ASSUME NEW c \in Calls, NEW n \in 0..MaxKept
  PROVE  /\ Asks(c, n) \in Seq(TaskType)
         /\ \A d : Has(Asks(c, n), d) <=> \/ d = "create"
                                          \/ d = "offer" /\ room[c].role = "initiator"
                                          \/ d \in {"setRemote", "answer"} /\ room[c].role = "offered"
                                          \/ d = "candidate" /\ n > 0
         /\ \A d : d # "candidate" => One(Asks(c, n), d)
         /\ \A d : d # "create" => Before(Asks(c, n), "create", d)
<1> DEFINE p == <<Task("create", c)>>
           f == First(c)
           s == Kept0(n)
           r == p \o f
<1>1. /\ p \in Seq(TaskType) /\ (\A d : Has(p, d) <=> d = "create")
      /\ (\A d : One(p, d)) /\ (\A a, b : a # b => Before(p, a, b))
  BY Assumptions, OneTask DEF Tasks
<1>2. /\ f \in Seq(TaskType) /\ (\A d : One(f, d))
      /\ (\A d : Has(f, d) <=> \/ d = "offer" /\ room[c].role = "initiator"
                               \/ d \in {"setRemote", "answer"} /\ room[c].role = "offered")
  BY FirstHas
<1>3. s \in Seq(TaskType) /\ (\A d : Has(s, d) <=> d = "candidate" /\ n > 0)
  BY KeptHas
<1> HIDE DEF p, f, s
<1>4. /\ r \in Seq(TaskType) /\ (\A d : Has(r, d) <=> (Has(p, d) \/ Has(f, d)))
      /\ (\A d : One(r, d))
  BY <1>1, <1>2, QueueConcat
<1>5. ASSUME NEW q, NEW d, ~Has(q, "create") PROVE Before(q, "create", d)
  BY <1>5 DEF Before, Has
<1>6. ASSUME NEW d, d # "create" PROVE Before(r, "create", d)
  <2>1. Before(p, "create", d) /\ Before(f, "create", d) /\ ~Has(f, "create")
    BY <1>1, <1>2, <1>5, <1>6
  <2> QED BY <1>1, <1>2, <2>1, QueueConcat
<1> HIDE DEF r
<1>7. /\ r \o s \in Seq(TaskType) /\ (\A d : Has(r \o s, d) <=> (Has(r, d) \/ Has(s, d)))
  BY <1>3, <1>4, QueueConcat
<1>8. ASSUME NEW q, NEW d, ~Has(q, d) PROVE One(q, d)
  BY <1>8 DEF One, Has
<1>9. ASSUME NEW d, d # "candidate" PROVE One(r \o s, d)
  <2>1. One(r, d) /\ One(s, d) /\ ~Has(s, d)
    BY <1>3, <1>4, <1>8, <1>9
  <2> QED BY <1>3, <1>4, <2>1, QueueConcat
<1>10. ASSUME NEW d, d # "create" PROVE Before(r \o s, "create", d)
  <2>1. Before(r, "create", d) /\ Before(s, "create", d) /\ ~Has(s, "create")
    BY <1>3, <1>5, <1>6, <1>10
  <2> QED BY <1>3, <1>4, <2>1, QueueConcat
<1>11. Asks(c, n) = r \o s
  BY DEF Asks, r, p, f, s
<1>12. \A d : Has(r \o s, d) <=> \/ d = "create"
                                 \/ d = "offer" /\ room[c].role = "initiator"
                                 \/ d \in {"setRemote", "answer"} /\ room[c].role = "offered"
                                 \/ d = "candidate" /\ n > 0
  BY <1>1, <1>2, <1>3, <1>4, <1>7
<1> QED BY <1>7, <1>9, <1>10, <1>11, <1>12

\* A step that may put tasks at the end of the queue of the executor, and end the call.
LEMMA ActLife ==
  ASSUME Types, NEW c \in Calls, Life(c), act[c].phase # "none", NEW s \in Seq(TaskType),
         exec' = exec \o s, ~Has(s, "factory"), ~Has(s, "create"), act'[c].phase # "none",
         act'[c].client => act[c].client /\ ~Has(s, "close") /\ act'[c].phase \in {"shown", "hidden"},
         act[c].client /\ ~act'[c].client => Has(s, "close"),
         UNCHANGED <<client, conn, capturing>>, RoomFirst(c)',
         Connecting(c)' => Connecting(c) /\ \A d \in Started : ~Has(s, d)
  PROVE  Life(c)'
<1>1. exec \in Seq(TaskType)
  BY DEF Types, ExecTyped
<1>2. /\ \A d : Has(exec', d) <=> (Has(exec, d) \/ Has(s, d))
      /\ \A d : One(exec, d) /\ One(s, d) /\ (Has(s, d) => ~Has(exec, d)) => One(exec', d)
      /\ \A a, b : Before(exec, a, b) /\ Before(s, a, b) /\ (Has(s, a) => ~Has(exec, b)) =>
           Before(exec', a, b)
  BY <1>1, QueueConcat
<1>3. /\ One(s, "factory") /\ One(s, "create")
      /\ Before(s, "factory", "close") /\ Before(s, "create", "close")
  BY DEF One, Before, Has
<1>4. \A d \in {"factory", "create"} : /\ Has(exec', d) => Has(exec, d)
                                       /\ One(exec, d) => One(exec', d)
                                       /\ Before(exec, d, "close") => Before(exec', d, "close")
  BY <1>2, <1>3
<1>5. ~Unborn(c)
  BY DEF Unborn
<1>6. capturing' \subseteq {client'.capturer} /\ (conn'[c].state # "open" => conn'[c].operations = <<>>)
  BY DEF Life, Owned
<1> QED BY <1>2, <1>4, <1>5, <1>6, LifeKeeps

LEMMA ActFields ==
  ASSUME NEW a \in ActType
  PROVE  /\ Disconnected(a).phase = a.phase /\ ~Disconnected(a).client /\ Disconnected(a).finishing
         /\ ~Disconnected(a).room /\ Disconnected(a).role = a.role /\ Disconnected(a).early = a.early
         /\ Reported(a).phase = a.phase /\ (Reported(a).client => a.client)
         /\ (Reported(a).room => a.room) /\ Reported(a).role = a.role /\ Reported(a).early = a.early
<1>1. /\ Disconnected(a).phase = a.phase /\ ~Disconnected(a).client /\ Disconnected(a).finishing
      /\ ~Disconnected(a).room /\ Disconnected(a).role = a.role /\ Disconnected(a).early = a.early
  BY DEF Disconnected, ActType
<1>2. Disconnected(a) \in ActType
  BY ActChanges
<1>3. CASE a.isError
  BY <1>1, <1>3 DEF Reported
<1>4. CASE ~a.isError /\ a.running
  <2>1. Reported(a) = [a EXCEPT !.isError = TRUE, !.dialog = TRUE]
    BY <1>4 DEF Reported
  <2> QED BY <1>1, <2>1 DEF ActType
<1>5. CASE ~a.isError /\ ~a.running
  <2> DEFINE b == Disconnected(a)
  <2>1. Reported(a) = [b EXCEPT !.isError = TRUE]
    BY <1>5 DEF Reported
  <2> HIDE DEF b
  <2>2. b \in ActType
    BY <1>2 DEF b
  <2>3. /\ Reported(a).phase = b.phase /\ Reported(a).client = b.client
        /\ Reported(a).room = b.room /\ Reported(a).role = b.role /\ Reported(a).early = b.early
    BY <2>1, <2>2 DEF ActType
  <2> QED BY <1>1, <2>3 DEF b
<1> QED BY <1>3, <1>4, <1>5

\* The activity after onConnectedToRoomInternal.
Answered(c, camera) ==
  [IF camera THEN act[c] ELSE Reported(act[c]) EXCEPT !.role = room[c].role]

LEMMA AnsweredFields ==
  ASSUME Types, NEW c \in Calls, NEW camera \in BOOLEAN
  PROVE  /\ Answered(c, camera) \in ActType /\ Answered(c, camera).phase = act[c].phase
         /\ (Answered(c, camera).client => act[c].client) /\ (Answered(c, camera).room => act[c].room)
         /\ Answered(c, camera).role = room[c].role /\ Answered(c, camera).early = act[c].early
<1> DEFINE m == IF camera THEN act[c] ELSE Reported(act[c])
<1>1. act[c] \in ActType /\ room[c].role \in Roles \cup {"none"}
  BY DEF Types, RoomType
<1>2. m \in ActType /\ m.phase = act[c].phase /\ (m.client => act[c].client)
        /\ (m.room => act[c].room) /\ m.early = act[c].early
  <2>1. CASE camera
    BY <1>1, <2>1
  <2>2. CASE ~camera
    BY <1>1, <2>2, ActFields, ActChanges
  <2> QED BY <2>1, <2>2
<1>3. Answered(c, camera) = [m EXCEPT !.role = room[c].role]
  BY DEF Answered
<1> HIDE DEF m
<1> QED BY <1>1, <1>2, <1>3 DEF ActType

\* The UI thread takes a runnable of the call.
LEMMA UiTakes ==
  ASSUME Types, SingleCall, NEW c \in Calls, Life(c), ui # <<>>, ui' = Tail(ui), UNCHANGED room
  PROVE  /\ Head(ui).call = c /\ Head(ui).do \in Events /\ Head(ui).of \in 0..MaxCandidates
         /\ act[c].phase # "none" /\ act[c] \in ActType
         /\ RoomFirst(c)' /\ (Connecting(c)' => Connecting(c))
         /\ Head(ui).do \in Said \cup {"connected"} => ~Connecting(c)'
         /\ Head(ui).do = "connected" => Connecting(c)
         /\ act[c].client => act[c].phase \in {"shown", "hidden"}
<1>1. Head(ui).call \in Calls /\ Head(ui).do \in Events /\ Head(ui).of \in 0..MaxCandidates
  BY UiTail DEF Types
<1>2. Head(ui).call = c
  BY <1>1 DEF SingleCall
<1>3. act[c].phase # "none" /\ act[c] \in ActType
  BY DEF Life, Unborn, Types
<1>4. RoomFirst(c) /\ (act[c].client => act[c].phase \in {"shown", "hidden"})
  BY DEF Life, Ending
<1>5. Has(ui, Head(ui).do)
  BY RunnablesTail
<1>6. Head(ui).do = "connected" => Connecting(c)
  BY <1>5 DEF Connecting
<1> QED BY <1>1, <1>2, <1>3, <1>4, <1>6, RoomFirstTail

\* onConnectedToRoomInternal asks for the connection.
LEMMA ConnectedLife ==
  ASSUME Types, SingleCall, NEW c \in Calls, Life(c), OnConnected
  PROVE  Life(c)'
<1> DEFINE n == Head(ui).of
<1>1. /\ ui # <<>> /\ Head(ui).do = "connected" /\ ui' = Tail(ui) /\ n \in 0..MaxKept
      /\ UNCHANGED <<conn, capturing, room, wire, faults, moves>>
  BY ConnectedCases
<1>2. /\ Head(ui).call = c /\ act[c].phase # "none" /\ act[c] \in ActType
      /\ RoomFirst(c)' /\ Connecting(c) /\ ~Connecting(c)'
      /\ act[c].client => act[c].phase \in {"shown", "hidden"}
  BY <1>1, UiTakes
<1>3. PICK camera \in BOOLEAN, a \in ActType :
        /\ a = Answered(c, camera)
        /\ \/ /\ a.client
              /\ act' = [act EXCEPT ![c] = [a EXCEPT !.early =
                   a.phase # "shown" \/ \E i \in 1..Len(exec) : exec[i].do = "stop"]]
              /\ client' = [client EXCEPT !.capturer = IF camera THEN c ELSE None]
              /\ exec' = exec \o Asks(c, n) /\ dead' = dead
           \/ /\ ~a.client
              /\ act' = [act EXCEPT ![c] = a]
              /\ exec' = exec \o ClosedBy(c, a) /\ client' = client /\ dead' = TRUE
  BY <1>2, ConnectedCases DEF Answered
<1> HIDE DEF n
<1>4. act \in [Calls -> ActType] /\ client \in ClientType /\ exec \in Seq(TaskType)
        /\ capturing \in SUBSET Calls
  BY DEF Types, ExecTyped
<1>5. CASE a.client
  <2> DEFINE early == a.phase # "shown" \/ \E i \in 1..Len(exec) : exec[i].do = "stop"
             b == [a EXCEPT !.early = early]
  <2>1. /\ act' = [act EXCEPT ![c] = b]
        /\ client' = [client EXCEPT !.capturer = IF camera THEN c ELSE None]
        /\ exec' = exec \o Asks(c, n)
    BY <1>3, <1>5
  <2>2. early \in BOOLEAN
    OBVIOUS
  <2> HIDE DEF early
  <2>3. b \in ActType /\ b.phase = act[c].phase /\ (b.client => act[c].client) /\ b.client = a.client
    <3>1. a.phase = act[c].phase /\ (a.client => act[c].client)
      BY <1>3, AnsweredFields
    <3> QED BY <2>2, <3>1 DEF ActType
  <2> HIDE DEF b
  <2>4. act'[c] = b
    BY <1>4, <2>1
  <2>5. client'.pc = client.pc /\ client'.factory = client.factory /\ client'.events = client.events
          /\ client'.stopped = client.stopped /\ client'.video = client.video
    BY <1>4, <2>1 DEF ClientType
  <2> DEFINE s == Asks(c, n)
  <2>6. /\ s \in Seq(TaskType) /\ ~Has(s, "factory") /\ ~Has(s, "close") /\ Has(s, "create")
        /\ One(s, "create") /\ One(s, "factory")
        /\ Before(s, "create", "close")
    BY <1>1, AsksHas DEF n
  <2>7. Before(s, "factory", "close")
    BY <2>6 DEF Before, Has
  <2> HIDE DEF s
  <2>8. /\ \A d : Has(exec', d) <=> (Has(exec, d) \/ Has(s, d))
        /\ \A d : One(exec, d) /\ One(s, d) /\ (Has(s, d) => ~Has(exec, d)) => One(exec', d)
        /\ \A d, e : Before(exec, d, e) /\ Before(s, d, e) /\ (Has(s, d) => ~Has(exec, e)) =>
             Before(exec', d, e)
    BY <1>4, <2>1, <2>6, QueueConcat DEF s
  <2>9. /\ client.capturer = None /\ conn[c].state = "none" /\ ~client.stopped /\ ~Has(exec, "create")
        /\ act[c].client /\ client.events = c /\ ~Has(exec, "close") /\ client.video
    <3>1. act[c].client
      BY <1>5, <2>3
    <3> QED BY <1>2, <3>1 DEF Life, Ending, Started, Unborn
  <2>10. capturing = {}
    BY <1>4, <2>9, Assumptions DEF Life, Owned
  <2>11. Owned(c)'
    BY <1>1, <2>5, <2>10 DEF Life, Owned
  <2>12. Making(c)'
    <3>1. One(exec, "factory") /\ Before(exec, "factory", "close") /\ One(exec, "create")
            /\ Before(exec, "create", "close")
            /\ (Has(exec, "factory") => ~client.factory /\ client.events = c)
      BY DEF Life, Making
    <3>2. One(exec', "factory") /\ Before(exec', "factory", "close")
      BY <2>6, <2>7, <2>8, <3>1
    <3>3. One(exec', "create") /\ Before(exec', "create", "close")
      BY <2>6, <2>8, <2>9, <3>1
    <3>4. Has(exec', "factory") => ~client'.factory /\ client'.events = c
      BY <2>5, <2>6, <2>8, <3>1
    <3> QED BY <1>1, <2>5, <2>9, <3>2, <3>3, <3>4 DEF Making
  <2>13. Ending(c)' /\ ~Unborn(c)'
    <3>1. act'[c].client /\ client'.events = c /\ ~Has(exec', "close") /\ act'[c].phase = act[c].phase
      BY <1>5, <2>3, <2>4, <2>5, <2>6, <2>8, <2>9
    <3> QED BY <1>2, <2>9, <3>1 DEF Ending, Unborn
  <2> QED BY <1>2, <2>11, <2>12, <2>13 DEF Life
<1>6. CASE ~a.client
  <2>1. act' = [act EXCEPT ![c] = a] /\ exec' = exec \o ClosedBy(c, a) /\ client' = client
    BY <1>3, <1>6
  <2>2. act'[c] = a
    BY <1>4, <2>1
  <2>3. a.phase = act[c].phase
    BY <1>3, AnsweredFields
  <2> DEFINE s == ClosedBy(c, a)
  <2>4. s \in Seq(TaskType) /\ \A d : Has(s, d) <=> d = "close" /\ act[c].client /\ ~a.client
    BY ClosingHas
  <2> HIDE DEF s
  <2>5. exec' = exec \o s
    BY <2>1 DEF s
  <2>6. /\ ~Has(s, "factory") /\ ~Has(s, "create") /\ (act[c].client => Has(s, "close"))
        /\ UNCHANGED <<client, conn, capturing>> /\ ~act'[c].client /\ act'[c].phase # "none"
    BY <1>1, <1>2, <1>6, <2>1, <2>2, <2>3, <2>4
  <2> QED BY <1>2, <2>4, <2>5, <2>6, ActLife
<1> QED BY <1>5, <1>6

LEMMA UiLife ==
  ASSUME Types, SingleCall, NEW c \in Calls, Life(c), UiTask
  PROVE  Life(c)'
<1>0. act \in [Calls -> ActType] /\ act[c] \in ActType /\ exec \in Seq(TaskType)
  BY DEF Types, ExecTyped
<1>1. CASE OnConnected
  BY <1>1, ConnectedLife
<1>2. CASE OnDescription \/ OnCandidate
  <2>1. /\ ui # <<>> /\ ui' = Tail(ui) /\ Head(ui).do \in Said
        /\ UNCHANGED <<act, room, client, conn, capturing>>
    BY <1>2 DEF OnDescription, OnCandidate, Handling, Said, appVars, callVars
  <2>2. /\ Head(ui).call = c /\ act[c].phase # "none" /\ RoomFirst(c)' /\ ~Connecting(c)'
        /\ act[c].client => act[c].phase \in {"shown", "hidden"}
    BY <2>1, UiTakes
  <2>3. PICK s \in Seq(TaskType) :
          exec' = exec \o s /\ ~Has(s, "factory") /\ ~Has(s, "create") /\ ~Has(s, "close")
    <3>1. CASE OnDescription
      <4>1. \/ exec' = exec \o <<>> \/ exec' = exec \o <<Task("setRemote", c)>>
            \/ exec' = exec \o <<Task("setRemote", c), Task("answer", c)>>
        BY <2>2, <3>1 DEF OnDescription, Execute
      <4>2. <<>> \in Seq(TaskType) /\ \A d : ~Has(<<>>, d)
        BY QueueNone
      <4> DEFINE s == <<Task("setRemote", c)>>
                 t == <<Task("setRemote", c), Task("answer", c)>>
      <4>3. s \in Seq(TaskType) /\ \A d : Has(s, d) <=> d = "setRemote"
        BY Assumptions, OneTask DEF Tasks
      <4>4. t \in Seq(TaskType) /\ \A d : Has(t, d) <=> d \in {"setRemote", "answer"}
        BY AnswerHas
      <4> HIDE DEF s, t
      <4>5. exec' = exec \o <<>> \/ exec' = exec \o s \/ exec' = exec \o t
        BY <4>1 DEF s, t
      <4>6. CASE exec' = exec \o <<>>
        BY <4>2, <4>6
      <4>7. CASE exec' = exec \o s
        BY <4>3, <4>7
      <4>8. CASE exec' = exec \o t
        <5>1. ~Has(t, "factory") /\ ~Has(t, "create") /\ ~Has(t, "close")
          BY <4>4
        <5> QED BY <4>4, <4>8, <5>1
      <4> QED BY <4>5, <4>6, <4>7, <4>8
    <3>2. CASE OnCandidate
      <4> DEFINE do == Head(ui).do
                 s == <<Task(do, Head(ui).of)>>
      <4>1. do \in {"candidate", "remove"} /\ (exec' = exec \o <<>> \/ exec' = exec \o s)
        BY <3>2 DEF OnCandidate, Handling, Execute
      <4>2. <<>> \in Seq(TaskType) /\ \A d : ~Has(<<>>, d)
        BY QueueNone
      <4>3. Head(ui).of \in Nat
        BY <2>1, UiTakes, Assumptions
      <4> HIDE DEF do
      <4>4. do \in Tasks /\ do \notin {"factory", "create", "close"}
        BY <4>1 DEF Tasks
      <4>5. s \in Seq(TaskType) /\ \A d : Has(s, d) <=> d = do
        BY <4>3, <4>4, OneTask
      <4> HIDE DEF s
      <4> QED BY <4>1, <4>2, <4>4, <4>5
    <3> QED BY <1>2, <3>1, <3>2
  <2> QED BY <2>1, <2>2, <2>3, ActLife
<1>3. CASE OnHungUp
  <2>1. /\ ui # <<>> /\ ui' = Tail(ui) /\ Head(ui).do = "hungUp"
        /\ UNCHANGED <<room, client, conn, capturing>>
    BY <1>3 DEF OnHungUp, Handling, callVars
  <2>2. /\ Head(ui).call = c /\ act[c].phase # "none" /\ RoomFirst(c)'
        /\ Connecting(c)' => Connecting(c)
    BY <2>1, UiTakes
  <2> DEFINE b == Disconnected(act[c])
             s == Closing(c)
  <2>3. act' = [act EXCEPT ![c] = b] /\ exec' = exec \o s
    BY <1>3, <2>2 DEF OnHungUp, Execute
  <2>4. s \in Seq(TaskType) /\ \A d : Has(s, d) <=> d = "close" /\ act[c].client
    BY ClosingHas
  <2>5. b.phase = act[c].phase /\ ~b.client
    BY <1>0, ActFields
  <2> HIDE DEF b, s
  <2>6. act'[c] = b
    BY <1>0, <2>3
  <2>7. \A d \in Started : ~Has(s, d)
    BY <2>4 DEF Started
  <2>8. /\ ~Has(s, "factory") /\ ~Has(s, "create") /\ (act[c].client => Has(s, "close"))
        /\ UNCHANGED <<client, conn, capturing>> /\ ~act'[c].client /\ act'[c].phase # "none"
    BY <2>1, <2>2, <2>4, <2>5, <2>6
  <2> QED BY <2>2, <2>3, <2>4, <2>7, <2>8, ActLife
<1>4. CASE OnError
  <2>1. /\ ui # <<>> /\ ui' = Tail(ui) /\ Head(ui).do = "error"
        /\ UNCHANGED <<room, client, conn, capturing>>
    BY <1>4 DEF OnError, Handling, callVars
  <2>2. /\ Head(ui).call = c /\ act[c].phase # "none" /\ RoomFirst(c)'
        /\ (Connecting(c)' => Connecting(c))
        /\ act[c].client => act[c].phase \in {"shown", "hidden"}
    BY <2>1, UiTakes
  <2> DEFINE b == Reported(act[c])
             s == ClosedBy(c, b)
  <2>3. act' = [act EXCEPT ![c] = b] /\ exec' = exec \o s
    BY <1>4, <2>2 DEF OnError, Execute
  <2>4. b.phase = act[c].phase /\ (b.client => act[c].client)
    BY <1>0, ActFields
  <2> HIDE DEF b
  <2>5. s \in Seq(TaskType) /\ \A d : Has(s, d) <=> d = "close" /\ act[c].client /\ ~b.client
    BY ClosingHas
  <2> HIDE DEF s
  <2>6. act'[c] = b
    BY <1>0, <2>3
  <2>7. \A d \in Started : ~Has(s, d)
    BY <2>5 DEF Started
  <2>8. /\ ~Has(s, "factory") /\ ~Has(s, "create") /\ UNCHANGED <<client, conn, capturing>>
        /\ act'[c].phase = act[c].phase
        /\ (act'[c].client => act[c].client /\ ~Has(s, "close"))
        /\ (act[c].client /\ ~act'[c].client => Has(s, "close"))
    BY <2>1, <2>4, <2>5, <2>6
  <2> QED BY <2>2, <2>3, <2>5, <2>7, <2>8, ActLife
<1>5. CASE OnLocalDescription \/ OnIceCandidate
  <2>1. /\ ui # <<>> /\ ui' = Tail(ui) /\ exec' = exec
        /\ UNCHANGED <<act, room, client, conn, capturing>>
    BY <1>5 DEF OnLocalDescription, OnIceCandidate, Handling, callVars
  <2>2. /\ act[c].phase # "none" /\ RoomFirst(c)'
        /\ (Connecting(c)' => Connecting(c))
        /\ act[c].client => act[c].phase \in {"shown", "hidden"}
    BY <2>1, UiTakes
  <2>3. <<>> \in Seq(TaskType) /\ \A d : ~Has(<<>>, d)
    BY QueueNone
  <2>4. exec' = exec \o <<>>
    BY <1>0, <2>1
  <2> QED BY <2>1, <2>2, <2>3, <2>4, ActLife
<1> QED BY <1>1, <1>2, <1>3, <1>4, <1>5 DEF UiTask

LEMMA UserLife ==
  ASSUME Types, SingleCall, NEW c \in Calls, Life(c), User(c)
  PROVE  Life(c)'
<1>0. act \in [Calls -> ActType] /\ act[c] \in ActType /\ exec \in Seq(TaskType) /\ client \in ClientType
  BY DEF Types, ExecTyped
<1> DEFINE b == Disconnected(act[c])
<1>1. b \in ActType /\ b.phase = act[c].phase /\ ~b.client
  BY <1>0, ActFields, ActChanges
<1>2. \A d : Has(Closing(c), d) <=> d = "close" /\ act[c].client
  BY ClosingHas
<1>3. Closing(c) \in Seq(TaskType)
  BY ClosingHas
<1>4. act[c].client => act[c].phase \in {"shown", "hidden"}
  BY DEF Life, Ending
<1> HIDE DEF b
<1>5. CASE CreateActivity(c)
  <2>1. /\ act[c].phase = "none" /\ act'[c].phase = "shown" /\ act'[c].client
        /\ exec' = exec \o <<Task("factory", c), Task("start", c)>>
        /\ UNCHANGED <<conn, capturing, ui, room>>
    BY <1>0, <1>5 DEF CreateActivity, Execute
  <2>2. client'.events = c /\ ~client'.factory /\ client'.pc = None /\ client'.capturer = None
          /\ ~client'.stopped /\ client'.video
    BY <1>0, <1>5 DEF CreateActivity, ClientType
  <2>3. /\ exec = <<>> /\ ui = <<>> /\ ~room[c].connected /\ client.pc = None
        /\ client.capturer = None /\ Unborn(c)
    BY <2>1 DEF Life, Unborn
  <2> DEFINE s == <<Task("factory", c), Task("start", c)>>
  <2>4. /\ s \in Seq(TaskType) /\ (\A d : Has(s, d) <=> d \in {"factory", "start"})
        /\ \A d : One(s, d)
    BY StartHas
  <2> HIDE DEF s
  <2>5. exec' = s
    BY <2>1, <2>3, <2>4 DEF s
  <2>6. Connecting(c)
    BY <2>3 DEF Connecting
  <2>7. conn[c].state = "none" /\ RoomFirst(c) /\ Owned(c)
    BY <2>6 DEF Life
  <2>8. RoomFirst(c)' /\ Connecting(c)'
    BY <2>1, <2>6, <2>7 DEF RoomFirst, Connecting
  <2>9. Owned(c)'
    BY <2>1, <2>2, <2>3, <2>7, Assumptions DEF Owned
  <2>10. ~Has(s, "create") /\ ~Has(s, "close") /\ One(s, "factory") /\ One(s, "create")
    BY <2>4
  <2>11. Before(s, "factory", "close") /\ Before(s, "create", "close")
    BY <2>10 DEF Before, Has
  <2>12. Making(c)'
    BY <2>2, <2>5, <2>10, <2>11 DEF Making
  <2>13. Ending(c)' /\ ~Unborn(c)'
    BY <2>1, <2>2, <2>5, <2>10 DEF Ending, Unborn
  <2>14. \A d \in Started : ~Has(s, d)
    BY <2>4 DEF Started
  <2> QED BY <2>1, <2>2, <2>5, <2>7, <2>8, <2>9, <2>12, <2>13, <2>14 DEF Life
<1>6. ASSUME NEW a \in ActType, NEW s \in Seq(TaskType), act' = [act EXCEPT ![c] = a],
             exec' = exec \o s, UNCHANGED <<client, conn, capturing, ui, room>>,
             \A d : Has(s, d) => d \in {"close", "stop", "start"},
             act[c].phase # "none", a.phase # "none",
             a.client => act[c].client /\ ~Has(s, "close") /\ a.phase \in {"shown", "hidden"},
             act[c].client /\ ~a.client => Has(s, "close")
      PROVE  Life(c)'
  <2>1. act'[c] = a
    BY <1>0, <1>6
  <2>2. ~Has(s, "factory") /\ ~Has(s, "create")
    <3>1. \A d : Has(s, d) => d \in {"close", "stop", "start"}
      BY <1>6
    <3>2. "factory" \notin {"close", "stop", "start"} /\ "create" \notin {"close", "stop", "start"}
      OBVIOUS
    <3> QED BY Zenon, <3>1, <3>2
  <2>3. \A d \in Started : ~Has(s, d)
    BY <1>6 DEF Started
  <2>4. RoomFirst(c)' /\ (Connecting(c)' => Connecting(c))
    BY <1>6 DEF Life, RoomFirst, Connecting
  <2>5. UNCHANGED <<client, conn, capturing>>
    BY <1>6
  <2> QED BY <1>6, <2>1, <2>2, <2>3, <2>4, <2>5, ActLife
<1>7. CASE HangUp(c) \/ DialogOk(c)
  <2>1. PICK a \in {b, [b EXCEPT !.dialog = FALSE]} : act' = [act EXCEPT ![c] = a]
    BY <1>0, <1>7 DEF HangUp, DialogOk, b
  <2>2. a \in ActType /\ a.phase = act[c].phase /\ ~a.client
    BY <1>1 DEF ActType
  <2>3. /\ exec' = exec \o Closing(c) /\ UNCHANGED <<client, conn, capturing, ui, room>>
        /\ act[c].phase # "none"
    BY <1>7 DEF HangUp, DialogOk, Execute, callVars
  <2> DEFINE s == Closing(c)
  <2>4. /\ s \in Seq(TaskType) /\ (\A d : Has(s, d) => d \in {"close", "stop", "start"})
        /\ (act[c].client => Has(s, "close")) /\ exec' = exec \o s
    BY <1>2, <1>3, <2>3
  <2> HIDE DEF s
  <2> QED BY <1>6, <2>1, <2>2, <2>3, <2>4
<1>8. CASE Back(c)
  <2> DEFINE a == [act[c] EXCEPT !.finishing = TRUE]
  <2>1. act' = [act EXCEPT ![c] = a] /\ act[c].phase # "none"
          /\ UNCHANGED <<client, conn, capturing, ui, room, exec>>
    BY <1>0, <1>8 DEF Back, callVars, queueVars
  <2>2. a \in ActType /\ a.phase = act[c].phase /\ a.client = act[c].client
    BY <1>0 DEF ActType
  <2> HIDE DEF a
  <2>3. <<>> \in Seq(TaskType) /\ \A d : ~Has(<<>>, d)
    BY QueueNone
  <2>4. exec' = exec \o <<>>
    BY <1>0, <2>1
  <2> QED BY <1>4, <1>6, <2>1, <2>2, <2>3, <2>4
<1>9. CASE Stop(c) \/ Start(c)
  <2>1. PICK phase \in {"shown", "hidden"}, running \in BOOLEAN, do \in {"stop", "start"} :
          /\ act' = [act EXCEPT ![c] = [act[c] EXCEPT !.phase = phase, !.running = running]]
          /\ exec' = exec \o (IF act[c].client THEN <<Task(do, c)>> ELSE <<>>)
    <3>1. CASE Stop(c)
      BY <1>0, <3>1 DEF Stop, Execute
    <3>2. CASE Start(c)
      BY <1>0, <3>2 DEF Start, Execute
    <3> QED BY <1>9, <3>1, <3>2
  <2>2. act[c].phase # "none" /\ UNCHANGED <<client, conn, capturing, ui, room>>
    BY <1>9 DEF Stop, Start, callVars
  <2> DEFINE a == [act[c] EXCEPT !.phase = phase, !.running = running]
             s == IF act[c].client THEN <<Task(do, c)>> ELSE <<>>
  <2>3. a \in ActType /\ a.phase = phase /\ a.client = act[c].client
    BY <1>0 DEF ActType
  <2>4. s \in Seq(TaskType) /\ \A d : Has(s, d) => d \in {"stop", "start"}
    <3>1. CASE act[c].client
      BY <3>1, Assumptions, OneTask DEF Tasks
    <3>2. CASE ~act[c].client
      BY <3>2, QueueNone
    <3> QED BY <3>1, <3>2
  <2>5. act' = [act EXCEPT ![c] = a] /\ exec' = exec \o s
    BY <2>1
  <2> HIDE DEF a, s
  <2>6. ~Has(s, "close") /\ (\A d : Has(s, d) => d \in {"close", "stop", "start"}) /\ a.phase # "none"
    BY <2>3, <2>4
  <2> QED BY <1>4, <1>6, <2>2, <2>3, <2>4, <2>5, <2>6
<1>10. CASE Destroy(c)
  <2> DEFINE a == [b EXCEPT !.phase = "gone"]
             s == IF act[c].client THEN <<Task("stop", c)>> \o Closing(c) ELSE <<>>
  <2>1. act' = [act EXCEPT ![c] = a] /\ exec' = exec \o s /\ act[c].phase # "none"
          /\ UNCHANGED <<client, conn, capturing, ui, room>>
    BY <1>0, <1>10 DEF Destroy, Execute, b, callVars
  <2>2. a \in ActType /\ a.phase = "gone" /\ ~a.client
    BY <1>1 DEF ActType
  <2>3. /\ s \in Seq(TaskType) /\ (\A d : Has(s, d) => d \in {"close", "stop", "start"})
        /\ (act[c].client => Has(s, "close"))
    <3>1. CASE act[c].client
      <4> DEFINE p == <<Task("stop", c)>>
                 t == Closing(c)
      <4>1. p \in Seq(TaskType) /\ \A d : Has(p, d) <=> d = "stop"
        BY Assumptions, OneTask DEF Tasks
      <4>2. t \in Seq(TaskType) /\ \A d : Has(t, d) <=> d = "close"
        BY <1>2, <1>3, <3>1
      <4>3. s = p \o t
        BY <3>1
      <4> HIDE DEF p, t, s
      <4>4. p \o t \in Seq(TaskType) /\ \A d : Has(p \o t, d) <=> (Has(p, d) \/ Has(t, d))
        BY <4>1, <4>2, QueueConcat
      <4> QED BY <4>1, <4>2, <4>3, <4>4
    <3>2. CASE ~act[c].client
      BY <3>2, QueueNone
    <3> QED BY <3>1, <3>2
  <2> HIDE DEF a, s
  <2> QED BY <1>6, <2>1, <2>2, <2>3
<1> QED BY <1>5, <1>7, <1>8, <1>9, <1>10 DEF User

LEMMA AnswerFields ==
  ASSUME Types, NEW c \in Calls, Answer(c)
  PROVE  /\ conn'[c].state = conn[c].state /\ conn'[c].added = conn[c].added
         /\ conn[c].operations # <<>> /\ conn'[c].operations = Tail(conn[c].operations)
         /\ conn'[c].local = (conn[c].local \/ Head(conn[c].operations) = "setLocal")
         /\ conn'[c].remote = (conn[c].remote \/ Head(conn[c].operations) = "setRemote")
         /\ client'.pc = client.pc /\ client'.factory = client.factory /\ client'.events = client.events
         /\ client'.capturer = client.capturer /\ client'.stopped = client.stopped
         /\ client'.video = client.video
         /\ client'.source = client.source /\ client'.isError = client.isError
         /\ client'.queueing = client.queueing /\ client'.queued = client.queued
         /\ client'.isInitiator = client.isInitiator
         /\ \E s \in Seq(TaskType) :
              exec' = exec \o s /\ \A d : Has(s, d) => d \in {"error", "setLocal", "setDone", "ice", "hungUp"}
<1> DEFINE operation == Head(conn[c].operations)
           rest == [conn[c] EXCEPT !.operations = Tail(@)]
<1>0. /\ client \in ClientType /\ conn \in [Calls -> ConnType] /\ conn[c] \in ConnType
      /\ conn[c].operations # <<>>
  BY DEF Types, Answer
<1>1. /\ rest.state = conn[c].state /\ rest.added = conn[c].added /\ rest.local = conn[c].local
      /\ rest.remote = conn[c].remote /\ rest.operations = Tail(conn[c].operations) /\ rest \in ConnType
  <2> DEFINE r == conn[c]
             t == Tail(r.operations)
  <2>1. r \in ConnType /\ r.operations \in Seq(Operations) /\ r.operations # <<>>
    BY <1>0 DEF ConnType
  <2>2. t \in Seq(Operations)
    BY <2>1
  <2>3. rest = [r EXCEPT !.operations = t]
    OBVIOUS
  <2> HIDE DEF r, t, rest
  <2>4. /\ rest.state = r.state /\ rest.added = r.added /\ rest.local = r.local
        /\ rest.remote = r.remote /\ rest.operations = t /\ rest \in ConnType
    BY <2>1, <2>2, <2>3 DEF ConnType
  <2> QED BY <2>4 DEF r, t
<1>2. /\ operation = "setLocal" => conn' = [conn EXCEPT ![c] = [rest EXCEPT !.local = TRUE]]
      /\ operation = "setRemote" => conn' = [conn EXCEPT ![c] = [rest EXCEPT !.remote = TRUE]]
      /\ operation \notin {"setLocal", "setRemote"} => conn' = [conn EXCEPT ![c] = rest]
  BY DEF Answer
<1>3. /\ operation = "setLocal" => /\ client' = client
                                   /\ \E candidates \in {<<>>, <<Task("ice", None)>>} :
                                        exec' = exec \o (<<Task("setDone", None)>> \o candidates)
      /\ operation = "setRemote" => client' = client /\ exec' = exec \o <<Task("setDone", None)>>
      /\ operation \notin {"setLocal", "setRemote"} => Created(c)
  BY DEF Answer, Execute
<1>4. conn[c].local \in BOOLEAN /\ conn[c].remote \in BOOLEAN
  BY <1>0 DEF ConnType
<1> HIDE DEF operation, rest
<1>5. /\ conn'[c].state = conn[c].state /\ conn'[c].added = conn[c].added
      /\ conn'[c].operations = Tail(conn[c].operations)
      /\ conn'[c].local = (conn[c].local \/ operation = "setLocal")
      /\ conn'[c].remote = (conn[c].remote \/ operation = "setRemote")
  <2>1. CASE operation = "setLocal"
    <3>1. conn'[c] = [rest EXCEPT !.local = TRUE]
      BY <1>0, <1>2, <2>1
    <3>2. /\ conn'[c].state = rest.state /\ conn'[c].added = rest.added
          /\ conn'[c].operations = rest.operations /\ conn'[c].local
          /\ conn'[c].local = TRUE /\ conn'[c].remote = rest.remote
      BY <1>1, <3>1 DEF ConnType
    <3>3. operation # "setRemote"
      BY <2>1
    <3> QED BY <1>1, <1>4, <2>1, <3>2, <3>3
  <2>2. CASE operation = "setRemote"
    <3>1. conn'[c] = [rest EXCEPT !.remote = TRUE]
      BY <1>0, <1>2, <2>2
    <3>2. /\ conn'[c].state = rest.state /\ conn'[c].added = rest.added
          /\ conn'[c].operations = rest.operations /\ conn'[c].remote
          /\ conn'[c].remote = TRUE /\ conn'[c].local = rest.local
      BY <1>1, <3>1 DEF ConnType
    <3>3. operation # "setLocal"
      BY <2>2
    <3> QED BY <1>1, <1>4, <2>2, <3>2, <3>3
  <2>3. CASE operation \notin {"setLocal", "setRemote"}
    BY <1>0, <1>1, <1>2, <1>4, <2>3
  <2> QED BY <2>1, <2>2, <2>3
<1>6. client' = client \/ client' = [client EXCEPT !.localSdp = TRUE]
  BY <1>3 DEF Created
<1>7. /\ client'.pc = client.pc /\ client'.factory = client.factory /\ client'.events = client.events
      /\ client'.capturer = client.capturer /\ client'.stopped = client.stopped
      /\ client'.video = client.video
      /\ client'.source = client.source /\ client'.isError = client.isError
      /\ client'.queueing = client.queueing /\ client'.queued = client.queued
      /\ client'.isInitiator = client.isInitiator
  BY <1>0, <1>6 DEF ClientType
<1>8. \E s \in Seq(TaskType) :
        exec' = exec \o s /\ \A d : Has(s, d) => d \in {"error", "setLocal", "setDone", "ice", "hungUp"}
  <2> DEFINE error == <<Task("error", None)>>
             set == <<Task("setLocal", None)>>
             done == <<Task("setDone", None)>>
             ice == <<Task("ice", None)>>
             both == done \o ice
  <2>1. error \in Seq(TaskType) /\ \A d : Has(error, d) <=> d = "error"
    BY OneTask DEF Tasks, None
  <2>2. set \in Seq(TaskType) /\ \A d : Has(set, d) <=> d = "setLocal"
    BY OneTask DEF Tasks, None
  <2>3. done \in Seq(TaskType) /\ \A d : Has(done, d) <=> d = "setDone"
    BY OneTask DEF Tasks, None
  <2>4. ice \in Seq(TaskType) /\ \A d : Has(ice, d) <=> d = "ice"
    BY OneTask DEF Tasks, None
  <2> HIDE DEF error, set, done, ice
  <2>5. done \o <<>> = done
    BY <2>3
  <2>6. both \in Seq(TaskType) /\ \A d : Has(both, d) <=> d = "setDone" \/ d = "ice"
    BY <2>3, <2>4, QueueConcat
  <2>7. exec' = exec \o error \/ exec' = exec \o set \/ exec' = exec \o done \/ exec' = exec \o both
    <3>1. CASE operation = "setLocal"
      BY <1>3, <2>5, <3>1 DEF done, ice
    <3>2. CASE operation = "setRemote"
      BY <1>3, <3>2 DEF done
    <3>3. CASE operation \notin {"setLocal", "setRemote"}
      BY <1>3, <3>3 DEF Created, error, set, Execute
    <3> QED BY <3>1, <3>2, <3>3
  <2> HIDE DEF both
  <2>8. CASE exec' = exec \o error
    BY <2>1, <2>8
  <2>9. CASE exec' = exec \o set
    BY <2>2, <2>9
  <2>10. CASE exec' = exec \o done
    BY <2>3, <2>10
  <2>11. CASE exec' = exec \o both
    BY <2>6, <2>11
  <2> QED BY <2>7, <2>8, <2>9, <2>10, <2>11
<1> QED BY <1>0, <1>5, <1>7, <1>8 DEF operation

LEMMA LibraryLife ==
  ASSUME Types, SingleCall, NEW c \in Calls, Life(c), Library(c)
  PROVE  Life(c)'
<1>0. /\ act[c] \in ActType /\ exec \in Seq(TaskType) /\ client \in ClientType
      /\ conn \in [Calls -> ConnType] /\ conn[c] \in ConnType
  BY DEF Types, ExecTyped
<1>1. conn[c].state = "open"
  <2>1. conn[c].operations # <<>> => conn[c].state = "open"
    BY DEF Life, Owned
  <2> QED BY <2>1 DEF Library, Answer, Refuse, LoseConnection, OtherError
<1>2. client.pc = c /\ ~Unborn(c) /\ act[c].phase # "none"
  BY <1>1, Assumptions DEF Life, Owned, Unborn
<1>3. UNCHANGED <<act, ui, room, capturing>>
  BY DEF Library, Answer, Refuse, LoseConnection, OtherError, appVars, callVars
<1>4. conn'[c].state = conn[c].state
  BY <1>0, AnswerFields DEF Library, Refuse, LoseConnection, OtherError, callVars, ConnType
<1>5. client'.pc = client.pc /\ client'.factory = client.factory /\ client'.events = client.events
        /\ client'.capturer = client.capturer /\ client'.stopped = client.stopped
        /\ client'.video = client.video
  BY <1>0, AnswerFields DEF Library, Refuse, LoseConnection, OtherError, callVars
<1>6. PICK s \in Seq(TaskType) :
        exec' = exec \o s /\ \A d : Has(s, d) => d \in {"error", "setLocal", "setDone", "ice", "hungUp"}
  <2>1. ASSUME NEW do \in {"error", "hungUp"}
        PROVE  <<Task(do, None)>> \in Seq(TaskType) /\ \A d : Has(<<Task(do, None)>>, d) <=> d = do
    BY OneTask DEF Tasks, None
  <2> DEFINE p == <<Task("error", None)>>
             q == <<Task("hungUp", None)>>
  <2>2. p \in Seq(TaskType) /\ \A d : Has(p, d) <=> d = "error"
    BY <2>1
  <2>3. q \in Seq(TaskType) /\ \A d : Has(q, d) <=> d = "hungUp"
    BY <2>1
  <2>4. Refuse(c) \/ OtherError(c) => exec' = exec \o p
    BY DEF Refuse, OtherError, Execute
  <2>5. LoseConnection(c) => exec' = exec \o q
    BY DEF LoseConnection, Execute
  <2> HIDE DEF p, q
  <2>6. CASE Refuse(c) \/ OtherError(c)
    BY <2>2, <2>4, <2>6
  <2>7. CASE LoseConnection(c)
    BY <2>3, <2>5, <2>7
  <2>8. CASE Answer(c)
    BY <2>8, AnswerFields
  <2> QED BY <2>6, <2>7, <2>8 DEF Library
<1>7. /\ \A d : Has(exec', d) <=> (Has(exec, d) \/ Has(s, d))
      /\ \A d : One(exec, d) /\ One(s, d) /\ (Has(s, d) => ~Has(exec, d)) => One(exec', d)
      /\ \A a, b : Before(exec, a, b) /\ Before(s, a, b) /\ (Has(s, a) => ~Has(exec, b)) =>
           Before(exec', a, b)
  BY <1>0, <1>6, QueueConcat
<1>8. ~Has(s, "factory") /\ ~Has(s, "create") /\ ~Has(s, "close")
  BY <1>6
<1>9. \A d \in Started : ~Has(s, d)
  BY <1>6 DEF Started
<1>10. /\ One(s, "factory") /\ One(s, "create")
       /\ Before(s, "factory", "close") /\ Before(s, "create", "close")
  BY <1>8 DEF One, Before, Has
<1>11. \A d \in {"factory", "create"} : /\ Has(exec', d) => Has(exec, d)
                                        /\ One(exec, d) => One(exec', d)
                                        /\ Before(exec, d, "close") => Before(exec', d, "close")
  BY <1>7, <1>8, <1>10
<1>12. Has(exec', "close") <=> Has(exec, "close")
  BY <1>7, <1>8
<1>13. capturing' \subseteq {client'.capturer} /\ RoomFirst(c)' /\ (Connecting(c)' => Connecting(c))
         /\ (act[c].client => act[c].phase \in {"shown", "hidden"})
  BY <1>3, <1>5 DEF Life, Owned, RoomFirst, Connecting, Ending
<1>14. \A d \in Started : Has(exec', d) => Has(exec, d)
  BY <1>7, <1>9
<1> QED BY <1>1, <1>2, <1>3, <1>4, <1>5, <1>11, <1>12, <1>13, <1>14, LifeKeeps

\* Before the room has answered it has told of no candidate.
Quiet(c) == ~room[c].connected => room[c].candidates = 0

LEMMA QuietInit == ASSUME Init, NEW c \in Calls PROVE Quiet(c)
BY DEF Init, Quiet

LEMMA QuietNext == ASSUME Types, NEW c \in Calls, Quiet(c), [Next]_vars PROVE Quiet(c)'
<1>0. room \in [Calls -> RoomType] /\ room[c] \in RoomType
  BY DEF Types
<1>1. ASSUME NEW d \in Calls, Room(d) PROVE Quiet(c)'
  <2>1. room[d] \in RoomType
    BY <1>0
  <2>2. CASE RoomConnected(d)
    BY <1>0, <2>1, <2>2 DEF RoomConnected, Quiet, RoomType
  <2>3. CASE RoomDescription(d)
    BY <1>0, <2>1, <2>3 DEF RoomDescription, Quiet, RoomType
  <2>4. CASE RoomCandidate(d)
    BY <1>0, <2>1, <2>4 DEF RoomCandidate, Quiet, RoomType
  <2>5. CASE RoomRemoved(d)
    BY <1>0, <2>1, <2>5 DEF RoomRemoved, Quiet, RoomType
  <2>6. CASE RoomClosed(d)
    BY <2>6 DEF RoomClosed, Quiet
  <2> QED BY <1>1, <2>2, <2>3, <2>4, <2>5, <2>6 DEF Room
<1>2. CASE UNCHANGED room
  BY <1>2 DEF Quiet
<1>3. UiTask \/ ExecutorTask \/ (\E d \in Calls : User(d) \/ Library(d)) \/ UNCHANGED vars => UNCHANGED room
  BY DEF UiTask, ExecutorTask, User, Library, vars,
         OnConnected, OnDescription, OnCandidate, OnHungUp, OnError, OnLocalDescription, OnIceCandidate,
         CreateFactory, CreatePeerConnection, CreateOffer, CreateAnswer, SetDescription,
         AddCandidate, RemoveCandidates, SetSuccess, HandleError, HandleIce, StopVideoSource,
         StartVideoSource, CloseInternal, CreateActivity, HangUp, Back, DialogOk, Stop, Start, Destroy,
         Answer, Refuse, LoseConnection, OtherError
<1> QED BY <1>1, <1>2, <1>3 DEF Next

LEMMA RoomLife ==
  ASSUME Types, SingleCall, NEW c \in Calls, Quiet(c), Life(c), Room(c)
  PROVE  Life(c)'
<1>0. /\ room \in [Calls -> RoomType] /\ room[c] \in RoomType /\ exec \in Seq(TaskType)
      /\ ui \in Seq(EventType)
  BY DEF Types, ExecTyped, UiTyped
<1>1. PICK do \in Events, of \in 0..MaxCandidates :
        /\ Hear(c, do, of)
        /\ \/ do = "connected" /\ ~room[c].connected /\ room'[c].connected /\ of \in 0..MaxKept
           \/ /\ do # "connected" /\ room'[c].connected = room[c].connected
              /\ (do \in Said => room[c].connected) /\ (do = "candidate" => of \in 1..MaxCandidates)
  <2>1. CASE RoomConnected(c)
    <3>1. PICK role \in Roles, n \in 0..MaxKept :
            /\ room' = [room EXCEPT ![c].connected = TRUE, ![c].role = role, ![c].candidates = n,
                               ![c].described = (role = "offered")]
            /\ Hear(c, "connected", n)
      BY <2>1 DEF RoomConnected
    <3>2. n \in 0..MaxCandidates /\ "connected" \in Events
      BY Assumptions DEF Events
    <3>3. ~room[c].connected /\ room'[c].connected
      BY <1>0, <2>1, <3>1 DEF RoomConnected, RoomType
    <3> QED BY <3>1, <3>2, <3>3
  <2>2. CASE RoomDescription(c)
    <3>1. room[c].connected /\ room'[c].connected /\ Hear(c, "description", None)
      BY <1>0, <2>2 DEF RoomDescription, RoomType
    <3>2. None \in 0..MaxCandidates /\ "description" \in Events
      BY Assumptions DEF Events
    <3> QED BY <3>1, <3>2
  <2>3. CASE RoomCandidate(c)
    <3>1. room[c].connected /\ room'[c].connected /\ Hear(c, "candidate", room[c].candidates + 1)
      BY <1>0, <2>3 DEF RoomCandidate, RoomType
    <3>2. room[c].candidates + 1 \in 1..MaxCandidates /\ "candidate" \in Events
      BY <1>0, <2>3, Assumptions DEF RoomCandidate, RoomType, Events
    <3>3. room[c].candidates + 1 \in 0..MaxCandidates
      BY <3>2, Assumptions
    <3> QED BY <3>1, <3>2, <3>3
  <2>4. CASE RoomRemoved(c)
    <3>1. room'[c].connected = room[c].connected /\ Hear(c, "remove", None) /\ room[c].candidates > 0
      BY <1>0, <2>4 DEF RoomRemoved, RoomType
    <3>2. None \in 0..MaxCandidates /\ "remove" \in Events
      BY Assumptions DEF Events
    <3>3. room[c].connected
      BY <3>1 DEF Quiet
    <3> QED BY <3>1, <3>2, <3>3
  <2>5. CASE RoomClosed(c)
    <3>1. PICK do \in {"hungUp", "error"} : Hear(c, do, None)
      BY <2>5 DEF RoomClosed
    <3>2. room' = room
      BY <2>5 DEF RoomClosed
    <3>3. None \in 0..MaxCandidates /\ do \in Events
      BY Assumptions DEF Events
    <3>4. do # "connected" /\ do \notin Said /\ do # "candidate"
      BY DEF Said
    <3> QED BY <3>1, <3>2, <3>3, <3>4
  <2> QED BY <2>1, <2>2, <2>3, <2>4, <2>5 DEF Room
<1> DEFINE e == Event(c, do, of)
<1>2. /\ act[c].room /\ ui' = ui \o <<e>> /\ e \in EventType /\ e.do = do
      /\ UNCHANGED <<act, client, conn, capturing, exec>>
  BY <1>1, HearTypes DEF appVars, callVars
<1> HIDE DEF e
<1>3. act[c].phase # "none" /\ ~Unborn(c)
  BY <1>2 DEF Life, Unborn
<1>4. RoomFirst(c)' /\ (Connecting(c)' => Connecting(c))
  <2>1. CASE do # "connected"
    <3>1. room'[c].connected = room[c].connected /\ (e.do \in Said => room[c].connected) /\ e.do # "connected"
      BY <1>1, <1>2, <2>1
    <3> QED BY <1>2, <3>1, RoomFirstMore DEF Life
  <2>2. CASE do = "connected"
    <3>1. ~room[c].connected /\ room'[c].connected
      BY <1>1, <2>2
    <3>2. ~Has(ui, "connected") /\ (\A d \in Said : ~Has(ui, d)) /\ One(ui, "connected")
      BY <3>1 DEF Life, RoomFirst
    <3>3. /\ \A d : Has(ui', d) <=> (Has(ui, d) \/ d = "connected")
          /\ \A d : One(ui, d) /\ (d = "connected" => ~Has(ui, d)) => One(ui', d)
          /\ \A a, b : a # b /\ Before(ui, a, b) /\ (a = "connected" => ~Has(ui, b)) =>
               Before(ui', a, b)
      BY <1>2, <2>2, RunnablesMore
    <3>4. ASSUME NEW d \in Said PROVE Before(ui', "connected", d)
      <4>1. d # "connected"
        BY DEF Said
      <4>2. Before(ui, "connected", d)
        BY <3>2 DEF Before, Has
      <4> QED BY <3>2, <3>3, <4>1, <4>2
    <3>5. RoomFirst(c)'
      BY <3>1, <3>2, <3>3, <3>4 DEF RoomFirst
    <3> QED BY <3>1, <3>5 DEF Connecting
  <2> QED BY <2>1, <2>2
<1>5. <<>> \in Seq(TaskType) /\ exec' = exec \o <<>> /\ \A d : ~Has(<<>>, d)
  BY <1>0, <1>2, QueueNone
<1>6. act[c].client => act[c].phase \in {"shown", "hidden"}
  BY DEF Life, Ending
<1> QED BY <1>2, <1>3, <1>4, <1>5, <1>6, ActLife

LEMMA InitLife == ASSUME Init, NEW c \in Calls PROVE Life(c)
<1>1. exec = <<>> /\ ui = <<>> /\ capturing = {}
  BY DEF Init
<1>2. /\ act[c].phase = "none" /\ ~act[c].room /\ ~act[c].client /\ ~room[c].connected
      /\ client.pc = None /\ client.capturer = None /\ ~client.factory /\ client.events = None
      /\ conn[c].state = "none" /\ conn[c].operations = <<>> /\ ~client.stopped
  BY DEF Init
<1>3. /\ \A d : ~Has(<<>>, d) /\ One(<<>>, d)
      /\ \A a, b : Before(<<>>, a, b)
  BY QueueNone
<1>4. Owned(c)
  BY <1>1, <1>2, Assumptions DEF Owned
<1>5. Making(c) /\ RoomFirst(c)
  BY <1>1, <1>3 DEF Making, RoomFirst
<1>6. Ending(c) /\ Unborn(c)
  BY <1>2 DEF Ending, Unborn
<1> QED BY <1>1, <1>2, <1>3, <1>4, <1>5, <1>6 DEF Life

LEMMA StutterLife == ASSUME NEW c \in Calls, Life(c), UNCHANGED vars PROVE Life(c)'
BY DEF vars, appVars, callVars, queueVars, boundVars, Life, Owned, Making, Ending, RoomFirst,
       Unborn, Connecting, Shut

LEMMA NextLife ==
  ASSUME Types, SingleCall, NEW c \in Calls, Quiet(c), Life(c), [Next]_vars
  PROVE  Life(c)'
<1>1. \A d \in Calls : d = c
  BY DEF SingleCall
<1> QED BY <1>1, UiLife, ExecLife, UserLife, LibraryLife, RoomLife, StutterLife DEF Next

\* A call that disconnected leaves no connection and no running capturer when the executor
\* has done its tasks, when the process makes one call; a second one, made before, forgets
\* the first one's connection (PeerConnectionClient.createPeerConnectionFactory).
THEOREM CallDisposed == ASSUME SingleCall PROVE Spec => []DisconnectDisposes
<1> DEFINE Inv == Types /\ \A c \in Calls : Quiet(c) /\ Life(c)
<1>1. Init => Inv
  BY InitTypes, QuietInit, InitLife
<1>2. Inv /\ [Next]_vars => Inv'
  BY NextTypes, QuietNext, NextLife
<1>3. Inv => DisconnectDisposes
  <2> SUFFICES ASSUME Inv, NEW c \in Calls, exec = <<>>, act[c].finishing, ~act[c].client
      PROVE  conn[c].state # "open" /\ c \notin capturing
    BY DEF DisconnectDisposes
  <2>1. Owned(c) /\ Ending(c) /\ (Unborn(c) => client.pc = None /\ client.capturer = None)
    BY DEF Life
  <2>2. ~Has(exec, "close")
    BY QueueNone
  <2>3. client.pc = None /\ client.capturer = None
    BY <2>1, <2>2 DEF Ending, Shut
  <2> QED BY <2>1, <2>3, Assumptions DEF Owned
<1> QED BY <1>1, <1>2, <1>3, PTL DEF Spec

-----------------------------------------------------------------------------
(* The camera and the screen.                                               *)

\* A step that does not touch the camera, and may put tasks at the end of the queue.
LEMMA ScreenMore ==
  ASSUME Types, NEW c \in Calls, Screen(c), NEW s \in Seq(TaskType), exec' = exec \o s,
         ~Has(s, "create"), act'[c].early = act[c].early,
         act'[c].client => /\ act[c].client /\ act'[c].phase = act[c].phase
                           /\ ~Has(s, "stop") /\ ~Has(s, "start"),
         client'.pc = client.pc, client'.capturer = client.capturer,
         client'.source = client.source, client'.stopped = client.stopped, capturing' = capturing
  PROVE  Screen(c)'
<1>1. exec \in Seq(TaskType)
  BY DEF Types, ExecTyped
<1>2. /\ \A d : Has(exec', d) <=> (Has(exec, d) \/ Has(s, d))
      /\ \A a, b : Before(exec, a, b) /\ Before(s, a, b) /\ (Has(s, a) => ~Has(exec, b)) =>
           Before(exec', a, b)
      /\ \A a, b : Followed(exec, a, b) /\ ~Has(s, a) => Followed(exec', a, b)
  BY <1>1, QueueConcat
<1>3. Before(s, "create", "stop")
  BY DEF Before, Has
<1>4. Before(exec, "create", "stop") => Before(exec', "create", "stop")
  BY <1>2, <1>3
<1>5. act'[c].client => /\ Followed(exec, "stop", "start") => Followed(exec', "stop", "start")
                        /\ Followed(exec, "start", "stop") => Followed(exec', "start", "stop")
  BY <1>2
<1>6. Has(exec', "create") <=> Has(exec, "create")
  BY <1>2
<1>7. (Has(exec, "start") => Has(exec', "start")) /\ (Has(exec, "stop") => Has(exec', "stop"))
  BY <1>2
<1>8. Filming(c)' <=> Filming(c)
  BY DEF Filming
<1>9. act'[c].client => /\ act'[c].phase = "shown" => Followed(exec', "stop", "start")
                        /\ act'[c].phase = "hidden" => Followed(exec', "start", "stop")
  BY <1>5 DEF Screen
<1>10. Filming(c)' => /\ client'.source
                      /\ ~client'.stopped => c \in capturing'
                      /\ client'.stopped /\ c \in capturing' => act'[c].early
  BY <1>8 DEF Screen
<1>11. act'[c].client /\ Filming(c)' =>
         /\ act'[c].phase = "shown" /\ c \notin capturing' => Has(exec', "start")
         /\ act'[c].phase = "hidden" /\ c \in capturing' => Has(exec', "stop") \/ act'[c].early
  BY <1>7, <1>8 DEF Screen
<1>12. Has(exec', "create") /\ ~act'[c].early =>
         /\ ~client'.stopped /\ Before(exec', "create", "stop")
         /\ act'[c].client /\ act'[c].phase = "hidden" => Has(exec', "stop")
  BY <1>4, <1>6, <1>7 DEF Screen
<1> QED BY <1>9, <1>10, <1>11, <1>12 DEF Screen

\* A task of the executor that does not touch the camera.
LEMMA ScreenTail ==
  ASSUME Types, NEW c \in Calls, Screen(c), exec # <<>>, exec' = Tail(exec),
         Head(exec).do \notin {"create", "stop", "start", "close"}, act' = act,
         client'.pc = client.pc, client'.capturer = client.capturer,
         client'.source = client.source, client'.stopped = client.stopped, capturing' = capturing
  PROVE  Screen(c)'
<1>1. /\ \A do : Has(exec, do) <=> (Has(exec', do) \/ Head(exec).do = do)
      /\ \A a, b : Before(exec, a, b) => Before(exec', a, b)
      /\ \A a, b : Followed(exec, a, b) => Followed(exec', a, b)
  BY TasksTail
<1>2. /\ Has(exec, "create") <=> Has(exec', "create")
      /\ Has(exec, "start") <=> Has(exec', "start")
      /\ Has(exec, "stop") <=> Has(exec', "stop")
  BY <1>1
<1>3. /\ Before(exec, "create", "stop") => Before(exec', "create", "stop")
      /\ Followed(exec, "stop", "start") => Followed(exec', "stop", "start")
      /\ Followed(exec, "start", "stop") => Followed(exec', "start", "stop")
  BY <1>1
<1>4. Filming(c)' <=> Filming(c)
  BY DEF Filming
<1> QED BY <1>2, <1>3, <1>4 DEF Screen

LEMMA ExecScreen ==
  ASSUME Types, SingleCall, NEW c \in Calls, Life(c), Screen(c), ExecutorTask
  PROVE  Screen(c)'
<1>0. /\ client \in ClientType /\ conn \in [Calls -> ConnType] /\ capturing \in SUBSET Calls
      /\ client.pc \in {c, None} /\ client.capturer \in {c, None} /\ c # None
      /\ exec \in Seq(TaskType)
  BY Assumptions DEF Types, ClientType, SingleCall, ExecTyped
<1>1. ASSUME exec # <<>>, exec' = Tail(exec)
      PROVE  /\ \A do : Has(exec, do) <=> (Has(exec', do) \/ Head(exec).do = do)
             /\ \A do : One(exec, do) => (Head(exec).do = do => ~Has(exec', do))
             /\ \A a, b : Before(exec, a, b) =>
                  /\ Before(exec', a, b) /\ (Head(exec).do = b => ~Has(exec, a) /\ ~Has(exec', a))
             /\ \A a, b : Followed(exec, a, b) =>
                  /\ Followed(exec', a, b) /\ (Head(exec).do = a => Has(exec', b))
  BY <1>1, TasksTail
<1>2. CASE CreateFactory
  <2>1. exec # <<>> /\ Head(exec).do = "factory" /\ exec' = Tail(exec) /\ act' = act /\ capturing' = capturing
    BY <1>2 DEF CreateFactory, Running, Done, appVars
  <2>2. client'.pc = client.pc /\ client'.capturer = client.capturer
          /\ client'.source = client.source /\ client'.stopped = client.stopped
    BY <1>0, <1>2 DEF CreateFactory, ClientType
  <2> QED BY <2>1, <2>2, ScreenTail
<1>3. CASE CreateOffer \/ CreateAnswer \/ AddCandidate \/ HandleError
  <2>1. exec # <<>> /\ Head(exec).do \in {"offer", "answer", "candidate", "error"} /\ exec' = Tail(exec)
          /\ act' = act /\ capturing' = capturing
    BY <1>3 DEF CreateOffer, CreateAnswer, AddCandidate, HandleError, Running, Done, appVars
  <2>2. client'.pc = client.pc /\ client'.capturer = client.capturer
          /\ client'.source = client.source /\ client'.stopped = client.stopped
    BY <1>0, <1>3 DEF CreateOffer, CreateAnswer, AddCandidate, HandleError, ClientType
  <2> QED BY <2>1, <2>2, ScreenTail
<1>4. CASE SetDescription \/ HandleIce
  <2>1. exec # <<>> /\ Head(exec).do \in {"setRemote", "setLocal", "ice", "hungUp"} /\ exec' = Tail(exec)
          /\ act' = act /\ capturing' = capturing /\ client' = client
    BY <1>4 DEF SetDescription, HandleIce, Running, Done, appVars, callVars
  <2> QED BY <2>1, ScreenTail
<1>5. CASE RemoveCandidates \/ SetSuccess
  <2>1. exec # <<>> /\ Head(exec).do \in {"remove", "setDone"} /\ exec' = Tail(exec)
          /\ act' = act /\ capturing' = capturing
    BY <1>5 DEF RemoveCandidates, SetSuccess, Running, Done, appVars
  <2>2. client' = client \/ (Usable /\ DrainCandidates)
    BY <1>5, SuccessCases DEF RemoveCandidates
  <2>3. client'.pc = client.pc /\ client'.capturer = client.capturer
          /\ client'.source = client.source /\ client'.stopped = client.stopped
    BY <2>2, DrainFields
  <2> QED BY <2>1, <2>3, ScreenTail
<1>6. CASE CreatePeerConnection
  <2>1. exec # <<>> /\ Head(exec).do = "create" /\ act' = act /\ Head(exec).of \in Calls
    BY <1>6, TaskRuns DEF CreatePeerConnection, Tasks, appVars
  <2>2. Head(exec).of = c
    BY <2>1 DEF SingleCall
  <2>3. exec' = Tail(exec)
    BY <1>6 DEF CreatePeerConnection, Done
  <2>4. /\ \A do : Has(exec, do) <=> (Has(exec', do) \/ Head(exec).do = do)
        /\ \A do : One(exec, do) => (Head(exec).do = do => ~Has(exec', do))
        /\ \A a, b : Followed(exec, a, b) => Followed(exec', a, b)
    BY <1>1, <2>1, <2>3
  <2>6. ~Has(exec', "create") /\ (Has(exec', "stop") <=> Has(exec, "stop"))
          /\ (Has(exec', "start") <=> Has(exec, "start"))
    <3>1. One(exec, "create")
      BY DEF Life, Making
    <3> QED BY <2>1, <2>4, <3>1
  <2>7. /\ Followed(exec, "stop", "start") => Followed(exec', "stop", "start")
        /\ Followed(exec, "start", "stop") => Followed(exec', "start", "stop")
    BY <2>4
  <2>8. Has(exec, "create") /\ client.pc # c /\ client.video
    <3>1. Has(exec, "create")
      BY <2>1, <2>4
    <3> QED BY <3>1 DEF Life, Owned, Making
  <2>9. CASE ~client.factory \/ client.isError
    <3>1. /\ client'.pc = client.pc /\ client'.capturer = client.capturer
          /\ client'.source = client.source /\ client'.stopped = client.stopped
          /\ capturing' = capturing
      BY <1>0, <1>6, <2>9 DEF CreatePeerConnection, ClientType
    <3> QED BY <2>1, <2>6, <2>7, <3>1 DEF Screen, Filming
  <2>10. CASE client.factory /\ ~client.isError
    <3>1. /\ client' = [client EXCEPT !.pc = c, !.queueing = TRUE, !.queued = <<>>,
                             !.isInitiator = FALSE, !.video = (client.video /\ client.capturer # None),
                             !.source = ((client.video /\ client.capturer # None) \/ client.source)]
          /\ client.capturer # None => capturing' = capturing \cup {client.capturer}
      BY <1>0, <1>6, <2>2, <2>8, <2>10 DEF CreatePeerConnection, ClientType
    <3>2. client'.pc = c /\ client'.capturer = client.capturer
            /\ (client.capturer # None => client'.source) /\ client'.stopped = client.stopped
      BY <1>0, <2>8, <3>1 DEF ClientType
    <3>3. Filming(c)' => client'.source /\ c \in capturing'
      BY <1>0, <3>1, <3>2 DEF Filming
    <3>4. ~act[c].early => /\ ~client.stopped
                           /\ act[c].client /\ act[c].phase = "hidden" => Has(exec, "stop")
      BY <2>8 DEF Screen
    <3> QED BY <2>1, <2>6, <2>7, <3>2, <3>3, <3>4 DEF Screen
  <2> QED BY <1>0, <2>9, <2>10 DEF ClientType
<1>7. CASE StopVideoSource
  <2>1. exec # <<>> /\ Head(exec).do = "stop" /\ exec' = Tail(exec) /\ act' = act
    BY <1>7 DEF StopVideoSource, Running, Done, appVars
  <2>2. client'.pc = client.pc /\ client'.capturer = client.capturer /\ client'.source = client.source
    BY <1>0, <1>7 DEF StopVideoSource, ClientType
  <2>3. \/ (client.capturer = None \/ client.stopped) /\ client'.stopped = client.stopped
             /\ capturing' = capturing
        \/ client'.stopped /\ capturing' = capturing \ {client.capturer}
    BY <1>0, <1>7 DEF StopVideoSource, ClientType
  <2>4. /\ Has(exec', "create") => Has(exec, "create")
        /\ Has(exec', "start") <=> Has(exec, "start")
        /\ Followed(exec, "stop", "start") => Followed(exec', "stop", "start") /\ Has(exec', "start")
        /\ Followed(exec, "start", "stop") => Followed(exec', "start", "stop")
        /\ Before(exec, "create", "stop") => ~Has(exec', "create")
    BY <1>1, <2>1
  <2>5. Filming(c)' <=> Filming(c)
    BY <2>2 DEF Filming
  <2>6. Has(exec', "create") => act[c].early
    BY <2>4 DEF Screen
  <2>7. Filming(c) => client'.stopped /\ client'.source /\ (c \in capturing' => act[c].early)
    <3>1. CASE (client.capturer = None \/ client.stopped) /\ client'.stopped = client.stopped
             /\ capturing' = capturing
      BY <1>0, <2>2, <3>1 DEF Screen, Filming
    <3>2. CASE client'.stopped /\ capturing' = capturing \ {client.capturer}
      BY <2>2, <3>2 DEF Screen, Filming
    <3> QED BY <2>3, <3>1, <3>2
  <2>8. act[c].client => /\ act[c].phase = "shown" => Followed(exec', "stop", "start") /\ Has(exec', "start")
                         /\ act[c].phase = "hidden" => Followed(exec', "start", "stop")
    BY <2>4 DEF Screen
  <2> QED BY <2>1, <2>5, <2>6, <2>7, <2>8 DEF Screen
<1>8. CASE StartVideoSource
  <2>1. exec # <<>> /\ Head(exec).do = "start" /\ exec' = Tail(exec) /\ act' = act
    BY <1>8 DEF StartVideoSource, Running, Done, appVars
  <2>2. client'.pc = client.pc /\ client'.capturer = client.capturer /\ client'.source = client.source
    BY <1>0, <1>8 DEF StartVideoSource, ClientType
  <2>3. \/ /\ client.capturer = None \/ ~client.stopped \/ ~client.source
           /\ client'.stopped = client.stopped /\ capturing' = capturing
        \/ ~client'.stopped /\ capturing' = capturing \cup {client.capturer}
    BY <1>0, <1>8 DEF StartVideoSource, ClientType
  <2>4. /\ Has(exec', "create") => Has(exec, "create")
        /\ Has(exec', "stop") <=> Has(exec, "stop")
        /\ Followed(exec, "stop", "start") => Followed(exec', "stop", "start")
        /\ Followed(exec, "start", "stop") => Followed(exec', "start", "stop") /\ Has(exec', "stop")
        /\ Before(exec, "create", "stop") => Before(exec', "create", "stop")
    BY <1>1, <2>1
  <2>5. Filming(c)' <=> Filming(c)
    BY <2>2 DEF Filming
  <2>6. Filming(c) => c \in capturing' /\ ~client'.stopped
    <3>1. CASE /\ client.capturer = None \/ ~client.stopped \/ ~client.source
               /\ client'.stopped = client.stopped /\ capturing' = capturing
      BY <1>0, <3>1 DEF Screen, Filming
    <3>2. CASE ~client'.stopped /\ capturing' = capturing \cup {client.capturer}
      BY <3>2 DEF Filming
    <3> QED BY <2>3, <3>1, <3>2
  <2>7. act[c].client => /\ act[c].phase = "shown" => Followed(exec', "stop", "start")
                         /\ act[c].phase = "hidden" => Followed(exec', "start", "stop") /\ Has(exec', "stop")
    BY <2>4 DEF Screen
  <2>8. Has(exec', "create") /\ ~act'[c].early =>
          /\ ~client'.stopped /\ Before(exec', "create", "stop")
          /\ act'[c].client /\ act'[c].phase = "hidden" => Has(exec', "stop")
    BY <2>1, <2>3, <2>4 DEF Screen
  <2> QED BY <2>1, <2>2, <2>5, <2>6, <2>7, <2>8 DEF Screen
<1>9. CASE CloseInternal
  <2>1. exec # <<>> /\ Head(exec).do = "close" /\ exec' = Tail(exec) /\ act' = act
    BY <1>9 DEF CloseInternal, Running, Done, appVars
  <2>2. client'.pc = None
    BY <1>0, <1>9 DEF CloseInternal, ClientType
  <2>3. ~Filming(c)'
    BY <1>0, <2>2 DEF Filming
  <2>4. Has(exec, "close") /\ (Before(exec, "create", "close") => ~Has(exec', "create"))
    BY <1>1, <2>1
  <2>5. ~act[c].client /\ ~Has(exec', "create")
    BY <2>4 DEF Life, Ending, Making
  <2> QED BY <2>1, <2>3, <2>5 DEF Screen
<1> QED BY <1>2, <1>3, <1>4, <1>5, <1>6, <1>7, <1>8, <1>9 DEF ExecutorTask

\* A runnable of the UI thread that is not the first word of the room.
LEMMA UiStep ==
  ASSUME Types, SingleCall, NEW c \in Calls, Life(c), UiTask, ~OnConnected
  PROVE  /\ ui # <<>> /\ ui' = Tail(ui) /\ Head(ui).call = c
         /\ Head(ui).do \in {"description", "candidate", "remove", "hungUp", "error", "sdp", "ice"}
         /\ UNCHANGED <<client, conn, capturing, room>>
         /\ act'[c].phase = act[c].phase /\ act'[c].role = act[c].role /\ act'[c].early = act[c].early
         /\ (act'[c].client => act[c].client) /\ (act'[c].room => act[c].room)
         /\ Head(ui).do = "sdp" =>
              wire'[c] = IF act[c].room THEN Append(wire[c], "sdp") ELSE wire[c]
         /\ Head(ui).do = "ice" =>
              wire'[c] = IF act[c].room THEN Append(wire[c], "candidate") ELSE wire[c]
         /\ Head(ui).do \notin {"sdp", "ice"} => wire' = wire
         /\ \E s \in Seq(TaskType) :
              /\ exec' = exec \o s /\ \A d : One(s, d)
              /\ \A d : Has(s, d) =>
                   \/ d = "close" /\ ~act'[c].client
                   \/ d = "setRemote" /\ Head(ui).do = "description"
                   \/ d = "answer" /\ Head(ui).do = "description" /\ act[c].role # "initiator"
                   \/ d \in {"candidate", "remove"} /\ d = Head(ui).do
<1> DEFINE do == Head(ui).do
           Brings(s) == /\ exec' = exec \o s /\ \A d : One(s, d)
                        /\ \A d : Has(s, d) =>
                             \/ d = "close" /\ ~act'[c].client
                             \/ d = "setRemote" /\ do = "description"
                             \/ d = "answer" /\ do = "description" /\ act[c].role # "initiator"
                             \/ d \in {"candidate", "remove"} /\ d = do
<1>0. act \in [Calls -> ActType] /\ act[c] \in ActType /\ exec \in Seq(TaskType)
        /\ wire \in [Calls -> Seq({"sdp", "candidate"})]
  BY DEF Types, ExecTyped
<1>1. /\ ui # <<>> /\ ui' = Tail(ui) /\ UNCHANGED <<client, conn, capturing, room>>
  BY DEF UiTask, OnDescription, OnCandidate, OnHungUp, OnError, OnLocalDescription, OnIceCandidate,
         Handling, callVars
<1>2. Head(ui).call = c /\ Head(ui).of \in Nat
  BY <1>1, UiTakes, Assumptions
<1>3. <<>> \in Seq(TaskType) /\ \A d : ~Has(<<>>, d) /\ One(<<>>, d)
  BY QueueNone
<1> HIDE DEF do, Brings
<1>4. exec' = exec => Brings(<<>>)
  <2>1. exec \o <<>> = exec
    BY <1>0
  <2> QED BY <1>3, <2>1 DEF Brings
<1>5. CASE OnDescription
  <2>1. do = "description" /\ act' = act /\ wire' = wire
    BY <1>5 DEF OnDescription, Handling, appVars, do
  <2> DEFINE s == <<Task("setRemote", c)>>
             t == <<Task("setRemote", c), Task("answer", c)>>
  <2>2. \/ exec' = exec \o <<>> \/ exec' = exec \o s
        \/ exec' = exec \o t /\ act[c].role # "initiator"
    BY <1>2, <1>5 DEF OnDescription, Execute
  <2>3. s \in Seq(TaskType) /\ (\A d : Has(s, d) <=> d = "setRemote") /\ (\A d : One(s, d))
    BY Assumptions, OneTask DEF Tasks
  <2>4. t \in Seq(TaskType) /\ (\A d : Has(t, d) <=> d \in {"setRemote", "answer"}) /\ (\A d : One(t, d))
    BY AnswerHas
  <2> HIDE DEF s, t
  <2>5. \E q \in Seq(TaskType) : Brings(q)
    <3>1. CASE exec' = exec \o <<>>
      <4>1. Brings(<<>>)
        BY <1>3, <3>1 DEF Brings
      <4> QED BY <1>3, <4>1
    <3>2. CASE exec' = exec \o s
      <4>1. Brings(s)
        BY <2>1, <2>3, <3>2 DEF Brings
      <4> QED BY <2>3, <4>1
    <3>3. CASE exec' = exec \o t /\ act[c].role # "initiator"
      <4>1. \A d : Has(t, d) => d = "setRemote" \/ d = "answer"
        BY <2>4
      <4>2. Brings(t)
        BY <2>1, <2>4, <3>3, <4>1 DEF Brings
      <4> QED BY <2>4, <4>2
    <3> QED BY <2>2, <3>1, <3>2, <3>3
  <2> QED BY <1>1, <1>2, <2>1, <2>5 DEF do, Brings
<1>6. CASE OnCandidate
  <2>1. do \in {"candidate", "remove"} /\ act' = act /\ wire' = wire
    BY <1>6 DEF OnCandidate, Handling, appVars, do
  <2> DEFINE s == <<Task(do, Head(ui).of)>>
  <2>2. exec' = exec \o <<>> \/ exec' = exec \o s
    BY <1>6 DEF OnCandidate, Execute, do
  <2>3. do \in Tasks
    BY <2>1 DEF Tasks
  <2>4. s \in Seq(TaskType) /\ (\A d : Has(s, d) <=> d = do) /\ (\A d : One(s, d))
    BY <1>2, <2>3, OneTask
  <2> HIDE DEF s
  <2>5. \E q \in Seq(TaskType) : Brings(q)
    <3>1. exec' = exec \o <<>> => Brings(<<>>)
      BY <1>3 DEF Brings
    <3>2. exec' = exec \o s => Brings(s)
      BY <2>1, <2>4 DEF Brings
    <3> QED BY <1>3, <2>2, <2>4, <3>1, <3>2
  <2> QED BY <1>1, <1>2, <2>1, <2>5 DEF do, Brings
<1>7. CASE OnHungUp
  <2> DEFINE b == Disconnected(act[c])
             s == Closing(c)
  <2>1. do = "hungUp" /\ act' = [act EXCEPT ![c] = b] /\ wire' = wire /\ exec' = exec \o s
    BY <1>2, <1>7 DEF OnHungUp, Handling, Execute, do
  <2>2. s \in Seq(TaskType) /\ (\A d : Has(s, d) <=> d = "close" /\ act[c].client)
    BY ClosingHas
  <2>3. \A d : One(s, d)
    BY ClosingOne
  <2>4. b.phase = act[c].phase /\ ~b.client /\ ~b.room /\ b.role = act[c].role /\ b.early = act[c].early
    BY <1>0, ActFields
  <2> HIDE DEF b, s
  <2>5. act'[c] = b
    BY <1>0, <2>1
  <2>6. \E q \in Seq(TaskType) : Brings(q)
    <3>1. Brings(s)
      BY <2>1, <2>2, <2>3, <2>4, <2>5 DEF Brings
    <3> QED BY <2>2, <3>1
  <2> QED BY <1>1, <1>2, <2>1, <2>4, <2>5, <2>6 DEF do, Brings
<1>8. CASE OnError
  <2> DEFINE b == Reported(act[c])
             s == ClosedBy(c, b)
  <2>1. do = "error" /\ act' = [act EXCEPT ![c] = b] /\ wire' = wire /\ exec' = exec \o s
    BY <1>2, <1>8 DEF OnError, Handling, Execute, do
  <2>2. s \in Seq(TaskType) /\ (\A d : Has(s, d) <=> d = "close" /\ act[c].client /\ ~b.client)
    BY ClosingHas
  <2>3. \A d : One(s, d)
    BY ClosingOne
  <2>4. b.phase = act[c].phase /\ (b.client => act[c].client) /\ (b.room => act[c].room)
          /\ b.role = act[c].role /\ b.early = act[c].early
    BY <1>0, ActFields
  <2> HIDE DEF b, s
  <2>5. act'[c] = b
    BY <1>0, <2>1
  <2>6. \E q \in Seq(TaskType) : Brings(q)
    <3>1. Brings(s)
      BY <2>1, <2>2, <2>3, <2>4, <2>5 DEF Brings
    <3> QED BY <2>2, <3>1
  <2> QED BY <1>1, <1>2, <2>1, <2>4, <2>5, <2>6 DEF do, Brings
<1>9. CASE OnLocalDescription
  <2>1. do = "sdp" /\ act' = act /\ exec' = exec
    BY <1>9 DEF OnLocalDescription, Handling, do
  <2>2. wire'[c] = IF act[c].room THEN Append(wire[c], "sdp") ELSE wire[c]
    BY <1>0, <1>2, <1>9 DEF OnLocalDescription
  <2>3. \E q \in Seq(TaskType) : Brings(q)
    BY <1>3, <1>4, <2>1
  <2> QED BY <1>1, <1>2, <2>1, <2>2, <2>3 DEF do, Brings
<1>10. CASE OnIceCandidate
  <2>1. do = "ice" /\ act' = act /\ exec' = exec
    BY <1>10 DEF OnIceCandidate, Handling, do
  <2>2. wire'[c] = IF act[c].room THEN Append(wire[c], "candidate") ELSE wire[c]
    BY <1>0, <1>2, <1>10 DEF OnIceCandidate
  <2>3. \E q \in Seq(TaskType) : Brings(q)
    BY <1>3, <1>4, <2>1
  <2> QED BY <1>1, <1>2, <2>1, <2>2, <2>3 DEF do, Brings
<1> QED BY <1>5, <1>6, <1>7, <1>8, <1>9, <1>10 DEF UiTask

\* A step of the user that neither begins a call nor hides or shows it.
LEMMA UserStep ==
  ASSUME Types, NEW c \in Calls, HangUp(c) \/ Back(c) \/ DialogOk(c) \/ Destroy(c)
  PROVE  /\ UNCHANGED <<client, conn, capturing, ui, room, wire>>
         /\ act'[c].role = act[c].role /\ act'[c].early = act[c].early
         /\ (act'[c].client => act[c].client /\ act'[c].phase = act[c].phase)
         /\ (act'[c].room => act[c].room)
         /\ \E s \in Seq(TaskType) :
              /\ exec' = exec \o s /\ \A d : Has(s, d) => ~act'[c].client /\ d \in {"stop", "close"}
<1>0. act \in [Calls -> ActType] /\ act[c] \in ActType /\ exec \in Seq(TaskType)
  BY DEF Types, ExecTyped
<1> DEFINE b == Disconnected(act[c])
<1>1. b \in ActType /\ b.phase = act[c].phase /\ ~b.client /\ ~b.room /\ b.role = act[c].role
        /\ b.early = act[c].early
  BY <1>0, ActFields, ActChanges
<1> HIDE DEF b
<1>2. UNCHANGED <<client, conn, capturing, ui, room, wire>>
  BY DEF HangUp, Back, DialogOk, Destroy, callVars, queueVars
<1> DEFINE s == Closing(c)
<1>3. s \in Seq(TaskType) /\ \A d : Has(s, d) <=> d = "close" /\ act[c].client
  BY ClosingHas
<1>4. CASE HangUp(c) \/ DialogOk(c)
  <2>1. PICK a \in {b, [b EXCEPT !.dialog = FALSE]} : act' = [act EXCEPT ![c] = a]
    BY <1>0, <1>4 DEF HangUp, DialogOk, b
  <2>2. a.phase = act[c].phase /\ ~a.client /\ ~a.room /\ a.role = act[c].role /\ a.early = act[c].early
    BY <1>1 DEF ActType
  <2>3. act'[c] = a
    BY <1>0, <2>1
  <2>4. exec' = exec \o s
    BY <1>4 DEF HangUp, DialogOk, Execute
  <2> HIDE DEF s
  <2>5. \A d : Has(s, d) => ~act'[c].client /\ d \in {"stop", "close"}
    BY <1>3, <2>2, <2>3
  <2> QED BY <1>2, <1>3, <2>2, <2>3, <2>4, <2>5
<1>5. CASE Back(c)
  <2>1. act' = [act EXCEPT ![c] = [act[c] EXCEPT !.finishing = TRUE]] /\ exec' = exec
    BY <1>0, <1>5 DEF Back, queueVars
  <2>2. /\ act'[c].phase = act[c].phase /\ act'[c].client = act[c].client /\ act'[c].room = act[c].room
        /\ act'[c].role = act[c].role /\ act'[c].early = act[c].early
    BY <1>0, <2>1 DEF ActType
  <2>3. exec' = exec \o <<>> /\ <<>> \in Seq(TaskType) /\ \A d : ~Has(<<>>, d)
    BY <1>0, <2>1, QueueNone
  <2> QED BY <1>2, <2>2, <2>3
<1>6. CASE Destroy(c)
  <2> DEFINE a == [b EXCEPT !.phase = "gone"]
             r == IF act[c].client THEN <<Task("stop", c)>> \o Closing(c) ELSE <<>>
  <2>1. act' = [act EXCEPT ![c] = a] /\ exec' = exec \o r
    BY <1>0, <1>6 DEF Destroy, Execute, b
  <2>2. ~a.client /\ ~a.room /\ a.role = act[c].role /\ a.early = act[c].early
    BY <1>1 DEF ActType
  <2>3. r \in Seq(TaskType) /\ (\A d : Has(r, d) => d \in {"stop", "close"})
    <3>1. CASE act[c].client
      <4> DEFINE p == <<Task("stop", c)>>
      <4>1. p \in Seq(TaskType) /\ \A d : Has(p, d) <=> d = "stop"
        BY Assumptions, OneTask DEF Tasks
      <4>2. r = p \o s
        BY <3>1
      <4> HIDE DEF p, r, s
      <4>3. p \o s \in Seq(TaskType) /\ \A d : Has(p \o s, d) <=> (Has(p, d) \/ Has(s, d))
        BY <1>3, <4>1, QueueConcat
      <4> QED BY <1>3, <4>1, <4>2, <4>3
    <3>2. CASE ~act[c].client
      BY <3>2, QueueNone
    <3> QED BY <3>1, <3>2
  <2> HIDE DEF a, r
  <2>4. act'[c] = a
    BY <1>0, <2>1
  <2> QED BY <1>2, <2>1, <2>2, <2>3, <2>4
<1> QED BY <1>4, <1>5, <1>6

LEMMA ConnectedScreen ==
  ASSUME Types, SingleCall, NEW c \in Calls, Life(c), Screen(c), OnConnected
  PROVE  Screen(c)'
<1> DEFINE n == Head(ui).of
<1>1. /\ ui # <<>> /\ Head(ui).do = "connected" /\ ui' = Tail(ui) /\ n \in 0..MaxKept
      /\ UNCHANGED <<conn, capturing, room, wire, faults, moves>>
  BY ConnectedCases
<1>2. Head(ui).call = c /\ act[c] \in ActType /\ Connecting(c)
  BY <1>1, UiTakes
<1>3. PICK camera \in BOOLEAN, a \in ActType :
        /\ a = Answered(c, camera)
        /\ \/ /\ a.client
              /\ act' = [act EXCEPT ![c] = [a EXCEPT !.early =
                   a.phase # "shown" \/ \E i \in 1..Len(exec) : exec[i].do = "stop"]]
              /\ client' = [client EXCEPT !.capturer = IF camera THEN c ELSE None]
              /\ exec' = exec \o Asks(c, n) /\ dead' = dead
           \/ /\ ~a.client
              /\ act' = [act EXCEPT ![c] = a]
              /\ exec' = exec \o ClosedBy(c, a) /\ client' = client /\ dead' = TRUE
  BY <1>2, ConnectedCases DEF Answered
<1> HIDE DEF n
<1>4. act \in [Calls -> ActType] /\ client \in ClientType /\ exec \in Seq(TaskType)
  BY DEF Types, ExecTyped
<1>5. a.phase = act[c].phase /\ (a.client => act[c].client) /\ a.early = act[c].early
  BY <1>3, AnsweredFields
<1>6. CASE a.client
  <2> DEFINE early == a.phase # "shown" \/ \E i \in 1..Len(exec) : exec[i].do = "stop"
             b == [a EXCEPT !.early = early]
  <2>1. /\ act' = [act EXCEPT ![c] = b]
        /\ client' = [client EXCEPT !.capturer = IF camera THEN c ELSE None]
        /\ exec' = exec \o Asks(c, n)
    BY <1>3, <1>6
  <2>2. early \in BOOLEAN /\ (~early => a.phase = "shown" /\ ~Has(exec, "stop"))
    BY <1>4 DEF Has
  <2> HIDE DEF early
  <2>3. b.early = early /\ b.phase = act[c].phase /\ b.client = a.client
    BY <1>5, <2>2 DEF ActType
  <2> HIDE DEF b
  <2>4. act'[c] = b
    BY <1>4, <2>1
  <2>5. client'.pc = client.pc /\ client'.stopped = client.stopped
    BY <1>4, <2>1 DEF ClientType
  <2>6. ~client.stopped /\ client.pc # c /\ ~Has(exec, "create")
    BY <1>2 DEF Life, Owned, Started
  <2>7. ~Filming(c)'
    BY <2>5, <2>6 DEF Filming
  <2> DEFINE s == Asks(c, n)
  <2>8. s \in Seq(TaskType) /\ ~Has(s, "stop") /\ ~Has(s, "start") /\ Before(s, "create", "stop")
    BY <1>1, AsksHas DEF n
  <2> HIDE DEF s
  <2>9. /\ \A d : Has(exec', d) <=> (Has(exec, d) \/ Has(s, d))
        /\ \A d, e : Before(exec, d, e) /\ Before(s, d, e) /\ (Has(s, d) => ~Has(exec, e)) =>
             Before(exec', d, e)
        /\ \A d, e : Followed(exec, d, e) /\ ~Has(s, d) => Followed(exec', d, e)
    BY <1>4, <2>1, <2>8, QueueConcat DEF s
  <2>10. /\ Followed(exec, "stop", "start") => Followed(exec', "stop", "start")
         /\ Followed(exec, "start", "stop") => Followed(exec', "start", "stop")
    BY <2>8, <2>9
  <2>11. Before(exec, "create", "stop")
    BY <2>6 DEF Before, Has
  <2>12. ~early => Before(exec', "create", "stop")
    BY <2>2, <2>8, <2>9, <2>11
  <2>13. act'[c].client => /\ act'[c].phase = "shown" => Followed(exec', "stop", "start")
                           /\ act'[c].phase = "hidden" => Followed(exec', "start", "stop")
    BY <1>5, <1>6, <2>3, <2>4, <2>10 DEF Screen
  <2>14. ~act'[c].early => /\ ~client'.stopped /\ Before(exec', "create", "stop")
                           /\ act'[c].phase # "hidden"
    BY <1>5, <2>2, <2>3, <2>4, <2>5, <2>6, <2>12
  <2> QED BY <2>7, <2>13, <2>14 DEF Screen
<1>7. CASE ~a.client
  <2>1. act'[c] = a /\ exec' = exec \o ClosedBy(c, a) /\ client' = client
    BY <1>3, <1>4, <1>7
  <2> DEFINE s == ClosedBy(c, a)
  <2>2. s \in Seq(TaskType) /\ ~Has(s, "create")
    BY ClosingHas
  <2> HIDE DEF s
  <2>3. exec' = exec \o s
    BY <2>1 DEF s
  <2> QED BY <1>1, <1>5, <1>7, <2>1, <2>2, <2>3, ScreenMore
<1> QED BY <1>6, <1>7

LEMMA UiScreen ==
  ASSUME Types, SingleCall, NEW c \in Calls, Life(c), Screen(c), UiTask
  PROVE  Screen(c)'
<1>1. CASE OnConnected
  BY <1>1, ConnectedScreen
<1>2. CASE ~OnConnected
  <2>1. /\ UNCHANGED <<client, conn, capturing, room>>
        /\ act'[c].phase = act[c].phase /\ act'[c].early = act[c].early
        /\ act'[c].client => act[c].client
    BY <1>2, UiStep
  <2>2. PICK s \in Seq(TaskType) :
          /\ exec' = exec \o s
          /\ \A d : Has(s, d) => \/ d = "close" \/ d = "setRemote" \/ d = "answer"
                                 \/ d \in {"candidate", "remove"}
    BY <1>2, UiStep
  <2>3. ~Has(s, "create") /\ ~Has(s, "stop") /\ ~Has(s, "start")
    BY <2>2
  <2> QED BY <2>1, <2>2, <2>3, ScreenMore
<1> QED BY <1>1, <1>2

LEMMA UserScreen ==
  ASSUME Types, SingleCall, NEW c \in Calls, Life(c), Screen(c), User(c)
  PROVE  Screen(c)'
<1>0. act \in [Calls -> ActType] /\ act[c] \in ActType /\ exec \in Seq(TaskType) /\ client \in ClientType
  BY DEF Types, ExecTyped
<1>1. CASE CreateActivity(c)
  <2>1. /\ act[c].phase = "none" /\ act'[c].phase = "shown"
        /\ exec' = exec \o <<Task("factory", c), Task("start", c)>>
    BY <1>0, <1>1 DEF CreateActivity, Execute
  <2>2. client'.pc = None
    BY <1>0, <1>1 DEF CreateActivity, ClientType
  <2>3. ~Filming(c)'
    BY <2>2, Assumptions DEF Filming
  <2>4. exec = <<>>
    BY <2>1 DEF Life, Unborn
  <2> DEFINE s == <<Task("factory", c), Task("start", c)>>
  <2>5. s \in Seq(TaskType) /\ \A d : Has(s, d) <=> d \in {"factory", "start"}
    BY StartHas
  <2> HIDE DEF s
  <2>6. exec' = s
    BY <2>1, <2>4, <2>5 DEF s
  <2>7. ~Has(s, "create") /\ ~Has(s, "stop")
    BY <2>5
  <2>8. Followed(s, "stop", "start")
    BY <2>7 DEF Followed, Has
  <2> QED BY <2>1, <2>3, <2>6, <2>7, <2>8 DEF Screen
<1>2. CASE HangUp(c) \/ Back(c) \/ DialogOk(c) \/ Destroy(c)
  <2>1. /\ UNCHANGED <<client, conn, capturing, ui, room, wire>> /\ act'[c].early = act[c].early
        /\ act'[c].client => act[c].client /\ act'[c].phase = act[c].phase
    BY <1>2, UserStep
  <2>2. PICK s \in Seq(TaskType) :
          exec' = exec \o s /\ \A d : Has(s, d) => ~act'[c].client /\ d \in {"stop", "close"}
    BY <1>2, UserStep
  <2>3. ~Has(s, "create")
    BY <2>2
  <2>4. act'[c].client => ~Has(s, "stop") /\ ~Has(s, "start")
    BY <2>2
  <2> QED BY <2>1, <2>2, <2>3, <2>4, ScreenMore
<1>3. CASE Stop(c) \/ Start(c)
  <2>1. PICK phase \in {"shown", "hidden"}, running \in BOOLEAN, do \in {"stop", "start"} :
          /\ act' = [act EXCEPT ![c] = [act[c] EXCEPT !.phase = phase, !.running = running]]
          /\ exec' = exec \o (IF act[c].client THEN <<Task(do, c)>> ELSE <<>>)
          /\ phase = "shown" <=> do = "start"
    <3>1. CASE Stop(c)
      BY <1>0, <3>1 DEF Stop, Execute
    <3>2. CASE Start(c)
      BY <1>0, <3>2 DEF Start, Execute
    <3> QED BY <1>3, <3>1, <3>2
  <2>2. UNCHANGED <<client, conn, capturing, ui, room>>
    BY <1>3 DEF Stop, Start, callVars
  <2> DEFINE a == [act[c] EXCEPT !.phase = phase, !.running = running]
             s == IF act[c].client THEN <<Task(do, c)>> ELSE <<>>
  <2>3. a.phase = phase /\ a.client = act[c].client /\ a.early = act[c].early
    BY <1>0 DEF ActType
  <2>4. /\ s \in Seq(TaskType) /\ \A d : Has(s, d) <=> d = do /\ act[c].client
    <3>1. CASE act[c].client
      <4>1. c \in Nat /\ do \in Tasks
        BY Assumptions DEF Tasks
      <4> QED BY <3>1, <4>1, OneTask
    <3>2. CASE ~act[c].client
      BY <3>2, QueueNone
    <3> QED BY <3>1, <3>2
  <2> HIDE DEF a, s
  <2>5. act'[c] = a /\ exec' = exec \o s
    BY <1>0, <2>1 DEF a, s
  <2>6. CASE ~act[c].client
    <3>1. ~Has(s, "create") /\ ~act'[c].client
      BY <2>3, <2>4, <2>5, <2>6
    <3> QED BY <2>2, <2>3, <2>4, <2>5, <3>1, ScreenMore
  <2>7. CASE act[c].client
    <3>1. /\ \A d : Has(exec', d) <=> (Has(exec, d) \/ Has(s, d))
          /\ \A d, e : Before(exec, d, e) /\ Before(s, d, e) /\ (Has(s, d) => ~Has(exec, e)) =>
               Before(exec', d, e)
          /\ \A d, e : Followed(exec, d, e) /\ ~Has(s, d) => Followed(exec', d, e)
          /\ \A d, e : Has(s, e) /\ ~Has(s, d) => Followed(exec', d, e)
      BY <1>0, <2>4, <2>5, QueueConcat
    <3>2. Has(s, do) /\ (do = "stop" => ~Has(s, "start")) /\ (do = "start" => ~Has(s, "stop"))
            /\ ~Has(s, "create")
      BY <2>4, <2>7
    <3>3. /\ do = "stop" => Followed(exec', "start", "stop") /\ Has(exec', "stop")
          /\ do = "start" => Followed(exec', "stop", "start") /\ Has(exec', "start")
      BY <3>1, <3>2
    <3>4. Before(s, "create", "stop")
      BY <3>2 DEF Before, Has
    <3>5. Before(exec, "create", "stop") => Before(exec', "create", "stop")
      BY <3>1, <3>2, <3>4
    <3>6. Has(exec', "create") => Has(exec, "create")
      BY <3>1, <3>2
    <3>7. (phase = "shown" /\ do = "start") \/ (phase = "hidden" /\ do = "stop")
      BY <2>1
    <3>8. act'[c].phase = phase /\ act'[c].early = act[c].early
      BY <2>3, <2>5
    <3>9. Filming(c)' <=> Filming(c)
      BY <2>2 DEF Filming
    <3> QED BY <2>2, <3>3, <3>5, <3>6, <3>7, <3>8, <3>9 DEF Screen
  <2> QED BY <2>6, <2>7
<1> QED BY <1>1, <1>2, <1>3 DEF User

\* An answer of the library.
LEMMA LibraryStep ==
  ASSUME Types, NEW c \in Calls, Refuse(c) \/ LoseConnection(c) \/ OtherError(c)
  PROVE  /\ UNCHANGED <<act, client, ui, room, wire, capturing>>
         /\ conn'[c].state = conn[c].state /\ conn'[c].added = conn[c].added
         /\ conn'[c].local = conn[c].local /\ conn'[c].remote = conn[c].remote
         /\ \/ conn'[c].operations = conn[c].operations
            \/ conn[c].operations # <<>> /\ conn'[c].operations = Tail(conn[c].operations)
         /\ \E s \in Seq(TaskType) : exec' = exec \o s /\ \A d : Has(s, d) => d \in {"error", "hungUp"}
<1>0. conn \in [Calls -> ConnType] /\ conn[c] \in ConnType
  BY DEF Types
<1>1. UNCHANGED <<act, client, ui, room, wire, capturing>>
  BY DEF Refuse, LoseConnection, OtherError, appVars, callVars
<1> DEFINE p == <<Task("error", None)>>
           q == <<Task("hungUp", None)>>
<1>2. /\ p \in Seq(TaskType) /\ (\A d : Has(p, d) <=> d = "error")
      /\ q \in Seq(TaskType) /\ (\A d : Has(q, d) <=> d = "hungUp")
  BY OneTask DEF Tasks, None
<1>3. exec' = exec \o p \/ exec' = exec \o q
  BY DEF Refuse, LoseConnection, OtherError, Execute
<1> HIDE DEF p, q
<1>4. \E s \in Seq(TaskType) : exec' = exec \o s /\ \A d : Has(s, d) => d \in {"error", "hungUp"}
  BY <1>2, <1>3
<1>5. CASE conn' = conn
  BY <1>1, <1>4, <1>5
<1>6. CASE Refuse(c)
  <2> DEFINE t == Tail(conn[c].operations)
  <2>1. conn' = [conn EXCEPT ![c] = [conn[c] EXCEPT !.operations = t]] /\ conn[c].operations # <<>>
    BY <1>0, <1>6 DEF Refuse
  <2> HIDE DEF t
  <2>2. /\ conn'[c].state = conn[c].state /\ conn'[c].added = conn[c].added
        /\ conn'[c].local = conn[c].local /\ conn'[c].remote = conn[c].remote
        /\ conn'[c].operations = t
    BY <1>0, <2>1 DEF ConnType
  <2> QED BY <1>1, <1>4, <2>1, <2>2 DEF t
<1>7. LoseConnection(c) \/ OtherError(c) => conn' = conn
  BY DEF LoseConnection, OtherError, callVars
<1> QED BY <1>5, <1>6, <1>7

LEMMA LibraryScreen ==
  ASSUME Types, NEW c \in Calls, Screen(c), Library(c)
  PROVE  Screen(c)'
<1>1. UNCHANGED <<act, ui, room, capturing>>
  BY DEF Library, Answer, Refuse, LoseConnection, OtherError, appVars, callVars
<1>2. client'.pc = client.pc /\ client'.capturer = client.capturer
        /\ client'.source = client.source /\ client'.stopped = client.stopped
  BY AnswerFields, LibraryStep DEF Library
<1>3. \E s \in Seq(TaskType) :
        exec' = exec \o s /\ \A d : Has(s, d) => d \in {"error", "setLocal", "setDone", "ice", "hungUp"}
  <2>1. CASE Answer(c)
    BY <2>1, AnswerFields
  <2>2. CASE Refuse(c) \/ LoseConnection(c) \/ OtherError(c)
    <3>1. PICK s \in Seq(TaskType) : exec' = exec \o s /\ \A d : Has(s, d) => d \in {"error", "hungUp"}
      BY <2>2, LibraryStep
    <3>2. \A d : Has(s, d) => d \in {"error", "setLocal", "setDone", "ice", "hungUp"}
      BY <3>1
    <3> QED BY <3>1, <3>2
  <2> QED BY <2>1, <2>2 DEF Library
<1>4. PICK s \in Seq(TaskType) :
        exec' = exec \o s /\ \A d : Has(s, d) => d \in {"error", "setLocal", "setDone", "ice", "hungUp"}
  BY <1>3
<1>5. ~Has(s, "create") /\ ~Has(s, "stop") /\ ~Has(s, "start")
  BY <1>4
<1> QED BY <1>1, <1>2, <1>4, <1>5, ScreenMore

LEMMA RoomScreen == ASSUME Types, NEW c \in Calls, Screen(c), Room(c) PROVE Screen(c)'
<1>1. UNCHANGED <<act, client, capturing, exec>>
  BY DEF Room, RoomConnected, RoomDescription, RoomCandidate, RoomRemoved, RoomClosed, Hear,
         appVars, callVars
<1> QED BY <1>1 DEF Screen, Filming

LEMMA InitScreen == ASSUME Init, NEW c \in Calls PROVE Screen(c)
<1>1. exec = <<>> /\ ~act[c].client /\ client.pc # c
  BY Assumptions DEF Init
<1>2. ~Has(exec, "create")
  BY <1>1, QueueNone
<1> QED BY <1>1, <1>2 DEF Screen, Filming

LEMMA NextScreen ==
  ASSUME Types, SingleCall, NEW c \in Calls, Life(c), Screen(c), [Next]_vars
  PROVE  Screen(c)'
<1>1. \A d \in Calls : d = c
  BY DEF SingleCall
<1>2. CASE UNCHANGED vars
  BY <1>2 DEF vars, appVars, callVars, queueVars, Screen, Filming
<1> QED BY <1>1, <1>2, UiScreen, ExecScreen, UserScreen, LibraryScreen, RoomScreen DEF Next

\* The camera films while the call is on the screen and does not when it is hidden, once the
\* threads have nothing left to do, unless the executor was to stop it when the room answered.
THEOREM CameraFollows == ASSUME SingleCall PROVE Spec => []CaptureFollowsScreen
<1> DEFINE Inv == Types /\ \A c \in Calls : Quiet(c) /\ Life(c) /\ Screen(c)
<1>1. Init => Inv
  BY InitTypes, QuietInit, InitLife, InitScreen
<1>2. Inv /\ [Next]_vars => Inv'
  BY NextTypes, QuietNext, NextLife, NextScreen
<1>3. Inv => CaptureFollowsScreen
  <2> SUFFICES ASSUME Inv, NEW c \in Calls, Idle, client.pc = c, client.capturer = c
      PROVE  /\ act[c].phase = "shown" => c \in capturing
             /\ act[c].phase = "hidden" /\ ~act[c].early => c \notin capturing
    BY DEF CaptureFollowsScreen
  <2>1. ~Has(exec, "close") /\ ~Has(exec, "start") /\ ~Has(exec, "stop")
    BY QueueNone DEF Idle
  <2>2. act[c].client
    BY <2>1, Assumptions DEF Life, Ending, Shut
  <2>3. Filming(c)
    BY DEF Filming
  <2> QED BY <2>1, <2>2, <2>3 DEF Screen
<1> QED BY <1>1, <1>2, <1>3, PTL DEF Spec

-----------------------------------------------------------------------------
(* The descriptions.                                                        *)

Desc(c) == Sides(c) /\ LocalOnce(c) /\ RemoteOnce(c) /\ Turns(c) /\ Sending(c)

\* Of what is in D, r has what q has or less, in the same order.
Less(D, r, q) ==
  \A d \in D : /\ Has(r, d) => Has(q, d)
               /\ One(q, d) => One(r, d)
               /\ \A e \in D : Before(q, d, e) => Before(r, d, e)

Talk == {"offer", "answer", "setRemote", "setLocal", "setDone", "ice"}
Words == {"connected", "description", "sdp", "ice"}

LEMMA LessTail == ASSUME NEW S, NEW q \in Seq(S), q # <<>>, NEW D PROVE Less(D, Tail(q), q)
BY QueueTail DEF Less

LEMMA LessMore ==
  ASSUME NEW S, NEW q \in Seq(S), NEW s \in Seq(S), NEW D, \A d \in D : ~Has(s, d)
  PROVE  Less(D, q \o s, q)
<1>1. /\ \A d : Has(q \o s, d) <=> (Has(q, d) \/ Has(s, d))
      /\ \A d : One(q, d) /\ One(s, d) /\ (Has(s, d) => ~Has(q, d)) => One(q \o s, d)
      /\ \A a, b : Before(q, a, b) /\ Before(s, a, b) /\ (Has(s, a) => ~Has(q, b)) => Before(q \o s, a, b)
  BY QueueConcat
<1>2. \A d \in D : One(s, d) /\ \A e \in D : Before(s, d, e)
  BY DEF One, Before, Has
<1> QED BY <1>1, <1>2 DEF Less

LEMMA LessSame == ASSUME NEW D, NEW q PROVE Less(D, q, q)
BY DEF Less

LEMMA LessThen ==
  ASSUME NEW D, NEW p, NEW q, NEW r, Less(D, p, q), Less(D, q, r)
  PROVE  Less(D, p, r)
BY DEF Less

\* A step that says nothing new: the queues and the operations lose something or nothing.
LEMMA DescFrame ==
  ASSUME NEW c \in Calls, Desc(c), Less(Talk, exec', exec), Less(Words, ui', ui),
         Has(ui', "connected") <=> Has(ui, "connected"),
         conn'[c].local = conn[c].local, conn'[c].remote = conn[c].remote,
         \A o : /\ Asked(conn'[c].operations, o) => Asked(conn[c].operations, o)
                /\ AskedOne(conn[c].operations, o) => AskedOne(conn'[c].operations, o),
         conn[c].operations = <<>> => conn'[c].operations = <<>>,
         conn'[c].state = "none" => conn[c].state = "none" /\ conn'[c].added = conn[c].added,
         room'[c].connected = room[c].connected, room'[c].role = room[c].role,
         room'[c].described = room[c].described, wire'[c] = wire[c], act'[c].role = act[c].role,
         client'.localSdp = client.localSdp,
         client'.isInitiator => client.isInitiator \/ Initiator(c),
         Initiator(c) /\ ~client'.isInitiator =>
           ~client.isInitiator \/ (conn'[c].operations = <<>> /\ ~client.localSdp),
         InUse(c)' => InUse(c) \/ ~conn[c].local,
         InUse(c)' /\ act'[c].room => act[c].room,
         InUse(c)' => (ToTell(c) \/ Has(ui, "sdp") => ToTell(c)' \/ Has(ui', "sdp"))
  PROVE  Desc(c)'
<1>1. /\ \A d \in Talk : (Has(exec', d) => Has(exec, d)) /\ (One(exec, d) => One(exec', d))
      /\ \A d, e \in Talk : Before(exec, d, e) => Before(exec', d, e)
      /\ \A d \in Words : (Has(ui', d) => Has(ui, d)) /\ (One(ui, d) => One(ui', d))
      /\ \A d, e \in Words : Before(ui, d, e) => Before(ui', d, e)
  BY DEF Less
<1>2. Initiator(c)' <=> Initiator(c)
  BY DEF Initiator
<1>3. Connecting(c)' <=> Connecting(c)
  BY DEF Connecting
<1>4. /\ Has(exec', "offer") => Has(exec, "offer")
      /\ Has(exec', "answer") => Has(exec, "answer")
      /\ Has(exec', "setRemote") => Has(exec, "setRemote")
      /\ Has(exec', "setLocal") => Has(exec, "setLocal")
      /\ Has(exec', "setDone") => Has(exec, "setDone")
      /\ Has(exec', "ice") => Has(exec, "ice")
      /\ One(exec, "setRemote") => One(exec', "setRemote")
      /\ One(exec, "setLocal") => One(exec', "setLocal")
      /\ One(exec, "setDone") => One(exec', "setDone")
      /\ Before(exec, "setDone", "setLocal") => Before(exec', "setDone", "setLocal")
      /\ Before(exec, "setDone", "ice") => Before(exec', "setDone", "ice")
  BY <1>1 DEF Talk
<1>5. /\ Has(ui', "description") => Has(ui, "description")
      /\ Has(ui', "sdp") => Has(ui, "sdp")
      /\ Has(ui', "ice") => Has(ui, "ice")
      /\ One(ui, "description") => One(ui', "description")
      /\ One(ui, "sdp") => One(ui', "sdp")
      /\ Before(ui, "sdp", "ice") => Before(ui', "sdp", "ice")
  BY <1>1 DEF Words
<1>6. Sides(c)'
  BY <1>2, <1>3, <1>4 DEF Desc, Sides, Initiator
<1>7. LocalOnce(c)'
  BY <1>4 DEF Desc, LocalOnce
<1>8. RemoteOnce(c)'
  BY <1>2, <1>4, <1>5 DEF Desc, RemoteOnce, Offered, Initiator
<1>9. Turns(c)'
  BY <1>2, <1>4, <1>5 DEF Desc, Turns, Initiator
<1>10. ToTell(c)' => ToTell(c)
  BY <1>2, <1>4 DEF ToTell, Initiator
<1>11. Sending(c)'
  <2>1. ToTell(c)' => /\ wire'[c] = <<>> /\ ~Has(ui', "sdp") /\ ~Has(ui', "ice")
                      /\ One(exec', "setDone") /\ Before(exec', "setDone", "ice")
    BY <1>4, <1>5, <1>10 DEF Desc, Sending
  <2>2. /\ Has(ui', "sdp") => wire'[c] = <<>>
        /\ One(ui', "sdp") /\ Before(ui', "sdp", "ice")
        /\ \A i \in DOMAIN wire'[c] : wire'[c][i] = "sdp" => i = 1
    BY <1>5 DEF Desc, Sending
  <2>3. InUse(c)' /\ act'[c].room /\ conn'[c].local /\ wire'[c] = <<>> => Has(ui', "sdp") \/ ToTell(c)'
    BY DEF Desc, Sending
  <2>4. InUse(c)' /\ wire'[c] # <<>> => wire'[c][1] = "sdp"
    <3>1. ~conn[c].local => wire[c] = <<>>
      BY DEF Desc, Turns
    <3>2. InUse(c) /\ wire[c] # <<>> => wire[c][1] = "sdp"
      BY DEF Desc, Sending
    <3> QED BY <3>1, <3>2
  <2> QED BY <2>1, <2>2, <2>3, <2>4 DEF Sending
<1> QED BY <1>6, <1>7, <1>8, <1>9, <1>11 DEF Desc

\* What a task of the executor changes at most, and what an event of the listener adds.
LEMMA TaskLess ==
  ASSUME Types, exec # <<>>, exec' = Tail(exec)
  PROVE  Less(Talk, exec', exec)
BY LessTail, TasksTail

LEMMA TellLess ==
  ASSUME Types, NEW do \in {"sdp", "ice", "hungUp", "error"}, Heard, Tell(do)
  PROVE  /\ do \in {"hungUp", "error"} => Less(Words, ui', ui)
         /\ \A d : Has(ui', d) <=> (Has(ui, d) \/ d = do)
         /\ \A d : One(ui, d) /\ (d = do => ~Has(ui, d)) => One(ui', d)
         /\ \A a, b : a # b /\ Before(ui, a, b) /\ (a = do => ~Has(ui, b)) => Before(ui', a, b)
<1> DEFINE e == Event(client.events, do, None)
<1>1. ui' = ui \o <<e>> /\ e \in EventType /\ e.do = do
  BY TellTypes
<1> HIDE DEF e
<1>2. /\ \A d : Has(ui', d) <=> (Has(ui, d) \/ d = do)
      /\ \A d : One(ui, d) /\ (d = do => ~Has(ui, d)) => One(ui', d)
      /\ \A a, b : a # b /\ Before(ui, a, b) /\ (a = do => ~Has(ui, b)) => Before(ui', a, b)
  BY <1>1, RunnablesMore
<1>3. ui \in Seq(EventType)
  BY DEF Types, UiTyped
<1>4. ASSUME do \in {"hungUp", "error"} PROVE Less(Words, ui', ui)
  <2>1. <<e>> \in Seq(EventType) /\ \A d : Has(<<e>>, d) <=> d = do
    BY <1>1, QueueOne
  <2>2. \A d \in Words : ~Has(<<e>>, d)
    BY <1>4, <2>1 DEF Words
  <2> QED BY <1>1, <1>3, <2>1, <2>2, LessMore
<1> QED BY <1>2, <1>4

\* A task that is not about the descriptions.
LEMMA PlainDesc ==
  ASSUME Types, NEW c \in Calls, Desc(c), exec # <<>>, exec' = Tail(exec), Head(exec).do # "setDone",
         UNCHANGED <<act, room, wire>>, Less(Words, ui', ui),
         Has(ui', "connected") <=> Has(ui, "connected"), Has(ui, "sdp") => Has(ui', "sdp"),
         conn'[c].local = conn[c].local, conn'[c].remote = conn[c].remote,
         conn'[c].operations = conn[c].operations \/ conn'[c].operations = <<>>,
         conn'[c].state = "none" => conn[c].state = "none" /\ conn'[c].added = conn[c].added,
         client'.localSdp = client.localSdp, client'.isInitiator = client.isInitiator,
         InUse(c)' => InUse(c)
  PROVE  Desc(c)'
<1>1. Less(Talk, exec', exec)
  BY TaskLess
<1>2. Has(exec', "setDone") <=> Has(exec, "setDone")
  BY TasksTail
<1>3. \A o : /\ Asked(conn'[c].operations, o) => Asked(conn[c].operations, o)
             /\ AskedOne(conn[c].operations, o) => AskedOne(conn'[c].operations, o)
  BY AskedNone
<1>4. conn[c].operations = <<>> => conn'[c].operations = <<>>
  OBVIOUS
<1>5. ToTell(c) \/ Has(ui, "sdp") => ToTell(c)' \/ Has(ui', "sdp")
  BY <1>2 DEF ToTell, Initiator
<1>6. Initiator(c) /\ ~client'.isInitiator =>
           ~client.isInitiator \/ (conn'[c].operations = <<>> /\ ~client.localSdp)
  OBVIOUS
<1>7. room'[c].connected = room[c].connected /\ room'[c].role = room[c].role
        /\ room'[c].described = room[c].described /\ wire'[c] = wire[c]
        /\ act'[c].role = act[c].role /\ (act'[c].room => act[c].room)
  OBVIOUS
<1>8. client'.isInitiator => client.isInitiator \/ Initiator(c)
  OBVIOUS
<1> QED BY <1>1, <1>3, <1>4, <1>5, <1>6, <1>7, <1>8, DescFrame

\* createPeerConnectionInternal.
LEMMA CreateDesc ==
  ASSUME Types, SingleCall, NEW c \in Calls, Life(c), Desc(c), CreatePeerConnection
  PROVE  Desc(c)'
<1>0. client \in ClientType /\ conn \in [Calls -> ConnType] /\ conn[c] \in ConnType
  BY DEF Types
<1>1. /\ exec # <<>> /\ Head(exec).do = "create" /\ Head(exec).of = c
      /\ UNCHANGED <<act, wire, room, ui>>
  <2>1. Running("create") /\ UNCHANGED <<act, wire, room, ui>>
    BY DEF CreatePeerConnection, appVars
  <2>2. exec # <<>> /\ Head(exec).do = "create" /\ Head(exec).of \in Calls
    BY <2>1, TaskRuns DEF Tasks
  <2> QED BY <2>1, <2>2 DEF SingleCall
<1>2. /\ Tail(exec) \in Seq(TaskType) /\ (\A d : Has(exec, d) <=> (Has(Tail(exec), d) \/ d = "create"))
      /\ exec \in Seq(TaskType)
  BY <1>1, TasksTail
<1>3. Less(Talk, exec', exec) /\ (Has(exec, "setDone") => Has(exec', "setDone"))
  <2>1. Less(Talk, Tail(exec), exec)
    BY <1>1, <1>2, LessTail
  <2>2. exec' = Tail(exec)
    BY DEF CreatePeerConnection, Done
  <2> QED BY <1>2, <2>1, <2>2
<1>4. ToTell(c) /\ conn'[c].local = conn[c].local /\ conn'[c].remote = conn[c].remote => ToTell(c)'
  BY <1>1, <1>3 DEF ToTell, Initiator
<1>5. Less(Words, ui', ui)
  BY <1>1, LessSame
<1>6. CASE ~client.factory \/ client.isError
  <2>1. /\ client'.pc = client.pc /\ client'.isError = client.isError
        /\ client'.localSdp = client.localSdp /\ client'.isInitiator = client.isInitiator
        /\ conn' = conn
    BY <1>0, <1>6 DEF CreatePeerConnection, ClientType
  <2>2. InUse(c)' => InUse(c)
    BY <2>1 DEF InUse
  <2>3. \A o : /\ Asked(conn'[c].operations, o) => Asked(conn[c].operations, o)
               /\ AskedOne(conn[c].operations, o) => AskedOne(conn'[c].operations, o)
    BY <2>1
  <2> QED BY <1>1, <1>3, <1>4, <1>5, <2>1, <2>2, <2>3, DescFrame
<1>7. CASE client.factory /\ ~client.isError
  <2>1. /\ conn' = [conn EXCEPT ![c].state = "open"]
        /\ \E video, source \in BOOLEAN :
             client' = [client EXCEPT !.pc = c, !.queueing = TRUE, !.queued = <<>>,
                             !.isInitiator = FALSE, !.video = video, !.source = source]
    BY <1>0, <1>1, <1>7 DEF CreatePeerConnection, ClientType
  <2>2. client'.localSdp = client.localSdp /\ ~client'.isInitiator
    BY <1>0, <2>1 DEF ClientType
  <2>3. /\ conn'[c].state = "open" /\ conn'[c].local = conn[c].local /\ conn'[c].remote = conn[c].remote
        /\ conn'[c].operations = conn[c].operations
    BY <1>0, <2>1 DEF ConnType
  <2>4. conn[c].state = "none"
    BY <1>2 DEF Life, Making
  <2>5. conn[c].operations = <<>> /\ ~conn[c].local /\ ~client.localSdp /\ ~Has(ui, "sdp")
    BY <2>4 DEF Desc, Sides, Turns
  <2>6. \A o : /\ Asked(conn'[c].operations, o) => Asked(conn[c].operations, o)
               /\ AskedOne(conn[c].operations, o) => AskedOne(conn'[c].operations, o)
    BY <2>3
  <2> QED BY <1>1, <1>3, <1>4, <1>5, <2>2, <2>3, <2>5, <2>6, DescFrame
<1> QED BY <1>0, <1>6, <1>7 DEF ClientType

\* What the executor asks the library for.
LEMMA AskFields ==
  ASSUME Types, SingleCall, NEW c \in Calls, Usable, NEW o \in Operations, Ask(o)
  PROVE  /\ client.pc = c /\ conn'[c].state = conn[c].state /\ conn'[c].added = conn[c].added
         /\ conn'[c].local = conn[c].local /\ conn'[c].remote = conn[c].remote
         /\ conn'[c].operations # <<>>
         /\ \A p : Asked(conn'[c].operations, p) <=> (Asked(conn[c].operations, p) \/ p = o)
         /\ \A p : AskedOne(conn[c].operations, p) /\ (p = o => ~Asked(conn[c].operations, p)) =>
              AskedOne(conn'[c].operations, p)
<1>0. /\ client.pc = c /\ conn \in [Calls -> ConnType] /\ conn[c] \in ConnType
      /\ conn[c].operations \in Seq(Operations)
  BY UsableCall DEF SingleCall, Types, ConnType
<1> DEFINE more == Append(conn[c].operations, o)
<1>1. /\ more \in Seq(Operations) /\ more # <<>>
      /\ \A p : Asked(more, p) <=> (Asked(conn[c].operations, p) \/ p = o)
      /\ \A p : AskedOne(conn[c].operations, p) /\ (p = o => ~Asked(conn[c].operations, p)) =>
           AskedOne(more, p)
  BY <1>0, AskedAppend
<1>2. conn' = [conn EXCEPT ![c] = [conn[c] EXCEPT !.operations = more]]
  BY <1>0 DEF Ask
<1> HIDE DEF more
<1>3. /\ conn'[c].state = conn[c].state /\ conn'[c].added = conn[c].added
      /\ conn'[c].local = conn[c].local /\ conn'[c].remote = conn[c].remote
      /\ conn'[c].operations = more
  BY <1>0, <1>2 DEF ConnType
<1> QED BY <1>0, <1>1, <1>3

\* createOffer, createAnswer.
LEMMA AskDesc ==
  ASSUME Types, SingleCall, NEW c \in Calls, Life(c), Desc(c), CreateOffer \/ CreateAnswer
  PROVE  Desc(c)'
<1>0. client \in ClientType
  BY DEF Types
<1>1. PICK o \in {"createOffer", "createAnswer"} :
        /\ exec # <<>> /\ exec' = Tail(exec) /\ UNCHANGED <<act, wire, room, ui>>
        /\ Head(exec).do = IF o = "createOffer" THEN "offer" ELSE "answer"
        /\ \/ ~Usable /\ UNCHANGED <<client, conn>>
           \/ /\ Usable /\ Ask(o)
              /\ client' = [client EXCEPT !.isInitiator = (o = "createOffer")]
  <2>1. CASE CreateOffer
    <3>1. /\ exec # <<>> /\ exec' = Tail(exec) /\ UNCHANGED <<act, wire, room, ui>>
          /\ Head(exec).do = "offer"
          /\ \/ ~Usable /\ UNCHANGED <<client, conn>>
             \/ Usable /\ Ask("createOffer") /\ client' = [client EXCEPT !.isInitiator = TRUE]
      BY <2>1 DEF CreateOffer, Running, Done, appVars
    <3>2. ("createOffer" = "createOffer") = TRUE
      OBVIOUS
    <3> QED BY <3>1, <3>2
  <2>2. CASE CreateAnswer
    <3>1. /\ exec # <<>> /\ exec' = Tail(exec) /\ UNCHANGED <<act, wire, room, ui>>
          /\ Head(exec).do = "answer"
          /\ \/ ~Usable /\ UNCHANGED <<client, conn>>
             \/ Usable /\ Ask("createAnswer") /\ client' = [client EXCEPT !.isInitiator = FALSE]
      BY <2>2 DEF CreateAnswer, Running, Done, appVars
    <3>2. ("createAnswer" = "createOffer") = FALSE
      OBVIOUS
    <3> QED BY <3>1, <3>2
  <2> QED BY <2>1, <2>2
<1>2. Less(Words, ui', ui) /\ Head(exec).do # "setDone"
  BY <1>1, LessSame
<1>3. CASE ~Usable
  <2>1. client' = client /\ conn' = conn
    BY <1>1, <1>3
  <2>2. InUse(c)' => InUse(c)
    BY <2>1 DEF InUse
  <2> QED BY <1>1, <1>2, <2>1, <2>2, PlainDesc
<1>4. CASE Usable
  <2>0. o \in Operations
    BY DEF Operations
  <2>1. /\ client.pc = c /\ conn'[c].state = conn[c].state
        /\ conn'[c].local = conn[c].local /\ conn'[c].remote = conn[c].remote
        /\ \A p : Asked(conn'[c].operations, p) <=> (Asked(conn[c].operations, p) \/ p = o)
        /\ \A p : AskedOne(conn[c].operations, p) /\ (p = o => ~Asked(conn[c].operations, p)) =>
              AskedOne(conn'[c].operations, p)
    BY <1>1, <1>4, <2>0, AskFields
  <2>2. /\ client'.isInitiator = (o = "createOffer") /\ client'.localSdp = client.localSdp
        /\ client'.pc = client.pc /\ client'.isError = client.isError
    BY <1>0, <1>1, <1>4 DEF ClientType
  <2>3. conn'[c].state = "open"
    BY <2>1 DEF Life, Owned
  <2>4. /\ \A d : Has(exec, d) <=> (Has(Tail(exec), d) \/ Head(exec).do = d)
        /\ \A d : One(exec, d) => One(Tail(exec), d)
        /\ \A a, b : Before(exec, a, b) => Before(Tail(exec), a, b)
    BY <1>1, TasksTail
  <2>5. IF o = "createOffer" THEN Initiator(c) ELSE ~Initiator(c)
    BY <1>1, <2>4 DEF Desc, Sides
  <2>6. (Initiator(c)' <=> Initiator(c)) /\ (Connecting(c)' <=> Connecting(c))
          /\ (ToTell(c)' <=> ToTell(c)) /\ (InUse(c)' <=> InUse(c)) /\ (Offered(c)' <=> Offered(c))
    BY <1>1, <2>1, <2>2, <2>4 DEF Initiator, Connecting, ToTell, InUse, Offered
  <2>7. Sides(c)'
    BY <1>1, <2>1, <2>2, <2>3, <2>4, <2>5, <2>6 DEF Desc, Sides
  <2>8. LocalOnce(c)'
    BY <1>1, <2>1, <2>2, <2>4 DEF Desc, LocalOnce
  <2>9. RemoteOnce(c)'
    BY <1>1, <2>1, <2>4, <2>6 DEF Desc, RemoteOnce
  <2>10. Turns(c)'
    BY <1>1, <2>1, <2>2, <2>4, <2>6 DEF Desc, Turns
  <2>11. Sending(c)'
    BY <1>1, <2>1, <2>4, <2>6 DEF Desc, Sending
  <2> QED BY <2>7, <2>8, <2>9, <2>10, <2>11 DEF Desc
<1> QED BY <1>3, <1>4

\* setRemoteDescription, and setting the local one.
LEMMA SetDesc ==
  ASSUME Types, SingleCall, NEW c \in Calls, Life(c), Desc(c), SetDescription
  PROVE  Desc(c)'
<1> DEFINE o == Head(exec).do
<1>1. /\ exec # <<>> /\ exec' = Tail(exec) /\ UNCHANGED <<act, wire, room, ui, client>>
      /\ o \in {"setRemote", "setLocal"}
      /\ \/ ~Usable /\ conn' = conn
         \/ Usable /\ Ask(o)
  BY DEF SetDescription, Running, Done, appVars
<1>2. /\ \A d : Has(exec, d) <=> (Has(Tail(exec), d) \/ o = d)
      /\ \A d : One(exec, d) => One(Tail(exec), d) /\ (o = d => ~Has(Tail(exec), d))
      /\ \A a, b : Before(exec, a, b) => /\ Before(Tail(exec), a, b)
                                         /\ o = b => ~Has(exec, a) /\ ~Has(Tail(exec), a)
  BY <1>1, TasksTail
<1> HIDE DEF o
<1>3. CASE ~Usable
  <2>1. client' = client /\ conn' = conn
    BY <1>1, <1>3
  <2>2. (InUse(c)' => InUse(c)) /\ Less(Words, ui', ui) /\ Head(exec).do # "setDone"
    BY <1>1, <2>1, LessSame DEF InUse, o
  <2> QED BY <1>1, <2>1, <2>2, PlainDesc
<1>4. CASE Usable
  <2>0. o \in Operations
    BY <1>1 DEF Operations
  <2>1. /\ client.pc = c /\ conn'[c].state = conn[c].state
        /\ conn'[c].local = conn[c].local /\ conn'[c].remote = conn[c].remote
        /\ \A p : Asked(conn'[c].operations, p) <=> (Asked(conn[c].operations, p) \/ p = o)
        /\ \A p : AskedOne(conn[c].operations, p) /\ (p = o => ~Asked(conn[c].operations, p)) =>
              AskedOne(conn'[c].operations, p)
    BY <1>1, <1>4, <2>0, AskFields
  <2>2. conn'[c].state = "open"
    BY <2>1 DEF Life, Owned
  <2>3. (Initiator(c)' <=> Initiator(c)) /\ (Connecting(c)' <=> Connecting(c))
          /\ (ToTell(c)' <=> ToTell(c)) /\ (InUse(c)' <=> InUse(c)) /\ (Offered(c)' <=> Offered(c))
    BY <1>1, <1>2, <2>1 DEF Initiator, Connecting, ToTell, InUse, Offered
  <2>4. Has(exec, o) /\ (One(exec, o) => ~Has(exec', o))
    BY <1>1, <1>2
  <2>5. CASE o = "setLocal"
    <3>1. /\ client.localSdp /\ ~Asked(conn[c].operations, "setLocal") /\ ~conn[c].local
          /\ ~Has(exec', "setLocal")
      BY <2>4, <2>5 DEF Desc, LocalOnce
    <3>2. ~Initiator(c) => ~Has(exec', "setDone")
      BY <1>1, <1>2, <2>5 DEF Desc, Turns
    <3>3. Sides(c)'
      BY <1>1, <1>2, <2>1, <2>2, <2>3, <2>5, <3>1 DEF Desc, Sides
    <3>4. LocalOnce(c)'
      BY <1>1, <1>2, <2>1, <2>5, <3>1 DEF Desc, LocalOnce
    <3>5. RemoteOnce(c)'
      BY <1>1, <1>2, <2>1, <2>3, <2>5 DEF Desc, RemoteOnce
    <3>6. Turns(c)'
      BY <1>1, <1>2, <2>1, <2>3, <2>5, <3>2 DEF Desc, Turns
    <3>7. Sending(c)'
      BY <1>1, <1>2, <2>1, <2>3 DEF Desc, Sending
    <3> QED BY <3>3, <3>4, <3>5, <3>6, <3>7 DEF Desc
  <2>6. CASE o = "setRemote"
    <3>1. /\ room[c].described /\ ~Asked(conn[c].operations, "setRemote") /\ ~conn[c].remote
          /\ ~Has(exec', "setRemote") /\ ~Offered(c) /\ ~Has(ui, "description")
      BY <2>4, <2>6 DEF Desc, RemoteOnce
    <3>2. Initiator(c) => client.isInitiator
      <4>1. Initiator(c) => wire[c] # <<>>
        BY <3>1 DEF Desc, RemoteOnce
      <4>2. wire[c] # <<>> => conn[c].local
        BY DEF Desc, Turns
      <4>3. conn[c].local => client.localSdp
        BY DEF Desc, LocalOnce
      <4> QED BY <4>1, <4>2, <4>3 DEF Desc, Sides
    <3>3. Sides(c)'
      BY <1>1, <1>2, <2>1, <2>2, <2>3, <2>6, <3>2 DEF Desc, Sides
    <3>4. LocalOnce(c)'
      BY <1>1, <1>2, <2>1, <2>6 DEF Desc, LocalOnce
    <3>5. RemoteOnce(c)'
      BY <1>1, <1>2, <2>1, <2>3, <2>6, <3>1 DEF Desc, RemoteOnce
    <3>6. Turns(c)'
      BY <1>1, <1>2, <2>1, <2>3, <2>6 DEF Desc, Turns
    <3>7. Sending(c)'
      BY <1>1, <1>2, <2>1, <2>3 DEF Desc, Sending
    <3> QED BY <3>3, <3>4, <3>5, <3>6, <3>7 DEF Desc
  <2> QED BY <1>1, <2>5, <2>6
<1> QED BY <1>3, <1>4

\* The task of onSetSuccess.
LEMMA SuccessDesc ==
  ASSUME Types, SingleCall, NEW c \in Calls, Life(c), Desc(c), SetSuccess
  PROVE  Desc(c)'
<1>1. /\ exec # <<>> /\ Head(exec).do = "setDone" /\ exec' = Tail(exec)
      /\ UNCHANGED <<act, wire, room>>
  BY SuccessCases DEF Running, appVars
<1>2. /\ \A d : Has(exec, d) <=> (Has(Tail(exec), d) \/ d = "setDone")
      /\ \A d : One(exec, d) => One(Tail(exec), d) /\ (d = "setDone" => ~Has(Tail(exec), d))
      /\ \A a, b : Before(exec, a, b) => Before(Tail(exec), a, b)
  BY <1>1, TasksTail
<1>3. (client' = client /\ conn' = conn) \/ (Usable /\ DrainCandidates)
  BY SuccessCases
<1>4. /\ conn'[c].state = conn[c].state /\ conn'[c].operations = conn[c].operations
      /\ conn'[c].local = conn[c].local /\ conn'[c].remote = conn[c].remote
      /\ client'.pc = client.pc /\ client'.isError = client.isError
      /\ client'.localSdp = client.localSdp /\ client'.isInitiator = client.isInitiator
  <2>1. CASE client' = client /\ conn' = conn
    BY <2>1
  <2>2. CASE Usable /\ DrainCandidates
    BY <2>2, DrainFields
  <2> QED BY <1>3, <2>1, <2>2
<1>5. conn'[c].state = "none" => conn[c].state = "none" /\ conn'[c].added = conn[c].added
  <2>1. Usable => client.pc = c /\ conn[c].state = "open"
    BY UsableCall DEF SingleCall, Life, Owned
  <2> QED BY <1>3, <1>4, <2>1
<1>6. Initiator(c)' <=> Initiator(c)
  BY <1>1 DEF Initiator
<1>7. InUse(c)' <=> InUse(c)
  BY <1>4 DEF InUse
<1>8. Less(Talk, exec', exec)
  BY <1>1, TaskLess
<1>9. \A o : /\ Asked(conn'[c].operations, o) => Asked(conn[c].operations, o)
             /\ AskedOne(conn[c].operations, o) => AskedOne(conn'[c].operations, o)
  BY <1>4
<1>10. ASSUME ui' = ui, InUse(c) => ~ToTell(c) PROVE Desc(c)'
  <2>1. Less(Words, ui', ui) /\ (Has(ui', "connected") <=> Has(ui, "connected"))
    BY <1>10, LessSame
  <2>2. InUse(c)' => (ToTell(c) \/ Has(ui, "sdp") => ToTell(c)' \/ Has(ui', "sdp"))
    BY <1>7, <1>10
  <2>3. Initiator(c) /\ ~client'.isInitiator =>
           ~client.isInitiator \/ (conn'[c].operations = <<>> /\ ~client.localSdp)
    BY <1>4
  <2>4. client'.isInitiator => client.isInitiator \/ Initiator(c)
    BY <1>4
  <2> QED BY <1>1, <1>4, <1>5, <1>7, <1>8, <1>9, <2>1, <2>2, <2>3, <2>4, DescFrame
<1>11. CASE ~Usable \/ (~client.isInitiator /\ ~conn[client.pc].local)
  <2>1. ui' = ui
    BY <1>11, SuccessCases
  <2>2. InUse(c) => Usable /\ client.pc = c
    BY Assumptions DEF InUse, Usable
  <2>3. InUse(c) => ~ToTell(c)
    BY <1>11, <2>2 DEF ToTell
  <2> QED BY <1>10, <2>1, <2>3
<1>12. CASE Usable /\ client.isInitiator /\ conn[client.pc].remote
  <2>1. ui' = ui /\ client.pc = c
    BY <1>12, SuccessCases, UsableCall DEF SingleCall
  <2>2. Initiator(c)
    BY <1>12 DEF Desc, Sides
  <2>3. ~ToTell(c)
    BY <1>12, <2>1, <2>2 DEF ToTell
  <2> QED BY <1>10, <2>1, <2>3
<1>13. CASE Usable /\ IF client.isInitiator THEN ~conn[client.pc].remote ELSE conn[client.pc].local
  <2>1. client.pc = c /\ client.isInitiator \in BOOLEAN
    BY <1>13, UsableCall DEF SingleCall, Types, ClientType
  <2>2. Heard
    BY <2>1, Assumptions DEF Life, Owned, Heard
  <2>3. Tell("sdp")
    BY <1>13, <2>1, <2>2, SuccessCases
  <2>4. /\ \A d : Has(ui', d) <=> (Has(ui, d) \/ d = "sdp")
        /\ \A d : One(ui, d) /\ (d = "sdp" => ~Has(ui, d)) => One(ui', d)
        /\ \A a, b : a # b /\ Before(ui, a, b) /\ (a = "sdp" => ~Has(ui, b)) => Before(ui', a, b)
    BY <2>2, <2>3, TellLess
  <2>5. ToTell(c)
    <3>1. Has(exec, "setDone")
      BY <1>2
    <3>2. CASE client.isInitiator
      <4>1. Initiator(c) /\ ~conn[c].remote
        BY <1>13, <2>1, <3>2 DEF Desc, Sides
      <4>2. conn[c].local
        BY <3>1, <4>1 DEF Desc, Turns
      <4> QED BY <3>1, <4>1, <4>2 DEF ToTell
    <3>3. CASE ~client.isInitiator
      <4>1. conn[c].local
        BY <1>13, <2>1, <3>3
      <4>2. client.localSdp
        BY <4>1 DEF Desc, LocalOnce
      <4>3. ~Initiator(c)
        BY <3>3, <4>2 DEF Desc, Sides
      <4> QED BY <3>1, <4>1, <4>3 DEF ToTell
    <3> QED BY <3>2, <3>3
  <2>6. wire[c] = <<>> /\ ~Has(ui, "sdp") /\ ~Has(ui, "ice") /\ One(exec, "setDone") /\ conn[c].local
    BY <2>5 DEF Desc, Sending, ToTell
  <2>7. ~Has(exec', "setDone")
    BY <1>1, <1>2, <2>6
  <2>8. (Connecting(c)' <=> Connecting(c)) /\ (Offered(c)' <=> Offered(c)) /\ ~ToTell(c)'
    BY <1>1, <2>4, <2>7 DEF Connecting, Offered, ToTell
  <2>9. conn'[c].state = "open"
    BY <1>4, <2>1 DEF Life, Owned
  <2>10. Sides(c)'
    BY <1>1, <1>2, <1>4, <1>6, <2>8, <2>9 DEF Desc, Sides
  <2>11. LocalOnce(c)'
    BY <1>1, <1>2, <1>4 DEF Desc, LocalOnce
  <2>12. RemoteOnce(c)'
    BY <1>1, <1>2, <1>4, <1>6, <2>4, <2>8 DEF Desc, RemoteOnce
  <2>13. Turns(c)'
    BY <1>1, <1>2, <1>4, <1>6, <2>6, <2>7 DEF Desc, Turns
  <2>14. Sending(c)'
    BY <1>1, <1>4, <2>4, <2>6, <2>8 DEF Desc, Sending
  <2> QED BY <2>10, <2>11, <2>12, <2>13, <2>14 DEF Desc
<1> QED BY <1>11, <1>12, <1>13, SuccessCases

\* The tasks of onIceCandidate, onIceCandidatesRemoved and onIceConnectionChange.
LEMMA IceDesc ==
  ASSUME Types, SingleCall, NEW c \in Calls, Life(c), Desc(c), HandleIce
  PROVE  Desc(c)'
<1>1. /\ exec # <<>> /\ Head(exec).do \in {"ice", "hungUp"} /\ exec' = Tail(exec)
      /\ UNCHANGED <<act, room, wire, conn, client>>
      /\ ui' = ui \/ (Heard /\ Tell(Head(exec).do))
  BY DEF HandleIce, Running, Done, appVars, callVars, NobodyHears
<1>2. (InUse(c)' => InUse(c)) /\ Head(exec).do # "setDone"
  BY <1>1 DEF InUse
<1>3. CASE ui' = ui
  <2>1. Less(Words, ui', ui)
    BY <1>3, LessSame
  <2> QED BY <1>1, <1>2, <1>3, <2>1, PlainDesc
<1>4. CASE Heard /\ Tell(Head(exec).do) /\ Head(exec).do = "hungUp"
  <2>1. Less(Words, ui', ui) /\ \A d : Has(ui', d) <=> (Has(ui, d) \/ d = "hungUp")
    BY <1>4, TellLess
  <2>2. (Has(ui', "connected") <=> Has(ui, "connected")) /\ (Has(ui, "sdp") => Has(ui', "sdp"))
    BY <2>1
  <2> QED BY <1>1, <1>2, <2>1, <2>2, PlainDesc
<1>5. CASE Heard /\ Tell(Head(exec).do) /\ Head(exec).do = "ice"
  <2>1. /\ \A d : Has(ui', d) <=> (Has(ui, d) \/ d = "ice")
        /\ \A d : One(ui, d) /\ (d = "ice" => ~Has(ui, d)) => One(ui', d)
        /\ \A a, b : a # b /\ Before(ui, a, b) /\ (a = "ice" => ~Has(ui, b)) => Before(ui', a, b)
    BY <1>5, TellLess
  <2>2. /\ \A d : Has(exec, d) <=> (Has(Tail(exec), d) \/ d = "ice")
        /\ \A d : One(exec, d) => One(Tail(exec), d)
        /\ \A a, b : Before(exec, a, b) => /\ Before(Tail(exec), a, b)
                                           /\ "ice" = b => ~Has(exec, a) /\ ~Has(Tail(exec), a)
    BY <1>1, <1>5, TasksTail
  <2>3. conn[c].local
    BY <2>2 DEF Desc, Turns
  <2>4. ~ToTell(c)
    BY <2>2 DEF Desc, Sending, ToTell
  <2>5. (Initiator(c)' <=> Initiator(c)) /\ (Connecting(c)' <=> Connecting(c))
          /\ (Offered(c)' <=> Offered(c)) /\ (InUse(c)' <=> InUse(c))
    BY <1>1, <2>1 DEF Initiator, Connecting, Offered, InUse
  <2>6. ~ToTell(c)'
    BY <1>1, <2>2, <2>4, <2>5 DEF ToTell
  <2>7. Sides(c)'
    BY <1>1, <2>2, <2>5 DEF Desc, Sides
  <2>8. LocalOnce(c)'
    BY <1>1, <2>2 DEF Desc, LocalOnce
  <2>9. RemoteOnce(c)'
    BY <1>1, <2>1, <2>2, <2>5 DEF Desc, RemoteOnce
  <2>10. Turns(c)'
    BY <1>1, <2>2, <2>3, <2>5 DEF Desc, Turns
  <2>11. Sending(c)'
    BY <1>1, <2>1, <2>4, <2>5, <2>6 DEF Desc, Sending
  <2> QED BY <2>7, <2>8, <2>9, <2>10, <2>11 DEF Desc
<1> QED BY <1>1, <1>3, <1>4, <1>5

LEMMA ExecDesc ==
  ASSUME Types, SingleCall, NEW c \in Calls, Life(c), Desc(c), ExecutorTask
  PROVE  Desc(c)'
<1>0. /\ client \in ClientType /\ conn \in [Calls -> ConnType] /\ conn[c] \in ConnType
      /\ (Usable => client.pc = c)
  BY UsableCall DEF Types, SingleCall
<1>1. Less(Words, ui, ui)
  BY LessSame
<1>2. CASE CreateFactory
  <2>1. exec # <<>> /\ Head(exec).do = "factory" /\ exec' = Tail(exec)
          /\ UNCHANGED <<act, room, wire, conn, ui>>
    BY <1>2 DEF CreateFactory, Running, Done, appVars
  <2>2. client'.pc = client.pc /\ client'.localSdp = client.localSdp
          /\ client'.isInitiator = client.isInitiator
    BY <1>0, <1>2 DEF CreateFactory, ClientType
  <2>3. Has(exec, "factory")
    BY <2>1, TasksTail
  <2>4. client.pc # c
    BY <2>3 DEF Life, Making, Owned
  <2> QED BY <1>1, <2>1, <2>2, <2>4, PlainDesc DEF InUse
<1>3. CASE AddCandidate
  <2>1. exec # <<>> /\ Head(exec).do = "candidate" /\ exec' = Tail(exec)
          /\ UNCHANGED <<act, room, wire, ui>>
    BY <1>3 DEF AddCandidate, Running, Done, appVars
  <2>2. client'.pc = client.pc /\ client'.isError = client.isError
          /\ client'.localSdp = client.localSdp /\ client'.isInitiator = client.isInitiator
    BY <1>0, <1>3 DEF AddCandidate, ClientType
  <2>3. /\ conn'[c].local = conn[c].local /\ conn'[c].remote = conn[c].remote
        /\ conn'[c].operations = conn[c].operations
        /\ conn'[c].state = "none" => conn[c].state = "none" /\ conn'[c].added = conn[c].added
    <3> DEFINE n == Head(exec).of
    <3> HIDE DEF n
    <3>1. conn' = conn \/ (client.pc = c /\ conn' = [conn EXCEPT ![c].added = Append(@, n)])
      BY <1>0, <1>3 DEF AddCandidate, n
    <3>2. CASE conn' = conn
      BY <3>2
    <3>3. CASE client.pc = c /\ conn' = [conn EXCEPT ![c].added = Append(@, n)]
      <4>1. /\ conn'[c].local = conn[c].local /\ conn'[c].remote = conn[c].remote
            /\ conn'[c].operations = conn[c].operations /\ conn'[c].state = conn[c].state
        BY <1>0, <3>3 DEF ConnType
      <4>2. conn[c].state = "open"
        BY <3>3 DEF Life, Owned
      <4> QED BY <4>1, <4>2
    <3> QED BY <3>1, <3>2, <3>3
  <2> QED BY <1>1, <2>1, <2>2, <2>3, PlainDesc DEF InUse
<1>4. CASE RemoveCandidates
  <2>1. exec # <<>> /\ Head(exec).do = "remove" /\ exec' = Tail(exec)
          /\ UNCHANGED <<act, room, wire, ui>>
    BY <1>4 DEF RemoveCandidates, Running, Done, appVars
  <2>2. (client' = client /\ conn' = conn) \/ (Usable /\ DrainCandidates)
    BY <1>4 DEF RemoveCandidates
  <2>3. /\ client'.pc = client.pc /\ client'.isError = client.isError
        /\ client'.localSdp = client.localSdp /\ client'.isInitiator = client.isInitiator
        /\ conn'[c].local = conn[c].local /\ conn'[c].remote = conn[c].remote
        /\ conn'[c].operations = conn[c].operations
        /\ conn'[c].state = "none" => conn[c].state = "none" /\ conn'[c].added = conn[c].added
    <3>1. CASE client' = client /\ conn' = conn
      BY <3>1
    <3>2. CASE Usable /\ DrainCandidates
      <4>1. conn[c].state = "open"
        BY <1>0, <3>2 DEF Life, Owned
      <4> QED BY <3>2, <4>1, DrainFields
    <3> QED BY <2>2, <3>1, <3>2
  <2> QED BY <1>1, <2>1, <2>3, PlainDesc DEF InUse
<1>5. CASE HandleError
  <2>1. exec # <<>> /\ Head(exec).do = "error" /\ exec' = Tail(exec)
          /\ UNCHANGED <<act, room, wire, conn>>
    BY <1>5 DEF HandleError, Running, Done, appVars
  <2>2. client'.pc = client.pc /\ (client.isError => client'.isError)
          /\ client'.localSdp = client.localSdp /\ client'.isInitiator = client.isInitiator
    BY <1>0, <1>5 DEF HandleError, ClientType
  <2>3. ui' = ui \/ (Heard /\ Tell("error"))
    BY <1>5 DEF HandleError, NobodyHears
  <2>4. Less(Words, ui', ui) /\ (Has(ui', "connected") <=> Has(ui, "connected"))
          /\ (Has(ui, "sdp") => Has(ui', "sdp"))
    BY <1>1, <2>3, TellLess
  <2> QED BY <2>1, <2>2, <2>4, PlainDesc DEF InUse
<1>6. CASE StopVideoSource \/ StartVideoSource
  <2>1. exec # <<>> /\ Head(exec).do \in {"stop", "start"} /\ exec' = Tail(exec)
          /\ UNCHANGED <<act, room, wire, conn, ui>>
    BY <1>6 DEF StopVideoSource, StartVideoSource, Running, Done, appVars
  <2>2. client'.pc = client.pc /\ client'.isError = client.isError
          /\ client'.localSdp = client.localSdp /\ client'.isInitiator = client.isInitiator
    BY <1>0, <1>6 DEF StopVideoSource, StartVideoSource, ClientType
  <2> QED BY <1>1, <2>1, <2>2, PlainDesc DEF InUse
<1>7. CASE CloseInternal
  <2>1. exec # <<>> /\ Head(exec).do = "close" /\ exec' = Tail(exec) /\ UNCHANGED <<act, room, wire, ui>>
    BY <1>7 DEF CloseInternal, Running, Done, appVars
  <2>2. client'.pc = None /\ client'.localSdp = client.localSdp /\ client'.isInitiator = client.isInitiator
    BY <1>0, <1>7 DEF CloseInternal, ClientType
  <2>3. conn'[c] = IF c = client.pc THEN [conn[c] EXCEPT !.state = "disposed", !.operations = <<>>]
                   ELSE conn[c]
    BY <1>7 DEF CloseInternal
  <2>4. /\ conn'[c].local = conn[c].local /\ conn'[c].remote = conn[c].remote
        /\ conn'[c].operations = conn[c].operations \/ conn'[c].operations = <<>>
        /\ conn'[c].state = "none" => conn[c].state = "none" /\ conn'[c].added = conn[c].added
    <3>1. CASE c = client.pc
      BY <1>0, <2>3, <3>1 DEF ConnType
    <3>2. CASE c # client.pc
      BY <2>3, <3>2
    <3> QED BY <3>1, <3>2
  <2>5. ~InUse(c)'
    BY <2>2, Assumptions DEF InUse
  <2> QED BY <1>1, <2>1, <2>2, <2>4, <2>5, PlainDesc
<1> QED BY <1>2, <1>3, <1>4, <1>5, <1>6, <1>7, CreateDesc, AskDesc, SetDesc, SuccessDesc, IceDesc
       DEF ExecutorTask

\* onConnectedToRoomInternal.
LEMMA ConnectedDesc ==
  ASSUME Types, SingleCall, NEW c \in Calls, Life(c), Desc(c), OnConnected
  PROVE  Desc(c)'
<1> DEFINE n == Head(ui).of
<1>1. /\ ui # <<>> /\ Head(ui).do = "connected" /\ ui' = Tail(ui) /\ n \in 0..MaxKept
      /\ UNCHANGED <<conn, capturing, room, wire, faults, moves>>
  BY ConnectedCases
<1>2. Head(ui).call = c /\ act[c] \in ActType /\ Connecting(c) /\ ~Connecting(c)'
  BY <1>1, UiTakes
<1>3. PICK camera \in BOOLEAN, a \in ActType :
        /\ a = Answered(c, camera)
        /\ \/ /\ a.client
              /\ act' = [act EXCEPT ![c] = [a EXCEPT !.early =
                   a.phase # "shown" \/ \E i \in 1..Len(exec) : exec[i].do = "stop"]]
              /\ client' = [client EXCEPT !.capturer = IF camera THEN c ELSE None]
              /\ exec' = exec \o Asks(c, n) /\ dead' = dead
           \/ /\ ~a.client
              /\ act' = [act EXCEPT ![c] = a]
              /\ exec' = exec \o ClosedBy(c, a) /\ client' = client /\ dead' = TRUE
  BY <1>2, ConnectedCases DEF Answered
<1> HIDE DEF n
<1>4. act \in [Calls -> ActType] /\ client \in ClientType /\ exec \in Seq(TaskType)
  BY DEF Types, ExecTyped
<1>5. act'[c].role = room[c].role
  <2>1. a.role = room[c].role
    BY <1>3, AnsweredFields
  <2>2. CASE a.client
    <3> DEFINE early == a.phase # "shown" \/ \E i \in 1..Len(exec) : exec[i].do = "stop"
               b == [a EXCEPT !.early = early]
    <3>1. act'[c] = b
      BY <1>3, <1>4, <2>2
    <3>2. b.role = a.role
      BY DEF ActType
    <3> QED BY <2>1, <3>1, <3>2
  <2>3. CASE ~a.client
    BY <1>3, <1>4, <2>1, <2>3
  <2> QED BY <2>2, <2>3
<1>6. /\ client'.pc = client.pc /\ client'.localSdp = client.localSdp
      /\ client'.isInitiator = client.isInitiator
  <2>1. CASE client' = client
    BY <2>1
  <2>2. CASE client' = [client EXCEPT !.capturer = IF camera THEN c ELSE None]
    BY <1>4, <2>2 DEF ClientType
  <2> QED BY <1>3, <2>1, <2>2
\* Nothing has been asked of the library.
<1>7. /\ conn[c].state = "none" /\ client.pc # c
      /\ conn[c].operations = <<>> /\ conn[c].added = <<>> /\ ~conn[c].local /\ ~conn[c].remote
      /\ ~client.localSdp
  BY <1>2 DEF Life, Owned, Desc, Sides
<1>8. /\ ~Has(exec, "offer") /\ ~Has(exec, "answer") /\ ~Has(exec, "setRemote")
      /\ ~Has(exec, "setLocal") /\ ~Has(exec, "setDone") /\ ~Has(exec, "ice")
      /\ ~Has(ui, "sdp") /\ ~Has(ui, "ice") /\ wire[c] = <<>>
  <2>1. ~Has(exec, "offer") /\ ~Has(exec, "answer") /\ ~Has(exec, "setRemote")
    BY <1>2 DEF Life, Started
  <2>2. ~Has(exec, "setLocal") /\ ~Has(exec, "ice") /\ ~Has(ui, "sdp") /\ ~Has(ui, "ice") /\ wire[c] = <<>>
    BY <1>7 DEF Desc, LocalOnce, Turns
  <2>3. ~Has(exec, "setDone")
    BY <1>7 DEF Desc, Turns
  <2> QED BY <2>1, <2>2, <2>3
<1>9. /\ \A d : Has(ui, d) <=> (Has(Tail(ui), d) \/ d = "connected")
      /\ \A d : One(ui, d) => One(Tail(ui), d)
      /\ \A d, e : Before(ui, d, e) => Before(Tail(ui), d, e)
  BY <1>1, RunnablesTail
<1>10. PICK s \in Seq(TaskType) :
         /\ exec' = exec \o s /\ One(s, "setRemote")
         /\ \A d : Has(s, d) => \/ d = "offer" /\ room[c].role = "initiator"
                                \/ d \in {"setRemote", "answer"} /\ room[c].role = "offered"
                                \/ d \in {"create", "candidate", "close"}
  <2>1. CASE a.client
    <3> DEFINE t == Asks(c, n)
    <3>1. /\ t \in Seq(TaskType) /\ One(t, "setRemote")
          /\ \A d : Has(t, d) => \/ d = "offer" /\ room[c].role = "initiator"
                                 \/ d \in {"setRemote", "answer"} /\ room[c].role = "offered"
                                 \/ d \in {"create", "candidate", "close"}
      BY <1>1, AsksHas DEF n
    <3> HIDE DEF t
    <3>2. exec' = exec \o t
      BY <1>3, <2>1 DEF t
    <3> QED BY <3>1, <3>2
  <2>2. CASE ~a.client
    <3> DEFINE t == ClosedBy(c, a)
    <3>1. t \in Seq(TaskType) /\ One(t, "setRemote") /\ \A d : Has(t, d) => d = "close"
      BY ClosingHas, ClosingOne
    <3> HIDE DEF t
    <3>2. exec' = exec \o t
      BY <1>3, <2>2 DEF t
    <3> QED BY <3>1, <3>2
  <2> QED BY <2>1, <2>2
<1>11. /\ \A d : Has(exec', d) <=> (Has(exec, d) \/ Has(s, d))
       /\ \A d : One(exec, d) /\ One(s, d) /\ (Has(s, d) => ~Has(exec, d)) => One(exec', d)
  BY <1>4, <1>10, QueueConcat
<1>12. /\ Has(exec', "offer") => Initiator(c)
       /\ Has(exec', "answer") => room[c].role = "offered"
       /\ Has(exec', "setRemote") => room[c].role = "offered"
       /\ ~Has(exec', "setLocal") /\ ~Has(exec', "setDone") /\ ~Has(exec', "ice")
  BY <1>8, <1>10, <1>11 DEF Initiator
<1>13. One(exec', "setRemote")
  <2>1. One(exec, "setRemote")
    BY DEF Desc, RemoteOnce
  <2> QED BY <1>8, <1>10, <1>11, <2>1
<1>14. One(exec', "setLocal") /\ Before(exec', "setDone", "setLocal")
  BY <1>12 DEF One, Before, Has
<1>15. Has(ui, "connected") /\ ~Has(ui', "connected")
  BY <1>1, <1>2, <1>9 DEF Connecting
<1>16. Initiator(c)' <=> Initiator(c)
  BY <1>1 DEF Initiator
<1>17. Sides(c)'
  <2>1. Has(exec', "answer") => ~Initiator(c)
    BY <1>12 DEF Initiator
  <2>2. ~Asked(conn[c].operations, "createOffer") /\ ~Asked(conn[c].operations, "createAnswer")
    BY <1>7, AskedNone
  <2> QED BY <1>1, <1>2, <1>5, <1>6, <1>7, <1>12, <1>16, <2>1, <2>2 DEF Desc, Sides
<1>18. LocalOnce(c)'
  BY <1>1, <1>6, <1>12, <1>14 DEF Desc, LocalOnce
<1>19. RemoteOnce(c)'
  <2>1. Has(exec', "setRemote") => /\ room[c].described /\ ~Has(ui, "description")
                                   /\ ~Asked(conn[c].operations, "setRemote") /\ ~conn[c].remote
    BY <1>12, <1>15 DEF Desc, RemoteOnce, Offered
  <2>2. ~Offered(c)'
    BY <1>15 DEF Offered
  <2> QED BY <1>1, <1>9, <1>13, <1>16, <2>1, <2>2 DEF Desc, RemoteOnce
<1>20. Turns(c)'
  <2>1. ~Asked(conn[c].operations, "setLocal")
    BY <1>7, AskedNone
  <2> QED BY <1>1, <1>6, <1>7, <1>8, <1>9, <1>12, <1>14, <2>1 DEF Turns
<1>21. Sending(c)'
  <2>1. ~ToTell(c)' /\ ~conn'[c].local
    BY <1>1, <1>7 DEF ToTell
  <2> QED BY <1>1, <1>8, <1>9, <2>1 DEF Desc, Sending
<1> QED BY <1>17, <1>18, <1>19, <1>20, <1>21 DEF Desc

\* What is sent after the rest.
LEMMA WireMore ==
  ASSUME NEW w \in Seq({"sdp", "candidate"}), NEW x \in {"sdp", "candidate"}
  PROVE  /\ Append(w, x) # <<>> /\ (w # <<>> => Append(w, x)[1] = w[1])
         /\ \A i \in DOMAIN Append(w, x) : Append(w, x)[i] = x \/ (i \in DOMAIN w /\ Append(w, x)[i] = w[i])
<1> DEFINE r == Append(w, x)
<1>1. r \in Seq({"sdp", "candidate"}) /\ Len(r) = Len(w) + 1 /\ Len(w) \in Nat
  OBVIOUS
<1>2. /\ DOMAIN r = 1..(Len(w) + 1) /\ DOMAIN w = 1..Len(w) /\ r[Len(w) + 1] = x
      /\ \A i \in 1..Len(w) : r[i] = w[i]
  OBVIOUS
<1>3. r # <<>>
  BY <1>1
<1>4. w # <<>> => Len(w) > 0
  OBVIOUS
<1> HIDE DEF r
<1>5. w # <<>> => r[1] = w[1]
  BY <1>1, <1>2, <1>4
<1>6. \A i \in DOMAIN r : r[i] = x \/ (i \in DOMAIN w /\ r[i] = w[i])
  BY <1>1, <1>2
<1> QED BY <1>3, <1>5, <1>6 DEF r

\* Another runnable of the UI thread.
LEMMA UiDesc ==
  ASSUME Types, SingleCall, NEW c \in Calls, Life(c), Desc(c), UiTask
  PROVE  Desc(c)'
<1>1. CASE OnConnected
  BY <1>1, ConnectedDesc
<1>2. CASE ~OnConnected
  <2> DEFINE do == Head(ui).do
  <2>1. /\ ui # <<>> /\ ui' = Tail(ui) /\ Head(ui).call = c
        /\ do \in {"description", "candidate", "remove", "hungUp", "error", "sdp", "ice"}
        /\ UNCHANGED <<client, conn, capturing, room>>
        /\ act'[c].role = act[c].role /\ (act'[c].room => act[c].room)
        /\ do = "sdp" => wire'[c] = IF act[c].room THEN Append(wire[c], "sdp") ELSE wire[c]
        /\ do = "ice" => wire'[c] = IF act[c].room THEN Append(wire[c], "candidate") ELSE wire[c]
        /\ do \notin {"sdp", "ice"} => wire' = wire
    BY <1>2, UiStep
  <2>2. PICK s \in Seq(TaskType) :
          /\ exec' = exec \o s /\ \A d : One(s, d)
          /\ \A d : Has(s, d) =>
               \/ d = "close" /\ ~act'[c].client
               \/ d = "setRemote" /\ do = "description"
               \/ d = "answer" /\ do = "description" /\ act[c].role # "initiator"
               \/ d \in {"candidate", "remove"} /\ d = do
    BY <1>2, UiStep
  <2>3. /\ exec \in Seq(TaskType) /\ ui \in Seq(EventType)
        /\ wire[c] \in Seq({"sdp", "candidate"})
    BY DEF Types, ExecTyped, UiTyped
  <2>4. /\ \A d : Has(ui, d) <=> (Has(ui', d) \/ do = d)
        /\ \A d : One(ui, d) => One(ui', d) /\ (do = d => ~Has(ui', d))
        /\ \A a, b : Before(ui, a, b) => Before(ui', a, b) /\ (do = b => ~Has(ui, a) /\ ~Has(ui', a))
    BY <2>1, RunnablesTail
  <2>5. Less(Words, ui', ui)
    BY <2>1, <2>3, LessTail
  <2>6. InUse(c)' <=> InUse(c)
    BY <2>1 DEF InUse
  <2>7. /\ \A d : Has(exec', d) <=> (Has(exec, d) \/ Has(s, d))
        /\ \A d : One(exec, d) /\ One(s, d) /\ (Has(s, d) => ~Has(exec, d)) => One(exec', d)
        /\ \A a, b : Before(exec, a, b) /\ Before(s, a, b) /\ (Has(s, a) => ~Has(exec, b)) =>
             Before(exec', a, b)
    BY <2>2, <2>3, QueueConcat
  <2> HIDE DEF do
  <2>8. CASE do \in {"candidate", "remove", "hungUp", "error"}
    <3>1. \A d \in Talk : ~Has(s, d)
      BY <2>2, <2>8 DEF Talk
    <3>2. Less(Talk, exec', exec)
      BY <2>2, <2>3, <3>1, LessMore
    <3>3. /\ Has(ui', "connected") <=> Has(ui, "connected")
          /\ Has(ui', "sdp") <=> Has(ui, "sdp")
      BY <2>4, <2>8
    <3>4. ToTell(c)' <=> ToTell(c)
      <4>1. ~Has(s, "setDone")
        BY <3>1 DEF Talk
      <4> QED BY <2>1, <2>7, <4>1 DEF ToTell, Initiator
    <3>5. \A o : /\ Asked(conn'[c].operations, o) => Asked(conn[c].operations, o)
                 /\ AskedOne(conn[c].operations, o) => AskedOne(conn'[c].operations, o)
      BY <2>1
    <3>6. wire'[c] = wire[c]
      BY <2>1, <2>8
    <3> QED BY <2>1, <2>5, <2>6, <3>2, <3>3, <3>4, <3>5, <3>6, DescFrame
  <2>9. (Initiator(c)' <=> Initiator(c))
    BY <2>1 DEF Initiator
  <2>10. CASE do = "description"
    <3>1. /\ Has(ui, "description") /\ ~Has(ui', "description") /\ ~Has(ui, "connected") /\ ~Has(ui', "connected")
          /\ room[c].connected
      <4>1. Has(ui, "description")
        BY <2>4, <2>10
      <4>2. One(ui, "description")
        BY DEF Desc, RemoteOnce
      <4>3. Before(ui, "connected", "description") /\ room[c].connected
        BY <4>1 DEF Life, RoomFirst, Said
      <4> QED BY <2>4, <2>10, <4>1, <4>2, <4>3
    <3>2. ~Connecting(c) /\ ~Connecting(c)' /\ ~Offered(c)' /\ act[c].role = room[c].role
      BY <2>1, <3>1 DEF Connecting, Offered, Desc, Sides
    <3>3. /\ room[c].described /\ ~Has(exec, "setRemote")
          /\ ~Asked(conn[c].operations, "setRemote") /\ ~conn[c].remote
      BY <3>1 DEF Desc, RemoteOnce
    <3>4. /\ ~Has(s, "setDone") /\ ~Has(s, "setLocal") /\ ~Has(s, "ice") /\ ~Has(s, "offer")
          /\ Has(s, "answer") => ~Initiator(c)
      BY <2>2, <2>10, <3>2 DEF Initiator
    <3>5. Before(s, "setDone", "setLocal") /\ Before(s, "setDone", "ice")
      BY <3>4 DEF Before, Has
    <3>6. /\ Has(exec', "setLocal") <=> Has(exec, "setLocal")
          /\ Has(exec', "setDone") <=> Has(exec, "setDone")
          /\ Has(exec', "ice") <=> Has(exec, "ice")
          /\ Has(exec', "offer") <=> Has(exec, "offer")
          /\ Has(exec', "answer") => Has(exec, "answer") \/ ~Initiator(c)
          /\ One(exec, "setLocal") => One(exec', "setLocal")
          /\ One(exec, "setDone") => One(exec', "setDone")
          /\ One(exec, "setRemote") => One(exec', "setRemote")
          /\ Before(exec, "setDone", "setLocal") => Before(exec', "setDone", "setLocal")
          /\ Before(exec, "setDone", "ice") => Before(exec', "setDone", "ice")
      BY <2>2, <2>7, <3>3, <3>4, <3>5
    <3>7. /\ Has(ui', "sdp") <=> Has(ui, "sdp")
          /\ Has(ui', "ice") <=> Has(ui, "ice")
          /\ One(ui, "sdp") => One(ui', "sdp")
          /\ Before(ui, "sdp", "ice") => Before(ui', "sdp", "ice")
          /\ One(ui, "description") => One(ui', "description")
      BY <2>4, <2>10
    <3>8. wire'[c] = wire[c] /\ (ToTell(c)' <=> ToTell(c))
      BY <2>1, <2>9, <2>10, <3>6 DEF ToTell
    <3>9. Sides(c)'
      BY <2>1, <2>9, <3>2, <3>6 DEF Desc, Sides
    <3>10. LocalOnce(c)'
      BY <2>1, <3>6 DEF Desc, LocalOnce
    <3>11. RemoteOnce(c)'
      BY <2>1, <2>9, <3>1, <3>2, <3>3, <3>6, <3>7, <3>8 DEF Desc, RemoteOnce
    <3>12. Turns(c)'
      BY <2>1, <2>9, <3>6, <3>7, <3>8 DEF Desc, Turns
    <3>13. Sending(c)'
      BY <2>1, <2>6, <3>6, <3>7, <3>8 DEF Desc, Sending
    <3> QED BY <3>9, <3>10, <3>11, <3>12, <3>13 DEF Desc
  <2>11. CASE do \in {"sdp", "ice"}
    <3>1. \A d : ~Has(s, d) \/ d = "close"
      BY <2>2, <2>11
    <3>2. /\ ~Has(s, "setDone") /\ ~Has(s, "setLocal") /\ ~Has(s, "ice") /\ ~Has(s, "offer")
          /\ ~Has(s, "answer") /\ ~Has(s, "setRemote")
      BY <3>1
    <3>3. Before(s, "setDone", "setLocal") /\ Before(s, "setDone", "ice")
      BY <3>2 DEF Before, Has
    <3>4. /\ Has(exec', "setLocal") <=> Has(exec, "setLocal")
          /\ Has(exec', "setRemote") <=> Has(exec, "setRemote")
          /\ Has(exec', "setDone") <=> Has(exec, "setDone")
          /\ Has(exec', "ice") <=> Has(exec, "ice")
          /\ Has(exec', "offer") <=> Has(exec, "offer")
          /\ Has(exec', "answer") <=> Has(exec, "answer")
          /\ One(exec, "setLocal") => One(exec', "setLocal")
          /\ One(exec, "setDone") => One(exec', "setDone")
          /\ One(exec, "setRemote") => One(exec', "setRemote")
          /\ Before(exec, "setDone", "setLocal") => Before(exec', "setDone", "setLocal")
          /\ Before(exec, "setDone", "ice") => Before(exec', "setDone", "ice")
      BY <2>2, <2>7, <3>2, <3>3
    <3>5. /\ Has(ui', "connected") <=> Has(ui, "connected")
          /\ Has(ui', "description") <=> Has(ui, "description")
          /\ One(ui, "description") => One(ui', "description")
          /\ One(ui, "sdp") => One(ui', "sdp")
          /\ Before(ui, "sdp", "ice") => Before(ui', "sdp", "ice")
          /\ Has(ui', "sdp") => Has(ui, "sdp")
          /\ Has(ui', "ice") => Has(ui, "ice")
      BY <2>4, <2>11
    <3>6. (Connecting(c)' <=> Connecting(c)) /\ (Offered(c)' <=> Offered(c)) /\ (ToTell(c)' <=> ToTell(c))
      BY <2>1, <2>9, <3>4, <3>5 DEF Connecting, Offered, ToTell
    <3>7. /\ wire'[c] # <<>> \/ wire[c] = <<>>
          /\ conn[c].local /\ ~ToTell(c) /\ ~ToTell(c)'
      <4>1. CASE do = "sdp"
        <5>1. Has(ui, "sdp")
          BY <2>4, <4>1
        <5>2. conn[c].local /\ ~ToTell(c)
          BY <5>1 DEF Desc, Turns, Sending
        <5>3. Append(wire[c], "sdp") # <<>>
          BY <2>3, WireMore
        <5>4. wire'[c] # <<>> \/ wire[c] = <<>>
          BY <2>1, <4>1, <5>3
        <5> QED BY <3>6, <5>2, <5>4
      <4>2. CASE do = "ice"
        <5>1. Has(ui, "ice")
          BY <2>4, <4>2
        <5>2. conn[c].local /\ ~ToTell(c)
          BY <5>1 DEF Desc, Turns, Sending
        <5>3. Append(wire[c], "candidate") # <<>>
          BY <2>3, WireMore
        <5>4. wire'[c] # <<>> \/ wire[c] = <<>>
          BY <2>1, <4>2, <5>3
        <5> QED BY <3>6, <5>2, <5>4
      <4> QED BY <2>11, <4>1, <4>2
    <3>8. Sides(c)'
      BY <2>1, <2>9, <3>4, <3>6 DEF Desc, Sides
    <3>9. LocalOnce(c)'
      BY <2>1, <3>4 DEF Desc, LocalOnce
    <3>10. RemoteOnce(c)'
      BY <2>1, <2>9, <3>4, <3>5, <3>6, <3>7 DEF Desc, RemoteOnce
    <3>11. Turns(c)'
      BY <2>1, <2>9, <3>4, <3>5, <3>7 DEF Desc, Turns
    <3>12. Sending(c)'
      <4>1. CASE do = "sdp"
        <5>1. wire[c] = <<>> /\ Has(ui, "sdp") /\ ~Has(ui', "sdp")
          <6>1. Has(ui, "sdp") /\ One(ui, "sdp")
            BY <2>4, <4>1 DEF Desc, Sending
          <6> QED BY <2>4, <4>1, <6>1 DEF Desc, Sending
        <5>2. IF act[c].room THEN wire'[c] = <<"sdp">> ELSE wire'[c] = <<>>
          BY <2>1, <4>1, <5>1
        <5>3. /\ \A i \in DOMAIN wire'[c] : wire'[c][i] = "sdp" => i = 1
              /\ wire'[c] # <<>> => wire'[c][1] = "sdp"
              /\ act[c].room => wire'[c] # <<>>
          BY <5>2
        <5> QED BY <2>1, <3>5, <3>7, <5>1, <5>3 DEF Desc, Sending
      <4>2. CASE do = "ice"
        <5>1. ~Has(ui, "sdp") /\ ~Has(ui', "sdp")
          <6>1. Before(ui, "sdp", "ice")
            BY DEF Desc, Sending
          <6> QED BY <2>4, <4>2, <6>1
        <5>2. InUse(c) /\ act[c].room => wire[c] # <<>>
          BY <3>7, <5>1 DEF Desc, Sending
        <5>3. InUse(c) /\ wire[c] # <<>> => wire[c][1] = "sdp"
          BY DEF Desc, Sending
        <5>4. \A i \in DOMAIN wire[c] : wire[c][i] = "sdp" => i = 1
          BY DEF Desc, Sending
        <5> DEFINE more == Append(wire[c], "candidate")
        <5>5. /\ \A i \in DOMAIN more : more[i] = "sdp" => i = 1
              /\ wire[c] # <<>> => more[1] = wire[c][1]
              /\ more # <<>>
          BY <2>3, <5>4, WireMore
        <5> HIDE DEF more
        <5>6. IF act[c].room THEN wire'[c] = more ELSE wire'[c] = wire[c]
          BY <2>1, <4>2 DEF more
        <5>7. /\ \A i \in DOMAIN wire'[c] : wire'[c][i] = "sdp" => i = 1
              /\ InUse(c) /\ wire'[c] # <<>> => wire'[c][1] = "sdp"
              /\ InUse(c) /\ act'[c].room => wire'[c] # <<>>
          BY <2>1, <5>2, <5>3, <5>4, <5>5, <5>6
        <5> QED BY <2>6, <3>5, <3>7, <5>1, <5>7 DEF Desc, Sending
      <4> QED BY <2>11, <4>1, <4>2
    <3> QED BY <3>8, <3>9, <3>10, <3>11, <3>12 DEF Desc
  <2> QED BY <2>1, <2>8, <2>10, <2>11 DEF do
<1> QED BY <1>1, <1>2

\* A step that puts tasks at the end of the queue, and none about the descriptions.
LEMMA DescMore ==
  ASSUME Types, NEW c \in Calls, Desc(c), NEW s \in Seq(TaskType), exec' = exec \o s,
         \A d \in Talk : ~Has(s, d), Less(Words, ui', ui),
         Has(ui', "connected") <=> Has(ui, "connected"), Has(ui, "sdp") => Has(ui', "sdp"),
         conn'[c].local = conn[c].local, conn'[c].remote = conn[c].remote,
         conn'[c].state = conn[c].state, conn'[c].added = conn[c].added,
         \/ conn'[c].operations = conn[c].operations
         \/ conn[c].operations # <<>> /\ conn'[c].operations = Tail(conn[c].operations),
         room'[c].connected = room[c].connected, room'[c].role = room[c].role,
         room'[c].described = room[c].described, wire'[c] = wire[c], act'[c].role = act[c].role,
         client'.localSdp = client.localSdp, client'.isInitiator = client.isInitiator,
         InUse(c)' => InUse(c) /\ (act'[c].room => act[c].room)
  PROVE  Desc(c)'
<1>0. exec \in Seq(TaskType) /\ conn[c].operations \in Seq(Operations)
  BY DEF Types, ExecTyped, ConnType
<1>1. Less(Talk, exec', exec)
  BY <1>0, LessMore
<1>2. Has(exec, "setDone") => Has(exec', "setDone")
  BY <1>0, QueueConcat
<1>3. \A o : /\ Asked(conn'[c].operations, o) => Asked(conn[c].operations, o)
             /\ AskedOne(conn[c].operations, o) => AskedOne(conn'[c].operations, o)
  <2>1. CASE conn'[c].operations = conn[c].operations
    BY <2>1
  <2>2. CASE conn[c].operations # <<>> /\ conn'[c].operations = Tail(conn[c].operations)
    BY <1>0, <2>2, AskedTail
  <2> QED BY <2>1, <2>2
<1>4. conn[c].operations = <<>> => conn'[c].operations = <<>>
  OBVIOUS
<1>5. ToTell(c) \/ Has(ui, "sdp") => ToTell(c)' \/ Has(ui', "sdp")
  BY <1>2 DEF ToTell, Initiator
<1>6. Initiator(c) /\ ~client'.isInitiator =>
           ~client.isInitiator \/ (conn'[c].operations = <<>> /\ ~client.localSdp)
  OBVIOUS
<1>7. client'.isInitiator => client.isInitiator \/ Initiator(c)
  OBVIOUS
<1>8. conn'[c].state = "none" => conn[c].state = "none" /\ conn'[c].added = conn[c].added
  OBVIOUS
<1>9. (InUse(c)' => InUse(c) \/ ~conn[c].local) /\ (InUse(c)' /\ act'[c].room => act[c].room)
  OBVIOUS
<1> QED BY <1>1, <1>3, <1>4, <1>5, <1>6, <1>7, <1>8, <1>9, DescFrame

LEMMA UserDesc ==
  ASSUME Types, SingleCall, NEW c \in Calls, Life(c), Desc(c), User(c)
  PROVE  Desc(c)'
<1>0. act \in [Calls -> ActType] /\ act[c] \in ActType /\ client \in ClientType
  BY DEF Types
<1>1. Less(Words, ui, ui)
  BY LessSame
<1>2. CASE CreateActivity(c)
  <2> DEFINE s == <<Task("factory", c), Task("start", c)>>
  <2>1. exec' = exec \o s /\ act[c].phase = "none" /\ UNCHANGED <<conn, ui, room, wire>>
    BY <1>2 DEF CreateActivity, Execute
  <2>2. s \in Seq(TaskType) /\ \A d : Has(s, d) <=> d \in {"factory", "start"}
    BY StartHas
  <2>3. \A d \in Talk : ~Has(s, d)
    BY <2>2 DEF Talk
  <2> HIDE DEF s
  <2>4. act'[c].role = act[c].role
    BY <1>0, <1>2 DEF CreateActivity, ActType
  <2>5. client'.pc = None /\ ~client'.localSdp /\ client'.isInitiator = client.isInitiator
          /\ client'.localSdp \in BOOLEAN /\ client.localSdp \in BOOLEAN
    BY <1>0, <1>2 DEF CreateActivity, ClientType
  <2>6. ~client.localSdp
    <3>1. conn[c].state = "none"
      BY <2>1 DEF Life, Unborn, Connecting
    <3> QED BY <3>1 DEF Desc, Sides
  <2>7. client'.localSdp = client.localSdp
    BY <2>5, <2>6
  <2>8. ~InUse(c)'
    BY <2>5, Assumptions DEF InUse
  <2> QED BY <1>1, <2>1, <2>2, <2>3, <2>4, <2>5, <2>7, <2>8, DescMore
<1>3. CASE HangUp(c) \/ Back(c) \/ DialogOk(c) \/ Destroy(c)
  <2>1. /\ UNCHANGED <<client, conn, capturing, ui, room, wire>> /\ act'[c].role = act[c].role
        /\ act'[c].room => act[c].room
    BY <1>3, UserStep
  <2>2. PICK s \in Seq(TaskType) :
          exec' = exec \o s /\ \A d : Has(s, d) => ~act'[c].client /\ d \in {"stop", "close"}
    BY <1>3, UserStep
  <2>3. \A d \in Talk : ~Has(s, d)
    BY <2>2 DEF Talk
  <2>4. InUse(c)' => InUse(c)
    BY <2>1 DEF InUse
  <2> QED BY <1>1, <2>1, <2>2, <2>3, <2>4, DescMore
<1>4. CASE Stop(c) \/ Start(c)
  <2>1. PICK phase \in {"shown", "hidden"}, running \in BOOLEAN, do \in {"stop", "start"} :
          /\ act' = [act EXCEPT ![c] = [act[c] EXCEPT !.phase = phase, !.running = running]]
          /\ exec' = exec \o (IF act[c].client THEN <<Task(do, c)>> ELSE <<>>)
    <3>1. CASE Stop(c)
      BY <1>0, <3>1 DEF Stop, Execute
    <3>2. CASE Start(c)
      BY <1>0, <3>2 DEF Start, Execute
    <3> QED BY <1>4, <3>1, <3>2
  <2>2. UNCHANGED <<client, conn, ui, room, wire>>
    BY <1>4 DEF Stop, Start, callVars
  <2>3. act'[c].role = act[c].role /\ act'[c].room = act[c].room
    BY <1>0, <2>1 DEF ActType
  <2> DEFINE s == IF act[c].client THEN <<Task(do, c)>> ELSE <<>>
  <2>4. s \in Seq(TaskType) /\ \A d : Has(s, d) => d = do
    <3>1. CASE act[c].client
      <4>1. c \in Nat /\ do \in Tasks
        BY Assumptions DEF Tasks
      <4> QED BY <3>1, <4>1, OneTask
    <3>2. CASE ~act[c].client
      BY <3>2, QueueNone
    <3> QED BY <3>1, <3>2
  <2>5. \A d \in Talk : ~Has(s, d)
    BY <2>4 DEF Talk
  <2>6. exec' = exec \o s
    BY <2>1
  <2> HIDE DEF s
  <2>7. InUse(c)' => InUse(c)
    BY <2>2 DEF InUse
  <2> QED BY <1>1, <2>2, <2>3, <2>4, <2>5, <2>6, <2>7, DescMore
<1> QED BY <1>2, <1>3, <1>4 DEF User

\* The library answers: what it puts in the queue.
LEMMA AnswerTasks ==
  ASSUME Types, NEW c \in Calls, Answer(c)
  PROVE  LET o == Head(conn[c].operations)
         IN /\ o \in Operations /\ Possible(c, o)
            /\ o = "setLocal" =>
                 /\ client' = client
                 /\ \E s \in Seq(TaskType) :
                      /\ exec' = exec \o s /\ \A d : Has(s, d) => d \in {"setDone", "ice"}
                      /\ Has(s, "setDone") /\ One(s, "setDone") /\ Before(s, "setDone", "ice")
            /\ o = "setRemote" => client' = client /\ exec' = exec \o <<Task("setDone", None)>>
            /\ o \in {"createOffer", "createAnswer"} =>
                 \/ client.localSdp /\ client' = client /\ exec' = exec \o <<Task("error", None)>>
                 \/ /\ ~client.localSdp /\ client' = [client EXCEPT !.localSdp = TRUE]
                    /\ exec' = exec \o <<Task("setLocal", None)>>
<1> DEFINE o == Head(conn[c].operations)
<1>1. o \in Operations /\ Possible(c, o)
  <2>1. conn[c].operations # <<>> /\ conn[c].operations \in Seq(Operations) /\ Possible(c, o)
    BY DEF Answer, Types, ConnType
  <2>2. o \in Operations
    BY <2>1, AskedTail
  <2> QED BY <2>1, <2>2
<1>2. /\ o = "setLocal" => /\ client' = client
                           /\ \E candidates \in {<<>>, <<Task("ice", None)>>} :
                                exec' = exec \o (<<Task("setDone", None)>> \o candidates)
      /\ o = "setRemote" => client' = client /\ exec' = exec \o <<Task("setDone", None)>>
      /\ o \notin {"setLocal", "setRemote"} => Created(c)
  BY DEF Answer, Execute
<1> HIDE DEF o
<1>3. ASSUME o = "setLocal"
      PROVE  \E s \in Seq(TaskType) :
               /\ exec' = exec \o s /\ \A d : Has(s, d) => d \in {"setDone", "ice"}
               /\ Has(s, "setDone") /\ One(s, "setDone") /\ Before(s, "setDone", "ice")
  <2> DEFINE done == <<Task("setDone", None)>>
             ice == <<Task("ice", None)>>
  <2>1. /\ done \in Seq(TaskType) /\ (\A d : Has(done, d) <=> d = "setDone")
        /\ (\A d : One(done, d)) /\ Before(done, "setDone", "ice")
    BY OneTask DEF Tasks, None
  <2>2. /\ ice \in Seq(TaskType) /\ (\A d : Has(ice, d) <=> d = "ice")
        /\ (\A d : One(ice, d)) /\ Before(ice, "setDone", "ice")
    BY OneTask DEF Tasks, None
  <2>3. PICK candidates \in {<<>>, ice} : exec' = exec \o (done \o candidates)
    BY <1>2, <1>3
  <2> HIDE DEF done, ice
  <2>4. CASE candidates = <<>>
    <3>1. done \o candidates = done
      BY <2>1, <2>4
    <3> QED BY <2>1, <2>3, <3>1
  <2>5. CASE candidates = ice
    <3>1. /\ done \o ice \in Seq(TaskType)
          /\ \A d : Has(done \o ice, d) <=> (Has(done, d) \/ Has(ice, d))
          /\ One(done \o ice, "setDone") /\ Before(done \o ice, "setDone", "ice")
      BY <2>1, <2>2, QueueConcat
    <3>2. \A d : Has(done \o ice, d) <=> d = "setDone" \/ d = "ice"
      BY <2>1, <2>2, <3>1
    <3> QED BY <2>3, <2>5, <3>1, <3>2
  <2> QED BY <2>3, <2>4, <2>5
<1>4. o \in {"createOffer", "createAnswer"} =>
        \/ client.localSdp /\ client' = client /\ exec' = exec \o <<Task("error", None)>>
        \/ /\ ~client.localSdp /\ client' = [client EXCEPT !.localSdp = TRUE]
           /\ exec' = exec \o <<Task("setLocal", None)>>
  BY <1>2 DEF Created, Execute
<1> QED BY <1>1, <1>2, <1>3, <1>4 DEF o

LEMMA AnswerDesc ==
  ASSUME Types, SingleCall, NEW c \in Calls, Life(c), Desc(c), Answer(c)
  PROVE  Desc(c)'
<1> DEFINE o == Head(conn[c].operations)
<1>0. client \in ClientType /\ exec \in Seq(TaskType) /\ conn[c] \in ConnType
        /\ conn[c].operations \in Seq(Operations)
  BY DEF Types, ExecTyped, ConnType
<1>1. /\ conn'[c].state = conn[c].state /\ conn'[c].added = conn[c].added
      /\ conn[c].operations # <<>> /\ conn'[c].operations = Tail(conn[c].operations)
      /\ conn'[c].local = (conn[c].local \/ o = "setLocal")
      /\ conn'[c].remote = (conn[c].remote \/ o = "setRemote")
      /\ client'.pc = client.pc /\ client'.isError = client.isError
      /\ client'.isInitiator = client.isInitiator
  BY AnswerFields
<1>2. UNCHANGED <<act, wire, room, ui>>
  BY DEF Answer, appVars
<1>3. /\ \A p : Asked(conn[c].operations, p) <=> (Asked(conn'[c].operations, p) \/ o = p)
      /\ \A p : AskedOne(conn[c].operations, p) =>
           AskedOne(conn'[c].operations, p) /\ (o = p => ~Asked(conn'[c].operations, p))
  BY <1>0, <1>1, AskedTail
<1>4. o \in Operations /\ Possible(c, o)
  BY AnswerTasks
<1>5. (Initiator(c)' <=> Initiator(c)) /\ (Connecting(c)' <=> Connecting(c))
        /\ (Offered(c)' <=> Offered(c)) /\ (InUse(c)' <=> InUse(c))
  BY <1>1, <1>2 DEF Initiator, Connecting, Offered, InUse
<1>6. conn[c].state # "none" /\ (Initiator(c) => client.isInitiator)
  BY <1>1 DEF Desc, Sides
<1>7. ASSUME NEW s \in Seq(TaskType), exec' = exec \o s
      PROVE  /\ \A d : Has(exec', d) <=> (Has(exec, d) \/ Has(s, d))
             /\ \A d : One(exec, d) /\ One(s, d) /\ (Has(s, d) => ~Has(exec, d)) => One(exec', d)
             /\ \A a, b : Before(exec, a, b) /\ Before(s, a, b) /\ (Has(s, a) => ~Has(exec, b)) =>
                  Before(exec', a, b)
  BY <1>0, <1>7, QueueConcat
<1>8. CASE o = "setLocal"
  <2>1. PICK s \in Seq(TaskType) :
          /\ exec' = exec \o s /\ \A d : Has(s, d) => d \in {"setDone", "ice"}
          /\ Has(s, "setDone") /\ One(s, "setDone") /\ Before(s, "setDone", "ice")
    BY <1>8, AnswerTasks
  <2>2. client' = client
    BY <1>8, AnswerTasks
  <2> HIDE DEF o
  <2>3. /\ ~conn[c].local /\ ~Has(exec, "setLocal") /\ client.localSdp
        /\ ~Asked(conn'[c].operations, "setLocal")
    BY <1>3, <1>8 DEF Desc, LocalOnce
  <2>4. ~Has(exec, "ice") /\ ~Has(ui, "sdp") /\ ~Has(ui, "ice") /\ wire[c] = <<>>
    BY <2>3 DEF Desc, Turns
  <2>5. ~Has(exec, "setDone") /\ (~Initiator(c) => conn[c].remote) /\ (Initiator(c) => ~conn[c].remote)
    BY <1>3, <1>8, <2>3 DEF Desc, Turns
  <2>6. /\ ~Has(exec', "setLocal") /\ Has(exec', "setDone")
        /\ Has(exec', "offer") <=> Has(exec, "offer")
        /\ Has(exec', "answer") <=> Has(exec, "answer")
        /\ Has(exec', "setRemote") <=> Has(exec, "setRemote")
    <3>1. \A d : Has(exec', d) <=> (Has(exec, d) \/ Has(s, d))
      BY <1>7, <2>1
    <3>2. /\ ~Has(s, "setLocal") /\ ~Has(s, "offer") /\ ~Has(s, "answer") /\ ~Has(s, "setRemote")
          /\ Has(s, "setDone")
      <4>1. (\A d : Has(s, d) => d \in {"setDone", "ice"}) /\ Has(s, "setDone")
        BY <2>1
      <4> QED BY <4>1
    <3>3. ~Has(exec', "setLocal") /\ Has(exec', "setDone")
      BY <2>3, <3>1, <3>2
    <3>4. /\ Has(exec', "offer") <=> Has(exec, "offer")
          /\ Has(exec', "answer") <=> Has(exec, "answer")
          /\ Has(exec', "setRemote") <=> Has(exec, "setRemote")
      BY <3>1, <3>2
    <3> QED BY <3>3, <3>4
  <2>7. One(exec', "setDone") /\ Before(exec', "setDone", "ice")
    <3>1. One(exec, "setDone") /\ Before(exec, "setDone", "ice")
      BY <2>5 DEF One, Before, Has
    <3> QED BY <1>7, <2>1, <2>4, <2>5, <3>1
  <2>8. One(exec', "setRemote") /\ One(exec', "setLocal") /\ Before(exec', "setDone", "setLocal")
    <3>1. ~Has(s, "setRemote")
      BY <2>1
    <3>2. One(s, "setRemote")
      BY <3>1 DEF One, Has
    <3>3. One(exec, "setRemote")
      BY DEF Desc, RemoteOnce
    <3>4. One(exec', "setRemote")
      BY <1>7, <2>1, <3>1, <3>2, <3>3
    <3>5. One(exec', "setLocal") /\ Before(exec', "setDone", "setLocal")
      BY <2>6 DEF One, Before, Has
    <3> QED BY <3>4, <3>5
  <2>9. conn'[c].local /\ (conn'[c].remote <=> conn[c].remote) /\ (Initiator(c) => ~conn'[c].remote)
    BY <1>1, <1>8, <2>5
  <2>10. ToTell(c)'
    BY <1>5, <2>6, <2>9 DEF ToTell
  <2>11. Sides(c)'
    BY <1>1, <1>2, <1>3, <1>5, <1>6, <2>2, <2>6 DEF Desc, Sides
  <2>12. LocalOnce(c)'
    BY <1>3, <2>2, <2>3, <2>6, <2>8 DEF Desc, LocalOnce
  <2>13. RemoteOnce(c)'
    BY <1>2, <1>3, <1>5, <2>6, <2>8, <2>9 DEF Desc, RemoteOnce
  <2>14. Turns(c)'
    BY <1>1, <1>2, <1>3, <1>5, <2>2, <2>3, <2>5, <2>8, <2>9 DEF Desc, Turns
  <2>15. Sending(c)'
    BY <1>2, <2>4, <2>7, <2>10 DEF Desc, Sending
  <2> QED BY <2>11, <2>12, <2>13, <2>14, <2>15 DEF Desc
<1>9. CASE o = "setRemote"
  <2> DEFINE s == <<Task("setDone", None)>>
  <2>1. exec' = exec \o s /\ client' = client
    BY <1>9, AnswerTasks
  <2>2. /\ s \in Seq(TaskType) /\ (\A d : Has(s, d) <=> d = "setDone") /\ (\A d : One(s, d))
        /\ (\A a, b : a # b => Before(s, a, b))
    BY OneTask DEF Tasks, None
  <2> HIDE DEF s, o
  <2>3. Initiator(c) => conn[c].local
    BY <1>4, <1>9 DEF Possible, Initiator
  <2>4. /\ room[c].described /\ ~conn[c].remote /\ ~Has(exec, "setRemote") /\ ~Has(ui, "description")
        /\ ~Offered(c) /\ ~Asked(conn'[c].operations, "setRemote")
        /\ Initiator(c) => wire[c] # <<>>
    BY <1>3, <1>9 DEF Desc, RemoteOnce
  <2>5. ~Initiator(c) => ~client.localSdp /\ ~conn[c].local /\ ~Has(exec, "setLocal")
                           /\ ~Asked(conn[c].operations, "setLocal")
    BY <2>4 DEF Desc, Turns, LocalOnce
  <2>6. /\ \A d : Has(exec', d) <=> (Has(exec, d) \/ d = "setDone")
        /\ \A d : One(exec, d) /\ (d = "setDone" => ~Has(exec, d)) => One(exec', d)
        /\ \A a, b : a # b /\ Before(exec, a, b) /\ (a = "setDone" => ~Has(exec, b)) => Before(exec', a, b)
    BY <1>7, <2>1, <2>2
  <2>7. conn'[c].remote /\ (conn'[c].local <=> conn[c].local)
    BY <1>1, <1>9
  <2>8. ~ToTell(c)'
    BY <1>5, <2>5, <2>7 DEF ToTell
  <2>9. Sides(c)'
    BY <1>1, <1>2, <1>3, <1>5, <1>6, <2>1, <2>6 DEF Desc, Sides
  <2>10. LocalOnce(c)'
    BY <1>3, <2>1, <2>6, <2>7 DEF Desc, LocalOnce
  <2>11. RemoteOnce(c)'
    BY <1>2, <1>3, <1>5, <2>4, <2>6, <2>7 DEF Desc, RemoteOnce
  <2>12. Turns(c)'
    BY <1>2, <1>3, <1>5, <2>1, <2>3, <2>5, <2>6, <2>7 DEF Desc, Turns
  <2>13. Sending(c)'
    BY <1>2, <1>5, <2>4, <2>5, <2>7, <2>8 DEF Desc, Sending
  <2> QED BY <2>9, <2>10, <2>11, <2>12, <2>13 DEF Desc
<1>10. CASE o \in {"createOffer", "createAnswer"}
  <2> HIDE DEF o
  <2>1. (conn'[c].local <=> conn[c].local) /\ (conn'[c].remote <=> conn[c].remote)
    BY <1>1, <1>10
  <2>2. CASE client.localSdp /\ client' = client /\ exec' = exec \o <<Task("error", None)>>
    <3> DEFINE s == <<Task("error", None)>>
    <3>1. s \in Seq(TaskType) /\ \A d : Has(s, d) <=> d = "error"
      BY OneTask DEF Tasks, None
    <3>2. \A d \in Talk : ~Has(s, d)
      BY <3>1 DEF Talk
    <3> HIDE DEF s
    <3>3. exec' = exec \o s
      BY <2>2 DEF s
    <3>4. Less(Words, ui', ui)
      BY <1>2, LessSame
    <3>5. conn'[c].local = conn[c].local /\ conn'[c].remote = conn[c].remote
      BY <1>0, <1>1, <1>10 DEF ConnType
    <3> QED BY <1>1, <1>2, <1>5, <2>2, <3>1, <3>2, <3>3, <3>4, <3>5, DescMore
  <2>3. CASE /\ ~client.localSdp /\ client' = [client EXCEPT !.localSdp = TRUE]
             /\ exec' = exec \o <<Task("setLocal", None)>>
    <3> DEFINE s == <<Task("setLocal", None)>>
    <3>1. /\ s \in Seq(TaskType) /\ (\A d : Has(s, d) <=> d = "setLocal") /\ (\A d : One(s, d))
          /\ (\A a, b : a # b => Before(s, a, b))
      BY OneTask DEF Tasks, None
    <3>2. exec' = exec \o s
      BY <2>3
    <3> HIDE DEF s
    <3>3. client'.localSdp
      BY <1>0, <2>3 DEF ClientType
    <3>4. ~Has(exec, "setLocal") /\ ~Asked(conn[c].operations, "setLocal") /\ ~conn[c].local
      BY <2>3 DEF Desc, LocalOnce
    <3>5. /\ \A d : Has(exec', d) <=> (Has(exec, d) \/ d = "setLocal")
          /\ \A d : One(exec, d) /\ (d = "setLocal" => ~Has(exec, d)) => One(exec', d)
          /\ \A a, b : a # b /\ Before(exec, a, b) /\ (a = "setLocal" => ~Has(exec, b)) => Before(exec', a, b)
      BY <1>7, <3>1, <3>2
    <3>6. ~Initiator(c) => conn[c].remote
      <4>1. ASSUME ~Initiator(c) PROVE o = "createAnswer"
        BY <1>3, <1>10, <4>1 DEF Desc, Sides
      <4> QED BY <1>4, <4>1 DEF Possible
    <3>7. ToTell(c)' <=> ToTell(c)
      BY <1>5, <2>1, <3>5 DEF ToTell
    <3>8. Sides(c)'
      BY <1>1, <1>2, <1>3, <1>5, <1>6, <3>5 DEF Desc, Sides
    <3>9. LocalOnce(c)'
      BY <1>3, <2>1, <3>3, <3>4, <3>5 DEF Desc, LocalOnce
    <3>10. RemoteOnce(c)'
      BY <1>2, <1>3, <1>5, <2>1, <3>5 DEF Desc, RemoteOnce
    <3>11. Turns(c)'
      BY <1>2, <1>3, <1>5, <2>1, <3>4, <3>5, <3>6 DEF Desc, Turns
    <3>12. Sending(c)'
      BY <1>2, <1>5, <2>1, <3>5, <3>7 DEF Desc, Sending
    <3> QED BY <3>8, <3>9, <3>10, <3>11, <3>12 DEF Desc
  <2> QED BY <1>10, <2>2, <2>3, AnswerTasks DEF o
<1> QED BY <1>4, <1>8, <1>9, <1>10 DEF Operations

LEMMA LibraryDesc ==
  ASSUME Types, SingleCall, NEW c \in Calls, Life(c), Desc(c), Library(c)
  PROVE  Desc(c)'
<1>1. CASE Answer(c)
  BY <1>1, AnswerDesc
<1>2. CASE Refuse(c) \/ LoseConnection(c) \/ OtherError(c)
  <2>1. /\ UNCHANGED <<act, client, ui, room, wire, capturing>>
        /\ conn'[c].state = conn[c].state /\ conn'[c].added = conn[c].added
        /\ conn'[c].local = conn[c].local /\ conn'[c].remote = conn[c].remote
        /\ \/ conn'[c].operations = conn[c].operations
           \/ conn[c].operations # <<>> /\ conn'[c].operations = Tail(conn[c].operations)
    BY <1>2, LibraryStep
  <2>2. PICK s \in Seq(TaskType) : exec' = exec \o s /\ \A d : Has(s, d) => d \in {"error", "hungUp"}
    BY <1>2, LibraryStep
  <2>3. \A d \in Talk : ~Has(s, d)
    BY <2>2 DEF Talk
  <2>4. Less(Words, ui', ui) /\ (InUse(c)' => InUse(c))
    BY <2>1, LessSame DEF InUse
  <2> QED BY <2>1, <2>2, <2>3, <2>4, DescMore
<1> QED BY <1>1, <1>2 DEF Library

LEMMA RoomDesc ==
  ASSUME Types, SingleCall, NEW c \in Calls, Life(c), Desc(c), Room(c)
  PROVE  Desc(c)'
<1>0. /\ room \in [Calls -> RoomType] /\ room[c] \in RoomType /\ ui \in Seq(EventType)
      /\ exec \in Seq(TaskType)
  BY DEF Types, UiTyped, ExecTyped
<1>1. UNCHANGED <<act, wire, client, conn, exec>>
  BY DEF Room, RoomConnected, RoomDescription, RoomCandidate, RoomRemoved, RoomClosed, Hear,
         appVars, callVars
<1>2. InUse(c)' <=> InUse(c)
  BY <1>1 DEF InUse
<1>3. ASSUME NEW do \in {"candidate", "remove", "hungUp", "error"}, NEW of, ui' = Append(ui, Event(c, do, of)),
             Event(c, do, of) \in EventType,
             room'[c].connected = room[c].connected, room'[c].role = room[c].role,
             room'[c].described = room[c].described
      PROVE  Desc(c)'
  <2> DEFINE e == Event(c, do, of)
             s == <<e>>
  <2>1. e.do = do
    BY DEF Event
  <2> HIDE DEF e
  <2>2. s \in Seq(EventType) /\ \A d : Has(s, d) <=> d = do
    BY <1>3, <2>1, QueueOne DEF e
  <2>3. ui' = ui \o s
    BY <1>0, <1>3 DEF e
  <2>4. \A d \in Words : ~Has(s, d)
    BY <2>2 DEF Words
  <2> HIDE DEF s
  <2>5. Less(Words, ui', ui)
    BY <1>0, <2>2, <2>3, <2>4, LessMore
  <2>6. \A d : Has(ui', d) <=> (Has(ui, d) \/ Has(s, d))
    BY <1>0, <2>2, <2>3, QueueConcat
  <2>7. (Has(ui', "connected") <=> Has(ui, "connected")) /\ (Has(ui, "sdp") => Has(ui', "sdp"))
    BY <2>4, <2>6 DEF Words
  <2>8. <<>> \in Seq(TaskType) /\ exec' = exec \o <<>> /\ \A d \in Talk : ~Has(<<>>, d)
    BY <1>0, <1>1, QueueNone
  <2> QED BY <1>1, <1>2, <1>3, <2>5, <2>7, <2>8, DescMore
<1>4. CASE RoomConnected(c)
  <2>1. PICK role \in Roles, n \in 0..MaxKept :
          /\ room' = [room EXCEPT ![c].connected = TRUE, ![c].role = role, ![c].candidates = n,
                             ![c].described = (role = "offered")]
          /\ Hear(c, "connected", n)
    BY <1>4 DEF RoomConnected
  <2>2. room'[c].connected /\ room'[c].role = role /\ room'[c].described = (role = "offered")
          /\ ~room[c].connected
    BY <1>0, <1>4, <2>1 DEF RoomConnected, RoomType
  <2>3. n \in 0..MaxCandidates /\ "connected" \in Events
    BY Assumptions DEF Events
  <2> DEFINE e == Event(c, "connected", n)
  <2>4. ui' = ui \o <<e>> /\ e \in EventType /\ e.do = "connected"
    BY <2>1, <2>3, HearTypes
  <2> HIDE DEF e
  <2>5. /\ \A d : Has(ui', d) <=> (Has(ui, d) \/ d = "connected")
        /\ \A d : One(ui, d) /\ (d = "connected" => ~Has(ui, d)) => One(ui', d)
        /\ \A a, b : a # b /\ Before(ui, a, b) /\ (a = "connected" => ~Has(ui, b)) => Before(ui', a, b)
    BY <2>4, RunnablesMore
  <2>6. Connecting(c) /\ Connecting(c)' /\ room[c].role = "none" /\ ~Initiator(c) /\ ~room[c].described
    BY <2>2, <2>5 DEF Connecting, Desc, Sides, RemoteOnce, Initiator
  <2>7. /\ conn[c].state = "none" /\ conn[c].operations = <<>> /\ conn[c].added = <<>>
        /\ ~conn[c].local /\ ~conn[c].remote /\ ~client.localSdp /\ ~client.isInitiator
    BY <2>6 DEF Life, Desc, Sides
  <2>8. /\ ~Has(exec, "offer") /\ ~Has(exec, "answer") /\ ~Has(exec, "setRemote")
        /\ ~Has(exec, "setLocal") /\ ~Has(exec, "setDone") /\ ~Has(exec, "ice")
        /\ ~Has(ui, "description") /\ ~Has(ui, "sdp") /\ ~Has(ui, "ice") /\ wire[c] = <<>>
    <3>1. ~Has(exec, "offer") /\ ~Has(exec, "answer") /\ ~Has(exec, "setRemote")
      BY <2>6 DEF Life, Started
    <3>2. ~Has(exec, "setLocal") /\ ~Has(exec, "ice") /\ ~Has(ui, "sdp") /\ ~Has(ui, "ice") /\ wire[c] = <<>>
      BY <2>7 DEF Desc, LocalOnce, Turns
    <3>3. ~Has(exec, "setDone") /\ ~Has(ui, "description")
      BY <2>6, <2>7 DEF Desc, Turns, RemoteOnce
    <3> QED BY <3>1, <3>2, <3>3
  <2>9. ~Asked(conn[c].operations, "createOffer") /\ ~Asked(conn[c].operations, "createAnswer")
          /\ ~Asked(conn[c].operations, "setLocal") /\ ~Asked(conn[c].operations, "setRemote")
    BY <2>7, AskedNone
  <2>10. ~Has(ui', "description") /\ ~Has(ui', "sdp") /\ ~Has(ui', "ice")
    BY <2>5, <2>8
  <2>11. Offered(c)' => room'[c].described
    BY <2>2 DEF Offered
  <2>12. Sides(c)'
    BY <1>1, <2>2, <2>6, <2>7, <2>8, <2>9 DEF Sides
  <2>13. LocalOnce(c)'
    BY <1>1 DEF Desc, LocalOnce
  <2>14. RemoteOnce(c)'
    <3>1. One(ui', "description")
      BY <2>10 DEF One, Has
    <3>2. Initiator(c)' => ~room'[c].described
      BY <2>2 DEF Initiator
    <3> QED BY <1>1, <2>2, <2>7, <2>8, <2>9, <2>10, <2>11, <3>1, <3>2 DEF Desc, RemoteOnce
  <2>15. Turns(c)'
    <3>1. Before(exec, "setDone", "setLocal")
      BY <2>8 DEF Before, Has
    <3> QED BY <1>1, <2>7, <2>8, <2>9, <2>10, <3>1 DEF Turns
  <2>16. Sending(c)'
    <3>1. ~ToTell(c)'
      BY <1>1, <2>7 DEF ToTell
    <3>2. One(ui', "sdp") /\ Before(ui', "sdp", "ice")
      BY <2>10 DEF One, Before, Has
    <3> QED BY <1>1, <1>2, <2>7, <2>8, <2>10, <3>1, <3>2 DEF Desc, Sending
  <2> QED BY <2>12, <2>13, <2>14, <2>15, <2>16 DEF Desc
<1>5. CASE RoomDescription(c)
  <2>1. /\ room[c].connected /\ ~room[c].described /\ (Initiator(c) => wire[c] # <<>>)
        /\ Hear(c, "description", None) /\ room'[c].described /\ room'[c].role = room[c].role
        /\ room'[c].connected
    BY <1>0, <1>5 DEF RoomDescription, RoomType, Initiator
  <2>2. None \in 0..MaxCandidates /\ "description" \in Events
    BY Assumptions DEF Events
  <2> DEFINE e == Event(c, "description", None)
  <2>3. ui' = ui \o <<e>> /\ e \in EventType /\ e.do = "description"
    BY <2>1, <2>2, HearTypes
  <2> HIDE DEF e
  <2>4. /\ \A d : Has(ui', d) <=> (Has(ui, d) \/ d = "description")
        /\ \A d : One(ui, d) /\ (d = "description" => ~Has(ui, d)) => One(ui', d)
        /\ \A a, b : a # b /\ Before(ui, a, b) /\ (a = "description" => ~Has(ui, b)) => Before(ui', a, b)
    BY <2>3, RunnablesMore
  <2>5. /\ ~Offered(c) /\ ~Has(ui, "description") /\ ~Has(exec, "setRemote")
        /\ ~Asked(conn[c].operations, "setRemote") /\ ~conn[c].remote
    BY <2>1 DEF Desc, RemoteOnce
  <2>6. (Initiator(c)' <=> Initiator(c)) /\ (Connecting(c)' <=> Connecting(c)) /\ (Offered(c)' <=> Offered(c))
    BY <2>1, <2>4 DEF Initiator, Connecting, Offered
  <2>7. ToTell(c)' <=> ToTell(c)
    BY <1>1, <2>6 DEF ToTell
  <2>8. Sides(c)'
    BY <1>1, <2>1, <2>6 DEF Desc, Sides
  <2>9. LocalOnce(c)'
    BY <1>1 DEF Desc, LocalOnce
  <2>10. RemoteOnce(c)'
    BY <1>1, <2>1, <2>4, <2>5, <2>6 DEF Desc, RemoteOnce
  <2>11. Turns(c)'
    BY <1>1, <2>4, <2>6 DEF Desc, Turns
  <2>12. Sending(c)'
    BY <1>1, <1>2, <2>4, <2>7 DEF Desc, Sending
  <2> QED BY <2>8, <2>9, <2>10, <2>11, <2>12 DEF Desc
<1>6. CASE RoomCandidate(c)
  <2>1. /\ Hear(c, "candidate", room[c].candidates + 1) /\ room'[c].connected = room[c].connected
        /\ room'[c].role = room[c].role /\ room'[c].described = room[c].described
    BY <1>0, <1>6 DEF RoomCandidate, RoomType
  <2>2. room[c].candidates + 1 \in 1..MaxCandidates /\ "candidate" \in Events
    BY <1>0, <1>6, Assumptions DEF RoomCandidate, RoomType, Events
  <2>3. room[c].candidates + 1 \in 0..MaxCandidates
    BY <2>2, Assumptions
  <2>4. Event(c, "candidate", room[c].candidates + 1) \in EventType
    BY <2>1, <2>2, <2>3, HearTypes
  <2>5. ui' = Append(ui, Event(c, "candidate", room[c].candidates + 1))
    BY <2>1 DEF Hear
  <2> QED BY <1>3, <2>1, <2>4, <2>5
<1>7. CASE RoomRemoved(c) \/ RoomClosed(c)
  <2>1. PICK do \in {"remove", "hungUp", "error"} : Hear(c, do, None)
    BY <1>7 DEF RoomRemoved, RoomClosed
  <2>2. /\ room'[c].connected = room[c].connected
        /\ room'[c].role = room[c].role /\ room'[c].described = room[c].described
    BY <1>0, <1>7 DEF RoomRemoved, RoomClosed, RoomType
  <2>3. None \in 0..MaxCandidates /\ do \in Events
    BY Assumptions DEF Events
  <2>4. Event(c, do, None) \in EventType
    BY <2>1, <2>3, HearTypes
  <2>5. ui' = Append(ui, Event(c, do, None))
    BY <2>1 DEF Hear
  <2> QED BY <1>3, <2>1, <2>2, <2>4, <2>5
<1> QED BY <1>4, <1>5, <1>6, <1>7 DEF Room

LEMMA InitDesc == ASSUME Init, NEW c \in Calls PROVE Desc(c)
<1>1. /\ exec = <<>> /\ ui = <<>> /\ wire[c] = <<>> /\ conn[c].operations = <<>> /\ conn[c].added = <<>>
      /\ ~conn[c].local /\ ~conn[c].remote /\ ~client.localSdp /\ ~client.isInitiator
      /\ ~room[c].connected /\ room[c].role = "none" /\ ~room[c].described /\ client.pc # c
  BY Assumptions DEF Init
<1>2. /\ \A d : ~Has(exec, d) /\ One(exec, d) /\ ~Has(ui, d) /\ One(ui, d)
      /\ \A a, b : Before(exec, a, b) /\ Before(ui, a, b)
  BY <1>1, QueueNone
<1>3. \A o : ~Asked(conn[c].operations, o) /\ AskedOne(conn[c].operations, o)
  BY <1>1, AskedNone
<1>4. ~Initiator(c) /\ ~Offered(c) /\ ~ToTell(c) /\ ~InUse(c) /\ Connecting(c)
  BY <1>1, <1>2 DEF Initiator, Offered, ToTell, InUse, Connecting
<1> QED BY <1>1, <1>2, <1>3, <1>4 DEF Desc, Sides, LocalOnce, RemoteOnce, Turns, Sending

LEMMA StutterDesc == ASSUME NEW c \in Calls, Desc(c), UNCHANGED vars PROVE Desc(c)'
BY DEF vars, appVars, callVars, queueVars, Desc, Sides, LocalOnce, RemoteOnce, Turns, Sending,
       Initiator, Offered, ToTell, InUse, Connecting

LEMMA NextDesc ==
  ASSUME Types, SingleCall, NEW c \in Calls, Life(c), Desc(c), [Next]_vars
  PROVE  Desc(c)'
<1>1. \A d \in Calls : d = c
  BY DEF SingleCall
<1> QED BY <1>1, StutterDesc, UiDesc, ExecDesc, UserDesc, LibraryDesc, RoomDesc DEF Next

\* The offer or the answer goes out once, before any candidate, and is not forgotten when the
\* local description was set, in whatever order the library, the room and the other end
\* answer: onSetSuccess tells its own description from the other's.
THEOREM DescriptionSentOnce == ASSUME SingleCall PROVE Spec => []SentOnce
<1> DEFINE Inv == Types /\ \A c \in Calls : Quiet(c) /\ Life(c) /\ Desc(c)
<1>1. Init => Inv
  BY InitTypes, QuietInit, InitLife, InitDesc
<1>2. Inv /\ [Next]_vars => Inv'
  BY NextTypes, QuietNext, NextLife, NextDesc
<1>3. Inv => SentOnce
  <2> SUFFICES ASSUME Inv, NEW c \in Calls
      PROVE  /\ \A i \in 1..Len(wire[c]) : wire[c][i] = "sdp" => i = 1
             /\ InUse(c) /\ wire[c] # <<>> => wire[c][1] = "sdp"
             /\ Idle /\ InUse(c) /\ act[c].room /\ conn[c].local => wire[c] # <<>>
    BY DEF SentOnce
  <2>1. DOMAIN wire[c] = 1..Len(wire[c])
    BY DEF Types
  <2>2. Idle => ~Has(ui, "sdp") /\ ~ToTell(c)
    BY QueueNone DEF Idle, ToTell
  <2> QED BY <2>1, <2>2 DEF Desc, Sending
<1> QED BY <1>1, <1>2, <1>3, PTL DEF Spec

-----------------------------------------------------------------------------
(* The candidates.                                                          *)

LEMMA RunNone ==
  ASSUME NEW q, ~Has(q, "candidate"), NEW a \in Nat, NEW b \in Nat
  PROVE  Run(q, a, b) <=> b <= a
<1>1. \A k \in DOMAIN q : q[k].do # "candidate"
  BY DEF Has
<1>2. CASE b <= a
  <2>1. (a + 1)..b = {}
    BY <1>2
  <2> QED BY <1>1, <1>2, <2>1 DEF Run
<1>3. CASE ~(b <= a)
  <2>1. b \in (a + 1)..b
    BY <1>3
  <2> QED BY <1>1, <1>3, <2>1 DEF Run
<1> QED BY <1>2, <1>3

\* Candidates after candidates.
LEMMA RunConcat ==
  ASSUME NEW S, NEW q \in Seq(S), NEW s \in Seq(S), NEW a \in Nat, NEW b \in Nat, NEW d \in Nat,
         Run(q, a, b), Run(s, b, d), a <= b, b <= d
  PROVE  Run(q \o s, a, d)
<1> DEFINE r == q \o s
           n == Len(q)
<1>1. /\ n \in Nat /\ DOMAIN q \subseteq Nat /\ DOMAIN s \subseteq Nat /\ DOMAIN r \subseteq Nat
      /\ \A i \in DOMAIN q : r[i] = q[i] /\ i \in DOMAIN r
      /\ \A i \in DOMAIN s : r[n + i] = s[i] /\ n + i \in DOMAIN r
      /\ \A i \in DOMAIN r : i \in DOMAIN q \/ (i - n \in DOMAIN s /\ r[i] = s[i - n])
  BY ConcatParts
<1>2. \A i \in DOMAIN s : \A j \in DOMAIN q : j < n + i
  BY ConcatParts
<1> HIDE DEF r, n
<1>3. \A k \in DOMAIN q : q[k].do = "candidate" => q[k].of \in (a + 1)..b
  BY DEF Run
<1>4. \A k \in DOMAIN s : s[k].do = "candidate" => s[k].of \in (b + 1)..d
  BY DEF Run
<1>5. ASSUME NEW k \in DOMAIN r, r[k].do = "candidate" PROVE r[k].of \in (a + 1)..d
  <2>1. CASE k \in DOMAIN q
    <3>1. q[k].of \in (a + 1)..b /\ r[k] = q[k]
      BY <1>1, <1>3, <1>5, <2>1
    <3> QED BY <3>1
  <2>2. CASE k \notin DOMAIN q
    <3>1. k - n \in DOMAIN s /\ r[k] = s[k - n]
      BY <1>1, <2>2
    <3>2. s[k - n].of \in (b + 1)..d
      BY <1>4, <1>5, <3>1
    <3> QED BY <3>1, <3>2
  <2> QED BY <2>1, <2>2
<1>6. ASSUME NEW j \in DOMAIN r, NEW k \in DOMAIN r, j < k, r[j].do = "candidate", r[k].do = "candidate"
      PROVE  r[j].of < r[k].of
  <2>0. j \in Nat /\ k \in Nat
    BY <1>1
  <2>1. CASE k \in DOMAIN q /\ j \in DOMAIN q
    BY <1>1, <1>6, <2>1 DEF Run
  <2>2. CASE k \in DOMAIN q /\ j \notin DOMAIN q
    <3>1. j - n \in DOMAIN s
      BY <1>1, <2>2
    <3>2. k < n + (j - n)
      BY <1>2, <2>2, <3>1
    <3>3. k < j
      BY <1>1, <2>0, <3>2
    <3> QED BY <1>6, <2>0, <3>3
  <2>3. CASE k \notin DOMAIN q /\ j \in DOMAIN q
    <3>1. k - n \in DOMAIN s /\ r[k] = s[k - n] /\ r[j] = q[j]
      BY <1>1, <2>3
    <3>2. r[j].of \in (a + 1)..b /\ r[k].of \in (b + 1)..d
      BY <1>3, <1>4, <1>6, <2>3, <3>1
    <3> QED BY <3>2
  <2>4. CASE k \notin DOMAIN q /\ j \notin DOMAIN q
    <3>1. k - n \in DOMAIN s /\ r[k] = s[k - n] /\ j - n \in DOMAIN s /\ r[j] = s[j - n]
      BY <1>1, <2>4
    <3>2. j - n < k - n
      BY <1>1, <1>6, <2>0
    <3> QED BY <1>6, <3>1, <3>2 DEF Run
  <2> QED BY <2>1, <2>2, <2>3, <2>4
<1>7. ASSUME NEW m \in (a + 1)..d PROVE \E k \in DOMAIN r : r[k].do = "candidate" /\ r[k].of = m
  <2>1. CASE m \in (a + 1)..b
    <3>1. PICK k \in DOMAIN q : q[k].do = "candidate" /\ q[k].of = m
      BY <2>1 DEF Run
    <3> QED BY <1>1, <3>1
  <2>2. CASE m \in (b + 1)..d
    <3>1. PICK k \in DOMAIN s : s[k].do = "candidate" /\ s[k].of = m
      BY <2>2 DEF Run
    <3>2. n + k \in DOMAIN r /\ r[n + k] = s[k]
      BY <1>1
    <3> QED BY <3>1, <3>2
  <2>3. m \in (a + 1)..b \/ m \in (b + 1)..d
    BY <1>7
  <2> QED BY <2>1, <2>2, <2>3
<1>8. Run(r, a, d)
  BY <1>5, <1>6, <1>7 DEF Run
<1> QED BY <1>8 DEF r

LEMMA RunMore ==
  ASSUME NEW S, NEW q \in Seq(S), NEW s \in Seq(S), ~Has(s, "candidate"), NEW a \in Nat, NEW b \in Nat,
         a <= b, Run(q, a, b)
  PROVE  Run(q \o s, a, b)
<1>1. Run(s, b, b)
  BY RunNone
<1> QED BY <1>1, RunConcat

LEMMA RunOne ==
  ASSUME NEW t, t.do = "candidate", NEW b \in Nat, t.of = b + 1
  PROVE  Run(<<t>>, b, b + 1)
<1> DEFINE q == <<t>>
<1>1. DOMAIN q = {1} /\ q[1] = t
  OBVIOUS
<1>2. (b + 1)..(b + 1) = {b + 1}
  OBVIOUS
<1> HIDE DEF q
<1>3. Run(q, b, b + 1)
  BY <1>1, <1>2 DEF Run
<1> QED BY <1>3 DEF q

\* The first of the tasks is taken: it is not a candidate, or the next one.
LEMMA RunTail ==
  ASSUME NEW S, NEW q \in Seq(S), q # <<>>, NEW a \in Nat, NEW b \in Nat, Run(q, a, b)
  PROVE  /\ Head(q).do # "candidate" => Run(Tail(q), a, b)
         /\ Head(q).do = "candidate" => /\ Head(q).of = a + 1 /\ a + 1 <= b
                                        /\ Run(Tail(q), a + 1, b)
<1> DEFINE r == Tail(q)
           h == Head(q)
<1>1. /\ DOMAIN q \subseteq Nat /\ DOMAIN r \subseteq Nat /\ h = q[1] /\ 1 \in DOMAIN q
      /\ \A i \in DOMAIN r : r[i] = q[i + 1] /\ i + 1 \in DOMAIN q /\ 1 < i + 1
      /\ \A i \in DOMAIN q : i = 1 \/ (i - 1 \in DOMAIN r /\ r[i - 1] = q[i])
  <2>1. \A i \in DOMAIN r : i \in Nat /\ 0 < i
    BY TailParts
  <2> QED BY <2>1, TailParts
<1> HIDE DEF r, h
<1>2. /\ \A k \in DOMAIN q : q[k].do = "candidate" => q[k].of \in (a + 1)..b
      /\ \A j, k \in DOMAIN q :
           j < k /\ q[j].do = "candidate" /\ q[k].do = "candidate" => q[j].of < q[k].of
      /\ \A m \in (a + 1)..b : \E k \in DOMAIN q : q[k].do = "candidate" /\ q[k].of = m
  BY DEF Run
<1>3. \A j, k \in DOMAIN r :
        j < k /\ r[j].do = "candidate" /\ r[k].do = "candidate" => r[j].of < r[k].of
  <2> SUFFICES ASSUME NEW j \in DOMAIN r, NEW k \in DOMAIN r, j < k, r[j].do = "candidate",
                      r[k].do = "candidate"
               PROVE  r[j].of < r[k].of
    OBVIOUS
  <2>1. j + 1 \in DOMAIN q /\ k + 1 \in DOMAIN q /\ j + 1 < k + 1 /\ r[j] = q[j + 1] /\ r[k] = q[k + 1]
    BY <1>1
  <2> QED BY <1>2, <2>1
<1>4. ASSUME h.do # "candidate" PROVE Run(r, a, b)
  <2>1. \A k \in DOMAIN r : r[k].do = "candidate" => r[k].of \in (a + 1)..b
    BY <1>1, <1>2
  <2>2. ASSUME NEW m \in (a + 1)..b PROVE \E k \in DOMAIN r : r[k].do = "candidate" /\ r[k].of = m
    <3>1. PICK k \in DOMAIN q : q[k].do = "candidate" /\ q[k].of = m
      BY <1>2
    <3>2. k - 1 \in DOMAIN r /\ r[k - 1] = q[k]
      BY <1>1, <1>4, <3>1
    <3> QED BY <3>1, <3>2
  <2> QED BY <1>3, <2>1, <2>2 DEF Run
<1>5. ASSUME h.do = "candidate" PROVE h.of = a + 1 /\ a + 1 <= b /\ Run(r, a + 1, b)
  <2>1. h.of \in (a + 1)..b
    BY <1>1, <1>2, <1>5
  <2>2. a + 1 \in (a + 1)..b
    BY <2>1
  <2>3. PICK k \in DOMAIN q : q[k].do = "candidate" /\ q[k].of = a + 1
    BY <1>2, <2>2
  <2>4. k = 1
    <3> SUFFICES ASSUME k # 1 PROVE FALSE
      OBVIOUS
    <3>1. k - 1 \in DOMAIN r /\ k \in Nat
      BY <1>1
    <3>2. 1 < (k - 1) + 1
      BY <1>1, <3>1
    <3>3. 1 < k
      BY <3>1, <3>2
    <3>4. q[1].of < q[k].of
      BY <1>1, <1>2, <1>5, <2>3, <3>3
    <3>5. q[1].of \in (a + 1)..b /\ q[1].of < a + 1
      BY <1>1, <2>1, <2>3, <3>4
    <3> QED BY <3>5
  <2>5. h.of = a + 1
    BY <1>1, <2>3, <2>4
  <2>6. ASSUME NEW i \in DOMAIN r, r[i].do = "candidate" PROVE r[i].of \in ((a + 1) + 1)..b
    <3>1. i + 1 \in DOMAIN q /\ 1 < i + 1 /\ r[i] = q[i + 1]
      BY <1>1
    <3>2. q[1].of < q[i + 1].of /\ q[i + 1].of \in (a + 1)..b
      BY <1>1, <1>2, <1>5, <2>6, <3>1
    <3>3. a + 1 < r[i].of /\ r[i].of \in (a + 1)..b
      BY <1>1, <2>5, <3>1, <3>2
    <3> QED BY <3>3
  <2>7. ASSUME NEW m \in ((a + 1) + 1)..b PROVE \E i \in DOMAIN r : r[i].do = "candidate" /\ r[i].of = m
    <3>1. m \in (a + 1)..b /\ m # a + 1
      OBVIOUS
    <3>2. PICK i \in DOMAIN q : q[i].do = "candidate" /\ q[i].of = m
      BY <1>2, <3>1
    <3>3. i # 1
      BY <2>3, <2>4, <3>1, <3>2
    <3>4. i - 1 \in DOMAIN r /\ r[i - 1] = q[i]
      BY <1>1, <3>3
    <3> QED BY <3>2, <3>4
  <2> QED BY <1>3, <2>2, <2>5, <2>6, <2>7 DEF Run
<1> QED BY <1>4, <1>5 DEF r, h

\* The room's first word is not taken.
LEMMA JoinsTail ==
  ASSUME NEW S, NEW q \in Seq(S), q # <<>>, NEW m \in Nat, Joins(q, m), Before(q, "connected", "candidate"),
         \A x \in S : x.do = "connected" => x.of \in Nat
  PROVE  Joins(Tail(q), m)
<1> DEFINE r == Tail(q)
<1>1. Head(q).do = "candidate" => ~Has(r, "connected")
  BY QueueTail
<1>2. \A i \in DOMAIN r : r[i] = q[i + 1] /\ i + 1 \in DOMAIN q /\ q[i + 1] \in S
  BY TailParts
<1>3. ASSUME NEW a \in Nat, Run(q, a, m), Head(q).do # "candidate" PROVE Run(r, a, m)
  BY <1>3, RunTail
<1> HIDE DEF r
<1>4. SUFFICES ASSUME NEW i \in DOMAIN r, r[i].do = "connected" PROVE r[i].of <= m /\ Run(r, r[i].of, m)
  BY DEF Joins, r
<1>5. Has(r, "connected")
  BY <1>4 DEF Has
<1>6. r[i].of \in Nat /\ r[i].of <= m /\ Run(q, r[i].of, m)
  BY <1>2, <1>4 DEF Joins
<1> QED BY <1>1, <1>3, <1>5, <1>6

LEMMA JoinsMore ==
  ASSUME NEW S, NEW q \in Seq(S), NEW e \in S, NEW m \in Nat, Joins(q, m),
         \A x \in S : x.do = "connected" => x.of \in Nat, e.do # "connected"
  PROVE  /\ e.do # "candidate" => Joins(q \o <<e>>, m)
         /\ e.do = "candidate" /\ e.of = m + 1 => Joins(q \o <<e>>, m + 1)
<1> DEFINE s == <<e>>
           r == q \o s
           p == IF e.do = "candidate" THEN m + 1 ELSE m
<1>1. s \in Seq(S) /\ (\A d : Has(s, d) <=> e.do = d)
  BY QueueOne
<1>2. DOMAIN s = {1} /\ s[1] = e
  OBVIOUS
<1>3. /\ \A i \in DOMAIN q : r[i] = q[i] /\ i \in DOMAIN r /\ q[i] \in S
      /\ \A i \in DOMAIN r : i \in DOMAIN q \/ (i - Len(q) \in DOMAIN s /\ r[i] = s[i - Len(q)])
  BY <1>1, ConcatParts
<1>4. ASSUME NEW a \in Nat, a <= m, Run(q, a, m), e.do = "candidate" => e.of = m + 1
      PROVE  Run(r, a, p)
  <2>1. CASE e.do # "candidate"
    BY <1>1, <1>4, <2>1, RunMore
  <2>2. CASE e.do = "candidate"
    <3>1. Run(s, m, m + 1)
      BY <1>4, <2>2, RunOne
    <3>2. m + 1 \in Nat /\ m <= m + 1
      OBVIOUS
    <3> HIDE DEF s
    <3>3. Run(q \o s, a, m + 1)
      BY <1>1, <1>4, <3>1, <3>2, RunConcat
    <3> QED BY <2>2, <3>3
  <2> QED BY <2>1, <2>2
<1> HIDE DEF s, r
<1>5. ASSUME e.do = "candidate" => e.of = m + 1 PROVE Joins(r, p)
  <2> SUFFICES ASSUME NEW i \in DOMAIN r, r[i].do = "connected" PROVE r[i].of <= p /\ Run(r, r[i].of, p)
    BY DEF Joins
  <2>1. i \in DOMAIN q
    BY <1>2, <1>3
  <2>2. r[i] = q[i] /\ q[i].of \in Nat
    BY <1>3, <2>1
  <2>3. q[i].of <= m /\ Run(q, q[i].of, m)
    BY <2>1, <2>2 DEF Joins
  <2> QED BY <1>4, <1>5, <2>2, <2>3
<1> QED BY <1>5 DEF r, s

\* The room's first word.
LEMMA JoinsFirst ==
  ASSUME NEW S, NEW q \in Seq(S), NEW e \in S, e.do = "connected", e.of \in Nat,
         ~Has(q, "connected"), ~Has(q, "candidate")
  PROVE  Joins(q \o <<e>>, e.of)
<1> DEFINE s == <<e>>
           r == q \o s
<1>1. s \in Seq(S) /\ (\A d : Has(s, d) <=> e.do = d)
  BY QueueOne
<1>2. DOMAIN s = {1} /\ s[1] = e
  OBVIOUS
<1>3. /\ \A i \in DOMAIN q : r[i] = q[i] /\ i \in DOMAIN r
      /\ \A i \in DOMAIN r : i \in DOMAIN q \/ (i - Len(q) \in DOMAIN s /\ r[i] = s[i - Len(q)])
  BY <1>1, ConcatParts
<1>4. ~Has(r, "candidate")
  BY <1>1, QueueConcat
<1> HIDE DEF s, r
<1>5. Run(r, e.of, e.of)
  BY <1>4, RunNone
<1>6. \A i \in DOMAIN r : r[i].do = "connected" => r[i] = e
  BY <1>2, <1>3 DEF Has
<1>7. Joins(r, e.of)
  BY <1>5, <1>6 DEF Joins
<1> QED BY <1>7 DEF r, s

\* What the client has got, after one more candidate.
LEMMA GotMore ==
  ASSUME NEW S, NEW p \in Seq(S), NEW q \in Seq(S), NEW n \in S
  PROVE  /\ p \o Append(q, n) = Append(p \o q, n)
         /\ q = <<>> => Append(p, n) \o q = Append(p \o q, n)
OBVIOUS

LEMMA GotTyped ==
  ASSUME Types, NEW c \in Calls
  PROVE  /\ Got(c) \in Seq(1..MaxCandidates) /\ Len(Got(c)) \in Nat
         /\ conn[c].added \in Seq(1..MaxCandidates) /\ client.queued \in Seq(1..MaxCandidates)
<1>1. conn[c].added \in Seq(1..MaxCandidates) /\ client.queued \in Seq(1..MaxCandidates)
  BY DEF Types, ConnType, ClientType
<1>2. Got(c) \in Seq(1..MaxCandidates)
  BY <1>1, ConcatParts DEF Got
<1> QED BY <1>1, <1>2

LEMMA CountedMore ==
  ASSUME NEW S, NEW s \in Seq(S), \A i \in DOMAIN s : s[i] = i
  PROVE  LET r == Append(s, Len(s) + 1)
         IN Len(r) = Len(s) + 1 /\ \A i \in DOMAIN r : r[i] = i
OBVIOUS

\* A step that takes no candidate and brings none.
LEMMA OrderedFrame ==
  ASSUME Types, NEW c \in Calls, Ordered(c),
         \A a, b \in Nat : a <= b /\ Run(exec, a, b) => Run(exec', a, b),
         Has(exec', "create") => Has(exec, "create"),
         Before(exec, "create", "candidate") => Before(exec', "create", "candidate"),
         act'[c].client => act[c].client,
         act'[c].client => \A a, b \in Nat : a <= b /\ Run(ui, a, b) => Run(ui', a, b),
         Joins(ui', room[c].candidates), room'[c].candidates = room[c].candidates,
         InUse(c)' => InUse(c) /\ Got(c)' = Got(c)
  PROVE  Ordered(c)'
<1> DEFINE m == room[c].candidates
<1>0. m \in Nat
  <2>1. room[c].candidates \in 0..MaxCandidates
    BY DEF Types, RoomType
  <2> QED BY <2>1, Assumptions
<1>1. ASSUME NEW got \in Nat, Flow(c, got) PROVE Flow(c, got)'
  <2>1. PICK e \in got..m : Run(exec, got, e) /\ (act[c].client => Run(ui, e, m))
    BY <1>1 DEF Flow
  <2>2. e \in Nat /\ got <= e /\ e <= m
    BY <1>0, <2>1
  <2> HIDE DEF m
  <2>3. Run(exec', got, e)
    BY <2>1, <2>2
  <2>4. act'[c].client => Run(ui', e, m)
    BY <1>0, <2>1, <2>2
  <2>5. e \in got..room'[c].candidates /\ m = room'[c].candidates
    BY <2>1 DEF m
  <2> QED BY <2>3, <2>4, <2>5 DEF Flow
<1>2. InUse(c)' => (\A i \in DOMAIN Got(c)' : Got(c)'[i] = i) /\ Flow(c, Len(Got(c)))'
  <2> SUFFICES ASSUME InUse(c)'
      PROVE  (\A i \in DOMAIN Got(c)' : Got(c)'[i] = i) /\ Flow(c, Len(Got(c)))'
    OBVIOUS
  <2>1. Got(c)' = Got(c) /\ (\A i \in DOMAIN Got(c) : Got(c)[i] = i) /\ Flow(c, Len(Got(c)))
    BY DEF Ordered
  <2> DEFINE got == Len(Got(c))
  <2>2. got \in Nat
    BY GotTyped
  <2>3. got' = got /\ Flow(c, got)
    BY <2>1
  <2> HIDE DEF got
  <2>4. Flow(c, got)'
    <3>1. \E e \in got..room'[c].candidates :
            Run(exec', got, e) /\ (act'[c].client => Run(ui', e, room'[c].candidates))
      BY <1>1, <2>2, <2>3 DEF Flow
    <3> QED BY <2>3, <3>1 DEF Flow
  <2> QED BY <2>1, <2>4 DEF got
<1>3. Has(exec', "create") => Before(exec', "create", "candidate") /\ Flow(c, 0)'
  BY <1>1 DEF Ordered
<1> QED BY <1>2, <1>3 DEF Ordered

LEMMA DrainedFrame ==
  ASSUME NEW c \in Calls, Drained(c), room[c].removed => room'[c].removed,
         Has(ui', "remove") \/ Has(exec', "remove") =>
           Has(ui, "remove") \/ Has(exec, "remove") \/ room'[c].removed,
         InUse(c)' => InUse(c),
         client'.pc = c =>
           client.pc = c /\ client'.queueing = client.queueing /\ client'.queued = client.queued,
         conn'[c].added = conn[c].added, Described(c) => Described(c)',
         Described(c)' => Described(c) \/ Has(exec', "setDone"),
         Has(exec, "setDone") => Has(exec', "setDone")
  PROVE  Drained(c)'
<1>1. InUse(c)' => client'.pc = c
  BY DEF InUse
<1> QED BY <1>1 DEF Drained

\* A runnable that is not about the candidates.
LEMMA UiKeeps ==
  ASSUME Types, NEW c \in Calls, Joins(ui, room[c].candidates), NEW e \in EventType,
         ui' = ui \o <<e>>, e.do \notin {"connected", "candidate"}
  PROVE  /\ \A a, b \in Nat : a <= b /\ Run(ui, a, b) => Run(ui', a, b)
         /\ Joins(ui', room[c].candidates)
         /\ Has(ui', "remove") => Has(ui, "remove") \/ e.do = "remove"
<1>1. ui \in Seq(EventType) /\ room[c].candidates \in Nat
  <2>1. ui \in Seq(EventType) /\ room[c].candidates \in 0..MaxCandidates
    BY DEF Types, RoomType, UiTyped
  <2> QED BY <2>1, Assumptions
<1> DEFINE s == <<e>>
<1>2. s \in Seq(EventType) /\ (\A d : Has(s, d) <=> e.do = d)
  BY QueueOne
<1>3. ~Has(s, "candidate")
  BY <1>2
<1>4. \A x \in EventType : x.do = "connected" => x.of \in Nat
  BY Assumptions DEF EventType
<1>5. Joins(ui', room[c].candidates)
  BY <1>1, <1>4, JoinsMore
<1>6. Has(ui', "remove") => Has(ui, "remove") \/ e.do = "remove"
  BY <1>1, <1>2, QueueConcat
<1> HIDE DEF s
<1>7. ASSUME NEW a \in Nat, NEW b \in Nat, a <= b, Run(ui, a, b) PROVE Run(ui', a, b)
  <2>1. Run(ui \o s, a, b)
    BY <1>1, <1>2, <1>3, <1>7, RunMore
  <2> QED BY <2>1 DEF s
<1> QED BY <1>5, <1>6, <1>7

LEMMA TellKeeps ==
  ASSUME Types, NEW c \in Calls, Joins(ui, room[c].candidates),
         NEW do \in {"sdp", "ice", "hungUp", "error"}, ui' = ui \/ (Heard /\ Tell(do))
  PROVE  /\ \A a, b \in Nat : a <= b /\ Run(ui, a, b) => Run(ui', a, b)
         /\ Joins(ui', room[c].candidates)
         /\ Has(ui', "remove") => Has(ui, "remove")
<1>1. CASE ui' = ui
  BY <1>1
<1>2. CASE Heard /\ Tell(do)
  <2> DEFINE e == Event(client.events, do, None)
  <2>1. ui' = ui \o <<e>> /\ e \in EventType /\ e.do = do
    BY <1>2, TellTypes
  <2> HIDE DEF e
  <2>2. e.do \notin {"connected", "candidate", "remove"}
    BY <2>1
  <2> QED BY <2>1, <2>2, UiKeeps
<1> QED BY <1>1, <1>2

\* Tasks that are not about the candidates.
LEMMA KeptMore ==
  ASSUME Types, NEW c \in Calls, Kept(c), NEW s \in Seq(TaskType), exec' = exec \o s,
         ~Has(s, "candidate"), ~Has(s, "create"), Has(s, "remove") => Has(ui, "remove"),
         act'[c].client => act[c].client,
         \A a, b \in Nat : a <= b /\ Run(ui, a, b) => Run(ui', a, b),
         Joins(ui', room[c].candidates), Has(ui', "remove") => Has(ui, "remove") \/ room'[c].removed,
         room'[c].candidates = room[c].candidates, room[c].removed => room'[c].removed,
         InUse(c)' => InUse(c), conn'[c].added = conn[c].added,
         client'.pc = c =>
           client.pc = c /\ client'.queueing = client.queueing /\ client'.queued = client.queued,
         Described(c) => Described(c)', Described(c)' => Described(c) \/ Has(s, "setDone")
  PROVE  Kept(c)'
<1>0. exec \in Seq(TaskType)
  BY DEF Types, ExecTyped
<1>1. /\ \A d : Has(exec', d) <=> (Has(exec, d) \/ Has(s, d))
      /\ \A a, b : Before(exec, a, b) /\ Before(s, a, b) /\ (Has(s, a) => ~Has(exec, b)) =>
           Before(exec', a, b)
  BY <1>0, QueueConcat
<1>2. Before(s, "create", "candidate")
  BY DEF Before, Has
<1>3. Before(exec, "create", "candidate") => Before(exec', "create", "candidate")
  BY <1>1, <1>2
<1>4. (Has(exec', "create") => Has(exec, "create")) /\ (Has(exec, "setDone") => Has(exec', "setDone"))
  BY <1>1
<1>5. ASSUME NEW a \in Nat, NEW b \in Nat, a <= b, Run(exec, a, b) PROVE Run(exec', a, b)
  BY <1>0, <1>5, RunMore
<1>6. InUse(c)' => InUse(c) /\ Got(c)' = Got(c)
  BY DEF InUse, Got
<1>7. Ordered(c)'
  BY <1>3, <1>4, <1>5, <1>6, OrderedFrame DEF Kept
<1>8. Has(ui', "remove") \/ Has(exec', "remove") =>
        Has(ui, "remove") \/ Has(exec, "remove") \/ room'[c].removed
  BY <1>1
<1>9. Described(c)' => Described(c) \/ Has(exec', "setDone")
  BY <1>1
<1>10. Drained(c)'
  BY <1>4, <1>8, <1>9, DrainedFrame DEF Kept
<1> QED BY <1>7, <1>10 DEF Kept

\* A task of the executor that is not about the candidates.
LEMMA KeptTail ==
  ASSUME Types, NEW c \in Calls, Kept(c), exec # <<>>, exec' = Tail(exec),
         Head(exec).do \notin {"create", "candidate", "setDone"}, UNCHANGED <<act, room>>,
         \A a, b \in Nat : a <= b /\ Run(ui, a, b) => Run(ui', a, b),
         Joins(ui', room[c].candidates), Has(ui', "remove") => Has(ui, "remove"),
         InUse(c)' => InUse(c), conn'[c].added = conn[c].added,
         client'.pc = c =>
           client.pc = c /\ client'.queueing = client.queueing /\ client'.queued = client.queued,
         Described(c)' <=> Described(c)
  PROVE  Kept(c)'
<1>0. exec \in Seq(TaskType)
  BY DEF Types, ExecTyped
<1>1. /\ \A d : Has(exec, d) <=> (Has(exec', d) \/ Head(exec).do = d)
      /\ \A a, b : Before(exec, a, b) => Before(exec', a, b)
  BY TasksTail
<1>2. /\ Before(exec, "create", "candidate") => Before(exec', "create", "candidate")
      /\ Has(exec', "create") => Has(exec, "create")
      /\ Has(exec, "setDone") => Has(exec', "setDone")
      /\ Has(exec', "remove") => Has(exec, "remove")
  BY <1>1
<1>3. ASSUME NEW a \in Nat, NEW b \in Nat, a <= b, Run(exec, a, b) PROVE Run(exec', a, b)
  BY <1>0, <1>3, RunTail
<1>4. InUse(c)' => InUse(c) /\ Got(c)' = Got(c)
  BY DEF InUse, Got
<1>5. room'[c].candidates = room[c].candidates /\ act'[c].client = act[c].client
        /\ room'[c].removed = room[c].removed
  OBVIOUS
<1>6. Ordered(c)'
  BY <1>2, <1>3, <1>4, <1>5, OrderedFrame DEF Kept
<1>7. Drained(c)'
  BY <1>2, <1>5, DrainedFrame DEF Kept
<1> QED BY <1>6, <1>7 DEF Kept

\* addRemoteIceCandidate.
LEMMA AddKept ==
  ASSUME Types, SingleCall, NEW c \in Calls, Life(c), Kept(c), AddCandidate
  PROVE  Kept(c)'
<1> DEFINE n == Head(exec).of
           m == room[c].candidates
<1>0. /\ client \in ClientType /\ conn \in [Calls -> ConnType] /\ conn[c] \in ConnType
      /\ m \in Nat /\ exec \in Seq(TaskType)
  <2>1. client \in ClientType /\ conn \in [Calls -> ConnType] /\ m \in 0..MaxCandidates
    BY DEF Types, RoomType
  <2> QED BY <2>1, Assumptions DEF Types, ExecTyped
<1>1. /\ exec # <<>> /\ Head(exec).do = "candidate" /\ exec' = Tail(exec)
      /\ UNCHANGED <<act, room, ui>>
  BY DEF AddCandidate, Running, Done, appVars
<1>2. n \in 1..MaxCandidates
  BY <1>1, TasksTail DEF Types, ExecTyped, n
<1>3. /\ \A d : Has(exec, d) <=> (Has(exec', d) \/ d = "candidate")
      /\ \A a, b : Before(exec, a, b) => /\ Before(exec', a, b)
                                         /\ "candidate" = b => ~Has(exec, a) /\ ~Has(exec', a)
  BY <1>1, TasksTail
<1>4. ~Has(exec', "create")
  BY <1>3 DEF Kept, Ordered
<1>5. /\ ~Usable /\ client' = client /\ conn' = conn
      \/ /\ Usable /\ client.queueing /\ client' = [client EXCEPT !.queued = Append(@, n)] /\ conn' = conn
      \/ /\ Usable /\ ~client.queueing /\ conn' = [conn EXCEPT ![client.pc].added = Append(@, n)]
         /\ client' = client
  BY <1>0 DEF AddCandidate, ClientType
<1> HIDE DEF n
<1>6. /\ client'.pc = client.pc /\ client'.isError = client.isError /\ client'.queueing = client.queueing
      /\ conn'[c].local = conn[c].local /\ conn'[c].remote = conn[c].remote
  <2>1. CASE client' = client /\ conn' = conn
    BY <2>1
  <2>2. CASE client' = [client EXCEPT !.queued = Append(@, n)] /\ conn' = conn
    BY <1>0, <2>2 DEF ClientType
  <2>3. CASE Usable /\ conn' = [conn EXCEPT ![client.pc].added = Append(@, n)] /\ client' = client
    <3>1. client.pc = c
      BY <2>3, UsableCall DEF SingleCall
    <3> QED BY <1>0, <2>3, <3>1 DEF ConnType
  <2> QED BY <1>5, <2>1, <2>2, <2>3
<1>7. (InUse(c)' <=> InUse(c)) /\ (Described(c)' <=> Described(c)) /\ (Joins(ui', m) <=> Joins(ui, m))
  BY <1>1, <1>6 DEF InUse, Described
\* The candidate is the next one, and is got.
<1>8. ASSUME InUse(c)
      PROVE  /\ \A i \in DOMAIN Got(c)' : Got(c)'[i] = i
             /\ Flow(c, Len(Got(c)))'
  <2> DEFINE got == Len(Got(c))
  <2>1. got \in Nat /\ Got(c) \in Seq(1..MaxCandidates)
          /\ conn[c].added \in Seq(1..MaxCandidates) /\ client.queued \in Seq(1..MaxCandidates)
    BY GotTyped
  <2>2. (\A i \in DOMAIN Got(c) : Got(c)[i] = i) /\ Flow(c, got)
    BY <1>8 DEF Kept, Ordered
  <2> HIDE DEF got
  <2>3. PICK e \in got..m : Run(exec, got, e) /\ (act[c].client => Run(ui, e, m))
    BY <2>2 DEF Flow
  <2>4. e \in Nat /\ got <= e /\ e <= m
    BY <1>0, <2>1, <2>3
  <2>5. n = got + 1 /\ got + 1 <= e /\ Run(exec', got + 1, e)
    BY <1>0, <1>1, <2>1, <2>3, <2>4, RunTail DEF n
  <2>6. Usable /\ client.pc = c
    BY <1>8, Assumptions DEF InUse, Usable
  <2>7. Got(c)' = Append(Got(c), n)
    <3>1. CASE client' = [client EXCEPT !.queued = Append(@, n)] /\ conn' = conn
      <4>1. client'.queued = Append(client.queued, n) /\ conn'[c].added = conn[c].added
        BY <1>0, <3>1 DEF ClientType
      <4>2. conn[c].added \o Append(client.queued, n) = Append(conn[c].added \o client.queued, n)
        <5> DEFINE p == conn[c].added
                   q == client.queued
        <5>1. p \in Seq(1..MaxCandidates) /\ q \in Seq(1..MaxCandidates)
          BY <2>1
        <5> HIDE DEF p, q
        <5>2. p \o Append(q, n) = Append(p \o q, n)
          BY <1>2, <5>1, GotMore
        <5> QED BY <5>2 DEF p, q
      <4> QED BY <4>1, <4>2 DEF Got
    <3>2. CASE ~client.queueing /\ conn' = [conn EXCEPT ![client.pc].added = Append(@, n)] /\ client' = client
      <4>1. client'.queued = client.queued /\ conn'[c].added = Append(conn[c].added, n)
        BY <1>0, <2>6, <3>2 DEF ConnType
      <4>2. client.queued = <<>>
        BY <2>6, <3>2 DEF Kept, Drained
      <4>3. Append(conn[c].added, n) \o client.queued = Append(conn[c].added \o client.queued, n)
        BY <1>2, <2>1, <4>2, GotMore
      <4> QED BY <4>1, <4>3 DEF Got
    <3> QED BY <1>5, <2>6, <3>1, <3>2
  <2>8. Len(Got(c)') = got + 1 /\ \A i \in DOMAIN Got(c)' : Got(c)'[i] = i
    BY <2>1, <2>2, <2>5, <2>7, CountedMore DEF got
  <2>9. e \in (got + 1)..m
    BY <1>0, <2>1, <2>4, <2>5
  <2>10. \E d \in Len(Got(c)')..room'[c].candidates :
           Run(exec', Len(Got(c)'), d) /\ (act'[c].client => Run(ui', d, room'[c].candidates))
    BY <1>1, <2>3, <2>5, <2>8, <2>9
  <2> QED BY <2>8, <2>10 DEF Flow
<1>9. Ordered(c)'
  BY <1>1, <1>4, <1>7, <1>8 DEF Kept, Ordered
<1>10. Drained(c)'
  <2>1. /\ Has(exec', "setDone") <=> Has(exec, "setDone")
        /\ Has(exec', "remove") <=> Has(exec, "remove")
    BY <1>3
  <2>2. client'.pc = c /\ ~client'.queueing => client'.queued = <<>> /\ (Described(c)' \/ room'[c].removed)
    <3> SUFFICES ASSUME client'.pc = c, ~client'.queueing
                 PROVE  client'.queued = <<>> /\ (Described(c)' \/ room'[c].removed)
      OBVIOUS
    <3>1. client' = client
      BY <1>5, <1>6
    <3> QED BY <1>1, <1>6, <1>7, <3>1 DEF Kept, Drained
  <2>3. conn'[c].added # <<>> => Described(c)' \/ room'[c].removed
    <3>1. CASE conn' = conn
      BY <1>1, <1>7, <3>1 DEF Kept, Drained
    <3>2. CASE Usable /\ ~client.queueing
      <4>1. client.pc = c
        BY <3>2, UsableCall DEF SingleCall
      <4> QED BY <1>1, <1>7, <3>2, <4>1 DEF Kept, Drained
    <3> QED BY <1>5, <3>1, <3>2
  <2> QED BY <1>1, <1>6, <1>7, <2>1, <2>2, <2>3 DEF Kept, Drained
<1> QED BY <1>9, <1>10 DEF Kept

\* drainCandidates, when both descriptions are set or candidates were removed.
LEMMA DrainKept ==
  ASSUME Types, SingleCall, NEW c \in Calls, Life(c), Kept(c), exec # <<>>, exec' = Tail(exec),
         Head(exec).do \in {"setDone", "remove"}, UNCHANGED <<act, room>>,
         \A a, b \in Nat : a <= b /\ Run(ui, a, b) => Run(ui', a, b),
         Joins(ui', room[c].candidates), Has(ui', "remove") => Has(ui, "remove"),
         Usable, DrainCandidates, Described(c) \/ room[c].removed
  PROVE  Kept(c)'
<1>0. exec \in Seq(TaskType)
  BY DEF Types, ExecTyped
<1>1. /\ \A d : Has(exec, d) <=> (Has(exec', d) \/ Head(exec).do = d)
      /\ \A a, b : Before(exec, a, b) => Before(exec', a, b)
  BY TasksTail
<1>2. /\ Before(exec, "create", "candidate") => Before(exec', "create", "candidate")
      /\ Has(exec', "create") => Has(exec, "create")
      /\ Has(exec', "remove") => Has(exec, "remove")
  BY <1>1
<1>3. ASSUME NEW a \in Nat, NEW b \in Nat, a <= b, Run(exec, a, b) PROVE Run(exec', a, b)
  BY <1>0, <1>3, RunTail
<1>4. /\ conn'[c].local = conn[c].local /\ conn'[c].remote = conn[c].remote
      /\ conn'[c].added \o client'.queued = conn[c].added \o client.queued
      /\ client'.pc = client.pc /\ client'.isError = client.isError /\ ~client'.queueing
      /\ client.queueing => client'.queued = <<>>
      /\ ~client.queueing => client' = client /\ conn' = conn
  BY DrainFields
<1>5. InUse(c)' => InUse(c) /\ Got(c)' = Got(c)
  BY <1>4 DEF InUse, Got
<1>6. room'[c].candidates = room[c].candidates /\ act'[c].client = act[c].client
        /\ room'[c].removed = room[c].removed /\ (Described(c)' <=> Described(c))
  BY <1>4 DEF Described
<1>7. Ordered(c)'
  BY <1>2, <1>3, <1>5, <1>6, OrderedFrame DEF Kept
<1>8. client'.pc = c => client'.queued = <<>>
  BY <1>4 DEF Kept, Drained
<1>9. Drained(c)'
  BY <1>2, <1>4, <1>6, <1>8 DEF Kept, Drained
<1> QED BY <1>7, <1>9 DEF Kept

\* createPeerConnectionInternal: the client has got nothing yet.
LEMMA CreateKept ==
  ASSUME Types, SingleCall, NEW c \in Calls, Life(c), Desc(c), Kept(c), CreatePeerConnection
  PROVE  Kept(c)'
<1> DEFINE m == room[c].candidates
<1>0. /\ client \in ClientType /\ conn \in [Calls -> ConnType] /\ conn[c] \in ConnType
      /\ m \in Nat /\ exec \in Seq(TaskType)
  <2>1. client \in ClientType /\ conn \in [Calls -> ConnType] /\ m \in 0..MaxCandidates
    BY DEF Types, RoomType
  <2> QED BY <2>1, Assumptions DEF Types, ExecTyped
<1>1. /\ exec # <<>> /\ Head(exec).do = "create" /\ Head(exec).of = c
      /\ UNCHANGED <<act, room, ui>>
  <2>1. Running("create") /\ UNCHANGED <<act, room, ui>>
    BY DEF CreatePeerConnection, appVars
  <2>2. exec # <<>> /\ Head(exec).do = "create" /\ Head(exec).of \in Calls
    BY <2>1, TaskRuns DEF Tasks
  <2> QED BY <2>1, <2>2 DEF SingleCall
<1>2. /\ Tail(exec) \in Seq(TaskType)
      /\ \A d : Has(exec, d) <=> (Has(Tail(exec), d) \/ d = "create")
      /\ \A d : One(exec, d) => (d = "create" => ~Has(Tail(exec), d))
  BY <1>1, TasksTail
<1>4. exec' = Tail(exec)
  BY DEF CreatePeerConnection, Done
<1> HIDE DEF m
<1>7. ~Has(exec', "create")
  <2>1. ~Has(Tail(exec), "create")
    BY <1>2 DEF Life, Making
  <2> QED BY <1>4, <2>1
<1>8. conn[c].state = "none" /\ client.pc # c
  BY <1>2 DEF Life, Making, Owned
<1>9. conn[c].added = <<>> /\ ~conn[c].local
  BY <1>8 DEF Desc, Sides
\* The tasks that follow bring all the candidates.
<1>10. Flow(c, 0)'
  <2>1. Flow(c, 0)
    BY <1>2 DEF Kept, Ordered
  <2>2. PICK e \in 0..m : Run(exec, 0, e) /\ (act[c].client => Run(ui, e, m))
    BY <2>1 DEF Flow, m
  <2>3. e \in Nat /\ 0 <= e /\ 0 \in Nat
    BY <2>2
  <2>4. Run(Tail(exec), 0, e)
    BY <1>0, <1>1, <2>2, <2>3, RunTail
  <2> QED BY <1>1, <1>4, <2>2, <2>4 DEF Flow, m
<1>11. /\ conn'[c].added = <<>> /\ ~conn'[c].local
       /\ client'.pc = c => client'.queued = <<>> /\ client'.queueing
  <2>1. CASE ~client.factory \/ client.isError
    <3>1. client'.pc = client.pc /\ conn' = conn
      BY <1>0, <2>1 DEF CreatePeerConnection, ClientType
    <3> QED BY <1>8, <1>9, <3>1
  <2>2. CASE client.factory /\ ~client.isError
    <3>1. /\ conn' = [conn EXCEPT ![c].state = "open"]
          /\ \E video, source \in BOOLEAN :
               client' = [client EXCEPT !.pc = c, !.queueing = TRUE, !.queued = <<>>,
                               !.isInitiator = FALSE, !.video = video, !.source = source]
      BY <1>0, <1>1, <2>2 DEF CreatePeerConnection, ClientType
    <3>2. conn'[c].added = conn[c].added /\ conn'[c].local = conn[c].local
      BY <1>0, <3>1 DEF ConnType
    <3>3. client'.queued = <<>> /\ client'.queueing
      BY <1>0, <3>1 DEF ClientType
    <3> QED BY <1>9, <3>2, <3>3
  <2> QED BY <1>0, <2>1, <2>2 DEF ClientType
<1>12. InUse(c)' => (\A i \in DOMAIN Got(c)' : Got(c)'[i] = i) /\ Flow(c, Len(Got(c)))'
  <2> SUFFICES ASSUME InUse(c)'
      PROVE  (\A i \in DOMAIN Got(c)' : Got(c)'[i] = i) /\ Flow(c, Len(Got(c)))'
    OBVIOUS
  <2>1. Got(c)' = <<>>
    <3>1. conn'[c].added = <<>> /\ client'.queued = <<>>
      BY <1>11 DEF InUse
    <3> QED BY <3>1 DEF Got
  <2>2. Len(Got(c)') = 0 /\ DOMAIN Got(c)' = {}
    BY <2>1
  <2> QED BY <1>10, <2>2 DEF Flow
<1>13. Ordered(c)'
  <2>1. Joins(ui', room'[c].candidates)
    BY <1>1 DEF Kept, Ordered
  <2> QED BY <1>7, <1>12, <2>1 DEF Ordered
<1>14. Drained(c)'
  <2>1. Has(exec', "remove") => Has(exec, "remove")
    BY <1>2, <1>4
  <2> QED BY <1>1, <1>11, <2>1 DEF Kept, Drained, Described
<1> QED BY <1>13, <1>14 DEF Kept

\* The task of onSetSuccess: the queue is drained when both descriptions are set.
LEMMA SuccessKept ==
  ASSUME Types, SingleCall, NEW c \in Calls, Life(c), Desc(c), Kept(c), SetSuccess
  PROVE  Kept(c)'
<1>0. exec \in Seq(TaskType)
  BY DEF Types, ExecTyped
<1>1. /\ exec # <<>> /\ Head(exec).do = "setDone" /\ exec' = Tail(exec)
      /\ UNCHANGED <<act, room>>
  BY SuccessCases DEF Running, appVars
<1>2. /\ \A d : Has(exec, d) <=> (Has(exec', d) \/ d = "setDone")
      /\ \A a, b : Before(exec, a, b) => Before(exec', a, b)
  BY <1>1, TasksTail
<1>3. ui' = ui \/ (Heard /\ Tell("sdp"))
  BY SuccessCases DEF NobodyHears
<1>4. /\ \A a, b \in Nat : a <= b /\ Run(ui, a, b) => Run(ui', a, b)
      /\ Joins(ui', room[c].candidates)
      /\ Has(ui', "remove") => Has(ui, "remove")
  BY <1>3, TellKeeps DEF Kept, Ordered
<1>5. Usable => client.pc = c
  BY UsableCall DEF SingleCall
<1>6. ASSUME client' = client, conn' = conn, InUse(c) => ~Described(c) PROVE Kept(c)'
  <2>1. /\ Before(exec, "create", "candidate") => Before(exec', "create", "candidate")
        /\ Has(exec', "create") => Has(exec, "create")
        /\ Has(exec', "remove") => Has(exec, "remove")
    BY <1>2
  <2>2. ASSUME NEW a \in Nat, NEW b \in Nat, a <= b, Run(exec, a, b) PROVE Run(exec', a, b)
    BY <1>0, <1>1, <2>2, RunTail
  <2>3. room'[c].candidates = room[c].candidates /\ act'[c].client = act[c].client
          /\ room'[c].removed = room[c].removed /\ (Described(c)' <=> Described(c))
    BY <1>1, <1>6 DEF Described
  <2>4. (InUse(c)' <=> InUse(c)) /\ Got(c)' = Got(c)
    BY <1>6 DEF InUse, Got
  <2>5. Ordered(c)'
    BY <1>4, <2>1, <2>2, <2>3, <2>4, OrderedFrame DEF Kept
  <2>6. Drained(c)'
    BY <1>4, <1>6, <2>1, <2>3, <2>4 DEF Kept, Drained
  <2> QED BY <2>5, <2>6 DEF Kept
<1>7. ASSUME Usable, DrainCandidates, Described(c) PROVE Kept(c)'
  BY <1>1, <1>4, <1>7, DrainKept
<1>8. CASE ~Usable \/ (~client.isInitiator /\ ~conn[client.pc].local)
  <2>1. client' = client /\ conn' = conn
    BY <1>8, SuccessCases
  <2>2. InUse(c) => Usable /\ client.pc = c
    BY Assumptions DEF InUse, Usable
  <2>3. InUse(c) => ~Described(c)
    BY <1>8, <2>2 DEF Described
  <2> QED BY <1>6, <2>1, <2>3
<1>9. CASE Usable /\ client.isInitiator /\ conn[client.pc].remote
  <2>1. DrainCandidates /\ client.pc = c
    BY <1>5, <1>9, SuccessCases
  <2>2. Initiator(c)
    BY <1>9 DEF Desc, Sides
  <2>3. Described(c)
    BY <1>9, <2>1, <2>2 DEF Desc, Turns, Described
  <2> QED BY <1>7, <1>9, <2>1, <2>3
<1>10. CASE Usable /\ IF client.isInitiator THEN ~conn[client.pc].remote ELSE conn[client.pc].local
  <2>1. client.pc = c /\ client.isInitiator \in BOOLEAN
    BY <1>5, <1>10 DEF Types, ClientType
  <2>2. Heard
    BY <2>1, Assumptions DEF Life, Owned, Heard
  <2>3. CASE client.isInitiator
    <3>1. client' = client /\ conn' = conn /\ ~Described(c)
      BY <1>10, <2>1, <2>2, <2>3, SuccessCases DEF Described
    <3> QED BY <1>6, <3>1
  <2>4. CASE ~client.isInitiator
    <3>1. DrainCandidates /\ conn[c].local
      BY <1>10, <2>1, <2>2, <2>4, SuccessCases
    <3>2. client.localSdp
      BY <3>1 DEF Desc, LocalOnce
    <3>3. ~Initiator(c)
      BY <2>4, <3>2 DEF Desc, Sides
    <3>4. Described(c)
      BY <3>1, <3>2, <3>3 DEF Desc, Turns, Described
    <3> QED BY <1>7, <1>10, <3>1, <3>4
  <2> QED BY <2>1, <2>3, <2>4
<1> QED BY <1>8, <1>9, <1>10, SuccessCases

LEMMA ExecKept ==
  ASSUME Types, SingleCall, NEW c \in Calls, Life(c), Desc(c), Kept(c), ExecutorTask
  PROVE  Kept(c)'
<1>0. client \in ClientType /\ conn \in [Calls -> ConnType] /\ conn[c] \in ConnType
        /\ (Usable => client.pc = c) /\ Joins(ui, room[c].candidates)
  BY UsableCall DEF Types, SingleCall, Kept, Ordered
<1>1. CASE CreateFactory
  <2>1. exec # <<>> /\ Head(exec).do = "factory" /\ exec' = Tail(exec)
          /\ UNCHANGED <<act, room, conn, ui>>
    BY <1>1 DEF CreateFactory, Running, Done, appVars
  <2>2. client'.pc = client.pc
    BY <1>0, <1>1 DEF CreateFactory, ClientType
  <2>3. Has(exec, "factory")
    BY <2>1, TasksTail
  <2>4. client.pc # c
    BY <2>3 DEF Life, Making, Owned
  <2>5. ~InUse(c)' /\ (Described(c)' <=> Described(c))
    BY <2>1, <2>2, <2>4 DEF InUse, Described
  <2> QED BY <1>0, <2>1, <2>2, <2>4, <2>5, KeptTail
<1>2. CASE CreateOffer \/ CreateAnswer \/ SetDescription
  <2>1. /\ exec # <<>> /\ Head(exec).do \in {"offer", "answer", "setRemote", "setLocal"}
        /\ exec' = Tail(exec) /\ UNCHANGED <<act, room, ui>>
    BY <1>2 DEF CreateOffer, CreateAnswer, SetDescription, Running, Done, appVars
  <2>2. /\ client'.pc = client.pc /\ client'.isError = client.isError
        /\ client'.queueing = client.queueing /\ client'.queued = client.queued
    BY <1>0, <1>2 DEF CreateOffer, CreateAnswer, SetDescription, ClientType
  <2>3. conn' = conn \/ \E o \in Operations : Usable /\ Ask(o)
    <3>1. /\ CreateOffer => conn' = conn \/ (Usable /\ Ask("createOffer"))
          /\ CreateAnswer => conn' = conn \/ (Usable /\ Ask("createAnswer"))
          /\ SetDescription => conn' = conn \/ (Usable /\ Ask(Head(exec).do))
      BY DEF CreateOffer, CreateAnswer, SetDescription
    <3>2. "createOffer" \in Operations /\ "createAnswer" \in Operations
            /\ (SetDescription => Head(exec).do \in Operations)
      BY DEF SetDescription, Running, Operations
    <3> QED BY <1>2, <3>1, <3>2
  <2>4. /\ conn'[c].added = conn[c].added /\ conn'[c].local = conn[c].local
        /\ conn'[c].remote = conn[c].remote
    BY <2>3, AskFields
  <2>5. (InUse(c)' => InUse(c)) /\ (Described(c)' <=> Described(c))
    BY <2>2, <2>4 DEF InUse, Described
  <2> QED BY <1>0, <2>1, <2>2, <2>4, <2>5, KeptTail
<1>3. CASE RemoveCandidates
  <2>1. exec # <<>> /\ Head(exec).do = "remove" /\ exec' = Tail(exec)
          /\ UNCHANGED <<act, room, ui>>
    BY <1>3 DEF RemoveCandidates, Running, Done, appVars
  <2>2. CASE Usable
    <3>1. DrainCandidates
      BY <1>3, <2>2 DEF RemoveCandidates
    <3>2. Has(exec, "remove")
      BY <2>1, TasksTail
    <3>3. room[c].removed
      BY <3>2 DEF Kept, Drained
    <3> QED BY <1>0, <2>1, <2>2, <3>1, <3>3, DrainKept
  <2>3. CASE ~Usable
    <3>1. client' = client /\ conn' = conn
      BY <1>3, <2>3 DEF RemoveCandidates
    <3>2. (InUse(c)' => InUse(c)) /\ (Described(c)' <=> Described(c))
      BY <3>1 DEF InUse, Described
    <3> QED BY <1>0, <2>1, <3>1, <3>2, KeptTail
  <2> QED BY <2>2, <2>3
<1>4. CASE HandleError \/ HandleIce
  <2>1. /\ exec # <<>> /\ Head(exec).do \in {"error", "ice", "hungUp"} /\ exec' = Tail(exec)
        /\ UNCHANGED <<act, room, conn>>
    BY <1>4 DEF HandleError, HandleIce, Running, Done, appVars, callVars
  <2>2. /\ client'.pc = client.pc /\ (client.isError => client'.isError)
        /\ client'.queueing = client.queueing /\ client'.queued = client.queued
    BY <1>0, <1>4 DEF HandleError, HandleIce, callVars, ClientType
  <2>3. \E do \in {"error", "ice", "hungUp"} : ui' = ui \/ (Heard /\ Tell(do))
    BY <1>4, <2>1 DEF HandleError, HandleIce, NobodyHears
  <2>4. /\ \A a, b \in Nat : a <= b /\ Run(ui, a, b) => Run(ui', a, b)
        /\ Joins(ui', room[c].candidates)
        /\ Has(ui', "remove") => Has(ui, "remove")
    BY <1>0, <2>3, TellKeeps
  <2>5. (InUse(c)' => InUse(c)) /\ (Described(c)' <=> Described(c))
    BY <2>1, <2>2 DEF InUse, Described
  <2> QED BY <2>1, <2>2, <2>4, <2>5, KeptTail
<1>5. CASE StopVideoSource \/ StartVideoSource
  <2>1. exec # <<>> /\ Head(exec).do \in {"stop", "start"} /\ exec' = Tail(exec)
          /\ UNCHANGED <<act, room, conn, ui>>
    BY <1>5 DEF StopVideoSource, StartVideoSource, Running, Done, appVars
  <2>2. /\ client'.pc = client.pc /\ client'.isError = client.isError
        /\ client'.queueing = client.queueing /\ client'.queued = client.queued
    BY <1>0, <1>5 DEF StopVideoSource, StartVideoSource, ClientType
  <2>3. (InUse(c)' => InUse(c)) /\ (Described(c)' <=> Described(c))
    BY <2>1, <2>2 DEF InUse, Described
  <2> QED BY <1>0, <2>1, <2>2, <2>3, KeptTail
<1>6. CASE CloseInternal
  <2>1. exec # <<>> /\ Head(exec).do = "close" /\ exec' = Tail(exec) /\ UNCHANGED <<act, room, ui>>
    BY <1>6 DEF CloseInternal, Running, Done, appVars
  <2>2. client'.pc = None
    BY <1>0, <1>6 DEF CloseInternal, ClientType
  <2>3. conn'[c] = IF c = client.pc THEN [conn[c] EXCEPT !.state = "disposed", !.operations = <<>>]
                   ELSE conn[c]
    BY <1>6 DEF CloseInternal
  <2>4. /\ conn'[c].local = conn[c].local /\ conn'[c].remote = conn[c].remote
        /\ conn'[c].added = conn[c].added
    <3>1. CASE c = client.pc
      BY <1>0, <2>3, <3>1 DEF ConnType
    <3>2. CASE c # client.pc
      BY <2>3, <3>2
    <3> QED BY <3>1, <3>2
  <2>5. client'.pc # c /\ ~InUse(c)' /\ (Described(c)' <=> Described(c))
    BY <2>2, <2>4, Assumptions DEF InUse, Described
  <2> QED BY <1>0, <2>1, <2>4, <2>5, KeptTail
<1> QED BY <1>1, <1>2, <1>3, <1>4, <1>5, <1>6, AddKept, CreateKept, SuccessKept DEF ExecutorTask

\* The candidates the room kept, one task for each.
LEMMA KeptRun ==
  ASSUME NEW n \in 0..MaxKept
  PROVE  Run(Kept0(n), 0, n)
<1> DEFINE q == Kept0(n)
<1>1. /\ DOMAIN q = 1..n /\ n \in Nat
      /\ \A i \in 1..n : q[i].do = "candidate" /\ q[i].of = i
  BY KeptTyped
<1> HIDE DEF q
<1>2. Run(q, 0, n)
  BY <1>1 DEF Run
<1> QED BY <1>2 DEF q

LEMMA AsksRun ==
  ASSUME NEW c \in Calls, NEW n \in 0..MaxKept
  PROVE  Run(Asks(c, n), 0, n)
<1> DEFINE p == <<Task("create", c)>>
           f == First(c)
           s == Kept0(n)
           r == p \o f
<1>0. n \in Nat /\ 0 \in Nat /\ 0 <= 0 /\ 0 <= n
  BY Assumptions
<1>1. p \in Seq(TaskType) /\ (\A d : Has(p, d) <=> d = "create")
  BY Assumptions, OneTask DEF Tasks
<1>2. /\ f \in Seq(TaskType)
      /\ (\A d : Has(f, d) <=> \/ d = "offer" /\ room[c].role = "initiator"
                               \/ d \in {"setRemote", "answer"} /\ room[c].role = "offered")
  BY FirstHas
<1>3. s \in Seq(TaskType) /\ Run(s, 0, n)
  BY KeptHas, KeptRun
<1> HIDE DEF p, f, s
<1>4. r \in Seq(TaskType) /\ ~Has(r, "candidate")
  BY <1>1, <1>2, QueueConcat
<1> HIDE DEF r
<1>5. Run(r, 0, 0)
  BY <1>0, <1>4, RunNone
<1>6. Run(r \o s, 0, n)
  BY <1>0, <1>3, <1>4, <1>5, RunConcat
<1> QED BY <1>6 DEF Asks, p, f, s, r

\* onConnectedToRoomInternal: the client is given the candidates the room kept, the UI thread
\* has the others.
LEMMA ConnectedKept ==
  ASSUME Types, SingleCall, NEW c \in Calls, Life(c), Desc(c), Kept(c), OnConnected
  PROVE  Kept(c)'
<1> DEFINE n == Head(ui).of
           m == room[c].candidates
<1>1. /\ ui # <<>> /\ Head(ui).do = "connected" /\ ui' = Tail(ui) /\ n \in 0..MaxKept
      /\ UNCHANGED <<conn, capturing, room, wire, faults, moves>>
  BY ConnectedCases
<1>2. Head(ui).call = c /\ act[c] \in ActType /\ Connecting(c)
  BY <1>1, UiTakes
<1>3. PICK camera \in BOOLEAN, a \in ActType :
        /\ a = Answered(c, camera)
        /\ \/ /\ a.client
              /\ act' = [act EXCEPT ![c] = [a EXCEPT !.early =
                   a.phase # "shown" \/ \E i \in 1..Len(exec) : exec[i].do = "stop"]]
              /\ client' = [client EXCEPT !.capturer = IF camera THEN c ELSE None]
              /\ exec' = exec \o Asks(c, n) /\ dead' = dead
           \/ /\ ~a.client
              /\ act' = [act EXCEPT ![c] = a]
              /\ exec' = exec \o ClosedBy(c, a) /\ client' = client /\ dead' = TRUE
  BY <1>2, ConnectedCases DEF Answered
<1> HIDE DEF n, m
<1>4. /\ act \in [Calls -> ActType] /\ client \in ClientType /\ exec \in Seq(TaskType)
      /\ ui \in Seq(EventType) /\ n \in Nat /\ m \in Nat
  <2>1. m \in 0..MaxCandidates
    BY DEF Types, RoomType, m
  <2> QED BY <1>1, <2>1, Assumptions DEF Types, ExecTyped, UiTyped
<1>5. conn[c].state = "none" /\ client.pc # c /\ conn[c].added = <<>> /\ ~conn[c].local
        /\ ~Has(exec, "create") /\ ~Has(exec, "candidate") /\ ~Has(exec, "remove")
  BY <1>2 DEF Life, Owned, Desc, Sides, Started
<1>6. client'.pc = client.pc
  <2>1. CASE client' = client
    BY <2>1
  <2>2. CASE client' = [client EXCEPT !.capturer = IF camera THEN c ELSE None]
    BY <1>4, <2>2 DEF ClientType
  <2> QED BY <1>3, <2>1, <2>2
<1>7. ~InUse(c)'
  BY <1>5, <1>6 DEF InUse
<1>8. n <= m /\ Run(ui, n, m)
  <2>1. Head(ui) = ui[1] /\ 1 \in DOMAIN ui
    BY <1>1, <1>4, TailParts
  <2> QED BY <1>1, <2>1 DEF Kept, Ordered, Joins, m, n
<1>9. /\ \A d : Has(ui, d) <=> (Has(ui', d) \/ d = "connected")
      /\ \A d : One(ui, d) => (d = "connected" => ~Has(ui', d))
  BY <1>1, RunnablesTail
<1>10. Run(ui', n, m)
  BY <1>1, <1>4, <1>8, RunTail
<1>11. Joins(ui', m)
  <2>1. ~Has(ui', "connected")
    BY <1>9 DEF Life, RoomFirst
  <2> QED BY <2>1 DEF Joins, Has
<1>12. Has(exec', "create") => Before(exec', "create", "candidate") /\ Flow(c, 0)'
  <2>1. CASE a.client
    <3> DEFINE s == Asks(c, n)
    <3>1. s \in Seq(TaskType) /\ Before(s, "create", "candidate")
      BY <1>1, AsksHas DEF n
    <3>2. Run(s, 0, n)
      BY <1>1, AsksRun DEF n
    <3>3. exec' = exec \o s
      BY <1>3, <2>1
    <3> HIDE DEF s
    <3>4. Before(exec, "create", "candidate")
      BY <1>5 DEF Before, Has
    <3>5. Before(exec', "create", "candidate")
      BY <1>4, <1>5, <3>1, <3>3, <3>4, QueueConcat
    <3>6. 0 \in Nat /\ 0 <= 0 /\ 0 <= n /\ n \in 0..m
      BY <1>4, <1>8
    <3>7. Run(exec, 0, 0)
      BY <1>5, <3>6, RunNone
    <3>8. Run(exec', 0, n)
      BY <1>4, <3>1, <3>2, <3>3, <3>6, <3>7, RunConcat
    <3>9. room'[c].candidates = m
      BY <1>1 DEF m
    <3> QED BY <1>10, <3>5, <3>6, <3>8, <3>9 DEF Flow
  <2>2. CASE ~a.client
    <3> DEFINE s == ClosedBy(c, a)
    <3>1. s \in Seq(TaskType) /\ \A d : Has(s, d) => d = "close"
      BY ClosingHas
    <3> HIDE DEF s
    <3>2. exec' = exec \o s
      BY <1>3, <2>2 DEF s
    <3>3. ~Has(exec', "create")
      BY <1>4, <1>5, <3>1, <3>2, QueueConcat
    <3> QED BY <3>3
  <2> QED BY <2>1, <2>2
<1>13. ~Has(exec', "remove")
  <2>1. \E s \in Seq(TaskType) : exec' = exec \o s /\ ~Has(s, "remove")
    <3>1. CASE a.client
      BY <1>1, <1>3, <3>1, AsksHas DEF n
    <3>2. CASE ~a.client
      <4> DEFINE s == ClosedBy(c, a)
      <4>1. s \in Seq(TaskType) /\ \A d : Has(s, d) => d = "close"
        BY ClosingHas
      <4> HIDE DEF s
      <4>2. exec' = exec \o s
        BY <1>3, <3>2 DEF s
      <4>3. ~Has(s, "remove")
        BY <4>1
      <4> QED BY <4>1, <4>2, <4>3
    <3> QED BY <3>1, <3>2
  <2> QED BY <1>4, <1>5, <2>1, QueueConcat
<1>14. Ordered(c)'
  <2>1. room'[c].candidates = m
    BY <1>1 DEF m
  <2> QED BY <1>7, <1>11, <1>12, <2>1 DEF Ordered
<1>15. Drained(c)'
  <2>1. Has(ui', "remove") => Has(ui, "remove")
    BY <1>9
  <2>2. client'.pc # c /\ conn'[c].added = <<>>
    BY <1>1, <1>5, <1>6
  <2> QED BY <1>1, <1>7, <1>13, <2>1, <2>2 DEF Kept, Drained
<1> QED BY <1>14, <1>15 DEF Kept

\* onRemoteIceCandidate: from the UI thread to the executor.
LEMMA CandidateKept ==
  ASSUME Types, SingleCall, NEW c \in Calls, Life(c), Kept(c), OnCandidate, Head(ui).do = "candidate"
  PROVE  Kept(c)'
<1> DEFINE n == Head(ui).of
           m == room[c].candidates
           t == Task("candidate", n)
           s == <<t>>
<1>1. /\ ui # <<>> /\ ui' = Tail(ui) /\ UNCHANGED <<act, client, conn, room>>
      /\ Execute(IF act[Head(ui).call].client THEN s ELSE <<>>)
  BY DEF OnCandidate, Handling, appVars, callVars
<1>2. Head(ui).call = c /\ n \in 0..MaxCandidates
  BY <1>1, UiTakes
<1>3. /\ exec \in Seq(TaskType) /\ ui \in Seq(EventType) /\ n \in Nat /\ m \in Nat
      /\ \A x \in EventType : x.do = "connected" => x.of \in Nat
  <2>1. m \in 0..MaxCandidates
    BY DEF Types, RoomType
  <2>2. \A x \in EventType : x.do = "connected" => x.of \in Nat
    BY Assumptions DEF EventType
  <2> QED BY <1>2, <2>1, <2>2, Assumptions DEF Types, ExecTyped, UiTyped
<1>4. /\ s \in Seq(TaskType) /\ (\A d : Has(s, d) <=> d = "candidate")
      /\ (\A a, b : a # b => Before(s, a, b)) /\ t.do = "candidate" /\ t.of = n
  BY <1>3, OneTask DEF Tasks, Task
<1> HIDE DEF n, m, t
<1>5. exec' = IF act[c].client THEN exec \o s ELSE exec
  <2>1. exec \o <<>> = exec
    BY <1>3
  <2> QED BY <1>1, <1>2, <2>1 DEF Execute
<1>6. /\ \A d : Has(ui, d) <=> (Has(ui', d) \/ d = "candidate")
      /\ \A a, b : Before(ui, a, b) => /\ Before(ui', a, b)
                                       /\ "candidate" = b => ~Has(ui, a) /\ ~Has(ui', a)
  BY <1>1, RunnablesTail
<1> HIDE DEF s
<1>7. ASSUME NEW got \in Nat, Flow(c, got) PROVE Flow(c, got)'
  <2>1. PICK e \in got..m : Run(exec, got, e) /\ (act[c].client => Run(ui, e, m))
    BY <1>7 DEF Flow, m
  <2>2. e \in Nat /\ got <= e /\ e <= m
    BY <1>3, <2>1
  <2>3. CASE act[c].client
    <3>1. Run(ui, e, m)
      BY <2>1, <2>3
    <3>2. n = e + 1 /\ e + 1 <= m /\ Run(ui', e + 1, m)
      BY <1>1, <1>3, <2>2, <3>1, RunTail DEF n
    <3>3. Run(s, e, e + 1)
      BY <1>4, <2>2, <3>2, RunOne DEF s
    <3>4. e + 1 \in Nat /\ e <= e + 1 /\ e + 1 \in got..m
      BY <1>3, <2>2, <3>2
    <3>5. Run(exec \o s, got, e + 1)
      BY <1>3, <1>4, <2>1, <2>2, <3>3, <3>4, RunConcat
    <3>6. exec' = exec \o s /\ room'[c].candidates = m
      BY <1>1, <1>5, <2>3 DEF m
    <3> QED BY <3>2, <3>4, <3>5, <3>6 DEF Flow
  <2>4. CASE ~act[c].client
    <3>1. exec' = exec /\ room'[c].candidates = m /\ ~act'[c].client
      BY <1>1, <1>5, <2>4 DEF m
    <3> QED BY <2>1, <3>1 DEF Flow
  <2> QED BY <2>3, <2>4
<1>8. (InUse(c)' <=> InUse(c)) /\ Got(c)' = Got(c) /\ (Described(c)' <=> Described(c))
  BY <1>1 DEF InUse, Got, Described
<1>9. InUse(c)' => (\A i \in DOMAIN Got(c)' : Got(c)'[i] = i) /\ Flow(c, Len(Got(c)))'
  <2> SUFFICES ASSUME InUse(c)'
      PROVE  (\A i \in DOMAIN Got(c)' : Got(c)'[i] = i) /\ Flow(c, Len(Got(c)))'
    OBVIOUS
  <2> DEFINE got == Len(Got(c))
  <2>1. got \in Nat /\ (\A i \in DOMAIN Got(c) : Got(c)[i] = i) /\ Flow(c, got)
    BY <1>8, GotTyped DEF Kept, Ordered
  <2>2. got' = got
    BY <1>8
  <2> HIDE DEF got
  <2>3. Flow(c, got)'
    <3>1. \E e \in got..room'[c].candidates :
            Run(exec', got, e) /\ (act'[c].client => Run(ui', e, room'[c].candidates))
      BY <1>7, <2>1 DEF Flow
    <3> QED BY <2>2, <3>1 DEF Flow
  <2> QED BY <1>8, <2>1, <2>3 DEF got
<1>10. /\ Has(exec', "create") <=> Has(exec, "create")
       /\ Has(exec', "remove") <=> Has(exec, "remove")
       /\ Has(exec', "setDone") <=> Has(exec, "setDone")
       /\ Before(exec, "create", "candidate") => Before(exec', "create", "candidate")
  <2>1. CASE act[c].client
    BY <1>3, <1>4, <1>5, <2>1, QueueConcat
  <2>2. CASE ~act[c].client
    BY <1>5, <2>2
  <2> QED BY <2>1, <2>2
<1>11. Joins(ui', room'[c].candidates)
  <2>1. ~Has(ui', "connected")
    <3>1. Has(ui, "candidate")
      BY <1>6
    <3>2. Before(ui, "connected", "candidate")
      BY DEF Life, RoomFirst, Said
    <3> QED BY <1>6, <3>2
  <2> QED BY <2>1 DEF Joins, Has
<1>12. Ordered(c)'
  <2>1. Has(exec', "create") => Before(exec', "create", "candidate") /\ Flow(c, 0)'
    BY <1>7, <1>10 DEF Kept, Ordered
  <2> QED BY <1>9, <1>11, <2>1 DEF Ordered
<1>13. Drained(c)'
  <2>1. Has(ui', "remove") => Has(ui, "remove")
    BY <1>6
  <2> QED BY <1>1, <1>8, <1>10, <2>1 DEF Kept, Drained
<1> QED BY <1>12, <1>13 DEF Kept

LEMMA UiKept ==
  ASSUME Types, SingleCall, NEW c \in Calls, Life(c), Desc(c), Kept(c), UiTask
  PROVE  Kept(c)'
<1>1. CASE OnConnected
  BY <1>1, ConnectedKept
<1>2. CASE ~OnConnected
  <2>0. /\ exec \in Seq(TaskType) /\ ui \in Seq(EventType) /\ room[c].candidates \in Nat
        /\ \A x \in EventType : x.do = "connected" => x.of \in Nat
    <3>1. room[c].candidates \in 0..MaxCandidates
      BY DEF Types, RoomType
    <3>2. \A x \in EventType : x.do = "connected" => x.of \in Nat
      BY Assumptions DEF EventType
    <3> QED BY <3>1, <3>2, Assumptions DEF Types, ExecTyped, UiTyped
  <2>1. /\ ui # <<>> /\ ui' = Tail(ui) /\ UNCHANGED <<client, conn, room>>
        /\ Head(ui).do \in {"description", "candidate", "remove", "hungUp", "error", "sdp", "ice"}
        /\ act'[c].client => act[c].client
    BY <1>2, UiStep
  <2>2. PICK s \in Seq(TaskType) :
          /\ exec' = exec \o s
          /\ \A d : Has(s, d) =>
               \/ d \in {"close", "setRemote", "answer"}
               \/ d \in {"candidate", "remove"} /\ d = Head(ui).do
    BY <1>2, UiStep
  <2>3. CASE Head(ui).do = "candidate"
    <3>1. OnCandidate
      BY <2>3 DEF UiTask, OnConnected, OnDescription, OnHungUp, OnError, OnLocalDescription,
            OnIceCandidate, Handling
    <3> QED BY <2>3, <3>1, CandidateKept
  <2>4. CASE Head(ui).do # "candidate"
    <3>1. /\ \A d : Has(ui, d) <=> (Has(ui', d) \/ Head(ui).do = d)
      BY <2>1, RunnablesTail
    <3>2. ~Has(s, "candidate") /\ ~Has(s, "create") /\ ~Has(s, "setDone")
            /\ (Has(s, "remove") => Has(ui, "remove"))
      BY <2>2, <2>4, <3>1
    <3>3. ASSUME NEW a \in Nat, NEW b \in Nat, a <= b, Run(ui, a, b) PROVE Run(ui', a, b)
      BY <2>0, <2>1, <2>4, <3>3, RunTail
    <3>4. Joins(ui, room[c].candidates) /\ Before(ui, "connected", "candidate")
      BY DEF Kept, Ordered, Life, RoomFirst, Said
    <3>5. Joins(ui', room[c].candidates)
      BY <2>0, <2>1, <3>4, JoinsTail
    <3>6. (InUse(c)' => InUse(c)) /\ (Described(c)' <=> Described(c))
      BY <2>1 DEF InUse, Described
    <3>7. Has(ui', "remove") => Has(ui, "remove")
      BY <3>1
    <3>8. /\ room'[c].candidates = room[c].candidates /\ room'[c].removed = room[c].removed
          /\ conn'[c].added = conn[c].added /\ client'.pc = client.pc
          /\ client'.queueing = client.queueing /\ client'.queued = client.queued
      BY <2>1
    <3> QED BY <2>1, <2>2, <3>2, <3>3, <3>5, <3>6, <3>7, <3>8, KeptMore
  <2> QED BY <2>3, <2>4
<1> QED BY <1>1, <1>2

LEMMA UserKept ==
  ASSUME Types, NEW c \in Calls, Life(c), Kept(c), User(c)
  PROVE  Kept(c)'
<1>0. act \in [Calls -> ActType] /\ act[c] \in ActType /\ client \in ClientType
        /\ Joins(ui, room[c].candidates)
  BY DEF Types, Kept, Ordered
<1>1. CASE CreateActivity(c)
  <2> DEFINE s == <<Task("factory", c), Task("start", c)>>
  <2>1. exec' = exec \o s /\ UNCHANGED <<conn, ui, room>>
    BY <1>1 DEF CreateActivity, Execute
  <2>2. s \in Seq(TaskType) /\ \A d : Has(s, d) <=> d \in {"factory", "start"}
    BY StartHas
  <2>3. exec \in Seq(TaskType) /\ ~Has(exec, "create") /\ ~Has(exec, "remove")
    <3>1. exec = <<>>
      BY <1>1 DEF CreateActivity, Life, Unborn
    <3> QED BY <3>1, QueueNone
  <2> HIDE DEF s
  <2>4. client'.pc # c /\ ~InUse(c)'
    <3>1. client'.pc = None
      BY <1>0, <1>1 DEF CreateActivity, ClientType
    <3> QED BY <3>1, Assumptions DEF InUse
  <2>5. Described(c)' <=> Described(c)
    BY <2>1 DEF Described
  <2>6. ~Has(exec', "create") /\ ~Has(exec', "remove")
    <3>1. \A d : Has(exec \o s, d) <=> (Has(exec, d) \/ Has(s, d))
      BY <2>2, <2>3, QueueConcat
    <3>2. ~Has(s, "create") /\ ~Has(s, "remove")
      BY <2>2
    <3>3. ~Has(exec \o s, "create") /\ ~Has(exec \o s, "remove")
      BY <2>3, <3>1, <3>2
    <3> QED BY <2>1, <3>3
  <2> QED BY <1>0, <2>1, <2>4, <2>5, <2>6 DEF Kept, Ordered, Drained
<1>2. CASE HangUp(c) \/ Back(c) \/ DialogOk(c) \/ Destroy(c)
  <2>1. UNCHANGED <<client, conn, ui, room>> /\ (act'[c].client => act[c].client)
    BY <1>2, UserStep
  <2>2. PICK s \in Seq(TaskType) : exec' = exec \o s /\ \A d : Has(s, d) => d \in {"stop", "close"}
    BY <1>2, UserStep
  <2>3. ~Has(s, "candidate") /\ ~Has(s, "create") /\ ~Has(s, "remove") /\ ~Has(s, "setDone")
    BY <2>2
  <2>4. (InUse(c)' => InUse(c)) /\ (Described(c)' <=> Described(c))
    BY <2>1 DEF InUse, Described
  <2> QED BY <1>0, <2>1, <2>2, <2>3, <2>4, KeptMore
<1>3. CASE Stop(c) \/ Start(c)
  <2>1. PICK phase \in {"shown", "hidden"}, running \in BOOLEAN, do \in {"stop", "start"} :
          /\ act' = [act EXCEPT ![c] = [act[c] EXCEPT !.phase = phase, !.running = running]]
          /\ exec' = exec \o (IF act[c].client THEN <<Task(do, c)>> ELSE <<>>)
    <3>1. CASE Stop(c)
      BY <1>0, <3>1 DEF Stop, Execute
    <3>2. CASE Start(c)
      BY <1>0, <3>2 DEF Start, Execute
    <3> QED BY <1>3, <3>1, <3>2
  <2>2. UNCHANGED <<client, conn, ui, room>>
    BY <1>3 DEF Stop, Start, callVars
  <2>3. act'[c].client = act[c].client
    BY <1>0, <2>1 DEF ActType
  <2> DEFINE s == IF act[c].client THEN <<Task(do, c)>> ELSE <<>>
  <2>4. s \in Seq(TaskType) /\ \A d : Has(s, d) => d = do
    <3>1. CASE act[c].client
      <4>1. c \in Nat /\ do \in Tasks
        BY Assumptions DEF Tasks
      <4> QED BY <3>1, <4>1, OneTask
    <3>2. CASE ~act[c].client
      BY <3>2, QueueNone
    <3> QED BY <3>1, <3>2
  <2>5. exec' = exec \o s
    BY <2>1
  <2> HIDE DEF s
  <2>6. ~Has(s, "candidate") /\ ~Has(s, "create") /\ ~Has(s, "remove") /\ ~Has(s, "setDone")
    BY <2>4
  <2>7. (InUse(c)' => InUse(c)) /\ (Described(c)' <=> Described(c))
    BY <2>2 DEF InUse, Described
  <2> QED BY <1>0, <2>2, <2>3, <2>4, <2>5, <2>6, <2>7, KeptMore
<1> QED BY <1>1, <1>2, <1>3 DEF User

LEMMA LibraryKept ==
  ASSUME Types, NEW c \in Calls, Kept(c), Library(c)
  PROVE  Kept(c)'
<1>0. Joins(ui, room[c].candidates)
  BY DEF Kept, Ordered
<1>1. CASE Answer(c)
  <2> DEFINE o == Head(conn[c].operations)
  <2>1. /\ conn'[c].added = conn[c].added /\ conn[c] \in ConnType
        /\ conn'[c].local = (conn[c].local \/ o = "setLocal")
        /\ conn'[c].remote = (conn[c].remote \/ o = "setRemote")
        /\ client'.pc = client.pc /\ client'.isError = client.isError
        /\ client'.queueing = client.queueing /\ client'.queued = client.queued
    BY <1>1, AnswerFields DEF Types
  <2>2. UNCHANGED <<act, ui, room>>
    BY <1>1 DEF Answer, appVars
  <2>3. PICK s \in Seq(TaskType) :
          /\ exec' = exec \o s /\ \A d : Has(s, d) => d \in {"error", "setLocal", "setDone", "ice"}
          /\ o \in {"setLocal", "setRemote"} => Has(s, "setDone")
    <3>1. CASE o = "setLocal"
      BY <1>1, <3>1, AnswerTasks
    <3>2. CASE o = "setRemote"
      <4>1. exec' = exec \o <<Task("setDone", None)>>
        BY <1>1, <3>2, AnswerTasks
      <4>2. /\ <<Task("setDone", None)>> \in Seq(TaskType)
            /\ \A d : Has(<<Task("setDone", None)>>, d) <=> d = "setDone"
        BY OneTask DEF Tasks, None
      <4> QED BY <4>1, <4>2
    <3>3. CASE o \in {"createOffer", "createAnswer"}
      <4>1. PICK do \in {"error", "setLocal"} : exec' = exec \o <<Task(do, None)>>
        BY <1>1, <3>3, AnswerTasks
      <4>2. /\ <<Task(do, None)>> \in Seq(TaskType)
            /\ \A d : Has(<<Task(do, None)>>, d) <=> d = do
        BY OneTask DEF Tasks, None
      <4> QED BY <3>3, <4>1, <4>2
    <3>4. o \in Operations
      BY <1>1, AnswerTasks
    <3> QED BY <3>1, <3>2, <3>3, <3>4 DEF Operations
  <2> HIDE DEF o
  <2>4. ~Has(s, "candidate") /\ ~Has(s, "create") /\ ~Has(s, "remove")
    BY <2>3
  <2>5. (InUse(c)' => InUse(c)) /\ (Described(c) => Described(c)')
    BY <2>1 DEF InUse, Described
  <2>6. Described(c)' => Described(c) \/ Has(s, "setDone")
    BY <2>1, <2>3 DEF Described
  <2> QED BY <1>0, <2>1, <2>2, <2>3, <2>4, <2>5, <2>6, KeptMore
<1>2. CASE Refuse(c) \/ LoseConnection(c) \/ OtherError(c)
  <2>1. /\ UNCHANGED <<act, client, ui, room>>
        /\ conn'[c].added = conn[c].added
        /\ conn'[c].local = conn[c].local /\ conn'[c].remote = conn[c].remote
    BY <1>2, LibraryStep
  <2>2. PICK s \in Seq(TaskType) : exec' = exec \o s /\ \A d : Has(s, d) => d \in {"error", "hungUp"}
    BY <1>2, LibraryStep
  <2>3. ~Has(s, "candidate") /\ ~Has(s, "create") /\ ~Has(s, "remove") /\ ~Has(s, "setDone")
    BY <2>2
  <2>4. (InUse(c)' => InUse(c)) /\ (Described(c)' <=> Described(c))
    BY <2>1 DEF InUse, Described
  <2> QED BY <1>0, <2>1, <2>2, <2>3, <2>4, KeptMore
<1> QED BY <1>1, <1>2 DEF Library

LEMMA RoomKept ==
  ASSUME Types, SingleCall, NEW c \in Calls, Quiet(c), Life(c), Kept(c), Room(c)
  PROVE  Kept(c)'
<1> DEFINE m == room[c].candidates
<1>0. /\ room \in [Calls -> RoomType] /\ room[c] \in RoomType /\ ui \in Seq(EventType)
      /\ exec \in Seq(TaskType) /\ m \in Nat
      /\ \A x \in EventType : x.do = "connected" => x.of \in Nat
  <2>1. room \in [Calls -> RoomType] /\ m \in 0..MaxCandidates
    BY DEF Types, RoomType
  <2>2. \A x \in EventType : x.do = "connected" => x.of \in Nat
    BY Assumptions DEF EventType
  <2> QED BY <2>1, <2>2, Assumptions DEF Types, ExecTyped, UiTyped
<1>1. UNCHANGED <<act, client, conn, exec>>
  BY DEF Room, RoomConnected, RoomDescription, RoomCandidate, RoomRemoved, RoomClosed, Hear,
         appVars, callVars
<1>2. /\ InUse(c)' <=> InUse(c)
      /\ Described(c)' <=> Described(c)
      /\ Got(c)' = Got(c)
  BY <1>1 DEF InUse, Described, Got
<1>3. ASSUME NEW do \in {"description", "remove", "hungUp", "error"}, ui' = Append(ui, Event(c, do, None)),
             room'[c].candidates = m, room[c].removed => room'[c].removed,
             do = "remove" => room'[c].removed
      PROVE  Kept(c)'
  <2> DEFINE e == Event(c, do, None)
  <2>1. e \in EventType /\ e.do = do
    BY Assumptions DEF Event, EventType, Events
  <2>2. ui' = ui \o <<e>>
    BY <1>0, <1>3
  <2> HIDE DEF e
  <2>3. /\ \A a, b \in Nat : a <= b /\ Run(ui, a, b) => Run(ui', a, b)
        /\ Joins(ui', m)
        /\ Has(ui', "remove") => Has(ui, "remove") \/ do = "remove"
    BY <2>1, <2>2, UiKeeps DEF Kept, Ordered
  <2>4. <<>> \in Seq(TaskType) /\ exec' = exec \o <<>> /\ \A d : ~Has(<<>>, d)
    BY <1>0, <1>1, QueueNone
  <2> QED BY <1>1, <1>2, <1>3, <2>3, <2>4, KeptMore
<1>4. CASE RoomConnected(c)
  <2>1. PICK role \in Roles, n \in 0..MaxKept :
          /\ room' = [room EXCEPT ![c].connected = TRUE, ![c].role = role, ![c].candidates = n,
                             ![c].described = (role = "offered")]
          /\ Hear(c, "connected", n)
    BY <1>4 DEF RoomConnected
  <2>2. room'[c].candidates = n /\ room'[c].removed = room[c].removed /\ ~room[c].connected
    BY <1>0, <1>4, <2>1 DEF RoomConnected, RoomType
  <2>3. n \in 0..MaxCandidates /\ "connected" \in Events
    BY Assumptions DEF Events
  <2> DEFINE e == Event(c, "connected", n)
  <2>4. ui' = ui \o <<e>> /\ e \in EventType /\ e.do = "connected" /\ e.of = n
    BY <2>1, <2>3, HearTypes
  <2> HIDE DEF e
  <2>5. n \in Nat
    BY Assumptions
  <2>6. ~Has(ui, "connected") /\ ~Has(ui, "candidate") /\ ~Has(ui, "remove")
    BY <2>2 DEF Life, RoomFirst, Said
  <2>7. Joins(ui', n)
    BY <1>0, <2>4, <2>5, <2>6, JoinsFirst
  <2>8. client.pc # c /\ ~Has(exec, "create")
    BY <2>2 DEF Life, Connecting, Owned, Started
  <2>9. Ordered(c)'
    BY <1>1, <2>2, <2>7, <2>8 DEF Ordered, InUse
  <2>10. Has(ui', "remove") => Has(ui, "remove")
    BY <2>4, RunnablesMore
  <2>11. Drained(c)'
    BY <1>1, <1>2, <2>2, <2>10 DEF Kept, Drained
  <2> QED BY <2>9, <2>11 DEF Kept
<1>5. CASE RoomCandidate(c)
  <2>1. /\ Hear(c, "candidate", m + 1) /\ room'[c].candidates = m + 1
        /\ room'[c].removed = room[c].removed
    BY <1>0, <1>5 DEF RoomCandidate, RoomType
  <2>2. m + 1 \in 1..MaxCandidates /\ "candidate" \in Events
    BY <1>0, <1>5, Assumptions DEF RoomCandidate, RoomType, Events
  <2>3. m + 1 \in 0..MaxCandidates
    BY <2>2, Assumptions
  <2> DEFINE e == Event(c, "candidate", m + 1)
             s == <<e>>
  <2>4. ui' = ui \o s /\ e \in EventType /\ e.do = "candidate" /\ e.of = m + 1
    BY <2>1, <2>2, <2>3, HearTypes
  <2> HIDE DEF e, m
  <2>5. m \in Nat /\ m + 1 \in Nat /\ m <= m + 1
    BY <1>0
  <2>6. s \in Seq(EventType) /\ Run(s, m, m + 1)
    BY <2>4, <2>5, QueueOne, RunOne
  <2>7. Joins(ui', m + 1)
    BY <1>0, <2>4, JoinsMore DEF Kept, Ordered, m
  <2> HIDE DEF s
  <2>8. ASSUME NEW got \in Nat, Flow(c, got) PROVE Flow(c, got)'
    <3>1. PICK d \in got..m : Run(exec, got, d) /\ (act[c].client => Run(ui, d, m))
      BY <2>8 DEF Flow, m
    <3>2. d \in Nat /\ d <= m /\ d \in got..(m + 1)
      BY <2>5, <3>1
    <3>3. Run(ui, d, m) => Run(ui', d, m + 1)
      BY <1>0, <2>4, <2>5, <2>6, <3>2, RunConcat
    <3> QED BY <1>1, <2>1, <3>1, <3>2, <3>3 DEF Flow
  <2>9. InUse(c)' => (\A i \in DOMAIN Got(c)' : Got(c)'[i] = i) /\ Flow(c, Len(Got(c)))'
    <3> SUFFICES ASSUME InUse(c)'
        PROVE  (\A i \in DOMAIN Got(c)' : Got(c)'[i] = i) /\ Flow(c, Len(Got(c)))'
      OBVIOUS
    <3> DEFINE got == Len(Got(c))
    <3>1. got \in Nat /\ (\A i \in DOMAIN Got(c) : Got(c)[i] = i) /\ Flow(c, got)
      BY <1>2, GotTyped DEF Kept, Ordered
    <3>2. got' = got
      BY <1>2
    <3> HIDE DEF got
    <3>3. Flow(c, got)'
      <4>1. \E d \in got..room'[c].candidates :
              Run(exec', got, d) /\ (act'[c].client => Run(ui', d, room'[c].candidates))
        BY <2>8, <3>1 DEF Flow
      <4> QED BY <3>2, <4>1 DEF Flow
    <3> QED BY <1>2, <3>1, <3>3 DEF got
  <2>10. Ordered(c)'
    <3>1. Has(exec', "create") => Before(exec', "create", "candidate") /\ Flow(c, 0)'
      BY <1>1, <2>8 DEF Kept, Ordered
    <3> QED BY <2>1, <2>7, <2>9, <3>1 DEF Ordered
  <2>11. Has(ui', "remove") => Has(ui, "remove")
    BY <2>4, RunnablesMore DEF s
  <2>12. Drained(c)'
    BY <1>1, <1>2, <2>1, <2>11 DEF Kept, Drained
  <2> QED BY <2>10, <2>12 DEF Kept
<1>6. CASE RoomDescription(c)
  <2>1. /\ ui' = Append(ui, Event(c, "description", None))
        /\ room'[c].candidates = m /\ room'[c].removed = room[c].removed
    BY <1>0, <1>6 DEF RoomDescription, Hear, RoomType
  <2> QED BY <1>3, <2>1
<1>7. CASE RoomRemoved(c)
  <2>1. /\ ui' = Append(ui, Event(c, "remove", None))
        /\ room'[c].candidates = m /\ room'[c].removed
    BY <1>0, <1>7 DEF RoomRemoved, Hear, RoomType
  <2> QED BY <1>3, <2>1
<1>8. CASE RoomClosed(c)
  <2>1. PICK do \in {"hungUp", "error"} : ui' = Append(ui, Event(c, do, None))
    BY <1>8 DEF RoomClosed, Hear
  <2>2. room' = room
    BY <1>8 DEF RoomClosed
  <2> QED BY <1>3, <2>1, <2>2
<1> QED BY <1>4, <1>5, <1>6, <1>7, <1>8 DEF Room

LEMMA InitKept == ASSUME Init, NEW c \in Calls PROVE Kept(c)
<1>1. /\ exec = <<>> /\ ui = <<>> /\ conn[c].added = <<>> /\ client.pc # c
  BY Assumptions DEF Init
<1>2. /\ \A d : ~Has(exec, d) /\ ~Has(ui, d)
  BY <1>1, QueueNone
<1>3. ~InUse(c)
  BY <1>1 DEF InUse
<1>4. Joins(ui, room[c].candidates)
  BY <1>2 DEF Joins, Has
<1> QED BY <1>1, <1>2, <1>3, <1>4 DEF Kept, Ordered, Drained

LEMMA StutterKept == ASSUME NEW c \in Calls, Kept(c), UNCHANGED vars PROVE Kept(c)'
BY DEF vars, appVars, callVars, queueVars, Kept, Ordered, Drained, Described, Got, Flow, InUse

LEMMA NextKept ==
  ASSUME Types, SingleCall, NEW c \in Calls, Quiet(c), Life(c), Desc(c), Kept(c), [Next]_vars
  PROVE  Kept(c)'
<1>1. \A d \in Calls : d = c
  BY DEF SingleCall
<1> QED BY <1>1, StutterKept, UiKept, ExecKept, UserKept, LibraryKept, RoomKept DEF Next

\* No remote candidate is lost, repeated or overtaken between the room and the
\* PeerConnection, whatever was set or created when it came; the queue is drained when both
\* descriptions are set, and not before unless candidates were removed (drainCandidates).
THEOREM EveryCandidateKept == ASSUME SingleCall PROVE Spec => []CandidatesKept
<1> DEFINE Inv == Types /\ \A c \in Calls : Quiet(c) /\ Life(c) /\ Desc(c) /\ Kept(c)
<1>1. Init => Inv
  BY InitTypes, QuietInit, InitLife, InitDesc, InitKept
<1>2. Inv /\ [Next]_vars => Inv'
  BY NextTypes, QuietNext, NextLife, NextDesc, NextKept
<1>3. Inv => CandidatesKept
  <2> SUFFICES ASSUME Inv, NEW c \in Calls
      PROVE  /\ InUse(c) => Got(c) = [i \in 1..Len(Got(c)) |-> i]
             /\ InUse(c) /\ Idle =>
                  Len(Got(c)) = room[c].candidates /\ ~(Described(c) /\ client.queueing)
             /\ conn[c].added # <<>> => Described(c) \/ room[c].removed
    BY DEF CandidatesKept, Got, Described
  <2>1. Types /\ Life(c) /\ Kept(c)
    OBVIOUS
  <2> HIDE DEF Inv
  <2>2. Got(c) \in Seq(1..MaxCandidates) /\ Len(Got(c)) \in Nat
    BY <2>1, GotTyped
  <2>3. InUse(c) => Got(c) = [i \in 1..Len(Got(c)) |-> i]
    <3>1. InUse(c) => \A i \in DOMAIN Got(c) : Got(c)[i] = i
      BY <2>1 DEF Kept, Ordered
    <3> QED BY <2>2, <3>1
  <2>4. ASSUME InUse(c), Idle PROVE Len(Got(c)) = room[c].candidates /\ ~(Described(c) /\ client.queueing)
    <3> DEFINE got == Len(Got(c))
               m == room[c].candidates
    <3>1. exec = <<>> /\ ui = <<>> /\ (\A d : ~Has(exec, d) /\ ~Has(ui, d)) /\ client.pc = c
      BY <2>4, QueueNone DEF Idle, InUse
    <3>2. act[c].client
      <4>1. ~Unborn(c)
        BY <2>1, <3>1, Assumptions DEF Life
      <4>2. client.pc # None
        BY <3>1, Assumptions
      <4> QED BY <2>1, <3>1, <4>1, <4>2 DEF Life, Ending, Shut
    <3>3. Flow(c, got)
      BY <2>1, <2>4 DEF Kept, Ordered
    <3>4. PICK e \in got..m : Run(exec, got, e) /\ Run(ui, e, m)
      BY <3>2, <3>3 DEF Flow
    <3>5. m \in Nat
      <4>1. m \in 0..MaxCandidates
        BY <2>1 DEF Types, RoomType
      <4> QED BY <4>1, Assumptions
    <3>6. ~(Described(c) /\ client.queueing)
      BY <2>1, <2>4, <3>1 DEF Kept, Drained
    <3> HIDE DEF got, m
    <3>7. got \in Nat /\ e \in Nat /\ got <= e /\ e <= m
      BY <2>2, <3>4, <3>5 DEF got
    <3>8. e <= got /\ m <= e
      BY <3>1, <3>4, <3>5, <3>7, RunNone
    <3>9. got = m
      BY <3>5, <3>7, <3>8
    <3> QED BY <3>6, <3>9 DEF got, m
  <2>5. conn[c].added # <<>> => Described(c) \/ room[c].removed
    BY <2>1 DEF Kept, Drained
  <2> QED BY <2>3, <2>4, <2>5
<1> QED BY <1>1, <1>2, <1>3, PTL DEF Spec
=============================================================================
