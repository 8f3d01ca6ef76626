-------------------------- MODULE DirectRtcProofs --------------------------
(***************************************************************************)
(* A direct call, for any number of ICE messages: what one phone says is   *)
(* heard by the other in order, and no error is shown while the network    *)
(* holds.                                                                  *)
(***************************************************************************)
EXTENDS DirectRtc, SequenceTheorems, TLAPS

-----------------------------------------------------------------------------
(* Queues: what is in them, once, and in which order.                       *)

In(v, e) == \E i \in DOMAIN v : v[i] = e
One(v, e) == \A i, j \in DOMAIN v : v[i] = e /\ v[j] = e => i = j
\* Whatever of S is in v has an a before it.
Before(v, a, S) == \A j \in DOMAIN v : v[j] \in S => \E i \in DOMAIN v : i < j /\ v[i] = a

Act == {"connect", "disconnect", "connected", "tcpError", "tcpClose", "roomError",
        "send", "write", "receive"}

\* What the tasks of an executor do; the messages of one kind of task; the
\* messages among the events posted to the activity.
Dos(q) == [i \in DOMAIN q |-> q[i].do]
View(q, k) == [i \in DOMAIN q |-> IF q[i].do = k THEN q[i].msg ELSE "none"]
Spoken(q) == [i \in DOMAIN q |-> IF q[i] \in Messages THEN q[i] ELSE "none"]

\* The messages in v are those of h from a + 1 to b, in this order.
Carries(v, h, a, b) ==
  /\ a <= b /\ b <= Len(h)
  /\ \E pos \in [(a + 1)..b -> DOMAIN v] :
       /\ \A i, j \in (a + 1)..b : i < j => pos[i] < pos[j]
       /\ \A i \in (a + 1)..b : v[pos[i]] = h[i]
       /\ \A k \in DOMAIN v : v[k] # "none" => \E i \in (a + 1)..b : pos[i] = k

(* h was said and g is given.  On its way a message waits in U for the      *)
(* activity, in R for the executor, in W on the line, in T to be written,   *)
(* in S to be sent.  The line is read while c2, messages reach it while c3, *)
(* and are written while c4 (the answer is written without it).             *)
Chain(h, g, left, U, R, W, T, S, c2, c3, c4) ==
  /\ IsPrefix(g, h)
  /\ \E a, u, r, w, x \in 0..Len(h) :
       /\ Len(g) <= a /\ (left \/ a = Len(g))
       /\ Carries(U, h, a, u)
       /\ Carries(R, h, u, r)
       /\ h = <<>> \/ c2 => Carries(W, h, r, w)
       /\ h = <<>> \/ (c2 /\ c3) => Carries(T, h, w, x)
       /\ h = <<>> \/ (c2 /\ c3 /\ (c4 \/ In(S, "answer"))) => Carries(S, h, x, Len(h))

-----------------------------------------------------------------------------
(* The inductive invariant.                                                 *)

First(p) == IF p = "server" THEN "offer" ELSE "answer"
Own(p) == {First(p)} \cup Ice
FirstOnly(h, m) == \A i \in DOMAIN h : h[i] = m <=> i = 1

Early == {"none", "connecting", "accepting", "opening"}
Opened == {"announcing", "reading", "posting", "closing"}

Types ==
  /\ TypeOK
  /\ \A p \in Peers : said[p] \in Seq(Own(p)) /\ FirstOnly(said[p], First(p))
  /\ \A p \in Peers : thread[p] = "posting" => wire[p] # <<>>
  /\ \A p \in Peers : thread[p] = "opening" => end[p]
  /\ \A p \in Peers : thread[p] \in Early => ~raw[p]

\* Before the task that connects nothing has happened.
Started(p) ==
  /\ call[p] = "idle" => tasks[p] = <<>>
  /\ In(Dos(tasks[p]), "connect") => Dos(tasks[p])[1] = "connect" /\ One(Dos(tasks[p]), "connect")
  /\ call[p] = "idle" \/ In(Dos(tasks[p]), "connect") =>
       /\ \A x \in Act : In(Dos(tasks[p]), x) => x \in {"connect", "disconnect"}
       /\ ui[p] = <<>> /\ thread[p] = "none" /\ ~client[p] /\ ~shut[p]
       /\ pc[p] = "none" /\ room[p] = "NEW"
  /\ ~client[p] <=> shut[p] \/ call[p] = "idle" \/ In(Dos(tasks[p]), "connect")

\* What only a phone does that has left its call, and what it has not done
\* before its socket is announced.
Lived(p) ==
  /\ shut[p] \/ In(Dos(tasks[p]), "disconnect") \/ room[p] = "CLOSED" \/ p \in faults
       \/ (thread[p] \in Opened /\ ~raw[p]) => call[p] = "left"
  /\ thread[p] \in Early \cup {"announcing"} =>
       /\ pc[p] = "none"
       /\ ~In(Dos(tasks[p]), "connected") /\ ~In(Dos(tasks[p]), "receive")
       /\ \A x \in Events : In(ui[p], x) => x \in {"close", "error"}

\* The peer connection is made once, in a connected room, before anything is
\* said or heard.
Made(p) ==
  /\ said[p] # <<>> <=> pc[p] = "described"
  /\ got[p] # <<>> => pc[p] # "none"
  /\ pc[p] # "none" \/ In(ui[p], "connected") \/ In(ui[p], "offer") => room[p] # "NEW"
  /\ p = "client" => (pc[p] # "none" => got[p] # <<>>) /\ ~In(ui[p], "connected")
  /\ p = "server" =>
       /\ One(Dos(tasks[p]), "connected") /\ One(ui[p], "connected")
       /\ In(Dos(tasks[p]), "connected") \/ In(ui[p], "connected") => pc[p] = "none"
       /\ ~(In(Dos(tasks[p]), "connected") /\ In(ui[p], "connected"))
       /\ thread[p] = "accepting" /\ ~listening => shut[p]

\* While the network holds, a close is on its way before every error.
Excused(p) ==
  ~broken =>
    /\ p \notin alert
    /\ call[p] # "left" =>
         /\ Before(ui[p], "close", {"error"})
         /\ ~In(ui[p], "close") =>
              /\ Before(Dos(tasks[p]), "tcpClose", {"tcpError", "roomError"})
              /\ thread[p] = "dead" => In(Dos(tasks[p]), "tcpClose")
              /\ room[p] # "ERROR"

Line(p, q) ==
  Chain(said[p], got[q], call[q] = "left", Spoken(ui[q]), View(tasks[q], "receive"),
        wire[q], View(tasks[p], "write"), View(tasks[p], "send"),
        thread[q] \notin {"closing", "dead"}, client[p] /\ raw[p] /\ end[q],
        room[p] = "CONNECTED")

Inv ==
  /\ Types
  /\ \A p \in Peers : Started(p) /\ Lived(p) /\ Made(p) /\ Excused(p)
  /\ Line("server", "client") /\ Line("client", "server")

-----------------------------------------------------------------------------
(* Lemmas about queues.                                                     *)

Word == Messages \cup {"none"}

LEMMA NoneApart == "none" \notin Messages /\ Messages \subseteq Events /\ "answer" \in Messages
BY IceAssumption DEF Messages, Events

LEMMA OtherPeer ==
  /\ Other("server") = "client" /\ Other("client") = "server"
  /\ \A p \in Peers : Other(p) \in Peers /\ Other(p) # p
BY DEF Other, Peers

LEMMA LenNat == ASSUME NEW S, NEW q \in Seq(S) PROVE Len(q) \in Nat
OBVIOUS

LEMMA AppendParts ==
  ASSUME NEW S, NEW q \in Seq(S), NEW e \in S
  PROVE  /\ Append(q, e) \in Seq(S) /\ Append(q, e) # <<>>
         /\ Len(q) \in Nat /\ Len(Append(q, e)) = Len(q) + 1
         /\ DOMAIN q = 1..Len(q) /\ DOMAIN Append(q, e) = 1..(Len(q) + 1)
         /\ Append(q, e)[Len(q) + 1] = e
         /\ \A i \in DOMAIN q : Append(q, e)[i] = q[i] /\ i \in DOMAIN Append(q, e) /\ i < Len(q) + 1
         /\ \A i \in DOMAIN Append(q, e) : i \in DOMAIN q \/ i = Len(q) + 1
OBVIOUS

LEMMA TailParts ==
  ASSUME NEW S, NEW q \in Seq(S), q # <<>>
  PROVE  /\ Tail(q) \in Seq(S) /\ Head(q) \in S /\ Head(q) = q[1] /\ 1 \in DOMAIN q
         /\ Len(q) \in Nat /\ Len(q) > 0 /\ Len(Tail(q)) = Len(q) - 1
         /\ DOMAIN q = 1..Len(q) /\ DOMAIN Tail(q) = 1..(Len(q) - 1)
         /\ \A i \in DOMAIN Tail(q) : Tail(q)[i] = q[i + 1] /\ i + 1 \in DOMAIN q
         /\ \A i \in DOMAIN q : i = 1 \/ (i - 1 \in DOMAIN Tail(q) /\ Tail(q)[i - 1] = q[i])
OBVIOUS

LEMMA InAppend ==
  ASSUME NEW S, NEW v \in Seq(S), NEW e \in S
  PROVE  /\ \A x : In(Append(v, e), x) <=> (In(v, x) \/ x = e)
         /\ \A x : One(v, x) /\ (x = e => ~In(v, x)) => One(Append(v, e), x)
         /\ \A a, B : Before(v, a, B) /\ (e \in B => In(v, a)) => Before(Append(v, e), a, B)
         /\ \A x : In(v, x) => Append(v, e)[1] = v[1]
<1>1. /\ Len(v) \in Nat /\ DOMAIN v = 1..Len(v) /\ DOMAIN Append(v, e) = 1..(Len(v) + 1)
      /\ Append(v, e)[Len(v) + 1] = e
      /\ \A i \in DOMAIN v : Append(v, e)[i] = v[i] /\ i \in DOMAIN Append(v, e) /\ i < Len(v) + 1
      /\ \A i \in DOMAIN Append(v, e) : i \in DOMAIN v \/ i = Len(v) + 1
  BY AppendParts
<1>2. \A x : In(Append(v, e), x) <=> (In(v, x) \/ x = e)
  BY <1>1 DEF In
<1>3. ASSUME NEW x, One(v, x), x = e => ~In(v, x) PROVE One(Append(v, e), x)
  BY <1>1, <1>3 DEF One, In
<1>4. ASSUME NEW a, NEW B, Before(v, a, B), e \in B => In(v, a) PROVE Before(Append(v, e), a, B)
  <2> SUFFICES ASSUME NEW j \in DOMAIN Append(v, e), Append(v, e)[j] \in B
               PROVE \E i \in DOMAIN Append(v, e) : i < j /\ Append(v, e)[i] = a
    BY DEF Before
  <2>1. CASE j \in DOMAIN v
    <3>1. PICK i \in DOMAIN v : i < j /\ v[i] = a
      BY <1>1, <1>4, <2>1 DEF Before
    <3> QED BY <1>1, <3>1
  <2>2. CASE j = Len(v) + 1
    <3>1. PICK i \in DOMAIN v : v[i] = a
      BY <1>1, <1>4, <2>2 DEF In
    <3> QED BY <1>1, <2>2, <3>1
  <2> QED BY <1>1, <2>1, <2>2
<1>5. ASSUME NEW x, In(v, x) PROVE Append(v, e)[1] = v[1]
  <2>1. 1 \in DOMAIN v
    BY <1>1, <1>5 DEF In
  <2> QED BY <1>1, <2>1
<1> QED BY <1>2, <1>3, <1>4, <1>5

LEMMA InTail ==
  ASSUME NEW S, NEW v \in Seq(S), v # <<>>
  PROVE  /\ \A x : In(v, x) <=> (v[1] = x \/ In(Tail(v), x))
         /\ \A x : One(v, x) => One(Tail(v), x) /\ (v[1] = x => ~In(Tail(v), x))
         /\ \A a, B : Before(v, a, B) => v[1] \notin B
         /\ \A a, B : Before(v, a, B) /\ v[1] # a => Before(Tail(v), a, B)
<1>1. /\ 1 \in DOMAIN v /\ Len(v) \in Nat /\ DOMAIN v = 1..Len(v) /\ DOMAIN Tail(v) = 1..(Len(v) - 1)
      /\ \A i \in DOMAIN Tail(v) : Tail(v)[i] = v[i + 1] /\ i + 1 \in DOMAIN v
      /\ \A i \in DOMAIN v : i = 1 \/ (i - 1 \in DOMAIN Tail(v) /\ Tail(v)[i - 1] = v[i])
  BY TailParts
<1>2. \A x : In(v, x) <=> (v[1] = x \/ In(Tail(v), x))
  BY <1>1 DEF In
<1>3. ASSUME NEW x, One(v, x) PROVE One(Tail(v), x) /\ (v[1] = x => ~In(Tail(v), x))
  <2>1. ASSUME NEW i \in DOMAIN Tail(v), NEW j \in DOMAIN Tail(v), Tail(v)[i] = x, Tail(v)[j] = x
        PROVE i = j
    <3>1. i + 1 = j + 1
      BY <1>1, <1>3, <2>1 DEF One
    <3> QED BY <1>1, <3>1
  <2>2. ASSUME v[1] = x, NEW i \in DOMAIN Tail(v), Tail(v)[i] = x PROVE FALSE
    <3>1. i + 1 = 1
      BY <1>1, <1>3, <2>2 DEF One
    <3> QED BY <1>1, <3>1
  <2> QED BY <2>1, <2>2 DEF One, In
<1>4. ASSUME NEW a, NEW B, Before(v, a, B) PROVE v[1] \notin B
  BY <1>1, <1>4 DEF Before
<1>5. ASSUME NEW a, NEW B, Before(v, a, B), v[1] # a PROVE Before(Tail(v), a, B)
  <2> SUFFICES ASSUME NEW j \in DOMAIN Tail(v), Tail(v)[j] \in B
               PROVE \E i \in DOMAIN Tail(v) : i < j /\ Tail(v)[i] = a
    BY DEF Before
  <2>1. PICK i \in DOMAIN v : i < j + 1 /\ v[i] = a
    BY <1>1, <1>5 DEF Before
  <2>2. i - 1 \in DOMAIN Tail(v) /\ Tail(v)[i - 1] = a
    BY <1>1, <1>5, <2>1
  <2>3. i - 1 < j
    BY <1>1, <2>1
  <2> QED BY <2>2, <2>3
<1> QED BY <1>2, <1>3, <1>4, <1>5

LEMMA CarriesNone ==
  ASSUME NEW v \in Seq(Word), NEW h \in Seq(Messages), NEW a \in Nat, NEW b \in Nat,
         Carries(v, h, a, b)
  PROVE  Carries(Append(v, "none"), h, a, b)
<1>1. /\ Len(v) \in Nat /\ Append(v, "none")[Len(v) + 1] = "none"
      /\ \A i \in DOMAIN v : Append(v, "none")[i] = v[i] /\ i \in DOMAIN Append(v, "none")
      /\ \A i \in DOMAIN Append(v, "none") : i \in DOMAIN v \/ i = Len(v) + 1
  BY AppendParts DEF Word
<1>2. PICK pos \in [(a + 1)..b -> DOMAIN v] :
       /\ \A i, j \in (a + 1)..b : i < j => pos[i] < pos[j]
       /\ \A i \in (a + 1)..b : v[pos[i]] = h[i]
       /\ \A k \in DOMAIN v : v[k] # "none" => \E i \in (a + 1)..b : pos[i] = k
  BY DEF Carries
<1>3. pos \in [(a + 1)..b -> DOMAIN Append(v, "none")]
  BY <1>1
<1>4. \A k \in DOMAIN Append(v, "none") :
         Append(v, "none")[k] # "none" => \E i \in (a + 1)..b : pos[i] = k
  BY <1>1, <1>2
<1>5. \A i \in (a + 1)..b : Append(v, "none")[pos[i]] = h[i]
  BY <1>1, <1>2
<1> QED BY <1>2, <1>3, <1>4, <1>5 DEF Carries

LEMMA CarriesAppend ==
  ASSUME NEW v \in Seq(Word), NEW h \in Seq(Messages), NEW a \in Nat, NEW b \in Nat,
         Carries(v, h, a, b), b < Len(h)
  PROVE  Carries(Append(v, h[b + 1]), h, a, b + 1)
<1> DEFINE m == h[b + 1]
           n == Len(v) + 1
           v2 == Append(v, m)
<1>1. m \in Word /\ Len(h) \in Nat
  BY DEF Word
<1>2. /\ Len(v) \in Nat /\ DOMAIN v = 1..Len(v) /\ DOMAIN v2 = 1..n /\ v2[n] = m
      /\ \A i \in DOMAIN v : v2[i] = v[i] /\ i \in DOMAIN v2 /\ i < n
      /\ \A i \in DOMAIN v2 : i \in DOMAIN v \/ i = n
  BY <1>1, AppendParts
<1>3. PICK pos \in [(a + 1)..b -> DOMAIN v] :
       /\ \A i, j \in (a + 1)..b : i < j => pos[i] < pos[j]
       /\ \A i \in (a + 1)..b : v[pos[i]] = h[i]
       /\ \A k \in DOMAIN v : v[k] # "none" => \E i \in (a + 1)..b : pos[i] = k
  BY DEF Carries
<1> DEFINE pos2 == [i \in (a + 1)..(b + 1) |-> IF i = b + 1 THEN n ELSE pos[i]]
<1>4. a <= b
  BY DEF Carries
<1>5. /\ b + 1 \in (a + 1)..(b + 1)
      /\ \A i \in (a + 1)..b : i \in (a + 1)..(b + 1) /\ i # b + 1
      /\ \A i \in (a + 1)..(b + 1) : i \in (a + 1)..b \/ i = b + 1
  BY <1>4
<1>6. pos2[b + 1] = n /\ \A i \in (a + 1)..b : pos2[i] = pos[i] /\ pos[i] \in DOMAIN v
  BY <1>3, <1>5
<1>7. pos2 \in [(a + 1)..(b + 1) -> DOMAIN v2]
  <2>1. \A i \in (a + 1)..(b + 1) : pos2[i] \in DOMAIN v2
    BY <1>2, <1>5, <1>6
  <2> QED BY <2>1
<1> HIDE DEF pos2, v2, n
<1>8. \A i \in (a + 1)..(b + 1) : v2[pos2[i]] = h[i]
  <2>1. \A i \in (a + 1)..b : v2[pos2[i]] = h[i]
    BY <1>2, <1>3, <1>6
  <2>2. v2[pos2[b + 1]] = h[b + 1]
    BY <1>2, <1>6
  <2> QED BY <1>5, <2>1, <2>2
<1>9. \A i, j \in (a + 1)..(b + 1) : i < j => pos2[i] < pos2[j]
  <2> SUFFICES ASSUME NEW i \in (a + 1)..(b + 1), NEW j \in (a + 1)..(b + 1), i < j
               PROVE pos2[i] < pos2[j]
    OBVIOUS
  <2>1. i \in (a + 1)..b
    BY <1>5
  <2>2. CASE j = b + 1
    BY <1>2, <1>6, <2>1, <2>2
  <2>3. CASE j \in (a + 1)..b
    BY <1>3, <1>6, <2>1, <2>3
  <2> QED BY <1>5, <2>2, <2>3
<1>10. \A k \in DOMAIN v2 : v2[k] # "none" => \E i \in (a + 1)..(b + 1) : pos2[i] = k
  <2> SUFFICES ASSUME NEW k \in DOMAIN v2, v2[k] # "none"
               PROVE \E i \in (a + 1)..(b + 1) : pos2[i] = k
    OBVIOUS
  <2>1. CASE k = n
    BY <1>5, <1>6, <2>1
  <2>2. CASE k \in DOMAIN v
    <3>1. PICK i \in (a + 1)..b : pos[i] = k
      BY <1>2, <1>3, <2>2
    <3> QED BY <1>5, <1>6, <3>1
  <2> QED BY <1>2, <2>1, <2>2
<1>11. a <= b + 1 /\ b + 1 <= Len(h)
  BY <1>1, <1>4
<1> QED BY <1>7, <1>8, <1>9, <1>10, <1>11 DEF Carries, v2

LEMMA CarriesTail ==
  ASSUME NEW v \in Seq(Word), NEW h \in Seq(Messages), NEW a \in Nat, NEW b \in Nat,
         Carries(v, h, a, b), v # <<>>
  PROVE  /\ v[1] = "none" => Carries(Tail(v), h, a, b)
         /\ v[1] # "none" => a < b /\ v[1] = h[a + 1] /\ Carries(Tail(v), h, a + 1, b)
<1> DEFINE v2 == Tail(v)
<1>1. /\ 1 \in DOMAIN v /\ Len(v) \in Nat /\ DOMAIN v = 1..Len(v) /\ DOMAIN v2 = 1..(Len(v) - 1)
      /\ \A i \in DOMAIN v2 : v2[i] = v[i + 1] /\ i + 1 \in DOMAIN v
      /\ \A i \in DOMAIN v : i = 1 \/ (i - 1 \in DOMAIN v2 /\ v2[i - 1] = v[i])
  BY TailParts
<1>2. PICK pos \in [(a + 1)..b -> DOMAIN v] :
       /\ \A i, j \in (a + 1)..b : i < j => pos[i] < pos[j]
       /\ \A i \in (a + 1)..b : v[pos[i]] = h[i]
       /\ \A k \in DOMAIN v : v[k] # "none" => \E i \in (a + 1)..b : pos[i] = k
  BY DEF Carries
<1>3. a <= b /\ b <= Len(h) /\ Len(h) \in Nat
  BY DEF Carries
<1>4. \A i \in (a + 1)..b : pos[i] \in DOMAIN v /\ pos[i] \in Nat /\ h[i] # "none"
  <2>1. \A i \in (a + 1)..b : i \in 1..Len(h)
    BY <1>3
  <2>2. \A i \in (a + 1)..b : h[i] \in Messages
    BY <2>1
  <2> QED BY <1>1, <2>2, NoneApart
<1> HIDE DEF v2
<1>5. ASSUME NEW c \in Nat, a <= c, c <= b, \A i \in (c + 1)..b : pos[i] # 1,
             \A k \in DOMAIN v : k # 1 /\ v[k] # "none" => \E i \in (c + 1)..b : pos[i] = k
      PROVE  Carries(v2, h, c, b)
  <2> DEFINE pos2 == [i \in (c + 1)..b |-> pos[i] - 1]
  <2>1. \A i \in (c + 1)..b : i \in (a + 1)..b
    BY <1>5
  <2>2. \A i \in (c + 1)..b : pos2[i] = pos[i] - 1 /\ pos[i] \in Nat /\ pos[i] \in DOMAIN v
                               /\ pos[i] - 1 \in DOMAIN v2 /\ v2[pos[i] - 1] = v[pos[i]]
    BY <1>1, <1>4, <1>5, <2>1
  <2>3. pos2 \in [(c + 1)..b -> DOMAIN v2]
    BY <2>2
  <2> HIDE DEF pos2
  <2>4. \A i \in (c + 1)..b : v2[pos2[i]] = h[i]
    BY <1>2, <2>1, <2>2
  <2>5. \A i, j \in (c + 1)..b : i < j => pos2[i] < pos2[j]
    <3> SUFFICES ASSUME NEW i \in (c + 1)..b, NEW j \in (c + 1)..b, i < j PROVE pos2[i] < pos2[j]
      OBVIOUS
    <3>1. pos[i] < pos[j] /\ pos[i] \in Nat /\ pos[j] \in Nat
      BY <1>2, <2>1, <2>2
    <3> QED BY <2>2, <3>1
  <2>6. \A k \in DOMAIN v2 : v2[k] # "none" => \E i \in (c + 1)..b : pos2[i] = k
    <3> SUFFICES ASSUME NEW k \in DOMAIN v2, v2[k] # "none" PROVE \E i \in (c + 1)..b : pos2[i] = k
      OBVIOUS
    <3>1. k \in Nat /\ k + 1 \in DOMAIN v /\ k + 1 # 1 /\ v[k + 1] # "none"
      BY <1>1
    <3>2. PICK i \in (c + 1)..b : pos[i] = k + 1
      BY <1>5, <3>1
    <3>3. pos2[i] = (k + 1) - 1
      BY <2>2, <3>2
    <3>4. pos2[i] = k
      BY <3>1, <3>3
    <3> QED BY <3>4
  <2> QED BY <1>3, <1>5, <2>3, <2>4, <2>5, <2>6 DEF Carries
<1>6. CASE v[1] = "none"
  <2>1. \A i \in (a + 1)..b : pos[i] # 1
    BY <1>2, <1>4, <1>6
  <2> QED BY <1>2, <1>3, <1>5, <1>6, <2>1 DEF v2
<1>7. CASE v[1] # "none"
  <2>1. PICK o \in (a + 1)..b : pos[o] = 1
    BY <1>1, <1>2, <1>7
  <2>2. a + 1 \in (a + 1)..b /\ a < b
    BY <1>3, <2>1
  <2>3. o = a + 1
    <3>1. o # a + 1 => a + 1 < o
      BY <2>1
    <3>2. a + 1 < o => pos[a + 1] < 1
      BY <1>2, <2>1, <2>2
    <3>3. ~(pos[a + 1] < 1)
      BY <1>1, <1>2, <2>2
    <3> QED BY <3>1, <3>2, <3>3
  <2>4. v[1] = h[a + 1]
    BY <1>2, <2>1, <2>2, <2>3
  <2>5. \A i \in ((a + 1) + 1)..b : pos[i] # 1
    <3> SUFFICES ASSUME NEW i \in ((a + 1) + 1)..b PROVE pos[i] # 1
      OBVIOUS
    <3>1. i \in (a + 1)..b /\ a + 1 < i
      OBVIOUS
    <3>2. pos[a + 1] < pos[i]
      BY <1>2, <2>2, <3>1
    <3> QED BY <2>1, <2>3, <3>2
  <2>6. \A k \in DOMAIN v : k # 1 /\ v[k] # "none" => \E i \in ((a + 1) + 1)..b : pos[i] = k
    <3> SUFFICES ASSUME NEW k \in DOMAIN v, k # 1, v[k] # "none"
                 PROVE \E i \in ((a + 1) + 1)..b : pos[i] = k
      OBVIOUS
    <3>1. PICK i \in (a + 1)..b : pos[i] = k
      BY <1>2
    <3>2. i # a + 1
      BY <2>1, <2>3, <3>1
    <3>3. i \in ((a + 1) + 1)..b
      BY <3>2
    <3> QED BY <3>1, <3>3
  <2>7. a + 1 \in Nat /\ a <= a + 1 /\ a + 1 <= b
    BY <2>2
  <2>8. Carries(v2, h, a + 1, b)
    BY <1>5, <2>5, <2>6, <2>7
  <2> QED BY <1>7, <2>2, <2>4, <2>8 DEF v2
<1> QED BY <1>6, <1>7

LEMMA CarriesSaid ==
  ASSUME NEW v \in Seq(Word), NEW h \in Seq(Messages), NEW a \in Nat, NEW b \in Nat,
         NEW m \in Messages, Carries(v, h, a, b)
  PROVE  Carries(v, Append(h, m), a, b)
<1>1. /\ Len(h) \in Nat /\ Len(Append(h, m)) = Len(h) + 1 /\ DOMAIN h = 1..Len(h)
      /\ \A i \in DOMAIN h : Append(h, m)[i] = h[i]
  BY AppendParts
<1>2. a <= b /\ b <= Len(h)
  BY DEF Carries
<1>3. \A i \in (a + 1)..b : i \in DOMAIN h
  BY <1>1, <1>2
<1>4. \A i \in (a + 1)..b : Append(h, m)[i] = h[i]
  BY <1>1, <1>3
<1>5. b <= Len(Append(h, m))
  BY <1>1, <1>2
<1> QED BY SMTT(30), <1>2, <1>4, <1>5 DEF Carries

-----------------------------------------------------------------------------
(* Lemmas about the way of the messages.                                    *)

\* v2 carries whatever v carries.
Follows(v, v2) ==
  /\ v2 \in Seq(Word) /\ (In(v2, "answer") => In(v, "answer"))
  /\ \A h \in Seq(Messages), a, b \in Nat : Carries(v, h, a, b) => Carries(v2, h, a, b)

LEMMA FollowsSame == ASSUME NEW v \in Seq(Word) PROVE Follows(v, v)
BY DEF Follows

LEMMA FollowsTwice ==
  ASSUME NEW v, NEW v1, NEW v2, Follows(v, v1), Follows(v1, v2)
  PROVE  Follows(v, v2)
BY DEF Follows

LEMMA FollowsNone == ASSUME NEW v \in Seq(Word) PROVE Follows(v, Append(v, "none"))
<1>1. "none" \in Word
  BY DEF Word
<1>2. Append(v, "none") \in Seq(Word)
  BY <1>1, AppendParts
<1>3. In(Append(v, "none"), "answer") => In(v, "answer")
  BY <1>1, InAppend
<1> QED BY <1>2, <1>3, CarriesNone DEF Follows

LEMMA FollowsTail ==
  ASSUME NEW v \in Seq(Word), v # <<>>, v[1] = "none"
  PROVE  Follows(v, Tail(v))
<1>1. Tail(v) \in Seq(Word)
  BY TailParts
<1>2. In(Tail(v), "answer") => In(v, "answer")
  BY InTail
<1> QED BY <1>1, <1>2, CarriesTail DEF Follows

LEMMA PrefixIs ==
  ASSUME NEW S, NEW g \in Seq(S), NEW h \in Seq(S)
  PROVE  IsPrefix(g, h) <=> Len(g) <= Len(h) /\ \A i \in 1..Len(g) : g[i] = h[i]
<1>1. CASE Len(g) <= Len(h)
  <2>1. /\ Len(g) \in Nat /\ Len(h) \in Nat
        /\ SubSeq(g, 1, Len(g)) = [i \in 1..Len(g) |-> g[i]]
        /\ SubSeq(h, 1, Len(g)) = [i \in 1..Len(g) |-> h[i]]
    OBVIOUS
  <2>2. ASSUME [i \in 1..Len(g) |-> g[i]] = [i \in 1..Len(g) |-> h[i]], NEW i \in 1..Len(g)
        PROVE  g[i] = h[i]
    <3>1. [j \in 1..Len(g) |-> g[j]][i] = [j \in 1..Len(g) |-> h[j]][i]
      BY <2>2
    <3> QED BY <3>1
  <2>3. ASSUME \A i \in 1..Len(g) : g[i] = h[i]
        PROVE  [i \in 1..Len(g) |-> g[i]] = [i \in 1..Len(g) |-> h[i]]
    BY <2>3
  <2> QED BY <1>1, <2>1, <2>2, <2>3 DEF IsPrefix
<1>2. CASE ~(Len(g) <= Len(h))
  BY <1>2 DEF IsPrefix
<1> QED BY <1>1, <1>2

LEMMA PrefixSaid ==
  ASSUME NEW S, NEW g \in Seq(S), NEW h \in Seq(S), NEW m \in S, IsPrefix(g, h)
  PROVE  IsPrefix(g, Append(h, m))
<1>1. /\ Append(h, m) \in Seq(S) /\ Len(h) \in Nat /\ Len(Append(h, m)) = Len(h) + 1
      /\ DOMAIN h = 1..Len(h) /\ \A i \in DOMAIN h : Append(h, m)[i] = h[i]
  BY AppendParts
<1>2. Len(g) \in Nat /\ Len(g) <= Len(h) /\ \A i \in 1..Len(g) : g[i] = h[i]
  BY PrefixIs
<1>3. \A i \in 1..Len(g) : i \in DOMAIN h
  BY <1>1, <1>2
<1>4. \A i \in 1..Len(g) : g[i] = Append(h, m)[i]
  BY <1>1, <1>2, <1>3
<1>5. Len(g) <= Len(Append(h, m))
  BY <1>1, <1>2
<1> QED BY <1>1, <1>4, <1>5, PrefixIs

LEMMA PrefixGot ==
  ASSUME NEW S, NEW g \in Seq(S), NEW h \in Seq(S), IsPrefix(g, h), Len(g) < Len(h)
  PROVE  IsPrefix(Append(g, h[Len(g) + 1]), h)
<1> DEFINE m == h[Len(g) + 1]
<1>1. Len(g) \in Nat /\ Len(h) \in Nat /\ Len(g) + 1 \in 1..Len(h) /\ m \in S
  OBVIOUS
<1>2. /\ Append(g, m) \in Seq(S) /\ Len(Append(g, m)) = Len(g) + 1
      /\ DOMAIN g = 1..Len(g) /\ DOMAIN Append(g, m) = 1..(Len(g) + 1)
      /\ Append(g, m)[Len(g) + 1] = m /\ \A i \in DOMAIN g : Append(g, m)[i] = g[i]
      /\ \A i \in DOMAIN Append(g, m) : i \in DOMAIN g \/ i = Len(g) + 1
  BY <1>1, AppendParts
<1>3. \A i \in 1..Len(g) : g[i] = h[i]
  BY PrefixIs
<1>4. \A i \in 1..(Len(g) + 1) : Append(g, m)[i] = h[i]
  BY <1>2, <1>3
<1>5. Len(Append(g, m)) <= Len(h)
  BY <1>1, <1>2
<1>6. \A i \in 1..Len(Append(g, m)) : Append(g, m)[i] = h[i]
  BY <1>2, <1>4
<1> HIDE DEF m
<1>7. IsPrefix(Append(g, m), h)
  BY <1>2, <1>5, <1>6, PrefixIs
<1> QED BY <1>7 DEF m

\* A stretch that is carried starts with the first message in the queue.
LEMMA CarriesHead ==
  ASSUME NEW v \in Seq(Word), NEW h \in Seq(Messages), NEW a \in 0..Len(h), NEW b \in 0..Len(h),
         Carries(v, h, a, b), v # <<>>, v[1] # "none"
  PROVE  /\ a + 1 \in 1..Len(h) /\ a + 1 \in 0..Len(h) /\ h # <<>>
         /\ v[1] = h[a + 1] /\ v[1] \in Messages /\ Carries(Tail(v), h, a + 1, b)
<1>1. Len(h) \in Nat /\ a \in Nat /\ b \in Nat /\ b <= Len(h)
  OBVIOUS
<1>2. a < b /\ v[1] = h[a + 1] /\ Carries(Tail(v), h, a + 1, b)
  BY <1>1, CarriesTail
<1>3. a + 1 \in 1..Len(h) /\ a + 1 \in 0..Len(h) /\ h # <<>>
  BY <1>1, <1>2
<1> QED BY <1>2, <1>3

\* ... and grows by the next one at its other end.
LEMMA CarriesNext ==
  ASSUME NEW v \in Seq(Word), NEW h \in Seq(Messages), NEW a \in 0..Len(h), NEW b \in 0..Len(h),
         Carries(v, h, a, b), b + 1 \in 0..Len(h)
  PROVE  Carries(Append(v, h[b + 1]), h, a, b + 1)
<1>1. Len(h) \in Nat /\ a \in Nat /\ b \in Nat /\ b < Len(h)
  OBVIOUS
<1> QED BY <1>1, CarriesAppend

LEMMA FollowsCarries ==
  ASSUME NEW v, NEW v2, Follows(v, v2), NEW h \in Seq(Messages),
         NEW a \in 0..Len(h), NEW b \in 0..Len(h), Carries(v, h, a, b)
  PROVE  Carries(v2, h, a, b) /\ v2 \in Seq(Word)
<1>1. a \in Nat /\ b \in Nat
  OBVIOUS
<1> QED BY <1>1 DEF Follows

\* Nothing is anywhere before anything is said.
LEMMA ChainMute ==
  ASSUME NEW h \in Seq(Messages), NEW g \in Seq(Messages), NEW left,
         NEW U \in Seq(Word), NEW R \in Seq(Word), NEW W \in Seq(Word),
         NEW T \in Seq(Word), NEW S \in Seq(Word), NEW c2, NEW c3, NEW c4,
         Chain(h, g, left, U, R, W, T, S, c2, c3, c4), h = <<>>
  PROVE  /\ g = <<>> /\ (U # <<>> => U[1] = "none") /\ (R # <<>> => R[1] = "none")
         /\ (W # <<>> => W[1] = "none") /\ (T # <<>> => T[1] = "none")
         /\ (S # <<>> => S[1] = "none")
<1>1. PICK a \in 0..Len(h), u \in 0..Len(h), r \in 0..Len(h), w \in 0..Len(h), x \in 0..Len(h) :
        /\ Len(g) <= a
        /\ Carries(U, h, a, u) /\ Carries(R, h, u, r) /\ Carries(W, h, r, w)
        /\ Carries(T, h, w, x) /\ Carries(S, h, x, Len(h))
  BY DEF Chain
<1>2. Len(h) \in 0..Len(h) /\ Len(h) = 0 /\ Len(g) \in Nat /\ a = 0
  OBVIOUS
<1>3. g = <<>>
  BY <1>1, <1>2
<1>4. U # <<>> => U[1] = "none"
  BY <1>1, CarriesHead
<1>5. R # <<>> => R[1] = "none"
  BY <1>1, CarriesHead
<1>6. W # <<>> => W[1] = "none"
  BY <1>1, CarriesHead
<1>7. T # <<>> => T[1] = "none"
  BY <1>1, CarriesHead
<1>8. S # <<>> => S[1] = "none"
  BY <1>1, <1>2, CarriesHead
<1> QED BY <1>3, <1>4, <1>5, <1>6, <1>7, <1>8

(* Steps that move no message, or cut the way behind the last one that     *)
(* matters.                                                                *)
LEMMA ChainMove ==
  ASSUME NEW h \in Seq(Messages), NEW g \in Seq(Messages), NEW left \in BOOLEAN, NEW left2 \in BOOLEAN,
         NEW U, NEW R, NEW W, NEW T, NEW S, NEW c2 \in BOOLEAN, NEW c3 \in BOOLEAN, NEW c4 \in BOOLEAN,
         NEW U2, NEW R2, NEW W2, NEW T2, NEW S2, NEW d2 \in BOOLEAN, NEW d3 \in BOOLEAN, NEW d4 \in BOOLEAN,
         Chain(h, g, left, U, R, W, T, S, c2, c3, c4), left => left2,
         Follows(U, U2), Follows(R, R2),
         h = <<>> \/ d2 => Follows(W, W2),
         h = <<>> \/ (d2 /\ d3) => Follows(T, T2),
         h = <<>> \/ (d2 /\ d3 /\ (d4 \/ In(S2, "answer"))) => Follows(S, S2),
         h # <<>> /\ d2 => c2,
         h # <<>> /\ d2 /\ d3 => c3,
         h # <<>> /\ d2 /\ d3 /\ d4 => c4
  PROVE  Chain(h, g, left2, U2, R2, W2, T2, S2, d2, d3, d4)
<1>1. PICK a \in 0..Len(h), u \in 0..Len(h), r \in 0..Len(h), w \in 0..Len(h), x \in 0..Len(h) :
        /\ Len(g) <= a /\ (left \/ a = Len(g))
        /\ Carries(U, h, a, u) /\ Carries(R, h, u, r)
        /\ h = <<>> \/ c2 => Carries(W, h, r, w)
        /\ h = <<>> \/ (c2 /\ c3) => Carries(T, h, w, x)
        /\ h = <<>> \/ (c2 /\ c3 /\ (c4 \/ In(S, "answer"))) => Carries(S, h, x, Len(h))
  BY DEF Chain
<1>2. Carries(U2, h, a, u) /\ Carries(R2, h, u, r)
  BY <1>1, FollowsCarries
<1>3. h = <<>> \/ d2 => Carries(W2, h, r, w)
  BY <1>1, FollowsCarries
<1>4. h = <<>> \/ (d2 /\ d3) => Carries(T2, h, w, x)
  BY <1>1, FollowsCarries
<1>5. Len(h) \in 0..Len(h)
  OBVIOUS
<1>6. h = <<>> \/ (d2 /\ d3 /\ (d4 \/ In(S2, "answer"))) => Carries(S2, h, x, Len(h))
  <2> SUFFICES ASSUME h = <<>> \/ (d2 /\ d3 /\ (d4 \/ In(S2, "answer")))
               PROVE Carries(S2, h, x, Len(h))
    OBVIOUS
  <2>1. Follows(S, S2)
    OBVIOUS
  <2>2. In(S2, "answer") => In(S, "answer")
    BY <2>1 DEF Follows
  <2>3. Carries(S, h, x, Len(h))
    BY <1>1, <2>2
  <2> QED BY <1>5, <2>1, <2>3, FollowsCarries
<1>7. IsPrefix(g, h) /\ Len(g) <= a /\ (left2 \/ a = Len(g))
  BY <1>1 DEF Chain
<1> QED BY <1>2, <1>3, <1>4, <1>6, <1>7 DEF Chain

-----------------------------------------------------------------------------
(* Lemmas about the tasks of an executor and the events of an activity.     *)

Carrying == {"send", "write", "receive"}

LEMMA TaskParts ==
  ASSUME NEW t \in Task
  PROVE  t.do \in Act /\ (t.do \in Carrying => t.msg \in Messages /\ t.msg \in Word /\ t.msg # "none")
BY NoneApart DEF Task, Act, Carrying, Word

LEMMA TaskMade ==
  /\ \A what \in Act \ Carrying : Do(what) \in Task /\ Do(what).do = what
  /\ \A what \in Carrying, m \in Messages :
       With(what, m) \in Task /\ With(what, m).do = what /\ With(what, m).msg = m
BY DEF Do, With, Task, Act, Carrying

LEMMA DosTasks ==
  ASSUME NEW q \in Seq(Task)
  PROVE  /\ Dos(q) \in Seq(Act) /\ DOMAIN Dos(q) = DOMAIN q /\ (q # <<>> => Dos(q) # <<>>)
         /\ \A t \in Task : Dos(Append(q, t)) = Append(Dos(q), t.do)
         /\ q # <<>> => Dos(Tail(q)) = Tail(Dos(q)) /\ Dos(q)[1] = Head(q).do
<1>1. Len(q) \in Nat /\ DOMAIN q = 1..Len(q) /\ \A i \in DOMAIN q : q[i] \in Task
  OBVIOUS
<1>2. /\ Dos(q) \in Seq(Act) /\ DOMAIN Dos(q) = DOMAIN q /\ Len(Dos(q)) = Len(q)
      /\ \A i \in DOMAIN q : Dos(q)[i] = q[i].do
  BY <1>1, TaskParts DEF Dos
<1>3. ASSUME NEW t \in Task PROVE Dos(Append(q, t)) = Append(Dos(q), t.do)
  <2>1. /\ DOMAIN Append(q, t) = 1..(Len(q) + 1) /\ Append(q, t)[Len(q) + 1] = t
        /\ \A i \in DOMAIN q : Append(q, t)[i] = q[i]
        /\ \A i \in DOMAIN Append(q, t) : i \in DOMAIN q \/ i = Len(q) + 1
    BY AppendParts
  <2>2. t.do \in Act
    BY TaskParts
  <2>3. /\ Append(Dos(q), t.do) \in Seq(Act)
        /\ DOMAIN Append(Dos(q), t.do) = 1..(Len(q) + 1) /\ Append(Dos(q), t.do)[Len(q) + 1] = t.do
        /\ \A i \in DOMAIN q : Append(Dos(q), t.do)[i] = Dos(q)[i]
    BY <1>2, <2>2, AppendParts
  <2>4. Append(Dos(q), t.do) = [i \in 1..(Len(q) + 1) |-> Append(Dos(q), t.do)[i]]
    BY <2>3
  <2>5. \A i \in 1..(Len(q) + 1) : Append(Dos(q), t.do)[i] = Append(q, t)[i].do
    BY <1>2, <2>1, <2>3
  <2> QED BY <2>1, <2>4, <2>5 DEF Dos
<1>4. ASSUME q # <<>> PROVE Dos(Tail(q)) = Tail(Dos(q)) /\ Dos(q)[1] = Head(q).do /\ Dos(q) # <<>>
  <2>1. /\ DOMAIN Tail(q) = 1..(Len(q) - 1) /\ Head(q) = q[1] /\ 1 \in DOMAIN q /\ Len(q) > 0
        /\ \A i \in DOMAIN Tail(q) : Tail(q)[i] = q[i + 1] /\ i + 1 \in DOMAIN q
    BY <1>4, TailParts
  <2>2. Dos(q) # <<>>
    BY <1>1, <1>2, <2>1
  <2> DEFINE v == Tail(Dos(q))
  <2>3. /\ v \in Seq(Act) /\ DOMAIN v = 1..(Len(q) - 1)
        /\ \A i \in DOMAIN v : v[i] = Dos(q)[i + 1]
    BY <1>2, <2>2, TailParts
  <2> HIDE DEF v
  <2>4. v = [i \in 1..(Len(q) - 1) |-> v[i]]
    BY <2>3
  <2>5. \A i \in 1..(Len(q) - 1) : v[i] = Tail(q)[i].do
    BY <1>2, <2>1, <2>3
  <2>6. Dos(Tail(q)) = v
    BY <2>1, <2>4, <2>5 DEF Dos
  <2> QED BY <1>2, <2>1, <2>2, <2>6 DEF v
<1> QED BY <1>2, <1>3, <1>4

Seen(t, k) == IF t.do = k THEN t.msg ELSE "none"

LEMMA ViewTasks ==
  ASSUME NEW q \in Seq(Task), NEW k \in Carrying
  PROVE  /\ View(q, k) \in Seq(Word) /\ (q # <<>> => View(q, k) # <<>>)
         /\ \A t \in Task : View(Append(q, t), k) = Append(View(q, k), Seen(t, k))
         /\ q # <<>> => View(Tail(q), k) = Tail(View(q, k)) /\ View(q, k)[1] = Seen(Head(q), k)
<1>1. Len(q) \in Nat /\ DOMAIN q = 1..Len(q) /\ \A i \in DOMAIN q : q[i] \in Task
  OBVIOUS
<1>2. \A t \in Task : Seen(t, k) \in Word
  BY TaskParts DEF Seen, Word
<1>3. /\ View(q, k) \in Seq(Word) /\ DOMAIN View(q, k) = DOMAIN q /\ Len(View(q, k)) = Len(q)
      /\ \A i \in DOMAIN q : View(q, k)[i] = Seen(q[i], k)
  BY <1>1, <1>2 DEF View, Seen
<1>4. ASSUME NEW t \in Task PROVE View(Append(q, t), k) = Append(View(q, k), Seen(t, k))
  <2>1. /\ DOMAIN Append(q, t) = 1..(Len(q) + 1) /\ Append(q, t)[Len(q) + 1] = t
        /\ \A i \in DOMAIN q : Append(q, t)[i] = q[i]
        /\ \A i \in DOMAIN Append(q, t) : i \in DOMAIN q \/ i = Len(q) + 1
    BY AppendParts
  <2> DEFINE v == Append(View(q, k), Seen(t, k))
  <2>2. /\ v \in Seq(Word) /\ DOMAIN v = 1..(Len(q) + 1) /\ v[Len(q) + 1] = Seen(t, k)
        /\ \A i \in DOMAIN q : v[i] = View(q, k)[i]
    BY <1>2, <1>3, AppendParts
  <2> HIDE DEF v
  <2>3. v = [i \in 1..(Len(q) + 1) |-> v[i]]
    BY <2>2
  <2>4. \A i \in 1..(Len(q) + 1) : v[i] = Seen(Append(q, t)[i], k)
    BY <1>3, <2>1, <2>2
  <2>5. View(Append(q, t), k) = v
    BY <2>1, <2>3, <2>4 DEF View, Seen
  <2> QED BY <2>5 DEF v
<1>5. ASSUME q # <<>>
      PROVE  View(Tail(q), k) = Tail(View(q, k)) /\ View(q, k)[1] = Seen(Head(q), k) /\ View(q, k) # <<>>
  <2>1. /\ DOMAIN Tail(q) = 1..(Len(q) - 1) /\ Head(q) = q[1] /\ 1 \in DOMAIN q /\ Len(q) > 0
        /\ \A i \in DOMAIN Tail(q) : Tail(q)[i] = q[i + 1] /\ i + 1 \in DOMAIN q
    BY <1>5, TailParts
  <2>2. View(q, k) # <<>>
    BY <1>1, <1>3, <2>1
  <2> DEFINE v == Tail(View(q, k))
  <2>3. /\ v \in Seq(Word) /\ DOMAIN v = 1..(Len(q) - 1)
        /\ \A i \in DOMAIN v : v[i] = View(q, k)[i + 1]
    BY <1>3, <2>2, TailParts
  <2> HIDE DEF v
  <2>4. v = [i \in 1..(Len(q) - 1) |-> v[i]]
    BY <2>3
  <2>5. \A i \in 1..(Len(q) - 1) : v[i] = Seen(Tail(q)[i], k)
    BY <1>3, <2>1, <2>3
  <2>6. View(Tail(q), k) = v
    BY <2>1, <2>4, <2>5 DEF View, Seen
  <2> QED BY <1>3, <2>1, <2>2, <2>6 DEF v
<1> QED BY <1>3, <1>4, <1>5

Heard(e) == IF e \in Messages THEN e ELSE "none"

LEMMA SpokenEvents ==
  ASSUME NEW q \in Seq(Events)
  PROVE  /\ Spoken(q) \in Seq(Word) /\ (q # <<>> => Spoken(q) # <<>>)
         /\ \A e \in Events : Spoken(Append(q, e)) = Append(Spoken(q), Heard(e))
         /\ q # <<>> => Spoken(Tail(q)) = Tail(Spoken(q)) /\ Spoken(q)[1] = Heard(Head(q))
<1>1. Len(q) \in Nat /\ DOMAIN q = 1..Len(q) /\ \A i \in DOMAIN q : q[i] \in Events
  OBVIOUS
<1>2. \A e : Heard(e) \in Word
  BY DEF Heard, Word
<1>3. /\ Spoken(q) \in Seq(Word) /\ DOMAIN Spoken(q) = DOMAIN q /\ Len(Spoken(q)) = Len(q)
      /\ \A i \in DOMAIN q : Spoken(q)[i] = Heard(q[i])
  BY <1>1, <1>2 DEF Spoken, Heard
<1>4. ASSUME NEW e \in Events PROVE Spoken(Append(q, e)) = Append(Spoken(q), Heard(e))
  <2>1. /\ DOMAIN Append(q, e) = 1..(Len(q) + 1) /\ Append(q, e)[Len(q) + 1] = e
        /\ \A i \in DOMAIN q : Append(q, e)[i] = q[i]
        /\ \A i \in DOMAIN Append(q, e) : i \in DOMAIN q \/ i = Len(q) + 1
    BY AppendParts
  <2> DEFINE v == Append(Spoken(q), Heard(e))
  <2>2. /\ v \in Seq(Word) /\ DOMAIN v = 1..(Len(q) + 1) /\ v[Len(q) + 1] = Heard(e)
        /\ \A i \in DOMAIN q : v[i] = Spoken(q)[i]
    BY <1>2, <1>3, AppendParts
  <2> HIDE DEF v
  <2>3. v = [i \in 1..(Len(q) + 1) |-> v[i]]
    BY <2>2
  <2>4. \A i \in 1..(Len(q) + 1) : v[i] = Heard(Append(q, e)[i])
    BY <1>3, <2>1, <2>2
  <2>5. Spoken(Append(q, e)) = v
    BY <2>1, <2>3, <2>4 DEF Spoken, Heard
  <2> QED BY <2>5 DEF v
<1>5. ASSUME q # <<>>
      PROVE  Spoken(Tail(q)) = Tail(Spoken(q)) /\ Spoken(q)[1] = Heard(Head(q)) /\ Spoken(q) # <<>>
  <2>1. /\ DOMAIN Tail(q) = 1..(Len(q) - 1) /\ Head(q) = q[1] /\ 1 \in DOMAIN q /\ Len(q) > 0
        /\ \A i \in DOMAIN Tail(q) : Tail(q)[i] = q[i + 1] /\ i + 1 \in DOMAIN q
    BY <1>5, TailParts
  <2>2. Spoken(q) # <<>>
    BY <1>1, <1>3, <2>1
  <2> DEFINE v == Tail(Spoken(q))
  <2>3. /\ v \in Seq(Word) /\ DOMAIN v = 1..(Len(q) - 1)
        /\ \A i \in DOMAIN v : v[i] = Spoken(q)[i + 1]
    BY <1>3, <2>2, TailParts
  <2> HIDE DEF v
  <2>4. v = [i \in 1..(Len(q) - 1) |-> v[i]]
    BY <2>3
  <2>5. \A i \in 1..(Len(q) - 1) : v[i] = Heard(Tail(q)[i])
    BY <1>3, <2>1, <2>3
  <2>6. Spoken(Tail(q)) = v
    BY <2>1, <2>4, <2>5 DEF Spoken, Heard
  <2> QED BY <1>3, <2>1, <2>2, <2>6 DEF v
<1> QED BY <1>3, <1>4, <1>5

\* A task is posted.
LEMMA PostTask ==
  ASSUME NEW q \in Seq(Task), NEW t \in Task
  PROVE  /\ Append(q, t) \in Seq(Task) /\ Append(q, t) # <<>>
         /\ \A x : In(Dos(Append(q, t)), x) <=> (In(Dos(q), x) \/ x = t.do)
         /\ \A x : One(Dos(q), x) /\ (x = t.do => ~In(Dos(q), x)) => One(Dos(Append(q, t)), x)
         /\ \A a, B : Before(Dos(q), a, B) /\ (t.do \in B => In(Dos(q), a)) => Before(Dos(Append(q, t)), a, B)
         /\ \A x : In(Dos(q), x) => Dos(Append(q, t))[1] = Dos(q)[1]
         /\ \A k \in Carrying : /\ View(q, k) \in Seq(Word)
                                /\ k # t.do => Follows(View(q, k), View(Append(q, t), k))
                                /\ k = t.do => View(Append(q, t), k) = Append(View(q, k), t.msg)
<1>1. Append(q, t) \in Seq(Task) /\ Append(q, t) # <<>>
  BY AppendParts
<1>2. Dos(q) \in Seq(Act) /\ t.do \in Act /\ Dos(Append(q, t)) = Append(Dos(q), t.do)
  BY DosTasks, TaskParts
<1>3. ASSUME NEW k \in Carrying
      PROVE  /\ View(q, k) \in Seq(Word)
             /\ k # t.do => Follows(View(q, k), View(Append(q, t), k))
             /\ k = t.do => View(Append(q, t), k) = Append(View(q, k), t.msg)
  <2>1. View(q, k) \in Seq(Word) /\ View(Append(q, t), k) = Append(View(q, k), Seen(t, k))
    BY ViewTasks
  <2> QED BY <2>1, FollowsNone DEF Seen
<1> QED BY <1>1, <1>2, <1>3, InAppend

\* A task is taken.
LEMMA TakeTask ==
  ASSUME NEW q \in Seq(Task), q # <<>>
  PROVE  /\ Tail(q) \in Seq(Task) /\ Head(q) \in Task
         /\ \A x : In(Dos(q), x) <=> (Head(q).do = x \/ In(Dos(Tail(q)), x))
         /\ \A x : One(Dos(q), x) => One(Dos(Tail(q)), x) /\ (Head(q).do = x => ~In(Dos(Tail(q)), x))
         /\ \A a, B : Before(Dos(q), a, B) => Head(q).do \notin B
         /\ \A a, B : Before(Dos(q), a, B) /\ Head(q).do # a => Before(Dos(Tail(q)), a, B)
         /\ Dos(q)[1] = Head(q).do
         /\ \A k \in Carrying : /\ View(q, k) \in Seq(Word) /\ View(q, k) # <<>>
                                /\ View(Tail(q), k) \in Seq(Word)
                                /\ View(Tail(q), k) = Tail(View(q, k))
                                /\ k # Head(q).do => Follows(View(q, k), View(Tail(q), k))
                                /\ k = Head(q).do => View(q, k)[1] = Head(q).msg /\ View(q, k)[1] # "none"
                                                     /\ Head(q).msg \in Messages
<1>1. Tail(q) \in Seq(Task) /\ Head(q) \in Task
  BY TailParts
<1>2. /\ Dos(q) \in Seq(Act) /\ Dos(q) # <<>> /\ Dos(Tail(q)) = Tail(Dos(q)) /\ Dos(q)[1] = Head(q).do
  BY DosTasks
<1>3. ASSUME NEW k \in Carrying
      PROVE  /\ View(q, k) \in Seq(Word) /\ View(q, k) # <<>>
             /\ View(Tail(q), k) \in Seq(Word)
             /\ View(Tail(q), k) = Tail(View(q, k))
             /\ k # Head(q).do => Follows(View(q, k), View(Tail(q), k))
             /\ k = Head(q).do => View(q, k)[1] = Head(q).msg /\ View(q, k)[1] # "none"
                                  /\ Head(q).msg \in Messages
  <2>1. /\ View(q, k) \in Seq(Word) /\ View(q, k) # <<>>
        /\ View(Tail(q), k) = Tail(View(q, k)) /\ View(q, k)[1] = Seen(Head(q), k)
    BY ViewTasks
  <2>2. View(Tail(q), k) \in Seq(Word)
    BY <1>1, ViewTasks
  <2>3. k # Head(q).do => Follows(View(q, k), View(Tail(q), k))
    BY <2>1, FollowsTail DEF Seen
  <2>4. k = Head(q).do => View(q, k)[1] = Head(q).msg /\ View(q, k)[1] # "none"
                          /\ Head(q).msg \in Messages
    BY <1>1, <2>1, TaskParts DEF Seen
  <2> QED BY <2>1, <2>2, <2>3, <2>4
<1>4. /\ \A x : In(Dos(q), x) <=> (Head(q).do = x \/ In(Dos(Tail(q)), x))
      /\ \A x : One(Dos(q), x) => One(Dos(Tail(q)), x) /\ (Head(q).do = x => ~In(Dos(Tail(q)), x))
      /\ \A a, B : Before(Dos(q), a, B) => Head(q).do \notin B
      /\ \A a, B : Before(Dos(q), a, B) /\ Head(q).do # a => Before(Dos(Tail(q)), a, B)
  <2> DEFINE v == Dos(q)
  <2>1. v \in Seq(Act) /\ v # <<>> /\ Dos(Tail(q)) = Tail(v) /\ v[1] = Head(q).do
    BY <1>2
  <2> HIDE DEF v
  <2>2. /\ \A x : In(v, x) <=> (v[1] = x \/ In(Tail(v), x))
        /\ \A x : One(v, x) => One(Tail(v), x) /\ (v[1] = x => ~In(Tail(v), x))
        /\ \A a, B : Before(v, a, B) => v[1] \notin B
        /\ \A a, B : Before(v, a, B) /\ v[1] # a => Before(Tail(v), a, B)
    BY <2>1, InTail
  <2>3. /\ \A x : In(v, x) <=> (Head(q).do = x \/ In(Dos(Tail(q)), x))
        /\ \A x : One(v, x) => One(Dos(Tail(q)), x) /\ (Head(q).do = x => ~In(Dos(Tail(q)), x))
        /\ \A a, B : Before(v, a, B) => Head(q).do \notin B
        /\ \A a, B : Before(v, a, B) /\ Head(q).do # a => Before(Dos(Tail(q)), a, B)
    BY <2>1, <2>2
  <2> QED BY <2>3 DEF v
<1> QED BY <1>1, <1>2, <1>3, <1>4

\* An event is posted to the activity.
LEMMA PostEvent ==
  ASSUME NEW q \in Seq(Events), NEW e \in Events
  PROVE  /\ Append(q, e) \in Seq(Events) /\ Spoken(q) \in Seq(Word)
         /\ \A x : In(Append(q, e), x) <=> (In(q, x) \/ x = e)
         /\ \A x : One(q, x) /\ (x = e => ~In(q, x)) => One(Append(q, e), x)
         /\ \A a, B : Before(q, a, B) /\ (e \in B => In(q, a)) => Before(Append(q, e), a, B)
         /\ \A i \in DOMAIN Append(q, e) : Append(q, e)[i] = e \/ \E j \in DOMAIN q : Append(q, e)[i] = q[j]
         /\ e \notin Messages => Follows(Spoken(q), Spoken(Append(q, e)))
         /\ e \in Messages => Spoken(Append(q, e)) = Append(Spoken(q), e)
<1>1. /\ Append(q, e) \in Seq(Events)
      /\ \A i \in DOMAIN Append(q, e) : Append(q, e)[i] = e \/ \E j \in DOMAIN q : Append(q, e)[i] = q[j]
  BY AppendParts
<1>2. Spoken(q) \in Seq(Word) /\ Spoken(Append(q, e)) = Append(Spoken(q), Heard(e))
  BY SpokenEvents
<1>3. e \notin Messages => Follows(Spoken(q), Spoken(Append(q, e)))
  BY <1>2, FollowsNone DEF Heard
<1>4. e \in Messages => Spoken(Append(q, e)) = Append(Spoken(q), e)
  BY <1>2 DEF Heard
<1> QED BY <1>1, <1>2, <1>3, <1>4, InAppend

\* The activity takes an event.
LEMMA TakeEvent ==
  ASSUME NEW q \in Seq(Events), q # <<>>
  PROVE  /\ Tail(q) \in Seq(Events) /\ Head(q) \in Events /\ Spoken(q) \in Seq(Word)
         /\ \A x : In(q, x) <=> (Head(q) = x \/ In(Tail(q), x))
         /\ \A x : One(q, x) => One(Tail(q), x) /\ (Head(q) = x => ~In(Tail(q), x))
         /\ \A a, B : Before(q, a, B) => Head(q) \notin B
         /\ \A a, B : Before(q, a, B) /\ Head(q) # a => Before(Tail(q), a, B)
         /\ \A i \in DOMAIN Tail(q) : \E j \in DOMAIN q : Tail(q)[i] = q[j]
         /\ \E j \in DOMAIN q : Head(q) = q[j]
         /\ Spoken(Tail(q)) = Tail(Spoken(q)) /\ Spoken(q) # <<>>
         /\ Head(q) \notin Messages => Follows(Spoken(q), Spoken(Tail(q)))
         /\ Head(q) \in Messages => Spoken(q)[1] = Head(q) /\ Spoken(q)[1] # "none"
<1>1. /\ Tail(q) \in Seq(Events) /\ Head(q) \in Events /\ Head(q) = q[1] /\ 1 \in DOMAIN q
      /\ \A i \in DOMAIN Tail(q) : \E j \in DOMAIN q : Tail(q)[i] = q[j]
      /\ \E j \in DOMAIN q : Head(q) = q[j]
  BY TailParts
<1>2. /\ Spoken(q) \in Seq(Word) /\ Spoken(q) # <<>>
      /\ Spoken(Tail(q)) = Tail(Spoken(q)) /\ Spoken(q)[1] = Heard(Head(q))
  BY SpokenEvents
<1>3. Head(q) \notin Messages => Follows(Spoken(q), Spoken(Tail(q)))
  BY <1>2, FollowsTail DEF Heard
<1>4. Head(q) \in Messages => Spoken(q)[1] = Head(q) /\ Spoken(q)[1] # "none"
  BY <1>2, NoneApart DEF Heard
<1> QED BY <1>1, <1>2, <1>3, <1>4, InTail

-----------------------------------------------------------------------------
(* Lemmas about a step of one phone.                                        *)

Local(o) == Started(o) /\ Lived(o) /\ Made(o) /\ Excused(o)
Lines == Line("server", "client") /\ Line("client", "server")

LEMMA InvParts == Inv <=> Types /\ (\A o \in Peers : Local(o)) /\ Lines
BY DEF Inv, Local, Lines

\* Nothing of phone o has changed that its own invariant speaks of.
Still(o) ==
  /\ call'[o] = call[o] /\ pc'[o] = pc[o] /\ ui'[o] = ui[o] /\ tasks'[o] = tasks[o]
  /\ shut'[o] = shut[o] /\ room'[o] = room[o] /\ client'[o] = client[o]
  /\ thread'[o] = thread[o] /\ raw'[o] = raw[o] /\ said'[o] = said[o] /\ got'[o] = got[o]
  /\ o \in faults' <=> o \in faults
  /\ o \in alert' <=> o \in alert
  /\ broken => broken'
  /\ o = "server" => (listening => listening')

LEMMA Elsewhere ==
  ASSUME NEW o \in Peers, Local(o), Still(o)
  PROVE  Local(o)'
<1>1. Started(o)'
  BY DEF Local, Still, Started
<1>2. Lived(o)'
  BY DEF Local, Still, Lived
<1>3. Made(o)'
  BY DEF Local, Still, Made
<1>4. Excused(o)'
  BY DEF Local, Still, Excused
<1> QED BY <1>1, <1>2, <1>3, <1>4 DEF Local

LEMMA LinesOf ==
  ASSUME NEW p \in Peers
  PROVE  /\ Lines <=> Line(p, Other(p)) /\ Line(Other(p), p)
         /\ Lines' <=> Line(p, Other(p))' /\ Line(Other(p), p)'
BY OtherPeer DEF Lines, Line, Peers

\* The parts of the lines and their types.
LEMMA LineTypes ==
  ASSUME Types, NEW o \in Peers
  PROVE  /\ tasks[o] \in Seq(Task) /\ ui[o] \in Seq(Events)
         /\ said[o] \in Seq(Messages) /\ got[o] \in Seq(Messages)
         /\ wire[o] \in Seq(Messages) /\ wire[o] \in Seq(Word) /\ Follows(wire[o], wire[o])
         /\ Spoken(ui[o]) \in Seq(Word) /\ Follows(Spoken(ui[o]), Spoken(ui[o]))
         /\ \A k \in Carrying : View(tasks[o], k) \in Seq(Word)
                                /\ Follows(View(tasks[o], k), View(tasks[o], k))
<1>1. /\ tasks[o] \in Seq(Task) /\ ui[o] \in Seq(Events)
      /\ said[o] \in Seq(Messages) /\ got[o] \in Seq(Messages) /\ wire[o] \in Seq(Messages)
  BY DEF Types, TypeOK
<1>2. wire[o] \in Seq(Word)
  BY <1>1 DEF Word
<1>3. Spoken(ui[o]) \in Seq(Word)
  BY <1>1, SpokenEvents
<1>4. \A k \in Carrying : View(tasks[o], k) \in Seq(Word)
  BY <1>1, ViewTasks
<1> QED BY <1>1, <1>2, <1>3, <1>4, FollowsSame

\* What o can still say or hear: a line is not opened again once something
\* was said.
Cut(o, p) ==
  said[o] # <<>> =>
    /\ thread[p] \in {"closing", "dead"} => thread'[p] \in {"closing", "dead"}
    /\ client'[o] /\ raw'[o] /\ end'[p] => client[o] /\ raw[o] /\ end[p]
    /\ room'[o] = "CONNECTED" => room[o] = "CONNECTED"

\* Nothing moves on the way from o to p.
LEMMA LineStill ==
  ASSUME Types, NEW o \in Peers, NEW p \in Peers, Line(o, p), Cut(o, p),
         said'[o] = said[o], got'[p] = got[p], wire'[p] = wire[p],
         call[p] = "left" => call'[p] = "left",
         Follows(Spoken(ui[p]), Spoken(ui'[p])),
         Follows(View(tasks[p], "receive"), View(tasks'[p], "receive")),
         Follows(View(tasks[o], "write"), View(tasks'[o], "write")),
         Follows(View(tasks[o], "send"), View(tasks'[o], "send"))
  PROVE  Line(o, p)'
<1>1. /\ said[o] \in Seq(Messages) /\ got[p] \in Seq(Messages) /\ Follows(wire[p], wire[p])
  BY LineTypes
<1>2. Chain(said[o], got[p], call[p] = "left", Spoken(ui[p]), View(tasks[p], "receive"),
            wire[p], View(tasks[o], "write"), View(tasks[o], "send"),
            thread[p] \notin {"closing", "dead"}, client[o] /\ raw[o] /\ end[p],
            room[o] = "CONNECTED")
  BY DEF Line
<1> DEFINE h == said[o]
           g == got[p]
           left == (call[p] = "left")
           left2 == (call'[p] = "left")
           U == Spoken(ui[p])
           U2 == Spoken(ui'[p])
           R == View(tasks[p], "receive")
           R2 == View(tasks'[p], "receive")
           W == wire[p]
           T == View(tasks[o], "write")
           T2 == View(tasks'[o], "write")
           S == View(tasks[o], "send")
           S2 == View(tasks'[o], "send")
           c2 == thread[p] \notin {"closing", "dead"}
           d2 == thread'[p] \notin {"closing", "dead"}
           c3 == client[o] /\ raw[o] /\ end[p]
           d3 == client'[o] /\ raw'[o] /\ end'[p]
           c4 == room[o] = "CONNECTED"
           d4 == room'[o] = "CONNECTED"
<1>3. /\ left \in BOOLEAN /\ left2 \in BOOLEAN /\ c2 \in BOOLEAN /\ d2 \in BOOLEAN
      /\ c3 \in BOOLEAN /\ d3 \in BOOLEAN /\ c4 \in BOOLEAN /\ d4 \in BOOLEAN
  OBVIOUS
<1>4. /\ left => left2
      /\ h # <<>> /\ d2 => c2
      /\ h # <<>> /\ d3 => c3
      /\ h # <<>> /\ d4 => c4
  BY DEF Cut
<1>5. Chain(h, g, left, U, R, W, T, S, c2, c3, c4)
  BY <1>2
<1>6. h \in Seq(Messages) /\ g \in Seq(Messages) /\ Follows(W, W)
  BY <1>1
<1>7. Follows(U, U2) /\ Follows(R, R2) /\ Follows(T, T2) /\ Follows(S, S2)
  OBVIOUS
<1>8. In(S2, "answer") => In(S, "answer")
  BY DEF Follows
<1>9. ASSUME Chain(h, g, left2, U2, R2, W, T2, S2, d2, d3, d4) PROVE Line(o, p)'
  BY <1>9 DEF Line
<1> HIDE DEF h, g, left, left2, U, U2, R, R2, W, T, T2, S, S2, c2, d2, c3, d3, c4, d4
<1>10. Chain(h, g, left2, U2, R2, W, T2, S2, d2, d3, d4)
  BY <1>3, <1>4, <1>5, <1>6, <1>7, <1>8, ChainMove
<1> QED BY <1>9, <1>10

(* A step of p that posts, takes or drops only tasks and events that carry *)
(* no message.                                                             *)
LEMMA LinesStill ==
  ASSUME Types, Lines, NEW p \in Peers, Cut(p, Other(p)), Cut(Other(p), p),
         UNCHANGED <<said, got, wire>>,
         \A o \in Peers : call[o] = "left" => call'[o] = "left",
         Follows(Spoken(ui[p]), Spoken(ui'[p])), ui'[Other(p)] = ui[Other(p)],
         \A k \in Carrying : Follows(View(tasks[p], k), View(tasks'[p], k)),
         tasks'[Other(p)] = tasks[Other(p)]
  PROVE  Lines'
<1>1. Other(p) \in Peers
  BY OtherPeer
<1>2. /\ Follows(Spoken(ui[Other(p)]), Spoken(ui'[Other(p)]))
      /\ \A k \in Carrying : Follows(View(tasks[Other(p)], k), View(tasks'[Other(p)], k))
  BY <1>1, LineTypes
<1>3. Line(p, Other(p)) /\ Line(Other(p), p)
  BY LinesOf
<1>4. Line(p, Other(p))'
  BY <1>1, <1>2, <1>3, LineStill DEF Carrying
<1>5. Line(Other(p), p)'
  BY <1>1, <1>2, <1>3, LineStill DEF Carrying
<1> QED BY <1>4, <1>5, LinesOf

LEMMA Executed ==
  ASSUME Types, NEW p \in Peers, NEW t \in Task, Execute(p, t)
  PROVE  /\ tasks' \in [Peers -> Seq(Task)] /\ faults' \subseteq Peers
         /\ tasks'[Other(p)] = tasks[Other(p)]
         /\ Other(p) \in faults' <=> Other(p) \in faults
         /\ shut[p] => tasks'[p] = tasks[p]
         /\ ~shut[p] => tasks'[p] = Append(tasks[p], t) /\ (p \in faults' <=> p \in faults)
<1>1. /\ Other(p) \in Peers /\ Other(p) # p /\ tasks \in [Peers -> Seq(Task)] /\ faults \subseteq Peers
      /\ tasks[p] \in Seq(Task)
  BY OtherPeer DEF Types, TypeOK
<1>2. Append(tasks[p], t) \in Seq(Task)
  BY <1>1, AppendParts
<1>3. CASE shut[p]
  BY <1>1, <1>3 DEF Execute
<1>4. CASE ~shut[p]
  BY <1>1, <1>2, <1>4 DEF Execute
<1> QED BY <1>3, <1>4

LEMMA FinishNone ==
  ASSUME Types, NEW p \in Peers, tasks[p] # <<>>, Finish(p, <<>>)
  PROVE  /\ tasks' \in [Peers -> Seq(Task)] /\ faults' = faults
         /\ tasks'[Other(p)] = tasks[Other(p)] /\ tasks'[p] = Tail(tasks[p])
<1>1. /\ Other(p) \in Peers /\ Other(p) # p /\ tasks \in [Peers -> Seq(Task)] /\ tasks[p] \in Seq(Task)
  BY OtherPeer DEF Types, TypeOK
<1>2. Tail(tasks[p]) \in Seq(Task)
  BY <1>1, TailParts
<1>3. Tail(tasks[p]) \o <<>> = Tail(tasks[p])
  BY <1>2
<1> QED BY <1>1, <1>2, <1>3 DEF Finish

LEMMA FinishOne ==
  ASSUME Types, NEW p \in Peers, NEW t \in Task, tasks[p] # <<>>, Finish(p, <<t>>)
  PROVE  /\ tasks' \in [Peers -> Seq(Task)] /\ faults' \subseteq Peers
         /\ tasks'[Other(p)] = tasks[Other(p)]
         /\ Other(p) \in faults' <=> Other(p) \in faults
         /\ shut[p] => tasks'[p] = Tail(tasks[p])
         /\ ~shut[p] => tasks'[p] = Append(Tail(tasks[p]), t) /\ (p \in faults' <=> p \in faults)
<1>1. /\ Other(p) \in Peers /\ Other(p) # p /\ tasks \in [Peers -> Seq(Task)] /\ tasks[p] \in Seq(Task)
      /\ faults \subseteq Peers
  BY OtherPeer DEF Types, TypeOK
<1>2. Tail(tasks[p]) \in Seq(Task)
  BY <1>1, TailParts
<1>3. Tail(tasks[p]) \o <<t>> = Append(Tail(tasks[p]), t) /\ Append(Tail(tasks[p]), t) \in Seq(Task)
  BY <1>2
<1>4. <<t>> # <<>>
  OBVIOUS
<1>5. CASE shut[p]
  <2>1. tasks' = [tasks EXCEPT ![p] = Tail(tasks[p])] /\ faults' = faults \cup {p}
    BY <1>4, <1>5 DEF Finish
  <2> QED BY <1>1, <1>2, <1>5, <2>1
<1>6. CASE ~shut[p]
  <2>1. tasks' = [tasks EXCEPT ![p] = Tail(tasks[p]) \o <<t>>] /\ faults' = faults
    BY <1>6 DEF Finish
  <2>2. tasks' = [tasks EXCEPT ![p] = Append(Tail(tasks[p]), t)]
    BY <1>3, <2>1
  <2> QED BY <1>1, <1>3, <1>6, <2>1, <2>2
<1> QED BY <1>5, <1>6

LEMMA SaidOne ==
  ASSUME NEW h \in Seq(Messages), NEW m \in Messages, NEW h2, h2 = Append(h, m)
  PROVE  /\ h2 \in Seq(Messages) /\ h2 # <<>> /\ Len(h) \in Nat /\ Len(h2) = Len(h) + 1
         /\ h2[Len(h) + 1] = m
BY AppendParts

\* o says m.
LEMMA LineSay ==
  ASSUME Types, NEW o \in Peers, NEW p \in Peers, Line(o, p), NEW m \in Messages,
         m = "answer" => said[o] = <<>>,
         said'[o] = Append(said[o], m),
         View(tasks'[o], "send") = Append(View(tasks[o], "send"), m),
         Follows(View(tasks[o], "write"), View(tasks'[o], "write")),
         got'[p] = got[p],
         call'[p] = call[p],
         ui'[p] = ui[p],
         tasks'[p] = tasks[p],
         wire'[p] = wire[p],
         thread'[p] = thread[p],
         client'[o] = client[o], raw'[o] = raw[o], end'[p] = end[p],
         room'[o] = room[o]
  PROVE  Line(o, p)'
<1> DEFINE h == said[o]
           g == got[p]
           left == (call[p] = "left")
           U == Spoken(ui[p])
           R == View(tasks[p], "receive")
           W == wire[p]
           T == View(tasks[o], "write")
           S == View(tasks[o], "send")
           c2 == thread[p] \notin {"closing", "dead"}
           c3 == client[o] /\ raw[o] /\ end[p]
           c4 == room[o] = "CONNECTED"
           h2 == said'[o]
           T2 == View(tasks'[o], "write")
           S2 == View(tasks'[o], "send")
<1>h1. /\ left \in BOOLEAN /\ c2 \in BOOLEAN /\ c3 \in BOOLEAN /\ c4 \in BOOLEAN
  OBVIOUS
<1>h2. /\ h \in Seq(Messages) /\ g \in Seq(Messages) /\ U \in Seq(Word) /\ R \in Seq(Word)
      /\ W \in Seq(Word) /\ T \in Seq(Word) /\ S \in Seq(Word)
  BY LineTypes DEF Carrying
<1>h3. Chain(h, g, left, U, R, W, T, S, c2, c3, c4)
  BY DEF Line
<1>h4. /\ Follows(T, T2) /\ (m = "answer" => h = <<>>)
      /\ h2 = Append(h, m) /\ S2 = Append(S, m)
  OBVIOUS
<1>h5. ASSUME Chain(h2, g, left, U, R, W, T2, S2, c2, c3, c4) PROVE Line(o, p)'
  BY <1>h5 DEF Line
<1> HIDE DEF h, g, left, U, R, W, T, S, c2, c3, c4, h2, T2, S2
<1>2. /\ h2 \in Seq(Messages) /\ h2 # <<>> /\ Len(h) \in Nat /\ Len(h2) = Len(h) + 1
      /\ h2[Len(h) + 1] = m
  <2>1. /\ Append(h, m) \in Seq(Messages) /\ Append(h, m) # <<>> /\ Len(h) \in Nat
        /\ Len(Append(h, m)) = Len(h) + 1 /\ Append(h, m)[Len(h) + 1] = m
    <3>1. h \in Seq(Messages)
      BY <1>h2
    <3> QED BY <3>1, SaidOne
  <2> QED BY <2>1, <1>h4
<1> USE <1>h1, <1>h2, <1>h3, <1>h4
<1>1. PICK a \in 0..Len(h), u \in 0..Len(h), r \in 0..Len(h), w \in 0..Len(h), x \in 0..Len(h) :
        /\ Len(g) <= a /\ (left \/ a = Len(g))
        /\ Carries(U, h, a, u) /\ Carries(R, h, u, r)
        /\ h = <<>> \/ c2 => Carries(W, h, r, w)
        /\ h = <<>> \/ (c2 /\ c3) => Carries(T, h, w, x)
        /\ h = <<>> \/ (c2 /\ c3 /\ (c4 \/ In(S, "answer"))) => Carries(S, h, x, Len(h))
  BY DEF Chain
<1>3. /\ a \in Nat /\ u \in Nat /\ r \in Nat /\ w \in Nat /\ x \in Nat
      /\ a \in 0..Len(h2) /\ u \in 0..Len(h2) /\ r \in 0..Len(h2) /\ w \in 0..Len(h2) /\ x \in 0..Len(h2)
  <2> DEFINE n == Len(h)
  <2>1. n \in Nat /\ Len(h2) = n + 1
    BY <1>2
  <2>2. a \in 0..n /\ u \in 0..n /\ r \in 0..n /\ w \in 0..n /\ x \in 0..n
    OBVIOUS
  <2> HIDE DEF n
  <2>3. \A i \in 0..n : i \in Nat /\ i \in 0..(n + 1)
    BY <2>1
  <2> QED BY <2>1, <2>2, <2>3
<1>4. m \in Word
  BY DEF Word
<1>5. In(S2, "answer") => In(S, "answer") \/ h = <<>>
  BY <1>4, InAppend
<1>6. /\ Carries(U, h2, a, u) /\ Carries(R, h2, u, r)
      /\ c2 => Carries(W, h2, r, w)
  BY <1>1, <1>3, CarriesSaid
<1>7. c2 /\ c3 => Carries(T2, h2, w, x)
  <2>1. c2 /\ c3 => Carries(T, h2, w, x)
    BY <1>1, <1>3, CarriesSaid
  <2> QED BY <1>2, <1>3, <2>1 DEF Follows
<1>8. c2 /\ c3 /\ (c4 \/ In(S2, "answer")) => Carries(S2, h2, x, Len(h2))
  <2> SUFFICES ASSUME c2 /\ c3 /\ (c4 \/ In(S2, "answer")) PROVE Carries(S2, h2, x, Len(h2))
    OBVIOUS
  <2>1. Carries(S, h, x, Len(h))
    BY <1>1, <1>5
  <2>2. Carries(S, h2, x, Len(h))
    BY <1>2, <1>3, <2>1, CarriesSaid
  <2>3. Len(h) \in 0..Len(h2) /\ Len(h) + 1 \in 0..Len(h2)
    BY SMTT(30), <1>2
  <2>4. Carries(Append(S, h2[Len(h) + 1]), h2, x, Len(h) + 1)
    BY <1>2, <1>3, <2>2, <2>3, CarriesNext
  <2> QED BY <1>2, <2>4
<1>9. IsPrefix(g, h2)
  BY PrefixSaid DEF Chain
<1>10. Chain(h2, g, left, U, R, W, T2, S2, c2, c3, c4)
  BY <1>1, <1>2, <1>3, <1>6, <1>7, <1>8, <1>9 DEF Chain
<1> QED BY <1>10, <1>h5

\* The executor of o posts the message to be written.
LEMMA LineSend ==
  ASSUME Types, NEW o \in Peers, NEW p \in Peers, Line(o, p), NEW t1,
         View(tasks[o], "send") # <<>>,
         View(tasks[o], "send")[1] # "none",
         View(tasks[o], "send")[1] = "answer" \/ room[o] = "CONNECTED",
         Follows(View(tasks[o], "write"), t1),
         View(tasks'[o], "write") = Append(t1, View(tasks[o], "send")[1]),
         Follows(Tail(View(tasks[o], "send")), View(tasks'[o], "send")),
         said'[o] = said[o],
         got'[p] = got[p],
         call'[p] = call[p],
         ui'[p] = ui[p],
         tasks'[p] = tasks[p],
         wire'[p] = wire[p],
         thread'[p] = thread[p],
         client'[o] = client[o], raw'[o] = raw[o], end'[p] = end[p],
         room'[o] = room[o]
  PROVE  Line(o, p)'
<1> DEFINE h == said[o]
           g == got[p]
           left == (call[p] = "left")
           U == Spoken(ui[p])
           R == View(tasks[p], "receive")
           W == wire[p]
           T == View(tasks[o], "write")
           S == View(tasks[o], "send")
           c2 == thread[p] \notin {"closing", "dead"}
           c3 == client[o] /\ raw[o] /\ end[p]
           c4 == room[o] = "CONNECTED"
           T2 == View(tasks'[o], "write")
           S2 == View(tasks'[o], "send")
           S1 == Tail(S)
<1>h1. /\ left \in BOOLEAN /\ c2 \in BOOLEAN /\ c3 \in BOOLEAN /\ c4 \in BOOLEAN
  OBVIOUS
<1>h2. /\ h \in Seq(Messages) /\ g \in Seq(Messages) /\ U \in Seq(Word) /\ R \in Seq(Word)
      /\ W \in Seq(Word) /\ T \in Seq(Word) /\ S \in Seq(Word)
  BY LineTypes DEF Carrying
<1>h3. Chain(h, g, left, U, R, W, T, S, c2, c3, c4)
  BY DEF Line
<1>h4. /\ S # <<>> /\ S[1] # "none" /\ (S[1] = "answer" \/ c4)
      /\ Follows(T, t1) /\ T2 = Append(t1, S[1]) /\ S1 = Tail(S) /\ Follows(S1, S2)
  OBVIOUS
<1>h5. ASSUME Chain(h, g, left, U, R, W, T2, S2, c2, c3, c4) PROVE Line(o, p)'
  BY <1>h5 DEF Line
<1> HIDE DEF h, g, left, U, R, W, T, S, c2, c3, c4, T2, S2, S1
<1> USE <1>h1, <1>h2, <1>h3, <1>h4
<1>1. h # <<>>
  BY ChainMute
<1>2. PICK a \in 0..Len(h), u \in 0..Len(h), r \in 0..Len(h), w \in 0..Len(h), x \in 0..Len(h) :
        /\ Len(g) <= a /\ (left \/ a = Len(g))
        /\ Carries(U, h, a, u) /\ Carries(R, h, u, r)
        /\ c2 => Carries(W, h, r, w)
        /\ (c2 /\ c3) => Carries(T, h, w, x)
        /\ (c2 /\ c3 /\ (c4 \/ In(S, "answer"))) => Carries(S, h, x, Len(h))
  BY DEF Chain
<1>3. IsPrefix(g, h)
  BY DEF Chain
<1>4. ASSUME ~(c2 /\ c3) PROVE Chain(h, g, left, U, R, W, T2, S2, c2, c3, c4)
  BY <1>1, <1>2, <1>3, <1>4 DEF Chain
<1>5. ASSUME c2 /\ c3 PROVE Chain(h, g, left, U, R, W, T2, S2, c2, c3, c4)
  <2>1. S[1] = "answer" => In(S, "answer")
    BY TailParts DEF In
  <2>2. Len(h) \in 0..Len(h)
    OBVIOUS
  <2>3. Carries(S, h, x, Len(h))
    BY <1>2, <1>5, <2>1
  <2>4. /\ x + 1 \in 0..Len(h) /\ S[1] = h[x + 1] /\ Carries(S1, h, x + 1, Len(h))
    BY <2>2, <2>3, CarriesHead
  <2>5. Carries(S2, h, x + 1, Len(h))
    BY <2>2, <2>4, FollowsCarries
  <2>6. Carries(t1, h, w, x) /\ t1 \in Seq(Word)
    BY <1>2, <1>5, FollowsCarries
  <2>7. Carries(T2, h, w, x + 1)
    BY <2>4, <2>6, CarriesNext
  <2> QED BY <1>1, <1>2, <1>3, <1>5, <2>4, <2>5, <2>7 DEF Chain
<1>f. Chain(h, g, left, U, R, W, T2, S2, c2, c3, c4)
  BY <1>4, <1>5
<1> QED BY <1>f, <1>h5

\* The executor of o refuses to send the message.
LEMMA LineRefuse ==
  ASSUME Types, NEW o \in Peers, NEW p \in Peers, Line(o, p),
         View(tasks[o], "send") # <<>>,
         View(tasks[o], "send")[1] # "none",
         View(tasks[o], "send")[1] # "answer",
         room[o] # "CONNECTED",
         \A i \in DOMAIN said[o] : said[o][i] = "answer" => i = 1,
         Follows(View(tasks[o], "write"), View(tasks'[o], "write")),
         Follows(Tail(View(tasks[o], "send")), View(tasks'[o], "send")),
         said'[o] = said[o],
         got'[p] = got[p],
         call'[p] = call[p],
         ui'[p] = ui[p],
         tasks'[p] = tasks[p],
         wire'[p] = wire[p],
         thread'[p] = thread[p],
         client'[o] = client[o], raw'[o] = raw[o], end'[p] = end[p],
         room'[o] = room[o]
  PROVE  Line(o, p)'
<1> DEFINE h == said[o]
           g == got[p]
           left == (call[p] = "left")
           U == Spoken(ui[p])
           R == View(tasks[p], "receive")
           W == wire[p]
           T == View(tasks[o], "write")
           S == View(tasks[o], "send")
           c2 == thread[p] \notin {"closing", "dead"}
           c3 == client[o] /\ raw[o] /\ end[p]
           c4 == room[o] = "CONNECTED"
           T2 == View(tasks'[o], "write")
           S2 == View(tasks'[o], "send")
           S1 == Tail(S)
<1>h1. /\ left \in BOOLEAN /\ c2 \in BOOLEAN /\ c3 \in BOOLEAN /\ c4 \in BOOLEAN
  OBVIOUS
<1>h2. /\ h \in Seq(Messages) /\ g \in Seq(Messages) /\ U \in Seq(Word) /\ R \in Seq(Word)
      /\ W \in Seq(Word) /\ T \in Seq(Word) /\ S \in Seq(Word)
  BY LineTypes DEF Carrying
<1>h3. Chain(h, g, left, U, R, W, T, S, c2, c3, c4)
  BY DEF Line
<1>h4. /\ S # <<>> /\ S[1] # "none" /\ S[1] # "answer" /\ ~c4
      /\ Follows(T, T2) /\ S1 = Tail(S) /\ Follows(S1, S2)
      /\ \A i \in DOMAIN h : h[i] = "answer" => i = 1
  OBVIOUS
<1>h5. ASSUME Chain(h, g, left, U, R, W, T2, S2, c2, c3, c4) PROVE Line(o, p)'
  BY <1>h5 DEF Line
<1> HIDE DEF h, g, left, U, R, W, T, S, c2, c3, c4, T2, S2, S1
<1> USE <1>h1, <1>h2, <1>h3, <1>h4
<1>1. h # <<>>
  BY ChainMute
<1>2. PICK a \in 0..Len(h), u \in 0..Len(h), r \in 0..Len(h), w \in 0..Len(h), x \in 0..Len(h) :
        /\ Len(g) <= a /\ (left \/ a = Len(g))
        /\ Carries(U, h, a, u) /\ Carries(R, h, u, r)
        /\ c2 => Carries(W, h, r, w)
        /\ (c2 /\ c3) => Carries(T, h, w, x)
        /\ (c2 /\ c3 /\ In(S, "answer")) => Carries(S, h, x, Len(h))
  BY DEF Chain
<1>3. IsPrefix(g, h)
  BY DEF Chain
<1>4. (c2 /\ c3) => Carries(T2, h, w, x)
  BY <1>2, FollowsCarries
<1>5. c2 /\ c3 => ~In(S2, "answer")
  <2> SUFFICES ASSUME c2, c3, In(S2, "answer") PROVE FALSE
    OBVIOUS
  <2>1. In(S1, "answer")
    BY DEF Follows
  <2>2. In(S, "answer") /\ Len(h) \in 0..Len(h)
    BY <2>1, InTail
  <2>3. x + 1 \in 0..Len(h) /\ Carries(S1, h, x + 1, Len(h))
    BY <1>2, <2>2, CarriesHead
  <2>4. PICK k \in DOMAIN S1 : S1[k] = "answer"
    BY <2>1 DEF In
  <2>5. PICK i \in ((x + 1) + 1)..Len(h) : h[i] = "answer"
    <3>1. PICK pos \in [((x + 1) + 1)..Len(h) -> DOMAIN S1] :
             /\ \A i \in ((x + 1) + 1)..Len(h) : S1[pos[i]] = h[i]
             /\ \A j \in DOMAIN S1 :
                  S1[j] # "none" => \E i \in ((x + 1) + 1)..Len(h) : pos[i] = j
      BY <2>3 DEF Carries
    <3>2. PICK i \in ((x + 1) + 1)..Len(h) : pos[i] = k
      BY <2>4, <3>1
    <3> QED BY <2>4, <3>1, <3>2
  <2>6. i \in DOMAIN h /\ i # 1
    BY SMTT(30), <2>3, <2>5
  <2> QED BY <2>5, <2>6
<1>f. Chain(h, g, left, U, R, W, T2, S2, c2, c3, c4)
  BY <1>1, <1>2, <1>3, <1>4, <1>5 DEF Chain
<1> QED BY <1>f, <1>h5

\* o writes a message and p can read it.
LEMMA LineWrite ==
  ASSUME Types, NEW o \in Peers, NEW p \in Peers, Line(o, p),
         View(tasks[o], "write") # <<>>,
         View(tasks[o], "write")[1] # "none",
         client[o] /\ raw[o] /\ end[p],
         wire'[p] = Append(wire[p], View(tasks[o], "write")[1]),
         Follows(Tail(View(tasks[o], "write")), View(tasks'[o], "write")),
         Follows(View(tasks[o], "send"), View(tasks'[o], "send")),
         said'[o] = said[o],
         got'[p] = got[p],
         call'[p] = call[p],
         ui'[p] = ui[p],
         tasks'[p] = tasks[p],
         thread'[p] = thread[p],
         client'[o] = client[o], raw'[o] = raw[o], end'[p] = end[p],
         room'[o] = room[o]
  PROVE  Line(o, p)'
<1> DEFINE h == said[o]
           g == got[p]
           left == (call[p] = "left")
           U == Spoken(ui[p])
           R == View(tasks[p], "receive")
           W == wire[p]
           T == View(tasks[o], "write")
           S == View(tasks[o], "send")
           c2 == thread[p] \notin {"closing", "dead"}
           c3 == client[o] /\ raw[o] /\ end[p]
           c4 == room[o] = "CONNECTED"
           W2 == wire'[p]
           T2 == View(tasks'[o], "write")
           S2 == View(tasks'[o], "send")
           T1 == Tail(T)
<1>h1. /\ left \in BOOLEAN /\ c2 \in BOOLEAN /\ c3 \in BOOLEAN /\ c4 \in BOOLEAN
  OBVIOUS
<1>h2. /\ h \in Seq(Messages) /\ g \in Seq(Messages) /\ U \in Seq(Word) /\ R \in Seq(Word)
      /\ W \in Seq(Word) /\ T \in Seq(Word) /\ S \in Seq(Word)
  BY LineTypes DEF Carrying
<1>h3. Chain(h, g, left, U, R, W, T, S, c2, c3, c4)
  BY DEF Line
<1>h4. /\ T # <<>> /\ T[1] # "none" /\ c3 /\ W2 = Append(W, T[1])
      /\ T1 = Tail(T) /\ Follows(T1, T2) /\ Follows(S, S2)
  OBVIOUS
<1>h5. ASSUME Chain(h, g, left, U, R, W2, T2, S2, c2, c3, c4) PROVE Line(o, p)'
  BY <1>h5 DEF Line
<1> HIDE DEF h, g, left, U, R, W, T, S, c2, c3, c4, W2, T2, S2, T1
<1>1. h # <<>>
  <2>1. T # <<>> /\ T[1] # "none"
    BY <1>h4
  <2> QED BY <1>h1, <1>h2, <1>h3, <2>1, ChainMute
<1> USE <1>h1, <1>h2, <1>h3, <1>h4
<1>2. PICK a \in 0..Len(h), u \in 0..Len(h), r \in 0..Len(h), w \in 0..Len(h), x \in 0..Len(h) :
        /\ Len(g) <= a /\ (left \/ a = Len(g))
        /\ Carries(U, h, a, u) /\ Carries(R, h, u, r)
        /\ c2 => Carries(W, h, r, w)
        /\ c2 => Carries(T, h, w, x)
        /\ (c2 /\ (c4 \/ In(S, "answer"))) => Carries(S, h, x, Len(h))
  BY DEF Chain
<1>3. IsPrefix(g, h)
  BY DEF Chain
<1>4. ASSUME ~c2 PROVE Chain(h, g, left, U, R, W2, T2, S2, c2, c3, c4)
  BY <1>1, <1>2, <1>3, <1>4 DEF Chain
<1>5. ASSUME c2 PROVE Chain(h, g, left, U, R, W2, T2, S2, c2, c3, c4)
  <2>1. /\ w + 1 \in 0..Len(h) /\ T[1] = h[w + 1] /\ Carries(T1, h, w + 1, x)
    BY SMTT(30), <1>2, <1>5, CarriesHead
  <2>2. Carries(T2, h, w + 1, x)
    BY <2>1, FollowsCarries
  <2>3. Carries(W2, h, r, w + 1)
    BY <1>2, <1>5, <2>1, CarriesNext
  <2>4. Len(h) \in 0..Len(h) /\ (In(S2, "answer") => In(S, "answer"))
    BY DEF Follows
  <2>5. c4 \/ In(S2, "answer") => Carries(S2, h, x, Len(h))
    BY <1>2, <1>5, <2>4, FollowsCarries
  <2> QED BY <1>1, <1>2, <1>3, <1>5, <2>1, <2>2, <2>3, <2>5 DEF Chain
<1>f. Chain(h, g, left, U, R, W2, T2, S2, c2, c3, c4)
  BY <1>4, <1>5
<1> QED BY <1>f, <1>h5

\* The listening thread of p posts the line it has read.
LEMMA LinePost ==
  ASSUME Types, NEW o \in Peers, NEW p \in Peers, Line(o, p),
         wire[p] # <<>>,
         thread[p] \notin {"closing", "dead"},
         thread'[p] \notin {"closing", "dead"},
         View(tasks'[p], "receive") = Append(View(tasks[p], "receive"), wire[p][1]),
         wire'[p] = Tail(wire[p]),
         said'[o] = said[o],
         got'[p] = got[p],
         call'[p] = call[p],
         ui'[p] = ui[p],
         tasks'[o] = tasks[o],
         client'[o] = client[o], raw'[o] = raw[o], end'[p] = end[p],
         room'[o] = room[o]
  PROVE  Line(o, p)'
<1> DEFINE h == said[o]
           g == got[p]
           left == (call[p] = "left")
           U == Spoken(ui[p])
           R == View(tasks[p], "receive")
           W == wire[p]
           T == View(tasks[o], "write")
           S == View(tasks[o], "send")
           c2 == thread[p] \notin {"closing", "dead"}
           c3 == client[o] /\ raw[o] /\ end[p]
           c4 == room[o] = "CONNECTED"
           R2 == View(tasks'[p], "receive")
           W2 == wire'[p]
           c22 == thread'[p] \notin {"closing", "dead"}
<1>h1. /\ left \in BOOLEAN /\ c2 \in BOOLEAN /\ c3 \in BOOLEAN /\ c4 \in BOOLEAN
  OBVIOUS
<1>h2. /\ h \in Seq(Messages) /\ g \in Seq(Messages) /\ U \in Seq(Word) /\ R \in Seq(Word)
      /\ W \in Seq(Word) /\ T \in Seq(Word) /\ S \in Seq(Word)
  BY LineTypes DEF Carrying
<1>h3. Chain(h, g, left, U, R, W, T, S, c2, c3, c4)
  BY DEF Line
<1>h4. /\ W # <<>> /\ W[1] # "none" /\ c2 /\ c22
      /\ R2 = Append(R, W[1]) /\ W2 = Tail(W)
  BY NoneApart, LineTypes
<1>h5. ASSUME Chain(h, g, left, U, R2, W2, T, S, c22, c3, c4) PROVE Line(o, p)'
  BY <1>h5 DEF Line
<1> HIDE DEF h, g, left, U, R, W, T, S, c2, c3, c4, R2, W2, c22
<1>1. h # <<>>
  <2>1. W # <<>> /\ W[1] # "none"
    BY <1>h4
  <2> QED BY <1>h1, <1>h2, <1>h3, <2>1, ChainMute
<1> USE <1>h1, <1>h2, <1>h3, <1>h4
<1>2. PICK a \in 0..Len(h), u \in 0..Len(h), r \in 0..Len(h), w \in 0..Len(h), x \in 0..Len(h) :
        /\ Len(g) <= a /\ (left \/ a = Len(g))
        /\ Carries(U, h, a, u) /\ Carries(R, h, u, r) /\ Carries(W, h, r, w)
        /\ c3 => Carries(T, h, w, x)
        /\ (c3 /\ (c4 \/ In(S, "answer"))) => Carries(S, h, x, Len(h))
  BY DEF Chain
<1>3. IsPrefix(g, h)
  BY DEF Chain
<1>4. r + 1 \in 0..Len(h) /\ W[1] = h[r + 1] /\ Carries(W2, h, r + 1, w)
  BY <1>2, CarriesHead
<1>5. Carries(R2, h, u, r + 1)
  BY <1>2, <1>4, CarriesNext
<1>f. Chain(h, g, left, U, R2, W2, T, S, c22, c3, c4)
  BY <1>1, <1>2, <1>3, <1>4, <1>5 DEF Chain
<1> QED BY <1>f, <1>h5

\* The executor of p posts the message to the activity.
LEMMA LineReceive ==
  ASSUME Types, NEW o \in Peers, NEW p \in Peers, Line(o, p),
         View(tasks[p], "receive") # <<>>,
         View(tasks[p], "receive")[1] # "none",
         Follows(Tail(View(tasks[p], "receive")), View(tasks'[p], "receive")),
         Spoken(ui'[p]) = Append(Spoken(ui[p]), View(tasks[p], "receive")[1]),
         said'[o] = said[o],
         got'[p] = got[p],
         call'[p] = call[p],
         tasks'[o] = tasks[o],
         wire'[p] = wire[p],
         thread'[p] = thread[p],
         client'[o] = client[o], raw'[o] = raw[o], end'[p] = end[p],
         room'[o] = room[o]
  PROVE  Line(o, p)'
<1> DEFINE h == said[o]
           g == got[p]
           left == (call[p] = "left")
           U == Spoken(ui[p])
           R == View(tasks[p], "receive")
           W == wire[p]
           T == View(tasks[o], "write")
           S == View(tasks[o], "send")
           c2 == thread[p] \notin {"closing", "dead"}
           c3 == client[o] /\ raw[o] /\ end[p]
           c4 == room[o] = "CONNECTED"
           U2 == Spoken(ui'[p])
           R2 == View(tasks'[p], "receive")
           R1 == Tail(R)
<1>h1. /\ left \in BOOLEAN /\ c2 \in BOOLEAN /\ c3 \in BOOLEAN /\ c4 \in BOOLEAN
  OBVIOUS
<1>h2. /\ h \in Seq(Messages) /\ g \in Seq(Messages) /\ U \in Seq(Word) /\ R \in Seq(Word)
      /\ W \in Seq(Word) /\ T \in Seq(Word) /\ S \in Seq(Word)
  BY LineTypes DEF Carrying
<1>h3. Chain(h, g, left, U, R, W, T, S, c2, c3, c4)
  BY DEF Line
<1>h4. /\ R # <<>> /\ R[1] # "none" /\ R1 = Tail(R) /\ Follows(R1, R2)
      /\ U2 = Append(U, R[1])
  OBVIOUS
<1>h5. ASSUME Chain(h, g, left, U2, R2, W, T, S, c2, c3, c4) PROVE Line(o, p)'
  BY <1>h5 DEF Line
<1> HIDE DEF h, g, left, U, R, W, T, S, c2, c3, c4, U2, R2, R1
<1> USE <1>h1, <1>h2, <1>h3, <1>h4
<1>1. h # <<>>
  BY ChainMute
<1>2. PICK a \in 0..Len(h), u \in 0..Len(h), r \in 0..Len(h), w \in 0..Len(h), x \in 0..Len(h) :
        /\ Len(g) <= a /\ (left \/ a = Len(g))
        /\ Carries(U, h, a, u) /\ Carries(R, h, u, r)
        /\ c2 => Carries(W, h, r, w)
        /\ (c2 /\ c3) => Carries(T, h, w, x)
        /\ (c2 /\ c3 /\ (c4 \/ In(S, "answer"))) => Carries(S, h, x, Len(h))
  BY DEF Chain
<1>3. IsPrefix(g, h)
  BY DEF Chain
<1>4. /\ u + 1 \in 0..Len(h) /\ u + 1 \in 1..Len(h) /\ R[1] = h[u + 1]
      /\ Carries(R1, h, u + 1, r)
  BY <1>2, CarriesHead
<1>5. Carries(R2, h, u + 1, r)
  BY <1>4, FollowsCarries
<1>6. Carries(U2, h, a, u + 1)
  BY <1>2, <1>4, CarriesNext
<1>7. Chain(h, g, left, U2, R2, W, T, S, c2, c3, c4)
  BY <1>1, <1>2, <1>3, <1>4, <1>5, <1>6 DEF Chain
<1> QED BY <1>7, <1>h5

\* The message is one that o said; if it is the first one, p was given none.
LEMMA WhatIsReceived ==
  ASSUME Types, NEW o \in Peers, NEW p \in Peers, Line(o, p),
         View(tasks[p], "receive") # <<>>, View(tasks[p], "receive")[1] # "none"
  PROVE  \E i \in DOMAIN said[o] : said[o][i] = View(tasks[p], "receive")[1] /\ (i = 1 => got[p] = <<>>)
<1> DEFINE h == said[o]
           g == got[p]
           left == (call[p] = "left")
           U == Spoken(ui[p])
           R == View(tasks[p], "receive")
           W == wire[p]
           T == View(tasks[o], "write")
           S == View(tasks[o], "send")
           R1 == Tail(R)
           U2 == Append(U, R[1])
           c2 == thread[p] \notin {"closing", "dead"}
           c3 == client[o] /\ raw[o] /\ end[p]
           c4 == room[o] = "CONNECTED"
<1>h1. /\ left \in BOOLEAN /\ c2 \in BOOLEAN /\ c3 \in BOOLEAN /\ c4 \in BOOLEAN
  OBVIOUS
<1>h2. /\ h \in Seq(Messages) /\ g \in Seq(Messages) /\ U \in Seq(Word) /\ R \in Seq(Word)
      /\ W \in Seq(Word) /\ T \in Seq(Word) /\ S \in Seq(Word)
  BY LineTypes DEF Carrying
<1>h3. Chain(h, g, left, U, R, W, T, S, c2, c3, c4)
  BY DEF Line
<1>h4. R # <<>> /\ R[1] # "none"
  OBVIOUS
<1>h5. R1 \in Seq(Word)
  BY <1>h2, <1>h4, TailParts
<1>h6. Follows(R1, R1) /\ R1 = Tail(R) /\ U2 = Append(U, R[1])
  BY <1>h5, FollowsSame
<1> HIDE DEF h, g, left, U, U2, R, R1, W, T, S, c2, c3, c4
<1> USE <1>h1, <1>h2, <1>h3, <1>h4, <1>h5, <1>h6
<1>1. h # <<>>
  BY ChainMute
<1>2. PICK a \in 0..Len(h), u \in 0..Len(h), r \in 0..Len(h), w \in 0..Len(h), x \in 0..Len(h) :
        /\ Len(g) <= a /\ (left \/ a = Len(g))
        /\ Carries(U, h, a, u) /\ Carries(R, h, u, r)
        /\ c2 => Carries(W, h, r, w)
        /\ (c2 /\ c3) => Carries(T, h, w, x)
        /\ (c2 /\ c3 /\ (c4 \/ In(S, "answer"))) => Carries(S, h, x, Len(h))
  BY DEF Chain
<1>3. IsPrefix(g, h)
  BY DEF Chain
<1>4. /\ u + 1 \in 0..Len(h) /\ u + 1 \in 1..Len(h) /\ R[1] = h[u + 1]
      /\ Carries(R1, h, u + 1, r)
  BY <1>2, CarriesHead
<1>5. u + 1 = 1 => g = <<>>
  <2>1. a <= u /\ Len(g) \in Nat
    BY <1>2 DEF Carries
  <2> QED BY <1>2, <2>1
<1>6. \E i \in DOMAIN h : h[i] = R[1] /\ (i = 1 => g = <<>>)
  BY <1>4, <1>5
<1> QED BY <1>6 DEF h, g, R

\* The activity of p takes the message from o, and passes it on unless it left.
LEMMA LineHear ==
  ASSUME Types, NEW o \in Peers, NEW p \in Peers, Line(o, p),
         Spoken(ui[p]) # <<>>, Spoken(ui[p])[1] # "none",
         Spoken(ui'[p]) = Tail(Spoken(ui[p])),
         got'[p] = IF call[p] = "left" THEN got[p] ELSE Append(got[p], Spoken(ui[p])[1]),
         said'[o] = said[o], call'[p] = call[p], UNCHANGED tasks, wire'[p] = wire[p],
         thread'[p] = thread[p], client'[o] = client[o], raw'[o] = raw[o], end'[p] = end[p],
         room'[o] = room[o]
  PROVE  Line(o, p)'
<1> DEFINE h == said[o]
           g == got[p]
           left == (call[p] = "left")
           U == Spoken(ui[p])
           R == View(tasks[p], "receive")
           W == wire[p]
           T == View(tasks[o], "write")
           S == View(tasks[o], "send")
           U2 == Tail(U)
           g2 == Append(g, U[1])
           c2 == thread[p] \notin {"closing", "dead"}
           c3 == client[o] /\ raw[o] /\ end[p]
           c4 == room[o] = "CONNECTED"
<1>h1. /\ left \in BOOLEAN /\ c2 \in BOOLEAN /\ c3 \in BOOLEAN /\ c4 \in BOOLEAN
  OBVIOUS
<1>h2. /\ h \in Seq(Messages) /\ g \in Seq(Messages) /\ U \in Seq(Word) /\ R \in Seq(Word)
      /\ W \in Seq(Word) /\ T \in Seq(Word) /\ S \in Seq(Word)
  BY LineTypes DEF Carrying
<1>h3. Chain(h, g, left, U, R, W, T, S, c2, c3, c4)
  BY DEF Line
<1>h4. U # <<>> /\ U[1] # "none" /\ U2 = Tail(U) /\ g2 = Append(g, U[1])
  OBVIOUS
<1>h5. ASSUME left, Chain(h, g, left, U2, R, W, T, S, c2, c3, c4) PROVE Line(o, p)'
  BY <1>h5 DEF Line
<1>h6. ASSUME ~left, Chain(h, g2, left, U2, R, W, T, S, c2, c3, c4) PROVE Line(o, p)'
  BY <1>h6 DEF Line
<1> HIDE DEF h, g, g2, left, U, U2, R, W, T, S, c2, c3, c4
<1> USE <1>h1, <1>h2, <1>h3, <1>h4
<1>1. h # <<>>
  BY ChainMute
<1>2. PICK a \in 0..Len(h), u \in 0..Len(h), r \in 0..Len(h), w \in 0..Len(h), x \in 0..Len(h) :
        /\ Len(g) <= a /\ (left \/ a = Len(g))
        /\ Carries(U, h, a, u) /\ Carries(R, h, u, r)
        /\ c2 => Carries(W, h, r, w)
        /\ (c2 /\ c3) => Carries(T, h, w, x)
        /\ (c2 /\ c3 /\ (c4 \/ In(S, "answer"))) => Carries(S, h, x, Len(h))
  BY DEF Chain
<1>3. IsPrefix(g, h) /\ Len(g) \in Nat /\ Len(h) \in Nat
  <2>1. IsPrefix(g, h)
    BY DEF Chain
  <2>2. Len(g) \in Nat /\ Len(h) \in Nat
    BY LenNat
  <2> QED BY <2>1, <2>2
<1>4. /\ a + 1 \in 0..Len(h) /\ a + 1 \in 1..Len(h) /\ U[1] = h[a + 1] /\ U[1] \in Messages
      /\ Carries(U2, h, a + 1, u)
  BY <1>2, CarriesHead
<1>5. ASSUME left PROVE Chain(h, g, left, U2, R, W, T, S, c2, c3, c4)
  <2>1. Len(g) <= a + 1
    BY <1>2, <1>3
  <2> QED BY <1>1, <1>2, <1>3, <1>4, <1>5, <2>1 DEF Chain
<1>6. ASSUME ~left PROVE Chain(h, g2, left, U2, R, W, T, S, c2, c3, c4)
  <2>1. a = Len(g) /\ Len(g) < Len(h)
    BY <1>2, <1>3, <1>4, <1>6
  <2>2. IsPrefix(g2, h)
    BY <1>3, <1>4, <2>1, PrefixGot
  <2>3. Len(g2) = a + 1
    BY <1>4, <2>1, AppendParts
  <2>4. a + 1 <= a + 1
    BY <1>3, <2>1
  <2> QED BY <1>1, <1>2, <1>4, <2>2, <2>3, <2>4 DEF Chain
<1>7. (a + 1 = 1 => g = <<>>) /\ (g = <<>> /\ ~left => a + 1 = 1)
  BY <1>2, <1>3
<1> QED BY <1>5, <1>6, <1>h5, <1>h6

\* The message is one that o said, and the first one if p was given none.
LEMMA WhatIsHeard ==
  ASSUME Types, NEW o \in Peers, NEW p \in Peers, Line(o, p),
         Spoken(ui[p]) # <<>>, Spoken(ui[p])[1] # "none"
  PROVE  \E i \in DOMAIN said[o] : /\ said[o][i] = Spoken(ui[p])[1]
                                   /\ i = 1 => got[p] = <<>>
                                   /\ got[p] = <<>> /\ call[p] # "left" => i = 1
<1> DEFINE h == said[o]
           g == got[p]
           left == (call[p] = "left")
           U == Spoken(ui[p])
           R == View(tasks[p], "receive")
           W == wire[p]
           T == View(tasks[o], "write")
           S == View(tasks[o], "send")
           U2 == Tail(U)
           g2 == Append(g, U[1])
           c2 == thread[p] \notin {"closing", "dead"}
           c3 == client[o] /\ raw[o] /\ end[p]
           c4 == room[o] = "CONNECTED"
<1>h1. /\ left \in BOOLEAN /\ c2 \in BOOLEAN /\ c3 \in BOOLEAN /\ c4 \in BOOLEAN
  OBVIOUS
<1>h2. /\ h \in Seq(Messages) /\ g \in Seq(Messages) /\ U \in Seq(Word) /\ R \in Seq(Word)
      /\ W \in Seq(Word) /\ T \in Seq(Word) /\ S \in Seq(Word)
  BY LineTypes DEF Carrying
<1>h3. Chain(h, g, left, U, R, W, T, S, c2, c3, c4)
  BY DEF Line
<1>h4. U # <<>> /\ U[1] # "none" /\ U2 = Tail(U) /\ g2 = Append(g, U[1])
  OBVIOUS
<1> HIDE DEF h, g, g2, left, U, U2, R, W, T, S, c2, c3, c4
<1> USE <1>h1, <1>h2, <1>h3, <1>h4
<1>1. h # <<>>
  BY ChainMute
<1>2. PICK a \in 0..Len(h), u \in 0..Len(h), r \in 0..Len(h), w \in 0..Len(h), x \in 0..Len(h) :
        /\ Len(g) <= a /\ (left \/ a = Len(g))
        /\ Carries(U, h, a, u) /\ Carries(R, h, u, r)
        /\ c2 => Carries(W, h, r, w)
        /\ (c2 /\ c3) => Carries(T, h, w, x)
        /\ (c2 /\ c3 /\ (c4 \/ In(S, "answer"))) => Carries(S, h, x, Len(h))
  BY DEF Chain
<1>3. IsPrefix(g, h) /\ Len(g) \in Nat /\ Len(h) \in Nat
  <2>1. IsPrefix(g, h)
    BY DEF Chain
  <2>2. Len(g) \in Nat /\ Len(h) \in Nat
    BY LenNat
  <2> QED BY <2>1, <2>2
<1>4. /\ a + 1 \in 0..Len(h) /\ a + 1 \in 1..Len(h) /\ U[1] = h[a + 1] /\ U[1] \in Messages
      /\ Carries(U2, h, a + 1, u)
  BY <1>2, CarriesHead
<1>5. (a + 1 = 1 => g = <<>>) /\ (g = <<>> /\ ~left => a + 1 = 1)
  BY <1>2, <1>3
<1>6. \E i \in DOMAIN h : h[i] = U[1] /\ (i = 1 => g = <<>>) /\ (g = <<>> /\ ~left => i = 1)
  BY SMTT(30), <1>4, <1>5
<1> QED BY <1>6 DEF h, g, U, left

\* A message is somewhere on its way only when something was said, and
\* nothing is given when nothing was.
LEMMA SaidBefore ==
  ASSUME Types, NEW o \in Peers, NEW p \in Peers, Line(o, p), said[o] = <<>>
  PROVE  /\ got[p] = <<>> /\ wire[p] = <<>>
         /\ \A k \in {"write", "send"} : View(tasks[o], k) # <<>> => View(tasks[o], k)[1] = "none"
<1> DEFINE h == said[o]
           g == got[p]
           left == (call[p] = "left")
           U == Spoken(ui[p])
           R == View(tasks[p], "receive")
           W == wire[p]
           T == View(tasks[o], "write")
           S == View(tasks[o], "send")
           c2 == thread[p] \notin {"closing", "dead"}
           c3 == client[o] /\ raw[o] /\ end[p]
           c4 == room[o] = "CONNECTED"
<1>1. /\ left \in BOOLEAN /\ c2 \in BOOLEAN /\ c3 \in BOOLEAN /\ c4 \in BOOLEAN
  OBVIOUS
<1>2. /\ h \in Seq(Messages) /\ g \in Seq(Messages) /\ U \in Seq(Word) /\ R \in Seq(Word)
      /\ W \in Seq(Word) /\ T \in Seq(Word) /\ S \in Seq(Word)
  BY LineTypes DEF Carrying
<1>3. Chain(h, g, left, U, R, W, T, S, c2, c3, c4) /\ h = <<>>
  BY DEF Line
<1>4. W # <<>> => W[1] # "none"
  BY NoneApart, LineTypes
<1> HIDE DEF h, g, left, U, R, W, T, S, c2, c3, c4
<1>5. g = <<>> /\ (W # <<>> => W[1] = "none") /\ (T # <<>> => T[1] = "none") /\ (S # <<>> => S[1] = "none")
  BY <1>1, <1>2, <1>3, ChainMute
<1> QED BY <1>4, <1>5 DEF g, W, T, S

\* What is given was said.
LEMMA GotSaid ==
  ASSUME Line("server", "client"), Line("client", "server")
  PROVE  \A p \in Peers : IsPrefix(got[p], said[Other(p)])
BY OtherPeer DEF Line, Chain, Peers

\* The way is cut behind what may be lost.
LEMMA LineCut ==
  ASSUME Types, NEW o \in Peers, NEW p \in Peers, Line(o, p), said[o] # <<>>,
         said'[o] = said[o], got'[p] = got[p], call[p] = "left" => call'[p] = "left",
         Follows(Spoken(ui[p]), Spoken(ui'[p])),
         Follows(View(tasks[p], "receive"), View(tasks'[p], "receive")),
         thread'[p] \notin {"closing", "dead"} =>
           wire'[p] = wire[p] /\ thread[p] \notin {"closing", "dead"} /\ ~(client'[o] /\ raw'[o] /\ end'[p])
  PROVE  Line(o, p)'
<1> DEFINE h == said[o]
           g == got[p]
           left == (call[p] = "left")
           left2 == (call'[p] = "left")
           U == Spoken(ui[p])
           U2 == Spoken(ui'[p])
           R == View(tasks[p], "receive")
           R2 == View(tasks'[p], "receive")
           W == wire[p]
           W2 == wire'[p]
           T == View(tasks[o], "write")
           T2 == View(tasks'[o], "write")
           S == View(tasks[o], "send")
           S2 == View(tasks'[o], "send")
           c2 == thread[p] \notin {"closing", "dead"}
           d2 == thread'[p] \notin {"closing", "dead"}
           c3 == client[o] /\ raw[o] /\ end[p]
           d3 == client'[o] /\ raw'[o] /\ end'[p]
           c4 == room[o] = "CONNECTED"
           d4 == room'[o] = "CONNECTED"
<1>1. /\ left \in BOOLEAN /\ left2 \in BOOLEAN /\ c2 \in BOOLEAN /\ d2 \in BOOLEAN
      /\ c3 \in BOOLEAN /\ d3 \in BOOLEAN /\ c4 \in BOOLEAN /\ d4 \in BOOLEAN
  OBVIOUS
<1>2. h \in Seq(Messages) /\ g \in Seq(Messages) /\ Follows(W, W)
  BY LineTypes
<1>3. Chain(h, g, left, U, R, W, T, S, c2, c3, c4)
  BY DEF Line
<1>4. /\ h # <<>> /\ (left => left2) /\ Follows(U, U2) /\ Follows(R, R2)
      /\ d2 => W2 = W /\ c2 /\ ~d3
  OBVIOUS
<1>5. ASSUME Chain(h, g, left2, U2, R2, W2, T2, S2, d2, d3, d4) PROVE Line(o, p)'
  BY <1>5 DEF Line
<1> HIDE DEF h, g, left, left2, U, U2, R, R2, W, W2, T, T2, S, S2, c2, d2, c3, d3, c4, d4
<1>6. d2 => Follows(W, W2)
  BY <1>2, <1>4
<1>7. Chain(h, g, left2, U2, R2, W2, T2, S2, d2, d3, d4)
  BY <1>1, <1>2, <1>3, <1>4, <1>6, ChainMove
<1> QED BY <1>5, <1>7

-----------------------------------------------------------------------------
(* The steps keep the invariant: the UI thread.                             *)

LEMMA InvNow ==
  ASSUME Inv, NEW p \in Peers
  PROVE  /\ Types /\ Started(p) /\ Lived(p) /\ Made(p) /\ Excused(p) /\ Lines
         /\ Local(p) /\ Local(Other(p)) /\ Other(p) \in Peers /\ Other(p) # p
         /\ Peers = {p, Other(p)}
         /\ tasks[p] \in Seq(Task) /\ ui[p] \in Seq(Events)
<1>1. /\ Types /\ Lines /\ \A o \in Peers : Local(o)
  BY InvParts
<1>2. Other(p) \in Peers /\ Other(p) # p /\ Peers = {p, Other(p)}
  BY OtherPeer DEF Peers
<1> QED BY <1>1, <1>2, LineTypes DEF Local

LEMMA InvNext ==
  ASSUME NEW p \in Peers, Types', Started(p)', Lived(p)', Made(p)', Excused(p)',
         Local(Other(p))', Lines'
  PROVE  Inv'
<1>1. Peers = {p, Other(p)}
  BY OtherPeer DEF Peers
<1> QED BY <1>1 DEF Local, Inv, Lines

LEMMA StartCallKeeps ==
  ASSUME Inv, NEW p \in Peers, StartCall(p)
  PROVE  Inv'
<1>1. /\ Types /\ Started(p) /\ Lived(p) /\ Made(p) /\ Excused(p) /\ Lines
      /\ Local(Other(p)) /\ Other(p) \in Peers /\ Other(p) # p
      /\ Peers = {p, Other(p)}
      /\ tasks[p] \in Seq(Task) /\ ui[p] \in Seq(Events)
  BY InvNow
<1>2. call[p] = "idle" /\ tasks[p] = <<>> /\ ~shut[p]
  BY <1>1 DEF StartCall, Started
<1>3. Do("connect") \in Task /\ Do("connect").do = "connect"
  BY TaskMade DEF Act, Carrying
<1>4. /\ tasks' \in [Peers -> Seq(Task)] /\ faults' \subseteq Peers
      /\ tasks'[Other(p)] = tasks[Other(p)]
      /\ Other(p) \in faults' <=> Other(p) \in faults
      /\ tasks'[p] = Append(tasks[p], Do("connect")) /\ (p \in faults' <=> p \in faults)
  BY <1>1, <1>2, <1>3, Executed DEF StartCall
<1>5. /\ call' = [call EXCEPT ![p] = "calling"]
      /\ call' \in [Peers -> {"idle", "calling", "left"}]
      /\ call'[p] = "calling" /\ call'[Other(p)] = call[Other(p)]
      /\ UNCHANGED <<pc, changes, alert, said, got, shut, room, client, thread, raw, end, listening, wire, broken, ui>>
  BY <1>1 DEF StartCall, Types, TypeOK, roomVars, netVars
<1>6. Types'
  BY <1>1, <1>4, <1>5 DEF Types, TypeOK
<1>7. /\ \A k \in Carrying : Follows(View(tasks[p], k), View(tasks'[p], k))
      /\ \A x : In(Dos(tasks'[p]), x) <=> x = "connect"
      /\ Dos(tasks'[p])[1] = "connect" /\ One(Dos(tasks'[p]), "connect")
      /\ One(Dos(tasks'[p]), "connected")
      /\ Before(Dos(tasks'[p]), "tcpClose", {"tcpError", "roomError"})
  <2>1. tasks'[p] = <<Do("connect")>>
    BY <1>2, <1>4
  <2>2. Dos(tasks'[p]) = <<"connect">> /\ DOMAIN tasks'[p] = {1}
    BY <1>3, <2>1 DEF Dos
  <2>3. \A k \in Carrying : Follows(View(tasks[p], k), View(tasks'[p], k))
    BY SMTT(30), <1>1, <1>3, <1>4, PostTask DEF Carrying
  <2> QED BY <2>2, <2>3 DEF In, One, Before
<1>8. Started(p)'
  BY <1>1, <1>2, <1>5, <1>7 DEF Started
<1>9. Lived(p)'
  BY <1>1, <1>2, <1>4, <1>5, <1>7 DEF Lived
<1>10. Made(p)'
  <2>1. One(Dos(tasks'[p]), "connected") /\ ~In(Dos(tasks'[p]), "connected")
    BY <1>7
  <2> QED BY <1>1, <1>2, <1>5, <2>1 DEF Made, Started
<1>11. Excused(p)'
  <2>1. ui[p] = <<>> /\ thread[p] = "none" /\ room[p] = "NEW"
    BY <1>1, <1>2 DEF Started
  <2>2. Before(<<>>, "close", {"error"})
    BY DEF Before
  <2> QED BY <1>1, <1>5, <1>7, <2>1, <2>2 DEF Excused
<1>12. Local(Other(p))'
  BY <1>1, <1>4, <1>5, Elsewhere DEF Still
<1>13. Lines'
  <2>1. Cut(p, Other(p)) /\ Cut(Other(p), p)
    BY <1>5 DEF Cut
  <2>2. \A o \in Peers : call[o] = "left" => call'[o] = "left"
    BY <1>1, <1>2, <1>5
  <2>3. Follows(Spoken(ui[p]), Spoken(ui'[p]))
    BY <1>1, <1>5, LineTypes
  <2> QED BY <1>1, <1>4, <1>5, <1>7, <2>1, <2>2, <2>3, LinesStill
<1> QED BY <1>6, <1>8, <1>9, <1>10, <1>11, <1>12, <1>13, InvNext

LEMMA HangUpKeeps ==
  ASSUME Inv, NEW p \in Peers, HangUp(p)
  PROVE  Inv'
<1>1. /\ Types /\ Started(p) /\ Lived(p) /\ Made(p) /\ Excused(p) /\ Lines
      /\ Local(Other(p)) /\ Other(p) \in Peers /\ Other(p) # p
      /\ Peers = {p, Other(p)}
      /\ tasks[p] \in Seq(Task) /\ ui[p] \in Seq(Events)
  BY InvNow
<1>2. call[p] = "calling" /\ ~shut[p]
  BY <1>1 DEF HangUp, Lived
<1>3. Do("disconnect") \in Task /\ Do("disconnect").do = "disconnect"
  BY TaskMade DEF Act, Carrying
<1>4. /\ tasks' \in [Peers -> Seq(Task)] /\ faults' \subseteq Peers
      /\ tasks'[Other(p)] = tasks[Other(p)]
      /\ Other(p) \in faults' <=> Other(p) \in faults
      /\ tasks'[p] = Append(tasks[p], Do("disconnect")) /\ (p \in faults' <=> p \in faults)
  BY <1>1, <1>2, <1>3, Executed DEF HangUp, Leave
<1>5. /\ call' = [call EXCEPT ![p] = "left"]
      /\ call' \in [Peers -> {"idle", "calling", "left"}]
      /\ call'[p] = "left" /\ call'[Other(p)] = call[Other(p)]
      /\ UNCHANGED <<pc, changes, alert, said, got, shut, room, client, thread, raw, end, listening, wire, broken, ui>>
  BY <1>1, <1>2 DEF HangUp, Leave, Types, TypeOK, roomVars, netVars
<1>6. Types'
  BY <1>1, <1>4, <1>5 DEF Types, TypeOK
<1>7. /\ \A k \in Carrying : Follows(View(tasks[p], k), View(tasks'[p], k))
      /\ \A x : In(Dos(tasks'[p]), x) <=> (In(Dos(tasks[p]), x) \/ x = "disconnect")
      /\ \A x : One(Dos(tasks[p]), x) /\ x # "disconnect" => One(Dos(tasks'[p]), x)
      /\ \A x : In(Dos(tasks[p]), x) => Dos(tasks'[p])[1] = Dos(tasks[p])[1]
  BY <1>1, <1>3, <1>4, PostTask DEF Carrying
<1>8. Started(p)'
  BY <1>1, <1>2, <1>5, <1>7 DEF Started
<1>9. Lived(p)'
  BY <1>1, <1>2, <1>4, <1>5, <1>7 DEF Lived
<1>10. Made(p)'
  BY <1>1, <1>2, <1>4, <1>5, <1>7 DEF Made
<1>11. Excused(p)'
  BY <1>1, <1>2, <1>4, <1>5, <1>7 DEF Excused
<1>12. Local(Other(p))'
  BY <1>1, <1>4, <1>5, Elsewhere DEF Still
<1>13. Lines'
  <2>1. Cut(p, Other(p)) /\ Cut(Other(p), p)
    BY <1>5 DEF Cut
  <2>2. \A o \in Peers : call[o] = "left" => call'[o] = "left"
    BY <1>1, <1>2, <1>5
  <2>3. Follows(Spoken(ui[p]), Spoken(ui'[p]))
    BY <1>1, <1>5, LineTypes
  <2> QED BY <1>1, <1>4, <1>5, <1>7, <2>1, <2>2, <2>3, LinesStill
<1> QED BY <1>6, <1>8, <1>9, <1>10, <1>11, <1>12, <1>13, InvNext

\* The executor runs during a call, and its socket was announced.
LEMMA Talking ==
  ASSUME Inv, NEW p \in Peers, call[p] = "calling", pc[p] # "none"
  PROVE  /\ ~shut[p] /\ ~In(Dos(tasks[p]), "connect")
         /\ thread[p] \notin Early \cup {"announcing"}
<1>1. Started(p) /\ Lived(p)
  BY InvNow
<1> QED BY <1>1 DEF Started, Lived

\* p says m, the first message or one of those that follow it.
LEMMA SayKeeps ==
  ASSUME Inv, NEW p \in Peers, NEW m \in Own(p), call[p] = "calling", pc[p] # "none", Say(p, m),
         m = First(p) <=> said[p] = <<>>,
         pc' \in [Peers -> {"none", "made", "described"}], pc'[p] = "described",
         pc'[Other(p)] = pc[Other(p)],
         \A o \in Peers : changes'[o] \in 0..MaxChanges[o],
         UNCHANGED <<call, alert, got, roomVars, netVars, ui>>
  PROVE  Inv'
<1>1. /\ Types /\ Started(p) /\ Lived(p) /\ Made(p) /\ Excused(p) /\ Lines
      /\ Local(Other(p)) /\ Other(p) \in Peers /\ Other(p) # p
      /\ Peers = {p, Other(p)}
      /\ tasks[p] \in Seq(Task) /\ ui[p] \in Seq(Events)
  BY InvNow
<1>2. ~shut[p] /\ ~In(Dos(tasks[p]), "connect")
  BY Talking
<1>3. m \in Messages /\ (m = "answer" => said[p] = <<>>) /\ m # "none"
  BY IceAssumption, NoneApart DEF Own, First, Messages
<1>4. With("send", m) \in Task /\ With("send", m).do = "send" /\ With("send", m).msg = m
  BY <1>3, TaskMade DEF Act, Carrying
<1>5. /\ tasks' \in [Peers -> Seq(Task)] /\ faults' \subseteq Peers
      /\ tasks'[Other(p)] = tasks[Other(p)]
      /\ Other(p) \in faults' <=> Other(p) \in faults
      /\ tasks'[p] = Append(tasks[p], With("send", m)) /\ (p \in faults' <=> p \in faults)
  BY <1>1, <1>2, <1>4, Executed DEF Say
<1>6. /\ said' = [said EXCEPT ![p] = Append(said[p], m)]
      /\ said \in [Peers -> Seq(Messages)] /\ said[p] \in Seq(Own(p))
      /\ UNCHANGED <<call, alert, got, shut, room, client, thread, raw, end, listening, wire, broken, ui>>
  BY <1>1 DEF Say, Types, TypeOK, roomVars, netVars
<1>7. /\ Append(said[p], m) \in Seq(Messages) /\ Append(said[p], m) \in Seq(Own(p))
      /\ Append(said[p], m) # <<>>
  BY SMTT(30), <1>1, <1>3, <1>6, AppendParts DEF Types, TypeOK
<1>8. said'[p] = Append(said[p], m) /\ said'[Other(p)] = said[Other(p)]
      /\ said' \in [Peers -> Seq(Messages)]
  BY <1>1, <1>6, <1>7
<1>9. FirstOnly(said'[p], First(p))
  <2>1. FirstOnly(said[p], First(p))
    BY <1>1 DEF Types
  <2>2. /\ DOMAIN said'[p] = 1..(Len(said[p]) + 1) /\ said'[p][Len(said[p]) + 1] = m
        /\ Len(said[p]) \in Nat /\ DOMAIN said[p] = 1..Len(said[p])
        /\ \A i \in DOMAIN said[p] : said'[p][i] = said[p][i] /\ i < Len(said[p]) + 1
        /\ \A i \in DOMAIN said'[p] : i \in DOMAIN said[p] \/ i = Len(said[p]) + 1
    BY <1>6, <1>8, AppendParts
  <2>3. said[p] = <<>> <=> Len(said[p]) = 0
    BY <1>6
  <2>4. \A i \in DOMAIN said'[p] : said'[p][i] = First(p) <=> i = 1
    BY <2>1, <2>2, <2>3 DEF FirstOnly
  <2> QED BY <2>4 DEF FirstOnly
<1>10. Types'
  <2>1. TypeOK'
    BY <1>1, <1>5, <1>6, <1>8 DEF Types, TypeOK
  <2>2. \A o \in Peers : said'[o] \in Seq(Own(o)) /\ FirstOnly(said'[o], First(o))
    BY <1>1, <1>7, <1>8, <1>9 DEF Types
  <2> QED BY <1>1, <1>6, <2>1, <2>2 DEF Types
<1>11. /\ \A k \in Carrying : k # "send" => Follows(View(tasks[p], k), View(tasks'[p], k))
       /\ View(tasks'[p], "send") = Append(View(tasks[p], "send"), m)
       /\ \A x : In(Dos(tasks'[p]), x) <=> (In(Dos(tasks[p]), x) \/ x = "send")
       /\ \A x : One(Dos(tasks[p]), x) /\ x # "send" => One(Dos(tasks'[p]), x)
       /\ Before(Dos(tasks[p]), "tcpClose", {"tcpError", "roomError"})
            => Before(Dos(tasks'[p]), "tcpClose", {"tcpError", "roomError"})
  <2> DEFINE t == With("send", m)
             q == Append(tasks[p], t)
  <2>1. /\ \A x : In(Dos(q), x) <=> (In(Dos(tasks[p]), x) \/ x = t.do)
        /\ \A x : One(Dos(tasks[p]), x) /\ (x = t.do => ~In(Dos(tasks[p]), x)) => One(Dos(q), x)
        /\ \A a, B : Before(Dos(tasks[p]), a, B) /\ (t.do \in B => In(Dos(tasks[p]), a)) => Before(Dos(q), a, B)
        /\ \A k \in Carrying : /\ k # t.do => Follows(View(tasks[p], k), View(q, k))
                               /\ k = t.do => View(q, k) = Append(View(tasks[p], k), t.msg)
    BY <1>1, <1>4, PostTask
  <2>2. t.do = "send" /\ t.msg = m /\ "send" \in Carrying /\ tasks'[p] = q
    BY <1>4, <1>5 DEF Carrying
  <2> HIDE DEF t, q
  <2> QED BY <2>1, <2>2
<1>12. Started(p)'
  BY <1>1, <1>2, <1>6, <1>11 DEF Started
<1>13. Lived(p)'
  BY <1>1, <1>5, <1>6, <1>11, Talking DEF Lived
<1>14. Made(p)'
  BY <1>1, <1>6, <1>7, <1>8, <1>11 DEF Made
<1>15. Excused(p)'
  BY <1>1, <1>6, <1>11 DEF Excused
<1>16. Local(Other(p))'
  BY <1>1, <1>5, <1>6, <1>8, Elsewhere DEF Still
<1>17. Line(p, Other(p))'
  <2>1. Line(p, Other(p))
    BY <1>1, LinesOf
  <2>2. Follows(View(tasks[p], "write"), View(tasks'[p], "write"))
    BY <1>11 DEF Carrying
  <2> QED BY <1>1, <1>3, <1>5, <1>6, <1>8, <1>11, <2>1, <2>2, LineSay
<1>18. Line(Other(p), p)'
  <2>1. Line(Other(p), p) /\ Cut(Other(p), p)
    BY <1>1, <1>6, LinesOf DEF Cut
  <2>2. Follows(View(tasks[p], "receive"), View(tasks'[p], "receive"))
    BY <1>11 DEF Carrying
  <2>3. /\ Follows(Spoken(ui[p]), Spoken(ui'[p]))
        /\ Follows(View(tasks[Other(p)], "write"), View(tasks'[Other(p)], "write"))
        /\ Follows(View(tasks[Other(p)], "send"), View(tasks'[Other(p)], "send"))
    BY <1>1, <1>5, <1>6, LineTypes DEF Carrying
  <2> QED BY <1>1, <1>5, <1>6, <1>8, <2>1, <2>2, <2>3, LineStill
<1> QED BY <1>1, <1>10, <1>12, <1>13, <1>14, <1>15, <1>16, <1>17, <1>18, LinesOf, InvNext

LEMMA LocalDescriptionKeeps ==
  ASSUME Inv, NEW p \in Peers, LocalDescription(p)
  PROVE  Inv'
<1>1. Types /\ Made(p) /\ Other(p) \in Peers /\ Other(p) # p
  BY InvNow
<1>2. said[p] = <<>> /\ call[p] = "calling" /\ pc[p] = "made"
  BY <1>1 DEF Made, LocalDescription
<1>3. /\ First(p) \in Own(p) /\ Say(p, First(p))
      /\ pc' = [pc EXCEPT ![p] = "described"] /\ pc \in [Peers -> {"none", "made", "described"}]
      /\ UNCHANGED <<call, changes, alert, got, roomVars, netVars, ui>>
      /\ \A o \in Peers : changes[o] \in 0..MaxChanges[o]
  BY <1>1 DEF LocalDescription, First, Own, Types, TypeOK
<1>4. /\ pc' \in [Peers -> {"none", "made", "described"}] /\ pc'[p] = "described"
      /\ pc'[Other(p)] = pc[Other(p)]
  BY <1>1, <1>3
<1> QED BY <1>1, <1>2, <1>3, <1>4, SayKeeps

LEMMA IceChangeKeeps ==
  ASSUME Inv, NEW p \in Peers, NEW m \in Ice, IceChange(p, m)
  PROVE  Inv'
<1>1. Types /\ Made(p) /\ Other(p) \in Peers /\ Other(p) # p
  BY InvNow
<1>2. said[p] # <<>> /\ call[p] = "calling" /\ pc[p] = "described"
  BY <1>1 DEF Made, IceChange
<1>3. m \in Own(p) /\ m # First(p)
  BY IceAssumption DEF Own, First
<1>4. /\ Say(p, m) /\ pc \in [Peers -> {"none", "made", "described"}]
      /\ UNCHANGED <<call, pc, alert, got, roomVars, netVars, ui>>
  BY <1>1 DEF IceChange, Types, TypeOK
<1>5. \A o \in Peers : changes'[o] \in 0..MaxChanges[o]
  <2>1. \A o \in Peers : changes[o] \in 0..MaxChanges[o] /\ MaxChanges[o] \in Nat
    BY <1>1, IceAssumption DEF Types, TypeOK
  <2>2. changes' = [changes EXCEPT ![p] = changes[p] + 1] /\ changes[p] < MaxChanges[p]
    BY DEF IceChange
  <2>3. changes'[p] = changes[p] + 1 \/ changes'[p] = changes[p]
    BY <2>2
  <2>4. \A o \in Peers : o # p => changes'[o] = changes[o]
    BY <2>2
  <2> QED BY <2>1, <2>2, <2>3, <2>4
<1> QED BY <1>1, <1>2, <1>3, <1>4, <1>5, SayKeeps

\* The first message is heard by a client that was given none, the others by
\* an activity that has its peer connection.
LEMMA HeardWhat ==
  ASSUME Inv, NEW p \in Peers, ui[p] # <<>>, Head(ui[p]) \in Messages
  PROVE  /\ Head(ui[p]) = "offer" => p = "client" /\ got[p] = <<>>
         /\ Head(ui[p]) # "offer" /\ call[p] # "left" => pc[p] # "none"
<1> DEFINE o == Other(p)
<1>1. /\ Types /\ Made(p) /\ Lines /\ Local(o) /\ o \in Peers /\ o # p /\ ui[p] \in Seq(Events)
      /\ Line(o, p)
  BY InvNow, LinesOf
<1>2. Spoken(ui[p]) # <<>> /\ Spoken(ui[p])[1] = Head(ui[p]) /\ Spoken(ui[p])[1] # "none"
  BY <1>1, TakeEvent
<1>3. PICK i \in DOMAIN said[o] : /\ said[o][i] = Head(ui[p])
                                  /\ i = 1 => got[p] = <<>>
                                  /\ got[p] = <<>> /\ call[p] # "left" => i = 1
  BY <1>1, <1>2, WhatIsHeard
<1>4. /\ said[o] \in Seq(Own(o)) /\ FirstOnly(said[o], First(o)) /\ got[p] \in Seq(Messages)
      /\ said[p] \in Seq(Messages) /\ got[o] \in Seq(Messages)
  BY <1>1 DEF Types, TypeOK
<1>5. said[o] # <<>> /\ Head(ui[p]) \in Own(o) /\ 1 \in DOMAIN said[o]
      /\ (Head(ui[p]) = First(o) <=> i = 1)
  BY <1>3, <1>4 DEF FirstOnly
<1>6. CASE p = "client"
  <2>1. o = "server" /\ First(o) = "offer"
    BY <1>6, OtherPeer DEF First
  <2> QED BY <1>1, <1>3, <1>5, <1>6, <2>1 DEF Made
<1>7. CASE p = "server"
  <2>1. o = "client" /\ Head(ui[p]) # "offer"
    BY <1>5, <1>7, OtherPeer, IceAssumption DEF First, Own
  <2>2. got[o] # <<>>
    BY <1>1, <1>5, <2>1 DEF Local, Made
  <2>3. IsPrefix(got[o], said[p])
    BY <1>1, <1>7, <2>1, OtherPeer, GotSaid DEF Lines
  <2>4. said[p] # <<>>
    <3>1. Len(got[o]) <= Len(said[p])
      BY <1>4, <2>3, PrefixIs
    <3>2. Len(got[o]) # 0
      BY <1>4, <2>2
    <3> QED BY <1>4, <3>1, <3>2
  <2> QED BY <1>1, <2>1, <2>4 DEF Made
<1> QED BY <1>6, <1>7 DEF Peers

LEMMA UiParts ==
  ASSUME NEW p \in Peers, RunOnUiThread(p), ui[p] # <<>>
  PROVE  /\ ui' = [ui EXCEPT ![p] = Tail(ui[p])] /\ UNCHANGED <<changes, said, roomVars, netVars>>
         /\ Head(ui[p]) \in {"connected", "offer"} => EnterRoom(p, Head(ui[p]))
         /\ Head(ui[p]) \in {"answer"} \cup Ice => Hear(p, Head(ui[p]))
         /\ Head(ui[p]) = "close" => Leave(p) /\ UNCHANGED <<pc, got, alert>>
         /\ Head(ui[p]) = "error" =>
              /\ alert' = IF call[p] = "calling" THEN alert \cup {p} ELSE alert
              /\ UNCHANGED <<call, tasks, faults, pc, got>>
<1> DEFINE e == Head(ui[p])
           A == EnterRoom(p, e)
           B == Hear(p, e)
           C == Leave(p) /\ UNCHANGED <<pc, got, alert>>
           D == /\ alert' = IF call[p] = "calling" THEN alert \cup {p} ELSE alert
                /\ UNCHANGED <<call, tasks, faults, pc, got>>
<1>1. /\ ui' = [ui EXCEPT ![p] = Tail(ui[p])] /\ UNCHANGED <<changes, said, roomVars, netVars>>
      /\ CASE e \in {"connected", "offer"} -> A
           [] e \in {"answer"} \cup Ice -> B
           [] e = "close" -> C
           [] e = "error" -> D
  BY DEF RunOnUiThread
<1>2. \A x \in {"answer"} \cup Ice : x \notin {"connected", "offer", "close", "error"}
  BY IceAssumption
<1> HIDE DEF e, A, B, C, D
<1>3. /\ e \in {"connected", "offer"} => A
      /\ e \in {"answer"} \cup Ice => B
      /\ e = "close" => C
      /\ e = "error" => D
  BY <1>1, <1>2
<1> QED BY <1>1, <1>3 DEF e, A, B, C, D

LEMMA EnterRoomKeeps ==
  ASSUME Inv, NEW p \in Peers, ui[p] # <<>>, RunOnUiThread(p), Head(ui[p]) \in {"connected", "offer"}
  PROVE  Inv'
<1> DEFINE e == Head(ui[p])
<1>1. /\ Types /\ Started(p) /\ Lived(p) /\ Made(p) /\ Excused(p) /\ Lines
      /\ Local(Other(p)) /\ Other(p) \in Peers /\ Other(p) # p
      /\ Peers = {p, Other(p)}
      /\ tasks[p] \in Seq(Task) /\ ui[p] \in Seq(Events)
  BY InvNow
<1>2. /\ Tail(ui[p]) \in Seq(Events) /\ e \in Events /\ Spoken(ui[p]) \in Seq(Word)
      /\ \A x : In(ui[p], x) <=> (e = x \/ In(Tail(ui[p]), x))
      /\ \A x : One(ui[p], x) => One(Tail(ui[p]), x) /\ (e = x => ~In(Tail(ui[p]), x))
      /\ \A a, B : Before(ui[p], a, B) /\ e # a => Before(Tail(ui[p]), a, B)
      /\ Spoken(Tail(ui[p])) = Tail(Spoken(ui[p])) /\ Spoken(ui[p]) # <<>>
      /\ e \notin Messages => Follows(Spoken(ui[p]), Spoken(Tail(ui[p])))
      /\ e \in Messages => Spoken(ui[p])[1] = e /\ Spoken(ui[p])[1] # "none"
  BY <1>1, TakeEvent
<1>3. /\ ui' = [ui EXCEPT ![p] = Tail(ui[p])] /\ EnterRoom(p, e)
      /\ UNCHANGED <<changes, said, shut, room, client, thread, raw, end, listening, wire, broken>>
  BY UiParts DEF roomVars, netVars
<1>4. UNCHANGED <<call, tasks, alert>>
  BY <1>3 DEF EnterRoom
<1>5. ui' \in [Peers -> Seq(Events)] /\ ui'[p] = Tail(ui[p]) /\ ui'[Other(p)] = ui[Other(p)]
  BY <1>1, <1>2, <1>3 DEF Types, TypeOK
<1>6. /\ call[p] # "idle" /\ ~In(Dos(tasks[p]), "connect")
      /\ thread[p] \notin Early \cup {"announcing"} /\ room[p] # "NEW"
      /\ pc[p] = "none" /\ said[p] = <<>> /\ got[p] = <<>>
      /\ (e = "offer" => p = "client") /\ (p = "client" => e = "offer")
  <2>1. In(ui[p], e) /\ (In(ui[p], "connected") \/ In(ui[p], "offer"))
    BY <1>2
  <2>2. ui[p] # <<>> /\ "connected" \notin {"close", "error"} /\ "offer" \notin {"close", "error"}
        /\ "connected" \in Events /\ "offer" \in Events
    BY DEF Events, Messages
  <2>3. call[p] # "idle" /\ ~In(Dos(tasks[p]), "connect")
    BY <1>1, <2>2 DEF Started
  <2>4. thread[p] \notin Early \cup {"announcing"}
    BY <1>1, <1>2, <2>1, <2>2 DEF Lived
  <2>5. room[p] # "NEW"
    BY <1>1, <1>2, <2>1 DEF Made
  <2>6. e = "offer" => p = "client" /\ got[p] = <<>>
    BY HeardWhat DEF Messages
  <2>7. p = "client" => e = "offer"
    BY <1>1, <1>2 DEF Made
  <2>8. p = "server" => e = "connected" /\ pc[p] = "none"
    BY <1>1, <1>2, <2>6 DEF Made
  <2>9. pc[p] = "none" /\ got[p] = <<>>
    BY <1>1, <2>6, <2>7, <2>8 DEF Made, Peers
  <2>10. said[p] = <<>>
    BY <1>1, <2>9 DEF Made
  <2> QED BY <2>3, <2>4, <2>5, <2>6, <2>7, <2>9, <2>10
<1>7. /\ pc' \in [Peers -> {"none", "made", "described"}] /\ pc'[Other(p)] = pc[Other(p)]
      /\ got' \in [Peers -> Seq(Messages)] /\ got'[Other(p)] = got[Other(p)]
      /\ faults' \subseteq Peers /\ (Other(p) \in faults' <=> Other(p) \in faults)
      /\ call[p] = "left" => pc'[p] = pc[p] /\ got'[p] = got[p]
      /\ call[p] # "left" => /\ pc'[p] = "made" /\ faults' = faults
                             /\ got'[p] = IF e = "offer" THEN Append(got[p], e) ELSE got[p]
  <2>1. /\ pc \in [Peers -> {"none", "made", "described"}] /\ got \in [Peers -> Seq(Messages)]
        /\ faults \subseteq Peers
    BY <1>1 DEF Types, TypeOK
  <2>2. CASE call[p] = "left"
    BY <1>1, <1>3, <2>1, <2>2 DEF EnterRoom
  <2>3. CASE call[p] # "left" /\ e = "offer"
    <3>1. Append(got[p], e) \in Seq(Messages)
      BY <2>1, <2>3 DEF Messages
    <3>2. pc' = [pc EXCEPT ![p] = "made"] /\ got' = [got EXCEPT ![p] = Append(got[p], e)] /\ faults' = faults
      BY <1>3, <2>3 DEF EnterRoom
    <3> QED BY <1>1, <2>1, <2>3, <3>1, <3>2
  <2>4. CASE call[p] # "left" /\ e # "offer"
    <3>1. pc' = [pc EXCEPT ![p] = "made"] /\ got' = got /\ faults' = faults
      BY <1>3, <2>4 DEF EnterRoom
    <3> QED BY <1>1, <2>1, <2>4, <3>1
  <2> QED BY <2>2, <2>3, <2>4
<1>8. Types'
  BY <1>1, <1>3, <1>4, <1>5, <1>7 DEF Types, TypeOK
<1>9. Started(p)'
  BY <1>1, <1>3, <1>4, <1>6 DEF Started
<1>10. Lived(p)'
  BY <1>1, <1>3, <1>4, <1>6, <1>7 DEF Lived
<1>11. Made(p)'
  <2>1. got'[p] # <<>> => pc'[p] # "none"
    BY <1>6, <1>7
  <2>2. p = "client" => (pc'[p] # "none" => got'[p] # <<>>) /\ ~In(ui'[p], "connected")
    <3> SUFFICES ASSUME p = "client" PROVE (pc'[p] # "none" => got'[p] # <<>>) /\ ~In(ui'[p], "connected")
      OBVIOUS
    <3>1. e = "offer" /\ got[p] \in Seq(Messages) /\ e \in Messages
      BY <1>1, <1>6 DEF Types, TypeOK, Messages
    <3>2. Append(got[p], e) # <<>>
      BY <3>1, AppendParts
    <3>3. pc'[p] # "none" => got'[p] # <<>>
      BY <1>6, <1>7, <3>1, <3>2
    <3>4. ~In(ui'[p], "connected")
      BY <1>1, <1>2, <1>5 DEF Made
    <3> QED BY <3>3, <3>4
  <2>3. p = "server" => ~In(Dos(tasks[p]), "connected") /\ ~In(ui'[p], "connected")
    <3> SUFFICES ASSUME p = "server" PROVE ~In(Dos(tasks[p]), "connected") /\ ~In(ui'[p], "connected")
      OBVIOUS
    <3>1. e = "connected" /\ One(ui[p], "connected") /\ In(ui[p], "connected")
      BY <1>1, <1>2, <1>6 DEF Made
    <3> QED BY <1>1, <1>2, <1>5, <3>1 DEF Made
  <2>4. p = "server" => One(ui'[p], "connected")
    BY <1>1, <1>2, <1>5 DEF Made
  <2> QED BY <1>1, <1>3, <1>4, <1>6, <1>7, <2>1, <2>2, <2>3, <2>4 DEF Made
<1>12. Excused(p)'
  BY <1>1, <1>2, <1>3, <1>4, <1>5, <1>6 DEF Excused
<1>13. Local(Other(p))'
  BY <1>1, <1>3, <1>4, <1>5, <1>7, Elsewhere DEF Still
<1>14. Line(p, Other(p))'
  <2>1. Line(p, Other(p)) /\ Cut(p, Other(p))
    BY <1>1, <1>3, LinesOf DEF Cut
  <2>2. /\ Follows(Spoken(ui[Other(p)]), Spoken(ui'[Other(p)]))
        /\ \A o \in Peers : \A k \in Carrying : Follows(View(tasks[o], k), View(tasks'[o], k))
    BY <1>1, <1>4, <1>5, LineTypes
  <2> QED BY <1>1, <1>3, <1>4, <1>7, <2>1, <2>2, LineStill DEF Carrying
<1>15. Line(Other(p), p)'
  <2>1. Line(Other(p), p) /\ Cut(Other(p), p)
    BY <1>1, <1>3, LinesOf DEF Cut
  <2>2. CASE e = "offer"
    <3>1. /\ Spoken(ui[p]) # <<>> /\ Spoken(ui[p])[1] # "none" /\ Spoken(ui[p])[1] = e
          /\ Spoken(ui'[p]) = Tail(Spoken(ui[p]))
      BY <1>2, <1>5, <2>2 DEF Messages
    <3>2. got'[p] = IF call[p] = "left" THEN got[p] ELSE Append(got[p], Spoken(ui[p])[1])
      BY <1>7, <2>2, <3>1
    <3> QED BY <1>1, <1>3, <1>4, <2>1, <3>1, <3>2, LineHear
  <2>3. CASE e # "offer"
    <3>1. e \notin Messages
      BY <2>3, IceAssumption DEF Messages
    <3>2. got'[p] = got[p] /\ Follows(Spoken(ui[p]), Spoken(ui'[p]))
      BY <1>2, <1>5, <1>7, <2>3, <3>1
    <3>3. \A o \in Peers : \A k \in Carrying : Follows(View(tasks[o], k), View(tasks'[o], k))
      BY <1>1, <1>4, LineTypes
    <3> QED BY <1>1, <1>3, <1>4, <2>1, <3>2, <3>3, LineStill DEF Carrying
  <2> QED BY <2>2, <2>3
<1> QED BY <1>1, <1>8, <1>9, <1>10, <1>11, <1>12, <1>13, <1>14, <1>15, LinesOf, InvNext

LEMMA HearKeeps ==
  ASSUME Inv, NEW p \in Peers, ui[p] # <<>>, RunOnUiThread(p), Head(ui[p]) \in {"answer"} \cup Ice
  PROVE  Inv'
<1> DEFINE e == Head(ui[p])
<1>1. /\ Types /\ Started(p) /\ Lived(p) /\ Made(p) /\ Excused(p) /\ Lines
      /\ Local(Other(p)) /\ Other(p) \in Peers /\ Other(p) # p
      /\ Peers = {p, Other(p)}
      /\ tasks[p] \in Seq(Task) /\ ui[p] \in Seq(Events)
  BY InvNow
<1>2. e \in Messages /\ e \notin {"offer", "close", "error", "connected"}
  BY IceAssumption DEF Messages
<1>3. /\ Tail(ui[p]) \in Seq(Events) /\ e \in Events
      /\ \A x : In(ui[p], x) <=> (e = x \/ In(Tail(ui[p]), x))
      /\ \A x : One(ui[p], x) => One(Tail(ui[p]), x)
      /\ \A a, B : Before(ui[p], a, B) /\ e # a => Before(Tail(ui[p]), a, B)
      /\ Spoken(Tail(ui[p])) = Tail(Spoken(ui[p])) /\ Spoken(ui[p]) # <<>>
      /\ Spoken(ui[p])[1] = e /\ Spoken(ui[p])[1] # "none"
  BY <1>1, <1>2, TakeEvent
<1>4. /\ ui' = [ui EXCEPT ![p] = Tail(ui[p])] /\ Hear(p, e)
      /\ UNCHANGED <<changes, said, shut, room, client, thread, raw, end, listening, wire, broken>>
  BY UiParts DEF roomVars, netVars
<1>5. UNCHANGED <<call, tasks, faults, pc, alert>>
  BY <1>4 DEF Hear
<1>6. /\ ui' \in [Peers -> Seq(Events)] /\ ui'[p] = Tail(ui[p]) /\ ui'[Other(p)] = ui[Other(p)]
  BY <1>1, <1>3, <1>4 DEF Types, TypeOK
<1>7. /\ got' \in [Peers -> Seq(Messages)] /\ got'[Other(p)] = got[Other(p)]
      /\ got'[p] = IF call[p] = "left" THEN got[p] ELSE Append(got[p], e)
      /\ got[p] # <<>> => got'[p] # <<>>
  <2>1. got \in [Peers -> Seq(Messages)] /\ got[p] \in Seq(Messages)
    BY <1>1 DEF Types, TypeOK
  <2>2. Append(got[p], e) \in Seq(Messages) /\ Append(got[p], e) # <<>>
    BY <1>2, <2>1, AppendParts
  <2>3. CASE call[p] = "left"
    BY <1>4, <2>1, <2>3 DEF Hear
  <2>4. CASE call[p] # "left"
    <3>1. got' = [got EXCEPT ![p] = Append(got[p], e)]
      BY <1>4, <2>4 DEF Hear
    <3> QED BY <1>1, <2>1, <2>2, <2>4, <3>1
  <2> QED BY <2>3, <2>4
<1>8. call[p] # "left" => pc[p] # "none"
  BY <1>2, HeardWhat
<1>9. Types'
  BY <1>1, <1>4, <1>5, <1>6, <1>7 DEF Types, TypeOK
<1>10. Started(p)'
  BY <1>1, <1>3, <1>4, <1>5, <1>6 DEF Started
<1>11. Lived(p)'
  BY <1>1, <1>3, <1>4, <1>5, <1>6 DEF Lived
<1>12. Made(p)'
  BY <1>1, <1>3, <1>4, <1>5, <1>6, <1>7, <1>8 DEF Made
<1>13. Excused(p)'
  BY <1>1, <1>2, <1>3, <1>4, <1>5, <1>6 DEF Excused
<1>14. Local(Other(p))'
  BY <1>1, <1>4, <1>5, <1>6, <1>7, Elsewhere DEF Still
<1>15. Line(p, Other(p))'
  <2>1. Line(p, Other(p)) /\ Cut(p, Other(p))
    BY <1>1, <1>4, LinesOf DEF Cut
  <2>2. /\ Follows(Spoken(ui[Other(p)]), Spoken(ui'[Other(p)]))
        /\ \A o \in Peers : \A k \in Carrying : Follows(View(tasks[o], k), View(tasks'[o], k))
    BY <1>1, <1>5, <1>6, LineTypes
  <2> QED BY <1>1, <1>4, <1>5, <1>7, <2>1, <2>2, LineStill DEF Carrying
<1>16. Line(Other(p), p)'
  <2>1. Line(Other(p), p)
    BY <1>1, LinesOf
  <2>2. /\ Spoken(ui'[p]) = Tail(Spoken(ui[p]))
        /\ got'[p] = IF call[p] = "left" THEN got[p] ELSE Append(got[p], Spoken(ui[p])[1])
    BY <1>3, <1>6, <1>7
  <2> QED BY <1>1, <1>3, <1>4, <1>5, <2>1, <2>2, LineHear
<1> QED BY <1>1, <1>9, <1>10, <1>11, <1>12, <1>13, <1>14, <1>15, <1>16, LinesOf, InvNext

LEMMA CloseHeardKeeps ==
  ASSUME Inv, NEW p \in Peers, ui[p] # <<>>, RunOnUiThread(p), Head(ui[p]) = "close"
  PROVE  Inv'
<1>1. /\ Types /\ Started(p) /\ Lived(p) /\ Made(p) /\ Excused(p) /\ Lines
      /\ Local(Other(p)) /\ Other(p) \in Peers /\ Other(p) # p
      /\ Peers = {p, Other(p)}
      /\ tasks[p] \in Seq(Task) /\ ui[p] \in Seq(Events)
  BY InvNow
<1>2. "close" \notin Messages
  BY IceAssumption DEF Messages
<1>3. /\ Tail(ui[p]) \in Seq(Events)
      /\ \A x : In(ui[p], x) <=> ("close" = x \/ In(Tail(ui[p]), x))
      /\ \A x : One(ui[p], x) => One(Tail(ui[p]), x)
      /\ Follows(Spoken(ui[p]), Spoken(Tail(ui[p])))
  BY <1>1, <1>2, TakeEvent
<1>4. /\ ui' = [ui EXCEPT ![p] = Tail(ui[p])] /\ Leave(p)
      /\ UNCHANGED <<changes, said, shut, room, client, thread, raw, end, listening, wire, broken, pc, got, alert>>
  BY UiParts DEF roomVars, netVars
<1>5. /\ ui' \in [Peers -> Seq(Events)] /\ ui'[p] = Tail(ui[p]) /\ ui'[Other(p)] = ui[Other(p)]
  BY <1>1, <1>3, <1>4 DEF Types, TypeOK
<1>6. call[p] # "idle" /\ ~In(Dos(tasks[p]), "connect") /\ (call[p] = "calling" => ~shut[p])
  <2>1. ui[p] # <<>>
    OBVIOUS
  <2> QED BY <1>1, <2>1 DEF Started, Lived
<1>7. /\ call' \in [Peers -> {"idle", "calling", "left"}] /\ call'[p] = "left"
      /\ call'[Other(p)] = call[Other(p)]
      /\ tasks' \in [Peers -> Seq(Task)] /\ faults' \subseteq Peers
      /\ tasks'[Other(p)] = tasks[Other(p)]
      /\ Other(p) \in faults' <=> Other(p) \in faults
      /\ \A k \in Carrying : Follows(View(tasks[p], k), View(tasks'[p], k))
      /\ \A x : In(Dos(tasks'[p]), x)
                 <=> (In(Dos(tasks[p]), x) \/ (x = "disconnect" /\ In(Dos(tasks'[p]), x)))
      /\ \A x : One(Dos(tasks[p]), x) /\ x # "disconnect" => One(Dos(tasks'[p]), x)
  <2>1. /\ call \in [Peers -> {"idle", "calling", "left"}] /\ tasks \in [Peers -> Seq(Task)]
        /\ faults \subseteq Peers
    BY <1>1 DEF Types, TypeOK
  <2>2. CASE call[p] = "calling"
    <3>1. Do("disconnect") \in Task /\ Do("disconnect").do = "disconnect"
      BY TaskMade DEF Act, Carrying
    <3>2. call' = [call EXCEPT ![p] = "left"] /\ Execute(p, Do("disconnect"))
      BY <1>4, <2>2 DEF Leave
    <3>3. /\ tasks' \in [Peers -> Seq(Task)] /\ faults' \subseteq Peers
          /\ tasks'[Other(p)] = tasks[Other(p)]
          /\ Other(p) \in faults' <=> Other(p) \in faults
          /\ tasks'[p] = Append(tasks[p], Do("disconnect"))
      BY <1>1, <1>6, <2>2, <3>1, <3>2, Executed
    <3>4. /\ \A k \in Carrying : Follows(View(tasks[p], k), View(tasks'[p], k))
          /\ \A x : In(Dos(tasks'[p]), x) <=> (In(Dos(tasks[p]), x) \/ x = "disconnect")
          /\ \A x : One(Dos(tasks[p]), x) /\ x # "disconnect" => One(Dos(tasks'[p]), x)
      BY SMTT(30), <1>1, <3>1, <3>3, PostTask DEF Carrying
    <3>5. /\ call' \in [Peers -> {"idle", "calling", "left"}] /\ call'[p] = "left"
          /\ call'[Other(p)] = call[Other(p)]
      BY <1>1, <2>1, <3>2
    <3> QED BY <3>3, <3>4, <3>5
  <2>3. CASE call[p] # "calling"
    <3>1. UNCHANGED <<call, tasks, faults>> /\ call[p] = "left"
      BY <1>4, <1>6, <2>1, <2>3 DEF Leave
    <3>2. \A k \in Carrying : Follows(View(tasks[p], k), View(tasks'[p], k))
      BY <1>1, <3>1, LineTypes
    <3> QED BY <2>1, <3>1, <3>2
  <2> QED BY <2>2, <2>3
<1>8. Types'
  BY <1>1, <1>4, <1>5, <1>7 DEF Types, TypeOK
<1>9. Started(p)'
  BY <1>1, <1>4, <1>5, <1>6, <1>7 DEF Started
<1>10. Lived(p)'
  BY <1>1, <1>3, <1>4, <1>5, <1>7 DEF Lived
<1>11. Made(p)'
  BY <1>1, <1>3, <1>4, <1>5, <1>7 DEF Made
<1>12. Excused(p)'
  BY <1>1, <1>4, <1>7 DEF Excused
<1>13. Local(Other(p))'
  BY <1>1, <1>4, <1>5, <1>7, Elsewhere DEF Still
<1>14. Lines'
  <2>1. Cut(p, Other(p)) /\ Cut(Other(p), p)
    BY <1>4 DEF Cut
  <2>2. \A o \in Peers : call[o] = "left" => call'[o] = "left"
    BY <1>1, <1>7
  <2>3. Follows(Spoken(ui[p]), Spoken(ui'[p]))
    BY <1>3, <1>5
  <2> QED BY <1>1, <1>4, <1>5, <1>7, <2>1, <2>2, <2>3, LinesStill
<1> QED BY <1>8, <1>9, <1>10, <1>11, <1>12, <1>13, <1>14, InvNext

LEMMA ErrorHeardKeeps ==
  ASSUME Inv, NEW p \in Peers, ui[p] # <<>>, RunOnUiThread(p), Head(ui[p]) = "error"
  PROVE  Inv'
<1>1. /\ Types /\ Started(p) /\ Lived(p) /\ Made(p) /\ Excused(p) /\ Lines
      /\ Local(Other(p)) /\ Other(p) \in Peers /\ Other(p) # p
      /\ Peers = {p, Other(p)}
      /\ tasks[p] \in Seq(Task) /\ ui[p] \in Seq(Events)
  BY InvNow
<1>2. "error" \notin Messages
  BY IceAssumption DEF Messages
<1>3. /\ Tail(ui[p]) \in Seq(Events)
      /\ \A x : In(ui[p], x) <=> ("error" = x \/ In(Tail(ui[p]), x))
      /\ \A x : One(ui[p], x) => One(Tail(ui[p]), x)
      /\ ~Before(ui[p], "close", {"error"})
      /\ Follows(Spoken(ui[p]), Spoken(Tail(ui[p])))
  BY <1>1, <1>2, TakeEvent
<1>4. /\ ui' = [ui EXCEPT ![p] = Tail(ui[p])]
      /\ alert' = IF call[p] = "calling" THEN alert \cup {p} ELSE alert
      /\ UNCHANGED <<changes, said, shut, room, client, thread, raw, end, listening, wire, broken, pc, got,
                     call, tasks, faults>>
  BY UiParts DEF roomVars, netVars
<1>5. /\ ui' \in [Peers -> Seq(Events)] /\ ui'[p] = Tail(ui[p]) /\ ui'[Other(p)] = ui[Other(p)]
      /\ alert' \subseteq Peers /\ (Other(p) \in alert' <=> Other(p) \in alert)
  BY <1>1, <1>3, <1>4 DEF Types, TypeOK
<1>6. Types'
  BY <1>1, <1>4, <1>5 DEF Types, TypeOK
<1>7. Started(p)'
  BY <1>1, <1>4, <1>5 DEF Started
<1>8. Lived(p)'
  BY <1>1, <1>3, <1>4, <1>5 DEF Lived
<1>9. Made(p)'
  BY <1>1, <1>3, <1>4, <1>5 DEF Made
<1>10. Excused(p)'
  <2>1. broken \/ call[p] = "left"
    BY <1>1, <1>3 DEF Excused
  <2> QED BY <1>1, <1>4, <2>1 DEF Excused
<1>11. Local(Other(p))'
  BY <1>1, <1>4, <1>5, Elsewhere DEF Still
<1>12. Lines'
  <2>1. Cut(p, Other(p)) /\ Cut(Other(p), p)
    BY <1>4 DEF Cut
  <2>2. \A k \in Carrying : Follows(View(tasks[p], k), View(tasks'[p], k))
    BY <1>1, <1>4, LineTypes
  <2>3. Follows(Spoken(ui[p]), Spoken(ui'[p]))
    BY <1>3, <1>5
  <2> QED BY <1>1, <1>4, <1>5, <2>1, <2>2, <2>3, LinesStill
<1> QED BY <1>6, <1>7, <1>8, <1>9, <1>10, <1>11, <1>12, InvNext

LEMMA RunOnUiThreadKeeps ==
  ASSUME Inv, NEW p \in Peers, RunOnUiThread(p)
  PROVE  Inv'
<1>1. ui[p] # <<>> /\ ui[p] \in Seq(Events)
  BY InvNow DEF RunOnUiThread
<1>2. Head(ui[p]) \in Events
  BY <1>1, TailParts
<1>3. CASE Head(ui[p]) \in {"connected", "offer"}
  BY <1>1, <1>3, EnterRoomKeeps
<1>4. CASE Head(ui[p]) \in {"answer"} \cup Ice
  BY <1>1, <1>4, HearKeeps
<1>5. CASE Head(ui[p]) = "close"
  BY <1>1, <1>5, CloseHeardKeeps
<1>6. CASE Head(ui[p]) = "error"
  BY <1>1, <1>6, ErrorHeardKeeps
<1> QED BY <1>2, <1>3, <1>4, <1>5, <1>6 DEF Events, Messages

\* A task is taken and another is posted.
LEMMA TurnTask ==
  ASSUME NEW q \in Seq(Task), q # <<>>, NEW t \in Task, NEW q2, q2 = Append(Tail(q), t)
  PROVE  /\ \A x : In(Dos(q2), x) <=> (In(Dos(Tail(q)), x) \/ x = t.do)
         /\ \A x : One(Dos(q), x) /\ x # t.do => One(Dos(q2), x)
         /\ \A a, B : Before(Dos(q), a, B) /\ Head(q).do # a /\ (t.do \in B => In(Dos(q), a))
              => Before(Dos(q2), a, B)
         /\ \A k \in Carrying \ {t.do} :
              /\ k # Head(q).do => Follows(View(q, k), View(q2, k))
              /\ Follows(Tail(View(q, k)), View(q2, k))
         /\ \A k \in Carrying :
              k = t.do => View(q2, k) = Append(View(Tail(q), k), t.msg)
<1> DEFINE r == Tail(q)
<1>1. /\ r \in Seq(Task)
      /\ \A x : In(Dos(q), x) <=> (Head(q).do = x \/ In(Dos(r), x))
      /\ \A x : One(Dos(q), x) => One(Dos(r), x)
      /\ \A a, B : Before(Dos(q), a, B) /\ Head(q).do # a => Before(Dos(r), a, B)
      /\ \A k \in Carrying : /\ View(r, k) = Tail(View(q, k))
                             /\ k # Head(q).do => Follows(View(q, k), View(r, k))
  BY TakeTask
<1> HIDE DEF r
<1> DEFINE s == Append(r, t)
<1>2. /\ \A x : In(Dos(s), x) <=> (In(Dos(r), x) \/ x = t.do)
      /\ \A x : One(Dos(r), x) /\ (x = t.do => ~In(Dos(r), x)) => One(Dos(s), x)
      /\ \A a, B : Before(Dos(r), a, B) /\ (t.do \in B => In(Dos(r), a)) => Before(Dos(s), a, B)
      /\ \A k \in Carrying : /\ k # t.do => Follows(View(r, k), View(s, k))
                             /\ k = t.do => View(s, k) = Append(View(r, k), t.msg)
  BY <1>1, PostTask
<1>3. q2 = s
  BY DEF r
<1> HIDE DEF s
<1>4. \A k \in Carrying \ {t.do} :
        /\ k # Head(q).do => Follows(View(q, k), View(s, k))
        /\ Follows(Tail(View(q, k)), View(s, k))
  BY <1>1, <1>2, FollowsTwice
<1>5. \A a, B : Before(Dos(q), a, B) /\ Head(q).do # a /\ (t.do \in B => In(Dos(q), a))
         => Before(Dos(s), a, B)
  BY <1>1, <1>2
<1> QED BY <1>1, <1>2, <1>3, <1>4, <1>5 DEF r

-----------------------------------------------------------------------------
(* The steps keep the invariant: the executor.                              *)

\* The task that connects is the first one.
LEMMA TaskTaken ==
  ASSUME Inv, NEW p \in Peers, tasks[p] # <<>>, Head(tasks[p]).do # "connect"
  PROVE  /\ call[p] # "idle" /\ ~In(Dos(tasks[p]), "connect") /\ ~In(Dos(Tail(tasks[p])), "connect")
         /\ client[p] <=> ~shut[p]
<1>1. Started(p) /\ tasks[p] \in Seq(Task)
  BY InvNow
<1>2. Dos(tasks[p])[1] = Head(tasks[p]).do
  BY <1>1, TakeTask
<1>3. call[p] # "idle" /\ ~In(Dos(tasks[p]), "connect")
  BY <1>1, <1>2 DEF Started
<1>4. ~In(Dos(Tail(tasks[p])), "connect")
  BY <1>1, <1>3, TakeTask
<1> QED BY <1>1, <1>3, <1>4 DEF Started

\* A message is sent or written by a phone that has its description.
LEMMA MessageSaid ==
  ASSUME Inv, NEW p \in Peers, tasks[p] # <<>>, Head(tasks[p]).do \in {"send", "write"}
  PROVE  /\ said[p] # <<>> /\ room[p] # "NEW" /\ thread[p] \notin Early \cup {"announcing"}
<1>1. /\ Types /\ Lived(p) /\ Made(p) /\ Lines /\ tasks[p] \in Seq(Task)
      /\ Other(p) \in Peers /\ Line(p, Other(p))
  BY InvNow, LinesOf
<1> DEFINE k == Head(tasks[p]).do
<1>2. k \in {"send", "write"} /\ k \in Carrying
  BY DEF Carrying
<1>3. View(tasks[p], k) # <<>> /\ View(tasks[p], k)[1] # "none"
  BY <1>1, <1>2, TakeTask
<1> HIDE DEF k
<1>4. said[p] # <<>>
  BY <1>1, <1>2, <1>3, SaidBefore
<1> QED BY <1>1, <1>4 DEF Lived, Made

LEMMA ConnectKeeps ==
  ASSUME Inv, NEW p \in Peers, tasks[p] # <<>>, Head(tasks[p]).do = "connect", ConnectToRoom(p),
         UNCHANGED uiVars
  PROVE  Inv'
<1>1. /\ Types /\ Started(p) /\ Lived(p) /\ Made(p) /\ Excused(p) /\ Lines
      /\ Local(Other(p)) /\ Other(p) \in Peers /\ Other(p) # p
      /\ Peers = {p, Other(p)}
      /\ tasks[p] \in Seq(Task) /\ ui[p] \in Seq(Events)
  BY InvNow
<1>2. /\ \A x : In(Dos(tasks[p]), x) <=> ("connect" = x \/ In(Dos(Tail(tasks[p])), x))
      /\ One(Dos(tasks[p]), "connect") => ~In(Dos(Tail(tasks[p])), "connect")
      /\ \A k \in Carrying : Follows(View(tasks[p], k), View(Tail(tasks[p]), k))
  BY SMTT(30), <1>1, TakeTask DEF Carrying
<1>3. /\ tasks' \in [Peers -> Seq(Task)] /\ faults' = faults
      /\ tasks'[Other(p)] = tasks[Other(p)] /\ tasks'[p] = Tail(tasks[p])
  BY <1>1, FinishNone DEF ConnectToRoom
<1>4. /\ call[p] # "idle" /\ ui[p] = <<>> /\ thread[p] = "none" /\ ~shut[p] /\ pc[p] = "none"
      /\ room[p] = "NEW" /\ ~In(Dos(Tail(tasks[p])), "connect")
      /\ \A x \in Act : In(Dos(Tail(tasks[p])), x) => x = "disconnect"
  BY <1>1, <1>2 DEF Started
<1>5. /\ room' = [room EXCEPT ![p] = "NEW"] /\ client' = [client EXCEPT ![p] = TRUE]
      /\ thread' = [thread EXCEPT ![p] = "connecting"]
      /\ UNCHANGED <<call, pc, changes, alert, said, got, shut, ui, raw, end, listening, wire, broken>>
  BY DEF ConnectToRoom, uiVars
<1>6. /\ room' \in [Peers -> {"NEW", "CONNECTED", "CLOSED", "ERROR"}] /\ room'[p] = "NEW"
      /\ client' \in [Peers -> BOOLEAN] /\ client'[p]
      /\ thread' \in [Peers -> {"none", "connecting", "accepting", "opening",
                                "announcing", "reading", "posting", "closing", "dead"}]
      /\ thread'[p] = "connecting"
      /\ room'[Other(p)] = room[Other(p)] /\ client'[Other(p)] = client[Other(p)]
      /\ thread'[Other(p)] = thread[Other(p)]
  BY <1>1, <1>5 DEF Types, TypeOK
<1>7. ~raw[p] /\ said[p] = <<>>
  BY <1>1, <1>4 DEF Types, Made, Early
<1>8. Types'
  BY SMTT(30), <1>1, <1>3, <1>5, <1>6, <1>7 DEF Types, TypeOK, Early
<1>9. Started(p)'
  BY <1>3, <1>4, <1>5, <1>6 DEF Started
<1>10. Lived(p)'
  <2>1. "connected" \in Act /\ "receive" \in Act
    BY DEF Act
  <2>2. \A x \in Events : ~In(ui[p], x)
    BY <1>4 DEF In
  <2> QED BY <1>1, <1>2, <1>3, <1>4, <1>5, <1>6, <2>1, <2>2 DEF Lived, Early, Opened
<1>11. Made(p)'
  <2>1. "connected" \in Act
    BY DEF Act
  <2>2. ~In(ui[p], "connected") /\ ~In(ui[p], "offer") /\ One(ui[p], "connected")
    BY <1>4 DEF In, One
  <2>3. One(Dos(Tail(tasks[p])), "connected")
    BY <1>4, <2>1 DEF In, One
  <2> QED BY <1>1, <1>3, <1>4, <1>5, <1>6, <2>1, <2>2, <2>3 DEF Made
<1>12. Excused(p)'
  <2>1. Before(ui[p], "close", {"error"})
    BY <1>4 DEF Before
  <2>2. Before(Dos(Tail(tasks[p])), "tcpClose", {"tcpError", "roomError"})
    BY <1>4 DEF Before, In, Act
  <2> QED BY <1>1, <1>3, <1>4, <1>5, <1>6, <2>1, <2>2 DEF Excused
<1>13. Local(Other(p))'
  BY <1>1, <1>3, <1>5, <1>6, Elsewhere DEF Still
<1>14. Lines'
  <2>1. Cut(p, Other(p)) /\ Cut(Other(p), p)
    BY <1>4, <1>5, <1>6, <1>7 DEF Cut
  <2>2. \A k \in Carrying : Follows(View(tasks[p], k), View(tasks'[p], k))
    BY <1>2, <1>3
  <2>3. Follows(Spoken(ui[p]), Spoken(ui'[p]))
    BY <1>1, <1>5, LineTypes
  <2> QED BY <1>1, <1>3, <1>5, <2>1, <2>2, <2>3, LinesStill
<1> QED BY <1>8, <1>9, <1>10, <1>11, <1>12, <1>13, <1>14, InvNext

LEMMA DisconnectKeeps ==
  ASSUME Inv, NEW p \in Peers, tasks[p] # <<>>, Head(tasks[p]).do = "disconnect", DisconnectFromRoom(p),
         UNCHANGED uiVars
  PROVE  Inv'
<1>1. /\ Types /\ Started(p) /\ Lived(p) /\ Made(p) /\ Excused(p) /\ Lines
      /\ Local(Other(p)) /\ Other(p) \in Peers /\ Other(p) # p
      /\ Peers = {p, Other(p)}
      /\ tasks[p] \in Seq(Task) /\ ui[p] \in Seq(Events)
  BY InvNow
<1>2. /\ Tail(tasks[p]) \in Seq(Task)
      /\ \A x : In(Dos(tasks[p]), x) <=> ("disconnect" = x \/ In(Dos(Tail(tasks[p])), x))
      /\ \A x : One(Dos(tasks[p]), x) => One(Dos(Tail(tasks[p])), x)
      /\ \A k \in Carrying : Follows(View(tasks[p], k), View(Tail(tasks[p]), k))
  BY <1>1, TakeTask DEF Carrying
<1>3. call[p] = "left" /\ ~In(Dos(Tail(tasks[p])), "connect") /\ (client[p] <=> ~shut[p])
  BY <1>1, <1>2, TaskTaken DEF Lived
<1>4. /\ tasks' \in [Peers -> Seq(Task)] /\ faults' \subseteq Peers
      /\ tasks'[Other(p)] = tasks[Other(p)]
      /\ Other(p) \in faults' <=> Other(p) \in faults
      /\ \A k \in Carrying : Follows(View(tasks[p], k), View(tasks'[p], k))
      /\ \A x : In(Dos(tasks'[p]), x) /\ x # "tcpClose" => In(Dos(Tail(tasks[p])), x)
      /\ \A x : One(Dos(tasks[p]), x) /\ x # "tcpClose" => One(Dos(tasks'[p]), x)
  <2>1. CASE client[p] /\ raw[p]
    <3>1. Do("tcpClose") \in Task /\ Do("tcpClose").do = "tcpClose"
      BY TaskMade DEF Act, Carrying
    <3>2. /\ tasks' \in [Peers -> Seq(Task)] /\ faults' \subseteq Peers
          /\ tasks'[Other(p)] = tasks[Other(p)]
          /\ Other(p) \in faults' <=> Other(p) \in faults
          /\ tasks'[p] = Append(Tail(tasks[p]), Do("tcpClose"))
      BY <1>1, <1>3, <2>1, <3>1, FinishOne DEF DisconnectFromRoom
    <3>3. /\ \A x : In(Dos(tasks'[p]), x) <=> (In(Dos(Tail(tasks[p])), x) \/ x = "tcpClose")
          /\ \A x : One(Dos(tasks[p]), x) /\ x # "tcpClose" => One(Dos(tasks'[p]), x)
          /\ \A k \in Carrying : Follows(View(tasks[p], k), View(tasks'[p], k))
      BY <1>1, <3>1, <3>2, TurnTask DEF Carrying
    <3> QED BY <3>2, <3>3
  <2>2. CASE ~(client[p] /\ raw[p])
    <3>1. /\ tasks' \in [Peers -> Seq(Task)] /\ faults' = faults
          /\ tasks'[Other(p)] = tasks[Other(p)] /\ tasks'[p] = Tail(tasks[p])
      BY <1>1, <2>2, FinishNone DEF DisconnectFromRoom
    <3> QED BY <1>1, <1>2, <3>1 DEF Types, TypeOK
  <2> QED BY <2>1, <2>2
<1>5. /\ room' = [room EXCEPT ![p] = "CLOSED"] /\ client' = [client EXCEPT ![p] = FALSE]
      /\ shut' = [shut EXCEPT ![p] = TRUE]
      /\ UNCHANGED <<call, pc, changes, alert, said, got, ui, thread, wire, broken>>
  BY DEF DisconnectFromRoom, uiVars
<1>6. /\ room' \in [Peers -> {"NEW", "CONNECTED", "CLOSED", "ERROR"}] /\ room'[p] = "CLOSED"
      /\ client' \in [Peers -> BOOLEAN] /\ ~client'[p]
      /\ shut' \in [Peers -> BOOLEAN] /\ shut'[p]
      /\ room'[Other(p)] = room[Other(p)] /\ client'[Other(p)] = client[Other(p)]
      /\ shut'[Other(p)] = shut[Other(p)]
  BY <1>1, <1>5 DEF Types, TypeOK
<1>7. /\ raw' \in [Peers -> BOOLEAN] /\ end' \in [Peers -> BOOLEAN] /\ listening' \in BOOLEAN
      /\ raw'[Other(p)] = raw[Other(p)] /\ end'[Other(p)] = end[Other(p)]
      /\ (raw'[p] => raw[p]) /\ (end'[p] => end[p]) /\ (raw'[p] => end'[p])
      /\ (~raw[p] => end'[p] = end[p])
      /\ Other(p) = "server" => listening' = listening
  <2>1. /\ raw \in [Peers -> BOOLEAN] /\ end \in [Peers -> BOOLEAN] /\ listening \in BOOLEAN
        /\ (raw[p] => end[p])
    BY <1>1 DEF Types, TypeOK
  <2>2. CASE client[p]
    <3>1. /\ listening' = (listening /\ p # "server") /\ raw' = [raw EXCEPT ![p] = FALSE]
          /\ end' = [end EXCEPT ![p] = end[p] /\ ~raw[p]]
      BY <2>2 DEF DisconnectFromRoom, CloseSocket
    <3>2. raw' \in [Peers -> BOOLEAN] /\ raw'[Other(p)] = raw[Other(p)] /\ ~raw'[p]
      BY <1>1, <2>1, <3>1
    <3>3. /\ end' \in [Peers -> BOOLEAN] /\ end'[Other(p)] = end[Other(p)]
          /\ end'[p] <=> end[p] /\ ~raw[p]
      BY <1>1, <2>1, <3>1
    <3>4. listening' \in BOOLEAN /\ (Other(p) = "server" => listening' = listening)
      BY <1>1, <2>1, <3>1
    <3>5. ~raw[p] => end'[p] = end[p]
      BY <2>1, <3>3
    <3> QED BY <3>2, <3>3, <3>4, <3>5
  <2>3. CASE ~client[p]
    BY <2>1, <2>3 DEF DisconnectFromRoom
  <2> QED BY <2>2, <2>3
<1>8. Types'
  <2>1. TypeOK'
    BY SMTT(30), <1>1, <1>4, <1>5, <1>6, <1>7 DEF Types, TypeOK
  <2> QED BY <1>1, <1>5, <1>7, <2>1 DEF Types, Early
<1>9. Started(p)'
  BY <1>3, <1>4, <1>5, <1>6 DEF Started
<1>10. Lived(p)'
  BY <1>1, <1>2, <1>3, <1>4, <1>5 DEF Lived
<1>11. Made(p)'
  BY <1>1, <1>2, <1>4, <1>5, <1>6 DEF Made
<1>12. Excused(p)'
  BY <1>1, <1>3, <1>5 DEF Excused
<1>13. Local(Other(p))'
  BY <1>1, <1>4, <1>5, <1>6, <1>7, Elsewhere DEF Still
<1>14. Lines'
  <2>1. Cut(p, Other(p)) /\ Cut(Other(p), p)
    BY <1>1, <1>5, <1>6, <1>7 DEF Cut
  <2>2. Follows(Spoken(ui[p]), Spoken(ui'[p]))
    BY <1>1, <1>5, LineTypes
  <2> QED BY <1>1, <1>4, <1>5, <2>1, <2>2, LinesStill
<1> QED BY <1>8, <1>9, <1>10, <1>11, <1>12, <1>13, <1>14, InvNext

LEMMA SendKeeps ==
  ASSUME Inv, NEW p \in Peers, tasks[p] # <<>>, Head(tasks[p]).do = "send",
         SendMessage(p, Head(tasks[p]).msg), UNCHANGED uiVars
  PROVE  Inv'
<1> DEFINE m == Head(tasks[p]).msg
           refused == m # "answer" /\ room[p] # "CONNECTED"
           t == IF refused THEN Do("roomError") ELSE With("write", m)
<1>1. /\ Types /\ Started(p) /\ Lived(p) /\ Made(p) /\ Excused(p) /\ Lines
      /\ Local(Other(p)) /\ Other(p) \in Peers /\ Other(p) # p
      /\ Peers = {p, Other(p)}
      /\ tasks[p] \in Seq(Task) /\ ui[p] \in Seq(Events)
  BY InvNow
<1>2. /\ Tail(tasks[p]) \in Seq(Task)
      /\ \A x : In(Dos(tasks[p]), x) <=> ("send" = x \/ In(Dos(Tail(tasks[p])), x))
      /\ \A x : One(Dos(tasks[p]), x) => One(Dos(Tail(tasks[p])), x)
      /\ \A k \in Carrying : /\ View(Tail(tasks[p]), k) = Tail(View(tasks[p], k))
                             /\ k # "send" => Follows(View(tasks[p], k), View(Tail(tasks[p]), k))
      /\ View(tasks[p], "send") # <<>> /\ View(tasks[p], "send")[1] = m
      /\ View(tasks[p], "send")[1] # "none" /\ m \in Messages
  <2>1. /\ Tail(tasks[p]) \in Seq(Task)
        /\ \A x : In(Dos(tasks[p]), x) <=> (Head(tasks[p]).do = x \/ In(Dos(Tail(tasks[p])), x))
        /\ \A x : One(Dos(tasks[p]), x) => One(Dos(Tail(tasks[p])), x)
        /\ \A k \in Carrying : /\ View(tasks[p], k) # <<>> /\ View(Tail(tasks[p]), k) = Tail(View(tasks[p], k))
                               /\ k # Head(tasks[p]).do => Follows(View(tasks[p], k), View(Tail(tasks[p]), k))
                               /\ k = Head(tasks[p]).do => View(tasks[p], k)[1] = m /\ View(tasks[p], k)[1] # "none"
                                                           /\ m \in Messages
    BY <1>1, TakeTask
  <2>2. "send" \in Carrying /\ Head(tasks[p]).do = "send"
    BY DEF Carrying
  <2> HIDE DEF m
  <2> QED BY <2>1, <2>2
<1>3. /\ call[p] # "idle" /\ ~In(Dos(tasks[p]), "connect") /\ ~In(Dos(Tail(tasks[p])), "connect")
      /\ client[p] <=> ~shut[p]
  BY TaskTaken
<1>4. said[p] # <<>> /\ room[p] # "NEW" /\ thread[p] \notin Early \cup {"announcing"}
  BY MessageSaid
<1>5. t \in Task /\ t.do \notin {"connect", "disconnect", "connected", "send", "receive"}
      /\ (refused => t.do = "roomError") /\ (~refused => t.do = "write" /\ t.msg = m)
  BY <1>2, TaskMade DEF Act, Carrying
<1>6. Finish(p, <<t>>)
      /\ UNCHANGED <<call, pc, changes, alert, said, got, shut, room, client,
                     thread, raw, end, listening, wire, broken, ui>>
  BY DEF SendMessage, uiVars, roomVars, netVars
<1> HIDE DEF t, refused, m
<1>7. /\ tasks' \in [Peers -> Seq(Task)] /\ faults' \subseteq Peers
      /\ tasks'[Other(p)] = tasks[Other(p)]
      /\ Other(p) \in faults' <=> Other(p) \in faults
      /\ shut[p] => tasks'[p] = Tail(tasks[p])
      /\ ~shut[p] => tasks'[p] = Append(Tail(tasks[p]), t) /\ (p \in faults' <=> p \in faults)
  BY <1>1, <1>5, <1>6, FinishOne
<1>8. Types'
  BY <1>1, <1>6, <1>7 DEF Types, TypeOK
<1>9. Local(Other(p))'
  BY <1>1, <1>6, <1>7, Elsewhere DEF Still
<1>10. Line(p, Other(p)) /\ Line(Other(p), p) /\ Cut(Other(p), p)
  BY <1>1, <1>6, LinesOf DEF Cut
<1>11. /\ \A o \in Peers : Follows(Spoken(ui[o]), Spoken(ui'[o]))
       /\ \A k \in Carrying : Follows(View(tasks[Other(p)], k), View(tasks'[Other(p)], k))
  BY <1>1, <1>6, <1>7, LineTypes
<1>12. CASE shut[p]
  <2>1. call[p] = "left" /\ ~client[p] /\ tasks'[p] = Tail(tasks[p])
    BY <1>1, <1>3, <1>7, <1>12 DEF Lived
  <2>2. Started(p)'
    BY <1>3, <1>6, <1>12, <2>1 DEF Started
  <2>3. Lived(p)'
    BY <1>1, <1>2, <1>6, <2>1 DEF Lived
  <2>4. Made(p)'
    BY <1>1, <1>2, <1>6, <2>1 DEF Made
  <2>5. Excused(p)'
    BY <1>1, <1>6, <2>1 DEF Excused
  <2>6. Line(p, Other(p))'
    <3>1. Follows(View(tasks[Other(p)], "receive"), View(tasks'[Other(p)], "receive"))
      BY <1>11 DEF Carrying
    <3>2. thread'[Other(p)] \notin {"closing", "dead"} =>
            /\ wire'[Other(p)] = wire[Other(p)] /\ thread[Other(p)] \notin {"closing", "dead"}
            /\ ~(client'[p] /\ raw'[p] /\ end'[Other(p)])
      BY <1>6, <2>1
    <3> QED BY <1>1, <1>4, <1>6, <1>10, <1>11, <3>1, <3>2, LineCut
  <2>7. Line(Other(p), p)'
    BY <1>1, <1>2, <1>6, <1>10, <1>11, <2>1, LineStill DEF Carrying
  <2> QED BY <1>1, <1>8, <1>9, <2>2, <2>3, <2>4, <2>5, <2>6, <2>7, LinesOf, InvNext
<1>13. CASE ~shut[p]
  <2>1. tasks'[p] = Append(Tail(tasks[p]), t) /\ (p \in faults' <=> p \in faults)
    BY <1>7, <1>13
  <2>2. /\ \A x : In(Dos(tasks'[p]), x) <=> (In(Dos(Tail(tasks[p])), x) \/ x = t.do)
        /\ \A x : One(Dos(tasks[p]), x) /\ x # t.do => One(Dos(tasks'[p]), x)
        /\ \A a, B : Before(Dos(tasks[p]), a, B) /\ Head(tasks[p]).do # a /\ (t.do \in B => In(Dos(tasks[p]), a))
             => Before(Dos(tasks'[p]), a, B)
        /\ \A k \in Carrying \ {t.do} :
             /\ k # Head(tasks[p]).do => Follows(View(tasks[p], k), View(tasks'[p], k))
             /\ Follows(Tail(View(tasks[p], k)), View(tasks'[p], k))
        /\ \A k \in Carrying :
             k = t.do => View(tasks'[p], k) = Append(View(Tail(tasks[p]), k), t.msg)
    BY <1>1, <1>5, <2>1, TurnTask
  <2>3. Started(p)'
    BY <1>3, <1>5, <1>6, <2>2 DEF Started
  <2>4. Lived(p)'
    BY <1>1, <1>2, <1>5, <1>6, <2>1, <2>2 DEF Lived
  <2>5. Made(p)'
    BY <1>1, <1>2, <1>5, <1>6, <2>2 DEF Made
  <2>6. Excused(p)'
    <3>1. ~broken /\ call[p] # "left" /\ ~In(ui[p], "close") => ~refused
      BY <1>1, <1>4 DEF Excused, Lived, refused, Types, TypeOK
    <3>2. ~broken /\ call[p] # "left" /\ ~In(ui[p], "close") =>
            /\ Before(Dos(tasks'[p]), "tcpClose", {"tcpError", "roomError"})
            /\ In(Dos(tasks[p]), "tcpClose") => In(Dos(tasks'[p]), "tcpClose")
      BY <1>1, <1>2, <1>5, <2>2, <3>1 DEF Excused
    <3> QED BY <1>1, <1>6, <3>2 DEF Excused
  <2>7. Line(Other(p), p)'
    <3>1. Follows(View(tasks[p], "receive"), View(tasks'[p], "receive"))
      BY <1>5, <2>2 DEF Carrying
    <3> QED BY <1>1, <1>6, <1>7, <1>10, <1>11, <3>1, LineStill DEF Carrying
  <2>8. Follows(Tail(View(tasks[p], "send")), View(tasks'[p], "send"))
    BY <1>5, <2>2 DEF Carrying
  <2>9. CASE refused
    <3>1. Follows(View(tasks[p], "write"), View(tasks'[p], "write"))
      BY <1>5, <2>2, <2>9 DEF Carrying
    <3>2. room[p] # "CONNECTED" /\ View(tasks[p], "send")[1] # "answer"
      BY <1>2, <2>9 DEF refused, m
    <3>3. \A i \in DOMAIN said[p] : said[p][i] = "answer" => i = 1
      <4>1. said[p] \in Seq(Own(p)) /\ FirstOnly(said[p], First(p))
        BY <1>1 DEF Types
      <4>2. \A i \in DOMAIN said[p] : said[p][i] \in Own(p)
        BY <4>1
      <4>3. CASE p = "client"
        BY <4>1, <4>3 DEF First, FirstOnly
      <4>4. CASE p # "client"
        <5>1. "answer" \notin Own(p)
          BY <4>4, IceAssumption DEF Own, First, Peers
        <5> QED BY <4>2, <5>1
      <4> QED BY <4>3, <4>4
    <3>4. Line(p, Other(p))'
      BY <1>1, <1>2, <1>6, <1>7, <1>10, <2>8, <3>1, <3>2, <3>3, LineRefuse
    <3> QED BY <1>1, <1>8, <1>9, <2>3, <2>4, <2>5, <2>6, <2>7, <3>4, LinesOf, InvNext
  <2>10. CASE ~refused
    <3>1. /\ View(tasks'[p], "write") = Append(View(Tail(tasks[p]), "write"), View(tasks[p], "send")[1])
          /\ Follows(View(tasks[p], "write"), View(Tail(tasks[p]), "write"))
      BY <1>2, <1>5, <2>2, <2>10 DEF Carrying
    <3>2. View(tasks[p], "send")[1] = "answer" \/ room[p] = "CONNECTED"
      BY <1>2, <2>10 DEF refused, m
    <3>3. Line(p, Other(p))'
      BY <1>1, <1>2, <1>6, <1>7, <1>10, <2>8, <3>1, <3>2, LineSend
    <3> QED BY <1>1, <1>8, <1>9, <2>3, <2>4, <2>5, <2>6, <2>7, <3>3, LinesOf, InvNext
  <2> QED BY <2>9, <2>10
<1> QED BY <1>12, <1>13

LEMMA WriteKeeps ==
  ASSUME Inv, NEW p \in Peers, tasks[p] # <<>>, Head(tasks[p]).do = "write",
         Write(p, Head(tasks[p]).msg), UNCHANGED uiVars
  PROVE  Inv'
<1> DEFINE m == Head(tasks[p]).msg
           q == Other(p)
           lost == ~(client[p] /\ raw[p] /\ end[q])
<1>1. /\ Types /\ Started(p) /\ Lived(p) /\ Made(p) /\ Excused(p) /\ Lines
      /\ Local(q) /\ q \in Peers /\ q # p
      /\ Peers = {p, q}
      /\ tasks[p] \in Seq(Task) /\ ui[p] \in Seq(Events)
  BY InvNow
<1>2. /\ Tail(tasks[p]) \in Seq(Task)
      /\ \A x : In(Dos(tasks[p]), x) <=> ("write" = x \/ In(Dos(Tail(tasks[p])), x))
      /\ \A x : One(Dos(tasks[p]), x) => One(Dos(Tail(tasks[p])), x)
      /\ \A a, B : Before(Dos(tasks[p]), a, B) /\ "write" # a => Before(Dos(Tail(tasks[p])), a, B)
      /\ \A k \in Carrying : /\ View(Tail(tasks[p]), k) = Tail(View(tasks[p], k))
                             /\ View(Tail(tasks[p]), k) \in Seq(Word)
                             /\ k # "write" => Follows(View(tasks[p], k), View(Tail(tasks[p]), k))
      /\ View(tasks[p], "write") # <<>> /\ View(tasks[p], "write")[1] = m
      /\ View(tasks[p], "write")[1] # "none" /\ m \in Messages
  <2>1. /\ Tail(tasks[p]) \in Seq(Task)
        /\ \A x : In(Dos(tasks[p]), x) <=> (Head(tasks[p]).do = x \/ In(Dos(Tail(tasks[p])), x))
        /\ \A x : One(Dos(tasks[p]), x) => One(Dos(Tail(tasks[p])), x)
        /\ \A a, B : Before(Dos(tasks[p]), a, B) /\ Head(tasks[p]).do # a => Before(Dos(Tail(tasks[p])), a, B)
        /\ \A k \in Carrying : /\ View(tasks[p], k) # <<>> /\ View(Tail(tasks[p]), k) = Tail(View(tasks[p], k))
                               /\ View(Tail(tasks[p]), k) \in Seq(Word)
                               /\ k # Head(tasks[p]).do => Follows(View(tasks[p], k), View(Tail(tasks[p]), k))
                               /\ k = Head(tasks[p]).do => View(tasks[p], k)[1] = m /\ View(tasks[p], k)[1] # "none"
                                                           /\ m \in Messages
    BY <1>1, TakeTask
  <2>2. "write" \in Carrying /\ Head(tasks[p]).do = "write"
    BY DEF Carrying
  <2> HIDE DEF m
  <2> QED BY <2>1, <2>2
<1>3. /\ call[p] # "idle" /\ ~In(Dos(tasks[p]), "connect") /\ ~In(Dos(Tail(tasks[p])), "connect")
      /\ client[p] <=> ~shut[p]
  BY TaskTaken
<1>4. said[p] # <<>> /\ thread[p] \notin Early \cup {"announcing"}
  BY MessageSaid
<1>5. UNCHANGED <<call, pc, changes, alert, said, got, shut, room, client,
                  thread, raw, end, listening, broken, ui>>
  BY DEF Write, uiVars, roomVars
<1>6. wire'[p] = wire[p] /\ wire' \in [Peers -> Seq(Messages)]
      /\ (lost => wire' = wire) /\ (~lost => wire'[q] = Append(wire[q], m))
  <2>1. wire \in [Peers -> Seq(Messages)]
    BY <1>1 DEF Types, TypeOK
  <2>2. CASE lost
    BY <2>1, <2>2 DEF Write
  <2>3. CASE ~lost
    <3>1. wire' = [wire EXCEPT ![q] = Append(wire[q], m)]
      BY <2>3 DEF Write
    <3>2. Append(wire[q], m) \in Seq(Messages)
      BY <1>1, <1>2, <2>1
    <3> QED BY <1>1, <2>1, <2>3, <3>1, <3>2
  <2> QED BY <2>2, <2>3
<1>7. CASE ~client[p]
  <2>1. Fail(p)
    BY <1>7 DEF Write
  <2>2. /\ tasks' \in [Peers -> Seq(Task)] /\ faults' \subseteq Peers
        /\ tasks'[q] = tasks[q] /\ tasks'[p] = Tail(tasks[p])
        /\ (q \in faults' <=> q \in faults)
    BY <1>1, <1>2, <2>1 DEF Fail, Types, TypeOK
  <2>3. call[p] = "left" /\ shut[p]
    BY <1>1, <1>3, <1>7 DEF Lived
  <2>4. Types'
    BY <1>1, <1>5, <1>6, <1>7, <2>2 DEF Types, TypeOK
  <2>5. Started(p)' /\ Lived(p)'
    BY <1>1, <1>2, <1>3, <1>5, <2>2, <2>3 DEF Started, Lived
  <2>6. Made(p)'
    BY <1>1, <1>2, <1>5, <2>2 DEF Made
  <2>7. Excused(p)'
    BY <1>1, <1>5, <2>3 DEF Excused
  <2>8. Local(q)'
    BY <1>1, <1>5, <2>2, Elsewhere DEF Still
  <2>9. /\ Line(p, q) /\ Line(q, p) /\ Cut(q, p)
        /\ \A o \in Peers : Follows(Spoken(ui[o]), Spoken(ui'[o]))
        /\ \A k \in Carrying : Follows(View(tasks[q], k), View(tasks'[q], k))
    BY <1>1, <1>5, <2>2, LinesOf, LineTypes DEF Cut
  <2>10. Line(p, q)'
    <3>1. Follows(View(tasks[q], "receive"), View(tasks'[q], "receive"))
      BY <2>9 DEF Carrying
    <3>2. thread'[q] \notin {"closing", "dead"} =>
            /\ wire'[q] = wire[q] /\ thread[q] \notin {"closing", "dead"}
            /\ ~(client'[p] /\ raw'[p] /\ end'[q])
      BY <1>5, <1>6, <1>7
    <3> QED BY <1>1, <1>4, <1>5, <2>9, <3>1, <3>2, LineCut
  <2>11. Line(q, p)'
    <3>1. Follows(View(tasks[p], "receive"), View(tasks'[p], "receive"))
      BY <1>2, <2>2 DEF Carrying
    <3> QED BY <1>1, <1>5, <1>6, <2>9, <3>1, LineStill DEF Carrying
  <2> HIDE DEF q
  <2> QED BY <1>1, <2>4, <2>5, <2>6, <2>7, <2>8, <2>10, <2>11, LinesOf, InvNext DEF q
<1>8. CASE client[p] /\ ~raw[p]
  <2>1. Do("tcpError") \in Task /\ Do("tcpError").do = "tcpError"
    BY TaskMade DEF Act, Carrying
  <2>2. ~shut[p] /\ Finish(p, <<Do("tcpError")>>)
    BY <1>3, <1>8 DEF Write
  <2>3. /\ tasks' \in [Peers -> Seq(Task)] /\ faults' \subseteq Peers
        /\ tasks'[q] = tasks[q] /\ (q \in faults' <=> q \in faults)
        /\ tasks'[p] = Append(Tail(tasks[p]), Do("tcpError")) /\ (p \in faults' <=> p \in faults)
    BY <1>1, <2>1, <2>2, FinishOne
  <2>4. /\ \A x : In(Dos(tasks'[p]), x) <=> (In(Dos(Tail(tasks[p])), x) \/ x = "tcpError")
        /\ \A x : One(Dos(tasks[p]), x) /\ x # "tcpError" => One(Dos(tasks'[p]), x)
        /\ \A a, B : Before(Dos(tasks[p]), a, B) /\ "write" # a /\ ("tcpError" \in B => In(Dos(tasks[p]), a))
             => Before(Dos(tasks'[p]), a, B)
        /\ \A k \in Carrying : k # "write" => Follows(View(tasks[p], k), View(tasks'[p], k))
    <3> DEFINE t == Do("tcpError")
               v == tasks[p]
               v2 == tasks'[p]
    <3>1. v \in Seq(Task) /\ v # <<>> /\ t \in Task /\ v2 = Append(Tail(v), t)
      BY <1>1, <2>1, <2>3
    <3>2. t.do = "tcpError" /\ Head(v).do = "write" /\ "tcpError" \notin Carrying
      BY <2>1 DEF Carrying
    <3> HIDE DEF t, v, v2
    <3>3. /\ \A x : In(Dos(v2), x) <=> (In(Dos(Tail(v)), x) \/ x = t.do)
          /\ \A x : One(Dos(v), x) /\ x # t.do => One(Dos(v2), x)
          /\ \A a, B : Before(Dos(v), a, B) /\ Head(v).do # a /\ (t.do \in B => In(Dos(v), a))
               => Before(Dos(v2), a, B)
          /\ \A k \in Carrying \ {t.do} : k # Head(v).do => Follows(View(v, k), View(v2, k))
      BY <3>1, TurnTask
    <3> QED BY <3>2, <3>3 DEF v, v2
  <2>5. Types'
    BY <1>1, <1>5, <1>6, <1>8, <2>3 DEF Types, TypeOK
  <2>6. Started(p)'
    BY <1>1, <1>2, <1>3, <1>5, <2>2, <2>4 DEF Started
  <2>7. Lived(p)'
    BY <1>1, <1>2, <1>5, <2>3, <2>4 DEF Lived
  <2>8. Made(p)'
    BY <1>1, <1>2, <1>5, <2>4 DEF Made
  <2>9. Excused(p)'
    <3>1. call[p] # "left" => thread[p] = "dead"
      BY <1>1, <1>4, <1>8 DEF Lived, Opened, Early, Types, TypeOK
    <3>2. ~broken /\ call[p] # "left" /\ ~In(ui[p], "close") =>
            /\ In(Dos(tasks[p]), "tcpClose") /\ In(Dos(tasks'[p]), "tcpClose")
            /\ Before(Dos(tasks'[p]), "tcpClose", {"tcpError", "roomError"})
      BY <1>1, <1>2, <2>4, <3>1 DEF Excused
    <3> QED BY <1>1, <1>5, <3>2 DEF Excused
  <2>10. Local(q)'
    BY <1>1, <1>5, <2>3, Elsewhere DEF Still
  <2>11. /\ Line(p, q) /\ Line(q, p) /\ Cut(q, p)
         /\ \A o \in Peers : Follows(Spoken(ui[o]), Spoken(ui'[o]))
         /\ \A k \in Carrying : Follows(View(tasks[q], k), View(tasks'[q], k))
    BY <1>1, <1>5, <2>3, LinesOf, LineTypes DEF Cut
  <2>12. Line(p, q)'
    <3>1. Follows(View(tasks[q], "receive"), View(tasks'[q], "receive"))
      BY <2>11 DEF Carrying
    <3>2. thread'[q] \notin {"closing", "dead"} =>
            /\ wire'[q] = wire[q] /\ thread[q] \notin {"closing", "dead"}
            /\ ~(client'[p] /\ raw'[p] /\ end'[q])
      BY <1>5, <1>6, <1>8
    <3> QED BY <1>1, <1>4, <1>5, <2>11, <3>1, <3>2, LineCut
  <2>13. Line(q, p)'
    <3>1. Follows(View(tasks[p], "receive"), View(tasks'[p], "receive"))
      BY <2>4 DEF Carrying
    <3> QED BY <1>1, <1>5, <1>6, <2>11, <3>1, LineStill DEF Carrying
  <2> HIDE DEF q
  <2> QED BY <1>1, <2>5, <2>6, <2>7, <2>8, <2>9, <2>10, <2>12, <2>13, LinesOf, InvNext DEF q
<1>9. CASE client[p] /\ raw[p]
  <2>1. Finish(p, <<>>)
    BY <1>9 DEF Write
  <2>2. /\ tasks' \in [Peers -> Seq(Task)] /\ faults' = faults
        /\ tasks'[q] = tasks[q] /\ tasks'[p] = Tail(tasks[p])
    BY <1>1, <2>1, FinishNone
  <2>3. Types'
    <3>1. TypeOK'
      BY <1>1, <1>5, <1>6, <2>2 DEF Types, TypeOK
    <3>2. \A o \in Peers : thread'[o] = "posting" => wire'[o] # <<>>
      <4>1. wire[q] \in Seq(Messages)
        BY <1>1 DEF Types, TypeOK
      <4>2. ~lost => wire'[q] # <<>>
        BY <1>2, <1>6, <4>1
      <4> QED BY <1>1, <1>5, <1>6, <4>2 DEF Types
    <3> QED BY <1>1, <1>5, <3>1, <3>2 DEF Types
  <2>4. Started(p)'
    BY <1>3, <1>5, <2>2 DEF Started
  <2>5. Lived(p)'
    BY <1>1, <1>2, <1>5, <2>2 DEF Lived
  <2>6. Made(p)'
    BY <1>1, <1>2, <1>5, <2>2 DEF Made
  <2>7. Excused(p)'
    BY <1>1, <1>2, <1>5, <2>2 DEF Excused
  <2>8. Local(q)'
    BY <1>1, <1>5, <2>2, Elsewhere DEF Still
  <2>9. /\ Line(p, q) /\ Line(q, p) /\ Cut(q, p)
        /\ \A o \in Peers : Follows(Spoken(ui[o]), Spoken(ui'[o]))
        /\ \A k \in Carrying : Follows(View(tasks[q], k), View(tasks'[q], k))
    BY <1>1, <1>5, <2>2, LinesOf, LineTypes DEF Cut
  <2>10. Line(q, p)'
    <3>1. Follows(View(tasks[p], "receive"), View(tasks'[p], "receive"))
      BY <1>2, <2>2 DEF Carrying
    <3> QED BY <1>1, <1>5, <1>6, <2>9, <3>1, LineStill DEF Carrying
  <2>11. CASE lost
    <3>1. Follows(View(tasks[q], "receive"), View(tasks'[q], "receive"))
      BY <2>9 DEF Carrying
    <3>2. thread'[q] \notin {"closing", "dead"} =>
            /\ wire'[q] = wire[q] /\ thread[q] \notin {"closing", "dead"}
            /\ ~(client'[p] /\ raw'[p] /\ end'[q])
      <4>1. CASE thread[q] \in {"closing", "dead"}
        BY <1>5, <4>1
      <4> QED BY <1>5, <1>6, <2>11, <4>1
    <3>3. Line(p, q)'
      BY <1>1, <1>4, <1>5, <2>9, <3>1, <3>2, LineCut
    <3> HIDE DEF q
    <3> QED BY <1>1, <2>3, <2>4, <2>5, <2>6, <2>7, <2>8, <2>10, <3>3, LinesOf, InvNext DEF q
  <2>12. CASE ~lost
    <3>1. /\ wire'[q] = Append(wire[q], View(tasks[p], "write")[1])
          /\ client[p] /\ raw[p] /\ end[q]
      BY <1>2, <1>6, <2>12
    <3>2. Follows(Tail(View(tasks[p], "write")), View(tasks'[p], "write"))
      BY <1>2, <2>2, FollowsSame DEF Carrying
    <3>3. Follows(View(tasks[p], "send"), View(tasks'[p], "send"))
      BY <1>2, <2>2 DEF Carrying
    <3>4. Line(p, q)'
      BY <1>1, <1>2, <1>5, <2>2, <2>9, <3>1, <3>2, <3>3, LineWrite
    <3> HIDE DEF q
    <3> QED BY <1>1, <2>3, <2>4, <2>5, <2>6, <2>7, <2>8, <2>10, <3>4, LinesOf, InvNext DEF q
  <2> QED BY <2>11, <2>12
<1> QED BY <1>7, <1>8, <1>9

LEMMA ConnectedKeeps ==
  ASSUME Inv, NEW p \in Peers, tasks[p] # <<>>, Head(tasks[p]).do = "connected", OnTCPConnected(p),
         UNCHANGED uiVars
  PROVE  Inv'
<1>1. /\ Types /\ Started(p) /\ Lived(p) /\ Made(p) /\ Excused(p) /\ Lines
      /\ Local(Other(p)) /\ Other(p) \in Peers /\ Other(p) # p
      /\ Peers = {p, Other(p)}
      /\ tasks[p] \in Seq(Task) /\ ui[p] \in Seq(Events)
  BY InvNow
<1>2. /\ \A x : In(Dos(tasks[p]), x) <=> ("connected" = x \/ In(Dos(Tail(tasks[p])), x))
      /\ \A x : One(Dos(tasks[p]), x) => /\ One(Dos(Tail(tasks[p])), x)
                                         /\ "connected" = x => ~In(Dos(Tail(tasks[p])), x)
      /\ \A a, B : Before(Dos(tasks[p]), a, B) => "connected" \notin B
      /\ \A a, B : Before(Dos(tasks[p]), a, B) /\ "connected" # a => Before(Dos(Tail(tasks[p])), a, B)
      /\ \A k \in Carrying : Follows(View(tasks[p], k), View(Tail(tasks[p]), k))
  BY <1>1, TakeTask DEF Carrying
<1>3. /\ call[p] # "idle" /\ ~In(Dos(tasks[p]), "connect") /\ ~In(Dos(Tail(tasks[p])), "connect")
      /\ client[p] <=> ~shut[p]
  BY TaskTaken
<1>4. /\ tasks' \in [Peers -> Seq(Task)] /\ faults' = faults
      /\ tasks'[Other(p)] = tasks[Other(p)] /\ tasks'[p] = Tail(tasks[p])
  BY <1>1, FinishNone DEF OnTCPConnected
<1>5. UNCHANGED <<call, pc, changes, alert, said, got, shut, client,
                  thread, raw, end, listening, wire, broken>>
  BY DEF OnTCPConnected, uiVars, netVars
<1>6. thread[p] \notin Early \cup {"announcing"}
  BY <1>1, <1>2 DEF Lived
<1>7. CASE p = "client"
  <2>1. UNCHANGED <<room, ui>>
    BY <1>7 DEF OnTCPConnected
  <2>2. Types'
    BY <1>1, <1>4, <1>5, <2>1 DEF Types, TypeOK
  <2>3. Started(p)'
    BY <1>3, <1>4, <1>5, <2>1 DEF Started
  <2>4. Lived(p)'
    BY <1>1, <1>2, <1>4, <1>5, <2>1 DEF Lived
  <2>5. Made(p)'
    BY <1>1, <1>2, <1>4, <1>5, <1>7, <2>1 DEF Made
  <2>6. Excused(p)'
    BY <1>1, <1>2, <1>4, <1>5, <2>1 DEF Excused
  <2>7. Local(Other(p))'
    BY <1>1, <1>4, <1>5, <2>1, Elsewhere DEF Still
  <2>8. Lines'
    <3>1. Cut(p, Other(p)) /\ Cut(Other(p), p)
      BY <1>5, <2>1 DEF Cut
    <3>2. Follows(Spoken(ui[p]), Spoken(ui'[p]))
      BY <1>1, <2>1, LineTypes
    <3> QED BY <1>1, <1>2, <1>4, <1>5, <2>1, <3>1, <3>2, LinesStill
  <2> QED BY <2>2, <2>3, <2>4, <2>5, <2>6, <2>7, <2>8, InvNext
<1>8. CASE p = "server"
  <2>1. /\ room' = [room EXCEPT ![p] = "CONNECTED"] /\ ui' = [ui EXCEPT ![p] = Append(ui[p], "connected")]
    BY <1>8 DEF OnTCPConnected, Tell
  <2>2. /\ room' \in [Peers -> {"NEW", "CONNECTED", "CLOSED", "ERROR"}] /\ room'[p] = "CONNECTED"
        /\ room'[Other(p)] = room[Other(p)]
        /\ ui' \in [Peers -> Seq(Events)] /\ ui'[p] = Append(ui[p], "connected") /\ ui'[Other(p)] = ui[Other(p)]
    <3>1. "connected" \in Events
      BY DEF Events
    <3>2. Append(ui[p], "connected") \in Seq(Events)
      BY <1>1, <3>1
    <3> QED BY <1>1, <2>1, <3>2 DEF Types, TypeOK
  <2>3. /\ \A x : In(ui'[p], x) <=> (In(ui[p], x) \/ x = "connected")
        /\ \A x : One(ui[p], x) /\ (x = "connected" => ~In(ui[p], x)) => One(ui'[p], x)
        /\ \A a, B : Before(ui[p], a, B) /\ ("connected" \in B => In(ui[p], a)) => Before(ui'[p], a, B)
        /\ Follows(Spoken(ui[p]), Spoken(ui'[p]))
    <3>1. "connected" \in Events /\ "connected" \notin Messages
      BY IceAssumption DEF Events, Messages
    <3> QED BY <1>1, <2>2, <3>1, PostEvent
  <2>4. pc[p] = "none" /\ said[p] = <<>> /\ ~In(ui[p], "connected")
    BY <1>1, <1>2, <1>8 DEF Made
  <2>5. Types'
    BY <1>1, <1>4, <1>5, <2>2 DEF Types, TypeOK
  <2>6. Started(p)'
    BY <1>3, <1>4, <1>5 DEF Started
  <2>7. Lived(p)'
    BY <1>1, <1>2, <1>4, <1>5, <1>6, <2>2 DEF Lived
  <2>8. Made(p)'
    BY <1>1, <1>2, <1>4, <1>5, <1>8, <2>2, <2>3, <2>4 DEF Made
  <2>9. Excused(p)'
    BY <1>1, <1>2, <1>4, <1>5, <2>2, <2>3 DEF Excused
  <2>10. Local(Other(p))'
    BY <1>1, <1>4, <1>5, <2>2, Elsewhere DEF Still
  <2>11. Lines'
    <3>1. Cut(p, Other(p)) /\ Cut(Other(p), p)
      BY <1>1, <1>5, <2>2, <2>4 DEF Cut
    <3> QED BY <1>1, <1>2, <1>4, <1>5, <2>2, <2>3, <3>1, LinesStill
  <2> QED BY <2>5, <2>6, <2>7, <2>8, <2>9, <2>10, <2>11, InvNext
<1> QED BY <1>7, <1>8 DEF Peers

LEMMA TCPErrorKeeps ==
  ASSUME Inv, NEW p \in Peers, tasks[p] # <<>>, Head(tasks[p]).do = "tcpError", OnTCPError(p),
         UNCHANGED uiVars
  PROVE  Inv'
<1>1. /\ Types /\ Started(p) /\ Lived(p) /\ Made(p) /\ Excused(p) /\ Lines
      /\ Local(Other(p)) /\ Other(p) \in Peers /\ Other(p) # p
      /\ Peers = {p, Other(p)}
      /\ tasks[p] \in Seq(Task) /\ ui[p] \in Seq(Events)
  BY InvNow
<1>2. /\ \A x : In(Dos(tasks[p]), x) <=> ("tcpError" = x \/ In(Dos(Tail(tasks[p])), x))
      /\ \A x : One(Dos(tasks[p]), x) => /\ One(Dos(Tail(tasks[p])), x)
                                         /\ "tcpError" = x => ~In(Dos(Tail(tasks[p])), x)
      /\ \A a, B : Before(Dos(tasks[p]), a, B) => "tcpError" \notin B
      /\ \A a, B : Before(Dos(tasks[p]), a, B) /\ "tcpError" # a => Before(Dos(Tail(tasks[p])), a, B)
      /\ \A k \in Carrying : Follows(View(tasks[p], k), View(Tail(tasks[p]), k))
  BY <1>1, TakeTask DEF Carrying
<1>3. /\ call[p] # "idle" /\ ~In(Dos(tasks[p]), "connect") /\ ~In(Dos(Tail(tasks[p])), "connect")
      /\ client[p] <=> ~shut[p]
  BY TaskTaken
<1>4. /\ Finish(p, <<Do("roomError")>>)
      /\ UNCHANGED <<call, pc, changes, alert, said, got, shut, client, room,
                     thread, raw, end, listening, wire, broken, ui>>
  BY DEF OnTCPError, uiVars, roomVars, netVars
<1>5. Do("roomError") \in Task /\ Do("roomError").do = "roomError"
  BY TaskMade DEF Act, Carrying
<1>6. /\ tasks' \in [Peers -> Seq(Task)] /\ faults' \subseteq Peers
      /\ tasks'[Other(p)] = tasks[Other(p)]
      /\ Other(p) \in faults' <=> Other(p) \in faults
      /\ shut[p] => tasks'[p] = Tail(tasks[p])
      /\ ~shut[p] => tasks'[p] = Append(Tail(tasks[p]), Do("roomError")) /\ (p \in faults' <=> p \in faults)
  BY <1>1, <1>4, <1>5, FinishOne
<1>7. /\ \A x : In(Dos(tasks'[p]), x) /\ x # "roomError" => In(Dos(Tail(tasks[p])), x)
      /\ \A x : In(Dos(Tail(tasks[p])), x) => In(Dos(tasks'[p]), x)
      /\ \A x : One(Dos(tasks[p]), x) /\ x # "roomError" => One(Dos(tasks'[p]), x)
      /\ \A k \in Carrying : Follows(View(tasks[p], k), View(tasks'[p], k))
  <2>1. CASE shut[p]
    BY <1>2, <1>6, <2>1
  <2>2. CASE ~shut[p]
    BY <1>1, <1>5, <1>6, <2>2, TurnTask DEF Carrying
  <2> QED BY <2>1, <2>2
<1>8. shut[p] => call[p] = "left"
  BY <1>1 DEF Lived
<1>9. Types'
  BY <1>1, <1>4, <1>6 DEF Types, TypeOK
<1>10. Started(p)'
  BY <1>3, <1>4, <1>7 DEF Started
<1>11. Lived(p)'
  BY <1>1, <1>2, <1>4, <1>6, <1>7, <1>8 DEF Lived
<1>12. Made(p)'
  BY <1>1, <1>2, <1>4, <1>7 DEF Made
<1>13. Excused(p)'
  <2>1. ~broken /\ call[p] # "left" => In(ui[p], "close")
    BY <1>1, <1>2 DEF Excused
  <2> QED BY <1>1, <1>4, <2>1 DEF Excused
<1>14. Local(Other(p))'
  BY <1>1, <1>4, <1>6, Elsewhere DEF Still
<1>15. Lines'
  <2>1. Cut(p, Other(p)) /\ Cut(Other(p), p)
    BY <1>4 DEF Cut
  <2>2. Follows(Spoken(ui[p]), Spoken(ui'[p]))
    BY <1>1, <1>4, LineTypes
  <2> QED BY <1>1, <1>4, <1>6, <1>7, <2>1, <2>2, LinesStill
<1> QED BY <1>9, <1>10, <1>11, <1>12, <1>13, <1>14, <1>15, InvNext

LEMMA TCPCloseKeeps ==
  ASSUME Inv, NEW p \in Peers, tasks[p] # <<>>, Head(tasks[p]).do = "tcpClose", OnTCPClose(p),
         UNCHANGED uiVars
  PROVE  Inv'
<1>1. /\ Types /\ Started(p) /\ Lived(p) /\ Made(p) /\ Excused(p) /\ Lines
      /\ Local(Other(p)) /\ Other(p) \in Peers /\ Other(p) # p
      /\ Peers = {p, Other(p)}
      /\ tasks[p] \in Seq(Task) /\ ui[p] \in Seq(Events)
  BY InvNow
<1>2. /\ \A x : In(Dos(tasks[p]), x) <=> ("tcpClose" = x \/ In(Dos(Tail(tasks[p])), x))
      /\ \A x : One(Dos(tasks[p]), x) => /\ One(Dos(Tail(tasks[p])), x)
                                         /\ "tcpClose" = x => ~In(Dos(Tail(tasks[p])), x)
      /\ \A a, B : Before(Dos(tasks[p]), a, B) => "tcpClose" \notin B
      /\ \A a, B : Before(Dos(tasks[p]), a, B) /\ "tcpClose" # a => Before(Dos(Tail(tasks[p])), a, B)
      /\ \A k \in Carrying : Follows(View(tasks[p], k), View(Tail(tasks[p]), k))
  BY <1>1, TakeTask DEF Carrying
<1>3. /\ call[p] # "idle" /\ ~In(Dos(tasks[p]), "connect") /\ ~In(Dos(Tail(tasks[p])), "connect")
      /\ client[p] <=> ~shut[p]
  BY TaskTaken
<1>4. /\ tasks' \in [Peers -> Seq(Task)] /\ faults' = faults
      /\ tasks'[Other(p)] = tasks[Other(p)] /\ tasks'[p] = Tail(tasks[p])
  BY <1>1, FinishNone DEF OnTCPClose
<1>5. /\ UNCHANGED <<call, pc, changes, alert, said, got, shut, client, room,
                     thread, raw, end, listening, wire, broken>>
      /\ ui' = [ui EXCEPT ![p] = Append(ui[p], "close")]
  BY DEF OnTCPClose, Tell, uiVars, roomVars, netVars
<1>6. ui' \in [Peers -> Seq(Events)] /\ ui'[p] = Append(ui[p], "close") /\ ui'[Other(p)] = ui[Other(p)]
  <2>1. "close" \in Events
    BY DEF Events
  <2>2. Append(ui[p], "close") \in Seq(Events)
    BY <1>1, <2>1
  <2> QED BY <1>1, <1>5, <2>2 DEF Types, TypeOK
<1>7. /\ \A x : In(ui'[p], x) <=> (In(ui[p], x) \/ x = "close")
      /\ \A x : One(ui[p], x) /\ (x = "close" => ~In(ui[p], x)) => One(ui'[p], x)
      /\ \A a, B : Before(ui[p], a, B) /\ ("close" \in B => In(ui[p], a)) => Before(ui'[p], a, B)
      /\ Follows(Spoken(ui[p]), Spoken(ui'[p]))
  <2>1. "close" \in Events /\ "close" \notin Messages
    BY IceAssumption DEF Events, Messages
  <2> QED BY <1>1, <1>6, <2>1, PostEvent
<1>8. Types'
  BY <1>1, <1>4, <1>5, <1>6 DEF Types, TypeOK
<1>9. Started(p)'
  BY <1>3, <1>4, <1>5 DEF Started
<1>10. Lived(p)'
  BY <1>1, <1>2, <1>4, <1>5, <1>7 DEF Lived
<1>11. Made(p)'
  BY <1>1, <1>2, <1>4, <1>5, <1>7 DEF Made
<1>12. Excused(p)'
  BY <1>1, <1>5, <1>7 DEF Excused
<1>13. Local(Other(p))'
  BY <1>1, <1>4, <1>5, <1>6, Elsewhere DEF Still
<1>14. Lines'
  <2>1. Cut(p, Other(p)) /\ Cut(Other(p), p)
    BY <1>5 DEF Cut
  <2> QED BY <1>1, <1>2, <1>4, <1>5, <1>6, <1>7, <2>1, LinesStill
<1> QED BY <1>8, <1>9, <1>10, <1>11, <1>12, <1>13, <1>14, InvNext

LEMMA RoomErrorKeeps ==
  ASSUME Inv, NEW p \in Peers, tasks[p] # <<>>, Head(tasks[p]).do = "roomError", ReportError(p),
         UNCHANGED uiVars
  PROVE  Inv'
<1>1. /\ Types /\ Started(p) /\ Lived(p) /\ Made(p) /\ Excused(p) /\ Lines
      /\ Local(Other(p)) /\ Other(p) \in Peers /\ Other(p) # p
      /\ Peers = {p, Other(p)}
      /\ tasks[p] \in Seq(Task) /\ ui[p] \in Seq(Events)
  BY InvNow
<1>2. /\ \A x : In(Dos(tasks[p]), x) <=> ("roomError" = x \/ In(Dos(Tail(tasks[p])), x))
      /\ \A x : One(Dos(tasks[p]), x) => /\ One(Dos(Tail(tasks[p])), x)
                                         /\ "roomError" = x => ~In(Dos(Tail(tasks[p])), x)
      /\ \A a, B : Before(Dos(tasks[p]), a, B) => "roomError" \notin B
      /\ \A a, B : Before(Dos(tasks[p]), a, B) /\ "roomError" # a => Before(Dos(Tail(tasks[p])), a, B)
      /\ \A k \in Carrying : Follows(View(tasks[p], k), View(Tail(tasks[p]), k))
  BY <1>1, TakeTask DEF Carrying
<1>3. /\ call[p] # "idle" /\ ~In(Dos(tasks[p]), "connect") /\ ~In(Dos(Tail(tasks[p])), "connect")
      /\ client[p] <=> ~shut[p]
  BY TaskTaken
<1>4. /\ tasks' \in [Peers -> Seq(Task)] /\ faults' = faults
      /\ tasks'[Other(p)] = tasks[Other(p)] /\ tasks'[p] = Tail(tasks[p])
  BY <1>1, FinishNone DEF ReportError
<1>5. UNCHANGED <<call, pc, changes, alert, said, got, shut, client,
                  thread, raw, end, listening, wire, broken>>
  BY DEF ReportError, uiVars, netVars
<1>6. /\ room' \in [Peers -> {"NEW", "CONNECTED", "CLOSED", "ERROR"}] /\ room'[p] = "ERROR"
      /\ room'[Other(p)] = room[Other(p)]
      /\ ui' \in [Peers -> Seq(Events)] /\ ui'[Other(p)] = ui[Other(p)]
      /\ ui'[p] = ui[p] \/ ui'[p] = Append(ui[p], "error")
  <2>1. "error" \in Events
    BY DEF Events
  <2>2. Append(ui[p], "error") \in Seq(Events)
    BY <1>1, <2>1
  <2>3. /\ room \in [Peers -> {"NEW", "CONNECTED", "CLOSED", "ERROR"}] /\ ui \in [Peers -> Seq(Events)]
    BY <1>1 DEF Types, TypeOK
  <2>4. CASE room[p] = "ERROR"
    BY <2>3, <2>4 DEF ReportError
  <2>5. CASE room[p] # "ERROR"
    <3>1. room' = [room EXCEPT ![p] = "ERROR"] /\ ui' = [ui EXCEPT ![p] = Append(ui[p], "error")]
      BY <2>5 DEF ReportError, Tell
    <3> QED BY <1>1, <2>2, <2>3, <3>1
  <2> QED BY <2>4, <2>5
<1>7. /\ \A x : In(ui[p], x) => In(ui'[p], x)
      /\ \A x : In(ui'[p], x) => In(ui[p], x) \/ x = "error"
      /\ \A x : One(ui[p], x) /\ x # "error" => One(ui'[p], x)
      /\ \A a, B : Before(ui[p], a, B) /\ In(ui[p], a) => Before(ui'[p], a, B)
      /\ Follows(Spoken(ui[p]), Spoken(ui'[p]))
  <2>1. "error" \in Events /\ "error" \notin Messages
    BY IceAssumption DEF Events, Messages
  <2>2. CASE ui'[p] = ui[p]
    BY <1>1, <2>2, LineTypes
  <2>3. CASE ui'[p] = Append(ui[p], "error")
    BY <1>1, <2>1, <2>3, PostEvent
  <2> QED BY <1>6, <2>2, <2>3
<1>8. Types'
  BY <1>1, <1>4, <1>5, <1>6 DEF Types, TypeOK
<1>9. Started(p)'
  BY <1>3, <1>4, <1>5 DEF Started
<1>10. Lived(p)'
  BY <1>1, <1>2, <1>4, <1>5, <1>6, <1>7 DEF Lived
<1>11. Made(p)'
  BY <1>1, <1>2, <1>4, <1>5, <1>6, <1>7 DEF Made
<1>12. Excused(p)'
  <2>1. ~broken /\ call[p] # "left" => In(ui[p], "close")
    BY <1>1, <1>2 DEF Excused
  <2> QED BY <1>1, <1>5, <1>7, <2>1 DEF Excused
<1>13. Local(Other(p))'
  BY <1>1, <1>4, <1>5, <1>6, Elsewhere DEF Still
<1>14. Lines'
  <2>1. Cut(p, Other(p)) /\ Cut(Other(p), p)
    BY <1>5, <1>6 DEF Cut
  <2> QED BY <1>1, <1>2, <1>4, <1>5, <1>6, <1>7, <2>1, LinesStill
<1> QED BY <1>8, <1>9, <1>10, <1>11, <1>12, <1>13, <1>14, InvNext

LEMMA ReceiveKeeps ==
  ASSUME Inv, NEW p \in Peers, tasks[p] # <<>>, Head(tasks[p]).do = "receive",
         OnTCPMessage(p, Head(tasks[p]).msg), UNCHANGED uiVars
  PROVE  Inv'
<1> DEFINE m == Head(tasks[p]).msg
           q == Other(p)
<1>1. /\ Types /\ Started(p) /\ Lived(p) /\ Made(p) /\ Excused(p) /\ Lines
      /\ Local(q) /\ q \in Peers /\ q # p
      /\ Peers = {p, q}
      /\ tasks[p] \in Seq(Task) /\ ui[p] \in Seq(Events)
  BY InvNow
<1>2. /\ \A x : In(Dos(tasks[p]), x) <=> ("receive" = x \/ In(Dos(Tail(tasks[p])), x))
      /\ \A x : One(Dos(tasks[p]), x) => One(Dos(Tail(tasks[p])), x)
      /\ \A a, B : Before(Dos(tasks[p]), a, B) /\ "receive" # a => Before(Dos(Tail(tasks[p])), a, B)
      /\ \A k \in Carrying : /\ View(tasks[p], k) # <<>> /\ View(Tail(tasks[p]), k) \in Seq(Word)
                             /\ View(Tail(tasks[p]), k) = Tail(View(tasks[p], k))
      /\ \A k \in Carrying \ {"receive"} : Follows(View(tasks[p], k), View(Tail(tasks[p]), k))
      /\ View(tasks[p], "receive")[1] = m /\ m # "none" /\ m \in Messages
  <2> DEFINE v == tasks[p]
             d == Head(v).do
             r == Tail(v)
  <2>1. /\ \A x : In(Dos(v), x) <=> (d = x \/ In(Dos(r), x))
        /\ \A x : One(Dos(v), x) => One(Dos(r), x)
        /\ \A a, B : Before(Dos(v), a, B) /\ d # a => Before(Dos(r), a, B)
        /\ \A k \in Carrying : /\ View(v, k) # <<>> /\ View(r, k) \in Seq(Word)
                               /\ View(r, k) = Tail(View(v, k))
                               /\ k # d => Follows(View(v, k), View(r, k))
                               /\ k = d => View(v, k)[1] = m /\ View(v, k)[1] # "none" /\ m \in Messages
    BY <1>1, TakeTask
  <2>2. d = "receive" /\ "receive" \in Carrying
    BY DEF Carrying
  <2> HIDE DEF d, r, m
  <2>3. /\ \A x : In(Dos(v), x) <=> ("receive" = x \/ In(Dos(r), x))
        /\ \A x : One(Dos(v), x) => One(Dos(r), x)
        /\ \A a, B : Before(Dos(v), a, B) /\ "receive" # a => Before(Dos(r), a, B)
        /\ \A k \in Carrying : /\ View(v, k) # <<>> /\ View(r, k) \in Seq(Word)
                               /\ View(r, k) = Tail(View(v, k))
        /\ \A k \in Carrying \ {"receive"} : Follows(View(v, k), View(r, k))
        /\ View(v, "receive")[1] = m /\ m # "none" /\ m \in Messages
    BY <2>1, <2>2
  <2> QED BY <2>3 DEF r
<1>3. /\ call[p] # "idle" /\ ~In(Dos(tasks[p]), "connect") /\ ~In(Dos(Tail(tasks[p])), "connect")
      /\ client[p] <=> ~shut[p]
  BY TaskTaken
<1>4. /\ tasks' \in [Peers -> Seq(Task)] /\ faults' = faults
      /\ tasks'[q] = tasks[q] /\ tasks'[p] = Tail(tasks[p])
  BY <1>1, FinishNone DEF OnTCPMessage
<1>5. /\ UNCHANGED <<call, pc, changes, alert, said, got, shut, client,
                     thread, raw, end, listening, wire, broken>>
      /\ ui' = [ui EXCEPT ![p] = Append(ui[p], m)]
      /\ room' = IF m = "offer" THEN [room EXCEPT ![p] = "CONNECTED"] ELSE room
  BY DEF OnTCPMessage, Tell, uiVars, netVars
<1>6. m \in Events /\ m \notin {"close", "error", "connected"}
  BY <1>2, IceAssumption DEF Events, Messages
<1>7. /\ ui' \in [Peers -> Seq(Events)] /\ ui'[p] = Append(ui[p], m) /\ ui'[q] = ui[q]
      /\ room' \in [Peers -> {"NEW", "CONNECTED", "CLOSED", "ERROR"}]
      /\ m = "offer" => room'[p] = "CONNECTED"
      /\ m # "offer" => room'[p] = room[p]
      /\ room'[q] = room[q]
  <2>1. Append(ui[p], m) \in Seq(Events)
    BY <1>1, <1>6, AppendParts
  <2>2. ui \in [Peers -> Seq(Events)] /\ room \in [Peers -> {"NEW", "CONNECTED", "CLOSED", "ERROR"}]
    BY <1>1 DEF Types, TypeOK
  <2> HIDE DEF m, q
  <2> QED BY <1>1, <1>5, <2>1, <2>2
<1>8. /\ \A x : In(ui'[p], x) <=> (In(ui[p], x) \/ x = m)
      /\ \A x : One(ui[p], x) /\ (x = m => ~In(ui[p], x)) => One(ui'[p], x)
      /\ \A a, B : Before(ui[p], a, B) /\ (m \in B => In(ui[p], a)) => Before(ui'[p], a, B)
      /\ Spoken(ui'[p]) = Append(Spoken(ui[p]), m)
  <2> HIDE DEF m
  <2> QED BY <1>1, <1>2, <1>6, <1>7, PostEvent
<1>9. Line(p, q) /\ Line(q, p)
  BY <1>1, LinesOf
<1>10. PICK i \in DOMAIN said[q] : said[q][i] = m /\ (i = 1 => got[p] = <<>>)
  <2>1. View(tasks[p], "receive") # <<>> /\ View(tasks[p], "receive")[1] # "none"
    BY <1>2 DEF Carrying
  <2>2. \E i \in DOMAIN said[q] : /\ said[q][i] = View(tasks[p], "receive")[1]
                                  /\ i = 1 => got[p] = <<>>
    BY <1>1, <1>9, <2>1, WhatIsReceived
  <2> QED BY <1>2, <2>2
\* The offer is the first thing a client is given.
<1>11. m = "offer" => p = "client" /\ pc[p] = "none" /\ said[p] = <<>>
  <2>1. m \in Own(q) /\ (m = First(q) <=> i = 1)
    BY <1>1, <1>10 DEF Types, FirstOnly
  <2>2. m = "offer" => q = "server" /\ i = 1
    BY <1>1, <2>1, IceAssumption DEF Own, First, Peers
  <2>3. m = "offer" => p = "client" /\ got[p] = <<>>
    BY <1>1, <1>10, <2>2 DEF Peers
  <2> HIDE DEF m, q
  <2>4. ASSUME m = "offer" PROVE pc[p] = "none"
    BY <1>1, <2>3, <2>4 DEF Made
  <2>5. ASSUME m = "offer" PROVE said[p] = <<>>
    BY <1>1, <2>4, <2>5 DEF Made
  <2> QED BY <2>3, <2>4, <2>5
<1>12. thread[p] \notin Early \cup {"announcing"}
  BY <1>1, <1>2 DEF Lived
<1> HIDE DEF m, q
<1>13. Types'
  BY <1>1, <1>4, <1>5, <1>7 DEF Types, TypeOK
<1>14. Started(p)'
  BY <1>3, <1>4, <1>5 DEF Started
<1>15. Lived(p)'
  <2>1. room'[p] = "CLOSED" => room[p] = "CLOSED"
    BY <1>7
  <2> QED BY <1>1, <1>2, <1>4, <1>5, <1>12, <2>1 DEF Lived
<1>16. Made(p)'
  <2>1. m # "connected"
    BY <1>6
  <2>2. /\ In(ui'[p], "connected") <=> In(ui[p], "connected")
        /\ One(ui[p], "connected") => One(ui'[p], "connected")
        /\ In(ui'[p], "offer") => In(ui[p], "offer") \/ m = "offer"
    BY <1>8, <2>1
  <2>3. /\ In(Dos(tasks'[p]), "connected") => In(Dos(tasks[p]), "connected")
        /\ One(Dos(tasks[p]), "connected") => One(Dos(tasks'[p]), "connected")
    BY <1>2, <1>4
  <2>4. room[p] # "NEW" => room'[p] # "NEW"
    BY <1>7
  <2>5. m = "offer" => room'[p] # "NEW"
    BY <1>7
  <2> QED BY <1>1, <1>5, <2>2, <2>3, <2>4, <2>5 DEF Made
<1>17. Excused(p)'
  <2>1. /\ In(ui'[p], "close") <=> In(ui[p], "close")
        /\ Before(ui[p], "close", {"error"}) => Before(ui'[p], "close", {"error"})
    BY <1>6, <1>8
  <2>2. /\ Before(Dos(tasks[p]), "tcpClose", {"tcpError", "roomError"})
             => Before(Dos(tasks'[p]), "tcpClose", {"tcpError", "roomError"})
        /\ In(Dos(tasks[p]), "tcpClose") => In(Dos(tasks'[p]), "tcpClose")
    BY <1>2, <1>4
  <2>3. room[p] # "ERROR" => room'[p] # "ERROR"
    BY <1>7
  <2> QED BY <1>1, <1>5, <2>1, <2>2, <2>3 DEF Excused
<1>18. Local(q)'
  BY <1>1, <1>4, <1>5, <1>7, Elsewhere DEF Still
<1>19. /\ Follows(Spoken(ui[q]), Spoken(ui'[q]))
       /\ \A k \in Carrying : Follows(View(tasks[q], k), View(tasks'[q], k))
  BY <1>1, <1>4, <1>7, LineTypes
<1>20. Line(p, q)'
  <2>1. Cut(p, q)
    <3>1. said[p] # <<>> => room'[p] = room[p]
      BY <1>7, <1>11
    <3> QED BY <1>5, <3>1 DEF Cut
  <2>2. /\ Follows(View(tasks[p], "write"), View(tasks'[p], "write"))
        /\ Follows(View(tasks[p], "send"), View(tasks'[p], "send"))
    BY <1>2, <1>4 DEF Carrying
  <2>3. Follows(View(tasks[q], "receive"), View(tasks'[q], "receive"))
    BY <1>19 DEF Carrying
  <2> QED BY <1>1, <1>5, <1>9, <1>19, <2>1, <2>2, <2>3, LineStill
<1>21. Line(q, p)'
  <2>1. View(tasks[p], "receive") # <<>> /\ View(tasks[p], "receive")[1] # "none"
    BY <1>2 DEF Carrying
  <2>2. Follows(Tail(View(tasks[p], "receive")), View(tasks'[p], "receive"))
    BY <1>2, <1>4, FollowsSame DEF Carrying
  <2>3. Spoken(ui'[p]) = Append(Spoken(ui[p]), View(tasks[p], "receive")[1])
    BY <1>2, <1>8
  <2>4. /\ said'[q] = said[q] /\ got'[p] = got[p] /\ call'[p] = call[p] /\ tasks'[q] = tasks[q]
        /\ wire'[p] = wire[p] /\ thread'[p] = thread[p] /\ client'[q] = client[q]
        /\ raw'[q] = raw[q] /\ end'[p] = end[p] /\ room'[q] = room[q]
    BY <1>4, <1>5, <1>7
  <2> QED BY <1>1, <1>9, <2>1, <2>2, <2>3, <2>4, LineReceive
<1>22. Lines'
  BY <1>20, <1>21, LinesOf DEF q
<1>23. Local(Other(p))'
  BY <1>18 DEF q
<1> QED BY <1>13, <1>14, <1>15, <1>16, <1>17, <1>22, <1>23, InvNext

LEMMA RunTaskKeeps ==
  ASSUME Inv, NEW p \in Peers, RunTask(p)
  PROVE  Inv'
<1> DEFINE t == Head(tasks[p])
<1>1. /\ tasks[p] # <<>> /\ UNCHANGED uiVars
      /\ \/ t.do = "connect" /\ ConnectToRoom(p)
         \/ t.do = "disconnect" /\ DisconnectFromRoom(p)
         \/ t.do = "send" /\ SendMessage(p, t.msg)
         \/ t.do = "write" /\ Write(p, t.msg)
         \/ t.do = "connected" /\ OnTCPConnected(p)
         \/ t.do = "receive" /\ OnTCPMessage(p, t.msg)
         \/ t.do = "tcpError" /\ OnTCPError(p)
         \/ t.do = "tcpClose" /\ OnTCPClose(p)
         \/ t.do = "roomError" /\ ReportError(p)
  BY DEF RunTask
<1>2. CASE t.do = "connect" /\ ConnectToRoom(p)
  BY <1>1, <1>2, ConnectKeeps
<1>3. CASE t.do = "disconnect" /\ DisconnectFromRoom(p)
  BY <1>1, <1>3, DisconnectKeeps
<1>4. CASE t.do = "send" /\ SendMessage(p, t.msg)
  BY <1>1, <1>4, SendKeeps
<1>5. CASE t.do = "write" /\ Write(p, t.msg)
  BY <1>1, <1>5, WriteKeeps
<1>6. CASE t.do = "connected" /\ OnTCPConnected(p)
  BY <1>1, <1>6, ConnectedKeeps
<1>7. CASE t.do = "receive" /\ OnTCPMessage(p, t.msg)
  BY <1>1, <1>7, ReceiveKeeps
<1>8. CASE t.do = "tcpError" /\ OnTCPError(p)
  BY <1>1, <1>8, TCPErrorKeeps
<1>9. CASE t.do = "tcpClose" /\ OnTCPClose(p)
  BY <1>1, <1>9, TCPCloseKeeps
<1>10. CASE t.do = "roomError" /\ ReportError(p)
  BY <1>1, <1>10, RoomErrorKeeps
<1> QED BY <1>1, <1>2, <1>3, <1>4, <1>5, <1>6, <1>7, <1>8, <1>9, <1>10

-----------------------------------------------------------------------------
(* The steps keep the invariant: the listening thread.                      *)

\* A step of the network or of a listening thread that posts nothing.
LEMMA QuietKeeps ==
  ASSUME Inv, UNCHANGED <<uiVars, roomVars, ui, tasks, faults, wire>>, Types',
         broken => broken',
         \A o \in Peers : /\ Lived(o)' /\ Made(o)' /\ Excused(o)'
                          /\ thread[o] = "none" => thread'[o] = "none"
                          /\ Cut(o, Other(o))
  PROVE  Inv'
<1>1. Types /\ (\A o \in Peers : Local(o)) /\ Lines
  BY InvParts
<1>2. UNCHANGED <<call, pc, changes, alert, said, got, shut, room, client, ui, tasks, faults, wire>>
  BY DEF uiVars, roomVars
<1>3. ASSUME NEW o \in Peers PROVE Started(o)'
  BY <1>1, <1>2 DEF Local, Started
<1>4. Lines'
  <2> DEFINE p == "server"
  <2>1. p \in Peers /\ Other(p) \in Peers /\ Other(Other(p)) = p
    BY OtherPeer DEF Peers
  <2>2. Cut(p, Other(p)) /\ Cut(Other(p), p)
    BY <2>1
  <2>3. /\ Follows(Spoken(ui[p]), Spoken(ui'[p]))
        /\ \A k \in Carrying : Follows(View(tasks[p], k), View(tasks'[p], k))
    BY <1>1, <1>2, <2>1, LineTypes
  <2> HIDE DEF p
  <2> QED BY <1>1, <1>2, <2>1, <2>2, <2>3, LinesStill
<1> QED BY <1>2, <1>3, <1>4 DEF Inv, Lines

LEMMA ListenKeeps ==
  ASSUME Inv, Listen
  PROVE  Inv'
<1>1. Types /\ \A o \in Peers : Local(o)
  BY InvParts
<1>2. /\ thread["server"] = "connecting" /\ thread' = [thread EXCEPT !["server"] = "accepting"]
      /\ thread'["server"] = "accepting" /\ thread'["client"] = thread["client"]
      /\ listening' = TRUE
      /\ UNCHANGED <<uiVars, roomVars, ui, tasks, faults, raw, end, wire, broken>>
      /\ "server" \in Peers /\ "client" \in Peers
  BY <1>1 DEF Listen, At, Types, TypeOK, Peers
<1>3. Types'
  <2>1. UNCHANGED <<call, pc, changes, alert, said, got, shut, room, client>>
    BY <1>2 DEF uiVars, roomVars
  <2> QED BY <1>1, <1>2, <2>1 DEF Types, TypeOK, Early
<1>4. ASSUME NEW o \in Peers
      PROVE  /\ Lived(o)' /\ Made(o)' /\ Excused(o)'
             /\ thread[o] = "none" => thread'[o] = "none"
             /\ Cut(o, Other(o))
  <2>1. /\ Lived(o) /\ Made(o) /\ Excused(o) /\ o \in {"server", "client"}
        /\ Other(o) \in {"server", "client"}
    BY <1>1, OtherPeer DEF Local, Peers
  <2>2. /\ thread'[o] = thread[o] \/ (thread[o] = "connecting" /\ thread'[o] = "accepting")
        /\ thread'[Other(o)] = thread[Other(o)]
             \/ (thread[Other(o)] = "connecting" /\ thread'[Other(o)] = "accepting")
    BY <1>2, <2>1
  <2>3. Lived(o)'
    BY <1>2, <2>1, <2>2 DEF Lived, Early, Opened, uiVars, roomVars
  <2>4. Made(o)'
    BY <1>2, <2>1 DEF Made, uiVars, roomVars
  <2>5. Excused(o)'
    BY <1>2, <2>1, <2>2 DEF Excused, uiVars, roomVars
  <2>6. Cut(o, Other(o))
    BY <1>2, <2>2 DEF Cut, uiVars, roomVars
  <2> QED BY <2>2, <2>3, <2>4, <2>5, <2>6
<1> QED BY <1>2, <1>3, <1>4, QuietKeeps

LEMMA ConnectPhonesKeeps ==
  ASSUME Inv, Connect
  PROVE  Inv'
<1>1. Types /\ \A o \in Peers : Local(o)
  BY InvParts
<1>2. /\ \A o \in Peers : thread[o] \in {"connecting", "accepting"}
      /\ thread' = [o \in Peers |-> "opening"] /\ end' = [o \in Peers |-> TRUE]
      /\ UNCHANGED <<uiVars, roomVars, ui, tasks, faults, raw, listening, wire, broken>>
  BY DEF Connect, Peers
<1>3. Types'
  BY <1>1, <1>2 DEF Types, TypeOK, Early, uiVars, roomVars
<1>4. ASSUME NEW o \in Peers
      PROVE  /\ Lived(o)' /\ Made(o)' /\ Excused(o)'
             /\ thread[o] = "none" => thread'[o] = "none"
             /\ Cut(o, Other(o))
  <2>1. Lived(o) /\ Made(o) /\ Excused(o) /\ thread'[o] = "opening"
    BY <1>1, <1>2 DEF Local
  <2>2. Lived(o)'
    BY <1>2, <2>1 DEF Lived, Early, Opened, uiVars, roomVars
  <2>3. Made(o)'
    BY <1>2, <2>1 DEF Made, uiVars, roomVars
  <2>4. Excused(o)'
    BY <1>2, <2>1 DEF Excused, uiVars, roomVars
  <2>5. said[o] = <<>>
    BY <1>2, <2>1 DEF Lived, Made, Early
  <2>6. Cut(o, Other(o))
    BY <2>5 DEF Cut
  <2> QED BY <1>2, <2>2, <2>3, <2>4, <2>6
<1> QED BY <1>2, <1>3, <1>4, QuietKeeps

\* A listening thread has read a line, or the end of the stream.
LEMMA ThreadMoves ==
  ASSUME Inv, NEW p \in Peers, NEW to \in {"posting", "closing"}, At(p, "reading", to),
         to = "posting" => wire[p] # <<>>,
         UNCHANGED <<uiVars, roomVars, ui, tasks, faults, raw, end, listening, wire, broken>>
  PROVE  Inv'
<1> DEFINE q == Other(p)
<1>1. Types /\ (\A o \in Peers : Local(o)) /\ q \in Peers /\ q # p /\ Peers = {p, q}
  BY InvParts, InvNow
<1>2. /\ thread' = [thread EXCEPT ![p] = to] /\ thread[p] = "reading"
      /\ thread'[p] = to /\ thread'[q] = thread[q]
      /\ UNCHANGED <<call, pc, changes, alert, said, got, shut, room, client, ui, tasks, faults,
                     raw, end, listening, wire, broken>>
  BY <1>1 DEF At, uiVars, roomVars, Types, TypeOK
<1>3. Types'
  BY <1>1, <1>2 DEF Types, TypeOK, Early
<1>4. ASSUME NEW o \in Peers
      PROVE  /\ Lived(o)' /\ Made(o)' /\ Excused(o)'
             /\ thread[o] = "none" => thread'[o] = "none"
             /\ Cut(o, Other(o))
  <2>1. /\ Lived(o) /\ Made(o) /\ Excused(o)
        /\ \A r \in Peers : thread'[r] = thread[r] \/ (thread[r] = "reading" /\ thread'[r] \in {"posting", "closing"})
        /\ Other(o) \in Peers
    BY <1>1, <1>2, OtherPeer DEF Local
  <2>2. Lived(o)'
    BY <1>2, <2>1 DEF Lived, Early, Opened
  <2>3. Made(o)'
    BY <1>2, <2>1 DEF Made
  <2>4. Excused(o)'
    BY <1>2, <2>1 DEF Excused
  <2>5. Cut(o, Other(o))
    BY <1>2, <2>1 DEF Cut
  <2> QED BY <2>1, <2>2, <2>3, <2>4, <2>5
<1> QED BY <1>2, <1>3, <1>4, QuietKeeps

LEMMA OpenStreamsKeeps ==
  ASSUME Inv, NEW p \in Peers, OpenStreams(p)
  PROVE  Inv'
<1> DEFINE q == Other(p)
<1>1. Types /\ (\A o \in Peers : Local(o)) /\ q \in Peers /\ q # p /\ Peers = {p, q}
  BY InvParts, InvNow
<1>2. /\ thread' = [thread EXCEPT ![p] = "announcing"] /\ thread[p] = "opening"
      /\ thread'[p] = "announcing" /\ thread'[q] = thread[q]
      /\ raw' = [raw EXCEPT ![p] = TRUE] /\ raw'[p] /\ raw'[q] = raw[q] /\ raw' \in [Peers -> BOOLEAN]
      /\ UNCHANGED <<call, pc, changes, alert, said, got, shut, room, client, ui, tasks, faults,
                     end, listening, wire, broken>>
  BY <1>1 DEF OpenStreams, At, uiVars, roomVars, Types, TypeOK
<1>3. Types'
  BY <1>1, <1>2 DEF Types, TypeOK, Early
<1>4. Lived(p) /\ said[p] = <<>>
  BY <1>1, <1>2 DEF Local, Lived, Made, Early
<1>5. ASSUME NEW o \in Peers
      PROVE  /\ Lived(o)' /\ Made(o)' /\ Excused(o)'
             /\ thread[o] = "none" => thread'[o] = "none"
             /\ Cut(o, Other(o))
  <2>1. /\ Lived(o) /\ Made(o) /\ Excused(o)
        /\ \A r \in Peers : thread'[r] = thread[r] \/ (thread[r] = "opening" /\ thread'[r] = "announcing" /\ raw'[r])
        /\ \A r \in Peers : raw'[r] = raw[r] \/ (raw'[r] /\ said[r] = <<>>)
        /\ Other(o) \in Peers
    BY <1>1, <1>2, <1>4, OtherPeer DEF Local
  <2>2. Lived(o)'
    BY <1>2, <2>1 DEF Lived, Early, Opened
  <2>3. Made(o)'
    BY <1>2, <2>1 DEF Made
  <2>4. Excused(o)'
    BY <1>2, <2>1 DEF Excused
  <2>5. Cut(o, Other(o))
    BY <1>2, <2>1 DEF Cut
  <2> QED BY <2>1, <2>2, <2>3, <2>4, <2>5
<1>6. UNCHANGED <<uiVars, roomVars, ui, tasks, faults, wire>>
  BY <1>2 DEF uiVars, roomVars
<1> QED BY <1>2, <1>3, <1>5, <1>6, QuietKeeps

LEMMA ReadLineKeeps ==
  ASSUME Inv, NEW p \in Peers, ReadLine(p)
  PROVE  Inv'
BY ThreadMoves DEF ReadLine

LEMMA ReadEndsKeeps ==
  ASSUME Inv, NEW p \in Peers, ReadEnds(p)
  PROVE  Inv'
BY ThreadMoves DEF ReadEnds

\* A listening thread gives its executor a task, or is refused because its
\* phone has left.
LEMMA ThreadPosts ==
  ASSUME Inv, NEW p \in Peers, NEW t \in Task, t.do \in {"connected", "receive", "tcpError", "tcpClose"},
         Execute(p, t), thread[p] # "none", UNCHANGED <<uiVars, roomVars, ui>>
  PROVE  /\ tasks' \in [Peers -> Seq(Task)] /\ faults' \subseteq Peers
         /\ tasks'[Other(p)] = tasks[Other(p)]
         /\ Other(p) \in faults' <=> Other(p) \in faults
         /\ p \in faults' => call[p] = "left"
         /\ shut[p] => call[p] = "left"
         /\ \A x : In(Dos(tasks'[p]), x) => In(Dos(tasks[p]), x) \/ (x = t.do /\ ~shut[p])
         /\ \A x : In(Dos(tasks[p]), x) => In(Dos(tasks'[p]), x)
         /\ ~shut[p] => In(Dos(tasks'[p]), t.do)
         /\ \A x : One(Dos(tasks[p]), x) /\ (x = t.do => ~In(Dos(tasks[p]), x)) => One(Dos(tasks'[p]), x)
         /\ \A a, B : Before(Dos(tasks[p]), a, B) /\ (t.do \in B => In(Dos(tasks[p]), a))
              => Before(Dos(tasks'[p]), a, B)
         /\ \A k \in Carrying : k # t.do => Follows(View(tasks[p], k), View(tasks'[p], k))
         /\ ~shut[p] => \A k \in Carrying : k = t.do => View(tasks'[p], k) = Append(View(tasks[p], k), t.msg)
         /\ shut[p] => \A k \in Carrying : Follows(View(tasks[p], k), View(tasks'[p], k))
         /\ Started(p)'
<1>1. /\ Types /\ Started(p) /\ Lived(p) /\ Other(p) \in Peers /\ Other(p) # p
      /\ tasks[p] \in Seq(Task)
  BY InvNow
<1>2. /\ tasks' \in [Peers -> Seq(Task)] /\ faults' \subseteq Peers
      /\ tasks'[Other(p)] = tasks[Other(p)]
      /\ Other(p) \in faults' <=> Other(p) \in faults
      /\ shut[p] => tasks'[p] = tasks[p]
      /\ ~shut[p] => tasks'[p] = Append(tasks[p], t) /\ (p \in faults' <=> p \in faults)
  BY <1>1, Executed
<1>3. (shut[p] => call[p] = "left") /\ (p \in faults' => call[p] = "left")
  BY <1>1, <1>2 DEF Lived
<1>4. /\ \A x : In(Dos(tasks'[p]), x) => In(Dos(tasks[p]), x) \/ (x = t.do /\ ~shut[p])
      /\ \A x : In(Dos(tasks[p]), x) => In(Dos(tasks'[p]), x)
      /\ ~shut[p] => In(Dos(tasks'[p]), t.do)
      /\ \A x : One(Dos(tasks[p]), x) /\ (x = t.do => ~In(Dos(tasks[p]), x)) => One(Dos(tasks'[p]), x)
      /\ \A a, B : Before(Dos(tasks[p]), a, B) /\ (t.do \in B => In(Dos(tasks[p]), a))
           => Before(Dos(tasks'[p]), a, B)
      /\ \A k \in Carrying : k # t.do => Follows(View(tasks[p], k), View(tasks'[p], k))
      /\ ~shut[p] => \A k \in Carrying : k = t.do => View(tasks'[p], k) = Append(View(tasks[p], k), t.msg)
      /\ shut[p] => \A k \in Carrying : Follows(View(tasks[p], k), View(tasks'[p], k))
  <2>1. CASE shut[p]
    BY <1>1, <1>2, <2>1, LineTypes
  <2>2. CASE ~shut[p]
    <3> DEFINE v == tasks[p]
               v2 == Append(v, t)
    <3>1. /\ \A x : In(Dos(v2), x) <=> (In(Dos(v), x) \/ x = t.do)
          /\ \A x : One(Dos(v), x) /\ (x = t.do => ~In(Dos(v), x)) => One(Dos(v2), x)
          /\ \A a, B : Before(Dos(v), a, B) /\ (t.do \in B => In(Dos(v), a)) => Before(Dos(v2), a, B)
          /\ \A k \in Carrying : /\ k # t.do => Follows(View(v, k), View(v2, k))
                                 /\ k = t.do => View(v2, k) = Append(View(v, k), t.msg)
      BY <1>1, PostTask
    <3>2. tasks'[p] = v2
      BY <1>2, <2>2
    <3> HIDE DEF v2
    <3> QED BY <2>2, <3>1, <3>2
  <2> QED BY <2>1, <2>2
<1>5. Started(p)'
  <2>1. call[p] # "idle" /\ ~In(Dos(tasks[p]), "connect")
    BY <1>1 DEF Started
  <2>2. ~In(Dos(tasks'[p]), "connect")
    BY <1>4, <2>1
  <2>3. UNCHANGED <<call, client, shut>>
    BY DEF uiVars, roomVars
  <2> QED BY <1>1, <2>1, <2>2, <2>3 DEF Started
<1> QED BY <1>2, <1>3, <1>4, <1>5

\* The step of a listening thread that posts t, which is no message.
LEMMA SignalKeeps ==
  ASSUME Inv, NEW p \in Peers, NEW t \in Task, t.do \in {"connected", "tcpError", "tcpClose"},
         Execute(p, t), UNCHANGED <<uiVars, roomVars, ui, wire>>,
         thread[p] # "none", NEW to \in {"reading", "closing", "dead"}, thread' = [thread EXCEPT ![p] = to],
         thread[p] \in {"closing", "dead"} => to \in {"closing", "dead"},
         to = "dead" => shut[p] \/ t.do = "tcpClose" \/ broken',
         t.do = "connected" => thread[p] = "announcing",
         t.do = "tcpError" => shut[p] \/ broken',
         thread[p] \in Opened \/ to = "dead",
         TypeOK', broken => broken',
         raw'[p] => raw[p], to # "dead" => raw'[p] = raw[p], raw'[Other(p)] = raw[Other(p)],
         end'[p] => end[p], end'[Other(p)] = end[Other(p)],
         listening => listening' \/ p = "server"
  PROVE  Inv'
<1> DEFINE q == Other(p)
<1>1. /\ Types /\ Started(p) /\ Lived(p) /\ Made(p) /\ Excused(p) /\ Lines
      /\ Local(q) /\ q \in Peers /\ q # p
      /\ Peers = {p, q}
      /\ tasks[p] \in Seq(Task) /\ ui[p] \in Seq(Events)
  BY InvNow
<1>2. /\ UNCHANGED <<call, pc, changes, alert, said, got, shut, room, client, ui, wire>>
      /\ thread'[p] = to /\ thread'[q] = thread[q]
      /\ to \in {"reading", "closing", "dead"}
  BY <1>1 DEF uiVars, roomVars, Types, TypeOK
<1>3. /\ tasks'[q] = tasks[q]
      /\ q \in faults' <=> q \in faults
      /\ p \in faults' => call[p] = "left"
      /\ shut[p] => call[p] = "left"
      /\ \A x : In(Dos(tasks'[p]), x) => In(Dos(tasks[p]), x) \/ (x = t.do /\ ~shut[p])
      /\ \A x : In(Dos(tasks[p]), x) => In(Dos(tasks'[p]), x)
      /\ ~shut[p] => In(Dos(tasks'[p]), t.do)
      /\ \A x : One(Dos(tasks[p]), x) /\ (x = t.do => ~In(Dos(tasks[p]), x)) => One(Dos(tasks'[p]), x)
      /\ \A a, B : Before(Dos(tasks[p]), a, B) /\ (t.do \in B => In(Dos(tasks[p]), a))
           => Before(Dos(tasks'[p]), a, B)
      /\ \A k \in Carrying : Follows(View(tasks[p], k), View(tasks'[p], k))
      /\ Started(p)'
  BY ThreadPosts DEF Carrying
<1> HIDE DEF q
<1>4. Types'
  <2>1. /\ \A o \in Peers : said'[o] \in Seq(Own(o)) /\ FirstOnly(said'[o], First(o))
        /\ \A o \in Peers : thread'[o] = "posting" => wire'[o] # <<>>
    BY <1>1, <1>2 DEF Types
  <2>2. \A o \in Peers : thread'[o] = "opening" => end'[o]
    BY <1>1, <1>2 DEF Types, q
  <2>3. \A o \in Peers : thread'[o] \in Early => ~raw'[o]
    BY <1>1, <1>2 DEF Types, Early, q
  <2> QED BY <2>1, <2>2, <2>3 DEF Types
<1>5. Lived(p)'
  <2>1. In(Dos(tasks'[p]), "disconnect") => In(Dos(tasks[p]), "disconnect")
    BY <1>3
  <2>2. thread'[p] \in Opened /\ ~raw'[p] => thread[p] \in Opened /\ ~raw[p]
    BY <1>2 DEF Opened
  <2> QED BY <1>1, <1>2, <1>3, <2>1, <2>2 DEF Lived, Early
<1>6. Made(p)'
  <2>1. /\ In(Dos(tasks'[p]), "connected") => In(Dos(tasks[p]), "connected") \/ thread[p] = "announcing"
        /\ One(Dos(tasks[p]), "connected") => One(Dos(tasks'[p]), "connected")
    BY <1>1, <1>3 DEF Lived
  <2>2. thread[p] = "announcing" => pc[p] = "none" /\ ~In(ui[p], "connected")
    BY <1>1 DEF Lived, Events
  <2> QED BY <1>1, <1>2, <2>1, <2>2 DEF Made
<1>7. Excused(p)'
  <2>1. CASE broken'
    BY <2>1 DEF Excused
  <2>2. CASE call[p] = "left"
    BY <1>1, <1>2, <2>2 DEF Excused
  <2>3. CASE ~broken' /\ call[p] # "left"
    <3>1. ~shut[p] /\ t.do # "tcpError" /\ t.do # "roomError"
      BY <1>3, <2>3
    <3>2. Before(Dos(tasks[p]), "tcpClose", {"tcpError", "roomError"})
            => Before(Dos(tasks'[p]), "tcpClose", {"tcpError", "roomError"})
      BY <1>3, <3>1
    <3>3. thread'[p] = "dead" => In(Dos(tasks'[p]), "tcpClose")
      BY <1>2, <1>3, <2>3, <3>1
    <3> QED BY <1>1, <1>2, <2>3, <3>2, <3>3 DEF Excused
  <2> QED BY <2>1, <2>2, <2>3
<1>8. Local(q)'
  BY <1>1, <1>2, <1>3, Elsewhere DEF Still, q, Peers
<1>9. Lines'
  <2>1. Cut(p, q) /\ Cut(q, p)
    BY <1>2 DEF Cut, q
  <2>2. Follows(Spoken(ui[p]), Spoken(ui'[p]))
    BY <1>1, <1>2, LineTypes
  <2> QED BY <1>1, <1>2, <1>3, <2>1, <2>2, LinesStill DEF q
<1> QED BY <1>3, <1>4, <1>5, <1>6, <1>7, <1>8, <1>9, InvNext DEF q

LEMMA ConnectFailsKeeps ==
  ASSUME Inv, ConnectFails
  PROVE  Inv'
<1> DEFINE t == Do("tcpError")
<1>1. /\ Types /\ "client" \in Peers /\ Other("client") = "server" /\ "server" \in Peers
  BY InvParts, OtherPeer DEF Peers
<1>2. t \in Task /\ t.do = "tcpError"
  BY TaskMade DEF Act, Carrying
<1>3. /\ thread["client"] = "connecting" /\ thread' = [thread EXCEPT !["client"] = "dead"]
      /\ Execute("client", t) /\ broken'
      /\ UNCHANGED <<uiVars, roomVars, ui, raw, end, listening, wire>>
  BY DEF ConnectFails, At
<1>4. TypeOK'
  <2>1. tasks' \in [Peers -> Seq(Task)] /\ faults' \subseteq Peers
    BY <1>1, <1>2, <1>3, Executed
  <2>2. UNCHANGED <<call, pc, changes, alert, said, got, shut, room, client>> /\ broken' \in BOOLEAN
    BY <1>3 DEF uiVars, roomVars, ConnectFails
  <2> QED BY <1>1, <1>3, <2>1, <2>2 DEF Types, TypeOK
<1> HIDE DEF t
<1> QED BY <1>1, <1>2, <1>3, <1>4, SignalKeeps

LEMMA AcceptFailsKeeps ==
  ASSUME Inv, AcceptFails
  PROVE  Inv'
<1> DEFINE t == Do("tcpError")
<1>1. /\ Types /\ "server" \in Peers /\ Other("server") = "client" /\ "client" \in Peers
      /\ Made("server")
  BY InvParts, OtherPeer DEF Peers, Local
<1>2. t \in Task /\ t.do = "tcpError"
  BY TaskMade DEF Act, Carrying
<1>3. /\ thread["server"] = "accepting" /\ thread' = [thread EXCEPT !["server"] = "dead"]
      /\ Execute("server", t) /\ ~listening
      /\ UNCHANGED <<uiVars, roomVars, ui, raw, end, listening, wire, broken>>
  BY DEF AcceptFails, At
<1>4. shut["server"]
  BY <1>1, <1>3 DEF Made
<1>5. TypeOK'
  <2>1. tasks' \in [Peers -> Seq(Task)] /\ faults' \subseteq Peers
    BY <1>1, <1>2, <1>3, Executed
  <2>2. UNCHANGED <<call, pc, changes, alert, said, got, shut, room, client>>
    BY <1>3 DEF uiVars, roomVars
  <2> QED BY <1>1, <1>3, <2>1, <2>2 DEF Types, TypeOK
<1> HIDE DEF t
<1> QED BY <1>1, <1>2, <1>3, <1>4, <1>5, SignalKeeps

LEMMA ReadFailsKeeps ==
  ASSUME Inv, NEW p \in Peers, ReadFails(p)
  PROVE  Inv'
<1> DEFINE t == Do("tcpError")
<1>1. Types /\ Other(p) \in Peers
  BY InvNow
<1>2. t \in Task /\ t.do = "tcpError"
  BY TaskMade DEF Act, Carrying
<1>3. /\ thread[p] = "reading" /\ thread' = [thread EXCEPT ![p] = "closing"]
      /\ Execute(p, t) /\ broken'
      /\ UNCHANGED <<uiVars, roomVars, ui, raw, end, listening, wire>>
  BY DEF ReadFails, At
<1>4. TypeOK'
  <2>1. tasks' \in [Peers -> Seq(Task)] /\ faults' \subseteq Peers
    BY <1>1, <1>2, <1>3, Executed
  <2>2. UNCHANGED <<call, pc, changes, alert, said, got, shut, room, client>> /\ broken' \in BOOLEAN
    BY <1>3 DEF uiVars, roomVars, ReadFails
  <2> QED BY <1>1, <1>3, <2>1, <2>2 DEF Types, TypeOK
<1> HIDE DEF t
<1> QED BY <1>1, <1>2, <1>3, <1>4, SignalKeeps DEF Opened

LEMMA AnnounceKeeps ==
  ASSUME Inv, NEW p \in Peers, Announce(p)
  PROVE  Inv'
<1> DEFINE t == Do("connected")
           to == IF shut[p] THEN "dead" ELSE "reading"
<1>1. Types /\ Other(p) \in Peers
  BY InvNow
<1>2. t \in Task /\ t.do = "connected"
  BY TaskMade DEF Act, Carrying
<1>3. /\ thread[p] = "announcing" /\ thread' = [thread EXCEPT ![p] = to]
      /\ Execute(p, t) /\ to \in {"reading", "closing", "dead"}
      /\ to = "dead" => shut[p]
      /\ UNCHANGED <<uiVars, roomVars, ui, raw, end, listening, wire, broken>>
  BY DEF Announce, At
<1> HIDE DEF to
<1>4. TypeOK'
  <2>1. tasks' \in [Peers -> Seq(Task)] /\ faults' \subseteq Peers
    BY <1>1, <1>2, <1>3, Executed
  <2>2. UNCHANGED <<call, pc, changes, alert, said, got, shut, room, client>>
    BY <1>3 DEF uiVars, roomVars
  <2> QED BY <1>1, <1>3, <2>1, <2>2 DEF Types, TypeOK
<1> HIDE DEF t
<1> QED BY <1>1, <1>2, <1>3, <1>4, SignalKeeps DEF Opened

LEMMA CloseThreadKeeps ==
  ASSUME Inv, NEW p \in Peers, CloseThread(p)
  PROVE  Inv'
<1> DEFINE t == Do("tcpClose")
           q == Other(p)
<1>1. /\ Types /\ Started(p) /\ Lived(p) /\ Made(p) /\ Excused(p) /\ Lines
      /\ Local(q) /\ q \in Peers /\ q # p
      /\ Peers = {p, q} /\ tasks[p] \in Seq(Task) /\ ui[p] \in Seq(Events)
  BY InvNow
<1>2. t \in Task /\ t.do = "tcpClose"
  BY TaskMade DEF Act, Carrying
<1>3. /\ thread[p] = "closing" /\ thread' = [thread EXCEPT ![p] = "dead"]
      /\ raw' = [raw EXCEPT ![p] = FALSE] /\ end' = [end EXCEPT ![p] = end[p] /\ ~raw[p]]
      /\ listening' = (listening /\ p # "server")
      /\ IF raw[p] THEN Execute(p, t) ELSE UNCHANGED <<tasks, faults>>
      /\ UNCHANGED <<call, pc, changes, alert, said, got, shut, room, client, ui, wire, broken>>
  BY DEF CloseThread, CloseSocket, At, uiVars, roomVars
<1>4. /\ raw'[p] = FALSE /\ raw'[q] = raw[q] /\ end'[q] = end[q] /\ (end'[p] => end[p])
      /\ thread'[p] = "dead" /\ thread'[q] = thread[q]
      /\ raw' \in [Peers -> BOOLEAN] /\ end' \in [Peers -> BOOLEAN] /\ listening' \in BOOLEAN
      /\ thread' \in [Peers -> {"none", "connecting", "accepting", "opening",
                                "announcing", "reading", "posting", "closing", "dead"}]
      /\ \A o \in Peers : raw'[o] => end'[o]
      /\ p # "server" => listening' = listening
  BY <1>1, <1>3 DEF Types, TypeOK
<1> HIDE DEF q
<1>5. ASSUME raw[p] PROVE Inv'
  <2>1. Execute(p, t)
    BY <1>3, <1>5
  <2>2. tasks' \in [Peers -> Seq(Task)] /\ faults' \subseteq Peers
    BY <1>1, <1>2, <2>1, Executed
  <2>3. TypeOK'
    BY <1>1, <1>3, <1>4, <2>2 DEF Types, TypeOK
  <2>4. raw'[Other(p)] = raw[Other(p)] /\ end'[Other(p)] = end[Other(p)]
    BY <1>4 DEF q
  <2>5. UNCHANGED <<uiVars, roomVars, ui, wire>>
    BY <1>3 DEF uiVars, roomVars
  <2> HIDE DEF t
  <2> QED BY <1>1, <1>2, <1>3, <1>4, <1>5, <2>1, <2>3, <2>4, <2>5, SignalKeeps DEF Opened
<1>6. ASSUME ~raw[p] PROVE Inv'
  <2>1. UNCHANGED <<tasks, faults>>
    BY <1>3, <1>6
  <2>2. call[p] = "left"
    BY <1>1, <1>3, <1>6 DEF Lived, Opened
  <2>3. Types'
    <3>1. TypeOK'
      BY <1>1, <1>3, <1>4, <2>1 DEF Types, TypeOK
    <3>2. \A o \in Peers : /\ thread'[o] = "posting" => wire'[o] # <<>>
                           /\ thread'[o] = "opening" => end'[o]
                           /\ thread'[o] \in Early => ~raw'[o]
      BY <1>1, <1>3, <1>4 DEF Types, Early
    <3> QED BY <1>1, <1>3, <3>1, <3>2 DEF Types
  <2>4. Lived(p)'
    BY <1>1, <1>3, <1>4, <2>1, <2>2 DEF Lived, Early, Opened
  <2>5. Made(p)'
    BY <1>1, <1>3, <1>4, <2>1 DEF Made
  <2>6. Excused(p)'
    BY <1>1, <1>3, <2>2 DEF Excused
  <2>7. /\ thread'[q] = thread[q] /\ raw'[q] = raw[q]
        /\ q = "server" => (listening => listening')
    BY <1>1, <1>4
  <2>8. Local(q)'
    BY <1>1, <1>3, <2>1, <2>7, Elsewhere DEF Still
  <2>9. Lived(q)' /\ Made(q)' /\ Excused(q)'
    BY <2>8 DEF Local
  <2>10. Cut(p, q) /\ Cut(q, p)
    BY <1>3, <1>4 DEF Cut
  <2>11. UNCHANGED <<uiVars, roomVars, ui, tasks, faults, wire>>
    BY <1>3, <2>1 DEF uiVars, roomVars
  <2>12. ASSUME NEW o \in Peers
         PROVE  /\ Lived(o)' /\ Made(o)' /\ Excused(o)'
                /\ thread[o] = "none" => thread'[o] = "none"
                /\ Cut(o, Other(o))
    <3>1. Other(o) = IF o = p THEN q ELSE p
      BY <1>1, OtherPeer DEF q, Peers
    <3> QED BY <1>1, <1>3, <1>4, <2>4, <2>5, <2>6, <2>9, <2>10, <3>1
  <2> QED BY <1>3, <2>3, <2>11, <2>12, QuietKeeps
<1> QED BY <1>5, <1>6

\* The line read is given to the executor, or dropped with the thread.
LEMMA PostLineKeeps ==
  ASSUME Inv, NEW p \in Peers, PostLine(p)
  PROVE  Inv'
<1> DEFINE q == Other(p)
           m == Head(wire[p])
           t == With("receive", m)
           to == IF shut[p] THEN "dead" ELSE "reading"
<1>1. /\ Types /\ Started(p) /\ Lived(p) /\ Made(p) /\ Excused(p) /\ Lines
      /\ Local(q) /\ q \in Peers /\ q # p
      /\ Peers = {p, q} /\ tasks[p] \in Seq(Task) /\ ui[p] \in Seq(Events)
  BY InvNow
<1>2. /\ wire[p] # <<>> /\ wire[p] \in Seq(Messages) /\ m \in Messages /\ m = wire[p][1]
      /\ Tail(wire[p]) \in Seq(Messages)
  <2>1. thread[p] = "posting"
    BY DEF PostLine, At
  <2>2. wire[p] # <<>> /\ wire[p] \in Seq(Messages)
    BY <1>1, <2>1 DEF Types, TypeOK
  <2> QED BY <2>2, TailParts
<1>3. t \in Task /\ t.do = "receive" /\ t.msg = m
  BY <1>2, TaskMade DEF Act, Carrying
<1>4. /\ thread[p] = "posting" /\ thread' = [thread EXCEPT ![p] = to]
      /\ wire' = [wire EXCEPT ![p] = Tail(wire[p])]
      /\ Execute(p, t)
      /\ to \in {"reading", "dead"} /\ (to = "dead" <=> shut[p])
      /\ UNCHANGED <<call, pc, changes, alert, said, got, shut, room, client, ui,
                     raw, end, listening, broken>>
  BY DEF PostLine, At, uiVars, roomVars
<1> HIDE DEF to, t, m
<1>5. /\ wire'[p] = Tail(wire[p]) /\ wire'[q] = wire[q] /\ wire' \in [Peers -> Seq(Messages)]
      /\ thread'[p] = to /\ thread'[q] = thread[q]
      /\ thread' \in [Peers -> {"none", "connecting", "accepting", "opening",
                                "announcing", "reading", "posting", "closing", "dead"}]
  BY <1>1, <1>2, <1>4 DEF Types, TypeOK
<1>6. /\ tasks' \in [Peers -> Seq(Task)] /\ faults' \subseteq Peers
      /\ tasks'[q] = tasks[q]
      /\ q \in faults' <=> q \in faults
      /\ p \in faults' => call[p] = "left"
      /\ shut[p] => call[p] = "left"
      /\ \A x : In(Dos(tasks'[p]), x) => In(Dos(tasks[p]), x) \/ (x = "receive" /\ ~shut[p])
      /\ \A x : In(Dos(tasks[p]), x) => In(Dos(tasks'[p]), x)
      /\ \A x : One(Dos(tasks[p]), x) /\ x # "receive" => One(Dos(tasks'[p]), x)
      /\ Before(Dos(tasks[p]), "tcpClose", {"tcpError", "roomError"})
           => Before(Dos(tasks'[p]), "tcpClose", {"tcpError", "roomError"})
      /\ \A k \in Carrying \ {"receive"} : Follows(View(tasks[p], k), View(tasks'[p], k))
      /\ ~shut[p] => View(tasks'[p], "receive") = Append(View(tasks[p], "receive"), m)
      /\ shut[p] => Follows(View(tasks[p], "receive"), View(tasks'[p], "receive"))
      /\ Started(p)'
  <2>1. /\ t.do \in {"connected", "receive", "tcpError", "tcpClose"} /\ thread[p] # "none"
        /\ UNCHANGED <<uiVars, roomVars, ui>>
    BY <1>3, <1>4 DEF uiVars, roomVars
  <2>2. /\ tasks' \in [Peers -> Seq(Task)] /\ faults' \subseteq Peers
        /\ tasks'[Other(p)] = tasks[Other(p)]
        /\ Other(p) \in faults' <=> Other(p) \in faults
        /\ p \in faults' => call[p] = "left"
        /\ shut[p] => call[p] = "left"
        /\ \A x : In(Dos(tasks'[p]), x) => In(Dos(tasks[p]), x) \/ (x = t.do /\ ~shut[p])
        /\ \A x : In(Dos(tasks[p]), x) => In(Dos(tasks'[p]), x)
        /\ \A x : One(Dos(tasks[p]), x) /\ (x = t.do => ~In(Dos(tasks[p]), x)) => One(Dos(tasks'[p]), x)
        /\ \A a, B : Before(Dos(tasks[p]), a, B) /\ (t.do \in B => In(Dos(tasks[p]), a))
             => Before(Dos(tasks'[p]), a, B)
        /\ \A k \in Carrying : k # t.do => Follows(View(tasks[p], k), View(tasks'[p], k))
        /\ ~shut[p] => \A k \in Carrying : k = t.do => View(tasks'[p], k) = Append(View(tasks[p], k), t.msg)
        /\ shut[p] => \A k \in Carrying : Follows(View(tasks[p], k), View(tasks'[p], k))
        /\ Started(p)'
    BY <1>3, <1>4, <2>1, ThreadPosts
  <2>3. "receive" \in Carrying
    BY DEF Carrying
  <2> QED BY <1>3, <2>2, <2>3
<1> HIDE DEF q
<1>7. Types'
  <2>1. TypeOK'
    BY <1>1, <1>4, <1>5, <1>6 DEF Types, TypeOK
  <2>2. \A o \in Peers : /\ thread'[o] = "posting" => wire'[o] # <<>>
                         /\ thread'[o] = "opening" => end'[o]
                         /\ thread'[o] \in Early => ~raw'[o]
    BY <1>1, <1>4, <1>5 DEF Types, Early
  <2> QED BY <1>1, <1>4, <2>1, <2>2 DEF Types
<1>8. Lived(p)'
  BY <1>1, <1>4, <1>5, <1>6 DEF Lived, Early, Opened
<1>9. Made(p)'
  BY <1>1, <1>4, <1>5, <1>6 DEF Made
<1>10. Excused(p)'
  BY <1>1, <1>4, <1>5, <1>6 DEF Excused
<1>11. Local(q)'
  BY <1>1, <1>4, <1>5, <1>6, Elsewhere DEF Still
<1>12. Line(p, q) /\ Line(q, p)
  BY <1>1, LinesOf DEF q
<1>13. /\ Follows(Spoken(ui[q]), Spoken(ui'[q])) /\ Follows(Spoken(ui[p]), Spoken(ui'[p]))
       /\ \A k \in Carrying : Follows(View(tasks[q], k), View(tasks'[q], k))
  BY <1>1, <1>4, <1>6, LineTypes
<1>14. Line(p, q)'
  <2>1. Cut(p, q)
    BY <1>4, <1>5 DEF Cut
  <2>2. /\ Follows(View(tasks[p], "write"), View(tasks'[p], "write"))
        /\ Follows(View(tasks[p], "send"), View(tasks'[p], "send"))
        /\ Follows(View(tasks[q], "receive"), View(tasks'[q], "receive"))
    BY <1>6, <1>13 DEF Carrying
  <2>3. /\ said'[p] = said[p] /\ got'[q] = got[q] /\ wire'[q] = wire[q]
        /\ call[q] = "left" => call'[q] = "left"
    BY <1>4, <1>5
  <2> QED BY <1>1, <1>12, <1>13, <2>1, <2>2, <2>3, LineStill
<1>15. Line(q, p)'
  <2>1. said'[q] = said[q] /\ got'[p] = got[p] /\ call'[p] = call[p]
    BY <1>4
  <2>2. CASE shut[p]
    <3>1. said[q] # <<>>
      BY <1>1, <1>2, <1>12, SaidBefore
    <3>2. thread'[p] \in {"closing", "dead"}
      BY <1>4, <1>5, <2>2
    <3>3. Follows(View(tasks[p], "receive"), View(tasks'[p], "receive"))
      BY <1>6, <2>2
    <3> QED BY <1>1, <1>12, <1>13, <2>1, <3>1, <3>2, <3>3, LineCut
  <2>3. CASE ~shut[p]
    <3>1. /\ wire[p] # <<>> /\ wire'[p] = Tail(wire[p])
          /\ thread[p] \notin {"closing", "dead"} /\ thread'[p] \notin {"closing", "dead"}
          /\ View(tasks'[p], "receive") = Append(View(tasks[p], "receive"), wire[p][1])
      BY <1>2, <1>4, <1>5, <1>6, <2>3
    <3>2. /\ ui'[p] = ui[p] /\ tasks'[q] = tasks[q] /\ client'[q] = client[q] /\ raw'[q] = raw[q]
          /\ end'[p] = end[p] /\ room'[q] = room[q]
      BY <1>4, <1>6
    <3> QED BY <1>1, <1>12, <2>1, <3>1, <3>2, LinePost
  <2> QED BY <2>2, <2>3
<1>16. Lines'
  BY <1>14, <1>15, LinesOf DEF q
<1>17. Local(Other(p))'
  BY <1>11 DEF q
<1> QED BY <1>6, <1>7, <1>8, <1>9, <1>10, <1>16, <1>17, InvNext

LEMMA ThreadStepKeeps ==
  ASSUME Inv, NEW p \in Peers, ThreadStep(p)
  PROVE  Inv'
BY OpenStreamsKeeps, AnnounceKeeps, ReadLineKeeps, PostLineKeeps, ReadEndsKeeps, CloseThreadKeeps
   DEF ThreadStep

-----------------------------------------------------------------------------
(* The theorems.                                                            *)

LEMMA InitEstablishes ==
  ASSUME Init
  PROVE  Inv
<1> USE DEF Init
<1>1. Types
  <2>1. TypeOK
    <3>1. \A p \in Peers : MaxChanges[p] \in Nat
      BY IceAssumption
    <3>2. \A p \in Peers : changes[p] \in 0..MaxChanges[p]
      BY <3>1
    <3>3. ui \in [Peers -> Seq(Events)] /\ tasks \in [Peers -> Seq(Task)]
      OBVIOUS
    <3>4. /\ wire \in [Peers -> Seq(Messages)]
          /\ said \in [Peers -> Seq(Messages)] /\ got \in [Peers -> Seq(Messages)]
      OBVIOUS
    <3>5. /\ call \in [Peers -> {"idle", "calling", "left"}]
          /\ pc \in [Peers -> {"none", "made", "described"}]
          /\ shut \in [Peers -> BOOLEAN] /\ client \in [Peers -> BOOLEAN]
          /\ room \in [Peers -> {"NEW", "CONNECTED", "CLOSED", "ERROR"}]
          /\ thread \in [Peers -> {"none", "connecting", "accepting", "opening",
                                   "announcing", "reading", "posting", "closing", "dead"}]
          /\ raw \in [Peers -> BOOLEAN] /\ end \in [Peers -> BOOLEAN]
          /\ \A p \in Peers : ~raw[p]
      OBVIOUS
    <3>6. /\ alert \subseteq Peers /\ faults \subseteq Peers
          /\ listening \in BOOLEAN /\ broken \in BOOLEAN
      OBVIOUS
    <3> HIDE DEF Init
    <3> QED BY <3>2, <3>3, <3>4, <3>5, <3>6 DEF TypeOK
  <2>2. \A p \in Peers : said[p] \in Seq(Own(p)) /\ FirstOnly(said[p], First(p))
    BY DEF FirstOnly
  <2> QED BY <2>1, <2>2 DEF Types
<1>2. ASSUME NEW p \in Peers PROVE Local(p)
  <2>1. /\ tasks[p] = <<>> /\ ui[p] = <<>> /\ call[p] = "idle" /\ pc[p] = "none"
        /\ ~shut[p] /\ ~client[p] /\ room[p] = "NEW" /\ thread[p] = "none" /\ ~raw[p]
        /\ said[p] = <<>> /\ got[p] = <<>> /\ p \notin alert /\ p \notin faults
    OBVIOUS
  <2>2. /\ \A x : ~In(Dos(<<>>), x) /\ One(Dos(<<>>), x)
        /\ \A a, B : Before(Dos(<<>>), a, B)
        /\ \A x : ~In(<<>>, x) /\ One(<<>>, x)
        /\ \A a, B : Before(<<>>, a, B)
    BY DEF In, One, Before, Dos
  <2> HIDE DEF Init
  <2>3. Started(p)
    BY <2>1, <2>2 DEF Started
  <2>4. Lived(p)
    BY <2>1, <2>2 DEF Lived, Opened
  <2>5. Made(p)
    BY <2>1, <2>2 DEF Made
  <2>6. Excused(p)
    BY <2>1, <2>2 DEF Excused
  <2> QED BY <2>3, <2>4, <2>5, <2>6 DEF Local
<1>3. ASSUME NEW p \in Peers, NEW q \in Peers PROVE Line(p, q)
  <2>1. /\ said[p] = <<>> /\ got[q] = <<>> /\ call[q] # "left" /\ Spoken(ui[q]) = <<>>
        /\ \A k : View(tasks[q], k) = <<>> /\ View(tasks[p], k) = <<>>
        /\ wire[q] = <<>>
    BY DEF Spoken, View
  <2>2. IsPrefix(<<>>, <<>>) /\ Len(<<>>) = 0
    BY DEF IsPrefix
  <2>3. Carries(<<>>, <<>>, 0, 0)
    <3> HIDE DEF Init
    <3> DEFINE I == (0 + 1)..0
               pos == [i \in I |-> 0]
    <3>1. \A i \in I : FALSE
      OBVIOUS
    <3>2. pos \in [I -> DOMAIN <<>>]
      BY <3>1
    <3>3. \A k \in DOMAIN <<>> : FALSE
      OBVIOUS
    <3>4. 0 <= 0 /\ 0 <= Len(<<>>)
      OBVIOUS
    <3> HIDE DEF I, pos
    <3>5. /\ \A i, j \in I : i < j => pos[i] < pos[j]
          /\ \A i \in I : <<>>[pos[i]] = <<>>[i]
          /\ \A k \in DOMAIN <<>> : <<>>[k] # "none" => \E i \in I : pos[i] = k
      BY <3>1, <3>3
    <3>6. \E f \in [I -> DOMAIN <<>>] :
            /\ \A i, j \in I : i < j => f[i] < f[j]
            /\ \A i \in I : <<>>[f[i]] = <<>>[i]
            /\ \A k \in DOMAIN <<>> : <<>>[k] # "none" => \E i \in I : f[i] = k
      BY <3>2, <3>5
    <3> QED BY <3>4, <3>6 DEF Carries, I
  <2> HIDE DEF Init
  <2> QED BY <2>1, <2>2, <2>3 DEF Line, Chain
<1> QED BY <1>1, <1>2, <1>3 DEF Inv, Local, Peers

LEMMA StutterKeeps ==
  ASSUME Inv, UNCHANGED vars
  PROVE  Inv'
<1>1. Types /\ (\A o \in Peers : Local(o)) /\ Lines
  BY InvParts
<1>2. UNCHANGED <<call, pc, changes, alert, said, got, shut, room, client,
                  thread, raw, end, listening, wire, broken, ui, tasks, faults>>
  BY DEF vars, uiVars, roomVars, netVars
<1>3. Types'
  BY <1>1, <1>2 DEF Types, TypeOK
<1>4. \A o \in Peers : Local(o)'
  BY <1>1, <1>2, Elsewhere DEF Still
<1>5. Lines'
  BY <1>1, <1>2 DEF Lines, Line
<1> QED BY <1>3, <1>4, <1>5 DEF Inv, Local, Lines

LEMMA Invariance == Spec => []Inv
<1>1. Init => Inv
  BY InitEstablishes
<1>2. Inv /\ [Next]_vars => Inv'
  <2> SUFFICES ASSUME Inv, [Next]_vars PROVE Inv'
    OBVIOUS
  <2>1. CASE Listen \/ Connect \/ ConnectFails \/ AcceptFails
    BY <2>1, ListenKeeps, ConnectPhonesKeeps, ConnectFailsKeeps, AcceptFailsKeeps
  <2>2. ASSUME NEW p \in Peers,
               \/ StartCall(p) \/ HangUp(p) \/ LocalDescription(p)
               \/ \E m \in Ice : IceChange(p, m)
               \/ RunOnUiThread(p) \/ RunTask(p) \/ ThreadStep(p) \/ ReadFails(p)
        PROVE  Inv'
    BY <2>2, StartCallKeeps, HangUpKeeps, LocalDescriptionKeeps, IceChangeKeeps, RunOnUiThreadKeeps,
       RunTaskKeeps, ThreadStepKeeps, ReadFailsKeeps
  <2>3. CASE UNCHANGED vars
    BY <2>3, StutterKeeps
  <2> QED BY <2>1, <2>2, <2>3 DEF Next
<1> QED BY <1>1, <1>2, PTL DEF Spec

\* Every variable keeps its type: what the queues, the line and the listening
\* thread hold is what the code puts there, and a socket that is referred to
\* is open at this end.
THEOREM TypeCorrect == Spec => []TypeOK
<1>1. Inv => TypeOK
  BY DEF Inv, Types
<1> QED BY <1>1, Invariance, PTL

\* The messages a phone's peer connection is given are the first ones the
\* other asked to send, in that order, over the two executors, the tasks that
\* write, the socket and the reading thread; and none comes before the
\* activity has made its peer connection.
THEOREM HeardInOrder == Spec => []InOrder
<1>1. Inv => InOrder
  BY GotSaid DEF Inv, Made, InOrder
<1> QED BY <1>1, Invariance, PTL

\* While the network holds no error dialog comes up during a call, although
\* sends race with the peer's hanging up, and no exception escapes on a phone
\* that is still in its call.
THEOREM OnlyRealAlarms == Spec => []NoFalseAlarm
<1>1. Inv => NoFalseAlarm
  <2>1. Inv => alert \subseteq Peers /\ faults \subseteq Peers
    BY DEF Inv, Types, TypeOK
  <2> QED BY <2>1 DEF Inv, Lived, Excused, NoFalseAlarm
<1> QED BY <1>1, Invariance, PTL

=============================================================================
