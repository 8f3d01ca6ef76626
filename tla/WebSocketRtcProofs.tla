------------------------- MODULE WebSocketRtcProofs -------------------------
(***************************************************************************)
(* A phone in a call through a room server, for any number of ICE messages *)
(* and of messages from the server: what is sent arrives in order, no      *)
(* error is reported that does not come from outside, and little is left   *)
(* behind when the looper has quit.                                        *)
(***************************************************************************)
EXTENDS WebSocketRtc, SequenceTheorems, TLAPS

-----------------------------------------------------------------------------
(* What is said of the tasks of the looper.                                 *)

Sayings == {"offer", "answer", "ice"}

Has(q, do) == \E k \in DOMAIN q : q[k].do = do
One(q, do) == \A j, k \in DOMAIN q : q[j].do = do /\ q[k].do = do => j = k
OpenFirst(q) == \A j, k \in DOMAIN q : q[j].do = "open" /\ q[k].do = "closed" => j < k

WrongTo(r, m) == \/ m = "other" \/ (m = "answer" /\ r # "initiator")
                 \/ (m = "offer" /\ r = "initiator")
NoneWrong(q, r) == \A k \in DOMAIN q : q[k].do = "text" => ~WrongTo(r, q[k].msg)

\* The messages to be sent that wait in q are those of p, in this order.
Chosen(q, p) ==
  /\ p \in Seq(Sayings)
  /\ \E pos \in [1..Len(p) -> DOMAIN q] :
       /\ \A i, j \in 1..Len(p) : i < j => pos[i] < pos[j]
       /\ \A i \in 1..Len(p) : q[pos[i]].do = p[i]
       /\ \A k \in DOMAIN q : q[k].do \in Sayings => \E i \in 1..Len(p) : pos[i] = k

LEMMA AppendParts ==
  ASSUME NEW S, NEW q \in Seq(S), NEW e \in S
  PROVE  /\ Append(q, e) \in Seq(S) /\ Append(q, e) # <<>>
         /\ Len(q) \in Nat /\ Len(Append(q, e)) = Len(q) + 1
         /\ DOMAIN q = 1..Len(q) /\ DOMAIN Append(q, e) = 1..(Len(q) + 1)
         /\ Append(q, e)[Len(q) + 1] = e
         /\ \A i \in DOMAIN q : Append(q, e)[i] = q[i] /\ i \in DOMAIN Append(q, e) /\ i < Len(q) + 1
         /\ \A i \in DOMAIN Append(q, e) : i \in DOMAIN q \/ i = Len(q) + 1
OBVIOUS

LEMMA TailParts ==
  ASSUME NEW S, NEW q \in Seq(S), q # <<>>
  PROVE  /\ Tail(q) \in Seq(S) /\ Head(q) \in S /\ Head(q) = q[1] /\ 1 \in DOMAIN q
         /\ Len(q) \in Nat /\ Len(q) > 0 /\ Len(Tail(q)) = Len(q) - 1
         /\ DOMAIN q = 1..Len(q) /\ DOMAIN Tail(q) = 1..(Len(q) - 1)
         /\ \A i \in DOMAIN Tail(q) : Tail(q)[i] = q[i + 1] /\ i + 1 \in DOMAIN q
         /\ \A i \in DOMAIN q : i = 1 \/ (i - 1 \in DOMAIN Tail(q) /\ Tail(q)[i - 1] = q[i])
OBVIOUS

LEMMA TasksAppend ==
  ASSUME NEW q \in Seq(Task), NEW t \in Task
  PROVE  /\ Append(q, t) \in Seq(Task)
         /\ \A do : Has(Append(q, t), do) <=> (Has(q, do) \/ do = t.do)
         /\ \A do : One(q, do) /\ (do = t.do => ~Has(q, do)) => One(Append(q, t), do)
         /\ OpenFirst(q) /\ (t.do = "open" => ~Has(q, "closed")) => OpenFirst(Append(q, t))
         /\ \A r : NoneWrong(q, r) /\ (t.do = "text" => ~WrongTo(r, t.msg)) =>
                     NoneWrong(Append(q, t), r)
<1>1. /\ Append(q, t) \in Seq(Task)
      /\ Len(q) \in Nat /\ DOMAIN q = 1..Len(q) /\ DOMAIN Append(q, t) = 1..(Len(q) + 1)
      /\ Append(q, t)[Len(q) + 1] = t
      /\ \A i \in DOMAIN q : Append(q, t)[i] = q[i] /\ i \in DOMAIN Append(q, t) /\ i < Len(q) + 1
      /\ \A i \in DOMAIN Append(q, t) : i \in DOMAIN q \/ i = Len(q) + 1
      /\ Len(q) + 1 \in DOMAIN Append(q, t)
  BY AppendParts
<1>2. \A do : Has(Append(q, t), do) <=> (Has(q, do) \/ do = t.do)
  BY <1>1 DEF Has
<1>3. \A do : One(q, do) /\ (do = t.do => ~Has(q, do)) => One(Append(q, t), do)
  BY <1>1 DEF Has, One
<1>4. OpenFirst(q) /\ (t.do = "open" => ~Has(q, "closed")) => OpenFirst(Append(q, t))
  BY <1>1 DEF Has, OpenFirst
<1>5. \A r : NoneWrong(q, r) /\ (t.do = "text" => ~WrongTo(r, t.msg)) => NoneWrong(Append(q, t), r)
  BY <1>1 DEF NoneWrong
<1> QED BY <1>1, <1>2, <1>3, <1>4, <1>5

LEMMA TasksTail ==
  ASSUME NEW q \in Seq(Task), q # <<>>
  PROVE  /\ Tail(q) \in Seq(Task) /\ Head(q) \in Task
         /\ \A do : Has(q, do) <=> (Has(Tail(q), do) \/ Head(q).do = do)
         /\ \A do : One(q, do) => One(Tail(q), do) /\ (Head(q).do = do => ~Has(Tail(q), do))
         /\ OpenFirst(q) => OpenFirst(Tail(q)) /\ (Head(q).do = "closed" => ~Has(Tail(q), "open"))
         /\ \A r : NoneWrong(q, r) => /\ NoneWrong(Tail(q), r)
                                      /\ Head(q).do = "text" => ~WrongTo(r, Head(q).msg)
<1>1. /\ Tail(q) \in Seq(Task) /\ Head(q) \in Task /\ Head(q) = q[1] /\ 1 \in DOMAIN q
      /\ DOMAIN q = 1..Len(q) /\ DOMAIN Tail(q) = 1..(Len(q) - 1) /\ Len(q) \in Nat
      /\ \A i \in DOMAIN Tail(q) : Tail(q)[i] = q[i + 1] /\ i + 1 \in DOMAIN q
      /\ \A i \in DOMAIN q : i = 1 \/ (i - 1 \in DOMAIN Tail(q) /\ Tail(q)[i - 1] = q[i])
  BY TailParts
<1>2. \A do : Has(q, do) <=> (Has(Tail(q), do) \/ Head(q).do = do)
  BY ZenonT(60), <1>1 DEF Has
<1>3. \A do : One(q, do) => One(Tail(q), do) /\ (Head(q).do = do => ~Has(Tail(q), do))
  BY <1>1 DEF Has, One
<1>4. OpenFirst(q) => OpenFirst(Tail(q)) /\ (Head(q).do = "closed" => ~Has(Tail(q), "open"))
  BY <1>1 DEF Has, OpenFirst
<1>5. \A r : NoneWrong(q, r) => NoneWrong(Tail(q), r) /\ (Head(q).do = "text" => ~WrongTo(r, Head(q).msg))
  BY <1>1 DEF NoneWrong
<1> QED BY <1>1, <1>2, <1>3, <1>4, <1>5

LEMMA ChosenNone ==
  ASSUME NEW q, NEW p, Chosen(q, p), \A do \in Sayings : ~Has(q, do)
  PROVE  p = <<>>
<1>1. PICK pos \in [1..Len(p) -> DOMAIN q] : \A i \in 1..Len(p) : q[pos[i]].do = p[i]
  BY DEF Chosen
<1>2. p \in Seq(Sayings)
  BY DEF Chosen
<1>3. ASSUME NEW i \in 1..Len(p) PROVE FALSE
  <2>1. p[i] \in Sayings /\ pos[i] \in DOMAIN q
    BY <1>2
  <2> QED BY <1>1, <2>1 DEF Has
<1>4. Len(p) = 0
  BY <1>2, <1>3
<1> QED BY <1>2, <1>4, EmptySeq

LEMMA ChosenEmpty == Chosen(<<>>, <<>>)
<1> DEFINE e == <<>>
           pos == [i \in 1..Len(e) |-> 1]
<1>1. e \in Seq(Sayings) /\ 1..Len(e) = {} /\ DOMAIN e = {}
  OBVIOUS
<1>2. pos \in [1..Len(e) -> DOMAIN e]
  BY <1>1
<1> HIDE DEF e, pos
<1>3. Chosen(e, e)
  BY <1>1, <1>2 DEF Chosen
<1> QED BY <1>3 DEF e

LEMMA ChosenAppend ==
  ASSUME NEW q \in Seq(Task), NEW p, Chosen(q, p), NEW t \in Task
  PROVE  Chosen(Append(q, t), IF t.do \in Sayings THEN Append(p, t.do) ELSE p)
<1>1. /\ Len(q) \in Nat /\ DOMAIN q = 1..Len(q) /\ DOMAIN Append(q, t) = 1..(Len(q) + 1)
      /\ Append(q, t)[Len(q) + 1] = t
      /\ \A i \in DOMAIN q : Append(q, t)[i] = q[i] /\ i \in DOMAIN Append(q, t) /\ i < Len(q) + 1
      /\ \A i \in DOMAIN Append(q, t) : i \in DOMAIN q \/ i = Len(q) + 1
      /\ Len(q) + 1 \in DOMAIN Append(q, t)
  BY AppendParts
<1>2. PICK pos \in [1..Len(p) -> DOMAIN q] :
        /\ \A i, j \in 1..Len(p) : i < j => pos[i] < pos[j]
        /\ \A i \in 1..Len(p) : q[pos[i]].do = p[i]
        /\ \A k \in DOMAIN q : q[k].do \in Sayings => \E i \in 1..Len(p) : pos[i] = k
  BY DEF Chosen
<1>3. p \in Seq(Sayings) /\ Len(p) \in Nat
  BY DEF Chosen
<1>4. CASE t.do \notin Sayings
  <2>1. pos \in [1..Len(p) -> DOMAIN Append(q, t)]
    BY <1>1
  <2>2. \A i \in 1..Len(p) : Append(q, t)[pos[i]].do = p[i]
    <3>1. \A i \in 1..Len(p) : pos[i] \in DOMAIN q
      OBVIOUS
    <3> QED BY <1>1, <1>2, <3>1
  <2>3. \A k \in DOMAIN Append(q, t) : Append(q, t)[k].do \in Sayings => \E i \in 1..Len(p) : pos[i] = k
    BY <1>1, <1>2, <1>4
  <2>4. Chosen(Append(q, t), p)
    BY <1>2, <1>3, <2>1, <2>2, <2>3 DEF Chosen
  <2> QED BY <1>4, <2>4
<1>5. CASE t.do \in Sayings
  <2> DEFINE r == Append(p, t.do)
             new == [i \in 1..Len(r) |-> IF i = Len(r) THEN Len(q) + 1 ELSE pos[i]]
  <2>1. /\ r \in Seq(Sayings) /\ Len(r) = Len(p) + 1 /\ r[Len(p) + 1] = t.do
        /\ \A i \in 1..Len(p) : r[i] = p[i]
    BY <1>3, <1>5
  <2> HIDE DEF r
  <2>2. \A i \in 1..Len(r) : (i = Len(p) + 1 /\ new[i] = Len(q) + 1)
                             \/ (i \in 1..Len(p) /\ new[i] = pos[i] /\ i # Len(p) + 1)
    BY <1>3, <2>1
  <2>3. \A i \in 1..Len(p) : i \in 1..Len(r) /\ new[i] = pos[i]
    BY <1>3, <2>1
  <2>4. Len(p) + 1 \in 1..Len(r) /\ new[Len(p) + 1] = Len(q) + 1
    BY <1>3, <2>1
  <2>5. new \in [1..Len(r) -> DOMAIN Append(q, t)]
    BY <1>1, <2>2
  <2> HIDE DEF new
  <2>6. \A i, j \in 1..Len(r) : i < j => new[i] < new[j]
    <3> SUFFICES ASSUME NEW i \in 1..Len(r), NEW j \in 1..Len(r), i < j PROVE new[i] < new[j]
      OBVIOUS
    <3>1. i \in 1..Len(p) /\ new[i] = pos[i]
      BY <1>3, <2>1, <2>2
    <3>2. CASE j = Len(p) + 1
      BY <1>1, <2>4, <3>1, <3>2
    <3>3. CASE j # Len(p) + 1
      BY <1>2, <2>2, <3>1, <3>3
    <3> QED BY <3>2, <3>3
  <2>7. \A i \in 1..Len(r) : Append(q, t)[new[i]].do = r[i]
    <3> SUFFICES ASSUME NEW i \in 1..Len(r) PROVE Append(q, t)[new[i]].do = r[i]
      OBVIOUS
    <3>1. CASE i = Len(p) + 1
      BY <1>1, <2>1, <2>4, <3>1
    <3>2. CASE i # Len(p) + 1
      <4>1. i \in 1..Len(p) /\ new[i] = pos[i] /\ pos[i] \in DOMAIN q
        BY <2>2, <3>2
      <4>2. Append(q, t)[pos[i]] = q[pos[i]] /\ q[pos[i]].do = p[i]
        BY <1>1, <1>2, <4>1
      <4> QED BY <2>1, <4>1, <4>2
    <3> QED BY <3>1, <3>2
  <2>8. \A k \in DOMAIN Append(q, t) : Append(q, t)[k].do \in Sayings => \E i \in 1..Len(r) : new[i] = k
    BY <1>1, <1>2, <2>3, <2>4
  <2>9. Chosen(Append(q, t), r)
    BY <2>1, <2>5, <2>6, <2>7, <2>8 DEF Chosen
  <2> QED BY <1>5, <2>9 DEF r
<1> QED BY <1>4, <1>5

LEMMA ChosenTail ==
  ASSUME NEW q \in Seq(Task), q # <<>>, NEW p, Chosen(q, p)
  PROVE  /\ Head(q).do \notin Sayings => Chosen(Tail(q), p)
         /\ Head(q).do \in Sayings => p # <<>> /\ Head(p) = Head(q).do /\ Chosen(Tail(q), Tail(p))
<1>1. /\ Head(q) = q[1] /\ 1 \in DOMAIN q
      /\ DOMAIN q = 1..Len(q) /\ DOMAIN Tail(q) = 1..(Len(q) - 1) /\ Len(q) \in Nat
      /\ \A i \in DOMAIN Tail(q) : Tail(q)[i] = q[i + 1] /\ i + 1 \in DOMAIN q
      /\ \A i \in DOMAIN q : i = 1 \/ (i - 1 \in DOMAIN Tail(q) /\ Tail(q)[i - 1] = q[i])
  BY TailParts
<1>2. PICK pos \in [1..Len(p) -> DOMAIN q] :
        /\ \A i, j \in 1..Len(p) : i < j => pos[i] < pos[j]
        /\ \A i \in 1..Len(p) : q[pos[i]].do = p[i]
        /\ \A k \in DOMAIN q : q[k].do \in Sayings => \E i \in 1..Len(p) : pos[i] = k
  BY DEF Chosen
<1>3. p \in Seq(Sayings) /\ Len(p) \in Nat /\ \A i \in 1..Len(p) : p[i] \in Sayings /\ pos[i] \in DOMAIN q
  BY DEF Chosen
<1>4. CASE Head(q).do \notin Sayings
  <2> DEFINE new == [i \in 1..Len(p) |-> pos[i] - 1]
  <2>1. \A i \in 1..Len(p) : pos[i] # 1
    BY <1>1, <1>2, <1>3, <1>4
  <2>2. \A i \in 1..Len(p) : pos[i] - 1 \in DOMAIN Tail(q) /\ Tail(q)[pos[i] - 1] = q[pos[i]]
    BY <1>1, <1>3, <2>1
  <2>3. new \in [1..Len(p) -> DOMAIN Tail(q)]
    BY <2>2
  <2>4. \A i \in 1..Len(p) : new[i] = pos[i] - 1
    OBVIOUS
  <2> HIDE DEF new
  <2>5. \A i, j \in 1..Len(p) : i < j => new[i] < new[j]
    BY <1>1, <1>2, <1>3, <2>4
  <2>6. \A i \in 1..Len(p) : Tail(q)[new[i]].do = p[i]
    BY <1>2, <2>2, <2>4
  <2>7. ASSUME NEW k \in DOMAIN Tail(q), Tail(q)[k].do \in Sayings
        PROVE  \E i \in 1..Len(p) : new[i] = k
    <3>1. PICK i \in 1..Len(p) : pos[i] = k + 1
      BY <1>1, <1>2, <2>7
    <3>2. new[i] = k
      BY <1>1, <2>4, <3>1
    <3> QED BY <3>2
  <2>8. Chosen(Tail(q), p)
    BY <1>3, <2>3, <2>5, <2>6, <2>7 DEF Chosen
  <2> QED BY <1>4, <2>8
<1>5. CASE Head(q).do \in Sayings
  <2>1. PICK a \in 1..Len(p) : pos[a] = 1
    BY <1>1, <1>2, <1>5
  <2>2. a = 1
    <3>1. CASE a # 1
      <4>1. 1 \in 1..Len(p) /\ 1 < a
        BY <1>3, <3>1
      <4>2. pos[1] < 1 /\ pos[1] \in DOMAIN q
        BY <1>2, <1>3, <2>1, <4>1
      <4> QED BY <1>1, <4>2
    <3> QED BY <3>1
  <2>3. p # <<>> /\ Head(p) = Head(q).do
    BY <1>1, <1>2, <1>3, <2>1, <2>2
  <2> DEFINE r == Tail(p)
             new == [i \in 1..Len(r) |-> pos[i + 1] - 1]
  <2>4. /\ r \in Seq(Sayings) /\ Len(r) = Len(p) - 1 /\ Len(p) > 0
        /\ \A i \in 1..(Len(p) - 1) : r[i] = p[i + 1]
    BY <1>3, <2>3
  <2> HIDE DEF r
  <2>5. \A i \in 1..Len(r) : i + 1 \in 1..Len(p) /\ i + 1 # 1 /\ new[i] = pos[i + 1] - 1
    BY <1>3, <2>4
  <2>6. \A i \in 2..Len(p) : pos[i] \in DOMAIN q /\ pos[i] # 1
    <3> SUFFICES ASSUME NEW i \in 2..Len(p) PROVE pos[i] \in DOMAIN q /\ pos[i] # 1
      OBVIOUS
    <3>1. i \in 1..Len(p) /\ 1 \in 1..Len(p) /\ 1 < i
      BY <1>3
    <3>2. pos[1] < pos[i] /\ pos[1] = 1 /\ pos[i] \in DOMAIN q
      BY <1>2, <1>3, <2>1, <2>2, <3>1
    <3> QED BY <1>1, <3>2
  <2>7. \A i \in 1..Len(r) : /\ pos[i + 1] \in DOMAIN q /\ pos[i + 1] - 1 \in DOMAIN Tail(q)
                             /\ Tail(q)[pos[i + 1] - 1] = q[pos[i + 1]]
    BY <1>1, <1>3, <2>4, <2>6
  <2>8. new \in [1..Len(r) -> DOMAIN Tail(q)]
    BY <2>7
  <2> HIDE DEF new
  <2>9. \A i, j \in 1..Len(r) : i < j => new[i] < new[j]
    <3> SUFFICES ASSUME NEW i \in 1..Len(r), NEW j \in 1..Len(r), i < j PROVE new[i] < new[j]
      OBVIOUS
    <3>1. i + 1 < j + 1 /\ i + 1 \in 1..Len(p) /\ j + 1 \in 1..Len(p)
      BY <2>5
    <3>2. pos[i + 1] < pos[j + 1] /\ pos[i + 1] \in Int /\ pos[j + 1] \in Int
      BY <1>1, <1>2, <1>3, <3>1
    <3> QED BY <2>5, <3>2
  <2>10. \A i \in 1..Len(r) : Tail(q)[new[i]].do = r[i]
    BY <1>2, <1>3, <2>4, <2>5, <2>7
  <2>11. ASSUME NEW k \in DOMAIN Tail(q), Tail(q)[k].do \in Sayings
         PROVE  \E i \in 1..Len(r) : new[i] = k
    <3>1. PICK i \in 1..Len(p) : pos[i] = k + 1
      BY <1>1, <1>2, <2>11
    <3>2. i # 1
      BY <1>1, <2>1, <2>2, <3>1
    <3>3. i - 1 \in 1..Len(r) /\ (i - 1) + 1 = i
      BY <1>3, <2>4, <3>2
    <3>4. new[i - 1] = pos[(i - 1) + 1] - 1
      BY <2>5, <3>3
    <3>5. new[i - 1] = (k + 1) - 1
      BY <3>1, <3>3, <3>4
    <3>6. (k + 1) - 1 = k
      BY <1>1
    <3> QED BY <3>3, <3>5, <3>6
  <2>12. Chosen(Tail(q), r)
    BY <2>4, <2>8, <2>9, <2>10, <2>11 DEF Chosen
  <2> QED BY <1>5, <2>3, <2>12 DEF r
<1> QED BY <1>4, <1>5

\* What a task does to the queue: it leaves it, and adds an error or nothing.
Errors == {"roomError", "wsError"}
Mores == {<<>>, <<Do("roomError")>>, <<Do("wsError")>>}

LEMMA ErrorTasks == ASSUME NEW do \in Tasks PROVE Do(do) \in Task /\ Do(do).do = do
BY DEF Do, Task

LEMMA TasksRun ==
  ASSUME NEW q \in Seq(Task), q # <<>>, NEW more \in Mores, NEW q2, q2 = Tail(q) \o more
  PROVE  /\ q2 \in Seq(Task)
         /\ \A do : Has(q2, do) => Has(q, do) \/ more = <<Do(do)>>
         /\ \A do : do \notin Errors /\ One(q, do) => One(q2, do) /\ (Head(q).do = do => ~Has(q2, do))
         /\ OpenFirst(q) => OpenFirst(q2) /\ (Head(q).do = "closed" => ~Has(q2, "open"))
         /\ \A r : NoneWrong(q, r) => NoneWrong(q2, r)
         /\ \A p : Chosen(q, p) => IF Head(q).do \in Sayings THEN Chosen(q2, Tail(p)) ELSE Chosen(q2, p)
<1>1. Tail(q) \in Seq(Task) /\ Tail(q) \o <<>> = Tail(q)
  OBVIOUS
<1>2. CASE more = <<>>
  <2>1. q2 = Tail(q)
    BY <1>1, <1>2
  <2>2. /\ \A do : Has(q, do) <=> (Has(Tail(q), do) \/ Head(q).do = do)
        /\ \A do : One(q, do) => One(Tail(q), do) /\ (Head(q).do = do => ~Has(Tail(q), do))
        /\ OpenFirst(q) => OpenFirst(Tail(q)) /\ (Head(q).do = "closed" => ~Has(Tail(q), "open"))
        /\ \A r : NoneWrong(q, r) => NoneWrong(Tail(q), r)
    BY TasksTail
  <2>3. \A p : Chosen(q, p) => IF Head(q).do \in Sayings THEN Chosen(Tail(q), Tail(p))
                                                         ELSE Chosen(Tail(q), p)
    BY ChosenTail
  <2> DEFINE u == Tail(q)
  <2> HIDE DEF u
  <2>4. q2 = u /\ u \in Seq(Task)
    BY <1>1, <2>1 DEF u
  <2>5. /\ \A do : Has(q, do) <=> (Has(u, do) \/ Head(q).do = do)
        /\ \A do : One(q, do) => One(u, do) /\ (Head(q).do = do => ~Has(u, do))
        /\ OpenFirst(q) => OpenFirst(u) /\ (Head(q).do = "closed" => ~Has(u, "open"))
        /\ \A r : NoneWrong(q, r) => NoneWrong(u, r)
    BY <2>2 DEF u
  <2>6. \A p : Chosen(q, p) => IF Head(q).do \in Sayings THEN Chosen(u, Tail(p)) ELSE Chosen(u, p)
    BY <2>3 DEF u
  <2> QED BY <2>4, <2>5, <2>6
<1>3. ASSUME NEW do \in Errors, more = <<Do(do)>>
      PROVE  /\ q2 \in Seq(Task)
             /\ \A d : Has(q2, d) => Has(q, d) \/ d = do
             /\ \A d : d \notin Errors /\ One(q, d) => One(q2, d) /\ (Head(q).do = d => ~Has(q2, d))
             /\ OpenFirst(q) => OpenFirst(q2) /\ (Head(q).do = "closed" => ~Has(q2, "open"))
             /\ \A r : NoneWrong(q, r) => NoneWrong(q2, r)
             /\ \A p : Chosen(q, p) => IF Head(q).do \in Sayings THEN Chosen(q2, Tail(p)) ELSE Chosen(q2, p)
  <2>1. Do(do) \in Task /\ Do(do).do = do /\ do \notin Sayings /\ do \notin {"open", "closed", "text"}
    BY ErrorTasks, <1>3 DEF Errors, Tasks, Sayings
  <2>2. q2 = Append(Tail(q), Do(do))
    BY <1>1, <1>3, <2>1
  <2>3. /\ q2 \in Seq(Task)
        /\ \A d : Has(q2, d) <=> (Has(Tail(q), d) \/ d = do)
        /\ \A d : One(Tail(q), d) /\ (d = do => ~Has(Tail(q), d)) => One(q2, d)
        /\ OpenFirst(Tail(q)) => OpenFirst(q2)
        /\ \A r : NoneWrong(Tail(q), r) => NoneWrong(q2, r)
    <3> DEFINE u == Tail(q)
               t == Do(do)
    <3>1. u \in Seq(Task) /\ t \in Task /\ q2 = Append(u, t) /\ t.do = do /\ do \notin {"open", "text"}
      BY <1>1, <2>1, <2>2
    <3> HIDE DEF u, t
    <3>2. /\ Append(u, t) \in Seq(Task)
          /\ \A d : Has(Append(u, t), d) <=> (Has(u, d) \/ d = t.do)
          /\ \A d : One(u, d) /\ (d = t.do => ~Has(u, d)) => One(Append(u, t), d)
          /\ OpenFirst(u) /\ (t.do = "open" => ~Has(u, "closed")) => OpenFirst(Append(u, t))
          /\ \A r : NoneWrong(u, r) /\ (t.do = "text" => ~WrongTo(r, t.msg)) => NoneWrong(Append(u, t), r)
      <4>1. u \in Seq(Task) /\ t \in Task
        BY <3>1
      <4> QED BY <4>1, TasksAppend
    <3> QED BY <3>1, <3>2 DEF u
  <2>4. \A p : Chosen(Tail(q), p) => Chosen(q2, p)
    BY <1>1, <2>1, <2>2, ChosenAppend
  <2>5. \A p : Chosen(q, p) => IF Head(q).do \in Sayings THEN Chosen(q2, Tail(p)) ELSE Chosen(q2, p)
    BY <2>4, ChosenTail
  <2>6. /\ \A d : Has(q, d) <=> (Has(Tail(q), d) \/ Head(q).do = d)
        /\ \A d : One(q, d) => One(Tail(q), d) /\ (Head(q).do = d => ~Has(Tail(q), d))
        /\ OpenFirst(q) => OpenFirst(Tail(q)) /\ (Head(q).do = "closed" => ~Has(Tail(q), "open"))
        /\ \A r : NoneWrong(q, r) => NoneWrong(Tail(q), r)
    BY TasksTail
  <2> QED BY <1>3, <2>1, <2>3, <2>5, <2>6
<1>4. CASE more = <<Do("roomError")>>
  <2>1. "roomError" \in Errors
    BY DEF Errors
  <2> QED BY <1>3, <1>4, <2>1
<1>5. CASE more = <<Do("wsError")>>
  <2>1. "wsError" \in Errors
    BY DEF Errors
  <2> QED BY <1>3, <1>5, <2>1
<1> QED BY <1>2, <1>4, <1>5 DEF Mores

\* What a post does to the queue, once the looper has quit or before.
LEMMA TasksPosted ==
  ASSUME tasks \in Seq(Task), NEW t \in Task, PostTask(t)
  PROVE  /\ tasks' \in Seq(Task)
         /\ \A do : Has(tasks, do) => Has(tasks', do)
         /\ \A do : Has(tasks', do) => Has(tasks, do) \/ do = t.do
         /\ \A do : One(tasks, do) /\ (do = t.do => ~Has(tasks, do)) => One(tasks', do)
         /\ OpenFirst(tasks) /\ (t.do = "open" => ~Has(tasks, "closed")) => OpenFirst(tasks')
         /\ \A r : NoneWrong(tasks, r) /\ (t.do = "text" => ~WrongTo(r, t.msg)) => NoneWrong(tasks', r)
         /\ \A p : Chosen(tasks, p) => Chosen(tasks', IF looper # "quit" /\ t.do \in Sayings
                                                     THEN Append(p, t.do) ELSE p)
<1>1. CASE looper = "quit"
  BY <1>1 DEF PostTask
<1>2. CASE looper # "quit"
  <2>1. tasks' = Append(tasks, t)
    BY <1>2 DEF PostTask
  <2>2. \A p : Chosen(tasks, p) => Chosen(tasks', IF t.do \in Sayings THEN Append(p, t.do) ELSE p)
    BY <2>1, ChosenAppend
  <2>3. /\ tasks' \in Seq(Task)
        /\ \A do : Has(tasks', do) <=> (Has(tasks, do) \/ do = t.do)
        /\ \A do : One(tasks, do) /\ (do = t.do => ~Has(tasks, do)) => One(tasks', do)
        /\ OpenFirst(tasks) /\ (t.do = "open" => ~Has(tasks, "closed")) => OpenFirst(tasks')
        /\ \A r : NoneWrong(tasks, r) /\ (t.do = "text" => ~WrongTo(r, t.msg)) => NoneWrong(tasks', r)
    BY <2>1, TasksAppend
  <2> QED BY <1>2, <2>2, <2>3
<1> QED BY <1>1, <1>2

LEMMA NoTasks ==
  /\ <<>> \in Seq(Task)
  /\ \A do : ~Has(<<>>, do) /\ One(<<>>, do)
  /\ OpenFirst(<<>>) /\ \A r : NoneWrong(<<>>, r)
  /\ Chosen(<<>>, <<>>)
<1>1. <<>> \in Seq(Task)
  OBVIOUS
<1>2. /\ \A do : ~Has(<<>>, do) /\ One(<<>>, do)
      /\ OpenFirst(<<>>) /\ \A r : NoneWrong(<<>>, r)
  BY DEF Has, One, OpenFirst, NoneWrong
<1> QED BY <1>1, <1>2, ChosenEmpty

-----------------------------------------------------------------------------
(* What is said of the runnables of the UI thread.                          *)

Hears(q, e) == \E k \in DOMAIN q : q[k] = e
InRoom(q) == Hears(q, "room") \/ Hears(q, "roomOffer")
OneRoom(q) == \A j, k \in DOMAIN q :
                q[j] \in {"room", "roomOffer"} /\ q[k] \in {"room", "roomOffer"} => j = k
RoomFirst(q) == \A k \in DOMAIN q : q[k] \in {"description", "ice"} =>
                  \E j \in 1..(k - 1) : q[j] \in {"room", "roomOffer"}

LEMMA UiAppend ==
  ASSUME NEW q \in Seq(Events), NEW e \in Events
  PROVE  /\ Append(q, e) \in Seq(Events)
         /\ \A x : Hears(Append(q, e), x) <=> (Hears(q, x) \/ x = e)
         /\ OneRoom(q) /\ (e \in {"room", "roomOffer"} => ~InRoom(q)) => OneRoom(Append(q, e))
         /\ RoomFirst(q) /\ (e \in {"description", "ice"} => InRoom(q)) => RoomFirst(Append(q, e))
<1>1. /\ Append(q, e) \in Seq(Events)
      /\ Len(q) \in Nat /\ DOMAIN q = 1..Len(q) /\ DOMAIN Append(q, e) = 1..(Len(q) + 1)
      /\ Append(q, e)[Len(q) + 1] = e
      /\ \A i \in DOMAIN q : Append(q, e)[i] = q[i] /\ i \in DOMAIN Append(q, e) /\ i < Len(q) + 1
      /\ \A i \in DOMAIN Append(q, e) : i \in DOMAIN q \/ i = Len(q) + 1
      /\ Len(q) + 1 \in DOMAIN Append(q, e)
  BY AppendParts
<1>2. \A x : Hears(Append(q, e), x) <=> (Hears(q, x) \/ x = e)
  BY <1>1 DEF Hears
<1>3. OneRoom(q) /\ (e \in {"room", "roomOffer"} => ~InRoom(q)) => OneRoom(Append(q, e))
  BY <1>1 DEF Hears, InRoom, OneRoom
<1>4. ASSUME RoomFirst(q), e \in {"description", "ice"} => InRoom(q),
             NEW k \in DOMAIN Append(q, e), Append(q, e)[k] \in {"description", "ice"}
      PROVE  \E j \in 1..(k - 1) : Append(q, e)[j] \in {"room", "roomOffer"}
  <2>1. CASE k \in DOMAIN q
    <3>1. PICK j \in 1..(k - 1) : q[j] \in {"room", "roomOffer"}
      BY <1>1, <1>4, <2>1 DEF RoomFirst
    <3>2. j \in DOMAIN q
      BY <1>1, <2>1
    <3> QED BY <1>1, <3>1, <3>2
  <2>2. CASE k = Len(q) + 1
    <3>1. PICK j \in DOMAIN q : q[j] \in {"room", "roomOffer"}
      BY <1>1, <1>4, <2>2 DEF InRoom, Hears
    <3>2. j \in 1..(k - 1)
      BY <1>1, <2>2
    <3> QED BY <1>1, <3>1, <3>2
  <2> QED BY <1>1, <2>1, <2>2
<1>5. RoomFirst(q) /\ (e \in {"description", "ice"} => InRoom(q)) => RoomFirst(Append(q, e))
  BY <1>4 DEF RoomFirst
<1> QED BY <1>1, <1>2, <1>3, <1>5

LEMMA UiTail ==
  ASSUME NEW q \in Seq(Events), q # <<>>
  PROVE  /\ Tail(q) \in Seq(Events) /\ Head(q) \in Events
         /\ \A x : Hears(q, x) <=> (Hears(Tail(q), x) \/ Head(q) = x)
         /\ OneRoom(q) => /\ OneRoom(Tail(q))
                          /\ Head(q) \in {"room", "roomOffer"} => ~InRoom(Tail(q))
         /\ RoomFirst(q) => /\ Head(q) \notin {"description", "ice"}
                            /\ Head(q) \notin {"room", "roomOffer"} => RoomFirst(Tail(q))
<1>1. /\ Tail(q) \in Seq(Events) /\ Head(q) \in Events /\ Head(q) = q[1] /\ 1 \in DOMAIN q
      /\ DOMAIN q = 1..Len(q) /\ DOMAIN Tail(q) = 1..(Len(q) - 1) /\ Len(q) \in Nat
      /\ \A i \in DOMAIN Tail(q) : Tail(q)[i] = q[i + 1] /\ i + 1 \in DOMAIN q
      /\ \A i \in DOMAIN q : i = 1 \/ (i - 1 \in DOMAIN Tail(q) /\ Tail(q)[i - 1] = q[i])
  BY TailParts
<1>2. \A x : Hears(q, x) <=> (Hears(Tail(q), x) \/ Head(q) = x)
  BY ZenonT(60), <1>1 DEF Hears
<1>3. OneRoom(q) => OneRoom(Tail(q)) /\ (Head(q) \in {"room", "roomOffer"} => ~InRoom(Tail(q)))
  BY <1>1 DEF Hears, InRoom, OneRoom
<1>4. RoomFirst(q) => Head(q) \notin {"description", "ice"}
  BY <1>1 DEF RoomFirst
<1>5. ASSUME RoomFirst(q), Head(q) \notin {"room", "roomOffer"},
             NEW k \in DOMAIN Tail(q), Tail(q)[k] \in {"description", "ice"}
      PROVE  \E j \in 1..(k - 1) : Tail(q)[j] \in {"room", "roomOffer"}
  <2>1. PICK j \in 1..((k + 1) - 1) : q[j] \in {"room", "roomOffer"}
    BY <1>1, <1>5 DEF RoomFirst
  <2>2. j # 1 /\ j - 1 \in 1..(k - 1) /\ j \in DOMAIN q
    BY <1>1, <1>5, <2>1
  <2>3. Tail(q)[j - 1] = q[j]
    BY <1>1, <2>2
  <2> QED BY <2>1, <2>2, <2>3
<1>6. RoomFirst(q) /\ Head(q) \notin {"room", "roomOffer"} => RoomFirst(Tail(q))
  BY <1>5 DEF RoomFirst
<1> QED BY <1>1, <1>2, <1>3, <1>4, <1>6

-----------------------------------------------------------------------------
(* What the WebSocket server is sent: the registration, messages, bye.      *)

Heard == {"register", "answer", "ice", "bye"}
SentOn(w) == SubSeq(w, 2, IF w # <<>> /\ Last(w) = "bye" THEN Len(w) - 1 ELSE Len(w))
Framed(w) == \A k \in DOMAIN w : /\ w[k] = "register" <=> k = 1
                                 /\ w[k] = "bye" => k = Len(w)
NoBye(w) == \A k \in DOMAIN w : w[k] # "bye"

LEMMA NothingSent == SentOn(<<>>) = <<>> /\ Framed(<<>>) /\ NoBye(<<>>)
BY DEF SentOn, Framed, NoBye

LEMMA SentRegister ==
  ASSUME NEW h \in Seq({"answer", "ice"})
  PROVE  /\ <<"register">> \o h \in Seq(Heard) /\ <<"register">> \o h # <<>>
         /\ SentOn(<<"register">> \o h) = h
         /\ Framed(<<"register">> \o h) /\ NoBye(<<"register">> \o h)
<1> DEFINE w == <<"register">> \o h
<1>1. h \in Seq(Heard) /\ <<"register">> \in Seq(Heard)
  BY SeqMonotonic DEF Heard
<1>2. /\ w \in Seq(Heard) /\ Len(w) = Len(h) + 1 /\ w[1] = "register" /\ Len(h) \in Nat
      /\ \A k \in 2..(Len(h) + 1) : w[k] = h[k - 1]
  BY <1>1
<1>3. \A k \in DOMAIN h : h[k] \in {"answer", "ice"}
  OBVIOUS
<1> HIDE DEF w
<1>4. DOMAIN w = 1..(Len(h) + 1) /\ \A k \in 2..(Len(h) + 1) : k - 1 \in DOMAIN h
  BY <1>2
<1>5. \A k \in 2..(Len(h) + 1) : w[k] \in {"answer", "ice"}
  BY <1>2, <1>3, <1>4
<1>6. \A k \in DOMAIN w : k = 1 \/ k \in 2..(Len(h) + 1)
  BY <1>2, <1>4
<1>7. Framed(w) /\ NoBye(w)
  BY <1>2, <1>5, <1>6 DEF Framed, NoBye
<1>8. w # <<>> /\ Last(w) # "bye"
  <2>1. Len(w) \in DOMAIN w
    BY <1>2, <1>4
  <2> QED BY <1>2, <1>7, <2>1 DEF NoBye, Last
<1>9. SentOn(w) = SubSeq(w, 2, Len(w))
  BY <1>8 DEF SentOn
<1>10. SubSeq(w, 2, Len(w)) \in Seq(Heard) /\ Len(SubSeq(w, 2, Len(w))) = Len(h)
       /\ \A k \in 1..Len(h) : SubSeq(w, 2, Len(w))[k] = w[k + 1]
  BY <1>2
<1>11. \A k \in 1..Len(h) : w[k + 1] = h[k]
  <2> SUFFICES ASSUME NEW k \in 1..Len(h) PROVE w[k + 1] = h[k]
    OBVIOUS
  <2>1. k + 1 \in 2..(Len(h) + 1) /\ (k + 1) - 1 = k
    BY <1>2
  <2> QED BY <1>2, <2>1
<1>12. SubSeq(w, 2, Len(w)) = h
  BY <1>1, <1>10, <1>11, SeqEqual
<1> QED BY <1>2, <1>7, <1>8, <1>9, <1>12 DEF w

LEMMA SentMore ==
  ASSUME NEW w \in Seq(Heard), w # <<>>, Framed(w), NoBye(w), NEW m \in {"answer", "ice"}
  PROVE  /\ Append(w, m) \in Seq(Heard)
         /\ SentOn(Append(w, m)) = Append(SentOn(w), m)
         /\ Framed(Append(w, m)) /\ NoBye(Append(w, m))
<1> DEFINE v == Append(w, m)
<1>1. m \in Heard /\ m # "bye" /\ m # "register"
  BY DEF Heard
<1>2. /\ v \in Seq(Heard) /\ v # <<>>
      /\ Len(w) \in Nat /\ Len(v) = Len(w) + 1 /\ DOMAIN w = 1..Len(w) /\ DOMAIN v = 1..(Len(w) + 1)
      /\ v[Len(w) + 1] = m
      /\ \A i \in DOMAIN w : v[i] = w[i]
      /\ \A i \in DOMAIN v : i \in DOMAIN w \/ i = Len(w) + 1
  BY <1>1, AppendParts
<1> HIDE DEF v
<1>3. Len(w) \in DOMAIN w /\ Len(w) > 0 /\ w[Len(w)] # "bye"
  BY <1>2 DEF NoBye
<1>4. Framed(v) /\ NoBye(v)
  BY <1>1, <1>2, <1>3 DEF Framed, NoBye
<1>5. SentOn(v) = SubSeq(v, 2, Len(v))
  BY <1>1, <1>2 DEF SentOn, Last
<1>6. SentOn(w) = SubSeq(w, 2, Len(w))
  BY <1>3 DEF SentOn, Last
<1>7. SubSeq(w, 2, Len(w)) \in Seq(Heard) /\ Len(SubSeq(w, 2, Len(w))) = Len(w) - 1
      /\ \A k \in 1..(Len(w) - 1) : SubSeq(w, 2, Len(w))[k] = w[k + 1]
  BY <1>2, <1>3
<1>8. SubSeq(v, 2, Len(v)) \in Seq(Heard) /\ Len(SubSeq(v, 2, Len(v))) = Len(w)
      /\ \A k \in 1..Len(w) : SubSeq(v, 2, Len(v))[k] = v[k + 1]
  BY <1>2, <1>3
<1> DEFINE a == SubSeq(w, 2, Len(w))
           b == SubSeq(v, 2, Len(v))
<1>9. /\ a \in Seq(Heard) /\ Len(a) = Len(w) - 1 /\ \A k \in 1..(Len(w) - 1) : a[k] = w[k + 1]
      /\ b \in Seq(Heard) /\ Len(b) = Len(w) /\ \A k \in 1..Len(w) : b[k] = v[k + 1]
  BY <1>7, <1>8
<1> HIDE DEF a, b
<1>10. /\ Append(a, m) \in Seq(Heard) /\ Len(Append(a, m)) = Len(w) /\ Append(a, m)[Len(w)] = m
       /\ \A k \in 1..(Len(w) - 1) : Append(a, m)[k] = a[k]
  <2>1. /\ Append(a, m) \in Seq(Heard) /\ Len(Append(a, m)) = Len(a) + 1
        /\ \A k \in 1..Len(a) : Append(a, m)[k] = a[k]
        /\ Append(a, m)[Len(a) + 1] = m
    BY <1>1, <1>9, AppendProperties
  <2>2. Len(a) + 1 = Len(w)
    BY <1>2, <1>9
  <2> QED BY <1>9, <2>1, <2>2
<1>11. \A k \in 1..Len(w) : b[k] = Append(a, m)[k]
  <2> SUFFICES ASSUME NEW k \in 1..Len(w) PROVE b[k] = Append(a, m)[k]
    OBVIOUS
  <2>1. CASE k = Len(w)
    BY <1>2, <1>9, <1>10, <2>1
  <2>2. CASE k # Len(w)
    <3>1. k \in 1..(Len(w) - 1) /\ k + 1 \in 1..Len(w)
      <4>1. Len(w) \in Nat
        BY <1>2
      <4> QED BY <2>2, <4>1
    <3> QED BY <1>2, <1>9, <1>10, <3>1
  <2> QED BY <2>1, <2>2
<1>12. b = Append(a, m)
  BY <1>9, <1>10, <1>11, SeqEqual
<1>13. SentOn(v) = Append(SentOn(w), m)
  BY <1>5, <1>6, <1>12 DEF a, b
<1> QED BY <1>2, <1>4, <1>13 DEF v

LEMMA SentBye ==
  ASSUME NEW w \in Seq(Heard), w # <<>>, Framed(w), NoBye(w)
  PROVE  /\ Append(w, "bye") \in Seq(Heard)
         /\ SentOn(Append(w, "bye")) = SentOn(w) /\ Framed(Append(w, "bye"))
<1> DEFINE v == Append(w, "bye")
<1>1. "bye" \in Heard
  BY DEF Heard
<1>2. /\ v \in Seq(Heard) /\ v # <<>>
      /\ Len(w) \in Nat /\ Len(v) = Len(w) + 1 /\ DOMAIN w = 1..Len(w) /\ DOMAIN v = 1..(Len(w) + 1)
      /\ v[Len(w) + 1] = "bye"
      /\ \A i \in DOMAIN w : v[i] = w[i]
      /\ \A i \in DOMAIN v : i \in DOMAIN w \/ i = Len(w) + 1
  BY <1>1, AppendParts
<1> HIDE DEF v
<1>3. Len(w) \in DOMAIN w /\ Len(w) > 0 /\ w[Len(w)] # "bye"
  BY <1>2 DEF NoBye
<1>4. Framed(v)
  BY <1>2, <1>3 DEF Framed, NoBye
<1>5. SentOn(v) = SubSeq(v, 2, Len(w))
  BY <1>2 DEF SentOn, Last
<1>6. SentOn(w) = SubSeq(w, 2, Len(w))
  BY <1>3 DEF SentOn, Last
<1>7. SubSeq(w, 2, Len(w)) \in Seq(Heard) /\ Len(SubSeq(w, 2, Len(w))) = Len(w) - 1
      /\ \A k \in 1..(Len(w) - 1) : SubSeq(w, 2, Len(w))[k] = w[k + 1]
  BY <1>2, <1>3
<1>8. SubSeq(v, 2, Len(w)) \in Seq(Heard) /\ Len(SubSeq(v, 2, Len(w))) = Len(w) - 1
      /\ \A k \in 1..(Len(w) - 1) : SubSeq(v, 2, Len(w))[k] = v[k + 1]
  BY <1>2, <1>3
<1>9. \A k \in 1..(Len(w) - 1) : v[k + 1] = w[k + 1]
  BY <1>2
<1>10. SubSeq(v, 2, Len(w)) = SubSeq(w, 2, Len(w))
  BY <1>7, <1>8, <1>9, SeqEqual
<1> QED BY <1>2, <1>4, <1>5, <1>6, <1>10 DEF v

LEMMA PrefixOfConcat ==
  ASSUME NEW S, NEW s \in Seq(S), NEW p \in Seq(S)
  PROVE  IsPrefix(s, s \o p)
<1>1. Len(s) \in Nat /\ Len(p) \in Nat /\ Len(s \o p) = Len(s) + Len(p) /\ s \o p \in Seq(S)
      /\ \A i \in 1..Len(s) : (s \o p)[i] = s[i]
  OBVIOUS
<1>2. SubSeq(s, 1, Len(s)) \in Seq(S) /\ Len(SubSeq(s, 1, Len(s))) = Len(s)
      /\ \A i \in 1..Len(s) : SubSeq(s, 1, Len(s))[i] = s[i]
  BY <1>1
<1>3. SubSeq(s \o p, 1, Len(s)) \in Seq(S) /\ Len(SubSeq(s \o p, 1, Len(s))) = Len(s)
      /\ \A i \in 1..Len(s) : SubSeq(s \o p, 1, Len(s))[i] = (s \o p)[i]
  BY <1>1, SubSeqProperties
<1>4. SubSeq(s, 1, Len(s)) = SubSeq(s \o p, 1, Len(s))
  BY <1>1, <1>2, <1>3, SeqEqual
<1> QED BY <1>1, <1>4 DEF IsPrefix

LEMMA PrefixOfAppend ==
  ASSUME NEW S, NEW s \in Seq(S), NEW t \in Seq(S), NEW e \in S, IsPrefix(s, t)
  PROVE  IsPrefix(s, Append(t, e))
<1>1. Len(s) \in Nat /\ Len(t) \in Nat /\ Len(Append(t, e)) = Len(t) + 1 /\ Append(t, e) \in Seq(S)
      /\ \A i \in 1..Len(t) : Append(t, e)[i] = t[i]
  OBVIOUS
<1>2. Len(s) <= Len(t) /\ SubSeq(s, 1, Len(s)) = SubSeq(t, 1, Len(s))
  BY DEF IsPrefix
<1>3. SubSeq(t, 1, Len(s)) \in Seq(S) /\ Len(SubSeq(t, 1, Len(s))) = Len(s)
      /\ \A i \in 1..Len(s) : SubSeq(t, 1, Len(s))[i] = t[i]
  BY <1>1, <1>2, SubSeqProperties
<1>4. SubSeq(Append(t, e), 1, Len(s)) \in Seq(S) /\ Len(SubSeq(Append(t, e), 1, Len(s))) = Len(s)
      /\ \A i \in 1..Len(s) : SubSeq(Append(t, e), 1, Len(s))[i] = Append(t, e)[i]
  BY <1>1, <1>2, SubSeqProperties
<1>5. \A i \in 1..Len(s) : i \in 1..Len(t)
  BY <1>1, <1>2
<1>6. SubSeq(Append(t, e), 1, Len(s)) = SubSeq(t, 1, Len(s))
  BY <1>1, <1>3, <1>4, <1>5, SeqEqual
<1> QED BY <1>1, <1>2, <1>6 DEF IsPrefix

LEMMA HeadAndTail ==
  ASSUME NEW S, NEW p \in Seq(S), p # <<>>
  PROVE  p = <<Head(p)>> \o Tail(p)
<1>1. Len(p) \in Nat /\ Len(p) > 0 /\ Head(p) = p[1] /\ Head(p) \in S
      /\ Tail(p) \in Seq(S) /\ Len(Tail(p)) = Len(p) - 1
      /\ \A i \in 1..(Len(p) - 1) : Tail(p)[i] = p[i + 1]
  OBVIOUS
<1> DEFINE h == <<Head(p)>>
           b == Tail(p)
<1>2. h \in Seq(S) /\ Len(h) = 1 /\ h[1] = p[1]
  BY <1>1
<1>3. b \in Seq(S) /\ Len(b) = Len(p) - 1 /\ \A i \in 1..(Len(p) - 1) : b[i] = p[i + 1]
  BY <1>1
<1> HIDE DEF h, b
<1>4. /\ h \o b \in Seq(S) /\ Len(h \o b) = Len(h) + Len(b)
      /\ \A i \in 1..(Len(h) + Len(b)) : (h \o b)[i] = IF i <= Len(h) THEN h[i] ELSE b[i - Len(h)]
  <2>1. h \in Seq(S) /\ b \in Seq(S)
    BY <1>2, <1>3
  <2> QED BY <2>1, ConcatProperties
<1>5. Len(h) + Len(b) = Len(p)
  BY <1>1, <1>2, <1>3
<1>6. \A i \in 1..Len(p) : p[i] = (h \o b)[i]
  <2> SUFFICES ASSUME NEW i \in 1..Len(p) PROVE p[i] = (h \o b)[i]
    OBVIOUS
  <2>1. CASE i = 1
    BY <1>2, <1>4, <1>5, <2>1
  <2>2. CASE i # 1
    <3>1. i - 1 \in 1..(Len(p) - 1) /\ (i - 1) + 1 = i /\ ~(i <= 1)
      BY <1>1, <2>2
    <3> QED BY <1>2, <1>3, <1>4, <1>5, <3>1
  <2> QED BY <2>1, <2>2
<1>7. p = h \o b
  BY <1>4, <1>5, <1>6, SeqEqual
<1> QED BY <1>7 DEF h, b

\* x is s and then p.
Joins(x, s, p) == x = s \o p

LEMMA ConcatMoves ==
  ASSUME NEW S, NEW s \in Seq(S), NEW p \in Seq(S), p # <<>>, NEW x, Joins(x, s, p)
  PROVE  Joins(x, Append(s, Head(p)), Tail(p))
<1>1. Head(p) \in S /\ <<Head(p)>> \in Seq(S) /\ Tail(p) \in Seq(S)
  OBVIOUS
<1>2. p = <<Head(p)>> \o Tail(p)
  BY HeadAndTail
<1>3. s \o (<<Head(p)>> \o Tail(p)) = (s \o <<Head(p)>>) \o Tail(p)
  BY SMTT(30), <1>1, ConcatAssociative
<1>4. Append(s, Head(p)) = s \o <<Head(p)>>
  BY <1>1, AppendIsConcat
<1> QED BY <1>2, <1>3, <1>4 DEF Joins

LEMMA ConcatAppend ==
  ASSUME NEW S, NEW s \in Seq(S), NEW p \in Seq(S), NEW e \in S, NEW x, Joins(x, s, p)
  PROVE  Joins(Append(x, e), s, Append(p, e))
<1>1. s \o p \in Seq(S) /\ <<e>> \in Seq(S)
  BY ConcatProperties
<1>2. Append(s \o p, e) = (s \o p) \o <<e>>
  BY <1>1, AppendIsConcat
<1>3. Append(p, e) = p \o <<e>>
  BY AppendIsConcat
<1>4. (s \o p) \o <<e>> = s \o (p \o <<e>>)
  BY <1>1, ConcatAssociative
<1> QED BY <1>2, <1>3, <1>4 DEF Joins

-----------------------------------------------------------------------------
(* The inductive invariant, in parts.                                       *)

\* TypeOK but for how many requests are under way.
Types ==
  /\ call \in {"idle", "calling", "left"}
  /\ pc \in {"none", "made", "describing", "described"}
  /\ alert \in BOOLEAN /\ named \in BOOLEAN /\ closed \in BOOLEAN
  /\ member \in BOOLEAN /\ fault \in BOOLEAN
  /\ ui \in Seq(Events) /\ tasks \in Seq(Task)
  /\ looper \in {"running", "waiting", "quit"}
  /\ room \in {"NEW", "CONNECTED", "CLOSED", "ERROR"}
  /\ role \in {"unknown", "initiator", "receiver"}
  /\ ws \in {"NEW", "REGISTERED", "CLOSED", "ERROR"}
  /\ held \in Seq({"answer", "ice"})
  /\ sock \in {"none", "connecting", "open", "closing", "closed"}
  /\ join \in {"none", "sent", "entered", "answered"}
  /\ posts \in [Requests -> Nat]
  /\ failed \subseteq Requests \cup {"join", "socket", "text"}
  /\ texts \in 0..MaxTexts /\ errors \in {0, 1}
  /\ said \in Seq(Sayings) /\ wire \in Seq(Heard)

\* Before the room's parameters are known nothing else has begun, and they
\* come once: no error can have come before them.
Early ==
  /\ role = "unknown" =>
       /\ ws = "NEW" /\ held = <<>> /\ sock = "none"
       /\ posts = [r \in Requests |-> 0] /\ said = <<>> /\ wire = <<>> /\ pc = "none"
       /\ \A do : Has(tasks, do) => do \in {"connect", "ready", "roomError", "disconnect"}
       /\ \A e : Hears(ui, e) => e = "error"
  /\ (join # "answered" \/ Has(tasks, "ready")) =>
       /\ role = "unknown" /\ errors = 0 /\ failed = {} /\ ui = <<>> /\ ~alert /\ ~fault
       /\ ~Has(tasks, "roomError")
  /\ Has(tasks, "ready") => join = "answered"
  /\ Has(tasks, "connect") => join = "none"
  /\ call = "idle" => join = "none" /\ ~Has(tasks, "connect")
  /\ One(tasks, "connect") /\ One(tasks, "ready")

\* The state of the client lags behind the connection, by the tasks that tell
\* of its opening and its end.
Connection ==
  /\ One(tasks, "open") /\ OpenFirst(tasks)
  /\ Has(tasks, "open") => /\ sock \in {"open", "closing", "closed"} /\ wire = <<>>
                           /\ looper = "running" => ws = "NEW"
  /\ Has(tasks, "closed") => sock = "closed"
  /\ Has(tasks, "wsError") /\ looper = "running" => sock = "none"
  /\ sock \in {"none", "connecting"} => wire = <<>> /\ ws # "REGISTERED"
  /\ sock = "connecting" /\ looper = "running" => ws = "NEW"
  /\ ws = "CLOSED" /\ looper = "running" => sock = "closed"
  /\ ws = "ERROR" /\ looper = "running" => sock = "none"
  /\ ws = "REGISTERED" => looper = "running" /\ (sock = "open" => wire # <<>>)

\* The room is in error from the first error to the end.
RoomState ==
  /\ role # "unknown" => named /\ room # "NEW"
  /\ errors = 0 => room # "ERROR"
  /\ errors = 1 => room \in {"ERROR", "CLOSED"}
  /\ looper = "running" <=> room # "CLOSED"
  /\ room = "CONNECTED" => role # "unknown"

\* Whatever is on its way to report an error comes from outside.
Failures ==
  failed = {} =>
    /\ errors = 0 /\ ~alert
    /\ ~Has(tasks, "roomError") /\ ~Has(tasks, "wsError") /\ ~Hears(ui, "error")
    /\ NoneWrong(tasks, role)

\* What LittleLeftBehind says, from the moment disconnect() has run.
LeftBehind ==
  looper # "running" =>
    /\ member => role = "unknown" \/ errors > 0 \/ posts["leave"] > 0 \/ "leave" \in failed
    /\ sock \in {"connecting", "open"} => ws = "NEW"

\* The activity enters the room once, and before it hears of the other phone.
Entered ==
  /\ OneRoom(ui)
  /\ pc # "none" \/ fault \/ RoomFirst(ui)
  /\ role # "unknown" => pc # "none" \/ fault \/ InRoom(ui)
  /\ InRoom(ui) => role # "unknown" /\ pc = "none"
  /\ pc # "none" => role # "unknown"

\* The requests are those of messages the activity has asked for.
Asked ==
  /\ pc # "described" => said = <<>>
  /\ Len(said) <= MaxIce + 1
  /\ posts["leave"] <= 1 /\ posts["delete"] <= 1
  /\ looper = "running" => posts["leave"] = 0 /\ posts["delete"] = 0
  /\ role # "initiator" => ~Has(tasks, "offer")

Framing == Framed(wire) /\ (looper = "running" => NoBye(wire))

\* p: the messages that wait in the looper's queue.
Flow ==
  \E p : /\ Chosen(tasks, p)
         /\ posts["offer"] + posts["ice"] + Len(p) <= Len(said)
         /\ role = "receiver" =>
              /\ looper = "running" /\ ws = "NEW" => wire = <<>> /\ Joins(said, held, p)
              /\ ws = "REGISTERED" /\ sock = "open" => Joins(said, SentOn(wire), p)
              /\ IsPrefix(SentOn(wire), said)

Inv == /\ Types /\ Early /\ Connection /\ RoomState /\ Failures
       /\ LeftBehind /\ Entered /\ Asked /\ Framing /\ Flow

LEMMA InitInv == ASSUME Init PROVE Inv
<1>1. MaxIce \in Nat /\ MaxTexts \in Nat
  BY WebSocketAssumption
<1>2. Types
  <2>1. /\ ui \in Seq(Events) /\ tasks \in Seq(Task) /\ held \in Seq({"answer", "ice"})
        /\ said \in Seq(Sayings) /\ wire \in Seq(Heard)
    BY DEF Init
  <2>2. posts \in [Requests -> Nat] /\ failed \subseteq Requests \cup {"join", "socket", "text"}
    BY DEF Init
  <2>3. texts \in 0..MaxTexts /\ errors \in {0, 1}
    BY <1>1 DEF Init
  <2> QED BY <2>1, <2>2, <2>3 DEF Init, Types
<1>3. Early /\ Connection /\ RoomState
  BY NoTasks DEF Init, Early, Connection, RoomState, Hears
<1>4. Failures /\ LeftBehind /\ Entered /\ Framing
  <2>1. Failures
    BY NoTasks DEF Init, Failures, Hears
  <2>2. LeftBehind /\ Framing
    BY NothingSent DEF Init, LeftBehind, Framing
  <2>3. Entered
    BY DEF Init, Entered, Hears, InRoom, OneRoom, RoomFirst
  <2> QED BY <2>1, <2>2, <2>3
<1>5. Asked
  BY <1>1, NoTasks DEF Init, Asked, Requests
<1>6. Flow
  <2>1. posts["offer"] + posts["ice"] + Len(<<>>) <= Len(said)
    BY DEF Init, Requests
  <2> QED BY <2>1, NoTasks DEF Init, Flow
<1> QED BY <1>2, <1>3, <1>4, <1>5, <1>6 DEF Inv

\* Steps after the parameters came.
LEMMA EarlyLate ==
  ASSUME Early, role # "unknown", UNCHANGED <<role, join>>, call' = "idle" => call = "idle",
         \A do \in {"connect", "ready"} : Has(tasks', do) => Has(tasks, do)
  PROVE  Early'
<1>1. join = "answered" /\ ~Has(tasks, "ready") /\ ~Has(tasks, "connect")
  BY DEF Early
<1>2. ~Has(tasks', "ready") /\ ~Has(tasks', "connect")
  BY <1>1
<1>3. One(tasks', "ready") /\ One(tasks', "connect")
  BY <1>2 DEF Has, One
<1>4. call' # "idle"
  BY <1>1 DEF Early
<1> QED BY <1>1, <1>2, <1>3, <1>4 DEF Early

\* Steps that move no message.
LEMMA FlowWalk ==
  ASSUME Flow, UNCHANGED <<said, role, wire, held>>, posts \in [Requests -> Nat],
         posts' \in [Requests -> Nat],
         posts'["offer"] <= posts["offer"] /\ posts'["ice"] <= posts["ice"],
         looper' = "running" /\ ws' = "NEW" => looper = "running" /\ ws = "NEW",
         ws' = "REGISTERED" /\ sock' = "open" => ws = "REGISTERED" /\ sock = "open",
         said \in Seq(Sayings),
         \A p : Chosen(tasks, p) => Chosen(tasks', p)
  PROVE  Flow'
<1>1. PICK p :
         /\ Chosen(tasks, p)
         /\ posts["offer"] + posts["ice"] + Len(p) <= Len(said)
         /\ role = "receiver" =>
              /\ looper = "running" /\ ws = "NEW" => wire = <<>> /\ Joins(said, held, p)
              /\ ws = "REGISTERED" /\ sock = "open" => Joins(said, SentOn(wire), p)
              /\ IsPrefix(SentOn(wire), said)
  BY DEF Flow
<1>2. Len(p) \in Nat /\ Len(said) \in Nat
  BY <1>1 DEF Chosen
<1>3. /\ posts["offer"] \in Nat /\ posts["ice"] \in Nat
      /\ posts'["offer"] \in Nat /\ posts'["ice"] \in Nat
  BY DEF Requests
<1>4. posts'["offer"] + posts'["ice"] + Len(p) <= Len(said)
  BY <1>1, <1>2, <1>3
<1>5. Chosen(tasks', p)
  BY <1>1
<1> QED BY <1>1, <1>4, <1>5 DEF Flow

\* Nothing is sent any more: it does not matter what waits.
LEMMA FlowEnds ==
  ASSUME Flow, UNCHANGED <<said, role>>, SentOn(wire') = SentOn(wire), posts \in [Requests -> Nat],
         posts'["offer"] = posts["offer"] /\ posts'["ice"] = posts["ice"],
         ~(looper' = "running" /\ ws' = "NEW"), ~(ws' = "REGISTERED" /\ sock' = "open"),
         said \in Seq(Sayings),
         tasks' = <<>> \/ \A p : Chosen(tasks, p) => Chosen(tasks', p)
  PROVE  Flow'
<1>1. PICK p :
         /\ Chosen(tasks, p)
         /\ posts["offer"] + posts["ice"] + Len(p) <= Len(said)
         /\ role = "receiver" => IsPrefix(SentOn(wire), said)
  BY DEF Flow
<1>2. Len(p) \in Nat /\ Len(said) \in Nat /\ posts["offer"] \in Nat /\ posts["ice"] \in Nat
  BY <1>1 DEF Chosen, Requests
<1>3. PICK r : Chosen(tasks', r) /\ Len(r) \in Nat /\ Len(r) <= Len(p)
  <2>1. CASE tasks' = <<>>
    <3>1. Chosen(tasks', <<>>) /\ Len(<<>>) = 0
      BY <2>1, NoTasks
    <3> QED BY <1>2, <3>1
  <2>2. CASE \A q : Chosen(tasks, q) => Chosen(tasks', q)
    BY <1>1, <1>2, <2>2
  <2> QED BY <2>1, <2>2
<1>4. posts'["offer"] + posts'["ice"] + Len(r) <= Len(said)
  BY <1>1, <1>2, <1>3
<1> QED BY <1>1, <1>3, <1>4 DEF Flow

-----------------------------------------------------------------------------
(* What a step does to the tasks of the looper.                             *)

LEMMA Posted ==
  ASSUME tasks \in Seq(Task), NEW t \in Tasks, PostTask(Do(t))
  PROVE  /\ tasks' \in Seq(Task)
         /\ \A do : Has(tasks, do) => Has(tasks', do)
         /\ \A do : Has(tasks', do) => Has(tasks, do) \/ do = t
         /\ \A do : One(tasks, do) /\ (do = t => ~Has(tasks, do)) => One(tasks', do)
         /\ OpenFirst(tasks) /\ (t = "open" => ~Has(tasks, "closed")) => OpenFirst(tasks')
         /\ \A r : NoneWrong(tasks, r) => NoneWrong(tasks', r)
         /\ t \notin Sayings => \A p : Chosen(tasks, p) => Chosen(tasks', p)
         /\ t \in Sayings => \A p : Chosen(tasks, p) =>
              Chosen(tasks', IF looper # "quit" THEN Append(p, t) ELSE p)
<1>1. Do(t) \in Task /\ Do(t).do = t /\ t # "text"
  BY ErrorTasks DEF Tasks
<1> DEFINE d == Do(t)
<1>2. d \in Task /\ d.do = t /\ d.do # "text" /\ PostTask(d)
  BY <1>1
<1> HIDE DEF d
<1>3. /\ tasks' \in Seq(Task)
      /\ \A do : Has(tasks, do) => Has(tasks', do)
      /\ \A do : Has(tasks', do) => Has(tasks, do) \/ do = d.do
      /\ \A do : One(tasks, do) /\ (do = d.do => ~Has(tasks, do)) => One(tasks', do)
      /\ OpenFirst(tasks) /\ (d.do = "open" => ~Has(tasks, "closed")) => OpenFirst(tasks')
      /\ \A r : NoneWrong(tasks, r) /\ (d.do = "text" => ~WrongTo(r, d.msg)) => NoneWrong(tasks', r)
      /\ \A p : Chosen(tasks, p) => Chosen(tasks', IF looper # "quit" /\ d.do \in Sayings
                                                  THEN Append(p, d.do) ELSE p)
  BY <1>2, TasksPosted
<1> QED BY <1>2, <1>3

LEMMA TaskGone ==
  ASSUME tasks \in Seq(Task), tasks # <<>>, Next1(<<>>)
  PROVE  /\ tasks' \in Seq(Task) /\ Has(tasks, Head(tasks).do)
         /\ \A do : Has(tasks', do) => Has(tasks, do)
         /\ \A do : do \notin Errors /\ One(tasks, do) =>
                      One(tasks', do) /\ (Head(tasks).do = do => ~Has(tasks', do))
         /\ OpenFirst(tasks) => OpenFirst(tasks') /\ (Head(tasks).do = "closed" => ~Has(tasks', "open"))
         /\ \A r : NoneWrong(tasks, r) => NoneWrong(tasks', r)
         /\ \A p : Chosen(tasks, p) =>
              IF Head(tasks).do \in Sayings THEN Chosen(tasks', Tail(p)) ELSE Chosen(tasks', p)
<1>1. <<>> \in Mores /\ \A do : <<>> # <<Do(do)>>
  BY DEF Mores
<1>2. tasks' = Tail(tasks) \o <<>>
  BY DEF Next1
<1>3. /\ tasks' \in Seq(Task)
      /\ \A do : Has(tasks', do) => Has(tasks, do) \/ <<>> = <<Do(do)>>
      /\ \A do : do \notin Errors /\ One(tasks, do) =>
                   One(tasks', do) /\ (Head(tasks).do = do => ~Has(tasks', do))
      /\ OpenFirst(tasks) => OpenFirst(tasks') /\ (Head(tasks).do = "closed" => ~Has(tasks', "open"))
      /\ \A r : NoneWrong(tasks, r) => NoneWrong(tasks', r)
      /\ \A p : Chosen(tasks, p) =>
           IF Head(tasks).do \in Sayings THEN Chosen(tasks', Tail(p)) ELSE Chosen(tasks', p)
  BY <1>1, <1>2, TasksRun
<1>4. Has(tasks, Head(tasks).do)
  BY TasksTail
<1> QED BY <1>1, <1>3, <1>4

LEMMA TaskFails ==
  ASSUME tasks \in Seq(Task), tasks # <<>>, NEW err \in Errors, Next1(<<Do(err)>>)
  PROVE  /\ tasks' \in Seq(Task) /\ Has(tasks, Head(tasks).do)
         /\ \A do : Has(tasks', do) => Has(tasks, do) \/ do = err
         /\ \A do : do \notin Errors /\ One(tasks, do) =>
                      One(tasks', do) /\ (Head(tasks).do = do => ~Has(tasks', do))
         /\ OpenFirst(tasks) => OpenFirst(tasks') /\ (Head(tasks).do = "closed" => ~Has(tasks', "open"))
         /\ \A r : NoneWrong(tasks, r) => NoneWrong(tasks', r)
         /\ \A p : Chosen(tasks, p) =>
              IF Head(tasks).do \in Sayings THEN Chosen(tasks', Tail(p)) ELSE Chosen(tasks', p)
<1> DEFINE more == <<Do(err)>>
<1>1. more \in Mores /\ \A do : more = <<Do(do)>> => do = err
  <2>1. more \in Mores
    BY DEF Mores, Errors
  <2>2. ASSUME NEW do, more = <<Do(do)>> PROVE do = err
    <3>1. Do(do) = Do(err)
      BY <2>2
    <3>2. Do(do).do = do /\ Do(err).do = err
      BY DEF Do
    <3> QED BY <3>1, <3>2
  <2> QED BY <2>1, <2>2
<1>2. tasks' = Tail(tasks) \o more
  BY DEF Next1
<1> HIDE DEF more
<1>3. /\ tasks' \in Seq(Task)
      /\ \A do : Has(tasks', do) => Has(tasks, do) \/ more = <<Do(do)>>
      /\ \A do : do \notin Errors /\ One(tasks, do) =>
                   One(tasks', do) /\ (Head(tasks).do = do => ~Has(tasks', do))
      /\ OpenFirst(tasks) => OpenFirst(tasks') /\ (Head(tasks).do = "closed" => ~Has(tasks', "open"))
      /\ \A r : NoneWrong(tasks, r) => NoneWrong(tasks', r)
      /\ \A p : Chosen(tasks, p) =>
           IF Head(tasks).do \in Sayings THEN Chosen(tasks', Tail(p)) ELSE Chosen(tasks', p)
  BY <1>1, <1>2, TasksRun
<1>4. Has(tasks, Head(tasks).do)
  BY TasksTail
<1> QED BY <1>1, <1>3, <1>4

LEMMA SentType == ASSUME NEW w \in Seq(Heard) PROVE SentOn(w) \in Seq(Heard)
<1>1. CASE w = <<>>
  BY <1>1, NothingSent
<1>2. CASE w # <<>>
  <2>1. Len(w) \in Nat /\ Len(w) > 0
    BY <1>2
  <2>2. SubSeq(w, 2, Len(w)) \in Seq(Heard) /\ SubSeq(w, 2, Len(w) - 1) \in Seq(Heard)
    BY <2>1
  <2> QED BY <2>2 DEF SentOn
<1> QED BY <1>1, <1>2

\* The activity asks to send m.
LEMMA FlowSaid ==
  ASSUME Flow, Types, Connection, NEW m \in Sayings, said' = Append(said, m), PostTask(Do(m)),
         UNCHANGED <<role, wire, held, posts, looper, ws, sock>>
  PROVE  Flow'
<1>1. PICK p :
         /\ Chosen(tasks, p)
         /\ posts["offer"] + posts["ice"] + Len(p) <= Len(said)
         /\ role = "receiver" =>
              /\ looper = "running" /\ ws = "NEW" => wire = <<>> /\ Joins(said, held, p)
              /\ ws = "REGISTERED" /\ sock = "open" => Joins(said, SentOn(wire), p)
              /\ IsPrefix(SentOn(wire), said)
  BY DEF Flow
<1>2. /\ p \in Seq(Sayings) /\ said \in Seq(Sayings) /\ Len(p) \in Nat /\ Len(said) \in Nat
      /\ posts["offer"] \in Nat /\ posts["ice"] \in Nat
  BY <1>1 DEF Chosen, Types, Requests
<1>3. Len(Append(p, m)) = Len(p) + 1 /\ Len(said') = Len(said) + 1
  BY <1>2
<1>4. CASE looper = "quit"
  <2>1. Chosen(tasks', p)
    BY <1>1, <1>4 DEF PostTask
  <2>2. ws # "REGISTERED"
    BY <1>4 DEF Connection
  <2>3. role = "receiver" => IsPrefix(SentOn(wire), said')
    <3>1. SentOn(wire) \in Seq(Heard)
      BY SentType DEF Types
    <3>2. SentOn(wire) \in Seq(Heard \cup Sayings) /\ said \in Seq(Heard \cup Sayings)
      BY <1>2, <3>1, SeqMonotonic
    <3> QED BY <1>1, <3>2, PrefixOfAppend
  <2>4. posts["offer"] + posts["ice"] + Len(p) <= Len(said')
    BY <1>1, <1>2, <1>3
  <2> QED BY <1>4, <2>1, <2>2, <2>3, <2>4 DEF Flow
<1>5. CASE looper # "quit"
  <2> DEFINE r == Append(p, m)
  <2>1. Chosen(tasks', r)
    <3>1. Do(m) \in Task /\ Do(m).do = m
      BY ErrorTasks DEF Tasks, Sayings
    <3>2. m \in Tasks /\ tasks \in Seq(Task)
      BY DEF Tasks, Sayings, Types
    <3> QED BY <1>1, <1>5, <3>2, Posted
  <2>2. posts["offer"] + posts["ice"] + Len(r) <= Len(said')
    BY <1>1, <1>2, <1>3
  <2>3. held \in Seq(Sayings)
    BY SeqMonotonic DEF Types, Sayings
  <2>4. ASSUME role = "receiver", looper = "running", ws = "NEW" PROVE wire = <<>> /\ Joins(said', held, r)
    <3>1. Joins(said, held, p)
      BY <1>1, <2>4
    <3>2. Joins(Append(said, m), held, Append(p, m))
      BY <1>2, <2>3, <3>1, ConcatAppend
    <3> QED BY <1>1, <2>4, <3>2
  <2>5. SentOn(wire) \in Seq(Heard \cup Sayings) /\ said \in Seq(Heard \cup Sayings)
        /\ p \in Seq(Heard \cup Sayings) /\ m \in Heard \cup Sayings
    <3>1. SentOn(wire) \in Seq(Heard)
      BY SentType DEF Types
    <3> QED BY <1>2, <3>1, SeqMonotonic
  <2>6. ASSUME role = "receiver", ws = "REGISTERED", sock = "open" PROVE Joins(said', SentOn(wire), r)
    <3>1. Joins(said, SentOn(wire), p)
      BY <1>1, <2>6
    <3>2. Joins(Append(said, m), SentOn(wire), Append(p, m))
      BY <2>5, <3>1, ConcatAppend
    <3> QED BY <3>2
  <2>7. role = "receiver" => IsPrefix(SentOn(wire), said')
    BY <1>1, <2>5, PrefixOfAppend
  <2> HIDE DEF r
  <2> QED BY <2>1, <2>2, <2>4, <2>6, <2>7 DEF Flow
<1> QED BY <1>4, <1>5

-----------------------------------------------------------------------------
(* The UI thread.                                                           *)

LEMMA StartKeeps == ASSUME Inv, StartCall PROVE Inv'
<1>1. /\ Types /\ Early /\ Connection /\ RoomState /\ Failures
      /\ LeftBehind /\ Entered /\ Asked /\ Framing /\ Flow
  BY DEF Inv
<1>2. /\ call = "idle" /\ call' = "calling" /\ PostTask(Do("connect"))
      /\ UNCHANGED <<pc, alert, said, fault, ws, named, held, sock, closed, join, member, texts,
                     failed, looper, room, role, errors, ui, posts, wire>>
  BY DEF StartCall, wsVars, netVars, looperVars
<1>3. /\ join = "none" /\ ~Has(tasks, "connect") /\ ~Has(tasks, "ready")
  BY <1>1, <1>2 DEF Early
<1>4. /\ tasks' \in Seq(Task)
      /\ \A do : Has(tasks', do) => Has(tasks, do) \/ do = "connect"
      /\ \A do : One(tasks, do) /\ (do = "connect" => ~Has(tasks, do)) => One(tasks', do)
      /\ OpenFirst(tasks) => OpenFirst(tasks')
      /\ \A r : NoneWrong(tasks, r) => NoneWrong(tasks', r)
      /\ \A p : Chosen(tasks, p) => Chosen(tasks', p)
  <2>1. "connect" \in Tasks /\ "connect" # "open" /\ "connect" \notin Sayings /\ tasks \in Seq(Task)
    BY <1>1 DEF Tasks, Sayings, Types
  <2> QED BY <1>2, <2>1, Posted
<1>5. Types'
  BY <1>1, <1>2, <1>4 DEF Types
<1>6. Early'
  BY <1>1, <1>2, <1>3, <1>4 DEF Early
<1>7. Connection'
  BY <1>1, <1>2, <1>4 DEF Connection
<1>8. RoomState' /\ LeftBehind' /\ Entered' /\ Framing'
  BY <1>1, <1>2 DEF RoomState, LeftBehind, Entered, Framing
<1>9. Failures'
  BY <1>1, <1>2, <1>4 DEF Failures
<1>10. Asked'
  BY <1>1, <1>2, <1>4 DEF Asked
<1>11. Flow'
  <2>1. posts \in [Requests -> Nat] /\ said \in Seq(Sayings) /\ posts["offer"] \in Nat /\ posts["ice"] \in Nat
    BY <1>1 DEF Types, Requests
  <2> QED BY <1>1, <1>2, <1>4, <2>1, FlowWalk
<1> QED BY <1>5, <1>6, <1>7, <1>8, <1>9, <1>10, <1>11 DEF Inv

LEMMA HangUpKeeps == ASSUME Inv, HangUp PROVE Inv'
<1>1. /\ Types /\ Early /\ Connection /\ RoomState /\ Failures
      /\ LeftBehind /\ Entered /\ Asked /\ Framing /\ Flow
  BY DEF Inv
<1>2. /\ call = "calling" /\ call' = "left" /\ PostTask(Do("disconnect"))
      /\ UNCHANGED <<pc, alert, said, fault, ws, named, held, sock, closed, join, member, texts,
                     failed, looper, room, role, errors, ui, posts, wire>>
  BY DEF HangUp, Leave, wsVars, netVars, looperVars
<1>3. /\ tasks' \in Seq(Task)
      /\ \A do : Has(tasks', do) => Has(tasks, do) \/ do = "disconnect"
      /\ \A do : One(tasks, do) /\ do # "disconnect" => One(tasks', do)
      /\ OpenFirst(tasks) => OpenFirst(tasks')
      /\ \A r : NoneWrong(tasks, r) => NoneWrong(tasks', r)
      /\ \A p : Chosen(tasks, p) => Chosen(tasks', p)
  <2>1. "disconnect" \in Tasks /\ "disconnect" # "open" /\ "disconnect" \notin Sayings /\ tasks \in Seq(Task)
    BY <1>1 DEF Tasks, Sayings, Types
  <2> QED BY <1>2, <2>1, Posted
<1>4. Types'
  BY <1>1, <1>2, <1>3 DEF Types
<1>5. Early'
  BY <1>1, <1>2, <1>3 DEF Early
<1>6. Connection'
  BY <1>1, <1>2, <1>3 DEF Connection
<1>7. RoomState' /\ LeftBehind' /\ Entered' /\ Framing'
  BY <1>1, <1>2 DEF RoomState, LeftBehind, Entered, Framing
<1>8. Failures'
  BY <1>1, <1>2, <1>3 DEF Failures
<1>9. Asked'
  BY <1>1, <1>2, <1>3 DEF Asked
<1>10. Flow'
  <2>1. posts \in [Requests -> Nat] /\ said \in Seq(Sayings) /\ posts["offer"] \in Nat /\ posts["ice"] \in Nat
    BY <1>1 DEF Types, Requests
  <2> QED BY <1>1, <1>2, <1>3, <2>1, FlowWalk
<1> QED BY <1>4, <1>5, <1>6, <1>7, <1>8, <1>9, <1>10 DEF Inv

\* The activity has asked to send m, pc is what becomes of the peer connection.
LEMMA SaidKeeps ==
  ASSUME Inv, NEW m \in Sayings, said' = Append(said, m), PostTask(Do(m)), pc' = "described",
         pc # "none", Len(said) <= MaxIce, m = "offer" => role = "initiator",
         UNCHANGED <<call, alert, fault, ws, named, held, sock, closed, join, member, texts,
                     failed, looper, room, role, errors, ui, posts, wire>>
  PROVE  Inv'
<1>1. /\ Types /\ Early /\ Connection /\ RoomState /\ Failures
      /\ LeftBehind /\ Entered /\ Asked /\ Framing /\ Flow
  BY DEF Inv
<1>2. role # "unknown"
  BY <1>1 DEF Entered
<1>3. /\ tasks' \in Seq(Task)
      /\ \A do : Has(tasks', do) => Has(tasks, do) \/ do = m
      /\ \A do : One(tasks, do) /\ do # m => One(tasks', do)
      /\ OpenFirst(tasks) => OpenFirst(tasks')
      /\ \A r : NoneWrong(tasks, r) => NoneWrong(tasks', r)
  <2>1. m \in Tasks /\ m # "open" /\ tasks \in Seq(Task)
    BY <1>1 DEF Tasks, Sayings, Types
  <2> QED BY <2>1, Posted
<1>4. m \notin {"connect", "ready", "open", "closed", "wsError", "roomError"}
  BY DEF Sayings
<1>5. said \in Seq(Sayings) /\ said' \in Seq(Sayings) /\ Len(said') = Len(said) + 1 /\ Len(said) \in Nat
  BY <1>1 DEF Types
<1>6. Types'
  BY <1>1, <1>3, <1>5 DEF Types
<1>7. Early'
  BY <1>1, <1>2, <1>3, <1>4, EarlyLate
<1>8. Connection'
  BY <1>1, <1>3, <1>4 DEF Connection
<1>9. RoomState' /\ LeftBehind' /\ Entered' /\ Framing'
  BY <1>1, <1>2 DEF RoomState, LeftBehind, Entered, Framing
<1>10. Failures'
  BY <1>1, <1>3, <1>4 DEF Failures
<1>11. Asked'
  <2>1. MaxIce \in Nat
    BY WebSocketAssumption
  <2> QED BY <1>1, <1>3, <1>5, <2>1 DEF Asked
<1>12. Flow'
  BY <1>1, FlowSaid
<1> QED BY <1>6, <1>7, <1>8, <1>9, <1>10, <1>11, <1>12 DEF Inv

LEMMA DescriptionKeeps == ASSUME Inv, LocalDescription PROVE Inv'
<1> DEFINE m == IF role = "initiator" THEN "offer" ELSE "answer"
<1>1. pc = "describing" /\ said = <<>> /\ Len(said) <= MaxIce
  <2>1. pc = "describing" /\ said = <<>>
    BY DEF LocalDescription, Inv, Asked
  <2>2. MaxIce \in Nat /\ Len(<<>>) = 0
    BY WebSocketAssumption
  <2> QED BY <2>1, <2>2
<1>2. m \in Sayings /\ (m = "offer" => role = "initiator")
  BY DEF Sayings
<1>3. /\ pc' = "described" /\ Say(m)
      /\ UNCHANGED <<call, alert, fault, ws, named, held, sock, closed, join, member, texts,
                     failed, looper, room, role, errors, ui, posts, wire>>
  BY DEF LocalDescription, wsVars, netVars, looperVars
<1> HIDE DEF m
<1>4. said' = Append(said, m) /\ PostTask(Do(m))
  BY <1>3 DEF Say
<1> QED BY <1>1, <1>2, <1>3, <1>4, SaidKeeps

LEMMA IceKeeps == ASSUME Inv, IceChange PROVE Inv'
<1>1. pc = "described" /\ pc' = "described" /\ Len(said) <= MaxIce
  BY DEF IceChange
<1>2. "ice" \in Sayings /\ "ice" # "offer"
  BY DEF Sayings
<1>3. UNCHANGED <<call, alert, fault, ws, named, held, sock, closed, join, member, texts,
                  failed, looper, room, role, errors, ui, posts, wire>>
  BY DEF IceChange, wsVars, netVars, looperVars
<1>4. said' = Append(said, "ice") /\ PostTask(Do("ice"))
  BY DEF IceChange, Say
<1> QED BY <1>1, <1>2, <1>3, <1>4, SaidKeeps

\* A runnable of the UI thread that posts nothing.
LEMMA UiKeeps ==
  ASSUME Inv, ui # <<>>, Head(ui) \notin {"close", "error"}, Types',
         UNCHANGED <<call, alert, said, ws, named, held, sock, closed, join, member, texts,
                     looper, room, role, errors, tasks, posts, wire>>,
         failed \subseteq failed', failed' = {} => ~Hears(ui', "error"),
         Entered', pc' = "described" <=> pc = "described"
  PROVE  Inv'
<1>1. /\ Types /\ Early /\ Connection /\ RoomState /\ Failures
      /\ LeftBehind /\ Entered /\ Asked /\ Framing /\ Flow
  BY DEF Inv
<1>2. role # "unknown"
  <2>1. Hears(ui, Head(ui))
    BY <1>1, UiTail DEF Types
  <2> QED BY <1>1, <2>1 DEF Early
<1>3. Early'
  BY <1>1, <1>2, EarlyLate
<1>4. Connection' /\ RoomState' /\ Framing'
  BY <1>1 DEF Connection, RoomState, Framing
<1>5. LeftBehind' /\ Asked'
  BY <1>1 DEF LeftBehind, Asked
<1>6. Failures'
  BY <1>1 DEF Failures
<1>7. Flow'
  <2>1. posts \in [Requests -> Nat] /\ said \in Seq(Sayings) /\ posts["offer"] \in Nat /\ posts["ice"] \in Nat
    BY <1>1 DEF Types, Requests
  <2> QED BY <1>1, <2>1, FlowWalk
<1> QED BY <1>3, <1>4, <1>5, <1>6, <1>7 DEF Inv

LEMMA UiRuns == ASSUME Inv, RunOnUiThread PROVE Inv'
<1>1. /\ Types /\ Early /\ Connection /\ RoomState /\ Failures
      /\ LeftBehind /\ Entered /\ Asked /\ Framing /\ Flow
  BY DEF Inv
<1>2. /\ ui # <<>> /\ ui \in Seq(Events)
      /\ UNCHANGED <<said, ws, named, held, sock, closed, join, member, texts,
                     looper, room, role, errors, posts, wire>>
  BY <1>1 DEF RunOnUiThread, Types, wsVars, looperVars
<1> DEFINE e == Head(ui)
           u == Tail(ui)
<1>3. /\ u \in Seq(Events) /\ e \in Events
      /\ \A x : Hears(ui, x) <=> (Hears(u, x) \/ e = x)
      /\ OneRoom(ui) => OneRoom(u) /\ (e \in {"room", "roomOffer"} => ~InRoom(u))
      /\ RoomFirst(ui) => /\ e \notin {"description", "ice"}
                          /\ e \notin {"room", "roomOffer"} => RoomFirst(u)
  BY <1>2, UiTail
<1>4. \/ e = "description" /\ RemoteDescription /\ UNCHANGED <<call, alert, fault, tasks>>
      \/ /\ e # "description" /\ ui' = u /\ UNCHANGED failed
         /\ \/ e \in {"room", "roomOffer"} /\ EnterRoom(e = "roomOffer") /\ UNCHANGED <<call, alert, tasks>>
            \/ e = "ice" /\ UNCHANGED <<call, pc, alert, fault, tasks>>
            \/ e = "close" /\ Leave /\ UNCHANGED <<pc, alert, fault>>
            \/ /\ e = "error" /\ alert' = (alert \/ call = "calling")
               /\ UNCHANGED <<call, pc, fault, tasks>>
  BY DEF RunOnUiThread
<1>5. e = Head(ui) /\ u = Tail(ui)
  OBVIOUS
<1> HIDE DEF e, u
<1>6. InRoom(u) => InRoom(ui)
  BY <1>3 DEF InRoom
<1>7. CASE e = "description"
  <2>1. UNCHANGED <<call, alert, fault, tasks>> /\ RemoteDescription
    BY <1>4, <1>7
  <2>2. Hears(ui, "description") /\ OneRoom(u) /\ (pc # "none" \/ fault) /\ ~RoomFirst(ui)
    BY <1>1, <1>3, <1>7 DEF Entered
  <2>3. \/ ui' = u /\ UNCHANGED <<pc, failed>>
        \/ pc = "made" /\ pc' = "describing" /\ ui' = u /\ UNCHANGED failed
        \/ ui' = Append(u, "error") /\ failed' = failed \cup {"text"} /\ UNCHANGED pc
    BY <1>5, <2>1 DEF RemoteDescription
  <2>4. "error" \in Events /\ Append(u, "error") \in Seq(Events)
        /\ \A x : Hears(Append(u, "error"), x) <=> (Hears(u, x) \/ x = "error")
    <3>1. "error" \in Events
      BY DEF Events
    <3> QED BY <1>3, <3>1, UiAppend
  <2>5. OneRoom(Append(u, "error"))
    BY <1>3, <2>2, <2>4, UiAppend
  <2>6. ui' \in Seq(Events) /\ OneRoom(ui') /\ (InRoom(ui') => InRoom(ui))
        /\ (Hears(ui', "error") => Hears(ui, "error") \/ failed' # {})
    BY <1>3, <1>6, <2>2, <2>3, <2>4, <2>5 DEF InRoom
  <2>7. failed \subseteq failed' /\ failed' \subseteq Requests \cup {"join", "socket", "text"}
    BY <1>1, <2>3 DEF Types
  <2>8. pc' \in {"none", "made", "describing", "described"} /\ (pc' # "none" <=> pc # "none")
        /\ (pc' = "described" <=> pc = "described")
    BY <1>1, <2>3 DEF Types
  <2>9. Types'
    <3>1. call \in {"idle", "calling", "left"} /\ alert \in BOOLEAN /\ fault \in BOOLEAN
      BY <1>1 DEF Types
    <3>2. call' \in {"idle", "calling", "left"} /\ alert' \in BOOLEAN /\ fault' \in BOOLEAN
          /\ tasks' \in Seq(Task)
      BY <1>1, <2>1, <3>1 DEF Types
    <3> QED BY <1>1, <1>2, <2>6, <2>7, <2>8, <3>2 DEF Types
  <2>10. Entered'
    BY <1>1, <1>2, <2>1, <2>2, <2>6, <2>8 DEF Entered
  <2>11. failed' = {} => ~Hears(ui', "error")
    BY <1>1, <2>6, <2>7 DEF Failures
  <2> QED BY <1>2, <1>5, <1>7, <2>1, <2>7, <2>8, <2>9, <2>10, <2>11, UiKeeps
<1>8. CASE e \in {"room", "roomOffer"}
  <2>1. UNCHANGED <<call, alert, tasks, failed>> /\ ui' = u /\ EnterRoom(e = "roomOffer")
    BY <1>4, <1>8
  <2>2. role # "unknown" /\ pc = "none" /\ OneRoom(u) /\ ~InRoom(u)
    <3>1. InRoom(ui)
      BY <1>3, <1>8 DEF InRoom
    <3> QED BY <1>1, <1>3, <1>8, <3>1 DEF Entered
  <2>3. \/ fault' = TRUE /\ UNCHANGED pc
        \/ pc' \in {"describing", "made"} /\ UNCHANGED fault
    BY <2>1 DEF EnterRoom
  <2>4. Types'
    <3>1. call' \in {"idle", "calling", "left"} /\ tasks' \in Seq(Task)
      BY <1>1, <2>1 DEF Types
    <3>2. alert' \in BOOLEAN
      BY <1>1, <2>1 DEF Types
    <3>3. fault' \in BOOLEAN
      BY <1>1, <2>3 DEF Types
    <3>4. pc' \in {"none", "made", "describing", "described"}
      BY <2>2, <2>3
    <3>5. ui' \in Seq(Events) /\ failed' \subseteq Requests \cup {"join", "socket", "text"}
      BY <1>1, <1>3, <2>1 DEF Types
    <3> QED BY <1>1, <1>2, <3>1, <3>2, <3>3, <3>4, <3>5 DEF Types
  <2>5. Entered'
    BY <1>2, <2>1, <2>2, <2>3 DEF Entered
  <2>6. failed' = {} => ~Hears(ui', "error")
    BY <1>1, <1>3, <2>1 DEF Failures
  <2>7. pc' # "described" /\ pc # "described"
    BY <2>2, <2>3
  <2>8. Head(ui) \notin {"close", "error"}
    BY <1>5, <1>8
  <2> QED BY <1>2, <2>1, <2>4, <2>5, <2>6, <2>7, <2>8, UiKeeps
<1>9. CASE e = "ice"
  <2>1. UNCHANGED <<call, pc, alert, fault, tasks, failed>> /\ ui' = u
    BY <1>4, <1>9
  <2>2. OneRoom(u) /\ (pc # "none" \/ fault)
    BY <1>1, <1>3, <1>9 DEF Entered
  <2>3. Types'
    BY <1>1, <1>2, <1>3, <2>1 DEF Types
  <2>4. Entered'
    BY <1>1, <1>2, <1>6, <2>1, <2>2 DEF Entered
  <2>5. failed' = {} => ~Hears(ui', "error")
    BY <1>1, <1>3, <2>1 DEF Failures
  <2>6. Head(ui) \notin {"close", "error"}
    BY <1>5, <1>9
  <2> QED BY <1>2, <2>1, <2>3, <2>4, <2>5, <2>6, UiKeeps
<1>10. CASE e \in {"close", "error"}
  <2>1. /\ UNCHANGED <<pc, fault, failed>> /\ ui' = u
        /\ \/ e = "close" /\ Leave /\ UNCHANGED alert
           \/ e = "error" /\ UNCHANGED <<call, tasks>> /\ alert' = (alert \/ call = "calling")
    BY <1>4, <1>10
  <2>2. \/ UNCHANGED <<call, tasks>>
        \/ call = "calling" /\ call' = "left" /\ PostTask(Do("disconnect"))
    BY <2>1 DEF Leave
  <2>3. /\ tasks' \in Seq(Task)
        /\ \A do : Has(tasks', do) => Has(tasks, do) \/ do = "disconnect"
        /\ \A do : One(tasks, do) /\ do # "disconnect" => One(tasks', do)
        /\ OpenFirst(tasks) => OpenFirst(tasks')
        /\ \A r : NoneWrong(tasks, r) => NoneWrong(tasks', r)
        /\ \A p : Chosen(tasks, p) => Chosen(tasks', p)
    <3>1. "disconnect" \in Tasks /\ "disconnect" # "open" /\ "disconnect" \notin Sayings /\ tasks \in Seq(Task)
      BY <1>1 DEF Tasks, Sayings, Types
    <3>2. CASE UNCHANGED tasks
      BY <3>1, <3>2
    <3>3. CASE PostTask(Do("disconnect"))
      BY <3>1, <3>3, Posted
    <3> QED BY <2>2, <3>2, <3>3
  <2>4. alert' \in BOOLEAN /\ (alert' => alert \/ Hears(ui, "error"))
    <3>1. alert \in BOOLEAN
      BY <1>1 DEF Types
    <3>2. CASE e = "close"
      <4>1. alert' = alert
        BY <2>1, <3>2
      <4> QED BY <3>1, <4>1
    <3>3. CASE e = "error"
      <4>1. alert' = (alert \/ call = "calling")
        BY <2>1, <3>3
      <4>2. Hears(ui, "error")
        BY <1>3, <3>3
      <4> QED BY <4>1, <4>2
    <3> QED BY <1>10, <3>2, <3>3
  <2>5. call' \in {"idle", "calling", "left"} /\ (call' = "idle" <=> call = "idle")
    BY <1>1, <2>2 DEF Types
  <2>6. Types'
    BY <1>1, <1>2, <1>3, <2>1, <2>3, <2>4, <2>5 DEF Types
  <2>7. Early'
    BY <1>1, <1>2, <1>3, <2>1, <2>3, <2>4, <2>5 DEF Early
  <2>8. Connection'
    BY <1>1, <1>2, <2>3 DEF Connection
  <2>9. RoomState' /\ LeftBehind' /\ Framing'
    BY <1>1, <1>2, <2>1 DEF RoomState, LeftBehind, Framing
  <2>10. Failures'
    BY <1>1, <1>2, <1>3, <2>1, <2>3, <2>4 DEF Failures
  <2>11. Entered'
    <3>1. OneRoom(u) /\ (RoomFirst(ui) => RoomFirst(u)) /\ (InRoom(u) <=> InRoom(ui))
      BY <1>1, <1>3, <1>10 DEF Entered, InRoom
    <3> QED BY <1>1, <1>2, <2>1, <3>1 DEF Entered
  <2>12. Asked'
    BY <1>1, <1>2, <2>1, <2>3 DEF Asked
  <2>13. Flow'
    <3>1. posts \in [Requests -> Nat] /\ said \in Seq(Sayings) /\ posts["offer"] \in Nat /\ posts["ice"] \in Nat
      BY <1>1 DEF Types, Requests
    <3> QED BY <1>1, <1>2, <2>3, <3>1, FlowWalk
  <2> QED BY <2>6, <2>7, <2>8, <2>9, <2>10, <2>11, <2>12, <2>13 DEF Inv
<1> QED BY <1>3, <1>7, <1>8, <1>9, <1>10 DEF Events

-----------------------------------------------------------------------------
(* Requests, servers, network and the WebSocket library.                    *)

LEMMA EnterKeeps == ASSUME Inv, Enter PROVE Inv'
<1>1. /\ Types /\ Early /\ Connection /\ RoomState /\ Failures
      /\ LeftBehind /\ Entered /\ Asked /\ Framing /\ Flow
  BY DEF Inv
<1>2. /\ join = "sent" /\ join' = "entered" /\ member' = TRUE
      /\ UNCHANGED <<call, pc, alert, said, fault, ws, named, held, looper, room, role, errors,
                     sock, closed, texts, failed, ui, tasks, posts, wire>>
  BY DEF Enter, uiVars, wsVars, looperVars
<1>3. role = "unknown"
  BY <1>1, <1>2 DEF Early
<1>4. Types'
  BY <1>1, <1>2 DEF Types
<1>5. Early'
  BY <1>1, <1>2 DEF Early
<1>6. Connection' /\ RoomState' /\ Entered' /\ Framing'
  BY <1>1, <1>2 DEF Connection, RoomState, Entered, Framing
<1>7. Failures' /\ Asked'
  BY <1>1, <1>2 DEF Failures, Asked
<1>8. LeftBehind'
  BY <1>1, <1>2, <1>3 DEF LeftBehind
<1>9. Flow'
  <2>1. posts \in [Requests -> Nat] /\ said \in Seq(Sayings) /\ posts["offer"] \in Nat /\ posts["ice"] \in Nat
    BY <1>1 DEF Types, Requests
  <2> QED BY <1>1, <1>2, <2>1, FlowWalk
<1> QED BY <1>4, <1>5, <1>6, <1>7, <1>8, <1>9 DEF Inv

LEMMA AnsweredKeeps == ASSUME Inv, JoinAnswered PROVE Inv'
<1>1. /\ Types /\ Early /\ Connection /\ RoomState /\ Failures
      /\ LeftBehind /\ Entered /\ Asked /\ Framing /\ Flow
  BY DEF Inv
<1>2. /\ join = "entered" /\ join' = "answered"
      /\ UNCHANGED <<call, pc, alert, said, fault, ws, named, held, looper, room, role, errors,
                     sock, closed, member, texts, failed, ui, posts, wire>>
  BY DEF JoinAnswered, uiVars, wsVars, looperVars
<1>3. PICK r \in Ready : PostTask([do |-> "ready", params |-> r])
  BY DEF JoinAnswered
<1> DEFINE t == [do |-> "ready", params |-> r]
<1>4. t \in Task /\ t.do = "ready" /\ PostTask(t) /\ tasks \in Seq(Task)
  BY <1>1, <1>3 DEF Task, Types
<1> HIDE DEF t
<1>5. /\ tasks' \in Seq(Task)
      /\ \A do : Has(tasks', do) => Has(tasks, do) \/ do = "ready"
      /\ \A do : One(tasks, do) /\ (do = "ready" => ~Has(tasks, do)) => One(tasks', do)
      /\ OpenFirst(tasks) => OpenFirst(tasks')
      /\ \A x : NoneWrong(tasks, x) => NoneWrong(tasks', x)
      /\ \A p : Chosen(tasks, p) => Chosen(tasks', p)
  <2>1. "ready" \notin Sayings
    BY DEF Sayings
  <2>2. /\ tasks' \in Seq(Task)
        /\ \A do : Has(tasks', do) => Has(tasks, do) \/ do = t.do
        /\ \A do : One(tasks, do) /\ (do = t.do => ~Has(tasks, do)) => One(tasks', do)
        /\ OpenFirst(tasks) /\ (t.do = "open" => ~Has(tasks, "closed")) => OpenFirst(tasks')
        /\ \A x : NoneWrong(tasks, x) /\ (t.do = "text" => ~WrongTo(x, t.msg)) => NoneWrong(tasks', x)
        /\ \A p : Chosen(tasks, p) => Chosen(tasks', IF looper # "quit" /\ t.do \in Sayings
                                                    THEN Append(p, t.do) ELSE p)
    BY <1>4, TasksPosted
  <2> QED BY <1>4, <2>1, <2>2
<1>6. ~Has(tasks, "ready") /\ ~Has(tasks, "connect")
  BY <1>1, <1>2 DEF Early
<1>7. Types'
  BY <1>1, <1>2, <1>5 DEF Types
<1>8. Early'
  BY <1>1, <1>2, <1>5, <1>6 DEF Early
<1>9. Connection'
  BY <1>1, <1>2, <1>5 DEF Connection
<1>10. RoomState' /\ LeftBehind' /\ Entered' /\ Framing'
  BY <1>1, <1>2 DEF RoomState, LeftBehind, Entered, Framing
<1>11. Failures' /\ Asked'
  BY <1>1, <1>2, <1>5 DEF Failures, Asked
<1>12. Flow'
  <2>1. posts \in [Requests -> Nat] /\ said \in Seq(Sayings) /\ posts["offer"] \in Nat /\ posts["ice"] \in Nat
    BY <1>1 DEF Types, Requests
  <2> QED BY <1>1, <1>2, <1>5, <2>1, FlowWalk
<1> QED BY <1>7, <1>8, <1>9, <1>10, <1>11, <1>12 DEF Inv

LEMMA JoinFailsKeeps == ASSUME Inv, JoinFails PROVE Inv'
<1>1. /\ Types /\ Early /\ Connection /\ RoomState /\ Failures
      /\ LeftBehind /\ Entered /\ Asked /\ Framing /\ Flow
  BY DEF Inv
<1>2. /\ join \in {"sent", "entered"} /\ join' = "answered" /\ failed' = failed \cup {"join"}
      /\ PostTask(Do("roomError"))
      /\ UNCHANGED <<call, pc, alert, said, fault, ws, named, held, looper, room, role, errors,
                     sock, closed, member, texts, ui, posts, wire>>
  BY DEF JoinFails, uiVars, wsVars, looperVars
<1>3. /\ tasks' \in Seq(Task)
      /\ \A do : Has(tasks', do) => Has(tasks, do) \/ do = "roomError"
      /\ \A do : One(tasks, do) /\ (do = "roomError" => ~Has(tasks, do)) => One(tasks', do)
      /\ OpenFirst(tasks) => OpenFirst(tasks')
      /\ \A r : NoneWrong(tasks, r) => NoneWrong(tasks', r)
      /\ \A p : Chosen(tasks, p) => Chosen(tasks', p)
  <2>1. "roomError" \in Tasks /\ "roomError" \notin Sayings /\ tasks \in Seq(Task)
    BY <1>1 DEF Tasks, Sayings, Types
  <2> QED BY <1>2, <2>1, Posted
<1>4. ~Has(tasks, "ready") /\ ~Has(tasks, "connect") /\ failed' # {}
  BY <1>1, <1>2 DEF Early
<1>5. Types'
  BY <1>1, <1>2, <1>3 DEF Types
<1>6. Early'
  BY <1>1, <1>2, <1>3, <1>4 DEF Early
<1>7. Connection'
  BY <1>1, <1>2, <1>3 DEF Connection
<1>8. RoomState' /\ Entered' /\ Framing'
  BY <1>1, <1>2 DEF RoomState, Entered, Framing
<1>9. Failures' /\ LeftBehind'
  BY <1>1, <1>2, <1>4 DEF Failures, LeftBehind
<1>10. Asked'
  BY <1>1, <1>2, <1>3 DEF Asked
<1>11. Flow'
  <2>1. posts \in [Requests -> Nat] /\ said \in Seq(Sayings) /\ posts["offer"] \in Nat /\ posts["ice"] \in Nat
    BY <1>1 DEF Types, Requests
  <2> QED BY <1>1, <1>2, <1>3, <2>1, FlowWalk
<1> QED BY <1>5, <1>6, <1>7, <1>8, <1>9, <1>10, <1>11 DEF Inv

LEMMA RequestAnsweredKeeps == ASSUME Inv, NEW r \in Requests, RequestAnswered(r) PROVE Inv'
<1>1. /\ Types /\ Early /\ Connection /\ RoomState /\ Failures
      /\ LeftBehind /\ Entered /\ Asked /\ Framing /\ Flow
  BY DEF Inv
<1>2. /\ posts[r] > 0 /\ posts' = [posts EXCEPT ![r] = @ - 1] /\ member' = (member /\ r # "leave")
      /\ UNCHANGED <<call, pc, alert, said, fault, ws, named, held, looper, room, role, errors,
                     sock, closed, join, texts, failed, ui, tasks, wire>>
  BY DEF RequestAnswered, uiVars, wsVars, looperVars
<1>3. /\ posts' \in [Requests -> Nat] /\ \A q \in Requests \ {r} : posts'[q] = posts[q]
      /\ posts[r] \in Nat /\ posts'[r] = posts[r] - 1 /\ {"offer", "ice", "leave", "delete"} = Requests
  BY <1>1, <1>2 DEF Types, Requests
<1>4. role # "unknown"
  BY <1>1, <1>2, <1>3 DEF Early
<1>5. /\ posts["offer"] \in Nat /\ posts["ice"] \in Nat /\ posts["leave"] \in Nat /\ posts["delete"] \in Nat
      /\ posts'["offer"] <= posts["offer"] /\ posts'["ice"] <= posts["ice"]
      /\ posts'["leave"] \in Nat /\ posts'["delete"] \in Nat
      /\ posts'["leave"] <= posts["leave"] /\ posts'["delete"] <= posts["delete"]
  <2>1. "offer" \in Requests /\ "ice" \in Requests /\ "leave" \in Requests /\ "delete" \in Requests
    BY DEF Requests
  <2>2. ASSUME NEW q \in Requests PROVE posts[q] \in Nat /\ posts'[q] \in Nat /\ posts'[q] <= posts[q]
    <3>1. posts[q] \in Nat /\ posts'[q] \in Nat
      BY <1>1, <1>3 DEF Types
    <3>2. CASE q = r
      BY <1>3, <3>1, <3>2
    <3>3. CASE q # r
      BY <1>3, <3>1, <3>3
    <3> QED BY <3>1, <3>2, <3>3
  <2> QED BY <2>1, <2>2
<1>6. member' \in BOOLEAN /\ (member' => member /\ r # "leave")
  BY <1>2
<1>7. Types'
  BY <1>1, <1>2, <1>3, <1>6 DEF Types
<1>8. Early'
  BY <1>1, <1>2, <1>4, EarlyLate
<1>9. Connection' /\ RoomState' /\ Entered' /\ Framing'
  BY <1>1, <1>2, <1>4 DEF Connection, RoomState, Entered, Framing
<1>10. Failures'
  BY <1>1, <1>2 DEF Failures
<1>11. LeftBehind'
  <2>1. member' => posts'["leave"] = posts["leave"]
    BY <1>3, <1>6 DEF Requests
  <2> QED BY <1>1, <1>2, <1>6, <2>1 DEF LeftBehind
<1>12. Asked'
  BY <1>1, <1>2, <1>5 DEF Asked
<1>13. Flow'
  <2>1. posts \in [Requests -> Nat] /\ said \in Seq(Sayings) /\ posts["offer"] \in Nat /\ posts["ice"] \in Nat
    BY <1>1 DEF Types, Requests
  <2> QED BY <1>1, <1>2, <1>3, <1>5, <2>1, FlowWalk
<1> QED BY <1>7, <1>8, <1>9, <1>10, <1>11, <1>12, <1>13 DEF Inv

LEMMA RequestFailsKeeps == ASSUME Inv, NEW r \in Requests, RequestFails(r) PROVE Inv'
<1>1. /\ Types /\ Early /\ Connection /\ RoomState /\ Failures
      /\ LeftBehind /\ Entered /\ Asked /\ Framing /\ Flow
  BY DEF Inv
<1> DEFINE t == IF r = "delete" THEN "wsError" ELSE "roomError"
<1>2. /\ posts[r] > 0 /\ posts' = [posts EXCEPT ![r] = @ - 1] /\ failed' = failed \cup {r}
      /\ PostTask(Do(t))
      /\ UNCHANGED <<call, pc, alert, said, fault, ws, named, held, looper, room, role, errors,
                     sock, closed, join, member, texts, ui, wire>>
  BY DEF RequestFails, uiVars, wsVars, looperVars
<1>3. /\ posts' \in [Requests -> Nat] /\ \A q \in Requests \ {r} : posts'[q] = posts[q]
      /\ posts[r] \in Nat /\ posts'[r] = posts[r] - 1 /\ {"offer", "ice", "leave", "delete"} = Requests
  BY <1>1, <1>2 DEF Types, Requests
<1>4. role # "unknown"
  BY <1>1, <1>2, <1>3 DEF Early
<1>5. /\ posts["offer"] \in Nat /\ posts["ice"] \in Nat /\ posts["leave"] \in Nat /\ posts["delete"] \in Nat
      /\ posts'["offer"] <= posts["offer"] /\ posts'["ice"] <= posts["ice"]
      /\ posts'["leave"] \in Nat /\ posts'["delete"] \in Nat
      /\ posts'["leave"] <= posts["leave"] /\ posts'["delete"] <= posts["delete"]
  <2>1. "offer" \in Requests /\ "ice" \in Requests /\ "leave" \in Requests /\ "delete" \in Requests
    BY DEF Requests
  <2>2. ASSUME NEW q \in Requests PROVE posts[q] \in Nat /\ posts'[q] \in Nat /\ posts'[q] <= posts[q]
    <3>1. posts[q] \in Nat /\ posts'[q] \in Nat
      BY <1>1, <1>3 DEF Types
    <3>2. CASE q = r
      BY <1>3, <3>1, <3>2
    <3>3. CASE q # r
      BY <1>3, <3>1, <3>3
    <3> QED BY <3>1, <3>2, <3>3
  <2> QED BY <2>1, <2>2
<1>6. t \in {"wsError", "roomError"} /\ (t = "wsError" => r = "delete")
  OBVIOUS
<1> HIDE DEF t
<1>7. /\ tasks' \in Seq(Task)
      /\ \A do : Has(tasks', do) => Has(tasks, do) \/ do = t
      /\ \A do : One(tasks, do) /\ (do = t => ~Has(tasks, do)) => One(tasks', do)
      /\ OpenFirst(tasks) => OpenFirst(tasks')
      /\ \A x : NoneWrong(tasks, x) => NoneWrong(tasks', x)
      /\ \A p : Chosen(tasks, p) => Chosen(tasks', p)
  <2>1. t \in Tasks /\ t # "open" /\ t \notin Sayings /\ tasks \in Seq(Task)
    BY <1>1, <1>6 DEF Tasks, Sayings, Types
  <2> QED BY <1>2, <2>1, Posted
<1>8. failed' # {} /\ failed \subseteq failed' /\ r \in failed'
      /\ failed' \subseteq Requests \cup {"join", "socket", "text"}
  BY <1>1, <1>2 DEF Types
<1>9. Types'
  BY <1>1, <1>2, <1>3, <1>7, <1>8 DEF Types
<1>10. Early'
  BY <1>1, <1>2, <1>4, <1>6, <1>7, EarlyLate
<1>11. Connection'
  <2>1. t = "wsError" => looper # "running"
    BY <1>1, <1>2, <1>6 DEF Asked
  <2> QED BY <1>1, <1>2, <1>6, <1>7, <2>1 DEF Connection
<1>12. RoomState' /\ Entered' /\ Framing'
  BY <1>1, <1>2, <1>4 DEF RoomState, Entered, Framing
<1>13. Failures'
  BY <1>8 DEF Failures
<1>14. LeftBehind'
  <2>1. r = "leave" => "leave" \in failed'
    BY <1>8
  <2>2. r # "leave" => posts'["leave"] = posts["leave"]
    BY <1>3 DEF Requests
  <2> QED BY <1>1, <1>2, <1>8, <2>1, <2>2 DEF LeftBehind
<1>15. Asked'
  BY <1>1, <1>2, <1>5, <1>6, <1>7 DEF Asked
<1>16. Flow'
  <2>1. posts \in [Requests -> Nat] /\ said \in Seq(Sayings) /\ posts["offer"] \in Nat /\ posts["ice"] \in Nat
    BY <1>1 DEF Types, Requests
  <2> QED BY <1>1, <1>2, <1>3, <1>5, <1>7, <2>1, FlowWalk
<1> QED BY <1>9, <1>10, <1>11, <1>12, <1>13, <1>14, <1>15, <1>16 DEF Inv

LEMMA OpensKeeps == ASSUME Inv, SocketOpens PROVE Inv'
<1>1. /\ Types /\ Early /\ Connection /\ RoomState /\ Failures
      /\ LeftBehind /\ Entered /\ Asked /\ Framing /\ Flow
  BY DEF Inv
<1>2. /\ sock = "connecting" /\ sock' = "open" /\ PostTask(Do("open"))
      /\ UNCHANGED <<call, pc, alert, said, fault, ws, named, held, looper, room, role, errors,
                     closed, join, member, texts, failed, ui, posts, wire>>
  BY DEF SocketOpens, uiVars, wsVars, looperVars
<1>3. /\ tasks' \in Seq(Task)
      /\ \A do : Has(tasks', do) => Has(tasks, do) \/ do = "open"
      /\ \A do : One(tasks, do) /\ (do = "open" => ~Has(tasks, do)) => One(tasks', do)
      /\ OpenFirst(tasks) /\ ~Has(tasks, "closed") => OpenFirst(tasks')
      /\ \A r : NoneWrong(tasks, r) => NoneWrong(tasks', r)
      /\ \A p : Chosen(tasks, p) => Chosen(tasks', p)
  <2>1. "open" \in Tasks /\ "open" \notin Sayings /\ tasks \in Seq(Task)
    BY <1>1 DEF Tasks, Sayings, Types
  <2> QED BY <1>2, <2>1, Posted
<1>4. role # "unknown" /\ ~Has(tasks, "open") /\ ~Has(tasks, "closed")
  BY <1>1, <1>2 DEF Early, Connection
<1>5. Types'
  BY <1>1, <1>2, <1>3 DEF Types
<1>6. Early'
  BY <1>1, <1>2, <1>3, <1>4, EarlyLate
<1>7. Connection'
  BY <1>1, <1>2, <1>3, <1>4 DEF Connection
<1>8. RoomState' /\ Entered' /\ Framing' /\ LeftBehind'
  BY <1>1, <1>2, <1>4 DEF RoomState, Entered, Framing, LeftBehind
<1>9. Failures' /\ Asked'
  BY <1>1, <1>2, <1>3 DEF Failures, Asked
<1>10. Flow'
  <2>1. posts \in [Requests -> Nat] /\ said \in Seq(Sayings) /\ posts["offer"] \in Nat /\ posts["ice"] \in Nat
    BY <1>1 DEF Types, Requests
  <2>2. ws # "REGISTERED"
    BY <1>1, <1>2 DEF Connection
  <2> QED BY <1>1, <1>2, <1>3, <2>1, <2>2, FlowWalk
<1> QED BY <1>5, <1>6, <1>7, <1>8, <1>9, <1>10 DEF Inv

LEMMA ClosesKeeps == ASSUME Inv, SocketCloses PROVE Inv'
<1>1. /\ Types /\ Early /\ Connection /\ RoomState /\ Failures
      /\ LeftBehind /\ Entered /\ Asked /\ Framing /\ Flow
  BY DEF Inv
<1>2. /\ sock \in {"connecting", "open", "closing"} /\ sock' = "closed" /\ closed' = TRUE
      /\ PostTask(Do("closed"))
      /\ UNCHANGED <<call, pc, alert, said, fault, ws, named, held, looper, room, role, errors,
                     join, member, texts, failed, ui, posts, wire>>
  BY DEF SocketCloses, uiVars, wsVars, looperVars
<1>3. /\ tasks' \in Seq(Task)
      /\ \A do : Has(tasks', do) => Has(tasks, do) \/ do = "closed"
      /\ \A do : One(tasks, do) /\ (do = "closed" => ~Has(tasks, do)) => One(tasks', do)
      /\ OpenFirst(tasks) => OpenFirst(tasks')
      /\ \A r : NoneWrong(tasks, r) => NoneWrong(tasks', r)
      /\ \A p : Chosen(tasks, p) => Chosen(tasks', p)
  <2>1. "closed" \in Tasks /\ "closed" \notin Sayings /\ tasks \in Seq(Task)
    BY <1>1 DEF Tasks, Sayings, Types
  <2> QED BY <1>2, <2>1, Posted
<1>4. role # "unknown"
  BY <1>1, <1>2 DEF Early
<1>5. Types'
  BY <1>1, <1>2, <1>3 DEF Types
<1>6. Early'
  BY <1>1, <1>2, <1>3, <1>4, EarlyLate
<1>7. Connection'
  BY <1>1, <1>2, <1>3 DEF Connection
<1>8. RoomState' /\ Entered' /\ Framing' /\ LeftBehind'
  BY <1>1, <1>2, <1>4 DEF RoomState, Entered, Framing, LeftBehind
<1>9. Failures' /\ Asked'
  BY <1>1, <1>2, <1>3 DEF Failures, Asked
<1>10. Flow'
  <2>1. posts \in [Requests -> Nat] /\ said \in Seq(Sayings) /\ posts["offer"] \in Nat /\ posts["ice"] \in Nat
    BY <1>1 DEF Types, Requests
  <2> QED BY <1>1, <1>2, <1>3, <2>1, FlowWalk
<1> QED BY <1>5, <1>6, <1>7, <1>8, <1>9, <1>10 DEF Inv

LEMMA TextKeeps == ASSUME Inv, NEW m \in Texts, ServerText(m) PROVE Inv'
<1>1. /\ Types /\ Early /\ Connection /\ RoomState /\ Failures
      /\ LeftBehind /\ Entered /\ Asked /\ Framing /\ Flow
  BY DEF Inv
<1> DEFINE t == [do |-> "text", msg |-> m]
<1>2. /\ sock = "open" /\ texts < MaxTexts /\ texts' = texts + 1 /\ PostTask(t)
      /\ failed' = IF Wrong(m) THEN failed \cup {"text"} ELSE failed
      /\ UNCHANGED <<call, pc, alert, said, fault, ws, named, held, looper, room, role, errors,
                     sock, closed, join, member, ui, posts, wire>>
  BY DEF ServerText, uiVars, wsVars, looperVars
<1>3. t \in Task /\ t.do = "text" /\ t.msg = m /\ tasks \in Seq(Task)
  BY <1>1 DEF Task, Types
<1> HIDE DEF t
<1>4. /\ tasks' \in Seq(Task)
      /\ \A do : Has(tasks', do) => Has(tasks, do) \/ do = "text"
      /\ \A do : One(tasks, do) /\ do # "text" => One(tasks', do)
      /\ OpenFirst(tasks) => OpenFirst(tasks')
      /\ \A x : NoneWrong(tasks, x) /\ ~WrongTo(x, m) => NoneWrong(tasks', x)
      /\ \A p : Chosen(tasks, p) => Chosen(tasks', p)
  <2>1. "text" \notin Sayings
    BY DEF Sayings
  <2>2. /\ tasks' \in Seq(Task)
        /\ \A do : Has(tasks', do) => Has(tasks, do) \/ do = t.do
        /\ \A do : One(tasks, do) /\ (do = t.do => ~Has(tasks, do)) => One(tasks', do)
        /\ OpenFirst(tasks) /\ (t.do = "open" => ~Has(tasks, "closed")) => OpenFirst(tasks')
        /\ \A x : NoneWrong(tasks, x) /\ (t.do = "text" => ~WrongTo(x, t.msg)) => NoneWrong(tasks', x)
        /\ \A p : Chosen(tasks, p) => Chosen(tasks', IF looper # "quit" /\ t.do \in Sayings
                                                    THEN Append(p, t.do) ELSE p)
    BY <1>2, <1>3, TasksPosted
  <2> QED BY <1>3, <2>1, <2>2
<1>5. role # "unknown"
  BY <1>1, <1>2 DEF Early
<1>6. /\ failed \subseteq failed' /\ failed' \subseteq Requests \cup {"join", "socket", "text"}
      /\ failed' = {} => failed = {} /\ ~WrongTo(role, m)
  BY <1>1, <1>2 DEF Types, Wrong, WrongTo
<1>7. texts' \in 0..MaxTexts
  BY <1>1, <1>2, WebSocketAssumption DEF Types
<1>8. Types'
  BY <1>1, <1>2, <1>4, <1>6, <1>7 DEF Types
<1>9. Early'
  BY <1>1, <1>2, <1>4, <1>5, EarlyLate
<1>10. Connection'
  BY <1>1, <1>2, <1>4 DEF Connection
<1>11. RoomState' /\ Entered' /\ Framing'
  BY <1>1, <1>2, <1>5 DEF RoomState, Entered, Framing
<1>12. LeftBehind'
  BY <1>1, <1>2, <1>6 DEF LeftBehind
<1>13. Failures'
  BY <1>1, <1>2, <1>4, <1>6 DEF Failures
<1>14. Asked'
  BY <1>1, <1>2, <1>4 DEF Asked
<1>15. Flow'
  <2>1. posts \in [Requests -> Nat] /\ said \in Seq(Sayings) /\ posts["offer"] \in Nat /\ posts["ice"] \in Nat
    BY <1>1 DEF Types, Requests
  <2> QED BY <1>1, <1>2, <1>4, <2>1, FlowWalk
<1> QED BY <1>8, <1>9, <1>10, <1>11, <1>12, <1>13, <1>14, <1>15 DEF Inv

LEMMA WaitEndsKeeps == ASSUME Inv, WaitEnds PROVE Inv'
<1>1. /\ Types /\ Early /\ Connection /\ RoomState /\ Failures
      /\ LeftBehind /\ Entered /\ Asked /\ Framing /\ Flow
  BY DEF Inv
<1>2. /\ looper = "waiting" /\ looper' = "quit" /\ tasks' = <<>>
      /\ UNCHANGED <<call, pc, alert, said, fault, ws, named, held, room, role, errors,
                     sock, closed, join, member, texts, failed, ui, posts, wire>>
  BY DEF WaitEnds, uiVars, wsVars, netVars
<1>3. /\ tasks' \in Seq(Task) /\ \A do : ~Has(tasks', do) /\ One(tasks', do)
      /\ OpenFirst(tasks') /\ \A r : NoneWrong(tasks', r)
  BY <1>2, NoTasks
<1>4. Types'
  BY <1>1, <1>2, <1>3 DEF Types
<1>5. Early'
  BY <1>1, <1>2, <1>3 DEF Early
<1>6. Connection'
  BY <1>1, <1>2, <1>3 DEF Connection
<1>7. RoomState' /\ Entered' /\ Framing' /\ LeftBehind'
  BY <1>1, <1>2 DEF RoomState, Entered, Framing, LeftBehind
<1>8. Failures' /\ Asked'
  BY <1>1, <1>2, <1>3 DEF Failures, Asked
<1>9. Flow'
  <2>1. posts \in [Requests -> Nat] /\ said \in Seq(Sayings)
    BY <1>1 DEF Types
  <2>2. ~(looper' = "running" /\ ws' = "NEW") /\ ~(ws' = "REGISTERED" /\ sock' = "open")
    BY <1>1, <1>2 DEF Connection
  <2> QED BY <1>1, <1>2, <2>1, <2>2, FlowEnds
<1> QED BY <1>4, <1>5, <1>6, <1>7, <1>8, <1>9 DEF Inv

-----------------------------------------------------------------------------
(* The looper thread.                                                       *)

LEMMA ConnectKeeps ==
  ASSUME Inv, looper = "running", tasks # <<>>, Head(tasks).do = "connect", ConnectToRoom PROVE Inv'
<1>1. /\ Types /\ Early /\ Connection /\ RoomState /\ Failures
      /\ LeftBehind /\ Entered /\ Asked /\ Framing /\ Flow
  BY DEF Inv
<1>2. /\ Next1(<<>>) /\ room' = "NEW" /\ join' = "sent"
      /\ UNCHANGED <<call, pc, alert, said, fault, ws, named, held, looper, role, errors,
                     sock, closed, member, texts, failed, ui, posts, wire>>
  BY DEF ConnectToRoom, uiVars, wsVars
<1>3. /\ tasks' \in Seq(Task) /\ Has(tasks, "connect")
      /\ \A do : Has(tasks', do) => Has(tasks, do)
      /\ \A do : do \notin Errors /\ One(tasks, do) =>
                   One(tasks', do) /\ (do = "connect" => ~Has(tasks', do))
      /\ OpenFirst(tasks) => OpenFirst(tasks') /\ ("connect" = "closed" => ~Has(tasks', "open"))
      /\ \A r : NoneWrong(tasks, r) => NoneWrong(tasks', r)
      /\ \A p : Chosen(tasks, p) => Chosen(tasks', p)
  <2>1. tasks \in Seq(Task) /\ "connect" \notin Sayings
    BY <1>1 DEF Types, Sayings
  <2> QED BY <1>2, <2>1, TaskGone
<1>4. ~Has(tasks', "connect") /\ ~Has(tasks', "ready") /\ join = "none" /\ call # "idle"
      /\ role = "unknown" /\ errors = 0
  <2>1. One(tasks, "connect") /\ "connect" \notin Errors
    BY <1>1 DEF Early, Errors
  <2> QED BY <1>1, <1>3, <2>1 DEF Early
<1>5. One(tasks', "connect") /\ One(tasks', "ready") /\ One(tasks', "open")
  BY <1>1, <1>3 DEF Early, Connection, Errors
<1>6. Types'
  BY <1>1, <1>2, <1>3 DEF Types
<1>7. Early'
  BY <1>1, <1>2, <1>3, <1>4, <1>5 DEF Early
<1>8. Connection'
  BY <1>1, <1>2, <1>3, <1>5 DEF Connection
<1>9. RoomState' /\ LeftBehind' /\ Entered' /\ Framing'
  BY <1>1, <1>2, <1>4 DEF RoomState, LeftBehind, Entered, Framing
<1>10. Failures' /\ Asked'
  BY <1>1, <1>2, <1>3 DEF Failures, Asked
<1>11. Flow'
  <2>1. posts \in [Requests -> Nat] /\ said \in Seq(Sayings) /\ posts["offer"] \in Nat /\ posts["ice"] \in Nat
    BY <1>1 DEF Types, Requests
  <2> QED BY <1>1, <1>2, <1>3, <2>1, FlowWalk
<1> QED BY <1>6, <1>7, <1>8, <1>9, <1>10, <1>11 DEF Inv

LEMMA ReadyKeeps ==
  ASSUME Inv, looper = "running", tasks # <<>>, Head(tasks).do = "ready",
         NEW r \in Ready, SignalingParametersReady(r)
  PROVE  Inv'
<1>1. /\ Types /\ Early /\ Connection /\ RoomState /\ Failures
      /\ LeftBehind /\ Entered /\ Asked /\ Framing /\ Flow
  BY DEF Inv
<1> DEFINE e == IF r.offer THEN "roomOffer" ELSE "room"
<1>2. /\ role' = r.role /\ room' = "CONNECTED" /\ named' = TRUE /\ ui' = Append(ui, e)
      /\ UNCHANGED <<call, pc, alert, said, fault, ws, held, looper, errors,
                     closed, join, member, texts, posts, wire>>
      /\ IF ws = "NEW"
         THEN \/ sock' = "connecting" /\ Next1(<<>>) /\ UNCHANGED failed
              \/ Next1(<<Do("wsError")>>) /\ failed' = failed \cup {"socket"} /\ UNCHANGED sock
         ELSE Next1(<<>>) /\ UNCHANGED <<sock, failed>>
  BY DEF SignalingParametersReady, RoomConnected, SetNames, TellParameters, Tell, uiVars
<1>3. e \in {"room", "roomOffer"} /\ e \in Events /\ r.role \in {"initiator", "receiver"}
  BY DEF Events, Ready
<1> HIDE DEF e
<1>4. tasks \in Seq(Task) /\ Has(tasks, "ready") /\ "ready" \notin Sayings /\ "ready" \notin Errors
  <2>1. tasks \in Seq(Task)
    BY <1>1 DEF Types
  <2> QED BY <2>1, TasksTail DEF Sayings, Errors
<1>5. /\ role = "unknown" /\ errors = 0 /\ failed = {} /\ ui = <<>> /\ ~alert /\ ~fault
      /\ ~Has(tasks, "roomError") /\ join = "answered" /\ ~Has(tasks, "connect") /\ call # "idle"
  BY <1>1, <1>4 DEF Early
<1>6. /\ ws = "NEW" /\ held = <<>> /\ sock = "none" /\ said = <<>> /\ wire = <<>> /\ pc = "none"
      /\ posts = [q \in Requests |-> 0]
      /\ \A do : Has(tasks, do) => do \in {"connect", "ready", "roomError", "disconnect"}
  BY <1>1, <1>5 DEF Early
<1>7. \/ sock' = "connecting" /\ Next1(<<>>) /\ UNCHANGED failed
      \/ Next1(<<Do("wsError")>>) /\ failed' = failed \cup {"socket"} /\ UNCHANGED sock
  BY <1>2, <1>6
<1>8. /\ tasks' \in Seq(Task)
      /\ \A do : Has(tasks', do) => Has(tasks, do) \/ (do = "wsError" /\ failed' # {} /\ sock' = "none")
      /\ \A do : do \notin Errors /\ One(tasks, do) => One(tasks', do) /\ (do = "ready" => ~Has(tasks', do))
      /\ OpenFirst(tasks) => OpenFirst(tasks')
      /\ \A x : NoneWrong(tasks, x) => NoneWrong(tasks', x)
      /\ \A p : Chosen(tasks, p) => Chosen(tasks', p)
  <2>1. CASE Next1(<<>>)
    BY <1>4, <2>1, TaskGone
  <2>2. CASE Next1(<<Do("wsError")>>) /\ failed' = failed \cup {"socket"} /\ UNCHANGED sock
    <3>1. "wsError" \in Errors
      BY DEF Errors
    <3>2. failed' # {} /\ sock' = "none"
      BY <1>6, <2>2
    <3> QED BY <1>4, <2>2, <3>1, <3>2, TaskFails
  <2> QED BY <1>7, <2>1, <2>2
<1>9. /\ sock' \in {"none", "connecting"} /\ failed' \subseteq Requests \cup {"join", "socket", "text"}
      /\ sock' = "none" \/ ~Has(tasks', "wsError")
  BY <1>5, <1>6, <1>7, <1>8
<1>10. ~Has(tasks', "ready") /\ ~Has(tasks', "connect") /\ One(tasks', "open")
       /\ One(tasks', "connect") /\ One(tasks', "ready") /\ OpenFirst(tasks')
  BY <1>1, <1>4, <1>5, <1>8 DEF Early, Connection, Errors
<1>11. /\ ui' \in Seq(Events) /\ OneRoom(ui') /\ RoomFirst(ui') /\ InRoom(ui')
       /\ \A x : Hears(ui', x) => x \in {"room", "roomOffer"}
  <2>1. ui \in Seq(Events) /\ \A x : ~Hears(ui, x)
    BY <1>5 DEF Hears
  <2>2. OneRoom(ui) /\ RoomFirst(ui) /\ ~InRoom(ui)
    BY <1>5 DEF OneRoom, RoomFirst, InRoom, Hears
  <2>3. /\ Append(ui, e) \in Seq(Events)
        /\ \A x : Hears(Append(ui, e), x) <=> (Hears(ui, x) \/ x = e)
        /\ OneRoom(ui) /\ (e \in {"room", "roomOffer"} => ~InRoom(ui)) => OneRoom(Append(ui, e))
        /\ RoomFirst(ui) /\ (e \in {"description", "ice"} => InRoom(ui)) => RoomFirst(Append(ui, e))
    BY <1>3, <2>1, UiAppend
  <2>4. e \notin {"description", "ice"}
    BY <1>3
  <2> QED BY <1>2, <1>3, <2>1, <2>2, <2>3, <2>4 DEF InRoom
<1>12. Types'
  BY <1>1, <1>2, <1>3, <1>8, <1>9, <1>11 DEF Types
<1>13. Early'
  BY <1>2, <1>3, <1>5, <1>10 DEF Early
<1>14. Connection'
  BY <1>1, <1>2, <1>6, <1>8, <1>9, <1>10 DEF Connection
<1>15. RoomState' /\ LeftBehind'
  BY <1>2, <1>3, <1>5 DEF RoomState, LeftBehind
<1>16. Entered'
  BY <1>2, <1>3, <1>6, <1>11 DEF Entered
<1>17. Framing'
  BY <1>1, <1>2 DEF Framing
<1>18. Failures'
  <2>1. NoneWrong(tasks, role')
    BY <1>6 DEF Has, NoneWrong
  <2>2. NoneWrong(tasks', role')
    BY <1>8, <2>1
  <2>3. ~Has(tasks', "roomError") /\ (failed' = {} => ~Has(tasks', "wsError")) /\ ~Hears(ui', "error")
    BY <1>5, <1>6, <1>8, <1>11
  <2> QED BY <1>2, <1>5, <2>2, <2>3 DEF Failures
<1>19. Asked'
  <2>1. ~Has(tasks', "offer")
    BY <1>6, <1>8
  <2> QED BY <1>1, <1>2, <2>1 DEF Asked
<1>20. Flow'
  <2>1. PICK p : Chosen(tasks, p) /\ posts["offer"] + posts["ice"] + Len(p) <= Len(said)
    BY <1>1 DEF Flow
  <2>2. p \in Seq(Sayings) /\ Len(p) \in Nat /\ posts["offer"] = 0 /\ posts["ice"] = 0 /\ Len(said) = 0
    BY <1>6, <2>1 DEF Chosen, Requests
  <2>3. p = <<>>
    BY <2>1, <2>2, EmptySeq
  <2>4. Chosen(tasks', <<>>) /\ Len(<<>>) = 0
    BY <1>8, <2>1, <2>3
  <2>5. Joins(said, held, <<>>) /\ IsPrefix(SentOn(wire), said)
    <3>1. Joins(<<>>, <<>>, <<>>) /\ IsPrefix(<<>>, <<>>)
      BY DEF Joins, IsPrefix
    <3> QED BY <1>6, <3>1, NothingSent
  <2>6. ws' # "REGISTERED"
    BY <1>2, <1>6
  <2> QED BY <1>2, <1>6, <2>2, <2>4, <2>5, <2>6 DEF Flow
<1> QED BY <1>12, <1>13, <1>14, <1>15, <1>16, <1>17, <1>18, <1>19, <1>20 DEF Inv

LEMMA RoomErrorKeeps ==
  ASSUME Inv, looper = "running", tasks # <<>>, Head(tasks).do = "roomError", RoomError PROVE Inv'
<1>1. /\ Types /\ Early /\ Connection /\ RoomState /\ Failures
      /\ LeftBehind /\ Entered /\ Asked /\ Framing /\ Flow
  BY DEF Inv
<1>2. /\ Next1(<<>>)
      /\ \/ room # "ERROR" /\ room' = "ERROR" /\ errors' = errors + 1 /\ ui' = Append(ui, "error")
         \/ room = "ERROR" /\ UNCHANGED <<room, errors, ui>>
      /\ UNCHANGED <<call, pc, alert, said, fault, ws, named, held, looper, role,
                     sock, closed, join, member, texts, failed, posts, wire>>
  BY DEF RoomError, Tell, uiVars, wsVars, netVars
<1>3. /\ tasks' \in Seq(Task) /\ Has(tasks, "roomError")
      /\ \A do : Has(tasks', do) => Has(tasks, do)
      /\ \A do : do \notin Errors /\ One(tasks, do) =>
                   One(tasks', do) /\ (do = "roomError" => ~Has(tasks', do))
      /\ OpenFirst(tasks) => OpenFirst(tasks') /\ ("roomError" = "closed" => ~Has(tasks', "open"))
      /\ \A r : NoneWrong(tasks, r) => NoneWrong(tasks', r)
      /\ \A p : Chosen(tasks, p) => Chosen(tasks', p)
  <2>1. tasks \in Seq(Task) /\ "roomError" \notin Sayings
    BY <1>1 DEF Types, Sayings
  <2> QED BY <1>2, <2>1, TaskGone
<1>4. room' = "ERROR" /\ errors' = 1
  BY <1>1, <1>2 DEF RoomState, Types
<1>5. failed # {} /\ ~Has(tasks, "ready") /\ join = "answered"
  BY <1>1, <1>3 DEF Failures, Early
<1>6. /\ ui' \in Seq(Events) /\ (OneRoom(ui) => OneRoom(ui')) /\ (RoomFirst(ui) => RoomFirst(ui'))
      /\ (InRoom(ui') <=> InRoom(ui)) /\ \A x : Hears(ui', x) => Hears(ui, x) \/ x = "error"
  <2>1. ui \in Seq(Events) /\ "error" \in Events
    BY <1>1 DEF Types, Events
  <2>2. /\ Append(ui, "error") \in Seq(Events)
        /\ \A x : Hears(Append(ui, "error"), x) <=> (Hears(ui, x) \/ x = "error")
        /\ OneRoom(ui) => OneRoom(Append(ui, "error"))
        /\ RoomFirst(ui) => RoomFirst(Append(ui, "error"))
    BY <2>1, UiAppend
  <2>3. CASE ui' = Append(ui, "error")
    BY <2>2, <2>3 DEF InRoom
  <2>4. CASE UNCHANGED ui
    BY <2>1, <2>4 DEF InRoom
  <2> QED BY <1>2, <2>3, <2>4
<1>7. Types'
  BY <1>1, <1>2, <1>3, <1>4, <1>6 DEF Types
<1>8. One(tasks', "connect") /\ One(tasks', "ready") /\ One(tasks', "open")
  BY <1>1, <1>3 DEF Early, Connection, Errors
<1>9. Early'
  BY <1>1, <1>2, <1>3, <1>5, <1>6, <1>8 DEF Early
<1>10. Connection'
  BY <1>1, <1>2, <1>3, <1>8 DEF Connection
<1>11. RoomState' /\ LeftBehind' /\ Framing'
  BY <1>1, <1>2, <1>4 DEF RoomState, LeftBehind, Framing
<1>12. Entered'
  BY <1>1, <1>2, <1>6 DEF Entered
<1>13. Failures' /\ Asked'
  BY <1>1, <1>2, <1>3, <1>5 DEF Failures, Asked
<1>14. Flow'
  <2>1. posts \in [Requests -> Nat] /\ said \in Seq(Sayings) /\ posts["offer"] \in Nat /\ posts["ice"] \in Nat
    BY <1>1 DEF Types, Requests
  <2> QED BY <1>1, <1>2, <1>3, <2>1, FlowWalk
<1> QED BY <1>7, <1>9, <1>10, <1>11, <1>12, <1>13, <1>14 DEF Inv

LEMMA WsErrorKeeps ==
  ASSUME Inv, looper = "running", tasks # <<>>, Head(tasks).do = "wsError", WsError PROVE Inv'
<1>1. /\ Types /\ Early /\ Connection /\ RoomState /\ Failures
      /\ LeftBehind /\ Entered /\ Asked /\ Framing /\ Flow
  BY DEF Inv
<1>2. /\ ws' = "ERROR" /\ (Next1(<<>>) \/ Next1(<<Do("roomError")>>))
      /\ UNCHANGED <<call, pc, alert, said, fault, named, held, looper, room, role, errors, ui,
                     sock, closed, join, member, texts, failed, posts, wire>>
  BY DEF WsError, uiVars, netVars, looperVars
<1>3. tasks \in Seq(Task) /\ Has(tasks, "wsError") /\ "wsError" \notin Sayings
  <2>1. tasks \in Seq(Task)
    BY <1>1 DEF Types
  <2> QED BY <2>1, TasksTail DEF Sayings
<1>4. /\ tasks' \in Seq(Task)
      /\ \A do : Has(tasks', do) => Has(tasks, do) \/ do = "roomError"
      /\ \A do : do \notin Errors /\ One(tasks, do) => One(tasks', do)
      /\ OpenFirst(tasks) => OpenFirst(tasks')
      /\ \A p : Chosen(tasks, p) => Chosen(tasks', p)
  <2>1. CASE Next1(<<>>)
    BY <1>3, <2>1, TaskGone
  <2>2. CASE Next1(<<Do("roomError")>>)
    <3>1. "roomError" \in Errors
      BY DEF Errors
    <3> QED BY <1>3, <2>2, <3>1, TaskFails
  <2> QED BY <1>2, <2>1, <2>2
<1>5. role # "unknown" /\ sock = "none" /\ failed # {}
  BY <1>1, <1>3 DEF Early, Connection, Failures
<1>6. One(tasks', "open")
  BY <1>1, <1>4 DEF Connection, Errors
<1>7. Types'
  BY <1>1, <1>2, <1>4 DEF Types
<1>8. Early'
  BY <1>1, <1>2, <1>4, <1>5, EarlyLate
<1>9. Connection'
  BY <1>1, <1>2, <1>4, <1>5, <1>6 DEF Connection
<1>10. RoomState' /\ LeftBehind' /\ Framing' /\ Entered'
  BY <1>1, <1>2, <1>5 DEF RoomState, LeftBehind, Framing, Entered
<1>11. Failures' /\ Asked'
  BY <1>1, <1>2, <1>4, <1>5 DEF Failures, Asked
<1>12. Flow'
  <2>1. posts \in [Requests -> Nat] /\ said \in Seq(Sayings)
    BY <1>1 DEF Types
  <2>2. ~(looper' = "running" /\ ws' = "NEW") /\ ~(ws' = "REGISTERED" /\ sock' = "open")
    BY <1>2
  <2> QED BY <1>1, <1>2, <1>4, <2>1, <2>2, FlowEnds
<1> QED BY <1>7, <1>8, <1>9, <1>10, <1>11, <1>12 DEF Inv

\* A message of the initiator, or an offer, becomes a request.
LEMMA PostKeeps ==
  ASSUME Inv, looper = "running", tasks # <<>>, NEW m \in {"offer", "ice"}, Head(tasks).do = m,
         m = "ice" => role = "initiator", PostMessage(m)
  PROVE  Inv'
<1>1. /\ Types /\ Early /\ Connection /\ RoomState /\ Failures
      /\ LeftBehind /\ Entered /\ Asked /\ Framing /\ Flow
  BY DEF Inv
<1>2. /\ \/ room = "CONNECTED" /\ posts' = [posts EXCEPT ![m] = @ + 1] /\ Next1(<<>>)
         \/ room # "CONNECTED" /\ UNCHANGED posts /\ Next1(<<Do("roomError")>>)
      /\ UNCHANGED <<call, pc, alert, said, fault, ws, named, held, looper, room, role, errors, ui,
                     sock, closed, join, member, texts, failed, wire>>
  BY DEF PostMessage, Request, uiVars, wsVars, netVars, looperVars
<1>3. tasks \in Seq(Task) /\ Has(tasks, m) /\ m \in Sayings /\ m \in Requests
  <2>1. tasks \in Seq(Task)
    BY <1>1 DEF Types
  <2> QED BY <2>1, TasksTail DEF Sayings, Requests
<1>4. role = "initiator"
  BY <1>1, <1>3 DEF Asked
<1>5. /\ tasks' \in Seq(Task)
      /\ \A do : Has(tasks', do) => Has(tasks, do) \/ (do = "roomError" /\ room # "CONNECTED")
      /\ \A do : do \notin Errors /\ One(tasks, do) => One(tasks', do)
      /\ OpenFirst(tasks) => OpenFirst(tasks')
      /\ \A x : NoneWrong(tasks, x) => NoneWrong(tasks', x)
      /\ \A p : Chosen(tasks, p) => Chosen(tasks', Tail(p))
  <2>1. CASE Next1(<<>>)
    BY <1>3, <2>1, TaskGone
  <2>2. CASE Next1(<<Do("roomError")>>) /\ room # "CONNECTED"
    <3>1. "roomError" \in Errors
      BY DEF Errors
    <3> QED BY <1>3, <2>2, <3>1, TaskFails
  <2> QED BY <1>2, <2>1, <2>2
<1>6. failed = {} => room = "CONNECTED"
  BY <1>1, <1>4 DEF Failures, RoomState, Types
<1>7. /\ posts' \in [Requests -> Nat] /\ posts'["leave"] = posts["leave"] /\ posts'["delete"] = posts["delete"]
      /\ posts["offer"] \in Nat /\ posts["ice"] \in Nat
      /\ posts'["offer"] + posts'["ice"] <= posts["offer"] + posts["ice"] + 1
      /\ posts'["offer"] \in Nat /\ posts'["ice"] \in Nat
  <2>1. posts \in [Requests -> Nat] /\ Requests = {"offer", "ice", "leave", "delete"}
    BY <1>1 DEF Types, Requests
  <2>2. /\ posts["offer"] \in Nat /\ posts["ice"] \in Nat
    BY <2>1
  <2>3. CASE UNCHANGED posts
    BY <2>1, <2>2, <2>3
  <2>4. CASE posts' = [posts EXCEPT ![m] = @ + 1]
    <3>1. posts' \in [Requests -> Nat]
      BY <1>3, <2>1, <2>4
    <3>2. posts'["leave"] = posts["leave"] /\ posts'["delete"] = posts["delete"]
      BY <2>1, <2>4
    <3>3. m = "offer" => posts'["offer"] = posts["offer"] + 1 /\ posts'["ice"] = posts["ice"]
      BY <2>1, <2>4
    <3>4. m = "ice" => posts'["ice"] = posts["ice"] + 1 /\ posts'["offer"] = posts["offer"]
      BY <2>1, <2>4
    <3> QED BY <2>2, <3>1, <3>2, <3>3, <3>4
  <2> QED BY <1>2, <2>3, <2>4
<1>8. One(tasks', "open")
  BY <1>1, <1>5 DEF Connection, Errors
<1>9. Types'
  <2>1. UNCHANGED <<call, pc, alert, said, fault, ws, named, held, looper, room, role, errors, ui,
                    sock, closed, join, member, texts, failed, wire>>
    BY <1>2
  <2>2. tasks' \in Seq(Task) /\ posts' \in [Requests -> Nat]
    BY <1>5, <1>7
  <2> QED BY <1>1, <2>1, <2>2 DEF Types
<1>10. Early'
  BY <1>1, <1>2, <1>4, <1>5, EarlyLate
<1>11. Connection'
  BY <1>1, <1>2, <1>5, <1>8 DEF Connection
<1>12. RoomState' /\ LeftBehind' /\ Framing' /\ Entered'
  BY <1>1, <1>2, <1>4, <1>7 DEF RoomState, LeftBehind, Framing, Entered
<1>13. Failures'
  BY <1>1, <1>2, <1>5, <1>6 DEF Failures
<1>14. Asked'
  BY <1>1, <1>2, <1>4, <1>5, <1>7 DEF Asked
<1>15. Flow'
  <2>1. PICK p : Chosen(tasks, p) /\ posts["offer"] + posts["ice"] + Len(p) <= Len(said)
    BY <1>1 DEF Flow
  <2>2. p # <<>> /\ p \in Seq(Sayings)
    BY <1>3, <2>1, ChosenTail DEF Chosen
  <2>3. Len(p) \in Nat /\ Len(Tail(p)) = Len(p) - 1 /\ Len(p) > 0
    BY <2>2
  <2>4. said \in Seq(Sayings) /\ Len(said) \in Nat
    BY <1>1 DEF Types
  <2>5. posts'["offer"] + posts'["ice"] + Len(Tail(p)) <= Len(said')
    BY SMTT(30), <1>2, <1>7, <2>1, <2>3, <2>4
  <2>6. Chosen(tasks', Tail(p))
    BY <1>5, <2>1
  <2> QED BY <1>2, <1>4, <2>5, <2>6 DEF Flow
<1> QED BY <1>9, <1>10, <1>11, <1>12, <1>13, <1>14, <1>15 DEF Inv

\* A message for the WebSocket is held, sent or dropped.
LEMMA SendKeeps ==
  ASSUME Inv, looper = "running", tasks # <<>>, NEW m \in {"answer", "ice"}, Head(tasks).do = m, Send(m)
  PROVE  Inv'
<1>1. /\ Types /\ Early /\ Connection /\ RoomState /\ Failures
      /\ LeftBehind /\ Entered /\ Asked /\ Framing /\ Flow
  BY DEF Inv
<1>2. /\ Next1(<<>>)
      /\ UNCHANGED <<call, pc, alert, said, fault, ws, named, looper, room, role, errors, ui,
                     sock, closed, join, member, texts, failed, posts>>
  BY DEF Send, uiVars, netVars, looperVars
<1>3. \/ ws = "NEW" /\ held' = Append(held, m) /\ UNCHANGED wire
      \/ ws \in {"CLOSED", "ERROR"} /\ UNCHANGED <<held, wire>>
      \/ ws = "REGISTERED" /\ UNCHANGED held
         /\ IF sock = "open" THEN wire' = wire \o <<m>> ELSE UNCHANGED wire
  BY <1>1 DEF Send, Transmit, Types
<1>4. tasks \in Seq(Task) /\ Has(tasks, m) /\ m \in Sayings /\ m \in Heard
  <2>1. tasks \in Seq(Task)
    BY <1>1 DEF Types
  <2> QED BY <2>1, TasksTail DEF Sayings, Heard
<1>5. /\ tasks' \in Seq(Task)
      /\ \A do : Has(tasks', do) => Has(tasks, do)
      /\ \A do : do \notin Errors /\ One(tasks, do) => One(tasks', do)
      /\ OpenFirst(tasks) => OpenFirst(tasks')
      /\ \A x : NoneWrong(tasks, x) => NoneWrong(tasks', x)
      /\ \A p : Chosen(tasks, p) => Chosen(tasks', Tail(p))
  BY <1>2, <1>4, TaskGone
<1>6. role # "unknown"
  <2>1. m \notin {"connect", "ready", "roomError", "disconnect"}
    OBVIOUS
  <2> QED BY <1>1, <1>4, <2>1 DEF Early
<1>7. \/ UNCHANGED wire
      \/ /\ ws = "REGISTERED" /\ sock = "open" /\ ~Has(tasks, "open")
         /\ wire' \in Seq(Heard) /\ wire' # <<>> /\ Framed(wire') /\ NoBye(wire')
         /\ SentOn(wire') = Append(SentOn(wire), m)
  <2>1. CASE ws = "REGISTERED" /\ sock = "open" /\ wire' = wire \o <<m>>
    <3>1. wire \in Seq(Heard) /\ wire # <<>> /\ Framed(wire) /\ NoBye(wire) /\ ~Has(tasks, "open")
      BY <1>1, <2>1 DEF Types, Connection, Framing
    <3>2. wire' = Append(wire, m) /\ wire' # <<>>
      BY <1>4, <2>1, <3>1
    <3> QED BY <2>1, <3>1, <3>2, SentMore
  <2> QED BY <1>3, <2>1
<1>8. held' \in Seq({"answer", "ice"}) /\ wire' \in Seq(Heard)
  <2>1. held \in Seq({"answer", "ice"}) /\ wire \in Seq(Heard)
    BY <1>1 DEF Types
  <2>2. held' = held \/ held' = Append(held, m)
    BY <1>3
  <2>3. held' \in Seq({"answer", "ice"})
    BY <2>1, <2>2
  <2>4. wire' \in Seq(Heard)
    BY <1>7, <2>1
  <2> QED BY <2>3, <2>4
<1>9. One(tasks', "open")
  BY <1>1, <1>5 DEF Connection, Errors
<1>10. Types'
  BY <1>1, <1>2, <1>5, <1>8 DEF Types
<1>11. Early'
  BY <1>1, <1>2, <1>5, <1>6, EarlyLate
<1>12. Connection'
  BY <1>1, <1>2, <1>5, <1>7, <1>9 DEF Connection
<1>13. RoomState' /\ LeftBehind' /\ Entered'
  BY <1>1, <1>2, <1>6 DEF RoomState, LeftBehind, Entered
<1>14. Framing'
  BY <1>1, <1>2, <1>7 DEF Framing
<1>15. Failures' /\ Asked'
  BY <1>1, <1>2, <1>5 DEF Failures, Asked
<1>16. Flow'
  <2>1. PICK p :
          /\ Chosen(tasks, p)
          /\ posts["offer"] + posts["ice"] + Len(p) <= Len(said)
          /\ role = "receiver" =>
               /\ looper = "running" /\ ws = "NEW" => wire = <<>> /\ Joins(said, held, p)
               /\ ws = "REGISTERED" /\ sock = "open" => Joins(said, SentOn(wire), p)
               /\ IsPrefix(SentOn(wire), said)
    BY <1>1 DEF Flow
  <2>2. p # <<>> /\ p \in Seq(Sayings) /\ Head(p) = m
    BY <1>4, <2>1, ChosenTail DEF Chosen
  <2>3. Len(p) \in Nat /\ Len(Tail(p)) = Len(p) - 1 /\ Len(p) > 0 /\ Tail(p) \in Seq(Sayings)
    BY <2>2
  <2>4. said \in Seq(Sayings) /\ Len(said) \in Nat /\ posts["offer"] \in Nat /\ posts["ice"] \in Nat
    BY <1>1 DEF Types, Requests
  <2>5. posts'["offer"] + posts'["ice"] + Len(Tail(p)) <= Len(said')
    BY <1>2, <2>1, <2>3, <2>4
  <2>6. Chosen(tasks', Tail(p))
    BY <1>5, <2>1
  <2>7. ASSUME role = "receiver", ws = "NEW" PROVE wire' = <<>> /\ Joins(said', held', Tail(p))
    <3>1. wire = <<>> /\ Joins(said, held, p) /\ held' = Append(held, m) /\ UNCHANGED wire
      BY <1>3, <2>1, <2>7
    <3>2. held \in Seq(Sayings)
      BY <1>1, SeqMonotonic DEF Types, Sayings
    <3>3. Joins(said, Append(held, Head(p)), Tail(p))
      BY <2>2, <3>1, <3>2, ConcatMoves
    <3> QED BY <1>2, <2>2, <3>1, <3>3
  <2>8. ASSUME role = "receiver", ws = "REGISTERED", sock = "open"
        PROVE  Joins(said', SentOn(wire'), Tail(p)) /\ IsPrefix(SentOn(wire'), said')
    <3>1. Joins(said, SentOn(wire), p)
      BY <2>1, <2>8
    <3>2. SentOn(wire') = Append(SentOn(wire), m)
      <4>1. wire' # wire
        <5>1. wire \in Seq(Heard) /\ wire' = wire \o <<m>>
          BY <1>1, <1>3, <2>8 DEF Types
        <5>2. Len(wire') = Len(wire) + 1 /\ Len(wire) \in Nat
          BY <1>4, <5>1
        <5> QED BY <5>2
      <4> QED BY <1>7, <4>1
    <3>3. SentOn(wire) \in Seq(Heard \cup Sayings) /\ p \in Seq(Heard \cup Sayings)
      <4>1. SentOn(wire) \in Seq(Heard)
        BY <1>1, SentType DEF Types
      <4> QED BY <2>2, <4>1, SeqMonotonic
    <3>4. Joins(said, Append(SentOn(wire), Head(p)), Tail(p))
      BY <2>2, <3>1, <3>3, ConcatMoves
    <3>5. Joins(said, SentOn(wire'), Tail(p))
      BY <2>2, <3>2, <3>4
    <3>6. SentOn(wire') \in Seq(Heard \cup Sayings) /\ Tail(p) \in Seq(Heard \cup Sayings)
      <4>1. SentOn(wire') \in Seq(Heard)
        BY <1>8, SentType
      <4> QED BY <2>3, <4>1, SeqMonotonic
    <3>7. IsPrefix(SentOn(wire'), SentOn(wire') \o Tail(p))
      BY <3>6, PrefixOfConcat
    <3>8. said = SentOn(wire') \o Tail(p)
      BY <3>5 DEF Joins
    <3> QED BY <1>2, <3>5, <3>7, <3>8
  <2>9. role = "receiver" => IsPrefix(SentOn(wire'), said')
    <3>1. CASE UNCHANGED wire
      BY <1>2, <2>1, <3>1
    <3> QED BY <1>7, <2>8, <3>1
  <2> QED BY <1>2, <2>5, <2>6, <2>7, <2>8, <2>9 DEF Flow
<1> QED BY <1>10, <1>11, <1>12, <1>13, <1>14, <1>15, <1>16 DEF Inv

LEMMA RegisterKeeps ==
  ASSUME Inv, looper = "running", tasks # <<>>, Head(tasks).do = "open", Register PROVE Inv'
<1>1. /\ Types /\ Early /\ Connection /\ RoomState /\ Failures
      /\ LeftBehind /\ Entered /\ Asked /\ Framing /\ Flow
  BY DEF Inv
<1>2. /\ Next1(<<>>)
      /\ UNCHANGED <<call, pc, alert, said, fault, named, looper, room, role, errors, ui,
                     sock, closed, join, member, texts, failed, posts>>
  BY DEF Register, uiVars, netVars, looperVars
<1>3. /\ tasks' \in Seq(Task) /\ Has(tasks, "open")
      /\ \A do : Has(tasks', do) => Has(tasks, do)
      /\ \A do : do \notin Errors /\ One(tasks, do) =>
                   One(tasks', do) /\ (do = "open" => ~Has(tasks', do))
      /\ OpenFirst(tasks) => OpenFirst(tasks') /\ ("open" = "closed" => ~Has(tasks', "open"))
      /\ \A r : NoneWrong(tasks, r) => NoneWrong(tasks', r)
      /\ \A p : Chosen(tasks, p) => Chosen(tasks', p)
  <2>1. tasks \in Seq(Task) /\ "open" \notin Sayings
    BY <1>1 DEF Types, Sayings
  <2> QED BY <1>2, <2>1, TaskGone
<1>4. role # "unknown" /\ ws = "NEW" /\ wire = <<>> /\ sock \in {"open", "closing", "closed"}
  <2>1. role # "unknown"
    BY <1>1, <1>3 DEF Early
  <2> QED BY <1>1, <1>3, <2>1 DEF Connection
<1>5. /\ ws' = "REGISTERED" /\ held' = <<>>
      /\ wire' = IF sock = "open" THEN wire \o (<<"register">> \o held) ELSE wire
  BY <1>1, <1>4 DEF Register, Transmit, RoomState
<1>6. \/ sock # "open" /\ wire' = <<>>
      \/ /\ sock = "open" /\ wire' \in Seq(Heard) /\ wire' # <<>>
         /\ SentOn(wire') = held /\ Framed(wire') /\ NoBye(wire')
  <2>1. CASE sock = "open"
    <3>1. held \in Seq({"answer", "ice"})
      BY <1>1 DEF Types
    <3>2. <<"register">> \o held \in Seq(Heard)
      BY <3>1, SentRegister
    <3>3. wire' = <<"register">> \o held
      BY <1>4, <1>5, <2>1, <3>2
    <3> QED BY <2>1, <3>1, <3>3, SentRegister
  <2> QED BY <1>4, <1>5, <2>1
<1>7. ~Has(tasks', "open") /\ One(tasks', "open")
  BY <1>1, <1>3 DEF Connection, Errors
<1>8. wire' \in Seq(Heard) /\ held' \in Seq({"answer", "ice"})
  <2>1. wire' \in Seq(Heard)
    <3>1. <<>> \in Seq(Heard)
      OBVIOUS
    <3>2. wire' = <<>> \/ wire' \in Seq(Heard)
      BY <1>6
    <3> QED BY <3>1, <3>2
  <2>2. held' \in Seq({"answer", "ice"})
    BY <1>5
  <2> QED BY <2>1, <2>2
<1>9. Types'
  BY <1>1, <1>2, <1>3, <1>5, <1>8 DEF Types
<1>10. Early'
  BY <1>1, <1>2, <1>3, <1>4, EarlyLate
<1>11. Connection'
  BY <1>1, <1>2, <1>3, <1>4, <1>5, <1>6, <1>7 DEF Connection
<1>12. RoomState' /\ LeftBehind' /\ Entered'
  BY <1>1, <1>2, <1>4 DEF RoomState, LeftBehind, Entered
<1>13. Framing'
  BY <1>2, <1>6, NothingSent DEF Framing
<1>14. Failures' /\ Asked'
  BY <1>1, <1>2, <1>3 DEF Failures, Asked
<1>15. Flow'
  <2>1. PICK p :
          /\ Chosen(tasks, p)
          /\ posts["offer"] + posts["ice"] + Len(p) <= Len(said)
          /\ role = "receiver" => Joins(said, held, p) /\ IsPrefix(SentOn(wire), said)
    BY <1>1, <1>4 DEF Flow
  <2>2. posts'["offer"] + posts'["ice"] + Len(p) <= Len(said') /\ Chosen(tasks', p)
    BY <1>2, <1>3, <2>1
  <2>3. ASSUME role = "receiver", sock = "open"
        PROVE  Joins(said', SentOn(wire'), p) /\ IsPrefix(SentOn(wire'), said')
    <3>1. Joins(said, held, p) /\ SentOn(wire') = held
      BY <1>6, <2>1, <2>3
    <3>2. p \in Seq(Sayings) /\ held \in Seq(Sayings)
      BY <1>1, <2>1, SeqMonotonic DEF Chosen, Types, Sayings
    <3>3. IsPrefix(held, held \o p) /\ said = held \o p
      BY <3>1, <3>2, PrefixOfConcat DEF Joins
    <3> QED BY <1>2, <3>1, <3>3
  <2>4. role = "receiver" => IsPrefix(SentOn(wire'), said')
    <3>1. CASE sock # "open"
      <4>1. wire' = wire
        BY <1>4, <1>5, <3>1
      <4> QED BY <1>2, <2>1, <4>1
    <3> QED BY <2>3, <3>1
  <2> QED BY <1>2, <1>5, <2>2, <2>3, <2>4 DEF Flow
<1> QED BY <1>9, <1>10, <1>11, <1>12, <1>13, <1>14, <1>15 DEF Inv

LEMMA ClosedKeeps ==
  ASSUME Inv, looper = "running", tasks # <<>>, Head(tasks).do = "closed", WsClosed PROVE Inv'
<1>1. /\ Types /\ Early /\ Connection /\ RoomState /\ Failures
      /\ LeftBehind /\ Entered /\ Asked /\ Framing /\ Flow
  BY DEF Inv
<1>2. /\ Next1(<<>>) /\ ws' = "CLOSED" /\ (ui' = Append(ui, "close") \/ UNCHANGED ui)
      /\ UNCHANGED <<call, pc, alert, said, fault, named, held, looper, room, role, errors,
                     sock, closed, join, member, texts, failed, posts, wire>>
  BY DEF WsClosed, Tell, uiVars, netVars, looperVars
<1>3. /\ tasks' \in Seq(Task) /\ Has(tasks, "closed")
      /\ \A do : Has(tasks', do) => Has(tasks, do)
      /\ \A do : do \notin Errors /\ One(tasks, do) =>
                   One(tasks', do) /\ (do = "closed" => ~Has(tasks', do))
      /\ OpenFirst(tasks) => OpenFirst(tasks') /\ ("closed" = "closed" => ~Has(tasks', "open"))
      /\ \A r : NoneWrong(tasks, r) => NoneWrong(tasks', r)
      /\ \A p : Chosen(tasks, p) => Chosen(tasks', p)
  <2>1. tasks \in Seq(Task) /\ "closed" \notin Sayings
    BY <1>1 DEF Types, Sayings
  <2> QED BY <1>2, <2>1, TaskGone
<1>4. role # "unknown" /\ sock = "closed" /\ ~Has(tasks', "open")
  BY <1>1, <1>3 DEF Early, Connection
<1>5. /\ ui' \in Seq(Events) /\ (OneRoom(ui) => OneRoom(ui')) /\ (RoomFirst(ui) => RoomFirst(ui'))
      /\ (InRoom(ui') <=> InRoom(ui)) /\ (Hears(ui', "error") => Hears(ui, "error"))
  <2>1. ui \in Seq(Events) /\ "close" \in Events
    BY <1>1 DEF Types, Events
  <2>2. /\ Append(ui, "close") \in Seq(Events)
        /\ \A x : Hears(Append(ui, "close"), x) <=> (Hears(ui, x) \/ x = "close")
        /\ OneRoom(ui) => OneRoom(Append(ui, "close"))
        /\ RoomFirst(ui) => RoomFirst(Append(ui, "close"))
    BY <2>1, UiAppend
  <2>3. CASE ui' = Append(ui, "close")
    BY <2>2, <2>3 DEF InRoom
  <2>4. CASE UNCHANGED ui
    BY <2>1, <2>4 DEF InRoom
  <2> QED BY <1>2, <2>3, <2>4
<1>6. One(tasks', "open")
  BY <1>1, <1>3 DEF Connection, Errors
<1>7. Types'
  BY <1>1, <1>2, <1>3, <1>5 DEF Types
<1>8. Early'
  BY <1>1, <1>2, <1>3, <1>4, EarlyLate
<1>9. Connection'
  BY <1>1, <1>2, <1>3, <1>4, <1>6 DEF Connection
<1>10. RoomState' /\ LeftBehind' /\ Framing'
  BY <1>1, <1>2, <1>4 DEF RoomState, LeftBehind, Framing
<1>11. Entered'
  BY <1>1, <1>2, <1>5 DEF Entered
<1>12. Failures' /\ Asked'
  BY <1>1, <1>2, <1>3, <1>5 DEF Failures, Asked
<1>13. Flow'
  <2>1. posts \in [Requests -> Nat] /\ said \in Seq(Sayings)
    BY <1>1 DEF Types
  <2>2. ~(looper' = "running" /\ ws' = "NEW") /\ ~(ws' = "REGISTERED" /\ sock' = "open")
    BY <1>2
  <2> QED BY <1>1, <1>2, <1>3, <2>1, <2>2, FlowEnds
<1> QED BY <1>7, <1>8, <1>9, <1>10, <1>11, <1>12, <1>13 DEF Inv

LEMMA MessageKeeps ==
  ASSUME Inv, looper = "running", tasks # <<>>, Head(tasks).do = "text",
         NEW m \in Texts, Head(tasks).msg = m, WsMessage(m)
  PROVE  Inv'
<1>1. /\ Types /\ Early /\ Connection /\ RoomState /\ Failures
      /\ LeftBehind /\ Entered /\ Asked /\ Framing /\ Flow
  BY DEF Inv
<1>2. UNCHANGED <<call, pc, alert, said, fault, ws, named, held, looper, room, role, errors,
                  sock, closed, join, member, texts, failed, posts, wire>>
  BY DEF WsMessage, uiVars, wsVars, netVars, looperVars
<1>3. \/ Next1(<<>>) /\ (UNCHANGED ui \/ \E e \in {"description", "ice", "close"} : ui' = Append(ui, e))
      \/ Next1(<<Do("roomError")>>) /\ UNCHANGED ui /\ Wrong(m)
  <2>1. CASE ws # "REGISTERED"
    BY <2>1 DEF WsMessage
  <2>2. CASE ws = "REGISTERED" /\ Wrong(m)
    BY <2>2 DEF WsMessage
  <2>3. CASE ws = "REGISTERED" /\ ~Wrong(m)
    <3>1. Next1(<<>>) /\ m # "other"
      BY <2>3 DEF WsMessage, Wrong
    <3>2. m \in {"offer", "answer"} => ui' = Append(ui, "description")
      BY <2>3 DEF WsMessage, Tell
    <3>3. m = "ice" => ui' = Append(ui, "ice")
      BY <2>3 DEF WsMessage, Tell
    <3>4. m = "bye" => ui' = Append(ui, "close")
      BY <2>3 DEF WsMessage, Tell
    <3> QED BY <3>1, <3>2, <3>3, <3>4 DEF Texts
  <2> QED BY <2>1, <2>2, <2>3
<1>4. /\ tasks \in Seq(Task) /\ Has(tasks, "text") /\ "text" \notin Sayings
      /\ \A r : NoneWrong(tasks, r) => ~WrongTo(r, m)
  <2>1. tasks \in Seq(Task)
    BY <1>1 DEF Types
  <2> QED BY <2>1, TasksTail DEF Sayings
<1>5. role # "unknown"
  BY <1>1, <1>4 DEF Early
<1>6. /\ tasks' \in Seq(Task)
      /\ \A do : Has(tasks', do) => Has(tasks, do) \/ (do = "roomError" /\ Wrong(m))
      /\ \A do : do \notin Errors /\ One(tasks, do) => One(tasks', do)
      /\ OpenFirst(tasks) => OpenFirst(tasks')
      /\ \A r : NoneWrong(tasks, r) => NoneWrong(tasks', r)
      /\ \A p : Chosen(tasks, p) => Chosen(tasks', p)
  <2>1. CASE Next1(<<>>)
    BY <1>4, <2>1, TaskGone
  <2>2. CASE Next1(<<Do("roomError")>>) /\ Wrong(m)
    <3>1. "roomError" \in Errors
      BY DEF Errors
    <3> QED BY <1>4, <2>2, <3>1, TaskFails
  <2> QED BY <1>3, <2>1, <2>2
<1>7. failed = {} => ~Wrong(m)
  BY <1>1, <1>4 DEF Failures, Wrong, WrongTo
<1>8. /\ ui' \in Seq(Events) /\ (OneRoom(ui) => OneRoom(ui'))
      /\ (RoomFirst(ui) /\ InRoom(ui) => RoomFirst(ui'))
      /\ (InRoom(ui') <=> InRoom(ui)) /\ (Hears(ui', "error") => Hears(ui, "error"))
  <2>1. ui \in Seq(Events)
    BY <1>1 DEF Types
  <2>2. ASSUME NEW e \in {"description", "ice", "close"}, ui' = Append(ui, e)
        PROVE  /\ ui' \in Seq(Events) /\ (OneRoom(ui) => OneRoom(ui'))
               /\ (RoomFirst(ui) /\ InRoom(ui) => RoomFirst(ui'))
               /\ (InRoom(ui') <=> InRoom(ui)) /\ (Hears(ui', "error") => Hears(ui, "error"))
    <3>1. e \in Events /\ e \notin {"room", "roomOffer", "error"}
      BY DEF Events
    <3>2. /\ Append(ui, e) \in Seq(Events)
          /\ \A x : Hears(Append(ui, e), x) <=> (Hears(ui, x) \/ x = e)
          /\ OneRoom(ui) => OneRoom(Append(ui, e))
          /\ RoomFirst(ui) /\ InRoom(ui) => RoomFirst(Append(ui, e))
      BY <2>1, <3>1, UiAppend
    <3> QED BY <2>2, <3>1, <3>2 DEF InRoom
  <2>3. CASE UNCHANGED ui
    BY <2>1, <2>3 DEF InRoom
  <2> QED BY <1>3, <2>2, <2>3
<1>9. One(tasks', "open")
  BY <1>1, <1>6 DEF Connection, Errors
<1>10. Types'
  BY <1>1, <1>2, <1>6, <1>8 DEF Types
<1>11. Early'
  BY <1>1, <1>2, <1>5, <1>6, EarlyLate
<1>12. Connection'
  BY <1>1, <1>2, <1>6, <1>9 DEF Connection
<1>13. RoomState' /\ LeftBehind' /\ Framing'
  BY <1>1, <1>2, <1>5 DEF RoomState, LeftBehind, Framing
<1>14. Entered'
  BY <1>1, <1>2, <1>5, <1>8 DEF Entered
<1>15. Failures' /\ Asked'
  BY <1>1, <1>2, <1>6, <1>7, <1>8 DEF Failures, Asked
<1>16. Flow'
  <2>1. posts \in [Requests -> Nat] /\ said \in Seq(Sayings) /\ posts["offer"] \in Nat /\ posts["ice"] \in Nat
    BY <1>1 DEF Types, Requests
  <2> QED BY <1>1, <1>2, <1>6, <2>1, FlowWalk
<1> QED BY <1>10, <1>11, <1>12, <1>13, <1>14, <1>15, <1>16 DEF Inv

LEMMA DisconnectKeeps ==
  ASSUME Inv, looper = "running", tasks # <<>>, Head(tasks).do = "disconnect", DisconnectFromRoom PROVE Inv'
<1>1. /\ Types /\ Early /\ Connection /\ RoomState /\ Failures
      /\ LeftBehind /\ Entered /\ Asked /\ Framing /\ Flow
  BY DEF Inv
<1>2. /\ looper' \in {"waiting", "quit"} /\ room' = "CLOSED"
      /\ ws' = IF Closes THEN "CLOSED" ELSE ws
      /\ sock' = IF Closes /\ sock \in {"connecting", "open"} THEN "closing" ELSE sock
      /\ tasks' = <<>> \/ tasks' = Tail(tasks)
      /\ UNCHANGED <<call, pc, alert, said, fault, named, held, role, errors, ui,
                     closed, join, member, texts, failed>>
  BY DEF DisconnectFromRoom, uiVars
<1>3. /\ posts' = [posts EXCEPT !["leave"] = IF LeavesRoom THEN @ + 1 ELSE @,
                              !["delete"] = IF ws = "REGISTERED" THEN @ + 1 ELSE @]
      /\ wire' = IF ws = "REGISTERED" /\ sock = "open" THEN wire \o <<"bye">> ELSE wire
  BY DEF DisconnectFromRoom, Transmit
<1>4. tasks \in Seq(Task) /\ Has(tasks, "disconnect") /\ "disconnect" \notin Sayings
  <2>1. tasks \in Seq(Task)
    BY <1>1 DEF Types
  <2> QED BY <2>1, TasksTail DEF Sayings
<1>5. /\ tasks' \in Seq(Task)
      /\ \A do : Has(tasks', do) => Has(tasks, do)
      /\ \A do : One(tasks, do) => One(tasks', do)
      /\ OpenFirst(tasks) => OpenFirst(tasks')
      /\ \A r : NoneWrong(tasks, r) => NoneWrong(tasks', r)
      /\ tasks' = <<>> \/ \A p : Chosen(tasks, p) => Chosen(tasks', p)
  <2>1. CASE tasks' = <<>>
    BY <2>1, NoTasks
  <2>2. CASE tasks' = Tail(tasks)
    <3>1. /\ Tail(tasks) \in Seq(Task)
          /\ \A do : Has(Tail(tasks), do) => Has(tasks, do)
          /\ \A do : One(tasks, do) => One(Tail(tasks), do)
          /\ OpenFirst(tasks) => OpenFirst(Tail(tasks))
          /\ \A r : NoneWrong(tasks, r) => NoneWrong(Tail(tasks), r)
      BY <1>4, TasksTail
    <3>2. \A p : Chosen(tasks, p) => Chosen(Tail(tasks), p)
      BY <1>4, ChosenTail
    <3> DEFINE u == Tail(tasks)
    <3>3. tasks' = u
      BY <2>2
    <3>4. /\ u \in Seq(Task)
          /\ \A do : Has(u, do) => Has(tasks, do)
          /\ \A do : One(tasks, do) => One(u, do)
          /\ OpenFirst(tasks) => OpenFirst(u)
          /\ \A r : NoneWrong(tasks, r) => NoneWrong(u, r)
          /\ \A p : Chosen(tasks, p) => Chosen(u, p)
      BY <3>1, <3>2
    <3> HIDE DEF u
    <3> QED BY <3>3, <3>4
  <2> QED BY <1>2, <2>1, <2>2
<1>6. /\ posts' \in [Requests -> Nat] /\ posts'["offer"] = posts["offer"] /\ posts'["ice"] = posts["ice"]
      /\ posts'["leave"] = IF room = "CONNECTED" THEN 1 ELSE 0
      /\ posts'["delete"] = IF ws = "REGISTERED" THEN 1 ELSE 0
      /\ (room # "CONNECTED" /\ ws # "REGISTERED" => posts' = posts)
  <2>1. posts \in [Requests -> Nat] /\ Requests = {"offer", "ice", "leave", "delete"}
    BY <1>1 DEF Types, Requests
  <2>2. posts["leave"] = 0 /\ posts["delete"] = 0
    BY <1>1 DEF Asked
  <2> DEFINE a == IF room = "CONNECTED" THEN 1 ELSE 0
             b == IF ws = "REGISTERED" THEN 1 ELSE 0
  <2>3. posts' = [posts EXCEPT !["leave"] = a, !["delete"] = b]
    BY <1>3, <2>1, <2>2 DEF LeavesRoom
  <2>4. a \in Nat /\ b \in Nat
    OBVIOUS
  <2>5. room # "CONNECTED" /\ ws # "REGISTERED" => a = posts["leave"] /\ b = posts["delete"]
    BY <2>2
  <2> HIDE DEF a, b
  <2>6. posts' \in [Requests -> Nat]
    BY <2>1, <2>3, <2>4
  <2>7. /\ posts'["offer"] = posts["offer"] /\ posts'["ice"] = posts["ice"]
        /\ posts'["leave"] = a /\ posts'["delete"] = b
    BY <2>1, <2>3
  <2>8. ASSUME a = posts["leave"], b = posts["delete"] PROVE posts' = posts
    <3>1. \A r \in Requests : posts'[r] = posts[r]
      BY <2>1, <2>7, <2>8
    <3> QED BY <2>1, <2>6, <3>1
  <2> QED BY <2>5, <2>6, <2>7, <2>8 DEF a, b
<1>7. /\ ws' \in {"NEW", "CLOSED"} /\ (ws' = "NEW" <=> ws = "NEW")
      /\ sock' \in {"connecting", "open"} => ws' = "NEW" /\ sock' = sock
      /\ sock' = sock \/ (ws # "NEW" /\ sock \in {"connecting", "open"} /\ sock' = "closing")
  BY <1>1, <1>2 DEF Closes, Connection, Types
<1>8. \/ UNCHANGED wire
      \/ /\ ws = "REGISTERED" /\ sock = "open" /\ wire' \in Seq(Heard)
         /\ SentOn(wire') = SentOn(wire) /\ Framed(wire')
  <2>1. CASE ws = "REGISTERED" /\ sock = "open"
    <3>1. wire \in Seq(Heard) /\ wire # <<>> /\ Framed(wire) /\ NoBye(wire) /\ "bye" \in Heard
      BY <1>1, <2>1 DEF Types, Connection, Framing, Heard
    <3>2. wire' = Append(wire, "bye")
      BY <1>3, <2>1, <3>1
    <3> QED BY <2>1, <3>1, <3>2, SentBye
  <2> QED BY <1>3, <2>1
<1>9. Types'
  <2>1. wire' \in Seq(Heard)
    BY <1>1, <1>8 DEF Types
  <2>2. sock' \in {"none", "connecting", "open", "closing", "closed"}
    BY <1>1, <1>7 DEF Types
  <2>3. ws' \in {"NEW", "REGISTERED", "CLOSED", "ERROR"}
    BY <1>7
  <2> QED BY SMTT(30), <1>1, <1>2, <1>5, <1>6, <2>1, <2>2, <2>3 DEF Types
<1>10. Early'
  <2>1. One(tasks', "connect") /\ One(tasks', "ready")
    BY <1>1, <1>5 DEF Early
  <2>2. role = "unknown" => ws' = ws /\ sock' = sock /\ wire' = wire /\ posts' = posts
    <3>1. role = "unknown" => ws = "NEW" /\ sock = "none" /\ room # "CONNECTED"
      BY <1>1 DEF Early, RoomState
    <3> QED BY <1>6, <1>7, <1>8, <3>1
  <2> QED BY <1>1, <1>2, <1>5, <2>1, <2>2 DEF Early
<1>11. Connection'
  <2>1. Has(tasks, "open") => ws = "NEW" /\ sock' = sock /\ wire' = wire
    <3>1. Has(tasks, "open") => ws = "NEW"
      BY <1>1 DEF Connection
    <3> QED BY <1>7, <1>8, <3>1
  <2>2. sock = "closed" => sock' = "closed"
    BY <1>7
  <2>3. sock' \in {"none", "connecting"} => sock' = sock /\ wire' = wire
    BY <1>7, <1>8
  <2>4. looper' # "running" /\ ws' # "REGISTERED"
    BY <1>2, <1>7
  <2> QED BY <1>1, <1>5, <2>1, <2>2, <2>3, <2>4 DEF Connection
<1>12. RoomState'
  BY <1>1, <1>2 DEF RoomState
<1>13. LeftBehind'
  <2>1. role # "unknown" /\ errors = 0 => room = "CONNECTED"
    BY <1>1 DEF RoomState, Types
  <2>2. errors \in {0, 1}
    BY <1>1 DEF Types
  <2> QED BY <1>2, <1>6, <1>7, <2>1, <2>2 DEF LeftBehind
<1>14. Entered'
  BY <1>1, <1>2 DEF Entered
<1>15. Failures'
  BY <1>1, <1>2, <1>5 DEF Failures
<1>16. Asked'
  BY <1>1, <1>2, <1>5, <1>6 DEF Asked
<1>17. Framing'
  BY <1>1, <1>2, <1>8 DEF Framing
<1>18. Flow'
  <2>1. posts \in [Requests -> Nat] /\ said \in Seq(Sayings) /\ SentOn(wire') = SentOn(wire)
    BY <1>1, <1>8 DEF Types
  <2>2. ~(looper' = "running" /\ ws' = "NEW") /\ ~(ws' = "REGISTERED" /\ sock' = "open")
    BY <1>2, <1>7
  <2> QED BY <1>1, <1>2, <1>5, <1>6, <2>1, <2>2, FlowEnds
<1> QED BY <1>9, <1>10, <1>11, <1>12, <1>13, <1>14, <1>15, <1>16, <1>17, <1>18 DEF Inv

LEMMA TaskKeeps == ASSUME Inv, RunTask PROVE Inv'
<1> DEFINE t == Head(tasks)
<1>1. looper = "running" /\ tasks # <<>> /\ tasks \in Seq(Task)
  BY DEF RunTask, Inv, Types
<1>2. (CASE t.do = "connect" -> ConnectToRoom
        [] t.do = "ready" -> SignalingParametersReady(t.params)
        [] t.do \in {"offer", "answer", "ice"} -> SendMessage(t.do)
        [] t.do = "roomError" -> RoomError
        [] t.do = "wsError" -> WsError
        [] t.do = "open" -> Register
        [] t.do = "closed" -> WsClosed
        [] t.do = "text" -> WsMessage(t.msg)
        [] t.do = "disconnect" -> DisconnectFromRoom)
  BY DEF RunTask
<1>3. t \in Task /\ t = Head(tasks)
  BY <1>1
<1> HIDE DEF t
<1>4. /\ t.do \in Tasks \cup {"ready", "text"}
      /\ t.do = "ready" => t.params \in Ready
      /\ t.do = "text" => t.msg \in Texts
  BY <1>3 DEF Task, Tasks
<1>5. CASE t.do = "connect"
  <2>1. ConnectToRoom
    BY <1>2, <1>5
  <2> QED BY <1>1, <1>3, <1>5, <2>1, ConnectKeeps
<1>6. CASE t.do = "ready"
  <2>1. SignalingParametersReady(t.params)
    BY <1>2, <1>6
  <2> QED BY <1>1, <1>3, <1>4, <1>6, <2>1, ReadyKeeps
<1>7. CASE t.do \in {"offer", "answer", "ice"}
  <2>1. SendMessage(t.do)
    BY <1>2, <1>7
  <2>2. CASE t.do = "offer" \/ (t.do = "ice" /\ role = "initiator")
    <3>1. PostMessage(t.do) /\ t.do \in {"offer", "ice"}
      BY <2>1, <2>2 DEF SendMessage
    <3> QED BY <1>1, <1>3, <2>2, <3>1, PostKeeps
  <2>3. CASE ~(t.do = "offer" \/ (t.do = "ice" /\ role = "initiator"))
    <3>1. Send(t.do) /\ t.do \in {"answer", "ice"}
      BY <1>7, <2>1, <2>3 DEF SendMessage
    <3> QED BY <1>1, <1>3, <3>1, SendKeeps
  <2> QED BY <2>2, <2>3
<1>8. CASE t.do = "roomError"
  <2>1. RoomError
    BY <1>2, <1>8
  <2> QED BY <1>1, <1>3, <1>8, <2>1, RoomErrorKeeps
<1>9. CASE t.do = "wsError"
  <2>1. WsError
    BY <1>2, <1>9
  <2> QED BY <1>1, <1>3, <1>9, <2>1, WsErrorKeeps
<1>10. CASE t.do = "open"
  <2>1. Register
    BY <1>2, <1>10
  <2> QED BY <1>1, <1>3, <1>10, <2>1, RegisterKeeps
<1>11. CASE t.do = "closed"
  <2>1. WsClosed
    BY <1>2, <1>11
  <2> QED BY <1>1, <1>3, <1>11, <2>1, ClosedKeeps
<1>12. CASE t.do = "text"
  <2>1. WsMessage(t.msg)
    BY <1>2, <1>12
  <2> QED BY <1>1, <1>3, <1>4, <1>12, <2>1, MessageKeeps
<1>13. CASE t.do = "disconnect"
  <2>1. DisconnectFromRoom
    BY <1>2, <1>13
  <2> QED BY <1>1, <1>3, <1>13, <2>1, DisconnectKeeps
<1> QED BY <1>4, <1>5, <1>6, <1>7, <1>8, <1>9, <1>10, <1>11, <1>12, <1>13 DEF Tasks

LEMMA StutterKeeps == ASSUME Inv, UNCHANGED vars PROVE Inv'
<1>1. UNCHANGED <<call, pc, alert, said, fault, ws, named, held, looper, room, role, errors,
                  sock, closed, join, member, texts, failed, ui, tasks, posts, wire>>
  BY DEF vars, uiVars, wsVars, netVars, looperVars
<1>2. Types' /\ Early' /\ Connection'
  BY <1>1 DEF Inv, Types, Early, Connection
<1>3. RoomState' /\ Failures' /\ LeftBehind'
  BY <1>1 DEF Inv, RoomState, Failures, LeftBehind
<1>4. Entered' /\ Asked' /\ Framing'
  BY <1>1 DEF Inv, Entered, Asked, Framing
<1>5. Flow'
  BY <1>1 DEF Inv, Flow
<1> QED BY <1>2, <1>3, <1>4, <1>5 DEF Inv

LEMMA NextKeeps == ASSUME Inv, [Next]_vars PROVE Inv'
<1>1. ASSUME NEW r \in Requests, RequestAnswered(r) \/ RequestFails(r) PROVE Inv'
  BY <1>1, RequestAnsweredKeeps, RequestFailsKeeps
<1>2. ASSUME NEW m \in Texts, ServerText(m) PROVE Inv'
  BY <1>2, TextKeeps
<1>3. CASE StartCall \/ HangUp \/ LocalDescription \/ IceChange \/ RunOnUiThread
  BY <1>3, StartKeeps, HangUpKeeps, DescriptionKeeps, IceKeeps, UiRuns
<1>4. CASE RunTask \/ WaitEnds
  BY <1>4, TaskKeeps, WaitEndsKeeps
<1>5. CASE Enter \/ JoinAnswered \/ JoinFails \/ SocketOpens \/ SocketCloses
  BY <1>5, EnterKeeps, AnsweredKeeps, JoinFailsKeeps, OpensKeeps, ClosesKeeps
<1>6. CASE UNCHANGED vars
  BY <1>6, StutterKeeps
<1> QED BY <1>1, <1>2, <1>3, <1>4, <1>5, <1>6 DEF Next

-----------------------------------------------------------------------------
(* The theorems.                                                            *)

LEMMA Invariance == Spec => []Inv
<1>1. Init => Inv
  BY InitInv
<1>2. Inv /\ [Next]_vars => Inv'
  BY NextKeeps
<1> QED BY <1>1, <1>2, PTL DEF Spec

LEMMA TypesOK == ASSUME Inv PROVE TypeOK
<1>1. Types /\ Asked /\ Flow
  BY DEF Inv
<1>2. posts \in [Requests -> 0..(MaxIce + 1)]
  <2>1. PICK p : Chosen(tasks, p) /\ posts["offer"] + posts["ice"] + Len(p) <= Len(said)
    BY <1>1 DEF Flow
  <2>2. /\ Len(p) \in Nat /\ Len(said) \in Nat /\ MaxIce \in Nat
        /\ posts["offer"] \in Nat /\ posts["ice"] \in Nat /\ posts["leave"] \in Nat /\ posts["delete"] \in Nat
    BY <1>1, <2>1, WebSocketAssumption DEF Chosen, Types, Requests
  <2>3. Len(said) <= MaxIce + 1 /\ posts["leave"] <= 1 /\ posts["delete"] <= 1
    BY <1>1 DEF Asked
  <2>4. /\ posts["offer"] <= MaxIce + 1 /\ posts["ice"] <= MaxIce + 1
        /\ posts["leave"] <= MaxIce + 1 /\ posts["delete"] <= MaxIce + 1
    BY <2>1, <2>2, <2>3
  <2>5. \A r \in Requests : posts[r] \in 0..(MaxIce + 1)
    BY <2>2, <2>4 DEF Requests
  <2> QED BY <1>1, <2>5 DEF Types
<1>3. {alert, named, closed, member, fault} \subseteq BOOLEAN
  BY <1>1 DEF Types
<1>4. errors \in Nat
  BY <1>1 DEF Types
<1> QED BY <1>1, <1>2, <1>3, <1>4 DEF Types, TypeOK, Sayings, Heard

\* Every variable keeps its type: no more requests are under way than the
\* activity has sent messages, and one LEAVE and one DELETE.
THEOREM TypeCorrect == Spec => []TypeOK
<1>1. Inv => TypeOK
  BY TypesOK
<1> QED BY <1>1, Invariance, PTL

\* No error dialog and no error event, unless a request, the connection or a
\* message from outside was bad; and one error event at most.
THEOREM OnlyRealAlarms == Spec => []NoFalseAlarm
<1>1. Inv => NoFalseAlarm
  BY DEF Inv, Failures, Types, NoFalseAlarm
<1> QED BY <1>1, Invariance, PTL

\* When the looper has quit, the phone is out of the room and its WebSocket
\* closing, except in the cases that LittleLeftBehind lists.
THEOREM CleanEnd == Spec => []LittleLeftBehind
<1>1. Inv => LittleLeftBehind
  BY DEF Inv, LeftBehind, LittleLeftBehind
<1> QED BY <1>1, Invariance, PTL

LEMMA DeliveredOK == ASSUME Inv PROVE Delivered
<1>1. Types /\ Early /\ Connection /\ Entered /\ Framing /\ Flow
  BY DEF Inv
<1>2. Sent = SentOn(wire)
  BY DEF Sent, SentOn
<1>3. PICK p :
        /\ Chosen(tasks, p)
        /\ role = "receiver" =>
             /\ ws = "REGISTERED" /\ sock = "open" => Joins(said, SentOn(wire), p)
             /\ IsPrefix(SentOn(wire), said)
  BY <1>1 DEF Flow
<1>4. role = "receiver" => IsPrefix(Sent, said)
  BY <1>2, <1>3
<1>5. ASSUME role = "receiver", ws = "REGISTERED", sock = "open", ~Pending("answer"), ~Pending("ice")
      PROVE  Sent = said
  <2>1. ~Has(tasks, "answer") /\ ~Has(tasks, "ice") /\ ~Has(tasks, "offer")
    BY <1>5 DEF Pending, Has, Inv, Asked
  <2>2. p = <<>>
    <3>1. \A do \in Sayings : ~Has(tasks, do)
      BY <2>1 DEF Sayings
    <3> QED BY <1>3, <3>1, ChosenNone
  <2>3. said = SentOn(wire) \o <<>> /\ SentOn(wire) \in Seq(Heard)
    <3>1. wire \in Seq(Heard)
      BY <1>1 DEF Types
    <3> QED BY <1>3, <1>5, <2>2, <3>1, SentType DEF Joins
  <2>4. SentOn(wire) \o <<>> = SentOn(wire)
    BY <2>3, ConcatEmptySeq
  <2> QED BY <1>2, <2>3, <2>4
<1>6. \A k \in DOMAIN wire : /\ wire[k] = "register" <=> k = 1
                             /\ wire[k] = "bye" => k = Len(wire)
  BY <1>1 DEF Framing, Framed
<1>7. \A k \in DOMAIN ui : ui[k] \in {"description", "ice"} =>
        pc # "none" \/ fault \/ \E j \in 1..(k - 1) : ui[j] \in {"room", "roomOffer"}
  BY <1>1 DEF Entered, RoomFirst
<1> QED BY <1>4, <1>5, <1>6, <1>7 DEF Delivered

\* What the answering phone asks to send reaches the WebSocket in this order,
\* after the registration and before bye, and all of it once nothing waits; and
\* the activity has the room's parameters before it hears of the other phone.
THEOREM SentInOrder == Spec => []Delivered
<1>1. Inv => Delivered
  BY DeliveredOK
<1> QED BY <1>1, Invariance, PTL

=============================================================================
