---------------------- MODULE BroadcastActivityProofs ----------------------
(***************************************************************************)
(* The chat of a broadcast stays in order and the server's list tells      *)
(* whether the room is on the air, for any number of starts, lines, pauses *)
(* and messages that tell of a lost connection.                            *)
(***************************************************************************)
EXTENDS BroadcastActivity, SequenceTheorems, FiniteSetTheorems, TLAPS

-----------------------------------------------------------------------------
(* What is said of the looper and of the executor, as sequences.            *)

Message == [what : {"started", "failed", "lost", "line"}, line : 0..MaxRead]
Work == {Start} \cup Typed
Ended == {"started", "failed"}

HasStart(q) == \E i \in DOMAIN q : q[i] = Start
OneStart(q) == \A i, j \in DOMAIN q : q[i] = Start /\ q[j] = Start => i = j
HasEnded(q) == \E i \in DOMAIN q : q[i].what \in Ended
OneEnded(q) == \A i, j \in DOMAIN q : q[i].what \in Ended /\ q[j].what \in Ended => i = j

\* One start is under way, in the executor or on its way back from it.
Single(ex, lo) == OneStart(ex) /\ OneEnded(lo) /\ ~(HasStart(ex) /\ HasEnded(lo))

HasLine(q, n) == \E i \in DOMAIN q : q[i] = [what |-> "line", line |-> n]
LinesRead(q) == \A i \in DOMAIN q : q[i].what = "line" => q[i].line > 0

\* The lines in the executor were typed one after the other, up to line n, and
\* those in s before them.
Follow(s, q, n) ==
  /\ \A i, j \in DOMAIN q : i < j /\ q[i] # Start /\ q[j] # Start => q[i] < q[j]
  /\ \A i \in DOMAIN q : q[i] <= n
  /\ \A i \in DOMAIN s : s[i] <= n
  /\ \A i \in DOMAIN s, j \in DOMAIN q : q[j] # Start => s[i] < q[j]

LEMMA Bounds == MaxStarts \in Nat /\ MaxRead \in Nat /\ MaxTyped \in Nat
                /\ MaxPauses \in Nat /\ MaxLost \in Nat
BY BroadcastAssumption

LEMMA ExecutorAppend ==
  ASSUME NEW q \in Seq(Work), NEW e \in Work
  PROVE  /\ HasStart(Append(q, e)) <=> (HasStart(q) \/ e = Start)
         /\ OneStart(Append(q, e)) <=> (OneStart(q) /\ (e = Start => ~HasStart(q)))
<1>1. Len(Append(q, e)) = Len(q) + 1 /\ DOMAIN Append(q, e) = 1..(Len(q) + 1)
  OBVIOUS
<1>2. \A i \in DOMAIN q : Append(q, e)[i] = q[i]
  OBVIOUS
<1>3. Append(q, e)[Len(q) + 1] = e /\ Len(q) \in Nat /\ DOMAIN q = 1..Len(q)
  OBVIOUS
<1>4. \A i \in 1..(Len(q) + 1) : i \in DOMAIN q \/ i = Len(q) + 1
  BY <1>3
<1>5. Len(q) + 1 \notin DOMAIN q /\ DOMAIN q \subseteq DOMAIN Append(q, e)
      /\ Len(q) + 1 \in DOMAIN Append(q, e)
  BY <1>1, <1>3
<1> HIDE <1>1
<1>6. HasStart(Append(q, e)) <=> (HasStart(q) \/ e = Start)
  BY <1>1, <1>2, <1>3, <1>4, <1>5 DEF HasStart
<1>7. OneStart(Append(q, e)) => OneStart(q) /\ (e = Start => ~HasStart(q))
  BY <1>1, <1>2, <1>3, <1>5 DEF HasStart, OneStart
<1>8. OneStart(q) /\ (e = Start => ~HasStart(q)) => OneStart(Append(q, e))
  BY <1>1, <1>2, <1>3, <1>4, <1>5 DEF HasStart, OneStart
<1> QED BY <1>6, <1>7, <1>8

LEMMA ExecutorTail ==
  ASSUME NEW q \in Seq(Work), q # <<>>
  PROVE  /\ HasStart(q) <=> (HasStart(Tail(q)) \/ Head(q) = Start)
         /\ OneStart(q) => OneStart(Tail(q)) /\ (Head(q) = Start => ~HasStart(Tail(q)))
<1>1. /\ Len(q) \in Nat /\ Len(q) > 0 /\ DOMAIN q = 1..Len(q) /\ Head(q) = q[1]
      /\ DOMAIN Tail(q) = 1..(Len(q) - 1)
      /\ \A i \in DOMAIN Tail(q) : Tail(q)[i] = q[i + 1] /\ i + 1 \in DOMAIN q
  OBVIOUS
<1>2. \A i \in DOMAIN q : i = 1 \/ (i - 1 \in DOMAIN Tail(q) /\ Tail(q)[i - 1] = q[i])
  BY <1>1
<1>3. HasStart(q) => HasStart(Tail(q)) \/ Head(q) = Start
  BY <1>1, <1>2 DEF HasStart
<1>4. HasStart(Tail(q)) \/ Head(q) = Start => HasStart(q)
  BY <1>1 DEF HasStart
<1>5. OneStart(q) => OneStart(Tail(q)) /\ (Head(q) = Start => ~HasStart(Tail(q)))
  BY <1>1 DEF HasStart, OneStart
<1> QED BY <1>3, <1>4, <1>5

LEMMA LooperAppend ==
  ASSUME NEW q \in Seq(Message), NEW m \in Message
  PROVE  /\ HasEnded(Append(q, m)) <=> (HasEnded(q) \/ m.what \in Ended)
         /\ OneEnded(Append(q, m)) <=> (OneEnded(q) /\ (m.what \in Ended => ~HasEnded(q)))
         /\ \A n : HasLine(Append(q, m), n) <=> (HasLine(q, n) \/ m = [what |-> "line", line |-> n])
         /\ LinesRead(Append(q, m)) <=> (LinesRead(q) /\ (m.what = "line" => m.line > 0))
<1>1. Len(Append(q, m)) = Len(q) + 1 /\ DOMAIN Append(q, m) = 1..(Len(q) + 1)
  OBVIOUS
<1>2. \A i \in DOMAIN q : Append(q, m)[i] = q[i]
  OBVIOUS
<1>3. Append(q, m)[Len(q) + 1] = m /\ Len(q) \in Nat /\ DOMAIN q = 1..Len(q)
  OBVIOUS
<1>4. \A i \in 1..(Len(q) + 1) : i \in DOMAIN q \/ i = Len(q) + 1
  BY <1>3
<1>5. Len(q) + 1 \notin DOMAIN q /\ DOMAIN q \subseteq DOMAIN Append(q, m)
      /\ Len(q) + 1 \in DOMAIN Append(q, m)
  BY <1>1, <1>3
<1>6. HasEnded(Append(q, m)) <=> (HasEnded(q) \/ m.what \in Ended)
  BY <1>1, <1>2, <1>3, <1>4, <1>5 DEF HasEnded
<1>7. OneEnded(Append(q, m)) => OneEnded(q) /\ (m.what \in Ended => ~HasEnded(q))
  BY <1>1, <1>2, <1>3, <1>5 DEF HasEnded, OneEnded
<1>8. OneEnded(q) /\ (m.what \in Ended => ~HasEnded(q)) => OneEnded(Append(q, m))
  BY <1>1, <1>2, <1>3, <1>4, <1>5 DEF HasEnded, OneEnded
<1>9. \A n : HasLine(Append(q, m), n) <=> (HasLine(q, n) \/ m = [what |-> "line", line |-> n])
  BY <1>1, <1>2, <1>3, <1>4, <1>5 DEF HasLine
<1>10. LinesRead(Append(q, m)) <=> (LinesRead(q) /\ (m.what = "line" => m.line > 0))
  BY <1>1, <1>2, <1>3, <1>4, <1>5 DEF LinesRead
<1> QED BY <1>6, <1>7, <1>8, <1>9, <1>10

\* The lines that wait come in the order read, after line n and up to line m.
LinesWait(q, n, m) ==
  /\ \A i, j \in DOMAIN q : i < j /\ q[i].what = "line" /\ q[j].what = "line" => q[i].line < q[j].line
  /\ \A i \in DOMAIN q : q[i].what = "line" => q[i].line \in (n + 1)..m

NoLine(q) == \A i \in DOMAIN q : q[i].what # "line"

LEMMA WaitOther ==
  ASSUME NEW q \in Seq(Message), NEW e \in Message, e.what # "line", NEW n, NEW m, LinesWait(q, n, m)
  PROVE  LinesWait(Append(q, e), n, m) /\ (NoLine(q) => NoLine(Append(q, e)))
<1>1. Len(q) \in Nat /\ DOMAIN q = 1..Len(q) /\ DOMAIN Append(q, e) = 1..(Len(q) + 1)
      /\ Append(q, e)[Len(q) + 1] = e /\ \A i \in DOMAIN q : Append(q, e)[i] = q[i]
  OBVIOUS
<1>2. \A i \in DOMAIN Append(q, e) :
        Append(q, e)[i].what = "line" => i \in DOMAIN q /\ Append(q, e)[i] = q[i]
  BY <1>1
<1> QED BY <1>2 DEF LinesWait, NoLine

LEMMA WaitLine ==
  ASSUME NEW q \in Seq(Message), NEW e \in Message, e.what = "line", NEW n \in Nat, NEW m \in Nat,
         e.line = m, n <= m - 1, LinesWait(q, n, m - 1)
  PROVE  LinesWait(Append(q, e), n, m)
<1>1. Len(q) \in Nat /\ DOMAIN q = 1..Len(q) /\ DOMAIN Append(q, e) = 1..(Len(q) + 1)
      /\ Append(q, e)[Len(q) + 1] = e /\ \A i \in DOMAIN q : Append(q, e)[i] = q[i]
  OBVIOUS
<1>2. \A i \in DOMAIN Append(q, e) :
        (i \in DOMAIN q /\ Append(q, e)[i] = q[i]) \/ (i = Len(q) + 1 /\ Append(q, e)[i] = e)
  BY <1>1
<1>3. \A i \in DOMAIN q : q[i].what = "line" => q[i].line \in (n + 1)..(m - 1)
  BY DEF LinesWait
<1>4. \A i \in DOMAIN Append(q, e) :
        Append(q, e)[i].what = "line" => Append(q, e)[i].line \in (n + 1)..m
  BY <1>2, <1>3
<1>5. ASSUME NEW i \in DOMAIN Append(q, e), NEW j \in DOMAIN Append(q, e), i < j,
             Append(q, e)[i].what = "line", Append(q, e)[j].what = "line"
      PROVE  Append(q, e)[i].line < Append(q, e)[j].line
  <2>1. i \in DOMAIN q /\ Append(q, e)[i] = q[i]
    BY <1>1, <1>2, <1>5
  <2>2. CASE j \in DOMAIN q
    BY <1>1, <1>5, <2>1, <2>2 DEF LinesWait
  <2>3. CASE j \notin DOMAIN q
    BY <1>2, <1>3, <1>5, <2>1, <2>3
  <2> QED BY <2>2, <2>3
<1> QED BY <1>4, <1>5 DEF LinesWait

LEMMA WaitTail ==
  ASSUME NEW q \in Seq(Message), q # <<>>, NEW n \in Nat, NEW m \in Int, LinesWait(q, n, m)
  PROVE  /\ IF Head(q).what = "line"
            THEN Head(q).line \in (n + 1)..m /\ LinesWait(Tail(q), Head(q).line, m)
            ELSE LinesWait(Tail(q), n, m)
         /\ NoLine(q) => NoLine(Tail(q))
<1>1. /\ Len(q) \in Nat /\ Len(q) > 0 /\ DOMAIN q = 1..Len(q) /\ Head(q) = q[1] /\ 1 \in DOMAIN q
      /\ DOMAIN Tail(q) = 1..(Len(q) - 1)
      /\ \A i \in DOMAIN Tail(q) : Tail(q)[i] = q[i + 1] /\ i + 1 \in DOMAIN q /\ 1 < i + 1
  OBVIOUS
<1>2. \A i, j \in DOMAIN Tail(q) : i < j => i + 1 < j + 1
  BY <1>1
<1>3. \A i, j \in DOMAIN Tail(q) :
        i < j /\ Tail(q)[i].what = "line" /\ Tail(q)[j].what = "line" => Tail(q)[i].line < Tail(q)[j].line
  BY <1>1, <1>2 DEF LinesWait
<1>4. \A i \in DOMAIN Tail(q) : Tail(q)[i].what = "line" => Tail(q)[i].line \in (n + 1)..m
  BY <1>1 DEF LinesWait
<1>5. ASSUME Head(q).what = "line"
      PROVE  /\ Head(q).line \in (n + 1)..m
             /\ \A i \in DOMAIN Tail(q) : Tail(q)[i].what = "line" => Tail(q)[i].line \in (Head(q).line + 1)..m
  <2>1. Head(q).line \in (n + 1)..m
    BY <1>1, <1>5 DEF LinesWait
  <2>2. \A i \in DOMAIN Tail(q) : Tail(q)[i].what = "line" => Head(q).line < Tail(q)[i].line
    BY <1>1, <1>5 DEF LinesWait
  <2> QED BY <1>4, <2>1, <2>2
<1> QED BY <1>1, <1>3, <1>4, <1>5 DEF LinesWait, NoLine

LEMMA WaitLess ==
  ASSUME NEW q, NEW n \in Int, NEW k \in Int, n <= k, NEW m \in Int, LinesWait(q, k, m)
  PROVE  LinesWait(q, n, m)
<1>1. (k + 1)..m \subseteq (n + 1)..m
  OBVIOUS
<1> QED BY <1>1 DEF LinesWait

LEMMA LooperTail ==
  ASSUME NEW q \in Seq(Message), q # <<>>
  PROVE  /\ HasEnded(q) <=> (HasEnded(Tail(q)) \/ Head(q).what \in Ended)
         /\ OneEnded(q) => OneEnded(Tail(q)) /\ (Head(q).what \in Ended => ~HasEnded(Tail(q)))
         /\ \A n : HasLine(q, n) => HasLine(Tail(q), n) \/ Head(q) = [what |-> "line", line |-> n]
         /\ LinesRead(q) => LinesRead(Tail(q)) /\ (Head(q).what = "line" => Head(q).line > 0)
<1>1. /\ Len(q) \in Nat /\ Len(q) > 0 /\ DOMAIN q = 1..Len(q) /\ Head(q) = q[1]
      /\ DOMAIN Tail(q) = 1..(Len(q) - 1)
      /\ \A i \in DOMAIN Tail(q) : Tail(q)[i] = q[i + 1] /\ i + 1 \in DOMAIN q
  OBVIOUS
<1>2. \A i \in DOMAIN q : i = 1 \/ (i - 1 \in DOMAIN Tail(q) /\ Tail(q)[i - 1] = q[i])
  BY <1>1
<1>3. HasEnded(q) => HasEnded(Tail(q)) \/ Head(q).what \in Ended
  BY <1>1, <1>2 DEF HasEnded
<1>4. HasEnded(Tail(q)) \/ Head(q).what \in Ended => HasEnded(q)
  BY <1>1 DEF HasEnded
<1>5. OneEnded(q) => OneEnded(Tail(q)) /\ (Head(q).what \in Ended => ~HasEnded(Tail(q)))
  BY <1>1 DEF HasEnded, OneEnded
<1>6. \A n : HasLine(q, n) => HasLine(Tail(q), n) \/ Head(q) = [what |-> "line", line |-> n]
  BY ZenonT(60), <1>1, <1>2 DEF HasLine
<1>7. LinesRead(q) => LinesRead(Tail(q)) /\ (Head(q).what = "line" => Head(q).line > 0)
  BY <1>1 DEF LinesRead
<1> QED BY <1>3, <1>4, <1>5, <1>6, <1>7

LEMMA FollowTyped ==
  ASSUME NEW s \in Seq(Typed), NEW q \in Seq(Work), NEW n \in Nat, Follow(s, q, n)
  PROVE  Follow(s, Append(q, n + 1), n + 1)
<1>1. Typed \subseteq Nat /\ Work \subseteq Nat
  BY Bounds DEF Typed, Work, Start
<1>2. \A i \in DOMAIN s : s[i] \in Nat /\ s[i] <= n
  <2>1. \A i \in DOMAIN s : s[i] \in Typed
    OBVIOUS
  <2> QED BY <1>1, <2>1 DEF Follow
<1>3. \A i \in DOMAIN q : q[i] \in Nat /\ q[i] <= n
  <2>1. \A i \in DOMAIN q : q[i] \in Work
    OBVIOUS
  <2> QED BY <1>1, <2>1 DEF Follow
<1>4. \A i \in DOMAIN Append(q, n + 1) :
         \/ i = Len(q) + 1 /\ Append(q, n + 1)[i] = n + 1
         \/ i \in DOMAIN q /\ i <= Len(q) /\ Append(q, n + 1)[i] = q[i]
  BY <1>1
<1>5. Len(q) \in Nat /\ DOMAIN Append(q, n + 1) = 1..(Len(q) + 1) /\ DOMAIN q = 1..Len(q)
  BY <1>1
<1> QED BY <1>2, <1>3, <1>4, <1>5 DEF Follow

LEMMA FollowStart ==
  ASSUME NEW s \in Seq(Typed), NEW q \in Seq(Work), NEW n \in Nat, Follow(s, q, n)
  PROVE  Follow(s, Append(q, Start), n)
<1>1. \A i \in DOMAIN Append(q, Start) :
         \/ i = Len(q) + 1 /\ Append(q, Start)[i] = Start
         \/ i \in DOMAIN q /\ i <= Len(q) /\ Append(q, Start)[i] = q[i]
  BY DEF Work
<1>2. Len(q) \in Nat /\ DOMAIN Append(q, Start) = 1..(Len(q) + 1) /\ DOMAIN q = 1..Len(q)
  BY DEF Work
<1>3. Start <= n
  BY DEF Start
<1> QED BY <1>1, <1>2, <1>3 DEF Follow

LEMMA FollowTail ==
  ASSUME NEW s \in Seq(Typed), NEW q \in Seq(Work), NEW n \in Nat, Follow(s, q, n), q # <<>>
  PROVE  /\ Follow(s, Tail(q), n)
         /\ Head(q) # Start => /\ Follow(Append(s, Head(q)), Tail(q), n)
                               /\ \A i \in DOMAIN s : s[i] <= Head(q)
<1>1. Typed \subseteq Nat /\ Work \subseteq Nat
  BY Bounds DEF Typed, Work, Start
<1>2. /\ Len(q) \in Nat /\ Len(q) > 0 /\ DOMAIN q = 1..Len(q) /\ Head(q) = q[1]
      /\ DOMAIN Tail(q) = 1..(Len(q) - 1)
      /\ \A i \in DOMAIN Tail(q) : Tail(q)[i] = q[i + 1] /\ i + 1 \in DOMAIN q /\ i \in Nat
  OBVIOUS
<1>3. Follow(s, Tail(q), n)
  BY <1>2 DEF Follow
<1>4. ASSUME Head(q) # Start
      PROVE  /\ Follow(Append(s, Head(q)), Tail(q), n)
             /\ \A i \in DOMAIN s : s[i] <= Head(q)
  <2>1. Head(q) \in Typed /\ 1 \in DOMAIN q
    BY <1>2, <1>4 DEF Work
  <2>2. \A i \in DOMAIN Append(s, Head(q)) :
           \/ i = Len(s) + 1 /\ Append(s, Head(q))[i] = Head(q)
           \/ i \in DOMAIN s /\ Append(s, Head(q))[i] = s[i]
    BY <2>1
  <2>3. \A j \in DOMAIN Tail(q) : Tail(q)[j] # Start => Head(q) < Tail(q)[j]
    <3> SUFFICES ASSUME NEW j \in DOMAIN Tail(q), Tail(q)[j] # Start PROVE Head(q) < Tail(q)[j]
      OBVIOUS
    <3>1. 1 < j + 1 /\ j + 1 \in DOMAIN q /\ Tail(q)[j] = q[j + 1]
      BY <1>2
    <3> QED BY <3>1, <2>1, <1>2, <1>4 DEF Follow
  <2>4. Head(q) <= n
    BY <1>2, <2>1 DEF Follow
  <2>5. \A i \in DOMAIN s : s[i] < Head(q) /\ s[i] \in Nat
    <3>1. \A i \in DOMAIN s : s[i] \in Typed
      OBVIOUS
    <3>2. \A i \in DOMAIN s : s[i] < q[1]
      BY <1>2, <1>4, <2>1 DEF Follow
    <3> QED BY <1>1, <1>2, <3>1, <3>2
  <2>6. \A i \in DOMAIN Append(s, Head(q)), j \in DOMAIN Tail(q) :
           Tail(q)[j] # Start => Append(s, Head(q))[i] < Tail(q)[j]
    BY <1>3, <2>2, <2>3 DEF Follow
  <2>7. \A i \in DOMAIN Append(s, Head(q)) : Append(s, Head(q))[i] <= n
    BY <1>3, <2>2, <2>4 DEF Follow
  <2>8. \A i \in DOMAIN s : s[i] <= Head(q)
    <3>1. Head(q) \in Nat
      BY <1>1, <2>1
    <3> QED BY <2>5, <3>1
  <2>9. Follow(Append(s, Head(q)), Tail(q), n)
    BY <1>3, <2>6, <2>7 DEF Follow
  <2> QED BY <2>8, <2>9
<1> QED BY <1>3, <1>4

LEMMA AscendingAppend ==
  ASSUME NEW s \in Seq(Nat), NEW v \in Nat, Ascending(s), \A i \in DOMAIN s : s[i] <= v
  PROVE  Ascending(Append(s, v))
BY DEF Ascending, IsSorted

-----------------------------------------------------------------------------
(* What the list of the server says once the requests on their way are      *)
(* answered in their order: q are the requests, l is what it says now.      *)

Request == {"add", "delete"}
Expect(q, l) == IF q = <<>> THEN l ELSE Last(q) = "add"

LEMMA RemoveAtProperties ==
  ASSUME NEW S, NEW q \in Seq(S), NEW i \in DOMAIN q
  PROVE  /\ RemoveAt(q, i) \in Seq(S)
         /\ Len(RemoveAt(q, i)) = Len(q) - 1
         /\ \A j \in 1..(Len(q) - 1) : RemoveAt(q, i)[j] = IF j < i THEN q[j] ELSE q[j + 1]
<1>1. Len(q) \in Nat /\ i \in 1..Len(q) /\ DOMAIN q = 1..Len(q)
  OBVIOUS
<1>2. /\ SubSeq(q, 1, i - 1) \in Seq(S) /\ Len(SubSeq(q, 1, i - 1)) = i - 1
      /\ \A j \in 1..(i - 1) : SubSeq(q, 1, i - 1)[j] = q[j]
  BY <1>1
<1>3. /\ SubSeq(q, i + 1, Len(q)) \in Seq(S) /\ Len(SubSeq(q, i + 1, Len(q))) = Len(q) - i
      /\ \A j \in 1..(Len(q) - i) : SubSeq(q, i + 1, Len(q))[j] = q[i + j]
  BY <1>1
<1>4. \A a, b \in Seq(S) :
        /\ a \o b \in Seq(S) /\ Len(a \o b) = Len(a) + Len(b)
        /\ \A j \in 1..(Len(a) + Len(b)) : (a \o b)[j] = IF j <= Len(a) THEN a[j] ELSE b[j - Len(a)]
  OBVIOUS
<1> DEFINE a == SubSeq(q, 1, i - 1)
           b == SubSeq(q, i + 1, Len(q))
<1>5. RemoveAt(q, i) = a \o b
  BY DEF RemoveAt
<1> HIDE DEF a, b
<1>6. a \in Seq(S) /\ Len(a) = i - 1 /\ \A j \in 1..(i - 1) : a[j] = q[j]
  BY <1>2 DEF a
<1>7. b \in Seq(S) /\ Len(b) = Len(q) - i /\ \A j \in 1..(Len(q) - i) : b[j] = q[i + j]
  BY <1>3 DEF b
<1>8. Len(a) + Len(b) = Len(q) - 1
  BY <1>1, <1>6, <1>7
<1>9. a \o b \in Seq(S) /\ Len(a \o b) = Len(q) - 1
  BY <1>4, <1>6, <1>7, <1>8
<1>10. ASSUME NEW j \in 1..(Len(q) - 1)
       PROVE  (a \o b)[j] = IF j < i THEN q[j] ELSE q[j + 1]
  <2>1. (a \o b)[j] = IF j <= Len(a) THEN a[j] ELSE b[j - Len(a)]
    BY SMTT(30), <1>4, <1>6, <1>7, <1>8
  <2>2. CASE j < i
    BY <1>1, <1>6, <2>1, <2>2
  <2>3. CASE ~(j < i)
    <3>1. j - Len(a) = j - i + 1 /\ j - i + 1 \in 1..(Len(q) - i) /\ i + (j - i + 1) = j + 1
      BY <1>1, <1>6, <2>3
    <3>2. (a \o b)[j] = b[j - i + 1]
      BY <1>1, <1>6, <2>1, <2>3, <3>1
    <3> QED BY <1>7, <2>3, <3>1, <3>2
  <2> QED BY <2>2, <2>3
<1> QED BY <1>5, <1>9, <1>10

LEMMA ExpectAppend ==
  ASSUME NEW q \in Seq(Request), NEW e \in Request, NEW l
  PROVE  Append(q, e) \in Seq(Request) /\ Expect(Append(q, e), l) = (e = "add")
<1>1. Append(q, e) \in Seq(Request) /\ Append(q, e) # <<>> /\ Append(q, e)[Len(Append(q, e))] = e
  OBVIOUS
<1> QED BY <1>1 DEF Expect, Last

\* A request answered before another of the other kind changes nothing.
LEMMA ExpectServed ==
  ASSUME NEW q \in Seq(Request), NEW i \in DOMAIN q, NEW l,
         \A j \in 1..(i - 1) : q[j] = q[i]
  PROVE  Expect(RemoveAt(q, i), q[i] = "add") = Expect(q, l)
<1>1. Len(q) \in Nat /\ i \in 1..Len(q) /\ q # <<>>
  OBVIOUS
<1>2. /\ RemoveAt(q, i) \in Seq(Request)
      /\ Len(RemoveAt(q, i)) = Len(q) - 1
      /\ \A j \in 1..(Len(q) - 1) : RemoveAt(q, i)[j] = IF j < i THEN q[j] ELSE q[j + 1]
  BY RemoveAtProperties
<1>3. Expect(q, l) = (q[Len(q)] = "add")
  BY <1>1 DEF Expect, Last
<1>4. CASE Len(q) = 1
  <2>1. RemoveAt(q, i) = <<>> /\ i = Len(q)
    BY <1>1, <1>2, <1>4, EmptySeq
  <2> QED BY <1>3, <2>1 DEF Expect
<1>5. CASE Len(q) # 1
  <2>1. Len(q) - 1 \in 1..(Len(q) - 1) /\ RemoveAt(q, i) # <<>>
    BY <1>1, <1>2, <1>5
  <2>2. Expect(RemoveAt(q, i), q[i] = "add") = (RemoveAt(q, i)[Len(q) - 1] = "add")
    BY <1>2, <2>1 DEF Expect, Last
  <2>3. CASE i = Len(q)
    <3>1. RemoveAt(q, i)[Len(q) - 1] = q[Len(q) - 1] /\ Len(q) - 1 \in 1..(i - 1)
      BY <1>1, <1>2, <2>1, <2>3
    <3> QED BY <1>3, <2>2, <2>3, <3>1
  <2>4. CASE i # Len(q)
    <3>1. RemoveAt(q, i)[Len(q) - 1] = q[Len(q) - 1 + 1] /\ Len(q) - 1 + 1 = Len(q)
      BY <1>1, <1>2, <2>1, <2>4
    <3> QED BY <1>3, <2>2, <3>1
  <2> QED BY <2>3, <2>4
<1> QED BY <1>4, <1>5

-----------------------------------------------------------------------------
(* Types.                                                                   *)

\* The starts are numbered in the order asked for; a socket is stored before
\* the reader reads one; the start inside startBroadcasting() is the first
\* work of the executor; a line posted has been read.
Ordered ==
  /\ {n \in Starts : connect[n] # "none"} = 1..Asked
  /\ (\E n \in Starts : connect[n] \notin {"none", "new"}) => socketChannel # 0
  /\ reader.at # "new" => socketChannel # 0
  /\ reader.at = "posting" => receivedata > 0
  /\ LinesRead(looper)
  /\ opening => executor # <<>> /\ Head(executor) = Start

TypeInv == TypeOK /\ Ordered

LEMMA AskedBounded == ASSUME TypeInv PROVE Asked \in 0..MaxStarts
<1>1. IsFiniteSet(Starts) /\ Cardinality(Starts) = MaxStarts
  <2>1. 1 \in Int /\ MaxStarts \in Int /\ MaxStarts >= 0
    BY Bounds
  <2>2. Cardinality(1..MaxStarts) = IF 1 > MaxStarts THEN 0 ELSE MaxStarts - 1 + 1
    BY FS_Interval, <2>1
  <2> QED BY <2>1, <2>2, FS_Interval DEF Starts
<1>2. {n \in Starts : connect[n] # "none"} \subseteq Starts
  OBVIOUS
<1>3. Asked \in Nat /\ Asked <= MaxStarts
  BY <1>1, <1>2, FS_Subset, FS_CardinalityType DEF Asked
<1> QED BY <1>3, Bounds

LEMMA InitTypeInv == ASSUME Init PROVE TypeInv
<1>1. {n \in Starts : connect[n] # "none"} = {}
  BY DEF Init
<1>2. Asked = 0
  BY <1>1, FS_EmptySet DEF Asked
<1>3. Ordered
  <2>1. LinesRead(looper)
    BY DEF Init, LinesRead
  <2> QED BY <1>1, <1>2, <2>1 DEF Init, Ordered
<1>4. /\ screen \in [at : {"shown", "paused", "hidden", "destroyed"}, left : 0..MaxPauses]
      /\ service \in [recording : BOOLEAN, on : BOOLEAN, connected : BOOLEAN]
  BY Bounds DEF Init
<1>5. {mIsRecording, mTimer, opening, listed, dead} \subseteq BOOLEAN
  BY DEF Init
<1>6. /\ connect \in [Starts -> {"none", "new", "connecting", "returned", "done"}]
      /\ sockets \in [Starts -> {"none", "made", "open", "closed"}]
      /\ socketChannel \in 0..Asked /\ reader \in [at : {"new", "reading", "posting", "ended"}, from : 0..Asked]
  BY <1>2 DEF Init
<1>7. receivedata \in 0..MaxRead /\ short \subseteq 1..receivedata /\ typed \in 0..MaxTyped
  BY Bounds DEF Init
<1> QED BY <1>3, <1>4, <1>5, <1>6, <1>7 DEF Init, TypeInv, TypeOK

\* Steps that ask for no start.
LEMMA SameAsked ==
  ASSUME TypeInv, connect' = connect
  PROVE  Asked' = Asked /\ {n \in Starts : connect'[n] # "none"} = 1..Asked
BY DEF Asked, TypeInv, Ordered

\* Steps of a thread that connects the chat.
LEMMA ThreadAsked ==
  ASSUME TypeInv, NEW n \in Starts, connect[n] # "none",
         NEW at \in {"connecting", "returned", "done"}, connect' = [connect EXCEPT ![n] = at]
  PROVE  /\ Asked' = Asked /\ {m \in Starts : connect'[m] # "none"} = 1..Asked
         /\ connect' \in [Starts -> {"none", "new", "connecting", "returned", "done"}]
         /\ n \in 1..Asked
<1>1. {m \in Starts : connect'[m] # "none"} = {m \in Starts : connect[m] # "none"}
  BY DEF TypeInv, TypeOK
<1> QED BY <1>1 DEF Asked, TypeInv, Ordered, TypeOK

LEMMA MoreAsked ==
  ASSUME TypeInv, Asked < MaxStarts, connect' = [connect EXCEPT ![Asked + 1] = "new"]
  PROVE  /\ Asked' = Asked + 1 /\ {m \in Starts : connect'[m] # "none"} = 1..(Asked + 1)
         /\ connect' \in [Starts -> {"none", "new", "connecting", "returned", "done"}]
<1>1. Asked \in Nat /\ Asked + 1 \in Starts
  BY AskedBounded, Bounds DEF Starts
<1> DEFINE k == Asked
<1>2. k \in Nat /\ connect' = [connect EXCEPT ![k + 1] = "new"] /\ k + 1 \in Starts
      /\ {m \in Starts : connect[m] # "none"} = 1..k
  BY <1>1 DEF TypeInv, Ordered
<1> HIDE DEF k
<1>3. connect \in [Starts -> {"none", "new", "connecting", "returned", "done"}]
  BY DEF TypeInv, TypeOK
<1>4. {m \in Starts : connect'[m] # "none"} = {m \in Starts : connect[m] # "none"} \cup {k + 1}
  BY <1>2, <1>3
<1>5. 1..(k + 1) = (1..k) \cup {k + 1}
  BY <1>2
<1>6. {m \in Starts : connect'[m] # "none"} = 1..(k + 1)
  BY <1>2, <1>4, <1>5
<1>7. Cardinality(1..(k + 1)) = k + 1
  <2>1. Cardinality(1..(k + 1)) = IF 1 > k + 1 THEN 0 ELSE (k + 1) - 1 + 1
    BY <1>2, FS_Interval
  <2> QED BY <1>2, <2>1
<1>8. Asked' = k + 1
  BY <1>6, <1>7 DEF Asked
<1>9. connect' \in [Starts -> {"none", "new", "connecting", "returned", "done"}]
  BY <1>2, <1>3
<1> QED BY <1>6, <1>8, <1>9 DEF k

Services == [recording : BOOLEAN, on : BOOLEAN, connected : BOOLEAN]
Sockets == [Starts -> {"none", "made", "open", "closed"}]

LEMMA StopTypes == ASSUME NEW s \in Services PROVE StopBroadcasting(s) \in Services
BY DEF StopBroadcasting, Services

LEMMA CloseTypes == ASSUME TypeInv, CloseSocket PROVE sockets' \in Sockets
BY DEF TypeInv, TypeOK, CloseSocket, Sockets

LEMMA TriggerTypes ==
  ASSUME TypeInv, TriggerStopRecording
  PROVE  /\ mIsRecording' = FALSE /\ mTimer' \in BOOLEAN /\ service' \in Services
         /\ requests' \in Seq({"add", "delete"}) /\ sockets' \in Sockets
<1>1. mTimer \in BOOLEAN /\ service \in Services /\ requests \in Seq(Request) /\ sockets \in Sockets
  BY DEF TypeInv, TypeOK, Services, Sockets, Request
<1>2. Append(requests, "delete") \in Seq(Request)
  BY <1>1 DEF Request
<1>3. CASE mIsRecording
  BY <1>1, <1>2, <1>3, StopTypes, CloseTypes DEF TriggerStopRecording, Request
<1>4. CASE ~mIsRecording
  BY <1>1, <1>4 DEF TriggerStopRecording, Request
<1> QED BY <1>3, <1>4

\* What steps of the service, the timer, the life of the screen and the list do
\* to the chat: nothing but to close a socket.
LEMMA ChatTypes ==
  ASSUME TypeInv, sockets' \in Sockets,
         UNCHANGED <<connect, socketChannel, reader, receivedata, short, typed, shown, sent>>
  PROVE  /\ Asked' = Asked /\ {n \in Starts : connect'[n] # "none"} = 1..Asked'
         /\ connect' \in [Starts -> {"none", "new", "connecting", "returned", "done"}]
         /\ socketChannel' \in 0..Asked'
         /\ sockets' \in [Starts -> {"none", "made", "open", "closed"}]
         /\ reader' \in [at : {"new", "reading", "posting", "ended"}, from : 0..Asked']
         /\ reader'.at = "reading" => reader'.from # 0
         /\ receivedata' \in 0..MaxRead /\ short' \subseteq 1..receivedata' /\ typed' \in 0..MaxTyped
         /\ shown' \in Seq(1..MaxRead) /\ sent' \in Seq(Typed)
         /\ (\E n \in Starts : connect'[n] \notin {"none", "new"}) => socketChannel' # 0
         /\ reader'.at # "new" => socketChannel' # 0
         /\ reader'.at = "posting" => receivedata' > 0
<1>1. Asked' = Asked /\ {n \in Starts : connect'[n] # "none"} = 1..Asked
  BY SameAsked
<1> QED BY <1>1 DEF TypeInv, TypeOK, Ordered, Sockets

\* The rest of TypeInv.
RestTypes ==
  /\ screen \in [at : {"shown", "paused", "hidden", "destroyed"}, left : 0..MaxPauses]
  /\ {mIsRecording, mTimer, opening, listed, dead} \subseteq BOOLEAN
  /\ service \in Services
  /\ looper \in Seq(Message) /\ LinesRead(looper)
  /\ executor \in Seq(Work)
  /\ opening => executor # <<>> /\ Head(executor) = Start
  /\ requests \in Seq(Request) /\ history \subseteq Troubles

ChatInv ==
  /\ {n \in Starts : connect[n] # "none"} = 1..Asked
  /\ connect \in [Starts -> {"none", "new", "connecting", "returned", "done"}]
  /\ socketChannel \in 0..Asked /\ sockets \in Sockets
  /\ reader \in [at : {"new", "reading", "posting", "ended"}, from : 0..Asked]
  /\ reader.at = "reading" => reader.from # 0
  /\ receivedata \in 0..MaxRead /\ short \subseteq 1..receivedata /\ typed \in 0..MaxTyped
  /\ shown \in Seq(1..MaxRead) /\ sent \in Seq(Typed)
  /\ (\E n \in Starts : connect[n] \notin {"none", "new"}) => socketChannel # 0
  /\ reader.at # "new" => socketChannel # 0
  /\ reader.at = "posting" => receivedata > 0

LEMMA TypeParts == TypeInv <=> RestTypes /\ ChatInv
BY DEF TypeInv, TypeOK, Ordered, RestTypes, ChatInv, Services, Sockets, Message, Work, Request

LEMMA NewTypeParts == RestTypes' /\ ChatInv' => TypeInv'
BY DEF TypeInv, TypeOK, Ordered, RestTypes, ChatInv, Services, Sockets, Message, Work, Request

LEMMA ChatKept ==
  ASSUME TypeInv, sockets' \in Sockets,
         UNCHANGED <<connect, socketChannel, reader, receivedata, short, typed, shown, sent>>
  PROVE  ChatInv'
BY ChatTypes DEF ChatInv, Sockets

\* Steps that leave the screen, the service, the queues and the list alone.
LEMMA RestKept ==
  ASSUME TypeInv, UNCHANGED <<uiVars, service, looper, executor, opening, roomVars, history>>,
         dead' \in BOOLEAN
  PROVE  RestTypes'
<1>1. RestTypes
  BY TypeParts
<1> QED BY <1>1 DEF RestTypes, uiVars, roomVars

LEMMA PostedType ==
  ASSUME NEW what \in {"started", "failed", "lost"}
  PROVE  Posted(what) \in Message /\ Posted(what).what = what /\ Posted(what).line = 0
BY Bounds DEF Posted, Message

-----------------------------------------------------------------------------

LEMMA ServiceTypeInv == ASSUME TypeInv, Service PROVE TypeInv'
<1>1. RestTypes /\ ChatInv
  BY TypeParts
<1>2. ChatInv'
  <2>1. UNCHANGED chatVars
    BY DEF Service, BeginStart, FinishStart, Disconnects
  <2>2. sockets' \in Sockets
    BY <1>1, <2>1 DEF chatVars, ChatInv
  <2> QED BY <2>1, <2>2, ChatKept DEF chatVars
<1>3. CASE BeginStart
  <2>1. service' \in Services
    BY <1>1, <1>3 DEF BeginStart, RestTypes, Services
  <2>2. RestTypes'
    BY <1>1, <1>3, <2>1 DEF BeginStart, RestTypes, uiVars, roomVars
  <2> QED BY <1>2, <2>2, NewTypeParts
<1>4. ASSUME NEW result \in BOOLEAN, FinishStart(result) PROVE TypeInv'
  <2>1. service' \in Services
    BY <1>1, <1>4 DEF FinishStart, RestTypes, Services
  <2>2. executor' \in Seq(Work)
    BY <1>1, <1>4 DEF FinishStart, RestTypes
  <2> DEFINE m == Posted(IF result THEN "started" ELSE "failed")
  <2>3. m \in Message /\ m.what # "line"
    BY PostedType
  <2>4. looper' = Append(looper, m)
    BY <1>4 DEF FinishStart
  <2> HIDE DEF m
  <2>5. looper' \in Seq(Message) /\ LinesRead(looper')
    BY <1>1, <2>3, <2>4, LooperAppend DEF RestTypes
  <2>6. opening' = FALSE
    BY <1>4 DEF FinishStart
  <2>7. RestTypes'
    BY <1>1, <1>4, <2>1, <2>2, <2>5, <2>6 DEF FinishStart, RestTypes, uiVars, roomVars
  <2> QED BY <1>2, <2>7, NewTypeParts
<1>5. CASE Disconnects
  <2>1. service' \in Services
    BY <1>1, <1>5 DEF Disconnects, RestTypes, Services
  <2>2. RestTypes'
    BY <1>1, <1>5, <2>1 DEF Disconnects, RestTypes, uiVars, roomVars
  <2> QED BY <1>2, <2>2, NewTypeParts
<1> QED BY <1>3, <1>4, <1>5 DEF Service

LEMMA LifecycleTypeInv == ASSUME TypeInv, Lifecycle PROVE TypeInv'
<1>1. RestTypes /\ ChatInv
  BY TypeParts
<1>2. sockets' \in Sockets /\ UNCHANGED <<connect, socketChannel, reader, receivedata, short, typed, shown, sent>>
  <2>1. CASE OnPause \/ OnStop \/ OnResume
    BY <1>1, <2>1 DEF OnPause, OnStop, OnResume, chatVars, ChatInv
  <2>2. CASE OnDestroy
    BY <2>2, CloseTypes DEF OnDestroy
  <2> QED BY <2>1, <2>2 DEF Lifecycle
<1>3. ChatInv'
  BY <1>2, ChatKept
<1>4. screen' \in [at : {"shown", "paused", "hidden", "destroyed"}, left : 0..MaxPauses]
  <2>1. screen.left \in 0..MaxPauses
    BY <1>1 DEF RestTypes
  <2> QED BY <1>1, <2>1, Bounds DEF Lifecycle, OnPause, OnStop, OnResume, OnDestroy, RestTypes
<1>5. service' \in Services
  BY <1>1, StopTypes DEF Lifecycle, OnPause, OnStop, OnResume, OnDestroy, RestTypes
<1>6. requests' \in Seq(Request)
  <2>1. requests \in Seq(Request) /\ Append(requests, "delete") \in Seq(Request)
    BY <1>1 DEF RestTypes, Request
  <2> QED BY <2>1 DEF Lifecycle, OnPause, OnStop, OnResume, OnDestroy, roomVars
<1>7. history' \subseteq Troubles
  BY <1>1 DEF Lifecycle, OnPause, OnStop, OnResume, OnDestroy, RestTypes, Troubles
<1>8. UNCHANGED <<mIsRecording, mTimer, looper, executor, opening, listed, dead>>
  BY DEF Lifecycle, OnPause, OnStop, OnResume, OnDestroy, roomVars
<1>9. RestTypes'
  BY <1>1, <1>4, <1>5, <1>6, <1>7, <1>8 DEF RestTypes
<1> QED BY <1>3, <1>9, NewTypeParts

LEMMA ServerTypeInv == ASSUME TypeInv, Serve \/ RequestFails \/ TimerTick PROVE TypeInv'
<1>1. RestTypes /\ ChatInv
  BY TypeParts
<1>2. ChatInv'
  <2>1. UNCHANGED chatVars
    BY DEF Serve, RequestFails, TimerTick
  <2>2. sockets' \in Sockets
    BY <1>1, <2>1 DEF chatVars, ChatInv
  <2> QED BY <2>1, <2>2, ChatKept DEF chatVars
<1>3. CASE Serve \/ RequestFails
  <2>1. PICK i \in DOMAIN requests :
          /\ requests' = RemoveAt(requests, i)
          /\ listed' \in {listed, requests[i] = "add"} /\ history' \subseteq history \cup {"late"}
          /\ UNCHANGED <<uiVars, service, looper, executor, opening, dead>>
    BY <1>3 DEF Serve, RequestFails
  <2>2. requests' \in Seq(Request)
    BY <1>1, <2>1, RemoveAtProperties DEF RestTypes
  <2>3. history' \subseteq Troubles
    BY <1>1, <2>1 DEF RestTypes, Troubles
  <2>4. {mIsRecording, mTimer, opening, listed, dead}' \subseteq BOOLEAN
    BY <1>1, <2>1 DEF RestTypes, uiVars
  <2>5. RestTypes'
    BY <1>1, <2>1, <2>2, <2>3, <2>4 DEF RestTypes, uiVars
  <2> QED BY <1>2, <2>5, NewTypeParts
<1>4. CASE TimerTick
  <2>1. looper' = Append(looper, Posted("lost"))
    BY <1>4 DEF TimerTick
  <2>2. looper' \in Seq(Message) /\ LinesRead(looper')
    BY <1>1, <2>1, LooperAppend, PostedType DEF RestTypes
  <2>3. RestTypes'
    BY <1>1, <1>4, <2>2 DEF TimerTick, RestTypes, uiVars, roomVars
  <2> QED BY <1>2, <2>3, NewTypeParts
<1> QED BY <1>3, <1>4

LEMMA ToggleTypeInv == ASSUME TypeInv, ToggleBroadcasting PROVE TypeInv'
<1>1. RestTypes /\ ChatInv
  BY TypeParts
<1>2. UNCHANGED <<screen, looper, opening, socketChannel, reader, receivedata, short, typed, shown, sent,
                  listed, dead>>
  BY DEF ToggleBroadcasting
<1>3. CASE mIsRecording /\ TriggerStopRecording /\ UNCHANGED <<executor, connect, history>>
  <2>1. ChatInv'
    BY <1>2, <1>3, TriggerTypes, ChatKept
  <2>2. RestTypes'
    BY <1>1, <1>2, <1>3, TriggerTypes DEF RestTypes, Request
  <2> QED BY <2>1, <2>2, NewTypeParts
<1>4. CASE /\ ~mIsRecording /\ ~service.connected /\ Asked < MaxStarts
           /\ requests' = Append(requests, "add")
           /\ connect' = [connect EXCEPT ![Asked + 1] = "new"]
           /\ executor' = Append(executor, Start)
           /\ history' = IF Starting THEN history \cup {"twice"} ELSE history
           /\ UNCHANGED <<service, mIsRecording, mTimer, sockets>>
  <2>1. /\ Asked' = Asked + 1 /\ {m \in Starts : connect'[m] # "none"} = 1..(Asked + 1)
        /\ connect' \in [Starts -> {"none", "new", "connecting", "returned", "done"}]
    BY <1>4, MoreAsked
  <2>2. Asked \in Nat
    BY AskedBounded
  <2>3. 0..Asked \subseteq 0..Asked'
    BY <2>1, <2>2
  <2>4. (\E n \in Starts : connect'[n] \notin {"none", "new"}) => socketChannel' # 0
    <3>1. \A n \in Starts : connect'[n] \in {connect[n], "new"}
      BY <1>1, <1>4 DEF ChatInv
    <3> QED BY <1>1, <1>2, <3>1 DEF ChatInv
  <2>5. ChatInv'
    BY <1>1, <1>2, <1>4, <2>1, <2>3, <2>4 DEF ChatInv
  <2>6. executor' \in Seq(Work) /\ requests' \in Seq(Request)
    BY <1>1, <1>4 DEF RestTypes, Work, Request
  <2>7. opening' => executor' # <<>> /\ Head(executor') = Start
    <3>1. executor # <<>> => Head(executor') = Head(executor) /\ executor' # <<>>
      BY <1>1, <1>4 DEF RestTypes, Work
    <3> QED BY <1>1, <1>2, <3>1 DEF RestTypes
  <2>8. history' \subseteq Troubles
    BY <1>1, <1>4 DEF RestTypes, Troubles
  <2>9. RestTypes'
    BY <1>1, <1>2, <1>4, <2>6, <2>7, <2>8 DEF RestTypes
  <2> QED BY <2>5, <2>9, NewTypeParts
<1> QED BY <1>3, <1>4 DEF ToggleBroadcasting

LEMMA HandleTypeInv == ASSUME TypeInv, HandleMessage PROVE TypeInv'
<1>1. RestTypes /\ ChatInv
  BY TypeParts
<1>2. /\ looper # <<>> /\ looper' = Tail(looper)
      /\ UNCHANGED <<screen, executor, opening, connect, socketChannel, reader, receivedata, short, typed,
                     sent, listed>>
  BY DEF HandleMessage
<1>3. looper' \in Seq(Message) /\ LinesRead(looper')
  <2>1. looper' \in Seq(Message)
    BY <1>1, <1>2 DEF RestTypes
  <2> QED BY <1>1, <1>2, <2>1, LooperTail DEF RestTypes
<1>4. CASE Started \/ Failed \/ ConnectionLost
  <2>1. {mIsRecording', mTimer'} \subseteq BOOLEAN /\ service' \in Services /\ sockets' \in Sockets
        /\ requests' \in Seq(Request) /\ shown' = shown
    BY <1>1, <1>4, TriggerTypes DEF Started, Failed, ConnectionLost, RestTypes, ChatInv, Request
  <2>2. history' \subseteq Troubles
    BY <1>1, <1>4 DEF Started, Failed, ConnectionLost, RestTypes, Troubles
  <2>3. dead' \in BOOLEAN
    BY <1>1, <1>4 DEF Started, Failed, ConnectionLost, RestTypes
  <2>4. ChatInv'
    BY <1>2, <2>1, ChatKept
  <2>5. RestTypes'
    BY <1>1, <1>2, <1>3, <2>1, <2>2, <2>3 DEF RestTypes
  <2> QED BY <2>4, <2>5, NewTypeParts
<1>5. CASE Head(looper).what = "line" /\ ShowUpdate(Head(looper).line)
  <2>1. Head(looper).line \in Nat /\ Head(looper).line > 0
    <3>1. Head(looper) \in Message
      BY <1>1, <1>2 DEF RestTypes
    <3>2. Head(looper).line > 0
      BY <1>1, <1>2, <1>5, LooperTail DEF RestTypes
    <3> QED BY <3>1, <3>2, Bounds DEF Message
  <2>2. PICK v \in Head(looper).line..receivedata :
          shown' \in {shown, Append(shown, v)} /\ dead' \in {dead, TRUE}
    BY <1>5 DEF ShowUpdate
  <2>3. v \in 1..MaxRead
    BY <1>1, <2>1, <2>2, Bounds DEF ChatInv
  <2>4. shown' \in Seq(1..MaxRead)
    <3>1. shown \in Seq(1..MaxRead) /\ Append(shown, v) \in Seq(1..MaxRead)
      BY <1>1, <2>3 DEF ChatInv
    <3> QED BY <2>2, <3>1
  <2>5. Asked' = Asked
    BY <1>2, SameAsked
  <2>6. ChatInv'
    BY <1>1, <1>2, <1>5, <2>4, <2>5 DEF ShowUpdate, ChatInv
  <2>7. RestTypes'
    BY <1>1, <1>2, <1>3, <1>5, <2>2 DEF ShowUpdate, RestTypes
  <2> QED BY <2>6, <2>7, NewTypeParts
<1> QED BY <1>4, <1>5 DEF HandleMessage

LEMMA ThreadTypeInv ==
  ASSUME TypeInv, UNCHANGED <<uiVars, service, opening, roomVars, history>>,
         NEW n \in Starts, OpenSocket(n) \/ Connected(n) \/ StartReader(n) \/ ServerCloses(n)
  PROVE  TypeInv'
<1>1. RestTypes /\ ChatInv
  BY TypeParts
<1>2. dead' \in BOOLEAN /\ UNCHANGED <<looper, executor, receivedata, short, typed, shown, sent>>
  BY <1>1 DEF OpenSocket, Connected, StartReader, ServerCloses, RestTypes
<1>3. RestTypes'
  BY <1>2, RestKept
<1>4. sockets' \in Sockets
  BY <1>1 DEF OpenSocket, Connected, StartReader, ServerCloses, ChatInv, Sockets
<1>5. CASE OpenSocket(n)
  <2>1. /\ Asked' = Asked /\ {m \in Starts : connect'[m] # "none"} = 1..Asked
        /\ connect' \in [Starts -> {"none", "new", "connecting", "returned", "done"}]
        /\ n \in 1..Asked
    BY <1>5, ThreadAsked DEF OpenSocket
  <2>2. n \in 0..Asked' /\ n # 0
    BY <2>1, AskedBounded
  <2>3. socketChannel' = n /\ reader' = reader
    BY <1>5 DEF OpenSocket
  <2>4. ChatInv'
    BY <1>1, <1>2, <1>4, <2>1, <2>2, <2>3 DEF ChatInv
  <2> QED BY <1>3, <2>4, NewTypeParts
<1>6. CASE Connected(n)
  <2>1. /\ Asked' = Asked /\ {m \in Starts : connect'[m] # "none"} = 1..Asked
        /\ connect' \in [Starts -> {"none", "new", "connecting", "returned", "done"}]
    BY <1>6, ThreadAsked DEF Connected
  <2>2. socketChannel # 0 /\ UNCHANGED <<socketChannel, reader>>
    BY <1>1, <1>6 DEF Connected, ChatInv
  <2>3. ChatInv'
    BY <1>1, <1>2, <1>4, <2>1, <2>2 DEF ChatInv
  <2> QED BY <1>3, <2>3, NewTypeParts
<1>7. CASE StartReader(n)
  <2>1. /\ Asked' = Asked /\ {m \in Starts : connect'[m] # "none"} = 1..Asked
        /\ connect' \in [Starts -> {"none", "new", "connecting", "returned", "done"}]
    BY <1>7, ThreadAsked DEF StartReader
  <2>2. socketChannel # 0 /\ UNCHANGED socketChannel
    BY <1>1, <1>7 DEF StartReader, ChatInv
  <2>3. reader' \in {reader, [at |-> "reading", from |-> socketChannel]}
    BY <1>7 DEF StartReader
  <2>4. /\ reader' \in [at : {"new", "reading", "posting", "ended"}, from : 0..Asked]
        /\ reader'.at = "reading" => reader'.from # 0
        /\ reader'.at = "posting" => receivedata > 0
    BY <1>1, <2>2, <2>3 DEF ChatInv
  <2>5. ChatInv'
    BY <1>1, <1>2, <1>4, <2>1, <2>2, <2>4 DEF ChatInv
  <2> QED BY <1>3, <2>5, NewTypeParts
<1>8. CASE ServerCloses(n)
  <2>1. ChatInv'
    BY <1>2, <1>4, <1>8, ChatKept DEF ServerCloses
  <2> QED BY <1>3, <2>1, NewTypeParts
<1> QED BY <1>5, <1>6, <1>7, <1>8

LEMMA ReaderTypeInv ==
  ASSUME TypeInv, UNCHANGED <<uiVars, service, opening, roomVars, history>>,
         Read \/ Post \/ EndOfReading
  PROVE  TypeInv'
<1>1. RestTypes /\ ChatInv
  BY TypeParts
<1>2. Asked' = Asked /\ UNCHANGED <<connect, socketChannel, typed, shown, sent, executor, dead>>
  BY SameAsked DEF Read, Post, EndOfReading
<1>3. reader.at # "new" /\ socketChannel # 0
  BY <1>1 DEF Read, Post, EndOfReading, ChatInv
<1>4. CASE Read
  <2>1. receivedata' \in 0..MaxRead /\ receivedata' > 0 /\ short' \subseteq 1..receivedata'
    BY <1>1, <1>4, Bounds DEF Read, ChatInv
  <2>2. reader' \in [at : {"new", "reading", "posting", "ended"}, from : 0..Asked] /\ reader'.at = "posting"
    BY <1>1, <1>4 DEF Read, ChatInv
  <2>3. ChatInv'
    BY <1>1, <1>2, <1>3, <1>4, <2>1, <2>2 DEF Read, ChatInv
  <2>4. RestTypes'
    BY <1>1, <1>4, RestKept DEF Read, RestTypes
  <2> QED BY <2>3, <2>4, NewTypeParts
<1>5. CASE Post
  <2> DEFINE m == [what |-> "line", line |-> receivedata]
  <2>1. m \in Message /\ m.line > 0
    BY <1>1, <1>5 DEF Post, ChatInv, Message
  <2>2. looper' = Append(looper, m)
    BY <1>5 DEF Post
  <2> HIDE DEF m
  <2>3. looper' \in Seq(Message) /\ LinesRead(looper')
    BY <1>1, <2>1, <2>2, LooperAppend DEF RestTypes
  <2>4. /\ reader' \in [at : {"new", "reading", "posting", "ended"}, from : 0..Asked]
        /\ reader'.at = "reading" /\ reader'.from # 0
    BY <1>1, <1>3, <1>5 DEF Post, ChatInv
  <2>5. ChatInv'
    BY <1>1, <1>2, <1>3, <1>5, <2>4 DEF Post, ChatInv
  <2>6. RestTypes'
    BY <1>1, <1>2, <2>3 DEF RestTypes, uiVars, roomVars
  <2> QED BY <2>5, <2>6, NewTypeParts
<1>6. CASE EndOfReading
  <2>1. /\ reader' \in [at : {"new", "reading", "posting", "ended"}, from : 0..Asked]
        /\ reader'.at = "ended"
    BY <1>1, <1>6 DEF EndOfReading, ChatInv
  <2>2. sockets' \in Sockets
    BY <1>6, CloseTypes DEF EndOfReading
  <2>3. ChatInv'
    BY <1>1, <1>2, <1>3, <1>6, <2>1, <2>2 DEF EndOfReading, ChatInv
  <2>4. RestTypes'
    BY <1>1, <1>6, RestKept DEF EndOfReading, RestTypes
  <2> QED BY <2>3, <2>4, NewTypeParts
<1> QED BY <1>4, <1>5, <1>6

LEMMA LinesTypeInv ==
  ASSUME TypeInv, UNCHANGED <<uiVars, service, opening, roomVars, history>>,
         SendMessage \/ SendmsgTask
  PROVE  TypeInv'
<1>1. RestTypes /\ ChatInv
  BY TypeParts
<1>2. /\ Asked' = Asked
      /\ UNCHANGED <<connect, socketChannel, sockets, reader, receivedata, short, shown, looper>>
  BY SameAsked DEF SendMessage, SendmsgTask
<1>3. CASE SendMessage
  <2>1. typed' \in Typed /\ typed' \in 0..MaxTyped
    BY <1>1, <1>3, Bounds DEF SendMessage, ChatInv, Typed
  <2>2. executor' = Append(executor, typed') /\ UNCHANGED <<sent, dead>>
    BY <1>3 DEF SendMessage
  <2>3. executor' \in Seq(Work)
    BY <1>1, <2>1, <2>2 DEF RestTypes, Work
  <2>4. executor # <<>> => Head(executor') = Head(executor) /\ executor' # <<>>
    <3>1. typed' \in Work
      BY <2>1 DEF Work
    <3> QED BY <1>1, <2>2, <3>1 DEF RestTypes
  <2>5. ChatInv'
    BY <1>1, <1>2, <2>1, <2>2 DEF ChatInv
  <2>6. RestTypes'
    BY <1>1, <1>2, <2>2, <2>3, <2>4 DEF RestTypes, uiVars, roomVars
  <2> QED BY <2>5, <2>6, NewTypeParts
<1>4. CASE SendmsgTask
  <2>1. Head(executor) \in Typed /\ executor' = Tail(executor) /\ executor' \in Seq(Work)
    BY <1>1, <1>4 DEF SendmsgTask, RestTypes, Work
  <2>2. sent' \in {sent, Append(sent, Head(executor))} /\ typed' = typed
    BY <1>4 DEF SendmsgTask
  <2>3. sent' \in Seq(Typed)
    <3>1. sent \in Seq(Typed)
      BY <1>1 DEF ChatInv
    <3>2. Append(sent, Head(executor)) \in Seq(Typed)
      BY <2>1, <3>1
    <3> QED BY <2>2, <3>1, <3>2
  <2>4. ~opening /\ dead' \in BOOLEAN
    BY <1>1, <1>4 DEF SendmsgTask, RestTypes
  <2>5. ChatInv'
    BY <1>1, <1>2, <2>2, <2>3 DEF ChatInv
  <2>6. RestTypes'
    BY <1>1, <1>2, <2>1, <2>4 DEF RestTypes, uiVars, roomVars
  <2> QED BY <2>5, <2>6, NewTypeParts
<1> QED BY <1>3, <1>4

LEMMA NextTypeInv == ASSUME TypeInv, [Next]_vars PROVE TypeInv'
<1>1. CASE UNCHANGED vars
  BY <1>1 DEF vars, uiVars, chatVars, roomVars, TypeInv, TypeOK, Ordered, Asked
<1>2. CASE Chat
  <2>1. UNCHANGED <<uiVars, service, opening, roomVars, history>>
    BY <1>2 DEF Chat
  <2> QED BY <1>2, <2>1, ThreadTypeInv, ReaderTypeInv, LinesTypeInv DEF Chat
<1> QED BY <1>1, <1>2, ToggleTypeInv, HandleTypeInv, LifecycleTypeInv, ServiceTypeInv, ServerTypeInv
        DEF Next

\* Every variable of the screen keeps its type: in particular the reader reads
\* and closes only sockets that some start has made.
THEOREM TypeCorrect == Spec => []TypeOK
<1>1. Init => TypeInv
  BY InitTypeInv
<1>2. TypeInv /\ [Next]_vars => TypeInv'
  BY NextTypeInv
<1>3. TypeInv => TypeOK
  BY DEF TypeInv
<1> QED BY <1>1, <1>2, <1>3, PTL DEF Spec

-----------------------------------------------------------------------------
(* The chat.                                                                *)

\* The last line read that was posted.
Newest == IF reader.at = "posting" THEN receivedata - 1 ELSE receivedata

\* The last line read waits to be shown, is about to be posted, or its update has
\* run.
LastOnItsWay ==
  reader.at # "posting" /\ receivedata > 0 =>
    \/ HasLine(looper, receivedata)
    \/ NoLine(looper) /\ IF receivedata \in short THEN dead ELSE shown # <<>> /\ Last(shown) = receivedata

ChatSafe ==
  /\ \A i \in DOMAIN shown : shown[i] \in i..receivedata \ short
  /\ Len(shown) <= Newest
  /\ LinesWait(looper, Len(shown), Newest)
  /\ LastOnItsWay
  /\ Ascending(sent)
  /\ Follow(sent, executor, typed)

LEMMA InitChat == ASSUME Init PROVE ChatSafe
BY Bounds DEF Init, ChatSafe, Ascending, IsSorted, Follow, LastOnItsWay, LinesWait, Newest

\* Steps that take no line from any place to the next.
LEMMA ChatWalk ==
  ASSUME ChatSafe, looper' = looper, dead => dead',
         UNCHANGED <<shown, sent, executor, typed, receivedata, short>>,
         reader'.at = "posting" <=> reader.at = "posting"
  PROVE  ChatSafe'
BY DEF ChatSafe, LastOnItsWay, Newest

\* An end of a start or a lost connection is posted.
LEMMA PostedKeepsLines ==
  ASSUME TypeInv, ChatSafe, NEW what \in {"started", "failed", "lost"},
         looper' = Append(looper, Posted(what))
  PROVE  /\ \A n : HasLine(looper, n) => HasLine(looper', n)
         /\ LinesWait(looper', Len(shown), Newest) /\ (NoLine(looper) => NoLine(looper'))
<1>1. looper \in Seq(Message)
  BY TypeParts DEF RestTypes
<1>2. \A n : HasLine(looper, n) => HasLine(looper', n)
  BY <1>1, PostedType, LooperAppend
<1>3. Posted(what).what # "line" /\ Posted(what) \in Message
  BY PostedType
<1>4. LinesWait(looper', Len(shown), Newest) /\ (NoLine(looper) => NoLine(looper'))
  BY <1>1, <1>3, WaitOther DEF ChatSafe
<1> QED BY <1>2, <1>4

LEMMA ServiceChat == ASSUME TypeInv, ChatSafe, Service PROVE ChatSafe'
<1>1. RestTypes /\ ChatInv
  BY TypeParts
<1>2. CASE BeginStart \/ Disconnects
  BY <1>2, ChatWalk DEF BeginStart, Disconnects, chatVars
<1>3. ASSUME NEW result \in BOOLEAN, FinishStart(result) PROVE ChatSafe'
  <2>1. UNCHANGED chatVars
    BY <1>3 DEF FinishStart
  <2>2. /\ \A n : HasLine(looper, n) => HasLine(looper', n)
        /\ LinesWait(looper', Len(shown), Newest) /\ (NoLine(looper) => NoLine(looper')) /\ dead' = dead
    BY <1>3, PostedKeepsLines DEF FinishStart
  <2>3. executor # <<>> /\ executor' = Tail(executor)
    BY <1>1, <1>3 DEF FinishStart, RestTypes
  <2>4. Follow(sent, Tail(executor), typed)
    <3>1. sent \in Seq(Typed) /\ executor \in Seq(Work) /\ typed \in Nat
      BY <1>1 DEF RestTypes, ChatInv
    <3> QED BY <2>3, <3>1, FollowTail DEF ChatSafe
  <2> QED BY <2>1, <2>2, <2>3, <2>4 DEF ChatSafe, LastOnItsWay, Newest, chatVars
<1> QED BY <1>2, <1>3 DEF Service

LEMMA ToggleChat == ASSUME TypeInv, ChatSafe, ToggleBroadcasting PROVE ChatSafe'
<1>1. RestTypes /\ ChatInv
  BY TypeParts
<1>2. UNCHANGED <<looper, reader, receivedata, short, typed, shown, sent, dead>>
  BY DEF ToggleBroadcasting
<1>3. executor' \in {executor, Append(executor, Start)}
  BY DEF ToggleBroadcasting
<1>4. Follow(sent, Append(executor, Start), typed)
  <2>1. sent \in Seq(Typed) /\ executor \in Seq(Work) /\ typed \in Nat
    BY <1>1 DEF RestTypes, ChatInv
  <2> QED BY <2>1, FollowStart DEF ChatSafe
<1> QED BY <1>2, <1>3, <1>4 DEF ChatSafe, LastOnItsWay, Newest

LEMMA HandleChat == ASSUME TypeInv, ~dead, ChatSafe, HandleMessage PROVE ChatSafe'
<1>1. RestTypes /\ ChatInv
  BY TypeParts
<1>2. /\ looper # <<>> /\ looper' = Tail(looper)
      /\ UNCHANGED <<executor, reader, receivedata, short, typed, sent>>
  BY DEF HandleMessage
<1>3. \A n : HasLine(looper, n) => HasLine(looper', n) \/ Head(looper) = [what |-> "line", line |-> n]
  BY <1>1, <1>2, LooperTail DEF RestTypes
<1>4. looper \in Seq(Message) /\ Len(shown) \in Nat /\ Newest \in Int
      /\ LinesWait(looper, Len(shown), Newest) /\ Len(shown) <= Newest
  BY <1>1 DEF RestTypes, ChatInv, Newest, ChatSafe
<1>5. Newest' = Newest
  BY <1>2 DEF Newest
<1>6. CASE Head(looper).what \in {"started", "failed", "lost"} /\ (Started \/ Failed \/ ConnectionLost)
  <2>1. shown' = shown
    BY <1>6 DEF Started, Failed, ConnectionLost
  <2>2. \A n : Head(looper) # [what |-> "line", line |-> n]
    BY <1>6
  <2>3. LinesWait(looper', Len(shown), Newest) /\ (NoLine(looper) => NoLine(looper'))
    BY <1>2, <1>4, <1>6, WaitTail
  <2>4. LastOnItsWay'
    BY <1>2, <1>3, <1>6, <2>1, <2>2, <2>3 DEF LastOnItsWay, ChatSafe
  <2> QED BY <1>2, <1>5, <2>1, <2>3, <2>4 DEF ChatSafe
<1>7. CASE Head(looper).what = "line" /\ ShowUpdate(Head(looper).line)
  <2> DEFINE h == Head(looper).line
  <2>1. h \in (Len(shown) + 1)..Newest /\ LinesWait(looper', h, Newest)
    BY <1>2, <1>4, <1>7, WaitTail
  <2>2. PICK v \in h..receivedata :
          IF v \in short THEN dead' = TRUE /\ shown' = shown
                         ELSE shown' = Append(shown, v) /\ dead' = dead
    BY <1>7 DEF ShowUpdate
  <2>3. receivedata \in Nat /\ Newest <= receivedata /\ h \in Int
    BY <1>1, <2>1, <1>4 DEF ChatInv, Newest
  <2> HIDE DEF h
  <2>4. v \in Int /\ Len(shown) + 1 <= v /\ v <= receivedata
    BY <1>4, <2>1, <2>2, <2>3
  <2>5. ASSUME reader.at # "posting", receivedata > 0, ~HasLine(looper', receivedata)
        PROVE  /\ NoLine(looper')
               /\ IF receivedata \in short THEN dead' ELSE shown' # <<>> /\ Last(shown') = receivedata
    <3>1. Head(looper) = [what |-> "line", line |-> receivedata]
      <4>1. CASE ~HasLine(looper, receivedata)
        <5>1. NoLine(looper)
          BY <2>5, <4>1 DEF ChatSafe, LastOnItsWay
        <5> QED BY <1>2, <1>4, <1>7, <5>1 DEF NoLine
      <4> QED BY <1>3, <2>5, <4>1
    <3>2. h = receivedata /\ v = receivedata
      <4>1. h = receivedata
        BY <3>1 DEF h
      <4> QED BY <2>2, <2>3, <2>4, <4>1
    <3>3. v \notin short => shown' # <<>> /\ Last(shown') = v
      BY <1>1, <2>2 DEF Last, ChatInv
    <3>4. Newest = receivedata
      BY <2>5 DEF Newest
    <3>5. \A i \in DOMAIN looper' : looper'[i].what = "line" => looper'[i].line \in (receivedata + 1)..receivedata
      BY <2>1, <3>2, <3>4 DEF LinesWait
    <3>6. NoLine(looper')
      BY <2>3, <3>5 DEF NoLine
    <3> QED BY <2>2, <3>2, <3>3, <3>6
  <2>6. LastOnItsWay'
    BY <1>2, <2>5 DEF LastOnItsWay
  <2>7. CASE v \in short
    <3>1. shown' = shown
      BY <2>2, <2>7
    <3>2. LinesWait(looper', Len(shown), Newest)
      BY <1>4, <2>1, <2>3, WaitLess
    <3> QED BY <1>2, <1>4, <1>5, <2>6, <3>1, <3>2 DEF ChatSafe
  <2>8. CASE v \notin short
    <3>1. shown' = Append(shown, v)
      BY <2>2, <2>8
    <3>2. Len(shown') = Len(shown) + 1 /\ Len(shown') <= Newest
      BY <1>1, <1>4, <2>1, <3>1 DEF ChatInv
    <3>3. LinesWait(looper', Len(shown) + 1, Newest)
      BY <1>4, <2>1, <2>3, WaitLess
    <3>4. \A i \in DOMAIN shown' : shown'[i] \in i..receivedata \ short
      <4>1. \A i \in DOMAIN shown' : (i \in DOMAIN shown /\ shown'[i] = shown[i])
                                     \/ (i = Len(shown) + 1 /\ shown'[i] = v)
        BY <1>1, <3>1 DEF ChatInv
      <4>2. v \in (Len(shown) + 1)..receivedata
        BY <1>4, <2>3, <2>4
      <4> QED BY <2>8, <4>1, <4>2 DEF ChatSafe
    <3> QED BY <1>2, <1>5, <2>6, <3>2, <3>3, <3>4 DEF ChatSafe
  <2> QED BY <2>7, <2>8
<1> QED BY <1>6, <1>7 DEF HandleMessage

LEMMA ChatChat == ASSUME TypeInv, ~dead, ChatSafe, Chat PROVE ChatSafe'
<1>1. RestTypes /\ ChatInv
  BY TypeParts
<1>2. ASSUME NEW n \in Starts, OpenSocket(n) \/ Connected(n) \/ StartReader(n) \/ ServerCloses(n)
      PROVE  ChatSafe'
  <2>1. reader'.at = "posting" <=> reader.at = "posting"
    BY <1>2 DEF OpenSocket, Connected, StartReader, ServerCloses
  <2> QED BY <1>2, <2>1, ChatWalk DEF OpenSocket, Connected, StartReader, ServerCloses
<1>3. CASE Read
  <2>1. reader'.at = "posting" /\ UNCHANGED <<shown, sent, executor, typed, looper>>
        /\ reader.at # "posting" /\ receivedata' = receivedata + 1
        /\ short' \subseteq short \cup {receivedata + 1} /\ receivedata \in Nat
    BY <1>1, <1>3 DEF Read, ChatInv
  <2>2. Newest' = receivedata /\ Newest = receivedata
    BY <2>1 DEF Newest
  <2>3. \A i \in DOMAIN shown : shown[i] \in i..receivedata' \ short'
    <3>1. ASSUME NEW i \in DOMAIN shown PROVE shown[i] \in i..receivedata' \ short'
      <4>1. shown[i] \in i..receivedata \ short /\ i \in Int
        BY <1>1 DEF ChatSafe, ChatInv
      <4> QED BY <2>1, <4>1
    <3> QED BY <3>1
  <2> QED BY <2>1, <2>2, <2>3 DEF ChatSafe, LastOnItsWay
<1>4. CASE Post
  <2> DEFINE m == [what |-> "line", line |-> receivedata]
  <2>1. m \in Message /\ looper \in Seq(Message) /\ receivedata \in Nat
        /\ Len(shown) \in Nat /\ m.what = "line" /\ m.line = receivedata
    BY <1>1 DEF RestTypes, ChatInv, Message
  <2>2. looper' = Append(looper, m) /\ UNCHANGED <<shown, receivedata, short, sent, executor, typed, dead>>
    BY <1>4 DEF Post
  <2>3. HasLine(looper', receivedata)
    BY <2>1, <2>2, LooperAppend
  <2>4. Newest' = receivedata /\ Newest = receivedata - 1
    BY <1>4 DEF Post, Newest
  <2>5. LinesWait(looper', Len(shown), receivedata) /\ Len(shown) <= receivedata
    <3> HIDE DEF m
    <3>1. LinesWait(looper, Len(shown), receivedata - 1) /\ Len(shown) <= receivedata - 1
      BY <2>4 DEF ChatSafe
    <3> QED BY <2>1, <2>2, <3>1, WaitLine
  <2> QED BY <2>2, <2>3, <2>4, <2>5 DEF ChatSafe, LastOnItsWay
<1>5. CASE EndOfReading
  <2>1. reader.at = "reading" /\ reader'.at # "posting"
    BY <1>1, <1>5 DEF EndOfReading, ChatInv
  <2> QED BY <1>5, <2>1, ChatWalk DEF EndOfReading
<1>6. CASE SendMessage
  <2>1. sent \in Seq(Typed) /\ executor \in Seq(Work) /\ typed \in Nat
    BY <1>1 DEF RestTypes, ChatInv
  <2>2. Follow(sent, Append(executor, typed + 1), typed + 1)
    BY <2>1, FollowTyped DEF ChatSafe
  <2>3. executor' = Append(executor, typed + 1) /\ typed' = typed + 1
        /\ UNCHANGED <<shown, sent, reader, receivedata, short, looper, dead>>
    BY <1>6 DEF SendMessage
  <2> QED BY <2>2, <2>3 DEF ChatSafe, LastOnItsWay, Newest
<1>7. CASE SendmsgTask
  <2>1. sent \in Seq(Typed) /\ executor \in Seq(Work) /\ typed \in Nat
    BY <1>1 DEF RestTypes, ChatInv
  <2>2. executor # <<>> /\ Head(executor) # Start /\ executor' = Tail(executor)
        /\ sent' \in {sent, Append(sent, Head(executor))}
        /\ UNCHANGED <<shown, reader, receivedata, short, looper, typed>> /\ (dead => dead')
    BY <1>7 DEF SendmsgTask
  <2>3. /\ Follow(sent, Tail(executor), typed)
        /\ Follow(Append(sent, Head(executor)), Tail(executor), typed)
        /\ \A i \in DOMAIN sent : sent[i] <= Head(executor)
    BY <2>1, <2>2, FollowTail DEF ChatSafe
  <2>4. Ascending(Append(sent, Head(executor)))
    <3>1. Head(executor) \in Typed
      BY <2>1, <2>2 DEF Work
    <3>2. Typed \subseteq Nat
      BY DEF Typed
    <3>3. sent \in Seq(Nat) /\ Head(executor) \in Nat
      BY <2>1, <3>1, <3>2, SeqMonotonic
    <3> QED BY <2>3, <3>3, AscendingAppend DEF ChatSafe
  <2> QED BY <2>2, <2>3, <2>4 DEF ChatSafe, LastOnItsWay, Newest
<1> QED BY <1>2, <1>3, <1>4, <1>5, <1>6, <1>7 DEF Chat

LEMMA NextChat == ASSUME TypeInv, ChatSafe, [Next]_vars PROVE ChatSafe'
<1>1. CASE UNCHANGED vars
  BY <1>1, ChatWalk DEF vars, chatVars
<1>2. CASE Serve \/ RequestFails \/ Lifecycle
  BY <1>2, ChatWalk DEF Serve, RequestFails, Lifecycle, OnPause, OnStop, OnResume, OnDestroy, chatVars
<1>3. CASE TimerTick
  <2>1. /\ \A n : HasLine(looper, n) => HasLine(looper', n)
        /\ LinesWait(looper', Len(shown), Newest) /\ (NoLine(looper) => NoLine(looper'))
    BY <1>3, PostedKeepsLines DEF TimerTick
  <2> QED BY <1>3, <2>1 DEF TimerTick, chatVars, ChatSafe, LastOnItsWay, Newest
<1> QED BY <1>1, <1>2, <1>3, ServiceChat, ToggleChat, HandleChat, ChatChat DEF Next

\* The chat does not fall behind, though the field is overwritten while updates
\* wait: the n-th entry is the n-th line read or a later one, and the newest line
\* is shown, or has ended the process for want of two fields, once no update
\* waits; the lines of the user reach the server in the order typed, whatever
\* starts are in the executor between them.
THEOREM LinesInOrder == Spec => []ChatInOrder
<1>1. Init => TypeInv /\ ChatSafe
  BY InitTypeInv, InitChat
<1>2. TypeInv /\ ChatSafe /\ [Next]_vars => TypeInv' /\ ChatSafe'
  BY NextTypeInv, NextChat
<1>3. TypeInv /\ ChatSafe => ChatInOrder
  <2> SUFFICES ASSUME TypeInv, ChatSafe PROVE ChatInOrder
    OBVIOUS
  <2>1. Waiting({"line"}) = {} => ~HasLine(looper, receivedata)
    BY DEF Waiting, HasLine
  <2> QED BY <2>1 DEF ChatInOrder, ChatSafe, LastOnItsWay
<1> QED BY <1>1, <1>2, <1>3, PTL DEF Spec

-----------------------------------------------------------------------------
(* The list of the server.                                                  *)

Begun == HasStart(executor) \/ HasEnded(looper)
Expected == Expect(requests, listed)
Excused == "hidden" \in history \/ "twice" \in history

\* But for a start asked for twice, one start is under way and none while a
\* broadcast runs; and what the list will say once it has answered, in order,
\* is what the screen will show once the start has ended.
RoomSafe ==
  /\ screen.at \in {"hidden", "destroyed"} => "hidden" \in history
  /\ "twice" \notin history => /\ Single(executor, looper)
                               /\ mIsRecording => ~Begun
  /\ "late" \notin history =>
       /\ (mIsRecording \/ Begun) /\ ~Expected => Excused
       /\ ~mIsRecording /\ ~Begun /\ Expected => "failed" \in history

LEMMA StartingBegun == ASSUME TypeInv PROVE Starting <=> Begun
BY DEF Starting, Begun, HasStart, HasEnded, Waiting, Ended

LEMMA InitRoom == ASSUME Init PROVE RoomSafe
BY DEF Init, RoomSafe, Single, OneStart, OneEnded, HasStart, HasEnded, Begun, Expected, Expect

\* Nothing of a start moves in the queues.
SameStarts ==
  /\ HasStart(executor') <=> HasStart(executor)
  /\ OneStart(executor) => OneStart(executor')
  /\ HasEnded(looper') <=> HasEnded(looper)
  /\ OneEnded(looper) => OneEnded(looper')

LEMMA StartsStay == ASSUME UNCHANGED <<executor, looper>> PROVE SameStarts
BY DEF SameStarts

LEMMA RoomWalk ==
  ASSUME RoomSafe, SameStarts, UNCHANGED <<mIsRecording, requests, listed, history>>,
         screen'.at \in {"hidden", "destroyed"} => screen.at \in {"hidden", "destroyed"}
  PROVE  RoomSafe'
<1>1. Begun' <=> Begun
  BY DEF SameStarts, Begun
<1>2. Single(executor, looper) => Single(executor', looper')
  BY DEF SameStarts, Single
<1>3. Expected' = Expected /\ (Excused' <=> Excused)
  BY DEF Expected, Excused
<1> QED BY <1>1, <1>2, <1>3 DEF RoomSafe

LEMMA ServiceRoom == ASSUME TypeInv, RoomSafe, Service PROVE RoomSafe'
<1>1. RestTypes
  BY TypeParts
<1>2. CASE BeginStart \/ Disconnects
  BY <1>2, RoomWalk, StartsStay DEF BeginStart, Disconnects, uiVars, roomVars
<1>3. ASSUME NEW result \in BOOLEAN, FinishStart(result) PROVE RoomSafe'
  <2> DEFINE m == Posted(IF result THEN "started" ELSE "failed")
  <2>1. m \in Message /\ m.what \in Ended
    BY PostedType DEF Ended
  <2>2. looper' = Append(looper, m) /\ executor' = Tail(executor)
    BY <1>3 DEF FinishStart
  <2> HIDE DEF m
  <2>3. executor \in Seq(Work) /\ executor # <<>> /\ Head(executor) = Start /\ looper \in Seq(Message)
    BY <1>1, <1>3 DEF FinishStart, RestTypes
  <2>4. /\ HasStart(executor)
        /\ OneStart(executor) => OneStart(executor') /\ ~HasStart(executor')
    BY <2>2, <2>3, ExecutorTail
  <2>5. /\ HasEnded(looper')
        /\ OneEnded(looper) /\ ~HasEnded(looper) => OneEnded(looper')
    BY <2>1, <2>2, <2>3, LooperAppend
  <2>6. Begun /\ Begun' /\ (Single(executor, looper) => Single(executor', looper'))
    BY <2>4, <2>5 DEF Begun, Single
  <2>7. UNCHANGED <<screen, mIsRecording, requests, listed, history>>
    BY <1>3 DEF FinishStart, uiVars, roomVars
  <2>8. Expected' = Expected /\ (Excused' <=> Excused)
    BY <2>7 DEF Expected, Excused
  <2> QED BY <2>6, <2>7, <2>8 DEF RoomSafe
<1> QED BY <1>2, <1>3 DEF Service

LEMMA ListTypes == ASSUME TypeInv PROVE requests \in Seq(Request)
BY TypeParts DEF RestTypes

LEMMA LifecycleRoom == ASSUME TypeInv, RoomSafe, Lifecycle PROVE RoomSafe'
<1>1. UNCHANGED <<mIsRecording, executor, looper, listed>>
  BY DEF Lifecycle, OnPause, OnStop, OnResume, OnDestroy, roomVars
<1>2. (Begun' <=> Begun) /\ (Single(executor, looper) <=> Single(executor', looper'))
  BY <1>1 DEF Begun, Single
<1>3. CASE OnPause \/ OnResume
  <2>1. screen'.at \notin {"hidden", "destroyed"}
    <3>1. screen \in [at : {"shown", "paused", "hidden", "destroyed"}, left : 0..MaxPauses]
      BY TypeParts DEF RestTypes
    <3> QED BY <1>3, <3>1 DEF OnPause, OnResume
  <2> QED BY <1>1, <1>3, <2>1, RoomWalk, StartsStay DEF OnPause, OnResume, roomVars
<1>4. CASE OnStop
  <2>1. ~Expected'
    BY <1>4, ListTypes, ExpectAppend DEF OnStop, Expected, Request
  <2>2. "hidden" \in history' /\ Excused' /\ (history \subseteq history')
    BY <1>4 DEF OnStop, Excused
  <2>3. "twice" \notin history' => "twice" \notin history
    BY <2>2
  <2> QED BY <1>1, <1>2, <2>1, <2>2, <2>3 DEF RoomSafe
<1>5. CASE OnDestroy
  <2>1. "hidden" \in history /\ history' = history
    BY <1>5 DEF OnDestroy, RoomSafe
  <2>2. CASE requests' = requests
    <3>1. Expected' = Expected
      BY <1>1, <2>2 DEF Expected
    <3> QED BY <1>1, <1>2, <2>1, <3>1 DEF RoomSafe, Excused
  <2>3. CASE requests' = Append(requests, "delete")
    <3>1. ~Expected'
      BY <2>3, ListTypes, ExpectAppend DEF Expected, Request
    <3> QED BY <1>1, <1>2, <2>1, <3>1 DEF RoomSafe, Excused
  <2> QED BY <1>5, <2>2, <2>3 DEF OnDestroy
<1> QED BY <1>3, <1>4, <1>5 DEF Lifecycle

LEMMA ServerRoom == ASSUME TypeInv, RoomSafe, Serve \/ RequestFails PROVE RoomSafe'
<1>1. UNCHANGED <<screen, mIsRecording, executor, looper>>
  BY DEF Serve, RequestFails, uiVars
<1>2. (Begun' <=> Begun) /\ (Single(executor, looper) <=> Single(executor', looper'))
  BY <1>1 DEF Begun, Single
<1>3. CASE history' = history \cup {"late"}
  BY <1>1, <1>2, <1>3 DEF RoomSafe
<1>4. CASE history' = history /\ Serve
  <2>1. CASE "late" \in history
    BY <1>1, <1>2, <1>4, <2>1 DEF RoomSafe
  <2>2. CASE "late" \notin history
    <3>1. PICK i \in DOMAIN requests :
            /\ requests' = RemoveAt(requests, i) /\ listed' = (requests[i] = "add")
            /\ history' = IF Overtakes(i) THEN history \cup {"late"} ELSE history
      BY <1>4 DEF Serve
    <3>2. ~Overtakes(i)
      BY <1>4, <2>2, <3>1
    <3>3. \A j \in 1..(i - 1) : requests[j] = requests[i]
      BY <3>2 DEF Overtakes
    <3>4. Expected' = Expected
      BY <3>1, <3>3, ListTypes, ExpectServed DEF Expected
    <3> QED BY <1>1, <1>2, <1>4, <3>4 DEF RoomSafe, Excused
  <2> QED BY <2>1, <2>2
<1> QED BY <1>3, <1>4 DEF Serve, RequestFails

\* The stop by the button or after a loss: nothing else is under way, but for
\* a start asked for twice.
LEMMA StopRoom ==
  ASSUME TypeInv, RoomSafe, TriggerStopRecording, SameStarts,
         UNCHANGED <<screen, listed, history>>
  PROVE  RoomSafe'
<1>1. (Begun' <=> Begun) /\ (Single(executor, looper) => Single(executor', looper'))
  BY DEF SameStarts, Begun, Single
<1>2. Excused' <=> Excused
  BY DEF Excused
<1>3. CASE mIsRecording
  <2>1. ~mIsRecording' /\ requests' = Append(requests, "delete")
    BY <1>3 DEF TriggerStopRecording
  <2>2. ~Expected'
    BY <2>1, ListTypes, ExpectAppend DEF Expected, Request
  <2>3. Begun => Excused
    BY <1>3 DEF RoomSafe, Excused
  <2> QED BY <1>1, <1>2, <2>1, <2>2, <2>3 DEF RoomSafe
<1>4. CASE ~mIsRecording
  <2>1. ~mIsRecording' /\ requests' = requests
    BY <1>4 DEF TriggerStopRecording
  <2>2. Expected' = Expected
    BY <2>1 DEF Expected
  <2> QED BY <1>1, <1>2, <1>4, <2>1, <2>2 DEF RoomSafe
<1> QED BY <1>3, <1>4

LEMMA ToggleRoom == ASSUME TypeInv, RoomSafe, ToggleBroadcasting PROVE RoomSafe'
<1>1. UNCHANGED <<screen, looper, listed>>
  BY DEF ToggleBroadcasting
<1>2. CASE mIsRecording /\ TriggerStopRecording /\ UNCHANGED <<executor, connect, history>>
  BY <1>1, <1>2, StopRoom, StartsStay
<1>3. CASE /\ ~mIsRecording /\ mIsRecording' = mIsRecording
           /\ requests' = Append(requests, "add")
           /\ executor' = Append(executor, Start)
           /\ history' = IF Starting THEN history \cup {"twice"} ELSE history
  <2>1. Expected'
    BY <1>3, ListTypes, ExpectAppend DEF Expected, Request
  <2>2. executor \in Seq(Work) /\ Start \in Work
    BY TypeParts DEF RestTypes, Work
  <2>3. HasStart(executor') /\ (OneStart(executor') <=> (OneStart(executor) /\ ~HasStart(executor)))
    BY <1>3, <2>2, ExecutorAppend
  <2>4. Begun'
    BY <2>3 DEF Begun
  <2>5. CASE Starting
    <3>1. "twice" \in history'
      BY <1>3, <2>5
    <3>2. "hidden" \in history => "hidden" \in history'
      BY <1>3
    <3> QED BY <1>1, <1>3, <2>1, <2>4, <3>1, <3>2 DEF RoomSafe
  <2>6. CASE ~Starting
    <3>1. history' = history /\ ~HasStart(executor) /\ ~HasEnded(looper)
      BY <1>3, <2>6, StartingBegun DEF Begun
    <3>2. Single(executor, looper) => Single(executor', looper')
      BY <1>1, <2>3, <3>1 DEF Single
    <3> QED BY <1>1, <1>3, <2>1, <2>4, <3>1, <3>2 DEF RoomSafe
  <2> QED BY <2>5, <2>6
<1> QED BY <1>2, <1>3 DEF ToggleBroadcasting

LEMMA HandleRoom == ASSUME TypeInv, RoomSafe, HandleMessage PROVE RoomSafe'
<1>1. looper \in Seq(Message)
  BY TypeParts DEF RestTypes
<1>2. looper # <<>> /\ looper' = Tail(looper) /\ UNCHANGED <<screen, executor, listed>>
  BY DEF HandleMessage
<1>3. /\ HasEnded(looper) <=> (HasEnded(looper') \/ Head(looper).what \in Ended)
      /\ OneEnded(looper) => /\ OneEnded(looper')
                             /\ Head(looper).what \in Ended => ~HasEnded(looper')
  BY <1>1, <1>2, LooperTail
<1>4. CASE Head(looper).what \in Ended /\ (Started \/ Failed)
  <2>1. Begun /\ (Single(executor, looper) => Single(executor', looper') /\ ~Begun')
    BY <1>2, <1>3, <1>4 DEF Begun, Single
  <2>2. Expected' = Expected
    BY <1>2, <1>4 DEF Started, Failed, Expected
  <2>3. CASE Started
    <3>1. mIsRecording' /\ history' = history
      BY <2>3 DEF Started
    <3> QED BY <1>2, <2>1, <2>2, <3>1 DEF RoomSafe, Excused
  <2>4. CASE Failed
    <3>1. ~mIsRecording' /\ history' = history \cup {"failed"}
      BY <2>4 DEF Failed
    <3> QED BY <1>2, <2>1, <2>2, <3>1 DEF RoomSafe, Excused
  <2> QED BY <1>4, <2>3, <2>4
<1>5. CASE Head(looper).what \notin Ended
  <2>1. SameStarts
    BY <1>2, <1>3, <1>5 DEF SameStarts
  <2>2. CASE ConnectionLost
    BY <1>2, <2>1, <2>2, StopRoom DEF ConnectionLost
  <2>3. CASE ShowUpdate(Head(looper).line)
    BY <1>2, <2>1, <2>3, RoomWalk DEF ShowUpdate
  <2> QED BY <1>5, <2>2, <2>3 DEF HandleMessage, Ended
<1>6. Head(looper).what \in Ended => Started \/ Failed
  BY DEF HandleMessage, Ended
<1> QED BY <1>4, <1>5, <1>6

LEMMA ChatRoom == ASSUME TypeInv, RoomSafe, Chat PROVE RoomSafe'
<1>1. RestTypes /\ ChatInv
  BY TypeParts
<1>2. UNCHANGED <<uiVars, service, opening, roomVars, history>>
  BY DEF Chat
<1>3. SameStarts
  <2>1. CASE UNCHANGED <<executor, looper>>
    BY <2>1, StartsStay
  <2>2. CASE Post
    <3> DEFINE m == [what |-> "line", line |-> receivedata]
    <3>1. m \in Message /\ m.what \notin Ended /\ looper \in Seq(Message)
      BY <1>1 DEF RestTypes, ChatInv, Message, Ended
    <3>2. looper' = Append(looper, m) /\ executor' = executor
      BY <2>2 DEF Post
    <3> HIDE DEF m
    <3> QED BY <3>1, <3>2, LooperAppend DEF SameStarts
  <2>3. CASE SendMessage
    <3>1. executor' = Append(executor, typed + 1) /\ looper' = looper /\ executor \in Seq(Work)
      BY <1>1, <2>3 DEF SendMessage, RestTypes
    <3>2. typed + 1 \in Work /\ typed + 1 # Start
      BY <1>1, <2>3, Bounds DEF SendMessage, ChatInv, Work, Typed, Start
    <3> QED BY <3>1, <3>2, ExecutorAppend DEF SameStarts
  <2>4. CASE SendmsgTask
    <3>1. executor # <<>> /\ Head(executor) # Start /\ executor' = Tail(executor)
          /\ looper' = looper /\ executor \in Seq(Work)
      BY <1>1, <2>4 DEF SendmsgTask, RestTypes
    <3> QED BY <3>1, ExecutorTail DEF SameStarts
  <2> QED BY <2>1, <2>2, <2>3, <2>4
          DEF Chat, OpenSocket, Connected, StartReader, ServerCloses, Read, EndOfReading
<1> QED BY <1>2, <1>3, RoomWalk DEF uiVars, roomVars

LEMMA NextRoom == ASSUME TypeInv, RoomSafe, [Next]_vars PROVE RoomSafe'
<1>1. CASE UNCHANGED vars
  BY <1>1, RoomWalk, StartsStay DEF vars, uiVars, roomVars
<1>2. CASE TimerTick
  <2>1. looper \in Seq(Message)
    BY TypeParts DEF RestTypes
  <2>2. looper' = Append(looper, Posted("lost")) /\ executor' = executor
    BY <1>2 DEF TimerTick
  <2>3. SameStarts
    BY <2>1, <2>2, PostedType, LooperAppend DEF SameStarts, Ended
  <2> QED BY <1>2, <2>3, RoomWalk DEF TimerTick, uiVars, roomVars
<1> QED BY <1>1, <1>2, ServiceRoom, LifecycleRoom, ServerRoom, ToggleRoom, HandleRoom, ChatRoom DEF Next

\* When every request was answered in order and no start is under way, the
\* server lists the room exactly during the broadcast: but for a start that
\* failed, a screen that was hidden, and a start asked for twice.
THEOREM RoomOnAir == Spec => []RoomListed
<1>1. Init => TypeInv /\ RoomSafe
  BY InitTypeInv, InitRoom
<1>2. TypeInv /\ RoomSafe /\ [Next]_vars => TypeInv' /\ RoomSafe'
  BY NextTypeInv, NextRoom
<1>3. TypeInv /\ RoomSafe => RoomListed
  <2> SUFFICES ASSUME TypeInv, RoomSafe, requests = <<>>, "late" \notin history, ~Starting
               PROVE  /\ ~mIsRecording /\ listed => "failed" \in history
                      /\ mIsRecording /\ ~listed => history \cap {"hidden", "twice"} # {}
    BY DEF RoomListed
  <2>1. ~Begun
    BY StartingBegun
  <2>2. Expected = listed
    BY DEF Expected, Expect
  <2> QED BY <2>1, <2>2 DEF RoomSafe, Excused
<1> QED BY <1>1, <1>2, <1>3, PTL DEF Spec

=============================================================================
