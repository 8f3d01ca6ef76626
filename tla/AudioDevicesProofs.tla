------------------------- MODULE AudioDevicesProofs -------------------------
(***************************************************************************)
(* A call is heard where the manager says it is, no attempt at SCO is      *)
(* forgotten and nothing is left of it after the call, for every number of *)
(* attempts and any series of changes of the headsets.                     *)
(*                                                                         *)
(* These invariants are inductive together with what holds before the   *)
(* call.  Every handler but stop() ends in updateAudioDeviceState(), so    *)
(* one lemma about it carries the proof: whatever state of the Bluetooth   *)
(* manager a handler hands to it, if timer and SCO are as that state       *)
(* demands, the invariant holds afterwards.                                *)
(***************************************************************************)
EXTENDS AudioDevices, TLAPS

\* Whatever was going on when the call ended, stop() leaves nothing of it: no
\* timer, no SCO, and the speaker as it was before the call.
StopRestores == am = "stopped" => ~bt.timer /\ ~bt.on /\ world.link = "off" /\ speaker = phone.speaker

\* Before the call nothing was done yet.
Untouched == am = "created" => /\ ~bt.timer /\ ~bt.on /\ bt.state = "UNINITIALIZED"
                               /\ world.link = "off" /\ selected = "NONE"

\* A headset is known, tried or used only through the service's proxy, so the
\* timeout of an attempt never finds the proxy gone.
ProxyHeld == am # "failed" => (bt.state \in InSco \cup {"HEADSET_AVAILABLE"} => bt.proxy)

\* The manager follows its Bluetooth manager.
Follows == am = "running" => (selected = "BLUETOOTH" <=> bt.state = "SCO_CONNECTED")

\* What state b of the Bluetooth manager has to do with the link, q being the
\* broadcasts on their way.
LinkOf(b, q) ==
  /\ b.state = "SCO_CONNECTED" => world.link \in {"on", "dropped"} \/ late
  /\ b.state = "SCO_CONNECTING" /\ Contains(q, "audio_connected") => world.link \in {"on", "dropped"} \/ late
  /\ world.link = "on" => b.state = "SCO_CONNECTED" \/ Contains(q, "audio_connected")

LinkKnown == am # "failed" => LinkOf(bt, intents)

DevicesInv == /\ TypeOK /\ HeardWhereSaid /\ AttemptsKnown /\ AssertionHolds /\ StopRestores
              /\ Untouched /\ ProxyHeld /\ Follows /\ LinkKnown

Managers == [state: States, proxy: BOOLEAN, attempts: 0..MaxAttempts, timer: BOOLEAN, on: BOOLEAN]

\* A state of the Bluetooth manager whose timer and SCO are as it demands.
Sound(b) == /\ b \in Managers
            /\ b.timer <=> b.state = "SCO_CONNECTING"
            /\ b.on <=> b.state \in InSco
            /\ b.state \in InSco \cup {"HEADSET_AVAILABLE"} => b.proxy

-----------------------------------------------------------------------------
LEMMA StopScoSound ==
  ASSUME NEW b, b \in Managers,
         b.state \notin InSco => ~b.timer /\ ~b.on,
         b.state = "HEADSET_AVAILABLE" => b.proxy
  PROVE  /\ Sound(StopSco(b))
         /\ StopSco(b).state \notin InSco
         /\ StopSco(b).proxy = b.proxy
<1>1. CASE b.state \in InSco
  BY <1>1 DEF StopSco, Sound, Managers, States, InSco, Searching
<1>2. CASE b.state \notin InSco
  BY <1>2 DEF StopSco, Sound, Managers, States, InSco, Searching
<1> QED BY <1>1, <1>2

LEMMA UpdateDeviceSound ==
  ASSUME NEW b, Sound(b)
  PROVE  /\ Sound(UpdateDevice(b))
         /\ UpdateDevice(b).on = b.on
         /\ b.state \in InSco => UpdateDevice(b).state = b.state
         /\ UpdateDevice(b).state \in InSco <=> b.state \in InSco
BY DEF UpdateDevice, Sound, Managers, States, InSco, Searching

LEMMA StartScoSound ==
  ASSUME NEW b, Sound(b), CanTry(b)
  PROVE  /\ Sound(StartSco(b))
         /\ StartSco(b).on
         /\ StartSco(b).state = "SCO_CONNECTING"
<1>1. b \in Managers /\ b.state = "HEADSET_AVAILABLE" /\ b.attempts < MaxAttempts
  BY DEF Sound, CanTry
<1>2. b.attempts + 1 \in 0..MaxAttempts
  BY <1>1, Attempts DEF Managers
<1>3. StartSco(b) \in Managers
  BY <1>1, <1>2 DEF StartSco, Managers, States, InSco
<1>4. StartSco(b).state = "SCO_CONNECTING" /\ StartSco(b).timer /\ StartSco(b).on
  BY <1>1 DEF StartSco, Managers
<1>5. StartSco(b).proxy
  BY <1>1 DEF Sound, StartSco, Managers
<1> QED BY <1>3, <1>4, <1>5 DEF Sound, InSco

LEMMA ConnectedSound ==
  ASSUME NEW b, Sound(b), b.state = "SCO_CONNECTING"
  PROVE  Sound([b EXCEPT !.timer = FALSE, !.state = "SCO_CONNECTED", !.attempts = 0])
<1> DEFINE c == [b EXCEPT !.timer = FALSE, !.state = "SCO_CONNECTED", !.attempts = 0]
<1>1. b \in Managers /\ b.on /\ b.proxy
  BY DEF Sound, InSco
<1>2. 0 \in 0..MaxAttempts
  BY Attempts
<1>3. c \in Managers
  BY <1>1, <1>2 DEF Managers, States, InSco
<1>4. c.state = "SCO_CONNECTED" /\ ~c.timer /\ c.on /\ c.proxy
  BY <1>1 DEF Managers
<1> QED BY <1>3, <1>4 DEF Sound, InSco

\* The news of a link is on a queue unless it was its head, or came with others.
LEMMA TailContains ==
  ASSUME NEW q \in Seq(Broadcasts), q # <<>>, Head(q) # "audio_connected"
  PROVE  Contains(Tail(q), "audio_connected") <=> Contains(q, "audio_connected")
<1>1. Len(q) \in Nat \ {0} /\ Len(Tail(q)) = Len(q) - 1 /\ Head(q) = q[1]
  OBVIOUS
<1>2. \A i \in 1..Len(Tail(q)) : i + 1 \in 1..Len(q) /\ Tail(q)[i] = q[i + 1]
  BY <1>1
<1>3. \A i \in 1..Len(q) : i = 1 \/ (i - 1 \in 1..Len(Tail(q)) /\ Tail(q)[i - 1] = q[i])
  BY <1>1, <1>2
<1> QED BY <1>1, <1>2, <1>3 DEF Contains

LEMMA JoinContains ==
  ASSUME NEW q \in Seq(Broadcasts), NEW ms \in Seq(Broadcasts), NEW m
  PROVE  Contains(q \o ms, m) <=> Contains(q, m) \/ Contains(ms, m)
<1>1. Len(q) \in Nat /\ Len(ms) \in Nat /\ Len(q \o ms) = Len(q) + Len(ms)
  OBVIOUS
<1>2. \A i \in 1..Len(q) : i \in 1..Len(q \o ms) /\ (q \o ms)[i] = q[i]
  BY <1>1
<1>3. \A i \in 1..Len(ms) : Len(q) + i \in 1..Len(q \o ms) /\ (q \o ms)[Len(q) + i] = ms[i]
  BY <1>1
<1>4. \A i \in 1..Len(q \o ms) :
        \/ i \in 1..Len(q) /\ (q \o ms)[i] = q[i]
        \/ i - Len(q) \in 1..Len(ms) /\ (q \o ms)[i] = ms[i - Len(q)]
  BY <1>1
<1> QED BY <1>2, <1>3, <1>4 DEF Contains

\* updateAudioDeviceState() makes the invariant hold, from any sound state of
\* the Bluetooth manager that fits the link.
LEMMA UpdateKeepsInv ==
  ASSUME DevicesInv, am \in {"created", "running"},
         NEW b0, Sound(b0), NEW w \in BOOLEAN, NEW rest \in Seq(Broadcasts),
         b0.on => LinkOf(b0, rest),
         UpdateAudioDeviceState(b0, w, rest)
  PROVE  DevicesInv'
<1> DEFINE found == UpdateDevice(b0)
           tries == CanTry(found)
           b == IF tries THEN StartSco(found) ELSE found
           available == Offered(found, w) \ {d \in {"BLUETOOTH"} : found.state = "HEADSET_AVAILABLE" /\ ~tries}
           switches == Chosen(b, w) # selected \/ devices # available
           fails == switches /\ Chosen(b, w) \notin available
<1>1. Sound(found) /\ found.on = b0.on /\ (b0.state \in InSco => found.state = b0.state)
  BY UpdateDeviceSound
<1>2. Sound(b) /\ (b.on \/ ~b0.on) /\ (tries => b.on)
  BY <1>1, StartScoSound DEF Sound, Managers
<1>3. bt' = b /\ wired' = w /\ devices' = available /\ phone' = phone
      /\ intents' = (IF world.link = "on" /\ ~b0.on THEN Append(rest, "audio_disconnected") ELSE rest)
      /\ world' = [world EXCEPT !.link = IF tries THEN "asked" ELSE IF b0.on THEN @ ELSE "off"]
  BY DEF UpdateAudioDeviceState
<1>4. IF fails THEN am' = "failed" /\ selected' = selected /\ speaker' = speaker
      ELSE /\ am' = "running"
           /\ selected' = Chosen(b, w)
           /\ speaker' = IF switches THEN Chosen(b, w) = "SPEAKER_PHONE" ELSE speaker
  BY DEF UpdateAudioDeviceState
<1>5. available \subseteq Devices
  BY DEF Offered, Devices, Phone
<1>6. Chosen(b, w) \in Devices
  BY DEF Chosen, Devices, DevicesInv, TypeOK, Phone
<1>7. b.state = "SCO_CONNECTED" => found.state = "SCO_CONNECTED"
  BY <1>1, StartScoSound
<1>8. Chosen(b, w) \in available \/ (phone.default = "EARPIECE" /\ ~phone.earpiece)
  BY <1>7 DEF Chosen, Offered, InSco, DevicesInv, TypeOK, Phone
<1>9. Chosen(b, w) = "BLUETOOTH" <=> b.state = "SCO_CONNECTED"
  BY DEF Chosen, DevicesInv, TypeOK, Phone
<1>10. w => Chosen(b, w) \notin Phone
  BY DEF Chosen, Phone
<1>11. intents' \in Seq(Broadcasts)
  BY <1>3 DEF Broadcasts
<1>12. world' \in [headset: BOOLEAN, link: Links, plug: BOOLEAN, events: 0..MaxEvents]
       /\ world'.link = (IF tries THEN "asked" ELSE IF b0.on THEN world.link ELSE "off")
  BY <1>3 DEF DevicesInv, TypeOK, Links
<1>13. am = "running" => /\ selected \in devices
                         /\ speaker <=> selected = "SPEAKER_PHONE"
  BY DEF DevicesInv, HeardWhereSaid
<1>27. am = "running" => (selected = "BLUETOOTH" <=> bt.state = "SCO_CONNECTED")
  BY DEF DevicesInv, Follows
<1>24. late' = (IF tries THEN Contains(rest, "audio_connected") ELSE late) /\ late' \in BOOLEAN
  BY DEF UpdateAudioDeviceState, DevicesInv, TypeOK, Contains
<1>25. Contains(intents', "audio_connected") <=> Contains(rest, "audio_connected")
  <2>1. <<"audio_disconnected">> \in Seq(Broadcasts) /\ ~Contains(<<"audio_disconnected">>, "audio_connected")
    BY DEF Contains, Broadcasts
  <2>2. Append(rest, "audio_disconnected") = rest \o <<"audio_disconnected">>
    OBVIOUS
  <2>3. Contains(Append(rest, "audio_disconnected"), "audio_connected") <=> Contains(rest, "audio_connected")
    <3>1. Contains(rest \o <<"audio_disconnected">>, "audio_connected")
            <=> Contains(rest, "audio_connected") \/ Contains(<<"audio_disconnected">>, "audio_connected")
      BY ONLY <2>1, rest \in Seq(Broadcasts), JoinContains
    <3> QED BY ONLY <2>1, <2>2, <3>1
  <2> QED BY <1>3, <2>3
<1>26. (tries => b.state = "SCO_CONNECTING") /\ (~tries => b = found)
  BY <1>1, StartScoSound
<1>14. am = "created" => selected = "NONE"
  BY DEF DevicesInv, Untouched
<1>15. speaker \in BOOLEAN /\ selected \in Devices \cup {"NONE"}
       /\ phone \in [earpiece: BOOLEAN, default: Phone, speaker: BOOLEAN]
  BY DEF DevicesInv, TypeOK
<1>16. "NONE" \notin Devices
  BY DEF Devices, Phone
<1> HIDE DEF found, tries, b, available, switches, fails
<1>17. TypeOK'
  BY <1>2, <1>3, <1>4, <1>5, <1>6, <1>11, <1>12, <1>15, <1>24 DEF TypeOK, Sound, Managers
<1>28. LinkOf(bt, intents)'
  <2>1. CASE tries
    <3>1. bt' = b /\ b.state = "SCO_CONNECTING" /\ world'.link = "asked"
      BY <2>1, <1>3, <1>12, <1>26
    <3> QED BY <2>1, <3>1, <1>24, <1>25 DEF LinkOf
  <2>2. CASE ~tries /\ ~b0.on
    <3>1. b.state \notin InSco
      BY <1>1, <1>26, <2>2 DEF Sound
    <3>2. bt' = b /\ world'.link = "off"
      BY <2>2, <1>3, <1>12
    <3> QED BY <3>1, <3>2 DEF LinkOf, InSco
  <2>3. CASE ~tries /\ b0.on
    <3>1. b.state = b0.state
      BY <1>1, <1>26, <2>3 DEF Sound
    <3>2. bt' = b /\ world'.link = world.link /\ late' = late
      BY <2>3, <1>3, <1>12, <1>24
    <3> QED BY <2>3, <3>1, <3>2, <1>25 DEF LinkOf
  <2> QED BY <2>1, <2>2, <2>3
<1>29. Follows' /\ LinkKnown'
  BY <1>3, <1>4, <1>9, <1>28 DEF Follows, LinkKnown
<1>18. HeardWhereSaid'
  <2>1. SUFFICES ASSUME ~fails
                 PROVE  HeardWhereSaid'
    BY <1>4 DEF HeardWhereSaid
  <2>2. Chosen(b, w) \in available
    <3>1. CASE switches
      BY <2>1, <3>1 DEF fails
    <3>2. CASE ~switches
      BY <3>2, <1>13, <1>14, <1>6, <1>16 DEF switches
    <3> QED BY <3>1, <3>2
  <2>3. ~switches => (speaker <=> Chosen(b, w) = "SPEAKER_PHONE")
    BY <1>13, <1>14, <1>6, <1>16 DEF switches
  <2>4. /\ selected' = "BLUETOOTH" => world'.link \in {"on", "dropped"} \/ late'
        /\ world'.link = "on" => selected' = "BLUETOOTH" \/ Contains(intents', "audio_connected")
    BY <1>3, <1>4, <1>9, <1>28, <2>1 DEF LinkOf
  <2> QED BY <1>3, <1>4, <2>1, <2>2, <2>3, <2>4, <1>10 DEF HeardWhereSaid
<1>19. AttemptsKnown'
  BY <1>2, <1>3, <1>12 DEF AttemptsKnown, Sound
<1>20. AssertionHolds'
  BY <1>3, <1>4, <1>8 DEF AssertionHolds, fails
<1>21. am' \notin {"created", "stopped"}
  BY <1>4
<1>22. StopRestores' /\ Untouched'
  BY <1>21 DEF StopRestores, Untouched
<1>23. ProxyHeld'
  BY <1>2, <1>3 DEF ProxyHeld, Sound
<1> QED BY <1>29, <1>23, <1>17, <1>18, <1>19, <1>20, <1>22 DEF DevicesInv

-----------------------------------------------------------------------------
(* Every step keeps the invariant. *)

\* A handler gets from the invariant what the lemma about the update asks.
LEMMA RunningSound ==
  ASSUME DevicesInv, am \in {"created", "running"}
  PROVE  /\ Sound(bt)
         /\ wired \in BOOLEAN
         /\ intents \in Seq(Broadcasts)
         /\ intents # <<>> => Tail(intents) \in Seq(Broadcasts)
         /\ LinkOf(bt, intents)
<1>1. Sound(bt)
  BY DEF DevicesInv, TypeOK, AttemptsKnown, ProxyHeld, Sound, Managers
<1>2. wired \in BOOLEAN /\ intents \in Seq(Broadcasts)
  BY DEF DevicesInv, TypeOK
<1>3. LinkOf(bt, intents)
  BY DEF DevicesInv, LinkKnown
<1> QED BY <1>1, <1>2, <1>3

LEMMA StartKeepsInv == DevicesInv /\ Start => DevicesInv'
<1> SUFFICES ASSUME DevicesInv, Start PROVE DevicesInv'
  OBVIOUS
<1>1. am = "created" /\ Sound(bt) /\ bt.state = "UNINITIALIZED" /\ ~bt.timer /\ ~bt.on /\ world.plug \in BOOLEAN
  BY RunningSound DEF Start, DevicesInv, Untouched, TypeOK
<1>2. PICK usable \in BOOLEAN :
        UpdateAudioDeviceState([bt EXCEPT !.state = IF usable THEN "HEADSET_UNAVAILABLE" ELSE @],
                               world.plug, <<IF world.plug THEN "plugged" ELSE "unplugged">>)
  BY DEF Start
<1>3. Sound([bt EXCEPT !.state = IF usable THEN "HEADSET_UNAVAILABLE" ELSE @])
  BY <1>1 DEF Sound, Managers, States, InSco, Searching
<1>5. ~[bt EXCEPT !.state = IF usable THEN "HEADSET_UNAVAILABLE" ELSE @].on
  BY <1>1 DEF Sound, Managers
<1>4. <<IF world.plug THEN "plugged" ELSE "unplugged">> \in Seq(Broadcasts)
  BY DEF Broadcasts
<1> QED BY <1>1, <1>2, <1>3, <1>4, <1>5, UpdateKeepsInv

LEMMA ReceiveKeepsInv == DevicesInv /\ Receive => DevicesInv'
<1> SUFFICES ASSUME DevicesInv, Receive PROVE DevicesInv'
  OBVIOUS
<1>1. am = "running" /\ intents # <<>>
  BY DEF Receive, Receives, OnHeadsetConnected, OnHeadsetDisconnected, OnAudioConnected, OnAudioDisconnected, OnPlug
<1>2. Sound(bt) /\ wired \in BOOLEAN /\ Tail(intents) \in Seq(Broadcasts)
  BY <1>1, RunningSound
<1>8. LinkOf(bt, intents) /\ intents \in Seq(Broadcasts)
  BY <1>1, RunningSound
<1>9. Head(intents) # "audio_connected" => LinkOf(bt, Tail(intents))
  BY <1>1, <1>8, TailContains DEF LinkOf
<1>3. CASE OnHeadsetConnected
  <2>1. Sound([bt EXCEPT !.attempts = 0]) /\ [bt EXCEPT !.attempts = 0].state = bt.state
    BY <1>2, Attempts DEF Sound, Managers
  <2>2. LinkOf([bt EXCEPT !.attempts = 0], Tail(intents))
    BY <2>1, <1>3, <1>9 DEF LinkOf, OnHeadsetConnected, Receives
  <2> QED BY <1>1, <1>2, <1>3, <2>1, <2>2, UpdateKeepsInv DEF OnHeadsetConnected
<1>4. CASE OnHeadsetDisconnected
  <2>1. Sound(StopSco(bt)) /\ ~StopSco(bt).on
    BY <1>2, StopScoSound DEF Sound, InSco
  <2> QED BY <1>1, <1>2, <1>4, <2>1, UpdateKeepsInv DEF OnHeadsetDisconnected
<1>5. CASE OnAudioConnected
  <2>1. CASE bt.state = "SCO_CONNECTING"
    <3>1. Sound([bt EXCEPT !.timer = FALSE, !.state = "SCO_CONNECTED", !.attempts = 0])
      BY <1>2, <2>1, ConnectedSound
    <3>2. [bt EXCEPT !.timer = FALSE, !.state = "SCO_CONNECTED", !.attempts = 0].state = "SCO_CONNECTED"
      BY <1>2 DEF Sound, Managers
    <3>3. Contains(intents, "audio_connected")
      BY <1>1, <1>8, <1>5 DEF Contains, OnAudioConnected, Receives
    <3>4. LinkOf([bt EXCEPT !.timer = FALSE, !.state = "SCO_CONNECTED", !.attempts = 0], Tail(intents))
      BY <1>8, <2>1, <3>2, <3>3 DEF LinkOf
    <3> QED BY <1>1, <1>2, <1>5, <2>1, <3>1, <3>4, UpdateKeepsInv DEF OnAudioConnected
  <2>2. CASE bt.state # "SCO_CONNECTING"
    <3>1. bt' = bt
      BY <1>2, <1>5, <2>2 DEF OnAudioConnected, Sound, Managers
    <3>2. intents' \in Seq(Broadcasts)
          /\ UNCHANGED <<am, bt, wired, devices, selected, speaker, phone, world, late>>
      BY <1>2, <1>5, <2>2, <3>1 DEF OnAudioConnected
    <3>3. world.link = "on" => bt.state = "SCO_CONNECTED"
      BY <1>1, <2>2 DEF DevicesInv, AttemptsKnown, InSco
    <3>4. LinkOf(bt, intents)'
      BY <1>8, <2>2, <3>2, <3>3 DEF LinkOf
    <3>5. HeardWhereSaid'
      BY <1>1, <3>2, <3>3 DEF DevicesInv, HeardWhereSaid, Follows
    <3> QED BY <3>2, <3>4, <3>5 DEF DevicesInv, TypeOK, AttemptsKnown, AssertionHolds, StopRestores, Untouched, ProxyHeld, Follows, LinkKnown
  <2> QED BY <2>1, <2>2
<1>6. CASE OnAudioDisconnected
  BY <1>1, <1>2, <1>6, <1>9, UpdateKeepsInv DEF OnAudioDisconnected, Receives
<1>7. CASE OnPlug
  BY <1>1, <1>2, <1>7, <1>9, UpdateKeepsInv DEF OnPlug, Receives
<1> QED BY <1>3, <1>4, <1>5, <1>6, <1>7 DEF Receive

LEMMA ServiceKeepsInv == DevicesInv /\ (OnServiceConnected \/ OnServiceDisconnected) => DevicesInv'
<1> SUFFICES ASSUME DevicesInv, OnServiceConnected \/ OnServiceDisconnected PROVE DevicesInv'
  OBVIOUS
<1>1. am = "running"
  BY DEF OnServiceConnected, OnServiceDisconnected
<1>2. Sound(bt) /\ wired \in BOOLEAN /\ intents \in Seq(Broadcasts) /\ LinkOf(bt, intents)
  BY <1>1, RunningSound
<1>3. CASE OnServiceConnected
  <2>1. Sound([bt EXCEPT !.proxy = TRUE]) /\ LinkOf([bt EXCEPT !.proxy = TRUE], intents)
    BY <1>2 DEF Sound, Managers, LinkOf
  <2> QED BY <1>1, <1>2, <1>3, <2>1, UpdateKeepsInv DEF OnServiceConnected
<1>4. CASE OnServiceDisconnected
  <2>1. Sound(StopSco(bt)) /\ StopSco(bt).state \notin InSco
    BY <1>2, StopScoSound DEF Sound, InSco
  <2>2. /\ Sound([StopSco(bt) EXCEPT !.proxy = FALSE, !.state = "HEADSET_UNAVAILABLE"])
        /\ ~[StopSco(bt) EXCEPT !.proxy = FALSE, !.state = "HEADSET_UNAVAILABLE"].on
    BY <2>1 DEF Sound, Managers, States, InSco, Searching
  <2> QED BY <1>1, <1>2, <1>4, <2>2, UpdateKeepsInv DEF OnServiceDisconnected
<1> QED BY <1>3, <1>4

LEMMA TimeoutKeepsInv == DevicesInv /\ BluetoothTimeout => DevicesInv'
<1> SUFFICES ASSUME DevicesInv, BluetoothTimeout PROVE DevicesInv'
  OBVIOUS
<1> DEFINE fired == [bt EXCEPT !.timer = FALSE]
<1>1. bt.timer /\ am # "failed"
  BY DEF BluetoothTimeout
<1>2. am = "running"
  BY <1>1 DEF DevicesInv, TypeOK, StopRestores, Untouched
<1>3. Sound(bt) /\ wired \in BOOLEAN /\ intents \in Seq(Broadcasts)
  BY <1>2, RunningSound
<1>4. bt.state = "SCO_CONNECTING" /\ fired \in Managers /\ fired.state = bt.state /\ ~fired.timer
  BY <1>1, <1>3 DEF Sound, Managers
<1>5. Sound([bt EXCEPT !.timer = FALSE, !.state = "SCO_CONNECTED", !.attempts = 0])
      /\ [fired EXCEPT !.state = "SCO_CONNECTED", !.attempts = 0]
           = [bt EXCEPT !.timer = FALSE, !.state = "SCO_CONNECTED", !.attempts = 0]
  BY <1>3, <1>4, ConnectedSound
<1>6. Sound([fired EXCEPT !.state = "SCO_CONNECTED", !.attempts = 0])
  BY <1>5
<1>7. Sound(StopSco(fired)) /\ ~StopSco(fired).on
  BY <1>3, <1>4, StopScoSound DEF Sound, InSco
<1>9. world.link = "on" => LinkOf([fired EXCEPT !.state = "SCO_CONNECTED", !.attempts = 0], intents)
  BY <1>4 DEF LinkOf, Managers
<1>8. bt.proxy
  BY <1>3, <1>4 DEF Sound, InSco
<1> QED BY <1>2, <1>3, <1>4, <1>7, <1>8, <1>6, <1>9, UpdateKeepsInv DEF BluetoothTimeout

\* What happens outside changes nothing of the manager; a link can only come up
\* or go.
LEMMA WorldKeepsInv ==
  DevicesInv /\ (HeadsetComes \/ HeadsetGoes \/ LinkComesUp \/ LinkDrops \/ PlugChanges) => DevicesInv'
<1> SUFFICES ASSUME DevicesInv, HeadsetComes \/ HeadsetGoes \/ LinkComesUp \/ LinkDrops \/ PlugChanges
             PROVE  DevicesInv'
  OBVIOUS
<1>1. world \in [headset: BOOLEAN, link: Links, plug: BOOLEAN, events: 0..MaxEvents]
      /\ intents \in Seq(Broadcasts)
  BY DEF DevicesInv, TypeOK
<1>2. \A ms \in Seq(Broadcasts) : Heard(ms) \in Seq(Broadcasts)
  BY DEF Heard
<1>3. /\ am = "running"
      /\ UNCHANGED <<am, bt, wired, devices, selected, speaker, phone, late>>
  BY DEF HeadsetComes, HeadsetGoes, LinkComesUp, LinkDrops, PlugChanges, Happens
<1>4. /\ intents' \in Seq(Broadcasts)
      /\ Contains(intents, "audio_connected") => Contains(intents', "audio_connected")
      /\ Contains(intents', "audio_connected") => Contains(intents, "audio_connected") \/ LinkComesUp
  <2>1. /\ <<"connected">> \in Seq(Broadcasts) /\ <<"disconnected">> \in Seq(Broadcasts)
        /\ <<"audio_connected">> \in Seq(Broadcasts) /\ <<"audio_disconnected">> \in Seq(Broadcasts)
        /\ <<"audio_disconnected", "disconnected">> \in Seq(Broadcasts)
        /\ <<"plugged">> \in Seq(Broadcasts) /\ <<"unplugged">> \in Seq(Broadcasts)
    BY DEF Broadcasts
  <2>2. \E ms \in Seq(Broadcasts) :
          intents' = intents \o ms /\ (Contains(ms, "audio_connected") => LinkComesUp)
    <3>1. /\ ~Contains(<<"connected">>, "audio_connected")
          /\ ~Contains(<<"disconnected">>, "audio_connected")
          /\ ~Contains(<<"audio_disconnected">>, "audio_connected")
          /\ ~Contains(<<"audio_disconnected", "disconnected">>, "audio_connected")
          /\ ~Contains(<<"plugged">>, "audio_connected") /\ ~Contains(<<"unplugged">>, "audio_connected")
          /\ ~Contains(<<>>, "audio_connected")
      BY DEF Contains
    <3>2. CASE HeadsetComes
      BY <1>2, <2>1, <3>1, <3>2 DEF HeadsetComes, Happens, Heard
    <3>3. CASE HeadsetGoes
      BY <1>2, <2>1, <3>1, <3>3 DEF HeadsetGoes, Happens, Heard
    <3>4. CASE LinkComesUp
      BY <1>2, <2>1, <3>4 DEF LinkComesUp, Happens
    <3>5. CASE LinkDrops
      BY <1>2, <2>1, <3>1, <3>5 DEF LinkDrops, Happens, Heard
    <3>6. CASE PlugChanges
      BY <2>1, <3>1, <3>6 DEF PlugChanges, Happens
    <3> QED BY <3>2, <3>3, <3>4, <3>5, <3>6
  <2> QED BY <1>1, <2>2, JoinContains
<1>5. /\ world' \in [headset: BOOLEAN, link: Links, plug: BOOLEAN, events: 0..MaxEvents]
      /\ world'.link = "off" \/ world.link # "off"
      /\ world'.link # world.link => LinkComesUp \/ world'.link = "dropped"
  <2>1. world.events + 1 \in 0..MaxEvents /\ world.events < MaxEvents
    BY <1>1, Attempts DEF HeadsetComes, HeadsetGoes, LinkComesUp, LinkDrops, PlugChanges, Happens
  <2>2. CASE HeadsetComes
    BY <1>1, <2>1, <2>2 DEF HeadsetComes, Happens, Links
  <2>3. CASE HeadsetGoes
    BY <1>1, <2>1, <2>3 DEF HeadsetGoes, Happens, Links
  <2>4. CASE LinkComesUp
    BY <1>1, <2>1, <2>4 DEF LinkComesUp, Happens, Links
  <2>5. CASE LinkDrops
    BY <1>1, <2>1, <2>5 DEF LinkDrops, Happens, Links
  <2>6. CASE PlugChanges
    BY <1>1, <2>1, <2>6 DEF PlugChanges, Happens
  <2> QED BY <2>2, <2>3, <2>4, <2>5, <2>6
<1>6. TypeOK'
  BY <1>3, <1>4, <1>5 DEF DevicesInv, TypeOK
<1>7. AttemptsKnown'
  BY <1>3, <1>5 DEF DevicesInv, AttemptsKnown
<1>8. LinkComesUp => world'.link = "on" /\ Contains(intents', "audio_connected")
  <2> SUFFICES ASSUME LinkComesUp
               PROVE  world'.link = "on" /\ Contains(intents', "audio_connected")
    OBVIOUS
  <2>1. Heard(<<"audio_connected">>) = <<"audio_connected">>
    BY <1>3 DEF LinkComesUp, Heard, DevicesInv, AttemptsKnown, InSco
  <2>2. Contains(<<"audio_connected">>, "audio_connected") /\ <<"audio_connected">> \in Seq(Broadcasts)
    BY DEF Contains, Broadcasts
  <2> QED BY <1>1, <2>1, <2>2, JoinContains DEF LinkComesUp, Happens
<1>9. LinkOf(bt, intents)'
  <2>1. LinkOf(bt, intents)
    BY <1>3 DEF DevicesInv, LinkKnown
  <2>2. CASE LinkComesUp
    BY <2>2, <1>8 DEF LinkOf
  <2>3. CASE ~LinkComesUp
    BY <2>1, <2>3, <1>3, <1>4, <1>5 DEF LinkOf
  <2> QED BY <2>2, <2>3
<1>10. HeardWhereSaid'
  BY <1>3, <1>9 DEF DevicesInv, HeardWhereSaid, Follows, LinkOf
<1> QED BY <1>3, <1>6, <1>7, <1>9, <1>10 DEF DevicesInv, AssertionHolds, StopRestores, Untouched, ProxyHeld, Follows, LinkKnown

\* After stop() nothing of the call is left.
LEMMA StopKeepsInv == DevicesInv /\ Stop => DevicesInv'
<1> SUFFICES ASSUME DevicesInv, Stop PROVE DevicesInv'
  OBVIOUS
<1> DEFINE c == [StopSco(bt) EXCEPT !.state = "UNINITIALIZED", !.proxy = FALSE]
<1>1. am = "running" /\ Sound(bt)
  BY RunningSound DEF Stop
<1>2. Sound(StopSco(bt)) /\ StopSco(bt).state \notin InSco
  BY <1>1, StopScoSound DEF Sound, InSco
<1>3. StopSco(bt) \in Managers /\ ~StopSco(bt).timer /\ ~StopSco(bt).on
  BY <1>2 DEF Sound, InSco
<1>4. c \in Managers /\ c.state = "UNINITIALIZED" /\ ~c.timer /\ ~c.on
  BY <1>3 DEF Managers, States
<1>5. bt' = c /\ am' = "stopped" /\ speaker' = phone.speaker /\ intents' = <<>>
      /\ UNCHANGED <<wired, devices, selected, phone, late>> /\ world' = [world EXCEPT !.link = "off"]
  BY DEF Stop
<1>6. world' \in [headset: BOOLEAN, link: Links, plug: BOOLEAN, events: 0..MaxEvents]
      /\ world'.link = "off"
  BY <1>5 DEF DevicesInv, TypeOK, Links
<1>7. speaker' \in BOOLEAN /\ phone' \in [earpiece: BOOLEAN, default: Phone, speaker: BOOLEAN]
  BY <1>5 DEF DevicesInv, TypeOK
<1> HIDE DEF c
<1>8. TypeOK'
  BY <1>4, <1>5, <1>6, <1>7 DEF DevicesInv, TypeOK, Managers
<1>9. HeardWhereSaid' /\ AssertionHolds' /\ Untouched' /\ Follows'
  BY <1>5 DEF HeardWhereSaid, AssertionHolds, Untouched, Follows
<1>10. AttemptsKnown' /\ ProxyHeld' /\ LinkKnown'
  BY <1>4, <1>5, <1>6 DEF AttemptsKnown, ProxyHeld, InSco, LinkKnown, LinkOf
<1>11. StopRestores'
  BY <1>4, <1>5, <1>6 DEF StopRestores
<1> QED BY <1>8, <1>9, <1>10, <1>11 DEF DevicesInv

-----------------------------------------------------------------------------
(* The results. *)

LEMMA InvInductive == Spec => []DevicesInv
<1>1. Init => DevicesInv
  <2> SUFFICES ASSUME Init PROVE DevicesInv
    OBVIOUS
  <2>1. bt \in Managers /\ ~bt.timer /\ ~bt.on /\ bt.state = "UNINITIALIZED"
    BY Attempts DEF Init, Managers, States
  <2>2. world.link = "off"
        /\ world \in [headset: BOOLEAN, link: Links, plug: BOOLEAN, events: 0..MaxEvents]
    BY Attempts DEF Init, Links
  <2>3. phone \in [earpiece: BOOLEAN, default: Phone, speaker: BOOLEAN] /\ speaker = phone.speaker
    BY DEF Init
  <2>4. speaker \in BOOLEAN
    BY <2>3
  <2>5. am = "created" /\ wired = FALSE /\ devices = {} /\ selected = "NONE" /\ intents \in Seq(Broadcasts)
    BY DEF Init
  <2>6. TypeOK
    BY <2>1, <2>2, <2>3, <2>4, <2>5 DEF TypeOK, Managers, Init
  <2> QED BY <2>1, <2>2, <2>6 DEF Init, DevicesInv, HeardWhereSaid, AttemptsKnown, AssertionHolds,
                                  StopRestores, Untouched, ProxyHeld, Follows, LinkKnown, LinkOf, InSco
<1>2. DevicesInv /\ [Next]_vars => DevicesInv'
  <2>1. DevicesInv /\ UNCHANGED vars => DevicesInv'
    BY DEF vars, DevicesInv, TypeOK, HeardWhereSaid, AttemptsKnown, AssertionHolds, StopRestores, Untouched, ProxyHeld,
           Follows, LinkKnown, LinkOf
  <2> QED BY <2>1, StartKeepsInv, StopKeepsInv, ReceiveKeepsInv, ServiceKeepsInv, TimeoutKeepsInv, WorldKeepsInv
          DEF Next
<1> QED BY <1>1, <1>2, PTL DEF Spec

\* Every variable keeps to the values the code gives it; in particular no more
\* than MaxAttempts attempts are counted (startScoAudio).
THEOREM DevicesTyped == Spec => []TypeOK
BY InvInductive, PTL DEF DevicesInv

\* A call is heard where the manager says: on an available device, on Bluetooth
\* only while the SCO link is up, unless it dropped by itself or the attempt began
\* with the news of an earlier link on its way (updateAudioDeviceState, every
\* handler that ends in it, and onReceive of the Bluetooth manager).
THEOREM DeviceHeard == Spec => []HeardWhereSaid
BY InvInductive, PTL DEF DevicesInv

\* Every attempt at SCO has its timeout, and SCO is on only for an attempt or a
\* connection (startScoAudio, stopScoAudio, bluetoothTimeout).
THEOREM AttemptsAccounted == Spec => []AttemptsKnown
BY InvInductive, PTL DEF DevicesInv

\* The assertion of setAudioDeviceInternal fails only for the earpiece default
\* of a device without earpiece.
THEOREM AssertionOnlyEarpiece == Spec => []AssertionHolds
BY InvInductive, PTL DEF DevicesInv

\* Nothing of a call is left after stop().
THEOREM NothingLeft == Spec => []StopRestores
BY InvInductive, PTL DEF DevicesInv

=============================================================================
