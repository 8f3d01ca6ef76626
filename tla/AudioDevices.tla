---------------------------- MODULE AudioDevices ----------------------------
(***************************************************************************)
(* Which device a call is heard on: AppRTCAudioManager with its            *)
(* AppRTCBluetoothManager.  Every handler runs on the main thread and is   *)
(* one action; what interleaves are the handlers: broadcasts about the     *)
(* headsets, the callbacks of the Bluetooth service and the timeout of a   *)
(* SCO connection.  A broadcast is delivered some time after the change it *)
(* tells of, so a handler may find the headset in a later state.           *)
(*                                                                         *)
(* The user's own choice of a device is always NONE: nothing in the app    *)
(* calls selectAudioDevice or setDefaultAudioDevice.  The proximity sensor *)
(* is created and never started.                                           *)
(***************************************************************************)
EXTENDS Naturals, Sequences, SequencesExt

CONSTANTS MaxAttempts,  \* MAX_SCO_CONNECTION_ATTEMPTS of the code
          MaxEvents     \* bound: changes of the headsets and the network of Bluetooth

ASSUME Attempts == MaxAttempts \in Nat \ {0} /\ MaxEvents \in Nat

Phone == {"SPEAKER_PHONE", "EARPIECE"}
Devices == Phone \cup {"WIRED_HEADSET", "BLUETOOTH"}
InSco == {"SCO_CONNECTING", "SCO_CONNECTED"}
Searching == {"HEADSET_AVAILABLE", "HEADSET_UNAVAILABLE", "SCO_DISCONNECTING"}
States == InSco \cup Searching \cup {"UNINITIALIZED"}
Links == {"off", "asked", "on", "dropped"} \* dropped: by itself, in or after an attempt
Broadcasts == {"connected", "disconnected", "audio_connected", "audio_disconnected", "plugged", "unplugged"}

VARIABLES am,        \* the manager: "created", "running", "stopped", "failed" (an assertion)
          bt,        \* the Bluetooth manager: state, proxy held, attempts, timer, SCO on
          wired,     \* hasWiredHeadset
          devices,   \* audioDevices
          selected,  \* selectedAudioDevice
          speaker,   \* isSpeakerphoneOn of the system
          phone,     \* fixed: has an earpiece, default device, speaker before the call
          world,     \* what is really so: headset connected, SCO link, plug, events so far
          intents,   \* broadcasts on their way to the receivers
          late       \* history: the last attempt began with the news of an earlier link on its way

vars == <<am, bt, wired, devices, selected, speaker, phone, world, intents, late>>

TypeOK == /\ am \in {"created", "running", "stopped", "failed"}
          /\ bt \in [state: States, proxy: BOOLEAN, attempts: 0..MaxAttempts, timer: BOOLEAN, on: BOOLEAN]
          /\ wired \in BOOLEAN
          /\ devices \subseteq Devices
          /\ selected \in Devices \cup {"NONE"}
          /\ speaker \in BOOLEAN
          /\ phone \in [earpiece: BOOLEAN, default: Phone, speaker: BOOLEAN]
          /\ world \in [headset: BOOLEAN, link: Links, plug: BOOLEAN, events: 0..MaxEvents]
          /\ intents \in Seq(Broadcasts)
          /\ late \in BOOLEAN

Init == /\ am = "created"
        /\ bt = [state |-> "UNINITIALIZED", proxy |-> FALSE, attempts |-> 0, timer |-> FALSE, on |-> FALSE]
        /\ wired = FALSE
        /\ devices = {}
        /\ selected = "NONE"
        /\ phone \in [earpiece: BOOLEAN, default: Phone, speaker: BOOLEAN]
        /\ speaker = phone.speaker
        /\ world \in [headset: BOOLEAN, link: {"off"}, plug: BOOLEAN, events: {0}]
        /\ intents = <<>>
        /\ late = FALSE

-----------------------------------------------------------------------------
(* The Bluetooth manager: what its methods make of its state. *)

\* Mutant: the timer of the attempt is left running.
StopSco_KeepsTimer(b) == IF b.state \in InSco
                         THEN [b EXCEPT !.state = "SCO_DISCONNECTING", !.on = FALSE] ELSE b

\* stopScoAudio(): ends a SCO connection or the attempt to make one.
StopSco(b) == IF b.state \in InSco
              THEN [b EXCEPT !.state = "SCO_DISCONNECTING", !.timer = FALSE, !.on = FALSE] ELSE b

\* Mutant: the attempt is not counted.
StartSco_Uncounted(b) == [b EXCEPT !.state = "SCO_CONNECTING", !.timer = TRUE, !.on = TRUE]

\* startScoAudio(), its two refusals left to the caller: an attempt and its timeout begin.
StartSco(b) == [b EXCEPT !.state = "SCO_CONNECTING", !.timer = TRUE, !.on = TRUE, !.attempts = @ + 1]

\* updateDevice(), called only while no SCO connection is made or wanted:
\* asks the service for a connected headset.
UpdateDevice(b) ==
  IF ~b.proxy \/ b.state \notin Searching THEN b
  ELSE [b EXCEPT !.state = IF world.headset THEN "HEADSET_AVAILABLE" ELSE "HEADSET_UNAVAILABLE"]

-----------------------------------------------------------------------------
(* The audio manager. *)

\* The devices there are, w saying whether a wired headset is in.
Offered(b, w) == {d \in {"BLUETOOTH"} : b.state \in InSco \cup {"HEADSET_AVAILABLE"}}
                 \cup (IF w THEN {"WIRED_HEADSET"}
                       ELSE {"SPEAKER_PHONE"} \cup {d \in {"EARPIECE"} : phone.earpiece})

\* Mutant: a headset that is still connecting is chosen.
Chosen_TooSoon(b, w) == IF b.state \in InSco THEN "BLUETOOTH"
                        ELSE IF w THEN "WIRED_HEADSET" ELSE phone.default

\* The device to be used: Bluetooth once its SCO link is up, else a wired
\* headset, else the default.
Chosen(b, w) == IF b.state = "SCO_CONNECTED" THEN "BLUETOOTH"
                ELSE IF w THEN "WIRED_HEADSET" ELSE phone.default

\* Mutant: one attempt fewer.
CanTry_OneFewer(b) == b.state = "HEADSET_AVAILABLE" /\ b.attempts + 1 < MaxAttempts

\* A headset is there and startScoAudio would not refuse it.
CanTry(b) == b.state = "HEADSET_AVAILABLE" /\ b.attempts < MaxAttempts

\* updateAudioDeviceState(), after a handler that left the Bluetooth manager
\* at b0, the wired headset at w and the broadcasts at rest: looks for a
\* headset, tries SCO on it if it may, and switches to the device chosen.
UpdateAudioDeviceState(b0, w, rest) ==
  LET found == UpdateDevice(b0)
      tries == CanTry(found)
      b == IF tries THEN StartSco(found) ELSE found
      available == Offered(found, w) \ {d \in {"BLUETOOTH"} : found.state = "HEADSET_AVAILABLE" /\ ~tries}
      switches == \/ Chosen(b, w) # selected
                  \/ devices # available
      ended == world.link = "on" /\ ~b0.on
  IN /\ bt' = b
     /\ wired' = w
     /\ devices' = available
     /\ IF switches /\ Chosen(b, w) \notin available
        THEN /\ am' = "failed"
             /\ UNCHANGED <<selected, speaker>>
        ELSE /\ am' = "running"
             /\ selected' = Chosen(b, w)
             /\ speaker' = IF switches THEN Chosen(b, w) = "SPEAKER_PHONE" ELSE speaker
     /\ world' = [world EXCEPT !.link = IF tries THEN "asked" ELSE IF b0.on THEN @ ELSE "off"]
     /\ intents' = IF ended THEN Append(rest, "audio_disconnected") ELSE rest
     /\ late' = IF tries THEN Contains(rest, "audio_connected") ELSE late
     /\ UNCHANGED phone

\* start(), with Bluetooth usable or not (permission, adapter, SCO outside
\* calls, profile proxy).  The receiver of plugs is told at once what is so.
Start == /\ am = "created"
         /\ \E usable \in BOOLEAN :
              UpdateAudioDeviceState([bt EXCEPT !.state = IF usable THEN "HEADSET_UNAVAILABLE" ELSE @],
                                     world.plug, <<IF world.plug THEN "plugged" ELSE "unplugged">>)

\* stop(): the receivers are unregistered, the Bluetooth manager is stopped
\* and the speaker is as it was before the call.
Stop == /\ am = "running"
        /\ am' = "stopped"
        /\ bt' = [StopSco(bt) EXCEPT !.state = "UNINITIALIZED", !.proxy = FALSE]
        /\ speaker' = phone.speaker
        /\ world' = [world EXCEPT !.link = "off"]
        /\ intents' = <<>>
        /\ UNCHANGED <<wired, devices, selected, phone, late>>

-----------------------------------------------------------------------------
(* Handlers of the receivers, of the service listener and of the timer. *)

\* A broadcast m is next on the main thread.
Receives(m) == am = "running" /\ intents # <<>> /\ Head(intents) = m

\* onReceive, a headset is connected: it gets all its attempts.
OnHeadsetConnected == /\ Receives("connected")
                      /\ UpdateAudioDeviceState([bt EXCEPT !.attempts = 0], wired, Tail(intents))

\* Mutant: SCO is left to itself when its headset goes.
OnHeadsetDisconnected_KeepsSco == /\ Receives("disconnected")
                                  /\ UpdateAudioDeviceState(bt, wired, Tail(intents))

\* onReceive, the headset is gone.
OnHeadsetDisconnected == /\ Receives("disconnected")
                         /\ UpdateAudioDeviceState(StopSco(bt), wired, Tail(intents))

\* onReceive, the SCO link is up: expected only in an attempt.
OnAudioConnected ==
  /\ Receives("audio_connected")
  /\ IF bt.state = "SCO_CONNECTING"
     THEN UpdateAudioDeviceState([bt EXCEPT !.timer = FALSE, !.state = "SCO_CONNECTED", !.attempts = 0],
                                 wired, Tail(intents))
     ELSE /\ bt' = [bt EXCEPT !.timer = FALSE]
          /\ intents' = Tail(intents)
          /\ UNCHANGED <<am, wired, devices, selected, speaker, phone, world, late>>

\* onReceive, the SCO link is down: SCO_CONNECTED is not left.
OnAudioDisconnected == /\ Receives("audio_disconnected")
                       /\ UpdateAudioDeviceState(bt, wired, Tail(intents))

\* WiredHeadsetReceiver.onReceive
OnPlug == \E m \in {"plugged", "unplugged"} :
            /\ Receives(m)
            /\ UpdateAudioDeviceState(bt, m = "plugged", Tail(intents))

\* BluetoothServiceListener.onServiceConnected
OnServiceConnected == /\ am = "running"
                      /\ bt.state # "UNINITIALIZED"
                      /\ ~bt.proxy
                      /\ UpdateAudioDeviceState([bt EXCEPT !.proxy = TRUE], wired, intents)

\* bluetoothTimeout(): four seconds after the attempt began.
BluetoothTimeout ==
  /\ bt.timer
  /\ am # "failed"
  /\ LET fired == [bt EXCEPT !.timer = FALSE]
         up == world.headset /\ world.link = "on"
     IN IF bt.state = "SCO_CONNECTING" /\ bt.proxy
        THEN UpdateAudioDeviceState(IF up THEN [fired EXCEPT !.state = "SCO_CONNECTED", !.attempts = 0]
                                    ELSE StopSco(fired), wired, intents)
        ELSE /\ bt' = fired
             /\ UNCHANGED <<am, wired, devices, selected, speaker, phone, world, intents, late>>

-----------------------------------------------------------------------------
(* What happens to the headsets and to Bluetooth, at most MaxEvents times. *)

\* A change of the world during the call, told by the broadcasts ms.
Happens(w, ms) == /\ am = "running"
                  /\ world.events < MaxEvents
                  /\ world' = [w EXCEPT !.events = @ + 1]
                  /\ intents' = intents \o ms
                  /\ UNCHANGED <<am, bt, wired, devices, selected, speaker, phone, late>>

\* The receiver of the Bluetooth manager is registered only if Bluetooth is usable.
Heard(ms) == IF bt.state = "UNINITIALIZED" THEN <<>> ELSE ms

HeadsetComes == /\ ~world.headset
                /\ Happens([world EXCEPT !.headset = TRUE], Heard(<<"connected">>))

HeadsetGoes == /\ world.headset
               /\ Happens([world EXCEPT !.headset = FALSE, !.link = IF @ = "off" THEN @ ELSE "dropped"],
                          Heard(IF world.link = "on" THEN <<"audio_disconnected", "disconnected">>
                                ELSE <<"disconnected">>))

LinkComesUp == /\ world.link = "asked" /\ world.headset
               /\ Happens([world EXCEPT !.link = "on"], Heard(<<"audio_connected">>))

\* The link drops or the attempt is refused, for a phone call for example.
LinkDrops == /\ world.link \in {"asked", "on"}
             /\ Happens([world EXCEPT !.link = "dropped"], Heard(<<"audio_disconnected">>))

PlugChanges == Happens([world EXCEPT !.plug = ~@], <<IF world.plug THEN "unplugged" ELSE "plugged">>)

\* BluetoothServiceListener.onServiceDisconnected: the service has died.
OnServiceDisconnected ==
  /\ am = "running"
  /\ bt.proxy
  /\ UpdateAudioDeviceState([StopSco(bt) EXCEPT !.proxy = FALSE, !.state = "HEADSET_UNAVAILABLE"], wired, intents)

Receive == \/ OnHeadsetConnected \/ OnHeadsetDisconnected
           \/ OnAudioConnected \/ OnAudioDisconnected \/ OnPlug

Next == \/ Start \/ Stop \/ Receive
        \/ OnServiceConnected \/ OnServiceDisconnected \/ BluetoothTimeout
        \/ HeadsetComes \/ HeadsetGoes \/ LinkComesUp \/ LinkDrops \/ PlugChanges

\* The main thread's looper delivers every broadcast, callback and timeout.
Spec == /\ Init
        /\ [][Next]_vars
        /\ WF_vars(Receive)
        /\ WF_vars(OnServiceConnected)
        /\ WF_vars(BluetoothTimeout)

-----------------------------------------------------------------------------
(* Properties. *)

\* A call is heard where the manager says.  It says Bluetooth only while the SCO
\* link is up, with two exceptions the code leaves: a link that dropped by itself
\* is not noticed (onReceive does not leave SCO_CONNECTED), and the news of a
\* link of an earlier attempt is taken for that of this one.  It says Bluetooth
\* as soon as the news of a link was handled.  What it says otherwise is one of
\* the devices there are, a wired headset before the phone itself, and the
\* speaker is on only for itself.
HeardWhereSaid ==
  am = "running" => /\ selected \in devices
                    /\ selected = "BLUETOOTH" => world.link \in {"on", "dropped"} \/ late
                    /\ world.link = "on" => selected = "BLUETOOTH" \/ Contains(intents, "audio_connected")
                    /\ wired => selected \notin Phone
                    /\ speaker <=> selected = "SPEAKER_PHONE"

\* The comment of start() in AppRTCBluetoothManager (line 226) says more: in
\* SCO_CONNECTED the sound is routed to the headset.  Not so once the link drops.
Routed == am = "running" /\ bt.state = "SCO_CONNECTED" => world.link = "on"

\* No attempt at SCO is forgotten: each has its timer running, no timer runs
\* without one, and the system's SCO is on exactly during attempts and
\* connections, so that it is never left with a link the manager does not know.
AttemptsKnown ==
  am # "failed" => /\ bt.timer <=> bt.state = "SCO_CONNECTING"
                   /\ bt.on <=> bt.state \in InSco
                   /\ world.link # "off" => bt.on

\* The assertion in setAudioDeviceInternal fails on one kind of phone only:
\* without an earpiece, and with the setting that turns the speaker off, which
\* makes the earpiece the default without asking for it.
AssertionHolds == am = "failed" => ~phone.earpiece /\ phone.default = "EARPIECE"

\* A headset that is and stays connected is heard on, or all its attempts were
\* made, whichever broadcasts about earlier headsets and links are on their way;
\* one that never answers is given up, attempts do not go on for ever; and a
\* call is not left on a headset that is gone.
HeadsetFollowed ==
  /\ (am = "running" /\ bt.proxy /\ world.headset)
       ~> \/ selected = "BLUETOOTH" \/ bt.attempts = MaxAttempts
          \/ am # "running" \/ ~bt.proxy \/ ~world.headset
  /\ <>[](bt.state # "SCO_CONNECTING" \/ am = "failed")
  /\ (am = "running" /\ selected = "BLUETOOTH" /\ ~world.headset)
       ~> (selected # "BLUETOOTH" \/ world.headset \/ am # "running")
=============================================================================
