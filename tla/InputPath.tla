------------------------------ MODULE InputPath ------------------------------
(***************************************************************************)
(* The way of keys and mouse buttons from the sender's window to the       *)
(* receiver's emitter.                                                     *)
(*                                                                         *)
(* SdlImGuiWindow::frame records every key in UIInputManager and hands the *)
(* event to SenderScene, which forwards it while the mouse is contained.   *)
(* The chord Ctrl + Alt + Esc releases the mouse, the Continue button      *)
(* contains it again.  Forwarded events travel in order on ENet's reliable *)
(* channel; the client drops an event while it is not connected, and what  *)
(* is in flight is lost with a connection.  What arrives before the        *)
(* receiver scene has mounted means nothing to the home scene; from then   *)
(* on the receiver looks the key up in its platform's table and injects it.*)
(***************************************************************************)
EXTENDS Integers, Sequences, FiniteSets, KeyMapping

CONSTANTS
    Keys,         \* the scancodes of the keys a user presses
    Buttons,      \* the mouse buttons, numbered as SDL does
    MaxInFlight,  \* bound: events on their way at a time
    Breaks        \* the connection may break

ASSUME KeysAssumption == Keys \subseteq Nat \ {0}
ASSUME ButtonsAssumption == Buttons \subseteq Nat \ {0}
ASSUME InFlightAssumption == MaxInFlight \in Nat \ {0}
ASSUME BreaksAssumption == Breaks \in BOOLEAN

\* SDL_SCANCODE_LALT, _LCTRL and _ESCAPE.
Chord == {226, 224, 41}

Key(k)    == [type |-> "key", code |-> k]
Button(b) == [type |-> "mouse", code |-> b]
Inputs == {Key(k) : k \in Keys} \cup {Button(b) : b \in Buttons}

\* InputEvent: Type::Key or Type::Mouse, Action::Down or Action::Up, the code.
Down(i) == [input |-> i, action |-> "down"]
Up(i)   == [input |-> i, action |-> "up"]

Events == {Down(i) : i \in Inputs} \cup {Up(i) : i \in Inputs}

\* fromSDL of an event it does not know: all fields 0, which reads as the press
\* of a key without a scancode.
Zero == Down(Key(0))

VARIABLES
    platform,           \* what the receiver runs on
    down,               \* environment: the keys and buttons the user holds
    pressed,            \* UIInputManager::pressed_
    is_mouse_contained, \* is_mouse_contained_
    connected,          \* the client is connected to the receiver
    channel,            \* forwarded events that have not arrived
    mounted,            \* the receiver scene has subscribed to what arrives
    native,             \* what the receiver's system takes to be held
    followed            \* history: inputs whose last event was not lost

sender == <<down, pressed, is_mouse_contained>>
vars == <<platform, sender, connected, channel, mounted, native, followed>>

\* The user has clicked Connect: SenderScene::didMount has contained the mouse,
\* nothing is held, and the receiver is still in its home scene.
Init ==
    /\ platform \in {"windows", "macos"}
    /\ down = {}
    /\ pressed = {}
    /\ is_mouse_contained = TRUE
    /\ connected \in {TRUE, ~ Breaks}
    /\ channel = <<>>
    /\ mounted = FALSE
    /\ native = {}
    /\ followed = Inputs

------------------------------------------------------------------------------
\* The receiver.

\* The button that post_mouse_button (macOS) presses: all but the left and the
\* right one are the middle button.
mac_button(b) == IF b \in {1, 3} THEN b ELSE 2

\* emitMouseButton (Windows) knows five buttons.
win_button(b) == {b} \cap 1 .. 5

\* What an input becomes on a platform; nothing where the table has no entry.
NativeOf(p, i) ==
    CASE p = "macos" /\ i.type = "key" ->
            {[vk |-> hid_to_mac_vk[k]] : k \in {i.code} \cap DOMAIN hid_to_mac_vk}
      [] p = "macos" /\ i.type = "mouse" ->
            {[button |-> mac_button(i.code)]}
      [] p = "windows" /\ i.type = "key" ->
            {[scan |-> hid_to_win_scan[k]] : k \in {i.code} \cap DOMAIN hid_to_win_scan}
      [] p = "windows" /\ i.type = "mouse" ->
            {[button |-> b] : b \in win_button(i.code)}

\* Emitter::emit.
emit(p, held, e) ==
    IF e.action = "down" THEN held \cup NativeOf(p, e.input)
                         ELSE held \ NativeOf(p, e.input)

\* ReceiverScene::didMount, at any time after the request; it may never come.
Mount ==
    /\ ~ mounted
    /\ mounted' = TRUE
    /\ UNCHANGED <<platform, sender, connected, channel, native, followed>>

\* Mutant of Arrive: every receiver uses the table of macOS.
ArriveOnMac ==
    /\ channel # <<>> /\ mounted
    /\ native' = emit("macos", native, Head(channel))
    /\ channel' = Tail(channel)
    /\ UNCHANGED <<platform, sender, connected, mounted, followed>>

\* Mutant of Arrive: keys travel on the unreliable channel, as motion does, where a
\* packet may overtake an earlier one.
ArriveUnordered ==
    /\ mounted
    /\ \E i \in 1 .. Len(channel) :
          /\ native' = emit(platform, native, channel[i])
          /\ channel' = SubSeq(channel, 1, i - 1) \o SubSeq(channel, i + 1, Len(channel))
    /\ UNCHANGED <<platform, sender, connected, mounted, followed>>

\* The receiver scene's handler.
Arrive ==
    /\ channel # <<>> /\ mounted
    /\ native' = emit(platform, native, Head(channel))
    /\ channel' = Tail(channel)
    /\ UNCHANGED <<platform, sender, connected, mounted, followed>>

\* The home scene's handler: only a request means anything to it.  A later event of
\* the same input that is on its way makes up for the ignored one.
Ignore ==
    /\ channel # <<>> /\ ~ mounted
    /\ channel' = Tail(channel)
    /\ followed' = followed \ ({Head(channel).input}
                                  \ {channel[j].input : j \in 2 .. Len(channel)})
    /\ UNCHANGED <<platform, sender, connected, mounted, native>>

------------------------------------------------------------------------------
\* The sender.

\* SenderScene::handleInput after the chord test, SenderFlow::push_event and
\* udp_client::send_impl.
Forward(e, contained) ==
    IF contained /\ connected
    THEN /\ Len(channel) < MaxInFlight
         /\ channel' = Append(channel, e)
         /\ followed' = followed \cup ({e.input} \cap Inputs)
    ELSE /\ UNCHANGED channel
         /\ followed' = followed \ {e.input}

\* Mutant of Contained: the test is made before the key is recorded.
ContainedLate(keys) == is_mouse_contained /\ ~ Chord \subseteq pressed

\* handleInput's chord test: the mouse is released.
Contained(keys) == is_mouse_contained /\ ~ Chord \subseteq keys

\* SDL_EVENT_KEY_DOWN, also the repeated one of a key that is held.
KeyDown(k) ==
    /\ down' = down \cup {Key(k)}
    /\ pressed' = pressed \cup {k}
    /\ is_mouse_contained' = Contained(pressed')
    /\ Forward(Down(Key(k)), is_mouse_contained')
    /\ UNCHANGED <<platform, connected, mounted, native>>

KeyUp(k) ==
    /\ Key(k) \in down
    /\ down' = down \ {Key(k)}
    /\ pressed' = pressed \ {k}
    /\ Forward(Up(Key(k)), is_mouse_contained)
    /\ UNCHANGED <<platform, is_mouse_contained, connected, mounted, native>>

ButtonDown(b) ==
    /\ Button(b) \notin down
    /\ down' = down \cup {Button(b)}
    /\ Forward(Down(Button(b)), is_mouse_contained)
    /\ UNCHANGED <<platform, pressed, is_mouse_contained, connected, mounted, native>>

ButtonUp(b) ==
    /\ Button(b) \in down
    /\ down' = down \ {Button(b)}
    /\ Forward(Up(Button(b)), is_mouse_contained)
    /\ UNCHANGED <<platform, pressed, is_mouse_contained, connected, mounted, native>>

\* SDL_EVENT_WINDOW_FOCUS_LOST: SDL has reported the keys as released before.
FocusLost ==
    /\ \A k \in Keys : Key(k) \notin down
    /\ pressed' = {}
    /\ Forward(Zero, is_mouse_contained)
    /\ UNCHANGED <<platform, down, is_mouse_contained, connected, mounted, native>>

\* SenderScene::render's Continue button, pressed with the mouse released.
Continue ==
    /\ ~ is_mouse_contained
    /\ is_mouse_contained' = TRUE
    /\ UNCHANGED <<platform, down, pressed, connected, channel, mounted, native, followed>>

------------------------------------------------------------------------------
\* The connection comes up; it breaks, and the end of what is in flight is lost.
Reconnect ==
    /\ ~ connected
    /\ connected' = TRUE
    /\ UNCHANGED <<platform, sender, channel, mounted, native, followed>>

Break ==
    /\ Breaks /\ connected
    /\ connected' = FALSE
    /\ \E i \in 0 .. Len(channel) :
          /\ channel' = SubSeq(channel, 1, i)
          /\ followed' = followed \ {channel[j].input : j \in i + 1 .. Len(channel)}
    /\ UNCHANGED <<platform, sender, mounted, native>>

Next ==
    \/ \E k \in Keys : KeyDown(k) \/ KeyUp(k)
    \/ \E b \in Buttons : ButtonDown(b) \/ ButtonUp(b)
    \/ FocusLost \/ Continue
    \/ Reconnect \/ Break
    \/ Mount \/ Ignore \/ Arrive

Spec == Init /\ [][Next]_vars

------------------------------------------------------------------------------
\* The type of every variable.
TypeOK ==
    /\ platform \in {"windows", "macos"}
    /\ down \in SUBSET Inputs
    /\ pressed \in SUBSET Keys
    /\ is_mouse_contained \in BOOLEAN
    /\ connected \in BOOLEAN
    /\ channel \in Seq(Events \cup {Zero})
    /\ Len(channel) <= MaxInFlight
    /\ mounted \in BOOLEAN
    /\ native \subseteq UNION {NativeOf(platform, i) : i \in Inputs}
    /\ followed \in SUBSET Inputs

\* The native codes an event concerns.
Concerns(e, c) == c \in NativeOf(platform, e.input)

\* What the receiver will hold when everything in flight has arrived in its
\* receiver scene: the last event that concerns a native code decides.
WillHold(c) ==
    \/ /\ c \in native
       /\ \A j \in DOMAIN channel : ~ Concerns(channel[j], c)
    \/ \E j \in DOMAIN channel :
          /\ Concerns(channel[j], c) /\ channel[j].action = "down"
          /\ \A k \in DOMAIN channel : k > j => ~ Concerns(channel[k], c)

\* The keys and buttons that become the native code c.
Sharing(c) == {i \in Inputs : c \in NativeOf(platform, i)}

NativeCodes == UNION {NativeOf(platform, i) : i \in Inputs}

\* The receiver holds exactly what the user holds, as soon as it has caught up: a
\* native code is held when all keys or buttons that become it are held, and not
\* when none is.  Only an input whose last event was dropped, lost with the
\* connection, made with the mouse released or ignored by the receiver's home scene
\* can differ, and only buttons that
\* share a code (macOS) leave open what is held when some of them are.  In
\* particular no event of another key, known or unknown, presses or releases it.
ReceiverFollows ==
    \A c \in NativeCodes : Sharing(c) \subseteq followed =>
        /\ Sharing(c) \subseteq down => WillHold(c)
        /\ Sharing(c) \cap down = {} => ~ WillHold(c)

\* The table of the receiver's platform, as a whole, gives no two keys the same
\* native code, so the release of one never releases another one.
KeysStayApart == IF platform = "windows" THEN win_apart ELSE mac_apart

\* Whichever of the three keys comes last, the key press that completes the
\* chord releases the mouse, so the user is never locked in.
ChordReleases ==
    [][Chord \subseteq pressed' /\ ~ Chord \subseteq pressed => ~ is_mouse_contained']_vars

\* README.md: the sender "transmits events over network to a receiving device,
\* then emulates input on the receiver".  When the user has let go of all keys
\* and buttons and everything has arrived over a connection that never broke,
\* the receiver holds nothing.
NothingStaysPressed ==
    ~ Breaks /\ down = {} /\ channel = <<>> => native = {}
==============================================================================
