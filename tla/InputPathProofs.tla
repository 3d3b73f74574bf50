--------------------------- MODULE InputPathProofs ---------------------------
(***************************************************************************)
(* Proofs about InputPath: the receiver follows the user for any keys and  *)
(* buttons and any number of events in flight, exactly so for keys, since  *)
(* the tables keep them apart; what stays held was lost on the way; and    *)
(* the chord releases the mouse.                                           *)
(***************************************************************************)
EXTENDS InputPath, KeyMappingProofs

USE KeysAssumption, ButtonsAssumption, InFlightAssumption, BreaksAssumption

------------------------------------------------------------------------------
\* An unknown event presses and releases nothing.
LEMMA ZeroUnknown ==
    ASSUME NEW p \in {"windows", "macos"}
    PROVE  NativeOf(p, Zero.input) = {}
<1>1. Zero.input.type = "key" /\ Zero.input.code = 0
  BY DEF Zero, Down, Key
<1>2. CASE p = "macos"
  <2>1. {Zero.input.code} \cap DOMAIN hid_to_mac_vk = {}
    BY <1>1, MacKeysApart
  <2> QED  BY <1>1, <1>2, <2>1 DEF NativeOf
<1>3. CASE p = "windows"
  <2>1. {Zero.input.code} \cap DOMAIN hid_to_win_scan = {}
    BY <1>1, WinKeysApart
  <2> QED  BY <1>1, <1>3, <2>1 DEF NativeOf
<1> QED  BY <1>2, <1>3

------------------------------------------------------------------------------
(***************************************************************************)
(* Types.                                                                  *)
(***************************************************************************)
LEMMA InputTypes ==
    /\ \A k \in Keys : Key(k) \in Inputs
    /\ \A b \in Buttons : Button(b) \in Inputs
    /\ \A i \in Inputs : Down(i) \in Events /\ Up(i) \in Events
    /\ \A e \in Events : e.input \in Inputs
    /\ \A i : Down(i).input = i /\ Up(i).input = i
    /\ \A i : Down(i).action = "down" /\ Up(i).action = "up"
    /\ Zero.input \notin Inputs
<1>1. \A i : /\ Down(i).input = i /\ Up(i).input = i
             /\ Down(i).action = "down" /\ Up(i).action = "up"
  BY DEF Down, Up
<1>2. \A e \in Events : e.input \in Inputs
  BY <1>1 DEF Events
<1>3. Zero.input \notin Inputs
  <2>1. \A k \in Keys : k # 0
    OBVIOUS
  <2>2. \A i \in Inputs : i.type = "mouse" \/ i.code # 0
    BY <2>1 DEF Inputs, Key, Button
  <2> QED  BY <2>2 DEF Zero, Down, Key
<1> QED  BY <1>1, <1>2, <1>3 DEF Events, Inputs

\* What the sender hands on: one more event, or nothing.
LEMMA ForwardTypes ==
    ASSUME TypeOK, NEW e \in Events \cup {Zero}, NEW contained, Forward(e, contained)
    PROVE  /\ channel' \in Seq(Events \cup {Zero}) /\ Len(channel') <= MaxInFlight
           /\ followed' \in SUBSET Inputs
<1>1. channel \in Seq(Events \cup {Zero}) /\ Len(channel) <= MaxInFlight
      /\ followed \in SUBSET Inputs /\ Len(channel) \in Nat
  BY DEF TypeOK
<1>2. CASE contained /\ connected
  <2>1. /\ Len(channel) < MaxInFlight /\ channel' = Append(channel, e)
        /\ followed' = followed \cup ({e.input} \cap Inputs)
    BY <1>2 DEF Forward
  <2>2. channel' \in Seq(Events \cup {Zero}) /\ Len(channel') = Len(channel) + 1
    BY <1>1, <2>1
  <2> QED  BY <1>1, <2>1, <2>2
<1>3. CASE ~ (contained /\ connected)
  BY <1>1, <1>3 DEF Forward
<1> QED  BY <1>2, <1>3

LEMMA TypeInductive == TypeOK /\ [Next]_vars => TypeOK'
<1> SUFFICES ASSUME TypeOK, [Next]_vars PROVE TypeOK'
  OBVIOUS
<1>1. ASSUME NEW k \in Keys, KeyDown(k) PROVE TypeOK'
  <2>1. Down(Key(k)) \in Events /\ Key(k) \in Inputs
    BY InputTypes
  <2>2. Forward(Down(Key(k)), is_mouse_contained')
    BY <1>1 DEF KeyDown
  <2>3. is_mouse_contained' \in BOOLEAN
    BY <1>1 DEF KeyDown, Contained
  <2> QED  BY <1>1, <2>1, <2>2, <2>3, ForwardTypes DEF KeyDown, TypeOK
<1>2. ASSUME NEW k \in Keys, KeyUp(k) PROVE TypeOK'
  <2>1. Up(Key(k)) \in Events
    BY InputTypes
  <2> QED  BY <1>2, <2>1, ForwardTypes DEF KeyUp, TypeOK
<1>3. ASSUME NEW b \in Buttons, ButtonDown(b) PROVE TypeOK'
  <2>1. Down(Button(b)) \in Events /\ Button(b) \in Inputs
    BY InputTypes
  <2> QED  BY <1>3, <2>1, ForwardTypes DEF ButtonDown, TypeOK
<1>4. ASSUME NEW b \in Buttons, ButtonUp(b) PROVE TypeOK'
  <2>1. Up(Button(b)) \in Events
    BY InputTypes
  <2> QED  BY <1>4, <2>1, ForwardTypes DEF ButtonUp, TypeOK
<1>5. CASE FocusLost
  BY <1>5, ForwardTypes DEF FocusLost, TypeOK
<1>6. CASE Continue
  BY <1>6 DEF Continue, TypeOK
<1>7. CASE Reconnect
  BY <1>7 DEF Reconnect, TypeOK, sender
<1>8. CASE Break
  <2>1. PICK i \in 0 .. Len(channel) :
           /\ channel' = SubSeq(channel, 1, i)
           /\ followed' = followed \ {channel[j].input : j \in i + 1 .. Len(channel)}
    BY <1>8 DEF Break
  <2>2. channel \in Seq(Events \cup {Zero}) /\ Len(channel) <= MaxInFlight
    BY DEF TypeOK
  <2>3. channel' \in Seq(Events \cup {Zero}) /\ Len(channel') = i
    BY <2>1, <2>2
  <2>4. Len(channel') <= MaxInFlight
    BY <2>2, <2>3
  <2> QED  BY <1>8, <2>1, <2>3, <2>4 DEF Break, TypeOK, sender
<1>9. CASE Arrive
  <2> DEFINE e == Head(channel)
  <2>1. /\ channel # <<>> /\ channel' = Tail(channel)
        /\ native' = emit(platform, native, e)
        /\ UNCHANGED <<platform, sender, connected, mounted, followed>>
    BY <1>9 DEF Arrive
  <2>2. channel \in Seq(Events \cup {Zero}) /\ Len(channel) <= MaxInFlight
    BY DEF TypeOK
  <2>3. e \in Events \cup {Zero} /\ channel' \in Seq(Events \cup {Zero})
        /\ Len(channel') <= MaxInFlight
    BY <2>1, <2>2
  <2>4. NativeOf(platform, e.input) \subseteq UNION {NativeOf(platform, i) : i \in Inputs}
    <3>1. CASE e \in Events
      <4>1. e.input \in Inputs
        BY <3>1, InputTypes
      <4> QED  BY <4>1
    <3>2. CASE e = Zero
      BY <3>2, ZeroUnknown DEF TypeOK
    <3> QED  BY <2>3, <3>1, <3>2
  <2> HIDE DEF e
  <2>5. native' \subseteq UNION {NativeOf(platform, i) : i \in Inputs}
    BY <2>1, <2>4 DEF emit, TypeOK
  <2> QED  BY <2>1, <2>3, <2>5 DEF TypeOK, sender
<1>10. CASE UNCHANGED vars
  BY <1>10 DEF vars, sender, TypeOK
<1>11. CASE Mount
  BY <1>11 DEF Mount, TypeOK, sender
<1>12. CASE Ignore
  <2>1. channel \in Seq(Events \cup {Zero}) /\ Len(channel) <= MaxInFlight /\ channel # <<>>
    BY <1>12 DEF Ignore, TypeOK
  <2>2. channel' \in Seq(Events \cup {Zero}) /\ Len(channel') <= MaxInFlight
    BY <1>12, <2>1 DEF Ignore
  <2>3. followed' \in SUBSET Inputs
    BY <1>12 DEF Ignore, TypeOK
  <2> QED  BY <1>12, <2>2, <2>3 DEF Ignore, TypeOK, sender
<1> QED
  BY <1>1, <1>2, <1>3, <1>4, <1>5, <1>6, <1>7, <1>8, <1>9, <1>10, <1>11, <1>12 DEF Next

LEMMA Initially == Init => TypeOK /\ ReceiverFollows
<1> SUFFICES ASSUME Init PROVE TypeOK /\ ReceiverFollows
  OBVIOUS
<1>1. TypeOK
  <2>1. channel \in Seq(Events \cup {Zero}) /\ Len(channel) = 0
    BY DEF Init
  <2>2. connected \in BOOLEAN
    BY DEF Init
  <2>3. native \subseteq UNION {NativeOf(platform, i) : i \in Inputs}
    BY DEF Init
  <2>4. Len(channel) <= MaxInFlight
    BY <2>1
  <2> QED  BY <2>1, <2>2, <2>3, <2>4 DEF Init, TypeOK
<1>2. \A c : ~ WillHold(c)
  BY DEF Init, WillHold
<1>3. \A c \in NativeCodes : Sharing(c) # {}
  BY DEF NativeCodes, Sharing
<1>4. \A c \in NativeCodes : ~ (Sharing(c) \subseteq down)
  BY <1>3 DEF Init
<1> QED  BY <1>1, <1>2, <1>4 DEF ReceiverFollows

------------------------------------------------------------------------------
(***************************************************************************)
(* What the receiver will hold, when an event is sent, arrives or is lost. *)
(***************************************************************************)
\* An event that is sent decides about the codes it concerns, and no others.
LEMMA SentHolds ==
    ASSUME TypeOK, NEW e, NEW c, channel' = Append(channel, e),
           UNCHANGED <<platform, native>>
    PROVE  WillHold(c)' <=> IF Concerns(e, c) THEN e.action = "down" ELSE WillHold(c)
<1> DEFINE n == Len(channel)
<1>1. n \in Nat /\ channel \in Seq(Events \cup {Zero})
  BY DEF TypeOK
<1>2. /\ DOMAIN channel = 1 .. n /\ DOMAIN channel' = 1 .. n + 1
      /\ \A j \in 1 .. n : channel'[j] = channel[j]
      /\ channel'[n + 1] = e
  BY <1>1
<1> HIDE DEF n
<1>3. \A x : Concerns(x, c)' <=> Concerns(x, c)
  BY DEF Concerns
<1>4. CASE Concerns(e, c)
  <2>1. WillHold(c)' <=> e.action = "down"
    BY <1>1, <1>2, <1>3, <1>4 DEF WillHold
  <2> QED  BY <1>4, <2>1
<1>5. CASE ~ Concerns(e, c)
  <2>1. /\ (\A j \in DOMAIN channel' : ~ Concerns(channel'[j], c))
             <=> (\A j \in DOMAIN channel : ~ Concerns(channel[j], c))
        /\ (\E j \in DOMAIN channel' :
              /\ Concerns(channel'[j], c) /\ channel'[j].action = "down"
              /\ \A k \in DOMAIN channel' : k > j => ~ Concerns(channel'[k], c))
             <=> (\E j \in DOMAIN channel :
                    /\ Concerns(channel[j], c) /\ channel[j].action = "down"
                    /\ \A k \in DOMAIN channel : k > j => ~ Concerns(channel[k], c))
    BY <1>1, <1>2, <1>5
  <2>2. WillHold(c)' <=> WillHold(c)
    BY <1>3, <2>1 DEF WillHold
  <2> QED  BY <1>5, <2>2
<1> QED  BY <1>4, <1>5

\* What the receiver will hold does not depend on whether the first event in flight has
\* arrived, and not on that event at all when a later one decides about the same code.
LEMMA TailHolds ==
    ASSUME TypeOK, NEW c, channel # <<>>, channel' = Tail(channel), UNCHANGED platform,
           \/ c \in native' <=> IF Concerns(Head(channel), c)
                                THEN Head(channel).action = "down" ELSE c \in native
           \/ \E j \in DOMAIN channel' : Concerns(channel'[j], c)
    PROVE  WillHold(c)' <=> WillHold(c)
<1> DEFINE n == Len(channel)
           h == Head(channel)
<1>1. /\ n \in Nat /\ channel \in Seq(Events \cup {Zero}) /\ n > 0
      /\ channel' = Tail(channel)
      /\ UNCHANGED platform
  BY DEF TypeOK
<1>2. /\ DOMAIN channel = 1 .. n /\ DOMAIN channel' = 1 .. n - 1
      /\ \A j \in 1 .. n - 1 : channel'[j] = channel[j + 1]
      /\ h = channel[1]
  BY <1>1
<1> HIDE DEF n, h
<1>3. \A x : Concerns(x, c)' <=> Concerns(x, c)
  BY <1>1 DEF Concerns
<1>4. \/ c \in native' <=> IF Concerns(h, c) THEN h.action = "down" ELSE c \in native
      \/ \E j \in DOMAIN channel' : Concerns(channel'[j], c)
  BY DEF h
<1>5. (\A j \in DOMAIN channel : ~ Concerns(channel[j], c))
        <=> /\ ~ Concerns(h, c)
            /\ \A j \in DOMAIN channel' : ~ Concerns(channel'[j], c)
  <2>1. ASSUME \A j \in DOMAIN channel : ~ Concerns(channel[j], c)
        PROVE  ~ Concerns(h, c) /\ \A j \in DOMAIN channel' : ~ Concerns(channel'[j], c)
    BY <1>1, <1>2, <2>1
  <2>2. ASSUME ~ Concerns(h, c), \A j \in DOMAIN channel' : ~ Concerns(channel'[j], c),
               NEW j \in DOMAIN channel
        PROVE  ~ Concerns(channel[j], c)
    <3>1. CASE j = 1
      BY <1>2, <2>2, <3>1
    <3>2. CASE j # 1
      <4>1. j - 1 \in DOMAIN channel' /\ channel'[j - 1] = channel[j]
        BY <1>1, <1>2, <3>2
      <4> QED  BY <2>2, <4>1
    <3> QED  BY <3>1, <3>2
  <2> QED  BY <2>1, <2>2
<1> DEFINE Last(ch, j) == /\ Concerns(ch[j], c) /\ ch[j].action = "down"
                          /\ \A k \in DOMAIN ch : k > j => ~ Concerns(ch[k], c)
<1>6. \A j \in DOMAIN channel' : Last(channel', j) <=> Last(channel, j + 1)
  <2> TAKE j \in DOMAIN channel'
  <2>1. j + 1 \in DOMAIN channel /\ channel'[j] = channel[j + 1]
    BY <1>1, <1>2
  <2>2. (\A k \in DOMAIN channel' : k > j => ~ Concerns(channel'[k], c))
          <=> \A k \in DOMAIN channel : k > j + 1 => ~ Concerns(channel[k], c)
    <3>1. ASSUME \A k \in DOMAIN channel' : k > j => ~ Concerns(channel'[k], c),
                 NEW k \in DOMAIN channel, k > j + 1
          PROVE  ~ Concerns(channel[k], c)
      <4>1. k - 1 \in DOMAIN channel' /\ channel'[k - 1] = channel[k] /\ k - 1 > j
        BY <1>1, <1>2, <3>1
      <4> QED  BY <3>1, <4>1
    <3>2. ASSUME \A k \in DOMAIN channel : k > j + 1 => ~ Concerns(channel[k], c),
                 NEW k \in DOMAIN channel', k > j
          PROVE  ~ Concerns(channel'[k], c)
      <4>1. k + 1 \in DOMAIN channel /\ channel'[k] = channel[k + 1] /\ k + 1 > j + 1
        BY <1>1, <1>2, <3>2
      <4> QED  BY <3>2, <4>1
    <3> QED  BY <3>1, <3>2
  <2> QED  BY <2>1, <2>2
<1>7. Last(channel, 1)
        <=> /\ Concerns(h, c) /\ h.action = "down"
            /\ \A j \in DOMAIN channel' : ~ Concerns(channel'[j], c)
  <2>1. (\A k \in DOMAIN channel : k > 1 => ~ Concerns(channel[k], c))
          <=> \A j \in DOMAIN channel' : ~ Concerns(channel'[j], c)
    <3>1. ASSUME \A k \in DOMAIN channel : k > 1 => ~ Concerns(channel[k], c),
                 NEW j \in DOMAIN channel'
          PROVE  ~ Concerns(channel'[j], c)
      <4>1. j + 1 \in DOMAIN channel /\ channel'[j] = channel[j + 1] /\ j + 1 > 1
        BY <1>1, <1>2
      <4> QED  BY <3>1, <4>1
    <3>2. ASSUME \A j \in DOMAIN channel' : ~ Concerns(channel'[j], c),
                 NEW k \in DOMAIN channel, k > 1
          PROVE  ~ Concerns(channel[k], c)
      <4>1. k - 1 \in DOMAIN channel' /\ channel'[k - 1] = channel[k]
        BY <1>1, <1>2, <3>2
      <4> QED  BY <3>2, <4>1
    <3> QED  BY <3>1, <3>2
  <2> QED  BY <1>2, <2>1
<1>8. (\E j \in DOMAIN channel : Last(channel, j))
        <=> Last(channel, 1) \/ \E j \in DOMAIN channel' : Last(channel', j)
  <2>1. ASSUME NEW j \in DOMAIN channel, Last(channel, j), j # 1
        PROVE  \E i \in DOMAIN channel' : Last(channel', i)
    <3>1. j - 1 \in DOMAIN channel' /\ (j - 1) + 1 = j
      BY <1>1, <1>2, <2>1
    <3> HIDE DEF Last
    <3> QED  BY <1>6, <2>1, <3>1
  <2>2. ASSUME NEW j \in DOMAIN channel', Last(channel', j)
        PROVE  \E i \in DOMAIN channel : Last(channel, i)
    <3>1. j + 1 \in DOMAIN channel
      BY <1>1, <1>2
    <3> HIDE DEF Last
    <3> QED  BY <1>6, <2>2, <3>1
  <2>3. 1 \in DOMAIN channel
    BY <1>1, <1>2
  <2> HIDE DEF Last
  <2> QED  BY <2>1, <2>2, <2>3
<1>9. /\ WillHold(c) <=> \/ c \in native /\ \A j \in DOMAIN channel : ~ Concerns(channel[j], c)
                         \/ \E j \in DOMAIN channel : Last(channel, j)
      /\ WillHold(c)' <=> \/ c \in native' /\ \A j \in DOMAIN channel' : ~ Concerns(channel'[j], c)
                          \/ \E j \in DOMAIN channel' : Last(channel', j)
  BY <1>3 DEF WillHold
<1> HIDE DEF Last
<1> QED  BY <1>4, <1>5, <1>7, <1>8, <1>9

\* An arrival changes what the receiver holds, not what it will hold.
LEMMA ArrivedHolds ==
    ASSUME TypeOK, NEW c, Arrive
    PROVE  WillHold(c)' <=> WillHold(c)
<1> DEFINE h == Head(channel)
<1>1. channel # <<>> /\ channel' = Tail(channel) /\ UNCHANGED platform
      /\ native' = emit(platform, native, h)
  BY DEF Arrive
<1> HIDE DEF h
<1>2. c \in native' <=> IF Concerns(h, c) THEN h.action = "down" ELSE c \in native
  BY <1>1 DEF emit, Concerns
<1> QED  BY <1>1, <1>2, TailHolds DEF h

\* An event that the home scene ignores does not matter to the codes that it does not
\* concern, nor to those that a later event concerns.
LEMMA IgnoredHolds ==
    ASSUME TypeOK, NEW c, Ignore,
           Concerns(Head(channel), c) => \E j \in 2 .. Len(channel) : Concerns(channel[j], c)
    PROVE  WillHold(c)' <=> WillHold(c)
<1>1. channel # <<>> /\ channel' = Tail(channel) /\ UNCHANGED <<platform, native>>
      /\ channel \in Seq(Events \cup {Zero})
  BY DEF Ignore, TypeOK
<1>2. ASSUME NEW j \in 2 .. Len(channel), Concerns(channel[j], c)
      PROVE  \E k \in DOMAIN channel' : Concerns(channel'[k], c)
  <2>1. j - 1 \in DOMAIN channel' /\ channel'[j - 1] = channel[j]
    BY <1>1
  <2> QED  BY <1>2, <2>1
<1> QED  BY <1>1, <1>2, TailHolds

\* The loss of the end of what is in flight does not matter to the codes that no
\* lost event concerns.
LEMMA CutHolds ==
    ASSUME TypeOK, NEW c, NEW i \in 0 .. Len(channel), channel' = SubSeq(channel, 1, i),
           UNCHANGED <<platform, native>>,
           \A j \in i + 1 .. Len(channel) : ~ Concerns(channel[j], c)
    PROVE  WillHold(c)' <=> WillHold(c)
<1> DEFINE n == Len(channel)
<1>1. n \in Nat /\ channel \in Seq(Events \cup {Zero}) /\ i \in 0 .. n
  BY DEF TypeOK
<1>2. /\ DOMAIN channel = 1 .. n /\ DOMAIN channel' = 1 .. i
      /\ \A j \in 1 .. i : channel'[j] = channel[j]
  BY <1>1
<1>3. \A j \in i + 1 .. n : ~ Concerns(channel[j], c)
  OBVIOUS
<1> HIDE DEF n
<1>4. \A x : Concerns(x, c)' <=> Concerns(x, c)
  BY DEF Concerns
<1>5. \A j \in DOMAIN channel : Concerns(channel[j], c) => j \in DOMAIN channel'
  BY <1>1, <1>2, <1>3
<1>6. \A j \in DOMAIN channel' : j \in DOMAIN channel /\ channel'[j] = channel[j]
  BY <1>1, <1>2
<1> QED  BY <1>4, <1>5, <1>6 DEF WillHold

------------------------------------------------------------------------------
(***************************************************************************)
(* The receiver follows the user.                                          *)
(***************************************************************************)
\* The invariant for one native code.
Follows(c) ==
    Sharing(c) \subseteq followed =>
        /\ Sharing(c) \subseteq down => WillHold(c)
        /\ Sharing(c) \cap down = {} => ~ WillHold(c)

\* The platform of the receiver, and with it what shares a code, is fixed.
LEMMA CodesFixed ==
    ASSUME UNCHANGED platform
    PROVE  /\ \A c : Sharing(c)' = Sharing(c)
           /\ NativeCodes' = NativeCodes
BY DEF Sharing, NativeCodes

LEMMA FollowsAll ==
    ASSUME ReceiverFollows, UNCHANGED platform,
           \A c \in NativeCodes : Follows(c) => Follows(c)'
    PROVE  ReceiverFollows'
<1>1. NativeCodes' = NativeCodes
  BY CodesFixed
<1>2. \A c \in NativeCodes : Follows(c)'
  BY DEF ReceiverFollows, Follows
<1> QED  BY <1>1, <1>2 DEF ReceiverFollows, Follows

\* An event of the user, whether the sender forwards it or not.
LEMMA ForwardFollows ==
    ASSUME TypeOK, ReceiverFollows, NEW e \in Events \cup {Zero}, NEW contained,
           Forward(e, contained), UNCHANGED <<platform, native>>,
           \A i \in Inputs : i \in down' <=> IF i = e.input THEN e.action = "down"
                                                            ELSE i \in down
    PROVE  ReceiverFollows'
<1> SUFFICES ASSUME NEW c \in NativeCodes, Follows(c) PROVE Follows(c)'
  BY FollowsAll
<1>1. Sharing(c)' = Sharing(c) /\ Sharing(c) \subseteq Inputs /\ UNCHANGED platform
  BY CodesFixed DEF Sharing
<1>2. Concerns(e, c) <=> e.input \in Sharing(c)
  <2>1. CASE e \in Events
    <3>1. e.input \in Inputs
      BY <2>1, InputTypes
    <3> QED  BY <3>1 DEF Sharing, Concerns
  <2>2. CASE e = Zero
    <3>1. e.input \notin Inputs /\ NativeOf(platform, e.input) = {}
      BY <2>2, InputTypes, ZeroUnknown DEF TypeOK
    <3> QED  BY <3>1 DEF Sharing, Concerns
  <2> QED  BY <2>1, <2>2
<1>3. ASSUME Sharing(c) \subseteq followed', e.input \notin Sharing(c),
             WillHold(c)' <=> WillHold(c), Sharing(c) \subseteq followed
      PROVE  Follows(c)'
  <2>1. \A i \in Sharing(c) : i \in down' <=> i \in down
    BY <1>1, <1>3
  <2> QED  BY <1>1, <1>3, <2>1 DEF Follows
<1>4. CASE contained /\ connected
  <2>1. channel' = Append(channel, e) /\ followed' = followed \cup ({e.input} \cap Inputs)
    BY <1>4 DEF Forward
  <2>2. WillHold(c)' <=> IF Concerns(e, c) THEN e.action = "down" ELSE WillHold(c)
    BY <2>1, SentHolds
  <2>3. CASE e.input \in Sharing(c)
    <3>1. WillHold(c)' <=> e.action = "down"
      BY <1>2, <2>2, <2>3
    <3>2. e.input \in down' <=> e.action = "down"
      BY <1>1, <2>3
    <3> QED  BY <1>1, <2>3, <3>1, <3>2 DEF Follows
  <2>4. CASE e.input \notin Sharing(c)
    <3>1. WillHold(c)' <=> WillHold(c)
      BY <1>2, <2>2, <2>4
    <3>2. Sharing(c) \subseteq followed' => Sharing(c) \subseteq followed
      BY <2>1, <2>4
    <3>3. CASE Sharing(c) \subseteq followed'
      BY <1>3, <2>4, <3>1, <3>2, <3>3
    <3>4. CASE ~ (Sharing(c) \subseteq followed')
      BY <1>1, <3>4 DEF Follows
    <3> QED  BY <3>3, <3>4
  <2> QED  BY <2>3, <2>4
<1>5. CASE ~ (contained /\ connected)
  <2>1. channel' = channel /\ followed' = followed \ {e.input}
    BY <1>5 DEF Forward
  <2>2. WillHold(c)' <=> WillHold(c)
    BY <1>1, <2>1 DEF WillHold, Concerns
  <2>3. CASE Sharing(c) \subseteq followed'
    <3>1. e.input \notin Sharing(c) /\ Sharing(c) \subseteq followed
      BY <2>1, <2>3
    <3> QED  BY <1>3, <2>2, <2>3, <3>1
  <2>4. CASE ~ (Sharing(c) \subseteq followed')
    BY <1>1, <2>4 DEF Follows
  <2> QED  BY <2>3, <2>4
<1> QED  BY <1>4, <1>5

LEMMA FollowsInductive == TypeOK /\ ReceiverFollows /\ [Next]_vars => ReceiverFollows'
<1> SUFFICES ASSUME TypeOK, ReceiverFollows, [Next]_vars PROVE ReceiverFollows'
  OBVIOUS
<1>1. ASSUME NEW k \in Keys, KeyDown(k) PROVE ReceiverFollows'
  <2> DEFINE e == Down(Key(k))
  <2>1. e \in Events /\ e.input = Key(k) /\ e.action = "down"
    BY InputTypes
  <2>2. Forward(e, is_mouse_contained') /\ UNCHANGED <<platform, native>>
        /\ down' = down \cup {Key(k)}
    BY <1>1 DEF KeyDown
  <2> HIDE DEF e
  <2>3. \A i \in Inputs : i \in down' <=> IF i = e.input THEN e.action = "down" ELSE i \in down
    BY <2>1, <2>2
  <2> QED  BY <2>1, <2>2, <2>3, ForwardFollows
<1>2. ASSUME NEW k \in Keys, KeyUp(k) PROVE ReceiverFollows'
  <2> DEFINE e == Up(Key(k))
  <2>1. e \in Events /\ e.input = Key(k) /\ e.action = "up"
    BY InputTypes
  <2>2. Forward(e, is_mouse_contained) /\ UNCHANGED <<platform, native>>
        /\ down' = down \ {Key(k)}
    BY <1>2 DEF KeyUp
  <2> HIDE DEF e
  <2>3. \A i \in Inputs : i \in down' <=> IF i = e.input THEN e.action = "down" ELSE i \in down
    BY <2>1, <2>2
  <2> QED  BY <2>1, <2>2, <2>3, ForwardFollows
<1>3. ASSUME NEW b \in Buttons, ButtonDown(b) PROVE ReceiverFollows'
  <2> DEFINE e == Down(Button(b))
  <2>1. e \in Events /\ e.input = Button(b) /\ e.action = "down"
    BY InputTypes
  <2>2. Forward(e, is_mouse_contained) /\ UNCHANGED <<platform, native>>
        /\ down' = down \cup {Button(b)}
    BY <1>3 DEF ButtonDown
  <2> HIDE DEF e
  <2>3. \A i \in Inputs : i \in down' <=> IF i = e.input THEN e.action = "down" ELSE i \in down
    BY <2>1, <2>2
  <2> QED  BY <2>1, <2>2, <2>3, ForwardFollows
<1>4. ASSUME NEW b \in Buttons, ButtonUp(b) PROVE ReceiverFollows'
  <2> DEFINE e == Up(Button(b))
  <2>1. e \in Events /\ e.input = Button(b) /\ e.action = "up"
    BY InputTypes
  <2>2. Forward(e, is_mouse_contained) /\ UNCHANGED <<platform, native>>
        /\ down' = down \ {Button(b)}
    BY <1>4 DEF ButtonUp
  <2> HIDE DEF e
  <2>3. \A i \in Inputs : i \in down' <=> IF i = e.input THEN e.action = "down" ELSE i \in down
    BY <2>1, <2>2
  <2> QED  BY <2>1, <2>2, <2>3, ForwardFollows
<1>5. CASE FocusLost
  <2>1. Forward(Zero, is_mouse_contained) /\ UNCHANGED <<platform, native, down>>
    BY <1>5 DEF FocusLost
  <2>2. \A i \in Inputs : i \in down' <=> IF i = Zero.input THEN Zero.action = "down"
                                                            ELSE i \in down
    BY <2>1, InputTypes
  <2> QED  BY <2>1, <2>2, ForwardFollows
<1>6. ASSUME UNCHANGED <<platform, down, followed>>,
             \A c : WillHold(c)' <=> WillHold(c)
      PROVE  ReceiverFollows'
  <2>1. \A c \in NativeCodes : Follows(c) => Follows(c)'
    BY <1>6, CodesFixed DEF Follows
  <2> QED  BY <1>6, <2>1, FollowsAll
<1>7. ASSUME UNCHANGED <<platform, down, channel, native, followed>>
      PROVE  ReceiverFollows'
  <2>1. \A c : WillHold(c)' <=> WillHold(c)
    BY <1>7 DEF WillHold, Concerns
  <2> QED  BY <1>6, <1>7, <2>1
<1>8. CASE Continue
  BY <1>7, <1>8 DEF Continue
<1>9. CASE Reconnect
  BY <1>7, <1>9 DEF Reconnect, sender
<1>10. CASE Break
  <2>1. PICK i \in 0 .. Len(channel) :
           /\ channel' = SubSeq(channel, 1, i)
           /\ followed' = followed \ {channel[j].input : j \in i + 1 .. Len(channel)}
    BY <1>10 DEF Break
  <2>2. UNCHANGED <<platform, native, down>>
    BY <1>10 DEF Break, sender
  <2>3. SUFFICES ASSUME NEW c \in NativeCodes, Follows(c), Sharing(c) \subseteq followed'
                 PROVE  Follows(c)'
    BY <2>2, FollowsAll, CodesFixed DEF Follows
  <2>4. \A j \in i + 1 .. Len(channel) : ~ Concerns(channel[j], c)
    <3> SUFFICES ASSUME NEW j \in i + 1 .. Len(channel), Concerns(channel[j], c) PROVE FALSE
      OBVIOUS
    <3>1. channel[j] \in Events \cup {Zero}
      BY DEF TypeOK
    <3>2. channel[j] # Zero
      BY ZeroUnknown DEF Concerns, TypeOK
    <3>3. channel[j].input \in Sharing(c)
      BY <3>1, <3>2, InputTypes DEF Sharing, Concerns
    <3> QED  BY <2>1, <2>3, <3>3
  <2>5. WillHold(c)' <=> WillHold(c)
    BY <2>1, <2>2, <2>4, CutHolds
  <2>6. Sharing(c)' = Sharing(c) /\ Sharing(c) \subseteq followed
    BY <2>1, <2>2, <2>3, CodesFixed
  <2> QED  BY <2>2, <2>3, <2>5, <2>6 DEF Follows
<1>11. CASE Arrive
  <2>1. \A c : WillHold(c)' <=> WillHold(c)
    BY <1>11, ArrivedHolds
  <2> QED  BY <1>6, <1>11, <2>1 DEF Arrive, sender
<1>12. CASE UNCHANGED vars
  BY <1>7, <1>12 DEF vars, sender
<1>13. CASE Mount
  BY <1>7, <1>13 DEF Mount, sender
<1>14. CASE Ignore
  <2> DEFINE h == Head(channel)
  <2>1. /\ followed' = followed \ ({h.input} \ {channel[j].input : j \in 2 .. Len(channel)})
        /\ UNCHANGED <<platform, native, down>>
        /\ channel # <<>> /\ channel \in Seq(Events \cup {Zero})
    BY <1>14 DEF Ignore, sender, TypeOK
  <2>2. SUFFICES ASSUME NEW c \in NativeCodes, Follows(c), Sharing(c) \subseteq followed'
                 PROVE  Follows(c)'
    BY <2>1, FollowsAll, CodesFixed DEF Follows
  <2>3. h \in Events \cup {Zero}
    BY <2>1
  <2> HIDE DEF h
  <2>4. ASSUME Concerns(h, c) PROVE \E j \in 2 .. Len(channel) : Concerns(channel[j], c)
    <3>1. h # Zero
      BY <2>4, ZeroUnknown DEF Concerns, TypeOK
    <3>2. h.input \in Sharing(c)
      BY <2>3, <2>4, <3>1, InputTypes DEF Sharing, Concerns
    <3>3. PICK j \in 2 .. Len(channel) : channel[j].input = h.input
      BY <2>1, <2>2, <3>2
    <3> QED  BY <2>4, <3>3 DEF Concerns
  <2>5. WillHold(c)' <=> WillHold(c)
    BY <1>14, <2>4, IgnoredHolds DEF h
  <2>6. Sharing(c)' = Sharing(c) /\ Sharing(c) \subseteq followed
    BY <2>1, <2>2, CodesFixed
  <2> QED  BY <2>1, <2>2, <2>5, <2>6 DEF Follows
<1> QED
  BY <1>1, <1>2, <1>3, <1>4, <1>5, <1>8, <1>9, <1>10, <1>11, <1>12, <1>13, <1>14 DEF Next

------------------------------------------------------------------------------
(***************************************************************************)
(* The theorems.                                                           *)
(***************************************************************************)
\* Every variable keeps its type; in particular the receiver's system holds nothing
\* that no key or button of the sender becomes.
THEOREM TypeCorrect == Spec => []TypeOK
BY Initially, TypeInductive, PTL DEF Spec

\* The receiver follows the user, key by key and button by button, whatever is
\* repeated, dropped, unknown to a table or lost with the connection.
THEOREM ReceiverFollowsUser == Spec => []ReceiverFollows
BY Initially, TypeInductive, FollowsInductive, PTL DEF Spec

\* Whatever the receiver's platform, the release of a key releases no other one.
THEOREM KeysAreApart == Spec => []KeysStayApart
<1>1. KeysStayApart
  BY WinKeysApart, MacKeysApart DEF KeysStayApart
<1> QED  BY <1>1, PTL

\* The inputs that have a native code of their own: keys, the buttons Windows knows,
\* and on macOS the left and the right button.
Alone == {i \in Inputs : i.type = "key" \/ platform = "windows" \/ i.code \in {1, 3}}

\* A key or button that is followed and shares its code with no other one is held by
\* the receiver, once it has caught up, if and only if the user holds it.
FollowedExactly ==
    \A i \in Alone : \A c \in NativeOf(platform, i) :
        i \in followed => (WillHold(c) <=> i \in down)

\* The native code of such an input is its own.
LEMMA AloneShares ==
    ASSUME TypeOK, NEW i \in Alone, NEW c \in NativeOf(platform, i)
    PROVE  Sharing(c) = {i} /\ c \in NativeCodes
<1>1. \A j \in Inputs : j = IF j.type = "key" THEN Key(j.code) ELSE Button(j.code)
  BY DEF Inputs, Key, Button
<1>2. i \in Inputs
  BY DEF Alone
<1>3. ASSUME NEW j \in Inputs, c \in NativeOf(platform, j) PROVE j = i
  <2>1. i.type \in {"key", "mouse"} /\ j.type \in {"key", "mouse"}
    BY <1>2 DEF Inputs, Key, Button
  <2>2. CASE platform = "macos"
    <3>1. i.type = "key" => /\ c = [vk |-> hid_to_mac_vk[i.code]]
                            /\ i.code \in DOMAIN hid_to_mac_vk
      BY <2>2 DEF NativeOf
    <3>2. j.type = "key" => /\ c = [vk |-> hid_to_mac_vk[j.code]]
                            /\ j.code \in DOMAIN hid_to_mac_vk
      BY <1>3, <2>2 DEF NativeOf
    <3>3. i.type = "mouse" => c = [button |-> i.code]
      BY <2>2 DEF NativeOf, Alone, mac_button
    <3>4. j.type = "mouse" => c = [button |-> mac_button(j.code)]
      BY <1>3, <2>2 DEF NativeOf
    <3>5. i.type = j.type
      BY <2>1, <3>1, <3>2, <3>3, <3>4
    <3>6. CASE i.type = "key"
      <4>1. hid_to_mac_vk[i.code] = hid_to_mac_vk[j.code]
        BY <3>1, <3>2, <3>5, <3>6
      <4> QED
        BY <1>1, <1>2, <3>1, <3>2, <3>5, <3>6, <4>1, MacKeysApart DEF mac_apart, Apart
    <3>7. CASE i.type = "mouse"
      <4>1. mac_button(j.code) = i.code /\ i.code \in {1, 3}
        BY <2>2, <3>3, <3>4, <3>5, <3>7 DEF Alone
      <4>2. j.code = i.code
        BY <4>1 DEF mac_button
      <4> QED  BY <1>1, <1>2, <3>5, <3>7, <4>2
    <3> QED  BY <2>1, <3>6, <3>7
  <2>3. CASE platform = "windows"
    <3>1. i.type = "key" => /\ c = [scan |-> hid_to_win_scan[i.code]]
                            /\ i.code \in DOMAIN hid_to_win_scan
      BY <2>3 DEF NativeOf
    <3>2. j.type = "key" => /\ c = [scan |-> hid_to_win_scan[j.code]]
                            /\ j.code \in DOMAIN hid_to_win_scan
      BY <1>3, <2>3 DEF NativeOf
    <3>3. i.type = "mouse" => c = [button |-> i.code]
      BY <2>3 DEF NativeOf, win_button
    <3>4. j.type = "mouse" => c = [button |-> j.code]
      BY <1>3, <2>3 DEF NativeOf, win_button
    <3>5. i.type = j.type
      BY <2>1, <3>1, <3>2, <3>3, <3>4
    <3>6. CASE i.type = "key"
      <4>1. hid_to_win_scan[i.code] = hid_to_win_scan[j.code]
        BY <3>1, <3>2, <3>5, <3>6
      <4> QED
        BY <1>1, <1>2, <3>1, <3>2, <3>5, <3>6, <4>1, WinKeysApart DEF win_apart, Apart
    <3>7. CASE i.type = "mouse"
      <4>1. c.button = i.code /\ c.button = j.code
        BY <3>3, <3>4, <3>5, <3>7
      <4> QED  BY <1>1, <1>2, <3>5, <3>7, <4>1
    <3> QED  BY <2>1, <3>6, <3>7
  <2> QED  BY <2>2, <2>3 DEF TypeOK
<1> QED  BY <1>2, <1>3 DEF Sharing, NativeCodes

\* Every key, on both platforms, and every button that keeps its identity is followed
\* exactly: no other input, held or released, gets in its way.
THEOREM FollowsExactly == Spec => []FollowedExactly
<1>1. TypeOK /\ ReceiverFollows => FollowedExactly
  <2> SUFFICES ASSUME TypeOK, ReceiverFollows, NEW i \in Alone,
                      NEW c \in NativeOf(platform, i), i \in followed
               PROVE  WillHold(c) <=> i \in down
    BY DEF FollowedExactly
  <2>1. Sharing(c) = {i} /\ c \in NativeCodes
    BY AloneShares
  <2> QED  BY <2>1 DEF ReceiverFollows
<1> QED  BY <1>1, TypeCorrect, ReceiverFollowsUser, PTL

\* When the user has let go of everything and everything has arrived, the receiver
\* only holds what some lost event should have released.
HeldForAReason ==
    down = {} /\ channel = <<>> =>
        \A c \in native : \E i \in Inputs \ followed : c \in NativeOf(platform, i)

\* What stays pressed on the receiver, as it does after the chord, is always the
\* trace of an event that the sender dropped or the connection lost.
THEOREM StaysForAReason == Spec => []HeldForAReason
<1>1. TypeOK /\ ReceiverFollows => HeldForAReason
  <2> SUFFICES ASSUME TypeOK, ReceiverFollows, down = {}, channel = <<>>, NEW c \in native
               PROVE  \E i \in Inputs \ followed : c \in NativeOf(platform, i)
    BY DEF HeldForAReason
  <2>1. c \in NativeCodes
    BY DEF TypeOK, NativeCodes
  <2>2. WillHold(c)
    BY DEF WillHold
  <2>3. ~ Sharing(c) \subseteq followed
    BY <2>1, <2>2 DEF ReceiverFollows
  <2> QED  BY <2>3 DEF Sharing
<1> QED  BY <1>1, TypeCorrect, ReceiverFollowsUser, PTL

\* The key press that completes the chord releases the mouse, in any order of the
\* keys and with any other keys held.
THEOREM ChordAlwaysReleases == Spec => ChordReleases
<1> DEFINE Releases == Chord \subseteq pressed' /\ ~ Chord \subseteq pressed
                          => ~ is_mouse_contained'
<1>1. Next => Releases
  <2> SUFFICES ASSUME Next PROVE Releases
    OBVIOUS
  <2>1. ASSUME NEW k \in Keys, KeyDown(k) PROVE Releases
    BY <2>1 DEF KeyDown, Contained
  <2>2. ASSUME pressed' \subseteq pressed PROVE Releases
    BY <2>2
  <2>3. ASSUME NEW k \in Keys, KeyUp(k) PROVE pressed' \subseteq pressed
    BY <2>3 DEF KeyUp
  <2>4. ASSUME NEW b \in Buttons, ButtonDown(b) \/ ButtonUp(b) PROVE pressed' \subseteq pressed
    BY <2>4 DEF ButtonDown, ButtonUp
  <2>5. ASSUME FocusLost \/ Continue \/ Reconnect \/ Break \/ Mount \/ Ignore \/ Arrive
        PROVE  pressed' \subseteq pressed
    BY <2>5 DEF FocusLost, Continue, Reconnect, Break, Mount, Ignore, Arrive, sender
  <2> HIDE DEF Releases
  <2> QED  BY <2>1, <2>2, <2>3, <2>4, <2>5 DEF Next
<1>2. [Next]_vars => [Releases]_vars
  BY <1>1
<1> QED  BY <1>2, PTL DEF Spec, ChordReleases
==============================================================================
