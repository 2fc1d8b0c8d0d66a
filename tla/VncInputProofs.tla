--------------------------- MODULE VncInputProofs ---------------------------
(***************************************************************************)
(* Theorems about VncInput, for every set of viewers, keys and buttons and *)
(* every wait between two attempts.                                        *)
(*                                                                         *)
(* An event either leaves the session alone, ends it, or changes one key   *)
(* or button on the agent's side and, if the write gets through, the same  *)
(* one on screensharingd's.                                                *)
(***************************************************************************)
EXTENDS VncInput, TLAPS

(* without a descriptor the agent tracks nothing: the next connect starts  *)
(* neutral                                                                 *)
StartsNeutral == vnc.link = "none" => vnc = Neutral("none")

VncInv == TypeOK /\ StartsNeutral /\ TracksServer /\ NoPhantom

-----------------------------------------------------------------------------
(* Sessions                                                                *)

LEMMA NeutralIsSession ==
  \A l \in {"none", "alive", "half", "dead"} : Neutral(l) \in Session
BY DEF Neutral, Session

(* An event that is dropped finds no session and leaves none. *)
LEMMA DroppedStep ==
  ASSUME VncInv, Dropped
  PROVE  vnc = Neutral("none") /\ vnc' = Neutral("none") /\ age' \in 0..Wait
<1>1. vnc.link = "none" /\ age' \in 0..Wait
  BY VncAssumption
     DEF Dropped, BackOff, ConnectFails, Attempt, VncInv, TypeOK
<1>2. vnc = Neutral("none")
  BY <1>1 DEF VncInv, StartsNeutral
<1>3. QED
  BY <1>1, <1>2 DEF Dropped, BackOff, ConnectFails, Disconnect

(* The session that an event is written to tracks what the agent tracks. *)
LEMMA CurrentSession ==
  ASSUME VncInv
  PROVE  /\ Current \in Session /\ Current.link # "none"
         /\ Current.mask = vnc.mask /\ Current.shift = vnc.shift
         /\ Current.link = "alive" =>
              /\ Current.shift <=> <<ShiftKey, FALSE>> \in Current.keys
              /\ Current.mask = Current.buttons
<1>1. CASE vnc.link = "none"
  <2>1. Current = [Neutral("none") EXCEPT !.link = "alive"]
    BY <1>1 DEF Current, Disconnect
  <2>2. Current = Neutral("alive") /\ vnc = Neutral("none")
    BY <1>1, <2>1 DEF Neutral, VncInv, StartsNeutral
  <2>3. QED
    BY <2>2, NeutralIsSession DEF Neutral
<1>2. CASE vnc.link # "none"
  <2>1. Current = vnc
    BY <1>2 DEF Current
  <2>2. QED
    BY <1>2, <2>1 DEF VncInv, TypeOK, TracksServer
<1>3. QED
  BY <1>1, <1>2

(* After a write the session has seen the event, has ended, or is dead. *)
LEMMA WriteOutcome ==
  ASSUME NEW s \in Session, NEW t \in Session, s.link # "none", Write(s, t)
  PROVE  \/ s.link = "alive" /\ vnc' = t
         \/ vnc' = Neutral("none")
         \/ vnc' = [s EXCEPT !.link = "dead"]
<1>1. s.link \in {"alive", "half", "dead"}
  BY DEF Session
<1>2. CASE s.link = "alive"
  BY <1>2 DEF Write, Disconnect
<1>3. CASE s.link = "half"
  BY <1>3 DEF Write, Disconnect
<1>4. CASE s.link = "dead"
  BY <1>4 DEF Write, Disconnect
<1>5. QED
  BY <1>1, <1>2, <1>3, <1>4

-----------------------------------------------------------------------------
(* Events                                                                  *)

Held(s) == s.mask \cup (IF s.shift THEN {ShiftKey} ELSE {})

(* An event that is written keeps the two sides in step, provided that what *)
(* it tells the server agrees with what the agent tracks (s), and that what *)
(* the agent tracks is pressed.                                             *)
LEMMA EventStep ==
  ASSUME NEW s \in Session, NEW t \in Session, s.link # "none",
         t.link = s.link, t.shift = s.shift, t.mask = s.mask,
         s.link = "alive" => /\ s.shift <=> <<ShiftKey, FALSE>> \in t.keys
                             /\ s.mask = t.buttons,
         \A x \in Held(s) : \E v \in Viewers : x \in down'[v],
         Write(s, t)
  PROVE  vnc' \in Session /\ StartsNeutral' /\ TracksServer' /\ NoPhantom'
<1>1. CASE s.link = "alive" /\ vnc' = t
  <2>1. vnc'.link = "alive" /\ vnc'.mask = s.mask /\ vnc'.shift = s.shift
    BY <1>1
  <2>2. TracksServer'
    BY <1>1 DEF TracksServer
  <2>3. QED
    BY <1>1, <2>1, <2>2 DEF StartsNeutral, NoPhantom, Held
<1>2. CASE vnc' = Neutral("none")
  <2>1. vnc' \in Session
    BY <1>2, NeutralIsSession
  <2>2. QED
    BY <1>2, <2>1 DEF Neutral, StartsNeutral, TracksServer, NoPhantom
<1>3. CASE vnc' = [s EXCEPT !.link = "dead"]
  <2>1. /\ vnc' \in Session /\ vnc'.link = "dead"
        /\ vnc'.mask = s.mask /\ vnc'.shift = s.shift
    BY <1>3 DEF Session
  <2>2. QED
    BY <2>1 DEF StartsNeutral, TracksServer, NoPhantom, Held
<1>4. QED
  BY <1>1, <1>2, <1>3, WriteOutcome

(* What is tracked in vnc is pressed, by the viewers now or before. *)
LEMMA HeldPressed ==
  ASSUME VncInv
  PROVE  \A x \in Held(Current) : \E v \in Viewers : x \in down[v]
BY CurrentSession DEF VncInv, NoPhantom, Held

(* A press or release by the viewer attached changes nothing else that is
   pressed. *)
LEMMA TurnStep ==
  ASSUME VncInv, NEW x \in Keys \cup Buttons, NEW d \in BOOLEAN, Turn(x, d)
  PROVE  /\ down' \in [Viewers -> SUBSET (Keys \cup Buttons)]
         /\ serverUp' \in BOOLEAN /\ viewer' \in Viewers
         /\ d => x \in down'[viewer]
         /\ \A v \in Viewers : \A y \in down[v] : y # x => y \in down'[v]
BY DEF VncInv, TypeOK, Turn

(* No session, before and after: nothing tracked is left to be phantom. *)
LEMMA DroppedInv ==
  ASSUME VncInv, Dropped
  PROVE  vnc' \in Session /\ StartsNeutral' /\ TracksServer' /\ NoPhantom'
<1>1. vnc' = Neutral("none")
  BY DroppedStep
<1>2. vnc' \in Session
  BY <1>1, NeutralIsSession
<1>3. QED
  BY <1>1, <1>2 DEF Neutral, StartsNeutral, TracksServer, NoPhantom

LEMMA AgeStep ==
  ASSUME VncInv, Dropped \/ Ready
  PROVE  age' \in 0..Wait
BY DroppedStep, VncAssumption DEF Ready, Connect, Attempt, VncInv, TypeOK

LEMMA KeyStep ==
  ASSUME VncInv, NEW k \in Keys, NEW d \in BOOLEAN, Key(k, d)
  PROVE  VncInv'
<1>1. Turn(k, d) /\ InjectKey(k, d)
  BY DEF Key
<1>2. age' \in 0..Wait
  BY <1>1, AgeStep DEF InjectKey
<1>3. vnc' \in Session /\ StartsNeutral' /\ TracksServer' /\ NoPhantom'
  <2>1. CASE Dropped
    BY <2>1, DroppedInv
  <2>2. CASE Ready /\ LET s == Track(k, d)
                       IN  Write(s, Seen(s, <<k, k \in Shifted /\ s.shift>>, d))
    <3> DEFINE s == Track(k, d)
               y == <<k, k \in Shifted /\ s.shift>>
               t == Seen(s, y, d)
    <3>1. /\ s \in Session /\ s.link = Current.link /\ s.mask = Current.mask
          /\ s.keys = Current.keys /\ s.buttons = Current.buttons
          /\ s.shift = IF k = ShiftKey THEN d ELSE Current.shift
      BY CurrentSession DEF Track, Session
    <3>2. y \in Keysyms
      BY <3>1, VncAssumption DEF Keys, Keysyms, Session
    <3>3. /\ t \in Session /\ t.link = s.link /\ t.shift = s.shift
          /\ t.mask = s.mask /\ t.buttons = s.buttons
          /\ t.keys = IF d THEN s.keys \cup {y} ELSE s.keys \ {y}
      BY <3>1, <3>2 DEF Seen, Session
    <3>4. s.link = "alive" => /\ s.shift <=> <<ShiftKey, FALSE>> \in t.keys
                              /\ s.mask = t.buttons
      <4>1. CASE k = ShiftKey
        <5>1. y = <<ShiftKey, FALSE>>
          BY <4>1, VncAssumption
        <5>2. QED
          BY <3>1, <3>3, <4>1, <5>1, CurrentSession
      <4>2. CASE k # ShiftKey
        <5>1. y # <<ShiftKey, FALSE>>
          BY <4>2
        <5>2. QED
          BY <3>1, <3>3, <4>2, <5>1, CurrentSession
      <4>3. QED
        BY <4>1, <4>2
    <3>5. \A x \in Held(s) : \E v \in Viewers : x \in down'[v]
      <4>1. SUFFICES ASSUME NEW x \in Held(s)
                     PROVE  \E v \in Viewers : x \in down'[v]
        OBVIOUS
      <4>2. CASE x = k
        <5>1. x = ShiftKey /\ d
          BY <3>1, <4>1, <4>2, VncAssumption DEF Held, Keys, Session
        <5>2. QED
          BY <1>1, <4>2, <5>1, TurnStep DEF VncInv, TypeOK
      <4>3. CASE x # k
        <5>1. x \in Held(Current)
          BY <3>1, <4>1, <4>3 DEF Held
        <5>2. QED
          BY <1>1, <4>3, <5>1, HeldPressed, TurnStep
      <4>4. QED
        BY <4>2, <4>3
    <3>6. Write(s, t) /\ s.link # "none"
      BY <2>2, <3>1, CurrentSession
    <3> HIDE DEF s, t
    <3>7. QED
      BY <3>1, <3>3, <3>4, <3>5, <3>6, EventStep
  <2>3. QED
    BY <1>1, <2>1, <2>2 DEF InjectKey
<1>4. QED
  BY <1>1, <1>2, <1>3, TurnStep DEF VncInv, TypeOK

LEMMA CharacterStep ==
  ASSUME VncInv, NEW y \in Shifted \X BOOLEAN, NEW d \in BOOLEAN, Character(y, d)
  PROVE  VncInv'
<1>1. Turn(y[1], d) /\ InjectUnicode(y, d) /\ y[1] \in Shifted /\ y[1] \in Keys
  BY DEF Character, Keys
<1>2. age' \in 0..Wait
  BY <1>1, AgeStep DEF InjectUnicode
<1>3. vnc' \in Session /\ StartsNeutral' /\ TracksServer' /\ NoPhantom'
  <2>1. CASE Dropped
    BY <2>1, DroppedInv
  <2>2. CASE Ready /\ Write(Current, Seen(Current, y, d))
    <3> DEFINE t == Seen(Current, y, d)
    <3>1. y \in Keysyms /\ y # <<ShiftKey, FALSE>>
      <4>1. y[1] # ShiftKey
        BY <1>1, VncAssumption
      <4>2. ASSUME y = <<ShiftKey, FALSE>>
            PROVE  FALSE
        <5>1. y[1] = ShiftKey
          BY <4>2
        <5>2. QED
          BY <4>1, <5>1
      <4>3. QED
        BY <4>2 DEF Keysyms
    <3>2. /\ t \in Session /\ t.link = Current.link /\ t.shift = Current.shift
          /\ t.mask = Current.mask /\ t.buttons = Current.buttons
          /\ t.keys = IF d THEN Current.keys \cup {y} ELSE Current.keys \ {y}
      BY <3>1, CurrentSession DEF Seen, Session
    <3>3. Current.link = "alive" =>
            /\ Current.shift <=> <<ShiftKey, FALSE>> \in t.keys
            /\ Current.mask = t.buttons
      <4>1. <<ShiftKey, FALSE>> \in t.keys <=> <<ShiftKey, FALSE>> \in Current.keys
        <5> DEFINE k == <<ShiftKey, FALSE>>
        <5>1. k # y
          BY <3>1
        <5> HIDE DEF k, t
        <5>2. k \in t.keys <=> k \in Current.keys
          BY <3>2, <5>1
        <5>3. QED
          BY <5>2 DEF k
      <4>2. QED
        BY <3>2, <4>1, CurrentSession
    <3>4. \A x \in Held(Current) : \E v \in Viewers : x \in down'[v]
      <4>1. \A x \in Held(Current) : x \in Buttons \cup {ShiftKey}
        BY CurrentSession DEF Held, Session
      <4>2. \A x \in Held(Current) : x # y[1]
        BY <1>1, <4>1, VncAssumption
      <4>3. QED
        BY <1>1, <4>2, HeldPressed, TurnStep
    <3> HIDE DEF t
    <3>5. QED
      BY <2>2, <3>2, <3>3, <3>4, CurrentSession, EventStep DEF t
  <2>3. QED
    BY <1>1, <2>1, <2>2 DEF InjectUnicode
<1>4. QED
  BY <1>1, <1>2, <1>3, TurnStep DEF VncInv, TypeOK

LEMMA ButtonStep ==
  ASSUME VncInv, NEW b \in Buttons, NEW d \in BOOLEAN, Button(b, d)
  PROVE  VncInv'
<1>1. Turn(b, d) /\ InjectButton(b, d)
  BY DEF Button
<1>2. age' \in 0..Wait
  BY <1>1, AgeStep DEF InjectButton
<1>3. vnc' \in Session /\ StartsNeutral' /\ TracksServer' /\ NoPhantom'
  <2>1. CASE Dropped
    BY <2>1, DroppedInv
  <2> DEFINE s == [Current EXCEPT !.mask = IF d THEN @ \cup {b} ELSE @ \ {b}]
             t == [s EXCEPT !.buttons = s.mask]
  <2>2. CASE Ready /\ Write(s, t)
    <3>1. /\ s \in Session /\ s.link = Current.link /\ s.shift = Current.shift
          /\ s.keys = Current.keys
          /\ s.mask = IF d THEN Current.mask \cup {b} ELSE Current.mask \ {b}
      BY CurrentSession DEF Session
    <3>2. /\ t \in Session /\ t.link = s.link /\ t.shift = s.shift
          /\ t.mask = s.mask /\ t.keys = s.keys /\ t.buttons = s.mask
      BY <3>1 DEF Session
    <3>3. s.link = "alive" => /\ s.shift <=> <<ShiftKey, FALSE>> \in t.keys
                              /\ s.mask = t.buttons
      BY <3>1, <3>2, CurrentSession
    <3>4. \A x \in Held(s) : \E v \in Viewers : x \in down'[v]
      <4>1. SUFFICES ASSUME NEW x \in Held(s)
                     PROVE  \E v \in Viewers : x \in down'[v]
        OBVIOUS
      <4>2. CASE x = b
        <5>1. b # ShiftKey
          BY VncAssumption
        <5>2. d
          BY <3>1, <4>1, <4>2, <5>1 DEF Held
        <5>3. QED
          BY <1>1, <4>2, <5>2, TurnStep DEF VncInv, TypeOK
      <4>3. CASE x # b
        <5>1. x \in Held(Current)
          BY <3>1, <4>1, <4>3 DEF Held
        <5>2. QED
          BY <1>1, <4>3, <5>1, HeldPressed, TurnStep
      <4>4. QED
        BY <4>2, <4>3
    <3> HIDE DEF s, t
    <3>5. QED
      BY <2>2, <3>1, <3>2, <3>3, <3>4, CurrentSession, EventStep
  <2>3. QED
    BY <1>1, <2>1, <2>2 DEF InjectButton
<1>4. QED
  BY <1>1, <1>2, <1>3, TurnStep DEF VncInv, TypeOK

LEMMA MoveStep ==
  ASSUME VncInv, Move
  PROVE  VncInv'
<1>1. InjectMove /\ UNCHANGED <<serverUp, viewer, down>>
  BY DEF Move
<1>2. age' \in 0..Wait
  BY <1>1, AgeStep DEF InjectMove
<1>3. vnc' \in Session /\ StartsNeutral' /\ TracksServer' /\ NoPhantom'
  <2>1. CASE Dropped
    BY <2>1, DroppedInv
  <2> DEFINE t == [Current EXCEPT !.buttons = Current.mask]
  <2>2. CASE Ready /\ Write(Current, t)
    <3>1. /\ t \in Session /\ t.link = Current.link /\ t.shift = Current.shift
          /\ t.mask = Current.mask /\ t.keys = Current.keys
          /\ t.buttons = Current.mask
      BY CurrentSession DEF Session
    <3>2. Current.link = "alive" =>
            /\ Current.shift <=> <<ShiftKey, FALSE>> \in t.keys
            /\ Current.mask = t.buttons
      BY <3>1, CurrentSession
    <3>3. \A x \in Held(Current) : \E v \in Viewers : x \in down'[v]
      BY <1>1, HeldPressed
    <3> HIDE DEF t
    <3>4. QED
      BY <2>2, <3>1, <3>2, <3>3, CurrentSession, EventStep
  <2>3. QED
    BY <1>1, <2>1, <2>2 DEF InjectMove
<1>4. QED
  BY <1>1, <1>2, <1>3 DEF VncInv, TypeOK

-----------------------------------------------------------------------------
(* The viewers, the clock and screensharingd                               *)

LEMMA WorldStep ==
  ASSUME VncInv, (\E v \in Viewers : Attach(v)) \/ Tick \/ ServerEnds
  PROVE  VncInv'
<1> USE DEF VncInv, TypeOK
<1>1. CASE \E v \in Viewers : Attach(v)
  BY <1>1 DEF Attach, StartsNeutral, TracksServer, NoPhantom
<1>2. CASE Tick
  BY <1>2, VncAssumption DEF Tick, StartsNeutral, TracksServer, NoPhantom
<1>3. CASE ServerEnds
  <2>1. CASE vnc.link = "alive"
    <3>1. /\ vnc' \in Session /\ vnc'.link = "half"
          /\ vnc'.mask = vnc.mask /\ vnc'.shift = vnc.shift
      BY <1>3, <2>1 DEF ServerEnds, Session
    <3>2. QED
      BY <1>3, <3>1 DEF ServerEnds, StartsNeutral, TracksServer, NoPhantom
  <2>2. CASE vnc.link # "alive"
    BY <1>3, <2>2 DEF ServerEnds, StartsNeutral, TracksServer, NoPhantom
  <2>3. QED
    BY <2>1, <2>2
<1>4. QED
  BY <1>1, <1>2, <1>3

LEMMA VncInvHolds == Spec => []VncInv
<1>1. Init => VncInv
  <2>1. SUFFICES ASSUME Init
                 PROVE  VncInv
    OBVIOUS
  <2>2. TypeOK
    BY <2>1, NeutralIsSession, VncAssumption DEF Init, TypeOK
  <2>3. QED
    BY <2>1, <2>2
       DEF Init, VncInv, Neutral, StartsNeutral, TracksServer, NoPhantom
<1>2. VncInv /\ [Next]_vars => VncInv'
  <2>1. CASE UNCHANGED vars
    BY <2>1 DEF vars, VncInv, TypeOK, StartsNeutral, TracksServer, NoPhantom
  <2>2. QED
    BY <2>1, KeyStep, CharacterStep, ButtonStep, MoveStep, WorldStep
       DEF Next, Input
<1>3. QED
  BY <1>1, <1>2, PTL DEF Spec

(* The session, the clock and what is pressed keep their types. *)
THEOREM VncTypeOK == Spec => []TypeOK
BY VncInvHolds, PTL DEF VncInv

(* While the session lives, the Shift and the button mask that the agent
   tracks are what screensharingd holds, over failed writes, restarts of the
   server, dropped events and changes of viewers (mac_events.c:
   vnc_inject_key, vnc_inject_mouse, vnc_disconnect). *)
THEOREM VncTracksServer == Spec => []TracksServer
BY VncInvHolds, PTL DEF VncInv

(* What the agent tracks as held, some viewer has pressed and not released,
   although releases may be dropped while there is no session. *)
THEOREM VncNoPhantom == Spec => []NoPhantom
BY VncInvHolds, PTL DEF VncInv
=============================================================================
