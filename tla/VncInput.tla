------------------------------ MODULE VncInput ------------------------------
(***************************************************************************)
(* Input at the login window: the LoginWindow agent (root, so              *)
(* is_loginwindow is always 1) sends every key and pointer event to        *)
(* screensharingd as an RFB client of localhost:5900.  The agent tracks    *)
(* the Shift key (g_vnc_shift_down) and the button mask (g_vnc_btnmask)    *)
(* of its session; screensharingd keeps its own, forgets them when the     *)
(* session ends, and may restart at any moment.                            *)
(***************************************************************************)
EXTENDS Naturals, FiniteSets

CONSTANTS
  Viewers,   \* viewers that attach to the agent, one after the other
  Shifted,   \* keys that have another keysym while Shift is held
  Unshifted, \* keys that do not (Return, arrows, other modifiers)
  Buttons,   \* mouse buttons
  ShiftKey,  \* kVK_Shift
  Wait       \* clock ticks between two attempts to connect (5 s)

ASSUME VncAssumption ==
  /\ Viewers # {}
  /\ ShiftKey \notin Shifted \cup Unshifted
  /\ Buttons \cap (Shifted \cup Unshifted \cup {ShiftKey}) = {}
  /\ Wait \in Nat \ {0}

VARIABLES
  vnc,       \* the session: the agent's end and screensharingd's
  age,       \* ticks since g_vnc_last_attempt, Wait for "long enough"
  serverUp,  \* something accepts RFB clients on port 5900
  viewer,    \* the viewer attached
  down       \* keys and buttons each viewer has pressed and not released

vars == <<vnc, age, serverUp, viewer, down>>

Keys == Shifted \cup Unshifted \cup {ShiftKey}

(* A keysym is a key and whether it is its shifted form                    *)
Keysyms == (Shifted \X BOOLEAN) \cup ((Unshifted \cup {ShiftKey}) \X {FALSE})

(* link: no descriptor; a live session; closed by the server, which a      *)
(* first write does not notice; closed, so that the next write fails.      *)
(* shift and mask are the agent's; keys and buttons the server's.          *)
Session == [link : {"none", "alive", "half", "dead"},
            shift : BOOLEAN, mask : SUBSET Buttons,
            keys : SUBSET Keysyms, buttons : SUBSET Buttons]

Neutral(l) == [link |-> l, shift |-> FALSE, mask |-> {},
               keys |-> {}, buttons |-> {}]

Init ==
  /\ vnc = Neutral("none") /\ age = Wait /\ serverUp \in BOOLEAN
  /\ viewer \in Viewers
  /\ down = [v \in Viewers |-> {}]

-----------------------------------------------------------------------------
(* vnc_disconnect: what the agent tracks of the session s ends with it     *)

(* mutant: the next session starts with the buttons of this one            *)
DisconnectKeepsButtons(s) == [Neutral("none") EXCEPT !.mask = s.mask]

Disconnect(s) == Neutral("none")

(* vnc_connect: the attempt counts whether the handshake succeeds, is      *)
(* refused or times out                                                    *)
Attempt ==
  /\ vnc.link = "none" /\ age = Wait
  /\ age' = 0
Connect == Attempt /\ serverUp
ConnectFails == Attempt /\ vnc' = Disconnect(vnc)

(* the session an event is written to                                      *)
Current ==
  IF vnc.link = "none" THEN [Disconnect(vnc) EXCEPT !.link = "alive"] ELSE vnc

(* mutant: an event that is dropped restarts the wait                      *)
BackOffAgain ==
  /\ vnc.link = "none" /\ age < Wait
  /\ age' = 0
  /\ UNCHANGED vnc

BackOff ==
  /\ vnc.link = "none" /\ age < Wait
  /\ UNCHANGED <<vnc, age>>

Ready == (vnc.link # "none" /\ UNCHANGED age) \/ Connect
Dropped == BackOff \/ ConnectFails

(* vnc_write_all of an event: s is the session as the agent tracks it with *)
(* the event, t the same once the server has seen it.  A write to a server *)
(* that stalls times out.                                                  *)
Write(s, t) ==
  vnc' \in CASE s.link = "alive" -> {t, Disconnect(s)}
             [] s.link = "half"  -> {[s EXCEPT !.link = "dead"], Disconnect(s)}
             [] s.link = "dead"  -> {Disconnect(s)}

Seen(s, y, d) == [s EXCEPT !.keys = IF d THEN @ \cup {y} ELSE @ \ {y}]

-----------------------------------------------------------------------------
(* The handlers.  d tells a press from a release.                          *)

(* mutant: only the press of Shift is tracked                              *)
TrackPress(k, d) ==
  IF k = ShiftKey /\ d THEN [Current EXCEPT !.shift = d] ELSE Current

Track(k, d) == IF k = ShiftKey THEN [Current EXCEPT !.shift = d] ELSE Current

(* mutant: every key is given a shifted form                               *)
InjectKeyShiftsAll(k, d) ==
  \/ Dropped
  \/ /\ Ready
     /\ LET s == Track(k, d) IN Write(s, Seen(s, <<k, s.shift>>, d))

(* vnc_inject_key: the keysym is the one that Shift selects at this moment *)
InjectKey(k, d) ==
  \/ Dropped
  \/ /\ Ready
     /\ LET s == Track(k, d)
        IN  Write(s, Seen(s, <<k, k \in Shifted /\ s.shift>>, d))

(* vnc_inject_unicode: the keysym of the character itself                  *)
InjectUnicode(y, d) == Dropped \/ (Ready /\ Write(Current, Seen(Current, y, d)))

(* vnc_inject_mouse: a pointer event carries the whole mask                *)
InjectButton(b, d) ==
  \/ Dropped
  \/ /\ Ready
     /\ LET s == [Current EXCEPT !.mask = IF d THEN @ \cup {b} ELSE @ \ {b}]
        IN  Write(s, [s EXCEPT !.buttons = s.mask])

(* ... of a move, or of a turn of the wheel, whose bit is set and cleared  *)
InjectMove ==
  Dropped \/ (Ready /\ Write(Current, [Current EXCEPT !.buttons = Current.mask]))

-----------------------------------------------------------------------------
(* The viewers, the clock and screensharingd                               *)

Turn(x, d) ==
  /\ d <=> x \notin down[viewer]
  /\ down' = [down EXCEPT ![viewer] = IF d THEN @ \cup {x} ELSE @ \ {x}]
  /\ UNCHANGED <<serverUp, viewer>>

Key(k, d) == Turn(k, d) /\ InjectKey(k, d)
Character(y, d) == Turn(y[1], d) /\ InjectUnicode(y, d)
Button(b, d) == Turn(b, d) /\ InjectButton(b, d)
Move == InjectMove /\ UNCHANGED <<serverUp, viewer, down>>

Input ==
  \/ \E k \in Keys, d \in BOOLEAN : Key(k, d)
  \/ \E y \in Shifted \X BOOLEAN, d \in BOOLEAN : Character(y, d)
  \/ \E b \in Buttons, d \in BOOLEAN : Button(b, d)
  \/ Move

(* Another viewer attaches, with nothing held.  kvm_reset_modifiers, which *)
(* the eviction calls, touches nothing here.                               *)
Attach(v) ==
  /\ v # viewer /\ down[v] = {}
  /\ viewer' = v
  /\ UNCHANGED <<vnc, age, serverUp, down>>

Tick == age < Wait /\ age' = age + 1 /\ UNCHANGED <<vnc, serverUp, viewer, down>>

(* screensharingd ends the session and forgets it, with or without exiting *)
ServerEnds ==
  /\ serverUp' \in BOOLEAN
  /\ vnc' = IF vnc.link = "alive"
              THEN [vnc EXCEPT !.link = "half", !.keys = {}, !.buttons = {}]
              ELSE vnc
  /\ UNCHANGED <<age, viewer, down>>

Next == Input \/ (\E v \in Viewers : Attach(v)) \/ Tick \/ ServerEnds

Spec == Init /\ [][Next]_vars

(* The viewer goes on sending input, time passes, and a handshake that can *)
(* succeed does not fail for ever.                                         *)
InputConnects == Input /\ vnc.link = "none" /\ vnc'.link = "alive"
LiveSpec == Spec /\ WF_vars(Input) /\ WF_vars(Tick) /\ SF_vars(InputConnects)

-----------------------------------------------------------------------------
TypeOK ==
  /\ vnc \in Session /\ age \in 0..Wait /\ serverUp \in BOOLEAN
  /\ viewer \in Viewers /\ down \in [Viewers -> SUBSET (Keys \cup Buttons)]

(* While the session lives, what the agent tracks of it is what            *)
(* screensharingd holds, through every failed write, timeout and reconnect *)
(* (the comment in vnc_disconnect: the next connect starts neutral).       *)
TracksServer ==
  vnc.link = "alive" =>
    /\ vnc.shift <=> <<ShiftKey, FALSE>> \in vnc.keys
    /\ vnc.mask = vnc.buttons

(* No phantom Shift or button: what the agent tracks as held, some viewer  *)
(* pressed and has not released, whatever events were dropped meanwhile.   *)
NoPhantom ==
  \A x \in vnc.mask \cup (IF vnc.shift THEN {ShiftKey} ELSE {}) :
    \E v \in Viewers : x \in down[v]

(* Input comes back: whoever types while screensharingd is up is connected *)
(* again, because events dropped during the wait do not prolong it.        *)
Reconnects == <>[]serverUp => []<>(vnc.link = "alive")
=============================================================================
