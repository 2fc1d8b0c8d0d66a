------------------------------ MODULE CGInput -------------------------------
(***************************************************************************)
(* Input in a logged-in session: the thread that reads the viewer's frames *)
(* turns keys and mouse events into CGEvents and posts them through a      *)
(* serial queue of POST_MAX_INFLIGHT slots, whose worker hands them to the *)
(* system later.  The agent keeps its own record of the modifiers          *)
(* (g_modFlags) and buttons held, because a new event inherits the state   *)
(* of its event source, and the system's state lags behind the queue.      *)
(***************************************************************************)
EXTENDS Naturals, Sequences, FiniteSets

CONSTANTS
  Mods,     \* modifier keys (VK_SHIFT, VK_LWIN, ...)
  Letters,  \* other keys
  Flags,    \* modifier flags; also the key code that a modifier maps to
  FlagOf,   \* vk_mod_flag and g_keymap, for the modifiers
  Buttons,  \* mouse buttons, a subset of {"left", "right"}
  Slots     \* POST_MAX_INFLIGHT

ASSUME CGAssumption ==
  /\ FlagOf \in [Mods -> Flags]
  /\ Mods \cap Letters = {}
  /\ IsFiniteSet(Flags)
  /\ Buttons \subseteq {"left", "right"}
  /\ Slots \in Nat \ {0}

VARIABLES
  modFlags,  \* g_modFlags
  source,    \* the modifiers that g_source has accumulated
  btn,       \* g_btnLeftDown, g_btnRightDown
  released,  \* the static of post_cgevent
  out,       \* events created, whose post has not returned
  q,         \* g_postQ
  os,        \* modifiers that the system holds for down
  osBtn,     \* buttons that the system holds for down
  atLogin,   \* what is_loginwindow answers
  held,      \* history: keys pressed and not released since the last reset
  lost       \* history: an event was dropped, or went to the login window

agentVars == <<modFlags, source, btn, released, out>>
osVars == <<os, osBtn>>
history == <<held, lost>>
vars == <<agentVars, q, osVars, atLogin, history>>

Event == [kind : {"mod", "release"}, code : Flags, down : BOOLEAN,
          flags : SUBSET Flags, by : SUBSET Mods]
         \cup [kind : {"key", "move"}, flags : SUBSET Flags, by : SUBSET Mods]
         \cup [kind : {"drag"}, button : Buttons, flags : SUBSET Flags,
               by : SUBSET Mods]
         \cup [kind : {"button"}, button : Buttons, down : BOOLEAN,
               flags : SUBSET Flags, by : SUBSET Mods]

Init ==
  /\ modFlags = {} /\ source = {} /\ btn = {}
  /\ released = FALSE /\ out = <<>> /\ q = <<>>
  /\ os = {} /\ osBtn = {} /\ atLogin = FALSE
  /\ held = {} /\ lost = FALSE

-----------------------------------------------------------------------------
(* kvm_apply_mod_flags: the modifiers are those of g_modFlags, whatever    *)
(* the event inherited.  (Caps Lock, which is kept, is left out.)          *)

(* mutant: the agent's flags are added to the inherited ones               *)
AddModFlags(had) == had \cup modFlags'

ApplyModFlags(had) == modFlags'

(* release_stuck_modifiers_locked: one key-up per modifier, in some order, *)
(* with the flags that g_source gives it                                   *)
Releases ==
  LET order == CHOOSE s \in [1..Cardinality(Flags) -> Flags] :
                 \A i, j \in DOMAIN s : s[i] = s[j] => i = j
  IN  [i \in DOMAIN order |-> [kind |-> "release", code |-> order[i],
         down |-> FALSE, flags |-> source, by |-> {}]]

(* post_cgevent: the first post of the process releases every modifier     *)
Post(e) ==
  /\ out' = IF released THEN <<e>> ELSE Append(Releases, e)
  /\ released' = TRUE

Idle == out = <<>>

-----------------------------------------------------------------------------
(* KeyAction, KeyActionUnicode and inject_key.  d: press or release.       *)
Modifier(k, d) ==
  /\ Idle
  /\ modFlags' = IF d THEN modFlags \cup {FlagOf[k]} ELSE modFlags \ {FlagOf[k]}
  /\ held' = IF d THEN held \cup {k} ELSE held \ {k}
  /\ IF atLogin
       THEN lost' = TRUE /\ UNCHANGED <<source, out, released>>
       ELSE /\ source' = IF d THEN source \cup {FlagOf[k]}
                              ELSE source \ {FlagOf[k]}
            /\ Post([kind |-> "mod", code |-> FlagOf[k], down |-> d,
                     flags |-> ApplyModFlags(source'), by |-> held'])
            /\ UNCHANGED lost
  /\ UNCHANGED <<btn, q, osVars, atLogin>>

Letter ==
  /\ Idle /\ Letters # {} /\ ~atLogin
  /\ UNCHANGED <<modFlags, held>>
  /\ Post([kind |-> "key", flags |-> ApplyModFlags(source), by |-> held])
  /\ UNCHANGED <<source, btn, q, osVars, atLogin, lost>>

-----------------------------------------------------------------------------
(* MouseAction.  (Positions and click counts are left out.)                *)

Button(b, d) ==
  /\ Idle
  /\ UNCHANGED <<modFlags, held, source, q, osVars, atLogin>>
  /\ IF atLogin
       THEN lost' = TRUE /\ UNCHANGED <<btn, out, released>>
       ELSE /\ btn' = IF d THEN btn \cup {b} ELSE btn \ {b}
            /\ Post([kind |-> "button", button |-> b, down |-> d,
                     flags |-> ApplyModFlags(source), by |-> held])
            /\ UNCHANGED lost

(* A move with a button held is posted as a drag of that button; a turn of *)
(* the wheel never is.                                                     *)

(* mutant: as a drag of the left button                                    *)
LeftDrag(set) == "left"

DragButton(set) == IF "left" \in set THEN "left" ELSE "right"

Move ==
  /\ Idle /\ ~atLogin
  /\ UNCHANGED <<modFlags, held>>
  /\ \E wheel \in BOOLEAN :
       Post(IF wheel \/ btn = {}
            THEN [kind |-> "move", flags |-> ApplyModFlags(source), by |-> held]
            ELSE [kind |-> "drag", button |-> DragButton(btn),
                  flags |-> ApplyModFlags(source), by |-> held])
  /\ UNCHANGED <<source, btn, q, osVars, atLogin, lost>>

-----------------------------------------------------------------------------
(* kvm_reset_modifiers, when a viewer takes over                           *)

(* mutant: only the agent's own record is cleared                          *)
ResetRecord ==
  /\ Idle
  /\ modFlags' = {} /\ held' = {}
  /\ UNCHANGED <<source, btn, released, out, q, osVars, atLogin, lost>>

ResetModifiers ==
  /\ Idle
  /\ modFlags' = {} /\ held' = {}
  /\ out' = Releases /\ source' = {}
  /\ UNCHANGED <<btn, released, q, osVars, atLogin, lost>>

(* mutant: no slot is waited for                                           *)
EnqueueUnbounded ==
  /\ out # <<>>
  /\ q' = Append(q, Head(out))
  /\ out' = Tail(out)
  /\ UNCHANGED <<modFlags, source, btn, released, osVars, atLogin, history>>

(* post_cgevent_locked: wait for a slot, at most POST_WAIT_MS              *)
Enqueue ==
  /\ out # <<>> /\ Len(q) < Slots
  /\ q' = Append(q, Head(out))
  /\ out' = Tail(out)
  /\ UNCHANGED <<modFlags, source, btn, released, osVars, atLogin, history>>

GiveUp ==
  /\ out # <<>> /\ Len(q) = Slots
  /\ out' = Tail(out)
  /\ lost' = TRUE
  /\ UNCHANGED <<modFlags, source, btn, released, q, osVars, atLogin, held>>

(* The system takes the event e in                                         *)
Take(e) ==
  /\ os' = IF e.kind \notin {"mod", "release"} THEN os
           ELSE IF e.down THEN os \cup {e.code} ELSE os \ {e.code}
  /\ osBtn' = IF e.kind # "button" THEN osBtn
              ELSE IF e.down THEN osBtn \cup {e.button}
                             ELSE osBtn \ {e.button}

(* mutant: the queue is concurrent                                         *)
DeliverUnordered ==
  /\ q # <<>>
  /\ \E i \in 1..Len(q) :
       /\ Take(q[i])
       /\ q' = SubSeq(q, 1, i - 1) \o SubSeq(q, i + 1, Len(q))
  /\ UNCHANGED <<agentVars, atLogin, history>>

(* post_worker: CGEventPost hands the oldest event to the system           *)
Deliver ==
  /\ q # <<>>
  /\ Take(Head(q))
  /\ q' = Tail(q)
  /\ UNCHANGED <<agentVars, atLogin, history>>

(* a user logs in or out                                                   *)
ConsoleChanges ==
  /\ atLogin' = ~atLogin
  /\ UNCHANGED <<agentVars, q, osVars, history>>

Next ==
  \/ \E k \in Mods, d \in BOOLEAN : Modifier(k, d)
  \/ \E b \in Buttons, d \in BOOLEAN : Button(b, d)
  \/ Letter \/ Move \/ ResetModifiers \/ Enqueue \/ GiveUp \/ Deliver
  \/ ConsoleChanges

Spec == Init /\ [][Next]_vars

-----------------------------------------------------------------------------
FlagsOf(keys) == {FlagOf[k] : k \in keys}

TypeOK ==
  /\ modFlags \subseteq Flags /\ source \subseteq Flags /\ btn \subseteq Buttons
  /\ released \in BOOLEAN
  /\ q \in Seq(Event) /\ Len(q) <= Slots /\ out \in Seq(Event)
  /\ os \subseteq Flags /\ osBtn \subseteq Buttons
  /\ atLogin \in BOOLEAN /\ held \subseteq Mods
  /\ lost \in BOOLEAN

(* Every event waiting to be posted carries the modifiers held when it was *)
(* made, exactly (the comment on kvm_apply_mod_flags): none that the event *)
(* source accumulated, also when a release went to the login window.       *)
FlagsExact ==
  \A i \in 1..Len(q) : q[i].kind # "release" => q[i].flags = FlagsOf(q[i].by)

(* An event reaches the system in the state it was made for, however late  *)
(* that is: the modifiers down are those it carries (a shortcut forms), and *)
(* the button that a drag names is down.                                   *)
ArrivesInState ==
  q # <<>> /\ ~lost =>
    LET e == Head(q)
    IN  /\ e.kind \in {"key", "button", "drag", "move"} => e.flags = os
        /\ e.kind = "drag" => e.button \in osBtn

(* Nothing stays latched in the system: once the queue has drained it      *)
(* holds what the viewer holds, also after a viewer has left with a key    *)
(* down.                                                                   *)
NothingLatched ==
  (q = <<>> /\ out = <<>> /\ ~lost) => os = FlagsOf(held)
=============================================================================
