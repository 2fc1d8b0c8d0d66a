------------------------------ MODULE Displays ------------------------------
(***************************************************************************)
(* The list of displays, the selection and what is derived from them, in   *)
(* the agent of a user session (uid # 0).  Main measures the selection at  *)
(* the top of every frame and runs kvm_init when it is not what the last   *)
(* one found; the input thread serves GET_DISPLAYS and SET_DISPLAY.  Both  *)
(* rebuild SCREEN_LIST through kvm_refresh_display_list, without a lock,   *)
(* while displays come and go.                                             *)
(*                                                                         *)
(* Sizes and origins keep one coordinate, x; heights behave alike.  A step *)
(* is one reading or writing of the shared variables, except that the list *)
(* is filled in one step, ordered and the selection put right in another,  *)
(* and that the bounds and the scale of a selection are measured together. *)
(* At least one display is on: without one the agent shuts down.           *)
(***************************************************************************)
EXTENDS Integers, Sequences, FiniteSets

CONSTANTS
  Screens,      \* ids of displays
  Layouts,      \* arrangements: see Layout
  KVM_MAX_DISPLAYS,
  Numbers,      \* what SET_DISPLAY may ask for; 0 stands for 65535, all
  MaxChanges,   \* bound: changes of the arrangement
  MaxRequests   \* bound: GET_DISPLAYS and SET_DISPLAY of the viewer

(* The active displays, the one CGMainDisplayID names, at x = 0, those     *)
(* that mirror another, and the position, width and backing scale of each. *)
(* No two displays are at one place, but for mirrors.                      *)
Layout(l) ==
  /\ l.on \subseteq Screens /\ IsFiniteSet(l.on) /\ l.mirrors \subseteq l.on
  /\ l.main \in l.on \ l.mirrors /\ l.x[l.main] = 0
  /\ l.x \in [Screens -> Int] /\ l.y \in [Screens -> Int]
  /\ \A a, b \in l.on \ l.mirrors : l.x[a] = l.x[b] /\ l.y[a] = l.y[b] => a = b
  /\ l.width \in [Screens -> Nat \ {0}] /\ l.scale \in [Screens -> Nat \ {0}]

ASSUME DisplaysAssumption ==
  /\ \A l \in Layouts : Layout(l)
  /\ KVM_MAX_DISPLAYS \in Nat \ {0} /\ Numbers \subseteq Nat
  /\ MaxChanges \in Nat /\ MaxRequests \in Nat

VARIABLES
  layout,    \* the arrangement now
  changes,   \* changes of it so far
  list,      \* SCREEN_LIST[0 .. SCREEN_COUNT-1]
  sel,       \* SCREEN_SEL: a position in list, 0 for all of them
  num,       \* SCREEN_NUM
  origin,    \* SCREEN_ORIGIN_X
  scale,     \* SCREEN_SCALE
  size,      \* SCREEN_WIDTH
  cache,     \* cached_id and cached_scale of kvm_display_scale
  at,        \* where each thread is
  ret,       \* ... and where it goes on after the list is rebuilt
  screen,    \* main's screen_num
  arg,       \* the display number in the viewer's request
  requests,  \* requests so far
  told,      \* the viewer: resolution, displays and selection it was told
  shown,     \* ... and the displays in its picture
  seen,      \* history: what came in between since the thread began to
             \* rebuild the list, "crossed" (the other did), "moved" (displays)
  trust      \* history: told is from such a list, of this arrangement

Threads == {"main", "input"}
envVars == <<layout, changes>>
geomVars == <<num, origin, scale, size>>
threadVars == <<at, ret, screen, arg, requests>>
viewVars == <<told, shown>>
displaysVars == <<envVars, list, sel, geomVars, cache, threadVars, viewVars, seen,
          trust>>

Other(t) == IF t = "main" THEN "input" ELSE "main"
Main == layout.main
Shown == layout.on \ layout.mirrors

(* CGDisplayBounds: empty for a display that is gone                       *)
Left(d) == IF d \in layout.on THEN layout.x[d] ELSE 0
Top(d) == IF d \in layout.on THEN layout.y[d] ELSE 0
Right(d) == IF d \in layout.on THEN layout.x[d] + layout.width[d] ELSE 0

(* kvm_selected_display                                                    *)
Selected == IF sel \in DOMAIN list THEN list[sel] ELSE Main
Combined == sel = 0
Listed == {list[i] : i \in DOMAIN list}

(* kvm_selected_bounds: of the selected display, or the union of all       *)
Covered == IF ~Combined THEN {Selected} ELSE IF list = <<>> THEN {Main} ELSE Listed
Smallest(S) == CHOOSE x \in S : \A y \in S : x <= y
Largest(S) == CHOOSE x \in S : \A y \in S : x >= y
LeftOf(S) == Smallest({Left(d) : d \in S})
RightOf(S) == Largest({Right(d) : d \in S})
Width(S) == RightOf(S) - LeftOf(S)

(* kvm_selected_scale: the displays whose scale it asks, one by one, and   *)
(* what kvm_display_scale answers: the cached scale as long as it is asked *)
(* for the cached display, else that of the display; the cache is left     *)
(* with the last                                                           *)
Asked == IF Combined THEN list ELSE <<Selected>>
DisplayScale(i) ==
  IF \A j \in 1 .. i : Asked[j] = cache.id THEN cache.scale
  ELSE IF Asked[i] \in layout.on THEN layout.scale[Asked[i]] ELSE 1
SelectedScale == Largest({1} \cup {DisplayScale(i) : i \in DOMAIN Asked})
CacheLeft ==
  IF Asked = <<>> THEN cache
  ELSE [id |-> Asked[Len(Asked)], scale |-> DisplayScale(Len(Asked))]

(* what CGGetActiveDisplayList returns: a set in any order                 *)
Orders(S) == {s \in [1 .. Cardinality(S) -> S] : \A d \in S : \E i \in DOMAIN s : s[i] = d}

DisplaysInit ==
  /\ layout \in Layouts /\ changes = 0
  /\ list = <<>> /\ sel = 1
  /\ num = 0 /\ origin = 0 /\ scale = 1 /\ size = 0
  /\ cache = [id |-> 0, scale |-> 1]
  /\ at = [main |-> "clear", input |-> "none"]
  /\ ret = [main |-> "num", input |-> "advertise"]
  /\ screen = 0 /\ arg = 0 /\ requests = 0
  /\ told = [size |-> 0, list |-> <<>>, sel |-> 0] /\ shown = {}
  /\ seen = [t \in Threads |-> {}] /\ trust = FALSE

Go(t, to) == at' = [at EXCEPT ![t] = to]

(* main is in kvm_init; the input thread handles a request                 *)
Busy(t) == IF t = "main" THEN at[t] \notin {"look", "measure", "capture"}
                         ELSE at[t] \notin {"none", "idle"}
Start(t) ==
  LET crossing == IF Busy(Other(t)) THEN {"crossed"} ELSE {}
  IN seen' = [seen EXCEPT ![t] = crossing, ![Other(t)] = @ \cup crossing]

-----------------------------------------------------------------------------
(* kvm_refresh_display_list, by either thread                              *)

Clear(t) ==
  /\ at[t] = "clear" /\ Go(t, "fill")
  /\ list' = <<>>
  /\ UNCHANGED <<envVars, sel, geomVars, cache, ret, screen, arg, requests,
                 viewVars, seen, trust>>

(* mutant: the room in SCREEN_LIST is not looked at                        *)
FillAll(t) ==
  /\ at[t] = "fill" /\ Go(t, "order")
  /\ \E s \in Orders(Shown) : list' = list \o s
  /\ UNCHANGED <<envVars, sel, geomVars, cache, ret, screen, arg, requests,
                 viewVars, seen, trust>>

(* the active displays, in any order, as far as there is room behind what  *)
(* the other thread has put there meanwhile                                *)
Fill(t) ==
  /\ at[t] = "fill" /\ Go(t, "order")
  /\ \E s \in Orders(Shown) :
       list' = IF Len(list \o s) <= KVM_MAX_DISPLAYS THEN list \o s
               ELSE SubSeq(list \o s, 1, KVM_MAX_DISPLAYS)
  /\ UNCHANGED <<envVars, sel, geomVars, cache, ret, screen, arg, requests,
                 viewVars, seen, trust>>

(* mutant: the list is left in the order in which the system gave it       *)
OrderNone(t) ==
  /\ at[t] = "order" /\ Go(t, ret[t])
  /\ list' = IF list = <<>> THEN <<Main>> ELSE list
  /\ sel' = IF sel > Len(list') THEN 1 ELSE sel
  /\ UNCHANGED <<envVars, geomVars, cache, ret, screen, arg, requests,
                 viewVars, seen, trust>>

(* The main display first, then from left to right, then from the top      *)
Before(a, b) ==
  \/ a = Main /\ b # Main
  \/ /\ (a = Main) <=> (b = Main)
     /\ \/ Left(a) < Left(b)
        \/ Left(a) = Left(b) /\ Top(a) < Top(b)

(* The list sorted; what ties keeps its order.  No display at all: the     *)
(* main one; a selection behind the end: the first.                        *)
Order(t) ==
  /\ at[t] = "order" /\ Go(t, ret[t])
  /\ \E p \in Orders(DOMAIN list) :
       /\ \A i, j \in DOMAIN list : i < j =>
            /\ ~Before(list[p[j]], list[p[i]])
            /\ Before(list[p[i]], list[p[j]]) \/ p[i] < p[j]
       /\ list' = IF list = <<>> THEN <<Main>>
                  ELSE [i \in DOMAIN list |-> list[p[i]]]
  /\ sel' = IF sel > Len(list') THEN 1 ELSE sel
  /\ UNCHANGED <<envVars, geomVars, cache, ret, screen, arg, requests,
                 viewVars, seen, trust>>

(* kvm_send_display_list, after the refresh: a single display is no        *)
(* choice.  The first kvm_init ends here and the input thread is created.  *)
Advertise(t) ==
  /\ at[t] = "advertise"
  /\ at' = CASE t = "input" -> [at EXCEPT ![t] = "idle"]
            [] t = "main" -> [main |-> "look",
                              input |-> IF at["input"] = "none" THEN "idle"
                                        ELSE at["input"]]
  /\ told' = IF Len(list) <= 1
             THEN [told EXCEPT !.list = <<>>, !.sel = 0]
             ELSE [told EXCEPT !.list = list,
                               !.sel = IF sel <= Len(list) THEN sel ELSE 1]
  /\ trust' = (seen[t] = {})
  /\ seen' = IF t = "input" THEN [seen EXCEPT ![t] = {}] ELSE seen
  /\ UNCHANGED <<envVars, list, sel, geomVars, cache, ret, screen, arg,
                 requests, shown>>

-----------------------------------------------------------------------------
(* kvm_init, on the main thread                                            *)

InitNum ==
  /\ at["main"] = "num" /\ Go("main", "origin")
  /\ num' = Selected
  /\ UNCHANGED <<envVars, list, sel, origin, scale, size, cache, ret,
                 screen, arg, requests, viewVars, seen, trust>>

InitOrigin ==
  /\ at["main"] = "origin" /\ Go("main", "size")
  /\ origin' = LeftOf(Covered)
  /\ UNCHANGED <<envVars, list, sel, num, scale, size, cache, ret, screen,
                 arg, requests, viewVars, seen, trust>>

(* the scale and the size, and the message that tells it; then the list    *)
(* once more                                                               *)
InitSize ==
  /\ at["main"] = "size" /\ Go("main", "clear")
  /\ ret' = [ret EXCEPT !["main"] = "advertise"]
  /\ scale' = SelectedScale /\ cache' = CacheLeft
  /\ size' = Width(Covered) * scale'
  /\ told' = [told EXCEPT !.size = size']
  /\ UNCHANGED <<envVars, list, sel, num, origin, screen, arg, requests,
                 shown, seen, trust>>

-----------------------------------------------------------------------------
(* The frame loop                                                          *)

Look ==
  /\ at["main"] = "look" /\ Go("main", "measure")
  /\ screen' = Selected
  /\ UNCHANGED <<envVars, list, sel, geomVars, cache, ret, arg, requests,
                 viewVars, seen, trust>>

(* mutant: only the sizes are compared                                     *)
MeasureSize ==
  /\ at["main"] = "measure"
  /\ cache' = CacheLeft
  /\ IF size # Width(Covered) * SelectedScale
     THEN /\ Go("main", "clear") /\ ret' = [ret EXCEPT !["main"] = "num"]
          /\ Start("main")
     ELSE Go("main", "capture") /\ UNCHANGED <<ret, seen>>
  /\ UNCHANGED <<envVars, list, sel, geomVars, screen, arg, requests,
                 viewVars, trust>>

Measure ==
  /\ at["main"] = "measure"
  /\ cache' = CacheLeft
  /\ IF size # Width(Covered) * SelectedScale \/ num # screen
     THEN /\ Go("main", "clear") /\ ret' = [ret EXCEPT !["main"] = "num"]
          /\ Start("main")
     ELSE Go("main", "capture") /\ UNCHANGED <<ret, seen>>
  /\ UNCHANGED <<envVars, list, sel, geomVars, screen, arg, requests,
                 viewVars, trust>>

(* All displays are drawn into an image of the size measured now; a single *)
(* one is captured as it is.  When that fails the whole desktop is, as an  *)
(* image of some size.  An image of another size than SCREEN_WIDTH is      *)
(* dropped.                                                                *)
Capture ==
  /\ at["main"] = "capture" /\ Go("main", "look")
  /\ LET all == Combined
         drawn == (IF all THEN Listed ELSE {screen}) \cap layout.on
         width == IF all THEN Width(Covered) * SelectedScale
                         ELSE Width({screen}) * layout.scale[screen]
     IN /\ cache' = IF all THEN CacheLeft ELSE cache
        /\ shown' \in IF drawn = {} /\ size # 0 THEN {shown, layout.on}
                      ELSE IF drawn # {} /\ width = size THEN {drawn} ELSE {shown}
  /\ screen' = 0
  /\ UNCHANGED <<envVars, list, sel, geomVars, ret, arg, requests, told,
                 seen, trust>>

-----------------------------------------------------------------------------
(* The input thread: requests of the viewer                                *)

Request(next, v) ==
  /\ at["input"] = "idle" /\ requests < MaxRequests
  /\ Go("input", "clear") /\ ret' = [ret EXCEPT !["input"] = next]
  /\ arg' = v /\ requests' = requests + 1
  /\ Start("input")
  /\ UNCHANGED <<envVars, list, sel, geomVars, cache, screen, viewVars,
                 trust>>

GetDisplays == Request("advertise", 0)
SetDisplay(v) == Request("set", v)

Select ==
  /\ at["input"] = "set" /\ Go("input", "idle")
  /\ sel' = IF arg <= Len(list) THEN arg ELSE sel
  /\ arg' = 0 /\ ret' = [ret EXCEPT !["input"] = "advertise"]
  /\ seen' = [seen EXCEPT !["input"] = {}]
  /\ UNCHANGED <<envVars, list, geomVars, cache, screen, requests,
                 viewVars, trust>>

-----------------------------------------------------------------------------
(* Displays are plugged in, unplugged, mirrored or rearranged              *)
Rearrange(l) ==
  /\ changes < MaxChanges /\ l # layout
  /\ layout' = l /\ changes' = changes + 1
  /\ trust' = FALSE
  /\ seen' = [t \in Threads |-> IF t = "main" \/ Busy(t) THEN seen[t] \cup {"moved"}
                                ELSE {}]
  /\ UNCHANGED <<list, sel, geomVars, cache, threadVars, viewVars>>

Refresh(t) == Clear(t) \/ Fill(t) \/ Order(t) \/ Advertise(t)
MainStep ==
  \/ Refresh("main") \/ InitNum \/ InitOrigin \/ InitSize
  \/ Look \/ Measure \/ Capture
InputStep == Refresh("input") \/ Select

DisplaysNext ==
  \/ MainStep \/ InputStep
  \/ GetDisplays \/ (\E v \in Numbers : SetDisplay(v))
  \/ \E l \in Layouts : Rearrange(l)

DisplaysSpec == DisplaysInit /\ [][DisplaysNext]_displaysVars

(* Both threads run; nobody has to ask for anything or move a display.     *)
FairDisplaysSpec == DisplaysSpec /\ WF_displaysVars(MainStep) /\ WF_displaysVars(InputStep)

-----------------------------------------------------------------------------
PC == {"clear", "fill", "order", "advertise", "num", "origin", "size",
       "look", "measure", "capture", "none", "idle", "set"}

DisplaysTypeOK ==
  /\ layout \in Layouts /\ changes \in 0 .. MaxChanges
  /\ list \in Seq(Screens) /\ Len(list) <= KVM_MAX_DISPLAYS
  /\ sel \in 0 .. KVM_MAX_DISPLAYS
  /\ num \in Screens \cup {0} /\ screen \in Screens \cup {0}
  /\ origin \in Int /\ scale \in Nat \ {0} /\ size \in Nat
  /\ cache \in [id : Screens \cup {0}, scale : Nat \ {0}]
  /\ at \in [Threads -> PC] /\ ret \in [Threads -> PC]
  /\ arg \in Nat /\ requests \in 0 .. MaxRequests
  /\ told \in [size : Nat, list : Seq(Screens), sel : Nat]
  /\ told.sel \in 0 .. Len(told.list)
  /\ shown \subseteq Screens
  /\ seen \in [Threads -> SUBSET {"crossed", "moved"}] /\ trust \in BOOLEAN

(* What the viewer sees, was told of its size, and clicks on.              *)
PictureFollows ==
  /\ num = Selected /\ told.size = size
  /\ shown = Covered \cap layout.on
ClicksFollow == origin = LeftOf(Covered) /\ scale = SelectedScale
ButtonFollows ==
  told.list # <<>> =>
    shown = IF told.sel = 0 THEN {told.list[i] : i \in DOMAIN told.list}
                            ELSE {told.list[told.sel]}

(* Whatever is selected or unplugged, the viewer ends up with a picture of *)
(* what is selected, of the size it was told, unless the two threads have  *)
(* rebuilt the list at the same time and left a display in it that is      *)
(* gone.  When nothing came in between the last kvm_init, its clicks land  *)
(* in that picture and the button that it was told is selected means it.   *)
ViewerFollows ==
  <>[]( /\ Selected \in layout.on \/ "crossed" \notin seen["main"] => PictureFollows
        /\ seen["main"] = {} => ClicksFollow /\ ButtonFollows )

(* The number that the viewer asks for is the display it was told under    *)
(* that number, as long as the arrangement is the same, although the       *)
(* system lists the displays in another order every time.                  *)
NumberMeansScreen ==
  [][at["input"] = "set" /\ sel' # sel /\ sel' # 0 /\ trust /\ seen["input"] = {}
       /\ told.list # <<>>
     => list[sel'] = told.list[sel']]_displaysVars
=============================================================================
