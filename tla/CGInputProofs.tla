---------------------------- MODULE CGInputProofs ----------------------------
(***************************************************************************)
(* Theorems about CGInput, for every set of keys, flags and buttons and    *)
(* every length of the queue.                                              *)
(*                                                                         *)
(* What an event says is true when it arrives if it is true after the      *)
(* events before it.  The invariant is that the events on their way, those *)
(* in the queue and those whose post has not returned, lead the system     *)
(* step by step from the state it is in to the one the agent believes in,  *)
(* and that each of them fits the state it will find.                      *)
(***************************************************************************)
EXTENDS CGInput, FiniteSetTheorems, SequenceTheorems, TLAPS

(* the modifiers and the buttons that the system holds after an event      *)
After(e, S) ==
  IF e.kind \notin {"mod", "release"} THEN S
  ELSE IF e.down THEN S \cup {e.code} ELSE S \ {e.code}

BtnAfter(e, B) ==
  IF e.kind # "button" THEN B
  ELSE IF e.down THEN B \cup {e.button} ELSE B \ {e.button}

(* what ArrivesInState asks of an event that finds S and B down            *)
Fits(e, S, B) ==
  /\ e.kind \in {"key", "button", "drag", "move"} => e.flags = S
  /\ e.kind = "drag" => e.button \in B

(* s and b are the states between the events of p                          *)
Through(p, s, b) ==
  \A i \in 1..Len(p) :
    /\ s[i] = After(p[i], s[i - 1]) /\ b[i] = BtnAfter(p[i], b[i - 1])
    /\ Fits(p[i], s[i - 1], b[i - 1])

(* p leads the system from S and B to T and C, each event fitting          *)
Leads(p, S, B, T, C) ==
  \E s \in [0..Len(p) -> SUBSET Flags], b \in [0..Len(p) -> SUBSET Buttons] :
    /\ Through(p, s, b)
    /\ s[0] = S /\ b[0] = B /\ s[Len(p)] = T /\ b[Len(p)] = C

OnTheWay == q \o out

(* Before the first post nothing has come to the event source; as long as  *)
(* nothing was dropped the agent's record and the source agree.            *)
StateInv ==
  /\ ~released => source = {}
  /\ ~lost => /\ modFlags = source
              /\ Leads(OnTheWay, os, osBtn, source, btn)

-----------------------------------------------------------------------------
LEMMA AfterType ==
  ASSUME NEW e \in Event, NEW S \in SUBSET Flags, NEW B \in SUBSET Buttons
  PROVE  After(e, S) \in SUBSET Flags /\ BtnAfter(e, B) \in SUBSET Buttons
<1>1. After(e, S) \in SUBSET Flags
  BY DEF After, Event
<1>2. BtnAfter(e, B) \in SUBSET Buttons
  BY DEF BtnAfter, Event
<1>3. QED
  BY <1>1, <1>2

(* No event leads nowhere.                                                 *)
LEMMA LeadsEmpty ==
  ASSUME NEW S \in SUBSET Flags, NEW B \in SUBSET Buttons
  PROVE  Leads(<<>>, S, B, S, B)
<1> DEFINE s == [i \in 0..0 |-> S]
           b == [i \in 0..0 |-> B]
<1>1. /\ Through(<<>>, s, b)
      /\ s \in [0..0 -> SUBSET Flags] /\ b \in [0..0 -> SUBSET Buttons]
  BY DEF Through
<1>2. s[0] = S /\ b[0] = B
  OBVIOUS
<1> HIDE DEF s, b
<1>3. Len(<<>>) = 0
  OBVIOUS
<1>4. QED
  BY <1>1, <1>2, <1>3 DEF Leads

LEMMA LeadsNowhere ==
  ASSUME NEW S, NEW B, NEW T, NEW C, Leads(<<>>, S, B, T, C)
  PROVE  S = T /\ B = C
  BY DEF Leads

(* One event leads to the state after it.                                  *)
LEMMA LeadsOne ==
  ASSUME NEW e \in Event, NEW S \in SUBSET Flags, NEW B \in SUBSET Buttons,
         Fits(e, S, B)
  PROVE  Leads(<<e>>, S, B, After(e, S), BtnAfter(e, B))
<1> DEFINE s == [i \in 0..1 |-> IF i = 0 THEN S ELSE After(e, S)]
           b == [i \in 0..1 |-> IF i = 0 THEN B ELSE BtnAfter(e, B)]
<1>1. s \in [0..1 -> SUBSET Flags] /\ b \in [0..1 -> SUBSET Buttons]
  BY AfterType
<1>2. s[0] = S /\ b[0] = B /\ s[1] = After(e, S) /\ b[1] = BtnAfter(e, B)
  OBVIOUS
<1> HIDE DEF s, b
<1>3. Len(<<e>>) = 1 /\ <<e>>[1] = e /\ 1..1 = {1}
  OBVIOUS
<1>4. Through(<<e>>, s, b)
  BY <1>2, <1>3 DEF Through
<1>5. QED
  BY <1>1, <1>2, <1>3, <1>4 DEF Leads

(* Where one sequence leads, another goes on.                              *)
LEMMA LeadsOn ==
  ASSUME NEW p \in Seq(Event), NEW r \in Seq(Event),
         NEW S, NEW B, NEW T, NEW C, NEW U, NEW D,
         Leads(p, S, B, T, C), Leads(r, T, C, U, D)
  PROVE  Leads(p \o r, S, B, U, D)
<1> DEFINE m == Len(p)
           n == Len(r)
<1>1. PICK s \in [0..m -> SUBSET Flags], b \in [0..m -> SUBSET Buttons] :
        /\ Through(p, s, b)
        /\ s[0] = S /\ b[0] = B /\ s[m] = T /\ b[m] = C
  BY DEF Leads
<1>2. PICK u \in [0..n -> SUBSET Flags], d \in [0..n -> SUBSET Buttons] :
        /\ Through(r, u, d)
        /\ u[0] = T /\ d[0] = C /\ u[n] = U /\ d[n] = D
  BY DEF Leads
<1>3. m \in Nat /\ n \in Nat
  OBVIOUS
<1>4. /\ Len(p \o r) = m + n
      /\ \A i \in 1..m : (p \o r)[i] = p[i]
      /\ \A i \in 1..n : (p \o r)[m + i] = r[i]
  OBVIOUS
<1> HIDE DEF m, n
<1> DEFINE v == [i \in 0..(m + n) |-> IF i <= m THEN s[i] ELSE u[i - m]]
           c == [i \in 0..(m + n) |-> IF i <= m THEN b[i] ELSE d[i - m]]
<1>5. v \in [0..(m + n) -> SUBSET Flags] /\ c \in [0..(m + n) -> SUBSET Buttons]
  BY <1>3
<1>6. \A i \in 0..m : v[i] = s[i] /\ c[i] = b[i]
  BY <1>3
<1>7. \A i \in 0..n : v[m + i] = u[i] /\ c[m + i] = d[i]
  <2> SUFFICES ASSUME NEW i \in 0..n
               PROVE  v[m + i] = u[i] /\ c[m + i] = d[i]
    OBVIOUS
  <2>1. CASE i = 0
    BY <1>1, <1>2, <1>3, <2>1
  <2>2. CASE i # 0
    BY <1>3, <2>2
  <2>3. QED
    BY <2>1, <2>2
<1> HIDE DEF v, c
<1>8. ASSUME NEW i \in 1..(m + n)
      PROVE  /\ v[i] = After((p \o r)[i], v[i - 1])
             /\ c[i] = BtnAfter((p \o r)[i], c[i - 1])
             /\ Fits((p \o r)[i], v[i - 1], c[i - 1])
  <2>1. CASE i <= m
    <3>1. i \in 1..m /\ i \in 0..m /\ i - 1 \in 0..m
      BY <1>3, <2>1
    <3>2. QED
      BY <1>1, <1>4, <1>6, <3>1 DEF Through, m
  <2>2. CASE ~(i <= m)
    <3>1. PICK j \in 1..n : i = m + j
      <4>1. i - m \in 1..n /\ i = m + (i - m)
        BY <1>3, <2>2
      <4>2. QED
        BY <4>1
    <3>2. j \in 0..n /\ j - 1 \in 0..n /\ i - 1 = m + (j - 1)
      BY <1>3, <3>1
    <3>3. /\ u[j] = After(r[j], u[j - 1]) /\ d[j] = BtnAfter(r[j], d[j - 1])
          /\ Fits(r[j], u[j - 1], d[j - 1])
      BY <1>2 DEF Through, n
    <3>4. /\ v[i] = u[j] /\ c[i] = d[j]
          /\ v[i - 1] = u[j - 1] /\ c[i - 1] = d[j - 1]
          /\ (p \o r)[i] = r[j]
      BY <1>4, <1>7, <3>1, <3>2
    <3>5. QED
      BY <3>3, <3>4
  <2>3. QED
    BY <2>1, <2>2
<1>9. Through(p \o r, v, c)
  BY <1>4, <1>8 DEF Through
<1>10. v[0] = S /\ c[0] = B /\ v[m + n] = U /\ c[m + n] = D
  <2>1. 0 \in 0..m /\ n \in 0..n
    BY <1>3
  <2>2. QED
    BY <1>1, <1>2, <1>6, <1>7, <2>1
<1>11. QED
  BY <1>4, <1>5, <1>9, <1>10 DEF Leads

(* The first event fits, and the others lead on from the state after it.   *)
LEMMA LeadsFirst ==
  ASSUME NEW p \in Seq(Event), p # <<>>,
         NEW S, NEW B, NEW T, NEW C, Leads(p, S, B, T, C)
  PROVE  /\ Fits(Head(p), S, B)
         /\ Leads(Tail(p), After(Head(p), S), BtnAfter(Head(p), B), T, C)
<1> DEFINE m == Len(Tail(p))
<1>1. PICK s \in [0..Len(p) -> SUBSET Flags], b \in [0..Len(p) -> SUBSET Buttons] :
        /\ Through(p, s, b)
        /\ s[0] = S /\ b[0] = B /\ s[Len(p)] = T /\ b[Len(p)] = C
  BY DEF Leads
<1>2. /\ m \in Nat /\ Len(p) = m + 1
      /\ Head(p) = p[1]
      /\ \A i \in 1..m : Tail(p)[i] = p[i + 1]
  OBVIOUS
<1> HIDE DEF m
<1> DEFINE u == [i \in 0..m |-> s[i + 1]]
           d == [i \in 0..m |-> b[i + 1]]
<1>3. u \in [0..m -> SUBSET Flags] /\ d \in [0..m -> SUBSET Buttons]
  BY <1>2
<1>4. \A i \in 0..m : u[i] = s[i + 1] /\ d[i] = b[i + 1]
  OBVIOUS
<1> HIDE DEF u, d
<1>5. /\ Fits(Head(p), S, B)
      /\ u[0] = After(Head(p), S) /\ d[0] = BtnAfter(Head(p), B)
  <2>1. 1 \in 1..Len(p) /\ 0 \in 0..m /\ 1 - 1 = 0 /\ 0 + 1 = 1
    BY <1>2
  <2>2. QED
    BY <1>1, <1>2, <1>4, <2>1 DEF Through
<1>6. u[m] = T /\ d[m] = C
  BY <1>1, <1>2, <1>4
<1>7. Through(Tail(p), u, d)
  <2> SUFFICES ASSUME NEW i \in 1..m
               PROVE  /\ u[i] = After(Tail(p)[i], u[i - 1])
                      /\ d[i] = BtnAfter(Tail(p)[i], d[i - 1])
                      /\ Fits(Tail(p)[i], u[i - 1], d[i - 1])
    BY DEF Through, m
  <2>1. /\ i + 1 \in 1..Len(p) /\ (i + 1) - 1 = i /\ (i - 1) + 1 = i
        /\ i \in 0..m /\ i - 1 \in 0..m
    BY <1>2
  <2>2. /\ s[i + 1] = After(p[i + 1], s[i]) /\ b[i + 1] = BtnAfter(p[i + 1], b[i])
        /\ Fits(p[i + 1], s[i], b[i])
    BY <1>1, <2>1 DEF Through
  <2>3. u[i] = s[i + 1] /\ d[i] = b[i + 1] /\ u[i - 1] = s[i] /\ d[i - 1] = b[i]
    BY <1>4, <2>1
  <2>4. QED
    BY <1>2, <2>2, <2>3
<1>8. QED
  BY <1>3, <1>5, <1>6, <1>7 DEF Leads, m

-----------------------------------------------------------------------------
(* There is an order of the flags, without repetition, and every flag is   *)
(* in it: the releases are one per modifier, whichever order is taken.     *)
LEMMA ReleaseOrder ==
  \E order \in [1..Cardinality(Flags) -> Flags] :
    /\ Cardinality(Flags) \in Nat
    /\ \A f \in Flags : \E i \in 1..Cardinality(Flags) : order[i] = f
    /\ Releases = [i \in 1..Cardinality(Flags) |->
                     [kind |-> "release", code |-> order[i], down |-> FALSE,
                      flags |-> source, by |-> {}]]
<1> DEFINE n == Cardinality(Flags)
           Once(s) == \A i, j \in DOMAIN s : s[i] = s[j] => i = j
           order == CHOOSE s \in [1..n -> Flags] : Once(s)
<1>1. IsFiniteSet(Flags) /\ n \in Nat /\ ExistsBijection(1..n, Flags)
  BY CGAssumption, FS_CardinalityType
<1>2. \E s \in [1..n -> Flags] : Once(s)
  BY <1>1 DEF ExistsBijection, Bijection, Injection, IsInjective
<1>3. order \in [1..n -> Flags] /\ Once(order)
  BY <1>2
<1>4. Releases = [i \in 1..n |-> [kind |-> "release", code |-> order[i],
                    down |-> FALSE, flags |-> source, by |-> {}]]
  <2>1. DOMAIN order = 1..n
    BY <1>3
  <2>2. QED
    BY <2>1 DEF Releases
<1> HIDE DEF order
<1>5. \A f \in Flags : \E i \in 1..n : order[i] = f
  <2>1. order \in Injection(1..n, Flags)
    BY <1>3 DEF Injection, IsInjective
  <2>2. Cardinality(1..n) = n /\ IsFiniteSet(1..n)
    BY <1>1, FS_Interval
  <2>3. order \in Surjection(1..n, Flags)
    BY <1>1, <2>1, <2>2, FS_Injection
  <2>4. QED
    BY <2>3 DEF Surjection
<1>6. QED
  BY <1>1, <1>3, <1>4, <1>5

LEMMA ReleasesType ==
  ASSUME source \subseteq Flags
  PROVE  /\ Releases \in Seq(Event)
         /\ \A i \in 1..Len(Releases) : Releases[i].kind = "release"
<1>1. PICK order \in [1..Cardinality(Flags) -> Flags] :
        /\ Cardinality(Flags) \in Nat
        /\ Releases = [i \in 1..Cardinality(Flags) |->
                         [kind |-> "release", code |-> order[i], down |-> FALSE,
                          flags |-> source, by |-> {}]]
  BY ReleaseOrder
<1>2. \A i \in 1..Cardinality(Flags) :
        Releases[i] \in Event /\ Releases[i].kind = "release"
  BY <1>1 DEF Event
<1>3. QED
  BY <1>1, <1>2

(* After the releases the system holds no modifier, whatever it held, and  *)
(* the buttons it held.                                                    *)
LEMMA LeadsReleases ==
  ASSUME source \subseteq Flags, NEW S \in SUBSET Flags, NEW B \in SUBSET Buttons
  PROVE  Leads(Releases, S, B, {}, B)
<1> DEFINE n == Cardinality(Flags)
<1>1. PICK order \in [1..n -> Flags] :
        /\ n \in Nat
        /\ \A f \in Flags : \E i \in 1..n : order[i] = f
        /\ Releases = [i \in 1..n |->
                         [kind |-> "release", code |-> order[i], down |-> FALSE,
                          flags |-> source, by |-> {}]]
  BY ReleaseOrder
<1> HIDE DEF n
<1> DEFINE Gone(i) == {order[j] : j \in 1..i}
           s == [i \in 0..n |-> S \ Gone(i)]
           b == [i \in 0..n |-> B]
<1>2. Len(Releases) = n
  BY <1>1
<1>3. s \in [0..n -> SUBSET Flags] /\ b \in [0..n -> SUBSET Buttons]
  OBVIOUS
<1>4. s[0] = S /\ b[0] = B
  <2>1. Gone(0) = {}
    OBVIOUS
  <2>2. QED
    BY <1>1, <2>1
<1>5. s[n] = {} /\ b[n] = B
  BY <1>1
<1>6. Through(Releases, s, b)
  <2> SUFFICES ASSUME NEW i \in 1..n
               PROVE  /\ s[i] = After(Releases[i], s[i - 1])
                      /\ b[i] = BtnAfter(Releases[i], b[i - 1])
                      /\ Fits(Releases[i], s[i - 1], b[i - 1])
    BY <1>2 DEF Through
  <2>1. Releases[i] = [kind |-> "release", code |-> order[i], down |-> FALSE,
                       flags |-> source, by |-> {}]
    BY <1>1
  <2>2. i \in 0..n /\ i - 1 \in 0..n
    BY <1>1
  <2>3. Gone(i) = Gone(i - 1) \cup {order[i]}
    BY <1>1
  <2>4. s[i] = s[i - 1] \ {order[i]} /\ b[i] = b[i - 1]
    BY <2>2, <2>3
  <2>5. QED
    BY <2>1, <2>4 DEF After, BtnAfter, Fits
<1> HIDE DEF s, b
<1>7. QED
  BY <1>2, <1>3, <1>4, <1>5, <1>6 DEF Leads

-----------------------------------------------------------------------------
(* Types, action by action.                                                *)

LEMMA PostType ==
  ASSUME source \subseteq Flags, NEW e \in Event, Post(e)
  PROVE  out' \in Seq(Event) /\ released' \in BOOLEAN
  BY ReleasesType DEF Post

LEMMA DragType ==
  ASSUME btn \subseteq Buttons, btn # {}
  PROVE  DragButton(btn) \in Buttons /\ DragButton(btn) \in btn
  BY CGAssumption DEF DragButton

LEMMA TypeKept ==
  ASSUME TypeOK, [Next]_vars
  PROVE  TypeOK'
<1> USE DEF TypeOK
<1>1. CASE \E k \in Mods, d \in BOOLEAN : Modifier(k, d)
  <2>1. PICK k \in Mods, d \in BOOLEAN : Modifier(k, d)
    BY <1>1
  <2>2. FlagOf[k] \in Flags
    BY CGAssumption
  <2>3. modFlags' \subseteq Flags /\ held' \subseteq Mods /\ source' \subseteq Flags
    BY <2>1, <2>2 DEF Modifier
  <2>4. out' \in Seq(Event) /\ released' \in BOOLEAN /\ lost' \in BOOLEAN
    <3>1. CASE atLogin
      BY <2>1, <3>1 DEF Modifier
    <3>2. CASE ~atLogin
      <4>1. [kind |-> "mod", code |-> FlagOf[k], down |-> d,
             flags |-> modFlags', by |-> held'] \in Event
        BY <2>2, <2>3 DEF Event
      <4>2. QED
        BY <2>1, <3>2, <4>1, PostType DEF Modifier, ApplyModFlags
    <3>3. QED
      BY <3>1, <3>2
  <2>5. QED
    BY <2>1, <2>3, <2>4 DEF Modifier, osVars
<1>2. CASE \E b \in Buttons, d \in BOOLEAN : Button(b, d)
  <2>1. PICK b \in Buttons, d \in BOOLEAN : Button(b, d)
    BY <1>2
  <2>2. modFlags' \subseteq Flags /\ held' \subseteq Mods /\ btn' \subseteq Buttons
    BY <2>1 DEF Button
  <2>3. out' \in Seq(Event) /\ released' \in BOOLEAN /\ lost' \in BOOLEAN
    <3>1. CASE atLogin
      BY <2>1, <3>1 DEF Button
    <3>2. CASE ~atLogin
      <4>1. [kind |-> "button", button |-> b, down |-> d,
             flags |-> modFlags', by |-> held] \in Event
        BY <2>2 DEF Event
      <4>2. QED
        BY <2>1, <3>2, <4>1, PostType DEF Button, ApplyModFlags
    <3>3. QED
      BY <3>1, <3>2
  <2>4. QED
    BY <2>1, <2>2, <2>3 DEF Button, osVars
<1>3. CASE Letter
  <2>1. [kind |-> "key", flags |-> modFlags', by |-> held] \in Event
    BY <1>3 DEF Letter, Event
  <2>2. out' \in Seq(Event) /\ released' \in BOOLEAN
    BY <1>3, <2>1, PostType DEF Letter, ApplyModFlags
  <2>3. QED
    BY <1>3, <2>2 DEF Letter, osVars
<1>4. CASE Move
  <2>1. [kind |-> "move", flags |-> modFlags', by |-> held] \in Event
    BY <1>4 DEF Move, Event
  <2>2. btn # {} => [kind |-> "drag", button |-> DragButton(btn),
                     flags |-> modFlags', by |-> held] \in Event
    BY <1>4, DragType DEF Move, Event
  <2>3. out' \in Seq(Event) /\ released' \in BOOLEAN
    BY <1>4, <2>1, <2>2, PostType DEF Move, ApplyModFlags
  <2>4. QED
    BY <1>4, <2>3 DEF Move, osVars
<1>5. CASE ResetModifiers
  BY <1>5, ReleasesType DEF ResetModifiers, osVars
<1>6. CASE Enqueue
  <2>1. q' \in Seq(Event) /\ Len(q') <= Slots /\ out' \in Seq(Event)
    BY <1>6, CGAssumption DEF Enqueue
  <2>2. QED
    BY <1>6, <2>1 DEF Enqueue, osVars, history
<1>7. CASE GiveUp
  BY <1>7 DEF GiveUp, osVars
<1>8. CASE Deliver
  <2>1. q' \in Seq(Event) /\ Len(q') <= Slots
    BY <1>8, CGAssumption DEF Deliver
  <2>2. Head(q) \in Event
    BY <1>8 DEF Deliver
  <2>3. os' \subseteq Flags /\ osBtn' \subseteq Buttons
    BY <1>8, <2>2, AfterType DEF Deliver, Take, After, BtnAfter
  <2>4. QED
    BY <1>8, <2>1, <2>3 DEF Deliver, agentVars, history
<1>9. CASE ConsoleChanges
  BY <1>9 DEF ConsoleChanges, agentVars, osVars, history
<1>10. CASE UNCHANGED vars
  BY <1>10 DEF vars, agentVars, osVars, history
<1>11. QED
  BY <1>1, <1>2, <1>3, <1>4, <1>5, <1>6, <1>7, <1>8, <1>9, <1>10 DEF Next

LEMMA InitType == Init => TypeOK
<1>1. <<>> \in Seq(Event) /\ Len(<<>>) = 0 /\ 0 <= Slots
  BY CGAssumption
<1>2. QED
  BY <1>1 DEF Init, TypeOK

(* The queue never takes more than its slots, and every event in it or on  *)
(* its way is one that the agent can make.                                 *)
THEOREM CGTypeOK == Spec => []TypeOK
<1>1. Init => TypeOK
  BY InitType
<1>2. QED
  BY <1>1, TypeKept, PTL DEF Spec

-----------------------------------------------------------------------------
(* What is on the way grows at its end, moves on without a change, and is  *)
(* taken from its front.                                                   *)

(* A post adds its event, after the releases if it is the first: both lead *)
(* on from a state in which the event, posted with no modifier if it is    *)
(* the first, fits.                                                        *)
LEMMA PostLeads ==
  ASSUME TypeOK, StateInv, ~lost, Idle, NEW e \in Event, Post(e), q' = q,
         Fits(e, source, btn)
  PROVE  Leads(OnTheWay', os, osBtn, After(e, source), BtnAfter(e, btn))
<1> DEFINE T == After(e, source)
           C == BtnAfter(e, btn)
<1>1. q \in Seq(Event) /\ out = <<>> /\ <<e>> \in Seq(Event)
  BY DEF TypeOK, Idle
<1>2. Leads(q, os, osBtn, source, btn)
  <2>1. q \o <<>> = q
    BY <1>1
  <2>2. QED
    BY <1>1, <2>1 DEF StateInv, OnTheWay
<1>3. Leads(<<e>>, source, btn, T, C)
  BY LeadsOne DEF TypeOK
<1> HIDE DEF T, C
<1>4. CASE released
  <2>1. OnTheWay' = q \o <<e>>
    BY <1>4 DEF Post, OnTheWay
  <2>2. QED
    BY <1>1, <1>2, <1>3, <2>1, LeadsOn DEF T, C
<1>5. CASE ~released
  <2>1. source = {} /\ source \subseteq Flags
    BY <1>5 DEF StateInv
  <2>2. Releases \in Seq(Event)
    BY <2>1, ReleasesType
  <2>3. Leads(Releases, source, btn, source, btn)
    BY <2>1, LeadsReleases DEF TypeOK
  <2>4. OnTheWay' = q \o (Releases \o <<e>>) /\ Releases \o <<e>> \in Seq(Event)
    BY <1>1, <1>5, <2>2, AppendIsConcat DEF Post, OnTheWay
  <2>5. Leads(Releases \o <<e>>, source, btn, T, C)
    BY <1>1, <1>3, <2>2, <2>3, LeadsOn
  <2>6. QED
    BY <1>1, <1>2, <2>4, <2>5, LeadsOn DEF T, C
<1>6. QED
  BY <1>4, <1>5 DEF TypeOK

LEMMA EnqueueLeads ==
  ASSUME TypeOK, Enqueue
  PROVE  OnTheWay' = OnTheWay
<1> DEFINE e == Head(out)
           r == Tail(out)
<1>1. /\ q \in Seq(Event) /\ e \in Event /\ r \in Seq(Event)
      /\ <<e>> \in Seq(Event) /\ out = <<e>> \o r
  <2>1. out \in Seq(Event) /\ out # <<>>
    BY DEF TypeOK, Enqueue
  <2>2. QED
    BY <2>1 DEF TypeOK
<1>2. q' = q \o <<e>> /\ out' = r
  BY <1>1, AppendIsConcat DEF Enqueue
<1> HIDE DEF e, r
<1>3. (q \o <<e>>) \o r = q \o (<<e>> \o r)
  BY <1>1, ConcatAssociative
<1>4. QED
  BY <1>1, <1>2, <1>3 DEF OnTheWay

LEMMA DeliverLeads ==
  ASSUME TypeOK, Deliver
  PROVE  /\ OnTheWay \in Seq(Event) /\ OnTheWay # <<>>
         /\ Head(OnTheWay) = Head(q) /\ OnTheWay' = Tail(OnTheWay)
<1>1. q \in Seq(Event) /\ q # <<>> /\ out \in Seq(Event)
  BY DEF TypeOK, Deliver
<1>2. q' = Tail(q) /\ out' = out
  BY DEF Deliver, agentVars
<1>3. q \o out \in Seq(Event) /\ q \o out # <<>> /\ Head(q \o out) = Head(q)
  BY <1>1
<1>4. Tail(q \o out) = Tail(q) \o out
  BY <1>1
<1>5. QED
  BY <1>2, <1>3, <1>4 DEF OnTheWay

LEMMA StateKept ==
  ASSUME TypeOK, StateInv, [Next]_vars
  PROVE  StateInv'
<1>1. CASE \E k \in Mods, d \in BOOLEAN : Modifier(k, d)
  <2>1. PICK k \in Mods, d \in BOOLEAN : Modifier(k, d)
    BY <1>1
  <2>2. CASE atLogin
    BY <2>1, <2>2 DEF Modifier, StateInv
  <2>3. CASE ~atLogin
    <3> DEFINE e == [kind |-> "mod", code |-> FlagOf[k], down |-> d,
                     flags |-> modFlags', by |-> held']
    <3>1. e \in Event
      <4>1. FlagOf[k] \in Flags
        BY CGAssumption
      <4>2. QED
        BY <2>1, <4>1 DEF Modifier, TypeOK, Event
    <3>2. Post(e) /\ Idle
      BY <2>1, <2>3 DEF Modifier, ApplyModFlags
    <3>3. released' /\ lost' = lost /\ q' = q /\ os' = os /\ osBtn' = osBtn
      BY <2>1, <2>3, <3>2 DEF Modifier, Post, osVars
    <3>4. ASSUME ~lost
          PROVE  /\ modFlags' = source' /\ source' = After(e, source)
                 /\ btn' = BtnAfter(e, btn) /\ Fits(e, source, btn)
      BY <2>1, <2>3, <3>4 DEF Modifier, StateInv, After, BtnAfter, Fits
    <3> HIDE DEF e
    <3>5. QED
      BY <3>1, <3>2, <3>3, <3>4, PostLeads DEF StateInv
  <2>4. QED
    BY <2>2, <2>3
<1>2. CASE \E b \in Buttons, d \in BOOLEAN : Button(b, d)
  <2>1. PICK b \in Buttons, d \in BOOLEAN : Button(b, d)
    BY <1>2
  <2>2. CASE atLogin
    BY <2>1, <2>2 DEF Button, StateInv
  <2>3. CASE ~atLogin
    <3> DEFINE e == [kind |-> "button", button |-> b, down |-> d,
                     flags |-> modFlags', by |-> held]
    <3>1. e \in Event
      BY <2>1 DEF Button, TypeOK, Event
    <3>2. Post(e) /\ Idle
      BY <2>1, <2>3 DEF Button, ApplyModFlags
    <3>3. released' /\ lost' = lost /\ q' = q /\ os' = os /\ osBtn' = osBtn
      BY <2>1, <2>3, <3>2 DEF Button, Post, osVars
    <3>4. ASSUME ~lost
          PROVE  /\ modFlags' = source' /\ source' = After(e, source)
                 /\ btn' = BtnAfter(e, btn) /\ Fits(e, source, btn)
      BY <2>1, <2>3, <3>4 DEF Button, StateInv, After, BtnAfter, Fits
    <3> HIDE DEF e
    <3>5. QED
      BY <3>1, <3>2, <3>3, <3>4, PostLeads DEF StateInv
  <2>4. QED
    BY <2>2, <2>3
<1>3. CASE Letter
  <2> DEFINE e == [kind |-> "key", flags |-> modFlags', by |-> held]
  <2>1. e \in Event
    BY <1>3 DEF Letter, TypeOK, Event
  <2>2. Post(e) /\ Idle
    BY <1>3 DEF Letter, ApplyModFlags
  <2>3. released' /\ lost' = lost /\ q' = q /\ os' = os /\ osBtn' = osBtn
    BY <1>3, <2>2 DEF Letter, Post, osVars
  <2>4. ASSUME ~lost
        PROVE  /\ modFlags' = source' /\ source' = After(e, source)
               /\ btn' = BtnAfter(e, btn) /\ Fits(e, source, btn)
    BY <1>3, <2>4 DEF Letter, StateInv, After, BtnAfter, Fits
  <2> HIDE DEF e
  <2>5. QED
    BY <2>1, <2>2, <2>3, <2>4, PostLeads DEF StateInv
<1>4. CASE Move
  <2>1. PICK e \in { [kind |-> "move", flags |-> modFlags', by |-> held],
                     [kind |-> "drag", button |-> DragButton(btn),
                      flags |-> modFlags', by |-> held] } :
          Post(e) /\ (e.kind = "drag" => btn # {})
    BY <1>4 DEF Move, ApplyModFlags
  <2>2. e \in Event /\ Idle
    BY <1>4, <2>1, DragType DEF Move, TypeOK, Event
  <2>3. /\ released' /\ lost' = lost /\ q' = q /\ os' = os /\ osBtn' = osBtn
        /\ modFlags' = modFlags /\ source' = source /\ btn' = btn
    BY <1>4, <2>1 DEF Move, Post, osVars
  <2>4. source = After(e, source) /\ btn = BtnAfter(e, btn)
    BY <2>1 DEF After, BtnAfter
  <2>5. ~lost => Fits(e, source, btn)
    BY <2>1, <2>3, DragType DEF StateInv, Fits, TypeOK
  <2>6. QED
    BY <2>1, <2>2, <2>3, <2>4, <2>5, PostLeads DEF StateInv
<1>5. CASE ResetModifiers
  <2>1. /\ modFlags' = {} /\ source' = {} /\ btn' = btn /\ lost' = lost
        /\ os' = os /\ osBtn' = osBtn
    BY <1>5 DEF ResetModifiers, osVars
  <2>2. OnTheWay' = q \o Releases /\ OnTheWay = q
    BY <1>5 DEF ResetModifiers, Idle, OnTheWay, TypeOK
  <2>3. q \in Seq(Event) /\ Releases \in Seq(Event)
    BY ReleasesType DEF TypeOK
  <2>4. Leads(Releases, source, btn, {}, btn)
    BY LeadsReleases DEF TypeOK
  <2>5. ~lost => Leads(OnTheWay', os, osBtn, {}, btn)
    BY <2>2, <2>3, <2>4, LeadsOn DEF StateInv
  <2>6. QED
    BY <2>1, <2>5 DEF StateInv
<1>6. CASE Enqueue
  BY <1>6, EnqueueLeads DEF Enqueue, StateInv, osVars, history
<1>7. CASE GiveUp
  BY <1>7 DEF GiveUp, StateInv
<1>8. CASE Deliver
  <2>1. os' = After(Head(q), os) /\ osBtn' = BtnAfter(Head(q), osBtn)
    BY <1>8 DEF Deliver, Take, After, BtnAfter
  <2>2. ~lost => Leads(Tail(OnTheWay), os', osBtn', source, btn)
    BY <1>8, <2>1, DeliverLeads, LeadsFirst DEF StateInv
  <2>3. QED
    BY <1>8, <2>2, DeliverLeads DEF Deliver, agentVars, history, StateInv
<1>9. CASE ConsoleChanges
  BY <1>9 DEF ConsoleChanges, agentVars, osVars, history, StateInv, OnTheWay
<1>10. CASE UNCHANGED vars
  BY <1>10 DEF vars, agentVars, osVars, history, StateInv, OnTheWay
<1>11. QED
  BY <1>1, <1>2, <1>3, <1>4, <1>5, <1>6, <1>7, <1>8, <1>9, <1>10 DEF Next

LEMMA InitState == Init => StateInv
<1>1. ASSUME Init
      PROVE  Leads(OnTheWay, os, osBtn, source, btn)
  <2>1. OnTheWay = <<>>
    BY <1>1 DEF Init, OnTheWay
  <2>2. QED
    BY <1>1, <2>1, LeadsEmpty DEF Init
<1>2. QED
  BY <1>1 DEF Init, StateInv

(* An event reaches the system in the state it was made for: a letter with *)
(* the modifiers it carries down, a drag with its button down.  Whatever   *)
(* the keyboard, unless an event was dropped or the login window answered. *)
THEOREM CGArrivesInState == Spec => []ArrivesInState
<1>1. Init => TypeOK /\ StateInv
  BY InitType, InitState
<1>2. TypeOK /\ StateInv /\ [Next]_vars => (TypeOK /\ StateInv)'
  BY TypeKept, StateKept
<1>3. TypeOK /\ StateInv => ArrivesInState
  <2> SUFFICES ASSUME TypeOK, StateInv, q # <<>>, ~lost
               PROVE  Fits(Head(q), os, osBtn)
    BY DEF ArrivesInState, Fits
  <2>1. /\ q \in Seq(Event) /\ out \in Seq(Event) /\ OnTheWay \in Seq(Event)
        /\ OnTheWay # <<>> /\ Head(OnTheWay) = Head(q)
    BY DEF TypeOK, OnTheWay
  <2>2. QED
    BY <2>1, LeadsFirst DEF StateInv
<1>4. QED
  BY <1>1, <1>2, <1>3, PTL DEF Spec

(* Once all is posted and delivered, the system holds the modifiers and    *)
(* the buttons of the agent's record.                                      *)
LEMMA RecordTrue ==
  ASSUME TypeOK, StateInv, q = <<>>, out = <<>>, ~lost
  PROVE  os = modFlags /\ osBtn = btn
<1>1. OnTheWay = <<>>
  BY DEF OnTheWay
<1>2. QED
  BY <1>1, LeadsNowhere DEF StateInv

-----------------------------------------------------------------------------
(* Where no two modifiers share a flag, the flags are those of the keys    *)
(* held.  (The two Command keys share one: the release of either takes it  *)
(* from the other.)                                                        *)

FlagEach == \A k, l \in Mods : FlagOf[k] = FlagOf[l] => k = l

(* the record is of the keys held, as is every event on the way            *)
Exact(p) == \A i \in 1..Len(p) : p[i].kind # "release" => p[i].flags = FlagsOf(p[i].by)

ExactInv == modFlags = FlagsOf(held) /\ Exact(q) /\ Exact(out)

LEMMA PostExact ==
  ASSUME TypeOK, NEW e \in Event, e.flags = FlagsOf(e.by), Post(e)
  PROVE  Exact(out')
<1>1. Releases \in Seq(Event) /\ \A i \in 1..Len(Releases) : Releases[i].kind = "release"
  BY ReleasesType DEF TypeOK
<1>2. Exact(<<e>>)
  BY DEF Exact
<1>3. Exact(Append(Releases, e))
  BY <1>1 DEF Exact
<1>4. QED
  BY <1>2, <1>3 DEF Post

LEMMA ExactKept ==
  ASSUME FlagEach, TypeOK, ExactInv, [Next]_vars
  PROVE  ExactInv'
<1>1. CASE \E k \in Mods, d \in BOOLEAN : Modifier(k, d)
  <2>1. PICK k \in Mods, d \in BOOLEAN : Modifier(k, d)
    BY <1>1
  <2>2. modFlags' = FlagsOf(held')
    BY <2>1 DEF FlagEach, ExactInv, FlagsOf, Modifier, TypeOK
  <2>3. Exact(out')
    <3>1. CASE atLogin
      BY <2>1, <3>1 DEF Modifier, ExactInv
    <3>2. CASE ~atLogin
      <4> DEFINE e == [kind |-> "mod", code |-> FlagOf[k], down |-> d,
                       flags |-> modFlags', by |-> held']
      <4>1. FlagOf[k] \in Flags
        BY CGAssumption
      <4>2. e \in Event
        BY <2>1, <4>1 DEF Modifier, TypeOK, Event
      <4>3. Post(e)
        BY <2>1, <3>2 DEF Modifier, ApplyModFlags
      <4>4. QED
        BY <2>2, <4>2, <4>3, PostExact
    <3>3. QED
      BY <3>1, <3>2
  <2>4. QED
    BY <2>1, <2>2, <2>3 DEF Modifier, ExactInv
<1>2. CASE \E b \in Buttons, d \in BOOLEAN : Button(b, d)
  <2>1. PICK b \in Buttons, d \in BOOLEAN : Button(b, d)
    BY <1>2
  <2>2. Exact(out')
    <3>1. CASE atLogin
      BY <2>1, <3>1 DEF Button, ExactInv
    <3>2. CASE ~atLogin
      <4> DEFINE e == [kind |-> "button", button |-> b, down |-> d,
                       flags |-> modFlags', by |-> held]
      <4>1. e \in Event
        BY <2>1 DEF Button, TypeOK, Event
      <4>2. Post(e) /\ modFlags' = FlagsOf(held)
        BY <2>1, <3>2 DEF Button, ApplyModFlags, ExactInv
      <4>3. QED
        BY <4>1, <4>2, PostExact
    <3>3. QED
      BY <3>1, <3>2
  <2>3. QED
    BY <2>1, <2>2 DEF Button, ExactInv, FlagsOf
<1>3. CASE Letter
  <2> DEFINE e == [kind |-> "key", flags |-> modFlags', by |-> held]
  <2>1. e \in Event
    BY <1>3 DEF Letter, TypeOK, Event
  <2>2. Post(e) /\ modFlags' = FlagsOf(held)
    BY <1>3 DEF Letter, ApplyModFlags, ExactInv
  <2>3. Exact(out')
    BY <2>1, <2>2, PostExact
  <2>4. QED
    BY <1>3, <2>3 DEF Letter, ExactInv, FlagsOf
<1>4. CASE Move
  <2>1. PICK e \in { [kind |-> "move", flags |-> modFlags', by |-> held],
                     [kind |-> "drag", button |-> DragButton(btn),
                      flags |-> modFlags', by |-> held] } :
          Post(e) /\ (e.kind = "drag" => btn # {})
    BY <1>4 DEF Move, ApplyModFlags
  <2>2. e \in Event
    BY <1>4, <2>1, DragType DEF Move, TypeOK, Event
  <2>3. e.flags = FlagsOf(e.by)
    BY <1>4, <2>1 DEF Move, ExactInv
  <2>4. Exact(out')
    BY <2>1, <2>2, <2>3, PostExact
  <2>5. QED
    BY <1>4, <2>4 DEF Move, ExactInv, FlagsOf
<1>5. CASE ResetModifiers
  <2>1. Exact(Releases)
    BY ReleasesType DEF TypeOK, Exact
  <2>2. QED
    BY <1>5, <2>1 DEF ResetModifiers, ExactInv, FlagsOf
<1>6. CASE Enqueue
  <2>1. q \in Seq(Event) /\ out \in Seq(Event) /\ out # <<>>
    BY <1>6 DEF Enqueue, TypeOK
  <2>2. Exact(Append(q, Head(out))) /\ Exact(Tail(out))
    BY <2>1 DEF ExactInv, Exact
  <2>3. QED
    BY <1>6, <2>2 DEF Enqueue, ExactInv, FlagsOf, history
<1>7. CASE GiveUp
  <2>1. out \in Seq(Event) /\ out # <<>>
    BY <1>7 DEF GiveUp, TypeOK
  <2>2. Exact(Tail(out))
    BY <2>1 DEF ExactInv, Exact
  <2>3. QED
    BY <1>7, <2>2 DEF GiveUp, ExactInv, FlagsOf
<1>8. CASE Deliver
  <2>1. q \in Seq(Event) /\ q # <<>>
    BY <1>8 DEF Deliver, TypeOK
  <2>2. Exact(Tail(q))
    BY <2>1 DEF ExactInv, Exact
  <2>3. QED
    BY <1>8, <2>2 DEF Deliver, agentVars, history, ExactInv, FlagsOf
<1>9. CASE ConsoleChanges
  BY <1>9 DEF ConsoleChanges, agentVars, history, ExactInv, FlagsOf
<1>10. CASE UNCHANGED vars
  BY <1>10 DEF vars, agentVars, history, ExactInv, FlagsOf
<1>11. QED
  BY <1>1, <1>2, <1>3, <1>4, <1>5, <1>6, <1>7, <1>8, <1>9, <1>10 DEF Next

LEMMA InitExact == Init => ExactInv
  BY DEF Init, ExactInv, Exact, FlagsOf

(* Every event posted carries exactly the modifiers held when it was made, *)
(* none that the event source had accumulated, also when events were lost. *)
THEOREM CGFlagsExact ==
  ASSUME FlagEach
  PROVE  Spec => []FlagsExact
<1>1. Init => TypeOK /\ ExactInv
  BY InitType, InitExact
<1>2. TypeOK /\ ExactInv /\ [Next]_vars => (TypeOK /\ ExactInv)'
  BY TypeKept, ExactKept
<1>3. ExactInv => FlagsExact
  BY DEF ExactInv, Exact, FlagsExact
<1>4. QED
  BY <1>1, <1>2, <1>3, PTL DEF Spec

(* Nothing stays latched: once the queue has drained, the system holds     *)
(* what the viewer holds, also after a viewer left with a key down and     *)
(* kvm_reset_modifiers released every modifier.                            *)
THEOREM CGNothingLatched ==
  ASSUME FlagEach
  PROVE  Spec => []NothingLatched
<1>1. Init => TypeOK /\ StateInv /\ ExactInv
  BY InitType, InitState, InitExact
<1>2. TypeOK /\ StateInv /\ ExactInv /\ [Next]_vars => (TypeOK /\ StateInv /\ ExactInv)'
  BY TypeKept, StateKept, ExactKept
<1>3. TypeOK /\ StateInv /\ ExactInv => NothingLatched
  BY RecordTrue DEF ExactInv, NothingLatched
<1>4. QED
  BY <1>1, <1>2, <1>3, PTL DEF Spec
=============================================================================
