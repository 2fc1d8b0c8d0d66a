--------------------------- MODULE KvmRelayProofs ---------------------------
(***************************************************************************)
(* Theorems about KvmRelay, for every set of streams and users and every   *)
(* number of attempts and polls.                                           *)
(*                                                                         *)
(* The globals name the helper of one stream: the last that was set up     *)
(* over the socket, and the last whose child was spawned.  They are        *)
(* cleared before a setup waits and when any stream ends, so what they     *)
(* name belongs to a stream that is open.                                  *)
(***************************************************************************)
EXTENDS KvmRelay, TLAPS

(* a setup is of a stream that has none, begins with no connection, and is *)
(* the only one                                                            *)
SetupInv ==
  /\ setup.at = "idle" <=> setup = Idle
  /\ setup.at # "idle" => /\ setup.of \in Streams /\ stream[setup.of] = "new"
                          /\ pipe = None
  /\ setup.at = "poll" => setup.n \in 0..Polls
  /\ setup.at = "connect" => setup.n \in 0..(Attempts - 1)

(* what the globals name belongs to an open stream                         *)
GlobalsInv ==
  /\ owner = pipe
  /\ pipe # None => stream[pipe] = "socket"
  /\ child # None => stream[child] = "child"

RelayInv == TypeOK /\ SetupInv /\ GlobalsInv /\ OneConnection

-----------------------------------------------------------------------------
(* The sets of helpers and streams, one by one *)
LEMMA TypeParts ==
  TypeOK <=>
    /\ setup \in [of : Streams \cup {None}, uid : Uids \cup {LoginUid},
                  at : {"idle", "poll", "connect", "spawn", "fail"},
                  n : 0..(Attempts + Polls)]
    /\ sock \in [Uids \cup {LoginUid} -> {"absent", "dead", "up"}]
    /\ pipe \in Streams \cup {None} /\ owner \in Streams \cup {None}
    /\ child \in Streams \cup {None}
    /\ live \subseteq Streams /\ kids \subseteq Streams /\ cut \subseteq Streams
    /\ frames \subseteq Streams /\ routed \subseteq Streams
    /\ stream \in [Streams -> {"new", "socket", "child", "failed", "ended"}]
    /\ shown \in [Streams -> Streams \cup {None}]
    /\ typed \in [Streams -> SUBSET Streams]
BY DEF TypeOK

LEMMA IdleType ==
  Idle \in [of : Streams \cup {None}, uid : Uids \cup {LoginUid},
            at : {"idle", "poll", "connect", "spawn", "fail"},
            n : 0..(Attempts + Polls)]
BY RelayAssumption DEF Idle

(* Closing the pipe leaves no connection. *)
LEMMA NoneLeft ==
  ASSUME RelayInv, CloseSocket
  PROVE  live' = {} /\ pipe' = None /\ owner' = None
         /\ cut' \subseteq Streams /\ frames' \subseteq Streams
BY TypeParts DEF RelayInv, OneConnection, CloseSocket, ForgetSocket

-----------------------------------------------------------------------------
(* Setup                                                                   *)

LEMMA SetupStep ==
  ASSUME RelayInv, NEW s \in Streams, NEW u \in Uids \cup {LoginUid}, Setup(s, u)
  PROVE  RelayInv'
<1>1. /\ setup'.of = s /\ setup'.n = 0 /\ setup'.at \in {"poll", "fail", "connect"}
      /\ setup' \in [of : Streams \cup {None}, uid : Uids \cup {LoginUid},
                     at : {"idle", "poll", "connect", "spawn", "fail"},
                     n : 0..(Attempts + Polls)]
      /\ stream[s] = "new"
  <2>1. PICK at \in {"poll", "fail", "connect"} :
          setup' = [of |-> s, uid |-> u, n |-> 0, at |-> at]
    <3>1. CASE u # LoginUid
      BY <3>1 DEF Setup
    <3>2. CASE u = LoginUid /\ sock[u] = "absent"
      BY <3>2 DEF Setup
    <3>3. CASE u = LoginUid /\ sock[u] # "absent"
      BY <3>3 DEF Setup
    <3>4. QED
      BY <3>1, <3>2, <3>3
  <2>2. 0 \in 0..(Attempts + Polls) /\ stream[s] = "new"
    BY RelayAssumption DEF Setup
  <2>3. s \in Streams \cup {None} /\ 0 \in Nat
    OBVIOUS
  <2>4. setup'.of = s /\ setup'.n = 0 /\ setup'.at = at /\ setup'.uid = u
    BY <2>1
  <2>5. setup' \in [of : Streams \cup {None}, uid : Uids \cup {LoginUid},
                    at : {"idle", "poll", "connect", "spawn", "fail"},
                    n : 0..(Attempts + Polls)]
    BY <2>1, <2>2
  <2>6. QED
    BY <2>2, <2>4, <2>5
<1>2. live' = {} /\ pipe' = None /\ owner' = None
      /\ cut' \subseteq Streams /\ frames' \subseteq Streams
  BY NoneLeft DEF Setup
<1>3. UNCHANGED <<sock, child, kids, stream, routed, shown, typed>>
  BY DEF Setup
<1>4. TypeOK'
  BY <1>1, <1>2, <1>3, TypeParts DEF RelayInv, TypeOK
<1>5. SetupInv'
  BY <1>1, <1>2, <1>3, RelayAssumption DEF SetupInv, Idle
<1>6. GlobalsInv' /\ OneConnection'
  BY <1>2, <1>3 DEF RelayInv, GlobalsInv, OneConnection
<1>7. QED
  BY <1>4, <1>5, <1>6 DEF RelayInv

LEMMA WaitStep ==
  ASSUME RelayInv, Poll \/ ConnectRefused
  PROVE  RelayInv'
<1>1. UNCHANGED <<sock, globals, live, kids, cut, frames, stream, routed, shown,
                  typed>>
  BY DEF Poll, ConnectRefused
<1>2. Attempts \in Nat \ {0} /\ Polls \in Nat
  BY RelayAssumption
<1>3. /\ setup \in [of : Streams \cup {None}, uid : Uids \cup {LoginUid},
                    at : {"idle", "poll", "connect", "spawn", "fail"},
                    n : 0..(Attempts + Polls)]
      /\ setup.at # "idle" /\ SetupInv
  BY TypeParts DEF RelayInv, Poll, ConnectRefused
<1>4. /\ setup' \in [of : Streams \cup {None}, uid : Uids \cup {LoginUid},
                     at : {"idle", "poll", "connect", "spawn", "fail"},
                     n : 0..(Attempts + Polls)]
      /\ setup'.of = setup.of /\ setup'.at # "idle"
      /\ setup'.at = "poll" => setup'.n \in 0..Polls
      /\ setup'.at = "connect" => setup'.n \in 0..(Attempts - 1)
  <2>1. CASE Poll
    <3>1. setup.n \in 0..Polls
      BY <1>3, <2>1 DEF Poll, SetupInv
    <3>2. CASE sock[setup.uid] # "absent"
      <4>1. setup' = [setup EXCEPT !.at = "connect", !.n = 0]
        BY <2>1, <3>2 DEF Poll
      <4>2. 0 \in 0..(Attempts + Polls) /\ 0 \in 0..(Attempts - 1)
        BY <1>2
      <4>3. setup' = [of |-> setup.of, uid |-> setup.uid, at |-> "connect",
                      n |-> 0]
        BY <1>3, <4>1
      <4>4. QED
        BY <1>3, <4>2, <4>3
    <3>3. CASE sock[setup.uid] = "absent" /\ setup.n < Polls
      <4>1. setup' = [setup EXCEPT !.n = setup.n + 1] /\ setup.at = "poll"
        BY <2>1, <3>3 DEF Poll
      <4>2. QED
        BY <1>2, <1>3, <3>1, <3>3, <4>1
    <3>4. CASE sock[setup.uid] = "absent" /\ ~(setup.n < Polls)
      <4>1. setup' = [setup EXCEPT !.at = "spawn"]
        BY <2>1, <3>4 DEF Poll
      <4>2. QED
        BY <1>2, <1>3, <4>1
    <3>5. QED
      BY <3>2, <3>3, <3>4
  <2>2. CASE ConnectRefused
    BY <1>2, <1>3, <2>2 DEF ConnectRefused, SetupInv
  <2>3. QED
    BY <2>1, <2>2
<1>5. TypeOK'
  BY <1>1, <1>4 DEF RelayInv, TypeOK, globals
<1>6. SetupInv'
  BY <1>1, <1>3, <1>4 DEF SetupInv, Idle, globals
<1>7. QED
  BY <1>1, <1>5, <1>6 DEF RelayInv, GlobalsInv, OneConnection, globals

(* A setup that returns gives its stream the helper that the globals name. *)
LEMMA ReturnStep ==
  ASSUME RelayInv, Connect \/ SetupFails \/ Spawn
  PROVE  RelayInv'
<1>0. /\ setup \in [of : Streams \cup {None}, uid : Uids \cup {LoginUid},
                    at : {"idle", "poll", "connect", "spawn", "fail"},
                    n : 0..(Attempts + Polls)]
      /\ setup.at # "idle" /\ setup.of \in Streams
      /\ stream[setup.of] = "new" /\ pipe = None /\ owner = None
      /\ None \notin Streams /\ live = {}
  BY TypeParts, RelayAssumption
     DEF RelayInv, SetupInv, GlobalsInv, OneConnection, Connect, SetupFails, Spawn
<1>1. ASSUME NEW how \in {"socket", "child", "failed"}, Return(how)
      PROVE  /\ setup' = Idle /\ SetupInv' /\ routed' \subseteq Streams
             /\ stream' \in [Streams -> {"new", "socket", "child", "failed", "ended"}]
             /\ stream'[setup.of] = how
             /\ \A s \in Streams : s # setup.of => stream'[s] = stream[s]
             /\ child # None => child # setup.of
  BY <1>0, <1>1, TypeParts DEF Return, RelayInv, SetupInv, GlobalsInv, Idle
<1>2. CASE Connect
  <2>1. /\ pipe' = setup.of /\ owner' = setup.of /\ live' = {setup.of}
        /\ Return("socket") /\ UNCHANGED <<sock, child, kids, cut, frames, shown, typed>>
    BY <1>0, <1>2 DEF Connect
  <2>2. TypeOK'
    BY <1>0, <1>1, <2>1, TypeParts, IdleType DEF RelayInv, TypeOK
  <2>3. GlobalsInv'
    BY <1>0, <1>1, <2>1, TypeParts DEF RelayInv, GlobalsInv
  <2>4. QED
    BY <1>1, <2>1, <2>2, <2>3 DEF RelayInv, OneConnection
<1>3. CASE SetupFails
  <2>1. /\ Return("failed") /\ UNCHANGED <<pipe, owner, child, live>>
        /\ UNCHANGED <<sock, kids, cut, frames, shown, typed>>
    BY <1>3 DEF SetupFails, globals
  <2>2. TypeOK'
    BY <1>0, <1>1, <2>1, TypeParts, IdleType DEF RelayInv, TypeOK
  <2>3. GlobalsInv'
    BY <1>0, <1>1, <2>1, TypeParts DEF RelayInv, GlobalsInv
  <2>4. QED
    BY <1>1, <2>1, <2>2, <2>3 DEF RelayInv, OneConnection
<1>4. CASE Spawn
  <2>1. /\ child' = setup.of /\ kids' = kids \cup {setup.of} /\ Return("child")
        /\ UNCHANGED <<sock, pipe, owner, live, cut, frames, shown, typed>>
    BY <1>4 DEF Spawn
  <2>2. TypeOK'
    BY <1>0, <1>1, <2>1, TypeParts, IdleType DEF RelayInv, TypeOK
  <2>3. GlobalsInv'
    BY <1>0, <1>1, <2>1, TypeParts DEF RelayInv, GlobalsInv
  <2>4. QED
    BY <1>1, <2>1, <2>2, <2>3 DEF RelayInv, OneConnection
<1>5. QED
  BY <1>2, <1>3, <1>4

-----------------------------------------------------------------------------
(* The event loop                                                          *)

LEMMA CleanupStep ==
  ASSUME RelayInv, NEW s \in Streams, Cleanup(s)
  PROVE  RelayInv'
<1>1. /\ live' = {} /\ pipe' = None /\ owner' = None /\ child' = None
      /\ cut' \subseteq Streams /\ frames' \subseteq Streams
      /\ kids' \subseteq kids /\ setup = Idle
      /\ stream' \in [Streams -> {"new", "socket", "child", "failed", "ended"}]
      /\ UNCHANGED <<setup, sock, routed, shown, typed>>
  BY NoneLeft, TypeParts DEF RelayInv, Cleanup
<1>2. TypeOK'
  BY <1>1, TypeParts DEF RelayInv, TypeOK
<1>3. QED
  BY <1>1, <1>2 DEF RelayInv, SetupInv, GlobalsInv, OneConnection, Idle

LEMMA LoopStep ==
  ASSUME RelayInv, NEW h \in Streams,
         ReadSocket(h) \/ ReadChild(h) \/ Broken(h) \/ Input(h)
  PROVE  RelayInv'
<1>1. CASE ReadSocket(h) \/ ReadChild(h)
  <2>1. /\ frames' \subseteq frames
        /\ shown' \in [Streams -> Streams \cup {None}]
        /\ UNCHANGED <<setup, sock, globals, live, kids, cut, stream, routed, typed>>
    BY <1>1, TypeParts DEF RelayInv, ReadSocket, ReadChild
  <2>2. TypeOK'
    BY <2>1, TypeParts DEF RelayInv, TypeOK, globals
  <2>3. QED
    BY <2>1, <2>2 DEF RelayInv, SetupInv, GlobalsInv, OneConnection, globals
<1>2. CASE Broken(h)
  <2>1. /\ setup = Idle /\ h \in live /\ pipe' = None /\ owner' = None
        /\ live' = live \ {h} /\ cut' \subseteq cut
        /\ UNCHANGED <<setup, sock, child, kids, frames, stream, routed, shown, typed>>
    BY <1>2 DEF Broken, ForgetSocket
  <2>2. live' = {}
    BY <2>1 DEF RelayInv, OneConnection
  <2>3. TypeOK'
    BY <2>1, TypeParts DEF RelayInv, TypeOK
  <2>4. QED
    BY <2>1, <2>2, <2>3 DEF RelayInv, SetupInv, GlobalsInv, OneConnection, Idle
<1>3. CASE Input(h)
  <2>1. /\ typed' \in [Streams -> SUBSET Streams]
        /\ UNCHANGED <<setup, sock, globals, live, kids, cut, frames, stream, routed,
                       shown>>
    BY <1>3, TypeParts DEF RelayInv, Input, Sink
  <2>2. TypeOK'
    BY <2>1 DEF RelayInv, TypeOK, globals
  <2>3. QED
    BY <2>1, <2>2 DEF RelayInv, SetupInv, GlobalsInv, OneConnection, globals
<1>4. QED
  BY <1>1, <1>2, <1>3

LEMMA OutsideStep ==
  ASSUME RelayInv,
         \/ \E h \in Streams : AgentSends(h) \/ AgentCloses(h) \/ ChildExits(h)
         \/ \E u \in Uids \cup {LoginUid} : SocketChanges(u)
  PROVE  RelayInv'
<1>1. /\ UNCHANGED <<setup, globals, live, stream, routed, shown, typed>>
      /\ sock' \in [Uids \cup {LoginUid} -> {"absent", "dead", "up"}]
      /\ kids' \subseteq Streams /\ cut' \subseteq Streams /\ frames' \subseteq Streams
  BY TypeParts
     DEF RelayInv, AgentSends, AgentCloses, ChildExits, SocketChanges
<1>2. TypeOK'
  BY <1>1, TypeParts DEF RelayInv, TypeOK, globals
<1>3. QED
  BY <1>1, <1>2 DEF RelayInv, SetupInv, GlobalsInv, OneConnection, globals

LEMMA RelayInvHolds == Spec => []RelayInv
<1>1. Init => RelayInv
  <2>1. SUFFICES ASSUME Init
                 PROVE  RelayInv
    OBVIOUS
  <2>2. TypeOK
    BY <2>1, IdleType DEF Init, TypeOK
  <2>3. QED
    BY <2>1, <2>2 DEF Init, RelayInv, SetupInv, GlobalsInv, OneConnection, Idle
<1>2. RelayInv /\ [Next]_vars => RelayInv'
  <2>1. CASE UNCHANGED vars
    BY <2>1 DEF vars, globals, RelayInv, TypeOK, SetupInv, GlobalsInv,
       OneConnection
  <2>2. QED
    BY <2>1, SetupStep, WaitStep, ReturnStep, CleanupStep, LoopStep, OutsideStep
       DEF Next, Daemon
<1>3. QED
  BY <1>1, <1>2, PTL DEF Spec

-----------------------------------------------------------------------------

(* The relay's state keeps its type; a setup's retries stay within their
   bounds. *)
THEOREM RelayTypeOK == Spec => []TypeOK
BY RelayInvHolds, PTL DEF RelayInv

(* The daemon never holds a connection that its globals do not name: a new
   Desktop stream, a broken connection and the end of a stream leak none
   (kvm_relay_socket_ResetState, kvm_relay_setup, kvm_cleanup). *)
THEOREM RelayOneConnection == Spec => []OneConnection
BY RelayInvHolds, PTL DEF RelayInv

(* A frame is written to no other stream than the one whose helper sent it,
   and never to one that has ended, except by a child that outlived it
   (kvm_relay_socket_ReadHandler, kvm_relay_StdOutHandler). *)
THEOREM RelayOwnPicture == Spec => OwnPicture
<1>1. RelayInv /\ [Next]_vars =>
        [\A s \in Streams : shown'[s] # shown[s] =>
           /\ shown'[s] = s
           /\ stream[s] # "ended" \/ s \in kids]_vars
  <2>1. SUFFICES ASSUME RelayInv, Next, NEW s \in Streams, shown'[s] # shown[s]
                 PROVE  shown'[s] = s /\ (stream[s] # "ended" \/ s \in kids)
    OBVIOUS
  <2>2. shown \in [Streams -> Streams \cup {None}]
    BY <2>1, TypeParts DEF RelayInv
  <2>3. CASE \E h \in Streams : ReadSocket(h)
    <3>1. PICK h \in Streams : ReadSocket(h)
      BY <2>3
    <3>2. h = pipe /\ owner = pipe /\ stream[pipe] = "socket"
      BY <2>1, <3>1, RelayAssumption
         DEF ReadSocket, RelayInv, GlobalsInv, OneConnection
    <3>3. QED
      BY <2>1, <2>2, <3>1, <3>2 DEF ReadSocket
  <2>4. CASE \E h \in Streams : ReadChild(h)
    BY <2>1, <2>2, <2>4 DEF ReadChild
  <2>5. CASE UNCHANGED shown
    BY <2>1, <2>5
  <2>6. QED
    BY <2>1, <2>3, <2>4, <2>5
       DEF Next, Daemon, Poll, Connect, ConnectRefused, SetupFails, Spawn, Broken,
           Setup, Input, Cleanup, AgentSends, AgentCloses, ChildExits,
           SocketChanges
<1>2. QED
  BY <1>1, RelayInvHolds, PTL DEF Spec, OwnPicture

(* What a viewer types reaches no helper of a stream that has ended: the
   globals are cleared with the stream (kvm_relay_feeddata, kvm_cleanup). *)
THEOREM RelayInputServed == Spec => InputServed
<1>1. RelayInv /\ [Next]_vars =>
        [\A h \in Streams : typed'[h] # typed[h] => stream[h] # "ended"]_vars
  <2>1. SUFFICES ASSUME RelayInv, Next, NEW h \in Streams, typed'[h] # typed[h]
                 PROVE  stream[h] # "ended"
    OBVIOUS
  <2>2. typed \in [Streams -> SUBSET Streams]
    BY <2>1, TypeParts DEF RelayInv
  <2>3. CASE \E s \in Streams : Input(s)
    <3>1. Sink # None /\ h = Sink
      BY <2>1, <2>2, <2>3 DEF Input
    <3>2. QED
      BY <2>1, <3>1 DEF Sink, RelayInv, GlobalsInv
  <2>4. CASE UNCHANGED typed
    BY <2>1, <2>4
  <2>5. QED
    BY <2>1, <2>3, <2>4
       DEF Next, Daemon, Poll, Connect, ConnectRefused, SetupFails, Spawn,
           ReadSocket, ReadChild, Broken, Setup, Cleanup, AgentSends,
           AgentCloses, ChildExits, SocketChanges
<1>2. QED
  BY <1>1, RelayInvHolds, PTL DEF Spec, InputServed
=============================================================================
