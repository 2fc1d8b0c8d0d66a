------------------------------ MODULE KvmRelay -------------------------------
(***************************************************************************)
(* The daemon's side of a Desktop stream.  kvm_relay_setup connects the    *)
(* stream to the KVM agent of the console session through its socket, or   *)
(* falls back to a child process; kvm_relay_feeddata passes the viewer's   *)
(* input on, the read handlers pass the agent's frames back, kvm_cleanup   *)
(* ends it.  The daemon runs all of it on one thread, and the connection   *)
(* lives in globals that every stream shares.                              *)
(***************************************************************************)
EXTENDS Naturals, FiniteSets

CONSTANTS
  Streams,   \* Desktop streams the server opens, each once
  Uids,      \* console users
  LoginUid,  \* uid 0, the login window
  None,
  Attempts,  \* connect() attempts of one setup
  Polls      \* stat() polls for the socket of a user's agent

ASSUME RelayAssumption ==
  /\ None \notin Streams
  /\ LoginUid \notin Uids
  /\ Attempts \in Nat \ {0} /\ Polls \in Nat

(* The helper of a stream, an agent's connection or a child, is named      *)
(* after the stream: a stream is set up once.                              *)
VARIABLES
  setup,    \* the setup in progress
  sock,     \* each session's socket: no file, a file nobody listens on, up
  pipe,     \* g_kvmSocketPipe
  owner,    \* g_kvmSocketWriteHandler and g_kvmSocketReserved
  child,    \* gChildProcess
  live,     \* connections that the daemon holds open
  kids,     \* child processes that run
  cut,      \* open connections whose agent has closed its end
  frames,   \* helpers with a frame on the way to the daemon
  stream,   \* state of each stream
  routed,   \* streams whose kvmPipe is set
  shown,    \* history: the last helper whose frame a stream was written
  typed     \* history: streams whose input a helper was given

globals == <<pipe, owner, child>>
vars == <<setup, sock, globals, live, kids, cut, frames, stream, routed,
          shown, typed>>

Idle == [of |-> None, uid |-> LoginUid, at |-> "idle", n |-> 0]

Init ==
  /\ setup = Idle
  /\ sock \in [Uids \cup {LoginUid} -> {"absent", "dead", "up"}]
  /\ pipe = None /\ owner = None /\ child = None
  /\ live = {} /\ kids = {} /\ cut = {} /\ frames = {}
  /\ stream = [s \in Streams |-> "new"] /\ routed = {}
  /\ shown = [s \in Streams |-> None] /\ typed = [h \in Streams |-> {}]

-----------------------------------------------------------------------------
(* kvm_relay_socket_ResetState: with closing, the pipe's broken handler is *)
(* removed and the connection closed.                                      *)
ForgetSocket == pipe' = None /\ owner' = None

CloseSocket ==
  /\ ForgetSocket
  /\ live' = live \ {pipe}
  /\ cut' = cut \ {pipe}
  /\ frames' = frames \ (live \cap {pipe})

(* mutant: the connection of the previous stream is not closed             *)
SetupKeepsPrevious(s, u) ==
  /\ setup = Idle /\ stream[s] = "new"
  /\ UNCHANGED <<pipe, owner, live, cut, frames>>
  /\ setup' = [of |-> s, uid |-> u, n |-> 0,
               at |-> IF u # LoginUid \/ sock[u] # "absent"
                        THEN IF u = LoginUid THEN "connect" ELSE "poll"
                        ELSE "fail"]
  /\ UNCHANGED <<sock, child, kids, stream, routed, shown, typed>>

(* kvm_relay_setup, the statements before the first wait.  The login       *)
(* window's socket is looked for only once.                                *)
Setup(s, u) ==
  /\ setup = Idle /\ stream[s] = "new"
  /\ CloseSocket
  /\ setup' = [of |-> s, uid |-> u, n |-> 0,
               at |-> IF u # LoginUid THEN "poll"
                      ELSE IF sock[u] = "absent" THEN "fail" ELSE "connect"]
  /\ UNCHANGED <<sock, child, kids, stream, routed, shown, typed>>

(* mutant: the polls are not counted                                       *)
PollForever ==
  /\ setup.at = "poll"
  /\ setup' = IF sock[setup.uid] = "absent" THEN setup
              ELSE [setup EXCEPT !.at = "connect", !.n = 0]
  /\ UNCHANGED <<sock, globals, live, kids, cut, frames, stream, routed, shown,
                 typed>>

Poll ==
  /\ setup.at = "poll"
  /\ setup' = IF sock[setup.uid] # "absent"
                THEN [setup EXCEPT !.at = "connect", !.n = 0]
              ELSE IF setup.n < Polls THEN [setup EXCEPT !.n = @ + 1]
              ELSE [setup EXCEPT !.at = "spawn"]
  /\ UNCHANGED <<sock, globals, live, kids, cut, frames, stream, routed, shown,
                 typed>>

Return(how) ==
  /\ setup' = Idle
  /\ stream' = [stream EXCEPT ![setup.of] = how]
  /\ routed' = IF how = "failed" THEN routed ELSE routed \cup {setup.of}

Connect ==
  /\ setup.at = "connect" /\ sock[setup.uid] = "up"
  /\ pipe' = setup.of /\ owner' = setup.of
  /\ live' = live \cup {setup.of}
  /\ Return("socket")
  /\ UNCHANGED <<sock, child, kids, cut, frames, shown, typed>>

(* mutant: retried for as long as the socket file exists                   *)
ConnectRetried ==
  /\ setup.at = "connect"
  /\ setup' = [setup EXCEPT !.n = @ + 1]
  /\ UNCHANGED <<sock, globals, live, kids, cut, frames, stream, routed, shown,
                 typed>>

(* refused, also by an agent whose backlog is full: back off and try again *)
ConnectRefused ==
  /\ setup.at = "connect"
  /\ setup' = IF setup.n + 1 < Attempts THEN [setup EXCEPT !.n = @ + 1]
              ELSE [setup EXCEPT !.at = "fail"]
  /\ UNCHANGED <<sock, globals, live, kids, cut, frames, stream, routed, shown,
                 typed>>

SetupFails ==
  /\ setup.at = "fail"
  /\ Return("failed")
  /\ UNCHANGED <<sock, globals, live, kids, cut, frames, shown, typed>>

(* the legacy child; one that runs already is forgotten, not killed        *)
Spawn ==
  /\ setup.at = "spawn"
  /\ child' = setup.of
  /\ kids' = kids \cup {setup.of}
  /\ Return("child")
  /\ UNCHANGED <<sock, pipe, owner, live, cut, frames, shown, typed>>

-----------------------------------------------------------------------------
(* The daemon's event loop, when no setup keeps it busy                    *)

(* kvm_relay_socket_ReadHandler: the frame goes to whatever stream the     *)
(* globals name, or is dropped                                             *)
ReadSocket(h) ==
  /\ setup = Idle /\ h \in live \cap frames
  /\ frames' = frames \ {h}
  /\ shown' = IF owner = None THEN shown ELSE [shown EXCEPT ![owner] = h]
  /\ UNCHANGED <<setup, sock, globals, live, kids, cut, stream, routed, typed>>

(* kvm_relay_StdOutHandler: the stream is the child's own                  *)
ReadChild(h) ==
  /\ setup = Idle /\ h \in kids \cap frames
  /\ frames' = frames \ {h}
  /\ shown' = [shown EXCEPT ![h] = h]
  /\ UNCHANGED <<setup, sock, globals, live, kids, cut, stream, routed, typed>>

(* the end of the connection: kvm_relay_socket_BrokenHandler               *)
Broken(h) ==
  /\ setup = Idle /\ h \in live \cap cut /\ h \notin frames
  /\ ForgetSocket
  /\ live' = live \ {h} /\ cut' = cut \ {h}
  /\ UNCHANGED <<setup, sock, child, kids, frames, stream, routed, shown, typed>>

(* kvm_relay_feeddata                                                      *)
Sink == IF pipe # None THEN pipe ELSE child

(* the stream's WriteSink                                                  *)
Input(s) ==
  /\ setup = Idle /\ stream[s] \in {"socket", "child"}
  /\ typed' = IF s \in routed /\ Sink # None
                THEN [typed EXCEPT ![Sink] = @ \cup {s}] ELSE typed
  /\ UNCHANGED <<setup, sock, globals, live, kids, cut, frames, stream, routed,
                 shown>>

(* mutants: the child's global, the socket's globals outlive the stream    *)
CleanupKeepsChild(s) ==
  /\ setup = Idle /\ stream[s] \notin {"new", "ended"}
  /\ stream' = [stream EXCEPT ![s] = "ended"]
  /\ CloseSocket
  /\ kids' = kids \ {child}
  /\ UNCHANGED <<setup, sock, child, routed, shown, typed>>
CleanupKeepsSocket(s) ==
  /\ setup = Idle /\ stream[s] \notin {"new", "ended"}
  /\ stream' = [stream EXCEPT ![s] = "ended"]
  /\ child' = None /\ kids' = kids \ {child}
  /\ UNCHANGED <<setup, sock, pipe, owner, live, cut, frames, routed, shown,
                 typed>>

(* kvm_cleanup, when any stream ends                                       *)
Cleanup(s) ==
  /\ setup = Idle /\ stream[s] \notin {"new", "ended"}
  /\ stream' = [stream EXCEPT ![s] = "ended"]
  /\ CloseSocket
  /\ child' = None /\ kids' = kids \ {child}
  /\ UNCHANGED <<setup, sock, routed, shown, typed>>

Daemon ==
  \/ Poll \/ Connect \/ ConnectRefused \/ SetupFails \/ Spawn
  \/ \E h \in Streams : ReadSocket(h) \/ ReadChild(h) \/ Broken(h)

-----------------------------------------------------------------------------
(* The server, the agents and launchd                                      *)

AgentSends(h) ==
  /\ h \in (live \ cut) \cup kids /\ h \notin frames
  /\ frames' = frames \cup {h}
  /\ UNCHANGED <<setup, sock, globals, live, kids, cut, stream, routed, shown,
                 typed>>

(* an agent ends the connection: it exits or another daemon took over      *)
AgentCloses(h) ==
  /\ h \in live \ cut
  /\ cut' = cut \cup {h}
  /\ UNCHANGED <<setup, sock, globals, live, kids, frames, stream, routed,
                 shown, typed>>

(* an agent exits, which leaves its socket file, or starts                 *)
SocketChanges(u) ==
  /\ sock' \in {[sock EXCEPT ![u] = x] : x \in {"dead", "up"}}
  /\ UNCHANGED <<setup, globals, live, kids, cut, frames, stream, routed, shown,
                 typed>>

ChildExits(h) ==
  /\ h \in kids /\ h \notin frames
  /\ kids' = kids \ {h}
  /\ UNCHANGED <<setup, sock, globals, live, cut, frames, stream, routed, shown,
                 typed>>

Next ==
  \/ Daemon
  \/ \E s \in Streams, u \in Uids \cup {LoginUid} : Setup(s, u)
  \/ \E s \in Streams : Input(s) \/ Cleanup(s)
  \/ \E h \in Streams : AgentSends(h) \/ AgentCloses(h) \/ ChildExits(h)
  \/ \E u \in Uids \cup {LoginUid} : SocketChanges(u)

Spec == Init /\ [][Next]_vars
FairSpec == Spec /\ WF_vars(Daemon)

-----------------------------------------------------------------------------
TypeOK ==
  /\ setup \in [of : Streams \cup {None}, uid : Uids \cup {LoginUid},
                at : {"idle", "poll", "connect", "spawn", "fail"},
                n : 0..(Attempts + Polls)]
  /\ sock \in [Uids \cup {LoginUid} -> {"absent", "dead", "up"}]
  /\ {pipe, owner, child} \subseteq Streams \cup {None}
  /\ UNION {live, kids, cut, frames, routed} \subseteq Streams
  /\ stream \in [Streams -> {"new", "socket", "child", "failed", "ended"}]
  /\ shown \in [Streams -> Streams \cup {None}]
  /\ typed \in [Streams -> SUBSET Streams]

(* The daemon holds one connection to an agent, the one that the globals   *)
(* name: a new Desktop stream, a broken connection and the end of a stream *)
(* leak none (ResetState, and its comment in kvm_relay_setup).             *)
OneConnection == live \subseteq {pipe}

(* A frame is written to the stream whose helper sent it, and while that   *)
(* stream is open; the child of a stream may outlive it.                   *)
OwnPicture ==
  [][\A s \in Streams : shown'[s] # shown[s] =>
       /\ shown'[s] = s
       /\ stream[s] # "ended" \/ s \in kids]_vars

(* Input reaches no helper of a stream that has ended, also when several   *)
(* streams, and children of theirs, came and went.                         *)
InputServed ==
  [][\A h \in Streams : typed'[h] # typed[h] => stream[h] # "ended"]_vars

(* A setup does not keep the daemon's thread for ever: it returns, however *)
(* the agents come and go meanwhile.                                       *)
SetupReturns == (setup # Idle) ~> (setup = Idle)
=============================================================================
