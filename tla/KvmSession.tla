----------------------------- MODULE KvmSession -----------------------------
(***************************************************************************)
(* One process of the macOS KVM agent started with -kvmagent: the thread   *)
(* that runs kvm_server_mainloop (captures the screen and sends tiles) and *)
(* the thread that runs kvm_mainloopinput (reads the viewer's frames and   *)
(* evicts a stale connection), the message queue and the globals they      *)
(* share without a lock (KVM_AGENT_FD, g_resetipc, g_shutdown,             *)
(* SCREEN_WIDTH/HEIGHT, the tile cache), the listening socket and its      *)
(* peers.                                                                  *)
(*                                                                         *)
(* A step is what one thread does between two points where the other one   *)
(* can be observed: a blocking call, a write of a shared variable that the *)
(* other thread tests, a lock.  A frame is abstracted to two chunks (its   *)
(* header and its body), so that a read can end in the middle of it.       *)
(***************************************************************************)
EXTENDS Naturals, Sequences, FiniteSets

CONSTANTS
  Conns,      \* connections a daemon may open to the agent's socket
  Geoms,      \* frame sizes a connected display may have
  Zero,       \* SCREEN_WIDTH = SCREEN_HEIGHT = 0; also: there is no display
  None,       \* no connection, no image, no resolution
  NTiles,     \* tiles of a frame
  Kinds,      \* kinds of frame the viewers send, a subset of AllKinds
  MaxFrames,  \* bound: frames one viewer sends
  Room,       \* messages a peer's socket buffer takes before a write blocks
  Backlog     \* listen(KVM_Listener_FD, 1)

AllKinds == {"refresh", "query", "modifier", "select", "other"}

ASSUME SessionAssumption ==
  /\ None \notin Conns \cup Geoms \cup {Zero}
  /\ Zero \notin Geoms
  /\ NTiles \in Nat \ {0}
  /\ Kinds \subseteq AllKinds
  /\ MaxFrames \in Nat
  /\ Room \in Nat \ {0}
  /\ Backlog \in Nat \ {0}

VARIABLES
  mpc,        \* where kvm_server_mainloop is
  ipc,        \* where kvm_mainloopinput is ("none": no thread created yet)
  agentfd,    \* KVM_AGENT_FD
  resetipc,   \* g_resetipc
  shutdown,   \* g_shutdown
  screen,     \* SCREEN_WIDTH x SCREEN_HEIGHT
  disp,       \* the size of the selected display, as the OS reports it
  img,        \* the captured image
  dirty,      \* tiles whose cached crc does not match what was sent
  tix,        \* the next tile of the tile loop
  queue,      \* g_messageQ
  msg,        \* the message or tile main is writing
  tgt,        \* the descriptor that KVM_SEND evaluated
  imsg,       \* the message the input thread has built
  ibuf,       \* pchRequest2[ptr..len-1]
  held,       \* the viewer whose modifier key-down is latched in g_modFlags
  conn,       \* state of each connection
  backlog,    \* connections waiting in the listener's queue
  gone,       \* connections whose peer has closed its end
  inbox,      \* chunks sent and not yet read
  sent,       \* number of chunks each peer has sent
  room,       \* messages each peer's buffer can still take
  told,       \* the last resolution delivered to each viewer
  has         \* tiles delivered to each viewer since the tile cache was reset

mainVars == <<mpc, img, tix, msg, tgt>>
readerVars == <<ipc, imsg, ibuf, held>>
peerVars == <<gone, inbox, sent, room>>
viewVars == <<told, has>>
vars == <<mainVars, readerVars, agentfd, resetipc, shutdown, screen, disp,
          dirty, queue, conn, backlog, peerVars, viewVars>>

-----------------------------------------------------------------------------
Tiles == 1..NTiles
Sizes == Geoms \cup {Zero}
Message == [type: {"screen", "displays", "keystate", "debug"}, size: Sizes]
Chunk == [from: Conns, kind: Kinds \cup {"body"}]

MainPC == {"accept", "size", "resolution", "displays", "tileinfo", "spawn",
           "top", "reaccept", "lock", "drain", "sendmsg", "check", "capture",
           "compare", "buffer", "tiles", "sendtile", "join"}
ReaderPC == {"none", "loop", "poll", "evict", "parse", "enqueue", "crc", "gone"}

(* main holds the queue's lock from ILibQueue_Lock to ILibQueue_UnLock, the *)
(* writes to the viewer included                                           *)
QueueLocked == mpc \in {"drain", "sendmsg"}
Reading == ipc \notin {"none", "gone"}
InInit == mpc \in {"size", "resolution", "displays", "tileinfo"}

Screen(s) == [type |-> "screen", size |-> s]
Plain(t) == [type |-> t, size |-> Zero]

Init ==
  /\ mpc = "accept" /\ ipc = "none"
  /\ agentfd = None /\ resetipc = FALSE /\ shutdown = FALSE
  /\ screen = Zero /\ disp \in Geoms /\ img = None
  /\ dirty = {} /\ tix = 1
  /\ queue = <<>> /\ msg = None /\ tgt = None /\ imsg = None
  /\ ibuf = <<>> /\ held = None
  /\ conn = [c \in Conns |-> "new"] /\ backlog = <<>> /\ gone = {}
  /\ inbox = [c \in Conns |-> <<>>] /\ sent = [c \in Conns |-> 0]
  /\ room = [c \in Conns |-> Room]
  /\ told = [c \in Conns |-> None] /\ has = [c \in Conns |-> {}]

(* close(c): what the connection still held, in either direction, is lost  *)
Close(c) ==
  /\ inbox' = [inbox EXCEPT ![c] = <<>>]
  /\ sent' = [sent EXCEPT ![c] = 0]
  /\ room' = [room EXCEPT ![c] = Room]
  /\ told' = [told EXCEPT ![c] = None]
  /\ has' = [has EXCEPT ![c] = {}]
  /\ gone' = gone \ {c}

-----------------------------------------------------------------------------
(* kvm_server_mainloop: the first connection and kvm_init                  *)

(* accept() hands over the oldest connection of the listener's queue       *)
TakeConnection ==
  /\ backlog # <<>>
  /\ agentfd' = Head(backlog)
  /\ backlog' = Tail(backlog)

Accept ==
  /\ mpc = "accept"
  /\ TakeConnection
  /\ conn' = [conn EXCEPT ![Head(backlog)] = "open"]
  /\ mpc' = "size"
  /\ UNCHANGED <<img, tix, msg, tgt, readerVars, resetipc, shutdown, screen,
                 disp, dirty, queue, peerVars, viewVars>>

(* kvm_init, as far as the assignment of SCREEN_HEIGHT and SCREEN_WIDTH    *)
InitSize ==
  /\ mpc = "size"
  /\ screen' = disp
  /\ mpc' = "resolution"
  /\ UNCHANGED <<img, tix, msg, tgt, readerVars, agentfd, resetipc, shutdown,
                 disp, dirty, queue, conn, backlog, peerVars, viewVars>>

(* kvm_send_resolution reads the shared size again                         *)
InitResolution ==
  /\ mpc = "resolution"
  /\ queue' = Append(queue, Screen(screen))
  /\ mpc' = "displays"
  /\ UNCHANGED <<img, tix, msg, tgt, readerVars, agentfd, resetipc, shutdown,
                 screen, disp, dirty, conn, backlog, peerVars, viewVars>>

InitDisplays ==
  /\ mpc = "displays"
  /\ queue' = Append(queue, Plain("displays"))
  /\ mpc' = "tileinfo"
  /\ UNCHANGED <<img, tix, msg, tgt, readerVars, agentfd, resetipc, shutdown,
                 screen, disp, dirty, conn, backlog, peerVars, viewVars>>

(* reset_tile_info: no tile is cached any more; then the key state         *)
InitTiles ==
  /\ mpc = "tileinfo"
  /\ dirty' = Tiles
  /\ has' = [c \in Conns |-> {}]
  /\ queue' = Append(queue, Plain("keystate"))
  /\ mpc' = IF ipc = "none" THEN "spawn" ELSE "top"
  /\ UNCHANGED <<img, tix, msg, tgt, readerVars, agentfd, resetipc, shutdown,
                 screen, disp, conn, backlog, peerVars, told>>

SpawnReader ==
  /\ mpc = "spawn"
  /\ shutdown' = FALSE
  /\ ipc' = "loop" /\ ibuf' = <<>>
  /\ mpc' = "top"
  /\ UNCHANGED <<img, tix, msg, tgt, imsg, held, agentfd, resetipc, screen,
                 disp, dirty, queue, conn, backlog, peerVars, viewVars>>

-----------------------------------------------------------------------------
(* kvm_server_mainloop: the top of the loop                                *)

LoopTop ==
  /\ mpc = "top"
  /\ shutdown \/ ~resetipc
  /\ mpc' = IF shutdown THEN "join" ELSE "lock"
  /\ UNCHANGED <<img, tix, msg, tgt, readerVars, agentfd, resetipc, shutdown,
                 screen, disp, dirty, queue, conn, backlog, peerVars, viewVars>>

(* mutants: the old descriptor is leaked; the geometry is kept             *)
ResetLeaksDescriptor ==
  /\ mpc = "top" /\ ~shutdown /\ resetipc
  /\ resetipc' = FALSE
  /\ screen' = Zero
  /\ mpc' = "reaccept"
  /\ UNCHANGED <<img, tix, msg, tgt, readerVars, agentfd, shutdown, disp,
                 dirty, queue, conn, backlog, peerVars, viewVars>>
ResetKeepsSize ==
  /\ mpc = "top" /\ ~shutdown /\ resetipc
  /\ resetipc' = FALSE
  /\ conn' = [conn EXCEPT ![agentfd] = "closed"]
  /\ Close(agentfd)
  /\ mpc' = "reaccept"
  /\ UNCHANGED <<img, tix, msg, tgt, readerVars, agentfd, shutdown, disp,
                 screen, dirty, queue, backlog>>

(* The viewer's end was closed: close ours and wait for the next one.      *)
(* kvm_reset_modifiers is not called on this path.                         *)
Reset ==
  /\ mpc = "top" /\ ~shutdown /\ resetipc
  /\ resetipc' = FALSE
  /\ conn' = [conn EXCEPT ![agentfd] = "closed"]
  /\ Close(agentfd)
  /\ screen' = Zero
  /\ mpc' = "reaccept"
  /\ UNCHANGED <<img, tix, msg, tgt, readerVars, agentfd, shutdown, disp,
                 dirty, queue, backlog>>

Reaccept ==
  /\ mpc = "reaccept"
  /\ TakeConnection
  /\ conn' = [conn EXCEPT ![Head(backlog)] = "open"]
  /\ ipc' = "loop" /\ ibuf' = <<>>
  /\ mpc' = "lock"
  /\ UNCHANGED <<img, tix, msg, tgt, imsg, held, resetipc, shutdown, screen,
                 disp, dirty, queue, peerVars, viewVars>>

ReacceptFails ==
  /\ mpc = "reaccept"
  /\ agentfd' = None
  /\ shutdown' = TRUE
  /\ mpc' = "join"
  /\ UNCHANGED <<img, tix, msg, tgt, readerVars, resetipc, screen, disp,
                 dirty, queue, conn, backlog, peerVars, viewVars>>

(* ILibQueue_Lock: the input thread holds it only inside Enqueue           *)
LockQueue ==
  /\ mpc = "lock"
  /\ mpc' = "drain"
  /\ UNCHANGED <<img, tix, msg, tgt, readerVars, agentfd, resetipc, shutdown,
                 screen, disp, dirty, queue, conn, backlog, peerVars, viewVars>>

(* KVM_SEND evaluates KVM_AGENT_FD, then blocks in write                   *)
Drain ==
  /\ mpc = "drain"
  /\ IF queue = <<>>
       THEN mpc' = "check" /\ UNCHANGED <<queue, msg, tgt>>
       ELSE /\ msg' = Head(queue) /\ queue' = Tail(queue)
            /\ tgt' = agentfd
            /\ mpc' = "sendmsg"
  /\ UNCHANGED <<img, tix, readerVars, agentfd, resetipc, shutdown, screen,
                 disp, dirty, conn, backlog, peerVars, viewVars>>

(* A write fails on a descriptor that was closed here or whose peer has    *)
(* gone; otherwise it waits for room in the peer's buffer.                 *)
WriteFails(c) == c = None \/ conn[c] # "open" \/ c \in gone
(* mutant: a full buffer does not hold the write up                        *)
WriteOverruns(c) ==
  \/ WriteFails(c) /\ UNCHANGED room
  \/ ~WriteFails(c) /\ room' = [room EXCEPT ![c] = @ - 1]
WriteDone(c) ==
  \/ WriteFails(c) /\ UNCHANGED room
  \/ /\ ~WriteFails(c) /\ room[c] > 0
     /\ room' = [room EXCEPT ![c] = @ - 1]

SendMessage ==
  /\ mpc = "sendmsg"
  /\ WriteDone(tgt)
  /\ told' = IF ~WriteFails(tgt) /\ msg.type = "screen"
               THEN [told EXCEPT ![tgt] = msg.size] ELSE told
  /\ msg' = None /\ tgt' = None
  /\ mpc' = "drain"
  /\ UNCHANGED <<img, tix, readerVars, agentfd, resetipc, shutdown, screen,
                 disp, dirty, queue, conn, backlog, gone, inbox, sent, has>>

-----------------------------------------------------------------------------
(* kvm_server_mainloop: one frame                                          *)

NoDisplay ==
  /\ mpc = "check" /\ disp = Zero
  /\ shutdown' = TRUE
  /\ queue' = Append(queue, Plain("debug"))
  /\ mpc' = "join"
  /\ UNCHANGED <<img, tix, msg, tgt, readerVars, agentfd, resetipc, screen,
                 disp, dirty, conn, backlog, peerVars, viewVars>>

SizeCheck ==
  /\ mpc = "check" /\ disp # Zero
  /\ mpc' = IF screen = disp THEN "capture" ELSE "size"
  /\ UNCHANGED <<img, tix, msg, tgt, readerVars, agentfd, resetipc, shutdown,
                 screen, disp, dirty, queue, conn, backlog, peerVars, viewVars>>

(* The chain of capture interfaces ends with an image of some size, or     *)
(* with none: sleep and try again                                          *)
CaptureGives(i) ==
  /\ mpc = "capture"
  /\ img' = i
  /\ mpc' = IF i = None THEN "top" ELSE "compare"
  /\ UNCHANGED <<tix, msg, tgt, readerVars, agentfd, resetipc, shutdown,
                 screen, disp, dirty, queue, conn, backlog, peerVars, viewVars>>
Capture == \E i \in Geoms \cup {None} : CaptureGives(i)
GoodCapture == CaptureGives(disp) /\ disp # Zero

(* an image of another size than the frame is dropped                      *)
CompareImage ==
  /\ mpc = "compare"
  /\ IF img = screen THEN mpc' = "buffer" /\ UNCHANGED img
                     ELSE mpc' = "top" /\ img' = None
  /\ UNCHANGED <<tix, msg, tgt, readerVars, agentfd, resetipc, shutdown,
                 screen, disp, dirty, queue, conn, backlog, peerVars, viewVars>>

(* getScreenBuffer reads SCREEN_WIDTH and SCREEN_HEIGHT once more          *)
ScreenBuffer ==
  /\ mpc = "buffer"
  /\ tix' = 1
  /\ mpc' = "tiles"
  /\ UNCHANGED <<img, msg, tgt, readerVars, agentfd, resetipc, shutdown,
                 screen, disp, dirty, queue, conn, backlog, peerVars, viewVars>>

(* the next tile that changed is cached as sent, then written              *)
NextTile ==
  /\ mpc = "tiles" /\ ~shutdown
  /\ \E t \in dirty :
       /\ t >= tix
       /\ \A u \in dirty : u >= tix => u >= t
       /\ tix' = t
       /\ dirty' = dirty \ {t}
  /\ tgt' = agentfd
  /\ mpc' = "sendtile"
  /\ UNCHANGED <<img, msg, readerVars, agentfd, resetipc, shutdown, screen,
                 disp, queue, conn, backlog, peerVars, viewVars>>

SendTile ==
  /\ mpc = "sendtile"
  /\ WriteDone(tgt)
  /\ has' = IF WriteFails(tgt) THEN has
              ELSE [has EXCEPT ![tgt] = @ \cup {tix}]
  /\ shutdown' = (shutdown \/ (WriteFails(tgt) /\ agentfd = None))
  /\ tgt' = None
  /\ tix' = tix + 1
  /\ mpc' = "tiles"
  /\ UNCHANGED <<img, msg, readerVars, agentfd, resetipc, screen, disp, dirty,
                 queue, conn, backlog, gone, inbox, sent, told>>

EndFrame ==
  /\ mpc = "tiles"
  /\ shutdown \/ \A t \in dirty : t < tix
  /\ img' = None /\ tix' = 1
  /\ mpc' = "top"
  /\ UNCHANGED <<msg, tgt, readerVars, agentfd, resetipc, shutdown, screen,
                 disp, dirty, queue, conn, backlog, peerVars, viewVars>>

(* What is left when the process ends: the kernel closes every connection, *)
(* and launchd starts the program again, which binds a new socket.         *)
Restart ==
  /\ mpc' = "accept" /\ ipc' = "none"
  /\ agentfd' = None /\ resetipc' = FALSE /\ shutdown' = FALSE
  /\ screen' = Zero /\ img' = None /\ dirty' = {} /\ tix' = 1
  /\ queue' = <<>> /\ msg' = None /\ tgt' = None /\ imsg' = None
  /\ ibuf' = <<>> /\ held' = None
  /\ conn' = [c \in Conns |-> IF conn[c] = "new" THEN "new" ELSE "closed"]
  /\ backlog' = <<>> /\ gone' = {}
  /\ inbox' = [c \in Conns |-> <<>>] /\ sent' = [c \in Conns |-> 0]
  /\ room' = [c \in Conns |-> Room]
  /\ told' = [c \in Conns |-> None] /\ has' = [c \in Conns |-> {}]
  /\ UNCHANGED disp

(* pthread_join, then the process returns 1                                *)
Join == mpc = "join" /\ ipc \in {"none", "gone"} /\ Restart

(* SIGTERM (ExitSink), a failed first accept, SIGPIPE, a crash             *)
Die == Restart

Main ==
  \/ Accept \/ InitSize \/ InitResolution \/ InitDisplays \/ InitTiles
  \/ SpawnReader \/ LoopTop \/ Reset \/ Reaccept
  \/ LockQueue \/ Drain \/ SendMessage \/ NoDisplay \/ SizeCheck \/ Capture
  \/ CompareImage \/ ScreenBuffer \/ NextTile \/ SendTile \/ EndFrame \/ Join

-----------------------------------------------------------------------------
(* kvm_mainloopinput                                                       *)

(* mutant: the loop does not test g_shutdown                               *)
ReaderLoopForever ==
  /\ ipc = "loop"
  /\ ipc' = "poll"
  /\ UNCHANGED <<mainVars, imsg, ibuf, held, agentfd, resetipc, shutdown,
                 screen, disp, dirty, queue, conn, backlog, peerVars, viewVars>>

ReaderLoop ==
  /\ ipc = "loop"
  /\ ipc' = IF shutdown THEN "gone" ELSE "poll"
  /\ UNCHANGED <<mainVars, imsg, ibuf, held, agentfd, resetipc, shutdown,
                 screen, disp, dirty, queue, conn, backlog, peerVars, viewVars>>

(* mutant: the stale descriptor is leaked                                  *)
EvictLeaksDescriptor ==
  /\ ipc = "poll"
  /\ TakeConnection
  /\ conn' = [conn EXCEPT ![Head(backlog)] = "open"]
  /\ held' = None
  /\ ipc' = "evict"
  /\ UNCHANGED <<mainVars, imsg, ibuf, resetipc, shutdown, screen, disp,
                 dirty, queue, peerVars, viewVars>>

(* The listener is readable: last connect wins.  The descriptors are       *)
(* exchanged here; the geometry and the partial buffer are cleared after.  *)
Evict ==
  /\ ipc = "poll"
  /\ TakeConnection
  /\ conn' = [conn EXCEPT ![agentfd] = "closed", ![Head(backlog)] = "open"]
  /\ Close(agentfd)
  /\ held' = None
  /\ ipc' = "evict"
  /\ UNCHANGED <<mainVars, imsg, ibuf, resetipc, shutdown, screen, disp,
                 dirty, queue>>

(* mutants: the partial frame is kept; the geometry is kept                *)
EvictKeepsPartialFrame ==
  /\ ipc = "evict"
  /\ screen' = Zero
  /\ ipc' = "loop"
  /\ UNCHANGED <<mainVars, imsg, ibuf, held, agentfd, resetipc, shutdown, disp,
                 dirty, queue, conn, backlog, peerVars, viewVars>>
EvictKeepsSize ==
  /\ ipc = "evict"
  /\ ibuf' = <<>>
  /\ ipc' = "loop"
  /\ UNCHANGED <<mainVars, imsg, held, agentfd, resetipc, shutdown, screen,
                 disp, dirty, queue, conn, backlog, peerVars, viewVars>>

EvictReinit ==
  /\ ipc = "evict"
  /\ screen' = Zero
  /\ ibuf' = <<>>
  /\ ipc' = "loop"
  /\ UNCHANGED <<mainVars, imsg, held, agentfd, resetipc, shutdown, disp,
                 dirty, queue, conn, backlog, peerVars, viewVars>>

Read ==
  /\ ipc = "poll" /\ backlog = <<>>
  /\ inbox[agentfd] # <<>>
  /\ ibuf' = ibuf \o inbox[agentfd]
  /\ inbox' = [inbox EXCEPT ![agentfd] = <<>>]
  /\ ipc' = "parse"
  /\ UNCHANGED <<mainVars, imsg, held, agentfd, resetipc, shutdown, screen,
                 disp, dirty, queue, conn, backlog, gone, sent, room, viewVars>>

(* mutants: the loop goes on after the end of file; main is not told       *)
ReadEofContinues ==
  /\ ipc = "poll" /\ backlog = <<>>
  /\ inbox[agentfd] = <<>> /\ agentfd \in gone
  /\ resetipc' = TRUE
  /\ ipc' = "loop"
  /\ UNCHANGED <<mainVars, imsg, ibuf, held, agentfd, shutdown, screen, disp,
                 dirty, queue, conn, backlog, peerVars, viewVars>>
ReadEofUntold ==
  /\ ipc = "poll" /\ backlog = <<>>
  /\ inbox[agentfd] = <<>> /\ agentfd \in gone
  /\ ipc' = "gone"
  /\ UNCHANGED <<mainVars, imsg, ibuf, held, agentfd, resetipc, shutdown,
                 screen, disp, dirty, queue, conn, backlog, peerVars, viewVars>>

ReadEof ==
  /\ ipc = "poll" /\ backlog = <<>>
  /\ inbox[agentfd] = <<>> /\ agentfd \in gone
  /\ resetipc' = TRUE
  /\ ipc' = "gone"
  /\ UNCHANGED <<mainVars, imsg, ibuf, held, agentfd, shutdown, screen, disp,
                 dirty, queue, conn, backlog, peerVars, viewVars>>

(* kvm_server_inputdata consumes whole frames; a partial one is kept       *)
ParseEnd ==
  /\ ipc = "parse" /\ Len(ibuf) < 2
  /\ ipc' = "loop"
  /\ UNCHANGED <<mainVars, imsg, ibuf, held, agentfd, resetipc, shutdown,
                 screen, disp, dirty, queue, conn, backlog, peerVars, viewVars>>

TakeFrame(k) ==
  /\ ipc = "parse" /\ Len(ibuf) >= 2
  /\ ibuf[1].kind = k
  /\ ibuf' = Tail(Tail(ibuf))
  /\ UNCHANGED <<mainVars, agentfd, resetipc, shutdown, screen, dirty, queue,
                 conn, backlog, peerVars, viewVars>>

(* MNG_KVM_REFRESH: the resolution message is built from the shared size   *)
FrameRefresh ==
  /\ TakeFrame("refresh")
  /\ imsg' = Screen(screen)
  /\ ipc' = "enqueue"
  /\ UNCHANGED <<held, disp>>

(* MNG_KVM_GET_DISPLAYS, and the key state a lock key's release answers    *)
FrameQuery ==
  /\ TakeFrame("query")
  /\ imsg' = Plain("displays")
  /\ ipc' = "enqueue"
  /\ UNCHANGED <<held, disp>>

(* MNG_KVM_KEY, the press of a modifier                                    *)
FrameModifier ==
  /\ TakeFrame("modifier")
  /\ held' = agentfd
  /\ UNCHANGED <<ipc, imsg, disp>>

(* MNG_KVM_SET_DISPLAY: another display, or the same one, is selected      *)
FrameSelect ==
  /\ TakeFrame("select")
  /\ disp' \in IF disp = Zero THEN {Zero} ELSE Geoms
  /\ UNCHANGED <<ipc, imsg, held>>

(* frames that change nothing modelled here, and what the switch ignores   *)
FrameOther ==
  /\ TakeFrame("other")
  /\ UNCHANGED <<ipc, imsg, held, disp>>

Enqueue ==
  /\ ipc = "enqueue" /\ ~QueueLocked
  /\ queue' = Append(queue, imsg)
  /\ imsg' = None
  /\ ipc' = IF imsg.type = "screen" THEN "crc" ELSE "parse"
  /\ UNCHANGED <<mainVars, ibuf, held, agentfd, resetipc, shutdown, screen,
                 disp, dirty, conn, backlog, peerVars, viewVars>>

(* the rest of MNG_KVM_REFRESH: every tile is to be sent again             *)
RefreshTiles ==
  /\ ipc = "crc"
  /\ dirty' = Tiles
  /\ ipc' = "parse"
  /\ UNCHANGED <<mainVars, imsg, ibuf, held, agentfd, resetipc, shutdown,
                 screen, disp, queue, conn, backlog, peerVars, viewVars>>

Reader ==
  \/ ReaderLoop \/ Evict \/ EvictReinit \/ Read \/ ReadEof \/ ParseEnd
  \/ FrameRefresh \/ FrameQuery \/ FrameModifier \/ FrameSelect \/ FrameOther
  \/ Enqueue \/ RefreshTiles

-----------------------------------------------------------------------------
(* The daemon's end of each connection, and the display                    *)

agentVars == <<mainVars, readerVars, agentfd, resetipc, shutdown, screen,
               dirty, queue, viewVars>>

Connect(c) ==
  /\ conn[c] = "new" /\ Len(backlog) < Backlog
  /\ conn' = [conn EXCEPT ![c] = "pending"]
  /\ backlog' = Append(backlog, c)
  /\ UNCHANGED <<agentVars, disp, peerVars>>

SendChunk(c) ==
  /\ conn[c] \in {"pending", "open"} /\ c \notin gone
  /\ sent[c] < 2 * MaxFrames
  /\ \E k \in (IF sent[c] % 2 = 0 THEN Kinds ELSE {"body"}) :
       inbox' = [inbox EXCEPT ![c] = Append(@, [from |-> c, kind |-> k])]
  /\ sent' = [sent EXCEPT ![c] = @ + 1]
  /\ UNCHANGED <<agentVars, disp, conn, backlog, gone, room>>

PeerReads(c) ==
  /\ conn[c] = "open" /\ c \notin gone /\ room[c] < Room
  /\ room' = [room EXCEPT ![c] = @ + 1]
  /\ UNCHANGED <<agentVars, disp, conn, backlog, gone, inbox, sent>>

PeerCloses(c) ==
  /\ conn[c] \in {"pending", "open"} /\ c \notin gone
  /\ gone' = gone \cup {c}
  /\ UNCHANGED <<agentVars, disp, conn, backlog, inbox, sent, room>>

DisplayChanges ==
  /\ disp' \in Sizes \ {disp}
  /\ UNCHANGED <<agentVars, conn, backlog, peerVars>>

Peer == \E c \in Conns :
  Connect(c) \/ SendChunk(c) \/ PeerReads(c) \/ PeerCloses(c)

Next == Main \/ ReacceptFails \/ Reader \/ Peer \/ DisplayChanges \/ Die

Spec == Init /\ [][Next]_vars

(* Both threads keep running.  The queue's lock is handed over while main  *)
(* sleeps or captures between two drains, so a waiting Enqueue is not      *)
(* starved.  Nothing is assumed of the viewers, the display or accept.     *)
ThreadFairness ==
  /\ WF_vars(Main)
  /\ WF_vars(Reader)
  /\ SF_vars(Enqueue)

FairSpec == Spec /\ ThreadFairness

(* The daemon's end goes on reading what the agent writes to it            *)
ReadingPeers == \A c \in Conns : WF_vars(PeerReads(c))

(* Capturing works again and again                                         *)
WorkingCapture == SF_vars(GoodCapture)

PaintedSpec == FairSpec /\ ReadingPeers /\ WorkingCapture

-----------------------------------------------------------------------------
TypeThreads ==
  /\ mpc \in MainPC /\ ipc \in ReaderPC
  /\ agentfd \in Conns \cup {None}
  /\ resetipc \in BOOLEAN /\ shutdown \in BOOLEAN
  /\ tgt \in Conns \cup {None} /\ held \in Conns \cup {None}
TypeFrame ==
  /\ screen \in Sizes /\ disp \in Sizes /\ img \in Geoms \cup {None}
  /\ dirty \subseteq Tiles /\ tix \in 1..(NTiles + 1)
TypeMessages ==
  /\ queue \in Seq(Message)
  /\ msg \in Message \cup {None} /\ imsg \in Message \cup {None}
  /\ ibuf \in Seq(Chunk)
  /\ inbox \in [Conns -> Seq(Chunk)]
TypePeers ==
  /\ conn \in [Conns -> {"new", "pending", "open", "closed"}]
  /\ backlog \in Seq(Conns) /\ gone \subseteq Conns
  /\ sent \in [Conns -> Nat] /\ room \in [Conns -> 0..Room]
  /\ told \in [Conns -> Sizes \cup {None}]
  /\ has \in [Conns -> SUBSET Tiles]
TypeOK == TypeThreads /\ TypeFrame /\ TypeMessages /\ TypePeers

(* At most one connection is open, it is the one in KVM_AGENT_FD, and the  *)
(* input thread, which polls and reads KVM_AGENT_FD without a lock, never  *)
(* does so on a descriptor that main or an eviction has closed.            *)
OneViewer ==
  /\ \A c \in Conns : conn[c] = "open" => c = agentfd
  /\ Reading \/ InInit => agentfd # None /\ conn[agentfd] = "open"

(* When main sees g_resetipc, the input thread that set it has left its    *)
(* loop and KVM_AGENT_FD is still open: main's unlocked close() closes the *)
(* connection whose end was read, exactly once, and the new input thread   *)
(* does not run beside the old one.                                        *)
ResetOwnsDescriptor ==
  /\ resetipc => ipc = "gone" /\ agentfd # None /\ conn[agentfd] = "open"
  /\ mpc = "reaccept" => ipc = "gone" /\ \A c \in Conns : conn[c] # "open"

(* A frame is parsed only from the bytes of the viewer being served, and   *)
(* from its start: eviction in the middle of a frame neither lets the new  *)
(* viewer's bytes finish it nor loses the alignment of the new stream.     *)
FramesWhole ==
  ipc = "parse" =>
    \A i \in 1..Len(ibuf) :
      /\ ibuf[i].from = agentfd
      /\ (ibuf[i].kind = "body") <=> (i % 2 = 0)

(* Tiles are sent only once: a tile whose crc is cached has reached the    *)
(* viewer now served, or is on its way to it, or a reinitialisation that   *)
(* forgets every crc is still to come, whatever was lost on the            *)
(* connection it was written to.                                           *)
ReinitPending ==
  \/ screen = Zero \/ InInit \/ ipc = "evict"
  \/ resetipc \/ mpc = "reaccept" \/ agentfd \in gone
CachedTileDelivered ==
  (agentfd # None /\ conn[agentfd] = "open" /\ ~ReinitPending) =>
    \A t \in Tiles :
      t \in dirty \/ t \in has[agentfd]
                 \/ (mpc = "sendtile" /\ tix = t /\ tgt = agentfd)

(* Two comments of the code that it does not keep (README, Disagreements); *)
(* no run checks them.  getScreenBuffer is never handed an image that      *)
(* disagrees with the geometry the frame was sized for.                    *)
ImageMatchesFrame == mpc = "buffer" => img = screen

(* A modifier held by one viewer is not latched while another is served.   *)
NoForeignModifier == Reading /\ ipc # "evict" => held \in {None, agentfd}

(* Last connect wins: a new connection is not left waiting in the          *)
(* listener's queue by the one being served.  A state in which it waits is *)
(* followed by one in which it does not: it never waits for ever.          *)
LastConnectWins == \A c \in Conns : []<>(conn[c] # "pending")

(* A viewer that stays, in front of a display that stays, ends up with a   *)
(* whole picture of it.                                                    *)
Watching(c, g) ==
  agentfd = c /\ conn[c] = "open" /\ c \notin gone /\ disp = g /\ ~shutdown
Repainted ==
  \A c \in Conns, g \in Geoms :
    <>[]Watching(c, g) => <>[](screen = g /\ has[c] = Tiles)

(* ... and the last resolution it was told is that display's: the comment  *)
(* at MNG_KVM_SET_DISPLAY, which the code does not keep when a REFRESH     *)
(* queues its own message behind that of kvm_init (session_told).          *)
ToldResolution ==
  \A c \in Conns, g \in Geoms : <>[]Watching(c, g) => <>[](told[c] = g)

(* After g_shutdown the join waits for an input thread that blocks in poll *)
(* without a timeout; the next connection releases it and the process      *)
(* restarts.                                                               *)
ShutdownReleased ==
  (mpc = "join" /\ backlog # <<>>) ~> (mpc = "accept")

(* The session is one slot that the latest connection takes over           *)
Slot == INSTANCE ViewerSlot
          WITH Conns <- Conns, Backlog <- Backlog, conn <- conn, backlog <- backlog
ServesOneSlot == Slot!SlotSpec
=============================================================================
