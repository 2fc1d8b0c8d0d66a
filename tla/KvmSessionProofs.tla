-------------------------- MODULE KvmSessionProofs --------------------------
(***************************************************************************)
(* Theorems about KvmSession, for every set of connections, every set of   *)
(* display sizes and every bound.                                          *)
(*                                                                         *)
(* Each layer is an inductive invariant over the one before: the types of  *)
(* the connections, the types and program counters of the two threads, the *)
(* messages, the frame, then who owns the descriptor, which tiles have     *)
(* been delivered and whose bytes the reader parses.                       *)
(***************************************************************************)
EXTENDS KvmSession, SequenceTheorems, TLAPS

-----------------------------------------------------------------------------
(* The two threads' program counters, when there is a descriptor, and what *)
(* a blocked write or enqueue is about to deliver.                         *)
Control ==
  /\ mpc \in {"accept", "spawn"} => ipc = "none"
  /\ ipc = "none" => InInit \/ mpc \in {"accept", "spawn"}
  /\ agentfd = None => mpc \in {"accept", "join"} /\ ~Reading
  /\ mpc = "accept" => agentfd = None /\ ~resetipc
  /\ (resetipc \/ mpc = "reaccept") => ipc = "gone"
  /\ resetipc => agentfd # None /\ mpc # "reaccept"
  /\ mpc = "reaccept" => screen = Zero

Pending ==
  /\ mpc = "sendmsg" => msg \in Message
  /\ mpc = "sendtile" => tix \in Tiles
  /\ ipc = "enqueue" => imsg \in Message

-----------------------------------------------------------------------------
(* The connections                                                         *)

(* Closing a connection resets its row of each of the peers' tables. *)
LEMMA CloseTypes ==
  ASSUME TypePeers, NEW c, Close(c)
  PROVE  /\ gone' \subseteq Conns
         /\ sent' \in [Conns -> Nat] /\ room' \in [Conns -> 0..Room]
         /\ told' \in [Conns -> Sizes \cup {None}]
         /\ has' \in [Conns -> SUBSET Tiles]
<1>1. gone' \subseteq Conns
  BY DEF TypePeers, Close
<1>2. sent' \in [Conns -> Nat]
  BY DEF TypePeers, Close
<1>3. room' \in [Conns -> 0..Room]
  <2>1. Room \in 0..Room
    BY SessionAssumption
  <2>2. QED
    BY <2>1 DEF TypePeers, Close
<1>4. told' \in [Conns -> Sizes \cup {None}]
  BY DEF TypePeers, Close
<1>5. has' \in [Conns -> SUBSET Tiles]
  BY DEF TypePeers, Close
<1>6. QED
  BY <1>1, <1>2, <1>3, <1>4, <1>5

(* Taking the oldest pending connection leaves a queue of connections. *)
LEMMA TakeTypes ==
  ASSUME backlog \in Seq(Conns), TakeConnection
  PROVE  backlog' \in Seq(Conns) /\ agentfd' \in Conns
BY DEF TakeConnection

(* Every step that opens, closes, fills or drains a connection keeps the
   tables of the connections well formed. *)
LEMMA PeersStep ==
  ASSUME TypePeers, Pending, Next
  PROVE  TypePeers'
<1> DEFINE ConnType == conn \in [Conns -> {"new", "pending", "open", "closed"}]
           Quiet == UNCHANGED <<conn, backlog, gone, sent, room, told, has>>
<1> USE DEF mainVars, readerVars, peerVars, viewVars, agentVars
<1>1. CASE Accept
  <2>1. ConnType'
    BY <1>1 DEF Accept, TypePeers
  <2>2. QED
    BY <1>1, <2>1, TakeTypes DEF Accept, TypePeers
<1>2. CASE InitTiles
  <2>1. has' \in [Conns -> SUBSET Tiles]
    BY <1>2 DEF InitTiles
  <2>2. QED
    BY <1>2, <2>1 DEF InitTiles, TypePeers
<1>3. CASE Reset
  <2>1. ConnType' /\ backlog' \in Seq(Conns)
    BY <1>3 DEF Reset, TypePeers
  <2>2. Close(agentfd)
    BY <1>3 DEF Reset
  <2>3. QED
    BY <2>1, <2>2, CloseTypes DEF TypePeers
<1>4. CASE Reaccept
  <2>1. ConnType'
    BY <1>4 DEF Reaccept, TypePeers
  <2>2. QED
    BY <1>4, <2>1, TakeTypes DEF Reaccept, TypePeers
<1>5. ASSUME NEW c, WriteDone(c)
      PROVE  room' \in [Conns -> 0..Room]
  BY <1>5, SessionAssumption DEF WriteDone, TypePeers
<1>6. CASE SendMessage
  <2>1. told' \in [Conns -> Sizes \cup {None}]
    <3>1. CASE ~WriteFails(tgt) /\ msg.type = "screen"
      <4>1. msg.size \in Sizes
        BY <1>6 DEF SendMessage, Pending, Message
      <4>2. QED
        BY <1>6, <3>1, <4>1 DEF SendMessage, TypePeers
    <3>2. CASE ~(~WriteFails(tgt) /\ msg.type = "screen")
      BY <1>6, <3>2 DEF SendMessage, TypePeers
    <3>3. QED
      BY <3>1, <3>2
  <2>2. room' \in [Conns -> 0..Room]
    BY <1>6, <1>5 DEF SendMessage
  <2>3. QED
    BY <1>6, <2>1, <2>2 DEF SendMessage, TypePeers
<1>7. CASE SendTile
  <2>1. has' \in [Conns -> SUBSET Tiles]
    <3>1. CASE WriteFails(tgt)
      BY <1>7, <3>1 DEF SendTile, TypePeers
    <3>2. CASE ~WriteFails(tgt)
      <4>1. tix \in Tiles
        BY <1>7 DEF SendTile, Pending
      <4>2. QED
        BY <1>7, <3>2, <4>1 DEF SendTile, TypePeers
    <3>3. QED
      BY <3>1, <3>2
  <2>2. room' \in [Conns -> 0..Room]
    BY <1>7, <1>5 DEF SendTile
  <2>3. QED
    BY <1>7, <2>1, <2>2 DEF SendTile, TypePeers
<1>8. CASE Restart
  <2>1. ConnType' /\ backlog' \in Seq(Conns) /\ gone' \subseteq Conns
    BY <1>8 DEF Restart, TypePeers
  <2>2. sent' \in [Conns -> Nat] /\ told' \in [Conns -> Sizes \cup {None}]
        /\ has' \in [Conns -> SUBSET Tiles]
    BY <1>8 DEF Restart
  <2>3. room' \in [Conns -> 0..Room]
    <3>1. Room \in 0..Room
      BY SessionAssumption
    <3>2. QED
      BY <1>8, <3>1 DEF Restart
  <2>4. QED
    BY <2>1, <2>2, <2>3 DEF TypePeers
<1>9. CASE Evict
  <2>1. ConnType' /\ backlog' \in Seq(Conns)
    <3>1. TakeConnection
      BY <1>9 DEF Evict
    <3>2. backlog' \in Seq(Conns)
      BY <3>1, TakeTypes DEF TypePeers
    <3>3. conn' = [conn EXCEPT ![agentfd] = "closed", ![Head(backlog)] = "open"]
      BY <1>9 DEF Evict
    <3>4. ConnType'
      BY <3>3 DEF TypePeers
    <3>5. QED
      BY <3>2, <3>4
  <2>2. Close(agentfd)
    BY <1>9 DEF Evict
  <2>3. QED
    BY <2>1, <2>2, CloseTypes DEF TypePeers
<1>10. ASSUME NEW c \in Conns, Connect(c)
       PROVE  TypePeers'
  <2>1. ConnType'
    BY <1>10 DEF Connect, TypePeers
  <2>2. backlog' \in Seq(Conns)
    BY <1>10 DEF Connect, TypePeers
  <2>3. QED
    BY <1>10, <2>1, <2>2 DEF Connect, TypePeers
<1>11. ASSUME NEW c \in Conns, SendChunk(c)
       PROVE  TypePeers'
  <2>1. sent' \in [Conns -> Nat]
    BY <1>11 DEF SendChunk, TypePeers
  <2>2. QED
    BY <1>11, <2>1 DEF SendChunk, TypePeers
<1>12. ASSUME NEW c \in Conns, PeerReads(c)
       PROVE  TypePeers'
  <2>1. room' \in [Conns -> 0..Room]
    BY <1>12, SessionAssumption DEF PeerReads, TypePeers
  <2>2. QED
    BY <1>12, <2>1 DEF PeerReads, TypePeers
<1>13. ASSUME NEW c \in Conns, PeerCloses(c)
       PROVE  TypePeers'
  BY <1>13 DEF PeerCloses, TypePeers
<1>14. CASE Quiet
  BY <1>14 DEF TypePeers
<1>15. CASE \/ InitSize \/ InitResolution \/ InitDisplays \/ SpawnReader
            \/ LoopTop \/ ReacceptFails \/ LockQueue \/ Drain \/ NoDisplay
            \/ SizeCheck \/ Capture \/ CompareImage \/ ScreenBuffer
            \/ NextTile \/ EndFrame
  BY <1>14, <1>15 DEF InitSize, InitResolution, InitDisplays, SpawnReader,
     LoopTop, ReacceptFails, LockQueue, Drain, NoDisplay, SizeCheck, Capture,
     CaptureGives, CompareImage, ScreenBuffer, NextTile, EndFrame
<1>16. CASE \/ ReaderLoop \/ EvictReinit \/ Read \/ ReadEof \/ ParseEnd
            \/ FrameRefresh \/ FrameQuery \/ FrameModifier \/ FrameSelect
            \/ FrameOther \/ Enqueue \/ RefreshTiles \/ DisplayChanges
  BY <1>14, <1>16 DEF ReaderLoop, EvictReinit, Read, ReadEof, ParseEnd,
     FrameRefresh, FrameQuery, FrameModifier, FrameSelect, FrameOther,
     TakeFrame, Enqueue, RefreshTiles, DisplayChanges
<1>17. QED
  BY <1>1, <1>2, <1>3, <1>4, <1>6, <1>7, <1>8, <1>9, <1>10, <1>11, <1>12,
     <1>13, <1>15, <1>16 DEF Next, Main, Reader, Peer, Join, Die

-----------------------------------------------------------------------------
(* The threads                                                             *)

(* No step leaves a thread at a program counter it does not have, or lets
   one run without the descriptor it is about to use. *)
LEMMA ThreadsStep ==
  ASSUME TypeThreads, TypePeers, Control, Next
  PROVE  TypeThreads' /\ Control'
<1> USE DEF mainVars, readerVars, peerVars, viewVars, agentVars,
            TypeThreads, Control, Reading, InInit, MainPC, ReaderPC
<1>0. None \notin Conns
  BY SessionAssumption
<1>1. ASSUME TakeConnection
      PROVE  agentfd' \in Conns /\ agentfd' # None
  BY <1>0, <1>1, TakeTypes DEF TypePeers
<1>2. CASE InitSize
  BY <1>2 DEF InitSize
<1>3. CASE InitResolution
  BY <1>3 DEF InitResolution
<1>4. CASE InitDisplays
  BY <1>4 DEF InitDisplays
<1>5. CASE InitTiles
  BY <1>5 DEF InitTiles
<1>6. CASE SpawnReader
  BY <1>6 DEF SpawnReader
<1>7. CASE LoopTop
  BY <1>7 DEF LoopTop
<1>8. CASE Reset
  BY <1>8 DEF Reset
<1>9. CASE ReacceptFails
  BY <1>9 DEF ReacceptFails
<1>10. CASE LockQueue
  BY <1>10 DEF LockQueue
<1>11. CASE Drain
  BY <1>11 DEF Drain
<1>12. CASE SendMessage
  BY <1>12 DEF SendMessage
<1>13. CASE NoDisplay
  BY <1>13 DEF NoDisplay
<1>14. CASE SizeCheck
  BY <1>14 DEF SizeCheck
<1>15. CASE Capture
  BY <1>15 DEF Capture, CaptureGives
<1>16. CASE CompareImage
  BY <1>16 DEF CompareImage
<1>17. CASE ScreenBuffer
  BY <1>17 DEF ScreenBuffer
<1>18. CASE NextTile
  BY <1>18 DEF NextTile
<1>19. CASE SendTile
  BY <1>19 DEF SendTile
<1>20. CASE EndFrame
  BY <1>20 DEF EndFrame
<1>21. CASE Restart
  BY <1>21 DEF Restart
<1>22. CASE ReaderLoop
  BY <1>22 DEF ReaderLoop
<1>23. CASE EvictReinit
  BY <1>23 DEF EvictReinit
<1>24. CASE Read
  BY <1>24 DEF Read
<1>25. CASE ReadEof
  BY <1>25 DEF ReadEof
<1>26. CASE ParseEnd
  BY <1>26 DEF ParseEnd
<1>27. CASE FrameRefresh
  BY <1>27 DEF FrameRefresh, TakeFrame
<1>28. CASE FrameQuery
  BY <1>28 DEF FrameQuery, TakeFrame
<1>29. CASE FrameModifier
  BY <1>29 DEF FrameModifier, TakeFrame
<1>30. CASE FrameSelect
  BY <1>30 DEF FrameSelect, TakeFrame
<1>31. CASE FrameOther
  BY <1>31 DEF FrameOther, TakeFrame
<1>32. CASE Enqueue
  BY <1>32 DEF Enqueue
<1>33. CASE RefreshTiles
  BY <1>33 DEF RefreshTiles
<1>34. CASE DisplayChanges
  BY <1>34 DEF DisplayChanges
<1>35. CASE Accept
  BY <1>35, <1>1 DEF Accept
<1>36. CASE Reaccept
  BY <1>36, <1>1 DEF Reaccept
<1>37. CASE Evict
  BY <1>37, <1>1 DEF Evict
<1>38. CASE Peer
  BY <1>38 DEF Peer, Connect, SendChunk, PeerReads, PeerCloses
<1>39. QED
  BY <1>2, <1>3, <1>4, <1>5, <1>6, <1>7, <1>8, <1>9, <1>10, <1>11, <1>12, <1>13, <1>14, <1>15, <1>16, <1>17, <1>18, <1>19, <1>20, <1>21, <1>22, <1>23, <1>24, <1>25, <1>26, <1>27, <1>28, <1>29, <1>30, <1>31, <1>32, <1>33, <1>34, <1>35, <1>36, <1>37, <1>38 DEF Next, Main, Reader, Join, Die

-----------------------------------------------------------------------------
(* The messages                                                            *)

(* What kvm_init, the refresh and the display query put in the queue. *)
LEMMA MessageTypes ==
  /\ \A s \in Sizes : Screen(s) \in Message
  /\ Plain("displays") \in Message /\ Plain("keystate") \in Message
  /\ Plain("debug") \in Message
BY DEF Screen, Plain, Message, Sizes

(* What is left of a buffer once a frame has been taken off its front. *)
LEMMA TailTail ==
  ASSUME NEW S, NEW s \in Seq(S), Len(s) >= 2
  PROVE  /\ Tail(Tail(s)) \in Seq(S) /\ Len(Tail(Tail(s))) = Len(s) - 2
         /\ \A i \in 1..Len(s) - 2 : Tail(Tail(s))[i] = s[i + 2]
<1>1. s # <<>>
  OBVIOUS
<1>2. /\ Tail(s) \in Seq(S) /\ Len(Tail(s)) = Len(s) - 1
      /\ \A i \in 1..Len(s) - 1 : Tail(s)[i] = s[i + 1]
  BY <1>1, HeadTailProperties
<1>3. Len(s) \in Nat
  OBVIOUS
<1>4. Len(Tail(s)) # 0
  BY <1>2, <1>3
<1>5. Tail(s) # <<>>
  BY <1>4, EmptySeq
<1>6. /\ Tail(Tail(s)) \in Seq(S) /\ Len(Tail(Tail(s))) = Len(Tail(s)) - 1
      /\ \A i \in 1..Len(Tail(s)) - 1 : Tail(Tail(s))[i] = Tail(s)[i + 1]
  BY <1>2, <1>5, HeadTailProperties
<1>7. \A i \in 1..Len(s) - 2 :
        i \in 1..Len(Tail(s)) - 1 /\ i + 1 \in 1..Len(s) - 1 /\ (i + 1) + 1 = i + 2
  BY <1>2, <1>3
<1>8. QED
  BY <1>2, <1>3, <1>6, <1>7

(* No step puts anything but messages in the queue, or anything but chunks
   in the buffer a viewer's frames are parsed from. *)
LEMMA MessagesStep ==
  ASSUME TypeOK, Control, Pending, Next
  PROVE  TypeMessages'
<1> USE DEF mainVars, readerVars, peerVars, viewVars, agentVars, TypeMessages
<1>0. TypeMessages /\ TypePeers /\ screen \in Sizes
  BY DEF TypeOK, TypeFrame
<1>1. CASE InitResolution
  <2>1. queue' \in Seq(Message)
    BY <1>0, <1>1, MessageTypes DEF InitResolution
  <2>2. QED
    BY <1>0, <1>1, <2>1 DEF InitResolution
<1>2. CASE InitDisplays
  <2>1. queue' \in Seq(Message)
    BY <1>0, <1>2, MessageTypes DEF InitDisplays
  <2>2. QED
    BY <1>0, <1>2, <2>1 DEF InitDisplays
<1>3. CASE InitTiles
  <2>1. queue' \in Seq(Message)
    BY <1>0, <1>3, MessageTypes DEF InitTiles
  <2>2. QED
    BY <1>0, <1>3, <2>1 DEF InitTiles
<1>4. CASE NoDisplay
  <2>1. queue' \in Seq(Message)
    BY <1>0, <1>4, MessageTypes DEF NoDisplay
  <2>2. QED
    BY <1>0, <1>4, <2>1 DEF NoDisplay
<1>5. CASE Drain
  <2>1. CASE queue = <<>>
    BY <1>0, <1>5, <2>1 DEF Drain
  <2>2. CASE queue # <<>>
    <3>1. Head(queue) \in Message /\ Tail(queue) \in Seq(Message)
      BY <1>0, <2>2
    <3>2. QED
      BY <1>0, <1>5, <2>2, <3>1 DEF Drain
  <2>3. QED
    BY <2>1, <2>2
<1>6. CASE SendMessage
  BY <1>0, <1>6 DEF SendMessage
<1>7. CASE Restart
  <2>1. inbox' \in [Conns -> Seq(Chunk)]
    BY <1>7 DEF Restart
  <2>2. QED
    BY <1>7, <2>1 DEF Restart
<1>8. ASSUME NEW c, Close(c)
      PROVE  inbox' \in [Conns -> Seq(Chunk)]
  <2>1. inbox' = [inbox EXCEPT ![c] = <<>>]
    BY <1>8 DEF Close
  <2>2. <<>> \in Seq(Chunk)
    OBVIOUS
  <2>3. QED
    BY <1>0, <2>1, <2>2
<1>9. CASE Reset
  <2>1. inbox' \in [Conns -> Seq(Chunk)]
    BY <1>8, <1>9 DEF Reset
  <2>2. QED
    BY <1>0, <1>9, <2>1 DEF Reset
<1>10. CASE Evict
  <2>1. inbox' \in [Conns -> Seq(Chunk)]
    BY <1>8, <1>10 DEF Evict
  <2>2. QED
    BY <1>0, <1>10, <2>1 DEF Evict
<1>11. CASE Read
  <2>1. agentfd \in Conns
    BY <1>11 DEF Read, TypeOK, TypeThreads, Control, Reading
  <2>2. inbox' \in [Conns -> Seq(Chunk)]
    <3>1. inbox' = [inbox EXCEPT ![agentfd] = <<>>]
      BY <1>11 DEF Read
    <3>2. <<>> \in Seq(Chunk)
      OBVIOUS
    <3>3. QED
      BY <1>0, <3>1, <3>2
  <2>3. ibuf' \in Seq(Chunk)
    BY <1>0, <1>11, <2>1 DEF Read
  <2>4. QED
    BY <1>0, <1>11, <2>2, <2>3 DEF Read
<1>12. ASSUME NEW k, TakeFrame(k)
       PROVE  ibuf' \in Seq(Chunk)
  <2>1. ibuf \in Seq(Chunk) /\ Len(ibuf) >= 2 /\ ibuf' = Tail(Tail(ibuf))
    BY <1>0, <1>12 DEF TakeFrame
  <2>2. QED
    BY <2>1, TailTail
<1>13. CASE FrameRefresh
  <2>1. imsg' \in Message
    BY <1>0, <1>13, MessageTypes DEF FrameRefresh
  <2>2. QED
    BY <1>0, <1>12, <1>13, <2>1 DEF FrameRefresh, TakeFrame
<1>14. CASE FrameQuery
  <2>1. imsg' \in Message
    BY <1>14, MessageTypes DEF FrameQuery
  <2>2. QED
    BY <1>0, <1>12, <1>14, <2>1 DEF FrameQuery, TakeFrame
<1>15. CASE FrameModifier \/ FrameSelect \/ FrameOther
  BY <1>0, <1>12, <1>15 DEF FrameModifier, FrameSelect, FrameOther, TakeFrame
<1>16. CASE Enqueue
  <2>1. queue' \in Seq(Message)
    BY <1>0, <1>16 DEF Enqueue, Pending
  <2>2. QED
    BY <1>0, <1>16, <2>1 DEF Enqueue
<1>17. ASSUME NEW c \in Conns, SendChunk(c)
       PROVE  TypeMessages'
  <2>1. PICK k \in Kinds \cup {"body"} :
          inbox' = [inbox EXCEPT ![c] = Append(@, [from |-> c, kind |-> k])]
    BY <1>17 DEF SendChunk
  <2>2. [from |-> c, kind |-> k] \in Chunk
    BY DEF Chunk
  <2>3. inbox' \in [Conns -> Seq(Chunk)]
    BY <1>0, <2>1, <2>2
  <2>4. QED
    BY <1>0, <1>17, <2>3 DEF SendChunk
<1>18. CASE SpawnReader \/ Reaccept \/ EvictReinit
  <2>1. ibuf' = <<>>
    BY <1>18 DEF SpawnReader, Reaccept, EvictReinit
  <2>2. UNCHANGED <<queue, msg, imsg, inbox>>
    BY <1>18 DEF SpawnReader, Reaccept, EvictReinit
  <2>3. QED
    BY <1>0, <2>1, <2>2
<1>19. CASE UNCHANGED <<queue, msg, imsg, ibuf, inbox>>
  BY <1>0, <1>19
<1>20. CASE \/ Accept \/ InitSize \/ LoopTop \/ ReacceptFails \/ LockQueue
            \/ SizeCheck \/ Capture \/ CompareImage \/ ScreenBuffer
            \/ NextTile \/ SendTile \/ EndFrame
  BY <1>19, <1>20 DEF Accept, InitSize, LoopTop, ReacceptFails, LockQueue,
     SizeCheck, Capture, CaptureGives, CompareImage, ScreenBuffer, NextTile,
     SendTile, EndFrame
<1>21. CASE \/ ReaderLoop \/ ReadEof \/ ParseEnd \/ RefreshTiles
            \/ DisplayChanges \/ \E c \in Conns : Connect(c) \/ PeerReads(c) \/ PeerCloses(c)
  BY <1>19, <1>21 DEF ReaderLoop, ReadEof, ParseEnd, RefreshTiles,
     DisplayChanges, Connect, PeerReads, PeerCloses
<1>22. QED
  BY <1>1, <1>2, <1>3, <1>4, <1>5, <1>6, <1>7, <1>9, <1>10, <1>11, <1>13,
     <1>14, <1>15, <1>16, <1>17, <1>18, <1>20, <1>21
     DEF Next, Main, Reader, Peer, Join, Die

-----------------------------------------------------------------------------
(* The frame                                                               *)

(* The geometry, the image and the tile index stay in range through every
   race, and what a blocked write or enqueue delivers exists. *)
LEMMA FrameStep ==
  ASSUME TypeOK, Control, Pending, Next
  PROVE  TypeFrame' /\ Pending'
<1> USE DEF mainVars, readerVars, peerVars, viewVars, agentVars, TypeFrame,
            Pending
<1>0. TypeFrame /\ TypeMessages /\ Geoms \subseteq Sizes /\ Zero \in Sizes
  BY DEF TypeOK, Sizes
<1>1. 1 \in 1..(NTiles + 1) /\ \A t \in Tiles : {t, t + 1} \subseteq 1..(NTiles + 1)
  BY SessionAssumption DEF Tiles
<1>2. CASE Drain
  <2>1. CASE queue = <<>>
    BY <1>0, <1>2, <2>1 DEF Drain
  <2>2. CASE queue # <<>>
    <3>1. Head(queue) \in Message
      BY <1>0, <2>2 DEF TypeMessages
    <3>2. QED
      BY <1>0, <1>2, <2>2, <3>1 DEF Drain
  <2>3. QED
    BY <2>1, <2>2
<1>3. CASE NextTile
  <2>1. PICK t \in dirty : tix' = t /\ dirty' = dirty \ {t}
    BY <1>3 DEF NextTile
  <2>2. t \in Tiles
    BY <1>0, <2>1
  <2>3. QED
    BY <1>0, <1>1, <1>3, <2>1, <2>2 DEF NextTile
<1>4. CASE SendTile
  <2>1. tix' \in 1..(NTiles + 1)
    BY <1>0, <1>1, <1>4 DEF SendTile
  <2>2. QED
    BY <1>0, <1>4, <2>1 DEF SendTile
<1>5. CASE Restart
  BY <1>0, <1>1, <1>5 DEF Restart
<1>6. CASE \/ InitSize \/ InitTiles \/ Reset \/ CompareImage \/ ScreenBuffer
           \/ EndFrame
  BY <1>0, <1>1, <1>6 DEF InitSize, InitTiles, Reset, CompareImage,
     ScreenBuffer, EndFrame
<1>7. CASE Capture
  BY <1>0, <1>7 DEF Capture, CaptureGives
<1>8. CASE \/ Accept \/ InitResolution \/ InitDisplays \/ SpawnReader
           \/ LoopTop \/ Reaccept \/ ReacceptFails \/ LockQueue \/ SendMessage
           \/ NoDisplay \/ SizeCheck
  BY <1>0, <1>8 DEF Accept, InitResolution, InitDisplays, SpawnReader,
     LoopTop, Reaccept, ReacceptFails, LockQueue, SendMessage, NoDisplay,
     SizeCheck
<1>9. CASE FrameRefresh \/ FrameQuery
  <2>1. Screen(screen) \in Message /\ Plain("displays") \in Message
    BY <1>0, MessageTypes
  <2>2. QED
    BY <1>0, <1>9, <2>1 DEF FrameRefresh, FrameQuery, TakeFrame
<1>10. CASE \/ ReaderLoop \/ Evict \/ EvictReinit \/ Read \/ ReadEof
            \/ ParseEnd \/ FrameModifier \/ FrameSelect \/ FrameOther
            \/ Enqueue \/ RefreshTiles
  BY <1>0, <1>10 DEF ReaderLoop, Evict, EvictReinit, Read, ReadEof, ParseEnd,
     FrameModifier, FrameSelect, FrameOther, TakeFrame, Enqueue, RefreshTiles
<1>11. CASE Peer \/ DisplayChanges
  BY <1>0, <1>11 DEF Peer, Connect, SendChunk, PeerReads, PeerCloses,
     DisplayChanges
<1>12. QED
  BY <1>2, <1>3, <1>4, <1>5, <1>6, <1>7, <1>8, <1>9, <1>10, <1>11
     DEF Next, Main, Reader, Join, Die

TypeInv == TypeOK /\ Control /\ Pending

LEMMA TypeInvInit == Init => TypeInv
<1> SUFFICES ASSUME Init
             PROVE  TypeInv
  OBVIOUS
<1>1. TypePeers
  BY SessionAssumption DEF Init, TypePeers
<1>2. TypeThreads /\ Control /\ Pending
  BY DEF Init, TypeThreads, Control, Pending, Reading, InInit, MainPC, ReaderPC
<1>3. TypeMessages
  BY DEF Init, TypeMessages
<1>4. TypeFrame
  BY SessionAssumption DEF Init, TypeFrame, Sizes
<1>5. QED
  BY <1>1, <1>2, <1>3, <1>4 DEF TypeInv, TypeOK

LEMMA TypeInvStep == TypeInv /\ [Next]_vars => TypeInv'
<1>1. ASSUME TypeInv, Next
      PROVE  TypeInv'
  BY <1>1, PeersStep, ThreadsStep, MessagesStep, FrameStep DEF TypeInv, TypeOK
<1>2. ASSUME TypeInv, UNCHANGED vars
      PROVE  TypeInv'
  BY <1>2 DEF TypeInv, TypeOK, TypeThreads, TypeFrame, TypeMessages, TypePeers,
     Control, Pending, Reading, InInit, vars, mainVars, readerVars, peerVars,
     viewVars
<1>3. QED
  BY <1>1, <1>2

(* Every reachable state of the agent is well typed: in particular the tile
   index never leaves the frame, a blocked write always has a message, and
   no thread polls or reads without a descriptor (kvm_server_mainloop and
   kvm_mainloopinput). *)
THEOREM SessionTypeOK == Spec => []TypeOK
<1>1. TypeInv => TypeOK
  BY DEF TypeInv
<1>2. QED
  BY <1>1, TypeInvInit, TypeInvStep, PTL DEF Spec

-----------------------------------------------------------------------------
(* The descriptor                                                          *)

(* KVM_AGENT_FD is the one open connection, except between the close() of
   the reset path and the accept() that follows it. *)
Descriptor ==
  /\ \A c \in Conns : conn[c] = "open" => c = agentfd
  /\ agentfd # None /\ mpc # "reaccept" => conn[agentfd] = "open"
  /\ mpc = "reaccept" => \A c \in Conns : conn[c] # "open"

(* The steps that leave every connection's state and KVM_AGENT_FD alone *)
SlotQuiet == UNCHANGED <<conn, backlog, agentfd>>

LEMMA QuietActions ==
  ASSUME Next
  PROVE  \/ Accept \/ Reset \/ Reaccept \/ ReacceptFails \/ Evict \/ Restart
         \/ \E c \in Conns : Connect(c)
         \/ SlotQuiet /\ mpc # "reaccept" /\ mpc' # "reaccept"
         \/ SlotQuiet /\ UNCHANGED mpc
<1> USE DEF mainVars, readerVars, peerVars, viewVars, agentVars, SlotQuiet
<1>1. CASE \/ InitSize \/ InitResolution \/ InitDisplays \/ InitTiles
           \/ SpawnReader \/ LoopTop \/ LockQueue \/ Drain \/ SendMessage
           \/ NoDisplay \/ SizeCheck \/ Capture \/ CompareImage
           \/ ScreenBuffer \/ NextTile \/ SendTile \/ EndFrame
  BY <1>1 DEF InitSize, InitResolution, InitDisplays, InitTiles, SpawnReader,
     LoopTop, LockQueue, Drain, SendMessage, NoDisplay, SizeCheck, Capture,
     CaptureGives, CompareImage, ScreenBuffer, NextTile, SendTile, EndFrame
<1>2. CASE \/ ReaderLoop \/ EvictReinit \/ Read \/ ReadEof \/ ParseEnd
           \/ FrameRefresh \/ FrameQuery \/ FrameModifier \/ FrameSelect
           \/ FrameOther \/ Enqueue \/ RefreshTiles
  BY <1>2 DEF ReaderLoop, EvictReinit, Read, ReadEof, ParseEnd, FrameRefresh,
     FrameQuery, FrameModifier, FrameSelect, FrameOther, TakeFrame, Enqueue,
     RefreshTiles
<1>3. CASE Peer \/ DisplayChanges
  BY <1>3 DEF Peer, SendChunk, PeerReads, PeerCloses, DisplayChanges
<1>4. QED
  BY <1>1, <1>2, <1>3 DEF Next, Main, Reader, Join, Die

LEMMA DescriptorStep ==
  ASSUME TypeInv, Descriptor, Next
  PROVE  Descriptor'
<1> USE DEF mainVars, readerVars, peerVars, viewVars, agentVars, Descriptor
<1>0. /\ conn \in [Conns -> {"new", "pending", "open", "closed"}]
      /\ backlog \in Seq(Conns) /\ None \notin Conns
      /\ agentfd \in Conns \cup {None}
      /\ Control
  BY SessionAssumption DEF TypeInv, TypeOK, TypePeers, TypeThreads
<1>1. ASSUME TakeConnection
      PROVE  agentfd' = Head(backlog) /\ agentfd' \in Conns
  BY <1>0, <1>1, TakeTypes DEF TakeConnection
<1>2. CASE Accept
  BY <1>0, <1>1, <1>2 DEF Accept, Control
<1>3. CASE Reset
  BY <1>0, <1>3 DEF Reset, Control
<1>4. CASE Reaccept
  BY <1>0, <1>1, <1>4 DEF Reaccept
<1>5. CASE ReacceptFails
  BY <1>0, <1>5 DEF ReacceptFails
<1>6. CASE Evict
  <2>1. conn' = [conn EXCEPT ![agentfd] = "closed", ![agentfd'] = "open"]
    BY <1>1, <1>6 DEF Evict
  <2>2. agentfd \in Conns /\ mpc' # "reaccept"
    BY <1>0, <1>6 DEF Evict, Control, Reading
  <2>3. QED
    BY <1>0, <1>1, <1>6, <2>1, <2>2 DEF Evict
<1>7. CASE Restart
  BY <1>0, <1>7 DEF Restart
<1>8. ASSUME NEW c \in Conns, Connect(c)
      PROVE  Descriptor'
  BY <1>0, <1>8 DEF Connect
<1>9. QED
  BY <1>2, <1>3, <1>4, <1>5, <1>6, <1>7, <1>8, QuietActions DEF SlotQuiet

SessionInv == TypeInv /\ Descriptor

LEMMA SessionInvHolds == Spec => []SessionInv
<1>1. Init => SessionInv
  BY TypeInvInit DEF SessionInv, Init, Descriptor
<1>2. ASSUME SessionInv, [Next]_vars
      PROVE  SessionInv'
  <2>1. CASE Next
    BY <1>2, <2>1, TypeInvStep, DescriptorStep DEF SessionInv
  <2>2. CASE UNCHANGED vars
    <3>1. TypeInv'
      BY <1>2, TypeInvStep DEF SessionInv
    <3>2. Descriptor'
      BY <1>2, <2>2 DEF SessionInv, Descriptor, vars, mainVars
    <3>3. QED
      BY <3>1, <3>2 DEF SessionInv
  <2>3. QED
    BY <1>2, <2>1, <2>2
<1>3. QED
  BY <1>1, <1>2, PTL DEF Spec

(* The daemon is served on one connection at a time, and neither thread,
   unlocked as KVM_AGENT_FD is, uses a descriptor the other has closed. *)
THEOREM SessionOneViewer == Spec => []OneViewer
<1>1. SessionInv => OneViewer
  <2> SUFFICES ASSUME SessionInv
               PROVE  OneViewer
    OBVIOUS
  <2>1. Control /\ Descriptor
    BY DEF SessionInv, TypeInv
  <2>2. Reading \/ InInit => agentfd # None /\ mpc # "reaccept"
    BY <2>1 DEF Control, Reading, InInit
  <2>3. QED
    BY <2>1, <2>2 DEF Descriptor, OneViewer
<1>2. QED
  BY <1>1, SessionInvHolds, PTL

(* main's close() on the reset path closes the connection whose end was
   read, after the input thread that read it has left. *)
THEOREM SessionResetOwnsDescriptor == Spec => []ResetOwnsDescriptor
<1>1. SessionInv => ResetOwnsDescriptor
  BY DEF SessionInv, TypeInv, Control, Descriptor, ResetOwnsDescriptor
<1>2. QED
  BY <1>1, SessionInvHolds, PTL

-----------------------------------------------------------------------------
(* Refinement                                                              *)

LEMMA SlotStep ==
  ASSUME SessionInv, Next
  PROVE  [Slot!SlotNext]_Slot!slotVars
<1> USE DEF mainVars, readerVars, peerVars, viewVars, agentVars
<1>0. /\ conn \in [Conns -> {"new", "pending", "open", "closed"}]
      /\ agentfd \in Conns \cup {None}
      /\ Control /\ Descriptor
  BY DEF SessionInv, TypeInv, TypeOK, TypePeers, TypeThreads
<1>1. CASE Accept \/ Reaccept
  <2>1. TakeConnection /\ conn' = [conn EXCEPT ![Head(backlog)] = "open"]
    BY <1>1 DEF Accept, Reaccept
  <2>2. \A c \in Conns : conn[c] # "open"
    BY <1>0, <1>1, SessionAssumption DEF Accept, Reaccept, Control, Descriptor
  <2>3. Slot!Serve
    BY <1>0, <2>1, <2>2 DEF Slot!Serve, TakeConnection
  <2>4. QED
    BY <2>3 DEF Slot!SlotNext
<1>2. CASE Evict
  <2>1. /\ TakeConnection
        /\ conn' = [conn EXCEPT ![agentfd] = "closed", ![Head(backlog)] = "open"]
    BY <1>2 DEF Evict
  <2>2. Slot!Serve
    <3>1. \A c \in Conns : conn[c] = "open" <=> c = agentfd
      BY <1>0, <1>2 DEF Evict, Control, Descriptor, Reading
    <3>2. QED
      BY <1>0, <2>1, <3>1 DEF Slot!Serve, TakeConnection
  <2>3. QED
    BY <2>2 DEF Slot!SlotNext
<1>3. CASE Reset
  <2>1. agentfd \in Conns /\ conn[agentfd] = "open"
    BY <1>0, <1>3 DEF Reset, Control, Descriptor
  <2>2. Slot!Drop(agentfd)
    BY <1>3, <2>1 DEF Reset, Slot!Drop
  <2>3. QED
    BY <2>1, <2>2 DEF Slot!SlotNext
<1>4. CASE Restart
  <2>1. Slot!DropAll
    BY <1>4 DEF Restart, Slot!DropAll
  <2>2. QED
    BY <2>1 DEF Slot!SlotNext
<1>5. ASSUME NEW c \in Conns, Connect(c)
      PROVE  Slot!SlotNext
  <2>1. Slot!Arrive(c)
    BY <1>5 DEF Connect, Slot!Arrive
  <2>2. QED
    BY <2>1 DEF Slot!SlotNext
<1>6. CASE ReacceptFails \/ SlotQuiet
  BY <1>6 DEF ReacceptFails, SlotQuiet, Slot!slotVars
<1>7. QED
  BY <1>1, <1>2, <1>3, <1>4, <1>5, <1>6, QuietActions

(* Two threads, an unlocked descriptor and a restart implement one slot that
   the latest connection takes over: connections are served in the order
   they arrive, each at most once, one at a time. *)
THEOREM SessionServesOneSlot == Spec => ServesOneSlot
<1>1. Init => Slot!SlotInit
  BY DEF Init, Slot!SlotInit
<1>2. ASSUME SessionInv, [Next]_vars
      PROVE  [Slot!SlotNext]_Slot!slotVars
  <2>1. CASE Next
    BY <1>2, <2>1, SlotStep
  <2>2. CASE UNCHANGED vars
    BY <2>2 DEF vars, Slot!slotVars
  <2>3. QED
    BY <1>2, <2>1, <2>2
<1>3. QED
  BY <1>1, <1>2, SessionInvHolds, PTL DEF Spec, ServesOneSlot, Slot!SlotSpec

-----------------------------------------------------------------------------
(* The tile cache                                                          *)

LEMMA TilesStep ==
  ASSUME SessionInv, CachedTileDelivered, Next
  PROVE  CachedTileDelivered'
<1> USE DEF mainVars, readerVars, peerVars, viewVars, agentVars,
            CachedTileDelivered, ReinitPending, InInit
<1>0. /\ has \in [Conns -> SUBSET Tiles] /\ dirty \subseteq Tiles
      /\ agentfd \in Conns \cup {None} /\ None \notin Conns
      /\ Control /\ Descriptor
  BY SessionAssumption
     DEF SessionInv, TypeInv, TypeOK, TypePeers, TypeThreads, TypeFrame
(* A viewer is taken over in a state in which a reinitialisation is due. *)
<1>1. CASE Accept \/ Reset \/ Evict
  BY <1>1 DEF Accept, Reset, Evict
<1>1a. CASE Reaccept
  <2>1. screen' = Zero
    BY <1>0, <1>1a DEF Reaccept, Control
  <2>2. QED
    BY <2>1
<1>1b. CASE ReacceptFails \/ Restart
  <2>1. agentfd' = None
    BY <1>1b DEF ReacceptFails, Restart
  <2>2. QED
    BY <2>1
(* The reinitialisation ends with an empty cache. *)
<1>2. CASE InitTiles \/ RefreshTiles
  BY <1>0, <1>2 DEF InitTiles, RefreshTiles
<1>3. CASE InitSize \/ EvictReinit
  BY <1>3 DEF InitSize, EvictReinit
(* A tile is cached when it is about to be written ... *)
<1>4. CASE NextTile
  <2>1. PICK t \in dirty : tix' = t /\ dirty' = dirty \ {t} /\ tgt' = agentfd
    BY <1>4 DEF NextTile
  <2>2. QED
    BY <1>0, <1>4, <2>1 DEF NextTile
(* ... and a write to the viewer being served reaches it. *)
<1>5. CASE SendTile
  <2>1. ASSUME agentfd # None, conn[agentfd] = "open", agentfd \notin gone
        PROVE  has'[agentfd] = IF tgt = agentfd THEN has[agentfd] \cup {tix}
                                                ELSE has[agentfd]
    <3>1. CASE tgt = agentfd
      BY <1>0, <1>5, <2>1, <3>1 DEF SendTile, WriteFails
    <3>2. CASE tgt # agentfd
      BY <1>0, <1>5, <2>1, <3>2 DEF SendTile
    <3>3. QED
      BY <3>1, <3>2
  <2>2. UNCHANGED <<agentfd, conn, gone, screen, ipc, resetipc, dirty>>
        /\ mpc = "sendtile" /\ mpc' = "tiles"
    BY <1>5 DEF SendTile
  <2>3. QED
    BY <2>1, <2>2
<1>6. ASSUME /\ UNCHANGED <<agentfd, conn, gone, screen, resetipc, dirty, has>>
             /\ mpc # "sendtile" /\ mpc # "reaccept"
             /\ InInit => InInit'
             /\ ipc = "evict" => ipc' = "evict"
      PROVE  CachedTileDelivered'
  BY <1>6
<1>6a. CASE InitResolution \/ InitDisplays \/ SpawnReader
  BY <1>0, <1>6, <1>6a DEF InitResolution, InitDisplays, SpawnReader, Control
<1>6b. CASE \/ LoopTop \/ LockQueue \/ NoDisplay \/ SizeCheck \/ CompareImage
            \/ ScreenBuffer \/ EndFrame
  BY <1>6, <1>6b DEF LoopTop, LockQueue, NoDisplay, SizeCheck, CompareImage,
     ScreenBuffer, EndFrame
<1>6c. CASE Drain \/ SendMessage \/ Capture
  BY <1>6, <1>6c DEF Drain, SendMessage, Capture, CaptureGives
<1>7. CASE \/ ReaderLoop \/ Read \/ ReadEof \/ ParseEnd \/ FrameRefresh
           \/ FrameQuery \/ FrameModifier \/ FrameSelect \/ FrameOther
           \/ Enqueue
  BY <1>7 DEF ReaderLoop, Read, ReadEof, ParseEnd, FrameRefresh, FrameQuery,
     FrameModifier, FrameSelect, FrameOther, TakeFrame, Enqueue
<1>8. ASSUME NEW c \in Conns, Connect(c)
      PROVE  CachedTileDelivered'
  <2>1. conn'[agentfd] = "open" => conn[agentfd] = "open"
    BY <1>0, <1>8 DEF Connect, SessionInv, TypeInv, TypeOK, TypePeers
  <2>2. QED
    BY <1>8, <2>1 DEF Connect
<1>9. ASSUME NEW c \in Conns, SendChunk(c) \/ PeerReads(c) \/ PeerCloses(c)
      PROVE  CachedTileDelivered'
  BY <1>9 DEF SendChunk, PeerReads, PeerCloses
<1>10. CASE DisplayChanges
  BY <1>10 DEF DisplayChanges
<1>11. QED
  BY <1>1, <1>1a, <1>1b, <1>2, <1>3, <1>4, <1>5, <1>6a, <1>6b, <1>6c,
     <1>7, <1>8, <1>9, <1>10 DEF Next, Main, Reader, Peer, Join, Die

(* A tile whose crc is cached is never written again, so it must have been
   delivered to the viewer now served (or be on its way), or a call of
   reset_tile_info that forgets it must be due: eviction, reset and a viewer
   lost in the middle of a frame never leave a hole in the picture that
   nothing repaints. *)
THEOREM SessionCachedTileDelivered == Spec => []CachedTileDelivered
<1>1. Init => CachedTileDelivered
  BY DEF Init, CachedTileDelivered
<1>2. ASSUME SessionInv, CachedTileDelivered, [Next]_vars
      PROVE  CachedTileDelivered'
  <2>1. CASE Next
    BY <1>2, <2>1, TilesStep
  <2>2. CASE UNCHANGED vars
    BY <1>2, <2>2 DEF CachedTileDelivered, ReinitPending, InInit, vars,
       mainVars, readerVars, peerVars, viewVars
  <2>3. QED
    BY <1>2, <2>1, <2>2
<1>3. QED
  BY <1>1, <1>2, SessionInvHolds, PTL DEF Spec

-----------------------------------------------------------------------------
(* The frames                                                              *)

(* who waits in the listener's queue waits there once                      *)
Waiting ==
  /\ \A i \in 1..Len(backlog) : conn[backlog[i]] = "pending"
  /\ \A i, j \in 1..Len(backlog) : backlog[i] = backlog[j] => i = j

(* the chunks of a connection that the reader has taken in                 *)
Taken(c) == sent[c] - Len(inbox[c])

(* A viewer's stream alternates headers and bodies; nothing is taken from  *)
(* it unless it is served.                                                 *)
Streams ==
  \A c \in Conns :
    /\ Len(inbox[c]) <= sent[c]
    /\ conn[c] # "open" => Taken(c) = 0
    /\ \A i \in 1..Len(inbox[c]) :
         /\ inbox[c][i].from = c
         /\ inbox[c][i].kind = "body" <=> (Taken(c) + i) % 2 = 0

(* What is kept from one read to the next is the end of what was taken in, *)
(* and starts at a header.  It is of no use from an eviction to EvictReinit *)
(* or without a reader, and nothing is taken in meanwhile.                 *)
Buffer ==
  /\ ipc \in {"none", "evict"} /\ agentfd # None => Taken(agentfd) = 0
  /\ Reading /\ ipc # "evict" =>
       /\ Len(ibuf) <= Taken(agentfd)
       /\ (Taken(agentfd) - Len(ibuf)) % 2 = 0
       /\ \A i \in 1..Len(ibuf) :
            /\ ibuf[i].from = agentfd
            /\ ibuf[i].kind = "body" <=> i % 2 = 0

FramesInv == Waiting /\ Streams /\ Buffer

(* A connection enters the listener's queue once, so the one taken from it *)
(* is not waiting any more, and nothing has been read from it.             *)
LEMMA WaitingStep ==
  ASSUME SessionInv, Waiting, Next
  PROVE  Waiting'
<1> USE DEF Waiting
<1>0. /\ conn \in [Conns -> {"new", "pending", "open", "closed"}]
      /\ backlog \in Seq(Conns) /\ agentfd \in Conns \cup {None}
      /\ None \notin Conns /\ Control /\ Descriptor
  BY SessionAssumption DEF SessionInv, TypeInv, TypeOK, TypePeers, TypeThreads
<1>1. ASSUME TakeConnection
      PROVE  /\ Head(backlog) = backlog[1] /\ backlog' \in Seq(Conns)
             /\ \A i \in 1..Len(backlog') :
                  /\ i + 1 \in 1..Len(backlog) /\ backlog'[i] = backlog[i + 1]
                  /\ backlog'[i] # Head(backlog) /\ conn[backlog'[i]] = "pending"
  BY <1>0, <1>1 DEF TakeConnection
<1>2. CASE Accept \/ Reaccept
  <2>1. TakeConnection /\ conn' = [conn EXCEPT ![Head(backlog)] = "open"]
    BY <1>2 DEF Accept, Reaccept
  <2>2. \A i \in 1..Len(backlog') : conn'[backlog'[i]] = "pending"
    BY <1>0, <1>1, <2>1
  <2>3. \A i, j \in 1..Len(backlog') : backlog'[i] = backlog'[j] => i = j
    BY <1>0, <1>1, <2>1
  <2>4. QED
    BY <2>2, <2>3
<1>3. CASE Evict
  <2>1. /\ TakeConnection
        /\ conn' = [conn EXCEPT ![agentfd] = "closed", ![Head(backlog)] = "open"]
    BY <1>3 DEF Evict
  <2>2. agentfd \in Conns /\ conn[agentfd] = "open"
    BY <1>0, <1>3 DEF Evict, Control, Descriptor, Reading
  <2>3. \A i \in 1..Len(backlog') : conn'[backlog'[i]] = "pending"
    BY <1>0, <1>1, <2>1, <2>2
  <2>4. \A i, j \in 1..Len(backlog') : backlog'[i] = backlog'[j] => i = j
    BY <1>0, <1>1, <2>1
  <2>5. QED
    BY <2>3, <2>4
<1>4. CASE Reset
  <2>1. agentfd \in Conns /\ conn[agentfd] = "open"
    BY <1>0, <1>4 DEF Reset, Control, Descriptor
  <2>2. QED
    BY <1>0, <1>4, <2>1 DEF Reset
<1>5. CASE Restart
  BY <1>5 DEF Restart
<1>6. ASSUME NEW c \in Conns, Connect(c)
      PROVE  Waiting'
  <2>1. \A i \in 1..Len(backlog) : backlog[i] # c
    BY <1>0, <1>6 DEF Connect
  <2>2. /\ Len(backlog') = Len(backlog) + 1 /\ backlog'[Len(backlog) + 1] = c
        /\ \A i \in 1..Len(backlog) : backlog'[i] = backlog[i]
    BY <1>0, <1>6 DEF Connect
  <2>3. conn' = [conn EXCEPT ![c] = "pending"]
    BY <1>6 DEF Connect
  <2>4. \A i \in 1..Len(backlog') : conn'[backlog'[i]] = "pending"
    BY <1>0, <2>1, <2>2, <2>3
  <2>5. \A i, j \in 1..Len(backlog') : backlog'[i] = backlog'[j] => i = j
    BY <1>0, <2>1, <2>2
  <2>6. QED
    BY <2>4, <2>5
<1>7. CASE ReacceptFails \/ SlotQuiet
  BY <1>7 DEF ReacceptFails, SlotQuiet
<1>8. QED
  BY <1>2, <1>3, <1>4, <1>5, <1>6, <1>7, QuietActions

(* Only a close, a read, a viewer's write and the end of the process touch *)
(* the streams, and only the reader touches its buffer.                    *)
LEMMA StreamActions ==
  ASSUME Next
  PROVE  \/ Accept \/ SpawnReader \/ Reset \/ Reaccept \/ ReacceptFails \/ Restart
         \/ Evict \/ EvictReinit \/ Read \/ ReaderLoop \/ ReadEof \/ ParseEnd
         \/ \E k \in AllKinds : TakeFrame(k) /\ ipc' \in {"parse", "enqueue"}
         \/ Enqueue \/ RefreshTiles
         \/ \E c \in Conns : Connect(c) \/ SendChunk(c)
         \/ UNCHANGED <<ipc, ibuf, agentfd, conn, inbox, sent>>
<1> USE DEF mainVars, readerVars, peerVars, viewVars, agentVars
<1>1. CASE \/ InitSize \/ InitResolution \/ InitDisplays \/ InitTiles
           \/ LoopTop \/ LockQueue \/ Drain \/ SendMessage
           \/ NoDisplay \/ SizeCheck \/ Capture \/ CompareImage
           \/ ScreenBuffer \/ NextTile \/ SendTile \/ EndFrame
  BY <1>1 DEF InitSize, InitResolution, InitDisplays, InitTiles,
     LoopTop, LockQueue, Drain, SendMessage, NoDisplay, SizeCheck, Capture,
     CaptureGives, CompareImage, ScreenBuffer, NextTile, SendTile, EndFrame
<1>2. CASE FrameRefresh \/ FrameQuery \/ FrameModifier \/ FrameSelect \/ FrameOther
  BY <1>2 DEF FrameRefresh, FrameQuery, FrameModifier, FrameSelect, FrameOther,
     TakeFrame, AllKinds
<1>3. CASE \/ DisplayChanges
           \/ \E c \in Conns : PeerReads(c) \/ PeerCloses(c)
  BY <1>3 DEF PeerReads, PeerCloses, DisplayChanges
<1>4. QED
  BY <1>1, <1>2, <1>3 DEF Next, Main, Reader, Peer, Join, Die

LEMMA StreamTypes ==
  ASSUME SessionInv
  PROVE  /\ conn \in [Conns -> {"new", "pending", "open", "closed"}]
         /\ inbox \in [Conns -> Seq(Chunk)] /\ sent \in [Conns -> Nat]
         /\ ibuf \in Seq(Chunk) /\ backlog \in Seq(Conns)
         /\ agentfd \in Conns \cup {None} /\ None \notin Conns
         /\ Control /\ Descriptor
         /\ \A c \in Conns : Len(inbox[c]) \in Nat /\ Taken(c) \in Int
BY SessionAssumption
   DEF SessionInv, TypeInv, TypeOK, TypeMessages, TypePeers, TypeThreads, Taken

LEMMA StreamsStep ==
  ASSUME SessionInv, Waiting, Streams, Next
  PROVE  Streams'
<1> USE DEF mainVars, readerVars, peerVars, viewVars, agentVars
<1>0. /\ conn \in [Conns -> {"new", "pending", "open", "closed"}]
      /\ inbox \in [Conns -> Seq(Chunk)] /\ sent \in [Conns -> Nat]
      /\ agentfd \in Conns \cup {None} /\ None \notin Conns
      /\ Control /\ Descriptor
  BY StreamTypes
<1>1. ASSUME UNCHANGED <<inbox, sent>>,
             \A c \in Conns : conn'[c] # "open" => Taken(c) = 0
      PROVE  Streams'
  BY <1>1 DEF Streams, Taken
<1>2. ASSUME NEW d \in Conns, Close(d),
             \A c \in Conns \ {d} : conn'[c] # "open" => conn[c] # "open"
      PROVE  Streams'
  <2> SUFFICES ASSUME NEW c \in Conns
               PROVE  /\ Len(inbox'[c]) <= sent'[c]
                      /\ conn'[c] # "open" => Taken(c)' = 0
                      /\ \A i \in 1..Len(inbox'[c]) :
                           /\ inbox'[c][i].from = c
                           /\ inbox'[c][i].kind = "body" <=> (Taken(c)' + i) % 2 = 0
    BY DEF Streams
  <2>1. CASE c = d
    <3>1. inbox'[c] = <<>> /\ sent'[c] = 0 /\ Len(<<>>) = 0
      BY <1>0, <1>2, <2>1 DEF Close
    <3>2. Len(inbox'[c]) = 0
      BY <3>1, Zenon
    <3>3. Taken(c)' = sent'[c] - Len(inbox'[c])
      BY DEF Taken
    <3>4. Taken(c)' = 0
      BY <3>1, <3>2, <3>3
    <3>5. QED
      BY <3>1, <3>2, <3>4
  <2>2. CASE c # d
    <3>1. inbox'[c] = inbox[c] /\ sent'[c] = sent[c]
      BY <1>0, <1>2, <2>2 DEF Close
    <3>2. QED
      BY <1>2, <2>2, <3>1 DEF Streams, Taken
  <2>3. QED
    BY <2>1, <2>2
<1>3. CASE Accept \/ Reaccept
  BY <1>0, <1>1, <1>3 DEF Accept, Reaccept, Streams
<1>4. CASE Reset
  <2>1. agentfd \in Conns
    BY <1>0, <1>4 DEF Reset, Control
  <2>2. QED
    BY <1>0, <1>2, <1>4, <2>1 DEF Reset
<1>5. CASE Evict
  <2>1. agentfd \in Conns
    BY <1>0, <1>5 DEF Evict, Control, Reading
  <2>2. QED
    BY <1>0, <1>2, <1>5, <2>1 DEF Evict
<1>6. CASE Restart
  <2>1. Len(<<>>) = 0
    OBVIOUS
  <2>2. QED
    BY <1>6, <2>1 DEF Restart, Streams, Taken
<1>7. CASE Read
  <2>1. agentfd \in Conns /\ conn[agentfd] = "open"
    BY <1>0, <1>7 DEF Read, Control, Descriptor, Reading
  <2>2. /\ inbox' = [inbox EXCEPT ![agentfd] = <<>>] /\ Len(<<>>) = 0
        /\ sent' = sent /\ conn' = conn
    BY <1>7 DEF Read
  <2> SUFFICES ASSUME NEW c \in Conns
               PROVE  /\ Len(inbox'[c]) <= sent'[c]
                      /\ conn'[c] # "open" => Taken(c)' = 0
                      /\ \A i \in 1..Len(inbox'[c]) :
                           /\ inbox'[c][i].from = c
                           /\ inbox'[c][i].kind = "body" <=> (Taken(c)' + i) % 2 = 0
    BY DEF Streams
  <2>3. CASE c = agentfd
    BY <1>0, <2>1, <2>2, <2>3 DEF Taken
  <2>4. CASE c # agentfd
    <3>1. inbox'[c] = inbox[c]
      BY <1>0, <2>2, <2>4
    <3>2. QED
      BY <2>2, <3>1 DEF Streams, Taken
  <2>5. QED
    BY <2>3, <2>4
<1>8. ASSUME NEW d \in Conns, SendChunk(d)
      PROVE  Streams'
  <2>1. PICK k \in (IF sent[d] % 2 = 0 THEN Kinds ELSE {"body"}) :
          inbox' = [inbox EXCEPT ![d] = Append(@, [from |-> d, kind |-> k])]
    BY <1>8 DEF SendChunk
  <2>2. sent' = [sent EXCEPT ![d] = @ + 1] /\ conn' = conn
    BY <1>8 DEF SendChunk
  <2>3. k = "body" <=> sent[d] % 2 # 0
    BY <2>1, SessionAssumption DEF AllKinds
  <2> DEFINE n == Len(inbox[d])
             x == [from |-> d, kind |-> k]
  <2>4. /\ inbox'[d] = Append(inbox[d], x) /\ sent'[d] = sent[d] + 1
        /\ \A c \in Conns \ {d} : inbox'[c] = inbox[c] /\ sent'[c] = sent[c]
    BY <1>0, <2>1, <2>2
  <2>5. x \in Chunk /\ inbox[d] \in Seq(Chunk) /\ sent[d] \in Nat /\ n \in Nat
    <3>1. k \in Kinds \cup {"body"}
      BY <2>1
    <3>2. x \in Chunk
      BY <3>1 DEF Chunk
    <3>3. inbox[d] \in Seq(Chunk) /\ sent[d] \in Nat
      BY <1>0
    <3>4. QED
      BY <3>2, <3>3
  <2>6. /\ Len(inbox'[d]) = n + 1 /\ inbox'[d][n + 1] = x
        /\ \A i \in 1..n : inbox'[d][i] = inbox[d][i]
    BY <2>4, <2>5
  <2>7. Taken(d)' = Taken(d) /\ Taken(d) = sent[d] - n /\ n <= sent[d]
    BY <2>4, <2>5, <2>6 DEF Taken, Streams
  <2> HIDE DEF n
  <2>8. k = "body" <=> (Taken(d) + (n + 1)) % 2 = 0
    <3>1. Taken(d) + (n + 1) = sent[d] + 1
      BY <2>5, <2>7
    <3>2. sent[d] % 2 # 0 <=> (sent[d] + 1) % 2 = 0
      BY <2>5
    <3>3. QED
      BY <2>3, <3>1, <3>2
  <2> SUFFICES ASSUME NEW c \in Conns
               PROVE  /\ Len(inbox'[c]) <= sent'[c]
                      /\ conn'[c] # "open" => Taken(c)' = 0
                      /\ \A i \in 1..Len(inbox'[c]) :
                           /\ inbox'[c][i].from = c
                           /\ inbox'[c][i].kind = "body" <=> (Taken(c)' + i) % 2 = 0
    BY DEF Streams
  <2>9. CASE c = d
    <3>1. \A i \in 1..n : /\ inbox'[d][i].from = d
                          /\ inbox'[d][i].kind = "body" <=> (Taken(d) + i) % 2 = 0
      BY <2>6 DEF Streams, n
    <3>2. \A i \in 1..(n + 1) : i \in 1..n \/ i = n + 1
      BY <2>5
    <3>3. conn[d] # "open" => Taken(d) = 0
      BY DEF Streams
    <3>4. Len(inbox'[d]) <= sent'[d]
      BY <2>4, <2>5, <2>6, <2>7
    <3>5. x.from = d /\ x.kind = k
      OBVIOUS
    <3> HIDE DEF x
    <3>6. \A i \in 1..Len(inbox'[d]) :
            /\ inbox'[d][i].from = d
            /\ inbox'[d][i].kind = "body" <=> (Taken(d) + i) % 2 = 0
      BY <2>6, <2>8, <3>1, <3>2, <3>5
    <3>7. QED
      BY <2>2, <2>7, <2>9, <3>3, <3>4, <3>6
  <2>10. CASE c # d
    BY <2>2, <2>4, <2>10 DEF Streams, Taken
  <2>11. QED
    BY <2>9, <2>10
<1>9. CASE \/ SpawnReader \/ ReacceptFails
           \/ EvictReinit \/ ReaderLoop \/ ReadEof \/ ParseEnd
           \/ \E k \in AllKinds : TakeFrame(k)
           \/ Enqueue \/ RefreshTiles
           \/ UNCHANGED <<ipc, ibuf, agentfd, conn, inbox, sent>>
  BY <1>1, <1>9
     DEF SpawnReader, ReacceptFails, EvictReinit, ReaderLoop, ReadEof, ParseEnd,
         TakeFrame, Enqueue, RefreshTiles, Streams
<1>10. ASSUME NEW c \in Conns, Connect(c)
       PROVE  Streams'
  BY <1>0, <1>1, <1>10 DEF Connect, Streams
<1>11. QED
  BY <1>3, <1>4, <1>5, <1>6, <1>7, <1>8, <1>9, <1>10, StreamActions

(* Two places of a stream that are an even number apart hold the same kind. *)
LEMMA Parity ==
  ASSUME NEW a \in Nat, NEW b \in Nat, NEW i \in Nat, (a - b) % 2 = 0
  PROVE  (a + i) % 2 = 0 <=> (b + i) % 2 = 0
<1>1. a + i = (b + i) + (a - b)
  OBVIOUS
<1>2. QED
  BY <1>1

LEMMA BufferStep ==
  ASSUME SessionInv, Waiting, Streams, Buffer, Next
  PROVE  Buffer'
<1> USE DEF mainVars, readerVars, peerVars, viewVars, agentVars, Reading
<1>0. /\ conn \in [Conns -> {"new", "pending", "open", "closed"}]
      /\ inbox \in [Conns -> Seq(Chunk)] /\ sent \in [Conns -> Nat]
      /\ ibuf \in Seq(Chunk)
      /\ backlog \in Seq(Conns)
      /\ agentfd \in Conns \cup {None} /\ None \notin Conns
      /\ Control /\ Descriptor
  BY StreamTypes
<1>1. ASSUME TakeConnection
      PROVE  /\ agentfd' \in Conns /\ Taken(agentfd') = 0
             /\ conn[agentfd'] = "pending"
  <2>1. backlog # <<>> /\ agentfd' = backlog[1]
    BY <1>0, <1>1 DEF TakeConnection
  <2>2. 1 \in 1..Len(backlog) /\ backlog[1] \in Conns
    BY <1>0, <2>1
  <2>3. QED
    BY <2>1, <2>2 DEF Waiting, Streams
<1>2. CASE Accept
  <2>1. Taken(agentfd)' = Taken(agentfd')
    BY <1>2 DEF Accept, Taken
  <2>2. ipc' = "none" /\ Taken(agentfd)' = 0
    BY <1>0, <1>1, <1>2, <2>1 DEF Accept, Control
  <2>3. QED
    BY <2>2 DEF Buffer
<1>3. CASE Reaccept
  <2>1. Taken(agentfd)' = Taken(agentfd')
    BY <1>3 DEF Reaccept, Taken
  <2>2. ibuf' = <<>> /\ Len(ibuf') = 0 /\ ipc' = "loop"
    BY <1>3 DEF Reaccept
  <2>3. Taken(agentfd)' = 0 /\ 0 % 2 = 0
    BY <1>1, <1>3, <2>1 DEF Reaccept
  <2>4. QED
    BY <2>2, <2>3 DEF Buffer
<1>4. CASE Evict
  <2>1. agentfd \in Conns /\ conn[agentfd] = "open"
    BY <1>0, <1>4 DEF Evict, Control, Descriptor
  <2>2. agentfd' \in Conns /\ agentfd' # agentfd /\ Taken(agentfd') = 0
    BY <1>1, <1>4, <2>1 DEF Evict
  <2>3. inbox'[agentfd'] = inbox[agentfd'] /\ sent'[agentfd'] = sent[agentfd']
    BY <1>0, <1>4, <2>2 DEF Evict, Close
  <2>4. QED
    BY <1>4, <2>2, <2>3 DEF Evict, Buffer, Taken
<1>5. CASE Reset \/ ReacceptFails \/ Restart
  BY <1>0, <1>5 DEF Reset, ReacceptFails, Restart, Control, Buffer
<1>6. CASE SpawnReader \/ EvictReinit
  <2>1. /\ ipc \in {"none", "evict"} /\ agentfd # None
        /\ ipc' = "loop" /\ ibuf' = <<>> /\ Len(ibuf') = 0
        /\ agentfd' = agentfd /\ inbox' = inbox /\ sent' = sent
    BY <1>0, <1>6 DEF SpawnReader, EvictReinit, Control
  <2>2. Taken(agentfd)' = 0 /\ 0 % 2 = 0
    BY <2>1 DEF Buffer, Taken
  <2>3. QED
    BY <2>1, <2>2 DEF Buffer
<1>7. CASE Read
  <2>1. agentfd \in Conns /\ agentfd' = agentfd /\ ipc = "poll" /\ ipc' = "parse"
    BY <1>0, <1>7 DEF Read, Control
  <2> DEFINE in == inbox[agentfd]
             m == Len(ibuf)
             n == Len(in)
             t == Taken(agentfd)
  <2>2. /\ in \in Seq(Chunk) /\ m \in Nat /\ n \in Nat /\ sent[agentfd] \in Nat
        /\ t = sent[agentfd] - n /\ n <= sent[agentfd]
        /\ m <= t /\ (t - m) % 2 = 0
    BY <1>0, <2>1 DEF Taken, Buffer, Streams
  <2>3. ibuf' = ibuf \o in /\ inbox'[agentfd] = <<>> /\ sent' = sent
    BY <1>0, <1>7, <2>1 DEF Read
  <2>4. /\ Len(ibuf') = m + n
        /\ \A i \in 1..m : ibuf'[i] = ibuf[i]
        /\ \A i \in 1..n : ibuf'[m + i] = in[i]
    BY <1>0, <2>2, <2>3
  <2>5. Taken(agentfd)' = t + n
    BY <2>1, <2>2, <2>3 DEF Taken
  <2>6. \A i \in 1..m : /\ ibuf'[i].from = agentfd
                        /\ ibuf'[i].kind = "body" <=> i % 2 = 0
    BY <2>1, <2>4 DEF Buffer
  <2>7. \A i \in 1..n : /\ ibuf'[m + i].from = agentfd
                        /\ ibuf'[m + i].kind = "body" <=> (t + i) % 2 = 0
    BY <2>1, <2>4 DEF Streams
  <2> HIDE DEF in, m, n, t
  <2>8. \A i \in 1..n : (t + i) % 2 = 0 <=> (m + i) % 2 = 0
    <3>1. t \in Nat /\ \A i \in 1..n : i \in Nat
      BY <2>2
    <3>2. ASSUME NEW i \in 1..n
          PROVE  (t + i) % 2 = 0 <=> (m + i) % 2 = 0
      BY <2>2, <3>1, Parity
    <3>3. QED
      BY <3>2
  <2>9. \A i \in 1..(m + n) : i \in 1..m \/ (i - m \in 1..n /\ i = m + (i - m))
    BY <2>2
  <2>10. \A i \in 1..(m + n) : /\ ibuf'[i].from = agentfd
                               /\ ibuf'[i].kind = "body" <=> i % 2 = 0
    BY <2>6, <2>7, <2>8, <2>9
  <2>11. m + n <= t + n /\ ((t + n) - (m + n)) % 2 = 0
    BY <2>2
  <2>12. QED
    BY <2>1, <2>4, <2>5, <2>10, <2>11 DEF Buffer
<1>8. ASSUME NEW k \in AllKinds, TakeFrame(k), ipc' \in {"parse", "enqueue"}
      PROVE  Buffer'
  <2>1. agentfd \in Conns /\ ipc = "parse" /\ Len(ibuf) >= 2
    BY <1>0, <1>8 DEF TakeFrame, Control
  <2>2. /\ ibuf' = Tail(Tail(ibuf)) /\ agentfd' = agentfd
        /\ inbox' = inbox /\ sent' = sent
    BY <1>8 DEF TakeFrame
  <2>3. /\ Len(ibuf') = Len(ibuf) - 2 /\ Len(ibuf) \in Nat
        /\ \A i \in 1..Len(ibuf') : ibuf'[i] = ibuf[i + 2]
    <3>1. Len(ibuf) \in Nat
      BY <1>0
    <3>2. /\ Len(Tail(Tail(ibuf))) = Len(ibuf) - 2
          /\ \A i \in 1..Len(ibuf) - 2 : Tail(Tail(ibuf))[i] = ibuf[i + 2]
      BY <1>0, <2>1, TailTail
    <3>3. QED
      BY <2>2, <3>1, <3>2, Zenon
  <2>4. Taken(agentfd)' = Taken(agentfd) /\ Taken(agentfd) \in Int
    BY <1>0, <2>1, <2>2 DEF Taken
  <2>5. /\ Len(ibuf) <= Taken(agentfd) /\ (Taken(agentfd) - Len(ibuf)) % 2 = 0
        /\ \A i \in 1..Len(ibuf) : /\ ibuf[i].from = agentfd
                                   /\ ibuf[i].kind = "body" <=> i % 2 = 0
    BY <2>1 DEF Buffer
  <2>6. Len(ibuf') <= Taken(agentfd) /\ (Taken(agentfd) - Len(ibuf')) % 2 = 0
    BY <2>3, <2>4, <2>5
  <2>7. \A i \in 1..Len(ibuf') :
          i + 2 \in 1..Len(ibuf) /\ ((i + 2) % 2 = 0 <=> i % 2 = 0)
    BY <2>3
  <2>8. \A i \in 1..Len(ibuf') : /\ ibuf'[i].from = agentfd
                                 /\ ibuf'[i].kind = "body" <=> i % 2 = 0
    BY <2>3, <2>5, <2>7
  <2>9. QED
    BY <1>8, <2>2, <2>4, <2>6, <2>8 DEF Buffer
<1>9. ASSUME NEW c \in Conns, SendChunk(c)
      PROVE  Buffer'
  <2>1. UNCHANGED <<ipc, ibuf, agentfd>>
    BY <1>9 DEF SendChunk
  <2>2. ASSUME agentfd \in Conns
        PROVE  Taken(agentfd)' = Taken(agentfd)
    <3>1. CASE agentfd # c
      BY <1>0, <1>9, <2>1, <2>2, <3>1 DEF SendChunk, Taken
    <3>2. CASE agentfd = c
      <4>1. PICK x \in Chunk : inbox' = [inbox EXCEPT ![c] = Append(@, x)]
        <5>1. \A k \in (IF sent[c] % 2 = 0 THEN Kinds ELSE {"body"}) :
                [from |-> c, kind |-> k] \in Chunk
          BY DEF Chunk
        <5>2. QED
          BY <1>9, <5>1 DEF SendChunk
      <4>2. inbox'[c] = Append(inbox[c], x) /\ sent'[c] = sent[c] + 1
        BY <1>0, <1>9, <4>1 DEF SendChunk
      <4>3. Len(inbox'[c]) = Len(inbox[c]) + 1 /\ Len(inbox[c]) \in Nat
        BY <1>0, <4>2
      <4>4. QED
        BY <1>0, <2>1, <3>2, <4>2, <4>3 DEF Taken
    <3>3. QED
      BY <3>1, <3>2
  <2>3. QED
    BY <1>0, <2>1, <2>2 DEF Buffer, Control
<1>10. ASSUME UNCHANGED <<ibuf, agentfd, inbox, sent>>,
              \/ ipc' = ipc
              \/ ipc' = "gone"
              \/ ipc \notin {"none", "evict", "gone"} /\ ipc' \notin {"none", "evict"}
       PROVE  Buffer'
  BY <1>10 DEF Buffer, Taken
<1>11. CASE ReaderLoop \/ ReadEof \/ ParseEnd \/ Enqueue \/ RefreshTiles
  BY <1>10, <1>11 DEF ReaderLoop, ReadEof, ParseEnd, Enqueue, RefreshTiles
<1>12. CASE UNCHANGED <<ipc, ibuf, agentfd, conn, inbox, sent>>
  BY <1>10, <1>12
<1>13. ASSUME NEW c \in Conns, Connect(c)
       PROVE  Buffer'
  BY <1>10, <1>13 DEF Connect
<1>14. QED
  BY <1>2, <1>3, <1>4, <1>5, <1>6, <1>7, <1>8, <1>9, <1>11, <1>12, <1>13,
     StreamActions

(* A frame is parsed from the bytes of the viewer that is served, header   *)
(* first, however its stream was cut into reads and whoever was evicted in *)
(* the middle of a frame: kvm_mainloopinput drops what is left of it.      *)
THEOREM SessionFramesWhole == Spec => []FramesWhole
<1>1. Init => FramesInv
  <2>1. Len(<<>>) = 0
    OBVIOUS
  <2>2. QED
    BY <2>1 DEF Init, FramesInv, Waiting, Streams, Buffer, Taken, Reading
<1>2. ASSUME SessionInv, FramesInv, [Next]_vars
      PROVE  FramesInv'
  <2>1. CASE Next
    BY <1>2, <2>1, WaitingStep, StreamsStep, BufferStep DEF FramesInv
  <2>2. CASE UNCHANGED vars
    BY <1>2, <2>2 DEF FramesInv, Waiting, Streams, Buffer, Taken, Reading, vars,
       mainVars, readerVars, peerVars
  <2>3. QED
    BY <1>2, <2>1, <2>2
<1>3. FramesInv => FramesWhole
  BY DEF FramesInv, Buffer, FramesWhole, Reading
<1>4. QED
  BY <1>1, <1>2, <1>3, SessionInvHolds, PTL DEF Spec
=============================================================================
