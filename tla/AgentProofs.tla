---------------------------- MODULE AgentProofs ----------------------------
(***************************************************************************)
(* Theorems about the two parts of the agent that KvmSession leaves        *)
(* abstract: the buffer in which the reader finds frames, and the list of  *)
(* displays.                                                               *)
(*                                                                         *)
(* FrameReader implements the safety of FrameStream, for every size of the *)
(* buffer and of the header, every set of frame sizes up to that of the    *)
(* buffer and every bound.  The frames sent divide the connection's bytes  *)
(* at edges.  The reader's place in the bytes is always the edge behind    *)
(* the frames it has handled, until a malformed header comes in sight; and *)
(* when it waits with a frame yet to come, the buffer holds less than that *)
(* frame, so there is room.                                                *)
(*                                                                         *)
(* In Displays a number means the display it was told for, for every set   *)
(* of arrangements that the list has room for.  An arrangement has one     *)
(* list in order, so what a thread finds in the list it has rebuilt alone  *)
(* is what another such list was told to be; and two threads that rebuild  *)
(* it together both know.                                                  *)
(***************************************************************************)
EXTENDS FrameReader, Displays, SequenceTheorems, FiniteSetTheorems, TLAPS

-----------------------------------------------------------------------------
(* The buffer of the reader                                                *)

(* the byte behind the first k frames                                      *)
Edge(k) == IF k = 0 THEN 0 ELSE sent[k].at + sent[k].size

Places ==
  /\ pc # "parse" => ptr = 0
  /\ (link = "over") <=> (pc = "ended")
  /\ base + len <= written

(* what the viewer is writing begins behind the frames it has sent         *)
Writing ==
  /\ cur # None => /\ bad = None
                   /\ cur.size \in Sizes
                   /\ cur.at = Edge(Len(sent))
                   /\ cur.at <= written /\ written < cur.at + cur.size
  /\ bad # None => /\ bad.at = Edge(Len(sent)) /\ bad.at <= written
                   /\ bad.size \in Claims
                   /\ link # "open"
  /\ cur = None /\ bad = None => written = Edge(Len(sent))
  /\ link = "broken" => bad # None

Edges ==
  /\ \A i \in 1..Len(sent) : sent[i].size \in Sizes /\ sent[i].at = Edge(i - 1)
  /\ \A i, j \in 0..Len(sent) : i < j => Edge(i) < Edge(j)

AtEdge ==
  /\ Len(out) <= Len(sent)
  /\ \A i \in 1..Len(out) : out[i] = sent[i]
  /\ IF Sound(base + ptr) THEN base + ptr = Edge(Len(out))
                          ELSE Len(out) = Len(sent)

(* the buffer holds less than the next frame                               *)
RoomForNext ==
  (pc = "poll" /\ Sound(base) /\ Len(out) < Len(sent)) =>
    len < sent[Len(out) + 1].size

ReaderInv == TypeOK /\ Places /\ Writing /\ Edges /\ AtEdge /\ RoomForNext

-----------------------------------------------------------------------------
(* A frame has at least a header and at most a buffer; a claim is a number. *)
LEMMA SizesFit ==
  /\ \A s \in Sizes : s \in Nat /\ s >= Header /\ s > 0 /\ s <= Cap
  /\ \A s \in Claims : s \in Nat
BY ReaderAssumption

(* None is no frame *)
LEMMA NoneIsNoFrame == None \notin Frame
BY ReaderAssumption DEF Frame

LEMMA EdgeTypes ==
  ASSUME TypeOK
  PROVE  \A k \in 0..Len(sent) : Edge(k) \in Nat
<1>1. Len(sent) \in Nat /\ \A i \in 1..Len(sent) : sent[i] \in Frame
  BY ElementOfSeq, LenProperties DEF TypeOK
<1>2. QED
  BY <1>1 DEF Edge, Frame

-----------------------------------------------------------------------------
(* Types                                                                   *)

LEMMA TypeStep ==
  ASSUME TypeOK, Next
  PROVE  TypeOK'
<1> USE DEF readerVars, viewerVars
<1>1. Header \in Nat \ {0} /\ Cap \in Nat
  BY ReaderAssumption
<1>2. ASSUME NEW s \in Nat, Begin(s) \/ BeginBad(s)
      PROVE  TypeOK'
  BY <1>2 DEF Begin, BeginBad, TypeOK, Frame
<1>3. ASSUME NEW n \in Nat, Write(n)
      PROVE  TypeOK'
  <2>1. cur \in Frame
    BY <1>3 DEF Write, TypeOK
  <2>2. sent' \in Seq(Frame)
    BY <1>3, <2>1, AppendProperties DEF Write, TypeOK
  <2>3. QED
    BY <1>3, <2>2 DEF Write, TypeOK
<1>4. ASSUME NEW n \in Nat, WriteGarbage(n)
      PROVE  TypeOK'
  BY <1>4 DEF WriteGarbage, TypeOK
<1>5. CASE CloseEnd \/ ReadNothing
  BY <1>5 DEF CloseEnd, ReadNothing, TypeOK
<1>6. ASSUME NEW n \in Nat, Read(n)
      PROVE  TypeOK'
  BY <1>1, <1>6 DEF Read, TypeOK, Min2
<1>7. ASSUME NEW s \in Nat, HandleFrame(s)
      PROVE  TypeOK'
  <2>1. ptr + s \in 0..len /\ [at |-> base + ptr, size |-> s] \in Frame
    BY <1>1, <1>7 DEF HandleFrame, TypeOK, Frame
  <2>2. out' \in Seq(Frame)
    BY <1>7, <2>1, AppendProperties DEF HandleFrame, TypeOK
  <2>3. QED
    BY <1>7, <2>1, <2>2 DEF HandleFrame, TypeOK
<1>8. CASE Compact
  <2>1. base + ptr \in Nat /\ len - ptr \in 0..Cap
    BY <1>1 DEF TypeOK
  <2>2. QED
    BY <1>8, <2>1 DEF Compact, TypeOK
<1>9. CASE EvictFor \/ Reaccept
  <2>1. sent' = <<>> /\ out' = <<>> /\ base' = 0 /\ len' = 0 /\ ptr' = 0
    BY <1>9 DEF EvictFor, Reaccept, NewViewer
  <2>2. QED
    BY <1>1, <1>9, <2>1, EmptySeq DEF EvictFor, Reaccept, NewViewer, TypeOK
<1>10. 1..Cap \subseteq Nat /\ 1..MaxGarbage \subseteq Nat
  BY ReaderAssumption
<1>11. QED
  BY <1>2, <1>3, <1>4, <1>5, <1>6, <1>7, <1>8, <1>9, <1>10, SizesFit
     DEF Next, Viewer, Reader

(* Every variable keeps its type: what is in the buffer never goes past its
   end, whatever the lengths of reads and the sizes that headers claim
   (mac_kvm.c:955-1000). *)
THEOREM ReaderTypeOK == Spec => []TypeOK
<1>1. Init => TypeOK
  BY ReaderAssumption, EmptySeq DEF Init, TypeOK
<1>2. TypeOK /\ [Next]_vars => TypeOK'
  <2>1. CASE UNCHANGED vars
    BY <2>1 DEF vars, readerVars, viewerVars, TypeOK
  <2>2. QED
    BY <2>1, TypeStep
<1>3. QED
  BY <1>1, <1>2, PTL DEF Spec

-----------------------------------------------------------------------------
(* What the edges say                                                      *)

(* A count of frames that ends at the last edge counts them all. *)
LEMMA LastEdge ==
  ASSUME TypeOK, Edges, NEW k \in 0..Len(sent), Edge(k) >= Edge(Len(sent))
  PROVE  k = Len(sent)
<1>1. Len(sent) \in Nat
  BY LenProperties DEF TypeOK
<1>2. Edge(k) \in Nat /\ Edge(Len(sent)) \in Nat
  BY <1>1, EdgeTypes
<1>3. k < Len(sent) => Edge(k) < Edge(Len(sent))
  BY <1>1 DEF Edges
<1>4. QED
  BY <1>1, <1>2, <1>3

(* Every edge has been written up to. *)
LEMMA EdgesWritten ==
  ASSUME TypeOK, Writing, Edges, NEW k \in 0..Len(sent)
  PROVE  Edge(k) <= written
<1>1. Len(sent) \in Nat
  BY LenProperties DEF TypeOK
<1>2. Edge(Len(sent)) <= written
  <2>1. CASE cur # None
    BY <2>1 DEF Writing
  <2>2. CASE bad # None
    BY <2>2 DEF Writing
  <2>3. CASE cur = None /\ bad = None
    BY <2>3 DEF Writing, TypeOK
  <2>4. QED
    BY <2>1, <2>2, <2>3
<1>3. k < Len(sent) => Edge(k) < Edge(Len(sent))
  BY <1>1 DEF Edges
<1>4. Edge(k) \in Nat /\ Edge(Len(sent)) \in Nat /\ written \in Nat
  BY <1>1, EdgeTypes DEF TypeOK
<1>5. QED
  BY <1>1, <1>2, <1>3, <1>4

(* Where a frame begins, a header can only say that frame's size. *)
LEMMA ClaimOfFrame ==
  ASSUME TypeOK, Writing, Edges, NEW k \in 1..Len(sent),
         NEW s \in ClaimAt(sent[k].at)
  PROVE  s = sent[k].size
<1>1. Len(sent) \in Nat /\ \A i \in 1..Len(sent) : sent[i] \in Frame
  BY ElementOfSeq, LenProperties DEF TypeOK
<1>2. DOMAIN sent = 1..Len(sent)
  BY LenProperties DEF TypeOK
<1>3. \A i \in 0..Len(sent) : Edge(i) \in Nat
  BY EdgeTypes
<1>4. ASSUME NEW f \in SentAt(sent[k].at)
      PROVE  f = sent[k]
  <2>1. sent[k].at = Edge(k - 1) /\ Edge(k - 1) < Edge(Len(sent))
    BY <1>1 DEF Edges
  <2>2. ASSUME NEW j \in 1..Len(sent), sent[j].at = sent[k].at
        PROVE  j = k
    <3>1. Edge(j - 1) = Edge(k - 1)
      BY <2>2 DEF Edges
    <3>2. ~(j - 1 < k - 1) /\ ~(k - 1 < j - 1)
      <4>1. j - 1 \in 0..Len(sent) /\ k - 1 \in 0..Len(sent)
        BY <1>1
      <4>2. Edge(j - 1) \in Nat
        BY <1>3, <4>1
      <4>3. QED
        BY <3>1, <4>1, <4>2 DEF Edges
    <3>3. QED
      BY <1>1, <3>2
  <2>3. ASSUME f \in {cur, bad} \ {None}, f.at = sent[k].at
        PROVE  FALSE
    <3>1. f.at = Edge(Len(sent))
      BY <2>3 DEF Writing
    <3>2. Edge(Len(sent)) \in Nat
      BY <1>1, <1>3
    <3>3. QED
      BY <2>1, <2>3, <3>1, <3>2
  <2>4. QED
    BY <1>2, <2>2, <2>3 DEF SentAt
<1>5. sent[k] \in SentAt(sent[k].at)
  BY <1>2 DEF SentAt
<1>6. QED
  BY <1>4, <1>5 DEF ClaimAt

(* Before anything malformed, the reader has an edge in front of it, and if *)
(* frames are to come, the next of them.                                   *)
LEMMA NextAt ==
  ASSUME TypeOK, Edges, AtEdge, Sound(base + ptr), Len(out) < Len(sent)
  PROVE  /\ Len(out) + 1 \in 1..Len(sent)
         /\ base + ptr = sent[Len(out) + 1].at
<1>1. Len(sent) \in Nat /\ Len(out) \in Nat
  BY LenProperties DEF TypeOK
<1>2. (Len(out) + 1) - 1 = Len(out)
  BY <1>1
<1>3. QED
  BY <1>1, <1>2 DEF Edges, AtEdge

(* A whole frame in the buffer is the next one that was sent. *)
LEMMA NextFrame ==
  ASSUME ReaderInv, Sound(base + ptr), NEW s \in ClaimAt(base + ptr),
         len - ptr >= Header, s <= len - ptr
  PROVE  Len(out) < Len(sent) /\ s = sent[Len(out) + 1].size
<1> USE DEF ReaderInv
<1>1. Len(sent) \in Nat /\ Len(out) \in Nat
  BY LenProperties DEF TypeOK
<1>2. CASE Len(out) < Len(sent)
  BY <1>2, NextAt, ClaimOfFrame
<1>3. CASE Len(out) = Len(sent)
  <2>1. base + ptr = Edge(Len(sent))
    BY <1>3 DEF AtEdge
  <2>2. base + ptr < written
    BY ReaderAssumption DEF TypeOK, Places
  <2>3. cur # None /\ bad = None
    <3>1. base + ptr \in Nat /\ written \in Nat
      BY DEF TypeOK
    <3>2. CASE bad # None
      <4>1. bad.at = base + ptr
        BY <2>1, <3>2 DEF Writing
      <4>2. QED
        BY <3>1, <3>2, <4>1 DEF Sound
    <3>3. CASE cur = None /\ bad = None
      BY <2>1, <2>2, <3>1, <3>3 DEF Writing
    <3>4. QED
      BY <3>2, <3>3
  <2>4. SentAt(base + ptr) = {cur}
    <3>1. cur.at = base + ptr
      BY <2>1, <2>3 DEF Writing
    <3>2. ASSUME NEW i \in 1..Len(sent), sent[i].at = base + ptr
          PROVE  FALSE
      <4>1. i - 1 \in 0..Len(sent) /\ i - 1 < Len(sent)
        BY <1>1
      <4>2. Edge(i - 1) = Edge(Len(sent))
        BY <2>1, <3>2 DEF Edges
      <4>3. QED
        BY <1>1, <4>1, <4>2, LastEdge, EdgeTypes
    <3>3. DOMAIN sent = 1..Len(sent)
      BY LenProperties DEF TypeOK
    <3>4. QED
      BY <2>3, <3>1, <3>2, <3>3 DEF SentAt
  <2>5. s = cur.size /\ cur.at = base + ptr
    BY <2>1, <2>3, <2>4 DEF ClaimAt, Writing
  <2>6. s \in Nat
    BY <2>3, <2>5, SizesFit DEF Writing
  <2>7. QED
    BY <2>3, <2>5, <2>6 DEF Writing, Places, TypeOK
<1>4. QED
  BY <1>1, <1>2, <1>3 DEF AtEdge

-----------------------------------------------------------------------------
(* The viewer's steps                                                      *)

(* A frame written whole is one more edge. *)
LEMMA WholeFrame ==
  ASSUME ReaderInv, NEW n \in 1..Cap, Write(n), sent' = Append(sent, cur),
         written' = cur.at + cur.size
  PROVE  /\ Len(sent') = Len(sent) + 1 /\ Len(sent) \in Nat
         /\ \A k \in 0..Len(sent) : Edge(k)' = Edge(k)
         /\ Edge(Len(sent))' = written'
         /\ \A i \in 1..Len(sent) : sent'[i] = sent[i]
         /\ sent'[Len(sent) + 1] = cur
         /\ Edges'
<1> USE DEF ReaderInv
<1>0. cur \in Frame /\ cur # None
  BY DEF Write, TypeOK
<1>1. /\ Len(sent) \in Nat /\ Len(sent') = Len(sent) + 1
      /\ \A i \in 1..Len(sent) : sent'[i] = sent[i]
      /\ sent'[Len(sent) + 1] = cur
  BY <1>0, AppendProperties, LenProperties DEF TypeOK
<1>2. \A k \in 0..Len(sent) : Edge(k)' = Edge(k)
  BY <1>1 DEF Edge
<1>3. Edge(Len(sent))' = cur.at + cur.size
  BY <1>1 DEF Edge
<1>4. /\ cur.size \in Nat /\ cur.size > 0 /\ cur.size \in Sizes
      /\ cur.at = Edge(Len(sent)) /\ cur.at \in Nat
  BY <1>0, SizesFit DEF Writing, Frame
<1>5. ASSUME NEW i \in 1..Len(sent')
      PROVE  sent'[i].size \in Sizes /\ sent'[i].at = Edge(i - 1)'
  <2>1. CASE i = Len(sent) + 1
    BY <1>1, <1>2, <1>4, <2>1
  <2>2. CASE i \in 1..Len(sent)
    BY <1>1, <1>2, <2>2 DEF Edges
  <2>3. QED
    BY <1>1, <2>1, <2>2
<1>6. ASSUME NEW i \in 0..Len(sent'), NEW j \in 0..Len(sent'), i < j
      PROVE  Edge(i)' < Edge(j)'
  <2>1. i \in 0..Len(sent)
    BY <1>1, <1>6
  <2>2. CASE j = Len(sent) + 1
    <3>0. Edge(j)' = cur.at + cur.size
      BY <1>1, <1>3, <2>2
    <3>1. Edge(i) \in Nat /\ Edge(Len(sent)) \in Nat
      BY <1>1, <2>1, EdgeTypes
    <3>2. i < Len(sent) => Edge(i) < Edge(Len(sent))
      BY <1>1, <2>1 DEF Edges
    <3>3. QED
      BY <1>1, <1>2, <1>4, <2>1, <3>0, <3>1, <3>2
  <2>3. CASE j \in 0..Len(sent)
    BY <1>2, <1>6, <2>1, <2>3 DEF Edges
  <2>4. QED
    BY <1>1, <2>2, <2>3
<1>7. QED
  BY <1>1, <1>2, <1>3, <1>5, <1>6 DEF Edges

LEMMA ViewerStep ==
  ASSUME ReaderInv, Viewer
  PROVE  Places' /\ Writing' /\ Edges' /\ AtEdge' /\ RoomForNext'
<1> USE DEF ReaderInv, readerVars, viewerVars
<1>1. Len(sent) \in Nat /\ Len(out) \in Nat /\ written \in Nat
      /\ base + len \in Nat /\ base + ptr \in Nat /\ base \in Nat
  BY LenProperties DEF TypeOK
<1>2. ASSUME NEW s \in Sizes, Begin(s)
      PROVE  Places' /\ Writing' /\ Edges' /\ AtEdge' /\ RoomForNext'
  <2>1. cur' = [at |-> written, size |-> s] /\ bad = None /\ bad' = None
        /\ written = Edge(Len(sent)) /\ link = "open" /\ link' = "open"
    BY <1>2 DEF Begin, Writing
  <2>2. Writing'
    BY <1>1, <1>2, <2>1, SizesFit DEF Begin, Writing, Edge
  <2>3. QED
    BY <1>2, <2>2 DEF Begin, Places, Edges, Edge, AtEdge, RoomForNext, Sound
<1>3. ASSUME NEW s \in Claims, BeginBad(s)
      PROVE  Places' /\ Writing' /\ Edges' /\ AtEdge' /\ RoomForNext'
  <2>1. /\ bad' = [at |-> written, size |-> s] /\ bad = None /\ cur' = None
        /\ written = Edge(Len(sent)) /\ link' = "broken" /\ link = "open"
        /\ Sound(base + ptr) /\ Sound(base)
    BY <1>3 DEF BeginBad, Writing, Sound
  <2>2. bad' # None
    BY <1>1, <2>1, SizesFit, NoneIsNoFrame DEF Frame
  <2>3. Places' /\ Writing' /\ Edges' /\ RoomForNext'
    BY <1>1, <1>3, <2>1, <2>2 DEF BeginBad, Places, Writing, Edges, Edge,
       RoomForNext
  <2>4. Sound(base + ptr)' <=> base + ptr < written
    BY <1>3, <2>1, <2>2 DEF BeginBad, Sound
  <2>5. base + ptr >= written => Len(out) = Len(sent)
    BY <1>1, <2>1, LastEdge DEF AtEdge
  <2>6. AtEdge'
    BY <1>1, <1>3, <2>1, <2>4, <2>5 DEF BeginBad, AtEdge, Edge
  <2>7. QED
    BY <2>3, <2>6
<1>4. ASSUME NEW n \in 1..Cap, Write(n)
      PROVE  Places' /\ Writing' /\ Edges' /\ AtEdge' /\ RoomForNext'
  <2>0. /\ link = "open" /\ cur # None /\ bad = None /\ bad' = None
        /\ written' = written + n /\ n > 0 /\ n \in Nat
        /\ written' <= cur.at + cur.size
        /\ UNCHANGED <<pc, base, len, ptr, bad, out, link>>
    BY <1>4, ReaderAssumption DEF Write, Writing
  <2>1. Places'
    BY <1>1, <2>0 DEF Places
  <2>2. CASE sent' = Append(sent, cur) /\ cur' = None
             /\ written' = cur.at + cur.size
    <3>1. /\ Len(sent') = Len(sent) + 1 /\ Edges'
          /\ \A k \in 0..Len(sent) : Edge(k)' = Edge(k)
          /\ Edge(Len(sent))' = written'
          /\ \A i \in 1..Len(sent) : sent'[i] = sent[i]
          /\ sent'[Len(sent) + 1] = cur
      BY <1>4, <2>2, WholeFrame
    <3>2. Writing'
      BY <2>0, <2>2, <3>1 DEF Writing
    <3>3. AtEdge'
      BY <1>1, <2>0, <3>1 DEF AtEdge, Sound
    <3>4. RoomForNext'
      <4>1. ASSUME pc = "poll"
            PROVE  len < sent'[Len(out) + 1].size
        <5>1. CASE Len(out) < Len(sent)
          <6>1. Len(out) + 1 \in 1..Len(sent) /\ Sound(base)
            BY <1>1, <2>0, <5>1 DEF Sound
          <6>2. QED
            BY <3>1, <4>1, <5>1, <6>1 DEF RoomForNext
        <5>2. CASE Len(out) = Len(sent)
          <6>1. base = cur.at
            BY <1>1, <2>0, <4>1, <5>2 DEF AtEdge, Sound, Places, Writing, TypeOK
          <6>2. base + len < cur.at + cur.size /\ cur.size \in Nat
            BY <1>1, <2>0, <6>1, SizesFit DEF Places, Writing
          <6>3. QED
            BY <1>1, <3>1, <5>2, <6>1, <6>2 DEF TypeOK
        <5>3. QED
          BY <1>1, <5>1, <5>2 DEF AtEdge
      <4>2. QED
        BY <2>0, <4>1 DEF RoomForNext
    <3>5. QED
      BY <2>1, <3>1, <3>2, <3>3, <3>4
  <2>3. CASE sent' = sent /\ cur' = cur /\ written' # cur.at + cur.size
    <3>1. cur.at \in Nat /\ cur.size \in Nat
      BY <2>0 DEF TypeOK, Frame
    <3>2. Writing'
      BY <1>1, <2>0, <2>3, <3>1 DEF Writing, Edge
    <3>3. QED
      BY <2>0, <2>1, <2>3, <3>2 DEF Edges, Edge, AtEdge, RoomForNext, Sound
  <2>4. QED
    BY <1>4, <2>2, <2>3 DEF Write
<1>5. ASSUME NEW n \in 1..MaxGarbage, WriteGarbage(n)
      PROVE  Places' /\ Writing' /\ Edges' /\ AtEdge' /\ RoomForNext'
  <2>1. /\ link = "broken" /\ bad # None /\ cur = None
        /\ written' = written + n /\ n \in Nat
        /\ UNCHANGED <<pc, base, len, ptr, cur, bad, sent, out, link>>
    BY <1>5, ReaderAssumption DEF WriteGarbage, Writing
  <2>2. bad.at \in Nat
    BY <2>1 DEF TypeOK, Frame
  <2>3. Places' /\ Writing'
    BY <1>1, <2>1, <2>2 DEF Places, Writing, Edge
  <2>4. QED
    BY <2>1, <2>3 DEF Edges, Edge, AtEdge, RoomForNext, Sound
<1>6. CASE CloseEnd
  BY <1>6 DEF CloseEnd, Places, Writing, Edges, Edge, AtEdge, RoomForNext, Sound
<1>7. QED
  BY <1>2, <1>3, <1>4, <1>5, <1>6 DEF Viewer

-----------------------------------------------------------------------------
(* The reader's steps                                                      *)

(* Handling a frame moves the reader to the next edge. *)
LEMMA HandleStep ==
  ASSUME ReaderInv, NEW s \in Sizes \cup Claims, HandleFrame(s)
  PROVE  AtEdge'
<1> USE DEF ReaderInv, readerVars, viewerVars
<1>1. /\ Len(sent) \in Nat /\ Len(out) \in Nat /\ s \in Nat
      /\ base + ptr \in Nat /\ len - ptr >= Header /\ s <= len - ptr
      /\ s \in ClaimAt(base + ptr)
      /\ base' + ptr' = (base + ptr) + s
  BY LenProperties, SizesFit DEF TypeOK, HandleFrame
<1>2. \A k \in Nat : Edge(k)' = Edge(k)
  BY DEF HandleFrame, Edge
<1>3. CASE Sound(base + ptr)
  <2>1. /\ Len(out) < Len(sent) /\ s = sent[Len(out) + 1].size
        /\ base + ptr = sent[Len(out) + 1].at
        /\ Len(out) + 1 \in 1..Len(sent)
    BY <1>1, <1>3, NextFrame, NextAt
  <2>2. sent[Len(out) + 1] \in Frame
    BY <2>1, ElementOfSeq DEF TypeOK
  <2>3. [at |-> base + ptr, size |-> s] = sent[Len(out) + 1]
    BY <2>1, <2>2 DEF Frame
  <2>4. out' = Append(out, sent[Len(out) + 1]) /\ sent' = sent
    BY <1>3, <2>3 DEF HandleFrame
  <2>5. /\ Len(out') = Len(out) + 1
        /\ \A i \in 1..Len(out) : out'[i] = out[i]
        /\ out'[Len(out) + 1] = sent[Len(out) + 1]
    BY <2>2, <2>4, AppendProperties DEF TypeOK
  <2>6. /\ Len(out') <= Len(sent')
        /\ \A i \in 1..Len(out') : out'[i] = sent'[i]
    BY <1>1, <2>1, <2>4, <2>5 DEF AtEdge
  <2>7. base' + ptr' = Edge(Len(out) + 1)
    BY <1>1, <2>1 DEF Edge
  <2>8. CASE Sound(base + ptr)'
    <3>1. base' + ptr' = Edge(Len(out))'
      BY <1>1, <1>2, <2>5, <2>7
    <3>2. QED
      BY <2>6, <2>8, <3>1 DEF AtEdge
  <2>9. CASE ~Sound(base + ptr)'
    <3>1. bad # None /\ ~(base' + ptr' < bad.at)
      BY <2>9 DEF HandleFrame, Sound
    <3>2. bad.at = Edge(Len(sent)) /\ bad.at \in Nat /\ base' + ptr' \in Nat
      BY <1>1, <3>1 DEF Writing, TypeOK, Frame
    <3>3. Edge(Len(out) + 1) >= Edge(Len(sent))
      BY <2>7, <3>1, <3>2
    <3>4. Len(out) + 1 = Len(sent)
      BY <1>1, <2>1, <3>3, LastEdge
    <3>5. QED
      BY <2>4, <2>5, <2>6, <2>9, <3>4 DEF AtEdge
  <2>10. QED
    BY <2>8, <2>9
<1>4. CASE ~Sound(base + ptr)
  <2>1. bad # None /\ bad.at \in Nat
    BY <1>4 DEF Sound, TypeOK, Frame
  <2>2. ~Sound(base + ptr)'
    BY <1>1, <1>4, <2>1 DEF Sound, HandleFrame
  <2>3. QED
    BY <1>4, <2>2 DEF AtEdge, HandleFrame
<1>5. QED
  BY <1>3, <1>4

(* What is left in the buffer after a call that returns 0 is less than the *)
(* next frame.                                                             *)
LEMMA CompactStep ==
  ASSUME ReaderInv, Compact
  PROVE  RoomForNext'
<1> USE DEF ReaderInv, viewerVars
<1> SUFFICES ASSUME Sound(base + ptr), Len(out) < Len(sent)
             PROVE  len - ptr < sent[Len(out) + 1].size
  <2>1. base' = base + ptr /\ len' = len - ptr
    BY DEF Compact
  <2>2. QED
    BY <2>1 DEF Compact, RoomForNext, Sound
<1>1. /\ Len(out) + 1 \in 1..Len(sent)
      /\ base + ptr = sent[Len(out) + 1].at
  BY NextAt
<1>2. sent[Len(out) + 1].size \in Sizes
  BY <1>1 DEF Edges
<1>3. len - ptr \in Nat /\ Header \in Nat
  BY ReaderAssumption DEF TypeOK
<1>4. CASE len - ptr < Header
  BY <1>2, <1>3, <1>4, SizesFit
<1>5. ASSUME NEW s \in ClaimAt(base + ptr), s > len - ptr \/ s = 0
      PROVE  len - ptr < sent[Len(out) + 1].size
  <2>1. s = sent[Len(out) + 1].size
    BY <1>1, ClaimOfFrame
  <2>2. QED
    BY <1>2, <1>3, <1>5, <2>1, SizesFit
<1>6. QED
  BY <1>4, <1>5 DEF Compact

(* A read returns 0 only behind the last frame. *)
LEMMA NothingMeansEnd ==
  ASSUME ReaderInv, ReadNothing
  PROVE  Len(out) = Len(sent) /\ link \in {"broken", "closed"}
<1> USE DEF ReaderInv
<1>1. /\ Len(sent) \in Nat /\ Len(out) \in Nat /\ Len(out) <= Len(sent)
      /\ base \in Nat /\ len \in Nat /\ written \in Nat /\ ptr = 0
      /\ base + ptr = base /\ pc = "poll" /\ Cap \in Nat
  BY LenProperties, ReaderAssumption DEF TypeOK, AtEdge, Places, ReadNothing
<1>2. Len(out) = Len(sent)
  <2>1. SUFFICES ASSUME Len(out) < Len(sent), Sound(base)
                 PROVE  FALSE
    BY <1>1 DEF AtEdge
  <2>2. /\ Len(out) + 1 \in 1..Len(sent)
        /\ base = sent[Len(out) + 1].at
    BY <1>1, <2>1, NextAt
  <2>3. len < sent[Len(out) + 1].size /\ sent[Len(out) + 1].size \in Sizes
    BY <1>1, <2>1, <2>2 DEF RoomForNext, Edges
  <2>4. Edge(Len(out) + 1) = base + sent[Len(out) + 1].size
    BY <1>1, <2>2 DEF Edge
  <2>5. base + sent[Len(out) + 1].size <= written
    <3>1. Len(out) + 1 \in 0..Len(sent)
      BY <1>1, <2>1
    <3>2. QED
      BY <2>4, <3>1, EdgesWritten
  <2>6. Arrived /\ len # Cap
    BY <1>1, <2>3, <2>5, SizesFit DEF Arrived
  <2>7. QED
    BY <2>6 DEF ReadNothing
<1>3. link # "open"
  <2>1. SUFFICES ASSUME link = "open"
                 PROVE  FALSE
    OBVIOUS
  <2>2. len = Cap /\ written > base + len
    BY <2>1 DEF ReadNothing, Arrived
  <2>3. bad = None /\ base = Edge(Len(sent))
    BY <1>1, <1>2, <2>1 DEF Writing, AtEdge, Sound
  <2>4. CASE cur = None
    BY <1>1, <2>2, <2>3, <2>4 DEF Writing
  <2>5. CASE cur # None
    BY <1>1, <2>2, <2>3, <2>5, SizesFit DEF Writing
  <2>6. QED
    BY <2>4, <2>5
<1>4. QED
  BY <1>1, <1>2, <1>3 DEF TypeOK, Places

LEMMA ReaderStep ==
  ASSUME ReaderInv, Reader
  PROVE  Places' /\ Writing' /\ Edges' /\ AtEdge' /\ RoomForNext'
<1> USE DEF ReaderInv, readerVars, viewerVars
<1>0. base \in Nat /\ len \in Nat /\ ptr \in Nat /\ written \in Nat
  BY DEF TypeOK
<1>1. ASSUME NEW n \in 1..Cap, Read(n)
      PROVE  Places' /\ Writing' /\ Edges' /\ AtEdge' /\ RoomForNext'
  <2>1. n \in Nat /\ Cap - len \in Int
    BY <1>0, ReaderAssumption
  <2>2. Places'
    BY <1>0, <1>1, <2>1 DEF Read, Places, Min2
  <2>3. QED
    BY <1>1, <2>2 DEF Read, Writing, Edges, Edge, AtEdge, RoomForNext, Sound
<1>2. CASE ReadNothing
  BY <1>2 DEF ReadNothing, Places, Writing, Edges, Edge, AtEdge, RoomForNext,
     Sound
<1>3. ASSUME NEW s \in Sizes \cup Claims, HandleFrame(s)
      PROVE  Places' /\ Writing' /\ Edges' /\ AtEdge' /\ RoomForNext'
  BY <1>3, HandleStep DEF HandleFrame, Places, Writing, Edges, Edge, RoomForNext
<1>4. CASE Compact
  <2>1. base' = base + ptr /\ len' = len - ptr /\ ptr' = 0
        /\ pc = "parse" /\ pc' = "poll"
    BY <1>4 DEF Compact
  <2>2. base' + ptr' = base + ptr /\ base' + len' = base + len
    BY <1>0, <2>1
  <2>3. AtEdge'
    BY <1>4, <2>2 DEF Compact, AtEdge, Edge, Sound
  <2>4. QED
    BY <1>4, <2>1, <2>2, <2>3, CompactStep DEF Compact, Places, Writing, Edges,
       Edge
<1>5. QED
  BY <1>1, <1>2, <1>3, <1>4 DEF Reader

(* A new viewer finds the state of the first *)
LEMMA FreshStart ==
  ASSUME sent = <<>>, out = <<>>, base = 0, len = 0, ptr = 0, written = 0,
         cur = None, bad = None, link = "open", pc = "poll"
  PROVE  Places /\ Writing /\ Edges /\ AtEdge /\ RoomForNext
<1>1. Len(sent) = 0 /\ Len(out) = 0
  BY EmptySeq
<1>2. QED
  BY <1>1 DEF Places, Writing, Edges, Edge, AtEdge, RoomForNext, Sound

LEMMA TurnStep ==
  ASSUME ReaderInv, EvictFor \/ Reaccept
  PROVE  Places' /\ Writing' /\ Edges' /\ AtEdge' /\ RoomForNext'
<1>1. /\ sent' = <<>> /\ out' = <<>> /\ base' = 0 /\ len' = 0 /\ ptr' = 0
      /\ written' = 0 /\ cur' = None /\ bad' = None /\ link' = "open"
      /\ pc' = "poll"
  BY DEF EvictFor, Reaccept, NewViewer
<1>2. Len(sent') = 0 /\ Len(out') = 0
  BY <1>1, EmptySeq
<1>3. QED
  BY <1>1, <1>2 DEF Places, Writing, Edges, Edge, AtEdge, RoomForNext, Sound

LEMMA ReaderInvHolds == Spec => []ReaderInv
<1>1. Init => ReaderInv
  BY FreshStart, ReaderAssumption, EmptySeq DEF Init, ReaderInv, TypeOK
<1>2. ReaderInv /\ [Next]_vars => ReaderInv'
  <2>1. CASE UNCHANGED vars
    BY <2>1 DEF vars, readerVars, viewerVars, ReaderInv, TypeOK, Places,
       Writing, Edges, Edge, AtEdge, RoomForNext, Sound
  <2>2. QED
    BY <2>1, TypeStep, ViewerStep, ReaderStep, TurnStep DEF ReaderInv, Next
<1>3. QED
  BY <1>1, <1>2, PTL DEF Spec

-----------------------------------------------------------------------------
(* The steps, seen as the stream's                                         *)

LEMMA StreamStep ==
  ASSUME ReaderInv, Next
  PROVE  [Stream!StreamNext]_(Stream!streamVars)
<1> USE DEF ReaderInv, readerVars, viewerVars, Stream!streamVars
<1>1. Len(sent) \in Nat /\ Len(out) \in Nat
  BY LenProperties DEF TypeOK
<1>2. ASSUME NEW n \in 1..Cap, Write(n), sent' = Append(sent, cur)
      PROVE  Stream!Put
  <2>1. cur \in Frame /\ link = "open"
    BY <1>2 DEF Write, TypeOK
  <2>2. /\ Len(sent') = Len(sent) + 1 /\ sent' \in Seq(Frame)
        /\ \A i \in 1..Len(sent) : sent'[i] = sent[i]
    BY <1>2, <2>1, AppendProperties DEF TypeOK
  <2>3. SubSeq(sent', 1, Len(sent)) = sent
    <3>1. \A i \in 1..Len(sent) : sent'[i] \in Frame
      BY <1>1, <2>2, ElementOfSeq
    <3>2. /\ SubSeq(sent', 1, Len(sent)) \in Seq(Frame)
          /\ Len(SubSeq(sent', 1, Len(sent))) = Len(sent)
          /\ \A i \in 1..Len(sent) : SubSeq(sent', 1, Len(sent))[i] = sent'[i]
      BY <1>1, <3>1, SubSeqProperties
    <3>3. QED
      BY <2>2, <3>2, SeqEqual DEF TypeOK
  <2>4. QED
    BY <1>2, <2>1, <2>2, <2>3 DEF Write, Stream!Put
<1>3. ASSUME NEW n \in 1..Cap, Write(n), sent' = sent
      PROVE  UNCHANGED Stream!streamVars
  BY <1>3 DEF Write
<1>4. ASSUME NEW s, Begin(s)
      PROVE  UNCHANGED Stream!streamVars
  BY <1>4 DEF Begin
<1>5. ASSUME NEW s, BeginBad(s)
      PROVE  Stream!Break
  BY <1>5 DEF BeginBad, Stream!Break
<1>6. ASSUME NEW n, WriteGarbage(n) \/ Read(n) \/ Compact
      PROVE  UNCHANGED Stream!streamVars
  BY <1>6 DEF WriteGarbage, Read, Compact
<1>7. CASE CloseEnd
  <2>1. Stream!Close
    BY <1>7 DEF CloseEnd, Stream!Close
  <2>2. QED
    BY <2>1 DEF Stream!StreamNext
<1>8. CASE ReadNothing
  <2>1. Len(out) = Len(sent) /\ link \in {"broken", "closed"}
    BY <1>8, NothingMeansEnd
  <2>2. out = sent
    BY <2>1, SeqEqual DEF AtEdge, TypeOK
  <2>3. Stream!GiveUp
    BY <1>8, <2>1, <2>2 DEF ReadNothing, Stream!GiveUp
  <2>4. QED
    BY <2>3 DEF Stream!StreamNext
<1>9. ASSUME NEW s \in Sizes \cup Claims, HandleFrame(s)
      PROVE  Stream!Handle \/ UNCHANGED Stream!streamVars
  <2>1. CASE ~Sound(base + ptr)
    BY <1>9, <2>1 DEF HandleFrame
  <2>2. CASE Sound(base + ptr)
    <3>1. /\ Len(out) < Len(sent) /\ s = sent[Len(out) + 1].size
          /\ base + ptr = sent[Len(out) + 1].at
          /\ Len(out) + 1 \in 1..Len(sent)
      BY <1>9, <2>2, NextFrame, NextAt DEF HandleFrame
    <3>2. sent[Len(out) + 1] \in Frame
      BY <3>1, ElementOfSeq DEF TypeOK
    <3>3. [at |-> base + ptr, size |-> s] = sent[Len(out) + 1]
      BY <3>1, <3>2 DEF Frame
    <3>4. out' = Append(out, sent[Len(out) + 1])
      BY <1>9, <2>2, <3>3 DEF HandleFrame
    <3>5. link # "over"
      BY <1>9 DEF HandleFrame, Places
    <3>6. QED
      BY <1>9, <3>1, <3>4, <3>5 DEF HandleFrame, Stream!Handle
  <2>3. QED
    BY <2>1, <2>2
<1>10. CASE EvictFor \/ Reaccept
  <2>1. Stream!Turn
    BY <1>10 DEF EvictFor, Reaccept, NewViewer, Stream!Turn
  <2>2. QED
    BY <2>1 DEF Stream!StreamNext
<1>11. ASSUME NEW n \in 1..Cap, Write(n)
       PROVE  sent' = Append(sent, cur) \/ sent' = sent
  BY <1>11 DEF Write
<1>12. QED
  BY <1>2, <1>3, <1>4, <1>5, <1>6, <1>7, <1>8, <1>9, <1>10, <1>11
     DEF Next, Viewer, Reader, Stream!StreamNext

(* However reads cut the bytes, and whatever a viewer sends behind its last
   good frame: frames are handled whole, once and in order, and a read that
   returns 0 with the buffer full never ends a connection that is well formed
   (mac_kvm.c:898-1000). *)
THEOREM ReaderHandlesStream == Spec => HandlesStream
<1>1. Init => Stream!StreamInit
  BY DEF Init, Stream!StreamInit
<1>2. ReaderInv /\ [Next]_vars => [Stream!StreamNext]_(Stream!streamVars)
  <2>1. CASE UNCHANGED vars
    BY <2>1 DEF vars, readerVars, viewerVars, Stream!streamVars
  <2>2. QED
    BY <2>1, StreamStep
<1>3. QED
  BY <1>1, <1>2, ReaderInvHolds, PTL DEF Spec, HandlesStream, Stream!StreamSafe

-----------------------------------------------------------------------------
(* The list of displays: smallest elements, orders, and their uniqueness   *)

(* Any finite set that is not empty has a least element in a total order.   *)
LEMMA Extreme ==
  ASSUME NEW S, IsFiniteSet(S), S # {}, NEW R,
         \A a \in S : <<a, a>> \in R,
         \A a, b \in S : <<a, b>> \in R \/ <<b, a>> \in R,
         \A a, b, c \in S : <<a, b>> \in R /\ <<b, c>> \in R => <<a, c>> \in R
  PROVE  \E m \in S : \A a \in S : <<m, a>> \in R
<1> DEFINE Below == {T \in SUBSET S : \A a \in S : \E b \in T : <<b, a>> \in R}
<1>1. S \in Below /\ Below \subseteq FiniteSubsetsOf(S)
  BY FS_Subset DEF FiniteSubsetsOf
<1>2. PICK T \in Below : \A U \in Below : <<U, T>> \notin StrictSubsetOrdering(S)
  <2> HIDE DEF Below
  <2>1. IsWellFoundedOn(StrictSubsetOrdering(S), FiniteSubsetsOf(S))
    BY FS_StrictSubsetOrderingWellFounded
  <2>2. QED
    BY <1>1, <2>1, WFMin
<1>3. PICK m \in T : TRUE
  OBVIOUS
<1>4. ASSUME NEW a \in S
      PROVE  <<m, a>> \in R
  <2>1. PICK b \in T : <<b, a>> \in R
    OBVIOUS
  <2>2. m \in S /\ b \in S
    OBVIOUS
  <2>3. CASE <<m, b>> \in R
    BY <2>1, <2>2, <2>3
  <2>4. CASE <<m, b>> \notin R
    <3>1. <<b, m>> \in R /\ b # m
      BY <2>2, <2>4
    <3>2. \A c \in S : \E d \in T \ {m} : <<d, c>> \in R
      BY <2>2, <3>1
    <3>3. T \ {m} \in Below
      BY <3>2
    <3>4. <<T \ {m}, T>> \in StrictSubsetOrdering(S)
      BY <1>3 DEF StrictSubsetOrdering
    <3>5. QED
      BY <1>2, <3>3, <3>4
  <2>5. QED
    BY <2>3, <2>4
<1>5. QED
  BY <1>4

LEMMA SmallestIs ==
  ASSUME NEW S \in SUBSET Int, IsFiniteSet(S), S # {}
  PROVE  Smallest(S) \in S /\ \A y \in S : Smallest(S) <= y
<1> DEFINE R == {p \in S \X S : p[1] <= p[2]}
<1>1. \A a, b \in S : <<a, b>> \in R <=> a <= b
  OBVIOUS
<1>2. /\ \A a \in S : <<a, a>> \in R
      /\ \A a, b \in S : <<a, b>> \in R \/ <<b, a>> \in R
      /\ \A a, b, c \in S : <<a, b>> \in R /\ <<b, c>> \in R => <<a, c>> \in R
  BY <1>1
<1> HIDE DEF R
<1>3. \E m \in S : \A a \in S : <<m, a>> \in R
  BY <1>2, Extreme
<1>4. \E m \in S : \A y \in S : m <= y
  BY <1>1, <1>3
<1>5. QED
  BY <1>4 DEF Smallest

LEMMA LargestIs ==
  ASSUME NEW S \in SUBSET Int, IsFiniteSet(S), S # {}
  PROVE  Largest(S) \in S /\ \A y \in S : Largest(S) >= y
<1> DEFINE R == {p \in S \X S : p[1] >= p[2]}
<1>1. \A a, b \in S : <<a, b>> \in R <=> a >= b
  OBVIOUS
<1>2. /\ \A a \in S : <<a, a>> \in R
      /\ \A a, b \in S : <<a, b>> \in R \/ <<b, a>> \in R
      /\ \A a, b, c \in S : <<a, b>> \in R /\ <<b, c>> \in R => <<a, c>> \in R
  BY <1>1
<1> HIDE DEF R
<1>3. \E m \in S : \A a \in S : <<m, a>> \in R
  BY <1>2, Extreme
<1>4. \E m \in S : \A y \in S : m >= y
  BY <1>1, <1>3
<1>5. QED
  BY <1>4 DEF Largest

(* An order of a finite set lists each element once.                       *)
LEMMA OrdersOf ==
  ASSUME NEW S, IsFiniteSet(S), NEW s \in Orders(S)
  PROVE  /\ Cardinality(S) \in Nat /\ s \in [1 .. Cardinality(S) -> S]
         /\ DOMAIN s = 1 .. Cardinality(S)
         /\ s \in Seq(S) /\ Len(s) = Cardinality(S)
         /\ \A d \in S : \E i \in DOMAIN s : s[i] = d
         /\ \A i, j \in DOMAIN s : s[i] = s[j] => i = j
<1> DEFINE n == Cardinality(S)
<1>1. n \in Nat
  BY FS_CardinalityType
<1>2. s \in [1 .. n -> S] /\ \A d \in S : \E i \in DOMAIN s : s[i] = d
  BY DEF Orders
<1>3. IsFiniteSet(1 .. n) /\ Cardinality(1 .. n) = n
  BY <1>1, FS_Interval
<1>4. s \in Injection(1 .. n, S)
  <2>1. s \in Surjection(1 .. n, S)
    BY <1>2 DEF Surjection
  <2>2. QED
    BY <1>3, <2>1, FS_SurjSameCardinalityImpliesInj
<1>5. \A i, j \in 1 .. n : s[i] = s[j] => i = j
  BY <1>2, <1>4 DEF Injection, IsInjective
<1>6. s \in Seq(S) /\ Len(s) = n
  BY <1>1, <1>2, SeqDef, LenProperties
<1>7. QED
  BY <1>1, <1>2, <1>5, <1>6
(* What an arrangement says of the displays in it, and of one that is gone. *)
LEMMA LayoutIs ==
  ASSUME layout \in Layouts
  PROVE  /\ layout.on \subseteq Screens /\ IsFiniteSet(Shown)
         /\ Shown \subseteq layout.on /\ Main \in Shown
         /\ \A d : Left(d) \in Int /\ Top(d) \in Int /\ Right(d) \in Int
         /\ \A d : Left(d) <= Right(d)
         /\ \A d \in layout.on : layout.scale[d] \in Nat \ {0}
         /\ \A a, b \in Shown : Left(a) = Left(b) /\ Top(a) = Top(b) => a = b
<1>1. Layout(layout)
  BY DisplaysAssumption
<1>2. layout.on \subseteq Screens /\ Shown \subseteq layout.on /\ Main \in Shown
  BY <1>1 DEF Layout, Shown, Main
<1>3. IsFiniteSet(Shown)
  BY <1>1, FS_Difference DEF Layout, Shown
<1>4. \A d \in layout.on : /\ layout.x[d] \in Int /\ layout.y[d] \in Int
                           /\ layout.width[d] \in Nat \ {0}
                           /\ layout.scale[d] \in Nat \ {0}
  BY <1>1 DEF Layout
<1>5. /\ \A d : Left(d) \in Int /\ Top(d) \in Int /\ Right(d) \in Int
      /\ \A d : Left(d) <= Right(d)
  BY <1>4 DEF Left, Top, Right
<1>6. \A a, b \in Shown : Left(a) = Left(b) /\ Top(a) = Top(b) => a = b
  <2>1. \A a \in Shown : Left(a) = layout.x[a] /\ Top(a) = layout.y[a]
    BY <1>2 DEF Left, Top
  <2>2. QED
    BY <1>1, <2>1 DEF Layout, Shown
<1>7. QED
  BY <1>2, <1>3, <1>4, <1>5, <1>6

(* Before is a strict order of the displays shown, and total on them.       *)
LEMMA BeforeIs ==
  ASSUME layout \in Layouts
  PROVE  /\ \A a, b \in Shown : ~(Before(a, b) /\ Before(b, a))
         /\ \A a, b \in Shown : a = b \/ Before(a, b) \/ Before(b, a)
BY LayoutIs DEF Before

(* the lists of the displays shown that are in order                        *)
Sorted ==
  {s \in Orders(Shown) : \A i, j \in DOMAIN s : i < j => Before(s[i], s[j])}

(* There is but one such list.                                              *)
LEMMA OneOrder ==
  ASSUME layout \in Layouts, NEW s \in Sorted, NEW t \in Sorted
  PROVE  s = t
<1> DEFINE n == Cardinality(Shown)
           Differ == {i \in 1 .. n : s[i] # t[i]}
<1>1. IsFiniteSet(Shown) /\ s \in Orders(Shown) /\ t \in Orders(Shown)
  BY LayoutIs DEF Sorted
<1>2. /\ n \in Nat /\ s \in [1 .. n -> Shown] /\ t \in [1 .. n -> Shown]
      /\ DOMAIN s = 1 .. n /\ DOMAIN t = 1 .. n
      /\ \A d \in Shown : \E i \in 1 .. n : s[i] = d
      /\ \A d \in Shown : \E i \in 1 .. n : t[i] = d
      /\ \A i, j \in 1 .. n : s[i] = s[j] => i = j
      /\ \A i, j \in 1 .. n : t[i] = t[j] => i = j
  <2>1. /\ n \in Nat /\ s \in [1 .. n -> Shown]
        /\ DOMAIN s = 1 .. n
        /\ \A d \in Shown : \E i \in DOMAIN s : s[i] = d
        /\ \A i, j \in DOMAIN s : s[i] = s[j] => i = j
    BY <1>1, OrdersOf
  <2>2. /\ t \in [1 .. n -> Shown]
        /\ DOMAIN t = 1 .. n
        /\ \A d \in Shown : \E i \in DOMAIN t : t[i] = d
        /\ \A i, j \in DOMAIN t : t[i] = t[j] => i = j
    BY <1>1, OrdersOf
  <2> HIDE DEF n
  <2>3. QED
    BY <2>1, <2>2
<1>3. /\ \A i, j \in 1 .. n : i < j => Before(s[i], s[j])
      /\ \A i, j \in 1 .. n : i < j => Before(t[i], t[j])
  BY <1>2 DEF Sorted
<1> HIDE DEF n
<1>4. ASSUME Differ # {}
      PROVE  FALSE
  <2>1. Differ \in SUBSET Int /\ Differ \in SUBSET (1 .. n) /\ IsFiniteSet(1 .. n)
    BY <1>2, FS_Interval
  <2>2. IsFiniteSet(Differ)
    BY <2>1, FS_Subset
  <2> DEFINE k == Smallest(Differ)
  <2>3. k \in Differ /\ \A i \in Differ : k <= i
    BY <1>4, <2>1, <2>2, SmallestIs
  <2> HIDE DEF k
  <2>4. k \in 1 .. n /\ s[k] # t[k] /\ \A i \in 1 .. n : i < k => s[i] = t[i]
    BY <1>2, <2>3
  <2>5. s[k] \in Shown /\ t[k] \in Shown
    BY <1>2, <2>4
  <2>6. PICK i \in 1 .. n : s[i] = t[k]
    BY <1>2, <2>5
  <2>7. PICK j \in 1 .. n : t[j] = s[k]
    BY <1>2, <2>5
  <2>8. i # k /\ ~(i < k) /\ j # k /\ ~(j < k)
    <3>1. i # k /\ j # k
      BY <2>4, <2>6, <2>7
    <3>2. i < k => t[i] = t[k]
      BY <2>4, <2>6
    <3>3. j < k => s[j] = s[k]
      BY <2>4, <2>7
    <3>4. QED
      BY <1>2, <2>4, <3>1, <3>2, <3>3
  <2>9. k < i /\ k < j
    BY <1>2, <2>4, <2>8
  <2>10. Before(s[k], t[k]) /\ Before(t[k], s[k])
    BY <1>3, <2>4, <2>6, <2>7, <2>9
  <2>11. QED
    BY <2>5, <2>10, BeforeIs
<1>5. \A i \in 1 .. n : s[i] = t[i]
  BY <1>4
<1>6. QED
  BY <1>2, <1>5
(* What the displays measured come to.                                      *)
LEMMA SelectedIs ==
  ASSUME layout \in Layouts, list \in Seq(Screens)
  PROVE  /\ Selected \in Screens
         /\ \A i \in DOMAIN list : list[i] \in Screens
         /\ IsFiniteSet(Listed) /\ Listed \subseteq Screens
<1>1. Main \in Screens
  BY LayoutIs
<1>2. Len(list) \in Nat /\ DOMAIN list = 1 .. Len(list) /\ list \in [DOMAIN list -> Screens]
  BY LenProperties
<1>3. IsFiniteSet(DOMAIN list)
  <2>0. 1 \in Int /\ Len(list) \in Int
    BY <1>2
  <2>1. IsFiniteSet(1 .. Len(list))
    BY <2>0, FS_Interval
  <2>2. QED
    BY <1>2, <2>1
<1>4. list \in Surjection(DOMAIN list, Listed)
  BY <1>2 DEF Listed, Surjection
<1>5. IsFiniteSet(Listed)
  BY <1>3, <1>4, FS_Surjection
<1>6. QED
  BY <1>1, <1>2, <1>5 DEF Listed, Selected

LEMMA CoveredIs ==
  ASSUME layout \in Layouts, list \in Seq(Screens)
  PROVE  IsFiniteSet(Covered) /\ Covered # {}
<1>1. list # <<>> => Listed # {}
  <2>1. list # <<>> => 1 \in DOMAIN list
    BY EmptySeq, LenProperties
  <2>2. QED
    BY <2>1 DEF Listed
<1>2. QED
  BY <1>1, SelectedIs, FS_Singleton DEF Covered

LEMMA WidthIs ==
  ASSUME layout \in Layouts, NEW S, IsFiniteSet(S), S # {}
  PROVE  LeftOf(S) \in Int /\ Width(S) \in Nat
<1> DEFINE lefts == {Left(d) : d \in S}
           rights == {Right(d) : d \in S}
<1>1. /\ lefts \in SUBSET Int /\ rights \in SUBSET Int
      /\ lefts # {} /\ rights # {}
  BY LayoutIs
<1>2. IsFiniteSet(lefts)
  <2>1. [d \in S |-> Left(d)] \in Surjection(S, lefts)
    BY DEF Surjection
  <2>2. QED
    BY <2>1, FS_Surjection
<1>3. IsFiniteSet(rights)
  <2>1. [d \in S |-> Right(d)] \in Surjection(S, rights)
    BY DEF Surjection
  <2>2. QED
    BY <2>1, FS_Surjection
<1>4. PICK d \in S : TRUE
  OBVIOUS
<1>5. Left(d) \in lefts /\ Right(d) \in rights
  OBVIOUS
<1>6. LeftOf(S) = Smallest(lefts) /\ RightOf(S) = Largest(rights)
  BY DEF LeftOf, RightOf
<1> HIDE DEF lefts, rights
<1>7. LeftOf(S) \in Int /\ LeftOf(S) <= Left(d)
  <2>1. Smallest(lefts) \in lefts /\ \A y \in lefts : Smallest(lefts) <= y
    BY <1>1, <1>2, SmallestIs
  <2>2. QED
    BY <1>1, <1>5, <1>6, <2>1
<1>8. RightOf(S) \in Int /\ RightOf(S) >= Right(d)
  <2>1. Largest(rights) \in rights /\ \A y \in rights : Largest(rights) >= y
    BY <1>1, <1>3, LargestIs
  <2>2. QED
    BY <1>1, <1>5, <1>6, <2>1
<1>9. Left(d) \in Int /\ Right(d) \in Int /\ Left(d) <= Right(d)
  BY LayoutIs
<1>10. QED
  BY <1>7, <1>8, <1>9 DEF Width

LEMMA ScaleIs ==
  ASSUME layout \in Layouts, list \in Seq(Screens),
         cache \in [id : Screens \cup {0}, scale : Nat \ {0}]
  PROVE  /\ SelectedScale \in Nat \ {0}
         /\ CacheLeft \in [id : Screens \cup {0}, scale : Nat \ {0}]
<1>1. Asked \in Seq(Screens)
  BY SelectedIs DEF Asked
<1>2. /\ Len(Asked) \in Nat /\ DOMAIN Asked = 1 .. Len(Asked)
      /\ \A i \in DOMAIN Asked : Asked[i] \in Screens
  BY <1>1, LenProperties
<1>3. \A i \in DOMAIN Asked : DisplayScale(i) \in Nat \ {0}
  BY LayoutIs DEF DisplayScale
<1> DEFINE scales == {DisplayScale(i) : i \in DOMAIN Asked}
<1>4. IsFiniteSet(scales)
  <2>1. [i \in DOMAIN Asked |-> DisplayScale(i)] \in Surjection(DOMAIN Asked, scales)
    BY DEF Surjection
  <2>2. IsFiniteSet(DOMAIN Asked)
    BY <1>2, FS_Interval
  <2>3. QED
    BY <2>1, <2>2, FS_Surjection
<1>5. IsFiniteSet({1} \cup scales)
  <2>1. IsFiniteSet(scales \cup {1})
    BY <1>4, FS_AddElement
  <2>2. {1} \cup scales = scales \cup {1}
    OBVIOUS
  <2>3. QED
    BY <2>1, <2>2
<1>6. {1} \cup scales \in SUBSET Int /\ {1} \cup scales \subseteq Nat \ {0}
  BY <1>3
<1>7. SelectedScale = Largest({1} \cup scales)
  BY DEF SelectedScale
<1> HIDE DEF scales
<1>8. SelectedScale \in Nat \ {0}
  BY <1>5, <1>6, <1>7, LargestIs
<1>9. CacheLeft \in [id : Screens \cup {0}, scale : Nat \ {0}]
  <2>1. Asked # <<>> => Len(Asked) \in DOMAIN Asked
    BY <1>1, <1>2, EmptySeq
  <2>2. QED
    BY <1>2, <1>3, <2>1 DEF CacheLeft
<1>10. QED
  BY <1>8, <1>9
(* Rebuilding the list keeps it a list of displays that fits.               *)
LEMMA FillLists ==
  ASSUME DisplaysTypeOK, NEW t \in Threads, Fill(t)
  PROVE  list' \in Seq(Screens) /\ Len(list') \in 0 .. KVM_MAX_DISPLAYS
<1> DEFINE max == KVM_MAX_DISPLAYS
<1>1. PICK s \in Orders(Shown) :
        list' = IF Len(list \o s) <= max THEN list \o s ELSE SubSeq(list \o s, 1, max)
  BY DEF Fill
<1>2. layout \in Layouts /\ list \in Seq(Screens) /\ max \in Nat \ {0}
  BY DisplaysAssumption DEF DisplaysTypeOK
<1>3. s \in Seq(Screens)
  <2>1. IsFiniteSet(Shown) /\ Shown \subseteq Screens
    BY <1>2, LayoutIs
  <2>2. s \in Seq(Shown)
    BY <2>1, OrdersOf
  <2>3. QED
    BY <2>1, <2>2, SeqMonotonic
<1>4. list \o s \in Seq(Screens) /\ Len(list \o s) \in Nat
  BY <1>2, <1>3, ConcatProperties, LenProperties
<1> HIDE DEF max
<1>5. CASE Len(list \o s) <= max
  BY <1>1, <1>2, <1>4, <1>5 DEF max
<1>6. CASE ~(Len(list \o s) <= max)
  <2>1. \A i \in 1 .. max : (list \o s)[i] \in Screens
    BY <1>2, <1>4, <1>6, ElementOfSeq
  <2>2. /\ SubSeq(list \o s, 1, max) \in Seq(Screens)
        /\ Len(SubSeq(list \o s, 1, max)) = max
    <3>1. 1 \in Int /\ max \in Int /\ 1 <= max /\ max - 1 + 1 = max
      BY <1>2
    <3>2. QED
      BY <2>1, <3>1, SubSeqProperties
  <2>3. QED
    BY <1>1, <1>2, <1>6, <2>2 DEF max
<1>7. QED
  BY <1>5, <1>6

LEMMA OrderLists ==
  ASSUME DisplaysTypeOK, NEW t \in Threads, Order(t)
  PROVE  list' \in Seq(Screens) /\ Len(list') \in 1 .. KVM_MAX_DISPLAYS
<1>1. PICK p \in Orders(DOMAIN list) :
        list' = IF list = <<>> THEN <<Main>> ELSE [i \in DOMAIN list |-> list[p[i]]]
  BY DEF Order
<1>2. /\ layout \in Layouts /\ KVM_MAX_DISPLAYS \in Nat \ {0}
      /\ list \in Seq(Screens) /\ Len(list) <= KVM_MAX_DISPLAYS
  BY DisplaysAssumption DEF DisplaysTypeOK
<1>3. CASE list = <<>>
  <2>1. Main \in Screens
    BY <1>2, LayoutIs
  <2>2. QED
    BY <1>1, <1>2, <1>3, <2>1
<1>4. CASE list # <<>>
  <2> DEFINE n == Len(list)
  <2>1. n \in Nat \ {0} /\ DOMAIN list = 1 .. n /\ list \in [1 .. n -> Screens]
    BY <1>2, <1>4, EmptySeq, LenProperties
  <2>2. IsFiniteSet(1 .. n) /\ Cardinality(1 .. n) = n
    BY <2>1, FS_Interval
  <2>3. p \in [1 .. n -> 1 .. n]
    BY <2>1, <2>2, OrdersOf
  <2>4. list' \in [1 .. n -> Screens]
    BY <1>1, <1>4, <2>1, <2>3
  <2>5. list' \in Seq(Screens) /\ Len(list') = n
    BY <2>1, <2>4, SeqDef, LenProperties
  <2>6. QED
    BY <1>2, <2>1, <2>5
<1>5. QED
  BY <1>3, <1>4

(* Each step keeps the types.                                               *)
LEMMA DisplaysTypeStep ==
  ASSUME DisplaysTypeOK, DisplaysNext
  PROVE  DisplaysTypeOK'
<1> USE DEF envVars, geomVars, threadVars, viewVars, Go
<1>1. /\ layout \in Layouts /\ list \in Seq(Screens)
      /\ cache \in [id : Screens \cup {0}, scale : Nat \ {0}]
      /\ KVM_MAX_DISPLAYS \in Nat \ {0} /\ Numbers \subseteq Nat
      /\ MaxChanges \in Nat /\ MaxRequests \in Nat
      /\ Len(list) \in Nat
  BY DisplaysAssumption, LenProperties DEF DisplaysTypeOK
<1>2. ASSUME NEW t \in Threads, NEW S, S \subseteq {"crossed", "moved"}
      PROVE  [seen EXCEPT ![t] = S, ![Other(t)] = @ \cup S]
               \in [Threads -> SUBSET {"crossed", "moved"}]
  BY <1>2 DEF DisplaysTypeOK, Threads, Other
<1>3. ASSUME NEW t \in Threads, Start(t)
      PROVE  seen' \in [Threads -> SUBSET {"crossed", "moved"}]
  BY <1>2, <1>3 DEF Start
<1>4. ASSUME NEW t \in Threads, Clear(t)
      PROVE  DisplaysTypeOK'
  <2>1. list' \in Seq(Screens) /\ Len(list') = 0
    BY <1>4, EmptySeq DEF Clear
  <2>2. QED
    BY <1>1, <1>4, <2>1 DEF Clear, DisplaysTypeOK, PC
<1>5. ASSUME NEW t \in Threads, Fill(t)
      PROVE  DisplaysTypeOK'
  <2>1. list' \in Seq(Screens) /\ Len(list') <= KVM_MAX_DISPLAYS
    BY <1>1, <1>5, FillLists
  <2>2. QED
    BY <1>5, <2>1 DEF Fill, DisplaysTypeOK, PC
<1>6. ASSUME NEW t \in Threads, Order(t)
      PROVE  DisplaysTypeOK'
  <2>1. list' \in Seq(Screens) /\ Len(list') \in 1 .. KVM_MAX_DISPLAYS
    BY <1>6, OrderLists
  <2>2. sel' \in 0 .. KVM_MAX_DISPLAYS
    BY <1>1, <1>6, <2>1 DEF Order, DisplaysTypeOK
  <2>3. at' \in [Threads -> PC]
    BY <1>6 DEF Order, DisplaysTypeOK
  <2>4. QED
    BY <1>1, <1>6, <2>1, <2>2, <2>3 DEF Order, DisplaysTypeOK
<1>7. ASSUME NEW t \in Threads, Advertise(t)
      PROVE  DisplaysTypeOK'
  <2>1. at' \in [Threads -> PC]
    BY <1>7 DEF Advertise, DisplaysTypeOK, Threads, PC
  <2>2. /\ told' \in [size : Nat, list : Seq(Screens), sel : Nat]
        /\ told'.sel \in 0 .. Len(told'.list)
    <3>1. PICK s \in Seq(Screens), n \in Nat :
            n <= Len(s) /\ told' = [told EXCEPT !.list = s, !.sel = n]
      <4>1. CASE Len(list) <= 1
        <5>1. <<>> \in Seq(Screens) /\ 0 \in Nat /\ 0 <= Len(<<>>)
          BY EmptySeq
        <5>2. told' = [told EXCEPT !.list = <<>>, !.sel = 0]
          BY <1>7, <4>1 DEF Advertise
        <5>3. QED
          BY <5>1, <5>2, Zenon
      <4>2. CASE ~(Len(list) <= 1)
        <5>1. told' = [told EXCEPT !.list = list,
                                   !.sel = IF sel <= Len(list) THEN sel ELSE 1]
          BY <1>7, <4>2 DEF Advertise
        <5>2. /\ (IF sel <= Len(list) THEN sel ELSE 1) \in Nat
              /\ (IF sel <= Len(list) THEN sel ELSE 1) <= Len(list)
          BY <1>1, <4>2 DEF DisplaysTypeOK
        <5>3. QED
          BY <1>1, <5>1, <5>2
      <4>3. QED
        BY <4>1, <4>2
    <3>2. told \in [size : Nat, list : Seq(Screens), sel : Nat]
      BY DEF DisplaysTypeOK
    <3>3. /\ told' \in [size : Nat, list : Seq(Screens), sel : Nat]
          /\ told'.list = s /\ told'.sel = n
      BY <3>1, <3>2
    <3>4. Len(s) \in Nat
      BY LenProperties
    <3>5. QED
      BY <3>1, <3>3, <3>4
  <2>3. seen' \in [Threads -> SUBSET {"crossed", "moved"}] /\ trust' \in BOOLEAN
    BY <1>7 DEF Advertise, DisplaysTypeOK
  <2>4. QED
    BY <1>7, <2>1, <2>2, <2>3 DEF Advertise, DisplaysTypeOK
<1>8. CASE InitNum
  BY <1>1, <1>8, SelectedIs DEF InitNum, DisplaysTypeOK, PC
<1>9. CASE InitOrigin
  <2>1. origin' \in Int
    BY <1>1, <1>9, CoveredIs, WidthIs DEF InitOrigin
  <2>2. QED
    BY <1>9, <2>1 DEF InitOrigin, DisplaysTypeOK, PC
<1>10. CASE InitSize
  <2>1. Width(Covered) \in Nat
    BY <1>1, CoveredIs, WidthIs
  <2>2. /\ scale' \in Nat \ {0}
        /\ cache' \in [id : Screens \cup {0}, scale : Nat \ {0}]
    BY <1>1, <1>10, ScaleIs DEF InitSize
  <2>3. size' \in Nat
    BY <1>10, <2>1, <2>2 DEF InitSize
  <2>4. /\ told' \in [size : Nat, list : Seq(Screens), sel : Nat]
        /\ told'.sel \in 0 .. Len(told'.list)
    BY <1>10, <2>3 DEF InitSize, DisplaysTypeOK
  <2>5. QED
    BY <1>10, <2>2, <2>3, <2>4 DEF InitSize, DisplaysTypeOK, PC
<1>11. CASE Look
  BY <1>1, <1>11, SelectedIs DEF Look, DisplaysTypeOK, PC
<1>12. CASE Measure
  <2>1. cache' \in [id : Screens \cup {0}, scale : Nat \ {0}]
    BY <1>1, <1>12, ScaleIs DEF Measure
  <2>2. /\ at' \in [Threads -> PC] /\ ret' \in [Threads -> PC]
        /\ seen' \in [Threads -> SUBSET {"crossed", "moved"}]
    BY <1>3, <1>12 DEF Measure, DisplaysTypeOK, Threads, PC
  <2>3. QED
    BY <1>12, <2>1, <2>2 DEF Measure, DisplaysTypeOK
<1>13. CASE Capture
  <2>1. cache' \in [id : Screens \cup {0}, scale : Nat \ {0}]
    BY <1>1, <1>13, ScaleIs DEF Capture
  <2>2. shown' \subseteq Screens
    BY <1>1, <1>13, LayoutIs DEF Capture, DisplaysTypeOK
  <2>3. QED
    BY <1>13, <2>1, <2>2 DEF Capture, DisplaysTypeOK, PC
<1>14. ASSUME NEW next \in {"advertise", "set"}, NEW v \in Nat, Request(next, v)
       PROVE  DisplaysTypeOK'
  <2>1. seen' \in [Threads -> SUBSET {"crossed", "moved"}]
    BY <1>3, <1>14 DEF Request, Threads
  <2>2. requests' \in 0 .. MaxRequests /\ arg' \in Nat
    BY <1>1, <1>14 DEF Request, DisplaysTypeOK
  <2>3. QED
    BY <1>14, <2>1, <2>2 DEF Request, DisplaysTypeOK, PC
<1>15. CASE Select
  <2>1. sel' \in 0 .. KVM_MAX_DISPLAYS
    BY <1>1, <1>15 DEF Select, DisplaysTypeOK
  <2>2. seen' \in [Threads -> SUBSET {"crossed", "moved"}]
    BY <1>15 DEF Select, DisplaysTypeOK
  <2>3. QED
    BY <1>15, <2>1, <2>2 DEF Select, DisplaysTypeOK, PC
<1>16. ASSUME NEW l \in Layouts, Rearrange(l)
       PROVE  DisplaysTypeOK'
  <2>1. seen' \in [Threads -> SUBSET {"crossed", "moved"}]
    BY <1>16 DEF Rearrange, DisplaysTypeOK
  <2>2. layout' \in Layouts /\ changes' \in 0 .. MaxChanges
    BY <1>1, <1>16 DEF Rearrange, DisplaysTypeOK
  <2>3. QED
    BY <1>16, <2>1, <2>2 DEF Rearrange, DisplaysTypeOK
<1>17. QED
  BY <1>1, <1>4, <1>5, <1>6, <1>7, <1>8, <1>9, <1>10, <1>11, <1>12, <1>13,
     <1>14, <1>15, <1>16
     DEF DisplaysNext, MainStep, InputStep, Refresh, GetDisplays, SetDisplay,
     Threads
(* Each variable keeps its type: whatever two threads leave in the list
   together, no more is read back from it than fits (mac_kvm.c:223-270). *)
THEOREM DisplaysTypes == DisplaysSpec => []DisplaysTypeOK
<1>1. DisplaysInit => DisplaysTypeOK
  <2>1. <<>> \in Seq(Screens) /\ Len(<<>>) = 0
    BY EmptySeq
  <2>2. [size |-> 0, list |-> <<>>, sel |-> 0]
          \in [size : Nat, list : Seq(Screens), sel : Nat]
    BY <2>1
  <2>3. 0 \in 0 .. Len(<<>>)
    BY <2>1
  <2>4. /\ KVM_MAX_DISPLAYS \in Nat \ {0} /\ MaxChanges \in Nat
        /\ MaxRequests \in Nat
    BY DisplaysAssumption
  <2>5. DisplaysInit => list \in Seq(Screens) /\ Len(list) <= KVM_MAX_DISPLAYS
    BY <2>1, <2>4 DEF DisplaysInit
  <2>6. DisplaysInit => /\ told \in [size : Nat, list : Seq(Screens), sel : Nat]
                        /\ told.sel \in 0 .. Len(told.list)
    BY <2>2, <2>3 DEF DisplaysInit
  <2>7. DisplaysInit => /\ at \in [Threads -> PC] /\ ret \in [Threads -> PC]
                        /\ seen \in [Threads -> SUBSET {"crossed", "moved"}]
    BY DEF DisplaysInit, PC, Threads
  <2>8. DisplaysInit => /\ cache \in [id : Screens \cup {0}, scale : Nat \ {0}]
                        /\ sel \in 0 .. KVM_MAX_DISPLAYS
    BY <2>4 DEF DisplaysInit
  <2>9. DisplaysInit => /\ layout \in Layouts /\ changes \in 0 .. MaxChanges
                        /\ num \in Screens \cup {0} /\ screen \in Screens \cup {0}
                        /\ origin \in Int /\ scale \in Nat \ {0} /\ size \in Nat
                        /\ arg \in Nat /\ requests \in 0 .. MaxRequests
    BY <2>4 DEF DisplaysInit
  <2>10. DisplaysInit => shown \subseteq Screens
    BY DEF DisplaysInit
  <2>11. DisplaysInit => trust \in BOOLEAN
    BY DEF DisplaysInit
  <2>12. QED
    BY <2>5, <2>6, <2>7, <2>8, <2>9, <2>10, <2>11 DEF DisplaysTypeOK
<1>2. DisplaysTypeOK /\ [DisplaysNext]_displaysVars => DisplaysTypeOK'
  <2>1. CASE UNCHANGED displaysVars
    BY <2>1 DEF displaysVars, envVars, geomVars, threadVars, viewVars,
       DisplaysTypeOK
  <2>2. QED
    BY <2>1, DisplaysTypeStep
<1>3. QED
  BY <1>1, <1>2, PTL DEF DisplaysSpec

-----------------------------------------------------------------------------
(* Two threads that rebuild the list at the same time both know of it       *)
Crossed ==
  Busy("main") /\ Busy("input") => \A t \in Threads : "crossed" \in seen[t]

(* the list in the hands of a thread that nothing came in between           *)
Rebuilt(t) ==
  seen[t] = {} =>
    /\ at[t] = "fill" => list = <<>>
    /\ at[t] = "order" => list \in Orders(Shown)
    /\ at[t] \in {"advertise", "set"} => list \in Sorted

ToldSorted == trust /\ told.list # <<>> => told.list \in Sorted

(* where a thread goes on with it                                           *)
Returns == \A t \in Threads : ret[t] \in {"num", "advertise", "set"}

DisplaysInv ==
  /\ DisplaysTypeOK /\ Crossed /\ Returns
  /\ \A t \in Threads : Rebuilt(t)
  /\ ToldSorted

(* what a list has to have room for                                         *)
RoomForAll == \A l \in Layouts : Cardinality(l.on \ l.mirrors) <= KVM_MAX_DISPLAYS

LEMMA CrossedStep ==
  ASSUME DisplaysInv, DisplaysNext
  PROVE  Crossed'
<1> USE DEF envVars, geomVars, threadVars, viewVars, Go
<1>1. at \in [Threads -> PC] /\ seen \in [Threads -> SUBSET {"crossed", "moved"}]
  BY DEF DisplaysInv, DisplaysTypeOK
<1>2. ASSUME NEW t \in Threads, Start(t),
             at'[Other(t)] = at[Other(t)]
      PROVE  Crossed'
  <2>1. Busy(Other(t))' = Busy(Other(t))
    BY <1>2 DEF Busy, Other, Threads
  <2>2. QED
    BY <1>1, <1>2, <2>1 DEF Crossed, Start, Busy, Other, Threads
<1>3. ASSUME \A t \in Threads : Busy(t)' => Busy(t),
             \A t \in Threads : Busy(t)' => seen[t] \subseteq seen'[t]
      PROVE  Crossed'
  BY <1>3 DEF DisplaysInv, Crossed, Threads
<1>4. ASSUME NEW t \in Threads, Clear(t) \/ Fill(t)
      PROVE  Crossed'
  BY <1>1, <1>3, <1>4 DEF Clear, Fill, Busy, Threads
<1>5. ASSUME NEW t \in Threads, Order(t)
      PROVE  Crossed'
  BY <1>1, <1>3, <1>5 DEF Order, Busy, Threads
<1>6. ASSUME NEW t \in Threads, Advertise(t)
      PROVE  Crossed'
  BY <1>1, <1>3, <1>6 DEF Advertise, Busy, Threads
<1>7. CASE InitNum \/ InitOrigin \/ InitSize \/ Look \/ Capture
  BY <1>1, <1>3, <1>7 DEF InitNum, InitOrigin, InitSize, Look, Capture, Busy,
     Threads
<1>8. CASE Measure
  <2>1. CASE Start("main")
    BY <1>1, <1>2, <1>8, <2>1 DEF Measure, Other, Threads
  <2>2. CASE Go("main", "capture") /\ UNCHANGED seen
    BY <1>1, <1>3, <2>2 DEF Busy, Threads
  <2>3. QED
    BY <1>8, <2>1, <2>2 DEF Measure
<1>9. ASSUME NEW next, NEW v, Request(next, v)
      PROVE  Crossed'
  BY <1>1, <1>2, <1>9 DEF Request, Other, Threads
<1>10. CASE Select
  BY <1>1, <1>3, <1>10 DEF Select, Busy, Threads
<1>11. ASSUME NEW l, Rearrange(l)
       PROVE  Crossed'
  BY <1>1, <1>3, <1>11 DEF Rearrange, Busy, Threads
<1>12. QED
  BY <1>4, <1>5, <1>6, <1>7, <1>8, <1>9, <1>10, <1>11
     DEF DisplaysNext, MainStep, InputStep, Refresh, GetDisplays, SetDisplay,
     Threads

(* What the order of the displays depends on *)
LEMMA SameLayout ==
  ASSUME layout' = layout
  PROVE  Shown' = Shown /\ Orders(Shown)' = Orders(Shown) /\ Sorted' = Sorted
BY DEF Shown, Orders, Sorted, Before, Main, Left, Top

LEMMA FillListing ==
  ASSUME DisplaysTypeOK, RoomForAll, NEW t \in Threads, Fill(t), list = <<>>
  PROVE  list' \in Orders(Shown)
<1>1. PICK s \in Orders(Shown) :
        list' = IF Len(list \o s) <= KVM_MAX_DISPLAYS THEN list \o s
                ELSE SubSeq(list \o s, 1, KVM_MAX_DISPLAYS)
  BY DEF Fill
<1>2. IsFiniteSet(Shown) /\ Cardinality(Shown) <= KVM_MAX_DISPLAYS
  BY LayoutIs DEF DisplaysTypeOK, RoomForAll, Shown
<1>3. s \in Seq(Shown) /\ Len(s) = Cardinality(Shown)
  BY <1>2, OrdersOf
<1>4. list \o s = s
  BY <1>3, ConcatEmptySeq
<1>5. QED
  BY <1>1, <1>2, <1>3, <1>4

LEMMA OrderSorts ==
  ASSUME DisplaysTypeOK, NEW t \in Threads, Order(t), list \in Orders(Shown)
  PROVE  list' \in Sorted
<1> DEFINE n == Cardinality(Shown)
<1>1. layout \in Layouts /\ IsFiniteSet(Shown) /\ Main \in Shown
  BY LayoutIs DEF DisplaysTypeOK
<1>2. /\ n \in Nat /\ list \in [1 .. n -> Shown] /\ DOMAIN list = 1 .. n
      /\ \A d \in Shown : \E i \in DOMAIN list : list[i] = d
      /\ \A i, j \in DOMAIN list : list[i] = list[j] => i = j
  BY <1>1, OrdersOf
<1>3. list # <<>>
  <2>1. PICK i \in DOMAIN list : list[i] = Main
    BY <1>1, <1>2
  <2>2. QED
    BY <2>1
<1>4. PICK p \in Orders(1 .. n) :
        /\ \A i, j \in 1 .. n : i < j => ~Before(list[p[j]], list[p[i]])
        /\ list' = [i \in 1 .. n |-> list[p[i]]]
  BY <1>2, <1>3 DEF Order
<1>5. IsFiniteSet(1 .. n) /\ Cardinality(1 .. n) = n
  BY <1>2, FS_Interval
<1>6. /\ p \in [1 .. n -> 1 .. n]
      /\ \A k \in 1 .. n : \E i \in 1 .. n : p[i] = k
      /\ \A i, j \in 1 .. n : p[i] = p[j] => i = j
  <2>1. /\ p \in [1 .. n -> 1 .. n] /\ DOMAIN p = 1 .. n
        /\ \A k \in 1 .. n : \E i \in DOMAIN p : p[i] = k
        /\ \A i, j \in DOMAIN p : p[i] = p[j] => i = j
    BY <1>4, <1>5, OrdersOf
  <2>2. QED
    BY <2>1
<1> HIDE DEF n
<1>7. list' \in [1 .. n -> Shown] /\ DOMAIN list' = 1 .. n
  BY <1>2, <1>4, <1>6
<1>8. ASSUME NEW d \in Shown
      PROVE  \E i \in DOMAIN list' : list'[i] = d
  <2>1. PICK k \in 1 .. n : list[k] = d
    BY <1>2
  <2>2. PICK i \in 1 .. n : p[i] = k
    BY <1>6
  <2>3. QED
    BY <1>4, <1>7, <2>1, <2>2
<1>9. list' \in Orders(Shown)
  BY <1>7, <1>8 DEF Orders, n
<1>10. ASSUME NEW i \in 1 .. n, NEW j \in 1 .. n, i < j
       PROVE  Before(list'[i], list'[j])
  <2>1. p[i] \in 1 .. n /\ p[j] \in 1 .. n /\ p[i] # p[j]
    <3>1. i # j
      BY <1>10
    <3>2. QED
      BY <1>6, <3>1
  <2>2. list[p[i]] \in Shown /\ list[p[j]] \in Shown /\ list[p[i]] # list[p[j]]
    BY <1>2, <2>1
  <2>3. ~Before(list[p[j]], list[p[i]])
    BY <1>4, <1>10
  <2>4. Before(list[p[i]], list[p[j]])
    BY <1>1, <2>2, <2>3, BeforeIs
  <2>5. list'[i] = list[p[i]] /\ list'[j] = list[p[j]]
    BY <1>4
  <2>6. QED
    BY <2>4, <2>5
<1>11. QED
  BY <1>7, <1>9, <1>10 DEF Sorted

LEMMA RebuiltStep ==
  ASSUME DisplaysInv, RoomForAll, DisplaysNext, NEW u \in Threads
  PROVE  Rebuilt(u)'
<1> USE DEF envVars, geomVars, threadVars, viewVars, Go
<1>1. /\ at \in [Threads -> PC] /\ seen \in [Threads -> SUBSET {"crossed", "moved"}]
      /\ DisplaysTypeOK /\ Crossed /\ Rebuilt(u)
  BY DEF DisplaysInv, DisplaysTypeOK
<1> DEFINE Holding == {"fill", "order", "advertise", "set"}
<1>2. ASSUME at'[u] \notin Holding
      PROVE  Rebuilt(u)'
  BY <1>2 DEF Rebuilt
<1>3. ASSUME UNCHANGED <<layout, list>>, at'[u] = at[u],
             seen'[u] = {} => seen[u] = {}
      PROVE  Rebuilt(u)'
  <2>1. Orders(Shown)' = Orders(Shown) /\ Sorted' = Sorted
    BY <1>3, SameLayout
  <2>2. QED
    BY <1>1, <1>3, <2>1 DEF Rebuilt
(* the other thread's step on the list *)
<1>4. ASSUME NEW t \in Threads, t # u, Busy(t), at'[u] = at[u],
             seen'[u] = seen[u]
      PROVE  Rebuilt(u)'
  <2>1. at[u] \in Holding => seen[u] # {}
    BY <1>1, <1>4 DEF Crossed, Busy, Threads
  <2>2. QED
    BY <1>4, <2>1 DEF Rebuilt
<1>5. ASSUME NEW t \in Threads, Clear(t)
      PROVE  Rebuilt(u)'
  <2>1. CASE t = u
    BY <1>1, <1>5, <2>1 DEF Clear, Rebuilt
  <2>2. CASE t # u
    BY <1>1, <1>4, <1>5, <2>2 DEF Clear, Busy, Threads
  <2>3. QED
    BY <2>1, <2>2
<1>6. ASSUME NEW t \in Threads, Fill(t)
      PROVE  Rebuilt(u)'
  <2>1. CASE t = u
    <3>1. at'[u] = "order" /\ seen' = seen /\ layout' = layout
      BY <1>1, <1>6, <2>1 DEF Fill
    <3>2. seen[u] = {} => list' \in Orders(Shown)
      BY <1>1, <1>6, <2>1, FillListing DEF Fill, Rebuilt
    <3>3. QED
      BY <3>1, <3>2, SameLayout DEF Rebuilt
  <2>2. CASE t # u
    BY <1>1, <1>4, <1>6, <2>2 DEF Fill, Busy, Threads
  <2>3. QED
    BY <2>1, <2>2
<1>7. ASSUME NEW t \in Threads, Order(t)
      PROVE  Rebuilt(u)'
  <2>1. CASE t = u
    <3>1. seen' = seen /\ layout' = layout
      BY <1>7 DEF Order
    <3>2. at'[u] \notin {"fill", "order"}
      BY <1>1, <1>7, <2>1 DEF Order, DisplaysInv, Returns, Threads
    <3>3. seen[u] = {} => list' \in Sorted
      BY <1>1, <1>7, <2>1, OrderSorts DEF Order, Rebuilt
    <3>4. QED
      BY <3>1, <3>2, <3>3, SameLayout DEF Rebuilt
  <2>2. CASE t # u
    BY <1>1, <1>4, <1>7, <2>2 DEF Order, Busy, Threads
  <2>3. QED
    BY <2>1, <2>2
<1>8. ASSUME NEW t \in Threads, Advertise(t)
      PROVE  Rebuilt(u)'
  BY <1>1, <1>2, <1>3, <1>8 DEF Advertise, Threads
<1>9. CASE InitNum \/ InitOrigin \/ InitSize \/ Look \/ Capture
  BY <1>1, <1>2, <1>3, <1>9 DEF InitNum, InitOrigin, InitSize, Look, Capture,
     Threads
<1>10. ASSUME NEW t \in Threads, Start(t), at'[t] = "clear",
              at'[Other(t)] = at[Other(t)], UNCHANGED <<layout, list>>
       PROVE  Rebuilt(u)'
  <2>1. CASE t = u
    BY <1>2, <1>10, <2>1
  <2>2. CASE t # u
    <3>1. u = Other(t) /\ (seen'[u] = {} => seen[u] = {})
      BY <1>1, <1>10, <2>2 DEF Start, Other, Threads
    <3>2. QED
      BY <1>3, <1>10, <3>1
  <2>3. QED
    BY <2>1, <2>2
<1>11. CASE Measure
  <2>1. CASE Start("main") /\ Go("main", "clear")
    BY <1>1, <1>10, <1>11, <2>1 DEF Measure, Other, Threads
  <2>2. CASE Go("main", "capture") /\ UNCHANGED seen
    BY <1>1, <1>2, <1>3, <1>11, <2>2 DEF Measure, Threads
  <2>3. QED
    BY <1>11, <2>1, <2>2 DEF Measure
<1>12. ASSUME NEW next, NEW v, Request(next, v)
       PROVE  Rebuilt(u)'
  BY <1>1, <1>10, <1>12 DEF Request, Other, Threads
<1>13. CASE Select
  BY <1>1, <1>2, <1>3, <1>13 DEF Select, Threads
<1>14. ASSUME NEW l, Rearrange(l)
       PROVE  Rebuilt(u)'
  <2>1. at[u] \in Holding => Busy(u)
    BY DEF Busy
  <2>2. Busy(u) => seen'[u] # {}
    BY <1>1, <1>14 DEF Rearrange
  <2>3. QED
    BY <1>14, <2>1, <2>2 DEF Rearrange, Rebuilt
<1>15. QED
  BY <1>5, <1>6, <1>7, <1>8, <1>9, <1>11, <1>12, <1>13, <1>14
     DEF DisplaysNext, MainStep, InputStep, Refresh, GetDisplays, SetDisplay,
     Threads

LEMMA ToldStep ==
  ASSUME DisplaysInv, DisplaysNext
  PROVE  ToldSorted'
<1> USE DEF envVars, geomVars, threadVars, viewVars
<1>1. /\ told \in [size : Nat, list : Seq(Screens), sel : Nat]
      /\ ToldSorted /\ trust \in BOOLEAN /\ list \in Seq(Screens)
  BY DEF DisplaysInv, DisplaysTypeOK
<1>2. ASSUME UNCHANGED <<layout, trust>>, told'.list = told.list
      PROVE  ToldSorted'
  BY <1>1, <1>2, SameLayout DEF ToldSorted
<1>3. ASSUME NEW t \in Threads, Clear(t) \/ Fill(t) \/ Order(t)
      PROVE  ToldSorted'
  BY <1>2, <1>3 DEF Clear, Fill, Order
<1>4. ASSUME NEW t \in Threads, Advertise(t)
      PROVE  ToldSorted'
  <2>1. told'.list = <<>> \/ told'.list = list
    BY <1>1, <1>4 DEF Advertise
  <2>2. trust' => list \in Sorted
    BY <1>4 DEF Advertise, DisplaysInv, Rebuilt
  <2>3. Sorted' = Sorted
    BY <1>4, SameLayout DEF Advertise
  <2>4. QED
    BY <2>1, <2>2, <2>3 DEF ToldSorted
<1>5. CASE InitSize
  <2>1. told'.list = told.list
    BY <1>1, <1>5 DEF InitSize
  <2>2. QED
    BY <1>2, <1>5, <2>1 DEF InitSize
<1>6. CASE InitNum \/ InitOrigin \/ Look \/ Measure \/ Capture \/ Select
  BY <1>2, <1>6 DEF InitNum, InitOrigin, Look, Measure, Capture, Select
<1>7. ASSUME NEW next, NEW v, Request(next, v)
      PROVE  ToldSorted'
  BY <1>2, <1>7 DEF Request
<1>8. ASSUME NEW l, Rearrange(l)
      PROVE  ToldSorted'
  BY <1>8 DEF Rearrange, ToldSorted
<1>9. QED
  BY <1>3, <1>4, <1>5, <1>6, <1>7, <1>8
     DEF DisplaysNext, MainStep, InputStep, Refresh, GetDisplays, SetDisplay,
     Threads

LEMMA ReturnsStep ==
  ASSUME DisplaysInv, DisplaysNext
  PROVE  Returns'
<1> USE DEF envVars, geomVars, threadVars, viewVars, Threads
<1>1. Returns /\ ret \in [Threads -> PC]
  BY DEF DisplaysInv, DisplaysTypeOK
<1>2. ret' = ret => Returns'
  BY <1>1 DEF Returns
<1>3. ASSUME NEW t \in Threads, NEW to \in {"num", "advertise", "set"},
             ret' = [ret EXCEPT ![t] = to]
      PROVE  Returns'
  BY <1>1, <1>3 DEF Returns
<1>4. ASSUME NEW t \in Threads, Refresh(t)
      PROVE  Returns'
  BY <1>2, <1>4 DEF Refresh, Clear, Fill, Order, Advertise
<1>5. CASE InitNum \/ InitOrigin \/ Look \/ Capture
  BY <1>2, <1>5 DEF InitNum, InitOrigin, Look, Capture
<1>6. CASE InitSize \/ Measure \/ Select
  BY <1>2, <1>3, <1>6 DEF InitSize, Measure, Select
<1>7. ASSUME NEW next \in {"advertise", "set"}, NEW v, Request(next, v)
      PROVE  Returns'
  BY <1>3, <1>7 DEF Request
<1>8. ASSUME NEW l, Rearrange(l)
      PROVE  Returns'
  BY <1>2, <1>8 DEF Rearrange
<1>9. QED
  BY <1>4, <1>5, <1>6, <1>7, <1>8
     DEF DisplaysNext, MainStep, InputStep, GetDisplays, SetDisplay

LEMMA DisplaysInvHolds ==
  ASSUME RoomForAll
  PROVE  DisplaysSpec => []DisplaysInv
<1>1. DisplaysInit /\ DisplaysTypeOK => DisplaysInv
  <2>1. DisplaysInit => Crossed /\ Returns /\ ToldSorted
    BY DEF DisplaysInit, Crossed, Returns, ToldSorted, Busy, Threads
  <2>2. DisplaysInit => \A t \in Threads : Rebuilt(t)
    BY DEF DisplaysInit, Rebuilt, Threads
  <2>3. QED
    BY <2>1, <2>2 DEF DisplaysInv
<1>2. DisplaysInv /\ DisplaysTypeOK' /\ [DisplaysNext]_displaysVars => DisplaysInv'
  <2> SUFFICES ASSUME DisplaysInv, DisplaysTypeOK', [DisplaysNext]_displaysVars
               PROVE  DisplaysInv'
    OBVIOUS
  <2>1. CASE UNCHANGED displaysVars
    <3> USE DEF displaysVars, envVars, geomVars, threadVars, viewVars
    <3>1. Crossed' /\ Returns'
      BY <2>1 DEF Crossed, Returns, Busy, DisplaysInv
    <3>2. (\A t \in Threads : Rebuilt(t)') /\ ToldSorted'
      BY <2>1, SameLayout DEF Rebuilt, ToldSorted, DisplaysInv
    <3>3. QED
      BY <3>1, <3>2 DEF DisplaysInv
  <2>2. CASE DisplaysNext
    BY <2>2, CrossedStep, ReturnsStep, RebuiltStep, ToldStep DEF DisplaysInv
  <2>3. QED
    BY <2>1, <2>2
<1>3. QED
  BY <1>1, <1>2, DisplaysTypes, PTL DEF DisplaysSpec

(* While the arrangement is the same, the number that a viewer asks for is the
   display it was told under that number, however the system orders the list it
   returns and whatever the two threads do with it at once, provided the list
   has room for every display (mac_kvm.c:236-269, 796-834). *)
THEOREM DisplaysNumberMeansScreen ==
  ASSUME RoomForAll
  PROVE  DisplaysSpec => NumberMeansScreen
<1>1. DisplaysInv /\ [DisplaysNext]_displaysVars =>
        [at["input"] = "set" /\ sel' # sel /\ sel' # 0 /\ trust /\ seen["input"] = {}
           /\ told.list # <<>>
         => list[sel'] = told.list[sel']]_displaysVars
  <2> SUFFICES ASSUME DisplaysInv, DisplaysNext,
                      at["input"] = "set", sel' # sel, trust, seen["input"] = {},
                      told.list # <<>>
               PROVE  list = told.list
    OBVIOUS
  <2>1. list \in Sorted /\ told.list \in Sorted
    BY DEF DisplaysInv, Rebuilt, ToldSorted, Threads
  <2>2. layout \in Layouts
    BY DEF DisplaysInv, DisplaysTypeOK
  <2>3. QED
    BY <2>1, <2>2, OneOrder
<1>2. QED
  BY <1>1, DisplaysInvHolds, PTL DEF DisplaysSpec, NumberMeansScreen

-----------------------------------------------------------------------------
(* When kvm_init ends (mac_kvm.c:601-680) and nothing came in between, the   *)
(* display number, the origin of clicks, the size and the size the viewer    *)
(* was told are those of one selection in the list as it is now, although    *)
(* kvm_init has rebuilt the list since it took them.                         *)
InitCoherent ==
  at["main"] = "advertise" /\ seen["main"] = {} =>
    /\ list \in Sorted /\ sel <= Len(list)
    /\ num = Selected /\ origin = LeftOf(Covered)
    /\ size = Width(Covered) * scale /\ told.size = size

(* the same of a list s, while main rebuilds SCREEN_LIST once more          *)
SelectedIn(s) == IF sel \in DOMAIN s THEN s[sel] ELSE Main
CoveredIn(s) == IF ~Combined THEN {SelectedIn(s)} ELSE {s[i] : i \in DOMAIN s}
Coherent(s) ==
  /\ sel <= Len(s) /\ num = SelectedIn(s)
  /\ origin = LeftOf(CoveredIn(s))
  /\ size = Width(CoveredIn(s)) * scale /\ told.size = size

(* what kvm_init has found so far, unless something came in between         *)
Stages ==
  seen["main"] = {} =>
    /\ at["main"] \in {"num", "origin", "size"} => list \in Sorted /\ sel <= Len(list)
    /\ at["main"] \in {"origin", "size"} => num = Selected
    /\ at["main"] = "size" => origin = LeftOf(Covered)
    /\ at["main"] \in {"clear", "fill", "order"} /\ ret["main"] # "num"
         => \E s \in Sorted : Coherent(s)
    /\ at["main"] = "advertise" => list \in Sorted /\ Coherent(list)

(* Such a list is a list of what is shown.                                   *)
LEMMA SortedIs ==
  ASSUME layout \in Layouts, NEW s \in Sorted
  PROVE  /\ s # <<>> /\ s \in Seq(Shown) /\ Len(s) \in Nat \ {0}
         /\ DOMAIN s = 1 .. Len(s)
<1>1. IsFiniteSet(Shown) /\ Main \in Shown /\ s \in Orders(Shown)
  BY LayoutIs DEF Sorted
<1>2. s \in Seq(Shown) /\ \A d \in Shown : \E i \in DOMAIN s : s[i] = d
  BY <1>1, OrdersOf
<1>3. s # <<>>
  BY <1>1, <1>2
<1>4. QED
  BY <1>2, <1>3, EmptySeq, LenProperties

(* A list that is in order is measured like the list itself. *)
LEMMA MeasuredIn ==
  ASSUME layout \in Layouts, list \in Sorted
  PROVE  SelectedIn(list) = Selected /\ CoveredIn(list) = Covered
BY SortedIs DEF SelectedIn, Selected, CoveredIn, Covered, Listed

(* Emptying and filling the list does not touch what was measured.          *)
LEMMA SameMeasures ==
  ASSUME UNCHANGED <<layout, sel, num, origin, scale, size>>,
         told'.size = told.size
  PROVE  \A s : Coherent(s)' = Coherent(s)
<1>1. ASSUME NEW S
      PROVE  LeftOf(S)' = LeftOf(S) /\ Width(S)' = Width(S)
  BY DEF LeftOf, Width, RightOf, Left, Right
<1>2. ASSUME NEW s
      PROVE  SelectedIn(s)' = SelectedIn(s) /\ CoveredIn(s)' = CoveredIn(s)
  BY DEF SelectedIn, CoveredIn, Combined, Main
<1>3. QED
  BY <1>1, <1>2 DEF Coherent

(* Each step keeps what kvm_init has found so far.                           *)
LEMMA StagesStep ==
  ASSUME DisplaysInv, RoomForAll, Stages, DisplaysNext
  PROVE  Stages'
<1> USE DEF envVars, geomVars, threadVars, viewVars, Go
<1>1. /\ at \in [Threads -> PC] /\ ret \in [Threads -> PC]
      /\ seen \in [Threads -> SUBSET {"crossed", "moved"}]
      /\ "main" \in Threads /\ "input" \in Threads
      /\ layout \in Layouts /\ DisplaysTypeOK /\ Crossed /\ Rebuilt("main")
  BY DEF DisplaysInv, DisplaysTypeOK, Threads
<1> DEFINE InInit == {"clear", "fill", "order", "advertise", "num", "origin", "size"}
<1>2. ASSUME at'["main"] \notin InInit \/ seen'["main"] # {}
      PROVE  Stages'
  BY <1>2 DEF Stages
<1>3. at["main"] \in InInit => Busy("main")
  BY DEF Busy
(* a step of the input thread is one that comes in between *)
<1>4. ASSUME Busy("input"), at'["main"] = at["main"], seen'["main"] = seen["main"]
      PROVE  Stages'
  <2>1. Busy("main") => seen["main"] # {}
    BY <1>1, <1>4 DEF Crossed
  <2>2. QED
    BY <1>2, <1>3, <1>4, <2>1
<1>5. CASE Refresh("input")
  <2>1. Busy("input")
    BY <1>5 DEF Refresh, Clear, Fill, Order, Advertise, Busy
  <2>2. at'["main"] = at["main"] /\ seen'["main"] = seen["main"]
    BY <1>1, <1>5 DEF Refresh, Clear, Fill, Order, Advertise
  <2>3. QED
    BY <1>4, <2>1, <2>2
<1>6. CASE Select
  BY <1>1, <1>4, <1>6 DEF Select, Busy
<1>7. ASSUME NEW next, NEW v, Request(next, v)
      PROVE  Stages'
  <2>1. at'["main"] = at["main"] /\ Start("input")
    BY <1>1, <1>7 DEF Request
  <2>2. Busy("main") => seen'["main"] # {}
    BY <1>1, <2>1 DEF Start, Other
  <2>3. QED
    BY <1>2, <1>3, <2>1, <2>2
<1>8. ASSUME NEW l, Rearrange(l)
      PROVE  Stages'
  BY <1>1, <1>2, <1>8 DEF Rearrange
(* main empties the list and fills it again *)
<1>9. CASE Clear("main") \/ Fill("main")
  <2>1. /\ at["main"] \in {"clear", "fill"} /\ at'["main"] \in {"fill", "order"}
        /\ seen' = seen /\ ret' = ret
    BY <1>1, <1>9 DEF Clear, Fill
  <2>2. Sorted' = Sorted /\ \A s : Coherent(s)' = Coherent(s)
    BY <1>9, SameLayout, SameMeasures DEF Clear, Fill
  <2>3. seen["main"] = {} /\ ret["main"] # "num" => \E s \in Sorted : Coherent(s)
    BY <2>1 DEF Stages
  <2>4. seen["main"] = {} /\ ret["main"] # "num" => \E s \in Sorted : Coherent(s)'
    BY <2>2, <2>3
  <2>5. QED
    BY <2>1, <2>2, <2>4 DEF Stages
<1>10. CASE Order("main")
  <2> SUFFICES ASSUME seen["main"] = {}
               PROVE  Stages'
    BY <1>2, <1>10 DEF Order
  <2>1. /\ at["main"] = "order" /\ at'["main"] = ret["main"]
        /\ ret["main"] \in {"num", "advertise", "set"}
    BY <1>1, <1>10 DEF Order, DisplaysInv, Returns
  <2>2. list' \in Sorted /\ Sorted' = Sorted
    BY <1>1, <1>10, <2>1, OrderSorts, SameLayout DEF Order, Rebuilt
  <2>3. Len(list') \in Nat \ {0} /\ sel \in Nat
    BY <1>1, <2>2, SortedIs DEF DisplaysTypeOK
  <2>4. sel' = IF sel > Len(list') THEN 1 ELSE sel
    BY <1>10 DEF Order
  <2>5. CASE ret["main"] = "num"
    BY <2>1, <2>2, <2>3, <2>4, <2>5 DEF Stages
  <2>6. CASE ret["main"] = "advertise"
    <3>1. PICK s \in Sorted : Coherent(s)
      BY <2>1, <2>6 DEF Stages
    <3>2. list' = s
      BY <1>1, <2>2, <3>1, OneOrder
    <3>3. sel' = sel
      BY <2>3, <2>4, <3>1, <3>2 DEF Coherent
    <3>4. \A u : Coherent(u)' = Coherent(u)
      BY <1>10, <3>3, SameMeasures DEF Order
    <3>5. list' \in Sorted' /\ Coherent(list)'
      BY <2>2, <3>1, <3>2, <3>4
    <3>6. QED
      BY <2>1, <2>6, <3>5 DEF Stages
  <2>7. CASE ret["main"] = "set"
    BY <1>2, <2>1, <2>7
  <2>8. QED
    BY <2>1, <2>5, <2>6, <2>7
<1>11. CASE Advertise("main")
  BY <1>1, <1>2, <1>11 DEF Advertise
<1>12. CASE InitNum
  <2>1. /\ at["main"] = "num" /\ at'["main"] = "origin" /\ seen' = seen
        /\ UNCHANGED <<layout, list, sel>> /\ num' = Selected
    BY <1>1, <1>12 DEF InitNum
  <2>2. Sorted' = Sorted /\ Selected' = Selected
    BY <2>1, SameLayout DEF Selected, Main
  <2>3. QED
    BY <2>1, <2>2 DEF Stages
<1>13. CASE InitOrigin
  <2>1. /\ at["main"] = "origin" /\ at'["main"] = "size" /\ seen' = seen
        /\ UNCHANGED <<layout, list, sel, num>> /\ origin' = LeftOf(Covered)
    BY <1>1, <1>13 DEF InitOrigin
  <2>2. /\ Sorted' = Sorted /\ Selected' = Selected
        /\ LeftOf(Covered)' = LeftOf(Covered)
    BY <2>1, SameLayout DEF Selected, Main, LeftOf, Left, Covered, Combined, Listed
  <2>3. QED
    BY <2>1, <2>2 DEF Stages
<1>14. CASE InitSize
  <2> SUFFICES ASSUME seen["main"] = {}
               PROVE  Stages'
    BY <1>2, <1>14 DEF InitSize
  <2>1. /\ at["main"] = "size" /\ at'["main"] = "clear"
        /\ UNCHANGED <<layout, list, sel, num, origin>>
        /\ size' = Width(Covered) * scale' /\ told'.size = size'
    BY <1>1, <1>14 DEF InitSize, DisplaysTypeOK
  <2>2. /\ list \in Sorted /\ sel <= Len(list)
        /\ num = Selected /\ origin = LeftOf(Covered)
    BY <2>1 DEF Stages
  <2>3. Selected = SelectedIn(list) /\ Covered = CoveredIn(list)
    BY <1>1, <2>2, MeasuredIn
  <2>4. ASSUME NEW s
        PROVE  SelectedIn(s)' = SelectedIn(s) /\ CoveredIn(s)' = CoveredIn(s)
    BY <2>1 DEF SelectedIn, CoveredIn, Combined, Main
  <2>5. ASSUME NEW S
        PROVE  LeftOf(S)' = LeftOf(S) /\ Width(S)' = Width(S)
    BY <2>1 DEF LeftOf, Width, RightOf, Left, Right
  <2>6. list \in Sorted' /\ Coherent(list)'
    BY <2>1, <2>2, <2>3, <2>4, <2>5, SameLayout DEF Coherent
  <2>7. QED
    BY <2>1, <2>6 DEF Stages
<1>15. CASE Look \/ Capture
  BY <1>1, <1>2, <1>15 DEF Look, Capture
<1>16. CASE Measure
  BY <1>1, <1>2, <1>16 DEF Measure, Stages
<1>17. QED
  BY <1>5, <1>6, <1>7, <1>8, <1>9, <1>10, <1>11, <1>12, <1>13, <1>14, <1>15, <1>16
     DEF DisplaysNext, MainStep, InputStep, Refresh, GetDisplays, SetDisplay

(* A kvm_init that nothing disturbs leaves one selection behind it: what main
   captures, the origin of clicks and the sizes belong together, in the list that
   the second refresh of it left (mac_kvm.c:601-680). *)
THEOREM DisplaysInitCoherent ==
  ASSUME RoomForAll
  PROVE  DisplaysSpec => []InitCoherent
<1>1. DisplaysInit => Stages
  BY DEF DisplaysInit, Stages
<1>2. DisplaysInv /\ Stages /\ [DisplaysNext]_displaysVars => Stages'
  <2>1. CASE UNCHANGED displaysVars
    <3> USE DEF displaysVars, envVars, geomVars, threadVars, viewVars
    <3>1. Sorted' = Sorted /\ \A s : Coherent(s)' = Coherent(s)
      BY <2>1, SameLayout, SameMeasures
    <3>2. ASSUME Stages, seen["main"] = {},
                 at["main"] \in {"clear", "fill", "order"}, ret["main"] # "num"
          PROVE  \E s \in Sorted' : Coherent(s)'
      BY <3>1, <3>2 DEF Stages
    <3>3. /\ Selected' = Selected /\ LeftOf(Covered)' = LeftOf(Covered)
          /\ Coherent(list)' = Coherent(list)
      <4>1. Selected' = Selected /\ LeftOf(Covered)' = LeftOf(Covered)
        BY <2>1 DEF Selected, Main, LeftOf, Left, Covered, Combined, Listed
      <4>2. list' = list
        BY <2>1
      <4>3. QED
        BY <3>1, <4>1, <4>2
    <3>4. QED
      BY <2>1, <3>1, <3>2, <3>3 DEF Stages
  <2>2. QED
    BY <2>1, StagesStep
<1>3. DisplaysInv /\ Stages => InitCoherent
  BY MeasuredIn DEF Stages, InitCoherent, Coherent, DisplaysInv, DisplaysTypeOK
<1>4. QED
  BY <1>1, <1>2, <1>3, DisplaysInvHolds, PTL DEF DisplaysSpec
=============================================================================
