---------------------------- MODULE FrameReader ----------------------------
(***************************************************************************)
(* kvm_mainloopinput and the header check of kvm_server_inputdata at the   *)
(* level of bytes: a viewer's frames arrive in reads of any length in      *)
(* pchRequest2, are consumed by the size their header claims, and what is  *)
(* left of the last one is moved to the front of the buffer.  KvmSession   *)
(* has the same thread among the others, with frames of two chunks.        *)
(*                                                                         *)
(* The bytes of a connection are numbered; base is the number of the byte  *)
(* in pchRequest2[0], so the buffer holds base .. base+len-1.  What a      *)
(* header says is looked up in the frames that were sent; where no frame   *)
(* begins, it can be anything.                                             *)
(***************************************************************************)
EXTENDS Naturals, Sequences

CONSTANTS
  Header,      \* bytes of a frame's header: the 4 of blocklen < 4
  Cap,         \* size of pchRequest2: 30000
  Sizes,       \* sizes of well-formed frames
  Claims,      \* sizes that are not: less than a header, more than the buffer
  None,        \* no frame
  MaxFrames,   \* bound: frames of one viewer
  MaxGarbage,  \* bound: bytes a viewer sends after a malformed header
  MaxViewers   \* bound: viewers, one after the other

ASSUME ReaderAssumption ==
  /\ Header \in Nat \ {0}
  /\ Cap \in Nat
  /\ Sizes \subseteq Header .. Cap
  /\ Claims \subseteq Nat \ (Header .. Cap)
  /\ MaxFrames \in Nat /\ MaxGarbage \in Nat /\ MaxViewers \in Nat
  /\ None \notin [at : Nat, size : Nat]

VARIABLES
  pc,        \* "poll", "parse", "ended": where the reader is
  base,      \* see above
  len, ptr,  \* the locals of the same names
  written,   \* bytes the viewer has written
  cur,       \* the frame the viewer is writing
  bad,       \* the malformed header it has sent
  sent,      \* well-formed frames it has written whole
  out,       \* frames the reader has consumed, before a malformed header
  link,      \* "open", "broken" (malformed), "closed" (by the viewer), "over"
  viewers    \* viewers so far

readerVars == <<base, len, ptr>>
viewerVars == <<written, cur, bad, sent, link>>
vars == <<pc, readerVars, viewerVars, out, viewers>>

Frame == [at : Nat, size : Nat]
Min2(a, b) == IF a < b THEN a ELSE b

Init ==
  /\ pc = "poll" /\ base = 0 /\ len = 0 /\ ptr = 0
  /\ written = 0 /\ cur = None /\ bad = None /\ sent = <<>>
  /\ out = <<>> /\ link = "open" /\ viewers = 1

-----------------------------------------------------------------------------
(* The viewer                                                              *)

(* it begins a frame behind the last one *)
Begin(s) ==
  /\ link = "open" /\ cur = None /\ Len(sent) < MaxFrames
  /\ cur' = [at |-> written, size |-> s]
  /\ UNCHANGED <<pc, readerVars, written, bad, sent, out, link, viewers>>

(* ... and n more bytes of it get through *)
Write(n) ==
  /\ link = "open" /\ cur # None
  /\ written + n <= cur.at + cur.size
  /\ written' = written + n
  /\ IF written' = cur.at + cur.size
     THEN sent' = Append(sent, cur) /\ cur' = None
     ELSE UNCHANGED <<sent, cur>>
  /\ UNCHANGED <<pc, readerVars, bad, out, link, viewers>>

(* it sends a header with a size that no frame has *)
BeginBad(s) ==
  /\ link = "open" /\ cur = None
  /\ bad' = [at |-> written, size |-> s]
  /\ link' = "broken"
  /\ UNCHANGED <<pc, readerVars, written, cur, sent, out, viewers>>

WriteGarbage(n) ==
  /\ link = "broken" /\ written + n <= bad.at + MaxGarbage
  /\ written' = written + n
  /\ UNCHANGED <<pc, readerVars, cur, bad, sent, out, link, viewers>>

(* it closes, perhaps in the middle of a frame *)
CloseEnd ==
  /\ link \in {"open", "broken"} /\ link' = "closed"
  /\ UNCHANGED <<pc, readerVars, written, cur, bad, sent, out, viewers>>

-----------------------------------------------------------------------------
(* The reader                                                              *)

(* a connection takes the place of the one before: nothing of the old      *)
(* viewer's bytes is kept                                                  *)
NewViewer ==
  /\ viewers < MaxViewers /\ viewers' = viewers + 1
  /\ base' = 0 /\ len' = 0 /\ ptr' = 0
  /\ written' = 0 /\ cur' = None /\ bad' = None /\ sent' = <<>>
  /\ out' = <<>> /\ link' = "open"

(* poll finds a pending connection, which evicts the one being served      *)
EvictFor == pc = "poll" /\ NewViewer /\ UNCHANGED pc

(* main accepts the next one and creates the thread again                  *)
Reaccept == pc = "ended" /\ NewViewer /\ pc' = "poll"

Arrived == written > base + len

(* mutant: the room asked for does not shrink with what is in the buffer   *)
ReadOverruns(n) ==
  /\ pc = "poll"
  /\ n <= Min2(Cap, written - (base + len))
  /\ len' = len + n
  /\ pc' = "parse"
  /\ UNCHANGED <<base, ptr, viewerVars, out, viewers>>

(* read returns any part of what has arrived that fits behind len          *)
Read(n) ==
  /\ pc = "poll"
  /\ n <= Min2(Cap - len, written - (base + len))
  /\ len' = len + n
  /\ pc' = "parse"
  /\ UNCHANGED <<base, ptr, viewerVars, out, viewers>>

(* mutant: at the end of the connection the read is tried again            *)
ReadNothingRetried ==
  /\ pc = "poll"
  /\ len = Cap /\ (Arrived \/ link = "closed")
  /\ link' = "over"
  /\ pc' = "ended"
  /\ UNCHANGED <<readerVars, written, cur, bad, sent, out, viewers>>

(* read returns 0: at the end of the connection, or for want of room       *)
ReadNothing ==
  /\ pc = "poll"
  /\ \/ link = "closed" /\ ~Arrived
     \/ len = Cap /\ (Arrived \/ link = "closed")
  /\ link' = "over"
  /\ pc' = "ended"
  /\ UNCHANGED <<readerVars, written, cur, bad, sent, out, viewers>>

(* what the two bytes of the size may be in a header at byte p             *)
SentAt(p) ==
  {sent[i] : i \in {j \in DOMAIN sent : sent[j].at = p}}
    \cup {f \in {cur, bad} \ {None} : f.at = p}
ClaimAt(p) ==
  IF SentAt(p) = {} THEN Sizes \cup Claims ELSE {f.size : f \in SentAt(p)}

(* the byte at p is in front of everything malformed                       *)
Sound(p) == bad = None \/ p < bad.at

(* mutant: a frame is handled before all of it is there                    *)
HandlePartial(s) ==
  /\ pc = "parse"
  /\ len - ptr >= Header /\ s # 0
  /\ s \in ClaimAt(base + ptr)
  /\ ptr' = Min2(ptr + s, len)
  /\ out' = Append(out, [at |-> base + ptr, size |-> s])
  /\ UNCHANGED <<pc, base, len, viewerVars, viewers>>

(* one call of kvm_server_inputdata that handles a frame of s bytes        *)
HandleFrame(s) ==
  /\ pc = "parse"
  /\ len - ptr >= Header /\ s <= len - ptr /\ s # 0
  /\ s \in ClaimAt(base + ptr)
  /\ ptr' = ptr + s
  /\ out' = IF Sound(base + ptr) THEN Append(out, [at |-> base + ptr, size |-> s])
            ELSE out
  /\ UNCHANGED <<pc, base, len, viewerVars, viewers>>

(* ... and one that returns 0: what is left moves to the front             *)
Compact ==
  /\ pc = "parse"
  /\ \/ len - ptr < Header
     \/ \E s \in ClaimAt(base + ptr) : s > len - ptr \/ s = 0
  /\ base' = base + ptr
  /\ len' = len - ptr
  /\ ptr' = 0
  /\ pc' = "poll"
  /\ UNCHANGED <<viewerVars, out, viewers>>

-----------------------------------------------------------------------------
Viewer ==
  \/ \E s \in Sizes : Begin(s)
  \/ \E s \in Claims : BeginBad(s)
  \/ \E n \in 1 .. Cap : Write(n)
  \/ \E n \in 1 .. MaxGarbage : WriteGarbage(n)
  \/ CloseEnd

Reader ==
  \/ \E n \in 1 .. Cap : Read(n)
  \/ ReadNothing
  \/ \E s \in Sizes \cup Claims : HandleFrame(s)
  \/ Compact

Next == Viewer \/ Reader \/ EvictFor \/ Reaccept

Spec == Init /\ [][Next]_vars

(* The thread runs: a read that can return does.                           *)
FairSpec == Spec /\ WF_vars(Reader)

-----------------------------------------------------------------------------
TypeOK ==
  /\ pc \in {"poll", "parse", "ended"}
  /\ base \in Nat /\ len \in 0 .. Cap /\ ptr \in 0 .. len
  /\ written \in Nat
  /\ cur \in Frame \cup {None} /\ bad \in Frame \cup {None}
  /\ sent \in Seq(Frame) /\ out \in Seq(Frame)
  /\ link \in {"open", "broken", "closed", "over"}
  /\ viewers \in Nat

(* The buffer implements the stream of frames: whatever the lengths of the *)
(* reads, well-formed frames are handled whole, once, in order, and the    *)
(* reader never takes a full buffer for the end of their connection.       *)
Stream == INSTANCE FrameStream
            WITH sent <- sent, handled <- out, link <- link
HandlesStream == Stream!StreamSafe

(* Every frame that has arrived is handled, and the end of a connection is *)
(* noticed, however the bytes are cut: the reader always finds room.       *)
HandledInTime == Stream!StreamLive
=============================================================================
