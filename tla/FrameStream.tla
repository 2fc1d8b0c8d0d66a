---------------------------- MODULE FrameStream ----------------------------
(***************************************************************************)
(* What the agent's reader promises a viewer: the frames put on the        *)
(* connection are handled whole, each once and in the order they were      *)
(* sent, and the connection is given up only when the viewer has closed it *)
(* or has sent something that is not a frame.  FrameReader implements it   *)
(* with a buffer that is filled by reads of any length.                    *)
(***************************************************************************)
EXTENDS Naturals, Sequences

VARIABLES
  sent,      \* the frames the viewer has put on its connection
  handled,   \* the frames the agent has acted on
  link       \* "open"; "broken": no frame any more; "closed"; "over"

streamVars == <<sent, handled, link>>

StreamInit == sent = <<>> /\ handled = <<>> /\ link = "open"

Put ==
  /\ link = "open"
  /\ Len(sent') = Len(sent) + 1 /\ SubSeq(sent', 1, Len(sent)) = sent
  /\ UNCHANGED <<handled, link>>

Break ==
  /\ link = "open" /\ link' = "broken"
  /\ UNCHANGED <<sent, handled>>

Close ==
  /\ link \in {"open", "broken"} /\ link' = "closed"
  /\ UNCHANGED <<sent, handled>>

Handle ==
  /\ link # "over" /\ Len(handled) < Len(sent)
  /\ handled' = Append(handled, sent[Len(handled) + 1])
  /\ UNCHANGED <<sent, link>>

GiveUp ==
  /\ link \in {"broken", "closed"} /\ handled = sent
  /\ link' = "over"
  /\ UNCHANGED <<sent, handled>>

(* the next viewer, in place of this one or after it                       *)
Turn == sent' = <<>> /\ handled' = <<>> /\ link' = "open"

StreamNext ==
  \/ Put \/ Break \/ Close \/ Handle \/ GiveUp \/ Turn

StreamSafe == StreamInit /\ [][StreamNext]_streamVars

(* a frame that has arrived is handled, and a closed connection given up,  *)
(* unless another viewer takes over                                        *)
StreamLive ==
  /\ WF_streamVars(Handle)
  /\ WF_streamVars(GiveUp /\ link = "closed")
=============================================================================
