---------------------------- MODULE MediaStores ----------------------------
(***************************************************************************)
(* The attachment store and the webcam frame store of the voice service    *)
(* (src/attachment_store.py, src/webcam_frame_store.py): process-wide      *)
(* dictionaries by session, each operation of which runs under a lock and  *)
(* is one step.  VoiceGateway extends this module: its upload routes store, *)
(* and the bot of a session asks for captures, reads and clears.           *)
(*                                                                         *)
(* A frame is its sequence number; an attachment is its source and the     *)
(* capture request it answers.  The listeners, which are called after the  *)
(* lock is released, keep nothing here.                                    *)
(***************************************************************************)
EXTENDS Naturals, Sequences, SequencesExt

CONSTANTS
  Sessions, \* session ids
  Ring      \* _FRAME_RING_LIMIT, 64 in the code

ASSUME RingAssumption == Ring \in Nat \ {0}

VARIABLES
  frames,         \* _frames_by_session
  attachments,    \* _attachments_by_session
  captureRequest, \* _capture_request_by_session; 0 for no request
  frameCount,     \* frames numbered so far, the position of _sequence
  asked,          \* every capture request made, with its session
  shot            \* every frame stored for a session since it was cleared

media == <<frames, attachments, captureRequest, frameCount, asked, shot>>

NoRequest == 0
RequestIds == DOMAIN asked

Attachment ==
  [source : {"upload"}, request : {NoRequest}] \cup [source : {"capture"}, request : Nat \ {NoRequest}]

MediaTypeOK ==
  /\ frameCount \in Nat
  /\ frames \in [Sessions -> Seq(1..frameCount)]
  /\ attachments \in [Sessions -> Seq(Attachment)]
  /\ asked \in Seq(Sessions)
  /\ captureRequest \in [Sessions -> {NoRequest} \cup RequestIds]
  /\ shot \in [Sessions -> Seq(1..frameCount)]

MediaInit ==
  /\ frames = [s \in Sessions |-> <<>>]
  /\ attachments = [s \in Sessions |-> <<>>]
  /\ captureRequest = [s \in Sessions |-> NoRequest]
  /\ frameCount = 0
  /\ asked = <<>>
  /\ shot = [s \in Sessions |-> <<>>]

(* The last n elements of q, all of them when there are fewer. *)
Newest(q, n) == SubSeq(q, IF Len(q) > n THEN Len(q) - n + 1 ELSE 1, Len(q))

-----------------------------------------------------------------------------
(* Frames *)

Slid_Full(q) == IF Len(q) > Ring THEN SubSeq(q, 1, Ring) ELSE q
Slid(q) == Newest(q, Ring)

NextFrame == frameCount + 1

StoreFrame(s) ==
  /\ frameCount' = frameCount + 1
  /\ frames' = [frames EXCEPT ![s] = Slid(Append(@, NextFrame))]
  /\ shot' = [shot EXCEPT ![s] = Append(@, NextFrame)]
  /\ UNCHANGED <<attachments, captureRequest, asked>>

(* recent_webcam_frames with a max_count *)
RecentFrames(s, n) == Newest(frames[s], n)

-----------------------------------------------------------------------------
(* Attachments and capture requests *)

StoreAttachment(s, item) ==
  /\ attachments' = [attachments EXCEPT ![s] = Append(@, item)]
  /\ UNCHANGED <<frames, captureRequest, frameCount, asked, shot>>

(* The new request replaces one that is outstanding. *)
CreateCaptureRequest(s) ==
  /\ asked' = Append(asked, s)
  /\ captureRequest' = [captureRequest EXCEPT ![s] = Len(asked')]
  /\ UNCHANGED <<frames, attachments, frameCount, shot>>

Outstanding_Any(s, r) == captureRequest[s] # NoRequest /\ r # NoRequest /\ asked[r] = s
Outstanding(s, r) == captureRequest[s] = r

Consumed(s) == [captureRequest EXCEPT ![s] = NoRequest]

ConsumeCaptureRequest(s, r) ==
  /\ Outstanding(s, r)
  /\ captureRequest' = Consumed(s)
  /\ UNCHANGED <<frames, attachments, frameCount, asked, shot>>

(* clear_session_attachments and clear_session_webcam_frames *)
ClearMedia(s) ==
  /\ frames' = [frames EXCEPT ![s] = <<>>]
  /\ attachments' = [attachments EXCEPT ![s] = <<>>]
  /\ captureRequest' = [captureRequest EXCEPT ![s] = NoRequest]
  /\ shot' = [shot EXCEPT ![s] = <<>>]
  /\ UNCHANGED <<frameCount, asked>>

(* The process starts anew; the ids of requests are never used again. *)
LoseMedia ==
  /\ frames' = [s \in Sessions |-> <<>>]
  /\ attachments' = [s \in Sessions |-> <<>>]
  /\ captureRequest' = [s \in Sessions |-> NoRequest]
  /\ frameCount' = 0
  /\ shot' = [s \in Sessions |-> <<>>]
  /\ UNCHANGED asked

-----------------------------------------------------------------------------
(* Properties *)

(* What a bot reads with recent_webcam_frames, for any count up to the     *)
(* ring limit, is exactly the newest frames of the session in the order    *)
(* they were stored, however frames of other sessions came between.        *)
RingHoldsNewest ==
  \A s \in Sessions : \A n \in 1..Ring : RecentFrames(s, n) = Newest(shot[s], n)
=============================================================================
