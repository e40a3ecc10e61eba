------------------------- MODULE VoiceGatewayProofs -------------------------
(***************************************************************************)
(* Theorems about VoiceGateway and the media stores it extends, for every  *)
(* set of sessions, connections and uploads, and every size of the ring.   *)
(***************************************************************************)
EXTENDS VoiceGateway, SequenceTheorems, TLAPS

-----------------------------------------------------------------------------
(* The newest elements of a sequence *)

(* The newest n elements of a sequence are its last n, in their order.     *)
LEMMA NewestProperties ==
  ASSUME NEW S, NEW q \in Seq(S), NEW n \in Nat
  PROVE  /\ Newest(q, n) \in Seq(S)
         /\ Len(Newest(q, n)) = IF Len(q) > n THEN n ELSE Len(q)
         /\ \A i \in 1..Len(Newest(q, n)) :
              Newest(q, n)[i] = q[i + Len(q) - Len(Newest(q, n))]
<1> DEFINE first == IF Len(q) > n THEN Len(q) - n + 1 ELSE 1
<1>1. Len(q) \in Nat /\ first \in 1..(Len(q) + 1)
  OBVIOUS
<1>2. \A i \in first..Len(q) : q[i] \in S
  BY <1>1, ElementOfSeq
<1>3. /\ SubSeq(q, first, Len(q)) \in Seq(S)
      /\ Len(SubSeq(q, first, Len(q))) = IF first <= Len(q) THEN Len(q) - first + 1 ELSE 0
      /\ \A i \in 1..(Len(q) - first + 1) : SubSeq(q, first, Len(q))[i] = q[first + i - 1]
  <2> HIDE DEF first
  <2> QED BY <1>1, <1>2, SubSeqProperties
<1>4. Newest(q, n) = SubSeq(q, first, Len(q))
  BY DEF Newest
<1> DEFINE new == Newest(q, n)
<1>new. /\ new \in Seq(S)
        /\ Len(new) = IF first <= Len(q) THEN Len(q) - first + 1 ELSE 0
        /\ \A i \in 1..(Len(q) - first + 1) : new[i] = q[first + i - 1]
  BY <1>3, <1>4
<1>5. first = IF Len(q) > n THEN Len(q) - n + 1 ELSE 1
  OBVIOUS
<1> HIDE DEF first, new
<1>6. Len(new) = IF Len(q) > n THEN n ELSE Len(q)
  <2>1. CASE Len(q) > n
    BY <1>1, <1>5, <1>new, <2>1
  <2>2. CASE ~(Len(q) > n)
    BY <1>1, <1>5, <1>new, <2>2
  <2> QED BY <2>1, <2>2
<1>7. first - 1 = Len(q) - Len(new) /\ Len(new) = Len(q) - first + 1
  BY <1>1, <1>5, <1>6
<1>8. ASSUME NEW i \in 1..Len(new)
      PROVE  new[i] = q[i + Len(q) - Len(new)]
  <2>1. new[i] = q[first + i - 1]
    BY <1>new, <1>7
  <2>2. first + i - 1 = i + Len(q) - Len(new)
    BY <1>1, <1>5, <1>6
  <2> QED BY <2>1, <2>2
<1> QED BY <1>new, <1>6, <1>8 DEF new

LEMMA NewestOfEmpty ==
  ASSUME NEW n \in Nat
  PROVE  Newest(<<>>, n) = <<>>
<1>1. Len(<<>>) = 0
  BY EmptySeq
<1>2. Newest(<<>>, n) = SubSeq(<<>>, 1, 0)
  BY <1>1 DEF Newest
<1> QED BY <1>2, SubSeqEmpty

(* Of the newest m, the newest n of them are the newest n of all.          *)
LEMMA NewestOfNewest ==
  ASSUME NEW S, NEW q \in Seq(S), NEW m \in Nat, NEW n \in 0..m
  PROVE  Newest(Newest(q, m), n) = Newest(q, n)
<1> DEFINE kept == Newest(q, m)
           once == Newest(q, n)
           twice == Newest(kept, n)
<1>1. /\ kept \in Seq(S) /\ Len(kept) = IF Len(q) > m THEN m ELSE Len(q)
      /\ \A i \in 1..Len(kept) : kept[i] = q[i + Len(q) - Len(kept)]
  BY NewestProperties
<1>2. /\ once \in Seq(S) /\ Len(once) = IF Len(q) > n THEN n ELSE Len(q)
      /\ \A i \in 1..Len(once) : once[i] = q[i + Len(q) - Len(once)]
  BY NewestProperties
<1> HIDE DEF kept, once
<1>3. /\ twice \in Seq(S) /\ Len(twice) = IF Len(kept) > n THEN n ELSE Len(kept)
      /\ \A i \in 1..Len(twice) : twice[i] = kept[i + Len(kept) - Len(twice)]
  BY <1>1, NewestProperties
<1> HIDE DEF twice
<1>4. /\ Len(q) \in Nat /\ Len(twice) = Len(once)
      /\ Len(kept) \in 0..Len(q) /\ Len(twice) \in 0..Len(kept)
  BY <1>1, <1>2, <1>3
<1>5. ASSUME NEW i \in 1..Len(twice) PROVE twice[i] = once[i]
  <2> DEFINE j == i + Len(kept) - Len(twice)
  <2>1. j \in 1..Len(kept) /\ j + Len(q) - Len(kept) = i + Len(q) - Len(once)
    BY <1>4
  <2>2. twice[i] = kept[j] /\ once[i] = q[i + Len(q) - Len(once)]
    BY <1>2, <1>3, <1>4
  <2> HIDE DEF j
  <2> QED BY <1>1, <2>1, <2>2
<1> QED BY <1>2, <1>3, <1>4, <1>5, SeqEqual DEF kept, once, twice

(* To keep the newest m after each arrival loses none of the newest m.     *)
LEMMA NewestAppended ==
  ASSUME NEW S, NEW q \in Seq(S), NEW m \in Nat \ {0}, NEW x \in S
  PROVE  Newest(Append(Newest(q, m), x), m) = Newest(Append(q, x), m)
<1> DEFINE kept == Newest(q, m)
           all == Append(q, x)
           some == Append(kept, x)
           left == Newest(some, m)
           right == Newest(all, m)
<1>1. /\ kept \in Seq(S) /\ Len(kept) = IF Len(q) > m THEN m ELSE Len(q)
      /\ \A i \in 1..Len(kept) : kept[i] = q[i + Len(q) - Len(kept)]
  BY NewestProperties
<1>2. all \in Seq(S) /\ Len(all) = Len(q) + 1
      /\ \A i \in 1..Len(all) : all[i] = IF i <= Len(q) THEN q[i] ELSE x
  BY AppendProperties
<1> HIDE DEF kept, all
<1>3. some \in Seq(S) /\ Len(some) = Len(kept) + 1
      /\ \A i \in 1..Len(some) : some[i] = IF i <= Len(kept) THEN kept[i] ELSE x
  BY <1>1, AppendProperties
<1> HIDE DEF some
<1>4. /\ left \in Seq(S) /\ Len(left) = IF Len(some) > m THEN m ELSE Len(some)
      /\ \A i \in 1..Len(left) : left[i] = some[i + Len(some) - Len(left)]
  BY <1>3, NewestProperties
<1>5. /\ right \in Seq(S) /\ Len(right) = IF Len(all) > m THEN m ELSE Len(all)
      /\ \A i \in 1..Len(right) : right[i] = all[i + Len(all) - Len(right)]
  BY <1>2, NewestProperties
<1> HIDE DEF left, right
<1>6. /\ Len(q) \in Nat /\ Len(kept) \in 0..Len(q) /\ Len(left) = Len(right)
      /\ Len(some) = Len(kept) + 1 /\ Len(all) = Len(q) + 1 /\ Len(left) \in 0..Len(some)
  BY <1>1, <1>2, <1>3, <1>4, <1>5
<1>7. ASSUME NEW i \in 1..Len(left) PROVE left[i] = right[i]
  <2> DEFINE j == i + Len(some) - Len(left)
             l == i + Len(all) - Len(right)
  <2>1. j \in 1..Len(some) /\ l \in 1..Len(all) /\ l = j + Len(q) - Len(kept)
    BY <1>6
  <2>2. left[i] = some[j] /\ right[i] = all[l]
    BY <1>4, <1>5, <1>6
  <2> HIDE DEF j, l
  <2>3. CASE j <= Len(kept)
    <3>1. j \in 1..Len(kept) /\ l <= Len(q)
      BY <1>6, <2>1, <2>3
    <3>2. some[j] = kept[j] /\ kept[j] = q[l]
      BY <1>1, <1>3, <1>6, <2>1, <2>3, <3>1
    <3> QED BY <1>2, <2>1, <2>2, <3>1, <3>2
  <2>4. CASE j = Len(kept) + 1
    <3>1. some[j] = x /\ ~(l <= Len(q))
      BY <1>3, <1>6, <2>1, <2>4
    <3> QED BY <1>2, <2>1, <2>2, <3>1
  <2> QED BY <1>6, <2>1, <2>3, <2>4
<1> QED BY <1>4, <1>5, <1>6, <1>7, SeqEqual DEF kept, all, some, left, right

-----------------------------------------------------------------------------
(* The media stores *)

(* The ring of a session holds the newest frames that it was sent, and the *)
(* outstanding capture request of a session is the newest one it made.     *)
MediaSound ==
  /\ MediaTypeOK
  /\ \A s \in Sessions : frames[s] = Newest(shot[s], Ring)
  /\ \A s \in Sessions : captureRequest[s] # NoRequest => Latest(s, captureRequest[s])

(* Requests are only added, and one that is no longer outstanding is not   *)
(* made outstanding again.                                                 *)
RequestsKept ==
  /\ \A r \in RequestIds : r \in RequestIds' /\ asked'[r] = asked[r]
  /\ \A s \in Sessions : captureRequest'[s] \in {captureRequest[s], NoRequest}
                           \/ captureRequest'[s] \notin RequestIds

LEMMA StoreFrameSound ==
  ASSUME MediaSound, NEW s \in Sessions, StoreFrame(s)
  PROVE  MediaSound' /\ RequestsKept
<1>1. /\ frameCount \in Nat /\ frameCount' = frameCount + 1
      /\ 1..frameCount \subseteq 1..frameCount' /\ NextFrame \in 1..frameCount'
  BY DEF StoreFrame, MediaSound, MediaTypeOK, NextFrame
<1>2. ASSUME NEW t \in Sessions
      PROVE  frames[t] \in Seq(1..frameCount') /\ shot[t] \in Seq(1..frameCount')
  <2>1. frames[t] \in Seq(1..frameCount) /\ shot[t] \in Seq(1..frameCount)
    BY DEF MediaSound, MediaTypeOK
  <2> QED BY <1>1, <2>1, SeqMonotonic
<1>3. /\ frames' = [frames EXCEPT ![s] = Newest(Append(frames[s], NextFrame), Ring)]
      /\ shot' = [shot EXCEPT ![s] = Append(shot[s], NextFrame)]
      /\ UNCHANGED <<attachments, captureRequest, asked>>
  BY DEF StoreFrame, Slid
<1>4. /\ DOMAIN frames = Sessions /\ DOMAIN shot = Sessions
      /\ \A t \in Sessions : frames[t] = Newest(shot[t], Ring)
  BY DEF MediaSound, MediaTypeOK
<1>5. /\ Append(shot[s], NextFrame) \in Seq(1..frameCount')
      /\ Append(frames[s], NextFrame) \in Seq(1..frameCount')
  BY <1>1, <1>2, AppendProperties
<1>6. Newest(Append(frames[s], NextFrame), Ring) \in Seq(1..frameCount')
  BY <1>5, RingAssumption, NewestProperties
<1>7. Newest(Append(frames[s], NextFrame), Ring) = Newest(Append(shot[s], NextFrame), Ring)
  BY <1>1, <1>2, <1>4, RingAssumption, NewestAppended
<1>8. \A t \in Sessions : frames'[t] = Newest(shot'[t], Ring)
  BY <1>3, <1>4, <1>7
<1>9. frames' \in [Sessions -> Seq(1..frameCount')] /\ shot' \in [Sessions -> Seq(1..frameCount')]
  BY <1>2, <1>3, <1>4, <1>5, <1>6
<1>10. frameCount' \in Nat
  BY <1>1
<1> QED BY <1>3, <1>8, <1>9, <1>10 DEF MediaSound, MediaTypeOK, RequestsKept, RequestIds, Latest

LEMMA StoreAttachmentSound ==
  ASSUME MediaSound, NEW s \in Sessions, NEW item \in Attachment, StoreAttachment(s, item)
  PROVE  MediaSound' /\ RequestsKept
<1>1. attachments' \in [Sessions -> Seq(Attachment)]
  BY AppendProperties DEF StoreAttachment, MediaSound, MediaTypeOK
<1> QED BY <1>1 DEF StoreAttachment, MediaSound, MediaTypeOK, RequestsKept, RequestIds, Latest

LEMMA CreateCaptureRequestSound ==
  ASSUME MediaSound, NEW s \in Sessions, CreateCaptureRequest(s)
  PROVE  MediaSound' /\ RequestsKept
<1>1. /\ asked' \in Seq(Sessions) /\ Len(asked') = Len(asked) + 1 /\ Len(asked) \in Nat
      /\ DOMAIN asked = 1..Len(asked) /\ DOMAIN asked' = 1..Len(asked')
      /\ \A r \in 1..Len(asked) : asked'[r] = asked[r]
      /\ asked'[Len(asked')] = s
  <2>1. asked \in Seq(Sessions) /\ asked' = Append(asked, s)
    BY DEF CreateCaptureRequest, MediaSound, MediaTypeOK
  <2> QED BY <2>1, AppendProperties, LenProperties
<1>2. /\ captureRequest'[s] = Len(asked')
      /\ \A t \in Sessions : t # s => captureRequest'[t] = captureRequest[t]
      /\ captureRequest' \in [Sessions -> {NoRequest} \cup RequestIds']
  BY <1>1 DEF CreateCaptureRequest, MediaSound, MediaTypeOK, RequestIds
<1>3. \A t \in Sessions : captureRequest[t] \in {NoRequest} \cup 1..Len(asked)
  BY <1>1 DEF MediaSound, MediaTypeOK, RequestIds
<1>4. ASSUME NEW t \in Sessions, captureRequest'[t] # NoRequest PROVE Latest(t, captureRequest[t])'
  <2>1. CASE t = s
    BY <1>1, <1>2, <2>1 DEF Latest, RequestIds
  <2>2. CASE t # s
    <3>1. captureRequest[t] \in 1..Len(asked) /\ Latest(t, captureRequest[t])
      BY <1>2, <1>3, <1>4, <2>2 DEF MediaSound
    <3> QED BY <1>1, <1>2, <2>2, <3>1 DEF Latest, RequestIds
  <2> QED BY <2>1, <2>2
<1>5. RequestsKept
  BY <1>1, <1>2 DEF RequestsKept, RequestIds
<1>6. MediaTypeOK'
  BY <1>1, <1>2 DEF CreateCaptureRequest, MediaSound, MediaTypeOK
<1> QED BY <1>4, <1>5, <1>6 DEF CreateCaptureRequest, MediaSound

LEMMA ConsumeCaptureRequestSound ==
  ASSUME MediaSound, NEW s \in Sessions, NEW r, ConsumeCaptureRequest(s, r)
  PROVE  MediaSound' /\ RequestsKept
BY DEF ConsumeCaptureRequest, Consumed, MediaSound, MediaTypeOK, RequestsKept, RequestIds, Latest

(* To clear media, for one session or for all, leaves nothing to be wrong. *)
LEMMA ClearedSound ==
  ASSUME MediaSound, NEW S \in SUBSET Sessions, UNCHANGED asked,
         frameCount' = frameCount \/ (frameCount' = 0 /\ S = Sessions),
         frames' = [s \in Sessions |-> IF s \in S THEN <<>> ELSE frames[s]],
         attachments' = [s \in Sessions |-> IF s \in S THEN <<>> ELSE attachments[s]],
         captureRequest' = [s \in Sessions |-> IF s \in S THEN NoRequest ELSE captureRequest[s]],
         shot' = [s \in Sessions |-> IF s \in S THEN <<>> ELSE shot[s]]
  PROVE  MediaSound' /\ RequestsKept
<1>1. Newest(<<>>, Ring) = <<>>
  BY RingAssumption, NewestOfEmpty
<1>2. \A T : <<>> \in Seq(T)
  BY EmptySeq
<1>3. MediaTypeOK'
  <2>1. \A s \in Sessions : frames'[s] \in Seq(1..frameCount') /\ shot'[s] \in Seq(1..frameCount')
    BY <1>2 DEF MediaSound, MediaTypeOK
  <2>2. /\ frames' \in [Sessions -> Seq(1..frameCount')]
        /\ shot' \in [Sessions -> Seq(1..frameCount')]
    BY <2>1
  <2>3. attachments' \in [Sessions -> Seq(Attachment)]
    BY <1>2 DEF MediaSound, MediaTypeOK
  <2>4. frameCount' \in Nat /\ captureRequest' \in [Sessions -> {NoRequest} \cup RequestIds']
    BY DEF MediaSound, MediaTypeOK, RequestIds
  <2> QED BY <2>2, <2>3, <2>4 DEF MediaSound, MediaTypeOK
<1>4. \A s \in Sessions : frames'[s] = Newest(shot'[s], Ring)
  BY <1>1 DEF MediaSound
<1>5. \A s \in Sessions : captureRequest'[s] # NoRequest => Latest(s, captureRequest[s])'
  BY DEF MediaSound, Latest, RequestIds
<1>6. RequestsKept
  BY DEF RequestsKept, RequestIds
<1> QED BY <1>3, <1>4, <1>5, <1>6 DEF MediaSound

LEMMA ClearMediaSound ==
  ASSUME MediaSound, NEW s \in Sessions, ClearMedia(s)
  PROVE  MediaSound' /\ RequestsKept
<1>1. /\ UNCHANGED <<frameCount, asked>>
      /\ frames' = [t \in Sessions |-> IF t \in {s} THEN <<>> ELSE frames[t]]
      /\ attachments' = [t \in Sessions |-> IF t \in {s} THEN <<>> ELSE attachments[t]]
      /\ captureRequest' = [t \in Sessions |-> IF t \in {s} THEN NoRequest ELSE captureRequest[t]]
      /\ shot' = [t \in Sessions |-> IF t \in {s} THEN <<>> ELSE shot[t]]
  BY DEF ClearMedia, MediaSound, MediaTypeOK
<1> QED BY <1>1, ClearedSound

LEMMA LoseMediaSound ==
  ASSUME MediaSound, LoseMedia
  PROVE  MediaSound' /\ RequestsKept
<1>1. /\ frames' = [t \in Sessions |-> IF t \in Sessions THEN <<>> ELSE frames[t]]
      /\ attachments' = [t \in Sessions |-> IF t \in Sessions THEN <<>> ELSE attachments[t]]
      /\ captureRequest' = [t \in Sessions |-> IF t \in Sessions THEN NoRequest ELSE captureRequest[t]]
      /\ shot' = [t \in Sessions |-> IF t \in Sessions THEN <<>> ELSE shot[t]]
  BY DEF LoseMedia
<1> QED BY <1>1, ClearedSound DEF LoseMedia

LEMMA UntouchedMediaSound ==
  ASSUME MediaSound, UNCHANGED media
  PROVE  MediaSound' /\ RequestsKept
BY DEF media, MediaSound, MediaTypeOK, RequestsKept, RequestIds, Latest

-----------------------------------------------------------------------------
(* Types *)

(* An upload that is being read has a session, and a capture a request.    *)
UploadsTyped ==
  \A u \in Uploads :
    /\ upload[u].phase = "reading" => upload[u].session \in Sessions
    /\ upload[u].phase \in Accepted => (upload[u].request = NoRequest <=> upload[u].kind # "capture")

Sound == TypeOK /\ MediaSound /\ UploadsTyped

(* Everything but the media and the uploads.                               *)
RoutesTyped ==
  /\ start \in [Sessions -> {"unsent", "checking", "refused", "ready", "lost"}]
  /\ pending \subseteq Sessions
  /\ active \in [Sessions -> {"none"} \cup Configs]
  /\ conn \in [Conns -> [phase : ConnPhases, transport : Transports, session : Ids,
                         config : {"none"} \cup Configs]]
  /\ restarted \in BOOLEAN

UploadRecords == [phase : {"unsent", "refused"} \cup Accepted, session : Ids,
                  kind : Kinds, request : {NoRequest} \cup RequestIds]

LEMMA MoveTyped ==
  ASSUME RoutesTyped, NEW c \in Conns, NEW phase \in ConnPhases, Move(c, phase)
  PROVE  /\ conn' \in [Conns -> [phase : ConnPhases, transport : Transports, session : Ids,
                                 config : {"none"} \cup Configs]]
         /\ conn'[c].phase = phase /\ conn'[c].session = conn[c].session
         /\ conn'[c].config = conn[c].config
         /\ \A d \in Conns : d # c => conn'[d] = conn[d]
BY DEF RoutesTyped, Move

LEMMA ResolveTyped ==
  ASSUME RoutesTyped, NEW c \in Conns, NEW s \in Ids, NEW transport \in Transports,
         NEW phase \in ConnPhases, Resolve(c, s, transport, phase)
  PROVE  /\ conn' \in [Conns -> [phase : ConnPhases, transport : Transports, session : Ids,
                                 config : {"none"} \cup Configs]]
         /\ conn'[c].phase = phase /\ conn'[c].session = s
         /\ conn'[c].config = IF s \in pending THEN "own" ELSE "default"
         /\ \A d \in Conns : d # c => conn'[d] = conn[d]
         /\ pending' = pending \ {s}
BY DEF RoutesTyped, Resolve, Remaining, Configs

LEMMA ActivatedTyped ==
  ASSUME RoutesTyped, NEW s \in Ids, NEW config \in {"none"} \cup Configs
  PROVE  /\ Activated(s, config) \in [Sessions -> {"none"} \cup Configs]
         /\ \A t \in Sessions : Activated(s, config)[t] = IF t = s THEN config ELSE active[t]
BY NoSessionAssumption DEF RoutesTyped, Activated, Ids

LEMMA StartTyped ==
  ASSUME RoutesTyped, NEW s \in Sessions, StartStep(s)
  PROVE  RoutesTyped' /\ UNCHANGED <<media, upload>>
BY DEF StartStep, StartArrives, StartChecked, Stored, RoutesTyped

LEMMA ConnTyped ==
  ASSUME RoutesTyped, NEW c \in Conns, ConnStep(c)
  PROVE  RoutesTyped' /\ UNCHANGED upload
<1>0. /\ conn[c].session \in Ids /\ conn[c].config \in {"none"} \cup Configs
      /\ Announced \cup {NoSession} \subseteq Ids
  BY DEF RoutesTyped, Announced, Ids
<1>1. ASSUME NEW s \in Announced \cup {NoSession}, Offer(c, s) PROVE RoutesTyped' /\ UNCHANGED upload
  <2>1. Resolve(c, s, "webrtc", "signaling") /\ s \in Ids
    BY <1>0, <1>1 DEF Offer
  <2>2. /\ conn' \in [Conns -> [phase : ConnPhases, transport : Transports, session : Ids,
                                 config : {"none"} \cup Configs]]
        /\ conn'[c].config \in {"none"} \cup Configs /\ pending' = pending \ {s}
    BY <2>1, ResolveTyped DEF ConnPhases, Unfinished, Transports, Configs
  <2>3. active' \in [Sessions -> {"none"} \cup Configs]
    BY <1>1, <2>1, <2>2, ActivatedTyped DEF Offer
  <2> QED BY <1>1, <2>2, <2>3 DEF Offer, RoutesTyped
<1>2. ASSUME NEW s \in Announced \cup {NoSession}, WsArrives(c, s) PROVE RoutesTyped' /\ UNCHANGED upload
  <2>1. PICK phase \in {"checking", "accepting"} : Resolve(c, s, "websocket", phase) /\ s \in Ids
    BY <1>0, <1>2 DEF WsArrives
  <2>2. /\ conn' \in [Conns -> [phase : ConnPhases, transport : Transports, session : Ids,
                                 config : {"none"} \cup Configs]]
        /\ pending' = pending \ {s}
    BY <2>1, ResolveTyped DEF ConnPhases, Transports
  <2> QED BY <1>2, <2>2 DEF WsArrives, RoutesTyped
<1>3. CASE OfferConnects(c) \/ OfferFails(c) \/ OfferRenegotiates(c) \/ WsChecked(c) \/ WsLost(c)
  <2>1. PICK phase \in ConnPhases : Move(c, phase)
    BY <1>3 DEF OfferConnects, OfferFails, OfferRenegotiates, WsChecked, WsLost, ConnPhases,
                Unfinished, Leaking
  <2> QED BY <1>3, <2>1, MoveTyped
          DEF OfferConnects, OfferFails, OfferRenegotiates, WsChecked, WsLost, RoutesTyped
<1>4. CASE WsAccepted(c) \/ BotEnds(c)
  <2>1. PICK phase \in ConnPhases : Move(c, phase)
    BY <1>4 DEF WsAccepted, BotEnds, ConnPhases, Unfinished
  <2>2. active' \in [Sessions -> {"none"} \cup Configs]
    BY <1>0, <1>4, ActivatedTyped DEF WsAccepted, BotEnds, OnAccept, Deactivated
  <2> QED BY <1>4, <2>1, <2>2, MoveTyped DEF WsAccepted, BotEnds, RoutesTyped
<1>5. CASE BotStep(c)
  BY <1>5 DEF BotStep, RoutesTyped
<1> QED BY <1>1, <1>2, <1>3, <1>4, <1>5 DEF ConnStep

LEMMA UploadTyped ==
  ASSUME RoutesTyped, NEW u \in Uploads, UploadStep(u)
  PROVE  RoutesTyped'
BY DEF UploadStep, UploadArrives, UploadStored, UploadFails, RoutesTyped

LEMMA RestartTyped ==
  ASSUME RoutesTyped, Restart
  PROVE  RoutesTyped'
BY DEF Restart, RoutesTyped, Detached, ConnPhases, Transports, Ids

LEMMA SoundStep == Sound /\ [Next]_vars => Sound'
<1> SUFFICES ASSUME Sound, [Next]_vars PROVE Sound'
  OBVIOUS
<1>0. RoutesTyped /\ MediaSound /\ upload \in [Uploads -> UploadRecords]
  BY DEF Sound, TypeOK, RoutesTyped, UploadRecords
<1>1. ASSUME RoutesTyped', MediaSound', RequestsKept,
             \A u \in Uploads : upload'[u] \in {upload[u], Without("failed")},
             DOMAIN upload' = Uploads, upload' = [u \in Uploads |-> upload'[u]]
      PROVE  Sound'
  <2>1. {NoRequest} \cup RequestIds \subseteq {NoRequest} \cup RequestIds'
    BY <1>1 DEF RequestsKept
  <2>2. Without("failed") \in UploadRecords /\ UploadRecords \subseteq UploadRecords'
    BY <2>1 DEF Without, UploadRecords, Accepted, Kinds, Ids
  <2>3. upload' \in [Uploads -> UploadRecords']
    BY <1>0, <1>1, <2>2
  <2>4. UploadsTyped'
    BY <1>1 DEF Sound, UploadsTyped, Without
  <2> QED BY <1>1, <2>3, <2>4 DEF Sound, TypeOK, RoutesTyped, UploadRecords, MediaSound
<1>2. ASSUME UNCHANGED upload, RoutesTyped', MediaSound', RequestsKept PROVE Sound'
  BY <1>0, <1>1, <1>2
<1>3. ASSUME NEW s \in Sessions, StartStep(s) PROVE Sound'
  BY <1>0, <1>2, <1>3, StartTyped, UntouchedMediaSound
<1>4. ASSUME NEW c \in Conns, ConnStep(c) PROVE Sound'
  <2>1. RoutesTyped' /\ UNCHANGED upload
    BY <1>0, <1>4, ConnTyped
  <2>2. MediaSound' /\ RequestsKept
    <3>1. CASE BotStep(c)
      <4>1. conn[c].session \in Sessions
        BY <1>0, <3>1 DEF BotStep, RoutesTyped, Ids
      <4> QED BY <1>0, <3>1, <4>1, CreateCaptureRequestSound, ClearMediaSound DEF BotStep
    <3>2. CASE UNCHANGED media
      BY <1>0, <3>2, UntouchedMediaSound
    <3> QED BY <1>4, <3>1, <3>2
            DEF ConnStep, Offer, WsArrives, OfferConnects, OfferFails, OfferRenegotiates,
                WsChecked, WsAccepted, WsLost, BotEnds
  <2> QED BY <1>2, <2>1, <2>2
<1>5. ASSUME NEW u \in Uploads, UploadStep(u) PROVE Sound'
  <2>1. RoutesTyped'
    BY <1>0, <1>5, UploadTyped
  <2>2. ASSUME MediaSound', RequestsKept,
               upload'[u] \in UploadRecords,
               upload' = [upload EXCEPT ![u] = upload'[u]],
               upload'[u].phase = "reading" => upload'[u].session \in Sessions,
               upload'[u].phase \in Accepted =>
                 (upload'[u].request = NoRequest <=> upload'[u].kind # "capture")
        PROVE  Sound'
    <3>1. {NoRequest} \cup RequestIds \subseteq {NoRequest} \cup RequestIds'
      BY <2>2 DEF RequestsKept
    <3>2. UploadRecords \subseteq UploadRecords'
      BY <3>1 DEF UploadRecords
    <3>3. upload' \in [Uploads -> UploadRecords']
      BY <1>0, <2>2, <3>2
    <3>4. UploadsTyped'
      BY <1>0, <2>2 DEF Sound, UploadsTyped
    <3> QED BY <2>1, <2>2, <3>3, <3>4 DEF Sound, TypeOK, RoutesTyped, UploadRecords, MediaSound
  <2>3. ASSUME NEW s \in Announced, NEW kind \in Kinds, NEW r \in {NoRequest} \cup RequestIds,
               UploadArrives(u, s, kind, r)
        PROVE  Sound'
    <3>1. MediaSound' /\ RequestsKept
      BY <1>0, <2>3, UntouchedMediaSound, ConsumeCaptureRequestSound DEF UploadArrives, Announced
    <3>2. \/ upload' = [upload EXCEPT ![u] =
               [phase |-> "reading", session |-> s, kind |-> kind, request |-> r]]
          \/ upload' = [upload EXCEPT ![u] = Without("refused")]
      BY <2>3 DEF UploadArrives
    <3>3. /\ [phase |-> "reading", session |-> s, kind |-> kind, request |-> r] \in UploadRecords
          /\ Without("refused") \in UploadRecords /\ s \in Sessions
          /\ (r = NoRequest) <=> (kind # "capture")
      BY <2>3 DEF UploadArrives, UploadRecords, Without, Accepted, Kinds, Ids, Announced
    <3> QED BY <1>0, <2>2, <3>1, <3>2, <3>3 DEF Without, Accepted
  <2>4. CASE UploadStored(u)
    <3>1. /\ upload[u].session \in Sessions /\ upload[u].kind \in Kinds
          /\ upload[u].request \in {NoRequest} \cup RequestIds
          /\ upload[u].request = NoRequest <=> upload[u].kind # "capture"
      BY <1>0, <2>4 DEF UploadStored, Sound, UploadsTyped, UploadRecords, Accepted
    <3>2. MediaSound' /\ RequestsKept
      <4>1. CASE upload[u].kind = "frame"
        BY <1>0, <2>4, <3>1, <4>1, StoreFrameSound DEF UploadStored
      <4>2. CASE upload[u].kind = "attachment"
        BY <1>0, <2>4, <3>1, <4>2, StoreAttachmentSound DEF UploadStored, Attachment
      <4>3. CASE upload[u].kind = "capture"
        <5>1. upload[u].request \in Nat \ {NoRequest}
          BY <1>0, <3>1, <4>3, LenProperties DEF MediaSound, MediaTypeOK, RequestIds
        <5> QED BY <1>0, <2>4, <3>1, <4>3, <5>1, StoreAttachmentSound DEF UploadStored, Attachment
      <4> QED BY <3>1, <4>1, <4>2, <4>3 DEF Kinds
    <3>3. upload' = [upload EXCEPT ![u].phase = "stored"]
      BY <2>4 DEF UploadStored
    <3> QED BY <1>0, <2>2, <3>1, <3>2, <3>3 DEF UploadRecords, Accepted
  <2>5. CASE UploadFails(u)
    <3>1. /\ upload[u].request = NoRequest <=> upload[u].kind # "capture"
          /\ upload' = [upload EXCEPT ![u].phase = "failed"]
      BY <1>0, <2>5 DEF UploadFails, Sound, UploadsTyped, UploadRecords, Accepted
    <3>2. MediaSound' /\ RequestsKept
      BY <1>0, <2>5, UntouchedMediaSound DEF UploadFails
    <3> QED BY <1>0, <2>2, <3>1, <3>2 DEF UploadRecords, Accepted
  <2> QED BY <1>5, <2>3, <2>4, <2>5 DEF UploadStep
<1>6. CASE Restart
  <2>1. RoutesTyped' /\ MediaSound' /\ RequestsKept
    BY <1>0, <1>6, RestartTyped, LoseMediaSound DEF Restart
  <2> QED BY <1>1, <1>6, <2>1 DEF Restart
<1>7. CASE UNCHANGED vars
  BY <1>0, <1>2, <1>7, UntouchedMediaSound DEF vars, RoutesTyped
<1> QED BY <1>3, <1>4, <1>5, <1>6, <1>7 DEF Next

LEMMA AlwaysSound == Spec => []Sound
<1>1. Init => Sound
  <2> SUFFICES ASSUME Init PROVE Sound
    OBVIOUS
  <2>1. \A T : <<>> \in Seq(T)
    BY EmptySeq
  <2>2. MediaTypeOK
    BY <2>1 DEF Init, MediaInit, MediaTypeOK
  <2>3. TypeOK
    BY <2>2 DEF Init, TypeOK, Detached, Without, ConnPhases, Transports, Ids, Kinds, Configs
  <2>4. Newest(<<>>, Ring) = <<>>
    BY RingAssumption, NewestOfEmpty
  <2> QED BY <2>2, <2>3, <2>4 DEF Init, MediaInit, Sound, MediaSound, UploadsTyped, Without, Accepted
<1> QED BY <1>1, SoundStep, PTL DEF Spec

(* Every variable keeps its type.                                          *)
THEOREM TypeCorrect == Spec => []TypeOK
<1>1. Sound => TypeOK
  BY DEF Sound
<1> QED BY <1>1, AlwaysSound, PTL

(* The bot of a session reads the newest frames of the session, however    *)
(* many it asks for up to the limit of the ring.                           *)
THEOREM RingIsNewest == Spec => []RingHoldsNewest
<1>1. Sound => RingHoldsNewest
  <2> SUFFICES ASSUME Sound, NEW s \in Sessions, NEW n \in 1..Ring
               PROVE  Newest(frames[s], n) = Newest(shot[s], n)
    BY DEF RingHoldsNewest, RecentFrames
  <2>1. frames[s] = Newest(shot[s], Ring) /\ shot[s] \in Seq(1..frameCount)
    BY DEF Sound, MediaSound, MediaTypeOK
  <2> QED BY <2>1, RingAssumption, NewestOfNewest
<1> QED BY <1>1, AlwaysSound, PTL

-----------------------------------------------------------------------------
(* Configurations *)

(* What waits belongs to an id that was given out, a connection to one     *)
(* that was given out or to none, and it has looked for a configuration.   *)
Attached ==
  /\ \A s \in pending : start[s] = "ready"
  /\ \A c \in Conns :
       /\ conn[c].phase = "unsent" => conn[c].session = NoSession
       /\ conn[c].session # NoSession =>
            start[conn[c].session] \in {"ready", "lost"} /\ conn[c].config \in Configs

(* A configuration waits until the first connection of its id has taken it *)
(* out, and is active while that connection, if it stays the only one, is. *)
FirstTakes ==
  \A s \in Sessions : start[s] = "ready" =>
    /\ (\A c \in Conns : conn[c].session # s) => s \in pending
    /\ \A c \in Conns :
         conn[c].session = s /\ (\A d \in Conns : conn[d].session = s => d = c) =>
           /\ conn[c].config = "own"
           /\ conn[c].phase \in Unfinished => active[s] = "own"

ActiveHasConn ==
  \A s \in Sessions : active[s] # "none" =>
    \E c \in Conns : conn[c].session = s /\ conn[c].phase \in Unfinished \cup Leaking

(* ConfigGivenOnce, without the sets.                                      *)
GivenOnce ==
  \A c, d \in Conns : conn[c].session \in Sessions /\ conn[c].config = "own" =>
    /\ conn[c].session \notin pending
    /\ d # c /\ conn[d].session = conn[c].session => conn[d].config = "default"

Accounted == Attached /\ FirstTakes /\ ActiveHasConn /\ GivenOnce

LEMMA StartAccounted ==
  ASSUME RoutesTyped, Accounted, NEW s \in Sessions, StartStep(s)
  PROVE  Accounted'
<1>1. /\ start[s] \in {"unsent", "checking"}
      /\ \A t \in Sessions : t # s => start'[t] = start[t]
      /\ \/ start'[s] \in {"checking", "refused"} /\ pending' = pending
         \/ start'[s] = "ready" /\ pending' = pending \cup {s}
      /\ UNCHANGED <<active, conn>>
  BY DEF StartStep, StartArrives, StartChecked, Stored, RoutesTyped
<1>2. /\ \A c \in Conns : conn[c].session # s
      /\ active[s] = "none"
  BY <1>1, NoSessionAssumption DEF Accounted, Attached, ActiveHasConn
<1>3. \A c \in Conns : conn[c].session # NoSession => conn[c].session \in Sessions
  BY DEF RoutesTyped, Ids
<1>4. pending \subseteq Sessions
  BY DEF RoutesTyped
<1>5. Attached'
  BY <1>1, <1>2, <1>3, <1>4 DEF Accounted, Attached
<1>6. FirstTakes'
  BY <1>1, <1>2, <1>4 DEF Accounted, FirstTakes
<1>7. ActiveHasConn' /\ GivenOnce'
  BY <1>1, <1>2 DEF Accounted, ActiveHasConn, GivenOnce
<1> QED BY <1>5, <1>6, <1>7 DEF Accounted

(* A connection arrives: an offer is active at once.                       *)
LEMMA ArrivalAccounted ==
  ASSUME RoutesTyped, Accounted, NEW c \in Conns, conn[c].phase = "unsent",
         NEW s \in Announced \cup {NoSession}, NEW transport \in Transports,
         NEW phase \in {"signaling", "checking", "accepting"},
         Resolve(c, s, transport, phase), UNCHANGED start,
         IF phase = "signaling" THEN active' = Activated(s, conn'[c].config)
                                ELSE active' = active
  PROVE  Accounted'
<1>1. s \in Ids /\ (s # NoSession => s \in Sessions /\ start[s] \in {"ready", "lost"})
  BY DEF Announced, Ids
<1>2. /\ conn'[c].phase = phase /\ conn'[c].session = s
      /\ conn'[c].config = IF s \in pending THEN "own" ELSE "default"
      /\ \A d \in Conns : d # c => conn'[d] = conn[d]
      /\ pending' = pending \ {s}
  BY <1>1, ResolveTyped DEF ConnPhases, Unfinished
<1>3. conn[c].session = NoSession /\ pending \subseteq Sessions
  BY DEF Accounted, Attached, RoutesTyped
<1>4. /\ \A t \in Sessions : t # s => active'[t] = active[t]
      /\ s \in Sessions => active'[s] = IF phase = "signaling" THEN conn'[c].config ELSE active[s]
  BY <1>1, <1>2, ActivatedTyped DEF Configs
<1>5. Attached'
  BY <1>1, <1>2, <1>3 DEF Accounted, Attached, Configs
<1>6. FirstTakes'
  <2> SUFFICES ASSUME NEW t \in Sessions, start[t] = "ready"
               PROVE  /\ (\A d \in Conns : conn'[d].session # t) => t \in pending'
                      /\ \A e \in Conns :
                           conn'[e].session = t /\ (\A d \in Conns : conn'[d].session = t => d = e) =>
                             /\ conn'[e].config = "own"
                             /\ conn'[e].phase \in Unfinished => active'[t] = "own"
    BY DEF FirstTakes
  <2>1. CASE t = s
    <3>1. ASSUME \A d \in Conns : conn'[d].session = t => d = c
          PROVE  s \in pending
      <4>1. \A d \in Conns : conn[d].session # s
        BY <1>2, <1>3, <2>1, <3>1, NoSessionAssumption
      <4> QED BY <2>1, <4>1 DEF Accounted, FirstTakes
    <3>2. phase \in Unfinished => phase = "signaling"
      BY DEF Unfinished
    <3> QED BY <1>2, <1>4, <2>1, <3>1, <3>2
  <2>2. CASE t # s
    <3>1. \A d \in Conns : conn'[d].session = t <=> conn[d].session = t
      BY <1>2, <1>3, <2>2, NoSessionAssumption
    <3>2. \A d \in Conns : conn[d].session = t => conn'[d] = conn[d]
      BY <1>2, <1>3, NoSessionAssumption
    <3> QED BY <1>2, <1>4, <2>2, <3>1, <3>2 DEF Accounted, FirstTakes
  <2> QED BY <2>1, <2>2
<1>7. ActiveHasConn'
  <2> SUFFICES ASSUME NEW t \in Sessions, active'[t] # "none"
               PROVE  \E e \in Conns : conn'[e].session = t /\ conn'[e].phase \in Unfinished \cup Leaking
    BY DEF ActiveHasConn
  <2>1. CASE t = s /\ phase = "signaling"
    BY <1>2, <2>1 DEF Unfinished
  <2>2. CASE active[t] # "none"
    <3>1. PICK e \in Conns : conn[e].session = t /\ conn[e].phase \in Unfinished \cup Leaking
      BY <2>2 DEF Accounted, ActiveHasConn
    <3> QED BY <1>2, <1>3, <3>1, NoSessionAssumption
  <2> QED BY <1>4, <2>1, <2>2
<1>8. GivenOnce'
  BY <1>1, <1>2, <1>3, NoSessionAssumption DEF Accounted, Attached, GivenOnce, Configs
<1> QED BY <1>5, <1>6, <1>7, <1>8 DEF Accounted

(* A connection goes on.  The entry of its session stays, or is made when  *)
(* its bot starts to run, or is taken out when it ends.                    *)
LEMMA MoveAccounted ==
  ASSUME RoutesTyped, Accounted, NEW c \in Conns, NEW phase \in ConnPhases \ {"unsent"},
         conn[c].phase # "unsent", Move(c, phase), UNCHANGED <<start, pending>>,
         \/ active' = active /\ (phase \in Unfinished => conn[c].phase \in Unfinished)
                             /\ (conn[c].phase \in Unfinished => phase \in Unfinished \cup Leaking)
         \/ active' = active /\ {conn[c].phase, phase} \cap (Unfinished \cup Leaking) = {}
         \/ active' = Activated(conn[c].session, conn[c].config) /\ phase = "running"
         \/ active' = Activated(conn[c].session, "none") /\ phase = "ended",
         conn[c].phase \notin Leaking
  PROVE  Accounted'
<1> DEFINE s == conn[c].session
<1>1. /\ conn'[c].phase = phase /\ conn'[c].session = s /\ conn[c].session = s /\ conn'[c].config = conn[c].config
      /\ \A d \in Conns : d # c => conn'[d] = conn[d]
  BY MoveTyped
<1>2. s \in Ids /\ conn[c].config \in {"none"} \cup Configs
  BY DEF RoutesTyped
<1>. HIDE DEF s
<1>a. \A t \in Sessions : Activated(s, conn[c].config)[t] = IF t = s THEN conn[c].config ELSE active[t]
  BY <1>2, ActivatedTyped
<1>b. \A t \in Sessions : Activated(s, "none")[t] = IF t = s THEN "none" ELSE active[t]
  BY <1>2, ActivatedTyped
<1>d. \/ active' = active /\ (phase \in Unfinished => conn[c].phase \in Unfinished)
                         /\ (conn[c].phase \in Unfinished => phase \in Unfinished \cup Leaking)
      \/ active' = active /\ phase \notin Unfinished /\ conn[c].phase \notin Unfinished
      \/ active' = Activated(s, conn[c].config) /\ phase = "running"
      \/ active' = Activated(s, "none") /\ phase = "ended"
  BY DEF s
<1>3. \A t \in Sessions : t # s => active'[t] = active[t]
  BY <1>a, <1>b, <1>d
<1>4. s \in Sessions =>
        \/ active'[s] = active[s] /\ (phase \in Unfinished => conn[c].phase \in Unfinished)
                                  /\ (conn[c].phase \in Unfinished => phase \in Unfinished \cup Leaking)
        \/ active'[s] = active[s] /\ phase \notin Unfinished /\ conn[c].phase \notin Unfinished
        \/ active'[s] = conn[c].config /\ phase = "running"
        \/ active'[s] = "none" /\ phase = "ended"
  BY <1>a, <1>b, <1>d
<1>5. "ended" \notin Unfinished /\ "running" \in Unfinished
  BY DEF Unfinished
<1>6. Attached' /\ GivenOnce'
  BY <1>1 DEF Accounted, Attached, GivenOnce
<1>7. FirstTakes'
  <2> SUFFICES ASSUME NEW t \in Sessions, start[t] = "ready"
               PROVE  /\ (\A d \in Conns : conn'[d].session # t) => t \in pending
                      /\ \A e \in Conns :
                           conn'[e].session = t /\ (\A d \in Conns : conn'[d].session = t => d = e) =>
                             /\ conn'[e].config = "own"
                             /\ conn'[e].phase \in Unfinished => active'[t] = "own"
    BY DEF FirstTakes
  <2>1. \A d \in Conns : conn'[d].session = conn[d].session /\ conn'[d].config = conn[d].config
    BY <1>1
  <2>2. ASSUME NEW e \in Conns, conn[e].session = t, \A d \in Conns : conn[d].session = t => d = e
        PROVE  conn[e].config = "own" /\ (conn[e].phase \in Unfinished => active[t] = "own")
    BY <2>2 DEF Accounted, FirstTakes
  <2>3. (\A d \in Conns : conn[d].session # t) => t \in pending
    BY DEF Accounted, FirstTakes
  <2>4. ASSUME NEW e \in Conns, conn[e].session = t, \A d \in Conns : conn[d].session = t => d = e,
               conn'[e].phase \in Unfinished
        PROVE  active'[t] = "own"
    BY <1>1, <1>3, <1>4, <1>5, <2>2, <2>4
  <2> QED BY <2>1, <2>2, <2>3, <2>4
<1>8. ActiveHasConn'
  <2> SUFFICES ASSUME NEW t \in Sessions, active'[t] # "none"
               PROVE  \E e \in Conns : conn'[e].session = t /\ conn'[e].phase \in Unfinished \cup Leaking
    BY DEF ActiveHasConn
  <2>1. CASE t = s /\ phase = "running"
    BY <1>1, <1>5, <2>1
  <2>2. CASE active[t] # "none" /\ ~(t = s /\ phase = "ended" /\ active'[s] = "none")
    <3>1. PICK e \in Conns : conn[e].session = t /\ conn[e].phase \in Unfinished \cup Leaking
      BY <2>2 DEF Accounted, ActiveHasConn
    <3>2. CASE e = c
      BY <1>1, <1>4, <1>5, <2>2, <3>1, <3>2
    <3> QED BY <1>1, <3>1, <3>2
  <2> QED BY <1>3, <1>4, <2>1, <2>2
<1> QED BY <1>6, <1>7, <1>8 DEF Accounted

LEMMA AccountedStep == RoutesTyped /\ Accounted /\ [Next]_vars => Accounted'
<1> SUFFICES ASSUME RoutesTyped, Accounted, [Next]_vars PROVE Accounted'
  OBVIOUS
<1>1. CASE UNCHANGED <<start, pending, active, conn>>
  BY <1>1 DEF Accounted, Attached, FirstTakes, ActiveHasConn, GivenOnce
<1>2. ASSUME NEW c \in Conns, ConnStep(c) PROVE Accounted'
  <2>1. ASSUME NEW s \in Announced \cup {NoSession}, Offer(c, s) PROVE Accounted'
    BY <2>1, ArrivalAccounted DEF Offer, Transports
  <2>2. ASSUME NEW s \in Announced \cup {NoSession}, WsArrives(c, s) PROVE Accounted'
    BY <2>2, ArrivalAccounted DEF WsArrives, Transports
  <2>3. CASE OfferConnects(c) \/ OfferFails(c) \/ OfferRenegotiates(c)
    BY <2>3, MoveAccounted
       DEF OfferConnects, OfferFails, OfferRenegotiates, ConnPhases, Unfinished, Leaking
  <2>4. CASE WsChecked(c) \/ WsLost(c)
    BY <2>4, MoveAccounted DEF WsChecked, WsLost, ConnPhases, Unfinished, Leaking
  <2>5. CASE WsAccepted(c)
    BY <2>5, MoveAccounted DEF WsAccepted, OnAccept, ConnPhases, Unfinished, Leaking
  <2>6. CASE BotEnds(c)
    BY <2>6, MoveAccounted DEF BotEnds, Deactivated, ConnPhases, Unfinished, Leaking
  <2>7. CASE BotStep(c)
    BY <1>1, <2>7 DEF BotStep
  <2> QED BY <1>2, <2>1, <2>2, <2>3, <2>4, <2>5, <2>6, <2>7 DEF ConnStep
<1>3. ASSUME NEW u \in Uploads, UploadStep(u) PROVE Accounted'
  BY <1>1, <1>3 DEF UploadStep, UploadArrives, UploadStored, UploadFails
<1>4. CASE Restart
  <2>1. /\ pending' = {} /\ \A s \in Sessions : active'[s] = "none" /\ start'[s] # "ready"
        /\ \A c \in Conns : conn'[c].session = NoSession
    BY <1>4 DEF Restart, Detached, Accounted, Attached
  <2> QED BY <2>1, NoSessionAssumption DEF Accounted, Attached, FirstTakes, ActiveHasConn, GivenOnce
<1>5. CASE UNCHANGED vars
  BY <1>1, <1>5 DEF vars
<1> QED BY <1>2, <1>3, <1>4, <1>5, StartAccounted DEF Next

LEMMA AlwaysAccounted == Spec => []Accounted
<1>1. Init => Accounted
  BY NoSessionAssumption
     DEF Init, Detached, Accounted, Attached, FirstTakes, ActiveHasConn, GivenOnce
<1>2. Sound => RoutesTyped
  BY DEF Sound, TypeOK, RoutesTyped
<1> QED BY <1>1, <1>2, AccountedStep, AlwaysSound, PTL DEF Spec

(* Of all connections that use a session id, however they interleave, only *)
(* one gets the configuration that was stored for it.                      *)
THEOREM ConfigsGivenOnce == Spec => []ConfigGivenOnce
<1>1. Accounted /\ RoutesTyped => ConfigGivenOnce
  BY DEF Accounted, GivenOnce, ConfigGivenOnce, Attempts
<1>2. Sound => RoutesTyped
  BY DEF Sound, TypeOK, RoutesTyped
<1> QED BY <1>1, <1>2, AlwaysSound, AlwaysAccounted, PTL

(* A client that connects once is known from the moment it has its id      *)
(* until its bot ends, and no session outlives its connections.            *)
THEOREM SessionsKnown == Spec => []KnownWhileLive
<1>1. Accounted => KnownWhileLive
  <2> SUFFICES ASSUME Accounted, NEW s \in Sessions
               PROVE  /\ start[s] = "ready" =>
                           /\ Attempts(s) = {} => ConfigOf(s) = "own"
                           /\ \A c \in Conns : Attempts(s) = {c} /\ conn[c].phase \in Unfinished
                                                  => ConfigOf(s) = "own"
                      /\ active[s] # "none" =>
                           \E c \in Attempts(s) : conn[c].phase \in Unfinished \cup Leaking
    BY DEF KnownWhileLive
  <2>1. ASSUME start[s] = "ready", Attempts(s) = {} PROVE ConfigOf(s) = "own"
    <3>1. \A c \in Conns : conn[c].session # s
      BY <2>1 DEF Attempts
    <3> QED BY <2>1, <3>1 DEF Accounted, FirstTakes, ActiveHasConn, ConfigOf
  <2>2. ASSUME start[s] = "ready", NEW c \in Conns, Attempts(s) = {c}, conn[c].phase \in Unfinished
        PROVE  ConfigOf(s) = "own"
    <3>1. conn[c].session = s /\ \A d \in Conns : conn[d].session = s => d = c
      BY <2>2 DEF Attempts
    <3> QED BY <2>2, <3>1 DEF Accounted, FirstTakes, ConfigOf
  <2> QED BY <2>1, <2>2 DEF Accounted, ActiveHasConn, Attempts
<1> QED BY <1>1, AlwaysAccounted, PTL

-----------------------------------------------------------------------------
(* Captures *)

(* An accepted capture has taken its request out, and no other has the     *)
(* same one.                                                               *)
CapturesHeld ==
  \A u \in Uploads : upload[u].kind = "capture" /\ upload[u].phase \in Accepted =>
    /\ asked[upload[u].request] = upload[u].session
    /\ captureRequest[upload[u].session] # upload[u].request
    /\ \A v \in Uploads \ {u} :
         upload[v].phase \in Accepted => upload[v].request # upload[u].request

LEMMA CaptureStep == Sound /\ CapturesHeld /\ [Next]_vars => CapturesHeld'
<1> SUFFICES ASSUME Sound, CapturesHeld, [Next]_vars PROVE CapturesHeld'
  OBVIOUS
<1>0. /\ MediaSound /\ RoutesTyped /\ upload \in [Uploads -> UploadRecords] /\ UploadsTyped
      /\ NoRequest \notin RequestIds
  <2>1. MediaSound /\ RoutesTyped /\ upload \in [Uploads -> UploadRecords] /\ UploadsTyped
    BY DEF Sound, TypeOK, RoutesTyped, UploadRecords
  <2>2. NoRequest \notin RequestIds
    BY <2>1, LenProperties DEF MediaSound, MediaTypeOK, RequestIds, NoRequest
  <2> QED BY <2>1, <2>2
<1>1. ASSUME RequestsKept,
             \A u \in Uploads :
               \/ upload'[u].kind # "capture" /\ upload'[u].request = NoRequest
               \/ /\ upload'[u].phase \in Accepted => upload[u].phase \in Accepted
                  /\ upload'[u].kind = upload[u].kind /\ upload'[u].session = upload[u].session
                  /\ upload'[u].request = upload[u].request
      PROVE  CapturesHeld'
  <2>1. ASSUME NEW u \in Uploads, upload'[u].kind = "capture", upload'[u].phase \in Accepted
        PROVE  /\ upload[u].kind = "capture" /\ upload[u].phase \in Accepted
               /\ upload'[u].request = upload[u].request /\ upload'[u].session = upload[u].session
               /\ upload[u].request \in RequestIds
    BY <1>0, <1>1, <2>1 DEF UploadsTyped, UploadRecords
  <2>2. ASSUME NEW u \in Uploads, upload'[u].kind = "capture", upload'[u].phase \in Accepted
        PROVE  upload'[u].session \in Sessions
    <3>1. /\ upload[u].kind = "capture" /\ upload[u].phase \in Accepted
          /\ upload'[u].session = upload[u].session /\ upload[u].request \in RequestIds
      BY <2>1, <2>2
    <3>2. asked[upload[u].request] = upload[u].session /\ upload[u].session \in Sessions
      BY <3>1, ElementOfSeq, LenProperties
         DEF CapturesHeld, Sound, MediaSound, MediaTypeOK, RequestIds
    <3> QED BY <3>1, <3>2
  <2> QED BY <1>0, <1>1, <2>1, <2>2 DEF CapturesHeld, RequestsKept
<1>2. ASSUME UNCHANGED upload, RequestsKept PROVE CapturesHeld'
  BY <1>1, <1>2
<1>3. ASSUME NEW s \in Sessions, StartStep(s) PROVE CapturesHeld'
  BY <1>0, <1>2, <1>3, StartTyped, UntouchedMediaSound
<1>4. ASSUME NEW c \in Conns, ConnStep(c) PROVE CapturesHeld'
  <2>1. UNCHANGED upload
    BY <1>0, <1>4, ConnTyped
  <2>2. RequestsKept
    <3>1. CASE BotStep(c)
      <4>1. conn[c].session \in Sessions
        BY <1>0, <3>1 DEF BotStep, RoutesTyped, Ids
      <4> QED BY <1>0, <3>1, <4>1, CreateCaptureRequestSound, ClearMediaSound DEF BotStep
    <3>2. CASE UNCHANGED media
      BY <1>0, <3>2, UntouchedMediaSound
    <3> QED BY <1>4, <3>1, <3>2
            DEF ConnStep, Offer, WsArrives, OfferConnects, OfferFails, OfferRenegotiates,
                WsChecked, WsAccepted, WsLost, BotEnds
  <2> QED BY <1>2, <2>1, <2>2
<1>5. ASSUME NEW u \in Uploads, UploadStep(u) PROVE CapturesHeld'
  <2>1. ASSUME NEW s \in Announced, NEW kind \in Kinds, NEW r \in {NoRequest} \cup RequestIds,
               UploadArrives(u, s, kind, r)
        PROVE  CapturesHeld'
    <3>1. CASE kind # "capture" \/ upload' = [upload EXCEPT ![u] = Without("refused")]
      <4>1. /\ RequestsKept /\ upload'[u].kind # "capture" /\ upload'[u].request = NoRequest
            /\ \A v \in Uploads : v # u => upload'[v] = upload[v]
        BY <1>0, <2>1, <3>1, UntouchedMediaSound, ConsumeCaptureRequestSound
           DEF UploadArrives, Without, Announced
      <4> QED BY <1>1, <4>1
    <3>2. CASE /\ kind = "capture" /\ ConsumeCaptureRequest(s, r)
               /\ upload' = [upload EXCEPT ![u] =
                    [phase |-> "reading", session |-> s, kind |-> kind, request |-> r]]
      <4>1. /\ s \in Sessions /\ r \in RequestIds /\ captureRequest[s] = r /\ asked[r] = s
            /\ captureRequest' = [captureRequest EXCEPT ![s] = NoRequest] /\ asked' = asked
        BY <1>0, <2>1, <3>2
           DEF UploadArrives, ConsumeCaptureRequest, Outstanding, Consumed, Announced, MediaSound, Latest
      <4>2. /\ upload'[u].kind = "capture" /\ upload'[u].session = s /\ upload'[u].request = r
            /\ \A v \in Uploads : v # u => upload'[v] = upload[v]
        BY <1>0, <3>2
      <4>3. /\ \A t \in Sessions : captureRequest'[t] = IF t = s THEN NoRequest ELSE captureRequest[t]
            /\ DOMAIN captureRequest = Sessions
        BY <4>1 DEF Sound, MediaSound, MediaTypeOK
      <4>4. ASSUME NEW v \in Uploads, v # u, upload[v].phase \in Accepted
            PROVE  upload[v].request # r
        BY <1>0, <4>1, <4>4 DEF CapturesHeld, UploadsTyped
      <4>5. ASSUME NEW v \in Uploads, v # u, upload[v].kind = "capture", upload[v].phase \in Accepted
            PROVE  /\ asked[upload[v].request] = upload[v].session
                   /\ captureRequest'[upload[v].session] # upload[v].request
        <5>1. upload[v].request \in RequestIds
          BY <1>0, <4>5 DEF UploadsTyped, UploadRecords
        <5>2. asked[upload[v].request] = upload[v].session /\ upload[v].session \in Sessions
          BY <4>5, <5>1, ElementOfSeq, LenProperties
             DEF CapturesHeld, Sound, MediaSound, MediaTypeOK, RequestIds
        <5> QED BY <1>0, <4>3, <4>5, <5>1, <5>2 DEF CapturesHeld
      <4> QED BY <1>0, <4>1, <4>2, <4>3, <4>4, <4>5 DEF CapturesHeld
    <3> QED BY <2>1, <3>1, <3>2 DEF UploadArrives
  <2>2. CASE UploadStored(u)
    <3>1. /\ upload[u].session \in Sessions /\ upload[u].kind \in Kinds
          /\ upload[u].request \in {NoRequest} \cup RequestIds
          /\ upload[u].request = NoRequest <=> upload[u].kind # "capture"
      BY <1>0, <2>2 DEF UploadStored, UploadsTyped, UploadRecords, Accepted
    <3>2. RequestsKept
      <4>1. \/ StoreFrame(upload[u].session)
            \/ \E item : StoreAttachment(upload[u].session, item)
        BY <2>2, <3>1 DEF UploadStored, Kinds
      <4>2. UNCHANGED <<asked, captureRequest>>
        BY <4>1 DEF StoreFrame, StoreAttachment
      <4> QED BY <4>2 DEF RequestsKept, RequestIds
    <3> QED BY <1>0, <1>1, <2>2, <3>2 DEF UploadStored, UploadRecords, Accepted
  <2>3. CASE UploadFails(u)
    <3>1. RequestsKept
      BY <1>0, <2>3, UntouchedMediaSound DEF UploadFails
    <3> QED BY <1>0, <1>1, <2>3, <3>1 DEF UploadFails, UploadRecords, Accepted
  <2> QED BY <1>5, <2>1, <2>2, <2>3 DEF UploadStep
<1>6. CASE Restart
  BY <1>0, <1>1, <1>6, LoseMediaSound DEF Restart, Without
<1>7. CASE UNCHANGED vars
  BY <1>0, <1>2, <1>7, UntouchedMediaSound DEF vars
<1> QED BY <1>3, <1>4, <1>5, <1>6, <1>7 DEF Next

LEMMA CaptureAccepted ==
  ASSUME Sound, CapturesHeld, [Next]_vars, NEW u \in Uploads,
         upload[u].phase = "unsent", upload'[u].phase = "reading", upload'[u].kind = "capture"
  PROVE  /\ Latest(upload'[u].session, upload'[u].request)
         /\ \A v \in Uploads : upload[v].phase \in Accepted => upload[v].request # upload'[u].request
<1>0. /\ MediaSound /\ UploadsTyped /\ upload \in [Uploads -> UploadRecords]
  BY DEF Sound, TypeOK, UploadRecords
<1>1. PICK s \in Announced, r \in {NoRequest} \cup RequestIds :
        /\ UploadArrives(u, s, "capture", r)
        /\ ConsumeCaptureRequest(s, r)
        /\ upload' = [upload EXCEPT ![u] =
             [phase |-> "reading", session |-> s, kind |-> "capture", request |-> r]]
  <2>1. UploadStep(u)
    <3>1. CASE \E v \in Uploads : v # u /\ UploadStep(v)
      BY <1>0, <3>1 DEF UploadStep, UploadArrives, UploadStored, UploadFails
    <3>2. CASE UNCHANGED upload
      BY <3>2
    <3>3. CASE Restart
      BY <1>0, <3>3 DEF Restart, Without
    <3>4. CASE \E s \in Sessions : StartStep(s)
      BY <3>2, <3>4 DEF StartStep, StartArrives, StartChecked
    <3>5. CASE \E c \in Conns : ConnStep(c)
      BY <3>2, <3>5 DEF ConnStep, Offer, WsArrives, OfferConnects, OfferFails, OfferRenegotiates,
                        WsChecked, WsAccepted, WsLost, BotEnds, BotStep
    <3>6. CASE UNCHANGED vars
      BY <3>2, <3>6 DEF vars
    <3> QED BY <3>1, <3>3, <3>4, <3>5, <3>6 DEF Next
  <2>2. PICK s \in Announced, kind \in Kinds, r \in {NoRequest} \cup RequestIds :
          UploadArrives(u, s, kind, r)
    BY <1>0, <2>1 DEF UploadStep, UploadStored, UploadFails
  <2>3. kind = "capture"
    BY <1>0, <2>2 DEF UploadArrives, Without
  <2> QED BY <1>0, <2>2, <2>3 DEF UploadArrives, Without
<1>2. upload'[u].session = s /\ upload'[u].request = r
  BY <1>0, <1>1
<1>3. s \in Sessions /\ r # NoRequest /\ captureRequest[s] = r
  BY <1>1 DEF UploadArrives, ConsumeCaptureRequest, Outstanding, Announced
<1>4. Latest(s, r)
  BY <1>0, <1>3 DEF MediaSound
<1>5. ASSUME NEW v \in Uploads, upload[v].phase \in Accepted PROVE upload[v].request # r
  <2>1. CASE upload[v].kind = "capture"
    BY <1>3, <1>4, <1>5, <2>1 DEF CapturesHeld, Latest
  <2>2. CASE upload[v].kind # "capture"
    BY <1>0, <1>3, <1>5, <2>2 DEF UploadsTyped
  <2> QED BY <2>1, <2>2
<1> QED BY <1>2, <1>4, <1>5

(* A capture is accepted only for the newest request of its own session,   *)
(* and no request is accepted twice.                                       *)
THEOREM CapturesAnswerOnce == Spec => CaptureOnce
<1>1. Init => CapturesHeld
  BY DEF Init, Without, CapturesHeld, Accepted
<1>2. Sound /\ CapturesHeld /\ [Next]_vars =>
        [\A u \in Uploads :
           upload[u].phase = "unsent" /\ upload'[u].phase = "reading" /\ upload'[u].kind = "capture" =>
             /\ Latest(upload'[u].session, upload'[u].request)
             /\ \A v \in Uploads : upload[v].phase \in Accepted => upload[v].request # upload'[u].request]_vars
  BY CaptureAccepted
<1> QED BY <1>1, <1>2, CaptureStep, AlwaysSound, PTL DEF Spec, CaptureOnce

=============================================================================
