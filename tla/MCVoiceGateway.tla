--------------------------- MODULE MCVoiceGateway ---------------------------
EXTENDS VoiceGateway, TLC

(* The example of the session takes webcam uploads, and the one that is    *)
(* the default, which a connection gets when another one came before it,   *)
(* takes attachments.                                                      *)
Capable == [own |-> {"webcam"}, default |-> {"attachments"}]

Interchangeable ==
  Permutations(Sessions) \cup Permutations(Conns) \cup Permutations(Uploads)
=============================================================================
