---------------------------- MODULE MCPiSessions ----------------------------
(* Small instances of PiSessions for TLC. *)
EXTENDS PiSessions, TLC

(* Keys and requests are interchangeable; the configurations that check    *)
(* liveness do not use this.                                               *)
Interchangeable ==
  Permutations(Keys) \cup Permutations(Messages) \cup Permutations(Deletes)

=============================================================================
