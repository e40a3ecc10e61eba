---------------------------- MODULE ChatHistory ----------------------------
(***************************************************************************)
(* The chat context of one voice session.  Pipecat's aggregators append to *)
(* it; after each assistant turn the handler on_assistant_turn_stopped     *)
(* shortens it, one at a time under summary_lock.  Two ways to shorten:    *)
(* the sliding window of the pipeline (pipeline.py), and the pinned        *)
(* summary that the examples share (pipeline_utils.py), which awaits the   *)
(* model while the conversation goes on.                                   *)
(*                                                                         *)
(* A message is its role and its number in the conversation; a summary is  *)
(* numbered with the last message it stands for.                           *)
(***************************************************************************)
EXTENDS Naturals, Sequences, FiniteSets

CONSTANTS
  Preserve,   \* preserve_prompt_messages: 1, or 2 with a system_prompt
  Limit,      \* CHAT_HISTORY_RECENT_TURNS, as a number of messages or turns
  MaxMessages \* messages in all (bound of the model)

ASSUME PreserveAssumption == Preserve \in {1, 2}
ASSUME LimitAssumption == Limit \in Nat
ASSUME MaxMessagesAssumption == MaxMessages \in Nat

VARIABLES
  policy,  \* how this session shortens its context
  context, \* the messages of the LLMContext
  said,    \* the roles of all messages of the conversation, in order
  waiting, \* handlers that have not got summary_lock
  taken    \* the messages a summary is being made of, << >> for none

vars == <<policy, context, said, waiting, taken>>

Message == [role : {"prompt", "user", "call", "result", "assistant", "summary"}, n : Nat]

TypeOK ==
  /\ policy \in {"window", "summary"}
  /\ context \in Seq(Message)
  /\ said \in Seq({"user", "call", "result", "assistant"})
  /\ waiting \in 0..Len(said)
  /\ taken \in Seq(Message)

(* _build_context_messages: the second message of two has the role user.   *)
Prompts == [i \in 1..Preserve |-> [role |-> IF i = 1 THEN "prompt" ELSE "user", n |-> 0]]

Init ==
  /\ policy \in {"window", "summary"}
  /\ context = Prompts
  /\ said = <<>>
  /\ waiting = 0
  /\ taken = <<>>

-----------------------------------------------------------------------------
(* What the aggregators append *)

Say(roles) ==
  /\ Len(said) + Len(roles) <= MaxMessages
  /\ said' = said \o roles
  /\ context' = context \o [i \in 1..Len(roles) |-> [role |-> roles[i], n |-> Len(said) + i]]
  /\ UNCHANGED <<policy, taken>>

(* A turn of the user, or the request for a greeting when a client is      *)
(* ready.                                                                  *)
UserSpeaks == Say(<<"user">>) /\ UNCHANGED waiting

(* The model, answering the user or a result, calls a tool: the call and   *)
(* its result enter together.                                              *)
ToolRuns ==
  /\ said # <<>>
  /\ said[Len(said)] \in {"user", "result"}
  /\ Say(<<"call", "result">>)
  /\ UNCHANGED waiting

(* The turn of the assistant ends; its handler is a task that has yet to   *)
(* run and to get the lock.                                                *)
AssistantStops == Say(<<"assistant">>) /\ waiting' = waiting + 1

-----------------------------------------------------------------------------
(* _apply_chat_history_sliding_window *)

Kept_OneLess(q) == SubSeq(q, Len(q) - Limit + 2, Len(q))
Kept(q) == SubSeq(q, Len(q) - Limit + 1, Len(q))

Pinned(q) == SubSeq(q, 1, Preserve)

Chat(q) == SubSeq(q, Preserve + 1, Len(q))

LockFree == taken = <<>>

SlideWindow ==
  /\ policy = "window"
  /\ waiting > 0
  /\ waiting' = waiting - 1
  /\ context' = IF Limit < 1 \/ Len(context) <= Preserve + Limit
                  THEN context
                  ELSE Pinned(context) \o Kept(Chat(context))
  /\ UNCHANGED <<policy, said, taken>>

-----------------------------------------------------------------------------
(* apply_pinned_prompt_summary *)

(* A summary has the role user, and counts as a turn. *)
TurnStarts(q) == {i \in 1..Len(q) : q[i].role \in {"user", "summary"}}

OldMessages_Counted(q) == IF Len(q) <= Limit THEN 0 ELSE Len(q) - Limit

(* find_recent_turn_start: how many messages come before the last Limit    *)
(* turns, 0 when there are no so many turns.                               *)
OldMessages(q) ==
  LET Recent == {i \in TurnStarts(q) : Cardinality({j \in TurnStarts(q) : j > i}) < Limit}
  IN IF Cardinality(TurnStarts(q)) < Limit THEN 0
     ELSE (CHOOSE i \in Recent : \A j \in Recent : i <= j) - 1

Summarise ==
  /\ policy = "summary"
  /\ waiting > 0
  /\ LockFree
  /\ waiting' = waiting - 1
  /\ taken' = IF Limit >= 1 /\ OldMessages(Chat(context)) > 0 THEN context ELSE <<>>
  /\ UNCHANGED <<policy, context, said>>

SummaryOf(chat, old) == <<[role |-> "summary", n |-> chat[old].n]>>

Unchanged_Unchecked == TRUE
Unchanged == context = taken

(* The summary of the old messages is there: it takes their place, unless  *)
(* the context has changed meanwhile.                                      *)
Summarised ==
  LET chat == Chat(taken)
      old == OldMessages(chat)
  IN
  /\ ~LockFree
  /\ context' = IF Unchanged
                  THEN Pinned(taken) \o SummaryOf(chat, old) \o SubSeq(chat, old + 1, Len(chat))
                  ELSE context
  /\ taken' = <<>>
  /\ UNCHANGED <<policy, said, waiting>>

(* No answer in 45 seconds, an error or an empty text. *)
SummaryFails ==
  /\ ~LockFree
  /\ taken' = <<>>
  /\ UNCHANGED <<policy, context, said, waiting>>

Next ==
  \/ UserSpeaks
  \/ ToolRuns
  \/ AssistantStops
  \/ SlideWindow
  \/ Summarise
  \/ Summarised
  \/ SummaryFails

Spec == Init /\ [][Next]_vars

-----------------------------------------------------------------------------
(* Properties *)

(* The context is the instructions, and then the latest messages of the    *)
(* conversation in their order without a gap (what a summary stands for    *)
(* included), however often it is shortened and whatever is said while a   *)
(* summary is written.                                                     *)
PromptThenLatest ==
  LET chat == Chat(context) IN
  /\ SubSeq(context, 1, Preserve) = Prompts
  /\ \A i \in 1..Len(chat) : chat[i].n = Len(said) - (Len(chat) - i)

(* Nothing is lost that the policy keeps: with the summary every message   *)
(* is in the context or in its summary, with the window the latest ones    *)
(* are, as many as the limit says or as there are.                         *)
NothingLost ==
  LET chat == Chat(context) IN
  /\ policy = "summary" =>
       \/ chat = <<>> /\ said = <<>>
       \/ chat # <<>> /\ (chat[1].role = "summary" \/ chat[1].n = 1)
  /\ policy = "window" => Len(chat) >= Limit \/ Len(chat) >= Len(said)

(* The summary takes the place of whole turns: no result of a tool is left *)
(* in the context without the call it answers.  The window, which counts   *)
(* messages, does not promise that.                                        *)
ResultsHaveCalls ==
  policy = "summary" => \A i \in 1..Len(context) : context[i].role = "result" =>
    \E j \in 1..i : context[j] = [role |-> "call", n |-> context[i].n - 1]
=============================================================================
