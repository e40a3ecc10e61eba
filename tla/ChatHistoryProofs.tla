------------------------- MODULE ChatHistoryProofs -------------------------
(***************************************************************************)
(* Proofs about ChatHistory, for any limit, with one or two pinned         *)
(* messages and for conversations of any length: however a context is      *)
(* shortened, it is the instructions and then the latest messages without  *)
(* a gap, nothing is lost that the policy keeps, and a summary takes the   *)
(* place of whole turns.                                                   *)
(***************************************************************************)
EXTENDS ChatHistory, SequenceTheorems, FiniteSetTheorems, WellFoundedInduction, TLAPS

-----------------------------------------------------------------------------
(* Sets of numbers *)

LEMMA LeastElement ==
  ASSUME NEW S, S \subseteq Nat, S # {}
  PROVE  \E least \in S : \A n \in S : least <= n
<1> DEFINE Less == OpToRel(<, Nat)
<1>1. \A m \in Nat : \A n \in Nat : n < m => <<n, m>> \in Less
  BY DEF OpToRel
<1>2. IsWellFoundedOn(Less, Nat)
  BY NatLessThanWellFounded
<1>. HIDE DEF Less
<1>3. \E least \in S : \A n \in S : ~ (<<n, least>> \in Less)
  BY <1>2, WFMin
<1>4. PICK least \in S : \A n \in S : ~ (<<n, least>> \in Less)
  BY <1>3
<1>5. \A n \in S : n \in Nat /\ least \in Nat /\ ~ (n < least)
  BY <1>1, <1>4
<1>6. \A n \in S : least <= n
  BY <1>5
<1> QED BY <1>6

LEMMA GreatestElement ==
  ASSUME NEW bound \in Nat, NEW S, S \subseteq 1..bound, S # {}
  PROVE  \E greatest \in S : \A n \in S : n <= greatest
<1> DEFINE T == {bound - n : n \in S}
<1>1. T \subseteq Nat /\ T # {}
  <2>1. \A n \in S : bound - n \in Nat
    OBVIOUS
  <2>2. T \subseteq Nat
    BY <2>1
  <2>3. PICK n \in S : TRUE
    OBVIOUS
  <2>4. bound - n \in T
    OBVIOUS
  <2> QED BY <2>2, <2>4
<1>2. \A n \in S : bound - n \in T /\ n \in 1..bound
  OBVIOUS
<1>3. \A m \in T : \E n \in S : m = bound - n
  OBVIOUS
<1>. HIDE DEF T
<1>4. PICK least \in T : \A m \in T : least <= m
  BY <1>1, LeastElement
<1>5. PICK greatest \in S : least = bound - greatest
  BY <1>3, <1>4
<1>6. \A n \in S : n <= greatest
  BY <1>2, <1>4, <1>5
<1> QED BY <1>6

-----------------------------------------------------------------------------
(* find_recent_turn_start *)

(* A cut of find_recent_turn_start, when it finds one, is inside of the    *)
(* messages, and the first message after it starts a turn.                 *)
LEMMA CutsAtTurns ==
  ASSUME NEW q \in Seq(Message), Limit >= 1, OldMessages(q) > 0
  PROVE  /\ OldMessages(q) \in 1..(Len(q) - 1)
         /\ q[OldMessages(q) + 1].role \in {"user", "summary"}
<1> DEFINE Starts == TurnStarts(q)
           Recent == {i \in Starts : Cardinality({j \in Starts : j > i}) < Limit}
<1>0. Len(q) \in Nat /\ Limit \in Nat
  BY LimitAssumption, LenProperties
<1>1. Starts \in SUBSET (1..Len(q)) /\ \A i \in Starts : q[i].role \in {"user", "summary"}
  BY DEF TurnStarts
<1>2. ~ (Cardinality(Starts) < Limit)
  BY DEF OldMessages
<1>3. OldMessages(q) = (CHOOSE i \in Recent : \A j \in Recent : i <= j) - 1
  BY <1>2 DEF OldMessages
<1>. HIDE DEF Starts
<1>4. Starts # {}
  <2>1. Cardinality({}) = 0
    BY FS_EmptySet
  <2> QED BY <1>0, <1>2, <2>1
<1>5. PICK last \in Starts : \A i \in Starts : i <= last
  BY <1>0, <1>1, <1>4, GreatestElement
<1>6. last \in Recent
  <2>1. \A j \in Starts : ~ (j > last)
    BY <1>0, <1>1, <1>5
  <2>2. {j \in Starts : j > last} = {}
    BY <2>1
  <2>3. Cardinality({j \in Starts : j > last}) = 0
    BY <2>2, FS_EmptySet
  <2> QED BY <1>0, <1>5, <2>3
<1>7. Recent \subseteq Starts /\ Recent \subseteq Nat /\ Recent # {}
  <2>1. Recent \subseteq Starts
    OBVIOUS
  <2>2. Starts \subseteq Nat
    BY <1>0, <1>1
  <2> QED BY <1>6, <2>1, <2>2, Zenon
<1>. HIDE DEF Recent
<1>8. \E i \in Recent : \A j \in Recent : i <= j
  BY <1>7, LeastElement
<1>9. (CHOOSE i \in Recent : \A j \in Recent : i <= j) \in Recent
  BY <1>8
<1>10. PICK first \in Starts : OldMessages(q) = first - 1
  BY <1>3, <1>7, <1>9
<1> QED BY <1>0, <1>1, <1>10

-----------------------------------------------------------------------------
(* A shortened context *)

LEMMA PromptsTyped ==
  /\ Preserve \in Nat \ {0} /\ Prompts \in Seq(Message) /\ Len(Prompts) = Preserve
  /\ \A i \in 1..Preserve : Prompts[i].role # "result"
<1>1. Preserve \in Nat \ {0}
  BY PreserveAssumption
<1>2. Prompts \in [1..Preserve -> Message]
  BY <1>1 DEF Prompts, Message
<1> QED BY <1>1, <1>2 DEF Prompts

(* The messages after the pinned ones. *)
LEMMA ChatElements ==
  ASSUME NEW q \in Seq(Message), Len(q) >= Preserve
  PROVE  /\ Chat(q) \in Seq(Message) /\ Len(Chat(q)) = Len(q) - Preserve
         /\ \A i \in 1..(Len(q) - Preserve) : Chat(q)[i] = q[Preserve + i]
<1>1. Len(q) \in Nat /\ Preserve \in Nat \ {0}
  BY PromptsTyped, LenProperties
<1>2. \A i \in (Preserve + 1)..Len(q) : q[i] \in Message
  BY <1>1, ElementOfSeq
<1>3. /\ SubSeq(q, Preserve + 1, Len(q)) \in Seq(Message)
      /\ Len(SubSeq(q, Preserve + 1, Len(q))) =
           IF Preserve + 1 <= Len(q) THEN Len(q) - (Preserve + 1) + 1 ELSE 0
      /\ \A i \in 1..(Len(q) - (Preserve + 1) + 1) :
           SubSeq(q, Preserve + 1, Len(q))[i] = q[(Preserve + 1) + i - 1]
  BY <1>1, <1>2, SubSeqProperties
<1> QED BY <1>1, <1>3 DEF Chat

LEMMA PinnedElements ==
  ASSUME NEW q \in Seq(Message), Len(q) >= Preserve
  PROVE  /\ Pinned(q) \in Seq(Message) /\ Len(Pinned(q)) = Preserve
         /\ \A i \in 1..Preserve : Pinned(q)[i] = q[i]
<1>1. Len(q) \in Nat /\ Preserve \in Nat \ {0}
  BY PromptsTyped, LenProperties
<1>2. \A i \in 1..Preserve : q[i] \in Message
  BY <1>1, ElementOfSeq
<1>3. /\ SubSeq(q, 1, Preserve) \in Seq(Message)
      /\ Len(SubSeq(q, 1, Preserve)) = IF 1 <= Preserve THEN Preserve - 1 + 1 ELSE 0
      /\ \A i \in 1..(Preserve - 1 + 1) : SubSeq(q, 1, Preserve)[i] = q[1 + i - 1]
  BY <1>1, <1>2, SubSeqProperties
<1> QED BY <1>1, <1>3 DEF Pinned

(* What is left of a chat when its first messages are cut off. *)
LEMMA RestElements ==
  ASSUME NEW chat \in Seq(Message), NEW old \in 0..Len(chat)
  PROVE  /\ SubSeq(chat, old + 1, Len(chat)) \in Seq(Message)
         /\ Len(SubSeq(chat, old + 1, Len(chat))) = Len(chat) - old
         /\ \A i \in 1..(Len(chat) - old) : SubSeq(chat, old + 1, Len(chat))[i] = chat[old + i]
<1>1. Len(chat) \in Nat
  BY LenProperties
<1>2. \A i \in (old + 1)..Len(chat) : chat[i] \in Message
  BY <1>1, ElementOfSeq
<1>3. /\ SubSeq(chat, old + 1, Len(chat)) \in Seq(Message)
      /\ Len(SubSeq(chat, old + 1, Len(chat))) =
           IF old + 1 <= Len(chat) THEN Len(chat) - (old + 1) + 1 ELSE 0
      /\ \A i \in 1..(Len(chat) - (old + 1) + 1) :
           SubSeq(chat, old + 1, Len(chat))[i] = chat[(old + 1) + i - 1]
  BY <1>1, <1>2, SubSeqProperties
<1> QED BY <1>1, <1>3

LEMMA RestOfChat ==
  ASSUME NEW q \in Seq(Message), Len(q) >= Preserve, NEW old \in 0..(Len(q) - Preserve),
         NEW rest, rest = SubSeq(Chat(q), old + 1, Len(Chat(q)))
  PROVE  /\ rest \in Seq(Message) /\ Len(rest) = Len(q) - Preserve - old
         /\ \A i \in 1..(Len(q) - Preserve - old) : rest[i] = q[Preserve + old + i]
<1>1. Len(q) \in Nat /\ Preserve \in Nat \ {0}
  BY PromptsTyped, LenProperties
<1>2. /\ Chat(q) \in Seq(Message) /\ Len(Chat(q)) = Len(q) - Preserve
      /\ \A i \in 1..(Len(q) - Preserve) : Chat(q)[i] = q[Preserve + i]
  BY ChatElements
<1>3. /\ rest \in Seq(Message) /\ Len(rest) = Len(q) - Preserve - old
      /\ \A i \in 1..(Len(q) - Preserve - old) : rest[i] = Chat(q)[old + i]
  <2>1. old \in 0..Len(Chat(q))
    BY <1>1, <1>2
  <2>2. /\ SubSeq(Chat(q), old + 1, Len(Chat(q))) \in Seq(Message)
        /\ Len(SubSeq(Chat(q), old + 1, Len(Chat(q)))) = Len(Chat(q)) - old
        /\ \A i \in 1..(Len(Chat(q)) - old) :
             SubSeq(Chat(q), old + 1, Len(Chat(q)))[i] = Chat(q)[old + i]
    BY <1>2, <2>1, RestElements
  <2>3. Len(Chat(q)) - old = Len(q) - Preserve - old
    BY <1>1, <1>2
  <2> QED BY <2>2, <2>3
<1>4. ASSUME NEW i \in 1..(Len(q) - Preserve - old) PROVE rest[i] = q[Preserve + old + i]
  <2>1. old + i \in 1..(Len(q) - Preserve) /\ Preserve + (old + i) = Preserve + old + i
    BY <1>1
  <2> QED BY <1>2, <1>3, <2>1
<1> QED BY <1>3, <1>4

(* The window: the pinned messages and what is left of the chat.           *)
LEMMA WindowElements ==
  ASSUME NEW q \in Seq(Message), Len(q) >= Preserve, NEW old \in 0..(Len(q) - Preserve),
         NEW r, r = Pinned(q) \o SubSeq(Chat(q), old + 1, Len(Chat(q)))
  PROVE  /\ r \in Seq(Message) /\ Len(r) = Len(q) - old
         /\ \A i \in 1..Len(r) : r[i] = IF i <= Preserve THEN q[i] ELSE q[i + old]
<1>1. Len(q) \in Nat /\ Preserve \in Nat \ {0}
  BY PromptsTyped, LenProperties
<1>2. PICK rest : rest = SubSeq(Chat(q), old + 1, Len(Chat(q)))
  OBVIOUS
<1>3. /\ rest \in Seq(Message) /\ Len(rest) = Len(q) - Preserve - old
      /\ \A i \in 1..(Len(q) - Preserve - old) : rest[i] = q[Preserve + old + i]
  BY <1>2, RestOfChat
<1>4. PICK front : front = Pinned(q)
  OBVIOUS
<1>5. /\ front \in Seq(Message) /\ Len(front) = Preserve
      /\ \A i \in 1..Preserve : front[i] = q[i]
  BY <1>4, PinnedElements
<1>6. /\ r \in Seq(Message) /\ Len(r) = Len(front) + Len(rest)
      /\ \A i \in 1..(Len(front) + Len(rest)) : r[i] = IF i <= Len(front) THEN front[i] ELSE rest[i - Len(front)]
  <2>1. r = front \o rest
    BY <1>2, <1>4
  <2>2. /\ front \o rest \in Seq(Message) /\ Len(front \o rest) = Len(front) + Len(rest)
        /\ \A i \in 1..(Len(front) + Len(rest)) :
             (front \o rest)[i] = IF i <= Len(front) THEN front[i] ELSE rest[i - Len(front)]
    BY ONLY <1>3, <1>5, ConcatProperties
  <2> QED BY ONLY <2>1, <2>2
<1>a. Len(r) = Len(q) - old /\ Len(front) = Preserve
  <2>1. Len(r) = Len(front) + Len(rest)
    BY ONLY <1>6
  <2>2. Len(front) = Preserve
    BY ONLY <1>5
  <2>3. Len(rest) = Len(q) - Preserve - old
    BY ONLY <1>3
  <2> QED BY <1>1, <2>1, <2>2, <2>3
<1>b. \A i \in 1..Len(r) : r[i] = IF i <= Preserve THEN front[i] ELSE rest[i - (Preserve)]
  BY ONLY <1>5, <1>6
<1>7. ASSUME NEW i \in 1..Len(r) PROVE r[i] = IF i <= Preserve THEN q[i] ELSE q[i + old]
  <2>1. CASE i <= Preserve
    BY <1>1, <1>5, <1>b, <2>1
  <2>2. CASE i > Preserve
    <3>1. i - Preserve \in 1..(Len(q) - Preserve - old) /\ Preserve + old + (i - Preserve) = i + old
      BY <1>1, <1>a, <2>2
    <3>2. r[i] = rest[i - Preserve]
      BY <1>1, <1>b, <2>2
    <3>3. rest[i - Preserve] = q[Preserve + old + (i - Preserve)]
      BY <1>3, <3>1
    <3> QED BY <1>1, <2>2, <3>1, <3>2, <3>3
  <2> QED BY <1>1, <2>1, <2>2
<1> QED BY <1>6, <1>7, <1>a

(* The summary: the same with one more message between the two. *)
LEMMA SummaryElements ==
  ASSUME NEW q \in Seq(Message), Len(q) >= Preserve, NEW old \in 0..(Len(q) - Preserve),
         NEW m \in Message,
         NEW r, r = Pinned(q) \o <<m>> \o SubSeq(Chat(q), old + 1, Len(Chat(q)))
  PROVE  /\ r \in Seq(Message) /\ Len(r) = Len(q) - old + 1
         /\ \A i \in 1..Len(r) : r[i] = IF i <= Preserve THEN q[i]
                                        ELSE IF i = Preserve + 1 THEN m ELSE q[i + old - 1]
<1>1. Len(q) \in Nat /\ Preserve \in Nat \ {0}
  BY PromptsTyped, LenProperties
<1>0. old \in Nat
  BY <1>1
<1>2. PICK rest : rest = SubSeq(Chat(q), old + 1, Len(Chat(q)))
  OBVIOUS
<1>3. /\ rest \in Seq(Message) /\ Len(rest) = Len(q) - Preserve - old
      /\ \A i \in 1..(Len(q) - Preserve - old) : rest[i] = q[Preserve + old + i]
  BY <1>2, RestOfChat
<1>4. PICK front : front = Pinned(q) \o <<m>>
  OBVIOUS
<1>5. /\ front \in Seq(Message) /\ Len(front) = Preserve + 1
      /\ \A i \in 1..(Preserve + 1) : front[i] = IF i <= Preserve THEN q[i] ELSE m
  <2>1. <<m>> \in Seq(Message) /\ Len(<<m>>) = 1 /\ <<m>>[1] = m
    OBVIOUS
  <2> QED BY <1>1, <1>4, <2>1, PinnedElements, ConcatProperties
<1>6. /\ r \in Seq(Message) /\ Len(r) = Len(front) + Len(rest)
      /\ \A i \in 1..(Len(front) + Len(rest)) : r[i] = IF i <= Len(front) THEN front[i] ELSE rest[i - Len(front)]
  <2>1. r = front \o rest
    BY <1>2, <1>4
  <2>2. /\ front \o rest \in Seq(Message) /\ Len(front \o rest) = Len(front) + Len(rest)
        /\ \A i \in 1..(Len(front) + Len(rest)) :
             (front \o rest)[i] = IF i <= Len(front) THEN front[i] ELSE rest[i - Len(front)]
    BY ONLY <1>3, <1>5, ConcatProperties
  <2> QED BY ONLY <2>1, <2>2
<1>a. Len(r) = Len(q) - old + 1 /\ Len(front) = Preserve + 1
  <2>1. Len(r) = Len(front) + Len(rest)
    BY ONLY <1>6
  <2>2. Len(front) = Preserve + 1
    BY ONLY <1>5
  <2>3. Len(rest) = Len(q) - Preserve - old
    BY ONLY <1>3
  <2> QED BY ONLY <1>0, <1>1, <2>1, <2>2, <2>3
<1>b. \A i \in 1..Len(r) : r[i] = IF i <= Preserve + 1 THEN front[i] ELSE rest[i - (Preserve + 1)]
  BY ONLY <1>5, <1>6
<1>7. ASSUME NEW i \in 1..Len(r)
      PROVE  r[i] = IF i <= Preserve THEN q[i] ELSE IF i = Preserve + 1 THEN m ELSE q[i + old - 1]
  <2>1. CASE i <= Preserve + 1
    BY ONLY <1>1, <1>5, <1>b, <2>1, i \in 1..Len(r)
  <2>2. CASE i > Preserve + 1
    <3>1. /\ i - (Preserve + 1) \in 1..(Len(q) - Preserve - old)
          /\ Preserve + old + (i - (Preserve + 1)) = i + old - 1
      BY ONLY <1>0, <1>1, <1>a, <2>2, i \in 1..Len(r)
    <3>2. r[i] = rest[i - (Preserve + 1)]
      BY ONLY <1>1, <1>b, <2>2, i \in 1..Len(r)
    <3>3. rest[i - (Preserve + 1)] = q[Preserve + old + (i - (Preserve + 1))]
      BY <1>3, <3>1
    <3> QED BY ONLY <1>1, <2>2, <3>1, <3>2, <3>3, i \in 1..Len(r)
  <2> QED BY ONLY <1>1, <2>1, <2>2, i \in 1..Len(r)
<1> QED BY <1>6, <1>7, <1>a


-----------------------------------------------------------------------------
(* The inductive invariant *)

(* Element by element: the pinned messages, then the latest ones.          *)
InOrder ==
  /\ Len(context) \in Preserve..(Preserve + Len(said))
  /\ \A i \in 1..Preserve : context[i] = Prompts[i]
  /\ \A i \in (Preserve + 1)..Len(context) : context[i].n = Len(said) - (Len(context) - i)

AllAccounted ==
  /\ policy = "summary" =>
       IF Len(context) = Preserve THEN said = <<>>
       ELSE context[Preserve + 1].role = "summary" \/ context[Preserve + 1].n = 1
  /\ policy = "window" => Len(context) - Preserve >= Limit \/ Len(context) - Preserve >= Len(said)

(* A result follows its call at once, and neither is pinned.               *)
Coupled ==
  policy = "summary" => \A i \in (Preserve + 1)..Len(context) : context[i].role = "result" =>
    i > Preserve + 1 /\ context[i - 1] = [role |-> "call", n |-> context[i].n - 1]

(* A summary is only made of messages that can be cut off.                 *)
Lent == taken # <<>> => policy = "summary" /\ Limit >= 1 /\ OldMessages(Chat(taken)) > 0

IInv == TypeOK /\ InOrder /\ AllAccounted /\ Coupled /\ Lent

Roles == {"user", "call", "result", "assistant"}

(* What the aggregators append, element by element. *)
LEMMA SayElements ==
  ASSUME TypeOK, NEW roles \in Seq(Roles), Say(roles)
  PROVE  /\ Len(roles) \in Nat /\ Len(said) \in Nat /\ Len(context) \in Nat
         /\ said' \in Seq(Roles) /\ Len(said') = Len(said) + Len(roles)
         /\ context' \in Seq(Message) /\ Len(context') = Len(context) + Len(roles)
         /\ \A i \in 1..Len(context) : context'[i] = context[i]
         /\ \A k \in 1..Len(roles) :
              context'[Len(context) + k] = [role |-> roles[k], n |-> Len(said) + k]
<1> DEFINE new == [k \in 1..Len(roles) |-> [role |-> roles[k], n |-> Len(said) + k]]
<1>1. /\ Len(roles) \in Nat /\ Len(said) \in Nat /\ Len(context) \in Nat
      /\ context \in Seq(Message) /\ said \in Seq(Roles)
  BY LenProperties DEF TypeOK, Roles
<1>2. \A k \in 1..Len(roles) : [role |-> roles[k], n |-> Len(said) + k] \in Message
  BY <1>1, ElementOfSeq DEF Message, Roles
<1>3. /\ new \in Seq(Message) /\ Len(new) = Len(roles)
      /\ \A k \in 1..Len(roles) : new[k] = [role |-> roles[k], n |-> Len(said) + k]
  BY <1>1, <1>2
<1>4. said' = said \o roles /\ context' = context \o new
  BY DEF Say
<1>. HIDE DEF new
<1>5. /\ context \o new \in Seq(Message) /\ Len(context \o new) = Len(context) + Len(new)
      /\ \A i \in 1..(Len(context) + Len(new)) :
           (context \o new)[i] = IF i <= Len(context) THEN context[i] ELSE new[i - Len(context)]
  BY ONLY <1>1, <1>3, ConcatProperties
<1>6. said \o roles \in Seq(Roles) /\ Len(said \o roles) = Len(said) + Len(roles)
  BY <1>1, ConcatProperties
<1>7. \A i \in 1..Len(context) : context'[i] = context[i]
  BY ONLY <1>1, <1>3, <1>4, <1>5
<1>8. ASSUME NEW k \in 1..Len(roles)
      PROVE  context'[Len(context) + k] = [role |-> roles[k], n |-> Len(said) + k]
  <2>1. /\ Len(context) + k \in 1..(Len(context) + Len(new)) /\ ~ (Len(context) + k <= Len(context))
        /\ (Len(context) + k) - Len(context) = k
    BY <1>1, <1>3
  <2>2. context'[Len(context) + k] = new[k]
    BY ONLY <1>4, <1>5, <2>1
  <2> QED BY <1>3, <2>2
<1> QED BY <1>1, <1>3, <1>4, <1>5, <1>6, <1>7, <1>8

(* Appending messages keeps the invariant, when every result among them    *)
(* comes right after its call.                                             *)
LEMMA SayKeeps ==
  ASSUME IInv, NEW roles \in Seq(Roles), Say(roles), waiting' \in waiting..(waiting + Len(roles)),
         Len(roles) > 0,
         \A k \in 1..Len(roles) : roles[k] = "result" => k > 1 /\ roles[k - 1] = "call"
  PROVE  IInv'
<1>1. /\ Len(roles) \in Nat /\ Len(said) \in Nat /\ Len(context) \in Nat
      /\ said' \in Seq(Roles) /\ Len(said') = Len(said) + Len(roles)
      /\ context' \in Seq(Message) /\ Len(context') = Len(context) + Len(roles)
      /\ \A i \in 1..Len(context) : context'[i] = context[i]
      /\ \A k \in 1..Len(roles) :
           context'[Len(context) + k] = [role |-> roles[k], n |-> Len(said) + k]
  BY SayElements DEF IInv
<1>2. UNCHANGED <<policy, taken>> /\ Preserve \in Nat \ {0} /\ Limit \in Nat
  BY PromptsTyped, LimitAssumption DEF Say
<1>3. ASSUME NEW i \in 1..Len(context'), i > Len(context)
      PROVE  /\ i - Len(context) \in 1..Len(roles)
             /\ context'[i] = [role |-> roles[i - Len(context)], n |-> Len(said) + (i - Len(context))]
  <2>1. i - Len(context) \in 1..Len(roles) /\ Len(context) + (i - Len(context)) = i
    BY <1>1, <1>3
  <2> QED BY <1>1, <2>1
<1>4. TypeOK'
  BY <1>1, <1>2 DEF IInv, TypeOK, Roles
<1>5. InOrder'
  <2>1. Len(context') \in Preserve..(Preserve + Len(said'))
    BY <1>1, <1>2 DEF IInv, InOrder
  <2>2. \A i \in 1..Preserve : context'[i] = Prompts[i]
    BY <1>1, <1>2 DEF IInv, InOrder
  <2>3. ASSUME NEW i \in (Preserve + 1)..Len(context')
        PROVE  context'[i].n = Len(said') - (Len(context') - i)
    <3>1. CASE i <= Len(context)
      <4>1. i \in (Preserve + 1)..Len(context) /\ i \in 1..Len(context)
        BY <1>1, <1>2, <3>1
      <4>2. context[i].n = Len(said) - (Len(context) - i) /\ context'[i] = context[i]
        BY <1>1, <4>1 DEF IInv, InOrder
      <4>3. Len(said) - (Len(context) - i) = Len(said') - (Len(context') - i)
        BY <1>1, <1>2, <4>1
      <4> QED BY ONLY <4>2, <4>3
    <3>2. CASE i > Len(context)
      <4>1. context'[i].n = Len(said) + (i - Len(context))
        <5>1. i \in 1..Len(context')
          BY <1>1, <1>2
        <5>2. context'[i] = [role |-> roles[i - Len(context)], n |-> Len(said) + (i - Len(context))]
          BY <1>3, <3>2, <5>1
        <5> QED BY ONLY <5>2
      <4> QED BY <1>1, <1>2, <4>1
    <3> QED BY <1>1, <1>2, <3>1, <3>2
  <2>4. Prompts' = Prompts
    BY DEF Prompts
  <2> QED BY <2>1, <2>2, <2>3, <2>4 DEF InOrder
<1>6. AllAccounted'
  <2>1. Len(context') > Preserve /\ Len(context') - Preserve = Len(context) - Preserve + Len(roles)
    BY <1>1, <1>2 DEF IInv, InOrder
  <2>2. ASSUME policy = "summary"
        PROVE  context'[Preserve + 1].role = "summary" \/ context'[Preserve + 1].n = 1
    <3>1. CASE Len(context) = Preserve
      <4>1. Len(said) = 0
        BY <2>2, <3>1 DEF IInv, AllAccounted
      <4>2. context'[Len(context) + 1].n = Len(said) + 1
        <5>1. 1 \in 1..Len(roles)
          BY <1>1
        <5>2. context'[Len(context) + 1] = [role |-> roles[1], n |-> Len(said) + 1]
          BY <1>1, <5>1
        <5> QED BY ONLY <5>2
      <4> QED BY <3>1, <4>1, <4>2
    <3>2. CASE Len(context) > Preserve
      <4>1. context'[Preserve + 1] = context[Preserve + 1]
        BY <1>1, <1>2, <3>2
      <4> QED BY <1>1, <1>2, <2>2, <3>2, <4>1 DEF IInv, AllAccounted
    <3> QED BY <1>1, <1>2, <3>1, <3>2 DEF IInv, InOrder
  <2>3. policy = "window" => Len(context') - Preserve >= Limit \/ Len(context') - Preserve >= Len(said')
    BY <1>1, <1>2, <2>1 DEF IInv, AllAccounted, InOrder
  <2> QED BY <1>1, <1>2, <2>1, <2>2, <2>3 DEF AllAccounted
<1>7. Coupled'
  <2> SUFFICES ASSUME policy = "summary", NEW i \in (Preserve + 1)..Len(context'),
                      context'[i].role = "result"
               PROVE  i > Preserve + 1 /\ context'[i - 1] = [role |-> "call", n |-> context'[i].n - 1]
    BY <1>2 DEF Coupled
  <2>1. CASE i <= Len(context)
    <3>1. i \in (Preserve + 1)..Len(context) /\ context'[i] = context[i]
      BY <1>1, <1>2, <2>1
    <3>2. i > Preserve + 1 /\ context[i - 1] = [role |-> "call", n |-> context[i].n - 1]
      BY <3>1 DEF IInv, Coupled
    <3>3. i - 1 \in 1..Len(context)
      BY <1>1, <1>2, <3>1
    <3> QED BY <1>1, <3>1, <3>2, <3>3
  <2>2. CASE i > Len(context)
    <3> DEFINE k == i - Len(context)
    <3>1. k \in 1..Len(roles) /\ context'[i] = [role |-> roles[k], n |-> Len(said) + k]
      BY <1>2, <1>3, <2>2
    <3>2. k > 1 /\ roles[k - 1] = "call"
      BY <3>1
    <3>3. i - 1 \in 1..Len(context') /\ i - 1 > Len(context) /\ (i - 1) - Len(context) = k - 1
      BY <1>1, <1>2, <3>1, <3>2
    <3>4. context'[i - 1] = [role |-> roles[k - 1], n |-> Len(said) + (k - 1)]
      BY <1>3, <3>3
    <3>5. Len(said) + (k - 1) = (Len(said) + k) - 1 /\ i > Preserve + 1
      BY <1>1, <1>2, <3>1, <3>2 DEF IInv, InOrder
    <3>. HIDE DEF k
    <3>6. context'[i].n = Len(said) + k
      BY <3>1
    <3>7. context'[i - 1] = [role |-> "call", n |-> context'[i].n - 1]
      BY ONLY <3>2, <3>4, <3>5, <3>6
    <3> QED BY <3>5, <3>7
  <2> QED BY <1>1, <1>2, <2>1, <2>2
<1>8. Lent'
  BY <1>2 DEF IInv, Lent
<1> QED BY <1>4, <1>5, <1>6, <1>7, <1>8 DEF IInv


(* The context loses messages from the front of the chat: the window.      *)
LEMMA WindowKeeps ==
  ASSUME IInv, SlideWindow
  PROVE  IInv'
<1>1. /\ Preserve \in Nat \ {0} /\ Limit \in Nat /\ context \in Seq(Message)
      /\ Len(context) \in Nat /\ Len(said) \in Nat
      /\ policy = "window" /\ UNCHANGED <<policy, said, taken>> /\ waiting' = waiting - 1 /\ waiting > 0
      /\ Len(context) \in Preserve..(Preserve + Len(said)) /\ Len(context) >= Preserve
  BY PromptsTyped, LimitAssumption, LenProperties DEF IInv, TypeOK, InOrder, SlideWindow
<1>2. CASE Limit < 1 \/ Len(context) <= Preserve + Limit
  <2>1. context' = context
    BY <1>2 DEF SlideWindow
  <2>2. waiting' \in 0..Len(said')
    BY <1>1 DEF IInv, TypeOK
  <2>3. Lent' /\ Coupled'
    BY <1>1, <2>1 DEF IInv, Lent, Coupled
  <2>4. InOrder' /\ AllAccounted' /\ TypeOK'
    BY <1>1, <2>1, <2>2 DEF IInv, InOrder, AllAccounted, TypeOK, Prompts
  <2> QED BY <2>3, <2>4 DEF IInv
<1>3. CASE Limit >= 1 /\ Len(context) > Preserve + Limit
  <2> DEFINE old == Len(context) - Preserve - Limit
  <2>1. old \in 0..(Len(context) - Preserve) /\ old \in Nat
    BY <1>1, <1>3
  <2>2. Len(Chat(context)) - Limit + 1 = old + 1
    BY <1>1, ChatElements
  <2>3. context' = Pinned(context) \o SubSeq(Chat(context), old + 1, Len(Chat(context)))
    <3>1. context' = Pinned(context) \o Kept(Chat(context))
      <4>1. ~ (Limit < 1 \/ Len(context) <= Preserve + Limit)
        BY <1>1, <1>3
      <4> QED BY <4>1 DEF SlideWindow
    <3>2. Kept(Chat(context)) = SubSeq(Chat(context), Len(Chat(context)) - Limit + 1, Len(Chat(context)))
      BY DEF Kept
    <3>. HIDE DEF old
    <3> QED BY ONLY <2>2, <3>1, <3>2
  <2>. HIDE DEF old
  <2>4. /\ context' \in Seq(Message) /\ Len(context') = Len(context) - old
        /\ \A i \in 1..Len(context') : context'[i] = IF i <= Preserve THEN context[i] ELSE context[i + old]
    <3>1. \A r : r = Pinned(context) \o SubSeq(Chat(context), old + 1, Len(Chat(context))) =>
            /\ r \in Seq(Message) /\ Len(r) = Len(context) - old
            /\ \A i \in 1..Len(r) : r[i] = IF i <= Preserve THEN context[i] ELSE context[i + old]
      BY <1>1, <2>1, WindowElements
    <3> QED BY ONLY <2>3, <3>1
  <2>5. Len(context') = Preserve + Limit
    BY <1>1, <2>1, <2>4 DEF old
  <2>6. TypeOK'
    BY <1>1, <2>4 DEF IInv, TypeOK
  <2>7. InOrder'
    <3>1. \A i \in 1..Preserve : context'[i] = Prompts[i]
      BY <1>1, <2>4, <2>5 DEF IInv, InOrder
    <3>2. ASSUME NEW i \in (Preserve + 1)..Len(context')
          PROVE  context'[i].n = Len(said') - (Len(context') - i)
      <4>1. i + old \in (Preserve + 1)..Len(context) /\ context'[i] = context[i + old]
        BY <1>1, <2>1, <2>4
      <4>2. context[i + old].n = Len(said) - (Len(context) - (i + old))
        BY <4>1 DEF IInv, InOrder
      <4> QED BY <1>1, <2>1, <2>4, <4>1, <4>2
    <3>3. Prompts' = Prompts
      BY DEF Prompts
    <3>4. Len(context') \in Preserve..(Preserve + Len(said'))
      BY <1>1, <1>3, <2>5
    <3> QED BY <3>1, <3>2, <3>3, <3>4 DEF InOrder
  <2>8. AllAccounted' /\ Coupled' /\ Lent'
    BY <1>1, <2>5 DEF IInv, AllAccounted, Coupled, Lent
  <2> QED BY <2>6, <2>7, <2>8 DEF IInv
<1> QED BY <1>1, <1>2, <1>3

(* A summary takes the place of the messages before a turn.                *)
LEMMA SummaryKeeps ==
  ASSUME IInv, Summarised
  PROVE  IInv'
<1>1. /\ Preserve \in Nat \ {0} /\ Limit \in Nat /\ context \in Seq(Message)
      /\ Len(context) \in Nat /\ Len(said) \in Nat
      /\ policy = "summary" /\ UNCHANGED <<policy, said, waiting>> /\ taken' = <<>>
      /\ Len(context) \in Preserve..(Preserve + Len(said)) /\ Len(context) >= Preserve
      /\ Limit >= 1 /\ OldMessages(Chat(taken)) > 0
  BY PromptsTyped, LimitAssumption, LenProperties
     DEF IInv, TypeOK, InOrder, Lent, Summarised, LockFree
<1>2. Lent'
  BY <1>1 DEF Lent
<1>3. CASE ~Unchanged
  <2>1. context' = context
    BY <1>3 DEF Summarised
  <2>2. TypeOK' /\ InOrder' /\ AllAccounted' /\ Coupled'
    BY <1>1, <2>1 DEF IInv, TypeOK, InOrder, AllAccounted, Coupled, Prompts
  <2> QED BY <1>2, <2>2 DEF IInv
<1>4. CASE Unchanged
  <2> DEFINE chat == Chat(context)
             old == OldMessages(chat)
  <2>1. taken = context
    BY <1>4 DEF Unchanged
  <2>2. /\ chat \in Seq(Message) /\ Len(chat) = Len(context) - Preserve
        /\ \A i \in 1..(Len(context) - Preserve) : chat[i] = context[Preserve + i]
    BY <1>1, ChatElements
  <2>3. old \in 1..(Len(chat) - 1) /\ chat[old + 1].role \in {"user", "summary"}
    BY <1>1, <2>1, <2>2, CutsAtTurns
  <2>. HIDE DEF chat, old
  <2>4. /\ old \in 1..(Len(context) - Preserve - 1) /\ old \in 0..(Len(context) - Preserve) /\ old \in Nat
        /\ Preserve + (old + 1) = Preserve + old + 1
        /\ chat[old] = context[Preserve + old] /\ chat[old + 1] = context[Preserve + (old + 1)]
    BY <1>1, <2>2, <2>3
  <2>5. PICK m : m = [role |-> "summary", n |-> chat[old].n]
    OBVIOUS
  <2>6. m \in Message
    <3>1. Len(chat) \in Nat /\ old \in 1..Len(chat)
      BY <1>1, <2>2, <2>3
    <3>2. chat[old] \in Message
      BY <2>2, <3>1, ElementOfSeq
    <3> QED BY <2>5, <3>2 DEF Message
  <2>7. context' = Pinned(context) \o <<m>> \o SubSeq(Chat(context), old + 1, Len(Chat(context)))
    BY <1>4, <2>1, <2>5 DEF Summarised, SummaryOf, chat, old
  <2>8. context[Preserve + old + 1].role # "result"
    BY <2>3, <2>4
  <2>9. m.n = Len(said) - (Len(context) - (Preserve + old)) /\ m.role = "summary"
    <3>1. Preserve + old \in (Preserve + 1)..Len(context)
      BY <1>1, <2>4
    <3>2. context[Preserve + old].n = Len(said) - (Len(context) - (Preserve + old))
      BY <3>1 DEF IInv, InOrder
    <3> QED BY <2>4, <2>5, <3>2
  <2>10. /\ context' \in Seq(Message) /\ Len(context') = Len(context) - old + 1
         /\ \A i \in 1..Len(context') : context'[i] = IF i <= Preserve THEN context[i]
                                        ELSE IF i = Preserve + 1 THEN m ELSE context[i + old - 1]
    <3>1. \A r : r = Pinned(context) \o <<m>> \o SubSeq(Chat(context), old + 1, Len(Chat(context))) =>
            /\ r \in Seq(Message) /\ Len(r) = Len(context) - old + 1
            /\ \A i \in 1..Len(r) : r[i] = IF i <= Preserve THEN context[i]
                                      ELSE IF i = Preserve + 1 THEN m ELSE context[i + old - 1]
      BY <1>1, <2>4, <2>6, SummaryElements
    <3> QED BY ONLY <2>7, <3>1
  <2>a. ASSUME NEW i \in (Preserve + 1)..Len(context'), i > Preserve + 1
        PROVE  i + old - 1 \in (Preserve + 1)..Len(context)
    <3>1. Len(context') = Len(context) - old + 1
      BY ONLY <2>10
    <3>2. Preserve \in Nat /\ Len(context) \in Nat /\ old \in Nat /\ old >= 1
      BY <1>1, <2>4
    <3> QED BY ONLY <2>a, <3>1, <3>2
  <2>11. Len(context') > Preserve + 1
    BY <1>1, <2>4, <2>10
  <2>12. TypeOK'
    BY <1>1, <2>10 DEF IInv, TypeOK
  <2>13. InOrder'
    <3>1. \A i \in 1..Preserve : context'[i] = Prompts[i]
      BY <1>1, <2>10, <2>11 DEF IInv, InOrder
    <3>2. ASSUME NEW i \in (Preserve + 1)..Len(context')
          PROVE  context'[i].n = Len(said') - (Len(context') - i)
      <4>1. CASE i = Preserve + 1
        <5>1. context'[i] = m
          BY <1>1, <2>10, <2>11, <4>1
        <5> QED BY <1>1, <2>4, <2>9, <2>10, <4>1, <5>1
      <4>2. CASE i > Preserve + 1
        <5>1. i + old - 1 \in (Preserve + 1)..Len(context) /\ context'[i] = context[i + old - 1]
          <6>1. i \in 1..Len(context') /\ ~ (i <= Preserve) /\ i # Preserve + 1
            BY <1>1, <4>2
          <6> QED BY <2>10, <2>a, <4>2, <6>1
        <5>2. context[i + old - 1].n = Len(said) - (Len(context) - (i + old - 1))
          BY <5>1 DEF IInv, InOrder
        <5> QED BY <1>1, <2>4, <2>10, <5>1, <5>2
      <4> QED BY <1>1, <4>1, <4>2
    <3>3. Prompts' = Prompts
      BY DEF Prompts
    <3>4. Len(context') \in Preserve..(Preserve + Len(said'))
      BY <1>1, <2>4, <2>10
    <3> QED BY <3>1, <3>2, <3>3, <3>4 DEF InOrder
  <2>14. AllAccounted'
    <3>1. context'[Preserve + 1] = m
      BY <1>1, <2>10, <2>11
    <3> QED BY <1>1, <2>9, <2>11, <3>1 DEF AllAccounted
  <2>15. Coupled'
    <3> SUFFICES ASSUME NEW i \in (Preserve + 1)..Len(context'), context'[i].role = "result"
                 PROVE  i > Preserve + 1 /\ context'[i - 1] = [role |-> "call", n |-> context'[i].n - 1]
      BY DEF Coupled
    <3>1. i > Preserve + 1
      <4>1. context'[Preserve + 1].role # "result"
        BY <1>1, <2>9, <2>10, <2>11
      <4> QED BY <1>1, <2>10, <4>1
    <3>2. i + old - 1 \in (Preserve + 1)..Len(context) /\ context'[i] = context[i + old - 1]
      <4>1. i + old - 1 \in (Preserve + 1)..Len(context)
        BY <2>a, <3>1
      <4>2. i \in 1..Len(context') /\ ~ (i <= Preserve) /\ i # Preserve + 1
        BY <1>1, <3>1
      <4> QED BY <2>10, <4>1, <4>2
    <3>3. context[i + old - 2] = [role |-> "call", n |-> context[i + old - 1].n - 1]
      <4>1. (i + old - 1) - 1 = i + old - 2
        BY <1>1, <2>4
      <4> QED BY <1>1, <3>2, <4>1 DEF IInv, Coupled
    <3>4. i # Preserve + 2
      <4>1. Preserve + 2 + old - 1 = Preserve + old + 1
        BY <1>1, <2>4
      <4> QED BY <2>8, <3>2, <4>1
    <3>5. /\ i - 1 \in 1..Len(context') /\ ~ (i - 1 <= Preserve) /\ i - 1 # Preserve + 1
          /\ (i - 1) + old - 1 = i + old - 2
      BY <1>1, <2>4, <2>10, <3>1, <3>4
    <3>6. context'[i - 1] = context[i + old - 2]
      BY <2>10, <3>5
    <3> QED BY <3>1, <3>2, <3>3, <3>6
  <2> QED BY <1>2, <2>12, <2>13, <2>14, <2>15 DEF IInv
<1> QED BY <1>3, <1>4


LEMMA IInvStep == IInv /\ [Next]_vars => IInv'
<1> SUFFICES ASSUME IInv, [Next]_vars PROVE IInv'
  OBVIOUS
<1>0. waiting \in Nat
  BY LenProperties DEF IInv, TypeOK
<1>1. CASE UserSpeaks
  <2> DEFINE roles == <<"user">>
  <2>1. roles \in Seq(Roles) /\ Len(roles) = 1 /\ roles[1] = "user"
    BY DEF Roles
  <2>2. Say(roles) /\ waiting' = waiting
    BY <1>1 DEF UserSpeaks
  <2>. HIDE DEF roles
  <2>3. waiting' \in waiting..(waiting + Len(roles))
    BY <1>0, <2>1, <2>2
  <2>4. \A k \in 1..Len(roles) : roles[k] = "result" => k > 1 /\ roles[k - 1] = "call"
    BY <2>1
  <2>5. roles \in Seq(Roles) /\ Len(roles) > 0 /\ Say(roles)
    BY <2>1, <2>2
  <2> QED BY ONLY IInv, <2>3, <2>4, <2>5, SayKeeps
<1>2. CASE ToolRuns
  <2> DEFINE roles == <<"call", "result">>
  <2>1. roles \in Seq(Roles) /\ Len(roles) = 2 /\ roles[1] = "call" /\ roles[2] = "result"
    BY DEF Roles
  <2>2. Say(roles) /\ waiting' = waiting
    BY <1>2 DEF ToolRuns
  <2>. HIDE DEF roles
  <2>3. waiting' \in waiting..(waiting + Len(roles))
    BY <1>0, <2>1, <2>2
  <2>4. \A k \in 1..Len(roles) : roles[k] = "result" => k > 1 /\ roles[k - 1] = "call"
    BY <2>1
  <2>5. roles \in Seq(Roles) /\ Len(roles) > 0 /\ Say(roles)
    BY <2>1, <2>2
  <2> QED BY ONLY IInv, <2>3, <2>4, <2>5, SayKeeps
<1>3. CASE AssistantStops
  <2> DEFINE roles == <<"assistant">>
  <2>1. roles \in Seq(Roles) /\ Len(roles) = 1 /\ roles[1] = "assistant"
    BY DEF Roles
  <2>2. Say(roles) /\ waiting' = waiting + 1
    BY <1>3 DEF AssistantStops
  <2>. HIDE DEF roles
  <2>3. waiting' \in waiting..(waiting + Len(roles))
    BY <1>0, <2>1, <2>2
  <2>4. \A k \in 1..Len(roles) : roles[k] = "result" => k > 1 /\ roles[k - 1] = "call"
    BY <2>1
  <2>5. roles \in Seq(Roles) /\ Len(roles) > 0 /\ Say(roles)
    BY <2>1, <2>2
  <2> QED BY ONLY IInv, <2>3, <2>4, <2>5, SayKeeps
<1>4. CASE SlideWindow
  BY <1>4, WindowKeeps
<1>5. ASSUME UNCHANGED <<policy, context, said>>, waiting' \in 0..Len(said), taken' \in Seq(Message), Lent'
      PROVE  IInv'
  BY <1>5 DEF IInv, TypeOK, InOrder, AllAccounted, Coupled, Prompts
<1>6. CASE Summarise
  <2>1. waiting' \in 0..Len(said)
    BY <1>6, LenProperties DEF Summarise, IInv, TypeOK
  <2>2. taken' \in Seq(Message)
    BY <1>6 DEF Summarise, IInv, TypeOK
  <2>3. Lent'
    <3>1. CASE Limit >= 1 /\ OldMessages(Chat(context)) > 0
      <4>1. taken' = context /\ policy' = "summary"
        BY <1>6, <3>1 DEF Summarise
      <4> QED BY <3>1, <4>1 DEF Lent
    <3>2. CASE ~ (Limit >= 1 /\ OldMessages(Chat(context)) > 0)
      BY <1>6, <3>2 DEF Summarise, Lent
    <3> QED BY <3>1, <3>2
  <2> QED BY <1>5, <1>6, <2>1, <2>2, <2>3 DEF Summarise
<1>7. CASE Summarised
  BY <1>7, SummaryKeeps
<1>8. CASE SummaryFails
  BY <1>5, <1>8 DEF SummaryFails, IInv, TypeOK, Lent
<1>9. CASE UNCHANGED vars
  BY <1>5, <1>9 DEF vars, IInv, TypeOK, Lent
<1> QED
  BY <1>1, <1>2, <1>3, <1>4, <1>6, <1>7, <1>8, <1>9 DEF Next

LEMMA AlwaysInOrder == Spec => []IInv
<1>1. Init => IInv
  <2> SUFFICES ASSUME Init PROVE IInv
    OBVIOUS
  <2>1. /\ context = Prompts /\ said = <<>> /\ Len(said) = 0 /\ taken = <<>>
        /\ Len(context) = Preserve /\ Preserve \in Nat \ {0}
    BY PromptsTyped DEF Init
  <2>2. TypeOK
    BY <2>1, PromptsTyped DEF Init, TypeOK
  <2>3. InOrder /\ AllAccounted /\ Coupled /\ Lent
    BY <2>1 DEF InOrder, AllAccounted, Coupled, Lent
  <2> QED BY <2>2, <2>3 DEF IInv
<1> QED BY <1>1, IInvStep, PTL DEF Spec

-----------------------------------------------------------------------------
(* The properties *)

(* What the elements of the chat are, for the properties below.            *)
LEMMA ContextElements ==
  ASSUME IInv
  PROVE  /\ Len(context) \in Nat /\ Len(said) \in Nat /\ Preserve \in Nat \ {0}
         /\ Len(context) >= Preserve /\ context \in Seq(Message)
         /\ Chat(context) \in Seq(Message) /\ Len(Chat(context)) = Len(context) - Preserve
         /\ \A i \in 1..(Len(context) - Preserve) : Chat(context)[i] = context[Preserve + i]
<1>1. /\ Len(context) \in Nat /\ Len(said) \in Nat /\ Preserve \in Nat \ {0}
      /\ context \in Seq(Message) /\ Len(context) >= Preserve
  BY PromptsTyped, LenProperties DEF IInv, TypeOK, InOrder
<1> QED BY <1>1, ChatElements

(* The context is the instructions and then the latest messages of the     *)
(* conversation without a gap, however it was shortened and whatever was   *)
(* said while a summary was written.                                       *)
THEOREM ContextIsLatest == Spec => []PromptThenLatest
<1>1. ASSUME IInv PROVE PromptThenLatest
  <2>1. SubSeq(context, 1, Preserve) = Prompts
    <3>1. /\ Pinned(context) \in Seq(Message) /\ Len(Pinned(context)) = Preserve
          /\ \A i \in 1..Preserve : Pinned(context)[i] = context[i]
      BY <1>1, ContextElements, PinnedElements
    <3>2. \A i \in 1..Preserve : context[i] = Prompts[i]
      BY <1>1 DEF IInv, InOrder
    <3>3. Pinned(context) = Prompts
      BY <3>1, <3>2, PromptsTyped, SeqEqual
    <3> QED BY <3>3 DEF Pinned
  <2>2. ASSUME NEW i \in 1..Len(Chat(context))
        PROVE  Chat(context)[i].n = Len(said) - (Len(Chat(context)) - i)
    <3>1. /\ Preserve + i \in (Preserve + 1)..Len(context)
          /\ Chat(context)[i] = context[Preserve + i]
          /\ Len(context) - (Preserve + i) = Len(Chat(context)) - i
      BY <1>1, ContextElements
    <3>2. context[Preserve + i].n = Len(said) - (Len(context) - (Preserve + i))
      BY <1>1, <3>1 DEF IInv, InOrder
    <3> QED BY <3>1, <3>2
  <2> QED BY <2>1, <2>2 DEF PromptThenLatest
<1> QED BY <1>1, AlwaysInOrder, PTL

(* With the summary every message is in the context or stands in its       *)
(* summary; with the window as many of the latest are kept as the limit    *)
(* says or as there are.                                                   *)
THEOREM MessagesAccounted == Spec => []NothingLost
<1>1. ASSUME IInv PROVE NothingLost
  <2>1. ASSUME policy = "summary"
        PROVE  \/ Chat(context) = <<>> /\ said = <<>>
               \/ Chat(context) # <<>> /\ (Chat(context)[1].role = "summary" \/ Chat(context)[1].n = 1)
    <3>1. CASE Len(context) = Preserve
      <4>1. Len(Chat(context)) = 0 /\ Chat(context) \in Seq(Message)
        BY <1>1, <3>1, ContextElements
      <4>2. Chat(context) = <<>>
        BY <4>1
      <4> QED BY <1>1, <2>1, <3>1, <4>2 DEF IInv, AllAccounted
    <3>2. CASE Len(context) # Preserve
      <4>1. /\ Len(Chat(context)) > 0 /\ Chat(context) \in Seq(Message)
            /\ Chat(context)[1] = context[Preserve + 1]
        BY <1>1, <3>2, ContextElements
      <4>2. Chat(context) # <<>>
        BY <4>1
      <4> QED BY <1>1, <2>1, <3>2, <4>1, <4>2 DEF IInv, AllAccounted
    <3> QED BY <3>1, <3>2
  <2>2. policy = "window" => Len(Chat(context)) >= Limit \/ Len(Chat(context)) >= Len(said)
    BY <1>1, ContextElements DEF IInv, AllAccounted
  <2> QED BY <2>1, <2>2 DEF NothingLost
<1> QED BY <1>1, AlwaysInOrder, PTL

(* A summary takes the place of whole turns: no result of a tool is left   *)
(* without its call.                                                       *)
THEOREM ResultsKeepCalls == Spec => []ResultsHaveCalls
<1>1. ASSUME IInv PROVE ResultsHaveCalls
  <2> SUFFICES ASSUME policy = "summary", NEW i \in 1..Len(context), context[i].role = "result"
               PROVE  \E j \in 1..i : context[j] = [role |-> "call", n |-> context[i].n - 1]
    BY DEF ResultsHaveCalls
  <2>1. i > Preserve
    <3>1. ~ (i \in 1..Preserve)
      BY <1>1, PromptsTyped DEF IInv, InOrder
    <3> QED BY <1>1, <3>1, ContextElements
  <2>2. i \in (Preserve + 1)..Len(context)
    BY <1>1, <2>1, ContextElements
  <2>3. i > Preserve + 1 /\ context[i - 1] = [role |-> "call", n |-> context[i].n - 1]
    BY <1>1, <2>2 DEF IInv, Coupled
  <2>4. i - 1 \in 1..i
    BY <1>1, <2>3, ContextElements
  <2> QED BY <2>3, <2>4
<1> QED BY <1>1, AlwaysInOrder, PTL

=============================================================================
