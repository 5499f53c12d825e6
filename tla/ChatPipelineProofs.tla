------------------------- MODULE ChatPipelineProofs -------------------------
(***************************************************************************)
(* Safety of ChatPipeline for every set of processes and sockets, every    *)
(* number of messages and every retry limit of the Redis client.           *)
(*                                                                         *)
(* PipelineInv is inductive.  HandlerInv relates what a handler is doing   *)
(* to what is stored and published: this is what the order of commit,      *)
(* PUBLISH and reply in _handle_message_send amounts to.  OutcomeInv says  *)
(* what the senders were told meanwhile.  DeliveryInv orders the frames    *)
(* that are buffered, being broadcast and delivered.                       *)
(***************************************************************************)
EXTENDS ChatPipeline, FiniteSetTheorems, TLAPS

IsWorking(s) == phase[s] \in {"inserting", "committing", "publishing"}

Posted(m) == \E i \in DOMAIN published : published[i] = m

HandlerInv ==
  \A s \in Socket :
    /\ IsWorking(s) => sends[s] >= 1
    /\ phase[s] = "committing" => exists
    /\ phase[s] = "publishing" => Working(s) \in committed
    /\ phase[s] = "connecting" => sends[s] = 0
    /\ IsWorking(s) /\ role[s] = "assistant" => Posted(Question(Working(s)))

ChannelInv ==
  \A i \in DOMAIN published :
    LET m == published[i] IN
    /\ m \in committed
    /\ m.n <= sends[m.from]
    /\ m.n = sends[m.from] /\ m.role = "assistant" => role[m.from] = "assistant"

OutcomeInv ==
  \A s \in Socket : \A r \in told[s] :
    r.n <= sends[s] /\ (IsWorking(s) => r.n < sends[s])

(* What process p holds is in channel order, and later than what its       *)
(* sockets have been sent.                                                 *)
Ordered(p) ==
  /\ \A i, k \in DOMAIN inbox[p] : i < k => inbox[p][i] < inbox[p][k]
  /\ \A i \in DOMAIN inbox[p] : current[p] < inbox[p][i] /\ inbox[p][i] <= Len(published)
  /\ current[p] <= Len(published)
  /\ \A s \in pending[p] : Home[s] = p /\ current[p] > 0

Behind(p, s) ==
  \A j \in DOMAIN delivered[s] :
    /\ delivered[s][j] <= Len(published)
    /\ \A i \in DOMAIN inbox[p] : delivered[s][j] < inbox[p][i]
    /\ current[p] # 0 => delivered[s][j] <= current[p]
    /\ s \in pending[p] => delivered[s][j] < current[p]

DeliveryInv ==
  /\ \A p \in Process : Ordered(p)
  /\ \A s \in Socket : Behind(Home[s], s)

RetryInv == \A s \in Socket : phase[s] = "publishing" => tries[s] < Attempts

PipelineInv ==
  /\ TypeOK
  /\ RetryInv
  /\ HandlerInv /\ ChannelInv /\ OutcomeInv /\ DeliveryInv
  /\ QuestionBeforeReply
  /\ ReplyNeedsPublishedQuestion
  /\ SenderLearnsOutcome
  /\ SavedWhenToldSo
  /\ NoOrphanMessage

(* The part of it that does not depend on the delivery.                    *)
SendingInv ==
  /\ HandlerInv /\ ChannelInv /\ OutcomeInv
  /\ QuestionBeforeReply
  /\ ReplyNeedsPublishedQuestion
  /\ SenderLearnsOutcome
  /\ SavedWhenToldSo
  /\ NoOrphanMessage

LEMMA InvGroups == PipelineInv <=> TypeOK /\ RetryInv /\ SendingInv /\ DeliveryInv
  BY DEF PipelineInv, SendingInv

LEMMA InvGroupsPrime ==
  PipelineInv' <=> TypeOK' /\ RetryInv' /\ SendingInv' /\ DeliveryInv'
  BY DEF PipelineInv, SendingInv

LEMMA InitInv == Init => PipelineInv
<1> SUFFICES ASSUME Init PROVE PipelineInv
  OBVIOUS
<1>1. TypeOK /\ RetryInv
  BY HomeAssumption, MaxSendsAssumption, AttemptsAssumption
  DEF Init, TypeOK, RetryInv, Phase, Role
<1>2. SendingInv
  BY DEF Init, SendingInv, HandlerInv, ChannelInv, OutcomeInv, QuestionBeforeReply,
    ReplyNeedsPublishedQuestion, SenderLearnsOutcome, SavedWhenToldSo, NoOrphanMessage,
    IsWorking
<1>3. DeliveryInv
  BY HomeAssumption DEF Init, DeliveryInv, Ordered, Behind
<1> QED BY <1>1, <1>2, <1>3, InvGroups

-----------------------------------------------------------------------------
(* Messages and the channel.                                               *)

LEMMA WorkingMessage ==
  ASSUME TypeOK, HandlerInv, NEW s \in Socket, IsWorking(s)
  PROVE  Working(s) \in Message /\ sends[s] \in 1..MaxSends
<1>1. sends[s] \in 0..MaxSends /\ sends[s] >= 1 /\ role[s] \in Role
  BY DEF TypeOK, HandlerInv
<1>2. sends[s] \in 1..MaxSends
  BY <1>1, MaxSendsAssumption
<1> QED BY <1>1, <1>2 DEF Working, Message

LEMMA MessageFields ==
  ASSUME NEW m \in Message
  PROVE  m.from \in Socket /\ m.n \in Nat /\ m.role \in Role
BY MaxSendsAssumption DEF Message

LEMMA QuestionFields ==
  ASSUME NEW m \in Message
  PROVE  /\ Question(m) \in Message
         /\ Question(m) = [from |-> m.from, n |-> m.n, role |-> "user"]
BY DEF Question, Message, Role

(* One PUBLISH makes the channel one frame longer.                         *)
LEMMA PostStep ==
  ASSUME TypeOK, NEW s \in Socket, Working(s) \in Message, Post(s)
  PROVE  /\ published' \in Seq(Message)
         /\ Len(published') = Len(published) + 1
         /\ Len(published) \in Nat
         /\ DOMAIN published' = DOMAIN published \cup {Len(published) + 1}
         /\ DOMAIN published = 1..Len(published)
         /\ \A i \in DOMAIN published : published'[i] = published[i]
         /\ published'[Len(published) + 1] = Working(s)
BY DEF TypeOK, Post

LEMMA PostKeepsOrder ==
  ASSUME PipelineInv, NEW s \in Socket, Working(s) \in Message, Post(s)
  PROVE  /\ inbox' \in [Process -> Seq(Nat)]
         /\ DeliveryInv'
<1>1. TypeOK /\ DeliveryInv
  BY DEF PipelineInv
<1>2. /\ Len(published') = Len(published) + 1 /\ Len(published) \in Nat
      /\ UNCHANGED <<current, pending, delivered>>
  BY <1>1, PostStep DEF Post
<1>3. ASSUME NEW p \in Process
      PROVE  /\ inbox'[p] \in Seq(Nat)
             /\ \/ inbox'[p] = inbox[p]
                \/ /\ DOMAIN inbox'[p] = DOMAIN inbox[p] \cup {Len(inbox[p]) + 1}
                   /\ DOMAIN inbox[p] = 1..Len(inbox[p]) /\ Len(inbox[p]) \in Nat
                   /\ \A i \in DOMAIN inbox[p] : inbox'[p][i] = inbox[p][i]
                   /\ inbox'[p][Len(inbox[p]) + 1] = Len(published) + 1
  <2>1. inbox[p] \in Seq(Nat) /\ Len(published) + 1 \in Nat
    BY <1>1, <1>2 DEF TypeOK
  <2>2. CASE p \in feed
    <3>1. inbox'[p] = Append(inbox[p], Len(published) + 1)
      BY <2>2 DEF Post
    <3> QED BY <2>1, <3>1
  <2>3. CASE p \notin feed
    BY <2>1, <2>3 DEF Post
  <2> QED BY <2>2, <2>3
<1>4. inbox' \in [Process -> Seq(Nat)]
  BY <1>3 DEF Post
<1>5. ASSUME NEW p \in Process PROVE Ordered(p)'
  <2>1. inbox[p] \in Seq(Nat) /\ current[p] \in Nat
    BY <1>1 DEF TypeOK
  <2>2. \A i \in DOMAIN inbox[p] : inbox[p][i] \in Nat
    BY <2>1
  <2>3. Ordered(p)
    BY <1>1 DEF DeliveryInv
  <2>4. CASE inbox'[p] = inbox[p]
    BY <1>2, <2>1, <2>2, <2>3, <2>4 DEF Ordered
  <2>5. CASE inbox'[p] # inbox[p]
    <3>1. \A i, k \in DOMAIN inbox'[p] : i < k => i \in DOMAIN inbox[p]
      BY <1>3, <2>5
    <3>2. \A i \in DOMAIN inbox[p] : /\ inbox'[p][i] = inbox[p][i]
                                    /\ inbox[p][i] <= Len(published)
      BY <1>3, <2>3 DEF Ordered
    <3>3. \A k \in DOMAIN inbox'[p] :
            k \in DOMAIN inbox[p] \/ inbox'[p][k] = Len(published) + 1
      BY <1>3, <2>5
    <3>4. \A i, k \in DOMAIN inbox'[p] : i < k => inbox'[p][i] < inbox'[p][k]
      <4>1. SUFFICES ASSUME NEW i \in DOMAIN inbox'[p], NEW k \in DOMAIN inbox'[p], i < k
                     PROVE  inbox'[p][i] < inbox'[p][k]
        OBVIOUS
      <4>2. i \in DOMAIN inbox[p]
        BY <3>1, <4>1
      <4>3. CASE k \in DOMAIN inbox[p]
        BY <2>3, <3>2, <4>1, <4>2, <4>3 DEF Ordered
      <4>4. CASE k \notin DOMAIN inbox[p]
        BY <1>2, <2>2, <3>2, <3>3, <4>2, <4>4
      <4> QED BY <4>3, <4>4
    <3>5. \A i \in DOMAIN inbox'[p] :
            current[p] < inbox'[p][i] /\ inbox'[p][i] <= Len(published')
      BY <1>2, <2>1, <2>2, <2>3, <3>2, <3>3 DEF Ordered
    <3> QED BY <1>2, <2>1, <2>3, <3>4, <3>5 DEF Ordered
  <2> QED BY <2>4, <2>5
<1>6. ASSUME NEW t \in Socket PROVE Behind(Home[t], t)'
  <2>1. Home[t] \in Process /\ delivered[t] \in Seq(Nat)
    BY <1>1, HomeAssumption DEF TypeOK
  <2>2. \A j \in DOMAIN delivered[t] : delivered[t][j] \in Nat
    BY <2>1
  <2>3. Behind(Home[t], t)
    BY <1>1 DEF DeliveryInv
  <2>4. \A j \in DOMAIN delivered[t] :
          /\ delivered[t][j] <= Len(published')
          /\ \A i \in DOMAIN inbox'[Home[t]] : delivered[t][j] < inbox'[Home[t]][i]
    <3>1. \A i \in DOMAIN inbox'[Home[t]] :
            \/ i \in DOMAIN inbox[Home[t]] /\ inbox'[Home[t]][i] = inbox[Home[t]][i]
            \/ inbox'[Home[t]][i] = Len(published) + 1
      BY <1>3, <2>1
    <3> QED BY <1>2, <2>2, <2>3, <3>1 DEF Behind
  <2> QED BY <1>2, <2>3, <2>4 DEF Behind
<1> QED BY <1>4, <1>5, <1>6 DEF DeliveryInv

-----------------------------------------------------------------------------
(* Steps that publish nothing and store nothing.                           *)

(* A handler that goes away, joins or has flushed its INSERT.              *)
Quiet(s) ==
  \/ phase'[s] \in {phase[s], "gone"}
  \/ phase[s] = "connecting" /\ phase'[s] = "idle"
  \/ phase[s] = "inserting" /\ phase'[s] = "committing" /\ exists

LEMMA QuietStep ==
  ASSUME SendingInv, UNCHANGED <<database, sends, role, told, published>>,
         \A s \in Socket : Quiet(s)
  PROVE  SendingInv'
<1> USE DEF database
<1>1. \A s \in Socket : IsWorking(s)' => IsWorking(s)
  BY DEF Quiet, IsWorking
<1>2. \A s \in Socket : Working(s)' = Working(s)
  BY DEF Working
<1>3. \A m : Posted(m)' <=> Posted(m)
  BY DEF Posted
<1>4. HandlerInv'
  <2>1. ASSUME NEW s \in Socket
        PROVE  /\ phase'[s] = "committing" => phase[s] = "committing" \/ exists
               /\ phase'[s] = "publishing" => phase[s] = "publishing"
               /\ phase'[s] = "connecting" => phase[s] = "connecting"
    BY DEF Quiet
  <2> QED BY <1>1, <1>2, <1>3, <2>1 DEF SendingInv, HandlerInv
<1>5. ChannelInv'
  BY DEF SendingInv, ChannelInv
<1>6. OutcomeInv'
  BY <1>1 DEF SendingInv, OutcomeInv
<1>7. SenderLearnsOutcome'
  <2>1. ASSUME NEW s \in Socket, NEW n \in 1..sends[s], n < sends[s] \/ phase'[s] = "idle"
        PROVE  n < sends[s] \/ phase[s] = "idle"
    BY <2>1 DEF Quiet, SendingInv, HandlerInv
  <2> QED BY <2>1 DEF SendingInv, SenderLearnsOutcome
<1>8. QuestionBeforeReply' /\ ReplyNeedsPublishedQuestion' /\ SavedWhenToldSo' /\ NoOrphanMessage'
  BY DEF SendingInv, QuestionBeforeReply, ReplyNeedsPublishedQuestion, SavedWhenToldSo,
    NoOrphanMessage
<1> QED BY <1>4, <1>5, <1>6, <1>7, <1>8 DEF SendingInv

LEMMA DeliveryFrame ==
  ASSUME DeliveryInv, UNCHANGED <<published, inbox, current, pending, delivered>>
  PROVE  DeliveryInv'
BY DEF DeliveryInv, Ordered, Behind

LEMMA JoinInv ==
  ASSUME PipelineInv, NEW s \in Socket,
         Join(s) \/ Disconnect(s) \/ Insert(s) \/ Vanish(s)
  PROVE  PipelineInv'
<1> USE DEF Join, Disconnect, Insert, Vanish, Goto, database, handlers, delivery
<1>1. TypeOK /\ RetryInv /\ SendingInv /\ DeliveryInv
  BY InvGroups
<1>2. TypeOK' /\ RetryInv'
  BY <1>1 DEF TypeOK, RetryInv, Phase
<1>3. SendingInv'
  <2>1. \A t \in Socket : Quiet(t)
    BY <1>1 DEF Quiet, TypeOK
  <2> QED BY <1>1, <2>1, QuietStep
<1>4. DeliveryInv'
  BY <1>1, DeliveryFrame
<1> QED BY <1>2, <1>3, <1>4, InvGroupsPrime

LEMMA DeleteInv ==
  ASSUME PipelineInv, DeleteConversation
  PROVE  PipelineInv'
<1> USE DEF DeleteConversation, handlers, delivery
<1>1. TypeOK /\ RetryInv /\ SendingInv /\ DeliveryInv
  BY InvGroups
<1>2. TypeOK' /\ RetryInv'
  BY <1>1 DEF TypeOK, RetryInv
<1>3. SendingInv'
  BY <1>1
  DEF SendingInv, HandlerInv, ChannelInv, OutcomeInv, QuestionBeforeReply,
    ReplyNeedsPublishedQuestion, SenderLearnsOutcome, SavedWhenToldSo, NoOrphanMessage,
    IsWorking, Working, Posted
<1>4. DeliveryInv'
  BY <1>1, DeliveryFrame
<1> QED BY <1>2, <1>3, <1>4, InvGroupsPrime

(* A frame that was received: the previous one has been settled.           *)
LEMMA ReceiveInv ==
  ASSUME PipelineInv, NEW s \in Socket, ReceiveSend(s)
  PROVE  PipelineInv'
<1> USE DEF ReceiveSend, Goto, database, delivery
<1>1. TypeOK /\ RetryInv /\ SendingInv /\ DeliveryInv
  BY InvGroups
<1>2. sends[s] \in Nat /\ sends[s] + 1 \in 0..MaxSends /\ \A t \in Socket : sends[t] \in Nat
  BY <1>1, MaxSendsAssumption DEF TypeOK
<1>3. TypeOK' /\ RetryInv'
  BY <1>1, <1>2 DEF TypeOK, RetryInv, Phase, Role
<1>4. /\ \A t \in Socket \ {s} : /\ phase'[t] = phase[t] /\ sends'[t] = sends[t]
                                 /\ role'[t] = role[t] /\ Working(t)' = Working(t)
      /\ phase'[s] = "inserting" /\ sends'[s] = sends[s] + 1 /\ role'[s] = "user"
      /\ UNCHANGED <<exists, history, committed, told, published>>
  BY <1>1 DEF TypeOK, Working
<1>5. \A m : Posted(m)' <=> Posted(m)
  BY DEF Posted
<1>6. HandlerInv'
  BY <1>1, <1>2, <1>4, <1>5 DEF SendingInv, HandlerInv, IsWorking
<1>7. ChannelInv'
  <2>1. \A i \in DOMAIN published : published[i].from \in Socket /\ published[i].n \in Nat
    <3>1. \A i \in DOMAIN published : published[i] \in Message
      BY <1>1 DEF TypeOK
    <3> QED BY <3>1, MessageFields
  <2> QED BY <1>1, <1>2, <1>4, <2>1 DEF SendingInv, ChannelInv
<1>8. OutcomeInv'
  <2>1. \A t \in Socket : \A r \in told[t] : r.n \in Nat
    BY <1>1 DEF TypeOK
  <2> QED BY <1>1, <1>2, <1>4, <2>1 DEF SendingInv, OutcomeInv, IsWorking
<1>9. SenderLearnsOutcome'
  <2>1. ASSUME NEW t \in Socket, NEW n \in 1..sends'[t], n < sends'[t] \/ phase'[t] = "idle"
        PROVE  n \in 1..sends[t] /\ (n < sends[t] \/ phase[t] = "idle")
    BY <1>2, <1>4, <2>1
  <2> QED BY <1>1, <1>4, <2>1 DEF SendingInv, SenderLearnsOutcome
<1>10. QuestionBeforeReply' /\ ReplyNeedsPublishedQuestion' /\ SavedWhenToldSo' /\ NoOrphanMessage'
  BY <1>1
  DEF SendingInv, QuestionBeforeReply, ReplyNeedsPublishedQuestion, SavedWhenToldSo,
    NoOrphanMessage
<1>11. SendingInv'
  BY <1>6, <1>7, <1>8, <1>9, <1>10 DEF SendingInv
<1>12. DeliveryInv'
  BY <1>1, DeliveryFrame
<1> QED BY <1>3, <1>11, <1>12, InvGroupsPrime

-----------------------------------------------------------------------------
(* Steps that store, publish or report.                                    *)

Tells(s, code) ==
  told' = [told EXCEPT ![s] =
             told[s] \cup {[n |-> sends[s], role |-> role[s], code |-> code]}]

NowPosted(m) == \E i \in DOMAIN published' : published'[i] = m

(* The ways in which a handler that works on a message gets further.       *)
Advance(s) ==
  \/ /\ phase'[s] = "publishing" /\ role' = role /\ told' = told
     /\ Working(s) \in committed'
  \/ /\ role[s] = "user" /\ role' = [role EXCEPT ![s] = "assistant"] /\ told' = told
     /\ phase'[s] = "inserting" /\ NowPosted(Working(s))
  \/ /\ role[s] = "assistant" /\ role' = role /\ told' = told
     /\ phase'[s] = "idle" /\ NowPosted(Working(s))
  \/ /\ phase'[s] = "idle" /\ role' = role
     /\ \/ Tells(s, "message_processing_failed")
        \/ Tells(s, "message_publish_failed") /\ Working(s) \in committed'
  \/ phase'[s] = "gone" /\ role' = role /\ told' = told

LEMMA AdvanceStep ==
  ASSUME TypeOK, SendingInv, NEW s \in Socket, IsWorking(s), Advance(s),
         UNCHANGED <<exists, sends>>,
         \A t \in Socket \ {s} : phase'[t] = phase[t],
         \/ UNCHANGED <<history, committed>>
         \/ phase[s] = "committing" /\ MakeDurable(s),
         \/ UNCHANGED published
         \/ phase[s] = "publishing" /\ Post(s)
  PROVE  SendingInv'
<1> DEFINE n == sends[s]
<1>1. /\ HandlerInv /\ ChannelInv /\ OutcomeInv /\ QuestionBeforeReply
      /\ ReplyNeedsPublishedQuestion /\ SenderLearnsOutcome /\ SavedWhenToldSo
      /\ NoOrphanMessage
  BY DEF SendingInv
<1>2. Working(s) \in Message /\ n \in Nat /\ n >= 1
  BY <1>1, WorkingMessage, MaxSendsAssumption
<1>3. \A i \in DOMAIN published : published[i] \in Message /\ published[i].from \in Socket
  <2>1. \A i \in DOMAIN published : published[i] \in Message
    BY DEF TypeOK
  <2> QED BY <2>1, MessageFields
<1>4. /\ committed \subseteq committed' /\ committed' \subseteq committed \cup {Working(s)}
  BY DEF MakeDurable
<1>5. /\ DOMAIN published \subseteq DOMAIN published'
      /\ \A i \in DOMAIN published : published'[i] = published[i]
      /\ \A i \in DOMAIN published' :
           \/ i \in DOMAIN published
           \/ /\ phase[s] = "publishing" /\ published'[i] = Working(s)
              /\ DOMAIN published = 1..(i - 1) /\ i \in Nat
              /\ DOMAIN published' = 1..i
  BY <1>2, PostStep
<1>6. \A m : Posted(m) => Posted(m)'
  BY <1>5 DEF Posted
<1>7. \A t \in Socket \ {s} : role'[t] = role[t] /\ told'[t] = told[t]
  BY DEF Advance, Tells, TypeOK
<1>8. \A t \in Socket \ {s} : Working(t)' = Working(t)
  BY <1>7 DEF Working
<1>9. \A t \in Socket : role[t] = "assistant" => role'[t] = "assistant"
  BY DEF Advance, TypeOK
<1>10. HandlerInv'
  <2>1. /\ phase'[s] \in {"publishing", "inserting", "idle", "gone"}
        /\ phase'[s] = "publishing" => role' = role /\ Working(s) \in committed'
        /\ phase'[s] = "inserting" => role[s] = "user" /\ NowPosted(Working(s))
    BY DEF Advance
  <2>2. phase'[s] = "publishing" => Working(s)' \in committed'
    BY <2>1 DEF Working
  <2>3. ASSUME IsWorking(s)', role'[s] = "assistant"
        PROVE  Posted(Question(Working(s)))'
    <3>1. Question(Working(s))' = [from |-> s, n |-> n, role |-> "user"]
      BY DEF Question, Working
    <3>2. CASE phase'[s] = "publishing"
      <4>1. Posted(Question(Working(s)))
        BY <1>1, <2>1, <2>3, <3>2 DEF HandlerInv
      <4>2. Question(Working(s)) = [from |-> s, n |-> n, role |-> "user"]
        BY DEF Question, Working
      <4> QED BY <1>6, <3>1, <4>1, <4>2
    <3>3. CASE phase'[s] = "inserting"
      BY <2>1, <3>1, <3>3 DEF Working, NowPosted, Posted
    <3> QED BY <2>1, <2>3, <3>2, <3>3 DEF IsWorking
  <2>4. ASSUME NEW t \in Socket \ {s}
        PROVE  /\ IsWorking(t)' <=> IsWorking(t)
               /\ Posted(Question(Working(t))) => Posted(Question(Working(t)))'
    BY <1>6, <1>8 DEF IsWorking, Question
  <2>5. ASSUME NEW t \in Socket \ {s}
        PROVE  /\ IsWorking(t)' => sends[t] >= 1
               /\ phase'[t] = "committing" => exists
               /\ phase'[t] = "publishing" => Working(t)' \in committed'
               /\ phase'[t] = "connecting" => sends[t] = 0
               /\ IsWorking(t)' /\ role'[t] = "assistant" => Posted(Question(Working(t)))'
    BY <1>1, <1>4, <1>7, <1>8, <2>4 DEF HandlerInv
  <2> QED BY <1>2, <2>1, <2>2, <2>3, <2>5 DEF HandlerInv
<1>11. ChannelInv'
  <2>1. ASSUME NEW i \in DOMAIN published
        PROVE  LET m == published'[i] IN
               /\ m \in committed'
               /\ m.n <= sends'[m.from]
               /\ m.n = sends'[m.from] /\ m.role = "assistant" => role'[m.from] = "assistant"
    BY <1>1, <1>3, <1>4, <1>5, <1>9 DEF ChannelInv
  <2>2. ASSUME NEW i \in DOMAIN published', i \notin DOMAIN published
        PROVE  LET m == published'[i] IN
               /\ m \in committed'
               /\ m.n <= sends'[m.from]
               /\ m.n = sends'[m.from] /\ m.role = "assistant" => role'[m.from] = "assistant"
    BY <1>1, <1>2, <1>4, <1>5, <1>9, <2>2 DEF HandlerInv, Working
  <2> QED BY <2>1, <2>2 DEF ChannelInv
<1>12. OutcomeInv'
  <2>1. \A r \in told'[s] : r \in told[s] \/ (r.n = n /\ phase'[s] = "idle")
    BY DEF Advance, Tells, TypeOK
  <2>2. \A t \in Socket \ {s} : IsWorking(t)' <=> IsWorking(t)
    BY DEF IsWorking
  <2> QED BY <1>1, <1>2, <1>7, <2>1, <2>2 DEF OutcomeInv, IsWorking
<1>13. QuestionBeforeReply'
  <2>1. ASSUME NEW i \in DOMAIN published', published'[i].role = "assistant"
        PROVE  /\ \E k \in 1..(i - 1) : published'[k] = Question(published'[i])
               /\ \A k \in DOMAIN published' :
                    k > i => published'[k] # Question(published'[i])
    <3>1. CASE i \in DOMAIN published
      <4>1. \E k \in 1..(i - 1) : published[k] = Question(published[i])
        BY <1>1, <1>5, <2>1, <3>1 DEF QuestionBeforeReply
      <4>2. \A k \in 1..(i - 1) : k \in DOMAIN published
        BY <3>1 DEF TypeOK
      <4>3. Working(s) # Question(published[i])
        <5>1. Question(published[i]) = [from |-> published[i].from, n |-> published[i].n,
                                        role |-> "user"]
          BY <1>3, <3>1, QuestionFields
        <5> QED BY <1>1, <1>5, <2>1, <3>1, <5>1 DEF ChannelInv, Working
      <4> QED BY <1>1, <1>5, <2>1, <3>1, <4>1, <4>2, <4>3 DEF QuestionBeforeReply
    <3>2. CASE i \notin DOMAIN published
      <4>1. /\ published'[i] = Working(s) /\ DOMAIN published = 1..(i - 1)
            /\ DOMAIN published' = 1..i /\ i \in Nat
        BY <1>5, <3>2
      <4>2. Posted(Question(Working(s)))
        BY <1>1, <2>1, <4>1 DEF HandlerInv, Working
      <4> QED BY <1>5, <4>1, <4>2 DEF Posted
    <3> QED BY <3>1, <3>2
  <2> QED BY <2>1 DEF QuestionBeforeReply
<1>14. ReplyNeedsPublishedQuestion'
  <2>1. ASSUME NEW m \in committed', m.role = "assistant"
        PROVE  Posted(Question(m))'
    <3>1. CASE m \in committed
      BY <1>1, <1>6, <2>1, <3>1 DEF ReplyNeedsPublishedQuestion, Posted, Question
    <3>2. CASE m = Working(s)
      <4>1. Posted(Question(Working(s)))
        BY <1>1, <2>1, <3>2 DEF HandlerInv, Working
      <4> QED BY <1>6, <3>2, <4>1
    <3> QED BY <1>4, <3>1, <3>2
  <2> QED BY <2>1 DEF ReplyNeedsPublishedQuestion, Posted
<1>15. SavedWhenToldSo'
  <2>1. ASSUME NEW r \in told'[s], r.code = "message_publish_failed"
        PROVE  [from |-> s, n |-> r.n, role |-> r.role] \in committed'
    <3>1. CASE r \in told[s]
      BY <1>1, <1>4, <2>1, <3>1 DEF SavedWhenToldSo
    <3>2. CASE r \notin told[s]
      BY <2>1, <3>2 DEF Advance, Tells, TypeOK, Working
    <3> QED BY <3>1, <3>2
  <2> QED BY <1>1, <1>4, <1>7, <2>1 DEF SavedWhenToldSo
<1>16. NoOrphanMessage'
  BY <1>1 DEF NoOrphanMessage, HandlerInv
<1>17. SenderLearnsOutcome'
  <2> DEFINE Reports(t, k) == {r \in told[t] : r.n = k}
             Reply(t, k, r) == [from |-> t, n |-> k, role |-> r]
             Settled(t, k) ==
               \/ /\ Reports(t, k) = {}
                  /\ Posted(Reply(t, k, "user")) /\ Posted(Reply(t, k, "assistant"))
               \/ Cardinality(Reports(t, k)) = 1
  <2>1. SenderLearnsOutcome <=>
          \A t \in Socket : \A k \in 1..sends[t] :
            k < sends[t] \/ phase[t] = "idle" => Settled(t, k)
    BY DEF SenderLearnsOutcome, Posted
  <2>2. SenderLearnsOutcome' <=>
          \A t \in Socket : \A k \in 1..sends'[t] :
            k < sends'[t] \/ phase'[t] = "idle" => Settled(t, k)'
    BY DEF SenderLearnsOutcome, Posted
  <2>3. ASSUME NEW t \in Socket, NEW k \in 1..sends[t], Settled(t, k),
               Reports(t, k)' = Reports(t, k)
        PROVE  Settled(t, k)'
    BY <1>6, <2>3
  <2>4. ASSUME NEW t \in Socket \ {s}, NEW k \in 1..sends[t],
               k < sends[t] \/ phase'[t] = "idle"
        PROVE  Settled(t, k)'
    BY <1>1, <1>7, <2>1, <2>3, <2>4
  <2>5. ASSUME NEW k \in 1..n, k < n
        PROVE  Settled(s, k)'
    <3>1. Reports(s, k)' = Reports(s, k)
      BY <1>2, <2>5 DEF Advance, Tells, TypeOK
    <3> QED BY <1>1, <2>1, <2>3, <2>5, <3>1
  <2>6. ASSUME phase'[s] = "idle"
        PROVE  Settled(s, n)'
    <3>1. Reports(s, n) = {}
      BY <1>1, <1>2 DEF OutcomeInv, TypeOK
    <3>2. CASE role[s] = "assistant" /\ told' = told /\ NowPosted(Working(s))
      <4>1. Posted(Question(Working(s)))
        BY <1>1, <3>2 DEF HandlerInv
      <4>2. /\ Question(Working(s)) = Reply(s, n, "user")
            /\ Working(s) = Reply(s, n, "assistant")
        BY <3>2 DEF Question, Working
      <4>3. Posted(Reply(s, n, "user"))' /\ Posted(Reply(s, n, "assistant"))'
        BY <1>6, <3>2, <4>1, <4>2 DEF NowPosted, Posted
      <4>4. Reports(s, n)' = {}
        BY <3>1, <3>2
      <4> QED BY <4>3, <4>4
    <3>3. ASSUME NEW code \in ErrorCode, Tells(s, code)
          PROVE  Settled(s, n)'
      <4>1. Reports(s, n)' = {[n |-> n, role |-> role[s], code |-> code]}
        BY <3>1, <3>3 DEF Tells, TypeOK
      <4> QED BY <4>1, FS_Singleton
    <3> QED BY <2>6, <3>2, <3>3 DEF Advance, ErrorCode
  <2>7. ASSUME NEW k \in 1..n, k < n \/ phase'[s] = "idle"
        PROVE  Settled(s, k)'
    <3>1. k < n \/ k = n
      BY <1>2
    <3> QED BY <2>5, <2>6, <2>7, <3>1
  <2> QED BY <2>2, <2>4, <2>7
<1> QED
  BY <1>10, <1>11, <1>12, <1>13, <1>14, <1>15, <1>16, <1>17 DEF SendingInv

LEMMA ReportStep ==
  ASSUME TypeOK, NEW s \in Socket, NEW code \in ErrorCode, Report(s, code)
  PROVE  /\ \/ phase'[s] = "idle" /\ Tells(s, code)
            \/ phase'[s] = "gone" /\ told' = told
         /\ phase' \in [Socket -> Phase]
         /\ \A t \in Socket \ {s} : phase'[t] = phase[t]
BY DEF Report, Tells, Goto, TypeOK, Phase

LEMMA TellsStep ==
  ASSUME TypeOK, NEW s \in Socket, Working(s) \in Message, NEW code \in ErrorCode,
         Tells(s, code) \/ told' = told
  PROVE  told' \in [Socket -> SUBSET [n : 1..MaxSends, role : Role, code : ErrorCode]]
<1>1. sends[s] \in 1..MaxSends /\ role[s] \in Role
  BY DEF Working, Message
<1>2. told \in [Socket -> SUBSET [n : 1..MaxSends, role : Role, code : ErrorCode]]
  BY DEF TypeOK
<1> QED BY <1>1, <1>2 DEF Tells

(* The transaction of a message: its INSERT failed, it was committed, or   *)
(* commit() raised.                                                        *)
LEMMA TransactionInv ==
  ASSUME PipelineInv, NEW s \in Socket,
         InsertFails(s) \/ Commit(s) \/ CommitFails(s)
  PROVE  PipelineInv'
<1> USE DEF database, delivery
<1>1. TypeOK /\ RetryInv /\ SendingInv /\ DeliveryInv
  BY InvGroups
<1>2. IsWorking(s) /\ phase[s] # "publishing" /\ Working(s) \in Message
  BY <1>1, WorkingMessage DEF SendingInv, InsertFails, Commit, CommitFails, IsWorking
<1>3. /\ UNCHANGED <<exists, sends, role, alive, published, feed, inbox, current, pending,
                     delivered>>
      /\ \/ UNCHANGED <<history, committed>>
         \/ phase[s] = "committing" /\ MakeDurable(s)
  BY DEF InsertFails, Commit, CommitFails
<1>4. /\ \/ Commit(s) /\ phase'[s] = "publishing" /\ told' = told
         \/ phase'[s] = "idle" /\ Tells(s, "message_processing_failed")
         \/ phase'[s] = "gone" /\ told' = told
      /\ phase' \in [Socket -> Phase]
      /\ \A t \in Socket \ {s} : phase'[t] = phase[t]
  <2>1. CASE Commit(s)
    BY <1>1, <2>1 DEF Commit, Goto, TypeOK, Phase
  <2>2. CASE InsertFails(s) \/ CommitFails(s)
    BY <1>1, <2>2, ReportStep DEF InsertFails, CommitFails, ErrorCode
  <2> QED BY <2>1, <2>2
<1>5. /\ tries' \in [Socket -> 0..Attempts]
      /\ \A t \in Socket \ {s} : tries'[t] = tries[t]
      /\ phase'[s] = "publishing" => tries'[s] = 0
  <2>1. tries \in [Socket -> 0..Attempts]
    BY <1>1 DEF TypeOK
  <2>2. CASE Commit(s)
    BY <2>1, <2>2, AttemptsAssumption DEF Commit
  <2>3. CASE InsertFails(s) \/ CommitFails(s)
    <3>1. tries' = tries /\ Report(s, "message_processing_failed")
      BY <2>3 DEF InsertFails, CommitFails
    <3>2. phase'[s] # "publishing"
      BY <1>1, <3>1, ReportStep DEF ErrorCode
    <3> QED BY <2>1, <3>1, <3>2
  <2> QED BY <2>2, <2>3
<1>6. TypeOK' /\ RetryInv'
  <2>1. told' \in [Socket -> SUBSET [n : 1..MaxSends, role : Role, code : ErrorCode]]
    BY <1>1, <1>2, <1>4, TellsStep DEF ErrorCode
  <2>2. history' \in SUBSET Message /\ committed' \in SUBSET Message
    BY <1>1, <1>2, <1>3 DEF TypeOK, MakeDurable
  <2>3. RetryInv'
    BY <1>1, <1>4, <1>5, AttemptsAssumption DEF RetryInv
  <2> QED BY <1>1, <1>3, <1>4, <1>5, <2>1, <2>2, <2>3 DEF TypeOK
<1>7. Advance(s)
  BY <1>3, <1>4 DEF Advance, Commit, MakeDurable
<1>8. SendingInv'
  BY <1>1, <1>2, <1>3, <1>4, <1>7, AdvanceStep
<1>9. DeliveryInv'
  BY <1>1, <1>3, DeliveryFrame
<1> QED BY <1>6, <1>8, <1>9, InvGroupsPrime

(* PUBLISH of its frame, with the retries of the client library.           *)
LEMMA PublishInv ==
  ASSUME PipelineInv, NEW s \in Socket, Publish(s) \/ PublishFails(s)
  PROVE  PipelineInv'
<1> USE DEF database, delivery
<1>1. TypeOK /\ RetryInv /\ SendingInv /\ DeliveryInv
  BY InvGroups
<1>2. /\ IsWorking(s) /\ phase[s] = "publishing" /\ Working(s) \in Message
      /\ Working(s) \in committed /\ tries[s] < Attempts
  <2>1. phase[s] = "publishing"
    BY DEF Publish, PublishFails
  <2> QED BY <1>1, <2>1, WorkingMessage DEF SendingInv, HandlerInv, RetryInv, IsWorking
<1>3. /\ UNCHANGED <<exists, history, committed, sends, alive>>
      /\ Post(s) \/ UNCHANGED <<published, feed, inbox, current, pending, delivered>>
  BY DEF Publish, PublishFails
<1>4. Post(s) => NowPosted(Working(s))
  <2> SUFFICES ASSUME Post(s) PROVE NowPosted(Working(s))
    OBVIOUS
  <2> QED BY <1>1, <1>2, PostStep DEF NowPosted
<1>5. /\ Advance(s)
      /\ phase' \in [Socket -> Phase] /\ role' \in [Socket -> Role]
      /\ \A t \in Socket \ {s} : phase'[t] = phase[t]
      /\ told' \in [Socket -> SUBSET [n : 1..MaxSends, role : Role, code : ErrorCode]]
  <2>1. CASE Publish(s)
    <3>1. /\ phase \in [Socket -> Phase] /\ role \in [Socket -> Role]
          /\ told \in [Socket -> SUBSET [n : 1..MaxSends, role : Role, code : ErrorCode]]
      BY <1>1 DEF TypeOK
    <3>2. \/ /\ role[s] = "user" /\ role' = [role EXCEPT ![s] = "assistant"]
             /\ phase' = [phase EXCEPT ![s] = "inserting"]
          \/ /\ role[s] = "assistant" /\ role' = role
             /\ phase' = [phase EXCEPT ![s] = "idle"]
      BY <2>1 DEF Publish, Goto
    <3>3. told' = told /\ NowPosted(Working(s))
      BY <1>4, <2>1 DEF Publish
    <3>4. Advance(s)
      BY <3>1, <3>2, <3>3 DEF Advance
    <3> QED BY <3>1, <3>2, <3>3, <3>4 DEF Phase, Role
  <2>2. CASE PublishFails(s) /\ UNCHANGED <<phase, role, told>>
    BY <1>1, <1>2, <1>3, <2>2 DEF Advance, TypeOK
  <2>3. CASE PublishFails(s) /\ GiveUp(s)
    <3>1. role' = role /\ Report(s, "message_publish_failed")
      BY <2>3 DEF GiveUp
    <3>2. /\ \/ phase'[s] = "idle" /\ Tells(s, "message_publish_failed")
             \/ phase'[s] = "gone" /\ told' = told
          /\ phase' \in [Socket -> Phase]
          /\ \A t \in Socket \ {s} : phase'[t] = phase[t]
      BY <1>1, <3>1, ReportStep DEF ErrorCode
    <3>3. told' \in [Socket -> SUBSET [n : 1..MaxSends, role : Role, code : ErrorCode]]
      BY <1>1, <1>2, <3>2, TellsStep DEF ErrorCode
    <3>4. Advance(s)
      BY <1>2, <1>3, <3>1, <3>2 DEF Advance
    <3> QED BY <1>1, <3>1, <3>2, <3>3, <3>4 DEF TypeOK
  <2> QED BY <2>1, <2>2, <2>3 DEF PublishFails
<1>6. /\ tries' \in [Socket -> 0..Attempts]
      /\ RetryInv'
  <2>1. tries \in [Socket -> 0..Attempts] /\ phase \in [Socket -> Phase]
    BY <1>1 DEF TypeOK
  <2>2. CASE Publish(s)
    BY <1>1, <1>2, <1>5, <2>1, <2>2 DEF RetryInv, Publish, Goto
  <2>3. CASE PublishFails(s)
    <3>1. /\ tries[s] + 1 \in 0..Attempts
          /\ tries' = [tries EXCEPT ![s] = tries[s] + 1]
      BY <1>2, <2>1, <2>3, AttemptsAssumption DEF PublishFails
    <3>2. phase'[s] = "publishing" => tries[s] + 1 < Attempts
      <4>1. CASE Exhausted(s)
        <5>1. Report(s, "message_publish_failed")
          BY <2>3, <4>1 DEF PublishFails, GiveUp
        <5> QED BY <1>1, <5>1, ReportStep DEF ErrorCode
      <4>2. CASE ~Exhausted(s)
        BY <2>1, <3>1, <4>2, AttemptsAssumption DEF Exhausted
      <4> QED BY <4>1, <4>2
    <3> QED BY <1>1, <1>5, <2>1, <3>1, <3>2 DEF RetryInv
  <2> QED BY <2>2, <2>3
<1>7. published' \in Seq(Message) /\ inbox' \in [Process -> Seq(Nat)] /\ DeliveryInv'
  <2>1. CASE Post(s)
    BY <1>1, <1>2, <2>1, PostStep, PostKeepsOrder
  <2>2. CASE UNCHANGED <<published, feed, inbox, current, pending, delivered>>
    BY <1>1, <2>2, DeliveryFrame DEF TypeOK
  <2> QED BY <1>3, <2>1, <2>2
<1>8. TypeOK'
  BY <1>1, <1>3, <1>5, <1>6, <1>7 DEF TypeOK, Post
<1>9. SendingInv'
  BY <1>1, <1>2, <1>3, <1>5, AdvanceStep
<1> QED BY <1>6, <1>7, <1>8, <1>9, InvGroupsPrime

-----------------------------------------------------------------------------
(* The subscription tasks.                                                 *)

(* A process that empties its buffers, or that has not even changed them.  *)
LEMMA FeedInv ==
  ASSUME PipelineInv, NEW p \in Process,
         FeedUp(p) \/ FeedLost(p) \/ FeedFails(p) \/ Cancel(p) \/ Crash(p)
  PROVE  PipelineInv'
<1> USE DEF database, handlers, delivery
<1>1. TypeOK /\ RetryInv /\ SendingInv /\ DeliveryInv
  BY InvGroups
<1>2. UNCHANGED <<database, sends, role, tries, told, alive, published, delivered>>
  BY DEF FeedUp, FeedLost, FeedFails, Cancel, Crash
<1>3. phase' \in [Socket -> Phase] /\ \A s \in Socket : phase'[s] \in {phase[s], "gone"}
  <2>1. phase \in [Socket -> Phase]
    BY <1>1 DEF TypeOK
  <2>2. CASE Crash(p)
    BY <2>1, <2>2 DEF Crash, Phase
  <2>3. CASE UNCHANGED phase
    BY <2>1, <2>3
  <2> QED BY <2>2, <2>3 DEF FeedUp, FeedLost, FeedFails, Cancel
<1>4. \/ UNCHANGED <<inbox, current, pending>>
      \/ /\ inbox' = [inbox EXCEPT ![p] = <<>>]
         /\ \/ UNCHANGED <<current, pending>>
            \/ /\ current' = [current EXCEPT ![p] = 0]
               /\ pending' = [pending EXCEPT ![p] = {}]
  BY DEF FeedUp, FeedLost, FeedFails, Cancel, Crash
<1>5. /\ inbox' \in [Process -> Seq(Nat)] /\ current' \in [Process -> Nat]
      /\ pending' \in [Process -> SUBSET Socket] /\ feed' \in SUBSET Process
  <2>2. feed' \in SUBSET Process
    BY <1>1 DEF TypeOK, FeedUp, FeedLost, FeedFails, Cancel, Crash
  <2>3. inbox' \in [Process -> Seq(Nat)]
    <3>1. UNCHANGED inbox \/ inbox' = [inbox EXCEPT ![p] = <<>>]
      BY <1>4
    <3>2. inbox \in [Process -> Seq(Nat)] /\ <<>> \in Seq(Nat)
      BY <1>1 DEF TypeOK
    <3> QED BY <3>1, <3>2
  <2>4. current' \in [Process -> Nat]
    <3>1. UNCHANGED current \/ current' = [current EXCEPT ![p] = 0]
      BY <1>4
    <3>2. current \in [Process -> Nat]
      BY <1>1 DEF TypeOK
    <3> QED BY <3>1, <3>2
  <2>5. pending' \in [Process -> SUBSET Socket]
    <3>1. UNCHANGED pending \/ pending' = [pending EXCEPT ![p] = {}]
      BY <1>4
    <3>2. pending \in [Process -> SUBSET Socket]
      BY <1>1 DEF TypeOK
    <3> QED BY <3>1, <3>2
  <2> QED BY <2>2, <2>3, <2>4, <2>5
<1>6. TypeOK' /\ RetryInv'
  <2>1. TypeOK'
    BY <1>1, <1>2, <1>3, <1>5 DEF TypeOK
  <2>2. RetryInv'
    BY <1>1, <1>2, <1>3 DEF RetryInv
  <2> QED BY <2>1, <2>2
<1>7. SendingInv'
  BY <1>1, <1>2, <1>3, QuietStep DEF Quiet
<1>8. DeliveryInv'
  <2>1. ASSUME NEW q \in Process
        PROVE  /\ inbox'[q] = inbox[q] \/ inbox'[q] = <<>>
               /\ \/ current'[q] = current[q] /\ pending'[q] = pending[q]
                  \/ current'[q] = 0 /\ pending'[q] = {} /\ inbox'[q] = <<>>
    BY <1>1, <1>4 DEF TypeOK
  <2>2. Len(published) \in Nat
    BY <1>1 DEF TypeOK
  <2>3. \A q \in Process : Ordered(q)'
    BY <1>1, <1>2, <2>1, <2>2 DEF DeliveryInv, Ordered
  <2>4. \A s \in Socket : Behind(Home[s], s)'
    BY <1>1, <1>2, <2>1, HomeAssumption DEF DeliveryInv, Behind
  <2> QED BY <2>3, <2>4 DEF DeliveryInv
<1> QED BY <1>6, <1>7, <1>8, InvGroupsPrime

LEMMA TakeInv ==
  ASSUME PipelineInv, NEW p \in Process, Take(p)
  PROVE  PipelineInv'
<1> USE DEF database, handlers
<1>1. TypeOK /\ RetryInv /\ SendingInv /\ DeliveryInv
  BY InvGroups
<1>2. UNCHANGED <<database, handlers, alive, published, feed, delivered>>
  BY DEF Take
<1>3. /\ inbox[p] \in Seq(Nat) /\ inbox[p] # <<>> /\ current[p] = 0
      /\ inbox \in [Process -> Seq(Nat)] /\ current \in [Process -> Nat]
      /\ pending \in [Process -> SUBSET Socket]
  BY <1>1 DEF TypeOK, Take
<1>4. /\ Head(inbox[p]) = inbox[p][1] /\ 1 \in DOMAIN inbox[p]
      /\ Head(inbox[p]) \in Nat /\ Tail(inbox[p]) \in Seq(Nat)
      /\ \A i \in DOMAIN Tail(inbox[p]) :
           i + 1 \in DOMAIN inbox[p] /\ Tail(inbox[p])[i] = inbox[p][i + 1] /\ i >= 1 /\ i \in Nat
  BY <1>3
<1>5. /\ inbox' = [inbox EXCEPT ![p] = Tail(inbox[p])]
      /\ \/ current'[p] = 0 /\ pending'[p] = {}
         \/ current'[p] = Head(inbox[p])
      /\ \A s \in pending'[p] : Home[s] = p
      /\ current' \in [Process -> Nat] /\ pending' \in [Process -> SUBSET Socket]
      /\ \A q \in Process \ {p} : current'[q] = current[q] /\ pending'[q] = pending[q]
  BY <1>3, <1>4 DEF Take, Connected
<1>6. TypeOK' /\ RetryInv'
  <2>1. TypeOK'
    BY <1>1, <1>2, <1>3, <1>4, <1>5 DEF TypeOK
  <2>2. RetryInv'
    BY <1>1, <1>2 DEF RetryInv
  <2> QED BY <2>1, <2>2
<1>7. SendingInv'
  BY <1>1, <1>2, QuietStep DEF Quiet
<1>8. DeliveryInv'
  <2>1. Ordered(p) /\ inbox'[p] = Tail(inbox[p]) /\ Len(published) \in Nat
    BY <1>1, <1>3, <1>5 DEF DeliveryInv, TypeOK
  <2>2. \A i \in DOMAIN inbox[p] : inbox[p][i] \in Nat
    BY <1>3
  <2>3. Ordered(p)'
    <3>1. \A i, k \in DOMAIN inbox'[p] : i < k => inbox'[p][i] < inbox'[p][k]
      <4>1. SUFFICES ASSUME NEW i \in DOMAIN inbox'[p], NEW k \in DOMAIN inbox'[p], i < k
                     PROVE  inbox'[p][i] < inbox'[p][k]
        OBVIOUS
      <4>2. /\ i + 1 \in DOMAIN inbox[p] /\ inbox'[p][i] = inbox[p][i + 1]
            /\ k + 1 \in DOMAIN inbox[p] /\ inbox'[p][k] = inbox[p][k + 1]
            /\ i + 1 < k + 1
        <5>1. i \in DOMAIN Tail(inbox[p]) /\ k \in DOMAIN Tail(inbox[p])
          BY <2>1
        <5>2. i \in Nat /\ k \in Nat
          BY <1>4, <5>1
        <5> QED BY <1>4, <2>1, <4>1, <5>1, <5>2
      <4> QED BY <2>1, <4>2 DEF Ordered
    <3>2. \A i \in DOMAIN inbox'[p] :
            Head(inbox[p]) < inbox'[p][i] /\ 0 < inbox'[p][i] /\ inbox'[p][i] <= Len(published)
      <4>1. SUFFICES ASSUME NEW i \in DOMAIN inbox'[p]
                     PROVE  /\ Head(inbox[p]) < inbox'[p][i]
                            /\ 0 < inbox'[p][i] /\ inbox'[p][i] <= Len(published)
        OBVIOUS
      <4>2. /\ i + 1 \in DOMAIN inbox[p] /\ inbox'[p][i] = inbox[p][i + 1] /\ 1 < i + 1
        BY <1>4, <2>1
      <4> QED BY <1>3, <1>4, <2>1, <4>2 DEF Ordered
    <3>3. 0 < Head(inbox[p]) /\ Head(inbox[p]) <= Len(published)
      BY <1>3, <1>4, <2>1 DEF Ordered
    <3> QED BY <1>2, <1>5, <2>1, <3>1, <3>2, <3>3 DEF Ordered
  <2>4. ASSUME NEW q \in Process \ {p}
        PROVE  Ordered(q)'
    <3>1. inbox'[q] = inbox[q]
      BY <1>3, <1>5
    <3> QED BY <1>1, <1>2, <1>5, <3>1 DEF DeliveryInv, Ordered
  <2>5. ASSUME NEW s \in Socket, Home[s] = p
        PROVE  Behind(p, s)'
    <3>1. Behind(p, s)
      BY <1>1, <2>5 DEF DeliveryInv
    <3>2. \A j \in DOMAIN delivered[s] : delivered[s][j] \in Nat
      BY <1>1 DEF TypeOK
    <3>3. \A j \in DOMAIN delivered[s] :
            /\ delivered[s][j] <= Len(published) /\ delivered[s][j] < Head(inbox[p])
            /\ \A i \in DOMAIN inbox'[p] : delivered[s][j] < inbox'[p][i]
      BY <1>4, <2>1, <3>1 DEF Behind
    <3> QED BY <1>2, <1>4, <1>5, <3>2, <3>3 DEF Behind
  <2>6. ASSUME NEW s \in Socket, Home[s] # p
        PROVE  Behind(Home[s], s)'
    <3>1. inbox'[Home[s]] = inbox[Home[s]] /\ Home[s] \in Process
      BY <1>3, <1>5, <2>6, HomeAssumption
    <3> QED BY <1>1, <1>2, <1>5, <2>6, <3>1 DEF DeliveryInv, Behind
  <2> QED BY <2>3, <2>4, <2>5, <2>6 DEF DeliveryInv
<1> QED BY <1>6, <1>7, <1>8, InvGroupsPrime

LEMMA SendInv ==
  ASSUME PipelineInv, NEW p \in Process, NEW s \in Socket, Send(p, s)
  PROVE  PipelineInv'
<1> USE DEF database, handlers
<1>1. TypeOK /\ RetryInv /\ SendingInv /\ DeliveryInv
  BY InvGroups
<1>2. UNCHANGED <<database, handlers, alive, published, feed, inbox>>
  BY DEF Send
<1>3. /\ inbox[p] \in Seq(Nat) /\ current \in [Process -> Nat]
      /\ pending \in [Process -> SUBSET Socket]
      /\ delivered \in [Socket -> Seq(Nat)] /\ Len(published) \in Nat
  BY <1>1 DEF TypeOK
<1>4. Home[s] = p /\ current[p] > 0 /\ current[p] \in Nat /\ s \in pending[p]
      /\ Ordered(p) /\ Behind(p, s)
  BY <1>1, <1>3 DEF DeliveryInv, Ordered, Send
<1>5. /\ pending' = [pending EXCEPT ![p] = pending[p] \ {s}]
      /\ \/ current' = current
         \/ current' = [current EXCEPT ![p] = 0] /\ pending'[p] = {}
      /\ \/ delivered' = delivered
         \/ delivered' = [delivered EXCEPT ![s] = Append(delivered[s], current[p])]
  BY <1>3 DEF Send
<1>6. TypeOK' /\ RetryInv'
  <2>1. /\ current' \in [Process -> Nat] /\ pending' \in [Process -> SUBSET Socket]
        /\ delivered' \in [Socket -> Seq(Nat)]
    <3>1. Append(delivered[s], current[p]) \in Seq(Nat)
      BY <1>3, <1>4
    <3>2. delivered' \in [Socket -> Seq(Nat)]
      BY <1>3, <1>5, <3>1
    <3>3. current' \in [Process -> Nat]
      <4>1. UNCHANGED current \/ current' = [current EXCEPT ![p] = 0]
        BY <1>5
      <4> QED BY <1>3, <4>1
    <3>4. pending' \in [Process -> SUBSET Socket]
      BY <1>3, <1>5
    <3> QED BY <3>2, <3>3, <3>4
  <2>2. RetryInv'
    BY <1>1, <1>2 DEF RetryInv
  <2> QED BY <1>1, <1>2, <2>1, <2>2 DEF TypeOK
<1>7. SendingInv'
  BY <1>1, <1>2, QuietStep DEF Quiet
<1>8. DeliveryInv'
  <2>1. ASSUME NEW q \in Process
        PROVE  Ordered(q)'
    <3>1. Ordered(q)
      BY <1>1 DEF DeliveryInv
    <3>2. CASE q # p
      BY <1>2, <1>3, <1>5, <3>1, <3>2 DEF Ordered
    <3>3. CASE q = p
      <4>1. \A i \in DOMAIN inbox[p] : inbox[p][i] \in Nat
        BY <1>3
      <4> QED BY <1>2, <1>3, <1>4, <1>5, <3>1, <3>3, <4>1 DEF Ordered
    <3> QED BY <3>2, <3>3
  <2>2. ASSUME NEW t \in Socket, t # s
        PROVE  Behind(Home[t], t)'
    <3>1. Behind(Home[t], t) /\ Home[t] \in Process /\ delivered'[t] = delivered[t]
      BY <1>1, <1>3, <1>5, <2>2, HomeAssumption DEF DeliveryInv
    <3>2. t \in pending'[Home[t]] => t \in pending[Home[t]] /\ current'[Home[t]] = current[Home[t]]
      BY <1>3, <1>5, <3>1
    <3>3. current'[Home[t]] # 0 => current'[Home[t]] = current[Home[t]]
      BY <1>3, <1>5, <3>1
    <3> QED BY <1>2, <3>1, <3>2, <3>3 DEF Behind
  <2>3. Behind(p, s)'
    <3>1. \A j \in DOMAIN delivered'[s] :
            \/ j \in DOMAIN delivered[s] /\ delivered'[s][j] = delivered[s][j]
            \/ delivered'[s][j] = current[p]
      <4>1. delivered[s] \in Seq(Nat)
        BY <1>3
      <4>2. CASE delivered' = delivered
        BY <4>2
      <4>3. CASE delivered' = [delivered EXCEPT ![s] = Append(delivered[s], current[p])]
        <5>1. delivered'[s] = Append(delivered[s], current[p])
          BY <1>3, <4>3
        <5> QED BY <1>4, <4>1, <5>1
      <4> QED BY <1>5, <4>2, <4>3
    <3>2. \A j \in DOMAIN delivered[s] : delivered[s][j] \in Nat
      BY <1>3
    <3>3. s \notin pending'[p] /\ current'[p] \in {current[p], 0}
      BY <1>3, <1>5
    <3>4. /\ current[p] <= Len(published)
          /\ \A i \in DOMAIN inbox[p] : current[p] < inbox[p][i]
      BY <1>4 DEF Ordered
    <3>5. \A j \in DOMAIN delivered'[s] :
            /\ delivered'[s][j] <= Len(published)
            /\ \A i \in DOMAIN inbox[p] : delivered'[s][j] < inbox[p][i]
            /\ delivered'[s][j] <= current[p]
      BY <1>4, <3>1, <3>2, <3>4 DEF Behind
    <3> QED BY <1>2, <1>4, <3>3, <3>5 DEF Behind
  <2> QED BY <1>4, <2>1, <2>2, <2>3 DEF DeliveryInv
<1> QED BY <1>6, <1>7, <1>8, InvGroupsPrime

-----------------------------------------------------------------------------

LEMMA NextInv == PipelineInv /\ [Next]_vars => PipelineInv'
<1> SUFFICES ASSUME PipelineInv, [Next]_vars PROVE PipelineInv'
  OBVIOUS
<1>1. ASSUME NEW s \in Socket, Join(s) \/ Disconnect(s) \/ Insert(s) \/ Vanish(s)
      PROVE  PipelineInv'
  BY <1>1, JoinInv
<1>2. ASSUME NEW s \in Socket, ReceiveSend(s)
      PROVE  PipelineInv'
  BY <1>2, ReceiveInv
<1>3. ASSUME NEW s \in Socket, InsertFails(s) \/ Commit(s) \/ CommitFails(s)
      PROVE  PipelineInv'
  BY <1>3, TransactionInv
<1>4. ASSUME NEW s \in Socket, Publish(s) \/ PublishFails(s)
      PROVE  PipelineInv'
  BY <1>4, PublishInv
<1>5. ASSUME NEW p \in Process,
             FeedUp(p) \/ FeedLost(p) \/ FeedFails(p) \/ Cancel(p) \/ Crash(p)
      PROVE  PipelineInv'
  BY <1>5, FeedInv
<1>6. ASSUME NEW p \in Process, Take(p)
      PROVE  PipelineInv'
  BY <1>6, TakeInv
<1>7. ASSUME NEW p \in Process, NEW s \in Socket, Send(p, s)
      PROVE  PipelineInv'
  BY <1>7, SendInv
<1>8. CASE DeleteConversation
  BY <1>8, DeleteInv
<1>9. CASE UNCHANGED vars
  <2>1. TypeOK /\ RetryInv /\ SendingInv /\ DeliveryInv
    BY InvGroups
  <2>2. TypeOK' /\ RetryInv'
    BY <1>9, <2>1 DEF vars, database, handlers, delivery, TypeOK, RetryInv
  <2>3. SendingInv'
    BY <1>9, <2>1, QuietStep DEF vars, database, handlers, Quiet
  <2>4. DeliveryInv'
    BY <1>9, <2>1, DeliveryFrame DEF vars, delivery
  <2> QED BY <2>2, <2>3, <2>4, InvGroupsPrime
<1> QED
  BY <1>1, <1>2, <1>3, <1>4, <1>5, <1>6, <1>7, <1>8, <1>9 DEF Next, HandlerStep

(* Whatever the processes, clients and failures do, PipelineInv holds.     *)
THEOREM PipelineInvariant == Spec => []PipelineInv
BY InitInv, NextInv, PTL DEF Spec

(* Type correctness; with it the client library never sends more PUBLISH   *)
(* commands for a frame than its limit.                                    *)
THEOREM TypeCorrect == Spec => []TypeOK
<1>1. PipelineInv => TypeOK
  BY DEF PipelineInv
<1> QED BY <1>1, PipelineInvariant, PTL

(* No reply on the channel before its question, no question again after it. *)
THEOREM RepliesFollowQuestions == Spec => []QuestionBeforeReply
<1>1. PipelineInv => QuestionBeforeReply
  BY DEF PipelineInv
<1> QED BY <1>1, PipelineInvariant, PTL

(* No reply is stored to a question that Redis has not taken.              *)
THEOREM NoReplyUnasked == Spec => []ReplyNeedsPublishedQuestion
<1>1. PipelineInv => ReplyNeedsPublishedQuestion
  BY DEF PipelineInv
<1> QED BY <1>1, PipelineInvariant, PTL

(* A message is published twice over or reported once, never neither.      *)
THEOREM OutcomeIsKnown == Spec => []SenderLearnsOutcome
<1>1. PipelineInv => SenderLearnsOutcome
  BY DEF PipelineInv
<1> QED BY <1>1, PipelineInvariant, PTL

(* A message reported as saved was saved.                                  *)
THEOREM SavedIsSaved == Spec => []SavedWhenToldSo
<1>1. PipelineInv => SavedWhenToldSo
  BY DEF PipelineInv
<1> QED BY <1>1, PipelineInvariant, PTL

(* A deleted conversation has no messages.                                 *)
THEOREM NoOrphans == Spec => []NoOrphanMessage
<1>1. PipelineInv => NoOrphanMessage
  BY DEF PipelineInv
<1> QED BY <1>1, PipelineInvariant, PTL

-----------------------------------------------------------------------------
(* Refinement.                                                             *)

(* A handler saves before it posts, and posts what it saved.               *)
LEMMA HandlerImplements ==
  ASSUME PipelineInv, NEW s \in Socket,
         InsertFails(s) \/ Commit(s) \/ CommitFails(s) \/ Publish(s) \/ PublishFails(s)
  PROVE  [Clients!Next]_<<committed, published, delivered>>
<1> USE DEF database, delivery
<1>1. CASE UNCHANGED <<committed, published, delivered>>
  BY <1>1
<1>2. CASE phase[s] = "committing" /\ MakeDurable(s) /\ UNCHANGED <<published, delivered>>
  <2>1. Working(s) \in Message
    BY <1>2, WorkingMessage DEF PipelineInv, IsWorking
  <2>2. Clients!Save(Working(s))
    BY <1>2 DEF MakeDurable, Clients!Save
  <2> QED BY <2>1, <2>2 DEF Clients!Next
<1>3. CASE phase[s] = "publishing" /\ Post(s) /\ UNCHANGED committed
  <2>1. Working(s) \in Message /\ Working(s) \in committed
    BY <1>3, WorkingMessage DEF PipelineInv, HandlerInv, IsWorking
  <2>2. Clients!Post(Working(s))
    BY <1>3, <2>1 DEF Post, Clients!Post
  <2> QED BY <2>1, <2>2 DEF Clients!Next
<1> QED
  BY <1>1, <1>2, <1>3 DEF InsertFails, Commit, CommitFails, Publish, PublishFails

(* A broadcast sends a socket a frame of the channel later than all that   *)
(* it has been sent before.                                                *)
LEMMA SendImplements ==
  ASSUME PipelineInv, NEW p \in Process, NEW s \in Socket, Send(p, s)
  PROVE  [Clients!Next]_<<committed, published, delivered>>
<1> USE DEF database, handlers
<1>1. CASE delivered' = [delivered EXCEPT ![s] = Append(@, current[p])]
  <2>1. Home[s] = p /\ current[p] > 0 /\ current[p] <= Len(published) /\ Behind(p, s)
    BY DEF PipelineInv, DeliveryInv, Ordered, Send
  <2>2. current[p] \in DOMAIN published
    BY <2>1 DEF PipelineInv, TypeOK
  <2>3. \A j \in DOMAIN delivered[s] : delivered[s][j] < current[p]
    BY <2>1 DEF Behind, Send
  <2>4. Clients!See(s, current[p])
    BY <1>1, <2>3 DEF Clients!See, Send
  <2> QED BY <2>2, <2>4 DEF Clients!Next
<1>2. CASE UNCHANGED <<committed, published, delivered>>
  BY <1>2
<1> QED BY <1>1, <1>2 DEF Send

(* ChatPipeline implements Feed: clients see saved messages only, each     *)
(* posting at most once and in the order of the channel, on every process. *)
THEOREM ClientsSeeFeed == Spec => ImplementsFeed
<1>1. Init => Clients!Init
  BY DEF Init, Clients!Init
<1>2. PipelineInv /\ [Next]_vars => [Clients!Next]_<<committed, published, delivered>>
  <2> SUFFICES ASSUME PipelineInv, [Next]_vars
               PROVE  [Clients!Next]_<<committed, published, delivered>>
    OBVIOUS
  <2>1. ASSUME NEW s \in Socket,
               InsertFails(s) \/ Commit(s) \/ CommitFails(s) \/ Publish(s) \/ PublishFails(s)
        PROVE  [Clients!Next]_<<committed, published, delivered>>
    BY <2>1, HandlerImplements
  <2>2. ASSUME NEW p \in Process, NEW s \in Socket, Send(p, s)
        PROVE  [Clients!Next]_<<committed, published, delivered>>
    BY <2>2, SendImplements
  <2>3. CASE UNCHANGED <<committed, published, delivered>>
    BY <2>3
  <2> QED
    BY <2>1, <2>2, <2>3
    DEF Next, HandlerStep, vars, database, handlers, delivery, Join, ReceiveSend, Disconnect,
      Insert, Vanish, FeedUp, FeedLost, FeedFails, Cancel, Take, Crash, DeleteConversation
<1> QED
  BY <1>1, <1>2, PipelineInvariant, PTL DEF Spec, ImplementsFeed, Clients!Spec

-----------------------------------------------------------------------------
(* The broadcasts of a process.                                            *)

(* A frame in hand is a frame that has still to go to somebody.            *)
BroadcastInHand == \A p \in Process : current[p] # 0 <=> pending[p] # {}

LEMMA BroadcastStep ==
  ASSUME PipelineInv, PipelineInv', BroadcastInHand, [Next]_vars
  PROVE  BroadcastInHand'
<1> USE DEF BroadcastInHand, database, handlers, delivery
<1>1. TypeOK /\ TypeOK' /\ \A p \in Process : Ordered(p)
  BY DEF PipelineInv, DeliveryInv
<1>2. ASSUME NEW p \in Process, Take(p) PROVE BroadcastInHand'
  <2>1. /\ inbox[p] \in Seq(Nat) /\ inbox[p] # <<>>
        /\ current' = [current EXCEPT ![p] = IF Connected(p) = {} THEN 0 ELSE Head(inbox[p])]
        /\ pending' = [pending EXCEPT ![p] = Connected(p)]
    BY <1>1, <1>2 DEF Take, TypeOK
  <2>2. Head(inbox[p]) > 0
    <3>1. 1 \in DOMAIN inbox[p] /\ Head(inbox[p]) = inbox[p][1] /\ inbox[p][1] \in Nat
      BY <2>1
    <3>2. current[p] < inbox[p][1] /\ current[p] \in Nat
      BY <1>1, <3>1 DEF Ordered, TypeOK
    <3> QED  BY <3>1, <3>2
  <2>3. current \in [Process -> Nat] /\ pending \in [Process -> SUBSET Socket]
    BY <1>1 DEF TypeOK
  <2> QED  BY <2>1, <2>2, <2>3
<1>3. ASSUME NEW p \in Process, NEW s \in Socket, Send(p, s) PROVE BroadcastInHand'
  <2>1. /\ s \in pending[p] /\ pending' = [pending EXCEPT ![p] = @ \ {s}]
        /\ current' = IF pending[p] = {s} THEN [current EXCEPT ![p] = 0] ELSE current
    BY <1>3 DEF Send
  <2>2. pending[p] \ {s} = {} <=> pending[p] = {s}
    BY <2>1
  <2> QED  BY <1>1, <2>1, <2>2 DEF TypeOK
<1>4. ASSUME NEW p \in Process, Cancel(p) \/ Crash(p) PROVE BroadcastInHand'
  BY <1>1, <1>4 DEF Cancel, Crash, TypeOK
<1>5. CASE UNCHANGED <<current, pending>>
  BY <1>5
<1> QED
  BY <1>2, <1>3, <1>4, <1>5
  DEF Next, HandlerStep, vars, Join, ReceiveSend, Disconnect, Insert, InsertFails, Commit,
    CommitFails, Publish, PublishFails, Post, Vanish, FeedUp, FeedLost, FeedFails,
    DeleteConversation

(* No broadcast is stuck: a process with a frame in hand has a socket left *)
(* to send it to, and one with none is free to take the next.              *)
THEOREM BroadcastsEnd == Spec => []BroadcastInHand
<1>1. Init => BroadcastInHand
  BY DEF Init, BroadcastInHand
<1>2. PipelineInv /\ PipelineInv' /\ BroadcastInHand /\ [Next]_vars => BroadcastInHand'
  BY BroadcastStep
<1> QED
  BY <1>1, <1>2, PipelineInvariant, PTL DEF Spec

(* What the listener of a process may do in one step.                      *)
ListenerStep(p) ==
  \/ Broadcasts!Idle(p) \/ Broadcasts!Hear(p) \/ Broadcasts!FallSilent(p)
  \/ Broadcasts!Take(p) \/ Broadcasts!Send(p)

LEMMA TaskListens ==
  ASSUME PipelineInv, PipelineInv', BroadcastInHand, BroadcastInHand',
         NEW p \in Process, NEW q \in Process,
         \/ FeedUp(q) \/ FeedLost(q) \/ FeedFails(q) \/ Cancel(q) \/ Crash(q)
         \/ Take(q) \/ \E s \in Socket : Send(q, s)
  PROVE  ListenerStep(p)
<1> USE DEF ListenerStep, BroadcastInHand, Hearing
<1>1. TypeOK /\ TypeOK'
  BY DEF PipelineInv
<1>2. CASE p # q
  <2>1. /\ p \in feed' <=> p \in feed
        /\ inbox'[p] = inbox[p] /\ current'[p] = current[p] /\ pending'[p] = pending[p]
    BY <1>1, <1>2
    DEF FeedUp, FeedLost, FeedFails, Cancel, Crash, Take, Send, TypeOK
  <2> QED  BY <2>1 DEF Broadcasts!Idle
<1>3. CASE p = q
  <2>1. CASE FeedUp(p)
    BY <1>1, <2>1 DEF FeedUp, Broadcasts!Hear, TypeOK
  <2>2. CASE FeedLost(p)
    BY <1>1, <2>2 DEF FeedLost, Broadcasts!Idle, Broadcasts!FallSilent, TypeOK
  <2>3. CASE FeedFails(p) \/ Cancel(p) \/ Crash(p)
    BY <1>1, <2>3 DEF FeedFails, Cancel, Crash, Broadcasts!FallSilent, TypeOK
  <2>4. CASE Take(p)
    <3>1. /\ p \in Hearing /\ pending[p] = {} /\ pending'[p] = Connected(p)
          /\ p \notin Hearing' => pending'[p] = {}
      BY <1>1, <2>4 DEF Take, TypeOK
    <3>2. Connected(p) = {s \in Members : Home[s] = p}
      BY DEF Connected, Members
    <3> QED  BY <3>1, <3>2 DEF Broadcasts!Take, Broadcasts!FallSilent
  <2>5. ASSUME NEW s \in Socket, Send(p, s) PROVE ListenerStep(p)
    <3>1. /\ s \in pending[p] /\ pending'[p] = pending[p] \ {s}
          /\ p \in Hearing /\ (p \notin Hearing' => pending'[p] = {})
      BY <1>1, <2>5 DEF Send, TypeOK
    <3> QED  BY <3>1 DEF Broadcasts!Send, Broadcasts!FallSilent
  <2> QED  BY <1>3, <2>1, <2>2, <2>3, <2>4, <2>5
<1> QED  BY <1>2, <1>3

(* A PUBLISH puts its frame only into the buffers of those that hear.      *)
LEMMA PostListens ==
  ASSUME PipelineInv, NEW p \in Process, NEW s \in Socket, Working(s) \in Message, Post(s)
  PROVE  ListenerStep(p)
<1> USE DEF Hearing
<1>1. TypeOK
  BY DEF PipelineInv
<1>2. /\ UNCHANGED <<feed, current, pending>>
      /\ p \notin feed => inbox'[p] = inbox[p]
  BY <1>1 DEF Post
<1>3. p \in Hearing' <=> p \in Hearing
  BY <1>2
<1> QED  BY <1>2, <1>3 DEF ListenerStep, Broadcasts!Idle

LEMMA ListenerNext ==
  ASSUME PipelineInv, PipelineInv', BroadcastInHand, BroadcastInHand', [Next]_vars
  PROVE  [Broadcasts!Next]_<<Members, Hearing, pending>>
<1> USE DEF database, handlers, delivery
<1>1. ASSUME NEW p \in Process PROVE ListenerStep(p)
  <2>1. ASSUME NEW q \in Process,
               \/ FeedUp(q) \/ FeedLost(q) \/ FeedFails(q) \/ Cancel(q) \/ Crash(q)
               \/ Take(q) \/ \E s \in Socket : Send(q, s)
        PROVE  ListenerStep(p)
    BY <2>1, TaskListens
  <2>2. ASSUME NEW s \in Socket, Publish(s) \/ PublishFails(s), Post(s)
        PROVE  ListenerStep(p)
    <3>1. Working(s) \in Message
      BY <2>2, WorkingMessage DEF PipelineInv, Publish, PublishFails, IsWorking
    <3> QED  BY <2>2, <3>1, PostListens
  <2>3. CASE UNCHANGED <<feed, inbox, current, pending>>
    BY <2>3 DEF ListenerStep, Hearing, Broadcasts!Idle
  <2> QED
    BY <2>1, <2>2, <2>3
    DEF Next, HandlerStep, vars, Join, ReceiveSend, Disconnect, Insert, InsertFails, Commit,
      CommitFails, Publish, PublishFails, Vanish, DeleteConversation
<1>2. /\ Members' \in SUBSET Socket /\ Hearing' \in SUBSET Process
      /\ pending' \in [Process -> SUBSET Socket]
  BY DEF PipelineInv, TypeOK, Members, Hearing
<1> QED  BY <1>1, <1>2 DEF Broadcasts!Next, ListenerStep

(* The task of each process broadcasts as Listener says: what the pipeline *)
(* takes for granted of a subscription is what SubscriptionLifecycle keeps *)
(* (theorem OneListener), and the two modules speak of one interface.      *)
THEOREM ProcessesListen == Spec => ImplementsListener
<1>1. Init => Broadcasts!Init
  BY DEF Init, Broadcasts!Init, Members, Hearing, Connected
<1>2. /\ PipelineInv /\ PipelineInv' /\ BroadcastInHand /\ BroadcastInHand' /\ [Next]_vars
      => [Broadcasts!Next]_<<Members, Hearing, pending>>
  BY ListenerNext
<1> QED
  BY <1>1, <1>2, PipelineInvariant, BroadcastsEnd, PTL
  DEF Spec, ImplementsListener, Broadcasts!Spec, Broadcasts!vars

-----------------------------------------------------------------------------
(* How often a message can appear on the channel.                          *)

Copies(m) == {i \in DOMAIN published : published[i] = m}

(* PUBLISH is sent at most Attempts times for a frame, and a message is    *)
(* published in one go: nothing of it is on the channel before.            *)
CopiesAreBounded ==
  \A m \in Message : Cardinality(Copies(m)) <= Attempts

CopiesInv ==
  /\ CopiesAreBounded
  /\ \A s \in Socket :
       /\ phase[s] = "publishing" => Cardinality(Copies(Working(s))) <= tries[s]
       /\ phase[s] \in {"inserting", "committing"} => Copies(Working(s)) = {}

LEMMA CopiesFinite ==
  ASSUME TypeOK, NEW m
  PROVE  IsFiniteSet(Copies(m)) /\ Cardinality(Copies(m)) \in Nat
<1>1. Copies(m) \subseteq 1..Len(published) /\ Len(published) \in Nat
  BY DEF TypeOK, Copies
<1>2. IsFiniteSet(1..Len(published))
  BY <1>1, FS_Interval
<1>3. IsFiniteSet(Copies(m))
  BY <1>1, <1>2, FS_Subset
<1> QED  BY <1>3, FS_CardinalityType

LEMMA PostCopies ==
  ASSUME TypeOK, NEW s \in Socket, NEW w \in Message, w = Working(s), Post(s)
  PROVE  /\ Cardinality(Copies(w)') = Cardinality(Copies(w)) + 1
         /\ \A m : m # w => Copies(m)' = Copies(m)
<1>1. PICK last :
        /\ DOMAIN published' = DOMAIN published \cup {last} /\ last \notin DOMAIN published
        /\ \A i \in DOMAIN published : published'[i] = published[i]
        /\ published'[last] = w
  <2>1. /\ DOMAIN published = 1..Len(published) /\ Len(published) \in Nat
        /\ DOMAIN published' = DOMAIN published \cup {Len(published) + 1}
        /\ \A i \in DOMAIN published : published'[i] = published[i]
        /\ published'[Len(published) + 1] = w
    BY PostStep
  <2>2. Len(published) + 1 \notin DOMAIN published
    BY <2>1
  <2> QED  BY <2>1, <2>2
<1>2. Copies(w)' = Copies(w) \cup {last}
  BY <1>1 DEF Copies
<1>3. last \notin Copies(w)
  BY <1>1 DEF Copies
<1>4. Cardinality(Copies(w) \cup {last}) = Cardinality(Copies(w)) + 1
  BY <1>3, CopiesFinite, FS_AddElement
<1>5. \A m : m # w => Copies(m)' = Copies(m)
  BY <1>1 DEF Copies
<1> QED  BY <1>2, <1>4, <1>5

(* A handler that publishes nothing: it goes on with its message, or takes *)
(* up one that is not on the channel yet.                                  *)
LEMMA UnpublishedStep ==
  ASSUME PipelineInv, CopiesInv, UNCHANGED published,
         \A s \in Socket :
           /\ phase'[s] = "publishing" =>
                /\ Working(s)' = Working(s)
                /\ \/ phase[s] = "publishing" /\ tries'[s] \in {tries[s], tries[s] + 1}
                   \/ phase[s] = "committing" /\ tries'[s] = 0
           /\ phase'[s] \in {"inserting", "committing"} =>
                \/ phase[s] \in {"inserting", "committing"} /\ Working(s)' = Working(s)
                \/ Copies(Working(s)') = {}
  PROVE  CopiesInv'
<1>1. TypeOK /\ HandlerInv
  BY DEF PipelineInv
<1>2. \A m : Copies(m)' = Copies(m) /\ Cardinality(Copies(m)) \in Nat
  <2>1. \A m : Copies(m)' = Copies(m)
    BY DEF Copies
  <2> QED  BY <1>1, <2>1, CopiesFinite
<1>3. CopiesAreBounded'
  BY <1>2 DEF CopiesInv, CopiesAreBounded
<1>4. ASSUME NEW s \in Socket, phase'[s] = "publishing"
      PROVE  Cardinality(Copies(Working(s)))' <= tries'[s]
  <2>1. Copies(Working(s))' = Copies(Working(s)) /\ tries[s] \in Nat
    BY <1>1, <1>4, AttemptsAssumption DEF Copies, TypeOK
  <2>2. CASE phase[s] = "publishing"
    BY <1>2, <1>4, <2>1, <2>2 DEF CopiesInv
  <2>3. CASE phase[s] = "committing" /\ tries'[s] = 0
    <3>1. Copies(Working(s)) = {}
      BY <2>3 DEF CopiesInv
    <3> QED  BY <2>1, <2>3, <3>1, FS_EmptySet
  <2> QED  BY <1>4, <2>2, <2>3
<1>5. ASSUME NEW s \in Socket, phase'[s] \in {"inserting", "committing"}
      PROVE  Copies(Working(s))' = {}
  BY <1>5 DEF CopiesInv, Copies
<1> QED  BY <1>3, <1>4, <1>5 DEF CopiesInv

(* One PUBLISH of handler s that Redis took.                               *)
LEMMA PublishedStep ==
  ASSUME PipelineInv, CopiesInv, NEW s \in Socket, phase[s] = "publishing", Post(s),
         UNCHANGED sends,
         \A t \in Socket \ {s} :
           phase'[t] = phase[t] /\ tries'[t] = tries[t] /\ role'[t] = role[t],
         phase'[s] = "publishing" => role'[s] = role[s] /\ tries'[s] = tries[s] + 1,
         phase'[s] = "inserting" => role[s] = "user" /\ role'[s] = "assistant",
         phase'[s] # "committing"
  PROVE  CopiesInv'
<1> DEFINE w == Working(s)
<1>1. TypeOK /\ HandlerInv /\ ChannelInv /\ RetryInv
  BY DEF PipelineInv
<1>2. w \in Message /\ w.from = s /\ w.n = sends[s] /\ w.role = role[s]
  BY <1>1, WorkingMessage DEF IsWorking, Working
<1>3. /\ Cardinality(Copies(w)) <= tries[s] /\ tries[s] < Attempts
      /\ tries[s] \in Nat /\ Attempts \in Nat /\ Cardinality(Copies(w)) \in Nat
  BY <1>1, CopiesFinite, AttemptsAssumption DEF CopiesInv, RetryInv, TypeOK
<1> HIDE DEF w
<1>4. ASSUME NEW m \in Message
      PROVE  /\ m = w => Cardinality(Copies(m)') = Cardinality(Copies(w)) + 1
             /\ m # w => Copies(m)' = Copies(m)
  <2>1. w = Working(s)
    BY DEF w
  <2> QED  BY <1>1, <1>2, <2>1, PostCopies
<1>5. CopiesAreBounded'
  <2>1. ASSUME NEW m \in Message PROVE Cardinality(Copies(m)') <= Attempts
    <3>1. CASE m = w
      BY <1>3, <1>4, <3>1
    <3>2. CASE m # w
      BY <1>4, <3>2 DEF CopiesInv, CopiesAreBounded
    <3> QED  BY <3>1, <3>2
  <2> QED  BY <2>1 DEF CopiesAreBounded
<1>6. ASSUME NEW t \in Socket \ {s}, IsWorking(t)
      PROVE  Copies(Working(t))' = Copies(Working(t))
  <2>1. Working(t) \in Message /\ Working(t).from = t /\ Working(t)' = Working(t)
    BY <1>1, <1>6, WorkingMessage DEF Working
  <2>2. Working(t) # w
    BY <1>2, <2>1
  <2>3. Copies(Working(t))' = {i \in DOMAIN published' : published'[i] = Working(t)}
    BY <2>1 DEF Copies
  <2>4. \A m \in Message : m # w => {i \in DOMAIN published' : published'[i] = m} = Copies(m)
    BY <1>4 DEF Copies
  <2> QED  BY <2>1, <2>2, <2>3, <2>4
<1>7. ASSUME NEW t \in Socket \ {s}
      PROVE  /\ phase'[t] = "publishing" => Cardinality(Copies(Working(t)))' <= tries'[t]
             /\ phase'[t] \in {"inserting", "committing"} => Copies(Working(t))' = {}
  BY <1>6 DEF CopiesInv, IsWorking
<1>8. ASSUME phase'[s] = "publishing"
      PROVE  Cardinality(Copies(Working(s)))' <= tries'[s]
  <2>1. Copies(Working(s))' = {i \in DOMAIN published' : published'[i] = w}
    BY <1>8 DEF Copies, Working, w
  <2>2. Cardinality({i \in DOMAIN published' : published'[i] = w}) = Cardinality(Copies(w)) + 1
    BY <1>2, <1>4 DEF Copies
  <2> QED  BY <1>3, <1>8, <2>1, <2>2
<1>9. ASSUME phase'[s] = "inserting"
      PROVE  Copies(Working(s))' = {}
  <2> SUFFICES ASSUME NEW i \in DOMAIN published', published'[i] = Working(s)' PROVE FALSE
    BY DEF Copies
  <2>1. Working(s)' = [from |-> s, n |-> sends[s], role |-> "assistant"]
    BY <1>9 DEF Working
  <2>2. i \notin DOMAIN published
    <3> SUFFICES ASSUME i \in DOMAIN published PROVE FALSE
      OBVIOUS
    <3>1. published[i] = published'[i]
      BY <1>1, <1>2, PostStep DEF w
    <3> QED  BY <1>1, <1>9, <2>1, <3>1 DEF ChannelInv
  <2>3. published'[i] = w
    BY <1>1, <1>2, <2>2, PostStep DEF w
  <2> QED  BY <1>2, <1>9, <2>1, <2>3
<1> QED
  BY <1>5, <1>7, <1>8, <1>9 DEF CopiesInv

LEMMA CopiesStep ==
  ASSUME PipelineInv, CopiesInv, [Next]_vars
  PROVE  CopiesInv'
<1> USE DEF database, handlers, delivery, Goto
<1>1. TypeOK /\ HandlerInv /\ ChannelInv
  BY DEF PipelineInv
<1>2. ASSUME NEW s \in Socket,
             \/ Join(s) \/ Disconnect(s) \/ Insert(s) \/ Vanish(s)
             \/ InsertFails(s) \/ Commit(s) \/ CommitFails(s)
      PROVE  CopiesInv'
  BY <1>1, <1>2, UnpublishedStep
  DEF Join, Disconnect, Insert, Vanish, InsertFails, Commit, CommitFails, Report, Working,
    TypeOK
<1>3. ASSUME NEW s \in Socket, ReceiveSend(s) PROVE CopiesInv'
  <2>1. Copies(Working(s)') = {}
    <3> SUFFICES ASSUME NEW i \in DOMAIN published, published[i] = Working(s)' PROVE FALSE
      BY DEF Copies
    <3>1. published[i].from = s /\ published[i].n = sends[s] + 1
      BY <1>1, <1>3 DEF ReceiveSend, Working, TypeOK
    <3>2. sends[s] \in Nat
      BY <1>1, MaxSendsAssumption DEF TypeOK
    <3> QED  BY <1>1, <3>1, <3>2 DEF ChannelInv
  <2> QED
    BY <1>1, <1>3, <2>1, UnpublishedStep DEF ReceiveSend, Working, TypeOK
<1>4. ASSUME NEW s \in Socket, PublishFails(s), UNCHANGED published PROVE CopiesInv'
  BY <1>1, <1>4, UnpublishedStep
  DEF PublishFails, GiveUp, Report, Working, TypeOK
<1>5. ASSUME NEW s \in Socket, Publish(s) \/ PublishFails(s), Post(s) PROVE CopiesInv'
  BY <1>1, <1>5, PublishedStep DEF Publish, PublishFails, GiveUp, Report, TypeOK
<1>6. ASSUME NEW p \in Process,
             \/ FeedUp(p) \/ FeedLost(p) \/ FeedFails(p) \/ Cancel(p) \/ Crash(p)
             \/ Take(p) \/ \E s \in Socket : Send(p, s)
      PROVE  CopiesInv'
  BY <1>1, <1>6, UnpublishedStep
  DEF FeedUp, FeedLost, FeedFails, Cancel, Crash, Take, Send, Working
<1>7. CASE DeleteConversation \/ UNCHANGED vars
  BY <1>1, <1>7, UnpublishedStep DEF DeleteConversation, vars, Working
<1> QED
  BY <1>2, <1>3, <1>4, <1>5, <1>6, <1>7 DEF Next, HandlerStep, Publish, PublishFails

LEMMA CopiesInvariant == Spec => []CopiesInv
<1>1. Init => CopiesInv
  <2> SUFFICES ASSUME Init PROVE CopiesInv
    OBVIOUS
  <2>1. \A m : Copies(m) = {}
    BY DEF Init, Copies
  <2>2. \A m : Cardinality(Copies(m)) = 0
    BY <2>1, FS_EmptySet
  <2>3. \A s \in Socket : phase[s] = "connecting"
    BY DEF Init
  <2> QED  BY <2>2, <2>3, AttemptsAssumption DEF CopiesInv, CopiesAreBounded
<1>2. PipelineInv /\ CopiesInv /\ [Next]_vars => CopiesInv'
  BY CopiesStep
<1> QED
  BY <1>1, <1>2, PipelineInvariant, PTL DEF Spec

(* However the client library retries and whatever became of its commands, *)
(* no message is on the channel more than Attempts times.                  *)
THEOREM CopiesBounded == Spec => []CopiesAreBounded
<1>1. CopiesInv => CopiesAreBounded
  BY DEF CopiesInv
<1> QED  BY <1>1, CopiesInvariant, PTL

-----------------------------------------------------------------------------
(* What a client sees of a message.                                        *)

SeenInv ==
  \A s \in Socket :
    /\ \A j \in DOMAIN delivered[s] : delivered[s][j] \in DOMAIN published
    /\ \A j, k \in DOMAIN delivered[s] : j < k => delivered[s][j] < delivered[s][k]

Showings(s, m) == {k \in DOMAIN delivered[s] : published[delivered[s][k]] = m}

(* However often its PUBLISH was sent again, nobody is sent a message more *)
(* than Attempts times.                                                    *)
ShowingsAreBounded ==
  \A s \in Socket : \A m \in Message : Cardinality(Showings(s, m)) <= Attempts

LEMMA SeenStep ==
  ASSUME PipelineInv, SeenInv, [Next]_vars
  PROVE  SeenInv'
<1> USE DEF database, handlers, delivery
<1>1. TypeOK /\ DeliveryInv
  BY DEF PipelineInv
<1>2. CASE UNCHANGED <<published, delivered>>
  BY <1>2 DEF SeenInv
<1>3. ASSUME NEW s \in Socket, Publish(s) \/ PublishFails(s), Post(s)
      PROVE  SeenInv'
  <2>1. Working(s) \in Message
    BY <1>1, <1>3, WorkingMessage DEF PipelineInv, Publish, PublishFails, IsWorking
  <2>2. DOMAIN published \subseteq DOMAIN published' /\ delivered' = delivered
    BY <1>1, <1>3, <2>1, PostStep DEF Post
  <2> QED  BY <2>2 DEF SeenInv
<1>4. ASSUME NEW p \in Process, NEW s \in Socket, Send(p, s)
      PROVE  SeenInv'
  <2>1. CASE delivered' = [delivered EXCEPT ![s] = Append(@, current[p])]
    <3>1. Home[s] = p /\ current[p] > 0 /\ current[p] <= Len(published)
      BY <1>1, <1>4 DEF DeliveryInv, Ordered, Send
    <3>2. \A j \in DOMAIN delivered[s] : delivered[s][j] < current[p]
      BY <1>1, <1>4, <3>1 DEF DeliveryInv, Behind, Send
    <3>3. current[p] \in DOMAIN published
      BY <1>1, <3>1 DEF TypeOK
    <3>4. /\ delivered[s] \in Seq(Nat) /\ current[p] \in Nat
          /\ delivered'[s] = Append(delivered[s], current[p])
          /\ \A t \in Socket \ {s} : delivered'[t] = delivered[t]
      BY <1>1, <1>4, <2>1 DEF TypeOK, Send
    <3>5. /\ DOMAIN delivered'[s] = DOMAIN delivered[s] \cup {Len(delivered[s]) + 1}
          /\ \A j \in DOMAIN delivered[s] : /\ delivered'[s][j] = delivered[s][j]
                                            /\ j \in Nat /\ j <= Len(delivered[s])
          /\ delivered'[s][Len(delivered[s]) + 1] = current[p]
          /\ Len(delivered[s]) \in Nat
      BY <3>4
    <3>6. published' = published
      BY <1>4 DEF Send
    <3>7. \A j, k \in DOMAIN delivered'[s] : j < k => j \in DOMAIN delivered[s]
      BY <3>5
    <3> QED  BY <3>2, <3>3, <3>4, <3>5, <3>6, <3>7 DEF SeenInv
  <2> QED  BY <1>2, <1>4, <2>1 DEF Send
<1> QED
  BY <1>2, <1>3, <1>4
  DEF Next, HandlerStep, vars, Join, ReceiveSend, Disconnect, Insert, InsertFails, Commit,
    CommitFails, Publish, PublishFails, Vanish, FeedUp, FeedLost, FeedFails, Cancel, Take,
    Crash, DeleteConversation

LEMMA ShowingsAreCopies ==
  ASSUME PipelineInv, CopiesInv, SeenInv, NEW s \in Socket, NEW m \in Message
  PROVE  Cardinality(Showings(s, m)) <= Attempts
<1> DEFINE S == Showings(s, m)
           f == [k \in S |-> delivered[s][k]]
<1>1. IsFiniteSet(Copies(m)) /\ Cardinality(Copies(m)) \in Nat
  BY CopiesFinite, FS_CardinalityType DEF PipelineInv
<1>2. Cardinality(Copies(m)) <= Attempts
  BY DEF CopiesInv, CopiesAreBounded
<1>3. f \in [S -> Copies(m)]
  BY DEF SeenInv, Copies, Showings
<1>4. ASSUME NEW j \in S, NEW k \in S, f[j] = f[k] PROVE j = k
  <2>1. /\ j \in DOMAIN delivered[s] /\ k \in DOMAIN delivered[s]
        /\ delivered[s][j] = delivered[s][k]
    BY <1>4 DEF Showings
  <2>2. j \in Nat /\ k \in Nat /\ delivered[s][j] \in Nat
    BY <2>1 DEF PipelineInv, TypeOK
  <2> QED  BY <2>1, <2>2 DEF SeenInv
<1>5. f \in Injection(S, Copies(m))
  BY <1>3, <1>4 DEF Injection, IsInjective
<1>6. IsFiniteSet(S) /\ Cardinality(S) <= Cardinality(Copies(m))
  <2> HIDE DEF S, f
  <2> QED  BY <1>1, <1>5, FS_Injection
<1>7. Cardinality(S) \in Nat
  BY <1>6, FS_CardinalityType
<1> QED  BY <1>1, <1>2, <1>6, <1>7, AttemptsAssumption

(* Duplicates are those of the Redis client's retries and no others: no    *)
(* path through the buffers and broadcasts shows a client a posting twice, *)
(* so that it is sent one message at most Attempts times.                  *)
THEOREM ShowingsBounded == Spec => []ShowingsAreBounded
<1>1. Init => SeenInv
  BY DEF Init, SeenInv
<1>2. PipelineInv /\ SeenInv /\ [Next]_vars => SeenInv'
  BY SeenStep
<1>3. PipelineInv /\ CopiesInv /\ SeenInv => ShowingsAreBounded
  BY ShowingsAreCopies DEF ShowingsAreBounded
<1> QED
  BY <1>1, <1>2, <1>3, PipelineInvariant, CopiesInvariant, PTL DEF Spec

-----------------------------------------------------------------------------
(* What becomes of a frame on its way to a socket.                         *)

(* Frame i is buffered for the process of s, or in hand with s to be sent. *)
Due(s, i) ==
  LET p == Home[s] IN
  \/ \E k \in DOMAIN inbox[p] : inbox[p][k] = i
  \/ current[p] = i /\ s \in pending[p]

Sent(s, i) == \E k \in DOMAIN delivered[s] : delivered[s][k] = i

(* What excuses a process from sending s a frame it had for it.            *)
Excused(s) == s \notin alive \/ phase[s] = "gone" \/ Home[s] \notin feed

(* The safety half of FrameArrives: no step loses a frame that is due to a *)
(* connected socket, whatever becomes of the other sockets of the process. *)
NothingSkipped ==
  \A s \in Socket : \A i \in Nat :
    Due(s, i) /\ s \in Connected(Home[s]) => Due(s, i)' \/ Sent(s, i)' \/ Excused(s)'

LEMMA SkipsNothing ==
  ASSUME PipelineInv, PipelineInv', BroadcastInHand, [Next]_vars,
         NEW s \in Socket, NEW i \in Nat, Due(s, i), s \in Connected(Home[s])
  PROVE  Due(s, i)' \/ Sent(s, i)' \/ Excused(s)'
<1> USE DEF database, handlers, delivery
<1> DEFINE p == Home[s]
<1>1. /\ TypeOK /\ p \in Process
      /\ phase[s] # "gone" /\ inbox[p] \in Seq(Nat) /\ current[p] \in Nat
  BY HomeAssumption DEF PipelineInv, TypeOK, Connected
<1>2. CASE UNCHANGED <<inbox, current, pending>>
  BY <1>2 DEF Due
<1>3. ASSUME NEW t \in Socket, Publish(t) \/ PublishFails(t), Post(t)
      PROVE  Due(s, i)'
  <2>1. /\ UNCHANGED <<current, pending>>
        /\ inbox'[p] = inbox[p] \/ inbox'[p] = Append(inbox[p], Len(published) + 1)
    BY <1>1, <1>3 DEF Post
  <2>2. Len(published) + 1 \in Nat
    BY <1>1 DEF TypeOK
  <2>3. \A k \in DOMAIN inbox[p] : k \in DOMAIN inbox'[p] /\ inbox'[p][k] = inbox[p][k]
    <3>1. CASE inbox'[p] = inbox[p]
      BY <3>1
    <3>2. CASE inbox'[p] = Append(inbox[p], Len(published) + 1)
      BY <1>1, <2>2, <3>2
    <3> QED  BY <2>1, <3>1, <3>2
  <2> QED  BY <2>1, <2>3 DEF Due
<1>4. ASSUME NEW q \in Process, q # p,
             \/ FeedFails(q) \/ Cancel(q) \/ Crash(q) \/ Take(q)
             \/ \E t \in Socket : Send(q, t)
      PROVE  Due(s, i)'
  <2>1. inbox'[p] = inbox[p] /\ current'[p] = current[p] /\ pending'[p] = pending[p]
    BY <1>1, <1>4 DEF FeedFails, Cancel, Crash, Take, Send, TypeOK
  <2> QED  BY <2>1 DEF Due
<1>5. CASE FeedFails(p) \/ Cancel(p) \/ Crash(p)
  BY <1>5 DEF FeedFails, Cancel, Crash, Excused
<1>6. CASE Take(p)
  <2>1. /\ inbox[p] # <<>> /\ inbox'[p] = Tail(inbox[p])
        /\ current'[p] = Head(inbox[p]) /\ s \in pending'[p] /\ pending[p] = {}
    BY <1>1, <1>6 DEF Take, TypeOK, BroadcastInHand
  <2>2. PICK k \in DOMAIN inbox[p] : inbox[p][k] = i
    BY <2>1 DEF Due
  <2>3. CASE k = 1
    BY <1>1, <2>1, <2>2, <2>3 DEF Due
  <2>4. CASE k # 1
    <3>1. k - 1 \in DOMAIN inbox'[p] /\ inbox'[p][k - 1] = inbox[p][k]
      BY <1>1, <2>1, <2>4
    <3> QED  BY <2>2, <3>1 DEF Due
  <2> QED  BY <2>3, <2>4
<1>7. ASSUME NEW t \in Socket, Send(p, t)
      PROVE  Due(s, i)' \/ Sent(s, i)' \/ Excused(s)'
  <2>1. /\ inbox' = inbox /\ phase' = phase /\ alive' = alive
        /\ t \in pending[p] /\ pending'[p] = pending[p] \ {t}
        /\ pending[p] # {t} => current'[p] = current[p]
    BY <1>1, <1>7 DEF Send, TypeOK
  <2>2. CASE t # s
    BY <2>1, <2>2 DEF Due
  <2>3. CASE t = s /\ s \in alive
    <3>1. delivered'[s] = Append(delivered[s], current[p]) /\ delivered[s] \in Seq(Nat)
      BY <1>1, <1>7, <2>3 DEF Send, TypeOK
    <3>2. /\ Len(delivered[s]) + 1 \in DOMAIN delivered'[s]
          /\ delivered'[s][Len(delivered[s]) + 1] = current[p]
      BY <1>1, <3>1
    <3> QED  BY <2>1, <3>2 DEF Due, Sent
  <2>4. CASE t = s /\ s \notin alive
    BY <2>1, <2>4 DEF Excused
  <2> QED  BY <2>2, <2>3, <2>4
<1> QED
  BY <1>2, <1>3, <1>4, <1>5, <1>6, <1>7
  DEF Next, HandlerStep, vars, Join, ReceiveSend, Disconnect, Insert, InsertFails, Commit,
    CommitFails, Publish, PublishFails, Vanish, FeedUp, FeedLost, DeleteConversation

(* The broadcast goes on past the sockets whose send fails, and a process  *)
(* drops what it has buffered only when its subscription is gone: a frame  *)
(* that is due to a socket stays due until it is sent or is excused.       *)
THEOREM NoFrameIsSkipped == Spec => [][NothingSkipped]_vars
<1>1. PipelineInv /\ PipelineInv' /\ BroadcastInHand /\ [Next]_vars => NothingSkipped
  BY SkipsNothing DEF NothingSkipped
<1> QED
  BY <1>1, PipelineInvariant, BroadcastsEnd, PTL DEF Spec

=============================================================================
