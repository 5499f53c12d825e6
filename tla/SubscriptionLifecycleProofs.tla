-------------------- MODULE SubscriptionLifecycleProofs --------------------
(***************************************************************************)
(* Safety of SubscriptionLifecycle for every set of sockets, conversations *)
(* and subscription identities.                                            *)
(*                                                                         *)
(* LifecycleInv is inductive.  Its conjuncts fall into two groups: TaskInv *)
(* relates the subscription table to the tasks, HandlerInv relates both to *)
(* the endpoint handlers.  A step of a handler that touches neither table  *)
(* nor tasks keeps TaskInv by TaskFrame; a step of a task that touches     *)
(* neither tables nor handlers keeps HandlerInv by HandlerFrame.           *)
(***************************************************************************)
EXTENDS SubscriptionLifecycle, TLAPS

TaskInv ==
  /\ RegisteredIsAlive
  /\ OneTaskPerConversation
  /\ ReadyIsListening
  /\ StopLeavesNothingRunning
  /\ CancelIsInProgress

HandlerInv ==
  /\ ConnectionsAreAttached
  /\ NoOrphanSubscription
  /\ CancelledIsAwaited

LEMMA TaskFrame ==
  ASSUME TaskInv,
         UNCHANGED <<subscriptions, task, serves, cancelled, ready, lifespan,
                     draining>>
  PROVE  TaskInv'
  BY DEF TaskInv, RegisteredIsAlive, OneTaskPerConversation, ReadyIsListening,
    StopLeavesNothingRunning, CancelIsInProgress, Alive

LEMMA HandlerFrame ==
  ASSUME HandlerInv,
         connections' \subseteq connections,
         cancelled' \subseteq cancelled,
         UNCHANGED <<subscriptions, endpoint, awaits, draining>>
  PROVE  HandlerInv'
  BY DEF HandlerInv, ConnectionsAreAttached, NoOrphanSubscription,
    CancelledIsAwaited, Attached

LEMMA InvGroups == LifecycleInv <=> TypeOK /\ TaskInv /\ HandlerInv
  BY DEF LifecycleInv, TaskInv, HandlerInv

LEMMA InvGroupsPrime == LifecycleInv' <=> TypeOK' /\ TaskInv' /\ HandlerInv'
  BY DEF LifecycleInv, TaskInv, HandlerInv

LEMMA InitInv == Init => LifecycleInv
<1> SUFFICES ASSUME Init PROVE LifecycleInv OBVIOUS
<1>1. TypeOK
  BY ConversationAssumption
  DEF Init, TypeOK, TaskPosition, EndpointPosition
<1>2. TaskInv
  BY DEF Init, TaskInv, RegisteredIsAlive, OneTaskPerConversation,
    ReadyIsListening, StopLeavesNothingRunning, CancelIsInProgress, Alive
<1>3. HandlerInv
  BY DEF Init, HandlerInv, ConnectionsAreAttached, NoOrphanSubscription,
    CancelledIsAwaited
<1> QED BY <1>1, <1>2, <1>3, InvGroups

-----------------------------------------------------------------------------
(* Steps of the endpoint handlers.                                         *)

(* A handler step that moves s alone, into or out of neither the attached  *)
(* positions nor an await that has not ended.                              *)
LEMMA QuietEndpointInv ==
  ASSUME NEW s \in Socket, LifecycleInv,
         \/ Admit(s) \/ AcceptFails(s) \/ Serve(s) \/ AbortEnds(s) \/ Close(s)
         \/ LeaveEnds(s)
  PROVE  LifecycleInv'
<1> USE DEF Admit, AcceptFails, Serve, AbortEnds, Close, LeaveEnds, Goto,
      loopVars, endpointVars, environment
<1>1. TypeOK /\ TaskInv /\ HandlerInv
  BY InvGroups
<1>2. TypeOK'
  BY <1>1 DEF TypeOK, EndpointPosition
<1>3. TaskInv'
  BY <1>1, TaskFrame
<1>4. HandlerInv'
  <2>1. \A t \in Socket : Attached(t)' <=> Attached(t)
    BY <1>1 DEF TypeOK, Attached
  <2>2. ConnectionsAreAttached'
    BY <1>1, <2>1 DEF TypeOK, HandlerInv, ConnectionsAreAttached
  <2>3. NoOrphanSubscription'
    BY <1>1, <2>1 DEF HandlerInv, NoOrphanSubscription
  <2>4. CancelledIsAwaited'
    <3>1. \A t \in Socket :
            /\ awaits[t] \in cancelled
            /\ endpoint[t] \in {"evicting", "aborting", "leaving"}
            => endpoint'[t] = endpoint[t] /\ awaits'[t] = awaits[t]
      BY <1>1 DEF TypeOK, TaskInv, CancelIsInProgress, Alive
    <3> QED BY <1>1, <3>1 DEF TypeOK, HandlerInv, CancelledIsAwaited
  <2> QED BY <2>2, <2>3, <2>4 DEF HandlerInv
<1> QED BY <1>2, <1>3, <1>4, InvGroupsPrime

(* The "task.done()" of subscribe_conversation never finds a finished task. *)
LEMMA EntryIsLive ==
  ASSUME TaskInv, NEW c \in Conversation, NeedsTask(c)
  PROVE  subscriptions[c] = NoSubscription
BY DEF TaskInv, RegisteredIsAlive, Alive, NeedsTask

LEMMA AcceptInv ==
  ASSUME NEW s \in Socket, LifecycleInv, Accept(s)
  PROVE  LifecycleInv'
<1> USE DEF Accept, Subscribe, SubscribeWhileStopping, MaySubscribe,
      JoinSubscription, CreateSubscription, Unused, IsSubscribed, Goto,
      loopVars, endpointVars, environment
<1>1. TypeOK /\ TaskInv /\ HandlerInv
  BY InvGroups
<1>2. TypeOK'
  BY <1>1, RoomAssumption DEF TypeOK, EndpointPosition, TaskPosition
<1>3. TaskInv'
  <2>1. CASE SubscribeWhileStopping(s) \/ JoinSubscription(s)
    BY <1>1, <2>1, TaskFrame
  <2>2. CASE CreateSubscription(s)
    <3>1. subscriptions[Room[s]] = NoSubscription
      BY <1>1, <2>2, EntryIsLive, RoomAssumption
    <3>2. PICK l \in Subscription :
            /\ task[l] = "done"
            /\ task' = [task EXCEPT ![l] = "created"]
            /\ serves' = [serves EXCEPT ![l] = Room[s]]
            /\ ready' = ready \ {l}
            /\ subscriptions' = [subscriptions EXCEPT ![Room[s]] = l]
      BY <2>2
    <3>3. /\ MaySubscribe /\ l \notin cancelled
          /\ UNCHANGED <<cancelled, lifespan, draining>>
      BY <1>1, <2>2, <3>2 DEF TaskInv, CancelIsInProgress, Alive
    <3> HIDE DEF Accept, Subscribe, CreateSubscription
    <3>4. RegisteredIsAlive'
      BY <1>1, <3>2, <3>3, RoomAssumption
      DEF TypeOK, TaskInv, RegisteredIsAlive, Alive
    <3>5. OneTaskPerConversation'
      BY <1>1, <3>1, <3>2, <3>3, RoomAssumption, NoSubscriptionAssumption
      DEF TypeOK, TaskInv, OneTaskPerConversation, Alive
    <3>6. ReadyIsListening'
      BY <1>1, <3>2, RoomAssumption
      DEF TypeOK, TaskInv, ReadyIsListening
    <3>7. StopLeavesNothingRunning' /\ CancelIsInProgress'
      BY <1>1, <3>2, <3>3
      DEF TypeOK, TaskInv, StopLeavesNothingRunning, CancelIsInProgress, Alive
    <3> QED BY <3>4, <3>5, <3>6, <3>7 DEF TaskInv
  <2> QED BY <2>1, <2>2
<1>4. HandlerInv'
  <2>1. \A t \in Socket : Attached(t) => Attached(t)'
    BY <1>1 DEF TypeOK, Attached
  <2>2. ConnectionsAreAttached'
    BY <1>1, <2>1 DEF TypeOK, HandlerInv, ConnectionsAreAttached, Attached
  <2>3. NoOrphanSubscription'
    BY <1>1, <2>1, RoomAssumption, NoSubscriptionAssumption
    DEF TypeOK, HandlerInv, NoOrphanSubscription, Attached
  <2>4. CancelledIsAwaited'
    <3>1. \A t \in Socket :
            endpoint[t] \in {"evicting", "aborting", "leaving"} =>
              endpoint'[t] = endpoint[t] /\ awaits'[t] = awaits[t]
      BY <1>1 DEF TypeOK
    <3> QED BY <1>1, <3>1 DEF TypeOK, HandlerInv, CancelledIsAwaited
  <2> QED BY <2>2, <2>3, <2>4 DEF HandlerInv
<1> QED BY <1>2, <1>3, <1>4, InvGroupsPrime

LEMMA SubscribeTimesOutInv ==
  ASSUME NEW s \in Socket, LifecycleInv, SubscribeTimesOut(s)
  PROVE  LifecycleInv'
<1> USE DEF SubscribeTimesOut, AbortConnection, ForceUnsubscribe, Goto,
      loopVars, endpointVars, environment
<1>1. TypeOK /\ TaskInv /\ HandlerInv
  BY InvGroups
<1>2. TypeOK'
  BY <1>1, RoomAssumption DEF TypeOK, EndpointPosition, TaskPosition
<1>3. TaskInv'
  BY <1>1, RoomAssumption, NoSubscriptionAssumption
  DEF TypeOK, TaskInv, RegisteredIsAlive, OneTaskPerConversation,
      ReadyIsListening, StopLeavesNothingRunning, CancelIsInProgress, Alive
<1>4. HandlerInv'
  <2>1. ConnectionsAreAttached'
    BY <1>1, RoomAssumption, NoSubscriptionAssumption
    DEF TypeOK, HandlerInv, ConnectionsAreAttached, Attached
  <2>2. NoOrphanSubscription'
    BY <1>1, RoomAssumption, NoSubscriptionAssumption
    DEF TypeOK, HandlerInv, NoOrphanSubscription, ConnectionsAreAttached,
      Attached, TaskInv, RegisteredIsAlive, StopLeavesNothingRunning,
      CancelIsInProgress, Alive
  <2>3. CancelledIsAwaited'
    BY <1>1, RoomAssumption, NoSubscriptionAssumption
    DEF TypeOK, HandlerInv, CancelledIsAwaited, TaskInv, RegisteredIsAlive,
      StopLeavesNothingRunning, CancelIsInProgress, Alive
  <2> QED BY <2>1, <2>2, <2>3 DEF HandlerInv
<1> QED BY <1>2, <1>3, <1>4, InvGroupsPrime

LEMMA EvictionEndsInv ==
  ASSUME NEW s \in Socket, LifecycleInv, EvictionEnds(s)
  PROVE  LifecycleInv'
<1> USE DEF EvictionEnds, AbortConnection, ForceUnsubscribe, Goto, loopVars,
      endpointVars, environment
<1>1. TypeOK /\ TaskInv /\ HandlerInv
  BY InvGroups
<1>2. TypeOK'
  BY <1>1, RoomAssumption DEF TypeOK, EndpointPosition, TaskPosition
<1>3. TaskInv'
  BY <1>1, RoomAssumption, NoSubscriptionAssumption
  DEF TypeOK, TaskInv, RegisteredIsAlive, OneTaskPerConversation,
      ReadyIsListening, StopLeavesNothingRunning, CancelIsInProgress, Alive
<1>4. HandlerInv'
  <2>1. ConnectionsAreAttached'
    BY <1>1, RoomAssumption, NoSubscriptionAssumption
    DEF TypeOK, HandlerInv, ConnectionsAreAttached, Attached
  <2>2. NoOrphanSubscription'
    BY <1>1, RoomAssumption, NoSubscriptionAssumption
    DEF TypeOK, HandlerInv, NoOrphanSubscription, ConnectionsAreAttached,
      Attached, TaskInv, RegisteredIsAlive, StopLeavesNothingRunning,
      CancelIsInProgress, Alive
  <2>3. CancelledIsAwaited'
    BY <1>1, RoomAssumption, NoSubscriptionAssumption
    DEF TypeOK, HandlerInv, CancelledIsAwaited, TaskInv, RegisteredIsAlive,
      StopLeavesNothingRunning, CancelIsInProgress, Alive
  <2> QED BY <2>1, <2>2, <2>3 DEF HandlerInv
<1> QED BY <1>2, <1>3, <1>4, InvGroupsPrime

LEMMA LeaveInv ==
  ASSUME NEW s \in Socket, LifecycleInv, Leave(s)
  PROVE  LifecycleInv'
<1> USE DEF Leave, UnsubscribeUnused, ForceUnsubscribe, Connected, Goto,
      loopVars, endpointVars, environment
<1>1. TypeOK /\ TaskInv /\ HandlerInv
  BY InvGroups
<1>2. TypeOK'
  BY <1>1, RoomAssumption DEF TypeOK, EndpointPosition, TaskPosition
<1>3. TaskInv'
  BY <1>1, RoomAssumption, NoSubscriptionAssumption
  DEF TypeOK, TaskInv, RegisteredIsAlive, OneTaskPerConversation,
      ReadyIsListening, StopLeavesNothingRunning, CancelIsInProgress, Alive
<1>4. HandlerInv'
  <2>1. ConnectionsAreAttached'
    BY <1>1, RoomAssumption, NoSubscriptionAssumption
    DEF TypeOK, HandlerInv, ConnectionsAreAttached, Attached
  <2>2. NoOrphanSubscription'
    BY <1>1, RoomAssumption, NoSubscriptionAssumption
    DEF TypeOK, HandlerInv, NoOrphanSubscription, ConnectionsAreAttached,
      Attached, TaskInv, RegisteredIsAlive, StopLeavesNothingRunning,
      CancelIsInProgress, Alive
  <2>3. CancelledIsAwaited'
    BY <1>1, RoomAssumption, NoSubscriptionAssumption
    DEF TypeOK, HandlerInv, CancelledIsAwaited, TaskInv, RegisteredIsAlive,
      StopLeavesNothingRunning, CancelIsInProgress, Alive
  <2> QED BY <2>1, <2>2, <2>3 DEF HandlerInv
<1> QED BY <1>2, <1>3, <1>4, InvGroupsPrime

-----------------------------------------------------------------------------
(* Steps of the subscription tasks.                                        *)

LEMMA StartInv ==
  ASSUME NEW l \in Subscription, LifecycleInv, Start(l)
  PROVE  LifecycleInv'
<1> USE DEF Start, NextAttempt, IsSubscribed, TaskAt, loopVars, endpointVars,
      environment
<1>1. TypeOK /\ TaskInv /\ HandlerInv
  BY InvGroups
<1>2. TypeOK'
  BY <1>1, RoomAssumption DEF TypeOK, EndpointPosition, TaskPosition
<1>3. TaskInv'
  BY <1>1, RoomAssumption, NoSubscriptionAssumption
  DEF TypeOK, TaskInv, RegisteredIsAlive, OneTaskPerConversation,
      ReadyIsListening, StopLeavesNothingRunning, CancelIsInProgress, Alive
<1>4. HandlerInv'
  BY <1>1, HandlerFrame
<1> QED BY <1>2, <1>3, <1>4, InvGroupsPrime

LEMMA ReceiveInv ==
  ASSUME NEW l \in Subscription, LifecycleInv, Receive(l)
  PROVE  LifecycleInv'
<1> USE DEF Receive, Connected, TaskAt, loopVars, endpointVars, environment
<1>1. TypeOK /\ TaskInv /\ HandlerInv
  BY InvGroups
<1>2. TypeOK'
  BY <1>1, RoomAssumption DEF TypeOK, EndpointPosition, TaskPosition
<1>3. TaskInv'
  BY <1>1, RoomAssumption, NoSubscriptionAssumption
  DEF TypeOK, TaskInv, RegisteredIsAlive, OneTaskPerConversation,
      ReadyIsListening, StopLeavesNothingRunning, CancelIsInProgress, Alive
<1>4. HandlerInv'
  BY <1>1, HandlerFrame
<1> QED BY <1>2, <1>3, <1>4, InvGroupsPrime

LEMMA FailInv ==
  ASSUME NEW l \in Subscription, LifecycleInv, Fail(l)
  PROVE  LifecycleInv'
<1> USE DEF Fail, MarkNotReady, TaskAt, loopVars, endpointVars, environment
<1>1. TypeOK /\ TaskInv /\ HandlerInv
  BY InvGroups
<1>2. TypeOK'
  BY <1>1, RoomAssumption DEF TypeOK, EndpointPosition, TaskPosition
<1>3. TaskInv'
  BY <1>1, RoomAssumption, NoSubscriptionAssumption
  DEF TypeOK, TaskInv, RegisteredIsAlive, OneTaskPerConversation,
      ReadyIsListening, StopLeavesNothingRunning, CancelIsInProgress, Alive
<1>4. HandlerInv'
  BY <1>1, HandlerFrame
<1> QED BY <1>2, <1>3, <1>4, InvGroupsPrime

LEMMA PollNothingInv ==
  ASSUME NEW l \in Subscription, LifecycleInv, PollNothing(l)
  PROVE  LifecycleInv'
<1> USE DEF PollNothing, NextPoll, IsSubscribed, TaskAt, loopVars,
      endpointVars, environment
<1>1. TypeOK /\ TaskInv /\ HandlerInv
  BY InvGroups
<1>2. TypeOK'
  BY <1>1, RoomAssumption DEF TypeOK, EndpointPosition, TaskPosition
<1>3. TaskInv'
  BY <1>1, RoomAssumption, NoSubscriptionAssumption
  DEF TypeOK, TaskInv, RegisteredIsAlive, OneTaskPerConversation,
      ReadyIsListening, StopLeavesNothingRunning, CancelIsInProgress, Alive
<1>4. HandlerInv'
  BY <1>1, HandlerFrame
<1> QED BY <1>2, <1>3, <1>4, InvGroupsPrime

LEMMA EndBackoffInv ==
  ASSUME NEW l \in Subscription, LifecycleInv, EndBackoff(l)
  PROVE  LifecycleInv'
<1> USE DEF EndBackoff, TaskAt, loopVars, endpointVars, environment
<1>1. TypeOK /\ TaskInv /\ HandlerInv
  BY InvGroups
<1>2. TypeOK'
  BY <1>1, RoomAssumption DEF TypeOK, EndpointPosition, TaskPosition
<1>3. TaskInv'
  BY <1>1, RoomAssumption, NoSubscriptionAssumption
  DEF TypeOK, TaskInv, RegisteredIsAlive, OneTaskPerConversation,
      ReadyIsListening, StopLeavesNothingRunning, CancelIsInProgress, Alive
<1>4. HandlerInv'
  BY <1>1, HandlerFrame
<1> QED BY <1>2, <1>3, <1>4, InvGroupsPrime

LEMMA EndCleanupInv ==
  ASSUME NEW l \in Subscription, LifecycleInv, EndCleanup(l)
  PROVE  LifecycleInv'
<1> USE DEF EndCleanup, NextAttempt, IsSubscribed, TaskAt, loopVars,
      endpointVars, environment
<1>1. TypeOK /\ TaskInv /\ HandlerInv
  BY InvGroups
<1>2. TypeOK'
  BY <1>1, RoomAssumption DEF TypeOK, EndpointPosition, TaskPosition
<1>3. TaskInv'
  BY <1>1, RoomAssumption, NoSubscriptionAssumption
  DEF TypeOK, TaskInv, RegisteredIsAlive, OneTaskPerConversation,
      ReadyIsListening, StopLeavesNothingRunning, CancelIsInProgress, Alive
<1>4. HandlerInv'
  BY <1>1, HandlerFrame
<1> QED BY <1>2, <1>3, <1>4, InvGroupsPrime

LEMMA DeliverCancelInv ==
  ASSUME NEW l \in Subscription, LifecycleInv, DeliverCancel(l)
  PROVE  LifecycleInv'
<1> USE DEF DeliverCancel, TaskAt, loopVars, endpointVars, environment
<1>1. TypeOK /\ TaskInv /\ HandlerInv
  BY InvGroups
<1>2. TypeOK'
  BY <1>1, RoomAssumption DEF TypeOK, EndpointPosition, TaskPosition
<1>3. TaskInv'
  BY <1>1, RoomAssumption, NoSubscriptionAssumption
  DEF TypeOK, TaskInv, RegisteredIsAlive, OneTaskPerConversation,
      ReadyIsListening, StopLeavesNothingRunning, CancelIsInProgress, Alive
<1>4. HandlerInv'
  BY <1>1, HandlerFrame
<1> QED BY <1>2, <1>3, <1>4, InvGroupsPrime

LEMMA EndCancelledInv ==
  ASSUME NEW l \in Subscription, LifecycleInv, EndCancelled(l)
  PROVE  LifecycleInv'
<1> USE DEF EndCancelled, TaskAt, loopVars, endpointVars, environment
<1>1. TypeOK /\ TaskInv /\ HandlerInv
  BY InvGroups
<1>2. TypeOK'
  BY <1>1, RoomAssumption DEF TypeOK, EndpointPosition, TaskPosition
<1>3. TaskInv'
  BY <1>1, RoomAssumption, NoSubscriptionAssumption
  DEF TypeOK, TaskInv, RegisteredIsAlive, OneTaskPerConversation,
      ReadyIsListening, StopLeavesNothingRunning, CancelIsInProgress, Alive
<1>4. HandlerInv'
  BY <1>1, HandlerFrame
<1> QED BY <1>2, <1>3, <1>4, InvGroupsPrime

LEMMA SubscribedInv ==
  ASSUME NEW l \in Subscription, LifecycleInv, Subscribed(l)
  PROVE  LifecycleInv'
<1> USE DEF Subscribed, MarkReady, NextPoll, IsSubscribed, TaskAt, loopVars,
      endpointVars, environment
<1>1. TypeOK /\ TaskInv /\ HandlerInv
  BY InvGroups
<1>2. TypeOK'
  BY <1>1, RoomAssumption DEF TypeOK, EndpointPosition, TaskPosition
<1>3. TaskInv'
  BY <1>1, RoomAssumption, NoSubscriptionAssumption
  DEF TypeOK, TaskInv, RegisteredIsAlive, OneTaskPerConversation,
      ReadyIsListening, StopLeavesNothingRunning, CancelIsInProgress, Alive
<1>4. HandlerInv'
  <2>1. \A t \in Socket : Attached(t) => Attached(t)'
    BY <1>1 DEF TypeOK, Attached
  <2>2. ConnectionsAreAttached'
    BY <1>1, <2>1 DEF TypeOK, HandlerInv, ConnectionsAreAttached, Attached
  <2>3. NoOrphanSubscription'
    BY <1>1, <2>1, RoomAssumption, NoSubscriptionAssumption
    DEF TypeOK, HandlerInv, NoOrphanSubscription, Attached
  <2>4. CancelledIsAwaited'
    <3>1. \A t \in Socket :
            endpoint[t] \in {"evicting", "aborting", "leaving"} =>
              endpoint'[t] = endpoint[t] /\ awaits'[t] = awaits[t]
      BY <1>1 DEF TypeOK
    <3> QED BY <1>1, <3>1 DEF TypeOK, HandlerInv, CancelledIsAwaited
  <2> QED BY <2>2, <2>3, <2>4 DEF HandlerInv
<1> QED BY <1>2, <1>3, <1>4, InvGroupsPrime

LEMMA SendInv ==
  ASSUME NEW l \in Subscription, NEW s \in Socket, LifecycleInv, Send(l, s)
  PROVE  LifecycleInv'
<1> USE DEF Send, NextPoll, IsSubscribed, TaskAt, loopVars, endpointVars,
      environment
<1>1. TypeOK /\ TaskInv /\ HandlerInv
  BY InvGroups
<1>2. TypeOK'
  BY <1>1, RoomAssumption DEF TypeOK, EndpointPosition, TaskPosition
<1>3. TaskInv'
  BY <1>1, RoomAssumption, NoSubscriptionAssumption
  DEF TypeOK, TaskInv, RegisteredIsAlive, OneTaskPerConversation,
      ReadyIsListening, StopLeavesNothingRunning, CancelIsInProgress, Alive
<1>4. HandlerInv'
  BY <1>1, HandlerFrame
<1> QED BY <1>2, <1>3, <1>4, InvGroupsPrime

-----------------------------------------------------------------------------
(* Steps of the lifespan and of the environment.                           *)

LEMMA StopInv ==
  ASSUME LifecycleInv, Stop
  PROVE  LifecycleInv'
<1> USE DEF Stop, Registered, loopVars, endpointVars, environment
<1>1. TypeOK /\ TaskInv /\ HandlerInv
  BY InvGroups
<1>2. TypeOK'
  BY <1>1, RoomAssumption DEF TypeOK, EndpointPosition, TaskPosition
<1>3. TaskInv'
  BY <1>1, RoomAssumption, NoSubscriptionAssumption
  DEF TypeOK, TaskInv, RegisteredIsAlive, OneTaskPerConversation,
      ReadyIsListening, StopLeavesNothingRunning, CancelIsInProgress, Alive
<1>4. HandlerInv'
  <2>1. ConnectionsAreAttached'
    BY <1>1, RoomAssumption, NoSubscriptionAssumption
    DEF TypeOK, HandlerInv, ConnectionsAreAttached, Attached
  <2>2. NoOrphanSubscription'
    BY <1>1, RoomAssumption, NoSubscriptionAssumption
    DEF TypeOK, HandlerInv, NoOrphanSubscription, ConnectionsAreAttached,
      Attached, TaskInv, RegisteredIsAlive, StopLeavesNothingRunning,
      CancelIsInProgress, Alive
  <2>3. CancelledIsAwaited'
    BY <1>1, RoomAssumption, NoSubscriptionAssumption
    DEF TypeOK, HandlerInv, CancelledIsAwaited, TaskInv, RegisteredIsAlive,
      StopLeavesNothingRunning, CancelIsInProgress, Alive
  <2> QED BY <2>1, <2>2, <2>3 DEF HandlerInv
<1> QED BY <1>2, <1>3, <1>4, InvGroupsPrime

LEMMA StopReturnsInv ==
  ASSUME LifecycleInv, StopReturns
  PROVE  LifecycleInv'
<1> USE DEF StopReturns, loopVars, endpointVars, environment
<1>1. TypeOK /\ TaskInv /\ HandlerInv
  BY InvGroups
<1>2. TypeOK'
  BY <1>1, RoomAssumption DEF TypeOK, EndpointPosition, TaskPosition
<1>3. TaskInv'
  BY <1>1, RoomAssumption, NoSubscriptionAssumption
  DEF TypeOK, TaskInv, RegisteredIsAlive, OneTaskPerConversation,
      ReadyIsListening, StopLeavesNothingRunning, CancelIsInProgress, Alive
<1>4. HandlerInv'
  <2>1. ConnectionsAreAttached'
    BY <1>1, RoomAssumption, NoSubscriptionAssumption
    DEF TypeOK, HandlerInv, ConnectionsAreAttached, Attached
  <2>2. NoOrphanSubscription'
    BY <1>1, RoomAssumption, NoSubscriptionAssumption
    DEF TypeOK, HandlerInv, NoOrphanSubscription, ConnectionsAreAttached,
      Attached, TaskInv, RegisteredIsAlive, StopLeavesNothingRunning,
      CancelIsInProgress, Alive
  <2>3. CancelledIsAwaited'
    BY <1>1, RoomAssumption, NoSubscriptionAssumption
    DEF TypeOK, HandlerInv, CancelledIsAwaited, TaskInv, RegisteredIsAlive,
      StopLeavesNothingRunning, CancelIsInProgress, Alive
  <2> QED BY <2>1, <2>2, <2>3 DEF HandlerInv
<1> QED BY <1>2, <1>3, <1>4, InvGroupsPrime

LEMMA StartAgainInv ==
  ASSUME LifecycleInv, StartAgain
  PROVE  LifecycleInv'
<1> USE DEF StartAgain, loopVars, endpointVars, environment
<1>1. TypeOK /\ TaskInv /\ HandlerInv
  BY InvGroups
<1>2. TypeOK'
  BY <1>1, RoomAssumption DEF TypeOK, EndpointPosition, TaskPosition
<1>3. TaskInv'
  BY <1>1, RoomAssumption, NoSubscriptionAssumption
  DEF TypeOK, TaskInv, RegisteredIsAlive, OneTaskPerConversation,
      ReadyIsListening, StopLeavesNothingRunning, CancelIsInProgress, Alive
<1>4. HandlerInv'
  BY <1>1, HandlerFrame
<1> QED BY <1>2, <1>3, <1>4, InvGroupsPrime

LEMMA DropInv ==
  ASSUME NEW s \in Socket, LifecycleInv, Drop(s)
  PROVE  LifecycleInv'
<1> USE DEF Drop, loopVars, endpointVars, environment
<1>1. TypeOK /\ TaskInv /\ HandlerInv
  BY InvGroups
<1>2. TypeOK'
  BY <1>1, RoomAssumption DEF TypeOK, EndpointPosition, TaskPosition
<1>3. TaskInv'
  BY <1>1, TaskFrame
<1>4. HandlerInv'
  BY <1>1, HandlerFrame
<1> QED BY <1>2, <1>3, <1>4, InvGroupsPrime

LEMMA ToggleRedisInv ==
  ASSUME LifecycleInv, ToggleRedis
  PROVE  LifecycleInv'
<1> USE DEF ToggleRedis, loopVars, endpointVars, environment
<1>1. TypeOK /\ TaskInv /\ HandlerInv
  BY InvGroups
<1>2. TypeOK'
  BY <1>1, RoomAssumption DEF TypeOK, EndpointPosition, TaskPosition
<1>3. TaskInv'
  BY <1>1, TaskFrame
<1>4. HandlerInv'
  BY <1>1, HandlerFrame
<1> QED BY <1>2, <1>3, <1>4, InvGroupsPrime

-----------------------------------------------------------------------------
LEMMA StepInv == LifecycleInv /\ [Next]_vars => LifecycleInv'
<1> SUFFICES ASSUME LifecycleInv, [Next]_vars PROVE LifecycleInv' OBVIOUS
<1>1. ASSUME NEW s \in Socket, EndpointStep(s) PROVE LifecycleInv'
  BY <1>1, QuietEndpointInv, AcceptInv, SubscribeTimesOutInv,
     EvictionEndsInv, LeaveInv
  DEF EndpointStep
<1>2. ASSUME NEW l \in Subscription, TaskProgress(l) PROVE LifecycleInv'
  BY <1>2, StartInv, SubscribedInv, FailInv, PollNothingInv, EndBackoffInv, EndCleanupInv,
     DeliverCancelInv, EndCancelledInv, SendInv
  DEF TaskProgress
<1>3. CASE UNCHANGED vars
  BY <1>3 DEF vars, loopVars, endpointVars, environment, LifecycleInv, TypeOK,
    ConnectionsAreAttached, RegisteredIsAlive, OneTaskPerConversation,
    NoOrphanSubscription, ReadyIsListening, CancelledIsAwaited,
    StopLeavesNothingRunning, CancelIsInProgress, Alive, Attached
<1> QED
  BY <1>1, <1>2, <1>3, QuietEndpointInv, DropInv, ReceiveInv, StopInv, StopReturnsInv,
     StartAgainInv, ToggleRedisInv DEF Next

(* The inductive invariant holds in every reachable state.                 *)
THEOREM LifecycleInvariant == Spec => []LifecycleInv
  BY InitInv, StepInv, PTL DEF Spec

(* Every variable stays in its type.                                       *)
THEOREM TypeCorrect == Spec => []TypeOK
  BY LifecycleInvariant, PTL DEF LifecycleInv

(* The connection table holds only sockets whose handler is still to       *)
(* disconnect them.                                                        *)
THEOREM NoStaleConnection == Spec => []ConnectionsAreAttached
  BY LifecycleInvariant, PTL DEF LifecycleInv

(* No subscription outlives the handlers of its conversation.              *)
THEOREM NoSubscriptionLeak == Spec => []NoOrphanSubscription
  BY LifecycleInvariant, PTL DEF LifecycleInv

(* At most one uncancelled task runs for a conversation, and it is the     *)
(* registered one.                                                         *)
THEOREM SingleTask == Spec => []OneTaskPerConversation
  BY LifecycleInvariant, PTL DEF LifecycleInv

(* subscribe_conversation never joins an ended or cancelled task.          *)
THEOREM JoinsLiveTask == Spec => []RegisteredIsAlive
  BY LifecycleInvariant, PTL DEF LifecycleInv

(* A set ready event means a task that holds a Redis subscription.         *)
THEOREM ReadyMeansListening == Spec => []ReadyIsListening
  BY LifecycleInvariant, PTL DEF LifecycleInv

(* Every cancelled task is awaited until it has ended.                     *)
THEOREM NoTaskLeftBehind == Spec => []CancelledIsAwaited
  BY LifecycleInvariant, PTL DEF LifecycleInv

(* stop() leaves no subscription and no uncancelled task.                  *)
THEOREM StopIsComplete == Spec => []StopLeavesNothingRunning
  BY LifecycleInvariant, PTL DEF LifecycleInv

-----------------------------------------------------------------------------
(* A step that strands a served socket is a forced unsubscribe or stop():  *)
(* the handler that leaves checks the connection table in the very step    *)
(* that removes the entry, and the other steps remove none.                *)
LEMMA StrandingStep ==
  ASSUME LifecycleInv, [Next]_vars
  PROVE  StrandsOnlyByForce
<1> SUFFICES ASSUME NEW c \in Conversation, Strands(c), lifespan' = "up"
             PROVE  Forces(c)
  BY DEF StrandsOnlyByForce
<1> USE DEF Strands, Forces, loopVars, endpointVars, environment
<1>1. TypeOK
  BY DEF LifecycleInv
<1>2. ASSUME NEW s \in Socket, Accept(s) PROVE FALSE
  BY <1>1, <1>2, NoSubscriptionAssumption, RoomAssumption
  DEF Accept, Subscribe, SubscribeWhileStopping, JoinSubscription,
    CreateSubscription, MaySubscribe, TypeOK
<1>3. ASSUME NEW s \in Socket, SubscribeTimesOut(s) PROVE Forces(c)
  BY <1>1, <1>3, RoomAssumption
  DEF SubscribeTimesOut, AbortConnection, ForceUnsubscribe, Goto, TypeOK
<1>4. ASSUME NEW s \in Socket, EvictionEnds(s) PROVE Forces(c)
  BY <1>1, <1>4, RoomAssumption
  DEF EvictionEnds, AbortConnection, ForceUnsubscribe, Goto, TypeOK
<1>5. ASSUME NEW s \in Socket, Leave(s) PROVE FALSE
  BY <1>1, <1>5, RoomAssumption
  DEF Leave, UnsubscribeUnused, ForceUnsubscribe, Connected, Goto, TypeOK
<1>6. CASE Stop
  BY <1>6 DEF Stop
<1>7. CASE UNCHANGED subscriptions
  BY <1>7
<1> QED
  BY <1>2, <1>3, <1>4, <1>5, <1>6, <1>7
  DEF Next, EndpointStep, TaskProgress, vars, Admit, AcceptFails, Serve,
    AbortEnds, Close, LeaveEnds, Drop, Start, Subscribed, Fail, Receive, Send,
    PollNothing, EndBackoff, EndCleanup, DeliverCancel, EndCancelled, StopReturns,
    StartAgain, ToggleRedis

(* Only forced unsubscribes and stop() strand a served socket.             *)
THEOREM OnlyForceStrands == Spec => OnlyForceStrandsSockets
<1>1. LifecycleInv /\ [Next]_vars => [StrandsOnlyByForce]_vars
  BY StrandingStep
<1> QED
  BY <1>1, LifecycleInvariant, PTL DEF Spec, OnlyForceStrandsSockets

-----------------------------------------------------------------------------
(* Refinement.  The task that acts for a conversation is the registered    *)
(* one, so the listener can be read off its entry.                         *)

LEMMA ListenerOf ==
  ASSUME TypeOK, RegisteredIsAlive, OneTaskPerConversation, NEW c \in Conversation
  PROVE  /\ subscriptions[c] = NoSubscription => c \notin Heard /\ Targets[c] = {}
         /\ subscriptions[c] # NoSubscription =>
              /\ c \in Heard <=> Listening(subscriptions[c])
              /\ Targets[c] = pending[subscriptions[c]]
<1>1. CASE subscriptions[c] = NoSubscription
  <2>1. Acting(c) = {}
    BY <1>1, NoSubscriptionAssumption DEF Acting, OneTaskPerConversation
  <2> QED  BY <1>1, <2>1 DEF Heard, Targets
<1>2. CASE subscriptions[c] # NoSubscription
  <2>1. Acting(c) = {subscriptions[c]}
    BY <1>2 DEF TypeOK, Acting, OneTaskPerConversation, RegisteredIsAlive
  <2> QED  BY <1>2, <2>1 DEF Heard, Targets
<1> QED  BY <1>1, <1>2

LEMMA ListenerOfPrime ==
  ASSUME TypeOK', RegisteredIsAlive', OneTaskPerConversation', NEW c \in Conversation
  PROVE  /\ subscriptions'[c] = NoSubscription => c \notin Heard' /\ Targets'[c] = {}
         /\ subscriptions'[c] # NoSubscription =>
              /\ c \in Heard' <=> task'[subscriptions'[c]] \in {"polling", "sending"}
              /\ Targets'[c] = pending'[subscriptions'[c]]
<1>1. CASE subscriptions'[c] = NoSubscription
  <2>1. Acting(c)' = {}
    BY <1>1, NoSubscriptionAssumption DEF Acting, OneTaskPerConversation
  <2> QED  BY <1>1, <2>1 DEF Heard, Targets
<1>2. CASE subscriptions'[c] # NoSubscription
  <2>1. Acting(c)' = {subscriptions'[c]}
    BY <1>2 DEF TypeOK, Acting, OneTaskPerConversation, RegisteredIsAlive
  <2> QED  BY <1>2, <2>1 DEF Heard, Targets, Listening
<1> QED  BY <1>1, <1>2

(* Only a broadcast has sockets to send to.                                *)
BroadcastInv == \A l \in Subscription : pending[l] # {} => task[l] = "sending"

LEMMA BroadcastStep ==
  ASSUME LifecycleInv, BroadcastInv, [Next]_vars
  PROVE  BroadcastInv'
<1> USE DEF BroadcastInv, loopVars, endpointVars, environment, TaskAt
<1>1. TypeOK
  BY DEF LifecycleInv
<1>2. ASSUME NEW s \in Socket, Accept(s) PROVE BroadcastInv'
  BY <1>1, <1>2
  DEF Accept, Subscribe, SubscribeWhileStopping, JoinSubscription,
    CreateSubscription, Unused, TypeOK
<1>3. ASSUME NEW l \in Subscription,
             \/ Start(l) \/ Subscribed(l) \/ Fail(l) \/ Receive(l) \/ PollNothing(l)
             \/ EndBackoff(l) \/ EndCleanup(l) \/ DeliverCancel(l) \/ EndCancelled(l)
      PROVE  BroadcastInv'
  BY <1>1, <1>3
  DEF Start, Subscribed, Fail, Receive, PollNothing, EndBackoff, EndCleanup,
    DeliverCancel, EndCancelled, NextAttempt, NextPoll, TypeOK
<1>4. ASSUME NEW l \in Subscription, NEW s \in Socket, Send(l, s) PROVE BroadcastInv'
  BY <1>1, <1>4 DEF Send, NextPoll, TypeOK
<1>5. CASE UNCHANGED <<task, pending>>
  BY <1>5
<1> QED
  BY <1>2, <1>3, <1>4, <1>5
  DEF Next, EndpointStep, TaskProgress, vars, Admit, AcceptFails, Serve,
    SubscribeTimesOut, EvictionEnds, AbortEnds, Close, Leave, LeaveEnds, Drop,
    Stop, StopReturns, StartAgain, ToggleRedis

(* What the listener of a conversation may do in one step.                 *)
ListenerStep(c) ==
  \/ Broadcasts!Idle(c) \/ Broadcasts!Hear(c) \/ Broadcasts!FallSilent(c)
  \/ Broadcasts!Take(c) \/ Broadcasts!Send(c)

(* A conversation without an entry is silent; a task that neither starts   *)
(* nor ends listening, or another one's, leaves the listener idle.         *)
LEMMA EntryStep ==
  ASSUME LifecycleInv, LifecycleInv', NEW c \in Conversation,
         \/ subscriptions'[c] = NoSubscription
         \/ /\ subscriptions'[c] \in Subscription
            /\ task'[subscriptions'[c]] \notin {"polling", "sending"}
            /\ pending'[subscriptions'[c]] = {}
         \/ /\ subscriptions'[c] = subscriptions[c]
            /\ subscriptions[c] \in Subscription =>
                 /\ task'[subscriptions[c]] \in {"polling", "sending"}
                      <=> Listening(subscriptions[c])
                 /\ pending'[subscriptions[c]] = pending[subscriptions[c]]
  PROVE  ListenerStep(c)
<1>1. /\ TypeOK /\ RegisteredIsAlive /\ OneTaskPerConversation
      /\ TypeOK' /\ RegisteredIsAlive' /\ OneTaskPerConversation'
  BY DEF LifecycleInv
<1>2. /\ subscriptions[c] \in Subscription \cup {NoSubscription}
      /\ subscriptions'[c] \in Subscription \cup {NoSubscription}
  BY <1>1 DEF TypeOK
<1> QED
  BY <1>1, <1>2, ListenerOf, ListenerOfPrime, NoSubscriptionAssumption
  DEF ListenerStep, Broadcasts!Idle, Broadcasts!FallSilent

(* Handlers only create entries, with a task still to start, or pop them.  *)
LEMMA HandlerListens ==
  ASSUME LifecycleInv, LifecycleInv', BroadcastInv, NEW c \in Conversation,
         NEW s \in Socket,
         Accept(s) \/ SubscribeTimesOut(s) \/ EvictionEnds(s) \/ Leave(s)
  PROVE  ListenerStep(c)
<1> USE DEF loopVars, endpointVars, environment
<1>1. TypeOK /\ TypeOK' /\ Room[s] \in Conversation
  BY RoomAssumption DEF LifecycleInv
<1>2. CASE Accept(s)
  <2>1. CASE CreateSubscription(s)
    <3>1. PICK l \in Subscription :
            /\ task[l] = "done"
            /\ task' = [task EXCEPT ![l] = "created"]
            /\ subscriptions' = [subscriptions EXCEPT ![Room[s]] = l]
            /\ UNCHANGED pending
      BY <2>1 DEF CreateSubscription, Unused
    <3>2. pending[l] = {}
      BY <3>1 DEF BroadcastInv
    <3>3. subscriptions[c] \in Subscription => subscriptions[c] # l
      BY <3>1, NoSubscriptionAssumption DEF LifecycleInv, RegisteredIsAlive, Alive, TypeOK
    <3>4. CASE Room[s] = c
      BY <1>1, <3>1, <3>2, <3>4, EntryStep DEF TypeOK
    <3>5. CASE Room[s] # c
      BY <1>1, <3>1, <3>3, <3>5, EntryStep DEF TypeOK, Listening
    <3> QED  BY <3>4, <3>5
  <2>2. CASE SubscribeWhileStopping(s) \/ JoinSubscription(s)
    <3>1. UNCHANGED <<subscriptions, task, pending>>
      BY <2>2 DEF SubscribeWhileStopping, JoinSubscription
    <3> QED  BY <1>1, <3>1, EntryStep DEF TypeOK, Listening
  <2> QED  BY <1>2, <2>1, <2>2 DEF Accept, Subscribe
<1>3. CASE SubscribeTimesOut(s) \/ EvictionEnds(s) \/ Leave(s)
  <2>1. /\ UNCHANGED <<task, pending>>
        /\ \/ subscriptions' = subscriptions
           \/ subscriptions' = [subscriptions EXCEPT ![Room[s]] = NoSubscription]
    BY <1>3
    DEF SubscribeTimesOut, EvictionEnds, Leave, AbortConnection, UnsubscribeUnused,
      ForceUnsubscribe
  <2>2. \/ subscriptions'[c] = NoSubscription
        \/ subscriptions'[c] = subscriptions[c]
    BY <1>1, <2>1 DEF TypeOK
  <2> QED  BY <2>1, <2>2, EntryStep DEF Listening
<1> QED  BY <1>2, <1>3

(* A task step matters to the conversation whose entry it is.              *)
LEMMA TaskListens ==
  ASSUME LifecycleInv, LifecycleInv', BroadcastInv, NEW c \in Conversation,
         NEW k \in Subscription, TaskProgress(k) \/ Receive(k)
  PROVE  ListenerStep(c)
<1> USE DEF loopVars, endpointVars, environment, TaskAt
<1>1. /\ TypeOK /\ RegisteredIsAlive /\ OneTaskPerConversation
      /\ TypeOK' /\ RegisteredIsAlive' /\ OneTaskPerConversation'
      /\ CancelIsInProgress
  BY DEF LifecycleInv
<1>2. /\ UNCHANGED subscriptions
      /\ \A l \in Subscription \ {k} : task'[l] = task[l] /\ pending'[l] = pending[l]
  BY <1>1
  DEF TaskProgress, Start, Subscribed, Fail, Receive, Send, PollNothing, EndBackoff,
    EndCleanup, DeliverCancel, EndCancelled, NextAttempt, NextPoll, TypeOK
<1>3. CASE subscriptions[c] # k
  BY <1>1, <1>2, <1>3, EntryStep DEF TypeOK, Listening
<1>4. CASE subscriptions[c] = k
  <2>1. /\ subscriptions'[c] = k /\ k # NoSubscription
        /\ serves[k] = c /\ k \notin cancelled /\ task[k] # "closing"
    BY <1>1, <1>2, <1>4, NoSubscriptionAssumption DEF RegisteredIsAlive, CancelIsInProgress
  <2>2. /\ c \in Heard <=> task[k] \in {"polling", "sending"}
        /\ Targets[c] = pending[k]
    BY <1>1, <1>4, <2>1, ListenerOf DEF Listening
  <2>3. /\ c \in Heard' <=> task'[k] \in {"polling", "sending"}
        /\ Targets'[c] = pending'[k]
    BY <1>1, <2>1, ListenerOfPrime
  <2>4. task[k] # "sending" => pending[k] = {}
    BY DEF BroadcastInv
  <2>5. ~DeliverCancel(k) /\ ~EndCancelled(k)
    BY <2>1 DEF DeliverCancel, EndCancelled
  <2>6. CASE Start(k) \/ Fail(k) \/ EndBackoff(k) \/ EndCleanup(k)
    <3>1. task'[k] \notin {"polling", "sending"} /\ pending'[k] = {}
      BY <1>1, <2>4, <2>6
      DEF Start, Fail, EndBackoff, EndCleanup, NextAttempt, TypeOK
    <3> QED  BY <2>1, <3>1, EntryStep
  <2>7. CASE Subscribed(k) \/ PollNothing(k)
    <3>1. /\ task'[k] \in {"polling", "cleanup"} /\ pending'[k] = {} /\ pending[k] = {}
          /\ task[k] \in {"subscribing", "polling"}
      BY <1>1, <2>4, <2>7 DEF Subscribed, PollNothing, NextPoll, TypeOK
    <3> QED
      BY <2>2, <2>3, <3>1
      DEF ListenerStep, Broadcasts!Idle, Broadcasts!Hear, Broadcasts!FallSilent
  <2>8. CASE Receive(k)
    <3>1. /\ task[k] = "polling" /\ task'[k] = "sending" /\ pending[k] = {}
          /\ pending'[k] = {s \in connections : Room[s] = c}
      BY <1>1, <2>1, <2>4, <2>8 DEF Receive, Connected, TypeOK
    <3> QED  BY <2>2, <2>3, <3>1 DEF ListenerStep, Broadcasts!Take
  <2>9. ASSUME NEW s \in Socket, Send(k, s) PROVE ListenerStep(c)
    <3>1. /\ task[k] = "sending" /\ s \in pending[k]
          /\ pending'[k] = pending[k] \ {s}
          /\ \/ task'[k] \in {"sending", "polling"}
             \/ task'[k] = "cleanup" /\ pending[k] = {s}
      BY <1>1, <2>9 DEF Send, NextPoll, TypeOK
    <3> QED
      BY <2>2, <2>3, <3>1 DEF ListenerStep, Broadcasts!Send, Broadcasts!FallSilent
  <2> QED  BY <2>5, <2>6, <2>7, <2>8, <2>9 DEF TaskProgress
<1> QED  BY <1>3, <1>4

LEMMA ListenerNext ==
  ASSUME LifecycleInv, LifecycleInv', BroadcastInv, [Next]_vars
  PROVE  [Broadcasts!Next]_<<connections, Heard, Targets>>
<1>1. ASSUME NEW c \in Conversation PROVE ListenerStep(c)
  <2>1. ASSUME NEW s \in Socket,
               Accept(s) \/ SubscribeTimesOut(s) \/ EvictionEnds(s) \/ Leave(s)
        PROVE  ListenerStep(c)
    BY <2>1, HandlerListens
  <2>2. ASSUME NEW k \in Subscription, TaskProgress(k) \/ Receive(k)
        PROVE  ListenerStep(c)
    BY <2>2, TaskListens
  <2>3. CASE Stop
    BY <2>3, EntryStep DEF Stop
  <2>4. CASE UNCHANGED <<subscriptions, task, pending>>
    <3>1. subscriptions[c] \in Subscription \cup {NoSubscription}
      BY DEF LifecycleInv, TypeOK
    <3> QED  BY <2>4, <3>1, EntryStep DEF Listening
  <2> QED
    BY <2>1, <2>2, <2>3, <2>4
    DEF Next, EndpointStep, vars, loopVars, endpointVars, environment, Admit, AcceptFails,
      Serve, AbortEnds, Close, LeaveEnds, Drop, StopReturns, StartAgain, ToggleRedis
<1>2. TypeOK'
  BY DEF LifecycleInv
<1>3. /\ connections' \in SUBSET Socket
      /\ Heard' \in SUBSET Conversation
      /\ Targets' \in [Conversation -> SUBSET Socket]
  BY <1>2 DEF TypeOK, Heard, Targets, Acting
<1> QED  BY <1>1, <1>3 DEF Broadcasts!Next, ListenerStep

(* The broadcasts of a process are those of one listener per conversation, *)
(* however subscribe_conversation, its timeout, unsubscribe_conversation   *)
(* and stop() replace the tasks behind it.                                 *)
THEOREM OneListener == Spec => ImplementsListener
<1>1. Init => Broadcasts!Init /\ BroadcastInv
  BY DEF Init, Broadcasts!Init, Heard, Targets, Acting, Alive, BroadcastInv
<1>2. LifecycleInv /\ BroadcastInv /\ [Next]_vars => BroadcastInv'
  BY BroadcastStep
<1>3. /\ LifecycleInv /\ LifecycleInv' /\ BroadcastInv /\ [Next]_vars
      => [Broadcasts!Next]_<<connections, Heard, Targets>>
  BY ListenerNext
<1> QED
  BY <1>1, <1>2, <1>3, LifecycleInvariant, PTL
  DEF Spec, ImplementsListener, Broadcasts!Spec, Broadcasts!vars

-----------------------------------------------------------------------------
(* Nobody waits in vain: the safety that the liveness properties rest on.  *)

(* A handler holds a SubscriptionState exactly while it waits for it, so   *)
(* that an identity comes back into use only when nobody waits for it.     *)
HoldsWhatItAwaits ==
  \A s \in Socket :
    awaits[s] # NoSubscription <=>
      endpoint[s] \in {"waiting", "woken", "evicting", "aborting", "leaving"}

(* A handler waits for the ready event of a task of its own conversation,  *)
(* and never for one that is set already: no wakeup is lost.               *)
NoLostWakeup ==
  \A s \in Socket :
    endpoint[s] = "waiting" =>
      awaits[s] \in Subscription \ ready /\ serves[awaits[s]] = Room[s]

Ending(l) == task[l] = "done" \/ l \in cancelled

(* Whoever waits for a task to end waits for one that has ended or was     *)
(* cancelled, be it a handler or the gather of stop().                     *)
AwaitedTasksEnd ==
  /\ \A s \in Socket :
       endpoint[s] \in {"evicting", "aborting", "leaving"} => Ending(awaits[s])
  /\ \A l \in draining : Ending(l)

WaitInv == HoldsWhatItAwaits /\ NoLostWakeup /\ AwaitedTasksEnd

(* What a cancel leads to: the task goes on to its end, through the        *)
(* finally clause at most once, and sends nothing any more.                *)
OnlyEnds(l) ==
  \/ /\ task'[l] = task[l] /\ pending'[l] = pending[l]
     /\ l \in cancelled'
  \/ /\ task[l] \notin {"closing", "done"} /\ task'[l] = "closing"
     /\ l \in cancelled' /\ pending'[l] = {}
  \/ /\ task[l] # "done" /\ task'[l] = "done"
     /\ l \notin cancelled' /\ pending'[l] = {}

LEMMA CancelledStep ==
  ASSUME LifecycleInv, BroadcastInv, [Next]_vars, NEW l \in cancelled
  PROVE  OnlyEnds(l)
<1> USE DEF OnlyEnds, loopVars, endpointVars, environment, TaskAt
<1>1. /\ TypeOK /\ l \in Subscription /\ task[l] # "done"
      /\ pending[l] # {} => task[l] = "sending"
  BY DEF LifecycleInv, TypeOK, CancelIsInProgress, Alive, BroadcastInv
<1>2. ASSUME NEW s \in Socket, Accept(s) PROVE OnlyEnds(l)
  BY <1>1, <1>2
  DEF Accept, Subscribe, SubscribeWhileStopping, JoinSubscription,
    CreateSubscription, Unused, TypeOK
<1>3. ASSUME NEW s \in Socket, SubscribeTimesOut(s) \/ EvictionEnds(s) \/ Leave(s)
      PROVE  OnlyEnds(l)
  BY <1>1, <1>3
  DEF SubscribeTimesOut, EvictionEnds, Leave, AbortConnection, UnsubscribeUnused,
    ForceUnsubscribe
<1>4. ASSUME NEW k \in Subscription,
             \/ Start(k) \/ Subscribed(k) \/ Fail(k) \/ Receive(k) \/ PollNothing(k)
             \/ EndBackoff(k) \/ EndCleanup(k) \/ \E s \in Socket : Send(k, s)
      PROVE  OnlyEnds(l)
  BY <1>1, <1>4
  DEF Start, Subscribed, Fail, Receive, Send, PollNothing, EndBackoff, EndCleanup,
    NextAttempt, NextPoll, TypeOK
<1>5. ASSUME NEW k \in Subscription, DeliverCancel(k) \/ EndCancelled(k)
      PROVE  OnlyEnds(l)
  BY <1>1, <1>5 DEF DeliverCancel, EndCancelled, TypeOK
<1>6. CASE Stop
  BY <1>6 DEF Stop
<1>7. CASE UNCHANGED <<task, pending, cancelled>>
  BY <1>7
<1> QED
  BY <1>2, <1>3, <1>4, <1>5, <1>6, <1>7
  DEF Next, EndpointStep, TaskProgress, vars, Admit, AcceptFails, Serve,
    AbortEnds, Close, LeaveEnds, Drop, StopReturns, StartAgain, ToggleRedis

(* A task that was cancelled does nothing but end: it sends no frame, and  *)
(* no later step of any handler or of stop() takes the cancel back.        *)
THEOREM CancelIsFinal == Spec => [][\A l \in cancelled : OnlyEnds(l)]_vars
<1>1. LifecycleInv /\ BroadcastInv /\ [Next]_vars
      => [\A l \in cancelled : OnlyEnds(l)]_vars
  BY CancelledStep
<1>2. Init => BroadcastInv
  BY DEF Init, BroadcastInv
<1>3. LifecycleInv /\ BroadcastInv /\ [Next]_vars => BroadcastInv'
  BY BroadcastStep
<1> QED
  BY <1>1, <1>2, <1>3, LifecycleInvariant, PTL DEF Spec

LEMMA WaitStep ==
  ASSUME LifecycleInv, WaitInv, [Next]_vars
  PROVE  WaitInv'
<1> USE NoSubscriptionAssumption, RoomAssumption
    DEF WaitInv, HoldsWhatItAwaits, NoLostWakeup, AwaitedTasksEnd, Ending,
      loopVars, endpointVars, environment, TaskAt, Goto
<1>1. /\ TypeOK /\ CancelIsInProgress /\ RegisteredIsAlive
      /\ lifespan # "stopping" => draining = {}
  BY DEF LifecycleInv, StopLeavesNothingRunning
<1>2. ASSUME NEW s \in Socket,
             \/ Admit(s) \/ AcceptFails(s) \/ Serve(s) \/ AbortEnds(s) \/ Close(s)
             \/ LeaveEnds(s) \/ Drop(s)
      PROVE  WaitInv'
  BY <1>1, <1>2 DEF Admit, AcceptFails, Serve, AbortEnds, Close, LeaveEnds, Drop, TypeOK
<1>3. ASSUME NEW s \in Socket, Accept(s) PROVE WaitInv'
  <2>1. CASE SubscribeWhileStopping(s)
    BY <1>1, <1>3, <2>1 DEF Accept, SubscribeWhileStopping, TypeOK
  <2>2. CASE JoinSubscription(s)
    <3>1. subscriptions[Room[s]] \in Subscription
      BY <1>1, <2>2, EntryIsLive DEF JoinSubscription, NeedsTask, TypeOK, RegisteredIsAlive
    <3> QED
      BY <1>1, <1>3, <2>2, <3>1 DEF Accept, JoinSubscription, TypeOK, RegisteredIsAlive
  <2>3. CASE CreateSubscription(s)
    BY <1>1, <1>3, <2>3 DEF Accept, CreateSubscription, MaySubscribe, Unused, TypeOK
  <2> QED  BY <1>3, <2>1, <2>2, <2>3 DEF Accept, Subscribe
<1>4. ASSUME NEW s \in Socket, SubscribeTimesOut(s) \/ EvictionEnds(s) \/ Leave(s)
      PROVE  WaitInv'
  BY <1>1, <1>4
  DEF SubscribeTimesOut, EvictionEnds, Leave, AbortConnection, UnsubscribeUnused,
    ForceUnsubscribe, TypeOK
<1>5. ASSUME NEW l \in Subscription, Subscribed(l) PROVE WaitInv'
  BY <1>1, <1>5 DEF Subscribed, MarkReady, NextPoll, TypeOK
<1>6. ASSUME NEW l \in Subscription,
             \/ Start(l) \/ Fail(l) \/ Receive(l) \/ PollNothing(l)
             \/ EndBackoff(l) \/ EndCleanup(l) \/ \E s \in Socket : Send(l, s)
      PROVE  WaitInv'
  BY <1>1, <1>6
  DEF Start, Fail, Receive, Send, PollNothing, EndBackoff, EndCleanup,
    NextAttempt, NextPoll, MarkNotReady, TypeOK, CancelIsInProgress, Alive
<1>7. ASSUME NEW l \in Subscription, DeliverCancel(l) \/ EndCancelled(l)
      PROVE  WaitInv'
  BY <1>1, <1>7 DEF DeliverCancel, EndCancelled, TypeOK
<1>8. CASE Stop \/ StopReturns \/ StartAgain \/ ToggleRedis \/ UNCHANGED vars
  BY <1>1, <1>8 DEF Stop, StopReturns, StartAgain, ToggleRedis, Registered, vars, TypeOK
<1> QED
  BY <1>2, <1>3, <1>4, <1>5, <1>6, <1>7, <1>8 DEF Next, EndpointStep, TaskProgress

(* Whoever waits, waits for something that is on its way: a handler for an *)
(* event that is not set and that its own task sets, the unsubscribes and  *)
(* stop() for tasks that have been cancelled or have ended.                *)
THEOREM NobodyWaitsInVain == Spec => []WaitInv
<1>1. Init => WaitInv
  BY DEF Init, WaitInv, HoldsWhatItAwaits, NoLostWakeup, AwaitedTasksEnd
<1>2. LifecycleInv /\ WaitInv /\ [Next]_vars => WaitInv'
  BY WaitStep
<1> QED
  BY <1>1, <1>2, LifecycleInvariant, PTL DEF Spec

-----------------------------------------------------------------------------
(* All handlers have ended, or not begun, and no stop() is under way.      *)
Quiescent ==
  /\ \A s \in Socket : endpoint[s] \in {"new", "gone"}
  /\ lifespan # "stopping"

NothingIsLeft ==
  Quiescent =>
    /\ connections = {}
    /\ \A c \in Conversation : subscriptions[c] = NoSubscription
    /\ \A l \in Subscription : task[l] = "done"

(* Once the last handler has ended the process is as it was at the start:  *)
(* no socket in the connection table, no subscription, no task, by         *)
(* whichever of the timeouts, failures and unsubscribes the handlers ended. *)
THEOREM ProcessComesToRest == Spec => []NothingIsLeft
<1>1. LifecycleInv => NothingIsLeft
  <2> SUFFICES ASSUME LifecycleInv, Quiescent
               PROVE  /\ connections = {}
                      /\ \A c \in Conversation : subscriptions[c] = NoSubscription
                      /\ \A l \in Subscription : task[l] = "done"
    BY DEF NothingIsLeft
  <2> USE DEF LifecycleInv, Quiescent, Attached
  <2>1. \A s \in Socket : ~Attached(s)
    BY DEF Quiescent, Attached
  <2>2. connections = {}
    BY <2>1 DEF ConnectionsAreAttached, TypeOK
  <2>3. \A c \in Conversation : subscriptions[c] = NoSubscription
    BY <2>1 DEF NoOrphanSubscription
  <2>4. cancelled = {}
    BY DEF CancelledIsAwaited, StopLeavesNothingRunning
  <2>5. \A l \in Subscription : task[l] = "done"
    BY <2>3, <2>4, NoSubscriptionAssumption DEF OneTaskPerConversation, Alive, TypeOK
  <2> QED  BY <2>2, <2>3, <2>5
<1> QED
  BY <1>1, LifecycleInvariant, PTL

=============================================================================
