----------------------- MODULE SubscriptionLifecycle -----------------------
(***************************************************************************)
(* One API process of the chat backend: the WebSocket endpoint handlers    *)
(* (app/routers/ws.py), the connection table (app/websocket/manager.py)    *)
(* and the Redis subscription tasks (app/websocket/pubsub.py).             *)
(*                                                                         *)
(* All of it runs on one asyncio event loop, so a step of the model is the *)
(* code a task runs from one real suspension point to the next.  Neither   *)
(* ConnectionManager._lock nor RedisWebSocketPubSub._lock is ever held     *)
(* across a suspension: acquiring them never blocks and a critical section *)
(* is part of the step that runs it.                                       *)
(*                                                                         *)
(* Time is not modelled: the 5 s wait of subscribe_conversation may expire *)
(* whenever the handler is still in it, a backoff may end whenever it is   *)
(* running.  A cancellation is delivered when the task next resumes.       *)
(***************************************************************************)

CONSTANTS
  Socket,           \* the WebSockets (one endpoint handler each) of a run
  Conversation,     \* conversation ids
  Room,             \* the conversation each socket asks for
  Subscription,     \* identities of SubscriptionState objects and their tasks
  NoSubscription    \* "no entry", None

ASSUME RoomAssumption == Room \in [Socket -> Conversation]
ASSUME ConversationAssumption == Conversation # {}
ASSUME NoSubscriptionAssumption == NoSubscription \notin Subscription

VARIABLES
  connections,      \* ConnectionManager._connections: the registered sockets
  subscriptions,    \* RedisWebSocketPubSub._subscriptions
  task,             \* where each subscription task is
  serves,           \* the conversation_id each task was created for
  cancelled,        \* tasks with a cancel() not yet carried to their end
  ready,            \* SubscriptionStates whose ready event is set
  pending,          \* sockets a running broadcast has still to send to
  failed,           \* sockets a running broadcast failed to send to
  endpoint,         \* where each endpoint handler is
  awaits,           \* the SubscriptionState a handler holds while it waits
  lifespan,         \* _stopping, as set by the application lifespan
  draining,         \* tasks that stop() is gathering
  dropped,          \* sockets whose next receive_json() raises
  redisUp           \* whether Redis answers

loopVars == <<task, serves, cancelled, ready, pending, failed>>
endpointVars == <<endpoint, awaits>>
environment == <<dropped, redisUp>>
vars == <<connections, subscriptions, loopVars, endpointVars,
          lifespan, draining, environment>>

(* Positions of a task: "done" stands for a finished task and for an       *)
(* identity not in use; "closing" is the finally clause run while a        *)
(* CancelledError propagates, "cleanup" the same clause on a normal path.  *)
TaskPosition == {"done", "created", "subscribing", "polling", "sending",
                 "backoff", "cleanup", "closing"}

(* Positions of a handler: "waiting" for ready, "woken" by it but not yet  *)
(* resumed, "evicting" in the forced unsubscribe of the timeout, "aborting" *)
(* in the second one of the endpoint, "leaving" in the regular one.        *)
EndpointPosition == {"new", "accepting", "waiting", "woken", "serving",
                     "evicting", "aborting", "closing", "leaving", "gone"}

TypeOK ==
  /\ connections \in SUBSET Socket
  /\ subscriptions \in [Conversation -> Subscription \cup {NoSubscription}]
  /\ task \in [Subscription -> TaskPosition]
  /\ serves \in [Subscription -> Conversation]
  /\ cancelled \in SUBSET Subscription
  /\ ready \in SUBSET Subscription
  /\ pending \in [Subscription -> SUBSET Socket]
  /\ failed \in [Subscription -> SUBSET Socket]
  /\ endpoint \in [Socket -> EndpointPosition]
  /\ awaits \in [Socket -> Subscription \cup {NoSubscription}]
  /\ lifespan \in {"up", "stopping", "down"}
  /\ draining \in SUBSET Subscription
  /\ dropped \in SUBSET Socket
  /\ redisUp \in BOOLEAN

-----------------------------------------------------------------------------

Connected(c) == {s \in connections : Room[s] = c}

IsSubscribed(c) == subscriptions[c] # NoSubscription /\ lifespan = "up"

(* An identity that no task runs under and no handler still refers to.     *)
Unused(l) == task[l] = "done" /\ \A s \in Socket : awaits[s] # l

Init ==
  /\ connections = {}
  /\ subscriptions = [c \in Conversation |-> NoSubscription]
  /\ task = [l \in Subscription |-> "done"]
  /\ serves = [l \in Subscription |-> CHOOSE c \in Conversation : TRUE]
  /\ cancelled = {}
  /\ ready = {}
  /\ pending = [l \in Subscription |-> {}]
  /\ failed = [l \in Subscription |-> {}]
  /\ endpoint = [s \in Socket |-> "new"]
  /\ awaits = [s \in Socket |-> NoSubscription]
  /\ lifespan = "up"
  /\ draining = {}
  /\ dropped = {}
  /\ redisUp = TRUE

-----------------------------------------------------------------------------
(* subscribe_conversation and unsubscribe_conversation, as parts of the    *)
(* steps of the endpoint handler s that calls them.                        *)

Goto(s, position) == endpoint' = [endpoint EXCEPT ![s] = position]

(* "if self._stopping: return".                                            *)
IgnoreStopping == TRUE
MaySubscribe == lifespan = "up"

(* stop() has run: subscribe_conversation returns without a subscription.  *)
SubscribeWhileStopping(s) ==
  /\ ~MaySubscribe
  /\ Goto(s, "serving")
  /\ UNCHANGED <<subscriptions, loopVars, awaits>>

(* "state is None or state.task.done()"; a faulty form starts a task for   *)
(* every socket.                                                           *)
TaskPerSocket(c) == TRUE
NeedsTask(c) ==
  subscriptions[c] # NoSubscription => task[subscriptions[c]] = "done"

(* A live entry exists: Event.wait() returns at once when the event is set. *)
JoinSubscription(s) ==
  LET l == subscriptions[Room[s]] IN
  /\ MaySubscribe
  /\ ~NeedsTask(Room[s])
  /\ \/ l \in ready /\ Goto(s, "serving") /\ UNCHANGED awaits
     \/ l \notin ready /\ Goto(s, "waiting") /\ awaits' = [awaits EXCEPT ![s] = l]
  /\ UNCHANGED <<subscriptions, loopVars>>

(* None: a SubscriptionState with a fresh event and a task that has been   *)
(* created but has not run yet.                                            *)
CreateSubscription(s) ==
  /\ MaySubscribe
  /\ NeedsTask(Room[s])
  /\ \E l \in Subscription :
       /\ Unused(l)
       /\ task' = [task EXCEPT ![l] = "created"]
       /\ serves' = [serves EXCEPT ![l] = Room[s]]
       /\ ready' = ready \ {l}
       /\ subscriptions' = [subscriptions EXCEPT ![Room[s]] = l]
       /\ awaits' = [awaits EXCEPT ![s] = l]
  /\ Goto(s, "waiting")
  /\ UNCHANGED <<cancelled, pending, failed>>

Subscribe(s) ==
  SubscribeWhileStopping(s) \/ JoinSubscription(s) \/ CreateSubscription(s)

(* Faulty forms of ForceUnsubscribe: the None test dropped, get instead of *)
(* pop, no cancel, no await of the cancelled task.                         *)
UnsubscribeUnchecked(s, awaiting, otherwise) ==
  LET l == subscriptions[Room[s]] IN
  /\ subscriptions' = [subscriptions EXCEPT ![Room[s]] = NoSubscription]
  /\ cancelled' = cancelled \cup {l}
  /\ Goto(s, IF l = NoSubscription THEN otherwise ELSE awaiting)
  /\ awaits' = [awaits EXCEPT ![s] = l]

UnsubscribeKeepsEntry(s, awaiting, otherwise) ==
  LET l == subscriptions[Room[s]] IN
  /\ cancelled' = cancelled \cup ({l} \ {NoSubscription})
  /\ Goto(s, IF l = NoSubscription THEN otherwise ELSE awaiting)
  /\ awaits' = [awaits EXCEPT ![s] = l]
  /\ UNCHANGED subscriptions

UnsubscribeWithoutCancel(s, awaiting, otherwise) ==
  /\ subscriptions' = [subscriptions EXCEPT ![Room[s]] = NoSubscription]
  /\ Goto(s, otherwise)
  /\ awaits' = [awaits EXCEPT ![s] = NoSubscription]
  /\ UNCHANGED cancelled

UnsubscribeWithoutAwait(s, awaiting, otherwise) ==
  /\ subscriptions' = [subscriptions EXCEPT ![Room[s]] = NoSubscription]
  /\ cancelled' = cancelled \cup ({subscriptions[Room[s]]} \ {NoSubscription})
  /\ Goto(s, otherwise)
  /\ awaits' = [awaits EXCEPT ![s] = NoSubscription]

(* unsubscribe_conversation with force: the entry is popped, whoever uses  *)
(* it, its task is cancelled and awaited at awaiting; without an entry the *)
(* call returns at once and the handler goes on to otherwise.              *)
ForceUnsubscribe(s, awaiting, otherwise) ==
  LET l == subscriptions[Room[s]] IN
  \/ /\ l = NoSubscription
     /\ Goto(s, otherwise)
     /\ awaits' = [awaits EXCEPT ![s] = NoSubscription]
     /\ UNCHANGED <<subscriptions, cancelled>>
  \/ /\ l # NoSubscription
     /\ subscriptions' = [subscriptions EXCEPT ![Room[s]] = NoSubscription]
     /\ cancelled' = cancelled \cup {l}
     /\ Goto(s, awaiting)
     /\ awaits' = [awaits EXCEPT ![s] = l]

(* Faulty forms of UnsubscribeUnused: unsubscribe before disconnect, so    *)
(* that the socket counts itself; no count at all.                         *)
UnsubscribeBeforeDisconnect(s) ==
  \/ /\ Connected(Room[s]) # {}
     /\ Goto(s, "gone")
     /\ UNCHANGED <<subscriptions, cancelled, awaits>>
  \/ /\ Connected(Room[s]) = {}
     /\ ForceUnsubscribe(s, "leaving", "gone")

UnsubscribeUncounted(s) == ForceUnsubscribe(s, "leaving", "gone")

(* unsubscribe_conversation without force: only when the connection table  *)
(* has no socket of the conversation left.                                 *)
UnsubscribeUnused(s) ==
  \/ /\ Connected(Room[s]) \ {s} # {}
     /\ Goto(s, "gone")
     /\ UNCHANGED <<subscriptions, cancelled, awaits>>
  \/ /\ Connected(Room[s]) \ {s} = {}
     /\ ForceUnsubscribe(s, "leaving", "gone")

-----------------------------------------------------------------------------
(* The endpoint handler, conversation_websocket.                           *)

(* Token, session factory, user and ownership are checked: the handler     *)
(* goes on to accept() or closes the socket before accepting it.           *)
Admit(s) ==
  /\ endpoint[s] = "new"
  /\ lifespan = "up"
  /\ \E verdict \in {"accepting", "gone"} : Goto(s, verdict)
  /\ UNCHANGED <<connections, subscriptions, loopVars, awaits, lifespan,
                 draining, environment>>

(* accept() returned: register the socket and subscribe, in one step.      *)
Accept(s) ==
  /\ endpoint[s] = "accepting"
  /\ connections' = connections \cup {s}
  /\ Subscribe(s)
  /\ UNCHANGED <<lifespan, draining, environment>>

(* accept() raised because the client is gone: nothing was registered.     *)
AcceptFails(s) ==
  /\ endpoint[s] = "accepting"
  /\ s \in dropped
  /\ Goto(s, "gone")
  /\ UNCHANGED <<connections, subscriptions, loopVars, awaits, lifespan,
                 draining, environment>>

Serve(s) ==
  /\ endpoint[s] = "woken"
  /\ Goto(s, "serving")
  /\ awaits' = [awaits EXCEPT ![s] = NoSubscription]
  /\ UNCHANGED <<connections, subscriptions, loopVars, lifespan, draining,
                 environment>>

(* A faulty AbortConnection: the disconnect is forgotten.                  *)
AbortWithoutDisconnect(s) ==
  /\ ForceUnsubscribe(s, "aborting", "closing")
  /\ UNCHANGED connections

(* After subscribe_conversation raised: disconnect, then unsubscribe with  *)
(* force once more, in one step; close the socket when nothing is awaited. *)
AbortConnection(s) ==
  /\ connections' = connections \ {s}
  /\ ForceUnsubscribe(s, "aborting", "closing")

(* A faulty SubscribeTimesOut: ready.wait() without wait_for.              *)
SubscribeNeverTimesOut(s) == endpoint[s] = "waiting" /\ FALSE /\ UNCHANGED vars

(* The 5 s are over (the timer may fire after ready woke the handler and   *)
(* before it resumed).  With an entry to cancel the handler awaits its     *)
(* task; with none it raises at once and the endpoint goes on.             *)
SubscribeTimesOut(s) ==
  /\ endpoint[s] \in {"waiting", "woken"}
  /\ \/ /\ subscriptions[Room[s]] # NoSubscription
        /\ ForceUnsubscribe(s, "evicting", "evicting")
        /\ UNCHANGED connections
     \/ /\ subscriptions[Room[s]] = NoSubscription
        /\ AbortConnection(s)
  /\ UNCHANGED <<task, serves, ready, pending, failed, lifespan, draining,
                 environment>>

(* The task awaited by the forced unsubscribe ended: TimeoutError becomes  *)
(* RuntimeError and the endpoint aborts the connection.                    *)
EvictionEnds(s) ==
  /\ endpoint[s] = "evicting"
  /\ task[awaits[s]] = "done"
  /\ AbortConnection(s)
  /\ UNCHANGED <<task, serves, ready, pending, failed, lifespan, draining,
                 environment>>

AbortEnds(s) ==
  /\ endpoint[s] = "aborting"
  /\ task[awaits[s]] = "done"
  /\ Goto(s, "closing")
  /\ awaits' = [awaits EXCEPT ![s] = NoSubscription]
  /\ UNCHANGED <<connections, subscriptions, loopVars, lifespan, draining,
                 environment>>

(* websocket.close(1011) and return.                                       *)
Close(s) ==
  /\ endpoint[s] = "closing"
  /\ Goto(s, "gone")
  /\ UNCHANGED <<connections, subscriptions, loopVars, awaits, lifespan,
                 draining, environment>>

(* ChatWebSocketService.run raised: the finally clause disconnects the     *)
(* socket and unsubscribes, in one step.                                   *)
Leave(s) ==
  /\ endpoint[s] = "serving"
  /\ s \in dropped
  /\ connections' = connections \ {s}
  /\ UnsubscribeUnused(s)
  /\ UNCHANGED <<task, serves, ready, pending, failed, lifespan, draining,
                 environment>>

LeaveEnds(s) ==
  /\ endpoint[s] = "leaving"
  /\ task[awaits[s]] = "done"
  /\ Goto(s, "gone")
  /\ awaits' = [awaits EXCEPT ![s] = NoSubscription]
  /\ UNCHANGED <<connections, subscriptions, loopVars, lifespan, draining,
                 environment>>

EndpointStep(s) ==
  \/ Accept(s) \/ AcceptFails(s) \/ Serve(s) \/ SubscribeTimesOut(s)
  \/ EvictionEnds(s) \/ AbortEnds(s) \/ Close(s) \/ Leave(s) \/ LeaveEnds(s)

-----------------------------------------------------------------------------
(* The subscription task l, _subscription_loop.  It finds its entry by     *)
(* conversation id, never by its own identity.                             *)

TaskAt(l, position) == task' = [task EXCEPT ![l] = position]

(* The outer loop test, "while await self._is_subscribed(...)".            *)
NextAttempt(l) ==
  TaskAt(l, IF IsSubscribed(serves[l]) THEN "subscribing" ELSE "done")

(* The inner loop test: poll again, or run the finally clause.             *)
NextPoll(l) ==
  TaskAt(l, IF IsSubscribed(serves[l]) THEN "polling" ELSE "cleanup")

(* _mark_ready sets the event of the entry now registered and so wakes     *)
(* every handler that waits for it; a woken handler stays woken.           *)
MarkReady(c) ==
  LET l == subscriptions[c] IN
  /\ ready' = ready \cup ({l} \ {NoSubscription})
  /\ endpoint' = [s \in Socket |->
       IF endpoint[s] = "waiting" /\ l # NoSubscription /\ awaits[s] = l
       THEN "woken" ELSE endpoint[s]]

ForgetNotReady(c) == UNCHANGED ready
MarkNotReady(c) == ready' = ready \ {subscriptions[c]}

Start(l) ==
  /\ task[l] = "created"
  /\ l \notin cancelled
  /\ NextAttempt(l)
  /\ UNCHANGED <<connections, subscriptions, serves, cancelled, ready, pending,
                 failed, endpointVars, lifespan, draining, environment>>

Subscribed(l) ==
  /\ task[l] = "subscribing"
  /\ l \notin cancelled
  /\ redisUp
  /\ MarkReady(serves[l])
  /\ NextPoll(l)
  /\ UNCHANGED <<connections, subscriptions, serves, cancelled, pending,
                 failed, awaits, lifespan, draining, environment>>

(* RedisError or OSError from subscribe() or get_message(): clear ready,   *)
(* then sleep.                                                             *)
Fail(l) ==
  /\ task[l] \in {"subscribing", "polling"}
  /\ l \notin cancelled
  /\ ~redisUp
  /\ MarkNotReady(serves[l])
  /\ TaskAt(l, "backoff")
  /\ UNCHANGED <<connections, subscriptions, serves, cancelled, pending,
                 failed, endpointVars, lifespan, draining, environment>>

(* get_message() returned a valid frame: snapshot the local sockets and    *)
(* send to them one after the other.                                       *)
Receive(l) ==
  /\ task[l] = "polling"
  /\ l \notin cancelled
  /\ redisUp
  /\ Connected(serves[l]) # {}
  /\ TaskAt(l, "sending")
  /\ pending' = [pending EXCEPT ![l] = Connected(serves[l])]
  /\ failed' = [failed EXCEPT ![l] = {}]
  /\ UNCHANGED <<connections, subscriptions, serves, cancelled, ready,
                 endpointVars, lifespan, draining, environment>>

(* send_json() to s returned or raised; it may raise once the client is    *)
(* gone or the handler has closed the socket.  After the last send the     *)
(* failed sockets leave the connection table and the task polls again.     *)
Send(l, s) ==
  /\ task[l] = "sending"
  /\ l \notin cancelled
  /\ s \in pending[l]
  /\ pending' = [pending EXCEPT ![l] = @ \ {s}]
  /\ \E lost \in {failed[l], failed[l] \cup {s}} :
       /\ lost # failed[l] => s \in dropped \/ endpoint[s] = "gone"
       /\ \/ /\ pending[l] # {s}
             /\ failed' = [failed EXCEPT ![l] = lost]
             /\ UNCHANGED <<connections, task>>
          \/ /\ pending[l] = {s}
             /\ connections' = connections \ lost
             /\ failed' = [failed EXCEPT ![l] = {}]
             /\ NextPoll(l)
  /\ UNCHANGED <<subscriptions, serves, cancelled, ready, endpointVars,
                 lifespan, draining, environment>>

(* get_message() returned None, or a payload that was dropped as invalid,  *)
(* or a frame that no local socket is there to take.                       *)
PollNothing(l) ==
  /\ task[l] = "polling"
  /\ l \notin cancelled
  /\ NextPoll(l)
  /\ UNCHANGED <<connections, subscriptions, serves, cancelled, ready, pending,
                 failed, endpointVars, lifespan, draining, environment>>

(* The backoff sleep is over; the finally clause unsubscribes.             *)
EndBackoff(l) ==
  /\ task[l] = "backoff"
  /\ l \notin cancelled
  /\ TaskAt(l, "cleanup")
  /\ UNCHANGED <<connections, subscriptions, serves, cancelled, ready, pending,
                 failed, endpointVars, lifespan, draining, environment>>

(* A faulty EndCleanup: it gives up instead of trying again.               *)
EndCleanupGivesUp(l) ==
  /\ task[l] = "cleanup"
  /\ l \notin cancelled
  /\ TaskAt(l, "done")
  /\ UNCHANGED <<connections, subscriptions, serves, cancelled, ready, pending,
                 failed, endpointVars, lifespan, draining, environment>>

(* The finally clause is over (its errors are suppressed).                 *)
EndCleanup(l) ==
  /\ task[l] = "cleanup"
  /\ l \notin cancelled
  /\ NextAttempt(l)
  /\ UNCHANGED <<connections, subscriptions, serves, cancelled, ready, pending,
                 failed, endpointVars, lifespan, draining, environment>>

(* A faulty DeliverCancel: a shielded backoff sleep never sees it.         *)
DeliverCancelUnlessAsleep(l) ==
  /\ l \in cancelled
  /\ task[l] \notin {"backoff", "closing", "done"}
  /\ TaskAt(l, "closing")
  /\ pending' = [pending EXCEPT ![l] = {}]
  /\ failed' = [failed EXCEPT ![l] = {}]
  /\ UNCHANGED <<connections, subscriptions, serves, cancelled, ready,
                 endpointVars, lifespan, draining, environment>>

(* CancelledError reaches the task: it never runs when it had not started, *)
(* it ends when it was already in the finally clause, and else runs that   *)
(* clause.  A broadcast it interrupts is given up, its failures forgotten. *)
DeliverCancel(l) ==
  /\ l \in cancelled
  /\ task[l] \notin {"closing", "done"}
  /\ \/ /\ task[l] \in {"created", "cleanup"}
        /\ TaskAt(l, "done")
        /\ cancelled' = cancelled \ {l}
     \/ /\ task[l] \notin {"created", "cleanup"}
        /\ TaskAt(l, "closing")
        /\ UNCHANGED cancelled
  /\ pending' = [pending EXCEPT ![l] = {}]
  /\ failed' = [failed EXCEPT ![l] = {}]
  /\ UNCHANGED <<connections, subscriptions, serves, ready, endpointVars,
                 lifespan, draining, environment>>

EndCancelled(l) ==
  /\ task[l] = "closing"
  /\ TaskAt(l, "done")
  /\ cancelled' = cancelled \ {l}
  /\ UNCHANGED <<connections, subscriptions, serves, ready, pending, failed,
                 endpointVars, lifespan, draining, environment>>

(* The steps of the task that the event loop owes it; a frame to receive   *)
(* depends on somebody publishing one.                                     *)
TaskProgress(l) ==
  \/ Start(l) \/ Subscribed(l) \/ Fail(l) \/ PollNothing(l)
  \/ EndBackoff(l) \/ EndCleanup(l) \/ DeliverCancel(l) \/ EndCancelled(l)
  \/ \E s \in Socket : Send(l, s)

-----------------------------------------------------------------------------
(* The application lifespan (stop, start) and the environment.             *)

Registered == {subscriptions[c] : c \in Conversation} \ {NoSubscription}

(* stop() up to its gather: refuse subscriptions, forget and cancel all.   *)
Stop ==
  /\ lifespan = "up"
  /\ lifespan' = "stopping"
  /\ draining' = Registered
  /\ cancelled' = cancelled \cup Registered
  /\ subscriptions' = [c \in Conversation |-> NoSubscription]
  /\ UNCHANGED <<connections, task, serves, ready, pending, failed,
                 endpointVars, environment>>

StopReturns ==
  /\ lifespan = "stopping"
  /\ \A l \in draining : task[l] = "done"
  /\ lifespan' = "down"
  /\ draining' = {}
  /\ UNCHANGED <<connections, subscriptions, loopVars, endpointVars,
                 environment>>

(* The module-level singletons serve the next lifespan of the process,     *)
(* which starts once the handlers of the last one have ended.              *)
StartAgain ==
  /\ lifespan = "down"
  /\ \A s \in Socket : endpoint[s] \in {"new", "gone"}
  /\ lifespan' = "up"
  /\ UNCHANGED <<connections, subscriptions, loopVars, endpointVars, draining,
                 environment>>

(* The client goes away, or sends a frame that is no text, over which      *)
(* receive_json() raises what ChatWebSocketService.run does not handle.    *)
Drop(s) ==
  /\ endpoint[s] \notin {"new", "gone"}
  /\ s \notin dropped
  /\ dropped' = dropped \cup {s}
  /\ UNCHANGED <<connections, subscriptions, loopVars, endpointVars, lifespan,
                 draining, redisUp>>

ToggleRedis ==
  /\ redisUp' = ~redisUp
  /\ UNCHANGED <<connections, subscriptions, loopVars, endpointVars, lifespan,
                 draining, dropped>>

Next ==
  \/ \E s \in Socket : Admit(s) \/ EndpointStep(s) \/ Drop(s)
  \/ \E l \in Subscription : TaskProgress(l) \/ Receive(l)
  \/ Stop \/ StopReturns \/ StartAgain \/ ToggleRedis

Spec == Init /\ [][Next]_vars

(* Every runnable task is resumed; timers, sends and the calls of the      *)
(* finally clause end.                                                     *)
Fairness ==
  /\ \A s \in Socket : WF_vars(EndpointStep(s))
  /\ \A l \in Subscription : WF_vars(TaskProgress(l))
  /\ WF_vars(StopReturns)

FairSpec == Spec /\ Fairness

-----------------------------------------------------------------------------
(* Correctness.                                                            *)

(* The handlers between connect() and disconnect(): each of them will run  *)
(* the unsubscribe that its subscription needs.                            *)
Attached(s) == endpoint[s] \in {"waiting", "woken", "evicting", "serving"}

Alive(l) == task[l] # "done"

(* A socket of the connection table has a handler that is still to take it *)
(* out: no ended handler leaves its socket behind for broadcasts and for   *)
(* the count that keeps a subscription open.                               *)
ConnectionsAreAttached == \A s \in connections : Attached(s)

(* A registered subscription has a live task of its own conversation that  *)
(* nobody has cancelled: subscribe_conversation never joins a dead task.   *)
RegisteredIsAlive ==
  \A c \in Conversation : LET l == subscriptions[c] IN
    l # NoSubscription => Alive(l) /\ l \notin cancelled /\ serves[l] = c

(* A live task that nobody has cancelled is the registered one: however    *)
(* unsubscribes, timeouts and new sockets interleave, two tasks never      *)
(* broadcast the same conversation, and the lookups by conversation id in  *)
(* _mark_ready, _mark_not_ready and _is_subscribed find the caller's own   *)
(* entry.                                                                  *)
OneTaskPerConversation ==
  \A l \in Subscription :
    Alive(l) /\ l \notin cancelled => subscriptions[serves[l]] = l

(* A registered subscription has a handler of its conversation that is     *)
(* still to unsubscribe: subscriptions do not outlive their sockets.       *)
NoOrphanSubscription ==
  \A c \in Conversation :
    subscriptions[c] # NoSubscription =>
      \E s \in Socket : Room[s] = c /\ Attached(s)

(* The ready event of a registered subscription is set only while its task *)
(* holds a Redis subscription: a socket that joins is served at once only  *)
(* when frames can reach it.                                               *)
ReadyIsListening ==
  \A c \in Conversation : LET l == subscriptions[c] IN
    l # NoSubscription /\ l \in ready => task[l] \in {"polling", "sending"}

(* A cancelled task that has not ended is awaited by the handler that      *)
(* cancelled it or gathered by stop(): none is left to itself.             *)
CancelledIsAwaited ==
  \A l \in cancelled :
    \/ l \in draining
    \/ \E s \in Socket :
         awaits[s] = l /\ endpoint[s] \in {"evicting", "aborting", "leaving"}

(* Once stop() has run nothing is registered, and every task left is on    *)
(* its way out; once it has returned none that it gathered is left.        *)
StopLeavesNothingRunning ==
  /\ lifespan # "up" =>
       /\ \A c \in Conversation : subscriptions[c] = NoSubscription
       /\ \A l \in Subscription : Alive(l) => l \in cancelled
  /\ lifespan # "stopping" => draining = {}

(* Only a task that is still to end is cancelled, and only a cancelled one *)
(* unwinds: with the invariants above, what makes them inductive.          *)
CancelIsInProgress ==
  /\ \A l \in cancelled : Alive(l)
  /\ \A l \in Subscription : task[l] = "closing" => l \in cancelled

(* The inductive invariant.                                                *)
LifecycleInv ==
  /\ TypeOK
  /\ ConnectionsAreAttached
  /\ RegisteredIsAlive
  /\ OneTaskPerConversation
  /\ NoOrphanSubscription
  /\ ReadyIsListening
  /\ CancelledIsAwaited
  /\ StopLeavesNothingRunning
  /\ CancelIsInProgress

(* README, "Redis Fan-Out": an instance with local clients for a           *)
(* conversation is subscribed to its channel.  Stated for an application   *)
(* that is up and a conversation no handler of which is on its way in or   *)
(* out, so that nothing is left that could still subscribe.                *)
ServedSocketHasSubscription ==
  \A s \in connections :
    /\ lifespan = "up"
    /\ endpoint[s] = "serving" /\ s \notin dropped
    /\ \A t \in Socket : Room[t] = Room[s] => endpoint[t] \in {"new", "serving", "gone"}
    => subscriptions[Room[s]] # NoSubscription

(* The subscription of a conversation goes although a served socket stays. *)
Strands(c) ==
  /\ subscriptions[c] # NoSubscription
  /\ subscriptions'[c] = NoSubscription
  /\ \E s \in connections' : Room[s] = c /\ endpoint'[s] = "serving"

(* A handler of the conversation goes into one of the forced unsubscribes. *)
Forces(c) ==
  \E s \in Socket : \E position \in {"evicting", "aborting"} :
    Room[s] = c /\ endpoint[s] # position /\ endpoint'[s] = position

StrandsOnlyByForce ==
  \A c \in Conversation : Strands(c) => Forces(c) \/ lifespan' # "up"

(* Only a forced unsubscribe or stop() takes the subscription away from a  *)
(* conversation with a connected, served socket; the unsubscribe of a      *)
(* handler that leaves never does, whatever joined while it was leaving.   *)
OnlyForceStrandsSockets == [][StrandsOnlyByForce]_vars

(* The tasks of a conversation that still act: alive and not cancelled.    *)
Acting(c) == {l \in Subscription : serves[l] = c /\ Alive(l) /\ l \notin cancelled}

Listening(l) == task[l] \in {"polling", "sending"}
Heard == {c \in Conversation : \E l \in Acting(c) : Listening(l)}
Targets == [c \in Conversation |-> UNION {pending[l] : l \in Acting(c)}]

(* Whatever tasks come and go, each conversation has one listener at a     *)
(* time, which broadcasts frame by frame to the sockets it found; neither  *)
(* a cancelled task nor one that was replaced ever sends again.            *)
Broadcasts == INSTANCE Listener WITH
  members <- connections, hearing <- Heard, targets <- Targets
ImplementsListener == Broadcasts!Spec

(* Every handler whose client has gone ends, whatever it was waiting for.  *)
DroppedHandlerEnds ==
  \A s \in Socket : s \in dropped ~> endpoint[s] = "gone"

(* No handler waits for ever on an event that nobody will set.             *)
WaitEnds ==
  \A s \in Socket : endpoint[s] = "waiting" ~> endpoint[s] # "waiting"

(* With Redis back for good, a subscription that stays registered is ready *)
(* again: the task retries until it is.                                    *)
RecoversAfterOutage ==
  \A c \in Conversation :
    <>[]redisUp =>
      []<>(subscriptions[c] = NoSubscription \/ subscriptions[c] \in ready)

(* stop() returns.                                                         *)
StopEnds == lifespan = "stopping" ~> lifespan = "down"

=============================================================================
