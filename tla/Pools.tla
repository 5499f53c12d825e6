-------------------------------- MODULE Pools --------------------------------
(***************************************************************************)
(* The connection pools of one API process: who holds a connection to      *)
(* PostgreSQL or Redis, and what it waits for meanwhile.                   *)
(*                                                                         *)
(* A subscription task (app/websocket/pubsub.py) keeps one Redis           *)
(* connection for as long as it listens.  A message.send                   *)
(* (app/services/chat.py) takes a database connection for a transaction    *)
(* and then a Redis connection for one PUBLISH, a readiness probe          *)
(* (app/routers/health.py) both for a SELECT 1 and a PING.  The Redis pool *)
(* raises when it is full, the database pool makes its users wait.         *)
(*                                                                         *)
(* Which conversation a subscription serves, and when it is created and    *)
(* cancelled, is in SubscriptionLifecycle; here it comes and goes freely.  *)
(***************************************************************************)
EXTENDS Naturals, FiniteSets

CONSTANTS
  Subscription,     \* subscription tasks
  Request,          \* message.send frames and readiness probes
  Probe,            \* the readiness probes among them
  MaxConnections,   \* redis_max_connections
  MaxDatabase       \* db_pool_size + db_max_overflow

ASSUME SubscriptionAssumption == IsFiniteSet(Subscription)
ASSUME RequestAssumption == IsFiniteSet(Request) /\ Probe \subseteq Request
ASSUME LimitsAssumption == MaxConnections \in Nat /\ MaxDatabase \in Nat

VARIABLES
  task,         \* where each subscription task is
  cancelled,    \* the tasks with a cancel() under way
  holds,        \* the tasks whose PubSub has a connection
  lost,         \* connections that no task will give back
  step,         \* where each request is
  db,           \* the requests that have a database connection
  redis         \* Redis answers, refuses, or is silent ("hung")

tasks == <<task, cancelled, holds, lost>>
requests == <<step, db>>
vars == <<tasks, requests, redis>>

(* Commands under way: each has a Redis connection.                        *)
Sending == {q \in Request : step[q] = "sending"}

InUse == Cardinality(holds) + lost + Cardinality(Sending)

TypeOK ==
  /\ task \in [Subscription -> {"off", "connecting", "opening", "listening",
                                "backoff", "cleanup", "closing"}]
  /\ cancelled \in SUBSET Subscription
  /\ holds \in SUBSET Subscription
  /\ lost \in 0..MaxConnections
  /\ \A l \in holds : task[l] \notin {"off", "connecting"}
  /\ step \in [Request -> {"idle", "waiting", "storing", "publishing", "sending"}]
  /\ db \in SUBSET Request
  /\ redis \in {"up", "down", "hung"}

Init ==
  /\ task = [l \in Subscription |-> "off"]
  /\ cancelled = {}
  /\ holds = {}
  /\ lost = 0
  /\ step = [q \in Request |-> "idle"]
  /\ db = {}
  /\ redis = "up"

-----------------------------------------------------------------------------

TaskAt(l, position) == task' = [task EXCEPT ![l] = position]
StepTo(q, position) == step' = [step EXCEPT ![q] = position]

(* get_connection of the Redis pool, which raises when there is no room; a  *)
(* faulty form admits one connection too many.                             *)
RoomForOneMore == InUse <= MaxConnections
Room == InUse < MaxConnections

-----------------------------------------------------------------------------
(* The subscription task l.                                                *)

Subscribe(l) ==
  /\ task[l] = "off"
  /\ TaskAt(l, "connecting")
  /\ UNCHANGED <<cancelled, holds, lost, requests, redis>>

(* The entry is popped and its task cancelled.                             *)
Unsubscribe(l) ==
  /\ task[l] # "off"
  /\ l \notin cancelled
  /\ cancelled' = cancelled \cup {l}
  /\ UNCHANGED <<task, holds, lost, requests, redis>>

(* pubsub.subscribe takes a connection of the pool, or raises.             *)
TakeConnection(l) ==
  /\ task[l] = "connecting" /\ l \notin cancelled
  /\ \/ Room /\ TaskAt(l, "opening") /\ holds' = holds \cup {l}
     \/ ~Room /\ TaskAt(l, "backoff") /\ UNCHANGED holds
  /\ UNCHANGED <<cancelled, lost, requests, redis>>

(* The connection is opened, or given back to the pool.                    *)
OpenConnection(l) ==
  /\ task[l] = "opening" /\ l \notin cancelled
  /\ \/ redis = "up" /\ TaskAt(l, "listening") /\ UNCHANGED holds
     \/ redis = "down" /\ TaskAt(l, "backoff") /\ holds' = holds \ {l}
  /\ UNCHANGED <<cancelled, lost, requests, redis>>

(* get_message, or the handling of a frame, raises.                        *)
ListenFails(l) ==
  /\ task[l] = "listening" /\ l \notin cancelled
  /\ TaskAt(l, "backoff")
  /\ UNCHANGED <<cancelled, holds, lost, requests, redis>>

EndBackoff(l) ==
  /\ task[l] = "backoff" /\ l \notin cancelled
  /\ TaskAt(l, "cleanup")
  /\ UNCHANGED <<cancelled, holds, lost, requests, redis>>

(* unsubscribe() and aclose(), under one suppress: when the first raises   *)
(* the second is skipped, and with it the return of the connection.        *)
(* Without a connection unsubscribe() would first take one.                *)
GiveBack(l) ==
  \/ /\ l \in holds /\ redis # "down"
     /\ holds' = holds \ {l}
     /\ UNCHANGED lost
  \/ /\ l \in holds /\ redis = "down"
     /\ holds' = holds \ {l}
     /\ lost' = lost + 1
  \/ /\ l \notin holds /\ (redis # "hung" \/ ~Room)
     /\ UNCHANGED <<holds, lost>>

(* A faulty EndCleanup: the task gives up instead of trying again.         *)
EndCleanupGivesUp(l) ==
  /\ task[l] = "cleanup" /\ l \notin cancelled
  /\ GiveBack(l)
  /\ TaskAt(l, "off")
  /\ UNCHANGED <<cancelled, requests, redis>>

(* The finally clause of a failed attempt; then the next attempt.          *)
EndCleanup(l) ==
  /\ task[l] = "cleanup" /\ l \notin cancelled
  /\ GiveBack(l)
  /\ TaskAt(l, "connecting")
  /\ UNCHANGED <<cancelled, requests, redis>>

(* The finally clause of a cancelled attempt.                              *)
EndClosing(l) ==
  /\ task[l] = "closing"
  /\ GiveBack(l)
  /\ TaskAt(l, "off")
  /\ cancelled' = cancelled \ {l}
  /\ UNCHANGED <<requests, redis>>

(* CancelledError: a connection being opened is given back.  It cuts a     *)
(* finally clause short, which is not run again.                           *)
DeliverCancel(l) ==
  /\ l \in cancelled
  /\ \/ /\ task[l] \in {"connecting", "opening", "listening", "backoff"}
        /\ TaskAt(l, "closing")
        /\ holds' = IF task[l] = "opening" THEN holds \ {l} ELSE holds
        /\ UNCHANGED <<cancelled, lost>>
     \/ /\ task[l] = "cleanup"
        /\ TaskAt(l, "off")
        /\ cancelled' = cancelled \ {l}
        /\ holds' = holds \ {l}
        /\ lost' = IF l \in holds THEN lost + 1 ELSE lost
  /\ UNCHANGED <<requests, redis>>

TaskStep(l) ==
  \/ TakeConnection(l) \/ OpenConnection(l) \/ EndBackoff(l) \/ EndCleanup(l)
  \/ EndClosing(l) \/ DeliverCancel(l)

-----------------------------------------------------------------------------
(* The request q: a message.send, one round of it for each of its two      *)
(* messages, or a readiness probe.                                         *)

Arrive(q) ==
  /\ step[q] = "idle"
  /\ StepTo(q, "waiting")
  /\ UNCHANGED <<tasks, db, redis>>

TakeDatabase(q) ==
  /\ step[q] = "waiting"
  /\ Cardinality(db) < MaxDatabase
  /\ db' = db \cup {q}
  /\ StepTo(q, "storing")
  /\ UNCHANGED <<tasks, redis>>

(* pool_timeout: a sender is told, a probe goes on to Redis.               *)
TakeDatabaseFails(q) ==
  /\ step[q] = "waiting"
  /\ StepTo(q, IF q \in Probe THEN "publishing" ELSE "idle")
  /\ UNCHANGED <<tasks, db, redis>>

(* A faulty Stored: the message is published before the commit.            *)
StoredUncommitted(q) ==
  /\ step[q] = "storing"
  /\ StepTo(q, "publishing")
  /\ UNCHANGED <<tasks, db, redis>>

(* The commit of a message gives its connection back; that of a probe      *)
(* stays with its session until the response.                              *)
Stored(q) ==
  /\ step[q] = "storing"
  /\ StepTo(q, "publishing")
  /\ db' = IF q \in Probe THEN db ELSE db \ {q}
  /\ UNCHANGED <<tasks, redis>>

StoreFails(q) ==
  /\ q \notin Probe
  /\ step[q] = "storing"
  /\ StepTo(q, "idle")
  /\ db' = db \ {q}
  /\ UNCHANGED <<tasks, redis>>

(* PUBLISH or PING takes a connection, or raises, which ends the request.  *)
SendCommand(q) ==
  /\ step[q] = "publishing"
  /\ \/ Room /\ StepTo(q, "sending") /\ UNCHANGED db
     \/ ~Room /\ StepTo(q, "idle") /\ db' = db \ {q}
  /\ UNCHANGED <<tasks, redis>>

(* Redis answers or the command raises; no timeout ends the wait for a     *)
(* Redis that does neither.                                                *)
CommandEnds(q) ==
  /\ step[q] = "sending"
  /\ redis # "hung"
  /\ StepTo(q, "idle")
  /\ db' = db \ {q}
  /\ UNCHANGED <<tasks, redis>>

RedisTurns ==
  /\ \E state \in {"up", "down", "hung"} \ {redis} : redis' = state
  /\ UNCHANGED <<tasks, requests>>

Next ==
  \/ \E l \in Subscription :
       Subscribe(l) \/ Unsubscribe(l) \/ ListenFails(l) \/ TaskStep(l)
  \/ \E q \in Request :
       \/ Arrive(q) \/ TakeDatabase(q) \/ TakeDatabaseFails(q) \/ Stored(q)
       \/ StoreFails(q) \/ SendCommand(q) \/ CommandEnds(q)
  \/ RedisTurns

Spec == Init /\ [][Next]_vars

(* The event loop runs every task that can run; statements end, commands   *)
(* that Redis answers or refuses end, and the database pool serves those   *)
(* who wait in turn.                                                       *)
Fairness ==
  /\ \A l \in Subscription : WF_vars(TaskStep(l))
  /\ \A q \in Request :
       /\ SF_vars(TakeDatabase(q))
       /\ WF_vars(Stored(q)) /\ WF_vars(SendCommand(q)) /\ WF_vars(CommandEnds(q))

FairSpec == Spec /\ Fairness

-----------------------------------------------------------------------------
(* Correctness.                                                            *)

(* With Redis back for good, a task that backed off listens again, unless  *)
(* it is cancelled, as long as the pool has room beside the connections    *)
(* that were lost.                                                         *)
ListensAgain(l) == task[l] = "backoff" ~> task[l] = "listening" \/ l \in cancelled
RecoversWithRoom ==
  \A l \in Subscription :
    <>[](/\ redis = "up"
         /\ lost + Cardinality(Subscription) + Cardinality(Request) <= MaxConnections)
      => ListensAgain(l)

(* A silent Redis does not keep messages from being saved: whoever waits   *)
(* for the database gets there, while there are fewer probes than          *)
(* database connections.                                                   *)
SavesGoOn ==
  \A q \in Request : step[q] = "waiting" ~> step[q] # "waiting"

(* README, "Redis Fan-Out": an instance with local clients for a           *)
(* conversation subscribes to its channel; here, once Redis is back for    *)
(* good and whatever happened before.                                      *)
SubscribesAgain == \A l \in Subscription : <>[](redis = "up") => ListensAgain(l)

=============================================================================
