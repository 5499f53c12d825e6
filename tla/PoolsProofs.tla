------------------------------ MODULE PoolsProofs ------------------------------
(***************************************************************************)
(* Safety of Pools for every finite set of subscriptions and requests and  *)
(* all limits of the pools.                                                *)
(*                                                                         *)
(* PoolsInv is inductive: neither pool is ever overbooked.  A lost         *)
(* connection takes the place of one that a task held, so what is lost is  *)
(* bounded by the pool as well.                                            *)
(***************************************************************************)
EXTENDS Pools, FiniteSetTheorems, TLAPS

Booked == InUse <= MaxConnections /\ Cardinality(db) <= MaxDatabase

PoolsInv == TypeOK /\ Booked

-----------------------------------------------------------------------------
(* Counting.                                                               *)

LEMMA Counts ==
  ASSUME NEW S \in SUBSET Subscription, NEW Q \in SUBSET Request
  PROVE  /\ IsFiniteSet(S) /\ IsFiniteSet(Q)
         /\ Cardinality(S) \in Nat /\ Cardinality(Q) \in Nat
         /\ \A l \in Subscription \ S : Cardinality(S \cup {l}) = Cardinality(S) + 1
         /\ \A l \in S : Cardinality(S \ {l}) = Cardinality(S) - 1
         /\ \A q \in Request \ Q : Cardinality(Q \cup {q}) = Cardinality(Q) + 1
         /\ \A q \in Q : Cardinality(Q \ {q}) = Cardinality(Q) - 1
<1>1. IsFiniteSet(S) /\ IsFiniteSet(Q)
  BY SubscriptionAssumption, RequestAssumption, FS_Subset
<1> QED  BY <1>1, FS_CardinalityType, FS_AddElement, FS_RemoveElement

LEMMA Shrinks ==
  ASSUME NEW Q \in SUBSET Request, NEW q
  PROVE  Cardinality(Q \ {q}) <= Cardinality(Q)
<1>1. IsFiniteSet(Q) /\ Q \ {q} \in SUBSET Q
  BY RequestAssumption, FS_Subset
<1> QED  BY <1>1, FS_Subset

LEMMA SendingStep ==
  ASSUME TypeOK, NEW q \in Request, NEW position, StepTo(q, position)
  PROVE  /\ Sending \in SUBSET Request /\ Sending' \in SUBSET Request
         /\ step[q] # "sending" /\ position # "sending" => Sending' = Sending
         /\ step[q] # "sending" /\ position = "sending" =>
              q \notin Sending /\ Sending' = Sending \cup {q}
         /\ step[q] = "sending" /\ position # "sending" =>
              q \in Sending /\ Sending' = Sending \ {q}
BY DEF TypeOK, StepTo, Sending

(* A step of a task that keeps the number of its connections and the lost  *)
(* ones together.                                                          *)
LEMMA TaskFrame ==
  ASSUME PoolsInv, TypeOK', UNCHANGED requests,
         Cardinality(holds') + lost' <= Cardinality(holds) + lost
  PROVE  Booked'
<1>1. Sending' = Sending /\ Sending \in SUBSET Request
  BY DEF requests, Sending
<1>2. holds \in SUBSET Subscription /\ holds' \in SUBSET Subscription
  BY DEF PoolsInv, TypeOK
<1>3. /\ Cardinality(Sending) \in Nat
      /\ Cardinality(holds) \in Nat /\ Cardinality(holds') \in Nat
  BY <1>1, <1>2, Counts
<1>4. lost \in Nat /\ lost' \in Nat /\ MaxConnections \in Nat
  BY LimitsAssumption DEF PoolsInv, TypeOK
<1> QED  BY <1>1, <1>3, <1>4 DEF PoolsInv, Booked, InUse, requests

-----------------------------------------------------------------------------
(* The tasks.                                                              *)

(* What GiveBack does to the connections, whatever the task does next.     *)
LEMMA GiveBackCounts ==
  ASSUME PoolsInv, NEW l \in Subscription, GiveBack(l)
  PROVE  /\ holds' = holds \ {l}
         /\ lost' \in 0..MaxConnections
         /\ Cardinality(holds') + lost' <= Cardinality(holds) + lost
<1>1. holds \in SUBSET Subscription /\ Sending \in SUBSET Request
  BY DEF PoolsInv, TypeOK, Sending
<1>2. Cardinality(holds) \in Nat /\ Cardinality(Sending) \in Nat
      /\ (l \in holds => Cardinality(holds \ {l}) = Cardinality(holds) - 1)
      /\ (l \in holds => Cardinality(holds \ {l}) \in Nat)
  <2>1. holds \ {l} \in SUBSET Subscription
    BY <1>1
  <2> QED  BY <1>1, <2>1, Counts
<1>3. lost \in Nat /\ lost <= MaxConnections /\ MaxConnections \in Nat
  BY LimitsAssumption DEF PoolsInv, TypeOK
<1>4. Cardinality(holds) + lost + Cardinality(Sending) <= MaxConnections
  BY DEF PoolsInv, Booked, InUse
<1>5. CASE l \in holds /\ holds' = holds \ {l} /\ lost' = lost
  BY <1>2, <1>3, <1>5
<1>6. CASE l \in holds /\ holds' = holds \ {l} /\ lost' = lost + 1
  BY <1>2, <1>3, <1>4, <1>6
<1>7. CASE l \notin holds /\ UNCHANGED <<holds, lost>>
  BY <1>2, <1>3, <1>7
<1> QED  BY <1>5, <1>6, <1>7 DEF GiveBack

LEMMA TaskInv ==
  ASSUME PoolsInv, NEW l \in Subscription,
         \/ Subscribe(l) \/ Unsubscribe(l) \/ OpenConnection(l) \/ ListenFails(l)
         \/ EndBackoff(l)
  PROVE  PoolsInv'
<1>1. TypeOK'
  BY DEF PoolsInv, TypeOK, TaskAt, requests, Subscribe, Unsubscribe, OpenConnection,
     ListenFails, EndBackoff
<1>2. UNCHANGED <<requests, lost>>
  BY DEF Subscribe, Unsubscribe, OpenConnection, ListenFails, EndBackoff
<1>3. holds' = holds \/ holds' = holds \ {l}
  <2>1. OpenConnection(l) => holds' = holds \/ holds' = holds \ {l}
    BY DEF OpenConnection
  <2>2. Subscribe(l) \/ Unsubscribe(l) \/ ListenFails(l) \/ EndBackoff(l) => holds' = holds
    BY DEF Subscribe, Unsubscribe, ListenFails, EndBackoff
  <2> QED  BY <2>1, <2>2
<1>4. Cardinality(holds') <= Cardinality(holds)
  <2>1. IsFiniteSet(holds) /\ holds' \in SUBSET holds
    BY <1>3, Counts DEF PoolsInv, TypeOK
  <2> QED  BY <2>1, FS_Subset
<1>5. lost \in Nat /\ Cardinality(holds) \in Nat /\ Cardinality(holds') \in Nat
  <2>1. holds \in SUBSET Subscription /\ holds' \in SUBSET Subscription
    BY <1>1 DEF PoolsInv, TypeOK
  <2>2. lost \in Nat
    BY LimitsAssumption DEF PoolsInv, TypeOK
  <2> QED  BY <2>1, <2>2, Counts
<1> QED  BY <1>1, <1>2, <1>4, <1>5, TaskFrame DEF PoolsInv

LEMMA TakeConnectionInv ==
  ASSUME PoolsInv, NEW l \in Subscription, TakeConnection(l)
  PROVE  PoolsInv'
<1>1. TypeOK'
  BY DEF PoolsInv, TypeOK, TaskAt, requests, TakeConnection
<1>2. CASE UNCHANGED holds
  <2>1. lost \in Nat /\ holds \in SUBSET Subscription
    BY LimitsAssumption DEF PoolsInv, TypeOK
  <2>2. Cardinality(holds) \in Nat
    BY <2>1, Counts
  <2> QED  BY <1>1, <1>2, <2>1, <2>2, TaskFrame DEF PoolsInv, TakeConnection
<1>3. CASE Room /\ holds' = holds \cup {l}
  <2>1. l \notin holds /\ holds \in SUBSET Subscription
    BY DEF PoolsInv, TypeOK, TakeConnection
  <2>2. Sending' = Sending /\ Sending \in SUBSET Request /\ UNCHANGED <<lost, db>>
    BY DEF TakeConnection, requests, Sending
  <2>3. /\ Cardinality(holds') = Cardinality(holds) + 1
        /\ Cardinality(holds) \in Nat /\ Cardinality(Sending) \in Nat
    BY <1>3, <2>1, <2>2, Counts
  <2>4. lost \in Nat /\ MaxConnections \in Nat
    BY LimitsAssumption DEF PoolsInv, TypeOK
  <2> QED  BY <1>1, <1>3, <2>2, <2>3, <2>4 DEF PoolsInv, Booked, Room, InUse
<1> QED  BY <1>2, <1>3 DEF TakeConnection

LEMMA CleanupInv ==
  ASSUME PoolsInv, NEW l \in Subscription, EndCleanup(l) \/ EndClosing(l)
  PROVE  PoolsInv'
<1>1. UNCHANGED requests /\ GiveBack(l)
  BY DEF EndCleanup, EndClosing
<1>2. /\ holds' = holds \ {l}
      /\ lost' \in 0..MaxConnections
      /\ Cardinality(holds') + lost' <= Cardinality(holds) + lost
  BY <1>1, GiveBackCounts
<1>3. TypeOK'
  BY <1>2 DEF PoolsInv, TypeOK, TaskAt, requests, EndCleanup, EndClosing
<1> QED  BY <1>1, <1>2, <1>3, TaskFrame DEF PoolsInv

LEMMA DeliverCancelInv ==
  ASSUME PoolsInv, NEW l \in Subscription, DeliverCancel(l)
  PROVE  PoolsInv'
<1>1. UNCHANGED requests
  BY DEF DeliverCancel
<1>2. holds \in SUBSET Subscription /\ Sending \in SUBSET Request
  BY DEF PoolsInv, TypeOK, Sending
<1>3. Cardinality(holds) \in Nat /\ Cardinality(Sending) \in Nat
      /\ (l \in holds => Cardinality(holds \ {l}) = Cardinality(holds) - 1)
      /\ (l \in holds => Cardinality(holds \ {l}) \in Nat)
  <2>1. holds \ {l} \in SUBSET Subscription
    BY <1>2
  <2> QED  BY <1>2, <2>1, Counts
<1>4. lost \in Nat /\ lost <= MaxConnections /\ MaxConnections \in Nat
  BY LimitsAssumption DEF PoolsInv, TypeOK
<1>5. Cardinality(holds) + lost + Cardinality(Sending) <= MaxConnections
  BY DEF PoolsInv, Booked, InUse
<1>6. \/ holds' = holds /\ lost' = lost
      \/ l \in holds /\ holds' = holds \ {l} /\ lost' \in {lost, lost + 1}
  <2>1. \/ holds' = holds \ {l} /\ lost' = IF l \in holds THEN lost + 1 ELSE lost
        \/ holds' = (IF task[l] = "opening" THEN holds \ {l} ELSE holds) /\ lost' = lost
    BY DEF DeliverCancel
  <2>2. CASE l \in holds
    BY <2>1, <2>2
  <2>3. CASE l \notin holds
    <3>1. holds \ {l} = holds
      BY <2>3
    <3> QED  BY <2>1, <2>3, <3>1
  <2> QED  BY <2>2, <2>3
<1>7. /\ lost' \in 0..MaxConnections
      /\ Cardinality(holds') + lost' <= Cardinality(holds) + lost
  BY <1>3, <1>4, <1>5, <1>6
<1>8. TypeOK'
  BY <1>6, <1>7 DEF PoolsInv, TypeOK, TaskAt, requests, DeliverCancel
<1> QED  BY <1>1, <1>7, <1>8, TaskFrame DEF PoolsInv

-----------------------------------------------------------------------------
(* The requests.                                                           *)

LEMMA RequestFrame ==
  ASSUME PoolsInv, UNCHANGED tasks, Sending \in SUBSET Request,
         Cardinality(Sending') \in Nat, Cardinality(Sending') <= Cardinality(Sending)
  PROVE  InUse' <= MaxConnections
<1>1. holds \in SUBSET Subscription /\ lost \in Nat /\ MaxConnections \in Nat
  BY LimitsAssumption DEF PoolsInv, TypeOK
<1>2. Cardinality(holds) \in Nat /\ Cardinality(Sending) \in Nat
  BY <1>1, Counts
<1> QED  BY <1>1, <1>2 DEF PoolsInv, Booked, InUse, tasks

LEMMA RequestInv ==
  ASSUME PoolsInv, NEW q \in Request,
         \/ Arrive(q) \/ TakeDatabaseFails(q) \/ Stored(q) \/ StoreFails(q)
         \/ CommandEnds(q) \/ (SendCommand(q) /\ ~Room)
  PROVE  PoolsInv'
<1>1. TypeOK'
  BY DEF PoolsInv, TypeOK, StepTo, tasks, Arrive, TakeDatabaseFails, Stored,
     StoreFails, CommandEnds, SendCommand
<1>2. PICK position \in {"waiting", "publishing", "idle"} : StepTo(q, position)
  BY DEF Arrive, TakeDatabaseFails, Stored, StoreFails, CommandEnds, SendCommand
<1>3. /\ Sending \in SUBSET Request /\ Sending' \in SUBSET Request
      /\ Sending' = Sending \/ Sending' = Sending \ {q}
  <2>1. /\ Sending \in SUBSET Request /\ Sending' \in SUBSET Request
        /\ step[q] # "sending" => Sending' = Sending
        /\ step[q] = "sending" => Sending' = Sending \ {q}
    BY <1>2, SendingStep DEF PoolsInv
  <2> QED  BY <2>1
<1>4. /\ Cardinality(Sending') \in Nat /\ Cardinality(Sending) \in Nat
      /\ Cardinality(Sending') <= Cardinality(Sending)
  <2>1. Cardinality(Sending') \in Nat /\ Cardinality(Sending) \in Nat
    BY <1>3, Counts
  <2>2. Cardinality(Sending \ {q}) <= Cardinality(Sending)
    BY <1>3, Shrinks
  <2> QED  BY <1>3, <2>1, <2>2
<1>5. UNCHANGED tasks
  BY DEF Arrive, TakeDatabaseFails, Stored, StoreFails, CommandEnds, SendCommand
<1>6. InUse' <= MaxConnections
  BY <1>3, <1>4, <1>5, RequestFrame
<1>7. Cardinality(db') <= MaxDatabase
  <2>1. db' = db \/ db' = db \ {q}
    BY DEF Arrive, TakeDatabaseFails, Stored, StoreFails, CommandEnds, SendCommand
  <2>2. db \in SUBSET Request /\ db' \in SUBSET Request
    BY <1>1 DEF PoolsInv, TypeOK
  <2>3. Cardinality(db) \in Nat /\ Cardinality(db') \in Nat
    BY <2>2, Counts
  <2>4. Cardinality(db \ {q}) <= Cardinality(db)
    BY <2>2, Shrinks
  <2>5. Cardinality(db') <= Cardinality(db)
    BY <2>1, <2>3, <2>4
  <2> QED  BY <2>3, <2>5, LimitsAssumption DEF PoolsInv, Booked
<1> QED  BY <1>1, <1>6, <1>7 DEF PoolsInv, Booked

LEMMA TakeDatabaseInv ==
  ASSUME PoolsInv, NEW q \in Request, TakeDatabase(q)
  PROVE  PoolsInv'
<1>1. TypeOK'
  BY DEF PoolsInv, TypeOK, StepTo, tasks, TakeDatabase
<1>2. Sending \in SUBSET Request /\ Sending' = Sending
  BY SendingStep DEF PoolsInv, TakeDatabase
<1>3. Cardinality(Sending) \in Nat /\ Cardinality(db) \in Nat
  BY <1>2, Counts DEF PoolsInv, TypeOK
<1>4. InUse' <= MaxConnections
  BY <1>2, <1>3, RequestFrame DEF TakeDatabase
<1>5. Cardinality(db \cup {q}) <= Cardinality(db) + 1
  BY <1>3, RequestAssumption, FS_Subset, FS_AddElement DEF PoolsInv, TypeOK
<1>6. Cardinality(db \cup {q}) \in Nat
  <2>1. db \cup {q} \in SUBSET Request
    BY DEF PoolsInv, TypeOK
  <2> QED  BY <2>1, Counts
<1>7. Cardinality(db') <= MaxDatabase
  BY <1>3, <1>5, <1>6, LimitsAssumption DEF TakeDatabase
<1> QED  BY <1>1, <1>4, <1>7 DEF PoolsInv, Booked

LEMMA SendCommandInv ==
  ASSUME PoolsInv, NEW q \in Request, SendCommand(q), Room
  PROVE  PoolsInv'
<1>1. TypeOK'
  BY DEF PoolsInv, TypeOK, StepTo, tasks, SendCommand
<1>2. StepTo(q, "sending") /\ UNCHANGED <<tasks, db>> /\ step[q] = "publishing"
  BY DEF SendCommand
<1>3. Sending \in SUBSET Request /\ q \notin Sending /\ Sending' = Sending \cup {q}
  BY <1>2, SendingStep DEF PoolsInv
<1>4. /\ Cardinality(Sending') = Cardinality(Sending) + 1
      /\ Cardinality(Sending) \in Nat /\ Cardinality(holds) \in Nat
  BY <1>3, Counts DEF PoolsInv, TypeOK
<1>5. lost \in Nat /\ MaxConnections \in Nat
  BY LimitsAssumption DEF PoolsInv, TypeOK
<1>6. InUse' <= MaxConnections
  BY <1>2, <1>4, <1>5 DEF Room, InUse, tasks
<1> QED  BY <1>1, <1>2, <1>6 DEF PoolsInv, Booked

-----------------------------------------------------------------------------

LEMMA InitInv == Init => PoolsInv
<1> SUFFICES ASSUME Init PROVE PoolsInv
  OBVIOUS
<1>1. TypeOK
  BY LimitsAssumption DEF Init, TypeOK
<1>2. Sending = {} /\ holds = {} /\ db = {} /\ lost = 0
  BY DEF Init, Sending
<1>3. Booked
  BY <1>2, LimitsAssumption, FS_EmptySet DEF Booked, InUse
<1> QED  BY <1>1, <1>3 DEF PoolsInv

LEMMA StepInv == PoolsInv /\ [Next]_vars => PoolsInv'
<1> SUFFICES ASSUME PoolsInv, [Next]_vars PROVE PoolsInv'
  OBVIOUS
<1>1. CASE RedisTurns \/ UNCHANGED vars
  <2>1. TypeOK'
    BY <1>1 DEF PoolsInv, TypeOK, RedisTurns, vars, tasks, requests
  <2>2. UNCHANGED <<tasks, requests>>
    BY <1>1 DEF RedisTurns, vars
  <2>3. InUse' = InUse /\ db' = db
    BY <2>2 DEF InUse, Sending, tasks, requests
  <2> QED  BY <2>1, <2>3 DEF PoolsInv, Booked
<1>2. ASSUME NEW l \in Subscription,
             Subscribe(l) \/ Unsubscribe(l) \/ ListenFails(l) \/ TaskStep(l)
      PROVE  PoolsInv'
  BY <1>2, TaskInv, TakeConnectionInv, CleanupInv, DeliverCancelInv DEF TaskStep
<1>3. ASSUME NEW q \in Request,
             \/ Arrive(q) \/ TakeDatabase(q) \/ TakeDatabaseFails(q) \/ Stored(q)
             \/ StoreFails(q) \/ SendCommand(q) \/ CommandEnds(q)
      PROVE  PoolsInv'
  <2>1. CASE TakeDatabase(q)
    BY <2>1, TakeDatabaseInv
  <2>2. CASE SendCommand(q)
    <3>1. CASE Room
      BY <2>2, <3>1, SendCommandInv
    <3>2. CASE ~Room
      BY <2>2, <3>2, RequestInv
    <3> QED  BY <3>1, <3>2
  <2>3. CASE \/ Arrive(q) \/ TakeDatabaseFails(q) \/ Stored(q) \/ StoreFails(q)
             \/ CommandEnds(q)
    BY <2>3, RequestInv
  <2> QED  BY <1>3, <2>1, <2>2, <2>3
<1> QED  BY <1>1, <1>2, <1>3 DEF Next

(* Neither pool of a process (app/database/redis.py, session.py) is ever   *)
(* overbooked, with the connections that cleanups have lost included.      *)
THEOREM PoolsInvariant == Spec => []PoolsInv
BY InitInv, StepInv, PTL DEF Spec

(* Type correctness of Pools; what cleanups lose is bounded by the pool.   *)
THEOREM TypeCorrect == Spec => []TypeOK
<1>1. PoolsInv => TypeOK
  BY DEF PoolsInv
<1> QED  BY <1>1, PoolsInvariant, PTL

-----------------------------------------------------------------------------
(* Room for a subscription that comes back.                                *)

(* What RecoversWithRoom counts on: beside the connections lost there is   *)
(* one for every task and every request, and so one for the next attempt.  *)
RoomToConnect ==
  \A l \in Subscription :
    /\ task[l] = "connecting"
    /\ lost + Cardinality(Subscription) + Cardinality(Request) <= MaxConnections
    => Room

(* No mixture of tasks, cleanups and commands takes more of the pool than  *)
(* one connection for each: an attempt to subscribe is refused for want of *)
(* a connection only when too many have been lost, or too few configured.  *)
THEOREM AttemptsFindRoom == Spec => []RoomToConnect
<1>1. PoolsInv => RoomToConnect
  <2> SUFFICES ASSUME PoolsInv, NEW l \in Subscription, task[l] = "connecting",
                      lost + Cardinality(Subscription) + Cardinality(Request)
                        <= MaxConnections
               PROVE  Room
    BY DEF RoomToConnect
  <2>1. holds \in SUBSET (Subscription \ {l}) /\ Sending \in SUBSET Request
    BY DEF PoolsInv, TypeOK, Sending
  <2>2. IsFiniteSet(Subscription \ {l}) /\ IsFiniteSet(Request)
    BY RequestAssumption, Counts
  <2>3. /\ Cardinality(holds) <= Cardinality(Subscription \ {l})
        /\ Cardinality(Sending) <= Cardinality(Request)
    BY <2>1, <2>2, FS_Subset
  <2>4. /\ Cardinality(Subscription \ {l}) = Cardinality(Subscription) - 1
        /\ Cardinality(Subscription) \in Nat /\ Cardinality(Request) \in Nat
    BY Counts
  <2>5. Cardinality(holds) \in Nat /\ Cardinality(Sending) \in Nat
    <3>1. holds \in SUBSET Subscription
      BY <2>1
    <3> QED  BY <2>1, <3>1, Counts
  <2>6. lost \in Nat /\ MaxConnections \in Nat
    BY LimitsAssumption DEF PoolsInv, TypeOK
  <2> QED  BY <2>3, <2>4, <2>5, <2>6 DEF Room, InUse
<1> QED  BY <1>1, PoolsInvariant, PTL

-----------------------------------------------------------------------------
(* The database pool behind a silent Redis.                                *)

(* A database connection is kept for a statement, and only a probe keeps   *)
(* it while it waits for Redis.                                            *)
HoldersInv ==
  /\ \A q \in db :
       \/ step[q] = "storing"
       \/ q \in Probe /\ step[q] \in {"publishing", "sending"}
  /\ \A q \in Request : step[q] = "storing" => q \in db

(* What SavesGoOn counts on: when the database pool is exhausted, one of   *)
(* its connections at least is with a message.send at its statement.       *)
SaverInTheWay ==
  Cardinality(Probe) < MaxDatabase /\ Cardinality(db) >= MaxDatabase =>
    \E q \in db \ Probe : step[q] = "storing"

LEMMA HoldersStep ==
  ASSUME PoolsInv, HoldersInv, [Next]_vars
  PROVE  HoldersInv'
<1>1. step \in [Request -> {"idle", "waiting", "storing", "publishing", "sending"}]
      /\ db \in SUBSET Request
  BY DEF PoolsInv, TypeOK
<1>2. CASE UNCHANGED requests
  BY <1>2 DEF requests, HoldersInv
<1>3. ASSUME NEW q \in Request,
             \/ Arrive(q) \/ TakeDatabase(q) \/ TakeDatabaseFails(q) \/ Stored(q)
             \/ StoreFails(q) \/ SendCommand(q) \/ CommandEnds(q)
      PROVE  HoldersInv'
  <2>1. PICK position :
          /\ step' = [step EXCEPT ![q] = position]
          /\ \/ position = "storing" /\ db' = db \cup {q}
             \/ position = "idle" /\ (db' = db \ {q} \/ (q \notin db /\ db' = db))
             \/ /\ position = "publishing"
                /\ db' = IF q \in Probe THEN db ELSE db \ {q}
             \/ /\ position \in {"waiting", "sending"} /\ step[q] # "storing" /\ db' = db
                /\ q \in db => q \in Probe /\ position = "sending"
    <3>1. step[q] \in {"idle", "waiting"} => q \notin db
      BY DEF HoldersInv
    <3>2. step[q] \in {"publishing", "sending"} /\ q \in db => q \in Probe
      BY DEF HoldersInv
    <3>3. CASE Arrive(q) \/ TakeDatabase(q) \/ TakeDatabaseFails(q)
      BY <3>1, <3>3 DEF StepTo, Arrive, TakeDatabase, TakeDatabaseFails
    <3>4. CASE Stored(q) \/ StoreFails(q) \/ SendCommand(q) \/ CommandEnds(q)
      BY <3>2, <3>4 DEF StepTo, Stored, StoreFails, SendCommand, CommandEnds
    <3> QED  BY <1>3, <3>3, <3>4
  <2> QED  BY <1>1, <2>1 DEF HoldersInv
<1> QED
  BY <1>2, <1>3
  DEF Next, vars, TaskStep, Subscribe, Unsubscribe, ListenFails, TakeConnection,
    OpenConnection, EndBackoff, EndCleanup, EndClosing, DeliverCancel, RedisTurns

(* A Redis that neither answers nor refuses keeps no message.send with a   *)
(* database connection: handlers commit before they publish.  While there  *)
(* are fewer probes than connections, a saver that waits for one waits for *)
(* a statement of the database, never for Redis.                           *)
THEOREM SavesWaitForTheDatabase == Spec => []SaverInTheWay
<1>1. Init => HoldersInv
  BY DEF Init, HoldersInv
<1>2. PoolsInv /\ HoldersInv /\ [Next]_vars => HoldersInv'
  BY HoldersStep
<1>3. PoolsInv /\ HoldersInv => SaverInTheWay
  <2> SUFFICES ASSUME PoolsInv, HoldersInv,
                      Cardinality(Probe) < MaxDatabase, Cardinality(db) >= MaxDatabase
               PROVE  \E q \in db \ Probe : step[q] = "storing"
    BY DEF SaverInTheWay
  <2>1. IsFiniteSet(Probe) /\ Cardinality(Probe) \in Nat /\ Cardinality(db) \in Nat
    BY RequestAssumption, Counts DEF PoolsInv, TypeOK
  <2>2. ~(db \subseteq Probe)
    <3> SUFFICES ASSUME db \subseteq Probe PROVE FALSE
      OBVIOUS
    <3>1. Cardinality(db) <= Cardinality(Probe)
      BY <2>1, FS_Subset
    <3> QED  BY <2>1, <3>1, LimitsAssumption
  <2> QED  BY <2>2 DEF HoldersInv
<1> QED  BY <1>1, <1>2, <1>3, PoolsInvariant, PTL DEF Spec

-----------------------------------------------------------------------------
(* What costs a connection.                                                *)

(* One at a time, and with a fault: a cleanup while Redis refuses, or a    *)
(* cancel() that cuts a cleanup short.                                     *)
LossHasCause ==
  lost' # lost =>
    /\ lost' = lost + 1
    /\ \E l \in holds \ holds' :
         redis = "down" \/ (l \in cancelled /\ task[l] = "cleanup")

(* While Redis answers, or is merely silent, and no task is cancelled in   *)
(* the middle of its cleanup, the pool loses nothing.                      *)
THEOREM NothingLostWithoutFault == Spec => [][LossHasCause]_vars
<1>1. [Next]_vars => LossHasCause
  <2> SUFFICES ASSUME [Next]_vars, lost' # lost
               PROVE  /\ lost' = lost + 1
                      /\ \E l \in holds \ holds' :
                           redis = "down" \/ (l \in cancelled /\ task[l] = "cleanup")
    BY DEF LossHasCause
  <2>1. PICK l \in Subscription : EndCleanup(l) \/ EndClosing(l) \/ DeliverCancel(l)
    BY DEF Next, vars, tasks, TaskStep, Subscribe, Unsubscribe, ListenFails, TakeConnection,
      OpenConnection, EndBackoff, RedisTurns, Arrive, TakeDatabase, TakeDatabaseFails, Stored,
      StoreFails, SendCommand, CommandEnds
  <2>2. CASE GiveBack(l)
    BY <2>2 DEF GiveBack
  <2>3. CASE DeliverCancel(l)
    BY <2>3 DEF DeliverCancel
  <2> QED  BY <2>1, <2>2, <2>3 DEF EndCleanup, EndClosing
<1> QED  BY <1>1, PTL DEF Spec
=============================================================================
