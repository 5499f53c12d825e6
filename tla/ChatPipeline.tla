---------------------------- MODULE ChatPipeline ----------------------------
(***************************************************************************)
(* The path of a message.send through several API processes that serve one *)
(* conversation: the chat handlers (app/services/chat.py), the message     *)
(* rows (app/repositories/message.py), the Redis channel and the broadcast *)
(* of each process (app/websocket/pubsub.py, manager.py).                  *)
(*                                                                         *)
(* The subscription of a process is reduced to what a frame can tell: is   *)
(* Redis delivering to it, what is buffered for it, which frame is being   *)
(* sent to which sockets.  SubscriptionLifecycle models how it comes and   *)
(* goes, and Listener states what of that is taken for granted here.       *)
(* PostgreSQL and Redis are modelled by what the code relies on.           *)
(***************************************************************************)
EXTENDS Naturals, Sequences, FiniteSets

CONSTANTS
  Process,      \* API instances
  Socket,       \* WebSockets of the conversation
  Home,         \* the process each socket is connected to
  Asker,        \* the sockets that send; the others only listen
  MaxSends,     \* message.send frames per asker
  Attempts      \* PUBLISH commands the Redis client sends before it raises

ASSUME HomeAssumption == Home \in [Socket -> Process]
ASSUME MaxSendsAssumption == MaxSends \in Nat
ASSUME AskerAssumption == Asker \subseteq Socket
ASSUME AttemptsAssumption == Attempts \in Nat \ {0}

Role == {"user", "assistant"}
Message == [from : Socket, n : 1..MaxSends, role : Role]
ErrorCode == {"message_processing_failed", "message_publish_failed"}

VARIABLES
  exists,       \* the conversation row
  history,      \* the message rows
  committed,    \* every message row there has ever been
  phase,        \* where the handler of each socket is
  sends,        \* message.send frames a handler has taken up
  role,         \* which of the two messages it is working on
  tries,        \* PUBLISH commands sent for the present frame
  told,         \* error frames sent to the socket
  alive,        \* sockets whose receive_json() does not raise
  published,    \* frames accepted by Redis, in order
  feed,         \* processes Redis delivers to
  inbox,        \* positions in published buffered for a process
  current,      \* the position a process is broadcasting, or 0
  pending,      \* the sockets it has still to send to
  delivered     \* the positions each socket was sent

database == <<exists, history, committed>>
handlers == <<phase, sends, role, tries, told>>
delivery == <<feed, inbox, current, pending, delivered>>
vars == <<database, handlers, alive, published, delivery>>

Phase == {"connecting", "idle", "inserting", "committing", "publishing", "gone"}

TypeOK ==
  /\ exists \in BOOLEAN
  /\ history \in SUBSET Message
  /\ committed \in SUBSET Message
  /\ phase \in [Socket -> Phase]
  /\ sends \in [Socket -> 0..MaxSends]
  /\ role \in [Socket -> Role]
  /\ tries \in [Socket -> 0..Attempts]
  /\ told \in [Socket -> SUBSET [n : 1..MaxSends, role : Role, code : ErrorCode]]
  /\ alive \in SUBSET Socket
  /\ published \in Seq(Message)
  /\ feed \in SUBSET Process
  /\ inbox \in [Process -> Seq(Nat)]
  /\ current \in [Process -> Nat]
  /\ pending \in [Process -> SUBSET Socket]
  /\ delivered \in [Socket -> Seq(Nat)]

-----------------------------------------------------------------------------

(* The message the handler of s is working on.                             *)
Working(s) == [from |-> s, n |-> sends[s], role |-> role[s]]

Question(m) == [m EXCEPT !.role = "user"]

(* The sockets in the connection table of process p.                       *)
Connected(p) == {s \in Socket : Home[s] = p /\ phase[s] \notin {"connecting", "gone"}}

Init ==
  /\ exists = TRUE
  /\ history = {}
  /\ committed = {}
  /\ phase = [s \in Socket |-> "connecting"]
  /\ sends = [s \in Socket |-> 0]
  /\ role = [s \in Socket |-> "user"]
  /\ tries = [s \in Socket |-> 0]
  /\ told = [s \in Socket |-> {}]
  /\ alive = Socket
  /\ published = <<>>
  /\ feed = {}
  /\ inbox = [p \in Process |-> <<>>]
  /\ current = [p \in Process |-> 0]
  /\ pending = [p \in Process |-> {}]
  /\ delivered = [s \in Socket |-> <<>>]

-----------------------------------------------------------------------------
(* The chat handler of socket s.                                           *)

Goto(s, position) == phase' = [phase EXCEPT ![s] = position]

(* Ownership was checked and the socket registered.  Its subscription was  *)
(* ready, but may be lost again; a process that stops has none.            *)
Join(s) ==
  /\ phase[s] = "connecting"
  /\ exists
  /\ Goto(s, "idle")
  /\ UNCHANGED <<database, sends, role, tries, told, alive, published, delivery>>

(* receive_json() returned a valid message.send.                           *)
ReceiveSend(s) ==
  /\ phase[s] = "idle"
  /\ s \in alive
  /\ s \in Asker /\ sends[s] < MaxSends
  /\ sends' = [sends EXCEPT ![s] = @ + 1]
  /\ role' = [role EXCEPT ![s] = "user"]
  /\ Goto(s, "inserting")
  /\ UNCHANGED <<database, tries, told, alive, published, delivery>>

(* receive_json() raised, WebSocketDisconnect as a rule.                   *)
Disconnect(s) ==
  /\ phase[s] = "idle"
  /\ s \notin alive
  /\ Goto(s, "gone")
  /\ UNCHANGED <<database, sends, role, tries, told, alive, published, delivery>>

(* Faulty forms of Report: nothing is sent; the message is tried again.    *)
ReportNothing(s, code) == Goto(s, "idle") /\ UNCHANGED told
ReportAndRetry(s, code) == Goto(s, "inserting") /\ UNCHANGED told

(* _send_error and return to receive_json(); the send may raise when the   *)
(* client is gone, which ends the handler.                                 *)
Report(s, code) ==
  /\ \/ /\ told' = [told EXCEPT ![s] = @ \cup
                      {[n |-> sends[s], role |-> role[s], code |-> code]}]
        /\ Goto(s, "idle")
     \/ /\ s \notin alive
        /\ Goto(s, "gone")
        /\ UNCHANGED told

(* Faulty forms of Insert: the message is published without a commit; the  *)
(* foreign key is missing.                                                 *)
InsertThenPublish(s) ==
  /\ phase[s] = "inserting"
  /\ exists
  /\ Goto(s, "publishing")
  /\ UNCHANGED <<database, sends, role, tries, told, alive, published, delivery>>

InsertAnyway(s) ==
  /\ phase[s] = "inserting"
  /\ Goto(s, "committing")
  /\ UNCHANGED <<database, sends, role, tries, told, alive, published, delivery>>

(* The INSERT is flushed: its foreign key holds the conversation row until *)
(* the transaction ends.                                                   *)
Insert(s) ==
  /\ phase[s] = "inserting"
  /\ exists
  /\ Goto(s, "committing")
  /\ UNCHANGED <<database, sends, role, tries, told, alive, published, delivery>>

(* The INSERT fails, always so without the conversation: roll back, report. *)
InsertFails(s) ==
  /\ phase[s] = "inserting"
  /\ Report(s, "message_processing_failed")
  /\ UNCHANGED <<database, sends, role, tries, alive, published, delivery>>

MakeDurable(s) ==
  /\ history' = history \cup {Working(s)}
  /\ committed' = committed \cup {Working(s)}

Commit(s) ==
  /\ phase[s] = "committing"
  /\ MakeDurable(s)
  /\ tries' = [tries EXCEPT ![s] = 0]
  /\ Goto(s, "publishing")
  /\ UNCHANGED <<exists, sends, role, told, alive, published, delivery>>

(* commit() raises: the transaction was rolled back, or it was committed   *)
(* and only the answer was lost.                                           *)
CommitFails(s) ==
  /\ phase[s] = "committing"
  /\ MakeDurable(s) \/ UNCHANGED <<history, committed>>
  /\ Report(s, "message_processing_failed")
  /\ UNCHANGED <<exists, sends, role, tries, alive, published, delivery>>

(* Redis takes one PUBLISH and buffers the frame for each subscriber.      *)
Post(s) ==
  /\ published' = Append(published, Working(s))
  /\ inbox' = [p \in Process |->
       IF p \in feed THEN Append(inbox[p], Len(published) + 1) ELSE inbox[p]]
  /\ UNCHANGED <<feed, current, pending, delivered>>

(* publish() returned: on to the assistant reply, or to the next frame.    *)
Publish(s) ==
  /\ phase[s] = "publishing"
  /\ Post(s)
  /\ \/ /\ role[s] = "user"
        /\ role' = [role EXCEPT ![s] = "assistant"]
        /\ Goto(s, "inserting")
     \/ /\ role[s] = "assistant"
        /\ Goto(s, "idle")
        /\ UNCHANGED role
  /\ UNCHANGED <<database, sends, tries, told, alive>>

(* The retry limit of the Redis client, and the same one too late.         *)
ExhaustedLate(s) == tries[s] = Attempts
Exhausted(s) == tries[s] + 1 = Attempts

(* publish() raised: report and give the message up; a faulty form ignores *)
(* that _publish_frame returned False and goes on to the reply.            *)
GoOnUnpublished(s) ==
  /\ role' = [role EXCEPT ![s] = "assistant"]
  /\ Goto(s, IF role[s] = "user" THEN "inserting" ELSE "idle")
  /\ UNCHANGED told
GiveUp(s) == Report(s, "message_publish_failed") /\ UNCHANGED role

(* One PUBLISH failed, before or after Redis took it: the client library   *)
(* sends it again up to its limit, then publish() raises.                  *)
PublishFails(s) ==
  /\ phase[s] = "publishing"
  /\ Post(s) \/ UNCHANGED <<published, delivery>>
  /\ tries' = [tries EXCEPT ![s] = @ + 1]
  /\ \/ /\ ~Exhausted(s)
        /\ UNCHANGED <<phase, role, told>>
     \/ /\ Exhausted(s)
        /\ GiveUp(s)
  /\ UNCHANGED <<database, sends, alive>>

HandlerStep(s) ==
  \/ Disconnect(s) \/ Insert(s) \/ InsertFails(s) \/ Commit(s)
  \/ CommitFails(s) \/ Publish(s) \/ PublishFails(s)

-----------------------------------------------------------------------------
(* The subscription task of process p and Redis.                           *)

(* SUBSCRIBE: frames published from now on are buffered for p.             *)
FeedUp(p) ==
  /\ p \notin feed
  /\ inbox[p] = <<>> /\ current[p] = 0
  /\ feed' = feed \cup {p}
  /\ UNCHANGED <<database, handlers, alive, published, inbox, current, pending,
                 delivered>>

(* The connection to Redis breaks; what is buffered may still be read.     *)
FeedLost(p) ==
  /\ p \in feed
  /\ feed' = feed \ {p}
  /\ UNCHANGED <<database, handlers, alive, published, inbox, current, pending,
                 delivered>>

(* get_message() raises: the task backs off, the rest of the buffer is lost. *)
FeedFails(p) ==
  /\ p \notin feed
  /\ current[p] = 0
  /\ inbox[p] # <<>>
  /\ inbox' = [inbox EXCEPT ![p] = <<>>]
  /\ UNCHANGED <<database, handlers, alive, published, feed, current, pending,
                 delivered>>

(* The task is cancelled, in the middle of a broadcast if there is one.    *)
Cancel(p) ==
  /\ feed' = feed \ {p}
  /\ inbox' = [inbox EXCEPT ![p] = <<>>]
  /\ current' = [current EXCEPT ![p] = 0]
  /\ pending' = [pending EXCEPT ![p] = {}]
  /\ UNCHANGED <<database, handlers, alive, published, delivered>>

(* A faulty Take: the frame stays in the buffer.                           *)
TakeAndKeep(p) ==
  /\ current[p] = 0
  /\ inbox[p] # <<>>
  /\ current' = [current EXCEPT ![p] = IF Connected(p) = {} THEN 0 ELSE Head(inbox[p])]
  /\ pending' = [pending EXCEPT ![p] = Connected(p)]
  /\ UNCHANGED <<database, handlers, alive, published, feed, inbox, delivered>>

(* get_message() returns a frame; the broadcast snapshots the local sockets. *)
Take(p) ==
  /\ current[p] = 0
  /\ inbox[p] # <<>>
  /\ inbox' = [inbox EXCEPT ![p] = Tail(@)]
  /\ current' = [current EXCEPT ![p] = IF Connected(p) = {} THEN 0 ELSE Head(inbox[p])]
  /\ pending' = [pending EXCEPT ![p] = Connected(p)]
  /\ UNCHANGED <<database, handlers, alive, published, feed, delivered>>

(* A faulty Send: the exception of one socket ends the broadcast.          *)
SendOrAbort(p, s) ==
  /\ s \in pending[p]
  /\ \/ /\ s \in alive /\ phase[s] # "gone"
        /\ delivered' = [delivered EXCEPT ![s] = Append(@, current[p])]
        /\ pending' = [pending EXCEPT ![p] = @ \ {s}]
     \/ /\ s \notin alive \/ phase[s] = "gone"
        /\ pending' = [pending EXCEPT ![p] = {}]
        /\ UNCHANGED delivered
  /\ current' = IF pending'[p] = {} THEN [current EXCEPT ![p] = 0] ELSE current
  /\ UNCHANGED <<database, handlers, alive, published, feed, inbox>>

(* send_json() to one socket of the snapshot; it may raise when the client *)
(* is gone, and the broadcast goes on.                                     *)
Send(p, s) ==
  /\ s \in pending[p]
  /\ \/ /\ phase[s] # "gone"
        /\ delivered' = [delivered EXCEPT ![s] = Append(@, current[p])]
     \/ /\ s \notin alive \/ phase[s] = "gone"
        /\ UNCHANGED delivered
  /\ pending' = [pending EXCEPT ![p] = @ \ {s}]
  /\ current' = IF pending[p] = {s} THEN [current EXCEPT ![p] = 0] ELSE current
  /\ UNCHANGED <<database, handlers, alive, published, feed, inbox>>

-----------------------------------------------------------------------------
(* Clients, the REST side and crashes.                                     *)

Vanish(s) ==
  /\ phase[s] # "gone"
  /\ s \in alive
  /\ alive' = alive \ {s}
  /\ UNCHANGED <<database, handlers, published, delivery>>

(* DELETE /conversations/{id} commits; ON DELETE CASCADE takes the rows.   *)
(* It waits for the transactions that hold the conversation row.           *)
DeleteConversation ==
  /\ exists
  /\ \A s \in Socket : phase[s] # "committing"
  /\ exists' = FALSE
  /\ history' = {}
  /\ UNCHANGED <<committed, handlers, alive, published, delivery>>

(* Process p dies with its handlers and buffers; its open transactions are *)
(* rolled back.                                                            *)
Crash(p) ==
  /\ phase' = [s \in Socket |-> IF s \in Connected(p) THEN "gone" ELSE phase[s]]
  /\ feed' = feed \ {p}
  /\ inbox' = [inbox EXCEPT ![p] = <<>>]
  /\ current' = [current EXCEPT ![p] = 0]
  /\ pending' = [pending EXCEPT ![p] = {}]
  /\ UNCHANGED <<database, sends, role, tries, told, alive, published, delivered>>

Next ==
  \/ \E s \in Socket : Join(s) \/ ReceiveSend(s) \/ HandlerStep(s) \/ Vanish(s)
  \/ \E p \in Process :
       \/ FeedUp(p) \/ FeedLost(p) \/ FeedFails(p) \/ Cancel(p) \/ Take(p)
       \/ \E s \in Socket : Send(p, s)
       \/ Crash(p)
  \/ DeleteConversation

Spec == Init /\ [][Next]_vars

(* Awaited database and Redis calls return or raise; the subscription task *)
(* reads what is buffered and its sends end.                               *)
Fairness ==
  /\ \A s \in Socket : WF_vars(HandlerStep(s))
  /\ \A p \in Process : WF_vars(Take(p)) /\ WF_vars(\E s \in Socket : Send(p, s))

FairSpec == Spec /\ Fairness

-----------------------------------------------------------------------------
(* Correctness.                                                            *)

(* The reply to a question appears on the channel only after the question, *)
(* and no retry repeats the question after it.                             *)
QuestionBeforeReply ==
  \A i \in DOMAIN published :
    published[i].role = "assistant" =>
      /\ \E k \in 1..(i - 1) : published[k] = Question(published[i])
      /\ \A k \in DOMAIN published : k > i => published[k] # Question(published[i])

(* A reply is stored only to a question whose frame Redis has accepted:    *)
(* when publishing the question fails there is no reply.                   *)
ReplyNeedsPublishedQuestion ==
  \A m \in committed :
    m.role = "assistant" => \E i \in DOMAIN published : published[i] = Question(m)

(* Whatever a socket asked is settled when its handler waits for the next  *)
(* frame: both messages are published, or the sender was told, for exactly *)
(* one of the two messages and with exactly one code.                      *)
SenderLearnsOutcome ==
  \A s \in Socket : \A n \in 1..sends[s] :
    (n < sends[s] \/ phase[s] = "idle") =>
      LET reports == {r \in told[s] : r.n = n}
          posted(r) == \E i \in DOMAIN published :
                         published[i] = [from |-> s, n |-> n, role |-> r]
      IN  \/ reports = {} /\ posted("user") /\ posted("assistant")
          \/ Cardinality(reports) = 1

(* "Message was saved but could not be delivered": it was saved.           *)
SavedWhenToldSo ==
  \A s \in Socket : \A r \in told[s] :
    r.code = "message_publish_failed" =>
      [from |-> s, n |-> r.n, role |-> r.role] \in committed

(* A deleted conversation has no messages, however its deletion interleaves *)
(* with the handlers that still serve its sockets.                         *)
NoOrphanMessage == ~exists => history = {}

(* Clients see what Feed promises: saved messages only, each posting at    *)
(* most once, in channel order, on every process.                          *)
Clients == INSTANCE Feed WITH Client <- Socket, saved <- committed,
                              log <- published, seen <- delivered
ImplementsFeed == Clients!Spec

(* A process hears the channel while Redis delivers to it or it has frames *)
(* of it in hand.                                                          *)
Hearing == {p \in Process : p \in feed \/ inbox[p] # <<>> \/ current[p] # 0}
Members == {s \in Socket : s \in Connected(Home[s])}

(* Each process broadcasts as one Listener: the promise that               *)
(* SubscriptionLifecycle keeps is the one made use of here.                *)
Broadcasts == INSTANCE Listener WITH
  Conversation <- Process, Room <- Home,
  members <- Members, hearing <- Hearing, targets <- pending
ImplementsListener == Broadcasts!Spec

(* Every message.send taken up comes to an end.                            *)
SendEnds ==
  \A s \in Socket :
    phase[s] \in {"inserting", "committing", "publishing"} ~>
      phase[s] \in {"idle", "gone"}

(* More than the PUBLISH commands there can be.                            *)
MaxPosts == 2 * Attempts * MaxSends * Cardinality(Asker)

(* A frame buffered for a process reaches each of its sockets, unless the  *)
(* socket or the subscription goes first.                                  *)
FrameArrives ==
  \A s \in Socket : \A i \in 1..MaxPosts :
    LET p == Home[s]
        buffered == \E k \in DOMAIN inbox[p] : inbox[p][k] = i
    IN  buffered /\ s \in Connected(p) ~>
          \/ \E k \in DOMAIN delivered[s] : delivered[s][k] = i
          \/ s \notin alive \/ phase[s] = "gone"
          \/ p \notin feed

=============================================================================
