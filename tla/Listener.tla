------------------------------ MODULE Listener ------------------------------
(***************************************************************************)
(* What the rest of the chat may rely on in the broadcasts of one process, *)
(* however its subscription tasks are created, cancelled and replaced:     *)
(* each conversation is heard by one listener at a time, which sends one   *)
(* frame after the other, each to the sockets that were members when it    *)
(* arrived and to none of them twice, and can fall silent at any time.     *)
(*                                                                         *)
(* SubscriptionLifecycle implements it; it is all that ChatPipeline takes  *)
(* for granted of a subscription (FeedUp, Take, Send, Cancel).             *)
(***************************************************************************)

CONSTANTS
  Socket,
  Conversation,
  Room          \* the conversation of each socket

VARIABLES
  members,      \* the sockets of the connection table
  hearing,      \* conversations whose frames reach the process
  targets       \* the sockets that the frame in hand has still to go to

vars == <<members, hearing, targets>>

Init ==
  /\ members = {}
  /\ hearing = {}
  /\ targets = [c \in Conversation |-> {}]

(* A new listener comes only when the frames of the last one are dealt     *)
(* with or given up.                                                       *)
Hear(c) ==
  /\ c \notin hearing /\ targets[c] = {}
  /\ c \in hearing' /\ targets'[c] = {}

FallSilent(c) == c \notin hearing' /\ targets'[c] = {}

Take(c) ==
  /\ c \in hearing /\ targets[c] = {}
  /\ c \in hearing' /\ targets'[c] = {s \in members : Room[s] = c}

Send(c) ==
  /\ c \in hearing /\ c \in hearing'
  /\ \E s \in targets[c] : targets'[c] = targets[c] \ {s}

Idle(c) == (c \in hearing' <=> c \in hearing) /\ targets'[c] = targets[c]

(* Conversations do not depend on each other; members come and go freely.  *)
Next ==
  /\ members' \in SUBSET Socket
  /\ hearing' \in SUBSET Conversation
  /\ targets' \in [Conversation -> SUBSET Socket]
  /\ \A c \in Conversation : Idle(c) \/ Hear(c) \/ FallSilent(c) \/ Take(c) \/ Send(c)

Spec == Init /\ [][Next]_vars

=============================================================================
