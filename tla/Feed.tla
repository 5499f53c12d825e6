-------------------------------- MODULE Feed --------------------------------
(***************************************************************************)
(* What the clients of one conversation may rely on, whatever instances,   *)
(* tasks, transactions and failures lie behind it.                         *)
(*                                                                         *)
(* A message is saved before a frame about it is posted to the one channel *)
(* of the conversation.  A client sees posted frames only, each posting at *)
(* most once, in the order of the channel; it may miss any of them.        *)
(***************************************************************************)
EXTENDS Naturals, Sequences

CONSTANTS
  Client,
  Message

VARIABLES
  saved,    \* the messages ever made durable
  log,      \* the frames posted to the channel, in order
  seen      \* per client, the positions in log of the frames it has seen

TypeOK ==
  /\ saved \in SUBSET Message
  /\ log \in Seq(Message)
  /\ seen \in [Client -> Seq(Nat)]

Init ==
  /\ saved = {}
  /\ log = <<>>
  /\ seen = [c \in Client |-> <<>>]

Save(m) ==
  /\ saved' = saved \cup {m}
  /\ UNCHANGED <<log, seen>>

Post(m) ==
  /\ m \in saved
  /\ log' = Append(log, m)
  /\ UNCHANGED <<saved, seen>>

(* Later than everything c has seen so far.                                *)
See(c, i) ==
  /\ \A k \in DOMAIN seen[c] : seen[c][k] < i
  /\ seen' = [seen EXCEPT ![c] = Append(@, i)]
  /\ UNCHANGED <<saved, log>>

Next ==
  \/ \E m \in Message : Save(m) \/ Post(m)
  \/ \E c \in Client, i \in DOMAIN log : See(c, i)

Spec == Init /\ [][Next]_<<saved, log, seen>>

=============================================================================
