------------------------------- MODULE Listing -------------------------------
(***************************************************************************)
(* Reading a list page by page while its rows are written: the messages of *)
(* a conversation (app/services/message.py, oldest first) or the           *)
(* conversations of a user (app/services/conversation.py, newest first).   *)
(*                                                                         *)
(* Row is what the WHERE clause of the list selects.  A row is dated by    *)
(* now(), the time at which its transaction began, and seen by others once *)
(* that transaction has committed, which is later and not in the order of  *)
(* the dates.  Neither query breaks ties.  A page is two statements, each  *)
(* of which sees what is committed when it runs (READ COMMITTED).          *)
(***************************************************************************)
EXTENDS Integers, FiniteSets, SequencesExt

CONSTANTS
  Row,
  PageSize,
  MaxTime       \* bound of the clock, for model checking

ASSUME RowAssumption == IsFiniteSet(Row)
ASSUME PageSizeAssumption == PageSize \in Nat \ {0}
ASSUME MaxTimeAssumption == MaxTime \in Nat

VARIABLES
  list,         \* the list read: "messages" or "conversations"
  row,          \* the rows
  created,      \* their created_at
  durable,      \* when they were committed
  exists,       \* the conversation whose messages are read
  now,
  page,         \* the page the client asks for
  at,           \* where its request is
  items,        \* the rows of that page, by their place in the list
  total,        \* the number of rows counted for it
  owed          \* rows that a client reading all pages should still get

rows == <<list, row, created, durable, exists, now>>
reader == <<page, at, items, total, owed>>
vars == <<rows, reader>>

TypeOK ==
  /\ list \in {"messages", "conversations"}
  /\ row \in [Row -> {"none", "open", "live", "gone"}]
  /\ created \in [Row -> Nat]
  /\ durable \in [Row -> Nat]
  /\ exists \in BOOLEAN
  /\ now \in Nat
  /\ page \in Nat \ {0}
  /\ at \in {"idle", "checking", "listing", "counting", "answering", "refused", "done"}
  /\ items \in [DOMAIN items -> Row]
  /\ DOMAIN items \subseteq (page - 1) * PageSize + 1 .. page * PageSize
  /\ total \in Nat
  /\ owed \in SUBSET Row

Init ==
  /\ list \in {"messages", "conversations"}
  /\ row = [r \in Row |-> "none"]
  /\ created = [r \in Row |-> 0]
  /\ durable = [r \in Row |-> 0]
  /\ exists = TRUE
  /\ now = 0
  /\ page = 1
  /\ at = "idle"
  /\ items = <<>>
  /\ total = 0
  /\ owed = {}

-----------------------------------------------------------------------------
(* The queries.                                                            *)

Visible == {r \in Row : row[r] = "live"}

(* ORDER BY created_at, ascending or descending; a faulty form has none.   *)
AnyOrder(r, s) == FALSE
Before(r, s) ==
  IF list = "messages" THEN created[r] < created[s] ELSE created[s] < created[r]

(* The orders in which the database may return the visible rows.           *)
Orders ==
  {order \in SetToSeqs(Visible) :
     \A i, k \in DOMAIN order : i < k => ~Before(order[k], order[i])}

(* OFFSET and LIMIT; a faulty form fetches one row more.                   *)
WindowAndOne == (page - 1) * PageSize + 1 .. page * PageSize + 1
Window == (page - 1) * PageSize + 1 .. page * PageSize

(* The "pages" of the answer: total rows in pages, rounded up, at least 1.  *)
Pages(n) == LET up == -((-n) \div PageSize) IN IF up < 1 THEN 1 ELSE up

-----------------------------------------------------------------------------
(* The writers: each row has a request or a handler of its own.            *)

BeginRow(r) ==
  /\ row[r] = "none"
  /\ row' = [row EXCEPT ![r] = "open"]
  /\ created' = [created EXCEPT ![r] = now]
  /\ UNCHANGED <<list, durable, exists, now, reader>>

(* The foreign key of a message: it is committed before its conversation   *)
(* is deleted, or not at all.                                              *)
CommitRow(r) ==
  /\ row[r] = "open"
  /\ exists
  /\ row' = [row EXCEPT ![r] = "live"]
  /\ durable' = [durable EXCEPT ![r] = now]
  /\ UNCHANGED <<list, created, exists, now, reader>>

RollBackRow(r) ==
  /\ row[r] = "open"
  /\ row' = [row EXCEPT ![r] = "gone"]
  /\ UNCHANGED <<list, created, durable, exists, now, reader>>

(* Deleting one of the user's conversations moves the later ones up, and   *)
(* a reader may miss those: it is owed only what comes before.             *)
DeleteRow(r) ==
  /\ list = "conversations"
  /\ row[r] = "live"
  /\ row' = [row EXCEPT ![r] = "gone"]
  /\ owed' = {z \in owed : Before(z, r)}
  /\ UNCHANGED <<list, created, durable, exists, now, page, at, items, total>>

(* Messages go only with their conversation, ON DELETE CASCADE.            *)
DeleteConversation ==
  /\ list = "messages"
  /\ exists
  /\ exists' = FALSE
  /\ row' = [r \in Row |-> IF row[r] = "live" THEN "gone" ELSE row[r]]
  /\ owed' = {}
  /\ UNCHANGED <<list, created, durable, now, page, at, items, total>>

Tick ==
  /\ now < MaxTime
  /\ now' = now + 1
  /\ UNCHANGED <<list, row, created, durable, exists, reader>>

-----------------------------------------------------------------------------
(* The reader: a client asks for page after page.  The statements of one   *)
(* request run in this order; a faulty form counts first.                  *)

FirstStatement == IF list = "messages" THEN "checking" ELSE "listing"

CountFirst(position) ==
  CASE position = "checking" -> "counting" [] position = "counting" -> "listing"
    [] position = "listing" -> "answering"
NextStatement(position) ==
  CASE position = "checking" -> "listing" [] position = "listing" -> "counting"
    [] position = "counting" -> "answering"

StartReading ==
  /\ at = "idle"
  /\ owed' = Visible
  /\ at' = FirstStatement
  /\ UNCHANGED <<rows, page, items, total>>

(* exists_for_owner, for messages: without the conversation a 404.         *)
CheckExists ==
  /\ at = "checking"
  /\ at' = IF exists THEN NextStatement("checking") ELSE "refused"
  /\ UNCHANGED <<rows, page, items, total, owed>>

(* list_by_conversation, list_by_owner.                                    *)
ListPage ==
  /\ at = "listing"
  /\ \E order \in Orders :
       items' = [i \in Window \cap DOMAIN order |-> order[i]]
  /\ at' = NextStatement("listing")
  /\ UNCHANGED <<rows, page, total, owed>>

(* count_by_conversation, count_by_owner.                                  *)
CountRows ==
  /\ at = "counting"
  /\ total' = Cardinality(Visible)
  /\ at' = NextStatement("counting")
  /\ UNCHANGED <<rows, page, items, owed>>

(* The page is answered; the client asks for the next one if there is one. *)
Answer ==
  /\ at = "answering"
  /\ owed' = owed \ {items[i] : i \in DOMAIN items}
  /\ items' = <<>>
  /\ \/ page < Pages(total) /\ page' = page + 1 /\ at' = FirstStatement
     \/ page >= Pages(total) /\ at' = "done" /\ UNCHANGED page
  /\ UNCHANGED <<rows, total>>

(* A statement raises: a 500, and the client asks for the page again.      *)
RequestFails ==
  /\ at \in {"checking", "listing", "counting"}
  /\ at' = FirstStatement
  /\ items' = <<>>
  /\ UNCHANGED <<rows, page, total, owed>>

Next ==
  \/ \E r \in Row : BeginRow(r) \/ CommitRow(r) \/ RollBackRow(r) \/ DeleteRow(r)
  \/ DeleteConversation \/ Tick
  \/ StartReading \/ CheckExists \/ ListPage \/ CountRows \/ Answer \/ RequestFails

Spec == Init /\ [][Next]_vars

-----------------------------------------------------------------------------
(* Correctness.                                                            *)

(* Rows with one date: the database may return them in either order, and   *)
(* in another one for the next page.                                       *)
Tied(r) == \E s \in Row \ {r} : row[s] # "none" /\ created[s] = created[r]

(* A client that reads page after page gets every row that was there when  *)
(* it began, whatever was committed meanwhile and in whatever order: later *)
(* rows only move the others on, and the last page is the last because its *)
(* rows were counted after they were listed.  Only a tie at the edge of a  *)
(* page, or a deletion, may cost it a row.                                 *)
WalkIsComplete == at = "done" => \A r \in owed : Tied(r)

(* A message that was saved before the transaction of another one began is *)
(* listed before it, so every reply after its question; conversations the  *)
(* other way round.                                                        *)
CausalOrder ==
  \A i, k \in DOMAIN items :
    i < k => IF list = "messages" THEN durable[items[k]] >= created[items[i]]
                                  ELSE durable[items[i]] >= created[items[k]]

=============================================================================
