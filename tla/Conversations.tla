---------------------------- MODULE Conversations ----------------------------
(***************************************************************************)
(* Creating, renaming and deleting conversations                           *)
(* (app/routers/conversations.py, app/services/conversation.py,            *)
(* app/repositories/conversation.py).                                      *)
(*                                                                         *)
(* A request runs in a database session of its own and is suspended at     *)
(* every statement.  PostgreSQL runs at READ COMMITTED: a statement sees   *)
(* what is committed when it runs, an UPDATE or DELETE waits for the row   *)
(* lock of another transaction and then takes the row as that one left it. *)
(* The session writes a title only when it differs from the one it loaded, *)
(* raises when its UPDATE matches no row and only warns when its DELETE    *)
(* does.                                                                   *)
(***************************************************************************)
EXTENDS Naturals, Sequences

CONSTANTS
  Request,      \* HTTP requests; a conversation is named by the one that made it
  User,
  Title,
  None

Operation == {"create", "rename", "delete"}
Answer == {"created", "renamed", "deleted", "not_found", "error"}

ASSUME NoneAssumption ==
  None \notin Request \cup User \cup Title \cup Operation \cup Answer

VARIABLES
  row,          \* the conversations row made by each request
  owner,        \* its owner_id
  titles,       \* the titles it has had, as committed; the last is the present one
  lock,         \* the request whose transaction holds the row
  step,         \* where each request is
  op,           \* what it is to do
  by,           \* the authenticated user
  target,       \* the conversation it is about
  asked,        \* the title in its payload
  loaded,       \* the title it read
  from,         \* how many titles the conversation had had when it began
  shown,        \* the title in its response
  answer        \* its response

table == <<row, owner, titles, lock>>
input == <<op, by, target, asked, from>>
vars == <<table, input, step, loaded, shown, answer>>

Step == {"new", "inserting", "finding", "updating", "deleting", "committing", "done"}

TypeOK ==
  /\ row \in [Request -> {"none", "open", "live", "deleted"}]
  /\ owner \in [Request -> User \cup {None}]
  /\ titles \in [Request -> Seq(Title)]
  /\ lock \in [Request -> Request \cup {None}]
  /\ step \in [Request -> Step]
  /\ op \in [Request -> Operation \cup {None}]
  /\ by \in [Request -> User \cup {None}]
  /\ target \in [Request -> Request]
  /\ asked \in [Request -> Title \cup {None}]
  /\ loaded \in [Request -> Title \cup {None}]
  /\ from \in [Request -> Nat]
  /\ shown \in [Request -> Title \cup {None}]
  /\ answer \in [Request -> Answer \cup {None}]
  /\ \A r \in Request : step[r] = "updating" => loaded[r] \in Title

Init ==
  /\ row = [r \in Request |-> "none"]
  /\ owner = [r \in Request |-> None]
  /\ titles = [r \in Request |-> <<>>]
  /\ lock = [r \in Request |-> None]
  /\ step = [r \in Request |-> "new"]
  /\ op = [r \in Request |-> None]
  /\ by = [r \in Request |-> None]
  /\ target = [r \in Request |-> r]
  /\ asked = [r \in Request |-> None]
  /\ loaded = [r \in Request |-> None]
  /\ from = [r \in Request |-> 0]
  /\ shown = [r \in Request |-> None]
  /\ answer = [r \in Request |-> None]

-----------------------------------------------------------------------------

Goto(r, position) == step' = [step EXCEPT ![r] = position]

Respond(r, result) ==
  /\ Goto(r, "done")
  /\ answer' = [answer EXCEPT ![r] = result]

CurrentTitle(c) == IF titles[c] = <<>> THEN None ELSE titles[c][Len(titles[c])]

(* A request of user u to do o to conversation c, past the authentication. *)
Begin(r, o, u, c, position) ==
  /\ step[r] = "new"
  /\ op' = [op EXCEPT ![r] = o]
  /\ by' = [by EXCEPT ![r] = u]
  /\ target' = [target EXCEPT ![r] = c]
  /\ from' = [from EXCEPT ![r] = Len(titles[c])]
  /\ Goto(r, position)
  /\ UNCHANGED <<table, loaded, shown, answer>>

BeginCreate(r) ==
  /\ \E u \in User : Begin(r, "create", u, r, "inserting")
  /\ \E t \in Title : asked' = [asked EXCEPT ![r] = t]

(* Clients may know the id of whatever was committed; one of another user  *)
(* stands for a guessed id.                                                *)
BeginRename(r) ==
  /\ \E u \in User, c \in Request :
       row[c] \in {"live", "deleted"} /\ Begin(r, "rename", u, c, "finding")
  /\ \E t \in Title : asked' = [asked EXCEPT ![r] = t]

BeginDelete(r) ==
  /\ \E u \in User, c \in Request :
       row[c] \in {"live", "deleted"} /\ Begin(r, "delete", u, c, "finding")
  /\ UNCHANGED asked

(* INSERT and refresh; the row is nobody else's until the commit.          *)
InsertConversation(r) ==
  /\ step[r] = "inserting"
  /\ row' = [row EXCEPT ![r] = "open"]
  /\ owner' = [owner EXCEPT ![r] = by[r]]
  /\ lock' = [lock EXCEPT ![r] = r]
  /\ shown' = [shown EXCEPT ![r] = asked[r]]
  /\ Goto(r, "committing")
  /\ UNCHANGED <<titles, input, loaded, answer>>

(* get_by_id and the owner test of _get_owned_conversation; the faulty     *)
(* form forgets both.                                                      *)
FindUnchecked(r) ==
  /\ step[r] = "finding"
  /\ loaded' = [loaded EXCEPT ![r] =
       IF row[target[r]] = "live" THEN CurrentTitle(target[r]) ELSE None]
  /\ Goto(r, IF op[r] = "rename" THEN "updating" ELSE "deleting")
  /\ UNCHANGED <<table, input, shown, answer>>

Find(r) ==
  /\ step[r] = "finding"
  /\ \/ /\ row[target[r]] = "live"
        /\ owner[target[r]] = by[r]
        /\ loaded' = [loaded EXCEPT ![r] = CurrentTitle(target[r])]
        /\ Goto(r, IF op[r] = "rename" THEN "updating" ELSE "deleting")
        /\ UNCHANGED answer
     \/ /\ row[target[r]] # "live" \/ owner[target[r]] # by[r]
        /\ Respond(r, "not_found")
        /\ UNCHANGED loaded
  /\ UNCHANGED <<table, input, shown>>

(* A faulty Update: an UPDATE that matches no row is taken for done.       *)
UpdateUnmatched(r) ==
  /\ step[r] = "updating"
  /\ asked[r] # loaded[r]
  /\ lock[target[r]] = None
  /\ lock' = IF row[target[r]] = "live" THEN [lock EXCEPT ![target[r]] = r] ELSE lock
  /\ shown' = [shown EXCEPT ![r] = asked[r]]
  /\ Goto(r, "committing")
  /\ UNCHANGED <<row, owner, titles, input, loaded, answer>>

(* update_title with another title than the loaded one: UPDATE and refresh *)
(* under the row lock.                                                     *)
Update(r) ==
  /\ step[r] = "updating"
  /\ asked[r] # loaded[r]
  /\ lock[target[r]] = None
  /\ \/ /\ row[target[r]] = "live"
        /\ lock' = [lock EXCEPT ![target[r]] = r]
        /\ shown' = [shown EXCEPT ![r] = asked[r]]
        /\ Goto(r, "committing")
        /\ UNCHANGED answer
     \/ /\ row[target[r]] # "live"
        /\ Respond(r, "error")
        /\ UNCHANGED <<lock, shown>>
  /\ UNCHANGED <<row, owner, titles, input, loaded>>

(* With the loaded title there is nothing to flush: the refresh is a plain *)
(* SELECT, which takes no lock and reads what is committed by now.         *)
Reread(r) ==
  /\ step[r] = "updating"
  /\ asked[r] = loaded[r]
  /\ \/ /\ row[target[r]] = "live"
        /\ shown' = [shown EXCEPT ![r] = CurrentTitle(target[r])]
        /\ Goto(r, "committing")
        /\ UNCHANGED answer
     \/ /\ row[target[r]] # "live"
        /\ Respond(r, "error")
        /\ UNCHANGED shown
  /\ UNCHANGED <<table, input, loaded>>

(* DELETE; when another request was faster it matches nothing.             *)
DeleteRow(r) ==
  /\ step[r] = "deleting"
  /\ lock[target[r]] = None
  /\ lock' = IF row[target[r]] = "live" THEN [lock EXCEPT ![target[r]] = r] ELSE lock
  /\ Goto(r, "committing")
  /\ UNCHANGED <<row, owner, titles, input, loaded, shown, answer>>

(* A statement raises: get_db rolls back, the answer is a 500.             *)
StatementFails(r) ==
  /\ step[r] \in {"inserting", "finding", "updating", "deleting"}
  /\ Respond(r, "error")
  /\ UNCHANGED <<table, input, loaded, shown>>

Release(r) == lock' = [c \in Request |-> IF lock[c] = r THEN None ELSE lock[c]]

(* What the transaction of r did, if it did anything, becomes durable.     *)
MakeDurable(r) ==
  LET c == target[r] IN
  /\ row' = IF lock[c] # r THEN row
            ELSE [row EXCEPT ![c] = IF op[r] = "delete" THEN "deleted" ELSE "live"]
  /\ titles' = IF lock[c] # r \/ op[r] = "delete" THEN titles
               ELSE [titles EXCEPT ![c] = Append(@, asked[r])]

RollBack(r) ==
  /\ row' = [row EXCEPT ![r] = IF op[r] = "create" THEN "none" ELSE @]
  /\ UNCHANGED titles

Success(o) == CASE o = "create" -> "created" [] o = "rename" -> "renamed"
                [] o = "delete" -> "deleted"

(* A faulty Commit: the object is merged, which would insert it again.     *)
CommitMerges(r) ==
  /\ step[r] = "committing"
  /\ row' = [row EXCEPT ![target[r]] = IF op[r] = "delete" THEN "deleted" ELSE "live"]
  /\ UNCHANGED titles
  /\ Release(r)
  /\ Respond(r, Success(op[r]))
  /\ UNCHANGED <<owner, input, loaded, shown>>

Commit(r) ==
  /\ step[r] = "committing"
  /\ MakeDurable(r)
  /\ Release(r)
  /\ Respond(r, Success(op[r]))
  /\ UNCHANGED <<owner, input, loaded, shown>>

(* A faulty CommitFails: the transaction is left open.                     *)
CommitFailsStaysOpen(r) ==
  /\ step[r] = "committing"
  /\ Respond(r, "error")
  /\ UNCHANGED <<table, input, loaded, shown>>

(* commit() raises: rolled back, or durable with the answer lost.          *)
CommitFails(r) ==
  /\ step[r] = "committing"
  /\ MakeDurable(r) \/ RollBack(r)
  /\ Release(r)
  /\ Respond(r, "error")
  /\ UNCHANGED <<owner, input, loaded, shown>>

RequestStep(r) ==
  \/ InsertConversation(r) \/ Find(r) \/ Update(r) \/ Reread(r) \/ DeleteRow(r)
  \/ StatementFails(r) \/ Commit(r) \/ CommitFails(r)

Next ==
  \E r \in Request :
    \/ BeginCreate(r) \/ BeginRename(r) \/ BeginDelete(r)
    \/ RequestStep(r)

Spec == Init /\ [][Next]_vars

(* What a request awaits returns or raises.  A statement that waits for    *)
(* the row of another request gets it when that one ends: its failure is   *)
(* no help, and so each step has its own fairness.                         *)
Fairness ==
  \A r \in Request :
    /\ WF_vars(InsertConversation(r)) /\ WF_vars(Find(r))
    /\ WF_vars(Update(r)) /\ WF_vars(Reread(r)) /\ WF_vars(DeleteRow(r))
    /\ WF_vars(Commit(r) \/ CommitFails(r))

FairSpec == Spec /\ Fairness

-----------------------------------------------------------------------------
(* Correctness.                                                            *)

(* The title asked for was the committed title of the conversation at some *)
(* time between the request and its response.                              *)
TookEffect(r) ==
  \E k \in DOMAIN titles[target[r]] :
    k >= from[r] /\ titles[target[r]][k] = asked[r]

(* An answer is the truth about the table, whatever other requests did     *)
(* between the look-up, the statement and the commit: what was created has *)
(* been there, what was deleted is gone, and what was renamed had the new  *)
(* title at some time after the request began.                             *)
AnswersAreTrue ==
  \A r \in Request :
    /\ answer[r] = "created" => row[r] \in {"live", "deleted"}
    /\ answer[r] = "deleted" => row[target[r]] = "deleted"
    /\ answer[r] = "renamed" => TookEffect(r)

(* A conversation is deleted for good: no rename that had read it before   *)
(* brings it back or gives it another title.                               *)
DeletedStays ==
  \A c \in Request :
    row[c] = "deleted" => row'[c] = "deleted" /\ titles'[c] = titles[c]
DeletedForGood == [][DeletedStays]_vars

(* A conversation changes only in a commit of a request by its owner.      *)
ChangedByOwner ==
  \A c \in Request :
    row[c] = "live" /\ (row'[c] # "live" \/ titles'[c] # titles[c]) =>
      \E r \in Request :
        step[r] = "committing" /\ target[r] = c /\ by[r] = owner[c]
OnlyOwnersChange == [][ChangedByOwner]_vars

(* Clients see a notebook whose entries change in one step, that of the    *)
(* answer, although a request looks up, writes and commits in three: what  *)
(* is not committed is not there, and has no owner yet.                    *)
Page == [c \in Request |-> IF row[c] = "open" THEN "none" ELSE row[c]]
Owner == [c \in Request |-> IF Page[c] = "none" THEN None ELSE owner[c]]
Pages == INSTANCE Notebook WITH page <- Page, owner <- Owner
ImplementsNotebook == Pages!Spec

(* Every request is answered, also one that waits for the row of another.  *)
RequestEnds == \A r \in Request : step[r] # "new" ~> step[r] = "done"

(* tests/test_conversation_service.py: a rename is answered with the title *)
(* it asked for.                                                           *)
RenameShowsTitle ==
  \A r \in Request : answer[r] = "renamed" => shown[r] = asked[r]

=============================================================================
