------------------------------ MODULE Notebook ------------------------------
(***************************************************************************)
(* What clients may rely on in the conversations they create, rename and   *)
(* delete, however their requests interleave and fail: a request has its   *)
(* effect, if it has one, in the very step that answers it, whole and on   *)
(* what there is at that moment.                                           *)
(*                                                                         *)
(* It is answered with success only for an effect, or for what has come    *)
(* true without it; that it found nothing, when there is nothing of its    *)
(* user; and with an error, which leaves open whether it had its effect.   *)
(***************************************************************************)
EXTENDS Naturals, Sequences

CONSTANTS
  Request,      \* a conversation is named by the request that made it
  User,
  Title,
  None

VARIABLES
  page,         \* "none", "live" or "deleted"
  owner,
  titles,       \* the titles a conversation has had
  op,           \* what a request is to do
  by,           \* for whom
  target,       \* to which conversation
  asked,        \* with which title
  from,         \* how many titles that had had when the request came
  answer

effects == <<page, owner, titles>>
input == <<op, by, target, asked, from>>
vars == <<effects, input, answer>>

Init ==
  /\ page = [r \in Request |-> "none"]
  /\ owner = [r \in Request |-> None]
  /\ titles = [r \in Request |-> <<>>]
  /\ op = [r \in Request |-> None]
  /\ by = [r \in Request |-> None]
  /\ target = [r \in Request |-> r]
  /\ asked = [r \in Request |-> None]
  /\ from = [r \in Request |-> 0]
  /\ answer = [r \in Request |-> None]

Ask(r, o, u, c, t) ==
  /\ op[r] = None
  /\ IF o = "create" THEN c = r ELSE page[c] # "none"
  /\ op' = [op EXCEPT ![r] = o]
  /\ by' = [by EXCEPT ![r] = u]
  /\ target' = [target EXCEPT ![r] = c]
  /\ asked' = [asked EXCEPT ![r] = t]
  /\ from' = [from EXCEPT ![r] = Len(titles[c])]
  /\ UNCHANGED <<effects, answer>>

-----------------------------------------------------------------------------

Owned(r) == page[target[r]] # "none" /\ owner[target[r]] = by[r]

Create(r) ==
  /\ op[r] = "create" /\ page[target[r]] = "none"
  /\ page' = [page EXCEPT ![target[r]] = "live"]
  /\ owner' = [owner EXCEPT ![target[r]] = by[r]]
  /\ titles' = [titles EXCEPT ![target[r]] = Append(@, asked[r])]

Rename(r) ==
  /\ op[r] = "rename" /\ Owned(r) /\ page[target[r]] = "live"
  /\ titles' = [titles EXCEPT ![target[r]] = Append(@, asked[r])]
  /\ UNCHANGED <<page, owner>>

Delete(r) ==
  /\ op[r] = "delete" /\ Owned(r) /\ page[target[r]] = "live"
  /\ page' = [page EXCEPT ![target[r]] = "deleted"]
  /\ UNCHANGED <<owner, titles>>

(* It has come true since the request began.                               *)
AlreadySo(r) ==
  /\ Owned(r)
  /\ \/ op[r] = "delete" /\ page[target[r]] = "deleted"
     \/ /\ op[r] = "rename"
        /\ \E k \in DOMAIN titles[target[r]] :
             k >= from[r] /\ titles[target[r]][k] = asked[r]

Nothing(r) == ~Owned(r) \/ page[target[r]] # "live"

Done(o) == CASE o = "create" -> "created" [] o = "rename" -> "renamed"
             [] o = "delete" -> "deleted"

Outcome(r, a) ==
  \/ /\ Create(r) \/ Rename(r) \/ Delete(r)
     /\ a \in {Done(op[r]), "error"}
  \/ /\ UNCHANGED effects
     /\ \/ a = Done(op[r]) /\ AlreadySo(r)
        \/ a = "not_found" /\ op[r] # "create" /\ Nothing(r)
        \/ a = "error"

Reply(r, a) ==
  /\ op[r] # None /\ answer[r] = None
  /\ Outcome(r, a)
  /\ answer' = [answer EXCEPT ![r] = a]
  /\ UNCHANGED input

Next ==
  \E r \in Request :
    \/ \E o \in {"create", "rename", "delete"}, u \in User, c \in Request,
          t \in Title \cup {None} : Ask(r, o, u, c, t)
    \/ \E a \in {"created", "renamed", "deleted", "not_found", "error"} : Reply(r, a)

Spec == Init /\ [][Next]_vars

=============================================================================
