------------------------------ MODULE Accounts ------------------------------
(***************************************************************************)
(* Registration, login, token refresh and token use (app/services/auth.py, *)
(* app/security.py, app/dependencies.py, app/repositories/user.py).        *)
(*                                                                         *)
(* Each request runs in a database session of its own; it is suspended at  *)
(* every statement, and so requests interleave there.  PostgreSQL runs at  *)
(* READ COMMITTED: a statement sees what is committed when it runs, and an *)
(* INSERT that would duplicate the key of an uncommitted row waits for it. *)
(* No endpoint deactivates or removes a user; the code checks for both, so *)
(* an operator does them here.                                             *)
(***************************************************************************)
EXTENDS Naturals

CONSTANTS
  Request,      \* HTTP requests; a user is named by the request that made it
  Email,        \* e-mail addresses, as clients may write them
  Normal,       \* _normalize_email: what strip().lower() makes of each
  AccessTTL,    \* access_token_expire_minutes
  RefreshTTL,   \* refresh_token_expire_days
  Latency,      \* bound on the time a request is in flight
  MaxTime,      \* bound of the clock, for model checking
  Nobody

ASSUME NormalAssumption == Normal \in [Email -> Email]
ASSUME TimesAssumption ==
  /\ AccessTTL \in Nat /\ RefreshTTL \in Nat /\ Latency \in Nat /\ MaxTime \in Nat
ASSUME NobodyAssumption == Nobody \notin Request \cup Email

VARIABLES
  account,      \* the users row made by each request
  email,        \* its e-mail column
  active,       \* rows with is_active
  step,         \* where each request is
  spelling,     \* the address it was given, as written
  since,        \* the time it began
  subject,      \* the user it has looked up, or Nobody
  root,         \* when the password behind its token was given
  answer,       \* its response
  tokens,       \* the tokens handed out
  now

rows == <<account, email, active>>
requests == <<step, spelling, since, subject, root, answer>>
vars == <<rows, requests, tokens, now>>

Step == {"new", "checking", "inserting", "committing", "finding", "verifying",
         "renewing", "reading", "using", "done"}
Answer == {"none", "created", "conflict", "authenticated", "renewed",
           "accepted", "unauthorized", "error"}
Token == [user : Request, type : {"access", "refresh"}, exp : Nat, root : Nat]

TypeOK ==
  /\ account \in [Request -> {"none", "open", "live", "removed"}]
  /\ email \in [Request -> Email \cup {Nobody}]
  /\ active \in SUBSET Request
  /\ step \in [Request -> Step]
  /\ spelling \in [Request -> Email \cup {Nobody}]
  /\ since \in [Request -> Nat]
  /\ subject \in [Request -> Request \cup {Nobody}]
  /\ root \in [Request -> Nat]
  /\ answer \in [Request -> Answer]
  /\ tokens \in SUBSET Token
  /\ now \in Nat

Init ==
  /\ account = [r \in Request |-> "none"]
  /\ email = [r \in Request |-> Nobody]
  /\ active = {}
  /\ step = [r \in Request |-> "new"]
  /\ spelling = [r \in Request |-> Nobody]
  /\ since = [r \in Request |-> 0]
  /\ subject = [r \in Request |-> Nobody]
  /\ root = [r \in Request |-> 0]
  /\ answer = [r \in Request |-> "none"]
  /\ tokens = {}
  /\ now = 0

-----------------------------------------------------------------------------

Goto(r, position) == step' = [step EXCEPT ![r] = position]

Respond(r, result) ==
  /\ Goto(r, "done")
  /\ answer' = [answer EXCEPT ![r] = result]

Address(r) == Normal[spelling[r]]

(* The committed users with the address of r.                              *)
Holders(r) == {u \in Request : account[u] = "live" /\ email[u] = Address(r)}

AccessToken(u, t) ==
  [user |-> u, type |-> "access", exp |-> now + AccessTTL, root |-> t]
RefreshToken(u, t) ==
  [user |-> u, type |-> "refresh", exp |-> now + RefreshTTL, root |-> t]

(* _issue_tokens: both tokens, from a password given now.                  *)
IssueTokens(u) == tokens' = tokens \cup {AccessToken(u, now), RefreshToken(u, now)}

(* decode_token: the type is the expected one and exp has not passed.      *)
Decodes(token, type) == token.type = type /\ token.exp >= now

-----------------------------------------------------------------------------
(* register_user.                                                          *)

BeginRegister(r) ==
  /\ step[r] = "new"
  /\ \E w \in Email : spelling' = [spelling EXCEPT ![r] = w]
  /\ since' = [since EXCEPT ![r] = now]
  /\ Goto(r, "checking")
  /\ UNCHANGED <<rows, subject, root, answer, tokens, now>>

(* exists_by_email.                                                        *)
CheckEmail(r) ==
  /\ step[r] = "checking"
  /\ \/ Holders(r) # {} /\ Respond(r, "conflict")
     \/ Holders(r) = {} /\ Goto(r, "inserting") /\ UNCHANGED answer
  /\ UNCHANGED <<rows, spelling, since, subject, root, tokens, now>>

(* A faulty InsertUser: no unique index stops the INSERT.                  *)
InsertDuplicate(r) ==
  /\ step[r] = "inserting"
  /\ account' = [account EXCEPT ![r] = "open"]
  /\ email' = [email EXCEPT ![r] = Address(r)]
  /\ active' = active \cup {r}
  /\ Goto(r, "committing")
  /\ UNCHANGED <<spelling, since, subject, root, answer, tokens, now>>

(* The INSERT waits for an uncommitted row with the same address; with a   *)
(* committed one it raises IntegrityError, which is rolled back and        *)
(* answered as a conflict.                                                 *)
InsertUser(r) ==
  /\ step[r] = "inserting"
  /\ \A u \in Request : account[u] = "open" => email[u] # Address(r)
  /\ \/ /\ Holders(r) = {}
        /\ account' = [account EXCEPT ![r] = "open"]
        /\ email' = [email EXCEPT ![r] = Address(r)]
        /\ active' = active \cup {r}
        /\ Goto(r, "committing")
        /\ UNCHANGED answer
     \/ /\ Holders(r) # {}
        /\ Respond(r, "conflict")
        /\ UNCHANGED rows
  /\ UNCHANGED <<spelling, since, subject, root, tokens, now>>

CommitUser(r) ==
  /\ step[r] = "committing"
  /\ account' = [account EXCEPT ![r] = "live"]
  /\ IssueTokens(r)
  /\ Respond(r, "created")
  /\ UNCHANGED <<email, active, spelling, since, subject, root, now>>

(* The commit raises: rolled back, or durable with the answer lost.  The   *)
(* exception is no IntegrityError and becomes a 500, and get_db ends the   *)
(* transaction.  Faulty forms treat every exception as a conflict, answer  *)
(* with tokens all the same, or leave the transaction open.                *)
CommitUserFailsAsConflict(r) ==
  /\ step[r] = "committing"
  /\ account' = [account EXCEPT ![r] = "none"]
  /\ Respond(r, "conflict")
  /\ UNCHANGED <<email, active, spelling, since, subject, root, tokens, now>>

CommitUserFailsUnnoticed(r) ==
  /\ step[r] = "committing"
  /\ account' = [account EXCEPT ![r] = "none"]
  /\ IssueTokens(r)
  /\ Respond(r, "created")
  /\ UNCHANGED <<email, active, spelling, since, subject, root, now>>

CommitUserFailsStaysOpen(r) ==
  /\ step[r] = "committing"
  /\ Respond(r, "error")
  /\ UNCHANGED <<rows, spelling, since, subject, root, tokens, now>>

CommitUserFails(r) ==
  /\ step[r] = "committing"
  /\ \E outcome \in {"none", "live"} : account' = [account EXCEPT ![r] = outcome]
  /\ Respond(r, "error")
  /\ UNCHANGED <<email, active, spelling, since, subject, root, tokens, now>>

-----------------------------------------------------------------------------
(* login: look the user up by address, verify the password, issue tokens.  *)

BeginLogin(r) ==
  /\ step[r] = "new"
  /\ \E w \in Email : spelling' = [spelling EXCEPT ![r] = w]
  /\ since' = [since EXCEPT ![r] = now]
  /\ Goto(r, "finding")
  /\ UNCHANGED <<rows, subject, root, answer, tokens, now>>

(* get_by_email ran and found an active user, or the login is refused: no  *)
(* user, wrong password, inactive.  A faulty form forgets that there may   *)
(* be no user.                                                             *)
FindUserUnchecked(r) ==
  /\ step[r] = "finding"
  /\ \/ Holders(r) = {} /\ UNCHANGED subject
     \/ \E u \in Holders(r) : subject' = [subject EXCEPT ![r] = u]
  /\ Goto(r, "verifying")
  /\ UNCHANGED <<rows, spelling, since, root, answer, tokens, now>>

FindUser(r) ==
  /\ step[r] = "finding"
  /\ \/ \E u \in Holders(r) \cap active :
          /\ subject' = [subject EXCEPT ![r] = u]
          /\ Goto(r, "verifying")
          /\ UNCHANGED answer
     \/ Respond(r, "unauthorized") /\ UNCHANGED subject
  /\ UNCHANGED <<rows, spelling, since, root, tokens, now>>

Authenticate(r) ==
  /\ step[r] = "verifying"
  /\ IssueTokens(subject[r])
  /\ Respond(r, "authenticated")
  /\ UNCHANGED <<rows, spelling, since, subject, root, now>>

-----------------------------------------------------------------------------
(* refresh_access_token, and for every other request get_current_user (or  *)
(* _authenticate of the WebSocket endpoint): decode the token, look its    *)
(* subject up, then go on.                                                 *)

(* A token of the expected type is decoded; the subject is looked up next. *)
Present(r, type, next) ==
  /\ step[r] = "new"
  /\ \E token \in tokens :
       /\ Decodes(token, type)
       /\ subject' = [subject EXCEPT ![r] = token.user]
       /\ root' = [root EXCEPT ![r] = token.root]
  /\ since' = [since EXCEPT ![r] = now]
  /\ Goto(r, next)
  /\ UNCHANGED <<rows, spelling, answer, tokens, now>>

BeginRefresh(r) == Present(r, "refresh", "renewing")
BeginUse(r) == Present(r, "access", "using")

(* get_by_id: the subject must be there and active.                        *)
LookUp(r, result) ==
  IF account[subject[r]] = "live" /\ subject[r] \in active
  THEN result ELSE "unauthorized"

(* The subject is read, then a new access token is made and answered with  *)
(* the old refresh token; a faulty form renews the refresh token as well.  *)
RenewBoth(r) ==
  /\ step[r] = "reading"
  /\ tokens' = tokens \cup {AccessToken(subject[r], root[r]),
                            RefreshToken(subject[r], root[r])}
  /\ Respond(r, "renewed")
  /\ UNCHANGED <<rows, spelling, since, subject, root, now>>

ReadSubject(r) ==
  /\ step[r] = "renewing"
  /\ \/ LookUp(r, "renewed") = "renewed" /\ Goto(r, "reading") /\ UNCHANGED answer
     \/ LookUp(r, "renewed") # "renewed" /\ Respond(r, "unauthorized")
  /\ UNCHANGED <<rows, spelling, since, subject, root, tokens, now>>

Renew(r) ==
  /\ step[r] = "reading"
  /\ tokens' = tokens \cup {AccessToken(subject[r], root[r])}
  /\ Respond(r, "renewed")
  /\ UNCHANGED <<rows, spelling, since, subject, root, now>>

Use(r) ==
  /\ step[r] = "using"
  /\ Respond(r, LookUp(r, "accepted"))
  /\ UNCHANGED <<rows, spelling, since, subject, root, tokens, now>>

RequestStep(r) ==
  \/ CheckEmail(r) \/ InsertUser(r) \/ CommitUser(r) \/ CommitUserFails(r)
  \/ FindUser(r) \/ Authenticate(r) \/ ReadSubject(r) \/ Renew(r) \/ Use(r)

-----------------------------------------------------------------------------
(* Failures, the operator and the clock.                                   *)

Deactivate(u) ==
  /\ account[u] = "live"
  /\ u \in active
  /\ active' = active \ {u}
  /\ UNCHANGED <<account, email, requests, tokens, now>>

Remove(u) ==
  /\ account[u] = "live"
  /\ account' = [account EXCEPT ![u] = "removed"]
  /\ UNCHANGED <<email, active, requests, tokens, now>>

(* A statement raises: get_db rolls back, the answer is a 500.             *)
StatementFails(r) ==
  /\ step[r] \in {"checking", "inserting", "finding", "renewing", "using"}
  /\ Respond(r, "error")
  /\ UNCHANGED <<rows, spelling, since, subject, root, tokens, now>>

Running(r) == step[r] \notin {"new", "done"}

Tick ==
  /\ now < MaxTime
  /\ \A r \in Request : Running(r) => now < since[r] + Latency
  /\ now' = now + 1
  /\ UNCHANGED <<rows, requests, tokens>>

Next ==
  \/ \E r \in Request :
       \/ BeginRegister(r) \/ BeginLogin(r) \/ BeginRefresh(r) \/ BeginUse(r)
       \/ RequestStep(r) \/ StatementFails(r)
       \/ Deactivate(r) \/ Remove(r)
  \/ Tick

Spec == Init /\ [][Next]_vars

(* Statements and commits return or raise; a request that waits for the    *)
(* row of another one goes on when that one ends.                          *)
Fairness == \A r \in Request : WF_vars(RequestStep(r))

FairSpec == Spec /\ Fairness

-----------------------------------------------------------------------------
(* Correctness.                                                            *)

(* However registrations interleave between the existence check and the    *)
(* commit, and however the address is spelled, no two users share it.      *)
OneAccountPerEmail ==
  \A r, u \in Request :
    /\ account[r] = "live" /\ account[u] = "live"
    /\ Normal[spelling[r]] = Normal[spelling[u]]
    => r = u

(* "already exists" is answered only when a user with the address has been *)
(* committed by another request.                                           *)
ConflictIsTrue ==
  \A r \in Request :
    answer[r] = "conflict" =>
      \E u \in Request \ {r} :
        account[u] \in {"live", "removed"} /\ Normal[spelling[u]] = Normal[spelling[r]]

(* Every token names a user that was committed: none is handed out for a   *)
(* registration that was rolled back.                                      *)
TokensHaveAccounts == \A t \in tokens : account[t.user] \in {"live", "removed"}

(* However long a client keeps refreshing, its access ends a fixed time    *)
(* after the password was last given: refresh tokens are not renewed, and  *)
(* no access token passes for one.  The request that refreshes may itself  *)
(* take a while between reading the clock and making the token.            *)
SessionIsBounded ==
  \A t \in tokens :
    t.exp <= t.root + RefreshTTL + AccessTTL + Latency

(* A registration looks for the address, inserts and commits in statements *)
(* of their own, and still clients see one directory in which each has its *)
(* effect at once: what is not committed is not there.                     *)
Entry == [r \in Request |-> IF account[r] = "open" THEN "none" ELSE account[r]]
Asked == [r \in Request |-> IF spelling[r] = Nobody THEN Nobody ELSE Normal[spelling[r]]]
Entries == INSTANCE Directory WITH entry <- Entry, address <- Asked
ImplementsDirectory == Entries!Spec

(* No request waits for ever, not even for the row of another one.         *)
RequestEnds == \A r \in Request : Running(r) ~> step[r] = "done"

=============================================================================
