--------------------------- MODULE AccountsProofs ---------------------------
(***************************************************************************)
(* Safety of Accounts for every set of requests and addresses, every way   *)
(* of normalising them, every lifetime of the tokens and every latency.    *)
(*                                                                         *)
(* AccountsInv is inductive.  RowInv ties a users row to the registration  *)
(* that made it, UniqueInv is the unique index, uncommitted rows included, *)
(* SubjectInv says that whoever a request has looked up was committed, and *)
(* TimeInv how far a request and its token may be behind the clock.        *)
(***************************************************************************)
EXTENDS Accounts, TLAPS

RowInv ==
  \A r \in Request :
    /\ account[r] = "open" <=> step[r] = "committing"
    /\ account[r] \in {"live", "removed"} => step[r] = "done"
    /\ account[r] # "none" => email[r] = Normal[spelling[r]]
    /\ step[r] \in {"checking", "inserting", "committing", "finding"} => spelling[r] \in Email
    /\ answer[r] # "none" => step[r] = "done"

UniqueInv ==
  \A r, u \in Request :
    /\ account[r] \in {"open", "live"} /\ account[u] \in {"open", "live"}
    /\ email[r] = email[u]
    => r = u

SubjectInv ==
  /\ TokensHaveAccounts
  /\ \A r \in Request :
       step[r] \in {"verifying", "renewing", "reading", "using"} =>
         /\ subject[r] \in Request
         /\ account[subject[r]] \in {"live", "removed"}

TimeInv ==
  /\ SessionIsBounded
  /\ \A t \in tokens : t.type = "refresh" => t.exp <= t.root + RefreshTTL
  /\ \A r \in Request :
       /\ Running(r) => now <= since[r] + Latency
       /\ step[r] \in {"renewing", "reading"} => since[r] <= root[r] + RefreshTTL

AccountsInv ==
  TypeOK /\ RowInv /\ UniqueInv /\ ConflictIsTrue /\ SubjectInv /\ TimeInv

LEMMA InvGroups ==
  AccountsInv <=>
    TypeOK /\ RowInv /\ UniqueInv /\ ConflictIsTrue /\ SubjectInv /\ TimeInv
BY DEF AccountsInv

LEMMA InitInv == Init => AccountsInv
BY DEF Init, AccountsInv, TypeOK, RowInv, UniqueInv, ConflictIsTrue, SubjectInv, TimeInv,
  TokensHaveAccounts, SessionIsBounded, Running, Step, Answer

-----------------------------------------------------------------------------
(* Frames: what does not concern the rows, the subjects or the times.      *)

LEMMA RowFrame ==
  ASSUME TypeOK, RowInv, UniqueInv, ConflictIsTrue, UNCHANGED <<account, email>>,
         \A r \in Request :
           /\ step[r] # "new" => spelling'[r] = spelling[r]
           /\ step[r] = "new" => step'[r] \notin {"committing", "inserting"}
           /\ step'[r] \in {"checking", "finding"} /\ step'[r] # step[r] => spelling'[r] \in Email
           /\ step'[r] = "inserting" => step[r] \in {"checking", "inserting"}
           /\ step'[r] = "committing" <=> step[r] = "committing"
           /\ step[r] = "done" => step'[r] = "done"
           /\ answer'[r] # answer[r] => step'[r] = "done"
           /\ answer'[r] = "conflict" /\ answer[r] # "conflict" =>
                step[r] \in {"checking", "inserting"} /\ Holders(r) # {}
  PROVE  RowInv' /\ UniqueInv' /\ ConflictIsTrue'
<1>1. RowInv'
  <2>1. \A r \in Request : account[r] \in {"none", "open", "live", "removed"}
    BY DEF TypeOK
  <2> QED BY <2>1 DEF RowInv
<1>2. UniqueInv'
  BY DEF UniqueInv
<1>3. ConflictIsTrue'
  <2>1. \A u \in Request : account[u] \in {"live", "removed"} => spelling'[u] = spelling[u]
    BY DEF RowInv
  <2>2. ASSUME NEW r \in Request, answer'[r] = "conflict", answer[r] = "conflict"
        PROVE  \E u \in Request \ {r} :
                 /\ account'[u] \in {"live", "removed"}
                 /\ Normal[spelling'[u]] = Normal[spelling'[r]]
    BY <2>1, <2>2 DEF ConflictIsTrue, RowInv
  <2>3. ASSUME NEW r \in Request, answer'[r] = "conflict", answer[r] # "conflict"
        PROVE  \E u \in Request \ {r} :
                 /\ account'[u] \in {"live", "removed"}
                 /\ Normal[spelling'[u]] = Normal[spelling'[r]]
    <3>1. PICK u \in Request : account[u] = "live" /\ email[u] = Normal[spelling[r]]
      BY <2>3 DEF Holders, Address
    <3>2. u # r /\ spelling'[r] = spelling[r]
      BY <2>3, <3>1 DEF RowInv
    <3> QED BY <2>1, <3>1, <3>2 DEF RowInv
  <2> QED BY <2>2, <2>3 DEF ConflictIsTrue
<1> QED BY <1>1, <1>2, <1>3

(* A request that looked nobody up or went on with whom it had.            *)
LEMMA SubjectFrame ==
  ASSUME SubjectInv, UNCHANGED tokens,
         \A u \in Request : account[u] \in {"live", "removed"} =>
                              account'[u] \in {"live", "removed"},
         tokens \subseteq Token,
         \A r \in Request :
           step'[r] \in {"verifying", "renewing", "reading", "using"} =>
             \/ /\ step[r] \in {"verifying", "renewing", "reading", "using"}
                /\ subject'[r] = subject[r]
             \/ /\ subject'[r] \in Request
                /\ account[subject'[r]] \in {"live", "removed"}
  PROVE  SubjectInv'
<1>1. \A t \in tokens : t.user \in Request
  BY DEF Token
<1>2. TokensHaveAccounts'
  BY <1>1 DEF SubjectInv, TokensHaveAccounts
<1> QED BY <1>2 DEF SubjectInv

LEMMA TimeFrame ==
  ASSUME TimeInv, UNCHANGED <<tokens, now, since, root>>,
         \A r \in Request :
           /\ step[r] = "done" => step'[r] = "done"
           /\ step'[r] # "new" => step[r] # "new"
           /\ step'[r] \in {"renewing", "reading"} => step[r] \in {"renewing", "reading"}
  PROVE  TimeInv'
BY DEF TimeInv, SessionIsBounded, Running

-----------------------------------------------------------------------------
(* Actions.                                                                *)

LEMMA PasswordInv ==
  ASSUME AccountsInv, NEW r \in Request, BeginRegister(r) \/ BeginLogin(r)
  PROVE  AccountsInv'
<1> USE DEF BeginRegister, BeginLogin, Goto, rows
<1>1. TypeOK /\ RowInv /\ UniqueInv /\ ConflictIsTrue /\ SubjectInv /\ TimeInv
  BY InvGroups
<1>2. PICK w \in Email, position \in {"checking", "finding"} :
        /\ step[r] = "new"
        /\ spelling' = [spelling EXCEPT ![r] = w]
        /\ since' = [since EXCEPT ![r] = now]
        /\ step' = [step EXCEPT ![r] = position]
        /\ UNCHANGED <<account, email, active, subject, root, answer, tokens, now>>
  OBVIOUS
<1>3. TypeOK'
  BY <1>1, <1>2 DEF TypeOK, Step
<1>4. RowInv' /\ UniqueInv' /\ ConflictIsTrue'
  BY <1>1, <1>2, RowFrame DEF TypeOK
<1>5. SubjectInv'
  BY <1>1, <1>2, SubjectFrame DEF TypeOK
<1>6. TimeInv'
  <2>1. now \in Nat /\ now <= now + Latency
    BY <1>1, TimesAssumption DEF TypeOK
  <2>2. \A q \in Request \ {r} : step'[q] = step[q] /\ since'[q] = since[q]
    BY <1>1, <1>2 DEF TypeOK
  <2>3. since'[r] = now /\ step'[r] \in {"checking", "finding"}
    BY <1>1, <1>2 DEF TypeOK
  <2> QED BY <1>1, <1>2, <2>1, <2>2, <2>3 DEF TimeInv, SessionIsBounded, Running
<1> QED BY <1>3, <1>4, <1>5, <1>6 DEF AccountsInv

(* A token is presented: its subject was committed, and a refresh token    *)
(* has not outlived its password by more than RefreshTTL.                  *)
LEMMA PresentInv ==
  ASSUME AccountsInv, NEW r \in Request, BeginRefresh(r) \/ BeginUse(r)
  PROVE  AccountsInv'
<1>1. TypeOK /\ RowInv /\ UniqueInv /\ ConflictIsTrue /\ SubjectInv /\ TimeInv
  BY InvGroups
<1>2. PICK token \in tokens, next \in {"renewing", "using"} :
        /\ step[r] = "new"
        /\ token.exp >= now
        /\ next = "renewing" => token.type = "refresh"
        /\ subject' = [subject EXCEPT ![r] = token.user]
        /\ root' = [root EXCEPT ![r] = token.root]
        /\ since' = [since EXCEPT ![r] = now]
        /\ step' = [step EXCEPT ![r] = next]
        /\ UNCHANGED <<account, email, active, spelling, answer, tokens, now>>
  BY DEF BeginRefresh, BeginUse, Present, Decodes, Goto, rows
<1>3. token.user \in Request /\ token.root \in Nat /\ token.exp \in Nat /\ tokens \subseteq Token
  BY <1>1 DEF TypeOK, Token
<1>4. TypeOK'
  BY <1>1, <1>2, <1>3 DEF TypeOK, Step
<1>5. RowInv' /\ UniqueInv' /\ ConflictIsTrue'
  BY <1>1, <1>2, RowFrame DEF TypeOK
<1>6. SubjectInv'
  <2>1. account[token.user] \in {"live", "removed"}
    BY <1>1 DEF SubjectInv, TokensHaveAccounts
  <2> QED BY <1>1, <1>2, <1>3, <2>1, SubjectFrame DEF TypeOK
<1>7. TimeInv'
  <2>1. now \in Nat /\ now <= now + Latency /\ RefreshTTL \in Nat
    BY <1>1, TimesAssumption DEF TypeOK
  <2>2. \A q \in Request \ {r} : step'[q] = step[q] /\ since'[q] = since[q] /\ root'[q] = root[q]
    BY <1>1, <1>2 DEF TypeOK
  <2>3. since'[r] = now /\ root'[r] = token.root /\ step'[r] = next
    BY <1>1, <1>2 DEF TypeOK
  <2>4. next = "renewing" => now <= token.root + RefreshTTL
    <3>1. next = "renewing" => token.exp <= token.root + RefreshTTL
      BY <1>1, <1>2 DEF TimeInv
    <3> QED BY <1>2, <1>3, <2>1, <3>1
  <2> QED BY <1>1, <1>2, <2>1, <2>2, <2>3, <2>4 DEF TimeInv, SessionIsBounded, Running
<1> QED BY <1>4, <1>5, <1>6, <1>7 DEF AccountsInv

LEMMA LookUpInv ==
  ASSUME AccountsInv, NEW r \in Request,
         CheckEmail(r) \/ FindUser(r) \/ ReadSubject(r) \/ Use(r) \/ StatementFails(r)
  PROVE  AccountsInv'
<1> USE DEF Goto, Respond, rows
<1>1. TypeOK /\ RowInv /\ UniqueInv /\ ConflictIsTrue /\ SubjectInv /\ TimeInv
  BY InvGroups
<1>2. /\ UNCHANGED <<account, email, active, spelling, since, root, tokens, now>>
      /\ step[r] \in {"checking", "inserting", "finding", "renewing", "using"}
  BY DEF CheckEmail, FindUser, ReadSubject, Use, StatementFails
<1>3. \/ /\ step[r] = "checking" /\ step' = [step EXCEPT ![r] = "inserting"]
         /\ UNCHANGED <<answer, subject>>
      \/ /\ step[r] = "renewing" /\ step' = [step EXCEPT ![r] = "reading"]
         /\ UNCHANGED <<answer, subject>>
      \/ /\ step[r] = "finding" /\ step' = [step EXCEPT ![r] = "verifying"]
         /\ UNCHANGED answer
         /\ \E u \in Holders(r) : subject' = [subject EXCEPT ![r] = u]
      \/ /\ step' = [step EXCEPT ![r] = "done"]
         /\ UNCHANGED subject
         /\ \E a \in Answer :
              /\ answer' = [answer EXCEPT ![r] = a]
              /\ a = "conflict" => step[r] = "checking" /\ Holders(r) # {}
  BY DEF CheckEmail, FindUser, ReadSubject, Use, StatementFails, LookUp, Answer
<1>4. \A u \in Holders(r) : u \in Request /\ account[u] = "live"
  BY DEF Holders
<1>5. TypeOK'
  <2>1. step' \in [Request -> Step]
    BY <1>1, <1>3 DEF TypeOK, Step
  <2>2. answer' \in [Request -> Answer]
    BY <1>1, <1>3 DEF TypeOK
  <2>3. subject' \in [Request -> Request \cup {Nobody}]
    BY <1>1, <1>3, <1>4 DEF TypeOK
  <2> QED BY <1>1, <1>2, <2>1, <2>2, <2>3 DEF TypeOK
<1>6. step \in [Request -> Step] /\ answer \in [Request -> Answer]
      /\ subject \in [Request -> Request \cup {Nobody}] /\ tokens \subseteq Token
  BY <1>1 DEF TypeOK
<1>7. RowInv' /\ UniqueInv' /\ ConflictIsTrue'
  BY <1>1, <1>2, <1>3, <1>6, RowFrame
<1>8. SubjectInv'
  BY <1>1, <1>2, <1>3, <1>4, <1>6, SubjectFrame
<1>9. TimeInv'
  BY <1>1, <1>2, <1>3, <1>6, TimeFrame
<1> QED BY <1>5, <1>7, <1>8, <1>9 DEF AccountsInv

(* New tokens for u from a password given at t: an access token, and a     *)
(* refresh token only when the password is given now.                      *)
LEMMA NewTokens ==
  ASSUME TypeOK, TimeInv, NEW u \in Request, NEW t \in Nat,
         now <= t + RefreshTTL + Latency,
         \/ tokens' = tokens \cup {AccessToken(u, t)}
         \/ t = now /\ tokens' = tokens \cup {AccessToken(u, t), RefreshToken(u, t)}
  PROVE  /\ tokens' \in SUBSET Token
         /\ \A k \in tokens' : /\ k \in tokens \/ k.user = u
                               /\ k.exp <= k.root + RefreshTTL + AccessTTL + Latency
                               /\ k.type = "refresh" => k.exp <= k.root + RefreshTTL
<1>1. now \in Nat /\ tokens \subseteq Token /\ now + AccessTTL \in Nat /\ now + RefreshTTL \in Nat
  BY TimesAssumption DEF TypeOK
<1>2. AccessToken(u, t) \in Token /\ RefreshToken(u, t) \in Token
  BY <1>1 DEF AccessToken, RefreshToken, Token
<1>3. now + AccessTTL <= t + RefreshTTL + AccessTTL + Latency
  BY <1>1, TimesAssumption
<1>4. now + RefreshTTL <= now + RefreshTTL + AccessTTL + Latency
  BY <1>1, TimesAssumption
<1> QED
  BY <1>1, <1>2, <1>3, <1>4 DEF AccessToken, RefreshToken, TimeInv, SessionIsBounded

LEMMA IssueInv ==
  ASSUME AccountsInv, NEW r \in Request, Authenticate(r) \/ Renew(r)
  PROVE  AccountsInv'
<1> USE DEF Goto, Respond, rows
<1>1. TypeOK /\ RowInv /\ UniqueInv /\ ConflictIsTrue /\ SubjectInv /\ TimeInv
  BY InvGroups
<1>2. /\ UNCHANGED <<account, email, active, spelling, since, subject, root, now>>
      /\ step[r] \in {"verifying", "reading"} /\ step' = [step EXCEPT ![r] = "done"]
      /\ \E a \in {"authenticated", "renewed"} : answer' = [answer EXCEPT ![r] = a]
  BY DEF Authenticate, Renew
<1>3. subject[r] \in Request /\ account[subject[r]] \in {"live", "removed"}
  BY <1>1, <1>2 DEF SubjectInv
<1>4. /\ tokens' \in SUBSET Token
      /\ \A k \in tokens' : /\ k \in tokens \/ k.user = subject[r]
                            /\ k.exp <= k.root + RefreshTTL + AccessTTL + Latency
                            /\ k.type = "refresh" => k.exp <= k.root + RefreshTTL
  <2>1. CASE Authenticate(r)
    <3>1. now \in Nat /\ now <= now + RefreshTTL + Latency
      BY <1>1, TimesAssumption DEF TypeOK
    <3> QED BY <1>1, <1>3, <2>1, <3>1, NewTokens DEF Authenticate, IssueTokens
  <2>2. CASE Renew(r)
    <3>1. since[r] <= root[r] + RefreshTTL /\ now <= since[r] + Latency
      BY <1>1, <2>2 DEF TimeInv, Running, Renew
    <3>2. now \in Nat /\ since[r] \in Nat /\ root[r] \in Nat
      BY <1>1 DEF TypeOK
    <3>3. now <= root[r] + RefreshTTL + Latency
      BY <3>1, <3>2, TimesAssumption
    <3> QED BY <1>1, <1>3, <2>2, <3>2, <3>3, NewTokens DEF Renew
  <2> QED BY <2>1, <2>2
<1>5. step \in [Request -> Step] /\ answer \in [Request -> Answer] /\ tokens \subseteq Token
  BY <1>1 DEF TypeOK
<1>6. TypeOK'
  <2>1. step' \in [Request -> Step] /\ answer' \in [Request -> Answer]
    BY <1>2, <1>5 DEF Step, Answer
  <2> QED BY <1>1, <1>2, <1>4, <2>1 DEF TypeOK
<1>7. RowInv' /\ UniqueInv' /\ ConflictIsTrue'
  BY <1>1, <1>2, <1>5, RowFrame
<1>8. SubjectInv'
  <2>1. TokensHaveAccounts'
    BY <1>1, <1>2, <1>3, <1>4 DEF SubjectInv, TokensHaveAccounts
  <2> QED BY <1>1, <1>2, <1>5, <2>1 DEF SubjectInv
<1>9. TimeInv'
  BY <1>1, <1>2, <1>4, <1>5 DEF TimeInv, SessionIsBounded, Running
<1> QED BY <1>6, <1>7, <1>8, <1>9 DEF AccountsInv

(* The INSERT: nobody has the address, committed or not, or it is refused. *)
LEMMA InsertInv ==
  ASSUME AccountsInv, NEW r \in Request, InsertUser(r)
  PROVE  AccountsInv'
<1> USE DEF InsertUser, Goto, Respond, rows
<1>1. TypeOK /\ RowInv /\ UniqueInv /\ ConflictIsTrue /\ SubjectInv /\ TimeInv
  BY InvGroups
<1>2. /\ step[r] = "inserting" /\ UNCHANGED <<spelling, since, subject, root, tokens, now>>
      /\ step \in [Request -> Step] /\ answer \in [Request -> Answer] /\ tokens \subseteq Token
      /\ account \in [Request -> {"none", "open", "live", "removed"}]
      /\ email \in [Request -> Email \cup {Nobody}]
      /\ spelling[r] \in Email
  BY <1>1 DEF TypeOK, RowInv
<1>3. CASE Holders(r) # {} /\ Respond(r, "conflict") /\ UNCHANGED rows
  <2>1. TypeOK'
    BY <1>1, <1>2, <1>3 DEF TypeOK, Step, Answer
  <2>2. RowInv' /\ UniqueInv' /\ ConflictIsTrue'
    BY <1>1, <1>2, <1>3, RowFrame
  <2>3. SubjectInv'
    BY <1>1, <1>2, <1>3, SubjectFrame
  <2>4. TimeInv'
    BY <1>1, <1>2, <1>3, TimeFrame
  <2> QED BY <2>1, <2>2, <2>3, <2>4 DEF AccountsInv
<1>4. CASE /\ Holders(r) = {}
           /\ account' = [account EXCEPT ![r] = "open"]
           /\ email' = [email EXCEPT ![r] = Address(r)]
           /\ active' = active \cup {r}
           /\ step' = [step EXCEPT ![r] = "committing"]
           /\ UNCHANGED answer
  <2>1. Address(r) = Normal[spelling[r]] /\ Address(r) \in Email
    BY <1>2, NormalAssumption DEF Address
  <2>2. TypeOK'
    <3>1. step' \in [Request -> Step]
      BY <1>2, <1>4 DEF Step
    <3>2. account' \in [Request -> {"none", "open", "live", "removed"}]
      BY <1>2, <1>4
    <3>3. email' \in [Request -> Email \cup {Nobody}]
      BY <1>2, <1>4, <2>1
    <3>4. active' \in SUBSET Request
      BY <1>1, <1>4 DEF TypeOK
    <3> QED BY <1>1, <1>2, <1>4, <3>1, <3>2, <3>3, <3>4 DEF TypeOK
  <2>3. account[r] = "none" /\ answer[r] = "none"
    BY <1>1, <1>2 DEF RowInv
  <2>4. RowInv'
    BY <1>1, <1>2, <1>4, <2>1, <2>3 DEF RowInv
  <2>5. \A u \in Request \ {r} : account[u] \in {"open", "live"} => email[u] # Address(r)
    BY <1>4 DEF Holders
  <2>6. UniqueInv'
    BY <1>1, <1>2, <1>4, <2>1, <2>5 DEF UniqueInv
  <2>7. ConflictIsTrue'
    BY <1>1, <1>2, <1>4, <2>3 DEF ConflictIsTrue
  <2>8. SubjectInv'
    BY <1>1, <1>2, <1>4, <2>3, SubjectFrame
  <2>9. TimeInv'
    BY <1>1, <1>2, <1>4, TimeFrame
  <2> QED BY <2>2, <2>4, <2>6, <2>7, <2>8, <2>9 DEF AccountsInv
<1> QED BY <1>3, <1>4

(* The commit, or its failure with the row durable or not.                 *)
LEMMA CommitInv ==
  ASSUME AccountsInv, NEW r \in Request, CommitUser(r) \/ CommitUserFails(r)
  PROVE  AccountsInv'
<1> USE DEF Goto, Respond
<1>1. TypeOK /\ RowInv /\ UniqueInv /\ ConflictIsTrue /\ SubjectInv /\ TimeInv
  BY InvGroups
<1>2. /\ step[r] = "committing"
      /\ step' = [step EXCEPT ![r] = "done"]
      /\ UNCHANGED <<email, active, spelling, since, subject, root, now>>
      /\ \E outcome \in {"none", "live"} :
           /\ account' = [account EXCEPT ![r] = outcome]
           /\ \/ outcome = "live" /\ IssueTokens(r)
              \/ tokens' = tokens
      /\ \E a \in {"created", "error"} : answer' = [answer EXCEPT ![r] = a]
  BY DEF CommitUser, CommitUserFails
<1>3. /\ step \in [Request -> Step] /\ answer \in [Request -> Answer] /\ tokens \subseteq Token
      /\ account \in [Request -> {"none", "open", "live", "removed"}]
      /\ account[r] = "open"
  BY <1>1, <1>2 DEF TypeOK, RowInv
<1>4. /\ tokens' \in SUBSET Token
      /\ \A k \in tokens' : /\ k \in tokens \/ (k.user = r /\ account'[r] = "live")
                            /\ k.exp <= k.root + RefreshTTL + AccessTTL + Latency
                            /\ k.type = "refresh" => k.exp <= k.root + RefreshTTL
  <2>1. CASE tokens' = tokens
    BY <1>1, <1>3, <2>1 DEF TimeInv, SessionIsBounded
  <2>2. CASE account'[r] = "live" /\ IssueTokens(r)
    <3>1. now \in Nat /\ now <= now + RefreshTTL + Latency
      BY <1>1, TimesAssumption DEF TypeOK
    <3> QED BY <1>1, <2>2, <3>1, NewTokens DEF IssueTokens
  <2> QED BY <1>2, <1>3, <2>1, <2>2
<1>5. TypeOK'
  <2>1. step' \in [Request -> Step] /\ answer' \in [Request -> Answer]
    BY <1>2, <1>3 DEF Step, Answer
  <2>2. account' \in [Request -> {"none", "open", "live", "removed"}]
    BY <1>2, <1>3
  <2> QED BY <1>1, <1>2, <1>4, <2>1, <2>2 DEF TypeOK
<1>6. RowInv'
  BY <1>1, <1>2, <1>3 DEF RowInv
<1>7. UniqueInv'
  BY <1>1, <1>2, <1>3 DEF UniqueInv
<1>8. ConflictIsTrue'
  <2>1. answer[r] = "none"
    BY <1>1, <1>2 DEF RowInv
  <2> QED BY <1>1, <1>2, <1>3, <2>1 DEF ConflictIsTrue
<1>9. SubjectInv'
  <2>1. TokensHaveAccounts'
    <3>1. \A k \in tokens : k.user \in Request
      BY <1>3 DEF Token
    <3> QED BY <1>1, <1>2, <1>3, <1>4, <3>1 DEF SubjectInv, TokensHaveAccounts
  <2> QED BY <1>1, <1>2, <1>3, <2>1 DEF SubjectInv
<1>10. TimeInv'
  BY <1>1, <1>2, <1>3, <1>4 DEF TimeInv, SessionIsBounded, Running
<1> QED BY <1>5, <1>6, <1>7, <1>8, <1>9, <1>10 DEF AccountsInv

(* The operator and the clock.                                             *)
LEMMA EnvironmentInv ==
  ASSUME AccountsInv, (\E u \in Request : Deactivate(u) \/ Remove(u)) \/ Tick
  PROVE  AccountsInv'
<1>1. TypeOK /\ RowInv /\ UniqueInv /\ ConflictIsTrue /\ SubjectInv /\ TimeInv
  BY InvGroups
<1>2. ASSUME NEW u \in Request, Deactivate(u)
      PROVE  AccountsInv'
  <2> USE DEF requests
  <2>1. TypeOK'
    BY <1>1, <1>2 DEF TypeOK, Deactivate
  <2>2. UNCHANGED <<account, email, requests, tokens, now>>
    BY <1>2 DEF Deactivate
  <2>3. RowInv' /\ UniqueInv' /\ ConflictIsTrue' /\ SubjectInv' /\ TimeInv'
    BY <1>1, <2>2
    DEF RowInv, UniqueInv, ConflictIsTrue, SubjectInv, TokensHaveAccounts, TimeInv,
      SessionIsBounded, Running
  <2> QED BY <2>1, <2>3 DEF AccountsInv
<1>3. ASSUME NEW u \in Request, Remove(u)
      PROVE  AccountsInv'
  <2> USE DEF requests
  <2>1. /\ account[u] = "live" /\ account' = [account EXCEPT ![u] = "removed"]
        /\ UNCHANGED <<email, active, requests, tokens, now>>
        /\ account \in [Request -> {"none", "open", "live", "removed"}]
        /\ tokens \subseteq Token
    BY <1>1, <1>3 DEF Remove, TypeOK
  <2>2. TypeOK'
    <3>1. account' \in [Request -> {"none", "open", "live", "removed"}]
      BY <2>1
    <3> QED BY <1>1, <2>1, <3>1 DEF TypeOK
  <2>3. RowInv' /\ UniqueInv'
    BY <1>1, <2>1 DEF RowInv, UniqueInv
  <2>4. ConflictIsTrue'
    BY <1>1, <2>1 DEF ConflictIsTrue
  <2>5. SubjectInv'
    BY <1>1, <2>1, SubjectFrame
  <2>6. TimeInv'
    BY <1>1, <2>1 DEF TimeInv, SessionIsBounded, Running
  <2> QED BY <2>2, <2>3, <2>4, <2>5, <2>6 DEF AccountsInv
<1>4. CASE Tick
  <2>1. UNCHANGED <<account, email, active, requests, tokens>> /\ now' = now + 1
    BY <1>4 DEF Tick, rows
  <2>2. TypeOK'
    BY <1>1, <2>1 DEF TypeOK, requests
  <2>3. RowInv' /\ UniqueInv' /\ ConflictIsTrue' /\ SubjectInv'
    BY <1>1, <2>1
    DEF RowInv, UniqueInv, ConflictIsTrue, SubjectInv, TokensHaveAccounts, requests
  <2>4. \A r \in Request : Running(r) => now + 1 <= since[r] + Latency
    <3>1. now \in Nat /\ \A r \in Request : since[r] \in Nat
      BY <1>1 DEF TypeOK
    <3> QED BY <1>4, <3>1, TimesAssumption DEF Tick
  <2>5. TimeInv'
    BY <1>1, <2>1, <2>4 DEF TimeInv, SessionIsBounded, Running, requests
  <2> QED BY <2>2, <2>3, <2>5 DEF AccountsInv
<1> QED BY <1>2, <1>3, <1>4

-----------------------------------------------------------------------------

LEMMA NextInv == AccountsInv /\ [Next]_vars => AccountsInv'
<1> SUFFICES ASSUME AccountsInv, [Next]_vars PROVE AccountsInv'
  OBVIOUS
<1>1. CASE UNCHANGED vars
  BY <1>1
  DEF vars, rows, requests, AccountsInv, TypeOK, RowInv, UniqueInv, ConflictIsTrue,
    SubjectInv, TokensHaveAccounts, TimeInv, SessionIsBounded, Running
<1>2. CASE Next
  BY <1>2, PasswordInv, PresentInv, LookUpInv, IssueInv, InsertInv, CommitInv,
    EnvironmentInv
  DEF Next, RequestStep
<1> QED BY <1>1, <1>2

(* Whatever requests, operator and clock do, AccountsInv holds.            *)
THEOREM AccountsInvariant == Spec => []AccountsInv
BY InitInv, NextInv, PTL DEF Spec

(* Type correctness; with it no request issues tokens to nobody.           *)
THEOREM TypeCorrect == Spec => []TypeOK
<1>1. AccountsInv => TypeOK
  BY DEF AccountsInv
<1> QED BY <1>1, AccountsInvariant, PTL

(* No two users share an address, however it was written.                  *)
THEOREM UniqueEmail == Spec => []OneAccountPerEmail
<1>1. AccountsInv => OneAccountPerEmail
  BY DEF AccountsInv, UniqueInv, RowInv, OneAccountPerEmail
<1> QED BY <1>1, AccountsInvariant, PTL

(* A registration answered with a conflict had a committed rival.          *)
THEOREM NoFalseConflict == Spec => []ConflictIsTrue
<1>1. AccountsInv => ConflictIsTrue
  BY DEF AccountsInv
<1> QED BY <1>1, AccountsInvariant, PTL

(* A token always names a user that was committed.                         *)
THEOREM NoTokenWithoutAccount == Spec => []TokensHaveAccounts
<1>1. AccountsInv => TokensHaveAccounts
  BY DEF AccountsInv, SubjectInv
<1> QED BY <1>1, AccountsInvariant, PTL

(* No chain of refreshes extends a session beyond its bound.               *)
THEOREM SessionsEnd == Spec => []SessionIsBounded
<1>1. AccountsInv => SessionIsBounded
  BY DEF AccountsInv, TimeInv
<1> QED BY <1>1, AccountsInvariant, PTL

-----------------------------------------------------------------------------
(* Every session began with a password.                                    *)

(* The request that was given the password behind a token, at the time the *)
(* token names, and that looked up or made the user the token names.       *)
Began(t) ==
  \E r \in Request :
    /\ since[r] <= t.root /\ t.root <= since[r] + Latency
    /\ \/ answer[r] = "created" /\ r = t.user
       \/ answer[r] = "authenticated" /\ subject[r] = t.user

SessionsHavePasswords == \A t \in tokens : Began(t)

SessionInv ==
  /\ SessionsHavePasswords
  /\ \A r \in Request : since[r] <= now
  /\ \A r \in Request :
       step[r] \in {"renewing", "reading"} =>
         \E t \in tokens : t.user = subject[r] /\ t.root = root[r]

(* Requests that have answered keep what they were and what they answered. *)
LEMMA AnswerStays ==
  ASSUME AccountsInv, [Next]_vars, NEW r \in Request, answer[r] # "none"
  PROVE  answer'[r] = answer[r] /\ since'[r] = since[r] /\ subject'[r] = subject[r]
<1>1. TypeOK /\ step[r] = "done"
  BY DEF AccountsInv, RowInv
<1>2. ASSUME NEW q \in Request,
             \/ BeginRegister(q) \/ BeginLogin(q) \/ BeginRefresh(q) \/ BeginUse(q)
             \/ RequestStep(q) \/ StatementFails(q)
      PROVE  q # r /\ answer'[r] = answer[r] /\ since'[r] = since[r] /\ subject'[r] = subject[r]
  BY <1>1, <1>2
  DEF BeginRegister, BeginLogin, BeginRefresh, BeginUse, Present, RequestStep, CheckEmail,
    InsertUser, CommitUser, CommitUserFails, FindUser, Authenticate, ReadSubject, Renew, Use,
    StatementFails, Respond, TypeOK
<1> QED
  BY <1>2 DEF Next, vars, requests, Deactivate, Remove, Tick

(* New tokens: a password given in this step, or the session of an older   *)
(* token.                                                                  *)
LEMMA NewTokenBegan ==
  ASSUME AccountsInv, SessionInv, [Next]_vars, NEW t \in tokens', t \notin tokens
  PROVE  Began(t)'
<1>1. TypeOK /\ SubjectInv /\ TimeInv
  BY DEF AccountsInv
<1>2. PICK r \in Request : CommitUser(r) \/ Authenticate(r) \/ Renew(r)
  BY DEF Next, RequestStep, vars, requests, BeginRegister, BeginLogin, BeginRefresh, BeginUse,
    Present, CheckEmail, InsertUser, CommitUserFails, FindUser, ReadSubject, Use,
    StatementFails, Deactivate, Remove, Tick
<1>3. since[r] <= now /\ now <= since[r] + Latency
  BY <1>1, <1>2 DEF SessionInv, TimeInv, Running, CommitUser, Authenticate, Renew
<1>4. CASE CommitUser(r)
  BY <1>1, <1>3, <1>4
  DEF CommitUser, IssueTokens, AccessToken, RefreshToken, Respond, Began, TypeOK
<1>5. CASE Authenticate(r)
  BY <1>1, <1>3, <1>5
  DEF Authenticate, IssueTokens, AccessToken, RefreshToken, Respond, Began, TypeOK
<1>6. CASE Renew(r)
  <2>1. PICK k \in tokens : k.user = subject[r] /\ k.root = root[r]
    BY <1>6 DEF SessionInv, Renew
  <2>2. t.user = k.user /\ t.root = k.root
    BY <1>6, <2>1 DEF Renew, AccessToken
  <2>3. Began(k)
    BY DEF SessionInv, SessionsHavePasswords
  <2>4. PICK q \in Request :
          /\ since[q] <= k.root /\ k.root <= since[q] + Latency
          /\ \/ answer[q] = "created" /\ q = k.user
             \/ answer[q] = "authenticated" /\ subject[q] = k.user
    BY <2>3 DEF Began
  <2>5. answer'[q] = answer[q] /\ since'[q] = since[q] /\ subject'[q] = subject[q]
    BY <2>4, AnswerStays
  <2> QED  BY <2>2, <2>4, <2>5 DEF Began
<1> QED  BY <1>2, <1>4, <1>5, <1>6

LEMMA SessionStep ==
  ASSUME AccountsInv, SessionInv, [Next]_vars
  PROVE  SessionInv'
<1>1. TypeOK
  BY DEF AccountsInv
<1>2. tokens \subseteq tokens'
  BY DEF Next, RequestStep, vars, requests, BeginRegister, BeginLogin, BeginRefresh, BeginUse,
    Present, CheckEmail, InsertUser, CommitUser, CommitUserFails, FindUser, Authenticate,
    ReadSubject, Renew, Use, IssueTokens, StatementFails, Deactivate, Remove, Tick
<1>3. ASSUME NEW t \in tokens PROVE Began(t)'
  <2>1. PICK q \in Request :
          /\ since[q] <= t.root /\ t.root <= since[q] + Latency
          /\ \/ answer[q] = "created" /\ q = t.user
             \/ answer[q] = "authenticated" /\ subject[q] = t.user
    BY DEF SessionInv, SessionsHavePasswords, Began
  <2>2. answer'[q] = answer[q] /\ since'[q] = since[q] /\ subject'[q] = subject[q]
    BY <2>1, AnswerStays
  <2> QED  BY <2>1, <2>2 DEF Began
<1>4. SessionsHavePasswords'
  BY <1>3, NewTokenBegan DEF SessionsHavePasswords
<1>5. ASSUME NEW r \in Request, step'[r] \in {"renewing", "reading"}
      PROVE  \E t \in tokens : t.user = subject'[r] /\ t.root = root'[r]
  <2>1. CASE /\ step[r] \in {"renewing", "reading"}
             /\ subject'[r] = subject[r] /\ root'[r] = root[r]
    BY <2>1 DEF SessionInv
  <2>2. CASE BeginRefresh(r)
    BY <1>1, <2>2 DEF BeginRefresh, Present, TypeOK
  <2> QED
    BY <1>1, <1>5, <2>1, <2>2
    DEF Next, RequestStep, vars, requests, BeginRegister, BeginLogin, BeginRefresh, BeginUse,
      Present, CheckEmail, InsertUser, CommitUser, CommitUserFails, FindUser, Authenticate,
      ReadSubject, Renew, Use, Respond, Goto, StatementFails, Deactivate, Remove, Tick,
      TypeOK
<1>6. ASSUME NEW r \in Request PROVE since'[r] <= now'
  <2>1. since[r] \in Nat /\ now \in Nat /\ since[r] <= now
    BY <1>1 DEF SessionInv, TypeOK
  <2>2. \/ now' = now /\ since'[r] \in {since[r], now}
        \/ now' = now + 1 /\ since' = since
    BY <1>1
    DEF Next, RequestStep, vars, requests, BeginRegister, BeginLogin, BeginRefresh, BeginUse,
      Present, CheckEmail, InsertUser, CommitUser, CommitUserFails, FindUser, Authenticate,
      ReadSubject, Renew, Use, StatementFails, Deactivate, Remove, Tick, TypeOK
  <2> QED  BY <2>1, <2>2
<1> QED  BY <1>2, <1>4, <1>5, <1>6 DEF SessionInv

(* However many refreshes lie behind it, a token names the user and the    *)
(* time of a registration or a login that was given a password: there is   *)
(* no session without one, and none changes its user.                      *)
THEOREM SessionsBeginWithPasswords == Spec => []SessionsHavePasswords
<1>1. Init => SessionInv
  BY DEF Init, SessionInv, SessionsHavePasswords, Step
<1>2. AccountsInv /\ SessionInv /\ [Next]_vars => SessionInv'
  BY SessionStep
<1>3. SessionInv => SessionsHavePasswords
  BY DEF SessionInv
<1> QED  BY <1>1, <1>2, <1>3, AccountsInvariant, PTL DEF Spec

-----------------------------------------------------------------------------
(* Registrations that wait for each other.                                 *)

(* The INSERT of r waits for the row of u, which is not committed yet.     *)
WaitsForRow(r, u) ==
  step[r] = "inserting" /\ account[u] = "open" /\ email[u] = Address(r)

WaitsAreShort ==
  \A r, u \in Request :
    WaitsForRow(r, u) =>
      /\ u # r /\ step[u] = "committing"
      /\ Holders(r) = {}
      /\ \A q \in Request : WaitsForRow(r, q) => q = u

(* The unique index leads to no deadlock: whoever waits for a row waits    *)
(* for one registration only, which has nothing left to do but commit and  *)
(* whose commit or rollback settles who gets the address.                  *)
THEOREM NoDeadlock == Spec => []WaitsAreShort
<1>1. AccountsInv => WaitsAreShort
  BY DEF AccountsInv, RowInv, UniqueInv, WaitsAreShort, WaitsForRow, Holders, Address
<1> QED  BY <1>1, AccountsInvariant, PTL

-----------------------------------------------------------------------------
(* Accounts implements Directory.                                          *)

(* Who has not begun is about no address, and every row is about one.      *)
SpellingInv ==
  \A r \in Request :
    /\ step[r] = "new" => spelling[r] = Nobody
    /\ account[r] # "none" => spelling[r] \in Email

LEMMA SpellingStep ==
  ASSUME AccountsInv, SpellingInv, [Next]_vars
  PROVE  SpellingInv'
<1>1. TypeOK /\ RowInv
  BY DEF AccountsInv
<1>2. ASSUME NEW r \in Request, BeginRegister(r) \/ BeginLogin(r) PROVE SpellingInv'
  BY <1>1, <1>2 DEF BeginRegister, BeginLogin, Goto, rows, SpellingInv, TypeOK, RowInv
<1>3. ASSUME NEW r \in Request,
             \/ InsertUser(r) \/ CommitUser(r) \/ CommitUserFails(r)
             \/ Deactivate(r) \/ Remove(r)
      PROVE  SpellingInv'
  BY <1>1, <1>3
  DEF InsertUser, CommitUser, CommitUserFails, Deactivate, Remove, Goto, Respond, rows,
    requests, SpellingInv, TypeOK, RowInv
<1>4. ASSUME NEW r \in Request,
             \/ BeginRefresh(r) \/ BeginUse(r) \/ CheckEmail(r) \/ FindUser(r)
             \/ Authenticate(r) \/ ReadSubject(r) \/ Renew(r) \/ Use(r)
             \/ StatementFails(r)
      PROVE  SpellingInv'
  BY <1>1, <1>4
  DEF BeginRefresh, BeginUse, Present, CheckEmail, FindUser, Authenticate, ReadSubject,
    Renew, Use, StatementFails, Goto, Respond, rows, SpellingInv, TypeOK
<1>5. CASE Tick \/ UNCHANGED vars
  BY <1>5 DEF Tick, vars, rows, requests, SpellingInv
<1> QED  BY <1>2, <1>3, <1>4, <1>5 DEF Next, RequestStep

(* Who holds an address in the table is who has it in the directory.       *)
LEMMA TakenIsHeld ==
  ASSUME AccountsInv, SpellingInv, NEW r \in Request, spelling[r] \in Email
  PROVE  /\ Asked[r] = Address(r) /\ Asked[r] \in Email
         /\ Entries!Taken(Asked[r]) <=> Holders(r) # {}
<1>1. \A u \in Request :
        spelling[u] \in Email => Asked[u] = Address(u) /\ Asked[u] \in Email
  BY NobodyAssumption, NormalAssumption DEF Asked, Address
<1>2. \A u \in Request :
        account[u] = "live" =>
          spelling[u] \in Email /\ email[u] = Address(u) /\ Entry[u] = "live"
  BY DEF AccountsInv, RowInv, SpellingInv, Address, Entry
<1>3. \A u \in Request : Entry[u] = "live" => account[u] = "live"
  BY DEF Entry
<1> QED  BY <1>1, <1>2, <1>3 DEF Entries!Taken, Holders

(* A step that answers a request, or leaves it to go on, adds nothing.     *)
LEMMA AnswerReplies ==
  ASSUME AccountsInv, SpellingInv, NEW r \in Request, step[r] # "done",
         UNCHANGED <<account, spelling>>,
         NEW a \in {"conflict", "authenticated", "renewed", "accepted", "unauthorized",
                    "error"},
         answer' = [answer EXCEPT ![r] = a],
         a = "conflict" => spelling[r] \in Email /\ Holders(r) # {}
  PROVE  Entries!Next
<1>1. answer[r] = "none"
  BY DEF AccountsInv, RowInv
<1>2. UNCHANGED <<Entry, Asked>>
  BY DEF Entry, Asked
<1>3. a = "conflict" => Entries!Taken(Asked[r])
  BY TakenIsHeld
<1>4. Entries!Reply(r, a)
  BY <1>1, <1>2, <1>3 DEF Entries!Reply
<1> QED  BY <1>4 DEF Entries!Next

(* The commit of a registration, also one whose answer is lost: nobody has *)
(* the address, for the unique index counts the open row as well.          *)
LEMMA CommitRegisters ==
  ASSUME AccountsInv, SpellingInv, NEW r \in Request, step[r] = "committing",
         NEW a \in {"created", "error"},
         account' = [account EXCEPT ![r] = "live"], UNCHANGED spelling,
         answer' = [answer EXCEPT ![r] = a]
  PROVE  Entries!Next
<1>1. /\ TypeOK /\ RowInv /\ UniqueInv
      /\ account[r] = "open" /\ answer[r] = "none" /\ spelling[r] \in Email
      /\ email[r] = Address(r)
  BY DEF AccountsInv, RowInv, Address
<1>2. Holders(r) = {}
  BY <1>1 DEF Holders, UniqueInv
<1>3. ~Entries!Taken(Asked[r]) /\ Asked[r] \in Email
  BY <1>1, <1>2, TakenIsHeld
<1>4. Entry[r] = "none" /\ Entry' = [Entry EXCEPT ![r] = "live"] /\ Asked' = Asked
  BY <1>1 DEF Entry, Asked, TypeOK
<1>5. Entries!Reply(r, a)
  BY <1>1, <1>3, <1>4 DEF Entries!Reply, Entries!Register
<1> QED  BY <1>5 DEF Entries!Next

LEMMA DirectoryStep ==
  ASSUME AccountsInv, SpellingInv, [Next]_vars
  PROVE  [Entries!Next]_(Entries!vars)
<1>1. TypeOK /\ RowInv
  BY DEF AccountsInv
<1>2. ASSUME NEW r \in Request, BeginRegister(r) \/ BeginLogin(r) PROVE Entries!Next
  <2>1. PICK w \in Email :
          /\ step[r] = "new" /\ spelling' = [spelling EXCEPT ![r] = w]
          /\ UNCHANGED <<account, answer>>
    BY <1>2 DEF BeginRegister, BeginLogin, rows
  <2>2. spelling[r] = Nobody /\ answer[r] = "none"
    BY <1>1, <2>1 DEF SpellingInv, RowInv
  <2>3. w # Nobody /\ Normal[w] \in Email
    BY NobodyAssumption, NormalAssumption
  <2>4. Asked[r] = Nobody /\ Asked' = [Asked EXCEPT ![r] = Normal[w]]
    BY <1>1, <2>1, <2>2, <2>3 DEF Asked, TypeOK
  <2>5. Entries!Ask(r, Normal[w])
    BY <2>1, <2>2, <2>4 DEF Entries!Ask, Entry
  <2> QED  BY <2>3, <2>5 DEF Entries!Next
<1>3. ASSUME NEW r \in Request, CheckEmail(r) \/ InsertUser(r)
      PROVE  [Entries!Next]_(Entries!vars)
  <2>1. step[r] \in {"checking", "inserting"} /\ spelling[r] \in Email
    BY <1>1, <1>3 DEF CheckEmail, InsertUser, RowInv
  <2>2. CASE Holders(r) # {} /\ Respond(r, "conflict") /\ UNCHANGED <<rows, spelling>>
    BY <2>1, <2>2, AnswerReplies DEF Respond, rows
  <2>3. CASE UNCHANGED <<rows, spelling, answer>>
    BY <2>3 DEF rows, Entries!vars, Entry, Asked
  <2>4. CASE account' = [account EXCEPT ![r] = "open"] /\ UNCHANGED <<spelling, answer>>
    <3>1. account[r] = "none"
      BY <1>1, <2>1 DEF TypeOK, RowInv
    <3> QED  BY <1>1, <2>4, <3>1 DEF Entries!vars, Entry, Asked, TypeOK
  <2> QED  BY <1>3, <2>2, <2>3, <2>4 DEF CheckEmail, InsertUser
<1>4. ASSUME NEW r \in Request, CommitUser(r) PROVE Entries!Next
  BY <1>4, CommitRegisters DEF CommitUser, Respond
<1>5. ASSUME NEW r \in Request, CommitUserFails(r) PROVE Entries!Next
  <2>1. CASE account' = [account EXCEPT ![r] = "live"]
    BY <1>5, <2>1, CommitRegisters DEF CommitUserFails, Respond
  <2>2. CASE account' = [account EXCEPT ![r] = "none"]
    <3>1. account[r] = "open" /\ answer[r] = "none"
      BY <1>1, <1>5 DEF CommitUserFails, RowInv
    <3>2. UNCHANGED <<Entry, Asked>>
      BY <1>1, <1>5, <2>2, <3>1 DEF CommitUserFails, Entry, Asked, TypeOK
    <3>3. Entries!Reply(r, "error")
      BY <1>5, <3>1, <3>2 DEF CommitUserFails, Respond, Entries!Reply
    <3> QED  BY <3>3 DEF Entries!Next
  <2> QED  BY <1>5, <2>1, <2>2 DEF CommitUserFails
<1>6. ASSUME NEW r \in Request,
             \/ FindUser(r) \/ Authenticate(r) \/ ReadSubject(r) \/ Renew(r) \/ Use(r)
             \/ StatementFails(r)
      PROVE  [Entries!Next]_(Entries!vars)
  <2>1. step[r] # "done" /\ UNCHANGED <<account, spelling>>
    BY <1>6 DEF FindUser, Authenticate, ReadSubject, Renew, Use, StatementFails, rows
  <2>2. \/ UNCHANGED answer
        \/ \E a \in {"authenticated", "renewed", "accepted", "unauthorized", "error"} :
             answer' = [answer EXCEPT ![r] = a]
    BY <1>6
    DEF FindUser, Authenticate, ReadSubject, Renew, Use, StatementFails, Respond, LookUp
  <2>3. CASE UNCHANGED answer
    BY <2>1, <2>3 DEF Entries!vars, Entry, Asked
  <2> QED  BY <2>1, <2>2, <2>3, AnswerReplies
<1>7. ASSUME NEW r \in Request, Remove(r) PROVE Entries!Next
  <2>1. Entry[r] = "live" /\ Entry' = [Entry EXCEPT ![r] = "removed"]
        /\ UNCHANGED <<Asked, answer>>
    BY <1>1, <1>7 DEF Remove, requests, Entry, Asked, TypeOK
  <2> QED  BY <2>1 DEF Entries!Remove, Entries!Next
<1>8. CASE \/ \E r \in Request : BeginRefresh(r) \/ BeginUse(r) \/ Deactivate(r)
           \/ Tick \/ UNCHANGED vars
  BY <1>8
  DEF BeginRefresh, BeginUse, Present, Deactivate, Tick, vars, rows, requests,
    Entries!vars, Entry, Asked
<1> QED  BY <1>2, <1>3, <1>4, <1>5, <1>6, <1>7, <1>8 DEF Next, RequestStep

(* Accounts implements Directory: although a registration looks for the    *)
(* address, inserts and commits in statements of their own, it takes the   *)
(* address in the step that answers it, and is answered a conflict only    *)
(* while somebody has it.                                                  *)
THEOREM RegistrationsAreAtomic == Spec => ImplementsDirectory
<1>1. Init => Entries!Init /\ SpellingInv
  BY DEF Init, Entries!Init, Entry, Asked, SpellingInv
<1>2. AccountsInv /\ SpellingInv /\ [Next]_vars
      => SpellingInv' /\ [Entries!Next]_(Entries!vars)
  BY SpellingStep, DirectoryStep
<1> QED
  BY <1>1, <1>2, AccountsInvariant, PTL DEF Spec, ImplementsDirectory, Entries!Spec

=============================================================================
