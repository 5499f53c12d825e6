------------------------ MODULE ConversationsProofs ------------------------
(***************************************************************************)
(* Safety of Conversations for every set of requests, users and titles.    *)
(*                                                                         *)
(* RequestInv is inductive.  PhaseInv says what a request is doing and in  *)
(* which state its conversation may be meanwhile, LockInv who holds which  *)
(* row, OwnerInv that the owner test of _get_owned_conversation still      *)
(* holds when the statement runs, and TitleInv what became of the title    *)
(* that a rename has read.                                                 *)
(***************************************************************************)
EXTENDS Conversations, TLAPS

PhaseInv ==
  \A r \in Request :
    /\ step[r] = "new" =>
         row[r] = "none" /\ answer[r] = None /\ target[r] = r /\ op[r] = None
    /\ step[r] # "new" => op[r] \in Operation
    /\ step[r] = "inserting" => op[r] = "create" /\ row[r] = "none"
    /\ step[r] = "finding" => op[r] \in {"rename", "delete"}
    /\ step[r] = "updating" => op[r] = "rename"
    /\ step[r] = "deleting" => op[r] = "delete"
    /\ op[r] = "create" => target[r] = r
    /\ op[r] \in {"create", "rename"} => asked[r] \in Title
    /\ op[r] \in {"rename", "delete"} => row[target[r]] \in {"live", "deleted"}
    /\ answer[r] # None => step[r] = "done"

LockInv ==
  /\ \A c \in Request :
       /\ lock[c] \in Request =>
            /\ step[lock[c]] = "committing"
            /\ target[lock[c]] = c
            /\ row[c] = IF op[lock[c]] = "create" THEN "open" ELSE "live"
       /\ row[c] = "open" => lock[c] = c
  /\ \A r \in Request :
       step[r] = "committing" /\ lock[target[r]] # r =>
         \/ op[r] = "delete" /\ row[target[r]] = "deleted"
         \/ op[r] = "rename" /\ TookEffect(r)

OwnerInv ==
  \A r \in Request :
    step[r] \in {"updating", "deleting", "committing"} => owner[target[r]] = by[r]

TitleInv ==
  /\ \A c \in Request : row[c] \in {"live", "deleted"} => titles[c] # <<>>
  /\ \A r \in Request :
       /\ from[r] <= Len(titles[target[r]])
       /\ step[r] = "updating" =>
            \E k \in DOMAIN titles[target[r]] :
              k >= from[r] /\ titles[target[r]][k] = loaded[r]

RequestInv ==
  TypeOK /\ PhaseInv /\ LockInv /\ OwnerInv /\ TitleInv /\ AnswersAreTrue

-----------------------------------------------------------------------------
(* Titles only accumulate.                                                 *)

LEMMA AppendKeeps ==
  ASSUME NEW S, NEW seq \in Seq(S), NEW e \in S
  PROVE  /\ Append(seq, e) \in Seq(S)
         /\ Append(seq, e) # <<>>
         /\ Len(Append(seq, e)) = Len(seq) + 1
         /\ \A k \in DOMAIN seq : k \in DOMAIN Append(seq, e) /\ Append(seq, e)[k] = seq[k]
         /\ Len(seq) + 1 \in DOMAIN Append(seq, e)
         /\ Append(seq, e)[Len(seq) + 1] = e
OBVIOUS

LEMMA InitInv == Init => RequestInv
BY NoneAssumption
DEF Init, RequestInv, TypeOK, PhaseInv, LockInv, OwnerInv, TitleInv,
  AnswersAreTrue, Step, Operation, Answer

-----------------------------------------------------------------------------
(* A request that begins, looks up or fails leaves the table alone.        *)

LEMMA BeginInv ==
  ASSUME RequestInv, NEW r \in Request,
         BeginCreate(r) \/ BeginRename(r) \/ BeginDelete(r)
  PROVE  RequestInv'
<1> USE NoneAssumption
<1>1. TypeOK /\ PhaseInv /\ LockInv /\ OwnerInv /\ TitleInv /\ AnswersAreTrue
  BY DEF RequestInv
<1>2. PICK o \in Operation, u \in User, c \in Request, t \in Title \cup {None},
           position \in {"inserting", "finding"} :
        /\ Begin(r, o, u, c, position)
        /\ asked' = [asked EXCEPT ![r] = t]
        /\ IF o = "create" THEN position = "inserting" /\ c = r
                           ELSE position = "finding" /\ row[c] \in {"live", "deleted"}
        /\ o # "delete" => t \in Title
  <2>1. CASE BeginCreate(r) \/ BeginRename(r)
    BY <2>1 DEF BeginCreate, BeginRename, Operation
  <2>2. CASE BeginDelete(r)
    <3>1. asked' = [asked EXCEPT ![r] = asked[r]] /\ asked[r] \in Title \cup {None}
      BY <1>1, <2>2 DEF BeginDelete, TypeOK
    <3> QED BY <2>2, <3>1 DEF BeginDelete, Operation
  <2> QED BY <2>1, <2>2
<1> USE DEF Begin, Goto, table
<1>3. TypeOK'
  <2>1. from' \in [Request -> Nat]
    BY <1>1, <1>2 DEF TypeOK
  <2>2. step' \in [Request -> Step] /\ \A q \in Request : step'[q] = "updating" => loaded'[q] \in Title
    BY <1>1, <1>2 DEF TypeOK, Step
  <2> QED BY <1>1, <1>2, <2>1, <2>2 DEF TypeOK
<1>4. PhaseInv'
  BY <1>1, <1>2 DEF TypeOK, PhaseInv, Operation
<1>5. \A q \in Request \ {r} : TookEffect(q)' <=> TookEffect(q)
  BY <1>1, <1>2 DEF TypeOK, TookEffect
<1>6. LockInv'
  <2>1. \A d \in Request : lock[d] # r
    BY <1>1, <1>2 DEF LockInv
  <2> QED BY <1>1, <1>2, <1>5, <2>1 DEF TypeOK, LockInv, PhaseInv
<1>7. OwnerInv'
  BY <1>1, <1>2 DEF TypeOK, OwnerInv
<1>8. TitleInv'
  <2>1. from'[r] = Len(titles[target'[r]]) /\ Len(titles[target'[r]]) \in Nat
    BY <1>1, <1>2 DEF TypeOK
  <2>2. \A q \in Request \ {r} : /\ from'[q] = from[q] /\ target'[q] = target[q]
                                 /\ step'[q] = step[q] /\ loaded'[q] = loaded[q]
    BY <1>1, <1>2 DEF TypeOK
  <2>3. step'[r] # "updating"
    BY <1>1, <1>2 DEF TypeOK
  <2> QED BY <1>1, <1>2, <2>1, <2>2, <2>3 DEF TitleInv
<1>9. AnswersAreTrue'
  BY <1>1, <1>2, <1>5 DEF TypeOK, AnswersAreTrue, PhaseInv, Answer
<1> QED BY <1>3, <1>4, <1>6, <1>7, <1>8, <1>9 DEF RequestInv

(* The present title of a conversation is one it has had since r began.    *)
LEMMA PresentTitle ==
  ASSUME TypeOK, TitleInv, NEW r \in Request, row[target[r]] \in {"live", "deleted"}
  PROVE  /\ CurrentTitle(target[r]) \in Title
         /\ \E k \in DOMAIN titles[target[r]] :
              k >= from[r] /\ titles[target[r]][k] = CurrentTitle(target[r])
<1>1. /\ titles[target[r]] \in Seq(Title)
      /\ titles[target[r]] # <<>>
      /\ from[r] <= Len(titles[target[r]])
      /\ from[r] \in Nat
  BY DEF TypeOK, TitleInv
<1>2. /\ Len(titles[target[r]]) \in DOMAIN titles[target[r]]
      /\ Len(titles[target[r]]) >= from[r]
  BY <1>1
<1>3. CurrentTitle(target[r]) = titles[target[r]][Len(titles[target[r]])]
  BY <1>1 DEF CurrentTitle
<1> QED BY <1>1, <1>2, <1>3

LEMMA LookUpInv ==
  ASSUME RequestInv, NEW r \in Request,
         Find(r) \/ Reread(r) \/ StatementFails(r)
  PROVE  RequestInv'
<1> USE NoneAssumption
<1>1. TypeOK /\ PhaseInv /\ LockInv /\ OwnerInv /\ TitleInv /\ AnswersAreTrue
  BY DEF RequestInv
<1> DEFINE c == target[r]
           Read(t) == \E k \in DOMAIN titles[c] : k >= from[r] /\ titles[c][k] = t
           Moved(position, l, t, a) ==
             /\ step' = [step EXCEPT ![r] = position]
             /\ loaded' = [loaded EXCEPT ![r] = l]
             /\ shown' = [shown EXCEPT ![r] = t]
             /\ answer' = [answer EXCEPT ![r] = a]
             /\ \/ /\ position = "updating" /\ op[r] = "rename" /\ owner[c] = by[r]
                   /\ l \in Title /\ Read(l)
                   /\ a = None
                \/ /\ position = "deleting" /\ op[r] = "delete" /\ owner[c] = by[r]
                   /\ a = None
                \/ /\ position = "committing" /\ op[r] = "rename" /\ owner[c] = by[r]
                   /\ TookEffect(r)
                   /\ a = None
                \/ position = "done" /\ a \in {"not_found", "error"}
<1>2. PICK position \in Step, l \in Title \cup {None}, t \in Title \cup {None},
           a \in Answer \cup {None} : Moved(position, l, t, a)
  <2>1. /\ c \in Request
        /\ step = [step EXCEPT ![r] = step[r]] /\ step[r] \in Step
        /\ loaded = [loaded EXCEPT ![r] = loaded[r]] /\ loaded[r] \in Title \cup {None}
        /\ shown = [shown EXCEPT ![r] = shown[r]] /\ shown[r] \in Title \cup {None}
        /\ answer = [answer EXCEPT ![r] = answer[r]]
        /\ step[r] # "done" => answer[r] = None
    BY <1>1 DEF TypeOK, PhaseInv
  <2>2. ASSUME Find(r), row[c] = "live", owner[c] = by[r]
        PROVE  Moved(IF op[r] = "rename" THEN "updating" ELSE "deleting",
                     CurrentTitle(c), shown[r], None) /\ CurrentTitle(c) \in Title
    <3>1. op[r] \in {"rename", "delete"}
      BY <1>1, <2>2 DEF PhaseInv, Find
    <3>2. CurrentTitle(c) \in Title /\ Read(CurrentTitle(c))
      BY <1>1, <2>2, PresentTitle
    <3> QED BY <2>1, <2>2, <3>1, <3>2 DEF Find, Goto
  <2>3. ASSUME Reread(r), row[c] = "live"
        PROVE  Moved("committing", loaded[r], CurrentTitle(c), None)
               /\ CurrentTitle(c) \in Title
    <3>1. op[r] = "rename" /\ owner[c] = by[r] /\ TookEffect(r)
      BY <1>1, <2>3 DEF PhaseInv, OwnerInv, TitleInv, TookEffect, Reread
    <3>2. CurrentTitle(c) \in Title
      BY <1>1, <2>3, PresentTitle
    <3> QED BY <2>1, <2>3, <3>1, <3>2 DEF Reread, Goto
  <2>4. ASSUME Respond(r, "error") \/ Respond(r, "not_found"), UNCHANGED <<loaded, shown>>
        PROVE  Moved("done", loaded[r], shown[r], "error")
               \/ Moved("done", loaded[r], shown[r], "not_found")
    BY <2>1, <2>4 DEF Respond, Goto
  <2>5. \A position \in {"updating", "deleting", "committing", "done"} : position \in Step
    BY DEF Step
  <2>6. {"error", "not_found", None} \subseteq Answer \cup {None}
    BY DEF Answer
  <2>7. CASE Find(r)
    <3>1. CASE row[c] = "live" /\ owner[c] = by[r]
      BY <2>1, <2>2, <2>5, <2>6, <2>7, <3>1
    <3>2. CASE ~(row[c] = "live" /\ owner[c] = by[r])
      <4>1. Respond(r, "not_found") /\ UNCHANGED <<loaded, shown>>
        BY <2>7, <3>2 DEF Find
      <4> QED BY <2>1, <2>4, <2>5, <2>6, <4>1
    <3> QED BY <3>1, <3>2
  <2>8. CASE Reread(r)
    <3>1. CASE row[c] = "live"
      BY <2>1, <2>3, <2>5, <2>6, <2>8, <3>1
    <3>2. CASE row[c] # "live"
      <4>1. Respond(r, "error") /\ UNCHANGED <<loaded, shown>>
        BY <2>8, <3>2 DEF Reread
      <4> QED BY <2>1, <2>4, <2>5, <2>6, <4>1
    <3> QED BY <3>1, <3>2
  <2>9. CASE StatementFails(r)
    <3>1. Respond(r, "error") /\ UNCHANGED <<loaded, shown>>
      BY <2>9 DEF StatementFails
    <3> QED BY <2>1, <2>4, <2>5, <2>6, <3>1
  <2> QED BY <2>7, <2>8, <2>9
<1>3. UNCHANGED <<row, owner, titles, lock, op, by, target, asked, from>>
  BY DEF Find, Reread, StatementFails, table, input
<1>4. TypeOK'
  BY <1>1, <1>2, <1>3 DEF TypeOK
<1>5. step[r] \notin {"committing", "new"}
  BY DEF Find, Reread, StatementFails
<1>6. PhaseInv'
  BY <1>1, <1>2, <1>3, <1>5 DEF TypeOK, PhaseInv, Operation
<1>7. \A q \in Request : TookEffect(q)' <=> TookEffect(q)
  BY <1>3 DEF TookEffect
<1>8. LockInv'
  BY <1>1, <1>2, <1>3, <1>5, <1>7 DEF TypeOK, LockInv
<1>9. OwnerInv'
  BY <1>1, <1>2, <1>3 DEF TypeOK, OwnerInv
<1>10. TitleInv'
  BY <1>1, <1>2, <1>3 DEF TypeOK, TitleInv
<1>11. AnswersAreTrue'
  BY <1>1, <1>2, <1>3, <1>7 DEF TypeOK, AnswersAreTrue, Answer
<1> QED BY <1>4, <1>6, <1>8, <1>9, <1>10, <1>11 DEF RequestInv

-----------------------------------------------------------------------------
(* The statements that take a row lock.                                    *)

LEMMA InsertInv ==
  ASSUME RequestInv, NEW r \in Request, InsertConversation(r)
  PROVE  RequestInv'
<1> USE NoneAssumption DEF InsertConversation, Goto, input
<1>1. TypeOK /\ PhaseInv /\ LockInv /\ OwnerInv /\ TitleInv /\ AnswersAreTrue
  BY DEF RequestInv
<1>2. /\ row[r] = "none" /\ op[r] = "create" /\ target[r] = r /\ answer[r] = None
      /\ \A q \in Request : target[q] = r => op[q] \notin {"rename", "delete"}
  BY <1>1 DEF TypeOK, PhaseInv
<1>3. TypeOK'
  <2>1. step' \in [Request -> Step] /\ \A q \in Request : step'[q] = "updating" => loaded'[q] \in Title
    BY <1>1 DEF TypeOK, Step
  <2> QED BY <1>1, <2>1 DEF TypeOK
<1>4. PhaseInv'
  BY <1>1, <1>2 DEF TypeOK, PhaseInv, Operation
<1>5. \A q \in Request : TookEffect(q)' <=> TookEffect(q)
  BY DEF TookEffect
<1>6. LockInv'
  BY <1>1, <1>2, <1>5 DEF TypeOK, LockInv, PhaseInv
<1>7. OwnerInv'
  BY <1>1, <1>2 DEF TypeOK, OwnerInv, PhaseInv, Operation
<1>8. TitleInv'
  BY <1>1, <1>2 DEF TypeOK, TitleInv
<1>9. AnswersAreTrue'
  BY <1>1, <1>2, <1>5 DEF TypeOK, AnswersAreTrue, PhaseInv, Answer
<1> QED BY <1>3, <1>4, <1>6, <1>7, <1>8, <1>9 DEF RequestInv

(* UPDATE and DELETE take the row or find it gone.                         *)
LEMMA StatementInv ==
  ASSUME RequestInv, NEW r \in Request, Update(r) \/ DeleteRow(r)
  PROVE  RequestInv'
<1> USE NoneAssumption
<1>1. TypeOK /\ PhaseInv /\ LockInv /\ OwnerInv /\ TitleInv /\ AnswersAreTrue
  BY DEF RequestInv
<1> DEFINE c == target[r]
<1>2. /\ c \in Request /\ lock[c] = None /\ answer[r] = None
      /\ row[c] \in {"live", "deleted"} /\ owner[c] = by[r]
      /\ step[r] \in {"updating", "deleting"}
      /\ op[r] = IF step[r] = "updating" THEN "rename" ELSE "delete"
  BY <1>1 DEF TypeOK, PhaseInv, OwnerInv, Update, DeleteRow
<1>3. UNCHANGED <<row, owner, titles, op, by, target, asked, from, loaded>>
  BY DEF Update, DeleteRow, input
<1>4. \/ /\ row[c] = "live"
         /\ step' = [step EXCEPT ![r] = "committing"]
         /\ lock' = [lock EXCEPT ![c] = r]
         /\ answer' = answer
         /\ shown' = shown \/ shown' = [shown EXCEPT ![r] = asked[r]]
      \/ /\ row[c] = "deleted" /\ op[r] = "delete"
         /\ step' = [step EXCEPT ![r] = "committing"]
         /\ UNCHANGED <<lock, answer, shown>>
      \/ /\ step' = [step EXCEPT ![r] = "done"]
         /\ answer' = [answer EXCEPT ![r] = "error"]
         /\ UNCHANGED <<lock, shown>>
  <2>1. CASE Update(r)
    BY <1>2, <2>1 DEF Update, Goto, Respond
  <2>2. CASE DeleteRow(r)
    BY <1>2, <2>2 DEF DeleteRow, Goto
  <2> QED BY <2>1, <2>2
<1>5. TypeOK'
  <2>1. /\ step' \in [Request -> Step]
        /\ \A q \in Request : step'[q] = "updating" => loaded'[q] \in Title
    BY <1>1, <1>3, <1>4 DEF TypeOK, Step
  <2>2. answer' \in [Request -> Answer \cup {None}]
    BY <1>1, <1>4 DEF TypeOK, Answer
  <2>3. /\ lock \in [Request -> Request \cup {None}]
        /\ shown \in [Request -> Title \cup {None}]
        /\ asked[r] \in Title \cup {None}
    BY <1>1 DEF TypeOK
  <2>4. /\ lock' \in [Request -> Request \cup {None}]
        /\ shown' \in [Request -> Title \cup {None}]
    BY <1>2, <1>4, <2>3
  <2> QED BY <1>1, <1>3, <2>1, <2>2, <2>4 DEF TypeOK
<1>6. PhaseInv'
  BY <1>1, <1>2, <1>3, <1>4 DEF TypeOK, PhaseInv, Operation
<1>7. \A q \in Request : TookEffect(q)' <=> TookEffect(q)
  BY <1>3 DEF TookEffect
<1>8. LockInv'
  <2>1. \A d \in Request : lock[d] # r
    BY <1>1, <1>2 DEF LockInv
  <2>3. CASE lock' = lock
    BY <1>1, <1>2, <1>3, <1>4, <1>7, <2>1, <2>3 DEF TypeOK, LockInv
  <2>4. CASE /\ row[c] = "live"
             /\ step' = [step EXCEPT ![r] = "committing"]
             /\ lock' = [lock EXCEPT ![c] = r]
    BY <1>1, <1>2, <1>3, <1>7, <2>1, <2>4 DEF TypeOK, LockInv
  <2> QED BY <1>4, <2>3, <2>4
<1>9. OwnerInv'
  BY <1>1, <1>2, <1>3, <1>4 DEF TypeOK, OwnerInv
<1>10. TitleInv'
  BY <1>1, <1>2, <1>3, <1>4 DEF TypeOK, TitleInv
<1>11. AnswersAreTrue'
  BY <1>1, <1>2, <1>3, <1>4, <1>7 DEF TypeOK, AnswersAreTrue, Answer
<1> QED BY <1>5, <1>6, <1>8, <1>9, <1>10, <1>11 DEF RequestInv

-----------------------------------------------------------------------------
(* The end of a transaction.                                               *)

(* What a commit does to the row c of the transaction: nothing, or it is   *)
(* live with one more title, or deleted.                                   *)
Settled(r) ==
  LET c == target[r] IN
  \/ lock[c] # r /\ op[r] # "create" /\ UNCHANGED <<row, titles>>
  \/ /\ lock[c] = r /\ op[r] \in {"create", "rename"}
     /\ row' = [row EXCEPT ![c] = "live"]
     /\ titles' = [titles EXCEPT ![c] = Append(titles[c], asked[r])]
  \/ /\ lock[c] = r /\ op[r] = "delete"
     /\ row' = [row EXCEPT ![c] = "deleted"]
     /\ UNCHANGED titles

LEMMA SettledStep ==
  ASSUME RequestInv, NEW r \in Request, step[r] = "committing", MakeDurable(r)
  PROVE  Settled(r)
BY DEF RequestInv, TypeOK, PhaseInv, LockInv, MakeDurable, Settled, Operation

(* No title is forgotten, and an asked title that took effect still has.   *)
LEMMA TitlesGrow ==
  ASSUME RequestInv, NEW r \in Request, Settled(r),
         UNCHANGED <<target, from, asked>>
  PROVE  /\ titles' \in [Request -> Seq(Title)]
         /\ \A d \in Request : /\ Len(titles[d]) <= Len(titles'[d])
                               /\ titles[d] # <<>> => titles'[d] # <<>>
                               /\ \A k \in DOMAIN titles[d] :
                                    k \in DOMAIN titles'[d] /\ titles'[d][k] = titles[d][k]
         /\ \A q \in Request : TookEffect(q) => TookEffect(q)'
<1>1. TypeOK /\ target[r] \in Request /\ titles[target[r]] \in Seq(Title)
  BY DEF RequestInv, TypeOK
<1>2. CASE UNCHANGED titles
  BY <1>1, <1>2 DEF TookEffect, TypeOK
<1>3. CASE /\ op[r] \in {"create", "rename"}
           /\ titles' = [titles EXCEPT ![target[r]] = Append(titles[target[r]], asked[r])]
  <2>1. asked[r] \in Title
    BY <1>3 DEF RequestInv, PhaseInv
  <2>2. titles'[target[r]] = Append(titles[target[r]], asked[r])
    BY <1>1, <1>3 DEF TypeOK
  <2>3. /\ titles'[target[r]] \in Seq(Title) /\ titles'[target[r]] # <<>>
        /\ Len(titles'[target[r]]) = Len(titles[target[r]]) + 1
        /\ \A k \in DOMAIN titles[target[r]] :
             k \in DOMAIN titles'[target[r]] /\ titles'[target[r]][k] = titles[target[r]][k]
    BY <1>1, <2>1, <2>2, AppendKeeps
  <2>4. \A d \in Request \ {target[r]} : titles'[d] = titles[d]
    BY <1>1, <1>3 DEF TypeOK
  <2>5. titles' \in [Request -> Seq(Title)]
    BY <1>1, <1>3, <2>2, <2>3 DEF TypeOK
  <2>6. \A d \in Request : Len(titles[d]) \in Nat
    BY <1>1 DEF TypeOK
  <2>7. \A d \in Request : /\ Len(titles[d]) <= Len(titles'[d])
                           /\ titles[d] # <<>> => titles'[d] # <<>>
                           /\ \A k \in DOMAIN titles[d] :
                                k \in DOMAIN titles'[d] /\ titles'[d][k] = titles[d][k]
    BY <2>3, <2>4, <2>6
  <2>8. \A q \in Request : TookEffect(q) => TookEffect(q)'
    BY <1>1, <2>7 DEF TookEffect, TypeOK
  <2> QED BY <2>5, <2>7, <2>8
<1> QED BY <1>2, <1>3 DEF Settled

(* A commit, answered as it ended or with an error.                        *)
LEMMA CommitInv ==
  ASSUME RequestInv, NEW r \in Request, NEW result \in {Success(op[r]), "error"},
         step[r] = "committing", Settled(r), Release(r), Respond(r, result),
         UNCHANGED <<owner, input, loaded, shown>>
  PROVE  RequestInv'
<1> USE NoneAssumption DEF Release, Respond, Goto, input
<1>1. TypeOK /\ PhaseInv /\ LockInv /\ OwnerInv /\ TitleInv /\ AnswersAreTrue
  BY DEF RequestInv
<1> DEFINE c == target[r]
<1>2. c \in Request /\ op[r] \in Operation /\ row[c] \in {"open", "live", "deleted"}
  BY <1>1 DEF TypeOK, PhaseInv, LockInv, Operation
<1>3. /\ titles' \in [Request -> Seq(Title)]
      /\ \A d \in Request : /\ Len(titles[d]) <= Len(titles'[d])
                            /\ titles[d] # <<>> => titles'[d] # <<>>
                            /\ \A k \in DOMAIN titles[d] :
                                 k \in DOMAIN titles'[d] /\ titles'[d][k] = titles[d][k]
      /\ \A q \in Request : TookEffect(q) => TookEffect(q)'
  BY TitlesGrow
<1>4. /\ row' \in [Request -> {"none", "open", "live", "deleted"}]
      /\ \A d \in Request : d # c => row'[d] = row[d]
      /\ row'[c] \in {"live", "deleted"}
      /\ row[c] = "deleted" => row'[c] = "deleted"
  <2>1. row \in [Request -> {"none", "open", "live", "deleted"}]
    BY <1>1 DEF TypeOK
  <2>2. op[r] # "create" => row[c] \in {"live", "deleted"}
    BY <1>1, <1>2 DEF PhaseInv, Operation
  <2>3. lock[c] = r => row[c] # "deleted"
    BY <1>1, <1>2 DEF LockInv
  <2> QED BY <1>2, <2>1, <2>2, <2>3 DEF Settled
<1>5. TypeOK'
  <2>1. /\ step' \in [Request -> Step]
        /\ \A q \in Request : step'[q] = "updating" => loaded'[q] \in Title
    BY <1>1 DEF TypeOK, Step
  <2>2. answer' \in [Request -> Answer \cup {None}]
    BY <1>1, <1>2 DEF TypeOK, Answer, Operation, Success
  <2>3. lock' \in [Request -> Request \cup {None}]
    BY <1>1 DEF TypeOK
  <2> QED BY <1>1, <1>3, <1>4, <2>1, <2>2, <2>3 DEF TypeOK
<1>6. PhaseInv'
  <2>1. \A q \in Request : step'[q] = "new" \/ step'[q] = "inserting" => q # c
    BY <1>1, <1>2 DEF TypeOK, PhaseInv
  <2>2. \A q \in Request : op[q] \in {"rename", "delete"} =>
                           row'[target[q]] \in {"live", "deleted"}
    <3>1. \A d \in Request : row[d] \in {"live", "deleted"} => row'[d] \in {"live", "deleted"}
      BY <1>4
    <3>2. \A q \in Request : target[q] \in Request
      BY <1>1 DEF TypeOK
    <3> QED BY <1>1, <3>1, <3>2 DEF PhaseInv
  <2>3. \A q \in Request : /\ step'[q] = IF q = r THEN "done" ELSE step[q]
                           /\ answer'[q] = IF q = r THEN result ELSE answer[q]
    BY <1>1 DEF TypeOK
  <2> QED BY <1>1, <1>4, <2>1, <2>2, <2>3 DEF PhaseInv
<1>7. LockInv'
  <2>1. /\ \A d \in Request : lock'[d] = IF lock[d] = r THEN None ELSE lock[d]
        /\ \A q \in Request : step'[q] = IF q = r THEN "done" ELSE step[q]
    BY <1>1 DEF TypeOK
  <2>2. ASSUME NEW q \in Request, q # r, step[q] = "committing", lock[target[q]] # q,
               op[q] = "delete" /\ row[target[q]] = "deleted"
        PROVE  row'[target[q]] = "deleted"
    BY <1>1, <1>4, <2>2 DEF TypeOK
  <2>3. \A q \in Request :
          step'[q] = "committing" /\ lock'[target'[q]] # q =>
            \/ op'[q] = "delete" /\ row'[target'[q]] = "deleted"
            \/ op'[q] = "rename" /\ TookEffect(q)'
    BY <1>1, <1>3, <2>1, <2>2 DEF LockInv, TypeOK
  <2>4. ASSUME NEW d \in Request, lock'[d] \in Request
        PROVE  /\ step'[lock'[d]] = "committing"
               /\ target[lock'[d]] = d
               /\ row'[d] = IF op[lock'[d]] = "create" THEN "open" ELSE "live"
    <3>1. lock[d] \in Request /\ lock[d] # r /\ lock'[d] = lock[d] /\ target[lock[d]] = d
      BY <1>1, <2>1, <2>4 DEF LockInv
    <3>2. row'[d] = row[d]
      BY <1>4, <3>1 DEF Settled
    <3> QED BY <1>1, <2>1, <3>1, <3>2 DEF LockInv
  <2>5. ASSUME NEW d \in Request, row'[d] = "open" PROVE lock'[d] = d
    <3>1. d # c /\ row[d] = "open" /\ lock[d] = d
      BY <1>1, <1>4, <2>5 DEF LockInv
    <3>2. d # r
      BY <1>1, <3>1 DEF LockInv
    <3> QED BY <2>1, <3>1, <3>2
  <2> QED BY <2>3, <2>4, <2>5 DEF LockInv
<1>8. OwnerInv'
  BY <1>1 DEF TypeOK, OwnerInv
<1>9. TitleInv'
  <2>1. \A d \in Request : row'[d] \in {"live", "deleted"} => titles'[d] # <<>>
    <3>1. ASSUME lock[c] = r, op[r] \in {"create", "rename"} PROVE titles'[c] # <<>>
      BY <1>1, <1>2, <3>1, AppendKeeps DEF Settled, TypeOK, PhaseInv
    <3>2. op[r] \in {"rename", "delete"} => row[c] \in {"live", "deleted"}
      BY <1>1 DEF PhaseInv
    <3>3. op[r] = "create" => lock[c] = r
      BY DEF Settled
    <3> QED BY <1>1, <1>2, <1>3, <1>4, <3>1, <3>2, <3>3 DEF TitleInv, Operation
  <2>2. \A q \in Request : /\ target[q] \in Request /\ from[q] \in Nat
                           /\ titles[target[q]] \in Seq(Title)
                           /\ titles'[target[q]] \in Seq(Title)
                           /\ step'[q] = "updating" => step[q] = "updating"
    BY <1>1, <1>3 DEF TypeOK
  <2>3. \A q \in Request : from[q] <= Len(titles'[target[q]])
    BY <1>1, <1>3, <2>2 DEF TitleInv
  <2> QED BY <1>1, <1>3, <2>1, <2>2, <2>3 DEF TitleInv
<1>10. AnswersAreTrue'
  <2>1. \A q \in Request : answer'[q] = IF q = r THEN result ELSE answer[q]
    BY <1>1 DEF TypeOK
  <2>2. result = "created" => op[r] = "create"
    BY <1>2 DEF Success, Operation
  <2>3. result = "deleted" => op[r] = "delete"
    BY <1>2 DEF Success, Operation
  <2>4. result = "renamed" => op[r] = "rename"
    BY <1>2 DEF Success, Operation
  <2>5. op[r] = "create" => row'[r] \in {"live", "deleted"}
    BY <1>1, <1>4 DEF PhaseInv
  <2>6. op[r] = "delete" => row'[c] = "deleted"
    BY <1>1, <1>2, <1>4 DEF LockInv, Settled, TypeOK
  <2>7. op[r] = "rename" => TookEffect(r)'
    <3>1. CASE lock[c] # r
      BY <1>1, <1>3, <3>1 DEF LockInv
    <3>2. CASE lock[c] = r /\ op[r] = "rename"
      <4>1. /\ titles'[c] = Append(titles[c], asked[r]) /\ titles[c] \in Seq(Title)
            /\ asked[r] \in Title /\ from[r] \in Nat /\ from[r] <= Len(titles[c])
        BY <1>1, <1>2, <3>2 DEF Settled, TypeOK, PhaseInv, TitleInv
      <4>2. /\ Len(titles[c]) + 1 \in DOMAIN titles'[c]
            /\ titles'[c][Len(titles[c]) + 1] = asked[r]
            /\ Len(titles[c]) + 1 >= from[r]
        BY <4>1, AppendKeeps
      <4> QED BY <4>2 DEF TookEffect
    <3> QED BY <3>1, <3>2
  <2>8. \A d \in Request : /\ row[d] = "deleted" => row'[d] = "deleted"
                           /\ row[d] = "live" => row'[d] \in {"live", "deleted"}
    BY <1>4
  <2> QED BY <1>1, <1>3, <2>1, <2>2, <2>3, <2>4, <2>5, <2>6, <2>7, <2>8
          DEF AnswersAreTrue, TypeOK
<1> QED BY <1>5, <1>6, <1>7, <1>8, <1>9, <1>10 DEF RequestInv

(* commit() raised and the transaction was rolled back.                    *)
LEMMA RollBackInv ==
  ASSUME RequestInv, NEW r \in Request,
         step[r] = "committing", RollBack(r), Release(r), Respond(r, "error"),
         UNCHANGED <<owner, input, loaded, shown>>
  PROVE  RequestInv'
<1> USE NoneAssumption DEF RollBack, Release, Respond, Goto, input
<1>1. TypeOK /\ PhaseInv /\ LockInv /\ OwnerInv /\ TitleInv /\ AnswersAreTrue
  BY DEF RequestInv
<1>2. /\ row' \in [Request -> {"none", "open", "live", "deleted"}]
      /\ \A d \in Request : d # r => row'[d] = row[d]
      /\ op[r] = "create" => row[r] = "open" /\ row'[r] = "none"
      /\ op[r] # "create" => row'[r] = row[r]
  <2>1. op[r] = "create" => target[r] = r /\ row[r] = "open"
    BY <1>1 DEF LockInv, PhaseInv
  <2>2. row \in [Request -> {"none", "open", "live", "deleted"}]
    BY <1>1 DEF TypeOK
  <2> QED BY <2>1, <2>2
<1>3. /\ \A d \in Request : lock'[d] = IF lock[d] = r THEN None ELSE lock[d]
      /\ \A q \in Request : /\ step'[q] = IF q = r THEN "done" ELSE step[q]
                            /\ answer'[q] = IF q = r THEN "error" ELSE answer[q]
                            /\ TookEffect(q)' <=> TookEffect(q)
  BY <1>1 DEF TypeOK, TookEffect
<1>4. TypeOK'
  <2>1. /\ step' \in [Request -> Step]
        /\ \A q \in Request : step'[q] = "updating" => loaded'[q] \in Title
    BY <1>1 DEF TypeOK, Step
  <2>2. answer' \in [Request -> Answer \cup {None}]
    BY <1>1 DEF TypeOK, Answer
  <2>3. lock' \in [Request -> Request \cup {None}]
    BY <1>1 DEF TypeOK
  <2> QED BY <1>1, <1>2, <2>1, <2>2, <2>3 DEF TypeOK
<1>5. PhaseInv'
  BY <1>1, <1>2, <1>3 DEF PhaseInv
<1>6. LockInv'
  <2>1. \A q \in Request : op[q] = "rename" => row[target[q]] # "open"
    BY <1>1 DEF PhaseInv
  <2> QED BY <1>1, <1>2, <1>3, <2>1 DEF LockInv, PhaseInv, TypeOK
<1>7. OwnerInv'
  BY <1>1, <1>3 DEF OwnerInv
<1>8. TitleInv'
  BY <1>1, <1>2, <1>3 DEF TitleInv
<1>9. AnswersAreTrue'
  BY <1>1, <1>2, <1>3 DEF AnswersAreTrue, PhaseInv
<1> QED BY <1>4, <1>5, <1>6, <1>7, <1>8, <1>9 DEF RequestInv

-----------------------------------------------------------------------------

LEMMA NextInv == RequestInv /\ [Next]_vars => RequestInv'
<1> SUFFICES ASSUME RequestInv, [Next]_vars PROVE RequestInv'
  OBVIOUS
<1>1. ASSUME NEW r \in Request, BeginCreate(r) \/ BeginRename(r) \/ BeginDelete(r)
      PROVE  RequestInv'
  BY <1>1, BeginInv
<1>2. ASSUME NEW r \in Request, Find(r) \/ Reread(r) \/ StatementFails(r)
      PROVE  RequestInv'
  BY <1>2, LookUpInv
<1>3. ASSUME NEW r \in Request, InsertConversation(r)
      PROVE  RequestInv'
  BY <1>3, InsertInv
<1>4. ASSUME NEW r \in Request, Update(r) \/ DeleteRow(r)
      PROVE  RequestInv'
  BY <1>4, StatementInv
<1>5. ASSUME NEW r \in Request, Commit(r)
      PROVE  RequestInv'
  BY <1>5, SettledStep, CommitInv DEF Commit
<1>6. ASSUME NEW r \in Request, CommitFails(r)
      PROVE  RequestInv'
  BY <1>6, SettledStep, CommitInv, RollBackInv DEF CommitFails
<1>7. CASE UNCHANGED vars
  BY <1>7
  DEF vars, table, input, RequestInv, TypeOK, PhaseInv, LockInv, OwnerInv, TitleInv,
    AnswersAreTrue, TookEffect
<1> QED
  BY <1>1, <1>2, <1>3, <1>4, <1>5, <1>6, <1>7 DEF Next, RequestStep

(* Whatever the requests do, RequestInv holds.                             *)
THEOREM RequestInvariant == Spec => []RequestInv
BY InitInv, NextInv, PTL DEF Spec

(* Type correctness.                                                       *)
THEOREM TypeCorrect == Spec => []TypeOK
<1>1. RequestInv => TypeOK
  BY DEF RequestInv
<1> QED BY <1>1, RequestInvariant, PTL

(* A 201, a 200 or a 204 is the truth about the table: the statement of a  *)
(* request that was answered so found the row and its commit kept it.      *)
THEOREM NoFalseAnswer == Spec => []AnswersAreTrue
<1>1. RequestInv => AnswersAreTrue
  BY DEF RequestInv
<1> QED BY <1>1, RequestInvariant, PTL

(* The commits that write a conversation are those of requests that hold   *)
(* its row, which they found live.                                         *)
LEMMA WritesHoldRow ==
  ASSUME RequestInv, [Next]_vars, NEW c \in Request, row[c] \in {"live", "deleted"},
         row'[c] # row[c] \/ titles'[c] # titles[c]
  PROVE  /\ row[c] = "live"
         /\ lock[c] \in Request /\ step[lock[c]] = "committing" /\ target[lock[c]] = c
<1> USE DEF table, input
<1>1. TypeOK /\ PhaseInv /\ LockInv
  BY DEF RequestInv
<1>2. ASSUME NEW r \in Request, step[r] = "committing", MakeDurable(r)
      PROVE  lock[c] = r
  <2>1. Settled(r)
    BY <1>2, SettledStep
  <2>2. /\ row \in [Request -> {"none", "open", "live", "deleted"}]
        /\ titles \in [Request -> Seq(Title)]
    BY <1>1 DEF TypeOK
  <2> QED BY <2>1, <2>2 DEF Settled
<1>3. ASSUME NEW r \in Request, step[r] = "committing", RollBack(r)
      PROVE  FALSE
  <2>1. op[r] = "create" => row[r] = "open"
    BY <1>1, <1>3 DEF LockInv, PhaseInv
  <2>2. row \in [Request -> {"none", "open", "live", "deleted"}]
    BY <1>1 DEF TypeOK
  <2> QED BY <1>3, <2>1, <2>2 DEF RollBack
<1>4. ASSUME NEW r \in Request, InsertConversation(r)
      PROVE  FALSE
  BY <1>1, <1>4 DEF InsertConversation, PhaseInv, TypeOK
<1>5. PICK r \in Request : (Commit(r) \/ CommitFails(r)) /\ MakeDurable(r)
  BY <1>3, <1>4
  DEF Next, RequestStep, vars, BeginCreate, BeginRename, BeginDelete, Begin, Find,
    Update, Reread, DeleteRow, StatementFails, Commit, CommitFails
<1>6. lock[c] = r
  BY <1>2, <1>5 DEF Commit, CommitFails
<1>7. row[c] = "live"
  BY <1>1, <1>6 DEF LockInv
<1> QED BY <1>1, <1>6, <1>7 DEF LockInv

(* No commit of a rename, begun before or after, revives a conversation.   *)
THEOREM NeverRevived == Spec => DeletedForGood
<1>1. RequestInv /\ [Next]_vars => [DeletedStays]_vars
  BY WritesHoldRow DEF DeletedStays
<1> QED BY <1>1, RequestInvariant, PTL DEF Spec, DeletedForGood

(* The owner test was made on a row read earlier, and UPDATE and DELETE do *)
(* not repeat it; yet only the owner's requests change a conversation.     *)
THEOREM OwnersOnly == Spec => OnlyOwnersChange
<1>1. RequestInv /\ [Next]_vars => [ChangedByOwner]_vars
  BY WritesHoldRow DEF ChangedByOwner, RequestInv, OwnerInv
<1> QED BY <1>1, RequestInvariant, PTL DEF Spec, OnlyOwnersChange

(* Its UPDATE or DELETE is sent and waits for the row of another request.  *)
WaitsForRow(r) ==
  /\ step[r] = "deleting" \/ (step[r] = "updating" /\ asked[r] # loaded[r])
  /\ lock[target[r]] # None

(* Whoever waits for a row waits for a request of the same user, on the    *)
(* same conversation, that has nothing left to do but commit.              *)
WaitsAreShort ==
  \A r \in Request :
    WaitsForRow(r) =>
      LET holder == lock[target[r]] IN
      /\ holder \in Request \ {r}
      /\ step[holder] = "committing"
      /\ target[holder] = target[r] /\ by[holder] = by[r]
      /\ \A c \in Request : lock[c] = holder => c = target[r]

(* Row locks lead to no deadlock and to no wait for a stranger: a request  *)
(* holds one row, takes it with its last statement, and the owner test     *)
(* comes before the statement that waits.                                  *)
THEOREM NoDeadlock == Spec => []WaitsAreShort
<1>1. RequestInv => WaitsAreShort
  BY DEF RequestInv, TypeOK, LockInv, OwnerInv, WaitsAreShort, WaitsForRow
<1> QED BY <1>1, RequestInvariant, PTL

-----------------------------------------------------------------------------
(* Refinement: what clients see of the table is a notebook.                *)

(* A request that begins is one that is put to the notebook.               *)
LEMMA BeginAsks ==
  ASSUME RequestInv, NEW r \in Request,
         BeginCreate(r) \/ BeginRename(r) \/ BeginDelete(r)
  PROVE  Pages!Next
<1>1. TypeOK /\ PhaseInv /\ op[r] = None
  BY DEF RequestInv, PhaseInv, BeginCreate, BeginRename, BeginDelete, Begin
<1>2. PICK o \in {"create", "rename", "delete"}, u \in User, c \in Request,
           t \in Title \cup {None}, position \in Step :
        /\ Begin(r, o, u, c, position)
        /\ asked' = [asked EXCEPT ![r] = t]
        /\ IF o = "create" THEN c = r ELSE row[c] \in {"live", "deleted"}
  <2>1. CASE BeginCreate(r) \/ BeginRename(r)
    BY <2>1 DEF BeginCreate, BeginRename, Step
  <2>2. CASE BeginDelete(r)
    <3>1. asked' = [asked EXCEPT ![r] = asked[r]] /\ asked[r] \in Title \cup {None}
      BY <1>1, <2>2 DEF BeginDelete, TypeOK
    <3> QED  BY <2>2, <3>1 DEF BeginDelete, Step
  <2> QED  BY <2>1, <2>2
<1>3. o # "create" => Page[c] # "none"
  BY <1>2 DEF Page
<1>4. UNCHANGED <<Page, Owner, titles, answer>>
  BY <1>2 DEF Begin, table, Page, Owner
<1>5. Pages!Ask(r, o, u, c, t)
  BY <1>1, <1>2, <1>3, <1>4 DEF Begin, Pages!Ask, Pages!effects
<1> QED  BY <1>2, <1>5 DEF Pages!Next

LEMMA OwnedPage ==
  ASSUME TypeOK, NEW c \in Request, row[c] \in {"live", "deleted"}
  PROVE  Page[c] = row[c] /\ Owner[c] = owner[c]
BY DEF Page, Owner

(* Until it commits, a request changes nothing that clients see; it may    *)
(* be refused what is not its user's, or fail.                             *)
LEMMA StatementReplies ==
  ASSUME RequestInv, NEW r \in Request,
         \/ InsertConversation(r) \/ Find(r) \/ Update(r) \/ Reread(r) \/ DeleteRow(r)
         \/ StatementFails(r)
  PROVE  [Pages!Next]_(Pages!vars)
<1>1. TypeOK /\ PhaseInv /\ op[r] \in Operation
      /\ step[r] \in {"inserting", "finding", "updating", "deleting"}
  BY DEF RequestInv, PhaseInv, InsertConversation, Find, Update, Reread, DeleteRow,
    StatementFails
<1>2. op[r] # None /\ answer[r] = None
  BY <1>1, NoneAssumption DEF PhaseInv
<1>3. UNCHANGED <<titles, op, by, target, asked, from>>
  BY DEF InsertConversation, Find, Update, Reread, DeleteRow, StatementFails, table, input
<1>4. UNCHANGED <<Page, Owner>>
  <2>1. CASE InsertConversation(r)
    <3>1. /\ row[r] = "none" /\ row \in [Request -> {"none", "open", "live", "deleted"}]
          /\ owner \in [Request -> User \cup {None}]
      BY <1>1, <2>1 DEF PhaseInv, TypeOK, InsertConversation
    <3>2. \A c \in Request :
            /\ row'[c] = IF c = r THEN "open" ELSE row[c]
            /\ c # r => owner'[c] = owner[c]
      BY <2>1, <3>1 DEF InsertConversation
    <3> QED  BY <3>1, <3>2 DEF Page, Owner
  <2>2. CASE UNCHANGED <<row, owner>>
    BY <2>2 DEF Page, Owner
  <2> QED
    BY <2>1, <2>2 DEF Find, Update, Reread, DeleteRow, StatementFails, table
<1>5. CASE UNCHANGED answer
  BY <1>3, <1>4, <1>5 DEF Pages!vars, Pages!effects, Pages!input
<1>6. CASE answer' = [answer EXCEPT ![r] = "error"]
  <2>1. Pages!Reply(r, "error")
    BY <1>2, <1>3, <1>4, <1>6
    DEF Pages!Reply, Pages!Outcome, Pages!effects, Pages!input
  <2> QED  BY <2>1 DEF Pages!Next
<1>7. CASE /\ answer' = [answer EXCEPT ![r] = "not_found"]
           /\ Find(r) /\ (row[target[r]] # "live" \/ owner[target[r]] # by[r])
  <2>1. op[r] # "create" /\ row[target[r]] \in {"live", "deleted"} /\ target[r] \in Request
    BY <1>1, <1>7 DEF PhaseInv, TypeOK, Find
  <2>2. Pages!Nothing(r)
    BY <1>1, <1>7, <2>1, OwnedPage DEF Pages!Nothing, Pages!Owned
  <2>3. Pages!Reply(r, "not_found")
    BY <1>2, <1>3, <1>4, <1>7, <2>1, <2>2
    DEF Pages!Reply, Pages!Outcome, Pages!effects, Pages!input
  <2> QED  BY <2>3 DEF Pages!Next
<1> QED
  BY <1>5, <1>6, <1>7
  DEF InsertConversation, Find, Update, Reread, DeleteRow, StatementFails, Respond

(* What a commit makes durable is one entry of the notebook, or has come   *)
(* true already.                                                           *)
LEMMA CommitReplies ==
  ASSUME RequestInv, NEW r \in Request, step[r] = "committing", Settled(r),
         NEW a \in {Success(op[r]), "error"}, Respond(r, a), UNCHANGED <<owner, input>>
  PROVE  Pages!Next
<1> DEFINE c == target[r]
<1>1. /\ TypeOK /\ PhaseInv /\ LockInv /\ OwnerInv
      /\ op[r] \in Operation /\ op[r] # None /\ answer[r] = None
      /\ c \in Request /\ owner[c] = by[r]
  BY NoneAssumption DEF RequestInv, TypeOK, PhaseInv, OwnerInv
<1>2. /\ row \in [Request -> {"none", "open", "live", "deleted"}]
      /\ owner \in [Request -> User \cup {None}]
  BY <1>1 DEF TypeOK
<1>3. /\ Success(op[r]) = Pages!Done(op[r])
      /\ Success(op[r]) \in {"created", "renamed", "deleted"}
  BY <1>1 DEF Success, Pages!Done, Operation
<1>4. Pages!Outcome(r, a)
  <2>1. CASE lock[c] # r
    <3>1. UNCHANGED <<Page, Owner, titles>>
      BY <1>1, <2>1 DEF Settled, Page, Owner
    <3>2. \/ op[r] = "delete" /\ row[c] = "deleted"
          \/ op[r] = "rename" /\ TookEffect(r)
      BY <1>1, <2>1 DEF LockInv
    <3>3. row[c] \in {"live", "deleted"}
      BY <1>1, <3>2 DEF PhaseInv
    <3>4. Pages!AlreadySo(r)
      BY <1>1, <3>2, <3>3, OwnedPage DEF Pages!AlreadySo, Pages!Owned, TookEffect
    <3> QED  BY <1>3, <3>1, <3>4 DEF Pages!Outcome, Pages!effects
  <2>2. CASE lock[c] = r /\ op[r] = "create"
    <3>1. row[c] = "open" /\ row' = [row EXCEPT ![c] = "live"]
          /\ titles' = [titles EXCEPT ![c] = Append(titles[c], asked[r])]
      BY <1>1, <2>2 DEF LockInv, Settled
    <3>2. Page[c] = "none" /\ Page' = [Page EXCEPT ![c] = "live"]
      BY <1>1, <1>2, <3>1 DEF Page
    <3>3. Owner' = [Owner EXCEPT ![c] = by[r]]
      BY <1>1, <1>2, <3>1, <3>2 DEF Page, Owner
    <3>4. Pages!Create(r)
      BY <2>2, <3>1, <3>2, <3>3 DEF Pages!Create
    <3> QED  BY <1>3, <3>4 DEF Pages!Outcome
  <2>3. CASE lock[c] = r /\ op[r] = "rename"
    <3>1. row[c] = "live" /\ row' = row
          /\ titles' = [titles EXCEPT ![c] = Append(titles[c], asked[r])]
      <4>1. row[c] = "live" /\ row' = [row EXCEPT ![c] = "live"]
        BY <1>1, <2>3 DEF LockInv, Settled
      <4> QED  BY <1>1, <1>2, <2>3, <4>1 DEF Settled
    <3>2. UNCHANGED <<Page, Owner>>
      BY <3>1 DEF Page, Owner
    <3>3. Pages!Rename(r)
      BY <1>1, <2>3, <3>1, <3>2, OwnedPage DEF Pages!Rename, Pages!Owned
    <3> QED  BY <1>3, <3>3 DEF Pages!Outcome
  <2>4. CASE lock[c] = r /\ op[r] = "delete"
    <3>1. row[c] = "live" /\ row' = [row EXCEPT ![c] = "deleted"] /\ titles' = titles
      BY <1>1, <2>4 DEF LockInv, Settled
    <3>2. Page' = [Page EXCEPT ![c] = "deleted"]
      BY <1>1, <1>2, <3>1 DEF Page
    <3>3. Owner' = Owner
      BY <1>1, <1>2, <3>1 DEF Page, Owner
    <3>4. Pages!Delete(r)
      BY <1>1, <2>4, <3>1, <3>2, <3>3, OwnedPage DEF Pages!Delete, Pages!Owned
    <3> QED  BY <1>3, <3>4 DEF Pages!Outcome
  <2> QED  BY <1>1, <2>1, <2>2, <2>3, <2>4 DEF Operation
<1>5. Pages!Reply(r, a)
  BY <1>1, <1>4 DEF Pages!Reply, Pages!input, input, Respond
<1> QED  BY <1>3, <1>5 DEF Pages!Next

(* What is rolled back has never been there.                               *)
LEMMA RollBackReplies ==
  ASSUME RequestInv, NEW r \in Request, step[r] = "committing", RollBack(r),
         Respond(r, "error"), UNCHANGED <<owner, input>>
  PROVE  Pages!Next
<1>1. /\ TypeOK /\ PhaseInv /\ LockInv
      /\ op[r] \in Operation /\ op[r] # None /\ answer[r] = None
  BY NoneAssumption DEF RequestInv, PhaseInv
<1>2. op[r] = "create" => row[r] = "open"
  BY <1>1 DEF LockInv, PhaseInv
<1>3. row \in [Request -> {"none", "open", "live", "deleted"}]
  BY <1>1 DEF TypeOK
<1>4. Page' = Page
  BY <1>2, <1>3 DEF RollBack, Page
<1>5. UNCHANGED <<Page, Owner, titles>>
  BY <1>4 DEF Owner, RollBack
<1>6. Pages!Reply(r, "error")
  BY <1>1, <1>5
  DEF Pages!Reply, Pages!Outcome, Pages!effects, Pages!input, input, Respond
<1> QED  BY <1>6 DEF Pages!Next

(* Conversations implements Notebook: although a request looks a row up,   *)
(* writes it and commits in statements of their own, its effect is one     *)
(* step, that of its answer, on the table as it is then; a success without *)
(* an effect tells what has come true since it began.                      *)
THEOREM RequestsAreAtomic == Spec => ImplementsNotebook
<1>1. Init => Pages!Init
  BY DEF Init, Pages!Init, Page, Owner
<1>2. RequestInv /\ [Next]_vars => [Pages!Next]_(Pages!vars)
  <2> SUFFICES ASSUME RequestInv, [Next]_vars PROVE [Pages!Next]_(Pages!vars)
    OBVIOUS
  <2>1. ASSUME NEW r \in Request, BeginCreate(r) \/ BeginRename(r) \/ BeginDelete(r)
        PROVE  Pages!Next
    BY <2>1, BeginAsks
  <2>2. ASSUME NEW r \in Request,
               \/ InsertConversation(r) \/ Find(r) \/ Update(r) \/ Reread(r)
               \/ DeleteRow(r) \/ StatementFails(r)
        PROVE  [Pages!Next]_(Pages!vars)
    BY <2>2, StatementReplies
  <2>3. ASSUME NEW r \in Request, Commit(r) \/ CommitFails(r) PROVE Pages!Next
    BY <2>3, SettledStep, CommitReplies, RollBackReplies DEF Commit, CommitFails
  <2>4. CASE UNCHANGED vars
    BY <2>4
    DEF vars, table, input, Pages!vars, Pages!effects, Pages!input, Page, Owner
  <2> QED  BY <2>1, <2>2, <2>3, <2>4 DEF Next, RequestStep
<1> QED
  BY <1>1, <1>2, RequestInvariant, PTL DEF Spec, ImplementsNotebook, Pages!Spec

=============================================================================
