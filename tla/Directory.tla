----------------------------- MODULE Directory -----------------------------
(***************************************************************************)
(* What people who register may rely on, however their registrations       *)
(* interleave and fail: the directory takes an entry in the step that      *)
(* answers the registration, if nobody has the address at that moment; a   *)
(* conflict is answered if somebody has it at that moment; an error leaves *)
(* open whether there is an entry.  The other answers add nothing.         *)
(***************************************************************************)

CONSTANTS
  Request,      \* an entry is named by the request that made it
  Email,        \* normalized addresses
  Nobody

VARIABLES
  entry,        \* "none", "live" or "removed"
  address,      \* the address each request is about, if it is about one
  answer

vars == <<entry, address, answer>>

Init ==
  /\ entry = [r \in Request |-> "none"]
  /\ address = [r \in Request |-> Nobody]
  /\ answer = [r \in Request |-> "none"]

Ask(r, e) ==
  /\ address[r] = Nobody /\ answer[r] = "none"
  /\ address' = [address EXCEPT ![r] = e]
  /\ UNCHANGED <<entry, answer>>

Taken(e) == \E u \in Request : entry[u] = "live" /\ address[u] = e

Register(r) ==
  /\ entry[r] = "none" /\ address[r] \in Email
  /\ ~Taken(address[r])
  /\ entry' = [entry EXCEPT ![r] = "live"]

Reply(r, a) ==
  /\ answer[r] = "none"
  /\ answer' = [answer EXCEPT ![r] = a]
  /\ \/ a \in {"created", "error"} /\ Register(r)
     \/ a = "conflict" /\ Taken(address[r]) /\ UNCHANGED entry
     \/ a \notin {"created", "conflict"} /\ UNCHANGED entry
  /\ UNCHANGED address

(* An operator takes an entry out, which frees its address.                *)
Remove(u) ==
  /\ entry[u] = "live"
  /\ entry' = [entry EXCEPT ![u] = "removed"]
  /\ UNCHANGED <<address, answer>>

Next ==
  \E r \in Request :
    \/ \E e \in Email : Ask(r, e)
    \/ \E a \in {"created", "conflict", "authenticated", "renewed", "accepted",
                 "unauthorized", "error"} : Reply(r, a)
    \/ Remove(r)

Spec == Init /\ [][Next]_vars

=============================================================================
