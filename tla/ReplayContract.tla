--------------------------- MODULE ReplayContract ---------------------------
(***************************************************************************)
(* What the replay layer promises its clients: a name (a command id or a   *)
(* scoped idempotency key) is bound to at most one execution at a time, a  *)
(* request is answered once, and an answer is either the request's own     *)
(* verdict or a copy of the verdict of the execution that owned one of its *)
(* names, under the same fingerprint.                                      *)
(***************************************************************************)
EXTENDS Integers

CONSTANTS Requests,     \* positive numbers, 0 stands for no request
          Names,        \* command ids and scoped idempotency keys
          Asks,         \* what clients may ask: a set of names and a fingerprint
          NoAsk,        \* the ask of a request not yet made
          NoVerdict     \* the reply of a request not yet answered

VARIABLES ask,          \* names and fingerprint of each request made
          owner,        \* the execution each name is bound to
          following,    \* the execution whose verdict a request waits for
          reply         \* the answer of each request

vars == <<ask, owner, following, reply>>

Refusals == {"conflict", "limited", "busy", "refused", "fail"}
Endings  == {"ok", "fail", "timeout", "cancelled"}
Own(r, k) == [src |-> r, kind |-> k]

Answered(r) == reply[r] # NoVerdict
Free(names) == \A n \in names : owner[n] = 0
Bound(names, r, dropped) ==
  [n \in Names |-> IF n \in dropped THEN 0 ELSE IF n \in names THEN r ELSE owner[n]]

\* Retention is bounded: storing a verdict may drop the binding of one other name.
Droppable == {{}} \cup {{n} : n \in Names}

Init ==
  /\ ask = [r \in Requests |-> NoAsk]
  /\ owner = [n \in Names |-> 0]
  /\ following = [r \in Requests |-> 0]
  /\ reply = [r \in Requests |-> NoVerdict]

Make(r, a) == ask[r] = NoAsk /\ ask' = [ask EXCEPT ![r] = a]

\* The execution that owns a name of the ask and has the same fingerprint.
Owners(a) == {owner[n] : n \in a.names} \ {0}
Twins(a)  == {q \in Owners(a) : ask[q].fp = a.fp}

Execute(r, a) ==
  /\ Make(r, a) /\ Free(a.names)
  /\ owner' = Bound(a.names, r, {})
  /\ UNCHANGED <<following, reply>>

ExecuteAndFail(r, a) ==
  /\ Make(r, a) /\ Free(a.names)
  /\ reply' = [reply EXCEPT ![r] = Own(r, "fail")]
  /\ \E dropped \in Droppable : owner' = Bound(a.names, r, dropped)
  /\ UNCHANGED following

Follow(r, a) ==
  /\ Make(r, a)
  /\ \E q \in Twins(a) : following' = [following EXCEPT ![r] = q]
  /\ UNCHANGED <<owner, reply>>

Copy(r, a) ==
  /\ Make(r, a)
  /\ \E q \in Twins(a) : Answered(q) /\ reply' = [reply EXCEPT ![r] = reply[q]]
  /\ UNCHANGED <<owner, following>>

Refuse(r, a) ==
  /\ Make(r, a)
  /\ \E k \in Refusals : reply' = [reply EXCEPT ![r] = Own(r, k)]
  /\ UNCHANGED <<owner, following>>

Decide(r) ==
  /\ ask[r] # NoAsk /\ ~Answered(r) /\ following[r] = 0
  /\ \A n \in ask[r].names : owner[n] \in {0, r}
  /\ \E k \in Endings : reply' = [reply EXCEPT ![r] = Own(r, k)]
  /\ \E dropped \in Droppable : owner' = Bound(ask[r].names, r, dropped)
  /\ UNCHANGED <<ask, following>>

FollowUp(r) ==
  /\ following[r] # 0 /\ Answered(following[r])
  /\ reply' \in {[reply EXCEPT ![r] = reply[following[r]]], [reply EXCEPT ![r] = Own(r, "fail")]}
  /\ following' = [following EXCEPT ![r] = 0]
  /\ UNCHANGED <<ask, owner>>

\* A retention window closes on a name whose execution has been answered.
Release(n) ==
  /\ owner[n] # 0 /\ Answered(owner[n])
  /\ owner' = [owner EXCEPT ![n] = 0]
  /\ UNCHANGED <<ask, following, reply>>

\* The process is torn down: all bindings go at once.
TearDown == owner' = [n \in Names |-> 0] /\ UNCHANGED <<ask, following, reply>>

Next ==
  \/ \E r \in Requests : \E a \in Asks :
       \/ Execute(r, a) \/ ExecuteAndFail(r, a) \/ Follow(r, a)
       \/ Copy(r, a) \/ Refuse(r, a)
  \/ \E r \in Requests : Decide(r) \/ FollowUp(r)
  \/ \E n \in Names : Release(n)
  \/ TearDown

Spec == Init /\ [][Next]_vars
=============================================================================
