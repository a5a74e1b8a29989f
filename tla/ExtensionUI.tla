----------------------------- MODULE ExtensionUI -----------------------------
(***************************************************************************)
(* ExtensionUIManager and the dialogs of the server's extension UI: a      *)
(* dialog waits for a client's response, a timeout, the deletion of its    *)
(* session or the abort signal of its caller.  Settling the promise and    *)
(* waking the dialog that awaits it are two steps, between which the other *)
(* events may come.                                                        *)
(***************************************************************************)
EXTENDS Integers, FiniteSets

CONSTANTS Dialogs, Sessions,
          Session, Method,     \* of each dialog
          HasSignal,           \* dialogs called with an abort signal; never an editor
          Values, Default,     \* what a response may say, and what a dialog returns without one
          MaxPending           \* maxPendingRequests

Methods == {"select", "confirm", "input", "editor"}

DialogAssumption ==
  /\ Session \in [Dialogs -> Sessions] /\ Method \in [Dialogs -> Methods]
  /\ HasSignal \subseteq {d \in Dialogs : Method[d] # "editor"}
  /\ Default \notin Values /\ MaxPending \in Nat /\ IsFiniteSet(Dialogs)

VARIABLES at,        \* where each dialog is
          pending,   \* pendingRequests, none of them settled
          timer,     \* dialogs with a timeout set
          reply,     \* the response a promise was resolved with
          returned,  \* what each dialog returned
          told       \* history: responses that were reported a success, by dialog

vars == <<at, pending, timer, reply, returned, told>>

Init ==
  /\ at = [d \in Dialogs |-> "idle"] /\ pending = {} /\ timer = {}
  /\ reply = [d \in Dialogs |-> Default] /\ returned = [d \in Dialogs |-> Default]
  /\ told = [d \in Dialogs |-> {}]

Responses == [method : Methods \cup {"cancelled"}, value : Values]
-----------------------------------------------------------------------------
\* select, confirm, input and editor, with createPendingRequest.
Full == Cardinality(pending) >= MaxPending
OpenDialog(d) ==
  /\ at[d] = "idle" /\ ~Full
  /\ at' = [at EXCEPT ![d] = "waiting"]
  /\ pending' = pending \cup {d} /\ timer' = timer \cup {d}
  /\ UNCHANGED <<reply, returned, told>>

\* The limit is reached, or the signal was aborted before.
DialogRefused(d) ==
  /\ at[d] = "idle" /\ (Full \/ d \in HasSignal)
  /\ at' = [at EXCEPT ![d] = "returned"]
  /\ UNCHANGED <<pending, timer, reply, returned, told>>

Settle(ds) == pending' = pending \ ds /\ timer' = timer \ ds

AnySession(d, s) == TRUE                          \* fault: the session is not compared
Matches(d, s) == Session[d] = s

IsPending(d) == d \in pending

\* handleUIResponse, for a response that names d as its request and s as its session.
HandleUIResponse(d, s, r) ==
  /\ IsPending(d) /\ Matches(d, s)
  /\ Settle({d}) /\ told' = [told EXCEPT ![d] = @ \cup {<<s, r>>}]
  /\ at' = [at EXCEPT ![d] = "resolved"]
  /\ reply' = [reply EXCEPT ![d] = r]
  /\ UNCHANGED returned

Reject(ds) == at' = [d \in Dialogs |-> IF d \in ds THEN "rejected" ELSE at[d]]

Fires(d) == d \in timer
TimeOut(d) ==
  /\ Fires(d) /\ d \in pending
  /\ Settle({d}) /\ Reject({d})
  /\ UNCHANGED <<reply, returned, told>>

\* cancelSessionRequests, from deleteSession and from a creation or load that fails.
CancelSession(s) ==
  LET mine == {d \in pending : Session[d] = s} IN
  /\ mine # {} /\ Settle(mine) /\ Reject(mine)
  /\ UNCHANGED <<reply, returned, told>>

\* The abort listener is attached until the dialog wakes: it cancels a request that is still
\* pending, and discards an answer that is on its way.
Abort(d) ==
  /\ d \in HasSignal /\ at[d] \in {"waiting", "resolved", "rejected"}
  /\ Settle({d})
  /\ at' = [at EXCEPT ![d] = "returned"]
  /\ UNCHANGED <<reply, returned, told>>

OfItsMethod(d) == reply[d].method = Method[d]

\* The dialog wakes: an answer of another method, or a cancellation, counts as no answer.
Wake(d) ==
  /\ at[d] \in {"resolved", "rejected"}
  /\ returned' = [returned EXCEPT ![d] = IF at[d] = "resolved" /\ OfItsMethod(d)
                                         THEN reply[d].value ELSE Default]
  /\ at' = [at EXCEPT ![d] = "returned"]
  /\ UNCHANGED <<pending, timer, reply, told>>

Next ==
  \/ \E d \in Dialogs :
       \/ OpenDialog(d) \/ DialogRefused(d) \/ TimeOut(d) \/ Abort(d) \/ Wake(d)
       \/ \E s \in Sessions, r \in Responses : HandleUIResponse(d, s, r)
  \/ \E s \in Sessions : CancelSession(s)

\* Timers fire and microtasks run; clients need not answer.
Fairness == \A d \in Dialogs : WF_vars(TimeOut(d)) /\ WF_vars(Wake(d))
Spec == Init /\ [][Next]_vars
FairSpec == Spec /\ Fairness
-----------------------------------------------------------------------------
TypeOK ==
  /\ at \in [Dialogs -> {"idle", "waiting", "resolved", "rejected", "returned"}]
  /\ pending \subseteq Dialogs /\ timer \subseteq Dialogs
  /\ reply \in [Dialogs -> Responses \cup {Default}]
  /\ returned \in [Dialogs -> Values \cup {Default}]
  /\ told \in [Dialogs -> SUBSET (Sessions \X Responses)]

\* The pending requests are exactly the dialogs that wait, each with its timer, and never
\* more than the limit: no way to end a dialog leaves an entry or a timer behind.
PendingAreWaiting ==
  /\ pending = {d \in Dialogs : at[d] = "waiting"} /\ timer = pending
  /\ Cardinality(pending) <= MaxPending

\* At most one response is reported a success, it came for the dialog's own session, and a
\* dialog returns nothing but what that response said to its method (handleUIResponse).
AnsweredOnce ==
  \A d \in Dialogs :
    /\ Cardinality(told[d]) <= 1
    /\ returned[d] # Default =>
         told[d] = {<<Session[d], [method |-> Method[d], value |-> returned[d]]>>}

\* Dialogs are accounted for: the table knows those that wait, and each is answered once.
DialogsAccounted == TypeOK /\ PendingAreWaiting /\ AnsweredOnce

\* A dialog that waits returns, answered or not.
DialogsReturn == \A d \in Dialogs : at[d] = "waiting" ~> at[d] = "returned"

\* A client that is told its response was accepted has answered the dialog.
AcceptedCounts ==
  \A d \in Dialogs : at[d] = "returned" /\ told[d] # {} => returned[d] # Default
=============================================================================
