------------------------------ MODULE MCLocks ------------------------------
(***************************************************************************)
(* The session locks and the metadata file, each on its own: focus says    *)
(* which a behaviour is about.                                             *)
(*                                                                         *)
(*   sessions  five calls on one session, so that its queue of two         *)
(*             overflows, one of them a tryAcquire, and one elsewhere      *)
(*   metadata  three calls in one of three scripts, by two processes:      *)
(*     Writing   both save and clean up, at the size limit                 *)
(*     Reading   both save and rename an entry a third call reads, with    *)
(*               fs calls that fail                                        *)
(*     Removing  one saves and deletes what the other reads                *)
(***************************************************************************)
EXTENDS Locks

MCCallers == 1 .. 6
MCTarget == [c \in MCCallers |-> IF c = 6 THEN "s2" ELSE "s1"]
MCPolite == {5}

MCProcess == [s \in {"a", "b"} |-> IF s = "a" THEN "p" ELSE "q"]
Writing == [kind |-> <<"save", "save", "cleanup">>, store |-> <<"a", "b", "b">>,
            id |-> <<"i1", "i2", "i1">>, upsets |-> {"crash", "lose"}]
Reading == [kind |-> <<"save", "updateName", "load">>, store |-> <<"a", "b", "a">>,
            id |-> <<"i1", "i1", "i1">>, upsets |-> {"fail", "misread"}]
Removing == [kind |-> <<"save", "delete", "load">>, store |-> <<"a", "a", "b">>,
             id |-> <<"i1", "i1", "i1">>, upsets |-> {"crash"}]
MCScripts == {Writing, Reading, Removing}

VARIABLE focus
mcvars == <<focus, vars, storeVars>>
-----------------------------------------------------------------------------
MCInit ==
  /\ focus \in {"sessions", "metadata"}
  /\ Init /\ Metadata!Init /\ (focus = "sessions" => script = Writing)

MCNext ==
  /\ focus' = focus
  /\ \/ focus = "sessions" /\ Next /\ UNCHANGED storeVars
     \/ focus = "metadata" /\ Metadata!Next /\ UNCHANGED vars

StoreStep(c) == focus = "metadata" /\ Metadata!Step(c) /\ UNCHANGED <<focus, vars>>

\* The fairness of each component.
MCFairness ==
  /\ \A c \in Callers : WF_vars(phase[c] = "inside" /\ Release(c))
  /\ \A c \in Calls : WF_storeVars(StoreStep(c))

MCSpec == MCInit /\ [][MCNext]_mcvars /\ MCFairness
=============================================================================
