-------------------------- MODULE MCCommandJournal --------------------------
(***************************************************************************)
(* The two parts of the journal, each on its own: focus says which a       *)
(* behaviour is about.                                                     *)
(*                                                                         *)
(*   commands  two named commands, interchangeable                         *)
(*   an id     requests of that id only, one more of them                  *)
(*   lock      three journals of two processes and one crash               *)
(***************************************************************************)
EXTENDS DurableJournal

CONSTANTS i1, i2
Symmetry == Permutations({i1, i2})
MCHome == <<"p", "p", "q">>

VARIABLE focus

mcvars == <<focus, vars, lockVars>>
-----------------------------------------------------------------------------
MCInit ==
  /\ focus \in {"commands", "lock"} \cup Ids
  /\ Init /\ (focus = "lock" => ~failClosed /\ ~retention)
  /\ Lock!Init

MCNext ==
  /\ focus' = focus
  /\ \/ /\ Next /\ UNCHANGED lockVars
        /\ \/ focus = "commands" /\ requests' < MaxRequests
           \/ focus \in Ids /\ \A i \in Ids \ {focus} : passed'[i] = 0
     \/ focus = "lock" /\ Lock!Next /\ UNCHANGED vars

MCSpec == MCInit /\ [][MCNext]_mcvars
=============================================================================
