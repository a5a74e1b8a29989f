------------------------------ MODULE MCGuards ------------------------------
(***************************************************************************)
(* The guards of the server and the queries that collect an answer, each   *)
(* on its own: focus says which a behaviour is about.                      *)
(*                                                                         *)
(*   rates     one session, a session that does not exist and the control  *)
(*             plane, in windows of two ticks                              *)
(*   breakers  two calls at a time, of one provider and one session        *)
(*   counter   three keys in a counter with room for two                   *)
(*   alerts    three metrics, two of them remembered                       *)
(*   commands  every type of command, with up to two fields out of the     *)
(*             ordinary, one command after another                         *)
(*   listings  session files above and below the two directories that are  *)
(*             searched, one of them through a link, one change meanwhile  *)
(*   trees     the trees of four entries, two levels and two entries shown *)
(*   history   up to three lines, blank and broken ones among them         *)
(***************************************************************************)
EXTENDS Guards, Queries

VARIABLE focus

queryVars == <<fileVars, treeVars, historyVars>>
mcvars == <<focus, timed, vars, queryVars>>

MCThreshold == [b \in {"llm", "a", "bash"} |-> IF b = "a" THEN 1 ELSE 2]

Agent == <<"h", ".pi", "agent", "sessions">>
Below == <<"h", ".pi", "sessions">>
Linked == <<"h", "s", "sessions">>                \* what h/p/.pi/sessions leads to
Upward == UNION {{SubSeq(d, 1, n) : n \in 0 .. Len(d)} : d \in {Agent, Below, Linked}}
MCHome == <<"h">>
MCCwd == <<"h", "p">>
MCDirs == Upward \cup {<<"h", "p">>, <<"h", "p", ".pi">>, Agent \o <<"w">>, Below \o <<"a">>,
                       Agent \o <<"x">>}
MCFiles == {Agent \o <<"w", "new.jsonl">>, Linked \o <<"old.json">>, Linked \o <<"link.jsonl">>,
            Below \o <<"a", "in.jsonl">>, <<"h", "out.jsonl">>}
MCLinks == [p \in {<<"h", "p", ".pi">>, Linked \o <<"link.jsonl">>} |->
              IF Len(p) = 3 THEN <<"h", "s">> ELSE <<"h", "out.jsonl">>]
MCStoredFile == <<<<"h", "p", ".pi", "sessions", "old.json">>, Agent \o <<"w", "new.jsonl">>>>

\* Files a search can come by; the others are there at first, and may change as these do.
Reachable == {Agent \o <<"w", "new.jsonl">>, Linked \o <<"old.json">>, Below \o <<"a", "in.jsonl">>}

MCEntries ==
  {[kind |-> "message", body |-> "other"], [kind |-> "compaction", body |-> "other"]}

MCLines == {<<1, -1>>, <<2, -1>>, <<1>>, <<>>}
MCHistoryFiles ==
  {a \o <<0>> \o b \o <<0>> \o c : a \in MCLines, b \in MCLines, c \in {<<1, -1>>, <<>>}}
-----------------------------------------------------------------------------
\* Out of focus a component rests in some initial state.
MCInit ==
  /\ focus \in {"rates", "breakers", "counter", "alerts", "commands", "listings", "trees",
               "history"}
  /\ Rates!Init /\ Breakers!Init /\ Counter!Init /\ Alerts!Init /\ Init
  /\ Listings!Init
  /\ IF focus = "listings"
     THEN \A f \in DOMAIN disk : disk[f] # "junk" /\ (f \notin Reachable => disk[f] = "session")
     ELSE \A f \in DOMAIN disk : disk[f] = NoFile
  /\ Trees!Init /\ History!Init
  /\ focus # "trees" =>
       \A n \in DOMAIN parent : parent[n] = 0 /\ n \notin hollow /\ node[n].kind = "message"
  /\ focus # "history" => bytes = <<0, 0>> /\ query = [chunk |-> 1, limit |-> 1, lines |-> 1]

Elapses ==
  \/ focus = "rates" /\ Rates!Next /\ UNCHANGED <<breakerVars, counterVars, alertVars>>
  \/ focus = "breakers" /\ Breakers!Next /\ UNCHANGED <<rateVars, counterVars, alertVars>>
  \/ focus = "counter" /\ Counter!Next /\ UNCHANGED <<rateVars, breakerVars, alertVars>>
  \/ focus = "alerts" /\ Alerts!Next /\ UNCHANGED <<rateVars, breakerVars, counterVars>>

MCNext ==
  /\ focus' = focus
  /\ \/ Elapses /\ UNCHANGED <<vars, queryVars>>
     \/ focus = "commands" /\ Next /\ UNCHANGED <<timed, queryVars>>
     \/ focus = "listings" /\ Listings!Next /\ UNCHANGED <<timed, vars, treeVars, historyVars>>
     \/ focus = "trees" /\ Trees!Next /\ UNCHANGED <<timed, vars, fileVars, historyVars>>
     \/ focus = "history" /\ History!Next /\ UNCHANGED <<timed, vars, fileVars, treeVars>>

MCSpec == MCInit /\ [][MCNext]_mcvars
=============================================================================
