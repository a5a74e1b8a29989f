--------------------------- MODULE ResourceGovernor ---------------------------
(***************************************************************************)
(* ResourceGovernor: the sliding windows that limit commands per bucket    *)
(* and in all, and responses to extension dialogs per session, with the    *)
(* charges, refunds and cleanups the session manager makes; and the        *)
(* creation times sessions expire by.  Admission runs synchronously, so    *)
(* that a command is charged, and refunded if a later check refuses it, in *)
(* one step.                                                               *)
(***************************************************************************)
EXTENDS Integers, FiniteSets, CommandClassification

CONSTANTS Sessions, NoSession,
          Types,            \* the types of command that are sent
          MaxCommands,      \* maxCommandsPerMinute
          MaxGlobal,        \* maxGlobalCommandsPerMinute
          MaxResponses,     \* maxExtensionUIResponsePerMinute
          Window, Lifetime, \* RATE_WINDOW_MS and maxSessionLifetimeMs, in ticks
          MaxTime, MaxGeneration

GovernorAssumption ==
  /\ NoSession \notin Sessions
  /\ {MaxCommands, MaxGlobal, MaxResponses, Lifetime, MaxTime, MaxGeneration} \subseteq Nat
  /\ Window \in Nat \ {0}

VARIABLES now,
          charges,      \* generationCounter and the entries of commandTimestamps (bucket),
                        \* globalCommandTimestamps and extensionUIResponseTimestamps
          live,         \* sessions that exist
          createdAt,    \* sessionCreatedAt of the governor; Never when there is no entry
          born,         \* history: when a live session was created, and the generation then
          ran           \* history: the commands admitted, [at, gen, key, type]

vars == <<now, charges, live, createdAt, born, ran>>

Never == -1
BucketKeys == {"data", "control"} \X (Sessions \cup {NoSession})
Unborn == [at |-> Never, gen |-> 0]

Init ==
  /\ now = 0 /\ live = {} /\ ran = {}
  /\ charges = [generation |-> 0, bucket |-> [k \in BucketKeys |-> {}], global |-> {},
                responses |-> [s \in Sessions |-> {}]]
  /\ createdAt = [s \in Sessions |-> Never] /\ born = [s \in Sessions |-> Unborn]
-----------------------------------------------------------------------------
Recent(entries) == {e \in entries : e.at > now - Window}
HasRoom(entries, limit) == Cardinality(entries) < limit

\* The entries that have left the window are dropped from what a check looks at.
GlobalPruned(g) == [g EXCEPT !.global = Recent(@)]
Pruned(g, key) == [GlobalPruned(g) EXCEPT !.bucket[key] = Recent(@)]
ResponsesPruned(g, s) == [g EXCEPT !.responses[s] = Recent(@)]

Next1(g) == g.generation + 1
Charge(g, key) ==
  LET e == [at |-> now, gen |-> Next1(g)] IN
  [g EXCEPT !.generation = Next1(g), !.bucket[key] = @ \cup {e}, !.global = @ \cup {e}]
ChargeResponse(g, s) ==
  [g EXCEPT !.generation = Next1(g), !.responses[s] = @ \cup {[at |-> now, gen |-> Next1(g)]}]

Without(entries, gen) == {e \in entries : e.gen # gen}
BucketRefund(g, key, gen) ==                      \* fault: the global window is not refunded
  [g EXCEPT !.bucket[key] = Without(@, gen)]
\* refundCommand leaves the global window alone when the bucket has lost the charge.
Refund(g, key, gen) ==
  IF \E e \in g.bucket[key] : e.gen = gen
  THEN [g EXCEPT !.bucket[key] = Without(@, gen), !.global = Without(@, gen)] ELSE g
RefundResponse(g, s, gen) == [g EXCEPT !.responses[s] = Without(@, gen)]

\* executeCommand, from the rate limits to the registration as in flight.
IsResponse(c, s) == c = "extension_ui_response" /\ s # NoSession
Charged(c, s) ==
  LET key == RateLimitTarget(c, s, NoSession)
      once == Charge(Pruned(charges, key), key)
  IN IF IsResponse(c, s) THEN ChargeResponse(ResponsesPruned(once, s), s) ELSE once

OverGlobal(c, s) == ~HasRoom(Recent(charges.global), MaxGlobal)
OverBucket(c, s) == ~HasRoom(Recent(charges.bucket[RateLimitTarget(c, s, NoSession)]), MaxCommands)
OverResponses(c, s) == IsResponse(c, s) /\ ~HasRoom(Recent(charges.responses[s]), MaxResponses)

NothingRuns == UNCHANGED <<now, live, createdAt, born, ran>>

RefusedGlobally(c, s) ==
  /\ OverGlobal(c, s) /\ charges' = GlobalPruned(charges) /\ NothingRuns

RefusedByBucket(c, s) ==
  /\ ~OverGlobal(c, s) /\ OverBucket(c, s)
  /\ charges' = Pruned(charges, RateLimitTarget(c, s, NoSession)) /\ NothingRuns

\* refundAdmissionCharges: the response limit refuses what the command limits charged.
RefusedResponse(c, s) ==
  LET key == RateLimitTarget(c, s, NoSession)
      once == Charge(Pruned(charges, key), key)
  IN /\ ~OverGlobal(c, s) /\ ~OverBucket(c, s) /\ OverResponses(c, s)
     /\ charges' = Refund(ResponsesPruned(once, s), key, once.generation)
     /\ NothingRuns

Passes(c, s) == ~OverGlobal(c, s) /\ ~OverBucket(c, s) /\ ~OverResponses(c, s)

\* Too many commands are in flight: both charges are given back.
RefusedBusy(c, s) ==
  LET g == Charged(c, s)
      back == Refund(g, RateLimitTarget(c, s, NoSession), Next1(charges))
  IN /\ Passes(c, s)
     /\ charges' = IF IsResponse(c, s) THEN RefundResponse(back, s, g.generation) ELSE back
     /\ NothingRuns

KeepsFirst(s) == createdAt[s]
\* recordHeartbeat, when a session is created or a command finds it.
Heartbeat(s) ==
  createdAt' = [createdAt EXCEPT ![s] = IF @ = Never THEN now ELSE KeepsFirst(s)]

Admitted(c, s) ==
  /\ Passes(c, s)
  /\ charges' = Charged(c, s)
  /\ ran' = ran \cup {[at |-> now, gen |-> Next1(charges), key |-> RateLimitTarget(c, s, NoSession),
                       type |-> c]}
  /\ IF s \in live /\ Plane(c) = "data" THEN Heartbeat(s) ELSE UNCHANGED createdAt
  /\ UNCHANGED <<now, live, born>>

Arrive(c, s) ==
  /\ charges.generation + 2 <= MaxGeneration
  /\ \/ RefusedGlobally(c, s) \/ RefusedByBucket(c, s) \/ RefusedResponse(c, s)
     \/ RefusedBusy(c, s) \/ Admitted(c, s)
-----------------------------------------------------------------------------
\* cleanupStaleData: every bucket that is not that of a session in ids is dropped, those of
\* the control plane included.
Stale(g, ids) ==
  [g EXCEPT !.bucket = [k \in BucketKeys |-> IF k[1] = "data" /\ k[2] \in ids THEN @[k] ELSE {}],
            !.responses = [s \in Sessions |-> IF s \in ids THEN @[s] ELSE {}]]

Forgotten(ids) == createdAt' = [s \in Sessions |-> IF s \in ids THEN createdAt[s] ELSE Never]

CreateSession(s) ==
  /\ s \notin live /\ live' = live \cup {s} /\ Heartbeat(s)
  /\ born' = [born EXCEPT ![s] = [at |-> now, gen |-> charges.generation]]
  /\ UNCHANGED <<now, charges, ran>>

\* The slot was reserved, then something failed.
CreateFails ==
  /\ charges' = Stale(charges, live) /\ Forgotten(live)
  /\ UNCHANGED <<now, live, born, ran>>

DeleteSession(s) ==
  /\ s \in live /\ live' = live \ {s}
  /\ charges' = Stale(charges, live') /\ Forgotten(live')
  /\ born' = [born EXCEPT ![s] = Unborn]
  /\ UNCHANGED <<now, ran>>

CleanupStaleTimestamps ==
  /\ charges' = [charges EXCEPT !.global = Recent(@),
                                !.bucket = [k \in BucketKeys |-> Recent(@[k])],
                                !.responses = [s \in Sessions |-> Recent(@[s])]]
  /\ UNCHANGED <<now, live, createdAt, born, ran>>

Tick == now < MaxTime /\ now' = now + 1 /\ UNCHANGED <<charges, live, createdAt, born, ran>>

Expired == {s \in Sessions : createdAt[s] # Never /\ Lifetime > 0 /\ now - createdAt[s] > Lifetime}

Next ==
  \/ \E c \in Types, s \in Sessions \cup {NoSession} : Arrive(c, s)
  \/ \E s \in Sessions : CreateSession(s) \/ DeleteSession(s)
  \/ CreateFails \/ CleanupStaleTimestamps \/ Tick

Spec == Init /\ [][Next]_vars
-----------------------------------------------------------------------------
Entries == [at : Nat, gen : Nat]
TypeOK ==
  /\ now \in Nat /\ live \subseteq Sessions
  /\ charges \in [generation : Nat, bucket : [BucketKeys -> SUBSET Entries],
                  global : SUBSET Entries,
                  responses : [Sessions -> SUBSET Entries]]
  /\ createdAt \in [Sessions -> Nat \cup {Never}]
  /\ ran \in SUBSET [at : Nat, gen : Nat, key : BucketKeys, type : Types]

\* In no window of the sliding limit do more commands run than the server allows in all,
\* whatever is refunded, cleaned up, deleted or created meanwhile (canExecuteCommand).
GlobalLimit == Cardinality(Recent(ran)) <= MaxGlobal

RanSince(s) == {r \in Recent(ran) : r.key = <<"data", s>> /\ r.gen > born[s].gen}

\* While a session lives, other sessions that come and go, failed creations and cleanups do
\* not hand it a fresh window, for commands or for dialog responses.
SessionLimits ==
  \A s \in live :
    /\ Cardinality(RanSince(s)) <= MaxCommands
    /\ Cardinality({r \in RanSince(s) : r.type = "extension_ui_response"}) <= MaxResponses

\* A command that is refused costs nobody anything: the global window holds exactly what ran
\* (refundAdmissionCharges, refundCommand).
RefusalsAreFree == {e.gen : e \in Recent(charges.global)} = {r.gen : r \in Recent(ran)}

\* Sessions expire by their own age: an id that is used again does not inherit the creation
\* time of the deleted session, and activity does not make a session younger.
ExpireOnTime == Expired = {s \in live : Lifetime > 0 /\ now - born[s].at > Lifetime}

\* The governor keeps to its limits, charges for what ran, and expires sessions on time.
WithinLimits == TypeOK /\ GlobalLimit /\ SessionLimits /\ RefusalsAreFree /\ ExpireOnTime

\* Every bucket is limited in every window ("Implements sliding window rate limiting (both
\* per-session and global)"), those of the control plane too.
BucketLimit ==
  \A k \in BucketKeys : Cardinality({r \in Recent(ran) : r.key = k}) <= MaxCommands
=============================================================================
