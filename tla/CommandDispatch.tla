--------------------------- MODULE CommandDispatch ---------------------------
(***************************************************************************)
(* What happens to one command after another between validateCommand and   *)
(* the version of its response: the tables of validation.ts,               *)
(* server-command-handlers.ts and command-router.ts, which nothing but     *)
(* convention keeps in step, with those of command-classification.ts.      *)
(*                                                                         *)
(* A field has a shape: absent, wrong (not the type asked for), or a       *)
(* string (number, list) that is empty, blank, too long, bad in the way    *)
(* the field can be bad (a control character, a reserved prefix, a member  *)
(* out of range) or good.  There is one session; its id is the good one.   *)
(* A session is the number of changes that were completed in it.           *)
(***************************************************************************)
EXTENDS Integers, CommandClassification

CONSTANTS UnknownTypes,   \* types clients send that are in no table
          MaxChanges      \* bound: completed changes

ASSUME DispatchAssumption == MaxChanges \in Nat

VARIABLES request,  \* the command at hand
          stage,    \* idle, received, admitted, running
          answer,   \* why the last command was answered the way it was
          alive, version, content,   \* of the session; version is None without a record
          told      \* history: <<version, content>> at every answer of this session's life

session == <<alive, version, content>>
vars == <<request, stage, answer, session, told>>

Shapes == {"absent", "wrong", "empty", "blank", "long", "bad", "good"}
Strings == Shapes \ {"absent", "wrong"}
NonEmpty == Strings \ {"empty"}
NonBlank == NonEmpty \ {"blank"}
Optional(shapes) == {"absent"} \cup shapes
None == -1
-----------------------------------------------------------------------------
\* validation.ts.
SESSION_COMMANDS ==
  {"extension_ui_response", "get_available_models", "get_commands", "get_skills", "get_tools",
   "list_session_files", "prompt", "steer", "follow_up", "abort", "get_state", "get_messages",
   "set_model", "cycle_model", "set_thinking_level", "cycle_thinking_level", "compact",
   "abort_compaction", "set_auto_compaction", "set_auto_retry", "abort_retry", "bash",
   "abort_bash", "get_session_stats", "set_session_name", "export_html", "new_session",
   "switch_session_file", "fork", "get_fork_messages", "get_tree", "navigate_tree",
   "get_last_assistant_text", "get_context_usage"}
SERVER_COMMANDS ==
  {"list_sessions", "create_session", "delete_session", "switch_session", "get_metrics",
   "health_check", "get_startup_recovery", "get_command_history", "list_stored_sessions",
   "load_session"}

Types == SESSION_COMMANDS \cup SERVER_COMMANDS \cup UnknownTypes   \* that clients send

\* The shapes the envelope may have, whatever the type.
EnvelopeRules ==
  [id |-> {"absent", "good"}, idempotencyKey |-> Optional({"bad", "good"}),
   dependsOn |-> {"absent", "empty", "good"}, ifSessionVersion |-> {"absent", "good"}]

EnvelopeErrors(r) ==
  {f \in DOMAIN EnvelopeRules : r.envelope[f] \notin EnvelopeRules[f]}
  \cup {f \in {"id"} : r.envelope.dependsOn \in {"good", "bad", "blank", "long"}
                       /\ r.envelope.id \in {"absent", "wrong"}}
  \cup {f \in {"ifSessionVersion"} : r.envelope.ifSessionVersion # "absent"
                                     /\ r.type \notin SESSION_COMMANDS \cup {"delete_session"}}

SessionIdRule(c) ==
  CASE c \in SESSION_COMMANDS \cup {"delete_session", "switch_session"} -> NonBlank
    [] c \in {"create_session", "load_session"} -> Optional(NonBlank)
    [] OTHER -> Shapes                                             \* nobody looks

\* The fields of its own that the validation of a type looks at.
MessageRule == [message |-> NonEmpty \ {"long"}]
HistoryRule ==
  [sessionIdFilter |-> Optional(NonBlank), commandId |-> Optional(NonBlank \ {"long"}),
   fromTimestamp |-> Optional({"bad", "good"}), toTimestamp |-> Optional({"good"}),
   limit |-> Optional({"good"})]
PathOptional == [sessionPath |-> Optional({"blank", "good"})]     \* fault: checked only if provided
PathRule == [sessionPath |-> {"blank", "good"}]
UIResponseRule == [requestId |-> {"good"}, response |-> {"good"}]
TreeRule == [targetId |-> NonEmpty, options |-> Optional({"good"})]

FieldRules(c) ==
  CASE c \in {"prompt", "steer", "follow_up"} -> MessageRule
    [] c = "get_command_history" -> HistoryRule
    [] c \in {"switch_session_file", "load_session"} -> PathRule
    [] c = "extension_ui_response" -> UIResponseRule
    [] c = "navigate_tree" -> TreeRule
    [] c = "create_session" -> [cwd |-> Optional(Strings)]
    [] c = "set_model" -> [provider |-> NonEmpty, modelId |-> NonEmpty]
    [] c = "set_thinking_level" -> [level |-> {"good"}]
    [] c = "bash" -> [command |-> NonEmpty \ {"long"}]
    [] c = "compact" -> [customInstructions |-> Optional(Strings)]
    [] c = "fork" -> [entryId |-> NonEmpty]
    [] c = "set_session_name" -> [name |-> {"blank", "good"}]
    [] c = "export_html" -> [outputPath |-> Optional(Strings)]
    [] c \in {"set_auto_compaction", "set_auto_retry"} -> [enabled |-> {"good"}]
    [] c = "cycle_model" -> [direction |-> Optional({"good"})]
    [] OTHER -> <<>>

\* A query that begins after it ends is the one rule about two fields.
BodyErrors(r) ==
  {f \in DOMAIN FieldRules(r.type) : r.body[f] \notin FieldRules(r.type)[f]}
  \cup {f \in {"fromTimestamp"} : r.type = "get_command_history"
                                  /\ r.body.fromTimestamp = "bad" /\ r.body.toTimestamp = "good"}

ValidationErrors(r) ==
  {f \in {"type"} : r.type \notin SESSION_COMMANDS \cup SERVER_COMMANDS}
  \cup EnvelopeErrors(r) \cup BodyErrors(r)
  \cup {f \in {"sessionId"} : r.sessionId \notin SessionIdRule(r.type)}
-----------------------------------------------------------------------------
\* server-command-handlers.ts and command-router.ts: who handles what, and with what effect on
\* the session.
RegistryHandlers == {"create_session", "delete_session", "load_session"}
ServerReads ==
  {"list_sessions", "switch_session", "list_stored_sessions", "get_metrics", "health_check",
   "get_startup_recovery", "get_command_history"}
ServerHandlers == RegistryHandlers \cup ServerReads \cup {"extension_ui_response"}

Talks == {"prompt", "steer", "follow_up", "abort"}
Settings == {"set_model", "cycle_model", "set_thinking_level", "cycle_thinking_level"}
Compactions ==
  {"compact", "abort_compaction", "set_auto_compaction", "set_auto_retry", "abort_retry"}
Shells == {"bash", "abort_bash"}
Branches == {"set_session_name", "new_session", "switch_session_file", "fork", "navigate_tree"}
SessionReads ==
  {"get_state", "get_messages", "get_session_stats", "export_html", "get_fork_messages",
   "get_tree", "get_last_assistant_text", "get_context_usage"}
Discovery == {"get_available_models", "get_commands", "get_skills", "get_tools", "list_session_files"}

Changing == Talks \cup Settings \cup Compactions \cup Shells \cup Branches
SessionCommandHandlers == Changing \cup SessionReads \cup Discovery

LLM_COMMANDS == {"prompt", "steer", "follow_up", "compact"}

\* The fields each handler takes for granted.
Needs(c) ==
  CASE c \in {"prompt", "steer", "follow_up"} -> {"message"}
    [] c = "set_model" -> {"provider", "modelId"}
    [] c = "set_thinking_level" -> {"level"}
    [] c \in {"set_auto_compaction", "set_auto_retry"} -> {"enabled"}
    [] c = "bash" -> {"command"}
    [] c = "set_session_name" -> {"name"}
    [] c \in {"switch_session_file", "load_session"} -> {"sessionPath"}
    [] c = "fork" -> {"entryId"}
    [] c = "navigate_tree" -> {"targetId"}
    [] c = "extension_ui_response" -> {"requestId", "response"}
    [] OTHER -> {}
-----------------------------------------------------------------------------
\* The commands a client may send: one with at most two fields out of the ordinary, or with one
\* field of the envelope.
Plain == [id |-> "good", idempotencyKey |-> "absent", dependsOn |-> "absent",
          ifSessionVersion |-> "absent"]
Envelopes ==
  {[Plain EXCEPT ![f] = s] : f \in DOMAIN Plain, s \in Shapes}
  \cup {[Plain EXCEPT !.id = "absent", !.dependsOn = s] : s \in {"empty", "good"}}

OrdinaryBody(c) ==
  [f \in DOMAIN FieldRules(c) |-> IF f \in Needs(c) THEN "good" ELSE "absent"]
Bodies(c) ==
  {OrdinaryBody(c)}
  \cup {[OrdinaryBody(c) EXCEPT ![f] = s, ![g] = t] :
          f \in DOMAIN FieldRules(c), g \in DOMAIN FieldRules(c), s \in Shapes, t \in Shapes}

\* Any shape for the types that declare a sessionId; of the others, nobody but the version store
\* looks at it, and below they carry a good one or none.
SessionIds(c) ==
  IF c \in SESSION_COMMANDS \cup RegistryHandlers \cup {"switch_session"} THEN Shapes ELSE {"absent"}

Of(c, sid, body, envelope) == [type |-> c, sessionId |-> sid, body |-> body, envelope |-> envelope]
Requests ==
  UNION {{Of(c, sid, OrdinaryBody(c), Plain) : sid \in SessionIds(c)} : c \in Types}
  \cup UNION {{Of(c, sid, b, Plain) : sid \in SessionIds(c) \cap {"absent", "good"}, b \in Bodies(c)}
              : c \in Types}
  \cup UNION {{Of(c, "good", OrdinaryBody(c), e) : e \in Envelopes} : c \in Types}

NoRequest == Of("none", "absent", <<>>, Plain)
-----------------------------------------------------------------------------
Init ==
  /\ request = NoRequest /\ stage = "idle" /\ answer = "none"
  /\ alive = TRUE /\ version = 0 /\ content = 0 /\ told = {<<0, 0>>}

Receive(r) ==
  /\ stage = "idle"
  /\ request' = r /\ stage' = "received"
  /\ UNCHANGED <<answer, session, told>>

Refused(why) ==
  /\ request' = NoRequest /\ stage' = "idle" /\ answer' = why
  /\ UNCHANGED <<session, told>>

Validate ==
  /\ stage = "received"
  /\ \/ ValidationErrors(request) # {} /\ Refused("invalid")
     \/ /\ ValidationErrors(request) = {}
        /\ stage' = "admitted" /\ UNCHANGED <<request, answer, session, told>>

\* A version precondition that fails, a command that is cancelled before it starts.
NotStarted == stage = "admitted" /\ Refused("not_started")

\* executeCommandInternal: the server's handlers first, then the session and its breakers.
IsServer == request.type \in ServerHandlers
HasSession == alive /\ request.sessionId = "good"

NoSession == stage = "admitted" /\ ~IsServer /\ ~HasSession /\ Refused("not_found")
BreakerOpen ==
  /\ stage = "admitted" /\ ~IsServer /\ HasSession /\ request.type \in LLM_COMMANDS \cup {"bash"}
  /\ Refused("breaker_open")
Unrouted ==
  /\ stage = "admitted" /\ ~IsServer /\ HasSession /\ request.type \notin SessionCommandHandlers
  /\ Refused("unknown_type")
Enter ==
  /\ stage = "admitted"
  /\ IsServer \/ (HasSession /\ request.type \in SessionCommandHandlers)
  /\ stage' = "running"
  /\ UNCHANGED <<request, answer, session, told>>

\* The handler throws, or answers that it could not: the version stays.
Fails == stage = "running" /\ Refused("failed")

\* A create or load under the id of a live session, and a delete whose clean-up fails, take the
\* session out of the runtime maps before they throw.
FailsWithSession ==
  /\ stage = "running" /\ request.type \in RegistryHandlers /\ HasSession
  /\ request' = NoRequest /\ stage' = "idle" /\ answer' = "failed"
  /\ alive' = FALSE /\ version' = None /\ content' = 0 /\ told' = {}

\* applyVersion: the version after a command that succeeded.  Whatever the type, a sessionId
\* without a record gets one.
Current == IF version = None THEN 0 ELSE version
NextVersion(r) ==
  CASE r.type \in {"create_session", "load_session"} -> IF r.sessionId = "good" THEN 0 ELSE version
    [] r.type = "delete_session" -> None
    [] r.type \notin RegistryHandlers ->
         IF r.sessionId = "good" THEN Current + (IF IsMutation(r.type) THEN 1 ELSE 0) ELSE version

Succeed ==
  /\ request' = NoRequest /\ stage' = "idle" /\ answer' = "ok"
  /\ version' = NextVersion(request)

\* A new session under the id, of the client's choice or a generated one, or the end of the old.
RegistryEnds ==
  /\ stage = "running" /\ request.type \in RegistryHandlers
  /\ \/ request.type = "delete_session" /\ HasSession /\ alive' = FALSE
     \/ request.type # "delete_session" /\ request.sessionId = "good" /\ ~alive /\ alive' = TRUE
     \/ request.type # "delete_session" /\ request.sessionId = "absent" /\ UNCHANGED alive
  /\ Succeed
  /\ content' = IF alive' # alive THEN 0 ELSE content
  /\ told' = IF alive' = alive THEN told ELSE IF alive' THEN {<<0, 0>>} ELSE {}

ReadEnds ==
  /\ stage = "running" /\ request.type \in ServerHandlers \ RegistryHandlers
  /\ request.type \in {"switch_session", "extension_ui_response"} => HasSession
  /\ Succeed /\ UNCHANGED <<alive, content>>
  /\ told' = IF HasSession THEN told \cup {<<version', content>>} ELSE told

\* An SDK call that was asked to change the session did, or had nothing to do, or was cancelled.
SessionEnds ==
  /\ stage = "running" /\ ~IsServer /\ version <= MaxChanges
  /\ Succeed /\ UNCHANGED alive
  /\ \/ request.type \in Changing /\ content' = content + 1
     \/ UNCHANGED content
  /\ told' = told \cup {<<version', content'>>}

Next ==
  \/ \E r \in Requests : Receive(r)
  \/ Validate \/ NotStarted
  \/ NoSession \/ BreakerOpen \/ Unrouted \/ Enter
  \/ Fails \/ FailsWithSession \/ RegistryEnds \/ ReadEnds \/ SessionEnds

Spec == Init /\ [][Next]_vars
-----------------------------------------------------------------------------
\* What validation admits has a handler: "Unknown command type" is said by validateCommand or
\* by nobody, so a command never takes a lane, a journal entry and a rate charge to hear it.
AdmittedIsRouted == answer # "unknown_type"

\* A handler that runs has every field it takes for granted, of the type it takes it for.
HandlersHaveTheirFields ==
  stage = "running" =>
    /\ \A f \in Needs(request.type) : request.body[f] \notin {"absent", "wrong", "empty"}
    /\ request.type \in SESSION_COMMANDS \cup {"delete_session", "switch_session"}
         => request.sessionId \in NonBlank

\* Dispatch is total: validation and the two handler maps agree on types and on fields.
DispatchTotal == AdmittedIsRouted /\ HandlersHaveTheirFields

\* No two states under one version: a client that is given the same version twice, by whatever
\* commands, during the life of a session has been told about the same changes, which is what
\* ifSessionVersion rests on.
SameVersionSameSession ==
  /\ \A p, q \in told : p[1] = q[1] => p[2] = q[2]
  /\ alive /\ stage = "idle" => \A p \in told : p[1] = version => p[2] = content

\* A session that lives has a version, never below one it was told under; and when it is gone, no
\* version of its life is left to its successor or to a precondition, only, after a read that
\* still carries its id, the one a new session begins with (applyVersion).
VersionsOfThisLife ==
  IF alive THEN version # None /\ \A p \in told : p[1] <= version ELSE version \in {None, 0}

\* Versions tell what a client has seen: of the session that lives, and of its state.
VersionsTell == SameVersionSameSession /\ VersionsOfThisLife
=============================================================================
