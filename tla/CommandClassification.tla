------------------------ MODULE CommandClassification ------------------------
(***************************************************************************)
(* command-classification.ts: what each type of command is, and the bucket *)
(* it is rate limited in.  A type that is in none of the sets below is a   *)
(* mutation that cannot be aborted or timed out.                           *)
(***************************************************************************)

NamesAreReads ==                                  \* fault: a mutation among the reads
  {"get_state", "get_messages", "set_session_name", "list_sessions", "switch_session"}
ReadOnlyCommands ==
  {"get_state", "get_messages", "get_available_models", "get_commands", "get_skills", "get_tools",
   "list_session_files", "get_session_stats", "get_fork_messages", "get_tree",
   "get_last_assistant_text", "get_context_usage", "list_sessions", "switch_session",
   "get_metrics", "health_check", "get_startup_recovery", "get_command_history",
   "list_stored_sessions"}
SpecialSessionCommands == {"extension_ui_response"}
ControlPlaneCommands ==
  {"list_sessions", "create_session", "delete_session", "switch_session", "get_metrics",
   "health_check", "get_startup_recovery", "get_command_history", "list_stored_sessions",
   "load_session"}
TargetedControlPlaneCommands == {"delete_session", "switch_session"}
AbortableCommands ==
  {"prompt", "steer", "follow_up", "compact", "bash", "new_session", "switch_session_file", "fork"}
ExplicitShortTimeoutCommands ==
  {"abort", "abort_compaction", "abort_retry", "abort_bash", "extension_ui_response"}
ExplicitNoTimeoutCommands ==
  {"create_session", "delete_session", "load_session", "set_session_name", "export_html"}

AbortHandlers ==                                  \* DEFAULT_ABORT_HANDLERS of the engine
  {"prompt", "steer", "follow_up", "compact", "bash", "new_session", "switch_session_file", "fork"}

IsMutation(c) == c \notin ReadOnlyCommands \cup SpecialSessionCommands
Plane(c) == IF c \in ControlPlaneCommands THEN "control" ELSE "data"

TimeoutMode(c) ==
  CASE c \in ExplicitNoTimeoutCommands -> "none"
    [] c \in ExplicitShortTimeoutCommands \cup (ReadOnlyCommands \ ExplicitNoTimeoutCommands) -> "short"
    [] c \in AbortableCommands \ (ExplicitShortTimeoutCommands \cup ReadOnlyCommands) -> "long"
    [] OTHER -> "none"

\* The tables of the classification and of the engine agree: a command that is timed out after
\* long work has an abort hook, and what cannot be aborted is not cut off while it mutates.
ClassificationSound ==
  LET types == ReadOnlyCommands \cup SpecialSessionCommands \cup ControlPlaneCommands
               \cup AbortableCommands \cup ExplicitShortTimeoutCommands \cup ExplicitNoTimeoutCommands
  IN \A c \in types :
       /\ TimeoutMode(c) = "long" => c \in AbortHandlers
       /\ IsMutation(c) /\ TimeoutMode(c) # "none"
            => c \in AbortHandlers \cup ExplicitShortTimeoutCommands

\* getRateLimitTarget; nobody is the session of a command that names none.
RateLimitTarget(c, session, nobody) ==
  IF Plane(c) = "data" THEN <<"data", session>>
  ELSE IF c \in TargetedControlPlaneCommands THEN <<"control", session>>
  ELSE <<"control", nobody>>
=============================================================================
