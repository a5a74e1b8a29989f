------------------------- MODULE MCCommandPipeline -------------------------
(* Command sets for model checking CommandPipeline. *)
EXTENDS CommandPipeline

CONSTANTS i1, i2, i3, k1

Cmd(id, key, fp, lane, deps, policy) ==
  [id |-> id, key |-> key, fp |-> fp, lane |-> lane, deps |-> deps, policy |-> policy]

\* Replay: one id under two fingerprints, a key shared by two ids, a keyed anonymous
\* command in another scope.
ReplayCommands ==
  { Cmd(i1, NoKey, "fpA", "s1", <<>>, "long"),
    Cmd(i1, NoKey, "fpB", "s1", <<>>, "long"),
    Cmd(i1, k1, "fpA", "s1", <<>>, "long"),
    Cmd(i2, k1, "fpA", "s1", <<>>, "long"),
    Cmd(NoId, k1, "fpA", "server", <<>>, "none") }

\* A keyed command, its retry without the key, and a conflicting use of the key.
RetryCommands ==
  { Cmd(i1, k1, "fpA", "s1", <<>>, "long"),
    Cmd(i1, NoKey, "fpA", "s1", <<>>, "none"),
    Cmd(i2, k1, "fpB", "s1", <<>>, "long") }

\* Lanes: long, short and uncancellable commands of one session.
LaneCommands ==
  { Cmd(NoId, NoKey, "fpA", "s1", <<>>, "long"),
    Cmd(NoId, NoKey, "fpA", "s1", <<>>, "short"),
    Cmd(NoId, NoKey, "fpA", "s1", <<>>, "none") }

\* Dependencies: a cycle across two lanes, one inside a lane, on itself, on a sibling.
DependencyCommands ==
  { Cmd(i1, NoKey, "fpA", "s1", <<i2>>, "none"),
    Cmd(i2, NoKey, "fpA", "server", <<i1>>, "none"),
    Cmd(i2, NoKey, "fpB", "server", <<>>, "long"),
    Cmd(i3, NoKey, "fpA", "s1", <<i1, i2>>, "long"),
    Cmd(i3, NoKey, "fpB", "s1", <<i3>>, "short") }
=============================================================================
