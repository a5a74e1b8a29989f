--------------------------- MODULE MCConnections ---------------------------
(***************************************************************************)
(* The waits of the server, each on its own: focus says which a behaviour  *)
(* is about.                                                               *)
(*                                                                         *)
(*   sockets   two connections compete for one slot; nothing executes, no  *)
(*             send throws, and stdio is closed                            *)
(*   stdio     one connection, whose sends may throw, beside the stdio     *)
(*             transport; nothing executes                                 *)
(*   drain     executions of a connection and of stdio, two at a time,     *)
(*             with healthy peers                                          *)
(*   dialogs   three dialogs of two sessions, two at a time                *)
(*   startup   start() and two commands, one of them a query, wait for the *)
(*             journal                                                     *)
(*   creations three sessions, two of the variables of npm                 *)
(***************************************************************************)
EXTENDS ServerWaits

MCSession == <<"a", "a", "b">>
MCMethod == <<"select", "editor", "confirm">>

VARIABLE focus
mcvars == <<focus, vars, dialogVars, startupVars, creationVars>>
-----------------------------------------------------------------------------
MCInit ==
  /\ focus \in {"sockets", "stdio", "drain", "dialogs", "startup", "creations"}
  /\ Init /\ (focus \notin {"stdio", "drain"} => ~stdio.authenticated)
  /\ UI!Init
  /\ Startup!Init /\ (focus # "startup" => state = "disabled")
  /\ Npm!Init /\ (focus # "creations" => original = {})

One(c) == \A d \in Conns \ {c} : conn'[d] = conn[d]
Idle == inFlight' = {}
Unthrown == \A c \in Conns : ~conn'[c].threw
Healthy == silent' = {} /\ stdio'.stdout = "up" /\ Unthrown /\ \A c \in Conns :
             conn'[c].buffer = "low" /\ ~conn'[c].waitingForPong

\* In "sockets" only stop() touches stdio.
InScope ==
  \/ focus = "sockets" /\ (stdio' # stdio => stopping' # stopping) /\ Idle /\ Unthrown
  \/ focus = "stdio" /\ One(1) /\ Idle
  \/ focus = "drain" /\ One(1) /\ Healthy

MCNext ==
  /\ focus' = focus
  /\ \/ Next /\ InScope /\ UNCHANGED <<dialogVars, startupVars, creationVars>>
     \/ focus = "dialogs" /\ UI!Next /\ UNCHANGED <<vars, startupVars, creationVars>>
     \/ focus = "startup" /\ Startup!Next /\ UNCHANGED <<vars, dialogVars, creationVars>>
     \/ focus = "creations" /\ Npm!Next /\ UNCHANGED <<vars, dialogVars, startupVars>>

\* Out of focus nothing that is fair is ever enabled.
MCSpec ==
  /\ MCInit /\ [][MCNext]_mcvars
  /\ Fairness /\ UI!Fairness /\ Startup!Fairness /\ Npm!Fairness
=============================================================================
