----------------------------- MODULE MCPostApi ------------------------------
(* Requests and workers on small instances.  A behaviour has requests of one *)
(* of three kinds ("area"): the tools of an assistant beside the edits of a  *)
(* web client, two web clients that move a post, or one that does while a    *)
(* worker may die.                                                           *)
EXTENDS PostApi

VARIABLE area

apiRunVars == <<area, allVars>>

Moves == {"reschedule", "delay", "edit"}
OpsOf == [tools |-> {"unschedule", "edit", "delete"} \cup McpOps, moves |-> Moves, restarts |-> Moves]

ApiRunInit == area \in DOMAIN OpsOf /\ ApiInit

ApiRunNext ==
  /\ UNCHANGED area /\ ApiNext
  /\ \A c \in Clients : req'[c].op \in OpsOf[area] \cup {"none"}
  /\ area = "restarts" => requests' <= 1
  /\ area # "restarts" => faults' = 0
  /\ area # "tools" => gen' = gen

ApiRunSafety == ApiRunInit /\ [][ApiRunNext]_apiRunVars

ApiRunSpec ==
  /\ ApiRunSafety
  /\ WF_allVars(PipeTick /\ UNCHANGED apiVars)
  /\ \A w \in Workers : WF_allVars(PipeWork(w) /\ UNCHANGED apiVars)

\* The tools of an assistant never leave two jobs for a post, or a job for a
\* draft; two web clients that both read a draft can (posts.go:1728).
ToolsLeaveOneJob == area = "tools" => OneLiveJob /\ DraftsAreNotQueued
=============================================================================
