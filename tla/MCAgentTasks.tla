---------------------------- MODULE MCAgentTasks ----------------------------
(* Two tasks in one window, and two tasks on two pages of the web server.   *)
EXTENDS AgentTasks, TLC

CONSTANTS t1, t2, c1, c2

TwoTasks == {t1, t2}
TwoClients == {c1, c2}
OneOrTwoPages == {[t \in TwoTasks |-> c1], t1 :> c1 @@ t2 :> c2}
=============================================================================
