---------------------------- MODULE MCDemoServer ----------------------------
(* Handlers and messages for the runs of DemoServer.                        *)
EXTENDS DemoServer

CONSTANTS custom

\* The added handler shares the health handler's priority and takes some of
\* its messages; it also takes the one that makes the health handler raise.
MCPriority == [h \in Handler |-> CASE h = Ping -> 5 [] h = Echo -> 1000 [] OTHER -> 10]
MCServes == [h \in Custom |-> {"health", "scalar"}]
=============================================================================
