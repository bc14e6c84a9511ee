------------------------------- MODULE MCPods --------------------------------
(***************************************************************************)
(* Pods for TLC: one that runs the gateway, the wallet or the notification *)
(* service, and gets SIGTERM at any moment.                                *)
(***************************************************************************)
EXTENDS PodShutdown, NotificationPod

Init == PodInit /\ GoInit /\ NodeInit

Next ==
  \/ GoNext /\ UNCHANGED nodeVars
  \/ NodeNext /\ UNCHANGED goVars

FairSpec == Init /\ [][Next]_<<pod, goVars, nodeVars>> /\ NodeFairness
==============================================================================
