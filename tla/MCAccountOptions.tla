-------------------------- MODULE MCAccountOptions --------------------------
(* Two clusters, one with two components; a pod in each component, a pod  *)
(* with the cluster label but no component label (a job's pod), and one   *)
(* pod KubeBlocks does not manage; every command line over them.          *)
EXTENDS AccountOptions, TLC

MCClusters == {"c1", "c2"}
MCPods     == {"p1", "p2", "p3", "p4", "p5"}
MCCompsOf  == ("c1" :> << "mysql", "proxy" >>) @@ ("c2" :> << "mysql" >>)
Lbl(c, k)  == [cluster |-> c, comp |-> k]
MCLabelsOf == ("p1" :> Lbl("c1", "mysql")) @@ ("p2" :> Lbl("c1", "proxy"))
              @@ ("p3" :> Lbl("c2", "mysql")) @@ ("p4" :> Lbl("", ""))
              @@ ("p5" :> Lbl("c1", ""))

MCFlagChoices ==
  [args : {<< >>, << "c1" >>, << "c2" >>, << "c3" >>, << "c1", "c2" >>},
   component : {"", "mysql", "proxy"},
   instance : {"", "p1", "p2", "p3", "p4", "p5"}]
=============================================================================
