--------------------------- MODULE DependencyGraph ---------------------------
(* The search for a cycle that initiatives and milestones make before they add
   a dependency. Both walk breadth first along one direction of the edges; an
   edge <<a, b>> points the way the walk goes. *)
CONSTANT Nodes

Edges == Nodes \X Nodes

\* Where the walk that starts at n gets, n included.
Walk(edges, n) ==
  {m \in Nodes :
     \A S \in SUBSET Nodes :
        n \in S /\ (\A e \in edges : e[1] \in S => e[2] \in S) => m \in S}

\* No walk returns: every set of nodes has one whose edges all leave the set.
Acyclic(edges) ==
  \A S \in (SUBSET Nodes) \ {{}} : \E n \in S : \A e \in edges : e[1] = n => e[2] \notin S
===============================================================================
