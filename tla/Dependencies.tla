---------------------------- MODULE Dependencies ----------------------------
(* Dependencies between initiatives (services/executive_control.py). A
   dependency is found again by its two ends and its type; it can be resolved
   and taken up again. Handlers run to completion one at a time. Who may call
   them is left out: a manager may, and an owner may change the status. *)
EXTENDS DependencyGraph, FiniteSets

VARIABLES
  dependencies,  \* rows of initiative_dependencies
  listed         \* initiatives that are not archived

dependencyVars == <<dependencies, listed>>

Types == {"blocks", "informs"}
Status == {"active", "resolved"}   \* proposed, at_risk and blocking count as active
Closed == {"resolved"}
DependencyRows == [up : Nodes, down : Nodes, type : Types, status : Status]

Pairs(rows) == {<<d.up, d.down>> : d \in rows}

DependenciesInit == dependencies = {} /\ listed = Nodes

\* _would_create_cycle: over every row, closed ones included.
BadWouldCreateCycle(up, down) ==
  up \in Walk(Pairs({d \in dependencies : d.status \notin Closed}), down)
WouldCreateCycle(up, down) == up \in Walk(Pairs(dependencies), down)

CreateDependency(up, down, type, status) ==
  /\ up # down
  /\ {up, down} \subseteq listed
  /\ ~WouldCreateCycle(up, down)
  /\ ~ \E d \in dependencies : d.up = up /\ d.down = down /\ d.type = type
  /\ dependencies' = dependencies
        \cup {[up |-> up, down |-> down, type |-> type, status |-> status]}
  /\ UNCHANGED listed

\* update_dependency: neither end is part of InitiativeDependencyUpdate. The
\* type is, and may not become that of another row between the same ends.
UpdateDependency(d, type, status) ==
  /\ ~ \E other \in dependencies \ {d} :
          other.up = d.up /\ other.down = d.down /\ other.type = type
  /\ dependencies' = (dependencies \ {d}) \cup {[d EXCEPT !.type = type, !.status = status]}
  /\ UNCHANGED listed

DeleteDependency(d) == dependencies' = dependencies \ {d} /\ UNCHANGED listed

\* Archiving hides an initiative from the check that it exists, and keeps its rows.
ArchiveInitiative(i) == listed' = listed \ {i} /\ UNCHANGED dependencies

RestoreInitiative(i) == listed' = listed \cup {i} /\ UNCHANGED dependencies

\* ON DELETE CASCADE. The name is free then for an initiative created later.
DeleteInitiative(i) ==
  /\ dependencies' = {d \in dependencies : i \notin {d.up, d.down}}
  /\ listed' = listed \ {i}

DependenciesNext ==
  \/ \E up, down \in Nodes, type \in Types, status \in Status :
        CreateDependency(up, down, type, status)
  \/ \E d \in dependencies, type \in Types, status \in Status : UpdateDependency(d, type, status)
  \/ \E d \in dependencies : DeleteDependency(d)
  \/ \E i \in listed : ArchiveInitiative(i)
  \/ \E i \in Nodes : DeleteInitiative(i)
  \/ \E i \in Nodes \ listed : RestoreInitiative(i)

DependenciesSpec == DependenciesInit /\ [][DependenciesNext]_dependencyVars

-------------------------------------------------------------------------------
DependenciesTypeOK == dependencies \subseteq DependencyRows /\ listed \subseteq Nodes

\* No initiative ever waits for itself, whatever is resolved and taken up
\* again in between and whatever is archived (executive_control.py:1299).
NoInitiativeWaitsForItself == Acyclic(Pairs(dependencies))
===============================================================================
