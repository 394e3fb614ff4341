----------------------------- MODULE Milestones -----------------------------
(* Milestones, what they wait for and the blast radius stored with them
   (services/milestone.py, domain/pressure.py): how many milestones wait, at
   once or further down. It is worked out afresh for the milestone a request
   names and, for a dependency, for the one it waits for; the rest keep what
   they have. The other parts of a score depend on the milestone itself, its
   siblings and today; they and what a milestone says of itself are left out.
   A call to the database may fail between any two steps, and the request ends
   there. *)
EXTENDS DependencyGraph, Integers, FiniteSets, Sequences, SequencesExt

ASSUME NodesFinite == IsFiniteSet(Nodes)

VARIABLES
  milestones,    \* ids of the rows
  needs,         \* milestone_dependencies: <<downstream, upstream>>
  stored,        \* pressure_blast_radius, in tenths, by id
  cutOff         \* milestones a request was cut off before it scored them

milestoneVars == <<milestones, needs, stored, cutOff>>

Lower(a, b) == IF a < b THEN a ELSE b

Downstream(m, edges) == {e[1] : e \in {x \in edges : x[2] = m}}

\* get_transitive_downstream_count: reached, but not in one step.
Indirect(m, edges) == Walk({<<e[2], e[1]>> : e \in edges}, m) \ (Downstream(m, edges) \cup {m})

BlastRadius(m, edges) ==
  Lower(10 * Cardinality(Downstream(m, edges)) + 4 * Cardinality(Indirect(m, edges)), 35)

-------------------------------------------------------------------------------
\* _recalc_pressure of one milestone after another, those deleted left out, up
\* to where the request is cut off.
Save(rows, edges, owed) ==
  \E n \in 0 .. Len(owed) :
    LET scored == ToSet(SubSeq(owed, 1, n))
    IN /\ milestones' = rows
       /\ needs' = edges
       /\ stored' = [m \in rows |-> IF m \in scored THEN BlastRadius(m, edges)
                                   ELSE IF m \in milestones THEN stored[m] ELSE 0]
       /\ cutOff' = ((cutOff \cup ToSet(owed)) \ scored) \cap rows

MilestonesInit == milestones = {} /\ needs = {} /\ stored = <<>> /\ cutOff = {}

CreateMilestone(m) == m \notin milestones /\ Save(milestones \cup {m}, needs, <<m>>)

\* update_milestone, add_, toggle_ and delete_checklist_item.
ChangeMilestone(m) == Save(milestones, needs, <<m>>)

\* delete_milestone: ON DELETE CASCADE takes the dependencies, and nothing is scored.
DeleteMilestone(m) ==
  Save(milestones \ {m}, {e \in needs : m \notin {e[1], e[2]}}, <<>>)

\* would_create_cycle walks up from upstream.
BadWouldLoop(m, upstream) == upstream = m \/ <<upstream, m>> \in needs
WouldLoop(m, upstream) == m \in Walk(needs, upstream)

BadOwedByDependency(m, upstream) == <<m>>
OwedByDependency(m, upstream) == <<m, upstream>>

AddDependency(m, upstream) ==
  /\ ~WouldLoop(m, upstream)
  /\ <<m, upstream>> \notin needs
  /\ Save(milestones, needs \cup {<<m, upstream>>}, OwedByDependency(m, upstream))

\* delete_dependency: any dependency goes, but only one of the milestone named
\* has its upstream scored.
RemoveDependency(m, e) ==
  Save(milestones, needs \ {e}, IF e[1] = m THEN OwedByDependency(m, e[2]) ELSE <<m>>)

MilestonesNext ==
  \/ \E m \in Nodes : CreateMilestone(m)
  \/ \E m \in milestones :
       \/ ChangeMilestone(m)
       \/ DeleteMilestone(m)
       \/ \E upstream \in milestones : AddDependency(m, upstream)
       \/ \E e \in needs : RemoveDependency(m, e)

MilestonesSpec == MilestonesInit /\ [][MilestonesNext]_milestoneVars

-------------------------------------------------------------------------------
MilestonesTypeOK ==
  /\ milestones \subseteq Nodes
  /\ needs \subseteq (milestones \X milestones)
  /\ stored \in [milestones -> 0 .. 35]
  /\ cutOff \subseteq milestones

\* No milestone waits for itself, across initiatives too (repositories/milestone.py:253).
NoMilestoneWaitsForItself == Acyclic(needs)

\* A stored blast radius counts at least the milestones that wait for this one
\* directly, unless a request was cut off (services/milestone.py:212).
DirectDependentsCount ==
  \A m \in (milestones \ cutOff) :
     stored[m] >= Lower(10 * Cardinality(Downstream(m, needs)), 35)

\* domain_packs/transmuter/pressure_formula.yaml:389 has the score follow every
\* change of a dependency. It does not: of those that wait further down, and
\* of those a deletion takes, it hears nothing.
BlastRadiusIsCurrent ==
  \A m \in (milestones \ cutOff) : stored[m] = BlastRadius(m, needs)
===============================================================================
