----------------------------- MODULE MCPortfolio -----------------------------
(* Components that share no variable, in one instance: a behaviour is one of the
   reports, of the formulas, of the shared costs, of the dependencies of
   initiatives or of milestones, of the people, of the Microsoft connection or of
   the migration of addresses.
   The people come in two parts, links without reconciliation and reconciliation
   without links. *)
EXTENDS Figures, Formulas, SharedCosts, Dependencies, Milestones, GraphConnection, Accounts
CONSTANTS i1, i2, s1, n1, n2, n3, e1, admin, acc1, acc2, adm1, p1, p2

Symmetry == Permutations(Accounts) \cup Permutations(Procs)

MCMonths == {<<1, 1>>, <<1, 4>>, <<2, 1>>}
\* A weight may be negative.
MCDrivers == {-1, 3}
K(c, b, a) == [class |-> c, isBenefit |-> b, active |-> a]
MCKinds == {K("revenue", TRUE, TRUE), K("margin", TRUE, TRUE), K("savings", TRUE, TRUE),
            K("cogs", FALSE, TRUE), K("margin", FALSE, TRUE), K("savings", TRUE, FALSE)}

VARIABLE part
mcVars == <<part, figureVars, definition, sharedCostVars, dependencyVars, milestoneVars,
            identityVars, vars, migrationVars>>

Parts == {"figures", "formulas", "costs", "dependencies", "milestones", "links", "claims",
          "connection", "addresses"}

MCInit == /\ part \in Parts
          /\ FiguresInit /\ FormulasInit /\ SharedCostsInit
          /\ DependenciesInit /\ MilestonesInit /\ IdentityInit /\ Init
          /\ MigrationInit
          /\ part # "figures" => \A m \in Measures : measure[m] = K("revenue", TRUE, TRUE)
          /\ part # "costs" => pool = CHOOSE p \in Pools : TRUE
          /\ part \notin {"links", "claims"} => user = <<>>

IdentityPart ==
  /\ IdentityNext
  /\ part = "links" => /\ run' = run /\ AdminEmail \notin DOMAIN account'
                       /\ \A e \in DOMAIN user' : user'[e].role = "viewer"
  /\ part = "claims" => invites' = invites

MCNext ==
  /\ UNCHANGED part
  /\ IF part = "figures" THEN FiguresNext ELSE UNCHANGED figureVars
  /\ IF part = "formulas" THEN FormulasNext ELSE UNCHANGED definition
  /\ IF part = "costs" THEN SharedCostsNext ELSE UNCHANGED sharedCostVars
  /\ IF part = "dependencies" THEN DependenciesNext ELSE UNCHANGED dependencyVars
  /\ IF part = "milestones" THEN MilestonesNext ELSE UNCHANGED milestoneVars
  /\ IF part \in {"links", "claims"} THEN IdentityPart ELSE UNCHANGED identityVars
  /\ IF part = "connection" THEN Next ELSE UNCHANGED vars
  /\ IF part = "addresses" THEN MigrationNext ELSE UNCHANGED migrationVars

MCSpec == MCInit /\ [][MCNext]_mcVars

\* The rows of every component have their types.
PortfolioTypesOK ==
  /\ FiguresTypeOK /\ FormulasTypeOK /\ SharedCostsTypeOK /\ DependenciesTypeOK /\ MilestonesTypeOK
  /\ IdentityTypeOK /\ TypeOK /\ MigrationTypeOK
===============================================================================
