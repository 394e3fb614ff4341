------------------------------ MODULE PlanLedger ------------------------------
(***************************************************************************)
(* What the bankable-plan table promises its readers (benefit tracking,    *)
(* waterline, dashboards, board packs): for every initiative a history of  *)
(* plan versions that only grows, one version at a time, that starts with  *)
(* a gate approval, and in which repeating the approval that produced the  *)
(* current version does not produce another one.                           *)
(*                                                                         *)
(* A version is named by its position in the history.  Governance.tla      *)
(* implements this module: its rows carry their version numbers, its       *)
(* submissions are decided by several roles, and its handlers fail half    *)
(* way.                                                                    *)
(***************************************************************************)
EXTENDS Naturals, Sequences

CONSTANTS Initiatives,     \* initiatives of one tenant
          Triggers         \* identities of the submissions that may trigger a version

VARIABLE ledger            \* ledger[i]: the versions of initiative i, oldest first

Origin == {"approval", "rebaseline"}

Entry == [trigger : Origin, sub : Triggers]

Init == ledger = [i \in Initiatives |-> << >>]

\* lock_bankable_plan_from_approval: a version for submission s, unless the
\* current version is the one this approval produced.
Lock(i, s) ==
  LET n == Len(ledger[i])
      e == [trigger |-> "approval", sub |-> s]
  IN  /\ n > 0 => ledger[i][n] # e
      /\ ledger' = [ledger EXCEPT ![i] = Append(@, e)]

\* rebaseline_bankable_plan: a further version of a plan that exists.
Rebaseline(i, s) ==
  /\ ledger[i] # << >>
  /\ ledger' = [ledger EXCEPT ![i] = Append(@, [trigger |-> "rebaseline", sub |-> s])]

Next == \E i \in Initiatives, s \in Triggers : Lock(i, s) \/ Rebaseline(i, s)

Spec == Init /\ [][Next]_ledger
===============================================================================
