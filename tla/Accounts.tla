------------------------------- MODULE Accounts -------------------------------
(* The two commands that write both people and their accounts: the
   reconciliation of claims (Identity.tla, cli/reconcile_auth_claims.py) and the
   migration of addresses (EmailMigration.tla). They run at different times and
   share no variable here. *)
EXTENDS Identity, EmailMigration

\* What either command reports as done is done (reconcile_auth_claims,
\* apply_migration).
OkMeansInSync == ReconciledAreInSync /\ MigrationIsTold
===============================================================================
