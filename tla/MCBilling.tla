------------------------------ MODULE MCBilling ------------------------------
(* A few signups for Billing.tla. *)
EXTENDS Billing

CONSTANTS t1, t2, e1, e2   \* slugs and addresses
===============================================================================
