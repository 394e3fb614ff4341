----------------------------- MODULE TenantCalls -----------------------------
(* The calls a script makes on a tenant's tables, one transaction each: what it
   does, to which table, and with how many rows. *)
EXTENDS TenantTables, SequencesExt

\* "all" is one statement of n rows; "key" looks each of n rows up and inserts it
\* when missing; "once" does so for the n-th, and its missing row is followed by a
\* call of its own; "fill" inserts the missing of n keyed rows in one statement;
\* "find" inserts nothing, "lost" never finds its row; "named" inserts n rows for
\* a name the tenant lacks; "account" is a login, "owned" one that must be the
\* fixture's; "exactly" and "at least" read what must be there, and "probe" and
\* "unprobe" create a row over the API and delete it again.
Call(do, t, n) == <<[do |-> do, table |-> t, n |-> n]>>
All(t, n) == Call("all", t, n)
Some(t, n) == IF n = 0 THEN <<>> ELSE All(t, n)
Key(t, n) == Call("key", t, n)
Fill(t, n) == Call("fill", t, n)
Clear(ts) == FlattenSeq([i \in DOMAIN ts |-> Call("clear", ts[i], 0)])
Each(t, n) == FlattenSeq([i \in 1..n |-> All(t, 1)])
Times(n, calls) == FlattenSeq([i \in 1..n |-> calls])

\* The n-th person of a fixture: the account, then the platform row.
Person(n) == Call("owned", "auth_users", n) \o Call("person", "users", n)
===============================================================================
