------------------------------- MODULE Tables -------------------------------
(***************************************************************************)
(* A table of the database (SQLite, app/models.py) as a function from the  *)
(* ids of its rows to their columns. No foreign key is enforced.           *)
(***************************************************************************)
EXTENDS Integers

Least(S) == CHOOSE n \in S : \A k \in S : n <= k
Largest(S) == CHOOSE n \in S : \A k \in S : k <= n

EmptyTable == [id \in {} |-> id]

\* A row gets the id after the largest one: a deleted id comes back.
NextId(table) == IF DOMAIN table = {} THEN 1 ELSE Largest(DOMAIN table) + 1

Without(table, id) == [k \in DOMAIN table \ {id} |-> table[k]]
With(table, id, row) == [k \in DOMAIN table \cup {id} |-> IF k = id THEN row ELSE table[k]]
=============================================================================
