------------------------------- MODULE MCGrants -------------------------------
(* Values for Grants: two accounts, of which versions take the Delegate    *)
(* permission away and give it back.                                       *)
EXTENDS Grants, TLC

CONSTANTS a, b

Grant(v, i, p, e) == [keyspace_version |-> v, subject |-> b, issuer |-> i,
                      permissions |-> p, expires_at |-> e]

ReadGrants == {Grant(0, a, {"read"}, Never), Grant(1, a, {"read"}, Never),
               Grant(0, b, {"read"}, Never)}

Members(pa, pb) == [f \in Fps |-> IF f = a THEN pa ELSE pb]
Changing == {Members({"read", "delegate"}, {"read"}), Members({"read"}, {"read", "delegate"})}
Symmetry == Permutations(Requests)
=============================================================================
