--------------------------- MODULE MCTenantRequests ---------------------------
(* Small instances of TenantRequests for TLC. *)
EXTENDS TenantRequests

CONSTANTS q1, q2, q3, q4, acme, rival, c1, c2

FourRequests == {q1, q2, q3, q4}
TwoCompanies == {acme, rival}
TwoConnections == {c1, c2}
\* Requests of two companies and one without a token.
Tenant(r) == CASE r \in {q1, q2} -> acme [] r = q3 -> rival [] OTHER -> NoCompany
=============================================================================
