---------------------------- MODULE MCDeployment -----------------------------
(* Two limits, two TTLs and three files: a registry, the same tenants with *)
(* their site keys swapped, and a file New refuses.                        *)
EXTENDS Deployment

CONSTANTS A, B, K1, K2, S1, S2

Entry(i, k, s) == [id |-> i, site |-> k, secret |-> s]

MCFiles ==
  { <<Entry(A, K1, S1), Entry(B, K2, S2)>>,
    <<Entry(A, K2, S1), Entry(B, K1, S2)>>,
    <<Entry(A, K1, S1), Entry(B, K1, S2)>> }
=============================================================================
