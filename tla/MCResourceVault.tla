---------------------------- MODULE MCResourceVault ----------------------------
(* Small instances of ResourceVault for TLC. *)
EXTENDS ResourceVault, TLC

CONSTANTS w1, w2, T1, T2, s1, s2, k1, k2

\* Goroutines, tenants and passwords are interchangeable.
VaultSymmetry ==
    Permutations(Requests) \cup Permutations(TenantIds) \cup Permutations(Secrets)
=============================================================================
