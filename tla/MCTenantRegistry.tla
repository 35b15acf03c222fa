-------------------------- MODULE MCTenantRegistry --------------------------
EXTENDS TenantRegistry, TLC

CONSTANTS t1, t2

\* The bootstrap publishes one tenant, both, and one of them again.
MCMaps == {{t1}, {t1, t2}}
MCSymmetry == Permutations(Workers)
=============================================================================
