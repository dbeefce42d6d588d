--------------------------- MODULE MCRateLimiter ---------------------------
EXTENDS RateLimiter, TLC

CheckSymmetry == Permutations(Checks)
=============================================================================
