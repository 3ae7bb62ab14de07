----------------------------- MODULE MCUpstream -----------------------------
EXTENDS Upstream, TLC

CONSTANTS r1, r2, r3, k1, k2, k3, c1, r4, t1, t2, t3

Simetria == Permutations(Reqs) \cup Permutations({t1, t2, t3})
  \cup Permutations(Keys)
=============================================================================
