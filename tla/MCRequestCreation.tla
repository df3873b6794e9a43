--------------------------- MODULE MCRequestCreation ---------------------------
(* Small instances of RequestCreation for TLC: one item (an item shares only  *)
(* the watermark and the clock with the others), two idempotency keys.        *)
EXTENDS RequestCreation, TLC

CONSTANTS i1, h1, h2, n1, n2, user1, user2, k1, k2

\* One user with two keys, or two users with a key each.
OneScope     == [k \in Keys |-> user1]
TwoScopes    == [k \in Keys |-> IF k = k1 THEN user1 ELSE user2]
OneInstance  == [h \in Handlers |-> n1]
TwoInstances == [h \in Handlers |-> IF h = h1 THEN n1 ELSE n2]

\* The keys of one user can be exchanged.
KeySymmetry  == Permutations({k1, k2})
===============================================================================
