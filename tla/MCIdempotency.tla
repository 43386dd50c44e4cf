---------------------------- MODULE MCIdempotency ----------------------------
(* Two keys: k1 is used for two requests, k2 repeats one of them.          *)
EXTENDS Idempotency

CONSTANTS k1, k2, x

Bump(serial) == [from |-> [content |-> x, serial |-> serial], to |-> x]

MCSends == {<<k1, Bump(0)>>, <<k1, Bump(1)>>, <<k2, Bump(0)>>}
=============================================================================
