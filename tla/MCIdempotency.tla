--------------------------- MODULE MCIdempotency ---------------------------
(* Three requests under the default scope: three attempts at one call, two  *)
(* attempts and a different body under the same key, and one key used on    *)
(* two routes beside a request without a key.                               *)
EXTENDS Announcements

CONSTANTS r1, r2, r3, key, route1, route2, b1, b2

MCScope == {"key", "route", "bodyHash"}

Call(k, route, b) == [key |-> k, route |-> route, body |-> b]
First == Call(key, route1, b1)

MCWorkloads ==
  { [r \in Requests |-> First],
    [r \in Requests |-> IF r = r3 THEN Call(key, route1, b2) ELSE First],
    [r \in Requests |-> CASE r = r1 -> First
                          [] r = r2 -> Call(key, route2, b1)
                          [] r = r3 -> Call(NoKey, route1, b1)] }
=============================================================================
