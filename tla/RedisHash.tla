------------------------------- MODULE RedisHash -------------------------------
(***************************************************************************)
(* The Redis hash commands the repository issues, as operators on hashes.  *)
(* Redis (external) runs each command atomically, so a command is one step *)
(* of the modules that use these operators.  A hash is a function whose    *)
(* domain is the set of fields it holds; a hash that holds no field does   *)
(* not exist.                                                              *)
(***************************************************************************)

EmptyHash == [f \in {} |-> 0]

\* HSET overwrites: the field has the value afterwards whether or not it
\* was there before.
HSet(h, f, v) == [x \in DOMAIN h \cup {f} |-> IF x = f THEN v ELSE h[x]]

\* What HSET answers: 1 if the field is new, 0 if an old value was replaced.
HSetReply(h, f) == IF f \in DOMAIN h THEN 0 ELSE 1

\* HGET answers a value, or a miss.
HGetHit(h, f) == f \in DOMAIN h
================================================================================
