------------------------------ MODULE IdGenerator ------------------------------
(***************************************************************************)
(* Session::generateNextId: calls of concurrent requests read the counter  *)
(* of a table with hGet and then either increment it (hIncrBy) or, when    *)
(* the read answers null, create it (hSet 1).  The two commands of a call  *)
(* are two steps.  What the Redis client answers for a missing field is    *)
(* its choice (miss): phpredis answers false, which is not null.           *)
(***************************************************************************)
EXTENDS Integers, RedisHash

CONSTANTS Calls,  \* calls of generateNextId, each made once
          Tables, \* table keys
          Misses  \* what hGet may answer for a missing field

ASSUME MissesAssumption == Misses \subseteq {"false", "null"}

VARIABLES idGen,  \* hash idGenerator
          miss,   \* the answer of this client library for a missing field
          call,   \* progress of each call: pc, table, id returned (0: none)
          reset   \* history: the counters written by hSet while they existed

vars == <<idGen, miss, call, reset>>

NotStarted(c) == call[c].pc = "start"
Goto(c, step) == call' = [call EXCEPT ![c].pc = step]
Return(c, id) == call' = [call EXCEPT ![c].pc = "done", ![c].id = id]

Init ==
    /\ idGen = EmptyHash
    /\ miss \in Misses
    /\ call \in [Calls -> [pc : {"start"}, table : Tables, id : {0}]]
    /\ reset = {}

\* hGet, and the test of its answer for null.
ReadCounterFalsy(c) == \* mutant: the test is for false, as in Object::load
    /\ NotStarted(c)
    /\ Goto(c, IF HGetHit(idGen, call[c].table) THEN "increment" ELSE "create")
    /\ UNCHANGED <<idGen, miss, reset>>

ReadCounter(c) ==
    /\ NotStarted(c)
    /\ Goto(c, IF ~HGetHit(idGen, call[c].table) /\ miss = "null"
               THEN "create" ELSE "increment")
    /\ UNCHANGED <<idGen, miss, reset>>

\* hIncrBy creates a missing field with value 0 before it adds 1.
Counter(h, t) == IF HGetHit(h, t) THEN h[t] ELSE 0

IncrementAfter(c) == \* mutant: answers the value before the increment
    /\ call[c].pc = "increment"
    /\ LET t == call[c].table
       IN  idGen' = HSet(idGen, t, Counter(idGen, t) + 1) /\ Return(c, Counter(idGen, t))
    /\ UNCHANGED <<miss, reset>>

Increment(c) ==
    /\ call[c].pc = "increment"
    /\ LET t == call[c].table
       IN  /\ idGen' = HSet(idGen, t, Counter(idGen, t) + 1)
           /\ Return(c, Counter(idGen, t) + 1)
    /\ UNCHANGED <<miss, reset>>

CreateAtZero(c) == \* mutant: the counter starts behind the id returned
    /\ call[c].pc = "create"
    /\ idGen' = HSet(idGen, call[c].table, 0)
    /\ Return(c, 1)
    /\ UNCHANGED <<miss, reset>>

\* createIdGenerator
Create(c) ==
    /\ call[c].pc = "create"
    /\ idGen' = HSet(idGen, call[c].table, 1)
    /\ reset' = IF HGetHit(idGen, call[c].table) THEN reset \cup {call[c].table} ELSE reset
    /\ Return(c, 1)
    /\ UNCHANGED miss

\* The request dies between the two commands.
Die(c) ==
    /\ call[c].pc \in {"increment", "create"}
    /\ Goto(c, "dead")
    /\ UNCHANGED <<idGen, miss, reset>>

Next == \E c \in Calls : ReadCounter(c) \/ Increment(c) \/ Create(c) \/ Die(c)

Spec == Init /\ [][Next]_vars

----------------------------------------------------------------------------
Call == [pc : {"start", "increment", "create", "done", "dead"}, table : Tables, id : Nat]

\* The type invariant.
TypeOK ==
    /\ DOMAIN idGen \subseteq Tables
    /\ idGen \in [DOMAIN idGen -> Nat \ {0}]
    /\ miss \in Misses
    /\ call \in [Calls -> Call]
    /\ reset \subseteq Tables

Clash(c, d) ==
    /\ c # d /\ call[c].pc = "done" /\ call[d].pc = "done"
    /\ call[c].table = call[d].table /\ call[c].id = call[d].id

\* With a client that answers a miss with false, the read-then-write of
\* generateNextId is harmless: two calls never return the same id of a
\* table, in any interleaving.
IdsUnique == miss = "false" => \A c, d \in Calls : ~Clash(c, d)

\* With a client that answers null, ids clash only in a table whose counter
\* was created a second time, by a call that had read a miss before the
\* first creation.
ClashNeedsReset == \A c, d \in Calls : Clash(c, d) => call[c].table \in reset
================================================================================
