--------------------------- MODULE IdGeneratorProofs ---------------------------
(***************************************************************************)
(* Theorems about IdGenerator for any calls and tables.                    *)
(***************************************************************************)
EXTENDS IdGenerator, TLAPS

\* A counter that was never reset is at or above every id returned.
IdsBelow ==
    \A c \in Calls :
        call[c].pc = "done" =>
            /\ call[c].id > 0
            /\ call[c].table \notin reset => call[c].id <= Counter(idGen, call[c].table)

\* With a client that answers false, createIdGenerator is never reached.
NoCreate ==
    miss = "false" => reset = {} /\ \A c \in Calls : call[c].pc # "create"

IdInv == TypeOK /\ IdsBelow /\ ClashNeedsReset /\ NoCreate

LEMMA InitIdInv == Init => IdInv
  BY DEF Init, IdInv, TypeOK, IdsBelow, ClashNeedsReset, Clash, NoCreate, EmptyHash, Call

LEMMA CounterFacts ==
    ASSUME TypeOK, NEW t \in Tables
    PROVE  /\ Counter(idGen, t) \in Nat
           /\ t \in DOMAIN idGen => Counter(idGen, t) = idGen[t] /\ Counter(idGen, t) > 0
           /\ t \notin DOMAIN idGen => Counter(idGen, t) = 0
  BY DEF TypeOK, Counter, HGetHit

\* What HSET does to the counters.
LEMMA CounterAfterHSet ==
    ASSUME TypeOK, NEW t \in Tables, NEW n \in Nat \ {0}, idGen' = HSet(idGen, t, n)
    PROVE  /\ DOMAIN idGen' \subseteq Tables
           /\ idGen' \in [DOMAIN idGen' -> Nat \ {0}]
           /\ Counter(idGen', t) = n
           /\ \A u \in Tables \ {t} : Counter(idGen', u) = Counter(idGen, u)
  BY DEF TypeOK, Counter, HGetHit, HSet

\* A step that changes neither counters nor returned ids.
LEMMA MoveIdInv ==
    ASSUME IdInv, NEW c \in Calls, NEW step \in {"increment", "create", "dead"},
           Goto(c, step), UNCHANGED <<idGen, miss, reset>>,
           step = "create" => miss = "null"
    PROVE  IdInv'
  <1>1. /\ call[c] \in Call
        /\ call' \in [Calls -> Call]
        /\ call'[c].pc = step
        /\ \A d \in Calls : d # c => call'[d] = call[d]
    BY DEF IdInv, TypeOK, Goto, Call
  <1>2. IdsBelow'
    BY <1>1 DEF IdInv, IdsBelow, Counter, HGetHit
  <1>3. ClashNeedsReset'
    BY <1>1 DEF IdInv, ClashNeedsReset, Clash
  <1>4. NoCreate'
    BY <1>1 DEF IdInv, NoCreate
  <1>5. QED
    BY <1>1, <1>2, <1>3, <1>4 DEF IdInv, TypeOK

LEMMA IncrementIdInv ==
    ASSUME IdInv, NEW c \in Calls, Increment(c) PROVE IdInv'
  <1> DEFINE t == call[c].table
             n == Counter(idGen, t) + 1
  <1>1. call[c] \in Call /\ t \in Tables /\ Counter(idGen, t) \in Nat /\ n \in Nat \ {0}
    BY CounterFacts DEF IdInv, TypeOK, Call
  <1>2. /\ idGen' = HSet(idGen, t, n)
        /\ call' = [call EXCEPT ![c].pc = "done", ![c].id = n]
        /\ UNCHANGED <<miss, reset>>
    BY DEF Increment, Return
  <1>3. /\ call' \in [Calls -> Call]
        /\ call'[c].pc = "done" /\ call'[c].table = t /\ call'[c].id = n
        /\ \A d \in Calls : d # c => call'[d] = call[d]
    BY <1>1, <1>2 DEF IdInv, TypeOK, Call
  <1>4. /\ DOMAIN idGen' \subseteq Tables /\ idGen' \in [DOMAIN idGen' -> Nat \ {0}]
        /\ Counter(idGen', t) = n
        /\ \A u \in Tables \ {t} : Counter(idGen', u) = Counter(idGen, u)
    <2>1. TypeOK /\ t \in Tables /\ n \in Nat \ {0} /\ idGen' = HSet(idGen, t, n)
      BY <1>1, <1>2 DEF IdInv
    <2> HIDE DEF t, n
    <2>2. QED
      BY <2>1, CounterAfterHSet
  <1>5. \A d \in Calls : call[d].table \in Tables /\ call[d].id \in Nat
    BY DEF IdInv, TypeOK, Call
  <1>6. TypeOK'
    BY <1>2, <1>3, <1>4 DEF IdInv, TypeOK
  <1>7. IdsBelow'
    BY <1>1, <1>2, <1>3, <1>4, <1>5 DEF IdInv, IdsBelow
  <1>8. ClashNeedsReset'
    BY <1>1, <1>2, <1>3, <1>5 DEF IdInv, IdsBelow, ClashNeedsReset, Clash
  <1>9. NoCreate'
    BY <1>2, <1>3 DEF IdInv, NoCreate
  <1>10. QED
    BY <1>6, <1>7, <1>8, <1>9 DEF IdInv

LEMMA CreateIdInv ==
    ASSUME IdInv, NEW c \in Calls, Create(c) PROVE IdInv'
  <1> DEFINE t == call[c].table
  <1>1. call[c] \in Call /\ t \in Tables
    BY DEF IdInv, TypeOK, Call
  <1>2. /\ idGen' = HSet(idGen, t, 1)
        /\ call' = [call EXCEPT ![c].pc = "done", ![c].id = 1]
        /\ reset' = IF t \in DOMAIN idGen THEN reset \cup {t} ELSE reset
        /\ UNCHANGED miss
    BY DEF Create, Return, HGetHit
  <1>3. /\ call' \in [Calls -> Call]
        /\ call'[c].pc = "done" /\ call'[c].table = t /\ call'[c].id = 1
        /\ \A d \in Calls : d # c => call'[d] = call[d]
    BY <1>1, <1>2 DEF IdInv, TypeOK, Call
  <1>4. /\ DOMAIN idGen' \subseteq Tables /\ idGen' \in [DOMAIN idGen' -> Nat \ {0}]
        /\ Counter(idGen', t) = 1
        /\ \A u \in Tables \ {t} : Counter(idGen', u) = Counter(idGen, u)
    <2>1. TypeOK /\ t \in Tables /\ idGen' = HSet(idGen, t, 1)
      BY <1>1, <1>2 DEF IdInv
    <2> HIDE DEF t
    <2>2. QED
      BY <2>1, CounterAfterHSet
  <1>5. \A d \in Calls : call[d].table \in Tables /\ call[d].id \in Nat
    BY DEF IdInv, TypeOK, Call
  <1>6. t \notin DOMAIN idGen => Counter(idGen, t) = 0
    BY <1>1, CounterFacts DEF IdInv
  \* A counter created for the first time: nothing was returned before.
  <1>7. ASSUME NEW d \in Calls, call[d].pc = "done", call[d].table = t
        PROVE  t \in reset'
    BY <1>7, <1>2, <1>5, <1>6 DEF IdInv, IdsBelow
  <1>8. TypeOK'
    BY <1>1, <1>2, <1>3, <1>4 DEF IdInv, TypeOK
  <1>9. IdsBelow'
    BY <1>2, <1>3, <1>4, <1>5, <1>7 DEF IdInv, IdsBelow
  <1>10. ClashNeedsReset'
    BY <1>2, <1>3, <1>5, <1>7 DEF IdInv, ClashNeedsReset, Clash
  <1>11. NoCreate'
    BY <1>2 DEF Create, IdInv, NoCreate
  <1>12. QED
    BY <1>8, <1>9, <1>10, <1>11 DEF IdInv

LEMMA NextIdInv == IdInv /\ [Next]_vars => IdInv'
  <1> SUFFICES ASSUME IdInv, [Next]_vars PROVE IdInv'
    OBVIOUS
  <1>1. CASE UNCHANGED vars
    BY <1>1 DEF vars, IdInv, TypeOK, IdsBelow, ClashNeedsReset, Clash, NoCreate,
                Counter, HGetHit
  <1>2. ASSUME NEW c \in Calls, ReadCounter(c) PROVE IdInv'
    BY <1>2, MissesAssumption, MoveIdInv DEF ReadCounter, IdInv, TypeOK
  <1>3. ASSUME NEW c \in Calls, Die(c) PROVE IdInv'
    BY <1>3, MoveIdInv DEF Die
  <1>4. QED
    BY <1>1, <1>2, <1>3, IncrementIdInv, CreateIdInv DEF Next

THEOREM IdInvariant == Spec => []IdInv
  BY InitIdInv, NextIdInv, PTL DEF Spec

\* Counters and calls keep their types: a call that is done holds an id of a
\* table, and a counter that exists is positive.
THEOREM IdTypes == Spec => []TypeOK
  <1>1. IdInv => TypeOK
    BY DEF IdInv
  <1>2. QED
    BY <1>1, IdInvariant, PTL

\* With phpredis, which answers false for a missing field, two calls of
\* generateNextId never return the same id, however many run at once.
THEOREM UniqueIds == Spec => []IdsUnique
  <1>1. IdInv => IdsUnique
    BY DEF IdInv, NoCreate, ClashNeedsReset, IdsUnique
  <1>2. QED
    BY <1>1, IdInvariant, PTL

\* Whatever the client answers, ids of a table clash only after its counter
\* was created a second time.
THEOREM ClashesNeedReset == Spec => []ClashNeedsReset
  <1>1. IdInv => ClashNeedsReset
    BY DEF IdInv
  <1>2. QED
    BY <1>1, IdInvariant, PTL
================================================================================
