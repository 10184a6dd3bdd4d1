-------------------------- MODULE ScoreServiceProofs --------------------------
(***************************************************************************)
(* Theorems about ScoreService for any workers, ids, dates and scores.     *)
(***************************************************************************)
EXTENDS ScoreService, TLAPS

\* The operations a request can be in at each step.
OpsAt ==
    [idle |-> {"none"},
     getPlayer |-> {"playerGet", "scoreMapInsert", "scoreInsert", "scoreMapGet", "getScoreId"},
     getGame |-> {"gameGet", "scoreMapInsert", "scoreInsert", "scoreMapGet",
                  "getScoreId", "getTop"},
     getScoreMap |-> {"scoreInsert", "scoreMapGet", "getScoreId"},
     generateId |-> {"playerInsert", "gameInsert", "scoreMapInsert"},
     saveName |-> {"playerInsert", "gameInsert"},
     saveCity |-> {"playerInsert"}, saveScoreMap |-> {"scoreMapInsert"},
     saveScore |-> {"scoreInsert"}, getScore |-> {"scoreGet"},
     topMap |-> {"getTop"}, topScores |-> {"getTop"}, topPlayer |-> {"getTop"},
     respond |-> AllOps]

\* The step of a request fits its operation, its id can be written, and a
\* Score.insert about to answer has written the entry it answers.
RequestOK(r, written) ==
    /\ r \in Request
    /\ r.call.op \in OpsAt[r.pc]
    /\ r.pc \in {"saveScoreMap", "saveScore"} => r.id \in ScoreIds
    /\ r.call.op = "scoreInsert" => r.answer \subseteq written

Control == \A w \in Workers : RequestOK(req[w], posted)

TypeInv == TypeOK /\ Control

\* What a call names depends on its operation.
LEMMA CallFields ==
    ASSUME NEW c \in Calls \cup {[op |-> "none"]}
    PROVE  /\ c.op \in AllOps \cup {"none"}
           /\ c.op \in {"scoreMapInsert", "scoreMapGet", "getScoreId", "scoreInsert"} =>
                 <<c.game, c.player>> \in Pairs
           /\ c.op = "scoreInsert" => c.score \in Points
  BY DEF Calls, AllOps, Inserts, Reads, Pairs

\* HSET keeps the types of a hash.
LEMMA HSetType ==
    ASSUME NEW S, NEW D, NEW h, DOMAIN h \subseteq D, h \in [DOMAIN h -> S],
           NEW f \in D, NEW v \in S, NEW g, g = HSet(h, f, v)
    PROVE  DOMAIN g \subseteq D /\ g \in [DOMAIN g -> S]
  BY DEF HSet

LEMMA IdleOK == ASSUME NEW written PROVE RequestOK(Idle, written)
  BY DEF RequestOK, Idle, Request, Steps, OpsAt

\* A step that gives worker w the request r keeps Control if r is right.
LEMMA OneRequest ==
    ASSUME TypeInv, NEW w \in Workers, NEW r, NEW written,
           posted \subseteq written,
           RequestOK(r, written),
           req' = [req EXCEPT ![w] = r], posted' = written
    PROVE  /\ req' \in [Workers -> Request]
           /\ Control'
  BY DEF TypeInv, TypeOK, Control, RequestOK

THEOREM InitTypeInv == Init => TypeInv
  <1> SUFFICES ASSUME Init PROVE TypeInv
    OBVIOUS
  <1>1. req \in [Workers -> Request] /\ Control
    BY IdleOK DEF Init, Control, RequestOK
  <1>2. /\ DOMAIN scoreMap \subseteq Pairs /\ scoreMap \in [DOMAIN scoreMap -> ScoreIds]
        /\ DOMAIN scores \subseteq ScoreIds \X Dates /\ scores \in [DOMAIN scores -> Points]
    BY DEF Init, EmptyHash
  <1>3. rows \subseteq ({"games", "players"} \X Nat \X Columns)
    BY ServiceAssumption DEF Init, Columns
  <1>4. idGen \in [Tables -> Nat] /\ inserts \in 0 .. MaxInserts
    BY ServiceAssumption DEF Init, Tables
  <1>5. mapped = {} /\ posted = {} /\ acked = {}
    BY DEF Init
  <1>6. QED
    BY <1>1, <1>2, <1>3, <1>4, <1>5 DEF TypeInv, TypeOK

\* A step that only moves one request keeps TypeInv.
LEMMA QuietStep ==
    ASSUME TypeInv, NEW w \in Workers, NEW r, RequestOK(r, posted),
           req' = [req EXCEPT ![w] = r],
           UNCHANGED <<redis, inserts, history>>
    PROVE  TypeInv'
  <1>1. req' \in [Workers -> Request] /\ Control'
    BY OneRequest DEF history
  <1>2. QED
    BY <1>1 DEF TypeInv, TypeOK, redis, history

LEMMA ProceedQuietly ==
    ASSUME TypeInv, NEW w \in Workers, NEW ok \in BOOLEAN, NEW r,
           RequestOK(r, posted), Proceed(w, ok, r),
           UNCHANGED <<redis, inserts, history>>
    PROVE  TypeInv'
  <1>1. RequestOK(IF ok THEN r ELSE Idle, posted)
    BY IdleOK
  <1>2. QED
    BY <1>1, QuietStep DEF Proceed

\* What TypeInv says of one request.
LEMMA RequestFacts ==
    ASSUME TypeInv, NEW w \in Workers
    PROVE  /\ req[w] \in Request
           /\ RequestOK(req[w], posted)
           /\ Op(w) \in OpsAt[req[w].pc]
           /\ Op(w) \in {"scoreMapInsert", "scoreMapGet", "getScoreId", "scoreInsert"} =>
                 Pair(w) \in Pairs
           /\ Op(w) = "scoreInsert" => req[w].call.score \in Points
  <1>1. req[w] \in Request /\ RequestOK(req[w], posted)
    BY DEF TypeInv, TypeOK, Control
  <1>2. req[w].call \in Calls \cup {[op |-> "none"]}
    BY <1>1 DEF Request
  <1>3. QED
    BY <1>1, <1>2, CallFields DEF RequestOK, Op, Pair

\* Moving on to a step that fits the operation.
LEMMA GotoOK ==
    ASSUME TypeInv, NEW w \in Workers, NEW step \in Steps,
           Op(w) \in OpsAt[step], step \notin {"saveScoreMap", "saveScore"}
    PROVE  RequestOK(Goto(w, step), posted)
  BY RequestFacts DEF Goto, RequestOK, Request, Op

LEMMA GetPlayerType ==
    ASSUME TypeInv, NEW w \in Workers, GetPlayer(w) PROVE TypeInv'
  <1>1. Op(w) \in {"playerGet", "scoreMapInsert", "scoreInsert", "scoreMapGet", "getScoreId"}
    BY RequestFacts DEF GetPlayer, OpsAt
  <1>2. AfterPlayer[Op(w)] \in Steps /\ Op(w) \in OpsAt[AfterPlayer[Op(w)]]
        /\ AfterPlayer[Op(w)] \notin {"saveScoreMap", "saveScore"}
    BY <1>1 DEF AfterPlayer, Steps, OpsAt, AllOps, Inserts, Reads
  <1>3. RequestOK(Goto(w, AfterPlayer[Op(w)]), posted)
    BY <1>2, GotoOK
  <1>4. QED
    BY <1>3, ProceedQuietly DEF GetPlayer, Exists

LEMMA GetGameType ==
    ASSUME TypeInv, NEW w \in Workers, GetGame(w) PROVE TypeInv'
  <1>1. Op(w) \in {"gameGet", "scoreMapInsert", "scoreInsert", "scoreMapGet",
                   "getScoreId", "getTop"}
    BY RequestFacts DEF GetGame, OpsAt
  <1>2. AfterGame[Op(w)] \in Steps /\ Op(w) \in OpsAt[AfterGame[Op(w)]]
        /\ AfterGame[Op(w)] \notin {"saveScoreMap", "saveScore"}
    BY <1>1 DEF AfterGame, Steps, OpsAt, AllOps, Inserts, Reads
  <1>3. RequestOK(Goto(w, AfterGame[Op(w)]), posted)
    BY <1>2, GotoOK
  <1>4. QED
    BY <1>3, ProceedQuietly DEF GetGame, Exists

LEMMA GetScoreMapType ==
    ASSUME TypeInv, NEW w \in Workers, GetScoreMap(w) PROVE TypeInv'
  <1> DEFINE ok == HGetHit(scoreMap, Pair(w))
             r == [req[w] EXCEPT !.id = scoreMap[Pair(w)], !.pc = AfterMap[Op(w)]]
  <1>1. Op(w) \in {"scoreInsert", "scoreMapGet", "getScoreId"}
    BY RequestFacts DEF GetScoreMap, OpsAt
  <1>2. AfterMap[Op(w)] \in Steps /\ Op(w) \in OpsAt[AfterMap[Op(w)]]
    BY <1>1 DEF AfterMap, Steps, OpsAt
  <1>3. ASSUME ok PROVE RequestOK(r, posted)
    <2>1. scoreMap[Pair(w)] \in ScoreIds
      BY <1>3 DEF HGetHit, TypeInv, TypeOK
    <2>2. QED
      BY <2>1, <1>2, RequestFacts DEF RequestOK, Request, ScoreIds, Op
  <1>4. RequestOK(IF ok THEN r ELSE Idle, posted)
    BY <1>3, IdleOK
  <1>5. QED
    BY <1>4, QuietStep DEF GetScoreMap, Proceed

LEMMA SubmitType ==
    ASSUME TypeInv, NEW w \in Workers, Submit(w) PROVE TypeInv'
  <1>1. PICK c \in Calls :
            /\ c.op \in Ops
            /\ c.op \in Inserts => inserts < MaxInserts
            /\ inserts' = IF c.op \in Inserts THEN inserts + 1 ELSE inserts
            /\ req' = [req EXCEPT ![w] =
                          [Idle EXCEPT !.pc = FirstStep[c.op], !.call = c,
                                       !.before = IF c.op = "getTop" THEN Reachable ELSE {}]]
    BY DEF Submit
  <1> DEFINE r == [Idle EXCEPT !.pc = FirstStep[c.op], !.call = c,
                               !.before = IF c.op = "getTop" THEN Reachable ELSE {}]
  <1>2. inserts' \in 0 .. MaxInserts
    BY <1>1, ServiceAssumption DEF TypeInv, TypeOK
  <1>3. FirstStep[c.op] \in Steps /\ c.op \in OpsAt[FirstStep[c.op]]
        /\ FirstStep[c.op] \notin {"saveScoreMap", "saveScore"}
    BY <1>1, ServiceAssumption DEF FirstStep, Steps, OpsAt, AllOps, Inserts, Reads
  <1>4. Reachable \subseteq Entry
    <2>1. ASSUME NEW k \in DOMAIN scoreMap PROVE ScoresOf(k, scoreMap[k]) \subseteq Entry
      BY DEF TypeInv, TypeOK, ScoresOf, Entry
    <2>2. QED
      BY <2>1 DEF Reachable
  <1>5. RequestOK(r, posted)
    BY <1>3, <1>4 DEF RequestOK, Request, Idle
  <1>6. req' \in [Workers -> Request] /\ Control'
    BY <1>1, <1>5, OneRequest DEF Submit, history
  <1>7. QED
    BY <1>2, <1>6 DEF Submit, TypeInv, TypeOK, redis, history

LEMMA GenerateIdType ==
    ASSUME TypeInv, NEW w \in Workers, GenerateId(w) PROVE TypeInv'
  <1> DEFINE t == TableOf[Op(w)]
             r == [req[w] EXCEPT !.id = idGen[t] + 1, !.pc = AfterId[Op(w)]]
  <1>1. Op(w) \in {"playerInsert", "gameInsert", "scoreMapInsert"}
    BY RequestFacts DEF GenerateId, OpsAt
  <1>2. /\ t \in Tables
        /\ AfterId[Op(w)] \in Steps \ {"saveScore"} /\ Op(w) \in OpsAt[AfterId[Op(w)]]
    BY <1>1 DEF TableOf, AfterId, Steps, OpsAt, Tables
  <1>3. idGen[t] + 1 \in ScoreIds /\ idGen' \in [Tables -> Nat]
    BY <1>2 DEF GenerateId, TypeInv, TypeOK, ScoreIds
  <1>4. RequestOK(r, posted)
    BY <1>1, <1>2, <1>3, RequestFacts DEF RequestOK, Request, ScoreIds, Op
  <1>5. req' \in [Workers -> Request] /\ Control'
    BY <1>4, OneRequest DEF GenerateId, history
  <1>6. QED
    BY <1>3, <1>5 DEF GenerateId, TypeInv, TypeOK, history

LEMMA SaveNameType ==
    ASSUME TypeInv, NEW w \in Workers, SaveName(w) PROVE TypeInv'
  <1>1. Op(w) \in {"playerInsert", "gameInsert"}
    BY RequestFacts DEF SaveName, OpsAt
  <1>2. /\ TableOf[Op(w)] \in {"games", "players"}
        /\ AfterName[Op(w)] \in Steps /\ Op(w) \in OpsAt[AfterName[Op(w)]]
        /\ AfterName[Op(w)] \notin {"saveScoreMap", "saveScore"}
    BY <1>1 DEF TableOf, AfterName, Steps, OpsAt, AllOps, Inserts
  <1>3. RequestOK(Goto(w, AfterName[Op(w)]), posted)
    BY <1>2, GotoOK
  <1> DEFINE reply == IF <<TableOf[Op(w)], req[w].id, "name">> \in rows THEN 0 ELSE 1
             r == IF reply = 1 THEN Goto(w, AfterName[Op(w)]) ELSE Idle
  <1>4. RequestOK(r, posted) /\ req' = [req EXCEPT ![w] = r]
    BY <1>3, IdleOK DEF SaveName, SaveColumn, CheckInserted, Proceed
  <1>5. req' \in [Workers -> Request] /\ Control'
    BY <1>4, OneRequest DEF SaveName, SaveColumn, history
  <1>6. rows' \subseteq ({"games", "players"} \X Nat \X Columns)
    BY <1>2, RequestFacts DEF SaveName, SaveColumn, TypeInv, TypeOK, Request, Columns
  <1>7. QED
    BY <1>5, <1>6 DEF SaveName, SaveColumn, TypeInv, TypeOK, history

LEMMA SaveCityType ==
    ASSUME TypeInv, NEW w \in Workers, SaveCity(w) PROVE TypeInv'
  <1>1. Op(w) = "playerInsert"
    BY RequestFacts DEF SaveCity, OpsAt
  <1>2. TableOf[Op(w)] = "players" /\ "respond" \in Steps /\ Op(w) \in OpsAt["respond"]
    BY <1>1 DEF TableOf, Steps, OpsAt, AllOps, Inserts
  <1>3. RequestOK(Goto(w, "respond"), posted)
    BY <1>2, GotoOK
  <1> DEFINE reply == IF <<TableOf[Op(w)], req[w].id, "city">> \in rows THEN 0 ELSE 1
             r == IF reply = 1 THEN Goto(w, "respond") ELSE Idle
  <1>4. RequestOK(r, posted) /\ req' = [req EXCEPT ![w] = r]
    BY <1>3, IdleOK DEF SaveCity, SaveColumn, CheckInserted, Proceed
  <1>5. req' \in [Workers -> Request] /\ Control'
    BY <1>4, OneRequest DEF SaveCity, SaveColumn, history
  <1>6. rows' \subseteq ({"games", "players"} \X Nat \X Columns)
    BY <1>2, RequestFacts DEF SaveCity, SaveColumn, TypeInv, TypeOK, Request, Columns
  <1>7. QED
    BY <1>5, <1>6 DEF SaveCity, SaveColumn, TypeInv, TypeOK, history

LEMMA SaveScoreMapType ==
    ASSUME TypeInv, NEW w \in Workers, SaveScoreMap(w) PROVE TypeInv'
  <1>1. Op(w) = "scoreMapInsert" /\ Pair(w) \in Pairs /\ req[w].id \in ScoreIds
    BY RequestFacts DEF SaveScoreMap, OpsAt, RequestOK
  <1>2. /\ DOMAIN scoreMap' \subseteq Pairs
        /\ scoreMap' \in [DOMAIN scoreMap' -> ScoreIds]
    <2>1. DOMAIN scoreMap \subseteq Pairs /\ scoreMap \in [DOMAIN scoreMap -> ScoreIds]
      BY DEF TypeInv, TypeOK
    <2> DEFINE k == Pair(w)
               v == req[w].id
    <2>2. k \in Pairs /\ v \in ScoreIds /\ scoreMap' = HSet(scoreMap, k, v)
      BY <1>1 DEF SaveScoreMap
    <2> HIDE DEF k, v
    <2>3. QED
      BY <2>1, <2>2, HSetType
  <1>3. mapped' \subseteq Pairs \X ScoreIds
    BY <1>1 DEF SaveScoreMap, TypeInv, TypeOK
  <1> DEFINE r == IF HSetReply(scoreMap, Pair(w)) = 1 THEN Goto(w, "respond") ELSE Idle
  <1>4. RequestOK(Goto(w, "respond"), posted)
    BY <1>1, GotoOK DEF Steps, OpsAt, AllOps, Inserts
  <1>5. RequestOK(r, posted) /\ req' = [req EXCEPT ![w] = r]
    BY <1>4, IdleOK DEF SaveScoreMap, CheckInserted, Proceed
  <1>6. req' \in [Workers -> Request] /\ Control'
    BY <1>5, OneRequest DEF SaveScoreMap
  <1>7. QED
    BY <1>2, <1>3, <1>6 DEF SaveScoreMap, TypeInv, TypeOK

LEMMA SaveScoreType ==
    ASSUME TypeInv, NEW w \in Workers, SaveScore(w) PROVE TypeInv'
  <1>1. /\ Op(w) = "scoreInsert" /\ Pair(w) \in Pairs /\ req[w].id \in ScoreIds
        /\ req[w].call.score \in Points
    BY RequestFacts DEF SaveScore, OpsAt, RequestOK
  <1>2. PICK d \in Dates :
            LET e == NewEntry(w, d)
            IN  /\ scores' = HSet(scores, <<e.id, d>>, e.score)
                /\ posted' = posted \cup {e}
                /\ CheckInserted(w, HSetReply(scores, <<e.id, d>>),
                                 [req[w] EXCEPT !.answer = {e}, !.pc = "respond"])
    BY DEF SaveScore
  <1> DEFINE e == NewEntry(w, d)
             ok == HSetReply(scores, <<e.id, d>>) = 1
             answered == [req[w] EXCEPT !.answer = {e}, !.pc = "respond"]
             r == IF ok THEN answered ELSE Idle
  <1>3. e \in Entry /\ e.id = req[w].id /\ e.score = req[w].call.score
    BY <1>1 DEF NewEntry, Entry
  <1>4. /\ DOMAIN scores' \subseteq ScoreIds \X Dates
        /\ scores' \in [DOMAIN scores' -> Points]
    <2> DEFINE k == <<e.id, d>>
               v == e.score
    <2>1. k \in ScoreIds \X Dates /\ v \in Points
      BY <1>1, <1>3
    <2> HIDE DEF k, v
    <2>2. scores' = HSet(scores, k, v)
      BY <1>2 DEF k, v
    <2>3. DOMAIN scores \subseteq ScoreIds \X Dates /\ scores \in [DOMAIN scores -> Points]
      BY DEF TypeInv, TypeOK
    <2>4. QED
      BY <2>1, <2>2, <2>3, HSetType
  <1>5. posted' \subseteq Entry /\ acked \subseteq posted' /\ e \in posted'
    BY <1>2, <1>3 DEF TypeInv, TypeOK
  <1>6. RequestOK(answered, posted')
    BY <1>1, <1>3, <1>5, RequestFacts
       DEF RequestOK, Request, OpsAt, Steps, AllOps, Inserts, Op
  <1>7. RequestOK(r, posted')
    BY <1>6, IdleOK
  <1>8. req' = [req EXCEPT ![w] = r] /\ posted \subseteq posted'
    BY <1>2 DEF CheckInserted, Proceed
  <1>9. req' \in [Workers -> Request] /\ Control'
    <2> DEFINE written == posted'
    <2>1. RequestOK(r, written) /\ posted \subseteq written
      BY <1>7, <1>8
    <2> HIDE DEF r
    <2>2. QED
      BY <2>1, <1>8, OneRequest
  <1>10. QED
    BY <1>4, <1>5, <1>9 DEF SaveScore, TypeInv, TypeOK

LEMMA GetScoreType ==
    ASSUME TypeInv, NEW w \in Workers, GetScore(w) PROVE TypeInv'
  <1>1. Op(w) = "scoreGet"
    BY RequestFacts DEF GetScore, OpsAt
  <1>2. RequestOK(Goto(w, "respond"), posted)
    BY <1>1, GotoOK DEF Steps, OpsAt, AllOps, Reads
  <1> DEFINE ok == HGetHit(scores, <<req[w].call.id, req[w].call.date>>)
  <1>3. ok \in BOOLEAN /\ Proceed(w, ok, Goto(w, "respond"))
    BY DEF GetScore, HGetHit
  <1> HIDE DEF ok
  <1>4. QED
    BY <1>2, <1>3, ProceedQuietly DEF GetScore

LEMMA TopNextFits ==
    ASSUME NEW todo
    PROVE  TopNext(todo) \in {"respond", "topScores"}
  BY DEF TopNext

LEMMA TopMapType ==
    ASSUME TypeInv, NEW w \in Workers, TopMap(w) PROVE TypeInv'
  <1> DEFINE maps == {<<k, scoreMap[k]>> :
                        k \in {l \in DOMAIN scoreMap : l[1] = req[w].call.game}}
             r == [req[w] EXCEPT !.todo = maps, !.pc = TopNext(maps)]
  <1>1. Op(w) = "getTop"
    BY RequestFacts DEF TopMap, OpsAt
  <1>2. maps \subseteq Pairs \X ScoreIds
    BY DEF TypeInv, TypeOK
  <1>3. TopNext(maps) \in {"respond", "topScores"}
    BY TopNextFits
  <1>4. r \in Request /\ r.call.op = "getTop" /\ r.pc \in {"respond", "topScores"}
    <2> HIDE DEF maps
    <2> QED
      BY <1>1, <1>2, <1>3, RequestFacts DEF Request, Steps, Op
  <1>5. RequestOK(r, posted)
    BY <1>4 DEF RequestOK, OpsAt, AllOps, Reads
  <1>6. req' = [req EXCEPT ![w] = r]
    BY RequestFacts DEF TopMap, TypeInv, TypeOK
  <1>7. QED
    <2> HIDE DEF r
    <2> QED
      BY <1>5, <1>6, QuietStep DEF TopMap

LEMMA TopScoresType ==
    ASSUME TypeInv, NEW w \in Workers, TopScores(w) PROVE TypeInv'
  <1>1. Op(w) = "getTop"
    BY RequestFacts DEF TopScores, OpsAt
  <1>2. PICK m \in req[w].todo :
            req' = [req EXCEPT ![w].todo = @ \ {m},
                               ![w].id = m[1][2],
                               ![w].answer = @ \cup ScoresOf(m[1], m[2]),
                               ![w].pc = "topPlayer"]
    BY DEF TopScores
  <1> DEFINE found == ScoresOf(m[1], m[2])
             r == [req[w] EXCEPT !.todo = @ \ {m}, !.id = m[1][2],
                                 !.answer = @ \cup found, !.pc = "topPlayer"]
  <1>3. m[1] \in Pairs /\ m[2] \in ScoreIds /\ m[1][2] \in Nat
    BY RequestFacts, ServiceAssumption DEF Request, Pairs
  <1>4. found \subseteq Entry
    BY <1>3 DEF ScoresOf, Entry, TypeInv, TypeOK
  <1>5. r \in Request /\ r.call.op = "getTop" /\ r.pc = "topPlayer"
    <2> HIDE DEF found
    <2> QED
      BY <1>1, <1>3, <1>4, RequestFacts DEF Request, Steps, Op
  <1>6. RequestOK(r, posted)
    BY <1>5 DEF RequestOK, OpsAt
  <1>7. req' = [req EXCEPT ![w] = r]
    <2> HIDE DEF found
    <2> QED
      BY <1>2, RequestFacts DEF TypeInv, TypeOK, found
  <1>8. QED
    <2> HIDE DEF r
    <2> QED
      BY <1>6, <1>7, QuietStep DEF TopScores

LEMMA TopPlayerType ==
    ASSUME TypeInv, NEW w \in Workers, TopPlayer(w) PROVE TypeInv'
  <1>1. Op(w) = "getTop"
    BY RequestFacts DEF TopPlayer, OpsAt
  <1>2. TopNext(req[w].todo) \in {"respond", "topScores"}
    BY TopNextFits
  <1>3. RequestOK(Goto(w, TopNext(req[w].todo)), posted)
    BY <1>1, <1>2, GotoOK DEF Steps, OpsAt, AllOps, Reads
  <1>4. QED
    BY <1>3, ProceedQuietly DEF TopPlayer, Exists

LEMMA RespondType ==
    ASSUME TypeInv, NEW w \in Workers, Respond(w) PROVE TypeInv'
  <1>1. acked' \subseteq posted
    BY RequestFacts DEF Respond, RequestOK, TypeInv, TypeOK, Op
  <1>2. req' \in [Workers -> Request] /\ Control'
    BY IdleOK, OneRequest DEF Respond
  <1>3. QED
    BY <1>1, <1>2 DEF Respond, TypeInv, TypeOK, redis

LEMMA AbortType ==
    ASSUME TypeInv, NEW w \in Workers, Abort(w) PROVE TypeInv'
  BY IdleOK, QuietStep DEF Abort

THEOREM NextTypeInv == TypeInv /\ [Next]_vars => TypeInv'
  <1> SUFFICES ASSUME TypeInv, [Next]_vars PROVE TypeInv'
    OBVIOUS
  <1>1. CASE UNCHANGED vars
    BY <1>1 DEF vars, redis, history, TypeInv, TypeOK, Control
  <1>2. ASSUME NEW w \in Workers, Submit(w) \/ Step(w) \/ Abort(w) PROVE TypeInv'
    BY <1>2, SubmitType, GetPlayerType, GetGameType, GenerateIdType, SaveNameType,
       SaveCityType, SaveScoreMapType, GetScoreMapType, SaveScoreType, GetScoreType,
       TopMapType, TopScoresType, TopPlayerType, RespondType, AbortType DEF Step
  <1>3. QED
    BY <1>1, <1>2 DEF Next

\* Every reachable state is well formed: each request is at a step its
\* operation has, and only score ids the generator can give are written.
THEOREM TypeCorrect == Spec => []TypeOK
  <1>1. TypeInv => TypeOK
    BY DEF TypeInv
  <1>2. QED
    BY <1>1, InitTypeInv, NextTypeInv, PTL DEF Spec

----------------------------------------------------------------------------
(***************************************************************************)
(* Score ids.  ScoreIdsUnshared and OwnScores are not inductive: a request *)
(* between generateNextId and its hSet, and one between its hGet and its   *)
(* hSet, hold an id that no history shows yet.  IdsInv says what they may  *)
(* hold: an id just generated is bounded by the counter, in no other hands *)
(* and in no map; an id just read is one that was given to the same pair.  *)
(***************************************************************************)
Holding(w) == req[w].pc = "saveScoreMap"

MappedBelow == \A m \in mapped : m[2] <= idGen["scoreMap"]

HeldFresh ==
    \A w \in Workers : Holding(w) =>
        req[w].id <= idGen["scoreMap"] /\ \A m \in mapped : m[2] # req[w].id

HeldApart ==
    \A v, w \in Workers : v # w /\ Holding(v) /\ Holding(w) => req[v].id # req[w].id

MapsRecorded == \A k \in DOMAIN scoreMap : <<k, scoreMap[k]>> \in mapped

LoadedOwn ==
    \A w \in Workers : req[w].pc = "saveScore" => <<Pair(w), req[w].id>> \in mapped

PostedOwn == \A e \in posted : <<e.pair, e.id>> \in mapped

ScoresPosted == \A k \in DOMAIN scores : \E e \in posted : e.id = k[1]

IdsInv ==
    /\ MappedBelow /\ HeldFresh /\ HeldApart /\ ScoreIdsUnshared
    /\ MapsRecorded /\ LoadedOwn /\ PostedOwn /\ ScoresPosted

\* A step of w that neither writes nor leaves w with an id to write.
Harmless(w) ==
    /\ UNCHANGED <<idGen, scoreMap, scores, mapped, posted>>
    /\ \A v \in Workers \ {w} : req'[v] = req[v]
    /\ req'[w].pc \notin {"saveScoreMap", "saveScore"}

LEMMA HarmlessSteps ==
    ASSUME TypeInv, NEW w \in Workers,
           \/ Submit(w) \/ GetPlayer(w) \/ GetGame(w) \/ SaveName(w) \/ SaveCity(w)
           \/ GetScore(w) \/ TopMap(w) \/ TopScores(w) \/ TopPlayer(w)
           \/ Respond(w) \/ Abort(w)
    PROVE  Harmless(w)
  <1> USE RequestFacts DEF Harmless, redis, history
  <1>a. req \in [Workers -> Request] /\ Idle.pc = "idle"
    BY DEF TypeInv, TypeOK, Idle
  <1>1. CASE Submit(w)
    <2>1. PICK c \in Calls :
              /\ c.op \in Ops
              /\ req' = [req EXCEPT ![w] =
                            [Idle EXCEPT !.pc = FirstStep[c.op], !.call = c,
                                         !.before = IF c.op = "getTop" THEN Reachable ELSE {}]]
      BY <1>1 DEF Submit
    <2>2. FirstStep[c.op] \notin {"saveScoreMap", "saveScore"}
      BY <2>1, ServiceAssumption DEF FirstStep, AllOps, Inserts, Reads
    <2>3. QED
      BY <1>a, <1>1, <2>1, <2>2 DEF Submit, Idle
  <1>2. CASE GetPlayer(w)
    <2>1. Op(w) \in {"playerGet", "scoreMapInsert", "scoreInsert", "scoreMapGet", "getScoreId"}
      BY <1>2 DEF GetPlayer, OpsAt
    <2>2. AfterPlayer[Op(w)] \notin {"saveScoreMap", "saveScore"}
      BY <2>1 DEF AfterPlayer
    <2>3. QED
      BY <1>a, <1>2, <2>2 DEF GetPlayer, Proceed, Goto, Request
  <1>3. CASE GetGame(w)
    <2>1. Op(w) \in {"gameGet", "scoreMapInsert", "scoreInsert", "scoreMapGet",
                     "getScoreId", "getTop"}
      BY <1>3 DEF GetGame, OpsAt
    <2>2. AfterGame[Op(w)] \notin {"saveScoreMap", "saveScore"}
      BY <2>1 DEF AfterGame
    <2>3. QED
      BY <1>a, <1>3, <2>2 DEF GetGame, Proceed, Goto, Request
  <1>4. CASE SaveName(w)
    <2>1. Op(w) \in {"playerInsert", "gameInsert"}
      BY <1>4 DEF SaveName, OpsAt
    <2>2. AfterName[Op(w)] \notin {"saveScoreMap", "saveScore"}
      BY <2>1 DEF AfterName
    <2>3. QED
      BY <1>a, <1>4, <2>2 DEF SaveName, SaveColumn, CheckInserted, Proceed, Goto, Request
  <1>5. CASE SaveCity(w)
    BY <1>a, <1>5 DEF SaveCity, SaveColumn, CheckInserted, Proceed, Goto, Request
  <1>6. CASE GetScore(w)
    BY <1>a, <1>6 DEF GetScore, Proceed, Goto, Request
  <1>7. CASE TopMap(w)
    <2> DEFINE maps == {<<k, scoreMap[k]>> :
                          k \in {l \in DOMAIN scoreMap : l[1] = req[w].call.game}}
    <2>1. req' = [req EXCEPT ![w].todo = maps, ![w].pc = TopNext(maps)]
      BY <1>7 DEF TopMap
    <2>2. TopNext(maps) \in {"respond", "topScores"}
      BY TopNextFits
    <2> HIDE DEF maps
    <2>3. QED
      BY <1>a, <1>7, <2>1, <2>2 DEF TopMap, Request
  <1>8. CASE TopScores(w)
    <2>1. PICK m \in req[w].todo :
              req' = [req EXCEPT ![w].todo = @ \ {m},
                                 ![w].id = m[1][2],
                                 ![w].answer = @ \cup ScoresOf(m[1], m[2]),
                                 ![w].pc = "topPlayer"]
      BY <1>8 DEF TopScores
    <2>2. UNCHANGED <<redis, inserts, history>>
      BY <1>8 DEF TopScores
    <2>3. QED
      BY <1>a, <2>1, <2>2 DEF Request
  <1>9. CASE TopPlayer(w)
    BY <1>a, <1>9, TopNextFits DEF TopPlayer, Proceed, Goto, Request
  <1>10. CASE Respond(w)
    BY <1>a, <1>10 DEF Respond
  <1>11. CASE Abort(w)
    BY <1>a, <1>11 DEF Abort
  <1>12. QED
    BY <1>1, <1>2, <1>3, <1>4, <1>5, <1>6, <1>7, <1>8, <1>9, <1>10, <1>11

LEMMA HarmlessIds ==
    ASSUME TypeInv, IdsInv, NEW w \in Workers, Harmless(w) PROVE IdsInv'
  BY DEF Harmless, IdsInv, Holding, Pair, MappedBelow, HeldFresh, HeldApart,
         ScoreIdsUnshared, MapsRecorded, LoadedOwn, PostedOwn, ScoresPosted

LEMMA GenerateIdIds ==
    ASSUME TypeInv, IdsInv, NEW w \in Workers, GenerateId(w) PROVE IdsInv'
  <1> DEFINE t == TableOf[Op(w)]
  <1>1. Op(w) \in {"playerInsert", "gameInsert", "scoreMapInsert"}
    BY RequestFacts DEF GenerateId, OpsAt
  <1>2. /\ t \in Tables /\ idGen["scoreMap"] \in Nat
        /\ AfterId[Op(w)] = "saveScoreMap" => t = "scoreMap"
        /\ AfterId[Op(w)] # "saveScore"
    BY <1>1 DEF TableOf, AfterId, Tables, TypeInv, TypeOK
  <1>3. /\ idGen' = [idGen EXCEPT ![t] = @ + 1]
        /\ req' = [req EXCEPT ![w].id = idGen[t] + 1, ![w].pc = AfterId[Op(w)]]
        /\ UNCHANGED <<scoreMap, scores, mapped, posted>>
    BY DEF GenerateId, history
  <1>4. /\ idGen'["scoreMap"] \in Nat /\ idGen["scoreMap"] <= idGen'["scoreMap"]
        /\ t = "scoreMap" => idGen'["scoreMap"] = idGen["scoreMap"] + 1
    BY <1>2, <1>3 DEF TypeInv, TypeOK, Tables
  <1>5. /\ \A v \in Workers \ {w} : req'[v] = req[v]
        /\ req'[w].pc = AfterId[Op(w)] /\ req'[w].id = idGen[t] + 1
    BY <1>3, RequestFacts DEF TypeInv, TypeOK, Request
  <1>6. /\ \A m \in mapped : m[2] \in Nat
        /\ \A v \in Workers : req[v].id \in Nat
    BY DEF TypeInv, TypeOK, Request, ScoreIds
  <1> HIDE DEF t
  <1>7. MappedBelow'
    BY <1>2, <1>3, <1>4, <1>6 DEF IdsInv, MappedBelow
  <1>8. HeldFresh'
    <2> SUFFICES ASSUME NEW v \in Workers, req'[v].pc = "saveScoreMap"
                 PROVE  /\ req'[v].id <= idGen'["scoreMap"]
                        /\ \A m \in mapped : m[2] # req'[v].id
      BY <1>3 DEF HeldFresh, Holding
    <2>1. CASE v = w
      <3>1. t = "scoreMap" /\ req'[v].id = idGen["scoreMap"] + 1
        BY <2>1, <1>2, <1>5
      <3>2. QED
        BY <3>1, <1>2, <1>4, <1>6 DEF IdsInv, MappedBelow
    <2>2. CASE v # w
      BY <2>2, <1>2, <1>4, <1>5, <1>6 DEF IdsInv, HeldFresh, Holding
    <2>3. QED
      BY <2>1, <2>2
  <1>9. HeldApart'
    <2> SUFFICES ASSUME NEW u \in Workers, NEW v \in Workers, u # v,
                        req'[u].pc = "saveScoreMap", req'[v].pc = "saveScoreMap"
                 PROVE  req'[u].id # req'[v].id
      BY DEF HeldApart, Holding
    <2>1. CASE u # w /\ v # w
      BY <2>1, <1>5 DEF IdsInv, HeldApart, Holding
    <2>2. ASSUME NEW x \in Workers, x # w, req'[x].pc = "saveScoreMap",
                 req'[w].pc = "saveScoreMap"
          PROVE  req'[x].id < req'[w].id
      BY <2>2, <1>2, <1>5, <1>6 DEF IdsInv, HeldFresh, Holding
    <2>3. req'[u].id \in Nat /\ req'[v].id \in Nat
      BY <1>2, <1>5, <1>6 DEF TypeInv, TypeOK
    <2>4. QED
      BY <2>1, <2>2, <2>3
  <1>10. LoadedOwn'
    <2> SUFFICES ASSUME NEW v \in Workers, req'[v].pc = "saveScore"
                 PROVE  <<<<req'[v].call.game, req'[v].call.player>>, req'[v].id>> \in mapped
      BY <1>3 DEF LoadedOwn, Pair
    <2>1. req'[v] = req[v]
      BY <1>2, <1>5
    <2>2. QED
      BY <2>1 DEF IdsInv, LoadedOwn, Pair
  <1>11. QED
    BY <1>3, <1>7, <1>8, <1>9, <1>10
       DEF IdsInv, ScoreIdsUnshared, MapsRecorded, PostedOwn, ScoresPosted

LEMMA SaveScoreMapIds ==
    ASSUME TypeInv, IdsInv, NEW w \in Workers, SaveScoreMap(w) PROVE IdsInv'
  <1> DEFINE k == Pair(w)
             i == req[w].id
  <1>1. k \in Pairs /\ i \in Nat /\ idGen["scoreMap"] \in Nat
    BY RequestFacts DEF SaveScoreMap, OpsAt, Request, TypeInv, TypeOK, Tables
  <1>2. /\ i <= idGen["scoreMap"]
        /\ \A m \in mapped : m[2] # i
        /\ \A v \in Workers \ {w} : req[v].pc = "saveScoreMap" => req[v].id # i
    BY DEF SaveScoreMap, IdsInv, HeldFresh, HeldApart, Holding
  <1>3. /\ mapped' = mapped \cup {<<k, i>>} /\ scoreMap' = HSet(scoreMap, k, i)
        /\ UNCHANGED <<idGen, scores, posted>>
    BY DEF SaveScoreMap
  <1>4. /\ \A v \in Workers \ {w} : req'[v] = req[v]
        /\ req'[w].pc \in {"respond", "idle"}
    BY RequestFacts
       DEF SaveScoreMap, CheckInserted, Proceed, Goto, Request, Idle, TypeInv, TypeOK
  <1> HIDE DEF k, i
  <1>5. MappedBelow'
    BY <1>2, <1>3 DEF IdsInv, MappedBelow
  <1>6. HeldFresh'
    <2> SUFFICES ASSUME NEW v \in Workers, req'[v].pc = "saveScoreMap"
                 PROVE  /\ req'[v].id <= idGen["scoreMap"]
                        /\ \A m \in mapped' : m[2] # req'[v].id
      BY <1>3 DEF HeldFresh, Holding
    <2>1. v # w /\ req'[v] = req[v] /\ req[v].id # i
      BY <1>2, <1>4
    <2>2. QED
      BY <2>1, <1>3 DEF IdsInv, HeldFresh, Holding
  <1>7. HeldApart'
    BY <1>4 DEF IdsInv, HeldApart, Holding
  <1>8. ScoreIdsUnshared'
    BY <1>2, <1>3 DEF IdsInv, ScoreIdsUnshared
  <1>9. MapsRecorded'
    BY <1>3 DEF IdsInv, MapsRecorded, HSet
  <1>10. LoadedOwn'
    <2> SUFFICES ASSUME NEW v \in Workers, req'[v].pc = "saveScore"
                 PROVE  <<<<req'[v].call.game, req'[v].call.player>>, req'[v].id>> \in mapped'
      BY DEF LoadedOwn, Pair
    <2>1. req'[v] = req[v]
      BY <1>4
    <2>2. QED
      BY <2>1, <1>3 DEF IdsInv, LoadedOwn, Pair
  <1>11. PostedOwn' /\ ScoresPosted'
    BY <1>3 DEF IdsInv, PostedOwn, ScoresPosted
  <1>12. QED
    BY <1>5, <1>6, <1>7, <1>8, <1>9, <1>10, <1>11 DEF IdsInv

LEMMA GetScoreMapIds ==
    ASSUME TypeInv, IdsInv, NEW w \in Workers, GetScoreMap(w) PROVE IdsInv'
  <1> DEFINE r == IF HGetHit(scoreMap, Pair(w))
                  THEN [req[w] EXCEPT !.id = scoreMap[Pair(w)], !.pc = AfterMap[Op(w)]]
                  ELSE Idle
  <1>1. AfterMap[Op(w)] # "saveScoreMap"
    BY RequestFacts DEF GetScoreMap, OpsAt, AfterMap
  <1>2. req' = [req EXCEPT ![w] = r] /\ UNCHANGED <<redis, history>>
    BY DEF GetScoreMap, Proceed
  <1>3. r.pc # "saveScoreMap"
    BY <1>1, RequestFacts DEF Request, Idle
  <1>4. ASSUME r.pc = "saveScore"
        PROVE  <<<<r.call.game, r.call.player>>, r.id>> \in mapped
    <2>1. CASE HGetHit(scoreMap, Pair(w))
      <3>1. r.call = req[w].call /\ r.id = scoreMap[Pair(w)]
        BY <2>1, RequestFacts DEF Request
      <3>2. QED
        BY <2>1, <3>1 DEF IdsInv, MapsRecorded, HGetHit, Pair
    <2>2. CASE ~HGetHit(scoreMap, Pair(w))
      BY <1>4, <2>2 DEF Idle
    <2>3. QED
      BY <2>1, <2>2
  <1>5. req'[w] = r /\ \A v \in Workers \ {w} : req'[v] = req[v]
    <2> HIDE DEF r
    <2> QED
      BY <1>2 DEF TypeInv, TypeOK
  <1> HIDE DEF r
  <1>6. HeldFresh' /\ HeldApart'
    BY <1>2, <1>3, <1>5 DEF IdsInv, HeldFresh, HeldApart, Holding, redis, history
  <1>7. LoadedOwn'
    <2> SUFFICES ASSUME NEW v \in Workers, req'[v].pc = "saveScore"
                 PROVE  <<<<req'[v].call.game, req'[v].call.player>>, req'[v].id>> \in mapped
      BY <1>2 DEF LoadedOwn, Pair, history
    <2>1. CASE v = w
      BY <2>1, <1>4, <1>5
    <2>2. CASE v # w
      BY <2>2, <1>5 DEF IdsInv, LoadedOwn, Pair
    <2>3. QED
      BY <2>1, <2>2
  <1>8. QED
    BY <1>2, <1>6, <1>7 DEF IdsInv, MappedBelow, ScoreIdsUnshared, MapsRecorded,
                            PostedOwn, ScoresPosted, redis, history

LEMMA SaveScoreIds ==
    ASSUME TypeInv, IdsInv, NEW w \in Workers, SaveScore(w) PROVE IdsInv'
  <1>1. PICK d \in Dates :
            LET e == NewEntry(w, d)
            IN  /\ scores' = HSet(scores, <<e.id, d>>, e.score)
                /\ posted' = posted \cup {e}
                /\ CheckInserted(w, HSetReply(scores, <<e.id, d>>),
                                 [req[w] EXCEPT !.answer = {e}, !.pc = "respond"])
    BY DEF SaveScore
  <1> DEFINE e == NewEntry(w, d)
  <1>2. e.pair = Pair(w) /\ e.id = req[w].id
    BY DEF NewEntry
  <1>3. <<e.pair, e.id>> \in mapped
    BY <1>2 DEF SaveScore, IdsInv, LoadedOwn
  <1>4. /\ \A v \in Workers \ {w} : req'[v] = req[v]
        /\ req'[w].pc \in {"respond", "idle"}
    BY <1>1, RequestFacts DEF CheckInserted, Proceed, Request, Idle, TypeInv, TypeOK
  <1>5. posted' = posted \cup {e} /\ scores' = HSet(scores, <<e.id, d>>, e.score)
        /\ UNCHANGED <<idGen, scoreMap, mapped>>
    BY <1>1 DEF SaveScore
  <1> HIDE DEF e
  <1>6. PostedOwn'
    BY <1>3, <1>5 DEF IdsInv, PostedOwn
  <1>7. ScoresPosted'
    <2> SUFFICES ASSUME NEW k \in DOMAIN scores' PROVE \E f \in posted' : f.id = k[1]
      BY DEF ScoresPosted
    <2>1. k \in DOMAIN scores \cup {<<e.id, d>>}
      BY <1>5 DEF HSet
    <2>2. QED
      BY <2>1, <1>5 DEF IdsInv, ScoresPosted
  <1>8. HeldFresh' /\ HeldApart' /\ LoadedOwn'
    BY <1>4, <1>5 DEF IdsInv, HeldFresh, HeldApart, LoadedOwn, Holding, Pair
  <1>9. QED
    BY <1>5, <1>6, <1>7, <1>8 DEF IdsInv, MappedBelow, ScoreIdsUnshared, MapsRecorded

LEMMA InitIds == Init => IdsInv
  BY DEF Init, IdsInv, Holding, Idle, EmptyHash, MappedBelow, HeldFresh, HeldApart,
         ScoreIdsUnshared, MapsRecorded, LoadedOwn, PostedOwn, ScoresPosted

LEMMA NextIds == TypeInv /\ IdsInv /\ [Next]_vars => IdsInv'
  <1> SUFFICES ASSUME TypeInv, IdsInv, [Next]_vars PROVE IdsInv'
    OBVIOUS
  <1>1. CASE UNCHANGED vars
    BY <1>1 DEF vars, redis, history, IdsInv, Holding, Pair, MappedBelow, HeldFresh,
                HeldApart, ScoreIdsUnshared, MapsRecorded, LoadedOwn, PostedOwn, ScoresPosted
  <1>2. ASSUME NEW w \in Workers, Submit(w) \/ Step(w) \/ Abort(w) PROVE IdsInv'
    BY <1>2, HarmlessSteps, HarmlessIds, GenerateIdIds, SaveScoreMapIds, GetScoreMapIds,
       SaveScoreIds DEF Step
  <1>3. QED
    BY <1>1, <1>2 DEF Next

THEOREM IdsInvariant == Spec => [](TypeInv /\ IdsInv)
  BY InitTypeInv, NextTypeInv, InitIds, NextIds, PTL DEF Spec

\* No score id is ever given to two pairs, in any interleaving of any number
\* of requests: the concurrent ScoreMap.inserts cannot mix two boards.
THEOREM UnsharedIds == Spec => []ScoreIdsUnshared
  <1>1. IdsInv => ScoreIdsUnshared
    BY DEF IdsInv
  <1>2. QED
    BY <1>1, IdsInvariant, PTL

\* Every score is written under a score id of the pair it is posted for,
\* although the id may be replaced between the read and the write.
THEOREM ScoresAreOwn == Spec => []OwnScores
  <1>1. TypeInv /\ IdsInv => OwnScores
    BY DEF IdsInv, PostedOwn, ScoreIdsUnshared, OwnScores
  <1>2. QED
    BY <1>1, IdsInvariant, PTL

----------------------------------------------------------------------------
(***************************************************************************)
(* Accepted scores.  An entry of posted stays at its field unless another  *)
(* entry was posted there, and a pair once mapped stays mapped.            *)
(***************************************************************************)
Stored ==
    \A e \in posted :
        /\ <<e.id, e.date>> \in DOMAIN scores
        /\ scores[<<e.id, e.date>>] = e.score \/ Overwritten(e)

MappedShown == \A m \in mapped : m[1] \in DOMAIN scoreMap

KeptInv == Stored /\ MappedShown

LEMMA OtherStepsWriteNoScore ==
    ASSUME NEW w \in Workers,
           Submit(w) \/ Step(w) \/ Abort(w),
           ~SaveScore(w), ~SaveScoreMap(w)
    PROVE  UNCHANGED <<scoreMap, scores, mapped, posted>>
  BY DEF Step, Submit, Abort, GetPlayer, GetGame, GenerateId, SaveName, SaveCity, SaveColumn,
         GetScoreMap, GetScore, TopMap, TopScores, TopPlayer, Respond, redis, history

LEMMA SaveScoreKept ==
    ASSUME TypeInv, KeptInv, NEW w \in Workers, SaveScore(w) PROVE KeptInv'
  <1>1. PICK d \in Dates :
            LET e == NewEntry(w, d)
            IN  /\ scores' = HSet(scores, <<e.id, d>>, e.score)
                /\ posted' = posted \cup {e}
    BY DEF SaveScore
  <1> DEFINE e == NewEntry(w, d)
  <1>2. e.date = d
    BY DEF NewEntry
  <1>3. UNCHANGED <<scoreMap, mapped>>
    BY DEF SaveScore
  <1>4. ASSUME NEW f \in posted'
        PROVE  /\ <<f.id, f.date>> \in DOMAIN scores'
               /\ scores'[<<f.id, f.date>>] = f.score \/ Overwritten(f)'
    <2> HIDE DEF e
    <2>1. CASE f = e
      BY <2>1, <1>1, <1>2 DEF HSet, e
    <2>2. CASE f # e /\ f.id = e.id /\ f.date = e.date
      <3>1. Overwritten(f)'
        BY <2>2, <1>1 DEF Overwritten, e
      <3>2. QED
        BY <3>1, <2>2, <1>1, <1>2 DEF HSet, e
    <2>3. CASE f # e /\ ~(f.id = e.id /\ f.date = e.date)
      <3>1. f \in posted /\ <<f.id, f.date>> # <<e.id, d>>
        BY <2>3, <1>1, <1>2 DEF e
      <3>2. <<f.id, f.date>> \in DOMAIN scores'
            /\ scores'[<<f.id, f.date>>] = scores[<<f.id, f.date>>]
        BY <3>1, <1>1 DEF KeptInv, Stored, HSet, e
      <3>3. Overwritten(f) => Overwritten(f)'
        BY <1>1 DEF Overwritten
      <3>4. QED
        BY <3>1, <3>2, <3>3 DEF KeptInv, Stored
    <2>4. QED
      BY <2>1, <2>2, <2>3
  <1>5. Stored'
    BY <1>4 DEF Stored
  <1>6. QED
    BY <1>3, <1>5 DEF KeptInv, MappedShown

LEMMA NextKept == TypeInv /\ KeptInv /\ [Next]_vars => KeptInv'
  <1> SUFFICES ASSUME TypeInv, KeptInv, [Next]_vars PROVE KeptInv'
    OBVIOUS
  <1> USE DEF KeptInv, Stored, MappedShown, Overwritten
  <1>1. CASE UNCHANGED vars
    BY <1>1 DEF vars, redis, history
  <1>2. ASSUME NEW w \in Workers, SaveScoreMap(w) PROVE KeptInv'
    BY <1>2 DEF SaveScoreMap, HSet
  <1>3. ASSUME NEW w \in Workers, Submit(w) \/ Step(w) \/ Abort(w),
               ~SaveScore(w), ~SaveScoreMap(w)
        PROVE  KeptInv'
    BY <1>3, OtherStepsWriteNoScore
  <1>4. QED
    BY <1>1, <1>2, <1>3, SaveScoreKept DEF Next

THEOREM KeptInvariant == Spec => [](TypeInv /\ IdsInv /\ KeptInv)
  <1>1. Init => KeptInv
    BY DEF Init, KeptInv, Stored, MappedShown
  <1>2. QED
    BY <1>1, InitTypeInv, NextTypeInv, InitIds, NextIds, NextKept, PTL DEF Spec

\* No accepted score is lost: it can only be overwritten at its own score id
\* and date, and only leave the board with its whole pair.
THEOREM AcceptedScoresKept == Spec => []AckedKept
  <1>1. TypeInv /\ IdsInv /\ KeptInv => AckedKept
    <2> SUFFICES ASSUME TypeInv, IdsInv, KeptInv, NEW e \in acked
                 PROVE  /\ Overwritten(e) \/ (/\ <<e.id, e.date>> \in DOMAIN scores
                                              /\ scores[<<e.id, e.date>>] = e.score)
                        /\ Repointed(e) \/ (e.pair \in DOMAIN scoreMap
                                              /\ scoreMap[e.pair] = e.id)
      BY DEF AckedKept
    <2>1. e \in posted /\ <<e.pair, e.id>> \in mapped
      BY DEF TypeInv, TypeOK, IdsInv, PostedOwn
    <2>2. e.pair \in DOMAIN scoreMap
      BY <2>1 DEF KeptInv, MappedShown
    <2>3. <<e.pair, scoreMap[e.pair]>> \in mapped
      BY <2>2 DEF IdsInv, MapsRecorded
    <2>4. QED
      BY <2>1, <2>2, <2>3 DEF KeptInv, Stored, Repointed
  <1>2. QED
    BY <1>1, KeptInvariant, PTL

----------------------------------------------------------------------------
(***************************************************************************)
(* Accepted scores, and those of inserts that hSet has not refused and     *)
(* that are about to be answered, stand at different fields.               *)
(***************************************************************************)
Pending(w) == IF Op(w) = "scoreInsert" THEN req[w].answer ELSE {}

Accepted == acked \cup UNION {Pending(w) : w \in Workers}

OneField(S) == \A e, f \in S : e.id = f.id /\ e.date = f.date => e = f

LEMMA AcceptedPosted == ASSUME TypeInv PROVE Accepted \subseteq posted
  BY DEF TypeInv, TypeOK, Control, RequestOK, Accepted, Pending, Op

\* No step but SaveScore accepts an entry.
LEMMA AcceptedGrows ==
    ASSUME TypeInv, NEW w \in Workers, Submit(w) \/ Step(w) \/ Abort(w), ~SaveScore(w)
    PROVE  Accepted' \subseteq Accepted
  <1>1. req \in [Workers -> Request] /\ req[w] \in Request
    BY DEF TypeInv, TypeOK
  <1>2. CASE Respond(w)
    BY <1>1, <1>2 DEF Respond, Accepted, Pending, Op, Idle
  <1>3. ASSUME ~Respond(w) PROVE acked' = acked /\ Pending(w)' \subseteq Pending(w)
                                /\ \A v \in Workers \ {w} : req'[v] = req[v]
    <2> USE <1>1, <1>3 DEF Pending, Op, Idle, redis, history
    <2>1. CASE Submit(w)
      BY <2>1 DEF Submit
    <2>2. CASE GetPlayer(w) \/ GetGame(w) \/ GetScore(w)
      BY <2>2 DEF GetPlayer, GetGame, GetScore, Proceed, Goto, Request
    <2>3. CASE SaveName(w) \/ SaveCity(w)
      BY <2>3 DEF SaveName, SaveCity, SaveColumn, CheckInserted, Proceed, Goto, Request
    <2>4. CASE GenerateId(w)
      BY <2>4 DEF GenerateId, Request
    <2>5. CASE SaveScoreMap(w)
      BY <2>5 DEF SaveScoreMap, CheckInserted, Proceed, Goto, Request
    <2>6. CASE GetScoreMap(w)
      BY <2>6 DEF GetScoreMap, Proceed, Request
    <2>7. CASE TopMap(w)
      BY <2>7 DEF TopMap, Request
    <2>8. CASE TopScores(w)
      <3>1. Op(w) = "getTop"
        BY <2>8, RequestFacts DEF TopScores, OpsAt
      <3>2. PICK m \in req[w].todo :
                req' = [req EXCEPT ![w].todo = @ \ {m},
                                   ![w].id = m[1][2],
                                   ![w].answer = @ \cup ScoresOf(m[1], m[2]),
                                   ![w].pc = "topPlayer"]
        BY <2>8 DEF TopScores
      <3>3. QED
        BY <2>8, <3>1, <3>2 DEF TopScores, Request
    <2>9. CASE TopPlayer(w)
      BY <2>9 DEF TopPlayer, Proceed, Goto, Request
    <2>10. CASE Abort(w)
      BY <2>10 DEF Abort
    <2>11. QED
      BY <2>1, <2>2, <2>3, <2>4, <2>5, <2>6, <2>7, <2>8, <2>9, <2>10 DEF Step
  <1>4. CASE ~Respond(w)
    BY <1>3, <1>4 DEF Accepted, Pending, Op
  <1>5. QED
    BY <1>2, <1>4

LEMMA SaveScoreOneField ==
    ASSUME TypeInv, KeptInv, OneField(Accepted), NEW w \in Workers, SaveScore(w)
    PROVE  OneField(Accepted')
  <1>1. PICK d \in Dates :
            LET e == NewEntry(w, d)
            IN  CheckInserted(w, HSetReply(scores, <<e.id, d>>),
                              [req[w] EXCEPT !.answer = {e}, !.pc = "respond"])
    BY DEF SaveScore
  <1> DEFINE e == NewEntry(w, d)
             fresh == <<e.id, d>> \notin DOMAIN scores
  <1>2. e.date = d
    BY DEF NewEntry
  <1>3. /\ acked' = acked
        /\ \A v \in Workers \ {w} : req'[v] = req[v]
        /\ Pending(w)' = IF fresh THEN {e} ELSE {}
    <2>1. Op(w) = "scoreInsert" /\ req[w] \in Request /\ req \in [Workers -> Request]
      BY RequestFacts DEF SaveScore, OpsAt, TypeInv, TypeOK
    <2>2. acked' = acked
      BY DEF SaveScore
    <2> HIDE DEF e
    <2>3. req' = [req EXCEPT ![w] = IF fresh
                                    THEN [req[w] EXCEPT !.answer = {e}, !.pc = "respond"]
                                    ELSE Idle]
      <3>1. (HSetReply(scores, <<e.id, d>>) = 1) = fresh
        BY DEF HSetReply
      <3>2. CheckInserted(w, HSetReply(scores, <<e.id, d>>),
                          [req[w] EXCEPT !.answer = {e}, !.pc = "respond"])
        BY <1>1 DEF e
      <3> HIDE DEF fresh
      <3>3. QED
        BY <3>1, <3>2 DEF CheckInserted, Proceed
    <2>4. QED
      BY <2>1, <2>2, <2>3 DEF Pending, Op, Request, Idle
  <1> HIDE DEF e
  <1>4. CASE fresh
    <2>1. Accepted' \subseteq Accepted \cup {e}
      BY <1>3, <1>4 DEF Accepted, Pending, Op
    <2>2. \A f \in Accepted : <<f.id, f.date>> \in DOMAIN scores
      BY AcceptedPosted DEF KeptInv, Stored
    <2>3. \A f \in Accepted : ~(f.id = e.id /\ f.date = e.date)
      BY <2>2, <1>2, <1>4 DEF e
    <2>4. QED
      BY <2>1, <2>3 DEF OneField
  <1>5. CASE ~fresh
    <2>1. Accepted' \subseteq Accepted
      BY <1>3, <1>5 DEF Accepted, Pending, Op
    <2>2. QED
      BY <2>1 DEF OneField
  <1>6. QED
    BY <1>4, <1>5

LEMMA NextOneField == TypeInv /\ KeptInv /\ OneField(Accepted) /\ [Next]_vars => OneField(Accepted')
  <1> SUFFICES ASSUME TypeInv, KeptInv, OneField(Accepted), [Next]_vars
               PROVE  OneField(Accepted')
    OBVIOUS
  <1>1. CASE UNCHANGED vars
    BY <1>1 DEF vars, history, Accepted, Pending, Op
  <1>2. ASSUME NEW w \in Workers, Submit(w) \/ Step(w) \/ Abort(w), ~SaveScore(w)
        PROVE  OneField(Accepted')
    BY <1>2, AcceptedGrows DEF OneField
  <1>3. QED
    BY <1>1, <1>2, SaveScoreOneField DEF Next

\* Two scores a client was told are accepted never share a score id and a
\* date, however the clock of the server jumps.
THEOREM AcceptedScoresApart == Spec => []OneAckPerField
  <1> DEFINE Inv == OneField(Accepted)
  <1>1. Init => Inv
    BY DEF Init, Accepted, Pending, Op, Idle, OneField
  <1>2. TypeInv /\ KeptInv /\ Inv /\ [Next]_vars => Inv'
    BY NextOneField DEF OneField
  <1>3. Inv => OneAckPerField
    BY DEF OneField, Accepted, OneAckPerField
  <1> HIDE DEF Inv
  <1>4. QED
    BY <1>1, <1>2, <1>3, KeptInvariant, PTL DEF Spec
================================================================================
