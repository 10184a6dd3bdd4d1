------------------------------ MODULE BoardProofs ------------------------------
(***************************************************************************)
(* Theorems about what ScoreService reads and answers: ids in hand, the    *)
(* objects score maps refer to, leaderboards, and that the service         *)
(* implements Leaderboard.  They rest on the invariants of                 *)
(* ScoreServiceProofs.                                                     *)
(***************************************************************************)
EXTENDS ScoreServiceProofs, FiniteSetTheorems

(***************************************************************************)
(* Ids of games and players.  A request that has generated an id writes    *)
(* name and city under it; nobody else holds the id, no row has it before  *)
(* the name is written, and the counter is never below it.                 *)
(***************************************************************************)
Saving(w) == req[w].pc \in {"saveName", "saveCity"}

RowsBelow == \A r \in rows : r[2] <= idGen[r[1]]

SavingBelow == \A w \in Workers : Saving(w) => req[w].id <= idGen[TableOf[Op(w)]]

SavingFresh ==
    \A w \in Workers : req[w].pc = "saveName" =>
        \A r \in rows : ~(r[1] = TableOf[Op(w)] /\ r[2] = req[w].id)

SavingApart ==
    \A v, w \in Workers : v # w /\ Saving(v) /\ Saving(w) =>
        TableOf[Op(v)] # TableOf[Op(w)] \/ req[v].id # req[w].id

RowsInv == RowsBelow /\ SavingBelow /\ SavingFresh /\ SavingApart

\* One step of w: the others keep their requests.
LEMMA OthersWait ==
    ASSUME TypeInv, NEW w \in Workers, Submit(w) \/ Step(w) \/ Abort(w)
    PROVE  \A v \in Workers \ {w} : req'[v] = req[v]
  BY DEF TypeInv, TypeOK, Step, Submit, Abort, GetPlayer, GetGame, GenerateId, SaveName,
         SaveCity, SaveColumn, SaveScoreMap, GetScoreMap, SaveScore, GetScore, TopMap,
         TopScores, TopPlayer, Respond, CheckInserted, Proceed

(***************************************************************************)
(* What each step makes of the request of its worker.                      *)
(***************************************************************************)
LEMMA Begun ==
    ASSUME TypeInv, NEW w \in Workers, Submit(w)
    PROVE  \E c \in Calls :
             /\ c.op \in AllOps
             /\ req'[w].pc = FirstStep[c.op] /\ req'[w].call = c
             /\ req'[w].todo = {} /\ req'[w].answer = {}
             /\ req'[w].before = IF c.op = "getTop" THEN Reachable ELSE {}
  <1>1. PICK c \in Calls :
            /\ c.op \in Ops
            /\ req' = [req EXCEPT ![w] =
                          [Idle EXCEPT !.pc = FirstStep[c.op], !.call = c,
                                       !.before = IF c.op = "getTop" THEN Reachable ELSE {}]]
    BY DEF Submit
  <1> DEFINE b == IF c.op = "getTop" THEN Reachable ELSE {}
  <1>2. req'[w] = [Idle EXCEPT !.pc = FirstStep[c.op], !.call = c, !.before = b]
    BY <1>1 DEF TypeInv, TypeOK
  <1>3. c.op \in AllOps
    BY <1>1, ServiceAssumption
  <1> HIDE DEF b
  <1>4. req'[w].pc = FirstStep[c.op] /\ req'[w].call = c /\ req'[w].todo = {}
        /\ req'[w].answer = {} /\ req'[w].before = b
    BY <1>2 DEF Idle
  <1>5. QED
    BY <1>3, <1>4 DEF b

LEMMA Moved ==
    ASSUME TypeInv, NEW w \in Workers
    PROVE  /\ GetPlayer(w) =>
                 \/ req'[w] = Idle
                 \/ /\ Exists("players", req[w].call.player)
                    /\ req'[w] = Goto(w, AfterPlayer[Op(w)])
           /\ GetGame(w) =>
                 \/ req'[w] = Idle
                 \/ /\ Exists("games", req[w].call.game)
                    /\ req'[w] = Goto(w, AfterGame[Op(w)])
           /\ GetScore(w) => req'[w] \in {Idle, Goto(w, "respond")}
           /\ SaveName(w) => req'[w] \in {Idle, Goto(w, AfterName[Op(w)])}
           /\ SaveCity(w) => req'[w] \in {Idle, Goto(w, "respond")}
           /\ SaveScoreMap(w) => req'[w] \in {Idle, Goto(w, "respond")}
           /\ TopPlayer(w) => req'[w] \in {Idle, Goto(w, TopNext(req[w].todo))}
           /\ Respond(w) => req'[w] = Idle
           /\ Abort(w) => req'[w] = Idle
  BY DEF TypeInv, TypeOK, GetPlayer, GetGame, GetScore, SaveName, SaveCity, SaveColumn,
         SaveScoreMap, TopPlayer, Respond, Abort, CheckInserted, Proceed

LEMMA MovedOn ==
    ASSUME TypeInv, NEW w \in Workers
    PROVE  /\ GenerateId(w) =>
                 req'[w] = [req[w] EXCEPT !.id = idGen[TableOf[Op(w)]] + 1, !.pc = AfterId[Op(w)]]
           /\ GetScoreMap(w) =>
                 \/ req'[w] = Idle
                 \/ /\ Pair(w) \in DOMAIN scoreMap
                    /\ req'[w] = [req[w] EXCEPT !.id = scoreMap[Pair(w)], !.pc = AfterMap[Op(w)]]
           /\ SaveScore(w) =>
                 \/ req'[w] = Idle
                 \/ \E d \in Dates :
                       req'[w] = [req[w] EXCEPT !.answer = {NewEntry(w, d)}, !.pc = "respond"]
  BY DEF TypeInv, TypeOK, GenerateId, GetScoreMap, SaveScore, CheckInserted, Proceed, HGetHit

MapsOf(game) == {<<k, scoreMap[k]>> : k \in {l \in DOMAIN scoreMap : l[1] = game}}

LEMMA MovedTop ==
    ASSUME TypeInv, NEW w \in Workers
    PROVE  /\ TopMap(w) =>
                 \E t \in {MapsOf(req[w].call.game)} :
                     req'[w] = [req[w] EXCEPT !.todo = t, !.pc = TopNext(t)]
           /\ TopScores(w) =>
                 \E m \in req[w].todo :
                     req'[w] = [req[w] EXCEPT !.todo = @ \ {m}, !.id = m[1][2],
                                              !.answer = @ \cup ScoresOf(m[1], m[2]),
                                              !.pc = "topPlayer"]
  <1>1. req \in [Workers -> Request] /\ req[w] \in Request
    BY DEF TypeInv, TypeOK
  <1>2. ASSUME TopMap(w)
        PROVE  \E t \in {MapsOf(req[w].call.game)} :
                   req'[w] = [req[w] EXCEPT !.todo = t, !.pc = TopNext(t)]
    <2> DEFINE t == MapsOf(req[w].call.game)
    <2>1. req' = [req EXCEPT ![w].todo = t, ![w].pc = TopNext(t)]
      BY <1>2 DEF TopMap, MapsOf
    <2> HIDE DEF t
    <2>2. req'[w] = [req[w] EXCEPT !.todo = t, !.pc = TopNext(t)]
      BY <1>1, <2>1
    <2>3. QED
      BY <2>2 DEF t
  <1>3. ASSUME TopScores(w)
        PROVE  \E m \in req[w].todo :
                   req'[w] = [req[w] EXCEPT !.todo = @ \ {m}, !.id = m[1][2],
                                            !.answer = @ \cup ScoresOf(m[1], m[2]),
                                            !.pc = "topPlayer"]
    BY <1>1, <1>3 DEF TopScores
  <1>4. QED
    BY <1>2, <1>3

LEMMA IdlePc == Idle.pc = "idle" /\ Idle.todo = {} /\ Idle.answer = {} /\ Idle.before = {}
                /\ Idle.call.op = "none"
  BY DEF Idle

\* Only GenerateId leads to a row to save, and only the two saves write one.
LEMMA RowsKept ==
    ASSUME TypeInv, NEW w \in Workers, Submit(w) \/ Step(w) \/ Abort(w),
           ~GenerateId(w), ~SaveName(w), ~SaveCity(w)
    PROVE  UNCHANGED <<idGen, rows>> /\ req'[w].pc \notin {"saveName", "saveCity"}
  <1>1. UNCHANGED <<idGen, rows>>
    BY DEF Step, Submit, Abort, GetPlayer, GetGame, SaveScoreMap, GetScoreMap, SaveScore,
           GetScore, TopMap, TopScores, TopPlayer, Respond, redis
  <1>2. req[w] \in Request /\ Op(w) \in OpsAt[req[w].pc]
    BY RequestFacts
  <1> SUFFICES req'[w].pc \notin {"saveName", "saveCity"}
    BY <1>1
  <1>3. CASE Submit(w)
    <2>1. PICK c \in Calls : c.op \in AllOps /\ req'[w].pc = FirstStep[c.op]
      BY <1>3, Begun
    <2>2. FirstStep[c.op] \notin {"saveName", "saveCity"}
      BY <2>1 DEF FirstStep, AllOps, Inserts, Reads
    <2>3. QED
      BY <2>1, <2>2
  <1>4. CASE GetPlayer(w)
    <2>1. AfterPlayer[Op(w)] \notin {"saveName", "saveCity"}
      BY <1>2, <1>4 DEF GetPlayer, OpsAt, AfterPlayer
    <2>2. QED
      BY <1>2, <1>4, <2>1, Moved, IdlePc DEF Goto, Request
  <1>5. CASE GetGame(w)
    <2>1. AfterGame[Op(w)] \notin {"saveName", "saveCity"}
      BY <1>2, <1>5 DEF GetGame, OpsAt, AfterGame
    <2>2. QED
      BY <1>2, <1>5, <2>1, Moved, IdlePc DEF Goto, Request
  <1>6. CASE GetScore(w) \/ SaveScoreMap(w) \/ Respond(w) \/ Abort(w)
    BY <1>2, <1>6, Moved, IdlePc DEF Goto, Request
  <1>7. CASE TopPlayer(w)
    <2>1. TopNext(req[w].todo) \notin {"saveName", "saveCity"}
      BY TopNextFits
    <2>2. QED
      BY <1>2, <1>7, <2>1, Moved, IdlePc DEF Goto, Request
  <1>8. CASE GetScoreMap(w)
    <2>1. AfterMap[Op(w)] \notin {"saveName", "saveCity"}
      BY <1>2, <1>8 DEF GetScoreMap, OpsAt, AfterMap
    <2>2. QED
      BY <1>2, <1>8, <2>1, MovedOn, IdlePc DEF Request
  <1>9. CASE SaveScore(w)
    BY <1>2, <1>9, MovedOn, IdlePc DEF Request
  <1>10. CASE TopMap(w)
    <2>1. PICK t : req'[w] = [req[w] EXCEPT !.todo = t, !.pc = TopNext(t)]
      BY <1>10, MovedTop
    <2>2. TopNext(t) \notin {"saveName", "saveCity"}
      BY TopNextFits
    <2>3. QED
      BY <1>2, <2>1, <2>2 DEF Request
  <1>11. CASE TopScores(w)
    BY <1>2, <1>11, MovedTop DEF Request
  <1>12. QED
    BY <1>3, <1>4, <1>5, <1>6, <1>7, <1>8, <1>9, <1>10, <1>11 DEF Step

LEMMA GenerateIdRows ==
    ASSUME TypeInv, RowsInv, NEW w \in Workers, GenerateId(w) PROVE RowsInv'
  <1> DEFINE t == TableOf[Op(w)]
             i == idGen[t] + 1
  <1>1. Op(w) \in {"playerInsert", "gameInsert", "scoreMapInsert"}
    BY RequestFacts DEF GenerateId, OpsAt
  <1>2. t \in Tables /\ idGen[t] \in Nat
    BY <1>1 DEF TableOf, Tables, TypeInv, TypeOK
  <1>3. /\ req'[w].id = i /\ req'[w].call = req[w].call
        /\ \A v \in Workers \ {w} : req'[v] = req[v]
        /\ UNCHANGED rows
    <2>1. \A v \in Workers \ {w} : req'[v] = req[v]
      BY OthersWait DEF Step
    <2>2. req'[w] = [req[w] EXCEPT !.id = i, !.pc = AfterId[Op(w)]] /\ req[w] \in Request
      BY MovedOn, RequestFacts
    <2>3. req'[w].id = i /\ req'[w].call = req[w].call
      BY <2>2 DEF Request
    <2>4. QED
      BY <2>1, <2>3 DEF GenerateId
  <1>4. /\ idGen' \in [Tables -> Nat] /\ idGen'[t] = i
        /\ \A u \in Tables : idGen[u] <= idGen'[u]
    BY <1>2 DEF GenerateId, TypeInv, TypeOK
  <1>5. \A r \in rows : r[1] \in Tables /\ r[2] \in Nat
    BY DEF TypeInv, TypeOK, Tables
  <1>6. \A v \in Workers : req[v].id \in Nat /\ (Saving(v) => TableOf[Op(v)] \in Tables)
    BY RequestFacts DEF Saving, OpsAt, TableOf, Tables, Request
  <1>7. TableOf[Op(w)'] = t
    BY <1>3 DEF Op
  <1>8. idGen \in [Tables -> Nat]
    BY DEF TypeInv, TypeOK
  <1> HIDE DEF t
  <1>9. RowsBelow'
    BY <1>3, <1>4, <1>5, <1>8 DEF RowsInv, RowsBelow
  <1>10. SavingBelow'
    <2> SUFFICES ASSUME NEW v \in Workers, Saving(v)'
                 PROVE  req'[v].id <= idGen'[TableOf[Op(v)']]
      BY DEF SavingBelow
    <2>1. CASE v = w
      BY <2>1, <1>2, <1>3, <1>4, <1>7
    <2>2. CASE v # w
      <3>1. Saving(v) /\ req'[v].id = req[v].id /\ Op(v)' = Op(v)
        BY <2>2, <1>3 DEF Saving, Op
      <3>2. TableOf[Op(v)] \in Tables
        BY <3>1, <1>6
      <3>3. QED
        BY <3>1, <3>2, <1>4, <1>6, <1>8 DEF RowsInv, SavingBelow
    <2>3. QED
      BY <2>1, <2>2
  <1>11. SavingFresh'
    <2> SUFFICES ASSUME NEW v \in Workers, req'[v].pc = "saveName", NEW r \in rows,
                        r[1] = TableOf[Op(v)'], r[2] = req'[v].id
                 PROVE  FALSE
      BY <1>3 DEF SavingFresh
    <2>1. CASE v = w
      BY <2>1, <1>2, <1>3, <1>7, <1>5 DEF RowsInv, RowsBelow
    <2>2. CASE v # w
      BY <2>2, <1>3 DEF RowsInv, SavingFresh, Op
    <2>3. QED
      BY <2>1, <2>2
  <1>12. SavingApart'
    <2>1. ASSUME NEW v \in Workers \ {w}, Saving(v), TableOf[Op(v)] = t PROVE req[v].id # i
      BY <2>1, <1>2, <1>6 DEF RowsInv, SavingBelow
    <2>2. \A v \in Workers \ {w} : /\ Saving(v)' = Saving(v) /\ Op(v)' = Op(v)
                                   /\ req'[v].id = req[v].id
      BY <1>3 DEF Saving, Op
    <2> SUFFICES ASSUME NEW u \in Workers, NEW v \in Workers, u # v, Saving(u)', Saving(v)'
                 PROVE  TableOf[Op(u)'] # TableOf[Op(v)'] \/ req'[u].id # req'[v].id
      BY DEF SavingApart
    <2>3. CASE u # w /\ v # w
      BY <2>2, <2>3 DEF RowsInv, SavingApart
    <2>4. CASE u = w
      BY <2>1, <2>2, <2>4, <1>3, <1>7
    <2>5. CASE v = w
      BY <2>1, <2>2, <2>5, <1>3, <1>7
    <2>6. QED
      BY <2>3, <2>4, <2>5
  <1>13. QED
    BY <1>9, <1>10, <1>11, <1>12 DEF RowsInv

\* A save writes a row of the id in hand and keeps or drops the id.
LEMMA SaveRows ==
    ASSUME TypeInv, RowsInv, NEW w \in Workers, SaveName(w) \/ SaveCity(w) PROVE RowsInv'
  <1> DEFINE t == TableOf[Op(w)]
  <1>1. /\ \A v \in Workers \ {w} : req'[v] = req[v]
        /\ req'[w].pc # "saveName"
        /\ Saving(w)' => Op(w)' = Op(w) /\ req'[w].id = req[w].id
    <2>1. CASE SaveName(w)
      <3>1. AfterName[Op(w)] # "saveName"
        BY <2>1, RequestFacts DEF SaveName, OpsAt, AfterName
      <3>2. QED
        BY <2>1, <3>1, Moved, OthersWait, IdlePc, RequestFacts
           DEF Step, Goto, Request, Saving, Op
    <2>2. CASE SaveCity(w)
      BY <2>2, Moved, OthersWait, IdlePc, RequestFacts DEF Step, Goto, Request, Saving, Op
    <2>3. QED
      BY <2>1, <2>2
  <1>2. Saving(w) /\ UNCHANGED idGen
    BY DEF SaveName, SaveCity, SaveColumn, Saving
  <1>3. \A r \in rows' : r \in rows \/ (r[1] = t /\ r[2] = req[w].id)
    BY DEF SaveName, SaveCity, SaveColumn
  <1> HIDE DEF t
  <1>4. RowsBelow'
    BY <1>2, <1>3 DEF RowsInv, RowsBelow, SavingBelow, t
  <1>5. SavingBelow'
    BY <1>1, <1>2 DEF RowsInv, SavingBelow, Saving, Op
  <1>6. SavingFresh'
    BY <1>1, <1>2, <1>3 DEF RowsInv, SavingFresh, SavingApart, Saving, Op, t
  <1>7. SavingApart'
    BY <1>1, <1>2 DEF RowsInv, SavingApart, Saving, Op
  <1>8. QED
    BY <1>4, <1>5, <1>6, <1>7 DEF RowsInv

LEMMA NextRows == TypeInv /\ RowsInv /\ [Next]_vars => RowsInv'
  <1> SUFFICES ASSUME TypeInv, RowsInv, [Next]_vars PROVE RowsInv'
    OBVIOUS
  <1>1. CASE UNCHANGED vars
    BY <1>1 DEF vars, redis, RowsInv, RowsBelow, SavingBelow, SavingFresh, SavingApart,
                Saving, Op
  <1>2. ASSUME NEW w \in Workers, Submit(w) \/ Step(w) \/ Abort(w),
               ~GenerateId(w), ~SaveName(w), ~SaveCity(w)
        PROVE  RowsInv'
    BY <1>2, RowsKept, OthersWait
       DEF RowsInv, RowsBelow, SavingBelow, SavingFresh, SavingApart, Saving, Op
  <1>3. QED
    BY <1>1, <1>2, GenerateIdRows, SaveRows DEF Next

LEMMA InitRows == Init => RowsInv
  BY ServiceAssumption DEF Init, RowsInv, RowsBelow, SavingBelow, SavingFresh, SavingApart,
                           Saving, Idle, Columns

\* An id is written by the request it was generated for and by nobody else:
\* no insert of a game or a player meets rows of that id, and no new score
\* map leads to scores of another.
THEOREM FreshIds == Spec => []NewIdsAreFresh
  <1>1. TypeInv /\ IdsInv /\ RowsInv => NewIdsAreFresh
    <2> SUFFICES ASSUME TypeInv, IdsInv, RowsInv, NEW w \in Workers
                 PROVE  /\ req[w].pc = "saveName" => ~Exists(TableOf[Op(w)], req[w].id)
                        /\ req[w].pc = "saveScoreMap" =>
                              /\ \A m \in mapped : m[2] # req[w].id
                              /\ \A k \in DOMAIN scores : k[1] # req[w].id
      BY DEF NewIdsAreFresh
    <2>1. req[w].pc = "saveName" => ~Exists(TableOf[Op(w)], req[w].id)
      BY DEF RowsInv, SavingFresh, Exists
    <2>2. req[w].pc = "saveScoreMap" => \A m \in mapped : m[2] # req[w].id
      BY DEF IdsInv, HeldFresh, Holding
    <2>3. \A k \in DOMAIN scores : \E m \in mapped : m[2] = k[1]
      BY DEF IdsInv, ScoresPosted, PostedOwn
    <2>4. QED
      BY <2>1, <2>2, <2>3
  <1>2. QED
    BY <1>1, InitTypeInv, NextTypeInv, InitIds, NextIds, InitRows, NextRows, PTL DEF Spec

----------------------------------------------------------------------------
(***************************************************************************)
(* What a request has found out stays true while it runs, because rows,    *)
(* mapped and posted only grow.  ReadOK says what that is, of a request r: *)
(* the objects a ScoreMap.insert has loaded, the score map an id was read  *)
(* from or written to, the maps getTop has still to visit, the entries it  *)
(* has found and the player it is at.                                      *)
(***************************************************************************)
Has(rs, table, i) == \E c \in Columns : <<table, i, c>> \in rs

ReadOK(r, rs, ms, ps) ==
    /\ r.call.op = "scoreMapInsert" /\ r.pc \in {"getGame", "generateId", "saveScoreMap"} =>
          Has(rs, "players", r.call.player)
    /\ r.call.op = "scoreMapInsert" /\ r.pc \in {"generateId", "saveScoreMap"} =>
          Has(rs, "games", r.call.game)
    /\ r.call.op = "scoreMapInsert" /\ r.pc = "respond" =>
          <<<<r.call.game, r.call.player>>, r.id>> \in ms
    /\ r.call.op = "scoreMapGet" /\ r.pc \in {"getGame", "respond"} =>
          <<<<r.call.game, r.call.player>>, r.id>> \in ms
    /\ r.todo \subseteq ms
    /\ r.pc = "topPlayer" => Has(rs, "players", r.id)
    /\ r.call.op = "getTop" =>
          /\ \A m \in r.todo : m[1][1] = r.call.game
          /\ \A e \in r.answer : e \in ps /\ e.pair[1] = r.call.game

RefsKept == \A m \in mapped : Has(rows, "games", m[1][1]) /\ Has(rows, "players", m[1][2])

ScoresAsPosted ==
    \A k \in DOMAIN scores :
        \E e \in posted : e.id = k[1] /\ e.date = k[2] /\ e.score = scores[k]

ReadInv ==
    /\ RefsKept /\ ScoresAsPosted
    /\ \A w \in Workers : ReadOK(req[w], rows, mapped, posted)

LEMMA ReadOKGrows ==
    ASSUME NEW r, NEW rs, NEW rs2, NEW ms, NEW ms2, NEW ps, NEW ps2,
           rs \subseteq rs2, ms \subseteq ms2, ps \subseteq ps2, ReadOK(r, rs, ms, ps)
    PROVE  ReadOK(r, rs2, ms2, ps2)
  BY DEF ReadOK, Has

LEMMA IdleRead == ASSUME NEW rs, NEW ms, NEW ps PROVE ReadOK(Idle, rs, ms, ps)
  BY DEF ReadOK, Idle

\* Nothing is taken away.
LEMMA Grows ==
    ASSUME NEW w \in Workers, Submit(w) \/ Step(w) \/ Abort(w)
    PROVE  rows \subseteq rows' /\ mapped \subseteq mapped' /\ posted \subseteq posted'
  BY DEF Step, Submit, Abort, GetPlayer, GetGame, GenerateId, SaveName, SaveCity, SaveColumn,
         SaveScoreMap, GetScoreMap, SaveScore, GetScore, TopMap, TopScores, TopPlayer,
         Respond, redis, history

\* Entries read under an id of a pair were posted for the pair.
LEMMA FoundPosted ==
    ASSUME TypeInv, IdsInv, ScoresAsPosted, NEW m \in mapped, NEW e \in ScoresOf(m[1], m[2])
    PROVE  e \in posted /\ e.pair = m[1]
  <1>1. PICK k \in DOMAIN scores :
            /\ k[1] = m[2]
            /\ e = [pair |-> m[1], id |-> m[2], date |-> k[2], score |-> scores[k]]
    BY DEF ScoresOf
  <1>2. PICK f \in posted : f.id = k[1] /\ f.date = k[2] /\ f.score = scores[k]
    BY DEF ScoresAsPosted
  <1>3. <<f.pair, f.id>> \in mapped /\ f \in Entry
    BY DEF IdsInv, PostedOwn, TypeInv, TypeOK
  <1>4. f.pair = m[1]
    BY <1>1, <1>2, <1>3 DEF IdsInv, ScoreIdsUnshared
  <1>5. f = [pair |-> f.pair, id |-> f.id, date |-> f.date, score |-> f.score]
    BY <1>3 DEF Entry
  <1>6. QED
    BY <1>1, <1>2, <1>4, <1>5

\* The request a step leaves behind.
LEMMA StepRead ==
    ASSUME TypeInv, IdsInv, ReadInv, NEW w \in Workers, Submit(w) \/ Step(w) \/ Abort(w)
    PROVE  ReadOK(req'[w], rows', mapped', posted')
  <1> DEFINE OK(r) == ReadOK(r, rows', mapped', posted')
  <1>1. OK(req[w]) /\ OK(Idle)
    BY Grows, ReadOKGrows, IdleRead DEF ReadInv
  <1>2. req[w] \in Request /\ Op(w) \in OpsAt[req[w].pc]
    BY RequestFacts
  <1>3. CASE Submit(w)
    <2>1. PICK c \in Calls :
              /\ c.op \in AllOps
              /\ req'[w].pc = FirstStep[c.op] /\ req'[w].call = c
              /\ req'[w].todo = {} /\ req'[w].answer = {}
      BY <1>3, Begun
    <2>2. /\ FirstStep[c.op] \notin {"generateId", "saveScoreMap", "respond", "topPlayer"}
             \/ c.op \in {"playerInsert", "gameInsert"}
          /\ FirstStep[c.op] = "getGame" => c.op \notin {"scoreMapInsert", "scoreMapGet"}
          /\ FirstStep[c.op] # "topPlayer"
      BY <2>1 DEF FirstStep, AllOps, Inserts, Reads
    <2>3. QED
      BY <2>1, <2>2 DEF ReadOK
  <1>4. CASE GetPlayer(w)
    <2>1. CASE req'[w] = Idle
      BY <1>1, <2>1
    <2>2. CASE Has(rows, "players", req[w].call.player)
               /\ req'[w] = Goto(w, AfterPlayer[Op(w)])
      <3>1. Op(w) \in OpsAt["getPlayer"]
        BY <1>2, <1>4 DEF GetPlayer
      <3>2. /\ AfterPlayer[Op(w)] \notin {"generateId", "saveScoreMap", "topPlayer"}
            /\ AfterPlayer[Op(w)] = "respond" => Op(w) = "playerGet"
            /\ AfterPlayer[Op(w)] = "getGame" => Op(w) # "scoreMapGet"
        BY <3>1 DEF OpsAt, AfterPlayer
      <3>3. /\ req'[w].pc = AfterPlayer[Op(w)] /\ req'[w].call = req[w].call
            /\ req'[w].id = req[w].id /\ req'[w].todo = req[w].todo
            /\ req'[w].answer = req[w].answer
        BY <1>2, <2>2 DEF Goto, Request
      <3>4. Has(rows', "players", req[w].call.player)
        BY <2>2, Grows DEF Has
      <3>5. QED
        BY <1>1, <3>2, <3>3, <3>4 DEF ReadOK, Op
    <2>3. QED
      BY <1>4, <2>1, <2>2, Moved DEF Exists, Has
  <1>5. CASE GetGame(w)
    <2>1. CASE req'[w] = Idle
      BY <1>1, <2>1
    <2>2. CASE Has(rows, "games", req[w].call.game)
               /\ req'[w] = Goto(w, AfterGame[Op(w)])
      <3>1. Op(w) \in OpsAt["getGame"] /\ req[w].pc = "getGame"
        BY <1>2, <1>5 DEF GetGame
      <3>2. /\ AfterGame[Op(w)] # "topPlayer"
            /\ Op(w) = "scoreMapInsert" => AfterGame[Op(w)] = "generateId"
        BY <3>1 DEF OpsAt, AfterGame
      <3>3. /\ req'[w].pc = AfterGame[Op(w)] /\ req'[w].call = req[w].call
            /\ req'[w].id = req[w].id /\ req'[w].todo = req[w].todo
            /\ req'[w].answer = req[w].answer
        BY <1>2, <2>2 DEF Goto, Request
      <3>4. Has(rows', "games", req[w].call.game)
        BY <2>2, Grows DEF Has
      <3>5. QED
        BY <1>1, <3>1, <3>2, <3>3, <3>4 DEF ReadOK, Op
    <2>3. QED
      BY <1>5, <2>1, <2>2, Moved DEF Exists, Has
  <1>6. CASE GetScore(w) \/ SaveCity(w)
    <2>1. Op(w) \in {"scoreGet", "playerInsert"}
      BY <1>2, <1>6 DEF GetScore, SaveCity, OpsAt
    <2>2. req'[w] \in {Idle, Goto(w, "respond")}
      BY <1>6, Moved
    <2>3. OK(Goto(w, "respond"))
      BY <1>1, <1>2, <2>1 DEF ReadOK, Goto, Request, Op
    <2>4. QED
      BY <1>1, <2>2, <2>3
  <1>7. CASE GenerateId(w)
    <2>1. /\ req'[w].pc = AfterId[Op(w)] /\ req'[w].call = req[w].call
          /\ req'[w].todo = req[w].todo /\ req'[w].answer = req[w].answer
      BY <1>2, <1>7, MovedOn DEF Request
    <2>2. AfterId[Op(w)] \notin {"respond", "topPlayer"} /\ req[w].pc = "generateId"
          /\ Op(w) \notin {"scoreMapGet", "getTop"}
      BY <1>2, <1>7 DEF GenerateId, OpsAt, AfterId
    <2>3. QED
      BY <1>1, <2>1, <2>2 DEF ReadOK, Op
  <1>8. CASE SaveName(w)
    <2>1. Op(w) \in {"playerInsert", "gameInsert"} /\ AfterName[Op(w)] # "topPlayer"
      BY <1>2, <1>8 DEF SaveName, OpsAt, AfterName
    <2>2. req'[w] \in {Idle, Goto(w, AfterName[Op(w)])}
      BY <1>8, Moved
    <2>3. OK(Goto(w, AfterName[Op(w)]))
      BY <1>1, <1>2, <2>1 DEF ReadOK, Goto, Request, Op
    <2>4. QED
      BY <1>1, <2>2, <2>3
  <1>9. CASE SaveScoreMap(w)
    <2>1. Op(w) = "scoreMapInsert" /\ <<Pair(w), req[w].id>> \in mapped'
      BY <1>2, <1>9 DEF SaveScoreMap, OpsAt
    <2>2. req'[w] \in {Idle, Goto(w, "respond")}
      BY <1>9, Moved
    <2>3. OK(Goto(w, "respond"))
      BY <1>1, <1>2, <2>1 DEF ReadOK, Goto, Request, Op, Pair
    <2>4. QED
      BY <1>1, <2>2, <2>3
  <1>10. CASE GetScoreMap(w)
    <2>1. CASE req'[w] = Idle
      BY <1>1, <2>1
    <2>2. CASE /\ Pair(w) \in DOMAIN scoreMap
               /\ req'[w] = [req[w] EXCEPT !.id = scoreMap[Pair(w)], !.pc = AfterMap[Op(w)]]
      <3>1. Op(w) # "scoreMapInsert" /\ Op(w) # "getTop" /\ AfterMap[Op(w)] # "topPlayer"
        BY <1>2, <1>10 DEF GetScoreMap, OpsAt, AfterMap
      <3>2. <<Pair(w), scoreMap[Pair(w)]>> \in mapped'
        BY <2>2, Grows DEF IdsInv, MapsRecorded
      <3>3. /\ req'[w].pc = AfterMap[Op(w)] /\ req'[w].call = req[w].call
            /\ req'[w].id = scoreMap[Pair(w)] /\ req'[w].todo = req[w].todo
            /\ req'[w].answer = req[w].answer
        BY <1>2, <2>2 DEF Request
      <3>4. QED
        BY <1>1, <3>1, <3>2, <3>3 DEF ReadOK, Op, Pair
    <2>3. QED
      BY <1>10, <2>1, <2>2, MovedOn
  <1>11. CASE SaveScore(w)
    <2>1. Op(w) = "scoreInsert"
      BY <1>2, <1>11 DEF SaveScore, OpsAt
    <2>2. req'[w] = Idle \/ (/\ req'[w].pc = "respond" /\ req'[w].call = req[w].call
                             /\ req'[w].todo = req[w].todo)
      BY <1>2, <1>11, MovedOn DEF Request
    <2>3. QED
      BY <1>1, <2>1, <2>2 DEF ReadOK, Op
  <1>12. CASE TopMap(w)
    <2>1. Op(w) = "getTop"
      BY <1>2, <1>12 DEF TopMap, OpsAt
    <2>2. PICK t \in {MapsOf(req[w].call.game)} :
              req'[w] = [req[w] EXCEPT !.todo = t, !.pc = TopNext(t)]
      BY <1>12, MovedTop
    <2>3. \A m \in t : m \in mapped /\ m[1][1] = req[w].call.game
      BY <2>2 DEF MapsOf, IdsInv, MapsRecorded
    <2>4. /\ req'[w].pc \in {"respond", "topScores"} /\ req'[w].call = req[w].call
          /\ req'[w].todo = t /\ req'[w].answer = req[w].answer
      BY <1>2, <2>2, TopNextFits DEF Request
    <2>5. mapped \subseteq mapped'
      BY Grows
    <2>6. QED
      BY <1>1, <2>1, <2>3, <2>4, <2>5 DEF ReadOK, Op
  <1>13. CASE TopScores(w)
    <2>1. Op(w) = "getTop"
      BY <1>2, <1>13 DEF TopScores, OpsAt
    <2>2. PICK m \in req[w].todo :
              req'[w] = [req[w] EXCEPT !.todo = @ \ {m}, !.id = m[1][2],
                                       !.answer = @ \cup ScoresOf(m[1], m[2]),
                                       !.pc = "topPlayer"]
      BY <1>13, MovedTop
    <2> DEFINE found == ScoresOf(m[1], m[2])
    <2>3. m \in mapped /\ m[1][1] = req[w].call.game
      BY <2>1 DEF ReadInv, ReadOK, Op
    <2>4. \A e \in found : e \in posted' /\ e.pair[1] = req[w].call.game
      BY <2>3, FoundPosted, Grows DEF ReadInv
    <2>5. Has(rows', "players", m[1][2])
      BY <2>3, Grows DEF ReadInv, RefsKept, Has
    <2> HIDE DEF found
    <2>6. /\ req'[w].pc = "topPlayer" /\ req'[w].call = req[w].call
          /\ req'[w].id = m[1][2] /\ req'[w].todo = req[w].todo \ {m}
          /\ req'[w].answer = req[w].answer \cup found
      BY <1>2, <2>2 DEF Request, found
    <2>7. QED
      BY <1>1, <2>1, <2>4, <2>5, <2>6 DEF ReadOK, Op
  <1>14. CASE TopPlayer(w)
    <2>1. Op(w) = "getTop" /\ TopNext(req[w].todo) \in {"respond", "topScores"}
      BY <1>2, <1>14, TopNextFits DEF TopPlayer, OpsAt
    <2>2. req'[w] \in {Idle, Goto(w, TopNext(req[w].todo))}
      BY <1>14, Moved
    <2>3. OK(Goto(w, TopNext(req[w].todo)))
      BY <1>1, <1>2, <2>1 DEF ReadOK, Goto, Request, Op
    <2>4. QED
      BY <1>1, <2>2, <2>3
  <1>15. CASE Respond(w) \/ Abort(w)
    BY <1>1, <1>15, Moved
  <1>16. QED
    BY <1>3, <1>4, <1>5, <1>6, <1>7, <1>8, <1>9, <1>10, <1>11, <1>12, <1>13, <1>14, <1>15
       DEF Step

LEMMA SaveScorePosted ==
    ASSUME TypeInv, ScoresAsPosted, NEW w \in Workers, SaveScore(w) PROVE ScoresAsPosted'
  <1>1. PICK d \in Dates :
            LET e == NewEntry(w, d)
            IN  /\ scores' = HSet(scores, <<e.id, d>>, e.score)
                /\ posted' = posted \cup {e}
    BY DEF SaveScore
  <1> DEFINE e == NewEntry(w, d)
             x == <<e.id, d>>
             v == e.score
  <1>2. e.date = d /\ e \in posted'
    BY <1>1 DEF NewEntry
  <1>3. scores' = HSet(scores, x, v) /\ x[1] = e.id /\ x[2] = d
    BY <1>1
  <1>4. posted \subseteq posted'
    BY <1>1
  <1> SUFFICES ASSUME NEW k \in DOMAIN scores'
               PROVE  \E f \in posted' : f.id = k[1] /\ f.date = k[2] /\ f.score = scores'[k]
    BY DEF ScoresAsPosted
  <1> HIDE DEF e, x, v
  <1>5. CASE k = x
    BY <1>2, <1>3, <1>5 DEF HSet, v
  <1>6. CASE k # x
    <2>1. k \in DOMAIN scores /\ scores'[k] = scores[k]
      BY <1>3, <1>6 DEF HSet
    <2>2. QED
      BY <2>1, <1>4 DEF ScoresAsPosted
  <1>7. QED
    BY <1>5, <1>6

LEMMA NextRead == TypeInv /\ IdsInv /\ ReadInv /\ [Next]_vars => ReadInv'
  <1> SUFFICES ASSUME TypeInv, IdsInv, ReadInv, [Next]_vars PROVE ReadInv'
    OBVIOUS
  <1>1. CASE UNCHANGED vars
    BY <1>1 DEF vars, redis, history, ReadInv, RefsKept, ScoresAsPosted
  <1>2. ASSUME NEW w \in Workers, Submit(w) \/ Step(w) \/ Abort(w) PROVE ReadInv'
    <2>1. rows \subseteq rows' /\ mapped \subseteq mapped' /\ posted \subseteq posted'
      BY <1>2, Grows
    <2>2. RefsKept'
      <3>1. CASE SaveScoreMap(w)
        <4>1. Op(w) = "scoreMapInsert" /\ req[w].pc = "saveScoreMap"
              /\ mapped' = mapped \cup {<<Pair(w), req[w].id>>}
          BY <3>1, RequestFacts DEF SaveScoreMap, OpsAt
        <4>2. Has(rows, "games", req[w].call.game) /\ Has(rows, "players", req[w].call.player)
          BY <4>1 DEF ReadInv, ReadOK, Op
        <4>3. QED
          BY <4>1, <4>2, <2>1 DEF ReadInv, RefsKept, Has, Pair
      <3>2. CASE ~SaveScoreMap(w)
        <4>1. mapped' = mapped
          BY <1>2, <3>2 DEF Step, Submit, Abort, GetPlayer, GetGame, GenerateId, SaveName,
             SaveCity, SaveColumn, GetScoreMap, SaveScore, GetScore, TopMap, TopScores,
             TopPlayer, Respond, redis, history
        <4>2. QED
          BY <4>1, <2>1 DEF ReadInv, RefsKept, Has
      <3>3. QED
        BY <3>1, <3>2
    <2>3. ScoresAsPosted'
      <3>1. CASE SaveScore(w)
        BY <3>1, SaveScorePosted DEF ReadInv
      <3>2. CASE ~SaveScore(w)
        <4>1. scores' = scores
          BY <1>2, <3>2 DEF Step, Submit, Abort, GetPlayer, GetGame, GenerateId, SaveName,
             SaveCity, SaveColumn, GetScoreMap, SaveScoreMap, GetScore, TopMap, TopScores,
             TopPlayer, Respond, redis, history
        <4>2. QED
          BY <4>1, <2>1 DEF ReadInv, ScoresAsPosted
      <3>3. QED
        BY <3>1, <3>2
    <2>4. ASSUME NEW v \in Workers PROVE ReadOK(req'[v], rows', mapped', posted')
      <3>1. CASE v = w
        BY <1>2, <3>1, StepRead
      <3>2. CASE v # w
        BY <1>2, <3>2, <2>1, OthersWait, ReadOKGrows DEF ReadInv
      <3>3. QED
        BY <3>1, <3>2
    <2>5. QED
      BY <2>2, <2>3, <2>4 DEF ReadInv
  <1>3. QED
    BY <1>1, <1>2 DEF Next

LEMMA InitRead == Init => ReadInv
  BY IdleRead DEF Init, ReadInv, RefsKept, ScoresAsPosted, EmptyHash

THEOREM ReadInvariant == Spec => [](TypeInv /\ IdsInv /\ ReadInv)
  BY InitTypeInv, NextTypeInv, InitIds, NextIds, InitRead, NextRead, PTL DEF Spec

\* A score map never names a game or a player that does not exist, so no
\* getTop fails half-way through its players.
THEOREM RefsExist == Spec => []MapRefs
  <1>1. ReadInv => MapRefs
    BY DEF ReadInv, RefsKept, ReadOK, MapRefs, Has, Exists
  <1>2. QED
    BY <1>1, ReadInvariant, PTL

\* What ScoreMap.get and ScoreMap.insert answer is an id of the pair asked for.
THEOREM AnswersAreOwn == Spec => []AnsweredIdIsOwn
  <1>1. ReadInv => AnsweredIdIsOwn
    BY DEF ReadInv, ReadOK, AnsweredIdIsOwn, Op, Pair
  <1>2. QED
    BY <1>1, ReadInvariant, PTL

\* A getTop never shows a score nobody posted, nor one under a player or in a
\* game it was not posted for, in whatever order its reads meet the writes.
THEOREM SoundTop == Spec => []TopSound
  <1>1. ReadInv => TopSound
    BY DEF ReadInv, ReadOK, TopSound, Op
  <1>2. QED
    BY <1>1, ReadInvariant, PTL

----------------------------------------------------------------------------
(***************************************************************************)
(* What a getTop owes its caller.  An entry that could be reached when it  *)
(* was called is still to be visited, or in the answer, or settled: its    *)
(* field was hit again or its pair has another score id, and a score id    *)
(* that was replaced never comes back.                                     *)
(***************************************************************************)
Settled(e, ps, sm) ==
    \/ \E f \in ps : f.id = e.id /\ f.date = e.date /\ f # e
    \/ sm[e.pair] # e.id

DueOK(r, ps, sm) ==
    r.call.op = "getTop" =>
        /\ r.pc = "respond" => r.todo = {}
        /\ r.before \subseteq ps
        /\ r.pc \in {"topScores", "topPlayer", "respond"} =>
              \A e \in r.before : e.pair[1] = r.call.game =>
                  <<e.pair, e.id>> \in r.todo \/ e \in r.answer \/ Settled(e, ps, sm)

DueInv == \A w \in Workers : DueOK(req[w], posted, scoreMap)

LEMMA SettledStays ==
    ASSUME TypeInv, IdsInv, KeptInv, NEW w \in Workers, Submit(w) \/ Step(w) \/ Abort(w),
           NEW e \in posted, Settled(e, posted, scoreMap)
    PROVE  Settled(e, posted', scoreMap')
  <1>1. posted \subseteq posted'
    BY Grows
  <1>2. <<e.pair, e.id>> \in mapped /\ e.pair \in DOMAIN scoreMap
    BY DEF IdsInv, PostedOwn, KeptInv, MappedShown
  <1>3. ASSUME scoreMap[e.pair] # e.id PROVE scoreMap'[e.pair] # e.id
    <2>1. CASE SaveScoreMap(w)
      <3>1. \A m \in mapped : m[2] # req[w].id
        BY <2>1 DEF SaveScoreMap, IdsInv, HeldFresh, Holding
      <3>2. QED
        BY <1>2, <1>3, <2>1, <3>1 DEF SaveScoreMap, HSet
    <2>2. CASE SaveScore(w)
      BY <1>3, <2>2 DEF SaveScore
    <2>3. CASE ~SaveScoreMap(w) /\ ~SaveScore(w)
      BY <1>3, <2>3, OtherStepsWriteNoScore
    <2>4. QED
      BY <2>1, <2>2, <2>3
  <1>4. QED
    BY <1>1, <1>3 DEF Settled

LEMMA DueStays ==
    ASSUME TypeInv, IdsInv, KeptInv, NEW w \in Workers, Submit(w) \/ Step(w) \/ Abort(w),
           NEW r, DueOK(r, posted, scoreMap)
    PROVE  DueOK(r, posted', scoreMap')
  BY SettledStays, Grows DEF DueOK

LEMMA IdleDue == ASSUME NEW ps, NEW sm PROVE DueOK(Idle, ps, sm)
  BY DEF DueOK, Idle

\* The request a step of a getTop leaves behind.
LEMMA StepDue ==
    ASSUME TypeInv, IdsInv, KeptInv, ReadInv, DueInv,
           NEW w \in Workers, Submit(w) \/ Step(w) \/ Abort(w)
    PROVE  DueOK(req'[w], posted', scoreMap')
  <1>1. req[w] \in Request /\ Op(w) \in OpsAt[req[w].pc]
    BY RequestFacts
  <1>2. DueOK(req[w], posted', scoreMap') /\ DueOK(Idle, posted', scoreMap')
    BY DueStays, IdleDue DEF DueInv
  <1>3. CASE Submit(w)
    <2>1. PICK c \in Calls :
              /\ c.op \in AllOps
              /\ req'[w].pc = FirstStep[c.op] /\ req'[w].call = c
              /\ req'[w].before = IF c.op = "getTop" THEN Reachable ELSE {}
      BY <1>3, Begun
    <2>2. c.op = "getTop" => FirstStep[c.op] = "getGame"
      BY DEF FirstStep
    <2>3. Reachable \subseteq posted
      <3> SUFFICES ASSUME NEW k \in DOMAIN scoreMap, NEW e \in ScoresOf(k, scoreMap[k])
                   PROVE  e \in posted
        BY DEF Reachable
      <3>1. <<k, scoreMap[k]>> \in mapped
        BY DEF IdsInv, MapsRecorded
      <3>2. QED
        BY <3>1, FoundPosted DEF ReadInv
    <2>4. posted \subseteq posted'
      BY Grows
    <2>5. QED
      BY <2>1, <2>2, <2>3, <2>4 DEF DueOK
  <1>4. CASE TopMap(w)
    <2>1. PICK t \in {MapsOf(req[w].call.game)} :
              req'[w] = [req[w] EXCEPT !.todo = t, !.pc = TopNext(t)]
      BY <1>4, MovedTop
    <2>2. Op(w) = "getTop" /\ UNCHANGED <<posted, scoreMap>>
      BY <1>1, <1>4 DEF TopMap, OpsAt, redis, history
    <2>3. ASSUME NEW e \in req[w].before, e.pair[1] = req[w].call.game
          PROVE  <<e.pair, e.id>> \in t \/ Settled(e, posted, scoreMap)
      <3>1. <<e.pair, e.id>> \in mapped
        BY <2>2 DEF DueInv, DueOK, Op, IdsInv, PostedOwn
      <3>2. e.pair \in DOMAIN scoreMap
        BY <3>1 DEF KeptInv, MappedShown
      <3>3. QED
        BY <2>1, <2>3, <3>2 DEF MapsOf, Settled
    <2>4. /\ req'[w].pc = TopNext(t) /\ req'[w].call = req[w].call
          /\ req'[w].todo = t /\ req'[w].before = req[w].before
      BY <1>1, <2>1 DEF Request
    <2>5. TopNext(t) = "respond" => t = {}
      BY DEF TopNext
    <2>6. req[w].before \subseteq posted
      BY <2>2 DEF DueInv, DueOK, Op
    <2>7. QED
      BY <2>2, <2>3, <2>4, <2>5, <2>6 DEF DueOK
  <1>5. CASE TopScores(w)
    <2>1. PICK m \in req[w].todo :
              req'[w] = [req[w] EXCEPT !.todo = @ \ {m}, !.id = m[1][2],
                                       !.answer = @ \cup ScoresOf(m[1], m[2]),
                                       !.pc = "topPlayer"]
      BY <1>5, MovedTop
    <2>2. Op(w) = "getTop" /\ UNCHANGED <<posted, scoreMap>> /\ req[w].pc = "topScores"
      BY <1>1, <1>5 DEF TopScores, OpsAt, redis, history
    <2> DEFINE found == ScoresOf(m[1], m[2])
    <2>3. ASSUME NEW e \in req[w].before, <<e.pair, e.id>> = m
          PROVE  e \in found \/ Settled(e, posted, scoreMap)
      <3>1. e \in posted
        BY <2>2 DEF DueInv, DueOK, Op
      <3>2. e = [pair |-> e.pair, id |-> e.id, date |-> e.date, score |-> e.score]
        BY <3>1 DEF TypeInv, TypeOK, Entry
      <3>3. <<e.id, e.date>> \in DOMAIN scores
            /\ (scores[<<e.id, e.date>>] = e.score \/ Overwritten(e))
        BY <3>1 DEF KeptInv, Stored
      <3>4. CASE scores[<<e.id, e.date>>] = e.score
        <4>1. \E k \in {l \in DOMAIN scores : l[1] = m[2]} :
                  e = [pair |-> m[1], id |-> m[2], date |-> k[2], score |-> scores[k]]
          BY <2>3, <3>2, <3>3, <3>4
        <4>2. QED
          BY <4>1 DEF ScoresOf
      <3>5. CASE Overwritten(e)
        BY <3>5 DEF Overwritten, Settled
      <3>6. QED
        BY <3>3, <3>4, <3>5
    <2> HIDE DEF found
    <2>4. /\ req'[w].pc = "topPlayer" /\ req'[w].call = req[w].call
          /\ req'[w].todo = req[w].todo \ {m} /\ req'[w].before = req[w].before
          /\ req'[w].answer = req[w].answer \cup found
      BY <1>1, <2>1 DEF Request, found
    <2>5. QED
      BY <2>2, <2>3, <2>4 DEF DueInv, DueOK, Op
  <1>6. CASE TopPlayer(w)
    <2>1. req'[w] = Idle \/ (/\ req'[w].pc = TopNext(req[w].todo)
                             /\ req'[w].call = req[w].call /\ req'[w].todo = req[w].todo
                             /\ req'[w].before = req[w].before
                             /\ req'[w].answer = req[w].answer)
      BY <1>1, <1>6, Moved DEF Goto, Request
    <2>2. TopNext(req[w].todo) = "respond" => req[w].todo = {}
      BY DEF TopNext
    <2>3. req[w].pc = "topPlayer"
      BY <1>6 DEF TopPlayer
    <2>4. QED
      BY <1>2, <2>1, <2>2, <2>3 DEF DueOK
  <1>7. CASE GetGame(w)
    <2>1. Op(w) = "getTop" => AfterGame[Op(w)] = "topMap"
      BY DEF AfterGame
    <2>2. req'[w] = Idle \/ (/\ req'[w].pc = AfterGame[Op(w)] /\ req'[w].call = req[w].call
                             /\ req'[w].before = req[w].before)
      BY <1>1, <1>7, Moved DEF Goto, Request
    <2>3. QED
      BY <1>2, <2>1, <2>2 DEF DueOK, Op
  <1>8. CASE Respond(w) \/ Abort(w)
    BY <1>2, <1>8, Moved
  <1>9. CASE \/ GetPlayer(w) \/ GenerateId(w) \/ SaveName(w) \/ SaveCity(w)
             \/ SaveScoreMap(w) \/ GetScoreMap(w) \/ SaveScore(w) \/ GetScore(w)
    <2>1. req[w].pc \in {"getPlayer", "generateId", "saveName", "saveCity", "saveScoreMap",
                         "getScoreMap", "saveScore", "getScore"}
      BY <1>9 DEF GetPlayer, GenerateId, SaveName, SaveCity, SaveScoreMap, GetScoreMap,
         SaveScore, GetScore
    <2>2. Op(w) # "getTop"
      BY <1>1, <2>1 DEF OpsAt
    <2>3. req'[w] = Idle \/ req'[w].call = req[w].call
      BY <1>1, <1>9, Moved, MovedOn DEF Goto, Request
    <2>4. QED
      BY <1>2, <2>2, <2>3 DEF DueOK, Op
  <1>10. QED
    BY <1>3, <1>4, <1>5, <1>6, <1>7, <1>8, <1>9 DEF Step

LEMMA NextDue ==
    TypeInv /\ IdsInv /\ KeptInv /\ ReadInv /\ DueInv /\ [Next]_vars => DueInv'
  <1> SUFFICES ASSUME TypeInv, IdsInv, KeptInv, ReadInv, DueInv, [Next]_vars PROVE DueInv'
    OBVIOUS
  <1>1. CASE UNCHANGED vars
    BY <1>1 DEF vars, redis, history, DueInv
  <1>2. ASSUME NEW w \in Workers, Submit(w) \/ Step(w) \/ Abort(w), NEW v \in Workers
        PROVE  DueOK(req'[v], posted', scoreMap')
    <2>1. CASE v = w
      BY <1>2, <2>1, StepDue
    <2>2. CASE v # w
      BY <1>2, <2>2, OthersWait, DueStays DEF DueInv
    <2>3. QED
      BY <2>1, <2>2
  <1>3. QED
    BY <1>1, <1>2 DEF Next, DueInv

\* A score that could be reached when a getTop was called and can be reached
\* when it answers is in its answer, unless its field was hit again: the
\* reads of the map and of the scores of each player may be any time apart.
THEOREM CompleteTop == Spec => []TopComplete
  <1>1. TypeInv /\ DueInv => TopComplete
    <2> SUFFICES ASSUME TypeInv, DueInv, NEW w \in Workers,
                        Op(w) = "getTop", req[w].pc = "respond",
                        NEW e \in req[w].before \cap Reachable,
                        e.pair[1] = req[w].call.game
                 PROVE  e \in req[w].answer \/ Overwritten(e)
      BY DEF TopComplete
    <2>1. e \in req[w].answer \/ Settled(e, posted, scoreMap)
      BY DEF DueInv, DueOK, Op
    <2>2. scoreMap[e.pair] = e.id
      BY DEF Reachable, ScoresOf
    <2>3. QED
      BY <2>1, <2>2 DEF Settled, Overwritten
  <1>2. Init => DueInv
    BY IdleDue DEF Init, DueInv
  <1>3. Init => KeptInv
    BY DEF Init, KeptInv, Stored, MappedShown
  <1>4. QED
    BY <1>1, <1>2, <1>3, InitTypeInv, NextTypeInv, InitIds, NextIds, NextKept, InitRead,
       NextRead, NextDue, PTL DEF Spec

----------------------------------------------------------------------------
(***************************************************************************)
(* The refinement of Leaderboard.  BoardOf writes the board with the two   *)
(* hashes as parameters, so that it can be taken before and after a step.  *)
(***************************************************************************)
BoardOf(sm, sc) ==
    UNION {{[pair |-> k, date |-> x[2], score |-> sc[x]] : x \in {y \in DOMAIN sc : y[1] = sm[k]}} :
              k \in DOMAIN sm}

InBoard(b, sm, sc) ==
    \E k \in DOMAIN sm, x \in DOMAIN sc :
        x[1] = sm[k] /\ b = [pair |-> k, date |-> x[2], score |-> sc[x]]

LEMMA BoardMembers ==
    ASSUME NEW sm, NEW sc, NEW b PROVE b \in BoardOf(sm, sc) <=> InBoard(b, sm, sc)
  BY DEF BoardOf, InBoard

LEMMA BoardIs == Board = BoardOf(scoreMap, scores)
  <1>1. ASSUME NEW b PROVE b \in Board <=> InBoard(b, scoreMap, scores)
    <2>1. ASSUME b \in Board PROVE InBoard(b, scoreMap, scores)
      <3>1. PICK e \in Reachable : b = [pair |-> e.pair, date |-> e.date, score |-> e.score]
        BY <2>1 DEF Board
      <3>2. PICK k \in DOMAIN scoreMap : e \in ScoresOf(k, scoreMap[k])
        BY DEF Reachable
      <3>3. PICK x \in DOMAIN scores :
                /\ x[1] = scoreMap[k]
                /\ e = [pair |-> k, id |-> scoreMap[k], date |-> x[2], score |-> scores[x]]
        BY <3>2 DEF ScoresOf
      <3>4. b = [pair |-> k, date |-> x[2], score |-> scores[x]]
        BY <3>1, <3>3
      <3>5. QED
        BY <3>3, <3>4 DEF InBoard
    <2>2. ASSUME InBoard(b, scoreMap, scores) PROVE b \in Board
      <3>1. PICK k \in DOMAIN scoreMap, x \in DOMAIN scores :
                x[1] = scoreMap[k] /\ b = [pair |-> k, date |-> x[2], score |-> scores[x]]
        BY <2>2 DEF InBoard
      <3> DEFINE e == [pair |-> k, id |-> scoreMap[k], date |-> x[2], score |-> scores[x]]
      <3>2. e \in Reachable
        BY <3>1 DEF Reachable, ScoresOf
      <3>3. b = [pair |-> e.pair, date |-> e.date, score |-> e.score]
        BY <3>1
      <3> HIDE DEF e
      <3>4. QED
        BY <3>2, <3>3 DEF Board
    <2>3. QED
      BY <2>1, <2>2
  <1>2. QED
    BY <1>1, BoardMembers

LEMMA BoardNext == (Board = BoardOf(scoreMap, scores))'
  BY BoardIs, PTL

\* A pair gets a new score id, under which there are no scores yet.
LEMMA BoardRemapped ==
    ASSUME NEW sm, NEW sc, NEW k, NEW i, \A x \in DOMAIN sc : x[1] # i
    PROVE  BoardOf(HSet(sm, k, i), sc) = {b \in BoardOf(sm, sc) : b.pair # k}
  <1>1. ASSUME NEW b, InBoard(b, HSet(sm, k, i), sc) PROVE InBoard(b, sm, sc) /\ b.pair # k
    <2>1. PICK j \in DOMAIN HSet(sm, k, i), x \in DOMAIN sc :
              x[1] = HSet(sm, k, i)[j] /\ b = [pair |-> j, date |-> x[2], score |-> sc[x]]
      BY <1>1 DEF InBoard
    <2>2. j # k /\ j \in DOMAIN sm /\ HSet(sm, k, i)[j] = sm[j]
      BY <2>1 DEF HSet
    <2>3. QED
      BY <2>1, <2>2 DEF InBoard
  <1>2. ASSUME NEW b, InBoard(b, sm, sc), b.pair # k PROVE InBoard(b, HSet(sm, k, i), sc)
    <2>1. PICK j \in DOMAIN sm, x \in DOMAIN sc :
              x[1] = sm[j] /\ b = [pair |-> j, date |-> x[2], score |-> sc[x]]
      BY <1>2 DEF InBoard
    <2>2. j # k
      BY <1>2, <2>1
    <2>3. j \in DOMAIN HSet(sm, k, i) /\ HSet(sm, k, i)[j] = sm[j]
      BY <2>2 DEF HSet
    <2>4. QED
      BY <2>1, <2>3 DEF InBoard
  <1>3. QED
    BY <1>1, <1>2, BoardMembers

\* A score is written under the score id of pair k and of no other pair.
LEMMA BoardPosted ==
    ASSUME NEW sm, NEW sc, NEW D, NEW k \in DOMAIN sm, NEW d \in D, NEW v,
           DOMAIN sc \subseteq ScoreIds \X D,
           \A j \in DOMAIN sm : sm[j] = sm[k] => j = k
    PROVE  BoardOf(sm, HSet(sc, <<sm[k], d>>, v)) =
               {b \in BoardOf(sm, sc) : ~(b.pair = k /\ b.date = d)}
                   \cup {[pair |-> k, date |-> d, score |-> v]}
  <1> DEFINE i == sm[k]
             y == <<i, d>>
             new == HSet(sc, y, v)
             fresh == [pair |-> k, date |-> d, score |-> v]
  <1>1. DOMAIN new = DOMAIN sc \cup {y} /\ new[y] = v
        /\ \A x \in DOMAIN sc \ {y} : new[x] = sc[x]
    BY DEF HSet
  <1>2. y[1] = sm[k] /\ y[2] = d
    OBVIOUS
  <1>3. \A x \in DOMAIN sc : x[1] = sm[k] /\ x[2] = d => x = y
    OBVIOUS
  <1> HIDE DEF new, y
  <1>4. ASSUME NEW b, InBoard(b, sm, new)
        PROVE  b = fresh \/ (InBoard(b, sm, sc) /\ ~(b.pair = k /\ b.date = d))
    <2>1. PICK j \in DOMAIN sm, x \in DOMAIN new :
              x[1] = sm[j] /\ b = [pair |-> j, date |-> x[2], score |-> new[x]]
      BY <1>4 DEF InBoard
    <2>2. CASE x = y
      <3>1. j = k
        BY <2>1, <2>2, <1>2
      <3>2. QED
        BY <2>1, <2>2, <3>1, <1>1, <1>2
    <2>3. CASE x # y
      <3>1. x \in DOMAIN sc /\ new[x] = sc[x]
        BY <2>3, <1>1
      <3>2. ~(b.pair = k /\ b.date = d)
        BY <2>1, <2>3, <3>1, <1>3
      <3>3. QED
        BY <2>1, <3>1, <3>2 DEF InBoard
    <2>4. QED
      BY <2>2, <2>3
  <1>5. ASSUME NEW b, InBoard(b, sm, sc), ~(b.pair = k /\ b.date = d)
        PROVE  InBoard(b, sm, new)
    <2>1. PICK j \in DOMAIN sm, x \in DOMAIN sc :
              x[1] = sm[j] /\ b = [pair |-> j, date |-> x[2], score |-> sc[x]]
      BY <1>5 DEF InBoard
    <2>2. x # y
      BY <2>1, <1>2, <1>5
    <2>3. QED
      BY <2>1, <2>2, <1>1 DEF InBoard
  <1>6. InBoard(fresh, sm, new)
    BY <1>1, <1>2 DEF InBoard
  <1> HIDE DEF fresh
  <1>7. \A b : b \in BoardOf(sm, new) <=>
                  b = fresh \/ (b \in BoardOf(sm, sc) /\ ~(b.pair = k /\ b.date = d))
    BY <1>4, <1>5, <1>6, BoardMembers
  <1>8. BoardOf(sm, new) = {b \in BoardOf(sm, sc) : ~(b.pair = k /\ b.date = d)} \cup {fresh}
    BY <1>7
  <1>9. QED
    BY <1>8 DEF new, y, fresh

\* A score is written under a score id no score map leads to.
LEMMA BoardUnseen ==
    ASSUME NEW sm, NEW sc, NEW i, NEW d, NEW v, \A j \in DOMAIN sm : sm[j] # i
    PROVE  BoardOf(sm, HSet(sc, <<i, d>>, v)) = BoardOf(sm, sc)
  <1> DEFINE y == <<i, d>>
             new == HSet(sc, y, v)
  <1>1. DOMAIN new = DOMAIN sc \cup {y} /\ \A x \in DOMAIN sc \ {y} : new[x] = sc[x]
    BY DEF HSet
  <1>2. \A j \in DOMAIN sm : y[1] # sm[j]
    OBVIOUS
  <1> HIDE DEF new, y
  <1>3. ASSUME NEW b PROVE InBoard(b, sm, new) <=> InBoard(b, sm, sc)
    BY <1>1, <1>2 DEF InBoard
  <1>4. BoardOf(sm, new) = BoardOf(sm, sc)
    BY <1>3, BoardMembers
  <1>5. QED
    BY <1>4 DEF new, y

LEMMA InitBoard == Init => Abstract!LInit
  <1> SUFFICES ASSUME Init PROVE DOMAIN scoreMap = {} /\ Board = {}
    BY DEF Abstract!LInit
  <1>1. DOMAIN scoreMap = {}
    BY DEF Init, EmptyHash
  <1>2. QED
    BY <1>1 DEF Board, Reachable

LEMMA SaveScoreMapBoard ==
    ASSUME TypeInv, IdsInv, NEW w \in Workers, SaveScoreMap(w) PROVE Abstract!LNext
  <1> DEFINE k == Pair(w)
             i == req[w].id
  <1>1. k \in Pairs
    BY RequestFacts DEF SaveScoreMap, OpsAt
  <1>2. scoreMap' = HSet(scoreMap, k, i) /\ scores' = scores
    BY DEF SaveScoreMap
  <1>3. \A x \in DOMAIN scores : x[1] # i
    <2>1. \A x \in DOMAIN scores : \E m \in mapped : m[2] = x[1]
      BY DEF IdsInv, ScoresPosted, PostedOwn
    <2>2. \A m \in mapped : m[2] # i
      BY DEF SaveScoreMap, IdsInv, HeldFresh, Holding
    <2>3. QED
      BY <2>1, <2>2
  <1> HIDE DEF k, i
  <1>4. Board' = BoardOf(scoreMap', scores')
    BY BoardNext
  <1>5. Board' = {b \in Board : b.pair # k}
    BY <1>2, <1>3, <1>4, BoardIs, BoardRemapped
  <1>6. DOMAIN scoreMap' = DOMAIN scoreMap \cup {k}
    BY <1>2 DEF HSet
  <1>7. CASE k \in DOMAIN scoreMap
    <2>1. Abstract!Restart(k)
      BY <1>5, <1>6, <1>7 DEF Abstract!Restart
    <2>2. QED
      BY <1>1, <2>1 DEF Abstract!LNext
  <1>8. CASE k \notin DOMAIN scoreMap
    <2>1. \A b \in Board : b.pair # k
      BY <1>8, BoardIs, BoardMembers DEF InBoard
    <2>2. Board' = Board
      BY <1>5, <2>1
    <2>3. Abstract!Enrol(k)
      BY <1>6, <1>8, <2>2 DEF Abstract!Enrol
    <2>4. QED
      BY <1>1, <2>3 DEF Abstract!LNext
  <1>9. QED
    BY <1>7, <1>8

LEMMA SaveScoreBoard ==
    ASSUME TypeInv, IdsInv, KeptInv, NEW w \in Workers, SaveScore(w)
    PROVE  [Abstract!LNext]_(Abstract!lvars)
  <1>1. PICK d \in Dates :
            LET e == NewEntry(w, d) IN scores' = HSet(scores, <<e.id, d>>, e.score)
    BY DEF SaveScore
  <1> DEFINE k == Pair(w)
             i == req[w].id
             v == req[w].call.score
  <1>2. k \in Pairs /\ v \in Points
    BY RequestFacts DEF SaveScore, OpsAt
  <1>3. scores' = HSet(scores, <<i, d>>, v) /\ scoreMap' = scoreMap
    BY <1>1 DEF NewEntry, SaveScore
  <1>4. <<k, i>> \in mapped
    BY DEF SaveScore, IdsInv, LoadedOwn
  <1> HIDE DEF k, i, v
  <1>5. k \in DOMAIN scoreMap
    BY <1>4 DEF KeptInv, MappedShown
  <1>6. \A j \in DOMAIN scoreMap : scoreMap[j] = i => j = k
    BY <1>4 DEF IdsInv, MapsRecorded, ScoreIdsUnshared
  <1>7. Board' = BoardOf(scoreMap', scores')
    BY BoardNext
  <1>8. CASE scoreMap[k] = i
    <2>1. DOMAIN scores \subseteq ScoreIds \X Dates
      BY DEF TypeInv, TypeOK
    <2>2. Board' = {b \in Board : ~(b.pair = k /\ b.date = d)}
                       \cup {[pair |-> k, date |-> d, score |-> v]}
      BY <1>3, <1>5, <1>6, <1>7, <1>8, <2>1, BoardIs, BoardPosted
    <2>3. Abstract!Post(k, d, v)
      BY <1>3, <1>5, <2>2 DEF Abstract!Post
    <2>4. QED
      BY <1>2, <2>3 DEF Abstract!LNext
  <1>9. CASE scoreMap[k] # i
    <2>1. \A j \in DOMAIN scoreMap : scoreMap[j] # i
      BY <1>6, <1>9
    <2>2. Board' = Board
      BY <1>3, <1>7, <2>1, BoardIs, BoardUnseen
    <2>3. QED
      BY <1>3, <2>2 DEF Abstract!lvars
  <1>10. QED
    BY <1>8, <1>9

\* Whatever mixes, fails or dies, each Redis command enrols a pair, posts one
\* score, restarts one pair's board, or changes nothing a reader can see.
THEOREM LeaderboardImplemented == Spec => ImplementsLeaderboard
  <1>1. TypeInv /\ IdsInv /\ KeptInv /\ [Next]_vars => [Abstract!LNext]_(Abstract!lvars)
    <2> SUFFICES ASSUME TypeInv, IdsInv, KeptInv, [Next]_vars
                 PROVE  [Abstract!LNext]_(Abstract!lvars)
      OBVIOUS
    <2>1. ASSUME UNCHANGED <<scoreMap, scores>> PROVE UNCHANGED Abstract!lvars
      BY <2>1 DEF Abstract!lvars, Board, Reachable, ScoresOf
    <2>2. CASE UNCHANGED vars
      BY <2>1, <2>2 DEF vars, redis
    <2>3. ASSUME NEW w \in Workers, Submit(w) \/ Step(w) \/ Abort(w),
                 ~SaveScore(w), ~SaveScoreMap(w)
          PROVE  UNCHANGED Abstract!lvars
      BY <2>1, <2>3, OtherStepsWriteNoScore
    <2>4. QED
      BY <2>2, <2>3, SaveScoreMapBoard, SaveScoreBoard DEF Next
  <1>2. QED
    BY <1>1, InitBoard, KeptInvariant, PTL DEF Spec, ImplementsLeaderboard, Abstract!LSpec

----------------------------------------------------------------------------
(***************************************************************************)
(* Requests come to their answers.  Only a finite number of pairs was ever *)
(* mapped, so the loop of getTop starts with a finite number of players.   *)
(***************************************************************************)
FiniteInv == IsFiniteSet(mapped) /\ \A w \in Workers : IsFiniteSet(req[w].todo)

Nearer(r, s) == Ahead(s) < Ahead(r) \/ (Ahead(s) = Ahead(r) /\ Visits(s) < Visits(r))

\* The place of each step.
LEMMA Places ==
    ASSUME NEW r
    PROVE  /\ r.pc = "idle" => Ahead(r) = 0
           /\ r.pc = "respond" => Ahead(r) = 1
           /\ r.pc \in {"saveCity", "saveScoreMap", "saveScore", "getScore", "topScores",
                        "topPlayer"} => Ahead(r) = 2
           /\ r.pc \in {"saveName", "topMap"} => Ahead(r) = 3
           /\ r.pc \in {"generateId", "getScoreMap"} => Ahead(r) = 4
           /\ r.pc = "getGame" =>
                 Ahead(r) = IF r.call.op \in {"scoreMapGet", "getScoreId"} THEN 2 ELSE 5
           /\ r.pc = "getPlayer" => Ahead(r) = 6
  BY DEF Ahead

LEMMA GoingIdle ==
    ASSUME NEW r \in Request, r.pc # "idle", NEW s, s = Idle PROVE Nearer(r, s)
  <1>1. Ahead(s) = 0
    BY IdlePc, Places
  <1>2. Ahead(r) \in 1 .. 6
    BY Places DEF Request, Steps
  <1>3. QED
    BY <1>1, <1>2 DEF Nearer

\* The next step of an operation stands before the present one.
LEMMA NextPlace ==
    ASSUME NEW r \in Request, NEW s, s.call = r.call, r.call.op \in OpsAt[r.pc],
           \/ r.pc = "getPlayer" /\ s.pc = AfterPlayer[r.call.op]
           \/ r.pc = "getGame" /\ s.pc = AfterGame[r.call.op]
           \/ r.pc = "getScoreMap" /\ s.pc = AfterMap[r.call.op]
           \/ r.pc = "generateId" /\ s.pc = AfterId[r.call.op]
           \/ r.pc = "saveName" /\ s.pc = AfterName[r.call.op]
           \/ r.pc \notin {"idle", "respond"} /\ s.pc = "respond"
           \/ r.pc = "topMap" /\ s.pc = "topScores"
    PROVE  Nearer(r, s)
  <1>1. CASE r.pc = "getPlayer" /\ s.pc = AfterPlayer[r.call.op]
    <2>1. s.pc \in {"respond", "getScoreMap"} \/ (s.pc = "getGame" /\ Ahead(s) = 5)
      BY <1>1, Places DEF OpsAt, AfterPlayer
    <2>2. QED
      BY <1>1, <2>1, Places DEF Nearer
  <1>2. CASE r.pc = "getGame" /\ s.pc = AfterGame[r.call.op]
    <2>1. \/ s.pc = "respond"
          \/ s.pc \in {"generateId", "getScoreMap", "topMap"} /\ Ahead(r) = 5
      BY <1>2, Places DEF OpsAt, AfterGame
    <2>2. Ahead(r) \in {2, 5}
      BY <1>2, Places
    <2>3. QED
      BY <2>1, <2>2, Places DEF Nearer
  <1>3. CASE r.pc = "getScoreMap" /\ s.pc = AfterMap[r.call.op]
    <2>1. s.pc = "saveScore" \/ (s.pc = "getGame" /\ Ahead(s) = 2)
      BY <1>3, Places DEF OpsAt, AfterMap
    <2>2. QED
      BY <1>3, <2>1, Places DEF Nearer
  <1>4. CASE r.pc = "generateId" /\ s.pc = AfterId[r.call.op]
    <2>1. s.pc \in {"saveName", "saveScoreMap"}
      BY <1>4 DEF OpsAt, AfterId
    <2>2. QED
      BY <1>4, <2>1, Places DEF Nearer
  <1>5. CASE r.pc = "saveName" /\ s.pc = AfterName[r.call.op]
    <2>1. s.pc \in {"saveCity", "respond"}
      BY <1>5 DEF OpsAt, AfterName
    <2>2. QED
      BY <1>5, <2>1, Places DEF Nearer
  <1>6. CASE r.pc \notin {"idle", "respond"} /\ s.pc = "respond"
    <2>1. Ahead(r) \in 2 .. 6
      BY <1>6, Places DEF Request, Steps
    <2>2. QED
      BY <1>6, <2>1, Places DEF Nearer
  <1>7. CASE r.pc = "topMap" /\ s.pc = "topScores"
    BY <1>7, Places DEF Nearer
  <1>8. QED
    BY <1>1, <1>2, <1>3, <1>4, <1>5, <1>6, <1>7

\* Each round of the loop has one player less to visit.
LEMMA NextVisit ==
    ASSUME NEW r \in Request, IsFiniteSet(r.todo), NEW s,
           \/ /\ r.pc = "topScores" /\ s.pc = "topPlayer"
              /\ \E m \in r.todo : s.todo = r.todo \ {m}
           \/ r.pc = "topPlayer" /\ s.pc = "topScores" /\ s.todo = r.todo
    PROVE  Nearer(r, s)
  <1>1. Ahead(r) = 2 /\ Ahead(s) = 2
    BY Places
  <1>2. Cardinality(r.todo) \in Nat
    BY FS_CardinalityType
  <1>3. CASE r.pc = "topScores"
    <2>1. Cardinality(s.todo) = Cardinality(r.todo) - 1 /\ s.pc = "topPlayer"
      BY <1>3, FS_RemoveElement
    <2>2. QED
      BY <1>1, <1>2, <1>3, <2>1 DEF Nearer, Visits
  <1>4. CASE r.pc = "topPlayer"
    <2>1. s.pc = "topScores" /\ s.todo = r.todo
      BY <1>4
    <2>2. QED
      BY <1>1, <1>2, <1>4, <2>1 DEF Nearer, Visits
  <1>5. QED
    BY <1>3, <1>4

LEMMA StepNearer ==
    ASSUME TypeInv, FiniteInv, NEW w \in Workers, Step(w) \/ Abort(w)
    PROVE  Nearer(req[w], req'[w])
  <1>1. req[w] \in Request /\ Op(w) \in OpsAt[req[w].pc] /\ IsFiniteSet(req[w].todo)
    BY RequestFacts DEF FiniteInv
  <1>2. \A step : Goto(w, step).pc = step /\ Goto(w, step).call = req[w].call
                  /\ Goto(w, step).todo = req[w].todo
    BY <1>1 DEF Goto, Request
  <1>3. CASE GetPlayer(w)
    BY <1>1, <1>2, <1>3, Moved, GoingIdle, NextPlace DEF GetPlayer, Op
  <1>4. CASE GetGame(w)
    BY <1>1, <1>2, <1>4, Moved, GoingIdle, NextPlace DEF GetGame, Op
  <1>5. CASE GetScore(w) \/ SaveCity(w) \/ SaveScoreMap(w)
    BY <1>1, <1>2, <1>5, Moved, GoingIdle, NextPlace DEF GetScore, SaveCity, SaveScoreMap, Op
  <1>6. CASE SaveName(w)
    BY <1>1, <1>2, <1>6, Moved, GoingIdle, NextPlace DEF SaveName, Op
  <1>7. CASE Respond(w) \/ Abort(w)
    BY <1>1, <1>7, Moved, GoingIdle DEF Respond, Abort
  <1>8. CASE GenerateId(w)
    <2>1. PICK i : req'[w] = [req[w] EXCEPT !.id = i, !.pc = AfterId[Op(w)]]
      BY <1>8, MovedOn
    <2>2. req'[w].pc = AfterId[Op(w)] /\ req'[w].call = req[w].call
      BY <1>1, <2>1 DEF Request
    <2>3. req[w].pc = "generateId"
      BY <1>8 DEF GenerateId
    <2>4. QED
      BY <1>1, <2>2, <2>3, NextPlace DEF Op
  <1>9. CASE GetScoreMap(w)
    <2>1. \/ req'[w] = Idle
          \/ req'[w].pc = AfterMap[Op(w)] /\ req'[w].call = req[w].call
      BY <1>1, <1>9, MovedOn DEF Request
    <2>2. req[w].pc = "getScoreMap"
      BY <1>9 DEF GetScoreMap
    <2>3. QED
      BY <1>1, <2>1, <2>2, GoingIdle, NextPlace DEF Op
  <1>10. CASE SaveScore(w)
    <2>1. \/ req'[w] = Idle
          \/ req'[w].pc = "respond" /\ req'[w].call = req[w].call
      BY <1>1, <1>10, MovedOn DEF Request
    <2>2. req[w].pc = "saveScore"
      BY <1>10 DEF SaveScore
    <2>3. QED
      BY <1>1, <2>1, <2>2, GoingIdle, NextPlace DEF Op
  <1>11. CASE TopMap(w)
    <2>1. PICK t : req'[w] = [req[w] EXCEPT !.todo = t, !.pc = TopNext(t)]
      BY <1>11, MovedTop
    <2>2. req'[w].pc \in {"respond", "topScores"} /\ req'[w].call = req[w].call
      BY <1>1, <2>1 DEF Request, TopNext
    <2>3. QED
      BY <1>1, <1>11, <2>2, NextPlace DEF TopMap, Op
  <1>12. CASE TopScores(w)
    <2>1. PICK m \in req[w].todo :
              req'[w] = [req[w] EXCEPT !.todo = @ \ {m}, !.id = m[1][2],
                                       !.answer = @ \cup ScoresOf(m[1], m[2]),
                                       !.pc = "topPlayer"]
      BY <1>12, MovedTop, Zenon
    <2>2. req'[w].pc = "topPlayer" /\ req'[w].todo = req[w].todo \ {m}
      BY <1>1, <2>1 DEF Request
    <2>3. req[w].pc = "topScores"
      BY <1>12 DEF TopScores
    <2>4. QED
      BY <1>1, <2>2, <2>3, NextVisit
  <1>13. CASE TopPlayer(w)
    <2>1. /\ req[w].pc = "topPlayer"
          /\ \/ req'[w] = Idle
             \/ /\ req'[w].pc \in {"respond", "topScores"} /\ req'[w].call = req[w].call
                /\ req'[w].todo = req[w].todo
      BY <1>2, <1>13, Moved DEF TopPlayer, TopNext
    <2>2. QED
      BY <1>1, <2>1, GoingIdle, NextPlace, NextVisit DEF Op
  <1>14. QED
    BY <1>3, <1>4, <1>5, <1>6, <1>7, <1>8, <1>9, <1>10, <1>11, <1>12, <1>13,
       Zenon DEF Step

LEMMA InitFinite == Init => FiniteInv
  <1>1. IsFiniteSet({})
    BY FS_EmptySet
  <1>2. Init => mapped = {} /\ \A w \in Workers : req[w].todo = {}
    BY DEF Init, Idle
  <1>3. QED
    BY <1>1, <1>2 DEF FiniteInv

LEMMA NextFinite == TypeInv /\ IdsInv /\ FiniteInv /\ [Next]_vars => FiniteInv'
  <1> SUFFICES ASSUME TypeInv, IdsInv, FiniteInv, [Next]_vars PROVE FiniteInv'
    OBVIOUS
  <1>1. CASE UNCHANGED vars
    BY <1>1 DEF FiniteInv, vars, history
  <1>2. ASSUME NEW w \in Workers, Submit(w) \/ Step(w) \/ Abort(w) PROVE FiniteInv'
    <2>1. req[w] \in Request /\ IsFiniteSet(req[w].todo)
      BY RequestFacts DEF FiniteInv
    <2>2. IsFiniteSet(mapped')
      <3>1. mapped' = mapped \/ \E m : mapped' = mapped \cup {m}
        BY <1>2 DEF Step, Submit, Abort, GetPlayer, GetGame, GenerateId, SaveName, SaveCity,
           SaveColumn, SaveScoreMap, GetScoreMap, SaveScore, GetScore, TopMap, TopScores,
           TopPlayer, Respond, history
      <3>2. QED
        BY <3>1, FS_AddElement DEF FiniteInv
    <2>3. IsFiniteSet(req'[w].todo)
      <3>1. CASE Submit(w)
        BY <3>1, Begun, FS_EmptySet
      <3>2. CASE TopMap(w)
        <4>1. MapsOf(req[w].call.game) \subseteq mapped
          BY DEF MapsOf, IdsInv, MapsRecorded
        <4>2. req'[w].todo = MapsOf(req[w].call.game)
          BY <2>1, <3>2, MovedTop DEF Request
        <4>3. QED
          BY <4>1, <4>2, FS_Subset DEF FiniteInv
      <3>3. CASE TopScores(w)
        <4>1. \E m \in req[w].todo : req'[w].todo = req[w].todo \ {m}
          BY <2>1, <3>3, MovedTop DEF Request
        <4>2. QED
          BY <2>1, <4>1, FS_RemoveElement
      <3>4. ASSUME ~Submit(w), ~TopMap(w), ~TopScores(w)
            PROVE  req'[w] = Idle \/ req'[w].todo = req[w].todo
        BY <1>2, <2>1, <3>4, Moved, MovedOn DEF Step, Goto, Request
      <3>5. QED
        BY <2>1, <3>1, <3>2, <3>3, <3>4, IdlePc, FS_EmptySet
    <2>4. QED
      BY <1>2, <2>2, <2>3, OthersWait DEF FiniteInv
  <1>3. QED
    BY <1>1, <1>2 DEF Next

\* Whatever the others write meanwhile, each step of a request brings it
\* nearer its answer: it can only be kept from it by not being scheduled.
THEOREM AnswersComeNearer == Spec => StepsLeadToAnswer
  <1> DEFINE Closer ==
        \A w \in Workers : req[w].pc # "idle" /\ req'[w] # req[w] => Nearer(req[w], req'[w])
  <1>1. TypeInv /\ FiniteInv /\ [Next]_vars => [Closer]_vars
    <2> SUFFICES ASSUME TypeInv, FiniteInv, NEW w \in Workers, Submit(w) \/ Step(w) \/ Abort(w),
                        NEW v \in Workers, req[v].pc # "idle", req'[v] # req[v]
                 PROVE  Nearer(req[v], req'[v])
      BY DEF Next
    <2>1. v = w
      BY OthersWait
    <2>2. ~Submit(w)
      BY <2>1 DEF Submit
    <2>3. QED
      BY <2>1, <2>2, StepNearer
  <1>2. [Closer]_vars
          => [\A w \in Workers : req[w].pc # "idle" /\ req'[w] # req[w] =>
                \/ Ahead(req'[w]) < Ahead(req[w])
                \/ Ahead(req'[w]) = Ahead(req[w]) /\ Visits(req'[w]) < Visits(req[w])]_vars
    BY DEF Nearer
  <1> HIDE DEF Closer
  <1>3. QED
    BY <1>1, <1>2, InitTypeInv, NextTypeInv, InitIds, NextIds, InitFinite, NextFinite, PTL
       DEF Spec, StepsLeadToAnswer
================================================================================
