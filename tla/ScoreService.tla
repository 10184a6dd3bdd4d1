------------------------------ MODULE ScoreService ------------------------------
(***************************************************************************)
(* The JSON-RPC score service: Apache worker threads that serve API calls  *)
(* from one Redis database.  A request is a sequence of Redis commands     *)
(* with local PHP code between them, and nothing locks or groups the       *)
(* commands, so a step of this module is one Redis command with the local  *)
(* code up to the next one.  A request that throws answers an error and    *)
(* leaves whatever its earlier commands have written.                      *)
(*                                                                         *)
(* An API call passes a table of steps: FirstStep, AfterPlayer, AfterGame, *)
(* AfterId, AfterName and AfterMap give the step that follows in each      *)
(* operation.                                                              *)
(***************************************************************************)
EXTENDS Integers, FiniteSets, RedisHash

CONSTANTS Workers,     \* worker threads, one request each at a time
          Ops,         \* the operations the clients call, a subset of AllOps
          GameIds,     \* game ids the clients name, known or not
          PlayerIds,   \* player ids the clients name, known or not
          Dates,       \* the times microtime(true) can read
          Points,      \* the values of a score
          SeedGames,   \* number of games inserted beforehand
          SeedPlayers, \* number of players inserted beforehand
          MaxInserts   \* bound: insert calls the clients make

Inserts == {"playerInsert", "gameInsert", "scoreMapInsert", "scoreInsert"}
Reads == {"playerGet", "gameGet", "scoreMapGet", "getScoreId", "scoreGet", "getTop"}
AllOps == Inserts \cup Reads

ASSUME ServiceAssumption ==
    /\ Ops \subseteq AllOps
    /\ GameIds \subseteq Nat /\ PlayerIds \subseteq Nat
    /\ SeedGames \in Nat /\ SeedPlayers \in Nat /\ MaxInserts \in Nat

VARIABLES idGen,    \* hash idGenerator: the last id of each table
          rows,     \* hashes games_<id> and players_<id>: columns present
          scoreMap, \* hashes scoreMap_<game>: score id of each pair <<game, player>>
          scores,   \* hashes scores_<scoreId>: score at each <<scoreId, date>>
          req,      \* the request of each worker
          inserts,  \* insert calls made so far
          mapped,   \* history: every <<pair, score id>> ever written to scoreMap
          posted,   \* history: every entry ever written to scores
          acked     \* history: the entries answered with success

redis == <<idGen, rows, scoreMap, scores>>
history == <<mapped, posted, acked>>
vars == <<redis, req, inserts, history>>

Tables == {"games", "players", "scoreMap"}
Columns == {"name", "city"}
Pairs == GameIds \X PlayerIds
ScoreIds == Nat \ {0}
Entry == [pair : Pairs, id : ScoreIds, date : Dates, score : Points]

Calls ==
         [op : {"playerInsert", "gameInsert"}]
    \cup [op : {"playerGet"}, player : PlayerIds]
    \cup [op : {"gameGet", "getTop"}, game : GameIds]
    \cup [op : {"scoreMapInsert", "scoreMapGet", "getScoreId"},
          game : GameIds, player : PlayerIds]
    \cup [op : {"scoreInsert"}, game : GameIds, player : PlayerIds, score : Points]
    \cup [op : {"scoreGet"}, id : 1 .. MaxInserts, date : Dates]

(***************************************************************************)
(* The order of the commands in each operation: the calls of Api/*.php,    *)
(* with the loads inside them (a column of an object type loads the object *)
(* it is set to, so a score map loads its player before it is read itself  *)
(* and its game after) and the columns of an object in mapping order.      *)
(***************************************************************************)
FirstStep ==
    [playerInsert |-> "generateId", gameInsert |-> "generateId",
     playerGet |-> "getPlayer", gameGet |-> "getGame",
     scoreMapInsert |-> "getPlayer", scoreMapGet |-> "getPlayer",
     getScoreId |-> "getPlayer", scoreInsert |-> "getPlayer",
     scoreGet |-> "getScore", getTop |-> "getGame"]

AfterPlayer ==
    [playerGet |-> "respond", scoreMapInsert |-> "getGame",
     scoreInsert |-> "getGame", scoreMapGet |-> "getScoreMap",
     getScoreId |-> "getScoreMap"]

AfterGame ==
    [gameGet |-> "respond", scoreMapInsert |-> "generateId",
     scoreInsert |-> "getScoreMap", scoreMapGet |-> "respond",
     getScoreId |-> "respond", getTop |-> "topMap"]

AfterMap ==
    [scoreInsert |-> "saveScore", scoreMapGet |-> "getGame", getScoreId |-> "getGame"]

AfterId ==
    [playerInsert |-> "saveName", gameInsert |-> "saveName",
     scoreMapInsert |-> "saveScoreMap"]

AfterName == [playerInsert |-> "saveCity", gameInsert |-> "respond"]

TableOf ==
    [playerInsert |-> "players", gameInsert |-> "games", scoreMapInsert |-> "scoreMap"]

Steps == {"idle", "getPlayer", "getGame", "getScoreMap", "generateId", "saveName",
          "saveCity", "saveScoreMap", "saveScore", "getScore", "topMap",
          "topScores", "topPlayer", "respond"}

(***************************************************************************)
(* A worker between requests.  id is the id in hand: the one generated,    *)
(* the score id read, or the player getTop is at.  todo holds the players  *)
(* getTop has still to visit, answer the entries of the answer, before the *)
(* entries that could be reached when a getTop was called (history).       *)
(***************************************************************************)
Idle == [pc |-> "idle", call |-> [op |-> "none"], id |-> 0,
         todo |-> {}, answer |-> {}, before |-> {}]

Init ==
    /\ idGen = [games |-> SeedGames, players |-> SeedPlayers, scoreMap |-> 0]
    /\ rows = ({"games"} \X (1 .. SeedGames) \X {"name"})
                  \cup ({"players"} \X (1 .. SeedPlayers) \X Columns)
    /\ scoreMap = EmptyHash
    /\ scores = EmptyHash
    /\ req = [w \in Workers |-> Idle]
    /\ inserts = 0
    /\ mapped = {} /\ posted = {} /\ acked = {}

----------------------------------------------------------------------------
Op(w) == req[w].call.op
Pair(w) == <<req[w].call.game, req[w].call.player>>

\* hGetAll of an object finds at least one column (columns never go away).
Exists(table, i) == \E c \in Columns : <<table, i, c>> \in rows

Goto(w, step) == [req[w] EXCEPT !.pc = step]

\* The request goes on as r, or throws: an error is answered.
Proceed(w, ok, r) == req' = [req EXCEPT ![w] = IF ok THEN r ELSE Idle]

\* checkResult of an insert: a reply 0 of hSet throws, after the write.
CheckNothing(w, reply, r) == Proceed(w, TRUE, r) \* mutant: no checkResult

CheckInserted(w, reply, r) == Proceed(w, reply = 1, r)

\* The scores under a score id, and those the score maps lead to.
ScoresOf(pair, id) ==
    {[pair |-> pair, id |-> id, date |-> k[2], score |-> scores[k]] :
        k \in {l \in DOMAIN scores : l[1] = id}}

Reachable == UNION {ScoresOf(k, scoreMap[k]) : k \in DOMAIN scoreMap}

\* A client calls an operation.
Submit(w) ==
    /\ req[w].pc = "idle"
    /\ \E c \in Calls :
        /\ c.op \in Ops
        /\ c.op \in Inserts => inserts < MaxInserts
        /\ inserts' = IF c.op \in Inserts THEN inserts + 1 ELSE inserts
        /\ req' = [req EXCEPT ![w] =
                      [Idle EXCEPT !.pc = FirstStep[c.op], !.call = c,
                                   !.before = IF c.op = "getTop" THEN Reachable ELSE {}]]
    /\ UNCHANGED <<redis, history>>

GetPlayerUnchecked(w) == \* mutant: throwIfNull is false
    /\ req[w].pc = "getPlayer"
    /\ Proceed(w, TRUE, Goto(w, AfterPlayer[Op(w)]))
    /\ UNCHANGED <<redis, inserts, history>>

GetPlayer(w) ==
    /\ req[w].pc = "getPlayer"
    /\ Proceed(w, Exists("players", req[w].call.player), Goto(w, AfterPlayer[Op(w)]))
    /\ UNCHANGED <<redis, inserts, history>>

GetGame(w) ==
    /\ req[w].pc = "getGame"
    /\ Proceed(w, Exists("games", req[w].call.game), Goto(w, AfterGame[Op(w)]))
    /\ UNCHANGED <<redis, inserts, history>>

GenerateIdOne(w) == \* mutant: createIdGenerator every time
    /\ req[w].pc = "generateId"
    /\ idGen' = [idGen EXCEPT ![TableOf[Op(w)]] = 1]
    /\ req' = [req EXCEPT ![w].id = 1, ![w].pc = AfterId[Op(w)]]
    /\ UNCHANGED <<rows, scoreMap, scores, inserts, history>>

\* hIncrBy; the hGet before it decides nothing (module IdGenerator).
GenerateId(w) ==
    /\ req[w].pc = "generateId"
    /\ LET t == TableOf[Op(w)]
       IN  /\ idGen' = [idGen EXCEPT ![t] = @ + 1]
           /\ req' = [req EXCEPT ![w].id = idGen[t] + 1, ![w].pc = AfterId[Op(w)]]
    /\ UNCHANGED <<rows, scoreMap, scores, inserts, history>>

\* An object is saved column by column: name first, city second.
SaveColumn(w, c, step) ==
    LET column == <<TableOf[Op(w)], req[w].id, c>>
    IN  /\ rows' = rows \cup {column}
        /\ CheckInserted(w, IF column \in rows THEN 0 ELSE 1, Goto(w, step))
        /\ UNCHANGED <<idGen, scoreMap, scores, inserts, history>>

SaveName(w) == req[w].pc = "saveName" /\ SaveColumn(w, "name", AfterName[Op(w)])

SaveCity(w) == req[w].pc = "saveCity" /\ SaveColumn(w, "city", "respond")

\* The pair points to the new score id even when the insert is refused.
SaveScoreMap(w) ==
    /\ req[w].pc = "saveScoreMap"
    /\ scoreMap' = HSet(scoreMap, Pair(w), req[w].id)
    /\ mapped' = mapped \cup {<<Pair(w), req[w].id>>}
    /\ CheckInserted(w, HSetReply(scoreMap, Pair(w)), Goto(w, "respond"))
    /\ UNCHANGED <<idGen, rows, scores, inserts, posted, acked>>

GetScoreMapOrZero(w) == \* mutant: a miss is read as 0
    /\ req[w].pc = "getScoreMap"
    /\ LET sid == IF HGetHit(scoreMap, Pair(w)) THEN scoreMap[Pair(w)] ELSE 0
       IN  Proceed(w, TRUE, [req[w] EXCEPT !.id = sid, !.pc = AfterMap[Op(w)]])
    /\ UNCHANGED <<redis, inserts, history>>

GetScoreMapOfGame(w) == \* mutant: the field is not the player's
    /\ req[w].pc = "getScoreMap"
    /\ \E k \in DOMAIN scoreMap :
        /\ k[1] = req[w].call.game
        /\ Proceed(w, TRUE, [req[w] EXCEPT !.id = scoreMap[k], !.pc = AfterMap[Op(w)]])
    /\ UNCHANGED <<redis, inserts, history>>

GetScoreMap(w) ==
    /\ req[w].pc = "getScoreMap"
    /\ Proceed(w, HGetHit(scoreMap, Pair(w)),
               [req[w] EXCEPT !.id = scoreMap[Pair(w)], !.pc = AfterMap[Op(w)]])
    /\ UNCHANGED <<redis, inserts, history>>

NewEntry(w, d) ==
    [pair |-> Pair(w), id |-> req[w].id, date |-> d, score |-> req[w].call.score]

SaveLatestScore(w) == \* mutant: one score per id, as if the key had no date
    /\ req[w].pc = "saveScore"
    /\ \E d \in Dates :
        LET e == NewEntry(w, d)
        IN  /\ scores' = HSet([k \in {l \in DOMAIN scores : l[1] # e.id} |-> scores[k]],
                              <<e.id, d>>, e.score)
            /\ posted' = posted \cup {e}
            /\ req' = [req EXCEPT ![w].answer = {e}, ![w].pc = "respond"]
    /\ UNCHANGED <<idGen, rows, scoreMap, inserts, mapped, acked>>

\* The clock is read just before; it may stand still or jump back.
SaveScore(w) ==
    /\ req[w].pc = "saveScore"
    /\ \E d \in Dates :
        LET e == NewEntry(w, d)
        IN  /\ scores' = HSet(scores, <<e.id, d>>, e.score)
            /\ posted' = posted \cup {e}
            /\ CheckInserted(w, HSetReply(scores, <<e.id, d>>),
                             [req[w] EXCEPT !.answer = {e}, !.pc = "respond"])
    /\ UNCHANGED <<idGen, rows, scoreMap, inserts, mapped, acked>>

GetScore(w) ==
    /\ req[w].pc = "getScore"
    /\ Proceed(w, HGetHit(scores, <<req[w].call.id, req[w].call.date>>),
               Goto(w, "respond"))
    /\ UNCHANGED <<redis, inserts, history>>

\* getTop reads the score map of the game, then visits its players one by
\* one in the order of the hash, which is any order.
TopNext(todo) == IF todo = {} THEN "respond" ELSE "topScores"

TopMap(w) ==
    /\ req[w].pc = "topMap"
    /\ LET maps == {<<k, scoreMap[k]>> : k \in {l \in DOMAIN scoreMap : l[1] = req[w].call.game}}
       IN  req' = [req EXCEPT ![w].todo = maps, ![w].pc = TopNext(maps)]
    /\ UNCHANGED <<redis, inserts, history>>

TopScoresAgain(w) == \* mutant: the loop does not advance
    /\ req[w].pc = "topScores"
    /\ \E m \in req[w].todo :
        req' = [req EXCEPT ![w].id = m[1][2], ![w].pc = "topPlayer",
                           ![w].answer = @ \cup ScoresOf(m[1], m[2])]
    /\ UNCHANGED <<redis, inserts, history>>

TopScoresOfPlayerId(w) == \* mutant: reads scores_<player id>
    /\ req[w].pc = "topScores"
    /\ \E m \in req[w].todo :
        req' = [req EXCEPT ![w].todo = @ \ {m}, ![w].id = m[1][2], ![w].pc = "topPlayer",
                           ![w].answer = @ \cup ScoresOf(m[1], m[1][2])]
    /\ UNCHANGED <<redis, inserts, history>>

TopScores(w) ==
    /\ req[w].pc = "topScores"
    /\ \E m \in req[w].todo :
        req' = [req EXCEPT ![w].todo = @ \ {m},
                           ![w].id = m[1][2],
                           ![w].answer = @ \cup ScoresOf(m[1], m[2]),
                           ![w].pc = "topPlayer"]
    /\ UNCHANGED <<redis, inserts, history>>

TopPlayerOnce(w) == \* mutant: returns from inside the loop
    /\ req[w].pc = "topPlayer"
    /\ Proceed(w, Exists("players", req[w].id), Goto(w, "respond"))
    /\ UNCHANGED <<redis, inserts, history>>

TopPlayer(w) ==
    /\ req[w].pc = "topPlayer"
    /\ Proceed(w, Exists("players", req[w].id), Goto(w, TopNext(req[w].todo)))
    /\ UNCHANGED <<redis, inserts, history>>

Respond(w) ==
    /\ req[w].pc = "respond"
    /\ acked' = IF Op(w) = "scoreInsert" THEN acked \cup req[w].answer ELSE acked
    /\ req' = [req EXCEPT ![w] = Idle]
    /\ UNCHANGED <<redis, inserts, mapped, posted>>

\* The request dies between two commands, or before its answer is sent: a
\* Redis error or a lost connection, the time limit, a stopped server.
Abort(w) ==
    /\ req[w].pc # "idle"
    /\ req' = [req EXCEPT ![w] = Idle]
    /\ UNCHANGED <<redis, inserts, history>>

Step(w) ==
    \/ GetPlayer(w) \/ GetGame(w) \/ GenerateId(w)
    \/ SaveName(w) \/ SaveCity(w) \/ SaveScoreMap(w)
    \/ GetScoreMap(w) \/ SaveScore(w) \/ GetScore(w)
    \/ TopMap(w) \/ TopScores(w) \/ TopPlayer(w)
    \/ Respond(w)

Next == \E w \in Workers : Submit(w) \/ Step(w) \/ Abort(w)

Spec == Init /\ [][Next]_vars

\* A thread that serves a request goes on; clients need not call.
FairSpec == Spec /\ \A w \in Workers : WF_vars(Step(w))

----------------------------------------------------------------------------
Request == [pc : Steps, call : Calls \cup {[op |-> "none"]}, id : Nat,
            todo : SUBSET (Pairs \X ScoreIds),
            answer : SUBSET Entry, before : SUBSET Entry]

\* The type invariant.
TypeOK ==
    /\ idGen \in [Tables -> Nat]
    /\ rows \subseteq ({"games", "players"} \X Nat \X Columns)
    /\ DOMAIN scoreMap \subseteq Pairs
    /\ scoreMap \in [DOMAIN scoreMap -> ScoreIds]
    /\ DOMAIN scores \subseteq ScoreIds \X Dates
    /\ scores \in [DOMAIN scores -> Points]
    /\ req \in [Workers -> Request]
    /\ inserts \in 0 .. MaxInserts
    /\ mapped \subseteq Pairs \X ScoreIds
    /\ posted \subseteq Entry
    /\ acked \subseteq posted

\* No two pairs of a game and a player ever share a score id, in the score
\* maps or in the history of them, whichever requests run at the same time
\* (generateNextId against the hSet of another ScoreMap.insert).
ScoreIdsUnshared ==
    \A m, n \in mapped : m[2] = n[2] => m[1] = n[1]

\* A score stands under a score id of the pair it was posted for: the id
\* Score.insert read before its hSet was given to that pair and to no other.
OwnScores ==
    /\ \A e \in posted : <<e.pair, e.id>> \in mapped
    /\ \A e, f \in posted : e.id = f.id => e.pair = f.pair

\* An id fresh from the generator is used nowhere: the insert of a player or
\* a game never overwrites a column (checkResult never refuses it), and a
\* new score map never starts with somebody's scores.
NewIdsAreFresh ==
    \A w \in Workers :
        /\ req[w].pc = "saveName" => ~Exists(TableOf[Op(w)], req[w].id)
        /\ req[w].pc = "saveScoreMap" =>
              /\ \A m \in mapped : m[2] # req[w].id
              /\ \A k \in DOMAIN scores : k[1] # req[w].id

Overwritten(e) == \E f \in posted : f.id = e.id /\ f.date = e.date /\ f # e
Repointed(e) == \E m \in mapped : m[1] = e.pair /\ m[2] # e.id

\* A score whose insert was answered with success is in the database with
\* its value, reachable through the score map of its pair, until another
\* insert hits the same id and date or the pair is given another score id.
AckedKept ==
    \A e \in acked :
        /\ Overwritten(e) \/ (/\ <<e.id, e.date>> \in DOMAIN scores
                              /\ scores[<<e.id, e.date>>] = e.score)
        /\ Repointed(e) \/ (e.pair \in DOMAIN scoreMap /\ scoreMap[e.pair] = e.id)

\* Of the inserts that hit one score id and date, one at most is answered
\* with success (the reply 0 of hSet refuses the others), so two scores a
\* client knows to be accepted never exclude each other.
OneAckPerField ==
    \A e, f \in acked : e.id = f.id /\ e.date = f.date => e = f

\* Every score map entry names a game and a player that exist, so a getTop
\* that has found its game is never refused for a player half-way through.
MapRefs ==
    /\ \A m \in mapped : Exists("games", m[1][1]) /\ Exists("players", m[1][2])
    /\ \A w \in Workers : req[w].pc = "topPlayer" => Exists("players", req[w].id)

\* A getTop shows every score of its game that could be reached when it was
\* called and still can when it answers, although it reads the score map and
\* each player's scores at different times.  (A score overwritten in between
\* and written again with its old value may be missed.)
TopComplete ==
    \A w \in Workers :
        Op(w) = "getTop" /\ req[w].pc = "respond" =>
            \A e \in req[w].before \cap Reachable :
                e.pair[1] = req[w].call.game =>
                    e \in req[w].answer \/ Overwritten(e)

\* What a getTop shows was posted, for the game that was asked for and by
\* the player it is shown with.
TopSound ==
    \A w \in Workers :
        Op(w) = "getTop" =>
            \A e \in req[w].answer : e \in posted /\ e.pair[1] = req[w].call.game

\* The score id ScoreMap.get and ScoreMap.insert answer was given to the
\* pair that was asked for.
AnsweredIdIsOwn ==
    \A w \in Workers :
        req[w].pc = "respond" /\ Op(w) \in {"scoreMapGet", "scoreMapInsert"} =>
            <<Pair(w), req[w].id>> \in mapped

\* How far a request is from its answer: its place in the order of the steps
\* (all of the loop of getTop is one place), and in the loop what is left.
Ahead(r) ==
    CASE r.pc = "idle" -> 0
      [] r.pc = "respond" -> 1
      [] r.pc \in {"saveCity", "saveScoreMap", "saveScore", "getScore", "topScores", "topPlayer"} -> 2
      [] r.pc \in {"saveName", "topMap"} -> 3
      [] r.pc \in {"generateId", "getScoreMap"} -> 4
      [] r.pc = "getGame" -> IF r.call.op \in {"scoreMapGet", "getScoreId"} THEN 2 ELSE 5
      [] r.pc = "getPlayer" -> 6

Visits(r) == 2 * Cardinality(r.todo) + (IF r.pc = "topPlayer" THEN 1 ELSE 0)

\* Whatever else is written meanwhile, each step of a request brings it
\* nearer its answer: no command is sent twice but in the loop of getTop,
\* whose players are those of the map read once and can only become fewer.
StepsLeadToAnswer ==
    [][\A w \in Workers : req[w].pc # "idle" /\ req'[w] # req[w] =>
         \/ Ahead(req'[w]) < Ahead(req[w])
         \/ Ahead(req'[w]) = Ahead(req[w]) /\ Visits(req'[w]) < Visits(req[w])]_vars

----------------------------------------------------------------------------
\* The leaderboard a reader would see if all reads happened at once.
Board == {[pair |-> e.pair, date |-> e.date, score |-> e.score] : e \in Reachable}

Abstract == INSTANCE Leaderboard
    WITH Pairs <- Pairs, Times <- Dates,
         enrolled <- DOMAIN scoreMap, board <- Board

\* Under every interleaving and failure the service is a leaderboard: each
\* Redis command enrols a pair, posts one score, restarts one pair's board,
\* or changes nothing a reader can see.
ImplementsLeaderboard == Abstract!LSpec

\* Every request ends, whatever the others do (with FairSpec).
AllAnswered == \A w \in Workers : req[w].pc # "idle" ~> req[w].pc = "idle"

\* What the message of checkResult says of a refused insert: "You are
\* inserting already existing values", so the values in place stay.
RefusedInsertKeepsMap ==
    [][\A k \in DOMAIN scoreMap : k \in DOMAIN scoreMap' /\ scoreMap'[k] = scoreMap[k]]_vars

\* getScoreId answers getId() of the score map, which is its game's id.
AnsweredScoreId(w) == IF Op(w) = "getScoreId" THEN req[w].call.game ELSE req[w].id

\* ScoreMap.getScoreId answers the score id ("@property int $scoreId").
GetScoreIdAnswersScoreId ==
    \A w \in Workers :
        req[w].pc = "respond" /\ Op(w) = "getScoreId" =>
            <<Pair(w), AnsweredScoreId(w)>> \in mapped
================================================================================
