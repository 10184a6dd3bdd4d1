------------------------------ MODULE InitDbProofs ------------------------------
(***************************************************************************)
(* Theorems about InitDb for lists of any length and any number of runs,   *)
(* workers and faults.  Between flushes the steps are those of             *)
(* ScoreService, so the lemmas of BoardProofs about one step are used.     *)
(* First how often scores are posted (SeedInv), then what the database     *)
(* holds while a run is good (ContentInv).                                 *)
(***************************************************************************)
EXTENDS InitDb, BoardProofs, FiniteSetTheorems

(***************************************************************************)
(* The script.  The call that decides a run is the first score map, before *)
(* every score.                                                            *)
(***************************************************************************)
First == Games + Players + 1
FirstPair == ScoreMaps[1]

\* The calls before the scores.
Before == Games + Players + Len(ScoreMaps)

ScriptCalls ==
    [op : {"gameInsert", "playerInsert"}]
    \cup [op : {"scoreMapInsert"}, game : GameIds, player : PlayerIds]
    \cup [op : {"scoreInsert"}, game : GameIds, player : PlayerIds, score : Points]

LEMMA PairFields ==
    ASSUME NEW k \in Pairs PROVE k[1] \in GameIds /\ k[2] \in PlayerIds /\ k = <<k[1], k[2]>>
  BY DEF Pairs

LEMMA JoinedTwo ==
    ASSUME NEW S, NEW a \in Seq(S), NEW b \in Seq(S), NEW s, s = a \o b
    PROVE  /\ s \in Seq(S) /\ Len(s) = Len(a) + Len(b)
           /\ \A i \in 1 .. Len(a) : s[i] = a[i]
           /\ \A i \in Nat : i \in 1 .. Len(b) => s[Len(a) + i] = b[i]
  OBVIOUS

LEMMA Joined ==
    ASSUME NEW S, NEW a \in Seq(S), NEW b \in Seq(S), NEW c \in Seq(S), NEW d \in Seq(S),
           NEW s, s = a \o b \o c \o d
    PROVE  /\ s \in Seq(S)
           /\ Len(s) = Len(a) + Len(b) + Len(c) + Len(d)
           /\ \A i \in 1 .. Len(a) : s[i] = a[i]
           /\ \A i \in 1 .. Len(b) : s[Len(a) + i] = b[i]
           /\ \A i \in 1 .. Len(c) : s[Len(a) + Len(b) + i] = c[i]
           /\ \A i \in 1 .. Len(d) : s[Len(a) + Len(b) + Len(c) + i] = d[i]
  <1>1. PICK ab : ab = a \o b
    OBVIOUS
  <1>2. PICK abc : abc = ab \o c
    OBVIOUS
  <1>3. s = abc \o d
    BY <1>1, <1>2
  <1>4. /\ ab \in Seq(S) /\ Len(ab) = Len(a) + Len(b)
        /\ \A i \in 1 .. Len(a) : ab[i] = a[i]
        /\ \A i \in Nat : i \in 1 .. Len(b) => ab[Len(a) + i] = b[i]
    BY <1>1, JoinedTwo
  <1>5. /\ abc \in Seq(S) /\ Len(abc) = Len(ab) + Len(c)
        /\ \A i \in 1 .. Len(ab) : abc[i] = ab[i]
        /\ \A i \in Nat : i \in 1 .. Len(c) => abc[Len(ab) + i] = c[i]
    <2>1. ab \in Seq(S)
      BY <1>4
    <2>2. QED
      BY <1>2, <2>1, JoinedTwo
  <1>6. /\ s \in Seq(S) /\ Len(s) = Len(abc) + Len(d)
        /\ \A i \in 1 .. Len(abc) : s[i] = abc[i]
        /\ \A i \in Nat : i \in 1 .. Len(d) => s[Len(abc) + i] = d[i]
    <2>1. abc \in Seq(S)
      BY <1>5
    <2>2. QED
      BY <1>3, <2>1, JoinedTwo
  <1>7. Len(a) \in Nat /\ Len(b) \in Nat /\ Len(c) \in Nat /\ Len(d) \in Nat
    OBVIOUS
  <1>8. ASSUME NEW i \in 1 .. Len(a) PROVE s[i] = a[i]
    BY <1>4, <1>5, <1>6, <1>7
  <1>9. ASSUME NEW i \in 1 .. Len(b) PROVE s[Len(a) + i] = b[i]
    <2>1. Len(a) + i \in 1 .. Len(ab) /\ Len(a) + i \in 1 .. Len(abc)
      BY <1>4, <1>5, <1>7
    <2>2. ab[Len(a) + i] = b[i]
      BY <1>4, <1>7
    <2>3. QED
      BY <2>1, <2>2, <1>5, <1>6
  <1>10. ASSUME NEW i \in 1 .. Len(c) PROVE s[Len(a) + Len(b) + i] = c[i]
    <2>1. Len(ab) + i \in 1 .. Len(abc) /\ Len(ab) + i = Len(a) + Len(b) + i
      BY <1>4, <1>5, <1>7
    <2>2. abc[Len(ab) + i] = c[i]
      BY <1>5, <1>7
    <2>3. QED
      BY <2>1, <2>2, <1>6
  <1>11. Len(s) = Len(a) + Len(b) + Len(c) + Len(d)
    BY <1>4, <1>5, <1>6, <1>7
  <1>12. ASSUME NEW i \in 1 .. Len(d) PROVE s[Len(a) + Len(b) + Len(c) + i] = d[i]
    BY <1>4, <1>5, <1>6, <1>7
  <1>13. QED
    BY <1>6, <1>8, <1>9, <1>10, <1>11, <1>12

\* The script is the games, the players, the score maps and the scores.
LEMMA ScriptShape ==
    /\ Script \in Seq(ScriptCalls)
    /\ Len(Script) = Before + Len(ScoreList)
    /\ \A i \in 1 .. Games : Script[i].op = "gameInsert"
    /\ \A i \in 1 .. Players : Script[Games + i].op = "playerInsert"
    /\ \A i \in 1 .. Len(ScoreMaps) :
          /\ Script[Games + Players + i].op = "scoreMapInsert"
          /\ <<Script[Games + Players + i].game, Script[Games + Players + i].player>> = ScoreMaps[i]
    /\ \A i \in 1 .. Len(ScoreList) :
          /\ Script[Before + i].op = "scoreInsert"
          /\ ScoreList[i] = <<<<Script[Before + i].game, Script[Before + i].player>>,
                             Script[Before + i].score>>
  <1> DEFINE a == [i \in 1 .. Games |-> [op |-> "gameInsert"]]
             b == [i \in 1 .. Players |-> [op |-> "playerInsert"]]
             c == [i \in 1 .. Len(ScoreMaps) |->
                     [op |-> "scoreMapInsert", game |-> ScoreMaps[i][1],
                      player |-> ScoreMaps[i][2]]]
             d == [i \in 1 .. Len(ScoreList) |->
                     [op |-> "scoreInsert", game |-> ScoreList[i][1][1],
                      player |-> ScoreList[i][1][2], score |-> ScoreList[i][2]]]
  <1>1. /\ Games \in Nat /\ Players \in Nat
        /\ Len(ScoreMaps) \in Nat /\ Len(ScoreList) \in Nat
        /\ \A i \in 1 .. Len(ScoreMaps) : ScoreMaps[i] \in Pairs
        /\ \A i \in 1 .. Len(ScoreList) : ScoreList[i] \in Pairs \X Points
    BY SeedAssumption
  <1>2. a \in Seq(ScriptCalls) /\ Len(a) = Games /\ \A i \in 1 .. Games : a[i].op = "gameInsert"
    BY <1>1 DEF ScriptCalls
  <1>3. b \in Seq(ScriptCalls) /\ Len(b) = Players
        /\ \A i \in 1 .. Players : b[i].op = "playerInsert"
    BY <1>1 DEF ScriptCalls
  <1>4. c \in Seq(ScriptCalls) /\ Len(c) = Len(ScoreMaps)
    <2>1. \A i \in 1 .. Len(ScoreMaps) : c[i] \in ScriptCalls
      BY <1>1, PairFields DEF ScriptCalls
    <2>2. QED
      BY <1>1, <2>1
  <1>5. ASSUME NEW i \in 1 .. Len(ScoreMaps)
        PROVE  c[i].op = "scoreMapInsert" /\ <<c[i].game, c[i].player>> = ScoreMaps[i]
    <2>1. ScoreMaps[i] = <<ScoreMaps[i][1], ScoreMaps[i][2]>>
      BY <1>1, PairFields
    <2>2. QED
      BY <2>1
  <1>6. d \in Seq(ScriptCalls) /\ Len(d) = Len(ScoreList)
    <2>1. \A i \in 1 .. Len(ScoreList) : d[i] \in ScriptCalls
      BY <1>1, PairFields DEF ScriptCalls
    <2>2. QED
      BY <1>1, <2>1
  <1>7. ASSUME NEW i \in 1 .. Len(ScoreList)
        PROVE  d[i].op = "scoreInsert" /\ ScoreList[i] = <<<<d[i].game, d[i].player>>, d[i].score>>
    <2>1. ScoreList[i] = <<ScoreList[i][1], ScoreList[i][2]>> /\ ScoreList[i][1] \in Pairs
      BY <1>1
    <2>2. ScoreList[i][1] = <<ScoreList[i][1][1], ScoreList[i][1][2]>>
      BY <2>1, PairFields
    <2>3. QED
      BY <2>1, <2>2
  <1>8. Script = a \o b \o c \o d
    BY DEF Script
  <1> HIDE DEF a, b, c, d
  <1>9. /\ a \in Seq(ScriptCalls) /\ b \in Seq(ScriptCalls)
        /\ c \in Seq(ScriptCalls) /\ d \in Seq(ScriptCalls)
    BY <1>2, <1>3, <1>4, <1>6
  <1>10. /\ Script \in Seq(ScriptCalls)
         /\ Len(Script) = Len(a) + Len(b) + Len(c) + Len(d)
         /\ \A i \in 1 .. Len(a) : Script[i] = a[i]
         /\ \A i \in 1 .. Len(b) : Script[Len(a) + i] = b[i]
         /\ \A i \in 1 .. Len(c) : Script[Len(a) + Len(b) + i] = c[i]
         /\ \A i \in 1 .. Len(d) : Script[Len(a) + Len(b) + Len(c) + i] = d[i]
    BY <1>8, <1>9, Joined, SMTT(60)
  <1>11. Before = Len(a) + Len(b) + Len(c)
    BY <1>2, <1>3, <1>4 DEF Before
  <1>12. Script \in Seq(ScriptCalls) /\ Len(Script) = Before + Len(ScoreList)
    BY <1>6, <1>10, <1>11
  <1>13. \A i \in 1 .. Games : Script[i].op = "gameInsert"
    BY <1>2, <1>10
  <1>14. \A i \in 1 .. Players : Script[Games + i].op = "playerInsert"
    BY <1>2, <1>3, <1>10
  <1>15. \A i \in 1 .. Len(ScoreMaps) : Script[Games + Players + i] = c[i]
    BY <1>2, <1>3, <1>4, <1>10
  <1>16. \A i \in 1 .. Len(ScoreList) : Script[Before + i] = d[i]
    BY <1>6, <1>10, <1>11
  <1>17. QED
    BY <1>5, <1>7, <1>12, <1>13, <1>14, <1>15, <1>16

LEMMA ListLengths ==
    /\ Games \in Nat \ {0} /\ Players \in Nat \ {0}
    /\ Len(ScoreMaps) \in Nat \ {0} /\ Len(ScoreList) \in Nat \ {0}
    /\ Before \in Nat /\ Before = Games + Players + Len(ScoreMaps)
    /\ Len(Script) \in Nat /\ Len(Script) = Before + Len(ScoreList)
  <1>1. Len(ScoreMaps) \in Nat \ {0} /\ Len(ScoreList) \in Nat \ {0}
    BY SeedAssumption
  <1>2. QED
    BY <1>1, SeedAssumption, ScriptShape DEF Before

\* The list a call is of, and its place there.
LEMMA ScriptPlaces ==
    ASSUME NEW p \in 1 .. Len(Script)
    PROVE  /\ Script[p].op \in Inserts
           /\ Script[p].op = "gameInsert" => p \in 1 .. Games
           /\ Script[p].op = "playerInsert" => p - Games \in 1 .. Players
           /\ Script[p].op = "scoreMapInsert" =>
                 p - (Games + Players) \in 1 .. Len(ScoreMaps)
           /\ Script[p].op = "scoreInsert" => p - Before \in 1 .. Len(ScoreList)
  <1>1. \/ p \in 1 .. Games
        \/ p - Games \in 1 .. Players
        \/ p - (Games + Players) \in 1 .. Len(ScoreMaps)
        \/ p - Before \in 1 .. Len(ScoreList)
    BY ListLengths
  <1>2. CASE p \in 1 .. Games
    BY <1>2, ScriptShape DEF Inserts
  <1>3. CASE p - Games \in 1 .. Players
    <2>1. PICK i \in 1 .. Players : i = p - Games
      BY <1>3
    <2>2. p = Games + i
      BY <2>1, ListLengths
    <2>3. Script[p].op = "playerInsert"
      BY <2>2, ScriptShape
    <2>4. QED
      BY <1>3, <2>3 DEF Inserts
  <1>4. CASE p - (Games + Players) \in 1 .. Len(ScoreMaps)
    <2>1. PICK i \in 1 .. Len(ScoreMaps) : i = p - (Games + Players)
      BY <1>4
    <2>2. p = Games + Players + i
      BY <2>1, ListLengths
    <2>3. Script[p].op = "scoreMapInsert"
      BY <2>2, ScriptShape
    <2>4. QED
      BY <1>4, <2>3 DEF Inserts
  <1>5. CASE p - Before \in 1 .. Len(ScoreList)
    <2>1. PICK i \in 1 .. Len(ScoreList) : i = p - Before
      BY <1>5
    <2>2. p = Before + i
      BY <2>1, ListLengths
    <2>3. Script[p].op = "scoreInsert"
      BY <2>2, ScriptShape
    <2>4. QED
      BY <1>5, <2>3 DEF Inserts
  <1>6. QED
    BY <1>1, <1>2, <1>3, <1>4, <1>5

LEMMA ScriptFacts ==
    /\ Script \in Seq(ScriptCalls)
    /\ First \in 1 .. Len(Script)
    /\ Script[First].op = "scoreMapInsert"
    /\ <<Script[First].game, Script[First].player>> = FirstPair
    /\ \A p \in 1 .. Len(Script) : Script[p].op = "scoreInsert" => p > First
  <1>1. Script \in Seq(ScriptCalls)
    BY ScriptShape
  <1>2. 1 \in 1 .. Len(ScoreMaps) /\ First = Games + Players + 1
    BY ListLengths DEF First
  <1>3. /\ Script[First].op = "scoreMapInsert"
        /\ <<Script[First].game, Script[First].player>> = FirstPair
    BY <1>2, ScriptShape DEF FirstPair
  <1>4. First \in 1 .. Len(Script) /\ First <= Before
    BY <1>2, ListLengths
  <1>5. ASSUME NEW p \in 1 .. Len(Script), Script[p].op = "scoreInsert" PROVE p > First
    <2>1. p - Before \in 1 .. Len(ScoreList)
      BY <1>5, ScriptPlaces
    <2>2. QED
      BY <1>4, <2>1, ListLengths
  <1>6. QED
    BY <1>1, <1>3, <1>4, <1>5

----------------------------------------------------------------------------
(***************************************************************************)
(* Types, and what client and server know of each other: the request the   *)
(* client waits for was sent by its present run, and every request by some *)
(* run.                                                                    *)
(***************************************************************************)
SentBy(w) == req[w].pc # "idle" => sender[w] \in 1 .. runs

SeedInv ==
    /\ TypeInv /\ ITypeOK
    /\ place # 0 => runs # 0
    /\ server # Nobody => place # 0 /\ sender[server] = runs
    /\ \A w \in Workers : SentBy(w)

\* A request keeps its call until it ends.
LEMMA StepCall ==
    ASSUME TypeInv, NEW w \in Workers, Step(w)
    PROVE  req'[w].pc = "idle" \/ req'[w].call = req[w].call
  <1>1. req[w] \in Request
    BY RequestFacts
  <1>2. CASE GetPlayer(w) \/ GetGame(w) \/ GetScore(w) \/ SaveName(w) \/ SaveCity(w)
             \/ SaveScoreMap(w) \/ TopPlayer(w) \/ Respond(w)
    BY <1>1, <1>2, Moved, IdlePc DEF Goto, Request
  <1>3. CASE GenerateId(w) \/ GetScoreMap(w) \/ SaveScore(w)
    BY <1>1, <1>3, MovedOn, IdlePc DEF Request
  <1>4. CASE TopMap(w) \/ TopScores(w)
    <2>1. CASE TopMap(w)
      <3>1. PICK t \in {MapsOf(req[w].call.game)} :
                req'[w] = [req[w] EXCEPT !.todo = t, !.pc = TopNext(t)]
        BY <2>1, MovedTop
      <3>2. QED
        BY <1>1, <3>1 DEF Request
    <2>2. CASE TopScores(w)
      BY <1>1, <2>2, MovedTop DEF Request
    <2>3. QED
      BY <1>4, <2>1, <2>2
  <1>5. QED
    BY <1>2, <1>3, <1>4 DEF Step

LEMMA SubmitStarts ==
    ASSUME TypeInv, NEW w \in Workers, Submit(w) PROVE req'[w].pc # "idle"
  <1>1. PICK c \in Calls : c.op \in AllOps /\ req'[w].pc = FirstStep[c.op]
    BY Begun
  <1>2. FirstStep[c.op] # "idle"
    BY <1>1 DEF FirstStep, AllOps, Inserts, Reads
  <1>3. QED
    BY <1>1, <1>2

\* After checkResult the client is at the next call or has ended.
LEMMA CheckedTypes ==
    ASSUME SeedInv, NEW success \in BOOLEAN, Checked(success)
    PROVE  /\ place' \in 0 .. Len(Script) /\ server' = Nobody
           /\ result' \in {"none", "done", "failed"} /\ (place' # 0 => result' = "none")
           /\ runs' = runs
           /\ place' # 0 => (success /\ place' = place + 1)
           /\ place' # 0 => (place # 0 => runs # 0)
  <1>1. Len(Script) \in Nat /\ place \in 0 .. Len(Script)
    BY ScriptFacts DEF SeedInv, ITypeOK
  <1>2. CASE success /\ place < Len(Script)
    BY <1>1, <1>2 DEF Checked, SeedInv
  <1>3. CASE ~(success /\ place < Len(Script))
    BY <1>1, <1>3 DEF Checked, SeedInv
  <1>4. QED
    BY <1>2, <1>3

LEMMA StartTypes == ASSUME SeedInv, Start PROVE SeedInv'
  <1>1. TypeInv'
    BY NextTypeInv DEF SeedInv, Start
  <1>2. UNCHANGED <<req, faults, trusted, sender, seeding>>
    BY DEF Start, vars
  <1>3. runs \in Nat /\ runs' = runs + 1 /\ runs' \in 1 .. MaxRuns
    BY SeedAssumption DEF Start, SeedInv, ITypeOK
  <1>4. place' = 1 /\ server' = Nobody /\ result' = "none" /\ clean' \in BOOLEAN
    BY DEF Start
  <1>5. 1 \in 0 .. Len(Script)
    BY ScriptFacts
  <1>6. \A w \in Workers : SentBy(w)'
    BY <1>2, <1>3 DEF SeedInv, SentBy
  <1>7. runs' \in 0 .. MaxRuns /\ runs' # 0
    BY <1>3
  <1>8. ITypeOK'
    BY <1>1, <1>2, <1>4, <1>5, <1>7 DEF SeedInv, ITypeOK, TypeInv
  <1>9. QED
    BY <1>1, <1>4, <1>6, <1>7, <1>8 DEF SeedInv

LEMMA FlushTypes == ASSUME SeedInv, Flush PROVE SeedInv'
  <1>1. UNCHANGED <<req, inserts, mapped, posted, acked, place, server, runs, faults, clean, sender>>
    BY DEF Flush, history
  <1>2. /\ idGen' = [t \in Tables |-> 0] /\ rows' = {}
        /\ scoreMap' = EmptyHash /\ scores' = EmptyHash
        /\ place = 0 /\ result' = "none" /\ trusted' \in BOOLEAN /\ seeding' = {}
    BY DEF Flush, AllIdle
  <1>3. TypeOK'
    BY <1>1, <1>2 DEF SeedInv, TypeInv, TypeOK, EmptyHash
  <1>4. TypeInv'
    BY <1>1, <1>3 DEF SeedInv, TypeInv, Control
  <1>5. QED
    BY <1>1, <1>2, <1>3, <1>4 DEF SeedInv, ITypeOK, SentBy

LEMMA ExecTypes == ASSUME SeedInv, NEW w \in Workers, Exec(w) PROVE SeedInv'
  <1>1. TypeInv' /\ \A v \in Workers \ {w} : req'[v] = req[v]
    BY NextTypeInv, OthersWait DEF SeedInv, Exec, Next
  <1>2. /\ req'[w].pc # "idle" /\ req'[w].call = Script[place]
        /\ server' = w /\ place # 0 /\ runs # 0
        /\ UNCHANGED <<place, result, runs, faults, clean, trusted, seeding>>
    BY SubmitStarts DEF SeedInv, Exec
  <1>3. runs \in 1 .. MaxRuns /\ runs \in 1 .. runs
    BY <1>2 DEF SeedInv, ITypeOK
  <1>4. /\ sender' \in [Workers -> 0 .. MaxRuns] /\ sender'[w] = runs
        /\ \A v \in Workers \ {w} : sender'[v] = sender[v]
    BY <1>3 DEF SeedInv, ITypeOK, Exec
  <1>5. \A v \in Workers : SentBy(v)'
    BY <1>1, <1>2, <1>3, <1>4 DEF SeedInv, SentBy
  <1>6. ITypeOK'
    BY <1>1, <1>2, <1>4 DEF SeedInv, ITypeOK, TypeInv
  <1>7. QED
    BY <1>1, <1>2, <1>4, <1>5, <1>6 DEF SeedInv

\* A step of a worker, or its end, with what the client makes of it.
LEMMA WorkerTypes ==
    ASSUME SeedInv, NEW w \in Workers, Step(w) \/ Abort(w),
           \/ w = server /\ \E success \in BOOLEAN : Checked(success)
           \/ (w # server \/ req'[w].pc # "idle") /\ UNCHANGED client,
           UNCHANGED <<clean, sender>>, faults' \in 0 .. MaxFaults, trusted' \in BOOLEAN,
           seeding' \subseteq seeding \cup {sender[w]}
    PROVE  SeedInv'
  <1>1. TypeInv' /\ \A v \in Workers \ {w} : req'[v] = req[v]
    BY NextTypeInv, OthersWait DEF SeedInv, Next
  <1>2. req[w].pc # "idle"
    BY DEF Step, Abort, GetPlayer, GetGame, GenerateId, SaveName, SaveCity, SaveScoreMap,
           GetScoreMap, SaveScore, GetScore, TopMap, TopScores, TopPlayer, Respond
  <1>3. runs' = runs
    BY DEF Checked, client
  <1>4. \A v \in Workers : SentBy(v)'
    BY <1>1, <1>2, <1>3 DEF SeedInv, SentBy
  <1>5. seeding' \subseteq 1 .. MaxRuns
    <2>1. sender[w] \in 1 .. runs /\ runs \in 0 .. MaxRuns
      BY <1>2 DEF SeedInv, SentBy, ITypeOK
    <2>2. QED
      BY <2>1 DEF SeedInv, ITypeOK
  <1>6. CASE w = server /\ \E success \in BOOLEAN : Checked(success)
    <2>1. PICK success \in BOOLEAN : Checked(success)
      BY <1>6
    <2>2. place # 0 /\ runs # 0
      BY <1>6, SeedAssumption DEF SeedInv
    <2>3. QED
      BY <1>1, <1>4, <1>5, <2>1, <2>2, CheckedTypes DEF SeedInv, ITypeOK, TypeInv
  <1>7. CASE (w # server \/ req'[w].pc # "idle") /\ UNCHANGED client
    <2>1. UNCHANGED <<place, server, result, runs>>
      BY <1>7 DEF client
    <2>2. server # Nobody => req'[server].pc # "idle" /\ req'[server].call = Script[place]
      <3>1. CASE server = w
        <4>1. Step(w)
          BY <1>7, <3>1, Moved, IdlePc DEF SeedInv
        <4>2. QED
          BY <1>7, <3>1, <4>1, StepCall DEF SeedInv, ITypeOK
      <3>2. CASE server # w
        BY <1>1, <3>2 DEF SeedInv, ITypeOK
      <3>3. QED
        BY <3>1, <3>2
    <2>3. QED
      BY <1>1, <1>4, <1>5, <2>1, <2>2 DEF SeedInv, ITypeOK, TypeInv
  <1>8. QED
    BY <1>6, <1>7

LEMMA ServeTypes == ASSUME SeedInv, NEW w \in Workers, Serve(w) PROVE SeedInv'
  <1>1. seeding' \subseteq seeding \cup {sender[w]}
    BY DEF Serve
  <1>2. /\ Step(w) /\ UNCHANGED <<faults, clean, trusted, sender>>
        /\ \/ w = server /\ \E success \in BOOLEAN : Checked(success)
           \/ (w # server \/ req'[w].pc # "idle") /\ UNCHANGED client
    BY DEF Serve
  <1>3. faults' \in 0 .. MaxFaults /\ trusted' \in BOOLEAN
    BY <1>2 DEF SeedInv, ITypeOK
  <1>4. QED
    BY <1>1, <1>2, <1>3, WorkerTypes

LEMMA FaultCounts ==
    ASSUME SeedInv, faults < MaxFaults, faults' = faults + 1 PROVE faults' \in 0 .. MaxFaults
  BY SeedAssumption DEF SeedInv, ITypeOK

LEMMA CutTypes == ASSUME SeedInv, NEW w \in Workers, Cut(w) PROVE SeedInv'
  <1>1. /\ Abort(w) /\ UNCHANGED <<clean, sender, seeding>> /\ trusted' \in BOOLEAN
        /\ \/ w = server /\ \E success \in BOOLEAN : Checked(success)
           \/ w # server /\ UNCHANGED client
    BY DEF Cut, SeedInv, ITypeOK
  <1>2. faults' \in 0 .. MaxFaults
    BY FaultCounts DEF Cut
  <1>3. QED
    BY <1>1, <1>2, WorkerTypes

LEMMA LoseTypes == ASSUME SeedInv, Lose PROVE SeedInv'
  <1>1. /\ Checked(FALSE) /\ server # Nobody
        /\ UNCHANGED <<vars, clean, trusted, sender, seeding>>
    BY DEF Lose
  <1>2. TypeInv' /\ UNCHANGED req
    BY <1>1, NextTypeInv DEF SeedInv, vars
  <1>3. faults' \in 0 .. MaxFaults
    BY FaultCounts DEF Lose
  <1>4. QED
    BY <1>1, <1>2, <1>3, CheckedTypes DEF SeedInv, ITypeOK, TypeInv, SentBy

LEMMA NextSeed == SeedInv /\ [INext]_ivars => SeedInv'
  <1> SUFFICES ASSUME SeedInv, [INext]_ivars PROVE SeedInv'
    OBVIOUS
  <1>1. CASE UNCHANGED ivars
    <2>1. TypeInv'
      BY <1>1, NextTypeInv DEF ivars, SeedInv
    <2>2. UNCHANGED <<req, place, server, result, runs, faults, clean, trusted, sender, seeding>>
      BY <1>1 DEF ivars, vars, client, notes
    <2>3. QED
      BY <2>1, <2>2 DEF SeedInv, ITypeOK, TypeInv, SentBy
  <1>2. QED
    BY <1>1, StartTypes, FlushTypes, LoseTypes, ExecTypes, ServeTypes, CutTypes DEF INext

LEMMA InitSeed == IInit => SeedInv
  <1> SUFFICES ASSUME IInit PROVE SeedInv
    OBVIOUS
  <1>1. TypeInv
    BY InitTypeInv DEF IInit
  <1>2. 0 \in 0 .. Len(Script) /\ 0 \in 0 .. MaxRuns /\ 0 \in 0 .. MaxFaults
    BY ScriptFacts, SeedAssumption
  <1>3. \A w \in Workers : req[w].pc = "idle"
    BY DEF IInit, Init, Idle
  <1>4. sender \in [Workers -> 0 .. MaxRuns]
    BY <1>2 DEF IInit
  <1>5. QED
    BY <1>1, <1>2, <1>3, <1>4 DEF IInit, SeedInv, ITypeOK, TypeInv, SentBy

\* The client is at a call of its lists and waits for that call only.
THEOREM SeedTypes == ISpec => []ITypeOK
  <1>1. SeedInv => ITypeOK
    BY DEF SeedInv
  <1>2. QED
    BY <1>1, InitSeed, NextSeed, PTL DEF ISpec

----------------------------------------------------------------------------
(***************************************************************************)
(* Runs that post scores.  A run has won when its first score map was      *)
(* inserted: it is past that call, or the answer is about to be sent.  The *)
(* posters are the runs that have posted, those with a request that will,  *)
(* and the present one if it has won.  There is at most one, since the     *)
(* pair it has won stays in the score map until the next flush and every   *)
(* later insert of it is refused.                                          *)
(***************************************************************************)
Won ==
    \/ place > First
    \/ place = First /\ server # Nobody /\ req[server].pc = "respond"

Posting(w) == req[w].pc # "idle" /\ Op(w) = "scoreInsert"

Posters ==
    seeding \cup {sender[w] : w \in {v \in Workers : Posting(v)}} \cup {r \in {runs} : Won}

OnceInv ==
    trusted =>
        /\ \A a, b \in Posters : a = b
        /\ Posters # {} => FirstPair \in DOMAIN scoreMap

LEMMA PostersAre ==
    ASSUME NEW r
    PROVE  r \in Posters <=>
               \/ r \in seeding
               \/ \E w \in Workers : Posting(w) /\ r = sender[w]
               \/ r = runs /\ Won
  BY DEF Posters

LEMMA PostersNext ==
    ASSUME NEW r
    PROVE  r \in Posters' <=>
               \/ r \in seeding'
               \/ \E w \in Workers : Posting(w)' /\ r = sender'[w]
               \/ r = runs' /\ Won'
  BY DEF Posters

LEMMA FewerPosters ==
    ASSUME OnceInv, trusted' => trusted, Posters' \subseteq Posters,
           DOMAIN scoreMap \subseteq DOMAIN scoreMap'
    PROVE  OnceInv'
  BY DEF OnceInv

\* No command takes a pair out of the score map.
LEMMA PairsStay ==
    ASSUME NEW w \in Workers, Submit(w) \/ Step(w) \/ Abort(w)
    PROVE  DOMAIN scoreMap \subseteq DOMAIN scoreMap'
  <1>1. CASE SaveScoreMap(w)
    BY <1>1 DEF SaveScoreMap, HSet
  <1>2. CASE SaveScore(w)
    BY <1>2 DEF SaveScore
  <1>3. CASE ~SaveScoreMap(w) /\ ~SaveScore(w)
    BY <1>3, OtherStepsWriteNoScore
  <1>4. QED
    BY <1>1, <1>2, <1>3

\* Only an insert into a free field of the score map is answered.
LEMMA FreshMap ==
    ASSUME TypeInv, NEW w \in Workers, Step(w), Op(w) = "scoreMapInsert",
           req'[w].pc = "respond"
    PROVE  SaveScoreMap(w) /\ Pair(w) \notin DOMAIN scoreMap
  <1>1. req[w] \in Request /\ Op(w) \in OpsAt[req[w].pc]
    BY RequestFacts
  <1>2. ASSUME NEW p, req'[w] \in {Idle, Goto(w, p)}, p # "respond" PROVE FALSE
    BY <1>1, <1>2, IdlePc DEF Goto, Request
  <1>3. CASE GetPlayer(w)
    <2>1. AfterPlayer[Op(w)] # "respond"
      BY DEF AfterPlayer
    <2>2. QED
      BY <1>2, <1>3, <2>1, Moved
  <1>4. CASE GetGame(w)
    <2>1. AfterGame[Op(w)] # "respond"
      BY DEF AfterGame
    <2>2. QED
      BY <1>2, <1>4, <2>1, Moved
  <1>5. CASE GenerateId(w)
    <2>1. AfterId[Op(w)] # "respond"
      BY DEF AfterId
    <2>2. QED
      BY <1>1, <1>5, <2>1, MovedOn DEF Request
  <1>6. CASE Respond(w)
    BY <1>6, Moved, IdlePc
  <1>7. CASE \/ SaveName(w) \/ SaveCity(w) \/ GetScoreMap(w) \/ SaveScore(w) \/ GetScore(w)
             \/ TopMap(w) \/ TopScores(w) \/ TopPlayer(w)
    <2>1. req[w].pc \in {"saveName", "saveCity", "getScoreMap", "saveScore", "getScore",
                         "topMap", "topScores", "topPlayer"}
      BY <1>7 DEF SaveName, SaveCity, GetScoreMap, SaveScore, GetScore, TopMap, TopScores,
         TopPlayer
    <2>2. QED
      BY <1>1, <2>1 DEF OpsAt
  <1>8. CASE SaveScoreMap(w)
    <2>1. ASSUME Pair(w) \in DOMAIN scoreMap PROVE FALSE
      <3>1. req'[w] = Idle
        BY <1>8, <2>1 DEF SaveScoreMap, CheckInserted, Proceed, HSetReply, TypeInv, TypeOK
      <3>2. QED
        BY <3>1, IdlePc
    <2>2. QED
      BY <1>8, <2>1
  <1>9. QED
    BY <1>3, <1>4, <1>5, <1>6, <1>7, <1>8 DEF Step

LEMMA StartOnce == ASSUME SeedInv, OnceInv, Start PROVE OnceInv'
  <1>1. /\ UNCHANGED <<req, scoreMap, trusted, sender, seeding>>
        /\ place' = 1 /\ server' = Nobody
    BY DEF Start, vars, redis
  <1>2. First \in Nat /\ First > 1 /\ ~(1 > First) /\ 1 # First
    BY SeedAssumption DEF First
  <1>3. ~Won'
    BY <1>1, <1>2 DEF Won
  <1>4. \A w \in Workers : Posting(w)' <=> Posting(w)
    BY <1>1 DEF Posting, Op
  <1>5. \A r : r \in Posters' => r \in Posters
    BY <1>1, <1>3, <1>4, PostersAre, PostersNext
  <1>6. QED
    BY <1>1, <1>5, FewerPosters

\* With nobody at work a flush leaves no poster.
LEMMA FlushOnce == ASSUME SeedInv, OnceInv, Flush PROVE OnceInv'
  <1> SUFFICES ASSUME trusted' PROVE Posters' = {}
    BY DEF OnceInv
  <1>1. /\ seeding' = {} /\ place' = 0 /\ req' = req /\ \A w \in Workers : req[w].pc = "idle"
    BY DEF Flush, AllIdle
  <1>2. First \in Nat /\ ~(0 > First) /\ 0 # First
    BY SeedAssumption DEF First
  <1>3. ~Won' /\ \A w \in Workers : ~Posting(w)'
    BY <1>1, <1>2 DEF Won, Posting
  <1>4. \A r : r \notin Posters'
    BY <1>1, <1>3, PostersNext
  <1>5. QED
    BY <1>4

LEMMA ExecOnce == ASSUME SeedInv, OnceInv, NEW w \in Workers, Exec(w) PROVE OnceInv'
  <1>1. /\ Submit(w) /\ req'[w].call = Script[place] /\ place # 0 /\ server = Nobody
        /\ server' = w /\ UNCHANGED <<place, runs, trusted, seeding>>
    BY DEF Exec
  <1>2. /\ \A v \in Workers \ {w} : req'[v] = req[v]
        /\ sender'[w] = runs /\ \A v \in Workers \ {w} : sender'[v] = sender[v]
    BY <1>1, OthersWait DEF SeedInv, ITypeOK, Exec
  <1>3. place \in 1 .. Len(Script)
    BY <1>1, ScriptFacts DEF SeedInv, ITypeOK
  <1>4. Posting(w)' => Won
    BY <1>1, <1>3, ScriptFacts DEF Posting, Op, Won
  <1>5. req'[w].pc # "respond"
    <2>1. PICK c \in Calls : c.op \in AllOps /\ req'[w].pc = FirstStep[c.op]
      BY <1>1, Begun DEF SeedInv
    <2>2. FirstStep[c.op] # "respond"
      BY <2>1 DEF FirstStep, AllOps, Inserts, Reads
    <2>3. QED
      BY <2>1, <2>2
  <1>6. Won' => Won
    BY <1>1, <1>5 DEF Won
  <1>7. \A v \in Workers \ {w} : Posting(v)' <=> Posting(v)
    BY <1>2 DEF Posting, Op
  <1>8. \A r : r \in Posters' => r \in Posters
    BY <1>1, <1>2, <1>4, <1>6, <1>7, PostersAre, PostersNext
  <1>9. QED
    BY <1>1, <1>8, PairsStay, FewerPosters

\* Requests do not become posting, and the client does not win by going on.
LEMMA StepPosting ==
    ASSUME SeedInv, NEW w \in Workers, Step(w) \/ Abort(w)
    PROVE  \A v \in Workers : Posting(v)' => Posting(v)
  <1>1. \A v \in Workers \ {w} : req'[v] = req[v]
    BY OthersWait DEF SeedInv
  <1>2. req'[w].pc = "idle" \/ req'[w].call = req[w].call
    BY StepCall, Moved, IdlePc DEF SeedInv
  <1>3. req[w].pc # "idle"
    BY DEF Step, Abort, GetPlayer, GetGame, GenerateId, SaveName, SaveCity, SaveScoreMap,
           GetScoreMap, SaveScore, GetScore, TopMap, TopScores, TopPlayer, Respond
  <1>4. QED
    BY <1>1, <1>2, <1>3 DEF Posting, Op

LEMMA CheckedWon ==
    ASSUME SeedInv, NEW success \in BOOLEAN, Checked(success), server # Nobody,
           success => req[server].pc = "respond"
    PROVE  Won' => Won
  <1>1. /\ server' = Nobody /\ place \in 0 .. Len(Script) /\ First \in 1 .. Len(Script)
        /\ place' = 0 \/ (success /\ place' = place + 1)
    BY CheckedTypes, ScriptFacts DEF SeedInv, ITypeOK, Checked
  <1>2. First \in Nat \ {0} /\ place \in Nat
    BY <1>1
  <1>3. QED
    BY <1>1, <1>2 DEF Won

LEMMA ServeOnce == ASSUME SeedInv, OnceInv, NEW w \in Workers, Serve(w) PROVE OnceInv'
  <1>1. Step(w) /\ UNCHANGED <<trusted, sender>>
    BY DEF Serve
  <1>2. runs' = runs
    BY DEF Serve, Checked, client
  <1>3. \A v \in Workers \ {w} : req'[v] = req[v]
    BY <1>1, OthersWait DEF SeedInv
  <1>4. \A r \in seeding' : r \in Posters
    <2>1. req[w].pc = "saveScore" => Posting(w)
      BY RequestFacts DEF SeedInv, Posting, OpsAt
    <2>2. \A r \in seeding' : r \in seeding \/ (Posting(w) /\ r = sender[w])
      BY <2>1 DEF Serve
    <2>3. QED
      BY <2>2, PostersAre
  <1>5. ASSUME Won' => Won PROVE OnceInv'
    <2>1. \A r : r \in Posters' => r \in Posters
      BY <1>1, <1>2, <1>4, <1>5, StepPosting, PostersAre, PostersNext
    <2>2. QED
      BY <1>1, <2>1, PairsStay, FewerPosters
  <1>6. CASE w = server /\ req'[w].pc = "idle"
    <2>1. Checked(req[w].pc = "respond") /\ server # Nobody
      BY <1>6, SeedAssumption DEF Serve
    <2> DEFINE success == req[w].pc = "respond"
    <2>2. success \in BOOLEAN /\ Checked(success) /\ (success => req[server].pc = "respond")
      BY <1>6, <2>1
    <2> HIDE DEF success
    <2>3. Won' => Won
      BY <2>1, <2>2, CheckedWon
    <2>4. QED
      BY <1>5, <2>3
  <1>7. CASE ~(w = server /\ req'[w].pc = "idle")
    <2>1. UNCHANGED <<place, server>>
      BY <1>7 DEF Serve, client
    <2>2. CASE server = w /\ place = First /\ req'[w].pc = "respond"
      <3>1. req[w].call = Script[First]
        BY <2>2, SeedAssumption DEF SeedInv, ITypeOK
      <3>2. Op(w) = "scoreMapInsert" /\ Pair(w) = FirstPair
        BY <3>1, ScriptFacts DEF Op, Pair
      <3>3. SaveScoreMap(w) /\ FirstPair \notin DOMAIN scoreMap
        BY <1>1, <2>2, <3>2, FreshMap DEF SeedInv
      <3>4. FirstPair \in DOMAIN scoreMap'
        BY <3>2, <3>3 DEF SaveScoreMap, HSet
      <3>5. ASSUME trusted PROVE \A r : r \in Posters' => r = runs
        <4>1. \A r : r \notin Posters
          BY <3>3, <3>5 DEF OnceInv
        <4>2. QED
          BY <1>1, <1>2, <1>4, <4>1, StepPosting, PostersAre, PostersNext
      <3>6. QED
        BY <1>1, <3>4, <3>5 DEF OnceInv
    <2>3. CASE ~(server = w /\ place = First /\ req'[w].pc = "respond")
      <3>1. Won' => Won
        <4>1. server # Nobody /\ server # w => req'[server] = req[server]
          BY <1>3 DEF SeedInv, ITypeOK
        <4>2. QED
          BY <2>1, <2>3, <4>1 DEF Won
      <3>2. QED
        BY <1>5, <3>1
    <2>4. QED
      BY <2>2, <2>3
  <1>8. QED
    BY <1>6, <1>7

LEMMA CutOnce == ASSUME SeedInv, OnceInv, NEW w \in Workers, Cut(w) PROVE OnceInv'
  <1> SUFFICES ASSUME trusted' PROVE OnceInv'
    BY DEF OnceInv
  <1>1. Abort(w) /\ UNCHANGED <<sender, seeding, trusted>>
        /\ \/ w # server /\ UNCHANGED client
           \/ w = server /\ Checked(FALSE)
    BY DEF Cut
  <1>2. runs' = runs
    BY <1>1 DEF Checked, client
  <1>3. Won' => Won
    <2>1. CASE w # server /\ UNCHANGED client
      <3>1. UNCHANGED <<place, server>>
        BY <2>1 DEF client
      <3>2. server # Nobody => req'[server] = req[server]
        BY <1>1, <2>1, OthersWait DEF SeedInv, ITypeOK
      <3>3. QED
        BY <3>1, <3>2 DEF Won
    <2>2. CASE w = server /\ Checked(FALSE)
      BY <2>2, CheckedWon, SeedAssumption
    <2>3. QED
      BY <1>1, <2>1, <2>2
  <1>4. \A r : r \in Posters' => r \in Posters
    BY <1>1, <1>2, <1>3, StepPosting, PostersAre, PostersNext
  <1>5. QED
    BY <1>1, <1>4, PairsStay, FewerPosters

LEMMA LoseOnce == ASSUME SeedInv, OnceInv, Lose PROVE OnceInv'
  <1>1. /\ UNCHANGED <<req, scoreMap, trusted, sender, seeding>> /\ runs' = runs
        /\ Checked(FALSE) /\ server # Nobody
    BY DEF Lose, vars, redis, Checked
  <1>2. Won' => Won
    BY <1>1, CheckedWon
  <1>3. \A v \in Workers : Posting(v)' <=> Posting(v)
    BY <1>1 DEF Posting, Op
  <1>4. \A r : r \in Posters' => r \in Posters
    BY <1>1, <1>2, <1>3, PostersAre, PostersNext
  <1>5. QED
    BY <1>1, <1>4, FewerPosters

LEMMA NextOnce == SeedInv /\ OnceInv /\ [INext]_ivars => OnceInv'
  <1> SUFFICES ASSUME SeedInv, OnceInv, [INext]_ivars PROVE OnceInv'
    OBVIOUS
  <1>1. CASE UNCHANGED ivars
    <2>1. UNCHANGED <<req, scoreMap, place, server, runs, trusted, sender, seeding>>
      BY <1>1 DEF ivars, vars, redis, client, notes
    <2>2. QED
      BY <2>1 DEF OnceInv, Posters, Posting, Op, Won
  <1>2. QED
    BY <1>1, StartOnce, FlushOnce, LoseOnce, ExecOnce, ServeOnce, CutOnce DEF INext

LEMMA InitOnce == IInit => OnceInv
  <1> SUFFICES ASSUME IInit PROVE OnceInv
    OBVIOUS
  <1>1. seeding = {} /\ place = 0 /\ \A w \in Workers : req[w].pc = "idle"
    BY DEF IInit, Init, Idle
  <1>2. First \in Nat /\ ~(0 > First) /\ 0 # First
    BY SeedAssumption DEF First
  <1>3. ~Won /\ \A w \in Workers : ~Posting(w)
    BY <1>1, <1>2 DEF Won, Posting
  <1>4. \A r : r \notin Posters
    BY <1>1, <1>3, PostersAre
  <1>5. QED
    BY <1>4 DEF OnceInv

\* Whatever was started again, cut off or lost, scores are posted by one run
\* at most between two flushes: the first score map in place stops the rest.
THEOREM SeededOnce == ISpec => []ScoresSeededOnce
  <1>1. OnceInv => ScoresSeededOnce
    <2> SUFFICES ASSUME OnceInv, trusted PROVE Cardinality(seeding) <= 1
      BY DEF ScoresSeededOnce
    <2>1. \A a, b \in seeding : a = b
      BY PostersAre DEF OnceInv
    <2>2. seeding = {} \/ \E a : seeding = {a}
      BY <2>1
    <2>3. Cardinality({}) = 0 /\ \A a : Cardinality({a}) = 1
      BY FS_EmptySet, FS_Singleton
    <2>4. Cardinality(seeding) \in {0, 1}
      BY <2>2, <2>3
    <2>5. QED
      BY <2>4
  <1>2. QED
    BY <1>1, InitSeed, NextSeed, InitOnce, NextOnce, PTL DEF ISpec

----------------------------------------------------------------------------
(***************************************************************************)
(* What a good run has left in the database so far.  A run is good while   *)
(* the premises of FinishedIsSeeded hold and no call of it has failed; a   *)
(* call that fails ends the run.  During a good run no request but its own *)
(* is at work, so that the database is what the calls before the present   *)
(* one have made of an empty one, and what the present one has done.       *)
(***************************************************************************)
GoodRun == clean /\ trusted /\ (place # 0 \/ result = "done")

At(pcs) == server # Nobody /\ req[server].pc \in pcs

\* Calls that have an id, and calls that have written all they write.
Numbered(p) ==
    \/ place = 0 \/ p < place
    \/ p = place /\ At({"saveName", "saveCity", "saveScoreMap", "respond"})

Written(p) == place = 0 \/ p < place \/ (p = place /\ At({"respond"}))

\* The n objects of table t whose calls come after the first a.
Saved(t, a, n, columns) ==
    /\ idGen[t] \in 0 .. n
    /\ \A i \in 1 .. n :
        /\ Numbered(a + i) <=> i <= idGen[t]
        /\ Written(a + i) => \A c \in columns : <<t, i, c>> \in rows
        /\ a + i = place /\ At({"saveCity"}) => <<t, i, "name">> \in rows

GamesSaved == Saved("games", 0, Games, {"name"})
PlayersSaved == Saved("players", Games, Players, Columns)

\* The score maps, each with an id of its own.
MapsSaved ==
    /\ DOMAIN scoreMap =
          {ScoreMaps[i] : i \in {j \in 1 .. Len(ScoreMaps) : Written(Games + Players + j)}}
    /\ \A k \in DOMAIN scoreMap : scoreMap[k] <= idGen["scoreMap"]
    /\ \A k, l \in DOMAIN scoreMap : scoreMap[k] = scoreMap[l] => k = l

\* The entries of a pair with a value, and the calls that have posted it.
Entries(k, v) == {e \in Reachable : e.pair = k /\ e.score = v}
Posts(k, v) == {i \in 1 .. Len(ScoreList) : Written(Before + i) /\ ScoreList[i] = <<k, v>>}

ScoresSaved ==
    /\ place # 0 /\ place <= Before => scores = EmptyHash
    /\ \A k \in Pairs, v \in Points :
        /\ IsFiniteSet(Entries(k, v))
        /\ Cardinality(Entries(k, v)) = Cardinality(Posts(k, v))

\* The id the request has in hand.
InHand ==
    /\ At({"saveName", "saveCity"}) => req[server].id = idGen[TableOf[Op(server)]]
    /\ At({"saveScoreMap"}) =>
          /\ req[server].id = idGen["scoreMap"]
          /\ \A k \in DOMAIN scoreMap : scoreMap[k] < idGen["scoreMap"]
    /\ At({"saveScore"}) =>
          Pair(server) \in DOMAIN scoreMap /\ req[server].id = scoreMap[Pair(server)]

Alone == \A w \in Workers : w # server => req[w].pc = "idle"

Content == Alone /\ InHand /\ GamesSaved /\ PlayersSaved /\ MapsSaved /\ ScoresSaved

ContentInv == GoodRun => Content

(***************************************************************************)
(* Parts of the content that a step leaves alone.                          *)
(***************************************************************************)
SameWritten(a, n) == \A i \in 1 .. n : Written(a + i)' <=> Written(a + i)

SameOn(a, n) == SameWritten(a, n) /\ \A i \in 1 .. n : Numbered(a + i)' <=> Numbered(a + i)

LEMMA SavedStays ==
    ASSUME NEW t \in Tables, NEW a \in Nat, NEW n \in Nat, NEW columns,
           Saved(t, a, n, columns), SameOn(a, n), idGen'[t] = idGen[t], rows \subseteq rows',
           \A i \in 1 .. n : a + i = place' /\ At({"saveCity"})' =>
                                  (a + i = place /\ At({"saveCity"}))
    PROVE  Saved(t, a, n, columns)'
  <1>1. idGen'[t] \in 0 .. n
    BY DEF Saved
  <1>2. ASSUME NEW i \in 1 .. n
        PROVE  /\ Numbered(a + i)' <=> i <= idGen'[t]
               /\ Written(a + i)' => \A c \in columns : <<t, i, c>> \in rows'
    BY DEF Saved, SameOn, SameWritten
  <1>3. QED
    BY <1>1, <1>2 DEF Saved

LEMMA MapsStay ==
    ASSUME MapsSaved, SameWritten(Games + Players, Len(ScoreMaps)), scoreMap' = scoreMap,
           TypeOK, idGen'["scoreMap"] \in Nat, idGen["scoreMap"] <= idGen'["scoreMap"]
    PROVE  MapsSaved'
  <1>1. \A i \in 1 .. Len(ScoreMaps) :
            Written(Games + Players + i)' <=> Written(Games + Players + i)
    BY DEF SameWritten
  <1>2. {ScoreMaps[i] : i \in {j \in 1 .. Len(ScoreMaps) : Written(Games + Players + j)}}'
            = {ScoreMaps[i] : i \in {j \in 1 .. Len(ScoreMaps) : Written(Games + Players + j)}}
    BY <1>1
  <1>3. \A k \in DOMAIN scoreMap : scoreMap[k] \in Nat
    BY DEF TypeOK, ScoreIds
  <1>4. idGen["scoreMap"] \in Nat
    BY DEF TypeOK, Tables
  <1>5. \A k \in DOMAIN scoreMap' : scoreMap'[k] <= idGen'["scoreMap"]
    BY <1>3, <1>4 DEF MapsSaved
  <1>6. QED
    BY <1>2, <1>5 DEF MapsSaved

LEMMA ScoresStay ==
    ASSUME ScoresSaved, SameWritten(Before, Len(ScoreList)), scoreMap' = scoreMap, scores' = scores,
           place' # 0 /\ place' <= Before => (place # 0 /\ place <= Before)
    PROVE  ScoresSaved'
  <1>1. \A i \in 1 .. Len(ScoreList) : Written(Before + i)' <=> Written(Before + i)
    BY DEF SameWritten
  <1>2. ASSUME NEW k, NEW v PROVE Posts(k, v)' = Posts(k, v)
    BY <1>1 DEF Posts
  <1>3. Reachable' = Reachable
    BY DEF Reachable, ScoresOf
  <1>4. ASSUME NEW k, NEW v PROVE Entries(k, v)' = Entries(k, v)
    BY <1>3 DEF Entries
  <1>5. QED
    BY <1>2, <1>4 DEF ScoresSaved

\* As long as the client is at its call, other calls stay as they are.
LEMMA OthersSame ==
    ASSUME place' = place, place # 0, NEW p, p # place
    PROVE  /\ Written(p)' <=> Written(p)
           /\ Numbered(p)' <=> Numbered(p)
  BY DEF Written, Numbered

LEMMA SameBeside ==
    ASSUME place' = place, place \in Nat \ {0}, NEW a \in Nat, NEW n \in Nat,
           place - a \notin 1 .. n
    PROVE  SameOn(a, n)
  <1>1. ASSUME NEW i \in 1 .. n PROVE a + i # place
    BY <1>1
  <1>2. QED
    BY <1>1, OthersSame DEF SameOn, SameWritten

----------------------------------------------------------------------------
(***************************************************************************)
(* The steps of the request the client waits for.                          *)
(***************************************************************************)
Serving(w) ==
    /\ SeedInv /\ TypeInv' /\ Content
    /\ w \in Workers /\ w = server /\ server # Nobody
    /\ server' = server /\ place' = place
    /\ place \in 1 .. Len(Script) /\ req[w].call = Script[place]
    /\ req'[w].pc # "idle"
    /\ \A v \in Workers \ {w} : req'[v] = req[v]

LEMMA ServingFacts ==
    ASSUME NEW w, Serving(w)
    PROVE  /\ \A pcs : (At(pcs) <=> req[w].pc \in pcs) /\ (At(pcs)' <=> req'[w].pc \in pcs)
           /\ place \in Nat \ {0}
           /\ Op(w) = Script[place].op /\ Op(w) \in Inserts
           /\ req[w] \in Request /\ req'[w] \in Request
           /\ Op(w) \in OpsAt[req[w].pc]
           /\ Alone'
  <1>1. req[w] \in Request /\ Op(w) \in OpsAt[req[w].pc]
    BY RequestFacts DEF Serving, SeedInv
  <1>2. req'[w] \in Request
    BY DEF Serving, TypeInv, TypeOK
  <1>3. place \in Nat \ {0}
    BY DEF Serving
  <1>4. Op(w) = Script[place].op /\ Op(w) \in Inserts
    BY ScriptPlaces DEF Serving, Op
  <1>5. Alone'
    BY DEF Serving, Content, Alone
  <1>6. QED
    BY <1>1, <1>2, <1>3, <1>4, <1>5 DEF Serving, At

\* A step that writes nothing and gets no id.
LEMMA QuietContent ==
    ASSUME NEW w, Serving(w), UNCHANGED redis,
           {req[w].pc, req'[w].pc} \subseteq
               {"getPlayer", "getGame", "getScoreMap", "generateId", "saveScore"},
           req'[w].pc = "saveScore" =>
               (Pair(w)' \in DOMAIN scoreMap /\ req'[w].id = scoreMap[Pair(w)'])
    PROVE  Content'
  <1>1. \A p : (Written(p)' <=> Written(p)) /\ (Numbered(p)' <=> Numbered(p))
    BY ServingFacts DEF Serving, Written, Numbered
  <1>2. \A a, n : SameOn(a, n) /\ SameWritten(a, n)
    BY <1>1 DEF SameOn, SameWritten
  <1>3. ~At({"saveCity"})' /\ ~At({"saveName", "saveCity"})' /\ ~At({"saveScoreMap"})'
    BY ServingFacts
  <1>4. UNCHANGED <<idGen, rows, scoreMap, scores>>
    BY DEF redis
  <1>5. GamesSaved' /\ PlayersSaved'
    BY <1>2, <1>3, <1>4, SavedStays, ListLengths
       DEF Serving, Content, GamesSaved, PlayersSaved, Tables
  <1>6. MapsSaved'
    <2>1. TypeOK /\ idGen["scoreMap"] \in Nat
      BY DEF Serving, SeedInv, TypeInv, TypeOK, Tables
    <2>2. QED
      BY <1>2, <1>4, <2>1, MapsStay DEF Serving, Content
  <1>7. ScoresSaved'
    BY <1>2, <1>4, ScoresStay DEF Serving, Content
  <1>8. InHand'
    BY <1>3, <1>4, ServingFacts DEF Serving, InHand, Pair
  <1>9. QED
    BY <1>5, <1>6, <1>7, <1>8, ServingFacts DEF Content

LEMMA LoadContent ==
    ASSUME NEW w, Serving(w), GetPlayer(w) \/ GetGame(w) \/ GetScoreMap(w)
    PROVE  Content'
  <1>1. UNCHANGED redis /\ TypeInv /\ w \in Workers
    BY DEF GetPlayer, GetGame, GetScoreMap, Serving, SeedInv
  <1>2. req[w] \in Request /\ Op(w) \in Inserts /\ Op(w) \in OpsAt[req[w].pc]
        /\ req'[w].pc # "idle" /\ Idle.pc = "idle"
    BY ServingFacts, IdlePc DEF Serving
  <1>3. CASE GetPlayer(w)
    <2>1. req[w].pc = "getPlayer" /\ Op(w) \in {"scoreMapInsert", "scoreInsert"}
      BY <1>2, <1>3 DEF GetPlayer, OpsAt, Inserts
    <2>2. req'[w] = Goto(w, "getGame")
      BY <1>1, <1>2, <1>3, <2>1, Moved DEF AfterPlayer
    <2>3. req'[w].pc = "getGame"
      BY <1>2, <2>2 DEF Goto, Request
    <2>4. QED
      BY <1>1, <2>1, <2>3, QuietContent
  <1>4. CASE GetGame(w)
    <2>1. req[w].pc = "getGame" /\ Op(w) \in {"scoreMapInsert", "scoreInsert"}
      BY <1>2, <1>4 DEF GetGame, OpsAt, Inserts
    <2>2. req'[w] \in {Goto(w, "generateId"), Goto(w, "getScoreMap")}
      BY <1>1, <1>2, <1>4, <2>1, Moved DEF AfterGame
    <2>3. req'[w].pc \in {"generateId", "getScoreMap"}
      BY <1>2, <2>2 DEF Goto, Request
    <2>4. QED
      BY <1>1, <2>1, <2>3, QuietContent
  <1>5. CASE GetScoreMap(w)
    <2>1. req[w].pc = "getScoreMap" /\ Op(w) = "scoreInsert"
      BY <1>2, <1>5 DEF GetScoreMap, OpsAt, Inserts
    <2>2. Pair(w) \in DOMAIN scoreMap
          /\ req'[w] = [req[w] EXCEPT !.id = scoreMap[Pair(w)], !.pc = "saveScore"]
      <3>1. AfterMap[Op(w)] = "saveScore"
        BY <2>1 DEF AfterMap
      <3>2. req'[w] # Idle
        BY <1>2
      <3>3. QED
        BY <1>1, <1>5, <3>1, <3>2, MovedOn
    <2>3. req'[w].pc = "saveScore" /\ req'[w].id = scoreMap[Pair(w)] /\ Pair(w)' = Pair(w)
      BY <1>2, <2>2 DEF Request, Pair
    <2>4. QED
      BY <1>1, <2>1, <2>2, <2>3, QuietContent
  <1>6. QED
    BY <1>3, <1>4, <1>5

\* A call of a game or a player that has its id has the id of its place.
LEMMA IdIsPlace ==
    ASSUME NEW t \in Tables, NEW a \in Nat, NEW n \in Nat, NEW columns, Saved(t, a, n, columns),
           NEW i \in 1 .. n, a + i = place, Numbered(a + i)
    PROVE  idGen[t] = i
  <1>1. idGen[t] \in Nat /\ i <= idGen[t] /\ idGen[t] <= n
    <2>1. idGen[t] \in 0 .. n
      BY DEF Saved
    <2>2. Numbered(a + i) <=> i <= idGen[t]
      BY DEF Saved
    <2>3. QED
      BY <2>1, <2>2
  <1>2. ASSUME i < idGen[t] PROVE FALSE
    <2>1. i + 1 \in 1 .. n /\ i + 1 <= idGen[t]
      BY <1>1, <1>2
    <2>2. Numbered(a + (i + 1))
      BY <2>1 DEF Saved
    <2>3. a + (i + 1) # 0 /\ ~(a + (i + 1) < place) /\ a + (i + 1) # place /\ place # 0
      OBVIOUS
    <2>4. QED
      BY <2>2, <2>3 DEF Numbered
  <1>3. QED
    BY <1>1, <1>2

\* The call at hand gets its id.
LEMMA NumberSaved ==
    ASSUME NEW t \in Tables, NEW a \in Nat, NEW n \in Nat, NEW columns, Saved(t, a, n, columns),
           NEW i \in 1 .. n, a + i = place, place' = place,
           ~Numbered(a + i), Numbered(a + i)', ~Written(a + i)', ~At({"saveCity"})',
           idGen'[t] = idGen[t] + 1, rows' = rows
    PROVE  Saved(t, a, n, columns)'
  <1>1. idGen[t] \in 0 .. n /\ idGen[t] < i
    <2>1. idGen[t] \in 0 .. n
      BY DEF Saved
    <2>2. Numbered(a + i) <=> i <= idGen[t]
      BY DEF Saved
    <2>3. QED
      BY <2>1, <2>2
  <1>2. ASSUME idGen[t] < i - 1 PROVE FALSE
    <2>1. i - 1 \in 1 .. n /\ ~(i - 1 <= idGen[t])
      BY <1>1, <1>2
    <2>2. ~Numbered(a + (i - 1))
      BY <2>1 DEF Saved
    <2>3. a + (i - 1) < place
      OBVIOUS
    <2>4. QED
      BY <2>2, <2>3 DEF Numbered
  <1>3. idGen[t] = i - 1 /\ idGen'[t] = i
    BY <1>1, <1>2
  <1>4. ASSUME NEW j \in 1 .. n
        PROVE  /\ Numbered(a + j)' <=> j <= idGen'[t]
               /\ Written(a + j)' => \A c \in columns : <<t, j, c>> \in rows'
    <2>1. CASE j = i
      BY <2>1, <1>3
    <2>2. CASE j # i
      <3>1. a + j # place /\ place # 0
        BY <2>2
      <3>2. (Written(a + j)' <=> Written(a + j)) /\ (Numbered(a + j)' <=> Numbered(a + j))
        BY <3>1, OthersSame
      <3>3. Numbered(a + j) <=> j <= idGen[t]
        BY DEF Saved
      <3>4. j <= idGen[t] <=> j <= idGen'[t]
        BY <1>3, <2>2
      <3>5. QED
        BY <3>2, <3>3, <3>4 DEF Saved
    <2>3. QED
      BY <2>1, <2>2
  <1>5. idGen'[t] \in 0 .. n
    BY <1>3
  <1>6. QED
    BY <1>4, <1>5 DEF Saved

\* The call at hand writes a column.
LEMMA WriteSaved ==
    ASSUME NEW t \in Tables, NEW a \in Nat, NEW n \in Nat, NEW columns, Saved(t, a, n, columns),
           NEW i \in 1 .. n, a + i = place, place' = place,
           Numbered(a + i), Numbered(a + i)', idGen'[t] = idGen[t], rows \subseteq rows',
           Written(a + i)' => \A c \in columns : <<t, i, c>> \in rows',
           At({"saveCity"})' => <<t, i, "name">> \in rows'
    PROVE  Saved(t, a, n, columns)'
  <1>1. ASSUME NEW j \in 1 .. n
        PROVE  /\ Numbered(a + j)' <=> j <= idGen'[t]
               /\ Written(a + j)' => \A c \in columns : <<t, j, c>> \in rows'
               /\ a + j = place' /\ At({"saveCity"})' => <<t, j, "name">> \in rows'
    <2>1. CASE j = i
      BY <2>1 DEF Saved
    <2>2. CASE j # i
      <3>1. a + j # place /\ place # 0
        BY <2>2
      <3>2. (Written(a + j)' <=> Written(a + j)) /\ (Numbered(a + j)' <=> Numbered(a + j))
        BY <3>1, OthersSame
      <3>3. QED
        BY <3>1, <3>2 DEF Saved
    <2>3. QED
      BY <2>1, <2>2
  <1>2. QED
    BY <1>1 DEF Saved

\* What a call does not write: the lists it is not of.
LEMMA OtherLists ==
    ASSUME NEW w, Serving(w)
    PROVE  /\ Op(w) # "gameInsert" => place - 0 \notin 1 .. Games
           /\ Op(w) # "playerInsert" => place - Games \notin 1 .. Players
           /\ Op(w) # "scoreMapInsert" => place - (Games + Players) \notin 1 .. Len(ScoreMaps)
           /\ Op(w) # "scoreInsert" => place - Before \notin 1 .. Len(ScoreList)
  <1>1. Op(w) = Script[place].op /\ place \in Nat
    BY ServingFacts
  <1>2. ASSUME place - 0 \in 1 .. Games PROVE Op(w) = "gameInsert"
    BY <1>1, <1>2, ScriptShape
  <1>3. ASSUME place - Games \in 1 .. Players PROVE Op(w) = "playerInsert"
    <2>1. PICK i \in 1 .. Players : i = place - Games
      BY <1>3
    <2>2. place = Games + i
      BY <1>1, <2>1, ListLengths
    <2>3. QED
      BY <1>1, <2>2, ScriptShape
  <1>4. ASSUME place - (Games + Players) \in 1 .. Len(ScoreMaps) PROVE Op(w) = "scoreMapInsert"
    <2>1. PICK i \in 1 .. Len(ScoreMaps) : i = place - (Games + Players)
      BY <1>4
    <2>2. place = Games + Players + i
      BY <1>1, <2>1, ListLengths
    <2>3. QED
      BY <1>1, <2>2, ScriptShape
  <1>5. ASSUME place - Before \in 1 .. Len(ScoreList) PROVE Op(w) = "scoreInsert"
    <2>1. PICK i \in 1 .. Len(ScoreList) : i = place - Before
      BY <1>5
    <2>2. place = Before + i
      BY <1>1, <2>1, ListLengths
    <2>3. QED
      BY <1>1, <2>2, ScriptShape
  <1>6. QED
    BY <1>2, <1>3, <1>4, <1>5

LEMMA OtherTable ==
    ASSUME NEW w, Serving(w), NEW t \in Tables, NEW a \in Nat, NEW n \in Nat, NEW columns,
           Saved(t, a, n, columns), place - a \notin 1 .. n,
           idGen'[t] = idGen[t], rows \subseteq rows'
    PROVE  Saved(t, a, n, columns)'
  <1>1. place' = place /\ place \in Nat \ {0}
    BY ServingFacts DEF Serving
  <1>2. SameOn(a, n)
    BY <1>1, SameBeside
  <1>3. \A i \in 1 .. n : a + i # place
    BY <1>1
  <1>4. QED
    BY <1>1, <1>2, <1>3, SavedStays

LEMMA OtherParts ==
    ASSUME NEW w, Serving(w), rows \subseteq rows'
    PROVE  /\ Op(w) # "gameInsert" /\ idGen'["games"] = idGen["games"] => GamesSaved'
           /\ Op(w) # "playerInsert" /\ idGen'["players"] = idGen["players"] => PlayersSaved'
           /\ Op(w) # "scoreMapInsert" /\ scoreMap' = scoreMap
                 /\ idGen'["scoreMap"] = idGen["scoreMap"] => MapsSaved'
           /\ Op(w) # "scoreInsert" /\ scoreMap' = scoreMap /\ scores' = scores => ScoresSaved'
  <1>1. /\ GamesSaved /\ PlayersSaved /\ MapsSaved /\ ScoresSaved /\ TypeOK
        /\ place' = place /\ place \in Nat \ {0}
    BY ServingFacts DEF Serving, Content, SeedInv, TypeInv
  <1>2. ASSUME Op(w) # "gameInsert", idGen'["games"] = idGen["games"] PROVE GamesSaved'
    BY <1>1, <1>2, OtherLists, OtherTable, ListLengths DEF GamesSaved, Tables
  <1>3. ASSUME Op(w) # "playerInsert", idGen'["players"] = idGen["players"] PROVE PlayersSaved'
    BY <1>1, <1>3, OtherLists, OtherTable, ListLengths DEF PlayersSaved, Tables
  <1>4. ASSUME Op(w) # "scoreMapInsert", scoreMap' = scoreMap,
               idGen'["scoreMap"] = idGen["scoreMap"]
        PROVE  MapsSaved'
    <2>1. SameOn(Games + Players, Len(ScoreMaps))
      BY <1>1, <1>4, OtherLists, SameBeside, ListLengths
    <2>2. idGen["scoreMap"] \in Nat
      BY <1>1 DEF TypeOK, Tables
    <2>3. QED
      BY <1>1, <1>4, <2>1, <2>2, MapsStay DEF SameOn
  <1>5. ASSUME Op(w) # "scoreInsert", scoreMap' = scoreMap, scores' = scores PROVE ScoresSaved'
    <2>1. SameOn(Before, Len(ScoreList))
      BY <1>1, <1>5, OtherLists, SameBeside, ListLengths
    <2>2. QED
      BY <1>1, <1>5, <2>1, ScoresStay DEF SameOn
  <1>6. QED
    BY <1>2, <1>3, <1>4, <1>5

\* The next id is a new one.
LEMMA GenerateContent == ASSUME NEW w, Serving(w), GenerateId(w) PROVE Content'
  <1> DEFINE t == TableOf[Op(w)]
  <1>1. /\ TypeInv /\ w \in Workers /\ req[w] \in Request /\ place \in Nat \ {0} /\ place' = place
        /\ req[w].pc = "generateId" /\ Op(w) \in {"playerInsert", "gameInsert", "scoreMapInsert"}
    <2>1. TypeInv /\ w \in Workers /\ place' = place
      BY DEF Serving, SeedInv
    <2>2. req[w].pc = "generateId"
      BY DEF GenerateId
    <2>3. QED
      BY <2>1, <2>2, ServingFacts DEF OpsAt
  <1>2. /\ idGen \in [Tables -> Nat] /\ t \in Tables
        /\ idGen' = [idGen EXCEPT ![t] = idGen[t] + 1]
        /\ UNCHANGED <<rows, scoreMap, scores>>
    BY <1>1 DEF GenerateId, TypeInv, TypeOK, TableOf, Tables
  <1>3. /\ req'[w].id = idGen[t] + 1 /\ req'[w].pc = AfterId[Op(w)] /\ req'[w].call = req[w].call
    <2>1. PICK next, i : next = AfterId[Op(w)] /\ i = idGen[t] + 1
      OBVIOUS
    <2>2. req'[w] = [req[w] EXCEPT !.id = i, !.pc = next]
      BY <1>1, <2>1, MovedOn
    <2>3. QED
      BY <1>1, <2>1, <2>2 DEF Request
  <1>4. AfterId[Op(w)] \in {"saveName", "saveScoreMap"} /\ Op(w)' = Op(w)
    BY <1>1, <1>3 DEF AfterId, Op
  <1>5. /\ ~Numbered(place) /\ Numbered(place)' /\ ~At({"saveCity"})'
        /\ \A p : Written(p)' <=> Written(p)
    BY <1>1, <1>3, <1>4, ServingFacts DEF Numbered, Written
  <1>6. ~Written(place)'
    BY <1>1, <1>3, <1>4, ServingFacts DEF Written
  <1>7. /\ GamesSaved /\ PlayersSaved /\ MapsSaved /\ ScoresSaved
    BY DEF Serving, Content
  <1>8. idGen'[t] = idGen[t] + 1 /\ \A u \in Tables \ {t} : idGen'[u] = idGen[u]
    BY <1>2
  <1> HIDE DEF t
  <1>9. ASSUME Op(w) = "gameInsert" PROVE GamesSaved'
    <2>1. place \in 1 .. Games /\ t = "games"
      BY <1>9, ScriptPlaces, ServingFacts DEF Serving, t, TableOf
    <2>2. 0 + place = place
      BY <1>1
    <2>3. QED
      BY <1>1, <1>2, <1>5, <1>6, <1>7, <1>8, <2>1, <2>2, NumberSaved, ListLengths DEF GamesSaved
  <1>10. ASSUME Op(w) = "playerInsert" PROVE PlayersSaved'
    <2>1. place - Games \in 1 .. Players /\ t = "players"
      BY <1>10, ScriptPlaces, ServingFacts DEF Serving, t, TableOf
    <2>2. PICK i \in 1 .. Players : Games + i = place
      BY <1>1, <2>1, ListLengths
    <2>3. QED
      BY <1>1, <1>2, <1>5, <1>6, <1>7, <1>8, <2>1, <2>2, NumberSaved, ListLengths DEF PlayersSaved
  <1>11. MapsSaved'
    <2>1. SameWritten(Games + Players, Len(ScoreMaps))
      BY <1>5 DEF SameWritten
    <2>2. idGen["scoreMap"] \in Nat /\ idGen'["scoreMap"] \in Nat
          /\ idGen["scoreMap"] <= idGen'["scoreMap"]
      BY <1>2, <1>8 DEF Tables
    <2>3. QED
      BY <1>1, <1>2, <1>7, <2>1, <2>2, MapsStay DEF TypeInv
  <1>12. ScoresSaved'
    <2>1. SameWritten(Before, Len(ScoreList))
      BY <1>5 DEF SameWritten
    <2>2. QED
      BY <1>1, <1>2, <1>7, <2>1, ScoresStay
  <1>13. GamesSaved' /\ PlayersSaved'
    <2>1. (Op(w) # "gameInsert" => t # "games") /\ (Op(w) # "playerInsert" => t # "players")
      BY <1>1 DEF t, TableOf
    <2>2. "games" \in Tables /\ "players" \in Tables
      BY DEF Tables
    <2>3. QED
      BY <1>2, <1>8, <1>9, <1>10, <2>1, <2>2, OtherParts
  <1>14. InHand'
    <2>1. At({"saveName", "saveCity"})' => req'[w].id = idGen'[TableOf[Op(w)']]
      BY <1>3, <1>4, <1>8 DEF t
    <2>2. At({"saveScoreMap"})' =>
              req'[w].id = idGen'["scoreMap"] /\ \A k \in DOMAIN scoreMap : scoreMap[k] < idGen'["scoreMap"]
      <3>1. SUFFICES ASSUME At({"saveScoreMap"})'
                     PROVE  req'[w].id = idGen'["scoreMap"]
                            /\ \A k \in DOMAIN scoreMap : scoreMap[k] < idGen'["scoreMap"]
        OBVIOUS
      <3>2. AfterId[Op(w)] = "saveScoreMap"
        BY <1>3, <3>1, ServingFacts
      <3>3. t = "scoreMap"
        BY <1>1, <3>2 DEF AfterId, t, TableOf
      <3>4. \A k \in DOMAIN scoreMap : scoreMap[k] \in Nat /\ scoreMap[k] <= idGen["scoreMap"]
        BY <1>1, <1>7 DEF TypeInv, TypeOK, ScoreIds, MapsSaved
      <3>5. QED
        BY <1>2, <1>3, <1>8, <3>3, <3>4
    <2>3. ~At({"saveScore"})'
      BY <1>3, <1>4, ServingFacts
    <2>4. QED
      BY <1>2, <2>1, <2>2, <2>3 DEF InHand, Serving
  <1>15. QED
    BY <1>11, <1>12, <1>13, <1>14, ServingFacts DEF Content

\* A column of a game or a player is written under the id of its place.
LEMMA SaveContent ==
    ASSUME NEW w, Serving(w), NEW step \in {"saveCity", "respond"},
           req[w].pc \in {"saveName", "saveCity"}, req'[w] = Goto(w, step),
           NEW column, rows' = rows \cup {<<TableOf[Op(w)], req[w].id, column>>},
           UNCHANGED <<idGen, scoreMap, scores>>,
           Op(w) = "gameInsert" => (step = "respond" /\ column = "name"),
           Op(w) = "playerInsert" =>
               column = IF step = "respond" THEN "city" ELSE "name",
           step = "respond" /\ Op(w) = "playerInsert" => req[w].pc = "saveCity"
    PROVE  Content'
  <1>1. /\ req[w] \in Request /\ place \in Nat \ {0} /\ place' = place /\ w = server
        /\ Op(w) \in {"playerInsert", "gameInsert"}
        /\ GamesSaved /\ PlayersSaved /\ InHand
    <2>1. place' = place /\ w = server /\ GamesSaved /\ PlayersSaved /\ InHand
      BY DEF Serving, Content
    <2>2. QED
      BY <2>1, ServingFacts DEF OpsAt
  <1>2. req'[w].pc = step /\ req'[w].id = req[w].id /\ Op(w)' = Op(w)
    BY <1>1 DEF Goto, Request, Op
  <1>3. /\ \A p : p = place => /\ Numbered(p) /\ Numbered(p)'
                               /\ Written(p)' <=> step = "respond"
        /\ At({"saveCity"})' <=> step = "saveCity"
    BY <1>1, <1>2, ServingFacts DEF Numbered, Written
  <1>4. req[w].id = idGen[TableOf[Op(w)]]
    BY <1>1, ServingFacts DEF InHand
  <1>5. ASSUME Op(w) = "gameInsert" PROVE GamesSaved' /\ PlayersSaved'
    <2>1. place \in 1 .. Games /\ 0 + place = place /\ TableOf[Op(w)] = "games"
      BY <1>1, <1>5, ScriptPlaces, ServingFacts DEF Serving, TableOf
    <2>2. "games" \in Tables /\ Games \in Nat
      BY ListLengths DEF Tables
    <2>3. req[w].id = place
      BY <1>1, <1>3, <1>4, <2>1, <2>2, IdIsPlace DEF GamesSaved
    <2>4. <<"games", place, "name">> \in rows'
      BY <1>5, <2>1, <2>3
    <2>5. \A c \in {"name"} : <<"games", place, c>> \in rows'
      BY <2>4
    <2>6. GamesSaved'
      BY <1>1, <1>3, <2>1, <2>2, <2>4, <2>5, WriteSaved DEF GamesSaved
    <2>7. QED
      BY <1>5, <2>6, OtherParts
  <1>6. ASSUME Op(w) = "playerInsert" PROVE GamesSaved' /\ PlayersSaved'
    <2>1. place - Games \in 1 .. Players /\ TableOf[Op(w)] = "players"
      BY <1>6, ScriptPlaces, ServingFacts DEF Serving, TableOf
    <2>2. PICK i \in 1 .. Players : Games + i = place
      BY <1>1, <2>1, ListLengths
    <2>3. "players" \in Tables /\ Games \in Nat /\ Players \in Nat
      BY ListLengths DEF Tables
    <2>4. req[w].id = i
      BY <1>1, <1>3, <1>4, <2>1, <2>2, <2>3, IdIsPlace DEF PlayersSaved
    <2>5. At({"saveCity"})' => <<"players", i, "name">> \in rows'
      BY <1>3, <1>6, <2>1, <2>4
    <2>6. Written(Games + i)' => \A c \in Columns : <<"players", i, c>> \in rows'
      <3>1. SUFFICES ASSUME step = "respond"
                     PROVE  \A c \in Columns : <<"players", i, c>> \in rows'
        BY <1>3, <2>2
      <3>2. <<"players", i, "city">> \in rows'
        BY <1>6, <2>1, <2>4, <3>1
      <3>3. At({"saveCity"})
        BY <1>6, <3>1, ServingFacts
      <3>4. <<"players", i, "name">> \in rows
        BY <1>1, <2>2, <3>3 DEF PlayersSaved, Saved
      <3>5. QED
        BY <3>2, <3>4 DEF Columns
    <2>7. Numbered(Games + i) /\ Numbered(Games + i)'
      BY <1>3, <2>2
    <2>8. PlayersSaved'
      BY <1>1, <2>2, <2>3, <2>5, <2>6, <2>7, WriteSaved DEF PlayersSaved
    <2>9. QED
      BY <1>6, <2>8, OtherParts
  <1>7. GamesSaved' /\ PlayersSaved' /\ MapsSaved' /\ ScoresSaved'
    BY <1>1, <1>5, <1>6, OtherParts
  <1>8. InHand'
    <2>1. At({"saveName", "saveCity"})' => req'[w].id = idGen'[TableOf[Op(w)']]
      BY <1>2, <1>4
    <2>2. ~At({"saveScore"})' /\ ~At({"saveScoreMap"})'
      BY <1>2, ServingFacts
    <2>3. QED
      BY <1>1, <2>1, <2>2 DEF InHand, Serving
  <1>9. QED
    BY <1>7, <1>8, ServingFacts DEF Content

LEMMA SaveNameContent == ASSUME NEW w, Serving(w), SaveName(w) PROVE Content'
  <1>1. /\ TypeInv /\ w \in Workers /\ req'[w] # Idle
        /\ req[w].pc = "saveName" /\ Op(w) \in {"playerInsert", "gameInsert"}
    <2>1. TypeInv /\ w \in Workers /\ req'[w].pc # "idle"
      BY DEF Serving, SeedInv
    <2>2. req[w].pc = "saveName"
      BY DEF SaveName
    <2>3. QED
      BY <2>1, <2>2, ServingFacts, IdlePc DEF OpsAt
  <1>2. /\ rows' = rows \cup {<<TableOf[Op(w)], req[w].id, "name">>}
        /\ UNCHANGED <<idGen, scoreMap, scores>>
    BY DEF SaveName, SaveColumn
  <1>3. PICK step : step = AfterName[Op(w)]
    OBVIOUS
  <1>4. req'[w] = Goto(w, step)
    BY <1>1, <1>3, Moved
  <1>5. step = IF Op(w) = "gameInsert" THEN "respond" ELSE "saveCity"
    BY <1>1, <1>3 DEF AfterName
  <1>6. QED
    BY <1>1, <1>2, <1>4, <1>5, SaveContent

LEMMA SaveCityContent == ASSUME NEW w, Serving(w), SaveCity(w) PROVE Content'
  <1>1. /\ TypeInv /\ w \in Workers /\ req'[w] # Idle
        /\ req[w].pc = "saveCity" /\ Op(w) = "playerInsert"
    <2>1. TypeInv /\ w \in Workers /\ req'[w].pc # "idle"
      BY DEF Serving, SeedInv
    <2>2. req[w].pc = "saveCity"
      BY DEF SaveCity
    <2>3. QED
      BY <2>1, <2>2, ServingFacts, IdlePc DEF OpsAt
  <1>2. /\ rows' = rows \cup {<<TableOf[Op(w)], req[w].id, "city">>}
        /\ UNCHANGED <<idGen, scoreMap, scores>>
    BY DEF SaveCity, SaveColumn
  <1>3. req'[w] = Goto(w, "respond")
    BY <1>1, Moved
  <1>4. QED
    BY <1>1, <1>2, <1>3, SaveContent

\* The pair of the call was not in the score map, and gets an id above those
\* in it.
LEMMA SaveScoreMapContent == ASSUME NEW w, Serving(w), SaveScoreMap(w) PROVE Content'
  <1>1. /\ TypeInv /\ w \in Workers /\ req'[w] # Idle /\ place' = place /\ place \in Nat \ {0}
        /\ req[w].pc = "saveScoreMap" /\ Op(w) = "scoreMapInsert" /\ req[w] \in Request
        /\ InHand /\ MapsSaved /\ ScoresSaved
    <2>1. /\ TypeInv /\ w \in Workers /\ req'[w].pc # "idle" /\ place' = place
          /\ InHand /\ MapsSaved /\ ScoresSaved
      BY DEF Serving, SeedInv, Content
    <2>2. req[w].pc = "saveScoreMap"
      BY DEF SaveScoreMap
    <2>3. QED
      BY <2>1, <2>2, ServingFacts, IdlePc DEF OpsAt
  <1>2. req'[w] = Goto(w, "respond") /\ req'[w].pc = "respond"
    <2>1. req'[w] = Goto(w, "respond")
      BY <1>1, Moved
    <2>2. QED
      BY <1>1, <2>1 DEF Goto, Request
  <1>3. Pair(w) \notin DOMAIN scoreMap
    BY <1>1, <1>2, FreshMap DEF Step
  <1>4. /\ scoreMap' = HSet(scoreMap, Pair(w), req[w].id)
        /\ UNCHANGED <<idGen, rows, scores>>
    BY DEF SaveScoreMap
  <1>5. req[w].id = idGen["scoreMap"] /\ \A k \in DOMAIN scoreMap : scoreMap[k] < idGen["scoreMap"]
    BY <1>1, ServingFacts DEF InHand, Serving
  <1>6. idGen["scoreMap"] \in Nat /\ \A k \in DOMAIN scoreMap : scoreMap[k] \in Nat
    BY <1>1 DEF TypeInv, TypeOK, Tables, ScoreIds
  <1>7. PICK i \in 1 .. Len(ScoreMaps) : Games + Players + i = place
    <2>1. place - (Games + Players) \in 1 .. Len(ScoreMaps)
      BY <1>1, ScriptPlaces, ServingFacts DEF Serving
    <2>2. Games + Players + (place - (Games + Players)) = place
      BY <1>1, ListLengths
    <2>3. QED
      BY <2>1, <2>2
  <1>8. Pair(w) = ScoreMaps[i]
    BY <1>1, <1>7, ScriptShape DEF Serving, Pair
  <1>9. /\ DOMAIN scoreMap' = DOMAIN scoreMap \cup {Pair(w)}
        /\ scoreMap'[Pair(w)] = idGen["scoreMap"]
        /\ \A k \in DOMAIN scoreMap : scoreMap'[k] = scoreMap[k]
    BY <1>3, <1>4, <1>5 DEF HSet
  <1>10. \A j \in 1 .. Len(ScoreMaps) :
             Written(Games + Players + j)' <=> (Written(Games + Players + j) \/ j = i)
    <2>1. ASSUME NEW p, p = place PROVE Written(p)'
      BY <1>1, <1>2, <2>1, ServingFacts DEF Written
    <2>2. ASSUME NEW j \in 1 .. Len(ScoreMaps), j # i
          PROVE  Written(Games + Players + j)' <=> Written(Games + Players + j)
      <3>1. Games + Players + j # place
        BY <1>7, <2>2, ListLengths
      <3>2. QED
        BY <1>1, <3>1, OthersSame
    <2>3. QED
      BY <1>7, <2>1, <2>2
  <1>11. MapsSaved'
    <2>1. DOMAIN scoreMap' =
              {ScoreMaps[j] : j \in {l \in 1 .. Len(ScoreMaps) : Written(Games + Players + l)'}}
      <3>1. DOMAIN scoreMap =
                {ScoreMaps[j] : j \in {l \in 1 .. Len(ScoreMaps) : Written(Games + Players + l)}}
        BY <1>1 DEF MapsSaved
      <3>2. QED
        BY <1>8, <1>9, <1>10, <3>1
    <2>2. \A k \in DOMAIN scoreMap' : scoreMap'[k] <= idGen'["scoreMap"]
      BY <1>4, <1>5, <1>6, <1>9
    <2>3. \A k, l \in DOMAIN scoreMap' : scoreMap'[k] = scoreMap'[l] => k = l
      <3>1. \A k, l \in DOMAIN scoreMap : scoreMap[k] = scoreMap[l] => k = l
        BY <1>1 DEF MapsSaved
      <3>2. QED
        BY <1>5, <1>6, <1>9, <3>1
    <2>4. QED
      BY <2>1, <2>2, <2>3 DEF MapsSaved
  <1>12. ScoresSaved'
    <2>1. scores = EmptyHash /\ scores' = EmptyHash
      <3>1. place <= Before
        BY <1>7, ListLengths
      <3>2. QED
        BY <1>1, <1>4, <3>1 DEF ScoresSaved
    <2>2. Reachable = {} /\ Reachable' = {}
      BY <2>1 DEF Reachable, ScoresOf, EmptyHash
    <2>3. ASSUME NEW k, NEW v PROVE Entries(k, v)' = Entries(k, v)
      BY <2>2 DEF Entries
    <2>4. SameWritten(Before, Len(ScoreList))
      <3>1. place - Before \notin 1 .. Len(ScoreList)
        BY <1>1, OtherLists
      <3>2. QED
        BY <1>1, <3>1, SameBeside, ListLengths DEF SameOn
    <2>5. ASSUME NEW k, NEW v PROVE Posts(k, v)' = Posts(k, v)
      BY <2>4 DEF Posts, SameWritten
    <2>6. QED
      BY <1>1, <2>1, <2>3, <2>5 DEF ScoresSaved
  <1>13. GamesSaved' /\ PlayersSaved'
    BY <1>1, <1>4, OtherParts
  <1>14. InHand'
    BY <1>2, ServingFacts DEF InHand
  <1>15. QED
    BY <1>11, <1>12, <1>13, <1>14, ServingFacts DEF Content

\* A score goes under the id of its pair, at a date that pair has no score at.
LEMMA ScoreWritten ==
    ASSUME NEW w, Serving(w), SaveScore(w)
    PROVE  /\ Pair(w) \in DOMAIN scoreMap /\ req[w].id = scoreMap[Pair(w)]
           /\ req'[w].pc = "respond"
           /\ \E d \in Dates :
                /\ <<req[w].id, d>> \notin DOMAIN scores
                /\ scores' = HSet(scores, <<req[w].id, d>>, req[w].call.score)
  <1>1. /\ TypeInv /\ w \in Workers /\ w = server /\ req'[w].pc # "idle" /\ InHand
        /\ req \in [Workers -> Request] /\ req[w].pc = "saveScore" /\ req[w] \in Request
    <2>1. TypeInv /\ w \in Workers /\ w = server /\ req'[w].pc # "idle" /\ InHand
      BY DEF Serving, SeedInv, Content
    <2>2. req[w].pc = "saveScore"
      BY DEF SaveScore
    <2>3. QED
      BY <2>1, <2>2, ServingFacts DEF TypeInv, TypeOK
  <1>2. Pair(w) \in DOMAIN scoreMap /\ req[w].id = scoreMap[Pair(w)]
    BY <1>1, ServingFacts DEF InHand
  <1>3. PICK d \in Dates :
            /\ scores' = HSet(scores, <<req[w].id, d>>, req[w].call.score)
            /\ CheckInserted(w, HSetReply(scores, <<req[w].id, d>>),
                             [req[w] EXCEPT !.answer = {NewEntry(w, d)}, !.pc = "respond"])
    <2>1. \A d : NewEntry(w, d).id = req[w].id /\ NewEntry(w, d).score = req[w].call.score
      BY DEF NewEntry
    <2>2. QED
      BY <2>1 DEF SaveScore
  <1>4. <<req[w].id, d>> \notin DOMAIN scores
    <2>1. ASSUME <<req[w].id, d>> \in DOMAIN scores PROVE req'[w] = Idle
      BY <1>1, <1>3, <2>1 DEF CheckInserted, Proceed, HSetReply
    <2>2. QED
      BY <1>1, <2>1, IdlePc
  <1>5. req'[w].pc = "respond"
    <2>1. PICK a : a = {NewEntry(w, d)}
      OBVIOUS
    <2>2. req'[w] = [req[w] EXCEPT !.answer = a, !.pc = "respond"]
      BY <1>1, <1>3, <1>4, <2>1 DEF CheckInserted, Proceed, HSetReply
    <2>3. QED
      BY <1>1, <2>2 DEF Request
  <1>6. QED
    BY <1>2, <1>3, <1>4, <1>5

EntryAt(k, f, sc) == [pair |-> k, id |-> f[1], date |-> f[2], score |-> sc[f]]

LEMMA ReachableAre ==
    /\ \A e : e \in Reachable <=>
           \E k \in DOMAIN scoreMap, f \in DOMAIN scores :
               f[1] = scoreMap[k] /\ e = EntryAt(k, f, scores)
    /\ \A e : e \in Reachable' <=>
           \E k \in DOMAIN scoreMap', f \in DOMAIN scores' :
               f[1] = scoreMap'[k] /\ e = EntryAt(k, f, scores')
  BY DEF Reachable, ScoresOf, EntryAt

LEMMA OneMoreReachable ==
    ASSUME TypeOK, MapsSaved, NEW k0 \in DOMAIN scoreMap, NEW d \in Dates, NEW v0,
           <<scoreMap[k0], d>> \notin DOMAIN scores,
           scores' = HSet(scores, <<scoreMap[k0], d>>, v0), scoreMap' = scoreMap
    PROVE  LET e0 == [pair |-> k0, id |-> scoreMap[k0], date |-> d, score |-> v0]
           IN  e0 \notin Reachable /\ Reachable' = Reachable \cup {e0}
  <1> DEFINE e0 == [pair |-> k0, id |-> scoreMap[k0], date |-> d, score |-> v0]
             f0 == <<scoreMap[k0], d>>
  <1>1. /\ DOMAIN scores' = DOMAIN scores \cup {f0} /\ f0 \notin DOMAIN scores
        /\ scores'[f0] = v0 /\ \A f \in DOMAIN scores : scores'[f] = scores[f]
    BY DEF HSet
  <1>2. \A f \in DOMAIN scores : f = <<f[1], f[2]>>
    BY DEF TypeOK
  <1>3. e0 \notin Reachable
    <2>1. SUFFICES ASSUME NEW k \in DOMAIN scoreMap, NEW f \in DOMAIN scores, e0 = EntryAt(k, f, scores)
                   PROVE  FALSE
      BY ReachableAre
    <2>2. f[1] = scoreMap[k0] /\ f[2] = d
      BY <2>1 DEF EntryAt
    <2>3. QED
      BY <1>1, <1>2, <2>2
  <1>4. \A k : \A f \in DOMAIN scores : EntryAt(k, f, scores') = EntryAt(k, f, scores)
    BY <1>1 DEF EntryAt
  <1>5. EntryAt(k0, f0, scores') = e0 /\ f0[1] = scoreMap[k0]
    BY <1>1 DEF EntryAt
  <1>6. \A k \in DOMAIN scoreMap : f0[1] = scoreMap[k] => k = k0
    BY <1>5 DEF MapsSaved
  <1> HIDE DEF e0, f0
  <1>7. ASSUME NEW e \in Reachable' PROVE e \in Reachable \cup {e0}
    <2>1. PICK k \in DOMAIN scoreMap, f \in DOMAIN scores' :
              f[1] = scoreMap[k] /\ e = EntryAt(k, f, scores')
      BY ReachableAre
    <2>2. CASE f \in DOMAIN scores
      BY <1>4, <2>1, <2>2, ReachableAre
    <2>3. CASE f = f0
      BY <1>5, <1>6, <2>1, <2>3
    <2>4. QED
      BY <1>1, <2>2, <2>3
  <1>8. ASSUME NEW e \in Reachable PROVE e \in Reachable'
    <2>1. PICK k \in DOMAIN scoreMap, f \in DOMAIN scores :
              f[1] = scoreMap[k] /\ e = EntryAt(k, f, scores)
      BY ReachableAre
    <2>2. e = EntryAt(k, f, scores') /\ f \in DOMAIN scores'
      BY <1>1, <1>4, <2>1
    <2>3. QED
      BY <2>1, <2>2, ReachableAre
  <1>9. e0 \in Reachable'
    BY <1>1, <1>5, ReachableAre
  <1>10. e0 \notin Reachable /\ Reachable' = Reachable \cup {e0}
    BY <1>3, <1>7, <1>8, <1>9
  <1>11. QED
    BY <1>10 DEF e0

\* One entry more, and one call more that has posted it.
LEMMA SaveScoreContent == ASSUME NEW w, Serving(w), SaveScore(w) PROVE Content'
  <1>1. /\ TypeInv /\ w \in Workers /\ place' = place /\ place \in Nat \ {0}
        /\ req[w].pc = "saveScore" /\ Op(w) = "scoreInsert"
        /\ MapsSaved /\ ScoresSaved
    <2>1. /\ TypeInv /\ w \in Workers /\ place' = place /\ MapsSaved /\ ScoresSaved
      BY DEF Serving, SeedInv, Content
    <2>2. req[w].pc = "saveScore"
      BY DEF SaveScore
    <2>3. QED
      BY <2>1, <2>2, ServingFacts DEF OpsAt
  <1>2. UNCHANGED <<idGen, rows, scoreMap>>
    BY DEF SaveScore
  <1>3. /\ Pair(w) \in DOMAIN scoreMap /\ req[w].id = scoreMap[Pair(w)]
        /\ req'[w].pc = "respond"
    BY ScoreWritten
  <1>4. PICK d \in Dates :
            /\ <<scoreMap[Pair(w)], d>> \notin DOMAIN scores
            /\ scores' = HSet(scores, <<scoreMap[Pair(w)], d>>, req[w].call.score)
    BY <1>3, ScoreWritten
  <1>5. PICK e0 : /\ e0 \notin Reachable /\ Reachable' = Reachable \cup {e0}
                  /\ e0.pair = Pair(w) /\ e0.score = req[w].call.score
    <2>1. PICK e1 : e1 = [pair |-> Pair(w), id |-> scoreMap[Pair(w)], date |-> d,
                          score |-> req[w].call.score]
      OBVIOUS
    <2>2. e1 \notin Reachable /\ Reachable' = Reachable \cup {e1}
      BY <1>1, <1>2, <1>3, <1>4, <2>1, OneMoreReachable DEF TypeInv
    <2>3. QED
      BY <2>1, <2>2
  <1>6. PICK i \in 1 .. Len(ScoreList) : Before + i = place
    <2>1. place - Before \in 1 .. Len(ScoreList)
      BY <1>1, ScriptPlaces, ServingFacts DEF Serving
    <2>2. Before + (place - Before) = place
      BY <1>1, ListLengths
    <2>3. QED
      BY <2>1, <2>2
  <1>7. ScoreList[i] = <<Pair(w), req[w].call.score>>
    BY <1>1, <1>6, ScriptShape DEF Serving, Pair
  <1>8. ~Written(Before + i) /\ Written(Before + i)'
    BY <1>1, <1>3, <1>6, ServingFacts DEF Written
  <1>9. ASSUME NEW j \in 1 .. Len(ScoreList), j # i
        PROVE  Written(Before + j)' <=> Written(Before + j)
    <2>1. Before + j # place
      BY <1>6, <1>9, ListLengths
    <2>2. QED
      BY <1>1, <2>1, OthersSame
  <1>10. ASSUME NEW k, NEW v
         PROVE  /\ IsFiniteSet(Posts(k, v))
                /\ i \notin Posts(k, v)
                /\ Posts(k, v)' = IF ScoreList[i] = <<k, v>> THEN Posts(k, v) \cup {i} ELSE Posts(k, v)
    <2>1. IsFiniteSet(1 .. Len(ScoreList)) /\ Posts(k, v) \in SUBSET (1 .. Len(ScoreList))
      BY FS_Interval, ListLengths DEF Posts
    <2>2. IsFiniteSet(Posts(k, v))
      BY <2>1, FS_Subset
    <2>3. QED
      BY <1>8, <1>9, <2>2 DEF Posts
  <1>11. ASSUME NEW k, NEW v
         PROVE  /\ e0 \notin Entries(k, v)
                /\ Entries(k, v)' = IF ScoreList[i] = <<k, v>> THEN Entries(k, v) \cup {e0} ELSE Entries(k, v)
    BY <1>5, <1>7 DEF Entries
  <1>12. ASSUME NEW k \in Pairs, NEW v \in Points
         PROVE  /\ IsFiniteSet(Entries(k, v)')
                /\ Cardinality(Entries(k, v)') = Cardinality(Posts(k, v)')
    <2>1. IsFiniteSet(Entries(k, v)) /\ Cardinality(Entries(k, v)) = Cardinality(Posts(k, v))
      BY <1>1 DEF ScoresSaved
    <2>2. CASE ScoreList[i] = <<k, v>>
      <3>1. Entries(k, v)' = Entries(k, v) \cup {e0} /\ Posts(k, v)' = Posts(k, v) \cup {i}
        BY <1>10, <1>11, <2>2
      <3>2. IsFiniteSet(Entries(k, v) \cup {e0})
            /\ Cardinality(Entries(k, v) \cup {e0}) = Cardinality(Entries(k, v)) + 1
        BY <1>11, <2>1, FS_AddElement
      <3>3. Cardinality(Posts(k, v) \cup {i}) = Cardinality(Posts(k, v)) + 1
        BY <1>10, FS_AddElement
      <3>4. QED
        BY <2>1, <3>1, <3>2, <3>3
    <2>3. CASE ScoreList[i] # <<k, v>>
      BY <1>10, <1>11, <2>1, <2>3
    <2>4. QED
      BY <2>2, <2>3
  <1>13. ScoresSaved'
    <2>1. ~(place <= Before)
      BY <1>6, ListLengths
    <2>2. QED
      BY <1>1, <1>12, <2>1 DEF ScoresSaved
  <1>14. GamesSaved' /\ PlayersSaved' /\ MapsSaved'
    BY <1>1, <1>2, OtherParts
  <1>15. InHand'
    BY <1>3, ServingFacts DEF InHand
  <1>16. QED
    BY <1>13, <1>14, <1>15, ServingFacts DEF Content

----------------------------------------------------------------------------
(***************************************************************************)
(* The steps of client and workers.                                        *)
(***************************************************************************)
LEMMA StartContent == ASSUME SeedInv, Start PROVE ContentInv'
  <1> SUFFICES ASSUME clean' PROVE Content'
    BY DEF ContentInv, GoodRun
  <1>1. /\ place' = 1 /\ server' = Nobody /\ UNCHANGED <<idGen, rows, scoreMap, scores, req>>
        /\ idGen = [t \in Tables |-> 0] /\ scoreMap = EmptyHash /\ scores = EmptyHash
        /\ \A w \in Workers : req[w].pc = "idle"
    BY DEF Start, Empty, AllIdle, vars, redis
  <1>2. \A pcs : ~At(pcs)'
    BY <1>1 DEF At
  <1>3. \A p \in Nat \ {0} : ~Numbered(p)' /\ ~Written(p)'
    BY <1>1, <1>2 DEF Numbered, Written
  <1>4. ASSUME NEW t \in Tables, NEW a \in Nat, NEW n \in Nat, NEW columns
        PROVE  Saved(t, a, n, columns)'
    <2>1. idGen'[t] = 0
      BY <1>1
    <2>2. ASSUME NEW i \in 1 .. n PROVE ~Numbered(a + i)' /\ ~Written(a + i)' /\ ~(i <= 0)
      <3>1. a + i \in Nat \ {0}
        OBVIOUS
      <3>2. QED
        BY <1>3, <3>1
    <2>3. QED
      BY <1>2, <2>1, <2>2 DEF Saved
  <1>5. GamesSaved' /\ PlayersSaved'
    BY <1>4, ListLengths DEF GamesSaved, PlayersSaved, Tables
  <1>6. MapsSaved'
    <2>1. \A i \in 1 .. Len(ScoreMaps) : ~Written(Games + Players + i)'
      <3>1. \A i \in 1 .. Len(ScoreMaps) : Games + Players + i \in Nat \ {0}
        BY ListLengths
      <3>2. QED
        BY <1>3, <3>1
    <2>2. DOMAIN scoreMap' = {}
      BY <1>1 DEF EmptyHash
    <2>3. QED
      BY <2>1, <2>2 DEF MapsSaved
  <1>7. ScoresSaved'
    <2>1. \A i \in 1 .. Len(ScoreList) : ~Written(Before + i)'
      <3>1. \A i \in 1 .. Len(ScoreList) : Before + i \in Nat \ {0}
        BY ListLengths
      <3>2. QED
        BY <1>3, <3>1
    <2>2. Reachable' = {}
      BY <1>1 DEF Reachable, EmptyHash
    <2>3. \A k, v : Entries(k, v)' = {} /\ Posts(k, v)' = {}
      BY <2>1, <2>2 DEF Entries, Posts
    <2>4. QED
      BY <1>1, <2>3, FS_EmptySet DEF ScoresSaved
  <1>8. InHand' /\ Alone'
    BY <1>1, <1>2 DEF InHand, Alone
  <1>9. QED
    BY <1>5, <1>6, <1>7, <1>8 DEF Content

\* A step after which Written and Numbered are what they were, and the
\* database too.
LEMMA SameContent ==
    ASSUME SeedInv, Content, UNCHANGED <<idGen, rows, scoreMap, scores>>, Alone', InHand',
           At({"saveCity"})' => (At({"saveCity"}) /\ place' = place),
           \A p \in 1 .. Len(Script) :
               (Written(p)' <=> Written(p)) /\ (Numbered(p)' <=> Numbered(p)),
           place' # 0 /\ place' <= Before => (place # 0 /\ place <= Before)
    PROVE  Content'
  <1>1. ASSUME NEW a \in Nat, NEW n \in Nat, a + n <= Len(Script)
        PROVE  SameOn(a, n) /\ SameWritten(a, n)
    <2>1. \A i \in 1 .. n : a + i \in 1 .. Len(Script)
      BY <1>1, ListLengths
    <2>2. QED
      BY <2>1 DEF SameOn, SameWritten
  <1>2. /\ SameOn(0, Games) /\ SameOn(Games, Players)
        /\ SameWritten(Games + Players, Len(ScoreMaps)) /\ SameWritten(Before, Len(ScoreList))
    BY <1>1, ListLengths
  <1>3. /\ GamesSaved /\ PlayersSaved /\ MapsSaved /\ ScoresSaved
        /\ TypeOK /\ idGen["scoreMap"] \in Nat
    BY DEF Content, SeedInv, TypeInv, TypeOK, Tables
  <1>4. GamesSaved' /\ PlayersSaved'
    BY <1>2, <1>3, SavedStays, ListLengths DEF GamesSaved, PlayersSaved, Tables
  <1>5. MapsSaved' /\ ScoresSaved'
    BY <1>2, <1>3, MapsStay, ScoresStay
  <1>6. QED
    BY <1>4, <1>5 DEF Content

LEMMA ExecContent ==
    ASSUME SeedInv, ContentInv, NEW w \in Workers, Exec(w) PROVE ContentInv'
  <1> SUFFICES ASSUME GoodRun' PROVE Content'
    BY DEF ContentInv
  <1>1. /\ Submit(w) /\ place # 0 /\ server = Nobody /\ server' = w
        /\ UNCHANGED <<place, result, clean, trusted>>
    BY DEF Exec
  <1>2. Content
    BY <1>1 DEF ContentInv, GoodRun
  <1>3. UNCHANGED <<idGen, rows, scoreMap, scores>>
    BY <1>1 DEF Submit, redis
  <1>4. \A v \in Workers \ {w} : req'[v] = req[v]
    BY <1>1, OthersWait DEF SeedInv
  <1>5. req'[w].pc \in {"generateId", "getPlayer", "getGame", "getScore"}
    <2>1. PICK c \in Calls : c.op \in AllOps /\ req'[w].pc = FirstStep[c.op]
      BY <1>1, Begun DEF SeedInv
    <2>2. QED
      BY <2>1 DEF FirstStep, AllOps, Inserts, Reads
  <1>6. w # Nobody
    BY SeedAssumption
  <1>7. \A pcs : ~At(pcs) /\ (At(pcs)' <=> req'[w].pc \in pcs)
    BY <1>1, <1>6 DEF At
  <1>8. \A p : (Written(p)' <=> Written(p)) /\ (Numbered(p)' <=> Numbered(p))
    BY <1>1, <1>5, <1>7 DEF Written, Numbered
  <1>9. InHand' /\ Alone' /\ ~At({"saveCity"})'
    <2>1. ~At({"saveName", "saveCity"})' /\ ~At({"saveScoreMap"})' /\ ~At({"saveScore"})'
          /\ ~At({"saveCity"})'
      BY <1>5, <1>7
    <2>2. InHand'
      BY <2>1 DEF InHand
    <2>3. \A v \in Workers : req[v].pc = "idle"
      BY <1>1, <1>2, SeedAssumption DEF Alone, Content
    <2>4. Alone'
      BY <1>1, <1>4, <2>3 DEF Alone
    <2>5. QED
      BY <2>1, <2>2, <2>4
  <1>10. QED
    BY <1>1, <1>2, <1>3, <1>8, <1>9, SameContent

\* A call that is answered leaves the database to the next one.
LEMMA AnsweredContent ==
    ASSUME SeedInv, Content, place # 0, NEW w \in Workers, w = server, server # Nobody,
           req[w].pc = "respond", Respond(w), Checked(TRUE)
    PROVE  Content'
  <1>1. /\ place \in 1 .. Len(Script) /\ server' = Nobody
        /\ place' = IF place < Len(Script) THEN place + 1 ELSE 0
    <2>1. place \in 0 .. Len(Script) /\ Len(Script) \in Nat
      BY ListLengths DEF SeedInv, ITypeOK
    <2>2. QED
      BY <2>1 DEF Checked
  <1>2. UNCHANGED <<idGen, rows, scoreMap, scores>>
    BY DEF Respond, redis
  <1>3. /\ At({"respond"}) /\ At({"saveName", "saveCity", "saveScoreMap", "respond"})
        /\ \A pcs : ~At(pcs)'
    BY <1>1 DEF At
  <1>4. ASSUME NEW p \in 1 .. Len(Script)
        PROVE  /\ Written(p) <=> p <= place
               /\ Numbered(p) <=> p <= place
               /\ Written(p)' <=> p <= place
               /\ Numbered(p)' <=> p <= place
    <2>1. (Written(p) <=> p <= place) /\ (Numbered(p) <=> p <= place)
      BY <1>1, <1>3 DEF Written, Numbered
    <2>2. p <= place <=> (place' = 0 \/ p < place')
      BY <1>1, ListLengths
    <2>3. QED
      BY <1>3, <2>1, <2>2 DEF Written, Numbered
  <1>5. place' # 0 /\ place' <= Before => (place # 0 /\ place <= Before)
    BY <1>1, ListLengths
  <1>6. Alone'
    <2>1. \A v \in Workers \ {w} : req'[v] = req[v]
      BY OthersWait DEF SeedInv, Step
    <2>2. req'[w].pc = "idle"
      BY Moved, IdlePc DEF SeedInv
    <2>3. QED
      BY <2>1, <2>2 DEF Alone, Content
  <1>7. InHand'
    BY <1>3 DEF InHand
  <1>8. QED
    BY <1>2, <1>3, <1>4, <1>5, <1>6, <1>7, SameContent

LEMMA ServeContent ==
    ASSUME SeedInv, ContentInv, NEW w \in Workers, Serve(w) PROVE ContentInv'
  <1> SUFFICES ASSUME GoodRun' PROVE Content'
    BY DEF ContentInv
  <1>1. Step(w) /\ UNCHANGED <<clean, trusted>> /\ req[w].pc # "idle"
    BY DEF Serve, Step, GetPlayer, GetGame, GenerateId, SaveName, SaveCity, SaveScoreMap,
           GetScoreMap, SaveScore, GetScore, TopMap, TopScores, TopPlayer, Respond
  <1>2. CASE w = server /\ req'[w].pc = "idle"
    <2>1. Checked(req[w].pc = "respond") /\ server # Nobody /\ place # 0
      BY <1>2, SeedAssumption DEF Serve, SeedInv
    <2>2. Content
      BY <1>1, <2>1 DEF ContentInv, GoodRun
    <2>3. req[w].pc = "respond"
      <3>1. ASSUME req[w].pc # "respond" PROVE FALSE
        <4>1. place' = 0 /\ result' = "failed"
          BY <2>1, <3>1 DEF Checked
        <4>2. QED
          BY <4>1 DEF GoodRun
      <3>2. QED
        BY <3>1
    <2>4. Respond(w)
      BY <1>1, <2>3 DEF Step, GetPlayer, GetGame, GenerateId, SaveName, SaveCity, SaveScoreMap,
             GetScoreMap, SaveScore, GetScore, TopMap, TopScores, TopPlayer
    <2>5. Checked(TRUE)
      BY <2>1, <2>3 DEF Checked
    <2>6. QED
      BY <1>2, <2>1, <2>2, <2>3, <2>4, <2>5, AnsweredContent
  <1>3. CASE ~(w = server /\ req'[w].pc = "idle")
    <2>1. UNCHANGED <<place, server, result>>
      BY <1>3 DEF Serve, client
    <2>2. Content
      BY <1>1, <2>1 DEF ContentInv, GoodRun
    <2>3. w = server /\ req'[w].pc # "idle"
      BY <1>1, <1>3, <2>2 DEF Content, Alone
    <2>4. Serving(w)
      <3>1. server # Nobody /\ place # 0 /\ place \in 0 .. Len(Script) /\ req[w].call = Script[place]
        BY <2>3, SeedAssumption DEF SeedInv, ITypeOK
      <3>2. place \in 1 .. Len(Script)
        BY <3>1, ListLengths
      <3>3. TypeInv' /\ \A v \in Workers \ {w} : req'[v] = req[v]
        BY <1>1, NextTypeInv, OthersWait DEF SeedInv, Next
      <3>4. QED
        BY <2>1, <2>2, <2>3, <3>1, <3>2, <3>3 DEF Serving
    <2>5. Op(w) \in Inserts /\ Op(w) \in OpsAt[req[w].pc]
      BY <2>4, ServingFacts
    <2>6. ~GetScore(w) /\ ~TopMap(w) /\ ~TopScores(w) /\ ~TopPlayer(w)
      <3>1. req[w].pc \notin {"getScore", "topMap", "topScores", "topPlayer"}
        BY <2>5 DEF OpsAt, Inserts
      <3>2. QED
        BY <3>1 DEF GetScore, TopMap, TopScores, TopPlayer
    <2>7. ~Respond(w)
      BY <2>3, Moved, IdlePc DEF SeedInv
    <2>8. QED
      BY <1>1, <2>4, <2>6, <2>7, LoadContent, GenerateContent, SaveNameContent, SaveCityContent,
         SaveScoreMapContent, SaveScoreContent DEF Step
  <1>4. QED
    BY <1>2, <1>3

\* A call that is cut off or lost ends the run, or the trust in it.
LEMMA CutContent ==
    ASSUME SeedInv, ContentInv, NEW w \in Workers, Cut(w) PROVE ContentInv'
  <1> SUFFICES ASSUME GoodRun' PROVE FALSE
    BY DEF ContentInv
  <1>1. Abort(w) /\ req[w].pc # "idle" /\ clean' = clean
    BY DEF Cut, Abort
  <1>2. CASE w # server /\ UNCHANGED <<client, trusted>>
    <2>1. Content
      BY <1>1, <1>2 DEF ContentInv, GoodRun, client
    <2>2. QED
      BY <1>1, <1>2, <2>1 DEF Content, Alone
  <1>3. CASE Checked(FALSE)
    BY <1>3 DEF Checked, GoodRun
  <1>4. CASE trusted' = FALSE
    BY <1>4 DEF GoodRun
  <1>5. QED
    BY <1>2, <1>3, <1>4 DEF Cut

LEMMA EndedContent ==
    ASSUME Flush \/ Lose PROVE ContentInv'
  BY DEF Flush, Lose, Checked, ContentInv, GoodRun

LEMMA NextContent == SeedInv /\ ContentInv /\ [INext]_ivars => ContentInv'
  <1> SUFFICES ASSUME SeedInv, ContentInv, [INext]_ivars PROVE ContentInv'
    OBVIOUS
  <1>1. CASE UNCHANGED ivars
    <2>1. UNCHANGED <<idGen, rows, scoreMap, scores, req, place, server, result, clean, trusted>>
      BY <1>1 DEF ivars, vars, redis, client, notes
    <2>2. \A pcs : At(pcs)' <=> At(pcs)
      BY <2>1 DEF At
    <2>3. \A p : (Written(p)' <=> Written(p)) /\ (Numbered(p)' <=> Numbered(p))
      BY <2>1, <2>2 DEF Written, Numbered
    <2>4. SUFFICES ASSUME Content PROVE Content'
      BY <2>1 DEF ContentInv, GoodRun
    <2>5. Alone'
      BY <2>1, <2>4 DEF Alone, Content
    <2>6. InHand'
      BY <2>1, <2>2, <2>4 DEF InHand, Content, Op, Pair
    <2>7. QED
      BY <2>1, <2>2, <2>3, <2>4, <2>5, <2>6, SameContent
  <1>2. QED
    BY <1>1, StartContent, EndedContent, ExecContent, ServeContent, CutContent DEF INext

LEMMA InitContent == IInit => ContentInv
  BY DEF IInit, ContentInv, GoodRun

\* A run that ends without an error, on a database that was empty, with
\* nobody else at work and no page taken for success, has put there what its
\* lists say, for lists of any length.
THEOREM Seeded == ISpec => []FinishedIsSeeded
  <1>1. SeedInv /\ ContentInv => FinishedIsSeeded
    <2> SUFFICES ASSUME SeedInv, ContentInv, result = "done", clean, trusted
                 PROVE  /\ idGen["games"] = Games /\ idGen["players"] = Players
                        /\ \A i \in 1 .. Games : <<"games", i, "name">> \in rows
                        /\ \A i \in 1 .. Players, c \in Columns : <<"players", i, c>> \in rows
                        /\ DOMAIN scoreMap = {ScoreMaps[i] : i \in 1 .. Len(ScoreMaps)}
                        /\ \A k \in Pairs, v \in Points :
                              Cardinality(Entries(k, v)) =
                                  Cardinality({i \in 1 .. Len(ScoreList) : ScoreList[i] = <<k, v>>})
      BY DEF FinishedIsSeeded, Entries
    <2>1. Content
      BY DEF ContentInv, GoodRun
    <2>2. place = 0
      BY DEF SeedInv, ITypeOK
    <2>3. \A p : Written(p) /\ Numbered(p)
      BY <2>2 DEF Written, Numbered
    <2>4. ASSUME NEW t \in Tables, NEW a \in Nat, NEW n \in Nat \ {0}, NEW columns,
                 Saved(t, a, n, columns)
          PROVE  idGen[t] = n /\ \A i \in 1 .. n, c \in columns : <<t, i, c>> \in rows
      <3>1. idGen[t] \in 0 .. n
        BY <2>4 DEF Saved
      <3>2. ASSUME NEW i \in 1 .. n
            PROVE  i <= idGen[t] /\ \A c \in columns : <<t, i, c>> \in rows
        <4>1. /\ Numbered(a + i) <=> i <= idGen[t]
              /\ Written(a + i) => \A c \in columns : <<t, i, c>> \in rows
          BY <2>4 DEF Saved
        <4>2. QED
          BY <2>3, <4>1
      <3>3. n <= idGen[t]
        BY <3>2
      <3>4. QED
        BY <3>1, <3>2, <3>3
    <2>5. idGen["games"] = Games /\ \A i \in 1 .. Games : <<"games", i, "name">> \in rows
      BY <2>1, <2>4, ListLengths DEF Content, GamesSaved, Tables
    <2>6. idGen["players"] = Players
          /\ \A i \in 1 .. Players, c \in Columns : <<"players", i, c>> \in rows
      BY <2>1, <2>4, ListLengths DEF Content, PlayersSaved, Tables
    <2>7. DOMAIN scoreMap = {ScoreMaps[i] : i \in 1 .. Len(ScoreMaps)}
      BY <2>1, <2>3 DEF Content, MapsSaved
    <2>8. \A k, v : Posts(k, v) = {i \in 1 .. Len(ScoreList) : ScoreList[i] = <<k, v>>}
      BY <2>3 DEF Posts
    <2>9. \A k \in Pairs, v \in Points : Cardinality(Entries(k, v)) = Cardinality(Posts(k, v))
      BY <2>1 DEF Content, ScoresSaved
    <2>10. QED
      BY <2>5, <2>6, <2>7, <2>8, <2>9
  <1>2. QED
    BY <1>1, InitSeed, NextSeed, InitContent, NextContent, PTL DEF ISpec
================================================================================
