---------------------------- MODULE SnapshotsProofs ----------------------------
(***************************************************************************)
(* Theorems about Snapshots for any number of workers, calls and crashes.  *)
(* Between crashes the steps are those of ScoreService, so the lemmas of   *)
(* BoardProofs about one step are used again; the invariants are new,      *)
(* because a crash takes back what theirs rest on.                         *)
(***************************************************************************)
EXTENDS Snapshots, BoardProofs

(***************************************************************************)
(* Types.  The snapshot is a database of the same types.                   *)
(***************************************************************************)
ImageOK(i) ==
    /\ i.idGen \in [Tables -> Nat]
    /\ i.rows \subseteq ({"games", "players"} \X Nat \X Columns)
    /\ DOMAIN i.scoreMap \subseteq Pairs
    /\ i.scoreMap \in [DOMAIN i.scoreMap -> ScoreIds]
    /\ DOMAIN i.scores \subseteq ScoreIds \X Dates
    /\ i.scores \in [DOMAIN i.scores -> Points]

SnapInv == TypeInv /\ STypeOK /\ ImageOK(disk)

\* A request served is a step of ScoreService; a late one stays late until
\* it ends, and nothing else becomes late.
LEMMA ServeFacts ==
    ASSUME SnapInv, NEW w \in Workers, Serve(w)
    PROVE  /\ Submit(w) \/ Step(w) \/ Abort(w)
           /\ TypeInv'
           /\ \A v \in Workers \ {w} : req'[v] = req[v]
           /\ late' \subseteq late
           /\ req'[w].pc # "idle" => (w \in late' <=> w \in late)
           /\ \A v \in Workers \ {w} : v \in late' <=> v \in late
           /\ req'[w].pc = "idle" => w \notin late'
           /\ UNCHANGED <<disk, crashes>>
  <1>1. Submit(w) \/ Step(w) \/ Abort(w)
    BY DEF Serve
  <1>2. TypeInv'
    BY <1>1, NextTypeInv DEF Next, SnapInv
  <1>3. \A v \in Workers \ {w} : req'[v] = req[v]
    BY <1>1, OthersWait DEF SnapInv
  <1>4. late' = IF req'[w].pc = "idle" THEN late \ {w} ELSE late
    BY DEF Serve
  <1>5. UNCHANGED <<disk, crashes>>
    BY DEF Serve
  <1>6. QED
    BY <1>1, <1>2, <1>3, <1>4, <1>5

LEMMA IdleFacts == RequestOK(Idle, posted) /\ Idle.pc = "idle"
  BY IdleOK DEF Idle

LEMMA CrashFacts ==
    ASSUME SnapInv, Crash
    PROVE  /\ TypeInv'
           /\ UNCHANGED <<mapped, posted, acked, disk, tainted>>
           /\ idGen' = disk.idGen /\ rows' = disk.rows
           /\ scoreMap' = disk.scoreMap /\ scores' = disk.scores
           /\ lost' = acked \ disk.saved
           /\ late' \subseteq {w \in Workers : req'[w].pc # "idle"}
           /\ \A w \in Workers \ late' : req'[w] = Idle
           /\ crashes' \in 0 .. MaxCrashes
  <1>1. /\ UNCHANGED <<mapped, posted, acked, disk, tainted, inserts>>
        /\ idGen' = disk.idGen /\ rows' = disk.rows
        /\ scoreMap' = disk.scoreMap /\ scores' = disk.scores
        /\ lost' = acked \ disk.saved
    BY DEF Crash, history
  <1>2. /\ late' \subseteq {w \in Workers : req[w].pc # "idle"}
        /\ req' = [w \in Workers |-> IF w \in late' THEN req[w] ELSE Idle]
    BY DEF Crash
  <1>3. \A w \in Workers : RequestOK(req'[w], posted)
    BY <1>2, IdleFacts, RequestFacts DEF SnapInv
  <1>4. req' \in [Workers -> Request] /\ Control'
    BY <1>1, <1>2, <1>3 DEF RequestOK, Control
  <1>5. TypeInv'
    BY <1>1, <1>4 DEF SnapInv, ImageOK, TypeInv, TypeOK
  <1>6. crashes' \in 0 .. MaxCrashes
    BY CrashAssumption DEF Crash, SnapInv, STypeOK
  <1>7. QED
    BY <1>1, <1>2, <1>5, <1>6

LEMMA ImageFacts ==
    /\ Image.idGen = idGen /\ Image.rows = rows /\ Image.scoreMap = scoreMap
    /\ Image.scores = scores /\ Image.saved = acked \ lost
    /\ NoFile.idGen = [t \in Tables |-> 0] /\ NoFile.rows = {} /\ NoFile.scoreMap = EmptyHash
    /\ NoFile.scores = EmptyHash /\ NoFile.saved = {}
  BY DEF Image, NoFile

LEMMA InitSnap == SInit => SnapInv
  <1> SUFFICES ASSUME SInit PROVE SnapInv
    OBVIOUS
  <1>1. TypeInv
    BY InitTypeInv DEF SInit
  <1>2. ImageOK(Image)
    BY <1>1, ImageFacts DEF ImageOK, TypeInv, TypeOK
  <1>3. ImageOK(NoFile)
    BY ImageFacts DEF ImageOK, EmptyHash
  <1>4. /\ disk \in {NoFile, Image} /\ crashes = 0 /\ lost = {} /\ late = {}
        /\ tainted = FALSE /\ acked = {}
    BY DEF SInit, Init
  <1>5. ImageOK(disk) /\ disk.saved = {}
    BY <1>2, <1>3, <1>4, ImageFacts
  <1>6. crashes \in 0 .. MaxCrashes
    BY <1>4, CrashAssumption
  <1>7. DOMAIN disk.scoreMap \subseteq Pairs /\ DOMAIN disk.scores \subseteq ScoreIds \X Dates
    BY <1>5 DEF ImageOK
  <1>8. disk.saved \subseteq acked /\ lost \subseteq acked
        /\ late \subseteq {w \in Workers : req[w].pc # "idle"} /\ tainted \in BOOLEAN
    BY <1>4, <1>5
  <1>9. QED
    BY <1>1, <1>5, <1>6, <1>7, <1>8 DEF SnapInv, STypeOK, TypeInv

LEMMA ServeSnap == ASSUME SnapInv, NEW w \in Workers, Serve(w) PROVE SnapInv'
  <1>1. TypeInv' /\ ImageOK(disk)'
    BY ServeFacts DEF SnapInv, ImageOK
  <1>2. acked \subseteq acked'
    BY ServeFacts DEF Step, Submit, Abort, GetPlayer, GetGame, GenerateId, SaveName, SaveCity,
         SaveColumn, SaveScoreMap, GetScoreMap, SaveScore, GetScore, TopMap, TopScores,
         TopPlayer, Respond, redis, history
  <1>3. late' \subseteq {v \in Workers : req'[v].pc # "idle"}
    BY ServeFacts DEF SnapInv, STypeOK
  <1>4. lost' \subseteq acked' /\ disk.saved \subseteq acked'
    <2>1. lost' = IF w \in late THEN lost \cup (acked' \ acked) ELSE lost
      BY DEF Serve
    <2>2. QED
      BY <1>2, <2>1 DEF SnapInv, STypeOK
  <1>5. tainted' \in BOOLEAN
    BY DEF Serve
  <1>6. QED
    BY <1>1, <1>3, <1>4, <1>5, ServeFacts DEF SnapInv, STypeOK, TypeInv, ImageOK

LEMMA NextSnap == SnapInv /\ [SNext]_svars => SnapInv'
  <1> SUFFICES ASSUME SnapInv, [SNext]_svars PROVE SnapInv'
    OBVIOUS
  <1>1. CASE Save
    <2>1. UNCHANGED <<vars, crashes, lost, late, tainted>> /\ disk' = Image
      BY <1>1 DEF Save
    <2>2. TypeInv'
      BY <2>1, NextTypeInv DEF SnapInv
    <2>3. UNCHANGED <<idGen, rows, scoreMap, scores, req, acked>>
      BY <2>1 DEF vars, redis, history
    <2>4. ImageOK(disk)' /\ disk'.saved = acked \ lost
      BY <2>1, <2>3, ImageFacts DEF SnapInv, ImageOK, TypeInv, TypeOK
    <2>5. QED
      BY <2>1, <2>2, <2>3, <2>4 DEF SnapInv, STypeOK, TypeInv, ImageOK
  <1>2. CASE Crash
    <2>1. ImageOK(disk)'
      BY <1>2, CrashFacts DEF SnapInv, ImageOK
    <2>2. QED
      BY <1>2, <2>1, CrashFacts DEF SnapInv, STypeOK, TypeInv, ImageOK
  <1>3. CASE UNCHANGED svars
    <2>1. UNCHANGED <<vars, disk, crashes, lost, late, tainted>>
      BY <1>3 DEF svars
    <2>2. TypeInv'
      BY <2>1, NextTypeInv DEF SnapInv
    <2>3. UNCHANGED <<req, acked>>
      BY <2>1 DEF vars, history
    <2>4. QED
      BY <2>1, <2>2, <2>3 DEF SnapInv, STypeOK, TypeInv, ImageOK
  <1>4. QED
    BY <1>1, <1>2, <1>3, ServeSnap DEF SNext

\* Over crashes too the state keeps its types: a snapshot is a database the
\* service can go on with, and only requests in flight are late.
THEOREM SnapTypes == SSpec => []STypeOK
  <1>1. SnapInv => STypeOK
    BY DEF SnapInv
  <1>2. QED
    BY <1>1, InitSnap, NextSnap, PTL DEF SSpec

----------------------------------------------------------------------------
(***************************************************************************)
(* Accepted scores.  An entry is kept in a database if it stands at its    *)
(* field and its pair leads to it, or history has an insert that took it   *)
(* away.  What holds of the database in use is copied to the snapshot and  *)
(* comes back with it; a request that did not begin before a crash may     *)
(* rely on what it has read.                                               *)
(***************************************************************************)
Stands(e, sc, ps) ==
    \/ \E f \in ps : f.id = e.id /\ f.date = e.date /\ f # e
    \/ <<e.id, e.date>> \in DOMAIN sc /\ sc[<<e.id, e.date>>] = e.score

Leads(k, i, sm, ms) ==
    \/ \E m \in ms : m[1] = k /\ m[2] # i
    \/ k \in DOMAIN sm /\ sm[k] = i

KeptIn(e, sm, sc, ms, ps) == Stands(e, sc, ps) /\ Leads(e.pair, e.id, sm, ms)

HoldsOK(r, sm, sc, ms, ps) ==
    /\ r.pc = "saveScore" => Leads(<<r.call.game, r.call.player>>, r.id, sm, ms)
    /\ r.call.op = "scoreInsert" => \A e \in r.answer : KeptIn(e, sm, sc, ms, ps)

SavedInv ==
    /\ \A e \in acked \ lost : KeptIn(e, scoreMap, scores, mapped, posted)
    /\ \A e \in disk.saved : KeptIn(e, disk.scoreMap, disk.scores, mapped, posted)
    /\ \A w \in Workers \ late : HoldsOK(req[w], scoreMap, scores, mapped, posted)

LEMMA IdleHolds == ASSUME NEW sm, NEW sc, NEW ms, NEW ps PROVE HoldsOK(Idle, sm, sc, ms, ps)
  BY DEF HoldsOK, Idle

\* What SaveScore and SaveScoreMap write, and that nobody else writes.
LEMMA Written ==
    ASSUME SnapInv, NEW w \in Workers, Submit(w) \/ Step(w) \/ Abort(w)
    PROVE  /\ SaveScore(w) =>
                \E d \in Dates : \E e \in {NewEntry(w, d)} :
                    /\ scores' = HSet(scores, <<e.id, d>>, e.score)
                    /\ posted' = posted \cup {e}
                    /\ req'[w] = Idle \/ (/\ req'[w].pc = "respond"
                                          /\ req'[w].call = req[w].call
                                          /\ req'[w].answer = {e})
                    /\ UNCHANGED <<scoreMap, mapped>>
           /\ SaveScoreMap(w) =>
                 /\ scoreMap' = HSet(scoreMap, Pair(w), req[w].id)
                 /\ mapped' = mapped \cup {<<Pair(w), req[w].id>>}
                 /\ UNCHANGED <<scores, posted>>
           /\ ~SaveScore(w) /\ ~SaveScoreMap(w) => UNCHANGED <<scoreMap, scores, mapped, posted>>
  <1>1. ASSUME SaveScore(w)
        PROVE  \E d \in Dates : \E e \in {NewEntry(w, d)} :
                    /\ scores' = HSet(scores, <<e.id, d>>, e.score)
                    /\ posted' = posted \cup {e}
                    /\ req'[w] = Idle \/ (/\ req'[w].pc = "respond"
                                          /\ req'[w].call = req[w].call
                                          /\ req'[w].answer = {e})
                    /\ UNCHANGED <<scoreMap, mapped>>
    <2>1. PICK d \in Dates :
            LET e == NewEntry(w, d)
            IN  /\ scores' = HSet(scores, <<e.id, d>>, e.score)
                /\ posted' = posted \cup {e}
                /\ CheckInserted(w, HSetReply(scores, <<e.id, d>>),
                                 [req[w] EXCEPT !.answer = {e}, !.pc = "respond"])
      BY <1>1 DEF SaveScore
    <2> DEFINE e == NewEntry(w, d)
               r == [req[w] EXCEPT !.answer = {e}, !.pc = "respond"]
    <2>2. req'[w] \in {r, Idle}
      BY <2>1 DEF CheckInserted, Proceed, SnapInv, TypeInv, TypeOK
    <2>3. r.pc = "respond" /\ r.call = req[w].call /\ r.answer = {e}
      BY RequestFacts DEF SnapInv, Request
    <2>4. UNCHANGED <<scoreMap, mapped>>
      BY <1>1 DEF SaveScore
    <2> HIDE DEF r
    <2>5. QED
      BY <2>1, <2>2, <2>3, <2>4
  <1>2. SaveScoreMap(w) =>
                 /\ scoreMap' = HSet(scoreMap, Pair(w), req[w].id)
                 /\ mapped' = mapped \cup {<<Pair(w), req[w].id>>}
                 /\ UNCHANGED <<scores, posted>>
    BY DEF SaveScoreMap
  <1>3. QED
    BY <1>1, <1>2, OtherStepsWriteNoScore

\* Nothing loses an entry or a lead without leaving a trace in history.
LEMMA StandsStay ==
    ASSUME SnapInv, NEW w \in Workers, Submit(w) \/ Step(w) \/ Abort(w),
           NEW e, Stands(e, scores, posted)
    PROVE  Stands(e, scores', posted')
  <1>1. CASE SaveScore(w)
    <2>a. PICK d \in Dates : \E f \in {NewEntry(w, d)} :
              /\ scores' = HSet(scores, <<f.id, d>>, f.score)
              /\ posted' = posted \cup {f}
      BY <1>1, Written
    <2>1. PICK f \in {NewEntry(w, d)} :
              /\ scores' = HSet(scores, <<f.id, d>>, f.score)
              /\ posted' = posted \cup {f}
      BY <2>a
    <2>2. f.date = d
      BY <2>1 DEF NewEntry
    <2>3. CASE f.id = e.id /\ f.date = e.date /\ f # e
      BY <2>1, <2>3 DEF Stands
    <2>4. CASE f = e
      BY <2>1, <2>2, <2>4 DEF Stands, HSet
    <2>5. CASE ~(f.id = e.id /\ f.date = e.date)
      <3>1. <<f.id, d>> # <<e.id, e.date>>
        BY <2>2, <2>5
      <3>2. <<e.id, e.date>> \in DOMAIN scores =>
                /\ <<e.id, e.date>> \in DOMAIN scores'
                /\ scores'[<<e.id, e.date>>] = scores[<<e.id, e.date>>]
        BY <2>1, <3>1 DEF HSet
      <3>3. QED
        BY <2>1, <3>2 DEF Stands
    <2>6. QED
      BY <2>3, <2>4, <2>5
  <1>2. CASE ~SaveScore(w)
    BY <1>2, Written DEF Stands
  <1>3. QED
    BY <1>1, <1>2

LEMMA LeadsStay ==
    ASSUME SnapInv, NEW w \in Workers, Submit(w) \/ Step(w) \/ Abort(w),
           NEW k, NEW i, Leads(k, i, scoreMap, mapped)
    PROVE  Leads(k, i, scoreMap', mapped')
  <1>1. CASE SaveScoreMap(w)
    <2>1. /\ scoreMap' = HSet(scoreMap, Pair(w), req[w].id)
          /\ mapped' = mapped \cup {<<Pair(w), req[w].id>>}
      BY <1>1, Written
    <2>2. CASE Pair(w) = k /\ req[w].id # i
      <3> DEFINE j == req[w].id
      <3> HIDE DEF j
      <3>1. <<k, j>> \in mapped' /\ <<k, j>>[1] = k /\ <<k, j>>[2] = j
        BY <2>1, <2>2 DEF j
      <3>2. j # i
        BY <2>2 DEF j
      <3>3. QED
        BY <3>1, <3>2 DEF Leads
    <2>3. CASE Pair(w) = k /\ req[w].id = i
      BY <2>1, <2>3 DEF Leads, HSet
    <2>4. CASE Pair(w) # k
      BY <2>1, <2>4 DEF Leads, HSet
    <2>5. QED
      BY <2>2, <2>3, <2>4
  <1>2. CASE ~SaveScoreMap(w)
    BY <1>2, Written DEF Leads
  <1>3. QED
    BY <1>1, <1>2

LEMMA KeptStays ==
    ASSUME SnapInv, NEW w \in Workers, Submit(w) \/ Step(w) \/ Abort(w), NEW e,
           KeptIn(e, scoreMap, scores, mapped, posted)
    PROVE  KeptIn(e, scoreMap', scores', mapped', posted')
  BY StandsStay, LeadsStay DEF KeptIn

LEMMA HoldsStay ==
    ASSUME SnapInv, NEW w \in Workers, Submit(w) \/ Step(w) \/ Abort(w), NEW r,
           HoldsOK(r, scoreMap, scores, mapped, posted)
    PROVE  HoldsOK(r, scoreMap', scores', mapped', posted')
  BY KeptStays, LeadsStay DEF HoldsOK

\* The request that w has after its step.
LEMMA StepHolds ==
    ASSUME SnapInv, NEW w \in Workers, Submit(w) \/ Step(w) \/ Abort(w),
           HoldsOK(req[w], scoreMap, scores, mapped, posted)
    PROVE  HoldsOK(req'[w], scoreMap', scores', mapped', posted')
  <1> DEFINE OK(r) == HoldsOK(r, scoreMap', scores', mapped', posted')
  <1>1. OK(req[w]) /\ OK(Idle)
    BY HoldsStay, IdleHolds
  <1>2. TypeInv /\ req[w] \in Request /\ Op(w) \in OpsAt[req[w].pc]
    BY RequestFacts DEF SnapInv
  <1>3. ASSUME NEW p, p # "saveScore", req'[w] = Goto(w, p) PROVE OK(req'[w])
    BY <1>1, <1>2, <1>3 DEF HoldsOK, Goto, Request
  <1>4. CASE Submit(w)
    <2>1. PICK c \in Calls : c.op \in AllOps /\ req'[w].pc = FirstStep[c.op] /\ req'[w].answer = {}
      BY <1>2, <1>4, Begun
    <2>2. FirstStep[c.op] # "saveScore"
      BY <2>1 DEF FirstStep, AllOps, Inserts, Reads
    <2>3. QED
      BY <2>1, <2>2 DEF HoldsOK
  <1>5. CASE GetPlayer(w) \/ GetGame(w) \/ SaveName(w) \/ TopPlayer(w)
    <2>1. /\ GetPlayer(w) => AfterPlayer[Op(w)] # "saveScore"
          /\ GetGame(w) => AfterGame[Op(w)] # "saveScore"
          /\ SaveName(w) => AfterName[Op(w)] # "saveScore"
          /\ TopNext(req[w].todo) # "saveScore"
      BY <1>2, TopNextFits
         DEF GetPlayer, GetGame, SaveName, OpsAt, AfterPlayer, AfterGame, AfterName
    <2>2. \/ req'[w] = Idle
          \/ GetPlayer(w) /\ req'[w] = Goto(w, AfterPlayer[Op(w)])
          \/ GetGame(w) /\ req'[w] = Goto(w, AfterGame[Op(w)])
          \/ SaveName(w) /\ req'[w] = Goto(w, AfterName[Op(w)])
          \/ TopPlayer(w) /\ req'[w] = Goto(w, TopNext(req[w].todo))
      BY <1>2, <1>5, Moved
    <2>3. QED
      BY <1>1, <1>3, <2>1, <2>2
  <1>6. CASE GetScore(w) \/ SaveCity(w) \/ SaveScoreMap(w) \/ Respond(w) \/ Abort(w)
    <2>1. req'[w] \in {Idle, Goto(w, "respond")}
      BY <1>2, <1>6, Moved
    <2>2. QED
      BY <1>1, <1>3, <2>1
  <1>7. CASE GenerateId(w)
    <2>1. AfterId[Op(w)] # "saveScore"
      BY <1>2, <1>7 DEF GenerateId, OpsAt, AfterId
    <2>2. /\ req'[w].pc = AfterId[Op(w)] /\ req'[w].call = req[w].call
          /\ req'[w].answer = req[w].answer
      BY <1>2, <1>7, MovedOn DEF Request
    <2>3. QED
      BY <1>1, <2>1, <2>2 DEF HoldsOK
  <1>8. CASE GetScoreMap(w)
    <2>1. CASE req'[w] = Idle
      BY <1>1, <2>1
    <2>2. CASE /\ Pair(w) \in DOMAIN scoreMap
               /\ req'[w] = [req[w] EXCEPT !.id = scoreMap[Pair(w)], !.pc = AfterMap[Op(w)]]
      <3>1. /\ req'[w].id = scoreMap[Pair(w)] /\ req'[w].call = req[w].call
            /\ req'[w].answer = req[w].answer
        BY <1>2, <2>2 DEF Request
      <3>2. Leads(Pair(w), scoreMap[Pair(w)], scoreMap, mapped)
        BY <2>2 DEF Leads
      <3>3. Leads(Pair(w), scoreMap[Pair(w)], scoreMap', mapped')
        BY <3>2, LeadsStay
      <3>4. QED
        BY <1>1, <3>1, <3>3 DEF HoldsOK, Pair
    <2>3. QED
      BY <1>2, <1>8, <2>1, <2>2, MovedOn
  <1>9. CASE SaveScore(w)
    <2> DEFINE Wrote(d, e) ==
              /\ scores' = HSet(scores, <<e.id, d>>, e.score)
              /\ posted' = posted \cup {e}
              /\ req'[w] = Idle \/ (/\ req'[w].pc = "respond"
                                    /\ req'[w].call = req[w].call
                                    /\ req'[w].answer = {e})
              /\ UNCHANGED <<scoreMap, mapped>>
    <2>a. PICK d \in Dates : \E e \in {NewEntry(w, d)} : Wrote(d, e)
      BY <1>9, Written
    <2>1. PICK e \in {NewEntry(w, d)} : Wrote(d, e)
      BY <2>a
    <2>2. e.date = d /\ e.id = req[w].id /\ e.pair = Pair(w)
      BY <2>1 DEF NewEntry
    <2>3. Stands(e, scores', posted')
      BY <2>1, <2>2 DEF Stands, HSet
    <2>4. Leads(e.pair, e.id, scoreMap', mapped')
      BY <1>1, <1>9, <2>2 DEF SaveScore, HoldsOK, Pair
    <2>5. QED
      BY <1>1, <2>1, <2>3, <2>4 DEF HoldsOK, KeptIn
  <1>10. CASE TopMap(w) \/ TopScores(w)
    <2>0. req[w].pc \in {"topMap", "topScores"}
      BY <1>10 DEF TopMap, TopScores
    <2>1. Op(w) = "getTop"
      BY <1>2, <2>0 DEF OpsAt
    <2>2. req'[w].pc # "saveScore" /\ req'[w].call = req[w].call
      <3>1. CASE TopMap(w)
        <4>1. PICK t \in {MapsOf(req[w].call.game)} :
                  req'[w] = [req[w] EXCEPT !.todo = t, !.pc = TopNext(t)]
          BY <1>2, <3>1, MovedTop
        <4>2. QED
          BY <1>2, <4>1, TopNextFits DEF Request
      <3>2. CASE TopScores(w)
        BY <1>2, <3>2, MovedTop DEF Request
      <3>3. QED
        BY <1>10, <3>1, <3>2
    <2>3. QED
      BY <2>1, <2>2 DEF HoldsOK, Op
  <1>11. QED
    BY <1>4, <1>5, <1>6, <1>7, <1>8, <1>9, <1>10 DEF Step

\* Only answers to requests add to the accepted entries.
LEMMA AckedStep ==
    ASSUME NEW w \in Workers, Submit(w) \/ Step(w) \/ Abort(w)
    PROVE  acked' = acked \/ (Op(w) = "scoreInsert" /\ acked' = acked \cup req[w].answer)
  BY DEF Step, Submit, Abort, GetPlayer, GetGame, GenerateId, SaveName, SaveCity, SaveColumn,
         SaveScoreMap, GetScoreMap, SaveScore, GetScore, TopMap, TopScores, TopPlayer,
         Respond, redis, history

LEMMA ServeSaved == ASSUME SnapInv, SavedInv, NEW w \in Workers, Serve(w) PROVE SavedInv'
  <1>1. Submit(w) \/ Step(w) \/ Abort(w)
    BY DEF Serve
  <1>2. mapped \subseteq mapped' /\ posted \subseteq posted' /\ disk' = disk
    BY <1>1, Grows DEF Serve
  <1>3. lost' = IF w \in late THEN lost \cup (acked' \ acked) ELSE lost
    BY DEF Serve
  <1>4. ASSUME NEW e \in acked' \ lost'
        PROVE  KeptIn(e, scoreMap', scores', mapped', posted')
    <2>1. CASE e \in acked
      <3>1. e \in acked \ lost
        BY <1>3, <1>4, <2>1
      <3>2. KeptIn(e, scoreMap, scores, mapped, posted)
        BY <3>1 DEF SavedInv
      <3>3. QED
        BY <1>1, <3>2, KeptStays
    <2>2. CASE e \notin acked
      <3>1. w \notin late /\ Op(w) = "scoreInsert" /\ e \in req[w].answer
        BY <1>1, <1>3, <1>4, <2>2, AckedStep
      <3>2. KeptIn(e, scoreMap, scores, mapped, posted)
        BY <3>1 DEF SavedInv, HoldsOK, Op
      <3>3. QED
        BY <1>1, <3>2, KeptStays
    <2>3. QED
      BY <2>1, <2>2
  <1>5. ASSUME NEW e \in disk'.saved
        PROVE  KeptIn(e, disk'.scoreMap, disk'.scores, mapped', posted')
    BY <1>2, <1>5 DEF SavedInv, KeptIn, Stands, Leads
  <1>6. ASSUME NEW v \in Workers \ late'
        PROVE  HoldsOK(req'[v], scoreMap', scores', mapped', posted')
    <2>1. CASE v # w
      <3>1. req'[v] = req[v] /\ v \notin late
        BY <2>1, ServeFacts
      <3>2. HoldsOK(req[v], scoreMap, scores, mapped, posted)
        BY <3>1 DEF SavedInv
      <3>3. QED
        BY <1>1, <3>1, <3>2, HoldsStay
    <2>2. CASE v = w /\ w \notin late
      <3>1. HoldsOK(req[w], scoreMap, scores, mapped, posted)
        BY <2>2 DEF SavedInv
      <3>2. QED
        BY <1>1, <2>2, <3>1, StepHolds
    <2>3. CASE v = w /\ w \in late
      <3>1. req'[w].pc = "idle"
        BY <1>6, <2>3, ServeFacts
      <3>2. req'[w].call.op = "none"
        BY <3>1, ServeFacts DEF TypeInv, Control, RequestOK, OpsAt
      <3>3. QED
        BY <2>3, <3>1, <3>2 DEF HoldsOK
    <2>4. QED
      BY <2>1, <2>2, <2>3
  <1>7. QED
    BY <1>4, <1>5, <1>6 DEF SavedInv

LEMMA NextSaved == SnapInv /\ SavedInv /\ [SNext]_svars => SavedInv'
  <1> SUFFICES ASSUME SnapInv, SavedInv, [SNext]_svars PROVE SavedInv'
    OBVIOUS
  <1>1. CASE Save
    <2>1. /\ UNCHANGED <<scoreMap, scores, mapped, posted, acked, req, lost, late>>
          /\ disk' = Image
      BY <1>1 DEF Save, vars, redis, history
    <2>2. disk'.saved = acked \ lost /\ disk'.scoreMap = scoreMap /\ disk'.scores = scores
      BY <2>1, ImageFacts
    <2>3. QED
      BY <2>1, <2>2 DEF SavedInv
  <1>2. CASE Crash
    <2>1. acked' \ lost' \subseteq disk.saved
      BY <1>2, CrashFacts
    <2>2. \A w \in Workers \ late' : HoldsOK(req'[w], scoreMap', scores', mapped', posted')
      BY <1>2, CrashFacts, IdleHolds
    <2>3. /\ UNCHANGED <<mapped, posted, disk>>
          /\ scoreMap' = disk.scoreMap /\ scores' = disk.scores
      BY <1>2, CrashFacts
    <2>4. QED
      BY <2>1, <2>2, <2>3 DEF SavedInv
  <1>3. CASE UNCHANGED svars
    BY <1>3 DEF svars, vars, redis, history, SavedInv
  <1>4. QED
    BY <1>1, <1>2, <1>3, ServeSaved DEF SNext

LEMMA InitSaved == SInit => SavedInv
  <1> SUFFICES ASSUME SInit PROVE SavedInv
    OBVIOUS
  <1>1. acked = {} /\ lost = {} /\ disk.saved = {} /\ \A w \in Workers : req[w] = Idle
    BY ImageFacts DEF SInit, Init
  <1>2. QED
    BY <1>1, IdleHolds DEF SavedInv

\* After any number of crashes the scores answered before the snapshot, and
\* those answered since to requests that began since, are still there, with
\* the exceptions there are without crashes.
THEOREM SavedScoresKept == SSpec => []SavedKept
  <1>1. SavedInv => SavedKept
    BY DEF SavedInv, KeptIn, Stands, Leads, SavedKept, Overwritten, Repointed
  <1>2. QED
    BY <1>1, InitSnap, NextSnap, InitSaved, NextSaved, PTL DEF SSpec

----------------------------------------------------------------------------
(***************************************************************************)
(* Mixed leaderboards.  A claim is a pair with a score id it may write     *)
(* scores or a map under: those of the score maps, and those in the hands  *)
(* of requests that are not late.  As long as no late request has written, *)
(* a claim of the database in use, and of the snapshot, lies at or below   *)
(* its counter, has no scores of others under it, and shares its id with   *)
(* no other pair.  The counter comes back together with the maps, so that  *)
(* the ids given a second time are those no claim is left of.              *)
(***************************************************************************)
HoldsId(r) == r.pc \in {"saveScoreMap", "saveScore"}

ClaimOf(r) == <<<<r.call.game, r.call.player>>, r.id>>

Claims(sm, rq, W) ==
    {<<k, sm[k]>> : k \in DOMAIN sm} \cup {ClaimOf(rq[w]) : w \in {v \in W : HoldsId(rq[v])}}

OwnUnder(c, sc, ps) ==
    \A f \in DOMAIN sc :
        f[1] = c[2] => [pair |-> c[1], id |-> c[2], date |-> f[2], score |-> sc[f]] \in ps

Firm(C, g, sc, ps) ==
    /\ \A c \in C : c[2] \in 0 .. g /\ OwnUnder(c, sc, ps)
    /\ \A c, d \in C : c[2] = d[2] => c[1] = d[1]
    /\ \A f \in DOMAIN sc : f[1] \in 0 .. g

RefsIn(rs, sm) == \A k \in DOMAIN sm : Has(rs, "games", k[1]) /\ Has(rs, "players", k[2])

RefsOK(r, rs) ==
    /\ r.call.op = "scoreMapInsert" /\ r.pc \in {"getGame", "generateId", "saveScoreMap"} =>
          Has(rs, "players", r.call.player)
    /\ r.call.op = "scoreMapInsert" /\ r.pc \in {"generateId", "saveScoreMap"} =>
          Has(rs, "games", r.call.game)

FirmNow ==
    /\ Firm(Claims(scoreMap, req, Workers \ late), idGen["scoreMap"], scores, posted)
    /\ RefsIn(rows, scoreMap)
    /\ \A w \in Workers \ late : RefsOK(req[w], rows)

FirmDisk ==
    /\ Firm(Claims(disk.scoreMap, req, {}), disk.idGen["scoreMap"], disk.scores, posted)
    /\ RefsIn(disk.rows, disk.scoreMap)

FirmInv == ~tainted => FirmNow /\ FirmDisk

\* Fewer claims, a higher counter and a longer history.
LEMMA FirmWeaker ==
    ASSUME NEW C, NEW D \in SUBSET C, NEW g \in Nat, NEW h \in Nat, g <= h,
           NEW sc, NEW ps, NEW qs, ps \subseteq qs, Firm(C, g, sc, ps)
    PROVE  Firm(D, h, sc, qs)
  BY DEF Firm, OwnUnder

\* An id above the counter is claimed.
LEMMA FirmClaim ==
    ASSUME NEW C, NEW D, NEW g \in Nat, NEW c, NEW sc, NEW ps, Firm(C, g, sc, ps),
           c[2] = g + 1, D \subseteq C \cup {c}
    PROVE  Firm(D, g + 1, sc, ps)
  <1>1. \A d \in C : d[2] \in 0 .. g
    BY DEF Firm
  <1>2. \A f \in DOMAIN sc : f[1] \in 0 .. g
    BY DEF Firm
  <1>3. OwnUnder(c, sc, ps)
    BY <1>2 DEF OwnUnder
  <1>4. \A d \in D : d[2] \in 0 .. g + 1 /\ OwnUnder(d, sc, ps)
    BY <1>1, <1>3 DEF Firm
  <1>5. ASSUME NEW a \in D, NEW b \in D, a[2] = b[2] PROVE a[1] = b[1]
    <2>1. CASE a \in C /\ b \in C
      BY <2>1, <1>5 DEF Firm
    <2>2. CASE a = c /\ b = c
      BY <2>2
    <2>3. CASE (a \in C /\ b = c) \/ (a = c /\ b \in C)
      BY <2>3, <1>1, <1>5
    <2>4. QED
      BY <2>1, <2>2, <2>3
  <1>6. \A f \in DOMAIN sc : f[1] \in 0 .. g + 1
    BY <1>2
  <1>7. QED
    BY <1>4, <1>5, <1>6 DEF Firm

\* A score is written under a claim and recorded for its pair.
LEMMA FirmPosted ==
    ASSUME NEW C, NEW D \in SUBSET C, NEW g \in Nat, NEW sc, NEW ps, Firm(C, g, sc, ps),
           NEW c \in C, NEW d, NEW v
    PROVE  Firm(D, g, HSet(sc, <<c[2], d>>, v),
                ps \cup {[pair |-> c[1], id |-> c[2], date |-> d, score |-> v]})
  <1> DEFINE x == <<c[2], d>>
             e == [pair |-> c[1], id |-> c[2], date |-> d, score |-> v]
             new == HSet(sc, x, v)
  <1>1. DOMAIN new = DOMAIN sc \cup {x} /\ new[x] = v
        /\ \A f \in DOMAIN sc \ {x} : new[f] = sc[f]
    BY DEF HSet
  <1>2. x[1] = c[2] /\ x[2] = d /\ c[2] \in 0 .. g
    BY DEF Firm
  <1> HIDE DEF new, x
  <1>3. ASSUME NEW a \in D PROVE a[2] \in 0 .. g /\ OwnUnder(a, new, ps \cup {e})
    <2>1. a[2] \in 0 .. g /\ OwnUnder(a, sc, ps)
      BY DEF Firm
    <2> SUFFICES ASSUME NEW f \in DOMAIN new, f[1] = a[2]
                 PROVE  [pair |-> a[1], id |-> a[2], date |-> f[2], score |-> new[f]]
                            \in ps \cup {e}
      BY <2>1 DEF OwnUnder
    <2>2. CASE f = x
      <3>1. a[2] = c[2] /\ a[1] = c[1]
        BY <2>2, <1>2 DEF Firm
      <3>2. [pair |-> a[1], id |-> a[2], date |-> f[2], score |-> new[f]] = e
        BY <2>2, <3>1, <1>1, <1>2
      <3>3. QED
        BY <3>2
    <2>3. CASE f # x
      BY <2>1, <2>3, <1>1 DEF OwnUnder
    <2>4. QED
      BY <2>2, <2>3
  <1>4. \A f \in DOMAIN new : f[1] \in 0 .. g
    BY <1>1, <1>2 DEF Firm
  <1>5. \A a, b \in D : a[2] = b[2] => a[1] = b[1]
    BY DEF Firm
  <1>6. Firm(D, g, new, ps \cup {e})
    BY <1>3, <1>4, <1>5 DEF Firm
  <1>7. QED
    BY <1>6 DEF new, x

LEMMA ClaimsIn ==
    ASSUME NEW sm, NEW rq, NEW W, NEW c
    PROVE  c \in Claims(sm, rq, W) <=>
               \/ \E k \in DOMAIN sm : c = <<k, sm[k]>>
               \/ \E w \in W : HoldsId(rq[w]) /\ c = ClaimOf(rq[w])
  BY DEF Claims

LEMMA ClaimsKept ==
    ASSUME NEW sm, NEW rq, NEW W, NEW rq2, NEW W2,
           \A w \in W2 : HoldsId(rq2[w]) => w \in W /\ rq2[w] = rq[w]
    PROVE  Claims(sm, rq2, W2) \subseteq Claims(sm, rq, W)
  BY ClaimsIn

LEMMA CounterGrows ==
    ASSUME SnapInv, NEW w \in Workers, Submit(w) \/ Step(w) \/ Abort(w)
    PROVE  /\ idGen["scoreMap"] \in Nat /\ idGen'["scoreMap"] \in Nat
           /\ idGen["scoreMap"] <= idGen'["scoreMap"]
           /\ ~GenerateId(w) => UNCHANGED idGen
  <1>1. idGen \in [Tables -> Nat] /\ "scoreMap" \in Tables
    BY DEF SnapInv, TypeInv, TypeOK, Tables
  <1>2. ~GenerateId(w) => UNCHANGED idGen
    BY DEF Step, Submit, Abort, GetPlayer, GetGame, SaveName, SaveCity, SaveColumn,
           SaveScoreMap, GetScoreMap, SaveScore, GetScore, TopMap, TopScores, TopPlayer,
           Respond, redis
  <1>3. CASE GenerateId(w)
    <2> DEFINE t == TableOf[Op(w)]
    <2>1. Op(w) \in {"playerInsert", "gameInsert", "scoreMapInsert"}
      BY <1>3, RequestFacts DEF SnapInv, GenerateId, OpsAt
    <2>2. t \in Tables
      BY <2>1 DEF TableOf, Tables
    <2>3. idGen' = [idGen EXCEPT ![t] = @ + 1]
      BY <1>3 DEF GenerateId
    <2> HIDE DEF t
    <2>4. idGen'["scoreMap"] \in {idGen["scoreMap"], idGen["scoreMap"] + 1}
      BY <1>1, <2>2, <2>3
    <2>5. QED
      BY <1>1, <1>3, <2>4
  <1>4. QED
    BY <1>1, <1>2, <1>3

\* What a ScoreMap.insert has loaded exists when it writes.
LEMMA StepRefs ==
    ASSUME SnapInv, NEW w \in Workers, Submit(w) \/ Step(w) \/ Abort(w), RefsOK(req[w], rows)
    PROVE  RefsOK(req'[w], rows')
  <1>1. RefsOK(req[w], rows') /\ RefsOK(Idle, rows')
    BY Grows DEF RefsOK, Has, Idle
  <1>2. TypeInv /\ req[w] \in Request /\ Op(w) \in OpsAt[req[w].pc]
    BY RequestFacts DEF SnapInv
  <1>3. ASSUME NEW p, p \notin {"getGame", "generateId", "saveScoreMap"}, req'[w] = Goto(w, p)
        PROVE  RefsOK(req'[w], rows')
    BY <1>2, <1>3 DEF RefsOK, Goto, Request
  <1>4. CASE Submit(w)
    <2>1. PICK c \in Calls : c.op \in AllOps /\ req'[w].pc = FirstStep[c.op] /\ req'[w].call = c
      BY <1>2, <1>4, Begun
    <2>2. c.op = "scoreMapInsert" => FirstStep[c.op] = "getPlayer"
      BY DEF FirstStep
    <2>3. QED
      BY <2>1, <2>2 DEF RefsOK
  <1>5. CASE GetPlayer(w)
    <2>1. AfterPlayer["scoreMapInsert"] = "getGame"
      BY DEF AfterPlayer
    <2>2. \/ req'[w] = Idle
          \/ Has(rows, "players", req[w].call.player) /\ req'[w] = Goto(w, AfterPlayer[Op(w)])
      BY <1>2, <1>5, Moved DEF Exists, Has
    <2>3. CASE /\ Has(rows, "players", req[w].call.player)
               /\ req'[w] = Goto(w, AfterPlayer[Op(w)])
      <3>1. req'[w].pc = AfterPlayer[Op(w)] /\ req'[w].call = req[w].call
        BY <1>2, <2>3 DEF Goto, Request
      <3>2. Has(rows', "players", req[w].call.player)
        BY <2>3, Grows DEF Has
      <3>3. QED
        BY <2>1, <3>1, <3>2 DEF RefsOK, Op
    <2>4. QED
      BY <1>1, <2>2, <2>3
  <1>6. CASE GetGame(w)
    <2>1. \/ req'[w] = Idle
          \/ Has(rows, "games", req[w].call.game) /\ req'[w] = Goto(w, AfterGame[Op(w)])
      BY <1>2, <1>6, Moved DEF Exists, Has
    <2>2. CASE /\ Has(rows, "games", req[w].call.game)
               /\ req'[w] = Goto(w, AfterGame[Op(w)])
      <3>1. req'[w].call = req[w].call /\ req[w].pc = "getGame"
        BY <1>2, <1>6, <2>2 DEF Goto, Request, GetGame
      <3>2. Has(rows', "games", req[w].call.game)
        BY <2>2, Grows DEF Has
      <3>3. QED
        BY <1>1, <3>1, <3>2 DEF RefsOK
    <2>3. QED
      BY <1>1, <2>1, <2>2
  <1>7. CASE GenerateId(w)
    <2>1. req'[w].call = req[w].call
      BY <1>2, <1>7, MovedOn DEF Request
    <2>2. req[w].pc = "generateId"
      BY <1>7 DEF GenerateId
    <2>3. QED
      BY <1>1, <2>1, <2>2 DEF RefsOK
  <1>8. CASE SaveName(w)
    <2>1. Op(w) # "scoreMapInsert"
      BY <1>2, <1>8 DEF SaveName, OpsAt
    <2>2. req'[w] = Idle \/ req'[w].call = req[w].call
      BY <1>2, <1>8, Moved DEF Goto, Request
    <2>3. QED
      BY <1>1, <2>1, <2>2 DEF RefsOK, Op
  <1>9. CASE GetScore(w) \/ SaveCity(w) \/ SaveScoreMap(w) \/ Respond(w) \/ Abort(w)
    <2>1. req'[w] \in {Idle, Goto(w, "respond")}
      BY <1>2, <1>9, Moved
    <2>2. QED
      BY <1>1, <1>3, <2>1
  <1>10. CASE TopPlayer(w)
    <2>1. req'[w] \in {Idle, Goto(w, TopNext(req[w].todo))}
      BY <1>2, <1>10, Moved
    <2>2. QED
      BY <1>1, <1>3, <2>1, TopNextFits
  <1>11. CASE GetScoreMap(w) \/ SaveScore(w) \/ TopMap(w) \/ TopScores(w)
    <2>1. req[w].pc \in {"getScoreMap", "saveScore", "topMap", "topScores"}
      BY <1>11 DEF GetScoreMap, SaveScore, TopMap, TopScores
    <2>2. Op(w) # "scoreMapInsert"
      BY <1>2, <2>1 DEF OpsAt
    <2>3. CASE GetScoreMap(w) \/ SaveScore(w)
      <3>1. req'[w] = Idle \/ req'[w].call = req[w].call
        BY <1>2, <2>3, MovedOn DEF Request
      <3>2. QED
        BY <1>1, <2>2, <3>1 DEF RefsOK, Op
    <2>4. CASE TopMap(w)
      <3>1. PICK t \in {MapsOf(req[w].call.game)} :
                req'[w] = [req[w] EXCEPT !.todo = t, !.pc = TopNext(t)]
        BY <1>2, <2>4, MovedTop
      <3>2. req'[w].call = req[w].call
        BY <1>2, <3>1 DEF Request
      <3>3. QED
        BY <2>2, <3>2 DEF RefsOK, Op
    <2>5. CASE TopScores(w)
      <3>1. req'[w].call = req[w].call
        BY <1>2, <2>5, MovedTop DEF Request
      <3>2. QED
        BY <2>2, <3>1 DEF RefsOK, Op
    <2>6. QED
      BY <1>11, <2>3, <2>4, <2>5
  <1>12. QED
    BY <1>4, <1>5, <1>6, <1>7, <1>8, <1>9, <1>10, <1>11 DEF Step

\* A step that leaves the maps and the scores alone gives no claim but an id
\* above the counter, or one of the maps, to its request.
LEMMA QuietFirm ==
    ASSUME SnapInv, FirmNow, NEW w \in Workers \ late, Submit(w) \/ Step(w) \/ Abort(w),
           ~SaveScore(w), ~SaveScoreMap(w), late' \subseteq late,
           \A v \in Workers \ {w} : v \in late' <=> v \in late
    PROVE  Firm(Claims(scoreMap', req', Workers \ late'), idGen'["scoreMap"], scores', posted')
  <1> DEFINE C == Claims(scoreMap, req, Workers \ late)
             D == Claims(scoreMap, req', Workers \ late')
             g == idGen["scoreMap"]
             h == idGen'["scoreMap"]
  <1>1. TypeInv /\ req[w] \in Request /\ Op(w) \in OpsAt[req[w].pc]
    BY RequestFacts DEF SnapInv
  <1>2. /\ \A v \in Workers \ {w} : req'[v] = req[v]
        /\ UNCHANGED <<scoreMap, scores, posted>>
    BY <1>1, OthersWait, OtherStepsWriteNoScore
  <1>3. g \in Nat /\ h \in Nat /\ g <= h
    BY CounterGrows
  <1>4. Firm(C, g, scores, posted)
    BY DEF FirmNow
  <1>5. SUFFICES Firm(D, h, scores, posted)
    BY <1>2
  <1>6. ASSUME ~HoldsId(req'[w]) PROVE D \subseteq C
    BY <1>2, <1>6, ClaimsKept
  <1>7. D \subseteq C \cup {ClaimOf(req'[w])}
    <2>1. ASSUME NEW d \in D PROVE d \in C \/ d = ClaimOf(req'[w])
      <3>1. \/ \E k \in DOMAIN scoreMap : d = <<k, scoreMap[k]>>
            \/ \E v \in Workers \ late' : HoldsId(req'[v]) /\ d = ClaimOf(req'[v])
        BY <2>1, ClaimsIn
      <3>2. QED
        BY <1>2, <3>1, ClaimsIn
    <2>2. QED
      BY <2>1
  <1> HIDE DEF C, D, g, h
  <1>8. ASSUME D \subseteq C PROVE Firm(D, h, scores, posted)
    BY <1>3, <1>4, <1>8, FirmWeaker
  <1>9. CASE GenerateId(w)
    <2>1. CASE ~HoldsId(req'[w])
      BY <2>1, <1>6, <1>8
    <2>2. CASE HoldsId(req'[w])
      <3>1. req'[w].pc = AfterId[Op(w)] /\ req'[w].id = idGen[TableOf[Op(w)]] + 1
        BY <1>1, <1>9, MovedOn DEF Request
      <3>2. Op(w) \in {"playerInsert", "gameInsert", "scoreMapInsert"}
        BY <1>1, <1>9 DEF GenerateId, OpsAt
      <3>3. TableOf[Op(w)] = "scoreMap"
        BY <2>2, <3>1, <3>2 DEF AfterId, TableOf, HoldsId
      <3>4. idGen' = [idGen EXCEPT !["scoreMap"] = @ + 1]
        BY <1>9, <3>3 DEF GenerateId
      <3>5. h = g + 1
        BY <3>4, <1>1 DEF TypeInv, TypeOK, Tables, g, h
      <3>6. ClaimOf(req'[w])[2] = g + 1
        BY <3>1, <3>3 DEF ClaimOf, g
      <3>7. QED
        BY <1>3, <1>4, <1>7, <3>5, <3>6, FirmClaim
    <2>3. QED
      BY <2>1, <2>2
  <1>10. CASE GetScoreMap(w)
    <2>1. CASE req'[w] = Idle
      <3>1. ~HoldsId(req'[w])
        BY <2>1 DEF HoldsId, Idle
      <3>2. QED
        BY <3>1, <1>6, <1>8
    <2>2. CASE /\ Pair(w) \in DOMAIN scoreMap
               /\ req'[w] = [req[w] EXCEPT !.id = scoreMap[Pair(w)], !.pc = AfterMap[Op(w)]]
      <3>1. req'[w].call = req[w].call /\ req'[w].id = scoreMap[Pair(w)]
        BY <1>1, <2>2 DEF Request
      <3>2. ClaimOf(req'[w]) = <<Pair(w), scoreMap[Pair(w)]>>
        BY <3>1 DEF ClaimOf, Pair
      <3>3. ClaimOf(req'[w]) \in C
        BY <2>2, <3>2, ClaimsIn DEF C
      <3>4. QED
        BY <1>7, <1>8, <3>3
    <2>3. QED
      BY <1>1, <1>10, <2>1, <2>2, MovedOn
  <1>11. CASE ~GenerateId(w) /\ ~GetScoreMap(w)
    <2>1. ~HoldsId(req'[w])
      BY <1>1, <1>11, HarmlessSteps DEF Step, Harmless, HoldsId
    <2>2. QED
      BY <2>1, <1>6, <1>8
  <1>12. QED
    BY <1>9, <1>10, <1>11

LEMMA SaveScoreMapFirm ==
    ASSUME SnapInv, FirmNow, NEW w \in Workers \ late, SaveScoreMap(w), late' \subseteq late,
           \A v \in Workers \ {w} : v \in late' <=> v \in late
    PROVE  /\ Firm(Claims(scoreMap', req', Workers \ late'), idGen'["scoreMap"], scores', posted')
           /\ RefsIn(rows', scoreMap')
  <1> DEFINE C == Claims(scoreMap, req, Workers \ late)
             D == Claims(scoreMap', req', Workers \ late')
             k == Pair(w)
             i == req[w].id
  <1>1. /\ \A v \in Workers \ {w} : req'[v] = req[v]
        /\ scoreMap' = HSet(scoreMap, k, i)
        /\ UNCHANGED <<idGen, rows, scores, posted>>
    BY OthersWait DEF SnapInv, Step, SaveScoreMap
  <1>2. <<k, i>> \in C
    <2>1. HoldsId(req[w]) /\ ClaimOf(req[w]) = <<k, i>>
      BY DEF SaveScoreMap, HoldsId, ClaimOf, Pair
    <2>2. QED
      BY <2>1, ClaimsIn
  <1>3. ~HoldsId(req'[w])
    <2>1. req'[w] \in {Idle, Goto(w, "respond")}
      BY Moved DEF SnapInv
    <2>2. QED
      BY <2>1, RequestFacts DEF SnapInv, Goto, Request, Idle, HoldsId
  <1>4. Has(rows, "games", k[1]) /\ Has(rows, "players", k[2])
    <2>1. req[w].pc = "saveScoreMap" /\ Op(w) = "scoreMapInsert"
      BY RequestFacts DEF SnapInv, SaveScoreMap, OpsAt
    <2>2. QED
      BY <2>1 DEF FirmNow, RefsOK, Op, Pair
  <1>5. idGen["scoreMap"] \in Nat
    BY CounterGrows DEF Step
  <1> HIDE DEF k, i
  <1>6. \A j \in DOMAIN scoreMap' : \/ j = k /\ scoreMap'[j] = i
                                    \/ j \in DOMAIN scoreMap /\ scoreMap'[j] = scoreMap[j]
    BY <1>1 DEF HSet
  <1>7. D \subseteq C
    <2>1. ASSUME NEW d \in D PROVE d \in C
      <3>1. \/ \E j \in DOMAIN scoreMap' : d = <<j, scoreMap'[j]>>
            \/ \E v \in Workers \ late' : HoldsId(req'[v]) /\ d = ClaimOf(req'[v])
        BY <2>1, ClaimsIn
      <3>2. CASE \E j \in DOMAIN scoreMap' : d = <<j, scoreMap'[j]>>
        BY <3>2, <1>2, <1>6, ClaimsIn
      <3>3. CASE \E v \in Workers \ late' : HoldsId(req'[v]) /\ d = ClaimOf(req'[v])
        BY <3>3, <1>1, <1>3, ClaimsIn
      <3>4. QED
        BY <3>1, <3>2, <3>3
    <2>2. QED
      BY <2>1
  <1> HIDE DEF C, D
  <1>8. Firm(D, idGen["scoreMap"], scores, posted)
    BY <1>5, <1>7, FirmWeaker DEF FirmNow, C
  <1>9. RefsIn(rows', scoreMap')
    BY <1>1, <1>4, <1>6 DEF FirmNow, RefsIn
  <1>10. QED
    BY <1>1, <1>8, <1>9 DEF D

LEMMA SaveScoreFirm ==
    ASSUME SnapInv, FirmNow, NEW w \in Workers \ late, SaveScore(w), late' \subseteq late,
           \A v \in Workers \ {w} : v \in late' <=> v \in late
    PROVE  Firm(Claims(scoreMap', req', Workers \ late'), idGen'["scoreMap"], scores', posted')
  <1> DEFINE C == Claims(scoreMap, req, Workers \ late)
             D == Claims(scoreMap, req', Workers \ late')
             c == ClaimOf(req[w])
             v == req[w].call.score
  <1>1. \A u \in Workers \ {w} : req'[u] = req[u]
    BY OthersWait DEF SnapInv, Step
  <1>2. UNCHANGED <<idGen, scoreMap>>
    BY DEF SaveScore
  <1>3. PICK d \in Dates : \E e \in {NewEntry(w, d)} :
            scores' = HSet(scores, <<e.id, d>>, e.score) /\ posted' = posted \cup {e}
    BY Written DEF Step
  <1>4. PICK e \in {NewEntry(w, d)} :
            scores' = HSet(scores, <<e.id, d>>, e.score) /\ posted' = posted \cup {e}
    BY <1>3
  <1>5. /\ e = [pair |-> c[1], id |-> c[2], date |-> d, score |-> v]
        /\ e.id = c[2] /\ e.score = v
    BY DEF NewEntry, ClaimOf, Pair
  <1>6. c \in C
    <2>1. HoldsId(req[w])
      BY DEF SaveScore, HoldsId
    <2>2. QED
      BY <2>1, ClaimsIn
  <1>7. ~HoldsId(req'[w])
    <2>1. req'[w].pc \in {"idle", "respond"}
      BY <1>3, Written, IdleFacts DEF Step
    <2>2. QED
      BY <2>1 DEF HoldsId
  <1>8. D \in SUBSET C
    BY <1>1, <1>7, ClaimsKept
  <1>9. idGen["scoreMap"] \in Nat
    BY CounterGrows DEF Step
  <1>10. Firm(C, idGen["scoreMap"], scores, posted)
    BY DEF FirmNow
  <1> HIDE DEF C, D, c, v
  <1>11. Firm(D, idGen["scoreMap"], HSet(scores, <<c[2], d>>, v),
              posted \cup {[pair |-> c[1], id |-> c[2], date |-> d, score |-> v]})
    BY <1>6, <1>8, <1>9, <1>10, FirmPosted
  <1>12. QED
    BY <1>2, <1>4, <1>5, <1>11 DEF D

\* A late request that has not written gives ids away at most.
LEMMA LateFirm ==
    ASSUME SnapInv, FirmNow, NEW w \in late, Serve(w), ~tainted' PROVE FirmNow'
  <1>1. w \in Workers
    BY DEF SnapInv, STypeOK
  <1>2. UNCHANGED <<rows, scoreMap, scores>>
    BY DEF Serve
  <1>3. posted \subseteq posted'
    BY <1>1, ServeFacts, Grows
  <1>4. idGen["scoreMap"] \in Nat /\ idGen'["scoreMap"] \in Nat
        /\ idGen["scoreMap"] <= idGen'["scoreMap"]
    BY <1>1, ServeFacts, CounterGrows
  <1>5. ASSUME NEW v \in Workers \ late', req'[v].pc # "idle"
        PROVE  v \in Workers \ late /\ req'[v] = req[v]
    BY <1>1, <1>5, ServeFacts
  <1>6. Claims(scoreMap, req', Workers \ late') \in SUBSET Claims(scoreMap, req, Workers \ late)
    BY <1>5, ClaimsKept DEF HoldsId
  <1>7. Firm(Claims(scoreMap, req', Workers \ late'), idGen'["scoreMap"], scores, posted')
    BY <1>3, <1>4, <1>6, FirmWeaker DEF FirmNow
  <1>8. \A v \in Workers \ late' : RefsOK(req'[v], rows)
    BY <1>5 DEF FirmNow, RefsOK
  <1>9. QED
    BY <1>2, <1>7, <1>8 DEF FirmNow

LEMMA ServeFirm == ASSUME SnapInv, FirmInv, NEW w \in Workers, Serve(w) PROVE FirmInv'
  <1> SUFFICES ASSUME ~tainted' PROVE FirmNow' /\ FirmDisk'
    BY DEF FirmInv
  <1>1. ~tainted /\ FirmNow /\ FirmDisk
    BY DEF Serve, FirmInv
  <1>2. Submit(w) \/ Step(w) \/ Abort(w)
    BY DEF Serve
  <1>3. FirmDisk'
    <2>1. disk' = disk /\ posted \subseteq posted'
      BY <1>2, Grows, ServeFacts
    <2>2. Claims(disk.scoreMap, req', {}) \in SUBSET Claims(disk.scoreMap, req, {})
      BY ClaimsKept
    <2>3. disk.idGen["scoreMap"] \in Nat
      BY DEF SnapInv, ImageOK, Tables
    <2>4. Firm(Claims(disk.scoreMap, req', {}), disk.idGen["scoreMap"], disk.scores, posted')
      BY <1>1, <2>1, <2>2, <2>3, FirmWeaker DEF FirmDisk
    <2>5. QED
      BY <1>1, <2>1, <2>4 DEF FirmDisk
  <1>4. CASE w \in late
    BY <1>1, <1>3, <1>4, LateFirm
  <1>5. CASE w \notin late
    <2>1. late' \subseteq late /\ \A v \in Workers \ {w} : v \in late' <=> v \in late
      BY ServeFacts
    <2>2. Firm(Claims(scoreMap', req', Workers \ late'), idGen'["scoreMap"], scores', posted')
      BY <1>1, <1>2, <1>5, <2>1, QuietFirm, SaveScoreMapFirm, SaveScoreFirm
    <2>3. RefsIn(rows', scoreMap')
      <3>1. CASE SaveScoreMap(w)
        BY <1>1, <1>5, <2>1, <3>1, SaveScoreMapFirm
      <3>2. CASE ~SaveScoreMap(w)
        <4>1. UNCHANGED scoreMap
          BY <1>2, <3>2, Written
        <4>2. QED
          BY <1>1, <1>2, <4>1, Grows DEF FirmNow, RefsIn, Has
      <3>3. QED
        BY <3>1, <3>2
    <2>4. ASSUME NEW v \in Workers \ late' PROVE RefsOK(req'[v], rows')
      <3>1. CASE v = w
        BY <1>1, <1>2, <1>5, <3>1, StepRefs DEF FirmNow
      <3>2. CASE v # w
        <4>1. req'[v] = req[v] /\ v \notin late
          BY <3>2, <2>1, ServeFacts
        <4>2. RefsOK(req[v], rows)
          BY <1>1, <4>1 DEF FirmNow
        <4>3. QED
          BY <1>2, <4>1, <4>2, Grows DEF RefsOK, Has
      <3>3. QED
        BY <3>1, <3>2
    <2>5. QED
      BY <1>3, <2>2, <2>3, <2>4 DEF FirmNow
  <1>6. QED
    BY <1>4, <1>5

LEMMA NextFirm == SnapInv /\ FirmInv /\ [SNext]_svars => FirmInv'
  <1> SUFFICES ASSUME SnapInv, FirmInv, [SNext]_svars, ~tainted' PROVE FirmNow' /\ FirmDisk'
    BY DEF FirmInv
  <1>1. CASE Save
    <2>1. /\ UNCHANGED <<idGen, rows, scoreMap, scores, posted, req, late, tainted>>
          /\ disk' = Image
      BY <1>1 DEF Save, vars, redis, history
    <2>2. FirmNow
      BY <2>1 DEF FirmInv
    <2>3. FirmNow'
      BY <2>1, <2>2 DEF FirmNow
    <2>4. /\ disk'.idGen = idGen /\ disk'.rows = rows
          /\ disk'.scoreMap = scoreMap /\ disk'.scores = scores
      BY <2>1, ImageFacts
    <2>5. Claims(scoreMap, req, {}) \in SUBSET Claims(scoreMap, req, Workers \ late)
      BY ClaimsKept
    <2>6. idGen["scoreMap"] \in Nat
      BY DEF SnapInv, TypeInv, TypeOK, Tables
    <2>7. Firm(Claims(scoreMap, req, {}), idGen["scoreMap"], scores, posted)
      BY <2>2, <2>5, <2>6, FirmWeaker DEF FirmNow
    <2>8. FirmDisk'
      BY <2>1, <2>2, <2>4, <2>7 DEF FirmDisk, FirmNow
    <2>9. QED
      BY <2>3, <2>8
  <1>2. CASE Crash
    <2>1. /\ UNCHANGED <<posted, disk, tainted>>
          /\ idGen' = disk.idGen /\ rows' = disk.rows
          /\ scoreMap' = disk.scoreMap /\ scores' = disk.scores
          /\ \A w \in Workers \ late' : req'[w] = Idle
      BY <1>2, CrashFacts
    <2>2. FirmDisk
      BY <2>1 DEF FirmInv
    <2>3. ~HoldsId(Idle) /\ RefsOK(Idle, rows')
      BY DEF HoldsId, RefsOK, Idle
    <2>4. /\ Claims(disk.scoreMap, req', {}) \in SUBSET Claims(disk.scoreMap, req, {})
          /\ Claims(disk.scoreMap, req', Workers \ late')
                 \in SUBSET Claims(disk.scoreMap, req, {})
      BY <2>1, <2>3, ClaimsKept
    <2>5. disk.idGen["scoreMap"] \in Nat
      BY DEF SnapInv, ImageOK, Tables
    <2>6. /\ Firm(Claims(disk.scoreMap, req', {}), disk.idGen["scoreMap"], disk.scores, posted)
          /\ Firm(Claims(disk.scoreMap, req', Workers \ late'), disk.idGen["scoreMap"],
                  disk.scores, posted)
      BY <2>2, <2>4, <2>5, FirmWeaker DEF FirmDisk
    <2>7. FirmDisk'
      BY <2>1, <2>2, <2>6 DEF FirmDisk
    <2>8. FirmNow'
      BY <2>1, <2>2, <2>3, <2>6 DEF FirmDisk, FirmNow
    <2>9. QED
      BY <2>7, <2>8
  <1>3. CASE UNCHANGED svars
    <2>1. UNCHANGED <<idGen, rows, scoreMap, scores, posted, req, late, tainted, disk>>
      BY <1>3 DEF svars, vars, redis, history
    <2>2. QED
      BY <2>1 DEF FirmInv, FirmNow, FirmDisk
  <1>4. CASE \E w \in Workers : Serve(w)
    BY <1>4, ServeFirm DEF FirmInv
  <1>5. QED
    BY <1>1, <1>2, <1>3, <1>4 DEF SNext

LEMMA InitFirm == SInit => FirmInv
  <1> SUFFICES ASSUME SInit PROVE FirmNow /\ FirmDisk
    BY DEF FirmInv
  <1>1. /\ DOMAIN scoreMap = {} /\ DOMAIN scores = {}
        /\ \A w \in Workers : req[w] = Idle
    BY DEF SInit, Init, EmptyHash
  <1>2. DOMAIN disk.scoreMap = {} /\ DOMAIN disk.scores = {}
    BY <1>1, ImageFacts DEF SInit, EmptyHash
  <1>3. ~HoldsId(Idle) /\ RefsOK(Idle, rows)
    BY DEF HoldsId, RefsOK, Idle
  <1>4. /\ Claims(scoreMap, req, Workers \ late) = {}
        /\ Claims(disk.scoreMap, req, {}) = {}
    BY <1>1, <1>2, <1>3, ClaimsIn
  <1>5. \A g, ps : Firm({}, g, scores, ps) /\ Firm({}, g, disk.scores, ps)
    BY <1>1, <1>2 DEF Firm
  <1>6. RefsIn(rows, scoreMap) /\ RefsIn(disk.rows, disk.scoreMap)
    BY <1>1, <1>2 DEF RefsIn
  <1>7. QED
    BY <1>1, <1>3, <1>4, <1>5, <1>6 DEF FirmNow, FirmDisk

\* After any number of crashes, although ids are given a second time, no two
\* pairs share a score id and no score stands under another pair, unless a
\* request that began before a crash has written after it.
THEOREM MixedByLateWrites == SSpec => []MixingNeedsLateWrite
  <1>1. SnapInv /\ FirmInv => MixingNeedsLateWrite
    <2> SUFFICES ASSUME FirmNow PROVE Consistent
      BY DEF FirmInv, MixingNeedsLateWrite
    <2> DEFINE C == Claims(scoreMap, req, Workers \ late)
    <2>1. \A k \in DOMAIN scoreMap : <<k, scoreMap[k]>> \in C
      BY ClaimsIn
    <2> HIDE DEF C
    <2>2. /\ \A c \in C : OwnUnder(c, scores, posted)
          /\ \A c, d \in C : c[2] = d[2] => c[1] = d[1]
      BY DEF FirmNow, Firm, C
    <2>3. ASSUME NEW k \in DOMAIN scoreMap
          PROVE  /\ Exists("games", k[1]) /\ Exists("players", k[2])
                 /\ ScoresOf(k, scoreMap[k]) \subseteq posted
      <3>1. Exists("games", k[1]) /\ Exists("players", k[2])
        BY DEF FirmNow, RefsIn, Has, Exists
      <3>2. OwnUnder(<<k, scoreMap[k]>>, scores, posted)
        BY <2>1, <2>2
      <3>3. QED
        BY <3>1, <3>2 DEF OwnUnder, ScoresOf
    <2>4. ASSUME NEW k \in DOMAIN scoreMap, NEW l \in DOMAIN scoreMap,
                 scoreMap[k] = scoreMap[l]
          PROVE  k = l
      BY <2>1, <2>2, <2>4
    <2>5. QED
      BY <2>3, <2>4 DEF Consistent
  <1>2. QED
    BY <1>1, InitSnap, NextSnap, InitFirm, NextFirm, PTL DEF SSpec
================================================================================
