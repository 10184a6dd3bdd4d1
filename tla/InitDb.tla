-------------------------------- MODULE InitDb --------------------------------
(***************************************************************************)
(* The seeding client (Cli/InitDb.php) together with the score service it  *)
(* fills: a script of insert calls, one after another, until one answers   *)
(* an error or not at all.  Any other reply counts as success, the HTML    *)
(* page of a fatal error included.  Games and players are named by the ids *)
(* they ought to get, their places in the lists.  After an error the       *)
(* operator is told to flush the database, and may do so or not before     *)
(* trying again; the request the client has lost may still be running.     *)
(***************************************************************************)
EXTENDS ScoreService, Sequences

CONSTANTS Games, Players, \* lengths of the lists of games and of players
          ScoreMaps,      \* the list of score maps: pairs <<game, player>>
          ScoreList,      \* the list of scores: <<pair, score>>
          Nobody,         \* no worker
          MaxRuns,        \* bound: runs of the client
          MaxFaults       \* bound: requests cut off or lost

ASSUME SeedAssumption ==
    /\ Games \in Nat \ {0} /\ Players \in Nat \ {0}
    /\ ScoreMaps \in Seq(Pairs) /\ ScoreList \in Seq(Pairs \X Points)
    /\ ScoreMaps # <<>> /\ ScoreList # <<>>
    /\ Nobody \notin Workers
    /\ MaxRuns \in Nat /\ MaxFaults \in Nat
    /\ SeedGames = 0 /\ SeedPlayers = 0

VARIABLES place,   \* the call of the script the client is at, 0 for none
          server,  \* the worker that serves it, Nobody before it is sent
          result,  \* what the last run has ended with
          runs,    \* runs so far
          faults,  \* faults so far
          clean,   \* history: the run began on an empty database with nobody else
          trusted, \* history: since the database was last empty with nobody at
                   \* work, no page was taken for success
          sender,  \* history: the run each worker's request was sent by
          seeding  \* history: the runs that have posted scores since a flush

client == <<place, server, result, runs>>
notes == <<faults, clean, trusted, sender, seeding>>
ivars == <<vars, client, notes>>

\* The four lists in the order of run().
Script ==
    [i \in 1 .. Games |-> [op |-> "gameInsert"]]
    \o [i \in 1 .. Players |-> [op |-> "playerInsert"]]
    \o [i \in 1 .. Len(ScoreMaps) |->
          [op |-> "scoreMapInsert", game |-> ScoreMaps[i][1], player |-> ScoreMaps[i][2]]]
    \o [i \in 1 .. Len(ScoreList) |->
          [op |-> "scoreInsert", game |-> ScoreList[i][1][1],
           player |-> ScoreList[i][1][2], score |-> ScoreList[i][2]]]

AllIdle == \A w \in Workers : req[w].pc = "idle"
Empty == /\ idGen = [t \in Tables |-> 0] /\ rows = {}
         /\ scoreMap = EmptyHash /\ scores = EmptyHash

IInit ==
    /\ Init
    /\ place = 0 /\ server = Nobody /\ result = "none"
    /\ runs = 0 /\ faults = 0
    /\ clean = FALSE /\ trusted = TRUE
    /\ sender = [w \in Workers |-> 0]
    /\ seeding = {}

----------------------------------------------------------------------------
\* The operator starts the client.
Start ==
    /\ place = 0
    /\ runs < MaxRuns
    /\ place' = 1 /\ server' = Nobody /\ result' = "none"
    /\ runs' = runs + 1
    /\ clean' = (Empty /\ AllIdle)
    /\ UNCHANGED <<vars, faults, trusted, sender, seeding>>

\* The operator flushes the database (FLUSHALL).
Flush ==
    /\ place = 0 /\ result = "failed"
    /\ idGen' = [t \in Tables |-> 0] /\ rows' = {}
    /\ scoreMap' = EmptyHash /\ scores' = EmptyHash
    /\ result' = "none"
    /\ trusted' = AllIdle
    /\ seeding' = {}
    /\ UNCHANGED <<req, inserts, history, place, server, runs, faults, clean, sender>>

\* exec sends the call; curl waits for the answer.
Exec(w) ==
    /\ place # 0 /\ server = Nobody
    /\ Submit(w)
    /\ req'[w].call = Script[place]
    /\ server' = w
    /\ sender' = [sender EXCEPT ![w] = runs]
    /\ UNCHANGED <<place, result, runs, faults, clean, trusted, seeding>>

StopsNot(success) == \* mutant: run does not look at the result of exec
    /\ place' = IF place < Len(Script) THEN place + 1 ELSE 0
    /\ result' = IF place < Len(Script) THEN "none" ELSE "done"
    /\ server' = Nobody
    /\ UNCHANGED runs

WaitsOn(success) == \* mutant: a call that failed is waited for
    /\ place' = IF ~success THEN place ELSE IF place < Len(Script) THEN place + 1 ELSE 0
    /\ result' = IF success /\ place = Len(Script) THEN "done" ELSE "none"
    /\ server' = IF success THEN Nobody ELSE server
    /\ UNCHANGED runs

\* checkResult has returned: run goes on with the next call or returns.
Checked(success) ==
    /\ place' = IF success /\ place < Len(Script) THEN place + 1 ELSE 0
    /\ result' = IF ~success THEN "failed" ELSE IF place < Len(Script) THEN "none" ELSE "done"
    /\ server' = Nobody
    /\ UNCHANGED runs

\* A worker goes on; if it ends its request, the client gets the result or
\* the error, unless it has gone.
Serve(w) ==
    /\ Step(w)
    /\ seeding' = IF req[w].pc = "saveScore" THEN seeding \cup {sender[w]} ELSE seeding
    /\ IF w = server /\ req'[w].pc = "idle"
       THEN Checked(req[w].pc = "respond")
       ELSE UNCHANGED client
    /\ UNCHANGED <<faults, clean, trusted, sender>>

\* A request is cut off: its client gets an error, nothing, or a page.
Cut(w) ==
    /\ faults < MaxFaults
    /\ faults' = faults + 1
    /\ Abort(w)
    /\ IF w # server THEN UNCHANGED <<client, trusted>>
       ELSE \/ Checked(FALSE) /\ UNCHANGED trusted
            \/ Checked(TRUE) /\ trusted' = FALSE
    /\ UNCHANGED <<clean, sender, seeding>>

\* The connection of the client breaks and the request goes on without it.
Lose ==
    /\ faults < MaxFaults
    /\ faults' = faults + 1
    /\ server # Nobody
    /\ Checked(FALSE)
    /\ UNCHANGED <<vars, clean, trusted, sender, seeding>>

INext == Start \/ Flush \/ Lose \/ \E w \in Workers : Exec(w) \/ Serve(w) \/ Cut(w)

\* The client and the workers go on; faults and the operator need not come.
ISpec ==
    /\ IInit /\ [][INext]_ivars
    /\ \A w \in Workers : WF_ivars(Exec(w)) /\ WF_ivars(Serve(w))

----------------------------------------------------------------------------
\* The type invariant.
ITypeOK ==
    /\ TypeOK
    /\ place \in 0 .. Len(Script)
    /\ server \in Workers \cup {Nobody}
    /\ server # Nobody => req[server].pc # "idle" /\ req[server].call = Script[place]
    /\ result \in {"none", "done", "failed"}
    /\ place # 0 => result = "none"
    /\ runs \in 0 .. MaxRuns /\ faults \in 0 .. MaxFaults
    /\ clean \in BOOLEAN /\ trusted \in BOOLEAN
    /\ sender \in [Workers -> 0 .. MaxRuns]
    /\ seeding \subseteq 1 .. MaxRuns

\* A run that ends without an error on a database that was empty has put
\* there what its lists say: the games and players under the ids the lists
\* name them by and complete, the score maps and no other, and every score
\* as often as it is listed, none replaced by a later one.
FinishedIsSeeded ==
    result = "done" /\ clean /\ trusted =>
        /\ idGen["games"] = Games /\ idGen["players"] = Players
        /\ \A i \in 1 .. Games : <<"games", i, "name">> \in rows
        /\ \A i \in 1 .. Players, c \in Columns : <<"players", i, c>> \in rows
        /\ DOMAIN scoreMap = {ScoreMaps[i] : i \in 1 .. Len(ScoreMaps)}
        /\ \A k \in Pairs, v \in Points :
              Cardinality({e \in Reachable : e.pair = k /\ e.score = v})
                  = Cardinality({i \in 1 .. Len(ScoreList) : ScoreList[i] = <<k, v>>})

\* However often the client is started again without a flush, one run at
\* most posts scores: the first score map it finds in place stops it.
ScoresSeededOnce == trusted => Cardinality(seeding) <= 1

\* The client comes to an end, whatever becomes of its requests.
RunEnds == place # 0 ~> place = 0
================================================================================
