# Verification of the game score service

The repository is a small JSON-RPC service on Windows: Apache runs PHP
(`src/PhpApps`), PHP keeps games, players and scores in Redis. This directory
holds TLA+ models of it, TLC configurations and TLAPS proofs. Everything here is
written from the source; where the repository says little (its README is one
word) the code, its comments and its messages are all there is to go by.

## 1. The system

| Part | Source | State | Operations |
|---|---|---|---|
| API endpoints | `Api/{Game,Player,ScoreMap,Score}.php` | none | `Player.get/insert`, `Game.get/insert`, `ScoreMap.get/getScoreId/insert`, `Score.get/insert/getTop` |
| Models and object mapping | `Model/*.php`, `Model/Orm/{Object,Column}.php` | hashes `games_<id>`, `players_<id>` (field: column), `scoreMap_<game>` (field: player, value: score id), `scores_<score id>` (field: date, value: score); a cache of loaded objects that lives for one request | `create`, `save`, `getById`, `getByIdAndFkId`, `load` |
| Id generator | `Logic/Session.php` | hash `idGenerator` (field: table, value: last id) | `generateNextId`, `createIdGenerator` |
| Ranking | `Logic/ScoreList.php` | none | load, sort, cut, number the places |
| JSON-RPC dispatch | `Presenters/ApiPresenter.php`, `Logic/{ApiHandler,ApiRouter,JsonRpc*}.php`, `Logic/Exceptions` | one request and its response | parse, find class and method, order parameters, call, turn exceptions into errors |
| Seeding client | `Cli/InitDb.php` | place in its lists | inserts 3 games, 4 players, 9 score maps, 26 scores, in that order, until the first error |
| Installer, uninstaller | `Cli/{Init,Deinit}Environment.php` | two Windows services, configuration files, an error flag | create, start, stop, delete; fill templates |
| Bootstrap, transfer objects | `App.php`, `Logic/{Dto,ConnectParams}.php`, `Logic/Dto/*`, `Conf` | none | wiring and copying |
| Vendored programs | `Apache24`, `PHP`, `Redis` | the database; its snapshots | not this repository's code |

**How they interact.** Apache serves each request in a worker thread; a request
starts with nothing but the code and opens a Redis connection. It then runs a
fixed sequence of Redis commands. Redis runs one command at a time, but commands
of different requests mix freely: there is no `MULTI`, no `WATCH`, no lock. When
something throws, `ApiHandler::handle` answers an error; what the request has
written stays written. The process can also be cut off between any two commands
(time limit, lost connection, stopped service), and then the client has no
answer at all.

**What is hard.** An operation is several commands, so every read can be out of
date when it is used: the counter in `generateNextId`, the score id in
`Score.insert`, the score map and then the scores in `getTop`. Writes come
before the check that may refuse them (`executeSave`, `checkResult`). Objects
become visible one column at a time. The key of a score is a clock reading.

**What makes each part correct.**

- *Score service*: scores of different pairs of a game and a player never mix; a
  score that was accepted stays and is shown until the code has a reason to drop
  it; an insert that answers success is one no other successful insert excludes;
  nothing refers to an object that does not exist; leaderboards neither miss
  what was there throughout nor show what belongs elsewhere; every request ends.
- *Id generator*: ids of a table are unique, whatever mixes.
- *Ranking*: a place is one more than the number of better scores of the whole
  game; the cut keeps the best.
- *Dispatch*: every request is answered exactly once, with the code of what
  happened, and errors look like errors to the client.
- *Seeding*: when it reports no error, the database holds what it lists; run
  again, it does not post its scores a second time; it comes to an end.
- *Installer*: what it reports agrees with the state of the services and files.

`PROJECT.json` lists the hazards line by line with the property aimed at each.

## 2. The modules

| Module | What it is |
|---|---|
| `RedisHash` | the Redis hash commands and replies the code relies on (external) |
| `Leaderboard` | abstract specification: what a reader of the board is promised |
| `ScoreService` | the core: all API operations as steps of concurrent workers |
| `MCScores` | operations and symmetry for the TLC runs of `ScoreService` |
| `ScoreServiceProofs` | TLAPS theorems about `ScoreService`: types, score ids, accepted scores |
| `BoardProofs` | TLAPS theorems about what `ScoreService` reads and answers, that its requests come to their answers, and that it implements `Leaderboard` |
| `IdGenerator` | `generateNextId` with its two commands apart |
| `IdGeneratorProofs` | TLAPS theorems about `IdGenerator` |
| `ScoreList`, `MCScoreList` | `getTopByGame` after the scores are loaded |
| `ScoreListProofs` | TLAPS theorems about `ScoreList` |
| `Snapshots`, `MCSnapshots` | `ScoreService` over a Redis that crashes and goes back to a snapshot |
| `SnapshotsProofs` | TLAPS theorems about `Snapshots` |
| `InitDb`, `MCInitDb` | the seeding client together with the `ScoreService` it calls |
| `InitDbProofs` | TLAPS theorems about `InitDb` |
| `ApiDispatch` | `ApiHandler::handle`: one HTTP request from its connection to its answer |
| `ApiDispatchProofs` | TLAPS theorems about `ApiDispatch` |
| `Environment` | installer and uninstaller against the two Windows services |
| `EnvironmentProofs` | TLAPS theorems about `Environment` |

`RedisHash` and `Leaderboard` are used by `ScoreService`, which `Snapshots` and
`InitDb` extend, the one by crashes of the database, the other by a client. `ApiDispatch` ends where a request of `ScoreService` begins: its last
stage, `Call`, is a whole request there, and a `Submit` of `ScoreService` is a
request that got through to its method.

### ScoreService

A worker holds one request: `req[w]` has the step it is at (`pc`), the call, the
id in hand, and for `getTop` the players still to visit and the answer so far. A
**step is one Redis command and the PHP code up to the next one**, because only
commands can be seen by other workers. Which command follows which is data: the
tables `FirstStep`, `AfterPlayer`, `AfterGame`, `AfterMap`, `AfterId`,
`AfterName`.

| Operation | Steps |
|---|---|
| `Player.insert` | `GenerateId`, `SaveName`, `SaveCity`, `Respond` |
| `Game.insert` | `GenerateId`, `SaveName`, `Respond` |
| `Player.get`, `Game.get` | `GetPlayer` or `GetGame`, `Respond` |
| `ScoreMap.insert` | `GetPlayer`, `GetGame`, `GenerateId`, `SaveScoreMap`, `Respond` |
| `ScoreMap.get`, `getScoreId` | `GetPlayer`, `GetScoreMap`, `GetGame`, `Respond` |
| `Score.insert` | `GetPlayer`, `GetGame`, `GetScoreMap`, `SaveScore`, `Respond` |
| `Score.get` | `GetScore`, `Respond` |
| `Score.getTop` | `GetGame`, `TopMap`, then `TopScores`, `TopPlayer` for each player, `Respond` |

Four points of the code that are easy to get wrong:

- `Score.insert` has a branch that creates a missing score map
  (`Api/Score.php:47-49`). It never runs: `getByIdAndFkId` throws when there is
  none. So `GetScoreMap` fails on a miss.
- Loading a score map sets its player column first, which loads the player, then
  reads the hash, then sets its game column, which loads the game
  (`Object::load`, `Column::processValue`). Inside `Score.insert` both come from
  the request's cache.
- `checkResult` looks at the reply of a `hSet` that has already been executed,
  so `SaveScoreMap`, `SaveScore` and `SaveColumn` write whether or not the
  request goes on.
- `hGet` of the PHP extension answers `false` for a missing field, so the `null`
  test of `generateNextId` is never true and `GenerateId` is its `hIncrBy` alone.
  `IdGenerator` models both commands and both answers.

`Abort(w)` drops a request at any step without an answer; a request lost before
its answer arrives looks the same to the client. History variables (`mapped`,
`posted`, `acked`, and `before` of a request) record what was written and
answered; no guard reads them. Names, cities and PHP types are abstracted away;
an object is the set of its columns present. The players a request visits in
`getTop` are taken in any order, since a Redis hash has none.

### Leaderboard

The board a reader sees is the set of scores the score maps lead to.
`ImplementsLeaderboard` says that, whatever mixes or dies, each Redis command of
`ScoreService` either changes nothing a reader can see, enrols a pair, posts one
score (replacing at most the one with the same date), or restarts one pair. The
*restart* is what a refused `ScoreMap.insert` does to the board.

### IdGenerator

Each call of `generateNextId` reads the counter, then increments or creates it
as its own second step. `miss` is what the client library answers for a missing
field. With `false` (the one in use) `createIdGenerator` is dead code and ids
are unique. With `null` two calls may both create the counter; `ClashNeedsReset`
says this is the only way ids clash.

### ScoreList

One list per behaviour: loaded in any order, sorted by any permutation `usort`
may return (it is not stable), cut by `array_slice` with any `top` a client may
send, and numbered by the loop of `resolvePositions`, one round per step.

### Snapshots

The configuration in use keeps snapshots at intervals and no log of commands
(`save 900 1`, `appendonly no`). `Save` copies the database between two commands,
at any time: the intervals promise nothing about when. `Crash` takes the database
back to the copy, the counters of the id generator with it. The requests that run
at that moment either die or reconnect at their next command and go on with ids
and objects from before the crash (`late`). `lost` holds the scores a client may
find missing: those answered since the snapshot, or by such a late request.

Ids are given a second time after a crash. `MixingNeedsLateWrite` says that this
alone never mixes leaderboards, since the counter and what was made with it go
back together; it takes a late request that writes (`tainted`). That is possible:
without the premise TLC finds a late `ScoreMap.insert` that writes the map of a
game and a player who are gone, and one that writes an id which is given to
another pair as well. `SavedKept` says what a crash does not take.

### InitDb

The client is `place`, the call of its script it is at, and `server`, the worker
that serves this call. `Script` is the four lists of the source one after the
other: all games, all players, all score maps, all scores. Games and players are
named in the later lists by the ids they *ought* to get, their places in the
lists. `Exec` is the `exec` of one call; the worker then takes the steps of
`ScoreService` until it answers, and `Checked` is `checkResult` and what `run`
makes of it: the next call, or the end. Two things of the code decide what can go
wrong:

- `checkResult` looks for a missing reply and for an `error` member. Anything
  else is success, and so is the HTML page of a fatal error, whose JSON decodes
  to nothing. `Cut` therefore ends a request in either way.
- curl may give up (`Lose`) while the request goes on in its worker.

After an error the operator is told to flush the database and to try again.
`Flush` and `Start` leave it open whether the operator does, and a request lost
earlier may be at work during both. History variables name the premises under
which a run keeps its promise: `clean`, that it began on an empty database with
nobody else at work, and `trusted`, that no page has been taken for success since
the database was last emptied with nobody at work. Neither can be dropped, as TLC
shows: a page for a lost game lets the next one take its id, and every score map
after that names the wrong game; a lost request that writes after a flush fills the
database the next run believes to be empty. `seeding` records which runs have
posted scores.

### ApiDispatch

The stages of `handle` in order: `Connect` (the container opens the session
before `handle` runs), `CheckMethod`, `Parse`, `Route`, `Reflect`, `OrderParams`,
`Call`. Each passes the request on or throws; `Throw` is the `catch` of `handle`.
A request is the presence and the type of each of its members, and its
parameters any subset of those its method declares, each of the right type or
not. What PHP 7.1 and Tracy make of a value that does not fit comes in three kinds:

- a value of a wrong type makes PHP throw a `TypeError`, which is no `Exception`:
  it is not caught and the client gets a page;
- a string that begins with a number is taken for it where an integer is declared
  (the id, ids of objects, `score`, `top`), and a notice is raised; so is one for a
  `jsonrpc` that is a list and is put into the message of an exception
  (`ApiHandler.php:105`). `enableTracy` (`App.php:32`) makes Tracy strict: in debug
  mode a notice ends the script with a page, otherwise it is logged and the request
  goes on. Nobody sets the mode, so the framework takes it from the address of the
  client: on for one on the server's own machine, which is where the installer says
  the server listens. `request.debug` is this;
- a `jsonrpc` that is an object cannot be put into that message at all: Tracy throws
  the recoverable error as an `ErrorException`, which the `catch` of `handle` answers
  with 500 and -32603. It is the one fault of a client that is answered as the
  server's, and `OwnFaultsAreNotOurs` names it.

What Tracy and the framework do is external: they are not part of the repository,
and the models take them as the version for the bundled PHP 7.1 documents them.
The one private method of an endpoint (`getSession`) is never named by a client.

### Environment

A script is the list of its commands. Each command meets the service manager in
whatever state the services are, sets the error flag on failure, and the script
goes on. Writing a configuration file has three outcomes: it is whole; it could not
be opened (or its template read), which throws, ends the list and is reported; or
only a part of it, perhaps nothing, got to the disk. The script does not notice the
last: `fwrite` returns the number of bytes, 0 of a full disk in PHP 7.1, and the code
compares it with `false` only (`InitEnvironment.php:137-138, 187-188`). So "Created."
is printed and "Server started" may be too; `StartedIsInstalled` promises whole files
only if nothing has failed. A service that was told to start or stop does so later, or fails; one
deleted before it has stopped is marked and goes when it stops. Scripts may be
killed at any command and run again. The pauses of one second in the uninstaller
promise nothing about a service and are left out. `calm` and `fresh` are history:
whether the system has refused a command for reasons of its own, and whether the
last script found no service when it began.

## 3. The runs

| Run | Question | Bounds |
|---|---|---|
| `board` | Are scores kept apart, kept, shown and soundly shown; is the service a leaderboard; does each step bring a request nearer its answer? | 2 workers, 1 game, 2 players, 2 clock readings, 2 values, 4 insert calls |
| `objects` | Do all operations find what they refer to while objects appear and inserts die; is a `getTop` ever refused half-way? | 2 workers, 2 games and 2 players of which one each exists at first, one clock reading, 4 insert calls |
| `answers` | Does every request end? | 2 workers, 2 players, 3 insert calls, fairness |
| `refused` | Does a refused `ScoreMap.insert` keep the values it says exist? **No** | 1 pair, 2 inserts |
| `score_id` | Does `getScoreId` answer the score id? **No** | 2 games, 2 inserts |
| `id_generator` | Are ids unique when the counter does not exist yet? | 4 calls, 2 tables, both answers for a miss |
| `ranking` | Are places and cuts right with ties and odd values of `top`? | up to 4 scores of 3 values, `top` from -5 to 10 |
| `snapshots` | What does a crash of Redis take, and does it mix leaderboards? | 2 workers, 1 game, 2 players of which one exists at first, 2 clock readings, 3 insert calls, 2 crashes |
| `seeding` | Does a run that reports no error leave what its lists say; does a second one post scores again; does it end? | 2 workers, lists of 2 games, 2 players, 2 score maps and 1 score listed twice, 2 clock readings, 2 runs, 2 faults, fairness |
| `dispatch` | Do methods get the right arguments, and answers the right id and code? | every form of one request to every method |
| `environment` | Does what the scripts report agree with what they leave? | 4 runs of the scripts in any order |
| `uninstalled` | Is everything gone when the uninstaller says so? **No** | 2 runs |

**Why the bounds are enough to show something.** Two workers are enough for every
race in the list of hazards, since each is a read of one request and a write of
another; the theorems hold for any number. Four inserts allow two score maps and
two scores, or a score map, its repetition and two scores on either side of it:
the shapes every property needs to be broken, as the mutants show. Two clock
readings give both a collision and a clock that moves either way. One game is
enough for `board` because hashes of different games share nothing but the
counter, and `objects` has two. Reads and deaths of requests are not bounded.
`MaxInserts` bounds the insert calls clients make and nothing else.
In `snapshots` three inserts allow an object and a map that a late request writes
over, or a map and two scores on either side of a snapshot; two crashes allow a
request to be late twice. The lists of `seeding` have the shape of those in the
source: the first score map is of the last game and player it names, one score map
has no scores, and one score occurs twice. Two runs and two faults allow a run that
fails with its request still at work and a run after it, flushed in between or not.
`MaxInserts` exceeds what two runs can call. `dispatch` has no bound except that a
value is right, odd or wrong. Four runs of the scripts allow an install, a failed uninstall, another
uninstall and a new install over what they left.

`board`, `objects`, `snapshots` are checked with symmetry of the workers, `answers` without
and `seeding` without
(they have a liveness property). Deadlock is checked in all runs of `ScoreService` and
`Snapshots`; `id_generator`, `ranking`, `dispatch`, `seeding` and the two runs of
`Environment` end when every call is made, the list is done, the request is
answered or the operator stops.

**Findings.** `refused`: the second `ScoreMap.insert` of a pair answers "You are
inserting already existing values" and has already replaced the existing score
id, so all earlier scores of the pair leave the leaderboard. The same happens
when a client repeats a call whose answer was lost. `score_id`: `getScoreId`
returns the id column of the score map, which is the game. `uninstalled`: the
uninstaller never asks whether a service has stopped, and says that everything is
stopped and deleted while both services are stopping. They do go later
(`GoneAtLast`), but the Redis snapshot that was just deleted may be written again.
Two more things the models show have no run of their own, since the code says
nothing against them: a `jsonrpc` that is an object is answered as a fault of the
server, and a configuration file that was cut short does not keep the installer from
saying "Server started". The properties that touch them state them as exceptions.

**Properties.** `ScoreIdsUnshared`, `OwnScores`, `NewIdsAreFresh` are about ids
against interleavings; `AckedKept`, `OneAckPerField` about answers against the
database; `TopComplete`, `TopSound`, `MapRefs` about the reads of `getTop`;
`AnsweredIdIsOwn` about what `ScoreMap.get` and `insert` answer;
`AllAnswered` and `StepsLeadToAnswer` about requests that end while others write;
`MixingNeedsLateWrite`, `SavedKept` about crashes; `FinishedIsSeeded`,
`ScoresSeededOnce` and `RunEnds` about a client that works through its lists while
its requests fail. `RightArguments`, `IdEchoed`,
`BlameIsRight`, `OwnFaultsAreNotOurs`, `PageNeedsTypeFault` are about the answer a
client gets for each way a request can fail; `StartedIsInstalled`,
`CleanInstallSucceeds`, `UninstallLeavesNone`, `UninstalledIsGoing`, `GoneAtLast`
about reports of the scripts against the services. Each has a
mutant of the code's model that breaks it.

**Fairness.** `FairSpec` asks weak fairness of each worker's `Step`: a thread that
serves a request is scheduled by the operating system, and Redis answers every
command it receives. Nothing is asked of `Submit` (clients need not call) or of
`Abort` (failures need not happen). The loop of `getTop`
ends because it runs over the map it read once, not over the one others extend. `ISpec` asks
the same of the workers, and of `Exec`: a client that is running makes its next
call. `RunEnds` needs both, since curl is given no time limit and waits as long as
the request does. Nothing is asked of `Start`, `Flush`, `Cut` and `Lose`. In
`Environment` weak fairness of `Come` and `Halt` says that a service which was told
to start or to stop does so at last, which is what the service manager is for;
nothing is asked of the scripts or the operator.

## 4. The proofs

For every value of the constants (any number of workers, games, players, dates
and insert calls), from `ServiceAssumption` only (ids are naturals, operations
are operations of the API):

| Theorem | States | Argument |
|---|---|---|
| `TypeCorrect` | `Spec => []TypeOK` | `TypeInv` adds `Control`: a request at a step is one of an operation that has the step, so that its call has the fields the step uses |
| `UnsharedIds` | `Spec => []ScoreIdsUnshared` | `ScoreIdsUnshared` alone is not inductive: nothing in it says the id a worker is about to write is unused. The strengthening says that every id in `mapped` is at most the counter, and that ids in hand of workers about to write a score map are at most the counter, used nowhere, and different from each other |
| `ScoresAreOwn` | `Spec => []OwnScores` | the id in hand of a worker about to save a score was once given to its pair; `mapped` only grows |
| `AcceptedScoresKept` | `Spec => []AckedKept` | a posted entry stays stored until another one hits its field, and a pair once in a score map stays in it, under an id it was given; so unless it was given two, it is the entry's. Both survive each command |
| `AcceptedScoresApart` | `Spec => []OneAckPerField` | an entry is in some answer or acknowledged only if the reply of its `hSet` was 1, so its field was new then, and it is the first entry ever posted for its field |

Further theorems about the same specification, in `BoardProofs`:

| Theorem | States | Argument |
|---|---|---|
| `FreshIds` | `Spec => []NewIdsAreFresh` | `RowsInv`: the ids of rows are at most their counter, and those of requests between `generateNextId` and the last column are too, are different, and have no row before the first column |
| `RefsExist` | `Spec => []MapRefs` | `ReadInv`: what a request has loaded exists, because rows only grow; it is needed of the request that writes a score map and of the one that reads it |
| `AnswersAreOwn` | `Spec => []AnsweredIdIsOwn` | the id in hand was read from, or written to, the map of the pair that was asked for |
| `SoundTop` | `Spec => []TopSound` | what `getTop` has still to visit is in `mapped`, ids of `mapped` are not shared, so the scores under them were posted for that pair |
| `CompleteTop` | `Spec => []TopComplete` | `DueInv`: an entry that could be reached at the call is in the answer, or still to be visited, or *settled*: overwritten, or its pair has another id, which can never become the old one again because ids are not given twice |
| `LeaderboardImplemented` | `Spec => ImplementsLeaderboard` | each command by itself: a score map written maps to `Enrol` or `Restart`, since no score stands under a fresh id; a score to `Post`, or to a stutter if the pair has a new id by now |
| `AnswersComeNearer` | `Spec => StepsLeadToAnswer` | the operation of a request decides which step follows, and that one always stands before the present one; in the loop of `getTop` the players left to visit become fewer, and their number exists because only a finite number of pairs was ever mapped (`FiniteInv`) |

`Snapshots` from the same assumption and `CrashAssumption`, for any number of
crashes. A crash takes back what the invariants above rest on (rows and counters
shrink), so these are new; the lemmas about a single step are used again:

| Theorem | States | Argument |
|---|---|---|
| `SnapTypes` | `SSpec => []STypeOK` | the snapshot is a well-typed database, so a crash leads to one |
| `SavedScoresKept` | `SSpec => []SavedKept` | `SavedInv`: an entry once stored stays stored, or history has what took its place; this holds of the database in use, of the snapshot, and of the answers of requests that are not late. `Save` copies the first to the second and `Crash` the second to the first |
| `MixedByLateWrites` | `SSpec => []MixingNeedsLateWrite` | a *claim* is a pair and a score id, of a score map or in the hands of a request that is not late. As long as no late request has written, claims are at most the counter, share no id, and have only scores of their own pair under them, in the database and in the snapshot alike; an id given again is above the counter that came back, so nothing is left of its first use |

`InitDb` from the two assumptions of its modules, for lists of any length and any
number of runs, workers and faults:

| Theorem | States | Argument |
|---|---|---|
| `SeedTypes` | `ISpec => []ITypeOK` | the request the client waits for is the call it is at and was sent by the present run |
| `SeededOnce` | `ISpec => []ScoresSeededOnce` | a run has *won* when its first score map was inserted. Runs that have posted scores, that have a request which will, and a present run that has won are one and the same; while there is one, the first pair is in the score map, where it stays until a flush, so that every later insert of it is refused |
| `Seeded` | `ISpec => []FinishedIsSeeded` | `ContentInv`: while a run is good, no request but its own is at work, and the database is what the calls before the present one make of an empty one: the counters and rows are those of the games and players so far, each under the id of its place; the score maps are those of the pairs so far, each with an id of its own; and the entries stored for a pair with a value are as many as the calls so far that posted it, since an `hSet` answered with 1 adds exactly one. Within a call the part already written belongs to it. A refused insert, a page or a lost request ends the run or its being good |

`FinishedIsSeeded` says nothing of the states before the end, so all of `ContentInv`
is strengthening. TLC checked it on the instance of `seeding` before it was proved.

`ScoreList`, for lists of any length, any scores and any cut:

| Theorem | States | Argument |
|---|---|---|
| `ListTypes` | `Spec => []TypeOK` | the list is a cut of a permutation of what was loaded |
| `BestAreKept` | `Spec => []KeptAreBest` | the list is a prefix of a sorted permutation, so what is left out comes later in the order; before the cut it is as long as what was loaded |
| `PlacesAreRanks` | `Spec => []PlacesCountBetter` | the loop keeps the index of the first entry with the score at hand; in a sorted list what is better is exactly what comes before that entry, and an index before and after it splits the list into two sets whose sizes are known |

`Environment`, for any number of runs of the scripts:

| Theorem | States | Argument |
|---|---|---|
| `EnvTypes` | `Spec => []TypeOK` | each command leads to a state a service can be in |
| `StartedMeansInstalled` | `Spec => []StartedIsInstalled` | an invariant for each position of the script: without an error so far, what the commands before it were to do is done, as far as it noticed, and nothing but another script undoes it; without a failure so far the files are whole |
| `CleanInstallsSucceed` | `Spec => []CleanInstallSucceeds` | with no service found and no refusal of the system, the services are at each position as the next command wants them |
| `UninstallLeaves`, `UninstalledGoes` | `Spec => []UninstallLeavesNone`, `Spec => []UninstalledIsGoing` | after its delete command a service is gone or marked, and nothing makes it stay; without an error it has been told to stop as well |

`ApiDispatch`, for any `Unknown` and any request of the given forms:

| Theorem | States | Argument |
|---|---|---|
| `Types` | `Spec => []TypeOK` | a stage passes on without an answer or answers, and no answer is the pending one |
| `Arguments` | `Spec => []RightArguments` | `DispatchInv` says what is known of a request at each stage: from the routing on it is of the right form and its id is set, then its endpoint exists, then its method, then no required parameter is missing and the arguments are the parameters in order. `RightArguments` speaks of the body of the method alone, so it needs all of these |
| `Echo`, `Blame`, `OwnFaults` | `Spec => []IdEchoed`, `Spec => []BlameIsRight`, `Spec => []OwnFaultsAreNotOurs` | the same invariant says what each of the answers implies: three of them are given only after the id was set, the other two only before and only for a fault of the form, and the fault of the server before that only for a `jsonrpc` that is an object |
| `Pages` | `Spec => PageNeedsTypeFault` | the parser throws neither an Error nor a notice but for a value that raises it; a call whose arguments are as many as the parameters is refused only for a value of the wrong type or an odd one in debug mode; the number of parameters is that of the table of methods |

`IdGenerator` from `MissesAssumption`, for any number of calls and tables:

| Theorem | States | Argument |
|---|---|---|
| `IdTypes` | `Spec => []TypeOK` | a counter that exists is positive, and a call that is done has an id |
| `UniqueIds` | `Spec => []IdsUnique` | ids returned are at most the counter, and with `false` no call is ever at its `create` step |
| `ClashesNeedReset` | `Spec => []ClashNeedsReset` | in a table not in `reset`, ids returned are at most the counter and different; a second creation puts the table into `reset` |

The proofs rely on the named assumptions about constants, on the theorems of the
standard library about finite sets and sequences, and on nothing else.

**Model-checked only.** `AllAnswered`, `GoneAtLast` and `RunEnds`, since liveness
is out of the prover's reach. For `AllAnswered` what is left to TLC is the part
fairness plays: `AnswersComeNearer` shows that a request whose worker goes on has
nowhere to go but to its answer. Every other property of the passing runs is
stated by a theorem.

## 5. Not modelled

- Formats: JSON, names, cities, the text of messages, and the date of a score.
  `Score::getDateTime` cannot parse a clock reading without decimals and answers
  `false`; this changes one member of one answer and no state. Everywhere else a
  date is the field its score is stored under, which is what the models take it
  for.
- The update path of `Object::__set` and `setRawValue`: only an object that was
  loaded or saved before would be updated, and no API operation assigns to one.
  The other half of `checkResult` belongs to this path and is never taken.
- `Object::addProperty` and its checks: they read the annotations of the class,
  the same in every request, and keep nothing from one request to the next.
- The cache of loaded objects has no state of its own here: it lives for one
  request, and its effect, which loads send a command, is in the order of the
  steps of `ScoreService`.
- Output and exit codes of the scripts: `InitDb` and the installer print what
  happened; their exit code is 0 in any case and nothing reads it.
- The framework, Apache, PHP and Redis themselves; of Redis, the commands in
  use and what a crash leaves. Their configuration appears only as what it
  implies: concurrent workers, requests that are cut off, snapshots and no log.
- `App`, `Dto`, `ConnectParams`, the router factory: wiring and copies of fields,
  no state.

## 6. What could follow

The plan these modules were written by is done. What would add most to them:

1. The counterparts of `AnswersComeNearer` for `RunEnds` and `GoneAtLast`: that
   each step of the client or of a service brings it nearer its end.
2. `Snapshots` with the uninstaller or a flush as a third way to lose the database
   under requests that are at work.
3. `Environment` and `Snapshots` composed: a service stopped by a script is a Redis
   that writes its snapshot, or does not, before its files are deleted.
