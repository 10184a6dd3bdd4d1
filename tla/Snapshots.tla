------------------------------- MODULE Snapshots -------------------------------
(***************************************************************************)
(* The score service over a Redis that is configured to keep snapshots     *)
(* only (save 900 1 ..., appendonly no).  A crash takes the database back  *)
(* to the last snapshot, the counters of the id generator included.  The   *)
(* requests in flight may die with their connection, or reconnect at their *)
(* next command and go on with ids and objects they have read before.      *)
(***************************************************************************)
EXTENDS ScoreService

CONSTANT MaxCrashes \* bound: crashes of Redis

ASSUME CrashAssumption == MaxCrashes \in Nat

VARIABLES disk,    \* the last snapshot; saved: the scores answered and not lost by then
          crashes, \* crashes so far
          lost,    \* history: the scores answered since the snapshot a crash went
                   \* back to, or by a request that began before the crash
          late,    \* history: the workers whose request began before the last crash
          tainted  \* history: such a request has written an object, a map or a score

svars == <<vars, disk, crashes, lost, late, tainted>>

Image == [idGen |-> idGen, rows |-> rows, scoreMap |-> scoreMap, scores |-> scores,
          saved |-> acked \ lost]

\* What Redis starts with when there is no file: no counter, no key.
NoFile == [idGen |-> [t \in Tables |-> 0], rows |-> {}, scoreMap |-> EmptyHash,
           scores |-> EmptyHash, saved |-> {}]

SInit ==
    /\ Init
    /\ lost = {} /\ late = {}
    /\ disk \in {NoFile, Image}
    /\ crashes = 0
    /\ tainted = FALSE

Serve(w) ==
    /\ Submit(w) \/ Step(w) \/ Abort(w)
    /\ late' = IF req'[w].pc = "idle" THEN late \ {w} ELSE late
    /\ tainted' = (tainted \/ (w \in late /\ <<rows, scoreMap, scores>>' # <<rows, scoreMap, scores>>))
    /\ lost' = IF w \in late THEN lost \cup (acked' \ acked) ELSE lost
    /\ UNCHANGED <<disk, crashes>>

\* A snapshot is a copy of the database at one moment between two commands.
Save ==
    /\ disk' = Image
    /\ UNCHANGED <<vars, crashes, lost, late, tainted>>

CrashCounterGone == \* mutant: the counters are kept outside the snapshots
    /\ crashes < MaxCrashes
    /\ crashes' = crashes + 1
    /\ idGen' = NoFile.idGen /\ rows' = disk.rows
    /\ scoreMap' = disk.scoreMap /\ scores' = disk.scores
    /\ lost' = acked \ disk.saved
    /\ late' = {}
    /\ req' = [w \in Workers |-> Idle]
    /\ UNCHANGED <<inserts, history, disk, tainted>>

Crash ==
    /\ crashes < MaxCrashes
    /\ crashes' = crashes + 1
    /\ idGen' = disk.idGen /\ rows' = disk.rows
    /\ scoreMap' = disk.scoreMap /\ scores' = disk.scores
    /\ lost' = acked \ disk.saved
    /\ late' \in SUBSET {w \in Workers : req[w].pc # "idle"}
    /\ req' = [w \in Workers |-> IF w \in late' THEN req[w] ELSE Idle]
    /\ UNCHANGED <<inserts, history, disk, tainted>>

SNext == Save \/ Crash \/ \E w \in Workers : Serve(w)

SSpec == SInit /\ [][SNext]_svars

----------------------------------------------------------------------------
\* The type invariant.
STypeOK ==
    /\ TypeOK
    /\ DOMAIN disk.scoreMap \subseteq Pairs /\ DOMAIN disk.scores \subseteq ScoreIds \X Dates
    /\ disk.saved \subseteq acked /\ lost \subseteq acked
    /\ crashes \in 0 .. MaxCrashes
    /\ late \subseteq {w \in Workers : req[w].pc # "idle"}
    /\ tainted \in BOOLEAN

\* The leaderboards the database holds: score maps lead to objects that
\* exist, to different score ids, and to scores of their own pair.
Consistent ==
    /\ \A k \in DOMAIN scoreMap :
        /\ Exists("games", k[1]) /\ Exists("players", k[2])
        /\ ScoresOf(k, scoreMap[k]) \subseteq posted
    /\ \A k, l \in DOMAIN scoreMap : scoreMap[k] = scoreMap[l] => k = l

\* A crash by itself never mixes up leaderboards, although ids are given a
\* second time: it takes a request that began before the crash and writes
\* after it.
MixingNeedsLateWrite == ~tainted => Consistent

\* A crash loses no more than the scores answered since the snapshot or by
\* requests that began before it: every other one is kept, with the same two
\* exceptions as without crashes (AckedKept).
SavedKept ==
    \A e \in acked \ lost :
        /\ Overwritten(e) \/ (/\ <<e.id, e.date>> \in DOMAIN scores
                              /\ scores[<<e.id, e.date>>] = e.score)
        /\ Repointed(e) \/ (e.pair \in DOMAIN scoreMap /\ scoreMap[e.pair] = e.id)
================================================================================
