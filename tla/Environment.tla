------------------------------ MODULE Environment ------------------------------
(***************************************************************************)
(* The installer and the uninstaller against the two Windows services they *)
(* manage.  A script is a list of commands that it runs one after another, *)
(* going on after a command that failed.  A configuration file that cannot *)
(* be written at all throws and ends the list; one of which a part or      *)
(* nothing got to the disk is not noticed.  The service manager (external) *)
(* accepts a start or a stop: the service follows when it likes, and may   *)
(* fail.  A service that is deleted before it has stopped is marked and    *)
(* goes when it stops.  The pauses of one second between the commands of   *)
(* the uninstaller promise nothing and are left out.                       *)
(***************************************************************************)
EXTENDS Naturals, Sequences

CONSTANT MaxRuns \* bound: runs of a script

ASSUME RunsAssumption == MaxRuns \in Nat

VARIABLES service,  \* the two services, as the service manager has them
          files,    \* services that have left files: logs, a snapshot
          conf,     \* what the last installer has written of each configuration file
          script,   \* the script that runs: its commands, the next, its error flag
          reported, \* what the last script said at its end
          runs,     \* runs so far
          fresh,    \* history: the last script found no service when it began
          calm      \* history: nothing outside it has failed since then

vars == <<service, files, conf, script, reported, runs, fresh, calm>>

Services == {"Apache24", "redis6379"}
ConfFiles == {"httpd.conf", "php.ini"}

Unwritten == [f \in ConfFiles |-> "none"]

Install ==
    << <<"write", "httpd.conf">>, <<"write", "php.ini">>,
       <<"create", "Apache24">>, <<"start", "Apache24">>,
       <<"create", "redis6379">>, <<"start", "redis6379">> >>

Uninstall ==
    << <<"stop", "Apache24">>, <<"delete", "Apache24">>,
       <<"stop", "redis6379">>, <<"delete", "redis6379">>,
       <<"clear", "Apache24">>, <<"clear", "redis6379">> >>

Commands(name) == IF name = "install" THEN Install ELSE Uninstall

NoScript == [name |-> "none", pc |-> 0, error |-> FALSE]
Absent == [status |-> "absent", doomed |-> FALSE]

Init ==
    /\ service = [s \in Services |-> Absent]
    /\ files = {} /\ conf = Unwritten
    /\ script = NoScript
    /\ reported = "nothing"
    /\ runs = 0
    /\ fresh = FALSE /\ calm = FALSE

----------------------------------------------------------------------------
\* The service manager.
Alive(s) == service[s].status \in {"starting", "running", "stopping"}
Become(s, status) == service' = [service EXCEPT ![s].status = status]

\* A process has ended: a service marked for deletion goes.
Ended(s) ==
    service' = [service EXCEPT ![s] = IF @.doomed THEN Absent ELSE [@ EXCEPT !.status = "stopped"]]

Come(s) ==
    /\ service[s].status = "starting"
    /\ Become(s, "running")
    /\ UNCHANGED <<files, conf, script, reported, runs, fresh, calm>>

Halt(s) ==
    /\ service[s].status = "stopping"
    /\ Ended(s)
    /\ UNCHANGED <<files, conf, script, reported, runs, fresh, calm>>

Fail(s) ==
    /\ service[s].status \in {"starting", "running"}
    /\ Ended(s)
    /\ calm' = FALSE
    /\ UNCHANGED <<files, conf, script, reported, runs, fresh>>

\* Apache logs; Redis saves a snapshot (save 900 1) and when it is stopped.
Write(s) ==
    /\ Alive(s)
    /\ files' = files \cup {s}
    /\ UNCHANGED <<service, conf, script, reported, runs, fresh, calm>>

----------------------------------------------------------------------------
\* The scripts.
Begin(name) ==
    /\ script = NoScript
    /\ runs < MaxRuns
    /\ runs' = runs + 1
    /\ script' = [name |-> name, pc |-> 1, error |-> FALSE]
    /\ reported' = "nothing"
    /\ conf' = IF name = "install" THEN Unwritten ELSE conf
    /\ fresh' = (\A s \in Services : service[s] = Absent)
    /\ calm' = TRUE
    /\ UNCHANGED <<service, files>>

Running == script.name # "none" /\ script.pc <= Len(Commands(script.name))
Command == Commands(script.name)[script.pc]
At(verb, arg) == Running /\ Command = <<verb, arg>>

NextCommandOrStop(ok) == \* mutant: an error ends the script
    script' = [script EXCEPT !.pc = IF ok THEN @ + 1 ELSE Len(Commands(script.name)) + 1,
                             !.error = @ \/ ~ok]

\* A command that failed sets the error flag; the script goes on.
NextCommand(ok) == script' = [script EXCEPT !.pc = @ + 1, !.error = @ \/ ~ok]

WriteConfUnchecked(f) == \* mutant: a file that was not opened is not noticed either
    /\ At("write", f)
    /\ \E written \in {"none", "part", "whole"} :
        /\ conf' = [conf EXCEPT ![f] = written]
        /\ calm' = (calm /\ written = "whole")
        /\ NextCommand(TRUE)
    /\ UNCHANGED <<service, files, reported, runs, fresh>>

\* The result of fwrite is compared with FALSE, which is what it returns for a
\* file that was not opened; of a full disk it returns fewer bytes, or 0.
WriteConf(f) ==
    /\ At("write", f)
    /\ \E written \in {"none", "part", "whole"} :
        /\ conf' = [conf EXCEPT ![f] = written]
        /\ calm' = (calm /\ written = "whole")
        /\ script' = [script EXCEPT !.pc = IF written = "none" THEN Len(Install) + 1 ELSE @ + 1,
                                    !.error = @ \/ written = "none"]
    /\ UNCHANGED <<service, files, reported, runs, fresh>>

\* A command for service s, which the service manager carries out with the
\* new service t when it may, and may refuse for reasons of its own.
Exec(s, may, t) ==
    /\ \E fails \in BOOLEAN :
        LET ok == may /\ ~fails
        IN  /\ service' = IF ok THEN [service EXCEPT ![s] = t] ELSE service
            /\ NextCommand(ok)
            /\ calm' = (calm /\ ~fails)
    /\ UNCHANGED <<files, conf, reported, runs, fresh>>

CreateServiceZero(s) == \* mutant: 0 is expected of Redis, which answers 1
    /\ At("create", s)
    /\ service[s] = Absent
    /\ Become(s, "stopped")
    /\ NextCommand(s = "Apache24")
    /\ UNCHANGED <<files, conf, reported, runs, fresh, calm>>

CreateService(s) ==
    /\ At("create", s)
    /\ Exec(s, service[s] = Absent, [status |-> "stopped", doomed |-> FALSE])

StartService(s) ==
    /\ At("start", s)
    /\ Exec(s, service[s].status = "stopped" /\ ~service[s].doomed,
            [service[s] EXCEPT !.status = "starting"])

StopServiceUnchecked(s) == \* mutant: the exit code of sc stop is not looked at
    /\ At("stop", s)
    /\ service' = IF service[s].status = "running"
                  THEN [service EXCEPT ![s].status = "stopping"] ELSE service
    /\ NextCommand(TRUE)
    /\ UNCHANGED <<files, conf, reported, runs, fresh, calm>>

StopService(s) ==
    /\ At("stop", s)
    /\ Exec(s, service[s].status = "running", [service[s] EXCEPT !.status = "stopping"])

RemoveServiceMarked(s) == \* mutant: a stopped service is marked and never goes
    /\ At("delete", s)
    /\ Exec(s, service[s].status # "absent", [service[s] EXCEPT !.doomed = TRUE])

RemoveService(s) ==
    /\ At("delete", s)
    /\ Exec(s, service[s].status # "absent" /\ ~service[s].doomed,
            IF service[s].status = "stopped" THEN Absent ELSE [service[s] EXCEPT !.doomed = TRUE])

\* Logs that Apache holds open stay; nobody looks at the result.
DeleteCreatedFiles(s) ==
    /\ At("clear", s)
    /\ files' = IF s = "Apache24" /\ Alive(s) THEN files ELSE files \ {s}
    /\ NextCommand(TRUE)
    /\ UNCHANGED <<service, conf, reported, runs, fresh, calm>>

Report ==
    /\ script.name # "none" /\ ~Running
    /\ reported' = (IF script.name = "install"
                    THEN IF script.error THEN "start error" ELSE "started"
                    ELSE IF script.error THEN "stop error" ELSE "stopped")
    /\ script' = NoScript
    /\ UNCHANGED <<service, files, conf, runs, fresh, calm>>

\* The window of the script is closed.
Kill ==
    /\ script.name # "none"
    /\ script' = NoScript
    /\ UNCHANGED <<service, files, conf, reported, runs, fresh, calm>>

ScriptStep ==
    \/ \E f \in ConfFiles : WriteConf(f)
    \/ \E s \in Services :
        CreateService(s) \/ StartService(s) \/ StopService(s)
            \/ RemoveService(s) \/ DeleteCreatedFiles(s)
    \/ Report

Next ==
    \/ Begin("install") \/ Begin("uninstall") \/ ScriptStep \/ Kill
    \/ \E s \in Services : Come(s) \/ Halt(s) \/ Fail(s) \/ Write(s)

Spec == Init /\ [][Next]_vars

\* A service that was told to start or to stop does so at last.
FairSpec == Spec /\ \A s \in Services : WF_vars(Come(s)) /\ WF_vars(Halt(s))

----------------------------------------------------------------------------
\* The type invariant.
TypeOK ==
    /\ service \in [Services ->
            [status : {"absent", "stopped", "starting", "running", "stopping"},
             doomed : BOOLEAN]]
    /\ \A s \in Services : service[s].doomed => Alive(s)
    /\ files \subseteq Services /\ conf \in [ConfFiles -> {"none", "part", "whole"}]
    /\ script \in [name : {"none", "install", "uninstall"}, pc : 0 .. 7, error : BOOLEAN]
    /\ reported \in {"nothing", "started", "start error", "stopped", "stop error"}
    /\ runs \in 0 .. MaxRuns
    /\ fresh \in BOOLEAN /\ calm \in BOOLEAN

\* "Server started" is said only with both services installed, not marked
\* for deletion, and some of both configuration files written, whatever was
\* left of earlier runs and whatever the system refused.  The files are
\* whole if nothing has failed since: a short write is not noticed.
StartedIsInstalled ==
    reported = "started" =>
        /\ \A s \in Services : service[s].status # "absent" /\ ~service[s].doomed
        /\ \A f \in ConfFiles : conf[f] # "none" /\ (calm => conf[f] = "whole")

\* "Do uninstall and try again": an installer that finds no service and
\* meets no failure of the system starts the server.
CleanInstallSucceeds == fresh /\ calm => reported # "start error"

\* The uninstaller goes on after errors: at its end, with success or not,
\* each service is gone or will go when it stops, unless the system refused a
\* command for reasons of its own.
UninstallLeavesNone ==
    reported \in {"stopped", "stop error"} /\ calm =>
        \A s \in Services : service[s].status # "absent" => service[s].doomed

\* When it reports success no service is left that would go on running: it
\* has noticed every stop and every deletion that did not work.
UninstalledIsGoing ==
    reported = "stopped" =>
        \A s \in Services : service[s] = Absent
                                \/ service[s] = [status |-> "stopping", doomed |-> TRUE]

\* Once the uninstaller has reported success both services do go.
GoneAtLast ==
    reported = "stopped" ~> (reported # "stopped" \/ \A s \in Services : service[s] = Absent)

\* "Everything stopped, deleted, destroyed, erased, eliminated."
EverythingGone ==
    reported = "stopped" => files = {} /\ \A s \in Services : service[s] = Absent
================================================================================
