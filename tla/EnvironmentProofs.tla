-------------------------- MODULE EnvironmentProofs --------------------------
(***************************************************************************)
(* Theorems about Environment for any number of runs of the scripts.       *)
(***************************************************************************)
EXTENDS Environment, TLAPS

Apache == "Apache24"
Redis == "redis6379"

Installed(s) == service[s].status # "absent" /\ ~service[s].doomed
Created(s) == service[s].status = "stopped" /\ ~service[s].doomed
Leaves(s) == service[s].status # "absent" => service[s].doomed
Stops(s) == service[s].status \in {"absent", "stopping", "stopped"}
Written(f) == conf[f] # "none" /\ (calm => conf[f] = "whole")
Goes(s) == service[s] = Absent \/ service[s] = [status |-> "stopping", doomed |-> TRUE]

\* A script that runs has a next command and has not reported yet.
Silent ==
    script.name # "none" => script.pc \in 1 .. 7 /\ reported = "nothing"

\* What an installer without an error has done up to its next command.
Installing ==
    script.name = "install" /\ ~script.error =>
        /\ script.pc > 1 => Written("httpd.conf")
        /\ script.pc > 2 => Written("php.ini")
        /\ script.pc > 3 => Installed(Apache)
        /\ script.pc > 5 => Installed(Redis)

\* An installer that found nothing and met no failure has no error: the
\* services it is to create are not there, those it is to start are.
InstallingClean ==
    script.name = "install" /\ fresh /\ calm =>
        /\ ~script.error
        /\ script.pc <= 3 => service[Apache] = Absent
        /\ script.pc = 4 => Created(Apache)
        /\ script.pc <= 5 => service[Redis] = Absent
        /\ script.pc = 6 => Created(Redis)

\* After a command to delete a service it leaves, whatever failed before.
Uninstalling ==
    script.name = "uninstall" /\ calm =>
        /\ script.pc > 2 => Leaves(Apache)
        /\ script.pc > 4 => Leaves(Redis)

\* Without an error it has stopped and then been marked or removed.
UninstallingWell ==
    script.name = "uninstall" /\ ~script.error =>
        /\ script.pc > 1 => Stops(Apache)
        /\ script.pc > 2 => Goes(Apache)
        /\ script.pc > 3 => Stops(Redis)
        /\ script.pc > 4 => Goes(Redis)

Progress == Silent /\ Installing /\ InstallingClean /\ Uninstalling /\ UninstallingWell

Promises ==
    StartedIsInstalled /\ CleanInstallSucceeds /\ UninstallLeavesNone /\ UninstalledIsGoing

EnvInv == TypeOK /\ Progress /\ Promises

Service ==
    [status : {"absent", "stopped", "starting", "running", "stopping"}, doomed : BOOLEAN]

Script == [name : {"none", "install", "uninstall"}, pc : 0 .. 7, error : BOOLEAN]

----------------------------------------------------------------------------
\* The place of every command in its script.
LEMMA AtFacts ==
    ASSUME TypeOK, Silent, NEW verb, NEW arg, At(verb, arg)
    PROVE  /\ script.pc \in 1 .. 6
           /\ \/ script.name = "install" /\ script.pc = 1 /\ verb = "write" /\ arg = "httpd.conf"
              \/ script.name = "install" /\ script.pc = 2 /\ verb = "write" /\ arg = "php.ini"
              \/ script.name = "install" /\ script.pc = 3 /\ verb = "create" /\ arg = Apache
              \/ script.name = "install" /\ script.pc = 4 /\ verb = "start" /\ arg = Apache
              \/ script.name = "install" /\ script.pc = 5 /\ verb = "create" /\ arg = Redis
              \/ script.name = "install" /\ script.pc = 6 /\ verb = "start" /\ arg = Redis
              \/ script.name = "uninstall" /\ script.pc = 1 /\ verb = "stop" /\ arg = Apache
              \/ script.name = "uninstall" /\ script.pc = 2 /\ verb = "delete" /\ arg = Apache
              \/ script.name = "uninstall" /\ script.pc = 3 /\ verb = "stop" /\ arg = Redis
              \/ script.name = "uninstall" /\ script.pc = 4 /\ verb = "delete" /\ arg = Redis
              \/ script.name = "uninstall" /\ script.pc = 5 /\ verb = "clear" /\ arg = Apache
              \/ script.name = "uninstall" /\ script.pc = 6 /\ verb = "clear" /\ arg = Redis
  <1>1. /\ script.name \in {"install", "uninstall"} /\ script.pc \in 1 .. 7
        /\ script.pc <= Len(Commands(script.name))
        /\ Commands(script.name)[script.pc] = <<verb, arg>>
    BY DEF At, Running, Command, TypeOK, Silent
  <1>2. Len(Install) = 6 /\ Len(Uninstall) = 6
    BY DEF Install, Uninstall
  <1>3. CASE script.name = "install"
    <2>1. script.pc \in 1 .. 6 /\ Install[script.pc] = <<verb, arg>>
      <3>1. Commands(script.name) = Install
        BY <1>3 DEF Commands
      <3>2. script.pc <= Len(Install) /\ Install[script.pc] = <<verb, arg>>
        BY <1>1, <3>1
      <3>3. QED
        BY <1>1, <1>2, <3>2
    <2>2. /\ Install[1] = <<"write", "httpd.conf">> /\ Install[2] = <<"write", "php.ini">>
          /\ Install[3] = <<"create", Apache>> /\ Install[4] = <<"start", Apache>>
          /\ Install[5] = <<"create", Redis>> /\ Install[6] = <<"start", Redis>>
      BY DEF Install, Apache, Redis
    <2>3. QED
      BY <1>3, <2>1, <2>2
  <1>4. CASE script.name = "uninstall"
    <2>1. script.pc \in 1 .. 6 /\ Uninstall[script.pc] = <<verb, arg>>
      <3>1. Commands(script.name) = Uninstall
        BY <1>4 DEF Commands
      <3>2. script.pc <= Len(Uninstall) /\ Uninstall[script.pc] = <<verb, arg>>
        BY <1>1, <3>1
      <3>3. QED
        BY <1>1, <1>2, <3>2
    <2>2. /\ Uninstall[1] = <<"stop", Apache>> /\ Uninstall[2] = <<"delete", Apache>>
          /\ Uninstall[3] = <<"stop", Redis>> /\ Uninstall[4] = <<"delete", Redis>>
          /\ Uninstall[5] = <<"clear", Apache>> /\ Uninstall[6] = <<"clear", Redis>>
      BY DEF Uninstall, Apache, Redis
    <2>3. QED
      BY <1>4, <2>1, <2>2
  <1>5. QED
    BY <1>1, <1>3, <1>4

LEMMA ScriptFacts ==
    ASSUME TypeOK, NEW p \in 0 .. 7, NEW e \in BOOLEAN,
           script' = [script EXCEPT !.pc = p, !.error = e]
    PROVE  /\ script' \in Script
           /\ script'.name = script.name /\ script'.pc = p /\ script'.error = e
  BY DEF TypeOK, Script

LEMMA NextCommandFacts ==
    ASSUME TypeOK, script.pc \in 1 .. 6, NEW ok \in BOOLEAN, NextCommand(ok)
    PROVE  /\ script' \in Script
           /\ script'.name = script.name /\ script'.pc = script.pc + 1
           /\ script'.error <=> (script.error \/ ~ok)
  <1> DEFINE e == script.error \/ ~ok
  <1>1. e \in BOOLEAN
    OBVIOUS
  <1>2. script' = [script EXCEPT !.pc = script.pc + 1, !.error = e]
    BY DEF NextCommand
  <1>3. script.pc + 1 \in 0 .. 7
    OBVIOUS
  <1> HIDE DEF e
  <1>4. /\ script' \in Script /\ script'.name = script.name
        /\ script'.pc = script.pc + 1 /\ script'.error = e
    BY <1>1, <1>2, <1>3, ScriptFacts
  <1>5. QED
    BY <1>4 DEF e

\* A script that has run all its commands.
LEMMA EndFacts ==
    ASSUME TypeOK, Silent, script.name # "none", ~Running
    PROVE  script.pc = 7 /\ script.name \in {"install", "uninstall"}
  <1>1. Len(Commands(script.name)) = 6
    BY DEF Commands, Install, Uninstall
  <1>2. QED
    BY <1>1 DEF Running, TypeOK, Silent

----------------------------------------------------------------------------
LEMMA InitEnvInv == Init => EnvInv
  <1> SUFFICES ASSUME Init PROVE EnvInv
    OBVIOUS
  <1>1. script = NoScript /\ script.name = "none" /\ script \in Script /\ reported = "nothing"
    BY DEF Init, NoScript, Script
  <1>2. TypeOK
    <2>1. /\ Absent \in Service /\ Absent.doomed = FALSE
          /\ service = [s \in Services |-> Absent]
      BY DEF Init, Absent, Service
    <2>2. service \in [Services -> Service] /\ \A s \in Services : ~service[s].doomed
      BY <2>1
    <2>3. /\ files = {} /\ runs \in 0 .. MaxRuns
          /\ conf \in [ConfFiles -> {"none", "part", "whole"}]
      BY RunsAssumption DEF Init, Unwritten
    <2>4. fresh \in BOOLEAN /\ calm \in BOOLEAN
      BY Zenon DEF Init
    <2>5. QED
      BY <1>1, <2>2, <2>3, <2>4 DEF TypeOK, Service, Script
  <1>3. Progress
    BY <1>1 DEF Progress, Silent, Installing, InstallingClean, Uninstalling, UninstallingWell
  <1>4. Promises
    BY <1>1 DEF Promises, StartedIsInstalled, CleanInstallSucceeds, UninstallLeavesNone,
                UninstalledIsGoing
  <1>5. QED
    BY <1>2, <1>3, <1>4 DEF EnvInv

\* A service that comes, halts or fails by itself: nothing that the
\* invariant says of a service is lost.
Moves(s) ==
    \/ service'[s] = service[s]
    \/ service[s].status = "starting" /\ service'[s] = [service[s] EXCEPT !.status = "running"]
    \/ /\ service[s].status \in {"starting", "running", "stopping"}
       /\ service'[s] = IF service[s].doomed THEN Absent
                        ELSE [service[s] EXCEPT !.status = "stopped"]

LEMMA MoveFacts ==
    ASSUME NEW s \in Services, service[s] \in Service, Moves(s),
           service[s].doomed => Alive(s)
    PROVE  /\ service'[s] \in Service
           /\ service'[s].doomed => service'[s].status \in {"starting", "running", "stopping"}
           /\ service[s] = Absent => service'[s] = Absent
           /\ Installed(s) => Installed(s)'
           /\ Created(s) => Created(s)'
           /\ Leaves(s) => Leaves(s)'
           /\ Stops(s) => Stops(s)'
           /\ Goes(s) => Goes(s)'
  <1>1. Absent \in Service /\ Absent.status = "absent" /\ Absent.doomed = FALSE
    BY DEF Absent, Service
  <1>2. CASE service'[s] = service[s]
    BY <1>2 DEF Alive, Installed, Created, Leaves, Stops, Goes
  <1>3. CASE /\ service[s].status = "starting"
             /\ service'[s] = [service[s] EXCEPT !.status = "running"]
    BY <1>1, <1>3 DEF Service, Installed, Created, Leaves, Stops, Goes
  <1>4. CASE /\ service[s].status \in {"starting", "running", "stopping"}
             /\ service[s].doomed
             /\ service'[s] = Absent
    BY <1>1, <1>4 DEF Service, Installed, Created, Leaves, Stops, Goes
  <1>5. CASE /\ service[s].status \in {"starting", "running", "stopping"}
             /\ ~service[s].doomed
             /\ service'[s] = [service[s] EXCEPT !.status = "stopped"]
    BY <1>1, <1>5 DEF Service, Installed, Created, Leaves, Stops, Goes
  <1>6. QED
    BY <1>2, <1>3, <1>4, <1>5 DEF Moves

LEMMA MoveEnvInv ==
    ASSUME EnvInv, service' \in [Services -> Service], \A s \in Services : Moves(s),
           UNCHANGED <<conf, script, reported, runs, fresh>>,
           files' \subseteq Services, calm' \in BOOLEAN, calm' => calm
    PROVE  EnvInv'
  <1>1. /\ \A s \in Services : service[s] \in Service /\ (service[s].doomed => Alive(s))
        /\ Apache \in Services /\ Redis \in Services
    BY DEF EnvInv, TypeOK, Service, Services, Apache, Redis
  <1>2. \A s \in Services :
            /\ service'[s] \in Service
            /\ service'[s].doomed => service'[s].status \in {"starting", "running", "stopping"}
            /\ service[s] = Absent => service'[s] = Absent
            /\ Installed(s) => Installed(s)'
            /\ Created(s) => Created(s)'
            /\ Leaves(s) => Leaves(s)'
            /\ Stops(s) => Stops(s)'
            /\ Goes(s) => Goes(s)'
    BY <1>1, MoveFacts
  <1>3. TypeOK'
    BY <1>2 DEF EnvInv, TypeOK, Alive, Service
  <1>4. Silent' /\ Installing' /\ InstallingClean' /\ Uninstalling' /\ UninstallingWell'
    BY <1>1, <1>2 DEF EnvInv, Progress, Silent, Installing, InstallingClean,
                      Uninstalling, UninstallingWell, Written
  <1>5. StartedIsInstalled'
    BY <1>2 DEF EnvInv, Promises, StartedIsInstalled, Installed
  <1>6. CleanInstallSucceeds'
    BY DEF EnvInv, Promises, CleanInstallSucceeds
  <1>7. UninstallLeavesNone'
    BY <1>2 DEF EnvInv, Promises, UninstallLeavesNone, Leaves
  <1>8. UninstalledIsGoing'
    BY <1>2 DEF EnvInv, Promises, UninstalledIsGoing, Goes
  <1>9. QED
    BY <1>3, <1>4, <1>5, <1>6, <1>7, <1>8 DEF EnvInv, Progress, Promises

\* The steps of the service manager are such moves.
LEMMA ComeEnvInv == ASSUME EnvInv, NEW s \in Services, Come(s) PROVE EnvInv'
  <1>1. service \in [Services -> Service]
    BY DEF EnvInv, TypeOK, Service
  <1>2. service' = [service EXCEPT ![s].status = "running"] /\ service[s].status = "starting"
    BY DEF Come, Become
  <1>3. service' \in [Services -> Service] /\ \A t \in Services : Moves(t)
    BY <1>1, <1>2 DEF Service, Moves
  <1>4. QED
    BY <1>3, MoveEnvInv DEF Come, EnvInv, TypeOK

LEMMA EndedMoves ==
    ASSUME EnvInv, NEW s \in Services, Ended(s), Alive(s)
    PROVE  service' \in [Services -> Service] /\ \A t \in Services : Moves(t)
  <1>1. service \in [Services -> Service] /\ Absent \in Service
    BY DEF EnvInv, TypeOK, Service, Absent
  <1> DEFINE n == IF service[s].doomed THEN Absent ELSE [service[s] EXCEPT !.status = "stopped"]
  <1>2. service' = [service EXCEPT ![s] = n]
    BY DEF Ended
  <1>3. n \in Service
    BY <1>1 DEF Service
  <1>4. Moves(s)
    BY <1>1, <1>2 DEF Moves, Alive
  <1> HIDE DEF n
  <1>5. QED
    BY <1>1, <1>2, <1>3, <1>4 DEF Moves

LEMMA StillEnvInv ==
    ASSUME EnvInv, UNCHANGED <<service, conf, script, reported, runs, fresh, calm>>,
           files' \subseteq Services
    PROVE  EnvInv'
  BY MoveEnvInv DEF EnvInv, TypeOK, Service, Moves

----------------------------------------------------------------------------
\* The steps of the operator.
LEMMA BeginEnvInv ==
    ASSUME EnvInv, NEW name \in {"install", "uninstall"}, Begin(name) PROVE EnvInv'
  <1>1. /\ script' = [name |-> name, pc |-> 1, error |-> FALSE] /\ reported' = "nothing"
        /\ runs < MaxRuns /\ runs' = runs + 1 /\ calm' = TRUE
        /\ UNCHANGED <<service, files>>
        /\ conf' = IF name = "install" THEN Unwritten ELSE conf
    BY DEF Begin
  <1>2. script' \in Script /\ script'.pc = 1 /\ script'.error = FALSE /\ script'.name = name
    BY <1>1 DEF Script
  <1>3. fresh' \in BOOLEAN /\ (fresh' => \A s \in Services : service[s] = Absent)
    BY DEF Begin
  <1>4. conf' \in [ConfFiles -> {"none", "part", "whole"}] /\ runs' \in 0 .. MaxRuns
    <2>1. conf' \in [ConfFiles -> {"none", "part", "whole"}]
      BY <1>1 DEF EnvInv, TypeOK, Unwritten
    <2>2. runs \in 0 .. MaxRuns
      BY DEF EnvInv, TypeOK
    <2>3. QED
      BY <1>1, <2>1, <2>2, RunsAssumption
  <1>5. TypeOK'
    BY <1>1, <1>2, <1>3, <1>4 DEF EnvInv, TypeOK, Alive, Script
  <1>6. Silent' /\ Installing' /\ Uninstalling' /\ UninstallingWell'
    BY <1>1, <1>2 DEF Silent, Installing, Uninstalling, UninstallingWell
  <1>7. InstallingClean'
    BY <1>1, <1>2, <1>3 DEF InstallingClean, Services, Apache, Redis
  <1>8. Promises'
    BY <1>1 DEF Promises, StartedIsInstalled, CleanInstallSucceeds, UninstallLeavesNone,
                UninstalledIsGoing
  <1>9. QED
    BY <1>5, <1>6, <1>7, <1>8 DEF EnvInv, Progress

LEMMA KillEnvInv == ASSUME EnvInv, Kill PROVE EnvInv'
  <1>1. /\ script' = NoScript /\ script'.name = "none" /\ script' \in Script
        /\ UNCHANGED <<service, files, conf, reported, runs, fresh, calm>>
    BY DEF Kill, NoScript, Script
  <1>2. TypeOK'
    BY <1>1 DEF EnvInv, TypeOK, Alive, Script
  <1>3. Progress'
    BY <1>1 DEF Progress, Silent, Installing, InstallingClean, Uninstalling, UninstallingWell
  <1>4. Promises'
    BY <1>1 DEF EnvInv, Promises, StartedIsInstalled, CleanInstallSucceeds,
                UninstallLeavesNone, UninstalledIsGoing
  <1>5. QED
    BY <1>2, <1>3, <1>4 DEF EnvInv

\* The end of a script: what it has done is what it says.
LEMMA ReportEnvInv == ASSUME EnvInv, Report PROVE EnvInv'
  <1>1. /\ script' = NoScript /\ script'.name = "none" /\ script' \in Script
        /\ UNCHANGED <<service, files, conf, runs, fresh, calm>>
    <2>1. script' = NoScript /\ UNCHANGED <<service, files, conf, runs, fresh, calm>>
      BY DEF Report
    <2>2. QED
      BY <2>1 DEF NoScript, Script
  <1>2. /\ script.pc = 7 /\ script.name \in {"install", "uninstall"}
        /\ script.pc > 2 /\ script.pc > 4
    <2>1. script.pc = 7 /\ script.name \in {"install", "uninstall"}
      BY EndFacts DEF EnvInv, Progress, Report
    <2>2. QED
      BY <2>1
  <1>3. /\ reported' \in {"started", "start error", "stopped", "stop error"}
        /\ reported' = "started" => script.name = "install" /\ ~script.error
        /\ reported' = "start error" => script.name = "install" /\ script.error
        /\ reported' = "stopped" => script.name = "uninstall" /\ ~script.error
        /\ reported' = "stop error" => script.name = "uninstall" /\ script.error
    BY <1>2 DEF Report
  <1>4. TypeOK'
    BY <1>1, <1>3 DEF EnvInv, TypeOK, Alive, Script
  <1>5. Progress'
    BY <1>1 DEF Progress, Silent, Installing, InstallingClean, Uninstalling, UninstallingWell
  <1>6. StartedIsInstalled'
    <2> SUFFICES ASSUME reported' = "started"
                 PROVE  (\A s \in Services : Installed(s)) /\ (\A f \in ConfFiles : Written(f))
      BY <1>1 DEF StartedIsInstalled, Installed, Written
    <2>1. /\ Written("httpd.conf") /\ Written("php.ini")
          /\ Installed(Apache) /\ Installed(Redis)
      BY <1>2, <1>3 DEF EnvInv, Progress, Installing
    <2>2. QED
      BY <2>1 DEF ConfFiles, Services, Apache, Redis
  <1>7. CleanInstallSucceeds'
    BY <1>1, <1>3 DEF EnvInv, Progress, InstallingClean, CleanInstallSucceeds
  <1>8. UninstallLeavesNone'
    <2> SUFFICES ASSUME reported' \in {"stopped", "stop error"}, calm
                 PROVE  \A s \in Services : Leaves(s)
      BY <1>1 DEF UninstallLeavesNone, Leaves
    <2>1. Leaves(Apache) /\ Leaves(Redis)
      <3>1. script.name = "uninstall"
        BY <1>3
      <3>2. QED
        BY <1>2, <3>1, Zenon DEF EnvInv, Progress, Uninstalling
    <2>2. QED
      BY <2>1 DEF Services, Apache, Redis
  <1>9. UninstalledIsGoing'
    BY <1>1, <1>2, <1>3 DEF EnvInv, Progress, UninstallingWell, Goes, UninstalledIsGoing,
                            Services, Apache, Redis
  <1>10. QED
    BY <1>4, <1>5, <1>6, <1>7, <1>8, <1>9 DEF EnvInv, Promises

----------------------------------------------------------------------------
\* The commands.  While a script runs nothing is reported, so the promises
\* hold.
LEMMA CommandPromises ==
    ASSUME EnvInv, script.name # "none", reported' = reported PROVE Promises'
  BY DEF EnvInv, Progress, Silent, Promises, StartedIsInstalled, CleanInstallSucceeds,
         UninstallLeavesNone, UninstalledIsGoing

LEMMA WriteConfEnvInv == ASSUME EnvInv, NEW f \in ConfFiles, WriteConf(f) PROVE EnvInv'
  <1>1. /\ script.pc \in 1 .. 6 /\ script.name = "install"
        /\ \/ script.pc = 1 /\ f = "httpd.conf"
           \/ script.pc = 2 /\ f = "php.ini"
    BY AtFacts DEF EnvInv, Progress, WriteConf
  <1>2. PICK written \in {"none", "part", "whole"} :
            /\ calm' = (calm /\ written = "whole")
            /\ conf' = [conf EXCEPT ![f] = written]
            /\ script' = [script EXCEPT !.pc = IF written = "none" THEN Len(Install) + 1 ELSE @ + 1,
                                        !.error = @ \/ written = "none"]
    BY DEF WriteConf
  <1>3. UNCHANGED <<service, files, reported, runs, fresh>>
    BY DEF WriteConf
  <1>4. Len(Install) = 6
    BY DEF Install
  <1>5. /\ script' \in Script /\ script'.name = "install"
        /\ script'.pc = IF written = "none" THEN 7 ELSE script.pc + 1
        /\ script'.error <=> (script.error \/ written = "none")
    <2> DEFINE p == IF written = "none" THEN Len(Install) + 1 ELSE script.pc + 1
               e == script.error \/ written = "none"
    <2>1. p \in 0 .. 7 /\ p = IF written = "none" THEN 7 ELSE script.pc + 1
      BY <1>1, <1>4
    <2>2. e \in BOOLEAN
      OBVIOUS
    <2>3. script' = [script EXCEPT !.pc = p, !.error = e]
      BY <1>2
    <2> HIDE DEF p, e
    <2>4. /\ script' \in Script /\ script'.name = script.name
          /\ script'.pc = p /\ script'.error = e
      BY <2>1, <2>2, <2>3, ScriptFacts DEF EnvInv
    <2>5. QED
      BY <1>1, <2>1, <2>4 DEF e
  <1>6. calm' \in BOOLEAN /\ (calm' <=> (calm /\ written = "whole"))
    BY <1>2 DEF EnvInv, TypeOK
  <1>7. TypeOK'
    BY <1>2, <1>3, <1>5, <1>6 DEF EnvInv, TypeOK, Alive, Script
  <1>8. Silent' /\ Uninstalling' /\ UninstallingWell'
    BY <1>1, <1>3, <1>5 DEF EnvInv, Progress, Silent, Uninstalling, UninstallingWell
  <1>9. Installing'
    <2>1. conf'[f] = written /\ \A g \in ConfFiles \ {f} : conf'[g] = conf[g]
      BY <1>2 DEF EnvInv, TypeOK
    <2>2. ASSUME ~script'.error
          PROVE  Written(f)' /\ script'.pc = script.pc + 1 /\ ~script.error
      BY <1>5, <1>6, <2>1, <2>2 DEF Written
    <2>3. \A g \in ConfFiles \ {f} : Written(g) => Written(g)'
      BY <1>6, <2>1 DEF Written
    <2>4. QED
      BY <1>1, <1>3, <1>5, <2>2, <2>3 DEF EnvInv, Progress, Installing, ConfFiles
  <1>10. InstallingClean'
    BY <1>1, <1>3, <1>5, <1>6 DEF EnvInv, Progress, InstallingClean, Created
  <1>11. Promises'
    BY <1>1, <1>3, CommandPromises
  <1>12. QED
    BY <1>7, <1>8, <1>9, <1>10, <1>11 DEF EnvInv, Progress

\* What a command for the service manager does to the state.
LEMMA ExecFacts ==
    ASSUME EnvInv, NEW s \in Services, NEW may \in BOOLEAN, NEW t \in Service,
           script.pc \in 1 .. 6, may /\ t.doomed => t.status \in {"starting", "running", "stopping"},
           Exec(s, may, t)
    PROVE  \E ok \in BOOLEAN :
             /\ ok => may /\ service'[s] = t
             /\ ~ok => service'[s] = service[s]
             /\ may /\ calm' => ok
             /\ calm' => calm
             /\ \A r \in Services \ {s} : service'[r] = service[r]
             /\ script'.name = script.name /\ script'.pc = script.pc + 1
             /\ script'.error <=> (script.error \/ ~ok)
             /\ UNCHANGED <<files, conf, reported, runs, fresh>>
             /\ TypeOK'
  <1>1. PICK fails \in BOOLEAN :
            /\ service' = IF may /\ ~fails THEN [service EXCEPT ![s] = t] ELSE service
            /\ NextCommand(may /\ ~fails)
            /\ calm' = (calm /\ ~fails)
    BY DEF Exec
  <1>2. UNCHANGED <<files, conf, reported, runs, fresh>>
    BY DEF Exec
  <1>3. PICK ok \in BOOLEAN : ok = (may /\ ~fails)
    OBVIOUS
  <1>4. NextCommand(ok) /\ service' = IF ok THEN [service EXCEPT ![s] = t] ELSE service
    BY <1>1, <1>3
  <1>5. /\ script' \in Script
        /\ script'.name = script.name /\ script'.pc = script.pc + 1
        /\ script'.error <=> (script.error \/ ~ok)
    BY <1>4, NextCommandFacts DEF EnvInv
  <1>6. service \in [Services -> Service] /\ \A r \in Services : service[r].doomed => Alive(r)
    BY DEF EnvInv, TypeOK, Service
  <1>7. /\ service' \in [Services -> Service]
        /\ ok => service'[s] = t
        /\ ~ok => service'[s] = service[s]
        /\ \A r \in Services \ {s} : service'[r] = service[r]
    BY <1>4, <1>6
  <1>8. \A r \in Services : service'[r].doomed =>
            service'[r].status \in {"starting", "running", "stopping"}
    <2>1. \A r \in Services \ {s} : service'[r].doomed =>
              service'[r].status \in {"starting", "running", "stopping"}
      BY <1>6, <1>7 DEF Alive
    <2>2. CASE ok
      BY <1>3, <1>7, <2>1, <2>2
    <2>3. CASE ~ok
      BY <1>6, <1>7, <2>1, <2>3 DEF Alive
    <2>4. QED
      BY <2>2, <2>3
  <1>9. calm' \in BOOLEAN /\ (calm' => calm) /\ (calm' => ~fails)
    BY <1>1 DEF EnvInv, TypeOK
  <1>10. TypeOK'
    BY <1>2, <1>5, <1>7, <1>8, <1>9 DEF EnvInv, TypeOK, Alive, Service, Script
  <1>11. QED
    BY <1>2, <1>3, <1>5, <1>7, <1>9, <1>10

LEMMA ServiceFacts ==
    ASSUME EnvInv, NEW s \in Services
    PROVE  /\ service[s] \in Service /\ (service[s].doomed => Alive(s))
           /\ Services = {Apache, Redis} /\ Apache # Redis
  BY DEF EnvInv, TypeOK, Service, Services, Apache, Redis

LEMMA CreateServiceEnvInv ==
    ASSUME EnvInv, NEW s \in Services, CreateService(s) PROVE EnvInv'
  <1> DEFINE may == service[s] = Absent
             t == [status |-> "stopped", doomed |-> FALSE]
  <1>1. /\ script.pc \in 1 .. 6 /\ script.name = "install"
        /\ \/ script.pc = 3 /\ s = Apache
           \/ script.pc = 5 /\ s = Redis
    BY AtFacts DEF EnvInv, Progress, CreateService
  <1>2. may \in BOOLEAN /\ t \in Service /\ t.doomed = FALSE /\ t.status = "stopped"
        /\ Exec(s, may, t)
    BY DEF CreateService, Service
  <1> HIDE DEF t
  <1>3. PICK ok \in BOOLEAN :
             /\ ok => may /\ service'[s] = t
             /\ ~ok => service'[s] = service[s]
             /\ may /\ calm' => ok
             /\ calm' => calm
             /\ \A r \in Services \ {s} : service'[r] = service[r]
             /\ script'.name = script.name /\ script'.pc = script.pc + 1
             /\ script'.error <=> (script.error \/ ~ok)
             /\ UNCHANGED <<files, conf, reported, runs, fresh>>
             /\ TypeOK'
    BY <1>1, <1>2, ExecFacts
  <1>4. Silent' /\ Uninstalling' /\ UninstallingWell'
    BY <1>1, <1>3 DEF EnvInv, Progress, Silent, Uninstalling, UninstallingWell
  <1>5. Installing'
    BY <1>1, <1>2, <1>3, ServiceFacts DEF EnvInv, Progress, Installing, Installed, Written
  <1>6. InstallingClean'
    BY <1>1, <1>2, <1>3, ServiceFacts DEF EnvInv, Progress, InstallingClean, Created
  <1>7. Promises'
    BY <1>1, <1>3, CommandPromises
  <1>8. QED
    BY <1>3, <1>4, <1>5, <1>6, <1>7 DEF EnvInv, Progress

LEMMA StartServiceEnvInv ==
    ASSUME EnvInv, NEW s \in Services, StartService(s) PROVE EnvInv'
  <1> DEFINE may == service[s].status = "stopped" /\ ~service[s].doomed
             t == [service[s] EXCEPT !.status = "starting"]
  <1>1. /\ script.pc \in 1 .. 6 /\ script.name = "install"
        /\ \/ script.pc = 4 /\ s = Apache
           \/ script.pc = 6 /\ s = Redis
    BY AtFacts DEF EnvInv, Progress, StartService
  <1>2. may \in BOOLEAN /\ t \in Service /\ t.doomed = service[s].doomed
        /\ t.status = "starting" /\ Exec(s, may, t)
    BY ServiceFacts DEF StartService, Service
  <1> HIDE DEF t
  <1>3. PICK ok \in BOOLEAN :
             /\ ok => may /\ service'[s] = t
             /\ ~ok => service'[s] = service[s]
             /\ may /\ calm' => ok
             /\ calm' => calm
             /\ \A r \in Services \ {s} : service'[r] = service[r]
             /\ script'.name = script.name /\ script'.pc = script.pc + 1
             /\ script'.error <=> (script.error \/ ~ok)
             /\ UNCHANGED <<files, conf, reported, runs, fresh>>
             /\ TypeOK'
    BY <1>1, <1>2, ExecFacts
  <1>4. Silent' /\ Uninstalling' /\ UninstallingWell'
    BY <1>1, <1>3 DEF EnvInv, Progress, Silent, Uninstalling, UninstallingWell
  <1>5. Installing'
    BY <1>1, <1>2, <1>3, ServiceFacts DEF EnvInv, Progress, Installing, Installed, Written
  <1>6. InstallingClean'
    BY <1>1, <1>2, <1>3, ServiceFacts DEF EnvInv, Progress, InstallingClean, Created
  <1>7. Promises'
    BY <1>1, <1>3, CommandPromises
  <1>8. QED
    BY <1>3, <1>4, <1>5, <1>6, <1>7 DEF EnvInv, Progress

LEMMA StopServiceEnvInv ==
    ASSUME EnvInv, NEW s \in Services, StopService(s) PROVE EnvInv'
  <1> DEFINE may == service[s].status = "running"
             t == [service[s] EXCEPT !.status = "stopping"]
  <1>1. /\ script.pc \in 1 .. 6 /\ script.name = "uninstall"
        /\ \/ script.pc = 1 /\ s = Apache
           \/ script.pc = 3 /\ s = Redis
    BY AtFacts DEF EnvInv, Progress, StopService
  <1>2. may \in BOOLEAN /\ t \in Service /\ t.doomed = service[s].doomed
        /\ t.status = "stopping" /\ Exec(s, may, t)
    BY ServiceFacts DEF StopService, Service
  <1> HIDE DEF t
  <1>3. PICK ok \in BOOLEAN :
             /\ ok => may /\ service'[s] = t
             /\ ~ok => service'[s] = service[s]
             /\ may /\ calm' => ok
             /\ calm' => calm
             /\ \A r \in Services \ {s} : service'[r] = service[r]
             /\ script'.name = script.name /\ script'.pc = script.pc + 1
             /\ script'.error <=> (script.error \/ ~ok)
             /\ UNCHANGED <<files, conf, reported, runs, fresh>>
             /\ TypeOK'
    BY <1>1, <1>2, ExecFacts
  <1>4. Silent' /\ Installing' /\ InstallingClean'
    BY <1>1, <1>3 DEF EnvInv, Progress, Silent, Installing, InstallingClean
  <1>5. Uninstalling'
    BY <1>1, <1>2, <1>3, ServiceFacts DEF EnvInv, Progress, Uninstalling, Leaves
  <1>6. UninstallingWell'
    BY <1>1, <1>2, <1>3, ServiceFacts DEF EnvInv, Progress, UninstallingWell, Stops, Goes
  <1>7. Promises'
    BY <1>1, <1>3, CommandPromises
  <1>8. QED
    BY <1>3, <1>4, <1>5, <1>6, <1>7 DEF EnvInv, Progress

LEMMA RemoveServiceEnvInv ==
    ASSUME EnvInv, NEW s \in Services, RemoveService(s) PROVE EnvInv'
  <1> DEFINE may == service[s].status # "absent" /\ ~service[s].doomed
             t == IF service[s].status = "stopped" THEN Absent
                  ELSE [service[s] EXCEPT !.doomed = TRUE]
  <1>1. /\ script.pc \in 1 .. 6 /\ script.name = "uninstall"
        /\ \/ script.pc = 2 /\ s = Apache
           \/ script.pc = 4 /\ s = Redis
    BY AtFacts DEF EnvInv, Progress, RemoveService
  <1>2. may \in BOOLEAN /\ Exec(s, may, t)
    BY DEF RemoveService
  <1>3. /\ t \in Service
        /\ t.status # "absent" => t.doomed
        /\ may => (t.doomed => t.status \in {"starting", "running", "stopping"})
        /\ service[s].status \in {"stopping", "stopped"} =>
               t = Absent \/ t = [status |-> "stopping", doomed |-> TRUE]
    BY ServiceFacts DEF Service, Absent
  <1> HIDE DEF t
  <1>4. PICK ok \in BOOLEAN :
             /\ ok => may /\ service'[s] = t
             /\ ~ok => service'[s] = service[s]
             /\ may /\ calm' => ok
             /\ calm' => calm
             /\ \A r \in Services \ {s} : service'[r] = service[r]
             /\ script'.name = script.name /\ script'.pc = script.pc + 1
             /\ script'.error <=> (script.error \/ ~ok)
             /\ UNCHANGED <<files, conf, reported, runs, fresh>>
             /\ TypeOK'
    BY <1>1, <1>2, <1>3, ExecFacts
  <1>5. Silent' /\ Installing' /\ InstallingClean'
    BY <1>1, <1>4 DEF EnvInv, Progress, Silent, Installing, InstallingClean
  <1>6. Uninstalling'
    BY <1>1, <1>3, <1>4, ServiceFacts DEF EnvInv, Progress, Uninstalling, Leaves
  <1>7. UninstallingWell'
    <2>1. /\ Services = {Apache, Redis} /\ Apache # Redis
          /\ service[s] \in Service /\ (service[s].doomed => Alive(s))
      BY ServiceFacts
    <2>2. ASSUME ~script'.error
          PROVE  Goes(s)' /\ Stops(s)'
      <3>1. ok /\ ~script.error
        BY <1>4, <2>2
      <3>2. Stops(s) /\ service[s].status # "absent"
        BY <1>1, <1>4, <3>1 DEF EnvInv, Progress, UninstallingWell
      <3>3. service'[s] = Absent \/ service'[s] = [status |-> "stopping", doomed |-> TRUE]
        BY <1>3, <1>4, <3>1, <3>2 DEF Stops
      <3>4. QED
        BY <3>3 DEF Goes, Stops, Absent
    <2>3. QED
      BY <1>1, <1>4, <2>1, <2>2 DEF EnvInv, Progress, UninstallingWell, Goes, Stops
  <1>8. Promises'
    BY <1>1, <1>4, CommandPromises
  <1>9. QED
    BY <1>4, <1>5, <1>6, <1>7, <1>8 DEF EnvInv, Progress

LEMMA DeleteCreatedFilesEnvInv ==
    ASSUME EnvInv, NEW s \in Services, DeleteCreatedFiles(s) PROVE EnvInv'
  <1>1. script.pc \in {5, 6} /\ script.name = "uninstall"
    BY AtFacts DEF EnvInv, Progress, DeleteCreatedFiles
  <1>2. /\ NextCommand(TRUE)
        /\ files' = IF s = "Apache24" /\ Alive(s) THEN files ELSE files \ {s}
        /\ UNCHANGED <<service, conf, reported, runs, fresh, calm>>
    BY DEF DeleteCreatedFiles
  <1>3. /\ script' \in Script /\ script'.name = script.name
        /\ script'.pc = script.pc + 1 /\ (script'.error <=> script.error)
    <2>1. \A ok \in BOOLEAN : NextCommand(ok) =>
              /\ script' \in Script /\ script'.name = script.name /\ script'.pc = script.pc + 1
              /\ script'.error <=> (script.error \/ ~ok)
      BY <1>1, NextCommandFacts DEF EnvInv
    <2>2. TRUE \in BOOLEAN
      OBVIOUS
    <2>3. QED
      BY <1>2, <2>1, <2>2
  <1>4. TypeOK'
    BY <1>2, <1>3 DEF EnvInv, TypeOK, Alive, Script
  <1>5. Progress'
    BY <1>1, <1>2, <1>3 DEF EnvInv, Progress, Silent, Installing, InstallingClean,
                            Uninstalling, UninstallingWell, Leaves, Stops, Goes
  <1>6. Promises'
    BY <1>1, <1>2, CommandPromises
  <1>7. QED
    BY <1>4, <1>5, <1>6 DEF EnvInv

----------------------------------------------------------------------------
LEMMA NextEnvInv == EnvInv /\ [Next]_vars => EnvInv'
  <1> SUFFICES ASSUME EnvInv, [Next]_vars PROVE EnvInv'
    OBVIOUS
  <1>1. CASE Begin("install") \/ Begin("uninstall")
    BY <1>1, BeginEnvInv
  <1>2. CASE ScriptStep
    BY <1>2, WriteConfEnvInv, CreateServiceEnvInv, StartServiceEnvInv, StopServiceEnvInv,
       RemoveServiceEnvInv, DeleteCreatedFilesEnvInv, ReportEnvInv DEF ScriptStep
  <1>3. ASSUME NEW s \in Services, Halt(s) PROVE EnvInv'
    <2>1. Ended(s) /\ Alive(s)
      BY <1>3 DEF Halt, Alive
    <2>2. QED
      BY <1>3, <2>1, EndedMoves, MoveEnvInv DEF Halt, EnvInv, TypeOK
  <1>4. ASSUME NEW s \in Services, Fail(s) PROVE EnvInv'
    <2>1. Ended(s) /\ Alive(s)
      BY <1>4 DEF Fail, Alive
    <2>2. QED
      BY <1>4, <2>1, EndedMoves, MoveEnvInv DEF Fail, EnvInv, TypeOK
  <1>5. ASSUME NEW s \in Services, Write(s) PROVE EnvInv'
    BY <1>5, StillEnvInv DEF Write, EnvInv, TypeOK
  <1>6. CASE UNCHANGED vars
    BY <1>6, StillEnvInv DEF vars, EnvInv, TypeOK
  <1>7. QED
    BY <1>1, <1>2, <1>3, <1>4, <1>5, <1>6, ComeEnvInv, KillEnvInv DEF Next

THEOREM EnvInvariant == Spec => []EnvInv
  BY InitEnvInv, NextEnvInv, PTL DEF Spec

\* The state keeps its types: a service is marked for deletion only while it
\* is alive, and a script is at one of its commands.
THEOREM EnvTypes == Spec => []TypeOK
  <1>1. EnvInv => TypeOK
    BY DEF EnvInv
  <1>2. QED
    BY <1>1, EnvInvariant, PTL

\* An installer that says it has started the server has written to both
\* files, all of them unless a write fell short, and both services are
\* installed, after any history of runs cut off anywhere.
THEOREM StartedMeansInstalled == Spec => []StartedIsInstalled
  <1>1. EnvInv => StartedIsInstalled
    BY DEF EnvInv, Promises
  <1>2. QED
    BY <1>1, EnvInvariant, PTL

\* An installer reports an error only if it found a service or if the
\* system failed, so "uninstall and try again" is good advice.
THEOREM CleanInstallsSucceed == Spec => []CleanInstallSucceeds
  <1>1. EnvInv => CleanInstallSucceeds
    BY DEF EnvInv, Promises
  <1>2. QED
    BY <1>1, EnvInvariant, PTL

\* An uninstaller leaves no service that will stay, even when it reports an
\* error, unless the system refused a command for reasons of its own.
THEOREM UninstallLeaves == Spec => []UninstallLeavesNone
  <1>1. EnvInv => UninstallLeavesNone
    BY DEF EnvInv, Promises
  <1>2. QED
    BY <1>1, EnvInvariant, PTL

\* An uninstaller that reports success leaves services that are gone or
\* about to go.
THEOREM UninstalledGoes == Spec => []UninstalledIsGoing
  <1>1. EnvInv => UninstalledIsGoing
    BY DEF EnvInv, Promises
  <1>2. QED
    BY <1>1, EnvInvariant, PTL
================================================================================
