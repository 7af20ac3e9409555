---------------------------- MODULE HomeAssistant ----------------------------
(***************************************************************************)
(* The scripts of homeassistant_script: three that set up five containers  *)
(* in a pod, their configuration and a systemd unit, each also with        *)
(* "remove", and the backup.  Every script says set -e: it ends at the     *)
(* first command that fails, and any may.  The administrator runs one at a *)
(* time, and again.  The user's podman and root's do not see each other's  *)
(* pods, but the ports and $BASE_DIR are the same.                         *)
(***************************************************************************)
EXTENDS Integers, Sequences, FiniteSets, SequencesExt

CONSTANTS HaRuns,   \* bounds on the scripts that are run and on
          HaEvents  \* what happens beside them

VARIABLES haDirs,    \* $BASE_DIR is there
          haFiles,   \* configuration files that are complete
          haPasswd,  \* password file of mosquitto: what is in it, and its owner
          haPods,    \* of each user: its pod, its containers, whether they run
          haBroker,  \* what the password file said when mosquitto was started last
          haUnits,   \* systemd units that are enabled
          haRun,     \* the script that runs: which, its steps to come, and
                     \* whether the backup found the pod running
          haDone,    \* history: the script that has just come to its end
          haCount,   \* history: scripts run
          haEvents   \* history: other events

haVars == <<haDirs, haFiles, haPasswd, haPods, haBroker, haUnits, haRun, haDone, haCount, haEvents>>

Containers == {"mariadb", "mosquitto", "zigbee2mqtt", "configurator", "homeassistant"}
ConfigFiles == {"mosquitto.conf", "configuration.yaml", "settings.conf", "init.sql",
                "homeassistant.yaml"}
Users == {"user", "root"}
NoPod == [exists |-> FALSE, has |-> {}, runs |-> FALSE]
NoPasswd == [text |-> "none", owner |-> "user"]
NoRun == [script |-> "none", steps |-> <<>>, found |-> FALSE]
NotDone == "none"

-----------------------------------------------------------------------------
(* The scripts: their commands, in order                                   *)

InstallEnv == <<"env">>
InstallDirs == <<"dirs", "device">>
InstallFiles == <<"mosquitto.conf", "blank passwd", "configuration.yaml", "settings.conf">>
InstallInit == <<"init.sql", "homeassistant.yaml">>
InstallPod == <<"pod rm", "pod create", "mariadb", "mosquitto_passwd", "mosquitto",
                "zigbee2mqtt", "configurator", "homeassistant">>
InstallRemove == <<"rm dirs">>

GeminiEnv == <<"env">>
GeminiFiles == <<"dirs", "chown", "device", "mosquitto.conf", "configuration.yaml", "settings.conf",
                 "init.sql">>
GeminiHome == <<"homeassistant.yaml">>
GeminiPod == <<"pod rm", "pod create", "mariadb", "touch passwd", "mosquitto_passwd",
               "secure passwd", "mosquitto", "zigbee2mqtt", "configurator", "homeassistant">>
GeminiUnit == <<"ha.service", "try start">>
GeminiRemove == <<"rm ha.service", "pod rm", "rm dirs">>

RootEnv == <<"env">>
RootFiles == <<"dirs", "chown", "device", "mosquitto.conf", "configuration.yaml", "settings.conf",
               "init.sql", "homeassistant.yaml", "touch passwd", "mosquitto_passwd",
               "secure passwd">>
RootPod == <<"pod rm", "pod create", "mariadb", "mosquitto", "zigbee2mqtt", "configurator",
             "homeassistant">>
RootUnit == <<"pod-ha.service", "start">>
RootRemove == <<"rm pod-ha.service", "pod rm", "rm dirs">>

\* Its search for the device is left out of the script: it always ends there.
RootlessSetup == <<"env", "dirs", "no device">>
RootlessRemove == <<"env", "pod rm", "rm dirs">>

Backup == <<"env", "pod stop", "tar", "restart">>

Steps == [install |-> InstallEnv \o InstallDirs \o InstallFiles \o InstallInit \o InstallPod,
          install_remove |-> InstallEnv \o InstallRemove,
          gemini |-> GeminiEnv \o GeminiFiles \o GeminiHome \o GeminiPod \o GeminiUnit,
          gemini_remove |-> GeminiEnv \o GeminiRemove,
          root |-> RootEnv \o RootFiles \o RootPod \o RootUnit,
          root_remove |-> RootEnv \o RootRemove,
          rootless |-> RootlessSetup, rootless_remove |-> RootlessRemove, backup |-> Backup]
Scripts == DOMAIN Steps
UserOf(s) == IF s \in {"gemini", "gemini_remove", "root", "root_remove"} THEN "root" ELSE "user"
UnitOf(s) == CASE s \in {"gemini", "gemini_remove"} -> "ha.service"
               [] s \in {"root", "root_remove"} -> "pod-ha.service"
               [] OTHER -> "none"

-----------------------------------------------------------------------------
(* What a command does.  u is the user whose podman it calls.              *)

\* mosquitto reads its password file when it starts.
BrokerReads(has) == haBroker' = IF "mosquitto" \in has THEN haPasswd.text ELSE haBroker

\* An explicit test that fails calls print_error: in ha-create-root.sh it
\* removes the pod, whoever made it; in create-homeassistant-gemini.sh it
\* calls itself for ever before it can.
PrintError(s) ==
  /\ haPods' = IF UserOf(s) = "root" /\ UnitOf(s) = "pod-ha.service"
               THEN [haPods EXCEPT !["root"] = NoPod] ELSE haPods
  /\ UNCHANGED <<haDirs, haFiles, haPasswd, haBroker, haUnits>>

MakeDirs == haDirs' = TRUE /\ UNCHANGED <<haFiles, haPasswd, haPods, haBroker, haUnits>>

WriteFile(f) ==
  /\ haDirs /\ haFiles' = haFiles \cup {f}
  /\ UNCHANGED <<haDirs, haPasswd, haPods, haBroker, haUnits>>

\* The password file, by user u: root may write what the user owns.
WritePasswd(u, step) ==
  /\ haDirs /\ (haPasswd.text = "none" \/ u = "root" \/ haPasswd.owner = u)
  /\ haPasswd' = CASE step = "blank passwd" -> [text |-> "blank", owner |-> IF haPasswd.text = "none" THEN u ELSE haPasswd.owner]
                   [] step = "touch passwd" -> IF haPasswd.text = "none" THEN [text |-> "blank", owner |-> u] ELSE haPasswd
                   [] step = "mosquitto_passwd" -> [haPasswd EXCEPT !.text = "user"]
                   [] step = "secure passwd" -> [haPasswd EXCEPT !.owner = "root"]
                   [] step = "chown" -> [haPasswd EXCEPT !.owner = "user"]
  /\ UNCHANGED <<haDirs, haFiles, haPods, haBroker, haUnits>>

RemovePod(u) == /\ haPods' = [haPods EXCEPT ![u] = NoPod]
                /\ UNCHANGED <<haDirs, haFiles, haPasswd, haBroker, haUnits>>

CreatePod(u) == /\ ~haPods[u].exists /\ haPods' = [haPods EXCEPT ![u].exists = TRUE]
                /\ UNCHANGED <<haDirs, haFiles, haPasswd, haBroker, haUnits>>

\* The ports are taken when the first container starts.
PortsFree(u) == \A v \in Users \ {u} : ~haPods[v].runs

RunContainer(u, c) ==
  /\ haPods[u].exists /\ PortsFree(u)
  /\ haPods' = [haPods EXCEPT ![u].has = @ \cup {c}, ![u].runs = TRUE]
  /\ BrokerReads({c})
  /\ UNCHANGED <<haDirs, haFiles, haPasswd, haUnits>>

StartPod(u) ==
  /\ haPods[u].exists /\ PortsFree(u) /\ haPods' = [haPods EXCEPT ![u].runs = TRUE]
  /\ IF haPods[u].runs THEN UNCHANGED haBroker ELSE BrokerReads(haPods[u].has)
  /\ UNCHANGED <<haDirs, haFiles, haPasswd, haUnits>>

EnableUnit(n) == haUnits' = haUnits \cup {n} /\ UNCHANGED <<haDirs, haFiles, haPasswd, haPods, haBroker>>
DisableUnit(n) == haUnits' = haUnits \ {n} /\ UNCHANGED <<haDirs, haFiles, haPasswd, haPods, haBroker>>

RemoveDirs == /\ haDirs' = FALSE /\ haFiles' = {} /\ haPasswd' = NoPasswd
              /\ UNCHANGED <<haPods, haBroker, haUnits>>

NothingDone == UNCHANGED <<haDirs, haFiles, haPasswd, haPods, haBroker, haUnits>>

\* Mutant of StopForBackup: the files are archived under the running pod.
DoNotStop == haPods["user"].exists /\ NothingDone

\* The pod has to be there; it is stopped if it runs.
StopForBackup ==
  /\ haPods["user"].exists /\ haPods' = [haPods EXCEPT !["user"].runs = FALSE]
  /\ UNCHANGED <<haDirs, haFiles, haPasswd, haBroker, haUnits>>

Does(u, step) ==
  CASE step = "dirs" -> MakeDirs
    [] step \in ConfigFiles -> WriteFile(step)
    [] step \in {"blank passwd", "touch passwd", "mosquitto_passwd", "secure passwd", "chown"} ->
         WritePasswd(u, step)
    [] step = "pod rm" -> RemovePod(u)
    [] step = "pod create" -> CreatePod(u)
    [] step \in Containers -> RunContainer(u, step)
    [] step \in {"ha.service", "pod-ha.service"} -> EnableUnit(step)
    [] step = "rm ha.service" -> DisableUnit("ha.service")
    [] step = "rm pod-ha.service" -> DisableUnit("pod-ha.service")
    [] step = "start" -> StartPod(u)
    [] step = "try start" -> StartPod(u) \/ NothingDone
    [] step = "rm dirs" -> RemoveDirs
    [] step = "pod stop" -> StopForBackup
    [] step = "restart" -> IF haRun.found THEN StartPod(u) ELSE NothingDone
    [] step = "no device" -> FALSE
    [] OTHER -> NothingDone  \* env, device and tar, when they succeed

\* What a command that fails may leave behind.
FailsAt(s, step) ==
  CASE step \in {"env", "device", "no device"} -> PrintError(s) \/ (step = "env" /\ NothingDone)
    [] step \in ConfigFiles -> /\ haFiles' \in {haFiles, haFiles \ {step}}
                               /\ UNCHANGED <<haDirs, haPasswd, haPods, haBroker, haUnits>>
    [] step = "pod rm" -> RemovePod(UserOf(s)) \/ NothingDone
    [] step \in Containers /\ haPods[UserOf(s)].exists ->  \* created, but not started
         /\ haPods' \in {haPods, [haPods EXCEPT ![UserOf(s)].has = @ \cup {step}]}
         /\ UNCHANGED <<haDirs, haFiles, haPasswd, haBroker, haUnits>>
    [] OTHER -> NothingDone

-----------------------------------------------------------------------------

HaStart ==
  /\ haDirs = FALSE /\ haFiles = {} /\ haPasswd = NoPasswd /\ haPods = [u \in Users |-> NoPod]
  /\ haBroker = "none" /\ haUnits = {} /\ haRun = NoRun /\ haDone = NotDone
  /\ haCount = 0 /\ haEvents = 0

HaBegin(s) ==
  /\ haRun = NoRun /\ haCount < HaRuns /\ haCount' = haCount + 1 /\ haDone' = NotDone
  /\ haRun' = [script |-> s, steps |-> Steps[s], found |-> haPods["user"].runs]
  /\ UNCHANGED <<haDirs, haFiles, haPasswd, haPods, haBroker, haUnits, haEvents>>

HaStep ==
  /\ haRun # NoRun /\ Does(UserOf(haRun.script), Head(haRun.steps))
  /\ IF Len(haRun.steps) = 1 THEN haRun' = NoRun /\ haDone' = haRun.script
     ELSE haRun' = [haRun EXCEPT !.steps = Tail(@)] /\ UNCHANGED haDone
  /\ UNCHANGED <<haCount, haEvents>>

\* A command fails, and set -e or print_error ends the script.
HaFail == /\ haRun # NoRun /\ FailsAt(haRun.script, Head(haRun.steps)) /\ haRun' = NoRun
          /\ UNCHANGED <<haDone, haCount, haEvents>>

HaEvent == haEvents < HaEvents /\ haEvents' = haEvents + 1 /\ haDone' = NotDone /\ UNCHANGED haCount

\* podman pod stop and podman pod start, as README.md has them.
HaAdmin(u) ==
  /\ haRun = NoRun /\ HaEvent /\ UNCHANGED haRun
  /\ \/ StartPod(u)
     \/ /\ haPods[u].runs /\ haPods' = [haPods EXCEPT ![u].runs = FALSE]
        /\ UNCHANGED <<haDirs, haFiles, haPasswd, haBroker, haUnits>>

\* The power goes, also under a script; root's pod may start by a unit (what
\* create-homeassistant-gemini.sh installs is the names of units, not one).
HaBoot ==
  /\ HaEvent /\ haRun' = NoRun
  /\ \E up \in {FALSE, haUnits # {} /\ haPods["root"].exists} :
         /\ haPods' = [u \in Users |-> [haPods[u] EXCEPT !.runs = u = "root" /\ up]]
         /\ IF up THEN BrokerReads(haPods["root"].has) ELSE UNCHANGED haBroker
  /\ UNCHANGED <<haDirs, haFiles, haPasswd, haUnits>>

HaNext ==
  \/ haRun = NoRun /\ \E s \in Scripts : HaBegin(s)
  \/ HaStep \/ HaFail \/ HaBoot
  \/ \E u \in Users : HaAdmin(u)

-----------------------------------------------------------------------------

(***************************************************************************)
(* A script that comes to its end has done its work whatever the scripts   *)
(* before it left: after a setup the pod runs the five containers, every   *)
(* file is there, mosquitto was started with its user and root's unit is   *)
(* enabled; after a remove of create-homeassistant-gemini.sh or            *)
(* ha-create-root.sh nothing of it is left; and the backup archives files  *)
(* that no container of its pod writes (to ensure data integrity,          *)
(* backup.sh:58) and leaves the pod running if it ran.                     *)
(***************************************************************************)
SetupConverges ==
  /\ haDone \in {"install", "gemini", "root"} =>
       /\ haPods[UserOf(haDone)] = [exists |-> TRUE, has |-> Containers, runs |-> TRUE]
       /\ haDirs /\ haFiles = ConfigFiles /\ haPasswd.text = "user" /\ haBroker = "user"
       /\ haDone # "install" => UnitOf(haDone) \in haUnits /\ haPasswd.owner = "root"
  /\ haDone \in {"gemini_remove", "root_remove"} =>
       haPods["root"] = NoPod /\ ~haDirs /\ UnitOf(haDone) \notin haUnits
  /\ haRun.script = "backup" /\ Head(haRun.steps) = "tar" => ~haPods["user"].runs
  /\ haRun.script = "backup" /\ haRun.steps = <<"restart">> => haPods["user"].exists
  /\ haDone # "rootless"
=============================================================================
