----------------------------- MODULE BiosUpdate -----------------------------
(***************************************************************************)
(* The direct flow of the BIOS update service (bios-update.py): compare    *)
(* the versions, find out which BIOS password is set, flash, load the      *)
(* defaults and set the default password again, on one board by way of     *)
(* several others because the firmware refuses a password it had lately.   *)
(* A password is its prefix and its last digit; a call of syscfg works if  *)
(* the password it is given is the current one, and may fail all the same. *)
(***************************************************************************)
EXTENDS Integers, Sequences

CONSTANTS BiosVersions,    \* versions: the fields that are compared, <<letters, number>>
          BiosUpdateRuns   \* bound: runs of the service

ASSUME VersionsAssumption == BiosVersions \subseteq Seq(Nat \X Nat)

VARIABLES fcpBoard,       \* the board is M50FCP2SBSTD
          customPassword, \* -p was given
          password,       \* the one the firmware has
          biosPasswordInUse,
          installed, candidate,
          installationTrace,  \* the file installation_started exists
          updateAt,       \* where the service is
          danceStep,      \* steps of preparing_to_set_password it has made
          updateRuns,
          pwStart,        \* history: the password the last check found
          pwSmooth,       \* history: since then no call failed and the power stayed
          seenVersions    \* history: what has been installed, from the last --force on

updateVars == <<fcpBoard, customPassword, password, biosPasswordInUse, installed, candidate,
                installationTrace, updateAt, danceStep, updateRuns, pwStart, pwSmooth, seenVersions>>

Default == <<"D31h20!", 6>>
Blank == <<"", 0>>
Custom == <<"custom", 0>>
Unknown == <<"unknown", 0>>

UpdateStart ==
  /\ fcpBoard \in BOOLEAN /\ customPassword \in BOOLEAN
  /\ password \in {Default, Blank, Custom, Unknown} /\ biosPasswordInUse = Unknown
  /\ installed \in BiosVersions /\ candidate \in BiosVersions
  /\ installationTrace = FALSE /\ updateAt = "off" /\ danceStep = 0 /\ updateRuns = 0
  /\ pwStart = Unknown /\ pwSmooth = TRUE /\ seenVersions = <<installed>>

-----------------------------------------------------------------------------
(* compare_bios_versions; "error" is the ValueError of a field with letters *)
(* against one without                                                      *)

lower_than(l, r) == l[1] < r[1] \/ (l[1] = r[1] /\ l[2] < r[2])
Comparable(l, r) == (l[1] = 0) = (r[1] = 0)

\* Mutant of compare_bios_versions: the longer version is always the newer one.
compareLengthFirst(current, new) ==
  IF Len(current) < Len(new) THEN 1
  ELSE IF Len(current) > Len(new) THEN 2
  ELSE IF \E i \in 1 .. Len(new) : lower_than(current[i], new[i]) THEN 1 ELSE 0

compare_bios_versions(current, new) ==
  LET differ == {i \in 1 .. Len(current) : current[i] # new[i]}
      first == CHOOSE i \in differ : \A j \in differ : i <= j
  IN  CASE Len(current) > Len(new) -> 2  \* None
        [] Len(current) <= Len(new) /\ differ = {} -> IF Len(current) < Len(new) THEN 1 ELSE 0
        [] OTHER -> IF ~Comparable(current[first], new[first]) THEN 3  \* ValueError
                    ELSE IF lower_than(current[first], new[first]) THEN 1 ELSE -1

-----------------------------------------------------------------------------
(* A run of the service                                                     *)

Works(p) == password = p
UpdGoto(at) == updateAt' = at
KeepsVersions == UNCHANGED <<fcpBoard, customPassword, installed, candidate, seenVersions>>
KeepsPassword == UNCHANGED <<password, biosPasswordInUse, danceStep, pwStart, pwSmooth>>

\* main and is_update_available; force stands for --force.
is_update_available ==
  /\ updateAt = "off" /\ updateRuns < BiosUpdateRuns /\ updateRuns' = updateRuns + 1
  /\ \E force \in BOOLEAN :
       LET newer == compare_bios_versions(installed, candidate) = 1 IN
       /\ UpdGoto(IF newer \/ force THEN "password" ELSE "finally")
       /\ seenVersions' = IF force THEN <<>> ELSE seenVersions
  /\ KeepsPassword
  /\ UNCHANGED <<fcpBoard, customPassword, installed, candidate, installationTrace>>

\* check_bios_password for M50FCP2SBSTD sets the blank password, for the
\* others it finds out which one is set by setting it again.
check_bios_password ==
  /\ updateAt = "password"
  /\ \/ /\ fcpBoard /\ password \in {Default, Blank}
        /\ password' = Blank /\ biosPasswordInUse' = Blank /\ pwSmooth' = TRUE
        /\ pwStart' = password /\ UpdGoto("flash")
     \/ /\ ~fcpBoard /\ \/ password \in {Default, Blank}
                        \/ customPassword /\ password = Custom
        /\ biosPasswordInUse' = password /\ pwSmooth' = TRUE
        /\ pwStart' = password /\ UpdGoto("flash") /\ UNCHANGED password
     \/ /\ UpdGoto("finally")  \* none of them, or a call fails
        /\ UNCHANGED <<password, biosPasswordInUse, pwSmooth, pwStart>>
  /\ KeepsVersions /\ UNCHANGED <<installationTrace, danceStep, updateRuns>>

\* extract_bios_files, which may find no file, and update_bios.
UpdateFails ==
  /\ updateAt = "flash" /\ UpdGoto("finally")
  /\ installationTrace' \in {installationTrace, TRUE}  \* no file; return code not 0
  /\ KeepsVersions /\ KeepsPassword /\ UNCHANGED updateRuns

UpdateSucceeds ==
  /\ updateAt = "flash" /\ installed' = candidate
  /\ seenVersions' = Append(seenVersions, candidate)
  /\ UpdGoto(CASE customPassword -> "finally"
               [] ~customPassword /\ fcpBoard -> "dance"
               [] OTHER -> "default")
  /\ KeepsPassword
  /\ UNCHANGED <<fcpBoard, customPassword, candidate, installationTrace, updateRuns>>

\* Mutant of SetPassword: the result of the call is not looked at.
SetPasswordBlindly(new) ==
  /\ biosPasswordInUse' = new
  /\ \/ Works(biosPasswordInUse) /\ password' = new /\ UNCHANGED pwSmooth
     \/ pwSmooth' = FALSE /\ UNCHANGED password

\* set_bios_password(biosPasswordInUse, new), and what its result is used for.
SetPassword(new) ==
  \/ /\ Works(biosPasswordInUse) /\ password' = new /\ biosPasswordInUse' = new
     /\ UNCHANGED pwSmooth
  \/ /\ pwSmooth' = FALSE /\ UNCHANGED <<password, biosPasswordInUse>>

\* biosPasswordInUse[:-2] + str(i) + "'"
NextDigit(p, i) == <<p[1], i>>

\* preparing_to_set_password: from the blank one to 1, then to 2, 3, 4, 5 and 7.
DanceSteps == <<1, 2, 3, 4, 5, 7>>
preparing_to_set_password ==
  /\ updateAt = "dance"
  /\ danceStep' = (danceStep + 1) % Len(DanceSteps)
  /\ UpdGoto(IF danceStep' = 0 THEN "default" ELSE "dance")
  /\ IF danceStep = 0
     THEN IF biosPasswordInUse = Blank THEN SetPassword(<<Default[1], DanceSteps[1]>>)
          ELSE UNCHANGED <<password, biosPasswordInUse, pwSmooth>>
     ELSE SetPassword(NextDigit(biosPasswordInUse, DanceSteps[danceStep + 1]))
  /\ KeepsVersions /\ UNCHANGED <<installationTrace, updateRuns, pwStart>>

\* The last call; its result is not looked at.
SetDefaultPassword ==
  /\ updateAt = "default" /\ UpdGoto("finally")
  /\ \/ Works(biosPasswordInUse) /\ password' = Default /\ UNCHANGED pwSmooth
     \/ pwSmooth' = FALSE /\ UNCHANGED password
  /\ KeepsVersions
  /\ UNCHANGED <<biosPasswordInUse, installationTrace, danceStep, updateRuns, pwStart>>

\* disable_service and the power cycle; another image may come.  The power
\* may also go before.
PowerGoes ==
  /\ updateAt # "off" /\ UpdGoto("off")
  /\ pwSmooth' = (pwSmooth /\ updateAt = "finally")
  /\ candidate' \in BiosVersions /\ danceStep' = 0
  /\ UNCHANGED <<fcpBoard, customPassword, password, biosPasswordInUse, installed,
                 installationTrace, updateRuns, pwStart, seenVersions>>

BiosUpdateNext ==
  \/ is_update_available \/ check_bios_password \/ UpdateFails \/ UpdateSucceeds
  \/ preparing_to_set_password \/ SetDefaultPassword \/ PowerGoes

BiosUpdateSpec == UpdateStart /\ [][BiosUpdateNext]_updateVars

-----------------------------------------------------------------------------

(***************************************************************************)
(* The service knows the password it is about to give to syscfg, whatever  *)
(* calls have failed before (bios-update.py:171-178); and a run in which   *)
(* none fails and the power stays never leaves the machine with a password *)
(* the next run does not know.                                             *)
(***************************************************************************)
PasswordTracked ==
  /\ updateAt \notin {"off", "password", "finally"} => password = biosPasswordInUse
  /\ updateAt = "off" /\ pwSmooth /\ pwStart # Unknown =>
       password \in {Default, Blank} \/ (customPassword /\ password = Custom)

(***************************************************************************)
(* Without force a version is never left and come back to: what            *)
(* compare_bios_versions calls an update has no cycles, over versions of   *)
(* different lengths and with letters too (bios_update_tools.py:763-805).  *)
(***************************************************************************)
NeverComesBack ==
  \A i, j \in 1 .. Len(seenVersions) : seenVersions[i] = seenVersions[j] => i = j

(***************************************************************************)
(* The direct flow, whichever step of it failed: the service knows the     *)
(* password the BIOS has, and no version comes back once a newer one was   *)
(* installed.                                                              *)
(***************************************************************************)
BiosKeepsTrack == PasswordTracked /\ NeverComesBack
=============================================================================
