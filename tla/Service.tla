------------------------------ MODULE Service ------------------------------
(***************************************************************************)
(* Installing and removing the systemd service (tui/systemd/manager.go).   *)
(* Both are sequences of file operations and privileged commands, each of  *)
(* which may fail (the password is refused, systemctl answers with an      *)
(* error), and the program may be interrupted between any two.  The host   *)
(* may be rebooted at any time.                                            *)
(***************************************************************************)
EXTENDS Integers

VARIABLES
    distFile,   \* docker-compose.dist.yml is in the working directory
    scriptFile, \* .streamchop/watchdog.sh is there
    tmpUnit,    \* the rendered unit file waits in .streamchop
    unit,       \* the unit file is in /etc/systemd/system
    loaded,     \* systemd knows the unit
    enabled,    \* it is started with the host
    running,
    pc,         \* the next step of the operation at work, or "idle"
    outcome     \* how the last operation ended: "none", "installed",
                \* "uninstalled" or "error"

files == <<distFile, scriptFile, tmpUnit, unit>>
unitState == <<loaded, enabled, running>>
serviceVars == <<files, unitState, pc, outcome>>

InstallSteps == {"writeScript", "writeUnit", "moveUnit", "reload", "enable", "start"}
UninstallSteps == {"stop", "disable", "removeUnit", "reloadRemoved"}

\* The variables have their types, and the operation at work has done the steps
\* before the one it is at: systemctl is only asked for a unit that is in place, and
\* the script a unit runs was written before it, whatever was interrupted earlier.
ServiceTypeOK ==
    /\ {distFile, scriptFile, tmpUnit, unit, loaded, enabled, running} \subseteq BOOLEAN
    /\ pc \in {"idle"} \cup InstallSteps \cup UninstallSteps
    /\ outcome \in {"none", "installed", "uninstalled", "error"}
    /\ pc \in {"reload", "enable", "start", "stop", "disable", "removeUnit"} => unit
    /\ unit \/ tmpUnit \/ running => scriptFile /\ distFile

ServiceInit ==
    /\ distFile \in BOOLEAN
    /\ scriptFile = FALSE /\ tmpUnit = FALSE /\ unit = FALSE
    /\ loaded = FALSE /\ enabled = FALSE /\ running = FALSE
    /\ pc = "idle" /\ outcome = "none"

Ends(how) == pc' = "idle" /\ outcome' = how
GoesOn(next) == pc' = next /\ UNCHANGED outcome

-----------------------------------------------------------------------------
(* Install. *)

InstallSkipsScript ==                     \* mutant: the script is not written again
    /\ pc = "idle"
    /\ IF distFile /\ ~unit THEN pc' = "writeUnit" /\ outcome' = "none"
                            ELSE Ends("error")
    /\ UNCHANGED <<files, unitState>>

\* Refused without a compose file and with a unit file, whatever left it there.
Install ==
    /\ pc = "idle"
    /\ IF distFile /\ ~unit THEN pc' = "writeScript" /\ outcome' = "none"
                            ELSE Ends("error")
    /\ UNCHANGED <<files, unitState>>

WriteScript ==
    /\ pc = "writeScript"
    /\ scriptFile' = TRUE
    /\ GoesOn("writeUnit")
    /\ UNCHANGED <<distFile, tmpUnit, unit, unitState>>

WriteUnit ==
    /\ pc = "writeUnit"
    /\ tmpUnit' = TRUE
    /\ GoesOn("moveUnit")
    /\ UNCHANGED <<distFile, scriptFile, unit, unitState>>

MoveUnit ==
    /\ pc = "moveUnit"
    /\ tmpUnit' = FALSE /\ unit' = TRUE
    /\ GoesOn("reload")
    /\ UNCHANGED <<distFile, scriptFile, unitState>>

Reload ==
    /\ pc = "reload"
    /\ loaded' = unit
    /\ GoesOn("enable")
    /\ UNCHANGED <<files, enabled, running>>

EnableUnchecked ==                        \* mutant: its error is ignored
    /\ pc = "enable"
    /\ enabled' \in {TRUE, enabled}
    /\ GoesOn("start")
    /\ UNCHANGED <<files, loaded, running>>

Enable ==
    /\ pc = "enable"
    /\ enabled' = TRUE
    /\ GoesOn("start")
    /\ UNCHANGED <<files, loaded, running>>

Start ==
    /\ pc = "start"
    /\ running' = TRUE
    /\ Ends("installed")
    /\ UNCHANGED <<files, loaded, enabled>>

-----------------------------------------------------------------------------
(* Uninstall: that stopping and disabling failed is ignored. *)

Uninstall ==
    /\ pc = "idle"
    /\ IF unit THEN pc' = "stop" /\ outcome' = "none" ELSE Ends("error")
    /\ UNCHANGED <<files, unitState>>

Stop ==
    /\ pc = "stop"
    /\ running' \in {FALSE, running}
    /\ GoesOn("disable")
    /\ UNCHANGED <<files, loaded, enabled>>

Disable ==
    /\ pc = "disable"
    /\ enabled' \in {FALSE, enabled}
    /\ GoesOn("removeUnit")
    /\ UNCHANGED <<files, loaded, running>>

RemoveUnit ==
    /\ pc = "removeUnit"
    /\ unit' = FALSE
    /\ GoesOn("reloadRemoved")
    /\ UNCHANGED <<distFile, scriptFile, tmpUnit, unitState>>

ReloadRemoved ==
    /\ pc = "reloadRemoved"
    /\ loaded' = unit
    /\ Ends("uninstalled")
    /\ UNCHANGED <<files, enabled, running>>

-----------------------------------------------------------------------------

\* The first error ends an installation where it is, and so it does a removal once
\* the unit file is at stake.  A service that does not start is tried again by systemd.
Fail ==
    /\ pc \in InstallSteps \cup {"removeUnit", "reloadRemoved"}
    /\ running' \in {running, running \/ pc = "start"}
    /\ Ends("error")
    /\ UNCHANGED <<files, loaded, enabled>>

\* The program is killed.
Interrupt ==
    /\ pc # "idle"
    /\ Ends("error")
    /\ UNCHANGED <<files, unitState>>

\* The host starts again with what is enabled and there; a program at work is gone.
HostReboots ==
    /\ running' = (enabled /\ unit)
    /\ loaded' = unit
    /\ pc' = "idle"
    /\ outcome' = IF pc = "idle" THEN outcome ELSE "error"
    /\ UNCHANGED <<files, enabled>>

\* The watchdog script ends, by itself or with its containers.
ServiceEnds ==
    /\ running
    /\ running' = FALSE
    /\ UNCHANGED <<files, loaded, enabled, pc, outcome>>

\* The wizard writes the compose file.
SetupRuns ==
    /\ distFile' = TRUE
    /\ UNCHANGED <<scriptFile, tmpUnit, unit, unitState, pc, outcome>>

Installing == WriteScript \/ WriteUnit \/ MoveUnit \/ Reload \/ Enable \/ Start

Uninstalling == Stop \/ Disable \/ RemoveUnit \/ ReloadRemoved

ServiceNext ==
    \/ Install \/ Installing
    \/ Uninstall \/ Uninstalling
    \/ Fail \/ Interrupt \/ HostReboots \/ ServiceEnds \/ SetupRuns

ServiceSpec == ServiceInit /\ [][ServiceNext]_serviceVars

-----------------------------------------------------------------------------
(* Properties. *)

\* An installation that ended without an error lasts: through reboots and until
\* another operation begins, the unit is there, known to systemd and
\* started with the host.
InstalledLasts == outcome = "installed" => unit /\ loaded /\ enabled

\* A removal that ended without an error, after whatever failures of installations
\* and removals before it, leaves a host that can be installed on again, and on
\* which the next reboot starts nothing.
RemovedClears == outcome = "uninstalled" => ~unit /\ ~loaded

\* What Install and Uninstall answer without an error is true of the host, whatever
\* failed, was interrupted or rebooted before and whatever reboots come after.
SuccessHolds == InstalledLasts /\ RemovedClears

\* Uninstall stops and disables the service (what its comment says).
UninstallStops == outcome = "uninstalled" => ~running /\ ~enabled

=============================================================================
