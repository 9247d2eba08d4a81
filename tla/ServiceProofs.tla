--------------------------- MODULE ServiceProofs ---------------------------
(***************************************************************************)
(* The safety of the service: of its installation and removal, after any   *)
(* failures, interruptions and reboots; and of the installed service at    *)
(* work, for any timers, any number of containers and any number of        *)
(* faults.                                                                 *)
(*                                                                         *)
(* What an operation has achieved: each step relies on what those before   *)
(* it did to the host, and a reboot, which may come between any two, does  *)
(* not undo it.  Who is killed: the time since the script last reported is *)
(* what it spent in docker commands and in its sleep, and it sleeps once   *)
(* between two reports.  What a stop leaves: while `down` is at work, what *)
(* is there is on its list, or was not declared when it began, or was      *)
(* started by an `up` beside it.                                           *)
(***************************************************************************)
EXTENDS Service, Watchdog, TLAPS

-----------------------------------------------------------------------------
(* Installing and removing. *)

\* What the operation at work has done by its next step, and an answer without an error
\* has left.
Achieved ==
    /\ pc # "idle" => outcome = "none"
    /\ pc = "writeScript" => distFile
    /\ pc \in {"writeUnit", "moveUnit"} => distFile /\ scriptFile
    /\ pc \in {"enable", "start"} => loaded
    /\ pc = "start" => enabled
    /\ pc = "reloadRemoved" => ~unit

ServiceInv == ServiceTypeOK /\ Achieved /\ InstalledLasts /\ RemovedClears

\* Nothing is installed at first.
LEMMA ServiceInitially == ServiceInit => ServiceInv
  BY DEF ServiceInit, ServiceInv, ServiceTypeOK, Achieved, InstalledLasts, RemovedClears,
         InstallSteps, UninstallSteps

\* No step of an operation, no failure and no reboot breaks it.
LEMMA ServiceInductive == ServiceInv /\ [ServiceNext]_serviceVars => ServiceInv'
<1> SUFFICES ASSUME ServiceInv, [ServiceNext]_serviceVars PROVE ServiceInv'
  OBVIOUS
<1> USE DEF ServiceInv, ServiceTypeOK, Achieved, InstalledLasts, RemovedClears, InstallSteps,
            UninstallSteps, files, unitState, Ends, GoesOn
<1>1. CASE Install
  BY <1>1 DEF Install
<1>2. CASE WriteScript
  BY <1>2 DEF WriteScript
<1>3. CASE WriteUnit
  BY <1>3 DEF WriteUnit
<1>4. CASE MoveUnit
  BY <1>4 DEF MoveUnit
<1>5. CASE Reload
  BY <1>5 DEF Reload
<1>6. CASE Enable
  BY <1>6 DEF Enable
<1>7. CASE Start
  BY <1>7 DEF Start
<1>8. CASE Uninstall
  BY <1>8 DEF Uninstall
<1>9. CASE Stop
  BY <1>9 DEF Stop
<1>10. CASE Disable
  BY <1>10 DEF Disable
<1>11. CASE RemoveUnit
  BY <1>11 DEF RemoveUnit
<1>12. CASE ReloadRemoved
  BY <1>12 DEF ReloadRemoved
<1>13. CASE Fail
  BY <1>13 DEF Fail
<1>14. CASE Interrupt
  BY <1>14 DEF Interrupt
<1>15. CASE HostReboots
  BY <1>15 DEF HostReboots
<1>16. CASE ServiceEnds
  BY <1>16 DEF ServiceEnds
<1>17. CASE SetupRuns
  BY <1>17 DEF SetupRuns
<1>18. CASE UNCHANGED serviceVars
  BY <1>18 DEF serviceVars
<1> QED
  BY <1>1, <1>2, <1>3, <1>4, <1>5, <1>6, <1>7, <1>8, <1>9, <1>10, <1>11, <1>12, <1>13,
     <1>14, <1>15, <1>16, <1>17, <1>18, Zenon
     DEF ServiceNext, Installing, Uninstalling

\* The invariant behind the next two holds in every reachable state.
THEOREM ServiceInvariance == ServiceSpec => []ServiceInv
<1> QED
  BY ServiceInitially, ServiceInductive, PTL DEF ServiceSpec

\* systemctl is only asked for a unit that is in place, and a unit only runs a script that
\* was written before it (Install).
THEOREM ServiceTypeCorrect == ServiceSpec => []ServiceTypeOK
<1>1. ServiceInv => ServiceTypeOK
  BY DEF ServiceInv
<1> QED
  BY <1>1, ServiceInvariance, PTL

\* An installation that answered without an error is there after any number of reboots,
\* and a removal that did has left nothing that stands in the way of an installation or of
\* the next start of the host (Install, Uninstall).
THEOREM SuccessIsTrue == ServiceSpec => []SuccessHolds
<1>1. ServiceInv => SuccessHolds
  BY DEF ServiceInv, SuccessHolds
<1> QED
  BY <1>1, ServiceInvariance, PTL

-----------------------------------------------------------------------------
(* The service at work. *)

Asleep == IF script = "sleep" THEN age ELSE IF script = "query" THEN Interval ELSE 0

SleepsOnce == quiet <= busy + Asleep

DownCovers ==
    service = "stopping" =>
        \A c \in Container \ excused : stack[c] # "absent" => c \in removing

IInv == TypeOK /\ SleepsOnce /\ DownCovers /\ StopLeavesNothing

USE DEF systemd, watch, shell, docker

-----------------------------------------------------------------------------

\* A service that is not there has no timer running and nothing to leave.
LEMMA Initially == Init => IInv
<1> SUFFICES ASSUME Init PROVE IInv
  OBVIOUS
<1> USE WatchdogAssumption DEF Init
<1>1. FlagsOK
  BY DEF FlagsOK
<1>2. TimersOK
  BY DEF TimersOK
<1>3. StackOK
  BY DEF StackOK
<1>4. SleepsOnce /\ DownCovers /\ StopLeavesNothing
  BY DEF SleepsOnce, Asleep, DownCovers, StopLeavesNothing
<1> QED
  BY <1>1, <1>2, <1>3, <1>4 DEF IInv, TypeOK

\* No step of the script, of systemd, of Docker, of the clock or of the user breaks it.
LEMMA Inductive == IInv /\ [Next]_vars => IInv'
<1> SUFFICES ASSUME IInv, [Next]_vars PROVE IInv'
  OBVIOUS
<1> USE WatchdogAssumption DEF IInv, TypeOK
<1>1. ASSUME NEW c \in Container, UpStarts(c) PROVE IInv'
  <2>1. FlagsOK'
    BY <1>1 DEF UpStarts, FlagsOK, TimersOK
  <2>2. TimersOK'
    BY <1>1 DEF UpStarts, TimersOK
  <2>3. StackOK'
    BY <1>1 DEF UpStarts, StackOK, TimersOK
  <2>4. SleepsOnce'
    BY <1>1 DEF UpStarts, TimersOK, SleepsOnce, Asleep
  <2>5. DownCovers' /\ StopLeavesNothing'
    BY <1>1 DEF UpStarts, FlagsOK, TimersOK, StackOK, DownCovers, StopLeavesNothing
  <2> QED
    BY <2>1, <2>2, <2>3, <2>4, <2>5
<1>2. CASE UpEnds
  <2>1. FlagsOK'
    BY <1>2 DEF UpEnds, FlagsOK, TimersOK
  <2>2. TimersOK'
    BY <1>2 DEF UpEnds, TimersOK
  <2>3. StackOK'
    BY <1>2 DEF UpEnds, StackOK, TimersOK
  <2>4. SleepsOnce'
    BY <1>2 DEF UpEnds, TimersOK, SleepsOnce, Asleep
  <2>5. DownCovers' /\ StopLeavesNothing'
    BY <1>2 DEF UpEnds, FlagsOK, TimersOK, StackOK, DownCovers, StopLeavesNothing
  <2> QED
    BY <2>1, <2>2, <2>3, <2>4, <2>5
<1>3. CASE WakeUp
  <2>1. FlagsOK'
    BY <1>3 DEF WakeUp, FlagsOK, TimersOK
  <2>2. TimersOK'
    BY <1>3 DEF WakeUp, TimersOK
  <2>3. StackOK'
    BY <1>3 DEF WakeUp, StackOK, TimersOK
  <2>4. SleepsOnce'
    BY <1>3 DEF WakeUp, TimersOK, SleepsOnce, Asleep
  <2>5. DownCovers' /\ StopLeavesNothing'
    BY <1>3 DEF WakeUp, FlagsOK, TimersOK, StackOK, DownCovers, StopLeavesNothing
  <2> QED
    BY <2>1, <2>2, <2>3, <2>4, <2>5
<1>4. CASE QueryFinds
  <2>1. FlagsOK'
    BY <1>4 DEF QueryFinds, ScriptFails, NoScript, Silent, BeginStop, FlagsOK, TimersOK
  <2>2. TimersOK'
    BY <1>4 DEF QueryFinds, ScriptFails, NoScript, Silent, BeginStop, TimersOK
  <2>3. StackOK'
    BY <1>4 DEF QueryFinds, ScriptFails, NoScript, Silent, BeginStop, StackOK, TimersOK
  <2>4. SleepsOnce'
    BY <1>4 DEF QueryFinds, ScriptFails, NoScript, Silent, BeginStop, TimersOK, SleepsOnce, Asleep
  <2>5. DownCovers' /\ StopLeavesNothing'
    BY <1>4 DEF QueryFinds, ScriptFails, NoScript, Silent, BeginStop, FlagsOK, TimersOK, StackOK, DownCovers, StopLeavesNothing
  <2> QED
    BY <2>1, <2>2, <2>3, <2>4, <2>5
<1>5. CASE QueryClean
  <2>1. FlagsOK'
    BY <1>5 DEF QueryClean, Silent, FlagsOK, TimersOK
  <2>2. TimersOK'
    BY <1>5 DEF QueryClean, Silent, TimersOK
  <2>3. StackOK'
    BY <1>5 DEF QueryClean, Silent, StackOK, TimersOK
  <2>4. SleepsOnce'
    BY <1>5 DEF QueryClean, Silent, TimersOK, SleepsOnce, Asleep
  <2>5. DownCovers' /\ StopLeavesNothing'
    BY <1>5 DEF QueryClean, Silent, FlagsOK, TimersOK, StackOK, DownCovers, StopLeavesNothing
  <2> QED
    BY <2>1, <2>2, <2>3, <2>4, <2>5
<1>6. CASE UserStart
  <2>1. FlagsOK'
    BY <1>6 DEF UserStart, Begin, FlagsOK, TimersOK
  <2>2. TimersOK'
    BY <1>6 DEF UserStart, Begin, TimersOK
  <2>3. StackOK'
    BY <1>6 DEF UserStart, Begin, StackOK, TimersOK
  <2>4. SleepsOnce'
    BY <1>6 DEF UserStart, Begin, TimersOK, SleepsOnce, Asleep
  <2>5. DownCovers' /\ StopLeavesNothing'
    BY <1>6 DEF UserStart, Begin, FlagsOK, TimersOK, StackOK, DownCovers, StopLeavesNothing
  <2> QED
    BY <2>1, <2>2, <2>3, <2>4, <2>5
<1>7. CASE Restarts
  <2>1. FlagsOK'
    BY <1>7 DEF Restarts, Begin, FlagsOK, TimersOK
  <2>2. TimersOK'
    BY <1>7 DEF Restarts, Begin, TimersOK
  <2>3. StackOK'
    BY <1>7 DEF Restarts, Begin, StackOK, TimersOK
  <2>4. SleepsOnce'
    BY <1>7 DEF Restarts, Begin, TimersOK, SleepsOnce, Asleep
  <2>5. DownCovers' /\ StopLeavesNothing'
    BY <1>7 DEF Restarts, Begin, FlagsOK, TimersOK, StackOK, DownCovers, StopLeavesNothing
  <2> QED
    BY <2>1, <2>2, <2>3, <2>4, <2>5
<1>8. CASE Bark
  <2>1. FlagsOK'
    BY <1>8 DEF Bark, NoScript, Silent, FlagsOK, TimersOK
  <2>2. TimersOK'
    BY <1>8 DEF Bark, NoScript, Silent, TimersOK
  <2>3. StackOK'
    BY <1>8 DEF Bark, NoScript, Silent, StackOK, TimersOK
  <2>4. SleepsOnce'
    BY <1>8 DEF Bark, NoScript, Silent, TimersOK, SleepsOnce, Asleep
  <2>5. DownCovers' /\ StopLeavesNothing'
    BY <1>8 DEF Bark, NoScript, Silent, FlagsOK, TimersOK, StackOK, DownCovers, StopLeavesNothing
  <2> QED
    BY <2>1, <2>2, <2>3, <2>4, <2>5
<1>9. ASSUME NEW c \in Container, DownStops(c) PROVE IInv'
  <2>1. FlagsOK'
    BY <1>9 DEF DownStops, FlagsOK, TimersOK
  <2>2. TimersOK'
    BY <1>9 DEF DownStops, TimersOK
  <2>3. StackOK'
    BY <1>9 DEF DownStops, StackOK, TimersOK
  <2>4. SleepsOnce'
    BY <1>9 DEF DownStops, TimersOK, SleepsOnce, Asleep
  <2>5. DownCovers' /\ StopLeavesNothing'
    BY <1>9 DEF DownStops, FlagsOK, TimersOK, StackOK, DownCovers, StopLeavesNothing
  <2> QED
    BY <2>1, <2>2, <2>3, <2>4, <2>5
<1>10. ASSUME NEW c \in Container, DownRemoves(c) PROVE IInv'
  <2>1. FlagsOK'
    BY <1>10 DEF DownRemoves, FlagsOK, TimersOK
  <2>2. TimersOK'
    BY <1>10 DEF DownRemoves, TimersOK
  <2>3. StackOK'
    BY <1>10 DEF DownRemoves, StackOK, TimersOK
  <2>4. SleepsOnce'
    BY <1>10 DEF DownRemoves, TimersOK, SleepsOnce, Asleep
  <2>5. DownCovers' /\ StopLeavesNothing'
    BY <1>10 DEF DownRemoves, FlagsOK, TimersOK, StackOK, DownCovers, StopLeavesNothing
  <2> QED
    BY <2>1, <2>2, <2>3, <2>4, <2>5
<1>11. CASE StopEnds
  <2>1. FlagsOK'
    BY <1>11 DEF StopEnds, EndStop, NoScript, FlagsOK, TimersOK
  <2>2. TimersOK'
    BY <1>11 DEF StopEnds, EndStop, NoScript, TimersOK
  <2>3. StackOK'
    BY <1>11 DEF StopEnds, EndStop, NoScript, StackOK, TimersOK
  <2>4. SleepsOnce'
    BY <1>11 DEF StopEnds, EndStop, NoScript, TimersOK, SleepsOnce, Asleep
  <2>5. DownCovers' /\ StopLeavesNothing'
    BY <1>11 DEF StopEnds, EndStop, NoScript, FlagsOK, TimersOK, StackOK, DownCovers, StopLeavesNothing
  <2> QED
    BY <2>1, <2>2, <2>3, <2>4, <2>5
<1>12. CASE Tick
  <2>1. FlagsOK'
    BY <1>12 DEF Tick, Due, FlagsOK, TimersOK
  <2>2. TimersOK'
    <3>1. (since \in 0..StopSec /\ (service = "waiting" => since <= RestartSec))'
      BY <1>12 DEF Tick, Due, TimersOK
    <3>2. (quiet \in 0..WatchdogSec /\ busy \in 0..quiet)'
      BY <1>12 DEF Tick, Due, TimersOK
    <3>3. (age \in Nat /\ age <= IF script = "sleep" THEN Interval ELSE MaxCommand)'
      BY <1>12 DEF Tick, Due, Pulling, TimersOK
    <3> QED
      BY <1>12, <3>1, <3>2, <3>3 DEF Tick, TimersOK
  <2>3. StackOK'
    <3>1. got' \in 0..(MaxLayer - 1)
      BY <1>12 DEF Tick, Pull, StackOK
    <3>2. layers' \in [Container -> 0..MaxLayers]
      BY <1>12 DEF Tick, Pull, Missing, StackOK
    <3> QED
      BY <1>12, <3>1, <3>2 DEF Tick, StackOK
  <2>4. SleepsOnce'
    BY <1>12 DEF Tick, Pulling, Due, TimersOK, SleepsOnce, Asleep
  <2>5. DownCovers' /\ StopLeavesNothing'
    BY <1>12 DEF Tick, Due, FlagsOK, TimersOK, StackOK, DownCovers, StopLeavesNothing
  <2> QED
    BY <2>1, <2>2, <2>3, <2>4, <2>5
<1>13. ASSUME NEW c \in Container, ContainerExits(c) PROVE IInv'
  <2>1. FlagsOK'
    BY <1>13 DEF ContainerExits, Fault, FlagsOK, TimersOK
  <2>2. TimersOK'
    BY <1>13 DEF ContainerExits, Fault, TimersOK
  <2>3. StackOK'
    BY <1>13 DEF ContainerExits, Fault, StackOK, TimersOK
  <2>4. SleepsOnce'
    BY <1>13 DEF ContainerExits, Fault, TimersOK, SleepsOnce, Asleep
  <2>5. DownCovers' /\ StopLeavesNothing'
    BY <1>13 DEF ContainerExits, Fault, FlagsOK, TimersOK, StackOK, DownCovers, StopLeavesNothing
  <2> QED
    BY <2>1, <2>2, <2>3, <2>4, <2>5
<1>14. CASE UpFails
  <2>1. FlagsOK'
    BY <1>14 DEF UpFails, Fault, ScriptFails, NoScript, Silent, BeginStop, FlagsOK, TimersOK
  <2>2. TimersOK'
    BY <1>14 DEF UpFails, Fault, ScriptFails, NoScript, Silent, BeginStop, TimersOK
  <2>3. StackOK'
    BY <1>14 DEF UpFails, Fault, ScriptFails, NoScript, Silent, BeginStop, StackOK, TimersOK
  <2>4. SleepsOnce'
    BY <1>14 DEF UpFails, Fault, ScriptFails, NoScript, Silent, BeginStop, TimersOK, SleepsOnce, Asleep
  <2>5. DownCovers' /\ StopLeavesNothing'
    BY <1>14 DEF UpFails, Fault, ScriptFails, NoScript, Silent, BeginStop, FlagsOK, TimersOK, StackOK, DownCovers, StopLeavesNothing
  <2> QED
    BY <2>1, <2>2, <2>3, <2>4, <2>5
<1>15. CASE QueryFails
  <2>1. FlagsOK'
    BY <1>15 DEF QueryFails, Fault, Silent, FlagsOK, TimersOK
  <2>2. TimersOK'
    BY <1>15 DEF QueryFails, Fault, Silent, TimersOK
  <2>3. StackOK'
    BY <1>15 DEF QueryFails, Fault, Silent, StackOK, TimersOK
  <2>4. SleepsOnce'
    BY <1>15 DEF QueryFails, Fault, Silent, TimersOK, SleepsOnce, Asleep
  <2>5. DownCovers' /\ StopLeavesNothing'
    BY <1>15 DEF QueryFails, Fault, Silent, FlagsOK, TimersOK, StackOK, DownCovers, StopLeavesNothing
  <2> QED
    BY <2>1, <2>2, <2>3, <2>4, <2>5
<1>16. CASE DownFails
  <2>1. FlagsOK'
    BY <1>16 DEF DownFails, Fault, EndStop, NoScript, FlagsOK, TimersOK
  <2>2. TimersOK'
    BY <1>16 DEF DownFails, Fault, EndStop, NoScript, TimersOK
  <2>3. StackOK'
    BY <1>16 DEF DownFails, Fault, EndStop, NoScript, StackOK, TimersOK
  <2>4. SleepsOnce'
    BY <1>16 DEF DownFails, Fault, EndStop, NoScript, TimersOK, SleepsOnce, Asleep
  <2>5. DownCovers' /\ StopLeavesNothing'
    BY <1>16 DEF DownFails, Fault, EndStop, NoScript, FlagsOK, TimersOK, StackOK, DownCovers, StopLeavesNothing
  <2> QED
    BY <2>1, <2>2, <2>3, <2>4, <2>5
<1>17. CASE UserStop
  <2>1. FlagsOK'
    BY <1>17 DEF UserStop, Fault, BeginStop, Silent, FlagsOK, TimersOK
  <2>2. TimersOK'
    BY <1>17 DEF UserStop, Fault, BeginStop, Silent, TimersOK
  <2>3. StackOK'
    BY <1>17 DEF UserStop, Fault, BeginStop, Silent, StackOK, TimersOK
  <2>4. SleepsOnce'
    BY <1>17 DEF UserStop, Fault, BeginStop, Silent, TimersOK, SleepsOnce, Asleep
  <2>5. DownCovers' /\ StopLeavesNothing'
    <3>1. CASE service = "active"
      BY <1>17, <3>1 DEF UserStop, BeginStop, FlagsOK, StackOK, DownCovers, StopLeavesNothing
    <3>2. CASE service = "stopping"
      BY <1>17, <3>2 DEF UserStop, FlagsOK, StackOK, DownCovers, StopLeavesNothing
    <3>3. CASE service = "waiting"
      BY <1>17, <3>3 DEF UserStop, DownCovers, StopLeavesNothing
    <3> QED
      BY <1>17, <3>1, <3>2, <3>3 DEF UserStop
  <2> QED
    BY <2>1, <2>2, <2>3, <2>4, <2>5
<1>18. CASE Reboot
  <2>1. FlagsOK'
    BY <1>18 DEF Reboot, Fault, NoScript, Silent, FlagsOK, TimersOK
  <2>2. TimersOK'
    BY <1>18 DEF Reboot, Fault, NoScript, Silent, TimersOK
  <2>3. StackOK'
    BY <1>18 DEF Reboot, Fault, NoScript, Silent, StackOK, TimersOK
  <2>4. SleepsOnce'
    BY <1>18 DEF Reboot, Fault, NoScript, Silent, TimersOK, SleepsOnce, Asleep
  <2>5. DownCovers' /\ StopLeavesNothing'
    BY <1>18 DEF Reboot, Fault, NoScript, Silent, FlagsOK, TimersOK, StackOK, DownCovers, StopLeavesNothing
  <2> QED
    BY <2>1, <2>2, <2>3, <2>4, <2>5
<1>19. CASE Setup
  <2>1. FlagsOK'
    BY <1>19 DEF Setup, Fault, FlagsOK, TimersOK
  <2>2. TimersOK'
    BY <1>19 DEF Setup, Fault, TimersOK
  <2>3. StackOK'
    BY <1>19 DEF Setup, Fault, StackOK, TimersOK
  <2>4. SleepsOnce'
    BY <1>19 DEF Setup, Fault, TimersOK, SleepsOnce, Asleep
  <2>5. DownCovers' /\ StopLeavesNothing'
    BY <1>19 DEF Setup, Fault, FlagsOK, TimersOK, StackOK, DownCovers, StopLeavesNothing
  <2> QED
    BY <2>1, <2>2, <2>3, <2>4, <2>5
<1>20. CASE UNCHANGED vars
  <2>1. FlagsOK'
    BY <1>20 DEF vars, FlagsOK, TimersOK
  <2>2. TimersOK'
    BY <1>20 DEF vars, TimersOK
  <2>3. StackOK'
    BY <1>20 DEF vars, StackOK, TimersOK
  <2>4. SleepsOnce'
    BY <1>20 DEF vars, TimersOK, SleepsOnce, Asleep
  <2>5. DownCovers' /\ StopLeavesNothing'
    BY <1>20 DEF vars, FlagsOK, TimersOK, StackOK, DownCovers, StopLeavesNothing
  <2> QED
    BY <2>1, <2>2, <2>3, <2>4, <2>5
<1> QED
  BY <1>1, <1>2, <1>3, <1>4, <1>5, <1>6, <1>7, <1>8, <1>9, <1>10, <1>11, <1>12, <1>13,
     <1>14, <1>15, <1>16, <1>17, <1>18, <1>19, <1>20
     DEF Next, Script, Systemd, Down, Environment

\* The invariant behind the others holds in every reachable state.
THEOREM Invariance == Spec => []IInv
<1> QED
  BY Initially, Inductive, PTL DEF Spec

\* The timers and the phases of the service and of its script agree (TypeOK).
THEOREM TypeCorrect == Spec => []TypeOK
<1>1. IInv => TypeOK
  BY DEF IInv
<1> QED
  BY <1>1, Invariance, PTL

\* Whatever the timers, systemd kills a script only for the time its docker commands
\* took (watchdog.sh, WatchdogSec).
THEOREM IsPunctual == Spec => []Punctual
<1>1. IInv => Punctual
  BY WatchdogAssumption DEF IInv, TypeOK, TimersOK, SleepsOnce, Asleep, Punctual
<1> QED
  BY <1>1, Invariance, PTL

\* A stop that came to its end leaves no container that was declared when it began, but
\* those an `up` still at work started behind it, through any setups (ExecStop).
THEOREM StopIsClean == Spec => []StopLeavesNothing
<1>1. IInv => StopLeavesNothing
  BY DEF IInv
<1> QED
  BY <1>1, Invariance, PTL

\* From a calm state every step leads to a calm one, but a failure.
LEMMA CalmLasts == TypeOK /\ Calm /\ [Next]_vars /\ faults' = faults => Calm'
<1> SUFFICES ASSUME TypeOK, Calm, [Next]_vars, faults' = faults PROVE Calm'
  OBVIOUS
<1> USE WatchdogAssumption DEF Calm, TimeLeft
<1>0. /\ service = "active" /\ script \in {"up", "sleep", "query"}
      /\ age \in Nat /\ quiet \in Nat /\ faults \in Nat
      /\ age <= IF script = "sleep" THEN Interval ELSE MaxCommand
  BY DEF TypeOK, TimersOK, StackOK
<1>1. ASSUME NEW c \in Container, UpStarts(c) PROVE Calm'
  <2>1. Exited' \subseteq todo'
    BY <1>1 DEF UpStarts, Exited, TypeOK, StackOK
  <2>2. Missing' = {}
    BY <1>1 DEF UpStarts, Missing
  <2> QED
    BY <1>0, <1>1, <2>1, <2>2 DEF UpStarts
<1>2. CASE UpEnds
  <2>1. Exited' = {}
    BY <1>2 DEF UpEnds, Exited
  <2> QED
    BY <1>0, <1>2, <2>1 DEF UpEnds
<1>3. CASE WakeUp
  BY <1>0, <1>3 DEF WakeUp, Exited
<1>4. CASE QueryFinds
  BY <1>4 DEF QueryFinds
<1>5. CASE QueryClean
  BY <1>0, <1>5 DEF QueryClean, Silent, Exited
<1>6. CASE UserStart \/ Restarts \/ StopEnds
  BY <1>0, <1>6 DEF UserStart, Restarts, StopEnds
<1>7. CASE Bark
  BY <1>0, <1>7 DEF Bark
<1>8. CASE Down
  BY <1>0, <1>8 DEF Down, DownStops, DownRemoves, TypeOK, StackOK
<1>9. CASE Tick
  <2>1. Exited' = Exited /\ todo' = todo /\ script' = script /\ service' = service
    BY <1>9 DEF Tick, Exited
  <2>2. quiet' = quiet + 1 /\ age' = age + 1
    BY <1>0, <1>9 DEF Tick, Pulling
  <2>3. Missing' = Missing
    BY <1>0, <1>9 DEF Tick, Pulling, Missing
  <2> QED
    BY <1>0, <2>1, <2>2, <2>3
<1>10. CASE UserStop \/ Reboot \/ Setup \/ UpFails \/ QueryFails \/ DownFails
  BY <1>0, <1>10 DEF UserStop, Reboot, Setup, UpFails, QueryFails, DownFails, Fault
<1>11. ASSUME NEW c \in Container, ContainerExits(c) PROVE Calm'
  BY <1>0, <1>11 DEF ContainerExits, Fault
<1>12. CASE UNCHANGED vars
  BY <1>12 DEF vars, Exited, Missing
<1> QED
  BY <1>1, <1>2, <1>3, <1>4, <1>5, <1>6, <1>7, <1>8, <1>9, <1>10, <1>11, <1>12
     DEF Next, Script, Systemd, Environment

\* A start from an orderly host is a calm one: the script has all the time there is.
LEMMA CalmBegins ==
    /\ TypeOK /\ [Next]_vars
    /\ service # "active" /\ service' = "active"
    /\ (\A c \in declared : layers[c] = 0) /\ Exited \subseteq declared
    => Calm'
<1> SUFFICES ASSUME TypeOK, [Next]_vars, service # "active", service' = "active",
                    \A c \in declared : layers[c] = 0, Exited \subseteq declared
             PROVE  Calm'
  OBVIOUS
<1>1. Begin /\ UNCHANGED docker
  <2>1. CASE UserStart \/ Restarts
    BY <2>1 DEF UserStart, Restarts
  <2>2. ~Script
    BY DEF Script, UpStarts, UpEnds, WakeUp, QueryFinds, QueryClean, ScriptFails, BeginStop,
           TypeOK, TimersOK
  <2>3. ~(Bark \/ StopEnds \/ Down \/ Tick)
    BY DEF Bark, StopEnds, EndStop, Down, DownStops, DownRemoves, Tick
  <2>4. ~(UserStop \/ Reboot \/ Setup \/ UpFails \/ QueryFails \/ DownFails)
    BY DEF UserStop, BeginStop, Reboot, Setup, UpFails, ScriptFails, QueryFails, DownFails,
           EndStop, TypeOK, TimersOK
  <2>5. ~(\E c \in Container : ContainerExits(c)) /\ ~(UNCHANGED vars)
    BY DEF ContainerExits, vars
  <2> QED
    BY <2>1, <2>2, <2>3, <2>4, <2>5, Zenon DEF Next, Systemd, Environment
<1>2. Exited' \subseteq todo'
  BY <1>1 DEF Begin, Exited
<1>3. Missing' = {}
  BY <1>1 DEF Begin, Missing
<1> QED
  BY <1>1, <1>2, <1>3, WatchdogAssumption DEF Begin, Calm, TimeLeft

\* Once it is in order, the service is only taken down by a failure or by the user, for
\* any timers in which the script's commands fit (watchdog.sh, WatchdogSec).
THEOREM CalmService == Spec => StaysCalm
<1>1. TypeOK /\ [Next]_vars =>
        [/\ Calm /\ faults' = faults => Calm'
         /\ /\ service # "active" /\ service' = "active"
            /\ (\A c \in declared : layers[c] = 0) /\ Exited \subseteq declared
            => Calm']_vars
  BY CalmLasts, CalmBegins
<1> QED
  BY <1>1, TypeCorrect, PTL DEF Spec, StaysCalm

=============================================================================
