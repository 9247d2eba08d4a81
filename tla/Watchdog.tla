------------------------------ MODULE Watchdog ------------------------------
(***************************************************************************)
(* The installed service at work: the watchdog script                      *)
(* (tui/systemd/watchdog.sh), systemd as the unit file instructs it        *)
(* (streamchop.service.template), and the containers.  The script says     *)
(* that it is ready, starts the stack, and then looks every INTERVAL for   *)
(* containers that have exited, reporting health to systemd when there are *)
(* none.  One tick of the clock is two and a half seconds.                 *)
(*                                                                         *)
(* systemd and Docker Compose are modelled from how the script and the     *)
(* unit use them.  `up` and `down` speak of the services the compose file  *)
(* declares, `ps` of all containers of the project: a container of an      *)
(* earlier setup is an orphan, which stays and is listed.  `up` first      *)
(* pulls the images, of which whole layers stay when it is killed.         *)
(***************************************************************************)
EXTENDS Integers, FiniteSets

CONSTANTS
    Container,
    Interval, WatchdogSec, RestartSec, StopSec,  \* the timers, in ticks
    MaxLayers,  \* how many layers an image has at most
    MaxLayer,   \* how long one takes to be pulled at most
    MaxCommand, \* how long any other docker command takes
    MaxFaults   \* bound on failures, reboots, stops and new setups

ASSUME WatchdogAssumption ==
    /\ Container # {}
    /\ Interval \in Nat \ {0} /\ WatchdogSec \in Nat \ {0}
    /\ RestartSec \in Nat \ {0} /\ StopSec \in Nat \ {0}
    /\ MaxLayers \in Nat /\ MaxLayer \in Nat \ {0}
    /\ MaxCommand \in Nat /\ MaxFaults \in Nat
    /\ Interval + 2 * MaxCommand < WatchdogSec
    /\ RestartSec <= StopSec

VARIABLES
    service,   \* "inactive", "active", "stopping" or "waiting" to be started again
    since,     \* how long it has been stopping or waiting
    wanted,    \* the service has been started, and not stopped by the user
    quiet,     \* how long ago the script reported to systemd
    busy,      \* history: how much of that it spent in docker commands
    script,    \* what the script is doing: "none", "up", "sleep" or "query"
    age,       \* for how long
    todo,      \* the containers `up` has not started yet
    got,       \* how long `up` has been pulling the layer it is at
    layers,    \* how many layers of each container's image are still to be pulled
    removing,  \* the containers `down` has not removed yet
    stack,     \* the state of each container
    declared,  \* the services of the compose file
    excused,   \* history: the containers the last stop could not, or did not, remove
    faults

systemd == <<service, since, wanted>>
watch == <<quiet, busy>>
shell == <<script, age, todo, got>>
docker == <<layers, removing, stack, declared>>
vars == <<systemd, watch, shell, docker, excused, faults>>

FlagsOK ==
    /\ wanted \in BOOLEAN
    /\ service \in {"active", "waiting"} => wanted

TimersOK ==
    /\ service \in {"inactive", "active", "stopping", "waiting"}
    /\ since \in 0..StopSec /\ (service = "waiting" => since <= RestartSec)
    /\ quiet \in 0..WatchdogSec /\ busy \in 0..quiet
    /\ service # "active" => quiet = 0
    /\ script \in {"none", "up", "sleep", "query"}
    /\ age \in Nat /\ age <= IF script = "sleep" THEN Interval ELSE MaxCommand
    /\ service = "active" => script # "none"
    /\ service \in {"inactive", "waiting"} => script = "none"

StackOK ==
    /\ service # "stopping" => removing = {}
    /\ todo \subseteq Container /\ removing \subseteq Container
    /\ excused \subseteq Container
    /\ layers \in [Container -> 0..MaxLayers] /\ got \in 0..(MaxLayer - 1)
    /\ faults \in 0..MaxFaults
    /\ stack \in [Container -> {"absent", "up", "exited"}]
    /\ declared \in (SUBSET Container) \ {{}}

\* Timers stay within what they time; a service that is not there runs no script, and
\* one that is runs one; `down` is at work only while it is stopped; and only a service
\* that is wanted is up, or waits to be.
TypeOK == FlagsOK /\ TimersOK /\ StackOK

Init ==
    /\ service = "inactive" /\ since = 0 /\ wanted = FALSE
    /\ quiet = 0 /\ busy = 0
    /\ script = "none" /\ age = 0 /\ todo = {} /\ got = 0
    /\ layers \in [Container -> 0..MaxLayers] /\ removing = {}
    /\ stack = [c \in Container |-> "absent"]
    /\ declared \in (SUBSET Container) \ {{}}
    /\ excused = {} /\ faults = 0

-----------------------------------------------------------------------------
(* How the service and its script begin and end. *)

\* The script reports that it is ready and goes on to `up`.
Begin ==
    /\ service' = "active" /\ since' = 0
    /\ script' = "up" /\ age' = 0 /\ todo' = declared /\ got' = 0
    /\ quiet' = 0 /\ busy' = 0

\* A layer that `up` was in the middle of is lost with it.
NoScript == script' = "none" /\ age' = 0 /\ todo' = {} /\ got' = 0
Silent == quiet' = 0 /\ busy' = 0

\* ExecStop: `down`, of what the compose file declares now.
BeginStop ==
    /\ service' = "stopping" /\ since' = 0
    /\ removing' = {c \in declared : stack[c] # "absent"}
    /\ excused' = Container \ declared
    /\ Silent

\* on-failure: a service that ended by itself is started again, one that the user
\* stopped is not.
EndStop ==
    /\ service' = IF wanted THEN "waiting" ELSE "inactive"
    /\ since' = 0
    /\ removing' = {}
    /\ NoScript

\* The script ends with an error.  Whether ExecStop is run for a service whose process
\* is gone depends on the version of systemd.
ScriptFails ==
    /\ NoScript
    /\ IF service = "active"
       THEN \/ BeginStop /\ UNCHANGED <<wanted, layers, stack, declared>>
            \/ /\ service' = "waiting" /\ since' = 0
               /\ Silent
               /\ UNCHANGED <<wanted, docker, excused>>
       ELSE UNCHANGED <<systemd, watch, docker, excused>>

-----------------------------------------------------------------------------
(* The script. *)

\* The containers whose images `up` has to pull before it starts any.
Missing == {c \in todo : layers[c] > 0}

\* `down` is past a container that is not on its list.
UpStarts(c) ==
    /\ script = "up" /\ Missing = {} /\ c \in todo
    /\ stack' = [stack EXCEPT ![c] = "up"]
    /\ todo' = todo \ {c}
    /\ excused' = excused \cup (IF service = "stopping" THEN {c} \ removing ELSE {})
    /\ UNCHANGED <<systemd, watch, script, age, got, layers, removing, declared, faults>>

UpEnds ==
    /\ script = "up" /\ todo = {}
    /\ script' = "sleep" /\ age' = 0
    /\ UNCHANGED <<systemd, watch, todo, got, docker, excused, faults>>

WakeUp ==
    /\ script = "sleep" /\ age = Interval
    /\ script' = "query" /\ age' = 0
    /\ UNCHANGED <<systemd, watch, todo, got, docker, excused, faults>>

Exited == {c \in Container : stack[c] = "exited"}

QueryFindsExitsZero ==                    \* mutant: exit 0, which is no failure
    /\ script = "query" /\ Exited # {}
    /\ service' = "inactive" /\ since' = 0
    /\ NoScript /\ Silent
    /\ UNCHANGED <<wanted, docker, excused, faults>>

\* One container that has exited, declared or not, ends the script.
QueryFinds ==
    /\ script = "query" /\ Exited # {}
    /\ ScriptFails
    /\ UNCHANGED faults

QueryCleanSilent ==                       \* mutant: health is not reported
    /\ script = "query" /\ Exited = {}
    /\ script' = "sleep" /\ age' = 0
    /\ UNCHANGED <<systemd, watch, todo, got, docker, excused, faults>>

QueryClean ==
    /\ script = "query" /\ Exited = {}
    /\ script' = "sleep" /\ age' = 0
    /\ Silent
    /\ UNCHANGED <<systemd, todo, got, docker, excused, faults>>

Script == (\E c \in Container : UpStarts(c)) \/ UpEnds \/ WakeUp \/ QueryFinds \/ QueryClean

-----------------------------------------------------------------------------
(* systemd, and the `down` it runs. *)

UserStart ==
    /\ service = "inactive"
    /\ wanted' = TRUE
    /\ Begin
    /\ UNCHANGED <<docker, excused, faults>>

Restarts ==
    /\ service = "waiting" /\ since = RestartSec
    /\ Begin
    /\ UNCHANGED <<wanted, docker, excused, faults>>

BarkUnheard ==                            \* mutant: only systemd-notify is killed
    /\ service = "active" /\ quiet = WatchdogSec
    /\ service' = "waiting" /\ since' = 0
    /\ Silent
    /\ UNCHANGED <<wanted, shell, docker, excused, faults>>

\* WatchdogSec is over: the script is killed where it is, and `down` is not run.
Bark ==
    /\ service = "active" /\ quiet = WatchdogSec
    /\ service' = "waiting" /\ since' = 0
    /\ NoScript /\ Silent
    /\ UNCHANGED <<wanted, docker, excused, faults>>

DownStops(c) ==
    /\ c \in removing /\ stack[c] = "up"
    /\ stack' = [stack EXCEPT ![c] = "exited"]
    /\ UNCHANGED <<systemd, watch, shell, layers, removing, declared, excused, faults>>

DownOnlyStops(c) ==                       \* mutant: `stop` in place of `down`
    /\ c \in removing /\ stack[c] # "up"
    /\ removing' = removing \ {c}
    /\ UNCHANGED <<systemd, watch, shell, layers, stack, declared, excused, faults>>

DownRemoves(c) ==
    /\ c \in removing /\ stack[c] # "up"
    /\ stack' = [stack EXCEPT ![c] = "absent"]
    /\ removing' = removing \ {c}
    /\ UNCHANGED <<systemd, watch, shell, layers, declared, excused, faults>>

Down == \E c \in Container : DownStops(c) \/ DownRemoves(c)

\* `down` is done, and a script that still runs is told to exit.
StopEnds ==
    /\ service = "stopping" /\ removing = {}
    /\ EndStop
    /\ UNCHANGED <<wanted, watch, layers, stack, declared, excused, faults>>

Systemd == Restarts \/ Bark \/ StopEnds

-----------------------------------------------------------------------------
(* Time.  Nothing waits longer than it may. *)

Due ==
    \/ script = "up" /\ Missing = {} /\ age = MaxCommand
    \/ script = "sleep" /\ age = Interval
    \/ script = "query" /\ age = MaxCommand
    \/ service = "active" /\ quiet = WatchdogSec
    \/ service = "waiting" /\ since = RestartSec
    \/ service = "stopping" /\ since = StopSec

Pulling == script = "up" /\ Missing # {}

\* A layer takes another tick, or is there.
Pull ==
    \/ got + 1 < MaxLayer /\ got' = got + 1 /\ UNCHANGED layers
    \/ /\ got' = 0
       /\ \E c \in Missing : layers' = [layers EXCEPT ![c] = @ - 1]

Tick ==
    /\ ~Due
    /\ since' = IF service \in {"waiting", "stopping"} THEN since + 1 ELSE 0
    /\ quiet' = IF service = "active" THEN quiet + 1 ELSE 0
    /\ busy' = IF service = "active" /\ script # "sleep" THEN busy + 1 ELSE busy
    /\ IF Pulling THEN Pull ELSE UNCHANGED <<got, layers>>
    /\ age' = IF script = "none" \/ Pulling THEN 0 ELSE age + 1
    /\ UNCHANGED <<service, wanted, script, todo, removing, stack, declared, excused, faults>>

-----------------------------------------------------------------------------
(* What goes wrong, and what the user does. *)

Fault == faults < MaxFaults /\ faults' = faults + 1

ContainerExits(c) ==
    /\ Fault
    /\ stack[c] = "up"
    /\ stack' = [stack EXCEPT ![c] = "exited"]
    /\ UNCHANGED <<systemd, watch, shell, layers, removing, declared, excused>>

\* `up` ends with an error, and so does the script.
UpFails ==
    /\ Fault
    /\ script = "up"
    /\ ScriptFails

\* `ps` ends with an error and prints nothing, which is what it prints of a stack
\* without a container that has exited.
QueryFails ==
    /\ Fault
    /\ script = "query"
    /\ script' = "sleep" /\ age' = 0
    /\ Silent
    /\ UNCHANGED <<systemd, todo, got, docker, excused>>

\* `down` fails, or takes longer than TimeoutStopSec.
DownFails ==
    /\ Fault
    /\ service = "stopping"
    /\ EndStop
    /\ excused' = Container
    /\ UNCHANGED <<wanted, watch, layers, stack, declared>>

UserStop ==
    /\ Fault
    /\ wanted /\ wanted' = FALSE
    /\ \/ service = "active" /\ BeginStop /\ UNCHANGED <<shell, layers, stack, declared>>
       \/ service = "stopping" /\ UNCHANGED <<service, since, watch, shell, docker, excused>>
       \/ /\ service = "waiting"
          /\ service' = "inactive" /\ since' = 0 /\ excused' = Container
          /\ UNCHANGED <<watch, shell, docker>>

\* Containers have no restart policy: after a reboot they have exited.  A service that
\* the user only stopped, and did not remove, is started again.
Reboot ==
    /\ Fault
    /\ stack' = [c \in Container |-> IF stack[c] = "up" THEN "exited" ELSE stack[c]]
    /\ wanted' \in BOOLEAN /\ (wanted => wanted')
    /\ service' = IF wanted' THEN "waiting" ELSE "inactive"
    /\ since' = 0 /\ removing' = {}
    /\ NoScript /\ Silent
    /\ excused' = Container
    /\ UNCHANGED <<layers, declared>>

\* A new setup, with other cameras, or with a broker of its own and now without: what it
\* declares may have been declared before.
Setup ==
    /\ Fault
    /\ declared' \in (SUBSET Container) \ {{}, declared}
    /\ UNCHANGED <<systemd, watch, shell, layers, removing, stack, excused>>

Environment ==
    \/ UserStart \/ UserStop \/ Reboot \/ Setup
    \/ \E c \in Container : ContainerExits(c)
    \/ UpFails \/ QueryFails \/ DownFails

Next == Script \/ Systemd \/ Down \/ Tick \/ Environment

Spec == Init /\ [][Next]_vars

\* Time passes, the script and systemd are scheduled, and Docker does what it is told.
FairSpec ==
    /\ Spec
    /\ WF_vars(Tick) /\ WF_vars(Script) /\ WF_vars(Systemd) /\ WF_vars(Down)

-----------------------------------------------------------------------------
(* Properties. *)

\* systemd only kills a script that has spent more than what WatchdogSec leaves beside
\* one INTERVAL in docker commands: waiting alone never costs it its life.
Punctual ==
    service = "active" /\ quiet = WatchdogSec => busy >= WatchdogSec - Interval

\* When the service is stopped, no container is left that the compose file declared when
\* the stop began, whatever setups declared before and declare since: not even where an
\* `up` was still at work, but for those it started once `down` was past them.  Only a
\* `down` that failed or was never run (a reboot, a stop between two tries) leaves more.
StopLeavesNothing ==
    service = "inactive" => \A c \in Container \ excused : stack[c] = "absent"

\* How long it takes the script at most to report again, if it finds nothing.
TimeLeft ==
    CASE script = "up" -> MaxCommand - age + Interval + MaxCommand
      [] script = "sleep" -> Interval - age + MaxCommand
      [] OTHER -> MaxCommand - age

\* Nothing but a failure can take the service down.
Calm ==
    /\ service = "active"
    /\ Exited \subseteq IF script = "up" THEN todo ELSE {}
    /\ script = "up" => Missing = {}
    /\ quiet + TimeLeft < WatchdogSec

\* A service that starts with its images there, and without an exited container that
\* is none of its own, is calm from then on until something fails or the user acts: its
\* script finds nothing, and always reports before the watchdog's time is over.
StaysCalm ==
    [][/\ Calm /\ faults' = faults => Calm'
       /\ /\ service # "active" /\ service' = "active"
          /\ (\A c \in declared : layers[c] = 0) /\ Exited \subseteq declared
          => Calm']_vars

\* What is pulled before the watchdog barks is kept if it is a whole layer.  A layer that
\* takes longer is begun again for ever.
LayersFit == MaxLayer <= WatchdogSec

\* "If any container exits" it is started again, and what `up` sets out to start runs in
\* the end, however often systemd kills it over the pulling: as long as the service is
\* wanted and the compose file declares the container.
Recovers ==
    LayersFit =>
        \A c \in Container :
            wanted /\ c \in declared /\ (stack[c] = "exited" \/ c \in todo)
                ~> stack[c] = "up" \/ ~wanted \/ c \notin declared

\* Once nothing fails any more the service stays up, however many layers were to be
\* pulled and however often it was killed over them: unless a container that the compose
\* file no longer declares has exited.  `down` does not remove it, `ps` lists it, and the
\* stack is restarted for ever.
Calms ==
    LayersFit => <>[](service = "active" \/ ~wanted \/ Exited \ declared # {})

=============================================================================
