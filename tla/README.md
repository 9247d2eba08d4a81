# StreamChop, specified

TLA+ models of StreamChop, TLC configurations that check them, and proofs that
TLAPS checks. StreamChop is a small camera pipeline: a terminal wizard finds
ONVIF cameras and writes a deployment, containers cut each camera's stream into
segments and snapshots, and an emitter announces every new file over MQTT.

    tlc -config MCProbe.cfg MCProbe        # one run
    tlapm ProbeProofs.tla                  # the proofs of one module

## The system

| Component | State it keeps | Operations | Talks to |
|---|---|---|---|
| Root model, `tui/model.go`, `tui/main.go` | the current step, the steps' models, the lists handed from one to the next | `Update` per message, `tea.Quit` | gives each message to the current step only; starts the next step in the same `Update` |
| Discovery step, `tui/steps/discovery.go` | scanning / found / failed / manual entry, the error, the address field | scan answers, `r` `m` `q`, typing, `enter` `esc` | `onvif.Discover`, `onvif.ProbeAddress` as commands |
| Selection step, `selection.go` | the list, the check marks, a cursor | `up` `down` `space` `enter` | preselects from the `.env` of an earlier setup |
| Credentials step, `credentials.go` | credentials per camera, the camera asked for, two text fields and their focus | `tab` `ctrl+a` `enter`, typing | prefilled from `.env` |
| Probe step, `probe.go` | per camera streams, error and choice; a counter of outstanding answers; a cursor | answers, six keys | one `onvif.GetStreamURIs` per camera as a command |
| MQTT step, `mqtt.go`, `network.go` | menu / scanning / list / entry, brokers found, cursor, two fields | scan answers, eleven keys | `ScanMQTTBrokers` as a command |
| Generation step, `generate.go` | summary / writing / ask / installing / error | two answers, six keys | `compose.GenerateDistCompose`, then `compose.GenerateEnv`; `systemd.Install` |
| Configuration files, `tui/compose` | `docker-compose.dist.yml`, `.env` | generate, merge, parse | read by the next setup, by Docker, by the watchdog |
| ONVIF client, `tui/onvif` | none between calls; in a call a socket and its deadline, a decoder, two depths and a flag | `Discover`, `ProbeAddress`, `GetStreamURIs` | the network |
| Service manager, `tui/systemd/manager.go` | the unit file, the enabled and running service | `Install`, `Uninstall`, `Status` | `sudo`, `systemctl` |
| Watchdog, `watchdog.sh`, the unit template | what the script does and for how long, systemd's timers | start the stack, poll it, be killed, stopped and started again | `systemd-notify`, Docker Compose |
| Chopper, `chopper/entrypoint.sh` | the segment being written | start FFmpeg | writes files the emitter watches |
| Emitter, `emitter/src` | the watcher's channel, the client's request queue, the connection | one handler per kind of file, `publish`, the connection thread | an MQTT broker |
| Nginx | none | serves the files | subscribers |

What is hard in it:

- The wizard's commands are goroutines. Their answers arrive in any order,
  while keys are pressed, after the user has asked to quit; a message is given
  to the current step only, so an answer that comes too late would be lost, and
  an answer that is not counted leaves a spinner for ever.
- Screens index lists with cursors kept elsewhere: a camera's streams with its
  chosen profile, the cameras with the one asked for, the brokers with a cursor
  that outlives the list.
- Cameras are renumbered between steps (found, selected, answered), with
  credentials in lists of their own.
- Two files are written one after the other, each truncated first, with
  failures, retries and `ctrl+c` in between; and each setup reads what the one
  before it left, whole or torn or edited by hand.
- The installed service is four timers that must fit together, a script that is
  killed wherever it is, and a Docker Compose that speaks of some containers in
  one command and of others in the next.
- The ONVIF client reads nested XML with two counters and a flag in place of the
  path, and goes on after an error on one of several sockets or profiles.
- The emitter stands between a watcher that never waits and a broker that may
  be away: a bounded queue, repetitions after a reconnection, and restarts that
  forget.

What makes each component correct is stated by the properties below;
`PROJECT.json` lists the hazards line by line, each with the properties
that cover it or the reason why none does.

## The modules

Every position is 1-based in the modules and 0-based in the code.

`Probe.tla` is the probe step. `results`, `pending`, `cursor`, `done` and
`state` are the fields of `ProbeModel`; `inflight` is the set of commands that
have been started and have not answered, each with the position, camera and
credentials it closed over. `ProbeResult` is the branch of `Update` for an
answer, each `Key...` action a branch for a key. A stream is the camera and
credentials it was obtained with and a profile number.

`Credentials.tla` is the credentials step. A text field is its value, and it
takes keys only while it has the focus. `Configurations` is what
`ParseExistingCreds` can return.

`Discovery.tla`, `Selection.tla`, `MQTTStep.tla` and `Generate.tla` are the other
steps, each with the actions of its `Update`. Scans count as commands that have
not answered. `Generate` follows the writing command in four steps (open and
fill, twice), for the program may end, or the command fail, between any two.

`Wizard.tla` composes the six steps by INSTANCE, as `tui/model.go` does: a message
is a step's own action conjoined with `After...`, which hands over when the step
says it is done, in the same transition. `CtrlC` and `Exit` are apart, for
quitting is a command and messages that arrive before it is obeyed are
handled. The command that writes files runs beside the loop until the program
ends.

`SetupContract.tla` is the abstract specification of a run of the wizard: one
configuration is agreed upon, only then are the files written, the compose file
first, and the service is installed only on top of both. `Wizard` is shown to
implement it: `agreed` is the configuration of the generation step, `compose` and
`env` are the files, `service` is what the installation did.

`EnvFile.tla` is the `.env` file as functions on maps: `Merge` and `WriteEnv` are
`GenerateEnv` and `writeEnv`, `ConfiguredIPs` and `KnownLogins` what
`ParseExistingDist` and `ParseExistingCreds` give the next setup. A map that
is filled while another map is iterated is the set of maps that may result. A
camera's entry is the host its stream's URI came with and its login as
`url.UserPassword` writes it (`TextOf`), and as such it is read back: `Escape` is any
function that leaves only the empty word empty. `Readings` is what `readExistingEnv` can
return of a file: all of it, the lines up to any one (`Line`), or nothing.
`Setups.tla` runs one setup after the other over the two files (`composeFile`,
`envFile`): `OpenCompose` and `OpenEnv` truncate, `FillCompose` and `FillEnv` write,
`OpenEnv` first merges some reading of the old file, `Abort` is an error or the end of
the program between any two steps, `Edit` is a user with an editor. A setup may
configure no camera. Writing a short file is one step: its entries come all or none.

`Scan.tla` is `Discover`, one socket after the other, and `ProbeAddress`.
`StreamURIs.tla` is `GetStreamURIs`: its SOAP calls, and the token loops of
`findNestedElement` and `parseProfiles`, one action per token and branch.
The decoder's stack of open elements (`open`) is modelled beside the counters the
code keeps (`depth`, `vecDepth`, `inParent`), `document` is what the paths say
the document holds, and `had` of which profiles the URI was had. Documents are chosen token by token, and may break off
anywhere. `Onvif.tla` puts the two together: one call, to its answer.

`Watchdog.tla` is the service installed. `script`, `age`, `todo` are the script,
`service`, `since`, `quiet` systemd with the unit's timers, `stack`, `removing`
and `layers` what `up`, `ps` and `down` see and change. `up` pulls what images it lacks
layer by layer (`Pull`) before it starts a container: a whole layer is kept, the one it
is at (`got`) is lost when `up` is killed. `excused` are the containers that the last
stop did not have to remove. Time is discrete: `Tick`
lets two and a half seconds pass unless something is due. `Script`, `Systemd` and
`Down` are the actors; `Environment` holds the faults (a container exits, a command
fails, the host reboots) and the user (start, stop, a new setup).

`EventFeed.tla` is the abstract specification of the emitter: what it noticed is
announced in order and without gaps; when it fails, what was not yet announced
is forgotten. `Emitter.tla` is the pipeline: the choppers that create files named
after seconds, the watcher's channel (`events`), the main loop (`Publish`,
`Skip`), the client's bounded queue and its window of unacknowledged messages,
the connection thread, connections that break, crashes and restarts. FFmpeg,
`notify`, `rumqttc` and the broker are modelled from how this code uses them:
the client keeps what is not acknowledged and sends it again, in order.
`Emitter` is shown to implement `EventFeed`: `announced` is the sequence of files
the broker has heard of, each at its first arrival.

`Service.tla` is `Install` and `Uninstall`, one action per file operation or
privileged command, with what the host keeps (`unit`, `loaded`, `enabled`,
`running`). Each may fail, the program may be interrupted and the host rebooted
between any two (`HostReboots`). A command that fails has no effect, except that systemd may
start later what did not start at once. A service that ends by itself is only
noted as not running: whether systemd starts it again is `Watchdog`'s subject.

`MC*.tla` give the constants values that a configuration cannot; where there is
none (`Service`, `Watchdog`, `Onvif`) the configuration suffices. `*Proofs.tla` hold
the proofs about the modules they are named after; `ServiceProofs` is about both `Service`
and `Watchdog`, the service's installation and its work. `Sublists.tla` is the loop the
code writes wherever it takes some elements of a list (`Kept`); `ListFacts.tla` proves
what it returns.
Definitions marked *mutant* are deliberate mistakes: no specification uses
them, and with one of them in place of the definition it follows from, the
property named in `PROJECT.json` fails. They show that the property depends on
that line of the code.

## The runs

| Run | Question | Bounds |
|---|---|---|
| `probe` | Does the probe step survive every order of answers, failures, retries and keys? | 3 cameras in the list from 2, 2 credentials, 2 profiles |
| `credentials` | Does every camera get the credentials meant for it? | 3 cameras in the list, two of them behind one address; one user name and one password besides the empty ones |
| `wizard` | Is what is configured, written and installed what the user confirmed, whatever fails and whenever the program ends? | 2 cameras behind one address, 2 user names, 2 brokers, 1 profile |
| `emitter` | Does the emitter implement `EventFeed`, without dropping or inventing, and is everything that was noticed announced in the end? | 2 cameras, 3 files, queue of 1, window of 2, 1 lost connection, 1 crash; time 0..2 with segments of 2 |
| `setups` | Setup after setup, do the two files fit together, and does the next one read what the last one wrote? | 2 hosts, at most 2 cameras in a setup, on one host or two; 2 logins, with an escape and without a user; 2 edits; any number of setups |
| `setups_unread` | Does a setup keep the service file's name that is in `.env`? (Not if it cannot read it.) | as `setups` |
| `setups_prefill` | Are the credentials offered those that were given? (Not if they have escapes.) | as `setups` |
| `watchdog` | Do the timers fit together, does a stop leave nothing behind, do containers come to run and come back when they exit, and does the service calm down? | 2 containers; the unit's own timers in ticks of 2.5 s; images of up to 2 layers, a layer pulled in up to 30 s, other docker commands in up to 2.5 s; 3 faults |
| `onvif` | Are scans complete, are documents read as their paths tell, and are answers what the wizard takes them to be? | 2 cameras, 3 local addresses, 3 answers on a socket; 2 tokens, 2 profiles, 5 open elements; documents of any length |
| `service` | What does an answer without an error say about the host? | none: the state space is finite |
| `service_uninstall` | Does a removal that succeeds stop and disable the service? (Not always.) | none |
| `emitter_parent` | Is the parent of a snapshot a segment that exists? (It need not be.) | as `emitter`, without failures |

Why the bounds are enough. Three cameras are the first, a middle and the last
one: with them cursors have both neighbours, and a retry can be of a camera that
is none of the ends. Nothing compares cameras except by equality, so two
distinct ones, possibly repeated in the list (a camera may answer a directed
probe twice), suffice. Two profiles make a choice that can be wrong at both
ends; the wizard takes one, since the choice is the subject of `probe`. A
queue of one is full with one event waiting, a window of two lets one message
be acknowledged and its follower be sent again, and three files fill window and
queue with the channel still to come. Time to 2 has a segment boundary in it
and, with a start at 0 or 1, segments on and off the grid. The environment of the
emitter is bounded by `MaxFiles`, `MaxTime`, `MaxDrops`, `MaxCrashes` and then really
stops, so deadlock is not checked there; nor in `onvif`, where a call ends. It is
checked in all the other passing runs, where a finished program stutters by an
explicit action, and a service that was stopped may be started again.

In `setups` two setups with lists of up to two cameras have every relation a list
can have to the one before: longer, shorter, reordered, the same camera with
another login. In `watchdog` `INTERVAL`, `WatchdogSec`, `RestartSec` and
`TimeoutStopSec` are 20, 30, 5 and 30 seconds; four layers of 30 s outlast
`WatchdogSec` several times, so that the service is killed and started again in the
middle of a layer and between two; a container that stays and one that a new setup drops
are all that the commands tell apart; three faults are what it takes to drop a
container, stop and declare it again, or to have a container exit in a stop after a
new setup. In `onvif` five open elements
hold an envelope, a profile, a configuration in it and an element in that, with
one to spare; what happens further in is what `OnvifProofs` proves.

`wizard` uses the view `Live`, which leaves out the variables of steps that are
over and of parts that have not begun: `Update` never gives a message to a finished
step, no property reads them then, and so two states with the same view have the
same behaviours as far as any property tells.

The types of the probe and credentials steps are checked in `wizard`, whose `TypeOK` has
theirs.

What the properties say:

- **probe.** `PendingExact`: the counter is the number of goroutines at work,
  no camera is asked twice at once, results are shown exactly when nobody
  works. `ViewSafe`: no index out of range. `OwnStreams`: a camera shows only
  streams obtained from itself with its own credentials. `ConfirmedAnswered`,
  `SettledStays` (no step takes an answer away), `ProbingEnds` (every wait ends).
- **credentials.** `AllGiven`, `PromptSafe`, `EarlierKept`: nobody leaves without a
  user name, the prompt can always be drawn and typed into, earlier answers stay
  unless one is given for all.
- **wizard.** `NoAnswerLost`: every command that has not answered belongs to the
  current step, which waits for exactly that. `ScreenSafe`: no screen indexes out
  of range, shows a missing error or offers a dead field. `ConfiguredFaithful`:
  what is configured are the selected cameras that answered, in order, each with
  the credentials given for it. `InstallFaithful`: the installation is offered
  only for files that hold what was gathered. `KeepsContract`: it implements
  `SetupContract`, so that a setup that is abandoned before it was confirmed leaves the
  earlier files alone, and one that is installed has both new ones. `ForwardOnly`: a
  later step never changes what an earlier one decided. `BusyEnds`: every spinner stops.
  `BusyRunsDown` says why: while one turns, commands of its step are at work, and
  every step of the program either brings one of them nearer its end or, like
  `ctrl+c`, touches nothing of it.
- **setups.** `Resolved`: after a setup that ended without an error `.env`
  defines all that the compose file refers to, with the hosts and logins that
  were confirmed, whatever earlier setups left. `EditsKept`: what the user set
  and the code means to keep is kept by every setup that can read it, unless one ends
  while `.env` is being replaced. `Offered`: the next setup that can read `.env`
  preselects the hosts configured and offers for each one a login given there, as it
  was escaped. `Repeatable`: a setup that is run again with the same answers writes what
  is there.
- **watchdog.** `Punctual`: the script is killed only for time spent in docker
  commands. `StopLeavesNothing`: when the service is stopped, what is left was not
  declared when the stop began, or was started by an `up` at work beside it, behind
  `down`, or the `down` failed or never ran. `Recovers`: a container that has exited
  is up again, and what `up` sets out to start is up in the end, however often it is
  killed over its pulls. `Calms`: once faults are over the service stays up, however often it was
  killed over its pulls, unless a container is left that no setup declares. Both hold
  where a layer takes no longer than `WatchdogSec` (`LayersFit`). `StaysCalm` is the
  step of `Calms`: a service that starts with its images there and finds no foreign
  container that has exited is `Calm`, with time for all the script has to do before it
  must report, and stays so until a fault or the user ends it.
- **onvif.** `Collected`: a scan has what was heard on every socket that was
  read to its deadline, each address once, and an error only when it has nothing.
  `ReadsByPath`: the profiles read are those of the document, each with its own
  name and encoding; and `findNestedElement` takes no text from outside the parent.
  `Answers`: an error comes without streams, streams without an error; every profile
  is asked for, and the streams are those of all whose URI was had, in their order, so
  that one profile's failure is its own.
- **emitter.** `Truthful`: events name files that exist, on their own camera's
  topic, and a snapshot's parent is the boundary before it. `NothingDropped`: what
  was noticed is announced or on its way. `IsFeed`: through a full queue, lost
  connections and repetitions, files are first announced in order and without
  gaps. `AllAnnounced`: all of them, in the end.
- **service.** `ServiceTypeOK` with the order of the steps (no unit without its script, no
  `systemctl` for a unit that is not there), `SuccessHolds`: whatever failed before,
  the success of an installation (`InstalledLasts`) or of a removal (`RemovedClears`)
  means what it says about the unit.

### Disagreements between code and documentation

`manager.go:71` says that Uninstall stops, disables and removes the service. It
ignores the errors of the first two (`manager.go:80-81`) and reports success:
`service_uninstall` shows one that leaves the service enabled.

`README.md:140` says that rounding a snapshot's epoch down to ten seconds finds
its parent segment. The handler computes that (`handler.rs:57`), but segments are
named after the second they begin in (`entrypoint.sh:13-17`), which is when FFmpeg
began and then, the stream not being re-encoded, the first key frame after the
previous segment's ten seconds. `emitter_parent` shows an event for a snapshot
that names a segment which does not exist.

`README.md:63` says that a new setup will pre-fill credentials from `.env`. They
are written as part of a URI, by `url.UserPassword` (`client.go:237`), which
escapes `@`, `/`, `%` and others, and read back as the text between `//` and `@`
(`envfile.go:175`): a password with such a character is offered in its escaped
form, which the camera refuses. `setups_prefill` shows it.

`envfile.go:21-22` says that `GenerateEnv` preserves the existing values that are not
managed, `SERVICE_FILE` among them. A file that cannot be opened is taken for an empty
one (`envfile.go:61`), and one that cannot be read to its end, for a read error or a line
over 64 KiB, for the lines before (`scanner.Err()` is not asked); it is then truncated,
and the setup succeeds. `setups_unread` shows a service file's name that is lost so.

Others that are worth knowing, without a run of their own:

- `envfile.go:21-22,40` speak of preserving values that are not managed, of which
  only the topic prefix and the service file's name are: names the file has no place
  for are dropped, and the topic prefix is dropped by a setup without a broker.
  `TAG` is managed, so that a pinned one (`README.md`, "Pinning image
  versions") is undone by the next setup.
- `findNestedElement` takes the first descendant where its comment says child, and
  after the end of a parent inside a parent overlooks what follows in the outer one.
  Neither matters with ONVIF's answers; the model has both (`nested` says that the
  second may have happened).
- `up` that is still at work when the service is stopped may start containers that
  `down` is past: the service is inactive and they run. `StopLeavesNothing` says that
  nothing else is left.
- `Discover` throws away what it heard through a socket when reading it ends with
  an error other than the deadline; `Collected` excepts those sockets.
- A document that breaks off is taken for one that ends there: the profile begun
  is kept.
- The watchdog looks at all containers of the project, `up` and `down` speak of the
  declared ones only: one that an earlier setup declared and that has exited makes
  the service restart for ever. `Calms` excepts it.
- A look at the containers that fails counts as health (`watchdog.sh:11`).
- `up` and the first look have ten seconds together, beside the script's sleep of
  twenty, before systemd's thirty are over: what `WatchdogAssumption` asks of
  `MaxCommand`. Pulling images is excepted: the script reports that it is ready before
  it pulls (`watchdog.sh:7-8`), so that the service is killed in the middle of it, and
  goes on with the layers that are missing. A layer that takes longer than
  `WatchdogSec` is begun again for ever, and no container ever runs; nothing in the
  code prevents that. `Recovers` and `Calms` except it (`LayersFit`), the other
  properties do not.
- A running stack is not restarted by a new setup: a camera it adds has no container
  until the service starts again for another reason.

## Fairness

- A probe answers: each request has an HTTP timeout of ten seconds
  (`client.go:243`) and a camera has finitely many profiles. In `Probe` each
  camera's command has its own weak fairness.
- A scan for cameras answers: the socket has a deadline of five seconds
  (`discover.go:16,68,152`). A scan for brokers answers: each dial has a timeout
  of half a second (`network.go:44`), and every worker has room in the channel.
- The command that writes files is a scheduled goroutine; its answer is handled.
- The installation has none: it runs `sudo`, which may wait for a password.
- The user has none. Nobody has to press a key.
- In `Watchdog` time passes, the script and systemd are scheduled, and `down`
  does what it is told. Faults and new setups are finitely many (`MaxFaults`);
  a user may start and stop the service or leave it alone.
- `Setups` and `Onvif` have none: what they promise is about what has happened.
  (That a call ends is assumed of it in `Probe` and `Wizard`, for the timeouts named
  above, which the HTTP client also applies to the reading of an answer.)
- In `Emitter` the main loop and the connection thread are scheduled, the broker
  acknowledges, and a lost connection is made again: the thread goes on polling
  after an error (`mqtt.rs:21-27`). This assumes that the broker is there in the end,
  and that connections break finitely often (`MaxDrops`). A restart is not
  assumed: a crash excuses the emitter in `AllAnnounced`.

One thing is taken from the Go compiler rather than the language: in
`return m, m.password.Focus()` the call is made before `m` is copied, so
that the focus is in the model that is returned.

## What is proved

`ProbeProofs.tla`, for any sets of cameras and credentials and any positive
`MaxCameras` and `MaxStreams` (`ProbeAssumption`, all that is assumed):

| Theorem | States |
|---|---|
| `Invariance` | `Spec => []IInv` |
| `TypeCorrect` | `Spec => []TypeOK` |
| `PendingIsExact` | `Spec => []PendingExact` |
| `ViewIsSafe` | `Spec => []ViewSafe` |
| `StreamsAreOwn` | `Spec => []OwnStreams` |
| `ConfirmedIsAnswered` | `Spec => []ConfirmedAnswered` |
| `SettledStay` | `Spec => SettledStays` |

None of the invariants is inductive by itself. `PendingExact` relates a number
to a set of commands but not to what the cameras show, and `ViewSafe` speaks only
of the results screen. `IInv` adds that set's finiteness, that each command
carries the camera and the credentials of its position (`CommandsMatch`), and
that each position is in one of two phases (`PhaseOK`): asked, with neither
streams nor an error and the first profile chosen, or answered, with either an
error or streams and a choice among them. The phases make the step from the last
answer to the results screen safe, and a retry return a position to the first
phase: a failed camera never has streams, so its choice is the first. The
lemmas `StreamsOfFacts` and `InitCommandsCount` say what an answer holds and how
many commands the step begins with. There is one lemma per action that
disturbs the invariant, and one for the keys that do not.

`CredentialsProofs.tla`, for any cameras, addresses, names, passwords and any
earlier configuration (`MaxCameras` a natural number):

| Theorem | States |
|---|---|
| `Invariance` | `Spec => []IInv` |
| `TypeCorrect` | `Spec => []TypeOK` |
| `EveryCameraGiven` | `Spec => []AllGiven` |
| `PromptIsSafe` | `Spec => []PromptSafe` |
| `EarlierAreKept` | `Spec => EarlierKept` |

`AllGiven` speaks of the end of the step only. `Answered` is what makes the last
answer complete it: each camera before the one asked for has a user name.

`SetupsProofs.tla`, for any hosts, logins and names of the user's own, any order of the
lines and any way of escaping that leaves only the empty word empty
(`EnvFileAssumption`), any number of setups and edits (`MaxCameras` and `MaxEdits`
natural numbers):

| Theorem | States |
|---|---|
| `Invariance` | `Spec => []IInv` |
| `TypeCorrect` | `Spec => []TypeOK` |
| `FilesFit` | `Spec => []Resolved` |
| `EditsAreKept` | `Spec => []EditsKept` |
| `OffersAreOwn` | `Spec => []Offered` |
| `RerunChangesNothing` | `Spec => []Repeatable` |
| `DecidedBySetup` | what a setup writes depends on the old file in two names only |

The properties speak of whole files; the invariant follows a setup through the
writing of them. `Fits` says that the compose file, once filled, and the entries about
to be written belong to the same setup, and `Saves` that what is to be
preserved is among those entries and has a place in the file. For that it is enough that
what is read of a file, to whatever line, is there (`ReadingFacts`). `Offered`
follows from what is written (`Written`, `URLFacts`). `Repeatable` needs that each name with a place in the file has a
value there that is not empty, the setup's own for the names it manages (`Written`):
what `Merge` takes over is then taken over as it is, and no default is filled in again.

`DecidedBySetup` is about `Merge` and `WriteEnv` alone: from any two old files
the same setup writes the same cameras and the same names, with the same values but for
the service file's name and the topic prefix. It is why `Generate`, inside the
wizard, may take what is written for a function of the configuration (`EnvFor`),
and leave the old file to `Setups`.

`WizardProofs.tla`, for any cameras, credentials, brokers and earlier
configuration, and any positive `MaxFound` and `MaxStreams` (`WizardAssumption`):

| Theorem | States |
|---|---|
| `Invariance` | `Spec => []IInv` |
| `TypeCorrect` | `Spec => []TypeOK` |
| `AnswersArrive` | `Spec => []NoAnswerLost` |
| `ScreenIsSafe` | `Spec => []ScreenSafe` |
| `ConfiguredIsFaithful` | `Spec => []ConfiguredFaithful` |
| `InstallIsFaithful` | `Spec => []InstallFaithful` |
| `GoesForward` | `Spec => ForwardOnly` |
| `ContractKept` | `Spec => KeepsContract` |
| `WaitsRunDown` | `Spec => BusyRunsDown` |

`IInv` has a part per step, which says what holds before the step begins, while it
runs and once it has handed over its result. The parts of the probe and credentials
steps that speak of the running step are the invariants proved of those modules by
themselves: their proofs are instantiated with the wizard's variables (`PP`, `CP`),
so that what remains to be shown is that the root model starts each in one of its
initial states, and that no other message touches it. `ConfiguredFaithful` is
inductive beside these parts; the hand-over from the probe step is a lemma of
`ProbeProofs` (`HandsOver`), since it speaks of that step's results. There is one lemma
per part and group of actions.

The screens of the MQTT step are where the invariant had to be strengthened: a text
field has the focus of a screen that comes later. That the menu, the scan and the
list leave `mField` on the host is what makes the entry screen, reached from
them, accept keys.

`ContractKept` maps every step of the wizard to a step of `SetupContract` or to none:
`agreed` changes only with the confirmation, `compose` and `env` only in the four
steps of the writing command, `service` only with the installation's answer. The
invariant tells the parts of the writing command from one another, and that the
configuration it closed over is the one agreed upon.

`WaitsRunDown` is what can be proved of `BusyEnds`: `Work`, the number of commands
(for the writing command, of its steps) still to come, is a natural number above 0
while the wizard is busy, and no step that leaves it busy raises it or leaves it as it
is, except one that touches nothing of the step that waits. What then remains for TLC is that fairness keeps
the commands going.

`EmitterProofs.tla`, for any cameras, positive `HlsTime`, `QueueSize` and
`MaxInflight`, and any numbers of lost connections and crashes
(`EmitterAssumption`):

| Theorem | States |
|---|---|
| `Invariance` | `Spec => []IInv` |
| `TypeCorrect` | `Spec => []TypeOK` |
| `IsTruthful` | `Spec => []Truthful` |
| `AlwaysOrdered` | `Spec => []Ordered` |
| `DropsNothing` | `Spec => []NothingDropped` |
| `KeepsPromise` | `Spec => IsFeed` |

`Truthful` speaks of what has arrived; `Carried` says of every place an event passes
through that it holds events of files that exist. `EventFacts` is the handlers'
arithmetic.

The other two need the order. `Ordered` says that the unacknowledged messages, the
queue and the channel are consecutive pieces of the list of noticed files
(`InLine`): the first begins after the messages acknowledged, which have all
arrived, and each of the others where the one before it ends. The channel
also holds playlists, which are passed over, so its piece is given by the place of
each element (`Waits`). `InOrder` says that a message tells of a file all of whose
predecessors have been told of before, also when it is a repetition. With that, the
first arrivals are the noticed files in their order, which is the refinement
mapping `announced`, and a step of the pipeline is a step of `EventFeed`: a file noticed,
the next one announced, or what was not announced forgotten; or it is none.

`ServiceProofs.tla`, first for the installation and the removal of the service, which
have no parameters:

| Theorem | States |
|---|---|
| `ServiceInvariance` | `ServiceSpec => []ServiceInv` |
| `ServiceTypeCorrect` | `ServiceSpec => []ServiceTypeOK` |
| `SuccessIsTrue` | `ServiceSpec => []SuccessHolds` |

`SuccessHolds` speaks of the end of an operation. `Achieved` says what has been done by
each of its steps, and that is what a failure leaves half done and a reboot must not
undo: systemd knows the unit before it is asked to enable it, and the unit is gone
before systemd is asked to look again.

Then for the service at work, with any set of containers and any timers with
`Interval + 2 * MaxCommand < WatchdogSec` and `RestartSec <= StopSec`
(`WatchdogAssumption`), any images and any number of faults:

| Theorem | States |
|---|---|
| `Invariance` | `Spec => []IInv` |
| `TypeCorrect` | `Spec => []TypeOK` |
| `IsPunctual` | `Spec => []Punctual` |
| `StopIsClean` | `Spec => []StopLeavesNothing` |
| `CalmService` | `Spec => StaysCalm` |

`Punctual` speaks of the moment systemd's timer is over, and needs to know how that
time was spent: `SleepsOnce` bounds it by the docker commands and the one sleep
since the last report. `StopLeavesNothing` speaks of the end of a stop, and needs
its progress: `DownCovers` says that while `down` is at work each container that is
there and is not excused is on its list, also while an `up` works beside it.

`StaysCalm` is inductive once a state is judged by what is still to come: `TimeLeft`
is the time until the script reports at the latest, and `Calm` asks that it fits into
what is left of `WatchdogSec`. A tick takes from both alike, a report gives the
whole of it back, and the assumption on the timers is that an `up`, a sleep and a look
fit. `CalmLasts` has a step per action; `CalmBegins` is the start of the service.

`OnvifProofs.tla`, for documents of any length and elements nested to any depth, any
numbers of profiles and tokens, sockets, datagrams and addresses
(`StreamURIsAssumption` and `ScanAssumption`: the bounds are natural numbers):

| Theorem | States |
|---|---|
| `CountersFollowPath` | `Spec => []CountersInStep` |
| `UriInvariance` | `Spec => []UriInv` |
| `ReadsThePath` | `Spec => []ReadsByPath` |
| `AnswersTruly` | `Spec => []Answers` |
| `CollectsAll` | `Spec => []Collected` |
| `TypeCorrect` | `Spec => []TypeOK` |

`CountersInStep`, a conjunct of `ReadsByPath`, says that the counters agree with the
path. It does not say what they will agree on when an element ends. `IInv` says
where on the path each thing is: the profile at some `k` with none before it, the
configuration at `k + depth - 1` and none between, the rest `vecDepth - 1` further
in; and that the parent is open at most once while none has been nested, without
which its end could not reset the flag.

The other conjunct of `ReadsByPath` speaks of the list read. `Reads` is its inductive
form: inside a profile the document is some `f` with the profile being read appended,
and the list is what is kept of `f`. `PathFacts` is where the counters pay: where a
name or an encoding is taken, the path, too, says that it is the profile's.
`Serves` follows the streams: those left are the profiles after the `n`th, of the `n`
before `had` says whether their URI was had, and the streams are those of exactly the
places where it was, in increasing order.

`ScanInv` says that what is collected is what was heard, each address once, at every
moment and not only at the end, and what an error means by then. `MergeFacts` is the
loop over what a socket has heard, with its map `seen`: no address twice, and none lost.

### Lists

`ListFacts.tla` has what these proofs need of lists of any length:

- `Induction`, over the natural numbers, stated of a set and not of an operator,
  which the provers could not instantiate. It is proved by counting: were `n` missing
  from the set, `i |-> i + 1` would map its elements up to `n` injectively into those
  without 0, of which there are fewer.
- `Iteration`: what is defined step by step exists, by induction over how far it is
  defined. Without it nothing could be said of a recursive function, whose definition
  in TLA+ is a choice.
- `KeptRuns`, `KeptAppend`, `KeptPlaces`: `Kept(s, S)` is computed by running along `s`;
  it grows with `s`; and it has exactly the elements of `s` that are in `S`, in
  their order.

The models use `Kept`, and not `SelectSeq`, for the loops that choose elements of a list
(`Selected`, `Configured`, `parseProbeMatch`, the profiles with a token), so that
theorems about them hold for lists of any length.

### What is only model-checked

- Liveness: `ProbingEnds`, `BusyEnds`, `AllAnnounced`, `Recovers`, `Calms`. Fairness and
  ENABLED are beyond the prover. The safety half of two of them is proved: `BusyRunsDown`
  for `BusyEnds`, and `StaysCalm` for `Calms`.
- The four disagreements, whose counterexamples are TLC's.
- What recursive definitions compute is out of the provers' reach in general; for the two
  the models use, `Kept` and `FirstHeard`, `Iteration` brings it within.

Every safety property of the passing runs is a theorem.

## What is not modelled

- Two setups, or two installations, at the same time.
- SOAP envelopes, the security header, URLs, names from scopes, rendering: text
  without state. `FilterH264Profiles` is called by nothing.
- In `.env`: streams' URIs of another scheme than `rtsp`, without a host, or with an `@`
  after it; and lines in another order than one and the same (`Line`) in every file.
- The YAML of the compose file beyond the services it declares and the names of
  `.env` it refers to.
- Nginx (configuration without state), packaging, CI. Of the chopper, whatever
  FFmpeg does beside creating and naming files.
- systemd and Docker Compose beyond what the script and the unit use of them: no
  start limit (with `RestartSec=5s` the default of five starts in ten seconds is
  never reached), no health checks, no restart policies (the compose file has
  none). Images are pulled one layer after the other, and one that is there stays: a
  `TAG` that is changed, or images that are removed, would make them missing again. A
  compose file that a setup left torn is not seen as such, only as `up` and `ps` that
  fail once.
- In the emitter: the growth of the watcher's channel (unbounded in the code), files
  fetched before they are complete, the race between a new directory and its
  watch, `HLS_TIME=0`.
- Cameras are numbered by their place in the answers of a scan. A second setup may
  give a number, with its directory and topic, to another camera; the code promises
  nothing here, and no property speaks of it.

## How it was built

In this order: `Probe` and its proofs, `Credentials`, the other steps,
`Wizard`, `EventFeed` and `Emitter`, `Service`; then `EnvFile` and `Setups`,
`Watchdog`, `Scan`, `StreamURIs` and `Onvif`, `SetupContract`; the proofs about
`Watchdog`, the ONVIF client's counters, `Credentials`, `Setups` and `Emitter`;
`ListFacts`, the order of the emitter's events and its refinement, the wizard as a
whole and its refinement, what the ONVIF client reads and collects; and last the
proofs about `Service`, what a setup run again does, and the safety halves of `Calms` and
`BusyEnds`.

Left open. A setup is described twice, by `Generate` inside `Wizard` and by
`Setups`: `DecidedBySetup` says why the first may leave out the old file, but one is
not shown to implement the other, which would take a history variable for the
values that are preserved. Safety halves of `Recovers` and `AllAnnounced`, as
measures that decrease, would follow the pattern of `BusyRunsDown`; the emitter's
is not a number, since a lost connection sends messages again.
