------------------------------- MODULE Wizard -------------------------------
(***************************************************************************)
(* The setup wizard (tui/model.go): the root model owns the models of the  *)
(* steps, gives every message to the model of the current step only, and,  *)
(* in the same Update, moves on when that step says it is done.            *)
(*                                                                         *)
(* Commands run as goroutines beside the loop.  Quitting is a command too: *)
(* messages that arrive before it has been obeyed are still handled, and   *)
(* when it is obeyed the program ends and the commands die where they are. *)
(***************************************************************************)
EXTENDS Integers, Sequences, FiniteSets

CONSTANTS
    Camera, IpOf, MaxFound,       \* the network
    User, Password,               \* what is typed for the cameras
    MaxStreams,                   \* what a camera offers
    Host, Port, MaxBrokers        \* what is scanned or typed for MQTT

ASSUME WizardAssumption ==
    MaxFound \in Nat \ {0} /\ MaxStreams \in Nat \ {0} /\ MaxBrokers \in Nat

VARIABLES
    \* the root model and the program
    step, quitting, exited,
    \* what an earlier setup configured
    existingIPs, existingCreds,
    \* discovery
    dState, dCameras, dErr, dTyped, dDone, dScans,
    \* selection; the list is also the root model's
    cameras, checked, sCursor, sDone,
    \* credentials; the selection is also the root model's
    selected, creds, camIndex, cField, username, password, cFocused, sameForAll, cDone,
    \* probe
    pState, results, pending, pCursor, pDone, inflight,
    \* MQTT; the host's address is also the root model's
    configured, hostIP,
    mState, hosts, mCursor, mqttConfig, hostInput, portInput, mField, mFocused,
    mErr, mDone, mScans,
    \* generation and the files
    gState, setup, gDone, writer, installs, composeFile, envFile

D == INSTANCE Discovery WITH
        state <- dState, cameras <- dCameras, err <- dErr, typed <- dTyped,
        done <- dDone, scans <- dScans

S == INSTANCE Selection WITH
        selected <- checked, cursor <- sCursor, done <- sDone

C == INSTANCE Credentials WITH
        cameras <- selected, field <- cField, focused <- cFocused, done <- cDone,
        existing <- existingCreds, MaxCameras <- MaxFound

P == INSTANCE Probe WITH
        Credential <- C!Credential, MaxCameras <- MaxFound,
        state <- pState, cursor <- pCursor, done <- pDone

M == INSTANCE MQTTStep WITH
        state <- mState, cursor <- mCursor, config <- mqttConfig, field <- mField,
        focused <- mFocused, err <- mErr, done <- mDone, scans <- mScans

G == INSTANCE Generate WITH state <- gState, done <- gDone

program == <<step, quitting, exited>>
root == <<step, quitting, exited, existingIPs, existingCreds>>
dVars == <<dState, dCameras, dErr, dTyped, dDone, dScans>>
sVars == <<cameras, checked, sCursor, sDone>>
cVars == <<selected, creds, camIndex, cField, username, password, cFocused,
           sameForAll, cDone>>
pVars == <<pState, results, pending, pCursor, pDone, inflight>>
mVars == <<mState, hosts, mCursor, mqttConfig, hostInput, portInput, mField,
           mFocused, mErr, mDone, mScans>>
gVars == <<gState, setup, gDone, writer, installs, composeFile, envFile>>
vars == <<root, dVars, sVars, cVars, pVars, configured, hostIP, mVars, gVars>>

NoSetup == [cameras |-> <<>>, mqtt |-> M!NoMQTT, hostIP |-> ""]

Init ==
    /\ step = "discovery" /\ quitting = FALSE /\ exited = FALSE
    /\ existingIPs \in SUBSET C!Ip
    /\ existingCreds \in C!Configurations(existingIPs)
    /\ D!Init
    /\ cameras = <<>> /\ checked = {} /\ sCursor = 1 /\ sDone = FALSE
    /\ selected = <<>> /\ creds = <<>> /\ camIndex = 1 /\ cField = "username"
    /\ username = "" /\ password = "" /\ cFocused = {} /\ sameForAll = FALSE
    /\ cDone = FALSE
    /\ pState = "running" /\ results = <<>> /\ pending = 0 /\ pCursor = 1
    /\ pDone = FALSE /\ inflight = {}
    /\ configured = <<>> /\ hostIP = ""
    /\ M!Init
    /\ gState = "confirm" /\ setup = NoSetup /\ gDone = FALSE /\ writer = "idle"
    /\ installs = 0 /\ composeFile = G!Old /\ envFile = G!Old

-----------------------------------------------------------------------------
(* Update: the message goes to the current step, which may be done then. *)

At(s) == step = s /\ ~exited

\* A discovery that ends without cameras ends the program; the step stays.
AfterDiscovery ==
    /\ IF dDone' /\ dCameras' # <<>>
       THEN /\ step' = "selection"
            /\ cameras' = dCameras'
            /\ checked' = S!Preselected(dCameras', IpOf, existingIPs)
            /\ UNCHANGED quitting
       ELSE /\ quitting' = (quitting \/ dDone')
            /\ UNCHANGED <<step, cameras, checked>>
    /\ UNCHANGED <<exited, existingIPs, existingCreds, sCursor, sDone, cVars, pVars,
                   configured, hostIP, mVars, gVars>>

AfterSelection ==
    /\ IF sDone'
       THEN /\ step' = "credentials"
            /\ selected' = S!Selected(cameras, checked)
            /\ creds' = C!NewCreds(selected', existingCreds)
            /\ LET prefill == C!PrefillFor(selected'[1], existingCreds)
               IN  username' = prefill.user /\ password' = prefill.pass
            /\ cFocused' = {"username"}
       ELSE UNCHANGED <<step, selected, creds, username, password, cFocused>>
    /\ UNCHANGED <<quitting, exited, existingIPs, existingCreds, dVars, camIndex, cField,
                   sameForAll, cDone, pVars, configured, hostIP, mVars, gVars>>

AfterCredentials ==
    /\ IF cDone'
       THEN /\ step' = "probe"
            /\ results' = P!NewResults(selected, creds')
            /\ pending' = Len(selected)
            /\ inflight' = P!InitCommands(selected, creds')
       ELSE UNCHANGED <<step, results, pending, inflight>>
    /\ UNCHANGED <<quitting, exited, existingIPs, dVars, sVars, pState, pCursor, pDone,
                   configured, hostIP, mVars, gVars>>

AfterProbeDropsFailed ==                  \* mutant: the selection shrinks to what answered
    /\ IF pDone'
       THEN /\ step' = "mqtt"
            /\ configured' = P!Configured(results')
            /\ selected' = [i \in DOMAIN configured' |-> configured'[i].camera]
            /\ hostIP' \in {"lan", M!Localhost}
       ELSE UNCHANGED <<step, selected, configured, hostIP>>
    /\ UNCHANGED <<quitting, exited, existingIPs, existingCreds, dVars, sVars, creds,
                   camIndex, cField, username, password, cFocused, sameForAll, cDone,
                   mVars, gVars>>

\* The host's own address may be unknown.
AfterProbe ==
    /\ IF pDone'
       THEN /\ step' = "mqtt"
            /\ configured' = P!Configured(results')
            /\ hostIP' \in {"lan", M!Localhost}
       ELSE UNCHANGED <<step, configured, hostIP>>
    /\ UNCHANGED <<quitting, exited, existingIPs, existingCreds, dVars, sVars, cVars,
                   mVars, gVars>>

AfterMQTT ==
    /\ IF mDone'
       THEN /\ step' = "generate"
            /\ setup' = [cameras |-> configured, mqtt |-> mqttConfig', hostIP |-> hostIP]
       ELSE UNCHANGED <<step, setup>>
    /\ UNCHANGED <<quitting, exited, existingIPs, existingCreds, dVars, sVars, cVars,
                   pVars, configured, gState, gDone, writer, installs, composeFile,
                   envFile>>

AfterGenerate ==
    /\ IF gDone' THEN step' = "done" /\ quitting' = TRUE
                 ELSE UNCHANGED <<step, quitting>>
    /\ UNCHANGED <<exited, existingIPs, existingCreds, dVars, sVars, cVars, pVars,
                   configured, hostIP, mVars>>

DiscoveryAnswer == At("discovery") /\ D!Answer /\ AfterDiscovery
DiscoveryKey == At("discovery") /\ D!Key /\ AfterDiscovery
SelectionKey == At("selection") /\ S!Step /\ AfterSelection
CredentialsKey == At("credentials") /\ C!Step /\ AfterCredentials
ProbeAnswer == At("probe") /\ P!Answer /\ AfterProbe
ProbeKey == At("probe") /\ P!Key /\ AfterProbe
MQTTAnswer == At("mqtt") /\ M!Answer /\ AfterMQTT
MQTTKey == At("mqtt") /\ M!Key /\ AfterMQTT
GenerateDone == At("generate") /\ G!GenerateDone /\ AfterGenerate
InstallDone == At("generate") /\ G!InstallDone /\ AfterGenerate
GenerateKey == At("generate") /\ G!Key /\ AfterGenerate

\* ctrl+c asks the program to end, whatever the step; no step sees the key.
CtrlC ==
    /\ ~exited
    /\ quitting' = TRUE
    /\ UNCHANGED <<step, exited, existingIPs, existingCreds, dVars, sVars, cVars, pVars,
                   configured, hostIP, mVars, gVars>>

-----------------------------------------------------------------------------
(* Beside the loop. *)

\* The command that writes the files goes on whatever the loop does.
Writing ==
    /\ ~exited
    /\ G!Write
    /\ UNCHANGED <<root, dVars, sVars, cVars, pVars, configured, hostIP, mVars>>

Exit ==
    /\ quitting /\ ~exited
    /\ exited' = TRUE
    /\ UNCHANGED <<step, quitting, existingIPs, existingCreds, dVars, sVars, cVars, pVars,
                   configured, hostIP, mVars, gVars>>

Exited == exited /\ UNCHANGED vars

Next ==
    \/ DiscoveryAnswer \/ DiscoveryKey
    \/ SelectionKey
    \/ CredentialsKey
    \/ ProbeAnswer \/ ProbeKey
    \/ MQTTAnswer \/ MQTTKey
    \/ GenerateDone \/ InstallDone \/ GenerateKey
    \/ Writing
    \/ CtrlC \/ Exit \/ Exited

Spec == Init /\ [][Next]_vars

\* Every command but the installation answers: scans and probes have deadlines, and
\* a scheduled goroutine writes.  Installing asks for the administrator's password
\* and may wait for ever.
Fairness ==
    /\ WF_vars(DiscoveryAnswer)
    /\ WF_vars(ProbeAnswer)
    /\ WF_vars(MQTTAnswer)
    /\ WF_vars(Writing)
    /\ WF_vars(GenerateDone)

FairSpec == Spec /\ Fairness

-----------------------------------------------------------------------------
(* Properties. *)

\* Every step's model is well formed, and so is the root's.
TypeOK ==
    /\ step \in {"discovery", "selection", "credentials", "probe", "mqtt",
                 "generate", "done"}
    /\ quitting \in BOOLEAN /\ exited \in BOOLEAN
    /\ D!TypeOK /\ S!TypeOK /\ M!TypeOK /\ G!TypeOK
    /\ step = "credentials" => C!TypeOK
    /\ step = "probe" => P!TypeOK

\* The root model gives messages to the current step only, and an answer to any
\* other is lost: every command that has not answered belongs to the current step,
\* which counts exactly the ones it waits for.
NoAnswerLost ==
    /\ step = "discovery" => D!ScanExact
    /\ step # "discovery" => dScans = 0
    /\ IF step = "probe" THEN P!PendingExact ELSE inflight = {}
    /\ IF step = "mqtt" THEN M!ScanExact ELSE mScans = 0
    /\ IF step = "generate" THEN G!OneCommand ELSE writer = "idle" /\ installs = 0

\* The view of the current step can always be drawn and its keys handled: no error
\* is missing, no list is indexed outside its bounds, no field is dead.
ScreenSafe ==
    /\ step = "discovery" => D!ViewSafe
    /\ step = "credentials" => C!PromptSafe
    /\ step = "probe" => P!ViewSafe
    /\ step = "mqtt" => M!PickSafe /\ M!EntryUsable

\* What is configured in the end are the cameras the user selected and that
\* answered, in the order of the list, each with the credentials that were given
\* for it and a stream that was obtained with them.
ConfiguredFaithful ==
    step \in {"mqtt", "generate", "done"} =>
        \E at \in [DOMAIN configured -> DOMAIN selected] :
            /\ \A j, k \in DOMAIN configured : j < k => at[j] < at[k]
            /\ {at[k] : k \in DOMAIN configured} =
                   {i \in DOMAIN selected : ~results[i].err}
            /\ \A k \in DOMAIN configured :
                  LET c == configured[k]
                  IN  /\ c.camera = selected[at[k]] /\ c.creds = creds[at[k]]
                      /\ c.stream.camera = c.camera /\ c.stream.creds = c.creds
                      /\ c.creds.user # ""

\* The installation is only ever offered, and made, for files that hold the
\* configuration of the cameras and the broker that the steps before gathered.
InstallFaithful ==
    /\ step = "generate" => G!InstallsWhatWasWritten
    /\ step \in {"generate", "done"} =>
           setup = [cameras |-> configured, mqtt |-> mqttConfig, hostIP |-> hostIP]

\* How far this run has come with a file that should hold what is given.
Progress(file, new) ==
    CASE file = G!Old -> "old" [] file = G!Torn -> "torn" [] file = new -> "new"
      [] OTHER -> "wrong"

Contract == INSTANCE SetupContract WITH
    agreed <- IF gState = "confirm" THEN <<>> ELSE <<setup>>,
    compose <- Progress(composeFile, G!ComposeFor(setup)),
    env <- Progress(envFile, G!EnvFor(setup)),
    service <- IF installs > 0 THEN "installing"
               ELSE IF gState = "installDone" THEN "installed" ELSE "untouched"

\* The wizard, with all its steps and whatever keys and answers come, does no more than
\* the contract says: a setup abandoned before its summary was confirmed leaves the
\* files of the earlier one as they were, what was confirmed is what is written, one
\* file after the other, and only a complete pair is installed.
KeepsContract == Contract!Spec

Place(s) ==
    LET order == <<"discovery", "selection", "credentials", "probe", "mqtt",
                   "generate", "done">>
    IN  CHOOSE i \in DOMAIN order : order[i] = s

\* The wizard only goes forward, one step at a time, and what a finished step has
\* decided is never changed by a later one.
ForwardOnly ==
    [][/\ Place(step') \in {Place(step), Place(step) + 1}
       /\ Place(step) > 1 => cameras' = cameras
       /\ Place(step) > 2 => selected' = selected
       /\ Place(step) > 3 => creds' = creds
       /\ Place(step) > 4 => configured' = configured
       /\ Place(step) > 5 => mqttConfig' = mqttConfig]_vars

\* Whenever the wizard shows that it is busy with the network or the files, it
\* comes back to the user, or the program ends.
Busy ==
    ~exited /\ \/ step = "discovery" /\ dState = "scanning" /\ ~dDone
               \/ step = "probe" /\ pState = "running"
               \/ step = "mqtt" /\ mState = "scanning"
               \/ step = "generate" /\ gState = "writing"

BusyEnds == Busy ~> ~Busy

\* What is left of the commands at work: a scan and a camera have an answer each to
\* give; the writing command has four files to open or fill, and then its answer.
WriterLeft ==
    CASE writer = "openCompose" -> 5 [] writer = "fillCompose" -> 4
      [] writer = "openEnv" -> 3 [] writer = "fillEnv" -> 2
      [] writer \in {"succeeded", "failed"} -> 1 [] OTHER -> 0

Work ==
    CASE step = "discovery" -> dScans [] step = "probe" -> Cardinality(inflight)
      [] step = "mqtt" -> mScans [] step = "generate" -> WriterLeft [] OTHER -> 0

\* Why every wait ends: whenever the wizard shows that it is busy, commands of the
\* current step are at work, and every step that leaves it busy has one of them come
\* nearer its end, or is ctrl+c, which touches nothing of it.
BusyRunsDown ==
    [][Busy => /\ Work > 0
               /\ Busy' => \/ step' = step /\ Work' < Work
                           \/ UNCHANGED <<step, dVars, pVars, mVars, gVars>>]_vars

=============================================================================
