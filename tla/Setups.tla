------------------------------- MODULE Setups -------------------------------
(***************************************************************************)
(* One setup after the other in the same directory: each writes the two    *)
(* files (tui/steps/generate.go, tui/compose), the compose file first and  *)
(* .env from what the setup before left of it.  A setup may fail or be     *)
(* interrupted between any two steps, and between setups the user edits    *)
(* .env by hand.                                                           *)
(***************************************************************************)
EXTENDS EnvFile

CONSTANTS
    MaxCameras, MaxEdits,  \* bounds
    Extra                  \* names of the user's own in .env

ASSUME SetupsAssumption == MaxCameras \in Nat /\ MaxEdits \in Nat

Editable == MQTTNames \cup OtherNames \cup Extra

VARIABLES
    composeFile,  \* what docker-compose.dist.yml declares
    envFile,
    pc,           \* the next step of the setup at work, or "idle"
    setup,        \* the setup at work; when idle, the one that ended without an error
                  \* and after which nothing was edited, or NoSetup
    merged,       \* what that setup is about to write to .env
    kept,         \* history: the preserved names that got a value of the user's own and
                  \* that every setup since could read
    edits         \* how often the user has edited .env

vars == <<composeFile, envFile, pc, setup, merged, kept, edits>>

NoServices == [cameras |-> 0, mqtt |-> FALSE]
NoSetup == [none |-> TRUE]

\* Every camera's probe may have failed: a setup may have none.
Setup ==
    [cameras : UNION {[1..n -> Confirmed] : n \in 0..MaxCameras}, mqtt : BOOLEAN]

EnvOf(env) ==
    /\ DOMAIN env.cams \subseteq 1..MaxCameras
    /\ \A i \in DOMAIN env.cams : env.cams[i] \in {URLOf(c) : c \in Confirmed}
    /\ DOMAIN env.vars \subseteq Editable
    /\ \A k \in DOMAIN env.vars : env.vars[k] \in {"setup", "default", "custom", Blank}

\* The files have entries and services of their kinds, and the file that is being
\* replaced is empty.
TypeOK ==
    /\ composeFile \in [cameras : 0..MaxCameras, mqtt : BOOLEAN]
    /\ EnvOf(envFile) /\ EnvOf(merged)
    /\ pc \in {"idle", "openCompose", "fillCompose", "openEnv", "fillEnv"}
    /\ setup \in Setup \cup {NoSetup}
    /\ pc = "fillCompose" => composeFile = NoServices
    /\ pc = "fillEnv" => envFile = Empty
    /\ kept \subseteq {"SERVICE_FILE", "MQTT_TOPIC_PREFIX"}
    /\ edits \in 0..MaxEdits

Init ==
    /\ composeFile = NoServices
    /\ envFile = Empty /\ merged = Empty
    /\ pc = "idle" /\ setup = NoSetup
    /\ kept = {}
    /\ edits = 0

-----------------------------------------------------------------------------
(* The writing command of a setup. *)

Begin ==
    /\ pc = "idle"
    /\ setup' \in Setup
    /\ pc' = "openCompose"
    /\ UNCHANGED <<composeFile, envFile, merged, kept, edits>>

OpenComposeKeeps ==                       \* mutant: opened without truncation
    /\ pc = "openCompose"
    /\ pc' = "fillCompose"
    /\ UNCHANGED <<composeFile, envFile, setup, merged, kept, edits>>

OpenCompose ==
    /\ pc = "openCompose"
    /\ composeFile' = NoServices
    /\ pc' = "fillCompose"
    /\ UNCHANGED <<envFile, setup, merged, kept, edits>>

\* Cameras are numbered by their place in the list, and the file refers to .env by
\* that number.
FillCompose ==
    /\ pc = "fillCompose"
    /\ composeFile' = [cameras |-> Len(setup.cameras), mqtt |-> setup.mqtt]
    /\ pc' = "openEnv"
    /\ UNCHANGED <<envFile, setup, merged, kept, edits>>

OpenEnvReadsAfter ==                      \* mutant: truncated before it is read
    /\ pc = "openEnv"
    /\ merged' = Merge(Empty, setup)
    /\ envFile' = Empty
    /\ kept' = IF setup.mqtt THEN kept ELSE kept \ {"MQTT_TOPIC_PREFIX"}
    /\ pc' = "fillEnv"
    /\ UNCHANGED <<composeFile, setup, edits>>

\* What can be read of the old file is merged, and only then is it truncated, whether it
\* could be read or not.
OpenEnv ==
    /\ pc = "openEnv"
    /\ \E part \in Readings(envFile) :
        /\ merged' = Merge(part, setup)
        /\ kept' = (kept \cap DOMAIN part.vars)
                      \ (IF setup.mqtt THEN {} ELSE {"MQTT_TOPIC_PREFIX"})
    /\ envFile' = Empty
    /\ pc' = "fillEnv"
    /\ UNCHANGED <<composeFile, setup, edits>>

FillEnvUnfiltered ==                      \* mutant: the merged entries as they are
    /\ pc = "fillEnv"
    /\ envFile' = merged
    /\ merged' = Empty
    /\ pc' = "idle"
    /\ UNCHANGED <<composeFile, setup, kept, edits>>

FillEnv ==
    /\ pc = "fillEnv"
    /\ envFile' = WriteEnv(merged, setup)
    /\ merged' = Empty
    /\ pc' = "idle"
    /\ UNCHANGED <<composeFile, setup, kept, edits>>

\* A step fails, or the program ends: what was to be written to .env is forgotten.
Abort ==
    /\ pc # "idle"
    /\ pc' = "idle"
    /\ merged' = Empty
    /\ kept' = IF pc = "fillEnv" THEN {} ELSE kept
    /\ setup' = NoSetup
    /\ UNCHANGED <<composeFile, envFile, edits>>

Write == OpenCompose \/ FillCompose \/ OpenEnv \/ FillEnv

-----------------------------------------------------------------------------

\* Between setups the user sets or clears entries of .env.
Edit ==
    /\ pc = "idle" /\ edits < MaxEdits
    /\ \E k \in Editable, v \in {"custom", Blank} :
        /\ envFile' = [envFile EXCEPT !.vars = Over([x \in {k} |-> v], @)]
        /\ kept' = IF v = "custom" THEN kept \cup ({k} \cap {"SERVICE_FILE", "MQTT_TOPIC_PREFIX"})
                                   ELSE kept \ {k}
    /\ setup' = NoSetup
    /\ edits' = edits + 1
    /\ UNCHANGED <<composeFile, pc, merged>>

Next == Begin \/ Write \/ Abort \/ Edit

Spec == Init /\ [][Next]_vars

-----------------------------------------------------------------------------
(* Properties. *)

Whole == pc = "idle" /\ setup # NoSetup

\* What the compose file takes from .env, the addresses by number and the rest by name.
References(f) ==
    {"GHCR_REPO", "TAG"} \cup (IF f.mqtt THEN MQTTNames \cup {"HLS_BASE_URL"} ELSE {})

\* After a setup that ended without an error, whatever the ones before did and left,
\* the two files fit together: .env defines every name the compose file refers to, and
\* its addresses are those of the confirmed cameras, each with the login given for it, as
\* escaped, and of no others.
Resolved ==
    Whole =>
        /\ composeFile = [cameras |-> Len(setup.cameras), mqtt |-> setup.mqtt]
        /\ DOMAIN envFile.cams = 1..composeFile.cameras
        /\ \A i \in DOMAIN envFile.cams :
              /\ envFile.cams[i].host = setup.cameras[i].host
              /\ envFile.cams[i].login = TextOf(setup.cameras[i].login)
        /\ \A k \in References(composeFile) :
              k \in DOMAIN envFile.vars /\ envFile.vars[k] # Blank
        /\ BrokerNames \cap References(composeFile) # {} =>
              \A k \in BrokerNames : envFile.vars[k] = "setup"

\* A service file's name the user has chosen outlives every setup that can read it, and
\* a topic prefix every such setup with a broker, unless a setup ends while .env is being
\* replaced.
EditsKept ==
    pc # "fillEnv" =>
        \A k \in kept : k \in DOMAIN envFile.vars /\ envFile.vars[k] = "custom"

\* GenerateEnv is said to preserve what it does not manage (envfile.go:21).
ServiceFileKept ==
    [][pc = "openEnv" /\ pc' = "fillEnv" /\ "SERVICE_FILE" \in DOMAIN envFile.vars =>
          /\ "SERVICE_FILE" \in DOMAIN merged'.vars
          /\ merged'.vars["SERVICE_FILE"] = envFile.vars["SERVICE_FILE"]]_vars

\* A setup that is run again with the same answers finds in .env what it is going to
\* write: the defaults filled in and the values taken over are taken over as they are.
Repeatable == Whole => WriteEnv(Merge(envFile, setup), setup) = envFile

GivenAt(ip) == {login \in Login : [host |-> ip, login |-> login] \in Range(setup.cameras)}

\* The next setup that can read .env preselects exactly the addresses of the cameras that
\* were configured, and offers for each address with a user one of the logins given
\* there.  They come back as they were escaped, so what is offered is what was typed
\* where nothing in it is.
Offered ==
    Whole =>
        /\ ConfiguredIPs(envFile) = {setup.cameras[i].host : i \in DOMAIN setup.cameras}
        /\ KnownLogins(envFile) # {}
        /\ \A known \in KnownLogins(envFile) :
              /\ DOMAIN known = {ip \in Host : \E login \in GivenAt(ip) : login.user # Blank}
              /\ \A ip \in DOMAIN known : \E login \in GivenAt(ip) : known[ip] = TextOf(login)

\* The next setup fills in the credentials that were given (README, "Re-running
\* setup").
Prefilled ==
    Whole => \A known \in KnownLogins(envFile) :
                \A ip \in DOMAIN known : known[ip] \in GivenAt(ip)

=============================================================================
