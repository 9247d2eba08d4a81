----------------------------- MODULE Generate ------------------------------
(***************************************************************************)
(* The last step of the setup wizard (tui/steps/generate.go): the summary  *)
(* is confirmed, a command writes docker-compose.dist.yml and then .env,   *)
(* and the user may have the service installed.  Both files are opened     *)
(* with truncation and then filled, so a failure, or the end of the        *)
(* program, leaves a file torn.  What Install does to the host is not      *)
(* followed here, only whether it answers with an error.                   *)
(***************************************************************************)
EXTENDS Integers, Sequences

VARIABLES
    state,        \* "confirm", "writing", "askInstall", "installing",
                  \* "installDone", "done" or "error"
    setup,        \* the configuration of the summary
    done,
    writer,       \* the writing command: its next step, or "idle"
    installs,     \* how many install commands have not answered
    composeFile,  \* docker-compose.dist.yml
    envFile       \* .env

vars == <<state, setup, done, writer, installs, composeFile, envFile>>

Old == [kind |-> "old"]
Torn == [kind |-> "torn"]

\* The compose file refers to the cameras by number and carries no address; the
\* .env file carries the rest.
ComposeFor(s) == [kind |-> "new", cameras |-> Len(s.cameras), mqtt |-> s.mqtt.enabled]
EnvFor(s) == [kind |-> "new", setup |-> s]

TypeOK ==
    /\ state \in {"confirm", "writing", "askInstall", "installing", "installDone",
                  "done", "error"}
    /\ done \in BOOLEAN
    /\ writer \in {"idle", "openCompose", "fillCompose", "openEnv", "fillEnv",
                   "succeeded", "failed"}
    /\ installs \in Nat
    /\ composeFile.kind \in {"old", "torn", "new"}
    /\ envFile.kind \in {"old", "torn", "new"}

-----------------------------------------------------------------------------
(* The writing command. *)

OpenComposeLosesError ==                  \* mutant: the first error is dropped
    /\ writer = "openCompose"
    /\ \/ composeFile' = Torn /\ writer' = "fillCompose"
       \/ writer' = "openEnv" /\ UNCHANGED composeFile
    /\ UNCHANGED <<state, setup, done, installs, envFile>>

OpenCompose ==
    /\ writer = "openCompose"
    /\ \/ composeFile' = Torn /\ writer' = "fillCompose"
       \/ writer' = "failed" /\ UNCHANGED composeFile
    /\ UNCHANGED <<state, setup, done, installs, envFile>>

FillCompose ==
    /\ writer = "fillCompose"
    /\ \/ composeFile' = ComposeFor(setup) /\ writer' = "openEnv"
       \/ writer' = "failed" /\ UNCHANGED composeFile
    /\ UNCHANGED <<state, setup, done, installs, envFile>>

\* The old .env is read before it is truncated; one that cannot be read counts as
\* empty.
OpenEnv ==
    /\ writer = "openEnv"
    /\ \/ envFile' = Torn /\ writer' = "fillEnv"
       \/ writer' = "failed" /\ UNCHANGED envFile
    /\ UNCHANGED <<state, setup, done, installs, composeFile>>

FillEnv ==
    /\ writer = "fillEnv"
    /\ \/ envFile' = EnvFor(setup) /\ writer' = "succeeded"
       \/ writer' = "failed" /\ UNCHANGED envFile
    /\ UNCHANGED <<state, setup, done, installs, composeFile>>

Write == OpenCompose \/ FillCompose \/ OpenEnv \/ FillEnv

-----------------------------------------------------------------------------
(* The messages and the keys of Update. *)

GenerateDone ==
    /\ writer \in {"succeeded", "failed"}
    /\ writer' = "idle"
    /\ state' = IF writer = "failed" THEN "error" ELSE "askInstall"
    /\ UNCHANGED <<setup, done, installs, composeFile, envFile>>

InstallFails ==
    /\ installs > 0
    /\ installs' = installs - 1
    /\ state' = "error"
    /\ UNCHANGED <<setup, done, writer, composeFile, envFile>>

InstallSucceeds ==
    /\ installs > 0
    /\ installs' = installs - 1
    /\ state' = "installDone"
    /\ done' = TRUE
    /\ UNCHANGED <<setup, writer, composeFile, envFile>>

KeyWriteKeepsState ==                     \* mutant: the state does not follow
    /\ state \in {"confirm", "error"}
    /\ writer' = "openCompose"
    /\ UNCHANGED <<state, setup, done, installs, composeFile, envFile>>

\* Both from the summary and, to try again, from an error, whatever failed.
KeyWrite ==
    /\ state \in {"confirm", "error"}
    /\ state' = "writing"
    /\ writer' = "openCompose"
    /\ UNCHANGED <<setup, done, installs, composeFile, envFile>>

KeyCancel ==
    /\ state \in {"confirm", "error"}
    /\ done' = TRUE
    /\ UNCHANGED <<state, setup, writer, installs, composeFile, envFile>>

KeyInstall ==
    /\ state = "askInstall"
    /\ state' = "installing"
    /\ installs' = installs + 1
    /\ UNCHANGED <<setup, done, writer, composeFile, envFile>>

KeyNoInstall ==
    /\ state = "askInstall"
    /\ state' = "done"
    /\ done' = TRUE
    /\ UNCHANGED <<setup, writer, installs, composeFile, envFile>>

InstallDone == InstallFails \/ InstallSucceeds

Key == KeyWrite \/ KeyCancel \/ KeyInstall \/ KeyNoInstall

-----------------------------------------------------------------------------

\* The user is asked to install, and the service is installed, only when both files
\* hold the configuration that was confirmed, after any number of failed attempts.
InstallsWhatWasWritten ==
    state \in {"askInstall", "installing", "installDone", "done"} =>
        composeFile = ComposeFor(setup) /\ envFile = EnvFor(setup)

\* At most one command is at work, and the state says which.
OneCommand ==
    /\ (writer # "idle") = (state = "writing")
    /\ installs = IF state = "installing" THEN 1 ELSE 0

=============================================================================
