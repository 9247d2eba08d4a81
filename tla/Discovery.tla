----------------------------- MODULE Discovery -----------------------------
(***************************************************************************)
(* The discovery step of the setup wizard (tui/steps/discovery.go): a      *)
(* WS-Discovery scan of the LAN runs as a command; when it finds nothing   *)
(* the user may repeat it, give a camera's address, or give up.            *)
(* The address typed is abstracted to whether the field is empty.          *)
(***************************************************************************)
EXTENDS Integers, Sequences

CONSTANTS
    Camera,    \* ONVIF cameras
    MaxFound   \* bound on the cameras one scan answers with

VARIABLES
    state,     \* "scanning", "found", "failed" or "manual"
    cameras,   \* what the last successful scan answered
    err,       \* there is an error to show
    typed,     \* the address field is not empty
    done,
    scans      \* how many scan commands have not answered

vars == <<state, cameras, err, typed, done, scans>>

Found == UNION {[1..n -> Camera] : n \in 1..MaxFound}

TypeOK ==
    /\ state \in {"scanning", "found", "failed", "manual"}
    /\ cameras \in Found \cup {<<>>}
    /\ err \in BOOLEAN /\ typed \in BOOLEAN /\ done \in BOOLEAN
    /\ scans \in Nat

Init ==
    /\ state = "scanning"
    /\ cameras = <<>>
    /\ err = FALSE
    /\ typed = FALSE
    /\ done = FALSE
    /\ scans = 1

-----------------------------------------------------------------------------

\* The root model throws away the command a finished step returns.
Launch == scans' = IF done THEN scans ELSE scans + 1

\* A scan answers without cameras, or fails: an error is made up if there is none.
FoundNothing ==
    /\ scans > 0
    /\ scans' = scans - 1
    /\ state' = "failed"
    /\ err' = TRUE
    /\ UNCHANGED <<cameras, typed, done>>

\* A scan answers with cameras; an error of an earlier scan is not cleared.
FoundCameras ==
    /\ scans > 0
    /\ scans' = scans - 1
    /\ cameras' \in Found
    /\ state' = "found"
    /\ done' = TRUE
    /\ UNCHANGED <<err, typed>>

KeyRetry ==
    /\ state = "failed"
    /\ state' = "scanning"
    /\ err' = FALSE
    /\ Launch
    /\ UNCHANGED <<cameras, typed, done>>

KeyManual ==
    /\ state = "failed"
    /\ state' = "manual"
    /\ UNCHANGED <<cameras, err, typed, done, scans>>

KeyQuit ==
    /\ state = "failed"
    /\ done' = TRUE
    /\ UNCHANGED <<state, cameras, err, typed, scans>>

KeyType ==
    /\ state = "manual"
    /\ typed' \in BOOLEAN
    /\ UNCHANGED <<state, cameras, err, done, scans>>

KeyEnterBlank ==                          \* mutant: an empty address is probed, too
    /\ state = "manual"
    /\ Launch
    /\ UNCHANGED <<state, cameras, err, typed, done>>

KeyEnterNoProbe ==                        \* mutant: no probe is started
    /\ state = "manual" /\ typed
    /\ state' = "scanning"
    /\ UNCHANGED <<cameras, err, typed, done, scans>>

\* An empty address is ignored.
KeyEnter ==
    /\ state = "manual" /\ typed
    /\ state' = "scanning"
    /\ Launch
    /\ UNCHANGED <<cameras, err, typed, done>>

KeyEsc ==
    /\ state = "manual"
    /\ state' = "failed"
    /\ UNCHANGED <<cameras, err, typed, done, scans>>

Answer == FoundNothing \/ FoundCameras

Key == KeyRetry \/ KeyManual \/ KeyQuit \/ KeyType \/ KeyEnter \/ KeyEsc

Step == Answer \/ Key

-----------------------------------------------------------------------------

\* View calls err.Error() in the failed state without looking, and the way back
\* from the address entry leads there.
ViewSafe == state \in {"failed", "manual"} => err

\* While the step runs there is exactly one scan at work when it says it scans, and
\* none otherwise.
ScanExact == ~done => scans = IF state = "scanning" THEN 1 ELSE 0

=============================================================================
