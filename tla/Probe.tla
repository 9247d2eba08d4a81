------------------------------- MODULE Probe -------------------------------
(***************************************************************************)
(* The probe step of the setup wizard (tui/steps/probe.go): one goroutine  *)
(* per selected camera asks it for its RTSP streams; the answers come back *)
(* as messages in any order; once all are in, the user pages through them, *)
(* switches profiles, probes failed cameras again and confirms.            *)
(*                                                                         *)
(* Positions in lists are 1-based here and 0-based in the code.  The       *)
(* commands that have been started and have not answered yet are the       *)
(* goroutines of the Bubble Tea runtime: they carry the camera and the     *)
(* credentials they were started with, and the position to answer for.     *)
(***************************************************************************)
EXTENDS Integers, Sequences, FiniteSets, Sublists

CONSTANTS
    Camera,      \* ONVIF cameras
    Credential,  \* user name and password pairs
    MaxCameras,  \* bound on the number of selected cameras
    MaxStreams   \* bound on the profiles a camera has streams for

ASSUME ProbeAssumption == MaxCameras \in Nat \ {0} /\ MaxStreams \in Nat \ {0}

VARIABLES
    state,     \* "running" or "results"
    results,   \* per selected camera: what is known of its streams
    pending,   \* how many answers the model believes are outstanding
    cursor,    \* the highlighted camera
    done,      \* the user has confirmed
    inflight   \* the probe commands that have not answered

vars == <<state, results, pending, cursor, done, inflight>>

Stream  == [camera : Camera, creds : Credential, profile : 1..MaxStreams]
Result  == [camera : Camera, creds : Credential, streams : Seq(Stream),
            err : BOOLEAN, chosen : Nat \ {0}]
Command == [index : Nat \ {0}, camera : Camera, creds : Credential]
Lists(S) == UNION {[1..n -> S] : n \in 1..MaxCameras}

\* The code keeps its cursor on a camera and its state within its enumeration.
TypeOK ==
    /\ state \in {"running", "results"}
    /\ \E n \in 1..MaxCameras : results \in [1..n -> Result]
    /\ pending \in Int
    /\ cursor \in DOMAIN results
    /\ done \in BOOLEAN
    /\ inflight \in SUBSET Command

-----------------------------------------------------------------------------
(* Starting the step, and what a camera may answer. *)

ProbeCameraCmd(i, cam, cr) == [index |-> i, camera |-> cam, creds |-> cr]

NewResults(cams, crs) ==
    [i \in DOMAIN cams |-> [camera |-> cams[i], creds |-> crs[i],
                            streams |-> <<>>, err |-> FALSE, chosen |-> 1]]

InitCommandsFirstCreds(cams, crs) ==      \* mutant: the first camera's credentials
    {ProbeCameraCmd(i, cams[i], crs[1]) : i \in DOMAIN cams}

InitCommands(cams, crs) ==
    {ProbeCameraCmd(i, cams[i], crs[i]) : i \in DOMAIN cams}

\* The URIs of the first n profiles of the camera a command was started for.
StreamsOf(c, n) ==
    [p \in 1..n |-> [camera |-> c.camera, creds |-> c.creds, profile |-> p]]

\* An error comes without streams, and streams come without an error.
GetStreamURIs(c) ==
    {[streams |-> <<>>, err |-> TRUE]} \cup
    {[streams |-> StreamsOf(c, n), err |-> FALSE] : n \in 1..MaxStreams}

Init ==
    /\ \E cams \in Lists(Camera) : \E crs \in [DOMAIN cams -> Credential] :
         /\ results = NewResults(cams, crs)
         /\ pending = Len(cams)
         /\ inflight = InitCommands(cams, crs)
    /\ state = "running"
    /\ cursor = 1
    /\ done = FALSE

-----------------------------------------------------------------------------
(* The messages and the keys of Update. *)

ProbeResultErrorUncounted(c) ==           \* mutant: a failure returns early
    /\ ~done
    /\ \E answer \in GetStreamURIs(c) :
         /\ results' = [results EXCEPT ![c.index].streams = answer.streams,
                                       ![c.index].err = answer.err]
         /\ pending' = IF answer.err THEN pending ELSE pending - 1
    /\ inflight' = inflight \ {c}
    /\ state' = IF pending' <= 0 THEN "results" ELSE state
    /\ UNCHANGED <<cursor, done>>

ProbeResult(c) ==
    /\ ~done
    /\ \E answer \in GetStreamURIs(c) :
         results' = [results EXCEPT ![c.index].streams = answer.streams,
                                    ![c.index].err = answer.err]
    /\ inflight' = inflight \ {c}
    /\ pending' = pending - 1
    /\ state' = IF pending - 1 <= 0 THEN "results" ELSE state
    /\ UNCHANGED <<cursor, done>>

Listening == state = "results" /\ ~done

KeyUp ==
    /\ Listening /\ cursor > 1
    /\ cursor' = cursor - 1
    /\ UNCHANGED <<state, results, pending, done, inflight>>

KeyDown ==
    /\ Listening /\ cursor < Len(results)
    /\ cursor' = cursor + 1
    /\ UNCHANGED <<state, results, pending, done, inflight>>

KeyLeft ==
    /\ Listening /\ Len(results[cursor].streams) > 1 /\ results[cursor].chosen > 1
    /\ results' = [results EXCEPT ![cursor].chosen = @ - 1]
    /\ UNCHANGED <<state, pending, cursor, done, inflight>>

KeyRightOffByOne ==                       \* mutant: one past the last profile
    /\ Listening /\ Len(results[cursor].streams) > 1
    /\ results[cursor].chosen <= Len(results[cursor].streams)
    /\ results' = [results EXCEPT ![cursor].chosen = @ + 1]
    /\ UNCHANGED <<state, pending, cursor, done, inflight>>

KeyRight ==
    /\ Listening /\ Len(results[cursor].streams) > 1
    /\ results[cursor].chosen < Len(results[cursor].streams)
    /\ results' = [results EXCEPT ![cursor].chosen = @ + 1]
    /\ UNCHANGED <<state, pending, cursor, done, inflight>>

Reprobe ==
    /\ results' = [results EXCEPT ![cursor].err = FALSE]
    /\ state' = "running"
    /\ inflight' = inflight \cup
         {ProbeCameraCmd(cursor, results[cursor].camera, results[cursor].creds)}
    /\ UNCHANGED <<cursor, done>>

KeyRetryUncounted ==                      \* mutant: pending is not incremented
    /\ Listening /\ results[cursor].err
    /\ Reprobe /\ UNCHANGED pending

KeyRetryAny ==                            \* mutant: a camera that answered, too
    /\ Listening
    /\ Reprobe /\ pending' = pending + 1

\* Only a camera whose last probe failed is probed again.
KeyRetry ==
    /\ Listening /\ results[cursor].err
    /\ Reprobe /\ pending' = pending + 1

KeyEnterAnyTime ==                        \* mutant: while cameras are asked, too
    /\ ~done
    /\ done' = TRUE
    /\ UNCHANGED <<state, results, pending, cursor, inflight>>

KeyEnter ==
    /\ Listening
    /\ done' = TRUE
    /\ UNCHANGED <<state, results, pending, cursor, inflight>>

Answer == \E c \in inflight : ProbeResult(c)

Key == KeyUp \/ KeyDown \/ KeyLeft \/ KeyRight \/ KeyRetry \/ KeyEnter

Step == Answer \/ Key

\* The step is over: the root model sends it nothing more.
Finished == done /\ UNCHANGED vars

Next == Step \/ Finished

Spec == Init /\ [][Next]_vars

\* Every request of a probe has an HTTP timeout, so every command answers.
Fairness ==
    \A i \in 1..MaxCameras :
        WF_vars(\E c \in inflight : c.index = i /\ ProbeResult(c))

FairSpec == Spec /\ Fairness

-----------------------------------------------------------------------------
(* What the step hands to the root model. *)

Configured(res) ==
    LET ok   == {r \in {res[i] : i \in DOMAIN res} : ~r.err /\ Len(r.streams) > 0}
        kept == Kept(res, ok)
    IN  [i \in DOMAIN kept |-> [camera |-> kept[i].camera, creds |-> kept[i].creds,
                                stream |-> kept[i].streams[kept[i].chosen]]]

-----------------------------------------------------------------------------
(* Properties. *)

\* The counter Update decrements is the number of goroutines still at work, no
\* camera is asked twice at once, and the results are shown exactly when nobody
\* is working.
PendingExact ==
    /\ pending = Cardinality(inflight)
    /\ \A c, d \in inflight : c.index = d.index => c = d
    /\ (state = "results") = (inflight = {})

\* View and Configured index a camera's streams with its chosen profile without
\* looking: in the results every camera has an error or a chosen stream.
ViewSafe ==
    state = "results" =>
        \A i \in DOMAIN results :
            results[i].err \/ results[i].chosen \in DOMAIN results[i].streams

\* Answers come in any order and a retry may cross others, but a camera only ever
\* shows streams that were obtained from itself with the credentials given for it.
OwnStreams ==
    \A i \in DOMAIN results : \A p \in DOMAIN results[i].streams :
        /\ results[i].streams[p].camera = results[i].camera
        /\ results[i].streams[p].creds = results[i].creds

\* Confirming never abandons a camera: all have answered by then.
ConfirmedAnswered ==
    done => /\ inflight = {}
            /\ \A i \in DOMAIN results : results[i].err # (results[i].streams # <<>>)

\* A camera that has answered with streams keeps them: no later answer, retry or
\* key takes them away, and keys move only the highlighted camera's choice.
SettledStays ==
    [][\A i \in DOMAIN results :
          /\ results[i].streams # <<>> =>
                 results'[i].streams = results[i].streams /\ ~results'[i].err
          /\ i # cursor => results'[i].chosen = results[i].chosen]_vars

\* However often the user retries, every wait for the cameras ends.
ProbingEnds == state = "running" ~> state = "results"

=============================================================================
