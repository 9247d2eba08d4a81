---------------------------- MODULE Credentials ----------------------------
(***************************************************************************)
(* The credentials step of the setup wizard (tui/steps/credentials.go):    *)
(* user name and password are asked for camera after camera, filled in     *)
(* with what an earlier setup configured for the camera's address, or      *)
(* given once for all cameras.  Positions are 1-based.  A text field is    *)
(* its value; typing changes it to any other.  A field takes keys only     *)
(* while it has the focus.                                                 *)
(***************************************************************************)
EXTENDS Integers, Sequences

CONSTANTS
    Camera,
    MaxCameras,  \* bound on the cameras asked for, in this module's own instances
    User,      \* user names, without the empty one
    Password,  \* passwords, without the empty one
    IpOf       \* the address of each camera

ASSUME CredentialsAssumption == MaxCameras \in Nat

Blank == ""

Credential == [user : User \cup {Blank}, pass : Password \cup {Blank}]
NoCreds == [user |-> Blank, pass |-> Blank]

VARIABLES
    cameras,     \* the cameras to ask for
    creds,       \* what has been given, position by position
    camIndex,    \* the camera being asked for
    field,       \* "username" or "password"
    username,
    password,
    focused,     \* the fields that have the focus
    sameForAll,
    done,
    existing     \* address -> credentials of an earlier setup

vars == <<cameras, creds, camIndex, field, username, password, focused,
          sameForAll, done, existing>>

\* The code's cursor into the cameras leaves the list only when the step is done.
TypeOK ==
    /\ cameras \in Seq(Camera)
    /\ creds \in [DOMAIN cameras -> Credential]
    /\ camIndex \in 1..Len(cameras) + 1
    /\ field \in {"username", "password"}
    /\ username \in User \cup {Blank} /\ password \in Password \cup {Blank}
    /\ focused \in SUBSET {"username", "password"}
    /\ sameForAll \in BOOLEAN /\ done \in BOOLEAN

Ip == {IpOf[c] : c \in Camera}

\* An address is remembered only with a user name.
Configurations(ips) ==
    UNION {[known -> {c \in Credential : c.user # Blank}] : known \in SUBSET ips}

\* What the fields are filled in with for a camera.
PrefillFor(cam, known) ==
    IF IpOf[cam] \in DOMAIN known THEN known[IpOf[cam]] ELSE NoCreds

NewCreds(cams, known) ==
    [i \in DOMAIN cams |-> IF i = 1 THEN PrefillFor(cams[1], known) ELSE NoCreds]

-----------------------------------------------------------------------------

KeyTab ==
    /\ ~done
    /\ field' = IF field = "username" THEN "password" ELSE "username"
    /\ focused' = (focused \ {field}) \cup {field'}
    /\ UNCHANGED <<cameras, creds, camIndex, username, password, sameForAll, done, existing>>

KeyCtrlA ==
    /\ ~done
    /\ sameForAll' = ~sameForAll
    /\ UNCHANGED <<cameras, creds, camIndex, field, username, password, focused,
                   done, existing>>

KeyType ==
    /\ ~done /\ field \in focused
    /\ IF field = "username"
       THEN username' \in User \cup {Blank} /\ UNCHANGED password
       ELSE password' \in Password \cup {Blank} /\ UNCHANGED username
    /\ UNCHANGED <<cameras, creds, camIndex, field, focused, sameForAll, done, existing>>

Entered == [user |-> username, pass |-> password]

EnterForAllFromHere ==                    \* mutant: only the cameras after this one
    /\ ~done /\ sameForAll /\ username # Blank
    /\ creds' = [i \in DOMAIN creds |-> IF i > camIndex THEN Entered ELSE creds[i]]
    /\ done' = TRUE
    /\ UNCHANGED <<cameras, camIndex, field, username, password, focused,
                   sameForAll, existing>>

\* A user name is required; a password is not.
EnterForAll ==
    /\ ~done /\ sameForAll /\ username # Blank
    /\ creds' = [i \in DOMAIN creds |-> Entered]
    /\ done' = TRUE
    /\ UNCHANGED <<cameras, camIndex, field, username, password, focused,
                   sameForAll, existing>>

EnterLast ==
    /\ ~done /\ ~sameForAll /\ username # Blank /\ camIndex = Len(cameras)
    /\ creds' = [creds EXCEPT ![camIndex] = Entered]
    /\ camIndex' = camIndex + 1
    /\ done' = TRUE
    /\ UNCHANGED <<cameras, field, username, password, focused, sameForAll, existing>>

AskNext ==
    /\ camIndex' = camIndex + 1
    /\ LET prefill == PrefillFor(cameras[camIndex + 1], existing)
       IN  username' = prefill.user /\ password' = prefill.pass
    /\ field' = "username"
    /\ focused' = {"username"}
    /\ UNCHANGED <<cameras, sameForAll, done, existing>>

EnterNextRefill ==                        \* mutant: the next camera's prefill is stored
    /\ ~done /\ ~sameForAll /\ username # Blank /\ camIndex < Len(cameras)
    /\ creds' = [i \in DOMAIN creds |->
                    IF i = camIndex THEN Entered ELSE PrefillFor(cameras[i], existing)]
    /\ AskNext

EnterNextKeepsField ==                    \* mutant: the field is not reset
    /\ ~done /\ ~sameForAll /\ username # Blank /\ camIndex < Len(cameras)
    /\ creds' = [creds EXCEPT ![camIndex] = Entered]
    /\ camIndex' = camIndex + 1
    /\ LET prefill == PrefillFor(cameras[camIndex + 1], existing)
       IN  username' = prefill.user /\ password' = prefill.pass
    /\ focused' = {"username"}
    /\ UNCHANGED <<cameras, field, sameForAll, done, existing>>

EnterNext ==
    /\ ~done /\ ~sameForAll /\ username # Blank /\ camIndex < Len(cameras)
    /\ creds' = [creds EXCEPT ![camIndex] = Entered]
    /\ AskNext

Step == KeyTab \/ KeyCtrlA \/ KeyType \/ EnterForAll \/ EnterNext \/ EnterLast

-----------------------------------------------------------------------------
(* The step by itself: the root model starts it with a selection that is   *)
(* not empty and with what it read from the .env file of an earlier setup. *)

Init ==
    /\ cameras \in UNION {[1..n -> Camera] : n \in 1..MaxCameras}
    /\ existing \in Configurations(Ip)
    /\ creds = NewCreds(cameras, existing)
    /\ camIndex = 1
    /\ field = "username"
    /\ username = PrefillFor(cameras[1], existing).user
    /\ password = PrefillFor(cameras[1], existing).pass
    /\ focused = {"username"}
    /\ sameForAll = FALSE
    /\ done = FALSE

\* The step is over: the root model sends it nothing more.
Finished == done /\ UNCHANGED vars

Next == Step \/ Finished

Spec == Init /\ [][Next]_vars

-----------------------------------------------------------------------------
(* Properties. *)

\* Whatever mixture of single answers and answers for all, of prefilled and typed
\* fields: no camera leaves the step without a user name.
AllGiven == done => \A i \in DOMAIN creds : creds[i].user # Blank

\* View and Update index the cameras with camIndex without looking, and the field
\* that is edited is one that takes keys: the user can always go on.
PromptSafe == ~done => camIndex \in DOMAIN cameras /\ field \in focused

\* What has been entered for a camera stays, however the later cameras are answered,
\* unless the user answers for all of them.
EarlierKept ==
    [][\A i \in DOMAIN creds :
          i < camIndex /\ creds'[i] # creds[i] => sameForAll /\ done']_vars

=============================================================================
