--------------------------- MODULE SetupContract ---------------------------
(***************************************************************************)
(* What a run of the setup promises, whatever its steps: one configuration *)
(* is agreed upon; only then are the two files written, the compose file   *)
(* first, as often as it takes; the service is installed only on top of    *)
(* both, and nothing is written meanwhile or afterwards.  The run may be   *)
(* given up at any point.                                                  *)
(***************************************************************************)
VARIABLES
    agreed,    \* <<>>, or <<the configuration>>
    compose,   \* the files: "old", "torn" or "new", as agreed
    env,
    service    \* "untouched", "installing" or "installed" by this run

vars == <<agreed, compose, env, service>>

Init == agreed = <<>> /\ compose = "old" /\ env = "old" /\ service = "untouched"

Agree ==
    /\ agreed = <<>> /\ agreed' # <<>>
    /\ UNCHANGED <<compose, env, service>>

MayWrite == agreed # <<>> /\ service = "untouched" /\ UNCHANGED <<agreed, service>>

BeginCompose == MayWrite /\ compose' = "torn" /\ UNCHANGED env
EndCompose == MayWrite /\ compose = "torn" /\ compose' = "new" /\ UNCHANGED env
BeginEnv == MayWrite /\ compose = "new" /\ env' = "torn" /\ UNCHANGED compose
EndEnv == MayWrite /\ compose = "new" /\ env = "torn" /\ env' = "new" /\ UNCHANGED compose

Install ==
    /\ compose = "new" /\ env = "new"
    /\ service = "untouched" /\ service' = "installing"
    /\ UNCHANGED <<agreed, compose, env>>

InstallEnds ==
    /\ service = "installing" /\ service' \in {"untouched", "installed"}
    /\ UNCHANGED <<agreed, compose, env>>

Next ==
    \/ Agree
    \/ BeginCompose \/ EndCompose \/ BeginEnv \/ EndEnv
    \/ Install \/ InstallEnds

Spec == Init /\ [][Next]_vars

=============================================================================
