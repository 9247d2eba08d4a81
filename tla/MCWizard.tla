------------------------------ MODULE MCWizard ------------------------------
(* Two cameras behind one address. *)
EXTENDS Wizard

CONSTANTS front, porch

MCCamera == {front, porch}
MCIpOf == [c \in MCCamera |-> "ip1"]

\* What can still matter: a finished step's model is never read again, nor is
\* anything but the files once the program has ended.
Live ==
    << program, composeFile, envFile,
       IF step = "discovery" THEN <<existingIPs, existingCreds, dVars>> ELSE <<dScans>>,
       IF step = "selection" THEN <<existingCreds, sVars>> ELSE <<cameras>>,
       IF step = "credentials" THEN <<existingCreds, cVars>> ELSE <<selected, creds>>,
       IF step = "probe" THEN pVars ELSE <<results, inflight>>,
       IF step = "mqtt" THEN mVars ELSE <<mqttConfig, mScans>>,
       <<configured, hostIP, gState, setup, gDone, writer, installs>> >>

=============================================================================
