---------------------------- MODULE WizardProofs ----------------------------
(***************************************************************************)
(* The whole setup wizard, for any cameras, credentials and brokers and    *)
(* any number of them.                                                     *)
(*                                                                         *)
(* The invariant has a part for every step, and says of each what holds    *)
(* before it begins, while it runs and after it has handed over its        *)
(* result.  For the steps that are modules with proofs of their own, the   *)
(* part that speaks of the running step is the invariant proved there: the *)
(* proofs are instantiated with the wizard's variables (PP, CP), and what  *)
(* remains is that the root model starts each step in one of its initial   *)
(* states and touches nothing of it afterwards.                            *)
(***************************************************************************)
EXTENDS Wizard, ListFacts, TLAPS

\* The probe step's and the credentials step's own proofs, of the wizard's variables.
PP == INSTANCE ProbeProofs WITH
        Credential <- C!Credential, MaxCameras <- MaxFound,
        state <- pState, cursor <- pCursor, done <- pDone

CP == INSTANCE CredentialsProofs WITH
        cameras <- selected, field <- cField, focused <- cFocused, done <- cDone,
        existing <- existingCreds, MaxCameras <- MaxFound

Steps == {"discovery", "selection", "credentials", "probe", "mqtt", "generate", "done"}

\* The root model's own state.
RInv == step \in Steps /\ quitting \in BOOLEAN /\ exited \in BOOLEAN

\* Discovery: one scan is at work exactly while the step shows that it scans, and the
\* step has been left only with its answer.
DInv ==
    /\ D!TypeOK /\ D!ViewSafe
    /\ dScans = IF dState = "scanning" /\ ~dDone THEN 1 ELSE 0
    /\ step # "discovery" => dDone

\* Selection: the list is empty until discovery hands it over, and then not any more.
SInv ==
    /\ cameras \in D!Found \cup {<<>>} /\ S!TypeOK
    /\ IF step = "discovery" THEN cameras = <<>> /\ sCursor = 1 ELSE cameras # <<>>
    /\ step \in {"discovery", "selection"} => ~sDone

\* Credentials: untouched until cameras have been selected, its own invariant while it
\* runs, and after it every camera has a user name.
CInv ==
    /\ existingCreds \in C!Configurations(C!Ip)
    /\ IF step \in {"discovery", "selection"}
       THEN camIndex = 1 /\ cField = "username" /\ sameForAll = FALSE /\ cDone = FALSE
       ELSE /\ \E n \in 1..MaxFound : selected \in [1..n -> Camera]
            /\ creds \in [DOMAIN selected -> C!Credential]
            /\ IF step = "credentials" THEN CP!IInv /\ ~cDone
               ELSE \A i \in DOMAIN creds : creds[i].user # ""

\* The probe's positions are those of the selection, with the credentials given there.
Aligned ==
    /\ DOMAIN results = DOMAIN selected
    /\ \A i \in DOMAIN selected :
          results[i].camera = selected[i] /\ results[i].creds = creds[i]

\* Probe: untouched, then its own invariant, then nobody at work.
PInv ==
    CASE step \in {"discovery", "selection", "credentials"} ->
            pState = "running" /\ pCursor = 1 /\ pDone = FALSE /\ inflight = {}
      [] step = "probe" -> PP!IInv /\ ~pDone /\ Aligned
      [] OTHER -> inflight = {}

\* MQTT: besides what the step promises, the way back to the menu leads to the field
\* that KeyManual gives the focus, and no scan outlives the step.
MInv ==
    /\ M!TypeOK /\ M!PickSafe /\ M!EntryUsable /\ M!ScanExact
    /\ mState \in {"menu", "scanning", "select"} => mField = "host"
    /\ step # "mqtt" => mState # "scanning"
    /\ step \notin {"generate", "done"} => ~mDone

\* The writing command has written what its position says, of the setup confirmed.
WritersProgress ==
    /\ composeFile \in {G!Old, G!Torn, G!ComposeFor(setup)}
    /\ envFile \in {G!Old, G!Torn, G!EnvFor(setup)}
    /\ writer = "fillCompose" => composeFile = G!Torn
    /\ writer \in {"openEnv", "fillEnv", "succeeded"} => composeFile = G!ComposeFor(setup)
    /\ writer = "fillEnv" => envFile = G!Torn
    /\ writer = "succeeded" => envFile = G!EnvFor(setup)

\* Generation: the files are those of the earlier setup until the summary is confirmed,
\* and nothing is at work when the wizard is done.
GInv ==
    /\ G!TypeOK
    /\ G!OneCommand
    /\ IF step \in {"generate", "done"}
       THEN /\ WritersProgress /\ G!InstallsWhatWasWritten
            /\ setup = [cameras |-> configured, mqtt |-> mqttConfig, hostIP |-> hostIP]
            /\ gState = "confirm" => composeFile = G!Old /\ envFile = G!Old
            /\ gDone = (step = "done")
            /\ step = "done" => writer = "idle" /\ installs = 0
       ELSE /\ gState = "confirm" /\ gDone = FALSE
            /\ composeFile = G!Old /\ envFile = G!Old

\* The wizard's invariant: one part for each step, and what crosses the steps.
IInv == RInv /\ DInv /\ SInv /\ CInv /\ PInv /\ MInv /\ GInv /\ ConfiguredFaithful

-----------------------------------------------------------------------------

\* What the steps' own proofs assume of the constants.
LEMMA InstanceAssumptions ==
    /\ MaxFound \in Nat \ {0} /\ MaxFound \in Nat /\ MaxStreams \in Nat \ {0}
    /\ MaxBrokers \in Nat
BY WizardAssumption

(* What a step leaves alone keeps its part of the invariant. *)

\* Discovery's part.
LEMMA DKept ==
    ASSUME DInv, UNCHANGED dVars, step' # "discovery" => step # "discovery"
    PROVE  DInv'
<1>1. UNCHANGED <<dState, dCameras, dErr, dTyped, dDone, dScans>>
  BY DEF dVars
<1> QED
  BY <1>1 DEF DInv, D!TypeOK, D!ViewSafe

\* Selection's part.
LEMMA SKept ==
    ASSUME SInv, UNCHANGED sVars, step \in Steps,
           \/ step' = step
           \/ /\ step \notin {"discovery", "selection"}
              /\ step' \notin {"discovery", "selection"}
    PROVE  SInv'
<1>1. UNCHANGED <<cameras, checked, sCursor, sDone>>
  BY DEF sVars
<1>2. S!TypeOK'
  BY <1>1 DEF SInv, S!TypeOK
<1> QED
  BY <1>1, <1>2 DEF SInv

\* The credentials' part, unless their step begins or ends.
LEMMA CKept ==
    ASSUME CInv, UNCHANGED <<existingCreds, cVars>>,
           \/ step' = step
           \/ step \in {"discovery", "selection"} /\ step' \in {"discovery", "selection"}
           \/ step \notin {"discovery", "selection", "credentials"}
              /\ step' \notin {"discovery", "selection", "credentials"}
    PROVE  CInv'
<1>1. UNCHANGED <<existingCreds, selected, creds, camIndex, cField, username, password,
                  cFocused, sameForAll, cDone>>
  BY DEF cVars
<1>2. CP!IInv => CP!IInv'
  <2>1. UNCHANGED CP!vars
    BY <1>1 DEF CP!vars
  <2> QED
    BY <2>1, InstanceAssumptions, CP!Inductive
<1> QED
  BY <1>1, <1>2 DEF CInv

\* The probe's part, unless its step begins or ends.
LEMMA PKept ==
    ASSUME PInv, UNCHANGED <<pVars, selected, creds>>,
           \/ step' = step
           \/ step \in {"discovery", "selection", "credentials"}
              /\ step' \in {"discovery", "selection", "credentials"}
           \/ step \notin {"discovery", "selection", "credentials", "probe"}
              /\ step' \notin {"discovery", "selection", "credentials", "probe"}
    PROVE  PInv'
<1>1. UNCHANGED <<pState, results, pending, pCursor, pDone, inflight, selected, creds>>
  BY DEF pVars
<1>2. PP!IInv => PP!IInv'
  <2>1. UNCHANGED PP!vars
    BY <1>1 DEF PP!vars
  <2> QED
    BY <2>1, InstanceAssumptions, PP!NextIInv
<1>3. Aligned => Aligned'
  BY <1>1 DEF Aligned
<1> QED
  BY <1>1, <1>2, <1>3 DEF PInv

\* The probe's part before its step.
LEMMA PKeptBefore ==
    ASSUME PInv, UNCHANGED pVars, step \in {"discovery", "selection", "credentials"},
           step' \in {"discovery", "selection", "credentials"}
    PROVE  PInv'
BY DEF PInv, pVars

\* The MQTT step's part, unless it ends.
LEMMA MKept ==
    ASSUME MInv, UNCHANGED mVars,
           \/ step' = step
           \/ step \notin {"mqtt", "generate", "done"} /\ step' \notin {"generate", "done"}
           \/ step \notin {"mqtt"} /\ step' = "done" /\ step = "generate"
    PROVE  MInv'
<1>1. UNCHANGED <<mState, hosts, mCursor, mqttConfig, hostInput, portInput, mField,
                  mFocused, mErr, mDone, mScans>>
  BY DEF mVars
<1>2. M!TypeOK' /\ M!PickSafe' /\ M!EntryUsable' /\ M!ScanExact'
  BY <1>1 DEF MInv, M!TypeOK, M!PickSafe, M!EntryUsable, M!ScanExact
<1> QED
  BY <1>1, <1>2 DEF MInv

\* Generation's part before its step.
LEMMA GKeptBefore ==
    ASSUME GInv, UNCHANGED <<gState, gDone, writer, installs, composeFile, envFile>>,
           step \notin {"generate", "done"}, step' \notin {"generate", "done"}
    PROVE  GInv'
BY DEF GInv, G!TypeOK, G!OneCommand

\* Generation's part.
LEMMA GKept ==
    ASSUME GInv, UNCHANGED <<gVars, configured, mqttConfig, hostIP, step>>
    PROVE  GInv'
<1>1. UNCHANGED <<gState, setup, gDone, writer, installs, composeFile, envFile>>
  BY DEF gVars
<1>2. G!TypeOK' /\ G!OneCommand'
  BY <1>1 DEF GInv, G!TypeOK, G!OneCommand
<1>3. WritersProgress => WritersProgress'
  BY <1>1 DEF WritersProgress
<1>4. G!InstallsWhatWasWritten => G!InstallsWhatWasWritten'
  BY <1>1 DEF G!InstallsWhatWasWritten
<1> QED
  BY <1>1, <1>2, <1>3, <1>4 DEF GInv

\* What has been configured stays faithful.
LEMMA FKept ==
    ASSUME ConfiguredFaithful, UNCHANGED <<configured, selected, results, creds>>,
           \/ step' \notin {"mqtt", "generate", "done"}
           \/ step \in {"mqtt", "generate", "done"}
    PROVE  ConfiguredFaithful'
BY DEF ConfiguredFaithful

(* Initially. *)

\* It holds when the program starts, whatever an earlier setup has left.
LEMMA WInitially == Init => IInv
<1> SUFFICES ASSUME Init PROVE IInv
  OBVIOUS
<1>1. RInv
  BY DEF Init, RInv, Steps
<1>2. DInv
  BY DEF Init, D!Init, DInv, D!TypeOK, D!ViewSafe
<1>3. SInv
  <2>1. cameras = <<>> /\ checked = {} /\ sCursor = 1 /\ sDone = FALSE /\ step = "discovery"
    BY DEF Init
  <2>2. S!TypeOK
    <3>1. checked \subseteq DOMAIN cameras /\ sDone \in BOOLEAN
      BY <2>1
    <3>2. sCursor \in 1..(IF cameras = <<>> THEN 1 ELSE Len(cameras))
      BY <2>1
    <3> QED
      BY <3>1, <3>2 DEF S!TypeOK
  <2> QED
    BY <2>1, <2>2 DEF SInv
<1>4. CInv
  <2>1. existingCreds \in C!Configurations(C!Ip)
    BY DEF Init, C!Configurations
  <2> QED
    BY <2>1 DEF Init, CInv
<1>5. PInv
  BY DEF Init, PInv
<1>6. MInv
  <2>1. M!Init /\ step = "discovery"
    BY DEF Init
  <2>2. M!TypeOK
    <3>1. mState \in {"menu", "scanning", "select", "manual", "done", "skipped"}
      BY <2>1 DEF M!Init
    <3>2. hosts \in M!HostLists \cup {<<>>} /\ mCursor \in Nat
      BY <2>1 DEF M!Init
    <3>3. mqttConfig \in {M!NoMQTT}
      BY <2>1 DEF M!Init
    <3>4. hostInput \in Host \cup {M!Blank} /\ portInput \in Port \cup {M!Blank}
      BY <2>1 DEF M!Init
    <3>5. /\ mField \in {"host", "port"} /\ mFocused \in SUBSET {"host", "port"}
          /\ mErr \in BOOLEAN /\ mDone \in BOOLEAN /\ mScans \in Nat
      BY <2>1 DEF M!Init
    <3> QED
      BY <3>1, <3>2, <3>3, <3>4, <3>5 DEF M!TypeOK
  <2>3. M!PickSafe /\ M!EntryUsable /\ M!ScanExact
    BY <2>1 DEF M!Init, M!PickSafe, M!EntryUsable, M!ScanExact
  <2> QED
    BY <2>1, <2>2, <2>3 DEF M!Init, MInv
<1>7. GInv
  BY DEF Init, GInv, G!TypeOK, G!OneCommand, G!Old
<1>8. ConfiguredFaithful
  BY DEF Init, ConfiguredFaithful
<1> QED
  BY <1>1, <1>2, <1>3, <1>4, <1>5, <1>6, <1>7, <1>8 DEF IInv

-----------------------------------------------------------------------------

\* Discovery's own keys and answers.
LEMMA DiscoverySteps ==
    ASSUME DInv, step = "discovery", D!Answer \/ D!Key, step' # "discovery" => dDone'
    PROVE  DInv'
<1>1. /\ dState \in {"scanning", "found", "failed", "manual"}
      /\ dCameras \in D!Found \cup {<<>>}
      /\ dErr \in BOOLEAN /\ dTyped \in BOOLEAN /\ dDone \in BOOLEAN
      /\ dState \in {"failed", "manual"} => dErr
      /\ dScans = IF dState = "scanning" /\ ~dDone THEN 1 ELSE 0
  BY DEF DInv, D!TypeOK, D!ViewSafe
<1>2. ASSUME dState' \in {"scanning", "found", "failed", "manual"},
             dCameras' \in D!Found \cup {<<>>},
             dErr' \in BOOLEAN, dTyped' \in BOOLEAN, dDone' \in BOOLEAN,
             dState' \in {"failed", "manual"} => dErr',
             dScans' = IF dState' = "scanning" /\ ~dDone' THEN 1 ELSE 0
      PROVE  DInv'
  BY <1>2 DEF DInv, D!TypeOK, D!ViewSafe
<1>3. CASE D!FoundNothing
  BY <1>1, <1>2, <1>3 DEF D!FoundNothing
<1>4. CASE D!FoundCameras
  BY <1>1, <1>2, <1>4 DEF D!FoundCameras
<1>5. CASE D!KeyRetry
  <2>1. /\ dState = "failed" /\ dState' = "scanning" /\ dErr' = FALSE
        /\ dScans' = (IF dDone THEN dScans ELSE dScans + 1)
        /\ UNCHANGED <<dCameras, dTyped, dDone>>
    BY <1>5 DEF D!KeyRetry, D!Launch
  <2>2. dScans = 0
    BY <1>1, <2>1
  <2>3. dScans' = IF dState' = "scanning" /\ ~dDone' THEN 1 ELSE 0
    <3>1. CASE dDone
      BY <1>1, <2>1, <2>2, <3>1
    <3>2. CASE ~dDone
      <4>1. dScans' = 1
        BY <2>1, <2>2, <3>2
      <4> QED
        BY <2>1, <3>2, <4>1
    <3> QED
      BY <3>1, <3>2
  <2>4. dState' \in {"scanning", "found", "failed", "manual"} /\ dErr' \in BOOLEAN
        /\ (dState' \in {"failed", "manual"} => dErr')
    BY <2>1
  <2> QED
    BY <1>1, <1>2, <2>1, <2>3, <2>4
<1>6. CASE D!KeyManual
  BY <1>1, <1>2, <1>6 DEF D!KeyManual
<1>7. CASE D!KeyQuit
  BY <1>1, <1>2, <1>7 DEF D!KeyQuit
<1>8. CASE D!KeyType
  BY <1>1, <1>2, <1>8 DEF D!KeyType
<1>9. CASE D!KeyEnter
  BY <1>1, <1>2, <1>9 DEF D!KeyEnter, D!Launch
<1>10. CASE D!KeyEsc
  BY <1>1, <1>2, <1>10 DEF D!KeyEsc
<1> QED
  BY <1>3, <1>4, <1>5, <1>6, <1>7, <1>8, <1>9, <1>10 DEF D!Answer, D!Key

\* A message to the discovery step, which may hand over its cameras.
LEMMA DiscoveryStep ==
    ASSUME IInv, DiscoveryAnswer \/ DiscoveryKey
    PROVE  IInv'
<1>1. /\ step = "discovery" /\ (D!Answer \/ D!Key) /\ AfterDiscovery
      /\ UNCHANGED <<exited, existingIPs, existingCreds, sCursor, sDone, cVars, pVars,
                     configured, hostIP, mVars, gVars>>
  BY DEF DiscoveryAnswer, DiscoveryKey, At, AfterDiscovery
<1>2. \/ /\ step' = "selection" /\ dDone' /\ dCameras' # <<>>
         /\ cameras' = dCameras' /\ checked' = S!Preselected(dCameras', IpOf, existingIPs)
         /\ quitting' = quitting
      \/ step' = "discovery" /\ cameras' = cameras /\ checked' = checked
         /\ quitting' = (quitting \/ dDone')
  BY <1>1 DEF AfterDiscovery
<1>3. DInv'
  BY <1>1, <1>2, DiscoverySteps DEF IInv
<1>4. RInv'
  BY <1>1, <1>2, <1>3 DEF IInv, RInv, Steps, DInv, D!TypeOK
<1>5. SInv'
  <2>1. CASE step' = "discovery"
    <3>1. UNCHANGED sVars
      BY <1>1, <1>2, <2>1 DEF sVars
    <3>2. SInv /\ step \in Steps
      BY DEF IInv, RInv
    <3>3. step' = step
      BY <1>1, <2>1
    <3> QED
      BY <3>1, <3>2, <3>3, SKept, Zenon
  <2>2. CASE step' # "discovery"
    <3>1. cameras' \in D!Found
      BY <1>2, <1>3, <2>2 DEF DInv, D!TypeOK
    <3>2. PICK n \in 1..MaxFound : cameras' \in [1..n -> Camera]
      BY <3>1 DEF D!Found
    <3>3. n \in Nat /\ n >= 1 /\ Len(cameras') = n /\ DOMAIN cameras' = 1..n
      BY <3>2, InstanceAssumptions
    <3>4. checked' \subseteq DOMAIN cameras' /\ cameras' # <<>>
      BY <1>2, <2>2 DEF S!Preselected
    <3>5. sCursor' = 1 /\ sDone' \in BOOLEAN /\ ~sDone'
      BY <1>1 DEF IInv, SInv, S!TypeOK
    <3>6. S!TypeOK'
      BY <3>3, <3>4, <3>5 DEF S!TypeOK
    <3> QED
      BY <1>2, <2>2, <3>1, <3>4, <3>5, <3>6 DEF SInv
  <2> QED
    BY <2>1, <2>2
<1>6. CInv' /\ MInv'
  BY <1>1, <1>2, CKept, MKept DEF IInv
<1>7. PInv'
  BY <1>1, <1>2, PKeptBefore DEF IInv
<1>8. GInv'
  BY <1>1, <1>2, GKeptBefore DEF IInv, gVars
<1>9. ConfiguredFaithful'
  BY <1>2 DEF ConfiguredFaithful
<1> QED
  BY <1>3, <1>4, <1>5, <1>6, <1>7, <1>8, <1>9 DEF IInv

\* What the cameras checked are.
LEMMA SelectedFacts ==
    ASSUME NEW n \in 1..MaxFound, NEW cams \in [1..n -> Camera], NEW sel \in SUBSET (1..n),
           sel # {}
    PROVE  \E m \in 1..MaxFound : S!Selected(cams, sel) \in [1..m -> Camera]
<1> DEFINE ids == [i \in DOMAIN cams |-> i]
           t == Kept(ids, sel)
<1>1. n \in Nat /\ n <= MaxFound /\ MaxFound \in Nat
  BY InstanceAssumptions
<1>2. ids \in Seq(1..n) /\ Len(ids) = n /\ \A i \in 1..n : ids[i] = i
  BY <1>1
<1> HIDE DEF ids
<1>3. t \in Seq((1..n) \cap sel) /\ \E at : Selects(at, n, t, ids, sel)
  BY <1>2, KeptPlaces
<1>4. PICK at : Selects(at, n, t, ids, sel)
  BY <1>3
<1> DEFINE m == Len(t)
<1>5. m \in Nat /\ DOMAIN t = 1..m /\ \A k \in 1..m : t[k] \in 1..n
  BY <1>3
<1> HIDE DEF t, m
<1>6. /\ at \in [1..m -> 1..n] /\ \A i, j \in 1..m : i < j => at[i] < at[j]
      /\ {at[i] : i \in 1..m} = {k \in 1..n : ids[k] \in sel}
  BY <1>4 DEF Selects, m
<1>7. m >= 1
  <2>1. PICK k \in sel : TRUE
    OBVIOUS
  <2>2. k \in {at[i] : i \in 1..m}
    <3>1. k \in {j \in 1..n : ids[j] \in sel}
      BY <1>2, <2>1
    <3> QED
      BY <1>6, <3>1
  <2> QED
    BY <1>5, <2>2
<1>8. m <= n
  <2>1. \A i, j \in 1..m : at[i] = at[j] => i = j
    <3> SUFFICES ASSUME NEW i \in 1..m, NEW j \in 1..m, at[i] = at[j], i # j PROVE FALSE
      OBVIOUS
    <3>1. at[i] \in 1..n /\ (i < j \/ j < i)
      BY <1>5, <1>6
    <3> QED
      BY <1>1, <1>6, <3>1
  <2>2. at \in Injection(1..m, 1..n)
    BY <1>6, <2>1 DEF Injection, IsInjective
  <2>3. /\ IsFiniteSet(1..n) /\ Cardinality(1..n) = n /\ Cardinality(1..m) = m
    BY <1>1, <1>5, FS_Interval
  <2>4. Cardinality(1..m) <= Cardinality(1..n)
    BY <2>2, <2>3, FS_Injection
  <2> QED
    BY <2>3, <2>4
<1>9. S!Selected(cams, sel) = [k \in DOMAIN t |-> cams[t[k]]]
  <2>1. S!Kept(ids, sel) = Kept(ids, sel)
    BY DEF S!Kept, Kept
  <2> QED
    BY <2>1 DEF S!Selected, t, ids
<1>10. S!Selected(cams, sel) \in [1..m -> Camera]
  BY <1>5, <1>9
<1>11. m \in 1..MaxFound
  BY <1>1, <1>5, <1>7, <1>8
<1> QED
  BY <1>10, <1>11

\* The credentials step begins.
LEMMA CredentialsBegin == CP!Init' => CP!IInv'
<1>1. CP!Init => CP!IInv
  BY InstanceAssumptions, CP!Initially
<1> QED
  BY <1>1, PTL

\* A key of the selection step, which may hand over the cameras checked.
LEMMA SelectionStep ==
    ASSUME IInv, SelectionKey
    PROVE  IInv'
<1>1. /\ step = "selection" /\ S!Step /\ AfterSelection
      /\ UNCHANGED <<quitting, exited, existingIPs, existingCreds, dVars, camIndex, cField,
                     sameForAll, cDone, pVars, configured, hostIP, mVars, gVars>>
  BY DEF SelectionKey, At, AfterSelection
<1>2. \/ /\ step' = "credentials" /\ sDone'
         /\ selected' = S!Selected(cameras, checked)
         /\ creds' = C!NewCreds(selected', existingCreds)
         /\ username' = C!PrefillFor(selected'[1], existingCreds).user
         /\ password' = C!PrefillFor(selected'[1], existingCreds).pass
         /\ cFocused' = {"username"}
      \/ ~sDone' /\ UNCHANGED <<step, selected, creds, username, password, cFocused>>
  BY <1>1 DEF AfterSelection
<1>3. PICK n \in 1..MaxFound : cameras \in [1..n -> Camera]
  BY <1>1 DEF IInv, SInv, D!Found
<1>4. /\ n \in Nat /\ n >= 1 /\ Len(cameras) = n /\ DOMAIN cameras = 1..n
      /\ cameras # <<>>
  BY <1>1, <1>3, InstanceAssumptions DEF IInv, SInv
<1>5. /\ checked \subseteq 1..n /\ sCursor \in 1..n /\ sDone \in BOOLEAN /\ ~sDone
  BY <1>1, <1>4 DEF IInv, SInv, S!TypeOK
<1>6. /\ cameras' = cameras /\ checked' \subseteq 1..n /\ sCursor' \in 1..n
      /\ sDone' \in BOOLEAN /\ (sDone' => checked # {})
  <2>1. CASE S!KeyUp
    BY <1>4, <1>5, <2>1 DEF S!KeyUp
  <2>2. CASE S!KeyDown
    BY <1>4, <1>5, <2>2 DEF S!KeyDown
  <2>3. CASE S!KeySpace
    BY <1>4, <1>5, <2>3 DEF S!KeySpace
  <2>4. CASE S!KeyEnter
    BY <1>4, <1>5, <2>4 DEF S!KeyEnter
  <2> QED
    BY <1>1, <2>1, <2>2, <2>3, <2>4 DEF S!Step
<1>7. SInv'
  <2>1. S!TypeOK'
    BY <1>4, <1>6 DEF S!TypeOK
  <2> QED
    BY <1>1, <1>2, <1>4, <1>6, <2>1 DEF IInv, SInv
<1>8. RInv' /\ DInv' /\ MInv'
  BY <1>1, <1>2, DKept, MKept DEF IInv, RInv, Steps
<1>9. PInv' /\ GInv'
  BY <1>1, <1>2, PKeptBefore, GKeptBefore DEF IInv, gVars
<1>10. ConfiguredFaithful'
  BY <1>1, <1>2 DEF ConfiguredFaithful
<1>11. CInv'
  <2>1. CASE ~sDone'
    <3>1. UNCHANGED <<existingCreds, cVars, step>>
      BY <1>1, <1>2, <2>1 DEF cVars
    <3> QED
      BY <3>1, CKept DEF IInv
  <2>2. CASE sDone'
    <3>1. PICK m \in 1..MaxFound : selected' \in [1..m -> Camera]
      BY <1>2, <1>3, <1>5, <1>6, <2>2, SelectedFacts
    <3>2. CP!Init'
      <4>1. existingCreds' \in CP!Configurations(CP!Ip)
        BY <1>1 DEF IInv, CInv, C!Configurations, C!Ip, C!Credential, C!Blank,
                    CP!Configurations, CP!Ip, CP!Credential, CP!Blank
      <4>2. creds' = CP!NewCreds(selected', existingCreds')
        BY <1>1, <1>2, <2>2 DEF C!NewCreds, C!PrefillFor, C!NoCreds, C!Blank,
                                CP!NewCreds, CP!PrefillFor, CP!NoCreds, CP!Blank
      <4>3. /\ username' = CP!PrefillFor(selected'[1], existingCreds').user
            /\ password' = CP!PrefillFor(selected'[1], existingCreds').pass
        BY <1>1, <1>2, <2>2 DEF C!PrefillFor, C!NoCreds, C!Blank,
                                CP!PrefillFor, CP!NoCreds, CP!Blank
      <4>4. /\ camIndex' = 1 /\ cField' = "username" /\ cFocused' = {"username"}
            /\ sameForAll' = FALSE /\ cDone' = FALSE
        BY <1>1, <1>2, <2>2 DEF IInv, CInv
      <4> QED
        BY <3>1, <4>1, <4>2, <4>3, <4>4 DEF CP!Init
    <3>3. CP!IInv'
      BY <3>2, CredentialsBegin
    <3>4. creds' \in [DOMAIN selected' -> C!Credential]
      BY <3>3 DEF CP!IInv, CP!TypeOK, CP!Credential, CP!Blank, C!Credential, C!Blank
    <3>5. ~cDone' /\ existingCreds' \in C!Configurations(C!Ip)
      BY <1>1 DEF IInv, CInv
    <3> QED
      BY <1>2, <2>2, <3>1, <3>3, <3>4, <3>5 DEF CInv
  <2> QED
    BY <1>6, <2>1, <2>2
<1> QED
  BY <1>7, <1>8, <1>9, <1>10, <1>11 DEF IInv

-----------------------------------------------------------------------------

\* The probe step begins.
LEMMA ProbeBegin == PP!Init' => PP!IInv'
<1>1. PP!Init => PP!IInv
  BY InstanceAssumptions, PP!InitIInv
<1> QED
  BY <1>1, PTL

\* The step's module and its proofs' speak of the same keys.
LEMMA SameCredentialsKeys == C!Step => CP!Step
<1>1. C!KeyTab => CP!KeyTab
  BY DEF C!KeyTab, CP!KeyTab
<1>2. C!KeyCtrlA => CP!KeyCtrlA
  BY DEF C!KeyCtrlA, CP!KeyCtrlA
<1>3. C!KeyType => CP!KeyType
  BY DEF C!KeyType, CP!KeyType, C!Blank, CP!Blank
<1>4. C!EnterForAll => CP!EnterForAll
  BY DEF C!EnterForAll, CP!EnterForAll, C!Blank, CP!Blank, C!Entered, CP!Entered
<1>5. C!EnterLast => CP!EnterLast
  BY DEF C!EnterLast, CP!EnterLast, C!Blank, CP!Blank, C!Entered, CP!Entered
<1>6. C!AskNext => CP!AskNext
  BY DEF C!AskNext, CP!AskNext, C!PrefillFor, CP!PrefillFor, C!NoCreds, CP!NoCreds,
         C!Blank, CP!Blank
<1>7. C!EnterNext => CP!EnterNext
  BY <1>6 DEF C!EnterNext, CP!EnterNext, C!Blank, CP!Blank, C!Entered, CP!Entered
<1> QED
  BY <1>1, <1>2, <1>3, <1>4, <1>5, <1>7 DEF C!Step, CP!Step

\* A key of the credentials step: with the last one the probe step begins, one command
\* for each camera with the credentials just given.
LEMMA CredentialsStep ==
    ASSUME IInv, CredentialsKey
    PROVE  IInv'
<1>1. /\ step = "credentials" /\ C!Step /\ AfterCredentials
      /\ UNCHANGED <<quitting, exited, existingIPs, dVars, sVars, pState, pCursor, pDone,
                     configured, hostIP, mVars, gVars>>
  BY DEF CredentialsKey, At, AfterCredentials
<1>2. \/ /\ step' = "probe" /\ cDone'
         /\ results' = P!NewResults(selected, creds')
         /\ pending' = Len(selected)
         /\ inflight' = P!InitCommands(selected, creds')
      \/ ~cDone' /\ UNCHANGED <<step, results, pending, inflight>>
  BY <1>1 DEF AfterCredentials
<1>3. UNCHANGED <<selected, existingCreds>>
  BY <1>1 DEF C!Step, C!KeyTab, C!KeyCtrlA, C!KeyType, C!EnterForAll, C!EnterLast,
              C!EnterNext, C!AskNext
<1>4. /\ existingCreds \in C!Configurations(C!Ip)
      /\ \E n \in 1..MaxFound : selected \in [1..n -> Camera]
      /\ CP!IInv
  BY <1>1 DEF IInv, CInv
<1>5. CP!IInv'
  <2>1. CP!Next
    BY <1>1, SameCredentialsKeys DEF CP!Next
  <2> QED
    BY <1>4, <2>1, InstanceAssumptions, CP!Inductive
<1>6. creds' \in [DOMAIN selected' -> C!Credential]
  BY <1>5 DEF CP!IInv, CP!TypeOK, CP!Credential, CP!Blank, C!Credential, C!Blank
<1>7. cDone' => \A i \in DOMAIN creds' : creds'[i].user # ""
  BY <1>5 DEF CP!IInv, CP!AllGiven, CP!Blank
<1>8. CInv'
  <2>1. step' \in {"credentials", "probe"}
    BY <1>1, <1>2
  <2>2. \E n \in 1..MaxFound : selected' \in [1..n -> Camera]
    BY <1>3, <1>4
  <2>3. existingCreds' \in C!Configurations(C!Ip)
    BY <1>3, <1>4
  <2>4. CASE step' = "credentials"
    <3>1. ~cDone'
      BY <1>1, <1>2, <2>4
    <3> QED
      BY <1>5, <1>6, <2>2, <2>3, <2>4, <3>1 DEF CInv
  <2>5. CASE step' = "probe"
    <3>1. \A i \in DOMAIN creds' : creds'[i].user # ""
      BY <1>1, <1>2, <1>7, <2>5
    <3> QED
      BY <1>6, <2>2, <2>3, <2>5, <3>1 DEF CInv
  <2> QED
    BY <2>1, <2>4, <2>5
<1>9. RInv' /\ DInv' /\ SInv' /\ MInv'
  <2>1. step' \in {"credentials", "probe"}
    BY <1>1, <1>2
  <2>2. RInv /\ DInv /\ SInv /\ MInv
    BY DEF IInv
  <2>3. RInv'
    BY <1>1, <2>1, <2>2 DEF RInv, Steps
  <2>4. DInv'
    BY <1>1, <2>1, <2>2, DKept
  <2>5. SInv'
    BY <1>1, <2>1, <2>2, SKept DEF RInv
  <2>6. MInv'
    BY <1>1, <2>1, <2>2, MKept
  <2> QED
    BY <2>3, <2>4, <2>5, <2>6
<1>10. GInv'
  <2>1. UNCHANGED <<gState, gDone, writer, installs, composeFile, envFile>> /\ GInv
    BY <1>1 DEF IInv, gVars
  <2>2. step \notin {"generate", "done"} /\ step' \notin {"generate", "done"}
    BY <1>1, <1>2
  <2> QED
    BY <2>1, <2>2, GKeptBefore
<1>11. ConfiguredFaithful'
  BY <1>1, <1>2 DEF ConfiguredFaithful
<1>12. pState = "running" /\ pCursor = 1 /\ pDone = FALSE /\ inflight = {}
  BY <1>1 DEF IInv, PInv
<1>13. CASE ~cDone'
  <2>1. PInv'
    BY <1>1, <1>2, <1>12, <1>13 DEF PInv
  <2> QED
    BY <1>8, <1>9, <1>10, <1>11, <2>1 DEF IInv
<1>14. CASE cDone'
  <2>1. PICK n \in 1..MaxFound : selected' \in [1..n -> Camera]
    BY <1>3, <1>4
  <2>2. /\ results' = PP!NewResults(selected', creds')
        /\ pending' = Len(selected')
        /\ inflight' = PP!InitCommands(selected', creds')
    BY <1>2, <1>3, <1>14 DEF P!NewResults, PP!NewResults, P!InitCommands, PP!InitCommands,
                             P!ProbeCameraCmd, PP!ProbeCameraCmd
  <2>3. selected' \in PP!Lists(Camera)
    BY <2>1 DEF PP!Lists
  <2>4. PP!Init'
    BY <1>1, <1>6, <1>12, <2>2, <2>3 DEF PP!Init
  <2>5. PP!IInv'
    BY <2>4, ProbeBegin
  <2>6. Aligned'
    BY <2>2 DEF Aligned, PP!NewResults
  <2>7. step' = "probe" /\ pDone' = FALSE
    BY <1>1, <1>2, <1>12, <1>14
  <2>8. PInv'
    BY <2>5, <2>6, <2>7 DEF PInv
  <2> QED
    BY <1>8, <1>9, <1>10, <1>11, <2>8 DEF IInv
<1> QED
  BY <1>13, <1>14

-----------------------------------------------------------------------------

\* The step's module and its proofs' speak of the same answers and keys.
LEMMA SameProbeSteps == P!Step => PP!Step
<1>1. P!Answer => PP!Answer
  BY DEF P!Answer, PP!Answer, P!ProbeResult, PP!ProbeResult, P!GetStreamURIs,
         PP!GetStreamURIs, P!StreamsOf, PP!StreamsOf
<1>2. P!KeyUp => PP!KeyUp
  BY DEF P!KeyUp, PP!KeyUp, P!Listening, PP!Listening
<1>3. P!KeyDown => PP!KeyDown
  BY DEF P!KeyDown, PP!KeyDown, P!Listening, PP!Listening
<1>4. P!KeyLeft => PP!KeyLeft
  BY DEF P!KeyLeft, PP!KeyLeft, P!Listening, PP!Listening
<1>5. P!KeyRight => PP!KeyRight
  BY DEF P!KeyRight, PP!KeyRight, P!Listening, PP!Listening
<1>6. P!KeyRetry => PP!KeyRetry
  BY DEF P!KeyRetry, PP!KeyRetry, P!Listening, PP!Listening, P!Reprobe, PP!Reprobe,
         P!ProbeCameraCmd, PP!ProbeCameraCmd
<1>7. P!KeyEnter => PP!KeyEnter
  BY DEF P!KeyEnter, PP!KeyEnter, P!Listening, PP!Listening
<1> QED
  BY <1>1, <1>2, <1>3, <1>4, <1>5, <1>6, <1>7 DEF P!Step, P!Key, PP!Step, PP!Key

\* What the probe step hands over, in the next state.
NobodyWorks == inflight = {}
HandedOver == \E at : PP!Hands(at, PP!Configured(results), results)

\* What the probe step's proofs say of a state, said of the next one.
LEMMA HandsOverNext == PP!IInv' /\ NobodyWorks' => HandedOver'
<1>1. PP!IInv /\ NobodyWorks => HandedOver
  BY InstanceAssumptions, PP!HandsOver DEF NobodyWorks, HandedOver
<1> QED
  BY <1>1, PTL

\* An answer or a key of the probe step: when it is confirmed nobody is at work, and what
\* is configured are the cameras selected that answered, with their credentials.
LEMMA ProbeStep ==
    ASSUME IInv, ProbeAnswer \/ ProbeKey
    PROVE  IInv'
<1>1. /\ step = "probe" /\ P!Step /\ AfterProbe
      /\ UNCHANGED <<quitting, exited, existingIPs, existingCreds, dVars, sVars, cVars,
                     mVars, gVars>>
  BY DEF ProbeAnswer, ProbeKey, At, AfterProbe, P!Step
<1>2. \/ step' = "mqtt" /\ pDone' /\ configured' = P!Configured(results')
      \/ ~pDone' /\ UNCHANGED <<step, configured, hostIP>>
  BY <1>1 DEF AfterProbe
<1>3. PP!IInv /\ Aligned /\ CInv
  BY <1>1 DEF IInv, PInv
<1>4. PP!Next
  BY <1>1, SameProbeSteps DEF PP!Next
<1>5. PP!IInv'
  BY <1>3, <1>4, InstanceAssumptions, PP!NextIInv
<1>6. /\ DOMAIN results' = DOMAIN results
      /\ \A i \in DOMAIN results : /\ results'[i].camera = results[i].camera
                                   /\ results'[i].creds = results[i].creds
  BY <1>3, <1>4, InstanceAssumptions, PP!SameCameras
<1>7. UNCHANGED <<selected, creds>>
  BY <1>1 DEF cVars
<1>8. Aligned'
  BY <1>3, <1>6, <1>7 DEF Aligned
<1>9. step' \in {"probe", "mqtt"}
  BY <1>1, <1>2
<1>10. RInv' /\ DInv' /\ SInv' /\ CInv' /\ MInv' /\ GInv'
  <2>1. RInv /\ DInv /\ SInv /\ MInv /\ GInv
    BY DEF IInv
  <2>2. RInv'
    BY <1>1, <1>9, <2>1 DEF RInv, Steps
  <2>3. DInv'
    BY <1>1, <1>9, <2>1, DKept
  <2>4. SInv'
    BY <1>1, <1>9, <2>1, SKept DEF RInv
  <2>5. CInv'
    BY <1>1, <1>3, <1>9, CKept
  <2>6. MInv'
    BY <1>1, <1>9, <2>1, MKept
  <2>7. UNCHANGED <<gState, gDone, writer, installs, composeFile, envFile>>
    BY <1>1 DEF gVars
  <2>8. GInv'
    BY <1>1, <1>9, <2>1, <2>7, GKeptBefore
  <2> QED
    BY <2>2, <2>3, <2>4, <2>5, <2>6, <2>8
<1>11. CASE ~pDone'
  <2>1. step' = "probe"
    BY <1>1, <1>2, <1>11
  <2>2. PInv'
    BY <1>5, <1>8, <1>11, <2>1 DEF PInv
  <2>3. ConfiguredFaithful'
    BY <2>1 DEF ConfiguredFaithful
  <2> QED
    BY <1>10, <2>2, <2>3 DEF IInv
<1>12. CASE pDone'
  <2>1. step' = "mqtt" /\ configured' = P!Configured(results')
    BY <1>2, <1>12
  <2>2. inflight' = {}
    BY <1>5, <1>12 DEF PP!IInv, PP!PendingExact
  <2>3. PInv'
    BY <2>1, <2>2 DEF PInv
  <2>4. configured' = PP!Configured(results')
    BY <2>1 DEF P!Configured, PP!Configured, P!Kept, PP!Kept
  <2>5. PICK at : PP!Hands(at, configured', results')
    BY <1>5, <2>2, <2>4, HandsOverNext DEF NobodyWorks, HandedOver
  <2>6. /\ at \in [DOMAIN configured' -> DOMAIN results']
        /\ \A j, k \in DOMAIN configured' : j < k => at[j] < at[k]
        /\ {at[k] : k \in DOMAIN configured'} = {i \in DOMAIN results' : ~results'[i].err}
        /\ \A k \in DOMAIN configured' :
              /\ configured'[k].camera = results'[at[k]].camera
              /\ configured'[k].creds = results'[at[k]].creds
              /\ configured'[k].stream.camera = configured'[k].camera
              /\ configured'[k].stream.creds = configured'[k].creds
    BY <2>5 DEF PP!Hands, PP!HandedOver
  <2>7. DOMAIN results' = DOMAIN selected'
        /\ \A i \in DOMAIN selected' :
              results'[i].camera = selected'[i] /\ results'[i].creds = creds'[i]
    BY <1>8 DEF Aligned
  <2>8. \A i \in DOMAIN selected' : creds'[i].user # ""
    BY <1>1, <1>3, <1>7 DEF CInv
  <2>9. \A k \in DOMAIN configured' : at[k] \in DOMAIN selected'
    BY <2>6, <2>7
  <2>10. ConfiguredFaithful'
    <3>1. at \in [DOMAIN configured' -> DOMAIN selected']
      BY <2>6, <2>7
    <3>2. {at[k] : k \in DOMAIN configured'} = {i \in DOMAIN selected' : ~results'[i].err}
      BY <2>6, <2>7
    <3>3. ASSUME NEW k \in DOMAIN configured'
          PROVE  /\ configured'[k].camera = selected'[at[k]]
                 /\ configured'[k].creds = creds'[at[k]]
                 /\ configured'[k].stream.camera = configured'[k].camera
                 /\ configured'[k].stream.creds = configured'[k].creds
                 /\ configured'[k].creds.user # ""
      <4>1. at[k] \in DOMAIN selected'
        BY <2>9
      <4>2. /\ results'[at[k]].camera = selected'[at[k]]
            /\ results'[at[k]].creds = creds'[at[k]]
            /\ creds'[at[k]].user # ""
        BY <2>7, <2>8, <4>1
      <4>3. /\ configured'[k].camera = results'[at[k]].camera
            /\ configured'[k].creds = results'[at[k]].creds
            /\ configured'[k].stream.camera = configured'[k].camera
            /\ configured'[k].stream.creds = configured'[k].creds
        BY <2>6
      <4> QED
        BY <4>2, <4>3
    <3> QED
      BY <2>6, <3>1, <3>2, <3>3 DEF ConfiguredFaithful
  <2> QED
    BY <1>10, <2>3, <2>10 DEF IInv
<1> QED
  BY <1>11, <1>12

-----------------------------------------------------------------------------

\* What a scan's answer can be indexed with, and what it holds.
LEMMA HostListFacts ==
    ASSUME NEW l \in M!HostLists \cup {<<>>}
    PROVE  /\ Len(l) \in Nat /\ DOMAIN l = 1..Len(l)
           /\ \A i \in DOMAIN l : l[i] \in Host
           /\ l \in M!HostLists => 1 \in DOMAIN l
<1>1. CASE l = <<>>
  <2>1. ASSUME l \in M!HostLists PROVE FALSE
    <3>1. PICK n \in 1..MaxBrokers : l \in [1..n -> Host]
      BY <2>1 DEF M!HostLists
    <3>2. n \in Nat /\ n >= 1 /\ DOMAIN l = 1..n
      BY <3>1, InstanceAssumptions
    <3> QED
      BY <1>1, <3>2
  <2> QED
    BY <1>1, <2>1
<1>2. CASE l \in M!HostLists
  <2>1. PICK n \in 1..MaxBrokers : l \in [1..n -> Host]
    BY <1>2 DEF M!HostLists
  <2>2. n \in Nat /\ n >= 1
    BY InstanceAssumptions
  <2> QED
    BY <2>1, <2>2
<1> QED
  BY <1>1, <1>2

\* What the step may configure.
Configs == {M!NoMQTT} \cup {M!Broker(h, p) : h \in Host, p \in Port \cup {M!DefaultPort}}

(* What the step's properties say of it while it runs. *)

MModes ==
    /\ mState \in {"menu", "scanning", "select", "manual", "done", "skipped"}
    /\ mErr \in BOOLEAN /\ mDone \in BOOLEAN
    /\ mScans = IF mState = "scanning" THEN 1 ELSE 0
    /\ mDone => mState # "scanning"

\* The list and its cursor.
MList ==
    /\ hosts \in M!HostLists \cup {<<>>}
    /\ mCursor \in Nat
    /\ mState = "select" => mCursor \in DOMAIN hosts

\* The text fields and the focus.
MFields ==
    /\ hostInput \in Host \cup {""} /\ portInput \in Port \cup {""}
    /\ mField \in {"host", "port"} /\ mFocused \subseteq {"host", "port"}
    /\ mState = "manual" => mField \in mFocused
    /\ mState \in {"menu", "scanning", "select"} => mField = "host"

\* All of it.
MSafe == MModes /\ MList /\ MFields /\ mqttConfig \in Configs

\* A scan is at work exactly in the state that says so.
LEMMA MModesKept ==
    ASSUME MModes, ~mDone, M!Answer \/ M!Key
    PROVE  MModes'
<1> USE DEF MModes, M!fields
<1>1. CASE M!ScanFails
  BY <1>1 DEF M!ScanFails
<1>2. CASE M!ScanFinds
  BY <1>2 DEF M!ScanFinds
<1>3. CASE M!KeyUp
  BY <1>3 DEF M!KeyUp
<1>4. CASE M!KeyDown
  BY <1>4 DEF M!KeyDown
<1>5. CASE M!KeySelect
  BY <1>5 DEF M!KeySelect
<1>6. CASE M!KeySelectEsc
  BY <1>6 DEF M!KeySelectEsc
<1>7. CASE M!KeyScan
  <2>1. mScans = 0 /\ mScans' = mScans + 1
    BY <1>7 DEF M!KeyScan
  <2>2. mScans' = 1
    BY <2>1
  <2>3. mState' = "scanning" /\ mErr' \in BOOLEAN /\ mDone' = FALSE
    BY <1>7 DEF M!KeyScan
  <2> QED
    BY <2>2, <2>3
<1>8. CASE M!KeyManual
  BY <1>8 DEF M!KeyManual
<1>9. CASE M!KeySkip
  BY <1>9 DEF M!KeySkip
<1>10. CASE M!KeyTab
  BY <1>10 DEF M!KeyTab
<1>11. CASE M!KeyType
  BY <1>11 DEF M!KeyType
<1>12. CASE M!KeyEnter
  BY <1>12 DEF M!KeyEnter
<1>13. CASE M!KeyEsc
  BY <1>13 DEF M!KeyEsc
<1> QED
  BY <1>1, <1>2, <1>3, <1>4, <1>5, <1>6, <1>7, <1>8, <1>9, <1>10, <1>11, <1>12, <1>13
     DEF M!Answer, M!Key

\* Every list is shown from its beginning, so a shorter one is no danger.
LEMMA MListKept ==
    ASSUME MList, ~mDone, M!Answer \/ M!Key
    PROVE  MList'
<1>0. Len(hosts) \in Nat /\ DOMAIN hosts = 1..Len(hosts)
  BY HostListFacts DEF MList
<1> USE DEF MList, M!fields
<1>1. CASE M!ScanFails
  BY <1>1 DEF M!ScanFails
<1>2. CASE M!ScanFinds
  <2>1. hosts' \in M!HostLists /\ 1 \in DOMAIN hosts'
    BY <1>2, HostListFacts DEF M!ScanFinds
  <2> QED
    BY <1>2, <2>1 DEF M!ScanFinds
<1>3. CASE M!KeyUp
  BY <1>0, <1>3 DEF M!KeyUp
<1>4. CASE M!KeyDown
  BY <1>0, <1>4 DEF M!KeyDown
<1>5. CASE M!KeySelect
  BY <1>5 DEF M!KeySelect
<1>6. CASE M!KeySelectEsc
  BY <1>6 DEF M!KeySelectEsc
<1>7. CASE M!KeyScan
  BY <1>7 DEF M!KeyScan
<1>8. CASE M!KeyManual
  BY <1>8 DEF M!KeyManual
<1>9. CASE M!KeySkip
  BY <1>9 DEF M!KeySkip
<1>10. CASE M!KeyTab
  BY <1>10 DEF M!KeyTab
<1>11. CASE M!KeyType
  BY <1>11 DEF M!KeyType
<1>12. CASE M!KeyEnter
  BY <1>12 DEF M!KeyEnter
<1>13. CASE M!KeyEsc
  BY <1>13 DEF M!KeyEsc
<1> QED
  BY <1>1, <1>2, <1>3, <1>4, <1>5, <1>6, <1>7, <1>8, <1>9, <1>10, <1>11, <1>12, <1>13
     DEF M!Answer, M!Key

\* Only a scan that is at work answers.
LEMMA Scanning ==
    ASSUME MModes, mScans > 0
    PROVE  mState = "scanning"
<1> SUFFICES ASSUME mState # "scanning" PROVE FALSE
  OBVIOUS
<1>1. mScans = 0
  BY DEF MModes
<1> QED
  BY <1>1

\* The field edited has the focus: entering by hand starts at the host, which it focuses,
\* and the way back returns to the host.
LEMMA MFieldsKept ==
    ASSUME MModes, MFields, ~mDone, M!Answer \/ M!Key
    PROVE  MFields'
<1> USE DEF MFields, M!fields
<1>1. CASE M!ScanFails
  <2>1. mState = "scanning"
    BY <1>1, Scanning DEF M!ScanFails
  <2>2. UNCHANGED <<hostInput, portInput, mField, mFocused>>
    BY <1>1 DEF M!ScanFails
  <2>3. mState' = "menu"
    BY <1>1 DEF M!ScanFails
  <2> QED
    BY <2>1, <2>2, <2>3
<1>2. CASE M!ScanFinds
  <2>1. mState = "scanning"
    BY <1>2, Scanning DEF M!ScanFinds
  <2>2. UNCHANGED <<hostInput, portInput, mField, mFocused>>
    BY <1>2 DEF M!ScanFinds
  <2>3. mState' = "select"
    BY <1>2 DEF M!ScanFinds
  <2> QED
    BY <2>1, <2>2, <2>3
<1>3. CASE M!KeyUp
  BY <1>3 DEF M!KeyUp
<1>4. CASE M!KeyDown
  BY <1>4 DEF M!KeyDown
<1>5. CASE M!KeySelect
  BY <1>5 DEF M!KeySelect
<1>6. CASE M!KeySelectEsc
  BY <1>6 DEF M!KeySelectEsc
<1>7. CASE M!KeyScan
  BY <1>7 DEF M!KeyScan
<1>8. CASE M!KeyManual
  BY <1>8 DEF M!KeyManual
<1>9. CASE M!KeySkip
  BY <1>9 DEF M!KeySkip
<1>10. CASE M!KeyTab
  BY <1>10 DEF M!KeyTab
<1>11. CASE M!KeyType
  BY <1>11 DEF M!KeyType, M!Blank
<1>12. CASE M!KeyEnter
  BY <1>12 DEF M!KeyEnter
<1>13. CASE M!KeyEsc
  BY <1>13 DEF M!KeyEsc, M!Blank
<1> QED
  BY <1>1, <1>2, <1>3, <1>4, <1>5, <1>6, <1>7, <1>8, <1>9, <1>10, <1>11, <1>12, <1>13
     DEF M!Answer, M!Key

\* What is configured is a broker that was found or entered, or none.
LEMMA MConfigKept ==
    ASSUME MSafe, ~mDone, M!Answer \/ M!Key
    PROVE  mqttConfig' \in Configs
<1>1. mqttConfig \in Configs
  BY DEF MSafe
<1>2. CASE M!KeySelect
  <2>1. mCursor \in DOMAIN hosts /\ hosts \in M!HostLists \cup {<<>>}
    BY <1>2 DEF M!KeySelect, MSafe, MList
  <2>2. hosts[mCursor] \in Host
    BY <2>1, HostListFacts
  <2>3. mqttConfig' = M!Broker(hosts[mCursor], M!DefaultPort)
    BY <1>2 DEF M!KeySelect
  <2> QED
    BY <2>2, <2>3 DEF Configs
<1>3. CASE M!KeySkip
  BY <1>3 DEF M!KeySkip, Configs
<1>4. CASE M!KeyEnter
  <2> DEFINE p == IF portInput = "" THEN M!DefaultPort ELSE portInput
  <2>1. hostInput \in Host /\ p \in Port \cup {M!DefaultPort}
    BY <1>4 DEF M!KeyEnter, M!Blank, MSafe, MFields
  <2>2. mqttConfig' = M!Broker(hostInput, p)
    BY <1>4 DEF M!KeyEnter, M!Blank
  <2> HIDE DEF p
  <2> QED
    BY <2>1, <2>2 DEF Configs
<1>5. CASE mqttConfig' = mqttConfig
  BY <1>1, <1>5
<1> QED
  BY <1>2, <1>3, <1>4, <1>5
     DEF M!Answer, M!Key, M!ScanFails, M!ScanFinds, M!KeyUp, M!KeyDown, M!KeySelectEsc,
         M!KeyScan, M!KeyManual, M!KeyTab, M!KeyType, M!KeyEsc

\* An answer or a key of the MQTT step: when it is done the summary is made of what the
\* steps before have gathered.
LEMMA MQTTStepKept ==
    ASSUME IInv, MQTTAnswer \/ MQTTKey
    PROVE  IInv'
<1>1. /\ step = "mqtt" /\ (M!Answer \/ M!Key) /\ AfterMQTT
      /\ UNCHANGED <<quitting, exited, existingIPs, existingCreds, dVars, sVars, cVars,
                     pVars, configured, gState, gDone, writer, installs, composeFile,
                     envFile>>
  BY DEF MQTTAnswer, MQTTKey, At, AfterMQTT
<1>2. \/ /\ step' = "generate" /\ mDone'
         /\ setup' = [cameras |-> configured, mqtt |-> mqttConfig', hostIP |-> hostIP]
      \/ ~mDone' /\ UNCHANGED <<step, setup>>
  BY <1>1 DEF AfterMQTT
<1>3. step' \in {"mqtt", "generate"}
  BY <1>1, <1>2
<1>4. hostIP' = hostIP
  BY <1>1 DEF M!Answer, M!Key, M!ScanFails, M!ScanFinds, M!KeyUp, M!KeyDown, M!KeySelect,
         M!KeySelectEsc, M!KeyScan, M!KeyManual, M!KeySkip, M!KeyTab, M!KeyType,
         M!KeyEnter, M!KeyEsc
<1>5. MSafe /\ ~mDone
  <2>1. MInv
    BY DEF IInv
  <2>2. MModes /\ ~mDone
    BY <1>1, <2>1 DEF MInv, M!TypeOK, M!ScanExact, MModes
  <2>3. MList
    BY <2>1 DEF MInv, M!TypeOK, M!PickSafe, MList
  <2>4. MFields
    <3>1. /\ hostInput \in Host \cup {""} /\ portInput \in Port \cup {""}
          /\ mField \in {"host", "port"} /\ mFocused \subseteq {"host", "port"}
      <4>1. M!TypeOK
        BY <2>1 DEF MInv
      <4>2. mFocused \in SUBSET {"host", "port"}
        BY <4>1 DEF M!TypeOK
      <4>3. mFocused \subseteq {"host", "port"}
        BY <4>2
      <4>4. mField \in {"host", "port"}
        BY <4>1 DEF M!TypeOK
      <4>5. hostInput \in Host \cup {""} /\ portInput \in Port \cup {""}
        <5>1. hostInput \in Host \cup {M!Blank} /\ portInput \in Port \cup {M!Blank}
          BY <4>1 DEF M!TypeOK
        <5> QED
          BY <5>1 DEF M!Blank
      <4> QED
        BY <4>3, <4>4, <4>5
    <3>2. mState = "manual" => mField \in mFocused
      BY <2>1 DEF MInv, M!EntryUsable
    <3>3. mState \in {"menu", "scanning", "select"} => mField = "host"
      BY <2>1 DEF MInv
    <3> QED
      BY <3>1, <3>2, <3>3 DEF MFields
  <2>5. mqttConfig \in Configs
    BY <2>1 DEF MInv, M!TypeOK, Configs
  <2> QED
    BY <2>2, <2>3, <2>4, <2>5 DEF MSafe
<1>6. MModes' /\ MList' /\ MFields' /\ mqttConfig' \in Configs
  BY <1>1, <1>5, MModesKept, MListKept, MFieldsKept, MConfigKept DEF MSafe
<1>7. MInv'
  <2>1. M!TypeOK'
    <3>1. mScans' \in Nat
      BY <1>6 DEF MModes
    <3>2. /\ mState' \in {"menu", "scanning", "select", "manual", "done", "skipped"}
          /\ mErr' \in BOOLEAN /\ mDone' \in BOOLEAN
      BY <1>6 DEF MModes
    <3>3. hosts' \in M!HostLists \cup {<<>>} /\ mCursor' \in Nat
      BY <1>6 DEF MList
    <3>4. /\ hostInput' \in Host \cup {M!Blank} /\ portInput' \in Port \cup {M!Blank}
          /\ mField' \in {"host", "port"} /\ mFocused' \in SUBSET {"host", "port"}
      BY <1>6 DEF MFields, M!Blank
    <3>5. mqttConfig' \in {M!NoMQTT} \cup
                             {M!Broker(h, p) : h \in Host, p \in Port \cup {M!DefaultPort}}
      BY <1>6 DEF Configs
    <3> QED
      BY <3>1, <3>2, <3>3, <3>4, <3>5 DEF M!TypeOK
  <2>2. M!PickSafe' /\ M!EntryUsable' /\ M!ScanExact'
    BY <1>6 DEF M!PickSafe, M!EntryUsable, M!ScanExact, MModes, MList, MFields
  <2>3. (mState' \in {"menu", "scanning", "select"} => mField' = "host")
    BY <1>6 DEF MFields
  <2>4. (step' # "mqtt" => mState' # "scanning")
    BY <1>1, <1>2, <1>6 DEF MModes
  <2>5. (step' \notin {"generate", "done"} => ~mDone')
    BY <1>2
  <2> QED
    BY <2>1, <2>2, <2>3, <2>4, <2>5 DEF MInv
<1>8. RInv' /\ DInv' /\ SInv' /\ CInv' /\ PInv' /\ ConfiguredFaithful'
  <2>1. RInv /\ DInv /\ SInv /\ CInv /\ PInv /\ ConfiguredFaithful
    BY DEF IInv
  <2>2. RInv'
    BY <1>1, <1>3, <2>1 DEF RInv, Steps
  <2>3. DInv'
    BY <1>1, <1>3, <2>1, DKept
  <2>4. SInv'
    BY <1>1, <1>3, <2>1, SKept DEF RInv
  <2>5. CInv'
    BY <1>1, <1>3, <2>1, CKept
  <2>6. UNCHANGED <<pVars, selected, creds, results, configured>>
    BY <1>1 DEF cVars, pVars
  <2>7. PInv'
    BY <1>1, <1>3, <2>1, <2>6, PKept
  <2>8. ConfiguredFaithful'
    BY <1>1, <1>3, <2>1, <2>6, FKept
  <2> QED
    BY <2>2, <2>3, <2>4, <2>5, <2>7, <2>8
<1>9. GInv'
  <2>1. GInv /\ UNCHANGED <<gState, gDone, writer, installs, composeFile, envFile>>
    BY <1>1 DEF IInv
  <2>2. gState = "confirm" /\ gDone = FALSE /\ composeFile = G!Old /\ envFile = G!Old
    BY <1>1, <2>1 DEF GInv
  <2>3. G!TypeOK' /\ G!OneCommand' /\ writer = "idle"
    BY <2>1, <2>2 DEF GInv, G!TypeOK, G!OneCommand
  <2>4. CASE step' = "mqtt"
    BY <2>1, <2>2, <2>3, <2>4 DEF GInv, G!Old
  <2>5. CASE step' = "generate"
    <3>1. setup' = [cameras |-> configured', mqtt |-> mqttConfig', hostIP |-> hostIP']
      BY <1>1, <1>2, <1>4, <2>5
    <3>2. WritersProgress' /\ G!InstallsWhatWasWritten'
      BY <2>1, <2>2, <2>3 DEF WritersProgress, G!InstallsWhatWasWritten, G!Old, G!Torn
    <3> QED
      BY <2>1, <2>2, <2>3, <2>5, <3>1, <3>2 DEF GInv, G!Old
  <2> QED
    BY <1>3, <2>4, <2>5
<1> QED
  BY <1>7, <1>8, <1>9 DEF IInv

-----------------------------------------------------------------------------

\* The generation step's state and the commands at work.
GModes ==
    /\ gState \in {"confirm", "writing", "askInstall", "installing", "installDone",
                   "done", "error"}
    /\ gDone \in BOOLEAN
    /\ writer \in {"idle", "openCompose", "fillCompose", "openEnv", "fillEnv",
                   "succeeded", "failed"}
    /\ writer # "idle" <=> gState = "writing"
    /\ installs = IF gState = "installing" THEN 1 ELSE 0

\* What the files hold.
GFiles ==
    /\ WritersProgress
    /\ gState \in {"askInstall", "installing", "installDone", "done"} =>
           composeFile = G!ComposeFor(setup) /\ envFile = G!EnvFor(setup)
    /\ gState = "confirm" => composeFile = G!Old /\ envFile = G!Old

\* Only an installation that is at work answers.
LEMMA Installing ==
    ASSUME GModes, installs > 0
    PROVE  gState = "installing" /\ installs = 1 /\ writer = "idle"
<1>1. gState = "installing"
  <2> SUFFICES ASSUME gState # "installing" PROVE FALSE
    OBVIOUS
  <2>1. installs = 0
    BY DEF GModes
  <2> QED
    BY <2>1
<1> QED
  BY <1>1 DEF GModes

\* At most one command is at work, and the state says which.
LEMMA GModesKept ==
    ASSUME GModes,
           G!Write \/ G!GenerateDone \/ G!InstallDone \/ G!Key
    PROVE  GModes'
<1> USE DEF GModes
<1>1. CASE G!OpenCompose
  BY <1>1 DEF G!OpenCompose
<1>2. CASE G!FillCompose
  BY <1>2 DEF G!FillCompose
<1>3. CASE G!OpenEnv
  BY <1>3 DEF G!OpenEnv
<1>4. CASE G!FillEnv
  BY <1>4 DEF G!FillEnv
<1>5. CASE G!GenerateDone
  BY <1>5 DEF G!GenerateDone
<1>6. CASE G!InstallFails
  <2>1. gState = "installing" /\ installs = 1 /\ writer = "idle"
    BY <1>6, Installing DEF G!InstallFails
  <2>2. installs' = 0 /\ gState' = "error" /\ writer' = "idle" /\ gDone' \in BOOLEAN
    BY <1>6, <2>1 DEF G!InstallFails
  <2> QED
    BY <2>2
<1>7. CASE G!InstallSucceeds
  <2>1. gState = "installing" /\ installs = 1 /\ writer = "idle"
    BY <1>7, Installing DEF G!InstallSucceeds
  <2>2. installs' = 0 /\ gState' = "installDone" /\ writer' = "idle" /\ gDone' \in BOOLEAN
    BY <1>7, <2>1 DEF G!InstallSucceeds
  <2> QED
    BY <2>2
<1>8. CASE G!KeyWrite
  BY <1>8 DEF G!KeyWrite
<1>9. CASE G!KeyCancel
  BY <1>9 DEF G!KeyCancel
<1>10. CASE G!KeyInstall
  <2>1. installs = 0 /\ writer = "idle"
    BY <1>10 DEF G!KeyInstall
  <2>2. installs' = 1 /\ gState' = "installing" /\ writer' = "idle" /\ gDone' \in BOOLEAN
    BY <1>10, <2>1 DEF G!KeyInstall
  <2> QED
    BY <2>2
<1>11. CASE G!KeyNoInstall
  BY <1>11 DEF G!KeyNoInstall
<1> QED
  BY <1>1, <1>2, <1>3, <1>4, <1>5, <1>6, <1>7, <1>8, <1>9, <1>10, <1>11
     DEF G!Write, G!InstallDone, G!Key

\* The files follow the writing command, and the state follows the files.
LEMMA GFilesKept ==
    ASSUME GModes, GFiles,
           G!Write \/ G!GenerateDone \/ G!InstallDone \/ G!Key
    PROVE  GFiles' /\ setup' = setup
<1> USE DEF GModes, GFiles, WritersProgress
<1>1. CASE G!OpenCompose
  BY <1>1 DEF G!OpenCompose
<1>2. CASE G!FillCompose
  BY <1>2 DEF G!FillCompose
<1>3. CASE G!OpenEnv
  BY <1>3 DEF G!OpenEnv
<1>4. CASE G!FillEnv
  BY <1>4 DEF G!FillEnv
<1>5. CASE G!GenerateDone
  BY <1>5 DEF G!GenerateDone
<1>6. CASE G!InstallFails
  <2>1. gState = "installing" /\ installs = 1 /\ writer = "idle"
    BY <1>6, Installing DEF G!InstallFails
  <2> QED
    BY <1>6, <2>1 DEF G!InstallFails
<1>7. CASE G!InstallSucceeds
  <2>1. gState = "installing" /\ installs = 1 /\ writer = "idle"
    BY <1>7, Installing DEF G!InstallSucceeds
  <2> QED
    BY <1>7, <2>1 DEF G!InstallSucceeds
<1>8. CASE G!KeyWrite
  BY <1>8 DEF G!KeyWrite
<1>9. CASE G!KeyCancel
  BY <1>9 DEF G!KeyCancel
<1>10. CASE G!KeyInstall
  BY <1>10 DEF G!KeyInstall
<1>11. CASE G!KeyNoInstall
  BY <1>11 DEF G!KeyNoInstall
<1> QED
  BY <1>1, <1>2, <1>3, <1>4, <1>5, <1>6, <1>7, <1>8, <1>9, <1>10, <1>11
     DEF G!Write, G!InstallDone, G!Key

\* The parts of the invariant are those of the wizard's.
LEMMA GenerateParts ==
    /\ G!TypeOK /\ G!OneCommand => GModes
    /\ WritersProgress /\ GModes => G!TypeOK /\ G!OneCommand
<1>1. G!TypeOK /\ G!OneCommand => GModes
  BY DEF G!TypeOK, G!OneCommand, GModes
<1>2. WritersProgress => composeFile.kind \in {"old", "torn", "new"}
                         /\ envFile.kind \in {"old", "torn", "new"}
  BY DEF WritersProgress, G!Old, G!Torn, G!ComposeFor, G!EnvFor
<1>3. ASSUME GModes PROVE installs \in Nat /\ G!OneCommand
  BY <1>3 DEF GModes, G!OneCommand
<1>4. WritersProgress /\ GModes => G!TypeOK /\ G!OneCommand
  BY <1>2, <1>3 DEF GModes, G!TypeOK
<1> QED
  BY <1>1, <1>4

\* The step and, beside the loop, the command that writes.
LEMMA GenerateKept ==
    ASSUME IInv, step = "generate",
           G!Write \/ G!GenerateDone \/ G!InstallDone \/ G!Key,
           UNCHANGED <<exited, existingIPs, existingCreds, dVars, sVars, cVars, pVars,
                       configured, hostIP, mVars>>,
           quitting' \in BOOLEAN,
           IF gDone' THEN step' = "done" ELSE step' = step
    PROVE  IInv'
<1>1. GInv /\ gDone = FALSE
  BY DEF IInv, GInv
<1>2. GModes /\ GFiles
  BY <1>1, GenerateParts DEF GInv, GFiles, G!InstallsWhatWasWritten
<1>3. GModes' /\ GFiles' /\ setup' = setup
  BY <1>2, GModesKept, GFilesKept
<1>4. step' \in {"generate", "done"} /\ gDone' = (step' = "done")
  BY <1>3 DEF GModes
<1>5. G!TypeOK' /\ G!OneCommand'
  BY <1>3, GenerateParts DEF GFiles, GModes, WritersProgress, G!TypeOK, G!OneCommand,
                             G!Old, G!Torn, G!ComposeFor, G!EnvFor
<1>6. gDone' => writer' = "idle" /\ installs' = 0
  <2>1. ASSUME gDone' PROVE G!InstallSucceeds \/ G!KeyCancel \/ G!KeyNoInstall
    BY <1>1, <2>1 DEF G!Write, G!OpenCompose, G!FillCompose, G!OpenEnv, G!FillEnv,
                      G!GenerateDone, G!InstallDone, G!InstallFails, G!Key, G!KeyWrite,
                      G!KeyInstall
  <2>2. CASE G!InstallSucceeds
    <3>1. installs = 1 /\ writer = "idle"
      BY <1>2, <2>2, Installing DEF G!InstallSucceeds
    <3> QED
      BY <2>2, <3>1 DEF G!InstallSucceeds
  <2>3. CASE G!KeyCancel
    BY <1>2, <2>3 DEF G!KeyCancel, GModes
  <2>4. CASE G!KeyNoInstall
    BY <1>2, <2>4 DEF G!KeyNoInstall, GModes
  <2> QED
    BY <2>1, <2>2, <2>3, <2>4
<1>7. setup' = [cameras |-> configured', mqtt |-> mqttConfig', hostIP |-> hostIP']
  BY <1>1, <1>3 DEF GInv, mVars
<1>8. GInv'
  BY <1>3, <1>4, <1>5, <1>6, <1>7 DEF GInv, GFiles, G!InstallsWhatWasWritten
<1>9. RInv' /\ DInv' /\ SInv' /\ CInv' /\ PInv' /\ MInv' /\ ConfiguredFaithful'
  <2>1. RInv /\ DInv /\ SInv /\ CInv /\ PInv /\ MInv /\ ConfiguredFaithful
    BY DEF IInv
  <2>2. RInv'
    BY <1>4, <2>1 DEF RInv, Steps
  <2>3. DInv'
    BY <1>4, <2>1, DKept
  <2>4. SInv'
    BY <1>4, <2>1, SKept DEF RInv
  <2>5. CInv'
    BY <1>4, <2>1, CKept
  <2>6. UNCHANGED <<pVars, selected, creds, results, configured>>
    BY DEF cVars, pVars
  <2>7. PInv'
    BY <1>4, <2>1, <2>6, PKept
  <2>8. MInv'
    BY <1>4, <2>1, MKept
  <2>9. ConfiguredFaithful'
    BY <1>4, <2>1, <2>6, FKept
  <2> QED
    BY <2>2, <2>3, <2>4, <2>5, <2>7, <2>8, <2>9
<1> QED
  BY <1>8, <1>9 DEF IInv

\* An answer or a key of the generation step.
LEMMA GenerateStep ==
    ASSUME IInv, GenerateDone \/ InstallDone \/ GenerateKey
    PROVE  IInv'
<1>1. /\ step = "generate" /\ (G!GenerateDone \/ G!InstallDone \/ G!Key)
      /\ AfterGenerate
  BY DEF GenerateDone, InstallDone, GenerateKey, At
<1>2. /\ UNCHANGED <<exited, existingIPs, existingCreds, dVars, sVars, cVars, pVars,
                     configured, hostIP, mVars>>
      /\ quitting' \in BOOLEAN
      /\ IF gDone' THEN step' = "done" ELSE step' = step
  BY <1>1 DEF AfterGenerate, IInv, RInv
<1> QED
  BY <1>1, <1>2, GenerateKept

\* The writing command's own steps happen while the generation step waits for it.
LEMMA WritingStep ==
    ASSUME IInv, Writing
    PROVE  IInv'
<1>1. /\ G!Write
      /\ UNCHANGED <<step, quitting, exited, existingIPs, existingCreds, dVars, sVars,
                     cVars, pVars, configured, hostIP, mVars>>
  BY DEF Writing, root
<1>2. writer # "idle"
  BY <1>1 DEF G!Write, G!OpenCompose, G!FillCompose, G!OpenEnv, G!FillEnv
<1>3. step = "generate" /\ gDone = FALSE
  BY <1>2 DEF IInv, RInv, Steps, GInv, G!OneCommand
<1>4. gDone' = gDone /\ quitting' \in BOOLEAN
  BY <1>1 DEF G!Write, G!OpenCompose, G!FillCompose, G!OpenEnv, G!FillEnv, IInv, RInv
<1> QED
  BY <1>1, <1>3, <1>4, GenerateKept

\* Quitting, ending and stuttering touch no step.
LEMMA OtherStep ==
    ASSUME IInv, CtrlC \/ Exit \/ UNCHANGED vars
    PROVE  IInv'
<1>1. /\ UNCHANGED <<step, existingIPs, existingCreds, dVars, sVars, cVars, pVars,
                     configured, hostIP, mVars, gVars>>
      /\ quitting' \in BOOLEAN /\ exited' \in BOOLEAN
  BY DEF CtrlC, Exit, vars, root, IInv, RInv
<1>2. RInv /\ DInv /\ SInv /\ CInv /\ PInv /\ MInv /\ GInv /\ ConfiguredFaithful
  BY DEF IInv
<1>3. RInv'
  BY <1>1, <1>2 DEF RInv
<1>4. DInv'
  BY <1>1, <1>2, DKept
<1>5. SInv'
  <2>1. SInv /\ step \in Steps
    BY <1>2 DEF RInv
  <2>2. UNCHANGED sVars
    BY <1>1
  <2>3. step' = step
    BY <1>1
  <2> QED
    BY <2>1, <2>2, <2>3, SKept, Zenon
<1>6. CInv'
  BY <1>1, <1>2, CKept
<1>7. UNCHANGED <<pVars, selected, creds, results, configured, mqttConfig>>
  BY <1>1 DEF cVars, pVars, mVars
<1>8. PInv'
  BY <1>1, <1>2, <1>7, PKept
<1>9. MInv'
  BY <1>1, <1>2, MKept
<1>10. GInv'
  BY <1>1, <1>2, <1>7, GKept
<1>11. ConfiguredFaithful'
  BY <1>1, <1>2, <1>7, FKept DEF RInv, Steps
<1> QED
  BY <1>3, <1>4, <1>5, <1>6, <1>8, <1>9, <1>10, <1>11 DEF IInv

\* Every step of the wizard keeps the invariant.
LEMMA Inductive == IInv /\ [Next]_vars => IInv'
<1> SUFFICES ASSUME IInv, [Next]_vars PROVE IInv'
  OBVIOUS
<1> QED
  BY DiscoveryStep, SelectionStep, CredentialsStep, ProbeStep, MQTTStepKept, GenerateStep,
     WritingStep, OtherStep DEF Next, Exited

\* It holds always.
THEOREM Invariance == Spec => []IInv
BY WInitially, Inductive, PTL DEF Spec

-----------------------------------------------------------------------------

\* The state of every step stays within its types while the step runs (TypeOK), for any
\* cameras, credentials, brokers and bounds.
THEOREM TypeCorrect == Spec => []TypeOK
<1>1. IInv => TypeOK
  <2> SUFFICES ASSUME IInv PROVE TypeOK
    OBVIOUS
  <2>1. /\ step \in Steps /\ quitting \in BOOLEAN /\ exited \in BOOLEAN
        /\ D!TypeOK /\ S!TypeOK /\ M!TypeOK /\ G!TypeOK
    BY DEF IInv, RInv, DInv, SInv, MInv, GInv
  <2>2. ASSUME step = "credentials" PROVE C!TypeOK
    <3>1. CP!TypeOK
      BY <2>2 DEF IInv, CInv, CP!IInv
    <3> QED
      BY <3>1 DEF C!TypeOK, CP!TypeOK, C!Credential, CP!Credential, C!Blank, CP!Blank
  <2>3. ASSUME step = "probe" PROVE P!TypeOK
    <3>1. PP!TypeOK
      BY <2>3 DEF IInv, PInv, PP!IInv
    <3> QED
      BY <3>1 DEF P!TypeOK, PP!TypeOK, P!Result, PP!Result, P!Stream, PP!Stream,
                  P!Command, PP!Command
  <2> QED
    BY <2>1, <2>2, <2>3 DEF TypeOK, Steps
<1> QED
  BY <1>1, Invariance, PTL

\* The root model gives messages to the current step only (Update), and no command is ever
\* at work for another one, so no answer is thrown away (NoAnswerLost).
THEOREM AnswersArrive == Spec => []NoAnswerLost
<1>1. IInv => NoAnswerLost
  <2> SUFFICES ASSUME IInv PROVE NoAnswerLost
    OBVIOUS
  <2>1. (step = "discovery" => D!ScanExact) /\ (step # "discovery" => dScans = 0)
    <3>1. dScans = IF dState = "scanning" /\ ~dDone THEN 1 ELSE 0
      BY DEF IInv, DInv
    <3>2. CASE dDone
      <4>1. dScans = 0
        BY <3>1, <3>2
      <4> QED
        BY <3>2, <4>1 DEF D!ScanExact
    <3>3. CASE ~dDone
      <4>1. step = "discovery"
        BY <3>3 DEF IInv, DInv
      <4>2. dScans = IF dState = "scanning" THEN 1 ELSE 0
        BY <3>1, <3>3
      <4> QED
        BY <4>1, <4>2 DEF D!ScanExact
    <3> QED
      BY <3>2, <3>3
  <2>2. IF step = "probe" THEN P!PendingExact ELSE inflight = {}
    <3>1. CASE step = "probe"
      <4>1. PP!PendingExact
        BY <3>1 DEF IInv, PInv, PP!IInv
      <4>2. P!PendingExact
        BY <4>1, Zenon DEF P!PendingExact, PP!PendingExact, P!Cardinality, PP!Cardinality
      <4> QED
        BY <3>1, <4>2
    <3>2. CASE step # "probe"
      BY <3>2 DEF IInv, PInv
    <3> QED
      BY <3>1, <3>2
  <2>3. IF step = "mqtt" THEN M!ScanExact ELSE mScans = 0
    <3>1. M!ScanExact /\ (step # "mqtt" => mState # "scanning")
      BY DEF IInv, MInv
    <3>2. ASSUME step # "mqtt" PROVE mScans = 0
      BY <3>1, <3>2 DEF M!ScanExact
    <3> QED
      BY <3>1, <3>2
  <2>4. IF step = "generate" THEN G!OneCommand ELSE writer = "idle" /\ installs = 0
    <3>1. GInv
      BY DEF IInv
    <3>2. CASE step \in {"generate", "done"}
      BY <3>1, <3>2 DEF GInv
    <3>3. CASE step \notin {"generate", "done"}
      <4>1. gState = "confirm" /\ G!OneCommand
        BY <3>1, <3>3 DEF GInv
      <4>2. writer = "idle" /\ installs = 0
        BY <4>1 DEF G!OneCommand
      <4> QED
        BY <3>3, <4>2
    <3> QED
      BY <3>2, <3>3
  <2> QED
    BY <2>1, <2>2, <2>3, <2>4 DEF NoAnswerLost
<1> QED
  BY <1>1, Invariance, PTL

\* Every screen can be drawn and its keys handled: View and Update index no list outside
\* its bounds and no field is dead (ScreenSafe).
THEOREM ScreenIsSafe == Spec => []ScreenSafe
<1>1. IInv => ScreenSafe
  <2> SUFFICES ASSUME IInv PROVE ScreenSafe
    OBVIOUS
  <2>1. D!ViewSafe /\ M!PickSafe /\ M!EntryUsable
    BY DEF IInv, DInv, MInv
  <2>2. ASSUME step = "credentials" PROVE C!PromptSafe
    <3>1. CP!PromptSafe
      BY <2>2 DEF IInv, CInv, CP!IInv
    <3> QED
      BY <3>1 DEF C!PromptSafe, CP!PromptSafe
  <2>3. ASSUME step = "probe" PROVE P!ViewSafe
    <3>1. PP!IInv
      BY <2>3 DEF IInv, PInv
    <3>2. PP!ViewSafe
      BY <3>1, InstanceAssumptions, PP!Drawable
    <3> QED
      BY <3>2 DEF P!ViewSafe, PP!ViewSafe
  <2> QED
    BY <2>1, <2>2, <2>3 DEF ScreenSafe
<1> QED
  BY <1>1, Invariance, PTL

\* What is configured are the cameras selected that answered, in order, each with the
\* credentials given for it and its own stream (ConfiguredFaithful), for any number of
\* cameras, whatever the order of the answers and the history of the retries.
THEOREM ConfiguredIsFaithful == Spec => []ConfiguredFaithful
<1>1. IInv => ConfiguredFaithful
  BY DEF IInv
<1> QED
  BY <1>1, Invariance, PTL

\* Only files that hold what the steps gathered are offered for installation and
\* installed (InstallFaithful).
THEOREM InstallIsFaithful == Spec => []InstallFaithful
<1>1. IInv => InstallFaithful
  BY DEF IInv, GInv, InstallFaithful
<1> QED
  BY <1>1, Invariance, PTL

-----------------------------------------------------------------------------

\* The place of each step.
LEMMA Places ==
    /\ Place("discovery") = 1 /\ Place("selection") = 2 /\ Place("credentials") = 3
    /\ Place("probe") = 4 /\ Place("mqtt") = 5 /\ Place("generate") = 6
    /\ Place("done") = 7
<1> DEFINE order == <<"discovery", "selection", "credentials", "probe", "mqtt",
                      "generate", "done">>
<1>1. DOMAIN order = 1..7
  OBVIOUS
<1>2. /\ order[1] = "discovery" /\ order[2] = "selection" /\ order[3] = "credentials"
      /\ order[4] = "probe" /\ order[5] = "mqtt" /\ order[6] = "generate"
      /\ order[7] = "done"
  OBVIOUS
<1> HIDE DEF order
<1>3. \A s : Place(s) = CHOOSE i \in DOMAIN order : order[i] = s
  BY DEF Place, order
<1>4. ASSUME NEW s, NEW n \in 1..7, order[n] = s, \A i \in 1..7 : order[i] = s => i = n
      PROVE  Place(s) = n
  <2>1. n \in DOMAIN order
    BY <1>1
  <2>2. Place(s) \in 1..7 /\ order[Place(s)] = s
    BY <1>1, <1>3, <1>4, <2>1
  <2> QED
    BY <1>4, <2>2
<1>5. \A i \in 1..7 : i = 1 \/ i = 2 \/ i = 3 \/ i = 4 \/ i = 5 \/ i = 6 \/ i = 7
  OBVIOUS
<1>6. Place("discovery") = 1
  BY <1>2, <1>4, <1>5
<1>7. Place("selection") = 2
  BY <1>2, <1>4, <1>5
<1>8. Place("credentials") = 3
  BY <1>2, <1>4, <1>5
<1>9. Place("probe") = 4
  BY <1>2, <1>4, <1>5
<1>10. Place("mqtt") = 5
  BY <1>2, <1>4, <1>5
<1>11. Place("generate") = 6
  BY <1>2, <1>4, <1>5
<1>12. Place("done") = 7
  BY <1>2, <1>4, <1>5
<1> QED
  BY <1>6, <1>7, <1>8, <1>9, <1>10, <1>11, <1>12

\* One step of the wizard, as ForwardOnly has it.
Goes ==
    /\ Place(step') \in {Place(step), Place(step) + 1}
    /\ Place(step) > 1 => cameras' = cameras
    /\ Place(step) > 2 => selected' = selected
    /\ Place(step) > 3 => creds' = creds
    /\ Place(step) > 4 => configured' = configured
    /\ Place(step) > 5 => mqttConfig' = mqttConfig

\* The wizard only goes forward, one step at a time, and what a finished step has decided
\* is never changed by a later one (ForwardOnly).  This needs no invariant: it is what
\* each part of Update leaves alone.
THEOREM GoesForward == Spec => ForwardOnly
<1>1. [Next]_vars => [Goes]_vars
  <2> SUFFICES ASSUME Next PROVE Goes
    OBVIOUS
  <2>1. CASE DiscoveryAnswer \/ DiscoveryKey
    BY <2>1, Places DEF Goes, DiscoveryAnswer, DiscoveryKey, At, AfterDiscovery
  <2>2. CASE SelectionKey
    <3>1. cameras' = cameras
      BY <2>2 DEF SelectionKey, S!Step, S!KeyUp, S!KeyDown, S!KeySpace, S!KeyEnter
    <3> QED
      BY <2>2, <3>1, Places DEF Goes, SelectionKey, At, AfterSelection
  <2>3. CASE CredentialsKey
    <3>1. selected' = selected
      BY <2>3 DEF CredentialsKey, C!Step, C!KeyTab, C!KeyCtrlA, C!KeyType,
                  C!EnterForAll, C!EnterLast, C!EnterNext, C!AskNext
    <3> QED
      BY <2>3, <3>1, Places DEF Goes, CredentialsKey, At, AfterCredentials, sVars
  <2>4. CASE ProbeAnswer \/ ProbeKey
    BY <2>4, Places DEF Goes, ProbeAnswer, ProbeKey, At, AfterProbe, sVars, cVars
  <2>5. CASE MQTTAnswer \/ MQTTKey
    BY <2>5, Places DEF Goes, MQTTAnswer, MQTTKey, At, AfterMQTT, sVars, cVars
  <2>6. CASE GenerateDone \/ InstallDone \/ GenerateKey
    BY <2>6, Places DEF Goes, GenerateDone, InstallDone, GenerateKey, At, AfterGenerate,
                        sVars, cVars, mVars
  <2>7. CASE Writing \/ CtrlC \/ Exit \/ Exited
    BY <2>7 DEF Goes, Writing, CtrlC, Exit, Exited, vars, root, sVars, cVars, mVars
  <2> QED
    BY <2>1, <2>2, <2>3, <2>4, <2>5, <2>6, <2>7 DEF Next
<1>2. Spec => [][Goes]_vars
  BY <1>1, PTL DEF Spec
<1> QED
  BY <1>2 DEF ForwardOnly, Goes

-----------------------------------------------------------------------------

(* Why every wait ends. *)

\* While the wizard is busy, commands of the current step are at work.
LEMMA BusyWorks == IInv /\ Busy => Work \in Nat /\ Work > 0
<1> SUFFICES ASSUME IInv, Busy PROVE Work \in Nat /\ Work > 0
  OBVIOUS
<1>1. CASE step = "discovery"
  <2>1. dScans = 1
    BY <1>1 DEF IInv, DInv, Busy
  <2> QED
    BY <1>1, <2>1 DEF Work
<1>2. CASE step = "probe"
  <2>1. PP!IsFiniteSet(inflight) /\ PP!PendingExact /\ pState = "running"
    BY <1>2 DEF IInv, PInv, PP!IInv, Busy
  <2>2. IsFiniteSet(inflight)
    BY <2>1, Zenon DEF IsFiniteSet, PP!IsFiniteSet
  <2>3. inflight # {}
    BY <2>1 DEF PP!PendingExact
  <2>4. Cardinality(inflight) \in Nat /\ Cardinality(inflight) # 0
    BY <2>2, <2>3, FS_CardinalityType, FS_EmptySet
  <2> QED
    BY <1>2, <2>4 DEF Work
<1>3. CASE step = "mqtt"
  <2>1. mScans = 1
    BY <1>3 DEF IInv, MInv, M!ScanExact, Busy
  <2> QED
    BY <1>3, <2>1 DEF Work
<1>4. CASE step = "generate"
  <2>1. writer # "idle" /\ G!TypeOK
    BY <1>4 DEF IInv, GInv, G!OneCommand, Busy
  <2>2. WriterLeft \in 1..5
    BY <2>1 DEF G!TypeOK, WriterLeft
  <2> QED
    BY <1>4, <2>2 DEF Work
<1> QED
  BY <1>1, <1>2, <1>3, <1>4 DEF Busy

\* A step that leaves the wizard busy.
RunsDown ==
    \/ step' = step /\ Work' < Work
    \/ UNCHANGED <<step, dVars, pVars, mVars, gVars>>

\* Every answer and every key, and the writing: an answer takes its command away or ends
\* the wait, no key is obeyed, and each of the writer's steps takes it further.
LEMMA BusyStep ==
    ASSUME IInv, Busy, Next, Busy'
    PROVE  RunsDown
<1> USE DEF IInv
<1>1. CASE DiscoveryAnswer
  <2>1. step = "discovery" /\ D!Answer /\ AfterDiscovery
    BY <1>1 DEF DiscoveryAnswer, At
  <2>2. step' \in {"discovery", "selection"} /\ (dDone' /\ dCameras' # <<>> => step' = "selection")
    BY <2>1 DEF AfterDiscovery
  <2>3. dState' = "scanning" /\ ~dDone'
    BY <2>2 DEF Busy
  <2> QED
    BY <2>1, <2>3 DEF D!Answer, D!FoundNothing, D!FoundCameras
<1>2. CASE DiscoveryKey
  <2>1. step = "discovery" /\ dState = "scanning"
    BY <1>2 DEF DiscoveryKey, At, Busy
  <2> QED
    BY <1>2, <2>1 DEF DiscoveryKey, D!Key, D!KeyRetry, D!KeyManual, D!KeyQuit, D!KeyType,
                      D!KeyEnter, D!KeyEsc
<1>3. CASE SelectionKey \/ CredentialsKey
  BY <1>3 DEF SelectionKey, CredentialsKey, At, Busy
<1>4. CASE ProbeAnswer
  <2>1. step = "probe" /\ ~pDone /\ PP!IsFiniteSet(inflight)
    BY <1>4 DEF ProbeAnswer, At, PInv, PP!IInv
  <2>2. PICK c \in inflight : P!ProbeResult(c)
    BY <1>4 DEF ProbeAnswer, P!Answer
  <2>3. inflight' = inflight \ {c} /\ pDone' = pDone
    BY <2>2 DEF P!ProbeResult
  <2>4. step' = step
    BY <1>4, <2>1, <2>3 DEF ProbeAnswer, AfterProbe
  <2>5. IsFiniteSet(inflight)
    BY <2>1, Zenon DEF IsFiniteSet, PP!IsFiniteSet
  <2>6. /\ Cardinality(inflight) \in Nat
        /\ Cardinality(inflight \ {c}) = Cardinality(inflight) - 1
    BY <2>5, FS_CardinalityType, FS_RemoveElement
  <2>7. Work = Cardinality(inflight) /\ Work' = Cardinality(inflight')
    BY <2>1, <2>4 DEF Work
  <2>8. Work' < Work
    BY <2>3, <2>6, <2>7
  <2> QED
    BY <2>4, <2>8 DEF RunsDown
<1>5. CASE ProbeKey
  <2>1. step = "probe" /\ pState = "running"
    BY <1>5 DEF ProbeKey, At, Busy
  <2> QED
    BY <1>5, <2>1 DEF ProbeKey, P!Key, P!KeyUp, P!KeyDown, P!KeyLeft, P!KeyRight, P!KeyRetry,
                      P!KeyEnter, P!Listening
<1>6. CASE MQTTAnswer
  <2>1. step = "mqtt" /\ ~mDone /\ mDone' = mDone /\ mState' \in {"menu", "select"}
    BY <1>6 DEF MQTTAnswer, At, MInv, M!Answer, M!ScanFails, M!ScanFinds
  <2>2. step' = "mqtt"
    BY <1>6, <2>1 DEF MQTTAnswer, AfterMQTT
  <2> QED
    BY <2>1, <2>2 DEF Busy
<1>7. CASE MQTTKey
  <2>1. step = "mqtt" /\ mState = "scanning"
    BY <1>7 DEF MQTTKey, At, Busy
  <2> QED
    BY <1>7, <2>1 DEF MQTTKey, M!Key, M!KeyUp, M!KeyDown, M!KeySelect, M!KeySelectEsc,
                      M!KeyScan, M!KeyManual, M!KeySkip, M!KeyTab, M!KeyType, M!KeyEnter,
                      M!KeyEsc
<1>8. CASE GenerateDone
  <2>1. step = "generate" /\ gState' \in {"error", "askInstall"}
    BY <1>8 DEF GenerateDone, At, G!GenerateDone
  <2>2. step' \in {"generate", "done"}
    BY <1>8, <2>1 DEF GenerateDone, AfterGenerate
  <2> QED
    BY <2>1, <2>2 DEF Busy
<1>9. CASE InstallDone \/ GenerateKey
  <2>1. step = "generate" /\ gState = "writing"
    BY <1>9 DEF InstallDone, GenerateKey, At, Busy
  <2>2. installs = 0
    BY <2>1 DEF GInv, G!OneCommand
  <2> QED
    BY <1>9, <2>1, <2>2 DEF InstallDone, G!InstallDone, G!InstallFails, G!InstallSucceeds,
                      GenerateKey, G!Key, G!KeyWrite, G!KeyCancel, G!KeyInstall,
                      G!KeyNoInstall
<1>10. CASE Writing
  <2>1. G!Write /\ step' = step
    BY <1>10 DEF Writing, root
  <2>2. writer \in {"openCompose", "fillCompose", "openEnv", "fillEnv"}
    BY <2>1 DEF G!Write, G!OpenCompose, G!FillCompose, G!OpenEnv, G!FillEnv
  <2>3. step = "generate"
    BY <2>2 DEF GInv, G!OneCommand, Busy
  <2>4. WriterLeft \in Nat /\ WriterLeft' \in Nat /\ WriterLeft' < WriterLeft
    BY <2>1 DEF G!Write, G!OpenCompose, G!FillCompose, G!OpenEnv, G!FillEnv, WriterLeft
  <2> QED
    BY <2>1, <2>3, <2>4 DEF RunsDown, Work
<1>11. CASE CtrlC
  BY <1>11 DEF CtrlC, RunsDown
<1>12. CASE Exit \/ Exited
  BY <1>12 DEF Exit, Exited, Busy
<1> QED
  BY <1>1, <1>2, <1>3, <1>4, <1>5, <1>6, <1>7, <1>8, <1>9, <1>10, <1>11, <1>12 DEF Next

\* One step of the wizard, as BusyRunsDown has it.
Down ==
    Busy => /\ Work > 0
            /\ Busy' => RunsDown

\* Whenever the wizard shows that it is busy its commands are at work, and every step that
\* leaves it busy brings one of them nearer its end (BusyRunsDown): what is measured is a
\* natural number, so that the wait can only last if the commands stop being scheduled.
THEOREM WaitsRunDown == Spec => BusyRunsDown
<1>1. IInv /\ [Next]_vars => [Down]_vars
  BY BusyWorks, BusyStep DEF Down
<1>2. Spec => [][Down]_vars
  BY <1>1, Invariance, PTL DEF Spec
<1> QED
  BY <1>2 DEF BusyRunsDown, Down, RunsDown

-----------------------------------------------------------------------------

(* What the contract sees of the wizard. *)

Agreed == IF gState = "confirm" THEN <<>> ELSE <<setup>>
Compose == Progress(composeFile, G!ComposeFor(setup))
Env == Progress(envFile, G!EnvFor(setup))
Service == IF installs > 0 THEN "installing"
           ELSE IF gState = "installDone" THEN "installed" ELSE "untouched"

\* A file is in one of three conditions, and never in two.
LEMMA FileProgress ==
    ASSUME NEW new, new.kind = "new"
    PROVE  /\ Progress(G!Old, new) = "old" /\ Progress(G!Torn, new) = "torn"
           /\ Progress(new, new) = "new"
<1>1. G!Old # G!Torn /\ G!Old # new /\ G!Torn # new
  <2>1. G!Old.kind = "old" /\ G!Torn.kind = "torn"
    BY DEF G!Old, G!Torn
  <2> QED
    BY <2>1
<1> QED
  BY <1>1 DEF Progress

\* What is written is neither torn nor old.
LEMMA NewFiles ==
    /\ G!ComposeFor(setup).kind = "new" /\ G!EnvFor(setup).kind = "new"
    /\ G!ComposeFor(setup').kind = "new" /\ G!EnvFor(setup').kind = "new"
BY DEF G!ComposeFor, G!EnvFor

(* The contract's steps, in these terms. *)

LEMMA ContractSteps ==
    /\ Contract!Agree <=>
             Agreed = <<>> /\ Agreed' # <<>> /\ UNCHANGED <<Compose, Env, Service>>
    /\ Contract!MayWrite <=>
             Agreed # <<>> /\ Service = "untouched" /\ UNCHANGED <<Agreed, Service>>
    /\ Contract!BeginCompose <=>
             Contract!MayWrite /\ Compose' = "torn" /\ UNCHANGED Env
    /\ Contract!EndCompose <=>
             Contract!MayWrite /\ Compose = "torn" /\ Compose' = "new" /\ UNCHANGED Env
    /\ Contract!BeginEnv <=>
             Contract!MayWrite /\ Compose = "new" /\ Env' = "torn" /\ UNCHANGED Compose
    /\ Contract!EndEnv <=>
             /\ Contract!MayWrite /\ Compose = "new" /\ Env = "torn" /\ Env' = "new"
             /\ UNCHANGED Compose
    /\ Contract!Install <=>
             /\ Compose = "new" /\ Env = "new" /\ Service = "untouched"
             /\ Service' = "installing" /\ UNCHANGED <<Agreed, Compose, Env>>
    /\ Contract!InstallEnds <=>
             /\ Service = "installing" /\ Service' \in {"untouched", "installed"}
             /\ UNCHANGED <<Agreed, Compose, Env>>
    /\ UNCHANGED Contract!vars <=> UNCHANGED <<Agreed, Compose, Env, Service>>
<1>1. Contract!Agree <=>
          Agreed = <<>> /\ Agreed' # <<>> /\ UNCHANGED <<Compose, Env, Service>>
  BY DEF Agreed, Compose, Env, Service, Contract!Agree
<1>2. Contract!MayWrite <=>
          Agreed # <<>> /\ Service = "untouched" /\ UNCHANGED <<Agreed, Service>>
  BY DEF Agreed, Service, Contract!MayWrite
<1>3. Contract!BeginCompose <=>
          Contract!MayWrite /\ Compose' = "torn" /\ UNCHANGED Env
  BY DEF Compose, Env, Contract!BeginCompose
<1>4. Contract!EndCompose <=>
          Contract!MayWrite /\ Compose = "torn" /\ Compose' = "new" /\ UNCHANGED Env
  BY DEF Compose, Env, Contract!EndCompose
<1>5. Contract!BeginEnv <=>
          Contract!MayWrite /\ Compose = "new" /\ Env' = "torn" /\ UNCHANGED Compose
  BY DEF Compose, Env, Contract!BeginEnv
<1>6. Contract!EndEnv <=>
          /\ Contract!MayWrite /\ Compose = "new" /\ Env = "torn" /\ Env' = "new"
          /\ UNCHANGED Compose
  BY DEF Compose, Env, Contract!EndEnv
<1>7. Contract!Install <=>
          /\ Compose = "new" /\ Env = "new" /\ Service = "untouched"
          /\ Service' = "installing" /\ UNCHANGED <<Agreed, Compose, Env>>
  BY DEF Agreed, Compose, Env, Service, Contract!Install
<1>8. Contract!InstallEnds <=>
          /\ Service = "installing" /\ Service' \in {"untouched", "installed"}
          /\ UNCHANGED <<Agreed, Compose, Env>>
  BY DEF Agreed, Compose, Env, Service, Contract!InstallEnds
<1>9. UNCHANGED Contract!vars <=> UNCHANGED <<Agreed, Compose, Env, Service>>
  BY DEF Agreed, Compose, Env, Service, Contract!vars
<1> QED
  BY <1>1, <1>2, <1>3, <1>4, <1>5, <1>6, <1>7, <1>8, <1>9

\* While the summary is shown the files are those of the earlier setup.
LEMMA BeforeConfirmed ==
    ASSUME IInv, Next, gState = "confirm",
           UNCHANGED <<gState, installs, composeFile, envFile>>
    PROVE  UNCHANGED <<Agreed, Compose, Env, Service>>
<1>1. composeFile = G!Old /\ envFile = G!Old
  BY DEF IInv, GInv
<1>2. Compose = "old" /\ Env = "old" /\ Compose' = "old" /\ Env' = "old"
  BY <1>1, NewFiles, FileProgress DEF Compose, Env
<1> QED
  BY <1>2 DEF Agreed, Service

\* The generation step does what the contract says.
LEMMA GenerateSteps ==
    ASSUME IInv, step = "generate", G!Write \/ G!GenerateDone \/ G!InstallDone \/ G!Key
    PROVE  Contract!Next \/ UNCHANGED Contract!vars
<1>1. GInv /\ GModes /\ GFiles
  BY GenerateParts DEF IInv, GInv, GFiles, G!InstallsWhatWasWritten
<1>2. GModes' /\ GFiles' /\ setup' = setup
  BY <1>1, GModesKept, GFilesKept
<1>3. /\ composeFile = G!Torn => Compose = "torn"
      /\ composeFile = G!ComposeFor(setup) => Compose = "new"
      /\ envFile = G!Torn => Env = "torn"
      /\ envFile = G!EnvFor(setup) => Env = "new"
  BY NewFiles, FileProgress DEF Compose, Env
<1>4. /\ composeFile' = G!Torn => Compose' = "torn"
      /\ composeFile' = G!ComposeFor(setup) => Compose' = "new"
      /\ envFile' = G!Torn => Env' = "torn"
      /\ envFile' = G!EnvFor(setup) => Env' = "new"
      /\ composeFile' = composeFile => Compose' = Compose
      /\ envFile' = envFile => Env' = Env
  BY <1>2, NewFiles, FileProgress DEF Compose, Env
<1>5. /\ gState # "confirm" => Agreed # <<>>
      /\ gState' # "confirm" => Agreed' # <<>>
      /\ (gState = "confirm") = (gState' = "confirm") => Agreed' = Agreed
  BY <1>2 DEF Agreed
<1>6. /\ gState = "installing" => Service = "installing"
      /\ gState = "installDone" => Service = "installed"
      /\ gState \notin {"installing", "installDone"} => Service = "untouched"
  BY <1>1 DEF GModes, Service
<1>7. /\ gState' = "installing" => Service' = "installing"
      /\ gState' = "installDone" => Service' = "installed"
      /\ gState' \notin {"installing", "installDone"} => Service' = "untouched"
  BY <1>2 DEF GModes, Service
<1>8. writer # "idle" => gState = "writing"
  BY <1>1 DEF GModes
<1>9. CASE G!OpenCompose
  <2>1. gState = "writing" /\ gState' = "writing" /\ envFile' = envFile
    BY <1>8, <1>9 DEF G!OpenCompose
  <2>2. /\ Agreed # <<>> /\ Service = "untouched" /\ UNCHANGED <<Agreed, Service, Env>>
    BY <1>4, <1>5, <1>6, <1>7, <2>1
  <2>3. Compose' = "torn" \/ Compose' = Compose
    BY <1>4, <1>9 DEF G!OpenCompose
  <2> QED
    BY <2>2, <2>3, ContractSteps DEF Contract!Next
<1>10. CASE G!FillCompose
  <2>1. /\ gState = "writing" /\ gState' = "writing" /\ envFile' = envFile
        /\ composeFile = G!Torn
    BY <1>1, <1>8, <1>10 DEF G!FillCompose, GFiles, WritersProgress
  <2>2. /\ Agreed # <<>> /\ Service = "untouched" /\ UNCHANGED <<Agreed, Service, Env>>
        /\ Compose = "torn"
    BY <1>3, <1>4, <1>5, <1>6, <1>7, <2>1
  <2>3. Compose' = "new" \/ Compose' = Compose
    BY <1>4, <1>10 DEF G!FillCompose
  <2> QED
    BY <2>2, <2>3, ContractSteps DEF Contract!Next
<1>11. CASE G!OpenEnv
  <2>1. /\ gState = "writing" /\ gState' = "writing" /\ composeFile' = composeFile
        /\ composeFile = G!ComposeFor(setup)
    BY <1>1, <1>8, <1>11 DEF G!OpenEnv, GFiles, WritersProgress
  <2>2. /\ Agreed # <<>> /\ Service = "untouched" /\ UNCHANGED <<Agreed, Service, Compose>>
        /\ Compose = "new"
    BY <1>3, <1>4, <1>5, <1>6, <1>7, <2>1
  <2>3. Env' = "torn" \/ Env' = Env
    BY <1>4, <1>11 DEF G!OpenEnv
  <2> QED
    BY <2>2, <2>3, ContractSteps DEF Contract!Next
<1>12. CASE G!FillEnv
  <2>1. /\ gState = "writing" /\ gState' = "writing" /\ composeFile' = composeFile
        /\ composeFile = G!ComposeFor(setup) /\ envFile = G!Torn
    BY <1>1, <1>8, <1>12 DEF G!FillEnv, GFiles, WritersProgress
  <2>2. /\ Agreed # <<>> /\ Service = "untouched" /\ UNCHANGED <<Agreed, Service, Compose>>
        /\ Compose = "new" /\ Env = "torn"
    BY <1>3, <1>4, <1>5, <1>6, <1>7, <2>1
  <2>3. Env' = "new" \/ Env' = Env
    BY <1>4, <1>12 DEF G!FillEnv
  <2> QED
    BY <2>2, <2>3, ContractSteps DEF Contract!Next
<1>13. ASSUME UNCHANGED <<composeFile, envFile>>, Agreed' = Agreed, Service' = Service
       PROVE  UNCHANGED Contract!vars
  BY <1>4, <1>13, ContractSteps
<1>14. CASE G!GenerateDone
  <2>1. /\ gState = "writing" /\ gState' \in {"error", "askInstall"}
        /\ UNCHANGED <<composeFile, envFile>>
    BY <1>8, <1>14 DEF G!GenerateDone
  <2> QED
    BY <1>5, <1>6, <1>7, <1>13, <2>1
<1>15. CASE G!InstallDone
  <2>1. /\ gState = "installing" /\ gState' \in {"error", "installDone"}
        /\ UNCHANGED <<composeFile, envFile>>
    BY <1>1, <1>15, Installing DEF G!InstallDone, G!InstallFails, G!InstallSucceeds
  <2>2. /\ Service = "installing" /\ Service' \in {"untouched", "installed"}
        /\ UNCHANGED <<Agreed, Compose, Env>>
    BY <1>4, <1>5, <1>6, <1>7, <2>1
  <2> QED
    BY <2>2, ContractSteps DEF Contract!Next
<1>16. CASE G!KeyWrite
  <2>1. /\ gState \in {"confirm", "error"} /\ gState' = "writing"
        /\ UNCHANGED <<composeFile, envFile>>
    BY <1>16 DEF G!KeyWrite
  <2>2. UNCHANGED <<Compose, Env, Service>>
    BY <1>4, <1>6, <1>7, <2>1
  <2>3. CASE gState = "confirm"
    <3>1. Agreed = <<>> /\ Agreed' # <<>>
      BY <1>5, <2>1, <2>3 DEF Agreed
    <3> QED
      BY <2>2, <3>1, ContractSteps DEF Contract!Next
  <2>4. CASE gState = "error"
    <3>1. Agreed' = Agreed
      BY <1>5, <2>1, <2>4
    <3> QED
      BY <1>13, <2>1, <2>2, <3>1
  <2> QED
    BY <2>1, <2>3, <2>4
<1>17. CASE G!KeyInstall
  <2>1. /\ gState = "askInstall" /\ gState' = "installing"
        /\ UNCHANGED <<composeFile, envFile>>
        /\ composeFile = G!ComposeFor(setup) /\ envFile = G!EnvFor(setup)
    BY <1>1, <1>17 DEF G!KeyInstall, GFiles
  <2>2. /\ Compose = "new" /\ Env = "new" /\ Service = "untouched"
        /\ Service' = "installing" /\ UNCHANGED <<Agreed, Compose, Env>>
    BY <1>3, <1>4, <1>5, <1>6, <1>7, <2>1
  <2> QED
    BY <2>2, ContractSteps DEF Contract!Next
<1>18. CASE G!KeyCancel
  <2>1. UNCHANGED <<gState, composeFile, envFile>>
    BY <1>18 DEF G!KeyCancel
  <2>2. Agreed' = Agreed /\ Service' = Service
    BY <1>2, <1>5, <1>18, <2>1 DEF G!KeyCancel, Service
  <2> QED
    BY <1>13, <2>1, <2>2
<1>19. CASE G!KeyNoInstall
  <2>1. gState = "askInstall" /\ gState' = "done" /\ UNCHANGED <<composeFile, envFile>>
    BY <1>19 DEF G!KeyNoInstall
  <2> QED
    BY <1>5, <1>6, <1>7, <1>13, <2>1
<1> QED
  BY <1>9, <1>10, <1>11, <1>12, <1>14, <1>15, <1>16, <1>17, <1>18, <1>19
     DEF G!Write, G!Key

\* The rest of the wizard changes nothing the contract speaks of.
LEMMA OtherSteps ==
    ASSUME IInv, [Next]_vars
    PROVE  [Contract!Next]_(Contract!vars)
<1>1. CASE Writing
  <2>1. G!Write /\ step = "generate"
    <3>1. G!Write /\ writer # "idle"
      BY <1>1 DEF Writing, G!Write, G!OpenCompose, G!FillCompose, G!OpenEnv, G!FillEnv
    <3> QED
      BY <3>1 DEF IInv, RInv, Steps, GInv, G!OneCommand
  <2> QED
    BY <2>1, GenerateSteps
<1>2. CASE GenerateDone \/ InstallDone \/ GenerateKey
  BY <1>2, GenerateSteps DEF GenerateDone, InstallDone, GenerateKey, At
<1>3. CASE MQTTAnswer \/ MQTTKey
  <2>1. gState = "confirm" /\ UNCHANGED <<gState, installs, composeFile, envFile>>
    BY <1>3 DEF IInv, GInv, MQTTAnswer, MQTTKey, At, AfterMQTT
  <2>2. Next
    BY <1>3 DEF Next
  <2> QED
    BY <2>1, <2>2, BeforeConfirmed, ContractSteps
<1>4. CASE UNCHANGED gVars
  <2>1. UNCHANGED <<gState, setup, installs, composeFile, envFile>>
    BY <1>4 DEF gVars
  <2>2. UNCHANGED <<Agreed, Compose, Env, Service>>
    BY <2>1 DEF Agreed, Compose, Env, Service
  <2> QED
    BY <2>2, ContractSteps
<1>5. \/ Writing \/ GenerateDone \/ InstallDone \/ GenerateKey \/ MQTTAnswer \/ MQTTKey
      \/ UNCHANGED gVars
  BY DEF Next, DiscoveryAnswer, DiscoveryKey, AfterDiscovery, SelectionKey, AfterSelection,
         CredentialsKey, AfterCredentials, ProbeAnswer, ProbeKey, AfterProbe, CtrlC, Exit,
         Exited, vars
<1> QED
  BY <1>1, <1>2, <1>3, <1>4, <1>5

\* The wizard implements the contract of a setup (KeepsContract): with all its steps and
\* whatever keys and answers come, it changes the files and the service only as agreed.
THEOREM ContractKept == Spec => KeepsContract
<1>1. Init => Contract!Init
  <2> SUFFICES ASSUME Init PROVE Contract!Init
    OBVIOUS
  <2>1. gState = "confirm" /\ composeFile = G!Old /\ envFile = G!Old /\ installs = 0
    BY DEF Init
  <2>2. Compose = "old" /\ Env = "old" /\ Agreed = <<>> /\ Service = "untouched"
    BY <2>1, NewFiles, FileProgress DEF Compose, Env, Agreed, Service
  <2> QED
    BY <2>2 DEF Contract!Init, Compose, Env, Agreed, Service
<1>2. IInv /\ [Next]_vars => [Contract!Next]_(Contract!vars)
  BY OtherSteps
<1> QED
  BY <1>1, <1>2, Invariance, PTL DEF Spec, KeepsContract, Contract!Spec

=============================================================================
