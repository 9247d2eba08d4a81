---------------------------- MODULE SetupsProofs ---------------------------
(***************************************************************************)
(* Any number of setups over the same two files, for any cameras, logins   *)
(* and names of the user's own.                                            *)
(*                                                                         *)
(* What a setup leaves is decided while it writes: Fits says that the      *)
(* compose file, once filled, and the entries about to be written are      *)
(* those of the setup, and Saves that what is to be preserved has a place  *)
(* in the new file and is among its entries.                               *)
(***************************************************************************)
EXTENDS Setups, TLAPS

\* A file has entries of both kinds.
IsEnv(env) == env = [cams |-> env.cams, vars |-> env.vars]

Records == IsEnv(envFile) /\ IsEnv(merged)

Fits ==
    /\ pc # "idle" => setup \in Setup
    /\ pc \in {"openEnv", "fillEnv"} =>
          composeFile = [cameras |-> Len(setup.cameras), mqtt |-> setup.mqtt]
    /\ pc = "fillEnv" =>
          /\ DOMAIN merged.cams = DOMAIN setup.cameras
          /\ \A i \in DOMAIN setup.cameras : merged.cams[i] = URLOf(setup.cameras[i])
          /\ \A k \in DOMAIN Managed(setup) :
                k \in DOMAIN merged.vars /\ merged.vars[k] = "setup"

Saves ==
    pc = "fillEnv" =>
        /\ "MQTT_TOPIC_PREFIX" \in kept => setup.mqtt
        /\ \A k \in kept : k \in DOMAIN merged.vars /\ merged.vars[k] = "custom"

\* The names that have a place in the file of a setup.
PlacesFor(s) == OtherNames \cup (IF s.mqtt THEN MQTTNames ELSE {})

\* What a later setup with the same answers would take over is what is there.
Written ==
    Whole =>
        /\ envFile.cams = URLs(setup)
        /\ envFile.vars = [k \in PlacesFor(setup) |-> envFile.vars[k]]
        /\ \A k \in PlacesFor(setup) : envFile.vars[k] # Blank
        /\ \A k \in DOMAIN Managed(setup) : envFile.vars[k] = "setup"

IInv == TypeOK /\ Records /\ Fits /\ Saves /\ Resolved /\ EditsKept /\ Written

-----------------------------------------------------------------------------
(* What the functions on files do. *)

\* No value of an entry is blank but the one the user cleared.
LEMMA BlankFacts == Blank # "setup" /\ Blank # "default" /\ Blank # "custom"
BY Zenon DEF Blank

\* A setup is a list of cameras with their logins.
LEMMA SetupFacts ==
    ASSUME NEW s \in Setup
    PROVE  /\ s.cameras \in Seq(Confirmed) /\ s.mqtt \in BOOLEAN
           /\ Len(s.cameras) \in 0..MaxCameras
           /\ DOMAIN s.cameras = 1..Len(s.cameras)
<1>1. PICK n \in 0..MaxCameras : s.cameras \in [1..n -> Confirmed]
  BY DEF Setup
<1>2. n \in Nat
  BY SetupsAssumption
<1> QED
  BY <1>1, <1>2 DEF Setup

\* An entry holds the address of its camera and the text of its login, in which there is
\* a user if there was one.
LEMMA URLFacts ==
    ASSUME NEW c \in Confirmed
    PROVE  /\ URLOf(c) = [host |-> c.host, login |-> TextOf(c.login)]
           /\ c = [host |-> c.host, login |-> c.login] /\ c.host \in Host /\ c.login \in Login
           /\ TextOf(c.login).user = Blank <=> c.login.user = Blank
<1>1. c = [host |-> c.host, login |-> c.login] /\ c.host \in Host /\ c.login \in Login
  BY DEF Confirmed
<1>2. c.login.user \in Word
  BY <1>1, EnvFileAssumption
<1>3. TextOf(c.login).user = Escape[c.login.user]
  BY DEF TextOf
<1> QED
  BY <1>1, <1>2, <1>3, EnvFileAssumption DEF URLOf

\* What is read of a file, to whatever line, is there.
LEMMA ReadingFacts ==
    ASSUME NEW env, IsEnv(env), NEW part \in Readings(env)
    PROVE  /\ DOMAIN part.vars \subseteq DOMAIN env.vars
           /\ \A k \in DOMAIN part.vars : part.vars[k] = env.vars[k]
<1>1. CASE part \in {[cams |-> SubSeq(env.cams, 1, n), vars |-> <<>>] : n \in 0..Len(env.cams)}
  <2>1. part.vars = <<>>
    BY <1>1
  <2> QED
    BY <2>1
<1>2. ASSUME NEW n, part = [env EXCEPT !.vars = Restrict(@, {k \in DOMAIN @ : Line[k] <= n})]
      PROVE  /\ DOMAIN part.vars \subseteq DOMAIN env.vars
             /\ \A k \in DOMAIN part.vars : part.vars[k] = env.vars[k]
  <2>1. part.vars = Restrict(env.vars, {k \in DOMAIN env.vars : Line[k] <= n})
    BY <1>2 DEF IsEnv
  <2> QED
    BY <2>1 DEF Restrict
<1> QED
  BY <1>1, <1>2 DEF Readings

\* What a setup manages never lies in the names it preserves.
LEMMA ManagedFacts ==
    ASSUME NEW s
    PROVE  /\ {"HLS_BASE_URL", "GHCR_REPO", "TAG"} \subseteq DOMAIN Managed(s)
           /\ s.mqtt => BrokerNames \subseteq DOMAIN Managed(s)
           /\ DOMAIN Managed(s) \subseteq {"HLS_BASE_URL", "GHCR_REPO", "TAG"} \cup BrokerNames
           /\ \A k \in DOMAIN Managed(s) : Managed(s)[k] = "setup"
BY DEF Managed, OtherNames, BrokerNames

\* Merging keeps exactly the cameras of the setup, and what it does not manage.
LEMMA MergeFacts ==
    ASSUME NEW old, NEW s \in Setup
    PROVE  /\ IsEnv(Merge(old, s))
           /\ DOMAIN Merge(old, s).cams = DOMAIN s.cameras
           /\ \A i \in DOMAIN s.cameras : Merge(old, s).cams[i] = URLOf(s.cameras[i])
           /\ DOMAIN Merge(old, s).vars = DOMAIN Managed(s) \cup DOMAIN old.vars
           /\ \A k \in DOMAIN Managed(s) : Merge(old, s).vars[k] = "setup"
           /\ \A k \in DOMAIN old.vars \ DOMAIN Managed(s) :
                 Merge(old, s).vars[k] = old.vars[k]
<1> DEFINE m == Merge(old, s)
<1>1. /\ m.cams = [i \in DOMAIN URLs(s) |-> Over(URLs(s), old.cams)[i]]
      /\ m.vars = Over(Managed(s), old.vars)
      /\ IsEnv(m)
  BY DEF Merge, IsEnv
<1>2. /\ DOMAIN URLs(s) = DOMAIN s.cameras
      /\ \A i \in DOMAIN s.cameras : URLs(s)[i] = URLOf(s.cameras[i])
  BY DEF URLs
<1>3. \A i \in DOMAIN URLs(s) : Over(URLs(s), old.cams)[i] = URLs(s)[i]
  BY DEF Over
<1>4. /\ DOMAIN m.vars = DOMAIN Managed(s) \cup DOMAIN old.vars
      /\ \A k \in DOMAIN Managed(s) : m.vars[k] = Managed(s)[k]
      /\ \A k \in DOMAIN old.vars \ DOMAIN Managed(s) : m.vars[k] = old.vars[k]
  BY <1>1 DEF Over
<1> HIDE DEF m
<1>5. /\ DOMAIN m.cams = DOMAIN s.cameras
      /\ \A i \in DOMAIN s.cameras : m.cams[i] = URLOf(s.cameras[i])
  BY <1>1, <1>2, <1>3
<1> QED
  BY <1>1, <1>4, <1>5, ManagedFacts DEF m

\* Writing fills the places of the setup, with what there is for each or the default.
LEMMA WriteFacts ==
    ASSUME NEW env, NEW s
    PROVE  LET e == WriteEnv(env, s)
           IN  /\ IsEnv(e)
               /\ e.cams = [i \in DOMAIN s.cameras |-> env.cams[i]]
               /\ e.vars = [k \in PlacesFor(s) |-> ValueOrDefault(env, k)]
BY DEF WriteEnv, IsEnv, PlacesFor

\* What a setup writes depends on what it finds in two names only, those of the user's
\* that are preserved: everything else is decided by the setup (GenerateEnv).
THEOREM DecidedBySetup ==
    ASSUME NEW one, NEW other, NEW s \in Setup
    PROVE  LET e == WriteEnv(Merge(one, s), s)
               f == WriteEnv(Merge(other, s), s)
           IN  /\ e.cams = URLs(s) /\ f.cams = URLs(s)
               /\ DOMAIN e.vars = DOMAIN f.vars
               /\ \A k \in DOMAIN e.vars \ {"SERVICE_FILE", "MQTT_TOPIC_PREFIX"} :
                     e.vars[k] = "setup" /\ f.vars[k] = "setup"
<1>1. ASSUME NEW old
      PROVE  /\ WriteEnv(Merge(old, s), s).cams = URLs(s)
             /\ DOMAIN WriteEnv(Merge(old, s), s).vars = PlacesFor(s)
             /\ \A k \in PlacesFor(s) \ {"SERVICE_FILE", "MQTT_TOPIC_PREFIX"} :
                   WriteEnv(Merge(old, s), s).vars[k] = "setup"
  <2> DEFINE m == Merge(old, s)
  <2>1. /\ \A i \in DOMAIN s.cameras : m.cams[i] = URLOf(s.cameras[i])
        /\ DOMAIN m.vars = DOMAIN Managed(s) \cup DOMAIN old.vars
        /\ \A k \in DOMAIN Managed(s) : m.vars[k] = "setup"
    BY MergeFacts
  <2> HIDE DEF m
  <2>2. /\ WriteEnv(m, s).cams = [i \in DOMAIN s.cameras |-> m.cams[i]]
        /\ WriteEnv(m, s).vars = [k \in PlacesFor(s) |-> ValueOrDefault(m, k)]
    BY WriteFacts
  <2>3. PlacesFor(s) \ {"SERVICE_FILE", "MQTT_TOPIC_PREFIX"} \subseteq DOMAIN Managed(s)
    BY DEF PlacesFor, Managed, OtherNames, MQTTNames, BrokerNames
  <2>4. WriteEnv(m, s).cams = URLs(s)
    BY <2>1, <2>2 DEF URLs
  <2>5. \A k \in DOMAIN Managed(s) : ValueOrDefault(m, k) = "setup"
    BY <2>1, BlankFacts DEF ValueOrDefault
  <2>6. DOMAIN WriteEnv(m, s).vars = PlacesFor(s)
    BY <2>2
  <2>7. \A k \in PlacesFor(s) \ {"SERVICE_FILE", "MQTT_TOPIC_PREFIX"} :
           WriteEnv(m, s).vars[k] = "setup"
    BY <2>2, <2>3, <2>5
  <2> QED
    BY <2>4, <2>6, <2>7 DEF m
<1> QED
  BY <1>1

-----------------------------------------------------------------------------
(* The parts of the invariant, step by step. *)

\* Two files without an entry, and no setup at work.
LEMMA Initially == Init => IInv
<1> SUFFICES ASSUME Init PROVE IInv
  OBVIOUS
<1>1. TypeOK
  <2>1. EnvOf(Empty)
    BY DEF EnvOf, Empty
  <2>2. composeFile \in [cameras : 0..MaxCameras, mqtt : BOOLEAN]
    BY SetupsAssumption DEF Init, NoServices
  <2> QED
    BY <2>1, <2>2, SetupsAssumption DEF Init, TypeOK
<1>2. Records
  BY DEF Init, Records, IsEnv, Empty
<1>3. Fits /\ Saves /\ Resolved /\ EditsKept /\ Written
  BY DEF Init, Fits, Saves, Resolved, EditsKept, Written, Whole
<1> QED
  BY <1>1, <1>2, <1>3 DEF IInv

\* A setup begins by changing no file.
LEMMA BeginStep ==
    ASSUME IInv, Begin
    PROVE  IInv'
<1>1. /\ pc = "idle" /\ pc' = "openCompose" /\ setup' \in Setup
      /\ UNCHANGED <<composeFile, envFile, merged, kept, edits>>
  BY DEF Begin
<1>2. TypeOK' /\ Records'
  BY <1>1 DEF IInv, TypeOK, EnvOf, Records, IsEnv
<1>3. Fits' /\ Saves' /\ Resolved' /\ EditsKept' /\ Written'
  BY <1>1 DEF IInv, Fits, Saves, Resolved, EditsKept, Written, Whole
<1> QED
  BY <1>2, <1>3 DEF IInv

\* The compose file is written for the setup at work, and .env left alone.
LEMMA ComposeSteps ==
    ASSUME IInv, OpenCompose \/ FillCompose
    PROVE  IInv'
<1>1. /\ pc \in {"openCompose", "fillCompose"} /\ setup \in Setup
      /\ UNCHANGED <<envFile, setup, merged, kept, edits>>
  BY DEF IInv, Fits, OpenCompose, FillCompose
<1>2. CASE OpenCompose
  <2>1. pc' = "fillCompose" /\ composeFile' = NoServices
    BY <1>2 DEF OpenCompose
  <2>2. NoServices \in [cameras : 0..MaxCameras, mqtt : BOOLEAN]
    BY SetupsAssumption DEF NoServices
  <2>3. TypeOK' /\ Records'
    BY <1>1, <2>1, <2>2 DEF IInv, TypeOK, EnvOf, Records, IsEnv
  <2>4. Fits' /\ Saves' /\ Resolved' /\ EditsKept' /\ Written'
    BY <1>1, <2>1 DEF IInv, Fits, Saves, Resolved, EditsKept, Written, Whole
  <2> QED
    BY <2>3, <2>4 DEF IInv
<1>3. CASE FillCompose
  <2>1. /\ pc' = "openEnv"
        /\ composeFile' = [cameras |-> Len(setup.cameras), mqtt |-> setup.mqtt]
    BY <1>3 DEF FillCompose
  <2>2. composeFile' \in [cameras : 0..MaxCameras, mqtt : BOOLEAN]
    BY <1>1, <2>1, SetupFacts, SetupsAssumption
  <2>3. TypeOK' /\ Records'
    BY <1>1, <2>1, <2>2 DEF IInv, TypeOK, EnvOf, Records, IsEnv
  <2>4. Fits' /\ Saves' /\ Resolved' /\ EditsKept' /\ Written'
    BY <1>1, <2>1 DEF IInv, Fits, Saves, Resolved, EditsKept, Written, Whole
  <2> QED
    BY <2>3, <2>4 DEF IInv
<1> QED
  BY <1>2, <1>3

\* What is read of the old file before it is truncated holds all that is preserved.
LEMMA OpenEnvStep ==
    ASSUME IInv, OpenEnv
    PROVE  IInv'
<1>1. /\ pc = "openEnv" /\ pc' = "fillEnv"
      /\ setup \in Setup
      /\ composeFile = [cameras |-> Len(setup.cameras), mqtt |-> setup.mqtt]
      /\ envFile' = Empty
      /\ UNCHANGED <<composeFile, setup, edits>>
  BY DEF IInv, Fits, OpenEnv
<1>2. PICK part \in Readings(envFile) :
         /\ merged' = Merge(part, setup)
         /\ kept' = (kept \cap DOMAIN part.vars)
                      \ (IF setup.mqtt THEN {} ELSE {"MQTT_TOPIC_PREFIX"})
  BY DEF OpenEnv
<1>3. /\ DOMAIN part.vars \subseteq DOMAIN envFile.vars
       /\ \A k \in DOMAIN part.vars : part.vars[k] = envFile.vars[k]
  BY <1>2, ReadingFacts DEF IInv, Records
<1>4. /\ IsEnv(merged')
      /\ DOMAIN merged'.cams = DOMAIN setup.cameras
      /\ \A i \in DOMAIN setup.cameras : merged'.cams[i] = URLOf(setup.cameras[i])
      /\ DOMAIN merged'.vars = DOMAIN Managed(setup) \cup DOMAIN part.vars
      /\ \A k \in DOMAIN Managed(setup) : merged'.vars[k] = "setup"
      /\ \A k \in DOMAIN part.vars \ DOMAIN Managed(setup) :
            merged'.vars[k] = envFile.vars[k]
  BY <1>1, <1>2, <1>3, MergeFacts
<1>5. EnvOf(merged')
  <2>1. DOMAIN merged'.cams \subseteq 1..MaxCameras
    <3>1. DOMAIN setup.cameras = 1..Len(setup.cameras) /\ Len(setup.cameras) \in 0..MaxCameras
      BY <1>1, SetupFacts
    <3>2. 1..Len(setup.cameras) \subseteq 1..MaxCameras
      BY <3>1, SetupsAssumption
    <3> QED
      BY <1>4, <3>1, <3>2
  <2>2. \A i \in DOMAIN merged'.cams : merged'.cams[i] \in {URLOf(c) : c \in Confirmed}
    <3> SUFFICES ASSUME NEW i \in DOMAIN setup.cameras
                 PROVE  URLOf(setup.cameras[i]) \in {URLOf(c) : c \in Confirmed}
      BY <1>4
    <3>1. setup.cameras[i] \in Confirmed
      BY <1>1, SetupFacts
    <3> QED
      BY <3>1
  <2>3. DOMAIN merged'.vars \subseteq Editable
    <3>1. DOMAIN Managed(setup) \subseteq Editable
      BY ManagedFacts DEF Editable, MQTTNames, OtherNames
    <3> QED
      BY <1>4, <1>3, <3>1 DEF IInv, TypeOK, EnvOf
  <2>4. \A k \in DOMAIN merged'.vars : merged'.vars[k] \in {"setup", "default", "custom", Blank}
    BY <1>4, <1>3 DEF IInv, TypeOK, EnvOf
  <2> QED
    BY <2>1, <2>2, <2>3, <2>4 DEF EnvOf
<1>6. EnvOf(Empty) /\ IsEnv(Empty)
  BY DEF EnvOf, Empty, IsEnv
<1>7. TypeOK'
  <2>1. EnvOf(envFile)' /\ EnvOf(merged)'
    BY <1>1, <1>5, <1>6 DEF EnvOf
  <2>2. kept' \subseteq {"SERVICE_FILE", "MQTT_TOPIC_PREFIX"}
    BY <1>2 DEF IInv, TypeOK
  <2> QED
    BY <1>1, <2>1, <2>2 DEF IInv, TypeOK
<1>8. Records'
  BY <1>1, <1>4, <1>6 DEF Records, IsEnv
<1>9. Fits'
  BY <1>1, <1>4 DEF Fits, Managed
<1>10. Saves'
  <2>1. "MQTT_TOPIC_PREFIX" \in kept' => setup.mqtt
    BY <1>2
  <2>2. ASSUME NEW k \in kept' PROVE k \in DOMAIN merged'.vars /\ merged'.vars[k] = "custom"
    <3>1. /\ k \in kept /\ k \in {"SERVICE_FILE", "MQTT_TOPIC_PREFIX"}
          /\ k \in DOMAIN part.vars
      BY <1>2, <2>2 DEF IInv, TypeOK
    <3>2. k \in DOMAIN envFile.vars /\ envFile.vars[k] = "custom"
      BY <1>1, <3>1 DEF IInv, EditsKept
    <3>3. k \notin DOMAIN Managed(setup)
      BY <3>1, ManagedFacts DEF BrokerNames
    <3> QED
      BY <1>4, <3>1, <3>2, <3>3
  <2> QED
    BY <1>1, <2>1, <2>2 DEF Saves
<1>11. Resolved' /\ EditsKept' /\ Written'
  BY <1>1 DEF Resolved, Whole, EditsKept, Written
<1> QED
  BY <1>7, <1>8, <1>9, <1>10, <1>11 DEF IInv

\* The new .env has a value for every name the compose file refers to, the setup's own
\* and the user's in their places.
LEMMA FillEnvStep ==
    ASSUME IInv, FillEnv
    PROVE  IInv'
<1>1. /\ pc = "fillEnv" /\ pc' = "idle"
      /\ setup \in Setup
      /\ composeFile = [cameras |-> Len(setup.cameras), mqtt |-> setup.mqtt]
      /\ envFile' = WriteEnv(merged, setup) /\ merged' = Empty
      /\ UNCHANGED <<composeFile, setup, kept, edits>>
  BY DEF IInv, Fits, FillEnv
<1>2. /\ DOMAIN merged.cams = DOMAIN setup.cameras
      /\ \A i \in DOMAIN setup.cameras : merged.cams[i] = URLOf(setup.cameras[i])
      /\ \A k \in DOMAIN Managed(setup) : k \in DOMAIN merged.vars /\ merged.vars[k] = "setup"
      /\ "MQTT_TOPIC_PREFIX" \in kept => setup.mqtt
      /\ \A k \in kept : k \in DOMAIN merged.vars /\ merged.vars[k] = "custom"
  BY <1>1 DEF IInv, Fits, Saves
<1>3. /\ IsEnv(envFile')
      /\ DOMAIN envFile'.cams = DOMAIN setup.cameras
      /\ \A i \in DOMAIN setup.cameras : envFile'.cams[i] = URLOf(setup.cameras[i])
      /\ DOMAIN envFile'.vars = OtherNames \cup (IF setup.mqtt THEN MQTTNames ELSE {})
      /\ \A k \in DOMAIN envFile'.vars :
            /\ envFile'.vars[k] # Blank
            /\ k \in DOMAIN merged.vars /\ merged.vars[k] # Blank
                  => envFile'.vars[k] = merged.vars[k]
            /\ ~(k \in DOMAIN merged.vars /\ merged.vars[k] # Blank)
                  => envFile'.vars[k] = "default"
  BY <1>1, <1>2, BlankFacts DEF WriteEnv, IsEnv, ValueOrDefault
<1>4. \A i \in DOMAIN setup.cameras :
         /\ envFile'.cams[i].host = setup.cameras[i].host
         /\ envFile'.cams[i].login = TextOf(setup.cameras[i].login)
         /\ envFile'.cams[i] \in {URLOf(c) : c \in Confirmed}
  <2> SUFFICES ASSUME NEW i \in DOMAIN setup.cameras
               PROVE  /\ envFile'.cams[i].host = setup.cameras[i].host
                      /\ envFile'.cams[i].login = TextOf(setup.cameras[i].login)
                      /\ envFile'.cams[i] \in {URLOf(c) : c \in Confirmed}
    OBVIOUS
  <2>1. setup.cameras[i] \in Confirmed
    BY <1>1, SetupFacts
  <2> QED
    BY <1>3, <2>1, URLFacts
<1>5. EnvOf(envFile') /\ EnvOf(Empty) /\ IsEnv(Empty)
  <2>1. DOMAIN envFile'.cams \subseteq 1..MaxCameras
    <3>1. DOMAIN setup.cameras = 1..Len(setup.cameras) /\ Len(setup.cameras) \in 0..MaxCameras
      BY <1>1, SetupFacts
    <3>2. 1..Len(setup.cameras) \subseteq 1..MaxCameras
      BY <3>1, SetupsAssumption
    <3> QED
      BY <1>3, <3>1, <3>2
  <2>2. \A i \in DOMAIN envFile'.cams : envFile'.cams[i] \in {URLOf(c) : c \in Confirmed}
    BY <1>3, <1>4
  <2>3. DOMAIN envFile'.vars \subseteq Editable
    BY <1>3 DEF Editable
  <2>4. \A k \in DOMAIN envFile'.vars : envFile'.vars[k] \in {"setup", "default", "custom", Blank}
    BY <1>3 DEF IInv, TypeOK, EnvOf
  <2>5. EnvOf(envFile')
    BY <2>1, <2>2, <2>3, <2>4 DEF EnvOf
  <2>6. EnvOf(Empty)
    BY DEF EnvOf, Empty
  <2>7. IsEnv(Empty)
    BY DEF IsEnv, Empty
  <2> QED
    BY <2>5, <2>6, <2>7
<1>6. TypeOK'
  <2>1. EnvOf(envFile)' /\ EnvOf(merged)'
    BY <1>1, <1>5 DEF EnvOf
  <2> QED
    BY <1>1, <2>1 DEF IInv, TypeOK
<1>7. Records' /\ Fits' /\ Saves'
  BY <1>1, <1>3, <1>5 DEF Records, IsEnv, Fits, Saves
<1>8. EditsKept'
  <2> SUFFICES ASSUME NEW k \in kept
               PROVE  k \in DOMAIN envFile'.vars /\ envFile'.vars[k] = "custom"
    BY <1>1 DEF EditsKept
  <2>1. k \in {"SERVICE_FILE", "MQTT_TOPIC_PREFIX"}
    BY DEF IInv, TypeOK
  <2>2. k \in DOMAIN envFile'.vars
    BY <1>2, <1>3, <2>1 DEF OtherNames, MQTTNames
  <2> QED
    BY <1>2, <1>3, <2>2, BlankFacts
<1>9. Resolved'
  <2>1. DOMAIN envFile'.cams = 1..composeFile'.cameras
    BY <1>1, <1>3, SetupFacts
  <2>2. \A k \in References(composeFile') : k \in DOMAIN envFile'.vars /\ envFile'.vars[k] # Blank
    BY <1>1, <1>3 DEF References, OtherNames
  <2>3. BrokerNames \cap References(composeFile') # {}
           => \A k \in BrokerNames : envFile'.vars[k] = "setup"
    <3>1. SUFFICES ASSUME setup.mqtt, NEW k \in BrokerNames PROVE envFile'.vars[k] = "setup"
      BY <1>1 DEF References, BrokerNames
    <3>2. k \in DOMAIN Managed(setup) /\ k \in DOMAIN envFile'.vars
      BY <1>3, <3>1, ManagedFacts DEF MQTTNames
    <3> QED
      BY <1>2, <1>3, <3>2, BlankFacts
  <2>4. \A i \in DOMAIN envFile'.cams :
           /\ envFile'.cams[i].host = setup'.cameras[i].host
           /\ envFile'.cams[i].login = TextOf(setup'.cameras[i].login)
    BY <1>1, <1>3, <1>4
  <2> QED
    BY <1>1, <2>1, <2>2, <2>3, <2>4 DEF Resolved, References
<1>10. Written'
  <2>1. /\ envFile'.cams = [i \in DOMAIN setup.cameras |-> merged.cams[i]]
        /\ envFile'.vars = [k \in PlacesFor(setup) |-> ValueOrDefault(merged, k)]
    BY <1>1, WriteFacts
  <2>2. envFile'.cams = URLs(setup)
    BY <1>2, <2>1 DEF URLs
  <2>3. \A k \in PlacesFor(setup) : ValueOrDefault(merged, k) # Blank
    BY BlankFacts DEF ValueOrDefault
  <2>4. \A k \in DOMAIN Managed(setup) :
           k \in PlacesFor(setup) /\ ValueOrDefault(merged, k) = "setup"
    BY <1>2, BlankFacts DEF ValueOrDefault, Managed, PlacesFor, OtherNames, MQTTNames
  <2> QED
    BY <1>1, <2>1, <2>2, <2>3, <2>4 DEF Written
<1> QED
  BY <1>6, <1>7, <1>8, <1>9, <1>10 DEF IInv

\* A setup that ends early promises nothing, except what .env holds while it is whole.
LEMMA AbortStep ==
    ASSUME IInv, Abort
    PROVE  IInv'
<1>1. /\ pc' = "idle" /\ merged' = Empty /\ setup' = NoSetup
      /\ kept' = IF pc = "fillEnv" THEN {} ELSE kept
      /\ UNCHANGED <<composeFile, envFile, edits>>
  BY DEF Abort
<1>2. EnvOf(merged)' /\ IsEnv(merged')
  BY <1>1 DEF EnvOf, Empty, IsEnv
<1>3. EnvOf(envFile)' /\ IsEnv(envFile')
  BY <1>1 DEF IInv, TypeOK, Records, EnvOf, IsEnv
<1>4. TypeOK'
  BY <1>1, <1>2, <1>3 DEF IInv, TypeOK
<1>5. Records'
  BY <1>2, <1>3 DEF Records, IsEnv
<1>6. Fits' /\ Saves' /\ Resolved' /\ EditsKept' /\ Written'
  BY <1>1 DEF IInv, Fits, Saves, Resolved, Whole, EditsKept, Written
<1> QED
  BY <1>4, <1>5, <1>6 DEF IInv

\* An edit changes one name, and what is known of the user's values with it.
LEMMA EditStep ==
    ASSUME IInv, Edit
    PROVE  IInv'
<1>1. /\ pc = "idle" /\ edits < MaxEdits /\ edits' = edits + 1 /\ setup' = NoSetup
      /\ UNCHANGED <<composeFile, pc, merged>>
  BY DEF Edit
<1>2. edits' \in 0..MaxEdits
  <2>1. edits \in 0..MaxEdits /\ MaxEdits \in Nat
    BY SetupsAssumption DEF IInv, TypeOK
  <2> QED
    BY <1>1, <2>1
<1>3. PICK k \in Editable, v \in {"custom", Blank} :
        /\ envFile' = [envFile EXCEPT !.vars = Over([x \in {k} |-> v], @)]
        /\ kept' = IF v = "custom" THEN kept \cup ({k} \cap {"SERVICE_FILE", "MQTT_TOPIC_PREFIX"})
                                   ELSE kept \ {k}
  BY DEF Edit
<1>4. envFile' = [cams |-> envFile.cams, vars |-> Over([x \in {k} |-> v], envFile.vars)]
  BY <1>3 DEF IInv, Records, IsEnv
<1>5. /\ envFile'.cams = envFile.cams
      /\ DOMAIN envFile'.vars = DOMAIN envFile.vars \cup {k}
      /\ envFile'.vars[k] = v
      /\ \A x \in DOMAIN envFile.vars \ {k} : envFile'.vars[x] = envFile.vars[x]
  BY <1>4 DEF Over
<1>6. EnvOf(envFile)' /\ EnvOf(merged)'
  BY <1>1, <1>3, <1>5 DEF IInv, TypeOK, EnvOf
<1>7. kept' \subseteq {"SERVICE_FILE", "MQTT_TOPIC_PREFIX"}
  BY <1>3 DEF IInv, TypeOK
<1>8. TypeOK'
  <2>1. /\ composeFile' \in [cameras : 0..MaxCameras, mqtt : BOOLEAN]
        /\ pc' = "idle" /\ setup' \in Setup \cup {NoSetup}
    BY <1>1 DEF IInv, TypeOK
  <2> QED
    BY <1>2, <1>6, <1>7, <2>1 DEF TypeOK
<1>9. Records'
  BY <1>1, <1>4 DEF IInv, Records, IsEnv
<1>10. EditsKept'
  <2> SUFFICES ASSUME NEW x \in kept'
               PROVE  x \in DOMAIN envFile'.vars /\ envFile'.vars[x] = "custom"
    BY DEF EditsKept
  <2>1. CASE x = k
    BY <1>3, <1>5, <2>1
  <2>2. CASE x # k
    BY <1>1, <1>3, <1>5, <2>2 DEF IInv, EditsKept
  <2> QED
    BY <2>1, <2>2
<1>11. Fits' /\ Saves' /\ Resolved' /\ Written'
  BY <1>1 DEF Fits, Saves, Resolved, Written, Whole
<1> QED
  BY <1>8, <1>9, <1>10, <1>11 DEF IInv

\* Every step of every setup, and every edit between, keeps the invariant.
LEMMA Inductive == IInv /\ [Next]_vars => IInv'
<1> SUFFICES ASSUME IInv, [Next]_vars PROVE IInv'
  OBVIOUS
<1>1. CASE Next
  BY <1>1, BeginStep, ComposeSteps, OpenEnvStep, FillEnvStep, AbortStep, EditStep
     DEF Next, Write
<1>2. CASE UNCHANGED vars
  BY <1>2 DEF vars, IInv, TypeOK, EnvOf, Records, IsEnv, Fits, Saves, Resolved, Whole,
              EditsKept, Written
<1> QED
  BY <1>1, <1>2

-----------------------------------------------------------------------------

\* The invariant behind the others holds in every reachable state.
THEOREM Invariance == Spec => []IInv
BY Initially, Inductive, PTL DEF Spec

\* The files have entries of their kinds, and the one being replaced has none (TypeOK).
THEOREM TypeCorrect == Spec => []TypeOK
<1>1. IInv => TypeOK
  BY DEF IInv
<1> QED
  BY <1>1, Invariance, PTL

\* After a setup that ended without an error the two files fit together, whatever the
\* ones before left (GenerateDistCompose, GenerateEnv).
THEOREM FilesFit == Spec => []Resolved
<1>1. IInv => Resolved
  BY DEF IInv
<1> QED
  BY <1>1, Invariance, PTL

\* What the user set and GenerateEnv preserves outlives every setup that can read it and
\* is not interrupted while it writes, at whatever line other reads broke off.
THEOREM EditsAreKept == Spec => []EditsKept
<1>1. IInv => EditsKept
  BY DEF IInv
<1> QED
  BY <1>1, Invariance, PTL

\* The next setup preselects the addresses configured, and whichever of two cameras
\* behind one address wins, offers the text of a login given there, for every way of
\* escaping (ParseExistingDist, ParseExistingCreds).
THEOREM OffersAreOwn == Spec => []Offered
<1>1. IInv => Offered
  <2> SUFFICES ASSUME IInv, Whole PROVE Offered
    BY DEF Offered
  <2> DEFINE cams == setup.cameras
             at == DOMAIN setup.cameras
  <2>1. /\ cams \in Seq(Confirmed) /\ Range(cams) = {cams[i] : i \in at}
        /\ \A i \in at : cams[i] \in Confirmed
    <3>1. setup \in Setup
      BY DEF IInv, TypeOK, Whole
    <3>2. cams \in Seq(Confirmed)
      BY <3>1, SetupFacts
    <3>3. \A i \in at : cams[i] \in Confirmed
      BY <3>2
    <3> QED
      BY <3>2, <3>3 DEF Range
  <2>2. envFile.cams = URLs(setup)
    BY DEF IInv, Written
  <2>3. DOMAIN envFile.cams = at /\ \A i \in at : envFile.cams[i] = URLOf(cams[i])
    BY <2>2 DEF URLs
  <2>4. \A i \in at : envFile.cams[i] = [host |-> cams[i].host, login |-> TextOf(cams[i].login)]
    BY <2>1, <2>3, URLFacts
  <2>5. ASSUME NEW i \in at
         PROVE  /\ envFile.cams[i].host = cams[i].host
                /\ envFile.cams[i].login = TextOf(cams[i].login)
                /\ envFile.cams[i] = [host |-> envFile.cams[i].host,
                                      login |-> envFile.cams[i].login]
    <3>1. envFile.cams[i] = [host |-> cams[i].host, login |-> TextOf(cams[i].login)]
      BY <2>4
    <3> QED
      BY <3>1
  <2> HIDE DEF cams, at
  <2>6. ConfiguredIPs(envFile) = {setup.cameras[i].host : i \in DOMAIN setup.cameras}
    BY <2>3, <2>5 DEF ConfiguredIPs, cams, at
  <2>7. WithUser(envFile) = {i \in at : cams[i].login.user # Blank}
    BY <2>1, <2>3, <2>4, URLFacts DEF WithUser
  <2>8. \A i \in at : cams[i].login \in GivenAt(cams[i].host)
    <3> SUFFICES ASSUME NEW i \in at PROVE cams[i].login \in GivenAt(cams[i].host)
      OBVIOUS
    <3>1. /\ cams[i] = [host |-> cams[i].host, login |-> cams[i].login]
          /\ cams[i].login \in Login /\ cams[i] \in Range(cams)
      BY <2>1, URLFacts
    <3> QED
      BY <3>1 DEF GivenAt, cams
  <2>9. ASSUME NEW ip, NEW login \in GivenAt(ip)
        PROVE  \E i \in at : cams[i].host = ip /\ cams[i].login = login
    <3>1. [host |-> ip, login |-> login] \in Range(cams)
      BY DEF GivenAt, cams
    <3> QED
      BY <2>1, <3>1
  <2> DEFINE with == WithUser(envFile)
             ips == {envFile.cams[i].host : i \in with}
             texts == {envFile.cams[i].login : i \in with}
  <2>10. ips = {ip \in Host : \E login \in GivenAt(ip) : login.user # Blank}
    <3>1. ASSUME NEW i \in with
          PROVE  /\ envFile.cams[i].host \in Host
                 /\ \E login \in GivenAt(envFile.cams[i].host) : login.user # Blank
      <4>1. i \in at /\ cams[i].login.user # Blank /\ envFile.cams[i].host = cams[i].host
        BY <2>7, <2>5, <3>1
      <4>2. cams[i].host \in Host
        BY <2>1, <4>1, URLFacts
      <4> QED
        BY <2>8, <4>1, <4>2
    <3>2. ASSUME NEW ip \in Host, NEW login \in GivenAt(ip), login.user # Blank PROVE ip \in ips
      <4>1. PICK i \in at : cams[i].host = ip /\ cams[i].login = login
        BY <2>9
      <4>2. i \in with /\ envFile.cams[i].host = ip
        BY <2>7, <2>5, <3>2, <4>1
      <4> QED
        BY <4>2
    <3> HIDE DEF with
    <3> QED
      BY <3>1, <3>2
  <2>11. KnownLogins(envFile) # {}
    <3> DEFINE Of(ip, t) == \E i \in with : envFile.cams[i] = [host |-> ip, login |-> t]
               first == [ip \in ips |-> CHOOSE t \in texts : Of(ip, t)]
    <3>1. \A ip \in ips : \E t \in texts : Of(ip, t)
      <4> SUFFICES ASSUME NEW i \in with
                   PROVE  \E t \in texts :
                             envFile.cams[i] = [host |-> envFile.cams[i].host, login |-> t]
        OBVIOUS
      <4>1. envFile.cams[i] = [host |-> envFile.cams[i].host, login |-> envFile.cams[i].login]
        BY <2>7, <2>5
      <4> QED
        BY <4>1
    <3> HIDE DEF with, ips, texts, Of
    <3>2. \A ip \in ips : first[ip] \in texts /\ Of(ip, first[ip])
      BY <3>1
    <3>3. first \in [ips -> texts] /\ DOMAIN first = ips
      BY <3>2
    <3> HIDE DEF first
    <3>4. first \in KnownLogins(envFile)
      BY <3>2, <3>3 DEF KnownLogins, with, ips, texts, Of
    <3> QED
      BY <3>4
  <2>12. ASSUME NEW known \in KnownLogins(envFile)
         PROVE  /\ DOMAIN known = ips
                /\ \A ip \in DOMAIN known : \E login \in GivenAt(ip) : known[ip] = TextOf(login)
    <3>1. /\ DOMAIN known = ips
          /\ \A ip \in DOMAIN known :
                \E i \in with : envFile.cams[i] = [host |-> ip, login |-> known[ip]]
      BY DEF KnownLogins
    <3>2. ASSUME NEW ip \in DOMAIN known
          PROVE  \E login \in GivenAt(ip) : known[ip] = TextOf(login)
      <4>1. PICK i \in with : envFile.cams[i] = [host |-> ip, login |-> known[ip]]
        BY <3>1
      <4>2. i \in at /\ cams[i].host = ip /\ TextOf(cams[i].login) = known[ip]
        BY <2>7, <2>5, <4>1
      <4> QED
        BY <2>8, <4>2
    <3> QED
      BY <3>1, <3>2
  <2> HIDE DEF ips
  <2> QED
    BY <2>6, <2>10, <2>11, <2>12 DEF Offered
<1> QED
  BY <1>1, Invariance, PTL

\* A setup that is run again with the same answers leaves .env as it is (GenerateEnv,
\* "Re-running setup").
THEOREM RerunChangesNothing == Spec => []Repeatable
<1>1. IInv => Repeatable
  <2> SUFFICES ASSUME IInv, Whole PROVE WriteEnv(Merge(envFile, setup), setup) = envFile
    BY DEF Repeatable
  <2> DEFINE m == Merge(envFile, setup)
             e == WriteEnv(m, setup)
  <2>1. setup \in Setup
    BY DEF IInv, TypeOK, Whole
  <2>2. /\ envFile = [cams |-> envFile.cams, vars |-> envFile.vars]
        /\ envFile.cams = URLs(setup)
        /\ envFile.vars = [k \in PlacesFor(setup) |-> envFile.vars[k]]
        /\ \A k \in PlacesFor(setup) : envFile.vars[k] # Blank
        /\ \A k \in DOMAIN Managed(setup) : envFile.vars[k] = "setup"
    BY DEF IInv, Records, IsEnv, Written
  <2>3. /\ DOMAIN m.vars = DOMAIN Managed(setup) \cup DOMAIN envFile.vars
        /\ \A k \in DOMAIN Managed(setup) : m.vars[k] = "setup"
        /\ \A k \in DOMAIN envFile.vars \ DOMAIN Managed(setup) : m.vars[k] = envFile.vars[k]
    BY <2>1, MergeFacts
  <2>4. e.cams = URLs(setup)
    BY <2>1, DecidedBySetup
  <2>5. IsEnv(e) /\ e.vars = [k \in PlacesFor(setup) |-> ValueOrDefault(m, k)]
    BY WriteFacts
  <2> HIDE DEF m, e
  <2>6. ASSUME NEW k \in PlacesFor(setup) PROVE ValueOrDefault(m, k) = envFile.vars[k]
    <3>1. k \in DOMAIN envFile.vars /\ envFile.vars[k] # Blank
      BY <2>2
    <3>2. k \in DOMAIN m.vars /\ m.vars[k] = envFile.vars[k]
      BY <2>2, <2>3, <3>1
    <3> QED
      BY <3>1, <3>2 DEF ValueOrDefault
  <2>7. e.vars = envFile.vars
    BY <2>2, <2>5, <2>6, Zenon
  <2>8. e = envFile
    BY <2>2, <2>4, <2>5, <2>7 DEF IsEnv
  <2> QED
    BY <2>8 DEF e, m
<1> QED
  BY <1>1, Invariance, PTL

=============================================================================
