------------------------------ MODULE EnvFile ------------------------------
(***************************************************************************)
(* The .env file (tui/compose/envfile.go): what a setup makes of the one   *)
(* it finds, and what a later setup reads from it.  A file is its entries: *)
(* the cameras' addresses by number (CAM<i>_RTSP_URL), everything else by  *)
(* name.  A value is who it comes from.                                    *)
(***************************************************************************)
EXTENDS Integers, Sequences, Functions

CONSTANTS
    Host,     \* addresses in stream URIs
    Word,     \* what a user types for a name or a password
    Login,    \* user names with their passwords, as typed
    Escape,   \* what url.UserPassword writes for a word
    Line      \* the line of each name in the file, after the cameras'

Blank == ""

ASSUME EnvFileAssumption ==
    /\ Login \subseteq [user : Word, password : Word]
    /\ DOMAIN Escape = Word
    /\ \A w \in Word : Escape[w] = Blank <=> w = Blank

\* No file, or one without entries: both are read as nothing.
Empty == [cams |-> <<>>, vars |-> <<>>]

BrokerNames == {"MQTT_HOST", "MQTT_PORT"}
MQTTNames == BrokerNames \cup {"MQTT_TOPIC_PREFIX"}
OtherNames == {"HLS_BASE_URL", "GHCR_REPO", "TAG", "SERVICE_FILE"}

\* A setup is the list of cameras, each by the address in its stream URI, which need not
\* be the one it was found at, with its login; and whether there is a broker.
Confirmed == [host : Host, login : Login]

TextOf(login) == [user |-> Escape[login.user], password |-> Escape[login.password]]

\* The URI keeps its host and gets the login, with escapes.
URLOf(c) == [host |-> c.host, login |-> TextOf(c.login)]

URLs(s) == [i \in DOMAIN s.cameras |-> URLOf(s.cameras[i])]

Managed(s) ==
    [k \in (OtherNames \ {"SERVICE_FILE"}) \cup (IF s.mqtt THEN BrokerNames ELSE {})
        |-> "setup"]

\* One map copied over another, key by key.
Over(new, old) ==
    [k \in DOMAIN new \cup DOMAIN old |-> IF k \in DOMAIN new THEN new[k] ELSE old[k]]

MergeKeepsOld(old, s) ==                  \* mutant: the old value wins
    LET cams == Over(old.cams, URLs(s))
    IN  [cams |-> [i \in DOMAIN URLs(s) |-> cams[i]],
         vars |-> Over(old.vars, Managed(s))]

\* What is managed overrides what is there; cameras no longer configured are removed.
Merge(old, s) ==
    LET cams == Over(URLs(s), old.cams)
    IN  [cams |-> [i \in DOMAIN URLs(s) |-> cams[i]],
         vars |-> Over(Managed(s), old.vars)]

ValueOrDefault(env, k) ==
    IF k \in DOMAIN env.vars /\ env.vars[k] # Blank THEN env.vars[k] ELSE "default"

\* Only the names the file has a place for are written, MQTT's only with a broker.
\* (GHCR_REPO and TAG have no default, and are always managed.)
WriteEnv(env, s) ==
    [cams |-> [i \in DOMAIN s.cameras |-> env.cams[i]],
     vars |-> [k \in OtherNames \cup (IF s.mqtt THEN MQTTNames ELSE {})
                  |-> ValueOrDefault(env, k)]]

-----------------------------------------------------------------------------
(* What a later setup reads. *)

\* A file that cannot be opened is read as nothing, and one that cannot be read to its
\* end as the lines before.
Readings(env) ==
    {[cams |-> SubSeq(env.cams, 1, n), vars |-> <<>>] : n \in 0..Len(env.cams)}
        \cup {[env EXCEPT !.vars = Restrict(@, {k \in DOMAIN @ : Line[k] <= n})] :
                  n \in {Line[k] : k \in DOMAIN env.vars}}

\* The cameras to preselect.
ConfiguredIPs(env) == {env.cams[i].host : i \in DOMAIN env.cams}

\* The entries with a user.
WithUser(env) == {i \in DOMAIN env.cams : env.cams[i].login.user # Blank}

KnownFirst(env) ==                        \* mutant: the first entry's login for all
    {[ip \in {env.cams[i].host : i \in WithUser(env)} |-> env.cams[1].login]}

\* The logins to offer, by address, as the text before the @ stands.  Of two cameras at
\* one address either's may be the one that is kept.
KnownLogins(env) ==
    {known \in [{env.cams[i].host : i \in WithUser(env)}
                    -> {env.cams[i].login : i \in WithUser(env)}] :
        \A ip \in DOMAIN known :
            \E i \in WithUser(env) : env.cams[i] = [host |-> ip, login |-> known[ip]]}

=============================================================================
