----------------------------- MODULE MQTTStep ------------------------------
(***************************************************************************)
(* The MQTT step of the setup wizard (tui/steps/mqtt.go): the user has the *)
(* network scanned for brokers and picks one, types an address, or skips   *)
(* MQTT.  Positions are 1-based.  A text field is its value and takes keys *)
(* only while it has the focus; setting a value does not move the focus.   *)
(***************************************************************************)
EXTENDS Integers, Sequences

CONSTANTS
    Host,        \* broker addresses, without the empty one
    Port,        \* ports a user may type, without the empty one
    MaxBrokers   \* bound on the brokers one scan finds

Blank == ""
Localhost == "localhost"   \* the host's own address when it has no other
DefaultPort == "1883"

NoMQTT == [enabled |-> FALSE, host |-> Blank, port |-> Blank]
Broker(h, p) == [enabled |-> TRUE, host |-> h, port |-> p]

VARIABLES
    state,     \* "menu", "scanning", "select", "manual", "done" or "skipped"
    hosts,     \* what the last successful scan found
    cursor,
    config,
    hostInput,
    portInput,
    field,     \* "host" or "port"
    focused,   \* the fields that have the focus
    err,
    done,
    hostIP,    \* the host's own address, whose subnet is scanned
    scans      \* how many scan commands have not answered

vars == <<state, hosts, cursor, config, hostInput, portInput, field, focused,
          err, done, hostIP, scans>>

\* Every address is dialled once; the order is the one in which they answer.
HostLists ==
    {l \in UNION {[1..n -> Host] : n \in 1..MaxBrokers} :
        \A i, j \in DOMAIN l : l[i] = l[j] => i = j}

TypeOK ==
    /\ state \in {"menu", "scanning", "select", "manual", "done", "skipped"}
    /\ hosts \in HostLists \cup {<<>>}
    /\ cursor \in Nat
    /\ config \in {NoMQTT} \cup {Broker(h, p) : h \in Host, p \in Port \cup {DefaultPort}}
    /\ hostInput \in Host \cup {Blank} /\ portInput \in Port \cup {Blank}
    /\ field \in {"host", "port"} /\ focused \in SUBSET {"host", "port"}
    /\ err \in BOOLEAN /\ done \in BOOLEAN /\ scans \in Nat

\* The step before the root model has given it the host's address.
Init ==
    /\ state = "menu"
    /\ hosts = <<>>
    /\ cursor = 1
    /\ config = NoMQTT
    /\ hostInput = Blank
    /\ portInput = Blank
    /\ field = "host"
    /\ focused = {}
    /\ err = FALSE
    /\ done = FALSE
    /\ scans = 0

fields == <<hostInput, portInput, field, focused>>

-----------------------------------------------------------------------------

ScanFails ==
    /\ scans > 0
    /\ scans' = scans - 1
    /\ state' = "menu"
    /\ err' = TRUE
    /\ UNCHANGED <<hosts, cursor, config, fields, done, hostIP>>

ScanFindsKeepsCursor ==                   \* mutant: the cursor of the last list stays
    /\ scans > 0 /\ hostIP # Localhost
    /\ scans' = scans - 1
    /\ hosts' \in HostLists
    /\ state' = "select"
    /\ UNCHANGED <<cursor, config, fields, err, done, hostIP>>

\* A scan that finds nothing answers with an error, so the list is not empty; there
\* is no subnet to scan without an address.
ScanFinds ==
    /\ scans > 0 /\ hostIP # Localhost
    /\ scans' = scans - 1
    /\ hosts' \in HostLists
    /\ cursor' = 1
    /\ state' = "select"
    /\ UNCHANGED <<config, fields, err, done, hostIP>>

KeyUp ==
    /\ state = "select" /\ cursor > 1
    /\ cursor' = cursor - 1
    /\ UNCHANGED <<state, hosts, config, fields, err, done, scans, hostIP>>

KeyDown ==
    /\ state = "select" /\ cursor < Len(hosts)
    /\ cursor' = cursor + 1
    /\ UNCHANGED <<state, hosts, config, fields, err, done, scans, hostIP>>

KeySelect ==
    /\ state = "select"
    /\ config' = Broker(hosts[cursor], DefaultPort)
    /\ state' = "done"
    /\ done' = TRUE
    /\ UNCHANGED <<hosts, cursor, fields, err, scans, hostIP>>

KeySelectEsc ==
    /\ state = "select"
    /\ state' = "menu"
    /\ UNCHANGED <<hosts, cursor, config, fields, err, done, scans, hostIP>>

KeyScan ==
    /\ state = "menu"
    /\ state' = "scanning"
    /\ err' = FALSE
    /\ scans' = scans + 1
    /\ UNCHANGED <<hosts, cursor, config, fields, done, hostIP>>

KeyManual ==
    /\ state = "menu"
    /\ state' = "manual"
    /\ focused' = focused \cup {"host"}
    /\ UNCHANGED <<hosts, cursor, config, hostInput, portInput, field, err, done, scans, hostIP>>

KeySkip ==
    /\ state = "menu"
    /\ config' = NoMQTT
    /\ state' = "skipped"
    /\ done' = TRUE
    /\ UNCHANGED <<hosts, cursor, fields, err, scans, hostIP>>

KeyTab ==
    /\ state = "manual"
    /\ field' = IF field = "host" THEN "port" ELSE "host"
    /\ focused' = (focused \ {field}) \cup {field'}
    /\ UNCHANGED <<state, hosts, cursor, config, hostInput, portInput, err, done, scans, hostIP>>

KeyType ==
    /\ state = "manual" /\ field \in focused
    /\ IF field = "host" THEN hostInput' \in Host \cup {Blank} /\ UNCHANGED portInput
                         ELSE portInput' \in Port \cup {Blank} /\ UNCHANGED hostInput
    /\ UNCHANGED <<state, hosts, cursor, config, field, focused, err, done, scans, hostIP>>

\* An empty address is ignored, an empty port is the default one.
KeyEnter ==
    /\ state = "manual" /\ hostInput # Blank
    /\ config' = Broker(hostInput, IF portInput = Blank THEN DefaultPort ELSE portInput)
    /\ state' = "done"
    /\ done' = TRUE
    /\ UNCHANGED <<hosts, cursor, fields, err, scans, hostIP>>

\* The way back empties the fields; the focus stays where it is.
KeyEsc ==
    /\ state = "manual"
    /\ state' = "menu"
    /\ hostInput' = Blank
    /\ portInput' = Blank
    /\ field' = "host"
    /\ UNCHANGED <<hosts, cursor, config, focused, err, done, scans, hostIP>>

Answer == ScanFails \/ ScanFinds

Key == KeyUp \/ KeyDown \/ KeySelect \/ KeySelectEsc \/ KeyScan \/ KeyManual
       \/ KeySkip \/ KeyTab \/ KeyType \/ KeyEnter \/ KeyEsc

Step == Answer \/ Key

-----------------------------------------------------------------------------

\* Update indexes the brokers found with the cursor without looking; scans may be
\* repeated and find fewer.
PickSafe == state = "select" => cursor \in DOMAIN hosts

\* The field that is edited takes keys, whatever way led to the entry.
EntryUsable == state = "manual" => field \in focused

\* Exactly one scan is at work when the step says it scans, and none otherwise.
ScanExact == scans = IF state = "scanning" THEN 1 ELSE 0

=============================================================================
