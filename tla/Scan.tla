------------------------------- MODULE Scan --------------------------------
(***************************************************************************)
(* WS-Discovery (tui/onvif/discover.go): Discover sends a probe on every   *)
(* IPv4 address of the host, one after the other, and collects answers     *)
(* until each socket's deadline; ProbeAddress sends one probe to one       *)
(* address.  A camera is told by its XAddr, from which its host and port   *)
(* are taken; the name, which comes from its scopes, is left out.          *)
(***************************************************************************)
EXTENDS Integers, Sequences, SequencesExt, Sublists

CONSTANTS
    XAddr,      \* the service addresses on the network
    MaxLocal,   \* bound on the IPv4 addresses of the host
    MaxHeard    \* bound on the cameras heard through one socket

ASSUME ScanAssumption == MaxLocal \in Nat /\ MaxHeard \in Nat

VARIABLES
    scan,      \* "off", "sending", "reading" or "answered"
    single,    \* ProbeAddress, and not Discover
    left,      \* the local addresses still to be tried, this one included
    found,     \* the cameras heard through this socket
    cameras,   \* those collected
    lastErr,   \* there was an error
    heard      \* history: the XAddrs heard through sockets read to the deadline

scanVars == <<scan, single, left, found, cameras, lastErr, heard>>

\* How many usable addresses the host may have.
LocalIPs == 0..MaxLocal

ScanTypeOK ==
    /\ scan \in {"off", "sending", "reading", "answered"}
    /\ {single, lastErr} \subseteq BOOLEAN /\ left \in LocalIPs \cup {0, 1}
    /\ found \in Seq(XAddr) /\ cameras \in Seq(XAddr) /\ heard \subseteq XAddr
    /\ scan = "reading" /\ ~single => left > 0
    /\ scan = "answered" => found = <<>> /\ (lastErr /\ ~single => cameras = <<>>)

ScanOff ==
    /\ scan = "off" /\ single = FALSE /\ left = 0
    /\ found = <<>> /\ cameras = <<>> /\ lastErr = FALSE /\ heard = {}

\* Discover has asked for the addresses of the host, or ProbeAddress has been given
\* one.  No address is an error, and the error of an address that cannot be resolved.
ScanInit ==
    /\ single \in BOOLEAN
    /\ left \in IF single THEN 0..1 ELSE LocalIPs
    /\ scan = IF left = 0 THEN "answered" ELSE "sending"
    /\ lastErr = (left = 0)
    /\ found = <<>> /\ cameras = <<>> /\ heard = {}

-----------------------------------------------------------------------------

\* Discover goes on with the next address.  At the end an error only counts when no
\* camera was found.  cams and failed are what there is by now.
GoOn(cams, failed) ==
    /\ found' = <<>>
    /\ left' = left - 1
    /\ scan' = IF left = 1 THEN "answered" ELSE "sending"
    /\ cameras' = cams
    /\ lastErr' = IF left = 1 /\ ~single THEN failed /\ cams = <<>> ELSE failed

\* No socket, no deadline, or the probe cannot be sent.
SendFails ==
    /\ scan = "sending"
    /\ GoOn(cameras, TRUE)
    /\ UNCHANGED <<single, heard>>

SendProbe ==
    /\ scan = "sending"
    /\ scan' = "reading"
    /\ UNCHANGED <<single, left, found, cameras, lastErr, heard>>

\* A datagram: the addresses of its matches, without those that cannot be parsed and
\* the IPv6 ones.  One that is no probe match has none.
Unusable == "unusable"

Datagrams == UNION {[1..n -> XAddr \cup {Unusable}] : n \in 0..2}

ParseProbeMatch(datagram) == Kept(datagram, XAddr)

ReadDatagram(datagram) ==
    /\ scan = "reading"
    /\ found' = found \o ParseProbeMatch(datagram)
    /\ Len(found') <= MaxHeard
    /\ UNCHANGED <<scan, single, left, cameras, lastErr, heard>>

\* The cameras heard at the positions given, after those there are.
Adding(cams, positions) ==
    LET kept == Kept([k \in DOMAIN found |-> k], positions)
    IN  cams \o [i \in DOMAIN kept |-> found[kept[i]]]

FirstHeard == {k \in DOMAIN found : \A j \in 1..k - 1 : found[j] # found[k]}

MergeSeenPerSocket(cams) ==               \* mutant: seen is made anew for every socket
    Adding(cams, FirstHeard)

\* Each XAddr once, as it came first.
Merge(cams) == Adding(cams, {k \in FirstHeard : ~Contains(cams, found[k])})

\* The deadline ends the reading; ProbeAddress answers with what it read.
Deadline ==
    /\ scan = "reading"
    /\ GoOn(IF single THEN found ELSE Merge(cameras), lastErr)
    /\ heard' = heard \cup ToSet(found)
    /\ UNCHANGED single

\* Any other error: Discover throws away what it heard through this socket, and
\* ProbeAddress answers with it beside the error.
ReadFails ==
    /\ scan = "reading"
    /\ GoOn(IF single THEN found ELSE cameras, TRUE)
    /\ UNCHANGED <<single, heard>>

ScanNext ==
    \/ SendFails \/ SendProbe \/ Deadline \/ ReadFails
    \/ \E datagram \in Datagrams : ReadDatagram(datagram)

-----------------------------------------------------------------------------
(* Properties. *)

\* When Discover answers, it has every address heard through a socket that was read to
\* its deadline, each once, whatever failed on the other sockets, in a datagram or in
\* an address beside it; and it answers with an error only if there is none.
Collected ==
    scan = "answered" /\ ~single =>
        /\ IsInjective(cameras)
        /\ ToSet(cameras) = heard
        /\ lastErr => heard = {}

=============================================================================
