------------------------------ MODULE Emitter ------------------------------
(***************************************************************************)
(* The event pipeline: one FFmpeg per camera (chopper/entrypoint.sh)       *)
(* writes segments and snapshots named after the second they start in, the *)
(* emitter (emitter/src) watches the directories, hands each new file to a *)
(* handler that names it and, for a snapshot, its parent segment, and      *)
(* publishes the event through the bounded queue of the MQTT client.       *)
(*                                                                         *)
(* FFmpeg, the file watcher and the MQTT client are other people's code:   *)
(* they are modelled from how this code uses them.  The client sends in    *)
(* order, keeps what the broker has not acknowledged, and sends it again   *)
(* after a reconnection.                                                   *)
(***************************************************************************)
EXTENDS Integers, Sequences, FiniteSets, SequencesExt

CONSTANTS
    Camera,
    HlsTime,      \* segment_duration: the length the handler assumes of a segment
    QueueSize,    \* the capacity of the client's request queue, 64 in the code
    MaxInflight,  \* how many unacknowledged messages the client keeps
    MaxTime, MaxFiles, MaxDrops, MaxCrashes   \* bounds on the environment

ASSUME EmitterAssumption ==
    /\ HlsTime \in Nat \ {0}
    /\ QueueSize \in Nat \ {0} /\ MaxInflight \in Nat \ {0}
    /\ MaxTime \in Nat /\ HlsTime <= MaxTime + 1
    /\ MaxDrops \in Nat /\ MaxCrashes \in Nat

VARIABLES
    clock,      \* the Unix time in seconds
    segmentOf,  \* per camera: when the segment being written began, or Stopped
    files,      \* the files created so far
    up,         \* the emitter runs
    events,     \* the channel from the watcher to the main loop
    queue,      \* the request queue of the MQTT client
    unacked,    \* what the client has sent and the broker has not acknowledged
    arrived,    \* how many of unacked the broker has on this connection
    linkUp,
    received,   \* everything the broker ever received, repetitions included
    noticed,    \* history: the files noticed and not lost in a crash
    drops, crashes

chopper == <<clock, segmentOf, files>>
client == <<queue, unacked, arrived>>
vars == <<clock, segmentOf, files, up, events, queue, unacked, arrived, linkUp,
          received, noticed, drops, crashes>>

Stopped == -1

File == [camera : Camera, kind : {"segment", "snapshot", "playlist"}, epoch : 0..MaxTime]

Init ==
    /\ clock \in 0..HlsTime - 1
    /\ segmentOf = [c \in Camera |-> Stopped]
    /\ files = {}
    /\ up = TRUE
    /\ events = <<>> /\ queue = <<>> /\ unacked = <<>> /\ arrived = 0
    /\ linkUp = FALSE
    /\ received = <<>> /\ noticed = <<>>
    /\ drops = 0 /\ crashes = 0

-----------------------------------------------------------------------------
(* The event of a file. *)

SegmentEvent(f) ==
    [topic |-> <<f.camera, "segment">>, epoch |-> f.epoch,
     segment |-> [camera |-> f.camera, kind |-> "segment", epoch |-> f.epoch]]

SnapshotEventRoundsUp(f) ==               \* mutant: rounds up to the next boundary
    LET begin == (f.epoch - (f.epoch % HlsTime)) + HlsTime
    IN  [topic |-> <<f.camera, "snapshot">>, epoch |-> f.epoch,
         segment |-> [camera |-> f.camera, kind |-> "segment", epoch |-> begin]]

\* The parent segment is computed, never looked for.
SnapshotEvent(f) ==
    LET begin == f.epoch - (f.epoch % HlsTime)
    IN  [topic |-> <<f.camera, "snapshot">>, epoch |-> f.epoch,
         segment |-> [camera |-> f.camera, kind |-> "segment", epoch |-> begin]]

EventOf(f) == IF f.kind = "segment" THEN SegmentEvent(f) ELSE SnapshotEvent(f)

Announces(f) == f.kind \in {"segment", "snapshot"}

-----------------------------------------------------------------------------
(* The choppers, and the watcher that sees a file when it is created. *)

Create(f) ==
    /\ f \notin files
    /\ files' = files \cup {f}
    /\ events' = IF up THEN Append(events, f) ELSE events
    /\ noticed' = IF up /\ Announces(f) THEN Append(noticed, f) ELSE noticed
    /\ UNCHANGED <<clock, up, client, linkUp, received, drops, crashes>>

File1(c, k) == [camera |-> c, kind |-> k, epoch |-> clock]

\* The stream is not re-encoded: a segment ends at the first key frame after the
\* segment time, and the first one begins whenever FFmpeg does.
NewSegment(c) ==
    /\ segmentOf[c] = Stopped \/ clock >= segmentOf[c] + HlsTime
    /\ segmentOf' = [segmentOf EXCEPT ![c] = clock]
    /\ Create(File1(c, "segment"))

NewSnapshot(c) ==
    /\ segmentOf[c] # Stopped
    /\ Create(File1(c, "snapshot"))
    /\ UNCHANGED segmentOf

\* The playlist appears with the end of the first segment.
NewPlaylist(c) ==
    /\ segmentOf[c] # Stopped /\ clock > segmentOf[c]
    /\ Create([camera |-> c, kind |-> "playlist", epoch |-> 0])
    /\ UNCHANGED segmentOf

ChopperStops(c) ==
    /\ segmentOf[c] # Stopped
    /\ segmentOf' = [segmentOf EXCEPT ![c] = Stopped]
    /\ UNCHANGED <<clock, files, up, events, client, linkUp, received, noticed, drops, crashes>>

Tick ==
    /\ clock < MaxTime
    /\ clock' = clock + 1
    /\ UNCHANGED <<segmentOf, files, up, events, client, linkUp, received, noticed,
                   drops, crashes>>

Chop ==
    \/ Tick
    \/ \E c \in Camera : ChopperStops(c)
    \/ /\ Cardinality(files) < MaxFiles
       /\ \E c \in Camera : NewSegment(c) \/ NewSnapshot(c) \/ NewPlaylist(c)

-----------------------------------------------------------------------------
(* The emitter's two threads: the main loop and the MQTT connection. *)

PublishOverfull ==                        \* mutant: the queue takes one event too many
    /\ up /\ events # <<>> /\ Announces(Head(events)) /\ Len(queue) <= QueueSize
    /\ events' = Tail(events)
    /\ queue' = Append(queue, EventOf(Head(events)))
    /\ UNCHANGED <<chopper, up, unacked, arrived, linkUp, received, noticed, drops, crashes>>

PublishNewest ==                          \* mutant: the newest event first
    /\ up /\ events # <<>> /\ Announces(Last(events)) /\ Len(queue) < QueueSize
    /\ events' = Front(events)
    /\ queue' = Append(queue, EventOf(Last(events)))
    /\ UNCHANGED <<chopper, up, unacked, arrived, linkUp, received, noticed, drops, crashes>>

PublishWhenFullDrops ==                   \* mutant: a full queue refuses the event
    /\ up /\ events # <<>> /\ Announces(Head(events))
    /\ events' = Tail(events)
    /\ queue' = IF Len(queue) < QueueSize THEN Append(queue, EventOf(Head(events))) ELSE queue
    /\ UNCHANGED <<chopper, up, unacked, arrived, linkUp, received, noticed, drops, crashes>>

\* The loop waits in publish until the queue has room.
Publish ==
    /\ up /\ events # <<>> /\ Announces(Head(events)) /\ Len(queue) < QueueSize
    /\ events' = Tail(events)
    /\ queue' = Append(queue, EventOf(Head(events)))
    /\ UNCHANGED <<chopper, up, unacked, arrived, linkUp, received, noticed, drops, crashes>>

\* Files with another extension are passed over.
Skip ==
    /\ up /\ events # <<>> /\ ~Announces(Head(events))
    /\ events' = Tail(events)
    /\ UNCHANGED <<chopper, up, client, linkUp, received, noticed, drops, crashes>>

Send ==
    /\ up /\ linkUp /\ queue # <<>> /\ Len(unacked) < MaxInflight
    /\ queue' = Tail(queue)
    /\ unacked' = Append(unacked, Head(queue))
    /\ UNCHANGED <<chopper, up, events, arrived, linkUp, received, noticed, drops, crashes>>

Arrive ==
    /\ linkUp /\ arrived < Len(unacked)
    /\ arrived' = arrived + 1
    /\ received' = Append(received, unacked[arrived + 1])
    /\ UNCHANGED <<chopper, up, events, queue, unacked, linkUp, noticed, drops, crashes>>

Ack ==
    /\ linkUp /\ arrived > 0
    /\ unacked' = Tail(unacked)
    /\ arrived' = arrived - 1
    /\ UNCHANGED <<chopper, up, events, queue, linkUp, received, noticed, drops, crashes>>

\* The connection breaks: everything that is not acknowledged will be sent again.
Drop ==
    /\ linkUp /\ drops < MaxDrops
    /\ linkUp' = FALSE
    /\ drops' = drops + 1
    /\ arrived' = 0
    /\ UNCHANGED <<chopper, up, events, queue, unacked, received, noticed, crashes>>

ConnectOnce ==                            \* mutant: the thread ends on the first error
    /\ up /\ ~linkUp /\ drops = 0
    /\ linkUp' = TRUE
    /\ UNCHANGED <<chopper, up, events, client, received, noticed, drops, crashes>>

\* The connection thread logs an error and polls on, which connects again.
Connect ==
    /\ up /\ ~linkUp
    /\ linkUp' = TRUE
    /\ UNCHANGED <<chopper, up, events, client, received, noticed, drops, crashes>>

FileOf(m) == [camera |-> m.topic[1], kind |-> m.topic[2], epoch |-> m.epoch]

\* The files of which the broker has heard.
Heard == {FileOf(received[i]) : i \in DOMAIN received}

\* The emitter ends, a panic or its container's end: what it had not announced is
\* forgotten, for it looks only at files created while it watches.
Crash ==
    /\ up /\ crashes < MaxCrashes
    /\ crashes' = crashes + 1
    /\ up' = FALSE /\ linkUp' = FALSE
    /\ events' = <<>> /\ queue' = <<>> /\ unacked' = <<>> /\ arrived' = 0
    /\ noticed' = SubSeq(noticed, 1, Cardinality(Heard))
    /\ UNCHANGED <<chopper, received, drops>>

Restart ==
    /\ ~up
    /\ up' = TRUE
    /\ UNCHANGED <<chopper, events, client, linkUp, received, noticed, drops, crashes>>

Emit == Publish \/ Skip

Connection == Send \/ Arrive \/ Ack \/ Connect

Environment == Chop \/ Drop \/ Crash \/ Restart

Next == Emit \/ Connection \/ Environment

Spec == Init /\ [][Next]_vars

\* The threads of the emitter are scheduled, and the broker is there in the end:
\* the connection is made again and breaks only finitely often.
FairSpec ==
    /\ Spec
    /\ WF_vars(Emit)
    /\ WF_vars(Send) /\ WF_vars(Arrive) /\ WF_vars(Ack) /\ WF_vars(Connect)

-----------------------------------------------------------------------------
(* Properties. *)

\* The queue stays within its capacity, the connection within its window.
TypeOK ==
    /\ clock \in 0..MaxTime
    /\ segmentOf \in [Camera -> {Stopped} \cup 0..MaxTime]
    /\ files \subseteq File
    /\ \A i \in DOMAIN events : events[i] \in files
    /\ Len(queue) <= QueueSize
    /\ Len(unacked) <= MaxInflight
    /\ arrived \in 0..Len(unacked)
    /\ up \in BOOLEAN /\ linkUp \in BOOLEAN
    /\ drops \in 0..MaxDrops /\ crashes \in 0..MaxCrashes

\* Subscribers are told of files that exist, under the topic of their own camera; a
\* snapshot is assigned to the segment time it falls in, of the same camera.
Truthful ==
    \A i \in DOMAIN received :
        LET m == received[i]
        IN  /\ FileOf(m) \in files
            /\ m.segment.camera = m.topic[1]
            /\ m.segment.epoch % HlsTime = 0 \/ m.segment = FileOf(m)
            /\ m.epoch - m.segment.epoch \in 0..HlsTime - 1

\* Whatever file the emitter noticed is announced or on its way: in the channel, in
\* the queue, or with the client until the broker has acknowledged it.
NothingDropped ==
    \A k \in DOMAIN noticed :
        \/ noticed[k] \in Heard
        \/ noticed[k] \in ToSet(events)
        \/ noticed[k] \in {FileOf(m) : m \in ToSet(queue) \cup ToSet(unacked)}

\* The pipeline keeps the promise of EventFeed: through a full queue, lost connections
\* and repetitions, a subscriber that hears of a file has heard of every file the
\* emitter noticed before it, in the order of their creation.
FirstHeard ==
    LET told[n \in 0..Len(received)] ==
            IF n = 0 THEN <<>>
            ELSE IF FileOf(received[n]) \in ToSet(told[n - 1]) THEN told[n - 1]
            ELSE Append(told[n - 1], FileOf(received[n]))
    IN  told[Len(received)]
Feed == INSTANCE EventFeed WITH announced <- FirstHeard
IsFeed == Feed!Spec

\* A file that is noticed is announced, or the emitter crashes.
AllAnnounced ==
    \A n \in 1..MaxFiles :
        Len(noticed) >= n /\ up ~> Cardinality(Heard) >= n \/ ~up

\* The parent segment a snapshot event names is a segment that exists.
SnapshotHasSegment ==
    \A i \in DOMAIN received :
        received[i].topic[2] = "snapshot" => received[i].segment \in files

=============================================================================
