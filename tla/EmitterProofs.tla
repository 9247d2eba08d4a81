--------------------------- MODULE EmitterProofs ---------------------------
(***************************************************************************)
(* What subscribers are told, for any cameras, queue and window, any       *)
(* length of segments, and however often the connection and the emitter    *)
(* fail: Truthful, NothingDropped and the order EventFeed promises.        *)
(*                                                                         *)
(* An event is made once and then handed on, from the queue to the client  *)
(* and to the broker, and again after a reconnection: it stays the event   *)
(* of a file that exists, for files are never removed.                     *)
(*                                                                         *)
(* NothingDropped and the promise of EventFeed need the order too: that    *)
(* channel, queue and unacknowledged messages continue one another in the  *)
(* list of noticed files.                                                  *)
(***************************************************************************)
EXTENDS Emitter, SequenceTheorems, FiniteSetTheorems, ListFacts, TLAPS

Announceable == {f \in files : Announces(f)}

Told == {EventOf(f) : f \in Announceable}

Carried ==
    /\ events \in Seq(files)
    /\ queue \in Seq(Told) /\ unacked \in Seq(Told) /\ received \in Seq(Told)

IInv == TypeOK /\ Carried

USE DEF chopper, client

-----------------------------------------------------------------------------
(* The handlers' arithmetic. *)

\* Rounding down to a multiple loses less than one.
LEMMA RoundDown ==
    ASSUME NEW e \in Nat, NEW n \in Nat \ {0}
    PROVE  /\ (e - (e % n)) % n = 0
           /\ e - (e - (e % n)) \in 0..n - 1
<1>1. e = n * (e \div n) + (e % n) /\ e \div n \in Nat
  OBVIOUS
<1>2. (n * (e \div n)) % n = 0
  BY <1>1
<1>3. e - (e % n) = n * (e \div n)
  BY <1>1
<1>4. e % n \in 0..n - 1
  OBVIOUS
<1>5. e - (e - (e % n)) = e % n
  BY <1>4
<1> QED
  BY <1>2, <1>3, <1>4, <1>5

\* An event names its file, under its own camera's topic, and, with a snapshot, the
\* boundary before it.
LEMMA EventFacts ==
    ASSUME NEW f \in File, Announces(f)
    PROVE  LET m == EventOf(f)
           IN  /\ FileOf(m) = f
               /\ m.segment.camera = m.topic[1]
               /\ m.segment.epoch % HlsTime = 0 \/ m.segment = FileOf(m)
               /\ m.epoch - m.segment.epoch \in 0..HlsTime - 1
<1> DEFINE m == EventOf(f)
<1>1. f.epoch \in Nat /\ HlsTime \in Nat \ {0}
  BY EmitterAssumption DEF File
<1>2. f = [camera |-> f.camera, kind |-> f.kind, epoch |-> f.epoch]
  BY DEF File
<1>3. CASE f.kind = "segment"
  <2>1. /\ m.topic = <<f.camera, "segment">> /\ m.epoch = f.epoch
        /\ m.segment = [camera |-> f.camera, kind |-> "segment", epoch |-> f.epoch]
    BY <1>3 DEF EventOf, SegmentEvent
  <2>2. FileOf(m) = f /\ m.segment = f
    BY <1>2, <1>3, <2>1 DEF FileOf
  <2>3. m.epoch - m.segment.epoch = 0
    BY <1>1, <2>1
  <2>4. 0 \in 0..HlsTime - 1
    BY <1>1
  <2> HIDE DEF m
  <2> QED
    BY <2>1, <2>2, <2>3, <2>4 DEF m
<1>4. CASE f.kind = "snapshot"
  <2>1. /\ m.topic = <<f.camera, "snapshot">> /\ m.epoch = f.epoch
        /\ m.segment = [camera |-> f.camera, kind |-> "segment",
                        epoch |-> f.epoch - (f.epoch % HlsTime)]
    BY <1>4 DEF EventOf, SnapshotEvent
  <2>2. FileOf(m) = f
    BY <1>2, <1>4, <2>1 DEF FileOf
  <2>3. /\ (f.epoch - (f.epoch % HlsTime)) % HlsTime = 0
        /\ f.epoch - (f.epoch - (f.epoch % HlsTime)) \in 0..HlsTime - 1
    BY <1>1, RoundDown
  <2> HIDE DEF m
  <2> QED
    BY <2>1, <2>2, <2>3 DEF m
<1> QED
  BY <1>3, <1>4 DEF Announces

-----------------------------------------------------------------------------
(* The pipeline. *)

\* Every sequence is handed on whole, from its front to the next one's end.
LEMMA HandOn ==
    ASSUME NEW S, NEW s \in Seq(S)
    PROVE  /\ Len(s) \in Nat /\ \A i \in 1..Len(s) : s[i] \in S
           /\ \A e \in S : Append(s, e) \in Seq(S) /\ Len(Append(s, e)) = Len(s) + 1
           /\ s # <<>> => /\ Head(s) \in S /\ Tail(s) \in Seq(S)
                          /\ Len(Tail(s)) = Len(s) - 1 /\ Len(s) > 0
<1>1. Len(s) \in Nat /\ \A i \in 1..Len(s) : s[i] \in S
  OBVIOUS
<1>2. ASSUME NEW e \in S PROVE Append(s, e) \in Seq(S) /\ Len(Append(s, e)) = Len(s) + 1
  OBVIOUS
<1>3. ASSUME s # <<>>
      PROVE  /\ Head(s) \in S /\ Tail(s) \in Seq(S)
             /\ Len(Tail(s)) = Len(s) - 1 /\ Len(s) > 0
  <2>1. Head(s) \in S /\ Tail(s) \in Seq(S) /\ Len(Tail(s)) = Len(s) - 1
    BY <1>3, HeadTailProperties
  <2>2. Len(s) > 0
    BY <1>1, <1>3, EmptySeq
  <2> QED
    BY <2>1, <2>2
<1> QED
  BY <1>1, <1>2, <1>3

\* Nothing is there to begin with.
LEMMA Initially == Init => IInv
<1> SUFFICES ASSUME Init PROVE IInv
  OBVIOUS
<1>1. clock \in 0..MaxTime
  BY EmitterAssumption DEF Init
<1>2. segmentOf \in [Camera -> {Stopped} \cup 0..MaxTime]
  BY DEF Init
<1>3. /\ Len(queue) <= QueueSize /\ Len(unacked) <= MaxInflight
      /\ arrived \in 0..Len(unacked)
  BY EmitterAssumption DEF Init
<1>4. drops \in 0..MaxDrops /\ crashes \in 0..MaxCrashes
  BY EmitterAssumption DEF Init
<1>5. files \subseteq File /\ up \in BOOLEAN /\ linkUp \in BOOLEAN
  BY DEF Init
<1>6. Carried
  BY DEF Init, Carried
<1>7. \A i \in DOMAIN events : events[i] \in files
  BY DEF Init
<1> QED
  BY <1>1, <1>2, <1>3, <1>4, <1>5, <1>6, <1>7 DEF IInv, TypeOK

\* A new file is at most one event more, and takes no file away.
LEMMA CreateFacts ==
    ASSUME IInv, NEW f \in File, Create(f)
    PROVE  /\ Carried' /\ files' \subseteq File
           /\ \A i \in DOMAIN events' : events'[i] \in files'
           /\ UNCHANGED <<clock, up, client, linkUp, received, drops, crashes>>
<1>1. /\ files' = files \cup {f} /\ files \subseteq File
      /\ events' = IF up THEN Append(events, f) ELSE events
      /\ UNCHANGED <<clock, up, client, linkUp, received, drops, crashes>>
  BY DEF Create, IInv, TypeOK
<1>2. events' \in Seq(files')
  <2>1. events \in Seq(files')
    BY <1>1, SeqMonotonic DEF IInv, Carried
  <2>2. Append(events, f) \in Seq(files')
    BY <1>1, <2>1
  <2> QED
    BY <1>1, <2>1, <2>2
<1>3. Told \subseteq Told'
  BY <1>1 DEF Told, Announceable
<1>4. queue' \in Seq(Told') /\ unacked' \in Seq(Told') /\ received' \in Seq(Told')
  <2>1. queue \in Seq(Told) /\ unacked \in Seq(Told) /\ received \in Seq(Told)
    BY DEF IInv, Carried
  <2>2. queue \in Seq(Told') /\ unacked \in Seq(Told') /\ received \in Seq(Told')
    BY <1>3, <2>1, SeqMonotonic
  <2> QED
    BY <1>1, <2>2
<1>5. Carried'
  BY <1>2, <1>4 DEF Carried
<1> QED
  BY <1>1, <1>2, <1>5

\* The choppers create files, and time passes.
LEMMA ChopStep ==
    ASSUME IInv, Chop
    PROVE  IInv'
<1>1. /\ clock \in 0..MaxTime /\ MaxTime \in Nat
      /\ segmentOf \in [Camera -> {Stopped} \cup 0..MaxTime]
  BY EmitterAssumption DEF IInv, TypeOK
<1>2. ASSUME NEW f \in File, Create(f),
             segmentOf' \in [Camera -> {Stopped} \cup 0..MaxTime]
      PROVE  IInv'
  <2>1. /\ Carried' /\ files' \subseteq File
        /\ \A i \in DOMAIN events' : events'[i] \in files'
        /\ UNCHANGED <<clock, up, client, linkUp, received, drops, crashes>>
    BY <1>2, CreateFacts
  <2>2. TypeOK'
    BY <1>2, <2>1 DEF IInv, TypeOK
  <2> QED
    BY <2>1, <2>2 DEF IInv
<1>3. ASSUME NEW c \in Camera, NewSegment(c) PROVE IInv'
  <2>1. File1(c, "segment") \in File /\ Create(File1(c, "segment"))
    BY <1>1, <1>3 DEF NewSegment, File1, File
  <2>2. segmentOf' \in [Camera -> {Stopped} \cup 0..MaxTime]
    BY <1>1, <1>3 DEF NewSegment
  <2> QED
    BY <1>2, <2>1, <2>2
<1>4. ASSUME NEW c \in Camera, NewSnapshot(c) PROVE IInv'
  <2>1. File1(c, "snapshot") \in File /\ Create(File1(c, "snapshot"))
    BY <1>1, <1>4 DEF NewSnapshot, File1, File
  <2>2. segmentOf' \in [Camera -> {Stopped} \cup 0..MaxTime]
    BY <1>1, <1>4 DEF NewSnapshot
  <2> QED
    BY <1>2, <2>1, <2>2
<1>5. ASSUME NEW c \in Camera, NewPlaylist(c) PROVE IInv'
  <2> DEFINE f == [camera |-> c, kind |-> "playlist", epoch |-> 0]
  <2>1. f \in File /\ Create(f)
    BY <1>1, <1>5 DEF NewPlaylist, File
  <2>2. segmentOf' \in [Camera -> {Stopped} \cup 0..MaxTime]
    BY <1>1, <1>5 DEF NewPlaylist
  <2> HIDE DEF f
  <2> QED
    BY <1>2, <2>1, <2>2
<1>6. ASSUME Tick \/ \E c \in Camera : ChopperStops(c) PROVE IInv'
  <2>1. UNCHANGED <<files, up, events, client, linkUp, received, drops, crashes>>
    BY <1>6 DEF Tick, ChopperStops
  <2>2. clock' \in 0..MaxTime /\ segmentOf' \in [Camera -> {Stopped} \cup 0..MaxTime]
    BY <1>1, <1>6 DEF Tick, ChopperStops
  <2>3. TypeOK' /\ Carried'
    BY <2>1, <2>2 DEF IInv, TypeOK, Carried, Told, Announceable
  <2> QED
    BY <2>3 DEF IInv
<1> QED
  BY <1>3, <1>4, <1>5, <1>6 DEF Chop

\* What is to be shown of a step that creates no file.
LEMMA Carrying ==
    ASSUME IInv, UNCHANGED chopper,
           events' \in Seq(files),
           queue' \in Seq(Told), unacked' \in Seq(Told), received' \in Seq(Told),
           Len(queue') <= QueueSize, Len(unacked') <= MaxInflight,
           arrived' \in 0..Len(unacked'),
           up' \in BOOLEAN, linkUp' \in BOOLEAN,
           drops' \in 0..MaxDrops, crashes' \in 0..MaxCrashes
    PROVE  IInv'
<1>1. Told' = Told /\ UNCHANGED <<clock, segmentOf, files>>
  BY DEF Told, Announceable
<1>2. Carried'
  BY <1>1 DEF Carried
<1>3. \A i \in DOMAIN events' : events'[i] \in files'
  BY <1>1
<1>4. TypeOK'
  BY <1>1, <1>3 DEF IInv, TypeOK
<1> QED
  BY <1>2, <1>4 DEF IInv

\* What the steps of the emitter and of its client find.
LEMMA Found ==
    ASSUME IInv
    PROVE  /\ events \in Seq(files) /\ files \subseteq File
           /\ queue \in Seq(Told) /\ unacked \in Seq(Told) /\ received \in Seq(Told)
           /\ Len(queue) \in Nat /\ Len(unacked) \in Nat
           /\ Len(queue) <= QueueSize /\ Len(unacked) <= MaxInflight
           /\ arrived \in 0..Len(unacked)
           /\ QueueSize \in Nat \ {0} /\ MaxInflight \in Nat \ {0}
           /\ up \in BOOLEAN /\ linkUp \in BOOLEAN
           /\ drops \in 0..MaxDrops /\ crashes \in 0..MaxCrashes
           /\ MaxDrops \in Nat /\ MaxCrashes \in Nat
<1>1. /\ queue \in Seq(Told) /\ unacked \in Seq(Told)
  BY DEF IInv, Carried
<1>2. Len(queue) \in Nat /\ Len(unacked) \in Nat
  BY <1>1
<1> QED
  BY <1>1, <1>2, EmitterAssumption DEF IInv, TypeOK, Carried

\* The main loop makes an event of the file at its head, or passes it over.
LEMMA EmitStep ==
    ASSUME IInv, Emit
    PROVE  IInv'
<1>1. /\ events # <<>> /\ events' = Tail(events)
      /\ UNCHANGED <<chopper, unacked, arrived, received, up, linkUp, drops, crashes>>
  BY DEF Emit, Publish, Skip
<1>2. Head(events) \in files /\ events' \in Seq(files)
  BY <1>1, Found, HandOn
<1>3. queue' \in Seq(Told) /\ Len(queue') <= QueueSize
  <2>1. CASE Publish
    <3>1. queue' = Append(queue, EventOf(Head(events))) /\ Len(queue) < QueueSize
      BY <2>1 DEF Publish
    <3>2. EventOf(Head(events)) \in Told
      BY <1>2, <2>1 DEF Publish, Told, Announceable
    <3>3. queue' \in Seq(Told) /\ Len(queue') = Len(queue) + 1
      BY <3>1, <3>2, Found, HandOn
    <3> QED
      BY <3>1, <3>3, Found
  <2>2. CASE Skip
    BY <2>2, Found DEF Skip
  <2> QED
    BY <2>1, <2>2 DEF Emit
<1> QED
  BY <1>1, <1>2, <1>3, Found, Carrying

\* The client sends, the broker hears and acknowledges, the connection is made again.
LEMMA ConnectionStep ==
    ASSUME IInv, Connection
    PROVE  IInv'
<1>1. CASE Send
  <2>1. /\ queue # <<>> /\ Len(unacked) < MaxInflight
        /\ queue' = Tail(queue) /\ unacked' = Append(unacked, Head(queue))
        /\ UNCHANGED <<chopper, up, events, arrived, linkUp, received, drops, crashes>>
    BY <1>1 DEF Send
  <2>2. /\ Head(queue) \in Told /\ queue' \in Seq(Told) /\ Len(queue') = Len(queue) - 1
    BY <2>1, Found, HandOn
  <2>3. unacked' \in Seq(Told) /\ Len(unacked') = Len(unacked) + 1
    BY <2>1, <2>2, Found, HandOn
  <2>4. /\ Len(queue') <= QueueSize /\ Len(unacked') <= MaxInflight
        /\ arrived' \in 0..Len(unacked')
    BY <2>1, <2>2, <2>3, Found
  <2> QED
    BY <2>1, <2>2, <2>3, <2>4, Found, Carrying
<1>2. CASE Arrive
  <2>1. /\ arrived < Len(unacked) /\ arrived' = arrived + 1
        /\ received' = Append(received, unacked[arrived + 1])
        /\ UNCHANGED <<chopper, up, events, queue, unacked, linkUp, drops, crashes>>
    BY <1>2 DEF Arrive
  <2>2. arrived + 1 \in 1..Len(unacked) /\ arrived' \in 0..Len(unacked')
    BY <2>1, Found
  <2>3. unacked[arrived + 1] \in Told
    BY <2>2, Found, HandOn
  <2>4. received' \in Seq(Told)
    BY <2>1, <2>3, Found, HandOn
  <2> QED
    BY <2>1, <2>2, <2>4, Found, Carrying
<1>3. CASE Ack
  <2>1. /\ arrived > 0 /\ unacked' = Tail(unacked) /\ arrived' = arrived - 1
        /\ UNCHANGED <<chopper, up, events, queue, linkUp, received, drops, crashes>>
    BY <1>3 DEF Ack
  <2>2. unacked # <<>>
    BY <2>1, Found
  <2>3. unacked' \in Seq(Told) /\ Len(unacked') = Len(unacked) - 1
    BY <2>1, <2>2, Found, HandOn
  <2>4. Len(unacked') <= MaxInflight /\ arrived' \in 0..Len(unacked')
    BY <2>1, <2>3, Found
  <2> QED
    BY <2>1, <2>3, <2>4, Found, Carrying
<1>4. CASE Connect
  BY <1>4, Found, Carrying DEF Connect
<1> QED
  BY <1>1, <1>2, <1>3, <1>4 DEF Connection

\* A broken connection makes the client send again; a crash forgets; neither invents.
LEMMA FailureStep ==
    ASSUME IInv, Drop \/ Crash \/ Restart
    PROVE  IInv'
<1>1. CASE Drop
  <2>1. /\ linkUp' = FALSE /\ drops < MaxDrops /\ drops' = drops + 1 /\ arrived' = 0
        /\ UNCHANGED <<chopper, up, events, queue, unacked, received, crashes>>
    BY <1>1 DEF Drop
  <2>2. drops' \in 0..MaxDrops /\ arrived' \in 0..Len(unacked')
    BY <2>1, Found
  <2> QED
    BY <2>1, <2>2, Found, Carrying
<1>2. CASE Crash
  <2>1. /\ crashes < MaxCrashes /\ crashes' = crashes + 1
        /\ up' = FALSE /\ linkUp' = FALSE
        /\ events' = <<>> /\ queue' = <<>> /\ unacked' = <<>> /\ arrived' = 0
        /\ UNCHANGED <<chopper, received, drops>>
    BY <1>2 DEF Crash
  <2>2. /\ events' \in Seq(files) /\ queue' \in Seq(Told) /\ unacked' \in Seq(Told)
        /\ Len(queue') = 0 /\ Len(unacked') = 0
    BY <2>1
  <2>3. /\ crashes' \in 0..MaxCrashes /\ arrived' \in 0..Len(unacked')
        /\ Len(queue') <= QueueSize /\ Len(unacked') <= MaxInflight
    BY <2>1, <2>2, Found
  <2> QED
    BY <2>1, <2>2, <2>3, Found, Carrying
<1>3. CASE Restart
  BY <1>3, Found, Carrying DEF Restart
<1> QED
  BY <1>1, <1>2, <1>3

\* Every step of the pipeline keeps the invariant.
LEMMA Inductive == IInv /\ [Next]_vars => IInv'
<1> SUFFICES ASSUME IInv, [Next]_vars PROVE IInv'
  OBVIOUS
<1>1. CASE Next
  BY <1>1, ChopStep, EmitStep, ConnectionStep, FailureStep DEF Next, Environment
<1>2. CASE UNCHANGED vars
  <2>1. UNCHANGED <<chopper, events, queue, unacked, arrived, received, up, linkUp,
                    drops, crashes>>
    BY <1>2 DEF vars
  <2> QED
    BY <2>1, Found, Carrying
<1> QED
  BY <1>1, <1>2

-----------------------------------------------------------------------------

\* The invariant behind the others holds in every reachable state.
THEOREM Invariance == Spec => []IInv
BY Initially, Inductive, PTL DEF Spec

\* Queue and window stay within their bounds (AsyncClient::new, TypeOK).
THEOREM TypeCorrect == Spec => []TypeOK
<1>1. IInv => TypeOK
  BY DEF IInv
<1> QED
  BY <1>1, Invariance, PTL

\* Whatever a subscriber is told is of a file that exists, on its camera's topic and
\* with the segment time it falls in (handler.rs).
THEOREM IsTruthful == Spec => []Truthful
<1>1. IInv => Truthful
  <2> SUFFICES ASSUME IInv, NEW i \in DOMAIN received
               PROVE  LET m == received[i]
                      IN  /\ FileOf(m) \in files
                          /\ m.segment.camera = m.topic[1]
                          /\ m.segment.epoch % HlsTime = 0 \/ m.segment = FileOf(m)
                          /\ m.epoch - m.segment.epoch \in 0..HlsTime - 1
    BY DEF Truthful
  <2>1. received[i] \in Told
    BY Found
  <2>2. PICK f \in files : Announces(f) /\ received[i] = EventOf(f)
    BY <2>1 DEF Told, Announceable
  <2>3. f \in File
    BY Found
  <2> QED
    BY <2>2, <2>3, EventFacts
<1> QED
  BY <1>1, Invariance, PTL

-----------------------------------------------------------------------------
(* The order of the announcements, and that nothing is left out: the       *)
(* acknowledged, the client's messages, the queue and the channel hold, in *)
(* this order, consecutive pieces of the list of noticed files.            *)

\* How many files the broker has heard of.
Announced == Cardinality(Heard)

\* No file is noticed twice, and the broker has heard of exactly the first ones.
Remembered ==
    /\ noticed \in Seq(Announceable)
    /\ \A j, k \in 1..Len(noticed) : noticed[j] = noticed[k] => j = k
    /\ IsFiniteSet(Heard) /\ Announced <= Len(noticed)
    /\ Heard = {noticed[k] : k \in 1..Announced}

\* A message tells of a noticed file all of whose predecessors were told of before.
InOrder ==
    \A i \in 1..Len(received) : \E k \in 1..Len(noticed) :
        /\ FileOf(received[i]) = noticed[k]
        /\ \A j \in 1..k - 1 : \E h \in 1..i - 1 : FileOf(received[h]) = noticed[j]

\* s holds the events of the files of list that follow the nth.
Carries(s, n, list) ==
    /\ n + Len(s) <= Len(list)
    /\ \A i \in 1..Len(s) : s[i] = EventOf(list[n + i])

\* s holds the files of list that follow the nth, each at its place, and between them
\* only files that are not announced; place[i] is where the first file to announce
\* from the ith on stands in list.
Waits(place, n, s, list) ==
    /\ place \in [1..Len(s) + 1 -> Nat]
    /\ place[1] = n + 1 /\ place[Len(s) + 1] = Len(list) + 1
    /\ \A i \in 1..Len(s) :
          IF Announces(s[i])
          THEN place[i] \in 1..Len(list) /\ s[i] = list[place[i]] /\ place[i + 1] = place[i] + 1
          ELSE place[i + 1] = place[i]

Waiting(n, s, list) == \E place : Waits(place, n, s, list)

\* What is taken from the front of a piece, put at its end, or noticed, keeps it a
\* piece.
LEMMA CarriesOn ==
    ASSUME NEW X, NEW Y, NEW s \in Seq(X), NEW n \in Nat, NEW list \in Seq(Y), Carries(s, n, list)
    PROVE  /\ s # <<>> => /\ Head(s) = EventOf(list[n + 1])
                          /\ Carries(Tail(s), n + 1, list)
           /\ n + Len(s) < Len(list) =>
                 Carries(Append(s, EventOf(list[n + Len(s) + 1])), n, list)
           /\ \A f \in Y : Carries(s, n, Append(list, f))
<1> USE DEF Carries
<1>0. Len(s) \in Nat /\ Len(list) \in Nat
  OBVIOUS
<1>1. ASSUME s # <<>>
      PROVE  Head(s) = EventOf(list[n + 1]) /\ Carries(Tail(s), n + 1, list)
  <2>1. Len(s) > 0 /\ Len(Tail(s)) = Len(s) - 1 /\ Head(s) = s[1]
    BY <1>1
  <2>2. \A i \in 1..Len(s) - 1 : Tail(s)[i] = s[i + 1]
    BY <1>1
  <2>3. ASSUME NEW i \in 1..Len(s) - 1 PROVE Tail(s)[i] = EventOf(list[(n + 1) + i])
    <3>1. i + 1 \in 1..Len(s) /\ n + (i + 1) = (n + 1) + i
      BY <1>0
    <3> QED
      BY <2>2, <3>1
  <2>4. Head(s) = EventOf(list[n + 1])
    BY <1>0, <2>1
  <2> QED
    BY <1>0, <2>1, <2>3, <2>4
<1>2. ASSUME n + Len(s) < Len(list)
      PROVE  Carries(Append(s, EventOf(list[n + Len(s) + 1])), n, list)
  <2> DEFINE e == EventOf(list[n + Len(s) + 1])
             t == Append(s, e)
  <2>1. Len(t) = Len(s) + 1 /\ t[Len(s) + 1] = e /\ \A i \in 1..Len(s) : t[i] = s[i]
    OBVIOUS
  <2> HIDE DEF t
  <2>2. ASSUME NEW i \in 1..Len(s) + 1 PROVE t[i] = EventOf(list[n + i])
    <3>1. CASE i = Len(s) + 1
      <4>1. n + i = n + Len(s) + 1
        BY <1>0, <3>1
      <4> QED
        BY <2>1, <3>1, <4>1
    <3>2. CASE i # Len(s) + 1
      <4>1. i \in 1..Len(s)
        BY <1>0, <3>2
      <4> QED
        BY <2>1, <4>1
    <3> QED
      BY <3>1, <3>2
  <2>3. Carries(t, n, list)
    BY <1>0, <1>2, <2>1, <2>2
  <2> QED
    BY <2>3 DEF t
<1>3. ASSUME NEW f \in Y PROVE Carries(s, n, Append(list, f))
  <2> DEFINE t == Append(list, f)
  <2>1. Len(t) = Len(list) + 1 /\ \A i \in 1..Len(list) : t[i] = list[i]
    OBVIOUS
  <2> HIDE DEF t
  <2>2. ASSUME NEW i \in 1..Len(s) PROVE n + i \in 1..Len(list)
    BY <1>0
  <2>3. \A i \in 1..Len(s) : s[i] = EventOf(t[n + i])
    BY <2>1, <2>2
  <2>4. Carries(s, n, t)
    BY <1>0, <2>1, <2>3
  <2> QED
    BY <2>4 DEF t
<1> QED
  BY <1>1, <1>2, <1>3

\* The same of the channel, whose head may be a file that is passed over.
LEMMA WaitsOn ==
    ASSUME NEW X, NEW Y, NEW s \in Seq(X), NEW n \in Nat, NEW list \in Seq(Y),
           Waiting(n, s, list)
    PROVE  /\ \A f \in X : ~Announces(f) => Waiting(n, Append(s, f), list)
           /\ \A f \in X \cap Y : Announces(f) => Waiting(n, Append(s, f), Append(list, f))
           /\ s # <<>> /\ ~Announces(Head(s)) => Waiting(n, Tail(s), list)
           /\ s # <<>> /\ Announces(Head(s)) =>
                 /\ n < Len(list) /\ Head(s) = list[n + 1]
                 /\ Waiting(n + 1, Tail(s), list)
<1>1. PICK place : Waits(place, n, s, list)
  BY DEF Waiting
<1> DEFINE m == Len(s)
           l == Len(list)
<1>2. m \in Nat /\ l \in Nat
  OBVIOUS
<1>3. /\ place \in [1..m + 1 -> Nat] /\ place[1] = n + 1 /\ place[m + 1] = l + 1
      /\ \A i \in 1..m :
            IF Announces(s[i])
            THEN place[i] \in 1..l /\ s[i] = list[place[i]] /\ place[i + 1] = place[i] + 1
            ELSE place[i + 1] = place[i]
  BY <1>1 DEF Waits
<1>4. ASSUME NEW f \in X,
             NEW more, Len(more) \in Nat, \A i \in 1..l : more[i] = list[i],
             IF Announces(f) THEN Len(more) = l + 1 /\ more[l + 1] = f ELSE Len(more) = l
      PROVE  Waiting(n, Append(s, f), more)
  <2> DEFINE t == Append(s, f)
             q == [i \in 1..m + 2 |-> IF i <= m + 1 THEN place[i] ELSE Len(more) + 1]
  <2>1. Len(t) = m + 1 /\ t[m + 1] = f /\ \A i \in 1..m : t[i] = s[i]
    OBVIOUS
  <2>2. q \in [1..m + 2 -> Nat] /\ \A i \in 1..m + 1 : q[i] = place[i]
    BY <1>2, <1>3, <1>4
  <2>3. q[m + 2] = Len(more) + 1
    BY <1>2
  <2> HIDE DEF t, q, m, l
  <2>4. ASSUME NEW i \in 1..m + 1
        PROVE  IF Announces(t[i])
               THEN q[i] \in 1..Len(more) /\ t[i] = more[q[i]] /\ q[i + 1] = q[i] + 1
               ELSE q[i + 1] = q[i]
    <3>1. CASE i = m + 1
      <4>1. q[i] = l + 1 /\ q[i + 1] = Len(more) + 1 /\ t[i] = f
        BY <1>2, <1>3, <2>1, <2>2, <2>3, <3>1
      <4> QED
        BY <1>2, <1>4, <4>1
    <3>2. CASE i # m + 1
      <4>1. i \in 1..m /\ i + 1 \in 1..m + 1
        BY <1>2, <3>2
      <4>2. q[i] = place[i] /\ q[i + 1] = place[i + 1] /\ t[i] = s[i]
        BY <2>1, <2>2, <4>1
      <4>3. Len(more) >= l
        BY <1>2, <1>4
      <4>4. CASE Announces(s[i])
        <5>1. place[i] \in 1..l /\ s[i] = list[place[i]] /\ place[i + 1] = place[i] + 1
          BY <1>3, <4>1, <4>4
        <5>2. place[i] \in 1..Len(more) /\ more[place[i]] = list[place[i]]
          BY <1>2, <1>4, <4>3, <5>1
        <5> QED
          BY <4>2, <4>4, <5>1, <5>2
      <4>5. CASE ~Announces(s[i])
        BY <1>3, <4>1, <4>2, <4>5
      <4> QED
        BY <4>4, <4>5
    <3> QED
      BY <3>1, <3>2
  <2>5. q[1] = n + 1
    BY <1>2, <1>3, <2>2
  <2>6. m + 2 = (m + 1) + 1
    BY <1>2
  <2>7. Waits(q, n, t, more)
    BY <2>1, <2>2, <2>3, <2>4, <2>5, <2>6 DEF Waits
  <2> QED
    BY <2>7 DEF Waiting, t
<1>5. ASSUME NEW f \in X, ~Announces(f) PROVE Waiting(n, Append(s, f), list)
  BY <1>2, <1>4, <1>5
<1>6. ASSUME NEW f \in X \cap Y, Announces(f) PROVE Waiting(n, Append(s, f), Append(list, f))
  <2> DEFINE more == Append(list, f)
  <2>1. Len(more) = l + 1 /\ more[l + 1] = f /\ \A i \in 1..l : more[i] = list[i]
    OBVIOUS
  <2> HIDE DEF more
  <2>2. Waiting(n, Append(s, f), more)
    BY <1>2, <1>4, <1>6, <2>1
  <2> QED
    BY <2>2 DEF more
<1>7. ASSUME s # <<>>
      PROVE  IF Announces(Head(s))
             THEN /\ n < Len(list) /\ Head(s) = list[n + 1]
                  /\ Waiting(n + 1, Tail(s), list)
             ELSE Waiting(n, Tail(s), list)
  <2> DEFINE t == Tail(s)
             q == [i \in 1..m |-> place[i + 1]]
  <2>1. m > 0 /\ Len(t) = m - 1 /\ Head(s) = s[1] /\ \A i \in 1..m - 1 : t[i] = s[i + 1]
    BY <1>7
  <2>2. q \in [1..m -> Nat] /\ q[1] = place[2] /\ q[m] = l + 1
    BY <1>2, <1>3, <2>1
  <2>3. \A i \in 1..m : q[i] = place[i + 1]
    OBVIOUS
  <2> HIDE DEF t, q, m, l
  <2>4. ASSUME NEW i \in 1..m - 1
        PROVE  IF Announces(t[i])
               THEN q[i] \in 1..l /\ t[i] = list[q[i]] /\ q[i + 1] = q[i] + 1
               ELSE q[i + 1] = q[i]
    <3>1. i + 1 \in 1..m /\ i \in 1..m /\ t[i] = s[i + 1]
      BY <1>2, <2>1
    <3>2. q[i] = place[i + 1] /\ q[i + 1] = place[(i + 1) + 1]
      BY <2>3, <3>1
    <3> QED
      BY <1>3, <3>1, <3>2
  <2>5. 1 \in 1..m /\ 1 + 1 = 2
    BY <1>2, <2>1
  <2>6. IF Announces(Head(s))
        THEN n + 1 \in 1..l /\ Head(s) = list[n + 1] /\ place[2] = n + 2
        ELSE place[2] = n + 1
    BY <1>3, <2>1, <2>5
  <2>7. ASSUME NEW k \in Nat, place[2] = k + 1 PROVE Waiting(k, t, list)
    <3>1. Waits(q, k, t, list)
      BY <1>2, <2>1, <2>2, <2>4, <2>7 DEF Waits, l
    <3> QED
      BY <3>1 DEF Waiting
  <2>8. CASE Announces(Head(s))
    <3>1. n + 1 \in Nat /\ place[2] = (n + 1) + 1 /\ n < l
      BY <1>2, <2>6, <2>8
    <3>2. Waiting(n + 1, t, list)
      BY <2>7, <3>1
    <3> QED
      BY <2>6, <2>8, <3>1, <3>2 DEF t, l
  <2>9. CASE ~Announces(Head(s))
    <3>1. Waiting(n, t, list)
      BY <2>6, <2>7, <2>9
    <3> QED
      BY <2>9, <3>1 DEF t
  <2> QED
    BY <2>8, <2>9
<1> QED
  BY <1>5, <1>6, <1>7

\* The pieces: the client holds what follows the acknowledged ones (base of them),
\* the queue what follows these, the channel the rest.
InLine ==
    \E base \in Nat :
        /\ base + arrived <= Announced /\ Announced <= base + Len(unacked)
        /\ Carries(unacked, base, noticed)
        /\ Carries(queue, base + Len(unacked), noticed)
        /\ Waiting(base + Len(unacked) + Len(queue), events, noticed)

\* The inductive invariant.
Ordered == Remembered /\ InOrder /\ InLine

\* Nothing is there to begin with.
LEMMA InitiallyOrdered == Init => Ordered
<1> SUFFICES ASSUME Init PROVE Ordered
  OBVIOUS
<1>1. /\ events = <<>> /\ queue = <<>> /\ unacked = <<>> /\ arrived = 0
      /\ received = <<>> /\ noticed = <<>>
  BY DEF Init
<1>2. Heard = {} /\ IsFiniteSet(Heard) /\ Announced = 0
  <2>1. Heard = {}
    BY <1>1 DEF Heard
  <2> QED
    BY <2>1, FS_EmptySet DEF Announced
<1>3. Remembered /\ InOrder
  BY <1>1, <1>2 DEF Remembered, InOrder
<1>4. Waiting(0, <<>>, <<>>)
  <2>1. Waits([i \in 1..1 |-> 1], 0, <<>>, <<>>)
    BY DEF Waits
  <2> QED
    BY <2>1 DEF Waiting
<1>5. InLine
  <2>1. Carries(<<>>, 0, <<>>)
    BY DEF Carries
  <2>2. Len(<<>>) = 0
    OBVIOUS
  <2> QED
    BY <1>1, <1>2, <1>4, <2>1, <2>2 DEF InLine
<1> QED
  BY <1>3, <1>5 DEF Ordered

\* What the steps find.
LEMMA FoundOrdered ==
    ASSUME IInv, Ordered
    PROVE  /\ noticed \in Seq(Announceable) /\ Len(noticed) \in Nat
           /\ Announced \in Nat /\ Announced <= Len(noticed)
           /\ Len(events) \in Nat /\ Len(received) \in Nat
           /\ \A k \in 1..Len(noticed) : noticed[k] \in File /\ FileOf(EventOf(noticed[k])) = noticed[k]
<1>1. noticed \in Seq(Announceable) /\ IsFiniteSet(Heard) /\ Announced <= Len(noticed)
  BY DEF Ordered, Remembered
<1>2. Announced \in Nat
  BY <1>1, FS_CardinalityType DEF Announced
<1>3. ASSUME NEW k \in 1..Len(noticed)
      PROVE  noticed[k] \in File /\ FileOf(EventOf(noticed[k])) = noticed[k]
  <2>1. noticed[k] \in Announceable
    BY <1>1
  <2>2. noticed[k] \in File /\ Announces(noticed[k])
    BY <2>1, Found DEF Announceable
  <2> QED
    BY <2>2, EventFacts
<1> QED
  BY <1>1, <1>2, <1>3, Found

\* What is to be shown of a step that neither notices nor tells anything.
LEMMA SameHistory ==
    ASSUME Ordered, UNCHANGED <<files, received, noticed>>, InLine'
    PROVE  Ordered'
<1>1. Heard' = Heard /\ Announced' = Announced /\ Announceable' = Announceable
  BY DEF Heard, Announced, Announceable
<1>2. Remembered'
  BY <1>1 DEF Ordered, Remembered
<1>3. InOrder'
  BY DEF Ordered, InOrder
<1> QED
  BY <1>2, <1>3 DEF Ordered

\* A new file goes to the end of the channel and of the noticed ones, if it is seen.
LEMMA CreateOrdered ==
    ASSUME IInv, Ordered, NEW f \in File, Create(f)
    PROVE  Ordered'
<1>1. /\ f \notin files /\ files' = files \cup {f}
      /\ UNCHANGED <<unacked, queue, arrived, received>>
  BY DEF Create
<1>2. CASE up
  <2>1. /\ events' = Append(events, f)
        /\ noticed' = IF Announces(f) THEN Append(noticed, f) ELSE noticed
    BY <1>2 DEF Create
  <2>2. /\ events \in Seq(files') /\ noticed \in Seq(Announceable')
        /\ f \in files' /\ Announceable \subseteq Announceable'
        /\ Announces(f) => f \in files' \cap Announceable'
    <3>1. files \subseteq files' /\ Announceable \subseteq Announceable'
      BY <1>1 DEF Announceable
    <3>2. events \in Seq(files') /\ noticed \in Seq(Announceable')
      BY <3>1, Found, FoundOrdered, SeqMonotonic
    <3> QED
      BY <1>1, <3>1, <3>2 DEF Announceable
  <2>3. PICK base \in Nat :
          /\ base + arrived <= Announced /\ Announced <= base + Len(unacked)
          /\ Carries(unacked, base, noticed)
          /\ Carries(queue, base + Len(unacked), noticed)
          /\ Waiting(base + Len(unacked) + Len(queue), events, noticed)
    BY DEF Ordered, InLine
  <2>4. base + Len(unacked) \in Nat /\ base + Len(unacked) + Len(queue) \in Nat
    BY Found
  <2>5. Heard' = Heard /\ Announced' = Announced
    BY <1>1 DEF Heard, Announced
  <2>6. CASE Announces(f)
    <3>1. noticed' = Append(noticed, f) /\ f \in Announceable'
      BY <2>1, <2>2, <2>6
    <3>2. Waiting(base + Len(unacked) + Len(queue), events', noticed')
      BY <2>1, <2>2, <2>3, <2>4, <2>6, <3>1, WaitsOn
    <3>3. /\ Carries(unacked, base, noticed')
          /\ Carries(queue, base + Len(unacked), noticed')
      BY <2>2, <2>3, <2>4, <3>1, Found, CarriesOn
    <3>4. InLine'
      BY <1>1, <2>3, <2>5, <3>2, <3>3 DEF InLine
    <3>5. /\ noticed' \in Seq(Announceable') /\ Len(noticed') = Len(noticed) + 1
          /\ noticed'[Len(noticed) + 1] = f
          /\ \A k \in 1..Len(noticed) : noticed'[k] = noticed[k]
      BY <2>2, <3>1
    <3>6. \A k \in 1..Len(noticed) : noticed[k] # f
      BY <1>1, FoundOrdered DEF Announceable
    <3>7. \A j, k \in 1..Len(noticed') : noticed'[j] = noticed'[k] => j = k
      <4>1. \A j, k \in 1..Len(noticed) : noticed[j] = noticed[k] => j = k
        BY DEF Ordered, Remembered
      <4>2. Len(noticed) \in Nat
        BY FoundOrdered
      <4> HIDE DEF Ordered, Remembered
      <4> QED
        BY <3>5, <3>6, <4>1, <4>2
    <3>8. \A k \in 1..Announced : noticed'[k] = noticed[k]
      BY <3>5, FoundOrdered
    <3>9. Remembered'
      <4>1. {noticed'[k] : k \in 1..Announced} = {noticed[k] : k \in 1..Announced}
        BY <3>8
      <4>2. Announced <= Len(noticed')
        BY <3>5, FoundOrdered
      <4>3. IsFiniteSet(Heard) /\ Heard = {noticed[k] : k \in 1..Announced}
        BY DEF Ordered, Remembered
      <4> QED
        BY <2>5, <3>5, <3>7, <4>1, <4>2, <4>3 DEF Remembered
    <3>10. InOrder'
      <4>1. ASSUME NEW i \in 1..Len(received)
            PROVE  \E k \in 1..Len(noticed') :
                      /\ FileOf(received[i]) = noticed'[k]
                      /\ \A j \in 1..k - 1 : \E h \in 1..i - 1 : FileOf(received[h]) = noticed'[j]
        <5>1. PICK k \in 1..Len(noticed) :
                 /\ FileOf(received[i]) = noticed[k]
                 /\ \A j \in 1..k - 1 : \E h \in 1..i - 1 : FileOf(received[h]) = noticed[j]
          BY DEF Ordered, InOrder
        <5>2. k \in 1..Len(noticed') /\ \A j \in 1..k - 1 : j \in 1..Len(noticed)
          BY <3>5, FoundOrdered
        <5> QED
          BY <3>5, <5>1, <5>2
      <4> QED
        BY <1>1, <4>1 DEF InOrder
    <3> QED
      BY <3>4, <3>9, <3>10 DEF Ordered
  <2>7. CASE ~Announces(f)
    <3>1. noticed' = noticed
      BY <2>1, <2>7
    <3>2. Waiting(base + Len(unacked) + Len(queue), events', noticed)
      BY <2>1, <2>2, <2>3, <2>4, <2>7, WaitsOn
    <3>3. InLine'
      BY <1>1, <2>3, <2>5, <3>1, <3>2 DEF InLine
    <3>4. noticed' \in Seq(Announceable')
      BY <2>2, <3>1
    <3>5. Remembered'
      BY <2>5, <3>1, <3>4 DEF Ordered, Remembered
    <3>6. InOrder'
      BY <1>1, <3>1 DEF Ordered, InOrder
    <3> QED
      BY <3>3, <3>5, <3>6 DEF Ordered
  <2> QED
    BY <2>6, <2>7
<1>3. CASE ~up
  <2>1. UNCHANGED <<events, noticed>>
    BY <1>3 DEF Create
  <2>2. Heard' = Heard /\ Announced' = Announced
    BY <1>1 DEF Heard, Announced
  <2>3. noticed' \in Seq(Announceable')
    <3>1. Announceable \subseteq Announceable'
      BY <1>1 DEF Announceable
    <3> QED
      BY <2>1, <3>1, FoundOrdered, SeqMonotonic
  <2>4. Remembered'
    BY <2>1, <2>2, <2>3 DEF Ordered, Remembered
  <2>5. InOrder' /\ InLine'
    BY <1>1, <2>1, <2>2 DEF Ordered, InOrder, InLine
  <2> QED
    BY <2>4, <2>5 DEF Ordered
<1> QED
  BY <1>2, <1>3, Found

\* The main loop moves the first file of the channel to the end of the queue.
LEMMA EmitOrdered ==
    ASSUME IInv, Ordered, Emit
    PROVE  Ordered'
<1>1. /\ events # <<>> /\ events' = Tail(events)
      /\ UNCHANGED <<files, unacked, arrived, received, noticed>>
  BY DEF Emit, Publish, Skip
<1>2. PICK base \in Nat :
        /\ base + arrived <= Announced /\ Announced <= base + Len(unacked)
        /\ Carries(unacked, base, noticed)
        /\ Carries(queue, base + Len(unacked), noticed)
        /\ Waiting(base + Len(unacked) + Len(queue), events, noticed)
  BY DEF Ordered, InLine
<1>3. base + Len(unacked) \in Nat /\ base + Len(unacked) + Len(queue) \in Nat
  BY Found
<1>4. Announced' = Announced
  BY <1>1 DEF Heard, Announced
<1> DEFINE n == base + Len(unacked) + Len(queue)
<1>5. /\ events \in Seq(files) /\ queue \in Seq(Told) /\ noticed \in Seq(Announceable)
      /\ Len(queue) \in Nat /\ Len(unacked) \in Nat
  BY Found, FoundOrdered
<1>6. CASE Publish
  <2>1. Announces(Head(events)) /\ queue' = Append(queue, EventOf(Head(events)))
    BY <1>6 DEF Publish
  <2>2. /\ n < Len(noticed) /\ Head(events) = noticed[n + 1]
        /\ Waiting(n + 1, events', noticed)
    <3>1. n \in Nat /\ Waiting(n, events, noticed)
      BY <1>2, <1>3
    <3> HIDE DEF n
    <3> QED
      BY <1>1, <1>5, <2>1, <3>1, WaitsOn
  <2>3. Carries(queue', base + Len(unacked), noticed)
    <3> DEFINE m == base + Len(unacked)
    <3>1. m \in Nat /\ n = m + Len(queue) /\ Carries(queue, m, noticed)
      BY <1>2, <1>3
    <3> HIDE DEF n, m
    <3>2. queue' = Append(queue, EventOf(noticed[m + Len(queue) + 1]))
      BY <2>1, <2>2, <3>1
    <3>3. m + Len(queue) < Len(noticed)
      BY <2>2, <3>1
    <3>4. Carries(Append(queue, EventOf(noticed[m + Len(queue) + 1])), m, noticed)
      BY <1>5, <3>1, <3>3, CarriesOn
    <3> QED
      BY <3>2, <3>4 DEF m
  <2>4. Len(queue') = Len(queue) + 1
    BY <2>1, <1>5
  <2>5. Waiting(base + Len(unacked) + Len(queue'), events', noticed)
    <3>1. base + Len(unacked) + Len(queue') = n + 1
      BY <1>3, <1>5, <2>4
    <3> QED
      BY <2>2, <3>1
  <2>6. InLine'
    BY <1>1, <1>2, <1>4, <2>3, <2>5 DEF InLine
  <2> QED
    BY <1>1, <2>6, SameHistory
<1>7. CASE Skip
  <2>1. ~Announces(Head(events)) /\ queue' = queue
    BY <1>7 DEF Skip
  <2>2. Waiting(n, events', noticed)
    <3>1. n \in Nat /\ Waiting(n, events, noticed)
      BY <1>2, <1>3
    <3> HIDE DEF n
    <3> QED
      BY <1>1, <1>5, <2>1, <3>1, WaitsOn
  <2>3. InLine'
    BY <1>1, <1>2, <1>4, <2>1, <2>2 DEF InLine
  <2> QED
    BY <1>1, <2>3, SameHistory
<1> QED
  BY <1>6, <1>7 DEF Emit

\* An arrival tells of one file.
LEMMA ArriveFacts ==
    ASSUME IInv, Arrive
    PROVE  LET f == FileOf(unacked[arrived + 1])
           IN  /\ Len(received) \in Nat /\ Len(received') = Len(received) + 1
               /\ FileOf(received'[Len(received) + 1]) = f
               /\ \A i \in 1..Len(received) : received'[i] = received[i]
               /\ Heard' = Heard \cup {f}
<1> DEFINE f == FileOf(unacked[arrived + 1])
           r == received'
<1>1. /\ arrived + 1 \in 1..Len(unacked)
      /\ received' = Append(received, unacked[arrived + 1])
  BY Found DEF Arrive
<1>2. /\ Len(received) \in Nat /\ Len(r) = Len(received) + 1
      /\ FileOf(r[Len(received) + 1]) = f
      /\ \A i \in 1..Len(received) : r[i] = received[i]
      /\ DOMAIN received = 1..Len(received) /\ DOMAIN r = 1..Len(r)
  <2>1. unacked[arrived + 1] \in Told /\ received \in Seq(Told)
    BY <1>1, Found
  <2> QED
    BY <1>1, <2>1
<1> HIDE DEF f, r
<1>3. Heard' = Heard \cup {f}
  <2>1. Heard' = {FileOf(r[i]) : i \in DOMAIN r}
    BY DEF Heard, r, FileOf
  <2>2. \A i \in 1..Len(received) + 1 : i \in 1..Len(received) \/ i = Len(received) + 1
    BY <1>2
  <2>3. \A i \in 1..Len(received) : i \in 1..Len(received) + 1
    BY <1>2
  <2>4. Len(received) + 1 \in 1..Len(received) + 1
    BY <1>2
  <2> QED
    BY <1>2, <2>1, <2>2, <2>3, <2>4 DEF Heard
<1> QED
  BY <1>2, <1>3 DEF f, r

\* Sending moves the head of the queue to the end of the messages; an arrival tells
\* of a file already heard of or of the next one; an acknowledgement takes away a
\* message whose file is known.
LEMMA ConnectionOrdered ==
    ASSUME IInv, Ordered, Connection
    PROVE  Ordered'
<1>1. PICK base \in Nat :
        /\ base + arrived <= Announced /\ Announced <= base + Len(unacked)
        /\ Carries(unacked, base, noticed)
        /\ Carries(queue, base + Len(unacked), noticed)
        /\ Waiting(base + Len(unacked) + Len(queue), events, noticed)
  BY DEF Ordered, InLine
<1>2. /\ queue \in Seq(Told) /\ unacked \in Seq(Told) /\ received \in Seq(Told)
      /\ noticed \in Seq(Announceable)
      /\ Len(queue) \in Nat /\ Len(unacked) \in Nat /\ Len(noticed) \in Nat
      /\ arrived \in 0..Len(unacked) /\ Announced \in Nat
  BY Found, FoundOrdered
<1> DEFINE m == base + Len(unacked)
<1>3. m \in Nat
  BY <1>2
<1>4. m + Len(queue) <= Len(noticed)
  BY <1>1 DEF Carries
<1>5. CASE Send
  <2>1. /\ queue # <<>> /\ queue' = Tail(queue) /\ unacked' = Append(unacked, Head(queue))
        /\ UNCHANGED <<files, events, arrived, received, noticed>>
    BY <1>5 DEF Send
  <2>2. Announced' = Announced
    BY <2>1 DEF Heard, Announced
  <2>3. /\ Len(queue') = Len(queue) - 1 /\ Len(queue) > 0 /\ Len(unacked') = Len(unacked) + 1
    BY <1>2, <2>1, HandOn
  <2>4. Head(queue) = EventOf(noticed[m + 1]) /\ Carries(queue', m + 1, noticed)
    <3>1. Carries(queue, m, noticed)
      BY <1>1
    <3> HIDE DEF m
    <3> QED
      BY <1>2, <1>3, <2>1, <3>1, CarriesOn
  <2>5. Carries(unacked', base, noticed)
    <3>1. base + Len(unacked) < Len(noticed)
      BY <1>2, <1>4, <2>3
    <3> QED
      BY <1>1, <1>2, <2>1, <2>4, <3>1, CarriesOn
  <2>6. /\ base + Len(unacked') = m + 1
        /\ base + Len(unacked') + Len(queue') = m + Len(queue)
        /\ Announced <= base + Len(unacked')
    BY <1>1, <1>2, <2>3
  <2>7. /\ Carries(queue', base + Len(unacked'), noticed)
        /\ Waiting(base + Len(unacked') + Len(queue'), events, noticed)
    BY <1>1, <2>4, <2>6
  <2>8. InLine'
    BY <1>1, <2>1, <2>2, <2>5, <2>6, <2>7 DEF InLine
  <2> QED
    BY <2>1, <2>8, SameHistory
<1>6. CASE Arrive
  <2> DEFINE k == base + arrived + 1
             f == noticed[k]
             r == received'
  <2>1. /\ arrived < Len(unacked) /\ arrived' = arrived + 1
        /\ received' = Append(received, unacked[arrived + 1])
        /\ UNCHANGED <<files, events, queue, unacked, noticed>>
    BY <1>6 DEF Arrive
  <2>2. /\ k \in 1..Len(noticed) /\ k <= Announced + 1 /\ k <= base + Len(unacked)
        /\ k = base + (arrived + 1) /\ arrived + 1 \in 1..Len(unacked)
    BY <1>1, <1>2, <1>4, <2>1
  <2>3. FileOf(unacked[arrived + 1]) = f
    <3>1. unacked[arrived + 1] = EventOf(noticed[k])
      BY <1>1, <2>2 DEF Carries
    <3> QED
      BY <2>2, <3>1, FoundOrdered
  <2>4. /\ Len(received) \in Nat /\ Len(r) = Len(received) + 1
        /\ FileOf(r[Len(received) + 1]) = f
        /\ \A i \in 1..Len(received) : r[i] = received[i]
        /\ DOMAIN received = 1..Len(received)
    BY <1>2, <1>6, <2>3, ArriveFacts
  <2>5. Heard' = Heard \cup {f}
    BY <1>6, <2>3, ArriveFacts
  <2> HIDE DEF f, k, r
  <2>6. /\ IsFiniteSet(Heard) /\ Heard = {noticed[j] : j \in 1..Announced}
        /\ Announced <= Len(noticed)
        /\ \A i, j \in 1..Len(noticed) : noticed[i] = noticed[j] => i = j
    BY DEF Ordered, Remembered
  <2>7. /\ IsFiniteSet(Heard') /\ Heard' = {noticed[j] : j \in 1..Announced'}
        /\ Announced' \in Nat /\ Announced' <= Len(noticed)
        /\ k <= Announced' /\ Announced' <= m
    <3>1. CASE k <= Announced
      <4>1. f \in Heard
        BY <2>2, <2>6, <3>1 DEF f
      <4>2. Heard' = Heard /\ Announced' = Announced
        BY <2>5, <4>1 DEF Announced
      <4> QED
        BY <1>1, <1>2, <2>6, <3>1, <4>2
    <3>2. CASE ~(k <= Announced)
      <4>1. k = Announced + 1
        BY <1>2, <2>2, <3>2
      <4>2. f \notin Heard
        <5> SUFFICES ASSUME NEW j \in 1..Announced, f = noticed[j] PROVE FALSE
          BY <2>6
        <5>1. j \in 1..Len(noticed)
          BY <1>2, <2>6
        <5>2. k = j
          BY <2>2, <2>6, <5>1 DEF f
        <5> QED
          BY <1>2, <4>1, <5>2
      <4>3. IsFiniteSet(Heard') /\ Announced' = Announced + 1
        BY <2>5, <2>6, <4>2, FS_AddElement DEF Announced
      <4>4. Heard' = {noticed[j] : j \in 1..Announced + 1}
        <5>1. \A j \in 1..Announced + 1 : j \in 1..Announced \/ j = Announced + 1
          BY <1>2
        <5>2. Announced + 1 \in 1..Announced + 1 /\ \A j \in 1..Announced : j \in 1..Announced + 1
          BY <1>2
        <5> QED
          BY <2>5, <2>6, <4>1, <5>1, <5>2 DEF f
      <4> QED
        BY <1>2, <2>2, <4>1, <4>3, <4>4
    <3> QED
      BY <3>1, <3>2
  <2>8. Remembered'
    <3>1. noticed' \in Seq(Announceable')
      BY <1>2, <2>1 DEF Announceable
    <3> QED
      BY <2>1, <2>6, <2>7, <3>1 DEF Remembered
  <2>9. InOrder'
    <3>1. ASSUME NEW i \in 1..Len(r)
          PROVE  \E l \in 1..Len(noticed) :
                    /\ FileOf(r[i]) = noticed[l]
                    /\ \A j \in 1..l - 1 : \E h \in 1..i - 1 : FileOf(r[h]) = noticed[j]
      <4>1. CASE i = Len(received) + 1
        <5>1. ASSUME NEW j \in 1..k - 1
              PROVE  \E h \in 1..i - 1 : FileOf(r[h]) = noticed[j]
          <6>1. j \in 1..Announced
            BY <1>2, <2>2
          <6>2. noticed[j] \in Heard
            BY <2>6, <6>1
          <6>3. PICK h \in DOMAIN received : FileOf(received[h]) = noticed[j]
            BY <6>2 DEF Heard
          <6>4. h \in 1..i - 1 /\ r[h] = received[h]
            BY <2>4, <4>1, <6>3
          <6> QED
            BY <6>3, <6>4
        <5>2. FileOf(r[i]) = noticed[k]
          BY <2>4, <4>1 DEF f
        <5> QED
          BY <2>2, <5>1, <5>2
      <4>2. CASE i # Len(received) + 1
        <5>1. i \in 1..Len(received)
          BY <2>4, <4>2
        <5>2. PICK l \in 1..Len(noticed) :
                 /\ FileOf(received[i]) = noticed[l]
                 /\ \A j \in 1..l - 1 : \E h \in 1..i - 1 : FileOf(received[h]) = noticed[j]
          BY <5>1 DEF Ordered, InOrder
        <5>3. \A h \in 1..i - 1 : h \in 1..Len(received)
          BY <2>4, <5>1
        <5> QED
          BY <2>4, <5>1, <5>2, <5>3
      <4> QED
        BY <4>1, <4>2
    <3> QED
      BY <2>1, <3>1 DEF InOrder, r, FileOf
  <2>10. InLine'
    <3>1. base + arrived' <= Announced'
      BY <2>1, <2>2, <2>7
    <3>2. Announced' <= base + Len(unacked)
      BY <2>7
    <3> QED
      BY <1>1, <2>1, <3>1, <3>2 DEF InLine
  <2> QED
    BY <2>8, <2>9, <2>10 DEF Ordered
<1>7. CASE Ack
  <2>1. /\ arrived > 0 /\ unacked' = Tail(unacked) /\ arrived' = arrived - 1
        /\ UNCHANGED <<files, events, queue, received, noticed>>
    BY <1>7 DEF Ack
  <2>2. unacked # <<>>
    BY <1>2, <2>1
  <2>3. Announced' = Announced
    BY <2>1 DEF Heard, Announced
  <2>4. Len(unacked') = Len(unacked) - 1
    BY <1>2, <2>1, <2>2, HandOn
  <2>5. Carries(unacked', base + 1, noticed)
    BY <1>1, <1>2, <2>1, <2>2, CarriesOn
  <2>6. /\ base + 1 \in Nat /\ (base + 1) + arrived' = base + arrived
        /\ (base + 1) + Len(unacked') = base + Len(unacked)
    <3>1. base \in Nat /\ arrived \in Nat /\ Len(unacked) \in Nat
      BY <1>2
    <3>2. (base + 1) + arrived' = base + arrived
      BY <2>1, <3>1
    <3>3. (base + 1) + Len(unacked') = base + Len(unacked)
      BY <2>4, <3>1
    <3> QED
      BY <3>1, <3>2, <3>3
  <2>7. /\ (base + 1) + arrived' <= Announced' /\ Announced' <= (base + 1) + Len(unacked')
        /\ Carries(unacked', base + 1, noticed')
        /\ Carries(queue', (base + 1) + Len(unacked'), noticed')
        /\ Waiting((base + 1) + Len(unacked') + Len(queue'), events', noticed')
    BY <1>1, <2>1, <2>3, <2>5, <2>6
  <2>8. InLine'
    BY <2>6, <2>7 DEF InLine
  <2> QED
    BY <2>1, <2>8, SameHistory
<1>8. CASE Connect
  <2>1. UNCHANGED <<files, events, queue, unacked, arrived, received, noticed>>
    BY <1>8 DEF Connect
  <2>2. Announced' = Announced
    BY <2>1 DEF Heard, Announced
  <2>3. InLine'
    BY <1>1, <2>1, <2>2 DEF InLine
  <2> QED
    BY <2>1, <2>3, SameHistory
<1> QED
  BY <1>5, <1>6, <1>7, <1>8 DEF Connection

\* A lost connection sends again from the first unacknowledged message; a crash
\* leaves the files the broker has heard of.
LEMMA FailureOrdered ==
    ASSUME IInv, Ordered, Drop \/ Crash \/ Restart
    PROVE  Ordered'
<1>1. CASE Drop \/ Restart
  <2>1. /\ UNCHANGED <<files, events, queue, unacked, received, noticed>>
        /\ arrived' = arrived \/ arrived' = 0
    BY <1>1 DEF Drop, Restart
  <2>2. Announced' = Announced
    BY <2>1 DEF Heard, Announced
  <2>3. InLine'
    <3>1. PICK base \in Nat :
            /\ base + arrived <= Announced /\ Announced <= base + Len(unacked)
            /\ Carries(unacked, base, noticed)
            /\ Carries(queue, base + Len(unacked), noticed)
            /\ Waiting(base + Len(unacked) + Len(queue), events, noticed)
      BY DEF Ordered, InLine
    <3>2. base + arrived' <= Announced
      BY <2>1, <3>1, Found, FoundOrdered
    <3> QED
      BY <2>1, <2>2, <3>1, <3>2 DEF InLine
  <2> QED
    BY <2>1, <2>3, SameHistory
<1>2. CASE Crash
  <2> DEFINE a == Announced
             list == SubSeq(noticed, 1, a)
  <2>1. /\ events' = <<>> /\ queue' = <<>> /\ unacked' = <<>> /\ arrived' = 0
        /\ noticed' = list /\ UNCHANGED <<files, received>>
    BY <1>2 DEF Crash, Announced
  <2>2. Heard' = Heard /\ Announced' = a
    BY <2>1 DEF Heard, Announced
  <2>3. /\ noticed \in Seq(Announceable) /\ a \in Nat /\ a <= Len(noticed)
        /\ Len(noticed) \in Nat /\ Len(received) \in Nat
    BY FoundOrdered
  <2>4. /\ list \in Seq(Announceable) /\ Len(list) = a
        /\ \A k \in 1..a : list[k] = noticed[k]
    <3> HIDE DEF a
    <3> QED
      BY <2>3
  <2> HIDE DEF list, a
  <2>5. /\ IsFiniteSet(Heard) /\ Heard = {noticed[j] : j \in 1..a}
        /\ \A i, j \in 1..Len(noticed) : noticed[i] = noticed[j] => i = j
    BY DEF Ordered, Remembered, a
  <2>6. Remembered'
    <3>1. \A k \in 1..a : k \in 1..Len(noticed)
      BY <2>3
    <3>2. \A i, j \in 1..Len(list) : list[i] = list[j] => i = j
      BY <2>4, <2>5, <3>1
    <3>3. Heard = {list[j] : j \in 1..a}
      BY <2>4, <2>5
    <3>4. noticed' \in Seq(Announceable')
      BY <2>1, <2>4 DEF Announceable
    <3>5. a <= Len(list)
      BY <2>3, <2>4
    <3>6. IsFiniteSet(Heard') /\ Announced' <= Len(noticed')
      BY <2>1, <2>2, <2>5, <3>5
    <3>7. Heard' = {noticed'[j] : j \in 1..Announced'}
      BY <2>1, <2>2, <3>3
    <3>8. \A i, j \in 1..Len(noticed') : noticed'[i] = noticed'[j] => i = j
      BY <2>1, <3>2
    <3> HIDE DEF Announceable
    <3> QED
      BY <3>4, <3>6, <3>7, <3>8 DEF Remembered
  <2>7. InOrder'
    <3>1. ASSUME NEW i \in 1..Len(received)
          PROVE  \E k \in 1..Len(list) :
                    /\ FileOf(received[i]) = list[k]
                    /\ \A j \in 1..k - 1 : \E h \in 1..i - 1 : FileOf(received[h]) = list[j]
      <4>1. PICK k \in 1..Len(noticed) :
               /\ FileOf(received[i]) = noticed[k]
               /\ \A j \in 1..k - 1 : \E h \in 1..i - 1 : FileOf(received[h]) = noticed[j]
        BY DEF Ordered, InOrder
      <4>2. FileOf(received[i]) \in Heard
        <5>1. DOMAIN received = 1..Len(received)
          BY Found
        <5> QED
          BY <5>1 DEF Heard
      <4>3. PICK l \in 1..a : FileOf(received[i]) = noticed[l]
        BY <2>5, <4>2
      <4>4. k = l
        <5>1. l \in 1..Len(noticed)
          BY <2>3
        <5> QED
          BY <2>5, <4>1, <4>3, <5>1
      <4>5. k \in 1..a /\ \A j \in 1..k - 1 : j \in 1..a
        BY <2>3, <4>4
      <4> QED
        BY <2>4, <4>1, <4>5
    <3> QED
      BY <2>1, <3>1 DEF InOrder
  <2>8. InLine'
    <3>1. Carries(<<>>, a, list) /\ Carries(<<>>, a + 0, list)
      BY <2>3, <2>4 DEF Carries
    <3>2. Waiting(a + 0 + 0, <<>>, list)
      <4>1. Waits([i \in 1..1 |-> a + 1], a + 0 + 0, <<>>, list)
        BY <2>3, <2>4 DEF Waits
      <4> QED
        BY <4>1 DEF Waiting
    <3>3. Len(<<>>) = 0
      OBVIOUS
    <3>4. a + 0 <= a /\ a <= a + 0
      BY <2>3
    <3> QED
      BY <2>1, <2>2, <2>3, <3>1, <3>2, <3>3, <3>4 DEF InLine
  <2> QED
    BY <2>6, <2>7, <2>8 DEF Ordered
<1> QED
  BY <1>1, <1>2

\* What a chopper writes is a file.
LEMMA ChopCreates ==
    ASSUME IInv, NEW c \in Camera, NewSegment(c) \/ NewSnapshot(c) \/ NewPlaylist(c)
    PROVE  \E f \in File : Create(f)
<1>1. clock \in 0..MaxTime /\ 0 \in 0..MaxTime
  BY EmitterAssumption DEF IInv, TypeOK
<1>2. File1(c, "segment") \in File /\ File1(c, "snapshot") \in File
  BY <1>1 DEF File1, File
<1>3. [camera |-> c, kind |-> "playlist", epoch |-> 0] \in File
  BY <1>1 DEF File
<1> QED
  BY <1>2, <1>3 DEF NewSegment, NewSnapshot, NewPlaylist

\* The choppers create files, and time passes.
LEMMA ChopOrdered ==
    ASSUME IInv, Ordered, Chop
    PROVE  Ordered'
<1>1. ASSUME NEW c \in Camera, NewSegment(c) \/ NewSnapshot(c) \/ NewPlaylist(c)
      PROVE  Ordered'
  <2>1. \E f \in File : Create(f)
    BY <1>1, ChopCreates
  <2> QED
    BY <2>1, CreateOrdered
<1>2. ASSUME Tick \/ \E c \in Camera : ChopperStops(c)
      PROVE  Ordered'
  <2>1. UNCHANGED <<files, events, queue, unacked, arrived, received, noticed>>
    BY <1>2 DEF Tick, ChopperStops
  <2>2. Announced' = Announced
    BY <2>1 DEF Heard, Announced
  <2>3. InLine'
    BY <2>1, <2>2 DEF Ordered, InLine
  <2> QED
    BY <2>1, <2>3, SameHistory
<1> QED
  BY <1>1, <1>2 DEF Chop

\* Every step of the pipeline keeps the order.
LEMMA InductiveOrder == IInv /\ Ordered /\ [Next]_vars => Ordered'
<1> SUFFICES ASSUME IInv, Ordered, [Next]_vars PROVE Ordered'
  OBVIOUS
<1>1. CASE Next
  BY <1>1, ChopOrdered, EmitOrdered, ConnectionOrdered, FailureOrdered DEF Next, Environment
<1>2. CASE UNCHANGED vars
  <2>1. UNCHANGED <<files, events, queue, unacked, arrived, received, noticed>>
    BY <1>2 DEF vars
  <2>2. Announced' = Announced
    BY <2>1 DEF Heard, Announced
  <2>3. InLine'
    BY <2>1, <2>2 DEF Ordered, InLine
  <2> QED
    BY <2>1, <2>3, SameHistory
<1> QED
  BY <1>1, <1>2

\* The order holds in every reachable state.
THEOREM AlwaysOrdered == Spec => []Ordered
BY InitiallyOrdered, InductiveOrder, Invariance, PTL DEF Spec

\* No file that follows the nth is missing from the channel.
LEMMA AllWait ==
    ASSUME NEW X, NEW s \in Seq(X), NEW n \in Nat, NEW list, Len(list) \in Nat,
           Waiting(n, s, list)
    PROVE  \A k \in n + 1..Len(list) : \E i \in 1..Len(s) : s[i] = list[k]
<1>1. PICK place : Waits(place, n, s, list)
  BY DEF Waiting
<1>2. /\ place \in [1..Len(s) + 1 -> Nat] /\ place[1] = n + 1
      /\ place[Len(s) + 1] = Len(list) + 1 /\ Len(s) \in Nat
      /\ \A i \in 1..Len(s) :
            IF Announces(s[i])
            THEN s[i] = list[place[i]] /\ place[i + 1] = place[i] + 1
            ELSE place[i + 1] = place[i]
  BY <1>1 DEF Waits
<1> DEFINE E == {m \in Nat : m <= Len(s) =>
                    \A k \in n + 1..place[m + 1] - 1 : \E i \in 1..m : s[i] = list[k]}
<1>3. 0 \in E
  BY <1>2
<1>4. ASSUME NEW m \in Nat, m \in E PROVE m + 1 \in E
  <2> SUFFICES ASSUME m + 1 <= Len(s), NEW k \in n + 1..place[(m + 1) + 1] - 1
               PROVE  \E i \in 1..m + 1 : s[i] = list[k]
    OBVIOUS
  <2>1. /\ m + 1 \in 1..Len(s) /\ m <= Len(s)
        /\ place[m + 1] \in Nat /\ place[(m + 1) + 1] \in Nat
    <3>1. m + 1 \in 1..Len(s) /\ m <= Len(s)
      BY <1>2
    <3>2. m + 1 \in 1..Len(s) + 1 /\ (m + 1) + 1 \in 1..Len(s) + 1
      BY <1>2, <3>1
    <3> QED
      BY <1>2, <3>1, <3>2
  <2>2. \A j \in n + 1..place[m + 1] - 1 : \E i \in 1..m : s[i] = list[j]
    BY <1>4, <2>1
  <2>3. CASE k \in n + 1..place[m + 1] - 1
    <3>1. PICK i \in 1..m : s[i] = list[k]
      BY <2>2, <2>3
    <3>2. i \in 1..m + 1
      OBVIOUS
    <3> QED
      BY <3>1, <3>2
  <2>4. CASE k \notin n + 1..place[m + 1] - 1
    <3>1. /\ k \in n + 1..place[(m + 1) + 1] - 1 /\ ~(k <= place[m + 1] - 1)
      BY <2>1, <2>4
    <3>2. Announces(s[m + 1])
      BY <1>2, <2>1, <3>1
    <3>3. s[m + 1] = list[place[m + 1]] /\ place[(m + 1) + 1] = place[m + 1] + 1
      BY <1>2, <2>1, <3>2
    <3>4. k = place[m + 1]
      BY <2>1, <3>1, <3>3
    <3>5. m + 1 \in 1..m + 1
      OBVIOUS
    <3> QED
      BY <3>3, <3>4, <3>5
  <2> QED
    BY <2>3, <2>4
<1> HIDE DEF E
<1>5. Len(s) \in E
  BY <1>2, <1>3, <1>4, Induction
<1>6. /\ Len(s) <= Len(s) /\ place[Len(s) + 1] - 1 = Len(list)
  BY <1>2
<1>7. \A k \in n + 1..place[Len(s) + 1] - 1 : \E i \in 1..Len(s) : s[i] = list[k]
  BY <1>5, <1>6 DEF E
<1> QED
  BY <1>6, <1>7

\* A noticed file is announced or on its way, whatever the queue, the connection and
\* the crashes do (main.rs, NothingDropped).
THEOREM DropsNothing == Spec => []NothingDropped
<1>1. IInv /\ Ordered => NothingDropped
  <2> SUFFICES ASSUME IInv, Ordered, NEW k \in DOMAIN noticed
               PROVE  \/ noticed[k] \in Heard
                      \/ noticed[k] \in ToSet(events)
                      \/ noticed[k] \in {FileOf(m) : m \in ToSet(queue) \cup ToSet(unacked)}
    BY DEF NothingDropped
  <2>1. PICK base \in Nat :
          /\ base + arrived <= Announced /\ Announced <= base + Len(unacked)
          /\ Carries(unacked, base, noticed)
          /\ Carries(queue, base + Len(unacked), noticed)
          /\ Waiting(base + Len(unacked) + Len(queue), events, noticed)
    BY DEF Ordered, InLine
  <2>2. /\ events \in Seq(files) /\ Len(queue) \in Nat /\ Len(unacked) \in Nat
        /\ Len(noticed) \in Nat /\ Announced \in Nat
        /\ DOMAIN noticed = 1..Len(noticed) /\ DOMAIN events = 1..Len(events)
        /\ DOMAIN queue = 1..Len(queue) /\ DOMAIN unacked = 1..Len(unacked)
    BY Found, FoundOrdered
  <2>3. arrived \in Nat /\ k \in 1..Len(noticed)
    BY <2>2, Found
  <2>4. FileOf(EventOf(noticed[k])) = noticed[k]
    BY <2>3, FoundOrdered
  <2>5. CASE k <= Announced
    BY <2>3, <2>5, FoundOrdered DEF Ordered, Remembered
  <2>6. CASE ~(k <= Announced) /\ k <= base + Len(unacked)
    <3>1. k - base \in 1..Len(unacked) /\ base + (k - base) = k
      BY <2>1, <2>2, <2>3, <2>6
    <3>2. unacked[k - base] = EventOf(noticed[k])
      BY <2>1, <3>1 DEF Carries
    <3>3. EventOf(noticed[k]) \in ToSet(unacked)
      BY <2>2, <3>1, <3>2 DEF ToSet
    <3> QED
      BY <2>4, <3>3
  <2>7. CASE ~(k <= base + Len(unacked)) /\ k <= base + Len(unacked) + Len(queue)
    <3> DEFINE i == k - (base + Len(unacked))
    <3>1. i \in 1..Len(queue) /\ (base + Len(unacked)) + i = k
      BY <2>2, <2>3, <2>7
    <3> HIDE DEF i
    <3>2. queue[i] = EventOf(noticed[k])
      BY <2>1, <3>1 DEF Carries
    <3>3. EventOf(noticed[k]) \in ToSet(queue)
      BY <2>2, <3>1, <3>2 DEF ToSet
    <3> QED
      BY <2>4, <3>3
  <2>8. CASE ~(k <= base + Len(unacked) + Len(queue))
    <3> DEFINE n == base + Len(unacked) + Len(queue)
    <3>1. n \in Nat /\ k \in n + 1..Len(noticed) /\ Waiting(n, events, noticed)
      BY <2>1, <2>2, <2>3, <2>8
    <3> HIDE DEF n
    <3>2. PICK i \in 1..Len(events) : events[i] = noticed[k]
      BY <2>2, <3>1, AllWait
    <3> QED
      BY <2>2, <3>2 DEF ToSet
  <2> QED
    BY <2>5, <2>6, <2>7, <2>8
<1> QED
  BY <1>1, Invariance, AlwaysOrdered, PTL

\* A list's beginnings.
LEMMA Beginning ==
    ASSUME NEW X, NEW list \in Seq(X), NEW m \in 0..Len(list)
    PROVE  /\ SubSeq(list, 1, m) \in Seq(X) /\ Len(SubSeq(list, 1, m)) = m
           /\ ToSet(SubSeq(list, 1, m)) = {list[k] : k \in 1..m}
           /\ m < Len(list) =>
                 SubSeq(list, 1, m + 1) = Append(SubSeq(list, 1, m), list[m + 1])
           /\ \A f \in X : SubSeq(Append(list, f), 1, m) = SubSeq(list, 1, m)
           /\ m = Len(list) => SubSeq(list, 1, m) = list
<1>1. Len(list) \in Nat /\ m \in Nat /\ \A i \in 1..Len(list) : list[i] \in X
  OBVIOUS
<1>2. ASSUME NEW s \in Seq(X), NEW n \in 0..Len(s)
      PROVE  /\ SubSeq(s, 1, n) \in Seq(X) /\ Len(SubSeq(s, 1, n)) = n
             /\ \A i \in 1..n : SubSeq(s, 1, n)[i] = s[i]
  <2>1. n \in Int /\ 1 \in Int /\ \A i \in 1..n : s[i] \in X
    OBVIOUS
  <2>2. /\ SubSeq(s, 1, n) \in Seq(X)
        /\ Len(SubSeq(s, 1, n)) = IF 1 <= n THEN n - 1 + 1 ELSE 0
        /\ \A i \in 1..n - 1 + 1 : SubSeq(s, 1, n)[i] = s[1 + i - 1]
    BY <2>1, SubSeqProperties
  <2>3. n - 1 + 1 = n /\ \A i \in 1..n : 1 + i - 1 = i
    OBVIOUS
  <2>4. Len(SubSeq(s, 1, n)) = n
    BY <2>1, <2>2
  <2> QED
    BY <2>2, <2>3, <2>4
<1> DEFINE b == SubSeq(list, 1, m)
<1>3. b \in Seq(X) /\ Len(b) = m /\ \A i \in 1..m : b[i] = list[i]
  BY <1>2
<1>4. ToSet(b) = {list[k] : k \in 1..m}
  <2>1. DOMAIN b = 1..m
    BY <1>3
  <2> HIDE DEF b
  <2> QED
    BY <1>3, <2>1 DEF ToSet
<1>5. ASSUME m < Len(list)
      PROVE  SubSeq(list, 1, m + 1) = Append(b, list[m + 1])
  <2> DEFINE c == SubSeq(list, 1, m + 1)
             d == Append(b, list[m + 1])
  <2>1. m + 1 \in 0..Len(list) /\ list[m + 1] \in X
    BY <1>1, <1>5
  <2>2. c \in Seq(X) /\ Len(c) = m + 1 /\ \A i \in 1..m + 1 : c[i] = list[i]
    BY <1>2, <2>1
  <2> HIDE DEF b, c
  <2>3. d \in Seq(X) /\ Len(d) = m + 1 /\ d[m + 1] = list[m + 1] /\ \A i \in 1..m : d[i] = b[i]
    BY <1>3, <2>1
  <2> HIDE DEF d
  <2>4. ASSUME NEW i \in 1..m + 1 PROVE c[i] = d[i]
    <3>1. i \in 1..m \/ i = m + 1
      BY <1>1
    <3> QED
      BY <1>3, <2>2, <2>3, <3>1
  <2>5. c = d
    BY <2>2, <2>3, <2>4, SeqEqual
  <2> QED
    BY <2>5 DEF c, d
<1>6. ASSUME NEW f \in X PROVE SubSeq(Append(list, f), 1, m) = b
  <2> DEFINE more == Append(list, f)
             c == SubSeq(more, 1, m)
  <2>1. /\ more \in Seq(X) /\ m \in 0..Len(more)
        /\ \A i \in 1..m : more[i] = list[i]
    BY <1>1
  <2> HIDE DEF more
  <2>2. c \in Seq(X) /\ Len(c) = m /\ \A i \in 1..m : c[i] = more[i]
    BY <1>2, <2>1
  <2> HIDE DEF b, c
  <2>3. c = b
    BY <1>3, <2>1, <2>2, SeqEqual
  <2> QED
    BY <2>3 DEF c, more
<1>7. ASSUME m = Len(list) PROVE b = list
  <2> HIDE DEF b
  <2> QED
    BY <1>3, <1>7, SeqEqual
<1> QED
  BY <1>3, <1>4, <1>5, <1>6, <1>7

-----------------------------------------------------------------------------
(* The promise of EventFeed.  The list of first announcements is defined   *)
(* by a recursive function: Iteration gives it, and its recurrence is what *)
(* the proof uses.                                                         *)

\* g[n] is the list of the files the first n messages tell of.
Tells(g) ==
    /\ g[0] = <<>>
    /\ \A n \in 1..Len(received) :
          g[n] = IF FileOf(received[n]) \in ToSet(g[n - 1]) THEN g[n - 1]
                 ELSE Append(g[n - 1], FileOf(received[n]))

\* FirstHeard is such a list.
LEMMA Telling ==
    ASSUME IInv
    PROVE  \E g : Tells(g) /\ FirstHeard = g[Len(received)]
<1> DEFINE A == Seq(File)
           F == [n \in 1..Len(received) |->
                    [t \in A |-> IF FileOf(received[n]) \in ToSet(t) THEN t
                                 ELSE Append(t, FileOf(received[n]))]]
           IsTold(g) == g = [n \in 0..Len(received) |->
                               IF n = 0 THEN <<>>
                               ELSE IF FileOf(received[n]) \in ToSet(g[n - 1]) THEN g[n - 1]
                               ELSE Append(g[n - 1], FileOf(received[n]))]
           c == CHOOSE h : IsTold(h)
           nil == <<>>
<1>1. Len(received) \in Nat /\ nil \in A
  BY Found
<1>2. \A n \in 1..Len(received) : FileOf(received[n]) \in File
  <2> SUFFICES ASSUME NEW n \in 1..Len(received) PROVE FileOf(received[n]) \in File
    OBVIOUS
  <2>1. received[n] \in Told
    BY Found
  <2>2. PICK f \in files : Announces(f) /\ received[n] = EventOf(f)
    BY <2>1 DEF Told, Announceable
  <2>3. f \in File
    BY Found
  <2> QED
    BY <2>2, <2>3, EventFacts
<1>3. F \in [1..Len(received) -> [A -> A]]
  <2>1. ASSUME NEW n \in 1..Len(received), NEW t \in A
        PROVE (IF FileOf(received[n]) \in ToSet(t) THEN t ELSE Append(t, FileOf(received[n]))) \in A
    BY <1>2
  <2> QED
    BY <2>1
<1>4. PICK g \in [0..Len(received) -> A] :
         g[0] = nil /\ \A n \in 1..Len(received) : g[n] = F[n][g[n - 1]]
  <2> HIDE DEF A, F, nil
  <2>2. Iterates(A, nil, Len(received), F)
    BY <1>1, <1>3, Iteration
  <2> QED
    BY <2>2 DEF Iterates
<1>5. ASSUME NEW n \in 1..Len(received)
      PROVE  g[n] = IF FileOf(received[n]) \in ToSet(g[n - 1]) THEN g[n - 1]
                    ELSE Append(g[n - 1], FileOf(received[n]))
  <2>1. n - 1 \in 0..Len(received)
    BY <1>1
  <2>2. g[n - 1] \in A
    BY <2>1
  <2>3. g[n] = F[n][g[n - 1]]
    BY <1>4
  <2> QED
    BY <2>2, <2>3
<1>6. IsTold(g)
  <2> HIDE DEF A, F, nil
  <2>1. g = [n \in 0..Len(received) |-> g[n]]
    OBVIOUS
  <2>2. ASSUME NEW n \in 0..Len(received)
        PROVE  g[n] = IF n = 0 THEN <<>>
                      ELSE IF FileOf(received[n]) \in ToSet(g[n - 1]) THEN g[n - 1]
                      ELSE Append(g[n - 1], FileOf(received[n]))
    <3>1. CASE n = 0
      BY <3>1, <1>4 DEF nil
    <3>2. CASE n # 0
      <4>1. n \in 1..Len(received)
        BY <1>1, <3>2
      <4> QED
        BY <3>2, <4>1, <1>5
    <3> QED
      BY <3>1, <3>2
  <2> QED
    BY <2>1, <2>2, Zenon
<1>7. IsTold(c)
  <2> HIDE DEF IsTold
  <2> QED
    BY <1>6
<1>8. FirstHeard = c[Len(received)]
  BY DEF FirstHeard
<1>9. Tells(c)
  <2> HIDE DEF c, A, F
  <2>1. c[0] = <<>>
    BY <1>1, <1>7
  <2>2. ASSUME NEW n \in 1..Len(received)
        PROVE c[n] = IF FileOf(received[n]) \in ToSet(c[n - 1]) THEN c[n - 1]
                     ELSE Append(c[n - 1], FileOf(received[n]))
    <3>1. n \in 0..Len(received) /\ n # 0
      BY <1>1
    <3>2. \A k \in 0..Len(received) : k # 0 =>
             c[k] = IF FileOf(received[k]) \in ToSet(c[k - 1]) THEN c[k - 1]
                    ELSE Append(c[k - 1], FileOf(received[k]))
      BY <1>7, Zenon
    <3> QED
      BY <3>1, <3>2
  <2> QED
    BY <2>1, <2>2 DEF Tells
<1> HIDE DEF c
<1> QED
  BY <1>8, <1>9

\* What subscribers have been told first is a beginning of what was noticed.
HeardInOrder == FirstHeard = SubSeq(noticed, 1, Announced)

\* By induction on the messages: each repeats a file or tells of the next one.
LEMMA HearsInOrder ==
    ASSUME IInv, Ordered
    PROVE  HeardInOrder
<1>1. PICK g : Tells(g) /\ FirstHeard = g[Len(received)]
  BY Telling
<1>2. /\ noticed \in Seq(Announceable) /\ Len(noticed) \in Nat /\ Len(received) \in Nat
      /\ Announced \in Nat /\ Announced <= Len(noticed)
      /\ DOMAIN received = 1..Len(received)
  BY Found, FoundOrdered
<1>3. /\ \A j, k \in 1..Len(noticed) : noticed[j] = noticed[k] => j = k
      /\ Heard = {noticed[k] : k \in 1..Announced}
  BY DEF Ordered, Remembered
<1> DEFINE So(n, m) == /\ g[n] = SubSeq(noticed, 1, m)
                       /\ {FileOf(received[i]) : i \in 1..n} = {noticed[k] : k \in 1..m}
           E == {n \in Nat : n <= Len(received) => \E m \in 0..Len(noticed) : So(n, m)}
<1> HIDE DEF So
<1>4. 0 \in E
  <2>1. g[0] = <<>>
    BY <1>1 DEF Tells
  <2>2. SubSeq(noticed, 1, 0) = <<>>
    BY SubSeqEmpty
  <2>3. 0 \in 0..Len(noticed)
    BY <1>2
  <2>4. 1..0 = {}
    OBVIOUS
  <2>5. So(0, 0)
    BY <2>1, <2>2, <2>4 DEF So
  <2> QED
    BY <2>3, <2>5
<1>5. ASSUME NEW n \in Nat, n \in E PROVE n + 1 \in E
  <2> SUFFICES ASSUME n + 1 <= Len(received) PROVE \E m \in 0..Len(noticed) : So(n + 1, m)
    OBVIOUS
  <2> DEFINE f == FileOf(received[n + 1])
  <2>1. PICK m \in 0..Len(noticed) : So(n, m)
    BY <1>2, <1>5
  <2>2. n + 1 \in 1..Len(received) /\ (n + 1) - 1 = n
    BY <1>2
  <2>3. g[n + 1] = IF f \in ToSet(g[n]) THEN g[n] ELSE Append(g[n], f)
    BY <1>1, <2>2 DEF Tells
  <2>4. ToSet(g[n]) = {noticed[k] : k \in 1..m}
    BY <1>2, <2>1, Beginning DEF So
  <2>5. {FileOf(received[i]) : i \in 1..n + 1} = {FileOf(received[i]) : i \in 1..n} \cup {f}
    <3>1. \A i \in 1..n + 1 : i \in 1..n \/ i = n + 1
      OBVIOUS
    <3>2. n + 1 \in 1..n + 1 /\ \A i \in 1..n : i \in 1..n + 1
      OBVIOUS
    <3> QED
      BY <3>1, <3>2
  <2> HIDE DEF f
  <2>6. CASE f \in ToSet(g[n])
    <3>1. So(n + 1, m)
      BY <2>1, <2>3, <2>4, <2>5, <2>6 DEF So
    <3> QED
      BY <3>1
  <2>7. CASE f \notin ToSet(g[n])
    <3>1. PICK k \in 1..Len(noticed) :
             /\ f = noticed[k]
             /\ \A j \in 1..k - 1 : \E h \in 1..(n + 1) - 1 : FileOf(received[h]) = noticed[j]
      BY <2>2 DEF Ordered, InOrder, f
    <3>2. \A j \in 1..k - 1 : noticed[j] \in {noticed[l] : l \in 1..m}
      BY <2>1, <2>2, <3>1 DEF So
    <3>3. k = m + 1
      <4>1. k \notin 1..m
        BY <2>4, <2>7, <3>1
      <4>2. ASSUME k > m + 1 PROVE FALSE
        <5>1. m + 1 \in 1..k - 1 /\ m + 1 \in 1..Len(noticed)
          BY <1>2, <4>2
        <5>2. PICK l \in 1..m : noticed[m + 1] = noticed[l]
          BY <3>2, <5>1
        <5>3. l \in 1..Len(noticed)
          BY <1>2
        <5>4. m + 1 = l
          BY <1>3, <5>1, <5>2, <5>3
        <5> QED
          BY <5>4
      <4> QED
        BY <4>1, <4>2
    <3>4. m < Len(noticed) /\ m + 1 \in 0..Len(noticed)
      BY <1>2, <3>3
    <3>5. g[n + 1] = SubSeq(noticed, 1, m + 1)
      BY <1>2, <2>1, <2>3, <2>7, <3>1, <3>3, <3>4, Beginning DEF So
    <3>6. {noticed[l] : l \in 1..m + 1} = {noticed[l] : l \in 1..m} \cup {f}
      <4>1. \A i \in 1..m + 1 : i \in 1..m \/ i = m + 1
        OBVIOUS
      <4>2. m + 1 \in 1..m + 1 /\ \A i \in 1..m : i \in 1..m + 1
        OBVIOUS
      <4> QED
        BY <3>1, <3>3, <4>1, <4>2
    <3>7. So(n + 1, m + 1)
      BY <2>1, <2>5, <3>5, <3>6 DEF So
    <3> QED
      BY <3>4, <3>7
  <2> QED
    BY <2>6, <2>7
<1> HIDE DEF E
<1>6. Len(received) \in E
  BY <1>2, <1>4, <1>5, Induction
<1>7. PICK m \in 0..Len(noticed) : So(Len(received), m)
  BY <1>2, <1>6 DEF E
<1>8. {noticed[k] : k \in 1..m} = {noticed[k] : k \in 1..Announced}
  BY <1>2, <1>3, <1>7 DEF Heard, So
<1>9. m = Announced
  <2>1. ASSUME NEW i \in 0..Len(noticed), NEW j \in 0..Len(noticed), i < j,
               {noticed[k] : k \in 1..i} = {noticed[k] : k \in 1..j}
        PROVE  FALSE
    <3>1. j \in 1..j /\ j \in 1..Len(noticed)
      BY <1>2, <2>1
    <3>2. PICK k \in 1..i : noticed[k] = noticed[j]
      <4>1. noticed[j] \in {noticed[k] : k \in 1..j}
        BY <3>1
      <4>2. noticed[j] \in {noticed[k] : k \in 1..i}
        BY <2>1, <4>1
      <4> QED
        BY <4>2
    <3>3. k \in 1..Len(noticed)
      BY <1>2
    <3>4. k = j
      BY <1>3, <3>1, <3>2, <3>3
    <3> QED
      BY <2>1, <3>4
  <2>2. Announced \in 0..Len(noticed)
    BY <1>2
  <2>3. m < Announced \/ m = Announced \/ Announced < m
    BY <1>2
  <2> QED
    BY <1>8, <2>1, <2>2, <2>3
<1> QED
  BY <1>1, <1>7, <1>9 DEF HeardInOrder, So

\* An empty pipeline has promised nothing.
LEMMA FeedsFirst == Init => Feed!Init
<1> SUFFICES ASSUME Init PROVE Feed!Init
  OBVIOUS
<1>1. received = <<>> /\ noticed = <<>>
  BY DEF Init
<1>2. IInv
  BY Initially
<1>3. PICK g : Tells(g) /\ FirstHeard = g[Len(received)]
  BY <1>2, Telling
<1>4. FirstHeard = <<>>
  BY <1>1, <1>3 DEF Tells
<1> QED
  BY <1>1, <1>4 DEF Feed!Init

\* A creation notices a file, an arrival announces the next one, a crash forgets
\* those that are not announced, and every other step leaves the feed as it is.
LEMMA FeedsOn ==
    ASSUME IInv, Ordered, HeardInOrder, IInv', Ordered', HeardInOrder', [Next]_vars
    PROVE  [Feed!Next]_Feed!vars
<1> DEFINE a == Announced
<1>1. /\ noticed \in Seq(Announceable) /\ Len(noticed) \in Nat
      /\ a \in Nat /\ a <= Len(noticed) /\ a \in 0..Len(noticed)
  BY FoundOrdered
<1>2. FirstHeard = SubSeq(noticed, 1, a) /\ FirstHeard' = SubSeq(noticed', 1, a')
  BY DEF HeardInOrder
<1> HIDE DEF a
<1>3. ASSUME UNCHANGED <<received, noticed>> PROVE UNCHANGED Feed!vars
  <2>1. a' = a
    BY <1>3 DEF a, Announced, Heard
  <2> QED
    BY <1>2, <1>3, <2>1 DEF Feed!vars
<1>4. ASSUME NEW f \in File, Create(f) PROVE Feed!Notice \/ UNCHANGED Feed!vars
  <2>1. received' = received /\ (noticed' = Append(noticed, f) \/ noticed' = noticed)
    BY <1>4 DEF Create
  <2>2. CASE noticed' = noticed
    BY <1>3, <2>1, <2>2
  <2>3. CASE noticed' = Append(noticed, f)
    <3>1. a' = a
      BY <2>1 DEF a, Announced, Heard
    <3>2. noticed \in Seq(File)
      BY <1>1, Found, SeqMonotonic DEF Announceable
    <3>3. SubSeq(Append(noticed, f), 1, a) = SubSeq(noticed, 1, a)
      BY <1>1, <3>2, Beginning
    <3>4. FirstHeard' = FirstHeard
      BY <1>2, <2>3, <3>1, <3>3
    <3> QED
      BY <2>3, <3>4 DEF Feed!Notice
  <2> QED
    BY <2>1, <2>2, <2>3
<1>5. ASSUME Arrive PROVE Feed!Announce \/ UNCHANGED Feed!vars
  <2>1. /\ arrived + 1 \in 1..Len(unacked) /\ noticed' = noticed
        /\ received' = Append(received, unacked[arrived + 1])
    BY <1>5, Found DEF Arrive
  <2> DEFINE f == FileOf(unacked[arrived + 1])
  <2>2. Heard' = Heard \cup {f}
    BY <1>5, ArriveFacts
  <2> HIDE DEF f
  <2>3. a' = a \/ a' = a + 1
    <3>1. IsFiniteSet(Heard)
      BY DEF Ordered, Remembered
    <3>2. CASE f \in Heard
      <4>1. Heard' = Heard
        BY <2>2, <3>2
      <4> QED
        BY <4>1 DEF a, Announced
    <3>3. CASE f \notin Heard
      BY <2>2, <3>1, <3>3, FS_AddElement DEF a, Announced
    <3> QED
      BY <3>2, <3>3
  <2>4. CASE a' = a
    BY <1>2, <2>1, <2>4 DEF Feed!vars
  <2>5. CASE a' = a + 1
    <3>1. a < Len(noticed)
      <4>1. a' <= Len(noticed')
        BY DEF Ordered, Remembered, a
      <4> QED
        BY <1>1, <2>1, <2>5, <4>1
    <3>2. FirstHeard' = Append(FirstHeard, noticed[a + 1]) /\ Len(FirstHeard) = a
      BY <1>1, <1>2, <2>1, <2>5, <3>1, Beginning
    <3> QED
      BY <2>1, <3>1, <3>2 DEF Feed!Announce
  <2> QED
    BY <2>3, <2>4, <2>5
<1>6. ASSUME Crash PROVE Feed!Forget
  <2>1. noticed' = SubSeq(noticed, 1, a) /\ a' = a
    BY <1>6 DEF Crash, a, Announced, Heard
  <2>2. SubSeq(noticed', 1, a) = noticed'
    <3> DEFINE list == SubSeq(noticed, 1, a)
    <3>1. list \in Seq(Announceable) /\ Len(list) = a
      BY <1>1, Beginning
    <3> HIDE DEF list
    <3>2. a \in 0..Len(list)
      BY <1>1, <3>1
    <3>3. SubSeq(list, 1, a) = list
      BY <3>1, <3>2, Beginning
    <3> QED
      BY <2>1, <3>3 DEF list
  <2>3. noticed' = FirstHeard /\ FirstHeard' = FirstHeard
    BY <1>2, <2>1, <2>2
  <2> QED
    BY <2>3 DEF Feed!Forget
<1>7. ASSUME Chop PROVE Feed!Notice \/ UNCHANGED Feed!vars
  <2>1. ASSUME NEW c \in Camera, NewSegment(c) \/ NewSnapshot(c) \/ NewPlaylist(c)
        PROVE  Feed!Notice \/ UNCHANGED Feed!vars
    <3>1. PICK f \in File : Create(f)
      BY <2>1, ChopCreates
    <3> QED
      BY <1>4, <3>1
  <2>2. ASSUME Tick \/ \E c \in Camera : ChopperStops(c) PROVE UNCHANGED Feed!vars
    <3>1. UNCHANGED <<received, noticed>>
      BY <2>2 DEF Tick, ChopperStops
    <3> QED
      BY <1>3, <3>1
  <2> QED
    BY <1>7, <2>1, <2>2 DEF Chop
<1>8. CASE Next
  <2>1. ASSUME Emit \/ Send \/ Ack \/ Connect \/ Drop \/ Restart PROVE UNCHANGED Feed!vars
    <3>1. UNCHANGED <<received, noticed>>
      BY <2>1 DEF Emit, Publish, Skip, Send, Ack, Connect, Drop, Restart
    <3> QED
      BY <1>3, <3>1
  <2> QED
    BY <1>5, <1>6, <1>7, <1>8, <2>1 DEF Next, Connection, Environment, Feed!Next
<1>9. CASE UNCHANGED vars
  BY <1>3, <1>9 DEF vars
<1> QED
  BY <1>8, <1>9

\* Through a full queue, lost connections, repetitions and crashes, a subscriber that
\* hears of a file has heard of every file noticed before it, in their order: the
\* pipeline implements EventFeed (main.rs, IsFeed).
THEOREM KeepsPromise == Spec => IsFeed
<1>1. IInv /\ Ordered => HeardInOrder
  BY HearsInOrder
<1>2. /\ IInv /\ Ordered /\ HeardInOrder /\ IInv' /\ Ordered' /\ HeardInOrder'
      /\ [Next]_vars
      => [Feed!Next]_Feed!vars
  BY FeedsOn
<1> QED
  BY <1>1, <1>2, FeedsFirst, Invariance, AlwaysOrdered, PTL DEF Spec, IsFeed, Feed!Spec

=============================================================================
