---------------------------- MODULE ProbeProofs ----------------------------
(***************************************************************************)
(* The safety of the probe step for any number of cameras and profiles.    *)
(*                                                                         *)
(* The counter of outstanding answers cannot be related to the cameras by  *)
(* itself: the invariant follows each position through its two phases, the *)
(* one in which exactly one command is at work for it and nothing is known *)
(* of it, and the one in which it has answered.                            *)
(***************************************************************************)
EXTENDS Probe, FiniteSetTheorems, FunctionTheorems, ListFacts, TLAPS

Unanswered(r) == ~r.err /\ r.streams = <<>> /\ r.chosen = 1

Answered(r) ==
    \/ r.err /\ r.streams = <<>> /\ r.chosen = 1
    \/ ~r.err /\ r.streams # <<>> /\ r.chosen \in 1..Len(r.streams)

Asked(i) == \E c \in inflight : c.index = i

CommandsMatch ==
    \A c \in inflight : /\ c.index \in DOMAIN results
                        /\ c.camera = results[c.index].camera
                        /\ c.creds = results[c.index].creds

PhaseOK ==
    \A i \in DOMAIN results :
        IF Asked(i) THEN Unanswered(results[i]) ELSE Answered(results[i])

IInv ==
    /\ TypeOK
    /\ IsFiniteSet(inflight)
    /\ PendingExact
    /\ CommandsMatch
    /\ PhaseOK
    /\ OwnStreams
    /\ done => state = "results"

-----------------------------------------------------------------------------

\* A camera that answers offers as many streams as asked for, all of them its own.
LEMMA StreamsOfFacts ==
    ASSUME NEW c \in Command, NEW n \in 1..MaxStreams
    PROVE  /\ StreamsOf(c, n) \in Seq(Stream)
           /\ Len(StreamsOf(c, n)) = n
           /\ StreamsOf(c, n) # <<>>
           /\ \A p \in DOMAIN StreamsOf(c, n) :
                 /\ StreamsOf(c, n)[p].camera = c.camera
                 /\ StreamsOf(c, n)[p].creds = c.creds
<1>1. n \in Nat \ {0} /\ 1..n \subseteq 1..MaxStreams
  BY ProbeAssumption
<1>2. StreamsOf(c, n) \in [1..n -> Stream]
  BY <1>1 DEF StreamsOf, Stream, Command
<1>3. StreamsOf(c, n) \in Seq(Stream) /\ Len(StreamsOf(c, n)) = n
  BY <1>1, <1>2
<1>4. DOMAIN StreamsOf(c, n) = 1..n
  BY DEF StreamsOf
<1> QED
  BY <1>1, <1>3, <1>4 DEF StreamsOf

\* The step starts with one command per camera: the positions and the commands
\* correspond one to one.
LEMMA InitCommandsCount ==
    ASSUME NEW n \in Nat, NEW cams, NEW crs, DOMAIN cams = 1..n
    PROVE  /\ IsFiniteSet(InitCommands(cams, crs))
           /\ Cardinality(InitCommands(cams, crs)) = n
<1> DEFINE T == InitCommands(cams, crs)
           F == [i \in 1..n |-> ProbeCameraCmd(i, cams[i], crs[i])]
<1>1. F \in [1..n -> T]
  BY DEF InitCommands
<1>2. \A i, j \in 1..n : F[i] = F[j] => i = j
  BY DEF ProbeCameraCmd
<1>3. \A t \in T : \E i \in 1..n : F[i] = t
  BY DEF InitCommands
<1>4. F \in Bijection(1..n, T)
  BY <1>1, <1>2, <1>3, Fun_IsBij
<1>5. ExistsBijection(1..n, T)
  BY <1>4 DEF ExistsBijection
<1>6. Cardinality(T) = n
  BY <1>5, FS_CountingElements
<1>7. IsFiniteSet(T)
  BY <1>5, FS_NatBijection
<1> QED
  BY <1>6, <1>7

-----------------------------------------------------------------------------

LEMMA InitIInv == Init => IInv
<1> SUFFICES ASSUME Init PROVE IInv
  OBVIOUS
<1>a. PICK cams \in Lists(Camera) : \E crs \in [DOMAIN cams -> Credential] :
         /\ results = NewResults(cams, crs)
         /\ pending = Len(cams)
         /\ inflight = InitCommands(cams, crs)
  BY DEF Init
<1>b. PICK n \in 1..MaxCameras : cams \in [1..n -> Camera]
  BY DEF Lists
<1>1. PICK crs \in [1..n -> Credential] :
         /\ results = NewResults(cams, crs)
         /\ pending = Len(cams)
         /\ inflight = InitCommands(cams, crs)
  BY <1>a, <1>b
<1>2. n \in Nat \ {0} /\ Len(cams) = n /\ DOMAIN cams = 1..n
  BY <1>b, ProbeAssumption
<1>3. state = "running" /\ cursor = 1 /\ done = FALSE
  BY DEF Init
<1>4. /\ DOMAIN results = 1..n
      /\ \A i \in 1..n : results[i] = [camera |-> cams[i], creds |-> crs[i],
                                       streams |-> <<>>, err |-> FALSE, chosen |-> 1]
  BY <1>1, <1>2 DEF NewResults
<1>5. results \in [1..n -> Result]
  BY <1>b, <1>1, <1>2 DEF NewResults, Result
<1>6. inflight = {ProbeCameraCmd(i, cams[i], crs[i]) : i \in 1..n}
  BY <1>1, <1>2 DEF InitCommands
<1>7. inflight \subseteq Command
  BY <1>b, <1>2, <1>6 DEF ProbeCameraCmd, Command
<1>8. TypeOK
  <2>1. pending \in Int /\ cursor \in DOMAIN results
    BY <1>1, <1>2, <1>3, <1>4
  <2>2. \E m \in 1..MaxCameras : results \in [1..m -> Result]
    BY <1>5
  <2> QED
    BY <1>3, <1>7, <2>1, <2>2 DEF TypeOK
<1>9. IsFiniteSet(inflight) /\ Cardinality(inflight) = n
  BY <1>1, <1>2, InitCommandsCount
<1>10. PendingExact
  <2>1. \A c, d \in inflight : c.index = d.index => c = d
    BY <1>6 DEF ProbeCameraCmd
  <2>2. inflight # {}
    BY <1>2, <1>6
  <2> QED
    BY <1>1, <1>2, <1>3, <1>9, <2>1, <2>2 DEF PendingExact
<1>11. CommandsMatch
  BY <1>4, <1>6 DEF CommandsMatch, ProbeCameraCmd
<1>12. PhaseOK
  <2> SUFFICES ASSUME NEW i \in 1..n
               PROVE  Asked(i) /\ Unanswered(results[i])
    BY <1>4 DEF PhaseOK
  <2>1. ProbeCameraCmd(i, cams[i], crs[i]) \in inflight
    BY <1>6
  <2>2. Asked(i)
    BY <2>1 DEF Asked, ProbeCameraCmd
  <2>3. Unanswered(results[i])
    BY <1>4 DEF Unanswered
  <2> QED
    BY <2>2, <2>3
<1>13. OwnStreams
  BY <1>4 DEF OwnStreams
<1> QED
  BY <1>3, <1>8, <1>9, <1>10, <1>11, <1>12, <1>13 DEF IInv

\* One answer arrives: its position leaves the first phase for the second and the
\* counter follows.
LEMMA ProbeResultIInv ==
    ASSUME IInv, NEW c \in inflight, ProbeResult(c)
    PROVE  IInv'
<1> USE DEF IInv
<1>1. PICK n \in 1..MaxCameras : results \in [1..n -> Result]
  BY DEF TypeOK
<1>2. PICK a \in GetStreamURIs(c) :
         results' = [results EXCEPT ![c.index].streams = a.streams, ![c.index].err = a.err]
  BY DEF ProbeResult
<1>3. /\ inflight' = inflight \ {c}
      /\ pending' = pending - 1
      /\ state' = IF pending - 1 <= 0 THEN "results" ELSE state
      /\ cursor' = cursor /\ done' = done /\ ~done
  BY DEF ProbeResult
<1>4. /\ n \in Nat \ {0} /\ DOMAIN results = 1..n
      /\ c \in Command /\ c.index \in 1..n
      /\ c.camera = results[c.index].camera /\ c.creds = results[c.index].creds
  BY <1>1, ProbeAssumption DEF TypeOK, CommandsMatch
<1>5. Unanswered(results[c.index])
  BY <1>4 DEF PhaseOK, Asked
<1>6. /\ a.streams \in Seq(Stream) /\ a.err \in BOOLEAN
      /\ a.err <=> a.streams = <<>>
      /\ \A p \in DOMAIN a.streams : /\ a.streams[p].camera = c.camera
                                     /\ a.streams[p].creds = c.creds
      /\ ~a.err => 1 \in 1..Len(a.streams)
  <2>1. CASE a = [streams |-> <<>>, err |-> TRUE]
    BY <2>1
  <2>2. CASE \E k \in 1..MaxStreams : a = [streams |-> StreamsOf(c, k), err |-> FALSE]
    <3>1. PICK k \in 1..MaxStreams : a = [streams |-> StreamsOf(c, k), err |-> FALSE]
      BY <2>2
    <3>2. k \in Nat \ {0}
      BY ProbeAssumption
    <3> QED
      BY <1>4, <3>1, <3>2, StreamsOfFacts
  <2> QED
    BY <1>2, <2>1, <2>2 DEF GetStreamURIs
<1>7. /\ DOMAIN results' = 1..n
      /\ \A i \in 1..n : i # c.index => results'[i] = results[i]
      /\ results'[c.index] = [results[c.index] EXCEPT !.streams = a.streams, !.err = a.err]
  BY <1>1, <1>2, <1>4
<1>8. results[c.index] \in Result
  BY <1>1, <1>4
<1>9. /\ results'[c.index].camera = results[c.index].camera
      /\ results'[c.index].creds = results[c.index].creds
      /\ results'[c.index].streams = a.streams
      /\ results'[c.index].err = a.err
      /\ results'[c.index].chosen = results[c.index].chosen
      /\ results'[c.index] \in Result
  BY <1>6, <1>7, <1>8 DEF Result
<1>10. results' \in [1..n -> Result]
  BY <1>1, <1>2, <1>7, <1>9
<1>11. IsFiniteSet(inflight') /\ Cardinality(inflight') = Cardinality(inflight) - 1
  BY <1>3, FS_RemoveElement
<1>12. Cardinality(inflight) \in Nat /\ Cardinality(inflight') \in Nat
  BY <1>11, FS_CardinalityType
<1>13. Cardinality(inflight') = 0 <=> inflight' = {}
  BY <1>11, FS_EmptySet
<1>14. PendingExact'
  <2>1. pending' = Cardinality(inflight')
    BY <1>3, <1>11 DEF PendingExact
  <2>2. (\A d, e \in inflight : d.index = e.index => d = e)'
    BY <1>3 DEF PendingExact
  <2>3. ((state = "results") = (inflight = {}))'
    BY <1>3, <1>12, <1>13, <2>1 DEF PendingExact
  <2> QED
    BY <2>1, <2>2, <2>3 DEF PendingExact
<1>15. TypeOK'
  BY <1>3, <1>4, <1>7, <1>10 DEF TypeOK
<1>16. CommandsMatch'
  <2> SUFFICES ASSUME NEW d \in inflight'
               PROVE  /\ d.index \in 1..n
                      /\ d.camera = results'[d.index].camera
                      /\ d.creds = results'[d.index].creds
    BY <1>7 DEF CommandsMatch
  <2>1. d \in inflight /\ d.index # c.index
    BY <1>3 DEF PendingExact
  <2> QED
    BY <1>4, <1>7, <2>1 DEF CommandsMatch
<1>17. PhaseOK'
  <2> SUFFICES ASSUME NEW i \in 1..n
               PROVE  IF Asked(i)' THEN Unanswered(results'[i]) ELSE Answered(results'[i])
    BY <1>7 DEF PhaseOK
  <2>1. CASE i = c.index
    <3>1. ~Asked(i)'
      BY <1>3, <2>1 DEF Asked, PendingExact
    <3>2. Answered(results'[i])
      BY <1>5, <1>6, <1>9, <2>1 DEF Answered, Unanswered
    <3> QED
      BY <3>1, <3>2
  <2>2. CASE i # c.index
    <3>1. Asked(i)' <=> Asked(i)
      BY <1>3, <2>2 DEF Asked
    <3> QED
      BY <1>4, <1>7, <2>2, <3>1 DEF PhaseOK
  <2> QED
    BY <2>1, <2>2
<1>18. OwnStreams'
  <2> SUFFICES ASSUME NEW i \in 1..n
               PROVE  \A p \in DOMAIN results'[i].streams :
                        /\ results'[i].streams[p].camera = results'[i].camera
                        /\ results'[i].streams[p].creds = results'[i].creds
    BY <1>7 DEF OwnStreams
  <2>1. CASE i = c.index
    BY <1>4, <1>6, <1>9, <2>1
  <2>2. CASE i # c.index
    BY <1>4, <1>7, <2>2 DEF OwnStreams
  <2> QED
    BY <2>1, <2>2
<1> QED
  BY <1>3, <1>11, <1>14, <1>15, <1>16, <1>17, <1>18

\* A failed camera is asked again: its position goes back to the first phase.
LEMMA KeyRetryIInv == IInv /\ KeyRetry => IInv'
<1> SUFFICES ASSUME IInv, KeyRetry PROVE IInv'
  OBVIOUS
<1> USE DEF IInv
<1> DEFINE cmd == ProbeCameraCmd(cursor, results[cursor].camera, results[cursor].creds)
<1>1. PICK n \in 1..MaxCameras : results \in [1..n -> Result]
  BY DEF TypeOK
<1>2. /\ state = "results" /\ ~done /\ results[cursor].err
      /\ results' = [results EXCEPT ![cursor].err = FALSE]
      /\ state' = "running"
      /\ inflight' = inflight \cup {cmd}
      /\ pending' = pending + 1 /\ cursor' = cursor /\ done' = done
  BY DEF KeyRetry, Reprobe, Listening
<1>3. /\ n \in Nat \ {0} /\ DOMAIN results = 1..n /\ cursor \in 1..n
      /\ results[cursor] \in Result
  BY <1>1, ProbeAssumption DEF TypeOK
<1>4. inflight = {}
  BY <1>2 DEF PendingExact
<1>5. Answered(results[cursor])
  BY <1>3, <1>4 DEF PhaseOK, Asked
<1>6. /\ DOMAIN results' = 1..n
      /\ \A i \in 1..n : i # cursor => results'[i] = results[i]
      /\ results'[cursor] = [results[cursor] EXCEPT !.err = FALSE]
  BY <1>1, <1>2, <1>3
<1>7. /\ results'[cursor].camera = results[cursor].camera
      /\ results'[cursor].creds = results[cursor].creds
      /\ results'[cursor].streams = results[cursor].streams
      /\ ~results'[cursor].err
      /\ results'[cursor].chosen = results[cursor].chosen
      /\ results'[cursor] \in Result
  BY <1>3, <1>6 DEF Result
<1>8. results' \in [1..n -> Result]
  BY <1>1, <1>2, <1>6, <1>7
<1>9. /\ inflight' = {cmd} /\ cmd \in Command
      /\ cmd.index = cursor
      /\ cmd.camera = results[cursor].camera
      /\ cmd.creds = results[cursor].creds
  BY <1>2, <1>3, <1>4 DEF ProbeCameraCmd, Command, Result
<1>10. IsFiniteSet(inflight') /\ Cardinality(inflight') = 1
  BY <1>9, FS_Singleton
<1>11. pending' = 1
  BY <1>2, <1>4, FS_EmptySet DEF PendingExact
<1>12. PendingExact'
  BY <1>2, <1>9, <1>10, <1>11 DEF PendingExact
<1>13. TypeOK'
  <2>1. \E m \in 1..MaxCameras : results' \in [1..m -> Result]
    BY <1>8
  <2> QED
    BY <1>2, <1>3, <1>6, <1>9, <1>11, <2>1 DEF TypeOK
<1>14. CommandsMatch'
  BY <1>3, <1>6, <1>7, <1>9 DEF CommandsMatch
<1>15. PhaseOK'
  <2> SUFFICES ASSUME NEW i \in 1..n
               PROVE  IF Asked(i)' THEN Unanswered(results'[i]) ELSE Answered(results'[i])
    BY <1>6 DEF PhaseOK
  <2>1. CASE i = cursor
    <3>1. Asked(i)'
      BY <1>9, <2>1 DEF Asked
    <3>2. Unanswered(results'[i])
      BY <1>2, <1>5, <1>7, <2>1 DEF Answered, Unanswered
    <3> QED
      BY <3>1, <3>2
  <2>2. CASE i # cursor
    <3>1. ~Asked(i)' /\ ~Asked(i)
      BY <1>4, <1>9, <2>2 DEF Asked
    <3> QED
      BY <1>3, <1>6, <2>2, <3>1 DEF PhaseOK
  <2> QED
    BY <2>1, <2>2
<1>16. OwnStreams'
  <2> SUFFICES ASSUME NEW i \in 1..n
               PROVE  \A p \in DOMAIN results'[i].streams :
                        /\ results'[i].streams[p].camera = results'[i].camera
                        /\ results'[i].streams[p].creds = results'[i].creds
    BY <1>6 DEF OwnStreams
  <2>1. CASE i = cursor
    BY <1>3, <1>7, <2>1 DEF OwnStreams
  <2>2. CASE i # cursor
    BY <1>3, <1>6, <2>2 DEF OwnStreams
  <2> QED
    BY <2>1, <2>2
<1> QED
  BY <1>2, <1>10, <1>12, <1>13, <1>14, <1>15, <1>16

\* Another profile is chosen for the highlighted camera, within its streams.
LEMMA ChooseIInv ==
    ASSUME IInv, Listening, NEW k \in 1..Len(results[cursor].streams),
           Len(results[cursor].streams) > 1,
           results' = [results EXCEPT ![cursor].chosen = k],
           UNCHANGED <<state, pending, cursor, done, inflight>>
    PROVE  IInv'
<1> USE DEF IInv
<1>1. PICK n \in 1..MaxCameras : results \in [1..n -> Result]
  BY DEF TypeOK
<1>2. /\ n \in Nat \ {0} /\ DOMAIN results = 1..n /\ cursor \in 1..n
      /\ results[cursor] \in Result
  BY <1>1, ProbeAssumption DEF TypeOK
<1>3. inflight = {}
  BY DEF Listening, PendingExact
<1>4. Answered(results[cursor])
  BY <1>2, <1>3 DEF PhaseOK, Asked
<1>5. Len(results[cursor].streams) \in Nat /\ k \in Nat \ {0}
  BY <1>2 DEF Result
<1>6. /\ DOMAIN results' = 1..n
      /\ \A i \in 1..n : i # cursor => results'[i] = results[i]
      /\ results'[cursor] = [results[cursor] EXCEPT !.chosen = k]
  BY <1>1, <1>2
<1>7. /\ results'[cursor].camera = results[cursor].camera
      /\ results'[cursor].creds = results[cursor].creds
      /\ results'[cursor].streams = results[cursor].streams
      /\ results'[cursor].err = results[cursor].err
      /\ results'[cursor].chosen = k
      /\ results'[cursor] \in Result
  BY <1>2, <1>5, <1>6 DEF Result
<1>8. results' \in [1..n -> Result]
  BY <1>1, <1>6, <1>7
<1>9. TypeOK'
  <2>1. \E m \in 1..MaxCameras : results' \in [1..m -> Result]
    BY <1>8
  <2> QED
    BY <1>2, <1>6, <2>1 DEF TypeOK
<1>10. CommandsMatch' /\ PendingExact' /\ IsFiniteSet(inflight')
  BY <1>3 DEF CommandsMatch, PendingExact
<1>11. PhaseOK'
  <2> SUFFICES ASSUME NEW i \in 1..n PROVE ~Asked(i)' /\ Answered(results'[i])
    BY <1>6 DEF PhaseOK
  <2>1. ~Asked(i) /\ ~Asked(i)'
    BY <1>3 DEF Asked
  <2>2. CASE i = cursor
    <3>1. ~results[cursor].err /\ results[cursor].streams # <<>>
      BY <1>4 DEF Answered
    <3> QED
      BY <1>7, <2>1, <2>2, <3>1 DEF Answered
  <2>3. CASE i # cursor
    BY <1>2, <1>6, <2>1, <2>3 DEF PhaseOK
  <2> QED
    BY <2>2, <2>3
<1>12. OwnStreams'
  <2> SUFFICES ASSUME NEW i \in 1..n
               PROVE  \A p \in DOMAIN results'[i].streams :
                        /\ results'[i].streams[p].camera = results'[i].camera
                        /\ results'[i].streams[p].creds = results'[i].creds
    BY <1>6 DEF OwnStreams
  <2>1. CASE i = cursor
    BY <1>2, <1>7, <2>1 DEF OwnStreams
  <2>2. CASE i # cursor
    BY <1>2, <1>6, <2>2 DEF OwnStreams
  <2> QED
    BY <2>1, <2>2
<1> QED
  BY <1>9, <1>10, <1>11, <1>12

\* The keys that touch neither the results nor the commands.
LEMMA QuietIInv ==
    ASSUME IInv, UNCHANGED <<state, results, pending, inflight>>,
           cursor' \in DOMAIN results, done' \in BOOLEAN, done' => state = "results"
    PROVE  IInv'
<1> USE DEF IInv
<1>1. TypeOK'
  BY DEF TypeOK
<1>2. PendingExact' /\ CommandsMatch' /\ OwnStreams' /\ IsFiniteSet(inflight')
  BY DEF PendingExact, CommandsMatch, OwnStreams
<1>3. PhaseOK'
  BY DEF PhaseOK, Asked, Unanswered, Answered
<1> QED
  BY <1>1, <1>2, <1>3

LEMMA NextIInv == IInv /\ [Next]_vars => IInv'
<1> SUFFICES ASSUME IInv, [Next]_vars PROVE IInv'
  OBVIOUS
<1>1. PICK n \in 1..MaxCameras : results \in [1..n -> Result]
  BY DEF IInv, TypeOK
<1>2. /\ n \in Nat \ {0} /\ DOMAIN results = 1..n /\ cursor \in 1..n /\ Len(results) = n
      /\ results[cursor] \in Result /\ done \in BOOLEAN
      /\ results[cursor].chosen \in Nat \ {0}
      /\ Len(results[cursor].streams) \in Nat
  BY <1>1, ProbeAssumption DEF IInv, TypeOK, Result
<1>3. ASSUME Answer PROVE IInv'
  BY <1>3, ProbeResultIInv DEF Answer
<1>4. CASE KeyUp
  BY <1>2, <1>4, QuietIInv DEF KeyUp, Listening, IInv
<1>5. CASE KeyDown
  BY <1>2, <1>5, QuietIInv DEF KeyDown, Listening, IInv
<1>6. CASE KeyLeft
  <2> DEFINE k == results[cursor].chosen - 1
  <2>1. Answered(results[cursor])
    BY <1>2, <1>6 DEF IInv, PhaseOK, Asked, PendingExact, KeyLeft, Listening
  <2>2. k \in 1..Len(results[cursor].streams)
    BY <1>2, <1>6, <2>1 DEF KeyLeft, Answered
  <2>3. results' = [results EXCEPT ![cursor].chosen = k]
    BY <1>6 DEF KeyLeft
  <2> QED
    BY <1>6, <2>2, <2>3, ChooseIInv DEF KeyLeft
<1>7. CASE KeyRight
  <2> DEFINE k == results[cursor].chosen + 1
  <2>1. k \in 1..Len(results[cursor].streams)
    BY <1>2, <1>7 DEF KeyRight
  <2>2. results' = [results EXCEPT ![cursor].chosen = k]
    BY <1>7 DEF KeyRight
  <2> QED
    BY <1>7, <2>1, <2>2, ChooseIInv DEF KeyRight
<1>8. CASE KeyRetry
  BY <1>8, KeyRetryIInv
<1>9. CASE KeyEnter
  BY <1>2, <1>9, QuietIInv DEF KeyEnter, Listening, IInv
<1>10. CASE UNCHANGED vars
  BY <1>2, <1>10, QuietIInv DEF vars, IInv
<1> QED
  BY <1>3, <1>4, <1>5, <1>6, <1>7, <1>8, <1>9, <1>10 DEF Next, Step, Key, Finished

\* Whatever happens, a position stays with its camera and the credentials given for it.
LEMMA SameCameras ==
    ASSUME IInv, Next
    PROVE  /\ DOMAIN results' = DOMAIN results
           /\ \A i \in DOMAIN results : /\ results'[i].camera = results[i].camera
                                        /\ results'[i].creds = results[i].creds
<1>1. PICK n \in 1..MaxCameras : results \in [1..n -> Result]
  BY DEF IInv, TypeOK
<1>2. DOMAIN results = 1..n /\ cursor \in 1..n /\ \A i \in 1..n : results[i] \in Result
  BY <1>1 DEF IInv, TypeOK
<1> DEFINE Same ==
        /\ DOMAIN results' = DOMAIN results
        /\ \A i \in DOMAIN results : /\ results'[i].camera = results[i].camera
                                     /\ results'[i].creds = results[i].creds
<1>3. ASSUME NEW c \in inflight, ProbeResult(c) PROVE Same
  <2>1. PICK a \in GetStreamURIs(c) :
           results' = [results EXCEPT ![c.index].streams = a.streams,
                                      ![c.index].err = a.err]
    BY <1>3 DEF ProbeResult
  <2> QED
    BY <1>1, <1>2, <2>1 DEF Result
<1>4. ASSUME NEW k, results' = [results EXCEPT ![cursor].chosen = k] PROVE Same
  BY <1>1, <1>2, <1>4 DEF Result
<1>5. ASSUME KeyRetry PROVE Same
  BY <1>1, <1>2, <1>5 DEF KeyRetry, Reprobe, Result
<1>6. ASSUME UNCHANGED results PROVE Same
  BY <1>6
<1>7. ASSUME KeyLeft PROVE Same
  BY <1>4, <1>7 DEF KeyLeft
<1>8. ASSUME KeyRight PROVE Same
  BY <1>4, <1>8 DEF KeyRight
<1> HIDE DEF Same
<1>9. ASSUME Answer PROVE Same
  BY <1>3, <1>9 DEF Answer
<1>10. Answer \/ KeyLeft \/ KeyRight \/ KeyRetry \/ UNCHANGED results
  BY DEF Next, Step, Key, KeyUp, KeyDown, KeyEnter, Finished, vars
<1>11. Same
  BY <1>5, <1>6, <1>7, <1>8, <1>9, <1>10
<1> QED
  BY <1>11 DEF Same

\* r is handed over as c.
HandedOver(c, r) ==
    /\ c.camera = r.camera /\ c.creds = r.creds
    /\ c.stream.camera = c.camera /\ c.stream.creds = c.creds

\* conf consists of the cameras of res that answered, at[k] being the place of the k-th.
Hands(at, conf, res) ==
    /\ at \in [DOMAIN conf -> DOMAIN res]
    /\ \A j, k \in DOMAIN conf : j < k => at[j] < at[k]
    /\ {at[k] : k \in DOMAIN conf} = {i \in DOMAIN res : ~res[i].err}
    /\ \A k \in DOMAIN conf : HandedOver(conf[k], res[at[k]])

\* Once nobody works, what is handed to the root model (Configured) are exactly the
\* cameras that answered, in order, each with a stream of its own.
LEMMA HandsOver ==
    ASSUME IInv, inflight = {}
    PROVE  \E at : Hands(at, Configured(results), results)
<1>1. PICK n \in 1..MaxCameras : results \in [1..n -> Result]
  BY DEF IInv, TypeOK
<1>2. n \in Nat
  BY ProbeAssumption
<1>3. \A i \in 1..n : Answered(results[i]) /\ results[i] \in Result
  BY <1>1 DEF IInv, PhaseOK, Asked
<1>4. \A i \in 1..n : \A p \in DOMAIN results[i].streams :
          /\ results[i].streams[p].camera = results[i].camera
          /\ results[i].streams[p].creds = results[i].creds
  BY <1>1 DEF IInv, OwnStreams
<1> DEFINE ok == {r \in {results[i] : i \in DOMAIN results} :
                      ~r.err /\ Len(r.streams) > 0}
           kept == Kept(results, ok)
           conf == [i \in DOMAIN kept |->
                        [camera |-> kept[i].camera, creds |-> kept[i].creds,
                         stream |-> kept[i].streams[kept[i].chosen]]]
<1>5. results \in Seq(Result) /\ Len(results) = n /\ DOMAIN results = 1..n
  BY <1>1, <1>2
<1>6. \A i \in 1..n : results[i] \in ok <=> ~results[i].err
  <2> SUFFICES ASSUME NEW i \in 1..n, ~results[i].err PROVE Len(results[i].streams) > 0
    BY <1>5
  <2>1. results[i].chosen \in 1..Len(results[i].streams)
        /\ Len(results[i].streams) \in Nat
    BY <1>3 DEF Answered, Result
  <2> QED
    BY <2>1
<1>7. kept \in Seq(Result \cap ok) /\ \E at : Selects(at, n, kept, results, ok)
  <2> HIDE DEF ok
  <2> QED
    BY <1>5, KeptPlaces
<1>8. PICK at : Selects(at, n, kept, results, ok)
  BY <1>7
<1>9. DOMAIN kept = 1..Len(kept)
  BY <1>7
<1> HIDE DEF ok, kept
<1>10. /\ at \in [1..Len(kept) -> 1..n]
       /\ \A i, j \in 1..Len(kept) : i < j => at[i] < at[j]
       /\ \A i \in 1..Len(kept) : kept[i] = results[at[i]]
       /\ {at[i] : i \in 1..Len(kept)} = {k \in 1..n : results[k] \in ok}
  BY <1>8 DEF Selects
<1>11. DOMAIN conf = 1..Len(kept)
  BY <1>9
<1>12. {k \in 1..n : results[k] \in ok} = {i \in 1..n : ~results[i].err}
  BY <1>6
<1>13. ASSUME NEW k \in 1..Len(kept) PROVE HandedOver(conf[k], results[at[k]])
  <2> DEFINE r == results[at[k]]
  <2>1. at[k] \in 1..n /\ at[k] \in {i \in 1..n : ~results[i].err}
    BY <1>10, <1>12
  <2>2. ~r.err /\ r.chosen \in DOMAIN r.streams
    BY <1>3, <2>1 DEF Answered, Result
  <2>3. conf[k] = [camera |-> r.camera, creds |-> r.creds, stream |-> r.streams[r.chosen]]
    BY <1>9, <1>10
  <2> QED
    BY <1>4, <2>1, <2>2, <2>3 DEF HandedOver
<1>14. conf = Configured(results)
  BY DEF Configured, kept, ok
<1>15. Hands(at, conf, results)
  <2> HIDE DEF conf
  <2> QED
    BY <1>5, <1>10, <1>11, <1>12, <1>13 DEF Hands
<1> QED
  BY <1>14, <1>15

\* Every position is in exactly one of its two phases, always.
THEOREM Invariance == Spec => []IInv
<1> QED
  BY InitIInv, NextIInv, PTL DEF Spec

-----------------------------------------------------------------------------

\* The state of the step stays within its types: the cursor is on a camera.
THEOREM TypeCorrect == Spec => []TypeOK
<1>1. IInv => TypeOK
  BY DEF IInv
<1> QED
  BY <1>1, Invariance, PTL

\* The counter is the number of commands at work, for any number of cameras, any
\* order of their answers and any history of retries.
THEOREM PendingIsExact == Spec => []PendingExact
<1>1. IInv => PendingExact
  BY DEF IInv
<1> QED
  BY <1>1, Invariance, PTL

\* What has answered can be drawn.
LEMMA Drawable == IInv => ViewSafe
<1> SUFFICES ASSUME IInv, state = "results", NEW i \in DOMAIN results
             PROVE  results[i].err \/ results[i].chosen \in DOMAIN results[i].streams
  BY DEF ViewSafe
<1>1. Answered(results[i]) /\ results[i].streams \in Seq(Stream)
  BY DEF IInv, PhaseOK, Asked, PendingExact, TypeOK, Result
<1> QED
  BY <1>1 DEF Answered

\* The results can always be drawn: every camera shown has failed or has a chosen
\* profile among its streams.
THEOREM ViewIsSafe == Spec => []ViewSafe
BY Drawable, Invariance, PTL

\* A camera only ever shows streams obtained from itself with its own credentials.
THEOREM StreamsAreOwn == Spec => []OwnStreams
<1>1. IInv => OwnStreams
  BY DEF IInv
<1> QED
  BY <1>1, Invariance, PTL

\* Confirming abandons no camera.
THEOREM ConfirmedIsAnswered == Spec => []ConfirmedAnswered
<1>1. IInv => ConfirmedAnswered
  <2> SUFFICES ASSUME IInv, done
               PROVE  /\ inflight = {}
                      /\ \A i \in DOMAIN results :
                            results[i].err # (results[i].streams # <<>>)
    BY DEF ConfirmedAnswered
  <2>1. inflight = {}
    BY DEF IInv, PendingExact
  <2>2. ASSUME NEW i \in DOMAIN results
        PROVE  Answered(results[i]) /\ results[i].err \in BOOLEAN
    BY <2>1 DEF IInv, PhaseOK, Asked, TypeOK, Result
  <2> QED
    BY <2>1, <2>2 DEF Answered
<1> QED
  BY <1>1, Invariance, PTL

\* Streams once obtained are never lost, and keys move only the highlighted choice:
\* a step changes one position, and only if that position has no streams or is the
\* highlighted one.
THEOREM SettledStay == Spec => SettledStays
<1> DEFINE Keeps(i) ==
               /\ results[i].streams # <<>> =>
                      results'[i].streams = results[i].streams /\ ~results'[i].err
               /\ i # cursor => results'[i].chosen = results[i].chosen
           Settled == \A i \in DOMAIN results : Keeps(i)
<1>1. IInv /\ [Next]_vars => [Settled]_vars
  <2> SUFFICES ASSUME IInv, Next, NEW i \in DOMAIN results PROVE Keeps(i)
    OBVIOUS
  <2>1. PICK n \in 1..MaxCameras : results \in [1..n -> Result]
    BY DEF IInv, TypeOK
  <2>2. results[i] \in Result /\ i \in 1..n /\ cursor \in 1..n
    BY <2>1 DEF IInv, TypeOK
  <2>3. results[i].streams # <<>> => ~results[i].err
    BY DEF IInv, PhaseOK, Unanswered, Answered
  <2>4. ASSUME NEW c \in inflight, ProbeResult(c) PROVE Keeps(i)
    <3>1. PICK a \in GetStreamURIs(c) :
            results' = [results EXCEPT ![c.index].streams = a.streams,
                                       ![c.index].err = a.err]
      BY <2>4 DEF ProbeResult
    <3>2. CASE i = c.index
      <4>1. Unanswered(results[i])
        BY <3>2 DEF IInv, PhaseOK, Asked
      <4> QED
        BY <2>1, <2>2, <3>1, <3>2, <4>1 DEF Unanswered, Result
    <3>3. CASE i # c.index
      <4>1. results'[i] = results[i]
        BY <2>1, <3>1, <3>3
      <4> QED
        BY <2>3, <4>1
    <3> QED
      BY <3>2, <3>3
  <2>5. ASSUME NEW k, results' = [results EXCEPT ![cursor].chosen = k] PROVE Keeps(i)
    BY <2>1, <2>2, <2>3, <2>5 DEF Result
  <2>6. CASE KeyRetry
    <3>1. results' = [results EXCEPT ![cursor].err = FALSE] /\ results[cursor].err
      BY <2>6 DEF KeyRetry, Reprobe
    <3> QED
      BY <2>1, <2>2, <2>3, <3>1 DEF Result
  <2>7. CASE UNCHANGED results
    BY <2>3, <2>7
  <2>8. CASE KeyLeft
    BY <2>5, <2>8 DEF KeyLeft
  <2>9. CASE KeyRight
    BY <2>5, <2>9 DEF KeyRight
  <2> QED
    BY <2>4, <2>6, <2>7, <2>8, <2>9
       DEF Next, Step, Key, Answer, KeyUp, KeyDown, KeyEnter, Finished, vars
<1>2. Spec => [][Settled]_vars
  BY <1>1, Invariance, PTL DEF Spec
<1> QED
  BY <1>2 DEF SettledStays

=============================================================================
