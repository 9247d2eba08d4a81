------------------------- MODULE CredentialsProofs -------------------------
(***************************************************************************)
(* The credentials step, for any cameras, addresses and earlier            *)
(* configurations.                                                         *)
(*                                                                         *)
(* That nobody leaves without a user name is decided key by key: when the  *)
(* last camera is answered the earlier ones have theirs (Answered).  That  *)
(* the prompt can be drawn and typed into needs camIndex to be in the list *)
(* until the step is done, and the focus to follow the field.              *)
(***************************************************************************)
EXTENDS Credentials, TLAPS

Remembered == existing \in Configurations(Ip)

Answered == \A i \in DOMAIN creds : i < camIndex => creds[i].user # Blank

IInv == TypeOK /\ Remembered /\ Answered /\ AllGiven /\ PromptSafe

-----------------------------------------------------------------------------

\* What the fields are filled in with is a credential, whatever was remembered.
LEMMA PrefillFacts ==
    ASSUME NEW cam, NEW known \in Configurations(Ip)
    PROVE  /\ PrefillFor(cam, known) \in Credential
           /\ PrefillFor(cam, known).user \in User \cup {Blank}
           /\ PrefillFor(cam, known).pass \in Password \cup {Blank}
<1>1. PICK ips \in SUBSET Ip : known \in [ips -> {c \in Credential : c.user # Blank}]
  BY DEF Configurations
<1>2. NoCreds \in Credential
  BY DEF NoCreds, Credential
<1>3. PrefillFor(cam, known) \in Credential
  BY <1>1, <1>2 DEF PrefillFor
<1> QED
  BY <1>3 DEF Credential

\* A list of cameras that is not empty, and one slot for each.
LEMMA Initially == Init => IInv
<1> SUFFICES ASSUME Init PROVE IInv
  OBVIOUS
<1>1. PICK n \in 1..MaxCameras : cameras \in [1..n -> Camera]
  BY DEF Init
<1>2. /\ n \in Nat /\ n > 0 /\ DOMAIN cameras = 1..n
      /\ cameras \in Seq(Camera) /\ Len(cameras) = n
  <2>1. n \in Nat /\ n > 0
    BY CredentialsAssumption
  <2>2. cameras \in Seq(Camera) /\ Len(cameras) = n /\ DOMAIN cameras = 1..n
    BY <1>1, <2>1
  <2> QED
    BY <2>1, <2>2
<1>3. Remembered
  BY DEF Init, Remembered
<1>4. creds \in [DOMAIN cameras -> Credential]
  <2>1. PrefillFor(cameras[1], existing) \in Credential
    BY <1>3, PrefillFacts DEF Remembered
  <2>2. NoCreds \in Credential
    BY DEF NoCreds, Credential
  <2> QED
    BY <2>1, <2>2 DEF Init, NewCreds
<1>5. username \in User \cup {Blank} /\ password \in Password \cup {Blank}
  BY <1>3, PrefillFacts DEF Init, Remembered
<1>6. TypeOK
  <2>1. camIndex \in 1..Len(cameras) + 1
    BY <1>2 DEF Init
  <2>2. /\ field \in {"username", "password"} /\ focused \in SUBSET {"username", "password"}
        /\ sameForAll \in BOOLEAN /\ done \in BOOLEAN
    BY DEF Init
  <2> QED
    BY <1>2, <1>4, <1>5, <2>1, <2>2 DEF TypeOK
<1>7. Answered
  BY <1>2, <1>4 DEF Init, Answered
<1>8. AllGiven /\ PromptSafe
  BY <1>2 DEF Init, AllGiven, PromptSafe
<1> QED
  BY <1>3, <1>6, <1>7, <1>8 DEF IInv

\* Moving between the fields takes the focus along, and typing changes no answer.
LEMMA KeySteps ==
    ASSUME IInv, KeyTab \/ KeyCtrlA \/ KeyType
    PROVE  IInv'
<1>1. UNCHANGED <<cameras, creds, camIndex, done, existing>>
  BY DEF KeyTab, KeyCtrlA, KeyType
<1>2. Remembered' /\ Answered' /\ AllGiven'
  BY <1>1 DEF IInv, Remembered, Answered, AllGiven
<1>3. TypeOK'
  <2>1. CASE KeyTab
    BY <1>1, <2>1 DEF KeyTab, IInv, TypeOK
  <2>2. CASE KeyCtrlA
    BY <1>1, <2>2 DEF KeyCtrlA, IInv, TypeOK
  <2>3. CASE KeyType
    BY <1>1, <2>3 DEF KeyType, IInv, TypeOK
  <2> QED
    BY <2>1, <2>2, <2>3
<1>4. PromptSafe'
  <2>1. CASE KeyTab
    BY <1>1, <2>1 DEF KeyTab, IInv, PromptSafe
  <2>2. CASE KeyCtrlA \/ KeyType
    BY <1>1, <2>2 DEF KeyCtrlA, KeyType, IInv, PromptSafe
  <2> QED
    BY <2>1, <2>2
<1> QED
  BY <1>2, <1>3, <1>4 DEF IInv

\* What is entered is a credential with a user name.
LEMMA EnteredFacts ==
    ASSUME TypeOK, username # Blank
    PROVE  Entered \in Credential /\ Entered.user # Blank
BY DEF TypeOK, Entered, Credential

\* One answer for all leaves nobody out, those answered before included.
LEMMA ForAllStep ==
    ASSUME IInv, EnterForAll
    PROVE  IInv'
<1>1. /\ Entered \in Credential /\ Entered.user # Blank
      /\ creds' = [i \in DOMAIN creds |-> Entered] /\ done' = TRUE
      /\ UNCHANGED <<cameras, camIndex, field, username, password, focused,
                     sameForAll, existing>>
  BY EnteredFacts DEF IInv, EnterForAll
<1>2. TypeOK'
  BY <1>1 DEF IInv, TypeOK
<1>3. Remembered' /\ Answered' /\ AllGiven' /\ PromptSafe'
  BY <1>1 DEF IInv, Remembered, Answered, AllGiven, PromptSafe
<1> QED
  BY <1>2, <1>3 DEF IInv

\* An answer for one camera adds to those that have one; after the last, all have.
LEMMA EnterSteps ==
    ASSUME IInv, EnterLast \/ EnterNext
    PROVE  IInv'
<1>1. /\ Entered \in Credential /\ Entered.user # Blank
      /\ ~done /\ camIndex \in Nat /\ camIndex \in 1..Len(cameras) /\ Len(cameras) \in Nat
      /\ DOMAIN cameras = 1..Len(cameras)
      /\ creds \in [DOMAIN cameras -> Credential]
  BY EnteredFacts DEF IInv, TypeOK, PromptSafe, EnterLast, EnterNext
<1>2. /\ creds' = [creds EXCEPT ![camIndex] = Entered] /\ camIndex' = camIndex + 1
      /\ UNCHANGED <<cameras, sameForAll, existing>>
  BY DEF EnterLast, EnterNext, AskNext
<1>3. /\ creds' \in [DOMAIN cameras' -> Credential]
      /\ camIndex' \in 1..Len(cameras') + 1
      /\ cameras' \in Seq(Camera) /\ sameForAll' \in BOOLEAN
  BY <1>1, <1>2 DEF IInv, TypeOK
<1>4. Remembered'
  BY <1>2 DEF IInv, Remembered
<1>5. Answered'
  BY <1>1, <1>2 DEF IInv, Answered
<1>6. CASE EnterLast
  <2>1. /\ camIndex = Len(cameras) /\ done' = TRUE
        /\ UNCHANGED <<field, username, password, focused>>
    BY <1>6 DEF EnterLast
  <2>2. TypeOK'
    BY <1>3, <2>1 DEF IInv, TypeOK
  <2>3. AllGiven'
    BY <1>1, <1>2, <1>3, <1>5, <2>1 DEF AllGiven, Answered
  <2>4. PromptSafe'
    BY <2>1 DEF PromptSafe
  <2> QED
    BY <1>4, <1>5, <2>2, <2>3, <2>4 DEF IInv
<1>7. CASE EnterNext
  <2>1. /\ camIndex < Len(cameras) /\ UNCHANGED done
        /\ username' = PrefillFor(cameras[camIndex + 1], existing).user
        /\ password' = PrefillFor(cameras[camIndex + 1], existing).pass
        /\ field' = "username" /\ focused' = {"username"}
    BY <1>7 DEF EnterNext, AskNext
  <2>2. username' \in User \cup {Blank} /\ password' \in Password \cup {Blank}
    BY <2>1, PrefillFacts DEF IInv, Remembered
  <2>3. TypeOK'
    <3>1. /\ field' \in {"username", "password"}
          /\ focused' \in SUBSET {"username", "password"}
      BY <2>1
    <3>2. done' \in BOOLEAN
      BY <2>1 DEF IInv, TypeOK
    <3> QED
      BY <1>3, <2>2, <3>1, <3>2 DEF TypeOK
  <2>4. AllGiven' /\ PromptSafe'
    BY <1>1, <1>2, <2>1 DEF AllGiven, PromptSafe
  <2> QED
    BY <1>4, <1>5, <2>3, <2>4 DEF IInv
<1> QED
  BY <1>6, <1>7

\* Every key keeps the invariant.
LEMMA Inductive == IInv /\ [Next]_vars => IInv'
<1> SUFFICES ASSUME IInv, [Next]_vars PROVE IInv'
  OBVIOUS
<1>1. CASE Step
  BY <1>1, KeySteps, ForAllStep, EnterSteps DEF Step
<1>2. CASE UNCHANGED vars
  BY <1>2 DEF vars, IInv, TypeOK, Remembered, Answered, AllGiven, PromptSafe
<1> QED
  BY <1>1, <1>2 DEF Next, Finished

-----------------------------------------------------------------------------

\* The invariant behind the others holds in every reachable state.
THEOREM Invariance == Spec => []IInv
BY Initially, Inductive, PTL DEF Spec

\* Slots, fields and cursor are what Update takes them to be (TypeOK).
THEOREM TypeCorrect == Spec => []TypeOK
<1>1. IInv => TypeOK
  BY DEF IInv
<1> QED
  BY <1>1, Invariance, PTL

\* No camera leaves the step without a user name (Update, "enter").
THEOREM EveryCameraGiven == Spec => []AllGiven
<1>1. IInv => AllGiven
  BY DEF IInv
<1> QED
  BY <1>1, Invariance, PTL

\* View and Update index within the cameras, and the field edited has the focus.
THEOREM PromptIsSafe == Spec => []PromptSafe
<1>1. IInv => PromptSafe
  BY DEF IInv
<1> QED
  BY <1>1, Invariance, PTL

\* An answer for a later camera changes no earlier one, unless it is for all.
THEOREM EarlierAreKept == Spec => EarlierKept
<1> DEFINE Keeps ==
      \A i \in DOMAIN creds :
          i < camIndex /\ creds'[i] # creds[i] => sameForAll /\ done'
<1>1. IInv /\ [Next]_vars => [Keeps]_vars
  <2> SUFFICES ASSUME IInv, Next PROVE Keeps
    BY DEF vars
  <2>1. CASE KeyTab \/ KeyCtrlA \/ KeyType \/ Finished
    BY <2>1 DEF KeyTab, KeyCtrlA, KeyType, Finished, vars
  <2>2. CASE EnterForAll
    BY <2>2 DEF EnterForAll
  <2>3. CASE EnterNext \/ EnterLast
    <3>1. creds' = [creds EXCEPT ![camIndex] = Entered] /\ camIndex \in Nat
      BY <2>3 DEF EnterNext, EnterLast, IInv, TypeOK
    <3>2. \A i \in DOMAIN creds : i < camIndex => creds'[i] = creds[i]
      BY <3>1 DEF IInv, TypeOK
    <3> QED
      BY <3>2
  <2> QED
    BY <2>1, <2>2, <2>3 DEF Next, Step
<1> QED
  BY <1>1, Invariance, PTL DEF Spec, EarlierKept

=============================================================================
