---------------------------- MODULE OnvifProofs ----------------------------
(***************************************************************************)
(* That the loops of findNestedElement and parseProfiles know where they   *)
(* are, in documents of any length and depth: the counters they keep are   *)
(* those of the path of open elements, which only the decoder knows.  So   *)
(* what is read is what the document's paths tell, and what GetStreamURIs  *)
(* answers comes from it; and that a scan answers with all it heard.       *)
(*                                                                         *)
(* The invariant says where on the path the profile and its configuration  *)
(* begin, as computed from the two counters.                               *)
(***************************************************************************)
EXTENDS Onvif, SequenceTheorems, FiniteSetTheorems, ListFacts, TLAPS

VEC == "VideoEncoderConfiguration"

\* The profile begins at k.  Its configuration, when it is in one, is the element
\* depth - 1 places further in, and the first of that name.
Inside(k) ==
    /\ ProfileAt(k)
    /\ \A j \in k..(k + depth - 2) : open[j] # VEC
    /\ vecDepth = 0 => Len(open) = k + depth - 1 /\ open[k + depth - 1] # VEC
    /\ vecDepth > 0 => /\ depth > 1
                       /\ Len(open) = k + depth + vecDepth - 2
                       /\ open[k + depth - 1] = VEC

Located == depth > 0 => \E k \in 1..Len(open) : Inside(k)

Outside == Parsing /\ depth = 0 => \A j \in 1..Len(open) : open[j] # "Profiles"

\* Without a parent inside another at most one is open, and the flag says whether one is;
\* set, it says so in any case.
Flagged ==
    Searching =>
        /\ ~nested => \A i, j \in 1..Len(open) : open[i] = "Parent" /\ open[j] = "Parent" => i = j
        /\ inParent => \E j \in 1..Len(open) : open[j] = "Parent"
        /\ ~inParent /\ ~nested => \A j \in 1..Len(open) : open[j] # "Parent"

Closed == open = <<>> /\ depth = 0 /\ vecDepth = 0 /\ inParent = FALSE /\ nested = FALSE

Shape ==
    /\ open \in Seq(Elements) /\ inParent \in BOOLEAN /\ nested \in BOOLEAN
    /\ depth \in Nat /\ vecDepth \in Nat
    /\ ~reading => Closed
    /\ depth > 0 => Parsing
    /\ vecDepth > 0 => depth > 0

IInv == Shape /\ Located /\ Outside /\ Flagged

-----------------------------------------------------------------------------
(* Paths. *)

\* A path with an element more.
LEMMA AppendFacts ==
    ASSUME NEW s \in Seq(Elements), NEW e \in Elements
    PROVE  /\ Append(s, e) \in Seq(Elements) /\ Len(Append(s, e)) = Len(s) + 1
           /\ Append(s, e)[Len(s) + 1] = e
           /\ \A j \in 1..Len(s) : Append(s, e)[j] = s[j]
           /\ Len(s) \in Nat
OBVIOUS

\* A path without its last element.
LEMMA FrontFacts ==
    ASSUME NEW s \in Seq(Elements), s # <<>>
    PROVE  /\ Len(s) \in Nat \ {0}
           /\ Front(s) \in Seq(Elements) /\ Len(Front(s)) = Len(s) - 1
           /\ \A j \in 1..(Len(s) - 1) : Front(s)[j] = s[j]
<1>1. Len(s) \in Nat /\ Len(s) # 0 /\ \A i \in 1..Len(s) : s[i] \in Elements
  OBVIOUS
<1>2. /\ SubSeq(s, 1, Len(s) - 1) \in Seq(Elements)
      /\ Len(SubSeq(s, 1, Len(s) - 1)) = IF 1 <= Len(s) - 1 THEN Len(s) - 1 - 1 + 1 ELSE 0
      /\ \A i \in 1..(Len(s) - 1 - 1 + 1) : SubSeq(s, 1, Len(s) - 1)[i] = s[1 + i - 1]
  <2>1. \A i \in 1..(Len(s) - 1) : s[i] \in Elements
    BY <1>1
  <2>2. 1 \in Int /\ Len(s) - 1 \in Int
    BY <1>1
  <2> QED
    BY <2>1, <2>2, SubSeqProperties
<1>3. Front(s) = SubSeq(s, 1, Len(s) - 1)
  BY DEF Front
<1>4. Len(s) - 1 \in Nat /\ Len(s) - 1 - 1 + 1 = Len(s) - 1
  BY <1>1
<1>5. \A i \in 1..(Len(s) - 1) : 1 + i - 1 = i
  BY <1>1
<1>6. Len(Front(s)) = Len(s) - 1
  BY <1>2, <1>3, <1>4
<1> QED
  BY <1>1, <1>2, <1>3, <1>4, <1>5, <1>6

\* With nothing open and nothing counted the invariant holds.
LEMMA ClosedFacts == Closed => IInv
<1> SUFFICES ASSUME Closed PROVE IInv
  OBVIOUS
<1>1. open = <<>> /\ depth = 0 /\ vecDepth = 0 /\ inParent = FALSE /\ nested = FALSE
  BY DEF Closed
<1>2. Shape
  <2>1. open \in Seq(Elements) /\ depth \in Nat /\ vecDepth \in Nat
    BY <1>1
  <2>2. inParent \in BOOLEAN /\ nested \in BOOLEAN
    BY <1>1
  <2>3. ~(depth > 0) /\ ~(vecDepth > 0)
    BY <1>1
  <2> QED
    BY <2>1, <2>2, <2>3 DEF Shape
<1>3. Located /\ Outside
  BY <1>1 DEF Located, Outside
<1>4. Flagged
  BY <1>1 DEF Flagged
<1> QED
  BY <1>2, <1>3, <1>4 DEF IInv

-----------------------------------------------------------------------------
(* The steps. *)

\* Every run begins with nothing open.
LEMMA Initially == Init => IInv
<1>1. Idle => Closed
  BY DEF Idle, Closed
<1> QED
  BY <1>1, ClosedFacts DEF Init, UriOff, UriInit

\* An answer that begins or ends does so with nothing open.
LEMMA ResetsClose ==
    ASSUME IInv,
           \/ SoapCall \/ SoapCallFails \/ EndDocument \/ SearchFails
           \/ \E text \in Texts : SearchFinds(text)
    PROVE  Closed'
<1>1. CASE SoapCall \/ SoapCallFails
  <2>1. Closed
    BY <1>1 DEF IInv, Shape, SoapCall, SoapCallFails
  <2>2. UNCHANGED decoder
    BY <1>1 DEF SoapCall, SoapCallFails
  <2> QED
    BY <2>1, <2>2 DEF Closed, decoder
<1>2. CASE EndDocument
  BY <1>2 DEF EndDocument, DecoderReset, Closed
<1>3. ASSUME NEW text, Searched(text) PROVE Closed'
  BY <1>3 DEF Searched, DecoderReset, Closed
<1> QED
  BY <1>1, <1>2, <1>3 DEF SearchFinds, SearchFails

\* So the invariant holds of it.
LEMMA ResetSteps ==
    ASSUME IInv,
           \/ SoapCall \/ SoapCallFails \/ EndDocument \/ SearchFails
           \/ \E text \in Texts : SearchFinds(text)
    PROVE  IInv'
<1>1. Closed'
  BY ResetsClose
<1>2. (Closed => IInv)'
  BY ClosedFacts, PTL
<1> QED
  BY <1>1, <1>2

\* A start or an end met by the search leaves the flag right.
LEMMA SearchSteps ==
    ASSUME IInv,
           \/ \E name \in Elements : SearchStart(name)
           \/ SearchEnd
    PROVE  IInv'
<1>1. Searching /\ ~Parsing /\ depth = 0 /\ vecDepth = 0 /\ reading
  BY DEF IInv, Shape, SearchStart, SearchEnd, Searching, Parsing
<1>2. /\ ~nested => \A i, j \in 1..Len(open) : open[i] = "Parent" /\ open[j] = "Parent" => i = j
      /\ inParent => \E j \in 1..Len(open) : open[j] = "Parent"
      /\ ~inParent /\ ~nested => \A j \in 1..Len(open) : open[j] # "Parent"
      /\ open \in Seq(Elements) /\ inParent \in BOOLEAN /\ nested \in BOOLEAN
  BY <1>1 DEF IInv, Flagged, Shape
<1>3. UNCHANGED <<call, reading, depth, vecDepth>>
  BY DEF SearchStart, SearchEnd
<1>4. ASSUME open' \in Seq(Elements), inParent' \in BOOLEAN, nested' \in BOOLEAN, Flagged'
      PROVE  IInv'
  <2>1. ~Parsing' /\ reading' /\ depth' = 0 /\ vecDepth' = 0
    BY <1>1, <1>3 DEF Parsing
  <2>2. Shape'
    BY <1>4, <2>1 DEF Shape
  <2>3. Located' /\ Outside'
    BY <2>1 DEF Located, Outside
  <2> QED
    BY <1>4, <2>2, <2>3 DEF IInv
<1>5. ASSUME NEW name \in Elements, SearchStart(name) PROVE IInv'
  <2>1. open' = Append(open, name) /\ inParent' = (inParent \/ name = "Parent")
    BY <1>5 DEF SearchStart
  <2>6. nested' = (nested \/ (name = "Parent" /\ Contains(open, "Parent")))
    BY <1>5 DEF SearchStart
  <2>7. nested' \in BOOLEAN
    BY <1>2, <2>6, Zenon
  <2>8. ~nested' => ~nested
    BY <2>6, Zenon
  <2>2. name = "Parent" /\ ~nested' => \A j \in 1..Len(open) : open[j] # "Parent"
    <3>1. name = "Parent" /\ ~nested' => ~Contains(open, "Parent")
      BY <2>6, Zenon
    <3> QED
      BY <3>1 DEF Contains
  <2>3. /\ open' \in Seq(Elements) /\ Len(open') = Len(open) + 1 /\ Len(open) \in Nat
        /\ open'[Len(open) + 1] = name
        /\ \A j \in 1..Len(open) : open'[j] = open[j]
    BY <1>2, <2>1, AppendFacts
  <2>4. CASE name = "Parent"
    <3>1. ~nested' => \A j \in 1..Len(open') : open'[j] = "Parent" <=> j = Len(open) + 1
      BY <2>2, <2>3, <2>4
    <3>2. inParent' = TRUE
      BY <2>1, <2>4
    <3>3. \E j \in 1..Len(open') : open'[j] = "Parent"
      BY <2>3, <2>4
    <3>4. Flagged'
      BY <2>3, <3>1, <3>2, <3>3 DEF Flagged
    <3> QED
      BY <1>4, <2>3, <2>7, <3>2, <3>4
  <2>5. CASE name # "Parent"
    <3>1. \A j \in 1..Len(open') :
             open'[j] = "Parent" <=> j \in 1..Len(open) /\ open[j] = "Parent"
      BY <2>3, <2>5
    <3>2. inParent' = inParent
      BY <1>2, <2>1, <2>5
    <3>3. Flagged'
      <4>1. ~nested' => \A i, j \in 1..Len(open') :
                           open'[i] = "Parent" /\ open'[j] = "Parent" => i = j
        <5> SUFFICES ASSUME ~nested' PROVE \A i, j \in 1..Len(open') :
                                            open'[i] = "Parent" /\ open'[j] = "Parent" => i = j
          OBVIOUS
        <5>1. \A i, j \in 1..Len(open) : open[i] = "Parent" /\ open[j] = "Parent" => i = j
          BY <1>2, <2>8
        <5> QED
          BY <3>1, <5>1
      <4>2. inParent' => \E j \in 1..Len(open') : open'[j] = "Parent"
        BY <1>2, <2>3, <3>1, <3>2
      <4>3. ~inParent' /\ ~nested' => \A j \in 1..Len(open') : open'[j] # "Parent"
        <5> SUFFICES ASSUME ~inParent', ~nested' PROVE \A j \in 1..Len(open') : open'[j] # "Parent"
          OBVIOUS
        <5>1. \A j \in 1..Len(open) : open[j] # "Parent"
          BY <1>2, <2>8, <3>2
        <5> QED
          BY <3>1, <5>1
      <4> QED
        BY <4>1, <4>2, <4>3 DEF Flagged
    <3> QED
      BY <1>2, <1>4, <2>3, <2>7, <3>2, <3>3
  <2> QED
    BY <2>4, <2>5
<1>6. CASE SearchEnd
  <2>1. open # <<>> /\ open' = Front(open) /\ nested' = nested
    BY <1>6 DEF SearchEnd
  <2>2. inParent' = (inParent /\ open[Len(open)] # "Parent")
    BY <1>6 DEF SearchEnd, Last
  <2>3. /\ open' \in Seq(Elements) /\ Len(open') = Len(open) - 1 /\ Len(open) \in Nat \ {0}
        /\ \A j \in 1..(Len(open) - 1) : open'[j] = open[j]
    BY <1>2, <2>1, FrontFacts
  <2>4. ~nested' => \A i, j \in 1..Len(open') : open'[i] = "Parent" /\ open'[j] = "Parent" => i = j
    BY <1>2, <2>1, <2>3
  <2>5. CASE open[Len(open)] = "Parent"
    <3>1. ~nested' => \A j \in 1..Len(open') : open'[j] # "Parent"
      BY <1>2, <2>1, <2>3, <2>5
    <3>2. inParent' = FALSE
      BY <2>2, <2>5
    <3>3. Flagged'
      BY <2>4, <3>1, <3>2 DEF Flagged
    <3> QED
      BY <1>2, <1>4, <2>1, <2>3, <3>2, <3>3
  <2>6. CASE open[Len(open)] # "Parent"
    <3>1. inParent' = inParent
      BY <1>2, <2>2, <2>6
    <3>2. inParent' => \E j \in 1..Len(open') : open'[j] = "Parent"
      <4>1. SUFFICES ASSUME inParent PROVE \E j \in 1..Len(open') : open'[j] = "Parent"
        BY <3>1
      <4>2. PICK j \in 1..Len(open) : open[j] = "Parent"
        BY <1>2, <4>1
      <4>3. j \in 1..Len(open')
        BY <2>3, <2>6, <4>2
      <4> QED
        BY <2>3, <4>2, <4>3
    <3>3. ~inParent' /\ ~nested' => \A j \in 1..Len(open') : open'[j] # "Parent"
      BY <1>2, <2>1, <2>3, <3>1
    <3>4. Flagged'
      BY <2>4, <3>2, <3>3 DEF Flagged
    <3> QED
      BY <1>2, <1>4, <2>1, <2>3, <3>1, <3>4
  <2> QED
    BY <2>5, <2>6
<1> QED
  BY <1>5, <1>6

\* What remains to be shown of a step of parseProfiles.
LEMMA ParseFrame ==
    ASSUME IInv, Parsing, UNCHANGED <<call, reading, inParent, nested>>,
           open' \in Seq(Elements), depth' \in Nat, vecDepth' \in Nat,
           vecDepth' > 0 => depth' > 0,
           Located', Outside'
    PROVE  IInv'
<1>1. Parsing' /\ ~Searching' /\ reading'
  BY DEF Parsing, Searching
<1>2. Shape'
  BY <1>1 DEF IInv, Shape
<1>3. Flagged'
  BY <1>1 DEF Flagged
<1> QED
  BY <1>2, <1>3 DEF IInv

\* Outside the profiles none is open; a start of one is its beginning.
LEMMA OutsideSteps ==
    ASSUME IInv,
           \/ \E token \in Token \cup {Blank} : StartProfile(token)
           \/ StartOutside \/ EndOutside
    PROVE  IInv'
<1>1. Parsing /\ depth = 0 /\ vecDepth = 0 /\ open \in Seq(Elements)
  BY DEF IInv, Shape, StartProfile, StartOutside, EndOutside
<1>2. \A j \in 1..Len(open) : open[j] # "Profiles"
  BY <1>1 DEF IInv, Outside
<1>3. UNCHANGED <<call, reading, inParent, nested, vecDepth>>
  BY DEF StartProfile, StartOutside, EndOutside
<1>4. ASSUME NEW token, StartProfile(token) PROVE IInv'
  <2>1. open' = Append(open, "Profiles") /\ depth' = 1
    BY <1>4 DEF StartProfile
  <2>2. /\ open' \in Seq(Elements) /\ Len(open') = Len(open) + 1 /\ Len(open) \in Nat
        /\ open'[Len(open) + 1] = "Profiles"
        /\ \A j \in 1..Len(open) : open'[j] = open[j]
    BY <1>1, <2>1, AppendFacts DEF Elements
  <2>3. PICK k \in 1..Len(open') : k = Len(open) + 1
    BY <2>2
  <2>4. Located'
    <3>1. ProfileAt(k)'
      BY <1>2, <2>2, <2>3 DEF ProfileAt
    <3>2. Inside(k)'
      BY <1>1, <1>3, <2>1, <2>2, <2>3, <3>1 DEF Inside, VEC
    <3> QED
      BY <3>2 DEF Located
  <2>5. Outside'
    BY <2>1 DEF Outside
  <2> QED
    BY <1>1, <1>3, <2>1, <2>2, <2>4, <2>5, ParseFrame
<1>5. CASE StartOutside \/ EndOutside
  <2>1. depth' = 0
    BY <1>1, <1>5 DEF StartOutside, EndOutside
  <2>2. /\ open' \in Seq(Elements)
        /\ \A j \in 1..Len(open') : open'[j] # "Profiles"
    <3>1. CASE StartOutside
      <4>1. open' = Append(open, "other")
        BY <3>1 DEF StartOutside
      <4> QED
        BY <1>1, <1>2, <4>1, AppendFacts DEF Elements
    <3>2. CASE EndOutside
      <4>1. open # <<>> /\ open' = Front(open)
        BY <3>2 DEF EndOutside
      <4> QED
        BY <1>1, <1>2, <4>1, FrontFacts
    <3> QED
      BY <1>5, <3>1, <3>2
  <2>3. Located' /\ Outside'
    BY <2>1, <2>2 DEF Located, Outside
  <2> QED
    BY <1>1, <1>3, <2>1, <2>2, <2>3, ParseFrame
<1> QED
  BY <1>4, <1>5

\* An element taken whole moves neither the path nor a counter.
LEMMA DecodeSteps ==
    ASSUME IInv, \E text \in Texts : DecodeName(text) \/ DecodeEncoding(text)
    PROVE  IInv'
<1>1. Parsing /\ UNCHANGED <<call, reading, open, inParent, nested, depth, vecDepth>>
  BY DEF DecodeName, DecodeEncoding
<1>2. Located'
  BY <1>1 DEF IInv, Located, Inside, ProfileAt
<1>3. Outside'
  BY <1>1 DEF IInv, Outside, Parsing
<1> QED
  BY <1>1, <1>2, <1>3, ParseFrame DEF IInv, Shape

\* Inside a profile a start or an end moves the path and one counter by one, or, at
\* the ends of the configuration, both.
LEMMA InnerSteps ==
    ASSUME IInv,
           \/ \E name \in Elements : StartInner(name) \/ StartInVec(name)
           \/ EndInner \/ EndInVec
    PROVE  IInv'
<1>1. /\ Parsing /\ depth \in Nat \ {0} /\ vecDepth \in Nat /\ open \in Seq(Elements)
      /\ UNCHANGED <<call, reading, inParent, nested>>
  BY DEF IInv, Shape, StartInner, StartInVec, EndInner, EndInVec
<1>2. PICK k \in 1..Len(open) : Inside(k)
  BY <1>1 DEF IInv, Located
<1>3. /\ k \in Nat \ {0} /\ Len(open) \in Nat \ {0} /\ k <= Len(open)
      /\ open # <<>> /\ open[k] = "Profiles"
      /\ \A j \in 1..(k - 1) : open[j] # "Profiles"
      /\ \A j \in k..(k + depth - 2) : open[j] # VEC
  <2>1. Len(open) \in Nat /\ (open = <<>> => Len(open) = 0)
    BY <1>1
  <2>2. k \in Nat \ {0} /\ Len(open) \in Nat \ {0} /\ k <= Len(open) /\ open # <<>>
    BY <2>1
  <2>3. open[k] = "Profiles" /\ \A j \in 1..(k - 1) : open[j] # "Profiles"
    BY <1>2 DEF Inside, ProfileAt
  <2>4. \A j \in k..(k + depth - 2) : open[j] # VEC
    BY <1>2 DEF Inside
  <2> QED
    BY <2>2, <2>3, <2>4
<1>4. ASSUME NEW name \in Elements, open' = Append(open, name)
      PROVE  /\ open' \in Seq(Elements) /\ Len(open') = Len(open) + 1
             /\ open'[Len(open) + 1] = name
             /\ \A j \in 1..Len(open) : open'[j] = open[j]
             /\ ProfileAt(k)'
  <2>1. /\ open' \in Seq(Elements) /\ Len(open') = Len(open) + 1
        /\ open'[Len(open) + 1] = name
        /\ \A j \in 1..Len(open) : open'[j] = open[j]
    BY <1>1, <1>4, AppendFacts
  <2>2. k \in DOMAIN open'
    BY <1>3, <2>1
  <2> QED
    BY <1>3, <2>1, <2>2 DEF ProfileAt
<1>5. ASSUME open' = Front(open)
      PROVE  /\ open' \in Seq(Elements) /\ Len(open') = Len(open) - 1
             /\ \A j \in 1..(Len(open) - 1) : open'[j] = open[j]
             /\ k < Len(open) => ProfileAt(k)'
  <2>1. /\ open' \in Seq(Elements) /\ Len(open') = Len(open) - 1
        /\ \A j \in 1..(Len(open) - 1) : open'[j] = open[j]
    BY <1>1, <1>3, <1>5, FrontFacts
  <2>2. k < Len(open) => k \in DOMAIN open'
    BY <1>3, <2>1
  <2> QED
    BY <1>3, <2>1, <2>2 DEF ProfileAt
<1>6. ASSUME Inside(k)', k \in 1..Len(open'), open' \in Seq(Elements),
             depth' \in Nat \ {0}, vecDepth' \in Nat
      PROVE  IInv'
  <2>1. Located' /\ Outside'
    BY <1>6 DEF Located, Outside
  <2> QED
    BY <1>1, <1>6, <2>1, ParseFrame
<1>7. ASSUME NEW name \in Elements, StartInner(name) PROVE IInv'
  <2>1. /\ vecDepth = 0 /\ open' = Append(open, name) /\ depth' = depth + 1
        /\ vecDepth' = IF name = VEC THEN 1 ELSE 0
    BY <1>7 DEF StartInner, VEC
  <2>2. Len(open) = k + depth - 1 /\ open[k + depth - 1] # VEC
    BY <1>2, <2>1 DEF Inside
  <2>3. \A j \in k..(k + depth' - 2) : open'[j] # VEC
    BY <1>1, <1>3, <1>4, <2>1, <2>2
  <2>4. Len(open') = k + depth' - 1 /\ open'[k + depth' - 1] = name
    BY <1>1, <1>3, <1>4, <2>1, <2>2
  <2>5. Inside(k)'
    BY <1>1, <1>3, <1>4, <2>1, <2>3, <2>4 DEF Inside
  <2> QED
    BY <1>1, <1>3, <1>4, <1>6, <2>1, <2>5
<1>8. ASSUME NEW name \in Elements, StartInVec(name) PROVE IInv'
  <2>1. /\ vecDepth > 0 /\ open' = Append(open, name) /\ depth' = depth
        /\ vecDepth' = vecDepth + 1
    BY <1>8 DEF StartInVec
  <2>2. depth > 1 /\ Len(open) = k + depth + vecDepth - 2 /\ open[k + depth - 1] = VEC
    BY <1>2, <2>1 DEF Inside
  <2>3. Inside(k)'
    BY <1>1, <1>3, <1>4, <2>1, <2>2 DEF Inside
  <2> QED
    BY <1>1, <1>3, <1>4, <1>6, <2>1, <2>3
<1>9. CASE EndInner
  <2>1. vecDepth = 0 /\ open' = Front(open) /\ depth' = depth - 1 /\ vecDepth' = vecDepth
    BY <1>9 DEF EndInner
  <2>2. Len(open) = k + depth - 1 /\ open[k + depth - 1] # VEC
    BY <1>2, <2>1 DEF Inside
  <2>3. CASE depth = 1
    <3>1. \A j \in 1..Len(open') : open'[j] # "Profiles"
      BY <1>3, <1>5, <2>1, <2>2, <2>3
    <3>2. Located' /\ Outside'
      BY <2>1, <2>3, <3>1 DEF Located, Outside
    <3> QED
      BY <1>1, <1>5, <2>1, <2>3, <3>2, ParseFrame
  <2>4. CASE depth > 1
    <3>1. Inside(k)'
      BY <1>1, <1>3, <1>5, <2>1, <2>2, <2>4 DEF Inside
    <3> QED
      BY <1>1, <1>3, <1>5, <1>6, <2>1, <2>2, <2>4, <3>1
  <2> QED
    BY <1>1, <2>3, <2>4
<1>10. CASE EndInVec
  <2>1. /\ vecDepth > 0 /\ open' = Front(open) /\ vecDepth' = vecDepth - 1
        /\ depth' = IF vecDepth = 1 THEN depth - 1 ELSE depth
    BY <1>10 DEF EndInVec
  <2>2. depth > 1 /\ Len(open) = k + depth + vecDepth - 2 /\ open[k + depth - 1] = VEC
    BY <1>2, <2>1 DEF Inside
  <2>3. /\ open' \in Seq(Elements) /\ Len(open') = Len(open) - 1
        /\ \A j \in 1..(Len(open) - 1) : open'[j] = open[j]
        /\ k < Len(open) /\ ProfileAt(k)'
    BY <1>1, <1>3, <1>5, <2>1, <2>2
  <2>4. CASE vecDepth = 1
    <3>1. depth' = depth - 1 /\ vecDepth' = 0 /\ Len(open) = k + depth - 1
      BY <1>1, <1>3, <2>1, <2>2, <2>4
    <3>2. \A j \in k..(k + depth' - 1) : open'[j] = open[j] /\ open[j] # VEC
      BY <1>1, <1>3, <2>2, <2>3, <3>1
    <3>3. Len(open') = k + depth' - 1 /\ open'[k + depth' - 1] # VEC
      BY <1>1, <1>3, <2>2, <2>3, <3>1, <3>2
    <3>4. \A j \in k..(k + depth' - 2) : open'[j] # VEC
      BY <1>1, <1>3, <2>2, <3>1, <3>2
    <3>5. Inside(k)'
      BY <2>3, <3>1, <3>3, <3>4 DEF Inside
    <3> QED
      BY <1>1, <1>3, <1>6, <2>2, <2>3, <3>1, <3>5
  <2>5. CASE vecDepth > 1
    <3>1. depth' = depth /\ vecDepth' > 0
      BY <1>1, <2>1, <2>5
    <3>2. \A j \in k..(k + depth - 1) : open'[j] = open[j]
      BY <1>1, <1>3, <2>2, <2>3, <2>5
    <3>3. \A j \in k..(k + depth' - 2) : open'[j] # VEC
      BY <1>1, <1>3, <3>1, <3>2
    <3>4. Len(open') = k + depth' + vecDepth' - 2 /\ open'[k + depth' - 1] = VEC
      BY <1>1, <1>3, <2>1, <2>2, <2>3, <3>1, <3>2
    <3>5. Inside(k)'
      BY <2>2, <2>3, <3>1, <3>3, <3>4 DEF Inside
    <3> QED
      BY <1>1, <1>3, <1>6, <2>1, <2>3, <3>1, <3>5
  <2> QED
    BY <1>1, <2>1, <2>4, <2>5
<1> QED
  BY <1>7, <1>8, <1>9, <1>10

-----------------------------------------------------------------------------
(* The counters. *)

\* Every step of a call keeps the invariant; a scan does not touch it.
LEMMA Inductive == IInv /\ [Next]_<<scanVars, uriVars>> => IInv'
<1> SUFFICES ASSUME IInv, [Next]_<<scanVars, uriVars>> PROVE IInv'
  OBVIOUS
<1>1. CASE UriNext
  BY <1>1, ResetSteps, SearchSteps, OutsideSteps, DecodeSteps, InnerSteps DEF UriNext
<1>2. CASE UNCHANGED uriVars
  BY <1>2 DEF uriVars, IInv, Shape, Closed, Located, Inside, ProfileAt, Outside, Flagged,
              Parsing, Searching
<1> QED
  BY <1>1, <1>2 DEF Next, Scanning, Streaming

\* At any moment of any call the loops' counters are those of the path, and the search's
\* flag is only set inside its parent, and always there unless parents nest.
THEOREM CountersFollowPath == Spec => []CountersInStep
<1>1. IInv => CountersInStep
  <2> SUFFICES ASSUME IInv PROVE CountersInStep
    OBVIOUS
  <2>1. /\ open \in Seq(Elements) /\ Len(open) \in Nat
        /\ depth \in Nat /\ vecDepth \in Nat
    BY DEF IInv, Shape
  <2>2. Parsing => (depth > 0 <=> InProfile)
    <3>1. depth > 0 => InProfile
      BY <2>1 DEF IInv, Located, Inside, ProfileAt, InProfile, Contains
    <3>2. Parsing /\ depth = 0 => ~InProfile
      BY DEF IInv, Outside, InProfile, Contains
    <3> QED
      BY <2>1, <3>1, <3>2 DEF InProfile, Contains
  <2>3. ASSUME depth > 0
        PROVE  \E k \in 1..Len(open) :
                 /\ ProfileAt(k)
                 /\ Len(open) = k + depth - 1 + (IF vecDepth > 0 THEN vecDepth - 1 ELSE 0)
                 /\ vecDepth > 0 <=>
                       \E j \in k..Len(open) : open[j] = "VideoEncoderConfiguration"
    <3>1. PICK k \in 1..Len(open) : Inside(k)
      BY <2>3 DEF IInv, Located
    <3>2. Len(open) = k + depth - 1 + (IF vecDepth > 0 THEN vecDepth - 1 ELSE 0)
      BY <2>1, <3>1 DEF Inside
    <3>3. vecDepth > 0 => \E j \in k..Len(open) : open[j] = VEC
      BY <2>1, <2>3, <3>1 DEF Inside
    <3>4. vecDepth = 0 => \A j \in k..Len(open) : open[j] # VEC
      BY <2>1, <2>3, <3>1 DEF Inside
    <3>5. vecDepth > 0 <=> \E j \in k..Len(open) : open[j] = VEC
      BY <2>1, <3>3, <3>4
    <3> QED
      BY <3>1, <3>2, <3>5 DEF Inside, VEC
  <2>4. Searching => /\ inParent => Contains(open, "Parent")
                     /\ Contains(open, "Parent") => inParent \/ nested
    BY <2>1 DEF IInv, Flagged, Contains
  <2> QED
    BY <2>2, <2>3, <2>4 DEF CountersInStep
<1> QED
  BY Initially, Inductive, <1>1, PTL DEF Spec

-----------------------------------------------------------------------------
(* What a call holds. *)

\* The path is no longer than its bound, the flag is only used by the search.
Bounded ==
    /\ Len(open) <= MaxOpen
    /\ inParent => call \in {"media", "uri"}
    /\ reading \in BOOLEAN

\* What a call holds is made of profiles; one is left when its URI is asked for.
Held ==
    /\ call \in {"off", "media", "profiles", "uri", "answered"} /\ err \in BOOLEAN
    /\ p \in Profile /\ profiles \in Seq(Profile)
    /\ streams \in Seq(Profile) /\ document \in Seq(Profile) /\ had \in Seq(BOOLEAN)
    /\ call = "uri" => profiles # <<>>

\* What an answer, or the next call, leaves in reading.
LEMMA AnswersBool ==
    ASSUME \/ SoapCall \/ SoapCallFails \/ EndDocument \/ SearchFails
           \/ \E text \in Texts : SearchFinds(text)
    PROVE  reading' \in BOOLEAN
<1>1. ASSUME NEW rest, Proceed(rest) PROVE reading' = FALSE
  BY <1>1 DEF Proceed, Answer
<1>2. ASSUME NEW text, Searched(text) PROVE reading' = FALSE
  BY <1>1, <1>2 DEF Searched, Answer
<1> QED
  BY <1>1, <1>2 DEF SoapCall, SoapCallFails, EndDocument, SearchFails, SearchFinds, Answer

\* Every step of a call keeps the bounds: a start is only read below MaxOpen.
LEMMA BoundedKept ==
    ASSUME IInv, Bounded, UriNext
    PROVE  Bounded'
<1> DEFINE Reset == \/ SoapCall \/ SoapCallFails \/ EndDocument \/ SearchFails
                    \/ \E text \in Texts : SearchFinds(text)
<1>1. open \in Seq(Elements) /\ Len(open) \in Nat /\ MaxOpen \in Nat
  BY StreamURIsAssumption DEF IInv, Shape
<1>2. CASE Reset
  <2>1. open' = <<>> /\ inParent' = FALSE
    BY <1>2, ResetsClose DEF Closed
  <2>2. reading' \in BOOLEAN
    BY <1>2, AnswersBool
  <2>3. Len(open') = 0
    BY <2>1
  <2> QED
    BY <1>1, <2>1, <2>2, <2>3 DEF Bounded
<1>3. ASSUME NEW name \in Elements, open' = Append(open, name), Len(open) < MaxOpen
      PROVE  Len(open') <= MaxOpen
  BY <1>1, <1>3, AppendFacts
<1>4. ASSUME open' = Front(open), open # <<>> PROVE Len(open') <= MaxOpen
  BY <1>1, <1>4, FrontFacts DEF Bounded
<1>5. ASSUME Searching, UNCHANGED <<call, reading>>, Len(open') <= MaxOpen PROVE Bounded'
  BY <1>5 DEF Bounded, Searching
<1>6. ASSUME UNCHANGED <<call, reading, inParent>>, Len(open') <= MaxOpen PROVE Bounded'
  BY <1>6 DEF Bounded
<1>7. ASSUME NEW name \in Elements, SearchStart(name) PROVE Bounded'
  BY <1>3, <1>5, <1>7 DEF SearchStart
<1>8. CASE SearchEnd
  BY <1>4, <1>5, <1>8 DEF SearchEnd
<1>9. ASSUME NEW name \in Elements, StartInner(name) PROVE Bounded'
  BY <1>3, <1>6, <1>9 DEF StartInner
<1>10. ASSUME NEW name \in Elements, StartInVec(name) PROVE Bounded'
  BY <1>3, <1>6, <1>10 DEF StartInVec
<1>11. {"Profiles", "other"} \subseteq Elements
  BY DEF Elements
<1>12. ASSUME NEW token \in Token \cup {Blank}, StartProfile(token) PROVE Bounded'
  BY <1>3, <1>6, <1>11, <1>12 DEF StartProfile
<1>13. CASE StartOutside
  BY <1>3, <1>6, <1>11, <1>13 DEF StartOutside
<1>14. ASSUME NEW text \in Texts, DecodeName(text) \/ DecodeEncoding(text) PROVE Bounded'
  BY <1>14 DEF DecodeName, DecodeEncoding, Bounded
<1>15. CASE EndOutside
  BY <1>4, <1>6, <1>15 DEF EndOutside
<1>16. depth > 0 => open # <<>>
  <2> SUFFICES ASSUME depth > 0 PROVE open # <<>>
    OBVIOUS
  <2>1. PICK k \in 1..Len(open) : Inside(k)
    BY DEF IInv, Located
  <2> QED
    BY <1>1, <2>1
<1>17. CASE EndInner
  BY <1>4, <1>6, <1>16, <1>17 DEF EndInner
<1>18. vecDepth > 0 => open # <<>>
  BY <1>16 DEF IInv, Shape
<1>19. CASE EndInVec
  BY <1>4, <1>6, <1>18, <1>19 DEF EndInVec
<1> QED
  BY <1>2, <1>7, <1>8, <1>9, <1>10, <1>12, <1>13, <1>14, <1>15, <1>17, <1>19, Zenon
     DEF UriNext

\* Types of the profile being read.
LEMMA ProfileFacts ==
    /\ NoProfile \in Profile
    /\ \A token \in Token \cup {Blank} : [NoProfile EXCEPT !.token = token] \in Profile
    /\ \A q \in Profile, text \in Texts : /\ [q EXCEPT !.name = text] \in Profile
                                          /\ [q EXCEPT !.encoding = text] \in Profile
<1>1. Blank \in Texts /\ Blank \in Token \cup {Blank}
  BY DEF Texts
<1>2. NoProfile \in Profile
  BY <1>1 DEF NoProfile, Profile
<1>3. \A token \in Token \cup {Blank} : [NoProfile EXCEPT !.token = token] \in Profile
  BY <1>2 DEF Profile
<1>4. \A q \in Profile, text \in Texts : /\ [q EXCEPT !.name = text] \in Profile
                                         /\ [q EXCEPT !.encoding = text] \in Profile
  BY DEF Profile
<1> QED
  BY <1>2, <1>3, <1>4

\* What going on with the profiles left makes of them.
LEMMA ProceedHolds ==
    ASSUME NEW rest \in Seq(Profile), Proceed(rest), err \in BOOLEAN
    PROVE  /\ call' \in {"uri", "answered"} /\ err' \in BOOLEAN
           /\ profiles' \in Seq(Profile)
           /\ call' = "uri" => profiles' # <<>>
  BY DEF Proceed, Answer

\* A list without its first profile.
LEMMA TailFacts ==
    ASSUME NEW s \in Seq(Profile), s # <<>>
    PROVE  /\ Tail(s) \in Seq(Profile) /\ Len(Tail(s)) = Len(s) - 1
           /\ \A i \in 1..Len(Tail(s)) : Tail(s)[i] = s[i + 1]
           /\ Head(s) = s[1] /\ s[1] \in Profile
           /\ Len(s) \in Nat \ {0}
OBVIOUS

\* A list whose last profile is changed.
LEMMA ExceptFacts ==
    ASSUME NEW s \in Seq(Profile), NEW text \in Texts
    PROVE  /\ [s EXCEPT ![Len(s)].name = text] \in Seq(Profile)
           /\ [s EXCEPT ![Len(s)].encoding = text] \in Seq(Profile)
<1>1. /\ Len(s) \in Nat /\ DOMAIN s = 1..Len(s)
      /\ \A i \in 1..Len(s) : s[i] \in Profile
  OBVIOUS
<1>2. \A i \in 1..Len(s) : /\ [s[i] EXCEPT !.name = text] \in Profile
                           /\ [s[i] EXCEPT !.encoding = text] \in Profile
  BY <1>1, ProfileFacts
<1> DEFINE named == [s EXCEPT ![Len(s)].name = text]
           coded == [s EXCEPT ![Len(s)].encoding = text]
<1>3. s \in [1..Len(s) -> Profile]
  OBVIOUS
<1>4. named \in [1..Len(s) -> Profile]
  BY <1>2, <1>3
<1>5. coded \in [1..Len(s) -> Profile]
  BY <1>2, <1>3
<1> HIDE DEF named, coded
<1>6. named \in Seq(Profile) /\ coded \in Seq(Profile)
  BY <1>1, <1>4, <1>5
<1> QED
  BY <1>6 DEF named, coded

\* What was had of one profile more.
LEMMA HadGrows ==
    ASSUME NEW s \in Seq(BOOLEAN), NEW b \in BOOLEAN
    PROVE  /\ Append(s, b) \in Seq(BOOLEAN) /\ Len(s) \in Nat
           /\ Len(Append(s, b)) = Len(s) + 1 /\ Append(s, b)[Len(s) + 1] = b
           /\ \A j \in 1..Len(s) : Append(s, b)[j] = s[j]
OBVIOUS

\* Every step of a call keeps what it holds well typed.
LEMMA HeldKept ==
    ASSUME IInv, Held, UriNext
    PROVE  Held'
<1> USE DEF Held
<1>1. CASE \/ SoapCall \/ SearchEnd \/ StartOutside \/ EndOutside \/ EndInVec
           \/ \E name \in Elements : SearchStart(name) \/ StartInner(name) \/ StartInVec(name)
  <2>1. UNCHANGED <<call, p, profiles, streams, err, document, had>>
    BY <1>1 DEF SoapCall, decoder, SearchEnd, StartOutside, EndOutside, EndInVec, SearchStart,
                StartInner, StartInVec
  <2> QED
    BY <2>1
<1>2. CASE SoapCallFails
  <2>1. UNCHANGED <<p, streams, document>> /\ had' \in Seq(BOOLEAN)
    <3>1. had' \in {had, Append(had, FALSE)}
      BY <1>2 DEF SoapCallFails
    <3> QED
      BY <1>2, <3>1, HadGrows DEF SoapCallFails, decoder
  <2>2. CASE call = "uri"
    <3>1. Proceed(Tail(profiles)) /\ Tail(profiles) \in Seq(Profile)
      BY <1>2, <2>2, TailFacts DEF SoapCallFails
    <3> QED
      BY <2>1, <3>1, ProceedHolds
  <2>3. CASE call # "uri"
    BY <1>2, <2>1, <2>3 DEF SoapCallFails, Answer
  <2> QED
    BY <2>2, <2>3
<1>3. ASSUME NEW text \in Texts, Searched(text), call \in {"media", "uri"} PROVE Held'
  <2>1. p' \in Profile /\ document' = document
    BY <1>3, ProfileFacts DEF Searched, DecoderReset
  <2>4. had' \in Seq(BOOLEAN)
    <3>1. had' \in {had, Append(had, text = Text)}
      BY <1>3 DEF Searched
    <3> QED
      BY <3>1, HadGrows
  <2>2. CASE call = "media"
    BY <1>3, <2>1, <2>2, <2>4 DEF Searched, Answer
  <2>3. CASE call = "uri"
    <3>1. Proceed(Tail(profiles)) /\ Tail(profiles) \in Seq(Profile) /\ Head(profiles) \in Profile
      BY <1>3, <2>3, TailFacts DEF Searched
    <3>2. streams' = IF text = Text THEN Append(streams, Head(profiles)) ELSE streams
      BY <1>3, <2>3 DEF Searched
    <3>3. streams' \in Seq(Profile)
      BY <3>1, <3>2
    <3> QED
      BY <2>1, <2>4, <3>1, <3>3, ProceedHolds
  <2> QED
    BY <1>3, <2>2, <2>3
<1>4. ASSUME NEW token \in Token \cup {Blank}, StartProfile(token) PROVE Held'
  <2>1. p' \in Profile
    BY <1>4, ProfileFacts DEF StartProfile
  <2>2. document' = Append(document, p') /\ UNCHANGED <<call, profiles, streams, err, had>>
    BY <1>4 DEF StartProfile
  <2>3. document' \in Seq(Profile)
    BY <2>1, <2>2
  <2> QED
    BY <2>1, <2>2, <2>3
<1>5. ASSUME NEW text \in Texts, DecodeName(text) PROVE Held'
  <2>1. p' \in Profile /\ UNCHANGED <<call, profiles, streams, err, had>>
    BY <1>5, ProfileFacts DEF DecodeName
  <2>2. document' = NameOf(text)
    BY <1>5 DEF DecodeName
  <2>3. document' \in Seq(Profile)
    BY <2>2, ExceptFacts DEF NameOf
  <2> QED
    BY <2>1, <2>3
<1>6. ASSUME NEW text \in Texts, DecodeEncoding(text) PROVE Held'
  <2>1. p' \in Profile /\ UNCHANGED <<call, profiles, streams, err, had>>
    BY <1>6, ProfileFacts DEF DecodeEncoding
  <2>2. document' = EncodingOf(text)
    BY <1>6 DEF DecodeEncoding
  <2>3. document' \in Seq(Profile)
    BY <2>2, ExceptFacts DEF EncodingOf
  <2> QED
    BY <2>1, <2>3
<1>7. CASE EndInner
  <2>1. UNCHANGED <<call, streams, err, document, had>>
    BY <1>7 DEF EndInner
  <2>2. call' # "uri"
    BY <1>7 DEF EndInner, Parsing
  <2>3. p' \in Profile
    BY <1>7, ProfileFacts DEF EndInner
  <2>4. profiles' \in {profiles, Append(profiles, p)}
    BY <1>7 DEF EndInner, Complete
  <2>5. profiles' \in Seq(Profile)
    <3>1. profiles \in Seq(Profile) /\ p \in Profile
      OBVIOUS
    <3> HIDE DEF Held
    <3> QED
      BY <2>4, <3>1
  <2> QED
    BY <2>1, <2>2, <2>3, <2>5
<1>8. CASE EndDocument
  <2>1. p' \in Profile /\ UNCHANGED <<streams, document, had>>
    BY <1>8, ProfileFacts DEF EndDocument, DecoderReset
  <2> DEFINE all == IF depth > 0 /\ p.token # Blank THEN Append(profiles, p) ELSE profiles
  <2>2. Proceed(all)
    BY <1>8 DEF EndDocument
  <2>3. all \in Seq(Profile)
    OBVIOUS
  <2> QED
    BY <2>1, <2>2, <2>3, ProceedHolds
<1>9. SearchFails \/ (\E text \in Texts : SearchFinds(text)) =>
         \E text \in Texts : Searched(text) /\ call \in {"media", "uri"}
  BY DEF SearchFails, SearchFinds, Searching, Texts
<1> HIDE DEF Held
<1> QED
  BY <1>1, <1>2, <1>3, <1>4, <1>5, <1>6, <1>7, <1>8, <1>9, Zenon DEF UriNext

-----------------------------------------------------------------------------
(* What is read of the profiles. *)

\* The profiles that are not left out.
WithTokens == {q \in Profile : q.token # Blank}

\* What parseProfiles has read are the profiles with a token of the document as its
\* paths tell it, but for the last one, p, while that is being read.
Reads ==
    /\ call = "media" => profiles = <<>> /\ document = <<>>
    /\ call = "profiles" =>
          IF depth > 0
          THEN \E f \in Seq(Profile) : document = Append(f, p) /\ profiles = Kept(f, WithTokens)
          ELSE profiles = Kept(document, WithTokens)

\* Where a name or an encoding is read, the path agrees that it is the profile's: the
\* counters say so, and by the invariant they are right.
LEMMA PathFacts ==
    ASSUME IInv, Parsing, depth > 0
    PROVE  /\ vecDepth = 0 /\ depth = 1 => Len(ProfilePath) = 1
           /\ vecDepth > 0 => Contains(ProfilePath, VEC)
<1>1. open \in Seq(Elements) /\ Len(open) \in Nat /\ depth \in Nat /\ vecDepth \in Nat
  BY DEF IInv, Shape
<1>2. PICK k \in 1..Len(open) : Inside(k)
  BY DEF IInv, Located
<1>3. ProfileAt(k)
  BY <1>2 DEF Inside
<1>4. k \in DOMAIN open
  BY <1>3 DEF ProfileAt
<1>5. \A j \in DOMAIN open : ProfileAt(j) => j = k
  BY <1>1, <1>3 DEF ProfileAt
<1>6. ProfilePath = SubSeq(open, k, Len(open))
  <2>1. (CHOOSE j \in DOMAIN open : ProfileAt(j)) = k
    BY <1>3, <1>4, <1>5
  <2> QED
    BY <2>1 DEF ProfilePath
<1>7. k \in Int /\ Len(open) \in Int /\ k <= Len(open)
  BY <1>1
<1>8. \A i \in k..Len(open) : open[i] \in Elements
  BY <1>1
<1>9. /\ Len(ProfilePath) = Len(open) - k + 1
      /\ ProfilePath \in Seq(Elements)
      /\ \A i \in 1..(Len(open) - k + 1) : ProfilePath[i] = open[k + i - 1]
  BY <1>6, <1>7, <1>8, SubSeqProperties
<1>10. ASSUME vecDepth = 0, depth = 1 PROVE Len(ProfilePath) = 1
  BY <1>1, <1>2, <1>9, <1>10 DEF Inside
<1>11. ASSUME vecDepth > 0 PROVE Contains(ProfilePath, VEC)
  <2>1. open[k + depth - 1] = VEC /\ depth \in 1..(Len(open) - k + 1)
    BY <1>1, <1>2, <1>11 DEF Inside
  <2>2. ProfilePath[depth] = VEC
    BY <1>9, <2>1
  <2> QED
    BY <1>1, <1>9, <2>1, <2>2 DEF Contains
<1> QED
  BY <1>10, <1>11

\* A sequence is the function on its places.
LEMMA AsFunction ==
    ASSUME NEW s \in Seq(Profile)
    PROVE  s \in [1..Len(s) -> Profile] /\ s = [i \in 1..Len(s) |-> s[i]]
OBVIOUS

\* What NameOf, EncodingOf and the steps do to a list and to a profile.
LastNamed(s, text) == [s EXCEPT ![Len(s)].name = text]
LastCoded(s, text) == [s EXCEPT ![Len(s)].encoding = text]
Named(q, text) == [q EXCEPT !.name = text]
Coded(q, text) == [q EXCEPT !.encoding = text]

\* Changing the last profile of a list.
LEMMA LastChanged ==
    ASSUME NEW f \in Seq(Profile), NEW q \in Profile, NEW text \in Texts,
           NEW s, s = Append(f, q)
    PROVE  /\ LastNamed(s, text) = Append(f, Named(q, text))
           /\ LastCoded(s, text) = Append(f, Coded(q, text))
<1> DEFINE n == Len(f)
<1>1. /\ s \in Seq(Profile) /\ Len(s) = n + 1 /\ n \in Nat /\ DOMAIN s = 1..n + 1
      /\ s[n + 1] = q /\ \A i \in 1..n : s[i] = f[i]
  OBVIOUS
<1>2. [q EXCEPT !.name = text] \in Profile /\ [q EXCEPT !.encoding = text] \in Profile
  BY ProfileFacts
<1>3. ASSUME NEW e \in Profile
      PROVE  Append(f, e) = [i \in 1..n + 1 |-> IF i = n + 1 THEN e ELSE f[i]]
  <2> DEFINE t == Append(f, e)
  <2>1. /\ t \in Seq(Profile) /\ DOMAIN t = 1..n + 1 /\ n \in Nat
        /\ t[n + 1] = e /\ \A i \in 1..n : t[i] = f[i]
    OBVIOUS
  <2>5. Len(t) = n + 1
    OBVIOUS
  <2>2. t = [i \in 1..n + 1 |-> t[i]]
    <3> HIDE DEF t, n
    <3> QED
      BY <2>1, <2>5, AsFunction
  <2> HIDE DEF t, n
  <2>3. \A i \in 1..n + 1 : t[i] = IF i = n + 1 THEN e ELSE f[i]
    BY <2>1
  <2>4. t = [i \in 1..n + 1 |-> IF i = n + 1 THEN e ELSE f[i]]
    BY <2>2, <2>3
  <2> QED
    BY <2>4 DEF t
<1>6. s \in [1..n + 1 -> Profile]
  BY <1>1, AsFunction
<1> HIDE DEF n
<1>4. [s EXCEPT ![n + 1].name = text] = Append(f, [q EXCEPT !.name = text])
  BY <1>1, <1>2, <1>3, <1>6
<1>5. [s EXCEPT ![n + 1].encoding = text] = Append(f, [q EXCEPT !.encoding = text])
  BY <1>1, <1>2, <1>3, <1>6
<1> QED
  BY <1>1, <1>4, <1>5 DEF LastNamed, LastCoded, Named, Coded

\* At first there is no document and no profile.
LEMMA ReadsInitially == Init => Reads
<1>1. Kept(<<>>, WithTokens) = <<>>
  BY KeptNothing
<1> QED
  BY <1>1 DEF Init, UriOff, UriInit, Idle, Reads

\* Every step of a call keeps what is read that of the document.
LEMMA ReadsKept ==
    ASSUME IInv, Held, Reads, UriNext
    PROVE  Reads'
<1> DEFINE Document == \E f \in Seq(Profile) : /\ document = Append(f, p)
                                               /\ profiles = Kept(f, WithTokens)
<1>1. /\ profiles \in Seq(Profile) /\ document \in Seq(Profile) /\ p \in Profile
      /\ depth \in Nat /\ vecDepth \in Nat
  BY DEF IInv, Shape, Held
<1>2. call = "profiles" /\ depth > 0 => Document
  BY DEF Reads
<1>3. call = "profiles" /\ depth = 0 => profiles = Kept(document, WithTokens)
  BY DEF Reads
<1>4. ASSUME call' # "media", call' # "profiles" PROVE Reads'
  BY <1>4 DEF Reads
<1>5. ASSUME UNCHANGED <<call, p, profiles, document>>, (depth > 0) = (depth' > 0)
      PROVE  Reads'
  BY <1>5 DEF Reads
<1>6. CASE SoapCall \/ SearchEnd \/ StartOutside \/ EndOutside
  BY <1>5, <1>6 DEF SoapCall, decoder, SearchEnd, StartOutside, EndOutside
<1>7. ASSUME NEW name \in Elements, SearchStart(name) PROVE Reads'
  BY <1>5, <1>7 DEF SearchStart
<1>8. ASSUME NEW name \in Elements, StartInner(name) PROVE Reads'
  <2>1. (depth > 0) = (depth' > 0)
    BY <1>1, <1>8 DEF StartInner
  <2> QED
    BY <1>5, <1>8, <2>1 DEF StartInner
<1>9. ASSUME NEW name \in Elements, StartInVec(name) PROVE Reads'
  BY <1>5, <1>9 DEF StartInVec
<1>10. CASE EndInVec
  <2>1. depth > 1 /\ depth' > 0
    <3>1. vecDepth > 0 /\ depth' = IF vecDepth = 1 THEN depth - 1 ELSE depth
      BY <1>10 DEF EndInVec
    <3>2. PICK k \in 1..Len(open) : Inside(k)
      BY <3>1 DEF IInv, Shape, Located
    <3>3. depth > 1
      BY <3>1, <3>2 DEF Inside
    <3> QED
      BY <1>1, <3>1, <3>3
  <2>2. (depth > 0) = (depth' > 0)
    BY <1>1, <2>1
  <2> QED
    BY <1>5, <1>10, <2>2 DEF EndInVec
<1>11. ASSUME NEW rest, Proceed(rest) PROVE call' \in {"uri", "answered"}
  BY <1>11 DEF Proceed, Answer
<1>12. CASE SoapCallFails
  BY <1>4, <1>11, <1>12 DEF SoapCallFails, Answer
<1>13. CASE EndDocument
  BY <1>4, <1>11, <1>13 DEF EndDocument
<1>14. ASSUME NEW text \in Texts, Searched(text), call \in {"media", "uri"} PROVE Reads'
  <2>1. CASE call = "media" /\ call' = "profiles"
    <3>1. profiles = <<>> /\ document = <<>>
      BY <2>1 DEF Reads
    <3>2. UNCHANGED <<profiles, document>> /\ depth' = 0
      BY <1>14, <2>1 DEF Searched, DecoderReset, Answer
    <3>3. Kept(<<>>, WithTokens) = <<>>
      BY KeptNothing
    <3> QED
      BY <2>1, <3>1, <3>2, <3>3 DEF Reads
  <2>2. CASE ~(call = "media" /\ call' = "profiles")
    BY <1>4, <1>11, <1>14, <2>2 DEF Searched, Answer
  <2> QED
    BY <2>1, <2>2
<1>15. SearchFails \/ (\E text \in Texts : SearchFinds(text)) =>
         \E text \in Texts : Searched(text) /\ call \in {"media", "uri"}
  BY DEF SearchFails, SearchFinds, Searching, Texts
<1>16. ASSUME NEW token \in Token \cup {Blank}, StartProfile(token) PROVE Reads'
  <2>1. /\ call = "profiles" /\ depth = 0 /\ call' = call /\ depth' = 1
        /\ profiles' = profiles /\ document' = Append(document, p')
    BY <1>16 DEF StartProfile, Parsing
  <2>2. profiles' = Kept(document, WithTokens)
    BY <1>3, <2>1
  <2> QED
    BY <1>1, <2>1, <2>2 DEF Reads
<1>17. ASSUME NEW text \in Texts, DecodeName(text) PROVE Reads'
  <2>1. /\ Parsing /\ depth = 1 /\ vecDepth = 0 /\ p' = [p EXCEPT !.name = text]
        /\ document' = NameOf(text) /\ UNCHANGED <<call, depth, profiles>>
    BY <1>17 DEF DecodeName
  <2>2. PICK f \in Seq(Profile) : document = Append(f, p) /\ profiles = Kept(f, WithTokens)
    BY <1>2, <2>1 DEF Parsing
  <2>3. Len(ProfilePath) = 1
    BY <2>1, PathFacts
  <2>4. document' = Append(f, p')
    <3>1. NameOf(text) = LastNamed(document, text) /\ p' = Named(p, text)
      BY <2>1, <2>3 DEF NameOf, LastNamed, Named
    <3>2. LastNamed(document, text) = Append(f, Named(p, text))
      BY <1>1, <2>2, LastChanged
    <3> QED
      BY <2>1, <3>1, <3>2
  <2>5. call' = "profiles" /\ depth' > 0 /\ profiles' = Kept(f, WithTokens)
    BY <2>1, <2>2 DEF Parsing
  <2> QED
    BY <2>4, <2>5 DEF Reads
<1>18. ASSUME NEW text \in Texts, DecodeEncoding(text) PROVE Reads'
  <2>1. /\ Parsing /\ vecDepth > 0 /\ p' = [p EXCEPT !.encoding = text]
        /\ document' = EncodingOf(text) /\ UNCHANGED <<call, depth, profiles>>
    BY <1>18 DEF DecodeEncoding
  <2>6. depth > 0
    BY <2>1 DEF IInv, Shape
  <2>2. PICK f \in Seq(Profile) : document = Append(f, p) /\ profiles = Kept(f, WithTokens)
    BY <1>2, <2>1, <2>6 DEF Parsing
  <2>3. Contains(ProfilePath, "VideoEncoderConfiguration")
    BY <2>1, <2>6, PathFacts DEF VEC
  <2>4. document' = Append(f, p')
    <3>1. EncodingOf(text) = LastCoded(document, text) /\ p' = Coded(p, text)
      BY <2>1, <2>3 DEF EncodingOf, LastCoded, Coded
    <3>2. LastCoded(document, text) = Append(f, Coded(p, text))
      BY <1>1, <2>2, LastChanged
    <3> QED
      BY <2>1, <3>1, <3>2
  <2>5. call' = "profiles" /\ depth' > 0 /\ profiles' = Kept(f, WithTokens)
    BY <2>1, <2>2, <2>6 DEF Parsing
  <2> QED
    BY <2>4, <2>5 DEF Reads
<1>19. CASE EndInner
  <2>1. /\ call = "profiles" /\ depth > 0 /\ depth' = depth - 1
        /\ UNCHANGED <<call, document>>
    BY <1>19 DEF EndInner, Parsing
  <2>2. CASE depth = 1
    <3>1. PICK f \in Seq(Profile) : document = Append(f, p) /\ profiles = Kept(f, WithTokens)
      BY <1>2, <2>1
    <3>2. profiles' = IF p.token # Blank THEN Append(profiles, p) ELSE profiles
      BY <1>19, <2>2 DEF EndInner, Complete
    <3>3. p \in WithTokens <=> p.token # Blank
      BY <1>1 DEF WithTokens
    <3>4. Kept(document, WithTokens)
             = IF p \in WithTokens THEN Append(profiles, p) ELSE profiles
      BY <1>1, <3>1, KeptAppend
    <3>5. profiles' = Kept(document', WithTokens) /\ ~(depth' > 0)
      BY <2>1, <2>2, <3>2, <3>3, <3>4
    <3> QED
      BY <2>1, <3>5 DEF Reads
  <2>3. CASE depth # 1
    <3>1. UNCHANGED <<profiles, p>>
      BY <1>19, <2>3 DEF EndInner
    <3>2. (depth > 0) = (depth' > 0)
      BY <1>1, <2>1, <2>3
    <3> QED
      BY <1>5, <2>1, <3>1, <3>2
  <2> QED
    BY <2>2, <2>3
<1> QED
  BY <1>6, <1>7, <1>8, <1>9, <1>10, <1>12, <1>13, <1>14, <1>15, <1>16, <1>17, <1>18, <1>19,
     Zenon DEF UriNext

\* What has been read by path.
LEMMA ReadsFacts ==
    ASSUME IInv, Held, Reads, call = "profiles"
    PROVE  /\ profiles \o Begun = WithToken
           /\ WithToken = IF depth > 0 /\ p.token # Blank THEN Append(profiles, p) ELSE profiles
<1>1. /\ profiles \in Seq(Profile) /\ document \in Seq(Profile) /\ p \in Profile
      /\ depth \in Nat
  BY DEF IInv, Shape, Held
<1>2. WithToken = Kept(document, WithTokens)
  BY DEF WithToken, WithTokens
<1>3. CASE depth > 0
  <2>1. PICK f \in Seq(Profile) : document = Append(f, p) /\ profiles = Kept(f, WithTokens)
    BY <1>3 DEF Reads
  <2>2. p \in WithTokens <=> p.token # Blank
    BY <1>1 DEF WithTokens
  <2>3. WithToken = IF p.token # Blank THEN Append(profiles, p) ELSE profiles
    BY <1>1, <1>2, <2>1, <2>2, KeptAppend
  <2>4. profiles \o <<p>> = Append(profiles, p) /\ profiles \o <<>> = profiles
    BY <1>1
  <2> QED
    BY <1>3, <2>3, <2>4 DEF Begun
<1>4. CASE ~(depth > 0)
  <2>1. WithToken = profiles
    BY <1>2, <1>4 DEF Reads
  <2>2. profiles \o <<>> = profiles
    BY <1>1
  <2> QED
    BY <1>4, <2>1, <2>2 DEF Begun
<1> QED
  BY <1>3, <1>4

\* At first a call holds nothing.
LEMMA HeldInitially == Init => Held /\ Bounded
<1>1. NoProfile \in Profile
  BY ProfileFacts
<1>2. ASSUME Idle, call \in {"off", "media"} PROVE Held /\ Bounded
  <2>1. /\ open = <<>> /\ inParent = FALSE /\ reading = FALSE /\ err = FALSE
        /\ profiles = <<>> /\ streams = <<>> /\ document = <<>> /\ p = NoProfile
        /\ had = <<>>
    BY <1>2 DEF Idle
  <2>2. Len(open) <= MaxOpen
    BY <2>1, StreamURIsAssumption
  <2>3. Bounded
    <3>1. reading \in BOOLEAN /\ ~inParent
      BY <2>1
    <3> QED
      BY <2>2, <3>1 DEF Bounded
  <2>4. profiles \in Seq(Profile) /\ streams \in Seq(Profile) /\ document \in Seq(Profile)
          /\ had \in Seq(BOOLEAN)
    BY <2>1
  <2>5. p \in Profile /\ err \in BOOLEAN
    BY <1>1, <2>1
  <2>6. Held
    BY <1>2, <2>4, <2>5 DEF Held
  <2> QED
    BY <2>3, <2>6
<1> QED
  BY <1>2 DEF Init, UriOff, UriInit

\* The invariant of a call of GetStreamURIs, but for its answer.
UriInv == IInv /\ Held /\ Bounded /\ Reads

\* It is inductive.
LEMMA UriKeeps == UriInv /\ [Next]_<<scanVars, uriVars>> => UriInv'
<1> SUFFICES ASSUME UriInv, [Next]_<<scanVars, uriVars>> PROVE UriInv'
  OBVIOUS
<1>1. IInv'
  BY Inductive DEF UriInv
<1>2. CASE UriNext
  BY <1>1, <1>2, HeldKept, BoundedKept, ReadsKept DEF UriInv
<1>3. CASE UNCHANGED uriVars
  <2>1. Held' /\ Bounded' /\ Reads'
    BY <1>3 DEF uriVars, UriInv, Held, Bounded, Reads
  <2> QED
    BY <1>1, <2>1 DEF UriInv
<1> QED
  BY <1>2, <1>3 DEF Next, Scanning, Streaming

\* It holds at first.
LEMMA UriInitially == Init => UriInv
  BY Initially, HeldInitially, ReadsInitially DEF UriInv

\* It holds at every moment of every call of the package.
THEOREM UriInvariance == Spec => []UriInv
  BY UriInitially, UriKeeps, PTL DEF Spec

\* Counting in place of following the path loses nothing, in any document: what is read
\* are the document's profiles that have a token, with their own name and encoding.
THEOREM ReadsThePath == Spec => []ReadsByPath
<1>1. UriInv => (call = "profiles" => profiles \o Begun = WithToken)
  BY ReadsFacts DEF UriInv
<1>2. CountersInStep /\ UriInv => ReadsByPath
  BY <1>1 DEF ReadsByPath
<1> QED
  BY <1>2, CountersFollowPath, UriInvariance, PTL

\* The bounds of the counters follow from their place on the path.
LEMMA UriTypes == UriInv => UriTypeOK
<1> SUFFICES ASSUME UriInv PROVE UriTypeOK
  OBVIOUS
<1>1. /\ open \in Seq(Elements) /\ Len(open) \in Nat /\ MaxOpen \in Nat /\ Len(open) <= MaxOpen
      /\ depth \in Nat /\ vecDepth \in Nat /\ inParent \in BOOLEAN /\ reading \in BOOLEAN
      /\ nested \in BOOLEAN
  BY StreamURIsAssumption DEF UriInv, IInv, Shape, Bounded
<1>2. depth \in 0..MaxOpen /\ vecDepth \in 0..MaxOpen
  <2>1. CASE depth > 0
    <3>1. PICK k \in 1..Len(open) : Inside(k)
      BY <2>1 DEF UriInv, IInv, Located
    <3>2. depth <= Len(open) /\ vecDepth <= Len(open)
      BY <1>1, <2>1, <3>1 DEF Inside
    <3> QED
      BY <1>1, <3>2
  <2>2. CASE ~(depth > 0)
    <3>1. depth = 0 /\ vecDepth = 0
      BY <1>1, <2>2 DEF UriInv, IInv, Shape
    <3> QED
      BY <1>1, <3>1
  <2> QED
    BY <2>1, <2>2
<1>3. /\ ~reading => open = <<>> /\ depth = 0 /\ vecDepth = 0 /\ ~inParent
      /\ vecDepth > 0 => depth > 0
      /\ depth > 0 => call = "profiles"
  BY DEF UriInv, IInv, Shape, Closed, Parsing
<1>4. /\ call \in {"off", "media", "profiles", "uri", "answered"} /\ err \in BOOLEAN
      /\ p \in Profile /\ {profiles, streams, document} \subseteq Seq(Profile)
      /\ had \in Seq(BOOLEAN)
      /\ inParent => call \in {"media", "uri"}
  BY DEF UriInv, Held, Bounded
<1> QED
  BY <1>1, <1>2, <1>3, <1>4 DEF UriTypeOK

-----------------------------------------------------------------------------
(* The answer. *)

\* The streams are those of the profiles asked for whose URI was had, in their order.
Picked(at) ==
    /\ at \in [1..Len(streams) -> 1..Len(had)]
    /\ \A i, j \in 1..Len(streams) : i < j => at[i] < at[j]
    /\ \A i \in 1..Len(streams) : streams[i] = WithToken[at[i]] /\ had[at[i]] = TRUE
    /\ \A j \in 1..Len(had) : had[j] = TRUE => \E i \in 1..Len(streams) : at[i] = j

\* The profiles left are those that were not asked for.
LeftAfter ==
    /\ Len(WithToken) = Len(had) + Len(profiles)
    /\ \A i \in 1..Len(profiles) : profiles[i] = WithToken[Len(had) + i]

\* The profiles before those left are done with, and the streams are theirs.
Serves ==
    /\ call \in {"media", "profiles"} => streams = <<>> /\ had = <<>>
    /\ call = "profiles" /\ ~reading => document = <<>>
    /\ call = "uri" => LeftAfter /\ \E at : Picked(at)
    /\ call = "answered" => /\ err = (streams = <<>>)
                            /\ Len(had) = Len(WithToken)
                            /\ \E at : Picked(at)

\* The document's profiles that have a token are a list.
LEMMA WithTokenFacts ==
    ASSUME Held
    PROVE  WithToken \in Seq(Profile) /\ Len(WithToken) \in Nat
<1>1. WithToken \in Seq(Profile \cap WithTokens)
  BY KeptPlaces DEF Held, WithToken, WithTokens
<1>2. Profile \cap WithTokens = WithTokens /\ WithTokens \subseteq Profile
  BY DEF WithTokens
<1> HIDE DEF WithToken
<1>3. WithToken \in Seq(Profile)
  BY <1>1, <1>2
<1> QED
  BY <1>3

\* Before the first profile is asked for nothing is picked.
LEMMA NoneFacts == streams = <<>> /\ had = <<>> => \E at : Picked(at)
<1> SUFFICES ASSUME streams = <<>>, had = <<>> PROVE Picked(<<>>)
  OBVIOUS
<1>1. Len(streams) = 0 /\ Len(had) = 0
  OBVIOUS
<1> QED
  BY <1>1 DEF Picked

\* The end of a profile's turn: with a stream for it or without.
LEMMA TurnFacts ==
    ASSUME Held, Serves, call = "uri", Proceed(Tail(profiles)), document' = document,
           NEW has \in BOOLEAN, had' = Append(had, has),
           streams' = IF has THEN Append(streams, Head(profiles)) ELSE streams
    PROVE  Serves'
<1> DEFINE n == Len(had)
           m == Len(streams)
<1>1. /\ profiles \in Seq(Profile) /\ profiles # <<>> /\ streams \in Seq(Profile)
      /\ WithToken' = WithToken /\ WithToken \in Seq(Profile) /\ Len(WithToken) \in Nat
  BY WithTokenFacts DEF Held, WithToken
<1>2. LeftAfter
  BY DEF Serves
<1>3. PICK at : Picked(at)
  BY DEF Serves
<1>4. /\ profiles' = Tail(profiles)
      /\ Len(profiles') = Len(profiles) - 1 /\ Len(profiles) \in Nat \ {0}
      /\ \A i \in 1..Len(profiles') : profiles'[i] = profiles[i + 1]
      /\ Head(profiles) = profiles[1] /\ profiles[1] \in Profile
  BY <1>1, TailFacts DEF Proceed
<1>5. /\ n \in Nat /\ Len(had') = n + 1 /\ had'[n + 1] = has
      /\ \A j \in 1..n : had'[j] = had[j]
  BY HadGrows DEF Held
<1>6. /\ m \in Nat /\ at \in [1..m -> 1..n]
      /\ \A i, j \in 1..m : i < j => at[i] < at[j]
      /\ \A i \in 1..m : streams[i] = WithToken[at[i]] /\ had[at[i]] = TRUE
      /\ \A j \in 1..n : had[j] = TRUE => \E i \in 1..m : at[i] = j
  BY <1>1, <1>3 DEF Picked
<1>7. LeftAfter'
  <2>1. Len(WithToken) = (n + 1) + Len(profiles')
    BY <1>2, <1>4, <1>5 DEF LeftAfter
  <2>2. ASSUME NEW i \in 1..Len(profiles') PROVE profiles'[i] = WithToken[(n + 1) + i]
    <3>1. i + 1 \in 1..Len(profiles) /\ n + (i + 1) = (n + 1) + i
      BY <1>4, <1>5
    <3>2. profiles[i + 1] = WithToken[n + (i + 1)]
      BY <1>2, <3>1 DEF LeftAfter
    <3> QED
      BY <1>4, <3>1, <3>2
  <2> QED
    BY <1>1, <1>5, <2>1, <2>2 DEF LeftAfter
<1>8. profiles[1] = WithToken[n + 1]
  BY <1>2, <1>4 DEF LeftAfter
<1>9. Len(had') = Len(WithToken') \/ profiles' # <<>>
  <2>1. profiles' = <<>> => Len(profiles') = 0
    OBVIOUS
  <2> QED
    BY <1>7, <1>5, <2>1 DEF LeftAfter
<1>10. \E b : Picked(b)'
  <2>1. CASE has = FALSE
    <3>1. streams' = streams
      BY <2>1
    <3> HIDE DEF n, m
    <3>2. at \in [1..m -> 1..n + 1]
      BY <1>5, <1>6
    <3>3. \A i \in 1..m : streams[i] = WithToken[at[i]] /\ had'[at[i]] = TRUE
      BY <1>5, <1>6
    <3>4. \A j \in 1..n + 1 : had'[j] = TRUE => \E i \in 1..m : at[i] = j
      <4> SUFFICES ASSUME NEW j \in 1..n + 1, had'[j] = TRUE PROVE \E i \in 1..m : at[i] = j
        OBVIOUS
      <4>1. j # n + 1
        BY <1>5, <2>1
      <4>2. j \in 1..n
        BY <1>5, <4>1
      <4> QED
        BY <1>5, <1>6, <4>2
    <3>5. Len(streams') = m /\ Len(had') = n + 1
      BY <1>5, <3>1 DEF m
    <3>6. Picked(at)'
      BY <1>1, <1>6, <3>1, <3>2, <3>3, <3>4, <3>5 DEF Picked
    <3> QED
      BY <3>6
  <2>2. CASE has = TRUE
    <3>1. streams' = Append(streams, Head(profiles))
      BY <2>2
    <3>2. /\ Len(streams') = m + 1 /\ streams'[m + 1] = WithToken[n + 1]
          /\ \A i \in 1..m : streams'[i] = streams[i]
      BY <1>1, <1>4, <1>8, <3>1
    <3>3. PICK b : b = [i \in 1..m + 1 |-> IF i <= m THEN at[i] ELSE n + 1]
      OBVIOUS
    <3> HIDE DEF n, m
    <3>4. \A i \in 1..m : b[i] = at[i] /\ at[i] \in 1..n
      BY <1>6, <3>3
    <3>5. b[m + 1] = n + 1
      BY <1>6, <3>3
    <3>6. b \in [1..m + 1 -> 1..n + 1]
      BY <1>5, <1>6, <3>3
    <3>7. \A i, j \in 1..m + 1 : i < j => b[i] < b[j]
      <4> SUFFICES ASSUME NEW i \in 1..m + 1, NEW j \in 1..m + 1, i < j PROVE b[i] < b[j]
        OBVIOUS
      <4>1. i \in 1..m
        BY <1>6
      <4>2. CASE j \in 1..m
        BY <1>6, <3>4, <4>1, <4>2
      <4>3. CASE j \notin 1..m
        <5>1. j = m + 1
          BY <1>6, <4>3
        <5> QED
          BY <1>5, <3>4, <3>5, <4>1, <5>1
      <4> QED
        BY <4>2, <4>3
    <3>8. \A i \in 1..m + 1 : streams'[i] = WithToken[b[i]] /\ had'[b[i]] = TRUE
      <4> SUFFICES ASSUME NEW i \in 1..m + 1
                   PROVE  streams'[i] = WithToken[b[i]] /\ had'[b[i]] = TRUE
        OBVIOUS
      <4>1. CASE i \in 1..m
        BY <1>5, <1>6, <3>2, <3>4, <4>1
      <4>2. CASE i \notin 1..m
        <5>1. i = m + 1
          BY <1>6, <4>2
        <5> QED
          BY <1>5, <2>2, <3>2, <3>5, <5>1
      <4> QED
        BY <4>1, <4>2
    <3>9. \A j \in 1..n + 1 : had'[j] = TRUE => \E i \in 1..m + 1 : b[i] = j
      <4> SUFFICES ASSUME NEW j \in 1..n + 1, had'[j] = TRUE PROVE \E i \in 1..m + 1 : b[i] = j
        OBVIOUS
      <4>1. CASE j \in 1..n
        <5>1. PICK i \in 1..m : at[i] = j
          BY <1>5, <1>6, <4>1
        <5>2. i \in 1..m + 1 /\ b[i] = j
          BY <1>6, <3>4, <5>1
        <5> QED
          BY <5>2
      <4>2. CASE j \notin 1..n
        <5>1. j = n + 1 /\ m + 1 \in 1..m + 1
          BY <1>5, <1>6, <4>2
        <5> QED
          BY <3>5, <5>1
      <4> QED
        BY <4>1, <4>2
    <3>10. Len(had') = n + 1
      BY <1>5
    <3>11. Picked(b)'
      BY <1>1, <3>2, <3>6, <3>7, <3>8, <3>9, <3>10 DEF Picked
    <3> QED
      BY <3>11
  <2> QED
    BY <2>1, <2>2
<1>11. CASE profiles' # <<>>
  <2>1. call' = "uri"
    BY <1>11 DEF Proceed
  <2> QED
    BY <1>7, <1>10, <2>1 DEF Serves
<1>12. CASE profiles' = <<>>
  <2>1. call' = "answered" /\ err' = (streams' = <<>>)
    BY <1>12 DEF Proceed, Answer
  <2> QED
    BY <1>9, <1>10, <1>12, <2>1 DEF Serves
<1> QED
  BY <1>11, <1>12

\* Where nothing was read nothing was to be asked for, and the answer is an error.
LEMMA NothingServed ==
    ASSUME Held', document' = <<>>, streams' = <<>>, had' = <<>>, err' = TRUE, call' = "answered"
    PROVE  Serves'
<1>1. (streams = <<>> /\ had = <<>> => \E at : Picked(at))'
  BY NoneFacts, PTL
<1>2. WithToken' = <<>>
  BY KeptNothing DEF WithToken
<1>3. Len(had') = Len(WithToken')
  BY <1>2
<1> QED
  BY <1>1, <1>3 DEF Serves

\* At first there are no streams.
LEMMA ServesInitially == Init => Serves
  BY DEF Init, UriOff, UriInit, Idle, Serves

\* A step that leaves all of this alone keeps it.
LEMMA ServesFrame ==
    ASSUME Serves, UNCHANGED <<call, profiles, streams, err, document, had>>, reading' \/ ~reading
    PROVE  Serves'
<1>1. WithToken' = WithToken
  BY DEF WithToken
<1>2. LeftAfter => LeftAfter'
  BY <1>1 DEF LeftAfter
<1>3. \A at : Picked(at) => Picked(at)'
  BY <1>1 DEF Picked
<1>4. call' = "uri" => LeftAfter' /\ \E at : Picked(at)'
  BY <1>2, <1>3 DEF Serves
<1>5. call' = "answered" => Len(had') = Len(WithToken') /\ \E at : Picked(at)'
  BY <1>1, <1>3 DEF Serves
<1>6. /\ call' \in {"media", "profiles"} => streams' = <<>> /\ had' = <<>>
      /\ call' = "profiles" /\ ~reading' => document' = <<>>
      /\ call' = "answered" => err' = (streams' = <<>>)
  BY DEF Serves
<1> QED
  BY <1>4, <1>5, <1>6 DEF Serves

\* Every step of a call keeps the streams those of the profiles done with.
LEMMA ServesKept ==
    ASSUME UriInv, Serves, UriNext, Held'
    PROVE  Serves'
<1>1. ASSUME reading' \/ ~reading, UNCHANGED <<call, profiles, streams, err, document, had>>
      PROVE  Serves'
  BY <1>1, ServesFrame
<1>2. ASSUME call = "profiles", reading, UNCHANGED <<call, reading, streams, had>> PROVE Serves'
  BY <1>2 DEF Serves
<1>3. CASE SoapCall \/ SearchEnd
  BY <1>1, <1>3 DEF SoapCall, SearchEnd, Searching
<1>4. ASSUME NEW name \in Elements, SearchStart(name) PROVE Serves'
  BY <1>1, <1>4 DEF SearchStart, Searching
<1>5. CASE StartOutside \/ EndOutside \/ EndInner \/ EndInVec
  BY <1>2, <1>5 DEF StartOutside, EndOutside, EndInner, EndInVec, Parsing
<1>6. ASSUME NEW name \in Elements, StartInner(name) \/ StartInVec(name) PROVE Serves'
  BY <1>2, <1>6 DEF StartInner, StartInVec, Parsing
<1>7. ASSUME NEW token, StartProfile(token) PROVE Serves'
  BY <1>2, <1>7 DEF StartProfile, Parsing
<1>8. ASSUME NEW text, DecodeName(text) \/ DecodeEncoding(text) PROVE Serves'
  BY <1>2, <1>8 DEF DecodeName, DecodeEncoding, Parsing
<1>9. CASE SoapCallFails
  <2>1. CASE call = "uri"
    <3>1. /\ Proceed(Tail(profiles)) /\ document' = document /\ had' = Append(had, FALSE)
          /\ streams' = IF FALSE THEN Append(streams, Head(profiles)) ELSE streams
      BY <1>9, <2>1 DEF SoapCallFails
    <3>2. FALSE \in BOOLEAN
      OBVIOUS
    <3> QED
      BY <2>1, <3>1, <3>2, TurnFacts DEF UriInv
  <2>2. CASE call # "uri"
    <3>1. /\ call \in {"media", "profiles"} /\ ~reading /\ err' = TRUE /\ call' = "answered"
          /\ UNCHANGED <<streams, had, document>>
      BY <1>9, <2>2 DEF SoapCallFails, Answer
    <3>2. streams' = <<>> /\ had' = <<>> /\ document' = <<>>
      BY <3>1 DEF Serves, UriInv, Reads
    <3> QED
      BY <3>1, <3>2, NothingServed
  <2> QED
    BY <2>1, <2>2
<1>10. ASSUME NEW text \in Texts, Searched(text), call \in {"media", "uri"} PROVE Serves'
  <2>1. CASE call = "uri"
    <3>1. PICK has \in BOOLEAN : has = (text = Text)
      OBVIOUS
    <3>2. /\ Proceed(Tail(profiles)) /\ document' = document
          /\ streams' = IF text = Text THEN Append(streams, Head(profiles)) ELSE streams
          /\ had' = Append(had, text = Text)
      BY <1>10, <2>1 DEF Searched
    <3>3. had' = Append(had, has)
      BY <3>1, <3>2
    <3>4. streams' = IF has THEN Append(streams, Head(profiles)) ELSE streams
      BY <3>1, <3>2
    <3> QED
      BY <2>1, <3>2, <3>3, <3>4, TurnFacts DEF UriInv
  <2>2. CASE call = "media"
    <3>1. /\ call' = "profiles" \/ (call' = "answered" /\ err' = TRUE)
          /\ UNCHANGED <<streams, had, document>>
      BY <1>10, <2>2 DEF Searched, Answer
    <3>2. streams' = <<>> /\ had' = <<>> /\ document' = <<>>
      BY <2>2, <3>1 DEF Serves, UriInv, Reads
    <3>3. CASE call' = "profiles"
      BY <3>2, <3>3 DEF Serves
    <3>4. CASE call' = "answered" /\ err' = TRUE
      BY <3>2, <3>4, NothingServed
    <3> QED
      BY <3>1, <3>3, <3>4
  <2> QED
    BY <1>10, <2>1, <2>2
<1>11. CASE EndDocument
  <2> DEFINE all == IF depth > 0 /\ p.token # Blank THEN Append(profiles, p) ELSE profiles
  <2>1. /\ call = "profiles" /\ Proceed(all) /\ document' = document /\ streams' = streams
        /\ had' = had
    BY <1>11 DEF EndDocument, Parsing
  <2>2. all = WithToken
    BY <2>1, ReadsFacts DEF UriInv
  <2>3. profiles' = WithToken /\ streams' = <<>> /\ had' = <<>>
    BY <2>1, <2>2 DEF Proceed, Serves
  <2>4. WithToken' = WithToken
    BY <2>1 DEF WithToken
  <2>5. (streams = <<>> /\ had = <<>> => \E at : Picked(at))'
    BY NoneFacts, PTL
  <2>6. Len(had') = 0
    BY <2>3
  <2> HIDE DEF all
  <2>7. CASE all = <<>>
    <3>1. call' = "answered" /\ err' = (streams' = <<>>)
      BY <2>1, <2>7 DEF Proceed, Answer
    <3>2. Len(WithToken') = 0
      BY <2>2, <2>4, <2>7
    <3> QED
      BY <2>3, <2>5, <2>6, <3>1, <3>2 DEF Serves
  <2>8. CASE all # <<>>
    <3>1. call' = "uri"
      BY <2>1, <2>8 DEF Proceed
    <3>2. LeftAfter'
      <4>1. WithToken' \in Seq(Profile) /\ Len(WithToken') \in Nat /\ WithToken' = profiles'
        BY <2>3, <2>4, WithTokenFacts DEF UriInv
      <4>2. Len(WithToken') = 0 + Len(profiles')
        BY <4>1
      <4>3. \A i \in 1..Len(profiles') : profiles'[i] = WithToken'[0 + i]
        BY <4>1
      <4> QED
        BY <2>6, <4>2, <4>3 DEF LeftAfter
    <3> QED
      BY <2>3, <2>5, <3>1, <3>2 DEF Serves
  <2> QED
    BY <2>7, <2>8
<1>12. SearchFails \/ (\E text \in Texts : SearchFinds(text)) =>
         \E text \in Texts : Searched(text) /\ call \in {"media", "uri"}
  BY DEF SearchFails, SearchFinds, Searching, Texts
<1> QED
  BY <1>3, <1>4, <1>5, <1>6, <1>7, <1>8, <1>9, <1>10, <1>11, <1>12, Zenon DEF UriNext

\* So does every step of the package.
LEMMA ServesAlong == UriInv /\ Serves /\ [Next]_<<scanVars, uriVars>> => Serves'
<1> SUFFICES ASSUME UriInv, Serves, [Next]_<<scanVars, uriVars>> PROVE Serves'
  OBVIOUS
<1>1. CASE UriNext
  BY <1>1, ServesKept, HeldKept DEF UriInv
<1>2. CASE UNCHANGED uriVars
  BY <1>2, ServesFrame DEF uriVars
<1> QED
  BY <1>1, <1>2 DEF Next, Scanning, Streaming

\* GetStreamURIs answers with an error exactly if it has no stream; it has asked for
\* every profile of the document that has a token, and the streams are those of all the
\* profiles whose URI was had, in their order, whatever became of the others.
THEOREM AnswersTruly == Spec => []Answers
<1>1. UriInv /\ Serves => Answers
  <2> SUFFICES ASSUME UriInv, Serves, call = "answered" PROVE Answers
    BY DEF Answers
  <2>1. PICK at : Picked(at)
    BY DEF Serves
  <2>2. /\ WithToken \in Seq(Profile) /\ streams \in Seq(Profile) /\ had \in Seq(BOOLEAN)
        /\ err = (streams = <<>>) /\ Len(had) = Len(WithToken)
    BY WithTokenFacts DEF UriInv, Held, Serves
  <2> DEFINE m == Len(streams)
             n == Len(had)
  <2>3. /\ m \in Nat /\ DOMAIN streams = 1..m /\ n \in Nat
        /\ DOMAIN had = 1..n /\ DOMAIN had = DOMAIN WithToken
    BY <2>2
  <2>4. /\ at \in [1..m -> 1..n] /\ \A i, j \in 1..m : i < j => at[i] < at[j]
        /\ \A i \in 1..m : streams[i] = WithToken[at[i]] /\ had[at[i]] = TRUE
        /\ \A j \in 1..n : had[j] = TRUE => \E i \in 1..m : at[i] = j
    BY <2>1 DEF Picked
  <2>5. \A j \in 1..n : had[j] \in BOOLEAN
    BY <2>2
  <2> HIDE DEF m, n
  <2>6. at \in [DOMAIN streams -> DOMAIN had] /\ DOMAIN at = 1..m
    BY <2>3, <2>4
  <2>7. \A i \in DOMAIN at : streams[i] = WithToken[at[i]] /\ (i > 1 => at[i - 1] < at[i])
    BY <2>3, <2>4, <2>6
  <2>8. Range(at) = {j \in DOMAIN had : had[j]}
    BY <2>3, <2>4, <2>5, <2>6 DEF Range
  <2> QED
    BY <2>2, <2>3, <2>6, <2>7, <2>8 DEF Answers
<1>2. Spec => []Serves
  BY ServesInitially, ServesAlong, UriInvariance, PTL DEF Spec
<1> QED
  BY <1>1, <1>2, UriInvariance, PTL

-----------------------------------------------------------------------------
(* Scans: what is collected is what was heard. *)

\* Beside the types: a socket is only used for an address that is left, and what is
\* collected is, at every moment, what was heard, each address once.
ScanInv ==
    /\ scan \in {"off", "sending", "reading", "answered"}
    /\ single \in BOOLEAN /\ lastErr \in BOOLEAN
    /\ left \in Nat /\ (single => left <= 1) /\ (~single => left <= MaxLocal)
    /\ scan \in {"sending", "reading"} => left > 0
    /\ found \in Seq(XAddr) /\ cameras \in Seq(XAddr) /\ heard \subseteq XAddr
    /\ scan \in {"off", "sending", "answered"} => found = <<>>
    /\ ~single => /\ IsInjective(cameras) /\ ToSet(cameras) = heard
                  /\ scan = "answered" /\ lastErr => cameras = <<>>

\* What merging adds to the cameras there are.
LEMMA MergeFacts ==
    ASSUME NEW cams \in Seq(XAddr), found \in Seq(XAddr), IsInjective(cams)
    PROVE  /\ Merge(cams) \in Seq(XAddr) /\ IsInjective(Merge(cams))
           /\ ToSet(Merge(cams)) = ToSet(cams) \cup ToSet(found)
<1> DEFINE new == {k \in FirstHeard : ~Contains(cams, found[k])}
           n == Len(found)
           ids == [k \in DOMAIN found |-> k]
           kept == Kept(ids, new)
           add == [i \in DOMAIN kept |-> found[kept[i]]]
<1>1. n \in Nat /\ DOMAIN found = 1..n /\ \A i \in 1..n : found[i] \in XAddr
  OBVIOUS
<1>2. ids \in Seq(1..n) /\ Len(ids) = n /\ \A k \in 1..n : ids[k] = k
  BY <1>1
<1> HIDE DEF n, ids
<1>3. kept \in Seq((1..n) \cap new) /\ \E at : Selects(at, n, kept, ids, new)
  <2> HIDE DEF new
  <2> QED
    BY <1>2, KeptPlaces
<1>4. PICK at : Selects(at, n, kept, ids, new)
  BY <1>3
<1> DEFINE m == Len(kept)
<1>5. m \in Nat /\ DOMAIN kept = 1..m /\ \A i \in 1..m : kept[i] \in 1..n /\ kept[i] \in new
  <2> HIDE DEF new, kept
  <2>1. m \in Nat /\ DOMAIN kept = 1..m
    BY <1>3
  <2>2. \A i \in 1..m : kept[i] \in (1..n) \cap new
    BY <1>3
  <2> QED
    BY <2>1, <2>2
<1>6. new \subseteq 1..n
  BY <1>1 DEF FirstHeard
<1> HIDE DEF kept, m
<1>7. \A i, j \in 1..m : kept[i] = kept[j] => i = j
  <2> SUFFICES ASSUME NEW i \in 1..m, NEW j \in 1..m, i # j PROVE kept[i] # kept[j]
    OBVIOUS
  <2>1. /\ at \in [1..m -> 1..n] /\ \A a, b \in 1..m : a < b => at[a] < at[b]
        /\ \A a \in 1..m : kept[a] = ids[at[a]]
    BY <1>4 DEF Selects, m
  <2>2. at[i] \in 1..n /\ at[j] \in 1..n
    BY <2>1
  <2>4. kept[i] = at[i] /\ kept[j] = at[j] /\ at[i] \in Nat /\ at[j] \in Nat
    BY <1>1, <1>2, <2>1, <2>2
  <2>3. i < j \/ j < i
    BY <1>5
  <2> QED
    BY <2>1, <2>4, <2>3
<1>8. \A k \in new : \E i \in 1..m : kept[i] = k
  <2> SUFFICES ASSUME NEW k \in new PROVE \E i \in 1..m : kept[i] = k
    OBVIOUS
  <2>1. /\ {at[i] : i \in 1..m} = {a \in 1..n : ids[a] \in new}
        /\ \A a \in 1..m : kept[a] = ids[at[a]]
    BY <1>4 DEF Selects, m
  <2>2. k \in {a \in 1..n : ids[a] \in new}
    BY <1>2, <1>6
  <2>3. PICK i \in 1..m : at[i] = k
    BY <2>1, <2>2
  <2> QED
    BY <1>2, <1>6, <2>1, <2>3
<1>9. /\ add \in Seq(XAddr) /\ Len(add) = m
      /\ \A i \in 1..m : add[i] = found[kept[i]]
  BY <1>1, <1>5
<1>10. Merge(cams) = cams \o add
  BY DEF Merge, Adding, kept, ids
<1> HIDE DEF add
<1> DEFINE c == Len(cams)
           all == cams \o add
<1>11. /\ c \in Nat /\ all \in Seq(XAddr) /\ Len(all) = c + m /\ DOMAIN all = 1..c + m
       /\ \A i \in 1..c : all[i] = cams[i]
       /\ \A i \in 1..m : all[c + i] = add[i]
       /\ DOMAIN cams = 1..c
  <2>1. c \in Nat /\ DOMAIN cams = 1..c
    OBVIOUS
  <2>2. all \in Seq(XAddr)
    BY <1>9
  <2>3. Len(all) = c + m
    BY <1>9
  <2>4. DOMAIN all = 1..c + m
    BY <2>2, <2>3
  <2>5. \A i \in 1..c : all[i] = cams[i]
    BY <1>9
  <2>6. \A i \in 1..m : all[c + i] = add[i]
    BY <1>5, <1>9
  <2> QED
    BY <2>1, <2>2, <2>3, <2>4, <2>5, <2>6
<1> HIDE DEF c, all
<1>12. \A i \in 1..c + m : i \in 1..c \/ \E j \in 1..m : i = c + j
  <2> SUFFICES ASSUME NEW i \in 1..c + m, i \notin 1..c PROVE i - c \in 1..m /\ i = c + (i - c)
    OBVIOUS
  <2> QED
    BY <1>5, <1>11
<1>13. ASSUME NEW k \in new
       PROVE  /\ k \in 1..n
              /\ \A j \in 1..n : j < k => found[j] # found[k]
              /\ \A i \in 1..c : cams[i] # found[k]
  BY <1>1, <1>13 DEF FirstHeard, Contains, c
<1>14. \A i, j \in 1..m : add[i] = add[j] => i = j
  <2> SUFFICES ASSUME NEW i \in 1..m, NEW j \in 1..m, add[i] = add[j] PROVE i = j
    OBVIOUS
  <2>1. found[kept[i]] = found[kept[j]] /\ kept[i] \in new /\ kept[j] \in new
    BY <1>5, <1>9
  <2>2. kept[i] \in Nat /\ kept[j] \in Nat
    BY <1>5
  <2>3. ~(kept[i] < kept[j]) /\ ~(kept[j] < kept[i])
    BY <1>13, <2>1
  <2>4. kept[i] = kept[j]
    BY <2>2, <2>3
  <2> QED
    BY <1>7, <2>4
<1>15. \A i \in 1..c, j \in 1..m : cams[i] # add[j]
  BY <1>5, <1>9, <1>13
<1>16. IsInjective(all)
  <2>1. \A i, j \in 1..c : cams[i] = cams[j] => i = j
    BY <1>11 DEF IsInjective
  <2> SUFFICES ASSUME NEW i \in 1..c + m, NEW j \in 1..c + m, all[i] = all[j] PROVE i = j
    BY <1>11 DEF IsInjective
  <2>2. CASE i \in 1..c /\ j \in 1..c
    BY <1>11, <2>1, <2>2
  <2>3. ASSUME NEW a \in 1..c, NEW b \in 1..m, all[a] = all[c + b] PROVE FALSE
    BY <1>11, <1>15, <2>3
  <2>4. CASE i \in 1..c /\ j \notin 1..c
    <3>1. PICK b \in 1..m : j = c + b
      BY <1>12, <2>4
    <3> QED
      BY <2>3, <2>4, <3>1
  <2>5. CASE i \notin 1..c /\ j \in 1..c
    <3>1. PICK b \in 1..m : i = c + b
      BY <1>12, <2>5
    <3>2. all[j] = all[c + b]
      BY <3>1
    <3> QED
      BY <2>3, <2>5, <3>2
  <2>6. CASE i \notin 1..c /\ j \notin 1..c
    <3>1. PICK a \in 1..m : i = c + a
      BY <1>12, <2>6
    <3>2. PICK b \in 1..m : j = c + b
      BY <1>12, <2>6
    <3>3. add[a] = all[i] /\ add[b] = all[j]
      BY <1>11, <3>1, <3>2
    <3>4. a = b
      BY <1>14, <3>3
    <3> QED
      BY <3>1, <3>2, <3>4
  <2> QED
    BY <2>2, <2>4, <2>5, <2>6
<1>17. ToSet(all) = ToSet(cams) \cup ToSet(found)
  <2>1. /\ ToSet(all) = {all[i] : i \in 1..c + m} /\ ToSet(cams) = {cams[i] : i \in 1..c}
        /\ ToSet(found) = {found[i] : i \in 1..n}
    BY <1>1, <1>11 DEF ToSet
  <2>2. ToSet(all) \subseteq ToSet(cams) \cup ToSet(found)
    <3> SUFFICES ASSUME NEW i \in 1..c + m PROVE all[i] \in ToSet(cams) \cup ToSet(found)
      BY <2>1
    <3>1. CASE i \in 1..c
      <4>1. all[i] = cams[i]
        BY <1>11, <3>1
      <4> QED
        BY <2>1, <3>1, <4>1
    <3>2. CASE i \notin 1..c
      <4>1. PICK j \in 1..m : i = c + j
        BY <1>12, <3>2
      <4>2. all[i] = found[kept[j]] /\ kept[j] \in 1..n
        BY <1>5, <1>9, <1>11, <4>1
      <4> QED
        BY <2>1, <4>2
    <3> QED
      BY <3>1, <3>2
  <2>3. ToSet(cams) \subseteq ToSet(all)
    BY <1>5, <1>11, <2>1
  <2>4. ASSUME NEW k \in 1..n PROVE found[k] \in ToSet(all)
    <3> DEFINE same == {j \in Nat : j \in 1..n /\ found[j] = found[k]}
    <3>1. PICK f \in 1..n : found[f] = found[k] /\ \A j \in 1..n : j < f => found[j] # found[k]
      <4> DEFINE none == {a \in Nat : \A j \in 1..n : j <= a => found[j] # found[k]}
      <4> SUFFICES ASSUME \A f \in 1..n : found[f] = found[k] =>
                             \E j \in 1..n : j < f /\ found[j] = found[k]
                   PROVE  FALSE
        OBVIOUS
      <4>1. 0 \in none
        OBVIOUS
      <4>2. ASSUME NEW a \in Nat, a \in none PROVE a + 1 \in none
        <5> SUFFICES ASSUME NEW j \in 1..n, j <= a + 1, found[j] = found[k] PROVE FALSE
          OBVIOUS
        <5>1. PICK i \in 1..n : i < j /\ found[i] = found[k]
          OBVIOUS
        <5>2. i <= a
          BY <5>1
        <5> QED
          BY <4>2, <5>1, <5>2
      <4> HIDE DEF none
      <4>3. Nat \subseteq none
        BY <4>1, <4>2, Induction
      <4>4. k \in none
        BY <1>1, <4>3
      <4> QED
        BY <4>4, <1>1 DEF none
    <3>2. CASE Contains(cams, found[f])
      <4>1. PICK i \in 1..c : cams[i] = found[f]
        BY <3>2 DEF Contains, c
      <4> QED
        BY <1>11, <2>1, <2>3, <3>1, <4>1
    <3>3. CASE ~Contains(cams, found[f])
      <4>1. f \in new
        BY <1>1, <3>1, <3>3 DEF FirstHeard
      <4>2. PICK i \in 1..m : kept[i] = f
        BY <1>8, <4>1
      <4>3. all[c + i] = found[k] /\ c + i \in 1..c + m
        BY <1>5, <1>9, <1>11, <3>1, <4>2
      <4> QED
        BY <2>1, <4>3
    <3> QED
      BY <3>2, <3>3
  <2> QED
    BY <2>1, <2>2, <2>3, <2>4
<1> QED
  BY <1>10, <1>11, <1>16, <1>17 DEF all

\* Every scan begins with nothing heard.
LEMMA ScanInitially == Init => ScanInv
<1>1. ToSet(<<>>) = {} /\ IsInjective(<<>>) /\ <<>> \in Seq(XAddr)
  BY DEF ToSet, IsInjective
<1>2. MaxLocal \in Nat
  BY ScanAssumption
<1>3. ScanInit => ScanInv
  <2> SUFFICES ASSUME ScanInit PROVE ScanInv
    OBVIOUS
  <2>1. /\ single \in BOOLEAN /\ left \in Nat /\ lastErr \in BOOLEAN
        /\ (single => left <= 1) /\ (~single => left <= MaxLocal)
    BY <1>2 DEF ScanInit, LocalIPs
  <2>2. /\ scan = IF left = 0 THEN "answered" ELSE "sending"
        /\ found = <<>> /\ cameras = <<>> /\ heard = {}
    BY DEF ScanInit
  <2>3. /\ scan \in {"off", "sending", "reading", "answered"}
        /\ scan \in {"sending", "reading"} => left > 0
    BY <2>1, <2>2
  <2> QED
    BY <1>1, <2>1, <2>2, <2>3 DEF ScanInv
<1>4. ScanOff => ScanInv
  <2> SUFFICES ASSUME ScanOff PROVE ScanInv
    OBVIOUS
  <2>1. /\ scan = "off" /\ single = FALSE /\ left = 0
        /\ found = <<>> /\ cameras = <<>> /\ lastErr = FALSE /\ heard = {}
    BY DEF ScanOff
  <2>2. IsInjective(cameras) /\ ToSet(cameras) = heard
    BY <1>1, <2>1
  <2>3. found \in Seq(XAddr) /\ cameras \in Seq(XAddr) /\ heard \subseteq XAddr
    BY <2>1
  <2>4. left \in Nat /\ (single => left <= 1) /\ (~single => left <= MaxLocal)
    BY <1>2, <2>1
  <2>5. single \in BOOLEAN /\ lastErr \in BOOLEAN
    BY <2>1
  <2>6. /\ scan \in {"off", "sending", "reading", "answered"}
        /\ ~(scan \in {"sending", "reading"}) /\ scan # "answered"
    BY <2>1
  <2> HIDE <2>1
  <2>7. found = <<>>
    BY <2>1
  <2> QED
    BY <2>2, <2>3, <2>4, <2>5, <2>6, <2>7 DEF ScanInv
<1> QED
  BY <1>3, <1>4 DEF Init

\* A socket's end: what is collected by then is passed on.
LEMMA GoOnKeeps ==
    ASSUME ScanInv, scan \in {"sending", "reading"},
           NEW cams \in Seq(XAddr), NEW failed \in BOOLEAN, GoOn(cams, failed),
           single' = single, heard' \subseteq XAddr,
           ~single => IsInjective(cams) /\ ToSet(cams) = heard'
    PROVE  ScanInv'
<1>1. /\ single \in BOOLEAN /\ left \in Nat /\ left > 0
      /\ (single => left <= 1) /\ (~single => left <= MaxLocal)
  BY DEF ScanInv
<1>2. /\ found' = <<>> /\ left' = left - 1 /\ cameras' = cams
      /\ scan' = IF left = 1 THEN "answered" ELSE "sending"
      /\ lastErr' = IF left = 1 /\ ~single THEN failed /\ cams = <<>> ELSE failed
  BY DEF GoOn
<1>3. left' \in Nat /\ (single' => left' <= 1) /\ (~single' => left' <= MaxLocal)
  BY <1>1, <1>2, ScanAssumption
<1>4. lastErr' \in BOOLEAN
  BY <1>2, Zenon
<1>5. /\ scan' \in {"off", "sending", "reading", "answered"}
      /\ scan' \in {"sending", "reading"} => left' > 0
  BY <1>1, <1>2
<1>6. ~single' /\ scan' = "answered" /\ lastErr' => cameras' = <<>>
  <2> SUFFICES ASSUME ~single', scan' = "answered", lastErr' PROVE cameras' = <<>>
    OBVIOUS
  <2>1. left = 1 /\ ~single
    BY <1>2
  <2>2. lastErr' = (failed /\ cams = <<>>)
    BY <1>2, <2>1
  <2> QED
    BY <1>2, <2>2
<1>7. found' \in Seq(XAddr) /\ cameras' \in Seq(XAddr)
  BY <1>2
<1>8. ~single' => IsInjective(cameras') /\ ToSet(cameras') = heard'
  BY <1>2
<1> QED
  BY <1>1, <1>2, <1>3, <1>4, <1>5, <1>6, <1>7, <1>8 DEF ScanInv

\* Every step of a scan keeps what it has in step with what was heard.
LEMMA ScanKeeps == ScanInv /\ [Next]_<<scanVars, uriVars>> => ScanInv'
<1> SUFFICES ASSUME ScanInv, [Next]_<<scanVars, uriVars>> PROVE ScanInv'
  OBVIOUS
<1>1. /\ found \in Seq(XAddr) /\ cameras \in Seq(XAddr) /\ heard \subseteq XAddr
      /\ single \in BOOLEAN /\ lastErr \in BOOLEAN
      /\ ~single => IsInjective(cameras) /\ ToSet(cameras) = heard
  BY DEF ScanInv
<1>2. CASE UNCHANGED scanVars
  BY <1>2 DEF scanVars, ScanInv
<1>3. CASE SendFails
  BY <1>1, <1>3, GoOnKeeps DEF SendFails
<1>4. CASE SendProbe
  BY <1>4 DEF SendProbe, ScanInv
<1>5. CASE Deadline
  <2>1. ToSet(found) \subseteq XAddr
    BY <1>1 DEF ToSet
  <2>2. heard' = heard \cup ToSet(found) /\ single' = single
    BY <1>5 DEF Deadline
  <2>3. CASE single
    <3>1. GoOn(found, lastErr)
      BY <1>5, <2>3 DEF Deadline
    <3> QED
      BY <1>1, <1>5, <2>1, <2>2, <2>3, <3>1, GoOnKeeps DEF Deadline
  <2>4. CASE ~single
    <3>1. GoOn(Merge(cameras), lastErr)
      BY <1>5, <2>4 DEF Deadline
    <3>2. /\ Merge(cameras) \in Seq(XAddr) /\ IsInjective(Merge(cameras))
          /\ ToSet(Merge(cameras)) = heard'
      BY <1>1, <2>2, <2>4, MergeFacts
    <3> QED
      BY <1>1, <1>5, <2>1, <2>2, <3>1, <3>2, GoOnKeeps DEF Deadline
  <2> QED
    BY <2>3, <2>4
<1>6. CASE ReadFails
  <2>1. single' = single /\ heard' = heard /\ scan = "reading"
    BY <1>6 DEF ReadFails
  <2>2. CASE single
    <3>1. GoOn(found, TRUE)
      BY <1>6, <2>2 DEF ReadFails
    <3> QED
      BY <1>1, <2>1, <2>2, <3>1, GoOnKeeps
  <2>3. CASE ~single
    <3>1. GoOn(cameras, TRUE)
      BY <1>6, <2>3 DEF ReadFails
    <3> QED
      BY <1>1, <2>1, <2>3, <3>1, GoOnKeeps
  <2> QED
    BY <2>2, <2>3
<1>7. ASSUME NEW datagram \in Datagrams, ReadDatagram(datagram) PROVE ScanInv'
  <2>1. datagram \in Seq(XAddr \cup {Unusable})
    <3>1. PICK n \in 0..2 : datagram \in [1..n -> XAddr \cup {Unusable}]
      BY DEF Datagrams
    <3> QED
      BY <3>1
  <2>2. ParseProbeMatch(datagram) \in Seq((XAddr \cup {Unusable}) \cap XAddr)
    BY <2>1, KeptPlaces DEF ParseProbeMatch
  <2>3. (XAddr \cup {Unusable}) \cap XAddr = XAddr
    OBVIOUS
  <2>4. ParseProbeMatch(datagram) \in Seq(XAddr)
    BY <2>2, <2>3
  <2>5. found' = found \o ParseProbeMatch(datagram)
    BY <1>7 DEF ReadDatagram
  <2>6. found' \in Seq(XAddr)
    BY <1>1, <2>4, <2>5
  <2>7. scan = "reading" /\ UNCHANGED <<scan, single, left, cameras, lastErr, heard>>
    BY <1>7 DEF ReadDatagram
  <2> QED
    BY <2>6, <2>7 DEF ScanInv
<1> QED
  BY <1>2, <1>3, <1>4, <1>5, <1>6, <1>7 DEF Next, Scanning, Streaming, ScanNext

\* Discover answers with what it heard, each address once, however many sockets,
\* datagrams and errors there were.
THEOREM CollectsAll == Spec => []Collected
<1>1. ScanInv => Collected
  <2>1. ToSet(<<>>) = {}
    BY DEF ToSet
  <2> QED
    BY <2>1 DEF ScanInv, Collected
<1> QED
  BY ScanInitially, ScanKeeps, <1>1, PTL DEF Spec

\* The types of a scan are part of its invariant.
LEMMA ScanTypes == ScanInv => ScanTypeOK
<1> SUFFICES ASSUME ScanInv PROVE ScanTypeOK
  OBVIOUS
<1>1. left \in LocalIPs \cup {0, 1}
  BY ScanAssumption DEF ScanInv, LocalIPs
<1> QED
  BY <1>1 DEF ScanInv, ScanTypeOK

\* The variables of scans and of calls for streams have their types.
THEOREM TypeCorrect == Spec => []TypeOK
<1>1. ScanInv /\ UriInv => TypeOK
  BY ScanTypes, UriTypes DEF TypeOK
<1>2. Spec => []ScanInv
  BY ScanInitially, ScanKeeps, PTL DEF Spec
<1> QED
  BY <1>1, <1>2, UriInvariance, PTL

=============================================================================
