----------------------------- MODULE StreamURIs ----------------------------
(***************************************************************************)
(* GetStreamURIs (tui/onvif/client.go): the address of a camera's media    *)
(* service is asked for, then its profiles, then the stream URI of each.   *)
(* The answers are read token by token, by element name alone, with        *)
(* counters in place of the path: findNestedElement and parseProfiles.     *)
(*                                                                         *)
(* The XML decoder hands out the start and the end of elements that nest,  *)
(* and an error at the end of the document, which may come early; what it  *)
(* gives is chosen token by token, so documents have any length.  Of texts *)
(* only the ones looked for are kept: an element's text is Blank or Text.  *)
(***************************************************************************)
EXTENDS Integers, Sequences, SequencesExt, Sublists

CONSTANTS
    Token,        \* profile tokens
    MaxProfiles,  \* bound on the profiles of a camera
    MaxOpen       \* bound on the elements open at a time

ASSUME StreamURIsAssumption == MaxProfiles \in Nat /\ MaxOpen \in Nat

Blank == "blank"
Text == "text"
Texts == {Blank, Text}

VARIABLES
    call,      \* "off", "media", "profiles", "uri" or "answered"
    reading,   \* an answer to the call is being read
    open,      \* the decoder's: the names of the elements that are open
    inParent,  \* findNestedElement's
    depth, vecDepth,  \* parseProfiles': 0 outside its inner loops
    p,         \* the profile being read
    profiles,  \* the profiles read, then those still without a URI
    streams,   \* those a URI was found for
    err,
    document,  \* history: the profiles of the document by the elements' paths
    nested,    \* history: a parent began inside another in the answer being read
    had        \* history: of each profile asked for, whether its URI was had

uriVars == <<call, reading, open, inParent, depth, vecDepth, p, profiles, streams, err,
             document, nested, had>>
decoder == <<open, inParent, depth, vecDepth, p, nested>>

Profile == [token : Token \cup {Blank}, name : Texts, encoding : Texts]
NoProfile == [token |-> Blank, name |-> Blank, encoding |-> Blank]

Elements == {"Profiles", "Name", "VideoEncoderConfiguration", "Encoding", "Parent", "Child", "other"}

UriTypeOK ==
    /\ call \in {"off", "media", "profiles", "uri", "answered"}
    /\ {reading, inParent, err, nested} \subseteq BOOLEAN
    /\ had \in Seq(BOOLEAN)
    /\ open \in Seq(Elements) /\ Len(open) <= MaxOpen
    /\ depth \in 0..MaxOpen /\ vecDepth \in 0..MaxOpen
    /\ p \in Profile /\ {profiles, streams, document} \subseteq Seq(Profile)
    /\ ~reading => open = <<>> /\ depth = 0 /\ vecDepth = 0 /\ ~inParent
    /\ inParent => call \in {"media", "uri"}
    /\ vecDepth > 0 => depth > 0
    /\ depth > 0 => call = "profiles"

Idle ==
    /\ reading = FALSE /\ open = <<>> /\ inParent = FALSE
    /\ depth = 0 /\ vecDepth = 0 /\ p = NoProfile
    /\ profiles = <<>> /\ streams = <<>> /\ err = FALSE /\ document = <<>>
    /\ nested = FALSE /\ had = <<>>

UriOff == call = "off" /\ Idle
UriInit == call = "media" /\ Idle

-----------------------------------------------------------------------------
(* The calls.  soapCall fails in transport, at its timeout, and at any status but OK. *)

Answer(failed) ==
    /\ call' = "answered" /\ reading' = FALSE
    /\ err' = failed

\* The next profile, or the end; no stream at all is an error.
Proceed(rest) ==
    /\ profiles' = rest
    /\ IF rest # <<>>
       THEN call' = "uri" /\ reading' = FALSE /\ UNCHANGED err
       ELSE Answer(streams' = <<>>)

SoapCall ==
    /\ call \in {"media", "profiles", "uri"} /\ ~reading
    /\ reading' = TRUE
    /\ UNCHANGED <<call, decoder, profiles, streams, err, document, had>>

SoapCallFailsStops ==                     \* mutant: "break" where the code continues
    /\ call \in {"media", "profiles", "uri"} /\ ~reading
    /\ UNCHANGED <<decoder, streams, document>>
    /\ IF call = "uri"
       THEN Proceed(<<>>) /\ had' = Append(had, FALSE)
       ELSE Answer(TRUE) /\ UNCHANGED <<profiles, had>>

\* The media address or the profiles cannot be asked for: the answer is an error.  A
\* profile whose URI cannot be asked for is passed over.
SoapCallFails ==
    /\ call \in {"media", "profiles", "uri"} /\ ~reading
    /\ UNCHANGED <<decoder, streams, document>>
    /\ IF call = "uri"
       THEN Proceed(Tail(profiles)) /\ had' = Append(had, FALSE)
       ELSE Answer(TRUE) /\ UNCHANGED <<profiles, had>>

\* Every answer is read with a decoder, a flag and counters of its own.
DecoderResetKeepsFlag ==                  \* mutant: the flag outlives the answer
    /\ open' = <<>> /\ nested' = FALSE /\ UNCHANGED inParent
    /\ depth' = 0 /\ vecDepth' = 0 /\ p' = NoProfile

DecoderReset ==
    /\ open' = <<>> /\ nested' = FALSE /\ inParent' = FALSE
    /\ depth' = 0 /\ vecDepth' = 0 /\ p' = NoProfile

-----------------------------------------------------------------------------
(* findNestedElement: Parent is "Media" or "MediaUri", Child "XAddr" or "Uri". *)

Searching == reading /\ call \in {"media", "uri"}

\* The caller's part: a text that is blank, or an URI that cannot be parsed, is none.
Searched(text) ==
    /\ DecoderReset
    /\ UNCHANGED document
    /\ \/ /\ call = "media" /\ text = Text
          /\ call' = "profiles" /\ reading' = FALSE
          /\ UNCHANGED <<profiles, streams, err, had>>
       \/ /\ call = "media" /\ text = Blank
          /\ Answer(TRUE)
          /\ UNCHANGED <<profiles, streams, had>>
       \/ /\ call = "uri"
          /\ streams' = IF text = Text THEN Append(streams, Head(profiles)) ELSE streams
          /\ had' = Append(had, text = Text)
          /\ Proceed(Tail(profiles))

\* A parent may begin inside another; its end will reset the flag all the same.
SearchStart(name) ==
    /\ Searching /\ Len(open) < MaxOpen
    /\ name \in {"Parent", "Child", "other"}
    /\ ~(inParent /\ name = "Child")
    /\ open' = Append(open, name)
    /\ inParent' = (inParent \/ name = "Parent")
    /\ nested' = (nested \/ (name = "Parent" /\ Contains(open, "Parent")))
    /\ UNCHANGED <<call, reading, depth, vecDepth, p, profiles, streams, err, document, had>>

\* The element looked for is taken whole, with what is inside it.
SearchFinds(text) ==
    /\ Searching /\ inParent
    /\ Searched(text)

SearchEnd ==
    /\ Searching /\ open # <<>>
    /\ open' = Front(open)
    /\ inParent' = (inParent /\ Last(open) # "Parent")
    /\ UNCHANGED <<call, reading, depth, vecDepth, p, profiles, streams, err, document,
                   nested, had>>

SearchFails == Searching /\ Searched(Blank)

-----------------------------------------------------------------------------
(* parseProfiles. *)

Parsing == reading /\ call = "profiles"

\* The document as its paths tell it: a profile is an outermost element Profiles, its
\* name the text of a child, its encoding that of an element inside its configuration.
InProfile == Contains(open, "Profiles")

\* Where on the path the profile begins.
ProfileAt(k) ==
    /\ k \in DOMAIN open /\ open[k] = "Profiles"
    /\ \A j \in 1..(k - 1) : open[j] # "Profiles"

ProfilePath == SubSeq(open, CHOOSE k \in DOMAIN open : ProfileAt(k), Len(open))

NameOf(text) ==
    IF Len(ProfilePath) = 1 THEN [document EXCEPT ![Len(document)].name = text] ELSE document

EncodingOf(text) ==
    IF Contains(ProfilePath, "VideoEncoderConfiguration")
    THEN [document EXCEPT ![Len(document)].encoding = text]
    ELSE document

\* A profile outside the others; its attribute token may be missing.
StartProfile(token) ==
    /\ Parsing /\ depth = 0 /\ Len(open) < MaxOpen
    /\ Len(document) < MaxProfiles
    /\ open' = Append(open, "Profiles")
    /\ depth' = 1
    /\ p' = [NoProfile EXCEPT !.token = token]
    /\ document' = Append(document, p')
    /\ UNCHANGED <<call, reading, inParent, vecDepth, profiles, streams, err, nested, had>>

\* Outside the profiles no other element is looked at.
StartOutside ==
    /\ Parsing /\ depth = 0 /\ Len(open) < MaxOpen
    /\ open' = Append(open, "other")
    /\ UNCHANGED <<call, reading, inParent, depth, vecDepth, p, profiles, streams, err,
                   document, nested, had>>

EndOutside ==
    /\ Parsing /\ depth = 0 /\ open # <<>>
    /\ open' = Front(open)
    /\ UNCHANGED <<call, reading, inParent, depth, vecDepth, p, profiles, streams, err,
                   document, nested, had>>

\* Inside one: a child Name is taken whole by DecodeElement, its end included.
DecodeNameUncounted(text) ==              \* mutant: DecodeElement's end is not counted
    /\ Parsing /\ depth = 1 /\ vecDepth = 0
    /\ p' = [p EXCEPT !.name = text]
    /\ depth' = depth + 1
    /\ document' = NameOf(text)
    /\ UNCHANGED <<call, reading, open, inParent, vecDepth, profiles, streams, err, nested,
                   had>>

DecodeName(text) ==
    /\ Parsing /\ depth = 1 /\ vecDepth = 0
    /\ p' = [p EXCEPT !.name = text]
    /\ document' = NameOf(text)
    /\ UNCHANGED <<call, reading, open, inParent, depth, vecDepth, profiles, streams, err,
                   nested, had>>

\* Any other element is counted, a configuration in a counter of its own.
StartInner(name) ==
    /\ Parsing /\ depth > 0 /\ vecDepth = 0 /\ Len(open) < MaxOpen
    /\ name \in {"Profiles", "Name", "VideoEncoderConfiguration", "Encoding", "other"}
    /\ ~(name = "Name" /\ depth = 1)
    /\ open' = Append(open, name)
    /\ depth' = depth + 1
    /\ vecDepth' = IF name = "VideoEncoderConfiguration" THEN 1 ELSE 0
    /\ UNCHANGED <<call, reading, inParent, p, profiles, streams, err, document, nested, had>>

\* The profile is complete at its end; one without a token is left out.
Complete == profiles' = IF p.token # Blank THEN Append(profiles, p) ELSE profiles

EndInner ==
    /\ Parsing /\ depth > 0 /\ vecDepth = 0
    /\ open' = Front(open)
    /\ depth' = depth - 1
    /\ IF depth = 1
       THEN Complete /\ p' = NoProfile
       ELSE UNCHANGED <<profiles, p>>
    /\ UNCHANGED <<call, reading, inParent, vecDepth, streams, err, document, nested, had>>

\* Inside a configuration any element Encoding is taken whole.
DecodeEncoding(text) ==
    /\ Parsing /\ vecDepth > 0
    /\ p' = [p EXCEPT !.encoding = text]
    /\ document' = EncodingOf(text)
    /\ UNCHANGED <<call, reading, open, inParent, depth, vecDepth, profiles, streams, err,
                   nested, had>>

StartInVec(name) ==
    /\ Parsing /\ vecDepth > 0 /\ Len(open) < MaxOpen
    /\ name \in {"Profiles", "Name", "VideoEncoderConfiguration", "other"}
    /\ open' = Append(open, name)
    /\ vecDepth' = vecDepth + 1
    /\ UNCHANGED <<call, reading, inParent, depth, p, profiles, streams, err, document,
                   nested, had>>

\* The end of the configuration also takes back what its start added to depth.
EndInVec ==
    /\ Parsing /\ vecDepth > 0
    /\ open' = Front(open)
    /\ vecDepth' = vecDepth - 1
    /\ depth' = IF vecDepth = 1 THEN depth - 1 ELSE depth
    /\ UNCHANGED <<call, reading, inParent, p, profiles, streams, err, document, nested, had>>

\* The document ends, or breaks off: every loop is left, and a profile that was begun
\* is taken for complete.
EndDocument ==
    /\ Parsing
    /\ DecoderReset
    /\ UNCHANGED <<document, streams, had>>
    /\ LET all == IF depth > 0 /\ p.token # Blank THEN Append(profiles, p) ELSE profiles
       IN  Proceed(all)

-----------------------------------------------------------------------------

UriNext ==
    \/ SoapCall \/ SoapCallFails
    \/ \E name \in Elements : SearchStart(name) \/ StartInner(name) \/ StartInVec(name)
    \/ \E text \in Texts : SearchFinds(text) \/ DecodeName(text) \/ DecodeEncoding(text)
    \/ SearchEnd \/ SearchFails
    \/ \E token \in Token \cup {Blank} : StartProfile(token)
    \/ StartOutside \/ EndOutside \/ EndInner \/ EndInVec \/ EndDocument

-----------------------------------------------------------------------------
(* Properties. *)

\* The counters and the flag say where the decoder is: how deep inside a profile,
\* whether inside a configuration of it.  However elements nest, the search takes text
\* only inside an element of the parent's name; and it takes it wherever that is,
\* unless a parent has been inside another.
CountersInStep ==
    /\ Parsing => (depth > 0 <=> InProfile)
    /\ depth > 0 =>
         \E k \in 1..Len(open) :
             /\ ProfileAt(k)
             /\ Len(open) = k + depth - 1 + (IF vecDepth > 0 THEN vecDepth - 1 ELSE 0)
             /\ vecDepth > 0 <=>
                   \E j \in k..Len(open) : open[j] = "VideoEncoderConfiguration"
    /\ Searching => /\ inParent => Contains(open, "Parent")
                    /\ Contains(open, "Parent") => inParent \/ nested

WithToken == Kept(document, {q \in Profile : q.token # Blank})
Begun == IF depth > 0 /\ p.token # Blank THEN <<p>> ELSE <<>>

\* Counting in place of following the path loses nothing: what parseProfiles has read
\* at any moment are the document's profiles that have a token, each with its own name
\* and not that of an element inside it, and with its own encoding.
ReadsByPath ==
    /\ CountersInStep
    /\ call = "profiles" => profiles \o Begun = WithToken

\* What Probe takes an answer to be: an error comes without streams, and streams without
\* an error.  Every profile of the document was asked for, and the streams are those of
\* the profiles whose URI was had, all of them and in their order: one whose URI cannot
\* be had changes nothing for the others.
Answers ==
    call = "answered" =>
        /\ err = (streams = <<>>)
        /\ DOMAIN had = DOMAIN WithToken
        /\ \E at \in [DOMAIN streams -> DOMAIN had] :
             /\ \A i \in DOMAIN at : /\ streams[i] = WithToken[at[i]]
                                     /\ i > 1 => at[i - 1] < at[i]
             /\ Range(at) = {j \in DOMAIN had : had[j]}

=============================================================================
