------------------------------- MODULE Onvif -------------------------------
(***************************************************************************)
(* One call into the package onvif, as the wizard's commands make them:    *)
(* Discover, ProbeAddress (both in Scan) or GetStreamURIs (StreamURIs).    *)
(* Nothing is kept from one call to the next.                              *)
(***************************************************************************)
EXTENDS Scan, StreamURIs

TypeOK == ScanTypeOK /\ UriTypeOK

Init ==
    \/ ScanInit /\ UriOff
    \/ UriInit /\ ScanOff

Scanning == ScanNext /\ UNCHANGED uriVars
Streaming == UriNext /\ UNCHANGED scanVars

Next == Scanning \/ Streaming

Spec == Init /\ [][Next]_<<scanVars, uriVars>>

=============================================================================
