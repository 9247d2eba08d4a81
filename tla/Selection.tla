----------------------------- MODULE Selection -----------------------------
(***************************************************************************)
(* The selection step of the setup wizard (tui/steps/selection.go): a      *)
(* list of cameras with check marks.  Positions are 1-based.               *)
(***************************************************************************)
EXTENDS Integers, Sequences, Sublists

VARIABLES
    cameras,   \* the list shown
    selected,  \* the positions checked
    cursor,
    done

vars == <<cameras, selected, cursor, done>>

\* Only cameras of the list are checked, and the cursor stays on it.
TypeOK ==
    /\ selected \subseteq DOMAIN cameras
    /\ cursor \in 1..(IF cameras = <<>> THEN 1 ELSE Len(cameras))
    /\ done \in BOOLEAN

\* SetCameras: a camera is checked if its address is among the configured ones.
Preselected(cams, ipOf, ips) == {i \in DOMAIN cams : ipOf[cams[i]] \in ips}

KeyUp ==
    /\ cursor > 1
    /\ cursor' = cursor - 1
    /\ UNCHANGED <<cameras, selected, done>>

KeyDownOffByOne ==                        \* mutant: one past the last camera
    /\ cursor <= Len(cameras)
    /\ cursor' = cursor + 1
    /\ UNCHANGED <<cameras, selected, done>>

KeyDown ==
    /\ cursor < Len(cameras)
    /\ cursor' = cursor + 1
    /\ UNCHANGED <<cameras, selected, done>>

KeySpace ==
    /\ selected' = IF cursor \in selected THEN selected \ {cursor}
                                          ELSE selected \cup {cursor}
    /\ UNCHANGED <<cameras, cursor, done>>

KeyEnter ==
    /\ selected # {}
    /\ done' = TRUE
    /\ UNCHANGED <<cameras, selected, cursor>>

Step == KeyUp \/ KeyDown \/ KeySpace \/ KeyEnter

\* The cameras checked, in the order of the list.
Selected(cams, sel) ==
    LET kept == Kept([i \in DOMAIN cams |-> i], sel)
    IN  [k \in DOMAIN kept |-> cams[kept[k]]]

=============================================================================
