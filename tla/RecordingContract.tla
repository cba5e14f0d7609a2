--------------------------- MODULE RecordingContract ---------------------------
(***************************************************************************)
(* What a reader of a recording directory may rely on: committed rows only *)
(* grow, and only while the recorder lives; a manifest appears after it    *)
(* has gone, and describes the committed rows as they then are, until it   *)
(* is withdrawn.  Parquet files, locks, failures and crashes do not show.  *)
(***************************************************************************)
EXTENDS Naturals

CONSTANTS Hidden    \* nothing is published

VARIABLES
    kept,     \* the commits so far
    live,     \* the recorder may still commit
    shown     \* what manifest.json and the files it names hold, or Hidden

vars == <<kept, live, shown>>

Verdicts == {"complete", "partial", "failed"}

Init == kept = 0 /\ live = TRUE /\ shown = Hidden

Commit == live /\ shown = Hidden /\ kept' = kept + 1 /\ live' \in BOOLEAN /\ UNCHANGED shown

Stop == live /\ live' = FALSE /\ UNCHANGED <<kept, shown>>

Publish ==
    /\ ~live /\ shown = Hidden
    /\ \E v \in Verdicts : shown' = [rows |-> kept, verdict |-> v]
    /\ UNCHANGED <<kept, live>>

Withdraw == ~live /\ shown' = Hidden /\ UNCHANGED <<kept, live>>

Next == Commit \/ Stop \/ Publish \/ Withdraw

Spec == Init /\ [][Next]_vars
=============================================================================
