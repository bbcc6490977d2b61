--------------------------- MODULE MinorForwarding ---------------------------
(***************************************************************************)
(* What a minor collection promises about the headers of the young        *)
(* objects, whoever writes them: each header is written once during the   *)
(* collection, with a copy in the young or old generation or with the     *)
(* promotion-failure marker; a failure, once recorded, stays recorded;    *)
(* and collect() either returns FALSE with no failure marker left in any  *)
(* header, or returns TRUE with every header back to unforwarded.         *)
(* ParallelMinor implements this specification (see RefinesForwarding).   *)
(***************************************************************************)
CONSTANT Young

VARIABLES
    hdr,      \* header of each young original: "none", "young", "old", "failed"
    failed,   \* the collection has recorded a promotion failure
    done,     \* collect() has returned
    res       \* the value it returned

avars == <<hdr, failed, done, res>>

AInit ==
    /\ hdr = [o \in Young |-> "none"]
    /\ failed = FALSE
    /\ done = FALSE
    /\ res = FALSE

\* One header is forwarded, or marked as failed to promote.
Forward(o) ==
    /\ ~done
    /\ hdr[o] = "none"
    /\ \E k \in {"young", "old", "failed"} : hdr' = [hdr EXCEPT ![o] = k]
    /\ UNCHANGED <<failed, done, res>>

\* A promotion failure is recorded.
RecordFailure ==
    /\ ~done
    /\ ~failed
    /\ failed' = TRUE
    /\ UNCHANGED <<hdr, done, res>>

\* collect() returns: after a failure every header is repaired and TRUE
\* returned; otherwise no header holds the failure marker.
Return ==
    /\ ~done
    /\ done' = TRUE
    /\ IF failed
       THEN /\ hdr' = [o \in Young |-> "none"]
            /\ res' = TRUE
       ELSE /\ \A o \in Young : hdr[o] # "failed"
            /\ res' = FALSE
            /\ UNCHANGED hdr
    /\ UNCHANGED failed

ANext == (\E o \in Young : Forward(o)) \/ RecordFailure \/ Return

ASpec == AInit /\ [][ANext]_avars
=============================================================================
