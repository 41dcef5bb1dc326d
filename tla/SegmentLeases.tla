---------------------------- MODULE SegmentLeases ----------------------------
(***************************************************************************)
(* What the queue promises about one file, without threads, locks or        *)
(* Downloads: connections hold leases on segments that do not overlap;      *)
(* units of the file are gained only under a lease, from its start on; a    *)
(* lease is given back, or all of them are called off once the file is      *)
(* complete, which it is only when every unit has been gained.              *)
(* QueueDownload implements this, see QueueDownload!Leases.                 *)
(***************************************************************************)
EXTENDS Segments

VARIABLES
    have,      \* units that have been gained
    leases,    \* the segments that are leased
    complete   \* the file has been announced as complete

vars == <<have, leases, complete>>

Init == have = {} /\ leases = {} /\ complete = FALSE

\* "Next segment that is not done and not being downloaded" (QueueItem.h).
Acquire(s) ==
    /\ ~(Units(s) \subseteq have)
    /\ Unclaimed(s, leases)
    /\ leases' = leases \cup {s}
    /\ UNCHANGED <<have, complete>>

\* The first n units of a leased segment have arrived.
Commit(s, n) ==
    /\ s \in leases
    /\ have' = have \cup Units(<<s[1], s[1] + n>>)
    /\ UNCHANGED <<leases, complete>>

Return(s) ==
    /\ s \in leases
    /\ leases' = leases \ {s}
    /\ UNCHANGED <<have, complete>>

Finish ==
    /\ have = AllUnits
    /\ complete' = TRUE
    /\ UNCHANGED <<have, leases>>

CallOff ==
    /\ complete
    /\ leases' \subseteq leases
    /\ UNCHANGED <<have, complete>>

Next ==
    \/ \E s \in Segment : \/ Acquire(s) \/ Return(s)
                          \/ \E n \in 1 .. (s[2] - s[1]) : Commit(s, n)
    \/ Finish \/ CallOff

Spec == Init /\ [][Next]_vars
=============================================================================
