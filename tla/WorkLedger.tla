------------------------------ MODULE WorkLedger ------------------------------
(***************************************************************************)
(* What a consumer that counts the entries of a log promises: it goes      *)
(* through the log in order, counts each entry under its key once or not   *)
(* at all, and never comes back to one.  It does not promise to count.     *)
(***************************************************************************)
EXTENDS Integers, Sequences

CONSTANTS
    NULL,         \* the key of an entry that falls under no counter
    SeedCounts    \* counters at the start

VARIABLES
    log,      \* the keys of the entries, oldest first
    front,    \* entries dealt with
    counts    \* key -> entries counted, on the keys that have a counter

ledgerVars == <<log, front, counts>>

Tally(k) == IF k \in DOMAIN counts THEN counts[k] ELSE 0
Set(k, n) == [j \in DOMAIN counts \cup {k} |-> IF j = k THEN n ELSE counts[j]]

Init == log = <<>> /\ front = 0 /\ counts = SeedCounts

Arrive ==
    /\ \E k \in {log'[i] : i \in DOMAIN log'} : log' = Append(log, k)
    /\ UNCHANGED <<front, counts>>

Count ==
    LET k == log[front + 1]
    IN  /\ front < Len(log)
        /\ k # NULL
        /\ counts' = Set(k, Tally(k) + 1)
        /\ front' = front + 1
        /\ UNCHANGED log

\* Entries that are not counted: not meant to be, failed, or lost.
Pass ==
    /\ front' \in (front + 1)..Len(log)
    /\ UNCHANGED <<log, counts>>

\* A counter may appear before anything falls under it.
Open ==
    /\ \E k \in DOMAIN counts' \ DOMAIN counts : counts' = Set(k, 0)
    /\ UNCHANGED <<log, front>>

Next == Arrive \/ Count \/ Pass \/ Open

Spec == Init /\ [][Next]_ledgerVars

===============================================================================
