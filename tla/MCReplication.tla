--------------------------- MODULE MCReplication ---------------------------
EXTENDS Replication

CONSTANTS a, b

Single(v) == [value |-> v, record_index |-> 0, record_count |-> 0]
Batched(v, k, n) == [value |-> v, record_index |-> k, record_count |-> n]

\* A new directory, a record on its own, a batch of two, and a log whose
\* retention has deleted its first record.
MCInitialLogs ==
    { [lo |-> 0, hi |-> 0, index |-> <<>>],
      [lo |-> 0, hi |-> 1, index |-> [o \in {0} |-> Single(a)]],
      [lo |-> 0, hi |-> 2, index |-> [o \in 0 .. 1 |-> Batched(a, o, 2)]],
      [lo |-> 1, hi |-> 2, index |-> [o \in {1} |-> Single(a)]] }

=============================================================================
