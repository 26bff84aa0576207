----------------------------- MODULE CommitLog -----------------------------
(***************************************************************************)
(* What a partition log promises: records at offsets below hi, each with a *)
(* value that never changes.  An append that returns adds its records at   *)
(* hi, hi + 1 and so on.  One that does not return may still leave some of *)
(* its records at or above hi (the process died before or while they were  *)
(* undone).  Retention removes records, never the newest one.              *)
(***************************************************************************)
EXTENDS Integers

CONSTANTS Value, MaxOffset, MaxBatch

VARIABLES
    log,    \* the records, as <<offset, value>> pairs
    hi,     \* next_offset
    acked   \* the records of the appends that returned

vars == <<log, hi, acked>>

Init == log = {} /\ hi = 0 /\ acked = {}

\* The records a step adds: at most MaxBatch, at new offsets, below the new hi.
Added == log' \ log

Grows ==
    /\ log \subseteq log'
    /\ Added \subseteq (hi .. hi' - 1) \X Value
    /\ \A a, b \in Added : a[1] = b[1] => a = b
    /\ hi < hi' /\ hi' <= hi + MaxBatch /\ hi' <= MaxOffset

\* The append returns: it has filled every offset up to the new hi.
Acknowledge ==
    /\ Grows
    /\ \A o \in hi .. hi' - 1 : \E a \in Added : a[1] = o
    /\ acked' = acked \cup Added

\* The append never returns: hi follows the last record it left.
Leave ==
    /\ Grows
    /\ \E a \in Added : a[1] = hi' - 1
    /\ UNCHANGED acked

Trim ==
    /\ log' \subseteq log /\ log' # log
    /\ \E a \in log' : a[1] = hi - 1
    /\ UNCHANGED <<hi, acked>>

Next == Acknowledge \/ Leave \/ Trim

Spec == Init /\ [][Next]_vars

=============================================================================
