------------------------------ MODULE EventLog ------------------------------
(***************************************************************************)
(* What the event log of wafportal promises about the events the request   *)
(* path reports: at most one row per event, rows in the order the events   *)
(* were taken, and at most Capacity events taken and not yet written.  An  *)
(* event that was taken may still be lost: its insert fails, or the        *)
(* process ends first.                                                     *)
(***************************************************************************)
EXTENDS Naturals, Sequences

CONSTANTS Events,     \* the events the request path may report
          Capacity    \* events the log may hold and not have written yet

VARIABLES pending,    \* events taken, in order, and not yet written
          log         \* the rows of "events", in insertion order

logVars == <<pending, log>>

Known(e) == \E i \in DOMAIN pending : pending[i] = e
Written(e) == \E i \in DOMAIN log : log[i] = e

LogInit == pending = <<>> /\ log = <<>>

Report(e) ==
    /\ ~Known(e) /\ ~Written(e)
    /\ Len(pending) < Capacity
    /\ pending' = Append(pending, e)
    /\ UNCHANGED log

Write ==
    /\ pending # <<>>
    /\ log' = Append(log, Head(pending))
    /\ pending' = Tail(pending)

Fail ==
    /\ pending # <<>>
    /\ pending' = Tail(pending)
    /\ UNCHANGED log

Lose ==
    /\ pending' = <<>>
    /\ UNCHANGED log

LogNext == (\E e \in Events : Report(e)) \/ Write \/ Fail \/ Lose

LogSpec == LogInit /\ [][LogNext]_logVars
=============================================================================
