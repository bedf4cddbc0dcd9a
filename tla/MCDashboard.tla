---------------------------- MODULE MCDashboard ----------------------------
(***************************************************************************)
(* An instance of Dashboard for TLC: an event that names a rule, and one   *)
(* of another client that names none.                                      *)
(***************************************************************************)
EXTENDS Dashboard

MCFeed == <<[rule |-> 942100, client |-> "a"],
            [rule |-> 0, client |-> "b"]>>
=============================================================================
