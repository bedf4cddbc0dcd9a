---------------------------- MODULE MCDataPlane ----------------------------
(***************************************************************************)
(* An instance of DataPlane for TLC: one domain, asked for with a Host     *)
(* header in another spelling and with a port, and every kind of table a   *)
(* reload can install for it.                                              *)
(*                                                                         *)
(* All requests from their arrival on would be too many states, so that    *)
(* behaviours begin in one of two kinds of reachable states: one request   *)
(* is still to come and the others are over, or all of them have got as    *)
(* far as their events, which is where requests meet.                      *)
(***************************************************************************)
EXTENDS DataPlane

MCHosts == {"Shop:8080"}
MCDomains == {"shop"}
MCDomainOf == [h \in MCHosts |-> "shop"]

\* The table with the one site in the given modes; its certificate, where it has
\* one, loads or does not.
Tbl(w, t, loads) ==
    [handlers |-> [d \in MCDomains |-> [waf |-> w, tls |-> t]],
     autoDomains |-> IF t = "auto" THEN MCDomains ELSE {},
     manualDomains |-> IF t = "manual" /\ loads THEN MCDomains ELSE {}]

NoSite == [handlers |-> [d \in MCDomains |-> None], autoDomains |-> {}, manualDomains |-> {}]

MCTables == {NoSite, Tbl("detection", "auto", TRUE), Tbl("off", "manual", TRUE),
             Tbl("on", "manual", FALSE)}

first == CHOOSE r \in Requests : TRUE

\* Nothing has been reported yet.
Serving ==
    /\ stage = "serving" /\ expired = FALSE /\ table \in Tables /\ cached = {}
    /\ detected = [r \in Requests |-> FALSE]
    /\ recorded = [r \in Requests |-> "ok"]
    /\ aborted = {}
    /\ event = [r \in Requests |-> None]
    /\ queue = <<>> /\ hand = None /\ stored = <<>>
    /\ dropped = {} /\ failed = {} /\ lost = {}

\* Every request but one came before and was limited.
OneToCome ==
    LET Past(was) == [r \in Requests |-> IF r = first THEN None ELSE was]
    IN /\ Serving
       /\ pc = [r \in Requests |-> IF r = first THEN "new" ELSE "done"]
       /\ listener = Past("http")
       /\ host = Past("Shop:8080")
       /\ answer = Past("limited")
       /\ route = [r \in Requests |-> None]
       /\ blocked = [r \in Requests |-> FALSE]
       /\ status = [r \in Requests |-> "ok"]
       /\ wrote = [r \in Requests |-> FALSE]

\* One response is being copied, and the other requests were just turned away.
AllUnderWay ==
    LET Each(a, b) == [r \in Requests |-> IF r = first THEN a ELSE b]
    IN /\ Serving
       /\ pc = Each("copy", "log")
       /\ listener = Each("https", "http")
       /\ host = [r \in Requests |-> "Shop:8080"]
       /\ answer = Each("ok", "deny")
       /\ route = [r \in Requests |-> [waf |-> "on", tls |-> "manual"]]
       /\ blocked = Each(FALSE, TRUE)
       /\ status = Each("ok", "deny")
       /\ wrote = Each(TRUE, FALSE)

MCSpec == (OneToCome \/ AllUnderWay) /\ [][Next]_vars /\ ServeFairness
=============================================================================
