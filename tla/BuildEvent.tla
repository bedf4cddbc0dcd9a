----------------------------- MODULE BuildEvent -----------------------------
(***************************************************************************)
(* buildEvent of internal/waf: the loop over the rules a transaction       *)
(* matched, and the event it makes of them.  One step is one turn of the   *)
(* loop.  DataPlane says when buildEvent is called and where the event     *)
(* goes; here is what the event says.                                      *)
(***************************************************************************)
EXTENDS Integers, Sequences

CONSTANTS
    Ids,          \* rule ids; 0 is a rule without one
    Severities,   \* Severity() of rules: negative for none, 0 the most severe
    Messages,     \* expanded messages of rules
    ScoreOf,      \* the number a message reports as its total score, else 0
    NoMessage,    \* the empty string
    MaxMatches,   \* bound on the rules a transaction matches
    None          \* nil

unset == 99

ASSUME RuleAssumption ==
    /\ Ids \subseteq Nat
    /\ Severities \subseteq {s \in Int : s < unset}
    /\ NoMessage \in Messages
    /\ ScoreOf \in [Messages -> Nat]
    /\ MaxMatches \in Nat
    /\ None \notin Nat

MatchedRule == [id : Ids, sev : Severities, msg : Messages]

\* The fields of an event that buildEvent computes.
Event == [blocked : BOOLEAN, ruleID : Nat, message : Messages,
          severity : {s \in Int : 0 <= s /\ s < unset}, score : Nat, matched : Seq(Ids)]

ASSUME EventAssumption == None \notin Event

VARIABLES
    rules,               \* tx.MatchedRules()
    blocked,             \* whether Middleware turned the request away
    interruption,        \* the rule of tx.Interruption(), or None
    i,                   \* the next rule of the loop, or 0 when it is over
    matched, bestSev, bestMsg, bestID, anomaly,
    event                \* what buildEvent returned

input == <<rules, blocked, interruption>>
best == <<bestSev, bestMsg, bestID>>
vars == <<input, i, matched, best, anomaly, event>>

TypeOK ==
    /\ rules \in Seq(MatchedRule)
    /\ blocked \in BOOLEAN
    /\ interruption \in Ids \cup {None}
    /\ i \in 0..Len(rules) + 1
    /\ matched \in Seq(Ids)
    /\ bestSev \in {s \in Int : 0 <= s /\ s <= unset}
    /\ bestMsg \in Messages
    /\ bestID \in Nat
    /\ anomaly \in Nat
    /\ event \in Event \cup {None}

\* A request is turned away only by an interruption; the phases after that leave
\* one without turning anybody away.
Init ==
    /\ rules \in UNION {[1..n -> MatchedRule] : n \in 0..MaxMatches}
    /\ blocked \in BOOLEAN
    /\ interruption \in Ids \cup {None}
    /\ blocked => interruption # None
    /\ i = 1
    /\ matched = <<>> /\ anomaly = 0 /\ event = None
    /\ bestSev = unset /\ bestMsg = NoMessage /\ bestID = 0

-----------------------------------------------------------------------------
\* Mutant: the most severe severity is taken for none.
DetectionButEmergency(r) == r.sev > 0

\* Infrastructure and control rules carry no severity.
Detection(r) == r.sev >= 0

\* Mutant: every message with a score replaces the one before.
LastScore(r) == IF ScoreOf[r.msg] # 0 THEN ScoreOf[r.msg] ELSE anomaly

Score(r) == IF anomaly = 0 THEN ScoreOf[r.msg] ELSE anomaly

\* Mutant: of two rules of one severity the later is taken.
NotLessSevere(r) == r.sev <= bestSev

MoreSevere(r) == r.sev < bestSev

\* One turn of the loop; a rule that is no detection is left after its score.
Scan ==
    LET r == rules[i] IN
    /\ i \in 1..Len(rules)
    /\ i' = i + 1
    /\ anomaly' = Score(r)
    /\ matched' = IF Detection(r) /\ r.id # 0 THEN Append(matched, r.id) ELSE matched
    /\ IF Detection(r) /\ MoreSevere(r)
       THEN bestSev' = r.sev /\ bestMsg' = r.msg /\ bestID' = r.id
       ELSE UNCHANGED best
    /\ UNCHANGED <<input, event>>

\* Mutant: the marker for no severity gets into the event.
SeverityUnchecked == bestSev

Severity == IF bestSev # unset THEN bestSev ELSE 0

RuleID == IF bestID = 0 /\ interruption # None THEN interruption ELSE bestID

Finish ==
    /\ i = Len(rules) + 1
    /\ i' = 0
    /\ event' = IF ~blocked /\ matched = <<>> THEN None
                ELSE [blocked |-> blocked, ruleID |-> RuleID, message |-> bestMsg,
                      severity |-> Severity, score |-> anomaly, matched |-> matched]
    /\ UNCHANGED <<input, matched, best, anomaly>>

Next == Scan \/ Finish

Spec == Init /\ [][Next]_vars

-----------------------------------------------------------------------------
Returned == i = 0

\* The turns of the loop that met a detection, and those that met a score.
Detections == {j \in DOMAIN rules : rules[j].sev >= 0}
Scores == {j \in DOMAIN rules : ScoreOf[rules[j].msg] # 0}

(***************************************************************************)
(* There is an event exactly for a request that was turned away or that a  *)
(* detection rule with an id matched, whatever infrastructure rules        *)
(* matched around it, and the event lists just those ids (buildEvent, its  *)
(* early return).                                                          *)
(***************************************************************************)
EventWhenRelevant ==
    LET named == {rules[j].id : j \in Detections} \ {0} IN
    Returned =>
        /\ event # None <=> blocked \/ named # {}
        /\ event # None => {event.matched[k] : k \in DOMAIN event.matched} = named

(***************************************************************************)
(* Severity and message of an event are both those of one rule, the first  *)
(* of the most severe detections.  Without a detection there is no message *)
(* and the severity reads 0, and the rule is the one that interrupted the  *)
(* transaction (the loop of buildEvent and its fallback).                  *)
(***************************************************************************)
TopRuleReported ==
    Returned /\ event # None =>
        \/ \E j \in Detections :
              /\ \A k \in Detections : rules[j].sev <= rules[k].sev
              /\ \A k \in Detections : k < j => rules[j].sev < rules[k].sev
              /\ event.severity = rules[j].sev /\ event.message = rules[j].msg
        \/ /\ Detections = {}
           /\ event.severity = 0 /\ event.message = NoMessage
           /\ event.ruleID = interruption

(***************************************************************************)
(* What the comment of Event.RuleID says: the event of a request that was  *)
(* turned away names the rule that caused the interruption, one of those   *)
(* that matched.  (buildEvent names the most severe detection.)            *)
(***************************************************************************)
InterrupterReported ==
    Returned /\ event # None /\ event.blocked
        /\ (\E j \in DOMAIN rules : rules[j].id = interruption)
        => event.ruleID = interruption

(***************************************************************************)
(* The anomaly score is the first total a message reports, also when the   *)
(* rule that reports it is no detection (anomalyScoreRE); it is 0 only if  *)
(* no message reports one.                                                 *)
(***************************************************************************)
ScoreReported ==
    Returned /\ event # None =>
        \/ \E j \in Scores : /\ \A k \in Scores : j <= k
                             /\ event.score = ScoreOf[rules[j].msg]
        \/ Scores = {} /\ event.score = 0
=============================================================================
