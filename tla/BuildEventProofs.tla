-------------------------- MODULE BuildEventProofs --------------------------
(***************************************************************************)
(* Proofs about BuildEvent, for every sequence of matched rules.           *)
(***************************************************************************)
EXTENDS BuildEvent, SequenceTheorems, TLAPS

\* The turns of the loop that are over.
Past == {j \in DOMAIN rules : i = 0 \/ j < i}

\* The list of ids has those of the detections so far that have one.
MatchedInv ==
    /\ \A k \in DOMAIN matched :
          /\ matched[k] # 0
          /\ \E j \in Past \cap Detections : rules[j].id = matched[k]
    /\ \A j \in Past \cap Detections :
          rules[j].id # 0 => \E k \in DOMAIN matched : matched[k] = rules[j].id

\* Turn j met the first of the most severe detections so far.
Tops(j) ==
    /\ j \in Past \cap Detections
    /\ \A k \in Past \cap Detections : /\ rules[j].sev <= rules[k].sev
                                       /\ k < j => rules[j].sev < rules[k].sev

BestInv ==
    \/ /\ Past \cap Detections = {}
       /\ bestSev = unset /\ bestMsg = NoMessage /\ bestID = 0
    \/ \E j \in DOMAIN rules :
          /\ Tops(j)
          /\ bestSev = rules[j].sev /\ bestMsg = rules[j].msg /\ bestID = rules[j].id

ScoreInv ==
    \/ Past \cap Scores = {} /\ anomaly = 0
    \/ \E j \in Past \cap Scores :
          /\ \A k \in Past \cap Scores : j <= k
          /\ anomaly = ScoreOf[rules[j].msg]

\* What the loop leaves is what the event is made of.
EventInv ==
    /\ blocked => interruption # None
    /\ i # 0 => event = None
    /\ i = 0 => event = IF ~blocked /\ matched = <<>> THEN None
                        ELSE [blocked |-> blocked, ruleID |-> RuleID, message |-> bestMsg,
                              severity |-> Severity, score |-> anomaly, matched |-> matched]

LoopInv == TypeOK /\ MatchedInv /\ BestInv /\ ScoreInv /\ EventInv

-----------------------------------------------------------------------------
\* The rule of a turn.
LEMMA RuleTypes ==
    ASSUME rules \in Seq(MatchedRule), NEW j \in DOMAIN rules
    PROVE  /\ rules[j] \in MatchedRule
           /\ rules[j].id \in Nat /\ rules[j].id \in Ids
           /\ rules[j].sev \in Int /\ rules[j].sev < unset
           /\ rules[j].msg \in Messages /\ ScoreOf[rules[j].msg] \in Nat
           /\ j \in Int /\ 1 <= j /\ j <= Len(rules)
<1>1. DOMAIN rules = 1..Len(rules) /\ Len(rules) \in Nat
  OBVIOUS
<1>2. rules[j] \in MatchedRule
  BY <1>1
<1>3. rules[j].id \in Ids /\ rules[j].sev \in Severities /\ rules[j].msg \in Messages
  BY <1>2 DEF MatchedRule
<1>4. rules[j].id \in Nat /\ ScoreOf[rules[j].msg] \in Nat
  BY <1>3, RuleAssumption
<1>5. rules[j].sev \in Int /\ rules[j].sev < unset
  BY <1>3, RuleAssumption
<1>6. QED BY <1>1, <1>2, <1>3, <1>4, <1>5

LEMMA LoopInit == ASSUME Init PROVE LoopInv
<1> USE RuleAssumption
<1>1. rules \in Seq(MatchedRule)
  <2>1. PICK n \in 0..MaxMatches : rules \in [1..n -> MatchedRule]
    BY DEF Init
  <2>2. QED BY <2>1, SeqDef
<1>2. Len(rules) \in Nat /\ DOMAIN rules = 1..Len(rules)
  BY <1>1
<1>3. i = 1
  BY DEF Init
<1>4. matched = <<>> /\ matched \in Seq(Ids) /\ DOMAIN matched = {}
  <2>1. matched = <<>>
    BY DEF Init
  <2>2. matched \in Seq(Ids)
    BY <2>1
  <2>3. Len(matched) = 0
    BY <2>1
  <2>4. QED BY <2>1, <2>2, <2>3
<1>5. TypeOK
  <2>1. i \in 0..Len(rules) + 1
    BY <1>2, <1>3
  <2>2. bestSev \in {s \in Int : 0 <= s /\ s <= unset}
    BY DEF Init, unset
  <2>3. QED BY <1>1, <1>4, <2>1, <2>2 DEF Init, TypeOK
<1>6. Past = {}
  BY <1>2, <1>3 DEF Past
<1>7. MatchedInv
  BY <1>4, <1>6 DEF MatchedInv
<1>8. BestInv /\ ScoreInv /\ EventInv
  BY <1>6 DEF Init, BestInv, ScoreInv, EventInv
<1>9. QED BY <1>5, <1>7, <1>8 DEF LoopInv

\* A turn of the loop adds one rule to those that are over.
LEMMA ScanPast ==
    ASSUME TypeOK, Scan
    PROVE  /\ i \in DOMAIN rules /\ i \in 1..Len(rules) /\ i' = i + 1
           /\ rules' = rules /\ Detections' = Detections /\ Scores' = Scores
           /\ Past' = Past \cup {i} /\ i \notin Past /\ \A j \in Past : j < i
<1>1. rules' = rules /\ i' = i + 1 /\ i \in 1..Len(rules) /\ rules \in Seq(MatchedRule)
  BY DEF Scan, input, TypeOK
<1>2. DOMAIN rules = 1..Len(rules) /\ Len(rules) \in Nat /\ i \in Int
  BY <1>1
<1>3. Detections' = Detections /\ Scores' = Scores
  BY <1>1 DEF Detections, Scores
<1>4. Past' = {j \in 1..Len(rules) : j < i + 1} /\ Past = {j \in 1..Len(rules) : j < i}
  BY <1>1, <1>2 DEF Past
<1>5. QED BY <1>1, <1>2, <1>3, <1>4

LEMMA ScanType == ASSUME TypeOK, Scan PROVE TypeOK'
<1>1. /\ i \in DOMAIN rules /\ i \in 1..Len(rules) /\ i' = i + 1 /\ rules' = rules
      /\ rules \in Seq(MatchedRule) /\ Len(rules) \in Nat
  BY ScanPast DEF TypeOK
<1>2. /\ rules[i].id \in Nat /\ rules[i].id \in Ids /\ rules[i].sev \in Int
      /\ rules[i].sev < unset /\ rules[i].msg \in Messages /\ ScoreOf[rules[i].msg] \in Nat
  BY <1>1, RuleTypes
<1>3. i' \in 0..Len(rules') + 1
  BY <1>1
<1>4. matched' \in Seq(Ids)
  BY <1>2 DEF Scan, TypeOK
<1>5. anomaly' \in Nat
  BY <1>2 DEF Scan, Score, TypeOK
<1>6. /\ bestSev' \in {s \in Int : 0 <= s /\ s <= unset}
      /\ bestMsg' \in Messages /\ bestID' \in Nat
  <2>1. CASE Detection(rules[i]) /\ MoreSevere(rules[i])
    BY <1>2, <2>1 DEF Scan, Detection, unset
  <2>2. CASE ~(Detection(rules[i]) /\ MoreSevere(rules[i]))
    BY <2>2 DEF Scan, best, TypeOK
  <2>3. QED BY <2>1, <2>2
<1>7. blocked' = blocked /\ interruption' = interruption /\ event' = event
  BY DEF Scan, input
<1>8. QED BY <1>1, <1>3, <1>4, <1>5, <1>6, <1>7 DEF TypeOK

LEMMA ScanInv == ASSUME LoopInv, Scan PROVE LoopInv'
<1> USE DEF LoopInv
<1>1. /\ i \in DOMAIN rules /\ i \in 1..Len(rules) /\ i' = i + 1
      /\ rules' = rules /\ Detections' = Detections /\ Scores' = Scores
      /\ Past' = Past \cup {i} /\ i \notin Past /\ \A j \in Past : j < i
  BY ScanPast
<1>2. \A j \in DOMAIN rules : /\ rules[j].id \in Nat /\ rules[j].sev \in Int
                              /\ rules[j].sev < unset /\ ScoreOf[rules[j].msg] \in Nat
                              /\ j \in Int
  BY RuleTypes DEF TypeOK
<1>3. Past \subseteq DOMAIN rules
  BY DEF Past
<1>4. i \in Detections <=> Detection(rules[i])
  BY <1>1 DEF Detections, Detection
<1>5. i \in Scores <=> ScoreOf[rules[i].msg] # 0
  BY <1>1 DEF Scores
<1>6. MatchedInv'
  <2>1. matched \in Seq(Ids) /\ rules[i].id \in Ids
    BY <1>1, RuleTypes DEF TypeOK
  <2>2. CASE Detection(rules[i]) /\ rules[i].id # 0
    <3>1. matched' = Append(matched, rules[i].id)
      BY <2>2 DEF Scan
    <3>2. /\ DOMAIN matched' = DOMAIN matched \cup {Len(matched) + 1}
          /\ matched'[Len(matched) + 1] = rules[i].id
          /\ \A k \in DOMAIN matched : matched'[k] = matched[k]
      BY <2>1, <3>1
    <3>3. QED BY <1>1, <1>4, <2>2, <3>2 DEF MatchedInv
  <2>3. CASE ~(Detection(rules[i]) /\ rules[i].id # 0)
    <3>1. matched' = matched
      BY <2>3 DEF Scan
    <3>2. QED BY <1>1, <1>4, <2>3, <3>1 DEF MatchedInv
  <2>4. QED BY <2>2, <2>3
<1>7. BestInv'
  <2>1. CASE Detection(rules[i]) /\ MoreSevere(rules[i])
    <3>1. /\ bestSev' = rules[i].sev /\ bestMsg' = rules[i].msg /\ bestID' = rules[i].id
          /\ rules[i].sev < bestSev
      BY <2>1 DEF Scan, MoreSevere
    <3>2. \A k \in Past \cap Detections : rules[i].sev < rules[k].sev
      BY <1>1, <1>2, <1>3, <3>1 DEF BestInv, Tops
    <3>3. PICK j \in DOMAIN rules : j = i
      BY <1>1
    <3>4. Tops(j)'
      BY <1>1, <1>2, <1>3, <1>4, <2>1, <3>2, <3>3 DEF Tops
    <3>5. QED BY <1>1, <3>1, <3>3, <3>4 DEF BestInv
  <2>2. CASE ~(Detection(rules[i]) /\ MoreSevere(rules[i]))
    <3>1. bestSev' = bestSev /\ bestMsg' = bestMsg /\ bestID' = bestID
      BY <2>2 DEF Scan, best
    <3>2. CASE ~Detection(rules[i])
      <4>1. (Past \cap Detections)' = Past \cap Detections
        BY <1>1, <1>4, <3>2
      <4>2. \A j \in DOMAIN rules : Tops(j) => Tops(j)'
        BY <1>1, <4>1 DEF Tops
      <4>3. QED BY <1>1, <3>1, <4>1, <4>2 DEF BestInv
    <3>3. CASE Detection(rules[i])
      <4>1. ~(rules[i].sev < bestSev)
        BY <2>2, <3>3 DEF MoreSevere
      <4>2. PICK j \in DOMAIN rules :
               /\ Tops(j)
               /\ bestSev = rules[j].sev /\ bestMsg = rules[j].msg /\ bestID = rules[j].id
        BY <1>1, <1>2, <4>1 DEF BestInv
      <4>3. Tops(j)'
        BY <1>1, <1>2, <1>3, <4>1, <4>2 DEF Tops
      <4>4. QED BY <1>1, <3>1, <4>2, <4>3 DEF BestInv
    <3>4. QED BY <3>2, <3>3
  <2>3. QED BY <2>1, <2>2
<1>8. ScoreInv'
  <2>1. anomaly' = IF anomaly = 0 THEN ScoreOf[rules[i].msg] ELSE anomaly
    BY DEF Scan, Score
  <2>2. CASE Past \cap Scores = {} /\ anomaly = 0
    <3>1. CASE i \in Scores
      BY <1>1, <1>2, <2>1, <2>2, <3>1 DEF ScoreInv
    <3>2. CASE i \notin Scores
      BY <1>1, <1>5, <2>1, <2>2, <3>2 DEF ScoreInv
    <3>3. QED BY <3>1, <3>2
  <2>3. CASE ~(Past \cap Scores = {} /\ anomaly = 0)
    <3>1. PICK j \in Past \cap Scores : /\ \A k \in Past \cap Scores : j <= k
                                        /\ anomaly = ScoreOf[rules[j].msg]
      BY <2>3 DEF ScoreInv
    <3>2. anomaly # 0
      BY <3>1 DEF Scores
    <3>3. QED BY <1>1, <1>2, <1>3, <2>1, <3>1, <3>2 DEF ScoreInv
  <2>4. QED BY <2>2, <2>3
<1>9. EventInv'
  BY <1>1 DEF Scan, EventInv, input
<1>10. QED BY ScanType, <1>6, <1>7, <1>8, <1>9

\* The end of the loop leaves its variables alone; all turns are over before it too.
LEMMA FinishInv == ASSUME LoopInv, Finish PROVE LoopInv'
<1> USE DEF LoopInv
<1>1. /\ i = Len(rules) + 1 /\ i' = 0 /\ i # 0
      /\ rules' = rules /\ blocked' = blocked /\ interruption' = interruption
      /\ matched' = matched /\ anomaly' = anomaly
      /\ bestSev' = bestSev /\ bestMsg' = bestMsg /\ bestID' = bestID
  BY DEF Finish, input, best, TypeOK
<1>2. rules \in Seq(MatchedRule) /\ DOMAIN rules = 1..Len(rules) /\ Len(rules) \in Nat
  BY DEF TypeOK
<1>3. Past' = Past /\ Detections' = Detections /\ Scores' = Scores
  BY <1>1, <1>2 DEF Past, Detections, Scores
<1>4. MatchedInv' /\ ScoreInv'
  BY <1>1, <1>3 DEF MatchedInv, ScoreInv
<1>5. BestInv'
  <2>1. \A j \in DOMAIN rules : Tops(j) => Tops(j)'
    BY <1>1, <1>3 DEF Tops
  <2>2. QED BY <1>1, <1>3, <2>1 DEF BestInv
<1>6. EventInv'
  BY <1>1 DEF Finish, EventInv, RuleID, Severity
<1>7. event' \in Event \cup {None}
  <2>1. RuleID \in Nat
    BY RuleAssumption DEF RuleID, TypeOK
  <2>2. Severity \in {s \in Int : 0 <= s /\ s < unset}
    BY DEF Severity, TypeOK, unset
  <2>3. QED BY <2>1, <2>2 DEF Finish, Event, TypeOK
<1>8. TypeOK'
  BY <1>1, <1>2, <1>7 DEF TypeOK
<1>9. QED BY <1>4, <1>5, <1>6, <1>8

LEMMA LoopStep == ASSUME LoopInv, [Next]_vars PROVE LoopInv'
<1>1. CASE UNCHANGED vars
  <2>1. /\ rules' = rules /\ blocked' = blocked /\ interruption' = interruption /\ i' = i
        /\ matched' = matched /\ anomaly' = anomaly /\ event' = event
        /\ bestSev' = bestSev /\ bestMsg' = bestMsg /\ bestID' = bestID
    BY <1>1 DEF vars, input, best
  <2>2. Past' = Past /\ Detections' = Detections /\ Scores' = Scores
    BY <2>1 DEF Past, Detections, Scores
  <2>3. TypeOK' /\ MatchedInv' /\ ScoreInv' /\ EventInv'
    BY <2>1, <2>2 DEF LoopInv, TypeOK, MatchedInv, ScoreInv, EventInv, RuleID, Severity
  <2>4. BestInv'
    BY <2>1, <2>2 DEF LoopInv, BestInv, Tops
  <2>5. QED BY <2>3, <2>4 DEF LoopInv
<1>2. QED BY <1>1, ScanInv, FinishInv DEF Next

\* Once buildEvent has returned, what the loop knew of the turns that were over it
\* knows of all of them.
LEMMA AllPast ==
    ASSUME Returned
    PROVE  Past \cap Detections = Detections /\ Past \cap Scores = Scores
BY DEF Returned, Past, Detections, Scores

\* The event, if there is one, has the loop's results.
LEMMA EventMade ==
    ASSUME LoopInv, Returned
    PROVE  /\ event # None <=> blocked \/ matched # <<>>
           /\ event # None =>
                 /\ event.ruleID = RuleID /\ event.message = bestMsg
                 /\ event.severity = Severity
                 /\ event.score = anomaly /\ event.matched = matched
<1>1. event \in Event \cup {None}
  BY DEF LoopInv, TypeOK
<1>2. CASE ~blocked /\ matched = <<>>
  BY <1>2 DEF LoopInv, EventInv, Returned
<1>3. CASE blocked \/ matched # <<>>
  <2>1. event = [blocked |-> blocked, ruleID |-> RuleID, message |-> bestMsg,
                 severity |-> Severity, score |-> anomaly, matched |-> matched]
    BY <1>3 DEF LoopInv, EventInv, Returned
  <2>2. event \in Event
    <3>1. RuleID \in Nat
      BY RuleAssumption DEF LoopInv, RuleID, TypeOK
    <3>2. Severity \in {s \in Int : 0 <= s /\ s < unset}
      BY DEF LoopInv, Severity, TypeOK, unset
    <3>3. QED BY <2>1, <3>1, <3>2 DEF LoopInv, Event, TypeOK
  <2>3. QED BY <1>3, <2>1, <2>2, EventAssumption
<1>4. QED BY <1>2, <1>3

-----------------------------------------------------------------------------
(***************************************************************************)
(* The loop's variables and the event have their types: in particular the  *)
(* marker for no severity never gets into an event (buildEvent).           *)
(***************************************************************************)
THEOREM EventTypeCorrect == Spec => []TypeOK
<1>1. Init => LoopInv
  BY LoopInit
<1>2. LoopInv /\ [Next]_vars => LoopInv'
  BY LoopStep
<1>3. LoopInv => TypeOK
  BY DEF LoopInv
<1>4. QED BY <1>1, <1>2, <1>3, PTL DEF Spec

(***************************************************************************)
(* For every sequence of matched rules there is an event exactly when the  *)
(* request was turned away or a detection with an id matched, and it lists *)
(* the ids of the detections (buildEvent).                                 *)
(***************************************************************************)
THEOREM RelevantHaveEvents == Spec => []EventWhenRelevant
<1>1. Init => LoopInv
  BY LoopInit
<1>2. LoopInv /\ [Next]_vars => LoopInv'
  BY LoopStep
<1>3. LoopInv => EventWhenRelevant
  <2> SUFFICES ASSUME LoopInv, Returned
               PROVE  LET named == {rules[j].id : j \in Detections} \ {0} IN
                      /\ event # None <=> blocked \/ named # {}
                      /\ event # None => {event.matched[k] : k \in DOMAIN event.matched} = named
    BY DEF EventWhenRelevant
  <2> DEFINE named == {rules[j].id : j \in Detections} \ {0}
  <2>1. matched \in Seq(Ids)
    BY DEF LoopInv, TypeOK
  <2>2. {matched[k] : k \in DOMAIN matched} = named
    BY AllPast DEF LoopInv, MatchedInv
  <2>3. matched # <<>> <=> DOMAIN matched # {}
    <3>1. DOMAIN matched = 1..Len(matched) /\ Len(matched) \in Nat
      BY <2>1
    <3>2. matched # <<>> <=> Len(matched) # 0
      BY <2>1, EmptySeq
    <3>3. QED BY <3>1, <3>2
  <2>4. matched # <<>> <=> named # {}
    BY <2>2, <2>3
  <2>5. QED BY <2>2, <2>4, EventMade
<1>4. QED BY <1>1, <1>2, <1>3, PTL DEF Spec

(***************************************************************************)
(* For every sequence of matched rules severity and message of the event   *)
(* are those of the first of the most severe detections (buildEvent).      *)
(***************************************************************************)
THEOREM TopRuleIsReported == Spec => []TopRuleReported
<1>1. Init => LoopInv
  BY LoopInit
<1>2. LoopInv /\ [Next]_vars => LoopInv'
  BY LoopStep
<1>3. LoopInv => TopRuleReported
  <2> SUFFICES ASSUME LoopInv, Returned, event # None PROVE TopRuleReported
    BY DEF TopRuleReported
  <2>1. /\ event.ruleID = RuleID /\ event.message = bestMsg /\ event.severity = Severity
        /\ blocked \/ matched # <<>>
    BY EventMade
  <2>2. Past \cap Detections = Detections
    BY AllPast
  <2>3. CASE /\ Past \cap Detections = {}
             /\ bestSev = unset /\ bestMsg = NoMessage /\ bestID = 0
    <3>1. matched \in Seq(Ids) /\ DOMAIN matched = {}
      BY <2>3 DEF LoopInv, MatchedInv, TypeOK
    <3>2. blocked
      BY <2>1, <3>1
    <3>3. RuleID = interruption /\ Severity = 0
      BY <2>3, <3>2 DEF LoopInv, EventInv, RuleID, Severity
    <3>4. QED BY <2>1, <2>2, <2>3, <3>3 DEF TopRuleReported
  <2>4. ASSUME NEW j \in DOMAIN rules, Tops(j),
               bestSev = rules[j].sev, bestMsg = rules[j].msg, bestID = rules[j].id
        PROVE  TopRuleReported
    <3>1. rules[j].sev < unset /\ rules[j].sev \in Int
      BY RuleTypes DEF LoopInv, TypeOK
    <3>2. Severity = rules[j].sev
      BY <2>4, <3>1 DEF Severity, unset
    <3>3. /\ j \in Detections
          /\ \A k \in Detections : rules[j].sev <= rules[k].sev
          /\ \A k \in Detections : k < j => rules[j].sev < rules[k].sev
      BY <2>2, <2>4 DEF Tops
    <3>4. QED BY <2>1, <2>4, <3>2, <3>3 DEF TopRuleReported
  <2>5. QED BY <2>3, <2>4 DEF LoopInv, BestInv
<1>4. QED BY <1>1, <1>2, <1>3, PTL DEF Spec

(***************************************************************************)
(* For every sequence of matched rules the anomaly score is the first one  *)
(* a message reports (buildEvent, anomalyScoreRE).                         *)
(***************************************************************************)
THEOREM ScoreIsReported == Spec => []ScoreReported
<1>1. Init => LoopInv
  BY LoopInit
<1>2. LoopInv /\ [Next]_vars => LoopInv'
  BY LoopStep
<1>3. LoopInv => ScoreReported
  BY AllPast, EventMade DEF LoopInv, ScoreInv, ScoreReported
<1>4. QED BY <1>1, <1>2, <1>3, PTL DEF Spec
=============================================================================
