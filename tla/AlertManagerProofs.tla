------------------------- MODULE AlertManagerProofs -------------------------
(***************************************************************************)
(* Theorems about AlertManager for every value of its constants.           *)
(***************************************************************************)
EXTENDS AlertManager, TLAPS

PassType == Stopped \cup Between \cup Visiting \cup Notifying

LEMMA IdleTyped == Idle \in PassType /\ Raised \in PassType
  BY DEF PassType, Stopped, Idle, Raised

LEMMA NextRuleTyped ==
  ASSUME NEW e \in Between \cup Visiting, NEW todo \in SUBSET Rule,
         NEW triggered \in Seq(AlertId), NEW resolved \in Seq(AlertId)
  PROVE  NextRule(e, todo, triggered, resolved) \in PassType
  BY DEF NextRule, PassType, Between, Visiting

LEMMA PastTyped ==
  ASSUME NEW e \in Visiting, NEW s,
         NEW triggered \in Seq(AlertId), NEW resolved \in Seq(AlertId)
  PROVE  Past(e, s, triggered, resolved) \in PassType
<1>1. NextRule(e, e.todo, triggered, resolved) \in PassType
  BY NextRuleTyped DEF Visiting
<1>2. Visit(e, e.todo, triggered, resolved, e.rule, e.left \ {s}, e.hot \ {s}) \in PassType
  BY DEF Visit, PassType, Visiting
<1> QED
  BY <1>1, <1>2 DEF Past

LEMMA ApplyingFacts ==
  ASSUME TypeOK, NEW t \in Thread, NEW s \in Series, Applying(t, s)
  PROVE  /\ eval[t] \in Visiting
         /\ eval[t].rule \in Rule /\ eval[t].now \in Time
         /\ eval[t].triggered \in Seq(AlertId) /\ eval[t].resolved \in Seq(AlertId)
         /\ eval[t].rule.name \in Name
         /\ KeyAt(t, s) \in Key
<1>1. eval[t] \in Visiting
  BY DEF Applying, TypeOK, Stopped, Between, Notifying
<1>2. eval[t].rule.name \in Name
  BY <1>1, RuleAssumption DEF Visiting, RuleType
<1> QED
  BY <1>1, <1>2 DEF Visiting, KeyAt, Key

LEMMA ArchiveTyped ==
  ASSUME history \in Seq(AlertId), NEW a \in AlertId, Archive(a)
  PROVE  history' \in Seq(AlertId)
<1>1. CASE Len(history) < MaxHistory
  BY <1>1 DEF Archive
<1>2. CASE ~(Len(history) < MaxHistory)
  <2>1. history # <<>>
    BY <1>2, LimitsAssumption
  <2>2. Tail(history) \in Seq(AlertId)
    BY <2>1
  <2> QED
    BY <1>2, <2>2 DEF Archive
<1> QED
  BY <1>1, <1>2

LEMMA UpdatedTyped ==
  ASSUME TypeOK, NEW a \in Created, NEW status \in AlertStatus, NEW now \in Time
  PROVE  /\ Updated(a, status, now) \in [AlertId -> Alert \cup {Unborn}]
         /\ Updated(a, status, now)[a].rule = alerts[a].rule
         /\ Updated(a, status, now)[a].series = alerts[a].series
         /\ Updated(a, status, now)[a].triggeredAt = alerts[a].triggeredAt
         /\ Updated(a, status, now)[a].status = status
         /\ \A b \in AlertId \ {a} : Updated(a, status, now)[b] = alerts[b]
<1>1. a \in AlertId /\ alerts[a] \in Alert
  BY DEF Created, TypeOK
<1>2. AlertOf(alerts[a].rule, alerts[a].series, status, alerts[a].triggeredAt, now) \in Alert
  BY <1>1 DEF AlertOf, Alert
<1> QED
  BY <1>1, <1>2 DEF Updated, TypeOK, AlertOf

LEMMA LiveCreated ==
  ASSUME TypeOK, LiveAlertsOfCurrentRules, NEW k \in Key, active[k] # NoAlert
  PROVE  active[k] \in Created /\ alerts[active[k]] \in Alert
  BY DEF LiveAlertsOfCurrentRules, Created, TypeOK

LEMMA TypeStep ==
  TypeOK /\ LiveAlertsOfCurrentRules /\ [Next]_vars => TypeOK'
<1> SUFFICES ASSUME TypeOK, LiveAlertsOfCurrentRules, [Next]_vars PROVE TypeOK'
  OBVIOUS
<1>1. ASSUME NEW r \in Rule, AddRule(r) PROVE TypeOK'
  BY <1>1, RuleAssumption DEF AddRule, store, RuleType, TypeOK
<1>2. ASSUME NEW r \in Rule, ReplaceRule(r) PROVE TypeOK'
  BY <1>2, RuleAssumption DEF ReplaceRule, DiscardRuleState, RuleType, TypeOK
<1>3. ASSUME NEW n \in Name, RemoveRule(n) PROVE TypeOK'
  BY <1>3 DEF RemoveRule, DiscardRuleState, TypeOK
<1>4. CASE AddHandler
  BY <1>4, LimitsAssumption DEF AddHandler, store, TypeOK
<1>5. ASSUME NEW t \in Thread, EvaluateBegin(t) PROVE TypeOK'
  <2>1. {rules[n] : n \in Registered} \in SUBSET Rule
    BY DEF Registered, TypeOK
  <2> QED
    BY <1>5, <2>1 DEF TypeOK, EvaluateBegin, config, store, Between
<1>6. ASSUME NEW t \in Thread, NEW r \in Rule, QueryFails(t, r) PROVE TypeOK'
  <2>1. eval[t] \in Between
    BY <1>6 DEF QueryFails, TypeOK, Stopped, Visiting, Notifying
  <2>2. NextRule(eval[t], eval[t].todo \ {r}, eval[t].triggered, eval[t].resolved) \in PassType
    BY <2>1, NextRuleTyped DEF Between
  <2> QED
    BY <1>6, <2>2 DEF QueryFails, TypeOK, PassType, config, store
<1>7. ASSUME NEW t \in Thread, NEW r \in Rule, Query(t, r) PROVE TypeOK'
  <2>1. eval[t] \in Between
    BY <1>7 DEF Query, TypeOK, Stopped, Visiting, Notifying
  <2>2. Selected(r) \in SUBSET Series
    BY <1>7, SeriesAssumption DEF Query, Selected
  <2>3. NextRule(eval[t], eval[t].todo \ {r}, eval[t].triggered, eval[t].resolved) \in PassType
    BY <2>1, NextRuleTyped DEF Between
  <2>4. ASSUME NEW hot \in SUBSET Series
        PROVE  Visit(eval[t], eval[t].todo \ {r}, eval[t].triggered, eval[t].resolved,
                     r, Selected(r), hot) \in PassType
    BY <2>1, <2>2 DEF Visit, PassType, Visiting, Between
  <2>5. PICK sample \in [Selected(r) -> Value] :
          eval' = [eval EXCEPT ![t] =
            IF Selected(r) = {}
            THEN NextRule(eval[t], eval[t].todo \ {r}, eval[t].triggered, eval[t].resolved)
            ELSE Visit(eval[t], eval[t].todo \ {r}, eval[t].triggered, eval[t].resolved, r,
                       Selected(r), {s \in Selected(r) : Matches(r, sample[s])})]
    BY <1>7 DEF Query, TypeOK
  <2>6. {s \in Selected(r) : Matches(r, sample[s])} \in SUBSET Series
    BY <2>2
  <2>7. eval' \in [Thread -> PassType]
    BY <2>3, <2>4, <2>5, <2>6 DEF TypeOK, PassType
  <2> QED
    BY <1>7, <2>7 DEF TypeOK, PassType, Query, config, store
<1>8. ASSUME NEW t \in Thread, NEW s \in Series, StaleRule(t, s) PROVE TypeOK'
  <2>1. Applying(t, s)
    BY <1>8 DEF StaleRule
  <2>2. NextRule(eval[t], eval[t].todo, eval[t].triggered, eval[t].resolved) \in PassType
    BY <2>1, ApplyingFacts, NextRuleTyped DEF Visiting
  <2> QED
    BY <1>8, <2>2 DEF StaleRule, TypeOK, PassType, config, store
<1>9. ASSUME NEW t \in Thread, NEW s \in Series, Applying(t, s), Skip(t, s)
      PROVE eval' \in [Thread -> PassType]
  <2>1. Past(eval[t], s, eval[t].triggered, eval[t].resolved) \in PassType
    BY <1>9, ApplyingFacts, PastTyped
  <2> QED
    BY <1>9, <2>1 DEF Skip, TypeOK, PassType
<1>10. ASSUME NEW t \in Thread, NEW s \in Series, UpdateActive(t, s) PROVE TypeOK'
  <2> DEFINE a == active[KeyAt(t, s)]
  <2>1. Applying(t, s) /\ a # NoAlert /\ Skip(t, s)
    BY <1>10 DEF UpdateActive
  <2>2. a \in Created /\ alerts[a].status \in AlertStatus
    BY <2>1, ApplyingFacts, LiveCreated DEF Alert
  <2>3. alerts' \in [AlertId -> Alert \cup {Unborn}]
    BY <1>10, <2>1, <2>2, ApplyingFacts, UpdatedTyped DEF UpdateActive
  <2> QED
    BY <1>10, <1>9, <2>1, <2>3 DEF UpdateActive, TypeOK, PassType, config
<1>11. ASSUME NEW t \in Thread, NEW s \in Series, CoolingDown(t, s) PROVE TypeOK'
  BY <1>11, <1>9 DEF CoolingDown, Retriggering, TypeOK, PassType, config, store
<1>12. ASSUME NEW t \in Thread, NEW s \in Series, CooldownOverflow(t, s) PROVE TypeOK'
  BY <1>12, IdleTyped DEF CooldownOverflow, TypeOK, PassType, config, store
<1>13. ASSUME NEW t \in Thread, NEW s \in Series, NEW a \in AlertId, Trigger(t, s, a)
       PROVE  TypeOK'
  <2>1. Applying(t, s)
    BY <1>13 DEF Trigger
  <2>2. AlertOf(eval[t].rule, s, "active", eval[t].now, eval[t].now) \in Alert
    BY <2>1, ApplyingFacts DEF AlertOf, Alert, AlertStatus
  <2>6. /\ eval[t] \in Visiting /\ eval[t].resolved \in Seq(AlertId)
        /\ Append(eval[t].triggered, a) \in Seq(AlertId)
    BY <2>1, ApplyingFacts
  <2>3. Past(eval[t], s, Append(eval[t].triggered, a), eval[t].resolved) \in PassType
    BY <2>6, PastTyped
  <2>4. /\ alerts' \in [AlertId -> Alert \cup {Unborn}]
        /\ active' \in [Key -> AlertId \cup {NoAlert}]
        /\ lastTriggered' \in [Key -> Time \cup {Never}]
    BY <1>13, <2>1, <2>2, ApplyingFacts DEF Trigger, TypeOK
  <2>5. eval' \in [Thread -> PassType]
    BY <1>13, <2>3 DEF Trigger, TypeOK, PassType
  <2> QED
    BY <1>13, <2>4, <2>5 DEF Trigger, TypeOK, PassType, config
<1>14. ASSUME NEW t \in Thread, NEW s \in Series, AutoResolve(t, s) PROVE TypeOK'
  <2> DEFINE a == active[KeyAt(t, s)]
  <2>1. Applying(t, s) /\ a # NoAlert /\ Archive(a)
    BY <1>14 DEF AutoResolve
  <2>2. a \in Created /\ a \in AlertId
    BY <2>1, ApplyingFacts, LiveCreated DEF Created
  <2>3. alerts' \in [AlertId -> Alert \cup {Unborn}]
    BY <1>14, <2>1, <2>2, ApplyingFacts, UpdatedTyped DEF AutoResolve, AlertStatus
  <2>4. history' \in Seq(AlertId)
    BY <2>1, <2>2, ArchiveTyped DEF TypeOK
  <2>7. /\ eval[t] \in Visiting /\ eval[t].triggered \in Seq(AlertId)
        /\ Append(eval[t].resolved, a) \in Seq(AlertId)
    BY <2>1, <2>2, ApplyingFacts
  <2>5. Past(eval[t], s, eval[t].triggered, Append(eval[t].resolved, a)) \in PassType
    BY <2>7, PastTyped
  <2>6. eval' \in [Thread -> PassType]
    BY <1>14, <2>5 DEF AutoResolve, TypeOK, PassType
  <2> QED
    BY <1>14, <2>3, <2>4, <2>6 DEF AutoResolve, TypeOK, PassType, config
<1>15. ASSUME NEW t \in Thread, NEW s \in Series, NothingToDo(t, s) PROVE TypeOK'
  BY <1>15, <1>9 DEF NothingToDo, TypeOK, PassType, config, store
<1>16. ASSUME NEW t \in Thread, NotifyBegin(t) PROVE TypeOK'
  <2>1. eval[t] \in Between
    BY <1>16 DEF NotifyBegin, TypeOK, Stopped, Visiting, Notifying
  <2>2. \A ids \in Seq(AlertId), kind \in {"triggered", "resolved"} :
          [i \in 1 .. Len(ids) |-> <<ids[i], kind>>] \in Seq(Notice)
    BY DEF Notice
  <2>3. Notices(t) \in Seq(Notice)
    BY <2>1, <2>2 DEF Notices, Between
  <2>4. handlers # 0 => Notify(Notices(t), handlers, 1) \in PassType
    BY <2>3, LimitsAssumption DEF Notify, PassType, Notifying, TypeOK
  <2>5. eval' \in [Thread -> PassType]
    BY <1>16, <2>4, IdleTyped DEF NotifyBegin, TypeOK, PassType
  <2> QED
    BY <1>16, <2>5 DEF NotifyBegin, TypeOK, PassType, config, store
<1>17. ASSUME NEW t \in Thread, CallHandler(t) PROVE TypeOK'
  <2> DEFINE e == eval[t]
  <2>1. e \in Notifying
    BY <1>17 DEF CallHandler, TypeOK, Stopped, Visiting, Between
  <2>2. e.next < e.copied => Notify(e.notices, e.copied, e.next + 1) \in PassType
    BY <2>1, LimitsAssumption DEF Notify, PassType, Notifying
  <2>3. Len(e.notices) > 1 => Notify(Tail(e.notices), e.copied, 1) \in PassType
    BY <2>1, LimitsAssumption DEF Notify, PassType, Notifying
  <2>5. received' \in [Handler -> [Notice -> Nat]]
    <3> DEFINE n == Head(e.notices)
    <3>2. received' = [received EXCEPT ![e.next] = [received[e.next] EXCEPT ![n] = received[e.next][n] + 1]]
      BY <1>17 DEF CallHandler
    <3> HIDE DEF n
    <3>1. ASSUME NEW f \in [Notice -> Nat] PROVE [f EXCEPT ![n] = f[n] + 1] \in [Notice -> Nat]
      <4>1. CASE n \in Notice
        BY <4>1
      <4>2. CASE n \notin Notice
        BY <4>2
      <4> QED
        BY <4>1, <4>2
    <3>3. CASE e.next \in Handler
      BY <3>1, <3>2, <3>3 DEF TypeOK
    <3>4. CASE e.next \notin Handler
      BY <3>2, <3>4 DEF TypeOK
    <3> QED
      BY <3>3, <3>4
  <2>6. eval' \in [Thread -> PassType]
    BY <1>17, <2>2, <2>3, IdleTyped DEF CallHandler, TypeOK, PassType
  <2> QED
    BY <1>17, <2>5, <2>6 DEF CallHandler, TypeOK, PassType, config, store
<1>18. ASSUME NEW a \in AlertId, Acknowledge(a) PROVE TypeOK'
  <2>1. a \in Created /\ alerts[a].observedAt \in Time
    BY <1>18, LiveCreated DEF Acknowledge, Live, Alert, NoAlert, AlertId
  <2>2. alerts' \in [AlertId -> Alert \cup {Unborn}]
    BY <1>18, <2>1, UpdatedTyped DEF Acknowledge, AlertStatus
  <2> QED
    BY <1>18, <2>2 DEF Acknowledge, TypeOK, config
<1>19. ASSUME NEW a \in AlertId, Resolve(a) PROVE TypeOK'
  <2>1. a \in Created
    BY <1>19, LiveCreated DEF Resolve, Live, NoAlert, AlertId
  <2>2. alerts' \in [AlertId -> Alert \cup {Unborn}]
    BY <1>19, <2>1, UpdatedTyped DEF Resolve, AlertStatus
  <2>3. history' \in Seq(AlertId)
    BY <1>19, ArchiveTyped DEF Resolve, TypeOK
  <2> QED
    BY <1>19, <2>2, <2>3 DEF Resolve, TypeOK, config
<1>20. CASE UNCHANGED vars
  BY <1>20 DEF vars, config, store, TypeOK
<1> QED
  BY <1>1, <1>2, <1>3, <1>4, <1>5, <1>6, <1>7, <1>8, <1>10, <1>11, <1>12, <1>13, <1>14,
     <1>15, <1>16, <1>17, <1>18, <1>19, <1>20 DEF Next, Proceed, Sample, Administer
-----------------------------------------------------------------------------
RulesByName == \A n \in Name : rules[n] # NoRule => rules[n].name = n

\* The steps that leave the rules and the store of alerts alone.
Quiet == UNCHANGED <<rules, active, lastTriggered, history, alerts>>

LEMMA StepCases ==
  ASSUME [Next]_vars
  PROVE  \/ Quiet
         \/ \E r \in Rule : AddRule(r) \/ ReplaceRule(r)
         \/ \E n \in Name : RemoveRule(n)
         \/ \E t \in Thread, s \in Series :
              \/ UpdateActive(t, s)
              \/ \E a \in AlertId : Trigger(t, s, a)
              \/ AutoResolve(t, s)
         \/ \E a \in AlertId : Acknowledge(a) \/ Resolve(a)
<1>1. ASSUME NEW t \in Thread, EvaluateBegin(t) \/ Proceed(t)
      PROVE  \/ Quiet
             \/ \E s \in Series :
                  \/ UpdateActive(t, s)
                  \/ \E a \in AlertId : Trigger(t, s, a)
                  \/ AutoResolve(t, s)
  <2>1. ASSUME NEW s \in Series,
               StaleRule(t, s) \/ CoolingDown(t, s) \/ CooldownOverflow(t, s) \/ NothingToDo(t, s)
        PROVE Quiet
    BY <2>1 DEF Quiet, StaleRule, CoolingDown, CooldownOverflow, NothingToDo, config, store
  <2>2. ASSUME NEW r \in Rule, QueryFails(t, r) \/ Query(t, r) PROVE Quiet
    BY <2>2 DEF Quiet, QueryFails, Query, config, store
  <2>3. ASSUME EvaluateBegin(t) \/ NotifyBegin(t) \/ CallHandler(t) PROVE Quiet
    BY <2>3 DEF Quiet, EvaluateBegin, NotifyBegin, CallHandler, config, store
  <2> QED
    BY <1>1, <2>1, <2>2, <2>3 DEF Proceed, Sample
<1>2. AddHandler \/ UNCHANGED vars => Quiet
  BY DEF Quiet, AddHandler, vars, config, store
<1> QED
  BY <1>1, <1>2 DEF Next, Administer

LEMMA RulesByNameStep == TypeOK /\ RulesByName /\ [Next]_vars => RulesByName'
<1> SUFFICES ASSUME TypeOK, RulesByName, [Next]_vars PROVE RulesByName'
  OBVIOUS
<1>1. ASSUME NEW r \in Rule, AddRule(r) \/ ReplaceRule(r) PROVE RulesByName'
  BY <1>1 DEF AddRule, ReplaceRule, RulesByName, TypeOK
<1>2. ASSUME NEW n \in Name, RemoveRule(n) PROVE RulesByName'
  BY <1>2 DEF RemoveRule, RulesByName, TypeOK
<1>3. ASSUME UNCHANGED rules PROVE RulesByName'
  BY <1>3 DEF RulesByName
<1> QED
  BY <1>1, <1>2, <1>3, StepCases
  DEF Quiet, UpdateActive, Trigger, AutoResolve, Acknowledge, Resolve, config

LEMMA LiveUnique ==
  ASSUME LiveAlertsOfCurrentRules, NEW k \in Key, NEW j \in Key,
         active[k] # NoAlert, active[k] = active[j]
  PROVE  k = j
  BY DEF LiveAlertsOfCurrentRules

\* An update of one alert that keeps it unresolved leaves every live alert as it should be.
LEMMA UpdateKeepsLive ==
  ASSUME TypeOK, LiveAlertsOfCurrentRules, NEW a \in Created,
         NEW status \in {"active", "acknowledged"}, NEW now \in Time,
         alerts' = Updated(a, status, now), UNCHANGED <<rules, active, lastTriggered>>
  PROVE  LiveAlertsOfCurrentRules'
<1> SUFFICES ASSUME NEW k \in Key, active[k] # NoAlert
             PROVE  /\ active[k] \in Created'
                    /\ KeyOf(active[k])' = k
                    /\ alerts'[active[k]].rule = rules[k[1]]
                    /\ alerts'[active[k]].status # "resolved"
                    /\ alerts'[active[k]].triggeredAt = lastTriggered[k]
  BY DEF LiveAlertsOfCurrentRules
<1>1. status \in AlertStatus
  BY DEF AlertStatus
<1>2. Created \subseteq Created'
  BY <1>1, UpdatedTyped DEF Created, Unborn
<1> QED
  BY <1>1, <1>2, LiveCreated, UpdatedTyped DEF LiveAlertsOfCurrentRules, KeyOf, Created

LEMMA LiveStep ==
  TypeOK /\ RulesByName /\ LiveAlertsOfCurrentRules /\ [Next]_vars => LiveAlertsOfCurrentRules'
<1> SUFFICES ASSUME TypeOK, RulesByName, LiveAlertsOfCurrentRules, [Next]_vars
             PROVE  LiveAlertsOfCurrentRules'
  OBVIOUS
<1>1. CASE Quiet
  BY <1>1 DEF Quiet, LiveAlertsOfCurrentRules, Created, KeyOf
<1>2. ASSUME NEW r \in Rule, AddRule(r) PROVE LiveAlertsOfCurrentRules'
  <2>1. \A k \in Key : k[1] = r.name => active[k] = NoAlert
    BY <1>2, LiveCreated, RuleAssumption DEF AddRule, LiveAlertsOfCurrentRules, Alert
  <2> QED
    BY <1>2, <2>1, RuleAssumption
    DEF AddRule, store, LiveAlertsOfCurrentRules, Created, KeyOf, TypeOK, Key
<1>3. ASSUME NEW r \in Rule, ReplaceRule(r) PROVE LiveAlertsOfCurrentRules'
  BY <1>3, RuleAssumption
  DEF ReplaceRule, DiscardRuleState, LiveAlertsOfCurrentRules, Created, KeyOf, TypeOK, Key
<1>4. ASSUME NEW n \in Name, RemoveRule(n) PROVE LiveAlertsOfCurrentRules'
  BY <1>4 DEF RemoveRule, DiscardRuleState, LiveAlertsOfCurrentRules, Created, KeyOf, TypeOK, Key
<1>5. ASSUME NEW t \in Thread, NEW s \in Series, UpdateActive(t, s)
      PROVE  LiveAlertsOfCurrentRules'
  <2> DEFINE a == active[KeyAt(t, s)]
  <2>1. Applying(t, s) /\ a # NoAlert /\ alerts' = Updated(a, alerts[a].status, eval[t].now)
    BY <1>5 DEF UpdateActive
  <2>2. a \in Created /\ alerts[a].status \in {"active", "acknowledged"}
    BY <2>1, ApplyingFacts, LiveCreated DEF Alert, AlertStatus, LiveAlertsOfCurrentRules
  <2>3. UNCHANGED <<rules, active, lastTriggered>>
    BY <1>5 DEF UpdateActive, config
  <2> QED
    BY <2>1, <2>2, <2>3, ApplyingFacts, UpdateKeepsLive
<1>6. ASSUME NEW a \in AlertId, Acknowledge(a) PROVE LiveAlertsOfCurrentRules'
  <2>1. a \in Created /\ alerts[a].observedAt \in Time
    BY <1>6, LiveCreated DEF Acknowledge, Live, Alert, NoAlert, AlertId
  <2> QED
    BY <1>6, <2>1, UpdateKeepsLive DEF Acknowledge, config
<1>7. ASSUME NEW t \in Thread, NEW s \in Series, NEW a \in AlertId, Trigger(t, s, a)
      PROVE  LiveAlertsOfCurrentRules'
  <2> DEFINE K == KeyAt(t, s)
             new == AlertOf(eval[t].rule, s, "active", eval[t].now, eval[t].now)
  <2>1. /\ Applying(t, s) /\ rules[eval[t].rule.name] = eval[t].rule
        /\ a \notin Created
        /\ alerts' = [alerts EXCEPT ![a] = new]
        /\ active' = [active EXCEPT ![K] = a]
        /\ lastTriggered' = [lastTriggered EXCEPT ![K] = eval[t].now]
        /\ rules' = rules
    BY <1>7 DEF Trigger, IsCurrent, IsFresh, config
  <2>2. /\ eval[t].rule \in Rule /\ eval[t].now \in Time /\ K \in Key
        /\ K = <<eval[t].rule.name, s>>
    BY <2>1, ApplyingFacts DEF KeyAt
  <2>3. alerts'[a] = new /\ a \in Created'
    BY <2>1 DEF Created, TypeOK, AlertOf, Unborn
  <2>4. Created \subseteq Created' /\ \A b \in Created : alerts'[b] = alerts[b]
    BY <2>1, <2>3 DEF Created, TypeOK
  <2>5. active'[K] = a /\ lastTriggered'[K] = eval[t].now
    BY <2>1, <2>2 DEF TypeOK
  <2>6. ASSUME NEW k \in Key, k # K
        PROVE  active'[k] = active[k] /\ lastTriggered'[k] = lastTriggered[k]
    BY <2>1, <2>6 DEF TypeOK
  <2>7. ASSUME NEW k \in Key
        PROVE  /\ active'[k] # NoAlert =>
                    /\ active'[k] \in Created'
                    /\ KeyOf(active[k])' = k
                    /\ alerts'[active'[k]].rule = rules'[k[1]]
                    /\ alerts'[active'[k]].status # "resolved"
                    /\ alerts'[active'[k]].triggeredAt = lastTriggered'[k]
               /\ lastTriggered'[k] # Never => rules'[k[1]] # NoRule
    <3>1. CASE k = K
      BY <2>1, <2>2, <2>3, <2>5, <3>1, RuleAssumption DEF KeyOf, AlertOf
    <3>2. CASE k # K
      BY <2>1, <2>4, <2>6, <3>2 DEF LiveAlertsOfCurrentRules, KeyOf
    <3> QED
      BY <3>1, <3>2
  <2> QED
    BY <2>7 DEF LiveAlertsOfCurrentRules
<1>8. ASSUME NEW K \in Key, active[K] # NoAlert, NEW now \in Time,
             alerts' = Updated(active[K], "resolved", now),
             active' = [active EXCEPT ![K] = NoAlert],
             UNCHANGED <<rules, lastTriggered>>
      PROVE  LiveAlertsOfCurrentRules'
  <2>1. active[K] \in Created
    BY <1>8, LiveCreated
  <2>2. \A b \in AlertId \ {active[K]} : alerts'[b] = alerts[b]
    BY <1>8, <2>1, UpdatedTyped DEF AlertStatus
  <2>3. ASSUME NEW k \in Key
        PROVE  /\ active'[k] # NoAlert =>
                    /\ active'[k] \in Created'
                    /\ KeyOf(active[k])' = k
                    /\ alerts'[active'[k]].rule = rules'[k[1]]
                    /\ alerts'[active'[k]].status # "resolved"
                    /\ alerts'[active'[k]].triggeredAt = lastTriggered'[k]
               /\ lastTriggered'[k] # Never => rules'[k[1]] # NoRule
    <3>1. CASE k = K
      BY <1>8, <3>1 DEF TypeOK, LiveAlertsOfCurrentRules
    <3>2. CASE k # K
      <4>1. active'[k] = active[k]
        BY <1>8, <3>2 DEF TypeOK
      <4>2. CASE active[k] # NoAlert
        <5>1. active[k] \in AlertId \ {active[K]} /\ active[k] \in Created
          BY <3>2, <4>2, LiveUnique, LiveCreated DEF Created
        <5> QED
          BY <1>8, <4>1, <2>2, <5>1 DEF LiveAlertsOfCurrentRules, KeyOf, Created
      <4> QED
        BY <1>8, <4>1, <4>2 DEF LiveAlertsOfCurrentRules
    <3> QED
      BY <3>1, <3>2
  <2> QED
    BY <2>3 DEF LiveAlertsOfCurrentRules
<1>9. ASSUME NEW t \in Thread, NEW s \in Series, AutoResolve(t, s)
      PROVE  LiveAlertsOfCurrentRules'
  BY <1>8, <1>9, ApplyingFacts DEF AutoResolve, config
<1>10. ASSUME NEW a \in AlertId, Resolve(a) PROVE LiveAlertsOfCurrentRules'
  <2>1. PICK K \in Key : active[K] = a /\ a # NoAlert
    BY <1>10 DEF Resolve, Live, AlertId, NoAlert
  <2>2. active' = [active EXCEPT ![K] = NoAlert]
    BY <1>10, <2>1, LiveUnique DEF Resolve, TypeOK
  <2> QED
    BY <1>8, <1>10, <2>1, <2>2 DEF Resolve, config
<1> QED
  BY <1>1, <1>2, <1>3, <1>4, <1>5, <1>6, <1>7, <1>9, <1>10, StepCases
-----------------------------------------------------------------------------
\* HistoryOfResolved without its last part, which follows from LiveAlertsOfCurrentRules.
HistoryKept ==
  /\ Len(history) <= MaxHistory
  /\ \A i \in 1 .. Len(history) :
       /\ alerts[history[i]].status = "resolved"
       /\ \A j \in 1 .. Len(history) : history[i] = history[j] => i = j

LEMMA HistoryFromParts ==
  ASSUME TypeOK, LiveAlertsOfCurrentRules
  PROVE  HistoryKept <=> HistoryOfResolved
  BY DEF HistoryKept, HistoryOfResolved, Live, LiveAlertsOfCurrentRules, NoAlert, AlertId

LEMMA HistoryOfCreated ==
  ASSUME TypeOK, HistoryKept, NEW i \in 1 .. Len(history)
  PROVE  history[i] \in AlertId /\ history[i] \in Created
  BY DEF TypeOK, HistoryKept, Created, Unborn

\* A step that leaves the resolved alerts and the history alone keeps the history.
LEMMA HistoryUntouched ==
  ASSUME TypeOK, HistoryKept, UNCHANGED history,
         \A b \in AlertId : alerts[b].status = "resolved" => alerts'[b] = alerts[b]
  PROVE  HistoryKept'
  BY HistoryOfCreated DEF HistoryKept

LEMMA ArchiveKeepsHistory ==
  ASSUME TypeOK, HistoryKept, NEW a \in Created, alerts[a].status # "resolved", Archive(a),
         NEW now \in Time, alerts' = Updated(a, "resolved", now)
  PROVE  HistoryKept'
<1> DEFINE h == IF Len(history) < MaxHistory THEN history ELSE Tail(history)
<1>1. /\ h \in Seq(AlertId) /\ Len(h) < MaxHistory
      /\ \A i \in 1 .. Len(h) : /\ \E m \in 1 .. Len(history) : h[i] = history[m]
                                /\ \A j \in 1 .. Len(h) : h[i] = h[j] => i = j
  <2>1. CASE Len(history) < MaxHistory
    BY <2>1 DEF TypeOK, HistoryKept
  <2>2. CASE ~(Len(history) < MaxHistory)
    <3>1. history \in Seq(AlertId) /\ history # <<>> /\ Len(history) = MaxHistory
      BY <2>2, LimitsAssumption DEF TypeOK, HistoryKept
    <3>2. /\ Tail(history) \in Seq(AlertId) /\ Len(Tail(history)) = Len(history) - 1
          /\ \A i \in 1 .. Len(Tail(history)) :
               Tail(history)[i] = history[i + 1] /\ i + 1 \in 1 .. Len(history)
      BY <3>1
    <3> QED
      BY <2>2, <3>1, <3>2, LimitsAssumption DEF HistoryKept
  <2> QED
    BY <2>1, <2>2
<1>2. history' = Append(h, a)
  BY DEF Archive
<1> HIDE DEF h
<1>3. /\ Len(history') = Len(h) + 1
      /\ \A i \in 1 .. Len(h) : history'[i] = h[i]
      /\ history'[Len(h) + 1] = a
  BY <1>1, <1>2
<1>4. \A i \in 1 .. Len(h) : h[i] # a /\ h[i] \in AlertId /\ alerts[h[i]].status = "resolved"
  BY <1>1, HistoryOfCreated DEF HistoryKept
<1>5. \A i \in 1 .. Len(h) : alerts'[h[i]].status = "resolved"
  BY <1>4, UpdatedTyped DEF AlertStatus
<1>6. alerts'[a].status = "resolved"
  BY UpdatedTyped DEF AlertStatus
<1>7. \A i \in 1 .. Len(history') : alerts'[history'[i]].status = "resolved"
  BY <1>1, <1>3, <1>5, <1>6
<1>8. \A i, j \in 1 .. Len(history') : history'[i] = history'[j] => i = j
  BY <1>1, <1>3, <1>4
<1>9. Len(history') <= MaxHistory
  BY <1>1, <1>3, LimitsAssumption
<1> QED
  BY <1>7, <1>8, <1>9 DEF HistoryKept

\* What a step that touches an alert does to it: a live alert is updated and stays
\* unresolved, a live alert is resolved and goes to history, or a fresh one is created.
LEMMA AlertSteps ==
  ASSUME TypeOK, LiveAlertsOfCurrentRules, [Next]_vars
  PROVE  \/ UNCHANGED <<alerts, history>>
         \/ \E a \in Created, now \in Time :
              /\ alerts[a].status # "resolved"
              /\ \/ /\ UNCHANGED history
                    /\ \E status \in {alerts[a].status, "acknowledged"} :
                         alerts' = Updated(a, status, now)
                 \/ alerts' = Updated(a, "resolved", now) /\ Archive(a)
         \/ \E a \in AlertId \ Created :
              UNCHANGED history /\ \A b \in AlertId \ {a} : alerts'[b] = alerts[b]
<1>1. ASSUME NEW t \in Thread, NEW s \in Series, UpdateActive(t, s) \/ AutoResolve(t, s)
      PROVE  \E a \in Created, now \in Time :
              /\ alerts[a].status # "resolved"
              /\ \/ /\ UNCHANGED history
                    /\ \E status \in {alerts[a].status, "acknowledged"} :
                         alerts' = Updated(a, status, now)
                 \/ alerts' = Updated(a, "resolved", now) /\ Archive(a)
  <2> DEFINE a == active[KeyAt(t, s)]
  <2>1. Applying(t, s) /\ a # NoAlert
    BY <1>1 DEF UpdateActive, AutoResolve
  <2>2. a \in Created /\ alerts[a].status # "resolved" /\ eval[t].now \in Time
    BY <2>1, ApplyingFacts, LiveCreated DEF LiveAlertsOfCurrentRules
  <2> QED
    BY <1>1, <2>2 DEF UpdateActive, AutoResolve
<1>2. ASSUME NEW a \in AlertId, Acknowledge(a) \/ Resolve(a)
      PROVE  \E now \in Time :
              /\ a \in Created /\ alerts[a].status # "resolved"
              /\ \/ UNCHANGED history /\ alerts' = Updated(a, "acknowledged", now)
                 \/ alerts' = Updated(a, "resolved", now) /\ Archive(a)
  <2>1. PICK k \in Key : active[k] = a /\ a # NoAlert
    BY <1>2 DEF Acknowledge, Resolve, Live, AlertId, NoAlert
  <2>2. a \in Created /\ alerts[a].status # "resolved" /\ alerts[a].observedAt \in Time
    BY <2>1, LiveCreated DEF LiveAlertsOfCurrentRules, Alert
  <2> QED
    BY <1>2, <2>2 DEF Acknowledge, Resolve
<1>3. ASSUME NEW t \in Thread, NEW s \in Series, NEW a \in AlertId, Trigger(t, s, a)
      PROVE  a \notin Created /\ UNCHANGED history /\ \A b \in AlertId \ {a} : alerts'[b] = alerts[b]
  BY <1>3 DEF Trigger, IsFresh, TypeOK
<1>4. ASSUME \/ \E r \in Rule : AddRule(r) \/ ReplaceRule(r)
             \/ \E n \in Name : RemoveRule(n)
      PROVE  UNCHANGED <<alerts, history>>
  BY <1>4 DEF AddRule, ReplaceRule, RemoveRule, store
<1> QED
  BY <1>1, <1>2, <1>3, <1>4, StepCases DEF Quiet

LEMMA HistoryStep ==
  TypeOK /\ LiveAlertsOfCurrentRules /\ HistoryKept /\ [Next]_vars => HistoryKept'
<1> SUFFICES ASSUME TypeOK, LiveAlertsOfCurrentRules, HistoryKept, [Next]_vars
             PROVE  HistoryKept'
  OBVIOUS
<1>1. CASE UNCHANGED <<alerts, history>>
  BY <1>1 DEF HistoryKept
<1>2. ASSUME NEW a \in Created, NEW now \in Time, alerts[a].status # "resolved", UNCHANGED history,
             NEW status \in {alerts[a].status, "acknowledged"}, alerts' = Updated(a, status, now)
      PROVE  HistoryKept'
  <2>1. status \in AlertStatus
    BY DEF Created, TypeOK, Alert, AlertStatus
  <2> QED
    BY <1>2, <2>1, UpdatedTyped, HistoryUntouched
<1>3. ASSUME NEW a \in Created, NEW now \in Time, alerts[a].status # "resolved",
             alerts' = Updated(a, "resolved", now), Archive(a)
      PROVE  HistoryKept'
  BY <1>3, ArchiveKeepsHistory
<1>4. ASSUME NEW a \in AlertId \ Created, UNCHANGED history,
             \A b \in AlertId \ {a} : alerts'[b] = alerts[b]
      PROVE  HistoryKept'
  BY <1>4, HistoryUntouched DEF Created, Unborn
<1> QED
  BY <1>1, <1>2, <1>3, <1>4, AlertSteps
-----------------------------------------------------------------------------
\* What a thread applies samples of: series the labels of its rule select.
SelectedByRule ==
  \A t \in Thread : eval[t].pc = "samples" => eval[t].left \subseteq eval[t].rule.labels

\* The inductive invariant.
IInv == /\ TypeOK
        /\ RulesByName
        /\ SelectedByRule
        /\ LiveAlertsOfCurrentRules
        /\ HistoryKept

LEMMA PastSelected ==
  ASSUME NEW e, NEW s, NEW triggered, NEW resolved, e.left \subseteq e.rule.labels
  PROVE  LET p == Past(e, s, triggered, resolved)
         IN  p.pc = "samples" => p.left \subseteq p.rule.labels
  BY DEF Past, NextRule, Visit

LEMMA SelectedStep == TypeOK /\ SelectedByRule /\ [Next]_vars => SelectedByRule'
<1> SUFFICES ASSUME TypeOK, SelectedByRule, [Next]_vars PROVE SelectedByRule'
  OBVIOUS
<1>1. ASSUME NEW t \in Thread, NEW p, eval' = [eval EXCEPT ![t] = p],
             p.pc = "samples" => p.left \subseteq p.rule.labels
      PROVE  SelectedByRule'
  BY <1>1 DEF SelectedByRule, TypeOK
<1>2. ASSUME NEW t \in Thread, EvaluateBegin(t) \/ NotifyBegin(t) \/ CallHandler(t)
      PROVE  SelectedByRule'
  <2>1. CASE EvaluateBegin(t)
    BY <1>1, <2>1 DEF EvaluateBegin
  <2>2. CASE NotifyBegin(t)
    BY <1>1, <2>2 DEF NotifyBegin, Idle, Notify
  <2>3. CASE CallHandler(t)
    BY <1>1, <2>3 DEF CallHandler, Idle, Notify
  <2> QED
    BY <1>2, <2>1, <2>2, <2>3
<1>3. ASSUME NEW t \in Thread, NEW r \in Rule, QueryFails(t, r) PROVE SelectedByRule'
  BY <1>1, <1>3 DEF QueryFails, NextRule
<1>4. ASSUME NEW t \in Thread, NEW r \in Rule, Query(t, r) PROVE SelectedByRule'
  <2>1. PICK p : /\ eval' = [eval EXCEPT ![t] = p]
                 /\ p.pc = "samples" => p.left = Selected(r) /\ p.rule = r
    BY <1>4 DEF Query, NextRule, Visit
  <2> QED
    BY <1>1, <2>1 DEF Selected
<1>5. ASSUME NEW t \in Thread, NEW s \in Series, Applying(t, s),
             NEW triggered, NEW resolved,
             eval' = [eval EXCEPT ![t] = Past(eval[t], s, triggered, resolved)]
      PROVE  SelectedByRule'
  <2>1. eval[t].left \subseteq eval[t].rule.labels
    BY <1>5 DEF Applying, SelectedByRule
  <2> QED
    BY <1>1, <1>5, <2>1, PastSelected
<1>6. ASSUME NEW t \in Thread, NEW s \in Series,
             \/ UpdateActive(t, s) \/ CoolingDown(t, s) \/ NothingToDo(t, s)
             \/ AutoResolve(t, s) \/ \E a \in AlertId : Trigger(t, s, a)
      PROVE  SelectedByRule'
  BY <1>5, <1>6
  DEF UpdateActive, CoolingDown, NothingToDo, AutoResolve, Trigger, Retriggering, Skip
<1>7. ASSUME NEW t \in Thread, NEW s \in Series, StaleRule(t, s) \/ CooldownOverflow(t, s)
      PROVE  SelectedByRule'
  <2>1. CASE StaleRule(t, s)
    BY <1>1, <2>1 DEF StaleRule, NextRule
  <2>2. CASE CooldownOverflow(t, s)
    BY <1>1, <2>2 DEF CooldownOverflow, Raised
  <2> QED
    BY <1>7, <2>1, <2>2
<1>8. ASSUME UNCHANGED eval PROVE SelectedByRule'
  BY <1>8 DEF SelectedByRule
<1>9. Administer \/ UNCHANGED vars => UNCHANGED eval
  BY DEF Administer, AddRule, ReplaceRule, RemoveRule, AddHandler, Acknowledge, Resolve, vars
<1> QED
  BY <1>2, <1>3, <1>4, <1>6, <1>7, <1>8, <1>9 DEF Next, Proceed, Sample

LEMMA InitHolds == Init => IInv
  BY LimitsAssumption
  DEF Init, IInv, TypeOK, RulesByName, SelectedByRule, LiveAlertsOfCurrentRules, HistoryKept,
      Idle, Stopped, NoAlert, Never

LEMMA Induction == IInv /\ [Next]_vars => IInv'
  BY TypeStep, RulesByNameStep, SelectedStep, LiveStep, HistoryStep DEF IInv

\* The manager keeps its inductive invariant.
THEOREM Invariance == Spec => []IInv
  BY InitHolds, Induction, PTL DEF Spec

\* Every variable of the manager has its type.
THEOREM TypeCorrect == Spec => []TypeOK
  BY Invariance, PTL DEF IInv

\* A live alert is always an unresolved alert of the rule object registered now:
\* an evaluation that holds an old copy of the rules leaves nothing behind.
THEOREM LiveCorrect == Spec => []LiveAlertsOfCurrentRules
  BY Invariance, PTL DEF IInv

\* History stays within its bound and holds resolved alerts, each once.
THEOREM HistoryCorrect == Spec => []HistoryOfResolved
<1>1. IInv => HistoryOfResolved
  BY HistoryFromParts DEF IInv
<1> QED
  BY <1>1, Invariance, PTL
-----------------------------------------------------------------------------
LEMMA CooldownStep ==
  IInv /\ [Next]_vars =>
    \A k \in Key :
      lastTriggered'[k] # lastTriggered[k] /\ Never \notin {lastTriggered[k], lastTriggered'[k]}
        => lastTriggered'[k] >= lastTriggered[k] + rules[k[1]].cooldown
<1> SUFFICES ASSUME IInv, [Next]_vars, NEW k \in Key, lastTriggered'[k] # lastTriggered[k],
                    lastTriggered[k] # Never, lastTriggered'[k] # Never
             PROVE  lastTriggered'[k] >= lastTriggered[k] + rules[k[1]].cooldown
  OBVIOUS
<1>1. ASSUME NEW t \in Thread, NEW s \in Series, NEW a \in AlertId, Trigger(t, s, a)
      PROVE  lastTriggered'[k] >= lastTriggered[k] + rules[k[1]].cooldown
  <2>1. Applying(t, s) /\ KeyAt(t, s) \in Key /\ eval[t].now \in Time
    BY <1>1, ApplyingFacts DEF Trigger, IInv
  <2>2. lastTriggered' = [lastTriggered EXCEPT ![KeyAt(t, s)] = eval[t].now]
    BY <1>1 DEF Trigger
  <2>3. k = KeyAt(t, s) /\ lastTriggered'[k] = eval[t].now
    BY <2>1, <2>2 DEF IInv, TypeOK
  <2>4. rules[k[1]] = eval[t].rule
    BY <1>1, <2>3 DEF Trigger, IsCurrent, KeyAt
  <2>5. eval[t].now >= CooldownEnd(t, s)
    BY <1>1, <2>3 DEF Trigger, CooldownOver
  <2> QED
    BY <2>3, <2>4, <2>5 DEF CooldownEnd
<1>2. ASSUME \/ \E r \in Rule : AddRule(r) \/ ReplaceRule(r)
             \/ \E n \in Name : RemoveRule(n)
      PROVE  FALSE
  BY <1>2 DEF AddRule, ReplaceRule, RemoveRule, DiscardRuleState, store, IInv, TypeOK
<1>3. ASSUME NEW t \in Thread, NEW s \in Series, UpdateActive(t, s) \/ AutoResolve(t, s)
      PROVE  FALSE
  BY <1>3 DEF UpdateActive, AutoResolve
<1>4. ASSUME NEW a \in AlertId, Acknowledge(a) \/ Resolve(a) PROVE FALSE
  BY <1>4 DEF Acknowledge, Resolve
<1>5. ~ Quiet
  BY DEF Quiet
<1> QED
  BY <1>1, <1>2, <1>3, <1>4, <1>5, StepCases

\* Two triggers of a key under one registration are a cooldown apart, whichever
\* evaluations raise them.
THEOREM CooldownCorrect == Spec => CooldownSeparatesTriggers
<1>1. IInv /\ [Next]_vars =>
        [\A k \in Key :
           lastTriggered'[k] # lastTriggered[k] /\ Never \notin {lastTriggered[k], lastTriggered'[k]}
             => lastTriggered'[k] >= lastTriggered[k] + rules[k[1]].cooldown]_vars
  BY CooldownStep
<1> QED
  BY <1>1, Invariance, PTL DEF Spec, CooldownSeparatesTriggers

LEMMA AdvanceStep ==
  IInv /\ [Next]_vars =>
    \A a \in Created :
       /\ alerts[a].status = "resolved" => alerts'[a] = alerts[a]
       /\ alerts[a].status = "acknowledged" => alerts'[a].status # "active"
<1> SUFFICES ASSUME IInv, [Next]_vars, NEW b \in Created
             PROVE  /\ alerts[b].status = "resolved" => alerts'[b] = alerts[b]
                    /\ alerts[b].status = "acknowledged" => alerts'[b].status # "active"
  OBVIOUS
<1>1. CASE UNCHANGED <<alerts, history>>
  BY <1>1
<1>2. ASSUME NEW a \in Created, NEW now \in Time, alerts[a].status # "resolved",
             NEW status \in {alerts[a].status, "acknowledged", "resolved"},
             alerts' = Updated(a, status, now)
      PROVE  /\ alerts[b].status = "resolved" => alerts'[b] = alerts[b]
             /\ alerts[b].status = "acknowledged" => alerts'[b].status # "active"
  <2>1. status \in AlertStatus
    BY DEF Created, IInv, TypeOK, Alert, AlertStatus
  <2> QED
    BY <1>2, <2>1, UpdatedTyped DEF IInv, Created
<1>3. ASSUME NEW a \in AlertId \ Created, \A c \in AlertId \ {a} : alerts'[c] = alerts[c]
      PROVE  alerts'[b] = alerts[b]
  BY <1>3 DEF Created
<1> QED
  BY <1>1, <1>2, <1>3, AlertSteps DEF IInv

\* An alert advances from active to acknowledged to resolved and never back, and
\* the object a caller or a handler holds never changes once it is resolved.
THEOREM AdvanceCorrect == Spec => AlertsOnlyAdvance
<1>1. IInv /\ [Next]_vars =>
        [\A a \in Created :
           /\ alerts[a].status = "resolved" => alerts'[a] = alerts[a]
           /\ alerts[a].status = "acknowledged" => alerts'[a].status # "active"]_vars
  BY AdvanceStep
<1> QED
  BY <1>1, Invariance, PTL DEF Spec, AlertsOnlyAdvance
-----------------------------------------------------------------------------
(***************************************************************************)
(* AlertManager implements AlertBoard.                                     *)
(***************************************************************************)
stage == [a \in AlertId |-> StageOf(a)]
quietUntil == [k \in Key |-> QuietUntil(k)]

\* An alert whose record is not touched and that is live as before keeps its stage.
LEMMA StageSame ==
  ASSUME NEW a \in AlertId, alerts'[a].status = alerts[a].status, a \in Live <=> a \in Live'
  PROVE  StageOf(a)' = StageOf(a)
  BY DEF StageOf

LEMMA InstallStep ==
  ASSUME IInv, NEW n \in Name, NEW r \in Rule \cup {NoRule},
         rules' = [rules EXCEPT ![n] = r], alerts' = alerts,
         active' = [k \in Key |-> IF k[1] = n THEN NoAlert ELSE active[k]],
         lastTriggered' = [k \in Key |-> IF k[1] = n THEN Never ELSE lastTriggered[k]]
  PROVE  Board!Install(n, r)
<1>1. ASSUME NEW a \in AlertId
      PROVE  stage'[a] = IF \E s \in Series : active[<<n, s>>] = a THEN "dropped" ELSE stage[a]
  <2>1. CASE \E s \in Series : active[<<n, s>>] = a
    <3>1. PICK s \in Series : active[<<n, s>>] = a /\ <<n, s>> \in Key /\ a # NoAlert
      BY <2>1 DEF Key, AlertId, NoAlert
    <3>2. a \in Created /\ alerts[a].status \in {"active", "acknowledged"}
      BY <3>1, LiveCreated DEF IInv, LiveAlertsOfCurrentRules, Alert, AlertStatus
    <3>3. a \notin Live'
      BY <3>1, LiveUnique DEF IInv, Live
    <3> QED
      BY <2>1, <3>2, <3>3 DEF stage, StageOf
  <2>2. CASE ~ \E s \in Series : active[<<n, s>>] = a
    <3>1. a \in Live <=> a \in Live'
      BY <2>2 DEF Live, Key, AlertId, NoAlert
    <3> QED
      BY <2>2, <3>1, StageSame DEF stage
  <2> QED
    BY <2>1, <2>2
<1>2. quietUntil' = [k \in Key |-> IF k[1] = n THEN 0 ELSE quietUntil[k]]
  BY DEF quietUntil, QuietUntil, IInv, TypeOK, Key
<1>3. stage' = [a \in AlertId |-> IF \E s \in Series : active[<<n, s>>] = a THEN "dropped"
                                  ELSE stage[a]]
  BY <1>1 DEF stage
<1> QED
  BY <1>2, <1>3 DEF Board!Install, Board!Key, Key, stage, quietUntil

LEMMA RaiseStep ==
  ASSUME IInv, NEW t \in Thread, NEW s \in Series, NEW a \in AlertId, Trigger(t, s, a)
  PROVE  Board!Raise(KeyAt(t, s), a, eval[t].now)
<1> DEFINE K == KeyAt(t, s)
           now == eval[t].now
           new == AlertOf(eval[t].rule, s, "active", now, now)
<1>1. /\ Applying(t, s) /\ rules[eval[t].rule.name] = eval[t].rule
      /\ a \notin Created
      /\ active[K] = NoAlert
      /\ alerts' = [alerts EXCEPT ![a] = new]
      /\ active' = [active EXCEPT ![K] = a]
      /\ lastTriggered' = [lastTriggered EXCEPT ![K] = now]
      /\ rules' = rules
      /\ CooldownOver(t, s)
  BY DEF Trigger, IsCurrent, IsFresh, config
<1>2. /\ eval[t].rule \in Rule /\ now \in Time /\ K \in Key
      /\ K = <<eval[t].rule.name, s>> /\ K[1] = eval[t].rule.name /\ K[2] = s
  BY <1>1, ApplyingFacts DEF KeyAt, IInv
<1>3. s \in rules[K[1]].labels
  BY <1>1, <1>2 DEF Applying, IInv, SelectedByRule
<1>4. now >= quietUntil[K]
  BY <1>1, <1>2, TimeAssumption DEF quietUntil, QuietUntil, CooldownOver, CooldownEnd
<1>5. stage[a] = "unborn" /\ a # NoAlert
  BY <1>1 DEF stage, StageOf, Created, Unborn, AlertId, NoAlert
<1>6. a \in Live' /\ \A b \in AlertId \ {a} : b \in Live <=> b \in Live'
  <2>1. active'[K] = a
    BY <1>1, <1>2 DEF IInv, TypeOK
  <2>2. \A k \in Key \ {K} : active'[k] = active[k]
    BY <1>1 DEF IInv, TypeOK
  <2> QED
    BY <1>1, <1>2, <2>1, <2>2 DEF Live, AlertId, NoAlert
<1>7. stage' = [stage EXCEPT ![a] = "active"]
  <2>1. stage'[a] = "active"
    BY <1>1, <1>6 DEF stage, StageOf, IInv, TypeOK, AlertOf
  <2>2. ASSUME NEW b \in AlertId \ {a} PROVE stage'[b] = stage[b]
    BY <1>1, <1>6, StageSame DEF stage, IInv, TypeOK
  <2> QED
    BY <2>1, <2>2 DEF stage
<1>8. quietUntil' = [quietUntil EXCEPT ![K] = now + rules[K[1]].cooldown]
  <2>1. lastTriggered'[K] = now /\ now # Never
    BY <1>1, <1>2, TimeAssumption DEF IInv, TypeOK, Never
  <2>2. ASSUME NEW k \in Key, k # K PROVE lastTriggered'[k] = lastTriggered[k]
    BY <1>1, <2>2 DEF IInv, TypeOK
  <2>3. ASSUME NEW k \in Key, k = K PROVE QuietUntil(k)' = now + rules[K[1]].cooldown
    BY <1>1, <2>1, <2>3 DEF QuietUntil
  <2>4. ASSUME NEW k \in Key, k # K PROVE QuietUntil(k)' = QuietUntil(k)
    BY <1>1, <2>2, <2>4 DEF QuietUntil
  <2> QED
    BY <1>2, <2>3, <2>4 DEF quietUntil
<1>9. rules[K[1]] # NoRule
  BY <1>1, <1>2, RuleAssumption
<1> QED
  BY <1>1, <1>2, <1>3, <1>4, <1>5, <1>7, <1>8, <1>9 DEF Board!Raise, stage, quietUntil

LEMMA ResolveStep ==
  ASSUME IInv, NEW K \in Key, active[K] # NoAlert, NEW now \in Time,
         alerts' = Updated(active[K], "resolved", now),
         active' = [active EXCEPT ![K] = NoAlert],
         UNCHANGED <<rules, lastTriggered>>
  PROVE  Board!Resolve(K)
<1> DEFINE a == active[K]
<1>1. a \in Created /\ a \in AlertId
  BY LiveCreated DEF IInv, Created
<1>2. /\ alerts'[a].status = "resolved"
      /\ \A b \in AlertId \ {a} : alerts'[b] = alerts[b]
  BY <1>1, UpdatedTyped DEF AlertStatus, IInv
<1>3. \A b \in AlertId \ {a} : b \in Live <=> b \in Live'
  BY DEF Live, IInv, TypeOK, AlertId, NoAlert
<1>4. stage' = [stage EXCEPT ![a] = "resolved"]
  <2>1. stage'[a] = "resolved"
    BY <1>1, <1>2 DEF stage, StageOf
  <2>2. ASSUME NEW b \in AlertId \ {a} PROVE stage'[b] = stage[b]
    BY <1>2, <1>3, StageSame DEF stage
  <2> QED
    BY <2>1, <2>2 DEF stage
<1>5. quietUntil' = quietUntil
  BY DEF quietUntil, QuietUntil
<1> QED
  BY <1>4, <1>5 DEF Board!Resolve, stage, quietUntil

LEMMA UpdateStep ==
  ASSUME IInv, NEW K \in Key, active[K] # NoAlert, NEW now \in Time,
         NEW status \in {"active", "acknowledged"},
         alerts' = Updated(active[K], status, now), UNCHANGED <<rules, active, lastTriggered>>
  PROVE  stage' = [stage EXCEPT ![active[K]] = status] /\ quietUntil' = quietUntil
<1> DEFINE a == active[K]
<1>1. a \in Created /\ a \in AlertId /\ a \in Live /\ Live' = Live
  BY LiveCreated DEF IInv, Created, Live
<1>2. /\ alerts'[a].status = status
      /\ \A b \in AlertId \ {a} : alerts'[b] = alerts[b]
  BY <1>1, UpdatedTyped DEF AlertStatus, IInv
<1>3. stage'[a] = status
  BY <1>1, <1>2 DEF stage, StageOf
<1>4. ASSUME NEW b \in AlertId \ {a} PROVE stage'[b] = stage[b]
  BY <1>1, <1>2, StageSame DEF stage
<1>5. quietUntil' = quietUntil
  BY DEF quietUntil, QuietUntil
<1> QED
  BY <1>3, <1>4, <1>5 DEF stage

LEMMA BoardStep == IInv /\ [Next]_vars => [Board!Next]_(Board!board)
<1> SUFFICES ASSUME IInv, [Next]_vars PROVE [Board!Next]_(Board!board)
  OBVIOUS
<1> USE DEF Board!Key, Key
<1>1. CASE Quiet
  BY <1>1 DEF Quiet, Board!board, StageOf, Live, QuietUntil
<1>2. ASSUME NEW r \in Rule, AddRule(r) PROVE Board!Install(r.name, r)
  <2>1. r.name \in Name
    BY RuleAssumption DEF RuleType
  <2>2. ASSUME NEW k \in Key, k[1] = r.name PROVE active[k] = NoAlert /\ lastTriggered[k] = Never
    BY <1>2, <2>2, LiveCreated, RuleAssumption DEF AddRule, IInv, LiveAlertsOfCurrentRules, Alert
  <2>3. /\ active' = [k \in Key |-> IF k[1] = r.name THEN NoAlert ELSE active[k]]
        /\ lastTriggered' = [k \in Key |-> IF k[1] = r.name THEN Never ELSE lastTriggered[k]]
    BY <1>2, <2>2 DEF AddRule, store, IInv, TypeOK
  <2> QED
    BY <1>2, <2>1, <2>3, InstallStep DEF AddRule, store
<1>3. ASSUME NEW r \in Rule, ReplaceRule(r) PROVE Board!Install(r.name, r) /\ r.name \in Name
  <2>1. r.name \in Name
    BY RuleAssumption DEF RuleType
  <2> QED
    BY <1>3, <2>1, InstallStep DEF ReplaceRule, DiscardRuleState
<1>4. ASSUME NEW n \in Name, RemoveRule(n) PROVE Board!Install(n, NoRule)
  BY <1>4, InstallStep DEF RemoveRule, DiscardRuleState
<1>5. ASSUME NEW t \in Thread, NEW s \in Series, UpdateActive(t, s)
      PROVE  UNCHANGED Board!board
  <2> DEFINE K == KeyAt(t, s)
             a == active[K]
  <2>1. Applying(t, s) /\ a # NoAlert /\ K \in Key /\ eval[t].now \in Time
    BY <1>5, ApplyingFacts DEF UpdateActive, IInv
  <2>2. /\ a \in AlertId /\ alerts[a].status \in {"active", "acknowledged"}
        /\ stage[a] = alerts[a].status
    BY <2>1, LiveCreated
    DEF IInv, LiveAlertsOfCurrentRules, Alert, AlertStatus, stage, StageOf, Created, Live
  <2>3. /\ alerts' = Updated(a, alerts[a].status, eval[t].now)
        /\ UNCHANGED <<rules, active, lastTriggered>>
    BY <1>5 DEF UpdateActive, config
  <2>4. stage' = [stage EXCEPT ![a] = alerts[a].status] /\ quietUntil' = quietUntil
    BY <2>1, <2>2, <2>3, UpdateStep
  <2>5. stage' = stage
    BY <2>2, <2>4 DEF stage
  <2> QED
    BY <2>3, <2>4, <2>5 DEF Board!board, stage, quietUntil
<1>6. ASSUME NEW t \in Thread, NEW s \in Series, NEW a \in AlertId, Trigger(t, s, a)
      PROVE  Board!Next
  <2>1. KeyAt(t, s) \in Key /\ eval[t].now \in Time
    BY <1>6, ApplyingFacts DEF Trigger, IInv
  <2> QED
    BY <1>6, <2>1, RaiseStep DEF Board!Next
<1>7. ASSUME NEW t \in Thread, NEW s \in Series, AutoResolve(t, s) PROVE Board!Next
  <2>1. /\ KeyAt(t, s) \in Key /\ eval[t].now \in Time
        /\ active[KeyAt(t, s)] # NoAlert
    BY <1>7, ApplyingFacts DEF AutoResolve, IInv
  <2>2. Board!Resolve(KeyAt(t, s))
    BY <1>7, <2>1, ResolveStep DEF AutoResolve, config
  <2> QED
    BY <2>1, <2>2 DEF Board!Next
<1>8. ASSUME NEW a \in AlertId, Acknowledge(a) PROVE Board!Next
  <2>1. PICK K \in Key : active[K] = a /\ a # NoAlert
    BY <1>8 DEF Acknowledge, Live, AlertId, NoAlert
  <2>2. alerts[a].observedAt \in Time
    BY <2>1, LiveCreated DEF IInv, Alert
  <2>3. stage' = [stage EXCEPT ![a] = "acknowledged"] /\ quietUntil' = quietUntil
    BY <1>8, <2>1, <2>2, UpdateStep DEF Acknowledge, config
  <2>4. Board!Acknowledge(K)
    BY <1>8, <2>1, <2>3 DEF Acknowledge, config, Board!Acknowledge, stage, quietUntil
  <2> QED
    BY <2>4 DEF Board!Next
<1>9. ASSUME NEW a \in AlertId, Resolve(a) PROVE Board!Next
  <2>1. PICK K \in Key : active[K] = a /\ a # NoAlert
    BY <1>9 DEF Resolve, Live, AlertId, NoAlert
  <2>2. active' = [active EXCEPT ![K] = NoAlert]
    BY <1>9, <2>1, LiveUnique DEF Resolve, IInv, TypeOK
  <2>3. Board!Resolve(K)
    BY <1>9, <2>1, <2>2, ResolveStep DEF Resolve, config
  <2> QED
    BY <2>3 DEF Board!Next
<1> QED
  BY <1>1, <1>2, <1>3, <1>4, <1>5, <1>6, <1>7, <1>8, <1>9, StepCases, RuleAssumption
  DEF Board!Next, RuleType

\* The manager, with its passes, old copies of rules and lock sections, implements the
\* atomic board.
THEOREM Refinement == Spec => ImplementsBoard
<1>1. Init => Board!Init
  BY DEF Init, Board!Init, Board!Key, Key, StageOf, Unborn, QuietUntil
<1>2. IInv /\ [Next]_vars => [Board!Next]_(Board!board)
  BY BoardStep
<1> QED
  BY <1>1, <1>2, Invariance, PTL DEF Spec, ImplementsBoard, Board!Spec

=============================================================================
