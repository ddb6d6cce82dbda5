---------------------------- MODULE AlertManager ----------------------------
(***************************************************************************)
(* The alert manager of samsarix_analytics.monitoring.alerting: threads    *)
(* that call evaluate(), which takes the manager's lock once per sample    *)
(* and calls the handlers with no lock held, against threads that add and  *)
(* remove rules, acknowledge, resolve and add handlers.                    *)
(*                                                                         *)
(* An evaluation is a sequence of steps, because other threads run between *)
(* its lock sections: it copies the rules, reads the samples of one rule   *)
(* from the registry, applies them one by one, and at the end notifies the *)
(* handlers of what it triggered and resolved.  Every other operation is   *)
(* one lock section, hence one action.                                     *)
(*                                                                         *)
(* A rule is an object: two rules with the same fields are told apart by   *)
(* their identity (field id), as "is" does in the code.  A series is the   *)
(* rank of its label set in the order a query returns.  The registry is    *)
(* seen through what a query returns: the application may record any value *)
(* between two queries, so each query returns any value for each series of *)
(* its metric.                                                             *)
(***************************************************************************)
EXTENDS Integers, Sequences, FiniteSets

CONSTANTS
  Thread,       \* threads that call evaluate()
  Name,         \* rule names
  Rule,         \* rule objects
  NoRule,       \* what the rule table holds for a name with no rule
  MetricSeries, \* registered metrics, each with the set of its series
  Series,       \* ranks of all label sets
  Value,        \* values a sample may have
  Time,         \* instants an evaluation may be given or read from the clock
  MaxDatetime,  \* last instant a datetime can hold
  MaxRules,     \* the manager's max_rules
  MaxHistory,   \* the manager's max_history
  MaxHandlers,  \* the manager's max_handlers
  MaxAlerts     \* bound: alerts created in a behaviour

RuleType ==
  [id : Nat, name : Name, metric : STRING, operator : {">", ">=", "<", "<=", "=="},
   threshold : Int, labels : SUBSET Series, cooldown : Nat, autoResolve : BOOLEAN]

ASSUME RuleAssumption    == Rule \subseteq RuleType /\ NoRule \notin Rule
ASSUME SeriesAssumption  == Series \subseteq Nat /\ \A m \in DOMAIN MetricSeries :
                                                     MetricSeries[m] \subseteq Series
ASSUME ValueAssumption   == Value \subseteq Int
ASSUME TimeAssumption    == Time \subseteq Nat
ASSUME LimitsAssumption  == {MaxRules, MaxHistory, MaxHandlers} \subseteq Nat \ {0}
ASSUME MaxAlertsAssumption == MaxAlerts \in Nat

Key     == Name \X Series          \* (rule name, label set)
AlertId == 1 .. MaxAlerts
NoAlert == 0
Never   == -1
Handler == 1 .. MaxHandlers        \* a handler is its position in the list
Notice  == AlertId \X {"triggered", "resolved"}

AlertStatus == {"active", "acknowledged", "resolved"}
Alert == [rule : Rule, series : Series, status : AlertStatus,
          triggeredAt : Time, observedAt : Time]
Unborn == [status |-> "unborn"]    \* what an id stands for until a trigger takes it

VARIABLES
  rules,          \* _rules
  active,         \* _active: the alert that is live for a key
  lastTriggered,  \* _last_triggered
  history,        \* _history, a deque of at most MaxHistory alerts
  alerts,         \* every Alert object created so far, by id; others are Unborn
  handlers,       \* length of _handlers
  eval,           \* what each thread's running evaluate() holds
  received        \* observed: how often a handler was called for a notice

config == <<rules, handlers>>
store  == <<active, lastTriggered, history, alerts>>
vars   == <<config, store, eval, received>>

Range(seq) == {seq[i] : i \in 1 .. Len(seq)}

Created == {a \in AlertId : alerts[a] # Unborn}

KeyOf(a) == <<alerts[a].rule.name, alerts[a].series>>

(***************************************************************************)
(* Comparison.matches and the label filter of a rule.                      *)
(***************************************************************************)
Matches(rule, value) ==
  CASE rule.operator = ">"  -> value > rule.threshold
    [] rule.operator = ">=" -> value >= rule.threshold
    [] rule.operator = "<"  -> value < rule.threshold
    [] rule.operator = "<=" -> value <= rule.threshold
    [] OTHER                -> value = rule.threshold

Selected(rule) == MetricSeries[rule.metric] \cap rule.labels

(***************************************************************************)
(* What a thread holds.  Between two rules: the instant it evaluates at,   *)
(* the rules it has not visited and the alerts it triggered and resolved.  *)
(* Visiting a rule also: the samples still to apply (left) and those of    *)
(* them that satisfy the condition (hot).  Notifying: the notices left,    *)
(* the number of handlers it copied and the next one to call.              *)
(***************************************************************************)
Stopped   == [pc : {"idle", "raised"}]
Between   == [pc : {"rules"}, now : Time, todo : SUBSET Rule,
              triggered : Seq(AlertId), resolved : Seq(AlertId)]
Visiting  == [pc : {"samples"}, now : Time, todo : SUBSET Rule,
              triggered : Seq(AlertId), resolved : Seq(AlertId),
              rule : Rule, left : SUBSET Series, hot : SUBSET Series]
Notifying == [pc : {"notify"}, notices : Seq(Notice),
              copied : 0 .. MaxHandlers, next : 0 .. MaxHandlers]

Idle   == [pc |-> "idle"]
Raised == [pc |-> "raised"]

NextRule(e, todo, triggered, resolved) ==
  [pc |-> "rules", now |-> e.now, todo |-> todo, triggered |-> triggered, resolved |-> resolved]

Visit(e, todo, triggered, resolved, rule, left, hot) ==
  [pc |-> "samples", now |-> e.now, todo |-> todo, triggered |-> triggered,
   resolved |-> resolved, rule |-> rule, left |-> left, hot |-> hot]

Notify(notices, copied, next) ==
  [pc |-> "notify", notices |-> notices, copied |-> copied, next |-> next]

Running == {t \in Thread : eval[t].pc \notin {"idle", "raised"}}

Init ==
  /\ rules = [n \in Name |-> NoRule]
  /\ active = [k \in Key |-> NoAlert]
  /\ lastTriggered = [k \in Key |-> Never]
  /\ history = <<>>
  /\ alerts = [a \in AlertId |-> Unborn]
  /\ handlers = 0
  /\ eval = [t \in Thread |-> Idle]
  /\ received = [h \in Handler |-> [n \in Notice |-> 0]]

-----------------------------------------------------------------------------
(***************************************************************************)
(* Rules and handlers.                                                     *)
(***************************************************************************)
Registered == {n \in Name : rules[n] # NoRule}

\* _discard_rule_state: the state retained for a name goes with its rule.
DiscardRuleState(n) ==
  /\ active' = [k \in Key |-> IF k[1] = n THEN NoAlert ELSE active[k]]
  /\ lastTriggered' = [k \in Key |-> IF k[1] = n THEN Never ELSE lastTriggered[k]]

\* add_rule of a new name; at the limit the call raises and changes nothing.
AddRule(r) ==
  /\ rules[r.name] = NoRule
  /\ Cardinality(Registered) < MaxRules
  /\ rules' = [rules EXCEPT ![r.name] = r]
  /\ UNCHANGED <<store, handlers, eval, received>>

\* add_rule(replace=True) of a name in use, with another object or the same.
ReplaceRule(r) ==
  /\ rules[r.name] # NoRule
  /\ rules' = [rules EXCEPT ![r.name] = r]
  /\ DiscardRuleState(r.name)
  /\ UNCHANGED <<history, alerts, handlers, eval, received>>

RemoveRule(n) ==
  /\ rules[n] # NoRule
  /\ rules' = [rules EXCEPT ![n] = NoRule]
  /\ DiscardRuleState(n)
  /\ UNCHANGED <<history, alerts, handlers, eval, received>>

\* Variant: the limit is compared after the append.
AddHandlerLate ==
  /\ handlers <= MaxHandlers
  /\ handlers' = handlers + 1
  /\ UNCHANGED <<rules, store, eval, received>>

AddHandler ==
  /\ handlers < MaxHandlers
  /\ handlers' = handlers + 1
  /\ UNCHANGED <<rules, store, eval, received>>

-----------------------------------------------------------------------------
(***************************************************************************)
(* evaluate(): the copy of the rules, and the query of one of them.  The   *)
(* rules are visited in any order (the code's is that of insertion).       *)
(***************************************************************************)

\* The rule and sample pairs that running passes may still raise an alert for, and
\* those of a pass that starts now.
Pending ==
  {p \in Running \X Rule \X Series :
     LET e == eval[p[1]] IN
     \/ e.pc \in {"rules", "samples"} /\ p[2] \in e.todo /\ p[2].metric \in DOMAIN MetricSeries
     \/ e.pc = "samples" /\ p[2] = e.rule /\ p[3] \in e.left}
Starting == {n \in Registered : rules[n].metric \in DOMAIN MetricSeries} \X Series

\* Bound: a pass starts when MaxAlerts leaves room for what all passes may raise.
Room == Cardinality(Created) + Cardinality(Pending) + Cardinality(Starting) <= MaxAlerts

EvaluateBegin(t) ==
  /\ t \notin Running
  /\ Room
  /\ \E now \in Time :
       eval' = [eval EXCEPT ![t] = [pc |-> "rules", now |-> now, triggered |-> <<>>,
                                    resolved |-> <<>>, todo |-> {rules[n] : n \in Registered}]]
  /\ UNCHANGED <<config, store, received>>

\* Variant: an error ends the pass.
QueryFailsForAll(t, r) ==
  /\ eval[t].pc = "rules" /\ r \in eval[t].todo
  /\ r.metric \notin DOMAIN MetricSeries
  /\ eval' = [eval EXCEPT ![t] = Idle]
  /\ UNCHANGED <<config, store, received>>

\* registry.query raises MetricError: the rule goes to the errors of the result.
QueryFails(t, r) ==
  /\ eval[t].pc = "rules" /\ r \in eval[t].todo
  /\ r.metric \notin DOMAIN MetricSeries
  /\ eval' = [eval EXCEPT ![t] = NextRule(@, @.todo \ {r}, @.triggered, @.resolved)]
  /\ UNCHANGED <<config, store, received>>

Query(t, r) ==
  /\ eval[t].pc = "rules" /\ r \in eval[t].todo
  /\ r.metric \in DOMAIN MetricSeries
  /\ \E sample \in [Selected(r) -> Value] :
       eval' = [eval EXCEPT ![t] =
                  LET todo == @.todo \ {r} IN
                  IF Selected(r) = {} THEN NextRule(@, todo, @.triggered, @.resolved)
                  ELSE Visit(@, todo, @.triggered, @.resolved, r, Selected(r),
                             {s \in Selected(r) : Matches(r, sample[s])})]
  /\ UNCHANGED <<config, store, received>>

(***************************************************************************)
(* One lock section of the sample loop, by the branch it takes.  Samples   *)
(* come in the order of their label sets.                                  *)
(***************************************************************************)
Applying(t, s) ==
  /\ eval[t].pc = "samples"
  /\ s \in eval[t].left
  /\ \A u \in eval[t].left : s <= u

\* Variant: the rule is looked up by its name only.
IsCurrentByName(t) == rules[eval[t].rule.name] # NoRule

IsCurrent(t) == rules[eval[t].rule.name] = eval[t].rule
KeyAt(t, s)  == <<eval[t].rule.name, s>>

\* The thread is done with sample s.
Past(e, s, triggered, resolved) ==
  IF e.left = {s} THEN NextRule(e, e.todo, triggered, resolved)
  ELSE Visit(e, e.todo, triggered, resolved, e.rule, e.left \ {s}, e.hot \ {s})

Skip(t, s) == eval' = [eval EXCEPT ![t] = Past(@, s, @.triggered, @.resolved)]

AlertOf(rule, series, status, triggeredAt, observedAt) ==
  [rule |-> rule, series |-> series, status |-> status,
   triggeredAt |-> triggeredAt, observedAt |-> observedAt]

\* alerts with the status and the time of observation of alert a set.
Updated(a, status, now) ==
  [alerts EXCEPT ![a] = AlertOf(@.rule, @.series, status, @.triggeredAt, now)]

\* The rule was replaced or removed since the copy: its other samples are dropped.
StaleRule(t, s) ==
  /\ Applying(t, s) /\ ~IsCurrent(t)
  /\ eval' = [eval EXCEPT ![t] = NextRule(@, @.todo, @.triggered, @.resolved)]
  /\ UNCHANGED <<config, store, received>>

UpdateActive(t, s) ==
  /\ Applying(t, s) /\ IsCurrent(t)
  /\ s \in eval[t].hot
  /\ active[KeyAt(t, s)] # NoAlert
  /\ LET a == active[KeyAt(t, s)] IN alerts' = Updated(a, alerts[a].status, eval[t].now)
  /\ Skip(t, s)
  /\ UNCHANGED <<config, active, lastTriggered, history, received>>

\* The condition holds, no alert is live, and the key has been triggered before.
Retriggering(t, s) ==
  /\ Applying(t, s) /\ IsCurrent(t)
  /\ s \in eval[t].hot
  /\ active[KeyAt(t, s)] = NoAlert
  /\ lastTriggered[KeyAt(t, s)] # Never

CooldownEnd(t, s) == lastTriggered[KeyAt(t, s)] + eval[t].rule.cooldown

CoolingDown(t, s) ==
  /\ Retriggering(t, s)
  /\ CooldownEnd(t, s) <= MaxDatetime
  /\ eval[t].now < CooldownEnd(t, s)
  /\ Skip(t, s)
  /\ UNCHANGED <<config, store, received>>

\* timedelta() or the addition raises OverflowError, which leaves evaluate()
\* with what the pass triggered and resolved before.
CooldownOverflow(t, s) ==
  /\ Retriggering(t, s)
  /\ CooldownEnd(t, s) > MaxDatetime
  /\ eval' = [eval EXCEPT ![t] = Raised]
  /\ UNCHANGED <<config, store, received>>

\* Variant: the cooldown is not added.
CooldownForgotten(t, s) ==
  lastTriggered[KeyAt(t, s)] = Never \/ eval[t].now >= lastTriggered[KeyAt(t, s)]

CooldownOver(t, s) ==
  \/ lastTriggered[KeyAt(t, s)] = Never
  \/ CooldownEnd(t, s) <= MaxDatetime /\ eval[t].now >= CooldownEnd(t, s)

\* The id is a fresh one (uuid4); the least serves as well as any.
IsFresh(a) == a \notin Created /\ \A b \in AlertId \ Created : a <= b

Trigger(t, s, a) ==
  /\ Applying(t, s) /\ IsCurrent(t)
  /\ s \in eval[t].hot
  /\ active[KeyAt(t, s)] = NoAlert
  /\ CooldownOver(t, s)
  /\ IsFresh(a)
  /\ alerts' = [alerts EXCEPT ![a] =
                  AlertOf(eval[t].rule, s, "active", eval[t].now, eval[t].now)]
  /\ active' = [active EXCEPT ![KeyAt(t, s)] = a]
  /\ lastTriggered' = [lastTriggered EXCEPT ![KeyAt(t, s)] = eval[t].now]
  /\ eval' = [eval EXCEPT ![t] = Past(@, s, Append(@.triggered, a), @.resolved)]
  /\ UNCHANGED <<config, history, received>>

\* Variant: a deque without maxlen.
ArchiveUnbounded(a) == history' = Append(history, a)

\* deque.append with maxlen: the oldest alert makes room.
Archive(a) ==
  history' = Append(IF Len(history) < MaxHistory THEN history ELSE Tail(history), a)

AutoResolve(t, s) ==
  /\ Applying(t, s) /\ IsCurrent(t)
  /\ s \notin eval[t].hot
  /\ active[KeyAt(t, s)] # NoAlert
  /\ eval[t].rule.autoResolve
  /\ LET a == active[KeyAt(t, s)] IN
       /\ alerts' = Updated(a, "resolved", eval[t].now)
       /\ active' = [active EXCEPT ![KeyAt(t, s)] = NoAlert]
       /\ Archive(a)
       /\ eval' = [eval EXCEPT ![t] = Past(@, s, @.triggered, Append(@.resolved, a))]
  /\ UNCHANGED <<config, lastTriggered, received>>

\* The condition does not hold, and there is nothing to resolve or it is left to a person.
NothingToDo(t, s) ==
  /\ Applying(t, s) /\ IsCurrent(t)
  /\ s \notin eval[t].hot
  /\ active[KeyAt(t, s)] = NoAlert \/ ~eval[t].rule.autoResolve
  /\ Skip(t, s)
  /\ UNCHANGED <<config, store, received>>

-----------------------------------------------------------------------------
(***************************************************************************)
(* _notify: the handlers are copied under the lock and called without it,  *)
(* each for every alert triggered and then for every alert resolved.  An   *)
(* exception of a handler is logged, so a call counts however it ends.     *)
(***************************************************************************)
\* Variant: every event is passed on as a trigger.
NoticesUntagged(t) ==
  LET ids == eval[t].triggered \o eval[t].resolved
  IN  [i \in 1 .. Len(ids) |-> <<ids[i], "triggered">>]

Notices(t) ==
  LET tagged(ids, kind) == [i \in 1 .. Len(ids) |-> <<ids[i], kind>>]
  IN  tagged(eval[t].triggered, "triggered") \o tagged(eval[t].resolved, "resolved")

NotifyBegin(t) ==
  /\ eval[t].pc = "rules" /\ eval[t].todo = {}
  /\ eval' = [eval EXCEPT ![t] =
                IF handlers = 0 \/ Notices(t) = <<>> THEN Idle
                ELSE Notify(Notices(t), handlers, 1)]
  /\ UNCHANGED <<config, store, received>>

CallHandler(t) ==
  LET e == eval[t] IN
  /\ e.pc = "notify"
  /\ received' = [received EXCEPT ![e.next][Head(e.notices)] = @ + 1]
  /\ eval' = [eval EXCEPT ![t] =
                IF e.next < e.copied THEN Notify(e.notices, e.copied, e.next + 1)
                ELSE IF Len(e.notices) > 1 THEN Notify(Tail(e.notices), e.copied, 1)
                ELSE Idle]
  /\ UNCHANGED <<config, store>>

-----------------------------------------------------------------------------
(***************************************************************************)
(* acknowledge() and resolve() look the id up among the live alerts.       *)
(***************************************************************************)
\* Variant: the id is looked up among all alerts.
LiveOrArchived == Created

Live == {a \in AlertId : \E k \in Key : active[k] = a}

Acknowledge(a) ==
  /\ a \in Live
  /\ alerts' = Updated(a, "acknowledged", alerts[a].observedAt)
  /\ UNCHANGED <<config, active, lastTriggered, history, eval, received>>

Resolve(a) ==
  /\ a \in Live
  /\ \E now \in Time : alerts' = Updated(a, "resolved", now)
  /\ active' = [k \in Key |-> IF active[k] = a THEN NoAlert ELSE active[k]]
  /\ Archive(a)
  /\ UNCHANGED <<config, lastTriggered, eval, received>>

-----------------------------------------------------------------------------
Sample(t) ==
  \E s \in Series :
    \/ StaleRule(t, s)
    \/ UpdateActive(t, s)
    \/ CoolingDown(t, s)
    \/ CooldownOverflow(t, s)
    \/ \E a \in AlertId : Trigger(t, s, a)
    \/ AutoResolve(t, s)
    \/ NothingToDo(t, s)

\* The steps that carry a running evaluation on.
Proceed(t) ==
  \/ \E r \in Rule : QueryFails(t, r) \/ Query(t, r)
  \/ Sample(t)
  \/ NotifyBegin(t)
  \/ CallHandler(t)

Administer ==
  \/ \E r \in Rule : AddRule(r) \/ ReplaceRule(r)
  \/ \E n \in Name : RemoveRule(n)
  \/ AddHandler
  \/ \E a \in AlertId : Acknowledge(a) \/ Resolve(a)

Next ==
  \/ \E t \in Thread : EvaluateBegin(t) \/ Proceed(t)
  \/ Administer

Spec == Init /\ [][Next]_vars

\* A thread inside evaluate() is scheduled and its handlers return; nobody
\* has to call evaluate() or administer the manager.
FairSpec == Spec /\ \A t \in Thread : WF_vars(Proceed(t))

-----------------------------------------------------------------------------
TypeOK ==
  /\ rules \in [Name -> Rule \cup {NoRule}]
  /\ active \in [Key -> AlertId \cup {NoAlert}]
  /\ lastTriggered \in [Key -> Time \cup {Never}]
  /\ history \in Seq(AlertId)
  /\ alerts \in [AlertId -> Alert \cup {Unborn}]
  /\ handlers \in 0 .. MaxHandlers
  /\ eval \in [Thread -> Stopped \cup Between \cup Visiting \cup Notifying]
  /\ received \in [Handler -> [Notice -> Nat]]

\* A live alert is an unresolved alert of its key, raised by the very rule
\* object registered now and at the instant the cooldown counts from: an
\* evaluation that still holds a replaced or removed rule leaves nothing
\* behind (evaluate's check under the lock, _discard_rule_state).
LiveAlertsOfCurrentRules ==
  \A k \in Key :
    /\ active[k] # NoAlert =>
         /\ active[k] \in Created
         /\ KeyOf(active[k]) = k
         /\ alerts[active[k]].rule = rules[k[1]]
         /\ alerts[active[k]].status # "resolved"
         /\ alerts[active[k]].triggeredAt = lastTriggered[k]
    /\ lastTriggered[k] # Never => rules[k[1]] # NoRule

\* History holds at most max_history alerts, each once, every one resolved
\* and none of them live any more.
HistoryOfResolved ==
  /\ Len(history) <= MaxHistory
  /\ \A i \in 1 .. Len(history) :
       /\ alerts[history[i]].status = "resolved"
       /\ history[i] \notin Live
       /\ \A j \in 1 .. Len(history) : history[i] = history[j] => i = j

\* Two triggers of a key under one registration are a cooldown apart, also
\* when the evaluations that raise them overlap.
CooldownSeparatesTriggers ==
  [][\A k \in Key :
       lastTriggered'[k] # lastTriggered[k] /\ Never \notin {lastTriggered[k], lastTriggered'[k]}
         => lastTriggered'[k] >= lastTriggered[k] + rules[k[1]].cooldown]_vars

\* An alert goes from active to acknowledged to resolved and never back, and
\* a resolved alert, which callers and handlers still hold, never changes.
AlertsOnlyAdvance ==
  [][\A a \in Created :
       /\ alerts[a].status = "resolved" => alerts'[a] = alerts[a]
       /\ alerts[a].status = "acknowledged" => alerts'[a].status # "active"]_vars

\* No handler is called twice for the same event, whichever threads evaluate.
NotifiedAtMostOnce ==
  \A h \in Handler, n \in Notice : received[h][n] <= 1

\* An evaluation that raised an alert, or resolved one, calls the handlers
\* that were registered by then: no event is dropped on the way, also when
\* the query of another rule fails.  This is about instances without
\* an OverflowError of a cooldown (alerting.py:277), which ends the pass and drops
\* what it has already raised and resolved: see EvaluationsReturn.
EventsReachHandlers ==
  \A a \in AlertId, t \in Thread :
    LET applying == handlers > 0 /\ eval[t].pc \in {"rules", "samples"} IN
    /\ applying /\ a \in Range(eval[t].triggered) ~> received[1][<<a, "triggered">>] = 1
    /\ applying /\ a \in Range(eval[t].resolved)  ~> received[1][<<a, "resolved">>] = 1

(***************************************************************************)
(* The manager implements the atomic board: a pass that gives up the lock  *)
(* between its samples, and works from an old copy of the rules, does no   *)
(* more than operations the board allows at that moment.                   *)
(***************************************************************************)
StageOf(a) ==
  IF alerts[a].status \in {"active", "acknowledged"} /\ a \notin Live THEN "dropped"
  ELSE alerts[a].status

QuietUntil(k) ==
  IF lastTriggered[k] = Never THEN 0 ELSE lastTriggered[k] + rules[k[1]].cooldown

Board == INSTANCE AlertBoard WITH
  current    <- rules,
  live       <- active,
  stage      <- [a \in AlertId |-> StageOf(a)],
  quietUntil <- [k \in Key |-> QuietUntil(k)]

ImplementsBoard == Board!Spec

\* Every rule that passed validation can be evaluated: a cooldown suppresses
\* a trigger, it does not end the evaluation of all rules.
EvaluationsReturn == \A t \in Thread : eval[t].pc # "raised"
=============================================================================
