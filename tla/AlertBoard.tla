----------------------------- MODULE AlertBoard -----------------------------
(***************************************************************************)
(* What the alert manager promises, with no threads, passes or handlers:   *)
(* each key (rule name, series) has at most one live alert, an alert goes  *)
(* through its stages once and forward, a key stays quiet after a trigger  *)
(* for the cooldown of its rule, and nothing of a rule outlives it.        *)
(* Every operation is atomic.  AlertManager implements this specification. *)
(***************************************************************************)
EXTENDS Integers

CONSTANTS Name, Rule, NoRule, Series, Time, AlertId, NoAlert

Key == Name \X Series

VARIABLES
  current,     \* the rule registered under a name
  live,        \* the live alert of a key
  stage,       \* how far an alert has come
  quietUntil   \* the first instant a key may trigger at

board == <<current, live, stage, quietUntil>>

Stage == {"unborn", "active", "acknowledged", "resolved", "dropped"}

Init ==
  /\ current = [n \in Name |-> NoRule]
  /\ live = [k \in Key |-> NoAlert]
  /\ stage = [a \in AlertId |-> "unborn"]
  /\ quietUntil = [k \in Key |-> 0]

\* A name gets a rule, gets another rule, or loses its rule (r is NoRule): its
\* live alerts are dropped, unresolved, and its keys may trigger at once.
Install(n, r) ==
  /\ current' = [current EXCEPT ![n] = r]
  /\ stage' = [a \in AlertId |-> IF \E s \in Series : live[<<n, s>>] = a THEN "dropped"
                                 ELSE stage[a]]
  /\ live' = [k \in Key |-> IF k[1] = n THEN NoAlert ELSE live[k]]
  /\ quietUntil' = [k \in Key |-> IF k[1] = n THEN 0 ELSE quietUntil[k]]

Raise(k, a, now) ==
  /\ current[k[1]] # NoRule
  /\ k[2] \in current[k[1]].labels
  /\ live[k] = NoAlert
  /\ now >= quietUntil[k]
  /\ stage[a] = "unborn"
  /\ live' = [live EXCEPT ![k] = a]
  /\ stage' = [stage EXCEPT ![a] = "active"]
  /\ quietUntil' = [quietUntil EXCEPT ![k] = now + current[k[1]].cooldown]
  /\ UNCHANGED current

Acknowledge(k) ==
  /\ live[k] # NoAlert
  /\ stage' = [stage EXCEPT ![live[k]] = "acknowledged"]
  /\ UNCHANGED <<current, live, quietUntil>>

Resolve(k) ==
  /\ live[k] # NoAlert
  /\ stage' = [stage EXCEPT ![live[k]] = "resolved"]
  /\ live' = [live EXCEPT ![k] = NoAlert]
  /\ UNCHANGED <<current, quietUntil>>

Next ==
  \/ \E n \in Name, r \in Rule \cup {NoRule} : Install(n, r)
  \/ \E k \in Key :
       \/ \E a \in AlertId, now \in Time : Raise(k, a, now)
       \/ Acknowledge(k)
       \/ Resolve(k)

Spec == Init /\ [][Next]_board
=============================================================================
