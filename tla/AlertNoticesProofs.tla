------------------------- MODULE AlertNoticesProofs -------------------------
(***************************************************************************)
(* No handler of AlertManager is told of an event twice, for any number of *)
(* threads, rules, series and handlers.                                    *)
(***************************************************************************)
EXTENDS AlertManagerProofs

-----------------------------------------------------------------------------
(***************************************************************************)
(* The invariant that IInv needs in addition.                              *)
(***************************************************************************)
Collecting(e) == e.pc \in {"rules", "samples"}

\* The events a pass has collected, or has not told all handlers of.
Held(e) ==
  IF Collecting(e)
  THEN {n \in Notice : n[1] \in Range(IF n[2] = "triggered" THEN e.triggered ELSE e.resolved)}
  ELSE IF e.pc = "notify" THEN Range(e.notices) ELSE {}

\* Handler h has not been called for n by this pass.
Due(e, h, n) ==
  n \in Held(e) /\ (e.pc = "notify" /\ n = Head(e.notices) => h >= e.next)

Unrepeated(seq) == \A i, j \in 1 .. Len(seq) : seq[i] = seq[j] => i = j

Distinct(e) ==
  /\ Collecting(e) => Unrepeated(e.triggered) /\ Unrepeated(e.resolved)
  /\ e.pc = "notify" => e.notices # <<>> /\ Unrepeated(e.notices)

\* What a notice is about: an alert that was raised, or one that was resolved.
Happened(n) ==
  n[1] \in Created /\ (n[2] = "resolved" => alerts[n[1]].status = "resolved")

HeldByOne ==
  /\ \A t \in Thread : Distinct(eval[t])
  /\ \A t \in Thread, n \in Notice : n \in Held(eval[t]) => Happened(n)
  /\ \A t, u \in Thread, n \in Notice : n \in Held(eval[t]) /\ n \in Held(eval[u]) => t = u

ToldOnce ==
  /\ \A h \in Handler, n \in Notice :
       received[h][n] \in {0, 1} /\ (received[h][n] = 1 => Happened(n))
  /\ \A t \in Thread, h \in Handler, n \in Notice :
       Due(eval[t], h, n) => received[h][n] = 0

NoticesOnce == HeldByOne /\ ToldOnce

-----------------------------------------------------------------------------
(***************************************************************************)
(* Sequences without repetition.                                           *)
(***************************************************************************)
LEMMA AppendUnrepeated ==
  ASSUME NEW S, NEW seq \in Seq(S), Unrepeated(seq), NEW a \in S, a \notin Range(seq)
  PROVE  Unrepeated(Append(seq, a)) /\ Range(Append(seq, a)) = Range(seq) \cup {a}
<1>1. /\ Len(Append(seq, a)) = Len(seq) + 1 /\ Len(seq) \in Nat
      /\ \A i \in 1 .. Len(seq) : Append(seq, a)[i] = seq[i] /\ seq[i] # a
      /\ Append(seq, a)[Len(seq) + 1] = a
  BY DEF Range
<1>2. Unrepeated(Append(seq, a))
  BY <1>1 DEF Unrepeated
<1>3. Range(Append(seq, a)) = Range(seq) \cup {a}
  BY <1>1 DEF Range
<1> QED
  BY <1>2, <1>3

LEMMA TailUnrepeated ==
  ASSUME NEW S, NEW seq \in Seq(S), seq # <<>>, Unrepeated(seq)
  PROVE  Unrepeated(Tail(seq)) /\ Range(Tail(seq)) = Range(seq) \ {Head(seq)}
<1>1. /\ Len(Tail(seq)) = Len(seq) - 1 /\ Len(seq) \in Nat \ {0} /\ Head(seq) = seq[1]
      /\ \A i \in 1 .. Len(Tail(seq)) : Tail(seq)[i] = seq[i + 1]
  OBVIOUS
<1>2. Unrepeated(Tail(seq))
  BY <1>1 DEF Unrepeated
<1>3. \A i \in 2 .. Len(seq) : seq[i] # seq[1] /\ seq[i] = Tail(seq)[i - 1]
  BY <1>1 DEF Unrepeated
<1>4. ASSUME NEW x PROVE x \in Range(Tail(seq)) <=> x \in Range(seq) \ {Head(seq)}
  <2>1. ASSUME NEW i \in 1 .. Len(Tail(seq)), x = Tail(seq)[i]
        PROVE  x \in Range(seq) \ {Head(seq)}
    BY <1>1, <1>3, <2>1 DEF Range
  <2>2. ASSUME NEW i \in 1 .. Len(seq), x = seq[i], x # seq[1]
        PROVE  x \in Range(Tail(seq))
    <3>1. i \in 2 .. Len(seq) /\ i - 1 \in 1 .. Len(Tail(seq))
      BY <1>1, <2>2
    <3> QED
      BY <1>3, <2>2, <3>1 DEF Range
  <2> QED
    BY <1>1, <2>1, <2>2 DEF Range
<1> QED
  BY <1>2, <1>4

LEMMA TailOfMany ==
  ASSUME NEW S, NEW seq \in Seq(S), Len(seq) > 1
  PROVE  Tail(seq) # <<>>
<1>1. Len(Tail(seq)) = Len(seq) - 1 /\ Len(seq) \in Nat
  <2>1. seq # <<>>
    OBVIOUS
  <2> QED
    BY <2>1
<1>2. \A n \in Nat : n > 1 => n - 1 # 0
  OBVIOUS
<1>3. Len(Tail(seq)) # 0
  BY <1>1, <1>2
<1>4. Len(<<>>) = 0
  OBVIOUS
<1> QED
  BY <1>3, <1>4, Zenon

LEMMA Concatenated ==
  ASSUME NEW S, NEW a \in Seq(S), NEW b \in Seq(S)
  PROVE  /\ a \o b \in Seq(S) /\ Len(a \o b) = Len(a) + Len(b)
         /\ Len(a) \in Nat /\ Len(b) \in Nat
         /\ \A i \in 1 .. Len(a) : (a \o b)[i] = a[i]
         /\ \A i \in 1 .. Len(b) : (a \o b)[Len(a) + i] = b[i]
OBVIOUS

\* The notices of a pass are what it collected, each once.
LEMMA NoticesHeld ==
  ASSUME NEW t \in Thread, eval[t] \in Between, Distinct(eval[t])
  PROVE  /\ Notices(t) \in Seq(Notice) /\ Unrepeated(Notices(t))
         /\ Range(Notices(t)) = Held(eval[t])
<1> DEFINE e == eval[t]
           tagged(ids, kind) == [i \in 1 .. Len(ids) |-> <<ids[i], kind>>]
           first == tagged(e.triggered, "triggered")
           second == tagged(e.resolved, "resolved")
<1>1. /\ e.pc = "rules" /\ e.triggered \in Seq(AlertId) /\ e.resolved \in Seq(AlertId)
      /\ Unrepeated(e.triggered) /\ Unrepeated(e.resolved)
  <2>1. eval[t].pc = "rules" /\ eval[t].triggered \in Seq(AlertId) /\ eval[t].resolved \in Seq(AlertId)
    BY DEF Between
  <2> QED
    BY <2>1 DEF Distinct, Collecting
<1>2. /\ first \in Seq(Notice) /\ Len(first) = Len(e.triggered)
      /\ \A i \in 1 .. Len(first) : first[i] = <<e.triggered[i], "triggered">>
  BY <1>1 DEF Notice
<1>3. /\ second \in Seq(Notice) /\ Len(second) = Len(e.resolved)
      /\ \A i \in 1 .. Len(second) : second[i] = <<e.resolved[i], "resolved">>
  BY <1>1 DEF Notice
<1>4. Notices(t) = first \o second
  BY DEF Notices
<1> HIDE DEF first, second, tagged, e
<1>5. /\ Notices(t) \in Seq(Notice) /\ Len(Notices(t)) = Len(first) + Len(second)
      /\ Len(first) \in Nat /\ Len(second) \in Nat
      /\ \A i \in 1 .. Len(first) : Notices(t)[i] = first[i]
      /\ \A i \in 1 .. Len(second) : Notices(t)[Len(first) + i] = second[i]
  <2>1. first \in Seq(Notice) /\ second \in Seq(Notice)
    BY <1>2, <1>3
  <2>2. /\ first \o second \in Seq(Notice)
        /\ Len(first \o second) = Len(first) + Len(second)
        /\ Len(first) \in Nat /\ Len(second) \in Nat
    BY <2>1
  <2>3. \A i \in 1 .. Len(first) : (first \o second)[i] = first[i]
    BY <2>1, Concatenated
  <2>4. \A i \in 1 .. Len(second) : (first \o second)[Len(first) + i] = second[i]
    BY <2>1, Concatenated
  <2> QED
    BY <1>4, <2>2, <2>3, <2>4, Zenon
<1>6. \A i \in 1 .. Len(Notices(t)) :
        \/ i \in 1 .. Len(first)
        \/ i - Len(first) \in 1 .. Len(second) /\ i = Len(first) + (i - Len(first))
  BY <1>5
<1>7. Unrepeated(Notices(t))
  <2> SUFFICES ASSUME NEW i \in 1 .. Len(Notices(t)), NEW j \in 1 .. Len(Notices(t)),
                      Notices(t)[i] = Notices(t)[j]
               PROVE  i = j
    BY DEF Unrepeated
  <2>1. CASE i \in 1 .. Len(first) /\ j \in 1 .. Len(first)
    BY <1>1, <1>2, <1>5, <2>1 DEF Unrepeated
  <2>2. CASE i - Len(first) \in 1 .. Len(second) /\ j - Len(first) \in 1 .. Len(second)
    <3>1. second[i - Len(first)] = second[j - Len(first)]
      BY <1>5, <1>6, <2>2
    <3>2. i - Len(first) = j - Len(first)
      BY <1>1, <1>3, <2>2, <3>1 DEF Unrepeated
    <3> QED
      BY <1>5, <3>2
  <2>3. ASSUME NEW k \in 1 .. Len(first), NEW l \in 1 .. Len(second)
        PROVE  Notices(t)[k] # Notices(t)[Len(first) + l]
    <3>1. Notices(t)[k] = <<e.triggered[k], "triggered">>
      BY <1>2, <1>5
    <3>2. Notices(t)[Len(first) + l] = <<e.resolved[l], "resolved">>
      BY <1>3, <1>5
    <3> QED
      BY <3>1, <3>2
  <2>4. CASE i \in 1 .. Len(first) /\ j - Len(first) \in 1 .. Len(second)
    <3>1. Notices(t)[j] = Notices(t)[Len(first) + (j - Len(first))]
      BY <1>5
    <3> QED
      BY <2>3, <2>4, <3>1
  <2>5. CASE j \in 1 .. Len(first) /\ i - Len(first) \in 1 .. Len(second)
    <3>1. Notices(t)[i] = Notices(t)[Len(first) + (i - Len(first))]
      BY <1>5
    <3> QED
      BY <2>3, <2>5, <3>1
  <2> QED
    BY <1>6, <2>1, <2>2, <2>4, <2>5
<1>8. ASSUME NEW n PROVE n \in Range(Notices(t)) <=> n \in Held(e)
  <2>1. ASSUME n \in Range(Notices(t)) PROVE n \in Held(e)
    <3>1. PICK i \in 1 .. Len(Notices(t)) : n = Notices(t)[i]
      BY <2>1 DEF Range
    <3>2. CASE i \in 1 .. Len(first)
      <4>1. n = <<e.triggered[i], "triggered">> /\ e.triggered[i] \in Range(e.triggered)
        BY <1>2, <1>5, <3>1, <3>2 DEF Range
      <4> QED
        BY <1>1, <4>1 DEF Held, Collecting, Notice, Range
    <3>3. CASE i - Len(first) \in 1 .. Len(second)
      <4>1. /\ n = <<e.resolved[i - Len(first)], "resolved">>
            /\ e.resolved[i - Len(first)] \in Range(e.resolved)
        BY <1>3, <1>5, <1>6, <3>1, <3>3 DEF Range
      <4> QED
        BY <1>1, <4>1 DEF Held, Collecting, Notice, Range
    <3> QED
      BY <1>6, <3>2, <3>3
  <2>2. ASSUME n \in Held(e) PROVE n \in Range(Notices(t))
    <3>1. n \in Notice /\ n[1] \in Range(IF n[2] = "triggered" THEN e.triggered ELSE e.resolved)
      BY <1>1, <2>2 DEF Held, Collecting
    <3>2. CASE n[2] = "triggered"
      <4>1. PICK i \in 1 .. Len(first) : n[1] = e.triggered[i]
        BY <1>2, <3>1, <3>2 DEF Range
      <4>2. n = Notices(t)[i]
        <5>1. n = <<n[1], n[2]>>
          BY <3>1 DEF Notice
        <5> QED
          BY <1>2, <1>5, <3>2, <4>1, <5>1
      <4> QED
        BY <1>5, <4>2 DEF Range
    <3>3. CASE n[2] = "resolved"
      <4>1. PICK i \in 1 .. Len(second) : n[1] = e.resolved[i]
        BY <1>3, <3>1, <3>3 DEF Range
      <4>2. n = Notices(t)[Len(first) + i]
        BY <1>3, <1>5, <3>1, <3>3, <4>1 DEF Notice
      <4>3. Len(first) + i \in 1 .. Len(Notices(t))
        BY <1>5
      <4> QED
        BY <4>2, <4>3 DEF Range
    <3> QED
      BY <3>1, <3>2, <3>3 DEF Notice
  <2> QED
    BY <2>1, <2>2
<1> QED
  BY <1>5, <1>7, <1>8 DEF e

-----------------------------------------------------------------------------
(***************************************************************************)
(* Steps.                                                                  *)
(***************************************************************************)
\* What happened stays so: an alert is never forgotten, and never resolved twice.
LEMMA HappenedLasts ==
  ASSUME IInv, [Next]_vars, NEW n \in Notice, Happened(n)
  PROVE  Happened(n)'
<1>1. n[1] \in Created
  BY DEF Happened
<1>2. n[1] \in Created'
  <2>1. CASE UNCHANGED <<alerts, history>>
    BY <1>1, <2>1 DEF Created
  <2>2. ASSUME NEW a \in Created, NEW now \in Time, NEW status \in AlertStatus,
               alerts' = Updated(a, status, now)
        PROVE  n[1] \in Created'
    <3>1. alerts'[a].status \in AlertStatus /\ \A b \in AlertId \ {a} : alerts'[b] = alerts[b]
      BY <2>2, UpdatedTyped DEF IInv
    <3>2. /\ a \in AlertId /\ alerts' \in [AlertId -> Alert \cup {Unborn}]
          /\ Unborn.status \notin AlertStatus
      BY <2>2, UpdatedTyped DEF IInv, Created, Unborn, AlertStatus
    <3> QED
      BY <1>1, <3>1, <3>2 DEF Created
  <2>3. ASSUME NEW a \in AlertId \ Created, \A c \in AlertId \ {a} : alerts'[c] = alerts[c]
        PROVE  n[1] \in Created'
    BY <1>1, <2>3 DEF Created
  <2>4. \A a \in Created : alerts[a].status \in AlertStatus /\ {"acknowledged", "resolved"} \subseteq AlertStatus
    BY DEF Created, IInv, TypeOK, Alert, AlertStatus
  <2> QED
    BY <2>1, <2>2, <2>3, <2>4, AlertSteps DEF IInv
<1>3. n[2] = "resolved" => alerts'[n[1]].status = "resolved"
  BY <1>1, AdvanceStep DEF Happened
<1> QED
  BY <1>2, <1>3 DEF Happened

\* One pass moves on, and holds nothing new but what just happened.
LEMMA PassStep ==
  ASSUME NoticesOnce, NEW t \in Thread, NEW e,
         eval \in [Thread -> PassType], eval' = [eval EXCEPT ![t] = e], received' = received,
         \A n \in Notice : Happened(n) => Happened(n)',
         Distinct(e),
         \A n \in Notice : n \in Held(e) =>
            n \in Held(eval[t]) \/ (~Happened(n) /\ Happened(n)'),
         \A h \in Handler, n \in Notice :
            Due(e, h, n) => Due(eval[t], h, n) \/ ~Happened(n)
  PROVE  NoticesOnce'
<1>1. eval'[t] = e /\ \A u \in Thread \ {t} : eval'[u] = eval[u]
  OBVIOUS
<1>2. \A u \in Thread : Distinct(eval'[u])
  BY <1>1 DEF NoticesOnce, HeldByOne
<1>3. \A u \in Thread, n \in Notice : n \in Held(eval'[u]) => Happened(n)'
  BY <1>1 DEF NoticesOnce, HeldByOne
<1>4. ASSUME NEW u \in Thread \ {t}, NEW n \in Notice, n \in Held(e), n \in Held(eval[u])
      PROVE  FALSE
  BY <1>4 DEF NoticesOnce, HeldByOne
<1>5. ASSUME NEW u \in Thread, NEW v \in Thread, NEW n \in Notice,
             n \in Held(eval'[u]), n \in Held(eval'[v])
      PROVE  u = v
  BY <1>1, <1>4, <1>5 DEF NoticesOnce, HeldByOne
<1>6. HeldByOne'
  BY <1>2, <1>3, <1>5 DEF HeldByOne, Distinct, Held, Collecting
<1>7. \A h \in Handler, n \in Notice :
        /\ received[h][n] \in {0, 1}
        /\ received[h][n] = 1 => Happened(n)
        /\ ~Happened(n) => received[h][n] = 0
  BY DEF NoticesOnce, ToldOnce
<1>8. \A u \in Thread, h \in Handler, n \in Notice : Due(eval'[u], h, n) => received[h][n] = 0
  BY <1>1, <1>7 DEF NoticesOnce, ToldOnce
<1>9. ToldOnce'
  BY <1>7, <1>8 DEF ToldOnce, Due, Held, Collecting
<1> QED
  BY <1>6, <1>9 DEF NoticesOnce

\* A pass that collects goes on collecting, with the same events.
LEMMA SameHeld ==
  ASSUME NEW d, NEW e, Collecting(d), Collecting(e),
         e.triggered = d.triggered, e.resolved = d.resolved
  PROVE  /\ Distinct(d) => Distinct(e)
         /\ Held(e) = Held(d)
         /\ \A h, n : Due(e, h, n) <=> Due(d, h, n)
<1>1. d.pc # "notify" /\ e.pc # "notify"
  BY DEF Collecting
<1>2. Held(e) = Held(d)
  BY DEF Held
<1> QED
  BY <1>1, <1>2 DEF Distinct, Due

\* A pass collects an event it does not hold yet.
LEMMA OneMoreHeld ==
  ASSUME NEW d, NEW e, NEW a \in AlertId, NEW kind, Collecting(d), Collecting(e), Distinct(d),
         d.triggered \in Seq(AlertId), d.resolved \in Seq(AlertId),
         \/ /\ kind = "triggered"
            /\ e.triggered = Append(d.triggered, a) /\ e.resolved = d.resolved
         \/ /\ kind = "resolved"
            /\ e.resolved = Append(d.resolved, a) /\ e.triggered = d.triggered,
         <<a, kind>> \notin Held(d)
  PROVE  /\ Distinct(e)
         /\ \A n \in Notice : n \in Held(e) => n \in Held(d) \/ n = <<a, kind>>
         /\ \A h, n : Due(e, h, n) => Due(d, h, n) \/ n = <<a, kind>>
<1>1. d.pc # "notify" /\ e.pc # "notify"
  BY DEF Collecting
<1>2. <<a, kind>> \in Notice
  BY DEF Notice
<1>3. Unrepeated(d.triggered) /\ Unrepeated(d.resolved)
  BY DEF Distinct
<1>6. ASSUME NEW n \in Notice
      PROVE  /\ n = <<n[1], n[2]>> /\ n[2] \in {"triggered", "resolved"}
             /\ n[2] = "triggered" => /\ n \in Held(d) <=> n[1] \in Range(d.triggered)
                                      /\ n \in Held(e) <=> n[1] \in Range(e.triggered)
             /\ n[2] = "resolved"  => /\ n \in Held(d) <=> n[1] \in Range(d.resolved)
                                      /\ n \in Held(e) <=> n[1] \in Range(e.resolved)
  <2>1. n = <<n[1], n[2]>> /\ n[2] \in {"triggered", "resolved"}
    BY DEF Notice
  <2>2. ASSUME NEW f, Collecting(f)
        PROVE  /\ n[2] = "triggered" => (n \in Held(f) <=> n[1] \in Range(f.triggered))
               /\ n[2] = "resolved"  => (n \in Held(f) <=> n[1] \in Range(f.resolved))
    BY <2>2 DEF Held
  <2> QED
    BY <2>1, <2>2
<1>4. CASE kind = "triggered" /\ e.triggered = Append(d.triggered, a) /\ e.resolved = d.resolved
  <2>1. a \notin Range(d.triggered)
    BY <1>2, <1>4 DEF Held
  <2>2. Unrepeated(e.triggered) /\ Range(e.triggered) = Range(d.triggered) \cup {a}
    BY <1>3, <1>4, <2>1, AppendUnrepeated
  <2>3. \A n \in Notice : n \in Held(e) => n \in Held(d) \/ n = <<a, kind>>
    BY <1>4, <1>6, <2>2
  <2>4. Distinct(e)
    BY <1>1, <1>3, <1>4, <2>2 DEF Distinct
  <2>5. \A n : n \in Held(e) => n \in Notice
    BY DEF Held, Collecting
  <2>6. \A h, n : Due(e, h, n) => Due(d, h, n) \/ n = <<a, kind>>
    BY <1>1, <2>3, <2>5 DEF Due
  <2> QED
    BY <2>3, <2>4, <2>6
<1>5. CASE kind = "resolved" /\ e.resolved = Append(d.resolved, a) /\ e.triggered = d.triggered
  <2>1. a \notin Range(d.resolved)
    BY <1>2, <1>5 DEF Held
  <2>2. Unrepeated(e.resolved) /\ Range(e.resolved) = Range(d.resolved) \cup {a}
    BY <1>3, <1>5, <2>1, AppendUnrepeated
  <2>3. \A n \in Notice : n \in Held(e) => n \in Held(d) \/ n = <<a, kind>>
    BY <1>5, <1>6, <2>2
  <2>4. Distinct(e)
    BY <1>1, <1>3, <1>5, <2>2 DEF Distinct
  <2>5. \A n : n \in Held(e) => n \in Notice
    BY DEF Held, Collecting
  <2>6. \A h, n : Due(e, h, n) => Due(d, h, n) \/ n = <<a, kind>>
    BY <1>1, <2>3, <2>5 DEF Due
  <2> QED
    BY <2>3, <2>4, <2>6
<1> QED
  BY <1>4, <1>5

\* What a pass is between two samples.
LEMMA PastCollects ==
  ASSUME NEW d, NEW s, NEW triggered, NEW resolved
  PROVE  LET e == Past(d, s, triggered, resolved)
         IN  Collecting(e) /\ e.triggered = triggered /\ e.resolved = resolved
BY DEF Past, NextRule, Visit, Collecting

\* A pass that goes on without an event.
LEMMA NoEvent ==
  ASSUME IInv, NoticesOnce, [Next]_vars, NEW t \in Thread, NEW e,
         Collecting(eval[t]), Collecting(e),
         e.triggered = eval[t].triggered, e.resolved = eval[t].resolved,
         eval' = [eval EXCEPT ![t] = e], received' = received
  PROVE  NoticesOnce'
<1>1. /\ Distinct(e) /\ Held(e) = Held(eval[t])
      /\ \A h, n : Due(e, h, n) <=> Due(eval[t], h, n)
  BY SameHeld DEF NoticesOnce, HeldByOne
<1>2. eval \in [Thread -> PassType]
  BY DEF IInv, TypeOK, PassType
<1>3. \A n \in Notice : Happened(n) => Happened(n)'
  BY HappenedLasts
<1> QED
  BY <1>1, <1>2, <1>3, PassStep

\* A pass that ends, with an exception or because there is nobody to tell.
LEMMA PassEnds ==
  ASSUME IInv, NoticesOnce, [Next]_vars, NEW t \in Thread, NEW e \in {Idle, Raised},
         eval' = [eval EXCEPT ![t] = e], received' = received
  PROVE  NoticesOnce'
<1>1. e.pc \notin {"rules", "samples", "notify"}
  BY DEF Idle, Raised
<1>2. Distinct(e) /\ Held(e) = {} /\ \A h, n : ~Due(e, h, n)
  BY <1>1 DEF Distinct, Held, Due, Collecting
<1>3. eval \in [Thread -> PassType]
  BY DEF IInv, TypeOK, PassType
<1>4. \A n \in Notice : Happened(n) => Happened(n)'
  BY HappenedLasts
<1> QED
  BY <1>2, <1>3, <1>4, PassStep

\* A pass collects an event that just happened.
LEMMA NewEvent ==
  ASSUME IInv, NoticesOnce, [Next]_vars, NEW t \in Thread, NEW s \in Series, Applying(t, s),
         NEW a \in AlertId, NEW kind \in {"triggered", "resolved"}, NEW triggered, NEW resolved,
         \/ /\ kind = "triggered"
            /\ triggered = Append(eval[t].triggered, a) /\ resolved = eval[t].resolved
         \/ /\ kind = "resolved"
            /\ resolved = Append(eval[t].resolved, a) /\ triggered = eval[t].triggered,
         ~Happened(<<a, kind>>), Happened(<<a, kind>>)',
         eval' = [eval EXCEPT ![t] = Past(eval[t], s, triggered, resolved)], received' = received
  PROVE  NoticesOnce'
<1> DEFINE d == eval[t]
           e == Past(d, s, triggered, resolved)
           new == <<a, kind>>
<1>1. /\ Collecting(d) /\ Distinct(d) /\ new \in Notice /\ new \notin Held(d)
      /\ d.triggered \in Seq(AlertId) /\ d.resolved \in Seq(AlertId)
  <2>1. Collecting(d) /\ d.triggered \in Seq(AlertId) /\ d.resolved \in Seq(AlertId)
    BY ApplyingFacts DEF IInv, Applying, Collecting
  <2>2. new \in Notice
    BY DEF Notice
  <2>3. Distinct(d) /\ new \notin Held(d)
    BY <2>2 DEF NoticesOnce, HeldByOne
  <2> QED
    BY <2>1, <2>2, <2>3
<1>2. Collecting(e) /\ e.triggered = triggered /\ e.resolved = resolved
  BY PastCollects
<1>3. eval' = [eval EXCEPT ![t] = e]
  OBVIOUS
<1>4. ~Happened(new) /\ Happened(new)'
  OBVIOUS
<1> HIDE DEF d, e, new
<1>5. /\ Distinct(e)
      /\ \A n \in Notice : n \in Held(e) => n \in Held(d) \/ n = new
      /\ \A h, n : Due(e, h, n) => Due(d, h, n) \/ n = new
  BY <1>1, <1>2, OneMoreHeld DEF d, new
<1>6. eval \in [Thread -> PassType]
  BY DEF IInv, TypeOK, PassType
<1>7. \A n \in Notice : Happened(n) => Happened(n)'
  BY HappenedLasts
<1>8. \A n \in Notice : n \in Held(e) => n \in Held(d) \/ (~Happened(n) /\ Happened(n)')
  BY <1>4, <1>5
<1> QED
  BY <1>3, <1>4, <1>5, <1>6, <1>7, <1>8, PassStep DEF d

\* The handlers that will be told are copied, and each of them is due for all.
LEMMA NotifyBeginStep ==
  ASSUME IInv, NoticesOnce, [Next]_vars, NEW t \in Thread, NotifyBegin(t)
  PROVE  NoticesOnce'
<1>1. eval[t] \in Between /\ received' = received
  BY DEF NotifyBegin, IInv, TypeOK, Stopped, Visiting, Notifying
<1>2. CASE handlers = 0 \/ Notices(t) = <<>>
  BY <1>1, <1>2, PassEnds DEF NotifyBegin
<1>3. CASE handlers # 0 /\ Notices(t) # <<>>
  <2> DEFINE e == Notify(Notices(t), handlers, 1)
  <2>1. /\ Unrepeated(Notices(t)) /\ Range(Notices(t)) = Held(eval[t])
    BY <1>1, NoticesHeld DEF NoticesOnce, HeldByOne
  <2>2. /\ e.pc = "notify" /\ e.notices = Notices(t) /\ e.next = 1
        /\ ~Collecting(e) /\ eval[t].pc # "notify"
    BY <1>1 DEF Notify, Collecting, Between
  <2>3. eval' = [eval EXCEPT ![t] = e]
    BY <1>3 DEF NotifyBegin
  <2> HIDE DEF e
  <2>4. Distinct(e) /\ Held(e) = Held(eval[t])
    BY <1>3, <2>1, <2>2 DEF Distinct, Held
  <2>5. \A h \in Handler, n \in Notice : Due(e, h, n) => Due(eval[t], h, n)
    BY <2>2, <2>4 DEF Due
  <2>6. eval \in [Thread -> PassType]
    BY DEF IInv, TypeOK, PassType
  <2>7. \A n \in Notice : Happened(n) => Happened(n)'
    BY HappenedLasts
  <2> QED
    BY <1>1, <2>3, <2>4, <2>5, <2>6, <2>7, PassStep
<1> QED
  BY <1>2, <1>3

\* What a pass has left after a call: everything but that call.
LEMMA AfterCall ==
  ASSUME NEW d \in Notifying, Distinct(d)
  PROVE  LET e == IF d.next < d.copied THEN Notify(d.notices, d.copied, d.next + 1)
                  ELSE IF Len(d.notices) > 1 THEN Notify(Tail(d.notices), d.copied, 1)
                  ELSE Idle
         IN  /\ Distinct(e)
             /\ \A n : n \in Held(e) => n \in Held(d)
             /\ \A n : \A h \in Handler : Due(e, h, n) => Due(d, h, n) /\ ~(n = Head(d.notices) /\ h = d.next)
<1>1. /\ d.pc = "notify" /\ ~Collecting(d) /\ d.notices \in Seq(Notice) /\ d.next \in Nat
      /\ Held(d) = Range(d.notices)
  BY LimitsAssumption DEF Notifying, Held, Collecting
<1>2. d.notices # <<>> /\ Unrepeated(d.notices)
  BY <1>1 DEF Distinct
<1>3. CASE d.next < d.copied
  <2> DEFINE e == Notify(d.notices, d.copied, d.next + 1)
  <2>1. e.pc = "notify" /\ ~Collecting(e) /\ e.notices = d.notices /\ e.next = d.next + 1
    BY DEF Notify, Collecting
  <2> HIDE DEF e
  <2>2. Distinct(e) /\ Held(e) = Held(d)
    BY <1>1, <1>2, <2>1 DEF Distinct, Held
  <2>3. \A n : \A h \in Handler : Due(e, h, n) => Due(d, h, n) /\ ~(n = Head(d.notices) /\ h = d.next)
    BY <1>1, <2>1, <2>2, LimitsAssumption DEF Due, Handler
  <2> QED
    BY <1>3, <2>2, <2>3 DEF e
<1>4. CASE ~(d.next < d.copied) /\ Len(d.notices) > 1
  <2> DEFINE e == Notify(Tail(d.notices), d.copied, 1)
  <2>1. e.pc = "notify" /\ ~Collecting(e) /\ e.notices = Tail(d.notices)
    BY DEF Notify, Collecting
  <2> HIDE DEF e
  <2>2. /\ Unrepeated(Tail(d.notices)) /\ Tail(d.notices) # <<>>
        /\ Range(Tail(d.notices)) = Range(d.notices) \ {Head(d.notices)}
    <3>1. Tail(d.notices) # <<>>
      <4>1. Len(d.notices) > 1
        BY <1>4, Zenon
      <4>2. d.notices \in Seq(Notice)
        BY <1>1, Zenon
      <4> QED
        BY <4>1, <4>2, TailOfMany, Zenon
    <3> QED
      BY <1>1, <1>2, <3>1, TailUnrepeated
  <2>3. Distinct(e) /\ Held(e) = Held(d) \ {Head(d.notices)}
    BY <1>1, <2>1, <2>2 DEF Distinct, Held
  <2>4. \A n : \A h \in Handler : Due(e, h, n) => Due(d, h, n) /\ ~(n = Head(d.notices) /\ h = d.next)
    BY <2>3 DEF Due
  <2> QED
    BY <1>4, <2>3, <2>4 DEF e
<1>5. CASE ~(d.next < d.copied) /\ ~(Len(d.notices) > 1)
  <2>1. Distinct(Idle) /\ Held(Idle) = {}
    BY DEF Idle, Distinct, Held, Collecting
  <2> QED
    BY <1>5, <2>1 DEF Due
<1> QED
  BY <1>3, <1>4, <1>5

\* One handler is told of one event that it had not been told of.
LEMMA CallHandlerStep ==
  ASSUME IInv, NoticesOnce, NEW t \in Thread, CallHandler(t)
  PROVE  NoticesOnce'
<1> DEFINE d == eval[t]
           told == Head(d.notices)
           e == IF d.next < d.copied THEN Notify(d.notices, d.copied, d.next + 1)
                ELSE IF Len(d.notices) > 1 THEN Notify(Tail(d.notices), d.copied, 1)
                ELSE Idle
<1>1. /\ d \in Notifying /\ Distinct(d) /\ d.pc = "notify" /\ d.notices \in Seq(Notice)
      /\ d.next \in Nat
  <2>1. d \in Notifying
    BY DEF CallHandler, IInv, TypeOK, Stopped, Visiting, Between
  <2>2. Distinct(d)
    BY DEF NoticesOnce, HeldByOne
  <2> QED
    BY <2>1, <2>2, LimitsAssumption DEF Notifying
<1>2. /\ eval' = [eval EXCEPT ![t] = e] /\ UNCHANGED alerts
      /\ received' = [received EXCEPT ![d.next] = [received[d.next] EXCEPT ![told] = received[d.next][told] + 1]]
  BY DEF CallHandler, store
<1>3. /\ Distinct(e)
      /\ \A n : n \in Held(e) => n \in Held(d)
      /\ \A n : \A h \in Handler : Due(e, h, n) => Due(d, h, n) /\ ~(n = told /\ h = d.next)
  BY <1>1, AfterCall
<1> HIDE DEF e
<1>4. told \in Notice /\ told \in Held(d) /\ \A h \in Handler : h >= d.next => Due(d, h, told)
  <2>1. d.notices # <<>>
    BY <1>1 DEF Distinct
  <2>2. told = d.notices[1] /\ 1 \in 1 .. Len(d.notices) /\ told \in Notice
    BY <1>1, <2>1
  <2>3. told \in Held(d)
    BY <1>1, <2>2 DEF Held, Collecting, Range
  <2> QED
    BY <2>2, <2>3 DEF Due
<1> HIDE DEF told
<1>5. eval'[t] = e /\ \A u \in Thread \ {t} : eval'[u] = eval[u]
  BY <1>2 DEF IInv, TypeOK
<1> HIDE DEF d
<1>6. \A n \in Notice : Happened(n)' <=> Happened(n)
  BY <1>2 DEF Happened, Created
<1>7. HeldByOne'
  <2>1. \A u \in Thread : Distinct(eval'[u])
    BY <1>3, <1>5 DEF NoticesOnce, HeldByOne
  <2>2. \A u \in Thread, n \in Notice : n \in Held(eval'[u]) => n \in Held(eval[u])
    BY <1>3, <1>5 DEF d
  <2>3. \A u \in Thread, n \in Notice : n \in Held(eval'[u]) => Happened(n)'
    BY <1>6, <2>2 DEF NoticesOnce, HeldByOne
  <2>4. \A u, v \in Thread, n \in Notice : n \in Held(eval'[u]) /\ n \in Held(eval'[v]) => u = v
    BY <2>2 DEF NoticesOnce, HeldByOne
  <2> QED
    BY <2>1, <2>3, <2>4 DEF HeldByOne, Distinct, Held, Collecting
<1>8. \A u \in Thread, h \in Handler, n \in Notice :
        Due(eval'[u], h, n) => Due(eval[u], h, n) /\ ~(n = told /\ h = d.next)
  <2>1. ASSUME NEW u \in Thread \ {t}, NEW h \in Handler, NEW n \in Notice, Due(eval[u], h, n)
        PROVE  n # told
    BY <1>4, <2>1 DEF NoticesOnce, HeldByOne, Due, d
  <2> QED
    BY <1>3, <1>5, <2>1 DEF d
<1>9. \A h \in Handler, n \in Notice :
        received'[h][n] = received[h][n] + (IF n = told /\ h = d.next THEN 1 ELSE 0)
  <2>1. \A h \in Handler : received[h] \in [Notice -> Nat]
    BY DEF IInv, TypeOK
  <2>2. \A h \in Handler : received'[h] =
          IF h = d.next THEN [received[h] EXCEPT ![told] = received[h][told] + 1] ELSE received[h]
    BY <1>2 DEF IInv, TypeOK, d
  <2>3. \A h \in Handler : h # d.next => received'[h] = received[h]
    BY <2>2
  <2>4. ASSUME d.next \in Handler
        PROVE  \A n \in Notice : received'[d.next][n] = received[d.next][n] + (IF n = told THEN 1 ELSE 0)
    <3>1. received'[d.next] = [received[d.next] EXCEPT ![told] = received[d.next][told] + 1]
      BY <2>2, <2>4
    <3> QED
      BY <1>4, <2>1, <2>4, <3>1
  <2> QED
    BY <2>1, <2>3, <2>4
<1>10. d.next \in Handler => received[d.next][told] = 0
  BY <1>1, <1>4 DEF NoticesOnce, ToldOnce, d
<1>11. \A h \in Handler, n \in Notice :
         received'[h][n] \in {0, 1} /\ (received'[h][n] = 1 => Happened(n)')
  BY <1>4, <1>6, <1>9, <1>10 DEF NoticesOnce, ToldOnce, HeldByOne, d
<1>12. \A u \in Thread, h \in Handler, n \in Notice :
         Due(eval'[u], h, n) => received'[h][n] = 0
  BY <1>8, <1>9 DEF NoticesOnce, ToldOnce
<1>13. ToldOnce'
  BY <1>11, <1>12 DEF ToldOnce, Due, Held, Collecting
<1> QED
  BY <1>7, <1>13 DEF NoticesOnce

\* The other steps leave what passes hold and what handlers were told alone.
LEMMA NothingTold ==
  ASSUME IInv, NoticesOnce, [Next]_vars, UNCHANGED <<eval, received>>
  PROVE  NoticesOnce'
<1>1. \A n \in Notice : Happened(n) => Happened(n)'
  BY HappenedLasts
<1>2. HeldByOne'
  BY <1>1 DEF NoticesOnce, HeldByOne, Distinct, Held, Collecting
<1>3. ToldOnce'
  BY <1>1 DEF NoticesOnce, ToldOnce, Due, Held, Collecting
<1> QED
  BY <1>2, <1>3 DEF NoticesOnce

\* A sample that makes no event.
LEMMA SkipStep ==
  ASSUME IInv, NoticesOnce, [Next]_vars, NEW t \in Thread, NEW s \in Series,
         Applying(t, s), Skip(t, s), received' = received
  PROVE  NoticesOnce'
<1> DEFINE e == Past(eval[t], s, eval[t].triggered, eval[t].resolved)
<1>1. /\ Collecting(eval[t]) /\ eval' = [eval EXCEPT ![t] = e]
      /\ Collecting(e) /\ e.triggered = eval[t].triggered /\ e.resolved = eval[t].resolved
  BY PastCollects DEF Applying, Collecting, Skip
<1> QED
  BY <1>1, NoEvent

LEMMA NoticesStep == IInv /\ NoticesOnce /\ [Next]_vars => NoticesOnce'
<1> SUFFICES ASSUME IInv, NoticesOnce, [Next]_vars PROVE NoticesOnce'
  OBVIOUS
<1>1. ASSUME NEW t \in Thread, EvaluateBegin(t) PROVE NoticesOnce'
  <2>1. PICK now \in Time : eval' = [eval EXCEPT ![t] =
          [pc |-> "rules", now |-> now, triggered |-> <<>>, resolved |-> <<>>,
           todo |-> {rules[n] : n \in Registered}]]
    BY <1>1 DEF EvaluateBegin
  <2> DEFINE e == [pc |-> "rules", now |-> now, triggered |-> <<>>, resolved |-> <<>>,
                   todo |-> {rules[n] : n \in Registered}]
  <2>2. e.pc = "rules" /\ e.triggered = <<>> /\ e.resolved = <<>>
    OBVIOUS
  <2>3. received' = received /\ eval' = [eval EXCEPT ![t] = e]
    BY <1>1, <2>1 DEF EvaluateBegin
  <2> HIDE DEF e
  <2>4. Range(<<>>) = {}
    BY DEF Range
  <2>5. Distinct(e)
    BY <2>2 DEF Distinct, Collecting, Unrepeated
  <2>6. Held(e) = {}
    BY <2>2, <2>4 DEF Held, Collecting
  <2>7. \A h, n : ~Due(e, h, n)
    BY <2>6 DEF Due
  <2>8. eval \in [Thread -> PassType]
    BY DEF IInv, TypeOK, PassType
  <2>9. \A n \in Notice : Happened(n) => Happened(n)'
    BY HappenedLasts
  <2> QED
    BY <2>3, <2>5, <2>6, <2>7, <2>8, <2>9, PassStep
<1>2. ASSUME NEW t \in Thread, NEW r \in Rule, QueryFails(t, r) PROVE NoticesOnce'
  <2> DEFINE e == NextRule(eval[t], eval[t].todo \ {r}, eval[t].triggered, eval[t].resolved)
  <2>1. /\ eval' = [eval EXCEPT ![t] = e] /\ received' = received
        /\ Collecting(eval[t]) /\ Collecting(e)
        /\ e.triggered = eval[t].triggered /\ e.resolved = eval[t].resolved
    BY <1>2 DEF QueryFails, NextRule, Collecting
  <2> QED
    BY <2>1, NoEvent
<1>3. ASSUME NEW t \in Thread, NEW r \in Rule, Query(t, r) PROVE NoticesOnce'
  <2>1. PICK sample \in [Selected(r) -> Value] :
          eval' = [eval EXCEPT ![t] =
            IF Selected(r) = {}
            THEN NextRule(eval[t], eval[t].todo \ {r}, eval[t].triggered, eval[t].resolved)
            ELSE Visit(eval[t], eval[t].todo \ {r}, eval[t].triggered, eval[t].resolved, r,
                       Selected(r), {s \in Selected(r) : Matches(r, sample[s])})]
    BY <1>3 DEF Query, IInv, TypeOK
  <2> DEFINE e == IF Selected(r) = {}
                  THEN NextRule(eval[t], eval[t].todo \ {r}, eval[t].triggered, eval[t].resolved)
                  ELSE Visit(eval[t], eval[t].todo \ {r}, eval[t].triggered, eval[t].resolved, r,
                             Selected(r), {s \in Selected(r) : Matches(r, sample[s])})
  <2>2. Collecting(e) /\ e.triggered = eval[t].triggered /\ e.resolved = eval[t].resolved
    BY DEF NextRule, Visit, Collecting
  <2>3. Collecting(eval[t]) /\ received' = received
    BY <1>3 DEF Query, Collecting
  <2>4. eval' = [eval EXCEPT ![t] = e]
    BY <2>1
  <2> HIDE DEF e
  <2> QED
    BY <2>2, <2>3, <2>4, NoEvent
<1>4. ASSUME NEW t \in Thread, NEW s \in Series, StaleRule(t, s) PROVE NoticesOnce'
  <2> DEFINE e == NextRule(eval[t], eval[t].todo, eval[t].triggered, eval[t].resolved)
  <2>1. /\ eval' = [eval EXCEPT ![t] = e] /\ received' = received
        /\ Collecting(eval[t]) /\ Collecting(e)
        /\ e.triggered = eval[t].triggered /\ e.resolved = eval[t].resolved
    BY <1>4 DEF StaleRule, Applying, NextRule, Collecting
  <2> QED
    BY <2>1, NoEvent
<1>5. ASSUME NEW t \in Thread, NEW s \in Series,
             UpdateActive(t, s) \/ CoolingDown(t, s) \/ NothingToDo(t, s)
      PROVE  NoticesOnce'
  BY <1>5, SkipStep DEF UpdateActive, CoolingDown, Retriggering, NothingToDo
<1>6. ASSUME NEW t \in Thread, NEW s \in Series, CooldownOverflow(t, s) PROVE NoticesOnce'
  BY <1>6, PassEnds DEF CooldownOverflow
<1>7. ASSUME NEW t \in Thread, NEW s \in Series, NEW a \in AlertId, Trigger(t, s, a)
      PROVE  NoticesOnce'
  <2> DEFINE triggered == Append(eval[t].triggered, a)
  <2>1. Applying(t, s) /\ a \notin Created /\ received' = received
    BY <1>7 DEF Trigger, IsFresh
  <2>2. eval' = [eval EXCEPT ![t] = Past(eval[t], s, triggered, eval[t].resolved)]
    BY <1>7 DEF Trigger
  <2>3. ~Happened(<<a, "triggered">>)
    BY <2>1 DEF Happened
  <2>4. alerts'[a] # Unborn
    <3>1. alerts'[a].status = "active"
      BY <1>7 DEF Trigger, AlertOf, IInv, TypeOK
    <3> QED
      BY <3>1 DEF Unborn
  <2>5. Happened(<<a, "triggered">>)'
    BY <2>4 DEF Happened, Created
  <2> HIDE DEF triggered
  <2> QED
    BY <2>1, <2>2, <2>3, <2>5, NewEvent DEF triggered
<1>8. ASSUME NEW t \in Thread, NEW s \in Series, AutoResolve(t, s) PROVE NoticesOnce'
  <2>1. Applying(t, s) /\ active[KeyAt(t, s)] # NoAlert /\ received' = received
    BY <1>8 DEF AutoResolve
  <2>2. PICK a \in AlertId : a = active[KeyAt(t, s)]
    BY <2>1, ApplyingFacts DEF IInv, TypeOK
  <2>3. a \in Created /\ alerts[a].status # "resolved" /\ eval[t].now \in Time
    BY <2>1, <2>2, ApplyingFacts DEF IInv, LiveAlertsOfCurrentRules
  <2> DEFINE resolved == Append(eval[t].resolved, a)
  <2>4. eval' = [eval EXCEPT ![t] = Past(eval[t], s, eval[t].triggered, resolved)]
    BY <1>8, <2>2 DEF AutoResolve
  <2>5. ~Happened(<<a, "resolved">>)
    BY <2>3 DEF Happened
  <2>6. alerts'[a].status = "resolved"
    BY <1>8, <2>2, <2>3, UpdatedTyped DEF AutoResolve, AlertStatus, IInv
  <2>7. Happened(<<a, "resolved">>)'
    BY <2>6 DEF Happened, Created, Unborn
  <2> HIDE DEF resolved
  <2> QED
    BY <2>1, <2>4, <2>5, <2>7, NewEvent DEF resolved
<1>9. ASSUME NEW t \in Thread, NotifyBegin(t) PROVE NoticesOnce'
  BY <1>9, NotifyBeginStep
<1>10. ASSUME NEW t \in Thread, CallHandler(t) PROVE NoticesOnce'
  BY <1>10, CallHandlerStep
<1>11. ASSUME Administer \/ UNCHANGED vars PROVE NoticesOnce'
  <2>1. UNCHANGED <<eval, received>>
    BY <1>11 DEF Administer, AddRule, ReplaceRule, RemoveRule, AddHandler, Acknowledge, Resolve, vars
  <2> QED
    BY <2>1, NothingTold
<1> QED
  BY <1>1, <1>2, <1>3, <1>4, <1>5, <1>6, <1>7, <1>8, <1>9, <1>10, <1>11
     DEF Next, Proceed, Sample

LEMMA NobodyTold == Init => NoticesOnce
<1> SUFFICES ASSUME Init PROVE NoticesOnce
  OBVIOUS
<1>1. \A t \in Thread : Distinct(eval[t]) /\ Held(eval[t]) = {}
  BY DEF Init, Idle, Distinct, Held, Collecting
<1>2. \A h \in Handler, n \in Notice : received[h][n] = 0
  BY DEF Init
<1>3. HeldByOne
  BY <1>1 DEF HeldByOne
<1>4. ToldOnce
  BY <1>1, <1>2 DEF ToldOnce, Due
<1> QED
  BY <1>3, <1>4 DEF NoticesOnce

-----------------------------------------------------------------------------
\* _notify calls no handler twice for one event, whichever threads evaluate and
\* resolve at the same time.
THEOREM NoticesAtMostOnce == Spec => []NotifiedAtMostOnce
<1>1. NoticesOnce => NotifiedAtMostOnce
  BY DEF NoticesOnce, ToldOnce, NotifiedAtMostOnce
<1> QED
  BY <1>1, NobodyTold, NoticesStep, Invariance, PTL DEF Spec
=============================================================================
