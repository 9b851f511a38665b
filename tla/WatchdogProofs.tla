--------------------------- MODULE WatchdogProofs ---------------------------
(***************************************************************************)
(* What the watchdog's alerts are worth, for every usage of the card, any  *)
(* refusals, and any sinks in any order.                                   *)
(***************************************************************************)
EXTENDS Watchdog, TLAPS

LEMMA PutType ==
  ASSUME NEW K, NEW V, NEW d \in [K -> V], NEW k, NEW v \in V
  PROVE  /\ Put(d, k, v) \in [K \cup {k} -> V]
         /\ Put(d, k, v)[k] = v
         /\ \A x \in K \ {k} : Put(d, k, v)[x] = d[x]
BY DEF Put

\* What Told rests on.  The alert of the latest window has reached a sink that
\* works, or is on its way to it; and an excursion that the watchdog knows, or
\* is telling of, began within that window.
Delivered ==
  WatchKey \in DOMAIN lastSent =>
    \A s \in Reliable :
      \/ Sending(Dog) /\ s \in Range(sending[Dog])
      \/ s \in DOMAIN told /\ told[s] >= lastSent[WatchKey]

Fresh ==
  over \/ Sending(Dog) =>
    WatchKey \in DOMAIN lastSent /\ riseAt - lastSent[WatchKey] < Window

Past == \A k \in DOMAIN lastSent : lastSent[k] <= now

Quiet == Sending(Dog) => ~ over

Inv == TypeOK /\ Delivered /\ Fresh /\ Past /\ Quiet

\* The daemon starts with nothing told and nothing on its way.
LEMMA InvInit == Init => Inv
<1> SUFFICES ASSUME Init PROVE Inv
  OBVIOUS
<1>1. 0 \in Times
  BY WatchdogAssumption DEF Times
<1>2. TypeOK
  <2>1. Empty \in [{} -> Times] /\ Empty \in [{} -> Seq(Range(Sinks))]
    BY DEF Empty
  <2> QED BY <1>1, <2>1 DEF Init, TypeOK
<1> QED BY <1>2 DEF Init, Inv, Delivered, Fresh, Past, Quiet, Sending, Empty

\* Every step of the watchdog, of a caller of the alerts and of the clock keeps it.
LEMMA InvStep == Inv /\ [Next]_vars => Inv'
<1> SUFFICES ASSUME Inv, [Next]_vars PROVE Inv'
  OBVIOUS
<1> USE DEF Times
<1>1. TypeOK /\ Delivered /\ Fresh /\ Past /\ Quiet
  BY DEF Inv
<1>2. PICK K \in SUBSET (Refusals \cup {WatchKey}) : lastSent \in [K -> Times]
  BY <1>1 DEF TypeOK
<1>3. PICK T \in SUBSET Sender : sending \in [T -> Seq(Range(Sinks))]
  BY <1>1 DEF TypeOK
<1>4. PICK S \in SUBSET Range(Sinks) : told \in [S -> Times]
  BY <1>1 DEF TypeOK
<1>5. now \in Nat /\ riseAt \in Nat /\ Window \in Nat \ {0} /\ now \in Times
  BY <1>1, WatchdogAssumption DEF TypeOK
<1>6. Sinks \in Seq(Range(Sinks)) /\ Reliable \subseteq Range(Sinks)
  BY WatchdogAssumption DEF Reliable
<1>7. ASSUME NEW t \in Sender, NEW key \in Refusals \cup {WatchKey}, ~ Sending(t),
             Send(t, key), UNCHANGED <<now, told>>
      PROVE  /\ \E L \in SUBSET (Refusals \cup {WatchKey}) : lastSent' \in [L -> Times]
             /\ \E U \in SUBSET Sender : sending' \in [U -> Seq(Range(Sinks))]
             /\ Past'
  <2>1. CASE Recent(key)
    BY <1>1, <1>2, <1>3, <1>7, <2>1 DEF Send, Past
  <2>2. CASE ~ Recent(key)
    <3>1. lastSent' = Put(lastSent, key, now) /\ sending' = Put(sending, t, Sinks)
      BY <1>7, <2>2 DEF Send
    <3>2. lastSent' \in [K \cup {key} -> Times]
      BY <1>2, <1>5, <3>1, PutType
    <3>3. sending' \in [T \cup {t} -> Seq(Range(Sinks))]
      BY <1>3, <1>6, <3>1, PutType
    <3>4. K \cup {key} \in SUBSET (Refusals \cup {WatchKey}) /\ T \cup {t} \in SUBSET Sender
      OBVIOUS
    <3>5. Past'
      BY <1>1, <1>2, <1>5, <1>7, <3>1 DEF Past, Put
    <3> QED BY <3>2, <3>3, <3>4, <3>5
  <2> QED BY <2>1, <2>2
<1>8. CASE CheckOnce
  <2> DEFINE high == used > SafeLine
  <2> DEFINE rising == high /\ ~ over
  <2>1. /\ ~ Sending(Dog)
        /\ riseAt' = IF rising THEN now ELSE riseAt
        /\ rising => Send(Dog, WatchKey)
        /\ ~ rising => UNCHANGED <<lastSent, sending>>
        /\ over' = IF Dog \in DOMAIN sending' THEN over ELSE high
        /\ UNCHANGED <<used, told, now>>
    BY <1>8 DEF CheckOnce
  <2>2. high \in BOOLEAN
    OBVIOUS
  <2> HIDE DEF high
  <2>3. TypeOK' /\ Past'
    <3>1. over' \in BOOLEAN /\ riseAt' \in Times
      BY <1>1, <1>5, <2>1, <2>2 DEF TypeOK
    <3>2. CASE rising
      BY <1>1, <1>7, <2>1, <3>1, <3>2 DEF TypeOK, Sender
    <3>3. CASE ~ rising
      BY <1>1, <2>1, <3>1, <3>3 DEF TypeOK, Past
    <3> QED BY <3>2, <3>3
  <2>4. Delivered' /\ Fresh' /\ Quiet'
    <3>1. CASE ~ rising
      BY <1>1, <2>1, <3>1 DEF Delivered, Fresh, Quiet, Sending
    <3>2. CASE rising /\ Recent(WatchKey)
      <4>1. /\ UNCHANGED <<lastSent, sending>> /\ riseAt' = now
            /\ WatchKey \in DOMAIN lastSent /\ now - lastSent[WatchKey] < Window
        BY <2>1, <3>2 DEF Send, Recent
      <4> QED BY <1>1, <2>1, <4>1 DEF Delivered, Fresh, Quiet, Sending
    <3>3. CASE rising /\ ~ Recent(WatchKey)
      <4>1. /\ lastSent' = Put(lastSent, WatchKey, now)
            /\ sending' = Put(sending, Dog, Sinks) /\ riseAt' = now
        BY <2>1, <3>3 DEF Send
      <4>2. /\ WatchKey \in DOMAIN lastSent' /\ lastSent'[WatchKey] = now
            /\ Dog \in DOMAIN sending' /\ sending'[Dog] = Sinks
        BY <4>1 DEF Put
      <4>3. over' = FALSE
        BY <1>1, <2>1, <3>3, <4>2 DEF TypeOK
      <4> QED BY <1>5, <1>6, <4>1, <4>2, <4>3 DEF Delivered, Fresh, Quiet, Sending
    <3> QED BY <3>1, <3>2, <3>3
  <2> QED BY <2>3, <2>4 DEF Inv
<1>9. ASSUME NEW key \in Refusals, Refuse(key) PROVE Inv'
  <2>1. /\ ~ Sending(Admission) /\ Send(Admission, key)
        /\ UNCHANGED <<used, over, riseAt, told, now>>
    BY <1>9 DEF Refuse
  <2>2. TypeOK' /\ Past'
    BY <1>1, <1>7, <2>1 DEF TypeOK, Sender
  <2>3. /\ WatchKey \in DOMAIN lastSent' <=> WatchKey \in DOMAIN lastSent
        /\ WatchKey \in DOMAIN lastSent => lastSent'[WatchKey] = lastSent[WatchKey]
        /\ Dog \in DOMAIN sending' <=> Dog \in DOMAIN sending
        /\ Dog \in DOMAIN sending => sending'[Dog] = sending[Dog]
    BY <2>1, WatchdogAssumption DEF Send, Put
  <2>4. Delivered' /\ Fresh' /\ Quiet'
    BY <1>1, <2>1, <2>3 DEF Delivered, Fresh, Quiet, Sending
  <2> QED BY <2>2, <2>4 DEF Inv
<1>10. ASSUME NEW t \in Sender, Deliver(t) PROVE Inv'
  <2> DEFINE sink == Head(sending[t])
  <2>1. /\ Sending(t) /\ sending[t] # <<>>
        /\ sending' = [sending EXCEPT ![t] = Tail(sending[t])]
        /\ UNCHANGED <<used, over, riseAt, lastSent, now>>
    BY <1>10 DEF Deliver
  <2>2. \/ told' = told /\ (t = Dog => sink \in Flaky)
        \/ told' = Put(told, sink, now) /\ t = Dog
    BY <1>10 DEF Deliver, Arrives
  <2>3. /\ sending[t] \in Seq(Range(Sinks)) /\ t \in T
        /\ sink \in Range(Sinks) /\ Tail(sending[t]) \in Seq(Range(Sinks))
        /\ Range(sending[t]) = {sink} \cup Range(Tail(sending[t]))
    <3>1. t \in T /\ sending[t] \in Seq(Range(Sinks)) /\ sending[t] # <<>>
      BY <1>3, <2>1 DEF Sending
    <3> DEFINE q == sending[t]
    <3>2. q \in Seq(Range(Sinks)) /\ q # <<>>
      BY <3>1
    <3> HIDE DEF q
    <3>3. /\ Head(q) \in Range(Sinks) /\ Tail(q) \in Seq(Range(Sinks))
          /\ Len(Tail(q)) = Len(q) - 1 /\ Len(q) \in Nat \ {0}
          /\ Head(q) = q[1] /\ DOMAIN q = 1 .. Len(q)
          /\ \A i \in 1 .. Len(q) - 1 : Tail(q)[i] = q[i + 1]
          /\ DOMAIN Tail(q) = 1 .. Len(q) - 1
      BY <3>2
    <3>4. Range(q) \subseteq {Head(q)} \cup Range(Tail(q))
      <4> SUFFICES ASSUME NEW i \in 1 .. Len(q), i # 1 PROVE q[i] \in Range(Tail(q))
        BY <3>3 DEF Range
      <4>1. i - 1 \in 1 .. Len(q) - 1 /\ Tail(q)[i - 1] = q[i]
        BY <3>3
      <4> QED BY <3>3, <4>1 DEF Range
    <3>5. {Head(q)} \cup Range(Tail(q)) \subseteq Range(q)
      <4>1. \A i \in 1 .. Len(q) - 1 : i + 1 \in 1 .. Len(q)
        BY <3>3
      <4>2. 1 \in 1 .. Len(q)
        BY <3>3
      <4> QED BY <3>3, <4>1, <4>2 DEF Range
    <3> QED BY <3>1, <3>3, <3>4, <3>5 DEF q
  <2>4. sending' \in [T -> Seq(Range(Sinks))]
    BY <1>3, <2>1, <2>3
  <2>5. \E R \in SUBSET Range(Sinks) : told' \in [R -> Times]
    <3>1. CASE told' = told
      BY <1>4, <3>1
    <3>2. CASE told' = Put(told, sink, now)
      <4>1. told' \in [S \cup {sink} -> Times] /\ S \cup {sink} \in SUBSET Range(Sinks)
        BY <1>4, <1>5, <2>3, <3>2, PutType
      <4> QED BY <4>1
    <3> QED BY <2>2, <3>1, <3>2
  <2>6. TypeOK'
    BY <1>1, <2>1, <2>4, <2>5 DEF TypeOK
  <2>7. Past' /\ Fresh' /\ Quiet'
    BY <1>1, <1>3, <2>1, <2>4 DEF Past, Fresh, Quiet, Sending
  <2>8. Delivered'
    <3> SUFFICES ASSUME WatchKey \in DOMAIN lastSent, NEW s \in Reliable
                 PROVE  \/ Sending(Dog)' /\ s \in Range(sending'[Dog])
                        \/ s \in DOMAIN told' /\ told'[s] >= lastSent[WatchKey]
      BY <2>1 DEF Delivered, Reliable
    <3>1. \/ Sending(Dog) /\ s \in Range(sending[Dog])
          \/ s \in DOMAIN told /\ told[s] >= lastSent[WatchKey]
      BY <1>1 DEF Delivered
    <3>2. lastSent[WatchKey] <= now /\ lastSent[WatchKey] \in Nat
      BY <1>1, <1>2 DEF Past
    <3>3. CASE s \in DOMAIN told /\ told[s] >= lastSent[WatchKey]
      BY <1>5, <2>2, <3>2, <3>3 DEF Put
    <3>4. CASE Sending(Dog) /\ s \in Range(sending[Dog]) /\ t # Dog
      BY <1>3, <2>1, <3>4 DEF Sending
    <3>5. CASE Sending(Dog) /\ s \in Range(sending[Dog]) /\ t = Dog
      <4>1. sending'[Dog] = Tail(sending[Dog]) /\ Sending(Dog)'
        BY <1>3, <2>1, <3>5 DEF Sending
      <4>2. CASE s = sink
        <5>1. told' = Put(told, s, now)
          BY <2>2, <3>5, <4>2 DEF Reliable
        <5> QED BY <1>5, <3>2, <5>1 DEF Put
      <4>3. CASE s # sink
        BY <2>3, <3>5, <4>1, <4>3
      <4> QED BY <4>2, <4>3
    <3> QED BY <3>1, <3>3, <3>4, <3>5
  <2> QED BY <2>6, <2>7, <2>8 DEF Inv
<1>11. ASSUME NEW t \in Sender, Sent(t) PROVE Inv'
  <2>1. /\ Sending(t) /\ sending[t] = <<>>
        /\ sending' = Restrict(sending, DOMAIN sending \ {t})
        /\ over' = (over \/ t = Dog)
        /\ UNCHANGED <<used, riseAt, lastSent, told, now>>
    BY <1>11 DEF Sent
  <2>2. sending' \in [T \ {t} -> Seq(Range(Sinks))]
    BY <1>3, <2>1 DEF Restrict
  <2>3. TypeOK'
    <3>1. T \ {t} \in SUBSET Sender
      OBVIOUS
    <3> QED BY <1>1, <2>1, <2>2, <3>1 DEF TypeOK
  <2>4. Range(<<>>) = {}
    BY DEF Range
  <2>5. CASE t = Dog
    BY <1>1, <1>3, <2>1, <2>2, <2>3, <2>4, <2>5
    DEF Inv, Delivered, Fresh, Past, Quiet, Sending
  <2>6. CASE t # Dog
    <3>1. /\ Sending(Dog)' <=> Sending(Dog)
          /\ Sending(Dog) => sending'[Dog] = sending[Dog]
      BY <1>3, <2>1, <2>2, <2>6 DEF Sending, Restrict
    <3>2. over' = over
      BY <1>1, <2>1, <2>6 DEF TypeOK
    <3> QED BY <1>1, <2>1, <2>3, <3>1, <3>2 DEF Inv, Delivered, Fresh, Past, Quiet
  <2> QED BY <2>5, <2>6
<1>12. CASE UsageMoves
  BY <1>1, <1>12 DEF UsageMoves, Inv, TypeOK, Delivered, Fresh, Past, Quiet, Sending
<1>13. CASE Tick
  <2>1. now' \in Times /\ now' = now + 1 /\ MaxTime \in Nat
    BY <1>5, <1>13, WatchdogAssumption DEF Tick
  <2>2. Past'
    BY <1>1, <1>2, <1>5, <1>13, <2>1 DEF Tick, Past
  <2> QED BY <1>1, <1>13, <2>1, <2>2 DEF Tick, Inv, TypeOK, Delivered, Fresh, Quiet, Sending
<1>14. CASE UNCHANGED vars
  BY <1>1, <1>14 DEF vars, Inv, TypeOK, Delivered, Fresh, Past, Quiet, Sending
<1> QED BY <1>8, <1>9, <1>10, <1>11, <1>12, <1>13, <1>14 DEF Next

\* The last alert that the limiter let through is with every sink that works or
\* on its way to it, and an excursion the watchdog knows began in its window.
THEOREM WatchInvariant == Spec => []Inv
BY InvInit, InvStep, PTL DEF Spec

\* Every variable of the watchdog and of the alert manager keeps its type: an
\* alert under way has an existing sink ahead of it, and every stamp is a time.
THEOREM WatchdogType == Spec => []TypeOK
<1>1. Inv => TypeOK
  BY DEF Inv
<1> QED BY <1>1, WatchInvariant, PTL

\* While the watchdog holds the card to be over the line, every sink that works
\* got its alert less than a window before the excursion began, or since.
THEOREM ToldAlways == Spec => []Told
<1>1. Inv => Told
  <2> SUFFICES ASSUME Inv, over, NEW s \in Reliable
               PROVE  s \in DOMAIN told /\ riseAt - told[s] < Window
    BY DEF Told
  <2>1. ~ Sending(Dog) /\ WatchKey \in DOMAIN lastSent
        /\ riseAt - lastSent[WatchKey] < Window
    BY DEF Inv, Fresh, Quiet
  <2>2. s \in DOMAIN told /\ told[s] >= lastSent[WatchKey]
    BY <2>1 DEF Inv, Delivered
  <2>3. riseAt \in Nat /\ told[s] \in Nat /\ lastSent[WatchKey] \in Nat /\ Window \in Nat
    BY <2>1, <2>2, WatchdogAssumption DEF Inv, TypeOK, Times
  <2> QED BY <2>1, <2>2, <2>3
<1> QED BY <1>1, WatchInvariant, PTL

\* Nothing is delivered for an excursion that the watchdog already knows.
THEOREM OneAlertAlways == Spec => OneAlertPerExcursion
<1>1. Inv /\ [Next]_vars => [told' # told => ~ over]_vars
  <2> SUFFICES ASSUME Inv, Next, told' # told PROVE ~ over
    BY DEF vars
  <2>1. PICK t \in Sender : Deliver(t)
    BY DEF Next, CheckOnce, Refuse, Sent, UsageMoves, Tick
  <2>2. t = Dog /\ Sending(t)
    BY <2>1 DEF Deliver
  <2> QED BY <2>2 DEF Inv, Quiet
<1> QED BY <1>1, WatchInvariant, PTL DEF Spec, OneAlertPerExcursion

=============================================================================
