------------------------------ MODULE Watchdog ------------------------------
(***************************************************************************)
(* The watchdog (watchdog.py) and the alerting chain it shares with the    *)
(* orchestrator (alerts.py, wired by runtime.py).                          *)
(*                                                                         *)
(* The watchdog polls the card and sends one alert on the rising edge of   *)
(* "usage is over the safe line"; the orchestrator sends one per refused   *)
(* load.  Both go through one RateLimitedAlerter, which drops a repeat of  *)
(* a dedup key within its window, and then through MultiAlerter, which     *)
(* hands the alert to each sink in turn.  A sink is awaited (the webhook   *)
(* for up to 5 s), and the other coroutines run meanwhile.                 *)
(***************************************************************************)
EXTENDS Vram, Sequences, Functions

CONSTANTS
  Dog,        \* the watchdog's task
  Admission,  \* the orchestrator, which refuses one load at a time
  WatchKey,   \* the dedup key of the watchdog's alert
  Refusals,   \* the dedup keys of refused loads
  Sinks,      \* the sinks build_alerter composed, in order
  Flaky,      \* those whose delivery may fail
  SafeLine,   \* int(total * (1 - buffer_pct))
  Levels,     \* the usages of the card
  Window,     \* window_s of the rate limiter, in ticks
  MaxTime     \* bound on the clock

\* Both figures are rounded down, so the line may be a byte below the budget's.
ASSUME WatchdogAssumption ==
  /\ Dog # Admission
  /\ WatchKey \notin Refusals
  /\ Sinks \in Seq(Range(Sinks))
  /\ SafeLine \in {Total - Buffer, Total - Buffer - 1}
  /\ Levels \subseteq 0 .. Total
  /\ Window \in Nat \ {0} /\ MaxTime \in Nat

VARIABLES
  used,      \* bytes in use on the card
  over,      \* Watchdog._over
  lastSent,  \* RateLimitedAlerter._last_sent: dedup key -> time
  sending,   \* a sender inside MultiAlerter.send -> the sinks still to go
  now,       \* time.monotonic()
  riseAt,    \* history: when the watchdog met the latest excursion
  told       \* history: sink -> when it last got the watchdog's alert

vars == <<used, over, lastSent, sending, now, riseAt, told>>

Sender == {Dog, Admission}

Sending(t) == t \in DOMAIN sending

\* d[k] = v
Put(d, k, v) == [x \in DOMAIN d \cup {k} |-> IF x = k THEN v ELSE d[x]]

Empty == [x \in {} |-> 0]

(***************************************************************************)
(* RateLimitedAlerter.send: a repeat within the window is dropped; what is *)
(* let through opens a new window, and is on its way to the sinks.         *)
(***************************************************************************)
Recent(key) == key \in DOMAIN lastSent /\ now - lastSent[key] < Window

\* Mutant: one window for all the keys.
SendOneWindow(t, key) ==
  IF \E k \in DOMAIN lastSent : Recent(k)
  THEN UNCHANGED <<lastSent, sending>>
  ELSE lastSent' = Put(lastSent, key, now) /\ sending' = Put(sending, t, Sinks)

\* Mutant: the end of the window is kept, and read as its start.
SendExpiry(t, key) ==
  IF Recent(key)
  THEN UNCHANGED <<lastSent, sending>>
  ELSE lastSent' = Put(lastSent, key, now + Window) /\ sending' = Put(sending, t, Sinks)

Send(t, key) ==
  IF Recent(key)
  THEN UNCHANGED <<lastSent, sending>>
  ELSE lastSent' = Put(lastSent, key, now) /\ sending' = Put(sending, t, Sinks)

(***************************************************************************)
(* Watchdog.check_once.  A probe that fails is logged and changes nothing. *)
(* _over is set once send has returned, at once if the alert was dropped.  *)
(***************************************************************************)
\* Mutant: level-triggered, leaving repeats to the rate limiter.
CheckOnceLevel ==
  /\ ~ Sending(Dog)
  /\ LET high == used > SafeLine IN
       /\ riseAt' = IF high /\ ~ over THEN now ELSE riseAt
       /\ IF high THEN Send(Dog, WatchKey) ELSE UNCHANGED <<lastSent, sending>>
       /\ over' = IF Dog \in DOMAIN sending' THEN over ELSE high
  /\ UNCHANGED <<used, told, now>>

CheckOnce ==
  /\ ~ Sending(Dog)
  /\ LET high == used > SafeLine
         rising == high /\ ~ over
     IN  /\ riseAt' = IF rising THEN now ELSE riseAt
         /\ IF rising THEN Send(Dog, WatchKey) ELSE UNCHANGED <<lastSent, sending>>
         /\ over' = IF Dog \in DOMAIN sending' THEN over ELSE high
  /\ UNCHANGED <<used, told, now>>

\* Orchestrator._refuse, under the load mutex.
Refuse(key) ==
  /\ ~ Sending(Admission)
  /\ Send(Admission, key)
  /\ UNCHANGED <<used, over, riseAt, told, now>>

(***************************************************************************)
(* MultiAlerter.send: the sinks in turn, whatever becomes of each.         *)
(***************************************************************************)
\* Whether a sink gets the alert: the log always does, and a webhook that fails
\* or times out reports that to the log and to nobody else.
Arrives(sink) == {TRUE} \cup {sink \notin Flaky}

\* Mutant: a webhook without a timeout.
DeliverHangs(t) ==
  /\ Sending(t) /\ sending[t] # <<>> /\ Head(sending[t]) \notin Flaky
  /\ told' = IF t = Dog THEN Put(told, Head(sending[t]), now) ELSE told
  /\ sending' = [sending EXCEPT ![t] = Tail(@)]
  /\ UNCHANGED <<used, over, riseAt, lastSent, now>>

Deliver(t) ==
  /\ Sending(t) /\ sending[t] # <<>>
  /\ LET sink == Head(sending[t]) IN
     \E arrives \in Arrives(sink) :
       told' = IF arrives /\ t = Dog THEN Put(told, sink, now) ELSE told
  /\ sending' = [sending EXCEPT ![t] = Tail(@)]
  /\ UNCHANGED <<used, over, riseAt, lastSent, now>>

\* send returns.  The watchdog sends only when it found the card over the line.
Sent(t) ==
  /\ Sending(t) /\ sending[t] = <<>>
  /\ sending' = Restrict(sending, DOMAIN sending \ {t})
  /\ over' = (over \/ t = Dog)
  /\ UNCHANGED <<used, riseAt, lastSent, told, now>>

UsageMoves ==
  /\ \E level \in Levels \ {used} : used' = level
  /\ UNCHANGED <<over, riseAt, lastSent, sending, told, now>>

Tick ==
  /\ now < MaxTime
  /\ now' = now + 1
  /\ UNCHANGED <<used, over, riseAt, lastSent, sending, told>>

Init ==
  /\ used \in Levels
  /\ over = FALSE /\ riseAt = 0
  /\ lastSent = Empty /\ told = Empty /\ sending = Empty
  /\ now = 0

Next ==
  \/ CheckOnce
  \/ \E key \in Refusals : Refuse(key)
  \/ \E t \in Sender : Deliver(t) \/ Sent(t)
  \/ UsageMoves
  \/ Tick

Spec == Init /\ [][Next]_vars

\* The poll loop comes round again and again, and a probe that fails only puts
\* a poll off; a send returns, because every sink has a timeout.
FairSpec ==
  /\ Spec
  /\ SF_vars(CheckOnce)
  /\ \A t \in Sender : WF_vars(Deliver(t) \/ Sent(t))

(***************************************************************************)
(* Properties.                                                             *)
(***************************************************************************)
Reliable == Range(Sinks) \ Flaky

Times == 0 .. MaxTime

TypeOK ==
  /\ used \in Levels /\ over \in BOOLEAN
  /\ \E K \in SUBSET (Refusals \cup {WatchKey}) : lastSent \in [K -> Times]
  /\ \E T \in SUBSET Sender : sending \in [T -> Seq(Range(Sinks))]
  /\ \E S \in SUBSET Range(Sinks) : told \in [S -> Times]
  /\ now \in Times /\ riseAt \in Times

\* Nobody is left in the dark: while the watchdog holds the card to be over the
\* line, every sink that works got its alert less than a window before this
\* excursion began, or since.  Neither a sink that fails, nor the refusals that
\* go through the same rate limiter, can swallow it.
Told ==
  over => \A s \in Reliable : s \in DOMAIN told /\ riseAt - told[s] < Window

\* "A sustained excursion produces one alert, not one per poll" (watchdog.py):
\* nothing is delivered for an excursion that the watchdog already knows.
OneAlertPerExcursion == [][told' # told => ~ over]_vars

\* The flag that arms the next alert follows the card: overuse that lasts is
\* noticed, and a recovery that lasts re-arms the watchdog.
FollowsTheCard ==
  /\ used > SafeLine ~> (over \/ used <= SafeLine)
  /\ used <= SafeLine ~> (~ over \/ used > SafeLine)

\* "One alert per excursion over the safe line, re-armed when usage drops back
\* under" (tests/test_watchdog.py), for excursions that outlast the window.
SustainedIsAlerted ==
  over /\ now - riseAt >= Window =>
    \A s \in Reliable : s \in DOMAIN told /\ told[s] >= riseAt

=============================================================================
