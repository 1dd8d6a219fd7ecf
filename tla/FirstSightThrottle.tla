------------------------- MODULE FirstSightThrottle -------------------------
(***************************************************************************)
(* The global throughput reservation of first-sight scoring                *)
(* (lib/first-sight-throttle.ts): an in-memory sliding window of the times *)
(* at which an ingest was allowed.  checkGlobalFirstSightBudget() runs     *)
(* without an await, so each call is one step.                             *)
(***************************************************************************)
EXTENDS Integers, Sequences

CONSTANTS
  WINDOW_MS,        \* the length of the window, in clock ticks
  MAX_PER_WINDOW,   \* the ingests allowed in it
  ClockSteps,       \* by how much Date.now() may advance between two calls
  LastMs            \* bound of the model: the clock stops there

\* The clock is taken not to run backwards.
ASSUME ThrottleAssumption ==
  /\ WINDOW_MS \in Nat
  /\ MAX_PER_WINDOW \in Nat \ {0}
  /\ ClockSteps \subseteq Nat
  /\ LastMs \in Nat

VARIABLES
  millis,       \* Date.now()
  timestamps,   \* the array of the module
  verdict,      \* what the last call returned
  grants        \* history: the time of every call that returned true

throttleVars == <<millis, timestamps, verdict, grants>>

ThrottleInit ==
  /\ millis = 0
  /\ timestamps = <<>>
  /\ verdict = "allowed"
  /\ grants = <<>>

ClockMoves ==
  /\ \E d \in ClockSteps : millis' = millis + d /\ millis' <= LastMs
  /\ UNCHANGED <<timestamps, verdict, grants>>

ShiftsInclusive(k) ==
  /\ \A i \in 1 .. k : millis - timestamps[i] >= WINDOW_MS
  /\ k < Len(timestamps) => millis - timestamps[k + 1] < WINDOW_MS

\* The loop shifts k stamps: it goes on while the head is out of the window.
Shifts(k) ==
  /\ \A i \in 1 .. k : millis - timestamps[i] > WINDOW_MS
  /\ k < Len(timestamps) => millis - timestamps[k + 1] <= WINDOW_MS

\* The stamps left when the loop has shifted k of them.
Live(k) == SubSeq(timestamps, k + 1, Len(timestamps))

Allow(k) ==
  /\ Shifts(k)
  /\ Len(Live(k)) < MAX_PER_WINDOW
  /\ timestamps' = Append(Live(k), millis)
  /\ grants' = Append(grants, millis)
  /\ verdict' = "allowed"
  /\ UNCHANGED millis

RefuseAndStamp(k) ==
  /\ Shifts(k)
  /\ Len(Live(k)) = MAX_PER_WINDOW
  /\ timestamps' = Append(Live(k), millis)
  /\ verdict' = "refused"
  /\ UNCHANGED <<millis, grants>>

Refuse(k) ==
  /\ Shifts(k)
  /\ Len(Live(k)) >= MAX_PER_WINDOW
  /\ timestamps' = Live(k)
  /\ verdict' = "refused"
  /\ UNCHANGED <<millis, grants>>

CheckBudget == \E k \in 0 .. Len(timestamps) : Allow(k) \/ Refuse(k)

ThrottleNext == ClockMoves \/ CheckBudget

ThrottleSpec == ThrottleInit /\ [][ThrottleNext]_throttleVars

----------------------------------------------------------------------------
\* Type invariant: the array never holds more than the window admits.
ThrottleTypeOK ==
  /\ millis \in 0 .. LastMs
  /\ timestamps \in Seq(Nat)
  /\ Len(timestamps) <= MAX_PER_WINDOW
  /\ verdict \in {"allowed", "refused"}
  /\ grants \in Seq(Nat)

\* "Reserves a fixed fraction of the account's throughput"
\* (first-sight-throttle.ts:12): whatever the calls' timing, no window of
\* WINDOW_MS holds more than MAX_PER_WINDOW ingests.
WindowRespected ==
  \A i \in 1 .. Len(grants) :
    i + MAX_PER_WINDOW <= Len(grants) =>
      grants[i + MAX_PER_WINDOW] - grants[i] > WINDOW_MS

\* A caller is refused only if the budget of the window that ends now is spent
\* (first-sight-throttle.ts:32-35): MAX_PER_WINDOW ingests were allowed in it.
RefusalJustified ==
  [][ verdict' = "refused" /\ millis' = millis =>
        /\ Len(grants) >= MAX_PER_WINDOW
        /\ millis - grants[Len(grants) - MAX_PER_WINDOW + 1] <= WINDOW_MS ]_throttleVars

\* The array is the end of the history, what was shifted out is out of the
\* window, and the history is in the order of the clock.
WindowInv ==
  LET dropped == Len(grants) - Len(timestamps) IN
  /\ dropped >= 0
  /\ \A i \in 1 .. Len(timestamps) : timestamps[i] = grants[dropped + i]
  /\ \A i \in 1 .. dropped : millis - grants[i] > WINDOW_MS
  /\ \A i \in 1 .. Len(grants) : grants[i] <= millis

ThrottleInv == ThrottleTypeOK /\ WindowInv /\ WindowRespected
=============================================================================
