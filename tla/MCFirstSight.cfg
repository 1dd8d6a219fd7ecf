\* Two callers of one key, one of another, and a restart at any moment, with
\* the fairness of the event loop.
CONSTANTS
  k1 = k1
  k2 = k2
  c1 = c1
  c2 = c2
  c3 = c3
  Keys = {k1, k2}
  Callers = {c1, c2, c3}
  KeyOf <- MCKeyOf
  MaxRestarts = 1
  NoCaller = NoCaller
SPECIFICATION FairSpec
INVARIANTS
  SpendOnce
  FlightInv
PROPERTY AllAnswered
