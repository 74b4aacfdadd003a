SPECIFICATION UpdateFairSpec
CONSTANTS
  u1 = u1
  u2 = u2
  u3 = u3
  e1 = e1
  e2 = e2
  s1 = s1
  NoUpdate = NoUpdate
  Update = {u1, u2, u3}
  Entry = {e1, e2}
  Stripe = {s1}
  Shared = {e2}
  EntryOf <- MCEntryOf
  StripeOf <- MCStripeOf
  MaxClock = 3
  MaxRevision = 1
PROPERTIES
  CheckSeesReviewed
  NoLostUpdate
  OverwritesAreRaces
  EveryUpdateIsAnswered
CHECK_DEADLOCK FALSE
