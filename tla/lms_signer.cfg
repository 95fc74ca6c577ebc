SPECIFICATION Spec
CONSTANTS
  s1 = s1
  s2 = s2
  t1 = t1
  t2 = t2
  t3 = t3
  Signers = {s1, s2}
  Threads = {t1, t2, t3}
  SignerOf <- MCSignerOf
  Capacity = 3
  Stores <- MCStores
  MaxCrashes = 1
  MaxFaults = 1
INVARIANTS
  NoIndexReuse
  MarkCoversIssued
  SignsWhatItReserved
CONSTRAINT
  Serialised
