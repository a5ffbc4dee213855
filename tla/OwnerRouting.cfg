SPECIFICATION Spec
CONSTANTS
  ann = ann
  bob = bob
  p1 = p1
  p2 = p2
  p3 = p3
  c1 = c1
  c2 = c2
  Plays = {p1, p2, p3}
  Contacts = {c1, c2}
  ContactOf <- WhoOf
  SfIds = {l1, l2, l3}
  Owners = {ann, bob}
  Rank <- OwnerOrder
  Queues <- QueueNames
  CounterRows <- QueueNames
  Rules <- Territories
  CountryOf <- HomeOf
  Cap = 1
  Workers = 2
  MaxPosts = 2
  ReadErrors = FALSE
SYMMETRY Symmetry
INVARIANTS OverloadBounded OwnerSynced CounterBacked
CHECK_DEADLOCK FALSE
