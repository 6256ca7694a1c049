SPECIFICATION FairSpec
CONSTANTS
  Ids = {u1}
  Relays = {r1, r2}
  Batch = 2
  MaxTx = 3
  MaxStream = 2
INVARIANTS TypeOK CausalOrder SerialHistoryTold
PROPERTIES ImplementsAtLeastOnce
