SPECIFICATION FairSpec
CONSTANTS
  c1 = c1
  c2 = c2
  Clients <- TwoClients
  BufLen = 1
  WithExchange = FALSE
  MaxRows = 2
  MaxFaults = 1
INVARIANT TypeOK Gapless ListenerServes RefsExact
CHECK_DEADLOCK FALSE
PROPERTY EventuallyDelivered
