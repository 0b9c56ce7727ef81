\* The address is published once; other doorbells are rung at any time.
CONSTANTS
  Bits = {0, 1}
  DpBit = 0
  H = 2
  MaxSets = 1
  Addrs <- MCAddrs
SPECIFICATION Spec
INVARIANTS DoorbellNotLost DpAddrNotTorn
PROPERTIES DoorbellDelivered
