\* The address is published twice; the second can overlap a read of the first.
CONSTANTS
  Bits = {0, 1}
  DpBit = 0
  H = 2
  MaxSets = 2
  Addrs <- MCAddrs
SPECIFICATION Spec
INVARIANT DpAddrNotTorn
