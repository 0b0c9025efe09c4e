CONSTANTS
  alice = alice
  bob = bob
  a1 = a1
  a2 = a2
  b1 = b1
  h1 = h1
  h2 = h2
  Identity = {alice}
  Track = {a1}
  Handler = {h1}
  IdentityOf <- AliceOnly
  None = None
SPECIFICATION PacketSpec
PROPERTIES
  BridgeStops
  CallersReturn
