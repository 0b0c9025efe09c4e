CONSTANTS
  alice = alice
  bob = bob
  a1 = a1
  a2 = a2
  b1 = b1
  h1 = h1
  h2 = h2
  Identity = {alice, bob}
  Track = {a1, b1}
  Handler = {h1, h2}
  IdentityOf <- AliceAndBob
  None = None
SPECIFICATION Spec
INVARIANTS
  TypeOK
PROPERTIES
  RunEndsTracks
  
  RegistrySpec
SYMMETRY Swaps
