SPECIFICATION KSpec
CONSTANTS
  Items <- MCItems
  Damage <- MCDamage
  Fragments <- MCFragments
  Noise <- MCNoise
  MaxHarm = 2
INVARIANTS RoundTrip DamageRejected CanonicalEncoding AcceptedIsReceived
CHECK_DEADLOCK FALSE
