SPECIFICATION MCSpec
CONSTANTS
  TILE_HEIGHT = 2
  MAX_LEVEL = 3
  MaxSize = 10
  CaKey = CaKey
  OtherKey = OtherKey
  Base = 4
  U64_LEN = 1
  HASH_LEN = 1
  DEFAULT_MAX_DEPTH = 2
  IPV4_LEN = 1
  IPV6_LEN = 2
  SCALAR_LEN = 1
  ClaimInputs <- MCClaimInputs
  MaxClaims = 2
  PublicKeys <- MCPublicKeys
  Ids <- MCIds
  Sizes = {0, 1}
  Times = {1}
  Hashes <- MCHashes
  SigningKeys <- MCSigningKeys
  VerifyingKeys <- MCVerifyingKeys
  MaxSigned = 2
  MaxDamages = 2
INVARIANTS
  CodecIsBijection
  VerifiedWasSigned
  ProofsDecideMembership
  TilesServeTheLog
  ConsistencyMeansPrefix
  RangesDecompose
PROPERTY
  TilesNeverRewritten
CHECK_DEADLOCK FALSE
