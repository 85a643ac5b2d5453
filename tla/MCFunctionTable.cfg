\* Files of up to three routines of size 0 to 2 in five addresses: nested,
\* overlapping, back to back, separated, and wrapping round the end.
SPECIFICATION SitesSpec
CONSTANTS
  AddressSpace = 5
  Files <- MCFiles
  MaxLines = 3
  MaxSize = 2
  TrackedLines = 2
  TrackedFiles <- MCTracked
  Names <- MCNames
  KeyIds = {7}
  MaxSites = 4
  MaxFall = 3
INVARIANTS
  CacheTransparent
  InteriorExact
  SitesFollowPath
  DepthIsHeight
