SPECIFICATION FairSpec
CONSTANTS
  pcm = pcm
  opus = opus
  adpcm = adpcm
  Formats <- Known
  Supported <- Handled
  Offers <- TwoOffers
  Versions = {5, 6, 8}
  Peer <- EveryPeer
  MaxWaves = 4
  MaxQueue = 3
  MaxRounds = 2
INVARIANTS
  NeverStops
PROPERTIES
  ImplementsLink
  NegotiationEnds
