SPECIFICATION FairSpec
CONSTANTS
  Channels <- MCChannels
  Setups <- MCSetups
  EventsAt <- MCEventsAt
INVARIANTS TypeOK PulsesFound ClustersComplete LastLineWins DecodedThisEvent FilterCopies
PROPERTY NextReturns
