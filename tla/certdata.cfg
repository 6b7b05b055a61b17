CONSTANTS
  Texts <- MCTexts
  Blacklists <- MCBlacklists
  FileName <- MCFileName
SPECIFICATION Spec
INVARIANTS TypeOK ObjectsAsWritten TrustedOnlyAsSaid DistrustHolds BlacklistHolds
