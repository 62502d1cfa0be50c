CONSTANTS
  Providers <- AllProviders
  Decks <- SlideCounts
  Tags <- AllTags
  PrimaryOf <- Primary
  LanguageLists <- UpToTwo
SPECIFICATION Spec
INVARIANT NeverDisagree
