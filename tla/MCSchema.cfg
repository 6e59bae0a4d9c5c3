SPECIFICATION MCSpec
CONSTANTS
  Texts <- TextNames
  Utf8Length <- TextUtf8
  Grammar <- TextGrammar
  UINT64_MAX = 1000
  MAX_CONTACT_BYTES = 12288
  MAX_ALSO_KNOWN_AS = 2
  MAX_SERVICES = 3
  Calls <- CallsDef
INVARIANTS
  ValidatorsConform
  KeyCodesTellWhatIsWrong
  BuiltBodiesConform
  UriIsItsParts
  Ipv6HasEightGroups
  LanguageTagsAreOrdered
CHECK_DEADLOCK FALSE
