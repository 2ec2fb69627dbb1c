SPECIFICATION MCSpec
CONSTANTS
  Symbols = {"mess", "age", "quote", "esc", "x", "n", "u", " ", ":", ",", "{", "}",
             "list[", "],", "null", "assets", "assets:[]}", ":[]}"}
  Frames <- MCFrames
  Bodies <- MCBodies
  Others <- MCOthers
  MaxBody = 2
  MaxDrops = 1
  Labels = {"factual", "gossip"}
  Intents = {"factual"}
  LocaleTags = {"ja", "it", "en", ""}
  SpokenLocales = {"ja", "en"}
  Usages = {0, 1, 2}
  IndexRankings <- MCRankings
  WebAnswers <- MCWebAnswers
  PageOf <- MCPages
  SemanticWeight = 4
  TextWeight = 1
  Unit = 6
  TopK = 2
  FallbackMin = 2
  WebLimit = 2
  SuggestionCount = 1
  Triggers = {"english"}
  Groundings <- MCGroundings
  FinalPage <- MCFinalPage
  Layout <- MCLayout
  MaxStreamEvents = 2
  Links = {"link1", "link2"}
  LinkTo <- MCLinkTo
  SlugOf <- MCSlugs
  Heads <- MCHeads
  Asked <- MCAsked
  TitleTtl = 2
  MaxTicks = 2
  MaxEdits = 1
  MaxCacheFaults = 1
INVARIANTS UsageAccounted AgreementWins SourcesListed CutsDoNotMatter StreamedAsPlain
PROPERTIES TitleStillTrue
CHECK_DEADLOCK FALSE
