CONSTANTS
  Url <- GolangUrl
  Root = "golang"
  Webs <- ThreePageWebs
SPECIFICATION ChannelSpec
INVARIANTS ChannelTypeOK FetchedOnce CountsOutstanding NobodyLeftBehind
PROPERTIES ChannelImplementsCrawl
