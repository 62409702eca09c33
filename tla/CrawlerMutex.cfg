CONSTANTS
  Url <- GolangUrl
  Root = "golang"
  Webs <- TestWebs
SPECIFICATION MutexSpec
INVARIANTS MutexTypeOK FetchedOnce WaitGroupCounts
PROPERTIES MutexImplementsCrawl
