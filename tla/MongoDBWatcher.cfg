CONSTANTS
  joined = joined
  feed = feed
  authors = authors
  books = books
  None = None
  Subs = {joined, feed}
  Feeds = {feed}
  Collections = {authors, books}
  ReadsFrom <- JoinReads
  MaxChanges = 3
SPECIFICATION Spec
INVARIANTS
  StreamServesListeners
  FeedHasNoGap
PROPERTIES
  ImplementsLiveQuery
CHECK_DEADLOCK FALSE
