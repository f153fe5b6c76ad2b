CONSTANTS
  a = a
  b = b
  Files = {a, b}
  Settings <- OneOrTwoFiles
  Directory = features
  MaxMishaps = 1
  handwritten = handwritten
  edited = edited
  None = None
SPECIFICATION Spec
PROPERTIES
  NoRollback
  UserTextKept
  MetadataLast
  OutputFollowsSources
CHECK_DEADLOCK FALSE
