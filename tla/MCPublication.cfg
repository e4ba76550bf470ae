SPECIFICATION Spec
CONSTANTS
  file = file  second = second
  Ids = {1, 2}
  Names = {file, second}
  Known = {1}
  Numbered <- Tried
  Variants <- OneVariant
  NoName = NoName
INVARIANTS TypeOK  CompletedIsFound
PROPERTIES NothingOverwritten
