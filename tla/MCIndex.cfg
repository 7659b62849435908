SPECIFICATION Spec
CONSTANTS
  Words = {a, b}
  numFiles = 2
  Rank <- Backwards
  MaxLines = 3
  MaxWords = 5
INVARIANTS
  TypeOK
  PostsDescribeText
  DocumentsAreLines
  CountAnswersRight
  SearchComplete
CHECK_DEADLOCK FALSE
