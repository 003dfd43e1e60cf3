\* Are seeks done in the order they were made, and do they come to an end?
CONSTANTS
  Films <- AnyFilm
  MaxSeeks = 3
  MaxEnds = 1
SPECIFICATION FairSpec
INVARIANT TypeOK
PROPERTIES SeeksInOrder SeeksSettle
