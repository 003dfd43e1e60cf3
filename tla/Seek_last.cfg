\* Is the newest of several seeks the one that is done in the end?
CONSTANTS
  Films <- AnyFilm
  MaxSeeks = 2
  MaxEnds = 1
SPECIFICATION Spec
INVARIANT LastSeekWins
