---------------------------- MODULE MCSeekEngine ----------------------------
(***************************************************************************)
(* Small instances of SeekEngine: films with and without a picture.        *)
(***************************************************************************)
EXTENDS SeekEngine

AnyFilm == {TRUE, FALSE}
MusicOnly == {FALSE}
=============================================================================
