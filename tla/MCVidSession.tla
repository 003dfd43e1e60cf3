---------------------------- MODULE MCVidSession ----------------------------
(***************************************************************************)
(* Small instances of VidSession: the kinds of file, and what a user does. *)
(***************************************************************************)
EXTENDS VidSession

film   == [video |-> TRUE, audio |-> TRUE]
silent == [video |-> TRUE, audio |-> FALSE]
music  == [video |-> FALSE, audio |-> TRUE]

AnyFile == {film, silent, music}
SilentFilms == {silent}
Music == {music}

AllActs == {"open", "toggle", "seek", "abort"}
Seeking == {"open", "seek"}
SeekingAndAborting == {"open", "seek", "abort"}
=============================================================================
