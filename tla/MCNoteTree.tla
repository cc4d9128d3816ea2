----------------------------- MODULE MCNoteTree -----------------------------
(* A small instance of NoteTree for TLC: every kind of submission.         *)
EXTENDS NoteTree
=============================================================================
