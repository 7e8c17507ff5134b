---------------------------- MODULE MCDownloads ----------------------------
(* Constants of the runs of Downloads.                                     *)
EXTENDS Downloads, TLC

CONSTANTS c1, c2, i1, i2

\* Two objects for one chapter: removed and added again.
OneChapterKey == [i \in Items |-> c1]
FirstPicture == {<<c1, 1>>}
ChapterPictures == Chapters \X (1..N)

\* Coroutines and loads are told apart by what they do only.
Coroutines == Permutations(Workers) \cup Permutations(Loaders)
=============================================================================
