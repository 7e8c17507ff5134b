---------------------------- MODULE DownloadList ----------------------------
(***************************************************************************)
(* What the download queue of lib/utils/download_manager.dart promises:    *)
(* a list of items, each paused, downloading or complete. An item becomes  *)
(* complete only when every picture of its chapter is kept, a picture once *)
(* kept stays, nothing downloads for ever, and the end of the process      *)
(* pauses what was downloading and loses no item and no completion.        *)
(*                                                                         *)
(* There are no coroutines, listeners, files or rows here: Downloads has   *)
(* them, and implements this.                                              *)
(***************************************************************************)
EXTENDS Naturals

CONSTANTS
  Chapters,  \* the chapters
  N,         \* the number of pictures in a chapter
  Items,     \* the items
  KeyOf,     \* KeyOf[i]: the chapter of item i
  Legacy     \* items of old versions, at most one for a chapter

VARIABLES
  list,    \* the items of the queue
  status,  \* status[i]: what the item shows
  kept     \* the pictures that are kept, <<chapter, number>>

listVars == <<list, status, kept>>

PicturesOf(i) == {<<KeyOf[i], k>> : k \in 1..N}
ListedKeys == {KeyOf[i] : i \in list}

ListInit ==
  /\ list = Legacy
  /\ status = [i \in Items |-> "Paused"]
  /\ kept = {}

Becomes(i, s) == status' = [status EXCEPT ![i] = s]

(* A chapter that is not listed is added and starts at once.               *)
Request(i) ==
  /\ KeyOf[i] \notin ListedKeys
  /\ list' = list \cup {i}
  /\ Becomes(i, "Downloading")
  /\ UNCHANGED kept

Resume(i) ==
  /\ i \in list
  /\ status[i] = "Paused"
  /\ Becomes(i, "Downloading")
  /\ UNCHANGED <<list, kept>>

(* The user stops the item, its list does not load, or a coroutine of an   *)
(* earlier start ends.                                                     *)
Pause(i) ==
  /\ Becomes(i, "Paused")
  /\ UNCHANGED <<list, kept>>

Finish(i) ==
  /\ PicturesOf(i) \subseteq kept
  /\ Becomes(i, "Complete")
  /\ UNCHANGED <<list, kept>>

Drop(i) ==
  /\ i \in list
  /\ list' = list \ {i}
  /\ status' = [status EXCEPT ![i] = IF @ = "Downloading" THEN "Paused" ELSE @]
  /\ UNCHANGED kept

Keep(p) ==
  /\ kept' = kept \cup {p}
  /\ UNCHANGED <<list, status>>

(* The process ends and starts again: items of old versions whose chapters *)
(* are not listed come back, and an item that was complete once may show   *)
(* it again.                                                               *)
Reopen ==
  /\ list' = list \cup {i \in Legacy : KeyOf[i] \notin ListedKeys}
  /\ status' \in [Items -> {"Paused", "Complete"}]
  /\ \A i \in list' :
       /\ status'[i] = "Complete" => PicturesOf(i) \subseteq kept
       /\ i \in list /\ status[i] = "Complete" => status'[i] = "Complete"
  /\ UNCHANGED kept

ListNext ==
  \/ \E i \in Items : Request(i) \/ Resume(i) \/ Pause(i) \/ Finish(i) \/ Drop(i)
  \/ \E p \in Chapters \X (1..N) : Keep(p)
  \/ Reopen

(* No item downloads for ever: it is paused or removed, or it is complete. *)
Settles == \A i \in Items : status[i] = "Downloading" ~> status[i] # "Downloading"

ListSpec == ListInit /\ [][ListNext]_listVars
FairListSpec == ListSpec /\ Settles
=============================================================================
