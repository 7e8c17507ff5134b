--------------------------- MODULE Favorites_proofs ---------------------------
(***************************************************************************)
(* Theorems about Favorites, for every number of books, chapters, items    *)
(* and edits.                                                              *)
(*                                                                         *)
(* The row is the list of its writer: a change of a list writes the row    *)
(* whole, the other isolate's change makes the other the writer, and what  *)
(* the destroyed library does not write belongs to a list nobody reads     *)
(* again. For that the background isolate must not have written before its *)
(* library is up, and an answer that saves nothing must change nothing.    *)
(***************************************************************************)
EXTENDS Favorites, TLAPS

(* Every check is one of an isolate, and each isolate has a list.          *)
Owned ==
  /\ \A c \in checks : c.proc \in Isolates
  /\ items = [p \in Isolates |-> items[p]]

(* The background isolate writes with its library only.                    *)
WritesWhenUp == writer = "bg" => lib # "none"

SavedInv == Owned /\ WritesWhenUp /\ SavedByWriter

-----------------------------------------------------------------------------

(* A step that changes neither lists nor row keeps everything.             *)
LEMMA SameLists ==
  ASSUME SavedInv, UNCHANGED <<items, row, writer, lib>>,
         \A c \in checks' : c \in checks \/ c.proc \in Isolates
  PROVE  SavedInv'
  BY DEF SavedInv, Owned, WritesWhenUp, SavedByWriter

(* The new list of isolate p, written or not.                              *)
LEMMA WriteSaves ==
  ASSUME SavedInv, NEW p \in Isolates, NEW its, Write(p, its), lib' = lib,
         items' = [items EXCEPT ![p] = its],
         \A c \in checks' : c \in checks \/ c.proc \in Isolates
  PROVE  SavedInv'
<1>1. items' = [q \in Isolates |-> IF q = p THEN its ELSE items[q]]
  BY DEF SavedInv, Owned
<1>2. Owned'
  BY <1>1 DEF SavedInv, Owned
<1>3. CASE p = "app" \/ lib = "up"
  BY <1>1, <1>2, <1>3 DEF Write, SavedInv, WritesWhenUp, SavedByWriter, Isolates
<1>4. CASE p = "bg" /\ lib # "up"
  BY <1>1, <1>2, <1>4 DEF Write, SavedInv, WritesWhenUp, SavedByWriter, Isolates
<1> QED  BY <1>3, <1>4 DEF Isolates

(* A list that reads as it did needs no writing.                           *)
LEMMA SameEncoding ==
  ASSUME SavedInv, NEW p \in Isolates, NEW its, Encoded(its) = Encoded(items[p]),
         items' = [items EXCEPT ![p] = its], UNCHANGED <<row, writer, lib>>,
         \A c \in checks' : c \in checks \/ c.proc \in Isolates
  PROVE  SavedInv'
<1>1. items' = [q \in Isolates |-> IF q = p THEN its ELSE items[q]]
  BY DEF SavedInv, Owned
<1>2. Owned' /\ WritesWhenUp'
  BY <1>1 DEF SavedInv, Owned, WritesWhenUp
<1>3. \A q \in Isolates : Encoded(items'[q]) = Encoded(items[q])
  BY <1>1
<1>4. "app" \in Isolates /\ "bg" \in Isolates
  BY DEF Isolates
<1>5. Encoded(items["app"])' = Encoded(items["app"]) /\ Encoded(items["bg"])' = Encoded(items["bg"])
  BY <1>3, <1>4 DEF Encoded
<1>6. SavedByWriter'
  BY <1>5 DEF SavedInv, SavedByWriter
<1> QED  BY <1>2, <1>6 DEF SavedInv

(* Going on with the alarm starts checks of the background isolate only.   *)
LEMMA AlarmChecks ==
  ASSUME NEW its, NEW i, NEW cs, AlarmOn(its, i, cs)
  PROVE  \A c \in checks' : c \in cs \/ c.proc \in Isolates
  BY DEF AlarmOn, Request, Isolates

(* So does the loop for its own isolate.                                   *)
LEMMA VisitChecks ==
  ASSUME NEW p \in Isolates, NEW i, NEW t, Visit(p, i, t)
  PROVE  /\ UNCHANGED <<items, row, writer, lib>>
         /\ \A c \in checks' : c \in checks \/ c.proc \in Isolates
  BY DEF Visit, Request

(* The caller of a check that ends starts none but the alarm's next.       *)
LEMMA ContinueChecks ==
  ASSUME NEW c, NEW its, Continue(c, its)
  PROVE  \A k \in checks' : k \in checks \/ k.proc \in Isolates
<1>1. CASE c.by = "alarm"
  <2>1. CASE AlarmOn(its, alarm.i + 1, checks \ {c})
    <3>1. \A k \in checks' : k \in checks \ {c} \/ k.proc \in Isolates
      BY <2>1, AlarmChecks
    <3> QED  BY <3>1
  <2>2. CASE checks' = checks \ {c}
    BY <2>2
  <2> QED  BY <2>1, <2>2 DEF Continue
<1>2. CASE c.by # "alarm"
  BY <1>2 DEF Continue
<1> QED  BY <1>1, <1>2

(* An answer changes a list and saves it, or reads as before.              *)
LEMMA ArriveSaves ==
  ASSUME SavedInv, NEW c \in checks, NEW v, Arrive(c, v)
  PROVE  SavedInv'
<1> DEFINE its == items[c.proc]
           j == IndexOfId(its, c.id)
           now == IF j = 0 THEN its ELSE [its EXCEPT ![j] = Checked(@, c.by, v)]
<1>1. /\ c.proc \in Isolates /\ items' = [items EXCEPT ![c.proc] = now] /\ lib' = lib
      /\ Continue(c, now)
  BY DEF Arrive, SavedInv, Owned
<1>2. \A k \in checks' : k \in checks \/ k.proc \in Isolates
  BY <1>1, ContinueChecks
<1>3. CASE Write(c.proc, now)
  <2> HIDE DEF now
  <2> QED  BY <1>1, <1>2, <1>3, WriteSaves
<1>4. CASE ~(j # 0 /\ (c.by = "first" \/ its[j].last # v)) /\ UNCHANGED <<row, writer>>
  <2>1. Encoded(now) = Encoded(its)
    <3>1. CASE j = 0
      BY <3>1
    <3>2. CASE j # 0 /\ c.by # "first" /\ its[j].last = v
      <4>1. Checked(its[j], c.by, v) = its[j]
        BY <3>2 DEF Checked
      <4>2. DOMAIN now = DOMAIN its /\ \A x \in DOMAIN its : now[x] = its[x]
        BY <3>2, <4>1
      <4> HIDE DEF now, its
      <4> QED  BY <4>2 DEF Encoded
    <3> QED  BY <1>4, <3>1, <3>2
  <2> HIDE DEF now
  <2> QED  BY <1>1, <1>2, <1>4, <2>1, SameEncoding
<1> QED  BY <1>3, <1>4 DEF Arrive

(* An edit of the list is written.                                         *)
LEMMA EditSaves ==
  ASSUME SavedInv, NEW its, NEW sh, Edit(its, sh),
         \A c \in checks' : c \in checks \/ c.proc \in Isolates
  PROVE  SavedInv'
  BY WriteSaves DEF Edit, Isolates

(* The alarm writes nothing, and its manager is not the writer yet.        *)
LEMMA BackgroundSaves == SavedInv /\ BackgroundStep => SavedInv'
<1> SUFFICES ASSUME SavedInv, BackgroundStep PROVE SavedInv'
  OBVIOUS
<1>1. CASE FirstAlarm
  <2>1. /\ lib = "none" /\ lib' = "up" /\ UNCHANGED <<row, writer>>
        /\ items' = [items EXCEPT !["bg"] = Constructed(row)]
        /\ \A c \in checks' : c \in checks \/ c.proc \in Isolates
    BY <1>1, AlarmChecks DEF FirstAlarm
  <2>2. items' = [q \in Isolates |-> IF q = "bg" THEN Constructed(row) ELSE items[q]]
    BY <2>1 DEF SavedInv, Owned
  <2>3. Owned'
    BY <2>1, <2>2 DEF SavedInv, Owned
  <2>4. writer # "bg" /\ items'["app"] = items["app"]
    BY <2>1, <2>2 DEF SavedInv, WritesWhenUp, Isolates
  <2> QED  BY <2>1, <2>3, <2>4 DEF SavedInv, WritesWhenUp, SavedByWriter
<1>2. CASE NextAlarm
  BY <1>2, AlarmChecks, SameLists DEF NextAlarm
<1>3. CASE PluginsReady
  BY <1>3, SameLists DEF PluginsReady
<1>4. CASE AlarmEnds
  <2>1. UNCHANGED <<items, row, writer, checks>> /\ (lib' = "down" \/ lib' = lib)
    BY <1>4 DEF AlarmEnds
  <2> QED  BY <2>1 DEF SavedInv, Owned, WritesWhenUp, SavedByWriter
<1> QED  BY <1>1, <1>2, <1>3, <1>4 DEF BackgroundStep

(* Everything the user and the plugins do in the app is written.           *)
LEMMA EditStepSaves == SavedInv /\ EditStep => SavedInv'
<1> SUFFICES ASSUME SavedInv, EditStep PROVE SavedInv'
  OBVIOUS
<1>1. ASSUME NEW b \in Books, NEW last, Add(b, last) PROVE SavedInv'
  <2>1. \E its, sh : Edit(its, sh)
    BY <1>1 DEF Add
  <2>2. \A c \in checks' : c \in checks \/ c.proc \in Isolates
    BY <1>1 DEF Add, Request, Isolates
  <2> QED  BY <2>1, <2>2, EditSaves
<1>2. ASSUME NEW b \in Books, NEW byPlugin \in BOOLEAN, RemoveBook(b, byPlugin) PROVE SavedInv'
  <2>1. checks' = checks /\ \E its, sh : Edit(its, sh)
    BY <1>2 DEF RemoveBook
  <2> QED  BY <2>1, EditSaves
<1>3. ASSUME NEW b \in Books, ClearNew(b) PROVE SavedInv'
  <2>1. checks' = checks /\ \E its, sh : Edit(its, sh)
    BY <1>3 DEF ClearNew
  <2> QED  BY <2>1, EditSaves
<1>4. CASE Clear
  <2>1. checks' = checks /\ \E its, sh : Edit(its, sh)
    BY <1>4 DEF Clear
  <2> QED  BY <2>1, EditSaves
<1>5. ASSUME NEW j, MoveToFirst(j) PROVE SavedInv'
  <2>1. checks' = checks /\ \E its, sh : Edit(its, sh)
    BY <1>5 DEF MoveToFirst
  <2> QED  BY <2>1, EditSaves
<1>6. CASE MoveShown
  <2>1. checks' = checks /\ \E its, sh : Edit(its, sh)
    BY <1>6 DEF MoveShown
  <2> QED  BY <2>1, EditSaves
<1>7. CASE (\E bs \in SUBSET Books : ImportOpen(bs)) \/ ImportCancel
  <2>1. UNCHANGED <<items, row, writer, lib, checks>>
    BY <1>7 DEF ImportOpen, ImportCancel
  <2> QED  BY <2>1, SameLists
<1>8. CASE ImportConfirm
  <2>1. checks' = checks /\ \E its, sh : Edit(its, sh)
    BY <1>8 DEF ImportConfirm
  <2> QED  BY <2>1, EditSaves
<1> QED  BY <1>1, <1>2, <1>3, <1>4, <1>5, <1>6, <1>7, <1>8 DEF EditStep

(* Every step keeps the row the list of its writer.                        *)
LEMMA NextSaves == SavedInv /\ [Next]_vars => SavedInv'
<1> SUFFICES ASSUME SavedInv, [Next]_vars PROVE SavedInv'
  OBVIOUS
<1>1. ASSUME NEW p \in Isolates, LoopNext(p) \/ LoopAgain(p) PROVE SavedInv'
  <2>1. \E i, t : Visit(p, i, t)
    BY <1>1 DEF LoopNext, LoopAgain
  <2> QED  BY <2>1, VisitChecks, SameLists
<1>2. ASSUME NEW c \in checks, CheckFails(c) PROVE SavedInv'
  BY <1>2, ContinueChecks, SameLists DEF CheckFails
<1>3. ASSUME NEW c \in checks, NEW v, Arrive(c, v) PROVE SavedInv'
  BY <1>3, ArriveSaves
<1>4. CASE BackgroundStep
  BY <1>4, BackgroundSaves
<1>5. CASE EditStep
  BY <1>5, EditStepSaves
<1>6. CASE (\E b \in Books : Publish(b)) \/ UNCHANGED vars
  BY <1>6, SameLists DEF Publish, vars
<1>7. CASE Restart
  BY <1>7, NoneAssumption
     DEF Restart, FirstItems, SavedInv, Owned, WritesWhenUp, SavedByWriter, Isolates
<1> QED  BY <1>1, <1>2, <1>3, <1>4, <1>5, <1>6, <1>7 DEF Next

(* The list of whoever wrote the row last is in the row, as it is now, for *)
(* every interleaving of the two isolates (FavoritesManager, checkNew,     *)
(* _checkFavorites, Glib.destroy).                                         *)
THEOREM RowIsItsWriters == Spec => []SavedByWriter
<1>1. Init => SavedInv
  BY NoneAssumption
     DEF Init, FirstItems, SavedInv, Owned, WritesWhenUp, SavedByWriter, Isolates
<1>2. SavedInv => SavedByWriter
  BY DEF SavedInv
<1> QED  BY <1>1, <1>2, NextSaves, PTL DEF Spec
=============================================================================
