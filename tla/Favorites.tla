----------------------------- MODULE Favorites -----------------------------
(***************************************************************************)
(* The favorites of lib/utils/favorites_manager.dart, the page that edits  *)
(* them (lib/pages/favorites_page.dart), the functions a plugin calls      *)
(* (lib/utils/js_extensions.dart) and the background check of              *)
(* lib/utils/background_task.dart.                                         *)
(*                                                                         *)
(* The app and the background check run in two isolates of one process.    *)
(* Each has its own FavoritesManager: a list read from the row             *)
(* "favorite_items" when the manager is made, and written back whole after *)
(* every change, and a loop that asks the plugins for new chapters for     *)
(* ever. Nothing tells one isolate what the other has written.             *)
(***************************************************************************)
EXTENDS Integers, FiniteSets, FiniteSetsExt, SequencesExt

CONSTANTS
  None,
  Books,     \* the keys of the books
  Chapters,  \* the last chapter of a book is one of 1..Chapters (bounds Publish)
  MaxItems,  \* how many item objects there are (bounds the list of the app)
  Legacy,    \* a sequence of books: the collection table of old versions
  MaxEdits,  \* bounds how many edits and restarts a behavior has
  Edits,     \* what the user does: a subset of AllEdits
  Faults     \* what may go wrong: a subset of AllFaults

AllEdits == {"add", "remove", "clearNew", "clear", "move", "import"}
AllFaults == {"request", "fetch", "alarm", "restart"}

\* None is neither a book nor an isolate.
ASSUME NoneAssumption == None \notin Books \cup {"app", "bg"}
ASSUME BoundAssumption == Chapters \in Nat \ {0} /\ MaxItems \in Nat \ {0} /\ MaxEdits \in Nat
ASSUME LegacyAssumption == Legacy \in Seq(Books) /\ IsInjective(Legacy)
ASSUME EditsAssumption == Edits \subseteq AllEdits
ASSUME FaultsAssumption == Faults \subseteq AllFaults

VARIABLES
  latest,   \* latest[b]: the last chapter the server has of book b
  items,    \* items[p]: FavoritesManager().items.data in isolate p
  row,      \* the row "favorite_items"
  writer,   \* the isolate that wrote the row last, None since the process began
  loop,     \* loop[p]: where automaticCheckNew of isolate p is
  checks,   \* the calls of checkNew that wait for an answer
  shown,    \* an item the page still shows although it was removed
  import,   \* the books a pending import dialog would add, or None
  alarm,    \* where _checkFavorites of the background isolate is
  lib,      \* Base.scriptHandler of the background isolate
  ready,    \* whether PluginsManager of the background isolate is set up
  edits     \* the edits and restarts so far

vars == <<latest, items, row, writer, loop, checks, shown, import, alarm, lib, ready, edits>>

Isolates == {"app", "bg"}
Ids == 1..MaxItems

(* A FavCheckItem: its identity, its book, the last chapter it knows (0 is *)
(* the "..." of an item nobody has checked) and the red dot.               *)
Item == [id : Ids, book : Books, last : 0..Chapters, new : BOOLEAN]
SavedItem == [id : {0}, book : Books, last : 0..Chapters, new : BOOLEAN]
Loop == [at : {"off", "wait", "check", "sleep", "dead"}, i : 0..MaxItems, t : 0..MaxItems]
Check == [proc : Isolates, by : {"loop", "alarm", "first"}, id : Ids, book : Books,
          from : 1..Chapters]
Alarm == [at : {"idle", "check", "fetch"}, i : 0..MaxItems]

TypeOK ==
  /\ latest \in [Books -> 1..Chapters]
  /\ items \in [Isolates -> Seq(Item)]
  /\ row \in Seq(SavedItem)
  /\ writer \in Isolates \cup {None}
  /\ loop \in [Isolates -> Loop]
  /\ checks \subseteq Check
  /\ shown \in Item \cup {None}
  /\ import \in (SUBSET Books) \cup {None}
  /\ alarm \in Alarm
  /\ lib \in {"none", "up", "down"}
  /\ ready \in BOOLEAN
  /\ edits \in 0..MaxEdits

BooksOf(its) == {its[j].book : j \in DOMAIN its}
IndexOfId(its, id) == SelectInSeq(its, LAMBDA it : it.id = id)
IndexOfBook(its, b) == SelectInSeq(its, LAMBDA it : it.book = b)

(* toData() of every item, and fromData() of every entry: new objects.     *)
Encoded(its) == [j \in DOMAIN its |-> [its[j] EXCEPT !.id = 0]]
Decoded(r) == [j \in DOMAIN r |-> [r[j] EXCEPT !.id = j]]

(* The constructor: the row, then what the old collection has besides.     *)
Constructed(r) ==
  LET more == SelectSeq(Legacy, LAMBDA b : b \notin BooksOf(r))
  IN  Decoded(r \o [j \in DOMAIN more |->
        [id |-> 0, book |-> more[j], last |-> 1, new |-> FALSE]])

(* items.update() in isolate p. After Glib.destroy() s_call does nothing.  *)
Write(p, its) ==
  IF p = "app" \/ lib = "up"
  THEN row' = Encoded(its) /\ writer' = p
  ELSE UNCHANGED <<row, writer>>

-----------------------------------------------------------------------------
(* automaticCheckNew.                                                      *)

Request(p, by, it) == [proc |-> p, by |-> by, id |-> it.id, book |-> it.book,
                       from |-> latest[it.book]]

(* The loop of isolate p looks at index i of a pass over t items. An item  *)
(* is left alone when its chapter was recorded less than half an hour ago, *)
(* which any item that was ever checked may be; findPlugin throws while    *)
(* PluginsManager has no directory, and the loop catches it.               *)
SetUp(p) == p = "app" \/ ready
Visit(p, i, t) ==
  LET goes(at) == loop' = [loop EXCEPT ![p] = [at |-> at, i |-> i, t |-> t]]
      stops(at) == loop' = [loop EXCEPT ![p] = [at |-> at, i |-> 0, t |-> 0]]
  IN
  /\ \/ i > t /\ stops("sleep") /\ UNCHANGED checks
     \/ i <= t /\ i > Len(items[p]) /\ stops("dead") /\ UNCHANGED checks
     \/ /\ i <= t /\ i <= Len(items[p])
        /\ ~SetUp(p) \/ items[p][i].last # 0
        /\ goes("wait")
        /\ UNCHANGED checks
     \/ /\ i <= t /\ i <= Len(items[p])
        /\ SetUp(p)
        /\ goes("check")
        /\ checks' = checks \cup {Request(p, "loop", items[p][i])}
  /\ UNCHANGED <<latest, items, row, writer, shown, import, alarm, lib, ready, edits>>

(* Ten seconds after an item: the next one.                                *)
LoopNext(p) == loop[p].at = "wait" /\ Visit(p, loop[p].i + 1, loop[p].t)

(* A bug for LoopAgain: the last item is left out.                         *)
LoopAgainShort(p) ==
  loop[p].at = "sleep" /\ Visit(p, 1, IF items[p] = <<>> THEN 0 ELSE Len(items[p]) - 1)

(* A pass begins, when the manager is made and twenty minutes after the    *)
(* last one.                                                               *)
LoopAgain(p) == loop[p].at = "sleep" /\ Visit(p, 1, Len(items[p]))

-----------------------------------------------------------------------------
(* _callback and _checkFavorites of the background isolate.                *)

(* _checkFavorites goes on at index i of its, where cs are the checks      *)
(* under way: it passes over items with a dot and items checked lately.    *)
(* Where findPlugin throws, or the plugin does not make a Processor,       *)
(* nothing catches it and the callback ends.                               *)
AlarmOn(its, i, cs) ==
  LET passed(k) == its[k].new \/ its[k].last # 0 IN
  \/ /\ \A k \in i..Len(its) : passed(k)
     /\ alarm' = [at |-> "fetch", i |-> 0]
     /\ checks' = cs
  \/ \E j \in i..Len(its) :
       /\ ~its[j].new
       /\ \A k \in i..(j - 1) : passed(k)
       /\ \/ /\ ~ready \/ "request" \in Faults
             /\ alarm' = [at |-> "idle", i |-> 0]
             /\ checks' = cs
          \/ /\ ready
             /\ alarm' = [at |-> "check", i |-> j]
             /\ checks' = cs \cup {Request("bg", "alarm", its[j])}

(* The first alarm of the process: Glib is set up, FavoritesManager is     *)
(* made and its loop started, and PluginsManager is not set up before the  *)
(* callback returns to the event loop.                                     *)
FirstAlarm ==
  LET its == Constructed(row) IN
  /\ "alarm" \in Faults
  /\ lib = "none"
  /\ lib' = "up"
  /\ items' = [items EXCEPT !["bg"] = its]
  /\ loop' = [loop EXCEPT !["bg"].at = "sleep"]
  /\ AlarmOn(its, 1, checks)
  /\ UNCHANGED <<latest, row, writer, shown, import, ready, edits>>

(* A later alarm: Glib.setup returns at once, destroyed or not, and the    *)
(* manager is the one of the first alarm.                                  *)
NextAlarm ==
  /\ lib # "none"
  /\ alarm.at = "idle"
  /\ AlarmOn(items["bg"], 1, checks)
  /\ UNCHANGED <<latest, items, row, writer, loop, shown, import, lib, ready, edits>>

PluginsReady ==
  /\ lib # "none"
  /\ ~ready
  /\ ready' = TRUE
  /\ UNCHANGED <<latest, items, row, writer, loop, checks, shown, import, alarm, lib, edits>>

(* _fetchPlugins has ended and Glib is destroyed, or it threw.             *)
AlarmEnds ==
  /\ alarm.at = "fetch"
  /\ alarm' = [at |-> "idle", i |-> 0]
  /\ \/ ready' = TRUE /\ lib' = "down"
     \/ "fetch" \in Faults /\ UNCHANGED <<ready, lib>>
  /\ UNCHANGED <<latest, items, row, writer, loop, checks, shown, import, edits>>

-----------------------------------------------------------------------------
(* checkNew.                                                               *)

(* What checkNew makes of item it when the plugin answers v. A first check *)
(* records the chapter, any other raises the dot when it is another one.   *)
Checked(it, by, v) ==
  IF by = "first" THEN [it EXCEPT !.last = v]
  ELSE IF it.last # v THEN [it EXCEPT !.last = v, !.new = TRUE]
  ELSE it

(* The caller of check c goes on, with its list as it is by then.          *)
Continue(c, its) ==
  \/ c.by = "first" /\ checks' = checks \ {c} /\ UNCHANGED <<loop, alarm>>
  \/ /\ c.by = "loop"
     /\ loop' = [loop EXCEPT ![c.proc].at = "wait"]
     /\ checks' = checks \ {c}
     /\ UNCHANGED alarm
  \/ /\ c.by = "alarm"
     /\ AlarmOn(its, alarm.i + 1, checks \ {c})
     /\ UNCHANGED loop

(* A bug for Arrive: the item is changed and the list is not saved.        *)
ArriveUnsaved(c, v) ==
  LET its == items[c.proc]
      j == IndexOfId(its, c.id)
      now == IF j = 0 THEN its ELSE [its EXCEPT ![j] = Checked(@, c.by, v)]
  IN
  /\ items' = [items EXCEPT ![c.proc] = now]
  /\ Continue(c, now)
  /\ UNCHANGED <<latest, row, writer, shown, import, lib, ready, edits>>

(* The answer arrives: the last chapter at some time since it was asked.   *)
(* An item that is no longer in the list is changed too, and not saved.    *)
Arrive(c, v) ==
  LET its == items[c.proc]
      j == IndexOfId(its, c.id)
      now == IF j = 0 THEN its ELSE [its EXCEPT ![j] = Checked(@, c.by, v)]
      saves == j # 0 /\ (c.by = "first" \/ its[j].last # v)
  IN
  /\ items' = [items EXCEPT ![c.proc] = now]
  /\ shown' = IF c.proc = "app" /\ shown # None /\ shown.id = c.id
              THEN Checked(shown, c.by, v) ELSE shown
  /\ IF saves THEN Write(c.proc, now) ELSE UNCHANGED <<row, writer>>
  /\ Continue(c, now)
  /\ UNCHANGED <<latest, import, lib, ready, edits>>

(* The plugin throws, or there is no such plugin.                          *)
CheckFails(c) ==
  /\ "request" \in Faults
  /\ Continue(c, items[c.proc])
  /\ UNCHANGED <<latest, items, row, writer, shown, import, lib, ready, edits>>

-----------------------------------------------------------------------------
(* The user and the plugins, in the app.                                   *)

(* Objects of the app that nothing refers to any more.                     *)
FreeIds ==
  Ids \ ({it.id : it \in ToSet(items["app"])} \cup
         {c.id : c \in {k \in checks : k.proc = "app"}} \cup
         (IF shown = None THEN {} ELSE {shown.id}))

Edit(its, sh) ==
  /\ edits < MaxEdits
  /\ edits' = edits + 1
  /\ items' = [items EXCEPT !["app"] = its]
  /\ Write("app", its)
  /\ shown' = sh
  /\ UNCHANGED <<latest, loop, alarm, lib, ready>>

(* add: a book that is listed is refused. Without the chapter the plugin   *)
(* shows, a first check is started and not awaited.                        *)
Add(b, last) ==
  /\ "add" \in Edits
  /\ b \notin BooksOf(items["app"])
  /\ FreeIds # {}
  /\ LET it == [id |-> Min(FreeIds), book |-> b, last |-> last, new |-> FALSE]
     IN  /\ Edit(Append(items["app"], it), shown)
         /\ checks' = checks \cup IF last = 0 THEN {Request("app", "first", it)} ELSE {}
  /\ UNCHANGED import

(* remove(key): the first item of the book. Removed by a plugin, it stays  *)
(* on the page, which is not built again.                                  *)
RemoveBook(b, byPlugin) ==
  LET j == IndexOfBook(items["app"], b) IN
  /\ "remove" \in Edits
  /\ j # 0
  /\ byPlugin \/ import = None
  /\ Edit(RemoveAt(items["app"], j), IF byPlugin THEN items["app"][j] ELSE None)
  /\ UNCHANGED <<checks, import>>

ClearNew(b) ==
  LET j == IndexOfBook(items["app"], b) IN
  /\ "clearNew" \in Edits
  /\ j # 0
  /\ Edit([items["app"] EXCEPT ![j].new = FALSE], shown)
  /\ UNCHANGED <<checks, import>>

Clear ==
  /\ "clear" \in Edits
  /\ import = None
  /\ items["app"] # <<>>
  /\ Edit(<<>>, None)
  /\ UNCHANGED <<checks, import>>

(* onMoveToFirst of an item of the list.                                   *)
MoveToFirst(j) ==
  /\ "move" \in Edits
  /\ import = None
  /\ Edit(<<items["app"][j]>> \o RemoveAt(items["app"], j), None)
  /\ UNCHANGED <<checks, import>>

(* onMoveToFirst of an item that is only on the page: it is put back.      *)
MoveShown ==
  /\ "move" \in Edits
  /\ import = None
  /\ shown # None
  /\ Len(items["app"]) < MaxItems
  /\ Edit(<<shown>> \o items["app"], None)
  /\ UNCHANGED <<checks, import>>

(* import: the books of the file that are not listed are kept while the    *)
(* dialog is open, and added as they are when it is confirmed.             *)
ImportOpen(bs) ==
  /\ "import" \in Edits
  /\ import = None
  /\ edits < MaxEdits
  /\ import' = bs \ BooksOf(items["app"])
  /\ UNCHANGED <<latest, items, row, writer, loop, checks, shown, alarm, lib, ready, edits>>

ImportConfirm ==
  /\ import # None
  /\ Cardinality(FreeIds) >= Cardinality(import)
  /\ LET bs == SetToSeq(import)
         free == SetToSortSeq(FreeIds, <)
     IN Edit(items["app"] \o [j \in DOMAIN bs |->
               [id |-> free[j], book |-> bs[j], last |-> 1, new |-> FALSE]],
             None)
  /\ import' = None
  /\ UNCHANGED checks

ImportCancel ==
  /\ import # None
  /\ import' = None
  /\ UNCHANGED <<latest, items, row, writer, loop, checks, shown, alarm, lib, ready, edits>>

-----------------------------------------------------------------------------
(* The server, the clock, the process.                                     *)

Publish(b) ==
  /\ latest[b] < Chapters
  /\ latest' = [latest EXCEPT ![b] = @ + 1]
  /\ UNCHANGED <<items, row, writer, loop, checks, shown, import, alarm, lib, ready, edits>>

(* A process that finds row r: the app makes its manager and starts the    *)
(* loop, the background isolate has none yet.                              *)
FirstItems(r) == [p \in Isolates |-> IF p = "app" THEN Constructed(r) ELSE <<>>]
FirstLoop ==
  [p \in Isolates |-> [at |-> IF p = "app" THEN "sleep" ELSE "off", i |-> 0, t |-> 0]]

Init ==
  /\ latest = [b \in Books |-> 1]
  /\ row = <<>>
  /\ items = FirstItems(row)
  /\ loop = FirstLoop
  /\ checks = {}
  /\ writer = None
  /\ shown = None
  /\ import = None
  /\ alarm = [at |-> "idle", i |-> 0]
  /\ lib = "none"
  /\ ready = FALSE
  /\ edits = 0

Restart ==
  /\ "restart" \in Faults
  /\ edits < MaxEdits
  /\ edits' = edits + 1
  /\ Len(Constructed(row)) <= MaxItems
  /\ items' = FirstItems(row)
  /\ loop' = FirstLoop
  /\ checks' = {}
  /\ writer' = None
  /\ shown' = None
  /\ import' = None
  /\ alarm' = [at |-> "idle", i |-> 0]
  /\ lib' = "none"
  /\ ready' = FALSE
  /\ UNCHANGED <<latest, row>>

EditStep ==
  \/ \E b \in Books : \E last \in {0, latest[b]} : Add(b, last)
  \/ \E b \in Books, byPlugin \in BOOLEAN : RemoveBook(b, byPlugin)
  \/ \E b \in Books : ClearNew(b)
  \/ Clear
  \/ \E j \in DOMAIN items["app"] : MoveToFirst(j)
  \/ MoveShown
  \/ \E bs \in SUBSET Books : ImportOpen(bs)
  \/ ImportConfirm
  \/ ImportCancel

BackgroundStep ==
  \/ FirstAlarm
  \/ NextAlarm
  \/ PluginsReady
  \/ AlarmEnds

Next ==
  \/ \E p \in Isolates : LoopNext(p) \/ LoopAgain(p)
  \/ \E c \in checks : CheckFails(c) \/ \E v \in c.from..latest[c.book] : Arrive(c, v)
  \/ BackgroundStep
  \/ EditStep
  \/ \E b \in Books : Publish(b)
  \/ Restart

Spec == Init /\ [][Next]_vars

(* Timers fire and every plugin answers or throws. An item that the loop   *)
(* comes to again and again is asked about, as half an hour passes, and    *)
(* of its checks some are answered with what the server has by then.       *)
Asked(n) == {c \in checks : c.proc = "app" /\ c.by = "loop" /\ c.id = n}
Asks(n) == (LoopNext("app") \/ LoopAgain("app")) /\ Asked(n) = {} /\ Asked(n)' # {}

Fairness ==
  /\ WF_vars(LoopNext("app") \/ LoopAgain("app"))
  /\ \A n \in Ids :
       /\ SF_vars(Asks(n))
       /\ SF_vars(\E c \in Asked(n) : Arrive(c, latest[c.book]))
       /\ WF_vars(\E c \in Asked(n) : CheckFails(c) \/ Arrive(c, latest[c.book]))

FairSpec == Spec /\ Fairness
-----------------------------------------------------------------------------
(* Properties.                                                             *)

(* The row is the list of the isolate that wrote it last, as that list is  *)
(* now: no add, removal, move, dot or answer of a check is forgotten,      *)
(* whatever the other isolate does and wherever the loops are.             *)
SavedByWriter ==
  /\ writer = "app" => row = Encoded(items["app"])
  /\ writer = "bg" /\ lib = "up" => row = Encoded(items["bg"])

(* An item with a chapter it does not know of is asked about until it      *)
(* knows it, and, while the user leaves the list alone, it shows the red   *)
(* dot then, whatever was moved, removed, imported over an addition or     *)
(* answered late before. The loop may have died, of a removal in the       *)
(* middle of a pass, and a first check that still runs may record the      *)
(* chapter without a dot (automaticCheckNew, checkNew).                    *)
ItemIs(n, P(_)) == \E it \in ToSet(items["app"]) : it.id = n /\ P(it)
Behind(n) == ItemIs(n, LAMBDA it : it.last # latest[it.book])
FirstRuns(n) == \E c \in checks : c.proc = "app" /\ c.by = "first" /\ c.id = n
Dotted(n) == ItemIs(n, LAMBDA it : it.new)
Died == loop["app"].at = "dead"
NewsArrive ==
  \A n \in Ids :
    /\ Behind(n) ~> ~Behind(n) \/ Died
    /\ \A k \in 0..MaxEdits :
         edits = k /\ Behind(n) /\ ~FirstRuns(n) ~> Dotted(n) \/ Died \/ edits # k
=============================================================================
