--------------------------- MODULE PictureReader ---------------------------
(***************************************************************************)
(* The reader of lib/utils/picture_data.dart: RemotePictureController with *)
(* the Processor (lib/utils/plugin/manga_loader.dart) of the chapter shown *)
(* and of its two neighbours, the page turns and the loading flag of       *)
(* lib/pages/picture_viewer.dart, and the rows the lists are saved in.     *)
(*                                                                         *)
(* _loadAll loads the three processors one after the other and reads the   *)
(* fields next and prev after its awaits, when the user may have turned to *)
(* another chapter. A call of a plugin's load runs on after its processor  *)
(* was disposed, and may save the list of a chapter that another processor *)
(* has loaded meanwhile.                                                   *)
(***************************************************************************)
EXTENDS Integers, FiniteSets, Sequences

CONSTANTS
  Length,          \* the number of chapters of the book (data.list.length)
  Size,            \* the number of pictures in a chapter's list
  Processors,      \* identities of Processor objects
  Calls,           \* calls of a plugin's load (bounds how many run at once)
  None,
  Setters,         \* how the plugin hands pictures over, a subset of SetterKinds
  ChecksDisposed,  \* whether the plugin looks at `disposed` after each await
  Fails            \* the chapters whose requests may fail

SetterKinds == {"setData", "setDataAt"}

ASSUME LengthAssumption == Length \in Nat \ {0}
ASSUME SizeAssumption == Size \in Nat \ {0}
ASSUME NoneAssumption == None \notin Processors
ASSUME SettersAssumption == Setters \subseteq SetterKinds
ASSUME FlagsAssumption == ChecksDisposed \in BOOLEAN
ASSUME FailsAssumption == Fails \subseteq 0..(Length - 1)

VARIABLES
  open,          \* a PictureViewer is on the screen
  currentIndex,  \* the chapter it shows
  held,          \* the fields current, next and prev of its controller
  proc,          \* proc[p]: a Processor, with its own copy of the row
  row,           \* row[i]: "processor:<key>" of chapter i on disk
  call,          \* call[r]: a running load, with the rest of its _loadAll
  spinner,       \* _PictureViewerState.loading
  queue,         \* what the last controller has put in its preloadQueue
  last           \* "book:last:<key>": the chapter last opened

vars == <<open, currentIndex, held, proc, row, call, spinner, queue, last>>

Indexes == 0..(Length - 1)
Slots == {"current", "next", "prev"}
\* The order of the awaits in _loadAll; stage 4 is its end.
Order == <<"current", "next", "prev">>
Stages == 1..4

Row == [complete : BOOLEAN, list : 0..Size]
NewRow == [complete |-> FALSE, list |-> 0]
ProcessorRecord == [chapter : Indexes, pictures : 0..Size, complete : BOOLEAN,
                    loading : BOOLEAN, disposed : BOOLEAN]
IdleCall == [proc |-> None, at |-> 0, then |-> 4]
CallRecord == [proc : Processors \cup {None}, at : 0..Size, then : Stages]

TypeOK ==
  /\ open \in BOOLEAN
  /\ currentIndex \in Indexes
  /\ held \in [Slots -> Processors \cup {None}]
  /\ proc \in [Processors -> ProcessorRecord]
  /\ row \in [Indexes -> Row]
  /\ call \in [Calls -> CallRecord]
  /\ spinner \in BOOLEAN
  /\ queue \subseteq Indexes \X (1..Size)
  /\ last \in Indexes \cup {None}

Runs(r, p) == call[r].proc = p
Idle(r) == call[r].proc = None

\* A disposed processor no call refers to: its identity is used again.
Unused == [chapter |-> 0, pictures |-> 0, complete |-> FALSE, loading |-> FALSE,
           disposed |-> TRUE]
Free(p) == proc[p] = Unused

Init ==
  /\ open = FALSE
  /\ currentIndex = 0
  /\ held = [s \in Slots |-> None]
  /\ proc = [p \in Processors |-> Unused]
  /\ row = [i \in Indexes |-> NewRow]
  /\ call = [r \in Calls |-> IdleCall]
  /\ spinner = FALSE
  /\ queue = {}
  /\ last = None

-----------------------------------------------------------------------------
(* Processors.                                                             *)

(* The identity of a new processor, which one is immaterial.               *)
New(ps) == CHOOSE p \in Processors \ ps : Free(p)

(* The constructor reads the row.                                          *)
Opened(i) == [chapter |-> i, pictures |-> row[i].list, complete |-> row[i].complete,
              loading |-> FALSE, disposed |-> FALSE]

\* A bug for Dispose: the processor is only forgotten.
DisposeNone(p) == IF \E r \in Calls : Runs(r, p) THEN proc[p] ELSE Unused

(* A call of the plugin outlives the processor.                            *)
Dispose(p) ==
  IF \E r \in Calls : Runs(r, p) THEN [proc[p] EXCEPT !.disposed = TRUE] ELSE Unused

\* A bug for Starts: a load that is running is not noticed.
StartsAgain(pr, p) ==
  p # None /\ ~pr[p].disposed /\ ~(pr[p].complete /\ pr[p].pictures > 0)

(* load() calls the plugin, which sets `loading` before its first await.   *)
Starts(pr, p) ==
  /\ p # None
  /\ ~pr[p].disposed /\ ~pr[p].loading
  /\ ~(pr[p].complete /\ pr[p].pictures > 0)

\* A bug for LoadAll: it ends when its next processor needs no load.
LoadAllOnce(pr, ca, h, s, r) ==
  \/ /\ \A k \in s..3 : k = s => ~Starts(pr, h[Order[k]])
     /\ proc' = pr
     /\ call' = ca
  \/ \E k \in s..3 :
       LET p == h[Order[k]] IN
       /\ k = s
       /\ Starts(pr, p)
       /\ proc' = [pr EXCEPT ![p].loading = TRUE]
       /\ call' = [ca EXCEPT ![r] = [proc |-> p, at |-> pr[p].pictures, then |-> k + 1]]

(* _loadAll from stage s on: the loads that return at once are skipped,    *)
(* the first that calls the plugin is awaited, as call r.                  *)
LoadAll(pr, ca, h, s, r) ==
  \/ /\ \A k \in s..3 : ~Starts(pr, h[Order[k]])
     /\ proc' = pr
     /\ call' = ca
  \/ \E k \in s..3 :
       LET p == h[Order[k]] IN
       /\ Starts(pr, p)
       /\ \A j \in s..(k - 1) : ~Starts(pr, h[Order[j]])
       /\ proc' = [pr EXCEPT ![p].loading = TRUE]
       /\ call' = [ca EXCEPT ![r] = [proc |-> p, at |-> pr[p].pictures, then |-> k + 1]]

-----------------------------------------------------------------------------
(* The viewer and its controller.                                          *)

hasNext(i) == i < Length - 1
hasPrev(i) == i > 0

(* The controller of a viewer opened at chapter i: a processor for it and  *)
(* for each neighbour. The viewer reads the loading flag once.             *)
Open(i, r) ==
  LET c == New({})
      n == IF hasNext(i) THEN New({c}) ELSE None
      v == IF hasPrev(i) THEN New({c, n}) ELSE None
      made == [p \in Processors |->
                 CASE p = c -> Opened(i)
                   [] p = n -> Opened(i + 1)
                   [] p = v -> Opened(i - 1)
                   [] OTHER -> proc[p]]
      h == [current |-> c, next |-> n, prev |-> v]
  IN
  /\ ~open /\ Idle(r)
  /\ \E a, b, d \in Processors : a # b /\ b # d /\ d # a /\ Free(a) /\ Free(b) /\ Free(d)
  /\ open' = TRUE
  /\ currentIndex' = i
  /\ held' = h
  /\ LoadAll(made, call, h, 1, r)
  /\ spinner' = proc'[c].loading
  /\ queue' = {}
  /\ last' = i
  /\ UNCHANGED row

\* A bug for Shifted: the field of the new neighbour keeps its processor.
ShiftedKeep(to, back, q) ==
  [held EXCEPT !["current"] = held[to], ![back] = held["current"]]

Shifted(to, back, q) ==
  [held EXCEPT !["current"] = held[to], ![back] = held["current"], ![to] = q]

\* A bug for NewQueue: the preload queue of the last chapter goes on.
OldQueue == queue

(* stop() of the old queue, which no one reads again, and a new queue.     *)
NewQueue == {}

(* goNext and goPrev: the processor on the far side is disposed, the       *)
(* others move, and one is made for the new neighbour if there is one.     *)
Turn(step, to, back, more, r) ==
  LET i == currentIndex + step
      q == IF more THEN New({}) ELSE None
      made == [p \in Processors |->
                 CASE p = q -> Opened(i + step)
                   [] p = held[back] -> Dispose(p)
                   [] OTHER -> proc[p]]
  IN
  /\ open /\ Idle(r)
  /\ \E p \in Processors : Free(p)
  /\ currentIndex' = i
  /\ held' = Shifted(to, back, q)
  /\ LoadAll(made, call, held', 1, r)
  /\ queue' = NewQueue
  /\ last' = i
  /\ UNCHANGED <<open, row, spinner>>

(* onOverBound: turning forward waits for the loading flag of the viewer.  *)
GoNext(r) ==
  /\ hasNext(currentIndex)
  /\ ~spinner
  /\ Turn(1, "next", "prev", hasNext(currentIndex + 1), r)

GoPrev(r) ==
  /\ hasPrev(currentIndex)
  /\ Turn(-1, "prev", "next", hasPrev(currentIndex - 1), r)

(* dispose() of viewer and controller. Calls run on; the rest of their     *)
(* _loadAll finds only disposed processors. The preload queue is left to   *)
(* itself: nothing calls its stop().                                       *)
Close ==
  /\ open
  /\ open' = FALSE
  /\ proc' = [p \in Processors |-> IF \E s \in Slots : held[s] = p THEN Dispose(p) ELSE proc[p]]
  /\ call' = [r \in Calls |-> [call[r] EXCEPT !.then = 4]]
  /\ held' = [s \in Slots |-> None]
  /\ spinner' = FALSE
  /\ UNCHANGED <<currentIndex, row, queue, last>>

-----------------------------------------------------------------------------
(* The plugin's load, one step per answered request.                       *)

\* A bug for Listed: the list grows to one more than the index.
ListedOneMore(p, by, n) ==
  IF by = "setDataAt" THEN n + 1
  ELSE IF proc[p].disposed THEN proc[p].pictures ELSE n

(* With the answer the plugin has n pictures. setDataAt adds to the list   *)
(* of a disposed processor too, setData does not replace it.               *)
Listed(p, by, n) ==
  IF by = "setDataAt" THEN IF n > proc[p].pictures THEN n ELSE proc[p].pictures
  ELSE IF proc[p].disposed THEN proc[p].pictures ELSE n

(* save(complete, state), straight after the pictures were set.            *)
Saved(p, list, n) == [complete |-> n = Size, list |-> list]

Answered(r, by) == IF by = "setData" THEN Size ELSE call[r].at + 1

(* _update of the controller and of the viewer. `loading` still stands,    *)
(* unless the plugin cleared it before it handed over the last picture.    *)
Notified(p, list, final) ==
  IF held["current"] = p
  THEN /\ queue' = {<<currentIndex, k>> : k \in 1..list}
       /\ spinner' \in IF final THEN BOOLEAN ELSE {TRUE}
  ELSE UNCHANGED <<queue, spinner>>

(* The plugin clears `loading` when its call of p ends.                    *)
Ended(p, after) ==
  [proc EXCEPT ![p] = IF after.disposed THEN Unused ELSE [after EXCEPT !.loading = FALSE]]

Deliver(r, by) ==
  LET p == call[r].proc
      n == Answered(r, by)
      list == Listed(p, by, n)
      saved == Saved(p, list, n)
      after == [proc[p] EXCEPT !.pictures = list, !.complete = saved.complete]
  IN
  /\ ~Idle(r)
  /\ ~(ChecksDisposed /\ proc[p].disposed)
  /\ row' = [row EXCEPT ![proc[p].chapter] = saved]
  /\ Notified(p, list, n = Size)
  /\ \/ /\ n < Size
        /\ proc' = [proc EXCEPT ![p] = after]
        /\ call' = [call EXCEPT ![r].at = n]
     \/ /\ n = Size
        /\ LoadAll(Ended(p, after), [call EXCEPT ![r] = IdleCall], held, call[r].then, r)
  /\ UNCHANGED <<open, currentIndex, held, last>>

(* The call ends without an answer: the plugin saw `disposed`, or its      *)
(* request failed. An exception it lets through ends _loadAll as well.     *)
GiveUp(r, s) ==
  LET p == call[r].proc IN
  /\ ~Idle(r)
  /\ \/ ChecksDisposed /\ proc[p].disposed /\ s = call[r].then
     \/ proc[p].chapter \in Fails /\ s \in {call[r].then, 4}
  /\ LoadAll(Ended(p, proc[p]), [call EXCEPT ![r] = IdleCall], held, s, r)
  /\ UNCHANGED <<open, currentIndex, held, row, spinner, queue, last>>

(* The process ends and starts again.                                      *)
Restart ==
  /\ open' = FALSE
  /\ held' = [s \in Slots |-> None]
  /\ proc' = [p \in Processors |-> Unused]
  /\ call' = [r \in Calls |-> IdleCall]
  /\ spinner' = FALSE
  /\ queue' = {}
  /\ UNCHANGED <<currentIndex, row, last>>

Next ==
  \/ \E r \in Calls :
       \/ \E i \in Indexes : Open(i, r)
       \/ GoNext(r) \/ GoPrev(r)
       \/ \E by \in Setters : Deliver(r, by)
       \/ \E s \in Stages : GiveUp(r, s)
  \/ Close
  \/ Restart

Spec == Init /\ [][Next]_vars

(* A request of the plugin is answered or fails.                           *)
CallStep(r) == (\E by \in Setters : Deliver(r, by)) \/ \E s \in Stages : GiveUp(r, s)

FairSpec == Spec /\ \A r \in Calls : WF_vars(CallStep(r))

-----------------------------------------------------------------------------
(* Properties.                                                             *)

Offset == [current |-> 0, next |-> 1, prev |-> -1]

(* However the user turns while loads are pending, the controller holds    *)
(* the chapter shown and exactly its existing neighbours, each in a        *)
(* processor of its own that is not disposed, and the plugin is told that  *)
(* the chapter shown was opened last (_sideInit, goNext, goPrev).          *)
NeighboursAreHeld ==
  open =>
    /\ last = currentIndex
    /\ \A s \in Slots :
         /\ held[s] # None <=> currentIndex + Offset[s] \in Indexes
         /\ held[s] # None => /\ ~proc[held[s]].disposed
                              /\ proc[held[s]].chapter = currentIndex + Offset[s]

(* Overlapping runs of _loadAll never call the plugin twice for one        *)
(* processor, and a processor in use shows as loading exactly while its    *)
(* call runs (the guard of load on `loading`).                             *)
OneCallEach ==
  /\ \A r, u \in Calls : ~Idle(r) /\ call[u].proc = call[r].proc => u = r
  /\ \A p \in Processors : ~proc[p].disposed =>
       (proc[p].loading <=> \E r \in Calls : Runs(r, p))

(* The preload queue of an open controller holds nothing or the list of    *)
(* the chapter shown, never a picture of a chapter turned away from        *)
(* (_update, goNext, goPrev).                                              *)
QueueIsOfCurrent ==
  open /\ queue # {} =>
    queue = {<<currentIndex, k>> : k \in 1..proc[held["current"]].pictures}

(* With a plugin that looks at `disposed`, a late answer for a chapter     *)
(* turned away from takes nothing from what a later processor saved.       *)
RowsOnlyGrow ==
  [][ChecksDisposed => \A i \in Indexes :
       /\ row[i].list <= row'[i].list
       /\ row[i].complete => row'[i].complete]_vars

(* While the requests of a chapter held, and of those _loadAll gets to     *)
(* before it, do not fail, whatever those of other chapters do, it comes   *)
(* to be complete, whichever run of _loadAll gets to it (_loadAll, load).  *)
UpTo(s) == {Order[k] : k \in 1..(CHOOSE j \in 1..3 : Order[j] = s)}
MayFail(s) == \E t \in UpTo(s) : held[t] # None /\ proc[held[t]].chapter \in Fails
HeldIsLoaded ==
  \A p \in Processors :
    (\E s \in Slots : held[s] = p) /\ ~proc[p].complete
      ~> \/ proc[p].complete
         \/ \A s \in Slots : held[s] = p => MayFail(s)
=============================================================================
