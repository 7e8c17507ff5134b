---------------------------- MODULE PreloadQueue ----------------------------
(***************************************************************************)
(* The preload queue of lib/utils/preload_queue.dart over the picture      *)
(* cache: RemotePictureController makes one for each chapter shown, fills  *)
(* it with the chapter's pictures as the plugin lists them, and stops it   *)
(* at a page turn. A fetch (DownloadPictureItem.fetchImage, getSingleFile) *)
(* runs on when its queue was stopped, beside the fetches of the next      *)
(* queue and the widgets that show the same pictures.                      *)
(***************************************************************************)
EXTENDS NeoCache, FiniteSets, Sequences

CONSTANTS
  Queues,     \* identities of PreloadQueue objects
  Fetches,    \* identities of getSingleFile coroutines (bounds how many run at once)
  Lists,      \* the lists of pictures a chapter may have, None where not known yet
  Pages,      \* the pages the reader may turn to
  Malformed   \* pictures whose URL Uri.parse refuses

ASSUME ListsAssumption == Lists \subseteq Seq(Pictures \cup {None})
ASSUME PagesAssumption == Pages \subseteq Nat
ASSUME QueuesAssumption == None \notin Queues \cup Loaders

VARIABLES
  queue,   \* queue[k]: a PreloadQueue
  shown,   \* the queue of the open controller
  fetch    \* fetch[f]: a fetch, its picture, and the entry it is to mark

queueVars == <<queue, shown, fetch>>
vars == <<cacheVars, queueVars>>

NoItem == [pic |-> None, loaded |-> FALSE]
Item == [pic : Pictures \cup {None}, loaded : BOOLEAN]
Queue == [items : Seq(Item), offset : Nat, canceled : BOOLEAN, loading : BOOLEAN]
Fetch == [at : {"idle", "exists", "stream", "answered"}, queue : Queues \cup {None},
          target : Nat, pic : Pictures \cup {None}, src : Loaders \cup {None}]
EmptyQueue == [items |-> <<>>, offset |-> 0, canceled |-> FALSE, loading |-> FALSE]
IdleFetch == [at |-> "idle", queue |-> None, target |-> 0, pic |-> None, src |-> None]

PreloadTypeOK ==
  /\ CacheTypeOK
  /\ queue \in [Queues -> Queue]
  /\ shown \in Queues \cup {None}
  /\ fetch \in [Fetches -> Fetch]
  /\ \A f \in Fetches :
       fetch[f].at # "idle" => /\ fetch[f].queue \in Queues
                               /\ fetch[f].target \in DOMAIN queue[fetch[f].queue].items
                               /\ fetch[f].pic \in Pictures

Active(f) == fetch[f].at # "idle"
FetchesOf(k) == {f \in Fetches : Active(f) /\ fetch[f].queue = k}

Init ==
  /\ CacheInit
  /\ queue = [k \in Queues |-> EmptyQueue]
  /\ shown = None
  /\ fetch = [f \in Fetches |-> IdleFetch]

-----------------------------------------------------------------------------
(* The queue.                                                              *)

Wanted(item) == ~item.loaded /\ item.pic # None

(* The i-th entry looked at, from the page that is read on.                *)
Position(q, i) == ((q.offset + i) % Len(q.items)) + 1

\* Bugs for Target: it starts beside a fetch in flight, or when stopped.
TargetBusy(q) ==
  LET wanted == {i \in 0..(Len(q.items) - 1) : Wanted(q.items[Position(q, i)])} IN
  IF q.canceled \/ wanted = {} THEN 0
  ELSE Position(q, CHOOSE i \in wanted : \A j \in wanted : i <= j)
TargetStopped(q) ==
  LET wanted == {i \in 0..(Len(q.items) - 1) : Wanted(q.items[Position(q, i)])} IN
  IF q.loading \/ wanted = {} THEN 0
  ELSE Position(q, CHOOSE i \in wanted : \A j \in wanted : i <= j)

(* The entry _checkStart picks, 0 if it starts nothing.                    *)
Target(q) ==
  LET wanted == {i \in 0..(Len(q.items) - 1) : Wanted(q.items[Position(q, i)])} IN
  IF q.canceled \/ q.loading \/ wanted = {} THEN 0
  ELSE Position(q, CHOOSE i \in wanted : \A j \in wanted : i <= j)

\* A bug for CheckStart: an entry counts as loaded when its fetch begins.
CheckStartMarks(q) ==
  LET t == Target(q) IN
  [q      |-> IF t = 0 THEN q ELSE [q EXCEPT !.loading = TRUE, !.items[t].loaded = TRUE],
   start  |-> t,
   pic    |-> IF t = 0 THEN None ELSE q.items[t].pic,
   thrown |-> FALSE]

(* _checkStart: `loading` is set before fetchImage parses the URL, which   *)
(* may throw.                                                              *)
CheckStart(q) ==
  LET t == Target(q)
      thrown == t # 0 /\ q.items[t].pic \in Malformed
      begins == t # 0 /\ ~thrown
  IN [q      |-> [q EXCEPT !.loading = @ \/ t # 0],
      start  |-> IF begins THEN t ELSE 0,
      pic    |-> IF begins THEN q.items[t].pic ELSE None,
      thrown |-> thrown]

(* _PreloadItem.set, or the entries set() adds.                            *)
Put(items, i, p) ==
  IF i <= Len(items)
  THEN IF items[i].pic = p THEN items ELSE [items EXCEPT ![i] = [pic |-> p, loaded |-> FALSE]]
  ELSE items \o [j \in 1..(i - Len(items)) |->
                   IF j = i - Len(items) THEN [pic |-> p, loaded |-> FALSE] ELSE NoItem]

(* One call of set() in the loop of _update; an exception ends the loop.   *)
SetItem(acc, i, p) ==
  IF acc.thrown \/ p = None THEN acc
  ELSE LET next == CheckStart([acc.q EXCEPT !.items = Put(@, i, p)]) IN
       IF next.start = 0 THEN [next EXCEPT !.start = acc.start, !.pic = acc.pic] ELSE next

(* The loop of _update over a list: what the first i calls of set() leave. *)
Filling(q, list) ==
  LET done[i \in 0..Len(list)] ==
        IF i = 0 THEN [q |-> q, start |-> 0, pic |-> None, thrown |-> FALSE]
        ELSE SetItem(done[i - 1], i, list[i])
  IN  done

(* Queue k becomes q; if an idle fetch is to start, it is of picture p,    *)
(* which entry t had when _checkStart picked it.                           *)
Proceed(k, q, t, p, others) ==
  /\ queue' = [queue EXCEPT ![k] = q]
  /\ \/ t = 0 /\ fetch' = others
     \/ /\ t # 0
        /\ \E f \in Fetches :
             /\ others[f] = IdleFetch
             /\ fetch' = [others EXCEPT ![f] =
                  [at |-> "exists", queue |-> k, target |-> t, pic |-> p, src |-> None]]

-----------------------------------------------------------------------------
(* The controller.                                                         *)

(* RemotePictureController._update, when the plugin has listed pictures.   *)
Update(list) ==
  LET k == shown
      done == Filling(queue[k], list)[Len(list)]
  IN
  /\ shown # None
  /\ Proceed(k, done.q, done.start, done.pic, fetch)
  /\ UNCHANGED <<cacheVars, shown>>

OnPage(page) ==
  /\ shown # None
  /\ queue' = [queue EXCEPT ![shown].offset = page]
  /\ UNCHANGED <<cacheVars, shown, fetch>>

\* A bug for Stop: the entries go, one of which a fetch is to mark.
StopClear(q) == [q EXCEPT !.canceled = TRUE, !.items = <<>>]

Stop(q) == [q EXCEPT !.canceled = TRUE]

(* goNext, goPrev: the queue is stopped and a new one takes its place. An  *)
(* object no fetch knows is used again.                                    *)
Turn(k) ==
  /\ shown # None /\ k # shown /\ FetchesOf(k) = {}
  /\ queue' = [queue EXCEPT ![shown] = Stop(@), ![k] = EmptyQueue]
  /\ shown' = k
  /\ UNCHANGED <<cacheVars, fetch>>

Open(k) ==
  /\ shown = None /\ FetchesOf(k) = {}
  /\ queue' = [queue EXCEPT ![k] = EmptyQueue]
  /\ shown' = k
  /\ UNCHANGED <<cacheVars, fetch>>

(* dispose() leaves the queue to itself.                                   *)
Close ==
  /\ shown # None
  /\ shown' = None
  /\ UNCHANGED <<cacheVars, queue, fetch>>

-----------------------------------------------------------------------------
(* A fetch.                                                                *)

(* getSingleFile: a file that exists is enough, else a stream is awaited.  *)
(* A stream that has its outcome calls back at once.                       *)
Look(f) ==
  LET p == fetch[f].pic IN
  /\ fetch[f].at = "exists"
  /\ \/ /\ exist(p)
        /\ fetch' = [fetch EXCEPT ![f].at = "answered"]
        /\ UNCHANGED <<entry, loader>>
     \/ /\ ~exist(p)
        /\ \E l \in Loaders :
             /\ Resolve(p, l)
             /\ fetch' = [fetch EXCEPT ![f] =
                  IF Stream(p, l) \in Loaders
                  THEN [@ EXCEPT !.at = "stream", !.src = Stream(p, l)]
                  ELSE [@ EXCEPT !.at = "answered"]]
  /\ UNCHANGED <<file, view, queue, shown>>

\* A bug for Marked: the queue is not free for the next fetch.
MarkedOnly(q, t) == [q EXCEPT !.items[t].loaded = TRUE]

(* The callback: the entry counts as loaded whatever the outcome. When it  *)
(* throws, fetchImage calls it again as failed, to the same end.           *)
Marked(q, t) == [q EXCEPT !.items[t].loaded = TRUE, !.loading = FALSE]

Callback(f) ==
  LET k == fetch[f].queue
      next == CheckStart(Marked(queue[k], fetch[f].target))
  IN
  /\ fetch[f].at = "answered"
  /\ Proceed(k, next.q, next.start, next.pic, [fetch EXCEPT ![f] = IdleFetch])
  /\ UNCHANGED <<cacheVars, shown>>

\* A bug for PictureEnds: the fetches hear of good pictures only.
PictureEndsUnheard(l, o) ==
  /\ EndLoad(l, o)
  /\ fetch' = [f \in Fetches |->
                 IF fetch[f].src = l /\ o = "ready"
                 THEN [fetch[f] EXCEPT !.at = "answered", !.src = None]
                 ELSE fetch[f]]
  /\ UNCHANGED <<queue, shown>>

(* The end of a load is heard by the fetches that wait for it.             *)
PictureEnds(l, o) ==
  /\ EndLoad(l, o)
  /\ fetch' = [f \in Fetches |->
                 IF fetch[f].src = l THEN [fetch[f] EXCEPT !.at = "answered", !.src = None]
                                     ELSE fetch[f]]
  /\ UNCHANGED <<queue, shown>>

Restart ==
  /\ CacheCrash
  /\ queue' = [k \in Queues |-> EmptyQueue]
  /\ shown' = None
  /\ fetch' = [f \in Fetches |-> IdleFetch]

Next ==
  \/ CacheStep /\ UNCHANGED queueVars
  \/ \E l \in Loaders, o \in Outcomes : PictureEnds(l, o)
  \/ \E list \in Lists : Update(list)
  \/ \E page \in Pages : OnPage(page)
  \/ \E k \in Queues : Turn(k) \/ Open(k)
  \/ Close
  \/ \E f \in Fetches : Look(f) \/ Callback(f)
  \/ Restart

Spec == Init /\ [][Next]_vars

(* Coroutines and callbacks run on as the event loop does. dio's timeouts  *)
(* end a request that is not answered; that a body once begun does not     *)
(* stall for ever is assumed.                                              *)
LoadStep(l) ==
  \/ (CheckFile(l) \/ BeginWrite(l)) /\ UNCHANGED queueVars
  \/ \E o \in Outcomes : PictureEnds(l, o)

FairSpec ==
  /\ Spec
  /\ \A l \in Loaders : WF_vars(LoadStep(l))
  /\ \A f \in Fetches : WF_vars(Look(f) \/ Callback(f))

-----------------------------------------------------------------------------
(* Properties.                                                             *)

\* The pictures a plugin may give at place i of a list: it may replace one.
Given(i) == {list[i] : list \in {m \in Lists : i \in DOMAIN m}} \ {None}
MayBeMalformed(k) == \E i \in DOMAIN queue[k].items : Given(i) \cap Malformed # {}

(* A queue has one picture in flight at most, and waits for it exactly     *)
(* while it is: only a URL that does not parse leaves `loading` set, also  *)
(* when the plugin has replaced it since (_checkStart).                    *)
OneInFlight ==
  \A k \in Queues :
    /\ \A f, g \in FetchesOf(k) : f = g
    /\ FetchesOf(k) # {} => queue[k].loading
    /\ queue[k].loading => FetchesOf(k) # {} \/ MayBeMalformed(k)

(* A stopped queue begins no fetch, whatever still calls back to it        *)
(* (stop).                                                                 *)
StoppedIsQuiet ==
  [][\A f \in Fetches :
       fetch'[f].at = "exists" /\ fetch'[f] # fetch[f] =>
         ~queue[fetch'[f].queue].canceled]_vars

\* On disk, or failed and left to the reload button, or being loaded again.
Tried(p) == exist(p) \/ entry[p] \in Loaders \cup {"failed"}

(* Where a queue takes an entry for loaded, a picture listed there has     *)
(* been fetched: the one there now, or the one whose fetch was running     *)
(* when the plugin replaced it, for the callback marks the entry and not   *)
(* the picture.                                                            *)
LoadedIsCached ==
  \A k \in Queues : \A i \in DOMAIN queue[k].items :
    queue[k].items[i].loaded => \E p \in Given(i) : Tried(p)

(* A fetch that waits has a load of its picture behind it, and so does     *)
(* everything else that listens (getSingleFile).                           *)
FetchesAreServed ==
  /\ ListenersAreServed
  /\ \A f \in Fetches :
       fetch[f].at = "stream" => /\ fetch[f].src \in Loaders
                                 /\ LoadsPicture(fetch[f].src, fetch[f].pic)

(* Every picture listed comes to be tried unless its queue is stopped, or  *)
(* a URL does not parse: a failed fetch does not hold up the others. A     *)
(* place whose URL is replaced again and again would.                      *)
AllPreloaded ==
  \A k \in Queues : \A i \in UNION {DOMAIN list : list \in Lists} :
    i \in DOMAIN queue[k].items /\ Wanted(queue[k].items[i])
      ~> \/ i \notin DOMAIN queue[k].items \/ ~Wanted(queue[k].items[i])
         \/ queue[k].canceled \/ MayBeMalformed(k)
=============================================================================
