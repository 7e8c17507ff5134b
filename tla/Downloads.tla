------------------------------ MODULE Downloads ------------------------------
(***************************************************************************)
(* The download queue of lib/utils/download_manager.dart over the picture  *)
(* cache: DownloadManager (the queue and the row it is saved in),          *)
(* DownloadQueueItem (start, stop) and _PictureDownloader (the coroutine a *)
(* start leaves running until it returns or throws).                       *)
(*                                                                         *)
(* stop() only marks the coroutine: it runs on to its next check, and the  *)
(* user may start the item again before that. A worker here is one such    *)
(* coroutine.                                                              *)
(***************************************************************************)
EXTENDS NeoCache, FiniteSets, Sequences

CONSTANTS
  Chapters,   \* the chapters, each with a cache directory of its own
  N,          \* the number of pictures in a chapter's list
  Items,      \* DownloadQueueItem objects
  KeyOf,      \* KeyOf[i]: the chapter of item i (info.key)
  Legacy,     \* items the constructor finds in the collection table of old versions
  Workers,    \* coroutines of _PictureDownloader (bounds how many overlap)
  Patient     \* whether the user starts an item only when its last coroutine has ended

ASSUME NAssumption == N \in Nat \ {0}
ASSUME PicturesAssumption == Pictures = Chapters \X (1..N)
ASSUME KeyOfAssumption == KeyOf \in [Items -> Chapters]
ASSUME LegacyAssumption ==
  /\ Legacy \subseteq Items
  /\ \A i, j \in Legacy : KeyOf[i] = KeyOf[j] => i = j
ASSUME WorkersAssumption == None \notin Workers \cup Items
ASSUME PatientAssumption == Patient \in BOOLEAN

VARIABLES
  queue,       \* the items of DownloadManager.items
  state,       \* state[i]: DownloadState
  loaded,      \* loaded[i]: the pictures item i shows as loaded
  downloader,  \* downloader[i]: the worker _downloader refers to
  saved,       \* the row "download_items": the saved fields of each saved item
  worker,      \* worker[d]: where coroutine d is
  src,         \* src[d]: the image stream worker d waits for, or its outcome
  listed,      \* listed[c]: the row "processor:c" holds a complete list
  clearing     \* chapters a running clearCache has still to delete

downloadVars == <<queue, state, loaded, downloader, saved, worker, src, listed, clearing>>
vars == <<cacheVars, downloadVars>>

States == {"Paused", "Downloading", "Complete"}
Stages == {"idle", "load", "scan", "image"}
Count == 0..N

IdleWorker ==
  [item |-> None, at |-> "idle", canceled |-> FALSE, next |-> 1, todo |-> <<>>, loaded |-> 0]

Row == [loaded : Count, complete : BOOLEAN]
WorkerRecord == [item : Items \cup {None}, at : Stages, canceled : BOOLEAN,
                 next : 1..N, todo : Seq(1..N), loaded : Count]

TypeOK ==
  /\ CacheTypeOK
  /\ queue \subseteq Items
  /\ state \in [Items -> States]
  /\ loaded \in [Items -> Count]
  /\ downloader \in [Items -> Workers \cup {None}]
  /\ DOMAIN saved \subseteq Items
  /\ saved \in [DOMAIN saved -> Row]
  /\ worker \in [Workers -> WorkerRecord]
  /\ src \in [Workers -> Loaders \cup Outcomes \cup {"none"}]
  /\ listed \in [Chapters -> BOOLEAN]
  /\ clearing \subseteq Chapters

Live(d) == worker[d].at # "idle"
WorksFor(d, i) == Live(d) /\ worker[d].item = i
PictureOf(d, k) == <<KeyOf[worker[d].item], k>>
Keys(q) == {KeyOf[i] : i \in q}

(* A bug for RowOf: the state is not saved.                                *)
RowOfCounts(q, ld, st) == [i \in q |-> [loaded |-> ld[i], complete |-> FALSE]]

(* toData() of every item of the queue, in one row.                        *)
RowOf(q, ld, st) == [i \in q |-> [loaded |-> ld[i], complete |-> st[i] = "Complete"]]

(* _itemUpdate: the queue is saved when it still contains the item.        *)
ItemUpdate(i, ld, st) == saved' = IF i \in queue THEN RowOf(queue, ld, st) ELSE saved

(* The constructor: the saved items, then the old collection's others.     *)
Constructed(row) ==
  DOMAIN row \cup {i \in Legacy : KeyOf[i] \notin Keys(DOMAIN row)}

Init ==
  /\ CacheInit
  /\ saved = [i \in {} |-> [loaded |-> 0, complete |-> FALSE]]
  /\ queue = Legacy
  /\ state = [i \in Items |-> "Paused"]
  /\ loaded = [i \in Items |-> 0]
  /\ downloader = [i \in Items |-> None]
  /\ worker = [d \in Workers |-> IdleWorker]
  /\ src = [d \in Workers |-> "none"]
  /\ listed = [c \in Chapters |-> FALSE]
  /\ clearing = {}

-----------------------------------------------------------------------------
(* The user and the plugin: start, stop, addDownload, removeKey.           *)

(* A bug for Launched: the new coroutine goes on from the item's count.    *)
LaunchedWithCount(i, d) ==
  [worker EXCEPT ![d] = [IdleWorker EXCEPT
     !.item = i, !.at = IF listed[KeyOf[i]] THEN "scan" ELSE "load", !.loaded = loaded[i]]]

(* A new coroutine for i. It makes its own Processor, and with a complete  *)
(* list goes straight to the scan. (A plugin that is not found only leaves *)
(* an error label on the item.)                                            *)
Launched(i, d) ==
  [worker EXCEPT ![d] = [IdleWorker EXCEPT
     !.item = i, !.at = IF listed[KeyOf[i]] THEN "scan" ELSE "load"]]

Begin(i, d) ==
  /\ worker[d].at = "idle"
  /\ worker' = Launched(i, d)
  /\ state' = [state EXCEPT ![i] = "Downloading"]
  /\ downloader' = [downloader EXCEPT ![i] = d]

Start(i, d) ==
  /\ i \in queue
  /\ state[i] = "Paused"
  /\ Patient => \A e \in Workers : ~WorksFor(e, i)
  /\ Begin(i, d)
  /\ UNCHANGED <<cacheVars, queue, loaded, saved, src, listed, clearing>>

(* A bug for StopItem: the coroutine is not marked.                        *)
StopUnmarked(i) ==
  /\ state' = [state EXCEPT ![i] = IF @ = "Downloading" THEN "Paused" ELSE @]
  /\ downloader' = [downloader EXCEPT ![i] = None]
  /\ UNCHANGED worker

(* DownloadQueueItem.stop, also the first thing a removal does.            *)
StopItem(i) ==
  IF state[i] = "Downloading"
  THEN /\ worker' = [d \in Workers |->
                       IF d = downloader[i] THEN [worker[d] EXCEPT !.canceled = TRUE]
                       ELSE worker[d]]
       /\ downloader' = [downloader EXCEPT ![i] = None]
       /\ state' = [state EXCEPT ![i] = "Paused"]
  ELSE UNCHANGED <<worker, downloader, state>>

Stop(i) ==
  /\ i \in queue
  /\ state[i] = "Downloading"
  /\ StopItem(i)
  /\ UNCHANGED <<cacheVars, queue, loaded, saved, src, listed, clearing>>

(* add() refuses a chapter the queue has, saves the new item, and          *)
(* addDownload starts it. An item is a new object: no coroutine knows it.  *)
AddDownload(i, d) ==
  /\ KeyOf[i] \notin Keys(queue)
  /\ \A e \in Workers : ~WorksFor(e, i)
  /\ queue' = queue \cup {i}
  /\ loaded' = [loaded EXCEPT ![i] = 0]
  /\ Begin(i, d)
  /\ saved' = RowOf(queue', loaded', state')
  /\ UNCHANGED <<cacheVars, src, listed, clearing>>

(* A bug for Remove: the row is not saved.                                 *)
RemoveUnsaved(i) ==
  /\ i \in queue
  /\ StopItem(i)
  /\ queue' = queue \ {i}
  /\ UNCHANGED <<cacheVars, loaded, saved, src, listed, clearing>>

(* remove(idx) and removeKey(key): a coroutine of the item runs on.        *)
Remove(i) ==
  /\ i \in queue
  /\ StopItem(i)
  /\ queue' = queue \ {i}
  /\ saved' = RowOf(queue', loaded, state')
  /\ UNCHANGED <<cacheVars, loaded, src, listed, clearing>>

-----------------------------------------------------------------------------
(* The coroutine: _PictureDownloader.start and the rest of                 *)
(* DownloadQueueItem.start after its await.                                *)

(* A bug for Exit: the item keeps its state when the coroutine ends.       *)
ExitUnseen(d, final) ==
  /\ downloader' = [downloader EXCEPT ![worker[d].item] = None]
  /\ worker' = [worker EXCEPT ![d] = IdleWorker]
  /\ UNCHANGED state

(* start() has returned or thrown: the item takes the final state and      *)
(* forgets its downloader, whichever that is by now.                       *)
Exit(d, final) ==
  /\ state' = [state EXCEPT ![worker[d].item] = final]
  /\ downloader' = [downloader EXCEPT ![worker[d].item] = None]
  /\ worker' = [worker EXCEPT ![d] = IdleWorker]

(* processor.load() ends: the plugin saved a complete list, or it threw or *)
(* returned without one. The scan throws at a picture whose URL is null or *)
(* does not parse. An exception is not saved.                              *)
ListLoaded(d) ==
  /\ worker[d].at = "load"
  /\ worker' = [worker EXCEPT ![d].at = "scan"]
  /\ listed' = [listed EXCEPT ![KeyOf[worker[d].item]] = TRUE]
  /\ UNCHANGED <<cacheVars, queue, state, loaded, downloader, saved, src, clearing>>

ListFails(d) ==
  /\ worker[d].at \in {"load", "scan"}
  /\ "list" \in Faults
  /\ Exit(d, "Paused")
  /\ UNCHANGED <<cacheVars, queue, loaded, saved, src, listed, clearing>>

(* _loadImage: worker d listens to the stream of the first picture to      *)
(* load. A stream that has ended calls back at once.                       *)
Subscribe(d, todo, l) ==
  LET p == PictureOf(d, Head(todo)) IN
  /\ src' = [src EXCEPT ![d] = Stream(p, l)]
  /\ Resolve(p, l)

(* A bug for Proceed: canceled is not looked at.                           *)
ProceedUnchecked(d, n, todo, l) ==
  LET i == worker[d].item IN
  /\ loaded' = [loaded EXCEPT ![i] = n]
  /\ \/ /\ todo = <<>>
        /\ Exit(d, "Complete")
        /\ src' = [src EXCEPT ![d] = "none"]
        /\ UNCHANGED <<entry, loader>>
     \/ /\ todo # <<>>
        /\ worker' = [worker EXCEPT ![d] =
                        [@ EXCEPT !.at = "image", !.todo = todo, !.loaded = n]]
        /\ Subscribe(d, todo, l)
        /\ UNCHANGED <<state, downloader>>
  /\ ItemUpdate(i, loaded', state')

(* With n pictures counted and todo left: return false when canceled,      *)
(* otherwise publish the progress and return true or load the next one.    *)
Proceed(d, n, todo, l) ==
  LET i == worker[d].item IN
  \/ /\ worker[d].canceled
     /\ Exit(d, "Paused")
     /\ src' = [src EXCEPT ![d] = "none"]
     /\ ItemUpdate(i, loaded, state')
     /\ UNCHANGED <<loaded, entry, loader>>
  \/ /\ ~worker[d].canceled
     /\ todo = <<>>
     /\ loaded' = [loaded EXCEPT ![i] = n]
     /\ Exit(d, "Complete")
     /\ src' = [src EXCEPT ![d] = "none"]
     /\ ItemUpdate(i, loaded', state')
     /\ UNCHANGED <<entry, loader>>
  \/ /\ ~worker[d].canceled
     /\ todo # <<>>
     /\ loaded' = [loaded EXCEPT ![i] = n]
     /\ worker' = [worker EXCEPT ![d] =
                     [@ EXCEPT !.at = "image", !.todo = todo, !.loaded = n]]
     /\ Subscribe(d, todo, l)
     /\ ItemUpdate(i, loaded', state)
     /\ UNCHANGED <<state, downloader>>

(* Pictures counted and left once the scan has looked at the next one.     *)
ScannedCount(d) == worker[d].loaded + IF exist(PictureOf(d, worker[d].next)) THEN 1 ELSE 0
\* A bug for ScannedTodo: a picture on disk is loaded again.
ScannedTodoAlways(d) == Append(worker[d].todo, worker[d].next)

ScannedTodo(d) ==
  IF exist(PictureOf(d, worker[d].next)) THEN worker[d].todo
  ELSE Append(worker[d].todo, worker[d].next)

(* One await cacheManager.exist of the scan; canceled is not looked at     *)
(* before the scan is over.                                                *)
Scan(d) ==
  /\ worker[d].at = "scan"
  /\ worker[d].next < N
  /\ worker' = [worker EXCEPT ![d] =
                  [worker[d] EXCEPT !.next = @ + 1,
                                    !.loaded = ScannedCount(d),
                                    !.todo = ScannedTodo(d)]]
  /\ UNCHANGED <<cacheVars, queue, state, loaded, downloader, saved, src, listed, clearing>>

ScanEnds(d, l) ==
  /\ worker[d].at = "scan"
  /\ worker[d].next = N
  /\ Proceed(d, ScannedCount(d), ScannedTodo(d), l)
  /\ UNCHANGED <<file, view, queue, listed, clearing>>

ImageLoaded(d, l) ==
  /\ worker[d].at = "image"
  /\ src[d] = "ready"
  /\ Proceed(d, worker[d].loaded + 1, Tail(worker[d].todo), l)
  /\ UNCHANGED <<file, view, queue, listed, clearing>>

(* Bugs for ImageFailed: the worker gives the picture up and counts it,    *)
(* evicts it and does not try again, or its evict also ends a load that is *)
(* pending there.                                                          *)
ImageGivenUp(d, l) ==
  /\ worker[d].at = "image"
  /\ src[d] = "failed"
  /\ Proceed(d, worker[d].loaded + 1, Tail(worker[d].todo), l)
  /\ UNCHANGED <<file, view, queue, listed, clearing>>
ImageForgotten(d, l) ==
  /\ worker[d].at = "image"
  /\ src[d] = "failed"
  /\ src' = [src EXCEPT ![d] = "none"]
  /\ UNCHANGED <<cacheVars, queue, state, loaded, downloader, saved, worker, listed, clearing>>
ImageEvictEnds(d, l) ==
  LET p == PictureOf(d, Head(worker[d].todo)) IN
  /\ worker[d].at = "image"
  /\ src[d] = "failed"
  /\ loader[l].at = "idle"
  /\ loader' = [k \in Loaders |-> IF k = l THEN [at |-> "check", pic |-> p]
                                 ELSE IF k = entry[p] THEN IdleLoader ELSE loader[k]]
  /\ entry' = [entry EXCEPT ![p] = l]
  /\ src' = [src EXCEPT ![d] = l]
  /\ UNCHANGED <<file, view, queue, state, loaded, downloader, saved, worker, listed, clearing>>

(* The catch of _loadImage evicts whatever the entry has become, which may *)
(* be the load another listener of the same stream has started since; the  *)
(* catch of the retry loop goes round: count stays 0, so the same picture  *)
(* is tried again, canceled or not.                                        *)
ImageFailed(d, l) ==
  LET p == PictureOf(d, Head(worker[d].todo)) IN
  /\ worker[d].at = "image"
  /\ src[d] = "failed"
  /\ Launch(p, l)
  /\ entry' = [entry EXCEPT ![p] = l]
  /\ src' = [src EXCEPT ![d] = l]
  /\ UNCHANGED <<file, view, queue, state, loaded, downloader, saved, worker, listed, clearing>>

-----------------------------------------------------------------------------
(* The cache under the queue, the cache page, the reader, the process.     *)

(* A load ends: each listener has its outcome, and each worker's handler   *)
(* then runs as a step of its own (ImageLoaded, ImageFailed).              *)
PictureEnds(l, o) ==
  /\ EndLoad(l, o)
  /\ src' = Notify(src, l, o)
  /\ UNCHANGED <<queue, state, loaded, downloader, saved, worker, listed, clearing>>

(* clearCache(without: the chapters queued now), one directory per step.   *)
ClearCache ==
  /\ "clear" \in Faults
  /\ clearing = {}
  /\ clearing' = Chapters \ Keys(queue)
  /\ UNCHANGED <<cacheVars, queue, state, loaded, downloader, saved, worker, src, listed>>

ClearDirectory(c) ==
  /\ c \in clearing
  /\ file' = [p \in Pictures |-> IF p[1] = c THEN "absent" ELSE file[p]]
  /\ clearing' = clearing \ {c}
  /\ UNCHANGED <<entry, loader, view, queue, state, loaded, downloader, saved,
                 worker, src, listed>>

(* The plugin saves the list of chapter c, complete or not, through the    *)
(* Processor of a reader (_save).                                          *)
ReaderSaves(c) ==
  /\ "reader" \in Faults
  /\ listed' = [listed EXCEPT ![c] = ~@]
  /\ UNCHANGED <<cacheVars, queue, state, loaded, downloader, saved, worker, src, clearing>>

(* The process ends and starts again from the files and rows.              *)
Restart ==
  /\ CacheCrash
  /\ queue' = Constructed(saved)
  /\ state' = [i \in Items |-> IF i \in DOMAIN saved /\ saved[i].complete
                               THEN "Complete" ELSE "Paused"]
  /\ loaded' = [i \in Items |-> IF i \in DOMAIN saved THEN saved[i].loaded ELSE 0]
  /\ downloader' = [i \in Items |-> None]
  /\ worker' = [d \in Workers |-> IdleWorker]
  /\ src' = [d \in Workers |-> "none"]
  /\ clearing' = {}
  /\ UNCHANGED <<saved, listed>>

Next ==
  \/ \E i \in Items : Stop(i) \/ Remove(i)
  \/ \E i \in Items, d \in Workers : Start(i, d) \/ AddDownload(i, d)
  \/ \E d \in Workers : ListLoaded(d) \/ ListFails(d) \/ Scan(d)
  \/ \E d \in Workers, l \in Loaders : ScanEnds(d, l) \/ ImageLoaded(d, l) \/ ImageFailed(d, l)
  \/ \E l \in Loaders, o \in Outcomes : PictureEnds(l, o)
  \/ CacheStep /\ UNCHANGED downloadVars
  \/ ClearCache
  \/ \E c \in Chapters : ClearDirectory(c) \/ ReaderSaves(c)
  \/ Restart

Spec == Init /\ [][Next]_vars

(* Coroutines run on; a plugin's load settles; of the requests of a loader *)
(* that keep being made, some are answered.                                *)
WorkerStep(d) ==
  \/ ListLoaded(d) \/ ListFails(d) \/ Scan(d)
  \/ \E l \in Loaders : ScanEnds(d, l) \/ ImageLoaded(d, l) \/ ImageFailed(d, l)

Fairness ==
  /\ \A d \in Workers : WF_vars(WorkerStep(d))
  /\ \A l \in Loaders :
       /\ WF_vars(CheckFile(l) /\ UNCHANGED downloadVars)
       /\ WF_vars(\E o \in Outcomes : PictureEnds(l, o))
       /\ SF_vars(BeginWrite(l) /\ UNCHANGED downloadVars)

FairSpec == Spec /\ Fairness

-----------------------------------------------------------------------------
(* Properties.                                                             *)

(* An item shown as downloading has a coroutine that works for it, is not  *)
(* canceled, and is the one stop() would cancel, in spite of coroutines of *)
(* earlier starts that still run (DownloadQueueItem.start, stop).          *)
DownloadingHasWorker ==
  \A i \in Items : state[i] = "Downloading" =>
    \E d \in Workers : downloader[i] = d /\ WorksFor(d, i) /\ ~worker[d].canceled

(* What a restart would read is the queue as it is: no removed item, each  *)
(* item's count, and every item that is complete in memory. Only legacy    *)
(* items nothing has saved yet are missing (_itemUpdate, add, removeKey).  *)
SavedIsCurrent ==
  /\ DOMAIN saved \subseteq queue
  /\ queue \ DOMAIN saved \subseteq Legacy
  /\ \A i \in DOMAIN saved :
       /\ saved[i].loaded = loaded[i]
       /\ state[i] = "Complete" => saved[i].complete
  /\ \A i \in queue \ DOMAIN saved : loaded[i] = 0 /\ state[i] # "Complete"

(* Whoever waits for a picture waits for a load that runs and loads that   *)
(* picture: each coroutine, each widget and each pending entry, although   *)
(* the error handler of one coroutine evicts the entry that another, or a  *)
(* widget's reload, has resolved since and so starts a second load of the  *)
(* same picture (_loadImage, PhotoImage.reload).                           *)
WaitsOnItsPicture ==
  /\ \A d \in Workers : src[d] \in Loaders =>
       /\ worker[d].at = "image"
       /\ LoadsPicture(src[d], PictureOf(d, Head(worker[d].todo)))
  /\ ListenersAreServed

(* A worker has counted or listed each picture it has looked at, once: it  *)
(* never counts one twice and never leaves the loop with one missing.      *)
CountsEachOnce ==
  \A d \in Workers :
    /\ worker[d].at \in {"idle", "load"} => worker[d].next = 1
    /\ worker[d].at # "image" =>
         worker[d].loaded + Len(worker[d].todo) = worker[d].next - 1
    /\ worker[d].at = "image" => /\ worker[d].loaded + Len(worker[d].todo) = N
                                 /\ worker[d].todo # <<>>

(* As long as no cache is cleared, the pictures an item counts, in memory  *)
(* and in the saved row, all have a file, across restarts and overlapping  *)
(* coroutines; a complete item has the file of every picture.              *)
Files(c) == {k \in 1..N : exist(<<c, k>>)}
ProgressIsOnDisk ==
  "clear" \notin Faults =>
    \A i \in queue :
      /\ loaded[i] <= Cardinality(Files(KeyOf[i]))
      /\ state[i] = "Complete" => Files(KeyOf[i]) = 1..N

(* With a patient user an item that is paused or complete has no coroutine *)
(* that goes on downloading.                                               *)
PausedIsQuiet ==
  Patient => \A d \in Workers, i \in Items :
    WorksFor(d, i) /\ ~worker[d].canceled => state[i] = "Downloading"

(* With a patient user a complete item stays complete until it is removed, *)
(* also across restarts.                                                   *)
CompleteIsFinal ==
  [][\A i \in Items : i \in queue /\ i \in queue' /\ state[i] = "Complete" =>
       state'[i] = "Complete"]_vars

(* A canceled coroutine does not touch the progress of its item: the count *)
(* of a queued item changes only by a restart or by a step of a coroutine  *)
(* of the item that is past its list and not canceled.                     *)
CanceledIsSilent ==
  [][\A i \in queue : loaded'[i] # loaded[i] =>
       \/ Restart
       \/ \E d \in Workers : /\ WorksFor(d, i)
                             /\ worker[d].at \in {"scan", "image"}
                             /\ ~worker[d].canceled
                             /\ worker'[d] # worker[d]]_vars

(* What the queue promises, with what the user sees of the files: a        *)
(* picture is kept when its file exists (cacheManager.exist).              *)
Promise == INSTANCE DownloadList WITH
  list <- queue, status <- state, kept <- {p \in Pictures : exist(p)}

(* As long as no cache is cleared the queue keeps its promise whatever     *)
(* fails, however the coroutines overlap and wherever the process ends:    *)
(* an item completes only when all its pictures are there, and a restart   *)
(* neither forgets an item or a completion nor adds more than old ones.    *)
KeepsPromise == Promise!ListSpec

(* The same, and no item downloads for ever.                               *)
KeepsPromiseFairly == Promise!FairListSpec

(* Every coroutine ends, canceled or not, while requests and lists may     *)
(* fail but not for ever (the retry loop of start).                        *)
WorkersEnd == \A d \in Workers : Live(d) ~> ~Live(d)
=============================================================================
