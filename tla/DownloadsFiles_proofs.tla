------------------------ MODULE DownloadsFiles_proofs ------------------------
(***************************************************************************)
(* No listener of the picture cache is left behind: a pending entry, a     *)
(* widget that waits and a worker that waits all have a load of their own  *)
(* picture behind them, for every value of the constants.                  *)
(*                                                                         *)
(* What the download queue shows is on disk, and the queue keeps its       *)
(* promise (DownloadList), for every value of the constants in which       *)
(* nobody clears the cache.                                                *)
(*                                                                         *)
(* The argument: a file that exists stays. A stream that is ready has a    *)
(* file, so a worker that counts a picture has seen its file, and with     *)
(* CountsEachOnce a count of n means n different files. An item's count,   *)
(* its completion and its row come from a worker's count or from the row.  *)
(***************************************************************************)
EXTENDS Downloads_proofs, FiniteSetTheorems

-----------------------------------------------------------------------------
(* Listeners.                                                              *)

(* The coroutines' part of WaitsOnItsPicture.                              *)
CoroutinesAreServed ==
  \A d \in Workers : src[d] \in Loaders =>
    /\ worker[d].at = "image"
    /\ LoadsPicture(src[d], PictureOf(d, Head(worker[d].todo)))

StreamInv == ListenersAreServed /\ CoroutinesAreServed

(* No one listens to an idle loader, which is what makes reusing its       *)
(* identity for a new load sound.                                          *)
LEMMA IdleHasNoListener ==
  ASSUME TypeOK, StreamInv, NEW l \in Loaders, loader[l].at = "idle"
  PROVE  /\ \A p \in Pictures : entry[p] # l /\ view[p] # l
         /\ \A d \in Workers : src[d] # l
  BY DEF StreamInv, ListenersAreServed, CoroutinesAreServed, LoadsPicture

(* LoadsPicture after the step, for a loader and picture of this state.    *)
WillLoad(l, p) == loader'[l].at # "idle" /\ loader'[l].pic = p

(* Launching a load keeps the loads that run, and runs the new one.        *)
LEMMA LaunchLoads ==
  ASSUME TypeOK, NEW p \in Pictures, NEW l \in Loaders, Launch(p, l)
  PROVE  /\ WillLoad(l, p)
         /\ \A k \in Loaders : \A q : LoadsPicture(k, q) => WillLoad(k, q)
<1>1. loader \in [Loaders -> [at : Phases, pic : Pictures \cup {None}]]
  BY DEF TypeOK, CacheTypeOK
<1> QED  BY <1>1 DEF Launch, LoadsPicture, WillLoad

(* Resolving gives an entry that is served, and a stream that is a load of *)
(* the picture or an outcome.                                              *)
LEMMA ResolveLoads ==
  ASSUME TypeOK, StreamInv, NEW p \in Pictures, NEW l \in Loaders, Resolve(p, l)
  PROVE  /\ \A k \in Loaders : \A q : LoadsPicture(k, q) => WillLoad(k, q)
         /\ Stream(p, l) \in Loaders => WillLoad(Stream(p, l), p)
         /\ \A q \in Pictures : entry'[q] \in Loaders => WillLoad(entry'[q], q)
<1>1. entry \in [Pictures -> Loaders \cup Outcomes \cup {"none"}]
  BY DEF TypeOK, CacheTypeOK
<1>2. \A q \in Pictures : entry[q] \in Loaders => LoadsPicture(entry[q], q)
  BY DEF StreamInv, ListenersAreServed
<1>3. CASE entry[p] # "none"
  <2>1. entry' = entry /\ loader' = loader /\ Stream(p, l) = entry[p]
    BY <1>3 DEF Resolve, Stream
  <2>2. \A k \in Loaders : \A q : LoadsPicture(k, q) => WillLoad(k, q)
    BY <2>1 DEF LoadsPicture, WillLoad
  <2> QED  BY <1>2, <2>1, <2>2
<1>4. CASE entry[p] = "none"
  <2>1. Launch(p, l) /\ entry' = [entry EXCEPT ![p] = l] /\ Stream(p, l) = l
    BY <1>4 DEF Resolve, Stream
  <2> QED  BY <1>1, <1>2, <2>1, LaunchLoads
<1> QED  BY <1>3, <1>4

(* Listeners are served after the step when what they listen to is loaded. *)
LEMMA ServedAfter ==
  ASSUME \A q \in Pictures : /\ entry'[q] \in Loaders => WillLoad(entry'[q], q)
                             /\ view'[q] \in Loaders => WillLoad(view'[q], q)
  PROVE  ListenersAreServed'
  BY DEF ListenersAreServed, LoadsPicture, WillLoad

(* Workers still wait on their pictures when they and their loads stay.    *)
LEMMA WaitsAfter ==
  ASSUME StreamInv, UNCHANGED <<worker, src>>,
         \A k \in Loaders : \A q : LoadsPicture(k, q) => WillLoad(k, q)
  PROVE  CoroutinesAreServed'
  BY DEF StreamInv, CoroutinesAreServed, PictureOf, LoadsPicture, WillLoad

(* The steps of the cache alone leave no listener behind.                  *)
LEMMA CacheStepStreams ==
  ASSUME TypeOK, StreamInv, CacheStep, UNCHANGED <<worker, src>>
  PROVE  StreamInv'
<1>1. /\ entry \in [Pictures -> Loaders \cup Outcomes \cup {"none"}]
      /\ view \in [Pictures -> Loaders \cup Outcomes \cup {"closed"}]
      /\ loader \in [Loaders -> [at : Phases, pic : Pictures \cup {None}]]
      /\ src \in [Workers -> Loaders \cup Outcomes \cup {"none"}]
  BY DEF TypeOK, CacheTypeOK
<1>2. \A q \in Pictures : /\ entry[q] \in Loaders => LoadsPicture(entry[q], q)
                          /\ view[q] \in Loaders => LoadsPicture(view[q], q)
  BY DEF StreamInv, ListenersAreServed
<1>3. ASSUME NEW l \in Loaders, CheckFile(l) \/ BeginWrite(l) PROVE StreamInv'
  <2>1. \A k \in Loaders : \A q : LoadsPicture(k, q) => WillLoad(k, q)
    BY <1>1, <1>3 DEF CheckFile, BeginWrite, LoadsPicture, WillLoad
  <2>2. entry' = entry /\ view' = view
    BY <1>3 DEF CheckFile, BeginWrite
  <2> QED  BY <1>2, <2>1, <2>2, ServedAfter, WaitsAfter DEF StreamInv
<1>4. ASSUME NEW p \in Viewed, NEW l \in Loaders, ViewOpen(p, l) PROVE StreamInv'
  <2>1. p \in Pictures /\ Resolve(p, l) /\ view' = [view EXCEPT ![p] = Stream(p, l)]
    BY <1>4, ViewedAssumption DEF ViewOpen
  <2>2. /\ \A k \in Loaders : \A q : LoadsPicture(k, q) => WillLoad(k, q)
        /\ Stream(p, l) \in Loaders => WillLoad(Stream(p, l), p)
        /\ \A q \in Pictures : entry'[q] \in Loaders => WillLoad(entry'[q], q)
    BY <2>1, ResolveLoads
  <2>3. \A q \in Pictures : view'[q] \in Loaders => WillLoad(view'[q], q)
    BY <1>1, <1>2, <2>1, <2>2
  <2> QED  BY <2>2, <2>3, ServedAfter, WaitsAfter DEF StreamInv
<1>5. ASSUME NEW p \in Viewed, NEW l \in Loaders, ViewReload(p, l) PROVE StreamInv'
  <2>1. /\ p \in Pictures /\ Launch(p, l)
        /\ entry' = [entry EXCEPT ![p] = l] /\ view' = [view EXCEPT ![p] = l]
    BY <1>5, ViewedAssumption DEF ViewReload
  <2>2. /\ \A k \in Loaders : \A q : LoadsPicture(k, q) => WillLoad(k, q)
        /\ WillLoad(l, p)
    BY <2>1, LaunchLoads
  <2> QED  BY <1>1, <1>2, <2>1, <2>2, ServedAfter, WaitsAfter DEF StreamInv
<1>6. ASSUME NEW p \in Pictures, ViewClose(p) \/ MemoryEvict(p) PROVE StreamInv'
  <2>1. loader' = loader /\ \A q \in Pictures : /\ entry'[q] \in {entry[q], "none"}
                                                /\ view'[q] \in {view[q], "closed"}
    BY <1>1, <1>6 DEF ViewClose, MemoryEvict
  <2>2. \A k \in Loaders : \A q : LoadsPicture(k, q) => WillLoad(k, q)
    BY <2>1 DEF LoadsPicture, WillLoad
  <2> QED  BY <1>2, <2>1, <2>2, LoadersAssumption, ServedAfter, WaitsAfter DEF StreamInv
<1> QED  BY <1>3, <1>4, <1>5, <1>6, ViewedAssumption DEF CacheStep

(* A worker that listens to its next picture has its load behind it.       *)
LEMMA SubscribeStreams ==
  ASSUME TypeInv, StreamInv, NEW d \in Workers, NEW l \in Loaders, Live(d),
         NEW todo \in Seq(1..N), todo # <<>>, Subscribe(d, todo, l), view' = view,
         worker'[d].at = "image", worker'[d].item = worker[d].item, worker'[d].todo = todo,
         \A e \in Workers : e # d => worker'[e] = worker[e]
  PROVE  StreamInv'
<1> DEFINE p == PictureOf(d, Head(todo))
<1>1. TypeOK /\ entry \in [Pictures -> Loaders \cup Outcomes \cup {"none"}]
      /\ src \in [Workers -> Loaders \cup Outcomes \cup {"none"}]
  BY DEF TypeInv, TypeOK, CacheTypeOK
<1>2. \A q \in Pictures : /\ entry[q] \in Loaders => LoadsPicture(entry[q], q)
                          /\ view[q] \in Loaders => LoadsPicture(view[q], q)
  BY DEF StreamInv, ListenersAreServed
<1>3. p \in Pictures
  <2>1. Head(todo) \in 1..N
    BY HeadTailProperties
  <2> QED  BY <2>1, PictureOfType
<1>4. /\ \A k \in Loaders : \A q : LoadsPicture(k, q) => WillLoad(k, q)
      /\ Stream(p, l) \in Loaders => WillLoad(Stream(p, l), p)
      /\ \A q \in Pictures : entry'[q] \in Loaders => WillLoad(entry'[q], q)
  BY <1>1, <1>3, ResolveLoads DEF Subscribe
<1>5. ListenersAreServed'
  BY <1>2, <1>4, ServedAfter
<1>6. CoroutinesAreServed'
  <2>1. src' = [src EXCEPT ![d] = Stream(p, l)]
    BY DEF Subscribe
  <2>2. ASSUME NEW e \in Workers, src'[e] \in Loaders
        PROVE  worker'[e].at = "image" /\ WillLoad(src'[e], PictureOf(e, Head(worker[e].todo))')
    <3>1. CASE e = d
      <4>1. PictureOf(e, Head(worker[e].todo))' = p
        BY <3>1 DEF PictureOf
      <4> QED  BY <1>1, <1>4, <2>1, <2>2, <3>1, <4>1
    <3>2. CASE e # d
      <4>1. /\ src[e] = src'[e]
            /\ PictureOf(e, Head(worker[e].todo))' = PictureOf(e, Head(worker[e].todo))
        BY <1>1, <2>1, <3>2 DEF PictureOf
      <4>2. worker[e].at = "image" /\ LoadsPicture(src[e], PictureOf(e, Head(worker[e].todo)))
        BY <2>2, <4>1 DEF StreamInv, CoroutinesAreServed
      <4> QED  BY <1>4, <2>2, <3>2, <4>1, <4>2
    <3> QED  BY <3>1, <3>2
  <2> QED  BY <2>2 DEF CoroutinesAreServed, LoadsPicture, WillLoad
<1> QED  BY <1>5, <1>6 DEF StreamInv

(* A step that leaves the streams alone, and each waiting worker's picture.*)
LEMMA SameStreams ==
  ASSUME StreamInv, UNCHANGED <<entry, loader, view>>,
         \A d \in Workers : src'[d] \in Loaders =>
           /\ src'[d] = src[d]
           /\ worker[d].at = "image" =>
                /\ worker'[d].at = "image"
                /\ worker'[d].item = worker[d].item
                /\ worker'[d].todo = worker[d].todo
  PROVE  StreamInv'
<1>1. ListenersAreServed'
  BY DEF StreamInv, ListenersAreServed, LoadsPicture
<1>2. CoroutinesAreServed'
  <2> SUFFICES ASSUME NEW d \in Workers, src'[d] \in Loaders
               PROVE  /\ worker'[d].at = "image"
                      /\ LoadsPicture(src[d], PictureOf(d, Head(worker[d].todo)))'
    BY DEF CoroutinesAreServed
  <2>1. /\ src'[d] = src[d] /\ worker[d].at = "image"
        /\ LoadsPicture(src[d], PictureOf(d, Head(worker[d].todo)))
    BY DEF StreamInv, CoroutinesAreServed
  <2>2. PictureOf(d, Head(worker[d].todo))' = PictureOf(d, Head(worker[d].todo))
    BY <2>1 DEF PictureOf
  <2> QED  BY <2>1, <2>2 DEF LoadsPicture
<1> QED  BY <1>1, <1>2 DEF StreamInv

(* A coroutine that ends, or that begins, leaves no one waiting.           *)
LEMMA ProceedStreams ==
  ASSUME TypeInv, StreamInv, NEW d \in Workers, NEW l \in Loaders, Live(d),
         NEW n \in Count, NEW todo \in Seq(1..N), Proceed(d, n, todo, l), view' = view
  PROVE  StreamInv'
<1>1. TypeOK /\ src \in [Workers -> Loaders \cup Outcomes \cup {"none"}]
  BY DEF TypeInv, TypeOK
<1>2. CASE worker[d].canceled \/ todo = <<>>
  <2>1. UNCHANGED <<entry, loader>> /\ src' = [src EXCEPT ![d] = "none"]
    BY <1>2 DEF Proceed
  <2>2. \A e \in Workers : e # d => worker'[e] = worker[e]
    BY <1>1, <1>2 DEF Proceed, Exit, TypeOK
  <2> QED  BY <1>1, <2>1, <2>2, SameStreams, LoadersAssumption
<1>3. CASE ~worker[d].canceled /\ todo # <<>>
  <2>1. Subscribe(d, todo, l)
    BY <1>3 DEF Proceed
  <2>2. \A e \in Workers : e # d => worker'[e] = worker[e]
    BY <1>1, <1>3 DEF Proceed, TypeOK
  <2>3. worker'[d] = [worker[d] EXCEPT !.at = "image", !.todo = todo, !.loaded = n]
    BY <1>1, <1>3 DEF Proceed, TypeOK
  <2>4. worker'[d].at = "image" /\ worker'[d].item = worker[d].item /\ worker'[d].todo = todo
    BY <1>1, <2>3 DEF TypeOK, WorkerRecord
  <2> QED  BY <1>3, <2>1, <2>2, <2>4, SubscribeStreams
<1> QED  BY <1>2, <1>3

(* The end of a load tells everyone who listens to it.                     *)
LEMMA PictureEndsStreams ==
  ASSUME TypeOK, StreamInv, NEW l \in Loaders, NEW o \in Outcomes, PictureEnds(l, o)
  PROVE  StreamInv'
<1>1. /\ entry \in [Pictures -> Loaders \cup Outcomes \cup {"none"}]
      /\ view \in [Pictures -> Loaders \cup Outcomes \cup {"closed"}]
      /\ loader \in [Loaders -> [at : Phases, pic : Pictures \cup {None}]]
      /\ src \in [Workers -> Loaders \cup Outcomes \cup {"none"}]
      /\ o \notin Loaders
  BY LoadersAssumption DEF TypeOK, CacheTypeOK, Outcomes
<1>2. \A q \in Pictures : /\ entry[q] \in Loaders => LoadsPicture(entry[q], q)
                          /\ view[q] \in Loaders => LoadsPicture(view[q], q)
  BY DEF StreamInv, ListenersAreServed
<1>3. loader' = [loader EXCEPT ![l] = IdleLoader] /\ view' = Notify(view, l, o)
      /\ src' = Notify(src, l, o) /\ worker' = worker
  BY DEF PictureEnds, EndLoad, FinishLoad
<1>4. \A k \in Loaders : \A q : k # l /\ LoadsPicture(k, q) => WillLoad(k, q)
  BY <1>1, <1>3 DEF LoadsPicture, WillLoad
<1>5. \A q \in Pictures : entry'[q] \in Loaders => entry'[q] = entry[q] /\ entry[q] # l
  BY <1>1, <1>2 DEF PictureEnds, EndLoad, Settle, LoadsPicture
<1>6. \A q \in Pictures : view'[q] \in Loaders => view'[q] = view[q] /\ view[q] # l
  BY <1>1, <1>3 DEF Notify
<1>7. ListenersAreServed'
  BY <1>2, <1>4, <1>5, <1>6, ServedAfter
<1>8. \A d \in Workers : src'[d] \in Loaders => src'[d] = src[d] /\ src[d] # l
  BY <1>1, <1>3 DEF Notify
<1>9. CoroutinesAreServed'
  <2> SUFFICES ASSUME NEW d \in Workers, src'[d] \in Loaders
               PROVE  /\ worker'[d].at = "image"
                      /\ LoadsPicture(src[d], PictureOf(d, Head(worker[d].todo)))'
    BY DEF CoroutinesAreServed
  <2>1. src'[d] = src[d] /\ src[d] # l /\ worker' = worker
    BY <1>3, <1>8
  <2>2. worker[d].at = "image" /\ LoadsPicture(src[d], PictureOf(d, Head(worker[d].todo)))
    BY <2>1 DEF StreamInv, CoroutinesAreServed
  <2>3. WillLoad(src[d], PictureOf(d, Head(worker[d].todo)))
    BY <1>4, <2>1, <2>2
  <2> QED  BY <2>1, <2>2, <2>3 DEF LoadsPicture, WillLoad, PictureOf
<1> QED  BY <1>7, <1>9 DEF StreamInv

(* The handler of a failed stream evicts and resolves again: whoever still *)
(* listens to the evicted load keeps it, and the new one runs beside it.   *)
LEMMA ImageFailedStreams ==
  ASSUME TypeInv, StreamInv, NEW d \in Workers, NEW l \in Loaders, ImageFailed(d, l)
  PROVE  StreamInv'
<1> DEFINE p == PictureOf(d, Head(worker[d].todo))
<1>1. /\ TypeOK /\ entry \in [Pictures -> Loaders \cup Outcomes \cup {"none"}]
      /\ src \in [Workers -> Loaders \cup Outcomes \cup {"none"}]
  BY DEF TypeInv, TypeOK, CacheTypeOK
<1>2. /\ worker[d].at = "image" /\ Launch(p, l) /\ worker' = worker /\ view' = view
      /\ entry' = [entry EXCEPT ![p] = l] /\ src' = [src EXCEPT ![d] = l]
  BY DEF ImageFailed
<1>3. p \in Pictures
  BY <1>2, WaitingPicture
<1>4. WillLoad(l, p) /\ \A k \in Loaders : \A q : LoadsPicture(k, q) => WillLoad(k, q)
  BY <1>1, <1>2, <1>3, LaunchLoads
<1>5. ListenersAreServed'
  BY <1>1, <1>2, <1>3, <1>4, ServedAfter DEF StreamInv, ListenersAreServed
<1>6. CoroutinesAreServed'
  <2> SUFFICES ASSUME NEW e \in Workers, src'[e] \in Loaders
               PROVE  /\ worker[e].at = "image"
                      /\ WillLoad(src'[e], PictureOf(e, Head(worker[e].todo)))
    BY <1>2 DEF CoroutinesAreServed, LoadsPicture, WillLoad, PictureOf
  <2>1. CASE e = d
    BY <1>1, <1>2, <1>4, <2>1
  <2>2. CASE e # d
    BY <1>1, <1>2, <1>4, <2>2 DEF StreamInv, CoroutinesAreServed
  <2> QED  BY <2>1, <2>2
<1> QED  BY <1>5, <1>6 DEF StreamInv

(* Every step leaves no listener behind.                                   *)
LEMMA NextStreams == TypeInv /\ StreamInv /\ [Next]_vars => StreamInv'
<1> SUFFICES ASSUME TypeInv, StreamInv, [Next]_vars PROVE StreamInv'
  OBVIOUS
<1>1. /\ TypeOK
      /\ \A d \in Workers : src[d] \in Loaders => worker[d].at = "image"
  BY DEF TypeInv, StreamInv, CoroutinesAreServed
<1>2. ASSUME NEW i \in Items, Stop(i) \/ Remove(i) PROVE StreamInv'
  <2>1. StopItem(i) /\ UNCHANGED <<entry, loader, view, src>>
    BY <1>2 DEF Stop, Remove, cacheVars
  <2>2. \A d \in Workers : /\ worker'[d].at = worker[d].at
                           /\ worker'[d].item = worker[d].item
                           /\ worker'[d].todo = worker[d].todo
    <3>1. \A w \in WorkerRecord : LET x == [w EXCEPT !.canceled = TRUE] IN
            x.at = w.at /\ x.item = w.item /\ x.todo = w.todo
      BY DEF WorkerRecord
    <3>2. \A d \in Workers : \/ worker'[d] = worker[d]
                             \/ worker'[d] = [worker[d] EXCEPT !.canceled = TRUE]
      BY <2>1 DEF StopItem
    <3>3. \A d \in Workers : worker[d] \in WorkerRecord
      BY <1>1 DEF TypeOK
    <3> QED  BY <3>1, <3>2, <3>3
  <2> QED  BY <2>1, <2>2, SameStreams
<1>3. ASSUME NEW i \in Items, NEW d \in Workers, Start(i, d) \/ AddDownload(i, d)
      PROVE  StreamInv'
  <2>1. Begin(i, d) /\ UNCHANGED <<entry, loader, view, src>>
    BY <1>3 DEF Start, AddDownload, cacheVars
  <2>2. worker[d].at = "idle" /\ \A e \in Workers : e # d => worker'[e] = worker[e]
    BY <1>1, <2>1 DEF Begin, Launched, TypeOK
  <2> QED  BY <1>1, <2>1, <2>2, SameStreams
<1>4. ASSUME NEW d \in Workers, ListLoaded(d) \/ ListFails(d) \/ Scan(d) PROVE StreamInv'
  <2>1. worker[d].at # "image" /\ UNCHANGED <<entry, loader, view, src>>
    BY <1>4 DEF ListLoaded, ListFails, Scan, cacheVars
  <2>2. \A e \in Workers : e # d => worker'[e] = worker[e]
    BY <1>1, <1>4 DEF ListLoaded, ListFails, Scan, Exit, TypeOK
  <2> QED  BY <1>1, <2>1, <2>2, SameStreams
<1>5. ASSUME NEW d \in Workers, NEW l \in Loaders, ScanEnds(d, l) PROVE StreamInv'
  <2>1. worker[d].at = "scan" /\ Live(d)
    BY <1>5 DEF ScanEnds, Live
  <2> QED  BY <1>5, <2>1, ScannedType, ProceedStreams DEF ScanEnds
<1>6. ASSUME NEW d \in Workers, NEW l \in Loaders, ImageLoaded(d, l) PROVE StreamInv'
  <2>1. worker[d].at = "image" /\ Live(d)
    BY <1>6 DEF ImageLoaded, Live
  <2> QED  BY <1>6, <2>1, ArrivedType, ProceedStreams DEF ImageLoaded
<1>7. ASSUME NEW d \in Workers, NEW l \in Loaders, ImageFailed(d, l) PROVE StreamInv'
  BY <1>7, ImageFailedStreams
<1>8. ASSUME NEW l \in Loaders, NEW o \in Outcomes, PictureEnds(l, o) PROVE StreamInv'
  BY <1>1, <1>8, PictureEndsStreams
<1>9. CASE CacheStep /\ UNCHANGED downloadVars
  BY <1>1, <1>9, CacheStepStreams DEF downloadVars
<1>10. CASE \/ ClearCache
            \/ \E c \in Chapters : ClearDirectory(c) \/ ReaderSaves(c)
            \/ UNCHANGED vars
  <2>1. UNCHANGED <<entry, loader, view, worker, src>>
    BY <1>10 DEF ClearCache, ClearDirectory, ReaderSaves, cacheVars, downloadVars, vars
  <2> QED  BY <2>1, SameStreams
<1>11. CASE Restart
  <2>1. \A p \in Pictures : entry'[p] \notin Loaders /\ view'[p] \notin Loaders
    BY <1>11, LoadersAssumption DEF Restart, CacheCrash
  <2>2. \A d \in Workers : src'[d] \notin Loaders
    BY <1>11, LoadersAssumption DEF Restart
  <2> QED  BY <2>1, <2>2 DEF StreamInv, ListenersAreServed, CoroutinesAreServed
<1> QED  BY <1>2, <1>3, <1>4, <1>5, <1>6, <1>7, <1>8, <1>9, <1>10, <1>11 DEF Next

(* No listener waits for a load that is over, and none for a load of       *)
(* another picture.                                                        *)
THEOREM StreamsInvariant == Spec => []StreamInv
<1>1. Init => StreamInv
  BY LoadersAssumption
     DEF Init, CacheInit, StreamInv, ListenersAreServed, CoroutinesAreServed
<1> QED  BY <1>1, NextStreams, TypeInvariant, PTL DEF Spec

(* No coroutine, no widget and no pending entry waits for a load that is   *)
(* over, however many listeners of one failed stream evict its picture and *)
(* resolve it again, one after the other (_loadImage).                     *)
THEOREM NobodyWaitsInVain == Spec => []WaitsOnItsPicture
<1>1. StreamInv => WaitsOnItsPicture
  BY DEF StreamInv, CoroutinesAreServed, WaitsOnItsPicture
<1> QED  BY <1>1, StreamsInvariant, PTL

-----------------------------------------------------------------------------
(* Files.                                                                  *)

(* A load that writes has created its file, and loads a picture.           *)
LoadsHaveFiles ==
  \A l \in Loaders : /\ loader[l].at # "idle" => loader[l].pic \in Pictures
                     /\ loader[l].at = "write" => exist(loader[l].pic)

(* What is ready in memory has a file.                                     *)
ReadyHasFile ==
  /\ \A p \in Pictures : entry[p] = "ready" => exist(p)
  /\ \A d \in Workers : src[d] = "ready" =>
       worker[d].at = "image" /\ exist(PictureOf(d, Head(worker[d].todo)))

Listed(k, s) == \E j \in 1..Len(s) : s[j] = k

(* A picture a worker has looked at and does not list has a file.          *)
CountedHaveFiles ==
  \A d \in Workers : Live(d) =>
    \A k \in 1..N : (worker[d].at = "image" \/ k < worker[d].next) =>
      Listed(k, worker[d].todo) \/ exist(PictureOf(d, k))

(* What items and rows count has files.                                    *)
ItemsHaveFiles ==
  /\ \A i \in Items : /\ loaded[i] <= Cardinality(Files(KeyOf[i]))
                      /\ state[i] = "Complete" => Files(KeyOf[i]) = 1..N
  /\ \A i \in DOMAIN saved : saved[i].complete => Files(KeyOf[i]) = 1..N

(* No chapter is in the queue twice.                                       *)
KeysDistinct == \A i, j \in queue : KeyOf[i] = KeyOf[j] => i = j

FilesInv ==
  /\ clearing = {}
  /\ LoadsHaveFiles
  /\ ReadyHasFile
  /\ CountedHaveFiles
  /\ ItemsHaveFiles
  /\ KeysDistinct

(* Everything the proof knows of a state.                                  *)
AllInv == TypeInv /\ StreamInv /\ SavedIsCurrent /\ FilesInv

FilesStay == \A p \in Pictures : exist(p) => exist(p)'

-----------------------------------------------------------------------------
(* Files stay.                                                             *)

(* The end of a load deletes no file, and a ready end leaves one.          *)
LEMMA FinishKeepsFiles ==
  ASSUME TypeInv, LoadsHaveFiles, NEW l \in Loaders, NEW o \in Outcomes, FinishLoad(l, o),
         NEW q, q = loader[l].pic
  PROVE  /\ FilesStay
         /\ q \in Pictures
         /\ o = "ready" => exist(q)'
<1>1. file \in [Pictures -> FileStates] /\ o \in {"ready", "failed"}
  BY DEF TypeInv, TypeOK, CacheTypeOK, Outcomes
<1>2. q \in Pictures /\ (loader[l].at = "write" => exist(q))
  BY DEF LoadsHaveFiles, FinishLoad, LoadEnds, ReadEnds, RequestFails, WriteEnds, WriteFails
<1>3. CASE ReadEnds(l, o)
  <2>1. file' = file /\ o \in DecodeOf(file[q])
    BY <1>3 DEF ReadEnds
  <2>2. o = "ready" => file[q] # "absent"
    BY <2>1 DEF DecodeOf
  <2> QED  BY <1>2, <2>1, <2>2 DEF FilesStay, exist
<1>4. CASE RequestFails(l, o) \/ WriteFails(l, o)
  BY <1>1, <1>2, <1>4 DEF RequestFails, WriteFails, FilesStay, exist
<1>5. CASE WriteEnds(l, o)
  <2>1. file' = [file EXCEPT ![q] = IF o = "ready" THEN "good" ELSE "bad"]
    BY <1>2, <1>5 DEF WriteEnds
  <2> QED  BY <1>1, <1>2, <2>1 DEF FilesStay, exist
<1> QED  BY <1>3, <1>4, <1>5 DEF FinishLoad, LoadEnds

(* A file that exists stays as long as nobody clears the cache.            *)
LEMMA NextKeepsFiles ==
  ASSUME "clear" \notin Faults, TypeInv, LoadsHaveFiles, clearing = {}, [Next]_vars
  PROVE  FilesStay /\ clearing' = {}
<1>1. file \in [Pictures -> FileStates]
  BY DEF TypeInv, TypeOK, CacheTypeOK
<1>2. ASSUME UNCHANGED file PROVE FilesStay
  BY <1>2 DEF FilesStay, exist
<1>3. CASE \E i \in Items : Stop(i) \/ Remove(i)
  BY <1>2, <1>3 DEF Stop, Remove, cacheVars
<1>4. CASE \E i \in Items, d \in Workers : Start(i, d) \/ AddDownload(i, d)
  BY <1>2, <1>4 DEF Start, AddDownload, cacheVars
<1>5. CASE \E d \in Workers : ListLoaded(d) \/ ListFails(d) \/ Scan(d)
  BY <1>2, <1>5 DEF ListLoaded, ListFails, Scan, cacheVars
<1>6. CASE \E d \in Workers, l \in Loaders :
             ScanEnds(d, l) \/ ImageLoaded(d, l) \/ ImageFailed(d, l)
  BY <1>2, <1>6 DEF ScanEnds, ImageLoaded, ImageFailed
<1>7. CASE \E l \in Loaders, o \in Outcomes : PictureEnds(l, o)
  BY <1>7, FinishKeepsFiles DEF PictureEnds, EndLoad
<1>8. CASE CacheStep /\ UNCHANGED downloadVars
  <2>1. CASE \E l \in Loaders : BeginWrite(l)
    BY <1>1, <1>8, <2>1 DEF BeginWrite, FilesStay, exist, downloadVars
  <2>2. CASE ~\E l \in Loaders : BeginWrite(l)
    BY <1>2, <1>8, <2>2
       DEF CacheStep, CheckFile, ViewOpen, ViewReload, ViewClose, MemoryEvict, downloadVars
  <2> QED  BY <2>1, <2>2
<1>9. CASE \E c \in Chapters : ReaderSaves(c)
  BY <1>2, <1>9 DEF ReaderSaves, cacheVars
<1>10. CASE Restart
  BY <1>2, <1>10 DEF Restart, CacheCrash
<1>11. CASE UNCHANGED vars
  BY <1>2, <1>11 DEF vars, cacheVars, downloadVars
<1> QED  BY <1>3, <1>4, <1>5, <1>6, <1>7, <1>8, <1>9, <1>10, <1>11
         DEF Next, ClearCache, ClearDirectory

(* The files of a chapter are numbers, and only grow when files stay.      *)
LEMMA FilesGrow ==
  ASSUME FilesStay, NEW c \in Chapters
  PROVE  /\ Files(c) \subseteq Files(c)'
         /\ Files(c)' \subseteq 1..N
         /\ Files(c) = 1..N => Files(c)' = 1..N
         /\ IsFiniteSet(Files(c)) /\ IsFiniteSet(Files(c)')
         /\ Cardinality(Files(c)) \in Nat /\ Cardinality(Files(c)') \in Nat
         /\ Cardinality(Files(c)) <= Cardinality(Files(c)')
<1>1. \A k \in 1..N : <<c, k>> \in Pictures
  BY PicturesAssumption
<1>2. Files(c) \subseteq Files(c)' /\ Files(c)' \subseteq 1..N /\ Files(c) \subseteq 1..N
  BY <1>1 DEF Files, FilesStay
<1>3. IsFiniteSet(1..N)
  BY NAssumption, FS_Interval
<1>4. IsFiniteSet(Files(c)) /\ IsFiniteSet(Files(c)')
  BY <1>2, <1>3, FS_Subset
<1>5. Cardinality(Files(c)) <= Cardinality(Files(c)')
  BY <1>2, <1>4, FS_Subset
<1> QED  BY <1>2, <1>4, <1>5, FS_CardinalityType

(* When all pictures but those listed have files, there are as many files  *)
(* as the list leaves.                                                     *)
LEMMA CountIsBacked ==
  ASSUME NEW c \in Chapters, NEW n \in Count, NEW todo \in Seq(1..N), n + Len(todo) = N,
         \A k \in 1..N : Listed(k, todo) \/ exist(<<c, k>>)
  PROVE  /\ n <= Cardinality(Files(c))
         /\ todo = <<>> => Files(c) = 1..N
<1> DEFINE m == Len(todo)
           R == {todo[j] : j \in 1..m}
           F == Files(c)
<1>1. m \in Nat /\ todo \in [1..m -> 1..N]
  BY LenProperties
<1>2. IsFiniteSet(R) /\ Cardinality(R) <= m
  <2>1. todo \in Surjection(1..m, R)
    BY <1>1 DEF Surjection
  <2>2. IsFiniteSet(1..m) /\ Cardinality(1..m) = m
    <3> HIDE DEF m
    <3>1. 1 \in Int /\ m \in Int
      BY <1>1
    <3>2. IsFiniteSet(1..m) /\ Cardinality(1..m) = IF 1 > m THEN 0 ELSE m - 1 + 1
      BY <3>1, FS_Interval
    <3> QED  BY <1>1, <3>2
  <2> HIDE DEF R, m
  <2> QED  BY <2>1, <2>2, FS_Surjection
<1>3. IsFiniteSet(1..N) /\ Cardinality(1..N) = N
  BY NAssumption, FS_Interval
<1>4. F \subseteq 1..N /\ 1..N \subseteq F \cup R
  BY DEF Files, Listed
<1>5. IsFiniteSet(F)
  BY <1>3, <1>4, FS_Subset
<1>6. /\ IsFiniteSet(F \cup R)
      /\ Cardinality(F \cup R) = Cardinality(F) + Cardinality(R) - Cardinality(F \cap R)
  <2> HIDE DEF F, R
  <2> QED  BY <1>2, <1>5, FS_Union
<1>7. Cardinality(1..N) <= Cardinality(F \cup R)
  <2> HIDE DEF F, R
  <2> QED  BY <1>4, <1>6, FS_Subset
<1>8. Cardinality(F) \in Nat /\ Cardinality(R) \in Nat /\ Cardinality(F \cap R) \in Nat
  <2> HIDE DEF F, R
  <2>1. IsFiniteSet(F \cap R)
    BY <1>5, FS_Intersection
  <2> QED  BY <1>2, <1>5, <2>1, FS_CardinalityType
<1>9. n <= Cardinality(F)
  <2> HIDE DEF F, R, m
  <2>1. n + m = N /\ n \in Nat
    BY NAssumption DEF m, Count
  <2>2. PICK a \in Nat, b \in Nat, e \in Nat :
          a = Cardinality(F) /\ b = Cardinality(R) /\ e = Cardinality(F \cap R)
    BY <1>8
  <2>3. b <= m /\ N <= a + b - e
    BY <1>2, <1>3, <1>6, <1>7, <2>2
  <2>4. n <= a
    BY <1>1, <2>1, <2>3, NAssumption
  <2> QED  BY <2>2, <2>4
<1>10. todo = <<>> => F = 1..N
  <2> SUFFICES ASSUME todo = <<>> PROVE F = 1..N
    OBVIOUS
  <2>1. R = {}
    OBVIOUS
  <2> HIDE DEF R
  <2> QED  BY <1>4, <2>1
<1> QED  BY <1>9, <1>10

-----------------------------------------------------------------------------
(* The parts of FilesInv after a step.                                     *)

(* Loads after a step: each is as it was, is idle or loads a picture it    *)
(* does not write yet, or has just created its file.                       *)
LoadsFollow ==
  \A l \in Loaders :
    \/ loader'[l] = loader[l]
    \/ loader'[l].at = "idle"
    \/ /\ loader'[l].pic \in Pictures
       /\ loader'[l].at = "write" => file'[loader'[l].pic] # "absent"

(* Then a load that writes has its file after the step.                    *)
LEMMA LoadsAfter ==
  ASSUME LoadsHaveFiles, FilesStay, LoadsFollow
  PROVE  LoadsHaveFiles'
<1> SUFFICES ASSUME NEW l \in Loaders
             PROVE  /\ loader'[l].at # "idle" => loader'[l].pic \in Pictures
                    /\ loader'[l].at = "write" => exist(loader[l].pic)'
  BY DEF LoadsHaveFiles
<1>1. CASE loader'[l] = loader[l]
  <2>1. loader'[l].at = "write" => exist(loader[l].pic) /\ loader[l].pic \in Pictures
    BY <1>1 DEF LoadsHaveFiles
  <2> QED  BY <1>1, <2>1 DEF LoadsHaveFiles, FilesStay, exist
<1>2. CASE loader'[l].at = "idle"
  BY <1>2
<1>3. CASE /\ loader'[l].pic \in Pictures
           /\ loader'[l].at = "write" => file'[loader'[l].pic] # "absent"
  BY <1>3 DEF exist
<1> QED  BY <1>1, <1>2, <1>3 DEF LoadsFollow

(* Resolving makes nothing ready.                                          *)
LEMMA ResolveFiles ==
  ASSUME TypeInv, NEW p \in Pictures, NEW l \in Loaders, Resolve(p, l)
  PROVE  /\ LoadsFollow
         /\ \A q \in Pictures : entry'[q] = "ready" => entry[q] = "ready"
         /\ Stream(p, l) = "ready" => entry[p] = "ready"
<1>1. /\ entry \in [Pictures -> Loaders \cup Outcomes \cup {"none"}]
      /\ loader \in [Loaders -> [at : Phases, pic : Pictures \cup {None}]]
      /\ l # "ready"
  BY LoadersAssumption DEF TypeInv, TypeOK, CacheTypeOK
<1> QED  BY <1>1 DEF Resolve, Launch, Stream, LoadsFollow

(* Stopping marks a worker and changes nothing else of it.                 *)
LEMMA StopItemWorkers ==
  ASSUME TypeInv, NEW i \in Items, StopItem(i)
  PROVE  \A d \in Workers : /\ worker'[d].at = worker[d].at
                            /\ worker'[d].item = worker[d].item
                            /\ worker'[d].next = worker[d].next
                            /\ worker'[d].todo = worker[d].todo
<1>1. \A w \in WorkerRecord : LET x == [w EXCEPT !.canceled = TRUE] IN
        x.at = w.at /\ x.item = w.item /\ x.next = w.next /\ x.todo = w.todo
  BY DEF WorkerRecord
<1>2. \A d \in Workers : \/ worker'[d] = worker[d]
                         \/ worker'[d] = [worker[d] EXCEPT !.canceled = TRUE]
  BY DEF StopItem
<1>3. \A d \in Workers : worker[d] \in WorkerRecord
  BY DEF TypeInv, TypeOK
<1> QED  BY <1>1, <1>2, <1>3

(* Items and rows after a step that takes counts and completions from      *)
(* items, from rows, or from the files.                                    *)
ItemsFollow ==
  /\ \A i \in Items :
       /\ \/ loaded'[i] = loaded[i]
          \/ loaded'[i] = 0
          \/ loaded'[i] \in Nat /\ loaded'[i] <= Cardinality(Files(KeyOf[i]))
       /\ state'[i] = "Complete" =>
            \/ state[i] = "Complete"
            \/ i \in DOMAIN saved /\ saved[i].complete
            \/ Files(KeyOf[i]) = 1..N
  /\ \A i \in DOMAIN saved' : saved'[i].complete =>
       \/ i \in DOMAIN saved /\ saved[i].complete
       \/ i \in Items /\ state'[i] = "Complete"

(* Then what the queue counts is on disk after the step.                   *)
LEMMA ItemsAfter ==
  ASSUME TypeInv, ItemsHaveFiles, FilesStay, ItemsFollow
  PROVE  ItemsHaveFiles'
<1>1. TypeOK /\ DOMAIN saved \subseteq Items /\ loaded \in [Items -> Count]
  BY DEF TypeInv, TypeOK
<1>2. ASSUME NEW i \in Items
      PROVE  /\ loaded'[i] <= Cardinality(Files(KeyOf[i])')
             /\ state'[i] = "Complete" => Files(KeyOf[i])' = 1..N
  <2>1. KeyOf[i] \in Chapters
    BY KeyOfAssumption
  <2>2. /\ Cardinality(Files(KeyOf[i])) \in Nat /\ Cardinality(Files(KeyOf[i])') \in Nat
        /\ Cardinality(Files(KeyOf[i])) <= Cardinality(Files(KeyOf[i])')
        /\ Files(KeyOf[i]) = 1..N => Files(KeyOf[i])' = 1..N
    BY <2>1, FilesGrow
  <2>3. loaded[i] \in Nat /\ loaded[i] <= Cardinality(Files(KeyOf[i]))
    <3>1. loaded[i] \in 0..N
      BY <1>1 DEF Count
    <3> QED  BY <3>1, NAssumption DEF ItemsHaveFiles
  <2>4. loaded'[i] <= Cardinality(Files(KeyOf[i])')
    BY <2>2, <2>3 DEF ItemsFollow
  <2>5. state'[i] = "Complete" => Files(KeyOf[i]) = 1..N
    BY DEF ItemsFollow, ItemsHaveFiles
  <2> QED  BY <2>2, <2>4, <2>5
<1>3. ASSUME NEW i \in DOMAIN saved', saved'[i].complete
      PROVE  Files(KeyOf[i])' = 1..N
  <2>1. CASE i \in DOMAIN saved /\ saved[i].complete
    <3>1. KeyOf[i] \in Chapters /\ Files(KeyOf[i]) = 1..N
      BY <1>1, <2>1, KeyOfAssumption DEF ItemsHaveFiles
    <3> QED  BY <3>1, FilesGrow
  <2>2. CASE i \in Items /\ state'[i] = "Complete"
    BY <1>2, <2>2
  <2> QED  BY <1>3, <2>1, <2>2 DEF ItemsFollow
<1> QED  BY <1>2, <1>3 DEF ItemsHaveFiles

(* A worker after a step: what decides which pictures it counts.           *)
SameWorker(d) == /\ worker'[d].at = worker[d].at
                 /\ worker'[d].item = worker[d].item
                 /\ worker'[d].next = worker[d].next
                 /\ worker'[d].todo = worker[d].todo

(* Entries and streams after a step are ready when they were, or when the  *)
(* file is there.                                                          *)
StreamsFollow ==
  /\ \A p \in Pictures : entry'[p] = "ready" => entry[p] = "ready" \/ file'[p] # "absent"
  /\ \A d \in Workers : src'[d] = "ready" =>
       \/ src[d] = "ready" /\ SameWorker(d)
       \/ worker'[d].at = "image" /\ exist(PictureOf(d, Head(worker[d].todo)))'

(* Then a picture that is ready has its file after the step.               *)
LEMMA ReadyAfter ==
  ASSUME TypeInv, ReadyHasFile, FilesStay, StreamsFollow
  PROVE  ReadyHasFile'
<1>1. ASSUME NEW p \in Pictures, entry'[p] = "ready" PROVE exist(p)'
  BY <1>1 DEF StreamsFollow, ReadyHasFile, FilesStay, exist
<1>2. ASSUME NEW d \in Workers, src'[d] = "ready"
      PROVE  worker'[d].at = "image" /\ exist(PictureOf(d, Head(worker[d].todo)))'
  <2>1. CASE src[d] = "ready" /\ SameWorker(d)
    <3>1. worker[d].at = "image" /\ exist(PictureOf(d, Head(worker[d].todo)))
      BY <2>1 DEF ReadyHasFile
    <3>2. Live(d) /\ Head(worker[d].todo) \in 1..N
      <4>1. worker[d].todo \in Seq(1..N) /\ worker[d].todo # <<>>
        BY <3>1, ArrivedType
      <4> QED  BY <3>1, <4>1, HeadTailProperties DEF Live
    <3>3. PICK q \in Pictures : q = PictureOf(d, Head(worker[d].todo))
      BY <3>2, PictureOfType
    <3>4. PictureOf(d, Head(worker[d].todo))' = q
      BY <2>1, <3>3 DEF SameWorker, PictureOf
    <3>5. exist(q)'
      BY <3>1, <3>3 DEF FilesStay
    <3> QED  BY <2>1, <3>1, <3>4, <3>5 DEF SameWorker, exist
  <2>2. CASE worker'[d].at = "image" /\ exist(PictureOf(d, Head(worker[d].todo)))'
    BY <2>2
  <2> QED  BY <1>2, <2>1, <2>2 DEF StreamsFollow
<1> QED  BY <1>1, <1>2 DEF ReadyHasFile

(* A worker after a step counts what it counted, or what has a file.       *)
CountsFollow ==
  \A d \in Workers :
    \/ SameWorker(d)
    \/ worker'[d].at = "idle"
    \/ /\ worker'[d].item \in Items
       /\ \A k \in 1..N : (worker'[d].at = "image" \/ k < worker'[d].next) =>
            Listed(k, worker'[d].todo) \/ exist(<<KeyOf[worker'[d].item], k>>)

(* Then what the coroutines have counted is on disk after the step.        *)
LEMMA CountedAfter ==
  ASSUME TypeInv, CountedHaveFiles, FilesStay, CountsFollow
  PROVE  CountedHaveFiles'
<1> SUFFICES ASSUME NEW d \in Workers, worker'[d].at # "idle", NEW k \in 1..N,
                    worker'[d].at = "image" \/ k < worker'[d].next,
                    ~Listed(k, worker'[d].todo)
             PROVE  file'[<<KeyOf[worker'[d].item], k>>] # "absent"
  BY DEF CountedHaveFiles, Live, PictureOf, exist, Listed
<1> DEFINE q == <<KeyOf[worker'[d].item], k>>
<1>1. q \in Pictures /\ file[q] # "absent"
  <2>1. CASE SameWorker(d)
    <3>1. Live(d) /\ exist(PictureOf(d, k))
      BY <2>1 DEF SameWorker, CountedHaveFiles, Live
    <3> QED  BY <2>1, <3>1, PictureOfType DEF SameWorker, PictureOf, exist
  <2>2. CASE /\ worker'[d].item \in Items
             /\ \A j \in 1..N : (worker'[d].at = "image" \/ j < worker'[d].next) =>
                  Listed(j, worker'[d].todo) \/ exist(<<KeyOf[worker'[d].item], j>>)
    BY <2>2, PicturesAssumption, KeyOfAssumption DEF exist
  <2> QED  BY <2>1, <2>2 DEF CountsFollow
<1> QED  BY <1>1 DEF FilesStay, exist

(* What a step has to be shown to keep.                                    *)
LEMMA FilesAfter ==
  ASSUME TypeInv, FilesInv, FilesStay, clearing' = {}, LoadsFollow, StreamsFollow,
         CountsFollow, ItemsFollow, KeysDistinct'
  PROVE  FilesInv'
  BY LoadsAfter, ReadyAfter, CountedAfter, ItemsAfter DEF FilesInv

(* A step that changes neither the cache nor the items, rows and queue.    *)
LEMMA SameItems ==
  ASSUME UNCHANGED <<queue, loaded, state, saved>>, TypeInv, FilesInv
  PROVE  ItemsFollow /\ KeysDistinct'
  BY DEF ItemsFollow, FilesInv, KeysDistinct, TypeInv, TypeOK

(* A step that leaves entries, loads and streams alone.                    *)
LEMMA SameCache ==
  ASSUME UNCHANGED <<entry, loader, src>>,
         \A d \in Workers : src[d] = "ready" => SameWorker(d)
  PROVE  LoadsFollow /\ StreamsFollow
  BY DEF LoadsFollow, StreamsFollow
-----------------------------------------------------------------------------
(* The steps.                                                              *)

(* A worker that listens to a picture makes nothing ready.                 *)
LEMMA SubscribeFiles ==
  ASSUME TypeInv, FilesInv, NEW d \in Workers, NEW l \in Loaders, Live(d),
         NEW todo \in Seq(1..N), todo # <<>>, Subscribe(d, todo, l), file' = file,
         worker'[d].at = "image", worker'[d].item = worker[d].item, worker'[d].todo = todo,
         \A e \in Workers : e # d => worker'[e] = worker[e]
  PROVE  LoadsFollow /\ StreamsFollow
<1> DEFINE p == PictureOf(d, Head(todo))
<1>1. Head(todo) \in 1..N
  BY HeadTailProperties
<1>2. p \in Pictures
  BY <1>1, PictureOfType
<1>3. /\ entry \in [Pictures -> Loaders \cup Outcomes \cup {"none"}]
      /\ src \in [Workers -> Loaders \cup Outcomes \cup {"none"}]
  BY DEF TypeInv, TypeOK, CacheTypeOK
<1>4. /\ LoadsFollow
      /\ \A q \in Pictures : entry'[q] = "ready" => entry[q] = "ready"
      /\ Stream(p, l) = "ready" => entry[p] = "ready"
  BY <1>2, ResolveFiles DEF Subscribe
<1>5. ASSUME NEW e \in Workers, src'[e] = "ready"
      PROVE  \/ src[e] = "ready" /\ SameWorker(e)
             \/ worker'[e].at = "image" /\ exist(PictureOf(e, Head(worker[e].todo)))'
  <2>1. src' = [src EXCEPT ![d] = Stream(p, l)]
    BY DEF Subscribe
  <2>2. CASE e = d
    <3>1. exist(p)
      BY <1>2, <1>3, <1>4, <1>5, <2>1, <2>2 DEF FilesInv, ReadyHasFile
    <3>2. PictureOf(e, Head(worker[e].todo))' = p
      BY <2>2 DEF PictureOf
    <3> QED  BY <2>2, <3>1, <3>2 DEF exist
  <2>3. CASE e # d
    BY <1>3, <1>5, <2>1, <2>3 DEF SameWorker
  <2> QED  BY <2>2, <2>3
<1> QED  BY <1>4, <1>5 DEF StreamsFollow

(* The handler of a failed stream makes nothing ready.                     *)
LEMMA ImageFailedFiles ==
  ASSUME TypeInv, FilesInv, NEW d \in Workers, NEW l \in Loaders, ImageFailed(d, l)
  PROVE  LoadsFollow /\ StreamsFollow
<1> DEFINE p == PictureOf(d, Head(worker[d].todo))
<1>1. /\ entry \in [Pictures -> Loaders \cup Outcomes \cup {"none"}]
      /\ src \in [Workers -> Loaders \cup Outcomes \cup {"none"}]
      /\ loader \in [Loaders -> [at : Phases, pic : Pictures \cup {None}]]
      /\ l # "ready"
  BY LoadersAssumption DEF TypeInv, TypeOK, CacheTypeOK
<1>2. p \in Pictures
  BY WaitingPicture DEF ImageFailed
<1>3. LoadsFollow
  BY <1>1, <1>2 DEF ImageFailed, Launch, LoadsFollow
<1>4. StreamsFollow
  BY <1>1, <1>2 DEF ImageFailed, StreamsFollow, SameWorker
<1> QED  BY <1>3, <1>4

(* A row that is written is complete where the items are.                  *)
LEMMA RowFollows ==
  ASSUME NEW q, q \subseteq Items, NEW ld, NEW st, saved' = RowOf(q, ld, st),
         \A j \in Items : st[j] = state'[j]
  PROVE  \A j \in DOMAIN saved' : saved'[j].complete => j \in Items /\ state'[j] = "Complete"
<1> SUFFICES ASSUME NEW j \in q, RowOf(q, ld, st)[j].complete
             PROVE  j \in Items /\ state'[j] = "Complete"
  BY DEF RowOf
<1>1. RowOf(q, ld, st)[j].complete = (st[j] = "Complete")
  BY DEF RowOf
<1> QED  BY <1>1

(* A worker that goes on with n pictures counted, which all have files.    *)
LEMMA ProceedFiles ==
  ASSUME TypeInv, FilesInv, NEW d \in Workers, NEW l \in Loaders, Live(d),
         NEW n \in Count, NEW todo \in Seq(1..N), n + Len(todo) = N,
         \A k \in 1..N : Listed(k, todo) \/ exist(PictureOf(d, k)),
         Proceed(d, n, todo, l), UNCHANGED <<file, queue, clearing>>
  PROVE  FilesInv'
<1> DEFINE i == worker[d].item
           c == KeyOf[i]
<1>1. /\ TypeOK /\ i \in Items /\ c \in Chapters /\ n \in Nat
      /\ src \in [Workers -> Loaders \cup Outcomes \cup {"none"}]
  BY NAssumption, KeyOfAssumption DEF TypeInv, TypeOK, WorkersHaveItems, Count
<1>2. n <= Cardinality(Files(c)) /\ (todo = <<>> => Files(c) = 1..N)
  BY <1>1, CountIsBacked DEF PictureOf
<1>3. FilesStay /\ clearing' = {} /\ KeysDistinct'
  BY DEF FilesStay, FilesInv, KeysDistinct, exist
<1>4. \A j \in Items : /\ loaded'[j] = loaded[j] \/ (j = i /\ loaded'[j] = n)
                       /\ state'[j] = "Complete" => state[j] = "Complete" \/ (j = i /\ todo = <<>>)
  BY <1>1 DEF Proceed, Exit, TypeOK
<1>5. \A j \in DOMAIN saved' : saved'[j].complete =>
        \/ j \in DOMAIN saved /\ saved[j].complete
        \/ j \in Items /\ state'[j] = "Complete"
  <2>1. CASE saved' = saved
    BY <2>1
  <2>2. CASE saved' = RowOf(queue, loaded', state')
    BY <1>1, <2>2, RowFollows DEF TypeOK
  <2> QED  BY <2>1, <2>2 DEF Proceed, ItemUpdate
<1>6. ItemsFollow
  BY <1>1, <1>2, <1>4, <1>5 DEF ItemsFollow
<1>7. CASE worker[d].canceled \/ todo = <<>>
  <2>1. /\ UNCHANGED <<entry, loader>> /\ src' = [src EXCEPT ![d] = "none"]
        /\ worker' = [worker EXCEPT ![d] = IdleWorker]
    BY <1>7 DEF Proceed, Exit
  <2>2. worker'[d].at = "idle" /\ \A e \in Workers : e # d => worker'[e] = worker[e]
    BY <1>1, <2>1 DEF TypeOK, IdleWorker
  <2>3. LoadsFollow /\ StreamsFollow /\ CountsFollow
    BY <1>1, <2>1, <2>2 DEF LoadsFollow, StreamsFollow, CountsFollow, SameWorker
  <2> QED  BY <1>3, <1>6, <2>3, FilesAfter
<1>8. CASE ~worker[d].canceled /\ todo # <<>>
  <2>1. Subscribe(d, todo, l)
    BY <1>8 DEF Proceed
  <2>2. \A e \in Workers : e # d => worker'[e] = worker[e]
    BY <1>1, <1>8 DEF Proceed, TypeOK
  <2>3. worker'[d] = [worker[d] EXCEPT !.at = "image", !.todo = todo, !.loaded = n]
    BY <1>1, <1>8 DEF Proceed, TypeOK
  <2>4. worker'[d].at = "image" /\ worker'[d].item = i /\ worker'[d].todo = todo
    BY <1>1, <2>3 DEF TypeOK, WorkerRecord
  <2>5. LoadsFollow /\ StreamsFollow
    BY <1>8, <2>1, <2>2, <2>4, SubscribeFiles
  <2>6. CountsFollow
    BY <1>1, <2>2, <2>4 DEF CountsFollow, SameWorker, PictureOf
  <2> QED  BY <1>3, <1>6, <2>5, <2>6, FilesAfter
<1> QED  BY <1>7, <1>8

(* After one more picture, what the scan does not list has a file.         *)
LEMMA ScannedFiles ==
  ASSUME TypeInv, CountedHaveFiles, NEW d \in Workers, worker[d].at = "scan",
         NEW k \in 1..N, k <= worker[d].next
  PROVE  Listed(k, ScannedTodo(d)) \/ exist(PictureOf(d, k))
<1> DEFINE w == worker[d]
<1>1. w.todo \in Seq(1..N) /\ w.next \in 1..N /\ N \in Nat
  BY NAssumption DEF TypeInv, TypeOK, WorkerRecord
<1>2. CASE k = w.next
  <2>1. CASE exist(PictureOf(d, w.next))
    BY <1>2, <2>1
  <2>2. CASE ~exist(PictureOf(d, w.next))
    <3>1. ScannedTodo(d) = Append(w.todo, w.next)
      BY <2>2 DEF ScannedTodo
    <3>2. /\ Len(Append(w.todo, w.next)) = Len(w.todo) + 1
          /\ Append(w.todo, w.next)[Len(w.todo) + 1] = w.next
          /\ Len(w.todo) \in Nat
      BY <1>1, AppendProperties, LenProperties
    <3> QED  BY <1>2, <3>1, <3>2 DEF Listed
  <2> QED  BY <2>1, <2>2
<1>3. CASE k # w.next
  <2>1. Listed(k, w.todo) \/ exist(PictureOf(d, k))
    BY <1>1, <1>3 DEF CountedHaveFiles, Live
  <2>2. ASSUME NEW j \in 1..Len(w.todo), w.todo[j] = k PROVE Listed(k, ScannedTodo(d))
    <3>1. CASE ScannedTodo(d) = w.todo
      BY <2>2, <3>1 DEF Listed
    <3>2. CASE ScannedTodo(d) = Append(w.todo, w.next)
      <4>1. /\ Len(Append(w.todo, w.next)) = Len(w.todo) + 1
            /\ Append(w.todo, w.next)[j] = w.todo[j]
            /\ Len(w.todo) \in Nat
        BY <1>1, AppendProperties, LenProperties
      <4> QED  BY <2>2, <3>2, <4>1 DEF Listed
    <3> QED  BY <3>1, <3>2 DEF ScannedTodo
  <2> QED  BY <2>1, <2>2 DEF Listed
<1> QED  BY <1>2, <1>3

(* Once the picture a worker waited for is ready, what is left covers the  *)
(* pictures without a file.                                                *)
LEMMA ArrivedFiles ==
  ASSUME TypeInv, FilesInv, NEW d \in Workers, worker[d].at = "image", src[d] = "ready",
         NEW k \in 1..N
  PROVE  Listed(k, Tail(worker[d].todo)) \/ exist(PictureOf(d, k))
<1> DEFINE t == worker[d].todo
<1>1. t \in Seq(1..N) /\ t # <<>>
  BY ArrivedType
<1>2. /\ Len(t) \in Nat \ {0} /\ Head(t) = t[1]
      /\ Len(Tail(t)) = Len(t) - 1
      /\ \A j \in 1..(Len(t) - 1) : Tail(t)[j] = t[j + 1]
  BY <1>1, HeadTailProperties, LenProperties, EmptySeq
<1>3. exist(PictureOf(d, Head(t)))
  BY DEF FilesInv, ReadyHasFile
<1>4. Listed(k, t) \/ exist(PictureOf(d, k))
  BY DEF FilesInv, CountedHaveFiles, Live
<1>5. ASSUME NEW j \in 1..Len(t), t[j] = k
      PROVE  Listed(k, Tail(t)) \/ exist(PictureOf(d, k))
  <2>1. CASE j = 1
    BY <1>2, <1>3, <1>5, <2>1
  <2>2. CASE j # 1
    <3>1. j - 1 \in 1..(Len(t) - 1) /\ (j - 1) + 1 = j
      BY <1>2, <2>2
    <3>2. Tail(t)[j - 1] = t[j]
      BY <1>2, <3>1
    <3> QED  BY <1>2, <1>5, <3>1, <3>2 DEF Listed
  <2> QED  BY <2>1, <2>2
<1> QED  BY <1>4, <1>5 DEF Listed

(* The end of a load: whoever is told that a picture is ready finds it.    *)
LEMMA PictureEndsFiles ==
  ASSUME TypeInv, StreamInv, FilesInv, NEW l \in Loaders, NEW o \in Outcomes, PictureEnds(l, o)
  PROVE  FilesInv'
<1> DEFINE q == loader[l].pic
<1>1. /\ FinishLoad(l, o) /\ loader' = [loader EXCEPT ![l] = IdleLoader]
      /\ src' = Notify(src, l, o) /\ o \in Outcomes
      /\ UNCHANGED <<queue, state, loaded, saved, worker, clearing>>
  BY DEF PictureEnds, EndLoad, FinishLoad
<1>2. /\ entry \in [Pictures -> Loaders \cup Outcomes \cup {"none"}]
      /\ src \in [Workers -> Loaders \cup Outcomes \cup {"none"}]
      /\ loader \in [Loaders -> [at : Phases, pic : Pictures \cup {None}]]
  BY DEF TypeInv, TypeOK, CacheTypeOK
<1>3. FilesStay /\ q \in Pictures /\ (o = "ready" => file'[q] # "absent")
  <2>1. LoadsHaveFiles
    BY DEF FilesInv
  <2>2. \A p : p = q => FilesStay /\ p \in Pictures /\ (o = "ready" => exist(p)')
    BY <1>1, <2>1, FinishKeepsFiles
  <2> QED  BY <2>2 DEF exist
<1>4. LoadsFollow
  BY <1>1, <1>2 DEF LoadsFollow, IdleLoader
<1>5. \A p \in Pictures : entry'[p] = "ready" => entry[p] = "ready" \/ file'[p] # "absent"
  BY <1>2, <1>3 DEF PictureEnds, EndLoad, Settle
<1>6. ASSUME NEW d \in Workers, src'[d] = "ready"
      PROVE  \/ src[d] = "ready" /\ SameWorker(d)
             \/ worker'[d].at = "image" /\ exist(PictureOf(d, Head(worker[d].todo)))'
  <2>1. SameWorker(d) /\ PictureOf(d, Head(worker[d].todo))' = PictureOf(d, Head(worker[d].todo))
    BY <1>1 DEF SameWorker, PictureOf
  <2>2. CASE src[d] = l
    <3>1. worker[d].at = "image" /\ PictureOf(d, Head(worker[d].todo)) = q /\ o = "ready"
      BY <1>1, <1>2, <1>6, <2>2 DEF StreamInv, CoroutinesAreServed, LoadsPicture, Notify
    <3> QED  BY <1>1, <1>3, <2>1, <3>1 DEF exist
  <2>3. CASE src[d] # l
    BY <1>1, <1>2, <1>6, <2>1, <2>3 DEF Notify
  <2> QED  BY <2>2, <2>3
<1>7. StreamsFollow
  BY <1>5, <1>6 DEF StreamsFollow
<1>8. CountsFollow /\ clearing' = {}
  BY <1>1 DEF CountsFollow, SameWorker, FilesInv
<1> QED  BY <1>1, <1>3, <1>4, <1>7, <1>8, SameItems, FilesAfter

(* The steps of the cache alone.                                           *)
LEMMA CacheStepFiles ==
  ASSUME TypeInv, FilesInv, FilesStay, CacheStep, UNCHANGED downloadVars
  PROVE  FilesInv'
<1> DEFINE Follows ==
             LoadsFollow /\ \A p \in Pictures : entry'[p] = "ready" => entry[p] = "ready"
<1>1. /\ entry \in [Pictures -> Loaders \cup Outcomes \cup {"none"}]
      /\ loader \in [Loaders -> [at : Phases, pic : Pictures \cup {None}]]
      /\ file \in [Pictures -> FileStates]
  BY DEF TypeInv, TypeOK, CacheTypeOK
<1>2. /\ UNCHANGED <<queue, state, loaded, saved, worker, src, clearing>>
      /\ CountsFollow /\ clearing' = {} /\ \A d \in Workers : SameWorker(d)
  BY DEF downloadVars, CountsFollow, SameWorker, FilesInv
<1>3. Follows
  <2>1. ASSUME NEW l \in Loaders, CheckFile(l) PROVE Follows
    <3>1. loader[l].at = "check" /\ loader[l].pic \in Pictures
      BY <2>1 DEF CheckFile, FilesInv, LoadsHaveFiles
    <3> QED  BY <1>1, <2>1, <3>1 DEF CheckFile, LoadsFollow
  <2>2. ASSUME NEW l \in Loaders, BeginWrite(l) PROVE Follows
    <3>1. loader[l].at = "request" /\ loader[l].pic \in Pictures
      BY <2>2 DEF BeginWrite, FilesInv, LoadsHaveFiles
    <3> QED  BY <1>1, <2>2, <3>1 DEF BeginWrite, LoadsFollow
  <2>3. ASSUME NEW p \in Viewed, NEW l \in Loaders, ViewOpen(p, l) PROVE Follows
    BY <2>3, ViewedAssumption, ResolveFiles DEF ViewOpen
  <2>4. ASSUME NEW p \in Viewed, NEW l \in Loaders, ViewReload(p, l) PROVE Follows
    BY <1>1, <2>4, ViewedAssumption, LoadersAssumption DEF ViewReload, Launch, LoadsFollow
  <2>5. ASSUME NEW p \in Pictures, ViewClose(p) \/ MemoryEvict(p) PROVE Follows
    BY <1>1, <2>5 DEF ViewClose, MemoryEvict, LoadsFollow
  <2> QED  BY <2>1, <2>2, <2>3, <2>4, <2>5, ViewedAssumption DEF CacheStep
<1>4. StreamsFollow
  BY <1>2, <1>3 DEF StreamsFollow
<1> QED  BY <1>2, <1>3, <1>4, SameItems, FilesAfter

(* The process ends: items come back from rows, and no chapter twice.      *)
LEMMA RestartFiles ==
  ASSUME TypeInv, SavedIsCurrent, FilesInv, FilesStay, Restart
  PROVE  FilesInv'
<1>1. TypeOK /\ DOMAIN saved \subseteq queue /\ queue \subseteq Items /\ saved' = saved
  BY DEF TypeInv, TypeOK, SavedIsCurrent, Restart
<1>2. LoadsFollow /\ StreamsFollow /\ CountsFollow /\ clearing' = {}
  BY DEF Restart, CacheCrash, LoadsFollow, StreamsFollow, CountsFollow, IdleLoader, IdleWorker
<1>3. ItemsFollow
  <2>1. \A i \in Items : loaded'[i] = loaded[i] \/ loaded'[i] = 0
    BY <1>1 DEF Restart, SavedIsCurrent
  <2>2. \A i \in Items : state'[i] = "Complete" => i \in DOMAIN saved /\ saved[i].complete
    BY DEF Restart
  <2>3. \A i \in DOMAIN saved' : saved'[i].complete => i \in DOMAIN saved /\ saved[i].complete
    BY <1>1
  <2> QED  BY <2>1, <2>2, <2>3 DEF ItemsFollow
<1>4. KeysDistinct'
  <2>1. queue' = DOMAIN saved \cup {i \in Legacy : KeyOf[i] \notin Keys(DOMAIN saved)}
    BY DEF Restart, Constructed
  <2>2. \A i, j \in DOMAIN saved : KeyOf[i] = KeyOf[j] => i = j
    BY <1>1 DEF FilesInv, KeysDistinct
  <2>3. \A i \in DOMAIN saved : KeyOf[i] \in Keys(DOMAIN saved)
    BY DEF Keys
  <2> QED  BY <2>1, <2>2, <2>3, LegacyAssumption DEF KeysDistinct
<1> QED  BY <1>2, <1>3, <1>4, FilesAfter

(* Every step keeps what is shown on disk.                                 *)
LEMMA NextFiles ==
  ASSUME "clear" \notin Faults, AllInv, [Next]_vars
  PROVE  FilesInv'
<1>1. /\ TypeInv /\ TypeOK /\ StreamInv /\ SavedIsCurrent
      /\ FilesInv /\ LoadsHaveFiles /\ clearing = {}
  BY DEF AllInv, FilesInv, TypeInv
<1>2. FilesStay /\ clearing' = {}
  BY <1>1, NextKeepsFiles
<1>3. \A d \in Workers : src[d] = "ready" => worker[d].at = "image"
  BY <1>1 DEF FilesInv, ReadyHasFile
<1>4. ASSUME NEW i \in Items, Stop(i) \/ Remove(i) PROVE FilesInv'
  <2>1. StopItem(i) /\ UNCHANGED <<entry, loader, src, loaded>> /\ queue' \subseteq queue
    BY <1>4 DEF Stop, Remove, cacheVars
  <2>2. \A d \in Workers : SameWorker(d)
    BY <1>1, <2>1, StopItemWorkers DEF SameWorker
  <2>3. \A j \in Items : state'[j] = "Complete" => state[j] = "Complete"
    BY <1>1, <2>1, StopItemCompletesNone
  <2>4. \A j \in DOMAIN saved' : saved'[j].complete =>
          \/ j \in DOMAIN saved /\ saved[j].complete
          \/ j \in Items /\ state'[j] = "Complete"
    <3>1. CASE saved' = saved
      BY <3>1
    <3>2. CASE saved' = RowOf(queue', loaded, state')
      BY <1>1, <2>1, <3>2, RowFollows DEF TypeOK
    <3> QED  BY <1>4, <3>1, <3>2 DEF Stop, Remove
  <2>5. ItemsFollow /\ KeysDistinct' /\ CountsFollow
    BY <1>1, <2>1, <2>2, <2>3, <2>4 DEF ItemsFollow, CountsFollow, FilesInv, KeysDistinct
  <2> QED  BY <1>1, <1>2, <2>1, <2>2, <2>5, SameCache, FilesAfter
<1>5. ASSUME NEW i \in Items, NEW d \in Workers, Start(i, d) \/ AddDownload(i, d)
      PROVE  FilesInv'
  <2>1. /\ Begin(i, d) /\ UNCHANGED <<entry, loader, src>> /\ worker[d].at = "idle"
        /\ \/ queue' = queue
           \/ queue' = queue \cup {i} /\ KeyOf[i] \notin Keys(queue)
    BY <1>5 DEF Start, AddDownload, Begin, cacheVars
  <2>2. \A e \in Workers : e # d => SameWorker(e)
    <3>1. \A e \in Workers : e # d => worker'[e] = worker[e]
      BY <1>1, <2>1 DEF Begin, Launched, TypeOK
    <3> QED  BY <3>1 DEF SameWorker
  <2>3. worker'[d].item \in Items /\ worker'[d].at # "image" /\ worker'[d].next = 1
    BY <1>1, <2>1 DEF Begin, Launched, IdleWorker, TypeOK
  <2>4. CountsFollow
    BY <2>2, <2>3 DEF CountsFollow
  <2>5. LoadsFollow /\ StreamsFollow
    BY <1>3, <2>1, <2>2, SameCache
  <2>6. \A j \in Items : state'[j] = "Complete" => state[j] = "Complete"
    BY <1>1, <2>1 DEF Begin, TypeOK
  <2>7. \A j \in DOMAIN saved' : saved'[j].complete =>
          \/ j \in DOMAIN saved /\ saved[j].complete
          \/ j \in Items /\ state'[j] = "Complete"
    <3>1. CASE saved' = saved
      BY <3>1
    <3>2. CASE saved' = RowOf(queue', loaded', state')
      BY <1>1, <2>1, <3>2, RowFollows DEF TypeOK
    <3> QED  BY <1>5, <3>1, <3>2 DEF Start, AddDownload
  <2>8. \A j \in Items : loaded'[j] = loaded[j] \/ loaded'[j] = 0
    BY <1>1, <1>5 DEF Start, AddDownload, TypeOK
  <2>9. ItemsFollow
    BY <2>6, <2>7, <2>8 DEF ItemsFollow
  <2>10. KeysDistinct'
    <3>1. \A j \in queue : KeyOf[j] \in Keys(queue)
      BY DEF Keys
    <3> QED  BY <1>1, <2>1, <3>1 DEF FilesInv, KeysDistinct
  <2> QED  BY <1>1, <1>2, <2>4, <2>5, <2>9, <2>10, FilesAfter
<1>6. ASSUME NEW d \in Workers, ListLoaded(d) PROVE FilesInv'
  <2>1. worker[d].at = "load" /\ worker' = [worker EXCEPT ![d].at = "scan"]
        /\ UNCHANGED <<entry, loader, src, queue, loaded, state, saved>>
    BY <1>6 DEF ListLoaded, cacheVars
  <2>2. worker[d].next = 1 /\ worker[d].item \in Items
    BY <1>1, <2>1 DEF TypeInv, CountsEachOnce, WorkersHaveItems, Live
  <2>3. \A e \in Workers : e # d => SameWorker(e)
    BY <1>1, <2>1 DEF TypeOK, SameWorker
  <2>4. worker'[d].at = "scan" /\ worker'[d].next = 1 /\ worker'[d].item \in Items
    BY <1>1, <2>1, <2>2 DEF TypeOK, WorkerRecord
  <2>5. CountsFollow
    BY <2>3, <2>4 DEF CountsFollow
  <2> QED  BY <1>1, <1>2, <1>3, <2>1, <2>3, <2>5, SameCache, SameItems, FilesAfter
<1>7. ASSUME NEW d \in Workers, ListFails(d) PROVE FilesInv'
  <2>1. worker[d].at # "image" /\ worker' = [worker EXCEPT ![d] = IdleWorker]
        /\ UNCHANGED <<entry, loader, src, queue, loaded, saved>>
    BY <1>7 DEF ListFails, Exit, cacheVars
  <2>2. \A e \in Workers : e # d => SameWorker(e)
    BY <1>1, <2>1 DEF TypeOK, SameWorker
  <2>3. worker'[d].at = "idle"
    BY <1>1, <2>1 DEF TypeOK, IdleWorker
  <2>4. \A j \in Items : state'[j] = "Complete" => state[j] = "Complete"
    BY <1>1, <1>7 DEF ListFails, Exit, TypeOK
  <2>5. CountsFollow /\ ItemsFollow /\ KeysDistinct'
    BY <1>1, <2>1, <2>2, <2>3, <2>4 DEF CountsFollow, ItemsFollow, FilesInv, KeysDistinct
  <2> QED  BY <1>1, <1>2, <1>3, <2>1, <2>2, <2>5, SameCache, FilesAfter
<1>8. ASSUME NEW d \in Workers, Scan(d) PROVE FilesInv'
  <2>1. /\ worker[d].at = "scan" /\ worker[d].next < N
        /\ worker' = [worker EXCEPT ![d] =
                        [worker[d] EXCEPT !.next = @ + 1,
                                          !.loaded = ScannedCount(d),
                                          !.todo = ScannedTodo(d)]]
        /\ UNCHANGED <<entry, loader, src, queue, loaded, state, saved>>
    BY <1>8 DEF Scan, cacheVars
  <2>2. \A e \in Workers : e # d => SameWorker(e)
    BY <1>1, <2>1 DEF TypeOK, SameWorker
  <2>3. /\ worker'[d].at = "scan" /\ worker'[d].item = worker[d].item
        /\ worker'[d].next = worker[d].next + 1 /\ worker'[d].todo = ScannedTodo(d)
    BY <1>1, <2>1 DEF TypeOK, WorkerRecord
  <2>4. worker[d].item \in Items /\ worker[d].next \in 1..N /\ N \in Nat
    BY <1>1, <2>1, NAssumption DEF TypeInv, TypeOK, WorkersHaveItems, Live, WorkerRecord
  <2>5. \A k \in 1..N : k < worker[d].next + 1 =>
          Listed(k, ScannedTodo(d)) \/ exist(<<KeyOf[worker[d].item], k>>)
    <3> SUFFICES ASSUME NEW k \in 1..N, k < worker[d].next + 1
                 PROVE  Listed(k, ScannedTodo(d)) \/ exist(<<KeyOf[worker[d].item], k>>)
      OBVIOUS
    <3>1. k <= worker[d].next
      BY <2>4
    <3> QED  BY <1>1, <2>1, <3>1, ScannedFiles DEF FilesInv, PictureOf
  <2>6. CountsFollow
    BY <2>2, <2>3, <2>4, <2>5 DEF CountsFollow
  <2> QED  BY <1>1, <1>2, <1>3, <2>1, <2>2, <2>6, SameCache, SameItems, FilesAfter
<1>9. ASSUME NEW d \in Workers, NEW l \in Loaders, ScanEnds(d, l) PROVE FilesInv'
  <2>1. worker[d].at = "scan" /\ worker[d].next = N /\ Live(d)
    BY <1>9 DEF ScanEnds, Live
  <2>2. \A k \in 1..N : Listed(k, ScannedTodo(d)) \/ exist(PictureOf(d, k))
    <3>1. \A k \in 1..N : k <= worker[d].next
      BY <2>1, NAssumption
    <3> QED  BY <1>1, <2>1, <3>1, ScannedFiles DEF FilesInv
  <2> QED  BY <1>1, <1>9, <2>1, <2>2, ScannedType, ProceedFiles DEF ScanEnds
<1>10. ASSUME NEW d \in Workers, NEW l \in Loaders, ImageLoaded(d, l) PROVE FilesInv'
  <2>1. worker[d].at = "image" /\ src[d] = "ready" /\ Live(d)
    BY <1>10 DEF ImageLoaded, Live
  <2>2. \A k \in 1..N : Listed(k, Tail(worker[d].todo)) \/ exist(PictureOf(d, k))
    BY <1>1, <2>1, ArrivedFiles
  <2> QED  BY <1>1, <1>10, <2>1, <2>2, ArrivedType, ProceedFiles DEF ImageLoaded
<1>11. ASSUME NEW d \in Workers, NEW l \in Loaders, ImageFailed(d, l) PROVE FilesInv'
  <2>1. /\ worker[d].at = "image" /\ worker' = worker /\ file' = file
        /\ UNCHANGED <<queue, loaded, state, saved>>
    BY <1>11 DEF ImageFailed
  <2>2. LoadsFollow /\ StreamsFollow
    BY <1>1, <1>11, ImageFailedFiles
  <2>3. CountsFollow
    BY <2>1 DEF CountsFollow, SameWorker
  <2> QED  BY <1>1, <1>2, <2>1, <2>2, <2>3, SameItems, FilesAfter
<1>12. ASSUME NEW l \in Loaders, NEW o \in Outcomes, PictureEnds(l, o) PROVE FilesInv'
  BY <1>1, <1>12, PictureEndsFiles
<1>13. CASE CacheStep /\ UNCHANGED downloadVars
  BY <1>1, <1>2, <1>13, CacheStepFiles
<1>14. CASE Restart
  BY <1>1, <1>2, <1>14, RestartFiles
<1>15. CASE \/ \E c \in Chapters : ReaderSaves(c)
            \/ UNCHANGED vars
  <2>1. UNCHANGED <<entry, loader, src, worker, queue, loaded, state, saved>>
    BY <1>15 DEF ReaderSaves, cacheVars, downloadVars, vars
  <2>2. CountsFollow /\ \A d \in Workers : SameWorker(d)
    BY <2>1 DEF CountsFollow, SameWorker
  <2> QED  BY <1>1, <1>2, <2>1, <2>2, SameCache, SameItems, FilesAfter
<1> QED  BY <1>1, <1>4, <1>5, <1>6, <1>7, <1>8, <1>9, <1>10, <1>11, <1>12, <1>13, <1>14, <1>15
         DEF Next, ClearCache, ClearDirectory

(* Nothing is on disk, counted or ready at first.                          *)
LEMMA InitFiles == Init => FilesInv
<1> SUFFICES ASSUME Init PROVE FilesInv
  OBVIOUS
<1>1. LoadsHaveFiles /\ ReadyHasFile /\ CountedHaveFiles /\ clearing = {}
  BY DEF Init, CacheInit, LoadsHaveFiles, ReadyHasFile, CountedHaveFiles, IdleLoader,
         IdleWorker, Live
<1>2. ASSUME NEW i \in Items PROVE loaded[i] <= Cardinality(Files(KeyOf[i]))
  <2>1. \A p \in Pictures : ~exist(p)
    BY DEF Init, CacheInit, exist
  <2>2. Files(KeyOf[i]) = {}
    BY <2>1, PicturesAssumption, KeyOfAssumption DEF Files
  <2> QED  BY <2>2, FS_EmptySet DEF Init
<1>3. ItemsHaveFiles
  BY <1>2 DEF Init, ItemsHaveFiles
<1>4. KeysDistinct
  BY LegacyAssumption DEF Init, KeysDistinct
<1> QED  BY <1>1, <1>3, <1>4 DEF FilesInv

(* What an item shows, in memory and in the row, is on disk while nobody   *)
(* clears the cache (_PictureDownloader.start, NeoImageProvider._loadAsync *)
(* and the constructor of DownloadManager).                                *)
THEOREM ShownIsOnDisk ==
  ASSUME "clear" \notin Faults PROVE Spec => []AllInv
<1>1. Init /\ TypeInv /\ StreamInv /\ SavedIsCurrent => AllInv
  BY InitFiles DEF AllInv
<1>2. AllInv /\ [Next]_vars /\ TypeInv' /\ StreamInv' /\ SavedIsCurrent' => AllInv'
  BY NextFiles DEF AllInv
<1> QED  BY <1>1, <1>2, TypeInvariant, StreamsInvariant, SavedRowIsCurrent, PTL DEF Spec

(* The pictures an item counts have files, and a complete item has all of  *)
(* them, across restarts and overlapping coroutines.                       *)
THEOREM ProgressCorrect == Spec => []ProgressIsOnDisk
<1>1. CASE "clear" \in Faults
  <2>1. ProgressIsOnDisk
    BY <1>1 DEF ProgressIsOnDisk
  <2> QED  BY <2>1, PTL
<1>2. CASE "clear" \notin Faults
  <2>1. AllInv => ProgressIsOnDisk
    BY DEF AllInv, FilesInv, ItemsHaveFiles, ProgressIsOnDisk, TypeInv, TypeOK
  <2> QED  BY <1>2, <2>1, ShownIsOnDisk, PTL
<1> QED  BY <1>1, <1>2

-----------------------------------------------------------------------------
(* The queue implements DownloadList.                                      *)

Kept == {p \in Pictures : exist(p)}

(* The promise's finishing rule, in terms of files.                        *)
LEMMA AllKept ==
  ASSUME NEW i \in Items, Files(KeyOf[i]) = 1..N
  PROVE  Promise!PicturesOf(i) \subseteq Kept
  BY PicturesAssumption, KeyOfAssumption DEF Promise!PicturesOf, Files, Kept

(* The initial states map to initial states.                               *)
LEMMA PromiseStarts == Init => Promise!ListInit
<1> SUFFICES ASSUME Init PROVE Promise!ListInit
  OBVIOUS
<1>1. {p \in Pictures : exist(p)} = {}
  BY DEF Init, CacheInit, exist
<1> QED  BY <1>1 DEF Init, Promise!ListInit

(* A step that changes neither what is listed and shown nor the files.     *)
LEMMA PromiseStutters ==
  ASSUME UNCHANGED <<queue, state>>, \A p \in Pictures : exist(p)' <=> exist(p)
  PROVE  [Promise!ListNext]_(Promise!listVars)
<1>1. Kept' = Kept
  BY DEF Kept
<1> QED  BY <1>1 DEF Promise!listVars, Kept

(* The end of a coroutine pauses its item, or finishes it with its files.  *)
LEMMA ExitKeepsPromise ==
  ASSUME TypeInv, NEW d \in Workers, Live(d), NEW final \in {"Paused", "Complete"}, Exit(d, final),
         final = "Complete" => Files(KeyOf[worker[d].item]) = 1..N,
         UNCHANGED <<file, queue>>
  PROVE  Promise!ListNext
<1> DEFINE i == worker[d].item
<1>1. i \in Items /\ state' = [state EXCEPT ![i] = final] /\ queue' = queue
  BY DEF TypeInv, WorkersHaveItems, Exit
<1>2. Kept' = Kept
  BY DEF Kept, exist
<1>3. CASE final = "Paused"
  <2>1. Promise!Pause(i)
    BY <1>1, <1>2, <1>3 DEF Promise!Pause, Promise!Becomes, Kept
  <2> QED  BY <1>1, <2>1 DEF Promise!ListNext
<1>4. CASE final = "Complete"
  <2>1. Promise!Finish(i)
    BY <1>1, <1>2, <1>4, AllKept DEF Promise!Finish, Promise!Becomes, Kept
  <2> QED  BY <1>1, <2>1 DEF Promise!ListNext
<1> QED  BY <1>3, <1>4

(* The end of a load creates and deletes no file.                          *)
LEMMA FinishFilesSame ==
  ASSUME TypeInv, LoadsHaveFiles, NEW l \in Loaders, NEW o \in Outcomes, FinishLoad(l, o)
  PROVE  \A p \in Pictures : exist(p)' <=> exist(p)
<1>1. FilesStay
  BY FinishKeepsFiles
<1>2. file' = file \/ \E s : loader[l].at = "write" /\ file' = [file EXCEPT ![loader[l].pic] = s]
  BY DEF FinishLoad, LoadEnds, ReadEnds, RequestFails, WriteEnds, WriteFails
<1>3. loader[l].at = "write" => exist(loader[l].pic)
  BY DEF LoadsHaveFiles
<1>4. ASSUME NEW p \in Pictures, exist(p)' PROVE exist(p)
  BY <1>2, <1>3, <1>4 DEF exist, TypeInv, TypeOK, CacheTypeOK
<1> QED  BY <1>1, <1>4 DEF FilesStay

(* So does every way a coroutine goes on.                                  *)
LEMMA ProceedKeepsPromise ==
  ASSUME TypeInv, NEW d \in Workers, NEW l \in Loaders, Live(d),
         NEW n \in Count, NEW todo \in Seq(1..N), n + Len(todo) = N,
         \A k \in 1..N : Listed(k, todo) \/ exist(PictureOf(d, k)),
         Proceed(d, n, todo, l), UNCHANGED <<file, queue>>
  PROVE  [Promise!ListNext]_(Promise!listVars)
<1>1. KeyOf[worker[d].item] \in Chapters
  BY KeyOfAssumption DEF TypeInv, WorkersHaveItems
<1>2. todo = <<>> => Files(KeyOf[worker[d].item]) = 1..N
  BY <1>1, CountIsBacked DEF PictureOf
<1>3. CASE worker[d].canceled
  <2>1. Exit(d, "Paused")
    BY <1>3 DEF Proceed
  <2> QED  BY <2>1, ExitKeepsPromise
<1>4. CASE ~worker[d].canceled /\ todo = <<>>
  BY <1>2, <1>4, ExitKeepsPromise DEF Proceed
<1>5. CASE ~worker[d].canceled /\ todo # <<>>
  BY <1>5, PromiseStutters DEF Proceed, exist
<1> QED  BY <1>3, <1>4, <1>5

(* The process ends and starts again: the rows lose nothing.               *)
LEMMA RestartKeepsPromise ==
  ASSUME TypeInv, SavedIsCurrent, FilesInv, Restart
  PROVE  Promise!ListNext
<1>1. TypeOK /\ DOMAIN saved \subseteq queue /\ queue \subseteq Items
  BY DEF TypeInv, TypeOK, SavedIsCurrent
<1>2. queue' = queue \cup {i \in Legacy : KeyOf[i] \notin Promise!ListedKeys}
  <2>1. queue' = DOMAIN saved \cup {i \in Legacy : KeyOf[i] \notin {KeyOf[j] : j \in DOMAIN saved}}
    BY DEF Restart, Constructed, Keys
  <2>2. Promise!ListedKeys = {KeyOf[j] : j \in queue}
    BY DEF Promise!ListedKeys
  <2>3. ASSUME NEW i \in queue, i \notin DOMAIN saved PROVE i \in queue'
    <3>1. i \in Legacy
      BY <2>3 DEF SavedIsCurrent
    <3>2. KeyOf[i] \notin {KeyOf[j] : j \in DOMAIN saved}
      BY <1>1, <2>3 DEF FilesInv, KeysDistinct
    <3> QED  BY <2>1, <3>1, <3>2
  <2>4. ASSUME NEW i \in Legacy, KeyOf[i] \notin {KeyOf[j] : j \in DOMAIN saved}, i \notin queue
        PROVE  KeyOf[i] \notin {KeyOf[j] : j \in queue}
    <3> SUFFICES ASSUME NEW j \in queue, KeyOf[j] = KeyOf[i] PROVE FALSE
      OBVIOUS
    <3>1. j \notin DOMAIN saved
      BY <2>4
    <3>2. j \in Legacy
      BY <3>1 DEF SavedIsCurrent
    <3> QED  BY <2>4, <3>2, LegacyAssumption
  <2> QED  BY <1>1, <2>1, <2>2, <2>3, <2>4
<1>3. state' \in [Items -> {"Paused", "Complete"}]
  BY DEF Restart
<1>4. ASSUME NEW i \in queue', state'[i] = "Complete"
      PROVE  Promise!PicturesOf(i) \subseteq Kept
  <2>1. i \in Items
    BY <1>1, <1>2, LegacyAssumption
  <2>2. i \in DOMAIN saved /\ saved[i].complete
    BY <1>4, <2>1 DEF Restart
  <2>3. Files(KeyOf[i]) = 1..N
    BY <2>2 DEF FilesInv, ItemsHaveFiles
  <2> QED  BY <2>1, <2>3, AllKept
<1>5. ASSUME NEW i \in queue, state[i] = "Complete" PROVE state'[i] = "Complete"
  <2>1. i \in Items /\ i \in DOMAIN saved /\ saved[i].complete
    BY <1>1, <1>5 DEF SavedIsCurrent
  <2> QED  BY <2>1 DEF Restart
<1>6. Kept' = Kept
  BY DEF Restart, CacheCrash, Kept, exist
<1>7. Promise!Reopen
  BY <1>2, <1>3, <1>4, <1>5, <1>6 DEF Promise!Reopen, Kept
<1> QED  BY <1>7 DEF Promise!ListNext

(* Every step is one the promise allows.                                   *)
LEMMA NextKeepsPromise ==
  ASSUME "clear" \notin Faults, AllInv, [Next]_vars
  PROVE  [Promise!ListNext]_(Promise!listVars)
<1>1. TypeInv /\ TypeOK /\ SavedIsCurrent /\ FilesInv /\ clearing = {}
  BY DEF AllInv, FilesInv, TypeInv
<1>2. ASSUME NEW i \in Items, Stop(i) PROVE Promise!ListNext
  <2>1. Promise!Pause(i)
    BY <1>2 DEF Stop, StopItem, cacheVars, exist, Promise!Pause, Promise!Becomes
  <2> QED  BY <2>1 DEF Promise!ListNext
<1>3. ASSUME NEW i \in Items, Remove(i) PROVE Promise!ListNext
  <2>1. state' = [state EXCEPT ![i] = IF @ = "Downloading" THEN "Paused" ELSE @]
    BY <1>1, <1>3 DEF Remove, StopItem, TypeOK
  <2>2. Promise!Drop(i)
    BY <1>3, <2>1 DEF Remove, cacheVars, exist, Promise!Drop
  <2> QED  BY <2>2 DEF Promise!ListNext
<1>4. ASSUME NEW i \in Items, NEW d \in Workers, Start(i, d) PROVE Promise!ListNext
  <2>1. Promise!Resume(i)
    BY <1>4 DEF Start, Begin, cacheVars, exist, Promise!Resume, Promise!Becomes
  <2> QED  BY <2>1 DEF Promise!ListNext
<1>5. ASSUME NEW i \in Items, NEW d \in Workers, AddDownload(i, d) PROVE Promise!ListNext
  <2>1. Promise!Request(i)
    BY <1>5 DEF AddDownload, Begin, Keys, cacheVars, exist,
                Promise!Request, Promise!Becomes, Promise!ListedKeys
  <2> QED  BY <2>1 DEF Promise!ListNext
<1>6. ASSUME NEW d \in Workers, ListFails(d) PROVE Promise!ListNext
  <2>1. Live(d) /\ Exit(d, "Paused") /\ UNCHANGED <<file, queue>>
    BY <1>6 DEF ListFails, Live, cacheVars
  <2> QED  BY <1>1, <2>1, ExitKeepsPromise
<1>7. ASSUME NEW d \in Workers, NEW l \in Loaders, ScanEnds(d, l)
      PROVE  [Promise!ListNext]_(Promise!listVars)
  <2>1. worker[d].at = "scan" /\ worker[d].next = N /\ Live(d)
    BY <1>7 DEF ScanEnds, Live
  <2>2. \A k \in 1..N : Listed(k, ScannedTodo(d)) \/ exist(PictureOf(d, k))
    <3>1. \A k \in 1..N : k <= worker[d].next
      BY <2>1, NAssumption
    <3> QED  BY <1>1, <2>1, <3>1, ScannedFiles DEF FilesInv
  <2> QED  BY <1>1, <1>7, <2>1, <2>2, ScannedType, ProceedKeepsPromise DEF ScanEnds
<1>8. ASSUME NEW d \in Workers, NEW l \in Loaders, ImageLoaded(d, l)
      PROVE  [Promise!ListNext]_(Promise!listVars)
  <2>1. worker[d].at = "image" /\ src[d] = "ready" /\ Live(d)
    BY <1>8 DEF ImageLoaded, Live
  <2>2. \A k \in 1..N : Listed(k, Tail(worker[d].todo)) \/ exist(PictureOf(d, k))
    BY <1>1, <2>1, ArrivedFiles
  <2> QED  BY <1>1, <1>8, <2>1, <2>2, ArrivedType, ProceedKeepsPromise DEF ImageLoaded
<1>9. ASSUME NEW l \in Loaders, NEW o \in Outcomes, PictureEnds(l, o)
      PROVE  [Promise!ListNext]_(Promise!listVars)
  <2>1. \A p \in Pictures : exist(p)' <=> exist(p)
    BY <1>1, <1>9, FinishFilesSame DEF PictureEnds, EndLoad, FilesInv
  <2> QED  BY <1>9, <2>1, PromiseStutters DEF PictureEnds
<1>10. ASSUME NEW l \in Loaders, BeginWrite(l), UNCHANGED downloadVars PROVE Promise!ListNext
  <2>1. loader[l].pic \in Pictures /\ file \in [Pictures -> FileStates]
    BY <1>1, <1>10 DEF BeginWrite, FilesInv, LoadsHaveFiles, TypeOK, CacheTypeOK
  <2>2. file' = [file EXCEPT ![loader[l].pic] = "partial"] /\ UNCHANGED <<queue, state>>
    BY <1>10 DEF BeginWrite, downloadVars
  <2>3. Kept' = Kept \cup {loader[l].pic}
    BY <2>1, <2>2 DEF Kept, exist
  <2>4. Promise!Keep(loader[l].pic)
    BY <2>2, <2>3 DEF Promise!Keep, Kept
  <2> QED  BY <2>1, <2>4, PicturesAssumption DEF Promise!ListNext
<1>11. CASE \/ \E d \in Workers : ListLoaded(d) \/ Scan(d)
            \/ \E d \in Workers, l \in Loaders : ImageFailed(d, l)
            \/ CacheStep /\ UNCHANGED downloadVars /\ ~\E l \in Loaders : BeginWrite(l)
            \/ \E c \in Chapters : ReaderSaves(c)
            \/ UNCHANGED vars
  <2>1. UNCHANGED <<queue, state, file>>
    BY <1>11 DEF ListLoaded, Scan, ImageFailed, CacheStep, CheckFile, ViewOpen, ViewReload,
                 ViewClose, MemoryEvict, ReaderSaves, cacheVars, downloadVars, vars
  <2> QED  BY <2>1, PromiseStutters DEF exist
<1>12. CASE Restart
  BY <1>1, <1>12, RestartKeepsPromise
<1> QED  BY <1>1, <1>2, <1>3, <1>4, <1>5, <1>6, <1>7, <1>8, <1>9, <1>10, <1>11, <1>12
         DEF Next, ClearCache, ClearDirectory

(* While nobody clears the cache the queue of coroutines, listeners, files *)
(* and rows implements the list of DownloadList: no item completes before  *)
(* its pictures are kept, and the end of the process loses no item and no  *)
(* completion (DownloadManager, DownloadQueueItem, _PictureDownloader).    *)
THEOREM QueueKeepsPromise ==
  ASSUME "clear" \notin Faults PROVE Spec => KeepsPromise
<1>1. AllInv /\ [Next]_vars => [Promise!ListNext]_(Promise!listVars)
  BY NextKeepsPromise
<1> QED  BY <1>1, PromiseStarts, ShownIsOnDisk, PTL DEF Spec, KeepsPromise, Promise!ListSpec
=============================================================================
