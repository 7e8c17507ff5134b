-------------------------- MODULE Downloads_proofs --------------------------
(***************************************************************************)
(* Theorems about Downloads, for every number of chapters, pictures, items,*)
(* coroutines and loads, and every choice of what may fail.                *)
(***************************************************************************)
EXTENDS Downloads, SequenceTheorems, TLAPS

(* A running worker has an item.                                           *)
WorkersHaveItems == \A d \in Workers : Live(d) => worker[d].item \in Items

(* Types, with what keeps the counts of a worker in their range.           *)
TypeInv == TypeOK /\ CountsEachOnce /\ WorkersHaveItems

-----------------------------------------------------------------------------
(* The cache's types.                                                      *)

(* Resolving a picture keeps the types of the entries and the loads.       *)
LEMMA ResolveType ==
  ASSUME CacheTypeOK, NEW p \in Pictures, NEW l \in Loaders, Resolve(p, l)
  PROVE  /\ entry' \in [Pictures -> Loaders \cup Outcomes \cup {"none"}]
         /\ loader' \in [Loaders -> [at : Phases, pic : Pictures \cup {None}]]
         /\ Stream(p, l) \in Loaders \cup Outcomes
  BY LoadersAssumption DEF CacheTypeOK, Resolve, Launch, Stream, Phases, Outcomes

(* The end of a load keeps the types of files, loads and widgets.          *)
LEMMA FinishType ==
  ASSUME CacheTypeOK, NEW l \in Loaders, NEW o \in Outcomes, FinishLoad(l, o)
  PROVE  /\ file' \in [Pictures -> FileStates]
         /\ loader' \in [Loaders -> [at : Phases, pic : Pictures \cup {None}]]
         /\ view' \in [Pictures -> Loaders \cup Outcomes \cup {"closed"}]
         /\ Settle(l, o) \in [Pictures -> Loaders \cup Outcomes \cup {"none"}]
<1>1. file' \in [Pictures -> FileStates]
  BY DEF CacheTypeOK, FinishLoad, LoadEnds, ReadEnds, RequestFails, WriteEnds, WriteFails,
         FileStates
<1>2. loader' \in [Loaders -> [at : Phases, pic : Pictures \cup {None}]]
  BY DEF CacheTypeOK, FinishLoad, IdleLoader, Phases
<1>3. view' \in [Pictures -> Loaders \cup Outcomes \cup {"closed"}]
  BY DEF CacheTypeOK, FinishLoad, Notify
<1>4. Settle(l, o) \in [Pictures -> Loaders \cup Outcomes \cup {"none"}]
  BY DEF CacheTypeOK, Settle
<1> QED  BY <1>1, <1>2, <1>3, <1>4

(* The steps of the cache alone keep its types.                            *)
LEMMA CacheStepType == CacheTypeOK /\ CacheStep => CacheTypeOK'
<1> SUFFICES ASSUME CacheTypeOK, CacheStep PROVE CacheTypeOK'
  OBVIOUS
<1>1. ASSUME NEW l \in Loaders, CheckFile(l) PROVE CacheTypeOK'
  BY <1>1 DEF CacheTypeOK, CheckFile, Phases
<1>2. ASSUME NEW l \in Loaders, BeginWrite(l) PROVE CacheTypeOK'
  BY <1>2 DEF CacheTypeOK, BeginWrite, Phases, FileStates
<1>3. ASSUME NEW p \in Viewed, NEW l \in Loaders, ViewOpen(p, l) PROVE CacheTypeOK'
  <2>1. p \in Pictures
    BY ViewedAssumption
  <2>2. Resolve(p, l)
    BY <1>3 DEF ViewOpen
  <2> QED  BY <1>3, <2>1, <2>2, ResolveType DEF CacheTypeOK, ViewOpen
<1>4. ASSUME NEW p \in Viewed, NEW l \in Loaders, ViewReload(p, l) PROVE CacheTypeOK'
  BY <1>4, ViewedAssumption DEF CacheTypeOK, ViewReload, Launch, Phases
<1>5. ASSUME NEW p \in Viewed, ViewClose(p) PROVE CacheTypeOK'
  BY <1>5 DEF CacheTypeOK, ViewClose
<1>6. ASSUME NEW p \in Pictures, MemoryEvict(p) PROVE CacheTypeOK'
  BY <1>6 DEF CacheTypeOK, MemoryEvict
<1> QED  BY <1>1, <1>2, <1>3, <1>4, <1>5, <1>6 DEF CacheStep
-----------------------------------------------------------------------------
(* The queue's types and counts.                                           *)

USE DEF States, Stages, Count, Row

(* A worker stays well typed when its stage, count and list change.        *)
LEMMA CountedType ==
  ASSUME NEW w \in WorkerRecord, NEW s \in Stages, NEW todo \in Seq(1..N), NEW n \in Count
  PROVE  [w EXCEPT !.at = s, !.todo = todo, !.loaded = n] \in WorkerRecord
<1>1. \A x \in WorkerRecord : [x EXCEPT !.at = s] \in WorkerRecord
  BY DEF WorkerRecord
<1>2. \A x \in WorkerRecord : [x EXCEPT !.todo = todo] \in WorkerRecord
  BY DEF WorkerRecord
<1>3. \A x \in WorkerRecord : [x EXCEPT !.loaded = n] \in WorkerRecord
  BY DEF WorkerRecord
<1> QED  BY <1>1, <1>2, <1>3

(* The saved row is well typed whenever the fields it is made of are.      *)
LEMMA RowOfType ==
  ASSUME NEW q, q \subseteq Items, NEW ld \in [Items -> Count], NEW st \in [Items -> States]
  PROVE  /\ DOMAIN RowOf(q, ld, st) \subseteq Items
         /\ RowOf(q, ld, st) \in [DOMAIN RowOf(q, ld, st) -> Row]
  BY DEF RowOf

(* A worker's picture is a picture.                                        *)
LEMMA PictureOfType ==
  ASSUME TypeInv, NEW d \in Workers, Live(d), NEW k \in 1..N
  PROVE  PictureOf(d, k) \in Pictures
  BY PicturesAssumption, KeyOfAssumption DEF TypeInv, WorkersHaveItems, PictureOf

(* Listening to the next picture keeps the types.                          *)
LEMMA SubscribeType ==
  ASSUME TypeInv, NEW d \in Workers, NEW l \in Loaders, Live(d),
         NEW todo \in Seq(1..N), todo # <<>>, Subscribe(d, todo, l)
  PROVE  /\ entry' \in [Pictures -> Loaders \cup Outcomes \cup {"none"}]
         /\ loader' \in [Loaders -> [at : Phases, pic : Pictures \cup {None}]]
         /\ src' \in [Workers -> Loaders \cup Outcomes \cup {"none"}]
<1> DEFINE p == PictureOf(d, Head(todo))
<1>1. p \in Pictures
  <2>1. Head(todo) \in 1..N
    BY HeadTailProperties
  <2> QED  BY <2>1, PictureOfType
<1>2. CacheTypeOK /\ src \in [Workers -> Loaders \cup Outcomes \cup {"none"}]
  BY DEF TypeInv, TypeOK
<1>3. src' = [src EXCEPT ![d] = Stream(p, l)]
  BY DEF Subscribe
<1>4. Stream(p, l) \in Loaders \cup Outcomes
  BY <1>1, <1>2 DEF Stream, CacheTypeOK
<1>5. Resolve(p, l)
  BY DEF Subscribe
<1> QED  BY <1>1, <1>2, <1>3, <1>4, <1>5, ResolveType

(* The end of a coroutine keeps the types of what it assigns.              *)
LEMMA ExitType ==
  ASSUME TypeInv, NEW d \in Workers, Live(d), NEW final \in {"Paused", "Complete"},
         Exit(d, final)
  PROVE  /\ state' \in [Items -> States]
         /\ downloader' \in [Items -> Workers \cup {None}]
         /\ worker' \in [Workers -> WorkerRecord]
         /\ CountsEachOnce' /\ WorkersHaveItems'
<1>1. TypeOK /\ CountsEachOnce /\ WorkersHaveItems
  BY DEF TypeInv
<1>2. IdleWorker \in WorkerRecord
  BY NAssumption DEF IdleWorker, WorkerRecord
<1>3. worker' \in [Workers -> WorkerRecord]
  BY <1>1, <1>2 DEF Exit, TypeOK, WorkerRecord
<1>4. state' \in [Items -> States] /\ downloader' \in [Items -> Workers \cup {None}]
  BY <1>1 DEF Exit, TypeOK
<1>5. worker' = [worker EXCEPT ![d] = IdleWorker]
  BY DEF Exit
<1>6. CountsEachOnce'
  BY <1>1, <1>5, NAssumption DEF TypeOK, CountsEachOnce, IdleWorker
<1>7. WorkersHaveItems'
  BY <1>1, <1>5 DEF TypeOK, WorkersHaveItems, IdleWorker, Live
<1> QED  BY <1>3, <1>4, <1>6, <1>7

(* With every picture counted or listed, going on keeps types and counts.  *)
LEMMA ProceedType ==
  ASSUME TypeInv, NEW d \in Workers, NEW l \in Loaders, Live(d),
         NEW n \in Count, NEW todo \in Seq(1..N), n + Len(todo) = N,
         Proceed(d, n, todo, l), UNCHANGED <<file, view, queue, listed, clearing>>
  PROVE  TypeInv'
<1> DEFINE i == worker[d].item
<1>1. TypeOK /\ CountsEachOnce /\ WorkersHaveItems /\ CacheTypeOK
  BY DEF TypeInv, TypeOK
<1>2. i \in Items
  BY <1>1 DEF WorkersHaveItems
<1>3. loaded' \in [Items -> Count]
  BY <1>1, <1>2 DEF Proceed, TypeOK
<1>4. state' \in [Items -> States] /\ downloader' \in [Items -> Workers \cup {None}]
  BY <1>1, ExitType DEF Proceed, TypeOK
<1>5. DOMAIN saved' \subseteq Items /\ saved' \in [DOMAIN saved' -> Row]
  <2>1. CASE saved' = saved
    BY <1>1, <2>1 DEF TypeOK
  <2>2. CASE saved' = RowOf(queue, loaded, state')
    BY <1>1, <1>4, <2>2, RowOfType DEF TypeOK
  <2>3. CASE saved' = RowOf(queue, loaded', state')
    BY <1>1, <1>3, <1>4, <2>3, RowOfType DEF TypeOK
  <2>4. CASE saved' = RowOf(queue, loaded', state)
    BY <1>1, <1>3, <2>4, RowOfType DEF TypeOK
  <2> QED  BY <2>1, <2>2, <2>3, <2>4 DEF Proceed, ItemUpdate
<1>6. CASE worker[d].canceled \/ todo = <<>>
  <2>1. \E final \in {"Paused", "Complete"} : Exit(d, final)
    BY <1>6 DEF Proceed
  <2>2. src' = [src EXCEPT ![d] = "none"] /\ UNCHANGED <<entry, loader>>
    BY <1>6 DEF Proceed
  <2>3. /\ state' \in [Items -> States]
        /\ downloader' \in [Items -> Workers \cup {None}]
        /\ worker' \in [Workers -> WorkerRecord]
        /\ CountsEachOnce' /\ WorkersHaveItems'
    BY <2>1, ExitType
  <2>4. CacheTypeOK'
    BY <1>1, <2>2 DEF CacheTypeOK
  <2>5. src' \in [Workers -> Loaders \cup Outcomes \cup {"none"}]
    BY <1>1, <2>2 DEF TypeOK
  <2>6. queue' \subseteq Items /\ listed' \in [Chapters -> BOOLEAN] /\ clearing' \subseteq Chapters
    BY <1>1 DEF TypeOK
  <2> QED  BY <1>3, <1>5, <2>3, <2>4, <2>5, <2>6 DEF TypeInv, TypeOK
<1>7. CASE ~worker[d].canceled /\ todo # <<>>
  <2>1. Subscribe(d, todo, l) /\ UNCHANGED <<state, downloader>>
    BY <1>7 DEF Proceed
  <2>2. worker' = [worker EXCEPT ![d] =
                     [worker[d] EXCEPT !.at = "image", !.todo = todo, !.loaded = n]]
    BY <1>7 DEF Proceed
  <2>3. CountsEachOnce' /\ WorkersHaveItems'
    BY <1>1, <1>2, <1>7, <2>2 DEF TypeOK, CountsEachOnce, WorkersHaveItems, Live
  <2>4. worker' \in [Workers -> WorkerRecord]
    <3>1. worker[d] \in WorkerRecord
      BY <1>1 DEF TypeOK
    <3>2. [worker[d] EXCEPT !.at = "image", !.todo = todo, !.loaded = n] \in WorkerRecord
      BY <3>1, CountedType
    <3> QED  BY <1>1, <2>2, <3>2 DEF TypeOK
  <2> QED  BY <1>1, <1>3, <1>5, <1>7, <2>1, <2>3, <2>4, SubscribeType
           DEF TypeInv, TypeOK, CacheTypeOK, WorkerRecord
<1> QED  BY <1>6, <1>7

(* A start keeps the types of what it assigns.                             *)
LEMMA BeginType ==
  ASSUME TypeInv, NEW i \in Items, NEW d \in Workers, Begin(i, d)
  PROVE  /\ state' \in [Items -> States]
         /\ downloader' \in [Items -> Workers \cup {None}]
         /\ worker' \in [Workers -> WorkerRecord]
         /\ CountsEachOnce' /\ WorkersHaveItems'
<1> DEFINE s == IF listed[KeyOf[i]] THEN "scan" ELSE "load"
           r == [IdleWorker EXCEPT !.item = i, !.at = s]
<1>1. TypeOK /\ CountsEachOnce /\ WorkersHaveItems
  BY DEF TypeInv
<1>2. worker' = [worker EXCEPT ![d] = r]
  BY DEF Begin, Launched
<1>3. r.item = i /\ r.at = s /\ r.next = 1 /\ r.todo = <<>> /\ r.loaded = 0
  BY DEF IdleWorker
<1>4. r \in WorkerRecord
  <2>1. IdleWorker \in WorkerRecord
    BY NAssumption DEF IdleWorker, WorkerRecord
  <2>2. \A x \in WorkerRecord : [x EXCEPT !.item = i] \in WorkerRecord
    BY DEF WorkerRecord
  <2>3. \A x \in WorkerRecord : [x EXCEPT !.at = s] \in WorkerRecord
    BY DEF WorkerRecord
  <2> QED  BY <2>1, <2>2, <2>3
<1>5. worker' \in [Workers -> WorkerRecord]
  BY <1>1, <1>2, <1>4 DEF TypeOK
<1>6. state' \in [Items -> States] /\ downloader' \in [Items -> Workers \cup {None}]
  BY <1>1 DEF Begin, TypeOK
<1>7. CountsEachOnce'
  <2>1. Len(r.todo) = 0 /\ r.at # "image"
    BY <1>3
  <2> QED  BY <1>1, <1>2, <1>3, <2>1 DEF TypeOK, CountsEachOnce
<1>8. WorkersHaveItems'
  BY <1>1, <1>2, <1>3 DEF TypeOK, WorkersHaveItems, Live
<1> QED  BY <1>5, <1>6, <1>7, <1>8

(* Stopping an item keeps the types of what it assigns.                    *)
LEMMA StopItemType ==
  ASSUME TypeInv, NEW i \in Items, StopItem(i)
  PROVE  /\ state' \in [Items -> States]
         /\ downloader' \in [Items -> Workers \cup {None}]
         /\ worker' \in [Workers -> WorkerRecord]
         /\ CountsEachOnce' /\ WorkersHaveItems'
<1>1. TypeOK /\ CountsEachOnce /\ WorkersHaveItems
  BY DEF TypeInv
<1>2. CASE state[i] # "Downloading"
  BY <1>1, <1>2 DEF StopItem, TypeOK, CountsEachOnce, WorkersHaveItems, Live
<1>3. CASE state[i] = "Downloading"
  <2>1. \A w \in WorkerRecord : [w EXCEPT !.canceled = TRUE] \in WorkerRecord
    BY DEF WorkerRecord
  <2>2. \A d \in Workers : worker'[d] = worker[d]
                          \/ worker'[d] = [worker[d] EXCEPT !.canceled = TRUE]
    BY <1>3 DEF StopItem
  <2>3. worker' \in [Workers -> WorkerRecord]
    <3>1. ASSUME NEW d \in Workers PROVE worker'[d] \in WorkerRecord
      <4>1. worker[d] \in WorkerRecord
        BY <1>1 DEF TypeOK
      <4> QED  BY <2>1, <2>2, <4>1
    <3>2. worker' = [d \in Workers |-> worker'[d]]
      BY <1>3 DEF StopItem
    <3> QED  BY <3>1, <3>2
  <2>4. \A d \in Workers : /\ worker'[d].at = worker[d].at
                           /\ worker'[d].item = worker[d].item
                           /\ worker'[d].next = worker[d].next
                           /\ worker'[d].todo = worker[d].todo
                           /\ worker'[d].loaded = worker[d].loaded
    <3> SUFFICES ASSUME NEW d \in Workers
                 PROVE  /\ worker'[d].at = worker[d].at
                        /\ worker'[d].item = worker[d].item
                        /\ worker'[d].next = worker[d].next
                        /\ worker'[d].todo = worker[d].todo
                        /\ worker'[d].loaded = worker[d].loaded
      OBVIOUS
    <3>1. worker[d] \in WorkerRecord
      BY <1>1 DEF TypeOK
    <3> QED  BY <2>2, <3>1 DEF WorkerRecord
  <2>5. CountsEachOnce' /\ WorkersHaveItems'
    BY <1>1, <2>4 DEF CountsEachOnce, WorkersHaveItems, Live
  <2>6. state' \in [Items -> States] /\ downloader' \in [Items -> Workers \cup {None}]
    BY <1>1, <1>3 DEF StopItem, TypeOK
  <2> QED  BY <2>3, <2>5, <2>6
<1> QED  BY <1>2, <1>3

(* What the scan has counted and listed after one more picture.            *)
LEMMA ScannedType ==
  ASSUME TypeInv, NEW d \in Workers, worker[d].at = "scan"
  PROVE  /\ ScannedCount(d) \in Count
         /\ ScannedTodo(d) \in Seq(1..N)
         /\ ScannedCount(d) + Len(ScannedTodo(d)) = worker[d].next
<1> DEFINE w == worker[d]
<1>1. /\ w.todo \in Seq(1..N) /\ w.next \in 1..N /\ w.loaded \in Count
      /\ w.loaded + Len(w.todo) = w.next - 1
  BY DEF TypeInv, TypeOK, CountsEachOnce, WorkerRecord
<1>2. Len(w.todo) \in Nat
  BY <1>1, LenProperties
<1>3. PICK a \in Count, b \in Nat, c \in 1..N :
        a = w.loaded /\ b = Len(w.todo) /\ c = w.next /\ a + b = c - 1
  BY <1>1, <1>2
<1>4. a + 1 \in Count /\ (a + 1) + b = c /\ a + (b + 1) = c /\ a + 0 = a
  <2>1. a + b = c - 1
    BY <1>3
  <2>2. a + 1 \in Count
    BY <2>1, NAssumption
  <2>3. (a + 1) + b = c /\ a + (b + 1) = c /\ a + 0 = a
    BY <2>1, NAssumption
  <2> QED  BY <2>2, <2>3
<1>5. CASE exist(PictureOf(d, w.next))
  <2>1. ScannedCount(d) = a + 1 /\ ScannedTodo(d) = w.todo
    BY <1>3, <1>5 DEF ScannedCount, ScannedTodo
  <2> QED  BY <1>1, <1>3, <1>4, <2>1
<1>6. CASE ~exist(PictureOf(d, w.next))
  <2>1. ScannedCount(d) = a + 0 /\ ScannedTodo(d) = Append(w.todo, w.next)
    BY <1>3, <1>6 DEF ScannedCount, ScannedTodo
  <2>2. Append(w.todo, w.next) \in Seq(1..N) /\ Len(Append(w.todo, w.next)) = b + 1
    BY <1>1, <1>3, AppendProperties
  <2> QED  BY <1>3, <1>4, <2>1, <2>2
<1> QED  BY <1>5, <1>6

(* What is counted and left once the picture a worker waited for arrived.  *)
LEMMA ArrivedType ==
  ASSUME TypeInv, NEW d \in Workers, worker[d].at = "image"
  PROVE  /\ worker[d].todo \in Seq(1..N) /\ worker[d].todo # <<>>
         /\ worker[d].loaded + 1 \in Count
         /\ Tail(worker[d].todo) \in Seq(1..N)
         /\ (worker[d].loaded + 1) + Len(Tail(worker[d].todo)) = N
<1> DEFINE w == worker[d]
<1>1. /\ w.todo \in Seq(1..N) /\ w.todo # <<>> /\ w.loaded \in Count
      /\ w.loaded + Len(w.todo) = N
  BY DEF TypeInv, TypeOK, CountsEachOnce, WorkerRecord
<1>2. Tail(w.todo) \in Seq(1..N) /\ Len(Tail(w.todo)) = Len(w.todo) - 1 /\ Len(w.todo) \in Nat \ {0}
  BY <1>1, HeadTailProperties, LenProperties, EmptySeq
<1>3. PICK a \in Count, b \in Nat \ {0} : a = w.loaded /\ b = Len(w.todo)
  BY <1>1, <1>2
<1>4. a + b = N
  BY <1>1, <1>3
<1>5. a + 1 \in Count
  BY <1>4, NAssumption
<1>6. (a + 1) + (b - 1) = N
  BY <1>4, NAssumption
<1> QED  BY <1>1, <1>2, <1>3, <1>5, <1>6

(* The picture a worker waits for is a picture.                            *)
LEMMA WaitingPicture ==
  ASSUME TypeInv, NEW d \in Workers, worker[d].at = "image"
  PROVE  PictureOf(d, Head(worker[d].todo)) \in Pictures
<1>1. worker[d].todo \in Seq(1..N) /\ worker[d].todo # <<>>
  BY ArrivedType
<1>2. Head(worker[d].todo) \in 1..N
  BY <1>1, HeadTailProperties
<1> QED  BY <1>2, PictureOfType DEF Live

-----------------------------------------------------------------------------
(* Every action keeps the types.                                           *)

(* The actions of the user and the plugin.                                 *)
LEMMA UserType ==
  ASSUME TypeInv, NEW i \in Items,
         Stop(i) \/ Remove(i) \/ \E d \in Workers : Start(i, d) \/ AddDownload(i, d)
  PROVE  TypeInv'
<1>1. TypeOK
  BY DEF TypeInv
<1>2. ASSUME NEW d \in Workers, Start(i, d) PROVE TypeInv'
  <2>1. Begin(i, d)
    BY <1>2 DEF Start
  <2> QED  BY <1>1, <1>2, <2>1, BeginType
           DEF Start, TypeInv, TypeOK, CacheTypeOK, cacheVars
<1>3. ASSUME NEW d \in Workers, AddDownload(i, d) PROVE TypeInv'
  <2>1. Begin(i, d)
    BY <1>3 DEF AddDownload
  <2>2. queue' \subseteq Items /\ loaded' \in [Items -> Count]
    BY <1>1, <1>3, NAssumption DEF AddDownload, TypeOK
  <2>3. DOMAIN saved' \subseteq Items /\ saved' \in [DOMAIN saved' -> Row]
    <3>1. saved' = RowOf(queue', loaded', state')
      BY <1>3 DEF AddDownload
    <3> QED  BY <2>1, <2>2, <3>1, BeginType, RowOfType
  <2> QED  BY <1>1, <1>3, <2>1, <2>2, <2>3, BeginType
           DEF AddDownload, TypeInv, TypeOK, CacheTypeOK, cacheVars
<1>4. CASE Stop(i)
  <2>1. StopItem(i)
    BY <1>4 DEF Stop
  <2> QED  BY <1>1, <1>4, <2>1, StopItemType
           DEF Stop, TypeInv, TypeOK, CacheTypeOK, cacheVars
<1>5. CASE Remove(i)
  <2>1. StopItem(i)
    BY <1>5 DEF Remove
  <2>2. DOMAIN saved' \subseteq Items /\ saved' \in [DOMAIN saved' -> Row]
    <3>1. saved' = RowOf(queue', loaded, state')
      BY <1>5 DEF Remove
    <3>2. queue' \subseteq Items /\ loaded \in [Items -> Count]
      BY <1>1, <1>5 DEF Remove, TypeOK
    <3> QED  BY <2>1, <3>1, <3>2, StopItemType, RowOfType
  <2> QED  BY <1>1, <1>5, <2>1, <2>2, StopItemType
           DEF Remove, TypeInv, TypeOK, CacheTypeOK, cacheVars
<1> QED  BY <1>2, <1>3, <1>4, <1>5

(* The steps of a coroutine.                                               *)
LEMMA WorkerType ==
  ASSUME TypeInv, NEW d \in Workers,
         \/ ListLoaded(d) \/ ListFails(d) \/ Scan(d)
         \/ \E l \in Loaders : ScanEnds(d, l) \/ ImageLoaded(d, l) \/ ImageFailed(d, l)
  PROVE  TypeInv'
<1>1. TypeOK /\ CountsEachOnce /\ WorkersHaveItems
  BY DEF TypeInv
<1>2. CASE ListLoaded(d)
  <2>1. worker[d] \in WorkerRecord /\ worker[d].at = "load"
    BY <1>1, <1>2 DEF ListLoaded, TypeOK
  <2>2. \A x \in WorkerRecord : [x EXCEPT !.at = "scan"] \in WorkerRecord
    BY DEF WorkerRecord
  <2>3. worker' = [worker EXCEPT ![d] = [worker[d] EXCEPT !.at = "scan"]]
    BY <1>2 DEF ListLoaded
  <2>4. worker' \in [Workers -> WorkerRecord]
    BY <1>1, <2>1, <2>2, <2>3 DEF TypeOK
  <2>5. CountsEachOnce' /\ WorkersHaveItems'
    BY <1>1, <2>1, <2>3 DEF TypeOK, WorkerRecord, CountsEachOnce, WorkersHaveItems, Live
  <2> QED  BY <1>1, <1>2, <2>4, <2>5 DEF ListLoaded, TypeInv, TypeOK, CacheTypeOK, cacheVars
<1>3. CASE ListFails(d)
  <2>1. Live(d) /\ Exit(d, "Paused")
    BY <1>3 DEF ListFails, Live
  <2> QED  BY <1>1, <1>3, <2>1, ExitType DEF ListFails, TypeInv, TypeOK, CacheTypeOK, cacheVars
<1>4. CASE Scan(d)
  <2> DEFINE n == ScannedCount(d)
             todo == ScannedTodo(d)
             r == [worker[d] EXCEPT !.next = @ + 1, !.loaded = n, !.todo = todo]
  <2>1. worker[d] \in WorkerRecord /\ worker[d].at = "scan" /\ worker[d].next \in 1..N
    BY <1>1, <1>4 DEF Scan, TypeOK, WorkerRecord
  <2>2. worker' = [worker EXCEPT ![d] = r]
    BY <1>4 DEF Scan
  <2>3. n \in Count /\ todo \in Seq(1..N) /\ n + Len(todo) = worker[d].next
    BY <2>1, ScannedType
  <2>4. worker[d].next + 1 \in 1..N
    BY <1>4, <2>1, NAssumption DEF Scan
  <2>5. r \in WorkerRecord
    <3>1. \A x \in WorkerRecord, k \in 1..N : [x EXCEPT !.next = k] \in WorkerRecord
      BY DEF WorkerRecord
    <3>2. \A x \in WorkerRecord, k \in Count : [x EXCEPT !.loaded = k] \in WorkerRecord
      BY DEF WorkerRecord
    <3>3. \A x \in WorkerRecord, k \in Seq(1..N) : [x EXCEPT !.todo = k] \in WorkerRecord
      BY DEF WorkerRecord
    <3> HIDE DEF n, todo
    <3> QED  BY <2>1, <2>3, <2>4, <3>1, <3>2, <3>3
  <2>6. /\ r.at = "scan" /\ r.item = worker[d].item /\ r.next = worker[d].next + 1
        /\ r.loaded = n /\ r.todo = todo
    <3> HIDE DEF n, todo
    <3> QED  BY <2>1 DEF WorkerRecord
  <2>7. r.loaded + Len(r.todo) = r.next - 1
    <3> HIDE DEF n, todo, r
    <3> QED  BY <2>1, <2>3, <2>6
  <2> HIDE DEF r
  <2>8. worker' \in [Workers -> WorkerRecord]
    BY <1>1, <2>2, <2>5 DEF TypeOK
  <2>9. CountsEachOnce' /\ WorkersHaveItems'
    BY <1>1, <2>1, <2>2, <2>6, <2>7 DEF TypeOK, CountsEachOnce, WorkersHaveItems, Live
  <2> QED  BY <1>1, <1>4, <2>8, <2>9 DEF Scan, TypeInv, TypeOK, CacheTypeOK, cacheVars
<1>5. ASSUME NEW l \in Loaders, ScanEnds(d, l) PROVE TypeInv'
  <2>1. worker[d].at = "scan" /\ worker[d].next = N /\ Live(d)
    BY <1>5 DEF ScanEnds, Live
  <2>2. /\ ScannedCount(d) \in Count /\ ScannedTodo(d) \in Seq(1..N)
        /\ ScannedCount(d) + Len(ScannedTodo(d)) = N
    BY <2>1, ScannedType
  <2> QED  BY <1>5, <2>1, <2>2, ProceedType DEF ScanEnds
<1>6. ASSUME NEW l \in Loaders, ImageLoaded(d, l) PROVE TypeInv'
  <2>1. worker[d].at = "image" /\ Live(d)
    BY <1>6 DEF ImageLoaded, Live
  <2> QED  BY <1>6, <2>1, ArrivedType, ProceedType DEF ImageLoaded
<1>7. ASSUME NEW l \in Loaders, ImageFailed(d, l) PROVE TypeInv'
  <2>1. worker[d].at = "image" /\ Live(d)
    BY <1>7 DEF ImageFailed, Live
  <2>2. PictureOf(d, Head(worker[d].todo)) \in Pictures
    BY <2>1, WaitingPicture
  <2>3. /\ loader' \in [Loaders -> [at : Phases, pic : Pictures \cup {None}]]
        /\ entry' \in [Pictures -> Loaders \cup Outcomes \cup {"none"}]
        /\ src' \in [Workers -> Loaders \cup Outcomes \cup {"none"}]
    BY <1>1, <1>7, <2>2 DEF ImageFailed, Launch, Phases, TypeOK, CacheTypeOK
  <2> QED  BY <1>1, <1>7, <2>3
           DEF ImageFailed, TypeInv, TypeOK, CacheTypeOK, CountsEachOnce, WorkersHaveItems, Live
<1> QED  BY <1>2, <1>3, <1>4, <1>5, <1>6, <1>7

(* The steps of the cache, of its page, of a reader and of the process.    *)
LEMMA WorldType ==
  ASSUME TypeInv,
         \/ \E l \in Loaders, o \in Outcomes : PictureEnds(l, o)
         \/ CacheStep /\ UNCHANGED downloadVars
         \/ ClearCache
         \/ \E c \in Chapters : ClearDirectory(c) \/ ReaderSaves(c)
         \/ Restart
  PROVE  TypeInv'
<1>1. TypeOK /\ CountsEachOnce /\ WorkersHaveItems /\ CacheTypeOK
  BY DEF TypeInv, TypeOK
<1>2. CASE \E l \in Loaders, o \in Outcomes : PictureEnds(l, o)
  <2>1. PICK l \in Loaders, o \in Outcomes : PictureEnds(l, o)
    BY <1>2
  <2>2. FinishLoad(l, o)
    BY <2>1 DEF PictureEnds, EndLoad
  <2>3. entry' \in [Pictures -> Loaders \cup Outcomes \cup {"none"}]
    BY <1>1, <2>1, <2>2, FinishType DEF PictureEnds, EndLoad
  <2>4. src' \in [Workers -> Loaders \cup Outcomes \cup {"none"}]
    BY <1>1, <2>1 DEF PictureEnds, Notify, TypeOK
  <2> QED  BY <1>1, <2>1, <2>2, <2>3, <2>4, FinishType
           DEF PictureEnds, TypeInv, TypeOK, CacheTypeOK, CountsEachOnce, WorkersHaveItems, Live
<1>3. CASE CacheStep /\ UNCHANGED downloadVars
  <2>1. CacheTypeOK'
    BY <1>1, <1>3, CacheStepType
  <2> QED  BY <1>1, <1>3, <2>1
           DEF downloadVars, TypeInv, TypeOK, CountsEachOnce, WorkersHaveItems, Live
<1>4. CASE ClearCache
  BY <1>1, <1>4 DEF ClearCache, cacheVars, TypeInv, TypeOK, CacheTypeOK, CountsEachOnce,
                    WorkersHaveItems, Live
<1>5. CASE \E c \in Chapters : ClearDirectory(c)
  <2>1. PICK c \in Chapters : ClearDirectory(c)
    BY <1>5
  <2>2. file' \in [Pictures -> FileStates]
    BY <1>1, <2>1 DEF ClearDirectory, CacheTypeOK, FileStates
  <2> QED  BY <1>1, <2>1, <2>2 DEF ClearDirectory, TypeInv, TypeOK, CacheTypeOK, CountsEachOnce,
                                   WorkersHaveItems, Live
<1>6. CASE \E c \in Chapters : ReaderSaves(c)
  BY <1>1, <1>6 DEF ReaderSaves, cacheVars, TypeInv, TypeOK, CacheTypeOK, CountsEachOnce,
                    WorkersHaveItems, Live
<1>7. CASE Restart
  <2>1. CacheTypeOK'
    BY <1>1, <1>7 DEF Restart, CacheCrash, CacheTypeOK, IdleLoader, Phases
  <2>2. queue' \subseteq Items
    BY <1>1, <1>7, LegacyAssumption DEF Restart, Constructed, TypeOK
  <2>3. loaded' \in [Items -> Count]
    BY <1>1, <1>7, NAssumption DEF Restart, TypeOK
  <2>4. worker' \in [Workers -> WorkerRecord]
    <3>1. IdleWorker \in WorkerRecord
      BY NAssumption DEF IdleWorker, WorkerRecord
    <3> QED  BY <1>7, <3>1 DEF Restart
  <2>5. CountsEachOnce' /\ WorkersHaveItems'
    <3>1. \A d \in Workers : worker'[d] = IdleWorker
      BY <1>7 DEF Restart
    <3> QED  BY <3>1 DEF IdleWorker, CountsEachOnce, WorkersHaveItems, Live
  <2>6. /\ state' \in [Items -> States]
        /\ downloader' \in [Items -> Workers \cup {None}]
        /\ src' \in [Workers -> Loaders \cup Outcomes \cup {"none"}]
        /\ clearing' \subseteq Chapters
        /\ UNCHANGED <<saved, listed>>
    BY <1>7 DEF Restart
  <2> QED  BY <1>1, <2>1, <2>2, <2>3, <2>4, <2>5, <2>6 DEF TypeInv, TypeOK
<1> QED  BY <1>2, <1>3, <1>4, <1>5, <1>6, <1>7

(* The program starts with well-typed variables.                           *)
LEMMA InitType == Init => TypeInv
<1> SUFFICES ASSUME Init PROVE TypeInv
  OBVIOUS
<1>1. CacheTypeOK
  BY DEF Init, CacheInit, CacheTypeOK, FileStates, IdleLoader, Phases
<1>2. IdleWorker \in WorkerRecord
  BY NAssumption DEF IdleWorker, WorkerRecord
<1>3. TypeOK
  BY <1>1, <1>2, LegacyAssumption, NAssumption DEF Init, TypeOK
<1>4. CountsEachOnce /\ WorkersHaveItems
  BY DEF Init, IdleWorker, CountsEachOnce, WorkersHaveItems, Live
<1> QED  BY <1>3, <1>4 DEF TypeInv

(* Every step of the program keeps the types and the counts.               *)
LEMMA NextType == TypeInv /\ [Next]_vars => TypeInv'
<1> SUFFICES ASSUME TypeInv, [Next]_vars PROVE TypeInv'
  OBVIOUS
<1>1. CASE Next
  <2>1. CASE \/ \E i \in Items : Stop(i) \/ Remove(i)
             \/ \E i \in Items, d \in Workers : Start(i, d) \/ AddDownload(i, d)
    BY <2>1, UserType
  <2>2. CASE \/ \E d \in Workers : ListLoaded(d) \/ ListFails(d) \/ Scan(d)
             \/ \E d \in Workers, l \in Loaders :
                  ScanEnds(d, l) \/ ImageLoaded(d, l) \/ ImageFailed(d, l)
    BY <2>2, WorkerType
  <2>3. CASE \/ \E l \in Loaders, o \in Outcomes : PictureEnds(l, o)
             \/ CacheStep /\ UNCHANGED downloadVars
             \/ ClearCache
             \/ \E c \in Chapters : ClearDirectory(c) \/ ReaderSaves(c)
             \/ Restart
    BY <2>3, WorldType
  <2> QED  BY <1>1, <2>1, <2>2, <2>3 DEF Next
<1>2. CASE UNCHANGED vars
  BY <1>2 DEF vars, cacheVars, downloadVars, TypeInv, TypeOK, CacheTypeOK, CountsEachOnce,
              WorkersHaveItems, Live
<1> QED  BY <1>1, <1>2

(* Types hold in every reachable state.                                    *)
THEOREM TypeInvariant == Spec => []TypeInv
<1> QED  BY InitType, NextType, PTL DEF Spec

(* The type invariant the runs check.                                      *)
THEOREM TypeCorrect == Spec => []TypeOK
<1>1. TypeInv => TypeOK
  BY DEF TypeInv
<1> QED  BY <1>1, TypeInvariant, PTL

(* No coroutine counts a picture twice or forgets one.                     *)
THEOREM CountsCorrect == Spec => []CountsEachOnce
<1>1. TypeInv => CountsEachOnce
  BY DEF TypeInv
<1> QED  BY <1>1, TypeInvariant, PTL

-----------------------------------------------------------------------------
(* An item that downloads has a coroutine that stop() can cancel.          *)
(* The property is inductive with the types: a coroutine has one item, so  *)
(* what ends or cancels the coroutine of one item leaves the others'.      *)

(* A step that leaves states and downloaders alone, and each coroutine's   *)
(* item and mark, keeps the property.                                      *)
LEMMA SameWorkers ==
  ASSUME DownloadingHasWorker, UNCHANGED <<state, downloader>>,
         \A d \in Workers : Live(d) => /\ Live(d)'
                                       /\ worker'[d].item = worker[d].item
                                       /\ worker'[d].canceled = worker[d].canceled
  PROVE  DownloadingHasWorker'
  BY DEF DownloadingHasWorker, WorksFor

(* A start gives the item an idle coroutine.                               *)
LEMMA BeginHasWorker ==
  ASSUME TypeInv, DownloadingHasWorker, NEW i \in Items, NEW d \in Workers, Begin(i, d)
  PROVE  DownloadingHasWorker'
<1> SUFFICES ASSUME NEW j \in Items, state'[j] = "Downloading"
             PROVE  \E e \in Workers : downloader'[j] = e /\ WorksFor(e, j)'
                                        /\ ~worker'[e].canceled
  BY DEF DownloadingHasWorker
<1>1. TypeOK
  BY DEF TypeInv
<1>2. /\ worker'[d].item = i /\ worker'[d].at # "idle" /\ worker'[d].canceled = FALSE
      /\ \A e \in Workers : e # d => worker'[e] = worker[e]
  BY <1>1 DEF Begin, Launched, IdleWorker, TypeOK
<1>3. CASE j = i
  BY <1>1, <1>2, <1>3 DEF Begin, TypeOK, WorksFor, Live
<1>4. CASE j # i
  <2>1. state[j] = "Downloading" /\ downloader'[j] = downloader[j]
    BY <1>1, <1>4 DEF Begin, TypeOK
  <2>2. PICK e \in Workers : downloader[j] = e /\ WorksFor(e, j) /\ ~worker[e].canceled
    BY <2>1 DEF DownloadingHasWorker
  <2>3. e # d
    BY <2>2 DEF Begin, WorksFor, Live
  <2> QED  BY <1>2, <2>1, <2>2, <2>3 DEF WorksFor, Live
<1> QED  BY <1>3, <1>4

(* The end of a coroutine stops its item and no other.                     *)
LEMMA ExitHasWorker ==
  ASSUME TypeInv, DownloadingHasWorker, NEW d \in Workers, Live(d),
         NEW final \in {"Paused", "Complete"}, Exit(d, final)
  PROVE  DownloadingHasWorker'
<1> SUFFICES ASSUME NEW j \in Items, state'[j] = "Downloading"
             PROVE  \E e \in Workers : downloader'[j] = e /\ WorksFor(e, j)'
                                        /\ ~worker'[e].canceled
  BY DEF DownloadingHasWorker
<1>1. TypeOK /\ worker[d].item \in Items
  BY DEF TypeInv, WorkersHaveItems
<1>2. j # worker[d].item /\ state[j] = "Downloading" /\ downloader'[j] = downloader[j]
  BY <1>1 DEF Exit, TypeOK
<1>3. PICK e \in Workers : downloader[j] = e /\ WorksFor(e, j) /\ ~worker[e].canceled
  BY <1>2 DEF DownloadingHasWorker
<1>4. e # d
  BY <1>2, <1>3 DEF WorksFor
<1>5. worker'[e] = worker[e]
  BY <1>1, <1>4 DEF Exit, TypeOK
<1> QED  BY <1>2, <1>3, <1>5 DEF WorksFor, Live

(* stop() cancels the coroutine of its item and no other.                  *)
LEMMA StopItemHasWorker ==
  ASSUME TypeInv, DownloadingHasWorker, NEW i \in Items, StopItem(i)
  PROVE  DownloadingHasWorker'
<1>1. TypeOK
  BY DEF TypeInv
<1>2. CASE state[i] # "Downloading"
  BY <1>2 DEF StopItem, DownloadingHasWorker, WorksFor, Live
<1>3. CASE state[i] = "Downloading"
  <2> SUFFICES ASSUME NEW j \in Items, state'[j] = "Downloading"
               PROVE  \E e \in Workers : downloader'[j] = e /\ WorksFor(e, j)'
                                          /\ ~worker'[e].canceled
    BY DEF DownloadingHasWorker
  <2>1. j # i /\ state[j] = "Downloading" /\ downloader'[j] = downloader[j]
    BY <1>1, <1>3 DEF StopItem, TypeOK
  <2>2. PICK e \in Workers : downloader[j] = e /\ WorksFor(e, j) /\ ~worker[e].canceled
    BY <2>1 DEF DownloadingHasWorker
  <2>3. e # downloader[i]
    BY <1>3, <2>1, <2>2 DEF DownloadingHasWorker, WorksFor
  <2>4. worker'[e] = worker[e]
    BY <1>3, <2>3 DEF StopItem
  <2> QED  BY <2>1, <2>2, <2>4 DEF WorksFor, Live
<1> QED  BY <1>2, <1>3

(* Going on with the next picture, or ending, keeps the property.          *)
LEMMA ProceedHasWorker ==
  ASSUME TypeInv, DownloadingHasWorker, NEW d \in Workers, NEW l \in Loaders, Live(d),
         NEW n, NEW todo, Proceed(d, n, todo, l)
  PROVE  DownloadingHasWorker'
<1>1. TypeOK
  BY DEF TypeInv
<1>2. CASE worker[d].canceled \/ todo = <<>>
  BY <1>2, ExitHasWorker DEF Proceed
<1>3. CASE ~worker[d].canceled /\ todo # <<>>
  <2>1. UNCHANGED <<state, downloader>>
    BY <1>3 DEF Proceed
  <2>2. \A e \in Workers : e # d => worker'[e] = worker[e]
    BY <1>1, <1>3 DEF Proceed, TypeOK
  <2>3. worker'[d] = [worker[d] EXCEPT !.at = "image", !.todo = todo, !.loaded = n]
    BY <1>1, <1>3 DEF Proceed, TypeOK
  <2>4. /\ worker'[d].at = "image" /\ worker'[d].item = worker[d].item
        /\ worker'[d].canceled = worker[d].canceled
    BY <1>1, <2>3 DEF TypeOK, WorkerRecord
  <2> QED  BY <2>1, <2>2, <2>4, SameWorkers DEF Live
<1> QED  BY <1>2, <1>3

(* Every step keeps the property.                                          *)
LEMMA NextHasWorker == TypeInv /\ DownloadingHasWorker /\ [Next]_vars => DownloadingHasWorker'
<1> SUFFICES ASSUME TypeInv, DownloadingHasWorker, [Next]_vars PROVE DownloadingHasWorker'
  OBVIOUS
<1>1. TypeOK
  BY DEF TypeInv
<1>2. ASSUME NEW i \in Items, Stop(i) \/ Remove(i) PROVE DownloadingHasWorker'
  BY <1>2, StopItemHasWorker DEF Stop, Remove
<1>3. ASSUME NEW i \in Items, NEW d \in Workers, Start(i, d) \/ AddDownload(i, d)
      PROVE  DownloadingHasWorker'
  BY <1>3, BeginHasWorker DEF Start, AddDownload
<1>4. ASSUME NEW d \in Workers, ListLoaded(d) PROVE DownloadingHasWorker'
  <2>1. worker' = [worker EXCEPT ![d] = [worker[d] EXCEPT !.at = "scan"]]
    BY <1>4 DEF ListLoaded
  <2> QED  BY <1>1, <1>4, <2>1, SameWorkers DEF ListLoaded, TypeOK, WorkerRecord, Live
<1>5. ASSUME NEW d \in Workers, ListFails(d) PROVE DownloadingHasWorker'
  BY <1>5, ExitHasWorker DEF ListFails, Live
<1>6. ASSUME NEW d \in Workers, Scan(d) PROVE DownloadingHasWorker'
  <2>1. \A e \in Workers : /\ worker'[e].at = worker[e].at
                           /\ worker'[e].item = worker[e].item
                           /\ worker'[e].canceled = worker[e].canceled
    BY <1>1, <1>6 DEF Scan, TypeOK, WorkerRecord
  <2> QED  BY <1>6, <2>1, SameWorkers DEF Scan, Live
<1>7. ASSUME NEW d \in Workers, NEW l \in Loaders, ScanEnds(d, l) \/ ImageLoaded(d, l)
      PROVE  DownloadingHasWorker'
  BY <1>7, ProceedHasWorker DEF ScanEnds, ImageLoaded, Live
<1>8. CASE \/ \E d \in Workers, l \in Loaders : ImageFailed(d, l)
           \/ \E l \in Loaders, o \in Outcomes : PictureEnds(l, o)
           \/ CacheStep /\ UNCHANGED downloadVars
           \/ ClearCache
           \/ \E c \in Chapters : ClearDirectory(c) \/ ReaderSaves(c)
           \/ UNCHANGED vars
  <2>1. UNCHANGED <<state, downloader, worker>>
    BY <1>8 DEF ImageFailed, PictureEnds, downloadVars, ClearCache, ClearDirectory, ReaderSaves,
                vars
  <2> QED  BY <2>1 DEF DownloadingHasWorker, WorksFor, Live
<1>9. CASE Restart
  BY <1>9 DEF Restart, DownloadingHasWorker
<1> QED  BY <1>2, <1>3, <1>4, <1>5, <1>6, <1>7, <1>8, <1>9 DEF Next

(* An item shown as downloading can always be stopped, whatever coroutines *)
(* of earlier starts still run (DownloadQueueItem.start, stop).            *)
THEOREM DownloadingIsStoppable == Spec => []DownloadingHasWorker
<1>1. Init => DownloadingHasWorker
  BY DEF Init, DownloadingHasWorker
<1> QED  BY <1>1, NextHasWorker, TypeInvariant, PTL DEF Spec

-----------------------------------------------------------------------------
(* The saved row is the queue as it is. SavedIsCurrent is inductive with   *)
(* the types: every action that changes the queue or a count writes the    *)
(* whole row again, and an item that is not in the queue any more is in no *)
(* row.                                                                    *)

(* The row written for the queue is current.                               *)
LEMMA RowIsCurrent ==
  ASSUME saved' = RowOf(queue', loaded', state')
  PROVE  SavedIsCurrent'
  BY DEF SavedIsCurrent, RowOf

(* A step that saves nothing and changes no count keeps the row current    *)
(* when it completes no item.                                              *)
LEMMA UnsavedIsCurrent ==
  ASSUME SavedIsCurrent, UNCHANGED <<queue, loaded, saved>>,
         \A i \in Items : state'[i] = "Complete" => state[i] = "Complete",
         queue \subseteq Items
  PROVE  SavedIsCurrent'
  BY DEF SavedIsCurrent

(* What _itemUpdate saves is current, for the item's new count and state.  *)
LEMMA ItemUpdateIsCurrent ==
  ASSUME SavedIsCurrent, queue' = queue, queue \subseteq Items, NEW i,
         ItemUpdate(i, loaded', state'),
         \A j \in Items : j # i => loaded'[j] = loaded[j] /\ state'[j] = state[j]
  PROVE  SavedIsCurrent'
<1>1. CASE i \in queue
  BY <1>1, RowIsCurrent DEF ItemUpdate
<1>2. CASE i \notin queue
  BY <1>2 DEF ItemUpdate, SavedIsCurrent
<1> QED  BY <1>1, <1>2

(* Every way a coroutine can go on saves what it changed.                  *)
LEMMA ProceedIsCurrent ==
  ASSUME TypeInv, SavedIsCurrent, NEW d \in Workers, NEW l \in Loaders, Live(d),
         NEW n \in Count, NEW todo, Proceed(d, n, todo, l), queue' = queue
  PROVE  SavedIsCurrent'
<1> DEFINE i == worker[d].item
<1>1. TypeOK /\ i \in Items
  BY DEF TypeInv, WorkersHaveItems
<1>2. \A j \in Items : j # i => loaded'[j] = loaded[j] /\ state'[j] = state[j]
  BY <1>1 DEF Proceed, Exit, TypeOK
<1>3. ItemUpdate(i, loaded', state')
  BY DEF Proceed
<1> QED  BY <1>1, <1>2, <1>3, ItemUpdateIsCurrent DEF TypeOK

(* Stopping an item completes none.                                        *)
LEMMA StopItemCompletesNone ==
  ASSUME TypeInv, NEW i \in Items, StopItem(i)
  PROVE  \A j \in Items : state'[j] = "Complete" => state[j] = "Complete"
  BY DEF TypeInv, TypeOK, StopItem

(* Every step keeps the row current.                                       *)
LEMMA NextIsCurrent == TypeInv /\ SavedIsCurrent /\ [Next]_vars => SavedIsCurrent'
<1> SUFFICES ASSUME TypeInv, SavedIsCurrent, [Next]_vars PROVE SavedIsCurrent'
  OBVIOUS
<1>1. TypeOK /\ queue \subseteq Items
  BY DEF TypeInv, TypeOK
<1>2. ASSUME NEW i \in Items, Stop(i) PROVE SavedIsCurrent'
  BY <1>1, <1>2, StopItemCompletesNone, UnsavedIsCurrent DEF Stop
<1>3. ASSUME NEW i \in Items, Remove(i) PROVE SavedIsCurrent'
  BY <1>3, RowIsCurrent DEF Remove
<1>4. ASSUME NEW i \in Items, NEW d \in Workers, Start(i, d) PROVE SavedIsCurrent'
  <2>1. \A j \in Items : state'[j] = "Complete" => state[j] = "Complete"
    BY <1>1, <1>4 DEF Start, Begin, TypeOK
  <2> QED  BY <1>1, <1>4, <2>1, UnsavedIsCurrent DEF Start
<1>5. ASSUME NEW i \in Items, NEW d \in Workers, AddDownload(i, d) PROVE SavedIsCurrent'
  BY <1>5, RowIsCurrent DEF AddDownload
<1>6. ASSUME NEW d \in Workers, ListFails(d) PROVE SavedIsCurrent'
  <2>1. \A j \in Items : state'[j] = "Complete" => state[j] = "Complete"
    BY <1>1, <1>6 DEF ListFails, Exit, TypeOK
  <2> QED  BY <1>1, <1>6, <2>1, UnsavedIsCurrent DEF ListFails
<1>7. ASSUME NEW d \in Workers, NEW l \in Loaders, ScanEnds(d, l) PROVE SavedIsCurrent'
  <2>1. worker[d].at = "scan" /\ Live(d)
    BY <1>7 DEF ScanEnds, Live
  <2> QED  BY <1>7, <2>1, ScannedType, ProceedIsCurrent DEF ScanEnds
<1>8. ASSUME NEW d \in Workers, NEW l \in Loaders, ImageLoaded(d, l) PROVE SavedIsCurrent'
  <2>1. worker[d].at = "image" /\ Live(d)
    BY <1>8 DEF ImageLoaded, Live
  <2> QED  BY <1>8, <2>1, ArrivedType, ProceedIsCurrent DEF ImageLoaded
<1>9. CASE \/ \E d \in Workers : ListLoaded(d) \/ Scan(d)
           \/ \E d \in Workers, l \in Loaders : ImageFailed(d, l)
           \/ \E l \in Loaders, o \in Outcomes : PictureEnds(l, o)
           \/ CacheStep /\ UNCHANGED downloadVars
           \/ ClearCache
           \/ \E c \in Chapters : ClearDirectory(c) \/ ReaderSaves(c)
           \/ UNCHANGED vars
  <2>1. UNCHANGED <<queue, loaded, saved, state>>
    BY <1>9 DEF ListLoaded, Scan, ImageFailed, PictureEnds, downloadVars, ClearCache,
                ClearDirectory, ReaderSaves, vars
  <2> QED  BY <1>1, <2>1, UnsavedIsCurrent
<1>10. CASE Restart
  <2>1. /\ saved' = saved /\ DOMAIN saved \subseteq queue' /\ queue' \subseteq Items
        /\ queue' \ DOMAIN saved \subseteq Legacy
    BY <1>1, <1>10, LegacyAssumption DEF Restart, Constructed, TypeOK
  <2>2. \A i \in DOMAIN saved : /\ saved[i].loaded = loaded'[i]
                                /\ state'[i] = "Complete" => saved[i].complete
    BY <1>1, <1>10 DEF Restart, TypeOK
  <2>3. \A i \in queue' \ DOMAIN saved : loaded'[i] = 0 /\ state'[i] # "Complete"
    BY <1>10, <2>1 DEF Restart
  <2> QED  BY <2>1, <2>2, <2>3 DEF SavedIsCurrent
<1> QED  BY <1>2, <1>3, <1>4, <1>5, <1>6, <1>7, <1>8, <1>9, <1>10 DEF Next

(* A restart would find the queue as it is in memory (_itemUpdate, add,    *)
(* remove, removeKey and the constructor of DownloadManager).              *)
THEOREM SavedRowIsCurrent == Spec => []SavedIsCurrent
<1>1. Init => SavedIsCurrent
  BY LegacyAssumption DEF Init, SavedIsCurrent
<1> QED  BY <1>1, NextIsCurrent, TypeInvariant, PTL DEF Spec

-----------------------------------------------------------------------------
(* A patient user. An item has at most one coroutine, so the one that goes *)
(* on downloading is the one stop() cancels, and none is left when the     *)
(* item is complete.                                                       *)

OneWorkerEach == \A d, e \in Workers, i \in Items : WorksFor(d, i) /\ WorksFor(e, i) => d = e
CompleteIsDone == \A d \in Workers, i \in Items : WorksFor(d, i) => state[i] # "Complete"
Quiet ==
  \A d \in Workers, i \in Items : WorksFor(d, i) /\ ~worker[d].canceled => state[i] = "Downloading"

PatientInv == OneWorkerEach /\ CompleteIsDone /\ Quiet

(* Coroutines keep their items, marks and life; new ones do not appear.    *)
SameLives ==
  \A d \in Workers : Live(d)' => /\ Live(d)
                                 /\ worker'[d].item = worker[d].item
                                 /\ worker'[d].canceled = worker[d].canceled

(* When states stay and no coroutine appears, none works on unseen.        *)
LEMMA SameLivesQuiet ==
  ASSUME PatientInv, SameLives, state' = state
  PROVE  PatientInv'
  BY DEF PatientInv, OneWorkerEach, CompleteIsDone, Quiet, SameLives, WorksFor, Live

(* A start of an item that has no coroutine gives it its only one.         *)
LEMMA BeginQuiet ==
  ASSUME TypeInv, PatientInv, NEW i \in Items, NEW d \in Workers, Begin(i, d),
         \A e \in Workers : ~WorksFor(e, i)
  PROVE  PatientInv'
<1>1. TypeOK
  BY DEF TypeInv
<1>2. worker'[d].item = i /\ \A e \in Workers : e # d => worker'[e] = worker[e]
  BY <1>1 DEF Begin, Launched, IdleWorker, TypeOK
<1>3. state'[i] = "Downloading" /\ \A j \in Items : j # i => state'[j] = state[j]
  BY <1>1 DEF Begin, TypeOK
<1>4. \A e \in Workers, j \in Items : WorksFor(e, j)' =>
        \/ e = d /\ j = i
        \/ e # d /\ j # i /\ WorksFor(e, j) /\ worker'[e].canceled = worker[e].canceled
  BY <1>2 DEF WorksFor, Live
<1> QED  BY <1>3, <1>4 DEF PatientInv, OneWorkerEach, CompleteIsDone, Quiet

(* The end of an item's only coroutine leaves it with none.                *)
LEMMA ExitQuiet ==
  ASSUME TypeInv, PatientInv, NEW d \in Workers, Live(d), NEW final, Exit(d, final)
  PROVE  PatientInv'
<1> DEFINE i == worker[d].item
<1>1. TypeOK /\ i \in Items
  BY DEF TypeInv, WorkersHaveItems
<1>2. worker'[d].at = "idle" /\ \A e \in Workers : e # d => worker'[e] = worker[e]
  BY <1>1 DEF Exit, IdleWorker, TypeOK
<1>3. \A j \in Items : j # i => state'[j] = state[j]
  BY <1>1 DEF Exit, TypeOK
<1>4. \A e \in Workers, j \in Items : WorksFor(e, j)' =>
        e # d /\ j # i /\ WorksFor(e, j) /\ worker'[e].canceled = worker[e].canceled
  BY <1>1, <1>2 DEF PatientInv, OneWorkerEach, WorksFor, Live
<1> QED  BY <1>3, <1>4 DEF PatientInv, OneWorkerEach, CompleteIsDone, Quiet

(* stop() cancels the only coroutine of its item.                          *)
LEMMA StopItemQuiet ==
  ASSUME TypeInv, DownloadingHasWorker, PatientInv, NEW i \in Items, StopItem(i)
  PROVE  PatientInv'
<1>1. TypeOK
  BY DEF TypeInv
<1>2. CASE state[i] # "Downloading"
  BY <1>2, SameLivesQuiet DEF StopItem, SameLives, Live
<1>3. CASE state[i] = "Downloading"
  <2>1. PICK d \in Workers : downloader[i] = d /\ WorksFor(d, i)
    BY <1>3 DEF DownloadingHasWorker
  <2>2. /\ worker'[d] = [worker[d] EXCEPT !.canceled = TRUE]
        /\ \A e \in Workers : e # d => worker'[e] = worker[e]
    BY <1>3, <2>1 DEF StopItem
  <2>3. worker'[d].at = worker[d].at /\ worker'[d].item = worker[d].item /\ worker'[d].canceled
    BY <1>1, <2>2 DEF TypeOK, WorkerRecord
  <2>4. state'[i] = "Paused" /\ \A j \in Items : j # i => state'[j] = state[j]
    BY <1>1, <1>3 DEF StopItem, TypeOK
  <2>5. \A e \in Workers, j \in Items : WorksFor(e, j)' =>
          /\ WorksFor(e, j)
          /\ j = i => worker'[e].canceled
          /\ j # i => worker'[e].canceled = worker[e].canceled
    <3> SUFFICES ASSUME NEW e \in Workers, NEW j \in Items, WorksFor(e, j)'
                 PROVE  /\ WorksFor(e, j)
                        /\ j = i => worker'[e].canceled
                        /\ j # i => worker'[e].canceled = worker[e].canceled
      OBVIOUS
    <3>1. WorksFor(e, j)
      <4>1. CASE e = d
        BY <2>3, <4>1 DEF WorksFor, Live
      <4>2. CASE e # d
        BY <2>2, <4>2 DEF WorksFor, Live
      <4> QED  BY <4>1, <4>2
    <3>2. e = d <=> j = i
      BY <2>1, <3>1 DEF PatientInv, OneWorkerEach, WorksFor
    <3> QED  BY <2>2, <2>3, <3>1, <3>2
  <2> QED  BY <2>4, <2>5 DEF PatientInv, OneWorkerEach, CompleteIsDone, Quiet
<1> QED  BY <1>2, <1>3

(* Going on with the next picture, or ending, leaves none unseen.          *)
LEMMA ProceedQuiet ==
  ASSUME TypeInv, PatientInv, NEW d \in Workers, NEW l \in Loaders, Live(d),
         NEW n, NEW todo, Proceed(d, n, todo, l)
  PROVE  PatientInv'
<1>1. TypeOK
  BY DEF TypeInv
<1>2. CASE worker[d].canceled \/ todo = <<>>
  BY <1>2, ExitQuiet DEF Proceed
<1>3. CASE ~worker[d].canceled /\ todo # <<>>
  <2>1. state' = state /\ \A e \in Workers : e # d => worker'[e] = worker[e]
    BY <1>1, <1>3 DEF Proceed, TypeOK
  <2>2. worker'[d] = [worker[d] EXCEPT !.at = "image", !.todo = todo, !.loaded = n]
    BY <1>1, <1>3 DEF Proceed, TypeOK
  <2>3. worker'[d].item = worker[d].item /\ worker'[d].canceled = worker[d].canceled
    BY <1>1, <2>2 DEF TypeOK, WorkerRecord
  <2> QED  BY <2>1, <2>3, SameLivesQuiet DEF SameLives, Live
<1> QED  BY <1>2, <1>3

(* Every step of a patient user, and of the program under one.             *)
LEMMA NextQuiet ==
  ASSUME Patient, TypeInv, DownloadingHasWorker, PatientInv, [Next]_vars
  PROVE  PatientInv'
<1>1. TypeOK
  BY DEF TypeInv
<1>2. ASSUME NEW i \in Items, Stop(i) \/ Remove(i) PROVE PatientInv'
  BY <1>2, StopItemQuiet DEF Stop, Remove
<1>3. ASSUME NEW i \in Items, NEW d \in Workers, Start(i, d) \/ AddDownload(i, d)
      PROVE  PatientInv'
  BY <1>3, BeginQuiet DEF Start, AddDownload
<1>4. ASSUME NEW d \in Workers, ListLoaded(d) PROVE PatientInv'
  <2>1. worker' = [worker EXCEPT ![d] = [worker[d] EXCEPT !.at = "scan"]]
    BY <1>4 DEF ListLoaded
  <2> QED  BY <1>1, <1>4, <2>1, SameLivesQuiet DEF ListLoaded, SameLives, TypeOK, WorkerRecord, Live
<1>5. ASSUME NEW d \in Workers, ListFails(d) PROVE PatientInv'
  BY <1>5, ExitQuiet DEF ListFails, Live
<1>6. ASSUME NEW d \in Workers, Scan(d) PROVE PatientInv'
  <2>1. \A e \in Workers : /\ worker'[e].at = worker[e].at
                           /\ worker'[e].item = worker[e].item
                           /\ worker'[e].canceled = worker[e].canceled
    BY <1>1, <1>6 DEF Scan, TypeOK, WorkerRecord
  <2> QED  BY <1>6, <2>1, SameLivesQuiet DEF Scan, SameLives, Live
<1>7. ASSUME NEW d \in Workers, NEW l \in Loaders, ScanEnds(d, l) \/ ImageLoaded(d, l)
      PROVE  PatientInv'
  BY <1>7, ProceedQuiet DEF ScanEnds, ImageLoaded, Live
<1>8. CASE \/ \E d \in Workers, l \in Loaders : ImageFailed(d, l)
           \/ \E l \in Loaders, o \in Outcomes : PictureEnds(l, o)
           \/ CacheStep /\ UNCHANGED downloadVars
           \/ ClearCache
           \/ \E c \in Chapters : ClearDirectory(c) \/ ReaderSaves(c)
           \/ UNCHANGED vars
  <2>1. UNCHANGED <<state, worker>>
    BY <1>8 DEF ImageFailed, PictureEnds, downloadVars, ClearCache, ClearDirectory, ReaderSaves,
                vars
  <2> QED  BY <2>1, SameLivesQuiet DEF SameLives, Live
<1>9. CASE Restart
  BY <1>9 DEF Restart, IdleWorker, PatientInv, OneWorkerEach, CompleteIsDone, Quiet, WorksFor, Live
<1> QED  BY <1>2, <1>3, <1>4, <1>5, <1>6, <1>7, <1>8, <1>9 DEF Next

(* With a patient user an item has one coroutine at most.                  *)
THEOREM PatientInvariant ==
  ASSUME Patient PROVE Spec => []PatientInv
<1>1. Init => PatientInv
  BY DEF Init, IdleWorker, PatientInv, OneWorkerEach, CompleteIsDone, Quiet, WorksFor, Live
<1>2. TypeInv /\ DownloadingHasWorker /\ PatientInv /\ [Next]_vars => PatientInv'
  BY NextQuiet
<1> QED  BY <1>1, <1>2, TypeInvariant, DownloadingIsStoppable, PTL DEF Spec

(* An item that is paused or complete has no coroutine that goes on        *)
(* downloading, when the user starts an item only after its last coroutine *)
(* has ended (DownloadQueueItem.start, stop).                              *)
THEOREM PausedItemsAreQuiet == Spec => []PausedIsQuiet
<1>1. CASE ~Patient
  <2>1. PausedIsQuiet
    BY <1>1 DEF PausedIsQuiet
  <2> QED  BY <2>1, PTL
<1>2. CASE Patient
  <2>1. PatientInv => PausedIsQuiet
    BY DEF PatientInv, Quiet, PausedIsQuiet
  <2> QED  BY <1>2, <2>1, PatientInvariant, PTL
<1> QED  BY <1>1, <1>2, PatientAssumption

(* A step that ends no coroutine of a complete item leaves it complete.    *)
LEMMA NextIsFinal ==
  ASSUME TypeInv, SavedIsCurrent, PatientInv, [Next]_vars,
         NEW i \in Items, i \in queue, i \in queue', state[i] = "Complete"
  PROVE  state'[i] = "Complete"
<1>1. TypeOK /\ queue \subseteq Items /\ KeyOf[i] \in Keys(queue)
  BY DEF TypeInv, TypeOK, Keys
<1>2. \A d \in Workers : Live(d) => worker[d].item # i
  BY DEF PatientInv, CompleteIsDone, WorksFor
<1>3. ASSUME NEW d \in Workers, NEW final, Live(d), Exit(d, final) PROVE state'[i] = state[i]
  BY <1>1, <1>2, <1>3 DEF Exit, TypeOK
<1>4. ASSUME NEW j \in Items, Stop(j) \/ Remove(j) PROVE state'[i] = state[i]
  BY <1>1, <1>4 DEF Stop, Remove, StopItem, TypeOK
<1>5. ASSUME NEW j \in Items, NEW d \in Workers, Start(j, d) \/ AddDownload(j, d)
      PROVE  state'[i] = state[i]
  <2>1. j # i /\ Begin(j, d)
    BY <1>1, <1>5 DEF Start, AddDownload
  <2> QED  BY <1>1, <2>1 DEF Begin, TypeOK
<1>6. ASSUME NEW d \in Workers, ListFails(d) PROVE state'[i] = state[i]
  BY <1>3, <1>6 DEF ListFails, Live
<1>7. ASSUME NEW d \in Workers, NEW l \in Loaders, ScanEnds(d, l) \/ ImageLoaded(d, l)
      PROVE  state'[i] = state[i]
  BY <1>3, <1>7 DEF ScanEnds, ImageLoaded, Proceed, Live
<1>8. CASE \/ \E d \in Workers : ListLoaded(d) \/ Scan(d)
           \/ \E d \in Workers, l \in Loaders : ImageFailed(d, l)
           \/ \E l \in Loaders, o \in Outcomes : PictureEnds(l, o)
           \/ CacheStep /\ UNCHANGED downloadVars
           \/ ClearCache
           \/ \E c \in Chapters : ClearDirectory(c) \/ ReaderSaves(c)
           \/ UNCHANGED vars
  BY <1>8 DEF ListLoaded, Scan, ImageFailed, PictureEnds, downloadVars, ClearCache,
              ClearDirectory, ReaderSaves, vars
<1>9. CASE Restart
  <2>1. i \in DOMAIN saved /\ saved[i].complete
    BY DEF SavedIsCurrent
  <2> QED  BY <1>9, <2>1 DEF Restart
<1> QED  BY <1>4, <1>5, <1>6, <1>7, <1>8, <1>9 DEF Next

(* With a patient user a complete item stays complete until it is removed, *)
(* across restarts (DownloadQueueItem.start, the constructor of            *)
(* DownloadManager).                                                       *)
THEOREM CompletionIsFinal ==
  ASSUME Patient PROVE Spec => CompleteIsFinal
<1>1. TypeInv /\ SavedIsCurrent /\ PatientInv /\ [Next]_vars =>
        [\A i \in Items : i \in queue /\ i \in queue' /\ state[i] = "Complete" =>
           state'[i] = "Complete"]_vars
  BY NextIsFinal
<1> QED  BY <1>1, TypeInvariant, SavedRowIsCurrent, PatientInvariant, PTL
         DEF Spec, CompleteIsFinal

-----------------------------------------------------------------------------
(* A count changes by a coroutine that is not canceled, or by a restart.   *)

(* What CanceledIsSilent allows to change the count of item i.             *)
Counting(i) ==
  \E d \in Workers : /\ WorksFor(d, i)
                     /\ worker[d].at \in {"scan", "image"}
                     /\ ~worker[d].canceled
                     /\ worker'[d] # worker[d]

(* Going on changes the count of the coroutine's own item, and the         *)
(* coroutine.                                                              *)
LEMMA ProceedCounts ==
  ASSUME TypeInv, NEW d \in Workers, NEW l \in Loaders, worker[d].at \in {"scan", "image"},
         NEW n \in Count, NEW todo, Proceed(d, n, todo, l),
         worker[d].at = "scan" \/ n # worker[d].loaded,
         NEW i \in Items, loaded'[i] # loaded[i]
  PROVE  Counting(i)
<1>1. TypeOK
  BY DEF TypeInv
<1>2. ~worker[d].canceled /\ worker[d].item = i
  BY <1>1 DEF Proceed, TypeOK
<1>3. CASE todo = <<>>
  <2>1. worker'[d].at = "idle"
    BY <1>1, <1>2, <1>3 DEF Proceed, Exit, IdleWorker, TypeOK
  <2> QED  BY <1>2, <2>1 DEF Counting, WorksFor, Live
<1>4. CASE todo # <<>>
  <2>1. worker'[d] = [worker[d] EXCEPT !.at = "image", !.todo = todo, !.loaded = n]
    BY <1>1, <1>2, <1>4 DEF Proceed, TypeOK
  <2>2. worker'[d].at = "image" /\ worker'[d].loaded = n
    BY <1>1, <2>1 DEF TypeOK, WorkerRecord
  <2> QED  BY <1>2, <2>2 DEF Counting, WorksFor, Live
<1> QED  BY <1>3, <1>4

(* Every step leaves counts to coroutines that are not canceled.           *)
LEMMA NextCounts ==
  ASSUME TypeInv, [Next]_vars, NEW i \in queue, loaded'[i] # loaded[i]
  PROVE  Restart \/ Counting(i)
<1>1. TypeOK /\ i \in Items /\ KeyOf[i] \in Keys(queue)
  BY DEF TypeInv, TypeOK, Keys
<1>2. ASSUME NEW j \in Items, NEW d \in Workers, AddDownload(j, d) PROVE FALSE
  BY <1>1, <1>2 DEF AddDownload, TypeOK
<1>3. ASSUME NEW d \in Workers, NEW l \in Loaders, ScanEnds(d, l) PROVE Counting(i)
  BY <1>1, <1>3, ScannedType, ProceedCounts DEF ScanEnds
<1>4. ASSUME NEW d \in Workers, NEW l \in Loaders, ImageLoaded(d, l) PROVE Counting(i)
  <2>1. worker[d].loaded \in 0..N
    BY <1>1 DEF TypeOK, WorkerRecord, Count
  <2>2. worker[d].loaded + 1 # worker[d].loaded
    BY <2>1, NAssumption
  <2> QED  BY <1>1, <1>4, <2>2, ArrivedType, ProceedCounts DEF ImageLoaded
<1>5. CASE \/ \E j \in Items : Stop(j) \/ Remove(j)
           \/ \E j \in Items, d \in Workers : Start(j, d)
           \/ \E d \in Workers : ListLoaded(d) \/ ListFails(d) \/ Scan(d)
           \/ \E d \in Workers, l \in Loaders : ImageFailed(d, l)
           \/ \E l \in Loaders, o \in Outcomes : PictureEnds(l, o)
           \/ CacheStep /\ UNCHANGED downloadVars
           \/ ClearCache
           \/ \E c \in Chapters : ClearDirectory(c) \/ ReaderSaves(c)
           \/ UNCHANGED vars
  BY <1>5 DEF Stop, Remove, Start, ListLoaded, ListFails, Scan, ImageFailed, PictureEnds,
              downloadVars, ClearCache, ClearDirectory, ReaderSaves, vars
<1> QED  BY <1>2, <1>3, <1>4, <1>5 DEF Next

(* A canceled coroutine changes no count of the queue                      *)
(* (_PictureDownloader.cancel and the checks of start).                    *)
THEOREM CanceledWorkersAreSilent == Spec => CanceledIsSilent
<1>1. TypeInv /\ [Next]_vars =>
        [\A i \in queue : loaded'[i] # loaded[i] =>
           \/ Restart
           \/ \E d \in Workers : /\ WorksFor(d, i)
                                 /\ worker[d].at \in {"scan", "image"}
                                 /\ ~worker[d].canceled
                                 /\ worker'[d] # worker[d]]_vars
  BY NextCounts DEF Counting
<1> QED  BY <1>1, TypeInvariant, PTL DEF Spec, CanceledIsSilent
=============================================================================
