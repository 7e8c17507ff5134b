------------------------ MODULE PreloadQueue_proofs ------------------------
(***************************************************************************)
(* Theorems about PreloadQueue, for every number of pictures, queues,      *)
(* fetches and loads, all lists a plugin may give, and every choice of     *)
(* what may fail.                                                          *)
(*                                                                         *)
(* The loop of _update is a recursive function over the list. What it      *)
(* leaves is shown by induction over the positions: a set of natural       *)
(* numbers that is not empty has a least element (Least), so the positions *)
(* up to which the loop keeps its invariant are all (Induction).           *)
(***************************************************************************)
EXTENDS PreloadQueue, WellFoundedInduction, TLAPS

-----------------------------------------------------------------------------
(* Induction over the natural numbers.                                     *)

(* A set of natural numbers that is not empty has a least element.         *)
LEMMA Least ==
  ASSUME NEW S \in SUBSET Nat, S # {}
  PROVE  \E m \in S : \A n \in S : m <= n
<1>1. PICK m \in S : \A n \in S : <<n, m>> \notin OpToRel(<, Nat)
  BY NatLessThanWellFounded, WFMin
<1>2. \A n \in S : ~(n < m)
  BY <1>1 DEF OpToRel
<1> QED  BY <1>2

(* A set that has 0 and with each number the next one has all up to n.     *)
LEMMA Induction ==
  ASSUME NEW n \in Nat, NEW S, 0 \in S, \A i \in 0..(n - 1) : i \in S => i + 1 \in S
  PROVE  \A i \in 0..n : i \in S
<1> SUFFICES ASSUME NEW k \in 0..n, k \notin S PROVE FALSE
  OBVIOUS
<1>1. (0..n) \ S \in SUBSET Nat /\ (0..n) \ S # {}
  OBVIOUS
<1>2. PICK m \in (0..n) \ S : \A j \in (0..n) \ S : m <= j
  BY <1>1, Least
<1>3. m # 0 /\ m - 1 \in 0..(n - 1)
  BY <1>2
<1>4. m - 1 \in S
  BY <1>2, <1>3
<1> QED  BY <1>2, <1>3, <1>4

-----------------------------------------------------------------------------
(* The invariant.                                                          *)

(* What a plugin gives are pictures.                                       *)
LEMMA GivenPictures == \A i : Given(i) \subseteq Pictures
<1> SUFFICES ASSUME NEW i, NEW list \in Lists, i \in DOMAIN list, list[i] # None
             PROVE  list[i] \in Pictures
  BY DEF Given
<1> QED  BY ListsAssumption

(* A load that writes has created its file, and loads a picture; what is   *)
(* ready in memory has a file.                                             *)
FilesInv ==
  /\ \A l \in Loaders : loader[l].at # "idle" => loader[l].pic \in Pictures
  /\ \A l \in Loaders : loader[l].at = "write" => exist(loader[l].pic)
  /\ \A p \in Pictures : entry[p] = "ready" => exist(p)

(* ListenersAreServed, of one listener and one load at a time.             *)
Heard ==
  \A l \in Loaders, p \in Pictures : entry[p] = l \/ view[p] = l => LoadsPicture(l, p)

CacheInv == CacheTypeOK /\ FilesInv /\ Heard

(* The fetches among fs that are to mark an entry of queue k.              *)
FetchesIn(fs, k) == {f \in Fetches : fs[f].at # "idle" /\ fs[f].queue = k}

Malformeds(q) == {i \in DOMAIN q.items : Given(i) \cap Malformed # {}}

(* Each picture of q is one the plugin gives at its place.                 *)
FromLists(q) == \A i \in DOMAIN q.items : q.items[i].pic \in Given(i) \cup {None}

(* Queue k as q and the fetches fs agree: one fetch at most, for which the *)
(* queue waits, and the picture it loads was given where it is to mark.    *)
QueueFits(k, q, fs) ==
  /\ q \in Queue
  /\ FromLists(q)
  /\ \A f \in FetchesIn(fs, k) :
       fs[f].target \in DOMAIN q.items /\ fs[f].pic \in Given(fs[f].target)
  /\ \A f, g \in FetchesIn(fs, k) : f = g
  /\ FetchesIn(fs, k) # {} => q.loading
  /\ q.loading => FetchesIn(fs, k) # {} \/ Malformeds(q) # {}

QueuesInv ==
  /\ queue \in [Queues -> Queue]
  /\ shown \in Queues \cup {None}
  /\ \A k \in Queues : QueueFits(k, queue[k], fetch)

(* A fetch that waits has its load, and what it has waited for was tried.  *)
FetchFits(x) ==
  /\ x.at # "idle" => x.queue \in Queues /\ x.pic \in Pictures
  /\ x.at = "stream" <=> x.src # None
  /\ x.at = "stream" => LoadsPicture(x.src, x.pic)
  /\ x.at \in {"stream", "answered"} => Tried(x.pic)

FetchesInv ==
  /\ fetch \in [Fetches -> Fetch]
  /\ \A f \in Fetches : FetchFits(fetch[f])

IInv == CacheInv /\ QueuesInv /\ FetchesInv /\ LoadedIsCached

-----------------------------------------------------------------------------
(* The cache.                                                              *)

(* What a step of the cache that ends no load but those of `ended` keeps.  *)
CacheGoesOn(ended) ==
  /\ CacheInv'
  /\ \A p \in Pictures : Tried(p) => Tried(p)'
  /\ \A l \in Loaders \ ended, p \in Pictures : LoadsPicture(l, p) => LoadsPicture(l, p)'

(* A new load of p, to which the entry of p and perhaps its widget listen. *)
LEMMA LaunchGoesOn ==
  ASSUME CacheInv, NEW p \in Pictures, NEW l \in Loaders, Launch(p, l),
         entry' = [entry EXCEPT ![p] = l],
         \/ view' = view
         \/ view' = [view EXCEPT ![p] = l],
         file' = file
  PROVE  CacheGoesOn({})
<1>1. CacheTypeOK /\ FilesInv /\ Heard
  BY DEF CacheInv
<1>2. loader[l].at = "idle" /\ loader' = [loader EXCEPT ![l] = [at |-> "check", pic |-> p]]
  BY DEF Launch
<1>3. CacheTypeOK'
  BY <1>1, <1>2 DEF CacheTypeOK, Phases
<1>4. FilesInv'
  BY <1>1, <1>2, LoadersAssumption DEF CacheTypeOK, FilesInv, exist
<1>5. \A m \in Loaders, q \in Pictures : LoadsPicture(m, q) => LoadsPicture(m, q)'
  BY <1>1, <1>2 DEF LoadsPicture, CacheTypeOK
<1>6. LoadsPicture(l, p)'
  BY <1>1, <1>2 DEF LoadsPicture, CacheTypeOK
<1>7. Heard'
  <2> SUFFICES ASSUME NEW m \in Loaders, NEW q \in Pictures, entry'[q] = m \/ view'[q] = m
               PROVE  LoadsPicture(m, q)'
    BY DEF Heard
  <2>1. entry'[q] = entry[q] \/ (entry'[q] = l /\ q = p)
    BY <1>1 DEF CacheTypeOK
  <2>2. view'[q] = view[q] \/ (view'[q] = l /\ q = p)
    BY <1>1 DEF CacheTypeOK
  <2>3. CASE m = l /\ q = p
    BY <1>6, <2>3
  <2>4. CASE entry[q] = m \/ view[q] = m
    BY <1>1, <1>5, <2>4 DEF Heard
  <2> QED  BY <2>1, <2>2, <2>3, <2>4
<1>8. \A q \in Pictures : Tried(q) => Tried(q)'
  BY <1>1 DEF Tried, exist, CacheTypeOK
<1> QED  BY <1>3, <1>4, <1>5, <1>7, <1>8 DEF CacheGoesOn, CacheInv

(* A listener that gets a stream the cache has, or starts a load.          *)
LEMMA ResolveGoesOn ==
  ASSUME CacheInv, NEW p \in Pictures, NEW l \in Loaders, Resolve(p, l),
         NEW s, s = Stream(p, l),
         \/ view' = view
         \/ view' = [view EXCEPT ![p] = s],
         file' = file
  PROVE  /\ CacheGoesOn({})
         /\ s \in Loaders \cup Outcomes
         /\ s \in Loaders => LoadsPicture(s, p)' /\ entry'[p] = s
         /\ s \notin Loaders => entry[p] = s /\ entry' = entry
<1>1. CacheTypeOK /\ FilesInv /\ Heard
  BY DEF CacheInv
<1>2. entry[p] \in Loaders \cup Outcomes \cup {"none"}
  BY <1>1 DEF CacheTypeOK
<1>3. CASE entry[p] = "none"
  <2>1. s = l /\ Launch(p, l) /\ entry' = [entry EXCEPT ![p] = l]
    BY <1>3 DEF Stream, Resolve
  <2>2. CacheGoesOn({})
    BY <2>1, LaunchGoesOn
  <2>3. LoadsPicture(l, p)' /\ entry'[p] = l
    BY <1>1, <2>1 DEF LoadsPicture, CacheTypeOK, Launch
  <2> QED  BY <2>1, <2>2, <2>3
<1>4. CASE entry[p] # "none"
  <2>1. s = entry[p] /\ UNCHANGED <<entry, loader>>
    BY <1>4 DEF Stream, Resolve
  <2>2. CacheTypeOK'
    BY <1>1, <1>2, <1>4, <2>1 DEF CacheTypeOK
  <2>3. FilesInv' /\ \A q \in Pictures : Tried(q) => Tried(q)'
    BY <1>1, <2>1 DEF FilesInv, Tried, exist
  <2>4. \A m, q : LoadsPicture(m, q)' <=> LoadsPicture(m, q)
    BY <2>1 DEF LoadsPicture
  <2>5. Heard'
    <3> SUFFICES ASSUME NEW m \in Loaders, NEW q \in Pictures, entry'[q] = m \/ view'[q] = m
                 PROVE  LoadsPicture(m, q)'
      BY DEF Heard
    <3>1. view'[q] = view[q] \/ (view'[q] = entry[q] /\ q = p)
      BY <1>1, <2>1 DEF CacheTypeOK
    <3> QED  BY <1>1, <2>1, <2>4, <3>1 DEF Heard
  <2>6. CacheGoesOn({})
    BY <2>2, <2>3, <2>4, <2>5 DEF CacheGoesOn, CacheInv
  <2>7. s \in Loaders => LoadsPicture(s, p)'
    BY <1>1, <2>1, <2>4 DEF Heard
  <2> QED  BY <1>2, <1>4, <2>1, <2>6, <2>7
<1> QED  BY <1>3, <1>4

(* The steps of loads, widgets and memory limit.                           *)
LEMMA CacheStepGoesOn ==
  ASSUME CacheInv, CacheStep
  PROVE  CacheGoesOn({})
<1>1. CacheTypeOK /\ FilesInv /\ Heard
  BY DEF CacheInv
<1>2. ASSUME NEW l \in Loaders, CheckFile(l) \/ BeginWrite(l)
      PROVE  CacheGoesOn({})
  <2>1. /\ \E s \in {"read", "request", "write"} : loader' = [loader EXCEPT ![l].at = s]
        /\ loader[l].at \in {"check", "request"}
        /\ UNCHANGED <<entry, view>>
        /\ \/ file' = file /\ loader[l].at = "check"
           \/ file' = [file EXCEPT ![loader[l].pic] = "partial"]
    BY <1>2 DEF CheckFile, BeginWrite
  <2>2. loader[l].pic \in Pictures /\ loader'[l].pic = loader[l].pic /\ loader'[l].at # "idle"
    BY <1>1, <2>1 DEF CacheTypeOK, FilesInv
  <2>3. CacheTypeOK'
    BY <1>1, <2>1 DEF CacheTypeOK, Phases, FileStates
  <2>4. \A p \in Pictures : exist(p) => exist(p)'
    BY <1>1, <2>1 DEF CacheTypeOK, exist
  <2>5. loader'[l].at = "write" => exist(loader[l].pic)'
    <3>1. CASE CheckFile(l)
      BY <1>1, <3>1 DEF CheckFile, CacheTypeOK
    <3>2. CASE BeginWrite(l)
      BY <1>1, <2>2, <3>2 DEF BeginWrite, CacheTypeOK, exist
    <3> QED  BY <1>2, <3>1, <3>2
  <2>6. \A m \in Loaders : m # l => loader'[m] = loader[m]
    BY <1>1, <2>1 DEF CacheTypeOK
  <2>7. FilesInv'
    BY <1>1, <2>1, <2>2, <2>4, <2>5, <2>6 DEF FilesInv, exist
  <2>8. \A m \in Loaders, q \in Pictures : LoadsPicture(m, q) => LoadsPicture(m, q)'
    BY <2>2, <2>6 DEF LoadsPicture
  <2>9. Heard'
    BY <1>1, <2>1, <2>8 DEF Heard
  <2>10. \A q \in Pictures : Tried(q) => Tried(q)'
    BY <2>1, <2>4 DEF Tried
  <2> QED  BY <2>3, <2>7, <2>8, <2>9, <2>10 DEF CacheGoesOn, CacheInv
<1>3. ASSUME NEW p \in Viewed, NEW l \in Loaders, ViewOpen(p, l)
      PROVE  CacheGoesOn({})
  <2>1. PICK s : s = Stream(p, l)
    OBVIOUS
  <2>2. Resolve(p, l) /\ view' = [view EXCEPT ![p] = s] /\ file' = file /\ p \in Pictures
    BY <1>3, <2>1, ViewedAssumption DEF ViewOpen
  <2> QED  BY <2>1, <2>2, ResolveGoesOn
<1>4. ASSUME NEW p \in Viewed, NEW l \in Loaders, ViewReload(p, l)
      PROVE  CacheGoesOn({})
  BY <1>4, LaunchGoesOn, ViewedAssumption DEF ViewReload
<1>5. ASSUME NEW p \in Viewed, ViewClose(p)
      PROVE  CacheGoesOn({})
  <2>1. view' = [view EXCEPT ![p] = "closed"] /\ UNCHANGED <<file, entry, loader>>
    BY <1>5 DEF ViewClose
  <2>2. CacheTypeOK' /\ FilesInv'
    BY <1>1, <2>1 DEF CacheTypeOK, FilesInv, exist
  <2>3. Heard'
    BY <1>1, <2>1, LoadersAssumption DEF CacheTypeOK, Heard, LoadsPicture
  <2> QED  BY <2>1, <2>2, <2>3 DEF CacheGoesOn, CacheInv, Tried, exist, LoadsPicture
<1>6. ASSUME NEW p \in Pictures, MemoryEvict(p)
      PROVE  CacheGoesOn({})
  <2>1. entry[p] = "ready" /\ entry' = [entry EXCEPT ![p] = "none"]
        /\ UNCHANGED <<file, loader, view>>
    BY <1>6 DEF MemoryEvict
  <2>2. CacheTypeOK' /\ FilesInv'
    BY <1>1, <2>1 DEF CacheTypeOK, FilesInv, exist
  <2>3. Heard'
    BY <1>1, <2>1, LoadersAssumption DEF CacheTypeOK, Heard, LoadsPicture
  <2>4. \A q \in Pictures : Tried(q) => Tried(q)'
    BY <1>1, <2>1 DEF Tried, FilesInv, exist, CacheTypeOK
  <2> QED  BY <2>1, <2>2, <2>3, <2>4 DEF CacheGoesOn, CacheInv, LoadsPicture
<1> QED  BY <1>2, <1>3, <1>4, <1>5, <1>6 DEF CacheStep

(* The end of a load. What it loaded was tried.                            *)
LEMMA EndGoesOn ==
  ASSUME CacheInv, NEW l \in Loaders, NEW o \in Outcomes, EndLoad(l, o)
  PROVE  /\ CacheGoesOn({l})
         /\ loader[l].pic \in Pictures
<1>1. CacheTypeOK /\ FilesInv /\ Heard
  BY DEF CacheInv
<1>2. LoadEnds(l, o) /\ loader' = [loader EXCEPT ![l] = IdleLoader] /\ view' = Notify(view, l, o)
  BY DEF EndLoad, FinishLoad
<1>3. loader[l].pic \in Pictures
  BY <1>1, <1>2 DEF LoadEnds, ReadEnds, RequestFails, WriteEnds, WriteFails, FilesInv
<1>4. PICK p \in Pictures : p = loader[l].pic
  BY <1>3
<1>5. entry' = [entry EXCEPT ![p] = IF @ = l THEN o ELSE @]
  BY <1>4 DEF EndLoad, Settle
<1>6. /\ file' \in [Pictures -> FileStates]
      /\ \A q \in Pictures : exist(q) => exist(q)'
      /\ o = "ready" => exist(p)'
  <2>1. CASE ReadEnds(l, o)
    <3>1. file' = file /\ o \in DecodeOf(file[p])
      BY <1>4, <2>1 DEF ReadEnds
    <3>2. o = "ready" => file[p] # "absent"
      BY <3>1 DEF DecodeOf
    <3> QED  BY <1>1, <3>1, <3>2 DEF exist, CacheTypeOK
  <2>2. CASE RequestFails(l, o) \/ WriteFails(l, o)
    BY <1>1, <2>2 DEF RequestFails, WriteFails, exist, CacheTypeOK
  <2>3. CASE WriteEnds(l, o)
    <3>1. exist(p)
      BY <1>1, <1>4, <2>3 DEF WriteEnds, FilesInv
    <3>2. file' = [file EXCEPT ![p] = IF o = "ready" THEN "good" ELSE "bad"]
      BY <1>4, <2>3, <3>1 DEF WriteEnds
    <3> QED  BY <1>1, <3>2 DEF exist, CacheTypeOK, FileStates
  <2> QED  BY <1>2, <2>1, <2>2, <2>3 DEF LoadEnds
<1>7. CacheTypeOK'
  <2>1. loader' \in [Loaders -> [at : Phases, pic : Pictures \cup {None}]]
    BY <1>1, <1>2 DEF CacheTypeOK, IdleLoader, Phases
  <2>2. entry' \in [Pictures -> Loaders \cup Outcomes \cup {"none"}]
    BY <1>1, <1>5 DEF CacheTypeOK
  <2>3. view' \in [Pictures -> Loaders \cup Outcomes \cup {"closed"}]
    BY <1>1, <1>2 DEF CacheTypeOK, Notify
  <2> QED  BY <1>6, <2>1, <2>2, <2>3 DEF CacheTypeOK
<1>8. /\ \A m \in Loaders : m # l => loader'[m] = loader[m]
      /\ loader'[l].at = "idle"
  BY <1>1, <1>2 DEF CacheTypeOK, IdleLoader
<1>9. \A q \in Pictures : \/ entry'[q] = entry[q] /\ entry[q] # l
                          \/ entry'[q] = o /\ q = p /\ entry[q] = l
  BY <1>1, <1>4, <1>5 DEF CacheTypeOK, Heard, LoadsPicture
<1>10. FilesInv'
  <2>1. \A q \in Pictures : entry'[q] = "ready" => exist(q)'
    BY <1>1, <1>6, <1>9 DEF FilesInv
  <2> QED  BY <1>1, <1>6, <1>8, <2>1 DEF FilesInv, exist
<1>11. \A m \in Loaders \ {l}, q \in Pictures : LoadsPicture(m, q) => LoadsPicture(m, q)'
  BY <1>8 DEF LoadsPicture
<1>12. Heard'
  <2> SUFFICES ASSUME NEW m \in Loaders, NEW q \in Pictures, entry'[q] = m \/ view'[q] = m
               PROVE  LoadsPicture(m, q)'
    BY DEF Heard
  <2>1. o # m
    BY LoadersAssumption DEF Outcomes
  <2>2. entry'[q] = m => entry[q] = m /\ m # l
    BY <1>9, <2>1
  <2>3. view'[q] = m => view[q] = m /\ m # l
    BY <1>1, <1>2, <2>1 DEF CacheTypeOK, Notify
  <2> QED  BY <1>1, <1>11, <2>2, <2>3 DEF Heard
<1>13. \A q \in Pictures : Tried(q) => Tried(q)'
  <2> SUFFICES ASSUME NEW q \in Pictures, Tried(q), ~exist(q)' PROVE Tried(q)'
    BY DEF Tried
  <2>1. entry[q] \in Loaders \cup {"failed"}
    BY <1>6 DEF Tried
  <2>2. CASE entry'[q] = entry[q]
    BY <2>1, <2>2 DEF Tried
  <2>3. CASE entry'[q] = o /\ q = p
    BY <1>6, <2>3 DEF Tried, Outcomes
  <2> QED  BY <1>9, <2>2, <2>3
<1> QED  BY <1>3, <1>7, <1>10, <1>11, <1>12, <1>13 DEF CacheGoesOn, CacheInv

-----------------------------------------------------------------------------
(* The entry that _checkStart picks.                                       *)

(* It is one that is wanted, of a queue that is neither stopped nor busy.  *)
LEMMA TargetWanted ==
  ASSUME NEW q \in Queue
  PROVE  \/ Target(q) = 0
         \/ /\ Target(q) \in DOMAIN q.items
            /\ Wanted(q.items[Target(q)])
            /\ ~q.canceled /\ ~q.loading
<1> DEFINE wanted == {i \in 0..(Len(q.items) - 1) : Wanted(q.items[Position(q, i)])}
<1>1. q.items \in Seq(Item) /\ q.offset \in Nat /\ Len(q.items) \in Nat
  BY DEF Queue
<1>2. CASE q.canceled \/ q.loading \/ wanted = {}
  BY <1>2 DEF Target
<1>3. CASE ~(q.canceled \/ q.loading \/ wanted = {})
  <2> DEFINE first == CHOOSE i \in wanted : \A j \in wanted : i <= j
  <2>1. Target(q) = Position(q, first)
    BY <1>3 DEF Target
  <2>2. wanted \in SUBSET Nat
    BY <1>1
  <2>3. \E i \in wanted : \A j \in wanted : i <= j
    BY <1>3, <2>2, Least
  <2>4. first \in wanted
    BY <2>3
  <2>5. first \in 0..(Len(q.items) - 1) /\ Wanted(q.items[Position(q, first)])
    BY <2>4
  <2>6. Position(q, first) \in 1..Len(q.items)
    <3> HIDE DEF first
    <3>1. first \in Nat /\ Len(q.items) > 0
      BY <1>1, <2>5
    <3>2. (q.offset + first) % Len(q.items) \in 0..(Len(q.items) - 1)
      BY <1>1, <3>1
    <3> QED  BY <1>1, <3>2 DEF Position
  <2> QED  BY <1>1, <1>3, <2>1, <2>5, <2>6
<1> QED  BY <1>2, <1>3

Fill == [q : Queue, start : Nat, pic : Pictures \cup {None}, thrown : BOOLEAN]

(* What _checkStart leaves: it starts an entry that is wanted, or throws   *)
(* over one, and has the queue wait in both cases.                         *)
LEMMA CheckStartKeeps ==
  ASSUME NEW q \in Queue, FromLists(q), NEW c, c = CheckStart(q)
  PROVE  /\ c \in Fill
         /\ c.q.items = q.items /\ c.q.canceled = q.canceled
         /\ q.loading => c.q.loading
         /\ c.start # 0 => /\ c.start \in DOMAIN q.items
                           /\ c.pic \in Given(c.start)
                           /\ c.q.loading /\ ~q.loading /\ ~q.canceled
         /\ c.q.loading => q.loading \/ c.start # 0 \/ Malformeds(q) # {}
<1>1. PICK t : t = Target(q)
  OBVIOUS
<1>2. t = 0 \/ (t \in DOMAIN q.items /\ Wanted(q.items[t]) /\ ~q.canceled /\ ~q.loading)
  BY <1>1, TargetWanted
<1>3. t \in Nat
  BY <1>2 DEF Queue
<1>4. PICK thrown \in BOOLEAN : thrown = (t # 0 /\ q.items[t].pic \in Malformed)
  OBVIOUS
<1>5. PICK begins \in BOOLEAN : begins = (t # 0 /\ ~thrown)
  OBVIOUS
<1>6. PICK pic : pic = IF begins THEN q.items[t].pic ELSE None
  OBVIOUS
<1>7. c = [q      |-> [q EXCEPT !.loading = q.loading \/ t # 0],
           start  |-> IF begins THEN t ELSE 0,
           pic    |-> pic,
           thrown |-> thrown]
  BY <1>1, <1>4, <1>5, <1>6 DEF CheckStart
<1>8. /\ c.q = [q EXCEPT !.loading = q.loading \/ t # 0]
      /\ c.start = (IF begins THEN t ELSE 0) /\ c.pic = pic
  BY <1>7
<1>9. c.q \in Queue /\ c.q.items = q.items /\ c.q.canceled = q.canceled
      /\ c.q.loading = (q.loading \/ t # 0)
  BY <1>8 DEF Queue
<1>10. t # 0 => q.items[t].pic \in Given(t) /\ q.items[t].pic \in Pictures
  BY <1>2, GivenPictures DEF FromLists, Wanted
<1>11. pic \in Pictures \cup {None}
  BY <1>5, <1>6, <1>10
<1>12. c \in Fill
  BY <1>3, <1>7, <1>8, <1>9, <1>11 DEF Fill
<1>13. t # 0 /\ thrown => Malformeds(q) # {}
  BY <1>2, <1>4, <1>10 DEF Malformeds
<1>14. c.start # 0 => c.start = t /\ t # 0 /\ begins
  BY <1>8
<1>15. c.start # 0 => c.pic \in Given(c.start)
  BY <1>6, <1>8, <1>10, <1>14
<1> QED  BY <1>2, <1>5, <1>8, <1>9, <1>12, <1>13, <1>14, <1>15

-----------------------------------------------------------------------------
(* The loop of _update.                                                    *)

(* What putting p at place i of `old` leaves: the entry there shows p, and *)
(* is the old one if that did; the others stay, or are new and empty.      *)
PutKept(old, i, p, items) ==
  /\ items \in Seq(Item)
  /\ DOMAIN old \subseteq DOMAIN items
  /\ i \in DOMAIN items /\ items[i].pic = p
  /\ items[i].loaded \/ (i \in DOMAIN old /\ old[i].pic = p) =>
       i \in DOMAIN old /\ items[i] = old[i]
  /\ \A j \in DOMAIN items \ {i} : IF j \in DOMAIN old THEN items[j] = old[j] ELSE items[j] = NoItem

(* That is so for every list of entries.                                   *)
LEMMA PutKeeps ==
  ASSUME NEW items \in Seq(Item), NEW i \in Nat \ {0}, NEW p \in Pictures, NEW r,
         r = Put(items, i, p)
  PROVE  PutKept(items, i, p, r)
<1> DEFINE new == [pic |-> p, loaded |-> FALSE]
<1>1. new \in Item /\ NoItem \in Item /\ new.pic = p /\ ~new.loaded
  BY DEF Item, NoItem
<1>2. CASE i <= Len(items) /\ items[i].pic = p
  BY <1>2 DEF Put, PutKept
<1>3. CASE i <= Len(items) /\ items[i].pic # p
  <2>1. r = [items EXCEPT ![i] = new]
    BY <1>3 DEF Put
  <2> HIDE DEF new
  <2> QED  BY <1>1, <1>3, <2>1 DEF PutKept
<1>4. CASE i > Len(items)
  <2> DEFINE n == i - Len(items)
             more == [j \in 1..n |-> IF j = n THEN new ELSE NoItem]
  <2>1. r = items \o more
    BY <1>4 DEF Put
  <2> HIDE DEF new
  <2>2. n \in Nat /\ n > 0 /\ more \in Seq(Item) /\ Len(more) = n
    BY <1>1, <1>4
  <2>3. more[n] = new /\ \A j \in 1..(n - 1) : more[j] = NoItem
    BY <2>2
  <2> HIDE DEF more
  <2>4. r \in Seq(Item) /\ Len(r) = i
    BY <1>4, <2>1, <2>2
  <2>5. \A j \in 1..i : r[j] = IF j <= Len(items) THEN items[j] ELSE more[j - Len(items)]
    BY <1>4, <2>1, <2>2
  <2>6. r[i] = new
    BY <1>4, <2>3, <2>5
  <2>7. \A j \in 1..i : j # i /\ j > Len(items) => r[j] = NoItem
    BY <1>4, <2>3, <2>5
  <2> QED  BY <1>1, <1>4, <2>4, <2>5, <2>6, <2>7 DEF PutKept
<1> QED  BY <1>2, <1>3, <1>4

(* What the loop has reached, from queue q: no entry of q is lost, nothing *)
(* new counts as loaded, and it has begun one fetch at most.               *)
Reached(q, acc) ==
  /\ acc \in Fill
  /\ FromLists(acc.q)
  /\ DOMAIN q.items \subseteq DOMAIN acc.q.items
  /\ \A i \in DOMAIN acc.q.items :
       acc.q.items[i].loaded => i \in DOMAIN q.items /\ q.items[i].loaded
  /\ q.loading => acc.q.loading
  /\ acc.q.canceled = q.canceled
  /\ acc.start # 0 => /\ acc.start \in DOMAIN acc.q.items
                      /\ acc.pic \in Given(acc.start)
                      /\ acc.q.loading /\ ~q.loading /\ ~q.canceled
  /\ acc.q.loading => q.loading \/ acc.start # 0 \/ Malformeds(acc.q) # {}

(* One more call of set() keeps it.                                        *)
LEMMA SetItemReaches ==
  ASSUME NEW q \in Queue, NEW acc, Reached(q, acc), NEW list \in Lists, NEW i \in DOMAIN list
  PROVE  Reached(q, SetItem(acc, i, list[i]))
<1>1. CASE acc.thrown \/ list[i] = None
  BY <1>1 DEF SetItem
<1>2. CASE ~(acc.thrown \/ list[i] = None)
  <2>1. PICK p : p = list[i]
    OBVIOUS
  <2>2. p \in Pictures /\ i \in Nat \ {0}
    BY <1>2, <2>1, ListsAssumption
  <2>3. acc.q \in Queue /\ acc.q.items \in Seq(Item)
    BY DEF Reached, Fill, Queue
  <2>4. PICK items : items = Put(acc.q.items, i, p)
    OBVIOUS
  <2>5. /\ items \in Seq(Item)
        /\ DOMAIN acc.q.items \subseteq DOMAIN items
        /\ i \in DOMAIN items /\ items[i].pic = p
        /\ items[i].loaded => i \in DOMAIN acc.q.items /\ items[i] = acc.q.items[i]
        /\ \A j \in DOMAIN items \ {i} :
             IF j \in DOMAIN acc.q.items THEN items[j] = acc.q.items[j] ELSE items[j] = NoItem
    <3>1. PutKept(acc.q.items, i, p, items)
      BY <2>2, <2>3, <2>4, PutKeeps
    <3> QED  BY <3>1 DEF PutKept
  <2>6. PICK r : r = [acc.q EXCEPT !.items = items]
    OBVIOUS
  <2>7. /\ r \in Queue /\ r.items = items
        /\ r.loading = acc.q.loading /\ r.canceled = acc.q.canceled
    BY <2>3, <2>5, <2>6 DEF Queue
  <2>8. FromLists(r)
    <3> SUFFICES ASSUME NEW j \in DOMAIN items PROVE items[j].pic \in Given(j) \cup {None}
      BY <2>7 DEF FromLists
    <3>1. CASE j = i
      <4>1. p \in Given(i)
        BY <1>2, <2>1 DEF Given
      <4> QED  BY <2>5, <3>1, <4>1
    <3>2. CASE j # i /\ j \in DOMAIN acc.q.items
      BY <2>5, <3>2 DEF Reached, FromLists
    <3>3. CASE j # i /\ j \notin DOMAIN acc.q.items
      BY <2>5, <3>3 DEF NoItem
    <3> QED  BY <3>1, <3>2, <3>3
  <2>9. PICK c : c = CheckStart(r)
    OBVIOUS
  <2>10. /\ c \in Fill
         /\ c.q.items = r.items /\ c.q.canceled = r.canceled
         /\ r.loading => c.q.loading
         /\ c.start # 0 => /\ c.start \in DOMAIN r.items
                           /\ c.pic \in Given(c.start)
                           /\ c.q.loading /\ ~r.loading /\ ~r.canceled
         /\ c.q.loading => r.loading \/ c.start # 0 \/ Malformeds(r) # {}
    BY <2>7, <2>8, <2>9, CheckStartKeeps
  <2>11. PICK s : s = SetItem(acc, i, p)
    OBVIOUS
  <2>12. s = IF c.start = 0 THEN [c EXCEPT !.start = acc.start, !.pic = acc.pic] ELSE c
    BY <1>2, <2>1, <2>4, <2>6, <2>9, <2>11 DEF SetItem
  <2>13. /\ s \in Fill /\ s.q = c.q
         /\ IF c.start = 0 THEN s.start = acc.start /\ s.pic = acc.pic
                           ELSE s.start = c.start /\ s.pic = c.pic
    BY <2>10, <2>12 DEF Reached, Fill
  <2>14. FromLists(s.q) /\ DOMAIN q.items \subseteq DOMAIN s.q.items
    BY <2>5, <2>7, <2>8, <2>10, <2>13 DEF Reached, FromLists
  <2>15. \A j \in DOMAIN s.q.items :
           s.q.items[j].loaded => j \in DOMAIN q.items /\ q.items[j].loaded
    <3> SUFFICES ASSUME NEW j \in DOMAIN items, items[j].loaded
                 PROVE  j \in DOMAIN q.items /\ q.items[j].loaded
      BY <2>7, <2>10, <2>13
    <3>1. j \in DOMAIN acc.q.items /\ items[j] = acc.q.items[j]
      BY <2>5 DEF NoItem
    <3> QED  BY <3>1 DEF Reached
  <2>16. /\ Malformeds(acc.q) # {} => Malformeds(r) # {}
         /\ Malformeds(s.q) = Malformeds(r)
    BY <2>5, <2>7, <2>10, <2>13 DEF Malformeds
  <2>17. s.start # 0 => /\ s.start \in DOMAIN s.q.items
                        /\ s.pic \in Given(s.start)
                        /\ s.q.loading /\ ~q.loading /\ ~q.canceled
    <3>1. CASE c.start # 0
      BY <2>7, <2>10, <2>13, <3>1 DEF Reached
    <3>2. CASE c.start = 0
      BY <2>5, <2>7, <2>10, <2>13, <3>2 DEF Reached
    <3> QED  BY <3>1, <3>2
  <2>18. s.q.loading => q.loading \/ s.start # 0 \/ Malformeds(s.q) # {}
    BY <2>7, <2>10, <2>13, <2>16 DEF Reached
  <2>19. (q.loading => s.q.loading) /\ s.q.canceled = q.canceled
    BY <2>7, <2>10, <2>13 DEF Reached
  <2>20. Reached(q, s)
    BY <2>13, <2>14, <2>15, <2>17, <2>18, <2>19 DEF Reached
  <2> QED  BY <2>1, <2>11, <2>20
<1> QED  BY <1>1, <1>2

Started(q) == [q |-> q, start |-> 0, pic |-> None, thrown |-> FALSE]

(* The recursion of Filling: what the i-th call finds is what the one      *)
(* before it left. A function that does this up to k extends to k + 1, so  *)
(* there is one for the whole list.                                        *)
LEMMA FillingUnfolds ==
  ASSUME NEW q, NEW list, Len(list) \in Nat
  PROVE  Filling(q, list) =
           [i \in 0..Len(list) |->
              IF i = 0 THEN Started(q) ELSE SetItem(Filling(q, list)[i - 1], i, list[i])]
<1> DEFINE n == Len(list)
           G(f, i) == IF i = 0 THEN Started(q) ELSE SetItem(f[i - 1], i, list[i])
           Fills(f, k) == f = [i \in 0..k |-> G(f, i)]
           S == {k \in 0..n : \E f : Fills(f, k)}
<1>1. 0 \in S
  <2> DEFINE f == [i \in 0..0 |-> Started(q)]
  <2>1. \A i \in 0..0 : G(f, i) = Started(q)
    OBVIOUS
  <2> HIDE DEF G
  <2>2. Fills(f, 0)
    BY <2>1
  <2> QED  BY <2>2
<1>2. ASSUME NEW k \in 0..(n - 1), k \in S
      PROVE  k + 1 \in S
  <2>1. PICK f : Fills(f, k)
    BY <1>2
  <2> DEFINE g == [i \in 0..(k + 1) |-> IF i = k + 1 THEN G(f, k + 1) ELSE f[i]]
  <2>2. ASSUME NEW i \in 0..(k + 1)
        PROVE  g[i] = G(g, i)
    <3>1. CASE i = 0
      BY <2>1, <3>1
    <3>2. CASE i # 0
      <4>1. g[i] = G(f, i)
        <5>1. CASE i = k + 1
          BY <5>1
        <5>2. CASE i # k + 1
          <6> HIDE DEF G
          <6> QED  BY <2>1, <5>2
        <5> QED  BY <5>1, <5>2
      <4>2. g[i - 1] = f[i - 1]
        BY <3>2
      <4> HIDE DEF g
      <4> QED  BY <3>2, <4>1, <4>2
    <3> QED  BY <3>1, <3>2
  <2> HIDE DEF G
  <2>3. Fills(g, k + 1)
    BY <2>2
  <2>4. k + 1 \in 0..n
    OBVIOUS
  <2> QED  BY <2>3, <2>4
<1>3. n \in S
  <2> HIDE DEF S
  <2>1. \A k \in 0..n : k \in S
    BY <1>1, <1>2, Induction
  <2> QED  BY <2>1
<1>4. \E f : Fills(f, n)
  BY <1>3
<1>5. Filling(q, list) = CHOOSE f : Fills(f, n)
  BY DEF Filling, Started
<1>6. Fills(Filling(q, list), n)
  <2> HIDE DEF Fills
  <2> QED  BY <1>4, <1>5
<1> QED  BY <1>6

(* So the whole loop keeps its invariant.                                  *)
LEMMA Filled ==
  ASSUME NEW q \in Queue, FromLists(q), NEW list \in Lists
  PROVE  Reached(q, Filling(q, list)[Len(list)])
<1> DEFINE n == Len(list)
           S == {i \in 0..n : Reached(q, Filling(q, list)[i])}
<1>1. n \in Nat /\ DOMAIN list = 1..n
  BY ListsAssumption
<1>2. /\ Filling(q, list)[0] = Started(q)
      /\ \A i \in 1..n : Filling(q, list)[i] = SetItem(Filling(q, list)[i - 1], i, list[i])
  <2>1. PICK done : done = Filling(q, list)
    OBVIOUS
  <2>2. done = [i \in 0..n |-> IF i = 0 THEN Started(q) ELSE SetItem(done[i - 1], i, list[i])]
    BY <1>1, <2>1, FillingUnfolds
  <2>3. done[0] = Started(q)
    BY <1>1, <2>2
  <2>4. \A i \in 1..n : done[i] = SetItem(done[i - 1], i, list[i])
    BY <1>1, <2>2
  <2> QED  BY <2>1, <2>3, <2>4
<1>3. Reached(q, Started(q))
  BY DEF Reached, Started, Fill
<1>4. ASSUME NEW i \in 0..(n - 1), i \in S
      PROVE  i + 1 \in S
  <2>1. PICK j : j = i + 1
    OBVIOUS
  <2>2. j \in DOMAIN list /\ j \in 0..n /\ j - 1 = i
    BY <1>1, <2>1
  <2>3. Reached(q, SetItem(Filling(q, list)[i], j, list[j]))
    BY <1>4, <2>2, SetItemReaches
  <2>4. Filling(q, list)[j] = SetItem(Filling(q, list)[i], j, list[j])
    BY <1>1, <1>2, <2>2
  <2> QED  BY <2>1, <2>2, <2>3, <2>4
<1>5. 0 \in S
  BY <1>1, <1>2, <1>3
<1>6. n \in S
  <2> HIDE DEF S
  <2>1. \A i \in 0..n : i \in S
    BY <1>1, <1>4, <1>5, Induction
  <2> QED  BY <1>1, <2>1
<1> QED  BY <1>6

-----------------------------------------------------------------------------
(* The steps.                                                              *)

(* Steps that leave the queues and fetches alone.                          *)
LEMMA OthersGoOn ==
  ASSUME IInv, CacheGoesOn({}), UNCHANGED queueVars
  PROVE  IInv'
<1>1. /\ queue' = queue /\ shown' = shown /\ fetch' = fetch
      /\ CacheInv' /\ QueuesInv /\ FetchesInv /\ LoadedIsCached
      /\ \A p \in Pictures : Tried(p) => Tried(p)'
      /\ \A l \in Loaders, p \in Pictures : LoadsPicture(l, p) => LoadsPicture(l, p)'
  BY DEF IInv, CacheGoesOn, queueVars
<1>2. QueuesInv'
  BY <1>1 DEF QueuesInv, QueueFits, FromLists, FetchesIn, Malformeds
<1>3. FetchesInv'
  <2> SUFFICES ASSUME NEW f \in Fetches PROVE FetchFits(fetch[f])'
    BY <1>1 DEF FetchesInv
  <2>1. PICK x \in Fetch : x = fetch[f]
    BY <1>1 DEF FetchesInv
  <2>2. FetchFits(x)
    BY <1>1, <2>1 DEF FetchesInv
  <2>3. x.at = "stream" => x.src \in Loaders
    BY <2>1, <2>2 DEF FetchFits, Fetch
  <2>4. FetchFits(x)'
    BY <1>1, <2>2, <2>3 DEF FetchFits
  <2> QED  BY <1>1, <2>1, <2>4
<1>4. LoadedIsCached'
  BY <1>1, GivenPictures DEF LoadedIsCached
<1> QED  BY <1>1, <1>2, <1>3, <1>4 DEF IInv

(* A queue that changes, beside the others, and perhaps a fetch for it.    *)
LEMMA ProceedFits ==
  ASSUME IInv, UNCHANGED <<cacheVars, shown>>,
         NEW k \in Queues, NEW q \in Queue, NEW t \in Nat, NEW p, NEW others \in [Fetches -> Fetch],
         \A f \in Fetches : FetchFits(others[f]),
         \A j \in Queues : FetchesIn(others, j) \subseteq FetchesIn(fetch, j),
         \A j \in Queues \ {k} : FetchesIn(others, j) = FetchesIn(fetch, j),
         \A f \in Fetches : others[f].at = "idle" \/ others[f] = fetch[f],
         FromLists(q),
         \A f \in FetchesIn(others, k) :
           others[f].target \in DOMAIN q.items /\ others[f].pic \in Given(others[f].target),
         FetchesIn(others, k) # {} => q.loading,
         t # 0 => /\ FetchesIn(others, k) = {} /\ q.loading
                  /\ t \in DOMAIN q.items /\ p \in Given(t),
         q.loading => FetchesIn(others, k) # {} \/ t # 0 \/ Malformeds(q) # {},
         \A i \in DOMAIN q.items : q.items[i].loaded => \E g \in Given(i) : Tried(g),
         Proceed(k, q, t, p, others)
  PROVE  IInv'
<1>1. /\ queue' = [queue EXCEPT ![k] = q]
      /\ file' = file /\ entry' = entry /\ loader' = loader /\ view' = view /\ shown' = shown
      /\ CacheInv /\ QueuesInv /\ FetchesInv /\ LoadedIsCached
      /\ queue \in [Queues -> Queue]
  BY DEF IInv, Proceed, cacheVars, QueuesInv
<1>2. CacheInv'
  BY <1>1 DEF CacheInv, CacheTypeOK, FilesInv, exist, Heard, LoadsPicture
<1>3. \A g : (Tried(g) => Tried(g)') /\ \A l : LoadsPicture(l, g) => LoadsPicture(l, g)'
  BY <1>1 DEF Tried, exist, LoadsPicture
<1>4. queue' \in [Queues -> Queue] /\ queue'[k] = q /\ \A j \in Queues \ {k} : queue'[j] = queue[j]
  BY <1>1
<1>5. LoadedIsCached'
  <2> SUFFICES ASSUME NEW j \in Queues, NEW i \in DOMAIN queue'[j].items,
                      queue'[j].items[i].loaded
               PROVE  \E g \in Given(i) : Tried(g)'
    BY DEF LoadedIsCached
  <2>1. PICK g \in Given(i) : Tried(g)
    BY <1>1, <1>4 DEF LoadedIsCached
  <2> QED  BY <1>3, <2>1
<1>6. CASE t = 0 /\ fetch' = others
  <2>1. FetchesInv'
    <3>1. \A f \in Fetches : FetchFits(others[f])'
      BY <1>1 DEF FetchFits, LoadsPicture, Tried, exist
    <3> QED  BY <1>6, <3>1 DEF FetchesInv
  <2>2. QueuesInv'
    <3> SUFFICES ASSUME NEW j \in Queues
                 PROVE  QueueFits(j, queue[j], fetch)'
      BY <1>1, <1>4 DEF QueuesInv
    <3>1. QueueFits(j, queue[j], fetch)
      BY <1>1 DEF QueuesInv
    <3>2. CASE j = k
      <4>1. \A f, g \in FetchesIn(others, k) : f = g
        BY <3>1, <3>2 DEF QueueFits
      <4>2. QueueFits(k, q, others)
        BY <1>6, <4>1 DEF QueueFits
      <4>3. QueueFits(k, q, others)'
        BY <4>2 DEF QueueFits, FetchesIn, Malformeds, FromLists
      <4> QED  BY <1>4, <1>6, <3>2, <4>2 DEF QueueFits, FetchesIn, Malformeds, FromLists
    <3>3. CASE j # k
      <4>1. FetchesIn(others, j) = FetchesIn(fetch, j)
        BY <3>3
      <4>2. \A f \in FetchesIn(others, j) : others[f] = fetch[f]
        BY DEF FetchesIn
      <4>3. QueueFits(j, queue[j], others)
        BY <3>1, <4>1, <4>2 DEF QueueFits
      <4> QED  BY <1>4, <1>6, <3>3, <4>3 DEF QueueFits, FetchesIn, Malformeds, FromLists
    <3> QED  BY <3>2, <3>3
  <2> QED  BY <1>2, <1>5, <2>1, <2>2 DEF IInv
<1>7. ASSUME t # 0, NEW f \in Fetches, p \in Pictures,
             others[f] = IdleFetch,
             fetch' = [others EXCEPT ![f] =
                         [at |-> "exists", queue |-> k, target |-> t, pic |-> p, src |-> None]]
      PROVE  IInv'
  <2>1. PICK x : x = [at |-> "exists", queue |-> k, target |-> t, pic |-> p, src |-> None]
    OBVIOUS
  <2>2. /\ x \in Fetch /\ x.at = "exists" /\ x.queue = k /\ x.target = t /\ x.pic = p
        /\ x.src = None
    BY <1>7, <2>1 DEF Fetch
  <2>3. fetch' \in [Fetches -> Fetch] /\ fetch'[f] = x /\ \A g \in Fetches \ {f} : fetch'[g] = others[g]
    BY <1>7, <2>1, <2>2
  <2>4. FetchesInv'
    <3>1. FetchFits(x)'
      BY <1>7, <2>2 DEF FetchFits
    <3>2. \A g \in Fetches : FetchFits(others[g])'
      BY <1>1 DEF FetchFits, LoadsPicture, Tried, exist
    <3>3. ASSUME NEW g \in Fetches PROVE FetchFits(fetch[g])'
      BY <2>3, <3>1, <3>2
    <3> QED  BY <2>3, <3>3 DEF FetchesInv
  <2>5. FetchesIn(fetch', k) = {f}
    BY <1>7, <2>2, <2>3 DEF FetchesIn
  <2>6. \A j \in Queues \ {k} : FetchesIn(fetch', j) = FetchesIn(fetch, j)
    <3>1. \A j \in Queues \ {k} : FetchesIn(fetch', j) = FetchesIn(others, j)
      BY <1>7, <2>2, <2>3 DEF FetchesIn, IdleFetch
    <3> QED  BY <3>1
  <2>7. QueuesInv'
    <3> SUFFICES ASSUME NEW j \in Queues
                 PROVE  QueueFits(j, queue[j], fetch)'
      BY <1>1, <1>4 DEF QueuesInv
    <3>1. QueueFits(j, queue[j], fetch)
      BY <1>1 DEF QueuesInv
    <3>2. CASE j = k
      <4>1. /\ q.loading /\ fetch'[f].target = t /\ t \in DOMAIN q.items
            /\ fetch'[f].pic \in Given(t)
        BY <1>7, <2>2, <2>3
      <4>2. QueueFits(k, q, fetch')
        BY <2>5, <4>1 DEF QueueFits
      <4> QED  BY <1>4, <3>2, <4>2 DEF QueueFits, FetchesIn, Malformeds, FromLists
    <3>3. CASE j # k
      <4>1. \A g \in FetchesIn(fetch, j) : fetch'[g] = fetch[g]
        <5>1. FetchesIn(fetch, j) = FetchesIn(others, j)
          BY <3>3
        <5>2. \A g \in FetchesIn(others, j) : g # f /\ others[g] = fetch[g]
          BY <1>7 DEF FetchesIn, IdleFetch
        <5> QED  BY <2>3, <5>1, <5>2 DEF FetchesIn
      <4>2. QueueFits(j, queue[j], fetch')
        BY <2>6, <3>1, <3>3, <4>1 DEF QueueFits
      <4> QED  BY <1>4, <3>3, <4>2 DEF QueueFits, FetchesIn, Malformeds, FromLists
    <3> QED  BY <3>2, <3>3
  <2> QED  BY <1>2, <1>5, <2>4, <2>7 DEF IInv
<1> QED  BY <1>6, <1>7, GivenPictures DEF Proceed

(* Fetches that move on, each for the queue and picture it was begun for.  *)
LEMMA MovesFit ==
  ASSUME IInv, NEW ended, CacheGoesOn(ended), UNCHANGED <<queue, shown>>,
         fetch' \in [Fetches -> Fetch],
         \A f \in Fetches : /\ FetchFits(fetch[f])'
                            /\ fetch'[f].at = "idle" <=> fetch[f].at = "idle"
                            /\ fetch'[f].queue = fetch[f].queue
                            /\ fetch'[f].target = fetch[f].target
                            /\ fetch'[f].pic = fetch[f].pic
  PROVE  IInv'
<1>1. /\ queue' = queue /\ shown' = shown
      /\ CacheInv' /\ QueuesInv /\ LoadedIsCached
      /\ \A p \in Pictures : Tried(p) => Tried(p)'
  BY DEF IInv, CacheGoesOn
<1>2. \A k : FetchesIn(fetch', k) = FetchesIn(fetch, k)
  BY DEF FetchesIn
<1>3. QueuesInv'
  <2> SUFFICES ASSUME NEW k \in Queues
               PROVE  QueueFits(k, queue[k], fetch)'
    BY <1>1 DEF QueuesInv
  <2>1. QueueFits(k, queue[k], fetch)
    BY <1>1 DEF QueuesInv
  <2>2. QueueFits(k, queue[k], fetch')
    BY <1>2, <2>1 DEF QueueFits, FetchesIn
  <2> QED  BY <1>1, <2>2 DEF QueueFits, FetchesIn, Malformeds, FromLists
<1>4. FetchesInv'
  BY DEF FetchesInv
<1>5. LoadedIsCached'
  BY <1>1, GivenPictures DEF LoadedIsCached
<1> QED  BY <1>1, <1>3, <1>4, <1>5 DEF IInv

(* getSingleFile finds a file, or a stream to wait for.                    *)
LEMMA LookFits ==
  ASSUME IInv, NEW f \in Fetches, Look(f)
  PROVE  IInv'
<1>1. CacheInv /\ FetchesInv /\ fetch[f] \in Fetch /\ fetch[f].at = "exists" /\ FetchFits(fetch[f])
  BY DEF IInv, FetchesInv, Look
<1>2. PICK p \in Pictures : p = fetch[f].pic
  BY <1>1 DEF FetchFits
<1>3. fetch[f].src = None /\ UNCHANGED <<file, view, queue, shown>>
  BY <1>1 DEF FetchFits, Look
<1>4. CASE exist(p) /\ fetch' = [fetch EXCEPT ![f].at = "answered"] /\ UNCHANGED <<entry, loader>>
  <2>1. CacheGoesOn({})
    BY <1>1, <1>3, <1>4
       DEF CacheGoesOn, CacheInv, CacheTypeOK, FilesInv, Heard, LoadsPicture, Tried, exist
  <2>2. fetch' \in [Fetches -> Fetch]
    BY <1>1, <1>4 DEF FetchesInv, Fetch
  <2>3. PICK x \in Fetch : x = [fetch[f] EXCEPT !.at = "answered"]
    BY <1>1 DEF Fetch
  <2>4. /\ x.at = "answered" /\ x.queue = fetch[f].queue /\ x.target = fetch[f].target
        /\ x.pic = p /\ x.src = None
    BY <1>1, <1>2, <1>3, <2>3 DEF Fetch
  <2>5. fetch'[f] = x /\ \A g \in Fetches \ {f} : fetch'[g] = fetch[g]
    BY <1>1, <1>4, <2>3 DEF FetchesInv
  <2>6. FetchFits(x)'
    BY <1>1, <1>2, <1>3, <1>4, <2>4 DEF FetchFits, Tried, exist
  <2>7. \A g \in Fetches \ {f} : FetchFits(fetch[g])'
    BY <1>1, <1>3, <1>4, <2>5 DEF FetchesInv, FetchFits, LoadsPicture, Tried, exist
  <2> QED  BY <1>1, <1>2, <1>3, <2>1, <2>2, <2>4, <2>5, <2>6, <2>7, MovesFit
<1>5. ASSUME NEW l \in Loaders, Resolve(p, l),
             fetch' = [fetch EXCEPT ![f] = IF Stream(p, l) \in Loaders
                                           THEN [@ EXCEPT !.at = "stream", !.src = Stream(p, l)]
                                           ELSE [@ EXCEPT !.at = "answered"]]
      PROVE  IInv'
  <2>1. PICK s : s = Stream(p, l)
    OBVIOUS
  <2>2. /\ CacheGoesOn({})
        /\ s \in Loaders \cup Outcomes
        /\ s \in Loaders => LoadsPicture(s, p)' /\ entry'[p] = s
        /\ s \notin Loaders => entry[p] = s /\ entry' = entry
    BY <1>1, <1>3, <1>5, <2>1, ResolveGoesOn
  <2>3. PICK x : x = IF s \in Loaders THEN [fetch[f] EXCEPT !.at = "stream", !.src = s]
                                      ELSE [fetch[f] EXCEPT !.at = "answered"]
    OBVIOUS
  <2>4. /\ x \in Fetch
        /\ x.queue = fetch[f].queue /\ x.target = fetch[f].target /\ x.pic = p
        /\ IF s \in Loaders THEN x.at = "stream" /\ x.src = s
                            ELSE x.at = "answered" /\ x.src = None
    BY <1>1, <1>2, <1>3, <2>3 DEF Fetch
  <2>5. /\ fetch' \in [Fetches -> Fetch]
        /\ fetch'[f] = x /\ \A g \in Fetches \ {f} : fetch'[g] = fetch[g]
    BY <1>1, <1>5, <2>1, <2>3, <2>4 DEF FetchesInv
  <2>6. Tried(p)'
    <3>1. CASE s \in Loaders
      BY <2>2, <3>1 DEF Tried
    <3>2. CASE s \notin Loaders
      <4>1. entry[p] \in Outcomes
        BY <2>2, <3>2
      <4>2. Tried(p)
        BY <1>1, <4>1 DEF Tried, Outcomes, CacheInv, FilesInv
      <4> QED  BY <2>2, <4>2 DEF CacheGoesOn
    <3> QED  BY <3>1, <3>2
  <2>7. FetchFits(x)'
    <3>1. s \in Loaders => s # None
      BY QueuesAssumption
    <3> QED  BY <1>1, <1>2, <2>2, <2>4, <2>6, <3>1 DEF FetchFits
  <2>8. ASSUME NEW g \in Fetches \ {f} PROVE FetchFits(fetch[g])'
    <3>1. PICK y \in Fetch : y = fetch[g]
      BY <1>1 DEF FetchesInv
    <3>2. FetchFits(y)
      BY <1>1, <3>1 DEF FetchesInv
    <3>3. FetchFits(y)'
      BY <2>2, <3>2 DEF FetchFits, CacheGoesOn, Fetch
    <3> QED  BY <2>5, <3>1, <3>3
  <2> QED  BY <1>1, <1>2, <1>3, <2>2, <2>4, <2>5, <2>7, <2>8, MovesFit
<1> QED  BY <1>2, <1>4, <1>5 DEF Look

(* The fetches that waited for a load go on when it ends.                  *)
LEMMA PictureEndsFits ==
  ASSUME IInv, NEW l \in Loaders, NEW o \in Outcomes, PictureEnds(l, o)
  PROVE  IInv'
<1>1. /\ CacheInv /\ FetchesInv /\ EndLoad(l, o) /\ UNCHANGED <<queue, shown>>
      /\ fetch' = [f \in Fetches |->
                     IF fetch[f].src = l THEN [fetch[f] EXCEPT !.at = "answered", !.src = None]
                                         ELSE fetch[f]]
  BY DEF IInv, PictureEnds
<1>2. CacheGoesOn({l})
  BY <1>1, EndGoesOn
<1>3. ASSUME NEW f \in Fetches
      PROVE  /\ fetch'[f] \in Fetch
             /\ FetchFits(fetch[f])'
             /\ fetch'[f].at = "idle" <=> fetch[f].at = "idle"
             /\ fetch'[f].queue = fetch[f].queue
             /\ fetch'[f].target = fetch[f].target
             /\ fetch'[f].pic = fetch[f].pic
  <2>1. PICK y \in Fetch : y = fetch[f]
    BY <1>1 DEF FetchesInv
  <2>2. FetchFits(y)
    BY <1>1, <2>1 DEF FetchesInv
  <2>3. CASE y.src = l
    <3>1. PICK x : x = [y EXCEPT !.at = "answered", !.src = None]
      OBVIOUS
    <3>2. x \in Fetch /\ x.at = "answered" /\ x.src = None /\ x.queue = y.queue
          /\ x.target = y.target /\ x.pic = y.pic
      BY <3>1 DEF Fetch
    <3>3. l # None
      BY QueuesAssumption
    <3>4. y.at = "stream" /\ y.queue \in Queues /\ y.pic \in Pictures /\ Tried(y.pic)
      BY <2>2, <2>3, <3>3 DEF FetchFits
    <3>5. FetchFits(x)'
      BY <1>2, <3>2, <3>4 DEF FetchFits, CacheGoesOn
    <3>6. fetch'[f] = x
      BY <1>1, <2>1, <2>3, <3>1
    <3> QED  BY <2>1, <3>2, <3>4, <3>5, <3>6
  <2>4. CASE y.src # l
    <3>1. fetch'[f] = y
      BY <1>1, <2>1, <2>4
    <3>2. y.at = "stream" => y.src \in Loaders \ {l}
      BY <2>2, <2>4 DEF FetchFits, Fetch
    <3>3. FetchFits(y)'
      BY <1>2, <2>2, <3>2 DEF FetchFits, CacheGoesOn
    <3> QED  BY <2>1, <3>1, <3>3
  <2> QED  BY <2>3, <2>4
<1>4. fetch' \in [Fetches -> Fetch]
  BY <1>1, <1>3
<1> QED  BY <1>1, <1>2, <1>3, <1>4, MovesFit

(* The callback marks the entry of its own picture, and the queue, which   *)
(* has no other fetch, may begin the next.                                 *)
LEMMA CallbackFits ==
  ASSUME IInv, NEW f \in Fetches, Callback(f)
  PROVE  /\ IInv'
         /\ \A g \in Fetches : fetch'[g].at = "exists" /\ fetch'[g] # fetch[g] =>
              ~queue[fetch'[g].queue].canceled
<1>1. QueuesInv /\ FetchesInv /\ LoadedIsCached /\ fetch[f].at = "answered" /\ FetchFits(fetch[f])
  BY DEF IInv, FetchesInv, Callback
<1>2. PICK k \in Queues : k = fetch[f].queue
  BY <1>1 DEF FetchFits
<1>3. PICK i : i = fetch[f].target
  OBVIOUS
<1>4. PICK p \in Pictures : p = fetch[f].pic /\ Tried(p)
  BY <1>1 DEF FetchFits
<1>5. PICK q \in Queue : q = queue[k]
  BY <1>1 DEF QueuesInv
<1>6. FetchesIn(fetch, k) = {f} /\ QueueFits(k, q, fetch)
  BY <1>1, <1>2, <1>5 DEF QueuesInv, QueueFits, FetchesIn
<1>7. i \in DOMAIN q.items /\ p \in Given(i) /\ FromLists(q)
  BY <1>3, <1>4, <1>6 DEF QueueFits
<1>8. PICK m : m = Marked(q, i)
  OBVIOUS
<1>9. /\ m \in Queue /\ DOMAIN m.items = DOMAIN q.items /\ ~m.loading /\ m.canceled = q.canceled
      /\ \A j \in DOMAIN q.items : /\ m.items[j].pic = q.items[j].pic
                                   /\ m.items[j].loaded <=> j = i \/ q.items[j].loaded
  <2>1. PICK items \in Seq(Item) : items = [q.items EXCEPT ![i].loaded = TRUE]
    <3>1. q.items \in Seq(Item) /\ q.items[i] \in Item
      BY <1>7 DEF Queue
    <3>2. [q.items[i] EXCEPT !.loaded = TRUE] \in Item
      BY <3>1 DEF Item
    <3>3. [q.items EXCEPT ![i] = [@ EXCEPT !.loaded = TRUE]] \in Seq(Item)
      BY <1>7, <3>1, <3>2
    <3> QED  BY <3>3
  <2>2. /\ DOMAIN items = DOMAIN q.items
        /\ \A j \in DOMAIN q.items : /\ items[j].pic = q.items[j].pic
                                     /\ items[j].loaded <=> j = i \/ q.items[j].loaded
    BY <1>7, <2>1 DEF Queue, Item
  <2>3. m = [q EXCEPT !.items = items, !.loading = FALSE]
    BY <1>8, <2>1 DEF Marked
  <2> QED  BY <2>2, <2>3 DEF Queue
<1>10. PICK c : c = CheckStart(m)
  OBVIOUS
<1>11. /\ c \in Fill
       /\ c.q.items = m.items /\ c.q.canceled = m.canceled
       /\ c.start # 0 => /\ c.start \in DOMAIN m.items
                         /\ c.pic \in Given(c.start)
                         /\ c.q.loading /\ ~m.canceled
       /\ c.q.loading => c.start # 0 \/ Malformeds(m) # {}
  <2>1. FromLists(m)
    BY <1>7, <1>9 DEF FromLists
  <2> QED  BY <1>9, <1>10, <2>1, CheckStartKeeps
<1>12. PICK others : others = [fetch EXCEPT ![f] = IdleFetch]
  OBVIOUS
<1>13. Proceed(k, c.q, c.start, c.pic, others) /\ UNCHANGED <<cacheVars, shown>>
  BY <1>2, <1>3, <1>5, <1>8, <1>10, <1>12 DEF Callback
<1>14. /\ others \in [Fetches -> Fetch] /\ others[f] = IdleFetch
       /\ \A g \in Fetches \ {f} : others[g] = fetch[g]
  <2>1. IdleFetch \in Fetch
    BY DEF IdleFetch, Fetch
  <2> QED  BY <1>1, <1>12, <2>1 DEF FetchesInv
<1>15. \A g \in Fetches : FetchFits(others[g])
  <2>1. FetchFits(IdleFetch)
    BY DEF FetchFits, IdleFetch
  <2> QED  BY <1>1, <1>14, <2>1 DEF FetchesInv
<1>16. FetchesIn(others, k) = {}
  BY <1>6, <1>14 DEF FetchesIn, IdleFetch
<1>17. \A j \in Queues \ {k} : FetchesIn(others, j) = FetchesIn(fetch, j)
  BY <1>2, <1>14 DEF FetchesIn, IdleFetch
<1>18. FromLists(c.q) /\ Malformeds(c.q) = Malformeds(m)
  BY <1>7, <1>9, <1>11 DEF FromLists, Malformeds
<1>19. ASSUME NEW j \in DOMAIN c.q.items, c.q.items[j].loaded
       PROVE  \E g \in Given(j) : Tried(g)
  <2>1. (j = i \/ q.items[j].loaded) /\ j \in DOMAIN q.items
    BY <1>9, <1>11, <1>19
  <2> QED  BY <1>1, <1>4, <1>5, <1>7, <2>1 DEF LoadedIsCached
<1>20. c.start # 0 => c.start \in DOMAIN c.q.items
  BY <1>11
<1>21. /\ c.q \in Queue /\ c.start \in Nat
       /\ \A g \in Fetches : others[g].at = "idle" \/ others[g] = fetch[g]
       /\ \A j \in Queues : FetchesIn(others, j) \subseteq FetchesIn(fetch, j)
  BY <1>11, <1>14, <1>16, <1>17 DEF IdleFetch, Fill
<1>22. IInv'
  <2> HIDE DEF IInv
  <2> QED  BY <1>11, <1>13, <1>14, <1>15, <1>16, <1>17, <1>18, <1>19, <1>20, <1>21, ProceedFits
<1>23. ASSUME NEW g \in Fetches, fetch'[g].at = "exists", fetch'[g] # fetch[g]
       PROVE  ~queue[fetch'[g].queue].canceled
  <2>1. c.start # 0 /\ fetch'[g].queue = k
    BY <1>13, <1>14, <1>23 DEF Proceed, IdleFetch
  <2> QED  BY <1>5, <1>9, <1>11, <2>1
<1> QED  BY <1>22, <1>23

(* The plugin has listed pictures.                                         *)
LEMMA UpdateFits ==
  ASSUME IInv, NEW list \in Lists, Update(list)
  PROVE  /\ IInv'
         /\ \A g \in Fetches : fetch'[g].at = "exists" /\ fetch'[g] # fetch[g] =>
              ~queue[fetch'[g].queue].canceled
<1>1. QueuesInv /\ FetchesInv /\ LoadedIsCached
  BY DEF IInv
<1>2. PICK k \in Queues : k = shown
  BY <1>1 DEF Update, QueuesInv
<1>3. PICK q \in Queue : q = queue[k]
  BY <1>1 DEF QueuesInv
<1>4. QueueFits(k, q, fetch)
  BY <1>1, <1>3 DEF QueuesInv
<1>5. PICK acc : acc = Filling(q, list)[Len(list)]
  OBVIOUS
<1>6. Reached(q, acc)
  BY <1>4, <1>5, Filled DEF QueueFits
<1>7. Proceed(k, acc.q, acc.start, acc.pic, fetch) /\ UNCHANGED <<cacheVars, shown>>
  BY <1>2, <1>3, <1>5 DEF Update
<1>8. acc.q \in Queue /\ acc.start \in Nat /\ FromLists(acc.q)
  BY <1>6 DEF Reached, Fill
<1>9. \A f \in FetchesIn(fetch, k) : /\ fetch[f].target \in DOMAIN acc.q.items
                                     /\ fetch[f].pic \in Given(fetch[f].target)
  BY <1>4, <1>6 DEF QueueFits, Reached
<1>10. FetchesIn(fetch, k) # {} => q.loading /\ acc.q.loading
  BY <1>4, <1>6 DEF QueueFits, Reached
<1>11. acc.start # 0 => /\ ~q.loading /\ ~q.canceled /\ acc.q.loading
                        /\ acc.start \in DOMAIN acc.q.items
                        /\ acc.pic \in Given(acc.start)
  BY <1>6 DEF Reached
<1>12. acc.start # 0 => FetchesIn(fetch, k) = {}
  BY <1>10, <1>11
<1>13. acc.q.loading => FetchesIn(fetch, k) # {} \/ acc.start # 0 \/ Malformeds(acc.q) # {}
  <2>1. Malformeds(q) # {} => Malformeds(acc.q) # {}
    BY <1>6 DEF Reached, Malformeds
  <2> QED  BY <1>4, <1>6, <2>1 DEF QueueFits, Reached
<1>14. \A j \in DOMAIN acc.q.items : acc.q.items[j].loaded => \E g \in Given(j) : Tried(g)
  BY <1>1, <1>3, <1>6 DEF Reached, LoadedIsCached
<1>15. fetch \in [Fetches -> Fetch] /\ \A f \in Fetches : FetchFits(fetch[f])
  BY <1>1 DEF FetchesInv
<1>16. IInv'
  <2> HIDE DEF IInv
  <2> QED  BY <1>7, <1>8, <1>9, <1>10, <1>11, <1>12, <1>13, <1>14, <1>15, ProceedFits
<1>17. ASSUME NEW g \in Fetches, fetch'[g].at = "exists", fetch'[g] # fetch[g]
       PROVE  ~queue[fetch'[g].queue].canceled
  <2>1. acc.start # 0 /\ fetch'[g].queue = k
    BY <1>7, <1>15, <1>17 DEF Proceed
  <2> QED  BY <1>3, <1>11, <2>1
<1> QED  BY <1>16, <1>17

EmptyFits == EmptyQueue \in Queue /\ FromLists(EmptyQueue) /\ Malformeds(EmptyQueue) = {}

(* A new queue has nothing of the old one.                                 *)
LEMMA EmptyQueueFits == EmptyFits
<1>1. EmptyQueue \in Queue /\ EmptyQueue.items = <<>>
  BY DEF EmptyQueue, Queue
<1> QED  BY <1>1 DEF EmptyFits, FromLists, Malformeds

(* Queues are stopped, turned to another page, or begun anew where no      *)
(* fetch knows them.                                                       *)
LEMMA QueuesChange ==
  ASSUME IInv, UNCHANGED <<cacheVars, fetch>>,
         queue' \in [Queues -> Queue], shown' \in Queues \cup {None},
         \A k \in Queues :
           \/ queue'[k] = EmptyQueue /\ FetchesIn(fetch, k) = {}
           \/ queue'[k].items = queue[k].items /\ queue'[k].loading = queue[k].loading
  PROVE  IInv'
<1>1. /\ file' = file /\ entry' = entry /\ loader' = loader /\ view' = view /\ fetch' = fetch
      /\ CacheInv /\ QueuesInv /\ FetchesInv /\ LoadedIsCached
  BY DEF IInv, cacheVars
<1>2. CacheInv'
  BY <1>1 DEF CacheInv, CacheTypeOK, FilesInv, exist, Heard, LoadsPicture
<1>3. FetchesInv'
  BY <1>1 DEF FetchesInv, FetchFits, LoadsPicture, Tried, exist
<1>4. QueuesInv'
  <2> SUFFICES ASSUME NEW k \in Queues
               PROVE  QueueFits(k, queue[k], fetch)'
    BY DEF QueuesInv
  <2>1. QueueFits(k, queue[k], fetch)
    BY <1>1 DEF QueuesInv
  <2>2. CASE queue'[k] = EmptyQueue /\ FetchesIn(fetch, k) = {}
    <3>1. FetchesIn(fetch, k)' = {} /\ ~EmptyQueue.loading
      BY <1>1, <2>2 DEF FetchesIn, EmptyQueue
    <3>2. FromLists(queue[k])'
      BY <2>2, EmptyQueueFits DEF EmptyFits, FromLists
    <3> QED  BY <2>2, <3>1, <3>2 DEF QueueFits
  <2>3. CASE queue'[k].items = queue[k].items /\ queue'[k].loading = queue[k].loading
    <3>1. FetchesIn(fetch, k)' = FetchesIn(fetch, k)
      BY <1>1 DEF FetchesIn
    <3>2. FromLists(queue[k])' /\ Malformeds(queue[k])' = Malformeds(queue[k])
      BY <2>1, <2>3 DEF QueueFits, FromLists, Malformeds
    <3> QED  BY <1>1, <2>1, <2>3, <3>1, <3>2 DEF QueueFits
  <2> QED  BY <2>2, <2>3
<1>5. LoadedIsCached'
  <2> SUFFICES ASSUME NEW k \in Queues, NEW i \in DOMAIN queue'[k].items, queue'[k].items[i].loaded
               PROVE  \E g \in Given(i) : Tried(g)'
    BY DEF LoadedIsCached
  <2>1. queue'[k].items = queue[k].items
    BY DEF EmptyQueue
  <2>2. PICK g \in Given(i) : Tried(g)
    BY <1>1, <2>1 DEF LoadedIsCached
  <2> QED  BY <1>1, <2>2 DEF Tried, exist
<1> QED  BY <1>2, <1>3, <1>4, <1>5 DEF IInv

(* The reader's steps, which begin no fetch.                               *)
LEMMA ControllerFits ==
  ASSUME IInv,
         \/ \E page \in Pages : OnPage(page)
         \/ \E k \in Queues : Turn(k) \/ Open(k)
         \/ Close
  PROVE  IInv' /\ fetch' = fetch
<1>1. queue \in [Queues -> Queue] /\ shown \in Queues \cup {None}
  BY DEF IInv, QueuesInv
<1>2. EmptyQueue \in Queue
  BY EmptyQueueFits DEF EmptyFits
<1>3. ASSUME NEW page \in Pages, OnPage(page)
      PROVE  IInv' /\ fetch' = fetch
  <2>1. PICK k \in Queues : k = shown
    BY <1>1, <1>3 DEF OnPage
  <2>2. [queue[k] EXCEPT !.offset = page] \in Queue
    BY <1>1, PagesAssumption DEF Queue
  <2>3. queue' = [queue EXCEPT ![k] = [queue[k] EXCEPT !.offset = page]]
    BY <1>1, <1>3, <2>1 DEF OnPage
  <2>4. /\ queue' \in [Queues -> Queue]
        /\ \A j \in Queues : queue'[j].items = queue[j].items /\ queue'[j].loading = queue[j].loading
    BY <1>1, <2>2, <2>3 DEF Queue
  <2> QED  BY <1>1, <1>3, <2>4, QueuesChange DEF OnPage
<1>4. ASSUME NEW k \in Queues, Turn(k)
      PROVE  IInv' /\ fetch' = fetch
  <2>1. PICK old \in Queues : old = shown /\ old # k
    BY <1>1, <1>4 DEF Turn
  <2>2. PICK q \in Queue : q = Stop(queue[old])
    BY <1>1 DEF Stop, Queue
  <2>3. q.items = queue[old].items /\ q.loading = queue[old].loading
    BY <1>1, <2>2 DEF Stop, Queue
  <2>4. queue' = [queue EXCEPT ![old] = q, ![k] = EmptyQueue]
    BY <1>1, <1>4, <2>1, <2>2 DEF Turn
  <2>5. queue' \in [Queues -> Queue]
    BY <1>1, <1>2, <2>4
  <2>6. \A j \in Queues : \/ queue'[j] = EmptyQueue /\ j = k
                          \/ queue'[j].items = queue[j].items /\ queue'[j].loading = queue[j].loading
    BY <1>1, <2>1, <2>3, <2>4
  <2>7. FetchesIn(fetch, k) = {}
    BY <1>4 DEF Turn, FetchesOf, FetchesIn, Active
  <2> QED  BY <1>4, <2>5, <2>6, <2>7, QueuesChange DEF Turn
<1>5. ASSUME NEW k \in Queues, Open(k)
      PROVE  IInv' /\ fetch' = fetch
  <2>1. queue' = [queue EXCEPT ![k] = EmptyQueue] /\ FetchesIn(fetch, k) = {}
    BY <1>5 DEF Open, FetchesOf, FetchesIn, Active
  <2>2. queue' \in [Queues -> Queue]
    BY <1>1, <1>2, <2>1
  <2>3. \A j \in Queues : \/ queue'[j] = EmptyQueue /\ j = k
                          \/ queue'[j].items = queue[j].items /\ queue'[j].loading = queue[j].loading
    BY <1>1, <2>1
  <2> QED  BY <1>5, <2>1, <2>2, <2>3, QueuesChange DEF Open
<1>6. ASSUME Close
      PROVE  IInv' /\ fetch' = fetch
  BY <1>1, <1>6, QueuesChange DEF Close
<1> QED  BY <1>3, <1>4, <1>5, <1>6

(* After a restart there is nothing but the files.                         *)
LEMMA NothingFits ==
  ASSUME NEW d, d = [k \in Queues |-> EmptyQueue]
  PROVE  d \in [Queues -> Queue] /\ \A k \in Queues : d[k].items = <<>> /\ ~d[k].loading
<1>1. EmptyQueue \in Queue /\ EmptyQueue.items = <<>> /\ ~EmptyQueue.loading
  BY DEF EmptyQueue, Queue
<1> QED  BY <1>1

(* A program that has just started, whatever files it finds.               *)
Fresh ==
  /\ file \in [Pictures -> FileStates]
  /\ entry = [p \in Pictures |-> "none"]
  /\ loader = [l \in Loaders |-> IdleLoader]
  /\ view = [p \in Pictures |-> "closed"]
  /\ queue = [k \in Queues |-> EmptyQueue]
  /\ shown = None
  /\ fetch = [f \in Fetches |-> IdleFetch]

(* Such a program has the invariant.                                       *)
LEMMA FreshFits == Fresh => IInv
<1> SUFFICES ASSUME Fresh PROVE IInv
  OBVIOUS
<1>1. CacheInv
  <2>1. CacheTypeOK
    BY DEF Fresh, CacheTypeOK, IdleLoader, Phases
  <2>2. FilesInv
    BY DEF Fresh, FilesInv, IdleLoader
  <2>3. Heard
    BY LoadersAssumption DEF Fresh, Heard
  <2> QED  BY <2>1, <2>2, <2>3 DEF CacheInv
<1>2. queue \in [Queues -> Queue] /\ \A k \in Queues : queue[k].items = <<>> /\ ~queue[k].loading
  BY NothingFits DEF Fresh
<1>3. FetchesInv
  <2>1. IdleFetch \in Fetch /\ FetchFits(IdleFetch)
    BY DEF IdleFetch, Fetch, FetchFits
  <2> QED  BY <2>1 DEF Fresh, FetchesInv
<1>4. QueuesInv
  <2> SUFFICES ASSUME NEW k \in Queues
               PROVE  QueueFits(k, queue[k], fetch)
    BY <1>2 DEF QueuesInv, Fresh
  <2>1. FetchesIn(fetch, k) = {}
    BY DEF Fresh, FetchesIn, IdleFetch
  <2>2. FromLists(queue[k])
    BY <1>2 DEF FromLists
  <2> QED  BY <1>2, <2>1, <2>2 DEF QueueFits
<1>5. LoadedIsCached
  BY <1>2 DEF LoadedIsCached
<1> QED  BY <1>1, <1>3, <1>4, <1>5 DEF IInv

-----------------------------------------------------------------------------
(* The theorems.                                                           *)

(* The first start finds no files.                                         *)
LEMMA InitFits == Init => IInv
<1>1. Init => Fresh
  BY DEF Init, CacheInit, Fresh, FileStates
<1> QED  BY <1>1, FreshFits

(* Every step keeps the invariant, and begins a fetch for no queue that is *)
(* stopped.                                                                *)
LEMMA NextFits ==
  ASSUME IInv, Next
  PROVE  /\ IInv'
         /\ \A f \in Fetches : fetch'[f].at = "exists" /\ fetch'[f] # fetch[f] =>
              ~queue[fetch'[f].queue].canceled
<1> DEFINE Quiet == \A f \in Fetches : fetch'[f].at = "exists" /\ fetch'[f] # fetch[f] =>
                      ~queue[fetch'[f].queue].canceled
<1>1. CASE CacheStep /\ UNCHANGED queueVars
  <2>1. IInv'
    BY <1>1, CacheStepGoesOn, OthersGoOn DEF IInv
  <2> QED  BY <1>1, <2>1 DEF queueVars
<1>2. ASSUME NEW l \in Loaders, NEW o \in Outcomes, PictureEnds(l, o)
      PROVE  IInv' /\ Quiet
  <2>1. IInv'
    BY <1>2, PictureEndsFits
  <2>2. ASSUME NEW f \in Fetches, fetch'[f].at = "exists" PROVE fetch'[f] = fetch[f]
    <3>1. fetch[f] \in Fetch
      BY DEF IInv, FetchesInv
    <3> QED  BY <1>2, <2>2, <3>1 DEF PictureEnds, Fetch
  <2> QED  BY <2>1, <2>2
<1>3. CASE \E list \in Lists : Update(list)
  BY <1>3, UpdateFits
<1>4. CASE \/ \E page \in Pages : OnPage(page)
           \/ \E k \in Queues : Turn(k) \/ Open(k)
           \/ Close
  BY <1>4, ControllerFits
<1>5. ASSUME NEW f \in Fetches, Look(f)
      PROVE  IInv' /\ Quiet
  <2>1. IInv'
    BY <1>5, LookFits
  <2>2. ASSUME NEW g \in Fetches, fetch'[g].at = "exists" PROVE fetch'[g] = fetch[g]
    <3>1. fetch \in [Fetches -> Fetch]
      BY DEF IInv, FetchesInv
    <3> QED  BY <1>5, <2>2, <3>1 DEF Look, Fetch
  <2> QED  BY <2>1, <2>2
<1>6. CASE \E f \in Fetches : Callback(f)
  BY <1>6, CallbackFits
<1>7. CASE Restart
  <2>1. Fresh'
    BY <1>7 DEF Restart, CacheCrash, Fresh, IInv, CacheInv, CacheTypeOK
  <2>2. IInv'
    BY <2>1, FreshFits, PTL
  <2>3. \A f \in Fetches : fetch'[f].at # "exists"
    BY <1>7 DEF Restart, IdleFetch
  <2> QED  BY <2>2, <2>3
<1> QED  BY <1>1, <1>2, <1>3, <1>4, <1>5, <1>6, <1>7 DEF Next

(* What the invariant says of the properties the runs check.               *)
LEMMA IInvImplies ==
  ASSUME IInv
  PROVE  PreloadTypeOK /\ OneInFlight /\ LoadedIsCached /\ FetchesAreServed
<1>1. CacheInv /\ QueuesInv /\ FetchesInv /\ LoadedIsCached
  BY DEF IInv
<1>2. ASSUME NEW f \in Fetches
      PROVE  /\ FetchFits(fetch[f]) /\ fetch[f] \in Fetch
             /\ fetch[f].at # "idle" => /\ fetch[f].queue \in Queues
                                        /\ fetch[f].pic \in Pictures
                                        /\ f \in FetchesIn(fetch, fetch[f].queue)
  BY <1>1 DEF FetchesInv, FetchFits, FetchesIn
<1>3. \A k \in Queues : QueueFits(k, queue[k], fetch) /\ FetchesOf(k) = FetchesIn(fetch, k)
  BY <1>1 DEF QueuesInv, FetchesOf, FetchesIn, Active
<1>4. PreloadTypeOK
  <2>1. \A f \in Fetches : fetch[f].at # "idle" =>
          fetch[f].target \in DOMAIN queue[fetch[f].queue].items
    BY <1>2, <1>3 DEF QueueFits
  <2> QED  BY <1>1, <1>2, <2>1 DEF PreloadTypeOK, CacheInv, QueuesInv, FetchesInv
<1>5. OneInFlight
  BY <1>3 DEF OneInFlight, QueueFits, MayBeMalformed, Malformeds
<1>6. LoadedIsCached
  BY <1>1
<1>7. FetchesAreServed
  <2>1. ListenersAreServed
    BY <1>1 DEF CacheInv, Heard, ListenersAreServed
  <2>2. \A f \in Fetches : fetch[f].at = "stream" =>
          fetch[f].src \in Loaders /\ LoadsPicture(fetch[f].src, fetch[f].pic)
    BY <1>2 DEF FetchFits, Fetch
  <2> QED  BY <2>1, <2>2 DEF FetchesAreServed
<1> QED  BY <1>4, <1>5, <1>6, <1>7

(* The invariant holds of every state, and every step is quiet.            *)
LEMMA Invariance == Spec => []IInv /\ StoppedIsQuiet
<1>1. IInv /\ UNCHANGED vars => IInv'
  <2> SUFFICES ASSUME IInv, UNCHANGED vars PROVE IInv'
    OBVIOUS
  <2>1. /\ file' = file /\ entry' = entry /\ loader' = loader /\ view' = view
        /\ UNCHANGED queueVars /\ CacheInv
    BY DEF vars, cacheVars, IInv
  <2>2. CacheGoesOn({})
    BY <2>1
       DEF CacheGoesOn, CacheInv, CacheTypeOK, FilesInv, Heard, LoadsPicture, Tried, exist
  <2> QED  BY <2>1, <2>2, OthersGoOn
<1>2. IInv /\ [Next]_vars => IInv'
  BY <1>1, NextFits
<1>3. IInv /\ [Next]_vars =>
        [\A f \in Fetches : fetch'[f].at = "exists" /\ fetch'[f] # fetch[f] =>
           ~queue[fetch'[f].queue].canceled]_vars
  BY NextFits
<1> QED  BY InitFits, <1>2, <1>3, PTL DEF Spec, StoppedIsQuiet

(* The variables keep their types, and the fetch of a queue has an entry   *)
(* to mark when it ends (the index _checkStart's callback holds on to).    *)
THEOREM TypeCorrect == Spec => []PreloadTypeOK
  BY Invariance, IInvImplies, PTL

(* A queue has one picture in flight at most and waits exactly while it    *)
(* has, but for a URL that does not parse (_checkStart).                   *)
THEOREM OneInFlightHolds == Spec => []OneInFlight
  BY Invariance, IInvImplies, PTL

(* Where a queue takes an entry for loaded, a picture given there was      *)
(* tried: it is on disk, or has failed, or is being loaded again, whatever *)
(* is replaced, stopped, evicted or reloaded meanwhile (the callback of    *)
(* fetchImage).                                                            *)
THEOREM LoadedIsCachedHolds == Spec => []LoadedIsCached
  BY Invariance, IInvImplies, PTL

(* A fetch that waits has a load of its own picture behind it, however     *)
(* loads, widgets and queues interleave (getSingleFile).                   *)
THEOREM FetchesAreServedHolds == Spec => []FetchesAreServed
  BY Invariance, IInvImplies, PTL

(* No step begins a fetch for a queue that is stopped (stop).              *)
THEOREM StoppedIsQuietHolds == Spec => StoppedIsQuiet
  BY Invariance, PTL
=============================================================================
