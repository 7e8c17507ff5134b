------------------------ MODULE PictureReader_proofs ------------------------
(***************************************************************************)
(* The reader, for every book, size of chapter, number of processors and   *)
(* of loads that run at once: types, the neighbours held, one call for a   *)
(* processor, and saved lists that late answers do not spoil.              *)
(***************************************************************************)
EXTENDS PictureReader, TLAPS

(* A running load has listed what its processor holds and is not done; a   *)
(* whole list is complete; a processor shows as loading exactly while its  *)
(* one call runs. Stated for any processors and calls: LoadAll starts from *)
(* those an action has just made.                                          *)
CallsFit(pr, ca) ==
  /\ pr \in [Processors -> ProcessorRecord]
  /\ ca \in [Calls -> CallRecord]
  /\ \A r \in Calls : ca[r].proc # None =>
       ca[r].at = pr[ca[r].proc].pictures /\ ca[r].at < Size
  /\ \A p \in Processors : pr[p].pictures = Size => pr[p].complete
  /\ \A p \in Processors : pr[p].loading <=> \E r \in Calls : ca[r].proc = p
  /\ \A r, u \in Calls : ca[r].proc # None /\ ca[u].proc = ca[r].proc => u = r

(* The fields of a controller at chapter i: three objects, alive, of the   *)
(* right chapters, and no other processor is alive.                        *)
HeldFits(h, pr, i) ==
  /\ h \in [Slots -> Processors \cup {None}]
  /\ h["current"] \in Processors /\ pr[h["current"]].chapter = i
  /\ h["next"] = None <=> ~hasNext(i)
  /\ h["next"] # None => pr[h["next"]].chapter = i + 1
  /\ h["prev"] = None <=> ~hasPrev(i)
  /\ h["prev"] # None => pr[h["prev"]].chapter = i - 1
  /\ h["current"] # h["next"] /\ h["current"] # h["prev"]
  /\ h["next"] # None => h["next"] # h["prev"]
  /\ \A p \in Processors :
       ~pr[p].disposed <=> p = h["current"] \/ p = h["next"] \/ p = h["prev"]

(* A closed viewer holds nothing and leaves no processor alive.            *)
NothingHeld(h, pr) ==
  /\ h = [s \in Slots |-> None]
  /\ \A p \in Processors : pr[p].disposed

(* What LoadAll may do, without saying which processor it picks.           *)
Started(pr, ca, r) ==
  \/ proc' = pr /\ call' = ca
  \/ \E p \in Processors, t \in Stages :
       /\ Starts(pr, p)
       /\ proc' = [pr EXCEPT ![p].loading = TRUE]
       /\ call' = [ca EXCEPT ![r] = [proc |-> p, at |-> pr[p].pictures, then |-> t]]

(* The fields of a processor that starting a load leaves alone.            *)
SameBut(pr, qr) ==
  \A p \in Processors : /\ qr[p].chapter = pr[p].chapter
                        /\ qr[p].pictures = pr[p].pictures
                        /\ qr[p].complete = pr[p].complete
                        /\ qr[p].disposed = pr[p].disposed

(* The rest of _loadAll starts one call or none.                           *)
LEMMA LoadAllStarts ==
  ASSUME NEW pr, NEW ca, NEW h \in [Slots -> Processors \cup {None}],
         NEW s \in Stages, NEW r \in Calls, LoadAll(pr, ca, h, s, r)
  PROVE  Started(pr, ca, r)
<1>1. CASE proc' = pr /\ call' = ca
  BY <1>1 DEF Started
<1>2. CASE \E k \in s..3 :
             LET p == h[Order[k]] IN
             /\ Starts(pr, p)
             /\ proc' = [pr EXCEPT ![p].loading = TRUE]
             /\ call' = [ca EXCEPT ![r] =
                           [proc |-> p, at |-> pr[p].pictures, then |-> k + 1]]
  <2>1. PICK k \in s..3 :
             /\ Starts(pr, h[Order[k]])
             /\ proc' = [pr EXCEPT ![h[Order[k]]].loading = TRUE]
             /\ call' = [ca EXCEPT ![r] = [proc |-> h[Order[k]],
                           at |-> pr[h[Order[k]]].pictures, then |-> k + 1]]
    BY <1>2
  <2>2. k \in 1..3 /\ k + 1 \in Stages
    BY DEF Stages
  <2>3. Order[k] \in Slots
    BY <2>2 DEF Order, Slots
  <2>4. h[Order[k]] \in Processors
    BY <2>1, <2>3 DEF Starts
  <2> QED  BY <2>1, <2>2, <2>4 DEF Started
<1> QED  BY <1>1, <1>2 DEF LoadAll

(* Starting one load keeps the calls in order.                             *)
LEMMA StartedFits ==
  ASSUME NEW pr, NEW ca, NEW r \in Calls, CallsFit(pr, ca), ca[r].proc = None,
         Started(pr, ca, r)
  PROVE  CallsFit(proc', call') /\ SameBut(pr, proc')
<1>1. CASE proc' = pr /\ call' = ca
  BY <1>1 DEF CallsFit, SameBut
<1>2. CASE \E p \in Processors, t \in Stages :
             /\ Starts(pr, p)
             /\ proc' = [pr EXCEPT ![p].loading = TRUE]
             /\ call' = [ca EXCEPT ![r] = [proc |-> p, at |-> pr[p].pictures, then |-> t]]
  <2>1. PICK p \in Processors, t \in Stages :
             /\ Starts(pr, p)
             /\ proc' = [pr EXCEPT ![p].loading = TRUE]
             /\ call' = [ca EXCEPT ![r] = [proc |-> p, at |-> pr[p].pictures, then |-> t]]
    BY <1>2
  <2>2. pr \in [Processors -> ProcessorRecord] /\ ca \in [Calls -> CallRecord]
    BY DEF CallsFit
  <2>3. \A x \in ProcessorRecord : [x EXCEPT !.loading = TRUE] \in ProcessorRecord
    BY DEF ProcessorRecord
  <2>4. proc' \in [Processors -> ProcessorRecord]
    BY <2>1, <2>2, <2>3
  <2>5. SameBut(pr, proc')
    BY <2>1, <2>2 DEF SameBut, ProcessorRecord
  <2>6. pr[p].pictures \in 0..Size
    BY <2>2 DEF ProcessorRecord
  <2>7. [proc |-> p, at |-> pr[p].pictures, then |-> t] \in CallRecord
    BY <2>1, <2>6 DEF CallRecord
  <2>8. call' \in [Calls -> CallRecord]
    BY <2>1, <2>2, <2>7
  <2>9. p # None
    BY NoneAssumption
  <2>10. \A u \in Calls : ca[u].proc # p
    BY <2>1 DEF CallsFit, Starts
  <2>11. pr[p].pictures < Size
    <3>1. pr[p].pictures = Size => FALSE
      BY <2>1, SizeAssumption DEF CallsFit, Starts
    <3> QED  BY <3>1, <2>6, SizeAssumption
  <2>12. \A u \in Calls : /\ u # r => call'[u] = ca[u]
                          /\ call'[r].proc = p /\ call'[r].at = pr[p].pictures
    BY <2>1, <2>2
  <2>13. \A u \in Calls : call'[u].proc # None =>
           call'[u].at = proc'[call'[u].proc].pictures /\ call'[u].at < Size
    BY <2>2, <2>5, <2>11, <2>12 DEF CallsFit, SameBut, CallRecord
  <2>14. \A q \in Processors : proc'[q].pictures = Size => proc'[q].complete
    BY <2>5 DEF CallsFit, SameBut
  <2>15. \A q \in Processors : proc'[q].loading <=> \E u \in Calls : call'[u].proc = q
    <3> SUFFICES ASSUME NEW q \in Processors
                 PROVE  proc'[q].loading <=> \E u \in Calls : call'[u].proc = q
      OBVIOUS
    <3>1. CASE q = p
      BY <3>1, <2>1, <2>2, <2>12 DEF ProcessorRecord
    <3>2. CASE q # p
      <4>1. proc'[q] = pr[q]
        BY <3>2, <2>1, <2>2
      <4>2. q # None
        BY NoneAssumption
      <4>3. (\E u \in Calls : call'[u].proc = q) <=> \E u \in Calls : ca[u].proc = q
        BY <3>2, <2>12, <4>2
      <4> QED  BY <4>1, <4>3 DEF CallsFit
    <3> QED  BY <3>1, <3>2
  <2>16. \A v, u \in Calls : call'[v].proc # None /\ call'[u].proc = call'[v].proc => u = v
    BY <2>10, <2>12 DEF CallsFit
  <2> QED  BY <2>4, <2>5, <2>8, <2>13, <2>14, <2>15, <2>16 DEF CallsFit
<1> QED  BY <1>1, <1>2 DEF Started

-----------------------------------------------------------------------------
(* The inductive invariant.                                                *)

PlainTypes ==
  /\ open \in BOOLEAN
  /\ currentIndex \in Indexes
  /\ row \in [Indexes -> Row]
  /\ spinner \in BOOLEAN
  /\ queue \subseteq Indexes \X (1..Size)
  /\ last \in Indexes \cup {None}

(* A whole list is never saved as incomplete.                              *)
WholeRowIsComplete == \A i \in Indexes : row[i].list = Size => row[i].complete

HeldInv ==
  IF open THEN HeldFits(held, proc, currentIndex) /\ last = currentIndex
          ELSE NothingHeld(held, proc)

Inv ==
  /\ PlainTypes
  /\ CallsFit(proc, call)
  /\ WholeRowIsComplete
  /\ HeldInv

(* The types of what the controller holds,                                 *)
LEMMA HeldTyped == Inv => held \in [Slots -> Processors \cup {None}]
BY DEF Inv, HeldInv, HeldFits, NothingHeld

(* of an identity that is free,                                            *)
LEMMA UnusedTyped == Unused \in ProcessorRecord
BY LengthAssumption, SizeAssumption DEF Unused, ProcessorRecord, Indexes

(* and of a processor that is new.                                         *)
LEMMA OpenedTyped ==
  ASSUME PlainTypes, NEW i \in Indexes
  PROVE  Opened(i) \in ProcessorRecord
BY DEF PlainTypes, Opened, ProcessorRecord, Row

(* A new processor takes a free identity other than those taken.           *)
LEMMA NewIsFree ==
  ASSUME NEW ps, NEW p \in Processors \ ps, Free(p)
  PROVE  New(ps) \in Processors /\ New(ps) \notin ps /\ Free(New(ps))
BY DEF New

(* No call runs for a free identity.                                       *)
LEMMA FreeIsQuiet ==
  ASSUME Inv, NEW p \in Processors, Free(p)
  PROVE  proc[p].disposed /\ \A r \in Calls : call[r].proc # p
BY DEF Inv, CallsFit, Free, Unused

(* What an action of the viewer does to a processor: nothing, open one     *)
(* under a free identity, or dispose it.                                   *)
MadeFrom(pr) ==
  /\ pr = [p \in Processors |-> pr[p]]
  /\ \A p \in Processors :
       \/ pr[p] = proc[p]
       \/ Free(p) /\ \E i \in Indexes : pr[p] = Opened(i)
       \/ pr[p] = Dispose(p)

(* The processors after the step are ones an action of the viewer made.    *)
ViewerMade == \E pr : MadeFrom(pr) /\ SameBut(pr, proc')

(* What is alive after the step was alive before, and is as it was, or as  *)
(* the end of a call of p left it.                                         *)
AliveFrom(p, list, complete) ==
  \A q \in Processors : ~proc'[q].disposed =>
    /\ ~proc[q].disposed /\ proc'[q].chapter = proc[q].chapter
    /\ q # p => proc'[q].pictures = proc[q].pictures /\ proc'[q].complete = proc[q].complete
    /\ q = p => proc'[q].pictures = list /\ proc'[q].complete = complete

(* What is left of a processor that is disposed.                           *)
LEMMA DisposeTyped ==
  ASSUME Inv, NEW p \in Processors
  PROVE  /\ Dispose(p) \in ProcessorRecord
         /\ Dispose(p).disposed
         /\ Dispose(p).pictures = Size => Dispose(p).complete
         /\ Dispose(p).loading <=> \E r \in Calls : call[r].proc = p
         /\ (\E r \in Calls : call[r].proc = p) => Dispose(p).pictures = proc[p].pictures
<1>1. proc \in [Processors -> ProcessorRecord]
  BY DEF Inv, CallsFit
<1>2. CASE \E r \in Calls : Runs(r, p)
  <2>1. Dispose(p) = [proc[p] EXCEPT !.disposed = TRUE]
    BY <1>2 DEF Dispose
  <2>2. proc[p].loading /\ (proc[p].pictures = Size => proc[p].complete)
    BY <1>2 DEF Inv, CallsFit, Runs
  <2> QED  BY <1>1, <1>2, <2>1, <2>2 DEF Runs, ProcessorRecord
<1>3. CASE ~\E r \in Calls : Runs(r, p)
  BY <1>3, UnusedTyped, SizeAssumption DEF Dispose, Unused, Runs
<1> QED  BY <1>2, <1>3

(* Processors made and disposed leave the running calls in order.          *)
LEMMA MadeFits ==
  ASSUME Inv, NEW pr, MadeFrom(pr)
  PROVE  CallsFit(pr, call)
<1>1. proc \in [Processors -> ProcessorRecord] /\ call \in [Calls -> CallRecord]
  BY DEF Inv, CallsFit
<1>2. \A p \in Processors :
        /\ pr[p] \in ProcessorRecord
        /\ pr[p].pictures = Size => pr[p].complete
        /\ pr[p].loading <=> \E r \in Calls : call[r].proc = p
        /\ (\E r \in Calls : call[r].proc = p) => pr[p].pictures = proc[p].pictures
  <2> SUFFICES ASSUME NEW p \in Processors
               PROVE  /\ pr[p] \in ProcessorRecord
                      /\ pr[p].pictures = Size => pr[p].complete
                      /\ pr[p].loading <=> \E r \in Calls : call[r].proc = p
                      /\ (\E r \in Calls : call[r].proc = p) =>
                           pr[p].pictures = proc[p].pictures
    OBVIOUS
  <2>1. CASE pr[p] = proc[p]
    BY <1>1, <2>1 DEF Inv, CallsFit
  <2>2. CASE Free(p) /\ \E i \in Indexes : pr[p] = Opened(i)
    <3>1. PICK i \in Indexes : pr[p] = Opened(i)
      BY <2>2
    <3>2. ~\E r \in Calls : call[r].proc = p
      BY <2>2, FreeIsQuiet
    <3>3. ~pr[p].loading /\ (pr[p].pictures = Size => pr[p].complete)
      BY <3>1 DEF Opened, Inv, WholeRowIsComplete
    <3>4. pr[p] \in ProcessorRecord
      BY <3>1, OpenedTyped DEF Inv
    <3> QED  BY <3>2, <3>3, <3>4
  <2>3. CASE pr[p] = Dispose(p)
    BY <2>3, DisposeTyped
  <2> QED  BY <2>1, <2>2, <2>3 DEF MadeFrom
<1>3. pr \in [Processors -> ProcessorRecord]
  BY <1>2 DEF MadeFrom
<1>4. \A r \in Calls : call[r].proc # None =>
        call[r].at = pr[call[r].proc].pictures /\ call[r].at < Size
  BY <1>1, <1>2 DEF Inv, CallsFit, CallRecord
<1> QED  BY <1>1, <1>2, <1>3, <1>4 DEF Inv, CallsFit

(* A controller's fields fit as well when a load has been started.         *)
LEMMA HeldAfterStart ==
  ASSUME NEW h, NEW i, NEW pr, HeldFits(h, pr, i), SameBut(pr, proc')
  PROVE  HeldFits(h, proc', i)
BY NoneAssumption DEF HeldFits, SameBut, Slots
-----------------------------------------------------------------------------
(* The actions of the viewer.                                              *)

(* Opening: three free identities give a processor for the chapter and one *)
(* for each neighbour it has.                                              *)
LEMMA OpenStep ==
  ASSUME Inv, NEW i \in Indexes, NEW r \in Calls, Open(i, r)
  PROVE  Inv' /\ ViewerMade
<1> DEFINE c == New({})
           n == IF hasNext(i) THEN New({c}) ELSE None
           v == IF hasPrev(i) THEN New({c, n}) ELSE None
           made == [p \in Processors |->
                      CASE p = c -> Opened(i)
                        [] p = n -> Opened(i + 1)
                        [] p = v -> Opened(i - 1)
                        [] OTHER -> proc[p]]
           h == [current |-> c, next |-> n, prev |-> v]
<1>1. PICK a, b, d \in Processors :
        a # b /\ b # d /\ d # a /\ Free(a) /\ Free(b) /\ Free(d)
  BY DEF Open
<1>2. c \in Processors /\ Free(c)
  BY <1>1, NewIsFree
<1>3. hasNext(i) => n \in Processors /\ Free(n) /\ n # c
  <2>1. \E p \in Processors \ {c} : Free(p)
    BY <1>1
  <2> QED  BY <2>1, NewIsFree
<1>4. hasPrev(i) => v \in Processors /\ Free(v) /\ v # c /\ v # n
  <2>1. \E p \in Processors \ {c, n} : Free(p)
    BY <1>1
  <2> QED  BY <2>1, NewIsFree
<1>5. (~hasNext(i) => n = None) /\ (~hasPrev(i) => v = None)
  OBVIOUS
<1> HIDE DEF c, n, v
<1>6. /\ open' = TRUE /\ currentIndex' = i /\ last' = i /\ held' = h /\ queue' = {}
      /\ row' = row /\ ~open /\ Idle(r) /\ spinner' = proc'[c].loading
      /\ LoadAll(made, call, h, 1, r)
  BY DEF Open, c, n, v
<1>7. /\ hasNext(i) => i + 1 \in Indexes
      /\ hasPrev(i) => i - 1 \in Indexes
  BY LengthAssumption DEF hasNext, hasPrev, Indexes
<1>8. h \in [Slots -> Processors \cup {None}]
  BY <1>2, <1>3, <1>4, <1>5 DEF Slots
<1>9. MadeFrom(made)
  <2>1. made = [p \in Processors |-> made[p]]
    OBVIOUS
  <2>3. /\ made[c] = Opened(i)
        /\ hasNext(i) => made[n] = Opened(i + 1)
        /\ hasPrev(i) => made[v] = Opened(i - 1)
    BY <1>2, <1>3, <1>4, <1>5, NoneAssumption
  <2>2. ASSUME NEW p \in Processors
        PROVE  \/ made[p] = proc[p]
               \/ Free(p) /\ \E j \in Indexes : made[p] = Opened(j)
    <3>1. CASE p = c
      BY <3>1, <1>2, <2>3
    <3>2. CASE p = n
      BY <3>2, <1>3, <1>5, <1>7, <2>3, NoneAssumption
    <3>3. CASE p = v
      BY <3>3, <1>4, <1>5, <1>7, <2>3, NoneAssumption
    <3>4. CASE p # c /\ p # n /\ p # v
      <4>1. made[p] = proc[p]
        BY <3>4
      <4> QED  BY <4>1
    <3> QED  BY <3>1, <3>2, <3>3, <3>4
  <2> QED  BY <2>1, <2>2 DEF MadeFrom
<1>10. CallsFit(made, call)
  BY <1>9, MadeFits
<1>11. HeldFits(h, made, i)
  <2>1. made[c] = Opened(i)
    BY <1>2, <1>3, <1>4, <1>5, NoneAssumption
  <2>2. hasNext(i) => made[n] = Opened(i + 1)
    BY <1>3, <1>4, <1>5, NoneAssumption
  <2>3. hasPrev(i) => made[v] = Opened(i - 1)
    BY <1>3, <1>4, <1>5, NoneAssumption
  <2>4. \A p \in Processors : p # c /\ p # n /\ p # v => made[p].disposed
    BY <1>6 DEF Inv, HeldInv, NothingHeld
  <2> QED  BY <1>2, <1>3, <1>4, <1>5, <1>8, <2>1, <2>2, <2>3, <2>4, NoneAssumption
           DEF HeldFits, Opened
<1> HIDE DEF made, h
<1>12. Started(made, call, r)
  BY <1>6, <1>8, LoadAllStarts DEF Stages
<1>13. CallsFit(proc', call') /\ SameBut(made, proc')
  BY <1>6, <1>10, <1>12, StartedFits DEF Idle
<1>14. HeldFits(held', proc', currentIndex')
  BY <1>6, <1>11, <1>13, HeldAfterStart
<1>15. spinner' \in BOOLEAN
  BY <1>2, <1>6, <1>13 DEF CallsFit, ProcessorRecord
<1>16. ViewerMade
  BY <1>9, <1>13 DEF ViewerMade
<1>17. Inv'
  BY <1>6, <1>13, <1>14, <1>15 DEF Inv, PlainTypes, WholeRowIsComplete, HeldInv
<1> QED  BY <1>16, <1>17

(* The two directions of a page turn.                                      *)
Turns(step, to, back, more) ==
  \/ /\ step = 1 /\ to = "next" /\ back = "prev"
     /\ hasNext(currentIndex) /\ more = hasNext(currentIndex + 1)
  \/ /\ step = -1 /\ to = "prev" /\ back = "next"
     /\ hasPrev(currentIndex) /\ more = hasPrev(currentIndex - 1)

(* A page turn: the processor on the far side goes, the others move, and   *)
(* the new neighbour gets one under a free identity.                       *)
LEMMA TurnStep ==
  ASSUME Inv, NEW r \in Calls, NEW step, NEW to, NEW back, NEW more,
         Turns(step, to, back, more), Turn(step, to, back, more, r)
  PROVE  Inv' /\ ViewerMade
<1> DEFINE i == currentIndex + step
           q == IF more THEN New({}) ELSE None
           made == [p \in Processors |->
                      CASE p = q -> Opened(i + step)
                        [] p = held[back] -> Dispose(p)
                        [] OTHER -> proc[p]]
           h == [held EXCEPT !["current"] = held[to], ![back] = held["current"], ![to] = q]
<1>1. /\ open /\ Idle(r) /\ currentIndex' = i /\ held' = h
      /\ last' = i /\ open' = open /\ row' = row /\ spinner' = spinner /\ queue' = {}
      /\ LoadAll(made, call, h, 1, r)
      /\ \E p \in Processors : Free(p)
  BY DEF Turn, Shifted, NewQueue
<1>2. HeldFits(held, proc, currentIndex) /\ currentIndex \in Indexes
  BY <1>1 DEF Inv, HeldInv, PlainTypes
<1>3. /\ i \in Indexes /\ i \in Int /\ i - step = currentIndex
      /\ more => i + step \in Indexes
      /\ step = 1 => hasPrev(i) /\ more = hasNext(i)
      /\ step = -1 => hasNext(i) /\ more = hasPrev(i)
  <2>1. CASE step = 1
    <3>1. hasNext(currentIndex) /\ more = hasNext(currentIndex + 1)
      BY <2>1 DEF Turns
    <3>2. more = hasNext(i)
      BY <2>1, <3>1
    <3>3. /\ i \in Indexes /\ i \in Int /\ i - step = currentIndex
          /\ hasNext(i) => i + step \in Indexes
          /\ hasPrev(i)
      BY <1>2, <2>1, <3>1, LengthAssumption DEF hasNext, hasPrev, Indexes
    <3> QED  BY <2>1, <3>2, <3>3
  <2>2. CASE step = -1
    <3>1. hasPrev(currentIndex) /\ more = hasPrev(currentIndex - 1)
      BY <2>2 DEF Turns
    <3>2. i = currentIndex - 1 /\ i + step = currentIndex - 2
      BY <1>2, <2>2, LengthAssumption DEF Indexes
    <3>3. more = hasPrev(i)
      BY <3>1, <3>2
    <3>4. /\ i \in Indexes /\ i \in Int /\ i - step = currentIndex
          /\ hasPrev(i) => i + step \in Indexes
          /\ hasNext(i)
      BY <1>2, <2>2, <3>1, <3>2, LengthAssumption DEF hasNext, hasPrev, Indexes
    <3> QED  BY <2>2, <3>3, <3>4
  <2> QED  BY <2>1, <2>2 DEF Turns
<1>4. to \in Slots /\ back \in Slots /\ to # back /\ to # "current" /\ back # "current"
  BY DEF Turns, Slots
<1>5. /\ held["current"] \in Processors /\ held[to] \in Processors
      /\ held[back] \in Processors \cup {None}
      /\ held["current"] # held[to] /\ held["current"] # held[back] /\ held[to] # held[back]
      /\ proc[held[to]].chapter = i
      /\ proc[held["current"]].chapter = i - step
      /\ \A p \in Processors :
           ~proc[p].disposed <=> p = held["current"] \/ p = held[to] \/ p = held[back]
  BY <1>2, <1>3, <1>4, NoneAssumption DEF HeldFits, Turns, Slots
<1>6. (more => q \in Processors /\ Free(q)) /\ (~more => q = None)
  BY <1>1, NewIsFree
<1> HIDE DEF q
<1>7. q \in Processors \cup {None}
  BY <1>6
<1>8. q # None => q # held[to] /\ q # held["current"] /\ q # held[back]
  BY <1>5, <1>6, FreeIsQuiet
<1>9. h \in [Slots -> Processors \cup {None}]
  BY <1>2, <1>5, <1>7 DEF HeldFits
<1>10. h["current"] = held[to] /\ h[back] = held["current"] /\ h[to] = q
  BY <1>2, <1>4 DEF HeldFits, Slots
<1>11. MadeFrom(made)
  <2>1. made = [p \in Processors |-> made[p]]
    OBVIOUS
  <2>2. ASSUME NEW p \in Processors
        PROVE  \/ made[p] = proc[p]
               \/ Free(p) /\ \E j \in Indexes : made[p] = Opened(j)
               \/ made[p] = Dispose(p)
    BY <1>3, <1>6, NoneAssumption
  <2> QED  BY <2>1, <2>2 DEF MadeFrom
<1>12. CallsFit(made, call)
  BY <1>11, MadeFits
<1>13. HeldFits(h, made, i)
  <2>1. made[held[to]] = proc[held[to]] /\ made[held["current"]] = proc[held["current"]]
    BY <1>5, <1>8, NoneAssumption
  <2>2. q # None => made[q] = Opened(i + step)
    BY <1>7, <1>8
  <2>3. held[back] # None => made[held[back]].disposed
    BY <1>5, <1>8, DisposeTyped
  <2>4. \A p \in Processors : p # q /\ p # held[back] => made[p] = proc[p]
    OBVIOUS
  <2>5. q # None => ~made[q].disposed /\ made[q].chapter = i + step
    BY <2>2 DEF Opened
  <2>6. \A p \in Processors :
          ~made[p].disposed <=> p = held[to] \/ p = held["current"] \/ p = q
    BY <1>5, <1>8, <2>1, <2>3, <2>4, <2>5, NoneAssumption
  <2>7. made[held[to]].chapter = i /\ made[held["current"]].chapter = i - step
    BY <1>5, <2>1
  <2> HIDE DEF made, h, i
  <2>8. (q = None <=> ~more) /\ held["current"] # None /\ held[to] # None
    BY <1>5, <1>6, NoneAssumption
  <2>9. CASE step = 1
    <3>1. to = "next" /\ back = "prev"
      BY <2>9 DEF Turns
    <3> QED  BY <3>1, <2>9, <1>3, <1>5, <1>8, <1>9, <1>10, <2>5, <2>6, <2>7, <2>8
             DEF HeldFits
  <2>10. CASE step = -1
    <3>1. to = "prev" /\ back = "next"
      BY <2>10 DEF Turns
    <3>2. i + step = i - 1 /\ i - step = i + 1
      BY <1>3, <2>10
    <3> QED  BY <3>1, <3>2, <2>10, <1>3, <1>5, <1>8, <1>9, <1>10, <2>5, <2>6, <2>7, <2>8
             DEF HeldFits
  <2> QED  BY <2>9, <2>10 DEF Turns
<1> HIDE DEF made, h, i
<1>14. Started(made, call, r)
  BY <1>1, <1>9, LoadAllStarts DEF Stages
<1>15. CallsFit(proc', call') /\ SameBut(made, proc')
  BY <1>1, <1>12, <1>14, StartedFits DEF Idle
<1>16. HeldFits(held', proc', currentIndex')
  BY <1>1, <1>13, <1>15, HeldAfterStart
<1>17. ViewerMade
  BY <1>11, <1>15 DEF ViewerMade
<1>18. Inv'
  BY <1>1, <1>3, <1>15, <1>16 DEF Inv, PlainTypes, WholeRowIsComplete, HeldInv
<1> QED  BY <1>17, <1>18

(* Closing disposes all that was held.                                     *)
LEMMA CloseStep ==
  ASSUME Inv, Close
  PROVE  Inv' /\ \A p \in Processors : proc'[p].disposed
<1>1. /\ open /\ open' = FALSE /\ held' = [s \in Slots |-> None] /\ spinner' = FALSE
      /\ currentIndex' = currentIndex /\ row' = row /\ queue' = queue /\ last' = last
      /\ call' = [r \in Calls |-> [call[r] EXCEPT !.then = 4]]
      /\ proc' = [p \in Processors |->
                    IF \E s \in Slots : held[s] = p THEN Dispose(p) ELSE proc[p]]
  BY DEF Close
<1>2. HeldFits(held, proc, currentIndex)
  BY <1>1 DEF Inv, HeldInv
<1>3. MadeFrom(proc')
  BY <1>1 DEF MadeFrom
<1>4. CallsFit(proc', call)
  BY <1>3, MadeFits
<1>5. \A x \in CallRecord : [x EXCEPT !.then = 4] \in CallRecord
  BY DEF CallRecord, Stages
<1>6. call \in [Calls -> CallRecord]
  BY <1>4 DEF CallsFit
<1>7. call' \in [Calls -> CallRecord]
  BY <1>1, <1>5, <1>6
<1>8. \A r \in Calls : call'[r].proc = call[r].proc /\ call'[r].at = call[r].at
  BY <1>1, <1>6 DEF CallRecord
<1>9. CallsFit(proc', call')
  BY <1>4, <1>7, <1>8 DEF CallsFit
<1>10. \A p \in Processors : proc'[p].disposed
  BY <1>1, <1>2, DisposeTyped DEF HeldFits, Slots
<1>11. Inv'
  BY <1>1, <1>9, <1>10 DEF Inv, PlainTypes, WholeRowIsComplete, HeldInv, NothingHeld
<1> QED  BY <1>10, <1>11
-----------------------------------------------------------------------------
(* The plugin's answers.                                                   *)

(* So does the end of a call.                                              *)
LEMMA EndedFits ==
  ASSUME Inv, NEW r \in Calls, ~Idle(r), NEW after \in ProcessorRecord,
         after.pictures = Size => after.complete
  PROVE  CallsFit(Ended(call[r].proc, after), [call EXCEPT ![r] = IdleCall])
<1> DEFINE p == call[r].proc
           pr == Ended(p, after)
           ca == [call EXCEPT ![r] = IdleCall]
<1>1. proc \in [Processors -> ProcessorRecord] /\ call \in [Calls -> CallRecord]
  BY DEF Inv, CallsFit
<1>2. p \in Processors
  BY <1>1 DEF Idle, CallRecord
<1>3. IdleCall \in CallRecord
  BY SizeAssumption DEF IdleCall, CallRecord, Stages
<1>4. ca \in [Calls -> CallRecord] /\ ca[r].proc = None
  BY <1>1, <1>3 DEF IdleCall
<1>5. [after EXCEPT !.loading = FALSE] \in ProcessorRecord
  BY DEF ProcessorRecord
<1>6. pr \in [Processors -> ProcessorRecord]
  BY <1>1, <1>5, UnusedTyped DEF Ended
<1>7. ~pr[p].loading /\ (pr[p].pictures = Size => pr[p].complete)
  <2>1. CASE after.disposed
    BY <1>1, <1>2, <2>1, SizeAssumption DEF Ended, Unused
  <2>2. CASE ~after.disposed
    <3>1. pr[p] = [after EXCEPT !.loading = FALSE]
      BY <1>1, <1>2, <2>2 DEF Ended
    <3> QED  BY <3>1 DEF ProcessorRecord
  <2> QED  BY <2>1, <2>2
<1>8. \A q \in Processors : q # p => pr[q] = proc[q]
  BY <1>1 DEF Ended
<1>9. \A u \in Calls : u # r => ca[u] = call[u] /\ ca[u].proc # p
  BY <1>1, <1>2, NoneAssumption DEF Inv, CallsFit
<1> HIDE DEF pr, ca, p
<1>10. \A u \in Calls : ca[u].proc # None =>
         ca[u].at = pr[ca[u].proc].pictures /\ ca[u].at < Size
  BY <1>1, <1>4, <1>8, <1>9 DEF Inv, CallsFit, CallRecord
<1>11. \A q \in Processors : pr[q].pictures = Size => pr[q].complete
  BY <1>7, <1>8 DEF Inv, CallsFit
<1>12. \A q \in Processors : pr[q].loading <=> \E u \in Calls : ca[u].proc = q
  <2> SUFFICES ASSUME NEW q \in Processors
               PROVE  pr[q].loading <=> \E u \in Calls : ca[u].proc = q
    OBVIOUS
  <2>1. CASE q = p
    BY <2>1, <1>4, <1>7, <1>9, NoneAssumption
  <2>2. CASE q # p
    <3>1. (\E u \in Calls : ca[u].proc = q) <=> \E u \in Calls : call[u].proc = q
      BY <2>2, <1>4, <1>9, NoneAssumption DEF p
    <3> QED  BY <2>2, <3>1, <1>8 DEF Inv, CallsFit
  <2> QED  BY <2>1, <2>2
<1>13. \A v, u \in Calls : ca[v].proc # None /\ ca[u].proc = ca[v].proc => u = v
  BY <1>4, <1>9 DEF Inv, CallsFit
<1>14. CallsFit(pr, ca)
  BY <1>4, <1>6, <1>10, <1>11, <1>12, <1>13 DEF CallsFit
<1> QED  BY <1>14 DEF pr, ca, p

(* The end of a call disturbs no field the controller relies on.           *)
LEMMA EndedHeld ==
  ASSUME Inv, NEW r \in Calls, ~Idle(r), NEW after \in ProcessorRecord,
         after.chapter = proc[call[r].proc].chapter,
         after.disposed = proc[call[r].proc].disposed
  PROVE  \A q \in Processors :
           /\ Ended(call[r].proc, after)[q].disposed = proc[q].disposed
           /\ ~proc[q].disposed =>
                /\ Ended(call[r].proc, after)[q].chapter = proc[q].chapter
                /\ q # call[r].proc => Ended(call[r].proc, after)[q] = proc[q]
                /\ q = call[r].proc =>
                     /\ Ended(call[r].proc, after)[q].pictures = after.pictures
                     /\ Ended(call[r].proc, after)[q].complete = after.complete
<1>1. proc \in [Processors -> ProcessorRecord] /\ call \in [Calls -> CallRecord]
  BY DEF Inv, CallsFit
<1>2. call[r].proc \in Processors
  BY <1>1 DEF Idle, CallRecord
<1>3. CASE after.disposed
  BY <1>1, <1>2, <1>3 DEF Ended, Unused, ProcessorRecord
<1>4. CASE ~after.disposed
  BY <1>1, <1>2, <1>4 DEF Ended, ProcessorRecord
<1> QED  BY <1>3, <1>4

(* Those alive after the end of a call were alive before, and only the one *)
(* of the call has another list.                                           *)
LEMMA EndedAlive ==
  ASSUME Inv, NEW r \in Calls, ~Idle(r), NEW after \in ProcessorRecord,
         after.chapter = proc[call[r].proc].chapter,
         after.disposed = proc[call[r].proc].disposed,
         SameBut(Ended(call[r].proc, after), proc')
  PROVE  AliveFrom(call[r].proc, after.pictures, after.complete)
<1> SUFFICES ASSUME NEW q \in Processors, ~proc'[q].disposed
             PROVE  /\ ~proc[q].disposed /\ proc'[q].chapter = proc[q].chapter
                    /\ q # call[r].proc => /\ proc'[q].pictures = proc[q].pictures
                                           /\ proc'[q].complete = proc[q].complete
                    /\ q = call[r].proc => /\ proc'[q].pictures = after.pictures
                                           /\ proc'[q].complete = after.complete
  BY DEF AliveFrom
<1> DEFINE e == Ended(call[r].proc, after)[q]
<1>1. /\ proc'[q].chapter = e.chapter /\ proc'[q].disposed = e.disposed
      /\ proc'[q].pictures = e.pictures /\ proc'[q].complete = e.complete
  BY DEF SameBut
<1>2. /\ e.disposed = proc[q].disposed
      /\ ~proc[q].disposed =>
           /\ e.chapter = proc[q].chapter
           /\ q # call[r].proc => e = proc[q]
           /\ q = call[r].proc => e.pictures = after.pictures /\ e.complete = after.complete
  BY EndedHeld
<1> HIDE DEF e
<1> QED  BY <1>1, <1>2

(* HeldInv needs of the processors only which are alive, and their         *)
(* chapters.                                                               *)
LEMMA HeldKept ==
  ASSUME Inv, open' = open, held' = held, currentIndex' = currentIndex, last' = last,
         \A q \in Processors :
           /\ proc'[q].disposed = proc[q].disposed
           /\ ~proc[q].disposed => proc'[q].chapter = proc[q].chapter
  PROVE  HeldInv'
<1>1. CASE open
  <2>1. HeldFits(held, proc, currentIndex) /\ last = currentIndex
    BY <1>1 DEF Inv, HeldInv
  <2>2. HeldFits(held, proc', currentIndex)
    BY <2>1 DEF HeldFits, Slots
  <2> QED  BY <1>1, <2>1, <2>2 DEF HeldInv
<1>2. CASE ~open
  BY <1>2 DEF Inv, HeldInv, NothingHeld
<1> QED  BY <1>1, <1>2

(* What an answer adds up to.                                              *)
LEMMA AnswerCounts ==
  ASSUME Inv, NEW r \in Calls, ~Idle(r), NEW by \in Setters, NEW n, NEW list,
         n = Answered(r, by), list = Listed(call[r].proc, by, n)
  PROVE  /\ call[r].proc \in Processors
         /\ n \in 1..Size /\ list \in 0..Size
         /\ list = Size => n = Size
         /\ n < Size => list = n
         /\ list >= proc[call[r].proc].pictures
         /\ ~proc[call[r].proc].disposed => list = n
<1>1. proc \in [Processors -> ProcessorRecord] /\ call \in [Calls -> CallRecord]
  BY DEF Inv, CallsFit
<1>2. call[r].proc \in Processors
  BY <1>1 DEF Idle, CallRecord
<1>3. call[r].at = proc[call[r].proc].pictures /\ call[r].at < Size /\ call[r].at \in 0..Size
  BY <1>1 DEF Inv, CallsFit, Idle, CallRecord
<1>4. CASE by = "setDataAt"
  <2>1. n = call[r].at + 1 /\ list = n
    BY <1>3, <1>4, SizeAssumption DEF Answered, Listed
  <2> QED  BY <1>2, <1>3, <2>1, SizeAssumption
<1>5. CASE by = "setData"
  <2>1. n = Size
    BY <1>5 DEF Answered
  <2>2. list = IF proc[call[r].proc].disposed THEN proc[call[r].proc].pictures ELSE n
    BY <1>5 DEF Listed
  <2> QED  BY <1>2, <1>3, <2>1, <2>2, SizeAssumption
<1> QED  BY <1>4, <1>5, SettersAssumption DEF SetterKinds

(* An answer of the plugin, which may end the call.                        *)
LEMMA DeliverStep ==
  ASSUME Inv, NEW r \in Calls, NEW by \in Setters, Deliver(r, by)
  PROVE  /\ Inv'
         /\ AliveFrom(call[r].proc, Listed(call[r].proc, by, Answered(r, by)),
                      Answered(r, by) = Size)
<1> DEFINE p == call[r].proc
           n == Answered(r, by)
           list == Listed(p, by, n)
           saved == Saved(p, list, n)
           after == [proc[p] EXCEPT !.pictures = list, !.complete = saved.complete]
<1>1. /\ ~Idle(r) /\ open' = open /\ currentIndex' = currentIndex
      /\ held' = held /\ last' = last
      /\ row' = [row EXCEPT ![proc[p].chapter] = saved]
      /\ Notified(p, list, n = Size)
      /\ \/ /\ n < Size
            /\ proc' = [proc EXCEPT ![p] = after]
            /\ call' = [call EXCEPT ![r].at = n]
         \/ /\ n = Size
            /\ LoadAll(Ended(p, after), [call EXCEPT ![r] = IdleCall], held, call[r].then, r)
  BY DEF Deliver
<1>2. /\ p \in Processors
      /\ n \in 1..Size /\ list \in 0..Size
      /\ list = Size => n = Size
      /\ n < Size => list = n
  BY <1>1, AnswerCounts
<1>3. saved = [complete |-> n = Size, list |-> list]
  BY DEF Saved
<1> HIDE DEF n, list, saved
<1>4. proc \in [Processors -> ProcessorRecord] /\ call \in [Calls -> CallRecord]
  BY DEF Inv, CallsFit
<1>5. proc[p] \in ProcessorRecord /\ proc[p].chapter \in Indexes
  BY <1>2, <1>4 DEF ProcessorRecord
<1>6. saved \in Row /\ saved.list = list /\ (saved.complete <=> n = Size)
  BY <1>2, <1>3 DEF Row
<1>7. saved.complete \in BOOLEAN
  BY <1>3
<1>8. /\ after \in ProcessorRecord /\ after.pictures = list
      /\ after.complete = saved.complete
      /\ after.chapter = proc[p].chapter /\ after.disposed = proc[p].disposed
      /\ after.loading = proc[p].loading
  BY <1>2, <1>5, <1>7 DEF ProcessorRecord
<1>9. after.pictures = Size => after.complete
  BY <1>2, <1>6, <1>8
<1> HIDE DEF after
<1>10. row' \in [Indexes -> Row] /\ WholeRowIsComplete'
  BY <1>1, <1>2, <1>5, <1>6 DEF Inv, PlainTypes, WholeRowIsComplete
<1>11. spinner' \in BOOLEAN /\ queue' \subseteq Indexes \X (1..Size)
  <2>1. currentIndex \in Indexes /\ spinner \in BOOLEAN /\ queue \subseteq Indexes \X (1..Size)
    BY DEF Inv, PlainTypes
  <2>2. CASE held["current"] = p
    <3>1. /\ queue' = {<<currentIndex, k>> : k \in 1..list}
          /\ spinner' \in IF n = Size THEN BOOLEAN ELSE {TRUE}
      BY <1>1, <2>2 DEF Notified
    <3>2. \A k \in 1..list : k \in 1..Size
      BY <1>2, SizeAssumption
    <3>3. queue' \subseteq Indexes \X (1..Size)
      BY <2>1, <3>1, <3>2
    <3> QED  BY <3>1, <3>3
  <2>3. CASE held["current"] # p
    BY <1>1, <2>1, <2>3 DEF Notified
  <2> QED  BY <2>2, <2>3
<1>12. CASE /\ n < Size
            /\ proc' = [proc EXCEPT ![p] = after]
            /\ call' = [call EXCEPT ![r].at = n]
  <2>1. proc' \in [Processors -> ProcessorRecord]
    BY <1>4, <1>8, <1>12
  <2>2. \A x \in CallRecord : [x EXCEPT !.at = n] \in CallRecord
    BY <1>2 DEF CallRecord
  <2>3. call' \in [Calls -> CallRecord]
    BY <1>4, <1>12, <2>2
  <2>4. \A u \in Calls : /\ call'[u].proc = call[u].proc
                         /\ u # r => call'[u].at = call[u].at
                         /\ call'[r].at = n
    BY <1>4, <1>12 DEF CallRecord
  <2>5. \A q \in Processors : q # p => proc'[q] = proc[q]
    BY <1>4, <1>12
  <2>6. proc'[p] = after
    BY <1>2, <1>4, <1>12
  <2>7. \A u \in Calls : u # r => call[u].proc # p
    BY <1>2, NoneAssumption DEF Inv, CallsFit
  <2>8. \A u \in Calls : call'[u].proc # None =>
          call'[u].at = proc'[call'[u].proc].pictures /\ call'[u].at < Size
    BY <1>2, <1>4, <1>8, <1>12, <2>4, <2>5, <2>6, <2>7 DEF Inv, CallsFit, CallRecord
  <2>9. \A q \in Processors : proc'[q].pictures = Size => proc'[q].complete
    BY <1>9, <2>5, <2>6 DEF Inv, CallsFit
  <2>10. \A q \in Processors : proc'[q].loading <=> \E u \in Calls : call'[u].proc = q
    <3>1. \A q \in Processors : proc'[q].loading = proc[q].loading
      BY <1>8, <2>5, <2>6
    <3> QED  BY <3>1, <2>4 DEF Inv, CallsFit
  <2>11. \A v, u \in Calls : call'[v].proc # None /\ call'[u].proc = call'[v].proc => u = v
    BY <2>4 DEF Inv, CallsFit
  <2>12. HeldInv'
    BY <1>1, <1>8, <2>5, <2>6, HeldKept
  <2>13. Inv'
    BY <1>1, <1>10, <1>11, <2>1, <2>3, <2>8, <2>9, <2>10, <2>11, <2>12
       DEF Inv, PlainTypes, CallsFit
  <2>14. AliveFrom(p, list, n = Size)
    BY <1>3, <1>8, <2>5, <2>6 DEF AliveFrom
  <2> QED  BY <2>13, <2>14 DEF n, list
<1>13. CASE /\ n = Size
            /\ LoadAll(Ended(p, after), [call EXCEPT ![r] = IdleCall], held, call[r].then, r)
  <2>1. CallsFit(Ended(p, after), [call EXCEPT ![r] = IdleCall])
    BY <1>1, <1>8, <1>9, EndedFits
  <2>2. call[r].then \in Stages /\ [call EXCEPT ![r] = IdleCall][r].proc = None
    BY <1>4 DEF CallRecord, IdleCall
  <2>3. Started(Ended(p, after), [call EXCEPT ![r] = IdleCall], r)
    BY <1>13, <2>2, HeldTyped, LoadAllStarts
  <2>4. CallsFit(proc', call') /\ SameBut(Ended(p, after), proc')
    BY <2>1, <2>2, <2>3, StartedFits
  <2>5. HeldInv'
    BY <1>1, <1>8, <2>4, EndedHeld, HeldKept DEF SameBut
  <2>6. Inv'
    BY <1>1, <1>10, <1>11, <2>4, <2>5 DEF Inv, PlainTypes
  <2>7. AliveFrom(p, list, n = Size)
    BY <1>1, <1>3, <1>8, <2>4, EndedAlive
  <2> QED  BY <2>6, <2>7 DEF n, list
<1> QED  BY <1>1, <1>12, <1>13

(* A call that ends without an answer.                                     *)
LEMMA GiveUpStep ==
  ASSUME Inv, NEW r \in Calls, NEW s \in Stages, GiveUp(r, s)
  PROVE  /\ Inv'
         /\ AliveFrom(call[r].proc, proc[call[r].proc].pictures,
                      proc[call[r].proc].complete)
<1> DEFINE p == call[r].proc
<1>1. /\ ~Idle(r) /\ LoadAll(Ended(p, proc[p]), [call EXCEPT ![r] = IdleCall], held, s, r)
      /\ UNCHANGED <<open, currentIndex, held, row, spinner, queue, last>>
  BY DEF GiveUp
<1>2. proc \in [Processors -> ProcessorRecord] /\ call \in [Calls -> CallRecord]
  BY DEF Inv, CallsFit
<1>3. /\ proc[p] \in ProcessorRecord
      /\ proc[p].pictures = Size => proc[p].complete
  BY <1>1, <1>2 DEF Idle, CallRecord, Inv, CallsFit
<1>4. CallsFit(Ended(p, proc[p]), [call EXCEPT ![r] = IdleCall])
  BY <1>1, <1>3, EndedFits
<1>5. [call EXCEPT ![r] = IdleCall][r].proc = None
  BY <1>2 DEF IdleCall
<1>6. Started(Ended(p, proc[p]), [call EXCEPT ![r] = IdleCall], r)
  BY <1>1, HeldTyped, LoadAllStarts
<1>7. CallsFit(proc', call') /\ SameBut(Ended(p, proc[p]), proc')
  BY <1>4, <1>5, <1>6, StartedFits
<1>8. HeldInv'
  BY <1>1, <1>3, <1>7, EndedHeld, HeldKept DEF SameBut
<1>9. Inv'
  BY <1>1, <1>7, <1>8 DEF Inv, PlainTypes, WholeRowIsComplete
<1>10. AliveFrom(p, proc[p].pictures, proc[p].complete)
  BY <1>1, <1>3, <1>7, EndedAlive
<1> QED  BY <1>9, <1>10

(* At first nothing is held and no call runs.                              *)
LEMMA InitFits == Init => Inv
<1> SUFFICES ASSUME Init PROVE Inv
  OBVIOUS
<1>1. PlainTypes
  <2>1. 0 \in Indexes /\ NewRow \in Row
    BY LengthAssumption, SizeAssumption DEF Indexes, Row, NewRow
  <2>2. open \in BOOLEAN /\ spinner \in BOOLEAN /\ queue = {} /\ last = None
    BY DEF Init
  <2>3. currentIndex \in Indexes /\ row \in [Indexes -> Row]
    BY <2>1 DEF Init
  <2> QED  BY <2>2, <2>3 DEF PlainTypes
<1>2. CallsFit(proc, call)
  <2>1. IdleCall \in CallRecord
    BY SizeAssumption DEF IdleCall, CallRecord, Stages
  <2> QED  BY <2>1, UnusedTyped, SizeAssumption, NoneAssumption
           DEF Init, CallsFit, Unused, IdleCall
<1>3. WholeRowIsComplete
  BY SizeAssumption DEF Init, WholeRowIsComplete, NewRow
<1>4. HeldInv
  BY DEF Init, HeldInv, NothingHeld, Unused
<1> QED  BY <1>1, <1>2, <1>3, <1>4 DEF Inv

(* After a restart neither.                                                *)
LEMMA RestartStep ==
  ASSUME Inv, Restart
  PROVE  Inv'
<1>1. CallsFit(proc', call')
  <2>1. IdleCall \in CallRecord
    BY SizeAssumption DEF IdleCall, CallRecord, Stages
  <2> QED  BY <2>1, UnusedTyped, SizeAssumption, NoneAssumption
           DEF Restart, CallsFit, Unused, IdleCall
<1>2. HeldInv'
  BY DEF Restart, HeldInv, NothingHeld, Unused
<1> QED  BY <1>1, <1>2 DEF Restart, Inv, PlainTypes, WholeRowIsComplete
-----------------------------------------------------------------------------
(* The theorems.                                                           *)

(* Every step keeps the invariant.                                         *)
LEMMA NextStep == Inv /\ [Next]_vars => Inv'
<1> SUFFICES ASSUME Inv, [Next]_vars PROVE Inv'
  OBVIOUS
<1>1. CASE \E r \in Calls, i \in Indexes : Open(i, r)
  BY <1>1, OpenStep
<1>2. CASE \E r \in Calls : GoNext(r)
  <2>1. PICK r \in Calls : GoNext(r)
    BY <1>2
  <2>2. /\ Turns(1, "next", "prev", hasNext(currentIndex + 1))
        /\ Turn(1, "next", "prev", hasNext(currentIndex + 1), r)
    BY <2>1 DEF GoNext, Turns
  <2> QED  BY <2>2, TurnStep
<1>3. CASE \E r \in Calls : GoPrev(r)
  <2>1. PICK r \in Calls : GoPrev(r)
    BY <1>3
  <2>2. /\ Turns(-1, "prev", "next", hasPrev(currentIndex - 1))
        /\ Turn(-1, "prev", "next", hasPrev(currentIndex - 1), r)
    BY <2>1 DEF GoPrev, Turns
  <2> QED  BY <2>2, TurnStep
<1>4. CASE \E r \in Calls, by \in Setters : Deliver(r, by)
  BY <1>4, DeliverStep
<1>5. CASE \E r \in Calls, s \in Stages : GiveUp(r, s)
  BY <1>5, GiveUpStep
<1>6. CASE Close
  BY <1>6, CloseStep
<1>7. CASE Restart
  BY <1>7, RestartStep
<1>8. CASE UNCHANGED vars
  BY <1>8 DEF vars, Inv, PlainTypes, CallsFit, WholeRowIsComplete, HeldInv, HeldFits, NothingHeld
<1> QED  BY <1>1, <1>2, <1>3, <1>4, <1>5, <1>6, <1>7, <1>8 DEF Next

(* The invariant holds for ever.                                           *)
LEMMA Invariance == Spec => []Inv
BY InitFits, NextStep, PTL DEF Spec

(* Every variable of the reader keeps its type.                            *)
THEOREM TypeCorrect == Spec => []TypeOK
<1>1. Inv => TypeOK
  <2> SUFFICES ASSUME Inv PROVE TypeOK
    OBVIOUS
  <2>1. proc \in [Processors -> ProcessorRecord] /\ call \in [Calls -> CallRecord]
    BY DEF Inv, CallsFit
  <2> QED  BY <2>1, HeldTyped DEF TypeOK, Inv, PlainTypes
<1> QED  BY <1>1, Invariance, PTL

(* However page turns and late answers interleave, an open controller      *)
(* holds live processors of the chapter shown and of the neighbours that   *)
(* exist: what goNext and goPrev rely on when they write `next!` and       *)
(* `prev!`.                                                                *)
THEOREM NeighboursCorrect == Spec => []NeighboursAreHeld
<1>1. Inv => NeighboursAreHeld
  <2> SUFFICES ASSUME Inv, open PROVE NeighboursAreHeld
    BY DEF NeighboursAreHeld
  <2>1. HeldFits(held, proc, currentIndex) /\ last = currentIndex /\ currentIndex \in Indexes
    BY DEF Inv, HeldInv, PlainTypes
  <2>2. /\ hasNext(currentIndex) <=> currentIndex + 1 \in Indexes
        /\ hasPrev(currentIndex) <=> currentIndex + -1 \in Indexes
        /\ currentIndex + 0 = currentIndex /\ currentIndex + -1 = currentIndex - 1
    BY <2>1, LengthAssumption DEF hasNext, hasPrev, Indexes
  <2>3. Offset["current"] = 0 /\ Offset["next"] = 1 /\ Offset["prev"] = -1
    BY DEF Offset
  <2>4. ASSUME NEW s \in Slots
        PROVE  /\ held[s] # None <=> currentIndex + Offset[s] \in Indexes
               /\ held[s] # None => /\ ~proc[held[s]].disposed
                                    /\ proc[held[s]].chapter = currentIndex + Offset[s]
    <3>1. held[s] \in Processors \cup {None}
      BY <2>1 DEF HeldFits
    <3>2. CASE s = "current"
      BY <2>1, <2>2, <2>3, <3>2, NoneAssumption DEF HeldFits
    <3>3. CASE s = "next"
      BY <2>1, <2>2, <2>3, <3>1, <3>3, NoneAssumption DEF HeldFits
    <3>4. CASE s = "prev"
      BY <2>1, <2>2, <2>3, <3>1, <3>4, NoneAssumption DEF HeldFits
    <3> QED  BY <3>2, <3>3, <3>4 DEF Slots
  <2> QED  BY <2>1, <2>4 DEF NeighboursAreHeld
<1> QED  BY <1>1, Invariance, PTL

(* However many runs of _loadAll overlap, the plugin is asked at most once *)
(* at a time for a processor, and the loading flag tells the truth.        *)
THEOREM CallsCorrect == Spec => []OneCallEach
<1>1. Inv => OneCallEach
  BY DEF Inv, CallsFit, OneCallEach, Idle, Runs
<1> QED  BY <1>1, Invariance, PTL

-----------------------------------------------------------------------------
(* What the reader leaves on disk and in its preload queue. With a plugin  *)
(* that looks at `disposed`, a row is never less than the list it held     *)
(* before.                                                                 *)

(* A processor that is alive shows its row, and complete is whole.         *)
RowsFit ==
  /\ \A p \in Processors : ~proc[p].disposed =>
       /\ row[proc[p].chapter].complete = proc[p].complete
       /\ row[proc[p].chapter].list = proc[p].pictures
  /\ \A i \in Indexes : row[i].complete <=> row[i].list = Size

(* Only one processor of a chapter is alive.                               *)
LEMMA AliveAreHeld ==
  ASSUME Inv, NEW p \in Processors, NEW q \in Processors,
         ~proc[p].disposed, ~proc[q].disposed, proc[p].chapter = proc[q].chapter
  PROVE  open /\ p = q
<1>1. open
  BY DEF Inv, HeldInv, NothingHeld
<1>2. HeldFits(held, proc, currentIndex) /\ currentIndex \in Int
  BY <1>1 DEF Inv, HeldInv, PlainTypes, Indexes
<1>3. /\ held["next"] # None => proc[held["next"]].chapter = currentIndex + 1
      /\ held["prev"] # None => proc[held["prev"]].chapter = currentIndex - 1
      /\ proc[held["current"]].chapter = currentIndex
  BY <1>2 DEF HeldFits
<1>4. /\ p = held["current"] \/ p = held["next"] \/ p = held["prev"]
      /\ q = held["current"] \/ q = held["next"] \/ q = held["prev"]
  BY <1>2 DEF HeldFits
<1> QED  BY <1>1, <1>2, <1>3, <1>4, NoneAssumption

(* A step that leaves the rows alone, and whose live processors lived      *)
(* before or read the row, keeps RowsFit.                                  *)
LEMMA RowsKept ==
  ASSUME RowsFit, row' = row,
         \A p \in Processors : ~proc'[p].disposed =>
           \/ /\ ~proc[p].disposed
              /\ proc'[p].chapter = proc[p].chapter
              /\ proc'[p].pictures = proc[p].pictures
              /\ proc'[p].complete = proc[p].complete
           \/ /\ proc'[p].pictures = row[proc'[p].chapter].list
              /\ proc'[p].complete = row[proc'[p].chapter].complete
  PROVE  RowsFit'
BY DEF RowsFit

(* The processors an action of the viewer makes live as RowsKept asks.     *)
LEMMA MadeKeepsRows ==
  ASSUME Inv, RowsFit, row' = row, NEW pr, MadeFrom(pr), SameBut(pr, proc')
  PROVE  RowsFit'
<1> SUFFICES ASSUME NEW p \in Processors, ~proc'[p].disposed
             PROVE  \/ /\ ~proc[p].disposed
                       /\ proc'[p].chapter = proc[p].chapter
                       /\ proc'[p].pictures = proc[p].pictures
                       /\ proc'[p].complete = proc[p].complete
                    \/ /\ proc'[p].pictures = row[proc'[p].chapter].list
                       /\ proc'[p].complete = row[proc'[p].chapter].complete
  BY RowsKept
<1>1. /\ proc'[p].chapter = pr[p].chapter /\ proc'[p].pictures = pr[p].pictures
      /\ proc'[p].complete = pr[p].complete /\ ~pr[p].disposed
  BY DEF SameBut
<1>2. CASE pr[p] = proc[p]
  BY <1>1, <1>2
<1>3. CASE \E i \in Indexes : pr[p] = Opened(i)
  BY <1>1, <1>3 DEF Opened
<1>4. CASE pr[p] = Dispose(p)
  BY <1>1, <1>4, DisposeTyped
<1> QED  BY <1>2, <1>3, <1>4 DEF MadeFrom

(* Rows fit as long as no live processor gains or loses a picture.         *)
LEMMA AliveKeepsRows ==
  ASSUME RowsFit, row' = row, NEW p \in Processors,
         AliveFrom(p, proc[p].pictures, proc[p].complete)
  PROVE  RowsFit'
BY RowsKept DEF AliveFrom

(* What RowsOnlyGrow asks of a step.                                       *)
Grown ==
  \A i \in Indexes : /\ row[i].list <= row'[i].list
                     /\ row[i].complete => row'[i].complete

(* An answer for a live processor: its row becomes what it now holds, and  *)
(* no other live processor is of that chapter.                             *)
LEMMA DeliverRows ==
  ASSUME Inv, RowsFit, NEW r \in Calls, NEW by \in Setters, Deliver(r, by)
  PROVE  ChecksDisposed => RowsFit' /\ Grown
<1> SUFFICES ASSUME ChecksDisposed PROVE RowsFit' /\ Grown
  OBVIOUS
<1> DEFINE p == call[r].proc
           n == Answered(r, by)
           list == Listed(p, by, n)
           saved == Saved(p, list, n)
<1>1. ~Idle(r) /\ ~proc[p].disposed /\ row' = [row EXCEPT ![proc[p].chapter] = saved]
  BY DEF Deliver
<1>2. /\ p \in Processors /\ n \in 1..Size /\ list = n
      /\ list >= proc[p].pictures
  BY <1>1, AnswerCounts
<1>3. saved.list = list /\ saved.complete = (n = Size)
  BY DEF Saved
<1>4. AliveFrom(p, list, n = Size)
  BY DeliverStep
<1>5. /\ proc[p].chapter \in Indexes /\ row \in [Indexes -> Row]
      /\ \A q \in Processors : proc[q].chapter \in Indexes
  BY <1>2 DEF Inv, CallsFit, PlainTypes, ProcessorRecord
<1>6. proc[p].pictures < Size /\ proc[p].pictures \in Nat
  BY <1>1, <1>2 DEF Inv, CallsFit, Idle, ProcessorRecord
<1> HIDE DEF n, list, saved
<1>7. RowsFit'
  <2>1. ASSUME NEW q \in Processors, ~proc'[q].disposed
        PROVE  /\ row'[proc'[q].chapter].complete = proc'[q].complete
               /\ row'[proc'[q].chapter].list = proc'[q].pictures
    <3>1. CASE q = p
      BY <1>1, <1>3, <1>4, <1>5, <2>1, <3>1 DEF AliveFrom
    <3>2. CASE q # p
      <4>1. ~proc[q].disposed /\ proc'[q].chapter = proc[q].chapter
        BY <1>4, <2>1 DEF AliveFrom
      <4>2. proc[q].chapter # proc[p].chapter
        BY <1>1, <1>2, <3>2, <4>1, AliveAreHeld
      <4>3. row'[proc[q].chapter] = row[proc[q].chapter]
        BY <1>1, <1>5, <4>2
      <4>4. proc'[q].pictures = proc[q].pictures /\ proc'[q].complete = proc[q].complete
        BY <1>4, <2>1, <3>2 DEF AliveFrom
      <4> QED  BY <4>1, <4>3, <4>4 DEF RowsFit
    <3> QED  BY <3>1, <3>2
  <2>2. ASSUME NEW i \in Indexes
        PROVE  row'[i].complete <=> row'[i].list = Size
    BY <1>1, <1>2, <1>3, <1>5 DEF RowsFit
  <2> QED  BY <2>1, <2>2 DEF RowsFit
<1>8. ASSUME NEW i \in Indexes
      PROVE  row[i].list <= row'[i].list /\ (row[i].complete => row'[i].complete)
  <2>1. CASE i = proc[p].chapter
    <3>1. row[i].list = proc[p].pictures
      BY <1>1, <1>2, <2>1 DEF RowsFit
    <3>2. ~row[i].complete
      BY <1>6, <3>1 DEF RowsFit
    <3>3. row'[i].list = list
      BY <1>1, <1>3, <1>5, <2>1
    <3> QED  BY <1>2, <1>6, <3>1, <3>2, <3>3
  <2>2. CASE i # proc[p].chapter
    <3>1. row'[i] = row[i] /\ row[i].list \in Int
      BY <1>1, <1>5, <2>2 DEF Row
    <3> QED  BY <3>1
  <2> QED  BY <2>1, <2>2
<1> QED  BY <1>7, <1>8 DEF Grown

(* At first no list is saved.                                              *)
LEMMA InitRows == Init => RowsFit
<1> SUFFICES ASSUME Init PROVE RowsFit
  OBVIOUS
<1>1. \A p \in Processors : proc[p].disposed
  BY DEF Init, Unused
<1>2. \A i \in Indexes : ~row[i].complete /\ row[i].list = 0
  BY DEF Init, NewRow
<1> QED  BY <1>1, <1>2, SizeAssumption DEF RowsFit

(* Every step keeps RowsFit, and takes nothing from a row.                 *)
LEMMA NextRows == Inv /\ RowsFit /\ ChecksDisposed /\ [Next]_vars => RowsFit' /\ Grown
<1> SUFFICES ASSUME Inv, RowsFit, ChecksDisposed, [Next]_vars
             PROVE  RowsFit' /\ Grown
  OBVIOUS
<1> USE DEF Grown
<1>1. \A i \in Indexes : row[i].list \in Int
  BY DEF Inv, PlainTypes, Row
<1>2. CASE row' = row /\ ViewerMade
  BY <1>1, <1>2, MadeKeepsRows DEF ViewerMade
<1>3. CASE \E r \in Calls, i \in Indexes : Open(i, r)
  BY <1>2, <1>3, OpenStep DEF Open
<1>4. CASE \E r \in Calls : GoNext(r)
  <2>1. PICK r \in Calls : GoNext(r)
    BY <1>4
  <2>2. /\ Turns(1, "next", "prev", hasNext(currentIndex + 1))
        /\ Turn(1, "next", "prev", hasNext(currentIndex + 1), r)
    BY <2>1 DEF GoNext, Turns
  <2>3. row' = row
    BY <2>2 DEF Turn
  <2> QED  BY <1>2, <2>2, <2>3, TurnStep
<1>5. CASE \E r \in Calls : GoPrev(r)
  <2>1. PICK r \in Calls : GoPrev(r)
    BY <1>5
  <2>2. /\ Turns(-1, "prev", "next", hasPrev(currentIndex - 1))
        /\ Turn(-1, "prev", "next", hasPrev(currentIndex - 1), r)
    BY <2>1 DEF GoPrev, Turns
  <2>3. row' = row
    BY <2>2 DEF Turn
  <2> QED  BY <1>2, <2>2, <2>3, TurnStep
<1>6. CASE \E r \in Calls, by \in Setters : Deliver(r, by)
  BY <1>6, DeliverRows
<1>7. CASE \E r \in Calls, s \in Stages : GiveUp(r, s)
  <2>1. PICK r \in Calls, s \in Stages : GiveUp(r, s)
    BY <1>7
  <2>2. row' = row /\ ~Idle(r)
    BY <2>1 DEF GiveUp
  <2>3. call[r].proc \in Processors
    BY <2>2 DEF Inv, CallsFit, CallRecord, Idle
  <2>4. RowsFit'
    BY <2>1, <2>2, <2>3, GiveUpStep, AliveKeepsRows
  <2> QED  BY <1>1, <2>2, <2>4
<1>8. CASE Close \/ Restart
  <2>1. row' = row /\ \A p \in Processors : proc'[p].disposed
    <3>1. CASE Close
      BY <3>1, CloseStep DEF Close
    <3>2. CASE Restart
      BY <3>2 DEF Restart, Unused
    <3> QED  BY <1>8, <3>1, <3>2
  <2> QED  BY <1>1, <2>1, RowsKept
<1>9. CASE UNCHANGED vars
  BY <1>1, <1>9 DEF vars, RowsFit
<1> QED  BY <1>3, <1>4, <1>5, <1>6, <1>7, <1>8, <1>9 DEF Next

(* The same with the assumption on the plugin inside the formulas.         *)
RowsInv == ChecksDisposed => RowsFit

(* Every step keeps the rows, and with such a plugin they grow.            *)
LEMMA NextGrows ==
  Inv /\ RowsInv /\ [Next]_vars => RowsInv' /\ (ChecksDisposed => Grown)
BY NextRows DEF RowsInv

(* Both invariants hold for ever.                                          *)
LEMMA RowsInvariance == Spec => [](Inv /\ RowsInv)
<1>1. Init => Inv /\ RowsInv
  BY InitFits, InitRows DEF RowsInv
<1>2. Inv /\ RowsInv /\ [Next]_vars => (Inv /\ RowsInv)'
  BY NextStep, NextGrows
<1> QED  BY <1>1, <1>2, PTL DEF Spec

(* With a plugin that looks at `disposed`, a late answer never takes from  *)
(* a row what a later processor of the same chapter has saved.             *)
THEOREM LateAnswersTakeNothing == Spec => RowsOnlyGrow
<1>1. Inv /\ RowsInv /\ [Next]_vars => [ChecksDisposed => Grown]_vars
  BY NextGrows
<1>2. Spec => [][ChecksDisposed => Grown]_vars
  BY <1>1, RowsInvariance, PTL DEF Spec
<1> QED  BY <1>2 DEF Grown, RowsOnlyGrow
-----------------------------------------------------------------------------
(* The preload queue.                                                      *)

ListOf(i, n) == {<<i, k>> : k \in 1..n}

(* A call that ends or answers leaves the queue as it is, unless it is the *)
(* call of the chapter shown.                                              *)
LEMMA QueueKept ==
  ASSUME Inv, Inv', QueueIsOfCurrent, NEW p, NEW list,
         \A q \in Processors : ~proc'[q].disposed =>
           proc'[q].pictures = IF q = p THEN list ELSE proc[q].pictures,
         open' = open, held' = held, currentIndex' = currentIndex,
         \/ held["current"] = p /\ queue' = ListOf(currentIndex, list)
         \/ queue' = queue /\ (held["current"] = p => list = proc[p].pictures)
  PROVE  QueueIsOfCurrent'
<1> SUFFICES ASSUME open, queue' # {}
             PROVE  queue' = ListOf(currentIndex, proc'[held["current"]].pictures)
  BY DEF QueueIsOfCurrent, ListOf
<1>1. held["current"] \in Processors /\ ~proc'[held["current"]].disposed
  <2>1. held'["current"] \in Processors /\ ~proc'[held'["current"]].disposed
    BY DEF Inv, HeldInv, HeldFits
  <2> QED  BY <2>1
<1>2. CASE held["current"] = p
  <2>1. proc'[p].pictures = list
    BY <1>1, <1>2
  <2>2. CASE queue' = ListOf(currentIndex, list)
    BY <1>2, <2>1, <2>2
  <2>3. CASE queue' = queue /\ list = proc[p].pictures
    BY <1>2, <2>1, <2>3 DEF QueueIsOfCurrent, ListOf
  <2> QED  BY <1>2, <2>2, <2>3
<1>3. CASE held["current"] # p
  <2>1. proc'[held["current"]].pictures = proc[held["current"]].pictures
    BY <1>1, <1>3
  <2> QED  BY <1>3, <2>1 DEF QueueIsOfCurrent, ListOf
<1> QED  BY <1>2, <1>3

(* Every step keeps the preload queue to the chapter shown.                *)
LEMMA NextQueue == Inv /\ QueueIsOfCurrent /\ [Next]_vars => QueueIsOfCurrent'
<1> SUFFICES ASSUME Inv, QueueIsOfCurrent, [Next]_vars
             PROVE  QueueIsOfCurrent'
  OBVIOUS
<1>1. Inv'
  BY NextStep
<1>2. CASE \E r \in Calls, i \in Indexes : Open(i, r)
  BY <1>2 DEF Open, QueueIsOfCurrent
<1>3. CASE \E r \in Calls : GoNext(r) \/ GoPrev(r)
  <2>1. queue' = {}
    BY <1>3 DEF GoNext, GoPrev, Turn, NewQueue
  <2> QED  BY <2>1 DEF QueueIsOfCurrent
<1>4. CASE \E r \in Calls, by \in Setters : Deliver(r, by)
  <2>1. PICK r \in Calls, by \in Setters : Deliver(r, by)
    BY <1>4
  <2> DEFINE p == call[r].proc
             n == Answered(r, by)
             list == Listed(p, by, n)
  <2>2. /\ open' = open /\ held' = held /\ currentIndex' = currentIndex
        /\ Notified(p, list, n = Size)
    BY <2>1 DEF Deliver
  <2>3. AliveFrom(p, list, n = Size)
    BY <2>1, DeliverStep
  <2> HIDE DEF p, n, list
  <2>4. \/ held["current"] = p /\ queue' = ListOf(currentIndex, list)
        \/ held["current"] # p /\ queue' = queue
    BY <2>2 DEF Notified, ListOf
  <2>5. \A q \in Processors : ~proc'[q].disposed =>
          proc'[q].pictures = IF q = p THEN list ELSE proc[q].pictures
    BY <2>3 DEF AliveFrom
  <2> QED  BY <1>1, <2>2, <2>4, <2>5, QueueKept
<1>5. CASE \E r \in Calls, s \in Stages : GiveUp(r, s)
  <2>1. PICK r \in Calls, s \in Stages : GiveUp(r, s)
    BY <1>5
  <2> DEFINE p == call[r].proc
  <2>2. open' = open /\ held' = held /\ currentIndex' = currentIndex /\ queue' = queue
    BY <2>1 DEF GiveUp
  <2>3. AliveFrom(p, proc[p].pictures, proc[p].complete)
    BY <2>1, GiveUpStep
  <2> HIDE DEF p
  <2>4. \A q \in Processors : ~proc'[q].disposed =>
          proc'[q].pictures = IF q = p THEN proc[p].pictures ELSE proc[q].pictures
    BY <2>3 DEF AliveFrom
  <2> QED  BY <1>1, <2>2, <2>4, QueueKept
<1>6. CASE Close \/ Restart
  BY <1>6 DEF Close, Restart, QueueIsOfCurrent
<1>7. CASE UNCHANGED vars
  BY <1>7 DEF vars, QueueIsOfCurrent
<1> QED  BY <1>2, <1>3, <1>4, <1>5, <1>6, <1>7 DEF Next

(* What an open controller preloads are pictures of the chapter shown,     *)
(* whichever chapters' lists arrive.                                       *)
THEOREM PreloadsWhatIsShown == Spec => []QueueIsOfCurrent
<1>1. Init => QueueIsOfCurrent
  BY DEF Init, QueueIsOfCurrent
<1> QED  BY <1>1, NextQueue, Invariance, PTL DEF Spec
=============================================================================
