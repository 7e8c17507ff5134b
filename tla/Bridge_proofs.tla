---------------------------- MODULE Bridge_proofs ----------------------------
(***************************************************************************)
(* Handles and reference counts of the bridge between Dart and the native  *)
(* objects, for any number of arrays, elements, instances and wrappers.    *)
(***************************************************************************)
EXTENDS Bridge, FiniteSetTheorems, TLAPS

(* With the library there, a destroyed wrapper has no instance to free.    *)
DestroyedHasNone == lib => \A w \in Wrappers : wrapper[w].destroyed => wrapper[w].id = None

IInv == TypeOK /\ CountIsHolders /\ HandlesAgree /\ DestroyedHasNone /\ FreedOnce

(* The handles of an object and the arrays that hold it are finitely many. *)
LEMMA HoldersAreFinite ==
  ASSUME NEW o, NEW is \in SUBSET Instances, NEW as \in SUBSET Arrays
  PROVE  /\ IsFiniteSet(Refs(is, o)) /\ Cardinality(Refs(is, o)) \in Nat
         /\ IsFiniteSet(Holders(as, o)) /\ Cardinality(Holders(as, o)) \in Nat
         /\ Refs(is, o) \subseteq Refs(Instances, o)
         /\ Holders(as, o) \subseteq Holders(Arrays, o)
<1>1. Refs(is, o) \in SUBSET Instances /\ Holders(as, o) \in SUBSET Arrays
  BY DEF Refs, Holders
<1>2. IsFiniteSet(Refs(is, o)) /\ IsFiniteSet(Holders(as, o))
  BY <1>1, FiniteAssumption, FS_Subset
<1>3. Refs(is, o) \subseteq Refs(Instances, o) /\ Holders(as, o) \subseteq Holders(Arrays, o)
  BY DEF Refs, Holders
<1> QED  BY <1>2, <1>3, FS_CardinalityType

(* The cardinality of a difference with a subset.                          *)
LEMMA TakenAway ==
  ASSUME NEW S, NEW T \in SUBSET S, IsFiniteSet(S)
  PROVE  /\ Cardinality(S) \in Nat /\ Cardinality(T) \in Nat
         /\ Cardinality(S \ T) \in Nat
         /\ Cardinality(S \ T) = Cardinality(S) - Cardinality(T)
<1>1. IsFiniteSet(T) /\ IsFiniteSet(S \ T)
  BY FS_Subset
<1>2. S = T \cup (S \ T) /\ T \cap (S \ T) = {}
  OBVIOUS
<1>3. Cardinality(S) = Cardinality(T) + Cardinality(S \ T)
  <2>1. Cardinality(T \cup (S \ T))
          = Cardinality(T) + Cardinality(S \ T) - Cardinality(T \cap (S \ T))
    BY <1>1, FS_Union
  <2>2. Cardinality(T \cap (S \ T)) = 0
    BY <1>2, FS_EmptySet
  <2>3. Cardinality(T) \in Nat /\ Cardinality(S \ T) \in Nat
    BY <1>1, FS_CardinalityType
  <2>4. Cardinality(T \cup (S \ T)) = Cardinality(S)
    BY <1>2, Zenon
  <2> QED  BY <2>1, <2>2, <2>3, <2>4
<1> QED  BY <1>1, <1>3, FS_CardinalityType

(* Freeing instances takes from each count what the instances and the      *)
(* arrays that die with them held.                                         *)
LEMMA FreeKeepsCounts ==
  ASSUME IInv, NEW is \in SUBSET Instances, Free(is)
  PROVE  /\ count' \in [Objects -> Nat]
         /\ holds' \in [Arrays -> SUBSET Leaves]
         /\ target' \in [Instances -> Objects \cup {None}]
         /\ CountIsHolders'
<1> DEFINE ds == Dying(is)
<1>1. ds \in SUBSET Arrays
  BY DEF Dying
<1>2. ASSUME NEW o \in Objects
      PROVE  /\ count'[o] = Cardinality(Refs(Instances, o)') + Cardinality(Holders(Arrays, o)')
             /\ count'[o] \in Nat
  <2>1. Refs(Instances, o)' = Refs(Instances, o) \ Refs(is, o)
    BY NoneAssumption DEF Free, Refs
  <2>2. Holders(Arrays, o)' = Holders(Arrays, o) \ Holders(ds, o)
    BY <1>1 DEF Free, Holders
  <2>3. /\ Refs(is, o) \subseteq Refs(Instances, o)
        /\ Holders(ds, o) \subseteq Holders(Arrays, o)
        /\ IsFiniteSet(Refs(Instances, o)) /\ IsFiniteSet(Holders(Arrays, o))
    BY <1>1, HoldersAreFinite
  <2>4. /\ Cardinality(Refs(Instances, o)) \in Nat /\ Cardinality(Refs(is, o)) \in Nat
        /\ Cardinality(Refs(Instances, o)') \in Nat
        /\ Cardinality(Refs(Instances, o)')
             = Cardinality(Refs(Instances, o)) - Cardinality(Refs(is, o))
    BY <2>1, <2>3, TakenAway
  <2>5. /\ Cardinality(Holders(Arrays, o)) \in Nat /\ Cardinality(Holders(ds, o)) \in Nat
        /\ Cardinality(Holders(Arrays, o)') \in Nat
        /\ Cardinality(Holders(Arrays, o)')
             = Cardinality(Holders(Arrays, o)) - Cardinality(Holders(ds, o))
    BY <2>2, <2>3, TakenAway
  <2>6. count[o] = Cardinality(Refs(Instances, o)) + Cardinality(Holders(Arrays, o))
    BY DEF IInv, CountIsHolders
  <2>7. count'[o] = count[o] - Cardinality(Refs(is, o)) - Cardinality(Holders(ds, o))
    BY DEF Free
  <2> QED  BY <2>4, <2>5, <2>6, <2>7
<1>3. count' \in [Objects -> Nat]
  <2>1. DOMAIN count' = Objects /\ count' = [o \in Objects |-> count'[o]]
    BY DEF Free
  <2> QED  BY <1>2, <2>1
<1>4. holds' \in [Arrays -> SUBSET Leaves]
  BY DEF Free, IInv, TypeOK
<1>5. target' \in [Instances -> Objects \cup {None}]
  BY DEF Free, IInv, TypeOK
<1>6. CountIsHolders'
  BY <1>2 DEF CountIsHolders
<1> QED  BY <1>3, <1>4, <1>5, <1>6

-----------------------------------------------------------------------------
(* The steps that make an object known to Dart.                            *)

(* A new wrapper, instance and object that meet leave every handle right.  *)
LEMMA MeetKeepsHandles ==
  ASSUME IInv, lib, NEW w \in Wrappers, NEW i \in Instances, NEW o \in Objects,
         Meet(w, i, o), ~Seen(o), UNCHANGED <<lib, holds, corrupt>>
  PROVE  IInv'
<1> USE DEF IInv
<1>1. /\ wrapper[w] = Gone /\ target[i] = None
      /\ target' = [target EXCEPT ![i] = o]
      /\ wrapper' = [wrapper EXCEPT ![w] =
                       [id |-> i, retains |-> 1, destroyed |-> FALSE, due |-> TRUE]]
      /\ db' = [db EXCEPT ![i] = w]
      /\ count' = [count EXCEPT ![o] = @ + 1]
  BY DEF Meet
<1>2. wrapper[w].destroyed
  BY <1>1 DEF Gone
<1>3. [id |-> i, retains |-> 1, destroyed |-> FALSE, due |-> TRUE] \in Wrapper
  BY MaxRetainAssumption DEF Wrapper
<1>4. TypeOK'
  BY <1>1, <1>3 DEF TypeOK
<1>5. CountIsHolders'
  <2>1. ASSUME NEW q \in Objects
        PROVE  count'[q] = Cardinality(Refs(Instances, q)') + Cardinality(Holders(Arrays, q)')
    <3>1. Holders(Arrays, q)' = Holders(Arrays, q)
      BY DEF Holders
    <3>2. /\ IsFiniteSet(Refs(Instances, q)) /\ Cardinality(Refs(Instances, q)) \in Nat
          /\ Cardinality(Holders(Arrays, q)) \in Nat
      BY HoldersAreFinite
    <3>3. count[q] = Cardinality(Refs(Instances, q)) + Cardinality(Holders(Arrays, q))
      BY DEF CountIsHolders
    <3>4. CASE q = o
      <4>1. Refs(Instances, q)' = Refs(Instances, q) \cup {i} /\ i \notin Refs(Instances, q)
        BY <1>1, <3>4, NoneAssumption DEF Refs, TypeOK
      <4>2. Cardinality(Refs(Instances, q)') = Cardinality(Refs(Instances, q)) + 1
        BY <3>2, <4>1, FS_AddElement
      <4>3. count'[q] = count[q] + 1
        BY <1>1, <3>4 DEF TypeOK
      <4> QED  BY <3>1, <3>2, <3>3, <4>2, <4>3
    <3>5. CASE q # o
      <4>1. Refs(Instances, q)' = Refs(Instances, q)
        BY <1>1, <3>5, NoneAssumption DEF Refs, TypeOK
      <4>2. count'[q] = count[q]
        BY <1>1, <3>5 DEF TypeOK
      <4> QED  BY <3>1, <3>3, <4>1, <4>2
    <3> QED  BY <3>4, <3>5
  <2> QED  BY <2>1 DEF CountIsHolders
<1>6. HandlesAgree'
  <2>1. ASSUME NEW v \in Wrappers, ~wrapper'[v].destroyed
        PROVE  /\ wrapper'[v].id # None
               /\ target'[wrapper'[v].id] # None
               /\ db'[wrapper'[v].id] = v
    <3>1. CASE v = w
      BY <1>1, <3>1, NoneAssumption DEF TypeOK
    <3>2. CASE v # w
      <4>1. wrapper'[v] = wrapper[v] /\ ~wrapper[v].destroyed
        BY <1>1, <2>1, <3>2 DEF TypeOK
      <4>2. /\ wrapper[v].id # None /\ target[wrapper[v].id] # None
            /\ db[wrapper[v].id] = v
        BY <4>1 DEF HandlesAgree
      <4>3. wrapper[v].id \in Instances /\ wrapper[v].id # i
        BY <1>1, <4>2 DEF TypeOK, Wrapper
      <4> QED  BY <1>1, <4>1, <4>2, <4>3 DEF TypeOK
    <3> QED  BY <3>1, <3>2
  <2>2. ASSUME NEW j \in Instances, target'[j] # None
        PROVE  /\ db'[j] # None /\ ~wrapper'[db'[j]].destroyed
               /\ wrapper'[db'[j]].id = j
    <3>1. CASE j = i
      BY <1>1, <3>1, NoneAssumption DEF TypeOK
    <3>2. CASE j # i
      <4>1. target[j] # None /\ db'[j] = db[j]
        BY <1>1, <2>2, <3>2 DEF TypeOK
      <4>2. db[j] # None /\ ~wrapper[db[j]].destroyed /\ wrapper[db[j]].id = j
        BY <4>1 DEF HandlesAgree
      <4>3. db[j] \in Wrappers /\ db[j] # w
        BY <1>2, <4>2 DEF TypeOK
      <4> QED  BY <1>1, <4>1, <4>2, <4>3 DEF TypeOK
    <3> QED  BY <3>1, <3>2
  <2>3. ASSUME NEW j \in Instances, NEW k \in Instances,
               target'[j] # None, target'[j] = target'[k]
        PROVE  j = k
    BY <1>1, <2>3 DEF TypeOK, HandlesAgree, Seen
  <2> QED  BY <2>1, <2>2, <2>3 DEF HandlesAgree
<1>7. DestroyedHasNone'
  BY <1>1 DEF DestroyedHasNone, TypeOK
<1> QED  BY <1>4, <1>5, <1>6, <1>7 DEF FreedOnce

(* A count of 0 means that Dart has no instance of the object.             *)
LEMMA DeadIsUnseen ==
  ASSUME IInv, NEW o \in Objects, ~Live(o)
  PROVE  ~Seen(o)
<1> SUFFICES ASSUME NEW i \in Instances, target[i] = o PROVE FALSE
  BY DEF Seen
<1>1. i \in Refs(Instances, o)
  BY DEF Refs
<1>2. /\ IsFiniteSet(Refs(Instances, o)) /\ Cardinality(Refs(Instances, o)) \in Nat
      /\ Cardinality(Holders(Arrays, o)) \in Nat
  BY HoldersAreFinite
<1>3. Cardinality(Refs(Instances, o)) # 0
  BY <1>1, <1>2, FS_EmptySet
<1>4. count[o] = Cardinality(Refs(Instances, o)) + Cardinality(Holders(Arrays, o))
  BY DEF IInv, CountIsHolders
<1> QED  BY <1>2, <1>3, <1>4 DEF Live

(* Before the first call nothing refers to anything.                       *)
LEMMA InitKeeps == Init => IInv
<1> SUFFICES ASSUME Init PROVE IInv
  OBVIOUS
<1>1. TypeOK
  <2>1. Gone \in Wrapper
    BY MaxRetainAssumption DEF Gone, Wrapper
  <2>2. /\ count \in [Objects -> Nat] /\ holds \in [Arrays -> SUBSET Leaves]
        /\ target \in [Instances -> Objects \cup {None}]
        /\ wrapper \in [Wrappers -> Wrapper] /\ db \in [Instances -> Wrappers \cup {None}]
    BY <2>1 DEF Init
  <2> QED  BY <2>2 DEF TypeOK, Init
<1>2. ASSUME NEW o \in Objects
      PROVE  count[o] = Cardinality(Refs(Instances, o)) + Cardinality(Holders(Arrays, o))
  <2>1. Refs(Instances, o) = {} /\ Holders(Arrays, o) = {}
    BY NoneAssumption DEF Init, Refs, Holders
  <2>2. Cardinality(Refs(Instances, o)) = 0 /\ Cardinality(Holders(Arrays, o)) = 0
    BY <2>1, FS_EmptySet
  <2> QED  BY <2>2 DEF Init
<1>3. HandlesAgree /\ DestroyedHasNone /\ FreedOnce
  BY DEF Init, HandlesAgree, DestroyedHasNone, FreedOnce, Gone
<1> QED  BY <1>1, <1>2, <1>3 DEF IInv, CountIsHolders

-----------------------------------------------------------------------------
(* The steps that change what an array holds.                              *)

(* Wrappers and instances stay as they are.                                *)
HandlesStay == UNCHANGED <<lib, target, wrapper, db, corrupt>>

(* Then what is said of the handles stays true.                            *)
LEMMA HandlesStayKept ==
  ASSUME IInv, HandlesStay
  PROVE  HandlesAgree' /\ DestroyedHasNone' /\ FreedOnce'
BY DEF IInv, HandlesStay, HandlesAgree, DestroyedHasNone, FreedOnce

(* An object put into an array has one more holder.                        *)
LEMMA PutKeeps ==
  ASSUME IInv, NEW v \in Wrappers, NEW w \in Wrappers, NEW a \in Arrays, NEW x \in Leaves,
         Put(v, w, a, x)
  PROVE  IInv'
<1>1. /\ x \notin holds[a] /\ HandlesStay
      /\ holds' = [holds EXCEPT ![a] = @ \cup {x}]
      /\ count' = [count EXCEPT ![x] = @ + 1]
  BY DEF Put, HandlesStay
<1>2. TypeOK'
  BY <1>1 DEF IInv, TypeOK, HandlesStay, Objects
<1>3. ASSUME NEW o \in Objects
      PROVE  count'[o] = Cardinality(Refs(Instances, o)') + Cardinality(Holders(Arrays, o)')
  <2>1. Refs(Instances, o)' = Refs(Instances, o)
    BY <1>1 DEF Refs, HandlesStay
  <2>2. /\ IsFiniteSet(Holders(Arrays, o)) /\ Cardinality(Holders(Arrays, o)) \in Nat
        /\ Cardinality(Refs(Instances, o)) \in Nat
    BY HoldersAreFinite
  <2>3. count[o] = Cardinality(Refs(Instances, o)) + Cardinality(Holders(Arrays, o))
    BY DEF IInv, CountIsHolders
  <2>4. CASE o = x
    <3>1. Holders(Arrays, o)' = Holders(Arrays, o) \cup {a} /\ a \notin Holders(Arrays, o)
      BY <1>1, <2>4 DEF Holders, IInv, TypeOK
    <3>2. Cardinality(Holders(Arrays, o)') = Cardinality(Holders(Arrays, o)) + 1
      BY <2>2, <3>1, FS_AddElement
    <3>3. count'[o] = count[o] + 1
      BY <1>1, <2>4 DEF IInv, TypeOK
    <3> QED  BY <2>1, <2>2, <2>3, <3>2, <3>3
  <2>5. CASE o # x
    <3>1. Holders(Arrays, o)' = Holders(Arrays, o)
      BY <1>1, <2>5 DEF Holders, IInv, TypeOK
    <3>2. count'[o] = count[o]
      BY <1>1, <2>5 DEF IInv, TypeOK
    <3> QED  BY <2>1, <2>3, <3>1, <3>2
  <2> QED  BY <2>4, <2>5
<1>4. HandlesAgree' /\ DestroyedHasNone' /\ FreedOnce'
  BY <1>1, HandlesStayKept
<1> QED  BY <1>2, <1>3, <1>4 DEF IInv, CountIsHolders

(* An object taken out of an array has one holder less.                    *)
LEMMA EraseKeeps ==
  ASSUME IInv, NEW v \in Wrappers, NEW a \in Arrays, NEW x \in Leaves, Erase(v, a, x)
  PROVE  IInv'
<1>1. /\ x \in holds[a] /\ HandlesStay
      /\ holds' = [holds EXCEPT ![a] = @ \ {x}]
      /\ count' = [count EXCEPT ![x] = @ - 1]
  BY DEF Erase, HandlesStay
<1>2. ASSUME NEW o \in Objects
      PROVE  /\ count'[o] = Cardinality(Refs(Instances, o)') + Cardinality(Holders(Arrays, o)')
             /\ count'[o] \in Nat
  <2>1. Refs(Instances, o)' = Refs(Instances, o)
    BY <1>1 DEF Refs, HandlesStay
  <2>2. /\ IsFiniteSet(Holders(Arrays, o)) /\ Cardinality(Holders(Arrays, o)) \in Nat
        /\ Cardinality(Refs(Instances, o)) \in Nat
    BY HoldersAreFinite
  <2>3. count[o] = Cardinality(Refs(Instances, o)) + Cardinality(Holders(Arrays, o))
    BY DEF IInv, CountIsHolders
  <2>4. CASE o = x
    <3>1. Holders(Arrays, o)' = Holders(Arrays, o) \ {a} /\ {a} \in SUBSET Holders(Arrays, o)
      BY <1>1, <2>4 DEF Holders, IInv, TypeOK
    <3>2. /\ Cardinality(Holders(Arrays, o) \ {a}) \in Nat
          /\ Cardinality(Holders(Arrays, o) \ {a})
               = Cardinality(Holders(Arrays, o)) - Cardinality({a})
      BY <2>2, <3>1, TakenAway
    <3>3. Cardinality({a}) = 1
      BY FS_Singleton
    <3>4. count'[o] = count[o] - 1
      BY <1>1, <2>4 DEF IInv, TypeOK
    <3> QED  BY <2>1, <2>2, <2>3, <3>1, <3>2, <3>3, <3>4
  <2>5. CASE o # x
    <3>1. Holders(Arrays, o)' = Holders(Arrays, o)
      BY <1>1, <2>5 DEF Holders, IInv, TypeOK
    <3>2. count'[o] = count[o]
      BY <1>1, <2>5 DEF IInv, TypeOK
    <3> QED  BY <2>1, <2>2, <2>3, <3>1, <3>2
  <2> QED  BY <2>4, <2>5
<1>3. TypeOK'
  <2>1. count' = [o \in Objects |-> count'[o]]
    BY <1>1 DEF IInv, TypeOK
  <2>2. count' \in [Objects -> Nat]
    BY <1>2, <2>1
  <2>3. holds' \in [Arrays -> SUBSET Leaves]
    BY <1>1 DEF IInv, TypeOK
  <2> QED  BY <1>1, <2>2, <2>3 DEF IInv, TypeOK, HandlesStay
<1>4. HandlesAgree' /\ DestroyedHasNone' /\ FreedOnce'
  BY <1>1, HandlesStayKept
<1> QED  BY <1>2, <1>3, <1>4 DEF IInv, CountIsHolders

-----------------------------------------------------------------------------
(* The steps of a wrapper's own count.                                     *)

(* Objects, arrays and instances stay as they are.                         *)
ObjectsStay == UNCHANGED <<lib, count, holds, target, db, corrupt>>

(* Then what is said of the objects stays true.                            *)
LEMMA ObjectsStayKept ==
  ASSUME IInv, ObjectsStay
  PROVE  CountIsHolders' /\ FreedOnce'
BY DEF IInv, ObjectsStay, CountIsHolders, FreedOnce, Refs, Holders

(* A wrapper that keeps its id and is destroyed no sooner than before, or  *)
(* after the library went.                                                 *)
LEMMA FieldKeeps ==
  ASSUME IInv, ObjectsStay, NEW w \in Wrappers, NEW r \in Wrapper,
         wrapper' = [wrapper EXCEPT ![w] = r],
         r.id = wrapper[w].id,
         lib => r.destroyed = wrapper[w].destroyed
  PROVE  IInv'
<1>1. TypeOK'
  BY DEF IInv, TypeOK, ObjectsStay
<1>2. CountIsHolders' /\ FreedOnce'
  BY ObjectsStayKept
<1>3. HandlesAgree'
  BY DEF IInv, TypeOK, HandlesAgree, ObjectsStay
<1>4. DestroyedHasNone'
  BY DEF IInv, TypeOK, DestroyedHasNone, ObjectsStay
<1> QED  BY <1>1, <1>2, <1>3, <1>4 DEF IInv

(* A retain changes only the count of its wrapper.                         *)
LEMMA RetainKeeps ==
  ASSUME IInv, NEW w \in Wrappers, Retain(w)
  PROVE  IInv'
<1> DEFINE r == [wrapper[w] EXCEPT !.retains = @ + 1]
<1>1. wrapper[w] \in Wrapper /\ wrapper[w].retains + 1 \in 0..MaxRetain
  BY MaxRetainAssumption DEF IInv, TypeOK, Wrapper, Retain
<1>2. r \in Wrapper /\ r.id = wrapper[w].id /\ r.destroyed = wrapper[w].destroyed
  BY <1>1 DEF Wrapper
<1>3. ObjectsStay /\ wrapper' = [wrapper EXCEPT ![w] = r]
  BY DEF Retain, ObjectsStay
<1> HIDE DEF r
<1> QED  BY <1>2, <1>3, FieldKeeps

(* A wrapper that is forgotten was destroyed and led nowhere.              *)
LEMMA ForgetKeeps ==
  ASSUME IInv, NEW w \in Wrappers, Forget(w)
  PROVE  IInv'
<1>1. /\ ObjectsStay /\ wrapper' = [wrapper EXCEPT ![w] = Gone]
      /\ wrapper[w].destroyed
  BY DEF Forget, ObjectsStay
<1>2. Gone \in Wrapper /\ Gone.id = None /\ Gone.destroyed
  BY MaxRetainAssumption DEF Gone, Wrapper
<1>3. TypeOK'
  BY <1>1, <1>2 DEF IInv, TypeOK, ObjectsStay
<1>4. CountIsHolders' /\ FreedOnce'
  BY <1>1, ObjectsStayKept
<1>5. HandlesAgree'
  BY <1>1, <1>2 DEF IInv, TypeOK, HandlesAgree, ObjectsStay
<1>6. DestroyedHasNone'
  BY <1>1, <1>2 DEF IInv, TypeOK, DestroyedHasNone, ObjectsStay
<1> QED  BY <1>3, <1>4, <1>5, <1>6 DEF IInv

(* The last release of a wrapper with an instance: what it frees is there  *)
(* to be freed, and no other wrapper's.                                    *)
LEMMA ReleaseKeeps ==
  ASSUME IInv, NEW w \in Wrappers, NEW due \in BOOLEAN, Release(w, due)
  PROVE  IInv'
<1> DEFINE i == wrapper[w].id
           frees == wrapper[w].retains = 1 /\ i # None /\ lib
           n == IF wrapper[w].retains > 0 THEN wrapper[w].retains - 1 ELSE 0
           r == [wrapper[w] EXCEPT !.retains = n,
                                   !.destroyed = wrapper[w].destroyed \/ wrapper[w].retains = 1,
                                   !.id = IF frees THEN None ELSE i,
                                   !.due = due]
<1>1. wrapper[w] \in Wrapper /\ n \in 0..MaxRetain
  BY MaxRetainAssumption DEF IInv, TypeOK, Wrapper
<1>2. /\ r \in Wrapper /\ r.id = (IF frees THEN None ELSE i)
      /\ r.destroyed = (wrapper[w].destroyed \/ wrapper[w].retains = 1)
  BY <1>1 DEF Wrapper
<1>3. wrapper' = [wrapper EXCEPT ![w] = r]
  BY DEF Release
<1> HIDE DEF r
<1>4. CASE ~frees
  <2>1. ObjectsStay
    BY <1>4 DEF Release, ObjectsStay, IInv, TypeOK
  <2>2. lib => r.destroyed = wrapper[w].destroyed
    BY <1>2, <1>4 DEF IInv, HandlesAgree, TypeOK, Wrapper
  <2>3. r.id = wrapper[w].id
    BY <1>2, <1>4
  <2> QED  BY <1>2, <1>3, <2>1, <2>2, <2>3, FieldKeeps
<1>5. CASE frees
  <2>1. i \in Instances /\ lib /\ ~wrapper[w].destroyed
    BY <1>1, <1>5 DEF IInv, DestroyedHasNone, Wrapper
  <2>2. target[i] # None /\ db[i] = w
    BY <2>1 DEF IInv, HandlesAgree
  <2>3. /\ Free({i}) /\ db' = [db EXCEPT ![i] = None]
        /\ corrupt' = corrupt /\ lib' = lib
    <3>1. corrupt' = (corrupt \/ target[i] = None)
      BY <1>5 DEF Release
    <3> QED  BY <1>5, <2>2, <3>1 DEF Release, IInv, TypeOK
  <2>4. r.id = None /\ r.destroyed
    BY <1>2, <1>5
  <2>5. /\ count' \in [Objects -> Nat] /\ holds' \in [Arrays -> SUBSET Leaves]
        /\ target' \in [Instances -> Objects \cup {None}] /\ CountIsHolders'
    BY <2>1, <2>3, FreeKeepsCounts
  <2>6. TypeOK'
    BY <1>2, <1>3, <2>1, <2>3, <2>5 DEF IInv, TypeOK
  <2>7. HandlesAgree'
    <3>1. ASSUME NEW v \in Wrappers, ~wrapper'[v].destroyed
          PROVE  /\ wrapper'[v].id # None
                 /\ target'[wrapper'[v].id] # None
                 /\ db'[wrapper'[v].id] = v
      <4>1. v # w /\ wrapper'[v] = wrapper[v]
        BY <1>3, <2>4, <3>1 DEF IInv, TypeOK
      <4>2. /\ wrapper[v].id # None /\ target[wrapper[v].id] # None
            /\ db[wrapper[v].id] = v
        BY <2>1, <3>1, <4>1 DEF IInv, HandlesAgree
      <4>3. wrapper[v].id \in Instances /\ wrapper[v].id # i
        BY <2>2, <4>1, <4>2 DEF IInv, TypeOK, Wrapper
      <4> QED  BY <2>3, <4>1, <4>2, <4>3 DEF Free, IInv, TypeOK
    <3>2. ASSUME NEW j \in Instances, target'[j] # None
          PROVE  /\ db'[j] # None /\ ~wrapper'[db'[j]].destroyed
                 /\ wrapper'[db'[j]].id = j
      <4>1. j # i /\ target[j] # None /\ db'[j] = db[j]
        BY <2>3, <3>2 DEF Free, IInv, TypeOK
      <4>2. db[j] # None /\ ~wrapper[db[j]].destroyed /\ wrapper[db[j]].id = j
        BY <2>1, <4>1 DEF IInv, HandlesAgree
      <4>3. db[j] \in Wrappers /\ db[j] # w
        BY <4>1, <4>2 DEF IInv, TypeOK
      <4> QED  BY <1>3, <4>1, <4>2, <4>3 DEF IInv, TypeOK
    <3>3. ASSUME NEW j \in Instances, NEW k \in Instances,
                 target'[j] # None, target'[j] = target'[k]
          PROVE  j = k
      BY <2>1, <2>3, <3>3 DEF Free, IInv, HandlesAgree
    <3> QED  BY <3>1, <3>2, <3>3 DEF HandlesAgree
  <2>8. DestroyedHasNone'
    BY <1>3, <2>3, <2>4 DEF IInv, TypeOK, DestroyedHasNone
  <2>9. FreedOnce'
    BY <2>3 DEF IInv, FreedOnce
  <2> QED  BY <2>5, <2>6, <2>7, <2>8, <2>9 DEF IInv
<1> QED  BY <1>4, <1>5

(* The end of the library frees every instance, once.                      *)
LEMMA DestroyKeeps == IInv /\ Destroy => IInv'
<1> SUFFICES ASSUME IInv, Destroy PROVE IInv'
  OBVIOUS
<1> DEFINE all == {i \in Instances : target[i] # None}
<1>1. Free(all) /\ lib' = FALSE /\ UNCHANGED <<wrapper, db, corrupt>>
  BY DEF Destroy
<1>2. /\ count' \in [Objects -> Nat] /\ holds' \in [Arrays -> SUBSET Leaves]
      /\ target' \in [Instances -> Objects \cup {None}] /\ CountIsHolders'
  <2>1. all \in SUBSET Instances
    OBVIOUS
  <2> QED  BY <1>1, <2>1, FreeKeepsCounts
<1>3. TypeOK'
  BY <1>1, <1>2 DEF IInv, TypeOK
<1> QED  BY <1>1, <1>2, <1>3 DEF IInv, HandlesAgree, DestroyedHasNone, FreedOnce

-----------------------------------------------------------------------------

(* The invariant holds for ever.                                           *)
LEMMA InvCorrect == Spec => []IInv
<1>1. IInv /\ [Next]_vars => IInv'
  <2> SUFFICES ASSUME IInv, [Next]_vars PROVE IInv'
    OBVIOUS
  <2>1. ASSUME NEW w \in Wrappers, NEW i \in Instances, NEW o \in Objects, Allocate(w, i, o)
        PROVE  IInv'
    BY <2>1, DeadIsUnseen, MeetKeepsHandles DEF Allocate
  <2>2. ASSUME NEW w \in Wrappers, NEW i \in Instances, NEW v \in Wrappers,
               NEW a \in Arrays, NEW x \in Leaves, Find(v, w, i, a, x)
        PROVE  IInv'
    BY <2>2, MeetKeepsHandles DEF Find, Calls, Objects
  <2>3. ASSUME NEW v \in Wrappers, NEW w \in Wrappers, NEW a \in Arrays, NEW x \in Leaves,
               Put(v, w, a, x)
        PROVE  IInv'
    BY <2>3, PutKeeps
  <2>4. ASSUME NEW v \in Wrappers, NEW a \in Arrays, NEW x \in Leaves, Erase(v, a, x)
        PROVE  IInv'
    BY <2>4, EraseKeeps
  <2>5. ASSUME NEW w \in Wrappers, Retain(w) \/ Forget(w)
        PROVE  IInv'
    BY <2>5, RetainKeeps, ForgetKeeps
  <2>6. ASSUME NEW w \in Wrappers, UserReleases(w) \/ DelayedRelease(w)
        PROVE  IInv'
    <3>1. wrapper[w].due \in BOOLEAN
      BY DEF IInv, TypeOK, Wrapper
    <3>2. Release(w, wrapper[w].due) \/ Release(w, FALSE)
      BY <2>6 DEF UserReleases, DelayedRelease
    <3> QED  BY <3>1, <3>2, ReleaseKeeps
  <2>7. ASSUME UNCHANGED vars
        PROVE  IInv'
    <3>1. HandlesStay /\ ObjectsStay
      BY <2>7 DEF vars, HandlesStay, ObjectsStay
    <3>2. TypeOK'
      BY <2>7 DEF IInv, TypeOK, vars
    <3> QED  BY <3>1, <3>2, HandlesStayKept, ObjectsStayKept DEF IInv
  <2> QED  BY <2>1, <2>2, <2>3, <2>4, <2>5, <2>6, <2>7, DestroyKeeps DEF Next
<1> QED  BY <1>1, InitKeeps, PTL DEF Spec

(* A reference count is the number of instances and arrays that refer to   *)
(* the object, for any number of them, whoever releases what and when.     *)
THEOREM CountsCorrect == Spec => []CountIsHolders
<1>1. IInv => CountIsHolders
  BY DEF IInv
<1> QED  BY <1>1, InvCorrect, PTL

(* While the library is there, wrappers and instances stay paired through  *)
(* _objectDB: no live wrapper is left with a freed or re-used instance.    *)
THEOREM HandlesCorrect == Spec => []HandlesAgree
<1>1. IInv => HandlesAgree
  BY DEF IInv
<1> QED  BY <1>1, InvCorrect, PTL

(* No order of releases, late releases, retains of destroyed wrappers and  *)
(* Glib.destroy frees an instance twice.                                   *)
THEOREM NothingFreedTwice == Spec => []FreedOnce
<1>1. IInv => FreedOnce
  BY DEF IInv
<1> QED  BY <1>1, InvCorrect, PTL
=============================================================================
