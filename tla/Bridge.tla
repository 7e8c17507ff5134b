------------------------------- MODULE Bridge -------------------------------
(***************************************************************************)
(* The bridge between Dart and the native objects of plugins/glib: the     *)
(* Dart side in lib/core/core.dart (AutoRelease, Base, _objectDB), the     *)
(* native side in src/gcore (DartScript, Script, ScriptInstance, Object,   *)
(* Reference).                                                             *)
(*                                                                         *)
(* A native object that Dart has seen has an instance, and the instance    *)
(* one Dart wrapper, found through _objectDB by the address of the         *)
(* instance. Nobody owns a wrapper: it is released 100 ms after it was     *)
(* made, whoever uses it by then, and any code may retain and release it.  *)
(* An address is used again once it was freed.                             *)
(***************************************************************************)
EXTENDS Naturals, FiniteSets

CONSTANTS
  None,
  Arrays,     \* native arrays
  Leaves,     \* native objects of other classes, which an array may hold
  Instances,  \* the addresses of DartInstance objects
  Wrappers,   \* objects of the Dart class Base
  MaxRetain   \* bounds _retainCount

Objects == Arrays \cup Leaves

ASSUME FiniteAssumption == IsFiniteSet(Instances) /\ IsFiniteSet(Arrays)
ASSUME NoneAssumption == None \notin Objects \cup Instances \cup Wrappers
ASSUME DisjointAssumption == Arrays \cap Leaves = {}
ASSUME MaxRetainAssumption == MaxRetain \in Nat \ {0}

VARIABLES
  lib,      \* whether Base.scriptHandler is set
  count,    \* count[o]: the reference count of object o, 0 when it is deleted
  holds,    \* holds[a]: what array a refers to
  target,   \* target[i]: the object of instance i, None when it is free
  wrapper,  \* wrapper[w]: the fields of w, and whether its delayRelease is due
  db,       \* _objectDB
  corrupt   \* history: a freed instance was handed to the native side

vars == <<lib, count, holds, target, wrapper, db, corrupt>>

Wrapper == [id : Instances \cup {None}, retains : 0..MaxRetain,
            destroyed : BOOLEAN, due : BOOLEAN]

TypeOK ==
  /\ lib \in BOOLEAN
  /\ count \in [Objects -> Nat]
  /\ holds \in [Arrays -> SUBSET Leaves]
  /\ target \in [Instances -> Objects \cup {None}]
  /\ wrapper \in [Wrappers -> Wrapper]
  /\ db \in [Instances -> Wrappers \cup {None}]
  /\ corrupt \in BOOLEAN

Gone == [id |-> None, retains |-> 0, destroyed |-> TRUE, due |-> FALSE]
Live(o) == count[o] > 0
Seen(o) == \E i \in Instances : target[i] = o

(* Glib.setup: the classes are registered, no object exists.               *)
Init ==
  /\ lib = TRUE
  /\ count = [o \in Objects |-> 0]
  /\ holds = [a \in Arrays |-> {}]
  /\ target = [i \in Instances |-> None]
  /\ wrapper = [w \in Wrappers |-> Gone]
  /\ db = [i \in Instances |-> None]
  /\ corrupt = FALSE

-----------------------------------------------------------------------------
(* Objects come to be known to Dart.                                       *)

(* A wrapper and an instance for o: allocate() with dart_createObject, or  *)
(* dart_toDart with DartClass::create and _createNativeTarget.             *)
Meet(w, i, o) ==
  /\ wrapper[w] = Gone
  /\ target[i] = None
  /\ target' = [target EXCEPT ![i] = o]
  /\ wrapper' = [wrapper EXCEPT ![w] =
                   [id |-> i, retains |-> 1, destroyed |-> FALSE, due |-> TRUE]]
  /\ db' = [db EXCEPT ![i] = w]
  /\ count' = [count EXCEPT ![o] = @ + 1]

(* A new object, made by Dart or by a native method that returns it.       *)
Allocate(w, i, o) ==
  /\ lib
  /\ ~Live(o)
  /\ Meet(w, i, o)
  /\ UNCHANGED <<lib, holds, corrupt>>

(* The wrapper Dart calls a method of: not destroyed.                      *)
Calls(w, o) ==
  /\ lib
  /\ ~wrapper[w].destroyed
  /\ target[wrapper[w].id] = o

(* A bug for Find: an instance the object has is not looked for.           *)
FindAgain(v, w, i, a, x) ==
  /\ Calls(v, a)
  /\ x \in holds[a]
  /\ Meet(w, i, x)
  /\ UNCHANGED <<lib, holds, corrupt>>

(* An element of an array that has no instance is asked for. (One that has *)
(* an instance is answered with its wrapper, and nothing changes.)         *)
Find(v, w, i, a, x) ==
  /\ Calls(v, a)
  /\ x \in holds[a]
  /\ ~Seen(x)
  /\ Meet(w, i, x)
  /\ UNCHANGED <<lib, holds, corrupt>>

(* push_back. An array is taken for a set: the code would put an object    *)
(* there twice, each time with a reference of its own.                     *)
Put(v, w, a, x) ==
  /\ Calls(v, a)
  /\ Calls(w, x)
  /\ x \notin holds[a]
  /\ holds' = [holds EXCEPT ![a] = @ \cup {x}]
  /\ count' = [count EXCEPT ![x] = @ + 1]
  /\ UNCHANGED <<lib, target, wrapper, db, corrupt>>

Erase(v, a, x) ==
  /\ Calls(v, a)
  /\ x \in holds[a]
  /\ holds' = [holds EXCEPT ![a] = @ \ {x}]
  /\ count' = [count EXCEPT ![x] = @ - 1]
  /\ UNCHANGED <<lib, target, wrapper, db, corrupt>>

-----------------------------------------------------------------------------
(* Objects go.                                                             *)

Refs(is, o) == {i \in is : target[i] = o}
Holders(as, o) == {a \in as : o \in holds[a]}

(* The arrays that lose their last reference with the instances is.        *)
Dying(is) == {a \in Arrays : Live(a) /\ count[a] = Cardinality(Refs(is, a))}

(* A bug for Free: the elements of a deleted array are not released.       *)
FreeShallow(is) ==
  /\ target' = [i \in Instances |-> IF i \in is THEN None ELSE target[i]]
  /\ count' = [o \in Objects |-> count[o] - Cardinality(Refs(is, o))]
  /\ holds' = [a \in Arrays |-> IF a \in Dying(is) THEN {} ELSE holds[a]]

(* ~ScriptInstance for each instance of is: its reference to the object    *)
(* goes, and the object with its last one, releasing what it holds.        *)
Free(is) ==
  /\ target' = [i \in Instances |-> IF i \in is THEN None ELSE target[i]]
  /\ count' = [o \in Objects |-> count[o] - Cardinality(Refs(is, o))
                                         - Cardinality(Holders(Dying(is), o))]
  /\ holds' = [a \in Arrays |-> IF a \in Dying(is) THEN {} ELSE holds[a]]

(* A bug for Release: _id is kept, and freed again by a later release.     *)
ReleaseKeepsId(w, due) ==
  LET i == wrapper[w].id
      frees == wrapper[w].retains = 1 /\ i # None /\ lib
  IN
  /\ wrapper' = [wrapper EXCEPT ![w].retains = IF @ > 0 THEN @ - 1 ELSE 0,
                                ![w].destroyed = @ \/ wrapper[w].retains = 1,
                                ![w].due = due]
  /\ db' = IF frees THEN [db EXCEPT ![i] = None] ELSE db
  /\ corrupt' = (corrupt \/ (frees /\ target[i] = None))
  /\ IF frees THEN Free({i}) ELSE UNCHANGED <<target, count, holds>>
  /\ UNCHANGED lib

(* release(): it throws at 0, and the last one destroys the wrapper. The   *)
(* instance is freed when there is one and the library is still there.     *)
Release(w, due) ==
  LET i == wrapper[w].id
      frees == wrapper[w].retains = 1 /\ i # None /\ lib
  IN
  /\ wrapper' = [wrapper EXCEPT ![w].retains = IF @ > 0 THEN @ - 1 ELSE 0,
                                ![w].destroyed = @ \/ wrapper[w].retains = 1,
                                ![w].id = IF frees THEN None ELSE @,
                                ![w].due = due]
  /\ db' = IF frees THEN [db EXCEPT ![i] = None] ELSE db
  /\ corrupt' = (corrupt \/ (frees /\ target[i] = None))
  /\ IF frees THEN Free({i}) ELSE UNCHANGED <<target, count, holds>>
  /\ UNCHANGED lib

(* A wrapper somebody still knows, destroyed or not, is retained.          *)
Retain(w) ==
  /\ wrapper[w] # Gone
  /\ wrapper[w].retains < MaxRetain
  /\ wrapper' = [wrapper EXCEPT ![w].retains = @ + 1]
  /\ UNCHANGED <<lib, count, holds, target, db, corrupt>>

(* Somebody releases it, with or without having retained it.               *)
UserReleases(w) ==
  /\ wrapper[w].retains > 0
  /\ Release(w, wrapper[w].due)

(* The 100 ms of delayRelease() are over.                                  *)
DelayedRelease(w) ==
  /\ wrapper[w].due
  /\ Release(w, FALSE)

(* Nobody knows a destroyed wrapper any more.                              *)
Forget(w) ==
  /\ wrapper[w].destroyed
  /\ ~wrapper[w].due
  /\ wrapper[w] # Gone
  /\ wrapper' = [wrapper EXCEPT ![w] = Gone]
  /\ UNCHANGED <<lib, count, holds, target, db, corrupt>>

(* Glib.destroy: dart_destroyLibrary frees every instance (Script::clear). *)
(* The wrappers keep their ids and _objectDB its entries.                  *)
Destroy ==
  /\ lib
  /\ lib' = FALSE
  /\ Free({i \in Instances : target[i] # None})
  /\ UNCHANGED <<wrapper, db, corrupt>>

Next ==
  \/ \E w \in Wrappers, i \in Instances :
       \/ \E o \in Objects : Allocate(w, i, o)
       \/ \E v \in Wrappers, a \in Arrays, x \in Leaves : Find(v, w, i, a, x)
  \/ \E v, w \in Wrappers, a \in Arrays, x \in Leaves : Put(v, w, a, x)
  \/ \E v \in Wrappers, a \in Arrays, x \in Leaves : Erase(v, a, x)
  \/ \E w \in Wrappers : Retain(w) \/ UserReleases(w) \/ DelayedRelease(w) \/ Forget(w)
  \/ Destroy

Spec == Init /\ [][Next]_vars

-----------------------------------------------------------------------------
(* Properties.                                                             *)

(* A reference count is the number of instances and arrays that refer to   *)
(* the object: it is deleted with its last holder, not before and not      *)
(* later, whoever lets go first (Reference, ~ScriptInstance, Script::clear).*)
CountIsHolders ==
  \A o \in Objects :
    count[o] = Cardinality(Refs(Instances, o)) + Cardinality(Holders(Arrays, o))

(* While the library is there, a wrapper that is not destroyed has a live  *)
(* instance of its own and is what _objectDB finds for it, in spite of     *)
(* addresses used again; and an instance has such a wrapper, so that it is *)
(* freed some day. No object has two.                                      *)
HandlesAgree ==
  lib =>
    /\ \A w \in Wrappers : ~wrapper[w].destroyed =>
         /\ wrapper[w].id # None
         /\ target[wrapper[w].id] # None
         /\ db[wrapper[w].id] = w
    /\ \A i \in Instances : target[i] # None =>
         /\ db[i] # None
         /\ ~wrapper[db[i]].destroyed
         /\ wrapper[db[i]].id = i
    /\ \A i, j \in Instances : target[i] # None /\ target[i] = target[j] => i = j

(* No instance is freed twice, however releases by hand, late releases,    *)
(* retains of destroyed wrappers and Glib.destroy follow each other.       *)
FreedOnce == ~corrupt
=============================================================================
