--------------------------- MODULE Plugins_proofs ---------------------------
(***************************************************************************)
(* Theorems about Plugins, for every log of comments, every size of a      *)
(* page, and any number of pages and reloads.                              *)
(*                                                                         *)
(* Path and the loop of update() are recursive functions. What they give   *)
(* is shown by induction: a set of natural numbers that is not empty has a *)
(* least element (Least).                                                  *)
(***************************************************************************)
EXTENDS Plugins, WellFoundedInduction, TLAPS

-----------------------------------------------------------------------------
(* Induction over the natural numbers.                                     *)

(* A set of natural numbers that is not empty has a least element.         *)
LEMMA Least ==
  ASSUME NEW S \in SUBSET Nat, S # {}
  PROVE  \E m \in S : \A n \in S : m <= n
<1>1. PICK m \in S : \A n \in S : <<n, m>> \notin OpToRel(<, Nat)
  BY NatLessThanWellFounded, WFMin
<1>2. \A n \in S : ~(n < m)
  BY <1>1 DEF OpToRel
<1> QED  BY <1>2

(* A set that has each number whose smaller ones it has, has all up to n.  *)
LEMMA Induction ==
  ASSUME NEW n \in Nat, NEW S, \A i \in 0..n : (\A j \in 0..(i - 1) : j \in S) => i \in S
  PROVE  \A i \in 0..n : i \in S
<1> SUFFICES ASSUME NEW k \in 0..n, k \notin S PROVE FALSE
  OBVIOUS
<1>1. (0..n) \ S \in SUBSET Nat /\ (0..n) \ S # {}
  OBVIOUS
<1>2. PICK m \in (0..n) \ S : \A j \in (0..n) \ S : m <= j
  BY <1>1, Least
<1>3. \A j \in 0..(m - 1) : j \in S
  BY <1>2
<1> QED  BY <1>2, <1>3

-----------------------------------------------------------------------------
(* The log.                                                                *)

(* Its comments have the fields of a comment.                              *)
LEMMA Logged ==
  ASSUME NEW j \in 1..Len(Log)
  PROVE  /\ Log[j] \in Comment /\ j \in DOMAIN Log
         /\ Log[j].signs \in 0..(j - 1)
         /\ Log[j].key \in Keys \cup {None} /\ Log[j].pub \in Keys \cup {None}
         /\ Log[j].ignore \in BOOLEAN
         /\ Log[j].src \in Sources
<1>1. Len(Log) \in Nat /\ DOMAIN Log = 1..Len(Log)
  BY LogAssumption
<1>2. Log[j] \in Comment /\ j \in DOMAIN Log
  BY <1>1, LogAssumption
<1>3. Log[j].src \in Sources
  BY <1>2 DEF Sources
<1>4. Log[j].signs \in Nat /\ Log[j].signs < j
  BY <1>2, SignsAssumption DEF Comment
<1> QED  BY <1>2, <1>3, <1>4 DEF Comment

(* The author's key is the one the first comment with a token chooses.     *)
LEMMA AuthorIsFirst ==
  ASSUME NEW j \in 1..Len(Log), Log[j].key # None, \A i \in 1..(j - 1) : Log[i].key = None
  PROVE  Author = IF Log[j].pub # None THEN Log[j].pub ELSE Own
<1> DEFINE signed == {i \in DOMAIN Log : Log[i].key # None}
           first == CHOOSE i \in signed : \A k \in signed : i <= k
<1>1. Len(Log) \in Nat /\ DOMAIN Log = 1..Len(Log)
  BY LogAssumption
<1>2. j \in signed /\ \A k \in signed : j <= k
  BY <1>1
<1>3. first \in signed /\ \A k \in signed : first <= k
  BY <1>2
<1>4. first = j
  <2> HIDE DEF first
  <2> QED  BY <1>1, <1>2, <1>3
<1>5. Author = IF Log[first].pub = None THEN Own ELSE Log[first].pub
  BY <1>2 DEF Author
<1> HIDE DEF first
<1> QED  BY <1>4, <1>5

(* It is a key.                                                            *)
LEMMA AuthorHasKey == Author \in Keys
<1> DEFINE signed == {i \in DOMAIN Log : Log[i].key # None}
           first == CHOOSE i \in signed : \A k \in signed : i <= k
<1>1. Len(Log) \in Nat /\ DOMAIN Log = 1..Len(Log)
  BY LogAssumption
<1>2. CASE signed = {}
  BY <1>2, KeysAssumption DEF Author
<1>3. CASE signed # {}
  <2>1. signed \in SUBSET Nat
    BY <1>1
  <2>2. \E i \in signed : \A k \in signed : i <= k
    BY <1>3, <2>1, Least
  <2>3. first \in signed
    BY <2>2
  <2>4. Author = IF Log[first].pub = None THEN Own ELSE Log[first].pub
    BY <1>3 DEF Author
  <2>5. first \in 1..Len(Log)
    BY <1>1, <2>3
  <2> HIDE DEF first
  <2> QED  BY <2>4, <2>5, Logged, KeysAssumption
<1> QED  BY <1>2, <1>3

(* The recursion of Path: a token signs an earlier one, so a function that *)
(* follows the tokens up to k extends to k + 1.                            *)
LEMMA PathUnfolds ==
  Path = [n \in 0..Len(Log) |-> IF n = 0 THEN {} ELSE {n} \cup Path[Log[n].signs]]
<1> DEFINE L == Len(Log)
           G(f, n) == IF n = 0 THEN {} ELSE {n} \cup f[Log[n].signs]
           Goes(f, k) == f = [n \in 0..k |-> G(f, n)]
           S == {k \in 0..L : \E f : Goes(f, k)}
<1>1. L \in Nat
  BY LogAssumption
<1>2. ASSUME NEW k \in 0..L, \A j \in 0..(k - 1) : j \in S
      PROVE  k \in S
  <2>1. CASE k = 0
    <3> DEFINE f == [n \in 0..0 |-> {}]
    <3>1. \A n \in 0..0 : G(f, n) = {}
      OBVIOUS
    <3> HIDE DEF G
    <3>2. Goes(f, 0)
      BY <3>1
    <3> QED  BY <2>1, <3>2
  <2>2. CASE k # 0
    <3>1. k - 1 \in S
      BY <1>2, <2>2
    <3>2. PICK f : Goes(f, k - 1)
      BY <3>1
    <3> DEFINE g == [n \in 0..k |-> IF n = k THEN G(f, k) ELSE f[n]]
    <3>3. ASSUME NEW n \in 0..k
          PROVE  g[n] = G(g, n)
      <4>1. CASE n = 0
        BY <2>2, <3>2, <4>1
      <4>2. CASE n # 0
        <5>1. g[n] = G(f, n)
          <6>1. CASE n = k
            BY <6>1
          <6>2. CASE n # k
            <7> HIDE DEF G
            <7> QED  BY <3>2, <6>2
          <6> QED  BY <6>1, <6>2
        <5>2. Log[n].signs \in 0..(n - 1)
          BY <1>1, <4>2, Logged
        <5>3. g[Log[n].signs] = f[Log[n].signs]
          <6> HIDE DEF G
          <6> QED  BY <5>2
        <5> HIDE DEF g
        <5> QED  BY <4>2, <5>1, <5>3
      <4> QED  BY <4>1, <4>2
    <3> HIDE DEF G
    <3>4. Goes(g, k)
      BY <3>3
    <3> QED  BY <3>4
  <2> QED  BY <2>1, <2>2
<1>3. L \in S
  <2> HIDE DEF S
  <2>1. \A k \in 0..L : k \in S
    BY <1>1, <1>2, Induction
  <2> QED  BY <1>1, <2>1
<1>4. \E f : Goes(f, L)
  BY <1>3
<1>5. Path = CHOOSE f : Goes(f, L)
  BY DEF Path
<1>6. Goes(Path, L)
  <2> HIDE DEF Goes
  <2> QED  BY <1>4, <1>5
<1> QED  BY <1>6

(* One step of it.                                                         *)
LEMMA PathStep ==
  /\ Path[0] = {}
  /\ \A n \in 1..Len(Log) : Path[n] = {n} \cup Path[Log[n].signs]
<1>1. Len(Log) \in Nat
  BY LogAssumption
<1>2. PICK p : p = Path
  OBVIOUS
<1>3. p = [n \in 0..Len(Log) |-> IF n = 0 THEN {} ELSE {n} \cup p[Log[n].signs]]
  BY <1>2, PathUnfolds
<1>4. p[0] = {} /\ \A n \in 1..Len(Log) : p[n] = {n} \cup p[Log[n].signs]
  BY <1>1, <1>3
<1> QED  BY <1>2, <1>4

(* A path goes back, has the paths of those on it, and comes to each of    *)
(* them, and to its beginning, by one that signs it.                       *)
PathFits(n) ==
  /\ Path[n] \subseteq 1..n
  /\ \A s \in Path[n] : Path[s] \subseteq Path[n]
  /\ \A s \in Path[n] \cup {0} : s # n => \E m \in Path[n] : Log[m].signs = s

(* That is so for every comment.                                           *)
LEMMA PathsFit == \A n \in 0..Len(Log) : PathFits(n)
<1> DEFINE S == {n \in 0..Len(Log) : PathFits(n)}
<1>1. Len(Log) \in Nat
  BY LogAssumption
<1>2. ASSUME NEW n \in 0..Len(Log), \A j \in 0..(n - 1) : j \in S
      PROVE  n \in S
  <2>1. CASE n = 0
    BY <2>1, PathStep DEF PathFits
  <2>2. CASE n # 0
    <3>1. PICK t \in 0..(n - 1) : t = Log[n].signs
      BY <1>1, <2>2, Logged
    <3>2. PathFits(t)
      BY <1>2, <3>1
    <3>3. Path[n] = {n} \cup Path[t]
      BY <1>1, <2>2, <3>1, PathStep
    <3>4. Path[n] \subseteq 1..n
      BY <2>2, <3>1, <3>2, <3>3 DEF PathFits
    <3>5. \A s \in Path[n] : Path[s] \subseteq Path[n]
      BY <3>2, <3>3 DEF PathFits
    <3>6. ASSUME NEW s \in Path[n] \cup {0}, s # n
          PROVE  \E m \in Path[n] : Log[m].signs = s
      <4>1. CASE s = t
        BY <3>1, <3>3, <4>1
      <4>2. CASE s # t
        <5>1. s \in Path[t] \cup {0}
          BY <3>3, <3>6
        <5> QED  BY <3>2, <3>3, <4>2, <5>1 DEF PathFits
      <4> QED  BY <4>1, <4>2
    <3>7. PathFits(n)
      BY <3>4, <3>5, <3>6 DEF PathFits
    <3> QED  BY <3>7
  <2> QED  BY <2>1, <2>2
<1>3. \A n \in 0..Len(Log) : n \in S
  <2> HIDE DEF S
  <2> QED  BY <1>1, <1>2, Induction
<1> QED  BY <1>3

-----------------------------------------------------------------------------
(* The pages.                                                              *)

(* Where a page begins.                                                    *)
LEMMA BeforeFits ==
  ASSUME NEW k \in Nat
  PROVE  /\ Before(k) \in Nat /\ Before(0) = 0
         /\ k - 1 <= Before(k)
         /\ Before(k + 1) <= Before(k) + PageSize
<1>1. PageSize \in Nat /\ PageSize >= 1 /\ FirstPage \in {0, 1}
  BY PageAssumption
<1>2. PICK x \in Nat : x = IF k < FirstPage THEN 0 ELSE k - FirstPage
  BY <1>1
<1>3. Before(k) = PageSize * x
  BY <1>2 DEF Before
<1>4. PICK j \in Nat : j = k + 1
  OBVIOUS
<1>5. PICK y \in Nat : y = IF j < FirstPage THEN 0 ELSE j - FirstPage
  BY <1>1
<1>6. Before(j) = PageSize * y
  BY <1>5 DEF Before
<1>7. k - 1 <= x /\ (y = x \/ y = x + 1)
  BY <1>1, <1>2, <1>4, <1>5
<1>8. PageSize * x \in Nat /\ x <= PageSize * x
  BY <1>1
<1>9. PageSize * (x + 1) = PageSize * x + PageSize
  BY <1>1
<1>10. Before(0) = 0
  BY <1>1 DEF Before
<1>11. Before(j) <= Before(k) + PageSize
  BY <1>1, <1>3, <1>6, <1>7, <1>8, <1>9
<1> QED  BY <1>3, <1>4, <1>7, <1>8, <1>10, <1>11

(* The comments of a page are those after Before(k), in their order; a     *)
(* page that is not full has all that there are.                           *)
LEMMA PageFits ==
  ASSUME NEW k \in Nat, NEW n \in Nat
  PROVE  /\ Len(PageOf(k, n)) \in Nat /\ DOMAIN PageOf(k, n) = 1..Len(PageOf(k, n))
         /\ \A i \in 1..Len(PageOf(k, n)) :
              PageOf(k, n)[i] = Before(k) + i /\ Before(k) + i \in 1..n
         /\ HasMore(PageOf(k, n)) => /\ Len(PageOf(k, n)) = PageSize
                                     /\ Before(k) + PageSize <= n
         /\ ~HasMore(PageOf(k, n)) => n <= Before(k) + Len(PageOf(k, n))
<1>1. PageSize \in Nat \ {0} /\ Before(k) \in Nat
  BY PageAssumption, BeforeFits
<1>2. PICK size \in Nat : size = IF n < Before(k) THEN 0
                                ELSE IF n - Before(k) < PageSize THEN n - Before(k) ELSE PageSize
  BY <1>1
<1>3. PageOf(k, n) = [j \in 1..size |-> Before(k) + j]
  BY <1>2 DEF PageOf
<1>4. PICK js : js = PageOf(k, n)
  OBVIOUS
<1>5. Len(js) = size /\ DOMAIN js = 1..size /\ \A i \in 1..size : js[i] = Before(k) + i
  BY <1>3, <1>4
<1>6. \A i \in 1..size : Before(k) + i \in 1..n
  BY <1>1, <1>2
<1>7. HasMore(js) => size = PageSize /\ Before(k) + PageSize <= n
  BY <1>1, <1>2, <1>5 DEF HasMore
<1>8. ~HasMore(js) => n <= Before(k) + size
  BY <1>1, <1>2, <1>5 DEF HasMore
<1> QED  BY <1>4, <1>5, <1>6, <1>7, <1>8

-----------------------------------------------------------------------------
(* The loop of update().                                                   *)

(* Its recursion: comment i is looked at with what the one before it left. *)
LEMMA ConsideredUnfolds ==
  ASSUME NEW w, NEW js, Len(js) \in Nat
  PROVE  /\ Considered(w, js)[0] = w
         /\ \A i \in 1..Len(js) : Considered(w, js)[i] = Consider(Considered(w, js)[i - 1], js[i])
<1> DEFINE n == Len(js)
           G(f, i) == IF i = 0 THEN w ELSE Consider(f[i - 1], js[i])
           Goes(f, k) == f = [i \in 0..k |-> G(f, i)]
           S == {k \in 0..n : \E f : Goes(f, k)}
<1>1. ASSUME NEW k \in 0..n, \A j \in 0..(k - 1) : j \in S
      PROVE  k \in S
  <2>1. CASE k = 0
    <3> DEFINE f == [i \in 0..0 |-> w]
    <3>1. \A i \in 0..0 : G(f, i) = w
      OBVIOUS
    <3> HIDE DEF G
    <3>2. Goes(f, 0)
      BY <3>1
    <3> QED  BY <2>1, <3>2
  <2>2. CASE k # 0
    <3>1. k - 1 \in S
      <4> HIDE DEF S
      <4>1. k - 1 \in 0..(k - 1)
        BY <2>2
      <4> QED  BY <1>1, <4>1
    <3>2. PICK f : Goes(f, k - 1)
      BY <3>1
    <3> DEFINE g == [i \in 0..k |-> IF i = k THEN G(f, k) ELSE f[i]]
    <3>3. ASSUME NEW i \in 0..k
          PROVE  g[i] = G(g, i)
      <4>1. CASE i = 0
        BY <2>2, <3>2, <4>1
      <4>2. CASE i # 0
        <5>1. g[i] = G(f, i)
          <6>1. CASE i = k
            BY <6>1
          <6>2. CASE i # k
            <7> HIDE DEF G
            <7> QED  BY <3>2, <6>2
          <6> QED  BY <6>1, <6>2
        <5>2. g[i - 1] = f[i - 1]
          <6> HIDE DEF G
          <6> QED  BY <4>2
        <5> HIDE DEF g
        <5> QED  BY <4>2, <5>1, <5>2
      <4> QED  BY <4>1, <4>2
    <3> HIDE DEF G
    <3>4. Goes(g, k)
      BY <3>3
    <3> QED  BY <3>4
  <2> QED  BY <2>1, <2>2
<1>2. n \in S
  <2> HIDE DEF S
  <2>1. \A k \in 0..n : k \in S
    BY <1>1, Induction
  <2> QED  BY <2>1
<1>3. \E f : Goes(f, n)
  BY <1>2
<1>4. Considered(w, js) = CHOOSE f : Goes(f, n)
  BY DEF Considered
<1>5. PICK done : done = Considered(w, js)
  OBVIOUS
<1>6. Goes(done, n)
  <2> HIDE DEF Goes
  <2> QED  BY <1>3, <1>4, <1>5
<1>7. done[0] = w /\ \A i \in 1..n : done[i] = Consider(done[i - 1], js[i])
  BY <1>6
<1> QED  BY <1>5, <1>7

(* The key is the author's once there was a comment with a token.          *)
KeyFits(key, m) ==
  /\ key \in {None, Author}
  /\ key = None => \A j \in 1..m : j \in DOMAIN Log => Log[j].key = None

(* What is listed on the way to p.                                         *)
Listed(p, a) == Trusted(p) /\ SourcesOf(Path[p]) \subseteq a

Announced(n) == SourcesOf({j \in 1..n : Trusted(j)})

(* Those of the first m comments that no other one rivals are behind p.    *)
Caught(m, p) == \A j \in 1..m : j \in DOMAIN Log /\ Alone(j) => j \in Path[p]

(* What update() works on.                                                 *)
Work(n) == [key : Keys \cup {None}, prev : 0..n, added : SUBSET Sources, plugins : SUBSET Sources]

(* From w0, update() has come to w: what it adds is new, and its lists     *)
(* only grow.                                                              *)
Grows(w0, w, n) ==
  /\ w \in Work(n)
  /\ w0.added \subseteq w.added
  /\ \A s \in w.plugins : s \in w0.plugins \/ s \notin w0.added

(* And it has come, from the first m0 comments, to the first m.            *)
Follows(w0, m0, w, m, n) ==
  /\ KeyFits(w.key, m)
  /\ Listed(w.prev, w.added)
  /\ w.added \subseteq Announced(n)
  /\ Path[w0.prev] \subseteq Path[w.prev]
  /\ Caught(m0, w0.prev) => Caught(m, w.prev)

(* The next comment: types and growth.                                     *)
LEMMA ConsiderGrows ==
  ASSUME NEW n \in 0..Len(Log), NEW j \in 1..n, NEW w0, NEW w, Grows(w0, w, n)
  PROVE  Grows(w0, Consider(w, j), n)
<1>1. Len(Log) \in Nat /\ j \in 1..Len(Log) /\ j \in 0..n
  BY LogAssumption
<1>2. w \in Work(n)
  BY DEF Grows
<1>3. KeyAt(w, Log[j]) \in Keys \cup {None} /\ Log[j].src \in Sources
  BY <1>1, <1>2, Logged, KeysAssumption DEF KeyAt, Work
<1>4. CASE Log[j].key = None
  BY <1>4 DEF Consider
<1>5. CASE Log[j].key # None /\ ~Verified(w, j)
  <2>1. Consider(w, j) = [w EXCEPT !.key = KeyAt(w, Log[j])]
    BY <1>5 DEF Consider
  <2> QED  BY <1>2, <1>3, <2>1 DEF Grows, Work
<1>6. CASE Log[j].key # None /\ Verified(w, j)
  <2>1. PICK new \in SUBSET Sources : new = IF IsNew(w, j) THEN {Log[j].src} ELSE {}
    BY <1>3
  <2>2. Consider(w, j) = [key |-> KeyAt(w, Log[j]), prev |-> j,
                          added |-> w.added \cup new, plugins |-> w.plugins \cup new]
    BY <1>6, <2>1 DEF Consider
  <2>3. \A s \in new : s \notin w.added
    BY <2>1 DEF IsNew
  <2> QED  BY <1>1, <1>2, <1>3, <2>1, <2>2, <2>3 DEF Grows, Work
<1> QED  BY <1>4, <1>5, <1>6

(* The next comment: the author's chain.                                   *)
LEMMA ConsiderFollows ==
  ASSUME NEW n \in 0..Len(Log), NEW j \in 1..n, NEW w0, NEW m0, NEW w \in Work(n),
         Follows(w0, m0, w, j - 1, n)
  PROVE  Follows(w0, m0, Consider(w, j), j, n)
<1>1. /\ Len(Log) \in Nat /\ DOMAIN Log = 1..Len(Log) /\ j \in 1..Len(Log)
      /\ w.prev \in 0..n /\ w.prev \in 0..Len(Log)
  BY LogAssumption DEF Work
<1>2. PICK s \in 0..(j - 1) : s = Log[j].signs
  BY <1>1, Logged
<1>3. /\ KeyFits(w.key, j - 1) /\ Listed(w.prev, w.added) /\ w.added \subseteq Announced(n)
      /\ Path[w0.prev] \subseteq Path[w.prev]
      /\ Caught(m0, w0.prev) => Caught(j - 1, w.prev)
  BY DEF Follows
<1>4. Path[j] = {j} \cup Path[s]
  BY <1>1, <1>2, PathStep
<1>5. Author # None
  BY AuthorHasKey, KeysAssumption
<1>6. CASE Log[j].key = None
  <2>1. Consider(w, j) = w
    BY <1>6 DEF Consider
  <2>2. KeyFits(w.key, j)
    BY <1>1, <1>3, <1>6 DEF KeyFits
  <2>3. ~Alone(j)
    BY <1>4, <1>5, <1>6 DEF Alone, Trusted
  <2>4. Caught(j - 1, w.prev) => Caught(j, w.prev)
    BY <1>1, <2>3 DEF Caught
  <2> QED  BY <1>3, <2>1, <2>2, <2>4 DEF Follows
<1>7. ASSUME Log[j].key # None
      PROVE  KeyAt(w, Log[j]) = Author
  <2>1. CASE w.key # None
    BY <1>3, <2>1 DEF KeyAt, KeyFits
  <2>2. CASE w.key = None
    <3>1. \A i \in 1..(j - 1) : Log[i].key = None
      BY <1>1, <1>3, <2>2 DEF KeyFits
    <3> QED  BY <1>1, <1>7, <2>2, <3>1, AuthorIsFirst DEF KeyAt
  <2> QED  BY <2>1, <2>2
<1>8. KeyFits(Author, j)
  BY <1>5 DEF KeyFits
<1>9. CASE Log[j].key # None /\ ~Verified(w, j)
  <2>1. PICK c : c = Consider(w, j)
    OBVIOUS
  <2>2. c = [w EXCEPT !.key = Author]
    BY <1>7, <1>9, <2>1 DEF Consider
  <2>3. ASSUME Alone(j), Caught(j - 1, w.prev)
        PROVE  j \in Path[w.prev]
    <3>1. Log[j].key = Author
      BY <1>4, <2>3 DEF Alone, Trusted
    <3>2. s # w.prev
      BY <1>2, <1>5, <1>7, <1>9, <3>1 DEF Verified
    <3>3. s = 0 \/ s \in Path[w.prev]
      <4> SUFFICES ASSUME s # 0 PROVE s \in Path[w.prev]
        OBVIOUS
      <4>1. s \in 1..(j - 1) /\ s \in DOMAIN Log /\ s \in 1..Len(Log)
        BY <1>1
      <4>2. Path[s] \subseteq Path[j]
        BY <1>4
      <4>3. Alone(s)
        BY <2>3, <4>2 DEF Alone, Trusted
      <4> QED  BY <2>3, <4>1, <4>3 DEF Caught
    <3>4. PICK m \in Path[w.prev] : Log[m].signs = s
      BY <1>1, <3>2, <3>3, PathsFit DEF PathFits
    <3>5. m \in DOMAIN Log /\ Log[m].key = Author
      <4>1. Path[w.prev] \subseteq 1..w.prev
        BY <1>1, PathsFit DEF PathFits
      <4> QED  BY <1>1, <1>3, <4>1 DEF Listed, Trusted
    <3>6. m = j
      BY <1>2, <1>4, <2>3, <3>4, <3>5 DEF Alone
    <3> QED  BY <3>4, <3>6
  <2>4. Caught(j - 1, w.prev) => Caught(j, w.prev)
    BY <1>1, <2>3 DEF Caught
  <2>5. c.key = Author /\ c.prev = w.prev /\ c.added = w.added
    BY <2>2 DEF Work
  <2> QED  BY <1>3, <1>8, <2>1, <2>4, <2>5 DEF Follows
<1>10. CASE Log[j].key # None /\ Verified(w, j)
  <2>1. PICK c : c = Consider(w, j)
    OBVIOUS
  <2>2. PICK new : new = IF IsNew(w, j) THEN {Log[j].src} ELSE {}
    OBVIOUS
  <2>3. c = [key |-> Author, prev |-> j, added |-> w.added \cup new, plugins |-> w.plugins \cup new]
    BY <1>7, <1>10, <2>1, <2>2 DEF Consider
  <2>4. c.key = Author /\ c.prev = j /\ c.added = w.added \cup new
    BY <2>3
  <2>5. Log[j].key = Author /\ s = w.prev
    BY <1>2, <1>7, <1>10 DEF Verified
  <2>6. Trusted(j)
    BY <1>3, <1>4, <2>5 DEF Listed, Trusted
  <2>7. SourcesOf(Path[j]) \subseteq c.added
    BY <1>3, <1>4, <2>2, <2>4, <2>5 DEF Listed, SourcesOf, IsNew
  <2>8. new \subseteq Announced(n)
    BY <2>2, <2>6 DEF Announced, SourcesOf, IsNew
  <2>9. Caught(j - 1, w.prev) => Caught(j, j)
    BY <1>1, <1>4, <2>5 DEF Caught
  <2> QED  BY <1>3, <1>4, <1>8, <2>1, <2>4, <2>5, <2>6, <2>7, <2>8, <2>9 DEF Follows, Listed
<1> QED  BY <1>6, <1>9, <1>10

(* All comments of a page.                                                 *)
LEMMA PageGrows ==
  ASSUME NEW k \in Nat, NEW N \in 0..Len(Log), NEW n \in 0..N, NEW w0, Grows(w0, w0, N)
  PROVE  \A i \in 0..Len(PageOf(k, n)) : Grows(w0, Considered(w0, PageOf(k, n))[i], N)
<1>1. PICK js : js = PageOf(k, n)
  OBVIOUS
<1>2. Len(Log) \in Nat /\ n \in Nat
  BY LogAssumption
<1>3. Len(js) \in Nat /\ \A i \in 1..Len(js) : js[i] \in 1..n
  <2>1. /\ Len(js) \in Nat
        /\ \A i \in 1..Len(js) : js[i] = Before(k) + i /\ Before(k) + i \in 1..n
    BY <1>1, <1>2, PageFits
  <2> QED  BY <2>1
<1>4. PICK done : done = Considered(w0, js)
  OBVIOUS
<1>5. done[0] = w0 /\ \A i \in 1..Len(js) : done[i] = Consider(done[i - 1], js[i])
  BY <1>3, <1>4, ConsideredUnfolds
<1> DEFINE S == {i \in 0..Len(js) : Grows(w0, done[i], N)}
<1>6. ASSUME NEW i \in 0..Len(js), \A j \in 0..(i - 1) : j \in S
      PROVE  i \in S
  <2>1. CASE i = 0
    BY <1>5, <2>1
  <2>2. CASE i # 0
    <3>1. i \in 1..Len(js) /\ i - 1 \in 0..(i - 1)
      BY <1>3, <2>2
    <3>2. Grows(w0, done[i - 1], N)
      BY <1>6, <3>1
    <3>3. js[i] \in 1..N
      BY <1>2, <1>3, <3>1
    <3>4. Grows(w0, done[i], N)
      BY <1>5, <3>1, <3>2, <3>3, ConsiderGrows
    <3> QED  BY <3>4
  <2> QED  BY <2>1, <2>2
<1>7. \A i \in 0..Len(js) : i \in S
  <2> HIDE DEF S
  <2> QED  BY <1>3, <1>6, Induction
<1> QED  BY <1>1, <1>4, <1>7

(* All comments of a page, when the ones before it were looked at.         *)
LEMMA PageFollows ==
  ASSUME NEW k \in Nat, NEW N \in 0..Len(Log), NEW n \in 0..N, NEW w0, Grows(w0, w0, N),
         Follows(w0, Before(k), w0, Before(k), N)
  PROVE  \A i \in 0..Len(PageOf(k, n)) :
           Follows(w0, Before(k), Considered(w0, PageOf(k, n))[i], Before(k) + i, N)
<1>1. PICK js : js = PageOf(k, n)
  OBVIOUS
<1>2. PICK m0 \in Nat : m0 = Before(k)
  BY BeforeFits
<1>3. Len(Log) \in Nat /\ n \in Nat
  BY LogAssumption
<1>4. Len(js) \in Nat /\ \A i \in 1..Len(js) : js[i] = m0 + i /\ js[i] \in 1..n
  <2>1. /\ Len(js) \in Nat
        /\ \A i \in 1..Len(js) : js[i] = Before(k) + i /\ Before(k) + i \in 1..n
    BY <1>1, <1>3, PageFits
  <2> QED  BY <1>2, <2>1
<1>5. PICK done : done = Considered(w0, js)
  OBVIOUS
<1>6. done[0] = w0 /\ \A i \in 1..Len(js) : done[i] = Consider(done[i - 1], js[i])
  BY <1>4, <1>5, ConsideredUnfolds
<1>7. \A i \in 0..Len(js) : done[i] \in Work(N)
  BY <1>1, <1>5, PageGrows DEF Grows
<1> DEFINE S == {i \in 0..Len(js) : Follows(w0, m0, done[i], m0 + i, N)}
<1>8. ASSUME NEW i \in 0..Len(js), \A j \in 0..(i - 1) : j \in S
      PROVE  i \in S
  <2>1. CASE i = 0
    BY <1>2, <1>6, <2>1
  <2>2. CASE i # 0
    <3>1. i \in 1..Len(js) /\ i - 1 \in 0..(i - 1) /\ i - 1 \in 0..Len(js)
      BY <1>4, <2>2
    <3>2. PICK j \in 1..N : j = m0 + i /\ j - 1 = m0 + (i - 1) /\ j = js[i]
      <4>1. js[i] = m0 + i /\ js[i] \in 1..N
        BY <1>3, <1>4, <3>1
      <4>2. (m0 + i) - 1 = m0 + (i - 1)
        BY <1>2, <3>1
      <4> QED  BY <4>1, <4>2
    <3>3. Follows(w0, m0, done[i - 1], j - 1, N)
      BY <1>8, <3>1, <3>2
    <3>4. Follows(w0, m0, Consider(done[i - 1], j), j, N)
      BY <1>7, <3>1, <3>3, ConsiderFollows
    <3>5. Follows(w0, m0, done[i], m0 + i, N)
      BY <1>6, <3>1, <3>2, <3>4
    <3> QED  BY <3>5
  <2> QED  BY <2>1, <2>2
<1>9. \A i \in 0..Len(js) : i \in S
  <2> HIDE DEF S
  <2> QED  BY <1>4, <1>8, Induction
<1> QED  BY <1>1, <1>2, <1>5, <1>9

-----------------------------------------------------------------------------
(* The steps: types and growth.                                            *)

(* The lists only grow, and nothing that was added before comes back but   *)
(* by hand.                                                                *)
KeepsAway == /\ added \subseteq added'
             /\ \A s \in added \ plugins : s \in plugins' => InsertLibrary(s)

(* A reload that runs has a page and a page number.                        *)
LEMMA RunsFit ==
  ASSUME TypeOK, NEW r \in Reloads, Runs(r)
  PROVE  /\ reload[r] \in Reload
         /\ reload[r].view \in Views /\ view[reload[r].view] \in View
         /\ reload[r].page \in Nat /\ reload[r].asked \in 0..Len(Log)
<1>1. Len(Log) \in Nat
  BY LogAssumption
<1> QED  BY <1>1 DEF TypeOK, Runs, Reload, Pages

(* What update() begins with.                                              *)
LEMMA StartedFits ==
  ASSUME TypeOK, NEW r \in Reloads, Runs(r)
  PROVE  /\ Grows(Started(r), Started(r), posted)
         /\ Started(r).key = view[reload[r].view].key
         /\ Started(r).prev = (IF reload[r].page = 0 THEN 0 ELSE prev)
         /\ Started(r).added = added /\ Started(r).plugins = plugins
<1>1. view[reload[r].view].key \in Keys \cup {None}
  BY RunsFit DEF View
<1>2. posted \in Nat /\ prev \in 0..posted /\ added \subseteq Sources /\ plugins \subseteq Sources
  BY LogAssumption DEF TypeOK
<1> QED  BY <1>1, <1>2 DEF Started, Grows, Work

(* The end of the process.                                                 *)
LEMMA EndsFit ==
  ASSUME TypeOK, ProcessEnds, Edit, added' \subseteq Sources, plugins' \subseteq Sources
  PROVE  TypeOK'
<1>1. Len(Log) \in Nat /\ posted \in 0..Len(Log)
  BY LogAssumption DEF TypeOK
<1>2. Closed \in View /\ Idle \in Reload
  BY <1>1 DEF Closed, View, Idle, Reload, Pages
<1>3. edits' \in 0..MaxEdits
  BY BoundAssumption DEF Edit, TypeOK
<1> QED  BY <1>1, <1>2, <1>3 DEF TypeOK, ProcessEnds

(* A reload that begins.                                                   *)
LEMMA BeginFits ==
  ASSUME TypeOK, NEW r \in Reloads, NEW v \in Views, Begin(r, v)
  PROVE  view' \in [Views -> View] /\ reload' \in [Reloads -> Reload]
<1>1. Len(Log) \in Nat /\ posted \in 0..Len(Log)
  BY LogAssumption DEF TypeOK
<1>2. /\ [open |-> TRUE, loading |-> TRUE, key |-> None] \in View
      /\ [view |-> v, page |-> 0, asked |-> posted] \in Reload
  BY <1>1 DEF View, Reload, Pages
<1> QED  BY <1>2 DEF Begin, TypeOK

(* An answer.                                                              *)
LEMMA AnswerFits ==
  ASSUME TypeOK, NEW r \in Reloads, NEW n \in reload[r].asked..posted, Answer(r, n)
  PROVE  TypeOK' /\ KeepsAway
<1>1. Runs(r) /\ UNCHANGED <<posted, edits>>
  BY DEF Answer
<1>2. /\ Len(Log) \in Nat /\ posted \in 0..Len(Log) /\ n \in 0..posted /\ n \in Nat
      /\ view \in [Views -> View] /\ reload \in [Reloads -> Reload]
  BY <1>1, RunsFit, LogAssumption DEF TypeOK
<1>3. PICK k \in Nat : k = reload[r].page
  BY <1>1, RunsFit
<1>4. PICK v \in Views : v = reload[r].view
  BY <1>1, RunsFit
<1>5. PICK js : js = PageOf(k, n)
  OBVIOUS
<1>6. PICK w : w = Considered(Started(r), js)[Len(js)]
  OBVIOUS
<1>7. Len(js) \in Nat
  BY <1>2, <1>5, PageFits
<1>8. Grows(Started(r), w, posted)
  BY <1>1, <1>2, <1>5, <1>6, <1>7, StartedFits, PageGrows
<1>9. w \in Work(posted) /\ added \subseteq w.added /\ \A s \in w.plugins : s \in plugins \/ s \notin added
  BY <1>1, <1>8, StartedFits DEF Grows
<1>10. PICK more \in BOOLEAN : more = HasMore(js)
  <2>1. HasMore(js) \in BOOLEAN
    BY DEF HasMore
  <2> QED  BY <2>1
<1>11. /\ prev' = w.prev /\ added' = w.added /\ plugins' = w.plugins
       /\ last' = IF k = 0 THEN r ELSE last
       /\ view' = [view EXCEPT ![v].key = w.key, ![v].loading = @ /\ more]
       /\ reload' = [reload EXCEPT ![r] =
                        IF more THEN [view |-> v, page |-> k + 1, asked |-> posted] ELSE Idle]
       /\ due' = (due /\ more)
  BY <1>3, <1>4, <1>5, <1>6, <1>10 DEF Answer
<1>12. KeepsAway
  BY <1>9, <1>11 DEF KeepsAway
<1>13. /\ prev' \in 0..posted /\ added' \subseteq Sources /\ plugins' \subseteq Sources
       /\ w.key \in Keys \cup {None}
  BY <1>9, <1>11 DEF Work
<1>14. view' \in [Views -> View]
  <2>1. view[v] \in View
    BY <1>2
  <2>2. PICK x \in View : x = [view[v] EXCEPT !.key = w.key, !.loading = @ /\ more]
    BY <1>13, <2>1 DEF View
  <2>3. view' = [view EXCEPT ![v] = x]
    BY <1>2, <1>11, <2>2
  <2> QED  BY <1>2, <2>2, <2>3
<1>15. reload' \in [Reloads -> Reload]
  <2>1. more => [view |-> v, page |-> k + 1, asked |-> posted] \in Reload
    <3>1. more => k - 1 + 1 <= n
      <4>1. PageSize \in Nat \ {0}
        BY PageAssumption
      <4>2. more => Before(k) + PageSize <= n
        BY <1>2, <1>5, <1>10, PageFits
      <4>3. k - 1 <= Before(k) /\ Before(k) \in Nat
        BY BeforeFits
      <4> QED  BY <1>2, <4>1, <4>2, <4>3
    <3>2. more => k + 1 \in Pages
      BY <1>2, <3>1 DEF Pages
    <3> QED  BY <1>2, <3>2 DEF Reload
  <2>2. Idle \in Reload
    BY <1>2 DEF Idle, Reload, Pages
  <2> QED  BY <1>2, <1>11, <2>1, <2>2
<1>16. last' \in Reloads \cup {None} /\ due' \in BOOLEAN
  BY <1>11 DEF TypeOK
<1>17. TypeOK'
  BY <1>1, <1>2, <1>13, <1>14, <1>15, <1>16 DEF TypeOK
<1> QED  BY <1>12, <1>17

(* The end of the process inside update(): `added` is what the comment it  *)
(* stopped at leaves, `plugins` what the one before it left.               *)
CrashAfter(r, n, i) ==
  LET done == Considered(Started(r), PageOf(reload[r].page, n)) IN
  /\ i \in 1..Len(PageOf(reload[r].page, n))
  /\ added' = done[i].added
  /\ plugins' = done[i - 1].plugins

(* It is one of these ends.                                                *)
LEMMA CrashIsAfter ==
  ASSUME TypeOK, NEW r \in Reloads, NEW n \in reload[r].asked..posted, CrashInUpdate(r, n)
  PROVE  Runs(r) /\ ProcessEnds /\ Edit /\ \E i \in Nat : CrashAfter(r, n, i)
<1>1. Runs(r) /\ ProcessEnds /\ Edit
  BY DEF CrashInUpdate
<1>2. n \in Nat
  BY <1>1, RunsFit, LogAssumption DEF TypeOK
<1>3. PICK k \in Nat : k = reload[r].page
  BY <1>1, RunsFit
<1>4. PICK js : js = PageOf(k, n)
  OBVIOUS
<1>5. Len(js) \in Nat /\ DOMAIN js = 1..Len(js)
  BY <1>2, <1>4, PageFits
<1>6. PICK done : done = Considered(Started(r), js)
  OBVIOUS
<1>7. PICK i \in 1..Len(js) : /\ Log[js[i]].key # None /\ Verified(done[i - 1], js[i])
                             /\ IsNew(done[i - 1], js[i])
                             /\ added' = done[i - 1].added \cup {Log[js[i]].src}
                             /\ plugins' = done[i - 1].plugins
  BY <1>3, <1>4, <1>5, <1>6 DEF CrashInUpdate
<1>8. done[i] = Consider(done[i - 1], js[i])
  BY <1>5, <1>6, ConsideredUnfolds
<1>9. done[i].added = done[i - 1].added \cup {Log[js[i]].src}
  BY <1>7, <1>8 DEF Consider
<1>10. CrashAfter(r, n, i)
  BY <1>3, <1>4, <1>6, <1>7, <1>9 DEF CrashAfter
<1> QED  BY <1>1, <1>5, <1>10

(* Every step.                                                             *)
LEMMA NextGrows ==
  ASSUME TypeOK, Next
  PROVE  TypeOK' /\ KeepsAway
<1>1. /\ Len(Log) \in Nat /\ posted \in 0..Len(Log)
      /\ view \in [Views -> View] /\ reload \in [Reloads -> Reload]
      /\ Closed \in View /\ Idle \in Reload
  BY LogAssumption DEF TypeOK, Closed, View, Idle, Reload, Pages
<1>2. ASSUME NEW v \in Views, Open(v) \/ Refresh(v) \/ Close(v)
      PROVE  TypeOK' /\ KeepsAway
  <2>1. UNCHANGED <<posted, plugins, added, prev, due, last, edits>>
    BY <1>2 DEF Open, Refresh, Close
  <2>2. view' \in [Views -> View] /\ reload' \in [Reloads -> Reload]
    <3>1. CASE \E r \in Reloads : Begin(r, v)
      BY <3>1, BeginFits
    <3>2. CASE /\ reload' = reload
               /\ \/ view' = [view EXCEPT ![v] = [Closed EXCEPT !.open = TRUE]]
                  \/ view' = [view EXCEPT ![v].open = FALSE]
      <4>1. [Closed EXCEPT !.open = TRUE] \in View /\ [view[v] EXCEPT !.open = FALSE] \in View
        BY <1>1 DEF View
      <4>2. [view EXCEPT ![v].open = FALSE] = [view EXCEPT ![v] = [view[v] EXCEPT !.open = FALSE]]
        BY <1>1
      <4> QED  BY <1>1, <3>2, <4>1, <4>2
    <3> QED  BY <1>2, <3>1, <3>2 DEF Open, Refresh, Close
  <2> QED  BY <2>1, <2>2 DEF TypeOK, KeepsAway
<1>3. ASSUME NEW r \in Reloads, RequestFails(r)
      PROVE  TypeOK' /\ KeepsAway
  BY <1>1, <1>3 DEF RequestFails, TypeOK, KeepsAway
<1>4. ASSUME NEW r \in Reloads, NEW n \in reload[r].asked..posted, Answer(r, n)
      PROVE  TypeOK' /\ KeepsAway
  BY <1>4, AnswerFits
<1>5. ASSUME NEW r \in Reloads, NEW n \in reload[r].asked..posted, CrashInUpdate(r, n)
      PROVE  TypeOK' /\ KeepsAway
  <2>1. Runs(r) /\ ProcessEnds /\ Edit
    BY <1>5, CrashIsAfter
  <2>2. PICK i \in Nat : CrashAfter(r, n, i)
    BY <1>5, CrashIsAfter
  <2>3. PICK done : done = Considered(Started(r), PageOf(reload[r].page, n))
    OBVIOUS
  <2>4. reload[r].page \in Nat /\ n \in 0..posted
    BY <1>1, <2>1, RunsFit
  <2>5. Len(PageOf(reload[r].page, n)) \in Nat
    BY <1>1, <2>4, PageFits
  <2>6. /\ i \in 0..Len(PageOf(reload[r].page, n)) /\ i - 1 \in 0..Len(PageOf(reload[r].page, n))
        /\ added' = done[i].added /\ plugins' = done[i - 1].plugins
    BY <2>2, <2>3, <2>5 DEF CrashAfter
  <2>7. Grows(Started(r), done[i], posted) /\ Grows(Started(r), done[i - 1], posted)
    BY <1>1, <2>1, <2>3, <2>4, <2>6, StartedFits, PageGrows
  <2>8. added' \subseteq Sources /\ plugins' \subseteq Sources
    BY <2>6, <2>7 DEF Grows, Work
  <2>9. KeepsAway
    BY <2>1, <2>6, <2>7, StartedFits DEF Grows, KeepsAway
  <2> QED  BY <2>1, <2>8, <2>9, EndsFit
<1>6. ASSUME NEW s \in Sources, RemovePlugin(s) \/ InsertLibrary(s)
      PROVE  TypeOK' /\ KeepsAway
  <2>1. edits' \in 0..MaxEdits
    BY <1>6, BoundAssumption DEF RemovePlugin, InsertLibrary, Edit, TypeOK
  <2>2. KeepsAway
    <3>1. CASE RemovePlugin(s)
      BY <3>1 DEF RemovePlugin, KeepsAway
    <3>2. CASE InsertLibrary(s)
      <4>1. added' = added /\ plugins' = plugins \cup {s}
        BY <3>2 DEF InsertLibrary
      <4> QED  BY <3>2, <4>1 DEF KeepsAway
    <3> QED  BY <1>6, <3>1, <3>2
  <2> QED  BY <1>6, <2>1, <2>2 DEF RemovePlugin, InsertLibrary, TypeOK
<1>7. CASE Post \/ HourPasses
  <2>1. CASE Post
    <3>1. posted' \in 0..Len(Log) /\ prev' \in 0..posted'
      BY <1>1, <2>1 DEF Post, TypeOK
    <3> QED  BY <2>1, <3>1 DEF Post, TypeOK, KeepsAway
  <2>2. CASE HourPasses
    BY <2>2 DEF HourPasses, TypeOK, KeepsAway
  <2> QED  BY <1>7, <2>1, <2>2
<1>8. CASE Restart
  <2>1. ProcessEnds /\ Edit /\ plugins' = plugins /\ added' = added
    BY <1>8 DEF Restart
  <2> QED  BY <2>1, EndsFit DEF TypeOK, KeepsAway
<1> QED  BY <1>2, <1>3, <1>4, <1>5, <1>6, <1>7, <1>8 DEF Next

-----------------------------------------------------------------------------
(* The steps: the author's chain.                                          *)

(* A page has one reload at most, which has it show that it loads.         *)
OneRunEach ==
  /\ \A r, s \in Reloads : Runs(r) /\ Runs(s) /\ reload[r].view = reload[s].view => r = s
  /\ \A r \in Reloads : Runs(r) => view[reload[r].view].loading

(* It has looked at the comments before the page it waits for.             *)
RunsFollow ==
  \A r \in Reloads : Runs(r) =>
    /\ KeyFits(view[reload[r].view].key, Before(reload[r].page))
    /\ last = r => Caught(Before(reload[r].page), prev)

ChainInv ==
  /\ OneRunEach
  /\ RunsFollow
  /\ Listed(prev, added)
  /\ added \subseteq Announced(posted)

(* When a page stops to show that it loads, its reload has caught all.     *)
Completes ==
  \A r \in Reloads :
    Runs(r) /\ ~Runs(r)' /\ last' = r /\ ~view'[reload[r].view].loading =>
      SourcesOf({j \in 1..reload[r].asked : Alone(j)}) \subseteq added'

(* Nothing is behind 0.                                                    *)
LEMMA NoneBehind == \A a : Listed(0, a) /\ Caught(0, 0) /\ KeyFits(None, 0)
  BY PathStep DEF Listed, Trusted, SourcesOf, Caught, KeyFits

(* What was announced stays announced.                                     *)
LEMMA AnnouncedGrows ==
  ASSUME NEW m \in Nat, NEW n \in Nat, m <= n
  PROVE  Announced(m) \subseteq Announced(n)
  BY DEF Announced, SourcesOf

(* What holds of the first m holds of fewer.                               *)
LEMMA FewerFit ==
  ASSUME NEW m \in Nat, NEW n \in Nat, m <= n
  PROVE  /\ \A key : KeyFits(key, n) => KeyFits(key, m)
         /\ \A p : Caught(n, p) => Caught(m, p)
  BY DEF KeyFits, Caught

(* What update() begins with follows the chain.                            *)
LEMMA StartedFollows ==
  ASSUME TypeOK, ChainInv, NEW r \in Reloads, Runs(r), NEW m, m = Before(reload[r].page)
  PROVE  Follows(Started(r), m, Started(r), m, posted)
<1>1. PICK w : w = Started(r)
  OBVIOUS
<1>2. /\ w.key = view[reload[r].view].key
      /\ w.prev = IF reload[r].page = 0 THEN 0 ELSE prev
      /\ w.added = added
  BY <1>1, StartedFits
<1>3. KeyFits(w.key, m)
  BY <1>2 DEF ChainInv, RunsFollow
<1>4. Listed(w.prev, w.added)
  BY <1>2, NoneBehind DEF ChainInv
<1>5. w.added \subseteq Announced(posted)
  BY <1>2 DEF ChainInv
<1> QED  BY <1>1, <1>3, <1>4, <1>5 DEF Follows

(* An answer.                                                              *)
LEMMA AnswerFollows ==
  ASSUME TypeOK, ChainInv, NEW r \in Reloads, NEW n \in reload[r].asked..posted, Answer(r, n)
  PROVE  ChainInv' /\ Completes
<1>1. Runs(r) /\ posted' = posted
  BY DEF Answer
<1>2. /\ Len(Log) \in Nat /\ posted \in 0..Len(Log) /\ n \in 0..posted /\ n \in Nat
      /\ view \in [Views -> View] /\ reload \in [Reloads -> Reload]
      /\ reload[r].asked \in Nat /\ reload[r].asked <= n
  BY <1>1, RunsFit, LogAssumption DEF TypeOK
<1>3. PICK k \in Nat : k = reload[r].page
  BY <1>1, RunsFit
<1>4. PICK v \in Views : v = reload[r].view
  BY <1>1, RunsFit
<1>5. PICK js : js = PageOf(k, n)
  OBVIOUS
<1>6. PICK w : w = Considered(Started(r), js)[Len(js)]
  OBVIOUS
<1>7. Len(js) \in Nat /\ Before(k) \in Nat /\ Before(k + 1) \in Nat
  <2>1. Len(js) \in Nat
    BY <1>2, <1>5, PageFits
  <2>2. Before(k) \in Nat
    BY BeforeFits
  <2>3. k + 1 \in Nat
    OBVIOUS
  <2>4. Before(k + 1) \in Nat
    BY <2>3, BeforeFits
  <2> QED  BY <2>1, <2>2, <2>4
<1>8. PICK m \in Nat : m = Before(k) + Len(js)
  BY <1>7
<1>9. Follows(Started(r), Before(k), w, m, posted)
  <2>1. Grows(Started(r), Started(r), posted)
    BY <1>1, StartedFits
  <2>2. Follows(Started(r), Before(k), Started(r), Before(k), posted)
    BY <1>1, <1>3, StartedFollows
  <2>3. Len(js) \in 0..Len(js)
    BY <1>7
  <2>4. \A i \in 0..Len(js) :
          Follows(Started(r), Before(k), Considered(Started(r), js)[i], Before(k) + i, posted)
    BY <1>2, <1>5, <2>1, <2>2, PageFollows
  <2> QED  BY <1>6, <1>8, <2>3, <2>4
<1>10. PICK more : more = HasMore(js)
  OBVIOUS
<1>11. /\ prev' = w.prev /\ added' = w.added
       /\ last' = IF k = 0 THEN r ELSE last
       /\ view' = [view EXCEPT ![v].key = w.key, ![v].loading = @ /\ more]
       /\ reload' = [reload EXCEPT ![r] =
                        IF more THEN [view |-> v, page |-> k + 1, asked |-> posted] ELSE Idle]
  BY <1>3, <1>4, <1>5, <1>6, <1>10 DEF Answer
<1>12. /\ KeyFits(w.key, m) /\ Listed(w.prev, w.added) /\ w.added \subseteq Announced(posted)
       /\ k # 0 => Path[prev] \subseteq Path[w.prev]
       /\ Caught(Before(k), IF k = 0 THEN 0 ELSE prev) => Caught(m, w.prev)
  BY <1>1, <1>3, <1>9, StartedFits DEF Follows
<1>13. last' = r => Caught(m, w.prev)
  <2>1. CASE k = 0
    BY <1>12, <2>1, NoneBehind, BeforeFits
  <2>2. CASE k # 0
    BY <1>1, <1>3, <1>11, <1>12, <2>2 DEF ChainInv, RunsFollow
  <2> QED  BY <2>1, <2>2
<1>14. /\ view'[v].key = w.key
       /\ more => view'[v].loading = view[v].loading
       /\ \A u \in Views \ {v} : view'[u] = view[u]
  BY <1>2, <1>11 DEF View
<1>15. /\ more => reload'[r].view = v /\ reload'[r].page = k + 1
       /\ ~more => reload'[r].view = None
       /\ \A s \in Reloads \ {r} : reload'[s] = reload[s]
  BY <1>2, <1>11 DEF Idle
<1>16. \A s \in Reloads \ {r} : Runs(s) => reload[s].view \in Views \ {v}
  BY <1>1, <1>4, RunsFit DEF ChainInv, OneRunEach
<1>17. v # None
  BY ViewsAssumption
<1>18. OneRunEach'
  <2>1. \A s \in Reloads \ {r} : Runs(s)' => Runs(s) /\ reload'[s].view = reload[s].view
    BY <1>15 DEF Runs
  <2>2. Runs(r)' => more /\ reload'[r].view = v
    BY <1>15 DEF Runs
  <2>3. \A s, t \in Reloads : Runs(s)' /\ Runs(t)' /\ reload'[s].view = reload'[t].view => s = t
    BY <1>16, <2>1, <2>2 DEF ChainInv, OneRunEach
  <2>4. \A s \in Reloads : Runs(s)' => view'[reload'[s].view].loading
    BY <1>1, <1>4, <1>14, <1>16, <2>1, <2>2 DEF ChainInv, OneRunEach
  <2> QED  BY <2>3, <2>4 DEF OneRunEach
<1>19. RunsFollow'
  <2> SUFFICES ASSUME NEW s \in Reloads, Runs(s)'
               PROVE  /\ KeyFits(view'[reload'[s].view].key, Before(reload'[s].page))
                      /\ last' = s => Caught(Before(reload'[s].page), prev')
    BY DEF RunsFollow, KeyFits, Caught
  <2>1. CASE s = r
    <3>1. more /\ reload'[r].view = v /\ reload'[r].page = k + 1
      BY <1>15, <2>1 DEF Runs
    <3>2. Before(k + 1) <= m
      <4>1. Len(js) = PageSize
        BY <1>2, <1>5, <1>10, <3>1, PageFits
      <4> QED  BY <1>8, <4>1, BeforeFits
    <3>3. KeyFits(w.key, Before(k + 1)) /\ (last' = r => Caught(Before(k + 1), w.prev))
      BY <1>7, <1>12, <1>13, <3>2, FewerFit
    <3> QED  BY <1>11, <1>14, <2>1, <3>1, <3>3
  <2>2. CASE s # r
    <3>1. Runs(s) /\ reload'[s] = reload[s]
      BY <1>15, <2>2 DEF Runs
    <3>2. view'[reload[s].view] = view[reload[s].view]
      BY <1>14, <1>16, <2>2, <3>1
    <3>3. KeyFits(view[reload[s].view].key, Before(reload[s].page))
      BY <3>1 DEF ChainInv, RunsFollow
    <3>4. ASSUME last' = s PROVE Caught(Before(reload[s].page), w.prev)
      <4>1. k # 0 /\ last = s
        BY <1>11, <2>2, <3>4
      <4>2. Caught(Before(reload[s].page), prev)
        BY <3>1, <4>1 DEF ChainInv, RunsFollow
      <4> QED  BY <1>12, <4>1, <4>2 DEF Caught
    <3> QED  BY <1>11, <3>1, <3>2, <3>3, <3>4
  <2> QED  BY <2>1, <2>2
<1>20. ChainInv'
  <2>1. Listed(prev, added)' /\ (added \subseteq Announced(posted))'
    BY <1>1, <1>11, <1>12 DEF Listed, Trusted, SourcesOf, Announced
  <2> QED  BY <1>18, <1>19, <2>1 DEF ChainInv
<1>21. Completes
  <2> SUFFICES ASSUME NEW s \in Reloads, Runs(s), ~Runs(s)', last' = s
               PROVE  SourcesOf({j \in 1..reload[s].asked : Alone(j)}) \subseteq added'
    BY DEF Completes
  <2>1. s = r /\ ~more
    BY <1>15, <1>17 DEF Runs
  <2>2. n <= m
    BY <1>2, <1>5, <1>8, <1>10, <2>1, PageFits
  <2>3. \A j \in 1..reload[r].asked : j \in DOMAIN Log /\ j \in 1..m
    BY <1>2, <2>2, LogAssumption
  <2>4. \A j \in 1..reload[r].asked : Alone(j) => j \in Path[w.prev]
    BY <1>13, <2>1, <2>3 DEF Caught
  <2> QED  BY <1>11, <1>12, <2>1, <2>4 DEF Listed, SourcesOf
<1> QED  BY <1>20, <1>21

(* A reload that begins, on a page that has none.                          *)
LEMMA BeginFollows ==
  ASSUME TypeOK, ChainInv, NEW r \in Reloads, NEW v \in Views, Begin(r, v),
         \A s \in Reloads : Runs(s) => reload[s].view # v,
         UNCHANGED <<posted, added, prev, last>>
  PROVE  ChainInv' /\ Completes
<1>1. /\ view \in [Views -> View] /\ reload \in [Reloads -> Reload] /\ v # None
      /\ \A s \in Reloads : Runs(s) => reload[s].view \in Views
  BY ViewsAssumption, RunsFit DEF TypeOK
<1>2. /\ reload[r].view = None
      /\ reload'[r].view = v /\ reload'[r].page = 0
      /\ view'[v].loading /\ view'[v].key = None
  BY <1>1 DEF Begin, Idle
<1>3. /\ \A s \in Reloads \ {r} : reload'[s] = reload[s]
      /\ \A u \in Views \ {v} : view'[u] = view[u]
  BY <1>1 DEF Begin
<1>4. /\ \A s \in Reloads \ {r} : Runs(s)' <=> Runs(s)
      /\ ~Runs(r) /\ Runs(r)'
  BY <1>1, <1>2, <1>3 DEF Runs
<1>5. \A s \in Reloads \ {r} : Runs(s) => view'[reload[s].view] = view[reload[s].view]
  BY <1>1, <1>3
<1>6. OneRunEach'
  <2>1. \A s, t \in Reloads : Runs(s)' /\ Runs(t)' /\ reload'[s].view = reload'[t].view => s = t
    BY <1>2, <1>3, <1>4 DEF ChainInv, OneRunEach
  <2>2. \A s \in Reloads : Runs(s)' => view'[reload'[s].view].loading
    BY <1>2, <1>3, <1>4, <1>5 DEF ChainInv, OneRunEach
  <2> QED  BY <2>1, <2>2 DEF OneRunEach
<1>7. RunsFollow'
  <2> SUFFICES ASSUME NEW s \in Reloads, Runs(s)'
               PROVE  /\ KeyFits(view'[reload'[s].view].key, Before(reload'[s].page))
                      /\ last' = s => Caught(Before(reload'[s].page), prev')
    BY DEF RunsFollow, KeyFits, Caught
  <2>1. CASE s = r
    <3>1. Before(0) = 0
      BY BeforeFits
    <3>2. KeyFits(None, 0) /\ Caught(0, prev')
      BY NoneBehind DEF Caught
    <3> QED  BY <1>2, <2>1, <3>1, <3>2
  <2>2. CASE s # r
    BY <1>3, <1>4, <1>5, <2>2 DEF ChainInv, RunsFollow
  <2> QED  BY <2>1, <2>2
<1>8. ChainInv'
  <2>1. Listed(prev, added)' /\ (added \subseteq Announced(posted))'
    BY DEF ChainInv, Listed, Trusted, SourcesOf, Announced
  <2> QED  BY <1>6, <1>7, <2>1 DEF ChainInv
<1>9. Completes
  BY <1>4 DEF Completes
<1> QED  BY <1>8, <1>9

(* Steps that begin no reload and look at no comment.                      *)
LEMMA OthersFollow ==
  ASSUME TypeOK, ChainInv, posted' \in Nat, posted <= posted', UNCHANGED <<added, prev, last>>,
         \A s \in Reloads : Runs(s)' => reload'[s] = reload[s],
         \A s \in Reloads : Runs(s) =>
           /\ view'[reload[s].view].key = view[reload[s].view].key
           /\ view'[reload[s].view].loading = view[reload[s].view].loading
  PROVE  ChainInv' /\ Completes
<1>1. \A s \in Reloads : Runs(s)' => Runs(s)
  BY DEF Runs
<1>2. OneRunEach'
  <2>1. \A s, t \in Reloads : Runs(s)' /\ Runs(t)' /\ reload'[s].view = reload'[t].view => s = t
    BY <1>1 DEF ChainInv, OneRunEach
  <2>2. \A s \in Reloads : Runs(s)' => view'[reload'[s].view].loading
    BY <1>1 DEF ChainInv, OneRunEach
  <2> QED  BY <2>1, <2>2 DEF OneRunEach
<1>3. RunsFollow'
  <2>1. ASSUME NEW s \in Reloads, Runs(s)'
        PROVE  /\ KeyFits(view'[reload'[s].view].key, Before(reload'[s].page))
               /\ last' = s => Caught(Before(reload'[s].page), prev')
    BY <1>1, <2>1 DEF ChainInv, RunsFollow
  <2> QED  BY <2>1 DEF RunsFollow, KeyFits, Caught
<1>4. Listed(prev, added)'
  BY DEF ChainInv, Listed, Trusted, SourcesOf
<1>5. (added \subseteq Announced(posted))'
  <2>1. posted \in Nat
    BY LogAssumption DEF TypeOK
  <2>2. Announced(posted) \subseteq Announced(posted')
    BY <2>1, AnnouncedGrows
  <2>3. added' \subseteq Announced(posted')
    BY <2>2 DEF ChainInv
  <2> QED  BY <2>3 DEF Announced, SourcesOf, Trusted
<1>6. Completes
  BY DEF Completes, ChainInv, OneRunEach
<1> QED  BY <1>2, <1>3, <1>4, <1>5, <1>6 DEF ChainInv

(* The end of the process.                                                 *)
LEMMA EndFollows ==
  ASSUME TypeOK, ProcessEnds, added' \subseteq Announced(posted)
  PROVE  ChainInv' /\ Completes
<1>1. \A r \in Reloads : ~Runs(r)'
  BY DEF ProcessEnds, Idle, Runs
<1>2. OneRunEach' /\ RunsFollow'
  BY <1>1 DEF OneRunEach, RunsFollow
<1>3. Listed(prev, added)'
  <2>1. Listed(0, added')
    BY NoneBehind
  <2> QED  BY <2>1 DEF ProcessEnds, Listed, Trusted, SourcesOf
<1>4. (added \subseteq Announced(posted))'
  BY DEF ProcessEnds, Announced, SourcesOf, Trusted
<1>5. Completes
  BY ViewsAssumption DEF Completes, ProcessEnds
<1> QED  BY <1>2, <1>3, <1>4, <1>5 DEF ChainInv

(* Every step, when a page that loads is not refreshed.                    *)
LEMMA NextFollows ==
  ASSUME ~Overlap, TypeOK, ChainInv, Next
  PROVE  ChainInv' /\ Completes
<1>1. /\ Len(Log) \in Nat /\ posted \in 0..Len(Log) /\ posted \in Nat
      /\ view \in [Views -> View] /\ reload \in [Reloads -> Reload]
      /\ added \subseteq Announced(posted)
  BY LogAssumption DEF TypeOK, ChainInv
<1>2. ASSUME NEW v \in Views, Open(v) \/ Refresh(v) \/ Close(v)
      PROVE  ChainInv' /\ Completes
  <2>1. UNCHANGED <<posted, added, prev, last>>
    BY <1>2 DEF Open, Refresh, Close
  <2>2. CASE \E r \in Reloads : (Open(v) \/ Refresh(v)) /\ Begin(r, v)
    <3>1. \A s \in Reloads : Runs(s) => reload[s].view # v
      BY <2>2 DEF Open, Refresh, RunsOn, ChainInv, OneRunEach
    <3> QED  BY <2>1, <2>2, <3>1, BeginFollows
  <2>3. CASE Open(v) /\ reload' = reload /\ view' = [view EXCEPT ![v] = [Closed EXCEPT !.open = TRUE]]
    <3>1. \A s \in Reloads : Runs(s) => view'[reload[s].view] = view[reload[s].view]
      BY <1>1, <2>3, RunsFit DEF Open, RunsOn
    <3>2. posted' \in Nat /\ posted <= posted' /\ UNCHANGED <<added, prev, last>>
      BY <1>1, <2>1
    <3>3. \A s \in Reloads : Runs(s)' => reload'[s] = reload[s]
      BY <2>3
    <3> QED  BY <3>1, <3>2, <3>3, OthersFollow
  <2>4. CASE Close(v)
    <3>1. reload' = reload
      BY <2>4 DEF Close
    <3>2. \A u \in Views : view'[u].key = view[u].key /\ view'[u].loading = view[u].loading
      BY <1>1, <2>4 DEF Close, View
    <3> QED  BY <1>1, <2>1, <3>1, <3>2, RunsFit, OthersFollow
  <2> QED  BY <1>2, <2>2, <2>3, <2>4 DEF Open, Refresh
<1>3. ASSUME NEW r \in Reloads, RequestFails(r)
      PROVE  ChainInv' /\ Completes
  <2>1. UNCHANGED <<posted, added, prev, last, view>>
    BY <1>3 DEF RequestFails
  <2>2. \A s \in Reloads : Runs(s)' => reload'[s] = reload[s]
    BY <1>1, <1>3 DEF RequestFails, Runs, Idle
  <2> QED  BY <1>1, <2>1, <2>2, OthersFollow
<1>4. ASSUME NEW r \in Reloads, NEW n \in reload[r].asked..posted, Answer(r, n)
      PROVE  ChainInv' /\ Completes
  BY <1>4, AnswerFollows
<1>5. ASSUME NEW r \in Reloads, NEW n \in reload[r].asked..posted, CrashInUpdate(r, n)
      PROVE  ChainInv' /\ Completes
  <2>1. Runs(r) /\ ProcessEnds
    BY <1>5, CrashIsAfter
  <2>2. PICK i \in Nat : CrashAfter(r, n, i)
    BY <1>5, CrashIsAfter
  <2>3. PICK k \in Nat : k = reload[r].page
    BY <2>1, RunsFit
  <2>4. PICK js : js = PageOf(k, n)
    OBVIOUS
  <2>5. n \in 0..posted /\ n \in Nat
    BY <1>1, <2>1, RunsFit
  <2>6. Len(js) \in Nat
    BY <2>4, <2>5, PageFits
  <2>7. i \in 0..Len(js) /\ added' = Considered(Started(r), js)[i].added
    BY <2>2, <2>3, <2>4, <2>6 DEF CrashAfter
  <2>8. Grows(Started(r), Started(r), posted)
    BY <2>1, StartedFits
  <2>9. Follows(Started(r), Before(k), Started(r), Before(k), posted)
    BY <2>1, <2>3, StartedFollows
  <2>10. \A j \in 0..Len(js) :
           Follows(Started(r), Before(k), Considered(Started(r), js)[j], Before(k) + j, posted)
    BY <1>1, <2>4, <2>5, <2>8, <2>9, PageFollows
  <2>11. added' \subseteq Announced(posted)
    BY <2>7, <2>10 DEF Follows
  <2> QED  BY <2>1, <2>11, EndFollows
<1>6. ASSUME NEW s \in Sources, RemovePlugin(s) \/ InsertLibrary(s)
      PROVE  ChainInv' /\ Completes
  <2>1. UNCHANGED <<posted, added, prev, view, reload, last>>
    BY <1>6 DEF RemovePlugin, InsertLibrary
  <2> QED  BY <1>1, <2>1, OthersFollow
<1>7. CASE Post \/ HourPasses
  <2>1. UNCHANGED <<added, prev, view, reload, last>> /\ posted' \in Nat /\ posted <= posted'
    BY <1>1, <1>7 DEF Post, HourPasses
  <2> QED  BY <2>1, OthersFollow
<1>8. CASE Restart
  <2>1. ProcessEnds /\ added' = added
    BY <1>8 DEF Restart
  <2> QED  BY <1>1, <2>1, EndFollows
<1> QED  BY <1>2, <1>3, <1>4, <1>5, <1>6, <1>7, <1>8 DEF Next

-----------------------------------------------------------------------------
(* The theorems.                                                           *)

(* The first state.                                                        *)
LEMMA InitFits == Init => TypeOK /\ ChainInv
<1> SUFFICES ASSUME Init PROVE TypeOK /\ ChainInv
  OBVIOUS
<1>1. Len(Log) \in Nat /\ MaxEdits \in Nat
  BY LogAssumption, BoundAssumption
<1>2. Closed \in View /\ Idle \in Reload
  BY <1>1 DEF Closed, View, Idle, Reload, Pages
<1>3. TypeOK
  BY <1>1, <1>2 DEF Init, TypeOK
<1>4. \A r \in Reloads : ~Runs(r)
  BY DEF Init, Idle, Runs
<1>5. OneRunEach /\ RunsFollow
  BY <1>4 DEF OneRunEach, RunsFollow
<1>6. Listed(prev, added) /\ added \subseteq Announced(posted)
  BY NoneBehind DEF Init
<1> QED  BY <1>3, <1>5, <1>6 DEF ChainInv

(* Steps, and those that change nothing: types and growth.                 *)
LEMMA StepGrows == TypeOK /\ [Next]_vars => TypeOK' /\ [KeepsAway]_vars
<1>1. ASSUME TypeOK, Next PROVE TypeOK' /\ KeepsAway
  BY <1>1, NextGrows
<1>2. ASSUME TypeOK, UNCHANGED vars PROVE TypeOK'
  BY <1>2 DEF vars, TypeOK
<1> QED  BY <1>1, <1>2

(* Steps, and those that change nothing: the author's chain.               *)
LEMMA StepFollows ==
  ~Overlap => (TypeOK /\ ChainInv /\ [Next]_vars => ChainInv' /\ [Completes]_vars)
<1>1. ASSUME ~Overlap, TypeOK, ChainInv, Next PROVE ChainInv' /\ Completes
  BY <1>1, NextFollows
<1>2. ASSUME TypeOK, ChainInv, UNCHANGED vars PROVE ChainInv'
  <2>1. UNCHANGED <<posted, added, prev, view, reload, last>>
    BY <1>2 DEF vars
  <2>2. posted \in Nat
    BY <1>2, LogAssumption DEF TypeOK
  <2>3. /\ \A s \in Reloads : Runs(s)' => reload'[s] = reload[s]
        /\ \A s \in Reloads : view'[reload[s].view] = view[reload[s].view]
    BY <2>1
  <2> QED  BY <1>2, <2>1, <2>2, <2>3, OthersFollow
<1> QED  BY <1>1, <1>2

(* The state is well formed, whatever reloads overlap: reload() asks for   *)
(* no page beyond the one after the last.                                  *)
THEOREM TypeCorrect == Spec => []TypeOK
<1>1. Init => TypeOK
  BY InitFits
<1>2. TypeOK /\ [Next]_vars => TypeOK'
  BY StepGrows
<1> QED  BY <1>1, <1>2, PTL DEF Spec

(* A plugin the user removed comes back by hand only, whatever reloads     *)
(* overlap and wherever the process ends (_added, remove).                 *)
THEOREM RemovedStaysAwayHolds == Spec => RemovedStaysAway
<1>1. Init => TypeOK
  BY InitFits
<1>2. TypeOK /\ [Next]_vars => TypeOK' /\ [KeepsAway]_vars
  BY StepGrows
<1>3. Spec => [][KeepsAway]_vars
  BY <1>1, <1>2, PTL DEF Spec
<1> QED  BY <1>3 DEF KeepsAway, RemovedStaysAway

(* What holds of every state when a page that loads is not refreshed.      *)
LEMMA ChainHolds ==
  ASSUME ~Overlap
  PROVE  Spec => []ChainInv /\ [][Completes]_vars
<1>1. Init => TypeOK /\ ChainInv
  BY InitFits
<1>2. TypeOK /\ [Next]_vars => TypeOK'
  BY StepGrows
<1>3. TypeOK /\ ChainInv /\ [Next]_vars => ChainInv' /\ [Completes]_vars
  BY StepFollows
<1> QED  BY <1>1, <1>2, <1>3, PTL DEF Spec

(* update() adds only what the author announced, when no second reload of  *)
(* a page replaces the container of the first.                             *)
THEOREM OnlyAnnouncedHolds ==
  ASSUME ~Overlap
  PROVE  Spec => []OnlyAnnounced
<1>1. ChainInv => OnlyAnnounced
  BY DEF ChainInv, OnlyAnnounced, Announced
<1> QED  BY <1>1, ChainHolds, PTL

(* _prev is a token of the author's, whichever reload left it there, and   *)
(* what was announced on the way to it was added (update).                 *)
THEOREM PrevIsListedHolds ==
  ASSUME ~Overlap
  PROVE  Spec => []PrevIsListed
<1>1. ChainInv => PrevIsListed
  BY DEF ChainInv, PrevIsListed, Listed
<1> QED  BY <1>1, ChainHolds, PTL

(* The reload that reset _prev last adds all that was announced when it    *)
(* asked, but for what follows a token the author signed twice (reload).   *)
THEOREM LastReloadIsCompleteHolds ==
  ASSUME ~Overlap
  PROVE  Spec => LastReloadIsComplete
<1>1. Spec => [][Completes]_vars
  BY ChainHolds
<1> QED  BY <1>1 DEF Completes, LastReloadIsComplete
=============================================================================
