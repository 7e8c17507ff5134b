--------------------------- MODULE Database_proofs ---------------------------
(***************************************************************************)
(* KeyValue::get and KeyValue::set are atomic: Database implements         *)
(* KeyValueRows, for any number of threads, keys and values.               *)
(***************************************************************************)
EXTENDS Database, FiniteSetTheorems, SequenceTheorems, TLAPS

(* The threads in the queue are those whose statement waits, each once.    *)
QueueInv ==
  /\ \A m \in 1..Len(queue) : pc[queue[m]] \in {"pushed", "draining"}
  /\ \A m, n \in 1..Len(queue) : queue[m] = queue[n] => m = n

MutexInv == \A t \in Threads : pc[t] = "draining" <=> mutex = t

(* What a thread between two calls has, and what set() found is still so.  *)
CallInv ==
  \A t \in Threads :
    /\ pc[t] = "idle" <=> call[t] = NoCall
    /\ pc[t] = "idle" => stage[t] = "select"
    /\ stage[t] = "write" => call[t].op = "set"
    /\ row[t].found => call[t] # NoCall /\ rows[call[t].key] # <<>>

IInv == TypeOK /\ QueueInv /\ MutexInv /\ CallInv

(* At first no thread calls.                                               *)
LEMMA InitInv == Init => IInv
  BY EmptyAssumption, NoneAssumption
  DEF Init, IInv, TypeOK, QueueInv, MutexInv, CallInv, NoRow

(* What a thread reads and writes.                                         *)
LEMMA Calls ==
  /\ NoCall \notin Gets /\ NoCall \notin Sets
  /\ \A c \in Gets : c.op = "get" /\ c.key \in Keys
  /\ \A c \in Sets : c.op = "set" /\ c.key \in Keys /\ c.value \in Values
<1>1. NoCall.op = "none"
  BY DEF NoCall
<1>2. \A c \in Gets : c.op = "get" /\ c.key \in Keys
  BY DEF Gets
<1>3. \A c \in Sets : c.op = "set" /\ c.key \in Keys /\ c.value \in Values
  BY DEF Sets
<1> QED  BY <1>1, <1>2, <1>3

(* A thread in the queue is in a call, of the kind its statement tells.    *)
LEMMA QueuedCalls ==
  ASSUME IInv, NEW t \in Threads, t \in Queued
  PROVE  /\ pc[t] \in {"pushed", "draining"}
         /\ call[t] \in Gets \cup Sets
         /\ stage[t] = "write" => call[t] \in Sets
<1>1. pc[t] \in {"pushed", "draining"}
  BY DEF IInv, TypeOK, QueueInv, Queued
<1>2. call[t] # NoCall
  BY <1>1 DEF IInv, CallInv
<1>3. call[t] \in Gets \cup Sets
  BY <1>2 DEF IInv, TypeOK
<1>4. stage[t] = "write" => call[t] \in Sets
  BY <1>3, Calls DEF IInv, CallInv
<1> QED  BY <1>1, <1>3, <1>4

(* The head of the queue leaves it, and nobody else does.                  *)
LEMMA HeadLeaves ==
  ASSUME IInv, queue # <<>>, queue' = Tail(queue)
  PROVE  /\ Head(queue) \in Threads
         /\ Head(queue) \in Queued
         /\ Queued' = Queued \ {Head(queue)}
         /\ queue' \in Seq(Threads)
         /\ \A m, n \in 1..Len(queue') : queue'[m] = queue'[n] => m = n
<1> USE DEF IInv, TypeOK, QueueInv
<1>1. /\ Len(queue) \in Nat /\ Len(queue) > 0 /\ DOMAIN queue = 1..Len(queue)
      /\ Head(queue) = queue[1]
      /\ queue' \in Seq(Threads)
      /\ Len(queue') = Len(queue) - 1 /\ DOMAIN queue' = 1..Len(queue')
      /\ \A n \in 1..Len(queue') : queue'[n] = queue[n + 1]
  OBVIOUS
<1>2. Head(queue) \in Threads /\ Head(queue) \in Queued
  BY <1>1 DEF Queued
<1>3. \A m, n \in 1..Len(queue') : queue'[m] = queue'[n] => m = n
  BY <1>1
<1>4. ASSUME NEW t \in Queued' PROVE t \in Queued \ {Head(queue)}
  BY <1>1, <1>4 DEF Queued
<1>5. ASSUME NEW t \in Queued, t # Head(queue) PROVE t \in Queued'
  <2>1. PICK n \in 1..Len(queue) : t = queue[n] /\ n # 1
    BY <1>1, <1>5 DEF Queued
  <2>2. n - 1 \in 1..Len(queue') /\ queue'[n - 1] = t
    BY <1>1, <2>1
  <2> QED  BY <1>1, <2>2 DEF Queued
<1> QED  BY <1>1, <1>2, <1>3, <1>4, <1>5

(* A thread that pushes was not in the queue, and joins it once.           *)
LEMMA PushJoins ==
  ASSUME IInv, NEW t \in Threads, pc[t] = "push", queue' = Append(queue, t)
  PROVE  /\ t \notin Queued
         /\ Queued' = Queued \cup {t}
         /\ queue' \in Seq(Threads)
         /\ \A m, n \in 1..Len(queue') : queue'[m] = queue'[n] => m = n
<1> USE DEF IInv, TypeOK, QueueInv
<1>1. /\ Len(queue) \in Nat /\ DOMAIN queue = 1..Len(queue)
      /\ queue' \in Seq(Threads)
      /\ Len(queue') = Len(queue) + 1 /\ DOMAIN queue' = 1..Len(queue')
      /\ \A n \in 1..Len(queue) : queue'[n] = queue[n]
      /\ queue'[Len(queue) + 1] = t
  OBVIOUS
<1>2. \A n \in 1..Len(queue) : queue[n] # t
  BY <1>1
<1>3. \A m, n \in 1..Len(queue') : queue'[m] = queue'[n] => m = n
  BY <1>1, <1>2
<1>4. t \notin Queued
  BY <1>1, <1>2 DEF Queued
<1>5. Queued' = Queued \cup {t}
  <2>1. ASSUME NEW u \in Queued' PROVE u \in Queued \cup {t}
    BY <1>1, <2>1 DEF Queued
  <2>2. ASSUME NEW u \in Queued PROVE u \in Queued'
    BY <1>1, <2>2 DEF Queued
  <2>3. t \in Queued'
    BY <1>1 DEF Queued
  <2> QED  BY <2>1, <2>2, <2>3
<1> QED  BY <1>1, <1>3, <1>4, <1>5

(* The effects of the two statements.                                      *)
LEMMA SelectReads ==
  ASSUME IInv, NEW u \in Threads, call[u] \in Gets \cup Sets, Select(u)
  PROVE  /\ rows' = rows
         /\ row' \in [Threads -> [found : BOOLEAN, value : Values]]
         /\ \A s \in Threads : s # u => row'[s] = row[s]
         /\ row'[u].found <=> rows[call[u].key] # <<>>
         /\ row'[u].value = FirstRow(call[u].key)
<1>1. call[u].key \in Keys
  BY Calls
<1>2. rows[call[u].key] \in Seq(Values)
  BY <1>1 DEF IInv, TypeOK
<1>3. rows[call[u].key] # <<>> => rows[call[u].key][1] \in Values
  BY <1>2
<1>4. row \in [Threads -> [found : BOOLEAN, value : Values]]
  BY DEF IInv, TypeOK
<1> QED  BY <1>3, <1>4, EmptyAssumption DEF Select, NoRow, FirstRow

(* A write changes the rows of its key alone and takes none away.          *)
LEMMA SaveWrites ==
  ASSUME IInv, NEW u \in Threads, call[u] \in Sets, Save(u)
  PROVE  /\ row' = row
         /\ rows' \in [Keys -> Seq(Values)]
         /\ \A k \in Keys : k # call[u].key => rows'[k] = rows[k]
         /\ \A k \in Keys : rows[k] # <<>> => rows'[k] # <<>>
         /\ rows'[call[u].key] # <<>>
         /\ rows'[call[u].key][1] = IF row[u].found \/ rows[call[u].key] = <<>>
                                    THEN call[u].value ELSE rows[call[u].key][1]
         /\ Len(rows'[call[u].key]) = IF row[u].found THEN Len(rows[call[u].key])
                                      ELSE Len(rows[call[u].key]) + 1
<1> DEFINE k == call[u].key
           v == call[u].value
<1>1. k \in Keys /\ v \in Values
  BY Calls
<1>2. rows \in [Keys -> Seq(Values)] /\ rows[k] \in Seq(Values)
  BY <1>1 DEF IInv, TypeOK
<1>3. row' = row /\ rows' = [rows EXCEPT ![k] = Saved(u)]
  BY DEF Save
<1>4. /\ Saved(u) \in Seq(Values)
      /\ Saved(u) # <<>>
      /\ Saved(u)[1] = IF row[u].found \/ rows[k] = <<>> THEN v ELSE rows[k][1]
      /\ Len(Saved(u)) = IF row[u].found THEN Len(rows[k]) ELSE Len(rows[k]) + 1
  <2>1. CASE row[u].found
    <3>1. rows[k] # <<>> /\ Saved(u) = [rows[k] EXCEPT ![1] = v]
      BY <2>1 DEF IInv, CallInv, Saved
    <3>2. PICK n \in Nat : rows[k] \in [1..n -> Values]
      BY <1>2, SeqDef
    <3>3. n > 0 /\ DOMAIN rows[k] = 1..n
      BY <1>2, <3>1, <3>2
    <3>4. Saved(u) \in [1..n -> Values] /\ Saved(u)[1] = v
      BY <1>1, <3>1, <3>2, <3>3
    <3>5. Saved(u) \in Seq(Values)
      BY <3>4, SeqDef
    <3>6. Saved(u) # <<>> /\ Len(Saved(u)) = n /\ Len(rows[k]) = n
      BY <1>2, <3>3, <3>4, <3>5
    <3> QED  BY <2>1, <3>4, <3>5, <3>6
  <2>2. CASE ~row[u].found
    <3>1. Saved(u) = Append(rows[k], v)
      BY <2>2 DEF Saved
    <3> QED  BY <1>1, <1>2, <2>2, <3>1
  <2> QED  BY <2>1, <2>2
<1> QED  BY <1>1, <1>2, <1>3, <1>4

(* The statement at the head is executed, whichever thread pushed it.      *)
LEMMA ExecuteKeepsInv ==
  ASSUME IInv, NEW t \in Threads, Execute(t)
  PROVE  IInv'
<1> DEFINE u == Head(queue)
<1>1. queue # <<>> /\ queue' = Tail(queue) /\ UNCHANGED <<mutex, pc, stage, call>>
  BY DEF Execute
<1>2. /\ u \in Threads /\ u \in Queued
      /\ Queued' = Queued \ {u}
      /\ queue' \in Seq(Threads)
      /\ \A m, n \in 1..Len(queue') : queue'[m] = queue'[n] => m = n
  BY <1>1, HeadLeaves
<1>3. \A m \in 1..Len(queue') : queue'[m] \in Queued'
  BY <1>2 DEF Queued
<1>4. QueueInv'
  BY <1>1, <1>2, <1>3, QueuedCalls DEF QueueInv
<1>5. call[u] \in Gets \cup Sets /\ (stage[u] = "write" => call[u] \in Sets)
  BY <1>2, QueuedCalls
<1>6. CASE stage[u] = "select"
  <2>1. Select(u)
    BY <1>6 DEF Execute
  <2>2. TypeOK'
    BY <1>1, <1>2, <1>5, <2>1, SelectReads DEF IInv, TypeOK
  <2>3. CallInv'
    BY <1>1, <1>2, <1>5, <2>1, SelectReads, Calls DEF IInv, CallInv
  <2> QED  BY <1>1, <1>4, <2>2, <2>3 DEF IInv, MutexInv
<1>7. CASE stage[u] # "select"
  <2>1. Save(u) /\ call[u] \in Sets
    BY <1>2, <1>5, <1>7 DEF Execute, IInv, TypeOK
  <2>2. TypeOK'
    BY <1>1, <1>2, <2>1, SaveWrites DEF IInv, TypeOK
  <2>3. \A s \in Threads : call[s] # NoCall => call[s].key \in Keys
    BY Calls DEF IInv, TypeOK
  <2>4. CallInv'
    BY <1>1, <1>2, <2>1, <2>3, SaveWrites DEF IInv, CallInv
  <2> QED  BY <1>1, <1>4, <2>2, <2>4 DEF IInv, MutexInv
<1> QED  BY <1>6, <1>7

(* The invariant is inductive.                                             *)
LEMMA StepInv == IInv /\ [Next]_vars => IInv'
<1> SUFFICES ASSUME IInv, [Next]_vars PROVE IInv'
  OBVIOUS
<1>1. ASSUME NEW t \in Threads, Push(t) PROVE IInv'
  <2>1. /\ t \notin Queued
        /\ Queued' = Queued \cup {t}
        /\ queue' \in Seq(Threads)
        /\ \A m, n \in 1..Len(queue') : queue'[m] = queue'[n] => m = n
    BY <1>1, PushJoins DEF Push
  <2>2. \A m \in 1..Len(queue') : queue'[m] \in Queued'
    BY <2>1 DEF Queued
  <2>3. QueueInv'
    BY <1>1, <2>1, <2>2, QueuedCalls DEF Push, QueueInv, IInv, TypeOK, Queued
  <2> QED  BY <1>1, <2>1, <2>3 DEF Push, IInv, TypeOK, MutexInv, CallInv
<1>2. ASSUME NEW t \in Threads, Lock(t) PROVE IInv'
  BY <1>2, NoneAssumption DEF Lock, IInv, TypeOK, QueueInv, MutexInv, CallInv
<1>3. ASSUME NEW t \in Threads, Execute(t) PROVE IInv'
  BY <1>3, ExecuteKeepsInv
<1>4. ASSUME NEW t \in Threads, Unlock(t) PROVE IInv'
  BY <1>4, NoneAssumption DEF Unlock, IInv, TypeOK, QueueInv, MutexInv, CallInv
<1>5. ASSUME NEW t \in Threads, NEW c \in Gets \cup Sets, Call(t, c) PROVE IInv'
  BY <1>5, Calls DEF Call, IInv, TypeOK, QueueInv, MutexInv, CallInv
<1>6. ASSUME NEW t \in Threads, Saves(t) PROVE IInv'
  BY <1>6 DEF Saves, Last, IInv, TypeOK, QueueInv, MutexInv, CallInv
<1>7. ASSUME NEW t \in Threads, Return(t) PROVE IInv'
  BY <1>7, EmptyAssumption DEF Return, IInv, TypeOK, QueueInv, MutexInv, CallInv, NoRow
<1>8. CASE Crash
  BY <1>8, EmptyAssumption, NoneAssumption
  DEF Crash, IInv, TypeOK, QueueInv, MutexInv, CallInv, NoRow
<1>9. CASE UNCHANGED vars
  BY <1>9 DEF vars, IInv, TypeOK, QueueInv, MutexInv, CallInv
<1> QED
  BY <1>1, <1>2, <1>3, <1>4, <1>5, <1>6, <1>7, <1>8, <1>9 DEF Next, Proceed

(* Typing, the queue and the mutex, for every number of threads.           *)
THEOREM InvCorrect == Spec => []IInv
<1> QED  BY InitInv, StepInv, PTL DEF Spec

-----------------------------------------------------------------------------
(* The refinement.                                                         *)

(* A step that changes no call, no first row and no effect is a stutter.   *)
LEMMA Stutters ==
  ASSUME call' = call,
         \A k \in Keys : FirstRow(k)' = FirstRow(k),
         \A t \in Threads : Effective(t)' <=> Effective(t),
         \A t \in Threads : Answer(t)' = Answer(t)
  PROVE  UNCHANGED Promise!rowVars
<1>1. [k \in Keys |-> FirstRow(k)]' = [k \in Keys |-> FirstRow(k)]
  OBVIOUS
<1>2. {t \in Threads : Effective(t)}' = {t \in Threads : Effective(t)}
  OBVIOUS
<1>3. [t \in Threads |-> Answer(t)]' = [t \in Threads |-> Answer(t)]
  OBVIOUS
<1> QED  BY <1>1, <1>2, <1>3 DEF Promise!rowVars

(* The initial states map to initial states.                               *)
LEMMA PromiseStarts == Init => Promise!RowsInit
<1> SUFFICES ASSUME Init PROVE Promise!RowsInit
  OBVIOUS
<1>1. \A k \in Keys : FirstRow(k) = Empty
  BY DEF Init, FirstRow
<1>2. \A t \in Threads : ~Effective(t) /\ Answer(t) = Empty
  BY DEF Init, Effective, Executed, Missed, Answer, NoCall
<1>3. call = [t \in Threads |-> Promise!NoCall]
  BY DEF Init, NoCall, Promise!NoCall
<1> QED  BY <1>1, <1>2, <1>3 DEF Promise!RowsInit

(* A thread that begins to execute nothing has no effect: Push, Lock, and  *)
(* Unlock once the queue is empty.                                         *)
LEMMA TurnsStutter ==
  ASSUME IInv, NEW t \in Threads, Push(t) \/ Lock(t) \/ Unlock(t)
  PROVE  UNCHANGED Promise!rowVars
<1>1. UNCHANGED <<rows, stage, call, row>>
  BY DEF Push, Lock, Unlock
<1>2. \A s \in Threads : Executed(s)' <=> Executed(s)
  <2>1. CASE Push(t)
    <3>1. t \notin Queued /\ Queued' = Queued \cup {t}
      BY <2>1, PushJoins DEF Push
    <3> QED  BY <2>1, <3>1 DEF Push, Executed, IInv, TypeOK
  <2>2. CASE Lock(t)
    <3>1. Queued' = Queued
      BY <2>2 DEF Lock, Queued
    <3> QED  BY <2>2, <3>1 DEF Lock, Executed, IInv, TypeOK
  <2>3. CASE Unlock(t)
    <3>1. Queued' = Queued /\ pc[t] = "draining"
      BY <2>3 DEF Unlock, Queued, IInv, MutexInv
    <3> QED  BY <2>3, <3>1 DEF Unlock, Executed, IInv, TypeOK
  <2> QED  BY <2>1, <2>2, <2>3
<1>3. \A s \in Threads : Effective(s)' <=> Effective(s)
  BY <1>1, <1>2 DEF Effective, Missed, Last, Unchanged
<1>4. \A s \in Threads : Answer(s)' = Answer(s)
  BY <1>1, <1>2 DEF Answer
<1> QED  BY <1>1, <1>3, <1>4, Stutters DEF FirstRow

(* A set that goes on from its select to its write is not seen outside.    *)
LEMMA SavesStutters ==
  ASSUME IInv, NEW t \in Threads, Saves(t)
  PROVE  UNCHANGED Promise!rowVars
<1>1. /\ UNCHANGED <<rows, queue, mutex, call, row>>
      /\ pc[t] = "back" /\ ~Last(t)
      /\ pc' = [pc EXCEPT ![t] = "push"]
      /\ stage' = [stage EXCEPT ![t] = "write"]
  BY DEF Saves
<1>2. call[t].op = "set" /\ stage[t] = "select"
  BY <1>1 DEF Last, IInv, TypeOK
<1>3. t \notin Queued
  BY <1>1, QueuedCalls
<1>4. \A s \in Threads \ {t} : /\ Executed(s)' <=> Executed(s)
                               /\ stage'[s] = stage[s]
  BY <1>1 DEF Executed, Queued, IInv, TypeOK
<1>5. /\ Executed(t) /\ ~Executed(t)'
      /\ stage'[t] = "write"
  BY <1>1, <1>3 DEF Executed, IInv, TypeOK
<1>6. Effective(t)' <=> Effective(t)
  BY <1>1, <1>2, <1>5 DEF Effective, Missed, Last
<1>7. \A s \in Threads \ {t} : Effective(s)' <=> Effective(s)
  BY <1>1, <1>4 DEF Effective, Missed, Last, Unchanged
<1>8. \A s \in Threads : Answer(s)' = Answer(s)
  BY <1>1, <1>2, <1>4 DEF Answer
<1> QED  BY <1>1, <1>6, <1>7, <1>8, Stutters DEF FirstRow

(* A call begins, returns, or is cut off by the end of the process.        *)
LEMMA CallBegins ==
  ASSUME IInv, NEW t \in Threads, NEW c \in Gets \cup Sets, Call(t, c)
  PROVE  Promise!Begin(t, c)
<1>1. /\ UNCHANGED <<rows, queue, mutex, stage, row>>
      /\ pc[t] = "idle" /\ call[t] = NoCall /\ stage[t] = "select" /\ ~row[t].found
      /\ pc' = [pc EXCEPT ![t] = "push"]
      /\ call' = [call EXCEPT ![t] = c]
  BY DEF Call, IInv, CallInv
<1>2. \A s \in Threads \ {t} : /\ Executed(s)' <=> Executed(s)
                               /\ call'[s] = call[s]
  BY <1>1 DEF Executed, Queued, IInv, TypeOK
<1>3. ~Executed(t) /\ ~Executed(t)'
  BY <1>1 DEF Executed, IInv, TypeOK
<1>4. ~Effective(t) /\ ~Effective(t)'
  BY <1>1, <1>3 DEF Effective, Missed, NoCall
<1>5. \A s \in Threads \ {t} : Effective(s)' <=> Effective(s)
  BY <1>1, <1>2 DEF Effective, Missed, Last, Unchanged
<1>6. \A s \in Threads : Answer(s)' = Answer(s)
  BY <1>1, <1>2, <1>3 DEF Answer
<1>7. {s \in Threads : Effective(s)}' = {s \in Threads : Effective(s)}
  BY <1>4, <1>5
<1>8. [s \in Threads |-> Answer(s)]' = [s \in Threads |-> Answer(s)]
  BY <1>6
<1>9. [k \in Keys |-> FirstRow(k)]' = [k \in Keys |-> FirstRow(k)]
  BY <1>1 DEF FirstRow
<1> QED  BY <1>1, <1>7, <1>8, <1>9 DEF Promise!Begin, Promise!NoCall, NoCall

(* A call that returns answers what its abstract call does.                *)
LEMMA CallReturns ==
  ASSUME IInv, NEW t \in Threads, Return(t)
  PROVE  Promise!Return(t)
<1>1. /\ UNCHANGED <<rows, queue, mutex>>
      /\ pc[t] = "back" /\ Last(t)
      /\ pc' = [pc EXCEPT ![t] = "idle"]
      /\ stage' = [stage EXCEPT ![t] = "select"]
      /\ call' = [call EXCEPT ![t] = NoCall]
      /\ row' = [row EXCEPT ![t] = NoRow]
  BY DEF Return
<1>2. Effective(t)
  BY <1>1, QueuedCalls DEF Effective, Executed
<1>3. \A s \in Threads \ {t} : /\ Executed(s)' <=> Executed(s)
                               /\ call'[s] = call[s] /\ row'[s] = row[s]
                               /\ stage'[s] = stage[s]
  BY <1>1 DEF Executed, Queued, IInv, TypeOK
<1>4. call'[t] = NoCall /\ ~Executed(t)'
  BY <1>1 DEF Executed, IInv, TypeOK
<1>5. ~Effective(t)' /\ Answer(t)' = Empty
  BY <1>4 DEF Effective, Missed, NoCall, Answer
<1>6. \A s \in Threads \ {t} : Effective(s)' <=> Effective(s)
  BY <1>1, <1>3 DEF Effective, Missed, Last, Unchanged
<1>7. \A s \in Threads \ {t} : Answer(s)' = Answer(s)
  BY <1>3 DEF Answer
<1>8. {s \in Threads : Effective(s)}' = {s \in Threads : Effective(s)} \ {t}
  BY <1>5, <1>6
<1>9. [s \in Threads |-> Answer(s)]' = [[s \in Threads |-> Answer(s)] EXCEPT ![t] = Empty]
  BY <1>5, <1>7
<1>10. [k \in Keys |-> FirstRow(k)]' = [k \in Keys |-> FirstRow(k)]
  BY <1>1 DEF FirstRow
<1> QED  BY <1>1, <1>2, <1>8, <1>9, <1>10 DEF Promise!Return, Promise!NoCall, NoCall

(* The end of the process takes every call with it.                        *)
LEMMA ProcessEnds ==
  ASSUME IInv, Crash
  PROVE  Promise!Crash
<1>1. \A t \in Threads : call'[t] = NoCall /\ pc'[t] = "idle"
  BY DEF Crash
<1>2. \A t \in Threads : ~Effective(t)' /\ Answer(t)' = Empty
  BY <1>1 DEF Effective, Executed, Missed, NoCall, Answer
<1>3. [k \in Keys |-> FirstRow(k)]' = [k \in Keys |-> FirstRow(k)]
  BY DEF Crash, FirstRow
<1>4. call' = [t \in Threads |-> Promise!NoCall]
  BY DEF Crash, Promise!NoCall, NoCall
<1> QED  BY <1>2, <1>3, <1>4 DEF Promise!Crash

(* The effect of a SELECT: of a get, of a set with nothing to write, or    *)
(* none.                                                                   *)
LEMMA SelectTakesEffect ==
  ASSUME IInv, NEW t \in Threads, Execute(t),
         NEW u \in Threads, u = Head(queue), stage[u] = "select",
         NEW k, k = call[u].key
  PROVE  \/ Promise!Read(u)
         \/ Promise!Write(u, {})
         \/ UNCHANGED Promise!rowVars
<1>1. /\ queue # <<>> /\ queue' = Tail(queue)
      /\ UNCHANGED <<mutex, pc, stage, call>> /\ Select(u)
  BY DEF Execute
<1>2. u \in Threads /\ u \in Queued /\ Queued' = Queued \ {u}
  BY <1>1, HeadLeaves
<1>3. /\ call[u] \in Gets \cup Sets
      /\ pc[u] \in {"pushed", "draining"}
      /\ k \in Keys
  BY <1>2, QueuedCalls, Calls
<1>4. /\ rows' = rows
      /\ \A s \in Threads : s # u => row'[s] = row[s]
      /\ row'[u].found <=> rows[k] # <<>>
      /\ row'[u].value = FirstRow(k)
  BY <1>1, <1>2, <1>3, SelectReads
<1>5. ~Executed(u) /\ Executed(u)'
  BY <1>1, <1>2, <1>3 DEF Executed
<1>6. \A s \in Threads \ {u} : Executed(s)' <=> Executed(s)
  BY <1>1, <1>2 DEF Executed
<1>7. \A s \in Threads \ {u} : Effective(s)' <=> Effective(s)
  BY <1>1, <1>4, <1>6 DEF Effective, Missed, Last, Unchanged
<1>8. \A s \in Threads \ {u} : Answer(s)' = Answer(s)
  BY <1>1, <1>4, <1>6 DEF Answer
<1>9. ~Effective(u)
  BY <1>5, stage[u] = "select" DEF Effective, Missed
<1>10. [j \in Keys |-> FirstRow(j)]' = [j \in Keys |-> FirstRow(j)]
  BY <1>4 DEF FirstRow
<1>11. CASE call[u] \in Gets
  <2>1. call[u].op = "get"
    BY <1>11, Calls
  <2>2. Effective(u)' /\ Answer(u)' = FirstRow(k)
    BY <1>1, <1>4, <1>5, <2>1 DEF Effective, Last, Answer
  <2>3. {s \in Threads : Effective(s)}' = {s \in Threads : Effective(s)} \cup {u}
    BY <1>2, <1>7, <2>2
  <2>4. [s \in Threads |-> Answer(s)]'
          = [[s \in Threads |-> Answer(s)] EXCEPT ![u] = FirstRow(k)]
    BY <1>8, <2>2
  <2>5. [j \in Keys |-> FirstRow(j)][k] = FirstRow(k)
    BY <1>3
  <2>6. call[u] \in Promise!Gets
    BY <1>11 DEF Gets, Promise!Gets
  <2> QED  BY <1>1, <1>9, <1>10, <2>3, <2>4, <2>5, <2>6 DEF Promise!Read
<1>12. CASE call[u] \in Sets
  <2>1. call[u].op = "set"
    BY <1>12, Calls
  <2>2. Answer(u)' = Answer(u)
    BY <1>1, <2>1 DEF Answer
  <2>3. [s \in Threads |-> Answer(s)]' = [s \in Threads |-> Answer(s)]
    BY <1>8, <2>2
  <2>4. CASE rows[k] # <<>> /\ FirstRow(k) = call[u].value
    <3>1. Effective(u)'
      BY <1>1, <1>4, <1>5, <2>4 DEF Effective, Last, Unchanged
    <3>2. {s \in Threads : Effective(s)}' = {s \in Threads : Effective(s)} \cup {u}
      BY <1>2, <1>7, <3>1
    <3>3. [j \in Keys |-> FirstRow(j)]
            = [[j \in Keys |-> FirstRow(j)] EXCEPT ![k] = call[u].value]
      BY <1>3, <2>4
    <3>4. call[u] \in Promise!Sets
      BY <1>12 DEF Sets, Promise!Sets
    <3>5. Promise!Write(u, {})
      BY <1>1, <1>9, <1>10, <2>3, <3>2, <3>3, <3>4 DEF Promise!Write
    <3> QED  BY <3>5
  <2>5. CASE ~(rows[k] # <<>> /\ FirstRow(k) = call[u].value)
    <3>1. ~Unchanged(u)'
      BY <1>1, <1>4, <2>5 DEF Unchanged
    <3>2. ~Last(u)'
      BY <1>1, <2>1, <3>1, stage[u] = "select" DEF Last
    <3>3. Missed(u)' => rows'[call'[u].key] = <<>>
      BY <1>1, <1>4 DEF Missed
    <3>4. ~Effective(u)'
      BY <3>2, <3>3 DEF Effective
    <3>5. \A s \in Threads : Effective(s)' <=> Effective(s)
      BY <1>7, <1>9, <3>4
    <3>6. \A s \in Threads : Answer(s)' = Answer(s)
      BY <1>8, <2>2
    <3>7. \A j \in Keys : FirstRow(j)' = FirstRow(j)
      BY <1>4 DEF FirstRow
    <3> QED  BY <1>1, <3>5, <3>6, <3>7, Stutters
  <2> QED  BY <2>4, <2>5
<1> QED  BY <1>3, <1>11, <1>12

(* The effect of a write: its own, with those of the sets that will only   *)
(* add rows behind its new row, or none, behind another's.                 *)
LEMMA SaveTakesEffect ==
  ASSUME IInv, NEW t \in Threads, Execute(t),
         NEW u \in Threads, u = Head(queue), stage[u] # "select",
         NEW k, k = call[u].key, NEW v, v = call[u].value
  PROVE  \/ \E ss \in SUBSET Threads : Promise!Write(u, ss)
         \/ UNCHANGED Promise!rowVars
<1>1. /\ queue # <<>> /\ queue' = Tail(queue)
      /\ UNCHANGED <<mutex, pc, stage, call>> /\ Save(u)
  BY DEF Execute
<1>2. u \in Threads /\ u \in Queued /\ Queued' = Queued \ {u}
  BY <1>1, HeadLeaves
<1>3. stage[u] = "write"
  BY <1>2 DEF IInv, TypeOK
<1>4. call[u] \in Sets /\ call[u].op = "set" /\ k \in Keys /\ v \in Values
  BY <1>2, <1>3, QueuedCalls, Calls
<1>5. pc[u] \in {"pushed", "draining"}
  BY <1>2, QueuedCalls
<1>6. /\ row' = row
      /\ \A j \in Keys : j # k => rows'[j] = rows[j]
      /\ \A j \in Keys : rows[j] # <<>> => rows'[j] # <<>>
      /\ rows'[k] # <<>>
      /\ rows'[k][1] = IF row[u].found \/ rows[k] = <<>> THEN v ELSE rows[k][1]
  BY <1>1, <1>2, <1>4, SaveWrites
<1>7. ~Executed(u) /\ Executed(u)' /\ Last(u)'
  BY <1>1, <1>2, <1>3, <1>5 DEF Executed, Last
<1>8. Effective(u)'
  BY <1>7 DEF Effective
<1>9. \A s \in Threads \ {u} : Executed(s)' <=> Executed(s)
  BY <1>1, <1>2 DEF Executed
<1>10. \A s \in Threads \ {u} : Last(s)' <=> Last(s)
  BY <1>1, <1>6 DEF Last, Unchanged
<1>11. \A s \in Threads \ {u} : Missed(s)' <=> Missed(s)
  BY <1>1, <1>6, <1>9 DEF Missed
<1>12. \A s \in Threads : Answer(s)' = Answer(s)
  BY <1>1, <1>4, <1>6, <1>9 DEF Answer
<1>13. [s \in Threads |-> Answer(s)]' = [s \in Threads |-> Answer(s)]
  BY <1>12
<1>14. \A s \in Threads : Missed(s) => call[s] \in Sets
  <2> SUFFICES ASSUME NEW s \in Threads, call[s].op = "set" PROVE call[s] \in Sets
    BY DEF Missed
  <2>1. call[s] \in {NoCall} \cup Gets \cup Sets
    BY DEF IInv, TypeOK
  <2>2. NoCall.op # "set"
    BY DEF NoCall
  <2> QED  BY <2>1, <2>2, Calls
<1>15. CASE rows[k] # <<>> /\ ~row[u].found
  <2>1. Effective(u)
    BY <1>3, <1>4, <1>15 DEF Effective, Missed
  <2>2. rows'[k][1] = rows[k][1]
    BY <1>6, <1>15
  <2>3. \A j \in Keys : FirstRow(j)' = FirstRow(j)
    BY <1>6, <1>15, <2>2 DEF FirstRow
  <2>4. \A j \in Keys : rows'[j] # <<>> <=> rows[j] # <<>>
    BY <1>6, <1>15
  <2>5. \A s \in Threads \ {u} : Effective(s)' <=> Effective(s)
    BY <1>1, <1>9, <1>10, <1>11, <1>14, <2>4, Calls DEF Effective
  <2>6. \A s \in Threads : Effective(s)' <=> Effective(s)
    BY <1>8, <2>1, <2>5
  <2> QED  BY <1>1, <1>12, <2>3, <2>6, Stutters
<1>16. CASE ~(rows[k] # <<>> /\ ~row[u].found)
  <2> DEFINE ss == {s \in Threads \ {u} : Missed(s) /\ call[s].key = k /\ rows[k] = <<>>
                                        /\ ~Effective(s)}
  <2>1. ~Effective(u)
    BY <1>7, <1>16 DEF Effective, Missed
  <2>2. rows'[k] # <<>> /\ rows'[k][1] = v
    BY <1>6, <1>16
  <2>3. [j \in Keys |-> FirstRow(j)]' = [[j \in Keys |-> FirstRow(j)] EXCEPT ![k] = v]
    <3>1. \A j \in Keys \ {k} : FirstRow(j)' = FirstRow(j)
      BY <1>6 DEF FirstRow
    <3>2. FirstRow(k)' = v
      <4>1. call' = call
        BY <1>1
      <4> QED  BY <2>2, <4>1 DEF FirstRow
    <3> QED  BY <1>1, <1>4, <3>1, <3>2
  <2>4. \A s \in Threads \ {u} : Effective(s)' <=> Effective(s) \/ s \in ss
    <3> SUFFICES ASSUME NEW s \in Threads \ {u}
                 PROVE  Effective(s)' <=> Effective(s) \/ s \in ss
      OBVIOUS
    <3>1. CASE Missed(s)
      <4>1. call[s].key \in Keys
        BY <1>14, <3>1, Calls
      <4>2. Effective(s)' <=> (Executed(s) /\ Last(s)) \/ rows'[call[s].key] # <<>>
        BY <1>1, <1>9, <1>10, <1>11, <3>1 DEF Effective
      <4>3. Effective(s) <=> (Executed(s) /\ Last(s)) \/ rows[call[s].key] # <<>>
        BY <3>1 DEF Effective
      <4> QED  BY <1>6, <3>1, <4>1, <4>2, <4>3
    <3>2. CASE ~Missed(s)
      BY <1>9, <1>10, <1>11, <3>2 DEF Effective
    <3> QED  BY <3>1, <3>2
  <2>5. {s \in Threads : Effective(s)}' = {s \in Threads : Effective(s)} \cup ss \cup {u}
    BY <1>2, <1>8, <2>4
  <2>6. {s \in Threads : Effective(s)} \cap (ss \cup {u}) = {}
    BY <2>1
  <2>7. call[u] \in Promise!Sets /\ \A s \in ss : call[s] \in Promise!Sets /\ call[s].key = k
    BY <1>4, <1>14 DEF Sets, Promise!Sets
  <2>8. Promise!Write(u, ss)
    BY <1>1, <1>13, <2>3, <2>5, <2>6, <2>7 DEF Promise!Write
  <2>9. ss \in SUBSET Threads
    OBVIOUS
  <2> QED  BY <2>8, <2>9
<1> QED  BY <1>15, <1>16

(* Every step maps to an abstract step or a stutter.                       *)
LEMMA StepKeepsPromise == IInv /\ [Next]_vars => [Promise!RowsNext]_Promise!rowVars
<1> SUFFICES ASSUME IInv, [Next]_vars
             PROVE  Promise!RowsNext \/ UNCHANGED Promise!rowVars
  OBVIOUS
<1>1. ASSUME NEW t \in Threads, Push(t) \/ Lock(t) \/ Unlock(t)
      PROVE  UNCHANGED Promise!rowVars
  BY <1>1, TurnsStutter
<1>2. ASSUME NEW t \in Threads, Saves(t) PROVE UNCHANGED Promise!rowVars
  BY <1>2, SavesStutters
<1>3. ASSUME NEW t \in Threads, Execute(t)
      PROVE  Promise!RowsNext \/ UNCHANGED Promise!rowVars
  <2>1. Head(queue) \in Threads
    BY <1>3, HeadLeaves DEF Execute
  <2>2. PICK u \in Threads : u = Head(queue)
    BY <2>1
  <2>3. CASE stage[u] = "select"
    BY <1>3, <2>2, <2>3, SelectTakesEffect DEF Promise!RowsNext
  <2>4. CASE stage[u] # "select"
    BY <1>3, <2>2, <2>4, SaveTakesEffect DEF Promise!RowsNext
  <2> QED  BY <2>3, <2>4
<1>4. ASSUME NEW t \in Threads, NEW c \in Gets \cup Sets, Call(t, c) PROVE Promise!RowsNext
  <2>1. Promise!Begin(t, c)
    BY <1>4, CallBegins
  <2>2. c \in Promise!Gets \cup Promise!Sets
    BY DEF Gets, Sets, Promise!Gets, Promise!Sets
  <2> QED  BY <2>1, <2>2 DEF Promise!RowsNext
<1>5. ASSUME NEW t \in Threads, Return(t) PROVE Promise!RowsNext
  BY <1>5, CallReturns DEF Promise!RowsNext
<1>6. CASE Crash
  BY <1>6, ProcessEnds DEF Promise!RowsNext
<1>7. CASE UNCHANGED vars
  <2>1. \A k \in Keys : FirstRow(k)' = FirstRow(k)
    BY <1>7 DEF vars, FirstRow
  <2>2. \A t \in Threads : Executed(t)' <=> Executed(t)
    BY <1>7 DEF vars, Executed, Queued
  <2>3. \A t \in Threads : Effective(t)' <=> Effective(t)
    BY <1>7, <2>2 DEF vars, Effective, Missed, Last, Unchanged
  <2>4. \A t \in Threads : Answer(t)' = Answer(t)
    BY <1>7, <2>2 DEF vars, Answer
  <2> QED  BY <1>7, <2>1, <2>3, <2>4, Stutters DEF vars
<1> QED
  BY <1>1, <1>2, <1>3, <1>4, <1>5, <1>6, <1>7 DEF Next, Proceed

(* KeyValue.get and KeyValue.set are atomic for any number of isolates,    *)
(* keys and values, wherever the process ends.                             *)
THEOREM CallsAreAtomic == Spec => KeepsPromise
<1> QED
  BY InvCorrect, PromiseStarts, StepKeepsPromise, PTL DEF Spec, KeepsPromise, Promise!RowsSpec

-----------------------------------------------------------------------------
(* The rows of a key.                                                      *)

(* The threads whose set found no row of key k and has still to add one.   *)
Adders(k) ==
  {t \in Threads : /\ call[t].op = "set" /\ call[t].key = k
                   /\ ~row[t].found
                   /\ stage[t] = "write" <=> ~Executed(t)}

(* Once a key has a row, only those add another.                           *)
RacersInv ==
  \A k \in Keys : rows[k] # <<>> =>
    Len(rows[k]) + Cardinality(Adders(k)) <= Cardinality(Threads)

(* Cardinalities of sets of threads.                                       *)
LEMMA AddersAreFew ==
  ASSUME NEW S \in SUBSET Threads, NEW T, T \subseteq S
  PROVE  /\ IsFiniteSet(S)
         /\ Cardinality(S) \in Nat /\ Cardinality(T) \in Nat
         /\ Cardinality(T) <= Cardinality(S)
         /\ Cardinality(S) <= Cardinality(Threads)
         /\ \A u \in S : Cardinality(S \ {u}) = Cardinality(S) - 1
<1>1. IsFiniteSet(S) /\ Cardinality(S) <= Cardinality(Threads)
  BY ThreadsAssumption, FS_Subset
<1>2. IsFiniteSet(T) /\ Cardinality(T) <= Cardinality(S)
  BY <1>1, FS_Subset
<1> QED  BY <1>1, <1>2, FS_CardinalityType, FS_RemoveElement

(* A step that adds no row and no adder to a key that has one.             *)
LEMMA NoMoreRows ==
  ASSUME IInv, RacersInv, IInv',
         \A k \in Keys : /\ rows'[k] # <<>> => rows[k] # <<>>
                         /\ Len(rows'[k]) = Len(rows[k])
                         /\ rows[k] # <<>> => Adders(k)' \subseteq Adders(k)
  PROVE  RacersInv'
<1> SUFFICES ASSUME NEW k \in Keys, rows'[k] # <<>>
             PROVE  Len(rows'[k]) + Cardinality(Adders(k)') <= Cardinality(Threads)
  BY DEF RacersInv
<1>1. rows[k] # <<>> /\ Len(rows'[k]) = Len(rows[k]) /\ Adders(k)' \subseteq Adders(k)
  OBVIOUS
<1>2. Len(rows[k]) + Cardinality(Adders(k)) <= Cardinality(Threads)
  BY <1>1 DEF RacersInv
<1>3. Adders(k) \in SUBSET Threads
  BY DEF Adders
<1>4. /\ Cardinality(Adders(k)) \in Nat /\ Cardinality(Adders(k)') \in Nat
      /\ Cardinality(Adders(k)') <= Cardinality(Adders(k))
  BY <1>1, <1>3, AddersAreFew
<1>5. Len(rows[k]) \in Nat
  BY DEF IInv, TypeOK
<1>6. Cardinality(Threads) \in Nat
  BY ThreadsAssumption, FS_CardinalityType
<1> QED  BY <1>1, <1>2, <1>4, <1>5, <1>6

(* Queue and mutex make no thread one that may still insert.               *)
LEMMA TurnsAddNoRacer ==
  ASSUME IInv, RacersInv, NEW t \in Threads, Push(t) \/ Lock(t) \/ Unlock(t) \/ Saves(t)
  PROVE  rows' = rows /\ \A k \in Keys : Adders(k)' \subseteq Adders(k)
<1>1. UNCHANGED <<rows, call, row>>
  BY DEF Push, Lock, Unlock, Saves
<1>2. CASE Push(t) \/ Lock(t) \/ Unlock(t)
  <2>1. \A s \in Threads : Executed(s)' <=> Executed(s)
    <3>1. CASE Push(t)
      <4>1. t \notin Queued /\ Queued' = Queued \cup {t}
        BY <3>1, PushJoins DEF Push
      <4> QED  BY <3>1, <4>1 DEF Push, Executed, IInv, TypeOK
    <3>2. CASE Lock(t)
      BY <3>2 DEF Lock, Queued, Executed, IInv, TypeOK
    <3>3. CASE Unlock(t)
      <4>1. pc[t] = "draining"
        BY <3>3 DEF Unlock, IInv, MutexInv
      <4> QED  BY <3>3, <4>1 DEF Unlock, Queued, Executed, IInv, TypeOK
    <3> QED  BY <1>2, <3>1, <3>2, <3>3
  <2>2. stage' = stage
    BY <1>2 DEF Push, Lock, Unlock
  <2> QED  BY <1>1, <2>1, <2>2 DEF Adders
<1>3. CASE Saves(t)
  <2>1. /\ pc[t] = "back" /\ t \notin Queued /\ queue' = queue
        /\ stage[t] = "select" /\ stage' = [stage EXCEPT ![t] = "write"]
        /\ pc' = [pc EXCEPT ![t] = "push"]
    BY <1>3, QueuedCalls DEF Saves, Last, IInv, TypeOK
  <2>2. Executed(t) /\ ~Executed(t)' /\ stage'[t] = "write"
    BY <2>1 DEF Executed, IInv, TypeOK
  <2>3. \A s \in Threads \ {t} : (Executed(s)' <=> Executed(s)) /\ stage'[s] = stage[s]
    BY <2>1 DEF Executed, Queued, IInv, TypeOK
  <2> QED  BY <1>1, <2>1, <2>2, <2>3 DEF Adders
<1> QED  BY <1>1, <1>2, <1>3

(* Nor does a call that begins or ends.                                    *)
LEMMA CallsAddNoRacer ==
  ASSUME IInv, RacersInv, NEW t \in Threads,
         Return(t) \/ \E c \in Gets \cup Sets : Call(t, c)
  PROVE  rows' = rows /\ \A k \in Keys : Adders(k)' \subseteq Adders(k)
<1>1. /\ UNCHANGED <<rows, queue>>
      /\ \A s \in Threads \ {t} : /\ pc'[s] = pc[s] /\ stage'[s] = stage[s]
                                   /\ call'[s] = call[s] /\ row'[s] = row[s]
  BY DEF Return, Call, IInv, TypeOK
<1>2. stage'[t] = "select" /\ ~Executed(t)'
  BY DEF Return, Call, Executed, IInv, TypeOK, CallInv
<1>3. \A s \in Threads \ {t} : Executed(s)' <=> Executed(s)
  BY <1>1 DEF Executed, Queued
<1> QED  BY <1>1, <1>2, <1>3 DEF Adders

(* An insert adds a row and takes its thread from those that may.          *)
LEMMA ExecuteKeepsRacers ==
  ASSUME IInv, RacersInv, IInv', NEW t \in Threads, Execute(t),
         NEW u \in Threads, u = Head(queue), NEW j, j = call[u].key
  PROVE  RacersInv'
<1>1. /\ queue # <<>> /\ queue' = Tail(queue)
      /\ UNCHANGED <<mutex, pc, stage, call>>
  BY DEF Execute
<1>2. u \in Queued /\ Queued' = Queued \ {u}
  BY <1>1, HeadLeaves
<1>3. /\ call[u] \in Gets \cup Sets /\ (stage[u] = "write" => call[u] \in Sets)
      /\ pc[u] \in {"pushed", "draining"} /\ j \in Keys
  BY <1>2, QueuedCalls, Calls
<1>4. ~Executed(u) /\ Executed(u)'
  BY <1>1, <1>2, <1>3 DEF Executed
<1>5. \A s \in Threads \ {u} : Executed(s)' <=> Executed(s)
  BY <1>1, <1>2 DEF Executed
<1>6. CASE stage[u] = "select"
  <2>1. /\ rows' = rows
        /\ \A s \in Threads : s # u => row'[s] = row[s]
        /\ row'[u].found <=> rows[j] # <<>>
    BY <1>3, <1>6, SelectReads DEF Execute
  <2>2. \A k \in Keys : rows[k] # <<>> => Adders(k)' \subseteq Adders(k)
    BY <1>1, <1>5, <2>1 DEF Adders
  <2> QED  BY <2>1, <2>2, NoMoreRows
<1>7. CASE stage[u] # "select"
  <2>1. stage[u] = "write" /\ call[u] \in Sets /\ call[u].op = "set"
    BY <1>3, <1>7, Calls DEF IInv, TypeOK
  <2>2. /\ row' = row
        /\ \A k \in Keys : k # j => rows'[k] = rows[k]
        /\ Len(rows'[j]) = IF row[u].found THEN Len(rows[j]) ELSE Len(rows[j]) + 1
    BY <1>7, <2>1, SaveWrites DEF Execute
  <2>3. \A k \in Keys : Adders(k)' \subseteq Adders(k)
    BY <1>1, <1>4, <1>5, <2>1, <2>2 DEF Adders
  <2>4. CASE row[u].found
    <3>1. rows[j] # <<>>
      BY <2>4 DEF IInv, CallInv
    <3> QED  BY <2>2, <2>3, <2>4, <3>1, NoMoreRows
  <2>5. CASE ~row[u].found
    <3>1. u \in Adders(j) /\ u \notin Adders(j)'
      BY <1>1, <1>4, <2>1, <2>5 DEF Adders
    <3>2. Adders(j)' \subseteq Adders(j) \ {u}
      BY <1>3, <2>3, <3>1
    <3>3. Adders(j) \in SUBSET Threads
      BY DEF Adders
    <3>4. /\ Cardinality(Adders(j)) \in Nat /\ Cardinality(Threads) \in Nat
          /\ Cardinality(Adders(j)) <= Cardinality(Threads)
          /\ Cardinality(Adders(j) \ {u}) = Cardinality(Adders(j)) - 1
      BY <3>1, <3>3, AddersAreFew, ThreadsAssumption, FS_CardinalityType
    <3>5. Cardinality(Adders(j)') \in Nat /\ Cardinality(Adders(j)') <= Cardinality(Adders(j) \ {u})
      BY <3>2, <3>3, AddersAreFew
    <3>6. Len(rows[j]) \in Nat /\ (rows[j] = <<>> => Len(rows[j]) = 0)
      BY <1>3 DEF IInv, TypeOK
    <3>7. rows[j] # <<>> => Len(rows[j]) + Cardinality(Adders(j)) <= Cardinality(Threads)
      BY <1>3 DEF RacersInv
    <3>8. Len(rows'[j]) + Cardinality(Adders(j)') <= Cardinality(Threads)
      BY <2>2, <2>5, <3>4, <3>5, <3>6, <3>7
    <3>9. ASSUME NEW k \in Keys, k # j, rows'[k] # <<>>
          PROVE  Len(rows'[k]) + Cardinality(Adders(k)') <= Cardinality(Threads)
      <4>1. rows'[k] = rows[k] /\ Adders(k)' \subseteq Adders(k)
        BY <2>2, <2>3, <3>9
      <4>2. Len(rows[k]) \in Nat /\ Len(rows[k]) + Cardinality(Adders(k)) <= Cardinality(Threads)
        BY <3>9, <4>1 DEF IInv, TypeOK, RacersInv
      <4>3. Adders(k) \in SUBSET Threads
        BY DEF Adders
      <4>4. /\ Cardinality(Adders(k)) \in Nat /\ Cardinality(Adders(k)') \in Nat
            /\ Cardinality(Adders(k)') <= Cardinality(Adders(k))
        BY <4>1, <4>3, AddersAreFew
      <4> QED  BY <3>4, <4>1, <4>2, <4>4
    <3> QED  BY <3>8, <3>9 DEF RacersInv
  <2> QED  BY <2>4, <2>5
<1> QED  BY <1>6, <1>7

(* After a crash nobody is about to insert.                                *)
LEMMA CrashKeepsRacers ==
  ASSUME IInv, RacersInv, IInv', Crash
  PROVE  RacersInv'
<1>1. \A t \in Threads : call'[t] = NoCall /\ rows' = rows
  BY DEF Crash
<1>2. \A k \in Keys : Adders(k)' = {}
  BY <1>1 DEF Adders, NoCall
<1> QED  BY <1>2, NoMoreRows DEF Crash

(* Every step keeps the bound.                                             *)
LEMMA RacersStep == IInv /\ IInv' /\ RacersInv /\ [Next]_vars => RacersInv'
<1> SUFFICES ASSUME IInv, IInv', RacersInv, [Next]_vars PROVE RacersInv'
  OBVIOUS
<1>1. ASSUME NEW t \in Threads, Push(t) \/ Lock(t) \/ Unlock(t) \/ Saves(t)
      PROVE  RacersInv'
  BY <1>1, TurnsAddNoRacer, NoMoreRows
<1>2. ASSUME NEW t \in Threads, Return(t) \/ \E c \in Gets \cup Sets : Call(t, c)
      PROVE  RacersInv'
  BY <1>2, CallsAddNoRacer, NoMoreRows
<1>3. ASSUME NEW t \in Threads, Execute(t) PROVE RacersInv'
  <2>1. Head(queue) \in Threads
    BY <1>3, HeadLeaves DEF Execute
  <2>2. PICK u \in Threads : u = Head(queue)
    BY <2>1
  <2> QED  BY <1>3, <2>2, ExecuteKeepsRacers
<1>4. CASE Crash
  BY <1>4, CrashKeepsRacers
<1>5. CASE UNCHANGED vars
  <2>1. \A k \in Keys : rows'[k] = rows[k] /\ Adders(k)' = Adders(k)
    BY <1>5 DEF vars, Adders, Executed, Queued
  <2> QED  BY <2>1, NoMoreRows
<1> QED  BY <1>1, <1>2, <1>3, <1>4, <1>5 DEF Next, Proceed

(* Sets that overlap leave at most one row each, and later ones none.      *)
THEOREM RacersAreBounded == Spec => []RowsOfRacers
<1>1. Init => RacersInv
  BY DEF Init, RacersInv
<1>2. IInv /\ RacersInv => RowsOfRacers
  <2> SUFFICES ASSUME IInv, RacersInv, NEW k \in Keys
               PROVE  Len(rows[k]) <= Cardinality(Threads)
    BY DEF RowsOfRacers
  <2>1. /\ Len(rows[k]) \in Nat /\ Cardinality(Threads) \in Nat
        /\ rows[k] = <<>> => Len(rows[k]) = 0
    BY ThreadsAssumption, FS_CardinalityType DEF IInv, TypeOK
  <2>2. Adders(k) \in SUBSET Threads
    BY DEF Adders
  <2>3. Cardinality(Adders(k)) \in Nat
    BY <2>2, AddersAreFew
  <2> QED  BY <2>1, <2>3 DEF RacersInv
<1> QED  BY <1>1, <1>2, InvCorrect, RacersStep, PTL DEF Spec
=============================================================================
