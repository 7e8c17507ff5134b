------------------------------ MODULE Database ------------------------------
(***************************************************************************)
(* The database of plugins/glib as the isolates of one process use it for  *)
(* the rows of keys and values: KeyValue::get and KeyValue::set, made of   *)
(* statements that Database::exce queues and Database::checkQueue executes.*)
(* Each isolate runs on a thread of its own, the objects Database and      *)
(* Table are shared, and the queue is guarded by one mutex. The table and  *)
(* its database object exist (the process has started before).             *)
(***************************************************************************)
EXTENDS Naturals, Sequences, FiniteSets

CONSTANTS
  None,
  Threads,  \* the threads of the isolates
  Keys,
  Values,   \* the strings that are saved
  Empty     \* the empty string

ASSUME NoneAssumption == None \notin Threads
ASSUME ThreadsAssumption == IsFiniteSet(Threads)
ASSUME EmptyAssumption == Empty \in Values

VARIABLES
  rows,   \* rows[k]: the values of the rows with key k, in order of their identifiers
  queue,  \* Database::queue: the threads whose statement waits
  mutex,  \* the thread that holds Database::mtx
  pc,     \* pc[t]: where thread t is in exce
  stage,  \* stage[t]: the statement it is about, "select" or "write"
  call,   \* call[t]: the call of KeyValue it is in
  row     \* row[t]: the row its query found

vars == <<rows, queue, mutex, pc, stage, call, row>>

NoCall == [op |-> "none"]
Gets == [op : {"get"}, key : Keys]
Sets == [op : {"set"}, key : Keys, value : Values]
NoRow == [found |-> FALSE, value |-> Empty]
Queued == {queue[n] : n \in DOMAIN queue}

TypeOK ==
  /\ rows \in [Keys -> Seq(Values)]
  /\ queue \in Seq(Threads)
  /\ mutex \in Threads \cup {None}
  /\ pc \in [Threads -> {"idle", "push", "pushed", "draining", "back"}]
  /\ stage \in [Threads -> {"select", "write"}]
  /\ call \in [Threads -> {NoCall} \cup Gets \cup Sets]
  /\ row \in [Threads -> [found : BOOLEAN, value : Values]]

Init ==
  /\ rows = [k \in Keys |-> <<>>]
  /\ queue = <<>>
  /\ mutex = None
  /\ pc = [t \in Threads |-> "idle"]
  /\ stage = [t \in Threads |-> "select"]
  /\ call = [t \in Threads |-> NoCall]
  /\ row = [t \in Threads |-> NoRow]

-----------------------------------------------------------------------------
(* Database::exce, for one statement.                                      *)

(* queue.push_back under the mutex.                                        *)
Push(t) ==
  /\ pc[t] = "push"
  /\ mutex = None
  /\ queue' = Append(queue, t)
  /\ pc' = [pc EXCEPT ![t] = "pushed"]
  /\ UNCHANGED <<rows, mutex, stage, call, row>>

(* checkQueue takes the mutex again. Others may have been faster, and have *)
(* executed the statement of this thread with their own.                   *)
Lock(t) ==
  /\ pc[t] = "pushed"
  /\ mutex = None
  /\ mutex' = t
  /\ pc' = [pc EXCEPT ![t] = "draining"]
  /\ UNCHANGED <<rows, queue, stage, call, row>>

(* SELECT ... WHERE key = ?: of the rows found the callers read the first. *)
Select(u) ==
  LET found == rows[call[u].key]
  IN
  /\ row' = [row EXCEPT ![u] = IF found = <<>> THEN NoRow
                               ELSE [found |-> TRUE, value |-> found[1]]]
  /\ UNCHANGED rows

(* SQLite::update: nothing makes the keys of a table unique.               *)
Saved(u) ==
  LET old == rows[call[u].key]
  IN IF row[u].found THEN [old EXCEPT ![1] = call[u].value]
     ELSE Append(old, call[u].value)

Save(u) ==
  /\ rows' = [rows EXCEPT ![call[u].key] = Saved(u)]
  /\ UNCHANGED row

(* A bug for Execute: one statement is executed, and the queue cleared.    *)
ExecuteFirst(t) ==
  /\ mutex = t
  /\ queue # <<>>
  /\ IF stage[Head(queue)] = "select" THEN Select(Head(queue)) ELSE Save(Head(queue))
  /\ queue' = <<>>
  /\ UNCHANGED <<mutex, pc, stage, call>>

(* SQLite::action for the next statement, whoever queued it. The code      *)
(* ignores what sqlite answers; here each statement has its effect.        *)
Execute(t) ==
  /\ mutex = t
  /\ queue # <<>>
  /\ IF stage[Head(queue)] = "select" THEN Select(Head(queue)) ELSE Save(Head(queue))
  /\ queue' = Tail(queue)
  /\ UNCHANGED <<mutex, pc, stage, call>>

Unlock(t) ==
  /\ mutex = t
  /\ queue = <<>>
  /\ mutex' = None
  /\ pc' = [pc EXCEPT ![t] = "back"]
  /\ UNCHANGED <<rows, queue, stage, call, row>>

-----------------------------------------------------------------------------
(* KeyValue::get and KeyValue::set.                                        *)

Call(t, c) ==
  /\ pc[t] = "idle"
  /\ call' = [call EXCEPT ![t] = c]
  /\ pc' = [pc EXCEPT ![t] = "push"]
  /\ UNCHANGED <<rows, queue, mutex, stage, row>>

(* The value of the row set() found is the one to save: save() sees no     *)
(* change and does nothing.                                                *)
Unchanged(t) == row[t].found /\ row[t].value = call[t].value

(* The statement executed was the last one of the call.                    *)
Last(t) == call[t].op = "set" => stage[t] = "write" \/ Unchanged(t)

(* A bug for Saves: a new KeyValue whether or not there was a row.         *)
SavesAnew(t) ==
  /\ pc[t] = "back"
  /\ ~Last(t)
  /\ stage' = [stage EXCEPT ![t] = "write"]
  /\ pc' = [pc EXCEPT ![t] = "push"]
  /\ row' = [row EXCEPT ![t] = NoRow]
  /\ UNCHANGED <<rows, queue, mutex, call>>

(* set() has looked for the row and saves it, or a new one.                *)
Saves(t) ==
  /\ pc[t] = "back"
  /\ ~Last(t)
  /\ stage' = [stage EXCEPT ![t] = "write"]
  /\ pc' = [pc EXCEPT ![t] = "push"]
  /\ UNCHANGED <<rows, queue, mutex, call, row>>

(* The call returns: a get with the value it read.                         *)
Return(t) ==
  /\ pc[t] = "back"
  /\ Last(t)
  /\ pc' = [pc EXCEPT ![t] = "idle"]
  /\ stage' = [stage EXCEPT ![t] = "select"]
  /\ call' = [call EXCEPT ![t] = NoCall]
  /\ row' = [row EXCEPT ![t] = NoRow]
  /\ UNCHANGED <<rows, queue, mutex>>

(* The end of the process: sqlite has committed each statement by itself.  *)
Crash ==
  /\ queue' = <<>>
  /\ mutex' = None
  /\ pc' = [t \in Threads |-> "idle"]
  /\ stage' = [t \in Threads |-> "select"]
  /\ call' = [t \in Threads |-> NoCall]
  /\ row' = [t \in Threads |-> NoRow]
  /\ UNCHANGED rows

Proceed(t) == Push(t) \/ Lock(t) \/ Execute(t) \/ Unlock(t) \/ Saves(t) \/ Return(t)

Next ==
  \/ \E t \in Threads : Proceed(t) \/ \E c \in Gets \cup Sets : Call(t, c)
  \/ Crash

Spec == Init /\ [][Next]_vars

-----------------------------------------------------------------------------
(* Properties.                                                             *)

Executed(t) == pc[t] \in {"pushed", "draining", "back"} /\ t \notin Queued
Missed(t) == call[t].op = "set" /\ ~row[t].found /\ (stage[t] = "write" \/ Executed(t))

(* A set has had its effect when it is written, when there was nothing to  *)
(* write, and when it is about to add a row to a key that another set gave *)
(* a row meanwhile: it will add one, but behind that row.                  *)
Effective(t) ==
  \/ Executed(t) /\ Last(t)
  \/ Missed(t) /\ rows[call[t].key] # <<>>

(* What a get answers, and what a get of thread t has read.                *)
FirstRow(k) == IF rows[k] = <<>> THEN Empty ELSE rows[k][1]
Answer(t) == IF call[t].op = "get" /\ Executed(t) THEN row[t].value ELSE Empty

Promise == INSTANCE KeyValueRows WITH
  value <- [k \in Keys |-> FirstRow(k)],
  done <- {t \in Threads : Effective(t)},
  answer <- [t \in Threads |-> Answer(t)]

(* Every get and set is atomic, although a set is two statements, a thread *)
(* executes the statements of others, and two threads may each add a row   *)
(* for a new key (KeyValue::set, Database::exce, checkQueue).              *)
KeepsPromise == Promise!RowsSpec

(* A key has more than one row only by sets that overlapped the first one: *)
(* never more rows than threads, however often it is set.                  *)
RowsOfRacers == \A k \in Keys : Len(rows[k]) <= Cardinality(Threads)
=============================================================================
