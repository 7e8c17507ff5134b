---------------------------- MODULE KeyValueRows ----------------------------
(***************************************************************************)
(* What the table of keys and values promises to the isolates that call    *)
(* KeyValue.get and KeyValue.set (plugins/glib): each call takes effect at *)
(* one moment between its beginning and its end. A set may be overwritten  *)
(* at that very moment by another that goes on at the same time, and a     *)
(* call that the end of the process interrupts may or may not have had its *)
(* effect. A key that was never set reads as the empty string.             *)
(***************************************************************************)
CONSTANTS Threads, Keys, Values, Empty

VARIABLES
  value,  \* value[k]: what a get of key k answers
  call,   \* call[t]: the call thread t is in
  done,   \* the threads whose call took its effect
  answer  \* answer[t]: what it read

rowVars == <<value, call, done, answer>>

NoCall == [op |-> "none"]
Gets == [op : {"get"}, key : Keys]
Sets == [op : {"set"}, key : Keys, value : Values]

RowsInit ==
  /\ value = [k \in Keys |-> Empty]
  /\ call = [t \in Threads |-> NoCall]
  /\ done = {}
  /\ answer = [t \in Threads |-> Empty]

Begin(t, c) ==
  /\ call[t] = NoCall
  /\ call' = [call EXCEPT ![t] = c]
  /\ UNCHANGED <<value, done, answer>>

Read(t) ==
  /\ call[t] \in Gets
  /\ t \notin done
  /\ done' = done \cup {t}
  /\ answer' = [answer EXCEPT ![t] = value[call[t].key]]
  /\ UNCHANGED <<value, call>>

(* The set of t, and before it those of the threads in ss.                 *)
Write(t, ss) ==
  /\ call[t] \in Sets
  /\ \A s \in ss : call[s] \in Sets /\ call[s].key = call[t].key
  /\ done \cap (ss \cup {t}) = {}
  /\ done' = done \cup ss \cup {t}
  /\ value' = [value EXCEPT ![call[t].key] = call[t].value]
  /\ UNCHANGED <<call, answer>>

Return(t) ==
  /\ t \in done
  /\ call' = [call EXCEPT ![t] = NoCall]
  /\ done' = done \ {t}
  /\ answer' = [answer EXCEPT ![t] = Empty]
  /\ UNCHANGED value

Crash ==
  /\ call' = [t \in Threads |-> NoCall]
  /\ done' = {}
  /\ answer' = [t \in Threads |-> Empty]
  /\ UNCHANGED value

RowsNext ==
  \/ \E t \in Threads :
       \/ \E c \in Gets \cup Sets : Begin(t, c)
       \/ Read(t)
       \/ \E ss \in SUBSET Threads : Write(t, ss)
       \/ Return(t)
  \/ Crash

RowsSpec == RowsInit /\ [][RowsNext]_rowVars
=============================================================================
