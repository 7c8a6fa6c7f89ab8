---------------------------- MODULE TTSHook_proofs ----------------------------
(***************************************************************************)
(* What TLAPS proves of TTSHook, for any number of sessions and sentences. *)
(***************************************************************************)
EXTENDS TTSHook, TLAPS

(* A bucket that took one more task is a bucket.                             *)
LEMMA WithTaskBucket ==
  ASSUME NEW b \in Bucket, NEW t \in Tasks
  PROVE  WithTask(b, t) \in Bucket
BY DEF WithTask, Bucket

(* Every step keeps every variable in its type.                              *)
LEMMA HookTypeStep == TypeOK /\ [Next]_vars => TypeOK'
<1> USE HookAssumption
<1> SUFFICES ASSUME TypeOK, [Next]_vars PROVE TypeOK'
  OBVIOUS
<1>1. ASSUME NEW s \in Sessions, Turn(s), UNCHANGED inputs PROVE TypeOK'
  <2>0. StateFor(s) \in Bucket
    BY DEF StateFor, TypeOK, Bucket
  <2>1. CASE TurnBegins(s) \/ TurnAborted(s) \/ EndWithoutBucket(s)
    BY <1>1, <2>1 DEF TypeOK, TurnBegins, TurnAborted, EndWithoutBucket, inputs
  <2>2. ASSUME NEW b \in Bucket, NEW t \in Tasks, Dispatched(s, t, b)
        PROVE  task' \in [Tasks -> TaskRec \cup {None}] /\ WithTask(b, t) \in Bucket
    <3>1. voiceOf[s] \in Voices \cup {None} /\ b.seq \in Nat
      BY DEF TypeOK, Bucket
    <3>2. [session |-> s, seq |-> b.seq, voice |-> voiceOf[s], at |-> "scheduled"] \in TaskRec
      BY <3>1 DEF TaskRec
    <3>3. task' \in [Tasks -> TaskRec \cup {None}]
      BY <2>2, <3>2 DEF Dispatched, TypeOK
    <3> QED BY <3>3, WithTaskBucket
  <2>3. ASSUME NEW text \in BOOLEAN, OnStream(s, text) PROVE TypeOK'
    <3> DEFINE b == [StateFor(s) EXCEPT !.text = text]
    <3>0. b \in Bucket
      BY <2>0 DEF Bucket
    <3>1. CASE bucket' = [bucket EXCEPT ![s] = b] /\ UNCHANGED task
      BY <1>1, <2>3, <3>0, <3>1 DEF TypeOK, OnStream, inputs
    <3>2. ASSUME NEW t \in Tasks, Dispatched(s, t, b),
                 bucket' = [bucket EXCEPT ![s] = WithTask(b, t)]
          PROVE TypeOK'
      BY <1>1, <2>2, <2>3, <3>0, <3>2 DEF TypeOK, OnStream, inputs
    <3> QED BY <2>3, <3>1, <3>2 DEF OnStream
  <2>4. ASSUME NEW tasks \in [Tasks -> TaskRec \cup {None}], DropBucket(s, tasks)
        PROVE  /\ bucket' \in [Sessions -> Bucket \cup {None}]
               /\ task' \in [Tasks -> TaskRec \cup {None}]
    BY <2>4 DEF DropBucket, TypeOK
  <2>5. CASE OnStreamEnd(s)
    <3> DEFINE b == [bucket[s] EXCEPT !.text = FALSE]
    <3>0. b \in Bucket
      BY <2>5 DEF OnStreamEnd, TypeOK, Bucket
    <3>1. pc' \in [Sessions -> {"idle", "streaming", "barrier"}]
      BY <2>5 DEF OnStreamEnd, TypeOK
    <3>2. CASE DropBucket(s, task)
      BY <1>1, <2>4, <3>1, <3>2 DEF TypeOK, inputs
    <3>3. CASE bucket' = [bucket EXCEPT ![s] = b] /\ UNCHANGED task
      BY <1>1, <3>0, <3>1, <3>3 DEF TypeOK, inputs
    <3>4. ASSUME NEW t \in Tasks, Dispatched(s, t, b),
                 bucket' = [bucket EXCEPT ![s] = WithTask(b, t)]
          PROVE TypeOK'
      BY <1>1, <2>2, <3>0, <3>1, <3>4 DEF TypeOK, inputs
    <3> QED BY <2>5, <3>2, <3>3, <3>4 DEF OnStreamEnd
  <2>6. CASE BarrierPasses(s)
    BY <1>1, <2>4, <2>6 DEF BarrierPasses, TypeOK, inputs
  <2>7. CASE BarrierTimesOut(s)
    <3> DEFINE tasks == [t \in Tasks |->
                           IF t \in bucket[s].pending /\ Live(t)
                           THEN [task[t] EXCEPT !.at = "cancelled"] ELSE task[t]]
    <3>1. tasks \in [Tasks -> TaskRec \cup {None}]
      BY DEF TypeOK, Live, TaskRec
    <3>2. DropBucket(s, tasks)
      BY <2>7 DEF BarrierTimesOut
    <3> QED BY <1>1, <2>4, <2>7, <3>1, <3>2 DEF BarrierTimesOut, TypeOK, inputs
  <2> QED BY <1>1, <2>1, <2>3, <2>5, <2>6, <2>7 DEF Turn
<1>2. ASSUME NEW t \in Tasks, Task(t), UNCHANGED inputs PROVE TypeOK'
  <2>1. ASSUME NEW from, NEW to \in {"synth", "emitting", "done"}, Moves(t, from, to)
        PROVE  TypeOK'
    BY <1>2, <2>1 DEF Moves, TypeOK, TaskRec, inputs
  <2> QED BY <1>2, <2>1 DEF Task, TaskStarts, SynthReturns, EmitReturns
<1>3. CASE InputsChange
  BY <1>3 DEF InputsChange, TypeOK, hookVars
<1>4. CASE UNCHANGED vars
  BY <1>4 DEF vars, inputs, hookVars, TypeOK
<1> QED BY <1>1, <1>2, <1>3, <1>4 DEF Next

(* Every variable keeps its type.                                            *)
THEOREM HookTypeCorrect == Spec => []TypeOK
<1>1. Init => TypeOK
  BY DEF Init, HookInit, TypeOK
<1> QED BY <1>1, HookTypeStep, PTL DEF Spec

-----------------------------------------------------------------------------
(* Tasks and buckets *)

\* A task keeps its slot exactly as long as its session's bucket remembers it.
TasksInBuckets ==
  \A t \in Tasks : task[t] # None =>
    /\ bucket[task[t].session] # None
    /\ t \in bucket[task[t].session].pending

HInv == TypeOK /\ TasksInBuckets /\ SequencesContiguous

(* A step that gives session s a bucket with the same numbered tasks, or     *)
(* leaves the buckets alone and only moves tasks on, keeps the invariant.    *)
LEMMA SameTasksKeepInvariant ==
  ASSUME HInv, TypeOK',
         \A s \in Sessions :
           \/ bucket'[s] = bucket[s]
           \/ bucket[s] = None /\ bucket'[s] # None /\ bucket'[s].seq = 0 /\ bucket'[s].pending = {}
           \/ /\ bucket[s] # None /\ bucket'[s] # None
              /\ bucket'[s].seq = bucket[s].seq /\ bucket'[s].pending = bucket[s].pending,
         \A t \in Tasks :
           \/ task'[t] = task[t]
           \/ /\ task[t] # None /\ task'[t] # None
              /\ task'[t].session = task[t].session /\ task'[t].seq = task[t].seq
  PROVE  HInv'
<1>0. \A t \in Tasks : task[t] # None => task[t].session \in Sessions
  BY DEF HInv, TypeOK, TaskRec
<1>1. TasksInBuckets'
  BY <1>0 DEF HInv, TasksInBuckets
<1>2. SequencesContiguous'
  <2> SUFFICES ASSUME NEW s \in Sessions, bucket'[s] # None
               PROVE  /\ \A t \in bucket'[s].pending : task'[t] # None /\ task'[t].session = s
                      /\ \A t, u \in bucket'[s].pending : task'[t].seq = task'[u].seq => t = u
                      /\ \A t \in bucket'[s].pending : task'[t].seq < bucket'[s].seq
                      /\ \A n \in 0 .. (bucket'[s].seq - 1) :
                            \E t \in bucket'[s].pending : task'[t].seq = n
    BY DEF SequencesContiguous
  <2>1. CASE bucket[s] = None
    <3>1. bucket'[s].seq = 0 /\ bucket'[s].pending = {}
      BY <2>1
    <3> QED BY <3>1
  <2>2. CASE bucket[s] # None
    <3>1. bucket'[s].seq = bucket[s].seq /\ bucket'[s].pending = bucket[s].pending
      BY <2>2
    <3>2. bucket[s].pending \subseteq Tasks
      BY <2>2 DEF HInv, TypeOK, Bucket
    <3>3. \A t \in bucket[s].pending : task[t] # None /\ task[t].session = s
      BY <2>2 DEF HInv, SequencesContiguous
    <3>4. \A t \in bucket[s].pending :
            task'[t] # None /\ task'[t].session = s /\ task'[t].seq = task[t].seq
      BY <3>2, <3>3
    <3> QED BY <2>2, <3>1, <3>4 DEF HInv, SequencesContiguous
  <2> QED BY <2>1, <2>2
<1> QED BY <1>1, <1>2 DEF HInv

(* Starting one more task, with the bucket's next number, keeps it.          *)
LEMMA DispatchKeepsInvariant ==
  ASSUME HInv, TypeOK', NEW s \in Sessions, NEW t \in Tasks, NEW b \in Bucket,
         \/ bucket[s] = None /\ b.seq = 0 /\ b.pending = {}
         \/ bucket[s] # None /\ b.seq = bucket[s].seq /\ b.pending = bucket[s].pending,
         Dispatched(s, t, b),
         bucket' = [bucket EXCEPT ![s] = WithTask(b, t)]
  PROVE  HInv'
<1>1. /\ bucket'[s] = WithTask(b, t) /\ bucket'[s] # None
      /\ bucket'[s].seq = b.seq + 1 /\ bucket'[s].pending = b.pending \cup {t}
      /\ \A r \in Sessions : r # s => bucket'[r] = bucket[r]
  <2>1. bucket'[s] = WithTask(b, t) /\ \A r \in Sessions : r # s => bucket'[r] = bucket[r]
    BY DEF HInv, TypeOK
  <2>2. bucket'[s].seq = b.seq + 1 /\ bucket'[s].pending = b.pending \cup {t}
    BY <2>1 DEF WithTask
  <2>3. bucket'[s] # None
    BY <2>1, WithTaskBucket, HookAssumption
  <2> QED BY <2>1, <2>2, <2>3
<1>2. /\ task[t] = None /\ task'[t] # None
      /\ task'[t].session = s /\ task'[t].seq = b.seq
      /\ \A u \in Tasks : u # t => task'[u] = task[u]
  <2> DEFINE rec == [session |-> s, seq |-> b.seq, voice |-> voiceOf[s], at |-> "scheduled"]
  <2>1. task[t] = None /\ task'[t] = rec /\ \A u \in Tasks : u # t => task'[u] = task[u]
    BY DEF Dispatched, HInv, TypeOK
  <2>2. rec \in TaskRec
    <3>1. voiceOf[s] \in Voices \cup {None} /\ b.seq \in Nat
      BY DEF HInv, TypeOK, Bucket
    <3> QED BY <3>1 DEF TaskRec
  <2> QED BY <2>1, <2>2, HookAssumption
<1>3. /\ b.pending \subseteq Tasks /\ t \notin b.pending
      /\ b.seq \in Nat
      /\ \A u \in b.pending : task[u] # None /\ task[u].session = s /\ task[u].seq < b.seq
      /\ \A u, v \in b.pending : task[u].seq = task[v].seq => u = v
      /\ \A n \in 0 .. (b.seq - 1) : \E u \in b.pending : task[u].seq = n
  <2>1. b.pending \subseteq Tasks /\ b.seq \in Nat
    BY DEF Bucket
  <2>2. CASE bucket[s] = None
    <3>1. b.seq = 0 /\ b.pending = {}
      BY <2>2
    <3> QED BY <2>1, <3>1
  <2>3. CASE bucket[s] # None
    <3>1. b.seq = bucket[s].seq /\ b.pending = bucket[s].pending
      BY <2>3
    <3> QED BY <1>2, <2>1, <2>3, <3>1 DEF HInv, SequencesContiguous
  <2> QED BY <2>2, <2>3
<1>4. \A u \in Tasks : task[u] # None /\ task[u].session = s => u \in b.pending
  BY DEF HInv, TasksInBuckets
<1>5. \A u \in Tasks : task[u] # None => task[u].session \in Sessions
  BY DEF HInv, TypeOK, TaskRec
<1>6. TasksInBuckets'
  <2> SUFFICES ASSUME NEW u \in Tasks, task'[u] # None
               PROVE  /\ bucket'[task'[u].session] # None
                      /\ u \in bucket'[task'[u].session].pending
    BY DEF TasksInBuckets
  <2>1. CASE u = t
    BY <1>1, <1>2, <2>1
  <2>2. CASE u # t /\ task[u].session = s
    BY <1>1, <1>2, <1>4, <2>2
  <2>3. CASE u # t /\ task[u].session # s
    BY <1>1, <1>2, <1>5, <2>3 DEF HInv, TasksInBuckets
  <2> QED BY <2>1, <2>2, <2>3
<1>7. SequencesContiguous'
  <2> SUFFICES ASSUME NEW r \in Sessions, bucket'[r] # None
               PROVE  /\ \A u \in bucket'[r].pending : task'[u] # None /\ task'[u].session = r
                      /\ \A u, v \in bucket'[r].pending : task'[u].seq = task'[v].seq => u = v
                      /\ \A u \in bucket'[r].pending : task'[u].seq < bucket'[r].seq
                      /\ \A n \in 0 .. (bucket'[r].seq - 1) :
                            \E u \in bucket'[r].pending : task'[u].seq = n
    BY DEF SequencesContiguous
  <2>1. CASE r = s
    <3>1. \A u \in b.pending : task'[u] = task[u]
      BY <1>2, <1>3
    <3>2. \A n \in 0 .. b.seq : \E u \in b.pending \cup {t} : task'[u].seq = n
      <4> SUFFICES ASSUME NEW n \in 0 .. b.seq
                   PROVE  \E u \in b.pending \cup {t} : task'[u].seq = n
        OBVIOUS
      <4>1. CASE n = b.seq
        BY <1>2, <4>1
      <4>2. CASE n # b.seq
        <5>1. n \in 0 .. (b.seq - 1)
          BY <1>3, <4>2
        <5> QED BY <1>3, <3>1, <5>1
      <4> QED BY <4>1, <4>2
    <3>3. \A u \in b.pending : task'[u].seq < b.seq /\ task'[u].seq \in Nat
      BY <1>3, <3>1 DEF HInv, TypeOK, TaskRec
    <3>4. \A u \in b.pending \cup {t} : task'[u].seq < b.seq + 1
      BY <1>2, <1>3, <3>3
    <3>5. \A u, v \in b.pending \cup {t} : task'[u].seq = task'[v].seq => u = v
      BY <1>2, <1>3, <3>1, <3>3
    <3>6. \A u \in b.pending \cup {t} : task'[u] # None /\ task'[u].session = s
      BY <1>2, <1>3, <3>1
    <3>7. bucket'[r].seq - 1 = b.seq
      BY <1>1, <1>3, <2>1
    <3> QED BY <1>1, <2>1, <3>2, <3>4, <3>5, <3>6, <3>7
  <2>2. CASE r # s
    <3>1. bucket'[r] = bucket[r] /\ bucket[r].pending \subseteq Tasks
      BY <1>1, <2>2 DEF HInv, TypeOK, Bucket
    <3>2. \A u \in bucket[r].pending : task[u] # None /\ task[u].session = r
      BY <3>1 DEF HInv, SequencesContiguous
    <3>3. \A u \in bucket[r].pending : task'[u] = task[u]
      BY <1>2, <2>2, <3>1, <3>2
    <3> QED BY <3>1, <3>3 DEF HInv, SequencesContiguous
  <2> QED BY <2>1, <2>2
<1> QED BY <1>6, <1>7 DEF HInv

(* Dropping a bucket whose tasks are all over keeps it.                      *)
LEMMA DropKeepsInvariant ==
  ASSUME HInv, TypeOK', NEW s \in Sessions, NEW tasks \in [Tasks -> TaskRec \cup {None}],
         DropBucket(s, tasks),
         \A t \in Tasks :
           \/ tasks[t] = task[t]
           \/ /\ task[t] # None /\ tasks[t] # None
              /\ tasks[t].session = task[t].session /\ tasks[t].seq = task[t].seq,
         \A t \in Tasks : task[t] # None /\ task[t].session = s =>
                            tasks[t].at \in {"done", "cancelled"}
  PROVE  HInv'
<1>1. /\ bucket'[s] = None
      /\ \A r \in Sessions : r # s => bucket'[r] = bucket[r]
  BY DEF DropBucket, HInv, TypeOK
<1>2. \A t \in Tasks : task[t] # None => task[t].session \in Sessions
  BY DEF HInv, TypeOK, TaskRec
<1>3. \A t \in Tasks : task'[t] # None =>
        /\ task[t] # None /\ task[t].session # s
        /\ task'[t].session = task[t].session /\ task'[t].seq = task[t].seq
  BY DEF DropBucket
<1>4. \A t \in Tasks : task[t] # None /\ task[t].session # s =>
        /\ task'[t] # None
        /\ task'[t].session = task[t].session /\ task'[t].seq = task[t].seq
  BY DEF DropBucket
<1>5. TasksInBuckets'
  BY <1>1, <1>2, <1>3 DEF HInv, TasksInBuckets
<1>6. SequencesContiguous'
  <2> SUFFICES ASSUME NEW r \in Sessions, bucket'[r] # None
               PROVE  /\ \A u \in bucket'[r].pending : task'[u] # None /\ task'[u].session = r
                      /\ \A u, v \in bucket'[r].pending : task'[u].seq = task'[v].seq => u = v
                      /\ \A u \in bucket'[r].pending : task'[u].seq < bucket'[r].seq
                      /\ \A n \in 0 .. (bucket'[r].seq - 1) :
                            \E u \in bucket'[r].pending : task'[u].seq = n
    BY DEF SequencesContiguous
  <2>1. bucket'[r] = bucket[r] /\ bucket[r].pending \subseteq Tasks /\ r # s
    BY <1>1 DEF HInv, TypeOK, Bucket
  <2>2. \A u \in bucket[r].pending : task[u] # None /\ task[u].session = r
    BY <2>1 DEF HInv, SequencesContiguous
  <2>3. \A u \in bucket[r].pending :
          task'[u] # None /\ task'[u].session = r /\ task'[u].seq = task[u].seq
    BY <1>4, <2>1, <2>2
  <2> QED BY <2>1, <2>3 DEF HInv, SequencesContiguous
<1> QED BY <1>5, <1>6 DEF HInv

(* Every step keeps the invariant.                                           *)
LEMMA HInvStep == HInv /\ [Next]_vars => HInv'
<1> SUFFICES ASSUME HInv, [Next]_vars PROVE HInv'
  OBVIOUS
<1>0. TypeOK /\ TypeOK'
  BY HookTypeStep DEF HInv
<1>1. ASSUME NEW s \in Sessions, Turn(s) PROVE HInv'
  <2>0. /\ StateFor(s) \in Bucket
        /\ \/ bucket[s] = None /\ StateFor(s).seq = 0 /\ StateFor(s).pending = {}
           \/ bucket[s] # None /\ StateFor(s) = bucket[s]
    BY <1>0 DEF StateFor, TypeOK, Bucket
  <2>1. CASE UNCHANGED <<bucket, task>>
    BY <1>0, <2>1, SameTasksKeepInvariant
  <2>2. ASSUME NEW text \in BOOLEAN, OnStream(s, text) PROVE HInv'
    <3> DEFINE b == [StateFor(s) EXCEPT !.text = text]
    <3>1. b \in Bucket /\ b.seq = StateFor(s).seq /\ b.pending = StateFor(s).pending
      BY <2>0 DEF Bucket
    <3>2. CASE bucket' = [bucket EXCEPT ![s] = b] /\ UNCHANGED task
      <4>1. bucket'[s] = b /\ \A r \in Sessions : r # s => bucket'[r] = bucket[r]
        BY <1>0, <3>2 DEF TypeOK
      <4>2. bucket'[s] # None
        BY <3>1, <4>1, HookAssumption
      <4> QED BY <1>0, <2>0, <3>1, <3>2, <4>1, <4>2, SameTasksKeepInvariant
    <3>3. ASSUME NEW t \in Tasks, Dispatched(s, t, b),
                 bucket' = [bucket EXCEPT ![s] = WithTask(b, t)]
          PROVE HInv'
      BY <1>0, <2>0, <3>1, <3>3, DispatchKeepsInvariant
    <3> QED BY <2>2, <3>2, <3>3 DEF OnStream
  <2>3. CASE OnStreamEnd(s)
    <3> DEFINE b == [bucket[s] EXCEPT !.text = FALSE]
    <3>1. b \in Bucket /\ b.seq = bucket[s].seq /\ b.pending = bucket[s].pending
          /\ bucket[s] # None
      <4>1. bucket[s] # None /\ bucket[s] \in Bucket
        BY <1>0, <2>3 DEF OnStreamEnd, TypeOK
      <4> QED BY <4>1 DEF Bucket
    <3>2. CASE b.pending = {} /\ DropBucket(s, task)
      <4>1. \A t \in Tasks : ~(task[t] # None /\ task[t].session = s)
        BY <3>1, <3>2 DEF HInv, TasksInBuckets
      <4>2. task \in [Tasks -> TaskRec \cup {None}]
        BY <1>0 DEF TypeOK
      <4> QED BY <1>0, <3>2, <4>1, <4>2, DropKeepsInvariant
    <3>3. CASE bucket' = [bucket EXCEPT ![s] = b] /\ UNCHANGED task
      <4>1. bucket'[s] = b /\ \A r \in Sessions : r # s => bucket'[r] = bucket[r]
        BY <1>0, <3>3 DEF TypeOK
      <4>2. bucket'[s] # None
        BY <3>1, <4>1, HookAssumption
      <4> QED BY <1>0, <3>1, <3>3, <4>1, <4>2, SameTasksKeepInvariant
    <3>4. ASSUME NEW t \in Tasks, Dispatched(s, t, b),
                 bucket' = [bucket EXCEPT ![s] = WithTask(b, t)]
          PROVE HInv'
      BY <1>0, <3>1, <3>4, DispatchKeepsInvariant
    <3> QED BY <2>3, <3>2, <3>3, <3>4 DEF OnStreamEnd
  <2>4. CASE BarrierPasses(s)
    <3>1. \A t \in Tasks : task[t] # None /\ task[t].session = s => t \in bucket[s].pending
      BY DEF HInv, TasksInBuckets
    <3>2. \A t \in Tasks : task[t] # None /\ task[t].session = s =>
                             task[t].at \in {"done", "cancelled"}
      BY <1>0, <2>4, <3>1 DEF BarrierPasses, Live, TypeOK, TaskRec
    <3>3. task \in [Tasks -> TaskRec \cup {None}] /\ DropBucket(s, task)
      BY <1>0, <2>4 DEF TypeOK, BarrierPasses
    <3> QED BY <1>0, <3>2, <3>3, DropKeepsInvariant
  <2>5. CASE BarrierTimesOut(s)
    <3> DEFINE tasks == [t \in Tasks |->
                           IF t \in bucket[s].pending /\ Live(t)
                           THEN [task[t] EXCEPT !.at = "cancelled"] ELSE task[t]]
    <3>1. DropBucket(s, tasks)
      BY <2>5 DEF BarrierTimesOut
    <3>2. tasks \in [Tasks -> TaskRec \cup {None}]
      BY <1>0 DEF TypeOK, Live, TaskRec
    <3>3. ASSUME NEW t \in Tasks
          PROVE  \/ tasks[t] = task[t]
                 \/ /\ task[t] # None /\ tasks[t] # None
                    /\ tasks[t].session = task[t].session /\ tasks[t].seq = task[t].seq
      <4>1. CASE t \in bucket[s].pending /\ Live(t)
        <5>1. task[t] \in TaskRec /\ tasks[t] = [task[t] EXCEPT !.at = "cancelled"]
          BY <1>0, <4>1 DEF TypeOK, Live
        <5>2. tasks[t] \in TaskRec
              /\ tasks[t].session = task[t].session /\ tasks[t].seq = task[t].seq
          BY <5>1 DEF TaskRec
        <5> HIDE DEF tasks
        <5> QED BY <5>1, <5>2, HookAssumption
      <4> QED BY <4>1
    <3>4. ASSUME NEW t \in Tasks, task[t] # None, task[t].session = s
          PROVE  tasks[t].at \in {"done", "cancelled"}
      <4>1. t \in bucket[s].pending /\ task[t] \in TaskRec
        BY <1>0, <3>4 DEF HInv, TasksInBuckets, TypeOK
      <4>2. CASE Live(t)
        BY <4>1, <4>2 DEF TaskRec
      <4>3. CASE ~Live(t)
        BY <3>4, <4>1, <4>3 DEF Live, TaskRec
      <4> QED BY <4>2, <4>3
    <3> HIDE DEF tasks
    <3> QED BY <1>0, <3>1, <3>2, <3>3, <3>4, DropKeepsInvariant
  <2> QED BY <1>1, <2>1, <2>2, <2>3, <2>4, <2>5
           DEF Turn, TurnBegins, TurnAborted, EndWithoutBucket
<1>2. ASSUME NEW t \in Tasks, Task(t) PROVE HInv'
  <2>1. ASSUME NEW from, NEW to \in {"synth", "emitting", "done"}, Moves(t, from, to)
        PROVE  HInv'
    <3>1. task[t] \in TaskRec /\ task'[t] = [task[t] EXCEPT !.at = to]
          /\ bucket' = bucket /\ \A u \in Tasks : u # t => task'[u] = task[u]
      BY <1>0, <2>1 DEF Moves, TypeOK
    <3>2. task'[t] \in TaskRec
          /\ task'[t].session = task[t].session /\ task'[t].seq = task[t].seq
      BY <3>1 DEF TaskRec
    <3> QED BY <1>0, <3>1, <3>2, HookAssumption, SameTasksKeepInvariant
  <2> QED BY <1>2, <2>1 DEF Task, TaskStarts, SynthReturns, EmitReturns
<1>3. CASE UNCHANGED hookVars
  BY <1>0, <1>3, SameTasksKeepInvariant DEF hookVars
<1> QED BY <1>1, <1>2, <1>3 DEF Next, InputsChange, vars

(* A fresh hook satisfies it.                                                *)
LEMMA HInvInit == Init => HInv
BY DEF Init, HookInit, HInv, TypeOK, TasksInBuckets, SequencesContiguous

(* Whatever the interleaving of turns, aborted turns, timeouts and tasks, a  *)
(* task that can still speak is one its session's next barrier knows of.     *)
THEOREM LiveTasksStayTracked == Spec => []LiveTasksTracked
<1>1. HInv => LiveTasksTracked
  BY DEF HInv, TasksInBuckets, LiveTasksTracked, Live
<1> QED BY <1>1, HInvInit, HInvStep, PTL DEF Spec

(* The sentences of a bucket are numbered without a gap or a repeat, for any *)
(* number of sessions that share the hook and of sentences in flight.        *)
THEOREM SequencesStayContiguous == Spec => []SequencesContiguous
<1>1. HInv => SequencesContiguous
  BY DEF HInv
<1> QED BY <1>1, HInvInit, HInvStep, PTL DEF Spec

-----------------------------------------------------------------------------
(* The abstract barrier *)

\* A turn that waits at the barrier has a bucket.
BarrierHasBucket == \A s \in Sessions : pc[s] = "barrier" => bucket[s] # None

(* Every step keeps it: only the end of the wait drops the bucket.           *)
LEMMA BarrierBucketStep ==
  TypeOK /\ TypeOK' /\ BarrierHasBucket /\ [Next]_vars => BarrierHasBucket'
<1> SUFFICES ASSUME TypeOK, TypeOK', BarrierHasBucket, [Next]_vars PROVE BarrierHasBucket'
  OBVIOUS
<1>1. ASSUME NEW s \in Sessions, Turn(s) PROVE BarrierHasBucket'
  <2>0. /\ \A r \in Sessions : r # s => pc'[r] = pc[r] /\ bucket'[r] = bucket[r]
        /\ pc'[s] = "barrier" => bucket'[s] # None
    <3>1. CASE TurnBegins(s) \/ TurnAborted(s) \/ EndWithoutBucket(s)
      BY <3>1 DEF TurnBegins, TurnAborted, EndWithoutBucket, TypeOK
    <3>2. ASSUME NEW text \in BOOLEAN, OnStream(s, text)
          PROVE  /\ pc' = pc /\ pc[s] = "streaming"
                 /\ \E b : bucket' = [bucket EXCEPT ![s] = b]
      BY <3>2 DEF OnStream
    <3>3. CASE BarrierPasses(s) \/ BarrierTimesOut(s)
      BY <3>3 DEF BarrierPasses, BarrierTimesOut, DropBucket, TypeOK
    <3>4. CASE OnStreamEnd(s)
      <4> DEFINE b == [bucket[s] EXCEPT !.text = FALSE]
      <4>1. b \in Bucket
        BY <3>4 DEF OnStreamEnd, TypeOK, Bucket
      <4>2. CASE DropBucket(s, task) /\ pc' = [pc EXCEPT ![s] = "idle"]
        BY <4>2 DEF DropBucket, TypeOK
      <4>3. CASE bucket' = [bucket EXCEPT ![s] = b] /\ pc' = [pc EXCEPT ![s] = "barrier"]
        BY <4>1, <4>3, HookAssumption DEF TypeOK
      <4>4. ASSUME NEW t \in Tasks, bucket' = [bucket EXCEPT ![s] = WithTask(b, t)],
                   pc' = [pc EXCEPT ![s] = "barrier"]
            PROVE  /\ bucket'[s] # None
                   /\ \A r \in Sessions : r # s => pc'[r] = pc[r] /\ bucket'[r] = bucket[r]
        BY <4>1, <4>4, WithTaskBucket, HookAssumption DEF TypeOK
      <4> QED BY <3>4, <4>2, <4>3, <4>4 DEF OnStreamEnd
    <3> QED BY <1>1, <3>1, <3>2, <3>3, <3>4 DEF Turn, TypeOK
  <2> QED BY <2>0 DEF BarrierHasBucket
<1>2. CASE UNCHANGED <<pc, bucket>>
  BY <1>2 DEF BarrierHasBucket
<1> QED BY <1>1, <1>2 DEF Next, Task, TaskStarts, SynthReturns, EmitReturns, Moves,
                          InputsChange, hookVars, vars

(* A step that neither starts nor ends a task, nor touches a number, cannot  *)
(* be heard.                                                                 *)
LEMMA NothingHeard ==
  ASSUME TypeOK, TypeOK',
         \A s \in Sessions : Said(s)' = Said(s),
         \A t \in Tasks :
           /\ Live(t)' <=> Live(t)
           /\ Live(t) => task'[t].session = task[t].session /\ task'[t].seq = task[t].seq
  PROVE  SaidNow' = SaidNow /\ UnheardNow' = UnheardNow
<1>1. SaidNow' = SaidNow
  BY DEF SaidNow
<1>2. ASSUME NEW s \in Sessions PROVE Unheard(s)' = Unheard(s)
  BY DEF Unheard
<1> QED BY <1>1, <1>2 DEF UnheardNow

(* Dispatching a sentence says the session's next number.                    *)
LEMMA DispatchSays ==
  ASSUME HInv, TypeOK', NEW s \in Sessions, NEW t \in Tasks, NEW b \in Bucket,
         b.seq = Said(s),
         Dispatched(s, t, b),
         bucket' = [bucket EXCEPT ![s] = WithTask(b, t)]
  PROVE  /\ SaidNow' = [SaidNow EXCEPT ![s] = @ + 1]
         /\ UnheardNow' = [UnheardNow EXCEPT ![s] = @ \cup {SaidNow[s]}]
<1>1. /\ bucket'[s] = WithTask(b, t) /\ bucket'[s] # None
      /\ \A r \in Sessions : r # s => bucket'[r] = bucket[r]
  BY WithTaskBucket, HookAssumption DEF HInv, TypeOK
<1>2. Said(s)' = Said(s) + 1 /\ \A r \in Sessions : r # s => Said(r)' = Said(r)
  <2>1. bucket'[s].seq = b.seq + 1
    BY <1>1 DEF WithTask
  <2> QED BY <1>1, <2>1 DEF Said
<1>3. /\ ~Live(t) /\ Live(t)' /\ task'[t].session = s /\ task'[t].seq = Said(s)
      /\ \A u \in Tasks : u # t => task'[u] = task[u]
  <2> DEFINE rec == [session |-> s, seq |-> b.seq, voice |-> voiceOf[s], at |-> "scheduled"]
  <2>1. task[t] = None /\ task'[t] = rec /\ \A u \in Tasks : u # t => task'[u] = task[u]
    BY DEF Dispatched, HInv, TypeOK
  <2>2. rec \in TaskRec
    <3>1. voiceOf[s] \in Voices \cup {None} /\ b.seq \in Nat
      BY DEF HInv, TypeOK, Bucket
    <3> QED BY <3>1 DEF TaskRec
  <2> QED BY <2>1, <2>2, HookAssumption DEF Live
<1>4. Unheard(s)' = Unheard(s) \cup {Said(s)}
  BY <1>3 DEF Unheard, Live
<1>5. ASSUME NEW r \in Sessions, r # s PROVE Unheard(r)' = Unheard(r)
  BY <1>3, <1>5 DEF Unheard, Live
<1>6. SaidNow' = [SaidNow EXCEPT ![s] = @ + 1]
  BY <1>2 DEF SaidNow
<1>7. UnheardNow' = [UnheardNow EXCEPT ![s] = @ \cup {SaidNow[s]}]
  BY <1>4, <1>5 DEF UnheardNow, SaidNow
<1> QED BY <1>6, <1>7

(* Dropping a bucket whose tasks are over or cancelled silences its session. *)
LEMMA DropSilences ==
  ASSUME HInv, NEW s \in Sessions, NEW tasks,
         DropBucket(s, tasks),
         \A t \in Tasks : task[t] # None /\ task[t].session # s => tasks[t] = task[t],
         \A t \in Tasks : task[t] = None => tasks[t] = None,
         \A t \in Tasks : task[t] # None /\ task[t].session = s =>
                            /\ tasks[t] # None
                            /\ tasks[t].session = s
                            /\ tasks[t].at \in {"done", "cancelled"}
  PROVE  /\ SaidNow' = [SaidNow EXCEPT ![s] = 0]
         /\ UnheardNow' = [UnheardNow EXCEPT ![s] = {}]
<1>1. bucket'[s] = None /\ \A r \in Sessions : r # s => bucket'[r] = bucket[r]
  BY DEF DropBucket, HInv, TypeOK
<1>2. Said(s)' = 0 /\ \A r \in Sessions : r # s => Said(r)' = Said(r)
  BY <1>1 DEF Said
<1>3. ASSUME NEW t \in Tasks
      PROVE  /\ task[t] = None => task'[t] = None
             /\ task[t] # None /\ task[t].session = s => task'[t] = None
             /\ task[t] # None /\ task[t].session # s => task'[t] = task[t]
  BY DEF DropBucket
<1>4. Unheard(s)' = {}
  BY <1>3 DEF Unheard, Live
<1>5. ASSUME NEW r \in Sessions, r # s PROVE Unheard(r)' = Unheard(r)
  BY <1>3, <1>5 DEF Unheard, Live
<1>6. SaidNow' = [SaidNow EXCEPT ![s] = 0]
  BY <1>2 DEF SaidNow
<1>7. UnheardNow' = [UnheardNow EXCEPT ![s] = {}]
  BY <1>4, <1>5 DEF UnheardNow
<1> QED BY <1>6, <1>7

(* A sentence that is over can be heard no more, and no other is concerned:  *)
(* its number is not that of another sentence of the session.                *)
LEMMA TaskEndHears ==
  ASSUME HInv, TypeOK', NEW t \in Tasks, Live(t), ~Live(t)',
         NEW s \in Sessions, s = task[t].session,
         bucket' = bucket,
         \A u \in Tasks : u # t => task'[u] = task[u]
  PROVE  /\ task[t].seq \in UnheardNow[s]
         /\ SaidNow' = SaidNow
         /\ UnheardNow' = [UnheardNow EXCEPT ![s] = @ \ {task[t].seq}]
<1>1. task[t] # None
  BY DEF Live
<1>2. task[t].seq \in Unheard(s)
  BY DEF Unheard
<1>3. \A u \in Tasks : Live(u) /\ task[u].session = s /\ u # t => task[u].seq # task[t].seq
  <2>1. bucket[s] # None /\ t \in bucket[s].pending
    BY <1>1 DEF HInv, TasksInBuckets
  <2>2. \A u \in Tasks : Live(u) /\ task[u].session = s => u \in bucket[s].pending
    BY DEF HInv, TasksInBuckets, Live
  <2> QED BY <1>1, <2>1, <2>2 DEF HInv, SequencesContiguous
<1>4. \A u \in Tasks : u # t => (Live(u)' <=> Live(u)) /\ task'[u] = task[u]
  BY DEF Live
<1>5. Unheard(s)' = Unheard(s) \ {task[t].seq}
  BY <1>3, <1>4 DEF Unheard
<1>6. ASSUME NEW r \in Sessions, r # s PROVE Unheard(r)' = Unheard(r)
  BY <1>4, <1>6 DEF Unheard
<1>7. UnheardNow' = [UnheardNow EXCEPT ![s] = @ \ {task[t].seq}]
  BY <1>1, <1>5, <1>6 DEF UnheardNow
<1>8. SaidNow' = SaidNow
  BY DEF SaidNow, Said
<1> QED BY <1>1, <1>2, <1>7, <1>8 DEF UnheardNow

(* Every step of the hook is a step of the barrier protocol, or invisible.   *)
LEMMA BarrierStep == HInv /\ HInv' /\ BarrierHasBucket /\ [Next]_vars => [Barrier!Next]_(Barrier!vars)
<1> SUFFICES ASSUME HInv, HInv', BarrierHasBucket, [Next]_vars PROVE [Barrier!Next]_(Barrier!vars)
  OBVIOUS
<1>0. TypeOK /\ TypeOK'
  BY DEF HInv
<1>2. ASSUME NEW s \in Sessions
      PROVE  /\ /\ s \notin TalkingNow /\ TalkingNow' = TalkingNow \cup {s}
                /\ UNCHANGED <<SaidNow, UnheardNow>>
                => Barrier!Begin(s)
             /\ /\ s \in TalkingNow /\ TalkingNow' = TalkingNow
                /\ SaidNow' = [SaidNow EXCEPT ![s] = @ + 1]
                /\ UnheardNow' = [UnheardNow EXCEPT ![s] = @ \cup {SaidNow[s]}]
                => Barrier!Say(s)
             /\ /\ s \in TalkingNow /\ TalkingNow' = TalkingNow \ {s}
                /\ SaidNow' = [SaidNow EXCEPT ![s] = 0]
                /\ UnheardNow' = [UnheardNow EXCEPT ![s] = {}]
                => Barrier!End(s)
             /\ /\ s \in TalkingNow /\ TalkingNow' = TalkingNow \ {s}
                /\ UNCHANGED <<SaidNow, UnheardNow>>
                => Barrier!Abort(s)
             /\ \A n \in UnheardNow[s] :
                  /\ UnheardNow' = [UnheardNow EXCEPT ![s] = @ \ {n}]
                  /\ UNCHANGED <<TalkingNow, SaidNow>>
                  => Barrier!Hear(s, n)
  BY DEF Barrier!Begin, Barrier!Say, Barrier!End, Barrier!Abort, Barrier!Hear
<1>3. ASSUME NEW s \in Sessions, Turn(s)
      PROVE  \/ UNCHANGED <<TalkingNow, SaidNow, UnheardNow>>
             \/ /\ s \notin TalkingNow /\ TalkingNow' = TalkingNow \cup {s}
                /\ UNCHANGED <<SaidNow, UnheardNow>>
             \/ /\ s \in TalkingNow /\ TalkingNow' = TalkingNow
                /\ SaidNow' = [SaidNow EXCEPT ![s] = @ + 1]
                /\ UnheardNow' = [UnheardNow EXCEPT ![s] = @ \cup {SaidNow[s]}]
             \/ /\ s \in TalkingNow /\ TalkingNow' = TalkingNow \ {s}
                /\ SaidNow' = [SaidNow EXCEPT ![s] = 0]
                /\ UnheardNow' = [UnheardNow EXCEPT ![s] = {}]
             \/ /\ s \in TalkingNow /\ TalkingNow' = TalkingNow \ {s}
                /\ UNCHANGED <<SaidNow, UnheardNow>>
  <2>0. /\ StateFor(s) \in Bucket
        /\ bucket[s] = None => StateFor(s).seq = 0
        /\ bucket[s] # None => StateFor(s) = bucket[s]
    BY <1>0 DEF StateFor, TypeOK, Bucket
  <2>1. /\ pc' = [pc EXCEPT ![s] = "idle"] /\ pc[s] # "idle" => TalkingNow' = TalkingNow \ {s}
        /\ pc' = [pc EXCEPT ![s] = "streaming"] /\ pc[s] = "idle" =>
             s \notin TalkingNow /\ TalkingNow' = TalkingNow \cup {s}
        /\ pc' = [pc EXCEPT ![s] = "barrier"] /\ pc[s] # "idle" => TalkingNow' = TalkingNow
        /\ pc' = pc => TalkingNow' = TalkingNow
        /\ pc[s] # "idle" => s \in TalkingNow
    BY <1>0 DEF TypeOK, TalkingNow
  <2>2. CASE UNCHANGED <<bucket, task>>
    <3>1. UNCHANGED <<SaidNow, UnheardNow>>
      BY <2>2 DEF SaidNow, UnheardNow, Said, Unheard, Live
    <3>2. CASE TurnBegins(s)
      BY <2>1, <3>1, <3>2 DEF TurnBegins
    <3>3. CASE pc' = [pc EXCEPT ![s] = "idle"] /\ pc[s] # "idle"
      BY <2>1, <3>1, <3>3
    <3>4. CASE pc' = [pc EXCEPT ![s] = "barrier"] /\ pc[s] # "idle"
      BY <2>1, <3>1, <3>4
    <3>5. CASE pc' = pc
      BY <2>1, <3>1, <3>5
    <3> QED BY <1>3, <3>2, <3>3, <3>4, <3>5
            DEF Turn, TurnAborted, OnStream, EndWithoutBucket, OnStreamEnd, BarrierPasses, BarrierTimesOut
  <2>3. ASSUME NEW b \in Bucket, b.seq = Said(s),
               bucket' = [bucket EXCEPT ![s] = b], UNCHANGED task
        PROVE  UNCHANGED <<SaidNow, UnheardNow>>
    <3>1. bucket'[s] = b /\ b # None /\ \A r \in Sessions : r # s => bucket'[r] = bucket[r]
      BY <1>0, <2>3, HookAssumption DEF TypeOK
    <3>2. \A r \in Sessions : Said(r)' = Said(r)
      BY <2>3, <3>1 DEF Said
    <3>3. \A t \in Tasks :
            /\ Live(t)' <=> Live(t)
            /\ Live(t) => task'[t].session = task[t].session /\ task'[t].seq = task[t].seq
      BY <2>3 DEF Live
    <3> QED BY <1>0, <3>2, <3>3, NothingHeard
  <2>4. ASSUME NEW text \in BOOLEAN, OnStream(s, text)
        PROVE  \/ UNCHANGED <<TalkingNow, SaidNow, UnheardNow>>
               \/ /\ s \in TalkingNow /\ TalkingNow' = TalkingNow
                  /\ SaidNow' = [SaidNow EXCEPT ![s] = @ + 1]
                  /\ UnheardNow' = [UnheardNow EXCEPT ![s] = @ \cup {SaidNow[s]}]
    <3> DEFINE b == [StateFor(s) EXCEPT !.text = text]
    <3>1. b \in Bucket /\ b.seq = Said(s)
      BY <2>0 DEF Bucket, Said
    <3>2. s \in TalkingNow /\ TalkingNow' = TalkingNow
      BY <2>1, <2>4 DEF OnStream
    <3>3. CASE bucket' = [bucket EXCEPT ![s] = b] /\ UNCHANGED task
      BY <2>3, <3>1, <3>2, <3>3
    <3>4. ASSUME NEW t \in Tasks, Dispatched(s, t, b),
                 bucket' = [bucket EXCEPT ![s] = WithTask(b, t)]
          PROVE  /\ SaidNow' = [SaidNow EXCEPT ![s] = @ + 1]
                 /\ UnheardNow' = [UnheardNow EXCEPT ![s] = @ \cup {SaidNow[s]}]
      BY <1>0, <3>1, <3>4, DispatchSays
    <3> QED BY <2>4, <3>2, <3>3, <3>4 DEF OnStream
  <2>5. CASE OnStreamEnd(s)
    <3> DEFINE b == [bucket[s] EXCEPT !.text = FALSE]
    <3>1. b \in Bucket /\ b.seq = Said(s) /\ b.pending = bucket[s].pending
      <4>1. bucket[s] # None /\ bucket[s] \in Bucket
        BY <1>0, <2>5 DEF OnStreamEnd, TypeOK
      <4> QED BY <4>1 DEF Bucket, Said
    <3>2. s \in TalkingNow
      BY <2>1, <2>5 DEF OnStreamEnd
    <3>3. CASE b.pending = {} /\ DropBucket(s, task) /\ pc' = [pc EXCEPT ![s] = "idle"]
      <4>1. \A t \in Tasks : ~(task[t] # None /\ task[t].session = s)
        BY <3>1, <3>3 DEF HInv, TasksInBuckets
      <4>2. /\ SaidNow' = [SaidNow EXCEPT ![s] = 0]
            /\ UnheardNow' = [UnheardNow EXCEPT ![s] = {}]
        BY <3>3, <4>1, DropSilences
      <4> QED BY <2>1, <2>5, <3>2, <3>3, <4>2 DEF OnStreamEnd
    <3>4. CASE /\ bucket' = [bucket EXCEPT ![s] = b] /\ UNCHANGED task
               /\ pc' = [pc EXCEPT ![s] = "barrier"]
      BY <2>1, <2>3, <2>5, <3>1, <3>4 DEF OnStreamEnd
    <3>5. ASSUME NEW t \in Tasks, Dispatched(s, t, b),
                 bucket' = [bucket EXCEPT ![s] = WithTask(b, t)],
                 pc' = [pc EXCEPT ![s] = "barrier"]
          PROVE  /\ TalkingNow' = TalkingNow
                 /\ SaidNow' = [SaidNow EXCEPT ![s] = @ + 1]
                 /\ UnheardNow' = [UnheardNow EXCEPT ![s] = @ \cup {SaidNow[s]}]
      BY <1>0, <2>1, <2>5, <3>1, <3>5, DispatchSays DEF OnStreamEnd
    <3> QED BY <2>5, <3>2, <3>3, <3>4, <3>5 DEF OnStreamEnd
  <2>6. CASE BarrierPasses(s)
    <3>1. \A t \in Tasks : task[t] # None /\ task[t].session = s =>
                             task[t].at \in {"done", "cancelled"}
      BY <1>0, <2>6 DEF HInv, TasksInBuckets, BarrierPasses, Live, TypeOK, TaskRec
    <3>2. /\ SaidNow' = [SaidNow EXCEPT ![s] = 0]
          /\ UnheardNow' = [UnheardNow EXCEPT ![s] = {}]
      BY <2>6, <3>1, DropSilences DEF BarrierPasses
    <3> QED BY <2>1, <2>6, <3>2 DEF BarrierPasses
  <2>7. CASE BarrierTimesOut(s)
    <3> DEFINE tasks == [t \in Tasks |->
                           IF t \in bucket[s].pending /\ Live(t)
                           THEN [task[t] EXCEPT !.at = "cancelled"] ELSE task[t]]
    <3>1. DropBucket(s, tasks)
      BY <2>7 DEF BarrierTimesOut
    <3>2. \A t \in bucket[s].pending : task[t] # None /\ task[t].session = s
      <4>1. bucket[s] # None
        BY <2>7 DEF BarrierTimesOut, BarrierHasBucket
      <4> QED BY <4>1 DEF HInv, SequencesContiguous
    <3>3. ASSUME NEW t \in Tasks, task[t] # None, task[t].session # s
          PROVE  tasks[t] = task[t]
      BY <3>2, <3>3
    <3>4. ASSUME NEW t \in Tasks, task[t] # None, task[t].session = s
          PROVE  /\ tasks[t] # None /\ tasks[t].session = s
                 /\ tasks[t].at \in {"done", "cancelled"}
      <4>1. t \in bucket[s].pending /\ task[t] \in TaskRec
        BY <1>0, <3>4 DEF HInv, TasksInBuckets, TypeOK
      <4>2. CASE Live(t)
        <5>1. tasks[t] = [task[t] EXCEPT !.at = "cancelled"]
          BY <4>1, <4>2
        <5>2. tasks[t] \in TaskRec /\ tasks[t].session = s /\ tasks[t].at = "cancelled"
          BY <3>4, <4>1, <5>1 DEF TaskRec
        <5> QED BY <5>2, HookAssumption
      <4>3. CASE ~Live(t)
        BY <3>4, <4>1, <4>3 DEF Live, TaskRec
      <4> QED BY <4>2, <4>3
    <3>5. \A t \in Tasks : task[t] = None => tasks[t] = None
      BY DEF Live
    <3> HIDE DEF tasks
    <3>6. /\ SaidNow' = [SaidNow EXCEPT ![s] = 0]
          /\ UnheardNow' = [UnheardNow EXCEPT ![s] = {}]
      BY <3>1, <3>3, <3>4, <3>5, DropSilences
    <3> QED BY <2>1, <2>7, <3>6 DEF BarrierTimesOut
  <2> QED BY <1>3, <2>2, <2>4, <2>5, <2>6, <2>7
           DEF Turn, TurnBegins, TurnAborted, EndWithoutBucket
<1>4. ASSUME NEW t \in Tasks, Task(t)
      PROVE  \/ UNCHANGED <<TalkingNow, SaidNow, UnheardNow>>
             \/ \E s \in Sessions : \E n \in UnheardNow[s] :
                  /\ UnheardNow' = [UnheardNow EXCEPT ![s] = @ \ {n}]
                  /\ UNCHANGED <<TalkingNow, SaidNow>>
  <2>1. ASSUME NEW from \in {"scheduled", "synth", "emitting"},
               NEW to \in {"synth", "emitting", "done"}, Moves(t, from, to)
        PROVE  \/ UNCHANGED <<TalkingNow, SaidNow, UnheardNow>>
               \/ \E s \in Sessions : \E n \in UnheardNow[s] :
                    /\ UnheardNow' = [UnheardNow EXCEPT ![s] = @ \ {n}]
                    /\ UNCHANGED <<TalkingNow, SaidNow>>
    <3>1. /\ task[t] \in TaskRec /\ task'[t] = [task[t] EXCEPT !.at = to]
          /\ task[t].at = from /\ pc' = pc /\ bucket' = bucket
          /\ \A u \in Tasks : u # t => task'[u] = task[u]
      BY <1>0, <2>1 DEF Moves, TypeOK
    <3>2. /\ task'[t] \in TaskRec /\ task'[t].at = to
          /\ task'[t].session = task[t].session /\ task'[t].seq = task[t].seq
      BY <3>1 DEF TaskRec
    <3>3. Live(t) /\ (Live(t)' <=> to # "done")
      BY <3>1, <3>2, HookAssumption DEF Live
    <3>4. TalkingNow' = TalkingNow
      BY <3>1 DEF TalkingNow
    <3>5. CASE to = "done"
      <4>1. task[t].session \in Sessions
        BY <3>1 DEF TaskRec
      <4> QED BY <1>0, <3>1, <3>3, <3>4, <3>5, <4>1, TaskEndHears
    <3>6. CASE to # "done"
      <4>1. \A u \in Tasks :
              /\ Live(u)' <=> Live(u)
              /\ Live(u) => task'[u].session = task[u].session /\ task'[u].seq = task[u].seq
        BY <3>1, <3>2, <3>3, <3>6 DEF Live
      <4>2. \A s \in Sessions : Said(s)' = Said(s)
        BY <3>1 DEF Said
      <4> QED BY <1>0, <3>4, <4>1, <4>2, NothingHeard
    <3> QED BY <3>5, <3>6
  <2> QED BY <1>4, <2>1 DEF Task, TaskStarts, SynthReturns, EmitReturns
<1>5. ASSUME UNCHANGED hookVars PROVE UNCHANGED <<TalkingNow, SaidNow, UnheardNow>>
  BY <1>5 DEF hookVars, TalkingNow, SaidNow, UnheardNow, Said, Unheard, Live
<1>6. \/ \E s \in Sessions : Turn(s)
      \/ \E t \in Tasks : Task(t)
      \/ UNCHANGED hookVars
  BY DEF Next, InputsChange, vars
<1>7. CASE UNCHANGED <<TalkingNow, SaidNow, UnheardNow>>
  BY <1>7 DEF Barrier!vars
<1>8. CASE ~ UNCHANGED <<TalkingNow, SaidNow, UnheardNow>>
  BY <1>2, <1>3, <1>4, <1>5, <1>6, <1>8 DEF Barrier!Next
<1> QED BY <1>7, <1>8

(* The hook implements the barrier protocol, for any number of sessions and  *)
(* of sentences in flight, whatever turns abort and syntheses hang.          *)
THEOREM HookImplementsBarrier == Spec => ImplementsBarrier
<1>1. Init => Barrier!Init
  BY DEF Init, HookInit, Barrier!Init, TalkingNow, SaidNow, UnheardNow, Said, Unheard, Live
<1>2. Init => BarrierHasBucket
  BY DEF Init, HookInit, BarrierHasBucket
<1>3. HInv => TypeOK
  BY DEF HInv
<1> QED BY <1>1, <1>2, <1>3, HInvInit, HInvStep, BarrierBucketStep, BarrierStep, PTL
        DEF Spec, ImplementsBarrier, Barrier!Spec
=============================================================================
