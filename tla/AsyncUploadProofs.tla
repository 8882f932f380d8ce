-------------------------- MODULE AsyncUploadProofs ---------------------------
(***************************************************************************)
(* AsyncUpload for every number of volumes, attempts, errors and signals,  *)
(* and every set of modes: the types, and that a manifest that is sent     *)
(* lists volumes that are there.                                           *)
(*                                                                         *)
(* That a waiter has returned means little by itself.  The invariant says  *)
(* why it is enough: a task that is done cannot be at work again, nor be   *)
(* scheduled again (Settled, Started), it has a value only for a volume    *)
(* whose size was checked, and the waiters that have returned are those    *)
(* below the one that is called (Waited).                                  *)
(*                                                                         *)
(* A restart asks more: it counts on what the store lists, at any moment.  *)
(* A volume is scheduled when those before it are whole (InOrder), so what *)
(* is listed is those and the last one, which a restart makes again.       *)
(***************************************************************************)
EXTENDS AsyncUpload, FiniteSetTheorems, TLAPS

\* A task that has an outcome is over; with a value, its volume is whole; before the
\* check there is something to check.
Settled ==
  \A v \in Volumes :
    /\ state[v] # "running" => thread[v] = "over"
    /\ state[v] = "value" \/ thread[v] = "delete" => remote[v] = "whole"
    /\ thread[v] = "check" => remote[v] # "absent"

\* Tasks are scheduled once, for the volumes made so far.
Started ==
  /\ \A v \in Volumes : thread[v] # "none" => v <= vol /\ (pc = "schedule" => v < vol)
  /\ pc = "make" => vol < NumVolumes
  /\ pc \in {"schedule", "inline"} => vol \in Volumes
  /\ pc \in {"make", "schedule", "inline"} => waiting = 1

\* The waiters below the one that is called have returned.
Waited ==
  /\ pc = "wait" => vol = NumVolumes /\ \A v \in 1..waiting - 1 : state[v] = "value"
  /\ pc = "send" \/ manifest => vol = NumVolumes /\ \A v \in Volumes : state[v] = "value"

Inv == TypeOK /\ Settled /\ Started /\ Waited

-----------------------------------------------------------------------------
LEMMA InitInv == Init => Inv
<1> SUFFICES ASSUME Init PROVE Inv
  OBVIOUS
<1> USE SizesAssumption DEF Init, Volumes
<1>1. TypeOK
  <2>1. /\ thread \in [Volumes -> {"none", "put", "sending", "check", "delete", "over", "killed"}]
        /\ attempt \in [Volumes -> 1..NumRetries]
        /\ state \in [Volumes -> {"running", "value", "error"}]
        /\ remote \in [Volumes -> {"absent", "torn", "whole"}]
    OBVIOUS
  <2>2. /\ vol \in 0..NumVolumes /\ waiting \in Volumes
        /\ errors \in 0..MaxErrors /\ signals \in 0..MaxSignals
        /\ temp \subseteq 1..vol /\ pending \subseteq temp
    OBVIOUS
  <2> QED BY <2>1, <2>2 DEF TypeOK
<1>2. Settled /\ Started /\ Waited
  BY DEF Settled, Started, Waited
<1> QED BY <1>1, <1>2 DEF Inv

\* One step per action of the main thread, and under it one per conjunct of Inv.
LEMMA MainInv == Inv /\ Main => Inv'
<1> SUFFICES ASSUME Inv, Main PROVE Inv'
  OBVIOUS
<1> USE SizesAssumption DEF Volumes
<1>1. CASE MakeVolume
  <2>1. TypeOK'
    BY <1>1 DEF MakeVolume, tasks, bounds, Inv, TypeOK, Started
  <2>2. Settled'
    BY <1>1 DEF MakeVolume, tasks, bounds, Inv, TypeOK, Settled
  <2>3. Started'
    BY <1>1 DEF MakeVolume, tasks, bounds, Inv, TypeOK, Started
  <2>4. Waited'
    BY <1>1 DEF MakeVolume, tasks, bounds, Inv, TypeOK, Started, Waited
  <2> QED BY <2>1, <2>2, <2>3, <2>4 DEF Inv
<1>2. CASE ScheduleTask
  <2>1. TypeOK'
    BY <1>2 DEF ScheduleTask, AfterSchedule, files, bounds, Inv, TypeOK, Started
  <2>2. Settled'
    BY <1>2 DEF ScheduleTask, AfterSchedule, files, bounds, Inv, TypeOK, Settled, Started
  <2>3. Started'
    BY <1>2 DEF ScheduleTask, AfterSchedule, files, bounds, Inv, TypeOK, Started
  <2>4. Waited'
    BY <1>2 DEF ScheduleTask, AfterSchedule, files, bounds, Inv, TypeOK, Started, Waited
  <2> QED BY <2>1, <2>2, <2>3, <2>4 DEF Inv
<1>3. CASE ScheduleRaises
  <2>1. TypeOK'
    BY <1>3 DEF ScheduleRaises, tasks, files, bounds, Inv, TypeOK, Started
  <2>2. Settled'
    BY <1>3 DEF ScheduleRaises, tasks, files, bounds, Inv, TypeOK, Settled
  <2>3. Started'
    BY <1>3 DEF ScheduleRaises, tasks, files, bounds, Inv, TypeOK, Started
  <2>4. Waited'
    BY <1>3 DEF ScheduleRaises, tasks, files, bounds, Inv, TypeOK, Started, Waited
  <2> QED BY <2>1, <2>2, <2>3, <2>4 DEF Inv
<1>4. CASE ScheduleInline
  <2>1. TypeOK'
    BY <1>4 DEF ScheduleInline, files, bounds, Inv, TypeOK, Started
  <2>2. Settled'
    BY <1>4 DEF ScheduleInline, files, bounds, Inv, TypeOK, Settled, Started
  <2>3. Started'
    BY <1>4 DEF ScheduleInline, files, bounds, Inv, TypeOK, Started
  <2>4. Waited'
    BY <1>4 DEF ScheduleInline, files, bounds, Inv, TypeOK, Started, Waited
  <2> QED BY <2>1, <2>2, <2>3, <2>4 DEF Inv
<1>5. CASE InlineDone
  <2>1. TypeOK'
    BY <1>5 DEF InlineDone, AfterSchedule, tasks, files, bounds, Inv, TypeOK, Started
  <2>2. Settled'
    BY <1>5 DEF InlineDone, AfterSchedule, tasks, files, bounds, Inv, TypeOK, Settled
  <2>3. Started'
    BY <1>5 DEF InlineDone, AfterSchedule, tasks, files, bounds, Inv, TypeOK, Started
  <2>4. Waited'
    BY <1>5 DEF InlineDone, AfterSchedule, tasks, files, bounds, Inv, TypeOK, Started, Waited
  <2> QED BY <2>1, <2>2, <2>3, <2>4 DEF Inv
<1>6. CASE WaiterReturns
  <2>1. TypeOK'
    BY <1>6 DEF WaiterReturns, WaiterDone, tasks, files, bounds, Inv, TypeOK, Started
  <2>2. Settled'
    BY <1>6 DEF WaiterReturns, WaiterDone, tasks, files, bounds, Inv, TypeOK, Settled
  <2>3. Started'
    BY <1>6 DEF WaiterReturns, WaiterDone, tasks, files, bounds, Inv, TypeOK, Started
  <2>4. Waited'
    BY <1>6 DEF WaiterReturns, WaiterDone, tasks, files, bounds, Inv, TypeOK, Started, Waited
  <2> QED BY <2>1, <2>2, <2>3, <2>4 DEF Inv
<1>7. CASE WaiterRaises
  <2>1. TypeOK'
    BY <1>7 DEF WaiterRaises, tasks, files, bounds, Inv, TypeOK, Started
  <2>2. Settled'
    BY <1>7 DEF WaiterRaises, tasks, files, bounds, Inv, TypeOK, Settled
  <2>3. Started'
    BY <1>7 DEF WaiterRaises, tasks, files, bounds, Inv, TypeOK, Started
  <2>4. Waited'
    BY <1>7 DEF WaiterRaises, tasks, files, bounds, Inv, TypeOK, Started, Waited
  <2> QED BY <2>1, <2>2, <2>3, <2>4 DEF Inv
<1>8. CASE SendManifest
  <2>1. TypeOK'
    BY <1>8 DEF SendManifest, tasks, files, bounds, Inv, TypeOK, Started
  <2>2. Settled'
    BY <1>8 DEF SendManifest, tasks, files, bounds, Inv, TypeOK, Settled
  <2>3. Started'
    BY <1>8 DEF SendManifest, tasks, files, bounds, Inv, TypeOK, Started
  <2>4. Waited'
    BY <1>8 DEF SendManifest, tasks, files, bounds, Inv, TypeOK, Started, Waited
  <2> QED BY <2>1, <2>2, <2>3, <2>4 DEF Inv
<1>9. CASE Cleanup
  <2>1. TypeOK'
    BY <1>9 DEF Cleanup, Remembered, tasks, bounds, Inv, TypeOK, Started
  <2>2. Settled'
    BY <1>9 DEF Cleanup, Remembered, tasks, bounds, Inv, TypeOK, Settled
  <2>3. Started'
    BY <1>9 DEF Cleanup, Remembered, tasks, bounds, Inv, TypeOK, Started
  <2>4. Waited'
    BY <1>9 DEF Cleanup, Remembered, tasks, bounds, Inv, TypeOK, Started, Waited
  <2> QED BY <2>1, <2>2, <2>3, <2>4 DEF Inv
<1>10. CASE Exit
  <2>1. TypeOK'
    BY <1>10 DEF Exit, AtWork, files, bounds, Inv, TypeOK, Started
  <2>2. Settled'
    BY <1>10 DEF Exit, AtWork, files, bounds, Inv, TypeOK, Settled
  <2>3. Started'
    BY <1>10 DEF Exit, AtWork, files, bounds, Inv, TypeOK, Started
  <2>4. Waited'
    BY <1>10 DEF Exit, AtWork, files, bounds, Inv, TypeOK, Started, Waited
  <2> QED BY <2>1, <2>2, <2>3, <2>4 DEF Inv
<1> QED BY <1>1, <1>2, <1>3, <1>4, <1>5, <1>6, <1>7, <1>8, <1>9, <1>10 DEF Main

LEMMA InterruptInv == Inv /\ Interrupt => Inv'
BY SizesAssumption DEF Interrupt, Inv, TypeOK, Settled, Started, Waited, tasks, files, Volumes

\* A step of a task changes its own entries; with a value it stays as it is.
LEMMA TaskInv == Inv /\ Task => Inv'
<1> SUFFICES ASSUME Inv, NEW v \in Volumes,
               \/ PutStarts(v) \/ PutReturns(v) \/ PutFails(v) \/ PutRefused(v)
               \/ Validate(v) \/ DeleteTemp(v)
             PROVE Inv'
  BY DEF Task
<1> USE SizesAssumption DEF Volumes
<1>1. CASE PutStarts(v)
  <2>1. TypeOK'
    BY <1>1 DEF PutStarts, main, files, bounds, Inv, TypeOK
  <2>2. Settled'
    BY <1>1 DEF PutStarts, main, files, bounds, Inv, TypeOK, Settled
  <2>3. Started'
    BY <1>1 DEF PutStarts, main, files, bounds, Inv, TypeOK, Started
  <2>4. Waited'
    BY <1>1 DEF PutStarts, main, files, bounds, Inv, TypeOK, Settled, Waited
  <2> QED BY <2>1, <2>2, <2>3, <2>4 DEF Inv
<1>2. CASE PutReturns(v)
  <2>1. TypeOK'
    BY <1>2 DEF PutReturns, main, bounds, Inv, TypeOK
  <2>2. Settled'
    BY <1>2 DEF PutReturns, main, bounds, Inv, TypeOK, Settled
  <2>3. Started'
    BY <1>2 DEF PutReturns, main, bounds, Inv, TypeOK, Started
  <2>4. Waited'
    BY <1>2 DEF PutReturns, main, bounds, Inv, TypeOK, Settled, Waited
  <2> QED BY <2>1, <2>2, <2>3, <2>4 DEF Inv
<1>3. CASE PutFails(v)
  <2>1. thread[v] \in {"put", "sending"} /\ state[v] = "running"
    BY <1>3 DEF PutFails, Inv, TypeOK, Settled
  <2>2. UNCHANGED <<mode, main, temp, pending, signals>>
    BY <1>3 DEF PutFails
  <2>3. errors' \in 0..MaxErrors
    BY <1>3 DEF PutFails, Inv, TypeOK
  <2>4. /\ remote' \in [Volumes -> {"absent", "torn", "whole"}]
        /\ \A u \in Volumes : u # v => remote'[u] = remote[u]
    <3>1. CASE UNCHANGED remote
      BY <3>1 DEF Inv, TypeOK
    <3>2. CASE remote' \in {[remote EXCEPT ![v] = r] : r \in {remote[v], "torn", "whole"}}
      <4> PICK r \in {remote[v], "torn", "whole"} : remote' = [remote EXCEPT ![v] = r]
        BY <3>2
      <4> QED BY DEF Inv, TypeOK
    <3> QED BY <1>3, <3>1, <3>2 DEF PutFails
  <2>5. CASE attempt[v] < NumRetries
    <3>1. /\ attempt' = [attempt EXCEPT ![v] = @ + 1]
          /\ thread' = [thread EXCEPT ![v] = "put"]
          /\ state' = state
      BY <1>3, <2>5 DEF PutFails
    <3>2. TypeOK'
      BY <2>2, <2>3, <2>4, <2>5, <3>1 DEF Inv, TypeOK, main
    <3>3. Settled' /\ Waited'
      BY <2>1, <2>2, <2>4, <3>1 DEF Inv, TypeOK, Settled, Waited, main
    <3>4. Started'
      BY <2>1, <2>2, <3>1 DEF Inv, TypeOK, Started, main
    <3> QED BY <3>2, <3>3, <3>4 DEF Inv
  <2>6. CASE ~(attempt[v] < NumRetries)
    <3>1. /\ attempt' = attempt
          /\ thread' = [thread EXCEPT ![v] = "over"]
          /\ state' = state \/ state' = [state EXCEPT ![v] = "error"]
      BY <1>3, <2>6 DEF PutFails, TaskExits
    <3>2. TypeOK'
      BY <2>2, <2>3, <2>4, <3>1 DEF Inv, TypeOK, main
    <3>3. Settled'
      BY <2>1, <2>4, <3>1 DEF Inv, TypeOK, Settled
    <3>4. Waited'
      BY <2>1, <2>2, <3>1 DEF Inv, TypeOK, Waited, main
    <3>5. Started'
      BY <2>1, <2>2, <3>1 DEF Inv, TypeOK, Started, main
    <3> QED BY <3>2, <3>3, <3>4, <3>5 DEF Inv
  <2> QED BY <2>5, <2>6
<1>4. CASE PutRefused(v)
  <2>1. TypeOK'
    BY <1>4 DEF PutRefused, TaskFails, main, files, Inv, TypeOK
  <2>2. Settled'
    BY <1>4 DEF PutRefused, TaskFails, main, files, Inv, TypeOK, Settled
  <2>3. Started'
    BY <1>4 DEF PutRefused, TaskFails, main, files, Inv, TypeOK, Started
  <2>4. Waited'
    <3>1. state[v] = "running"
      BY <1>4 DEF PutRefused, Inv, TypeOK, Settled
    <3>2. UNCHANGED main /\ \A u \in Volumes : state[u] = "value" => state'[u] = "value"
      BY <1>4, <3>1 DEF PutRefused, TaskFails, Inv, TypeOK
    <3> QED BY <3>2 DEF Inv, TypeOK, Waited, main
  <2> QED BY <2>1, <2>2, <2>3, <2>4 DEF Inv
<1>5. CASE Validate(v)
  <2>1. TypeOK'
    BY <1>5 DEF Validate, SizeDiffers, TaskExits, main, files, bounds, Inv, TypeOK
  <2>2. Settled'
    BY <1>5 DEF Validate, SizeDiffers, TaskExits, main, files, bounds, Inv, TypeOK, Settled
  <2>3. Started'
    BY <1>5 DEF Validate, SizeDiffers, TaskExits, main, files, bounds, Inv, TypeOK, Started
  <2>4. Waited'
    BY <1>5 DEF Validate, SizeDiffers, TaskExits, main, files, bounds, Inv, TypeOK, Settled, Waited
  <2> QED BY <2>1, <2>2, <2>3, <2>4 DEF Inv
<1>6. CASE DeleteTemp(v)
  <2>1. TypeOK'
    BY <1>6 DEF DeleteTemp, main, bounds, Inv, TypeOK
  <2>2. Settled'
    BY <1>6 DEF DeleteTemp, main, bounds, Inv, TypeOK, Settled
  <2>3. Started'
    BY <1>6 DEF DeleteTemp, main, bounds, Inv, TypeOK, Started
  <2>4. Waited'
    BY <1>6 DEF DeleteTemp, main, bounds, Inv, TypeOK, Settled, Waited
  <2> QED BY <2>1, <2>2, <2>3, <2>4 DEF Inv
<1> QED BY <1>1, <1>2, <1>3, <1>4, <1>5, <1>6

LEMMA NextInv == Inv /\ [Next]_vars => Inv'
<1>1. Inv /\ UNCHANGED vars => Inv'
  BY DEF Inv, TypeOK, Settled, Started, Waited, vars, main, tasks, files, bounds
<1> QED BY <1>1, MainInv, InterruptInv, TaskInv DEF Next

LEMMA Invariant == Spec => []Inv
BY InitInv, NextInv, PTL DEF Spec

\* The threads, the waiters, the files and the counters keep their types, and what is
\* pending in the temporary directory is a file that exists.
THEOREM TypesKept == Spec => []TypeOK
<1>1. Inv => TypeOK
  BY DEF Inv
<1> QED BY <1>1, Invariant, PTL

\* When the manifest is sent, every volume it lists is on the remote and whole, however
\* many volumes, attempts, errors and signals there are, and whatever stores say of a
\* volume they kept a part of (write_multivol, async_split, validate_block).
THEOREM ManifestComesLast == Spec => []ManifestAfterVolumes
<1>1. Inv => ManifestAfterVolumes
  BY DEF Inv, TypeOK, Settled, Waited, ManifestAfterVolumes
<1> QED BY <1>1, Invariant, PTL
-----------------------------------------------------------------------------
(* What a restart keeps.  Volumes are scheduled one after the other, each when those *)
(* before it are there.                                                             *)

\* What was made before the volume in hand is scheduled, by an inline scheduler done;
\* what is on the remote was scheduled; threads are killed at the end.
Scheduled ==
  \A v \in Volumes :
    /\ thread[v] = "killed" => pc = "over"
    /\ remote[v] # "absent" => thread[v] # "none"
    /\ \/ pc \in {"schedule", "inline"} /\ v < vol
       \/ pc = "make" /\ v <= vol
       => thread[v] # "none" /\ (mode.concurrency = 0 => state[v] = "value")
    /\ pc = "inline" /\ v = vol => thread[v] # "none"

\* The volumes below one that is scheduled are there, unless a task exited: it is not
\* waited for.
InOrder ==
  \/ \E v \in Volumes : Lost(v)
  \/ \A u, v \in Volumes : u < v /\ thread[v] # "none" => state[u] = "value"

Ordered == Scheduled /\ InOrder

LEMMA InitOrdered == Init => Ordered
BY SizesAssumption DEF Init, Ordered, Scheduled, InOrder, Volumes

\* A slot is free for a thread when no task is at work.
LEMMA FreeSlot == Inv /\ SlotFree /\ mode.concurrency > 0 => AtWork = {}
<1> SUFFICES ASSUME Inv, SlotFree, mode.concurrency > 0 PROVE AtWork = {}
  OBVIOUS
<1>1. mode.concurrency = 1
  BY SizesAssumption DEF Inv, TypeOK
<1>2. IsFiniteSet(AtWork)
  <2>1. IsFiniteSet(Volumes)
    BY FS_Interval, SizesAssumption DEF Volumes
  <2>2. AtWork \subseteq Volumes
    BY DEF AtWork
  <2>3. QED BY <2>1, <2>2, FS_Subset
<1>3. Cardinality(AtWork) \in Nat /\ Cardinality(AtWork) < 1
  BY <1>1, <1>2, FS_CardinalityType DEF SlotFree
<1>4. Cardinality(AtWork) = 0
  BY <1>3
<1> QED BY <1>2, <1>4, FS_EmptySet

\* A scheduled task changes its own entries only, and an outcome is kept: such steps
\* keep the order.
LEMMA TaskKeepsOrder ==
  ASSUME Inv, Ordered, UNCHANGED <<mode, main>>, NEW v \in Volumes,
         thread[v] # "none" /\ thread[v] # "killed" /\ thread[v] # "over",
         thread'[v] \in {"put", "sending", "check", "delete", "over"},
         \A u \in Volumes : u # v => /\ thread'[u] = thread[u] /\ state'[u] = state[u]
                                     /\ remote'[u] = remote[u]
  PROVE  Ordered'
<1>1. state[v] # "value"
  BY DEF Inv, TypeOK, Settled
<1>2. \A u \in Volumes : /\ thread'[u] = "none" <=> thread[u] = "none"
                         /\ thread'[u] = "killed" => thread[u] = "killed"
                         /\ state[u] = "value" => state'[u] = "value"
                         /\ remote'[u] # "absent" => remote[u] # "absent" \/ u = v
  BY <1>1
<1>3. Scheduled'
  BY <1>2 DEF Ordered, Scheduled, main
<1>4. InOrder'
  <2>1. ASSUME NEW w \in Volumes, Lost(w) PROVE Lost(w)'
    BY <2>1 DEF Lost
  <2>2. QED BY <1>2, <2>1 DEF Ordered, InOrder
<1> QED BY <1>3, <1>4 DEF Ordered

LEMMA TaskOrdered == Inv /\ Ordered /\ Task => Ordered'
<1> SUFFICES ASSUME Inv, Ordered, NEW v \in Volumes,
               \/ PutStarts(v) \/ PutReturns(v) \/ PutFails(v) \/ PutRefused(v)
               \/ Validate(v) \/ DeleteTemp(v)
             PROVE Ordered'
  BY DEF Task
<1>1. thread[v] \in {"put", "sending", "check", "delete"} /\ UNCHANGED <<mode, main>>
  BY DEF PutStarts, PutReturns, PutFails, PutRefused, Validate, DeleteTemp
<1>2. \E t \in {"put", "sending", "check", "delete", "over"} : thread' = [thread EXCEPT ![v] = t]
  BY DEF PutStarts, PutReturns, PutFails, PutRefused, Validate, DeleteTemp, TaskExits, TaskFails
<1>3. state' = state \/ \E s \in {"value", "error"} : state' = [state EXCEPT ![v] = s]
  BY DEF PutStarts, PutReturns, PutFails, PutRefused, Validate, DeleteTemp, TaskExits,
         TaskFails, files
<1>4. remote' = remote \/ \E r \in {"absent", "torn", "whole"} : remote' = [remote EXCEPT ![v] = r]
  BY DEF PutStarts, PutReturns, PutFails, PutRefused, Validate, DeleteTemp, files, Inv, TypeOK
<1>5. \A u \in Volumes : u # v => /\ thread'[u] = thread[u] /\ state'[u] = state[u]
                                  /\ remote'[u] = remote[u]
  BY <1>2, <1>3, <1>4 DEF Inv, TypeOK
<1>6. thread'[v] \in {"put", "sending", "check", "delete", "over"}
  BY <1>2 DEF Inv, TypeOK
<1> QED BY <1>1, <1>5, <1>6, TaskKeepsOrder

LEMMA MainOrdered == Inv /\ Ordered /\ Main => Ordered'
<1> SUFFICES ASSUME Inv, Ordered, Main PROVE Ordered'
  OBVIOUS
<1> USE SizesAssumption DEF Volumes
<1>1. CASE MakeVolume
  BY <1>1 DEF MakeVolume, tasks, Inv, TypeOK, Ordered, Scheduled, InOrder, Lost
<1>2. CASE ScheduleTask
  <2>1. /\ pc = "schedule" /\ mode.concurrency > 0 /\ vol \in Volumes
        /\ thread' = [thread EXCEPT ![vol] = "put"] /\ thread[vol] = "none"
        /\ UNCHANGED <<mode, vol, state, remote>> /\ pc' \in {"make", "wait"}
    BY <1>2 DEF ScheduleTask, AfterSchedule, files, Inv, TypeOK, Started
  <2>2. \A v \in Volumes : thread'[v] = IF v = vol THEN "put" ELSE thread[v]
    BY <2>1 DEF Inv, TypeOK
  <2>3. AtWork = {} /\ Failed = {}
    BY <1>2, FreeSlot DEF ScheduleTask
  <2>4. Scheduled'
    BY <2>1, <2>2 DEF Ordered, Scheduled, Inv, TypeOK
  <2>5. InOrder'
    <3>1. ASSUME NEW v \in Volumes, v < vol PROVE state[v] = "value" \/ Lost(v)
      <4>1. thread[v] \notin {"none", "killed"}
        BY <2>1, <3>1 DEF Ordered, Scheduled
      <4>2. thread[v] \notin {"put", "sending", "check", "delete"} /\ state[v] # "error"
        BY <2>3 DEF AtWork, Failed
      <4>3. thread[v] = "over"
        BY <4>1, <4>2 DEF Inv, TypeOK
      <4>4. state[v] \in {"running", "value"}
        BY <4>2 DEF Inv, TypeOK
      <4>5. QED BY <2>1, <4>3, <4>4 DEF Lost
    <3>2. \A v \in Volumes : Lost(v) => Lost(v)'
      BY <2>1, <2>2 DEF Lost
    <3>3. QED BY <2>1, <2>2, <3>1, <3>2 DEF Ordered, InOrder
  <2> QED BY <2>4, <2>5 DEF Ordered
<1>3. CASE ScheduleInline
  <2>1. /\ pc = "schedule" /\ mode.concurrency = 0 /\ vol \in Volumes
        /\ thread' = [thread EXCEPT ![vol] = "put"] /\ thread[vol] = "none"
        /\ UNCHANGED <<mode, vol, state, remote>> /\ pc' = "inline"
    BY <1>3 DEF ScheduleInline, files, Inv, TypeOK, Started
  <2>2. \A v \in Volumes : thread'[v] = IF v = vol THEN "put" ELSE thread[v]
    BY <2>1 DEF Inv, TypeOK
  <2>3. Scheduled'
    BY <2>1, <2>2 DEF Ordered, Scheduled, Inv, TypeOK
  <2>4. InOrder'
    BY <2>1, <2>2 DEF Ordered, Scheduled, InOrder, Lost
  <2> QED BY <2>3, <2>4 DEF Ordered
<1>4. CASE InlineDone
  <2>1. Scheduled'
    BY <1>4 DEF InlineDone, AfterSchedule, tasks, files, Ordered, Scheduled, Inv, TypeOK
  <2>2. InOrder'
    BY <1>4 DEF InlineDone, tasks, Ordered, InOrder, Lost
  <2> QED BY <2>1, <2>2 DEF Ordered
<1>5. CASE ScheduleRaises \/ WaiterReturns \/ WaiterRaises \/ SendManifest \/ Cleanup
  <2>1. UNCHANGED <<mode, tasks, remote>> /\ pc \notin {"inline", "make", "over"}
        /\ pc' \in {"unwind", "send", "wait", "exit"}
    BY <1>5 DEF ScheduleRaises, WaiterReturns, WaiterRaises, SendManifest, Cleanup, files
  <2>2. QED BY <2>1 DEF tasks, Ordered, Scheduled, InOrder, Lost
<1>6. CASE Exit
  <2>1. UNCHANGED <<mode, state, remote>> /\ pc' = "over"
    BY <1>6 DEF Exit, files
  <2>2. \A v \in Volumes : /\ thread'[v] = "none" <=> thread[v] = "none"
                           /\ thread[v] = "over" => thread'[v] = "over"
    BY <1>6 DEF Exit, AtWork
  <2>3. QED BY <2>1, <2>2 DEF Ordered, Scheduled, InOrder, Lost
<1> QED BY <1>1, <1>2, <1>3, <1>4, <1>5, <1>6 DEF Main

LEMMA NextOrdered == Inv /\ Ordered /\ [Next]_vars => Ordered'
<1>1. Inv /\ Ordered /\ UNCHANGED vars => Ordered'
  BY DEF Ordered, Scheduled, InOrder, Lost, vars, main, tasks, files
<1>2. Inv /\ Ordered /\ Interrupt => Ordered'
  BY DEF Interrupt, Ordered, Scheduled, InOrder, Lost, tasks, files
<1> QED BY <1>1, <1>2, MainOrdered, TaskOrdered DEF Next

\* Whenever the process is killed, the volumes that a restart counts on are on the
\* remote and whole, for every number of volumes, attempts, errors and signals, in the
\* main thread and in a thread, unless a task has exited (Restart.setParms).
THEOREM RestartIsSafe == Spec => []RestartKeepsWhole
<1>1. Inv /\ Ordered => RestartKeepsWhole
  <2> DEFINE there == {v \in Volumes : remote[v] # "absent"}
  <2> SUFFICES ASSUME Inv, Ordered, \A v \in Volumes : ~Lost(v),
                      NEW v \in 1..StartVol, remote[v] # "whole"
               PROVE FALSE
    BY DEF RestartKeepsWhole
  <2>1. IsFiniteSet(there) /\ Cardinality(there) \in Nat /\ Cardinality(there) <= NumVolumes
    <3>1. IsFiniteSet(Volumes) /\ Cardinality(Volumes) = NumVolumes
      BY FS_Interval, SizesAssumption DEF Volumes
    <3>2. QED BY <3>1, FS_Subset, FS_CardinalityType
  <2>2. v \in Nat \ {0} /\ v < Cardinality(there) /\ v \in Volumes
    BY <2>1, SizesAssumption DEF StartVol, Volumes
  <2>3. state[v] # "value"
    BY <2>2 DEF Inv, Settled
  <2>4. \A w \in Volumes : v < w => w \notin there
    BY <2>2, <2>3 DEF Ordered, Scheduled, InOrder
  <2>5. there \subseteq 1..v
    BY <2>2, <2>4, SizesAssumption DEF Volumes
  <2>6. Cardinality(there) <= Cardinality(1..v) /\ Cardinality(1..v) = v
    BY <2>2, <2>5, FS_Interval, FS_Subset
  <2>7. QED BY <2>1, <2>2, <2>6
<1> QED BY <1>1, InitOrdered, NextOrdered, Invariant, InitInv, NextInv, PTL DEF Spec
=============================================================================
