----------------------------- MODULE AsyncUpload -----------------------------
(***************************************************************************)
(* Volumes are uploaded by threads while the main thread writes the next   *)
(* one (bin/duplicity: write_multivol, put, main; dup_threading.py:        *)
(* async_split, interruptably_wait; tempdir.py).  The main thread schedules *)
(* one task per volume and in the end calls the waiter of each.            *)
(*                                                                         *)
(* asyncscheduler.py is not in the repository: schedule_task is external.  *)
(* It runs a task in the caller when the concurrency is 0, else in a       *)
(* thread as soon as fewer than that many are at work, and raises what an  *)
(* earlier task raised.  A thread ends with its task, whatever it raises.  *)
(*                                                                         *)
(* Abstractions.  A volume is its number.  The manifest on disk is a       *)
(* number too: it lists the volumes from 1 on.                             *)
(***************************************************************************)
EXTENDS Naturals, FiniteSets

CONSTANTS
  NumVolumes,   \* volumes of the set
  NumRetries,   \* globals.num_retries
  Modes,        \* [concurrency, exits, lies]: async_concurrency; may calls use
                \* up their attempts; may a store return from a put of which it
                \* kept a part, and give its size
  MaxErrors,    \* bound: calls that fail
  MaxSignals    \* bound: errors and signals in the main thread

ASSUME SizesAssumption ==
  /\ NumVolumes \in Nat \ {0} /\ NumRetries \in Nat \ {0}
  /\ MaxErrors \in Nat /\ MaxSignals \in Nat
  /\ Modes \subseteq [concurrency : {0, 1}, exits : BOOLEAN, lies : BOOLEAN]

Volumes == 1..NumVolumes

VARIABLES
  mode,     \* chosen once
  pc,       \* main thread: "make", "schedule", "inline", "wait", "send",
            \* "unwind", "exit", "over"
  vol,      \* vol_num
  listed,   \* volumes in the partial manifest on disk
  waiting,  \* the waiter that is called next
  thread,   \* of each task: "none", "put", "sending", "check", "delete",
            \* "over", "killed"
  attempt,  \* n in retry, by volume
  state,    \* state of async_split: "running", "value", "error"
  remote,   \* each volume: "absent", "torn", "whole"
  temp,     \* temporary files that exist
  pending,  \* TemporaryDirectory.__pending
  manifest, \* is the manifest on the remote?
  errors, signals  \* bounds

main   == <<pc, vol, listed, waiting, manifest>>
tasks  == <<thread, attempt, state>>
files  == <<remote, temp, pending>>
bounds == <<errors, signals>>
vars   == <<mode, main, tasks, files, bounds>>

AtWork == {v \in Volumes : thread[v] \in {"put", "sending", "check", "delete"}}

Init ==
  /\ mode \in Modes
  /\ pc = "make" /\ vol = 0 /\ listed = 0 /\ waiting = 1
  /\ thread = [v \in Volumes |-> "none"]
  /\ attempt = [v \in Volumes |-> 1]
  /\ state = [v \in Volumes |-> "running"]
  /\ remote = [v \in Volumes |-> "absent"]
  /\ temp = {} /\ pending = {}
  /\ manifest = FALSE
  /\ errors = 0 /\ signals = 0

-----------------------------------------------------------------------------
(* The main thread *)

\* Write a volume to a temporary file and checkpoint the manifest.
MakeVolume ==
  /\ pc = "make"
  /\ vol' = vol + 1 /\ listed' = vol + 1
  /\ temp' = temp \cup {vol + 1} /\ pending' = pending \cup {vol + 1}
  /\ pc' = "schedule"
  /\ UNCHANGED <<mode, waiting, manifest, tasks, remote, bounds>>

\* Mutant of SlotFree: a task is started at once.
SlotFreeAlways == TRUE

SlotFree == Cardinality(AtWork) < mode.concurrency

AfterSchedule == IF vol = NumVolumes THEN "wait" ELSE "make"

Failed == {v \in Volumes : state[v] = "error"}

ScheduleTask ==
  /\ pc = "schedule" /\ mode.concurrency > 0 /\ SlotFree /\ Failed = {}
  /\ thread' = [thread EXCEPT ![vol] = "put"]
  /\ pc' = AfterSchedule
  /\ UNCHANGED <<mode, vol, listed, waiting, manifest, attempt, state, files, bounds>>

\* schedule_task raises what an earlier task raised.
ScheduleRaises ==
  /\ pc = "schedule" /\ mode.concurrency > 0 /\ SlotFree /\ Failed # {}
  /\ pc' = "unwind"
  /\ UNCHANGED <<mode, vol, listed, waiting, manifest, tasks, files, bounds>>

ScheduleInline ==
  /\ pc = "schedule" /\ mode.concurrency = 0
  /\ thread' = [thread EXCEPT ![vol] = "put"]
  /\ pc' = "inline"
  /\ UNCHANGED <<mode, vol, listed, waiting, manifest, attempt, state, files, bounds>>

InlineDone ==
  /\ pc = "inline" /\ thread[vol] = "over"
  /\ pc' = IF state[vol] = "value" THEN AfterSchedule ELSE "unwind"
  /\ UNCHANGED <<mode, vol, listed, waiting, manifest, tasks, files, bounds>>

\* Mutant of WaiterDone: the wait ends with the thread.
WaiterDoneWithThread == thread[waiting] # "sending"

\* Mutant of WaiterDone: an error does not set state['done'].
WaiterDoneByValue == state[waiting] = "value"

\* interruptably_wait: state['done'].
WaiterDone == state[waiting] # "running"

\* The waiter returns, and the next one is called.
WaiterReturns ==
  /\ pc = "wait" /\ WaiterDone /\ state[waiting] # "error"
  /\ IF waiting = NumVolumes THEN pc' = "send" /\ UNCHANGED waiting
     ELSE waiting' = waiting + 1 /\ UNCHANGED pc
  /\ UNCHANGED <<mode, vol, listed, manifest, tasks, files, bounds>>

\* The waiter raises: the error of the task or, in Python 2, where exceptions
\* have no with_traceback, an AttributeError.
WaiterRaises ==
  /\ pc = "wait" /\ WaiterDone /\ state[waiting] = "error"
  /\ pc' = "unwind"
  /\ UNCHANGED <<mode, vol, listed, waiting, manifest, tasks, files, bounds>>

\* The signature and the manifest are sent, and do_backup returns.
SendManifest ==
  /\ pc = "send"
  /\ manifest' = TRUE /\ pc' = "unwind"
  /\ UNCHANGED <<mode, vol, listed, waiting, tasks, files, bounds>>

\* An error of gpg or of the source while a volume is written, or a signal.
Interrupt ==
  /\ pc \in {"make", "schedule", "wait"} /\ signals < MaxSignals
  /\ signals' = signals + 1
  /\ pc' = "unwind"
  /\ UNCHANGED <<mode, vol, listed, waiting, manifest, tasks, files, errors>>

Remembered == pending

\* with_tempdir: TemporaryDirectory.cleanup deletes what is still pending.
Cleanup ==
  /\ pc = "unwind"
  /\ temp' = temp \ Remembered /\ pending' = {}
  /\ pc' = "exit"
  /\ UNCHANGED <<mode, vol, listed, waiting, manifest, tasks, remote, bounds>>

\* The process ends, and its threads with it.
Exit ==
  /\ pc = "exit"
  /\ pc' = "over"
  /\ thread' = [v \in Volumes |-> IF v \in AtWork THEN "killed" ELSE thread[v]]
  /\ UNCHANGED <<mode, vol, listed, waiting, manifest, attempt, state, files, bounds>>

-----------------------------------------------------------------------------
(* A task: put, with the retries of the backend wrapper *)

\* An attempt opens the temporary file.
PutStarts(v) ==
  /\ thread[v] = "put" /\ v \in temp
  /\ thread' = [thread EXCEPT ![v] = "sending"]
  /\ UNCHANGED <<mode, main, attempt, state, files, bounds>>

\* A put that returns may have kept a part, if the store lies.
PutReturns(v) ==
  /\ thread[v] = "sending"
  /\ remote' \in {[remote EXCEPT ![v] = r] :
                    r \in {"whole"} \cup (IF mode.lies THEN {"torn"} ELSE {})}
  /\ thread' = [thread EXCEPT ![v] = "check"]
  /\ UNCHANGED <<mode, main, attempt, state, temp, pending, bounds>>

\* The task raises an Exception, which caller keeps for the waiter.
TaskFails(v) ==
  /\ thread' = [thread EXCEPT ![v] = "over"]
  /\ state' = [state EXCEPT ![v] = "error"]

\* log.FatalError: a SystemExit.  caller catches Exception, so that in a thread
\* state stays as it is; in the caller of schedule_task it unwinds the process.
TaskExits(v) ==
  /\ thread' = [thread EXCEPT ![v] = "over"]
  /\ state' = IF mode.concurrency = 0 THEN [state EXCEPT ![v] = "error"] ELSE state

\* An attempt fails, at the start, on the way or when all was sent; or there is
\* no temporary file any more.
PutFails(v) ==
  /\ errors < MaxErrors \/ v \notin temp
  /\ \/ thread[v] = "sending"
        /\ remote' \in {[remote EXCEPT ![v] = r] : r \in {remote[v], "torn", "whole"}}
     \/ thread[v] = "put" /\ v \notin temp /\ UNCHANGED remote
  /\ errors' = IF v \in temp THEN errors + 1 ELSE errors
  /\ IF attempt[v] < NumRetries
       THEN /\ attempt' = [attempt EXCEPT ![v] = @ + 1]
            /\ thread' = [thread EXCEPT ![v] = "put"]
            /\ UNCHANGED state
       ELSE UNCHANGED attempt /\ (mode.exits \/ v \notin temp) /\ TaskExits(v)
  /\ UNCHANGED <<mode, main, temp, pending, signals>>

\* FatalBackendException is not retried.
PutRefused(v) ==
  /\ thread[v] = "sending" /\ errors < MaxErrors
  /\ errors' = errors + 1
  /\ TaskFails(v)
  /\ UNCHANGED <<mode, main, attempt, files, signals>>

\* validate_block: query_info gives the size of what the store keeps.
SizeDiffers(v) == remote[v] = "torn"

Validate(v) ==
  /\ thread[v] = "check"
  /\ IF SizeDiffers(v) THEN TaskExits(v)
     ELSE UNCHANGED state /\ thread' = [thread EXCEPT ![v] = "delete"]
  /\ UNCHANGED <<mode, main, attempt, files, bounds>>

\* tdp.delete forgets the file; caller keeps the value, or the error of a file that
\* the cleanup has deleted, and notifies.
DeleteTemp(v) ==
  /\ thread[v] = "delete"
  /\ temp' = temp \ {v} /\ pending' = pending \ {v}
  /\ thread' = [thread EXCEPT ![v] = "over"]
  /\ state' = [state EXCEPT ![v] = IF v \in temp THEN "value" ELSE "error"]
  /\ UNCHANGED <<mode, main, attempt, remote, bounds>>

-----------------------------------------------------------------------------
Task == \E v \in Volumes :
  \/ PutStarts(v) \/ PutReturns(v) \/ PutFails(v) \/ PutRefused(v)
  \/ Validate(v) \/ DeleteTemp(v)

Main ==
  \/ MakeVolume \/ ScheduleTask \/ ScheduleRaises \/ ScheduleInline \/ InlineDone
  \/ WaiterReturns \/ WaiterRaises \/ SendManifest
  \/ Cleanup \/ Exit

Next == Main \/ Interrupt \/ (Task /\ pc # "over")

\* Both threads are scheduled by the operating system.
Spec == Init /\ [][Next]_vars
FairSpec == Spec /\ WF_vars(Main) /\ WF_vars(Task /\ pc # "over")

-----------------------------------------------------------------------------
\* The variables have their types; a task is at work only for a volume made.
TypeOK ==
  /\ mode \in Modes
  /\ pc \in {"make", "schedule", "inline", "wait", "send", "unwind",
             "exit", "over"}
  /\ vol \in 0..NumVolumes /\ listed = vol /\ waiting \in Volumes
  /\ thread \in [Volumes -> {"none", "put", "sending", "check", "delete", "over", "killed"}]
  /\ attempt \in [Volumes -> 1..NumRetries]
  /\ state \in [Volumes -> {"running", "value", "error"}]
  /\ remote \in [Volumes -> {"absent", "torn", "whole"}]
  /\ temp \subseteq 1..vol /\ pending \subseteq temp
  /\ manifest \in BOOLEAN
  /\ errors \in 0..MaxErrors /\ signals \in 0..MaxSignals

\* When the manifest is sent, every volume it lists is on the remote, whole,
\* though volumes were uploaded by another thread, repeated, or cut off by a
\* store that did not say so.
ManifestAfterVolumes ==
  manifest => listed = NumVolumes /\ \A v \in Volumes : remote[v] = "whole"

\* Restart.setParms counts the volumes on the remote and goes back one.
StartVol ==
  LET n == Cardinality({v \in Volumes : remote[v] # "absent"})
  IN  IF n = 0 THEN 0 ELSE n - 1

\* A task of a thread ended by SystemExit: neither the scheduler nor the waiter knows.
Lost(v) == mode.concurrency > 0 /\ thread[v] = "over" /\ state[v] = "running"

\* Whenever the process is killed, the volumes a restart keeps are on the
\* remote and whole: uploads are in order, and only the last may be cut off.
\* It does not hold once a task has exited: later volumes are uploaded.
RestartKeepsWhole ==
  (\E v \in Volumes : Lost(v)) \/ \A v \in 1..StartVol : remote[v] = "whole"

\* A run ends, whatever its threads meet, unless it waits for a task that exited:
\* async_split keeps an Exception for its waiter and no SystemExit.
RunEnds == <>[](pc = "over" \/ (pc = "wait" /\ Lost(waiting)))
=============================================================================
