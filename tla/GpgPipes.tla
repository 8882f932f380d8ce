------------------------------- MODULE GpgPipes -------------------------------
(***************************************************************************)
(* Volumes pass through gpg processes (gpg.py: GPGFile; gpginterface.py).  *)
(* The parent makes a pipe for the data and one for the passphrase, forks, *)
(* and talks to gpg through them; a thread per process waits for its end.  *)
(* A backup has one writer at a time; a restore reads the volumes of all   *)
(* sets of a chain at once, closing each when the tar stream has enough of *)
(* it.  Every fork copies the descriptors that are open: those of gpg      *)
(* processes, and those of the programs that an upload thread or a backend *)
(* starts meanwhile.  The end of a pipe is seen when no process holds the  *)
(* other side, in Python 2 also not by inheritance.                        *)
(*                                                                         *)
(* gpg, pipes and the other programs are external.  The data is a number   *)
(* of units, and a pipe holds PipeSize of them.                            *)
(***************************************************************************)
EXTENDS Naturals, FiniteSets

CONSTANTS
  NumFiles,       \* volumes
  Size,           \* units of a volume
  PipeSize,       \* units that a pipe holds
  Others,         \* other programs that may be started
  MaxFailures,    \* bound: gpg processes that fail
  SigchldIgnored  \* was duplicity started with SIGCHLD ignored?

ASSUME PipesAssumption ==
  /\ NumFiles \in Nat \ {0} /\ Size \in Nat \ {0} /\ PipeSize \in Nat \ {0}
  /\ MaxFailures \in Nat /\ SigchldIgnored \in BOOLEAN

Files == 1..NumFiles
Main   == <<"main", 0>>
Gpg(f) == <<"gpg", f>>
Procs  == {Main} \cup {Gpg(f) : f \in Files} \cup {<<"other", o>> : o \in Others}

End(f, pipe, side) == [file |-> f, pipe |-> pipe, side |-> side]

VARIABLES
  command,   \* "backup" or "restore"
  pc,        \* of the parent: [at, file]
  opened,    \* volumes opened so far
  fds,       \* ends that each process holds
  pipe,      \* units in the data pipe of each volume
  gpg,       \* each process: "none", "passphrase", "work", "ended"
  code,      \* its exit code: "ok", "bad", or "ctb" (the packet error that is passed over)
  moved,     \* units gpg has taken (backup) or given (restore)
  done,      \* units the parent has written or read
  status,    \* has gpg written GOODSIG to the status file?
  signature, \* GPGFile.signature
  returned,  \* process.returned; "none" before
  closed,    \* volumes whose close has returned
  others,    \* other programs that have run
  failures   \* bound

vars == <<command, pc, opened, fds, pipe, gpg, code, moved, done, status, signature,
          returned, closed, others, failures>>

Writing == command = "backup"

\* The sides of the data pipe.
GpgSide == IF Writing THEN "r" ELSE "w"
OurSide == IF Writing THEN "w" ELSE "r"

GpgEnds(f) == {End(f, "data", GpgSide), End(f, "pass", "r")}
OurEnds(f) == {End(f, "data", OurSide), End(f, "pass", "w")}

Held(e) == \E p \in Procs : e \in fds[p]

At(at, f) == [at |-> at, file |-> f]
Idle      == At("idle", 0)

\* Volumes that are open in the parent.
Open == {f \in 1..opened : f \notin closed}

Init ==
  /\ command \in {"backup", "restore"}
  /\ pc = Idle /\ opened = 0
  /\ fds = [p \in Procs |-> {}]
  /\ pipe = [f \in Files |-> 0]
  /\ gpg = [f \in Files |-> "none"]
  /\ code = [f \in Files |-> "ok"]
  /\ moved = [f \in Files |-> 0] /\ done = [f \in Files |-> 0]
  /\ status = [f \in Files |-> FALSE] /\ signature = [f \in Files |-> FALSE]
  /\ returned = [f \in Files |-> "none"]
  /\ closed = {} /\ others = {} /\ failures = 0

-----------------------------------------------------------------------------
(* The parent opens a volume. *)

\* _attach_fork_exec: pipes and fork.  The child closes the parent's ends of its own
\* pipes; it keeps what it inherits of others.
Fork ==
  /\ pc = Idle /\ opened < NumFiles
  /\ Writing => Open = {}
  /\ LET f == opened + 1
     IN  /\ opened' = f /\ pc' = At("forked", f)
         /\ gpg' = [gpg EXCEPT ![f] = "passphrase"]
         /\ fds' = [fds EXCEPT ![Main] = @ \cup OurEnds(f) \cup GpgEnds(f),
                               ![Gpg(f)] = fds[Main] \cup GpgEnds(f)]
  /\ UNCHANGED <<command, pipe, code, moved, done, status, signature, returned, closed,
                 others, failures>>

\* _as_parent
AsParent ==
  /\ pc.at = "forked"
  /\ fds' = [fds EXCEPT ![Main] = @ \ GpgEnds(pc.file)]
  /\ pc' = At("passphrase", pc.file)
  /\ UNCHANGED <<command, opened, pipe, gpg, code, moved, done, status, signature, returned,
                 closed, others, failures>>

\* The passphrase is written and its pipe closed; a broken pipe is an IOError.
GivePassphrase ==
  /\ pc.at = "passphrase"
  /\ fds' = [fds EXCEPT ![Main] = @ \ {End(pc.file, "pass", "w")}]
  /\ pc' = IF Held(End(pc.file, "pass", "r")) THEN Idle ELSE At("raised", pc.file)
  /\ UNCHANGED <<command, opened, pipe, gpg, code, moved, done, status, signature, returned,
                 closed, others, failures>>

-----------------------------------------------------------------------------
(* The parent writes, reads and closes.  A call blocks it. *)

\* A call begins: write and close for the writer, read and close for any reader.
Call ==
  /\ pc = Idle
  /\ \E f \in Open :
       \/ Writing /\ done[f] < Size /\ pc' = At("write", f)
       \/ Writing /\ done[f] = Size /\ pc' = At("close", f)
       \/ ~Writing /\ done[f] < Size /\ pc' = At("read", f)
       \/ ~Writing /\ pc' = At("drain", f)
  /\ UNCHANGED <<command, opened, fds, pipe, gpg, code, moved, done, status, signature,
                 returned, closed, others, failures>>

Write ==
  /\ pc.at = "write"
  /\ LET f == pc.file
     IN  IF Held(End(f, "data", "r"))
           THEN /\ pipe[f] < PipeSize
                /\ pipe' = [pipe EXCEPT ![f] = @ + 1]
                /\ done' = [done EXCEPT ![f] = @ + 1]
                /\ pc' = Idle
           ELSE UNCHANGED <<pipe, done>> /\ pc' = At("raised", f)
  /\ UNCHANGED <<command, opened, fds, gpg, code, moved, status, signature, returned, closed,
                 others, failures>>

AtEnd(f) == pipe[f] = 0 /\ ~Held(End(f, "data", "w"))

Read ==
  /\ pc.at \in {"read", "drain"} /\ pipe[pc.file] > 0
  /\ pipe' = [pipe EXCEPT ![pc.file] = @ - 1]
  /\ done' = [done EXCEPT ![pc.file] = @ + 1]
  /\ pc' = IF pc.at = "read" THEN Idle ELSE pc
  /\ UNCHANGED <<command, opened, fds, gpg, code, moved, status, signature, returned, closed,
                 others, failures>>

\* The end of a volume that is not whole looks like its end; what then ends the
\* restore is the close.
ReadEnd ==
  /\ pc.at = "read" /\ AtEnd(pc.file)
  /\ pc' = At("drain", pc.file)
  /\ UNCHANGED <<command, opened, fds, pipe, gpg, code, moved, done, status, signature,
                 returned, closed, others, failures>>

\* close of a reader: "discard remaining output", close, set_signature.
Drain ==
  /\ pc.at = "drain" /\ AtEnd(pc.file)
  /\ fds' = [fds EXCEPT ![Main] = @ \ OurEnds(pc.file)]
  /\ signature' = [signature EXCEPT ![pc.file] = status[pc.file]]
  /\ pc' = At("wait", pc.file)
  /\ UNCHANGED <<command, opened, pipe, gpg, code, moved, done, status, returned, closed,
                 others, failures>>

\* Would-be CloseInput: the pipe stays open.
CloseInputNot ==
  /\ pc.at = "close"
  /\ pc' = At("wait", pc.file)
  /\ UNCHANGED <<command, opened, fds, pipe, gpg, code, moved, done, status, signature,
                 returned, closed, others, failures>>

\* close of the writer.
CloseInput ==
  /\ pc.at = "close"
  /\ fds' = [fds EXCEPT ![Main] = @ \ OurEnds(pc.file)]
  /\ pc' = At("wait", pc.file)
  /\ UNCHANGED <<command, opened, pipe, gpg, code, moved, done, status, signature, returned,
                 closed, others, failures>>

\* gpg_failed: one message is passed over.
Passed(f) == returned[f] \in {"ok", "ctb"}

\* Would-be Wait: the exit code is not looked at.
WaitOnly ==
  /\ pc.at = "wait" /\ returned[pc.file] # "none"
  /\ closed' = closed \cup {pc.file}
  /\ pc' = Idle
  /\ UNCHANGED <<command, opened, fds, pipe, gpg, code, moved, done, status, signature,
                 returned, others, failures>>

\* Process.wait joins the thread; then the close returns, or raises GPGError.
Wait ==
  /\ pc.at = "wait" /\ returned[pc.file] # "none"
  /\ IF Passed(pc.file) THEN closed' = closed \cup {pc.file} /\ pc' = Idle
                        ELSE UNCHANGED closed /\ pc' = At("raised", pc.file)
  /\ UNCHANGED <<command, opened, fds, pipe, gpg, code, moved, done, status, signature,
                 returned, others, failures>>

\* The exception ends the process.
ParentEnds ==
  /\ pc.at = "raised"
  /\ fds' = [fds EXCEPT ![Main] = {}]
  /\ pc' = At("over", 0)
  /\ UNCHANGED <<command, opened, pipe, gpg, code, moved, done, status, signature, returned,
                 closed, others, failures>>

-----------------------------------------------------------------------------
(* gpg, the thread that waits for it, and other programs. *)

Exit(f, c) ==
  /\ gpg' = [gpg EXCEPT ![f] = "ended"]
  /\ code' = [code EXCEPT ![f] = c]
  /\ fds' = [fds EXCEPT ![Gpg(f)] = {}]

\* It reads the passphrase up to the end of its pipe.
GpgStarts(f) ==
  /\ gpg[f] = "passphrase" /\ ~Held(End(f, "pass", "w"))
  /\ gpg' = [gpg EXCEPT ![f] = "work"]
  /\ UNCHANGED <<command, pc, opened, fds, pipe, code, moved, done, status, signature,
                 returned, closed, others, failures>>

GpgEncrypts(f) ==
  /\ gpg[f] = "work" /\ Writing
  /\ \/ /\ pipe[f] > 0
        /\ pipe' = [pipe EXCEPT ![f] = @ - 1]
        /\ moved' = [moved EXCEPT ![f] = @ + 1]
        /\ UNCHANGED <<gpg, code, fds>>
     \/ AtEnd(f) /\ Exit(f, "ok") /\ UNCHANGED <<pipe, moved>>
  /\ UNCHANGED <<command, pc, opened, done, status, signature, returned, closed, others,
                 failures>>

\* When all is given gpg tells the status file of the signature, and ends; a volume
\* with something behind its end gives the packet error.
GpgDecrypts(f) ==
  /\ gpg[f] = "work" /\ ~Writing
  /\ \/ /\ moved[f] < Size /\ pipe[f] < PipeSize
        /\ Held(End(f, "data", "r"))
        /\ pipe' = [pipe EXCEPT ![f] = @ + 1]
        /\ moved' = [moved EXCEPT ![f] = @ + 1]
        /\ UNCHANGED <<gpg, code, fds, status>>
     \/ /\ moved[f] < Size /\ ~Held(End(f, "data", "r"))
        /\ Exit(f, "bad") /\ UNCHANGED <<pipe, moved, status>>
     \/ /\ moved[f] = Size /\ ~status[f]
        /\ status' = [status EXCEPT ![f] = TRUE]
        /\ UNCHANGED <<pipe, moved, gpg, code, fds>>
     \/ /\ moved[f] = Size /\ status[f]
        /\ \E c \in {"ok", "ctb"} : Exit(f, c)
        /\ UNCHANGED <<pipe, moved, status>>
  /\ UNCHANGED <<command, pc, opened, done, signature, returned, closed, others, failures>>

\* A bad passphrase, a volume that is not whole, a full disk, or a kill.
GpgFails(f) ==
  /\ gpg[f] \in {"passphrase", "work"} /\ failures < MaxFailures
  /\ failures' = failures + 1
  /\ Exit(f, "bad")
  /\ UNCHANGED <<command, pc, opened, pipe, moved, done, status, signature, returned, closed,
                 others>>

\* threaded_waitpid: where there is nothing to wait for, it says that all is well.
Reap(f) ==
  /\ gpg[f] = "ended" /\ returned[f] = "none"
  /\ returned' = [returned EXCEPT ![f] = IF SigchldIgnored THEN "ok" ELSE code[f]]
  /\ UNCHANGED <<command, pc, opened, fds, pipe, gpg, code, moved, done, status, signature,
                 closed, others, failures>>

\* A program is started, with a copy of every descriptor of the parent, and ends.
OtherStarts ==
  /\ \E o \in Others \ others :
       /\ others' = others \cup {o}
       /\ fds' = [fds EXCEPT ![<<"other", o>>] = fds[Main]]
  /\ fds[Main] # {}
  /\ UNCHANGED <<command, pc, opened, pipe, gpg, code, moved, done, status, signature,
                 returned, closed, failures>>

OtherEnds ==
  /\ \E o \in others :
       /\ fds[<<"other", o>>] # {}
       /\ fds' = [fds EXCEPT ![<<"other", o>>] = {}]
  /\ UNCHANGED <<command, pc, opened, pipe, gpg, code, moved, done, status, signature,
                 returned, closed, others, failures>>

-----------------------------------------------------------------------------
Parent ==
  \/ Fork \/ AsParent \/ GivePassphrase
  \/ Call \/ Write \/ Read \/ ReadEnd \/ Drain \/ CloseInput \/ Wait
  \/ ParentEnds

GpgRuns == \E f \in Files : GpgStarts(f) \/ GpgEncrypts(f) \/ GpgDecrypts(f)

Reaping == \E f \in Files : Reap(f)

Next ==
  \/ Parent \/ GpgRuns \/ Reaping
  \/ \E f \in Files : GpgFails(f)
  \/ OtherStarts \/ OtherEnds

Spec == Init /\ [][Next]_vars

\* The system schedules the parent, its threads and every process; the programs a
\* backend starts end some time (they have timeouts, or the transfer does).
FairSpec ==
  /\ Spec
  /\ WF_vars(Parent) /\ WF_vars(Reaping) /\ WF_vars(OtherEnds)
  /\ \A f \in Files : WF_vars(GpgStarts(f) \/ GpgEncrypts(f) \/ GpgDecrypts(f))

-----------------------------------------------------------------------------
\* What close promises of a volume: the process behind it had all of the data, and an
\* error of gpg has not been taken for an end, however far the parent had come when it
\* happened.  A restore, which compares the signature with the key, has read it from
\* the status file before the process was waited for, yet after gpg wrote it.
ClosedWhole == \A f \in closed : moved[f] = Size /\ (Writing \/ signature[f])

\* No volume waits for another: though every process inherits the pipes of those
\* before it, though pipes are full and others have a hand on them, the parent comes
\* to the end of all volumes, or of itself with an error of gpg, and no gpg process is
\* left behind.
AllClose ==
  <>[](/\ pc.at = "over" \/ closed = Files
       /\ \A f \in Files : gpg[f] \in {"none", "ended"})
=============================================================================
