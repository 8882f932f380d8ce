---------------------------- MODULE GpgPipesProofs ----------------------------
(***************************************************************************)
(* GpgPipes for every number of volumes, units, programs and failures:     *)
(* what the close of a volume promises.                                    *)
(*                                                                         *)
(* The parent learns of a gpg process only the exit code, and gpg learns   *)
(* of the parent only the end of a pipe.  The invariant says what stands   *)
(* behind each: the parent lets go of the writing end of a volume when all *)
(* is written (WritersEnd), gpg holds the writing end of a volume that is  *)
(* read until it ends (ReadersEnd), and an exit code says how far it came. *)
(***************************************************************************)
EXTENDS GpgPipes, TLAPS

Places == {"idle", "forked", "passphrase", "write", "read", "drain", "close", "wait",
           "raised", "over"}

Ends == [file : Files, pipe : {"data", "pass"}, side : {"r", "w"}]

\* The end of its pipe that the data of a volume is written to.
DataEnd(f) == End(f, "data", "w")

Types ==
  /\ command \in {"backup", "restore"}
  /\ pc \in [at : Places, file : 0..NumFiles]
  /\ opened \in 0..NumFiles
  /\ fds \in [Procs -> SUBSET Ends]
  /\ pipe \in [Files -> Nat] /\ moved \in [Files -> Nat] /\ done \in [Files -> Nat]
  /\ gpg \in [Files -> {"none", "passphrase", "work", "ended"}]
  /\ code \in [Files -> {"ok", "bad", "ctb"}]
  /\ returned \in [Files -> {"none", "ok", "bad", "ctb"}]
  /\ status \in [Files -> BOOLEAN] /\ signature \in [Files -> BOOLEAN]
  /\ closed \subseteq Files /\ others \subseteq Others

\* The volume of a call is open; a process exists for each volume that was opened.
Calls ==
  /\ pc.at \notin {"idle", "over"} => pc.file \in 1..opened /\ pc.file \notin closed
  /\ pc.at \in {"write", "close"} => Writing
  /\ pc.at \in {"read", "drain"} => ~Writing
  /\ pc.at = "write" => done[pc.file] < Size
  /\ pc.at = "close" => done[pc.file] = Size
  /\ \A f \in Files : f <= opened <=> gpg[f] # "none"

\* What the thread that waits has found is the exit code.
Reaped ==
  \A f \in Files : returned[f] # "none" => gpg[f] = "ended" /\ returned[f] = code[f]

\* As long as it lives the parent closes its end of a volume only when all is written,
\* so that a gpg that ends well has had all of it.
WritersEnd ==
  Writing => \A f \in Files :
    /\ done[f] = moved[f] + pipe[f]
    /\ f <= opened /\ pc.at # "over" /\ DataEnd(f) \notin fds[Main] => done[f] = Size
    /\ gpg[f] = "ended" /\ code[f] # "bad" /\ pc.at # "over" => moved[f] = Size

\* gpg holds its end of a volume until it ends, so that the parent has seen the end of
\* gpg, and the status file is complete, when it has seen the end of the pipe.
ReadersEnd ==
  ~Writing => \A f \in Files :
    /\ gpg[f] \in {"passphrase", "work"} => DataEnd(f) \in fds[Gpg(f)]
    /\ gpg[f] = "ended" /\ code[f] # "bad" => moved[f] = Size /\ status[f]
    /\ pc.at = "wait" /\ pc.file = f => gpg[f] = "ended" /\ signature[f] = status[f]

\* A closed volume has what close promises, and its process is gone.
ClosedEnd ==
  \A f \in closed : gpg[f] = "ended" /\ moved[f] = Size /\ (Writing \/ signature[f])

Inv == Types /\ Calls /\ Reaped /\ WritersEnd /\ ReadersEnd /\ ClosedEnd

-----------------------------------------------------------------------------
\* The parent, the gpg processes and the other programs are different processes.
LEMMA ProcsDiffer ==
  /\ Main \in Procs
  /\ \A f \in Files : Gpg(f) \in Procs /\ Gpg(f) # Main
  /\ \A f, g \in Files : Gpg(f) = Gpg(g) => f = g
  /\ \A o \in Others : <<"other", o>> \in Procs /\ <<"other", o>> # Main
  /\ \A o \in Others, f \in Files : <<"other", o>> # Gpg(f)
BY DEF Procs, Main, Gpg

\* The data is written by the parent of a backup, and by gpg in a restore.
LEMMA EndFacts ==
  \A f \in Files :
    /\ GpgEnds(f) \subseteq Ends /\ OurEnds(f) \subseteq Ends
    /\ \A g \in Files : DataEnd(g) \in OurEnds(f) <=> Writing /\ f = g
    /\ \A g \in Files : DataEnd(g) \in GpgEnds(f) <=> ~Writing /\ f = g
    /\ \A g \in Files : DataEnd(g) # End(f, "pass", "w")
BY DEF GpgEnds, OurEnds, GpgSide, OurSide, DataEnd, End, Ends

LEMMA InitInv == Init => Inv
<1> SUFFICES ASSUME Init PROVE Inv
  OBVIOUS
<1>1. Types
  BY PipesAssumption DEF Init, Types, Idle, At, Places
<1>2. Calls /\ Reaped /\ ClosedEnd
  BY DEF Init, Calls, Reaped, ClosedEnd, Idle, At, Files
<1>3. WritersEnd /\ ReadersEnd
  BY DEF Init, WritersEnd, ReadersEnd, Idle, At, Files
<1> QED BY <1>1, <1>2, <1>3 DEF Inv

LEMMA ForkInv == Inv /\ Fork => Inv'
<1> SUFFICES ASSUME Inv, Fork PROVE Inv'
  OBVIOUS
<1> DEFINE f == opened + 1
<1>a. f \in Files /\ gpg[f] = "none" /\ pc.at = "idle" /\ opened \in Nat
  BY PipesAssumption DEF Fork, Idle, At, Inv, Types, Calls, Files
<1>b. /\ opened' = f /\ pc'.at = "forked" /\ pc'.file = f
      /\ pc' \in [at : Places, file : 0..NumFiles]
  BY <1>a DEF Fork, At, Places, Files
<1>c. /\ fds' \in [Procs -> SUBSET Ends]
      /\ fds'[Main] = fds[Main] \cup OurEnds(f) \cup GpgEnds(f)
      /\ fds'[Gpg(f)] = fds[Main] \cup GpgEnds(f)
      /\ \A g \in Files : g # f => fds'[Gpg(g)] = fds[Gpg(g)]
  <2>1. fds' = [fds EXCEPT ![Main] = @ \cup OurEnds(f) \cup GpgEnds(f),
                           ![Gpg(f)] = fds[Main] \cup GpgEnds(f)]
    BY DEF Fork
  <2>2. OurEnds(f) \subseteq Ends /\ GpgEnds(f) \subseteq Ends
    BY <1>a, EndFacts
  <2>3. fds \in [Procs -> SUBSET Ends]
    BY DEF Inv, Types
  <2> HIDE DEF f
  <2>4. QED BY <1>a, <2>1, <2>2, <2>3, ProcsDiffer
<1>d. gpg' = [gpg EXCEPT ![f] = "passphrase"]
  BY DEF Fork
<1> HIDE DEF f
<1>1. Types'
  BY <1>a, <1>b, <1>c, <1>d DEF Fork, Inv, Types
<1>2. Calls'
  <2>1. \A g \in Files : g <= f <=> g <= opened \/ g = f
    BY <1>a DEF f, Files
  <2>2. \A g \in Files : gpg'[g] = IF g = f THEN "passphrase" ELSE gpg[g]
    BY <1>a, <1>d DEF Inv, Types
  <2>3. f \notin closed
    BY <1>a DEF Inv, ClosedEnd
  <2>4. f \in 1..f
    BY <1>a DEF f
  <2>5. QED BY <1>b, <2>1, <2>2, <2>3, <2>4 DEF Fork, Inv, Calls
<1>3. Reaped'
  BY <1>a, <1>d DEF Fork, Inv, Reaped
<1>4. WritersEnd'
  <2>1. \A g \in Files : g <= f => g <= opened \/ g = f
    BY <1>a DEF f, Files
  <2>2. \A g \in Files : gpg'[g] = "ended" => gpg[g] = "ended"
    BY <1>a, <1>d DEF Inv
  <2>3. Writing => DataEnd(f) \in fds'[Main]
    BY <1>a, <1>c, EndFacts
  <2>4. \A g \in Files : DataEnd(g) \in fds[Main] => DataEnd(g) \in fds'[Main]
    BY <1>c
  <2>5. QED BY <1>a, <1>b, <2>1, <2>2, <2>3, <2>4 DEF Fork, Inv, WritersEnd, Writing
<1>5. ReadersEnd'
  <2>1. ~Writing => DataEnd(f) \in fds'[Gpg(f)]
    BY <1>a, <1>c, EndFacts
  <2>2. \A g \in Files : gpg'[g] = IF g = f THEN "passphrase" ELSE gpg[g]
    BY <1>a, <1>d DEF Inv, Types
  <2>3. pc'.at # "wait"
    BY <1>b
  <2>4. /\ UNCHANGED <<command, code, moved, status>>
        /\ \A g \in Files : g # f => fds'[Gpg(g)] = fds[Gpg(g)]
    BY <1>c DEF Fork
  <2>5. QED BY <2>1, <2>2, <2>3, <2>4 DEF Inv, ReadersEnd, Writing
<1>6. ClosedEnd'
  BY DEF Fork, Inv, Types, Calls, ClosedEnd, Writing
<1> QED BY <1>1, <1>2, <1>3, <1>4, <1>5, <1>6 DEF Inv

LEMMA AsParentInv == Inv /\ AsParent => Inv'
<1> SUFFICES ASSUME Inv, AsParent PROVE Inv'
  OBVIOUS
<1>1. Types'
  BY DEF AsParent, At, Inv, Types, Places
<1>2. Calls'
  BY DEF AsParent, At, Inv, Calls
<1>3. Reaped'
  BY DEF AsParent, Inv, Reaped
<1>4. WritersEnd'
  BY ProcsDiffer DEF AsParent, GpgEnds, GpgSide, DataEnd, End, Inv, Types, WritersEnd, Writing
<1>5. ReadersEnd'
  BY ProcsDiffer DEF AsParent, At, Inv, ReadersEnd, Writing
<1>6. ClosedEnd'
  BY DEF AsParent, Inv, ClosedEnd, Writing
<1> QED BY <1>1, <1>2, <1>3, <1>4, <1>5, <1>6 DEF Inv

LEMMA GivePassphraseInv == Inv /\ GivePassphrase => Inv'
<1> SUFFICES ASSUME Inv, GivePassphrase PROVE Inv'
  OBVIOUS
<1>1. Types'
  <2>1. pc' \in [at : Places, file : 0..NumFiles]
    BY PipesAssumption DEF GivePassphrase, At, Idle, Inv, Types, Places
  <2>2. QED BY <2>1, PipesAssumption DEF GivePassphrase, Inv, Types
<1>2. Calls'
  BY DEF GivePassphrase, At, Idle, Inv, Calls
<1>3. Reaped'
  BY DEF GivePassphrase, Inv, Reaped
<1>4. WritersEnd'
  BY ProcsDiffer DEF GivePassphrase, DataEnd, End, Inv, Types, WritersEnd, Writing
<1>5. ReadersEnd'
  BY ProcsDiffer DEF GivePassphrase, At, Idle, Inv, ReadersEnd, Writing
<1>6. ClosedEnd'
  BY DEF GivePassphrase, Inv, ClosedEnd, Writing
<1> QED BY <1>1, <1>2, <1>3, <1>4, <1>5, <1>6 DEF Inv

LEMMA CallInv == Inv /\ Call => Inv'
<1> SUFFICES ASSUME Inv, Call PROVE Inv'
  OBVIOUS
<1>1. Types'
  <2>1. pc' \in [at : Places, file : 0..NumFiles]
    BY PipesAssumption DEF Call, At, Inv, Types, Places, Open
  <2>2. QED BY <2>1, PipesAssumption DEF Call, Inv, Types, Open
<1>2. Calls'
  BY DEF Call, At, Open, Inv, Calls, Writing
<1>3. Reaped'
  BY DEF Call, Inv, Reaped
<1>4. WritersEnd'
  BY DEF Call, At, Idle, Inv, WritersEnd, Writing
<1>5. ReadersEnd'
  BY DEF Call, At, Inv, ReadersEnd, Writing, Files
<1>6. ClosedEnd'
  BY DEF Call, Inv, ClosedEnd, Writing
<1> QED BY <1>1, <1>2, <1>3, <1>4, <1>5, <1>6 DEF Inv

LEMMA WriteInv == Inv /\ Write => Inv'
<1> SUFFICES ASSUME Inv, Write PROVE Inv'
  OBVIOUS
<1>1. Types'
  <2>1. pc' \in [at : Places, file : 0..NumFiles]
    BY PipesAssumption DEF Write, At, Idle, Inv, Types, Places
  <2>2. QED BY <2>1, PipesAssumption DEF Write, Inv, Types
<1>2. Calls'
  <2>1. pc'.at = "idle" \/ (pc'.at = "raised" /\ pc'.file = pc.file)
    BY DEF Write, At, Idle
  <2>2. QED BY <2>1 DEF Write, Inv, Calls
<1>3. Reaped'
  BY DEF Write, Inv, Reaped
<1>4. WritersEnd'
  <2>1. /\ Writing /\ pc.at = "write" /\ pc.file \in Files /\ pc.file <= opened
        /\ done[pc.file] < Size
    BY DEF Write, Inv, Types, Calls, Files
  <2>2. \A f \in Files : done'[f] = moved'[f] + pipe'[f]
    BY <2>1 DEF Write, Inv, Types, WritersEnd
  <2>3. \A f \in Files : f # pc.file => done'[f] = done[f]
    BY <2>1 DEF Write, Inv, Types
  <2>4. DataEnd(pc.file) \in fds[Main]
    <3>1. done[pc.file] # Size
      BY <2>1, PipesAssumption
    <3>2. QED BY <2>1, <3>1 DEF Inv, WritersEnd
  <2>5. QED BY <2>1, <2>2, <2>3, <2>4 DEF Write, Inv, WritersEnd
<1>5. ReadersEnd'
  BY DEF Write, Inv, Calls, ReadersEnd, Writing
<1>6. ClosedEnd'
  BY DEF Write, Inv, ClosedEnd, Writing
<1> QED BY <1>1, <1>2, <1>3, <1>4, <1>5, <1>6 DEF Inv

LEMMA ReadInv == Inv /\ Read => Inv'
<1> SUFFICES ASSUME Inv, Read PROVE Inv'
  OBVIOUS
<1>1. Types'
  <2>1. pc' \in [at : Places, file : 0..NumFiles]
    BY PipesAssumption DEF Read, At, Idle, Inv, Types, Places
  <2>2. pc.file \in Files /\ pipe[pc.file] \in Nat \ {0} /\ done[pc.file] \in Nat
    BY DEF Read, Inv, Types, Calls, Files
  <2>3. pipe' \in [Files -> Nat] /\ done' \in [Files -> Nat]
    BY <2>2 DEF Read, Inv, Types
  <2>4. QED BY <2>1, <2>3 DEF Read, Inv, Types
<1>2. Calls'
  BY DEF Read, At, Idle, Inv, Calls, Writing
<1>3. Reaped'
  BY DEF Read, Inv, Reaped
<1>4. WritersEnd'
  BY DEF Read, Inv, Calls, WritersEnd, Writing
<1>5. ReadersEnd'
  BY DEF Read, At, Idle, Inv, ReadersEnd, Writing
<1>6. ClosedEnd'
  BY DEF Read, Inv, ClosedEnd, Writing
<1> QED BY <1>1, <1>2, <1>3, <1>4, <1>5, <1>6 DEF Inv

LEMMA ReadEndInv == Inv /\ ReadEnd => Inv'
<1> SUFFICES ASSUME Inv, ReadEnd PROVE Inv'
  OBVIOUS
<1>1. Types'
  BY DEF ReadEnd, At, Inv, Types, Places
<1>2. Calls'
  BY DEF ReadEnd, At, Inv, Calls, Writing
<1>3. Reaped'
  BY DEF ReadEnd, Inv, Reaped
<1>4. WritersEnd'
  BY DEF ReadEnd, Inv, WritersEnd, Writing
<1>5. ReadersEnd'
  BY DEF ReadEnd, At, Inv, ReadersEnd, Writing
<1>6. ClosedEnd'
  BY DEF ReadEnd, Inv, ClosedEnd, Writing
<1> QED BY <1>1, <1>2, <1>3, <1>4, <1>5, <1>6 DEF Inv

LEMMA DrainInv == Inv /\ Drain => Inv'
<1> SUFFICES ASSUME Inv, Drain PROVE Inv'
  OBVIOUS
<1>1. Types'
  BY DEF Drain, At, Inv, Types, Places
<1>2. Calls'
  BY DEF Drain, At, Inv, Calls
<1>3. Reaped'
  BY DEF Drain, Inv, Reaped
<1>4. WritersEnd'
  BY DEF Drain, Inv, Calls, WritersEnd, Writing
<1>5. ReadersEnd'
  <2>1. /\ ~Writing /\ pc.file \in Files /\ gpg[pc.file] # "none"
    BY DEF Drain, Inv, Types, Calls, Files
  <2>2. DataEnd(pc.file) \notin fds[Gpg(pc.file)]
    BY <2>1, ProcsDiffer DEF Drain, AtEnd, Held, DataEnd
  <2>3. gpg[pc.file] = "ended"
    BY <2>1, <2>2 DEF Inv, Types, ReadersEnd
  <2>4. \A f \in Files : fds'[Gpg(f)] = fds[Gpg(f)]
    BY ProcsDiffer DEF Drain, Inv
  <2>5. /\ pc'.at = "wait" /\ pc'.file = pc.file
        /\ signature'[pc.file] = status[pc.file]
    BY <2>1 DEF Drain, At, Inv, Types
  <2>6. QED BY <2>1, <2>3, <2>4, <2>5 DEF Drain, Inv, ReadersEnd
<1>6. ClosedEnd'
  BY DEF Drain, Inv, Calls, ClosedEnd
<1> QED BY <1>1, <1>2, <1>3, <1>4, <1>5, <1>6 DEF Inv

LEMMA CloseInputInv == Inv /\ CloseInput => Inv'
<1> SUFFICES ASSUME Inv, CloseInput PROVE Inv'
  OBVIOUS
<1>1. Types'
  BY DEF CloseInput, At, Inv, Types, Places
<1>2. Calls'
  BY DEF CloseInput, At, Inv, Calls
<1>3. Reaped'
  BY DEF CloseInput, Inv, Reaped
<1>4. WritersEnd'
  BY ProcsDiffer DEF CloseInput, OurEnds, DataEnd, End, Inv, Types, Calls, WritersEnd
<1>5. ReadersEnd'
  BY DEF CloseInput, Inv, Calls, ReadersEnd, Writing
<1>6. ClosedEnd'
  BY DEF CloseInput, Inv, ClosedEnd, Writing
<1> QED BY <1>1, <1>2, <1>3, <1>4, <1>5, <1>6 DEF Inv

LEMMA WaitInv == Inv /\ Wait => Inv'
<1> SUFFICES ASSUME Inv, Wait PROVE Inv'
  OBVIOUS
<1>1. Types'
  <2>1. pc' \in [at : Places, file : 0..NumFiles]
    BY PipesAssumption DEF Wait, At, Idle, Inv, Types, Places
  <2>2. pc.file \in Files
    BY DEF Wait, Inv, Types, Calls, Files
  <2>3. closed' \subseteq Files
    BY <2>2 DEF Wait, Inv, Types
  <2>4. QED BY <2>1, <2>3 DEF Wait, Inv, Types
<1>2. Calls'
  BY DEF Wait, At, Idle, Passed, Inv, Calls
<1>3. Reaped'
  BY DEF Wait, Passed, Inv, Reaped
<1>4. WritersEnd'
  BY DEF Wait, Passed, Inv, WritersEnd, Writing
<1>5. ReadersEnd'
  <2>1. pc'.at # "wait"
    BY DEF Wait, At, Idle
  <2>2. QED BY <2>1 DEF Wait, Inv, ReadersEnd, Writing
<1>6. ClosedEnd'
  <2>1. pc.at = "wait" /\ pc.file \in Files
    BY DEF Wait, Inv, Types, Calls, Files
  <2>2. gpg[pc.file] = "ended"
    BY <2>1 DEF Wait, Inv, Reaped
  <2>3. Passed(pc.file) => code[pc.file] # "bad"
    BY <2>1 DEF Wait, Passed, Inv, Reaped
  <2>4. Passed(pc.file) => moved[pc.file] = Size /\ (Writing \/ signature[pc.file])
    BY <2>1, <2>2, <2>3 DEF Inv, WritersEnd, ReadersEnd
  <2>5. \A f \in closed' : f \in closed \/ (f = pc.file /\ Passed(f))
    BY DEF Wait
  <2>6. QED BY <2>2, <2>4, <2>5 DEF Wait, Inv, ClosedEnd, Writing
<1> QED BY <1>1, <1>2, <1>3, <1>4, <1>5, <1>6 DEF Inv

LEMMA ParentEndsInv == Inv /\ ParentEnds => Inv'
<1> SUFFICES ASSUME Inv, ParentEnds PROVE Inv'
  OBVIOUS
<1>1. Types'
  BY PipesAssumption, ProcsDiffer DEF ParentEnds, At, Inv, Types, Places
<1>2. Calls'
  BY DEF ParentEnds, At, Inv, Calls
<1>3. Reaped'
  BY DEF ParentEnds, Inv, Reaped
<1>4. WritersEnd'
  BY DEF ParentEnds, At, Inv, WritersEnd, Writing
<1>5. ReadersEnd'
  BY ProcsDiffer DEF ParentEnds, At, Inv, ReadersEnd, Writing
<1>6. ClosedEnd'
  BY DEF ParentEnds, Inv, ClosedEnd, Writing
<1> QED BY <1>1, <1>2, <1>3, <1>4, <1>5, <1>6 DEF Inv

LEMMA GpgStartsInv == \A f \in Files : Inv /\ GpgStarts(f) => Inv'
<1> SUFFICES ASSUME NEW f \in Files, Inv, GpgStarts(f) PROVE Inv'
  OBVIOUS
<1>1. Types'
  BY DEF GpgStarts, Inv, Types
<1>2. Calls'
  BY DEF GpgStarts, Inv, Calls, Writing
<1>3. Reaped'
  BY DEF GpgStarts, Inv, Reaped
<1>4. WritersEnd'
  BY DEF GpgStarts, Inv, WritersEnd, Writing
<1>5. ReadersEnd'
  BY DEF GpgStarts, Inv, ReadersEnd, Writing
<1>6. ClosedEnd'
  BY DEF GpgStarts, Inv, ClosedEnd, Writing
<1> QED BY <1>1, <1>2, <1>3, <1>4, <1>5, <1>6 DEF Inv

LEMMA GpgEncryptsInv == \A f \in Files : Inv /\ GpgEncrypts(f) => Inv'
<1> SUFFICES ASSUME NEW f \in Files, Inv, GpgEncrypts(f) PROVE Inv'
  OBVIOUS
<1>1. Types'
  <2>1. CASE pipe[f] > 0 /\ UNCHANGED <<gpg, code, fds>>
    <3>1. pipe[f] \in Nat \ {0} /\ moved[f] \in Nat
      BY <2>1 DEF Inv, Types
    <3>2. pipe' \in [Files -> Nat] /\ moved' \in [Files -> Nat]
      BY <3>1, <2>1 DEF GpgEncrypts, Exit, Inv, Types
    <3>3. QED BY <2>1, <3>2 DEF GpgEncrypts, Inv, Types
  <2>2. CASE Exit(f, "ok") /\ UNCHANGED <<pipe, moved>>
    BY <2>2 DEF GpgEncrypts, Exit, Inv, Types
  <2>3. QED BY <2>1, <2>2 DEF GpgEncrypts
<1>2. Calls'
  BY DEF GpgEncrypts, Exit, Inv, Types, Calls, Writing
<1>3. Reaped'
  BY DEF GpgEncrypts, Exit, Inv, Types, Reaped
<1>4. WritersEnd'
  <2>1. Writing /\ gpg[f] = "work" /\ pipe[f] \in Nat /\ moved[f] \in Nat
        /\ f <= opened /\ done[f] = moved[f] + pipe[f]
    BY DEF GpgEncrypts, Inv, Types, Calls, WritersEnd
  <2>2. CASE /\ pipe[f] > 0 /\ pipe' = [pipe EXCEPT ![f] = @ - 1]
             /\ moved' = [moved EXCEPT ![f] = @ + 1]
             /\ UNCHANGED <<gpg, code, fds>>
    <3>1. \A g \in Files : done'[g] = moved'[g] + pipe'[g]
      BY <2>1, <2>2 DEF GpgEncrypts, Inv, Types, WritersEnd
    <3>2. \A g \in Files : gpg[g] = "ended" => moved'[g] = moved[g]
      BY <2>1, <2>2 DEF Inv
    <3>3. QED BY <2>2, <3>1, <3>2 DEF GpgEncrypts, Inv, WritersEnd
  <2>3. CASE AtEnd(f) /\ Exit(f, "ok") /\ UNCHANGED <<pipe, moved>>
    <3>1. pipe[f] = 0 /\ DataEnd(f) \notin fds[Main]
      BY <2>3, ProcsDiffer DEF AtEnd, Held, DataEnd
    <3>2. pc.at # "over" => moved[f] = Size
      BY <2>1, <3>1 DEF Inv, WritersEnd
    <3>3. fds'[Main] = fds[Main]
      BY <2>3, ProcsDiffer DEF Exit, Inv
    <3>4. \A g \in Files : g # f => gpg'[g] = gpg[g] /\ code'[g] = code[g]
      BY <2>3 DEF Exit, Inv
    <3>5. QED BY <2>1, <2>3, <3>2, <3>3, <3>4 DEF GpgEncrypts, Inv, WritersEnd
  <2>4. QED BY <2>2, <2>3 DEF GpgEncrypts
<1>5. ReadersEnd'
  BY DEF GpgEncrypts, Exit, Inv, ReadersEnd, Writing
<1>6. ClosedEnd'
  BY DEF GpgEncrypts, Exit, WritersEnd, Inv, Types, ClosedEnd, Writing
<1> QED BY <1>1, <1>2, <1>3, <1>4, <1>5, <1>6 DEF Inv

LEMMA GpgDecryptsInv == \A f \in Files : Inv /\ GpgDecrypts(f) => Inv'
<1> SUFFICES ASSUME NEW f \in Files, Inv, GpgDecrypts(f) PROVE Inv'
  OBVIOUS
<1>1. Types'
  <2>1. CASE moved[f] < Size /\ UNCHANGED <<gpg, code, fds, status>>
    <3>1. pipe[f] \in Nat /\ moved[f] \in Nat
      BY DEF Inv, Types
    <3>2. pipe' \in [Files -> Nat] /\ moved' \in [Files -> Nat]
      BY <3>1, <2>1 DEF GpgDecrypts, Exit, Inv, Types
    <3>3. QED BY <2>1, <3>2 DEF GpgDecrypts, Inv, Types
  <2>2. CASE /\ \E c \in {"bad", "ok", "ctb"} : Exit(f, c)
             /\ UNCHANGED <<pipe, moved, status>>
    <3>1. UNCHANGED <<command, pc, opened, done, signature, returned, closed, others>>
      BY DEF GpgDecrypts
    <3>2. PICK c \in {"bad", "ok", "ctb"} : Exit(f, c)
      BY <2>2
    <3>3. Types
      BY DEF Inv
    <3>4. gpg' \in [Files -> {"none", "passphrase", "work", "ended"}]
      BY <3>2, <3>3 DEF Exit, Types
    <3>5. code' \in [Files -> {"ok", "bad", "ctb"}]
      BY <3>2, <3>3 DEF Exit, Types
    <3>6. fds' \in [Procs -> SUBSET Ends]
      BY <3>2, <3>3 DEF Exit, Types
    <3>7. QED BY <2>2, <3>1, <3>3, <3>4, <3>5, <3>6 DEF Types
  <2>3. CASE status' = [status EXCEPT ![f] = TRUE] /\ UNCHANGED <<pipe, moved, gpg, code, fds>>
    BY <2>3 DEF GpgDecrypts, Inv, Types
  <2>4. QED BY <2>1, <2>2, <2>3 DEF GpgDecrypts
<1>2. Calls'
  BY DEF GpgDecrypts, Exit, Inv, Types, Calls, Writing
<1>3. Reaped'
  BY DEF GpgDecrypts, Exit, Inv, Types, Reaped
<1>4. WritersEnd'
  BY DEF GpgDecrypts, Exit, Inv, WritersEnd, Writing
<1>5. ReadersEnd'
  <2>1. ~Writing /\ gpg[f] = "work"
    BY DEF GpgDecrypts
  <2>2. CASE /\ \E c \in {"bad", "ok", "ctb"} : Exit(f, c) /\ (c # "bad" => moved[f] = Size /\ status[f])
             /\ UNCHANGED <<pipe, moved, status>>
    <3>1. PICK c \in {"bad", "ok", "ctb"} : Exit(f, c) /\ (c # "bad" => moved[f] = Size /\ status[f])
      BY <2>2
    <3>2. gpg'[f] = "ended" /\ code'[f] = c
      BY <3>1 DEF Exit, Inv, Types
    <3>3. \A g \in Files : g # f =>
            gpg'[g] = gpg[g] /\ code'[g] = code[g] /\ fds'[Gpg(g)] = fds[Gpg(g)]
      BY <3>1, ProcsDiffer DEF Exit, Inv
    <3>4. QED BY <2>1, <2>2, <3>1, <3>2, <3>3 DEF GpgDecrypts, Inv, ReadersEnd
  <2>3. CASE /\ moved[f] < Size /\ moved' = [moved EXCEPT ![f] = @ + 1]
             /\ UNCHANGED <<gpg, code, fds, status>>
    <3>1. \A g \in Files : g # f => moved'[g] = moved[g]
      BY <2>3 DEF Inv
    <3>2. QED BY <2>1, <2>3, <3>1 DEF GpgDecrypts, Inv, ReadersEnd
  <2>4. CASE status' = [status EXCEPT ![f] = TRUE] /\ UNCHANGED <<pipe, moved, gpg, code, fds>>
    <3>1. \A g \in Files : g # f => status'[g] = status[g]
      BY <2>4 DEF Inv
    <3>2. QED BY <2>1, <2>4, <3>1 DEF GpgDecrypts, Inv, ReadersEnd
  <2>5. QED BY <2>2, <2>3, <2>4 DEF GpgDecrypts
<1>6. ClosedEnd'
  BY DEF GpgDecrypts, Exit, WritersEnd, Inv, Types, ClosedEnd
<1> QED BY <1>1, <1>2, <1>3, <1>4, <1>5, <1>6 DEF Inv

LEMMA GpgFailsInv == \A f \in Files : Inv /\ GpgFails(f) => Inv'
<1> SUFFICES ASSUME NEW f \in Files, Inv, GpgFails(f) PROVE Inv'
  OBVIOUS
<1>1. Types'
  BY DEF GpgFails, Exit, Inv, Types
<1>2. Calls'
  BY DEF GpgFails, Exit, Inv, Calls, Writing
<1>3. Reaped'
  BY DEF GpgFails, Exit, Inv, Reaped
<1>4. WritersEnd'
  BY ProcsDiffer DEF GpgFails, Exit, Inv, Types, WritersEnd, Writing
<1>5. ReadersEnd'
  <2>1. gpg[f] # "ended" /\ gpg'[f] = "ended" /\ code'[f] = "bad"
    BY DEF GpgFails, Exit, Inv, Types
  <2>2. \A g \in Files : g # f =>
          gpg'[g] = gpg[g] /\ code'[g] = code[g] /\ fds'[Gpg(g)] = fds[Gpg(g)]
    BY ProcsDiffer DEF GpgFails, Exit, Inv
  <2>3. QED BY <2>1, <2>2 DEF GpgFails, Inv, ReadersEnd, Writing
<1>6. ClosedEnd'
  BY DEF GpgFails, Exit, WritersEnd, Inv, ClosedEnd, Writing
<1> QED BY <1>1, <1>2, <1>3, <1>4, <1>5, <1>6 DEF Inv

LEMMA OtherStartsInv == Inv /\ OtherStarts => Inv'
<1> SUFFICES ASSUME Inv, OtherStarts PROVE Inv'
  OBVIOUS
<1>1. Types'
  BY ProcsDiffer DEF OtherStarts, Inv, Types
<1>2. Calls'
  BY DEF OtherStarts, Inv, Calls, Writing
<1>3. Reaped'
  BY DEF OtherStarts, Inv, Reaped
<1>4. WritersEnd'
  BY DEF OtherStarts, Inv, WritersEnd, Writing
<1>5. ReadersEnd'
  BY ProcsDiffer DEF OtherStarts, Inv, ReadersEnd, Writing
<1>6. ClosedEnd'
  BY DEF OtherStarts, Inv, ClosedEnd, Writing
<1> QED BY <1>1, <1>2, <1>3, <1>4, <1>5, <1>6 DEF Inv

LEMMA OtherEndsInv == Inv /\ OtherEnds => Inv'
<1> SUFFICES ASSUME Inv, OtherEnds PROVE Inv'
  OBVIOUS
<1>1. Types'
  BY DEF OtherEnds, Inv, Types
<1>2. Calls'
  BY DEF OtherEnds, Inv, Calls, Writing
<1>3. Reaped'
  BY DEF OtherEnds, Inv, Reaped
<1>4. WritersEnd'
  <2>1. fds'[Main] = fds[Main]
    BY ProcsDiffer DEF OtherEnds, Inv, Types
  <2>2. QED BY <2>1 DEF OtherEnds, Inv, WritersEnd, Writing
<1>5. ReadersEnd'
  BY ProcsDiffer DEF OtherEnds, Inv, Types, ReadersEnd, Writing
<1>6. ClosedEnd'
  BY DEF OtherEnds, Inv, ClosedEnd, Writing
<1> QED BY <1>1, <1>2, <1>3, <1>4, <1>5, <1>6 DEF Inv

LEMMA ReapInv == ~SigchldIgnored => \A f \in Files : Inv /\ Reap(f) => Inv'
<1> SUFFICES ASSUME ~SigchldIgnored, NEW f \in Files, Inv, Reap(f) PROVE Inv'
  OBVIOUS
<1>1. Types'
  BY DEF Reap, Inv, Types
<1>2. Reaped'
  BY DEF Reap, Inv, Reaped
<1>3. Calls' /\ ClosedEnd'
  BY DEF Reap, Inv, Calls, ClosedEnd, Writing
<1>4. WritersEnd' /\ ReadersEnd'
  BY DEF Reap, Inv, WritersEnd, ReadersEnd, Writing
<1> QED BY <1>1, <1>2, <1>3, <1>4 DEF Inv

LEMMA StutterInv == Inv /\ UNCHANGED vars => Inv'
BY DEF vars, Inv, Types, Calls, Reaped, WritersEnd, ReadersEnd, ClosedEnd, Writing

LEMMA NextInv == ~SigchldIgnored /\ Inv /\ [Next]_vars => Inv'
<1> SUFFICES ASSUME ~SigchldIgnored, Inv, [Next]_vars PROVE Inv'
  OBVIOUS
<1>1. CASE Parent
  BY <1>1, ForkInv, AsParentInv, GivePassphraseInv, CallInv, WriteInv, ReadInv, ReadEndInv,
     DrainInv, CloseInputInv, WaitInv, ParentEndsInv DEF Parent
<1>2. CASE GpgRuns
  BY <1>2, GpgStartsInv, GpgEncryptsInv, GpgDecryptsInv DEF GpgRuns
<1>3. CASE Reaping
  BY <1>3, ReapInv DEF Reaping
<1>4. CASE \E f \in Files : GpgFails(f)
  BY <1>4, GpgFailsInv
<1>5. CASE OtherStarts \/ OtherEnds
  BY <1>5, OtherStartsInv, OtherEndsInv
<1>6. CASE UNCHANGED vars
  BY <1>6, StutterInv
<1> QED BY <1>1, <1>2, <1>3, <1>4, <1>5, <1>6 DEF Next

\* A close that returns has seen all of the volume through gpg, and for a reader the
\* signature, whatever the number of volumes that are open at once, of descriptors that
\* gpg and other programs inherit, and of gpg processes that fail (GPGFile.close), unless
\* duplicity was started with SIGCHLD ignored: then waitpid finds no exit code.
THEOREM CloseKeepsPromise == ~SigchldIgnored => (Spec => []ClosedWhole)
<1>1. Inv => ClosedWhole
  BY DEF Inv, ClosedEnd, ClosedWhole
<1>2. SUFFICES ASSUME ~SigchldIgnored PROVE Spec => []ClosedWhole
  OBVIOUS
<1>3. Inv /\ [Next]_vars => Inv'
  BY <1>2, NextInv
<1> QED BY <1>1, <1>3, InitInv, PTL DEF Spec
=============================================================================
