---------------------------- MODULE MultiBackend ----------------------------
(***************************************************************************)
(* Several stores behind one backend (backends/multibackend.py), with the  *)
(* retrying wrapper (backend.py: retry, BackendWrapper) around the whole   *)
(* and around each store: get_backend wraps every store it returns, so a   *)
(* call is retried at both levels.  One action is one answer of one store. *)
(*                                                                         *)
(* A store may fail with an error, before or after the call took effect,   *)
(* or in the middle of a file; with "file not found"; or with a            *)
(* FatalBackendException, which wrappers pass on.  log.FatalError exits    *)
(* with SystemExit, which no "except Exception" sees: the process ends.    *)
(* move is put followed by the removal of the local file.                  *)
(***************************************************************************)
EXTENDS Naturals, Sequences, FiniteSets, SequencesExt

CONSTANTS
  NumStores,    \* stores of the configuration file
  Files,        \* names of remote files
  Configs,      \* [mode, onfail, prefixes]: the URL and the configuration file
  PrefixOf,     \* the prefix of each file
  NumRetries,   \* globals.num_retries
  Failing,      \* stores that may fail
  MaxVersion,   \* bound: puts
  MaxErrors,    \* bound: calls that fail
  MaxRuns       \* bound: processes

Stores == 1..NumStores

ASSUME SizesAssumption ==
  /\ Files # {}
  /\ NumStores \in Nat \ {0} /\ NumRetries \in Nat \ {0}
  /\ MaxVersion \in Nat /\ MaxErrors \in Nat /\ MaxRuns \in Nat

\* A store that was given several prefixes, and modes as the URL names them;
\* __init__ refuses prefixes in stripe mode.
ASSUME ConfigsAssumption ==
  \A c \in Configs :
    /\ c.mode \in {"stripe", "mirror"} /\ c.onfail \in {"abort", "continue"}
    /\ DOMAIN c.prefixes = Stores
    /\ c.mode = "stripe" => \A s \in Stores : c.prefixes[s] = <<>>

Absent  == 0
Torn    == MaxVersion + 1    \* part of a file
Content == 0..MaxVersion + 1

VARIABLES
  config,   \* chosen once
  store,    \* what each store holds
  pc,       \* "idle", "put", "find", "get", "delete", "dead"
  call,     \* the outer call: operation, file and version to put
  attempt,  \* n of the outer wrapper
  tryNo,    \* n of the wrapper of the store at hand
  at,       \* position in the list of eligible stores
  cursor,   \* __write_cursor
  first, passed,
  version, errors, runs,  \* bounds
  acked,    \* history: content of the last put that returned; 0 if overtaken
  doubled,  \* history: files that may have a stale copy: put over another, or
            \* passed on by a store that kept something
  leftover, \* history: files a deletion gave up on
  got       \* history: file and content that get returned

vars == <<config, store, pc, call, attempt, tryNo, at, cursor, first, passed,
          version, errors, runs, acked, doubled, leftover, got>>

-----------------------------------------------------------------------------
\* The loop over config['prefixes'] ends before the registration: the last
\* prefix of a store is the only one that is registered.
Affinities == [s \in Stores |->
  IF config.prefixes[s] = <<>> THEN {} ELSE {Last(config.prefixes[s])}]

\* _eligible_stores: those that match, in the order a Python set happens to have, or
\* all of them if there is no match.
Eligible(f) ==
  LET matching == {s \in Stores : PrefixOf[f] \in Affinities[s]}
  IN  IF matching = {} THEN [s \in Stores |-> s] ELSE SetToSeq(matching)

\* Mutant of NextCursor: it goes back one store early.
NextCursorEarly(n) == IF cursor >= n - 1 THEN 1 ELSE cursor + 1

NextCursor(n) == IF cursor + 1 > n THEN 1 ELSE cursor + 1

Holders(f) == {s \in Stores : store[s][f] # Absent}

NoCall == [op |-> "none", file |-> CHOOSE f \in Files : TRUE, version |-> 0]

Init ==
  /\ config \in Configs
  /\ store = [s \in Stores |-> [f \in Files |-> Absent]]
  /\ pc = "idle" /\ call = NoCall /\ attempt = 1 /\ tryNo = 1 /\ at = 1
  /\ cursor = 1 /\ first = 1 /\ passed = FALSE
  /\ version = 0 /\ errors = 0 /\ runs = 1
  /\ acked = [f \in Files |-> 0] /\ doubled = {} /\ leftover = {}
  /\ got = <<>>

bounds == <<config, version, runs>>

-----------------------------------------------------------------------------
(* How a call ends *)

Return ==
  /\ pc' = "idle" /\ call' = NoCall
  /\ attempt' = 1 /\ tryNo' = 1 /\ at' = 1 /\ first' = 1 /\ passed' = FALSE

\* log.FatalError, or an exception nobody catches.
Die ==
  /\ pc' = "dead" /\ call' = NoCall
  /\ attempt' = 1 /\ tryNo' = 1 /\ at' = 1 /\ first' = 1 /\ passed' = FALSE
  /\ UNCHANGED cursor

\* The body of _put, _get or _delete from its beginning, in the nth attempt of
\* the outer wrapper, with __write_cursor at c.
Enter(op, c, n) ==
  /\ attempt' = n /\ tryNo' = 1 /\ passed' = FALSE
  /\ cursor' = IF op = "put" /\ config.mode = "mirror" THEN 1 ELSE c
  /\ first' = IF op = "put" THEN cursor' ELSE 1
  /\ at' = 1
  /\ pc' = IF op = "put" THEN "put" ELSE "find"

\* MultiBackend raises BackendException: the outer wrapper tries again, or ends
\* the process.
Raise(c) ==
  IF attempt < NumRetries
    THEN Enter(call.op, c, attempt + 1) /\ UNCHANGED call
    ELSE Die

Begin(op, f, v) ==
  /\ pc = "idle"
  /\ call' = [op |-> op, file |-> f, version |-> v]
  /\ Enter(op, cursor, 1)
  /\ got' = <<>>
  /\ UNCHANGED <<config, store, errors, runs>>

\* The store that the process talks to.
Here == Eligible(call.file)[IF pc = "put" THEN cursor ELSE at]

\* That store fails once more.
Fails ==
  /\ Here \in Failing /\ errors < MaxErrors
  /\ errors' = errors + 1

\* inner_retry with fatal=True: the same call again, unless this was the last
\* attempt or the file is not there.
Again ==
  \/ /\ tryNo < NumRetries
     /\ tryNo' = tryNo + 1
     /\ UNCHANGED <<pc, call, attempt, at, cursor, first, passed>>
  \/ Die

-----------------------------------------------------------------------------
(* put *)

BeginPut(f) ==
  /\ version < MaxVersion
  /\ version' = version + 1
  /\ Begin("put", f, version + 1)
  /\ acked' = [acked EXCEPT ![f] = 0]
  /\ doubled' = IF \E s \in Stores : store[s][f] # Absent THEN doubled \cup {f} ELSE doubled
  /\ leftover' = leftover \ {f}

\* Mutant of Written: mirror mode goes round and round.
WrittenNever(next) == config.mode = "stripe"

\* The loop of _put breaks after a store was written.
Written(next) == next = 1 \/ config.mode = "stripe"

PutDone ==
  /\ pc = "put"
  /\ store' = [store EXCEPT ![Here][call.file] = call.version]
  /\ LET next == NextCursor(Len(Eligible(call.file)))
     IN  /\ cursor' = next
         /\ IF Written(next)
              THEN /\ Return
                   /\ acked' = [acked EXCEPT ![call.file] = call.version]
              ELSE /\ passed' = TRUE /\ tryNo' = 1
                   /\ UNCHANGED <<pc, call, attempt, at, first, acked>>
  /\ UNCHANGED <<bounds, doubled, errors, leftover, got>>

\* Mutant of PutFails: the last attempt returns as if all was well.
PutFailsQuietly ==
  /\ pc = "put" /\ Fails
  /\ store' = [store EXCEPT ![Here][call.file] = Torn]
  /\ IF tryNo < NumRetries
       THEN tryNo' = tryNo + 1 /\ UNCHANGED <<pc, call, attempt, at, cursor, first, passed, acked>>
       ELSE /\ Return /\ UNCHANGED cursor
            /\ acked' = [acked EXCEPT ![call.file] = call.version]
  /\ UNCHANGED <<bounds, doubled, leftover, got>>

\* The store reports an error; the file may be there all the same.
PutFails ==
  /\ pc = "put" /\ Fails
  /\ \E c \in {store[Here][call.file], Torn, call.version} :
       store' = [store EXCEPT ![Here][call.file] = c]
  /\ Again
  /\ UNCHANGED <<bounds, doubled, acked, leftover, got>>

GivesUp(next) == config.onfail = "abort" \/ (next = first /\ ~passed)

\* A FatalBackendException is the only failure that _put gets to see.
PutFatal ==
  /\ pc = "put" /\ Fails
  /\ LET next == NextCursor(Len(Eligible(call.file)))
     IN  IF GivesUp(next) THEN Raise(next)
         ELSE /\ cursor' = next /\ tryNo' = 1
              /\ UNCHANGED <<pc, call, attempt, at, first, passed>>
  /\ doubled' = IF store[Here][call.file] # Absent
                  THEN doubled \cup {call.file} ELSE doubled
  /\ UNCHANGED <<bounds, store, acked, leftover, got>>

-----------------------------------------------------------------------------
(* get and delete: list each store, then call the one that has the file. *)

BeginGet(f) ==
  /\ Begin("get", f, 0)
  /\ UNCHANGED <<version, acked, doubled, leftover>>

BeginDelete(f) ==
  /\ Holders(f) # {}
  /\ Begin("delete", f, 0)
  /\ acked' = [acked EXCEPT ![f] = 0]
  /\ leftover' = leftover \ {f}
  /\ UNCHANGED <<version, doubled>>

FindHas ==
  /\ pc = "find" /\ store[Here][call.file] # Absent
  /\ pc' = call.op /\ tryNo' = 1
  /\ UNCHANGED <<bounds, doubled, store, call, attempt, at, cursor, first, passed,
                 errors, acked, leftover, got>>

FindHasNot ==
  /\ pc = "find" /\ store[Here][call.file] = Absent
  /\ CASE at < Len(Eligible(call.file)) ->
            /\ at' = at + 1 /\ tryNo' = 1
            /\ UNCHANGED <<pc, call, attempt, cursor, first, passed>>
       [] at = Len(Eligible(call.file)) /\ call.op = "get" -> Raise(cursor)
       [] OTHER -> Return /\ UNCHANGED cursor
  /\ UNCHANGED <<bounds, doubled, store, errors, acked, leftover, got>>

GetDone ==
  /\ pc = "get"
  /\ got' = <<call.file, store[Here][call.file]>>
  /\ Return
  /\ UNCHANGED <<bounds, doubled, store, cursor, errors, acked, leftover>>

\* A list or a get fails, and is tried again.
ReadFails ==
  /\ pc \in {"find", "get"} /\ Fails
  /\ Again
  /\ UNCHANGED <<bounds, doubled, store, acked, leftover, got>>

\* Nothing catches a FatalBackendException of list, get or delete.
ReadFatal ==
  /\ pc \in {"find", "get", "delete"} /\ Fails
  /\ Die
  /\ UNCHANGED <<bounds, doubled, store, acked, leftover, got>>

\* Mutant of AfterDelete: the first copy is the only one.
AfterDeleteStop == Return

\* After _do_delete of one store: in stripe mode, or at the end, return.
AfterDelete ==
  IF config.mode = "stripe" \/ at = Len(Eligible(call.file)) THEN Return
  ELSE /\ pc' = "find" /\ at' = at + 1 /\ tryNo' = 1 /\ passed' = TRUE
       /\ UNCHANGED <<call, attempt, first>>

DeleteDone ==
  /\ pc = "delete"
  /\ store' = [store EXCEPT ![Here][call.file] = Absent]
  /\ AfterDelete
  /\ UNCHANGED <<bounds, doubled, cursor, errors, acked, leftover, got>>

\* inner_retry with fatal=False: every attempt is made, even when the file is
\* not found, and then the call returns None.
DeleteFails ==
  /\ pc = "delete" /\ Fails
  /\ \E c \in {store[Here][call.file], Absent} :
       store' = [store EXCEPT ![Here][call.file] = c]
  /\ IF tryNo < NumRetries
       THEN /\ tryNo' = tryNo + 1
            /\ UNCHANGED <<pc, call, attempt, at, first, passed, leftover>>
       ELSE AfterDelete /\ leftover' = leftover \cup {call.file}
  /\ UNCHANGED <<bounds, doubled, cursor, acked, got>>

-----------------------------------------------------------------------------
\* A process starts: the cursor is at its class attribute.  The one before it
\* died, or is killed now.
NewRun ==
  /\ runs < MaxRuns /\ runs' = runs + 1
  /\ pc' = "idle" /\ call' = NoCall
  /\ attempt' = 1 /\ tryNo' = 1 /\ at' = 1 /\ first' = 1 /\ passed' = FALSE
  /\ cursor' = 1 /\ got' = <<>>
  /\ UNCHANGED <<config, store, version, errors, acked, doubled, leftover>>

Answer == PutDone \/ PutFails \/ PutFatal \/ FindHas \/ FindHasNot \/ GetDone
          \/ ReadFails \/ ReadFatal \/ DeleteDone \/ DeleteFails

Next ==
  \/ \E f \in Files : BeginPut(f) \/ BeginGet(f) \/ BeginDelete(f)
  \/ Answer
  \/ NewRun

Spec == Init /\ [][Next]_vars
FairSpec == Spec /\ WF_vars(Answer)

-----------------------------------------------------------------------------
\* Stores hold whole files, parts or nothing; the loop variables are in range.
TypeOK ==
  /\ config \in Configs
  /\ store \in [Stores -> [Files -> Content]]
  /\ pc \in {"idle", "put", "find", "get", "delete", "dead"}
  /\ call \in [op : {"none", "put", "get", "delete"}, file : Files,
              version : 0..MaxVersion]
  /\ attempt \in 1..NumRetries /\ tryNo \in 1..NumRetries
  /\ at \in Stores /\ cursor \in Stores /\ first \in Stores
  /\ passed \in BOOLEAN
  /\ acked \in [Files -> 0..MaxVersion]
  /\ doubled \subseteq Files /\ leftover \subseteq Files

\* A get returns what the last put of that file wrote, though stores failed and
\* calls were repeated: for a name that was free before the put, and, with
\* mirror and abort, for one that was written over.
ReadsLastWritten ==
  got # <<>> /\ acked[got[1]] # 0
  /\ (got[1] \in doubled => config.mode = "mirror" /\ config.onfail = "abort")
    => got[2] = acked[got[1]]

\* With mirror and abort, a put that returns left the file whole on every store
\* that is eligible for it.
MirrorsAgree ==
  config.mode = "mirror" /\ config.onfail = "abort" =>
    \A f \in Files : acked[f] # 0 =>
      \A s \in Range(Eligible(f)) : store[s][f] = acked[f]

\* Once a deletion has returned, and did not give up on a store, no eligible
\* store has the file: neither a copy of another store nor a torn one.
DeletedEverywhere ==
  [][call.op = "delete" /\ pc' = "idle" /\ runs' = runs =>
       \/ call.file \in leftover' \/ (config.mode = "stripe" /\ call.file \in doubled)
       \/ \A s \in Range(Eligible(call.file)) : store'[s][call.file] = Absent]_vars

\* However the loops and the two wrappers are nested, a call ends once stores
\* do not fail any more.
CallEnds == pc \notin {"idle", "dead"} ~> pc \in {"idle", "dead"}
=============================================================================
