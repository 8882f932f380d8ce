# A verification of duplicity

This directory holds TLA+ models of duplicity (Python 2, `src/bin/duplicity` and
`src/duplicity/`), the TLC configurations that check them on small instances, and
proofs that the TLA+ proof system checks for every value of the constants.

## 1. The system

duplicity keeps a remote store that it can only list, put to, get from and delete
from, and a local *archive directory* that caches what it needs of the remote.
A run backs up a source tree as a *backup set*: numbered volumes, a manifest and a
signature file.  A full set starts a chain; an incremental set stores differences
to the set before it, computed with the signatures of the chain.

| component | state it keeps | operations | interacts with |
|---|---|---|---|
| backup session (`bin/duplicity`, `dup_temp.py`) | `.part` and final manifests and signatures in the archive directory; `globals.restart`; position in the source | synchronise, choose, restart, delete and run again, write a volume, upload, finish | collection status, block streams, manifest, backend, lock |
| collection status (`collections.py`) | backup sets, backup chains, signature chains, the matched pair, orphaned and incomplete sets; all rebuilt by each run from file names | `set_values`, `set_matched_chain_pair`, `get_signature_chain_at_time`, older-than queries, `BackupSet.delete` | file names, manifest, backend |
| manifest (`manifest.py`) | volume infos by number; the text appended so far | `add_volume_info`, `del_volume_info`, `from_string`, `get_containing_volumes` | session, restore |
| block streams and volumes (`diffdir.py`, `gpg.py`) | pending process of a multi-block file, queued block, previous index, bytes written to the volume | `next`, `queue_index_data`, `remember/recall_index`, `GPGWriteFile`, `GzipWriteFile` | session, manifest |
| restore, verify (`bin/duplicity`, `patchdir.py`) | open volumes, the collated patch sequences | `restore_get_patched_rop_iter`, hash check, `Write_ROPaths` | collection status, manifest |
| removal, cleanup (`bin/duplicity`) | none | `remove_old`, `remove_all_but_n_full`, `cleanup` | collection status |
| replicate (`bin/duplicity`) | none; two stores | copy volumes, manifest, signature of each set | collection status, backend |
| session lock (`bin/duplicity`, `util.py`) | lock file in the archive directory | acquire in `main`, release at exit and in `BackupSet.delete` | all of a run |
| asynchronous upload (`dup_threading.py`, `asyncscheduler.py`) | waiters, barrier, task count | `schedule_task`, `insert_barrier`, `wait`, `async_split` | session, backend |
| backend wrapper (`backend.py`) | attempt count | `put`, `get`, `list`, `delete` with retries, `move` fallback | every store |
| multi backend (`backends/multibackend.py`) | the stores, the next store to write to | stripe and mirror; stop, continue or abort on failure | backends |
| source selection (`selection.py`, `globmatch.py`) | ordered list of selection functions; the stacks of the walk | first function that decides wins; directories are scanned for included descendants | session |
| deltas and their integration (`diffdir.py`, `patchdir.py`, `lazy.py`, `path.py`) | signatures collated from a chain; patch sequences; the branch of a tree reducer | `get_delta_iter`, `integrate_patch_iters`, `Write_ROPaths`, `Patch`, `compare_verbose` | session, selection, streams |
| streams (`librsync.py`, `_librsyncmodule.c`) | buffers of the delta, patch and signature jobs | `LikeFile.read`, `SigGenerator.update`, `FileWithSignature.close` | deltas, block streams |
| gpg processes (`gpg.py`, `gpginterface.py`) | pipes, processes, the thread that waits for each | open, write, read, close | volumes, session |
| file names, time strings (`file_naming.py`, `dup_time.py`) | none | write, read back | collection status |
| command line (`commandline.py`, `globals.py`) | the globals of a run | commands, URLs, options | everything |
| everything else | single stores, par2, tar, progress, rdiffdir | input and output | |

What is hard about it, and what each part must guarantee:

* **A run may die between any two steps** and the next must go on with what is on
  disk (session).  A complete set must stay complete and unchanged; a manifest must
  list what the remote holds; a restored set must be the source tree; no state may
  make all later runs fail.
* **The cache is compared by name only** (`sync_archive`), and files are copied block by
  block under their final names.  After a synchronisation the whole files of the cache must
  be those of the remote, and a file that a dead run left cut off must not be built on.
* **Chains are guessed from names.**  A chain that exists must be found, and sets
  that were abandoned must not disturb it.
* **Volume numbers, indices and blocks are counted in four places** (writer,
  manifest, restart position, restore); off by one means lost or doubled data.
* **Calls are retried** although they may have succeeded, stores fail one by one,
  uploads overlap with writing, removal and replication stop half way.
* **The source changes while it is read**, and signatures, deltas and what is stored
  come from the same reads.
* **Processes hold each other's pipes**, and librsync keeps back what it likes.
* **Names, times and command lines are written by one run and read by another**, with
  other options, in another zone or season.

The `hazards` of `PROJECT.json` list these at the lines where they bite.

## 2. Plan

| order | module | about | status |
|---|---|---|---|
| 1 | `Stores`, `Chains`, `BackupSession`, `Archive`, `MCBackupSession` | sessions that die and restart, against the abstract archive of snapshots | here |
| 2 | `BackupSessionProofs` | types, soundness and permanence of complete sets, cache agreement; what full sets restore, over runs that die; what chains restore, and the refinement of `Archive` | here |
| 3 | `TarVolumes` | blocks of multi-block files, volumes, index ranges, block-level restart, restore by containing volumes | here |
| 4 | `MultiBackend`, `MCMultiBackend` | retried calls against stores that may have done them; stripes and mirrors | here |
| 5 | `Removal` | deletion of chains file by file, cleanup, dying at any step, read back by `Chains` | here |
| 6 | `AsyncUpload`, `MCAsyncUpload` | uploads in a thread, errors and exits of a task, the end of a run | here |
| 7 | `DeltaTrees`, `MCDeltaTrees` | what is in the sets of a chain and what restoring it gives | here |
| 8 | `Selection`, `MCSelection` | options, selection functions and the walk | here |
| 9 | `GpgPipes` | processes, pipes, and the thread that waits | here |
| 10 | `LibrsyncStreams` | the data of one file, through librsync | here |
| 11 | `TimeStrings`, `FileNames`, `CommandLine`, `RestoreTimes`, `MCInputs` | what is read before anything is done | here |
| 12 | the lock, in `Removal` | a backup beside a command whose lock is gone | here |
| 13 | `AsyncUploadProofs` | types, the manifest after whole volumes, what a restart keeps | here |
| 14 | `DeltaTreesProofs` | what the sets of a chain restore, as a whole, in part, in place and in a comparison | here |
| 15 | `TarVolumesProofs` | types, the text of the manifest of several runs, what the volumes hold and a restore yields | here |
| 16 | `MultiBackendProofs` | mirrors, gets and deletions, through retries | here |
| 17 | `GpgPipesProofs` | what a close promises | here |
| 18 | `LibrsyncStreamsProofs` | the blocks and the signature of a file | here |
| 19 | `SelectionProofs` | the order of what the walk gives, that it is what the options ask for, and the first condition that decides | here |
| 20 | proofs for `Removal` | see below | open |

Theorems still worth proving: `KeptSetsWhole`, `NoHalfSets` and `ChainsUnbroken` in `Removal` (with the
order of `todo` in the invariant; `BackupSessionProofs` has what the recursive function of
`Chains` gives for sets in a line).

Every module has a `TypeOK` where it has state worth a type; it was checked on the
instances below, and is among the properties of a run for `BackupSession` only.  It is
proved for `BackupSession`, `AsyncUpload`, `TarVolumes` and `MultiBackend`; for `GpgPipes`,
`LibrsyncStreams`, `Selection` and `DeltaTrees` types are a part of the inductive invariant.

## 3. BackupSession

A state is: the source tree; the remote (`remVol`, `remSig`, `remMan`, `cutRem`); the archive
directory (`locSig`, `locMan`, `cutLoc`, `sigPart`, `manPart`, `strayFull`); and the running
process (`pc`, `cur`, `kind`, `vol`, `mf`, `todo`, ...), of which a crash keeps
nothing.  `base` and `clock` are what the file names say of times.  `wanted` is the
only history variable: what the source held when a set was begun, without the paths
edited since while the set was partial.

Wherever the code writes a file under its final name, one step begins and another ends it,
and a run may die in between: the volumes, the copies that `to_remote` makes in the archive
directory, the put of `backend.move`, what `to_final` compresses, and what `sync_archive` copies
(`Path.move`).  A file that is being written is listed and *cut off*: a volume has a flag, a
signature or manifest is in `cutRem` or `cutLoc`, and in `remSig`, `locMan` and so on only when it
is whole.  `backend.move` is a put and a deletion, as for every backend without a `_move`.

| steps (`pc`) | code |
|---|---|
| `Begin` | `main` |
| `RemoveLocal`, `FetchStarts`, `FetchEnds`, `FetchFails`, `Synchronised` | `sync_archive`, file by file: `remove_local`, `copy_to_local` with its `Path.move`, a file of the remote that cannot be read |
| `CollectAsserts`, `RestartStray`, `RestartFull/Inc/Unsigned`, `NewFull/NewInc`, `NoOldSignatures` | `do_backup`: collection status, `check_sig_chain`, `check_last_manifest`, choice of a restart or a new set; each opens the signature and manifest files as `get_fileobj_duppath` does |
| `Resume`, `Refuse`, `StartOver` | `Restart.setParms`, `Restart.checkManifest`, `validate_encryption_settings`, `restart_position_iterator` |
| `DeleteVolume`, `DeleteLocalSig`, `DeleteLocalMan`, `RunAgain` | `BackupSet.delete`, file by file, and `os.execve` |
| `MakeVolume`, `SigToPartial`, `ManToPartial`, `FlushManifest`, `UploadStarts`, `UploadEnds` | the loop of `write_multivol` |
| `SignatureEnds` | an old signature that is cut off ends while it is read |
| `SigCopyStarts/Ends`, `SigPutStarts/Ends`, `SigDelete` | `to_remote` of the signature: the copy, `backend.move` |
| `SigFinalStarts/Ends`, `SigUnlink` | `to_final`: the compressed file, the `.part` unlinked |
| `ManCopyStarts` ... `ManDelete`, `ManToFinal` | the same of the manifest, whose `to_final` is a rename |
| `Crash`, `Edit` | the process dies; the source changes between runs |

`Chains` says which chains the loops of `collections.py` produce from names.
Signature chains depend on directory order, so every maximal chain is a possible
outcome; backup sets are taken in the order of their end times.
`BackupChain.add_inc` compares `self.incset_list[-1] > incset.start_time`-style
values of two types (an integer and an old-style instance): Python 2 orders them
by type, so the constant `LaterWins` stands for the interpreter and both values are
checked.

Abstractions, all in the module's header: a path is one block and its content a
version; a volume's hash is its content; the source does not change during a run;
uploads are synchronous; the remote lists what was put.  A file that is cut off has nothing
of its content (`FetchEnds`, `Combined`), or else it cannot be decompressed or decrypted, which ends
the run (`FetchFails`, `SignatureEnds`).  Multi-block files are the subject of `TarVolumes`.

The archive directory is never lost.  Were it, all signatures and manifests would be fetched
again, and a run that died in a fetch could leave any of them cut off: then neither the second
part of `CacheAgrees` (no manifest is cut off) nor `SignaturesWhole` would hold.

### Properties

* `ManifestSound`, `FullRestoresSource`, `CacheAgrees`, `SignaturesWhole`, `CompleteStays`: safety,
  for every place a run may die.  `ManifestSound` is about manifests that are whole; of one that is
  cut off on the remote it says that its `.part` file is beside it, so that every later run stops in
  `set_manifest`'s assertion before it builds on the set.  `CacheAgrees` is about files that
  are whole, too, and leaves signatures that are cut off as the only others: a run that died
  while copying one into the cache leaves it, and names only are compared.
  `SignaturesWhole` says that these do no harm: none is in a chain that a new set is made from.
* `ImplementsArchive`: the sessions refine `Archive`; a run takes one snapshot at the
  instant the remote manifest appears, or none.  The mapping restores each complete
  set (`RestoredTree`) and takes the source as the tree.
* `LaterRunsGoOn`, `OldSignaturesUsed`: a later run is not stopped (by an assertion,
  by the encryption settings error, or by a file that is cut off), nor made to start from nothing, by what an earlier
  one left.
* `PartialResolved`: an interrupted set is completed or deleted.

Fairness (`FairSpec`): a run that is alive takes its next step, and the user starts
another run; both weak.  Crashes are bounded by `MaxCrashes`: a user whose every run
dies never has a backup.

### Runs

| run | instance | result |
|---|---|---|
| `session_safety` | 2 paths, 3 sets, 3 volumes, 3 crashes anywhere, 1 edit at any time, all commands | holds (632,921 states) |
| `session_restart` | 2 paths, 3 sets, 2 crashes, 2 edits between complete sets; crashes everywhere but in the windows below | holds (53,268 states) |
| `session_inc_restart` | crash before the manifest is copied for sending | `RestoresSource` violated |

Why the bounds are enough for the questions asked: one path per volume and two or
three volumes make a first, an inner and a last volume, the cases the restart
position tells apart; three sets are a full set, an incremental set on it and one
that builds on what a crash left; three crashes interrupt a run, its restart and
the restart of that.  `MaxTime`, `MaxVol`, `MaxCrashes` and `MaxEdits` are the only
bounds and appear only in guards; reaching `MaxTime` ends a run (`OutOfTimes`).

`SafeSteps`, the steps before which runs of `session_restart` die, leaves out: `manmoving`,
`mandelete` and `manfinal` (1 below); `sigdelete` to `sigunlink` and `mancopy` to `manmove`, where the
signature is on the remote and the manifest is not (2 and 3); `sigmoving` (4); `manpart`, where
a restart finds a signature and no manifest; and `delete`, where the set that is being deleted is
abandoned half way and, depending on `LaterWins`, stays partial for ever or displaces
a later set.  Such runs may die while they synchronise, copy the signature in the archive
directory (`sigcopying`), or upload a volume; they leave nothing that has to be fetched
(`LocalWhole`), so it is `session_safety` in which runs die in a fetch.

### What happens in the windows that are left out

The second is the run `session_inc_restart`; the others are seen by giving `CrashAt` the
step they name in `session_restart`.

1. From the start of the manifest's upload (`manmoving`) until its `.part` file has been renamed
   (`manfinal`) a run that dies leaves both, the one on the remote cut off or whole.
   `sync_archive` keeps the `.part` on purpose, and the collection status of
   every later run then fails in `set_manifest`'s assertion.  These are the only steps that
   lead there: `NoSecondManifest` is proved for runs that die anywhere else, also in the
   windows below, for which `CarefulRunsGoOn` does not speak.
2. A run that dies after its incremental signature is final and before the manifest
   is sent is restarted against that signature: it finds nothing left to write, and
   changes are missing from the sets that follow.  The functional test for
   restarting an incremental backup expects it to verify.
3. A one-volume incremental run that dies at `sigfinal`, after its signature was sent,
   is deleted and run again; the stale remote signature then hides the chain, and the
   next run (with `MaxTime = 4`) is full although the manual says old signatures are
   used when found.
4. A one-volume run that dies in the upload of its signature (`sigmoving`) is deleted and run
   again, but `BackupSet.delete` does not know of the signature on the remote: `sync_archive` finds
   a name that the cache does not have, and fails to read a file that is cut off, now and in
   every later run.  Where nothing of the file is there it is fetched, as an empty one.

## 4. TarVolumes

One set, one level below `BackupSession`: a path has up to `MaxBlocks` blocks, and a
volume is a sequence of blocks.  `iter` is the `TarBlockIter` (the pending process of a
multi-block file, the queued block, the index and block it returned last and those it
was asked to remember); `text` is the `.part` manifest as the sequence of volume infos
that runs appended, `mf` the manifest object, `remote` the volumes that were sent.

| steps (`pc`) | code |
|---|---|
| `BeginSet` | `write_multivol` without a restart |
| `StartOver`, `Restart` | `Restart.setParms`, `checkManifest`, `setLastSaved` |
| `SkipBlock`, `SkipEnds` | one turn of the loop of `restart_position_iterator`, and its `StopIteration` |
| `OpenVolume`, `WriteBlock`, `CloseVolume`, `PutVolume` | the loop of `write_multivol`: `remember_next_index`, `GPGWriteFile` or `GzipWriteFile`, `get_indicies` and `add_volume_info`, `put` |
| `Crash`, `Edit` | the process dies; between runs a path appears, goes, or changes its size |

Where a volume ends is a choice at every block: it depends on compression.  The
restore side is three operators: `ContainingVolumes` (`VolumeInfo.contains`), `Stream`
(the tar entries of the volumes that are read) and `Intact` (`Multivol_Filelike` joins
the parts that follow on one another).

`RestoresUnchanged` is what a user relies on: a path that was not edited while the set
was partial is restored block by block, though its blocks are spread over volumes that
several runs wrote; and if nothing was edited, the index ranges lead a restore of one
path to all its volumes.  `TextMeansManifest` says that parsing the concatenated texts of
several runs gives the manifest of the last.
`Completed` needs the fairness of a run that is alive or
started again (weak, on `Run`), and the bound on crashes.

| run | instance | result |
|---|---|---|
| `volumes_restart` | 2 paths of up to 3 blocks, 3 volumes, 2 crashes, 1 edit | holds (405,033 states) |

Three blocks make a first, an inner and a last part; three volumes let a path begin,
continue and end in volumes of its own; two crashes interrupt a restart.  A run that
would need a fourth volume stops at `MaxVol` (only then may a volume not be closed
before the source ends).

Why `RestoresUnchanged` asks for an unedited source before it trusts the index ranges:
when the file at the restart position has gone, the block read too far is queued, and `next` returns a queued block without remembering its index.  The
volume's range then starts at its second block, and restoring only the first path
skips the volume.  A restore of the whole set is not affected.

## 5. MultiBackend

Several stores behind one backend, and the retrying wrapper around the whole and around
each store.  One action is one answer of one store: it succeeds, fails before, in the
middle of or after the call, says "file not found", or raises the exception that
wrappers pass on.  `attempt` and `tryNo` are the counters of the two wrappers, `cursor`,
`first`, `at` and `passed` the variables of the loops in `_put`, `_get` and `_delete`.

| steps (`pc`) | code |
|---|---|
| `BeginPut`, `BeginGet`, `BeginDelete` | `BackendWrapper`'s `put`, `get`, `delete` entering `inner_retry`, and the start of the loop |
| `PutDone`, `PutFails`, `PutFatal` | `_put` after an answer: the next store, done, give up |
| `FindHas`, `FindHasNot`, `GetDone`, `ReadFails`, `ReadFatal` | `list` of a store, then `get` from it |
| `DeleteDone`, `DeleteFails` | `_delete`, and deletions that are not fatal |
| `NewRun` | another process: the cursor is back at the first store |

With prefixes, `_eligible_stores` makes a list of a Python set: `Eligible` is the stores
that match in an order about which nothing is said but that it is always the same.  TLC
takes one order, the theorems of section 13 hold for any.

`ReadsLastWritten`, `MirrorsAgree` and `DeletedEverywhere` relate what a caller was told
to what the stores hold.  A name that is put again in stripe mode, as a restarted run
does, can have a second copy on another store (`doubled`): the properties exempt it,
since the code does nothing about it.  `CallEnds` needs the weak fairness of `Answer` (the
stores do answer) and the bound `MaxErrors`: a store that raises
`FatalBackendException` for ever can keep the loop of a mirror going for ever.

| run | instance | result |
|---|---|---|
| `multi_calls` | 3 stores, 2 files, 2 attempts, 3 errors, 2 puts, 2 processes, all modes, prefixes | holds (197,285 states) |

Three stores make a first, an inner and a last one; three errors exhaust both attempts of
one store and hit another.  A process may end (`pc = "dead"`)
where the manual promises that the next store is tried: the wrapper around a single
store ends the process when its attempts are used up, so `onfail=continue` never gets to
the next.  No property claims otherwise.

## 6. Removal

The commands that delete.  Each reads the collection once, with the operators of
`Chains`, and from it comes `todo`, the list of files in the order the nested loops
delete them (`RemoveOldFiles`, `ExtraneousFiles`).  `Delete` takes the next file,
`DeleteFails` passes one over, as the wrapper does when its attempts are used up, and
`Dies` ends the process anywhere.  Backups in between are single steps (`Backup`,
`BackupDies`, `BackupRestarts`): `BackupSession` has their parts.  `sync_archive` runs
before every command, so the archive directory is what the remote is, and the `.part`
files of the set `part`.

`doomed`, a history variable, is what the user asked for, in the manual's words and not
the code's: sets before the time, on which no newer set depends, outside the active
chain.

* `KeptSetsWhole`: all else stays whole, through failures, deaths and commands that
  follow on half-done ones, but for a set that was set aside (below).
* `NoHalfSets`, `ChainsUnbroken`: the order of deletion leaves, at every moment, sets
  that can be restored.  They do not hold once a deletion has failed (`gaveUp`).
* `ActiveSignaturesKept`: the next backup can be incremental.
* `CleanupLeavesNothing`: what any dead run left is gone after a cleanup.

`BackupSet.delete` ends with `release_lockfile`.  From the first set on that a command has
deleted (`unlocked`), another process can have the lock: a backup reads the collection as
it then is, and the command goes on with the list it made before.

| run | instance | result |
|---|---|---|
| `removal_safety` | 5 backups of 1 volume, 3 commands, 3 deaths or 1 death and a failed deletion, backups beside removals; times up to the end of the active chain | holds (491,136 states) |

Five backups make two chains, one of them of three sets; a command can work on what two
that died have left, and there is enough for a fork (`SetAside`):

1. sets 1 (full), 2 and 3 (incremental) are complete, and a full backup 4 dies;
2. a removal with time 4 dies when it has deleted the signature of 3;
3. a cleanup dies when it has deleted what there is of 4;
4. the next backup discards 3, whose signature is missing, and starts from 2: set 5.

Now 3 and 5 both start from 2.  Which of them is in the chain depends on how Python orders
an int and an instance (`LaterWins`).  If the first stays (FALSE), 5, complete and wanted, is an
orphan: no chain has it, a restore does not find it, the next cleanup deletes it.  If the later
one takes its place (TRUE), 3 is in no list and no command removes it until its chain is gone.
So one of the two is lost to the collection; `KeptSetsWhole` and `ChainsUnbroken` say that
nothing else is.  Without the exception `KeptSetsWhole` is violated in this run, and
`ChainsUnbroken` with a sixth backup, for both orders; with four backups and two commands they hold, since
there is no fork.  The manual says of cleanup that "files in complete data sets will not be deleted"
(`duplicity.1`); what it spares is sets in a chain.  `ActiveSignaturesKept` has an exception, too:
the user asked for sets of the chain, or sets made from them, to be removed while another
chain was active.

The properties were also checked for `LaterWins` TRUE (491,081 states), and for sets of two
volumes among four backups and two commands (50,821); and, with no backups beside, with six
backups (2.4 million) and with two deaths and a failed deletion (1.2 million).

Two of the constants leave out what does not hold:

1. `LateTimes`: with times after the last backup, `ActiveSignaturesKept` is violated.  The
   active signature chain is kept by identity ("don't delete the active (matched) chain"),
   but there are two such objects, one read from the archive directory and one from the
   remote, and the remote one is deleted.  The next `sync_archive` deletes the local files too,
   and the next backup can only be full.  A removal that dies on the way has deleted
   only the last signature; the set it belongs to is then counted as incomplete, and
   `cleanup` deletes its volumes although the set is complete: `KeptSetsWhole` is violated.
   Four backups, two commands and one death are enough.
2. `Beside`: with backups beside `cleanup`, `KeptSetsWhole` is violated.  A cleanup that
   has deleted a partial set reads the collection again; a partial set that it finds now
   may be completed by the other process while its volumes are on the list.

A backup is one step here, so nothing is said of one that is caught half way by a command
that has let go of the lock; nor of two commands that delete at once.

## 7. AsyncUpload

The main thread makes volumes, lists them in the partial manifest and schedules their
upload; a thread uploads, checks the size and deletes the temporary file; the main thread
calls all waiters and sends the manifest.  `asyncscheduler.py` is not in the repository,
so `schedule_task` is modelled from its use (`SlotFree`, `ScheduleRaises`).

| steps | code |
|---|---|
| `MakeVolume`, `ScheduleTask`, `ScheduleRaises`, `ScheduleInline`, `InlineDone` | the loop of `write_multivol` |
| `WaiterReturns`, `WaiterRaises`, `SendManifest` | the waiters of `async_split`, then the manifest |
| `PutStarts`, `PutReturns`, `PutFails`, `PutRefused` | `put` with its attempts, which ends the process (`TaskExits`) when they are used up |
| `Validate`, `DeleteTemp` | the rest of `put` in `bin/duplicity` |
| `Interrupt`, `Cleanup`, `Exit` | a signal or an error in the main thread; `with_tempdir`; the end |

`ManifestAfterVolumes`, `RestartKeepsWhole` (at any moment, since a process may be killed
at any) and `RunEnds` hold on `async_uploads` (3 volumes, 2 attempts, 2 errors, 1 signal,
with and without a thread, honest and lying stores; 12,166 states).  `RunEnds` assumes weak
fairness of the main thread and of the tasks, both scheduled by the operating system.  It
admits one wait that never ends and `RestartKeepsWhole` exempts what follows it: a task
that ends with `SystemExit` tells neither its waiter nor the scheduler.

## 8. DeltaTrees

What a set has of each path.  A tree is a set of paths; a run (`Backup`) collates the
signatures of the chain (`CombinePathIters`), compares (`GetDeltaIter`: type, permissions
and time, not data) and writes a difftar and a signature tar.  A restore merges the
difftars (`CollateIters`, `NormalizePs`, `PatchSeq2ROPath`) and writes a tree with the
reducer of `lazy.py` (`Reduce`), which takes the elements in the order of their indices
(`First`), finishes the branches that the next one is not in, and processes it
(`Process`); the attributes of a directory are set when it is left (`FinishBranches`).
`Patch` does the same on a tree in place.  The loops are recursive functions, over how
many elements were read or patches applied.

`Edit` changes the source, also within the second of a file's time; `QuietRun`,
`FaultyRun` and `EditedRun` take a backup without an error, with a path that cannot be
read, opened or read to its end, and with a file edited after it was looked at, or that grows
while it is read.

A signature need not be of the data that is stored.  A failed read looks like the end of the
file to tar and librsync, and `FileWithSignature.close` reads on; a `Fault` has the data that is
read (`DataRead`) and the data that is signed (`DataSigned`).  The next difference of the file is
then against data that is nowhere in the chain, and patching gives `Garbage` (librsync may also
refuse it, which restores nothing of the file).  Two history variables follow this: `late`, the
files whose last signature is of other data than is stored, and `astray`, those with a
difference to such a signature.  A file is neither again with its next element that is not a
difference, at the latest with the next full set.  `LibrsyncStreams` shows how such a
signature comes about (its own `late`).

* `RestoresSource`: the restored tree is the source, but for the path of the error,
  files that look as they did (same type, permissions and second), and files that are
  `astray`.
* `SubtreeRestored`: restoring one path gives what restoring all has there.
* `PatchAgrees`: set after set in place, or merged at once, gives the same data.
* `VerifyExact`: `verify --compare-data` names exactly the paths that differ.  No run checks
  it: `DeltaTreesProofs` proves it of every instance (`VerifyExactHolds`).

`deltas`: 4 indices on two levels, 2 contents, 3 sets, 2 edits, 1 error (203,852 states).
Three sets are a full one and two to be merged; two edits let a path go and come back with
another type; and three sets are what a late signature needs to lead a file astray and to
bring it back.  A path that cannot be read is in the deltas as a deletion: this is what the
code does, and why the path of the error is exempt.

## 9. Selection

`ParseOption` makes selection functions of options, in order; `Begin` refuses a
last condition that includes (`parse_last_excludes`); `List`, `Examine`,
`Leave` and `End` are the loop of `Iterate`, with `diryield_stack` (`stack`) and
`delayed_path_stack` (`delayed`); `Vanish` removes a path while the walk is on.  `Select` is
the first answer that decides, with the rule for directories that are only to be scanned.
Patterns are sequences of sets of names with an optional `**` (`Glob`): the translation of
their text into regular expressions is not modelled.  The assumptions say what a source
and an option are: a path has one node and is in a directory (`IsTree`), and an option is
a list of patterns, a pattern or another condition (`IsOption`).

* `InOrder`: paths come once, in order, after their directory, whatever vanishes.
* `SelectedExactly`: exactly the included paths that can be reached, and the scanned
  directories with one in them.
* `FirstMatchDecides`: the manual's rule, for what is given and for what is not.

`selection`: up to 3 of 20 options, 3 trees of two names and three levels, one path that
vanishes (646,000 states).  Three options make a first, an inner and a last condition.

## 10. GpgPipes

The parent forks a gpg process for each volume (`Fork`, `AsParent`, `GivePassphrase`),
writes or reads (`Write`, `Read`, `ReadEnd`), closes (`Drain`, `CloseInput`, `Wait`); gpg
works behind its pipe or fails (`GpgStarts`, `GpgEncrypts`, `GpgDecrypts`, `GpgFails`); a
thread waits for each (`Reap`).  A backup has one volume at a time, a restore one of
each set at once.  `fds` is what every process holds: each fork, also that of another
program (`OtherStarts`), copies it.

`ClosedWhole`: a volume that was closed without an error had all its data through gpg, and
in a restore its signature was read.  `AllClose`: nothing waits for ever, under weak
fairness of the parent, the threads, each gpg, and the end of other programs.  `gpg_pipes`: 2 volumes of
twice a pipe's size, 2 other programs, 1 failure (96,257 states).  With `SigchldIgnored`
`ClosedWhole` is violated: `threaded_waitpid` takes a process that is not there any more
for one that succeeded.

## 11. LibrsyncStreams

One file through `DeltaTarBlockIter`, `LikeFile` and `FileWithSignature`.  `Ask` is a
request for a block; `Fill`, `AddToInbuf`, `Cycle`, `FillDone` are the loop of
`LikeFile.read`, where `Jobs` is every amount librsync may keep back; `Direct` is a
snapshot; `Finish` is `FileWithSignature.close`, which reads on; `Grow` is another program.

* `BlocksWhole`: the blocks are the data, none lost or doubled, all full but the last.
* `SignatureMatches`: the signature, against which the next delta is made, is of the data
  that was stored.  A file that grows after its end was seen, or whose read failed, is
  exempt: `close` reads on and the signature has more than the volume.
* `StreamEnds`: under weak fairness of the reader's loop.

`streams`: files of up to 3 blocks of 2 units, 2 units of growth, 1 failed read (14,776
states): lengths of a whole number of blocks, and between them.

## 12. What is read before anything is done

`MCInputs` takes one input per behaviour and answers it with the operators of four
modules; each property compares the answer with what was meant.

| module | code | property |
|---|---|---|
| `TimeStrings` | `dup_time.py`: writing and reading of times, zones, intervals | `TimesReadBack` |
| `FileNames` | `file_naming.py`: `get`, `parse`; `path.py`: how a name is opened | `NamesReadBack` |
| `CommandLine` | `commandline.py`: commands, URLs, options that refuse or change what is done | `UsageKept` |
| `RestoreTimes` | `collections.py`: sets and signatures for a time | `MomentRestored` |

`inputs` has 343,806 states: times in five zones, on both sides of UTC, with halves of
hours and in both seasons; every kind of file name at the edges of base 36, under seven
sets of options for the writer and for the reader; all command lines of up to three of
19 arguments with 14 settings; collections of five sets, some of them removed, at every
time.

What the code does and one would not expect: zones west of UTC that are off the full hour
are written an hour off and read back so, and a standard string of such a zone is misread;
`restore` with the path before the URL makes a backup; a run with short names does not see
long ones.  The properties name these cases.

## 13. What is proved

Every theorem holds for all values of the constants that satisfy the assumptions of its
module, which say no more than that the bounds are numbers, and sets are of the kinds
they should be: any number of paths, sets, volumes, blocks, stores, attempts, errors and
crashes, crashes at any set of steps, any subset of commands.

| module | theorem | statement |
|---|---|---|
| `BackupSessionProofs` | `TypeInvariant` | `Spec => []TypeOK` |
| | `CompleteSetsAreSound` | `Spec => []ManifestSound` |
| | `CompleteSetsStay` | `Spec => CompleteStays` |
| | `SyncedCacheAgrees` | `Spec => []CacheAgrees` |
| | `NoSecondManifest` | `CrashAt \cap Twofold = {} => (Spec => []~asserted)` |
| | `FullSetsRestore` | `Spec => []FullRestoresSource` |
| | `CarefulRunsKeepTheArchive` | `Careful => (Spec => ImplementsArchive)` |
| | `CarefulRunsUseSignatures` | `Careful => (Spec => OldSignaturesUsed)` |
| | `CarefulRunsGoOn` | `Careful => (Spec => []LaterRunsGoOn)` |
| `AsyncUploadProofs` | `TypesKept` | `Spec => []TypeOK` |
| | `ManifestComesLast` | `Spec => []ManifestAfterVolumes` |
| | `RestartIsSafe` | `Spec => []RestartKeepsWhole` |
| `TarVolumesProofs` | `TypesKept` | `Spec => []TypeOK` |
| | `TextIsTheManifest` | `Spec => []TextMeansManifest` |
| | `WhatWasBackedUpIsRestored` | `Spec => []RestoresUnchanged` |
| `MultiBackendProofs` | `TypesKept` | `Spec => []TypeOK` |
| | `MirrorsStayAlike` | `Spec => []MirrorsAgree` |
| | `GetsReadLast` | `Spec => []ReadsLastWritten` |
| | `DeletionsLeaveNothing` | `Spec => DeletedEverywhere` |
| `GpgPipesProofs` | `CloseKeepsPromise` | `~SigchldIgnored => (Spec => []ClosedWhole)` |
| `LibrsyncStreamsProofs` | `BlocksAreWhole` | `Spec => []BlocksWhole` |
| | `SignaturesMatch` | `Spec => []SignatureMatches` |
| `SelectionProofs` | `PathsComeInOrder` | `Spec => []InOrder` |
| | `SelectsExactly` | `Spec => []SelectedExactly` |
| | `FirstMatchRules` | `Spec => []FirstMatchDecides` |
| `DeltaTreesProofs` | `BackupInvHolds` | `Spec => []BackupInv` |
| | `RestoresSourceHolds` | `Spec => []RestoresSource` |
| | `SubtreeRestoredHolds` | `Spec => []SubtreeRestored` |
| | `VerifyExactHolds` | `Spec => []VerifyExact` |
| | `PatchAgreesHolds` | `Spec => []PatchAgrees` |

Five theorems have a condition on the constants, and all are the code's: without it TLC
shows a violation (sections 3 and 10).  `Twofold` is `manmoving`, `mandelete` and `manfinal`.  `Careful` is what `session_restart` takes: runs
die at any of the `SafeSteps`, and the source changes only when no set is partial (a set
that was restarted over a source that had changed is a snapshot of no tree, though
`FullSetsRestore` says what full ones restore).  Each argument is an inductive invariant that was checked by TLC on
the instance of the module's run, one lemma per action, and in each one step per part of
the invariant.  Runs with the specification `FairSpec` are covered: it implies `Spec`.

**`BackupSession`.**  `ManifestSound` alone is not inductive: that
the manifest sent at the end lists exactly what is on the remote follows only from
what holds while the set is written.  `VolumesInv` says that the volumes of every set,
complete or abandoned, are numbered `1..n` and that all but the last are the ones the
partial manifest lists; this is what makes it right for a restart to go back one
volume.  `WriterInv` relates the manifest object, the `.part` file and the remote at
each step of a run, and keeps a run's set apart from the complete ones.  `CacheInv`
says that a final local file differs from the remote one only beside a `.part` file, that a
manifest is cut off only beside one, and that no manifest is ever fetched, as each complete
set has one in the archive directory.
`OneManifest` is the part for the assertion: a set has a manifest on the remote, cut off or
whole, and a `.part` one only while the run that writes it is at one of the steps `Twofold`.

**`BackupSession`, what sets hold.**  What the volumes hold is a matter of the position in the source.
`ContentInv` says of a manifest that its blocks are the source's, that each path up to the
end index of a volume is in that volume or one before it, and that paths after it are
still in `todo`.  A restart trusts nothing but the end index of the last volume it keeps,
so the second part is what carries the content over a crash; that a set is wanted as the
source was when the first of its runs began is the third.

For incremental sets, and so for the refinement of `Archive`, three more things are needed.
`LineInv`: only the last set is partial, each starts from the complete one before it, and
where a run reads the collection there are signatures for exactly the complete sets, a
`.part` one for the partial one, and none is cut off (`LocalWhole`).  `ChainsAreSegments`: of sets in such a line the loops of
`collections.py` make the chains one expects, a full set and all up to the next
(`Segment`), for backup sets and for signatures, whatever `LaterWins` is; `BackupChains` is a recursive
function of the time, and the proof takes the least time at which it would differ.
`LastWord`: where each set of a segment tells what has changed since the one before
(`Wants`), the last one up to `t` that mentions a path tells what it is in `t`.  It is used
twice: for the signatures that a run combines, so that the delta it writes is against
the tree of the set before (`SignedTree`), and for the blocks that a restore puts together
(`SetRestores`).  The refinement is then short (`StepsOfArchive`): only `ManPutEnds` takes a
snapshot, only `Edit` changes the tree.

**`AsyncUpload`.**  `Settled`: a task with an outcome is over, and a task that keeps a value, or is
about to, has passed the check of the size, before which a store that lied may have kept
a part.  `Started`: a task is scheduled once, for a volume that was made, so that an
outcome cannot be undone by a second put.  `Waited`: the main thread calls the waiters in
order from the first, so that when it sends the manifest all tasks have values.  For a
restart, `Ordered`: a volume is scheduled only when those before it are whole, because
there is one slot; what the store lists is then a first part of the volumes, and only the
last of it may be torn.

**`TarVolumes`.**  Runs append to one `.part` file, and a restart appends again what an
earlier run had written.  The invariant says which line is the latest for a volume, that
the numbers up to the last line's are all there, and that a run knows the volumes before
the one it writes from both the text and the remote; above them the text may list
volumes that a dead run left, which the next line drops.

`RestoresUnchanged` needs to know what is in the volumes.  `Holds` says of a volume that it
continues each wanted path where the volume before ended, by the end that the manifest
lists for that one: so all volumes in a row have the path's blocks once and in order, up
to the last end.  `PlaceInv` says that the iterator is at that end whenever no volume is
open, which is what lets the next run go on; for the run that looks for the place,
`SkipPlace` says that the place is still ahead: while the end's path is wanted, the search
cannot pass it.  `IterPlace` describes the iterator by what it has not read, and a queued
block occurs only if a path was edited, which is why the index ranges of volumes are exact
if none was.  What `Stream` and `EntriesOf` compute is proved by induction over the
volumes and over a sequence, as the least number of a set (`HasLeast`, `CountUp`).

**`MultiBackend`.**  The loops are entered again by two wrappers, at any store, after any
answer.  `MirrorInv`: in a mirror the stores before the cursor have what is put.
`CopiesInv`: a file without a stale copy is, but for the store being written, absent or
current everywhere, and in a stripe on one store at most.  `DeleteInv`: the stores that a
deletion is done with do not have the file.

**`GpgPipes`.**  The parent knows an exit code, and gpg knows the end of a pipe.
`WritersEnd` says that the parent lets go of a volume's writing end when all is written,
so that a gpg that saw the end saw everything, whoever else holds a copy of the
descriptor; `ReadersEnd` is the same for reading, with gpg as the writer.

**`LibrsyncStreams`.**  A file's units go through four buffers.  `FlowInv` says that what
the reader got, what waits for it, what librsync keeps and what it has still to take are,
in a row, what was read of the file; `SigInv` that the signature's buffers are all of
that.  `SizesInv` says that a block shorter than the others is the last.

**`Selection`.**  `Good` relates the two stacks to what was given: each frame is in the
directory of the frame below it and before the names left there (`Nested`), every name
left anywhere is after the last path given (`Ahead`), and the directories held back are
those of the upper frames (`HeldBack`), the lower ones having been given.  It is
independent of the source, which may lose paths at any time.  For a source nobody changes
`Exact` adds that the walk loses nothing: an included path is given with all above it, or
a name left in some frame still leads to it (`Complete`).  A name that leaves its frame is
the only thing lost in a step, and a directory of that name is entered if anything below it
is wanted.  For `FirstMatchRules`, what a pattern matches has only directories above it
that the pattern matches or scans (`ScansAbove`), so the walk finds its way.  That sorting a
finite set of numbers is possible, and that a set of places has a first one, is
proved by well-founded minimality on the subsets of a finite set.

**`DeltaTrees`.**  The indices are any finite set of sequences of numbers that has with each
index those above it: trees of any depth and width.  The only assumption besides is that
the numbers of contents and the bounds are numbers.  The argument has four parts.

* *Order.*  `Earlier` is total on sequences, and what is below a directory comes right
  after it (`EarlierBy` is the order by the number of places in which two indices agree).
  A finite set of elements has a first one, so it can be read one by one, and `Reduce` is
  a sequence of states (`ReduceReads`).  That the recursive function in `Reduce` exists is
  shown by counting up, as the least number at which it would not.
* *Writing.*  `WritesTree`: from elements in which each path comes with the directory it is
  in, the reducer writes exactly their paths.  While it reads, a directory that is still
  open has the time at which it was last written to, and no directory is closed while
  something below it is left, so closing sets its time for good (`Written`, `StillOpen`).
* *Merging.*  A diff may be against other data than the element before it left, so what a
  chain comes to is a second chain, of the same elements with the data that patching gives
  them (`Merged`, `Merges`).  `MergesChain`: what is restored is the last element of each index of
  that one, unless it says that the path is gone.  Taking the part below an index out of each
  delta changes neither that nor the order (`FilteredMerges`), hence `SubtreeRestored`.
* *Chains.*  `BackupInv` says that the source is a tree, the chain of the newest set merges and
  comes to a tree, and the newest set says of each path what its run saw, or
  what the set before it says (`NewAt`), but for the files that are astray.  `RestoresSource` alone
  is not inductive: that a delta is against what the chain comes to follows from the
  signatures, which tell that tree but for the data of the files that are late or astray
  (`SigsTell`, `NextSigs`).  `NextTree` is the step: a delta of the source against those signatures,
  put on top, gives what the run saw, where the signature was of what is stored; for a run
  without an error and for each kind of error.

For `PatchAgrees` the same delta is processed in place.  `PatchesTree`: while a delta is read,
each path it still has to say something of is as it was, or gone with the directory that
was there before, if it will be deleted; all others are as they shall be
(`GoodAt`).  A path below a directory that becomes a file is deleted with it, before its
own deletion is reached, and that is the only way in which one element acts for another.
`Alike` leaves the times of directories out, as the property does.

Only model-checked:

* `KeptSetsWhole`, `ChainsUnbroken` and `ActiveSignaturesKept` of `Removal`, and its action and
  temporal properties.  Their invariant has to say in which order `todo` has the files of
  several chains, which the commands make with sorts and concatenations, and what
  `Chains` gives for sets that are not in a line while half of one chain is deleted; for
  sets in a line this is proved (`ChainsAreSegments`), for the rest it has not been.
* The properties of section 12.  They say that a conversion and its inverse, or a loop over a
  text, do for each input what is meant, and need induction over the input.  They are
  compared with a reference over bounded inputs.
* Liveness (`PartialResolved`, `Completed`, `CallEnds`, `RunEnds`, `AllClose`, `StreamEnds`),
  which is out of reach of the proof system.

## 14. Not modelled

* `asyncscheduler.py` is not in the repository; gpg, librsync, tar, pipes and the other
  programs that backends start are external.
* Single-store backends, `par2` and the delays between attempts: input and output of a
  service, whose answers `MultiBackend` and `AsyncUpload` enumerate.
* `replicate`: one reader and one writer, each behind the wrapper that `MultiBackend` has;
  what a died copy leaves is signatures without sets, as in `Removal`.
* The lock, but for its early release: two commands that delete at once, and a backup that
  is caught half way.  Two spellings of one URL have two archive directories and so two
  locks.
* The syntax of patterns, file lists and regular expressions (`globmatch.py`), the quoting
  of names in manifests, device files and hard links, progress, messages, `rdiffdir`'s own
  command line.
* Verify without `--compare-data`: `compare_verbose` then returns at once (path.py:364-365), and every
  path counts as the same.
