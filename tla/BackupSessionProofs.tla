------------------------ MODULE BackupSessionProofs ------------------------
(***************************************************************************)
(* Proofs about BackupSession, for every value of its constants.           *)
(*                                                                         *)
(* The first part is about which files there are: complete sets are sound  *)
(* and stay, the archive directory agrees with the remote.  The second is  *)
(* about what is in them.                                                  *)
(***************************************************************************)
EXTENDS BackupSession, FiniteSetTheorems, TLAPS

-----------------------------------------------------------------------------
(* Stores. *)

\* Writing a well-typed file gives a well-typed store.
LEMMA WriteStore ==
  ASSUME NEW K, NEW V, NEW f, IsStore(f, K, V), NEW k \in K, NEW x \in V
  PROVE  IsStore(Write(f, k, x), K, V)
BY DEF IsStore, Write

\* So does keeping some of the files, or removing one.
LEMMA KeepStore ==
  ASSUME NEW K, NEW V, NEW f, IsStore(f, K, V), NEW D
  PROVE  IsStore(Keep(f, D), K, V)
BY DEF IsStore, Keep

LEMMA RemoveStore ==
  ASSUME NEW K, NEW V, NEW f, IsStore(f, K, V), NEW k
  PROVE  IsStore(Remove(f, k), K, V)
BY DEF IsStore, Remove

LEMMA EmptyIsStore ==
  ASSUME NEW K, NEW V
  PROVE  IsStore(EmptyStore, K, V)
BY DEF IsStore, EmptyStore

-----------------------------------------------------------------------------
(* Finite sets of numbers. *)

\* A set of numbers up to n has a greatest element, unless it is empty.
LEMMA HasGreatest ==
  ASSUME NEW n \in Nat, NEW S \in SUBSET (1..n), S # {}
  PROVE  \E e \in S : \A t \in S : t <= e
<1> DEFINE Above(e) == {t \in S : e < t}
           All == {Above(e) : e \in S}
<1>1. IsFiniteSet(S)
  <2>1. IsFiniteSet(1..n)
    BY FS_Interval
  <2> QED BY <2>1, FS_Subset
<1>2. All \subseteq SUBSET S /\ All # {}
  OBVIOUS
<1>3. PICK U \in All : \A X \in All : ~ (<<X, U>> \in StrictSubsetOrdering(S))
  <2>1. IsWellFoundedOn(StrictSubsetOrdering(S), SUBSET S)
    BY <1>1, FS_StrictSubsetOrderingWellFounded, FS_FiniteSubsetsOfFinite
  <2> HIDE DEF All
  <2> QED BY <2>1, <1>2, WFMin
<1>4. PICK e \in S : U = Above(e)
  BY <1>3
<1>5. ASSUME NEW t \in S, ~ (t <= e)  PROVE FALSE
  <2>1. e < t
    BY <1>5
  <2>2. Above(t) \subseteq U /\ t \in U /\ t \notin Above(t)
    <3>1. U = {u \in S : e < u}
      BY <1>4
    <3>2. S \subseteq Nat
      OBVIOUS
    <3>3. t \in U /\ t \notin Above(t)
      BY <2>1, <3>1, <3>2
    <3>4. ASSUME NEW u \in Above(t)  PROVE u \in U
      <4>1. u \in S /\ t < u
        BY <3>4
      <4>2. u \in Nat /\ t \in Nat /\ e \in Nat
        BY <4>1, <3>2
      <4> QED BY <2>1, <3>1, <4>1, <4>2
    <3> QED BY <3>3, <3>4
  <2>3. <<Above(t), U>> \in StrictSubsetOrdering(S)
    BY <2>2, <1>4 DEF StrictSubsetOrdering
  <2> QED BY <1>3, <2>3
<1> QED BY <1>5

\* The end of a non-empty chain is its greatest element.
LEMMA EndIsGreatest ==
  ASSUME NEW n \in Nat, NEW S \in SUBSET (1..n)
  PROVE  /\ S # {} => End(S) \in S /\ \A t \in S : t <= End(S)
         /\ S = {} => End(S) = 0
         /\ End(S) \in 0..n
<1>1. CASE S = {}
  BY <1>1 DEF End
<1>2. CASE S # {}
  <2>1. \E e \in S : \A t \in S : t <= e
    BY <1>2, HasGreatest
  <2>2. End(S) = CHOOSE e \in S : \A t \in S : t <= e
    BY <1>2 DEF End
  <2>3. End(S) \in S /\ \A t \in S : t <= End(S)
    BY <2>1, <2>2
  <2>4. End(S) \in 0..n
    <3>1. End(S) \in 1..n
      BY <2>3
    <3> QED BY <3>1
  <2> QED BY <2>3, <2>4, <1>2
<1> QED BY <1>1, <1>2

-----------------------------------------------------------------------------
(* Steps that leave a part of the state alone. *)

\* The sets of steps are abbreviations.
USE DEF NoSet, BeforeWriting, AfterSigpart, SendingSig, SendingMan, Sending,
        SigInPlace, ManInPlace

\* A file that becomes cut off, or whole: only its kind and its set are touched.
LEMMA CutStep ==
  ASSUME NEW cut \in [Kinds -> SUBSET Times], NEW t \in Times
  PROVE  /\ CutOff(cut, "sig", t) \in [Kinds -> SUBSET Times]
         /\ CutOff(cut, "sig", t)["sig"] = cut["sig"] \cup {t}
         /\ CutOff(cut, "sig", t)["man"] = cut["man"]
         /\ CutOff(cut, "man", t) \in [Kinds -> SUBSET Times]
         /\ CutOff(cut, "man", t)["man"] = cut["man"] \cup {t}
         /\ CutOff(cut, "man", t)["sig"] = cut["sig"]
         /\ Mended(cut, "sig", t) \in [Kinds -> SUBSET Times]
         /\ Mended(cut, "sig", t)["sig"] = cut["sig"] \ {t}
         /\ Mended(cut, "sig", t)["man"] = cut["man"]
         /\ Mended(cut, "man", t) \in [Kinds -> SUBSET Times]
         /\ Mended(cut, "man", t)["man"] = cut["man"] \ {t}
         /\ Mended(cut, "man", t)["sig"] = cut["sig"]
BY DEF CutOff, Mended, Kinds

LEMMA CutTypes ==
  ASSUME IInv
  PROVE  cutRem \in [Kinds -> SUBSET Times] /\ cutLoc \in [Kinds -> SUBSET Times]
BY DEF IInv, TypeOK, FilesOK

\* The files stay well typed when none of them changes.
LEMMA FilesFrame ==
  ASSUME FilesOK, UNCHANGED <<source, remote, local>>
  PROVE  FilesOK'
BY DEF FilesOK, remote, local

LEMMA HistoryFrame ==
  ASSUME HistoryOK, UNCHANGED <<base, clock, verdict, bounds, wanted>>
  PROVE  HistoryOK'
BY DEF HistoryOK, verdict, bounds

LEMMA RunFrame ==
  ASSUME RunOK, UNCHANGED <<writer, command>>, pc' \in Steps \cup {"idle"}
  PROVE  RunOK'
BY DEF RunOK, writer

LEMMA VolumesFrame ==
  ASSUME VolumesInv, UNCHANGED <<remVol, remMan, cutRem, manPart, clock>>
  PROVE  VolumesInv'
BY DEF VolumesInv, Sound, Matches, Whole

\* A run that is not writing knows nothing.
LEMMA WriterIdle ==
  ASSUME pc' \in {"idle", "sync", "collect"}, vol' = 0, mf' = EmptyStore
  PROVE  WriterInv'
BY DEF WriterInv

LEMMA CacheFrame ==
  ASSUME CacheInv, UNCHANGED <<remote, local>>,
         pc' \notin {"fetchsig", "fetchman", "sigmove", "sigmoving", "manmove", "manmoving"}
                     \cup SigInPlace \cup ManInPlace
  PROVE  CacheInv'
BY DEF CacheInv, remote, local

\* What Forget leaves is well typed.
LEMMA ForgetOK ==
  ASSUME Forget, pc' \in {"idle", "sync"}, command' \in {"full", "inc", "incremental"}
  PROVE  RunOK'
<1>1. IsManifest(mf') /\ newSig' \in Data
  <2>1. IsStore(EmptyStore, Volumes, VolumeInfo)
    BY EmptyIsStore
  <2>2. EmptyStore \in Data
    BY DEF Data, Store, EmptyStore
  <2> QED BY <2>1, <2>2 DEF Forget, IsManifest
<1>2. cur' \in 0..MaxTime /\ vol' \in 0..MaxVol /\ prev' \in 0..NumPaths
  BY SizesAssumption DEF Forget
<1>4. kind' \in {"full", "inc"} /\ todo' \subseteq Paths
  BY DEF Forget
<1>5. restarted' \in BOOLEAN /\ atEnd' \in BOOLEAN /\ frayed' \in BOOLEAN
  BY DEF Forget
<1>3. pc' \in Steps \cup {"idle"}
  BY DEF Steps
<1> QED BY <1>1, <1>2, <1>3, <1>4, <1>5 DEF RunOK

-----------------------------------------------------------------------------
(* The inductive invariant. *)

LEMMA InitInv == Init => IInv
<1> SUFFICES ASSUME Init PROVE IInv
  OBVIOUS
<1>1. FilesOK
  <2>1. \A K, V : IsStore(EmptyStore, K, V)
    BY EmptyIsStore
  <2>2. IsManifests(EmptyStore)
    BY DEF IsManifests, EmptyStore
  <2>3. source \in [Paths -> Versions]
    BY SizesAssumption DEF Init, Versions
  <2>4. cutRem \in [Kinds -> SUBSET Times] /\ cutLoc \in [Kinds -> SUBSET Times]
    BY DEF Init
  <2> QED BY <2>1, <2>2, <2>3, <2>4, SizesAssumption DEF Init, FilesOK
<1>2. RunOK
  <2>1. IsManifest(EmptyStore) /\ EmptyStore \in Data
    BY EmptyIsStore DEF IsManifest, Data, Store, EmptyStore
  <2>2. cur \in 0..MaxTime /\ vol \in 0..MaxVol /\ prev \in 0..NumPaths
    BY SizesAssumption DEF Init
  <2>3. restarted \in BOOLEAN /\ atEnd \in BOOLEAN /\ frayed \in BOOLEAN
    BY DEF Init
  <2> QED BY <2>1, <2>2, <2>3 DEF Init, RunOK
<1>3. TypeOK
  <2>1. IsStore(EmptyStore, Times, Data)
    BY EmptyIsStore
  <2>2. asserted \in BOOLEAN /\ refused \in BOOLEAN /\ unreadable \in BOOLEAN
    BY DEF Init
  <2>3. base \in [Times -> 0..MaxTime] /\ clock \in 0..MaxTime
    BY SizesAssumption DEF Init
  <2>4. crashes \in 0..MaxCrashes /\ edits \in 0..MaxEdits
    BY SizesAssumption DEF Init
  <2>5. IsStore(wanted, Times, Data)
    BY <2>1 DEF Init
  <2> QED BY <1>1, <1>2, <2>2, <2>3, <2>4, <2>5 DEF TypeOK, HistoryOK
<1>4. VolumesInv
  <2>1. DOMAIN EmptyStore = {}
    BY DEF EmptyStore
  <2>2. 1..0 = {} /\ 0 \in 0..MaxVol
    BY SizesAssumption
  <2> QED BY <2>1, <2>2 DEF Init, VolumesInv, Kinds
<1>5. WriterInv
  BY DEF Init, WriterInv
<1>6. CacheInv
  BY DEF Init, CacheInv, EmptyStore, Kinds
<1> QED BY <1>3, <1>4, <1>5, <1>6 DEF IInv

\* A run that ends without touching a file.
LEMMA RunEnds ==
  ASSUME IInv, Forget, pc' \in {"idle", "sync"},
         UNCHANGED <<source, remote, local, base, clock, command, wanted, edits>>,
         asserted' \in BOOLEAN, refused' \in BOOLEAN, unreadable' \in BOOLEAN,
         crashes' \in 0..MaxCrashes
  PROVE  IInv'
<1>1. FilesOK'
  BY FilesFrame DEF IInv, TypeOK
<1>2. RunOK'
  BY ForgetOK DEF IInv, TypeOK, RunOK
<1>3. HistoryOK'
  BY DEF IInv, TypeOK, HistoryOK
<1>4. VolumesInv'
  BY VolumesFrame DEF IInv, remote, local
<1>5. WriterInv'
  BY WriterIdle DEF Forget
<1>6. CacheInv'
  BY CacheFrame DEF IInv
<1> QED BY <1>1, <1>2, <1>3, <1>4, <1>5, <1>6 DEF IInv, TypeOK

LEMMA EditInv ==
  ASSUME IInv, NEW p \in Paths, NEW v \in Versions, Edit(p, v)
  PROVE  IInv'
<1> USE DEF Edit
<1>1. FilesOK'
  <2>1. source' \in [Paths -> Versions]
    BY DEF IInv, TypeOK, FilesOK
  <2> QED BY <2>1 DEF IInv, TypeOK, FilesOK, remote, local
<1>2. RunOK'
  BY RunFrame DEF IInv, TypeOK, RunOK
<1>3. HistoryOK'
  <2>1. IsStore(wanted', Times, Data)
    <3>1. ASSUME NEW d \in Data  PROVE Remove(d, p) \in Data
      <4>1. PICK D \in SUBSET Paths : d \in [D -> Versions]
        BY DEF Data, Store
      <4>2. Remove(d, p) \in [D \ {p} -> Versions]
        BY <4>1 DEF Remove
      <4>3. D \ {p} \in SUBSET Paths
        OBVIOUS
      <4> QED BY <4>2, <4>3 DEF Data, Store
    <3>2. DOMAIN wanted \subseteq Times /\ wanted \in [DOMAIN wanted -> Data]
      BY DEF IInv, TypeOK, HistoryOK, IsStore
    <3>3. \A t \in DOMAIN wanted : wanted[t] \in Data
      BY <3>2
    <3> QED BY <3>1, <3>2, <3>3 DEF IsStore
  <2>2. edits' \in 0..MaxEdits
    BY SizesAssumption DEF IInv, TypeOK, HistoryOK
  <2> QED BY <2>1, <2>2 DEF IInv, TypeOK, HistoryOK, verdict
<1>4. VolumesInv'
  BY VolumesFrame DEF IInv, remote, local
<1>5. WriterInv'
  BY DEF IInv, WriterInv, writer
<1>6. CacheInv'
  BY CacheFrame DEF IInv
<1> QED BY <1>1, <1>2, <1>3, <1>4, <1>5, <1>6 DEF IInv, TypeOK

LEMMA CrashInv == IInv /\ Crash => IInv'
<1> SUFFICES ASSUME IInv, Crash PROVE IInv'
  OBVIOUS
<1>1. crashes' \in 0..MaxCrashes
  BY SizesAssumption DEF Crash, IInv, TypeOK, HistoryOK
<1>2. asserted' \in BOOLEAN /\ refused' \in BOOLEAN /\ unreadable' \in BOOLEAN
  BY DEF Crash, verdict, IInv, TypeOK, HistoryOK
<1> QED BY <1>1, <1>2, RunEnds DEF Crash

LEMMA BeginInv ==
  ASSUME IInv, NEW c \in Commands, Begin(c)
  PROVE  IInv'
<1> USE DEF Begin
<1>1. FilesOK'
  BY FilesFrame DEF IInv, TypeOK
<1>2. RunOK'
  BY SizesAssumption DEF IInv, TypeOK, RunOK, Steps, writer
<1>3. HistoryOK'
  BY HistoryFrame DEF IInv, TypeOK
<1>4. VolumesInv'
  BY VolumesFrame DEF IInv, remote, local
<1>5. WriterInv'
  BY WriterIdle DEF IInv, WriterInv, writer
<1>6. CacheInv'
  BY CacheFrame DEF IInv
<1> QED BY <1>1, <1>2, <1>3, <1>4, <1>5, <1>6 DEF IInv, TypeOK

\* What a step of sync_archive leaves alone.
LEMMA SyncFrame ==
  ASSUME IInv, pc \in {"sync", "fetchsig"}, pc' \in {"sync", "fetchsig", "collect"},
         UNCHANGED <<source, remote, sigPart, manPart, strayFull, base, clock, command,
                     kind, restarted, vol, mf, todo, prev, newSig, atEnd, frayed,
                     verdict, bounds, wanted>>,
         cur' \in 0..MaxTime, pc' = "fetchsig" => cur' \in Times,
         IsStore(locSig', Times, Data), IsManifests(locMan'),
         cutLoc' \in [Kinds -> SUBSET Times], CacheInv'
  PROVE  IInv'
<1>1. FilesOK'
  BY DEF IInv, TypeOK, FilesOK, remote
<1>2. RunOK'
  BY DEF IInv, TypeOK, RunOK, Steps
<1>3. HistoryOK'
  BY HistoryFrame DEF IInv, TypeOK
<1>4. VolumesInv'
  BY VolumesFrame DEF IInv, remote
<1>5. WriterInv'
  BY DEF IInv, WriterInv
<1> QED BY <1>1, <1>2, <1>3, <1>4, <1>5 DEF IInv, TypeOK

LEMMA RemoveLocalInv ==
  ASSUME IInv, NEW k \in Kinds, NEW t \in Times, RemoveLocal(k, t)
  PROVE  IInv'
<1> USE DEF RemoveLocal
<1>1. IsStore(locSig', Times, Data)
  BY RemoveStore DEF IInv, TypeOK, FilesOK
<1>2. IsManifests(locMan')
  BY DEF IInv, TypeOK, FilesOK, IsManifests, Remove
<1>3. /\ cutLoc' \in [Kinds -> SUBSET Times] /\ cutLoc'[k] = cutLoc[k] \ {t}
      /\ \A j \in Kinds \ {k} : cutLoc'[j] = cutLoc[j]
  BY DEF IInv, TypeOK, FilesOK, Mended
<1>4. cur' \in 0..MaxTime
  BY DEF IInv, TypeOK, RunOK, writer
<1>5. CacheInv'
  <2>1. CASE k = "sig"
    BY <1>3, <2>1 DEF IInv, CacheInv, Remove, Kinds, remote, writer
  <2>2. CASE k = "man"
    <3>1. /\ DOMAIN locMan' = DOMAIN locMan \ {t} /\ locSig' = locSig
          /\ \A u \in DOMAIN locMan' : locMan'[u] = locMan[u]
      BY <2>2 DEF Remove
    <3>2. t \in DOMAIN manPart \/ t \notin DOMAIN remMan
      BY <2>2 DEF Spurious, RemoteNames, Partials
    <3> QED BY <1>3, <2>2, <3>1, <3>2
            DEF IInv, CacheInv, Kinds, remote, writer
  <2> QED BY <2>1, <2>2 DEF Kinds
<1> QED BY <1>1, <1>2, <1>3, <1>4, <1>5, SyncFrame DEF writer

\* No manifest is missing; what is fetched has a name on the remote.
LEMMA FetchStartsInv ==
  ASSUME IInv, NEW k \in Kinds, NEW t \in Times, FetchStarts(k, t)
  PROVE  IInv'
<1> USE DEF FetchStarts
<1>1. k = "sig"
  <2> SUFFICES ASSUME k = "man" PROVE FALSE
    BY DEF Kinds
  <2> QED BY DEF IInv, CacheInv, VolumesInv, Missing, RemoteNames, FinalNames, Partials
<1>2. t \in RemoteSigs
  BY <1>1 DEF Missing, RemoteSigs
<1>3. /\ cutLoc' \in [Kinds -> SUBSET Times] /\ cutLoc'["man"] = cutLoc["man"]
  BY <1>1 DEF IInv, TypeOK, FilesOK, CutOff, Kinds
<1>4. cur' \in 0..MaxTime
  BY DEF Times
<1>5. CacheInv'
  BY <1>1, <1>2, <1>3
     DEF IInv, CacheInv, RemoteSigs, RemoteNames, remote
<1>6. IsStore(locSig', Times, Data) /\ IsManifests(locMan')
  BY DEF IInv, TypeOK, FilesOK
<1> QED BY <1>1, <1>3, <1>4, <1>5, <1>6, SyncFrame

\* A file that is fetched is the one of the remote.
LEMMA FetchEndsInv ==
  ASSUME IInv, NEW k \in Kinds, FetchEnds(k)
  PROVE  IInv'
<1> USE DEF FetchEnds
<1>1. k = "sig" /\ pc = "fetchsig" /\ cur \in RemoteSigs /\ cur \in Times
  BY DEF IInv, CacheInv, WriterInv, Kinds
<1>2. cur \notin cutRem["sig"] => cur \in DOMAIN remSig
  BY <1>1 DEF RemoteSigs, RemoteNames
<1>3. IsStore(locSig', Times, Data) /\ IsManifests(locMan')
  <2>1. cur \notin cutRem["sig"] => remSig[cur] \in Data
    BY <1>2 DEF IInv, TypeOK, FilesOK, IsStore
  <2> QED BY <1>1, <2>1, WriteStore DEF IInv, TypeOK, FilesOK
<1>4. cutLoc' \in [Kinds -> SUBSET Times] /\ cutLoc'["man"] = cutLoc["man"]
  BY <1>1 DEF IInv, TypeOK, FilesOK, Mended, Kinds
<1>5. cur' \in 0..MaxTime
  BY SizesAssumption
<1>6. CacheInv'
  BY <1>1, <1>2, <1>4 DEF IInv, CacheInv, Write, remote
<1> QED BY <1>1, <1>3, <1>4, <1>5, <1>6, SyncFrame

\* sync_archive: a final file is copied only when there is no local file, so
\* what it leaves agrees with the remote.
LEMMA SyncInv == IInv /\ Sync => IInv'
<1> SUFFICES ASSUME IInv, Sync PROVE IInv'
  OBVIOUS
<1>1. ASSUME NEW k \in Kinds, NEW t \in Times, FetchFails(k, t) PROVE IInv'
  <2>1. asserted' \in BOOLEAN /\ refused' \in BOOLEAN /\ crashes' \in 0..MaxCrashes
    BY <1>1 DEF FetchFails, bounds, IInv, TypeOK, HistoryOK
  <2>2. unreadable' \in BOOLEAN
    BY <1>1 DEF FetchFails
  <2> QED BY <1>1, <2>1, <2>2, RunEnds DEF FetchFails, bounds
<1>2. CASE Synchronised
  <2> USE <1>2 DEF Synchronised
  <2>1. CacheInv'
    BY CacheFrame DEF IInv
  <2>2. IsStore(locSig', Times, Data) /\ IsManifests(locMan')
    BY DEF IInv, TypeOK, FilesOK, local
  <2>3. cur' \in 0..MaxTime /\ cutLoc' \in [Kinds -> SUBSET Times]
    BY DEF IInv, TypeOK, FilesOK, RunOK, writer, local
  <2> QED BY <2>1, <2>2, <2>3, SyncFrame DEF writer, local
<1> QED BY <1>1, <1>2, RemoveLocalInv, FetchStartsInv, FetchEndsInv DEF Sync

LEMMA CollectAssertsInv == IInv /\ CollectAsserts => IInv'
<1> SUFFICES ASSUME IInv, CollectAsserts PROVE IInv'
  OBVIOUS
<1>1. refused' \in BOOLEAN /\ unreadable' \in BOOLEAN /\ crashes' \in 0..MaxCrashes
  BY DEF CollectAsserts, bounds, IInv, TypeOK, HistoryOK
<1>2. asserted' \in BOOLEAN
  BY DEF CollectAsserts
<1> QED BY <1>1, <1>2, RunEnds DEF CollectAsserts, bounds

\* Runs that end, or start again, with nothing decided.
LEMMA StopsInv ==
  ASSUME IInv, Forget, pc' \in {"idle", "sync"},
         UNCHANGED <<source, remote, local, base, clock, command, verdict, bounds, wanted>>
  PROVE  IInv'
<1>1. /\ asserted' \in BOOLEAN /\ refused' \in BOOLEAN /\ unreadable' \in BOOLEAN
      /\ crashes' \in 0..MaxCrashes
  BY DEF verdict, bounds, IInv, TypeOK, HistoryOK
<1> QED BY <1>1, RunEnds DEF bounds

LEMMA RefuseInv == IInv /\ Refuse => IInv'
<1> SUFFICES ASSUME IInv, Refuse PROVE IInv'
  OBVIOUS
<1>1. asserted' \in BOOLEAN /\ unreadable' \in BOOLEAN /\ crashes' \in 0..MaxCrashes
  BY DEF Refuse, bounds, IInv, TypeOK, HistoryOK
<1>2. refused' \in BOOLEAN
  BY DEF Refuse
<1> QED BY <1>1, <1>2, RunEnds DEF Refuse, bounds

LEMMA RestartStrayInv == IInv /\ RestartStray => IInv'
<1> SUFFICES ASSUME IInv, RestartStray PROVE IInv'
  OBVIOUS
<1> USE DEF RestartStray
<1>1. FilesOK'
  BY SizesAssumption DEF IInv, TypeOK, FilesOK, remote
<1>2. RunOK'
  BY RunFrame DEF IInv, TypeOK, Steps
<1>3. HistoryOK'
  BY HistoryFrame DEF IInv, TypeOK
<1>4. VolumesInv'
  BY VolumesFrame DEF IInv, remote
<1>5. WriterInv'
  BY WriterIdle DEF IInv, WriterInv, writer
<1>6. CacheInv'
  BY DEF IInv, CacheInv, remote
<1> QED BY <1>1, <1>2, <1>3, <1>4, <1>5, <1>6 DEF IInv, TypeOK

\* A partial set that is opened again has no remote manifest (Conflicts).
LEMMA ReopenInv ==
  ASSUME IInv, NEW t \in DOMAIN manPart, pc = "collect", Conflicts = {}, Reopen(t),
         kind' \in {"full", "inc"}, mf' = mf,
         NEW S \in SUBSET {t}, sigPart' = sigPart \cup S, strayFull' \in {strayFull, t},
         t \in sigPart' \/ (kind' = "full" /\ base[t] # 0),
         todo' \subseteq Paths, newSig' = [p \in todo' |-> source[p]], frayed' \in BOOLEAN
  PROVE  IInv'
<1> USE DEF Reopen
<1>1. t \in Times /\ t \notin DOMAIN remMan /\ t \notin cutRem["man"] /\ t <= clock
  BY DEF IInv, TypeOK, FilesOK, IsManifests, Conflicts, RemoteNames, VolumesInv
<1>2. FilesOK'
  <2>1. strayFull' \in 0..MaxTime
    BY <1>1, SizesAssumption DEF IInv, TypeOK, FilesOK, Times
  <2> QED BY <1>1, <2>1 DEF IInv, TypeOK, FilesOK, remote
<1>3. RunOK'
  <2>1. cur' \in 0..MaxTime
    BY <1>1, SizesAssumption DEF Times
  <2>2. newSig' \in Data
    <3>1. source \in [Paths -> Versions]
      BY DEF IInv, TypeOK, FilesOK
    <3>2. newSig' \in [todo' -> Versions]
      BY <3>1
    <3> QED BY <3>2 DEF Data, Store
  <2>3. pc' \in Steps \cup {"idle"}
    BY DEF Steps
  <2>4. restarted' \in BOOLEAN
    OBVIOUS
  <2>5. atEnd' \in BOOLEAN
    BY DEF IInv, TypeOK, RunOK
  <2> QED BY <2>1, <2>2, <2>3, <2>4, <2>5 DEF IInv, TypeOK, RunOK
<1>4. HistoryOK'
  BY HistoryFrame DEF IInv, TypeOK
<1>5. VolumesInv'
  BY VolumesFrame DEF IInv, remote
<1>6. WriterInv'
  BY <1>1 DEF IInv, WriterInv, remote
<1>7. CacheInv'
  BY DEF IInv, CacheInv, remote
<1> QED BY <1>2, <1>3, <1>4, <1>5, <1>6, <1>7 DEF IInv, TypeOK

LEMMA RestartFullInv == \A rd : IInv /\ RestartFull(rd) => IInv'
<1> SUFFICES ASSUME NEW rd, IInv, RestartFull(rd) PROVE IInv'
  OBVIOUS
<1> DEFINE t == LastSet(rd)
<1>1. /\ t \in DOMAIN manPart /\ pc = "collect" /\ Conflicts = {} /\ Reopen(t)
      /\ kind' = "full" /\ mf' = mf /\ sigPart' = sigPart \cup {t}
      /\ strayFull' = strayFull /\ newSig' = [p \in todo' |-> source[p]]
      /\ todo' = Delta(NoTree)
  BY DEF RestartFull
<1>2. todo' \subseteq Paths
  BY <1>1 DEF Delta
<1>3. frayed' \in BOOLEAN
  BY DEF RestartFull, IInv, TypeOK, RunOK
<1> QED BY <1>1, <1>2, <1>3, ReopenInv

LEMMA RestartIncInv == \A rd : IInv /\ RestartInc(rd) => IInv'
<1> SUFFICES ASSUME NEW rd, IInv, RestartInc(rd) PROVE IInv'
  OBVIOUS
<1> DEFINE t == LastSet(rd)
<1>1. /\ t \in DOMAIN manPart /\ pc = "collect" /\ Conflicts = {} /\ Reopen(t)
      /\ kind' = "inc" /\ mf' = mf /\ sigPart' = sigPart \cup {t}
      /\ strayFull' = strayFull /\ newSig' = [p \in todo' |-> source[p]]
      /\ todo' = Delta(Signed(rd))
  BY DEF RestartInc
<1>2. todo' \subseteq Paths
  BY <1>1 DEF Delta
<1>3. frayed' \in BOOLEAN
  BY DEF RestartInc
<1> QED BY <1>1, <1>2, <1>3, ReopenInv

LEMMA RestartUnsignedInv == \A rd : IInv /\ RestartUnsigned(rd) => IInv'
<1> SUFFICES ASSUME NEW rd, IInv, RestartUnsigned(rd) PROVE IInv'
  OBVIOUS
<1> DEFINE t == LastSet(rd)
<1>1. /\ t \in DOMAIN manPart /\ pc = "collect" /\ Conflicts = {} /\ Reopen(t)
      /\ kind' = "full" /\ base[t] # 0 /\ mf' = mf /\ sigPart' = sigPart
      /\ strayFull' = t /\ newSig' = [p \in todo' |-> source[p]]
      /\ todo' = Delta(NoTree)
  BY DEF RestartUnsigned
<1>2. todo' \subseteq Paths
  BY <1>1 DEF Delta
<1>3. sigPart' = sigPart \cup {}
  BY <1>1
<1>4. frayed' \in BOOLEAN
  BY DEF RestartUnsigned, IInv, TypeOK, RunOK
<1> HIDE DEF t
<1> QED BY <1>1, <1>2, <1>3, <1>4, ReopenInv

\* The time of a new set is later than every time seen, so nothing of the set
\* exists yet.
LEMMA NewSetInv ==
  ASSUME IInv, pc = "collect", NEW b \in {0} \cup DOMAIN remMan, NEW tree, NEW torn,
         NewSet(clock + 1, b, tree, torn)
  PROVE  IInv'
<1> DEFINE t == clock + 1
<1> USE DEF NewSet
<1>1. /\ t \in Times /\ clock < t /\ DOMAIN remVol[t] = {}
      /\ t \notin DOMAIN remMan /\ t \notin DOMAIN manPart /\ t \notin cutRem["man"]
  <2>1. clock \in Nat /\ t \in Times /\ clock < t
    BY SizesAssumption DEF IInv, TypeOK, HistoryOK, Times
  <2>2. \A u \in DOMAIN remMan \cup DOMAIN manPart : u <= clock
    BY DEF IInv, VolumesInv
  <2>3. DOMAIN remVol[t] = {}
    BY <2>1 DEF IInv, VolumesInv
  <2>4. cutRem["man"] \subseteq DOMAIN manPart
    BY DEF IInv, VolumesInv
  <2> QED BY <2>1, <2>2, <2>3, <2>4, SizesAssumption
<1>2. source \in [Paths -> Versions] /\ todo' \subseteq Paths
  BY DEF IInv, TypeOK, FilesOK, Delta
<1>3. FilesOK'
  BY FilesFrame DEF IInv, TypeOK
<1>4. RunOK'
  <2>1. cur' \in 0..MaxTime
    BY <1>1, SizesAssumption DEF Times
  <2>2. newSig' \in Data
    <3>1. newSig' \in [todo' -> Versions]
      BY <1>2
    <3> QED BY <1>2, <3>1 DEF Data, Store
  <2>3. pc' \in Steps \cup {"idle"}
    BY DEF Steps
  <2>4. restarted' \in BOOLEAN /\ atEnd' \in BOOLEAN /\ frayed' \in BOOLEAN
    BY DEF IInv, TypeOK, RunOK
  <2> QED BY <1>2, <2>1, <2>2, <2>3, <2>4 DEF IInv, TypeOK, RunOK
<1>5. HistoryOK'
  <2>1. IsStore(wanted', Times, Data)
    <3>1. source \in Data
      BY <1>2 DEF Data, Store
    <3> QED BY <1>1, <3>1, WriteStore DEF IInv, TypeOK, HistoryOK
  <2>2. b \in 0..MaxTime
    BY SizesAssumption DEF IInv, TypeOK, FilesOK, IsManifests, Times
  <2>3. base' \in [Times -> 0..MaxTime]
    BY <1>1, <2>2 DEF IInv, TypeOK, HistoryOK
  <2>4. clock' \in 0..MaxTime
    BY <1>1 DEF Times
  <2> QED BY <2>1, <2>3, <2>4 DEF IInv, TypeOK, HistoryOK, verdict, bounds
<1>6. VolumesInv'
  <2>1. \A u \in DOMAIN remMan \cup DOMAIN manPart : u <= clock + 1
    BY <1>1 DEF IInv, VolumesInv, TypeOK, FilesOK, IsManifests, Times, HistoryOK
  <2>2. \A u \in Times : clock + 1 < u => DOMAIN remVol[u] = {}
    BY <1>1 DEF IInv, VolumesInv, TypeOK, HistoryOK, Times
  <2> QED BY <2>1, <2>2 DEF IInv, VolumesInv, Sound, Matches, Whole, remote, local
<1>7. WriterInv'
  <2>1. vol' = 0 /\ mf' = EmptyStore
    BY DEF IInv, WriterInv
  <2>2. DOMAIN EmptyStore = {} /\ 1..0 = {} /\ ~ (0 > 0)
    BY DEF EmptyStore
  <2>3. cur' <= clock'
    BY <1>1 DEF Times
  <2> QED BY <1>1, <2>1, <2>2, <2>3 DEF WriterInv, remote, local
<1>8. CacheInv'
  BY CacheFrame DEF IInv
<1> QED BY <1>3, <1>4, <1>5, <1>6, <1>7, <1>8 DEF IInv, TypeOK

LEMMA NewFullInv == \A rd : IInv /\ NewFull(rd) => IInv'
BY NewSetInv DEF NewFull

LEMMA NewIncInv == \A rd : IInv /\ NewInc(rd) => IInv'
BY NewSetInv DEF NewInc, CheckManifests

LEMMA StartOverInv == IInv /\ StartOver => IInv'
<1> SUFFICES ASSUME IInv, StartOver PROVE IInv'
  OBVIOUS
<1> USE DEF StartOver
<1>1. FilesOK'
  BY FilesFrame DEF IInv, TypeOK
<1>2. RunOK'
  BY RunFrame DEF IInv, TypeOK, Steps
<1>3. HistoryOK'
  BY HistoryFrame DEF IInv, TypeOK
<1>4. VolumesInv'
  BY VolumesFrame DEF IInv, remote, local
<1>5. WriterInv'
  BY DEF IInv, WriterInv, writer, remote, local
<1>6. CacheInv'
  BY CacheFrame DEF IInv
<1> QED BY <1>1, <1>2, <1>3, <1>4, <1>5, <1>6 DEF IInv, TypeOK

\* BackupSet.delete keeps the numbers of the volumes that are left gapless.
LEMMA DeleteVolumeInv == IInv /\ DeleteVolume => IInv'
<1> SUFFICES ASSUME IInv, DeleteVolume PROVE IInv'
  OBVIOUS
<1> USE DEF DeleteVolume
<1>1. cur \in Times /\ cur \notin DOMAIN remMan
  BY DEF IInv, WriterInv
<1>2. PICK k \in DOMAIN remVol[cur] :
        /\ \A j \in DOMAIN remVol[cur] : j <= k
        /\ remVol' = [remVol EXCEPT ![cur] = Remove(@, k)]
  OBVIOUS
<1>3. remVol'[cur] = Remove(remVol[cur], k) /\ \A t \in Times \ {cur} : remVol'[t] = remVol[t]
  BY <1>1, <1>2 DEF IInv, TypeOK, FilesOK
<1>4. /\ DOMAIN remVol'[cur] = DOMAIN remVol[cur] \ {k}
      /\ \A j \in DOMAIN remVol'[cur] : remVol'[cur][j] = remVol[cur][j]
  BY <1>3 DEF Remove
<1>5. FilesOK'
  <2>1. IsStore(remVol'[cur], Volumes, VolumeFile)
    BY <1>1, <1>3, RemoveStore DEF IInv, TypeOK, FilesOK
  <2>2. \A t \in Times : IsStore(remVol'[t], Volumes, VolumeFile)
    BY <1>3, <2>1 DEF IInv, TypeOK, FilesOK
  <2>3. remVol' = [t \in Times |-> remVol'[t]]
    BY <1>2 DEF IInv, TypeOK, FilesOK
  <2> QED BY <2>2, <2>3 DEF IInv, TypeOK, FilesOK, local
<1>6. RunOK'
  BY RunFrame DEF IInv, TypeOK, RunOK
<1>7. HistoryOK'
  BY HistoryFrame DEF IInv, TypeOK
<1>8. VolumesInv'
  <2>1. \A t \in Times : \E n \in 0..MaxVol : DOMAIN remVol'[t] = 1..n
    <3>1. PICK n \in 0..MaxVol : DOMAIN remVol[cur] = 1..n
      BY <1>1 DEF IInv, VolumesInv
    <3>2. n > 0 /\ k = n
      <4>1. n \in Nat /\ k \in 1..n
        BY <1>2, <3>1, SizesAssumption
      <4>2. n \in DOMAIN remVol[cur]
        BY <3>1, <4>1
      <4> QED BY <1>2, <4>1, <4>2
    <3>3. DOMAIN remVol'[cur] = 1..(n - 1) /\ n - 1 \in 0..MaxVol
      <4>1. DOMAIN remVol'[cur] = (1..n) \ {n}
        BY <1>4, <3>1, <3>2
      <4>2. (1..n) \ {n} = 1..(n - 1) /\ n - 1 \in 0..MaxVol
        BY <3>2, SizesAssumption
      <4> QED BY <4>1, <4>2
    <3> QED BY <1>3, <3>3 DEF IInv, VolumesInv
  <2>2. \A t \in Times : DOMAIN remVol'[t] \subseteq DOMAIN remVol[t]
    BY <1>3, <1>4
  <2>3. \A t \in DOMAIN manPart : \A j \in Volumes :
          j + 1 \in DOMAIN remVol'[t] => Matches(manPart[t], t, j)'
    <3> SUFFICES ASSUME NEW t \in DOMAIN manPart, NEW j \in Volumes, j + 1 \in DOMAIN remVol'[t]
                 PROVE  j \in DOMAIN manPart[t] /\ j \in DOMAIN remVol'[t]
                          /\ remVol'[t][j] = Whole(manPart[t][j])
      BY DEF Matches, local, Whole
    <3>1. t \in Times /\ j + 1 \in DOMAIN remVol[t]
      BY <2>2 DEF IInv, TypeOK, FilesOK, IsManifests
    <3>2. j \in DOMAIN manPart[t] /\ j \in DOMAIN remVol[t] /\ remVol[t][j] = Whole(manPart[t][j])
      BY <3>1 DEF IInv, VolumesInv, Matches
    <3>3. CASE t = cur
      <4>1. j # k
        <5>1. j + 1 <= k /\ j \in Nat /\ k \in Nat
          BY <1>1, <1>2, <3>1, <3>3 DEF IInv, TypeOK, FilesOK, IsStore, Volumes
        <5> QED BY <5>1
      <4> QED BY <1>4, <3>2, <3>3, <4>1
    <3>4. CASE t # cur
      BY <1>3, <3>1, <3>2, <3>4
    <3> QED BY <3>3, <3>4
  <2>4. \A t \in DOMAIN remMan : remVol'[t] = remVol[t]
    BY <1>1, <1>3 DEF IInv, TypeOK, FilesOK, IsManifests
  <2>5. \A t \in DOMAIN remMan : Sound(remMan[t], t)'
    BY <2>4 DEF IInv, VolumesInv, Sound, Matches, Whole
  <2> QED BY <2>1, <2>2, <2>3, <2>5 DEF IInv, VolumesInv, local
<1>9. WriterInv'
  BY DEF IInv, WriterInv, writer, local
<1>10. CacheInv'
  BY DEF IInv, CacheInv, WriterInv, local
<1> QED BY <1>5, <1>6, <1>7, <1>8, <1>9, <1>10 DEF IInv, TypeOK

LEMMA DeleteLocalSigInv == IInv /\ DeleteLocalSig => IInv'
<1> SUFFICES ASSUME IInv, DeleteLocalSig PROVE IInv'
  OBVIOUS
<1> USE DEF DeleteLocalSig
<1>9. cur \in Times
  BY DEF IInv, WriterInv
<1>7. /\ cutLoc' \in [Kinds -> SUBSET Times] /\ cutLoc'["man"] = cutLoc["man"]
      /\ cutLoc'["sig"] = cutLoc["sig"] \ {cur}
  BY <1>9, CutStep, CutTypes
<1>1. FilesOK'
  BY <1>7, RemoveStore DEF IInv, TypeOK, FilesOK, remote
<1>2. RunOK'
  BY RunFrame DEF IInv, TypeOK, RunOK
<1>3. HistoryOK'
  BY HistoryFrame DEF IInv, TypeOK
<1>4. VolumesInv'
  BY VolumesFrame DEF IInv, remote
<1>5. WriterInv'
  BY DEF IInv, WriterInv, writer, remote
<1>6. CacheInv'
  BY <1>7 DEF IInv, CacheInv, Remove, remote, writer
<1> QED BY <1>1, <1>2, <1>3, <1>4, <1>5, <1>6 DEF IInv, TypeOK

LEMMA DeleteLocalManInv == IInv /\ DeleteLocalMan => IInv'
<1> SUFFICES ASSUME IInv, DeleteLocalMan PROVE IInv'
  OBVIOUS
<1> USE DEF DeleteLocalMan
<1>8. cur \in Times /\ cur \notin DOMAIN remMan /\ cur \notin cutRem["man"]
  BY DEF IInv, WriterInv
<1>9. /\ cutLoc' \in [Kinds -> SUBSET Times] /\ cutLoc'["sig"] = cutLoc["sig"]
      /\ cutLoc'["man"] = cutLoc["man"] \ {cur}
  BY <1>8, CutStep, CutTypes
<1>1. DOMAIN manPart' = DOMAIN manPart \ {cur} /\ \A t \in DOMAIN manPart' : manPart'[t] = manPart[t]
  BY DEF Remove
<1>2. FilesOK'
  BY <1>9 DEF IInv, TypeOK, FilesOK, remote, IsManifests, Remove
<1>3. RunOK'
  BY RunFrame DEF IInv, TypeOK, RunOK
<1>4. HistoryOK'
  BY HistoryFrame DEF IInv, TypeOK
<1>5. VolumesInv'
  BY <1>1, <1>8 DEF IInv, VolumesInv, Sound, Matches, Whole, remote
<1>6. WriterInv'
  BY DEF IInv, WriterInv, writer, remote
<1>7. CacheInv'
  BY <1>1, <1>8, <1>9 DEF IInv, CacheInv, WriterInv, Remove, remote, writer
<1> QED BY <1>2, <1>3, <1>4, <1>5, <1>6, <1>7 DEF IInv, TypeOK

-----------------------------------------------------------------------------
(* A restart. *)

LEMMA VolumesCounted ==
  ASSUME NEW n \in Nat
  PROVE  Cardinality(1..n) = n
<1>1. Cardinality(1..n) = IF 1 > n THEN 0 ELSE n - 1 + 1
  BY FS_Interval
<1> QED BY <1>1

\* A restart keeps the volumes but the last, all of which the partial manifest
\* lists with the content they have on the remote.
LEMMA ResumeInv == IInv /\ Resume => IInv'
<1> SUFFICES ASSUME IInv, Resume PROVE IInv'
  OBVIOUS
<1> DEFINE kept == Keep(manPart[cur], 1..StartVol(cur))
           last == kept[StartVol(cur)].last
           rest == PathsAfter(last)
<1>1. /\ pc = "check" /\ ~Hopeless(cur)
      /\ mf' = kept /\ todo' = rest /\ vol' = StartVol(cur) /\ pc' = "volume"
      /\ prev' \in IF last \in todo THEN {last}
                   ELSE IF rest # {} THEN {p \in rest : \A q \in rest : p <= q}
                   ELSE {End(todo)}
      /\ UNCHANGED <<source, remote, local, base, clock, command, cur, kind,
                     restarted, newSig, atEnd, frayed, verdict, bounds, wanted>>
  BY DEF Resume
<1>2. /\ cur \in Times /\ cur \in DOMAIN manPart /\ cur \notin DOMAIN remMan /\ cur <= clock
      /\ cur \notin cutRem["man"]
  BY <1>1 DEF IInv, WriterInv
<1>3. PICK n \in 0..MaxVol : DOMAIN remVol[cur] = 1..n
  BY <1>2 DEF IInv, VolumesInv
<1>4. n \in Nat /\ n > 1 /\ StartVol(cur) = n - 1
  <2>1. n \in Nat
    BY SizesAssumption
  <2>2. Cardinality(DOMAIN remVol[cur]) = n
    BY <1>3, <2>1, VolumesCounted
  <2>3. StartVol(cur) # 0
    BY <1>1 DEF Hopeless
  <2> QED BY <2>1, <2>2, <2>3 DEF StartVol
<1>5. \A k \in 1..(n - 1) : Matches(manPart[cur], cur, k)
  <2> SUFFICES ASSUME NEW k \in 1..(n - 1) PROVE Matches(manPart[cur], cur, k)
    OBVIOUS
  <2>1. k + 1 \in 1..n /\ k \in Volumes
    BY <1>4, SizesAssumption DEF Volumes
  <2> QED BY <1>2, <1>3, <2>1 DEF IInv, VolumesInv
<1>6. DOMAIN kept = 1..(n - 1) /\ \A k \in 1..(n - 1) : kept[k] = manPart[cur][k]
  BY <1>4, <1>5 DEF Keep, Matches
<1>7. IsManifest(kept)
  BY <1>2, KeepStore DEF IInv, TypeOK, FilesOK, IsManifests, IsManifest
<1> HIDE DEF kept
<1>8. FilesOK'
  BY <1>1, FilesFrame DEF IInv, TypeOK
<1>9. RunOK'
  <2>1. vol' \in 0..MaxVol
    BY <1>1, <1>4, SizesAssumption
  <2>2. todo \subseteq Paths /\ rest \subseteq Paths
    BY DEF IInv, TypeOK, RunOK, PathsAfter
  <2>3. prev' \in 0..NumPaths
    <3>1. End(todo) \in 0..NumPaths
      BY <2>2, SizesAssumption, EndIsGreatest DEF Paths
    <3>2. \A p \in Paths : p \in 0..NumPaths
      BY SizesAssumption DEF Paths
    <3> HIDE DEF rest, last
    <3> QED BY <1>1, <2>2, <3>1, <3>2
  <2>4. pc' \in Steps \cup {"idle"}
    BY <1>1 DEF Steps
  <2>5. restarted' \in BOOLEAN /\ atEnd' \in BOOLEAN /\ frayed' \in BOOLEAN
    BY <1>1 DEF IInv, TypeOK, RunOK
  <2> HIDE DEF rest
  <2> QED BY <1>1, <1>7, <2>1, <2>2, <2>3, <2>4, <2>5 DEF IInv, TypeOK, RunOK
<1>10. HistoryOK'
  BY <1>1, HistoryFrame DEF IInv, TypeOK
<1>11. VolumesInv'
  BY <1>1, VolumesFrame DEF IInv, remote, local
<1>12. WriterInv'
  <2>1. DOMAIN mf' = 1..vol' /\ DOMAIN remVol'[cur'] \subseteq 1..(vol' + 1)
    <3>1. (n - 1) + 1 = n
      BY <1>4
    <3> QED BY <1>1, <1>3, <1>4, <1>6, <3>1 DEF remote
  <2>2. \A k \in 1..vol' : Matches(mf, cur, k)'
    BY <1>1, <1>4, <1>5, <1>6 DEF Matches, Whole, remote
  <2>3. \A k \in 1..vol' : k \in DOMAIN manPart'[cur'] /\ manPart'[cur'][k] = mf'[k]
    BY <1>1, <1>4, <1>5, <1>6 DEF Matches, local
  <2>4. cur \in sigPart
    BY DEF Resume, IInv, WriterInv
  <2> QED BY <1>1, <1>2, <2>1, <2>2, <2>3, <2>4
      DEF WriterInv, remote, local
<1>13. CacheInv'
  BY <1>1, CacheFrame DEF IInv
<1> QED BY <1>8, <1>9, <1>10, <1>11, <1>12, <1>13 DEF IInv, TypeOK

-----------------------------------------------------------------------------
(* Writing the volumes. *)

\* The volume that is made is the next of the manifest object.
LEMMA MakeVolumeInv == IInv /\ MakeVolume => IInv'
<1> SUFFICES ASSUME IInv, MakeVolume PROVE IInv'
  OBVIOUS
<1> DEFINE vi == [last |-> prev', data |-> [p \in NextBlocks |-> source[p]]]
<1>1. /\ pc = "volume" /\ vol < MaxVol /\ vol' = vol + 1
      /\ prev' \in IF NextBlocks = {} THEN {prev} ELSE {End(NextBlocks)}
      /\ mf' = AddVolumeInfo(mf, vol + 1, vi)
      /\ todo' = todo \ NextBlocks /\ atEnd' \in BOOLEAN
      /\ pc' = IF vol' = 1 THEN "sigpart" ELSE "flush"
      /\ UNCHANGED <<source, remote, local, base, clock, command, cur, kind,
                     restarted, newSig, frayed, verdict, bounds, wanted>>
  BY DEF MakeVolume
<1>2. vol \in Nat /\ vol + 1 \in 1..MaxVol
  BY <1>1, SizesAssumption DEF IInv, TypeOK, RunOK
<1>3. NextBlocks \subseteq todo /\ todo \subseteq Paths
  BY DEF NextBlocks, IInv, TypeOK, RunOK
<1>4. prev' \in 0..NumPaths
  <2>1. End(NextBlocks) \in 0..NumPaths
    BY <1>3, SizesAssumption, EndIsGreatest DEF Paths
  <2> QED BY <1>1, <2>1 DEF IInv, TypeOK, RunOK
<1>5. vi \in VolumeInfo
  <2>1. [p \in NextBlocks |-> source[p]] \in [NextBlocks -> Versions]
    BY <1>3 DEF IInv, TypeOK, FilesOK
  <2>2. [p \in NextBlocks |-> source[p]] \in Data
    BY <1>3, <2>1 DEF Data, Store
  <2> QED BY <1>4, <2>2 DEF VolumeInfo
<1> HIDE DEF vi
<1>6. IsManifest(mf')
  <2>1. IsStore(Keep(mf, 1..(vol + 1) - 1), Volumes, VolumeInfo)
    BY KeepStore DEF IInv, TypeOK, RunOK, IsManifest
  <2> QED BY <1>1, <1>2, <1>5, <2>1, WriteStore DEF AddVolumeInfo, IsManifest, Volumes
<1>7. DOMAIN mf' = 1..vol' /\ \A k \in 1..vol : k \in 1..vol' /\ mf'[k] = mf[k]
  <2>1. DOMAIN mf = 1..vol
    BY <1>1 DEF IInv, WriterInv
  <2>2. (vol + 1) - 1 = vol /\ 1..(vol + 1) = (1..vol) \cup {vol + 1} /\ vol + 1 \notin 1..vol
    BY <1>2
  <2> QED BY <1>1, <2>1, <2>2 DEF AddVolumeInfo, Write, Keep
<1>8. FilesOK'
  BY <1>1, FilesFrame DEF IInv, TypeOK
<1>9. RunOK'
  <2>1. vol' \in 0..MaxVol /\ todo' \subseteq Paths
    BY <1>1, <1>2, <1>3, SizesAssumption
  <2>2. pc' \in Steps \cup {"idle"}
    BY <1>1 DEF Steps
  <2>3. restarted' \in BOOLEAN /\ atEnd' \in BOOLEAN /\ frayed' \in BOOLEAN
    BY <1>1 DEF IInv, TypeOK, RunOK
  <2> QED BY <1>1, <1>4, <1>6, <2>1, <2>2, <2>3 DEF IInv, TypeOK, RunOK
<1>10. HistoryOK'
  BY <1>1, HistoryFrame DEF IInv, TypeOK
<1>11. VolumesInv'
  BY <1>1, VolumesFrame DEF IInv, remote, local
<1>12. WriterInv'
  <2>1. cur \in Times /\ cur \notin DOMAIN remMan /\ cur \notin cutRem["man"] /\ cur <= clock
    BY <1>1 DEF IInv, WriterInv
  <2>2. DOMAIN remVol[cur] \subseteq 1..(vol + 1) /\ \A k \in 1..vol : Matches(mf, cur, k)
    BY <1>1 DEF IInv, WriterInv
  <2>3. vol > 0 => /\ cur \in DOMAIN manPart /\ cur \in sigPart
                   /\ \A k \in 1..vol : k \in DOMAIN manPart[cur] /\ manPart[cur][k] = mf[k]
    BY <1>1 DEF IInv, WriterInv
  <2>4. vol' - 1 = vol /\ vol' > 0 /\ (vol' # 1 => vol > 0)
    BY <1>1, <1>2
  <2>5. \A k \in 1..(vol' - 1) : Matches(mf, cur, k)'
    BY <1>1, <1>7, <2>2, <2>4 DEF Matches, Whole, remote
  <2>6. CASE vol' = 1
    BY <1>1, <1>7, <2>1, <2>2, <2>4, <2>5, <2>6
       DEF WriterInv, remote, local
  <2>7. CASE vol' # 1
    BY <1>1, <1>7, <2>1, <2>2, <2>3, <2>4, <2>5, <2>7
       DEF WriterInv, remote, local
  <2> QED BY <2>6, <2>7
<1>13. CacheInv'
  BY <1>1, CacheFrame DEF IInv
<1> QED BY <1>8, <1>9, <1>10, <1>11, <1>12, <1>13 DEF IInv, TypeOK

LEMMA SigToPartialInv == IInv /\ SigToPartial => IInv'
<1> SUFFICES ASSUME IInv, SigToPartial PROVE IInv'
  OBVIOUS
<1> USE DEF SigToPartial
<1>1. cur \in Times
  BY DEF IInv, WriterInv
<1>2. FilesOK'
  BY <1>1 DEF IInv, TypeOK, FilesOK, remote
<1>3. RunOK'
  BY RunFrame DEF IInv, TypeOK, Steps
<1>4. HistoryOK'
  BY HistoryFrame DEF IInv, TypeOK
<1>5. VolumesInv'
  BY VolumesFrame DEF IInv, remote
<1>6. WriterInv'
  BY DEF IInv, WriterInv, Matches, Whole, remote, writer
<1>7. CacheInv'
  BY DEF IInv, CacheInv, remote
<1> QED BY <1>2, <1>3, <1>4, <1>5, <1>6, <1>7 DEF IInv, TypeOK

LEMMA ManToPartialInv == IInv /\ ManToPartial => IInv'
<1> SUFFICES ASSUME IInv, ManToPartial PROVE IInv'
  OBVIOUS
<1> USE DEF ManToPartial
<1>1. /\ cur \in Times /\ cur \notin DOMAIN remMan /\ cur <= clock /\ vol = 1
      /\ DOMAIN remVol[cur] \subseteq 1..1 /\ DOMAIN mf = 1..vol /\ cur \in sigPart
  BY DEF IInv, WriterInv
<1>2. /\ DOMAIN manPart' = DOMAIN manPart \cup {cur} /\ manPart'[cur] = EmptyStore
      /\ \A t \in DOMAIN manPart \ {cur} : manPart'[t] = manPart[t]
      /\ manPart' = [t \in DOMAIN manPart' |-> manPart'[t]]
  BY DEF Write
<1>3. FilesOK'
  <2>1. IsManifest(EmptyStore)
    BY EmptyIsStore DEF IsManifest
  <2>2. IsManifests(manPart')
    BY <1>1, <1>2, <2>1 DEF IInv, TypeOK, FilesOK, IsManifests
  <2> QED BY <2>2 DEF IInv, TypeOK, FilesOK, remote
<1>4. RunOK'
  BY RunFrame DEF IInv, TypeOK, Steps
<1>5. HistoryOK'
  BY HistoryFrame DEF IInv, TypeOK
<1>6. VolumesInv'
  <2>1. \A k \in Volumes : k + 1 \notin DOMAIN remVol[cur]
    BY <1>1, SizesAssumption DEF Volumes
  <2>3. \A t \in DOMAIN manPart' \ {cur} : t \in DOMAIN manPart /\ manPart'[t] = manPart[t]
    BY <1>2
  <2> QED BY <1>1, <1>2, <2>1, <2>3 DEF IInv, VolumesInv, Sound, Matches, Whole, remote
<1>7. WriterInv'
  <2>1. \A k \in 1..(vol - 1) : FALSE
    BY <1>1
  <2> QED BY <1>1, <1>2, <2>1
      DEF IInv, WriterInv, Matches, Whole, remote, writer
<1>8. CacheInv'
  BY <1>2 DEF IInv, CacheInv, remote
<1> QED BY <1>3, <1>4, <1>5, <1>6, <1>7, <1>8 DEF IInv, TypeOK

\* What is flushed makes the partial manifest the manifest object.
LEMMA FlushManifestInv == IInv /\ FlushManifest => IInv'
<1> SUFFICES ASSUME IInv, FlushManifest PROVE IInv'
  OBVIOUS
<1> USE DEF FlushManifest
<1>1. /\ cur \in Times /\ cur \notin DOMAIN remMan /\ cur <= clock /\ vol > 0
      /\ cur \notin cutRem["man"]
      /\ cur \in DOMAIN manPart /\ cur \in sigPart /\ DOMAIN mf = 1..vol
      /\ DOMAIN remVol[cur] \subseteq 1..vol
  BY DEF IInv, WriterInv
<1>2. /\ \A k \in 1..(vol - 1) : Matches(mf, cur, k)
      /\ \A k \in 1..(vol - 1) : k \in DOMAIN manPart[cur] /\ manPart[cur][k] = mf[k]
  BY DEF IInv, WriterInv
<1>3. vol \in Nat /\ vol \in 1..vol /\ 1..vol = (1..(vol - 1)) \cup {vol}
  BY <1>1, SizesAssumption DEF IInv, TypeOK, RunOK
<1>4. manPart'[cur] = mf
  <2>1. manPart'[cur] = Write(Keep(manPart[cur], 1..vol-1), vol, mf[vol])
    BY <1>1 DEF AddVolumeInfo, IInv, TypeOK, FilesOK, IsManifests
  <2>2. DOMAIN Keep(manPart[cur], 1..vol-1) = 1..(vol - 1)
    BY <1>2 DEF Keep
  <2>3. DOMAIN manPart'[cur] = 1..vol
    BY <1>3, <2>1, <2>2 DEF Write
  <2>4. \A k \in 1..vol : manPart'[cur][k] = mf[k]
    <3>1. \A k \in 1..(vol - 1) : Keep(manPart[cur], 1..vol-1)[k] = mf[k]
      BY <1>2 DEF Keep
    <3>2. vol \notin 1..(vol - 1)
      BY <1>3
    <3> QED BY <1>3, <2>1, <2>2, <3>1, <3>2 DEF Write
  <2>5. manPart'[cur] = [k \in 1..vol |-> mf[k]]
    BY <2>1, <2>3, <2>4 DEF Write
  <2>6. mf = [k \in 1..vol |-> mf[k]]
    BY <1>1 DEF IInv, TypeOK, RunOK, IsManifest, IsStore
  <2> QED BY <2>5, <2>6
<1>5. /\ DOMAIN manPart' = DOMAIN manPart
      /\ \A t \in DOMAIN manPart \ {cur} : manPart'[t] = manPart[t]
      /\ manPart' = [t \in DOMAIN manPart' |-> manPart'[t]]
  BY DEF IInv, TypeOK, FilesOK, IsManifests
<1>6. FilesOK'
  <2>1. IsManifest(mf)
    BY DEF IInv, TypeOK, RunOK
  <2>2. IsManifests(manPart')
    BY <1>4, <1>5, <2>1 DEF IInv, TypeOK, FilesOK, IsManifests
  <2> QED BY <2>2 DEF IInv, TypeOK, FilesOK, remote
<1>7. RunOK'
  BY RunFrame DEF IInv, TypeOK, Steps
<1>8. HistoryOK'
  BY HistoryFrame DEF IInv, TypeOK
<1>9. VolumesInv'
  <2>1. ASSUME NEW k \in Volumes, k + 1 \in DOMAIN remVol[cur]
        PROVE  Matches(mf, cur, k)
    <3>1. k \in 1..(vol - 1)
      BY <1>1, <1>3, <2>1, SizesAssumption DEF Volumes
    <3> QED BY <1>2, <3>1
  <2>2. \A t \in DOMAIN manPart' : \A k \in Volumes :
          k + 1 \in DOMAIN remVol[t] => Matches(manPart'[t], t, k)
    BY <1>4, <1>5, <2>1 DEF IInv, VolumesInv
  <2> QED BY <1>5, <2>2 DEF IInv, VolumesInv, Sound, Matches, Whole, remote
<1>10. WriterInv'
  BY <1>1, <1>2, <1>4, <1>5
     DEF WriterInv, Matches, Whole, remote, writer
<1>11. CacheInv'
  BY <1>5 DEF IInv, CacheInv, remote
<1> QED BY <1>6, <1>7, <1>8, <1>9, <1>10, <1>11 DEF IInv, TypeOK

\* Volume vol of the set appears on the remote, or changes there.
LEMMA UploadInv ==
  ASSUME IInv, pc \in {"upload", "uploading"}, NEW file \in VolumeFile,
         remVol' = [remVol EXCEPT ![cur] = Write(@, vol, file)],
         UNCHANGED <<source, remSig, remMan, cutRem, local, clock, cur, vol, mf>>
  PROVE  /\ FilesOK' /\ VolumesInv'
         /\ DOMAIN remVol'[cur] = 1..vol /\ remVol'[cur][vol] = file
         /\ \A k \in 1..(vol - 1) : Matches(mf, cur, k)'
<1>1. /\ cur \in Times /\ cur \notin DOMAIN remMan /\ cur <= clock /\ vol > 0
      /\ cur \in DOMAIN manPart /\ DOMAIN mf = 1..vol
      /\ DOMAIN remVol[cur] \subseteq 1..vol /\ manPart[cur] = mf
      /\ \A k \in 1..(vol - 1) : Matches(mf, cur, k)
  BY DEF IInv, WriterInv
<1>2. vol \in 1..MaxVol /\ 1..vol = (1..(vol - 1)) \cup {vol} /\ vol \notin 1..(vol - 1)
  <2>1. vol \in 1..MaxVol
    BY <1>1, SizesAssumption DEF IInv, TypeOK, RunOK
  <2> QED BY <2>1
<1>3. remVol'[cur] = Write(remVol[cur], vol, file) /\ \A t \in Times \ {cur} : remVol'[t] = remVol[t]
  BY <1>1 DEF IInv, TypeOK, FilesOK
<1>4. DOMAIN remVol'[cur] = 1..vol
  <2>1. 1..(vol - 1) \subseteq DOMAIN remVol[cur]
    BY <1>1 DEF Matches
  <2> QED BY <1>1, <1>2, <1>3, <2>1 DEF Write
<1>5. remVol'[cur][vol] = file /\ \A k \in 1..(vol - 1) : remVol'[cur][k] = remVol[cur][k]
  <2>1. \A k \in 1..(vol - 1) : k \in DOMAIN remVol[cur]
    BY <1>1 DEF Matches
  <2> QED BY <1>2, <1>3, <2>1 DEF Write
<1>6. \A k \in 1..(vol - 1) : Matches(mf, cur, k)'
  BY <1>1, <1>2, <1>4, <1>5 DEF Matches, Whole
<1>7. FilesOK'
  <2>1. IsStore(remVol'[cur], Volumes, VolumeFile)
    BY <1>1, <1>2, <1>3, WriteStore DEF IInv, TypeOK, FilesOK, Volumes
  <2>2. \A t \in Times : IsStore(remVol'[t], Volumes, VolumeFile)
    BY <1>3, <2>1 DEF IInv, TypeOK, FilesOK
  <2>3. remVol' = [t \in Times |-> remVol'[t]]
    BY DEF IInv, TypeOK, FilesOK
  <2> QED BY <2>2, <2>3 DEF IInv, TypeOK, FilesOK, local
<1>8. VolumesInv'
  <2>1. \A t \in Times : \E n \in 0..MaxVol : DOMAIN remVol'[t] = 1..n
    <3>1. vol \in 0..MaxVol
      BY <1>2
    <3> QED BY <1>3, <1>4, <3>1 DEF IInv, VolumesInv
  <2>3. \A k \in Volumes : k + 1 \in DOMAIN remVol'[cur] => Matches(mf, cur, k)'
    <3>1. \A k \in Volumes : k + 1 \in 1..vol => k \in 1..(vol - 1)
      BY <1>2, SizesAssumption DEF Volumes
    <3> QED BY <1>4, <1>6, <3>1
  <2>4. \A t \in DOMAIN manPart : \A k \in Volumes :
          k + 1 \in DOMAIN remVol'[t] => Matches(manPart[t], t, k)'
    <3> SUFFICES ASSUME NEW t \in DOMAIN manPart, NEW k \in Volumes, k + 1 \in DOMAIN remVol'[t]
                 PROVE  Matches(manPart[t], t, k)'
      BY DEF local
    <3>1. CASE t = cur
      BY <1>1, <2>3, <3>1 DEF Matches, Whole, local
    <3>2. CASE t # cur
      <4>1. t \in Times
        BY DEF IInv, TypeOK, FilesOK, IsManifests
      <4> QED BY <1>3, <3>2, <4>1 DEF IInv, VolumesInv, Matches, Whole, local
    <3> QED BY <3>1, <3>2
  <2>5. \A t \in DOMAIN remMan : remVol'[t] = remVol[t]
    BY <1>1, <1>3 DEF IInv, TypeOK, FilesOK, IsManifests
  <2>6. \A t \in DOMAIN remMan : Sound(remMan[t], t)'
    BY <2>5 DEF IInv, VolumesInv, Sound, Matches, Whole
  <2>7. \A t \in Times : clock < t => t # cur
    BY <1>1 DEF IInv, TypeOK, HistoryOK, Times
  <2> QED BY <1>3, <2>1, <2>4, <2>6, <2>7 DEF IInv, VolumesInv, local
<1> QED BY <1>4, <1>5, <1>6, <1>7, <1>8

LEMMA UploadStartsInv == IInv /\ UploadStarts => IInv'
<1> SUFFICES ASSUME IInv, UploadStarts PROVE IInv'
  OBVIOUS
<1> USE DEF UploadStarts
<1>1. [torn |-> TRUE, data |-> EmptyStore] \in VolumeFile
  <2>1. EmptyStore \in Data
    BY DEF Data, Store, EmptyStore
  <2> QED BY <2>1 DEF VolumeFile
<1>2. /\ FilesOK' /\ VolumesInv' /\ DOMAIN remVol'[cur] = 1..vol
      /\ \A k \in 1..(vol - 1) : Matches(mf, cur, k)'
  BY <1>1, UploadInv DEF writer
<1>3. RunOK'
  BY RunFrame DEF IInv, TypeOK, Steps
<1>4. HistoryOK'
  BY HistoryFrame DEF IInv, TypeOK
<1>5. WriterInv'
  BY <1>2 DEF IInv, WriterInv, local, writer
<1>6. CacheInv'
  BY DEF IInv, CacheInv, local
<1> QED BY <1>2, <1>3, <1>4, <1>5, <1>6 DEF IInv, TypeOK

\* After the last volume the partial manifest lists all of them.
LEMMA UploadEndsInv == IInv /\ UploadEnds => IInv'
<1> SUFFICES ASSUME IInv, UploadEnds PROVE IInv'
  OBVIOUS
<1> USE DEF UploadEnds
<1>1. /\ vol \in 1..vol /\ DOMAIN mf = 1..vol /\ vol > 0 /\ vol \in Nat
      /\ cur \in DOMAIN manPart /\ manPart[cur] = mf /\ cur \in sigPart
      /\ 1..vol = (1..(vol - 1)) \cup {vol}
  <2>1. /\ DOMAIN mf = 1..vol /\ vol > 0 /\ cur \in DOMAIN manPart
        /\ manPart[cur] = mf /\ cur \in sigPart
    BY DEF IInv, WriterInv
  <2>2. vol \in Nat
    BY SizesAssumption DEF IInv, TypeOK, RunOK
  <2> QED BY <2>1, <2>2
<1>2. Whole(mf[vol]) \in VolumeFile
  BY <1>1 DEF IInv, TypeOK, RunOK, IsManifest, IsStore, VolumeInfo, VolumeFile, Whole
<1>3. /\ FilesOK' /\ VolumesInv' /\ DOMAIN remVol'[cur] = 1..vol
      /\ remVol'[cur][vol] = Whole(mf[vol])
      /\ \A k \in 1..(vol - 1) : Matches(mf, cur, k)'
  <2>1. remVol' = [remVol EXCEPT ![cur] = Write(@, vol, Whole(mf[vol]))]
    BY DEF Whole
  <2> QED BY <1>2, <2>1, UploadInv DEF writer
<1>4. \A k \in 1..vol : Matches(mf, cur, k)'
  <2>1. Matches(mf, cur, vol)'
    BY <1>1, <1>3 DEF Matches, Whole, writer
  <2>2. \A k \in 1..vol : k = vol \/ k \in 1..(vol - 1)
    BY <1>1
  <2> QED BY <1>3, <2>1, <2>2 DEF Matches, writer
<1>5. RunOK'
  <2>1. pc' \in Steps \cup {"idle"}
    BY DEF Steps
  <2> QED BY <2>1, RunFrame DEF IInv, TypeOK
<1>6. HistoryOK'
  BY HistoryFrame DEF IInv, TypeOK
<1>7. WriterInv'
  <2>1. CASE pc' = "volume"
    <3>1. 1..vol \subseteq 1..(vol + 1)
      BY <1>1
    <3> QED BY <1>1, <1>3, <1>4, <2>1, <3>1
        DEF IInv, WriterInv, local, writer
  <2>2. CASE pc' = "sigcopy"
    <3>1. \A k \in 1..vol : 1..k \subseteq 1..vol
      BY <1>1
    <3>2. Sound(manPart[cur], cur)'
      BY <1>1, <1>3, <1>4, <3>1 DEF Sound, Matches, Whole, local, writer
    <3> QED BY <1>1, <1>3, <2>2, <3>2
        DEF IInv, WriterInv, local, writer
  <2> QED BY <2>1, <2>2
<1>8. CacheInv'
  BY DEF IInv, CacheInv, local
<1> QED BY <1>3, <1>5, <1>6, <1>7, <1>8 DEF IInv, TypeOK

-----------------------------------------------------------------------------
(* Sending the signature and the manifest. *)

\* What every step with Goto leaves alone.
LEMMA GotoFrame ==
  ASSUME IInv, NEW step \in Steps, Goto(step)
  PROVE  RunOK' /\ HistoryOK'
<1>1. RunOK'
  BY RunFrame DEF Goto, IInv, TypeOK
<1>2. HistoryOK'
  BY HistoryFrame DEF Goto, IInv, TypeOK
<1> QED BY <1>1, <1>2

\* The steps that handle the signature file.
LEMMA SignatureStep ==
  ASSUME IInv, NEW step, Goto(step),
         \/ pc = "sigcopy" /\ step = "sigcopying"
         \/ pc = "sigcopying" /\ step = "sigmove"
         \/ pc = "sigmove" /\ step = "sigmoving"
         \/ pc = "sigmoving" /\ step = "sigdelete"
         \/ pc = "sigdelete" /\ step = "sigfinal"
         \/ pc = "sigfinal" /\ step = "sigwriting"
         \/ pc = "sigwriting" /\ step = "sigunlink"
         \/ pc = "sigunlink" /\ step = "mancopy",
         UNCHANGED <<remMan, locMan, manPart>>, cutRem'["man"] = cutRem["man"],
         sigPart' = sigPart \/ step = "mancopy",
         FilesOK', CacheInv'
  PROVE  IInv'
<1>1. step \in Steps
  BY DEF Steps
<1>2. RunOK' /\ HistoryOK'
  BY <1>1, GotoFrame
<1>3. VolumesInv'
  BY DEF Goto, IInv, VolumesInv, Sound, Matches, Whole
<1>4. WriterInv'
  BY DEF Goto, IInv, WriterInv, Sound, Matches, Whole, writer
<1> QED BY <1>2, <1>3, <1>4 DEF IInv, TypeOK

\* A local signature is begun: what was there under its name is gone.
LEMMA SigStartsInv == IInv /\ (SigCopyStarts \/ SigFinalStarts) => IInv'
<1> SUFFICES ASSUME IInv, SigCopyStarts \/ SigFinalStarts PROVE IInv'
  OBVIOUS
<1> USE DEF SigCopyStarts, SigFinalStarts
<1>1. cur \in Times /\ cur \in sigPart
  BY DEF IInv, WriterInv
<1>2. /\ cutLoc' \in [Kinds -> SUBSET Times] /\ cutLoc'["man"] = cutLoc["man"]
      /\ cutRem' = cutRem
  BY <1>1, CutStep, CutTypes
<1>3. FilesOK'
  BY <1>1, <1>2, RemoveStore DEF Goto, IInv, TypeOK, FilesOK
<1>4. CacheInv'
  BY <1>1, <1>2 DEF Goto, IInv, CacheInv, Remove, writer
<1> QED BY <1>2, <1>3, <1>4, SignatureStep

\* A local signature is whole.
LEMMA SigEndsInv == IInv /\ (SigCopyEnds \/ SigFinalEnds) => IInv'
<1> SUFFICES ASSUME IInv, SigCopyEnds \/ SigFinalEnds PROVE IInv'
  OBVIOUS
<1> USE DEF SigCopyEnds, SigFinalEnds
<1>1. cur \in Times /\ newSig \in Data /\ cur \in sigPart
  BY DEF IInv, WriterInv, TypeOK, RunOK
<1>2. /\ cutLoc' \in [Kinds -> SUBSET Times] /\ cutLoc'["man"] = cutLoc["man"]
      /\ cutRem' = cutRem
  BY <1>1, CutStep, CutTypes
<1>3. FilesOK'
  BY <1>1, <1>2, WriteStore DEF Goto, IInv, TypeOK, FilesOK
<1>4. CacheInv'
  BY <1>1, <1>2 DEF Goto, IInv, CacheInv, Write, writer
<1> QED BY <1>2, <1>3, <1>4, SignatureStep

\* While the signature is cut off on the remote, its .part file is there.
LEMMA SigPutStartsInv == IInv /\ SigPutStarts => IInv'
<1> SUFFICES ASSUME IInv, SigPutStarts PROVE IInv'
  OBVIOUS
<1> USE DEF SigPutStarts
<1>1. cur \in Times /\ cur \in sigPart
  BY DEF IInv, WriterInv
<1>2. /\ cutRem' \in [Kinds -> SUBSET Times] /\ cutRem'["man"] = cutRem["man"]
      /\ cutRem'["sig"] = cutRem["sig"] \cup {cur}
  BY <1>1, CutStep, CutTypes
<1>3. FilesOK'
  BY <1>1, <1>2, RemoveStore DEF Goto, IInv, TypeOK, FilesOK
<1>4. CacheInv'
  BY <1>1, <1>2 DEF Goto, IInv, CacheInv, Remove, writer
<1> QED BY <1>2, <1>3, <1>4, SignatureStep

LEMMA SigPutEndsInv == IInv /\ SigPutEnds => IInv'
<1> SUFFICES ASSUME IInv, SigPutEnds PROVE IInv'
  OBVIOUS
<1> USE DEF SigPutEnds
<1>1. /\ cur \in Times /\ newSig \in Data
      /\ locSig[cur] = newSig
  BY DEF IInv, WriterInv, CacheInv, TypeOK, RunOK
<1>2. /\ cutRem' \in [Kinds -> SUBSET Times] /\ cutRem'["man"] = cutRem["man"]
      /\ cutRem'["sig"] = cutRem["sig"] \ {cur}
  BY <1>1, CutStep, CutTypes
<1>3. FilesOK'
  BY <1>1, <1>2, WriteStore DEF Goto, IInv, TypeOK, FilesOK
<1>4. CacheInv'
  BY <1>1, <1>2 DEF Goto, IInv, CacheInv, Write, writer
<1> QED BY <1>2, <1>3, <1>4, SignatureStep

LEMMA SigDeleteInv == IInv /\ SigDelete => IInv'
<1> SUFFICES ASSUME IInv, SigDelete PROVE IInv'
  OBVIOUS
<1> USE DEF SigDelete
<1>1. FilesOK'
  BY RemoveStore DEF Goto, IInv, TypeOK, FilesOK
<1>2. CacheInv'
  BY DEF Goto, IInv, CacheInv, Remove, writer
<1> QED BY <1>1, <1>2, SignatureStep

\* The .part signature goes when the final one is the one of the remote.
LEMMA SigUnlinkInv == IInv /\ SigUnlink => IInv'
<1> SUFFICES ASSUME IInv, SigUnlink PROVE IInv'
  OBVIOUS
<1> USE DEF SigUnlink
<1>1. remSig[cur] = newSig /\ locSig[cur] = newSig /\ cur \notin cutRem["sig"]
  BY DEF IInv, CacheInv
<1>2. FilesOK'
  BY DEF Goto, IInv, TypeOK, FilesOK
<1>3. CacheInv'
  BY <1>1 DEF Goto, IInv, CacheInv, writer
<1> QED BY <1>2, <1>3, SignatureStep

LEMMA ManCopyStartsInv == IInv /\ ManCopyStarts => IInv'
<1> SUFFICES ASSUME IInv, ManCopyStarts PROVE IInv'
  OBVIOUS
<1> USE DEF ManCopyStarts
<1>1. cur \in Times /\ cur \in DOMAIN manPart
  BY DEF IInv, WriterInv
<1>2. /\ DOMAIN locMan' = DOMAIN locMan \ {cur}
      /\ \A t \in DOMAIN locMan' : locMan'[t] = locMan[t]
      /\ locMan' = [t \in DOMAIN locMan' |-> locMan'[t]]
  BY DEF Remove
<1>3. /\ cutLoc' \in [Kinds -> SUBSET Times] /\ cutLoc'["man"] = cutLoc["man"] \cup {cur}
  BY <1>1, CutStep, CutTypes
<1>4. FilesOK'
  <2>1. IsManifests(locMan')
    BY <1>1, <1>2 DEF IInv, TypeOK, FilesOK, IsManifests
  <2> QED BY <1>3, <2>1 DEF Goto, IInv, TypeOK, FilesOK
<1>5. RunOK' /\ HistoryOK'
  BY GotoFrame DEF Steps
<1>6. VolumesInv'
  BY VolumesFrame DEF Goto, IInv
<1>7. WriterInv'
  BY <1>1, <1>2 DEF Goto, IInv, WriterInv, Sound, Matches, Whole, writer
<1>8. CacheInv'
  BY <1>1, <1>2, <1>3 DEF Goto, IInv, CacheInv, writer
<1> QED BY <1>4, <1>5, <1>6, <1>7, <1>8 DEF IInv, TypeOK

LEMMA ManCopyEndsInv == IInv /\ ManCopyEnds => IInv'
<1> SUFFICES ASSUME IInv, ManCopyEnds PROVE IInv'
  OBVIOUS
<1> USE DEF ManCopyEnds
<1>1. cur \in Times /\ cur \in DOMAIN manPart
  BY DEF IInv, WriterInv
<1>2. /\ DOMAIN locMan' = DOMAIN locMan \cup {cur} /\ locMan'[cur] = manPart[cur]
      /\ \A t \in DOMAIN locMan \ {cur} : locMan'[t] = locMan[t]
      /\ locMan' = [t \in DOMAIN locMan' |-> locMan'[t]]
  BY DEF Write
<1>3. /\ cutLoc' \in [Kinds -> SUBSET Times] /\ cutLoc'["man"] = cutLoc["man"] \ {cur}
  BY <1>1, CutStep, CutTypes
<1>4. FilesOK'
  <2>1. IsManifests(locMan')
    BY <1>1, <1>2 DEF IInv, TypeOK, FilesOK, IsManifests
  <2> QED BY <1>3, <2>1 DEF Goto, IInv, TypeOK, FilesOK
<1>5. RunOK' /\ HistoryOK'
  BY GotoFrame DEF Steps
<1>6. VolumesInv'
  BY VolumesFrame DEF Goto, IInv
<1>7. WriterInv'
  BY <1>1, <1>2 DEF Goto, IInv, WriterInv, Sound, Matches, Whole, writer
<1>8. CacheInv'
  BY <1>1, <1>2, <1>3 DEF Goto, IInv, CacheInv, writer
<1> QED BY <1>4, <1>5, <1>6, <1>7, <1>8 DEF IInv, TypeOK

\* A remote manifest that is cut off has its .part file beside it.
LEMMA ManPutStartsInv == IInv /\ ManPutStarts => IInv'
<1> SUFFICES ASSUME IInv, ManPutStarts PROVE IInv'
  OBVIOUS
<1> USE DEF ManPutStarts
<1>1. cur \in Times /\ cur \in DOMAIN manPart /\ cur \notin DOMAIN remMan
  BY DEF IInv, WriterInv
<1>2. remMan' = remMan
  BY <1>1 DEF Remove, IInv, TypeOK, FilesOK, IsManifests
<1>3. /\ cutRem' \in [Kinds -> SUBSET Times] /\ cutRem'["man"] = cutRem["man"] \cup {cur}
      /\ cutRem'["sig"] = cutRem["sig"]
  BY <1>1, CutStep, CutTypes
<1>4. FilesOK'
  BY <1>2, <1>3 DEF Goto, IInv, TypeOK, FilesOK
<1>5. RunOK' /\ HistoryOK'
  BY GotoFrame DEF Steps
<1>6. VolumesInv'
  BY <1>1, <1>2, <1>3 DEF Goto, IInv, VolumesInv, Sound, Matches, Whole
<1>7. WriterInv'
  BY <1>1, <1>2, <1>3 DEF Goto, IInv, WriterInv, Sound, Matches, Whole, writer
<1>8. CacheInv'
  BY <1>1, <1>2, <1>3 DEF Goto, IInv, CacheInv, writer
<1> QED BY <1>4, <1>5, <1>6, <1>7, <1>8 DEF IInv, TypeOK

\* The remote manifest is whole: the set is complete, and sound.
LEMMA ManPutEndsInv == IInv /\ ManPutEnds => IInv'
<1> SUFFICES ASSUME IInv, ManPutEnds PROVE IInv'
  OBVIOUS
<1> USE DEF ManPutEnds
<1>1. /\ cur \in Times /\ cur \in DOMAIN manPart /\ cur <= clock
      /\ cur \in DOMAIN locMan /\ locMan[cur] = manPart[cur] /\ Sound(manPart[cur], cur)
  BY DEF IInv, WriterInv
<1>2. /\ DOMAIN remMan' = DOMAIN remMan \cup {cur} /\ remMan'[cur] = manPart[cur]
      /\ \A t \in DOMAIN remMan \ {cur} : remMan'[t] = remMan[t]
      /\ remMan' = [t \in DOMAIN remMan' |-> remMan'[t]]
  BY <1>1 DEF Write
<1>3. /\ cutRem' \in [Kinds -> SUBSET Times] /\ cutRem'["man"] = cutRem["man"] \ {cur}
      /\ cutRem'["sig"] = cutRem["sig"]
  BY <1>1, CutStep, CutTypes
<1>4. FilesOK'
  <2>1. IsManifests(remMan')
    BY <1>1, <1>2 DEF IInv, TypeOK, FilesOK, IsManifests
  <2> QED BY <1>3, <2>1 DEF Goto, IInv, TypeOK, FilesOK
<1>5. RunOK' /\ HistoryOK'
  BY GotoFrame DEF Steps
<1>6. VolumesInv'
  <2>1. \A t \in DOMAIN remMan' : Sound(remMan'[t], t)
    BY <1>1, <1>2 DEF IInv, VolumesInv
  <2> QED BY <1>1, <1>2, <1>3, <2>1 DEF Goto, IInv, VolumesInv, Sound, Matches, Whole
<1>7. WriterInv'
  BY <1>1, <1>2, <1>3 DEF Goto, IInv, WriterInv, writer
<1>8. CacheInv'
  BY <1>1, <1>2, <1>3 DEF Goto, IInv, CacheInv, writer
<1> QED BY <1>4, <1>5, <1>6, <1>7, <1>8 DEF IInv, TypeOK

LEMMA ManDeleteInv == IInv /\ ManDelete => IInv'
<1> SUFFICES ASSUME IInv, ManDelete PROVE IInv'
  OBVIOUS
<1> USE DEF ManDelete
<1>1. cur \in Times /\ cur \in DOMAIN manPart
  BY DEF IInv, WriterInv
<1>2. /\ DOMAIN locMan' = DOMAIN locMan \ {cur}
      /\ \A t \in DOMAIN locMan' : locMan'[t] = locMan[t]
      /\ locMan' = [t \in DOMAIN locMan' |-> locMan'[t]]
  BY DEF Remove
<1>3. FilesOK'
  <2>1. IsManifests(locMan')
    BY <1>1, <1>2 DEF IInv, TypeOK, FilesOK, IsManifests
  <2> QED BY <2>1 DEF Goto, IInv, TypeOK, FilesOK
<1>4. RunOK' /\ HistoryOK'
  BY GotoFrame DEF Steps
<1>5. VolumesInv'
  BY VolumesFrame DEF Goto, IInv
<1>6. WriterInv'
  BY <1>1, <1>2 DEF Goto, IInv, WriterInv, Sound, Matches, Whole, writer
<1>7. CacheInv'
  BY <1>1, <1>2 DEF Goto, IInv, CacheInv, writer
<1> QED BY <1>3, <1>4, <1>5, <1>6, <1>7 DEF IInv, TypeOK

LEMMA ManToFinalInv == IInv /\ ManToFinal => IInv'
<1> SUFFICES ASSUME IInv, ManToFinal PROVE IInv'
  OBVIOUS
<1> USE DEF ManToFinal
<1>1. /\ cur \in Times /\ cur \in DOMAIN manPart
      /\ cur \in DOMAIN remMan /\ remMan[cur] = manPart[cur]
      /\ cur \notin cutRem["man"] /\ cur \notin cutLoc["man"]
  BY DEF IInv, WriterInv, CacheInv
<1>2. /\ DOMAIN locMan' = DOMAIN locMan \cup {cur} /\ locMan'[cur] = manPart[cur]
      /\ \A t \in DOMAIN locMan \ {cur} : locMan'[t] = locMan[t]
      /\ locMan' = [t \in DOMAIN locMan' |-> locMan'[t]]
  BY DEF Write
<1>3. /\ DOMAIN manPart' = DOMAIN manPart \ {cur}
      /\ \A t \in DOMAIN manPart' : manPart'[t] = manPart[t]
      /\ manPart' = [t \in DOMAIN manPart' |-> manPart'[t]]
  BY DEF Remove
<1>4. FilesOK'
  <2>1. IsManifests(locMan') /\ IsManifests(manPart')
    BY <1>1, <1>2, <1>3 DEF IInv, TypeOK, FilesOK, IsManifests
  <2> QED BY <2>1 DEF IInv, TypeOK, FilesOK, remote
<1>5. RunOK'
  BY ForgetOK DEF IInv, TypeOK, RunOK
<1>6. HistoryOK'
  BY HistoryFrame DEF IInv, TypeOK
<1>7. VolumesInv'
  BY <1>1, <1>3 DEF IInv, VolumesInv, Sound, Matches, Whole, remote
<1>8. WriterInv'
  BY WriterIdle DEF Forget
<1>9. CacheInv'
  BY <1>1, <1>2, <1>3 DEF IInv, CacheInv, remote
<1> QED BY <1>4, <1>5, <1>6, <1>7, <1>8, <1>9 DEF IInv, TypeOK

-----------------------------------------------------------------------------
(* The theorems. *)

LEMMA ChooseInv == IInv /\ Choose => IInv'
<1> SUFFICES ASSUME IInv, Choose PROVE IInv'
  OBVIOUS
<1>1. CASE CollectAsserts
  BY <1>1, CollectAssertsInv
<1>2. CASE RestartStray
  BY <1>2, RestartStrayInv
<1>3. ASSUME NEW rd \in Readings, RestartFull(rd) PROVE IInv'
  BY <1>3, RestartFullInv
<1>4. ASSUME NEW rd \in Readings, RestartInc(rd) PROVE IInv'
  BY <1>4, RestartIncInv
<1>5. ASSUME NEW rd \in Readings, RestartUnsigned(rd) PROVE IInv'
  BY <1>5, RestartUnsignedInv
<1>6. ASSUME NEW rd \in Readings, NewFull(rd) PROVE IInv'
  BY <1>6, NewFullInv
<1>7. ASSUME NEW rd \in Readings, NewInc(rd) PROVE IInv'
  BY <1>7, NewIncInv
<1>8. ASSUME NEW rd \in Readings, NoOldSignatures(rd) PROVE IInv'
  BY <1>8, StopsInv DEF NoOldSignatures
<1>9. ASSUME NEW rd \in Readings, OutOfTimes(rd) PROVE IInv'
  BY <1>9, StopsInv DEF OutOfTimes
<1> QED BY <1>1, <1>2, <1>3, <1>4, <1>5, <1>6, <1>7, <1>8, <1>9 DEF Choose

LEMMA DeleteInv == IInv /\ Delete => IInv'
<1> SUFFICES ASSUME IInv, Delete PROVE IInv'
  OBVIOUS
<1>1. CASE RunAgain
  BY <1>1, StopsInv DEF RunAgain
<1> QED BY <1>1, DeleteVolumeInv, DeleteLocalSigInv, DeleteLocalManInv DEF Delete

LEMMA SignatureEndsInv == IInv /\ SignatureEnds => IInv'
<1> SUFFICES ASSUME IInv, SignatureEnds PROVE IInv'
  OBVIOUS
<1>1. asserted' \in BOOLEAN /\ refused' \in BOOLEAN /\ crashes' \in 0..MaxCrashes
  BY DEF SignatureEnds, bounds, IInv, TypeOK, HistoryOK
<1>2. unreadable' \in BOOLEAN
  BY DEF SignatureEnds
<1> QED BY <1>1, <1>2, RunEnds DEF SignatureEnds, bounds

LEMMA WriteVolumesInv == IInv /\ WriteVolumes => IInv'
BY SignatureEndsInv, MakeVolumeInv, SigToPartialInv, ManToPartialInv, FlushManifestInv, UploadStartsInv,
   UploadEndsInv DEF WriteVolumes

LEMMA SendSigInv == IInv /\ SendSig => IInv'
BY SigStartsInv, SigEndsInv, SigPutStartsInv, SigPutEndsInv, SigDeleteInv, SigUnlinkInv
   DEF SendSig

LEMMA SendManInv == IInv /\ SendMan => IInv'
BY ManCopyStartsInv, ManCopyEndsInv, ManPutStartsInv, ManPutEndsInv, ManDeleteInv,
   ManToFinalInv DEF SendMan

LEMMA StutterInv == IInv /\ UNCHANGED vars => IInv'
<1> SUFFICES ASSUME IInv, UNCHANGED vars PROVE IInv'
  OBVIOUS
<1> USE DEF vars
<1>1. FilesOK' /\ HistoryOK'
  BY FilesFrame, HistoryFrame DEF IInv, TypeOK
<1>2. RunOK'
  BY RunFrame DEF IInv, TypeOK, RunOK
<1>3. VolumesInv'
  BY VolumesFrame DEF IInv, remote, local
<1>4. WriterInv'
  <2>1. UNCHANGED <<remVol, remMan, cutRem, locMan, sigPart, manPart, base, clock, pc, cur,
                    kind, vol, mf>>
    BY DEF remote, local, writer
  <2> QED BY <2>1 DEF IInv, WriterInv, Sound, Matches, Whole
<1>5. CacheInv'
  BY DEF IInv, CacheInv, RemoteSigs, RemoteNames, remote, local, writer
<1> QED BY <1>1, <1>2, <1>3, <1>4, <1>5 DEF IInv, TypeOK

\* Every step of a run, an edit of the source and a crash keep the invariant.
LEMMA NextInv == IInv /\ [Next]_vars => IInv'
<1> SUFFICES ASSUME IInv, [Next]_vars PROVE IInv'
  OBVIOUS
<1>1. ASSUME NEW p \in Paths, NEW v \in Versions, Edit(p, v) PROVE IInv'
  BY <1>1, EditInv
<1>2. ASSUME NEW c \in Commands, Begin(c) PROVE IInv'
  BY <1>2, BeginInv
<1>3. CASE Check
  BY <1>3, ResumeInv, RefuseInv, StartOverInv DEF Check
<1>4. CASE Run
  BY <1>3, <1>4, SyncInv, ChooseInv, DeleteInv, WriteVolumesInv, SendSigInv,
     SendManInv DEF Run
<1> QED BY <1>1, <1>2, <1>4, CrashInv, StutterInv DEF Next

\* The inductive invariant holds in every state: it survives every step of a run, every
\* restart and deletion, and a crash before any of them.
THEOREM Invariance == Spec => []IInv
<1>1. Init => IInv
  BY InitInv
<1>2. IInv /\ [Next]_vars => IInv'
  BY NextInv
<1> QED BY <1>1, <1>2, PTL DEF Spec

\* The variables keep their types, however the runs are interrupted: volume
\* numbers, manifests and signatures stay within what the code can name.
THEOREM TypeInvariant == Spec => []TypeOK
<1>1. IInv => TypeOK
  BY DEF IInv
<1> QED BY <1>1, Invariance, PTL

\* Every volume a remote manifest lists is on the remote, whole and with the
\* listed content, whatever number of runs died before the set was complete.
THEOREM CompleteSetsAreSound == Spec => []ManifestSound
<1>1. IInv => ManifestSound
  BY DEF IInv, VolumesInv, ManifestSound, Sound, Matches, Whole
<1> QED BY <1>1, Invariance, PTL

\* The choice between a restart and a new set follows a synchronisation.
LEMMA CollectFollowsSync == [Next]_vars /\ pc' = "collect" => Synchronised \/ UNCHANGED vars
<1> SUFFICES ASSUME [Next]_vars, pc' = "collect" PROVE Synchronised \/ UNCHANGED vars
  OBVIOUS
<1>9. CASE Sync
  BY <1>9 DEF Sync, RemoveLocal, FetchStarts, FetchEnds, FetchFails
<1>1. ASSUME NEW p \in Paths, NEW v \in Versions, Edit(p, v) PROVE FALSE
  BY <1>1 DEF Edit
<1>2. ASSUME NEW c \in Commands, Begin(c) PROVE FALSE
  BY <1>2 DEF Begin
<1>3. CASE Crash
  BY <1>3 DEF Crash
<1>4. CASE Choose
  BY <1>4 DEF Choose, CollectAsserts, RestartStray, RestartFull, RestartInc,
              RestartUnsigned, Reopen, NewFull, NewInc, NewSet, NoOldSignatures, OutOfTimes
<1>5. CASE Check
  BY <1>5 DEF Check, Resume, Refuse, StartOver
<1>6. CASE Delete
  BY <1>6 DEF Delete, DeleteVolume, DeleteLocalSig, DeleteLocalMan, RunAgain
<1>7. CASE WriteVolumes
  BY <1>7 DEF WriteVolumes, MakeVolume, SignatureEnds, SigToPartial, ManToPartial,
              FlushManifest, UploadStarts, UploadEnds
<1>8. CASE SendSig \/ SendMan
  BY <1>8 DEF SendSig, SendMan, Goto, SigCopyStarts, SigCopyEnds, SigPutStarts, SigPutEnds,
              SigDelete, SigFinalStarts, SigFinalEnds, SigUnlink, ManCopyStarts, ManCopyEnds,
              ManPutStarts, ManPutEnds, ManDelete, ManToFinal
<1> QED BY <1>1, <1>2, <1>3, <1>4, <1>5, <1>6, <1>7, <1>8, <1>9 DEF Next, Run

\* After sync_archive, whatever died runs left, the names in the archive directory are
\* those of the remote, no manifest is cut off, and every file that is whole is the one
\* of the remote, though only names are compared; what a run that died while copying
\* left cut off are signatures, and stays so.
THEOREM SyncedCacheAgrees == Spec => []CacheAgrees
<1>1. Init => CacheAgrees
  BY DEF Init, CacheAgrees
<1>2. IInv /\ Synchronised => CacheAgrees'
  <2> SUFFICES ASSUME IInv, Synchronised PROVE CacheAgrees'
    OBVIOUS
  <2>1. UNCHANGED <<remMan, remSig, cutRem, locMan, locSig, cutLoc, sigPart, manPart>>
    BY DEF Synchronised, remote, local
  <2>2. ASSUME NEW k \in Kinds
        PROVE  /\ FinalNames(k) \subseteq RemoteNames(k) \ Partials(k)
               /\ RemoteNames(k) \subseteq FinalNames(k) \cup Partials(k)
    BY DEF Synchronised, Spurious, Missing
  <2>3. \A t \in DOMAIN locMan : t \in DOMAIN remMan /\ locMan[t] = remMan[t]
    BY <2>2 DEF Kinds, FinalNames, RemoteNames, Partials, IInv, VolumesInv, CacheInv
  <2>4. \A t \in DOMAIN locSig : t \in DOMAIN remSig /\ locSig[t] = remSig[t]
    BY <2>2 DEF Kinds, FinalNames, RemoteNames, Partials, IInv, CacheInv
  <2>5. cutLoc["man"] = {}
    BY <2>2 DEF Kinds, FinalNames, Partials, IInv, CacheInv
  <2>6. \A k : FinalNames(k)' = FinalNames(k) /\ RemoteNames(k)' = RemoteNames(k)
               /\ Partials(k)' = Partials(k)
    BY <2>1 DEF FinalNames, RemoteNames, Partials
  <2> QED BY <2>1, <2>2, <2>3, <2>4, <2>5, <2>6 DEF CacheAgrees
<1>3. CacheAgrees /\ UNCHANGED vars => CacheAgrees'
  BY DEF CacheAgrees, FinalNames, RemoteNames, Partials, vars, remote, local
<1>4. IInv /\ CacheAgrees /\ [Next]_vars => CacheAgrees'
  <2>1. CASE pc' # "collect"
    BY <2>1 DEF CacheAgrees
  <2>2. CASE pc' = "collect"
    BY <1>2, <1>3, <2>2, CollectFollowsSync
  <2> QED BY <2>1, <2>2
<1> QED BY <1>1, <1>4, Invariance, PTL DEF Spec

\* The steps that write or delete files of the remote do so for the set of the
\* run, which has no manifest there.
LEMMA StepsKeepComplete ==
  ASSUME IInv, [Next]_vars
  PROVE  \A t \in DOMAIN remMan :
           /\ t \in DOMAIN remMan' /\ remMan'[t] = remMan[t]
           /\ remVol'[t] = remVol[t]
<1> DEFINE Stays == \A t \in DOMAIN remMan :
                      /\ t \in DOMAIN remMan' /\ remMan'[t] = remMan[t]
                      /\ remVol'[t] = remVol[t]
<1>1. ASSUME UNCHANGED <<remVol, remMan>> PROVE Stays
  BY <1>1
<1>2. ASSUME NEW p \in Paths, NEW v \in Versions, Edit(p, v) PROVE Stays
  BY <1>1, <1>2 DEF Edit, remote
<1>3. ASSUME NEW c \in Commands, Begin(c) PROVE Stays
  BY <1>1, <1>3 DEF Begin, remote
<1>4. CASE Crash \/ Sync \/ UNCHANGED vars
  BY <1>1, <1>4 DEF Crash, Sync, RemoveLocal, FetchStarts, FetchEnds, FetchFails,
                    Synchronised, vars, remote
<1>5. CASE Choose
  BY <1>1, <1>5 DEF Choose, CollectAsserts, RestartStray, RestartFull, RestartInc,
                    RestartUnsigned, Reopen, NewFull, NewInc, NewSet, NoOldSignatures,
                    OutOfTimes, remote
<1>6. CASE Check
  BY <1>1, <1>6 DEF Check, Resume, Refuse, StartOver, remote
<1>7. ASSUME NEW f, pc \notin NoSet \cup ManInPlace,
             remVol' = [remVol EXCEPT ![cur] = f], remMan' = remMan
      PROVE  Stays
  <2>1. cur \notin DOMAIN remMan /\ cur \in Times /\ DOMAIN remMan \subseteq Times
    BY <1>7 DEF IInv, WriterInv, TypeOK, FilesOK, IsManifests
  <2>2. \A t \in Times \ {cur} : remVol'[t] = remVol[t]
    BY <1>7 DEF IInv, TypeOK, FilesOK
  <2> QED BY <1>7, <2>1, <2>2
<1>8. CASE Delete
  <2>1. CASE DeleteVolume
    <3>1. PICK k \in DOMAIN remVol[cur] : remVol' = [remVol EXCEPT ![cur] = Remove(remVol[cur], k)]
      BY <2>1 DEF DeleteVolume
    <3>2. pc \notin NoSet \cup ManInPlace /\ remMan' = remMan
      BY <2>1 DEF DeleteVolume
    <3> QED BY <1>7, <3>1, <3>2
  <2>2. CASE DeleteLocalSig \/ DeleteLocalMan \/ RunAgain
    BY <1>1, <2>2 DEF DeleteLocalSig, DeleteLocalMan, RunAgain, remote
  <2> QED BY <1>8, <2>1, <2>2 DEF Delete
<1>9. CASE WriteVolumes
  <2>1. CASE UploadStarts \/ UploadEnds
    BY <1>7, <2>1 DEF UploadStarts, UploadEnds
  <2>2. CASE MakeVolume \/ SignatureEnds \/ SigToPartial \/ ManToPartial \/ FlushManifest
    BY <1>1, <2>2 DEF MakeVolume, SignatureEnds, SigToPartial, ManToPartial, FlushManifest, remote
  <2> QED BY <1>9, <2>1, <2>2 DEF WriteVolumes
<1>10. CASE SendSig \/ SendMan
  <2>1. CASE ManPutStarts \/ ManPutEnds
    <3>1. cur \notin DOMAIN remMan
      BY <2>1 DEF ManPutStarts, ManPutEnds, IInv, WriterInv
    <3> QED BY <2>1, <3>1 DEF ManPutStarts, ManPutEnds, Goto, Write, Remove
  <2>2. CASE SendSig \/ ManCopyStarts \/ ManCopyEnds \/ ManDelete \/ ManToFinal
    BY <1>1, <2>2 DEF SendSig, SigCopyStarts, SigCopyEnds, SigPutStarts, SigPutEnds, SigDelete,
                      SigFinalStarts, SigFinalEnds, SigUnlink, ManCopyStarts, ManCopyEnds,
                      ManDelete, ManToFinal, Goto, remote
  <2> QED BY <1>10, <2>1, <2>2 DEF SendMan
<1> QED BY <1>2, <1>3, <1>4, <1>5, <1>6, <1>8, <1>9, <1>10 DEF Next, Run

\* What has been committed stays: no step of any later run, restart or deletion
\* changes a complete set.
THEOREM CompleteSetsStay == Spec => CompleteStays
<1> DEFINE Stays == \A t \in DOMAIN remMan :
                      /\ t \in DOMAIN remMan' /\ remMan'[t] = remMan[t]
                      /\ remVol'[t] = remVol[t]
<1>1. IInv /\ [Next]_vars => [Stays]_vars
  BY StepsKeepComplete
<1> QED BY <1>1, Invariance, PTL DEF Spec, CompleteStays

-----------------------------------------------------------------------------
(* The assertion of set_manifest. *)

\* From the start of its upload to the renaming of the .part file, and only then, a set
\* has two manifests.
Twofold == {"manmoving", "mandelete", "manfinal"}

OneManifest ==
  /\ ~asserted
  /\ Conflicts \subseteq IF pc \in Twofold THEN {cur} ELSE {}

LEMMA OneManifestStep ==
  ASSUME CrashAt \cap Twofold = {}, IInv, OneManifest, [Next]_vars
  PROVE  OneManifest'
<1>1. CASE ManPutStarts \/ ManPutEnds \/ ManDelete
  <2>1. /\ pc \in {"manmove", "manmoving", "mandelete"} /\ pc' \in Twofold
        /\ cur' = cur /\ asserted' = asserted
    BY <1>1 DEF ManPutStarts, ManPutEnds, ManDelete, Goto, Twofold, writer, verdict
  <2>2. RemoteNames("man")' \subseteq RemoteNames("man") \cup {cur} /\ manPart' = manPart
    <3>1. cur \in Times
      BY <2>1 DEF IInv, WriterInv
    <3>2. cutRem'["man"] \subseteq cutRem["man"] \cup {cur}
      BY <1>1, <3>1, CutStep, CutTypes DEF ManPutStarts, ManPutEnds, ManDelete
    <3>3. DOMAIN remMan' \subseteq DOMAIN remMan \cup {cur} /\ manPart' = manPart
      BY <1>1 DEF ManPutStarts, ManPutEnds, ManDelete, Write, Remove
    <3> QED BY <3>2, <3>3 DEF RemoteNames
  <2> QED BY <2>1, <2>2 DEF OneManifest, Conflicts, Twofold
<1>2. CASE ManToFinal
  <2>1. pc = "manfinal" /\ pc' = "idle" /\ asserted' = asserted
    BY <1>2 DEF ManToFinal, verdict
  <2>2. DOMAIN manPart' = DOMAIN manPart \ {cur} /\ RemoteNames("man")' = RemoteNames("man")
    BY <1>2 DEF ManToFinal, Remove, RemoteNames, remote
  <2> QED BY <2>1, <2>2 DEF OneManifest, Conflicts, Twofold
<1>3. CASE ManToPartial \/ FlushManifest
  <2>1. pc \in {"manpart", "flush"} /\ pc' \in {"flush", "upload"} /\ asserted' = asserted
    BY <1>3 DEF ManToPartial, FlushManifest, verdict
  <2>2. DOMAIN manPart' \subseteq DOMAIN manPart \cup {cur} /\ RemoteNames("man")' = RemoteNames("man")
    BY <1>3 DEF ManToPartial, FlushManifest, Write, RemoteNames, remote
  <2>3. cur \notin RemoteNames("man")
    BY <2>1 DEF IInv, WriterInv, RemoteNames
  <2> QED BY <2>1, <2>2, <2>3 DEF OneManifest, Conflicts, Twofold
<1>4. ASSUME pc \notin Twofold, pc' \notin Twofold, asserted' = asserted, remMan' = remMan,
             cutRem'["man"] = cutRem["man"], DOMAIN manPart' \subseteq DOMAIN manPart
      PROVE  OneManifest'
  BY <1>4 DEF OneManifest, Conflicts, RemoteNames
<1> USE DEF Twofold
<1>5. ASSUME NEW p \in Paths, NEW v \in Versions, Edit(p, v) PROVE OneManifest'
  BY <1>4, <1>5 DEF Edit, remote, local, verdict
<1>6. ASSUME NEW c \in Commands, Begin(c) PROVE OneManifest'
  BY <1>4, <1>6 DEF Begin, remote, local, verdict
<1>7. CASE Crash
  BY <1>4, <1>7 DEF Crash, remote, local, verdict
<1>8. CASE Sync
  BY <1>4, <1>8 DEF Sync, RemoveLocal, FetchStarts, FetchEnds, FetchFails, Synchronised,
                    remote, local, verdict
<1>9. CASE Choose
  <2>1. CASE CollectAsserts
    BY <2>1 DEF CollectAsserts, OneManifest
  <2>2. CASE RestartStray
    BY <1>4, <2>2 DEF RestartStray, remote, verdict
  <2>3. ASSUME NEW rd \in Readings, RestartFull(rd) \/ RestartInc(rd) \/ RestartUnsigned(rd)
        PROVE  OneManifest'
    BY <1>4, <2>3 DEF RestartFull, RestartInc, RestartUnsigned, Reopen, remote, verdict
  <2>4. ASSUME NEW rd \in Readings, NewFull(rd) \/ NewInc(rd) PROVE OneManifest'
    BY <1>4, <2>4 DEF NewFull, NewInc, NewSet, remote, local, verdict
  <2>5. ASSUME NEW rd \in Readings, NoOldSignatures(rd) \/ OutOfTimes(rd) PROVE OneManifest'
    BY <1>4, <2>5 DEF NoOldSignatures, OutOfTimes, remote, local, verdict
  <2> QED BY <1>9, <2>1, <2>2, <2>3, <2>4, <2>5 DEF Choose
<1>10. CASE Check
  BY <1>4, <1>10 DEF Check, Resume, Refuse, StartOver, remote, local, verdict
<1>11. CASE Delete
  BY <1>4, <1>11 DEF Delete, DeleteVolume, DeleteLocalSig, DeleteLocalMan, RunAgain, Remove,
                     remote, local, verdict
<1>12. CASE MakeVolume \/ SignatureEnds \/ SigToPartial \/ UploadStarts \/ UploadEnds
  BY <1>4, <1>12 DEF MakeVolume, SignatureEnds, SigToPartial, UploadStarts, UploadEnds, remote, local, verdict
<1>13. CASE SendSig \/ ManCopyStarts \/ ManCopyEnds
  <2>1. CASE SigPutStarts \/ SigPutEnds
    <3>1. cur \in Times
      BY <2>1 DEF SigPutStarts, SigPutEnds, IInv, WriterInv
    <3>2. cutRem'["man"] = cutRem["man"]
      BY <2>1, <3>1, CutStep, CutTypes DEF SigPutStarts, SigPutEnds
    <3> QED BY <1>4, <2>1, <3>2 DEF SigPutStarts, SigPutEnds, Goto, verdict
  <2>2. CASE ~(SigPutStarts \/ SigPutEnds)
    BY <1>4, <1>13, <2>2 DEF SendSig, SigCopyStarts, SigCopyEnds, SigDelete, SigFinalStarts,
                             SigFinalEnds, SigUnlink, ManCopyStarts, ManCopyEnds, Goto, verdict
  <2> QED BY <2>1, <2>2
<1>14. CASE UNCHANGED vars
  BY <1>14 DEF vars, remote, local, writer, verdict, OneManifest, Conflicts, RemoteNames
<1> QED BY <1>1, <1>2, <1>3, <1>5, <1>6, <1>7, <1>8, <1>9, <1>10, <1>11, <1>12, <1>13, <1>14
        DEF Next, Run, WriteVolumes, SendMan

\* BackupSet.set_manifest never finds a second manifest, wherever runs die, unless one
\* dies after the upload of the manifest has begun and before the local .part file has
\* been renamed (full_backup and incremental_backup: to_remote, then to_final).
THEOREM NoSecondManifest == CrashAt \cap Twofold = {} => (Spec => []~asserted)
<1> SUFFICES ASSUME CrashAt \cap Twofold = {} PROVE Spec => []~asserted
  OBVIOUS
<1>1. Init => OneManifest
  BY DEF Init, OneManifest, Conflicts, RemoteNames, EmptyStore, Kinds
<1>2. IInv /\ OneManifest /\ [Next]_vars => OneManifest'
  BY OneManifestStep
<1>3. OneManifest => ~asserted
  BY DEF OneManifest
<1> QED BY <1>1, <1>2, <1>3, Invariance, PTL DEF Spec
-----------------------------------------------------------------------------
(***************************************************************************)
(* What the sets of BackupSession hold, for every value of its constants.  *)
(*                                                                         *)
(* A full set restores the tree that was backed up, path by path, whatever *)
(* runs died.  When runs are careful (Careful), so does every incremental  *)
(* set, and the runs together are what module Archive promises.            *)
(*                                                                         *)
(* The argument, section by section: the complete sets stand in a line, so *)
(* that the chains are its segments (Line, Segment); careful runs keep     *)
(* them so (LineInv); what the volumes and the signatures of a set say is  *)
(* what has changed since the set before (ContentInv); so the last word    *)
(* that a chain has on a path is the right one (LastWord), both for the    *)
(* signatures a run starts from and for the blocks a restore puts          *)
(* together.                                                               *)
(*                                                                         *)
(* Within a run the invariant follows the position in the source: every    *)
(* path up to the end index of a volume is in that volume or one before it *)
(* (UpTo), and the paths that are left are still to be written.  A restart *)
(* trusts the end index of the last volume it keeps, so UpTo is what       *)
(* carries the blocks over a crash.                                        *)
(***************************************************************************)


-----------------------------------------------------------------------------
(* Lines and segments. *)

\* A set of numbers up to n has a least element, unless it is empty.
LEMMA HasLeast ==
  ASSUME NEW n \in Nat, NEW S \in SUBSET (1..n), S # {}
  PROVE  \E e \in S : \A q \in S : ~(q < e)
<1> DEFINE T == {n + 1 - q : q \in S}
<1>1. T \in SUBSET (1..n) /\ T # {}
  <2>1. \A q \in S : q \in Int /\ 1 <= q /\ q <= n
    OBVIOUS
  <2>2. \A q \in S : n + 1 - q \in 1..n
    BY <2>1
  <2> QED BY <2>2
<1>2. PICK m \in T : \A q \in T : q <= m
  <2> HIDE DEF T
  <2> QED BY <1>1, HasGreatest
<1>3. PICK e \in S : m = n + 1 - e
  BY <1>2
<1>4. \A q \in S : n + 1 - q <= m
  BY <1>2
<1> QED BY <1>3, <1>4

-----------------------------------------------------------------------------
(* Sets in a line: each is full, or starts from the one before it. *)

Line(S, b) ==
  \A t \in S : b[t] # 0 => /\ b[t] \in S /\ b[t] < t
                           /\ \A u \in S : u < t => u <= b[t]

Roots(S, b) == {r \in S : b[r] = 0}

\* The full set r and the sets up to the next full one.
Segment(S, b, r) == {u \in S : r <= u /\ \A q \in Roots(S, b) : q <= u => q <= r}

Segments(S, b) == {Segment(S, b, r) : r \in Roots(S, b)}

\* The sets up to n.
Till(S, n) == {t \in S : t <= n}

\* The first sets of a line are a line.
LEMMA LineTill ==
  ASSUME NEW S \in SUBSET Nat, NEW b, Line(S, b), NEW n \in Nat
  PROVE  Line(Till(S, n), b)
<1> SUFFICES ASSUME NEW t \in Till(S, n), b[t] # 0
             PROVE  /\ b[t] \in Till(S, n) /\ b[t] < t
                    /\ \A u \in Till(S, n) : u < t => u <= b[t]
  BY DEF Line
<1>1. t \in S /\ t <= n /\ \A u \in Till(S, n) : u \in S
  BY DEF Till
<1>2. /\ b[t] \in S /\ b[t] < t
      /\ \A u \in S : u < t => u <= b[t]
  BY <1>1 DEF Line
<1>3. b[t] <= n
  <2>1. b[t] \in Nat /\ t \in Nat /\ b[t] < t /\ t <= n
    BY <1>1, <1>2
  <2>2. \A x, y \in Nat : x < y /\ y <= n => x <= n
    OBVIOUS
  <2> QED BY <2>1, <2>2
<1> QED BY <1>1, <1>2, <1>3 DEF Till

\* The next set joins the chain that it starts from, and takes no other's last place.
LEMMA JoinsItsSegment ==
  ASSUME NEW n \in Nat, NEW S \in SUBSET (1..n), n \in S, NEW b, Line(S, b), b[n] # 0,
         NEW lw,
         NEW r \in Roots(S, b)
  PROVE  /\ r \in Roots(S \ {n}, b)
         /\ WithInc(Segment(S \ {n}, b, r), n, b, lw) = Segment(S, b, r)
<1> DEFINE P == S \ {n}
           C == Segment(P, b, r)
<1>1. r \in P /\ b[r] = 0 /\ Roots(S, b) = Roots(P, b)
  BY DEF Roots
<1>2. S \subseteq Nat /\ P \subseteq 1..n /\ \A u \in S : u <= n
  OBVIOUS
<1>3. C \subseteq P /\ r \in C
  BY <1>1, <1>2 DEF Segment, Roots
<1>4. /\ b[n] \in P /\ \A u \in P : u <= b[n]
  BY <1>2 DEF Line
<1>5. End(C) \in C /\ \A u \in C : u <= End(C)
  <2>1. C \in SUBSET (1..n) /\ C # {}
    BY <1>2, <1>3
  <2> HIDE DEF C
  <2> QED BY <2>1, EndIsGreatest
<1>6. CASE b[n] \in C
  <2>1. End(C) = b[n]
    <3>1. End(C) <= b[n] /\ b[n] <= End(C) /\ End(C) \in Nat /\ b[n] \in Nat
      BY <1>2, <1>3, <1>4, <1>5, <1>6
    <3>2. \A x, y \in Nat : x <= y /\ y <= x => x = y
      OBVIOUS
    <3> QED BY <3>1, <3>2
  <2>2. n \in Segment(S, b, r)
    <3>1. r <= n
      BY <1>1
    <3>2. ASSUME NEW q \in Roots(S, b) PROVE q <= r
      <4>1. q \in P /\ q \in Roots(P, b)
        BY <1>1 DEF Roots
      <4>2. q <= b[n]
        BY <1>4, <4>1
      <4> QED BY <1>6, <4>1, <4>2 DEF Segment
    <3> QED BY <3>1, <3>2 DEF Segment
  <2>3. Segment(S, b, r) = C \cup {n}
    BY <1>1, <2>2 DEF Segment
  <2> QED BY <1>1, <2>1, <2>3 DEF WithInc, Extends, Roots
<1>7. CASE b[n] \notin C
  <2>1. End(C) # b[n]
    BY <1>5, <1>7
  <2>2. n \notin Segment(S, b, r)
    <3> SUFFICES ASSUME n \in Segment(S, b, r) PROVE b[n] \in C
      BY <1>7
    <3>1. r <= b[n]
      BY <1>1, <1>4
    <3>2. ASSUME NEW q \in Roots(P, b) PROVE q <= r
      <4>1. q \in Roots(S, b) /\ q <= n
        BY <1>1 DEF Roots
      <4> QED BY <4>1 DEF Segment
    <3> QED BY <1>4, <3>1, <3>2 DEF Segment
  <2>3. Segment(S, b, r) = C
    BY <1>1, <2>2 DEF Segment
  <2>4. ~Replaces(C, n, b, lw)
    <3> SUFFICES ASSUME b[End(C)] # 0, b[End(C)] = b[n] PROVE FALSE
      BY DEF Replaces
    <3>1. End(C) \in P /\ End(C) \in S
      BY <1>3, <1>5
    <3>2. b[n] < End(C)
      BY <3>1 DEF Line
    <3>3. End(C) <= b[n]
      BY <1>4, <3>1
    <3>4. b[n] \in Nat /\ End(C) \in Nat
      BY <1>2, <1>4, <3>1
    <3>5. \A x, y \in Nat : ~(x < y /\ y <= x)
      OBVIOUS
    <3> QED BY <3>2, <3>3, <3>4, <3>5
  <2> QED BY <1>1, <2>1, <2>3, <2>4 DEF WithInc, Extends, Roots
<1> QED BY <1>6, <1>7

\* One turn of the loop: the chains of the sets up to n - 1 become those up to n.
LEMMA NextSegments ==
  ASSUME NEW S \in SUBSET (Nat \ {0}), NEW b, Line(S, b), NEW lw, NEW n \in Nat \ {0}
  PROVE  /\ n \notin S => Segments(Till(S, n), b) = Segments(Till(S, n - 1), b)
         /\ n \in S /\ b[n] = 0 => \A D :
              D \in Segments(Till(S, n), b) <=> D \in Segments(Till(S, n - 1), b) \/ D = {n}
         /\ n \in S /\ b[n] # 0 => \A D :
              D \in Segments(Till(S, n), b) <=>
                \E C \in Segments(Till(S, n - 1), b) : D = WithInc(C, n, b, lw)
<1> DEFINE T == Till(S, n)
           P == Till(S, n - 1)
<1>1. /\ T \in SUBSET (1..n) /\ P = T \ {n} /\ (n \in T <=> n \in S) /\ \A u \in T : u <= n
      /\ Line(T, b)
  <2>1. Line(T, b)
    <3>1. S \in SUBSET Nat /\ n \in Nat
      OBVIOUS
    <3> QED BY <3>1, LineTill
  <2>2. \A u \in S : u <= n - 1 <=> u <= n /\ u # n
    OBVIOUS
  <2>3. P = T \ {n}
    BY <2>2 DEF Till
  <2>4. n <= n /\ T \in SUBSET (1..n) /\ \A u \in T : u <= n
    <3>1. \A u \in S : u <= n => u \in 1..n
      OBVIOUS
    <3>2. n <= n
      OBVIOUS
    <3> QED BY <3>1, <3>2 DEF Till
  <2> QED BY <2>1, <2>3, <2>4 DEF Till
<1> HIDE DEF T, P
<1>2. CASE n \notin S
  <2>1. P = T
    BY <1>1, <1>2
  <2> QED BY <1>2, <2>1 DEF T, P
<1>3. CASE n \in S /\ b[n] = 0
  <2>1. Roots(T, b) = Roots(P, b) \cup {n}
    BY <1>1, <1>3 DEF Roots
  <2>2. Segment(T, b, n) = {n}
    <3>1. n \in T /\ \A q \in T : q <= n /\ (n <= q => q = n)
      BY <1>1, <1>3
    <3> QED BY <3>1 DEF Segment, Roots
  <2>3. ASSUME NEW r \in Roots(P, b) PROVE Segment(T, b, r) = Segment(P, b, r)
    <3>1. r \in T /\ r # n /\ r <= n /\ ~(n <= r)
      BY <1>1 DEF Roots
    <3>2. n \notin Segment(T, b, r)
      BY <2>1, <3>1, <1>1 DEF Segment
    <3>3. \A u \in P : ~(n <= u)
      BY <1>1
    <3> QED BY <1>1, <2>1, <3>2, <3>3 DEF Segment
  <2>4. Segments(T, b) = Segments(P, b) \cup {{n}}
    BY <2>1, <2>2, <2>3 DEF Segments
  <2> QED BY <1>3, <2>4 DEF T, P
<1>4. CASE n \in S /\ b[n] # 0
  <2>1. Roots(T, b) = Roots(P, b)
    BY <1>1, <1>4 DEF Roots
  <2>2. \A r \in Roots(P, b) : WithInc(Segment(P, b, r), n, b, lw) = Segment(T, b, r)
    BY <1>1, <1>4, <2>1, JoinsItsSegment
  <2>3. \A D : D \in Segments(T, b) <=>
                 \E C \in Segments(P, b) : D = WithInc(C, n, b, lw)
    BY <2>1, <2>2 DEF Segments
  <2> QED BY <1>4, <2>3 DEF T, P
<1> QED BY <1>2, <1>3, <1>4

\* BackupChains of sets in a line: the segments, however Python orders them.
LEMMA ChainsAreSegments ==
  ASSUME NEW N \in Nat, NEW S \in SUBSET (1..N), NEW b, DOMAIN b = 1..N, Line(S, b), NEW lw
  PROVE  BackupChains(S, b, lw) = Segments(S, b)
<1> DEFINE Turn(f, t) ==
             IF t = 0 THEN {}
             ELSE IF t \notin S THEN f[t - 1]
             ELSE IF b[t] = 0 THEN f[t - 1] \cup {{t}}
             ELSE {WithInc(C, t, b, lw) : C \in f[t - 1]}
           All == {0} \cup DOMAIN b
           g == [t \in All |-> Segments(Till(S, t), b)]
           h == CHOOSE f : f = [t \in All |-> Turn(f, t)]
<1>1. All = 0..N
  OBVIOUS
<1>2. \A n \in All : g[n] = Turn(g, n)
  <2>1. g[0] = {}
    <3>1. Till(S, 0) = {}
      <4>1. \A t \in 1..N : ~(t <= 0)
        OBVIOUS
      <4> QED BY <4>1 DEF Till
    <3>2. 0 \in All
      BY <1>1
    <3>3. Segments({}, b) = {}
      BY DEF Segments, Roots
    <3> QED BY <3>1, <3>2, <3>3
  <2>2. ASSUME NEW n \in 1..N PROVE g[n] = Turn(g, n)
    <3>1. n \in All /\ n - 1 \in All /\ n # 0
      BY <1>1
    <3>2. g[n] = Segments(Till(S, n), b) /\ g[n - 1] = Segments(Till(S, n - 1), b)
      BY <3>1
    <3>3. g[n] = IF n \notin S THEN g[n - 1]
                 ELSE IF b[n] = 0 THEN g[n - 1] \cup {{n}}
                 ELSE {WithInc(C, n, b, lw) : C \in g[n - 1]}
      <4> HIDE DEF g
      <4>1. /\ n \notin S => g[n] = g[n - 1]
            /\ n \in S /\ b[n] = 0 => \A D : D \in g[n] <=> D \in g[n - 1] \/ D = {n}
            /\ n \in S /\ b[n] # 0 => \A D :
                 D \in g[n] <=> \E C \in g[n - 1] : D = WithInc(C, n, b, lw)
        <5>1. S \in SUBSET (Nat \ {0}) /\ n \in Nat \ {0}
          OBVIOUS
        <5> HIDE DEF Turn, All
        <5>2. n \notin S => g[n] = g[n - 1]
          BY <3>2, <5>1, NextSegments
        <5>3. n \in S /\ b[n] = 0 => \A D : D \in g[n] <=> D \in g[n - 1] \/ D = {n}
          <6>1. n \in S /\ b[n] = 0 => \A D :
                  D \in Segments(Till(S, n), b) <=> D \in Segments(Till(S, n - 1), b) \/ D = {n}
            BY <5>1, NextSegments
          <6> QED BY <3>2, <6>1
        <5>4. n \in S /\ b[n] # 0 => \A D :
                 D \in g[n] <=> \E C \in g[n - 1] : D = WithInc(C, n, b, lw)
          BY <3>2, <5>1, NextSegments
        <5> QED BY <5>2, <5>3, <5>4
      <4>2. n \in S /\ b[n] # 0 => g[n] = {WithInc(C, n, b, lw) : C \in g[n - 1]}
        BY <4>1
      <4>3. n \in S /\ b[n] = 0 => g[n] = g[n - 1] \cup {{n}}
        BY <4>1
      <4> QED BY <4>1, <4>2, <4>3
    <3> HIDE DEF g
    <3> QED BY <3>1, <3>3
  <2> HIDE DEF g
  <2> QED BY <1>1, <2>1, <2>2
<1>3. g = [n \in All |-> Turn(g, n)]
  BY <1>2
<1>4. h = [n \in All |-> Turn(h, n)]
  <2> HIDE DEF g
  <2> QED BY <1>3
<1>5. \A n \in All : h[n] = Turn(h, n)
  <2> HIDE DEF h
  <2> QED BY <1>4
<1> HIDE DEF g, h
<1>6. \A n \in 0..N : h[n] = g[n]
  <2> DEFINE Odd == {n \in 1..N : h[n] # g[n]}
  <2>1. h[0] = g[0]
    BY <1>1, <1>2, <1>5
  <2>2. Odd = {}
    <3> SUFFICES ASSUME Odd # {} PROVE FALSE
      OBVIOUS
    <3>1. PICK e \in Odd : \A q \in Odd : ~(q < e)
      <4>1. Odd \in SUBSET (1..N)
        OBVIOUS
      <4> HIDE DEF Odd
      <4> QED BY <4>1, HasLeast
    <3>2. h[e - 1] = g[e - 1]
      <4>1. e - 1 = 0 \/ (e - 1 \in 1..N /\ e - 1 < e)
        OBVIOUS
      <4> QED BY <2>1, <3>1, <4>1
    <3>3. e \in All /\ e \in 1..N /\ e # 0 /\ h[e] # g[e]
      BY <1>1
    <3>4. h[e] = Turn(h, e) /\ g[e] = Turn(g, e)
      BY <1>2, <1>5, <3>3
    <3> HIDE DEF Odd
    <3> QED BY <3>2, <3>3, <3>4
  <2>3. \A n \in 0..N : n = 0 \/ n \in 1..N
    OBVIOUS
  <2> QED BY <2>1, <2>2, <2>3
<1>7. BackupChains(S, b, lw) = h[End(DOMAIN b)]
  BY DEF BackupChains, h
<1>8. g[End(DOMAIN b)] = Segments(S, b)
  <2>1. Till(S, End(1..N)) = S
    <3>1. CASE N = 0
      <4>1. 1..N = {}
        BY <3>1
      <4> QED BY <4>1 DEF Till
    <3>2. CASE N # 0
      <4>1. \A t \in 1..N : t <= End(1..N)
        BY <3>2, EndIsGreatest
      <4> QED BY <4>1 DEF Till
    <3> QED BY <3>1, <3>2
  <2>2. End(1..N) \in 0..N
    BY EndIsGreatest
  <2> QED BY <1>1, <2>1, <2>2 DEF g
<1>9. End(DOMAIN b) \in 0..N
  BY EndIsGreatest
<1> QED BY <1>6, <1>7, <1>8, <1>9

-----------------------------------------------------------------------------
(* The segments. *)

\* An incremental set is in the segment of the set that it starts from.
LEMMA SameSegment ==
  ASSUME NEW S \in SUBSET (Nat \ {0}), NEW b, Line(S, b), NEW r \in Roots(S, b), NEW u \in S, b[u] # 0
  PROVE  u \in Segment(S, b, r) <=> b[u] \in Segment(S, b, r)
<1>1. /\ b[u] \in S /\ b[u] < u
      /\ \A q \in S : q < u => q <= b[u]
  BY DEF Line
<1>2. r \in S /\ r # u
  BY DEF Roots
<1>3. u \in Nat /\ b[u] \in Nat /\ r \in Nat
  BY <1>1, <1>2
<1>4. r <= u <=> r <= b[u]
  <2>1. r <= b[u] => r <= u
    BY <1>1, <1>3
  <2>2. r <= u => r < u
    BY <1>2, <1>3
  <2> QED BY <1>1, <1>2, <2>1, <2>2
<1>5. ASSUME NEW q \in Roots(S, b) PROVE q <= u <=> q <= b[u]
  <2>1. q \in S /\ q # u /\ q \in Nat
    BY DEF Roots
  <2>2. q <= b[u] => q <= u
    BY <1>1, <1>3, <2>1
  <2>3. q <= u => q < u
    BY <1>3, <2>1
  <2> QED BY <1>1, <2>1, <2>2, <2>3
<1> QED BY <1>1, <1>4, <1>5 DEF Segment

\* No two sets start from the same one.
LEMMA OneNext ==
  ASSUME NEW S \in SUBSET (Nat \ {0}), NEW b, Line(S, b), NEW t \in S, NEW u \in S, b[t] = b[u], b[t] # 0
  PROVE  t = u
<1>1. b[t] < t /\ b[t] < u /\ b[t] \in S
  BY DEF Line
<1>2. t < u => t <= b[t]
  BY DEF Line
<1>3. u < t => u <= b[t]
  BY DEF Line
<1>4. t \in Nat /\ u \in Nat /\ b[t] \in Nat
  BY <1>1
<1>5. \A x, y, z \in Nat : z < x /\ z < y /\ (x < y => x <= z) /\ (y < x => y <= z) => x = y
  OBVIOUS
<1> QED BY <1>1, <1>2, <1>3, <1>4, <1>5

\* A segment has one full set.
LEMMA OneRoot ==
  ASSUME NEW S \in SUBSET (Nat \ {0}), NEW b, NEW r \in Roots(S, b)
  PROVE  /\ r \in Segment(S, b, r) /\ r \in S /\ b[r] = 0
         /\ \A u \in Segment(S, b, r) : b[u] = 0 => u = r
<1>1. r \in Nat /\ r \in S /\ b[r] = 0
  BY DEF Roots
<1>2. r \in Segment(S, b, r)
  BY <1>1 DEF Segment
<1>3. ASSUME NEW u \in Segment(S, b, r), b[u] = 0 PROVE u = r
  <2>1. u \in Roots(S, b) /\ u \in Nat /\ r <= u
    BY <1>3 DEF Segment, Roots
  <2>2. u <= r
    BY <2>1 DEF Segment
  <2>3. \A x, y \in Nat : x <= y /\ y <= x => x = y
    OBVIOUS
  <2> QED BY <1>1, <2>1, <2>2, <2>3
<1> QED BY <1>1, <1>2, <1>3

\* Every set is in a segment.
LEMMA HasSegment ==
  ASSUME NEW S \in SUBSET (Nat \ {0}), NEW b, Line(S, b), NEW t \in S
  PROVE  \E r \in Roots(S, b) : t \in Segment(S, b, r)
<1> DEFINE Below == {q \in Roots(S, b) : q <= t}
<1>1. Below \in SUBSET (1..t) /\ t \in Nat
  <2>1. \A u \in S : u <= t => u \in 1..t
    OBVIOUS
  <2> QED BY <2>1 DEF Roots
<1>2. Below # {}
  <2>1. PICK e \in Till(S, t) : \A q \in Till(S, t) : ~(q < e)
    <3>1. Till(S, t) \in SUBSET (1..t) /\ t \in Till(S, t)
      <4>1. \A u \in S : u <= t => u \in 1..t
        BY <1>1
      <4>2. t <= t
        BY <1>1
      <4> QED BY <4>1, <4>2 DEF Till
    <3> QED BY <1>1, <3>1, HasLeast
  <2>2. e \in S /\ e <= t
    BY <2>1 DEF Till
  <2>3. b[e] = 0
    <3> SUFFICES ASSUME b[e] # 0 PROVE FALSE
      OBVIOUS
    <3>1. b[e] \in S /\ b[e] < e
      BY <2>2 DEF Line
    <3>2. b[e] <= t
      <4>1. b[e] \in Nat /\ e \in Nat
        BY <2>2, <3>1
      <4> QED BY <1>1, <2>2, <3>1, <4>1
    <3> QED BY <2>1, <3>1, <3>2 DEF Till
  <2> QED BY <2>2, <2>3 DEF Roots
<1>3. PICK r \in Below : \A q \in Below : q <= r
  <2> HIDE DEF Below
  <2> QED BY <1>1, <1>2, HasGreatest
<1> QED BY <1>3 DEF Segment, Roots

\* The last segment: it has the newest set, and the newest full set.
LEMMA LastSegment ==
  ASSUME NEW n \in Nat, NEW S \in SUBSET (1..n), S # {}, NEW b, Line(S, b)
  PROVE  \E r \in Roots(S, b) :
           /\ LatestEnd(Segments(S, b)) = {Segment(S, b, r)}
           /\ NewestFull(Segments(S, b), b) = {Segment(S, b, r)}
           /\ End(Segment(S, b, r)) = End(S)
<1>1. S \in SUBSET (Nat \ {0})
  OBVIOUS
<1>2. End(S) \in S /\ \A t \in S : t <= End(S)
  BY EndIsGreatest
<1>3. PICK r \in Roots(S, b) : End(S) \in Segment(S, b, r)
  BY <1>1, <1>2, HasSegment
<1> DEFINE L == Segment(S, b, r)
<1>4. \A q \in Roots(S, b) : q <= r /\ q \in Nat
  BY <1>1, <1>2, <1>3 DEF Segment, Roots
<1>5. \A q \in Roots(S, b) : Segment(S, b, q) \in SUBSET (1..n) /\ Segment(S, b, q) # {}
  BY <1>1, OneRoot DEF Segment
<1>6. End(L) = End(S)
  <2>1. End(L) \in L /\ End(S) <= End(L)
    BY <1>3, <1>5, EndIsGreatest
  <2>2. End(L) <= End(S) /\ End(L) \in Nat /\ End(S) \in Nat
    <3>1. L \subseteq S
      BY DEF Segment
    <3>2. End(L) \in S
      BY <2>1, <3>1
    <3> QED BY <1>1, <1>2, <3>2
  <2>3. \A x, y \in Nat : x <= y /\ y <= x => x = y
    OBVIOUS
  <2> QED BY <2>1, <2>2, <2>3
<1>7. ASSUME NEW q \in Roots(S, b), q # r
      PROVE  End(Segment(S, b, q)) < End(S) /\ End(Segment(S, b, q)) <= End(S)
  <2>1. End(Segment(S, b, q)) \in Segment(S, b, q)
    BY <1>5, EndIsGreatest
  <2>2. ~(r <= End(Segment(S, b, q)))
    <3>1. r <= End(Segment(S, b, q)) => r <= q
      BY <2>1 DEF Segment
    <3>2. q <= r /\ q \in Nat /\ r \in Nat
      BY <1>4
    <3>3. \A x, y \in Nat : x <= y /\ y <= x => x = y
      OBVIOUS
    <3> QED BY <1>7, <3>1, <3>2, <3>3
  <2>3. r <= End(S) /\ r \in Nat
    BY <1>1, <1>2 DEF Roots
  <2>4. End(Segment(S, b, q)) \in Nat /\ End(S) \in Nat
    BY <1>1, <1>2, <2>1 DEF Segment
  <2>5. \A x, y, z \in Nat : ~(x <= y) /\ x <= z => y < z /\ y <= z
    OBVIOUS
  <2> QED BY <2>2, <2>3, <2>4, <2>5
<1>8. LatestEnd(Segments(S, b)) = {L}
  <2>1. L \in Segments(S, b) /\ \A D \in Segments(S, b) : End(D) <= End(L)
    <3>1. End(S) <= End(S)
      BY <1>2
    <3> QED BY <1>6, <1>7, <3>1 DEF Segments
  <2>2. ASSUME NEW C \in Segments(S, b), \A D \in Segments(S, b) : End(D) <= End(C) PROVE C = L
    <3>1. PICK q \in Roots(S, b) : C = Segment(S, b, q)
      BY DEF Segments
    <3>2. End(S) <= End(C)
      BY <1>6, <2>1, <2>2
    <3>3. End(C) \in Nat /\ End(S) \in Nat
      BY <1>2, <1>5, <3>1, EndIsGreatest
    <3>4. q = r
      <4>1. \A x, y \in Nat : ~(x < y /\ y <= x)
        OBVIOUS
      <4> QED BY <1>7, <3>1, <3>2, <3>3, <4>1
    <3> QED BY <3>1, <3>4
  <2> HIDE DEF L
  <2> QED BY <2>1, <2>2 DEF LatestEnd
<1>9. NewestFull(Segments(S, b), b) = {L}
  <2>1. L \in Segments(S, b)
    BY DEF Segments
  <2>2. ASSUME NEW D \in Segments(S, b), NEW t \in L, NEW u \in D, b[t] = 0, b[u] = 0
        PROVE  u <= t
    <3>1. t = r
      BY <1>1, <2>2, OneRoot
    <3>2. u \in Roots(S, b)
      BY <2>2 DEF Segments, Segment, Roots
    <3> QED BY <1>4, <3>1, <3>2
  <2>3. ASSUME NEW C \in Segments(S, b),
               \A D \in Segments(S, b) : \A t \in C, u \in D : b[t] = 0 /\ b[u] = 0 => u <= t
        PROVE  C = L
    <3>1. PICK q \in Roots(S, b) : C = Segment(S, b, q)
      BY DEF Segments
    <3>2. q \in C /\ b[q] = 0 /\ r \in L /\ b[r] = 0
      BY <1>1, <3>1, OneRoot
    <3>3. r <= q
      BY <2>1, <2>3, <3>2
    <3>4. \A x, y \in Nat : x <= y /\ y <= x => x = y
      OBVIOUS
    <3>5. q <= r /\ q \in Nat /\ r \in Nat
      BY <1>4
    <3> QED BY <3>1, <3>3, <3>4, <3>5
  <2> HIDE DEF L
  <2> QED BY <2>1, <2>2, <2>3 DEF NewestFull
<1> QED BY <1>6, <1>8, <1>9

\* Of signatures in a line, the chain with a full set is its segment.
LEMMA SigChainIsSegment ==
  ASSUME NEW n \in Nat, NEW S \in SUBSET (1..n), NEW b, Line(S, b), NEW r \in Roots(S, b)
  PROVE  {C \in SigChains(S, b) : r \in C} = {Segment(S, b, r)}
<1> DEFINE G == Segment(S, b, r)
<1>1. S \in SUBSET (Nat \ {0}) /\ 0 \notin S
  OBVIOUS
<1>2. r \in G /\ r \in S /\ b[r] = 0 /\ (\A u \in G : b[u] = 0 => u = r) /\ G \subseteq S
  <2>1. r \in G /\ r \in S /\ b[r] = 0 /\ \A u \in G : b[u] = 0 => u = r
    BY <1>1, OneRoot
  <2> QED BY <2>1 DEF Segment
<1>3. \A u \in S : b[u] # 0 => (u \in G <=> b[u] \in G) /\ b[u] < u /\ b[u] \in S
  BY <1>1, SameSegment DEF Line
<1>4. \A t, u \in S : b[t] = b[u] /\ b[t] # 0 => t = u
  BY <1>1, OneNext
<1> HIDE DEF G
<1>5. G \in SigChains(S, b)
  <2>1. \E q \in G : b[q] = 0 /\ \A t \in G \ {q} : b[t] \in G
    BY <1>2, <1>3
  <2>2. \A t, u \in G : b[t] = b[u] => t = u
    BY <1>2, <1>4
  <2>3. \A u \in S \ G : b[u] \in G => \E t \in G : b[t] = b[u]
    <3>1. \A u \in S \ G : b[u] \notin G
      BY <1>1, <1>2, <1>3
    <3> QED BY <3>1
  <2> QED BY <1>2, <2>1, <2>2, <2>3 DEF SigChains, IsChain
<1>6. ASSUME NEW C \in SigChains(S, b), r \in C PROVE C = G
  <2>1. /\ C \subseteq S /\ \A t \in C : b[t] # 0 => b[t] \in C
        /\ \A t \in C : b[t] = 0 => t = r
        /\ \A u \in S \ C : b[u] \in C => \E t \in C : b[t] = b[u]
    <3>1. C \in SUBSET S /\ IsChain(C, S, b)
      BY DEF SigChains
    <3>2. PICK q \in C : b[q] = 0 /\ \A t \in C \ {q} : b[t] \in C
      BY <3>1 DEF IsChain
    <3>3. \A t \in C : b[t] = 0 => t = q
      BY <1>1, <3>1, <3>2
    <3>4. r = q
      BY <1>2, <1>6, <3>3
    <3>5. \A u \in S \ C : b[u] \in C => \E t \in C : b[t] = b[u]
      BY <3>1 DEF IsChain
    <3> QED BY <3>1, <3>2, <3>3, <3>4, <3>5
  <2>2. C \subseteq G
    <3> DEFINE Bad == C \ G
    <3> SUFFICES ASSUME Bad # {} PROVE FALSE
      OBVIOUS
    <3>1. PICK u \in Bad : \A q \in Bad : ~(q < u)
      <4>1. Bad \in SUBSET (1..n)
        BY <2>1
      <4> HIDE DEF Bad
      <4> QED BY <4>1, HasLeast
    <3>2. u \in C /\ u \in S /\ u \notin G /\ u # r
      BY <1>2, <2>1
    <3>3. b[u] # 0 /\ b[u] \in C /\ b[u] < u
      BY <1>3, <2>1, <3>2
    <3>4. b[u] \in G
      BY <3>1, <3>3
    <3> QED BY <1>3, <3>2, <3>3, <3>4
  <2>3. G \subseteq C
    <3> DEFINE Bad == G \ C
    <3> SUFFICES ASSUME Bad # {} PROVE FALSE
      OBVIOUS
    <3>1. PICK u \in Bad : \A q \in Bad : ~(q < u)
      <4>1. Bad \in SUBSET (1..n)
        BY <1>2
      <4> HIDE DEF Bad
      <4> QED BY <4>1, HasLeast
    <3>2. u \in G /\ u \in S /\ u \notin C /\ u # r
      BY <1>2, <1>6
    <3>3. b[u] # 0
      BY <1>2, <3>2
    <3>4. b[u] \in G /\ b[u] < u
      BY <1>3, <3>2, <3>3
    <3>5. b[u] \in C
      BY <3>1, <3>4
    <3>6. PICK t \in C : b[t] = b[u]
      BY <2>1, <3>2, <3>5
    <3>7. t = u
      <4>1. t \in S /\ b[t] # 0
        BY <2>1, <3>3, <3>6
      <4> QED BY <1>4, <3>2, <3>6, <4>1
    <3> QED BY <3>2, <3>7
  <2> QED BY <2>2, <2>3
<1>7. {C \in SigChains(S, b) : r \in C} = {G}
  BY <1>2, <1>5, <1>6
<1> QED BY <1>7 DEF G

-----------------------------------------------------------------------------
(* What the sets start from. *)

\* Steps before which a run that dies leaves what a later one misreads: files of a set
\* that is being deleted, a signature without its manifest, a file on the remote that is
\* cut off, or a manifest twice.
Unsafe == {"delete", "manpart", "sigmoving"} \cup SigInPlace \cup SendingMan \cup ManInPlace

\* The source stays as it is while a set is partial, and no run dies at an unsafe step.
Careful == ~EditPartial /\ CrashAt \cap Unsafe = {}

\* Set t is full, or starts from the complete set before it.
Follows(t) ==
  base[t] # 0 => /\ base[t] \in DOMAIN remMan /\ base[t] < t
                 /\ \A u \in DOMAIN remMan : u < t => u <= base[t]

\* The signature has been sent and the manifest has not.
SigSent == SigInPlace \cup SendingMan

\* A run has chosen its set.
Chosen == pc \notin NoSet

\* No signature is missing in the archive directory, and only partial ones are cut off.
LocalWhole ==
  /\ cutLoc["sig"] \subseteq sigPart
  /\ DOMAIN remSig \subseteq DOMAIN locSig \cup sigPart
  /\ pc # "fetchsig"
  /\ pc = "sigunlink" => cur \notin cutLoc["sig"]

\* Only the last set may be partial, every set starts from the one before it, and where
\* a later run may find them the signatures are those of the sets.
LineInv ==
  /\ ~asserted /\ ~refused /\ ~unreadable /\ ~frayed /\ strayFull = 0
  /\ DOMAIN manPart \cup sigPart \subseteq {clock}
  /\ pc \notin ManInPlace => DOMAIN manPart \cap DOMAIN remMan = {}
  /\ pc \notin Unsafe => sigPart = DOMAIN manPart
  /\ pc \in SendingMan \cup ManInPlace => sigPart = {}
  /\ DOMAIN remSig = DOMAIN remMan \cup IF pc \in SigSent THEN {cur} ELSE {}
  /\ cutRem["sig"] = IF pc = "sigmoving" THEN {cur} ELSE {}
  /\ cutRem["man"] = IF pc = "manmoving" THEN {cur} ELSE {}
  /\ \A t \in DOMAIN remMan \cup DOMAIN manPart : Follows(t)
  /\ Chosen => cur = clock /\ Follows(cur)
  /\ pc = "check" => (kind = "full" <=> base[cur] = 0)
  /\ LocalWhole

\* A manifest that is cut off adds no set.
LEMMA ManifestNames ==
  ASSUME IInv
  PROVE  HasManifest = DOMAIN remMan \cup DOMAIN manPart
BY DEF IInv, VolumesInv, HasManifest, RemoteNames

\* The complete sets are in a line, and so are all.
LEMMA SetsInLine ==
  ASSUME IInv, LineInv
  PROVE  /\ HasManifest \in SUBSET (1..MaxTime) /\ DOMAIN base = 1..MaxTime
         /\ Line(HasManifest, base) /\ Line(DOMAIN remMan, base)
<1>1. HasManifest \in SUBSET (1..MaxTime) /\ DOMAIN base = 1..MaxTime
  BY ManifestNames DEF IInv, TypeOK, FilesOK, HistoryOK, IsManifests, Times
<1>2. /\ \A t \in HasManifest : Follows(t) /\ t <= clock
      /\ \A u \in DOMAIN manPart : u = clock
  BY ManifestNames DEF LineInv, IInv, VolumesInv
<1>3. \A t, u \in HasManifest : u < t => u \in DOMAIN remMan
  <2>1. clock \in Nat
    BY DEF IInv, TypeOK, HistoryOK
  <2>2. HasManifest \subseteq Nat
    BY <1>1
  <2>3. \A x, y \in Nat : ~(x < y /\ y <= x)
    OBVIOUS
  <2>4. HasManifest = DOMAIN remMan \cup DOMAIN manPart
    BY ManifestNames
  <2> QED BY <1>2, <2>1, <2>2, <2>3, <2>4
<1>4. Line(HasManifest, base)
  BY <1>2, <1>3, ManifestNames DEF Line, Follows
<1>5. Line(DOMAIN remMan, base)
  BY <1>2, ManifestNames DEF Line, Follows
<1> QED BY <1>1, <1>4, <1>5

\* The collection status: the latest chain ends with the last set, and the signatures of
\* the archive directory match it.
LEMMA Reads ==
  ASSUME IInv, LineInv, CacheAgrees, pc = "collect", NEW rd \in Readings
  PROVE  /\ MatchedEnd(rd) = End(HasManifest) /\ LastSet(rd) = End(HasManifest)
         /\ HasSigs(rd) <=> HasManifest # {}
         /\ MatchedEnd(rd) = End(rd.local)
         /\ HasManifest # {} => \E r \in Roots(HasManifest, base) :
              rd.local = Segment(HasManifest, base, r)
<1> DEFINE S == HasManifest
<1>1. S \in SUBSET (1..MaxTime) /\ DOMAIN base = 1..MaxTime /\ Line(S, base) /\ MaxTime \in Nat
  BY SetsInLine, SizesAssumption
<1>2. LocalSigs = S
  <2>1. sigPart = DOMAIN manPart /\ DOMAIN remSig = DOMAIN remMan /\ cutRem["sig"] = {}
    BY DEF LineInv, Unsafe, SigSent
  <2>2. /\ FinalNames("sig") \subseteq DOMAIN remSig
        /\ DOMAIN remSig \subseteq FinalNames("sig") \cup sigPart
    BY <2>1 DEF CacheAgrees, RemoteNames, Partials, Kinds
  <2> QED BY <2>1, <2>2, ManifestNames DEF LocalSigs
<1>3. BackupSets = Segments(S, base)
  BY <1>1, ChainsAreSegments DEF BackupSets
<1>4. PICK A, D, L, R :
        /\ A \in OrNone(LatestEnd(BackupSets)) /\ D \in OrNone(NewestFull(BackupSets, base))
        /\ L \in SigChainsOf(A, LocalSigs, base) /\ R \in SigChainsOf(A, RemoteSigs, base)
        /\ rd = [latest |-> A, newest |-> D, local |-> L, remote |-> R]
  BY DEF Readings
<1>5. rd.latest = A /\ rd.newest = D /\ rd.local = L /\ rd.remote = R
  BY <1>4
<1> HIDE DEF S
<1>6. CASE S = {}
  <2>1. Segments({}, base) = {}
    BY DEF Segments, Roots
  <2>2. A = {} /\ D = {}
    <3>1. LatestEnd({}) = {} /\ NewestFull({}, base) = {}
      BY DEF LatestEnd, NewestFull
    <3> QED BY <1>3, <1>4, <1>6, <2>1, <3>1 DEF OrNone
  <2>3. L = {}
    <3>1. {C \in SigChains(LocalSigs, base) : \E q \in {} \cap C : base[q] = 0} = {}
      OBVIOUS
    <3> QED BY <1>4, <2>2, <3>1 DEF SigChainsOf, OrNone
  <2>4. End({}) = 0
    BY DEF End
  <2>5. ~Drops(rd)
    BY <1>5, <2>2 DEF Drops
  <2> QED BY <1>5, <1>6, <2>2, <2>3, <2>4, <2>5 DEF MatchedEnd, LastSet, HasSigs, S
<1>7. CASE S # {}
  <2>1. PICK r \in Roots(S, base) :
          /\ LatestEnd(Segments(S, base)) = {Segment(S, base, r)}
          /\ NewestFull(Segments(S, base), base) = {Segment(S, base, r)}
          /\ End(Segment(S, base, r)) = End(S)
    BY <1>1, <1>7, LastSegment
  <2> DEFINE G == Segment(S, base, r)
  <2>2. A = G /\ D = G
    BY <1>3, <1>4, <2>1 DEF OrNone
  <2>3. r \in G /\ base[r] = 0 /\ \A u \in G : base[u] = 0 => u = r
    <3>1. S \in SUBSET (Nat \ {0})
      BY <1>1
    <3> QED BY <3>1, OneRoot
  <2>4. L = G
    <3>1. {C \in SigChains(S, base) : r \in C} = {G}
      BY <1>1, SigChainIsSegment
    <3> HIDE DEF G
    <3>2. {C \in SigChains(S, base) : \E q \in G \cap C : base[q] = 0} = {G}
      <4>1. \A C : (\E q \in G \cap C : base[q] = 0) <=> r \in C
        BY <2>3
      <4> QED BY <3>1, <4>1
    <3> QED BY <1>2, <1>4, <2>2, <3>2 DEF SigChainsOf, OrNone
  <2>5. G # {}
    BY <2>3
  <2> HIDE DEF G
  <2>6. ~Drops(rd)
    BY <1>5, <2>2, <2>4 DEF Drops
  <2> QED BY <1>5, <1>7, <2>1, <2>2, <2>4, <2>5, <2>6 DEF MatchedEnd, LastSet, HasSigs, S, G
<1> QED BY <1>6, <1>7

\* No signature that the delta is computed from is cut off.
LEMMA NoTornSigs ==
  ASSUME IInv, LineInv, CacheAgrees, pc = "collect", NEW rd \in Readings
  PROVE  TornSigs(rd) = {}
<1>1. MatchedEnd(rd) = End(rd.local)
  BY Reads
<1>2. cutLoc["sig"] \subseteq sigPart
  BY DEF LineInv, LocalWhole
<1> QED BY <1>1, <1>2 DEF TornSigs

\* At the start there are no sets.
LEMMA LineInit == Init => LineInv
<1> SUFFICES ASSUME Init PROVE LineInv
  OBVIOUS
<1>1. /\ cutRem["sig"] = {} /\ cutRem["man"] = {} /\ cutLoc["sig"] = {}
      /\ DOMAIN EmptyStore = {}
  BY DEF Init, Kinds, EmptyStore
<1> QED BY <1>1 DEF Init, LineInv, LocalWhole, Unsafe, SigSent, Chosen

-----------------------------------------------------------------------------
(* The signatures in the archive directory. *)

\* A step that leaves the signatures alone.
LEMMA LocalFrame ==
  ASSUME LocalWhole, UNCHANGED <<remSig, locSig, cutLoc>>, sigPart \subseteq sigPart',
         pc' \notin {"fetchsig", "sigunlink"}
  PROVE  LocalWhole'
BY DEF LocalWhole

\* sync_archive finds nothing to fetch.
LEMMA NothingMissing ==
  ASSUME IInv, LineInv, pc = "sync", NEW k \in Kinds
  PROVE  Missing(k) = {}
<1>1. CASE k = "sig"
  <2>1. cutRem["sig"] = {} /\ DOMAIN remSig \subseteq DOMAIN locSig \cup sigPart
    BY DEF LineInv, LocalWhole
  <2> QED BY <1>1, <2>1 DEF Missing, RemoteNames, FinalNames, Partials
<1>2. CASE k = "man"
  <2>1. /\ cutRem["man"] \subseteq DOMAIN manPart
        /\ DOMAIN remMan \subseteq DOMAIN locMan \cup DOMAIN manPart
    BY DEF IInv, VolumesInv, CacheInv
  <2> QED BY <1>2, <2>1 DEF Missing, RemoteNames, FinalNames, Partials
<1> QED BY <1>1, <1>2 DEF Kinds

\* A final file that sync_archive deletes is not on the remote, or a .part is beside it.
LEMMA LocalSync == IInv /\ LineInv /\ Sync => LocalWhole'
<1> SUFFICES ASSUME IInv, LineInv, Sync PROVE LocalWhole'
  OBVIOUS
<1>1. ASSUME NEW k \in Kinds, NEW t \in Times, RemoveLocal(k, t) PROVE LocalWhole'
  <2>1. pc' = "sync" /\ UNCHANGED <<remSig, sigPart, cur>>
    BY <1>1 DEF RemoveLocal, remote, writer
  <2>2. CASE k = "sig"
    <3>1. /\ DOMAIN locSig' = DOMAIN locSig \ {t} /\ cutLoc'["sig"] = cutLoc["sig"] \ {t}
          /\ t \notin DOMAIN remSig \/ t \in sigPart
      BY <1>1, <2>2, CutTypes, CutStep
         DEF RemoveLocal, Remove, Spurious, RemoteNames, Partials
    <3> QED BY <2>1, <3>1 DEF LineInv, LocalWhole
  <2>3. CASE k = "man"
    <3>1. locSig' = locSig /\ cutLoc'["sig"] = cutLoc["sig"]
      BY <1>1, <2>3, CutTypes, CutStep DEF RemoveLocal
    <3> QED BY <2>1, <3>1 DEF LineInv, LocalWhole
  <2> QED BY <2>2, <2>3 DEF Kinds
<1>2. ASSUME NEW k \in Kinds, NEW t \in Times, FetchStarts(k, t) \/ FetchFails(k, t) PROVE FALSE
  BY <1>2, NothingMissing DEF FetchStarts, FetchFails
<1>3. ASSUME NEW k \in Kinds, FetchEnds(k) PROVE FALSE
  BY <1>3 DEF FetchEnds, LineInv, LocalWhole, IInv, CacheInv, Kinds
<1>4. CASE Synchronised
  BY <1>4, LocalFrame DEF Synchronised, remote, local, LineInv
<1> QED BY <1>1, <1>2, <1>3, <1>4 DEF Sync

\* While a signature is copied and sent, its .part file is there.
LEMMA LocalSendSig == IInv /\ LineInv /\ SendSig => LocalWhole'
<1> SUFFICES ASSUME IInv, LineInv, SendSig PROVE LocalWhole'
  OBVIOUS
<1>1. pc \in SendingSig /\ cur \in sigPart /\ cur \in Times /\ cur' = cur
  BY DEF SendSig, SigCopyStarts, SigCopyEnds, SigPutStarts, SigPutEnds, SigDelete,
         SigFinalStarts, SigFinalEnds, SigUnlink, Goto, writer, IInv, WriterInv
<1>2. LocalWhole
  BY DEF LineInv
<1>3. CASE SigCopyStarts \/ SigFinalStarts
  <2>1. /\ DOMAIN locSig' = DOMAIN locSig \ {cur} /\ cutLoc'["sig"] = cutLoc["sig"] \cup {cur}
        /\ pc' \in {"sigcopying", "sigwriting"} /\ UNCHANGED <<remSig, sigPart>>
    BY <1>1, <1>3, CutTypes, CutStep DEF SigCopyStarts, SigFinalStarts, Goto, Remove
  <2> QED BY <1>1, <1>2, <2>1 DEF LocalWhole
<1>4. CASE SigCopyEnds \/ SigFinalEnds
  <2>1. /\ DOMAIN locSig' = DOMAIN locSig \cup {cur} /\ cutLoc'["sig"] = cutLoc["sig"] \ {cur}
        /\ pc' \in {"sigmove", "sigunlink"} /\ UNCHANGED <<remSig, sigPart>>
    BY <1>1, <1>4, CutTypes, CutStep DEF SigCopyEnds, SigFinalEnds, Goto, Write
  <2> QED BY <1>1, <1>2, <2>1 DEF LocalWhole
<1>5. CASE SigPutStarts \/ SigPutEnds
  <2>1. /\ DOMAIN remSig' \subseteq DOMAIN remSig \cup {cur}
        /\ pc' \in {"sigmoving", "sigdelete"} /\ UNCHANGED <<locSig, cutLoc, sigPart>>
    BY <1>5 DEF SigPutStarts, SigPutEnds, Goto, Write, Remove
  <2> QED BY <1>1, <1>2, <2>1 DEF LocalWhole
<1>6. CASE SigDelete
  <2>1. /\ DOMAIN locSig' = DOMAIN locSig \ {cur}
        /\ pc' = "sigfinal" /\ UNCHANGED <<remSig, cutLoc, sigPart>>
    BY <1>6 DEF SigDelete, Goto, Remove
  <2> QED BY <1>1, <1>2, <2>1 DEF LocalWhole
<1>7. CASE SigUnlink
  <2>1. /\ pc = "sigunlink" /\ sigPart' = sigPart \ {cur}
        /\ pc' = "mancopy" /\ UNCHANGED <<remSig, locSig, cutLoc>>
    BY <1>7 DEF SigUnlink, Goto
  <2>2. cur \in DOMAIN locSig
    BY <2>1 DEF IInv, CacheInv
  <2> QED BY <1>1, <1>2, <2>1, <2>2 DEF LocalWhole
<1> QED BY <1>3, <1>4, <1>5, <1>6, <1>7 DEF SendSig

\* Careful runs leave no signature cut off or missing.
LEMMA LocalNext == IInv /\ LineInv /\ [Next]_vars => LocalWhole'
<1> SUFFICES ASSUME IInv, LineInv, [Next]_vars PROVE LocalWhole'
  OBVIOUS
<1>1. LocalWhole
  BY DEF LineInv
<1>2. CASE Choose
  <2>1. ASSUME NEW rd, RestartFull(rd) \/ RestartInc(rd) \/ RestartUnsigned(rd) PROVE LocalWhole'
    BY <1>1, <2>1, LocalFrame DEF RestartFull, RestartInc, RestartUnsigned, Reopen, remote
  <2>2. ASSUME NEW rd, NewFull(rd) \/ NewInc(rd) PROVE LocalWhole'
    BY <1>1, <2>2, LocalFrame DEF NewFull, NewInc, NewSet, remote, local
  <2>3. ASSUME NEW rd, NoOldSignatures(rd) \/ OutOfTimes(rd) PROVE LocalWhole'
    BY <1>1, <2>3, LocalFrame DEF NoOldSignatures, OutOfTimes, remote, local
  <2>4. CASE CollectAsserts \/ RestartStray
    BY <1>1, <2>4, LocalFrame DEF CollectAsserts, RestartStray, remote, local
  <2> QED BY <1>2, <2>1, <2>2, <2>3, <2>4 DEF Choose
<1>3. CASE Check
  BY <1>1, <1>3, LocalFrame DEF Check, Resume, Refuse, StartOver, remote, local
<1>4. CASE Delete
  <2>1. CASE DeleteVolume \/ RunAgain
    BY <1>1, <2>1, LocalFrame DEF DeleteVolume, RunAgain, remote, local
  <2>2. CASE DeleteLocalSig
    <3>1. /\ pc = "delete" /\ pc' = "delete" /\ sigPart' = sigPart \ {cur} /\ remSig' = remSig
          /\ DOMAIN locSig' = DOMAIN locSig \ {cur} /\ cutLoc' = Mended(cutLoc, "sig", cur)
      BY <2>2 DEF DeleteLocalSig, Remove, remote
    <3>2. cur \in Times /\ cur \notin DOMAIN remSig
      BY <3>1 DEF LineInv, SigSent, IInv, WriterInv
    <3>3. cutLoc'["sig"] = cutLoc["sig"] \ {cur}
      BY <3>1, <3>2, CutTypes, CutStep
    <3> QED BY <1>1, <3>1, <3>2, <3>3 DEF LocalWhole
  <2>3. CASE DeleteLocalMan
    <3>1. /\ pc = "delete" /\ pc' = "delete" /\ UNCHANGED <<sigPart, remSig, locSig>>
          /\ cutLoc' = Mended(cutLoc, "man", cur)
      BY <2>3 DEF DeleteLocalMan, remote
    <3>2. cutLoc'["sig"] = cutLoc["sig"]
      BY <3>1, CutTypes, CutStep DEF IInv, WriterInv
    <3> QED BY <1>1, <3>1, <3>2 DEF LocalWhole
  <2> QED BY <1>4, <2>1, <2>2, <2>3 DEF Delete
<1>5. CASE WriteVolumes
  BY <1>1, <1>5, LocalFrame
     DEF WriteVolumes, MakeVolume, SignatureEnds, SigToPartial, ManToPartial, FlushManifest,
         UploadStarts, UploadEnds, remote, local
<1>6. CASE SendMan
  <2>1. CASE ManCopyStarts \/ ManCopyEnds
    <3>1. /\ pc \in SendingMan /\ pc' \in {"mancopying", "manmove"} /\ UNCHANGED <<sigPart, remSig, locSig>>
          /\ cutLoc' \in {CutOff(cutLoc, "man", cur), Mended(cutLoc, "man", cur)}
      BY <2>1 DEF ManCopyStarts, ManCopyEnds, Goto
    <3>2. cutLoc'["sig"] = cutLoc["sig"]
      BY <3>1, CutTypes, CutStep DEF IInv, WriterInv
    <3> QED BY <1>1, <3>1, <3>2 DEF LocalWhole
  <2>2. CASE ManPutStarts \/ ManPutEnds \/ ManDelete
    BY <1>1, <2>2, LocalFrame DEF ManPutStarts, ManPutEnds, ManDelete, Goto
  <2>3. CASE ManToFinal
    BY <1>1, <2>3, LocalFrame DEF ManToFinal, remote
  <2> QED BY <1>6, <2>1, <2>2, <2>3 DEF SendMan
<1>7. CASE Crash \/ \E c \in Commands : Begin(c)
  BY <1>1, <1>7, LocalFrame DEF Crash, Begin, remote, local
<1>8. CASE \E p \in Paths, v \in Versions : Edit(p, v)
  BY <1>1, <1>8, LocalFrame DEF Edit, remote, local
<1>9. CASE UNCHANGED vars
  BY <1>1, <1>9 DEF vars, remote, local, writer, LocalWhole
<1> QED BY <1>2, <1>3, <1>4, <1>5, <1>6, <1>7, <1>8, <1>9, LocalSync, LocalSendSig DEF Next, Run

-----------------------------------------------------------------------------
(* Careful runs keep the sets in a line. *)

\* Where nothing is being sent, no file of the remote is cut off.
LEMMA NothingCutOff ==
  ASSUME LineInv, pc \notin {"sigmoving", "manmoving"}
  PROVE  cutRem["sig"] = {} /\ cutRem["man"] = {}
BY DEF LineInv

\* A step that changes no name of a file.
LEMMA LineQuiet ==
  ASSUME LineInv, LocalWhole', ~frayed',
         UNCHANGED <<remMan, remSig, cutRem, manPart, sigPart, strayFull, base, clock, verdict>>,
         {pc, pc'} \cap ({"sigmoving", "manmoving"} \cup ManInPlace) = {},
         pc' \notin Unsafe => pc \notin Unsafe,
         pc' \in SendingMan => pc \in SendingMan,
         pc' \in SigSent <=> pc \in SigSent,
         Chosen' => Chosen /\ cur' = cur,
         pc' = "check" => pc = "check" /\ kind' = kind
  PROVE  LineInv'
<1>1. \A t : Follows(t)' <=> Follows(t)
  BY DEF Follows
<1>2. pc' \in SigSent => cur' = cur
  BY DEF SigSent, Chosen
<1>3. /\ ~asserted' /\ ~refused' /\ ~unreadable' /\ strayFull' = 0
      /\ DOMAIN manPart' \cup sigPart' \subseteq {clock'}
      /\ DOMAIN manPart' \cap DOMAIN remMan' = {}
      /\ pc' \notin Unsafe => sigPart' = DOMAIN manPart'
  BY DEF LineInv, verdict
<1>4. /\ pc' \in SendingMan \cup ManInPlace => sigPart' = {}
      /\ DOMAIN remSig' = DOMAIN remMan' \cup IF pc' \in SigSent THEN {cur'} ELSE {}
  BY <1>2 DEF LineInv
<1>5. \A t \in DOMAIN remMan' \cup DOMAIN manPart' : Follows(t)'
  BY <1>1 DEF LineInv
<1>6. Chosen' => cur' = clock' /\ Follows(cur)'
  BY <1>1 DEF LineInv
<1>7. pc' = "check" => (kind' = "full" <=> base'[cur'] = 0)
  BY DEF LineInv, Chosen
<1>8. /\ cutRem'["sig"] = IF pc' = "sigmoving" THEN {cur'} ELSE {}
      /\ cutRem'["man"] = IF pc' = "manmoving" THEN {cur'} ELSE {}
  BY NothingCutOff
<1> QED BY <1>3, <1>4, <1>5, <1>6, <1>7, <1>8 DEF LineInv

\* A set that is opened again is the last one.
LEMMA LineReopen ==
  ASSUME LineInv, LocalWhole', ~frayed', pc = "collect", NEW t \in DOMAIN manPart, Reopen(t),
         sigPart' = sigPart \cup {t}, strayFull' = strayFull,
         kind' = "full" <=> base[t] = 0
  PROVE  LineInv'
<1>1. /\ pc' = "check" /\ cur' = t
      /\ UNCHANGED <<remMan, remSig, cutRem, manPart, base, clock, verdict>>
  BY DEF Reopen, remote
<1>2. t = clock /\ Follows(t) /\ sigPart = DOMAIN manPart
  BY DEF LineInv, Unsafe
<1>3. \A u : Follows(u)' <=> Follows(u)
  BY <1>1 DEF Follows
<1>4. cutRem'["sig"] = {} /\ cutRem'["man"] = {}
  BY <1>1, NothingCutOff
<1> QED BY <1>1, <1>2, <1>3, <1>4 DEF LineInv, Unsafe, SigSent, Chosen, verdict

\* A new set is begun when no set is partial.
LEMMA NoneIsPartial ==
  ASSUME IInv, LineInv, CacheAgrees, pc = "collect", NEW rd \in Readings,
         LastSet(rd) \notin DOMAIN manPart
  PROVE  manPart = EmptyStore /\ HasManifest = DOMAIN remMan
<1>1. LastSet(rd) = End(HasManifest)
  BY Reads
<1>2. DOMAIN manPart = {}
  <2> SUFFICES ASSUME DOMAIN manPart # {} PROVE FALSE
    OBVIOUS
  <2>1. clock \in DOMAIN manPart
    BY DEF LineInv
  <2>2. clock \in HasManifest /\ \A t \in HasManifest : t <= clock
    BY <2>1, ManifestNames DEF IInv, VolumesInv
  <2>3. HasManifest \in SUBSET (1..MaxTime) /\ MaxTime \in Nat
    BY SetsInLine, SizesAssumption
  <2>4. End(HasManifest) \in HasManifest /\ clock <= End(HasManifest)
    BY <2>2, <2>3, EndIsGreatest
  <2>5. End(HasManifest) = clock
    <3>1. End(HasManifest) <= clock /\ End(HasManifest) \in Nat /\ clock \in Nat
      <4>1. \A t \in HasManifest : t \in Nat
        BY <2>3
      <4> QED BY <2>2, <2>4, <4>1
    <3>2. \A x, y \in Nat : x <= y /\ y <= x => x = y
      OBVIOUS
    <3> QED BY <2>4, <3>1, <3>2
  <2> QED BY <1>1, <2>1, <2>5
<1>3. manPart = [t \in DOMAIN manPart |-> manPart[t]]
  BY DEF IInv, TypeOK, FilesOK, IsManifests
<1>4. manPart = EmptyStore
  BY <1>2, <1>3 DEF EmptyStore
<1> QED BY <1>2, <1>4, ManifestNames

\* A new set starts a segment, or comes after the last set.
LEMMA LineNewSet ==
  ASSUME IInv, LineInv, LocalWhole', pc = "collect", manPart = EmptyStore, NEW b, NEW tree,
         NewSet(clock + 1, b, tree, {}),
         b = 0 \/ (b \in DOMAIN remMan /\ \A u \in DOMAIN remMan : u <= b)
  PROVE  LineInv'
<1>1. /\ pc' = "volume" /\ cur' = clock + 1 /\ clock' = clock + 1
      /\ base' = [base EXCEPT ![clock + 1] = b]
      /\ UNCHANGED <<remMan, remSig, cutRem, manPart, sigPart, strayFull, verdict>> /\ ~frayed'
  BY DEF NewSet, remote, local
<1>2. DOMAIN manPart = {} /\ sigPart = {} /\ DOMAIN remSig = DOMAIN remMan
  BY DEF LineInv, Unsafe, SigSent, EmptyStore
<1>3. clock \in Nat /\ clock + 1 \in Times /\ DOMAIN remMan \subseteq Times /\ base \in [Times -> 0..MaxTime]
  BY SizesAssumption DEF IInv, TypeOK, HistoryOK, FilesOK, IsManifests, NewSet, Times
<1>4. \A u \in DOMAIN remMan : u <= clock /\ u # clock + 1 /\ u < clock + 1
  <2>1. \A u \in DOMAIN remMan : u <= clock /\ u \in Nat
    BY <1>3 DEF IInv, VolumesInv, Times
  <2> QED BY <1>3, <2>1
<1>5. base'[clock + 1] = b /\ \A u \in DOMAIN remMan : base'[u] = base[u]
  BY <1>1, <1>3, <1>4
<1>6. Follows(cur)'
  BY <1>1, <1>4, <1>5 DEF Follows
<1>7. \A t \in DOMAIN remMan : Follows(t)'
  BY <1>1, <1>5 DEF LineInv, Follows
<1>8. cutRem'["sig"] = {} /\ cutRem'["man"] = {}
  BY <1>1, NothingCutOff
<1> QED BY <1>1, <1>2, <1>6, <1>7, <1>8 DEF LineInv, Unsafe, SigSent, Chosen, verdict

\* The choice of the set: none is orphaned, and no run ends in an error.
LEMMA LineChoose == IInv /\ LineInv /\ LocalWhole' /\ CacheAgrees /\ Choose => LineInv'
<1> SUFFICES ASSUME IInv, LineInv, LocalWhole', CacheAgrees, Choose PROVE LineInv'
  OBVIOUS
<1>1. CASE CollectAsserts
  <2>1. pc = "collect" /\ Conflicts # {}
    BY <1>1 DEF CollectAsserts
  <2>2. cutRem["man"] = {}
    BY <2>1, NothingCutOff
  <2> QED BY <2>1, <2>2 DEF LineInv, Conflicts, RemoteNames
<1>2. CASE RestartStray
  BY <1>2 DEF RestartStray, LineInv
<1>3. ASSUME NEW rd \in Readings, RestartFull(rd) \/ RestartInc(rd) PROVE LineInv'
  <2>1. ~frayed'
    <3>1. RestartFull(rd) => frayed' = frayed
      BY DEF RestartFull
    <3>2. RestartInc(rd) => frayed' = (TornSigs(rd) # {}) /\ pc = "collect"
      BY DEF RestartInc
    <3> QED BY <1>3, <3>1, <3>2, NoTornSigs DEF LineInv
  <2> QED BY <1>3, <2>1, LineReopen DEF RestartFull, RestartInc
<1>4. ASSUME NEW rd \in Readings, RestartUnsigned(rd) PROVE LineInv'
  <2>1. pc = "collect" /\ LastSet(rd) \in DOMAIN manPart /\ ~HasSigs(rd)
    BY <1>4 DEF RestartUnsigned
  <2>2. HasManifest # {}
    BY <2>1, ManifestNames
  <2> QED BY <2>1, <2>2, Reads
<1>5. ASSUME NEW rd \in Readings, NewFull(rd) PROVE LineInv'
  <2>1. pc = "collect" /\ LastSet(rd) \notin DOMAIN manPart /\ NewSet(clock + 1, 0, NoTree, {})
    BY <1>5 DEF NewFull
  <2>2. manPart = EmptyStore
    BY <2>1, NoneIsPartial
  <2> QED BY <2>1, <2>2, LineNewSet
<1>6. ASSUME NEW rd \in Readings, NewInc(rd) PROVE LineInv'
  <2>1. /\ pc = "collect" /\ LastSet(rd) \notin DOMAIN manPart /\ HasSigs(rd)
        /\ NewSet(clock + 1, MatchedEnd(rd), Signed(rd), TornSigs(rd))
    BY <1>6 DEF NewInc
  <2>2. manPart = EmptyStore /\ HasManifest = DOMAIN remMan
    BY <2>1, NoneIsPartial
  <2>3. MatchedEnd(rd) = End(DOMAIN remMan) /\ DOMAIN remMan # {}
    BY <2>1, <2>2, Reads
  <2>4. /\ End(DOMAIN remMan) \in DOMAIN remMan
        /\ \A u \in DOMAIN remMan : u <= End(DOMAIN remMan)
    <3>1. DOMAIN remMan \in SUBSET (1..MaxTime) /\ MaxTime \in Nat
      BY <2>2, SetsInLine, SizesAssumption
    <3> QED BY <2>3, <3>1, EndIsGreatest
  <2>5. TornSigs(rd) = {}
    BY <2>1, NoTornSigs
  <2> QED BY <2>1, <2>2, <2>3, <2>4, <2>5, LineNewSet
<1>7. ASSUME NEW rd \in Readings, NoOldSignatures(rd) \/ OutOfTimes(rd) PROVE LineInv'
  BY <1>7, LineQuiet
     DEF NoOldSignatures, OutOfTimes, Forget, remote, local, Unsafe, SigSent, Chosen
<1> QED BY <1>1, <1>2, <1>3, <1>4, <1>5, <1>6, <1>7 DEF Choose

\* Only what is partial is deleted.
LEMMA LineDelete == IInv /\ LineInv /\ LocalWhole' /\ Delete => LineInv'
<1> SUFFICES ASSUME IInv, LineInv, LocalWhole', Delete PROVE LineInv'
  OBVIOUS
<1>1. CASE DeleteVolume
  <2>1. ~frayed' /\ pc = "delete" /\ pc' = "delete"
    BY <1>1 DEF DeleteVolume, writer, LineInv
  <2> QED BY <1>1, <2>1, LineQuiet DEF DeleteVolume, local, writer, Unsafe, SigSent, Chosen
<1>2. CASE DeleteLocalSig \/ DeleteLocalMan
  <2>1. /\ pc = "delete" /\ pc' = "delete"
        /\ UNCHANGED <<remMan, remSig, cutRem, strayFull, base, clock, verdict, cur, frayed>>
        /\ sigPart' \subseteq sigPart /\ DOMAIN manPart' \subseteq DOMAIN manPart
    BY <1>2 DEF DeleteLocalSig, DeleteLocalMan, remote, writer, Remove
  <2>2. \A t : Follows(t)' <=> Follows(t)
    BY <2>1 DEF Follows
  <2>3. cutRem'["sig"] = {} /\ cutRem'["man"] = {}
    BY <2>1, NothingCutOff
  <2> QED BY <2>1, <2>2, <2>3 DEF LineInv, Unsafe, SigSent, Chosen, verdict
<1>3. CASE RunAgain
  <2>1. /\ pc = "delete" /\ pc' = "sync" /\ cur \notin sigPart /\ cur \notin DOMAIN manPart /\ ~frayed'
        /\ UNCHANGED <<remMan, remSig, cutRem, manPart, sigPart, strayFull, base, clock, verdict>>
    BY <1>3 DEF RunAgain, Forget, remote, local, LocalSigs
  <2>2. sigPart = {} /\ DOMAIN manPart = {}
    BY <2>1 DEF LineInv, Chosen
  <2>3. \A t : Follows(t)' <=> Follows(t)
    BY <2>1 DEF Follows
  <2>4. cutRem'["sig"] = {} /\ cutRem'["man"] = {}
    BY <2>1, NothingCutOff
  <2> QED BY <2>1, <2>2, <2>3, <2>4 DEF LineInv, Unsafe, SigSent, Chosen, verdict
<1> QED BY <1>1, <1>2, <1>3 DEF Delete

\* The .part files appear one after the other.
LEMMA LineWriteVolumes == IInv /\ LineInv /\ LocalWhole' /\ WriteVolumes => LineInv'
<1> SUFFICES ASSUME IInv, LineInv, LocalWhole', WriteVolumes PROVE LineInv'
  OBVIOUS
<1>1. CASE MakeVolume
  <2>1. ~frayed' /\ cur' = cur
    BY <1>1 DEF MakeVolume, LineInv
  <2> QED BY <1>1, <2>1, LineQuiet DEF MakeVolume, remote, local, Unsafe, SigSent, Chosen
<1>2. CASE SigToPartial \/ ManToPartial \/ FlushManifest
  <2>1. /\ pc \in {"sigpart", "manpart", "flush"}
        /\ UNCHANGED <<remMan, remSig, cutRem, strayFull, base, clock, verdict, cur, frayed>>
    BY <1>2 DEF SigToPartial, ManToPartial, FlushManifest, remote, writer
  <2>2. \A t : Follows(t)' <=> Follows(t)
    BY <2>1 DEF Follows
  <2>3. cutRem'["sig"] = {} /\ cutRem'["man"] = {}
    BY <2>1, NothingCutOff
  <2>4. CASE SigToPartial
    <3>1. pc = "sigpart" /\ pc' = "manpart" /\ sigPart' = sigPart \cup {cur} /\ manPart' = manPart
      BY <2>4 DEF SigToPartial
    <3> QED BY <2>1, <2>2, <2>3, <3>1 DEF LineInv, Unsafe, SigSent, Chosen, verdict
  <2>5. CASE ManToPartial
    <3>1. /\ pc = "manpart" /\ pc' = "flush" /\ sigPart' = sigPart
          /\ DOMAIN manPart' = DOMAIN manPart \cup {cur}
      BY <2>5 DEF ManToPartial, Write
    <3>2. cur \in sigPart /\ cur \notin DOMAIN remMan
      BY <3>1 DEF IInv, WriterInv
    <3> QED BY <2>1, <2>2, <2>3, <3>1, <3>2 DEF LineInv, Unsafe, SigSent, Chosen, verdict
  <2>6. CASE FlushManifest
    <3>1. /\ pc = "flush" /\ pc' = "upload" /\ sigPart' = sigPart
          /\ DOMAIN manPart' = DOMAIN manPart
      BY <2>6 DEF FlushManifest
    <3> QED BY <2>1, <2>2, <2>3, <3>1 DEF LineInv, Unsafe, SigSent, Chosen, verdict
  <2> QED BY <1>2, <2>4, <2>5, <2>6
<1>3. CASE UploadStarts \/ UploadEnds
  <2>1. ~frayed'
    BY <1>3 DEF UploadStarts, UploadEnds, writer, LineInv
  <2> QED BY <1>3, <2>1, LineQuiet
          DEF UploadStarts, UploadEnds, local, writer, Unsafe, SigSent, Chosen
<1>4. CASE SignatureEnds
  BY <1>4 DEF SignatureEnds, LineInv
<1> QED BY <1>1, <1>2, <1>3, <1>4 DEF WriteVolumes

\* The signature is sent, and its .part file goes.
LEMMA LineSendSig == IInv /\ LineInv /\ LocalWhole' /\ SendSig => LineInv'
<1> SUFFICES ASSUME IInv, LineInv, LocalWhole', SendSig PROVE LineInv'
  OBVIOUS
<1>1. /\ pc \in SendingSig /\ cur \in Times /\ cur \in sigPart
      /\ cur \notin DOMAIN remMan
      /\ UNCHANGED <<remMan, manPart, strayFull, base, clock, verdict, cur, frayed>>
  BY DEF SendSig, SigCopyStarts, SigCopyEnds, SigPutStarts, SigPutEnds, SigDelete,
         SigFinalStarts, SigFinalEnds, SigUnlink, Goto, writer, IInv, WriterInv
<1>2. \A t : Follows(t)' <=> Follows(t)
  BY <1>1 DEF Follows
<1>3. CASE SigCopyStarts \/ SigCopyEnds \/ SigDelete \/ SigFinalStarts \/ SigFinalEnds
  <2>1. ~frayed' /\ UNCHANGED <<remSig, cutRem, sigPart>>
    BY <1>1, <1>3 DEF SigCopyStarts, SigCopyEnds, SigDelete, SigFinalStarts, SigFinalEnds, LineInv
  <2> QED BY <1>1, <1>3, <2>1, LineQuiet
          DEF SigCopyStarts, SigCopyEnds, SigDelete, SigFinalStarts, SigFinalEnds, Goto,
              Unsafe, SigSent, Chosen
<1>4. CASE SigPutStarts
  <2>1. /\ pc = "sigmove" /\ pc' = "sigmoving" /\ sigPart' = sigPart
        /\ DOMAIN remSig' = DOMAIN remSig \ {cur} /\ cutRem' = CutOff(cutRem, "sig", cur)
    BY <1>4 DEF SigPutStarts, Goto, Remove
  <2>2. cutRem'["sig"] = {cur} /\ cutRem'["man"] = {}
    BY <1>1, <2>1, CutTypes, CutStep, NothingCutOff
  <2> QED BY <1>1, <1>2, <2>1, <2>2 DEF LineInv, Unsafe, SigSent, Chosen, verdict
<1>5. CASE SigPutEnds
  <2>1. /\ pc = "sigmoving" /\ pc' = "sigdelete" /\ sigPart' = sigPart
        /\ DOMAIN remSig' = DOMAIN remSig \cup {cur} /\ cutRem' = Mended(cutRem, "sig", cur)
    BY <1>5 DEF SigPutEnds, Goto, Write
  <2>2. cutRem["sig"] = {cur} /\ cutRem["man"] = {}
    BY <2>1 DEF LineInv
  <2>3. cutRem'["sig"] = {} /\ cutRem'["man"] = {}
    BY <1>1, <2>1, <2>2, CutTypes, CutStep
  <2> QED BY <1>1, <1>2, <2>1, <2>3 DEF LineInv, Unsafe, SigSent, Chosen, verdict
<1>6. CASE SigUnlink
  <2>1. /\ pc = "sigunlink" /\ pc' = "mancopy" /\ sigPart' = sigPart \ {cur}
        /\ UNCHANGED <<remSig, cutRem>>
    BY <1>6 DEF SigUnlink, Goto
  <2>2. cutRem'["sig"] = {} /\ cutRem'["man"] = {}
    BY <2>1, NothingCutOff
  <2> QED BY <1>1, <1>2, <2>1, <2>2 DEF LineInv, Unsafe, SigSent, Chosen, verdict
<1> QED BY <1>3, <1>4, <1>5, <1>6 DEF SendSig

\* The instant the manifest is on the remote, its set is the last of the line.
LEMMA LineManPutEnds == IInv /\ LineInv /\ LocalWhole' /\ ManPutEnds => LineInv'
<1> SUFFICES ASSUME IInv, LineInv, LocalWhole', ManPutEnds PROVE LineInv'
  OBVIOUS
<1>1. /\ pc = "manmoving" /\ pc' = "mandelete"
      /\ DOMAIN remMan' = DOMAIN remMan \cup {cur} /\ cutRem' = Mended(cutRem, "man", cur)
      /\ UNCHANGED <<remSig, sigPart, manPart, strayFull, base, clock, verdict, cur, frayed>>
  BY DEF ManPutEnds, Goto, writer, Write
<1>2. cur = clock /\ DOMAIN manPart \subseteq {cur} /\ Follows(cur) /\ \A t \in DOMAIN remMan : Follows(t)
  BY <1>1 DEF LineInv, Chosen
<1>3. \A t \in DOMAIN remMan \cup {cur} : ~(cur < t)
  <2>1. \A t \in DOMAIN remMan \cup {cur} : t <= clock /\ t \in Nat
    <3>1. clock \in Nat /\ clock <= clock /\ DOMAIN remMan \subseteq Nat
      BY DEF IInv, TypeOK, HistoryOK, FilesOK, IsManifests, Times
    <3> QED BY <1>2, <3>1 DEF IInv, VolumesInv
  <2>2. clock \in Nat
    BY <1>2, <2>1
  <2>3. \A x, y \in Nat : ~(x < y /\ y <= x)
    OBVIOUS
  <2> QED BY <1>2, <2>1, <2>2, <2>3
<1>4. \A t \in DOMAIN remMan \cup {cur} : Follows(t)'
  BY <1>1, <1>2, <1>3 DEF Follows
<1>5. cutRem'["sig"] = {} /\ cutRem'["man"] = {}
  <2>1. cutRem["sig"] = {} /\ cutRem["man"] = {cur} /\ cur \in Times
    BY <1>1 DEF LineInv, IInv, WriterInv
  <2> QED BY <1>1, <2>1, CutTypes, CutStep
<1> QED BY <1>1, <1>2, <1>4, <1>5 DEF LineInv, Unsafe, SigSent, Chosen, verdict

\* The manifest is sent, and its .part file goes.
LEMMA LineSendMan == IInv /\ LineInv /\ LocalWhole' /\ SendMan => LineInv'
<1> SUFFICES ASSUME IInv, LineInv, LocalWhole', SendMan PROVE LineInv'
  OBVIOUS
<1>1. CASE ManCopyStarts \/ ManCopyEnds
  <2>1. ~frayed'
    BY <1>1 DEF ManCopyStarts, ManCopyEnds, Goto, writer, LineInv
  <2> QED BY <1>1, <2>1, LineQuiet
          DEF ManCopyStarts, ManCopyEnds, Goto, writer, Unsafe, SigSent, Chosen
<1>2. CASE ManPutStarts
  <2>1. /\ pc = "manmove" /\ pc' = "manmoving" /\ cutRem' = CutOff(cutRem, "man", cur)
        /\ UNCHANGED <<remSig, sigPart, manPart, strayFull, base, clock, verdict, cur, frayed>>
        /\ remMan' = Remove(remMan, cur)
    BY <1>2 DEF ManPutStarts, Goto, writer
  <2>2. cur \in Times /\ cur \notin DOMAIN remMan
    BY <2>1 DEF IInv, WriterInv
  <2>3. DOMAIN remMan' = DOMAIN remMan
    BY <2>1, <2>2 DEF Remove
  <2>4. \A t : Follows(t)' <=> Follows(t)
    BY <2>1, <2>3 DEF Follows
  <2>5. cutRem'["sig"] = {} /\ cutRem'["man"] = {cur}
    BY <2>1, <2>2, CutTypes, CutStep, NothingCutOff
  <2> QED BY <2>1, <2>3, <2>4, <2>5 DEF LineInv, Unsafe, SigSent, Chosen, verdict
<1>3. CASE ManDelete
  <2>1. /\ pc = "mandelete" /\ pc' = "manfinal"
        /\ UNCHANGED <<remMan, remSig, cutRem, sigPart, manPart, strayFull, base, clock, verdict, cur, frayed>>
    BY <1>3 DEF ManDelete, Goto, writer
  <2>2. \A t : Follows(t)' <=> Follows(t)
    BY <2>1 DEF Follows
  <2>3. cutRem'["sig"] = {} /\ cutRem'["man"] = {}
    BY <2>1, NothingCutOff
  <2> QED BY <2>1, <2>2, <2>3 DEF LineInv, Unsafe, SigSent, Chosen, verdict
<1>4. CASE ManToFinal
  <2>1. /\ pc = "manfinal" /\ pc' = "idle" /\ DOMAIN manPart' = DOMAIN manPart \ {cur} /\ ~frayed'
        /\ UNCHANGED <<remMan, remSig, cutRem, sigPart, strayFull, base, clock, verdict>>
    BY <1>4 DEF ManToFinal, Forget, remote, Remove
  <2>2. \A t : Follows(t)' <=> Follows(t)
    BY <2>1 DEF Follows
  <2>3. DOMAIN manPart' = {} /\ sigPart = {}
    BY <2>1 DEF LineInv, Chosen
  <2>4. cutRem'["sig"] = {} /\ cutRem'["man"] = {}
    BY <2>1, NothingCutOff
  <2> QED BY <2>1, <2>2, <2>3, <2>4 DEF LineInv, Unsafe, SigSent, Chosen, verdict
<1> QED BY <1>1, <1>2, <1>3, <1>4, LineManPutEnds DEF SendMan

\* sync_archive and the check of a restart change none of this.
LEMMA LineSyncAndCheck ==
  ASSUME IInv, LineInv, LocalWhole', Sync \/ Check
  PROVE  LineInv'
<1>1. CASE Sync
  <2>1. ASSUME NEW k \in Kinds, NEW t \in Times, FetchStarts(k, t) \/ FetchFails(k, t) PROVE FALSE
    BY <2>1, NothingMissing DEF FetchStarts, FetchFails
  <2>2. ASSUME NEW k \in Kinds, FetchEnds(k) PROVE FALSE
    BY <2>2 DEF FetchEnds, LineInv, LocalWhole, IInv, CacheInv, Kinds
  <2>3. /\ pc = "sync" /\ pc' \in {"sync", "collect"} /\ ~frayed'
        /\ UNCHANGED <<remMan, remSig, cutRem, manPart, sigPart, strayFull, base, clock, verdict>>
    BY <1>1, <2>1, <2>2 DEF Sync, RemoveLocal, Synchronised, remote, local, writer, LineInv
  <2> QED BY <2>3, LineQuiet DEF Unsafe, SigSent, Chosen
<1>2. CASE Resume
  <2>1. ~frayed'
    BY <1>2 DEF Resume, LineInv
  <2> QED BY <1>2, <2>1, LineQuiet DEF Resume, remote, local, Unsafe, SigSent, Chosen
<1>3. CASE Refuse
  BY <1>3 DEF Refuse, LineInv
<1>4. CASE StartOver
  <2>1. ~frayed'
    BY <1>4 DEF StartOver, writer, LineInv
  <2> QED BY <1>4, <2>1, LineQuiet DEF StartOver, remote, local, writer, Unsafe, SigSent, Chosen
<1> QED BY <1>1, <1>2, <1>3, <1>4 DEF Check

\* Careful runs keep the sets in a line.
LEMMA LineNext == Careful /\ IInv /\ LineInv /\ CacheAgrees /\ [Next]_vars => LineInv'
<1> SUFFICES ASSUME Careful, IInv, LineInv, CacheAgrees, [Next]_vars PROVE LineInv'
  OBVIOUS
<1>0. LocalWhole'
  BY LocalNext
<1>1. CASE \/ \E p \in Paths, v \in Versions : Edit(p, v)
           \/ \E c \in Commands : Begin(c)
  <2>1. ~frayed'
    BY <1>1 DEF Edit, Begin, writer, LineInv
  <2> QED BY <1>0, <1>1, <2>1, LineQuiet
          DEF Edit, Begin, remote, local, writer, Unsafe, SigSent, Chosen
<1>2. CASE Crash
  BY <1>0, <1>2, LineQuiet DEF Crash, Forget, Careful, remote, local, Unsafe, SigSent, Chosen
<1>3. CASE UNCHANGED vars
  <2>1. \A t : Follows(t)' <=> Follows(t)
    BY <1>3 DEF vars, remote, Follows
  <2> QED BY <1>0, <1>3, <2>1
          DEF vars, remote, local, writer, verdict, LineInv, Unsafe, SigSent, Chosen
<1> QED BY <1>0, <1>1, <1>2, <1>3, LineChoose, LineDelete, LineWriteVolumes, LineSendSig,
           LineSendMan, LineSyncAndCheck
        DEF Next, Run

-----------------------------------------------------------------------------
(* What the sets hold. *)

\* The tree that set t starts from.
Before(t) == IF base[t] = 0 THEN NoTree ELSE wanted[base[t]]

\* The paths that have changed since, of those that set t must restore.
Wants(t) == {p \in DOMAIN wanted[t] : wanted[t][p] # Before(t)[p]}

\* The sets whose content is followed: the full ones, and all when runs are careful.
Followed(t) == base[t] = 0 \/ Careful

\* The paths that have a block in a volume of manifest m.
Covered(m) == UNION {DOMAIN m[k].data : k \in DOMAIN m}

\* The blocks of m's volumes are those of the source.
Agrees(m, t) ==
  \A k \in DOMAIN m : \A p \in DOMAIN m[k].data \cap DOMAIN wanted[t] :
    m[k].data[p] = wanted[t][p]

\* The paths up to the end index of a volume are in the volumes up to it.
UpTo(m, t) ==
  \A k \in DOMAIN m : \A p \in Wants(t) :
    p <= m[k].last => \E j \in DOMAIN m : j <= k /\ p \in DOMAIN m[j].data

\* Of the sets that are begun: what they want is the source, until they are complete.
WantedInv ==
  /\ DOMAIN remMan \cup DOMAIN manPart \subseteq DOMAIN wanted
  /\ pc \notin NoSet => cur \in DOMAIN wanted
  /\ \A t \in DOMAIN wanted \ DOMAIN remMan : \A p \in DOMAIN wanted[t] :
       wanted[t][p] = source[p]
  /\ Careful => /\ \A t \in DOMAIN remMan \cup DOMAIN manPart : DOMAIN wanted[t] = Paths
                /\ Chosen => DOMAIN wanted[cur] = Paths

\* Of the manifests, complete and partial.
ListedInv ==
  /\ \A t \in DOMAIN remMan :
       Agrees(remMan[t], t) /\ (Followed(t) => Wants(t) \subseteq Covered(remMan[t]))
  /\ \A t \in DOMAIN manPart :
       Agrees(manPart[t], t) /\ (Followed(t) => UpTo(manPart[t], t))

Making == {"sigpart", "manpart", "flush", "upload", "uploading"}

\* Of the set that the run writes.
WritingInv ==
  /\ pc \notin BeforeWriting =>
       /\ Agrees(mf, cur)
       /\ Followed(cur) => UpTo(mf, cur) /\ Wants(cur) \subseteq todo \cup Covered(mf)
  /\ pc = "check" /\ Followed(cur) => Wants(cur) \subseteq todo
  /\ pc \in Making /\ atEnd => todo = {}
  /\ pc \in Sending /\ Followed(cur) => Wants(cur) \subseteq Covered(manPart[cur])

\* A signature tells what has changed in set t.
Tells(sig, t) ==
  Wants(t) \subseteq DOMAIN sig /\ \A p \in DOMAIN sig : sig[p] = wanted[t][p]

\* Of the signatures, those on the remote and the one that is written.
SignedInv ==
  /\ \A t \in DOMAIN remSig : Tells(remSig[t], t)
  /\ Chosen => Tells(newSig, cur)

ContentInv == WantedInv /\ ListedInv /\ WritingInv /\ (Careful => SignedInv)

-----------------------------------------------------------------------------
(* Steps that leave a part of the state alone. *)

\* At the start there is no content.
LEMMA InitContent == Init => ContentInv
BY DEF Init, ContentInv, WantedInv, ListedInv, WritingInv, SignedInv, EmptyStore, Making,
       Chosen

\* Nothing else is wanted when no set is begun or completed.
LEMMA WantedFrame ==
  ASSUME WantedInv, UNCHANGED <<source, remMan, wanted>>, DOMAIN manPart' \subseteq DOMAIN manPart,
         pc' \in NoSet \/ (cur' = cur /\ pc \notin NoSet)
  PROVE  WantedInv'
BY DEF WantedInv, Chosen

\* The manifests list what they did.
LEMMA ListedFrame ==
  ASSUME ListedInv, UNCHANGED <<remMan, manPart, base, wanted>>
  PROVE  ListedInv'
BY DEF ListedInv, Agrees, UpTo, Wants, Covered, Before, Followed

\* Before it writes, a run knows only the set that it opens again.
LEMMA NothingWritten ==
  ASSUME pc' \in NoSet \cup {"delete"}
  PROVE  WritingInv'
BY DEF WritingInv, Making

\* The signatures tell what they did.
LEMMA SignedFrame ==
  ASSUME SignedInv, UNCHANGED <<remSig, base, wanted>>,
         Chosen' => Chosen /\ cur' = cur /\ newSig' = newSig
  PROVE  SignedInv'
BY DEF SignedInv, Tells, Wants, Before

\* A step that touches no file the invariant is about, and does not write.
LEMMA QuietStep ==
  ASSUME ContentInv, UNCHANGED <<source, remMan, remSig, manPart, base, wanted>>,
         \/ pc' \in NoSet
         \/ pc' = "delete" /\ cur' = cur /\ newSig' = newSig /\ pc \in {"check", "delete"}
  PROVE  ContentInv'
<1>1. WantedInv'
  BY WantedFrame DEF ContentInv
<1>2. ListedInv'
  BY ListedFrame DEF ContentInv
<1>3. WritingInv'
  BY NothingWritten
<1>4. Careful => SignedInv'
  BY SignedFrame DEF ContentInv, Chosen
<1> QED BY <1>1, <1>2, <1>3, <1>4 DEF ContentInv

\* A step of a run that writes, between two files of the invariant.
LEMMA SendingStep ==
  ASSUME ContentInv, UNCHANGED <<source, remMan, manPart, base, wanted, writer>>,
         pc \notin BeforeWriting, pc' \notin BeforeWriting,
         pc' \in Making => pc \in Making,
         pc' \in Sending => pc \in Sending,
         remSig' = remSig \/ (Careful => SignedInv')
  PROVE  ContentInv'
<1>1. WantedInv'
  BY WantedFrame DEF ContentInv, writer
<1>2. ListedInv'
  BY ListedFrame DEF ContentInv
<1>3. WritingInv'
  BY DEF ContentInv, WritingInv, writer, Agrees, UpTo, Wants, Covered, Before, Followed
<1>4. Careful => SignedInv'
  BY SignedFrame DEF ContentInv, Chosen, writer
<1> QED BY <1>1, <1>2, <1>3, <1>4 DEF ContentInv

-----------------------------------------------------------------------------
(* What the sets of a line say together. *)

\* A set that is not in H leaves w as it was in the set before.
Kept(S, b, H, w) ==
  \A u \in S : u \notin H => w[u] = IF b[u] = 0 THEN 0 ELSE w[b[u]]

\* The sets of a segment that are in H, up to t.
Sayers(S, b, r, H, t) == {u \in Segment(S, b, r) : u \in H /\ u <= t}

\* What the last of these sets says.
Told(S, b, r, H, w, t) ==
  IF Sayers(S, b, r, H, t) = {} THEN 0 ELSE w[End(Sayers(S, b, r, H, t))]

\* Where a set that does not say what a path is leaves it as it was, the last set up to
\* t that says so tells what it is in t.
LEMMA LastWord ==
  ASSUME NEW S \in SUBSET (Nat \ {0}), NEW b, Line(S, b), NEW r \in Roots(S, b),
         NEW H, NEW w, Kept(S, b, H, w), NEW t \in Segment(S, b, r)
  PROVE  Told(S, b, r, H, w, t) = w[t]
<1> DEFINE C == Segment(S, b, r)
           G(x) == {u \in C : u \in H /\ u <= x}
           Good(x) == (G(x) = {} => w[x] = 0) /\ (G(x) # {} => w[End(G(x))] = w[x])
           Bad == {x \in C : ~Good(x)}
<1>2. /\ r \in C /\ r \in S /\ b[r] = 0 /\ C \subseteq S
      /\ \A u \in C : r <= u /\ (b[u] = 0 => u = r)
  <2>1. r \in C /\ r \in S /\ b[r] = 0 /\ \A u \in C : b[u] = 0 => u = r
    BY OneRoot
  <2> QED BY <2>1 DEF Segment
<1>3. \A u \in S \ {r} : b[u] # 0 => (u \in C <=> b[u] \in C)
  BY SameSegment
<1> HIDE DEF C
<1>4. SUFFICES ASSUME Bad # {} PROVE FALSE
  <2>1. t \in C /\ Sayers(S, b, r, H, t) = G(t)
    BY DEF C, Sayers
  <2> HIDE DEF G
  <2> QED BY <2>1 DEF Told
<1>5. PICK x \in Bad : \A q \in Bad : ~(q < x)
  <2>1. Bad \subseteq Nat \ {0}
    BY <1>2
  <2> HIDE DEF Bad
  <2>2. PICK y \in Bad : TRUE
    BY <1>4
  <2> DEFINE Low == {q \in Bad : q <= y}
  <2>3. Low \in SUBSET (1..y) /\ y \in Low /\ y \in Nat
    <3>1. \A q \in Bad : q \in Nat /\ 1 <= q
      BY <2>1
    <3> QED BY <3>1
  <2> HIDE DEF Low
  <2>4. PICK x \in Low : \A q \in Low : ~(q < x)
    BY <2>3, HasLeast
  <2>5. \A q \in Bad : q < x => q <= y
    <3>1. \A i, j, k \in Nat : i < j /\ j <= k => i <= k
      OBVIOUS
    <3> QED BY <2>1, <2>3, <3>1 DEF Low
  <2> QED BY <2>4, <2>5 DEF Low
<1>6. x \in C /\ x \in S /\ x \in Nat /\ ~Good(x)
  BY <1>2, <1>5
<1>7. CASE x \in H
  <2>1. G(x) \in SUBSET (1..x) /\ x \in G(x) /\ \A u \in G(x) : u <= x
    <3>1. x <= x
      BY <1>6
    <3>2. \A u \in C : u \in Nat /\ 1 <= u
      BY <1>2
    <3>3. ASSUME NEW u \in G(x) PROVE u \in 1..x
      <4>1. u \in C /\ u <= x
        BY <3>3
      <4> HIDE DEF G
      <4> QED BY <1>6, <3>2, <4>1
    <3> QED BY <1>6, <1>7, <3>1, <3>3
  <2>2. End(G(x)) = x
    <3> HIDE DEF G
    <3>1. End(G(x)) \in G(x) /\ x <= End(G(x)) /\ End(G(x)) <= x
      <4>1. G(x) # {}
        BY <2>1
      <4>2. End(G(x)) \in G(x) /\ \A u \in G(x) : u <= End(G(x))
        BY <1>6, <2>1, <4>1, EndIsGreatest
      <4> QED BY <2>1, <4>2
    <3>2. End(G(x)) \in Nat
      BY <2>1, <3>1
    <3>3. \A i, j \in Nat : i <= j /\ j <= i => i = j
      OBVIOUS
    <3> QED BY <1>6, <3>1, <3>2, <3>3
  <2> QED BY <1>6, <2>1, <2>2
<1>8. CASE x \notin H /\ b[x] = 0
  <2>1. x = r /\ w[x] = 0
    BY <1>2, <1>6, <1>8 DEF Kept
  <2>2. \A u \in G(x) : u = x
    <3>1. \A u \in C : x <= u /\ u \in Nat
      BY <1>2, <2>1
    <3>2. \A i, j \in Nat : i <= j /\ j <= i => i = j
      OBVIOUS
    <3> QED BY <1>6, <3>1, <3>2
  <2>3. G(x) = {}
    BY <1>8, <2>2
  <2> QED BY <1>6, <2>1, <2>3
<1>9. CASE x \notin H /\ b[x] # 0
  <2>1. b[x] \in S /\ b[x] < x /\ \A u \in S : u < x => u <= b[x]
    BY <1>6, <1>9 DEF Line
  <2>2. b[x] \in C
    BY <1>2, <1>3, <1>6, <1>9
  <2>3. Good(b[x])
    BY <1>5, <2>1, <2>2
  <2>4. \A u \in S : u # x => (u <= x <=> u <= b[x])
    <3>1. b[x] \in Nat
      BY <2>1
    <3>2. \A i, j, k \in Nat : k < j => (i # j /\ i <= j => i < j) /\ (i <= k => i <= j)
      OBVIOUS
    <3> QED BY <1>6, <2>1, <3>1, <3>2
  <2>5. G(x) = G(b[x])
    BY <1>2, <1>9, <2>4
  <2>6. w[x] = w[b[x]]
    BY <1>6, <1>9 DEF Kept
  <2> HIDE DEF G
  <2> QED BY <1>6, <2>3, <2>5, <2>6
<1> QED BY <1>7, <1>8, <1>9

\* A set before a complete one is complete.
LEMMA EarlierComplete ==
  ASSUME IInv, LineInv, NEW u \in HasManifest, NEW t \in DOMAIN remMan, u <= t
  PROVE  u \in DOMAIN remMan
<1>1. u \notin DOMAIN remMan => u = clock
  BY ManifestNames DEF LineInv
<1>2. t <= clock /\ t \in Nat /\ clock \in Nat
  BY DEF IInv, TypeOK, FilesOK, HistoryOK, IsManifests, VolumesInv, Times
<1>3. \A i, j \in Nat : i <= j /\ j <= i => i = j
  OBVIOUS
<1> QED BY <1>1, <1>2, <1>3

\* The complete sets of a segment are a segment of the complete sets.
LEMMA CompleteSegment ==
  ASSUME IInv, LineInv, NEW r \in Roots(HasManifest, base),
         NEW t \in DOMAIN remMan, t \in Segment(HasManifest, base, r)
  PROVE  /\ r \in Roots(DOMAIN remMan, base)
         /\ \A u : u \in Segment(DOMAIN remMan, base, r) <=>
                     u \in Segment(HasManifest, base, r) /\ u \in DOMAIN remMan
<1>1. r <= t /\ r \in HasManifest /\ base[r] = 0
  BY DEF Segment, Roots
<1>2. r \in DOMAIN remMan
  BY <1>1, EarlierComplete
<1>3. \A q : q \in Roots(DOMAIN remMan, base) => q \in Roots(HasManifest, base)
  BY ManifestNames DEF Roots
<1>4. \A u \in DOMAIN remMan : \A q \in Roots(HasManifest, base) :
        q <= u => q \in Roots(DOMAIN remMan, base)
  <2>1. \A u \in DOMAIN remMan : \A q \in HasManifest : q <= u => q \in DOMAIN remMan
    BY EarlierComplete
  <2> QED BY <2>1 DEF Roots
<1>5. DOMAIN remMan \subseteq HasManifest
  BY ManifestNames
<1> QED BY <1>1, <1>2, <1>3, <1>4, <1>5 DEF Segment, Roots

\* What a set does not want is as it was in the set before.
LEMMA Unwanted ==
  ASSUME IInv, WantedInv, Careful, NEW t \in DOMAIN remMan, NEW p \in Paths, p \notin Wants(t)
  PROVE  wanted[t][p] = IF base[t] = 0 THEN 0 ELSE wanted[base[t]][p]
<1>1. p \in DOMAIN wanted[t]
  BY DEF WantedInv
<1>2. wanted[t][p] = Before(t)[p]
  BY <1>1 DEF Wants
<1> QED BY <1>2 DEF Before, NoTree

\* The tree that the signatures describe is the one of the last complete set that they
\* describe.
LEMMA SignedTree ==
  ASSUME IInv, LineInv, CacheAgrees, Careful, WantedInv, SignedInv, pc = "collect",
         NEW rd \in Readings, HasManifest # {},
         NEW e \in DOMAIN remMan, e \in rd.local,
         \A u \in DOMAIN remMan : u \in rd.local => u <= e
  PROVE  Signed(rd) = wanted[e]
<1> DEFINE sigs == Keep(locSig, DOMAIN locSig \ sigPart)
<1>1. PICK r \in Roots(HasManifest, base) : rd.local = Segment(HasManifest, base, r)
  BY Reads
<1>2. Signed(rd) = Combined(rd.local, sigs)
  BY Reads DEF Signed
<1>3. DOMAIN sigs = DOMAIN remMan /\ \A u \in DOMAIN remMan : sigs[u] = remSig[u] /\ u \in DOMAIN remSig
  <2>1. DOMAIN remSig = DOMAIN remMan /\ sigPart \cap DOMAIN remMan = {}
    BY DEF LineInv, SigSent, Unsafe
  <2>2. /\ DOMAIN locSig \subseteq DOMAIN remSig /\ \A u \in DOMAIN locSig : locSig[u] = remSig[u]
        /\ DOMAIN remSig \subseteq DOMAIN locSig \cup sigPart
    BY DEF CacheAgrees, LineInv, LocalWhole
  <2> QED BY <2>1, <2>2 DEF Keep
<1> HIDE DEF sigs
<1>4. \A u \in DOMAIN remMan : Wants(u) \subseteq DOMAIN sigs[u] /\ \A p \in DOMAIN sigs[u] : sigs[u][p] = wanted[u][p]
  BY <1>3 DEF SignedInv, Tells
<1>5. /\ r \in Roots(DOMAIN remMan, base)
      /\ \A u : u \in Segment(DOMAIN remMan, base, r) <=> u \in rd.local /\ u \in DOMAIN remMan
  BY <1>1, CompleteSegment
<1>6. DOMAIN remMan \in SUBSET (1..MaxTime) /\ MaxTime \in Nat /\ Line(DOMAIN remMan, base)
  BY SetsInLine, SizesAssumption, ManifestNames
<1>7. ASSUME NEW p \in Paths PROVE Combined(rd.local, sigs)[p] = wanted[e][p]
  <2> DEFINE S == {t \in rd.local \cap DOMAIN sigs : p \in DOMAIN sigs[t]}
             H == {t \in DOMAIN remMan : p \in DOMAIN sigs[t]}
             w == [t \in DOMAIN remMan |-> wanted[t][p]]
             G == Sayers(DOMAIN remMan, base, r, H, e)
  <2>1. G = S
    BY <1>3, <1>5 DEF Sayers
  <2>2. Kept(DOMAIN remMan, base, H, w)
    <3> SUFFICES ASSUME NEW u \in DOMAIN remMan, u \notin H
                 PROVE  w[u] = IF base[u] = 0 THEN 0 ELSE w[base[u]]
      BY DEF Kept
    <3>1. p \notin Wants(u)
      BY <1>4
    <3>2. base[u] # 0 => base[u] \in DOMAIN remMan
      BY <1>6 DEF Line
    <3> QED BY <3>1, <3>2, Unwanted
  <2>3. (G = {} => w[e] = 0) /\ (G # {} => w[End(G)] = w[e])
    <3>1. e \in Segment(DOMAIN remMan, base, r) /\ DOMAIN remMan \in SUBSET (Nat \ {0})
      BY <1>5, <1>6
    <3> HIDE DEF H, w
    <3>2. Told(DOMAIN remMan, base, r, H, w, e) = w[e]
      BY <1>5, <1>6, <2>2, <3>1, LastWord
    <3> QED BY <3>2 DEF Told
  <2>4. S # {} => End(S) \in S
    <3>1. S \in SUBSET (1..MaxTime)
      BY <1>3, <1>6
    <3> HIDE DEF S
    <3> QED BY <1>6, <3>1, EndIsGreatest
  <2>5. Combined(rd.local, sigs)[p] = IF S = {} THEN 0 ELSE sigs[End(S)][p]
    BY DEF Combined
  <2>6. S # {} => sigs[End(S)][p] = wanted[End(S)][p] /\ End(S) \in DOMAIN remMan
    BY <1>3, <1>4, <2>4
  <2> HIDE DEF S, G
  <2> QED BY <2>1, <2>3, <2>5, <2>6
<1>8. wanted[e] = [p \in Paths |-> wanted[e][p]]
  <2>1. wanted[e] \in Data /\ DOMAIN wanted[e] = Paths
    BY DEF IInv, TypeOK, HistoryOK, IsStore, WantedInv
  <2> QED BY <2>1 DEF Data, Store
<1>9. Combined(rd.local, sigs) = [p \in Paths |-> Combined(rd.local, sigs)[p]]
  BY DEF Combined
<1> QED BY <1>2, <1>7, <1>8, <1>9

-----------------------------------------------------------------------------
(* Runs begin. *)

\* A set that is followed starts from a complete one.
LEMMA StartsComplete ==
  ASSUME Careful => LineInv
  PROVE  /\ \A t \in DOMAIN remMan \cup DOMAIN manPart :
              Followed(t) /\ base[t] # 0 => base[t] \in DOMAIN remMan
         /\ Careful /\ pc \notin SigSent => DOMAIN remSig = DOMAIN remMan
BY DEF LineInv, Follows, Followed

\* A path that changes is no longer wanted of the sets that are not complete.
LEMMA EditContent ==
  ASSUME IInv, Careful => LineInv, ContentInv, NEW p \in Paths, NEW v \in Versions, Edit(p, v)
  PROVE  ContentInv'
<1>1. /\ pc = "idle" /\ UNCHANGED <<remMan, remSig, manPart, base, pc>>
      /\ source' = [source EXCEPT ![p] = v]
      /\ wanted' = [t \in DOMAIN wanted |->
                      IF t \in DOMAIN remMan THEN wanted[t] ELSE Remove(wanted[t], p)]
      /\ Careful => manPart = EmptyStore
  BY DEF Edit, remote, local, Careful
<1>2. DOMAIN wanted' = DOMAIN wanted
  BY <1>1
<1>3. \A t \in DOMAIN wanted :
        /\ DOMAIN wanted'[t] \subseteq DOMAIN wanted[t]
        /\ \A q \in DOMAIN wanted'[t] : wanted'[t][q] = wanted[t][q]
        /\ t \notin DOMAIN remMan => p \notin DOMAIN wanted'[t]
        /\ t \in DOMAIN remMan => wanted'[t] = wanted[t]
  BY <1>1 DEF Remove
<1>4. \A q : q # p => source'[q] = source[q]
  BY <1>1 DEF IInv, TypeOK, FilesOK
<1>5. DOMAIN remMan \cup DOMAIN manPart \subseteq DOMAIN wanted
  BY DEF ContentInv, WantedInv
<1>6. WantedInv'
  <2>1. Careful => DOMAIN manPart = {}
    BY <1>1 DEF EmptyStore
  <2> QED BY <1>1, <1>2, <1>3, <1>4, <2>1 DEF ContentInv, WantedInv, Chosen
<1>7. \A t \in DOMAIN remMan \cup DOMAIN manPart : Followed(t) => Before(t)' = Before(t)
  <2>1. \A t \in DOMAIN remMan \cup DOMAIN manPart :
          Followed(t) /\ base[t] # 0 => wanted'[base[t]] = wanted[base[t]]
    BY <1>3, <1>5, StartsComplete
  <2> QED BY <1>1, <2>1 DEF Before
<1>8. \A t \in DOMAIN remMan \cup DOMAIN manPart : Followed(t) => Wants(t)' \subseteq Wants(t)
  BY <1>3, <1>5, <1>7 DEF Wants
<1>9. ListedInv'
  <2>1. \A t \in DOMAIN manPart : Agrees(manPart[t], t)' /\ (Followed(t)' => UpTo(manPart[t], t)')
    BY <1>1, <1>3, <1>5, <1>8 DEF ContentInv, ListedInv, Agrees, UpTo, Followed
  <2>2. \A t \in DOMAIN remMan : Agrees(remMan[t], t)'
    BY <1>1, <1>3, <1>5 DEF ContentInv, ListedInv, Agrees
  <2>3. \A t \in DOMAIN remMan : Followed(t)' => Wants(t)' \subseteq Covered(remMan[t])
    BY <1>1, <1>8 DEF ContentInv, ListedInv, Followed
  <2>4. \A t : Covered(remMan[t])' = Covered(remMan[t])
    BY <1>1 DEF Covered
  <2> QED BY <1>1, <2>1, <2>2, <2>3, <2>4 DEF ListedInv
<1>10. WritingInv'
  BY <1>1, NothingWritten
<1>11. Careful => SignedInv'
  <2> SUFFICES ASSUME Careful PROVE SignedInv'
    OBVIOUS
  <2>1. DOMAIN remSig = DOMAIN remMan
    BY <1>1, StartsComplete DEF SigSent
  <2>2. \A t \in DOMAIN remMan : Tells(remSig[t], t)'
    <3>1. \A t \in DOMAIN remMan : Tells(remSig[t], t) /\ wanted'[t] = wanted[t] /\ Wants(t)' \subseteq Wants(t)
      BY <1>3, <1>5, <1>8, <2>1 DEF ContentInv, SignedInv, Followed
    <3> QED BY <1>1, <3>1 DEF Tells
  <2> QED BY <1>1, <2>1, <2>2 DEF SignedInv, Chosen
<1> QED BY <1>6, <1>9, <1>10, <1>11 DEF ContentInv

\* A set that is opened again wants the paths that differ from the tree it starts from.
LEMMA ReopenContent ==
  ASSUME IInv, ContentInv, NEW t \in DOMAIN manPart, pc = "collect", Conflicts = {},
         Reopen(t), Followed(t) => todo' = Delta(Before(t)),
         newSig' = [p \in todo' |-> source[p]]
  PROVE  ContentInv'
<1>1. /\ pc' = "check" /\ cur' = t
      /\ UNCHANGED <<source, remMan, remSig, manPart, base, wanted>>
  BY DEF Reopen, remote
<1>2. t \in DOMAIN wanted /\ t \notin DOMAIN remMan
  BY DEF ContentInv, WantedInv, Conflicts, RemoteNames
<1>3. WantedInv'
  BY <1>1, <1>2 DEF ContentInv, WantedInv
<1>4. ListedInv'
  BY <1>1, ListedFrame DEF ContentInv
<1>5. \A p \in DOMAIN wanted[t] : p \in Paths /\ wanted[t][p] = source[p]
  BY <1>2 DEF ContentInv, WantedInv, IInv, TypeOK, HistoryOK, IsStore, Data, Store
<1>6. Followed(t) => Wants(t) \subseteq todo'
  BY <1>5 DEF Wants, Delta
<1>7. WritingInv'
  BY <1>1, <1>6 DEF WritingInv, Making, Wants, Before, Followed
<1>8. Careful => SignedInv'
  <2> SUFFICES ASSUME Careful PROVE SignedInv'
    OBVIOUS
  <2>1. todo' \subseteq Paths /\ DOMAIN wanted[t] = Paths /\ Wants(t) \subseteq todo'
    BY <1>6 DEF Delta, ContentInv, WantedInv, Followed
  <2>2. Tells(newSig', t)
    BY <1>5, <2>1 DEF Tells
  <2>3. \A sig, u : Tells(sig, u)' <=> Tells(sig', u')
    BY <1>1 DEF Tells, Wants, Before
  <2> QED BY <1>1, <2>2 DEF ContentInv, SignedInv, Tells, Wants, Before
<1> QED BY <1>3, <1>4, <1>7, <1>8 DEF ContentInv

\* A new set wants the source; it is to write what differs from the tree that it starts
\* from.
LEMMA NewSetContent ==
  ASSUME IInv, Careful => LineInv, ContentInv, pc = "collect", NEW b \in {0} \cup DOMAIN remMan,
         NEW tree, NEW torn, NewSet(clock + 1, b, tree, torn),
         b = 0 => tree = NoTree, Careful /\ b # 0 => tree = wanted[b]
  PROVE  ContentInv'
<1> DEFINE t == clock + 1
<1>1. /\ pc' = "volume" /\ cur' = t /\ wanted' = Write(wanted, t, source)
      /\ base' = [base EXCEPT ![t] = b] /\ todo' = Delta(tree) /\ t <= MaxTime
      /\ newSig' = [p \in todo' |-> source[p]]
      /\ UNCHANGED <<source, remMan, remSig, manPart, mf, atEnd>>
  BY DEF NewSet, remote, local
<1>2. t \in Times /\ t \notin DOMAIN remMan /\ t \notin DOMAIN manPart
  <2>1. clock \in Nat /\ t \in Times
    BY <1>1, SizesAssumption DEF IInv, TypeOK, HistoryOK, Times
  <2>2. \A u \in DOMAIN remMan \cup DOMAIN manPart : u <= clock
    BY DEF IInv, VolumesInv
  <2> QED BY <2>1, <2>2
<1> HIDE DEF t
<1>3. /\ DOMAIN wanted' = DOMAIN wanted \cup {t} /\ wanted'[t] = source
      /\ \A u \in DOMAIN wanted \ {t} : wanted'[u] = wanted[u]
  BY <1>1 DEF Write
<1>4. base'[t] = b /\ \A u \in Times \ {t} : base'[u] = base[u]
  BY <1>1, <1>2 DEF IInv, TypeOK, HistoryOK
<1>5. DOMAIN source = Paths
  BY DEF IInv, TypeOK, FilesOK
<1>6. \A u \in DOMAIN remMan \cup DOMAIN manPart :
        /\ u \in DOMAIN wanted /\ wanted'[u] = wanted[u] /\ base'[u] = base[u]
  BY <1>2, <1>3, <1>4 DEF ContentInv, WantedInv, IInv, TypeOK, FilesOK, IsManifests
<1>7. WantedInv'
  BY <1>1, <1>3, <1>5, <1>6 DEF ContentInv, WantedInv
<1>8. \A u \in DOMAIN remMan \cup DOMAIN manPart :
        (Followed(u)' <=> Followed(u)) /\ (Followed(u) => Wants(u)' = Wants(u))
  <2>1. \A u \in DOMAIN remMan \cup DOMAIN manPart :
          Followed(u) /\ base[u] # 0 => wanted'[base[u]] = wanted[base[u]]
    BY <1>6, StartsComplete
  <2>2. \A u \in DOMAIN remMan \cup DOMAIN manPart : Followed(u) => Before(u)' = Before(u)
    BY <1>6, <2>1 DEF Before
  <2> QED BY <1>6, <2>2 DEF Wants, Followed
<1>9. ListedInv'
  <2>1. \A u \in DOMAIN remMan :
          Agrees(remMan[u], u)' /\ (Followed(u)' => Wants(u)' \subseteq Covered(remMan[u])')
    BY <1>1, <1>6, <1>8 DEF ContentInv, ListedInv, Agrees, Covered
  <2>2. \A u \in DOMAIN manPart : Agrees(manPart[u], u)' /\ (Followed(u)' => UpTo(manPart[u], u)')
    BY <1>1, <1>6, <1>8 DEF ContentInv, ListedInv, Agrees, UpTo
  <2> QED BY <1>1, <2>1, <2>2 DEF ListedInv
<1>10. Followed(cur)' => Wants(cur)' = todo'
  <2> SUFFICES ASSUME Followed(cur)' PROVE Wants(cur)' = todo'
    OBVIOUS
  <2>1. base'[cur'] = b /\ wanted'[cur'] = source
    BY <1>1, <1>3, <1>4
  <2>2. b # 0 => wanted'[b] = wanted[b] /\ Careful
    BY <1>6, <2>1 DEF Followed
  <2>3. Before(cur)' = tree
    BY <2>1, <2>2 DEF Before
  <2> QED BY <1>1, <1>5, <2>1, <2>3 DEF Wants, Delta
<1>11. WritingInv'
  <2>1. mf' = EmptyStore /\ DOMAIN EmptyStore = {}
    BY <1>1 DEF IInv, WriterInv, EmptyStore
  <2>2. Agrees(mf, cur)' /\ UpTo(mf, cur)'
    BY <2>1 DEF Agrees, UpTo
  <2>3. pc' = "volume"
    BY <1>1
  <2> QED BY <1>10, <2>2, <2>3 DEF WritingInv, Making
<1>12. Careful => SignedInv'
  <2> SUFFICES ASSUME Careful PROVE SignedInv'
    OBVIOUS
  <2>1. DOMAIN remSig = DOMAIN remMan
    BY StartsComplete DEF SigSent
  <2>2. \A u \in DOMAIN remMan : Tells(remSig[u], u)'
    <3>1. \A u \in DOMAIN remMan : Tells(remSig[u], u) /\ wanted'[u] = wanted[u] /\ Wants(u)' = Wants(u)
      BY <1>6, <1>8, <2>1 DEF ContentInv, SignedInv, Followed
    <3> QED BY <1>1, <3>1 DEF Tells
  <2>3. Tells(newSig, cur)'
    <3>1. Wants(cur)' = todo' /\ wanted'[cur'] = source
      BY <1>1, <1>3, <1>10 DEF Followed
    <3> QED BY <1>1, <3>1 DEF Tells
  <2> QED BY <1>1, <2>1, <2>2, <2>3 DEF SignedInv
<1> QED BY <1>7, <1>9, <1>11, <1>12 DEF ContentInv

\* An incremental set that is opened again is the last one, and the signatures describe
\* the tree that it starts from.
LEMMA RestartIncTree ==
  ASSUME IInv, LineInv, CacheAgrees, Careful, ContentInv, NEW rd \in Readings, RestartInc(rd)
  PROVE  Signed(rd) = Before(LastSet(rd))
<1> DEFINE t == LastSet(rd)
           e == base[t]
<1>1. pc = "collect" /\ t \in DOMAIN manPart /\ e # 0 /\ Conflicts = {}
  BY DEF RestartInc
<1>2. t = End(HasManifest) /\ t = End(rd.local)
  BY <1>1, Reads
<1>3. HasManifest # {} /\ t \in HasManifest /\ t \notin DOMAIN remMan
  BY <1>1, ManifestNames DEF Conflicts, RemoteNames
<1>4. PICK r \in Roots(HasManifest, base) : rd.local = Segment(HasManifest, base, r)
  BY <1>1, <1>3, Reads
<1>5. HasManifest \in SUBSET (1..MaxTime) /\ MaxTime \in Nat /\ Line(HasManifest, base)
  BY SetsInLine, SizesAssumption
<1>6. rd.local \in SUBSET (1..MaxTime) /\ rd.local # {}
  <2>1. HasManifest \in SUBSET (Nat \ {0})
    BY <1>5
  <2>2. r \in rd.local
    <3>1. r \in Nat
      BY <2>1 DEF Roots
    <3>2. r <= r
      BY <3>1
    <3> QED BY <1>4, <3>2 DEF Segment, Roots
  <2> QED BY <1>4, <1>5, <2>2 DEF Segment
<1>7. t \in rd.local /\ \A u \in rd.local : u <= t
  BY <1>2, <1>5, <1>6, EndIsGreatest
<1>8. e \in DOMAIN remMan /\ \A u \in DOMAIN remMan : u < t => u <= e
  BY <1>1 DEF LineInv, Follows
<1>9. e \in rd.local
  <2>1. HasManifest \in SUBSET (Nat \ {0})
    BY <1>5
  <2>2. \A u \in HasManifest : base[u] # 0 =>
          (u \in Segment(HasManifest, base, r) <=> base[u] \in Segment(HasManifest, base, r))
    BY <1>5, <2>1, SameSegment
  <2> QED BY <1>1, <1>3, <1>4, <1>7, <2>2
<1>10. \A u \in DOMAIN remMan : u \in rd.local => u <= e
  <2>1. \A u \in rd.local : u \in Nat
    BY <1>6
  <2>2. \A x, y \in Nat : x <= y /\ x # y => x < y
    OBVIOUS
  <2> QED BY <1>3, <1>7, <1>8, <2>1, <2>2
<1> HIDE DEF t, e
<1>11. Signed(rd) = wanted[e]
  BY <1>1, <1>3, <1>8, <1>9, <1>10, SignedTree DEF ContentInv
<1> QED BY <1>1, <1>11 DEF Before, t, e

\* A new incremental set starts from the last complete one, which is the tree that the
\* signatures describe.
LEMMA NewIncTree ==
  ASSUME IInv, LineInv, CacheAgrees, Careful, ContentInv, NEW rd \in Readings, NewInc(rd)
  PROVE  Signed(rd) = wanted[MatchedEnd(rd)]
<1> DEFINE e == MatchedEnd(rd)
<1>1. pc = "collect" /\ e \in DOMAIN remMan
  BY DEF NewInc, CheckManifests
<1>2. HasManifest # {}
  BY <1>1, ManifestNames
<1>3. e = End(rd.local)
  BY <1>1, Reads
<1>4. PICK r \in Roots(HasManifest, base) : rd.local = Segment(HasManifest, base, r)
  BY <1>1, <1>2, Reads
<1>5. HasManifest \in SUBSET (1..MaxTime) /\ MaxTime \in Nat
  BY SetsInLine, SizesAssumption
<1>6. rd.local \in SUBSET (1..MaxTime) /\ rd.local # {}
  <2>1. HasManifest \in SUBSET (Nat \ {0})
    BY <1>5
  <2>2. r \in rd.local
    <3>1. r \in Nat
      BY <2>1 DEF Roots
    <3>2. r <= r
      BY <3>1
    <3> QED BY <1>4, <3>2 DEF Segment, Roots
  <2> QED BY <1>4, <1>5, <2>2 DEF Segment
<1>7. e \in rd.local /\ \A u \in rd.local : u <= e
  BY <1>3, <1>5, <1>6, EndIsGreatest
<1> HIDE DEF e
<1>8. Signed(rd) = wanted[e]
  BY <1>1, <1>2, <1>7, SignedTree DEF ContentInv
<1> QED BY <1>8 DEF e

\* The set that a run goes on with has the right paths to write.
LEMMA ChooseContent ==
  ASSUME IInv, Careful => LineInv, CacheAgrees, ContentInv, Choose
  PROVE  ContentInv'
<1>1. CASE CollectAsserts \/ RestartStray
  BY <1>1, QuietStep DEF CollectAsserts, RestartStray, remote, local
<1>2. ASSUME NEW rd \in Readings, RestartFull(rd) PROVE ContentInv'
  BY <1>2, ReopenContent DEF RestartFull, Before
<1>3. ASSUME NEW rd \in Readings, RestartInc(rd) PROVE ContentInv'
  <2> DEFINE t == LastSet(rd)
  <2>1. /\ t \in DOMAIN manPart /\ pc = "collect" /\ Conflicts = {} /\ Reopen(t) /\ base[t] # 0
        /\ todo' = Delta(Signed(rd)) /\ newSig' = [p \in todo' |-> source[p]]
    BY <1>3 DEF RestartInc
  <2>2. Followed(t) => Signed(rd) = Before(t)
    BY <1>3, <2>1, RestartIncTree DEF Followed
  <2> HIDE DEF t
  <2> QED BY <2>1, <2>2, ReopenContent
<1>4. ASSUME NEW rd \in Readings, RestartUnsigned(rd) PROVE ContentInv'
  <2> DEFINE t == LastSet(rd)
  <2>1. /\ t \in DOMAIN manPart /\ pc = "collect" /\ Conflicts = {} /\ Reopen(t) /\ base[t] # 0
        /\ ~HasSigs(rd) /\ newSig' = [p \in todo' |-> source[p]]
    BY <1>4 DEF RestartUnsigned
  <2>2. ~Followed(t)
    <3>1. HasManifest # {}
      BY <2>1, ManifestNames
    <3> QED BY <2>1, <3>1, Reads DEF Followed
  <2> HIDE DEF t
  <2> QED BY <2>1, <2>2, ReopenContent
<1>5. ASSUME NEW rd \in Readings, NewFull(rd) PROVE ContentInv'
  BY <1>5, NewSetContent DEF NewFull
<1>6. ASSUME NEW rd \in Readings, NewInc(rd) PROVE ContentInv'
  <2> DEFINE e == MatchedEnd(rd)
  <2>1. e \in DOMAIN remMan /\ e # 0 /\ NewSet(clock + 1, e, Signed(rd), TornSigs(rd)) /\ pc = "collect"
    BY <1>6 DEF NewInc, CheckManifests, IInv, TypeOK, FilesOK, IsManifests, Times
  <2>2. Careful => Signed(rd) = wanted[e]
    BY <1>6, NewIncTree
  <2> HIDE DEF e
  <2>3. e \in {0} \cup DOMAIN remMan /\ (e = 0 => Signed(rd) = NoTree)
    BY <2>1
  <2>4. Careful /\ e # 0 => Signed(rd) = wanted[e]
    BY <2>2
  <2> QED BY <2>1, <2>3, <2>4, NewSetContent
<1>7. ASSUME NEW rd \in Readings, NoOldSignatures(rd) \/ OutOfTimes(rd) PROVE ContentInv'
  BY <1>7, QuietStep DEF NoOldSignatures, OutOfTimes, remote, local
<1> QED BY <1>1, <1>2, <1>3, <1>4, <1>5, <1>6, <1>7 DEF Choose

-----------------------------------------------------------------------------
(* A restart. *)

\* The volumes that a restart keeps have the paths up to the end index of the last of
\* them; the paths above it are still to be written.
LEMMA ResumeContent == IInv /\ ContentInv /\ Resume => ContentInv'
<1> SUFFICES ASSUME IInv, ContentInv, Resume PROVE ContentInv'
  OBVIOUS
<1> DEFINE n == StartVol(cur)
           kept == Keep(manPart[cur], 1..n)
<1>1. /\ pc = "check" /\ ~Hopeless(cur) /\ pc' = "volume"
      /\ mf' = kept /\ todo' = PathsAfter(kept[n].last) /\ vol' = n
      /\ UNCHANGED <<source, remMan, remSig, manPart, base, wanted, cur, newSig, atEnd>>
  BY DEF Resume, remote, local
<1>2. cur \in DOMAIN manPart
  BY <1>1 DEF IInv, WriterInv
<1>3. IInv'
  BY ResumeInv
<1>4. DOMAIN kept = 1..n /\ n \in Nat \ {0} /\ \A k \in 1..n : kept[k] = manPart[cur][k]
  <2>1. DOMAIN mf' = 1..vol'
    BY <1>1, <1>3 DEF IInv, WriterInv
  <2>2. n \in 0..MaxVol /\ n # 0
    BY <1>1, <1>3 DEF IInv, TypeOK, RunOK, Hopeless
  <2> QED BY <1>1, <2>1, <2>2, SizesAssumption DEF Keep
<1> HIDE DEF n
<1>5. WantedInv'
  BY <1>1, WantedFrame DEF ContentInv
<1>6. ListedInv'
  BY <1>1, ListedFrame DEF ContentInv
<1>7. Agrees(kept, cur) /\ (Followed(cur) => UpTo(kept, cur))
  <2>1. Agrees(manPart[cur], cur) /\ (Followed(cur) => UpTo(manPart[cur], cur))
    BY <1>2 DEF ContentInv, ListedInv
  <2>2. \A k \in DOMAIN kept : k \in DOMAIN manPart[cur] /\ kept[k] = manPart[cur][k]
    BY <1>4 DEF Keep
  <2>3. Agrees(kept, cur)
    BY <2>1, <2>2 DEF Agrees
  <2>4. ASSUME Followed(cur), NEW k \in DOMAIN kept, NEW p \in Wants(cur), p <= kept[k].last
        PROVE  \E j \in DOMAIN kept : j <= k /\ p \in DOMAIN kept[j].data
    <3>1. PICK j \in DOMAIN manPart[cur] : j <= k /\ p \in DOMAIN manPart[cur][j].data
      BY <2>1, <2>2, <2>4 DEF UpTo
    <3>2. j \in 1..n
      <4>1. j \in Nat \ {0}
        BY <1>2 DEF IInv, TypeOK, FilesOK, IsManifests, IsManifest, IsStore, Volumes
      <4> QED BY <1>4, <3>1, <4>1
    <3> QED BY <1>4, <3>1, <3>2
  <2> HIDE DEF kept
  <2> QED BY <2>3, <2>4 DEF UpTo
<1>8. Followed(cur) => Wants(cur) \subseteq todo' \cup Covered(kept)
  <2> SUFFICES ASSUME Followed(cur), NEW p \in Wants(cur), ~(p > kept[n].last)
               PROVE  p \in Covered(kept)
    BY <1>1 DEF PathsAfter, ContentInv, WritingInv
  <2>1. p <= kept[n].last
    <3>1. p \in Nat
      <4>1. cur \in DOMAIN wanted
        BY <1>1 DEF ContentInv, WantedInv
      <4>2. wanted[cur] \in Data
        BY <4>1 DEF IInv, TypeOK, HistoryOK, IsStore
      <4>3. p \in Paths
        BY <4>2 DEF Wants, Data, Store
      <4> QED BY <4>3 DEF Paths
    <3>2. kept[n].last \in Nat
      <4>1. n \in DOMAIN mf' /\ mf' = kept
        BY <1>1, <1>4
      <4>2. kept[n] \in VolumeInfo
        BY <1>3, <4>1 DEF IInv, TypeOK, RunOK, IsManifest, IsStore
      <4> QED BY <4>2, SizesAssumption DEF VolumeInfo
    <3> QED BY <3>1, <3>2
  <2>2. n \in DOMAIN kept
    BY <1>4
  <2>3. \E j \in DOMAIN kept : p \in DOMAIN kept[j].data
    BY <1>7, <2>1, <2>2 DEF UpTo
  <2> HIDE DEF kept
  <2> QED BY <2>3 DEF Covered
<1> HIDE DEF kept
<1>9. WritingInv'
  BY <1>1, <1>7, <1>8 DEF WritingInv, Making, Agrees, UpTo, Wants, Covered, Before, Followed
<1>10. Careful => SignedInv'
  BY <1>1, SignedFrame DEF ContentInv, Chosen
<1> QED BY <1>5, <1>6, <1>9, <1>10 DEF ContentInv

-----------------------------------------------------------------------------
(* Writing the volumes. *)

\* The next blocks are the first of those that are left: all of them, when there are
\* fewer than a volume holds, and none only when none is left.
LEMMA BlocksInOrder ==
  ASSUME IInv
  PROVE  /\ NextBlocks \subseteq todo /\ IsFiniteSet(todo)
         /\ \A p \in todo, e \in NextBlocks : p <= e => p \in NextBlocks
         /\ Cardinality(todo) < VolSize => NextBlocks = todo
         /\ NextBlocks = {} => todo = {}
<1> DEFINE Below(p) == {q \in todo : q < p}
<1>1. todo \subseteq Paths /\ NextBlocks \subseteq todo
  BY DEF IInv, TypeOK, RunOK, NextBlocks
<1>2. IsFiniteSet(todo)
  <2>1. IsFiniteSet(Paths)
    BY FS_Interval, SizesAssumption DEF Paths
  <2> QED BY <1>1, <2>1, FS_Subset
<1>3. \A p : Below(p) \subseteq todo /\ IsFiniteSet(Below(p))
  <2>1. \A p : Below(p) \subseteq todo
    OBVIOUS
  <2> HIDE DEF Below
  <2> QED BY <1>2, <2>1, FS_Subset
<1>4. \A p : Cardinality(Below(p)) \in Nat /\ Cardinality(Below(p)) <= Cardinality(todo)
  <2> HIDE DEF Below
  <2> QED BY <1>2, <1>3, FS_Subset, FS_CardinalityType
<1>5. ASSUME NEW p \in todo, NEW e \in NextBlocks, p <= e PROVE p \in NextBlocks
  <2>1. Below(p) \subseteq Below(e)
    <3>1. p \in Nat /\ e \in Nat /\ todo \subseteq Nat
      BY <1>1, <1>5 DEF Paths
    <3>2. \A q \in todo : q < p => q < e
      BY <1>5, <3>1
    <3> QED BY <3>2
  <2>2. Cardinality(Below(p)) <= Cardinality(Below(e))
    <3> HIDE DEF Below
    <3> QED BY <1>3, <2>1, FS_Subset
  <2>3. Cardinality(Below(e)) < VolSize
    BY DEF NextBlocks
  <2>4. Cardinality(Below(p)) < VolSize
    <3> HIDE DEF Below
    <3> QED BY <1>4, <2>2, <2>3, SizesAssumption
  <2> QED BY <2>4 DEF NextBlocks
<1>6. ASSUME Cardinality(todo) < VolSize PROVE todo \subseteq NextBlocks
  <2>1. Cardinality(todo) \in Nat
    BY <1>2, FS_CardinalityType
  <2>2. \A p : Cardinality(Below(p)) < VolSize
    <3> HIDE DEF Below
    <3> QED BY <1>4, <1>6, <2>1, SizesAssumption
  <2> QED BY <2>2 DEF NextBlocks
<1>7. ASSUME todo # {} PROVE NextBlocks # {}
  <2>1. PICK e \in todo : \A q \in todo : ~(q < e)
    BY <1>1, <1>7, HasLeast, SizesAssumption DEF Paths
  <2>2. Below(e) = {}
    BY <2>1
  <2>3. Cardinality({q \in todo : q < e}) = 0
    BY <2>2, FS_EmptySet
  <2>4. e \in NextBlocks
    BY <2>3, SizesAssumption DEF NextBlocks
  <2> QED BY <2>4
<1> QED BY <1>1, <1>2, <1>5, <1>6, <1>7

\* The volume that is made has the next paths of the source; when there are none left
\* for it, the volumes have them all.
LEMMA MakeVolumeContent == IInv /\ ContentInv /\ MakeVolume => ContentInv'
<1> SUFFICES ASSUME IInv, ContentInv, MakeVolume PROVE ContentInv'
  OBVIOUS
<1> DEFINE data == [p \in NextBlocks |-> source[p]]
           k == vol + 1
<1>1. /\ pc = "volume" /\ vol' = k /\ pc' \in {"sigpart", "flush"}
      /\ prev' \in IF NextBlocks = {} THEN {prev} ELSE {End(NextBlocks)}
      /\ mf' = AddVolumeInfo(mf, k, [last |-> prev', data |-> data])
      /\ todo' = todo \ NextBlocks /\ atEnd' = (Cardinality(todo) < VolSize)
      /\ UNCHANGED <<source, remMan, remSig, manPart, base, wanted, cur, newSig>>
  BY DEF MakeVolume, remote, local
<1>2. /\ k \in Nat \ {0} /\ DOMAIN mf = 1..vol /\ vol \in Nat
      /\ DOMAIN mf' = (DOMAIN mf) \cup {k} /\ k \notin DOMAIN mf
      /\ mf'[k] = [last |-> prev', data |-> data]
      /\ \A j \in DOMAIN mf : mf'[j] = mf[j]
  <2>1. DOMAIN mf = 1..vol /\ vol \in Nat
    BY <1>1, SizesAssumption DEF IInv, WriterInv, TypeOK, RunOK
  <2>2. (vol + 1) - 1 = vol /\ vol + 1 \notin 1..vol
    BY <2>1
  <2> QED BY <1>1, <2>1, <2>2 DEF AddVolumeInfo, Write, Keep
<1>3. cur \in DOMAIN wanted /\ cur \notin DOMAIN remMan
  BY <1>1 DEF IInv, WriterInv, ContentInv, WantedInv
<1>4. Agrees(mf, cur) /\ (Followed(cur) => UpTo(mf, cur) /\ Wants(cur) \subseteq todo \cup Covered(mf))
  BY <1>1 DEF ContentInv, WritingInv
<1> HIDE DEF k
<1>5. WantedInv'
  BY <1>1, WantedFrame DEF ContentInv
<1>6. ListedInv'
  BY <1>1, ListedFrame DEF ContentInv
<1>7. Agrees(mf', cur)
  <2>1. \A p \in DOMAIN wanted[cur] : wanted[cur][p] = source[p]
    BY <1>3 DEF ContentInv, WantedInv
  <2>2. \A j \in DOMAIN mf' : j \in DOMAIN mf \/ j = k
    BY <1>2
  <2> QED BY <1>2, <1>4, <2>1, <2>2 DEF Agrees
<1>8. Followed(cur) => Wants(cur) \subseteq todo' \cup Covered(mf')
  <2>1. Covered(mf) \subseteq Covered(mf')
    BY <1>2 DEF Covered
  <2>2. NextBlocks \subseteq Covered(mf')
    <3>1. DOMAIN mf'[k].data = NextBlocks
      BY <1>2
    <3>2. k \in DOMAIN mf'
      BY <1>2
    <3> HIDE DEF data
    <3> QED BY <3>1, <3>2 DEF Covered
  <2>3. todo \subseteq todo' \cup NextBlocks
    BY <1>1
  <2> QED BY <1>4, <2>1, <2>2, <2>3
<1>9. Followed(cur) => UpTo(mf', cur)
  <2> SUFFICES ASSUME Followed(cur), NEW i \in DOMAIN mf', NEW p \in Wants(cur), p <= mf'[i].last
               PROVE  \E j \in DOMAIN mf' : j <= i /\ p \in DOMAIN mf'[j].data
    BY DEF UpTo
  <2>1. CASE i \in DOMAIN mf
    <3>1. PICK j \in DOMAIN mf : j <= i /\ p \in DOMAIN mf[j].data
      BY <1>2, <1>4, <2>1 DEF UpTo
    <3> QED BY <1>2, <3>1
  <2>2. CASE i = k
    <3>1. p \in Covered(mf) => \E j \in DOMAIN mf' : j <= k /\ p \in DOMAIN mf'[j].data
      <4>1. \A j \in DOMAIN mf : j <= k
        BY <1>2 DEF k
      <4> QED BY <1>2, <4>1 DEF Covered
    <3>2. p \in NextBlocks => p \in DOMAIN mf'[k].data
      BY <1>2
    <3>3. p \in todo => p \in NextBlocks
      <4>1. CASE NextBlocks = {}
        BY <4>1, BlocksInOrder
      <4>2. CASE NextBlocks # {}
        <5>1. End(NextBlocks) \in NextBlocks
          <6>1. NextBlocks \subseteq 1..NumPaths
            BY BlocksInOrder DEF IInv, TypeOK, RunOK, Paths
          <6> QED BY <4>2, <6>1, EndIsGreatest, SizesAssumption
        <5>2. p <= End(NextBlocks)
          BY <1>1, <1>2, <2>2, <4>2
        <5> QED BY <5>1, <5>2, BlocksInOrder
      <4> QED BY <4>1, <4>2
    <3>4. p \in todo \cup Covered(mf)
      BY <1>4
    <3>5. k <= k /\ k \in DOMAIN mf'
      BY <1>2
    <3> QED BY <2>2, <3>1, <3>2, <3>3, <3>4, <3>5
  <2> QED BY <1>2, <2>1, <2>2
<1>10. atEnd' => todo' = {}
  BY <1>1, BlocksInOrder
<1>11. WritingInv'
  BY <1>1, <1>7, <1>8, <1>9, <1>10
     DEF WritingInv, Making, Agrees, UpTo, Wants, Covered, Before, Followed
<1>12. Careful => SignedInv'
  BY <1>1, SignedFrame DEF ContentInv, Chosen
<1> QED BY <1>5, <1>6, <1>11, <1>12 DEF ContentInv

\* The partial manifest appears empty, and then lists what the manifest object does.
LEMMA PartialContent == IInv /\ ContentInv /\ (ManToPartial \/ FlushManifest) => ContentInv'
<1> SUFFICES ASSUME IInv, ContentInv, ManToPartial \/ FlushManifest PROVE ContentInv'
  OBVIOUS
<1>1. /\ pc \in {"manpart", "flush"} /\ pc' \in {"flush", "upload"}
      /\ UNCHANGED <<source, remMan, remSig, base, wanted, writer>>
      /\ DOMAIN manPart' = DOMAIN manPart \cup {cur}
      /\ \A t \in DOMAIN manPart \ {cur} : manPart'[t] = manPart[t]
  <2>1. CASE ManToPartial
    BY <2>1 DEF ManToPartial, Write, remote
  <2>2. CASE FlushManifest
    <3>1. cur \in DOMAIN manPart
      BY <2>2 DEF FlushManifest, IInv, WriterInv
    <3> QED BY <2>2, <3>1 DEF FlushManifest, remote
  <2> QED BY <2>1, <2>2
<1>2. cur \in DOMAIN wanted
  BY <1>1 DEF ContentInv, WantedInv
<1>3. Agrees(mf, cur) /\ (Followed(cur) => UpTo(mf, cur) /\ Wants(cur) \subseteq todo \cup Covered(mf))
  BY <1>1 DEF ContentInv, WritingInv
<1>4. Agrees(manPart'[cur], cur) /\ (Followed(cur) => UpTo(manPart'[cur], cur))
  <2>1. CASE ManToPartial
    BY <2>1 DEF ManToPartial, Write, EmptyStore, Agrees, UpTo
  <2>2. CASE FlushManifest
    <3>1. manPart'[cur'] = mf' /\ cur' = cur /\ mf' = mf
      BY <1>1, <2>2, FlushManifestInv DEF FlushManifest, IInv, WriterInv, writer
    <3> QED BY <1>3, <3>1
  <2> QED BY <2>1, <2>2
<1>5. WantedInv'
  BY <1>1, <1>2 DEF ContentInv, WantedInv, writer, Chosen
<1>6. ListedInv'
  <2>1. \A t \in DOMAIN manPart' :
          Agrees(manPart'[t], t) /\ (Followed(t) => UpTo(manPart'[t], t))
    BY <1>1, <1>4 DEF ContentInv, ListedInv
  <2> QED BY <1>1, <2>1 DEF ContentInv, ListedInv, Agrees, UpTo, Wants, Covered, Before, Followed
<1>7. WritingInv'
  BY <1>1, <1>3 DEF ContentInv, WritingInv, writer, Agrees, UpTo, Wants, Covered, Before,
                    Followed, Making
<1>8. Careful => SignedInv'
  BY <1>1, SignedFrame DEF ContentInv, Chosen, writer
<1> QED BY <1>5, <1>6, <1>7, <1>8 DEF ContentInv

\* After the last volume nothing is left to be written.
LEMMA UploadEndsContent == IInv /\ ContentInv /\ UploadEnds => ContentInv'
<1> SUFFICES ASSUME IInv, ContentInv, UploadEnds PROVE ContentInv'
  OBVIOUS
<1>1. /\ pc = "uploading" /\ pc' = IF atEnd THEN "sigcopy" ELSE "volume"
      /\ UNCHANGED <<source, remMan, remSig, manPart, base, wanted, writer>>
  BY DEF UploadEnds, local
<1>2. manPart[cur] = mf
  BY <1>1 DEF IInv, WriterInv
<1>3. /\ Agrees(mf, cur) /\ (atEnd => todo = {})
      /\ Followed(cur) => UpTo(mf, cur) /\ Wants(cur) \subseteq todo \cup Covered(mf)
  BY <1>1 DEF ContentInv, WritingInv, Making
<1>4. WantedInv'
  BY <1>1, WantedFrame DEF ContentInv, writer
<1>5. ListedInv'
  BY <1>1, ListedFrame DEF ContentInv
<1>6. WritingInv'
  BY <1>1, <1>2, <1>3 DEF WritingInv, writer, Agrees, UpTo, Wants, Covered, Before,
                          Followed, Making
<1>7. Careful => SignedInv'
  BY <1>1, SignedFrame DEF ContentInv, Chosen, writer
<1> QED BY <1>4, <1>5, <1>6, <1>7 DEF ContentInv

-----------------------------------------------------------------------------
(* Sending the manifest, and its removal. *)

\* The remote manifest is the partial one, which lists all.
LEMMA ManPutEndsContent == IInv /\ ContentInv /\ ManPutEnds => ContentInv'
<1> SUFFICES ASSUME IInv, ContentInv, ManPutEnds PROVE ContentInv'
  OBVIOUS
<1>1. /\ pc = "manmoving" /\ pc' = "mandelete" /\ remMan' = Write(remMan, cur, locMan[cur])
      /\ UNCHANGED <<source, remSig, manPart, base, wanted, writer>>
  BY DEF ManPutEnds, Goto
<1>2. cur \in DOMAIN manPart /\ locMan[cur] = manPart[cur] /\ cur \in DOMAIN wanted
  BY <1>1 DEF IInv, WriterInv, ContentInv, WantedInv
<1>3. /\ DOMAIN remMan' = DOMAIN remMan \cup {cur} /\ remMan'[cur] = manPart[cur]
      /\ \A t \in DOMAIN remMan \ {cur} : remMan'[t] = remMan[t]
  BY <1>1, <1>2 DEF Write
<1>4. WantedInv'
  BY <1>1, <1>2, <1>3 DEF ContentInv, WantedInv, writer, Chosen
<1>5. Agrees(manPart[cur], cur) /\ (Followed(cur) => Wants(cur) \subseteq Covered(manPart[cur]))
  BY <1>1, <1>2 DEF ContentInv, ListedInv, WritingInv
<1>6. ListedInv'
  <2>1. \A t \in DOMAIN remMan' :
          Agrees(remMan'[t], t) /\ (Followed(t) => Wants(t) \subseteq Covered(remMan'[t]))
    BY <1>3, <1>5 DEF ContentInv, ListedInv
  <2> QED BY <1>1, <2>1 DEF ContentInv, ListedInv, Agrees, UpTo, Wants, Covered, Before, Followed
<1>7. WritingInv'
  BY <1>1 DEF ContentInv, WritingInv, writer, Agrees, UpTo, Wants, Covered, Before,
              Followed, Making
<1>8. Careful => SignedInv'
  BY <1>1, SignedFrame DEF ContentInv, Chosen, writer
<1> QED BY <1>4, <1>6, <1>7, <1>8 DEF ContentInv

\* While the put has not ended, the remote has the manifests that it had.
LEMMA PutStartsKeeps == IInv /\ ManPutStarts => remMan' = remMan
<1> SUFFICES ASSUME IInv, ManPutStarts PROVE remMan' = remMan
  OBVIOUS
<1>1. cur \notin DOMAIN remMan
  BY DEF ManPutStarts, IInv, WriterInv
<1>2. remMan' = Remove(remMan, cur) /\ remMan = [t \in DOMAIN remMan |-> remMan[t]]
  BY DEF ManPutStarts, IInv, TypeOK, FilesOK, IsManifests
<1>3. DOMAIN remMan \ {cur} = DOMAIN remMan
  BY <1>1
<1> QED BY <1>2, <1>3 DEF Remove

\* A partial manifest goes: it is renamed, or its set is deleted.
LEMMA ManifestGoes ==
  ASSUME ContentInv, manPart' = Remove(manPart, cur),
         UNCHANGED <<source, remMan, remSig, base, wanted>>,
         pc' = "idle" \/ (pc' = "delete" /\ pc = "delete" /\ cur' = cur /\ newSig' = newSig)
  PROVE  ContentInv'
<1>1. DOMAIN manPart' \subseteq DOMAIN manPart /\ \A t \in DOMAIN manPart' : manPart'[t] = manPart[t]
  BY DEF Remove
<1>2. WantedInv'
  BY <1>1, WantedFrame DEF ContentInv
<1>3. ListedInv'
  BY <1>1 DEF ContentInv, ListedInv, Agrees, UpTo, Wants, Covered, Before, Followed
<1>4. WritingInv'
  BY NothingWritten
<1>5. Careful => SignedInv'
  BY SignedFrame DEF ContentInv, Chosen
<1> QED BY <1>2, <1>3, <1>4, <1>5 DEF ContentInv

\* The signature that is sent is the one that was written.
LEMMA SigPutContent == IInv /\ ContentInv /\ (SigPutStarts \/ SigPutEnds) => ContentInv'
<1> SUFFICES ASSUME IInv, ContentInv, SigPutStarts \/ SigPutEnds PROVE ContentInv'
  OBVIOUS
<1>1. /\ pc \in {"sigmove", "sigmoving"} /\ pc' \in {"sigmoving", "sigdelete"}
      /\ remSig' \in {Remove(remSig, cur), Write(remSig, cur, newSig)}
      /\ UNCHANGED <<source, remMan, manPart, base, wanted, writer>>
  BY DEF SigPutStarts, SigPutEnds, Goto, IInv, CacheInv
<1>2. Careful => SignedInv'
  <2> SUFFICES ASSUME Careful PROVE SignedInv'
    OBVIOUS
  <2>1. Tells(newSig, cur) /\ \A t \in DOMAIN remSig : Tells(remSig[t], t)
    BY <1>1 DEF ContentInv, SignedInv, Chosen
  <2>2. \A t \in DOMAIN remSig' : Tells(remSig'[t], t)
    BY <1>1, <2>1 DEF Write, Remove
  <2> QED BY <1>1, <2>1, <2>2 DEF SignedInv, Tells, Wants, Before, Chosen, writer
<1> QED BY <1>1, <1>2, SendingStep DEF Making

-----------------------------------------------------------------------------
(* Every step. *)

\* Every step of a run.
LEMMA RunContent ==
  ASSUME IInv, Careful => LineInv, CacheAgrees, ContentInv, Run
  PROVE  ContentInv'
<1>1. CASE Sync
  <2>1. pc' \in NoSet /\ UNCHANGED <<source, remote, manPart, base, wanted>>
    BY <1>1 DEF Sync, RemoveLocal, FetchStarts, FetchEnds, FetchFails, Synchronised, local
  <2> QED BY <2>1, QuietStep DEF remote
<1>2. CASE Check
  <2>1. CASE Refuse \/ StartOver
    BY <2>1, QuietStep DEF Refuse, StartOver, remote, local, writer
  <2> QED BY <1>2, <2>1, ResumeContent DEF Check
<1>3. CASE Delete
  <2>1. CASE DeleteVolume \/ DeleteLocalSig \/ RunAgain
    BY <2>1, QuietStep DEF DeleteVolume, DeleteLocalSig, RunAgain, remote, local, writer
  <2>2. CASE DeleteLocalMan
    BY <2>2, ManifestGoes DEF DeleteLocalMan, remote, writer
  <2> QED BY <1>3, <2>1, <2>2 DEF Delete
<1>4. CASE WriteVolumes
  <2>1. CASE SigToPartial \/ UploadStarts
    BY <2>1, SendingStep DEF SigToPartial, UploadStarts, remote, local, Making
  <2>2. CASE SignatureEnds
    BY <2>2, QuietStep DEF SignatureEnds, remote, local
  <2> QED BY <1>4, <2>1, <2>2, MakeVolumeContent, PartialContent, UploadEndsContent DEF WriteVolumes
<1>5. CASE SendSig
  <2>1. CASE SigCopyStarts \/ SigCopyEnds \/ SigDelete \/ SigFinalStarts \/ SigFinalEnds \/ SigUnlink
    BY <2>1, SendingStep
       DEF SigCopyStarts, SigCopyEnds, SigDelete, SigFinalStarts, SigFinalEnds, SigUnlink, Goto,
           Making
  <2> QED BY <1>5, <2>1, SigPutContent DEF SendSig
<1>6. CASE SendMan
  <2>1. CASE ManCopyStarts \/ ManCopyEnds \/ ManDelete
    BY <2>1, SendingStep DEF ManCopyStarts, ManCopyEnds, ManDelete, Goto, Making
  <2>2. CASE ManPutStarts
    BY <2>2, PutStartsKeeps, SendingStep DEF ManPutStarts, Goto, Making
  <2>3. CASE ManToFinal
    BY <2>3, ManifestGoes DEF ManToFinal, remote
  <2> QED BY <1>6, <2>1, <2>2, <2>3, ManPutEndsContent DEF SendMan
<1> QED BY <1>1, <1>2, <1>3, <1>4, <1>5, <1>6, ChooseContent DEF Run

\* Every step.
LEMMA NextContent ==
  ASSUME IInv, Careful => LineInv, CacheAgrees, ContentInv, [Next]_vars
  PROVE  ContentInv'
<1>1. ASSUME NEW c \in Commands, Begin(c) PROVE ContentInv'
  BY <1>1, QuietStep DEF Begin, remote, local
<1>2. CASE Crash
  BY <1>2, QuietStep DEF Crash, remote, local
<1>3. CASE UNCHANGED vars
  BY <1>3 DEF vars, remote, local, writer, ContentInv, WantedInv, ListedInv, WritingInv,
              SignedInv, Tells, Chosen, Agrees, UpTo, Wants, Covered, Before, Followed
<1> QED BY <1>1, <1>2, <1>3, EditContent, RunContent DEF Next

\* The blocks of a complete set are those of the tree that it wants, and a set that is
\* followed has a block for every path that has changed.
LEMMA BlocksOf ==
  ASSUME IInv, ContentInv, NEW t \in DOMAIN remMan, NEW p \in DOMAIN wanted[t]
  PROVE  /\ \A v \in Versions : <<p, v>> \in Blocks(t) => v = wanted[t][p]
         /\ Followed(t) /\ p \in Wants(t) => <<p, wanted[t][p]>> \in Blocks(t)
<1> DEFINE w == wanted[t][p]
<1>1. /\ DOMAIN remMan[t] = DOMAIN remVol[t]
      /\ \A k \in DOMAIN remMan[t] : remVol[t][k].data = remMan[t][k].data
  <2>1. Sound(remMan[t], t)
    BY DEF IInv, VolumesInv
  <2>2. \A k \in DOMAIN remMan[t] : remVol[t][k] = Whole(remMan[t][k])
    BY <2>1 DEF Sound, Matches
  <2>3. DOMAIN remMan[t] = DOMAIN remVol[t]
    BY <2>1 DEF Sound
  <2>4. \A k \in DOMAIN remMan[t] : remVol[t][k].data = remMan[t][k].data
    <3>1. \A vi : Whole(vi).data = vi.data
      BY DEF Whole
    <3> QED BY <2>2, <3>1
  <2> QED BY <2>3, <2>4
<1>2. \A v \in Versions : <<p, v>> \in Blocks(t) => v = w
  BY <1>1 DEF Blocks, ContentInv, ListedInv, Agrees
<1>3. ASSUME Followed(t), p \in Wants(t) PROVE <<p, w>> \in Blocks(t)
  <2>1. PICK k \in DOMAIN remMan[t] : p \in DOMAIN remMan[t][k].data
    BY <1>3 DEF ContentInv, ListedInv, Covered
  <2>2. remMan[t][k].data[p] = w
    BY <2>1 DEF ContentInv, ListedInv, Agrees
  <2> QED BY <1>1, <2>1, <2>2 DEF Blocks
<1> QED BY <1>2, <1>3

\* A full set whose manifest lists all that is wanted restores it.
LEMMA FullSetRestores ==
  ASSUME IInv, ContentInv, NEW t \in DOMAIN remMan, base[t] = 0, NEW p \in DOMAIN wanted[t]
  PROVE  Restored({t}, t)[p] = wanted[t][p]
<1> DEFINE w == wanted[t][p]
           S == {u \in {t} : u <= t /\ \E v \in Versions : <<p, v>> \in Blocks(u)}
<1>1. p \in Paths /\ w \in Versions /\ t \in Times
  BY DEF ContentInv, WantedInv, IInv, TypeOK, HistoryOK, IsStore, Data, Store
<1>2. \A v \in Versions : <<p, v>> \in Blocks(t) => v = w
  BY BlocksOf
<1>3. w # 0 => <<p, w>> \in Blocks(t)
  <2>1. Followed(t) /\ (w # 0 => p \in Wants(t))
    BY <1>1 DEF Followed, Wants, Before, NoTree
  <2> QED BY <2>1, BlocksOf
<1>4. Restored({t}, t)[p] = IF S = {} THEN 0 ELSE CHOOSE v \in Versions : <<p, v>> \in Blocks(End(S))
  BY <1>1 DEF Restored
<1>5. CASE S = {}
  BY <1>1, <1>3, <1>4, <1>5 DEF Times
<1>6. CASE S # {}
  <2>1. S = {t}
    BY <1>6
  <2>2. End({t}) = t
    BY <1>1 DEF End, Times
  <2>3. \E v \in Versions : <<p, v>> \in Blocks(t)
    BY <1>6
  <2>4. (CHOOSE v \in Versions : <<p, v>> \in Blocks(t)) = w
    BY <1>2, <2>3
  <2> QED BY <1>4, <1>6, <2>1, <2>2, <2>4
<1> QED BY <1>5, <1>6

\* A complete set, be it full or incremental, restores the tree that was backed up.
LEMMA SetRestores ==
  ASSUME IInv, LineInv, Careful, ContentInv, NEW t \in DOMAIN remMan
  PROVE  RestoredTree(t) = wanted[t]
<1>1. /\ HasManifest \in SUBSET (1..MaxTime) /\ DOMAIN base = 1..MaxTime /\ MaxTime \in Nat
      /\ Line(HasManifest, base) /\ Line(DOMAIN remMan, base) /\ t \in HasManifest
  BY SetsInLine, SizesAssumption, ManifestNames
<1>2. HasManifest \in SUBSET (Nat \ {0}) /\ DOMAIN remMan \in SUBSET (Nat \ {0})
  <2>1. DOMAIN remMan \subseteq HasManifest
    BY ManifestNames
  <2>2. 1..MaxTime \subseteq Nat \ {0}
    BY SizesAssumption
  <2>3. HasManifest \subseteq Nat \ {0}
    BY <1>1, <2>2
  <2> QED BY <2>1, <2>3
<1>3. BackupSets = Segments(HasManifest, base)
  BY <1>1, ChainsAreSegments DEF BackupSets
<1>4. PICK C \in BackupSets : t \in C /\ RestoredTree(t) = Restored(C, t)
  <2> DEFINE own == {C \in BackupSets : t \in C}
  <2>1. own # {}
    <3>1. PICK r \in Roots(HasManifest, base) : t \in Segment(HasManifest, base, r)
      BY <1>1, <1>2, HasSegment
    <3> QED BY <1>3, <3>1 DEF Segments
  <2>2. RestoredTree(t) = Restored(CHOOSE C \in own : TRUE, t)
    BY <2>1 DEF RestoredTree
  <2>3. (CHOOSE C \in own : TRUE) \in own
    BY <2>1
  <2> QED BY <2>2, <2>3
<1>5. PICK r \in Roots(HasManifest, base) : C = Segment(HasManifest, base, r)
  BY <1>3 DEF Segments
<1>6. /\ r \in Roots(DOMAIN remMan, base)
      /\ \A u : u \in Segment(DOMAIN remMan, base, r) <=> u \in C /\ u \in DOMAIN remMan
  BY <1>4, <1>5, CompleteSegment
<1>7. \A u \in C : u <= t => u \in DOMAIN remMan
  <2>1. C \subseteq HasManifest
    BY <1>5 DEF Segment
  <2> QED BY <2>1, EarlierComplete
<1>8. \A u \in DOMAIN remMan : DOMAIN wanted[u] = Paths /\ Followed(u)
  BY DEF ContentInv, WantedInv, Followed
<1>9. ASSUME NEW p \in Paths PROVE Restored(C, t)[p] = wanted[t][p]
  <2> DEFINE H == {u \in DOMAIN remMan : \E v \in Versions : <<p, v>> \in Blocks(u)}
             w == [u \in DOMAIN remMan |-> wanted[u][p]]
             S == {u \in C : u <= t /\ \E v \in Versions : <<p, v>> \in Blocks(u)}
  <2>1. Restored(C, t)[p] = IF S = {} THEN 0 ELSE CHOOSE v \in Versions : <<p, v>> \in Blocks(End(S))
    BY DEF Restored
  <2>2. S = Sayers(DOMAIN remMan, base, r, H, t)
    BY <1>6, <1>7 DEF Sayers
  <2>3. Kept(DOMAIN remMan, base, H, w)
    <3> SUFFICES ASSUME NEW u \in DOMAIN remMan, u \notin H
                 PROVE  w[u] = IF base[u] = 0 THEN 0 ELSE w[base[u]]
      BY DEF Kept
    <3>1. wanted[u][p] \in Versions
      BY <1>8 DEF ContentInv, WantedInv, IInv, TypeOK, HistoryOK, IsStore, Data, Store
    <3>2. p \notin Wants(u)
      <4>1. p \in Wants(u) => <<p, wanted[u][p]>> \in Blocks(u)
        BY <1>8, BlocksOf
      <4> QED BY <3>1, <4>1
    <3>3. base[u] # 0 => base[u] \in DOMAIN remMan
      BY <1>1 DEF Line
    <3>4. wanted[u][p] = IF base[u] = 0 THEN 0 ELSE wanted[base[u]][p]
      BY <3>2, Unwanted DEF ContentInv
    <3> QED BY <3>3, <3>4
  <2>4. Told(DOMAIN remMan, base, r, H, w, t) = w[t]
    <3>1. t \in Segment(DOMAIN remMan, base, r)
      BY <1>4, <1>6
    <3> HIDE DEF H, w
    <3> QED BY <1>1, <1>2, <1>6, <2>3, <3>1, LastWord
  <2>5. S # {} => End(S) \in S
    <3>1. S \in SUBSET (1..MaxTime)
      BY <1>1, <1>7, ManifestNames
    <3> HIDE DEF S
    <3> QED BY <1>1, <3>1, EndIsGreatest
  <2>6. ASSUME S # {}
        PROVE  /\ End(S) \in DOMAIN remMan
               /\ (CHOOSE v \in Versions : <<p, v>> \in Blocks(End(S))) = wanted[End(S)][p]
    <3> DEFINE e == End(S)
    <3>1. e \in S
      BY <2>5, <2>6
    <3>2. e \in DOMAIN remMan /\ \E v \in Versions : <<p, v>> \in Blocks(e)
      BY <1>7, <3>1
    <3> HIDE DEF e
    <3>3. \A v \in Versions : <<p, v>> \in Blocks(e) => v = wanted[e][p]
      BY <1>8, <3>2, BlocksOf
    <3>4. (CHOOSE v \in Versions : <<p, v>> \in Blocks(e)) = wanted[e][p]
      BY <3>2, <3>3
    <3> QED BY <3>2, <3>4 DEF e
  <2> HIDE DEF S
  <2>7. S = {} => wanted[t][p] = 0
    BY <2>2, <2>4 DEF Told
  <2>8. S # {} => wanted[End(S)][p] = wanted[t][p]
    BY <2>2, <2>4, <2>6 DEF Told
  <2> QED BY <2>1, <2>6, <2>7, <2>8
<1>10. wanted[t] = [p \in Paths |-> wanted[t][p]]
  <2>1. wanted[t] \in Data /\ DOMAIN wanted[t] = Paths
    BY <1>8 DEF IInv, TypeOK, HistoryOK, IsStore, ContentInv, WantedInv
  <2> QED BY <2>1 DEF Data, Store
<1>11. Restored(C, t) = [p \in Paths |-> Restored(C, t)[p]]
  BY DEF Restored
<1> QED BY <1>4, <1>9, <1>10, <1>11

-----------------------------------------------------------------------------
(* The theorems. *)

\* All that the theorems rest on.
SessionInv == IInv /\ CacheAgrees /\ ContentInv /\ (Careful => LineInv)

\* It is an invariant.
LEMMA SessionInvariance == Spec => []SessionInv
<1>1. Init => ContentInv /\ LineInv
  BY InitContent, LineInit
<1>2. /\ IInv /\ CacheAgrees /\ ContentInv /\ (Careful => LineInv) /\ [Next]_vars
      => ContentInv' /\ (Careful => LineInv)'
  <2>1. (Careful => LineInv)' <=> (Careful => LineInv')
    BY DEF Careful, Unsafe
  <2> QED BY <2>1, NextContent, LineNext
<1>3. IInv /\ CacheAgrees /\ ContentInv /\ (Careful => LineInv) <=> SessionInv
  BY DEF SessionInv
<1> QED BY <1>1, <1>2, <1>3, Invariance, SyncedCacheAgrees, PTL DEF Spec

\* A full set with a remote manifest restores the tree that was backed up, path by
\* path, whatever runs died while it was partial: a restart neither loses nor repeats
\* nor mixes blocks (write_multivol, Restart, restart_position_iterator).
THEOREM FullSetsRestore == Spec => []FullRestoresSource
<1>1. SessionInv => FullRestoresSource
  BY FullSetRestores DEF SessionInv, FullRestoresSource
<1> QED BY <1>1, SessionInvariance, PTL

\* No run ends in the assertion of set_manifest, in the encryption settings error or at a
\* file that is cut off, when runs are careful.
THEOREM CarefulRunsGoOn == Careful => (Spec => []LaterRunsGoOn)
<1> SUFFICES ASSUME Careful PROVE Spec => []LaterRunsGoOn
  OBVIOUS
<1>1. SessionInv => LaterRunsGoOn
  BY DEF SessionInv, LineInv, LaterRunsGoOn
<1> QED BY <1>1, SessionInvariance, PTL

-----------------------------------------------------------------------------
(* The archive. *)

\* What restoring a complete set yields, by set.
Restorable == [t \in DOMAIN remMan |-> RestoredTree(t)]

Backed == [t \in DOMAIN remMan |-> wanted[t]]

\* The complete sets restore what was backed up.
LEMMA RestorableIsBacked == Careful /\ SessionInv => Restorable = Backed
<1> SUFFICES ASSUME Careful, SessionInv PROVE Restorable = Backed
  OBVIOUS
<1>1. \A t \in DOMAIN remMan : RestoredTree(t) = wanted[t]
  BY SetRestores DEF SessionInv
<1> QED BY <1>1 DEF Restorable, Backed

\* What is complete stays, and is wanted as it was.
Settled == remMan' = remMan /\ \A t \in DOMAIN remMan : wanted'[t] = wanted[t]

\* Only an edit changes the source, and only the end of the manifest's put what is
\* complete.
LEMMA StepsOfArchive ==
  ASSUME SessionInv, [Next]_vars
  PROVE  ManPutEnds \/ (Settled /\ (source' = source \/ \E p \in Paths, v \in Versions : Edit(p, v)))
<1>1. \A t \in DOMAIN remMan : t \in DOMAIN wanted /\ t <= clock /\ t \in Nat
  BY DEF SessionInv, ContentInv, WantedInv, IInv, VolumesInv, TypeOK, FilesOK, IsManifests, Times
<1>2. ASSUME NEW p \in Paths, NEW v \in Versions, Edit(p, v) PROVE Settled
  BY <1>1, <1>2 DEF Edit, Settled, remote
<1>3. ASSUME UNCHANGED <<remMan, wanted, source>> PROVE Settled /\ source' = source
  BY <1>3 DEF Settled
<1>4. ASSUME NEW b, NEW tree, NEW torn, NewSet(clock + 1, b, tree, torn)
      PROVE  Settled /\ source' = source
  <2>1. clock \in Nat
    BY DEF SessionInv, IInv, TypeOK, HistoryOK
  <2>2. \A t \in DOMAIN remMan : t # clock + 1
    <3>1. \A x, y \in Nat : x <= y => x # y + 1
      OBVIOUS
    <3> QED BY <1>1, <2>1, <3>1
  <2> QED BY <1>1, <1>4, <2>2 DEF NewSet, Settled, remote, Write
<1>5. CASE Choose
  <2>1. ASSUME NEW rd \in Readings, NewFull(rd) \/ NewInc(rd) PROVE Settled /\ source' = source
    BY <1>4, <2>1 DEF NewFull, NewInc
  <2>2. ASSUME NEW rd \in Readings, RestartFull(rd) \/ RestartInc(rd) \/ RestartUnsigned(rd)
        PROVE  Settled /\ source' = source
    BY <1>3, <2>2 DEF RestartFull, RestartInc, RestartUnsigned, Reopen, remote
  <2>3. CASE CollectAsserts \/ RestartStray \/ \E rd \in Readings : NoOldSignatures(rd) \/ OutOfTimes(rd)
    BY <1>3, <2>3 DEF CollectAsserts, RestartStray, NoOldSignatures, OutOfTimes, remote
  <2> QED BY <1>5, <2>1, <2>2, <2>3 DEF Choose
<1>6. CASE Sync \/ Check \/ Delete \/ WriteVolumes
  <2>1. CASE Sync \/ Check
    BY <1>3, <2>1 DEF Sync, RemoveLocal, FetchStarts, FetchEnds, FetchFails, Synchronised,
                      Check, Resume, Refuse, StartOver, remote
  <2>2. CASE Delete
    BY <1>3, <2>2 DEF Delete, DeleteVolume, DeleteLocalSig, DeleteLocalMan, RunAgain, remote
  <2>3. CASE WriteVolumes
    BY <1>3, <2>3 DEF WriteVolumes, MakeVolume, SignatureEnds, SigToPartial, ManToPartial,
                      FlushManifest, UploadStarts, UploadEnds, remote
  <2> QED BY <1>6, <2>1, <2>2, <2>3
<1>7. CASE SendSig \/ (SendMan /\ ~ManPutEnds)
  <2>1. CASE SendSig
    BY <1>3, <2>1 DEF SendSig, SigCopyStarts, SigCopyEnds, SigPutStarts, SigPutEnds, SigDelete,
                      SigFinalStarts, SigFinalEnds, SigUnlink, Goto
  <2>2. CASE ManPutStarts
    <3>1. remMan' = remMan
      BY <2>2, PutStartsKeeps DEF SessionInv
    <3> QED BY <1>3, <2>2, <3>1 DEF ManPutStarts, Goto
  <2>3. CASE ManCopyStarts \/ ManCopyEnds \/ ManDelete \/ ManToFinal
    BY <1>3, <2>3 DEF ManCopyStarts, ManCopyEnds, ManDelete, ManToFinal, Goto, remote
  <2> QED BY <1>7, <2>1, <2>2, <2>3 DEF SendMan
<1>8. CASE Crash \/ UNCHANGED vars \/ \E c \in Commands : Begin(c)
  BY <1>3, <1>8 DEF Crash, Begin, vars, remote
<1> QED BY <1>2, <1>5, <1>6, <1>7, <1>8 DEF Next, Run

\* The instant the manifest is on the remote, the archive has one snapshot more: the
\* tree as it is, under a name later than all others.
LEMMA ManPutEndsTakes ==
  ASSUME Careful, SessionInv, ManPutEnds
  PROVE  /\ cur \in Times /\ \A u \in DOMAIN remMan : u < cur
         /\ Backed' = Write(Backed, cur, source) /\ source' = source
<1>1. /\ pc = "manmoving" /\ DOMAIN remMan' = DOMAIN remMan \cup {cur}
      /\ source' = source /\ wanted' = wanted
  BY DEF ManPutEnds, Goto, Write
<1>2. cur \in Times /\ cur \notin DOMAIN remMan /\ cur = clock /\ cur \in DOMAIN wanted
  BY <1>1 DEF SessionInv, IInv, WriterInv, ContentInv, WantedInv, LineInv, Chosen
<1>3. \A u \in DOMAIN remMan : u < cur
  <2>1. \A u \in DOMAIN remMan : u <= clock /\ u \in Nat /\ u # cur
    BY <1>2 DEF SessionInv, IInv, VolumesInv, TypeOK, FilesOK, IsManifests, Times
  <2>2. cur \in Nat
    BY <1>2 DEF Times
  <2> QED BY <1>2, <2>1, <2>2
<1>4. wanted[cur] = source
  <2>1. \A p \in DOMAIN wanted[cur] : wanted[cur][p] = source[p]
    BY <1>2 DEF SessionInv, ContentInv, WantedInv
  <2>2. DOMAIN wanted[cur] = Paths
    BY <1>1 DEF SessionInv, ContentInv, WantedInv, Chosen
  <2>3. wanted[cur] \in Data /\ source \in [Paths -> Versions]
    BY <1>2 DEF SessionInv, IInv, TypeOK, FilesOK, HistoryOK, IsStore
  <2>4. wanted[cur] = [p \in Paths |-> wanted[cur][p]]
    BY <2>2, <2>3 DEF Data, Store
  <2> QED BY <2>1, <2>2, <2>3, <2>4
<1>5. Backed' = Write(Backed, cur, source)
  BY <1>1, <1>2, <1>4 DEF Backed, Write
<1> QED BY <1>1, <1>2, <1>3, <1>5

\* Careful runs are what module Archive promises: each takes one snapshot of the tree or
\* nothing, and all that were taken can be restored for ever, incremental ones too.
THEOREM CarefulRunsKeepTheArchive == Careful => (Spec => ImplementsArchive)
<1> SUFFICES ASSUME Careful PROVE Spec => ImplementsArchive
  OBVIOUS
<1>1. Init => Snapshots!Init
  <2> SUFFICES ASSUME Init PROVE Snapshots!Init
    OBVIOUS
  <2>1. source \in [Paths -> Versions]
    BY SizesAssumption DEF Init, Versions
  <2>2. Restorable = EmptyStore
    BY DEF Init, Restorable, EmptyStore
  <2> QED BY <2>1, <2>2 DEF Snapshots!Init, Snapshots!EmptyStore, Restorable, EmptyStore
<1>2. SessionInv => Restorable = Backed
  BY RestorableIsBacked
<1>3. SessionInv /\ IInv' /\ Restorable = Backed /\ (Restorable = Backed)' /\ [Next]_vars
      => [Snapshots!Next]_<<source, Restorable>>
  <2> SUFFICES ASSUME SessionInv, IInv', Restorable = Backed, Restorable' = Backed', [Next]_vars
               PROVE  [Snapshots!Next]_<<source, Restorable>>
    OBVIOUS
  <2>1. CASE ManPutEnds
    <3>1. DOMAIN Restorable = DOMAIN remMan
      BY DEF Restorable
    <3>2. /\ cur \in Times /\ \A u \in DOMAIN Restorable : u < cur
          /\ Restorable' = Write(Restorable, cur, source) /\ source' = source
      BY <2>1, <3>1, ManPutEndsTakes
    <3>3. Snapshots!Take(cur)
      BY <3>2 DEF Snapshots!Take, Snapshots!Write, Write, Restorable
    <3> QED BY <3>2, <3>3 DEF Snapshots!Next
  <2>2. CASE Settled
    <3>1. Backed' = Backed
      BY <2>2 DEF Settled, Backed
    <3>2. source' \in [Paths -> Versions]
      BY DEF IInv, TypeOK, FilesOK
    <3> QED BY <3>1, <3>2 DEF Snapshots!Next, Snapshots!Change, Restorable
  <2> QED BY <2>1, <2>2, StepsOfArchive
<1> QED BY <1>1, <1>2, <1>3, SessionInvariance, Invariance, PTL
        DEF Spec, ImplementsArchive, Snapshots!Spec, Restorable

\* The next set is full only when that is asked for or nothing is complete.
THEOREM CarefulRunsUseSignatures == Careful => (Spec => OldSignaturesUsed)
<1> SUFFICES ASSUME Careful PROVE Spec => OldSignaturesUsed
  OBVIOUS
<1> DEFINE Used == clock' # clock /\ base'[clock'] = 0 => command = "full" \/ DOMAIN remMan = {}
<1>1. SessionInv /\ [Next]_vars => [Used]_vars
  <2> SUFFICES ASSUME SessionInv, [Next]_vars, clock' # clock, base'[clock'] = 0
               PROVE  command = "full" \/ DOMAIN remMan = {}
    BY DEF Used
  <2>1. PICK rd \in Readings : NewFull(rd) \/ NewInc(rd)
    <3>1. CASE Choose
      BY <3>1 DEF Choose, CollectAsserts, RestartStray, RestartFull, RestartInc, RestartUnsigned, Reopen,
                  NoOldSignatures, OutOfTimes
    <3>2. CASE Sync \/ Check \/ Delete
      BY <3>2 DEF Sync, RemoveLocal, FetchStarts, FetchEnds, FetchFails, Synchronised, Check, Resume, Refuse, StartOver, Delete, DeleteVolume, DeleteLocalSig,
                  DeleteLocalMan, RunAgain
    <3>3. CASE WriteVolumes
      BY <3>3 DEF WriteVolumes, MakeVolume, SignatureEnds, SigToPartial, ManToPartial,
                  FlushManifest, UploadStarts, UploadEnds
    <3>4. CASE SendSig \/ SendMan
      BY <3>4 DEF SendSig, SigCopyStarts, SigCopyEnds, SigPutStarts, SigPutEnds, SigDelete,
                  SigFinalStarts, SigFinalEnds, SigUnlink, SendMan, ManCopyStarts, ManCopyEnds,
                  ManPutStarts, ManPutEnds, ManDelete, ManToFinal, Goto
    <3>5. CASE Crash \/ UNCHANGED vars \/ \E c \in Commands : Begin(c)
      BY <3>5 DEF Crash, Begin, vars
    <3>6. CASE \E p \in Paths, v \in Versions : Edit(p, v)
      BY <3>6 DEF Edit
    <3> QED BY <3>1, <3>2, <3>3, <3>4, <3>5, <3>6 DEF Next, Run
  <2>2. CASE NewFull(rd)
    <3>1. pc = "collect" /\ (command = "full" \/ ~HasSigs(rd))
      BY <2>2 DEF NewFull
    <3>2. HasSigs(rd) <=> HasManifest # {}
      BY <3>1, Reads DEF SessionInv
    <3> QED BY <3>1, <3>2, ManifestNames DEF SessionInv
  <2>3. CASE NewInc(rd)
    <3>1. MatchedEnd(rd) \in DOMAIN remMan /\ NewSet(clock + 1, MatchedEnd(rd), Signed(rd), TornSigs(rd))
      BY <2>3 DEF NewInc, CheckManifests
    <3>2. clock' = clock + 1 /\ clock + 1 \in Times /\ base' = [base EXCEPT ![clock + 1] = MatchedEnd(rd)]
      BY <3>1, SizesAssumption DEF NewSet, SessionInv, IInv, TypeOK, HistoryOK, Times
    <3>3. base'[clock'] = MatchedEnd(rd) /\ MatchedEnd(rd) # 0
      BY <3>1, <3>2 DEF SessionInv, IInv, TypeOK, FilesOK, HistoryOK, IsManifests, Times
    <3> QED BY <3>3
  <2> QED BY <2>1, <2>2, <2>3
<1> QED BY <1>1, SessionInvariance, PTL DEF Spec, OldSignaturesUsed
=============================================================================
