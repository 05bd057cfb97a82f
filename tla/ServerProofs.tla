---------------------------- MODULE ServerProofs ----------------------------
(***************************************************************************)
(* Proofs about Server and DataKey, for any number of workers, requests,   *)
(* podcasts, secrets and crashes.                                          *)
(*                                                                         *)
(* The two halves of the invariant do not need each other.  That of the    *)
(* data key says which file createDEK has left at each of its steps, and   *)
(* that a key in use is in the file and synced.  That of the errgroup says *)
(* where a worker can be once it has popped a task too late.               *)
(***************************************************************************)
EXTENDS Server, TLAPS

\* What is in dek.json while it is created, and what is known of the key.
CreationSteps ==
    /\ kpc \in {"stat", "create", "write", "sync", "load"} => config \in Secrets
    /\ kpc \in {"down", "stat", "create", "load"} => key = None
    /\ kpc = "create" => file = NoFile
    /\ kpc = "write" => key \in Keys /\ file = Torn
    /\ kpc = "sync" => key \in Keys /\ file = Keyset(key, config)

\* A key in use is on disk, unless it was loaded before anybody had synced it.
KeyInUseIsSynced ==
    ~hasty /\ kpc = "ready" /\ key # None =>
        synced /\ file.state = "keyset" /\ file.key = key

\* A key that credentials depend on is on disk.
NeededKeyIsSynced == ~hasty => \A p \in Podcasts : cred[p] # None => synced

KeyInv ==
    /\ DataKeyTypeOK
    /\ CreationSteps
    /\ KeyInUseIsSynced
    /\ NeededKeyIsSynced
    /\ CredentialsSurvive

GroupTypeOK ==
    /\ part \in [Parts -> Running \cup {"off", "returned", "failed"}]
    /\ failure \in Parts \cup {None}
    /\ late \in [Workers -> 0 .. 2]
    /\ active \in 0 .. MaxRequests
    /\ crashes \in 0 .. MaxCrashes

\* A worker that has popped a task after the cancellation handles it, and next
\* looks at the context.
LateWorkersAreLeaving ==
    \A w \in Workers : late[w] # 0 =>
        Cancelled /\ late[w] = 1 /\ part[w] \in {"handling", "checking", "returned"}

\* No part stops silently: when one has ended, or is about to, an error has
\* cancelled the context of all.
NoSilentEnd ==
    \A g \in Parts : part[g] \in {"draining", "returned", "failed"} => Cancelled

\* Shutdown has returned only after the last answer.
ReturnedIsDrained == part["web"] = "returned" => active = 0

GroupInv ==
    /\ GroupTypeOK
    /\ LateWorkersAreLeaving
    /\ NoSilentEnd
    /\ ReturnedIsDrained

-----------------------------------------------------------------------------
(* The data key. *)

\* The three kinds of key file are told apart by their state.
LEMMA FileKinds ==
    /\ NoFile.state = "absent" /\ Torn.state = "unreadable"
    /\ \A k, s : /\ Keyset(k, s).state = "keyset"
                 /\ Keyset(k, s).key = k
                 /\ Keyset(k, s).secret = s
BY DEF NoFile, Torn, Keyset

\* The key file is kept, and so is the key, or the server is down.
LEMMA KeyKeptPreservesInv ==
    ASSUME KeyInv, UNCHANGED <<file, cred, hasty>>,
           synced' \in BOOLEAN, synced => synced',
           config' \in Secrets \cup {None},
           \/ kpc' = "down" /\ key' = None
           \/ kpc' = kpc /\ UNCHANGED <<key, config>>
    PROVE  KeyInv'
<1> USE DEF KeyInv
<1>1. DataKeyTypeOK'
  BY DEF DataKeyTypeOK
<1>2. CreationSteps'
  BY DEF CreationSteps
<1>3. KeyInUseIsSynced'
  BY DEF KeyInUseIsSynced
<1>4. NeededKeyIsSynced' /\ CredentialsSurvive'
  BY DEF NeededKeyIsSynced, CredentialsSurvive
<1> QED
  BY <1>1, <1>2, <1>3, <1>4

\* Without the driver there is no key; with it, the file is looked for.
LEMMA StatPreservesInv ==
    ASSUME KeyInv, ConfigureEncryptedValueService \/ loadOrCreateDEK
    PROVE  KeyInv'
<1> USE DEF KeyInv
<1>1. UNCHANGED <<config, file, synced, key, cred, hasty>>
  BY DEF ConfigureEncryptedValueService, loadOrCreateDEK
<1>2. /\ kpc' \in {"ready", "stat", "create", "load"}
      /\ kpc' \in {"stat", "create", "load"} => config \in Secrets
      /\ kpc' = "create" => file = NoFile
      /\ key = None
  BY DEF ConfigureEncryptedValueService, loadOrCreateDEK, CreationSteps, DataKeyTypeOK
<1>3. DataKeyTypeOK' /\ CreationSteps'
  BY <1>1, <1>2 DEF DataKeyTypeOK, CreationSteps
<1>4. KeyInUseIsSynced' /\ NeededKeyIsSynced' /\ CredentialsSurvive'
  BY <1>1, <1>2 DEF KeyInUseIsSynced, NeededKeyIsSynced, CredentialsSurvive
<1> QED
  BY <1>3, <1>4

\* While there is no key file that could be read nothing depends on one.
LEMMA NothingDepends ==
    ASSUME KeyInv, file = NoFile \/ file = Torn, ~hasty, NEW p \in Podcasts
    PROVE  cred[p] = None
BY FileKinds DEF KeyInv, CredentialsSurvive

\* A new, empty file is created only where there was none.
LEMMA CreatePreservesInv ==
    ASSUME KeyInv, CreateFile
    PROVE  KeyInv'
<1>1. /\ kpc = "create" /\ kpc' = "write"
      /\ key' \in Keys
      /\ file' = Torn
      /\ synced' = FALSE
      /\ UNCHANGED <<config, cred, hasty>>
  BY DEF CreateFile
<1>2. file = NoFile
  BY <1>1 DEF KeyInv, CreationSteps
<1>3. ~hasty => \A p \in Podcasts : cred[p] = None
  BY <1>2, NothingDepends
<1>4. synced' \in BOOLEAN
  BY <1>1
<1>5. DataKeyTypeOK'
  BY <1>1, <1>4 DEF KeyInv, DataKeyTypeOK
<1>6. CreationSteps'
  BY <1>1 DEF KeyInv, CreationSteps
<1>7. KeyInUseIsSynced' /\ NeededKeyIsSynced' /\ CredentialsSurvive'
  BY <1>1, <1>3 DEF KeyInUseIsSynced, NeededKeyIsSynced, CredentialsSurvive
<1> QED
  BY <1>5, <1>6, <1>7 DEF KeyInv

\* The keyset replaces the empty file; nothing depends on it before it is synced.
LEMMA WritePreservesInv ==
    ASSUME KeyInv, WriteKeyset
    PROVE  KeyInv'
<1>1. /\ kpc = "write" /\ kpc' = "sync"
      /\ file' = Keyset(key, config) /\ synced' = FALSE
      /\ UNCHANGED <<config, key, cred, hasty>>
  BY DEF WriteKeyset
<1>2. key \in Keys /\ config \in Secrets /\ file = Torn
  BY <1>1 DEF KeyInv, CreationSteps
<1>3. ~hasty => \A p \in Podcasts : cred[p] = None
  BY <1>2, NothingDepends
<1>4. synced' \in BOOLEAN
  BY <1>1
<1>5. DataKeyTypeOK' /\ CreationSteps'
  BY <1>1, <1>2, <1>4 DEF KeyInv, DataKeyTypeOK, CreationSteps
<1>6. KeyInUseIsSynced' /\ NeededKeyIsSynced' /\ CredentialsSurvive'
  BY <1>1, <1>3 DEF KeyInUseIsSynced, NeededKeyIsSynced, CredentialsSurvive
<1> QED
  BY <1>5, <1>6 DEF KeyInv

\* From here on the key is in use.
LEMMA SyncPreservesInv ==
    ASSUME KeyInv, Sync
    PROVE  KeyInv'
<1>1. /\ kpc = "sync" /\ kpc' = "ready"
      /\ synced' = TRUE
      /\ UNCHANGED <<config, file, key, cred, hasty>>
  BY DEF Sync
<1>2. file = Keyset(key, config)
  BY <1>1 DEF KeyInv, CreationSteps
<1>3. DataKeyTypeOK' /\ CreationSteps'
  BY <1>1 DEF KeyInv, DataKeyTypeOK, CreationSteps
<1>4. KeyInUseIsSynced'
  BY <1>1, <1>2, FileKinds DEF KeyInUseIsSynced
<1>5. NeededKeyIsSynced' /\ CredentialsSurvive'
  BY <1>1 DEF KeyInv, NeededKeyIsSynced, CredentialsSurvive
<1> QED
  BY <1>3, <1>4, <1>5 DEF KeyInv

\* A key that is loaded is the one in the file; hasty records that it is not
\* synced yet.
LEMMA LoadPreservesInv ==
    ASSUME KeyInv, LoadKeyset
    PROVE  KeyInv'
<1>1. /\ kpc = "load" /\ kpc' = "ready"
      /\ file.state = "keyset"
      /\ key' = file.key
      /\ hasty' = (hasty \/ ~synced)
      /\ UNCHANGED <<config, file, synced, cred>>
  BY DEF LoadKeyset
<1>2. file.key \in Keys
  BY <1>1, FileKinds DEF KeyInv, DataKeyTypeOK
<1>3. DataKeyTypeOK' /\ CreationSteps'
  BY <1>1, <1>2 DEF KeyInv, DataKeyTypeOK, CreationSteps
<1>4. ~hasty' => ~hasty /\ synced
  BY <1>1
<1>5. KeyInUseIsSynced'
  BY <1>1, <1>4 DEF KeyInUseIsSynced
<1>6. NeededKeyIsSynced' /\ CredentialsSurvive'
  BY <1>1, <1>4 DEF KeyInv, NeededKeyIsSynced, CredentialsSurvive
<1> QED
  BY <1>3, <1>5, <1>6 DEF KeyInv

\* Credentials are encrypted with the key in use, which is in the file.
LEMMA AddPodcastPreservesInv ==
    ASSUME KeyInv, NEW p \in Podcasts, AddPodcast(p)
    PROVE  KeyInv'
<1>1. /\ kpc = "ready" /\ key # None
      /\ cred' = [cred EXCEPT ![p] = key]
      /\ UNCHANGED <<config, file, synced, kpc, key, hasty>>
  BY DEF AddPodcast
<1>2. DataKeyTypeOK' /\ CreationSteps'
  BY <1>1 DEF KeyInv, DataKeyTypeOK, CreationSteps
<1>3. KeyInUseIsSynced'
  BY <1>1 DEF KeyInv, KeyInUseIsSynced
<1>4. ~hasty => synced /\ file.state = "keyset" /\ file.key = key
  BY <1>1 DEF KeyInv, KeyInUseIsSynced
<1>5. NeededKeyIsSynced' /\ CredentialsSurvive'
  BY <1>1, <1>4 DEF KeyInv, DataKeyTypeOK, NeededKeyIsSynced, CredentialsSurvive
<1> QED
  BY <1>2, <1>3, <1>5 DEF KeyInv

\* A power failure takes only a file that was not synced, and nothing depends on
\* such a file.
LEMMA PowerLossPreservesInv ==
    ASSUME KeyInv, PowerLoss
    PROVE  KeyInv'
<1>1. /\ file' \in {file, Torn, NoFile}
      /\ synced => file' = file
      /\ synced' = TRUE
      /\ kpc' = "down" /\ key' = None
      /\ UNCHANGED <<config, cred, hasty>>
  BY DEF PowerLoss
<1>2. DataKeyTypeOK' /\ CreationSteps'
  BY <1>1 DEF KeyInv, DataKeyTypeOK, CreationSteps
<1>3. KeyInUseIsSynced' /\ NeededKeyIsSynced'
  BY <1>1 DEF KeyInUseIsSynced, NeededKeyIsSynced
<1>4. CredentialsSurvive'
  BY <1>1 DEF KeyInv, NeededKeyIsSynced, CredentialsSurvive
<1> QED
  BY <1>2, <1>3, <1>4 DEF KeyInv

\* No step of the server, the operator or the machine breaks the invariant of the
\* data key.
LEMMA NextPreservesKeyInv == KeyInv /\ [Next]_vars => KeyInv'
<1> SUFFICES ASSUME KeyInv, [Next]_vars PROVE KeyInv'
  OBVIOUS
<1>1. CASE Keying
  <2>1. CASE LoadFails
    <3>1. kpc' = "down" /\ key' = None /\ UNCHANGED <<config, file, synced, cred, hasty>>
      BY <2>1 DEF LoadFails, KeyReleased
    <3>2. synced \in BOOLEAN /\ config \in Secrets \cup {None}
      BY DEF KeyInv, DataKeyTypeOK
    <3> QED
      BY <3>1, <3>2, KeyKeptPreservesInv
  <2> QED
    BY <1>1, <2>1, StatPreservesInv, CreatePreservesInv, WritePreservesInv, SyncPreservesInv,
       LoadPreservesInv DEF Keying, KeyStep
<1>2. CASE Wait \/ Killed
  <2>1. kpc' = "down" /\ key' = None /\ UNCHANGED <<config, file, synced, cred, hasty>>
    BY <1>2 DEF Wait, Killed, KeyReleased
  <2>2. synced \in BOOLEAN /\ config \in Secrets \cup {None}
    BY DEF KeyInv, DataKeyTypeOK
  <2> QED
    BY <2>1, <2>2, KeyKeptPreservesInv
<1>3. ASSUME NEW s \in Secrets \cup {None}, Reconfigure(s) PROVE KeyInv'
  <2>1. kpc' = "down" /\ config' = s /\ UNCHANGED <<file, synced, key, cred, hasty>>
        /\ kpc = "down"
    BY <1>3 DEF Reconfigure, Configure
  <2>2. synced \in BOOLEAN /\ key = None
    BY <2>1 DEF KeyInv, DataKeyTypeOK, CreationSteps
  <2> QED
    BY <2>1, <2>2, KeyKeptPreservesInv
<1>4. CASE OSWritesBack
  <2>1. UNCHANGED <<config, file, kpc, key, cred, hasty>> /\ synced' = TRUE
    BY <1>4 DEF OSWritesBack, WriteBack
  <2>2. config \in Secrets \cup {None}
    BY DEF KeyInv, DataKeyTypeOK
  <2> QED
    BY <2>1, <2>2, KeyKeptPreservesInv
<1>5. CASE PowerFails
  BY <1>5, PowerLossPreservesInv DEF PowerFails
<1>6. ASSUME NEW p \in Podcasts, RequestAddsPodcast(p) PROVE KeyInv'
  BY <1>6, AddPodcastPreservesInv DEF RequestAddsPodcast
<1>7. CASE UNCHANGED keyVars
  <2>1. UNCHANGED <<config, file, synced, kpc, key, cred, hasty>>
    BY <1>7 DEF keyVars
  <2>2. synced \in BOOLEAN /\ config \in Secrets \cup {None}
    BY DEF KeyInv, DataKeyTypeOK
  <2> QED
    BY <2>1, <2>2, KeyKeptPreservesInv
<1>8. CASE StartGroup \/ Request \/ Respond \/ UNCHANGED vars
  BY <1>7, <1>8 DEF StartGroup, Request, Respond, vars
<1>9. CASE WebPart \/ SchedulerPart \/ (\E w \in Workers : WorkerPart(w))
  BY <1>7, <1>9
     DEF WebPart, SchedulerPart, WorkerPart, Listen, ServeFails, Shutdown, Drained,
         SetupState, SetupFails, Processed, TickerFires, SchedulerStops,
         Check, Pop, PopNothing, WakeUp, Handled, ReturnsError, Moves
<1> QED
  BY <1>1, <1>2, <1>3, <1>4, <1>5, <1>6, <1>8, <1>9 DEF Next

-----------------------------------------------------------------------------
(* The errgroup. *)

\* The web server and the scheduler are no workers.
LEMMA PartsDiffer ==
    /\ "web" \in Parts /\ "scheduler" \in Parts /\ "web" # "scheduler"
    /\ \A w \in Workers : w \in Parts /\ w # "web" /\ w # "scheduler"
    /\ None \notin Parts
BY ServerAssumption DEF Parts

\* A part moves on, maybe with an error.  Nothing is lost of the invariant when
\* it is not a late worker, or goes where late workers go.
LEMMA MovePreservesInv ==
    ASSUME GroupInv, NEW g \in Parts,
           NEW to \in Running \cup {"returned", "failed"},
           part' = [part EXCEPT ![g] = to],
           failure' = failure \/ (~Cancelled /\ failure' = g),
           UNCHANGED <<late, active, crashes>>,
           g \in Workers => late[g] = 0 \/ to \in {"checking", "returned"},
           to \in {"draining", "returned", "failed"} => Cancelled',
           g = "web" /\ to = "returned" => active = 0
    PROVE  GroupInv'
<1>1. GroupTypeOK'
  BY DEF GroupInv, GroupTypeOK
<1>2. Cancelled => Cancelled'
  BY DEF Cancelled
<1>3. LateWorkersAreLeaving'
  <2> SUFFICES ASSUME NEW w \in Workers, late[w] # 0
               PROVE  /\ Cancelled' /\ late[w] = 1
                      /\ part'[w] \in {"handling", "checking", "returned"}
    BY DEF LateWorkersAreLeaving
  <2>1. Cancelled /\ late[w] = 1 /\ part[w] \in {"handling", "checking", "returned"}
    BY DEF GroupInv, LateWorkersAreLeaving
  <2>2. part'[w] = to \/ part'[w] = part[w]
    BY PartsDiffer DEF GroupInv, GroupTypeOK
  <2>3. CASE w = g
    BY <1>2, <2>1, <2>3, PartsDiffer DEF GroupInv, GroupTypeOK
  <2>4. CASE w # g
    BY <1>2, <2>1, <2>4, PartsDiffer DEF GroupInv, GroupTypeOK
  <2> QED
    BY <2>3, <2>4
<1>4. ReturnedIsDrained'
  BY PartsDiffer DEF GroupInv, GroupTypeOK, ReturnedIsDrained
<1>5. NoSilentEnd'
  BY <1>2 DEF GroupInv, GroupTypeOK, NoSilentEnd
<1> QED
  BY <1>1, <1>3, <1>4, <1>5 DEF GroupInv

\* What Moves and ReturnsError do to the group.
LEMMA MovesAndErrors ==
    ASSUME NEW g, NEW from, NEW to,
           \/ Moves(g, from, to) /\ UNCHANGED <<failure, late, active>>
           \/ ReturnsError(g, from, to)
    PROVE  /\ part[g] = from
           /\ part' = [part EXCEPT ![g] = to]
           /\ failure' = failure \/ (~Cancelled /\ failure' = g)
           /\ UNCHANGED <<late, active, crashes>>
           /\ ReturnsError(g, from, to) /\ g \in Parts => Cancelled'
BY PartsDiffer DEF Moves, ReturnsError, Cancelled

\* A worker goes round its loop.  It pops too late at most once, because after
\* the handler it looks at the context before it pops again.
LEMMA WorkerPreservesInv ==
    ASSUME GroupInv, NEW w \in Workers, WorkerPart(w)
    PROVE  GroupInv'
<1>1. w \in Parts /\ w # "web"
  BY PartsDiffer
<1>2. late[w] # 0 => /\ Cancelled
                     /\ part[w] \in {"handling", "checking", "returned"}
  BY DEF GroupInv, LateWorkersAreLeaving
<1>3. CASE Check(w)
  <2>1. CASE Cancelled /\ ReturnsError(w, "checking", "returned")
    BY <1>1, <2>1, MovesAndErrors, MovePreservesInv
  <2>2. CASE ~Cancelled /\ Moves(w, "checking", "popping") /\ UNCHANGED <<failure, late, active>>
    <3>1. late[w] = 0
      BY <1>2, <2>2
    <3>2. "popping" \in Running
      BY DEF Running
    <3> QED
      BY <1>1, <2>2, <3>1, <3>2, MovesAndErrors, MovePreservesInv
  <2> QED
    BY <1>3, <2>1, <2>2 DEF Check
<1>4. CASE PopNothing(w)
  <2>1. Moves(w, "popping", "sleeping") /\ UNCHANGED <<failure, late, active>>
    BY <1>4 DEF PopNothing
  <2>2. late[w] = 0 /\ "sleeping" \in Running
    BY <1>2, <2>1 DEF Moves, Running
  <2> QED
    BY <1>1, <2>1, <2>2, MovesAndErrors, MovePreservesInv
<1>5. CASE WakeUp(w) \/ Handled(w)
  <2>1. "checking" \in Running
    BY DEF Running
  <2> QED
    BY <1>1, <1>5, <2>1, MovesAndErrors, MovePreservesInv DEF WakeUp, Handled
<1>6. CASE Pop(w)
  <2>1. /\ part[w] = "popping"
        /\ part' = [part EXCEPT ![w] = "handling"]
        /\ late' = [late EXCEPT ![w] = IF Cancelled /\ late[w] < 2 THEN late[w] + 1 ELSE late[w]]
        /\ UNCHANGED <<failure, active, crashes>>
    BY <1>6 DEF Pop, Moves
  <2>2. late[w] = 0
    BY <1>2, <2>1
  <2>3. late' = [late EXCEPT ![w] = IF Cancelled THEN 1 ELSE 0]
    BY <2>1, <2>2
  <2>4. GroupTypeOK'
    BY <1>1, <2>1, <2>3 DEF GroupInv, GroupTypeOK, Running
  <2>5. LateWorkersAreLeaving'
    BY <1>1, <2>1, <2>3 DEF GroupInv, GroupTypeOK, LateWorkersAreLeaving, Cancelled, Parts
  <2>6. ReturnedIsDrained'
    BY <1>1, <2>1 DEF GroupInv, GroupTypeOK, ReturnedIsDrained
  <2>7. NoSilentEnd'
    BY <2>1 DEF GroupInv, GroupTypeOK, NoSilentEnd, Cancelled
  <2> QED
    BY <2>4, <2>5, <2>6, <2>7 DEF GroupInv
<1> QED
  BY <1>3, <1>4, <1>5, <1>6 DEF WorkerPart

\* The scheduler is no worker and answers no requests.
LEMMA SchedulerPreservesInv ==
    ASSUME GroupInv, SchedulerPart
    PROVE  GroupInv'
<1>1. "scheduler" \in Parts /\ "scheduler" \notin Workers
  BY PartsDiffer
<1>2. PICK from, to \in Running \cup {"returned", "failed"} :
        \/ /\ Moves("scheduler", from, to) /\ UNCHANGED <<failure, late, active>>
           /\ to \notin {"draining", "returned", "failed"}
        \/ ReturnsError("scheduler", from, to)
  BY DEF SchedulerPart, SetupState, SetupFails, Processed, TickerFires, SchedulerStops, Running
<1> QED
  BY <1>1, <1>2, MovesAndErrors, MovePreservesInv

\* The web server returns from Shutdown when every request is answered.
LEMMA WebPreservesInv ==
    ASSUME GroupInv, WebPart
    PROVE  GroupInv'
<1>1. "web" \in Parts /\ "web" \notin Workers
  BY PartsDiffer
<1>2. part["web"] = "draining" => Cancelled
  BY <1>1 DEF GroupInv, NoSilentEnd
<1>3. PICK from, to \in Running \cup {"returned", "failed"} :
        /\ \/ /\ Moves("web", from, to) /\ UNCHANGED <<failure, late, active>>
              /\ to = "serving" \/ Cancelled
           \/ ReturnsError("web", from, to)
        /\ to = "returned" => active = 0
  BY <1>2 DEF WebPart, Listen, ServeFails, Shutdown, Drained, Running, Moves
<1>4. to = "serving" \/ Cancelled'
  BY <1>1, <1>3, MovesAndErrors DEF Cancelled
<1> QED
  BY <1>1, <1>3, <1>4, MovesAndErrors, MovePreservesInv

\* Requests come and go while the web server has not returned.
LEMMA RequestPreservesInv ==
    ASSUME GroupInv, Request \/ Respond
    PROVE  GroupInv'
<1>1. /\ UNCHANGED <<part, failure, late, crashes>>
      /\ active' \in 0 .. MaxRequests
      /\ part["web"] = "returned" => active = 0 /\ active' = 0
  BY ServerAssumption DEF GroupInv, GroupTypeOK, ReturnedIsDrained, Request, Respond
<1> QED
  BY <1>1 DEF GroupInv, GroupTypeOK, LateWorkersAreLeaving, NoSilentEnd, Cancelled,
              ReturnedIsDrained

\* The process ends: no part, no failure, no request.
LEMMA EndPreservesInv ==
    ASSUME GroupInv, GroupEnds, crashes' \in 0 .. MaxCrashes
    PROVE  GroupInv'
<1>1. GroupTypeOK'
  BY ServerAssumption DEF GroupInv, GroupTypeOK, GroupEnds
<1>2. LateWorkersAreLeaving' /\ NoSilentEnd' /\ ReturnedIsDrained'
  BY PartsDiffer DEF GroupEnds, LateWorkersAreLeaving, NoSilentEnd, ReturnedIsDrained
<1> QED
  BY <1>1, <1>2 DEF GroupInv

\* The group starts with every part at the beginning of its loop.
LEMMA StartPreservesInv ==
    ASSUME GroupInv, StartGroup
    PROVE  GroupInv'
<1>1. \A g \in Parts : part[g] = "off"
  BY DEF StartGroup
<1>2. \A w \in Workers : late[w] = 0
  BY <1>1, PartsDiffer DEF GroupInv, LateWorkersAreLeaving
<1>3. /\ part' \in [Parts -> Running]
      /\ \A g \in Parts : part'[g] \notin {"draining", "returned", "failed"}
      /\ UNCHANGED <<failure, late, active, crashes>>
  BY PartsDiffer DEF StartGroup, Running
<1> QED
  BY <1>2, <1>3, PartsDiffer
     DEF GroupInv, GroupTypeOK, LateWorkersAreLeaving, NoSilentEnd, ReturnedIsDrained

\* No step breaks the invariant of the group.
LEMMA NextPreservesGroupInv == GroupInv /\ [Next]_vars => GroupInv'
<1> SUFFICES ASSUME GroupInv, [Next]_vars PROVE GroupInv'
  OBVIOUS
<1>1. CASE UNCHANGED <<groupVars, crashes>>
  BY <1>1 DEF groupVars, GroupInv, GroupTypeOK, LateWorkersAreLeaving, NoSilentEnd,
              ReturnedIsDrained, Cancelled
<1>2. CASE \/ Keying \/ OSWritesBack \/ UNCHANGED vars
           \/ \E p \in Podcasts : RequestAddsPodcast(p)
           \/ \E s \in Secrets \cup {None} : Reconfigure(s)
  BY <1>1, <1>2 DEF Keying, OSWritesBack, RequestAddsPodcast, Reconfigure, vars
<1>3. CASE Wait \/ Killed \/ PowerFails
  <2>1. GroupEnds /\ crashes' \in 0 .. MaxCrashes
    BY <1>3, ServerAssumption DEF Wait, Killed, PowerFails, MayCrash, GroupInv, GroupTypeOK
  <2> QED
    BY <2>1, EndPreservesInv
<1> QED
  BY <1>2, <1>3, StartPreservesInv, WebPreservesInv, SchedulerPreservesInv, WorkerPreservesInv,
     RequestPreservesInv DEF Next

-----------------------------------------------------------------------------
\* Both halves hold of a server that was never started.
LEMMA InitEstablishesInv == Init => KeyInv /\ GroupInv
<1> SUFFICES ASSUME Init PROVE KeyInv /\ GroupInv
  OBVIOUS
<1>1. DataKeyTypeOK
  <2>1. synced \in BOOLEAN /\ hasty \in BOOLEAN
    BY DEF Init, DataKeyInit
  <2> QED
    BY <2>1 DEF Init, DataKeyInit, DataKeyTypeOK
<1>2. CreationSteps /\ KeyInUseIsSynced /\ NeededKeyIsSynced /\ CredentialsSurvive
  BY DEF Init, DataKeyInit, CreationSteps, KeyInUseIsSynced, NeededKeyIsSynced,
         CredentialsSurvive
<1>3. GroupTypeOK
  BY ServerAssumption DEF Init, GroupOff, GroupTypeOK
<1>4. LateWorkersAreLeaving /\ NoSilentEnd /\ ReturnedIsDrained
  BY PartsDiffer DEF Init, GroupOff, LateWorkersAreLeaving, NoSilentEnd, ReturnedIsDrained
<1> QED
  BY <1>1, <1>2, <1>3, <1>4 DEF KeyInv, GroupInv

\* Both halves hold of every reachable state.
LEMMA Invariance == Spec => [](KeyInv /\ GroupInv)
BY InitEstablishesInv, NextPreservesKeyInv, NextPreservesGroupInv, PTL DEF Spec

\* The state of the process stays in its type, over all its lives.
THEOREM TypeCorrect == Spec => []TypeOK
<1>1. KeyInv /\ GroupInv => TypeOK
  BY DEF KeyInv, GroupInv, GroupTypeOK, TypeOK
<1> QED
  BY <1>1, Invariance, PTL

\* However often the server is killed, the machine loses power and the secret is
\* changed: dek.json holds the key of every stored credential, as long as no key
\* was taken from a file that a killed process had not synced.
THEOREM CredentialsAreSafe == Spec => []CredentialsSurvive
<1>1. KeyInv /\ GroupInv => CredentialsSurvive
  BY DEF KeyInv
<1> QED
  BY <1>1, Invariance, PTL

\* Each worker, of any number, starts at most one more task once some part of
\* the server has failed.
THEOREM WorkersStop == Spec => []AtMostOneLatePop
<1>1. KeyInv /\ GroupInv => AtMostOneLatePop
  BY DEF GroupInv, GroupTypeOK, LateWorkersAreLeaving, AtMostOneLatePop
<1> QED
  BY <1>1, Invariance, PTL

\* Whichever part fails first, and with any number of requests being served: the
\* process ends without a kill or a power failure only when they are answered,
\* or when it was the web server that failed.
THEOREM ShutdownDrains == Spec => RequestsDrained
<1>1. GroupInv /\ [Next]_vars =>
        [kpc = "ready" /\ kpc' = "down" /\ active > 0 =>
            part["web"] = "failed" \/ crashes' > crashes]_vars
  <2> SUFFICES ASSUME GroupInv, Next, kpc = "ready", kpc' = "down", active > 0
               PROVE  part["web"] = "failed" \/ crashes' > crashes
    OBVIOUS
  <2>1. CASE Wait
    <3>1. part["web"] \in {"returned", "failed"} /\ active # 0
      BY <2>1, PartsDiffer DEF Wait
    <3> QED
      BY <3>1 DEF GroupInv, ReturnedIsDrained
  <2>2. CASE Killed \/ PowerFails
    BY <2>2, ServerAssumption DEF Killed, PowerFails, MayCrash, GroupInv, GroupTypeOK
  <2>3. CASE Keying \/ \E s \in Secrets \cup {None} : Reconfigure(s)
    BY <2>3 DEF Keying, ConfigureEncryptedValueService, KeyStep, loadOrCreateDEK, CreateFile,
                WriteKeyset, Sync, LoadKeyset, LoadFails, Unloadable, Reconfigure, Configure
  <2>4. CASE StartGroup \/ Request \/ Respond \/ OSWritesBack
             \/ \E p \in Podcasts : RequestAddsPodcast(p)
    BY <2>4 DEF StartGroup, Request, Respond, OSWritesBack, WriteBack, RequestAddsPodcast,
                AddPodcast, keyVars
  <2>5. CASE WebPart \/ SchedulerPart \/ (\E w \in Workers : WorkerPart(w))
    BY <2>5
       DEF WebPart, SchedulerPart, WorkerPart, Listen, ServeFails, Shutdown, Drained,
           SetupState, SetupFails, Processed, TickerFires, SchedulerStops,
           Check, Pop, PopNothing, WakeUp, Handled, ReturnsError, Moves, keyVars
  <2> QED
    BY <2>1, <2>2, <2>3, <2>4, <2>5 DEF Next
<1> QED
  BY <1>1, Invariance, PTL DEF Spec, RequestsDrained

\* A part that has ended has ended all: the error it returned, or one before it,
\* has cancelled the context the other parts look at.  (That they then do end,
\* PartsEndTogether, is checked by TLC.)
THEOREM NoPartEndsAlone == Spec => []NoSilentEnd
<1>1. KeyInv /\ GroupInv => NoSilentEnd
  BY DEF GroupInv
<1> QED
  BY <1>1, Invariance, PTL
=============================================================================
