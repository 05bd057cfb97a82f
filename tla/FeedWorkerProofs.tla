-------------------------- MODULE FeedWorkerProofs --------------------------
(***************************************************************************)
(* Proofs about FeedWorker for any podcasts and items, whatever GUIDs      *)
(* their feeds give them and whatever they can be parsed to; and about the *)
(* way of an item through FeedParsing, which parses and validates it, for  *)
(* items of any length and any value of the range of int.                  *)
(***************************************************************************)
EXTENDS FeedWorker, FeedParsing, TLAPS

\* What feedGUID gives for the podcast, now or at the fetch in progress: the GUID
\* of its row or, if the feed is not stable, perhaps another one.
GivenTo(guid, p) == guid \in {p, Unsubscribed} /\ (p \in Stable => guid = p)

FeedsKeepGUID == \A p \in Podcasts : GivenTo(feedGUID[p], p)

\* A feed gets its items in order of publication.
PublishedInOrder ==
    \A i \in published, j \in Items :
        PodcastOf[j] = PodcastOf[i] /\ RankOf[j] < RankOf[i] => j \in published

\* Between two podcasts processPodcast holds nothing.
IdleIsEmpty ==
    current = None => remaining = {} /\ existing = {} /\ fetched = {}

\* The feed as it was read: the readable items of one podcast up to some item.
FetchIsPrefix ==
    current # None =>
        /\ GivenTo(podcastGUID, current)
        /\ \A i \in fetched : i \in published \cap Parseable /\ PodcastOf[i] = current
        /\ \A i \in fetched, j \in Parseable :
              PodcastOf[j] = current /\ RankOf[j] < RankOf[i] => j \in fetched

\* The list of existing episodes stays right while it is used.
ExistingAreOwned == \A g \in existing : owner[g] = current

\* What the loop of processPodcast has gone through is in the table.
DoneAreOwned ==
    current # None /\ podcastGUID = current =>
        \A i \in fetched \ remaining : owner[GuidOf[i]] = current

\* Episodes come from items that were in a feed.
OwnedWerePublished ==
    \A g \in Guids : owner[g] # None => \E i \in published : GuidOf[i] = g

IndInv ==
    /\ TypeOK
    /\ FeedsKeepGUID
    /\ PublishedInOrder
    /\ IdleIsEmpty
    /\ FetchIsPrefix
    /\ ExistingAreOwned
    /\ DoneAreOwned
    /\ OwnedWerePublished
    /\ CheckedMeansComplete
    /\ NoGaps

-----------------------------------------------------------------------------
\* Every item's GUID is one of the GUIDs the episodes table is indexed by.
LEMMA GuidsOfItems == \A i \in Items : GuidOf[i] \in Guids
BY DEF Guids

\* The empty archive satisfies the inductive invariant.
LEMMA InitEstablishesInv == Init => IndInv
<1> SUFFICES ASSUME Init PROVE IndInv
  OBVIOUS
<1> USE FeedWorkerAssumption DEF Init
<1>0. running \in BOOLEAN /\ seen \in [Podcasts -> SUBSET Parseable]
  OBVIOUS
<1>1. TypeOK
  BY <1>0 DEF TypeOK, Never
<1>2. FeedsKeepGUID /\ PublishedInOrder
  BY DEF FeedsKeepGUID, PublishedInOrder, GivenTo
<1>3. IdleIsEmpty /\ FetchIsPrefix /\ ExistingAreOwned /\ DoneAreOwned
  BY DEF IdleIsEmpty, FetchIsPrefix, ExistingAreOwned, DoneAreOwned
<1>4. OwnedWerePublished /\ CheckedMeansComplete /\ NoGaps
  BY DEF OwnedWerePublished, CheckedMeansComplete, NoGaps
<1> QED
  BY <1>1, <1>2, <1>3, <1>4 DEF IndInv

\* A new item is the last of its feed and is not in the table: neither the
\* fetch in progress nor the order of the table is disturbed.
LEMMA PublishPreservesInv == ASSUME IndInv, NEW k \in Items, Publish(k) PROVE IndInv'
<1> USE FeedWorkerAssumption
<1>1. /\ k \notin published /\ published' = published \cup {k}
      /\ \A j \in Items : PodcastOf[j] = PodcastOf[k] /\ RankOf[j] < RankOf[k] => j \in published
      /\ UNCHANGED <<feedGUID, subscribed, sinceChecked, owner, todo, current, podcastGUID,
                     remaining, existing, running, fetched, restarts, seen>>
  BY DEF Publish, tables, worker
<1>2. TypeOK'
  BY <1>1 DEF IndInv, TypeOK
<1>3. FeedsKeepGUID' /\ PublishedInOrder'
  BY <1>1 DEF IndInv, FeedsKeepGUID, GivenTo, PublishedInOrder
<1>4. IdleIsEmpty' /\ FetchIsPrefix'
  BY <1>1 DEF IndInv, IdleIsEmpty, FetchIsPrefix, GivenTo
<1>5. ExistingAreOwned' /\ DoneAreOwned' /\ OwnedWerePublished' /\ CheckedMeansComplete'
  BY <1>1 DEF IndInv, ExistingAreOwned, DoneAreOwned, OwnedWerePublished, CheckedMeansComplete
<1>6. NoGaps'
  <2> SUFFICES ASSUME NEW i \in published' \cap Parseable, NEW j \in published' \cap Parseable,
                      PodcastOf[i] = PodcastOf[j], RankOf[i] < RankOf[j],
                      \A l \in Items : GuidOf[l] = GuidOf[j] => l = j,
                      owner[GuidOf[j]] = PodcastOf[j]
               PROVE  owner[GuidOf[i]] = PodcastOf[i]
    BY <1>1 DEF NoGaps
  <2>1. i \in Items /\ j \in Items /\ PodcastOf[j] # None
    OBVIOUS
  <2>2. \E l \in published : GuidOf[l] = GuidOf[j]
    BY <2>1, GuidsOfItems DEF IndInv, OwnedWerePublished
  <2>3. j \in published
    BY <2>2 DEF IndInv, TypeOK
  <2>4. i \in published
    BY <2>1, <2>3 DEF IndInv, PublishedInOrder
  <2> QED
    BY <2>3, <2>4 DEF IndInv, NoGaps
<1> QED
  BY <1>2, <1>3, <1>4, <1>5, <1>6 DEF IndInv

\* Only a feed that is not Stable changes its GUID, and FeedsKeepGUID allows it the new one.
LEMMA ChangeFeedGUIDPreservesInv ==
    ASSUME IndInv, NEW p \in Podcasts, ChangeFeedGUID(p)
    PROVE  IndInv'
<1>1. /\ p \notin Stable /\ feedGUID' = [feedGUID EXCEPT ![p] = Unsubscribed]
      /\ UNCHANGED <<published, subscribed, sinceChecked, owner, todo, current, podcastGUID,
                     remaining, existing, running, fetched, restarts, seen>>
  BY DEF ChangeFeedGUID, tables, worker
<1>2. TypeOK'
  BY <1>1 DEF IndInv, TypeOK
<1>3. FeedsKeepGUID'
  BY <1>1 DEF IndInv, TypeOK, FeedsKeepGUID, GivenTo
<1>4. PublishedInOrder' /\ IdleIsEmpty' /\ FetchIsPrefix' /\ ExistingAreOwned' /\ DoneAreOwned'
  BY <1>1 DEF IndInv, PublishedInOrder, IdleIsEmpty, FetchIsPrefix, GivenTo, ExistingAreOwned,
              DoneAreOwned
<1>5. OwnedWerePublished' /\ CheckedMeansComplete' /\ NoGaps'
  BY <1>1 DEF IndInv, OwnedWerePublished, CheckedMeansComplete, NoGaps
<1> QED
  BY <1>2, <1>3, <1>4, <1>5 DEF IndInv

\* Steps that leave the feeds, the episodes and the fetch in progress alone.
LEMMA AsidePreservesInv ==
    ASSUME IndInv,
           UNCHANGED <<published, feedGUID, owner, current, podcastGUID, remaining, existing,
                       fetched, seen>>,
           TypeOK'
    PROVE  IndInv'
<1>1. FeedsKeepGUID' /\ PublishedInOrder' /\ IdleIsEmpty' /\ FetchIsPrefix'
  BY DEF IndInv, FeedsKeepGUID, GivenTo, PublishedInOrder, IdleIsEmpty, FetchIsPrefix
<1>2. ExistingAreOwned' /\ DoneAreOwned'
  BY DEF IndInv, ExistingAreOwned, DoneAreOwned
<1>3. OwnedWerePublished' /\ CheckedMeansComplete' /\ NoGaps'
  BY DEF IndInv, OwnedWerePublished, CheckedMeansComplete, NoGaps
<1> QED
  BY <1>1, <1>2, <1>3 DEF IndInv

\* The run and the list of podcasts.
LEMMA RunPreservesInv ==
    ASSUME IndInv,
           \/ StartRun \/ EndRun \/ Tick \/ UNCHANGED vars
           \/ \E p \in Podcasts : AddPodcast(p) \/ SkipPodcast(p) \/ FetchFails(p)
    PROVE  IndInv'
<1> USE FeedWorkerAssumption
<1>0. TypeOK /\ running \in BOOLEAN
  BY DEF IndInv, TypeOK
<1>1. UNCHANGED <<published, feedGUID, owner, current, podcastGUID, remaining, existing,
                  fetched, seen>>
  BY DEF StartRun, EndRun, Tick, AddPodcast, SkipPodcast, FetchFails, vars, tables, feeds, worker
<1>2. /\ subscribed' \subseteq Podcasts
      /\ todo' \subseteq subscribed'
      /\ restarts' = restarts
  BY <1>0 DEF TypeOK, StartRun, EndRun, Tick, AddPodcast, SkipPodcast, FetchFails, vars, tables,
              feeds, worker
<1>3. running' \in BOOLEAN
  BY <1>0 DEF StartRun, EndRun, Tick, AddPodcast, SkipPodcast, FetchFails, vars, tables,
              feeds, worker
<1>4. sinceChecked' \in [Podcasts -> 0 .. Never]
  <2>1. CASE Tick
    BY <1>0, <2>1 DEF Tick, TypeOK, Never
  <2>2. CASE ~Tick
    <3>1. sinceChecked' = sinceChecked
      BY <2>2 DEF StartRun, EndRun, AddPodcast, SkipPodcast, FetchFails, vars, tables, feeds
    <3> QED
      BY <1>0, <3>1 DEF TypeOK
  <2> QED
    BY <2>1, <2>2
<1>5. TypeOK'
  BY <1>0, <1>1, <1>2, <1>3, <1>4 DEF TypeOK
<1> QED
  BY <1>1, <1>5, AsidePreservesInv

\* The feed is read, and the existing episodes are listed.
LEMMA FetchPreservesInv == ASSUME IndInv, NEW p \in Podcasts, FetchPodcast(p) PROVE IndInv'
<1> USE FeedWorkerAssumption
<1>1. /\ current = None /\ current' = p /\ todo' = todo \ {p}
      /\ fetched' = {i \in published : PodcastOf[i] = p} \cap Parseable
      /\ podcastGUID' = feedGUID[p]
      /\ remaining' = fetched'
      /\ existing' = {g \in Guids : owner[g] = p}
      /\ UNCHANGED <<published, feedGUID, subscribed, sinceChecked, owner, running, restarts, seen>>
  BY DEF FetchPodcast, ParseFeed, ListEpisodes, feeds, tables
<1>2. p # None
  OBVIOUS
<1>3. running' \in BOOLEAN
  BY <1>1 DEF IndInv, TypeOK
<1>4. TypeOK'
  BY <1>1, <1>3 DEF IndInv, TypeOK
<1>5. FeedsKeepGUID' /\ PublishedInOrder' /\ IdleIsEmpty'
  BY <1>1, <1>2 DEF IndInv, FeedsKeepGUID, GivenTo, PublishedInOrder, IdleIsEmpty
<1>6. FetchIsPrefix'
  <2>1. GivenTo(feedGUID[p], p)
    BY DEF IndInv, FeedsKeepGUID
  <2>2. \A i \in fetched', j \in Parseable :
          PodcastOf[j] = p /\ RankOf[j] < RankOf[i] => j \in fetched'
    BY <1>1 DEF IndInv, PublishedInOrder
  <2> QED
    BY <1>1, <2>1, <2>2 DEF FetchIsPrefix, GivenTo
<1>7. ExistingAreOwned' /\ DoneAreOwned'
  BY <1>1 DEF ExistingAreOwned, DoneAreOwned
<1>8. OwnedWerePublished' /\ CheckedMeansComplete' /\ NoGaps'
  BY <1>1 DEF IndInv, OwnedWerePublished, CheckedMeansComplete, NoGaps
<1> QED
  BY <1>4, <1>5, <1>6, <1>7, <1>8 DEF IndInv

\* A skipped item has a stored episode already.
LEMMA SkipExistingPreservesInv == ASSUME IndInv, NEW k \in Items, SkipExisting(k) PROVE IndInv'
<1>1. /\ current # None /\ k \in remaining /\ GuidOf[k] \in existing
      /\ remaining' = remaining \ {k}
      /\ UNCHANGED <<published, feedGUID, subscribed, sinceChecked, owner, todo, current,
                     podcastGUID, existing, running, fetched, restarts, seen>>
  BY DEF SkipExisting, IsNext, feeds, tables
<1>2. running' \in BOOLEAN
  BY <1>1 DEF IndInv, TypeOK
<1>3. TypeOK'
  BY <1>1, <1>2 DEF IndInv, TypeOK
<1>4. FeedsKeepGUID' /\ PublishedInOrder' /\ IdleIsEmpty' /\ FetchIsPrefix' /\ ExistingAreOwned'
  BY <1>1 DEF IndInv, FeedsKeepGUID, GivenTo, PublishedInOrder, IdleIsEmpty, FetchIsPrefix,
              ExistingAreOwned
<1>5. DoneAreOwned'
  BY <1>1 DEF IndInv, ExistingAreOwned, DoneAreOwned
<1>6. OwnedWerePublished' /\ CheckedMeansComplete' /\ NoGaps'
  BY <1>1 DEF IndInv, OwnedWerePublished, CheckedMeansComplete, NoGaps
<1> QED
  BY <1>3, <1>4, <1>5, <1>6 DEF IndInv

\* An episode is created for the oldest item that is left: the ones before it
\* have been dealt with, and no row changes its owner.
LEMMA CreatePreservesInv == ASSUME IndInv, NEW k \in Items, CreateEpisode(k) PROVE IndInv'
<1> USE FeedWorkerAssumption
<1>1. /\ current # None /\ k \in remaining
      /\ \A j \in remaining : RankOf[k] <= RankOf[j]
      /\ owner[GuidOf[k]] = None
      /\ owner' = [owner EXCEPT ![GuidOf[k]] = podcastGUID]
      /\ remaining' = remaining \ {k}
      /\ UNCHANGED <<published, feedGUID, subscribed, sinceChecked, todo, current,
                     podcastGUID, existing, running, fetched, restarts, seen>>
  BY DEF CreateEpisode, IsNext, Creatable, feeds
<1>2. /\ k \in published \cap Parseable /\ k \in fetched /\ PodcastOf[k] = current
      /\ podcastGUID \in {current, Unsubscribed} /\ current \in Podcasts
  BY <1>1 DEF IndInv, TypeOK, FetchIsPrefix, GivenTo
<1>3. /\ \A g \in Guids : g # GuidOf[k] => owner'[g] = owner[g]
      /\ owner'[GuidOf[k]] = podcastGUID
      /\ \A g \in Guids : owner[g] # None => owner'[g] = owner[g]
  BY <1>1, GuidsOfItems DEF IndInv, TypeOK
<1>4. running' \in BOOLEAN
  BY <1>1 DEF IndInv, TypeOK
<1>5. TypeOK'
  BY <1>1, <1>2, <1>4 DEF IndInv, TypeOK
<1>6. FeedsKeepGUID' /\ PublishedInOrder' /\ IdleIsEmpty' /\ FetchIsPrefix'
  BY <1>1 DEF IndInv, FeedsKeepGUID, GivenTo, PublishedInOrder, IdleIsEmpty, FetchIsPrefix
<1>7. ExistingAreOwned'
  BY <1>1, <1>3 DEF IndInv, TypeOK, ExistingAreOwned
<1>8. DoneAreOwned'
  <2> SUFFICES ASSUME podcastGUID = current, NEW i \in fetched, i \notin remaining \/ i = k
               PROVE  owner'[GuidOf[i]] = current
    BY <1>1 DEF DoneAreOwned
  <2>1. CASE i = k
    BY <1>3, <2>1
  <2>2. CASE i # k
    <3>1. owner[GuidOf[i]] = current /\ GuidOf[i] \in Guids
      BY <1>1, <2>2, GuidsOfItems DEF IndInv, TypeOK, DoneAreOwned
    <3> QED
      BY <1>1, <1>3, <3>1
  <2> QED
    BY <2>1, <2>2
<1>9. OwnedWerePublished'
  BY <1>1, <1>2, <1>3 DEF IndInv, OwnedWerePublished
<1>10. CheckedMeansComplete'
  <2> SUFFICES ASSUME NEW p \in Stable, NEW i \in seen[p]
               PROVE  owner'[GuidOf[i]] = p
    BY <1>1 DEF CheckedMeansComplete
  <2>1. i \in Items /\ p # None /\ owner[GuidOf[i]] = p
    BY DEF IndInv, TypeOK, CheckedMeansComplete
  <2> QED
    BY <1>3, <2>1, GuidsOfItems
<1>11. NoGaps'
  <2> SUFFICES ASSUME NEW i \in published \cap Parseable, NEW j \in published \cap Parseable,
                      PodcastOf[i] = PodcastOf[j], RankOf[i] < RankOf[j],
                      \A l \in Items : GuidOf[l] = GuidOf[j] => l = j,
                      owner'[GuidOf[j]] = PodcastOf[j]
               PROVE  owner'[GuidOf[i]] = PodcastOf[i]
    BY <1>1 DEF NoGaps
  <2>1. i \in Items /\ j \in Items /\ PodcastOf[i] \in Podcasts /\ PodcastOf[i] # None
    OBVIOUS
  <2>2. owner[GuidOf[i]] = PodcastOf[i]
    <3>1. CASE GuidOf[j] = GuidOf[k]
      <4>1. j = k
        BY <3>1
      <4>2. podcastGUID = current
        BY <1>2, <1>3, <2>1, <4>1
      <4>3. i \in fetched /\ i \notin remaining
        <5>1. i \in fetched
          BY <1>1, <1>2, <4>1 DEF IndInv, FetchIsPrefix
        <5>2. RankOf[i] \in Nat /\ RankOf[k] \in Nat
          OBVIOUS
        <5> QED
          BY <1>1, <4>1, <5>1, <5>2
      <4> QED
        BY <1>1, <1>2, <4>1, <4>2, <4>3 DEF IndInv, DoneAreOwned
    <3>2. CASE GuidOf[j] # GuidOf[k]
      BY <1>3, <2>1, <3>2, GuidsOfItems DEF IndInv, NoGaps
    <3> QED
      BY <3>1, <3>2
  <2> QED
    BY <1>3, <2>1, <2>2, GuidsOfItems
<1> QED
  BY <1>5, <1>6, <1>7, <1>8, <1>9, <1>10, <1>11 DEF IndInv

\* processPodcast ends, early or not, or the process dies: what it held is
\* forgotten; the check is recorded only when nothing is left to do.
LEMMA LeavePreservesInv ==
    ASSUME IndInv,
           \/ UpdatePodcastTimes \/ UpdateTimesFails \/ Restart
           \/ \E i \in Items : CreateFails(i)
    PROVE  IndInv'
<1> USE FeedWorkerAssumption
<1>1. /\ current' = None /\ podcastGUID' = None /\ remaining' = {} /\ existing' = {}
      /\ fetched' = {}
      /\ UNCHANGED <<published, feedGUID, subscribed, owner>>
      /\ todo' \in {todo, {}}
  BY DEF UpdatePodcastTimes, UpdateTimesFails, Restart, CreateFails, Leave, feeds, tables
<1>2. running' \in BOOLEAN
  BY DEF UpdatePodcastTimes, UpdateTimesFails, Restart, CreateFails, Leave, IndInv, TypeOK
<1>3. restarts' \in 0 .. MaxRestarts
  BY DEF UpdatePodcastTimes, UpdateTimesFails, Restart, CreateFails, IndInv, TypeOK
<1>4. \/ sinceChecked' = sinceChecked /\ seen' = seen
      \/ UpdatePodcastTimes
  BY DEF UpdateTimesFails, Restart, CreateFails, tables
<1>5. /\ sinceChecked' \in [Podcasts -> 0 .. Never]
      /\ seen' \in [Podcasts -> SUBSET Parseable]
      /\ CheckedMeansComplete'
  <2>1. CASE sinceChecked' = sinceChecked /\ seen' = seen
    BY <1>1, <2>1 DEF IndInv, TypeOK, CheckedMeansComplete
  <2>2. CASE UpdatePodcastTimes
    <3>1. /\ current # None /\ remaining = {}
          /\ sinceChecked' = [sinceChecked EXCEPT ![current] = 0]
          /\ seen' = [seen EXCEPT ![current] = fetched]
      BY <2>2 DEF UpdatePodcastTimes
    <3>2. current \in Podcasts /\ fetched \in SUBSET Parseable
      BY <3>1 DEF IndInv, TypeOK
    <3>3. sinceChecked' \in [Podcasts -> 0 .. Never] /\ seen' \in [Podcasts -> SUBSET Parseable]
      BY <3>1, <3>2 DEF IndInv, TypeOK, Never
    <3>4. current \in Stable => \A i \in fetched : owner[GuidOf[i]] = current
      BY <3>1 DEF IndInv, FetchIsPrefix, GivenTo, DoneAreOwned
    <3>5. CheckedMeansComplete'
      BY <1>1, <3>1, <3>2, <3>4 DEF IndInv, TypeOK, CheckedMeansComplete
    <3> QED
      BY <3>3, <3>5
  <2> QED
    BY <1>4, <2>1, <2>2
<1>6. TypeOK'
  BY <1>1, <1>2, <1>3, <1>5 DEF IndInv, TypeOK
<1>7. FeedsKeepGUID' /\ PublishedInOrder' /\ IdleIsEmpty' /\ FetchIsPrefix'
  BY <1>1 DEF IndInv, FeedsKeepGUID, GivenTo, PublishedInOrder, IdleIsEmpty, FetchIsPrefix
<1>8. ExistingAreOwned' /\ DoneAreOwned' /\ OwnedWerePublished' /\ NoGaps'
  BY <1>1 DEF IndInv, ExistingAreOwned, DoneAreOwned, OwnedWerePublished, NoGaps
<1> QED
  BY <1>5, <1>6, <1>7, <1>8 DEF IndInv

\* IndInv is an invariant of FeedWorker.
LEMMA Invariance == Spec => []IndInv
<1>1. Init => IndInv
  BY InitEstablishesInv
<1>2. IndInv /\ [Next]_vars => IndInv'
  BY PublishPreservesInv, ChangeFeedGUIDPreservesInv, RunPreservesInv, FetchPreservesInv,
     SkipExistingPreservesInv, CreatePreservesInv, LeavePreservesInv
     DEF Next, ProcessPodcast
<1> QED
  BY <1>1, <1>2, PTL DEF Spec

-----------------------------------------------------------------------------
\* The tables and what processPodcast holds keep their types.
THEOREM TypeCorrect == Spec => []TypeOK
<1>1. IndInv => TypeOK
  BY DEF IndInv
<1> QED
  BY <1>1, Invariance, PTL

\* UpdatePodcastTimes is reached only when every readable item of a stable
\* feed has its row, however GUIDs are repeated within or between feeds.
THEOREM ChecksAreComplete == Spec => []CheckedMeansComplete
<1>1. IndInv => CheckedMeansComplete
  BY DEF IndInv
<1> QED
  BY <1>1, Invariance, PTL

\* Whatever cuts a run short, the oldest items of the feed are the ones that
\* have rows.
THEOREM EpisodesHaveNoGaps == Spec => []NoGaps
<1>1. IndInv => NoGaps
  BY DEF IndInv
<1> QED
  BY <1>1, Invariance, PTL

-----------------------------------------------------------------------------
(* FeedParsing: what becomes of an item. *)

\* Atoi gives the number or, outside the range of int, the nearest one; 0 for
\* what is no number.
LEMMA AtoiResult ==
    ASSUME NEW part \in DurationPart
    PROVE  \/ Atoi(part) = 0
           \/ Atoi(part) = part.value
           \/ part.value > MaxInt /\ Atoi(part) = MaxInt
           \/ part.value < -MaxInt - 1 /\ Atoi(part) = -MaxInt - 1
BY FeedItemsAssumption DEF DurationPart, Atoi

\* The layouts that parseDuration understands.
LEMMA ParseDurationResult ==
    ASSUME NEW d \in Seq(DurationPart)
    PROVE  \/ parseDuration(d) = 0
           \/ Len(d) = 1 /\ parseDuration(d) = Atoi(d[1])
           \/ /\ Len(d) = 2 /\ Minute(d[1]) /\ Sexagesimal(d[2])
              /\ parseDuration(d) = 60 * d[1].value + Rounded(d[2])
           \/ /\ Len(d) = 3 /\ Hour(d[1]) /\ Minute(d[2]) /\ Sexagesimal(d[3])
              /\ parseDuration(d) = 3600 * d[1].value + 60 * d[2].value + Rounded(d[3])
BY DEF parseDuration

\* A MIME type that was detected is one the download worker knows an extension
\* for: the two maps agree.
LEMMA DetectedTypeHasExtension ==
    ASSUME NEW enclosure, DetectMIMEType(enclosure) # "error"
    PROVE  /\ DetectMIMEType(enclosure) \in DOMAIN mimeToExt
           /\ MIMETypeExtension(DetectMIMEType(enclosure)) # "error"
<1>1. /\ DOMAIN mimeToExt = {"audioMpeg", "audioM4a", "videoMp4", "videoQuicktime"}
      /\ DOMAIN extToMIME = {"mp3", "m4a", "mp4", "mov"}
  BY DEF mimeToExt, extToMIME
<1> QED
  BY <1>1 DEF DetectMIMEType, MIMETypeExtension, mimeToExt, extToMIME

\* Every duration parseDuration returns is the one the feed states, or 0, or
\* the limit of int it lies beyond: for parts of any width and value.
LEMMA DurationIsExactOrUnknown ==
    ASSUME NEW d \in Seq(DurationPart)
    PROVE  ExactOrUnknown(parseDuration(d), d)
<1> SUFFICES ASSUME parseDuration(d) # 0
             PROVE  \/ Len(d) <= 3 /\ parseDuration(d) = Seconds(d)
                    \/ Len(d) = 1 /\ d[1].value \notin -MaxInt - 1 .. MaxInt
  BY DEF ExactOrUnknown
<1>1. CASE Len(d) = 1 /\ parseDuration(d) = Atoi(d[1])
  <2>1. d[1] \in DurationPart /\ Seconds(d) = d[1].value
    BY <1>1 DEF Seconds
  <2>2. d[1].value \in Int
    BY <2>1 DEF DurationPart
  <2> QED
    BY <1>1, <2>1, <2>2, AtoiResult, FeedItemsAssumption
<1>2. CASE Len(d) = 2 /\ parseDuration(d) = 60 * d[1].value + Rounded(d[2])
  BY <1>2 DEF Seconds
<1>3. CASE Len(d) = 3 /\ parseDuration(d) = 3600 * d[1].value + 60 * d[2].value + Rounded(d[3])
  BY <1>3 DEF Seconds
<1> QED
  BY <1>1, <1>2, <1>3, ParseDurationResult

\* Digits stand for a natural number, rounded or not.
LEMMA DigitsAreNatural ==
    ASSUME NEW part \in DurationPart, part.form = "digits"
    PROVE  part.value \in Nat /\ Rounded(part) \in Nat
BY DEF DurationPart, Rounded

\* Only a number with a sign gives a negative duration.
LEMMA NegativeDuration ==
    ASSUME NEW d \in Seq(DurationPart), ~(parseDuration(d) >= 0)
    PROVE  Len(d) = 1 /\ d[1].value < 0
<1>0. \A n \in 1 .. Len(d) : d[n] \in DurationPart
  OBVIOUS
<1>1. CASE Len(d) = 1 /\ parseDuration(d) = Atoi(d[1])
  <2>1. d[1] \in DurationPart
    BY <1>1
  <2>2. d[1].value \in Int
    BY <2>1 DEF DurationPart
  <2> QED
    BY <1>1, <2>1, <2>2, AtoiResult, FeedItemsAssumption
<1>2. CASE /\ Len(d) = 2 /\ Minute(d[1]) /\ Sexagesimal(d[2])
           /\ parseDuration(d) = 60 * d[1].value + Rounded(d[2])
  <2>1. d[1] \in DurationPart /\ d[2] \in DurationPart
    <3>1. Len(d) = 2
      BY <1>2
    <3> QED
      BY <1>0, <3>1
  <2>2. d[1].value \in Nat /\ d[2].value \in Nat /\ Rounded(d[2]) \in Nat
    BY <1>2, <2>1 DEF DurationPart, Minute, Sexagesimal, Rounded
  <2> QED
    BY <1>2, <2>2
<1>3. CASE /\ Len(d) = 3 /\ Hour(d[1]) /\ Minute(d[2]) /\ Sexagesimal(d[3])
           /\ parseDuration(d) = 3600 * d[1].value + 60 * d[2].value + Rounded(d[3])
  <2>1. d[1] \in DurationPart /\ d[2] \in DurationPart /\ d[3] \in DurationPart
    <3>1. Len(d) = 3
      BY <1>3
    <3> QED
      BY <1>0, <3>1
  <2>2. d[1].form = "digits" /\ d[2].form = "digits" /\ d[3].form = "digits"
    BY <1>3 DEF Hour, Minute, Sexagesimal
  <2>3. d[1].value \in Nat /\ d[2].value \in Nat /\ Rounded(d[3]) \in Nat
    BY <2>1, <2>2, DigitsAreNatural
  <2>4. parseDuration(d) >= 0
    <3>1. PICK h \in Nat, m \in Nat, s \in Nat :
            h = d[1].value /\ m = d[2].value /\ s = Rounded(d[3])
      BY <2>3
    <3>2. parseDuration(d) = 3600 * h + 60 * m + s
      BY <1>3, <3>1
    <3> QED
      BY <3>2
  <2> QED
    BY <2>4
<1> QED
  BY <1>1, <1>2, <1>3, ParseDurationResult

\* What BeforeSave refuses an episode for, field by field: the limits of truncate
\* are within its own, and no text is emptied.
LEMMA RefusedFields ==
    ASSUME NEW title \in Nat, NEW description \in Nat, NEW url \in Nat, url > 0,
           NEW http, NEW type, NEW secs,
           ~Saveable([Title |-> truncate(title, 500),
                      Description |-> truncate(description, 10000),
                      DownloadURL |-> url, http |-> http, MimeType |-> type,
                      DurationSecs |-> secs])
    PROVE  \/ title = 0
           \/ ~http \/ url > 1000
           \/ type \notin DOMAIN mimeToExt
           \/ ~(secs >= 0)
<1>1. title # 0 => truncate(title, 500) \in 1 .. 1000
  BY DEF truncate
<1>2. truncate(description, 10000) <= 10000
  BY DEF truncate
<1>3. ~(url > 1000) => url \in 1 .. 1000
  OBVIOUS
<1> QED
  BY <1>1, <1>2, <1>3 DEF Saveable

\* An item that episodesFromFeed keeps is refused by BeforeSave only for a cause
\* truncate and DetectMIMEType cannot mend.
LEMMA ItemBlocksForCause ==
    ASSUME NEW item \in FeedItem, Parsed(item),
           ~Saveable(EpisodeOf(item))
    PROVE  \/ item.title = 0
           \/ ~item.http \/ item.url > 1000
           \/ Len(item.duration) = 1 /\ item.duration[1].value < 0
<1>1. /\ item.title \in Nat /\ item.description \in Nat /\ item.url \in Nat
      /\ item.duration \in Seq(DurationPart)
  BY DEF FeedItem
<1>2. item.url > 0 /\ DetectMIMEType(item.enclosure) # "error"
  BY DEF Parsed
<1>3. \/ item.title = 0
      \/ ~item.http \/ item.url > 1000
      \/ DetectMIMEType(item.enclosure) \notin DOMAIN mimeToExt
      \/ ~(parseDuration(item.duration) >= 0)
  BY <1>1, <1>2, RefusedFields DEF EpisodeOf
<1>4. DetectMIMEType(item.enclosure) \in DOMAIN mimeToExt
  BY <1>2, DetectedTypeHasExtension
<1>5. ASSUME ~(parseDuration(item.duration) >= 0)
      PROVE  Len(item.duration) = 1 /\ item.duration[1].value < 0
  <2>1. item.duration \in Seq(DurationPart)
    BY <1>1
  <2> QED
    BY <1>5, <2>1, NegativeDuration
<1> QED
  BY <1>3, <1>4, <1>5

\* The episode at hand is what episodesFromFeed made of the item at hand, and was
\* saved if BeforeSave accepts it.
ParsingInv ==
    /\ stage \in {"next", "read", "skipped", "kept", "saved", "refused"}
    /\ stage # "next" => feedItem \in FeedItem
    /\ stage \in {"kept", "saved", "refused"} =>
         Parsed(feedItem) /\ episode = EpisodeOf(feedItem)
    /\ stage = "refused" => ~Saveable(episode)

\* ParsingInv is an invariant of FeedParsing.
LEMMA ParsingInvariance == ItemSpec => []ParsingInv
<1>1. ItemInit => ParsingInv
  BY DEF ItemInit, ParsingInv
<1>2. ParsingInv /\ [ItemNext]_(itemVars) => ParsingInv'
  <2> SUFFICES ASSUME ParsingInv, [ItemNext]_(itemVars) PROVE ParsingInv'
    OBVIOUS
  <2> USE DEF ParsingInv
  <2>1. ASSUME NEW i \in Inputs, ReadItem(i) PROVE ParsingInv'
    BY <2>1, InputsAssumption DEF ReadItem
  <2>2. CASE Skip \/ Keep
    BY <2>2 DEF Skip, Keep
  <2>3. CASE BeforeSave \/ Continue
    BY <2>3 DEF BeforeSave, Continue
  <2>4. CASE UNCHANGED itemVars
    BY <2>4 DEF itemVars
  <2> QED
    BY <2>1, <2>2, <2>3, <2>4 DEF ItemNext
<1> QED
  BY <1>1, <1>2, PTL DEF ItemSpec

\* Every episode has the duration its item states, or 0, or the limit of int it
\* lies beyond: for any items and durations of any parts.
THEOREM DurationsAreExactOrUnknown == ItemSpec => []DurationsAreExact
<1>1. ASSUME ParsingInv PROVE DurationsAreExact
  <2> SUFFICES ASSUME stage \in {"kept", "saved", "refused"}
               PROVE  ExactOrUnknown(episode.DurationSecs, feedItem.duration)
    BY DEF DurationsAreExact
  <2>1. feedItem.duration \in Seq(DurationPart)
    BY <1>1 DEF ParsingInv, FeedItem
  <2>2. episode.DurationSecs = parseDuration(feedItem.duration)
    BY <1>1 DEF ParsingInv, EpisodeOf
  <2> QED
    BY <2>1, <2>2, DurationIsExactOrUnknown
<1> QED
  BY <1>1, ParsingInvariance, PTL

\* BeforeSave stops a feed only at an item without a title or with a URL or a
\* duration that cannot be stored, and every file of a saved episode has a name:
\* for items with texts of any length.
THEOREM ItemsBlockOnlyForCause == ItemSpec => []ItemsBlockForCause
<1>1. ASSUME ParsingInv PROVE ItemsBlockForCause
  <2>1. ASSUME stage = "saved" PROVE MIMETypeExtension(episode.MimeType) # "error"
    <3>1. Parsed(feedItem) /\ episode.MimeType = DetectMIMEType(feedItem.enclosure)
      BY <1>1, <2>1 DEF ParsingInv, EpisodeOf
    <3> QED
      BY <3>1, DetectedTypeHasExtension DEF Parsed
  <2>2. ASSUME stage = "refused"
        PROVE  \/ feedItem.title = 0
               \/ ~feedItem.http \/ feedItem.url > 1000
               \/ Len(feedItem.duration) = 1 /\ feedItem.duration[1].value < 0
    <3>1. /\ feedItem \in FeedItem /\ Parsed(feedItem)
          /\ ~Saveable(EpisodeOf(feedItem))
      BY <1>1, <2>2 DEF ParsingInv
    <3> QED
      BY <3>1, ItemBlocksForCause
  <2> QED
    BY <2>1, <2>2 DEF ItemsBlockForCause
<1> QED
  BY <1>1, ParsingInvariance, PTL
=============================================================================
