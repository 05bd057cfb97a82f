----------------------------- MODULE FeedWorker -----------------------------
(***************************************************************************)
(* pkg/feedworker: the handler of the feed queue goes through the          *)
(* subscribed podcasts, fetches each feed that was not checked recently    *)
(* (ParseFeed of pkg/podcasts), and creates the episodes that are new.     *)
(* Podcasts are added by NewAddPodcastHandler while it runs.               *)
(*                                                                         *)
(* A run of the handler starts when a feed task is popped; the scheduler   *)
(* pushes one every minute, so the worker is taken to start a run whenever *)
(* it is idle.  The pair (episode row, download task) that the transaction *)
(* of processPodcast writes is one entry of owner here; module Download    *)
(* continues from it.                                                      *)
(*                                                                         *)
(* GUIDs of episodes are the primary key of one table for all podcasts,    *)
(* and they are derived from what the feed says (episodeGUID), so two      *)
(* items, of one feed or of two, may have the same one.  The GUID of a     *)
(* podcast, too, is derived from the feed (feedGUID): it is stored when    *)
(* the podcast is added, and computed again for the episodes of each       *)
(* later fetch.                                                            *)
(***************************************************************************)
EXTENDS Naturals

CONSTANTS
    Podcasts,           \* podcasts that may be added
    Reliable,           \* those whose feed does not fail for ever
    Stable,             \* those whose feed keeps what feedGUID is derived from
    Items,              \* items of the feeds
    PodcastOf,          \* the podcast an item belongs to
    GuidOf,             \* episodeGUID of the item
    RankOf,             \* order of publication (PubDate) within a feed
    Parseable,          \* items with an enclosure URL and a known MIME type
    Valid,              \* items that pass Episode.BeforeSave
    None,
    Unsubscribed,       \* a podcast GUID that no row of the podcasts table has
    MinCheckInterval,   \* minCheckInterval
    MaxRestarts         \* bound on the restarts of the process

Guids == {GuidOf[i] : i \in Items}

\* LastCheckedAt is nil
Never == MinCheckInterval + 1

ASSUME FeedWorkerAssumption ==
    /\ Reliable \subseteq Podcasts
    /\ Stable \subseteq Podcasts
    /\ PodcastOf \in [Items -> Podcasts]
    /\ RankOf \in [Items -> Nat]
    /\ Parseable \subseteq Items
    /\ Valid \subseteq Items
    /\ None \notin Podcasts \cup {Unsubscribed}
    /\ Unsubscribed \notin Podcasts
    /\ MinCheckInterval \in Nat
    /\ MaxRestarts \in Nat

VARIABLES
    published,      \* external: the items the feeds hold now
    feedGUID,       \* external: feedGUID of the podcast's feed as it is now
    subscribed,     \* podcasts with a row in the podcasts table
    sinceChecked,   \* time since LastCheckedAt, at most MinCheckInterval, or Never
    owner,          \* PodcastGUID of the episode row with this GUID, or None
    todo,           \* podcasts of the list the run still has to go through
    current,        \* the podcast in processPodcast, or None
    podcastGUID,    \* the PodcastGUID its fetched episodes carry, or None
    remaining,      \* its fetched episodes that are still to be looked at
    existing,       \* the GUIDs ListEpisodes returned for it
    running,        \* whether a run of the handler is in progress
    restarts,
    fetched,        \* history: the episodes of the fetch in progress
    seen            \* history: the episodes of the last recorded check

tables == <<subscribed, sinceChecked, owner>>
feeds == <<published, feedGUID>>
worker == <<todo, current, podcastGUID, remaining, existing, running, fetched>>
vars == <<feeds, tables, worker, restarts, seen>>

TypeOK ==
    /\ published \subseteq Items
    /\ subscribed \subseteq Podcasts
    /\ sinceChecked \in [Podcasts -> 0 .. Never]
    /\ feedGUID \in [Podcasts -> Podcasts \cup {Unsubscribed}]
    /\ owner \in [Guids -> Podcasts \cup {None, Unsubscribed}]
    /\ todo \subseteq subscribed
    /\ current \in Podcasts \cup {None}
    /\ podcastGUID \in Podcasts \cup {None, Unsubscribed}
    /\ remaining \subseteq fetched
    /\ existing \subseteq Guids
    /\ running \in BOOLEAN
    /\ restarts \in 0 .. MaxRestarts
    /\ fetched \subseteq Parseable
    /\ seen \in [Podcasts -> SUBSET Parseable]

Init ==
    /\ published = {}
    /\ feedGUID = [p \in Podcasts |-> p]
    /\ subscribed = {}
    /\ sinceChecked = [p \in Podcasts |-> Never]
    /\ owner = [g \in Guids |-> None]
    /\ todo = {}
    /\ current = None
    /\ podcastGUID = None
    /\ remaining = {}
    /\ existing = {}
    /\ running = FALSE
    /\ restarts = 0
    /\ fetched = {}
    /\ seen = [p \in Podcasts |-> {}]

-----------------------------------------------------------------------------
\* External: a publisher adds an item, later than those its feed has.
Publish(i) ==
    /\ i \notin published
    /\ \A j \in Items : PodcastOf[j] = PodcastOf[i] /\ RankOf[j] < RankOf[i] => j \in published
    /\ published' = published \cup {i}
    /\ UNCHANGED <<feedGUID, tables, worker, restarts, seen>>

\* External: a publisher changes, or adds for the first time, the podcast:guid
\* or (without one) the link or the title of a feed.
ChangeFeedGUID(p) ==
    /\ p \in subscribed \ Stable
    /\ feedGUID' = [feedGUID EXCEPT ![p] = Unsubscribed]
    /\ UNCHANGED <<published, tables, worker, restarts, seen>>

\* NewAddPodcastHandler: AddPodcast inserts the row with LastCheckedAt nil.
\* What it does then (image, feed task) may fail and is not needed for this.
AddPodcast(p) ==
    /\ p \notin subscribed
    /\ subscribed' = subscribed \cup {p}
    /\ UNCHANGED <<feeds, sinceChecked, owner, worker, restarts, seen>>

-----------------------------------------------------------------------------
(* One run of the handler. *)

\* ListPodcasts
StartRun ==
    /\ ~running
    /\ running' = TRUE
    /\ todo' = subscribed
    /\ UNCHANGED <<feeds, tables, current, podcastGUID, remaining, existing, fetched, restarts, seen>>

\* Mutant of CheckedRecently: minCheckInterval is not added.
CheckedEver(p) == sinceChecked[p] # Never

\* LastCheckedAt != nil && LastCheckedAt + minCheckInterval is after now
CheckedRecently(p) == sinceChecked[p] < MinCheckInterval

SkipPodcast(p) ==
    /\ current = None
    /\ p \in todo
    /\ CheckedRecently(p)
    /\ todo' = todo \ {p}
    /\ UNCHANGED <<feeds, tables, current, podcastGUID, remaining, existing, running, fetched,
                   restarts, seen>>

\* Mutant of ParseFeed: items without enclosure or MIME type are kept.
ParseFeedKeepsAll(p) == {i \in published : PodcastOf[i] = p}

\* episodesFromFeed: items it cannot parse are left out, with a ParseErrors.
ParseFeed(p) == {i \in published : PodcastOf[i] = p} \cap Parseable

\* ListEpisodes
ListEpisodes(p) == {g \in Guids : owner[g] = p}

\* processPodcast up to its loop: credentials, feed and existing episodes.
FetchPodcast(p) ==
    /\ current = None
    /\ p \in todo
    /\ ~CheckedRecently(p)
    /\ current' = p
    /\ todo' = todo \ {p}
    /\ fetched' = ParseFeed(p)
    /\ podcastGUID' = feedGUID[p]
    /\ remaining' = fetched'
    /\ existing' = ListEpisodes(p)
    /\ UNCHANGED <<feeds, tables, running, restarts, seen>>

\* GetCredentials, ParseFeed or ListEpisodes fails: on to the next podcast.
FetchFails(p) ==
    /\ current = None
    /\ p \in todo
    /\ ~CheckedRecently(p)
    /\ todo' = todo \ {p}
    /\ UNCHANGED <<feeds, tables, current, podcastGUID, remaining, existing, running, fetched,
                   restarts, seen>>

\* Mutant of IsNext: newest first.
IsNextNewest(i) == i \in remaining /\ \A j \in remaining : RankOf[j] <= RankOf[i]

\* Episodes are sorted by PublishedAt, oldest first.
IsNext(i) == i \in remaining /\ \A j \in remaining : RankOf[i] <= RankOf[j]

SkipExisting(i) ==
    /\ current # None
    /\ IsNext(i)
    /\ GuidOf[i] \in existing
    /\ remaining' = remaining \ {i}
    /\ UNCHANGED <<feeds, tables, todo, current, podcastGUID, existing, running, fetched, restarts, seen>>

\* BeforeSave accepts the episode and its GUID is not in the table yet.
Creatable(i) == i \in Valid /\ owner[GuidOf[i]] = None

\* The transaction: Create, with the PodcastGUID the feed gave, and PushQueueTask.
CreateEpisode(i) ==
    /\ current # None
    /\ IsNext(i)
    /\ GuidOf[i] \notin existing
    /\ Creatable(i)
    /\ owner' = [owner EXCEPT ![GuidOf[i]] = podcastGUID]
    /\ remaining' = remaining \ {i}
    /\ UNCHANGED <<feeds, subscribed, sinceChecked, todo, current, podcastGUID, existing, running,
                   fetched, restarts, seen>>

\* processPodcast returns: the handler goes on with the next podcast.
Leave ==
    /\ current' = None
    /\ podcastGUID' = None
    /\ remaining' = {}
    /\ existing' = {}
    /\ fetched' = {}
    /\ UNCHANGED <<todo, running>>

\* Mutant of CreateFails: the loop goes on with the next episode.
CreateFailureSkipsItem(i) ==
    /\ current # None
    /\ IsNext(i)
    /\ GuidOf[i] \notin existing
    /\ remaining' = remaining \ {i}
    /\ UNCHANGED <<feeds, tables, todo, current, podcastGUID, existing, running, fetched, restarts, seen>>

\* The transaction fails, because it must (~Creatable) or because the database
\* does: processPodcast returns at once, with what is left of the feed undone.
CreateFails(i) ==
    /\ current # None
    /\ IsNext(i)
    /\ GuidOf[i] \notin existing
    /\ Leave
    /\ UNCHANGED <<feeds, tables, restarts, seen>>

\* UpdatePodcastTimes after the loop.
UpdatePodcastTimes ==
    /\ current # None
    /\ remaining = {}
    /\ sinceChecked' = [sinceChecked EXCEPT ![current] = 0]
    /\ seen' = [seen EXCEPT ![current] = fetched]
    /\ Leave
    /\ UNCHANGED <<feeds, subscribed, owner, restarts>>

UpdateTimesFails ==
    /\ current # None
    /\ remaining = {}
    /\ Leave
    /\ UNCHANGED <<feeds, tables, restarts, seen>>

\* The handler returns, with or without errors; a later run follows either way.
EndRun ==
    /\ running
    /\ current = None
    /\ todo = {}
    /\ running' = FALSE
    /\ UNCHANGED <<feeds, tables, todo, current, podcastGUID, remaining, existing, fetched, restarts, seen>>

-----------------------------------------------------------------------------
Restart ==
    /\ restarts < MaxRestarts
    /\ restarts' = restarts + 1
    /\ todo' = {}
    /\ current' = None
    /\ podcastGUID' = None
    /\ remaining' = {}
    /\ existing' = {}
    /\ fetched' = {}
    /\ running' = FALSE
    /\ UNCHANGED <<feeds, tables, seen>>

\* One unit of time passes.
Tick ==
    /\ sinceChecked' = [p \in Podcasts |->
           sinceChecked[p] + (IF sinceChecked[p] < MinCheckInterval THEN 1 ELSE 0)]
    /\ UNCHANGED <<feeds, subscribed, owner, worker, restarts, seen>>

ProcessPodcast ==
    \/ \E p \in Podcasts : SkipPodcast(p) \/ FetchPodcast(p) \/ FetchFails(p)
    \/ \E i \in Items : SkipExisting(i) \/ CreateEpisode(i) \/ CreateFails(i)
    \/ UpdatePodcastTimes
    \/ UpdateTimesFails

Next ==
    \/ \E i \in Items : Publish(i)
    \/ \E p \in Podcasts : AddPodcast(p) \/ ChangeFeedGUID(p)
    \/ StartRun
    \/ ProcessPodcast
    \/ EndRun
    \/ Restart
    \/ Tick

Spec == Init /\ [][Next]_vars

\* Runs are started again and again (the scheduler and the queue see to that)
\* and go on once started; a reliable feed is not unreachable for ever, and the
\* database does not refuse the same transaction for ever.
Fairness ==
    /\ WF_vars(StartRun)
    /\ WF_vars(ProcessPodcast)
    /\ WF_vars(EndRun)
    /\ WF_vars(Tick)
    /\ \A p \in Reliable : SF_vars(FetchPodcast(p))
    /\ \A i \in Items : SF_vars(CreateEpisode(i))

FairSpec == Spec /\ Fairness
-----------------------------------------------------------------------------
\* A podcast with a stable GUID is recorded as checked only when every episode
\* that could be read from its feed has a row under it: an episode is never
\* passed over, neither by a crash in the middle of a feed nor by a GUID another item has taken.
CheckedMeansComplete ==
    \A p \in Stable : \A i \in seen[p] : owner[GuidOf[i]] = p

\* A run that is cut short leaves the oldest part of a feed, without gaps
\* (in a feed in which no GUID occurs twice).
NoGaps ==
    \A i, j \in published \cap Parseable :
        /\ PodcastOf[i] = PodcastOf[j]
        /\ RankOf[i] < RankOf[j]
        /\ \A k \in Items : GuidOf[k] = GuidOf[j] => k = j
        /\ owner[GuidOf[j]] = PodcastOf[j]
        => owner[GuidOf[i]] = PodcastOf[i]

\* Nothing in the feed, up to and including this item, makes Create fail for
\* good.
Unobstructed(i) ==
    \A j \in Parseable : PodcastOf[j] = PodcastOf[i] /\ RankOf[j] <= RankOf[i] =>
        /\ j \in Valid
        /\ \A k \in Items : GuidOf[k] = GuidOf[j] => PodcastOf[k] = PodcastOf[j]

\* The publisher keeps the feed reachable and its GUID.
Kept(p) == p \in Reliable \cap Stable

Due(i) == i \in published \cap Parseable /\ PodcastOf[i] \in subscribed

Archived(i) == owner[GuidOf[i]] = PodcastOf[i]

\* Every readable item of a feed that is kept becomes an episode, if no item before
\* it is refused: whatever other podcasts do, after crashes and failed writes,
\* with unreadable items and repeated GUIDs in the same feed.
UnobstructedItemsArrive ==
    \A i \in Items : Kept(PodcastOf[i]) /\ Unobstructed(i) => (Due(i) ~> Archived(i))
=============================================================================
