---------------------------- MODULE FeedParsing ----------------------------
(***************************************************************************)
(* The way of an item from a feed into the table of episodes: the loop of  *)
(* episodesFromFeed skips it or makes an episode of it (FeedItems), which  *)
(* the feed worker then saves unless Episode.BeforeSave refuses it.        *)
(***************************************************************************)
EXTENDS FeedItems

CONSTANT Inputs     \* items that occur in feeds

ASSUME InputsAssumption == Inputs \subseteq FeedItem

VARIABLES
    stage,      \* "next", "read", "skipped", "kept", "saved" or "refused"
    feedItem,   \* the item at hand
    episode     \* the Episode made of it

itemVars == <<stage, feedItem, episode>>

Nothing == [none |-> TRUE]

ItemInit == stage = "next" /\ feedItem = Nothing /\ episode = Nothing

ReadItem(i) ==
    /\ stage = "next"
    /\ stage' = "read"
    /\ feedItem' = i
    /\ UNCHANGED episode

Skip ==
    /\ stage = "read"
    /\ ~Parsed(feedItem)
    /\ stage' = "skipped"
    /\ UNCHANGED <<feedItem, episode>>

Keep ==
    /\ stage = "read"
    /\ Parsed(feedItem)
    /\ stage' = "kept"
    /\ episode' = EpisodeOf(feedItem)
    /\ UNCHANGED feedItem

BeforeSave ==
    /\ stage = "kept"
    /\ stage' = IF Saveable(episode) THEN "saved" ELSE "refused"
    /\ UNCHANGED <<feedItem, episode>>

Continue ==
    /\ stage \in {"skipped", "saved", "refused"}
    /\ stage' = "next"
    /\ feedItem' = Nothing
    /\ episode' = Nothing

ItemNext == (\E i \in Inputs : ReadItem(i)) \/ Skip \/ Keep \/ BeforeSave \/ Continue

ItemSpec == ItemInit /\ [][ItemNext]_itemVars
-----------------------------------------------------------------------------
\* The number of seconds a duration stands for.
Seconds(d) ==
    CASE Len(d) = 1 -> d[1].value
      [] Len(d) = 2 -> 60 * d[1].value + Rounded(d[2])
      [] OTHER -> 3600 * d[1].value + 60 * d[2].value + Rounded(d[3])

\* A duration that is stored is the one the feed states; anything parseDuration
\* does not understand ("5:30" and "90:00" included) is stored as 0, and only a
\* number beyond the range of int is stored as another.
ExactOrUnknown(secs, d) ==
    \/ secs = 0
    \/ Len(d) <= 3 /\ secs = Seconds(d)
    \/ Len(d) = 1 /\ d[1].value \notin -MaxInt - 1 .. MaxInt

\* The duration of every episode made of an item is the one the item states, or
\* unknown (see ExactOrUnknown).
DurationsAreExact ==
    stage \in {"kept", "saved", "refused"} =>
        ExactOrUnknown(episode.DurationSecs, feedItem.duration)

\* An item blocks its feed only when it has no title, a download URL that is not
\* an http URL or is too long, or a negative duration: never because of a long
\* text, an unknown file type or a duration in an unexpected form.  And when it
\* gets a row, the download worker can name its file.
ItemsBlockForCause ==
    /\ stage = "refused" =>
        \/ feedItem.title = 0
        \/ ~feedItem.http \/ feedItem.url > 1000
        \/ Len(feedItem.duration) = 1 /\ feedItem.duration[1].value < 0
    /\ stage = "saved" => MIMETypeExtension(episode.MimeType) # "error"
=============================================================================
