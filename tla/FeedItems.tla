----------------------------- MODULE FeedItems -----------------------------
(***************************************************************************)
(* pkg/podcasts: what episodesFromFeed makes of an item of a feed, and     *)
(* what Episode.BeforeSave makes of the result.  An item that is left out  *)
(* here is skipped; one that is kept and then refused by BeforeSave stops  *)
(* the feed worker at that place of the feed, at every check (FeedWorker). *)
(*                                                                         *)
(* Texts are their lengths.  A duration is the sequence of its parts       *)
(* between colons: a part has a form ("digits", "signed" or "text"), a     *)
(* number of digits, a value, and whether a fraction follows that rounds   *)
(* up ("none", "down", "up").                                              *)
(***************************************************************************)
EXTENDS Integers, Sequences

CONSTANTS
    MaxInt      \* largest int

ASSUME FeedItemsAssumption == MaxInt \in Nat

\* A part of a duration: digits without a sign are not negative.
DurationPart ==
    {part \in [form : {"digits", "signed", "text"}, width : Nat, value : Int,
               fraction : {"none", "down", "up"}] : part.form = "digits" => part.value >= 0}

\* An item of a feed.
FeedItem ==
    [title : Nat, description : Nat, url : Nat, http : BOOLEAN,
     enclosure : [type : STRING, extension : STRING], duration : Seq(DurationPart)]

\* The maps mimeToExt and extToMIME.
mimeToExt ==
    [audioMpeg |-> "mp3", audioM4a |-> "m4a", videoMp4 |-> "mp4", videoQuicktime |-> "mov"]
extToMIME ==
    [mp3 |-> "audioMpeg", m4a |-> "audioM4a", mp4 |-> "videoMp4", mov |-> "videoQuicktime"]

\* DetectMIMEType: the enclosure's type, or what the URL ends in after its last
\* dot; "error" otherwise.
DetectMIMEType(enclosure) ==
    CASE enclosure.type \in DOMAIN mimeToExt -> enclosure.type
      [] enclosure.extension \in DOMAIN extToMIME -> extToMIME[enclosure.extension]
      [] OTHER -> "error"

\* MIMETypeExtension, by which the download worker names the file.
MIMETypeExtension(type) == IF type \in DOMAIN mimeToExt THEN mimeToExt[type] ELSE "error"

\* Mutant of truncate: the text is kept.
truncateNot(length, l) == length

\* truncate(s, l), on lengths
truncate(length, l) == IF length > l THEN l ELSE length

-----------------------------------------------------------------------------
(* parseDuration *)

\* strconv.Atoi with its error ignored: 0 for what is no number, the nearest
\* int for a number that is too large.
Atoi(part) ==
    CASE part.form = "text" \/ part.fraction # "none" -> 0
      [] part.value > MaxInt -> MaxInt
      [] part.value < -MaxInt - 1 -> -MaxInt - 1
      [] OTHER -> part.value

\* What time.Parse accepts for "15" (one digit or two) and for "04" and "05"
\* (two digits); only after seconds may a fraction follow.
Hour(part) == part.form = "digits" /\ part.width <= 2 /\ part.value < 24 /\ part.fraction = "none"
Sexagesimal(part) == part.form = "digits" /\ part.width = 2 /\ part.value < 60
Minute(part) == Sexagesimal(part) /\ part.fraction = "none"

Rounded(part) == part.value + (IF part.fraction = "up" THEN 1 ELSE 0)

\* Mutant of parseDuration: two parts are hours and minutes.
parseDurationAsClock(d) ==
    CASE Len(d) = 1 -> Atoi(d[1])
      [] Len(d) = 2 /\ Hour(d[1]) /\ Minute(d[2]) -> 3600 * d[1].value + 60 * d[2].value
      [] OTHER -> 0

\* The layouts "04:05" for one colon and "15:04:05" for two; 0 on any error.
parseDuration(d) ==
    CASE Len(d) = 1 -> Atoi(d[1])
      [] Len(d) = 2 /\ Minute(d[1]) /\ Sexagesimal(d[2]) ->
           60 * d[1].value + Rounded(d[2])
      [] Len(d) = 3 /\ Hour(d[1]) /\ Minute(d[2]) /\ Sexagesimal(d[3]) ->
           3600 * d[1].value + 60 * d[2].value + Rounded(d[3])
      [] OTHER -> 0

-----------------------------------------------------------------------------
\* episodesFromFeed skips an item without a download URL or a MIME type ...
Parsed(item) == item.url > 0 /\ DetectMIMEType(item.enclosure) # "error"

\* ... and makes an episode of any other.
EpisodeOf(item) ==
    [Title |-> truncate(item.title, 500),
     Description |-> truncate(item.description, 10000),
     DownloadURL |-> item.url,
     http |-> item.http,
     MimeType |-> DetectMIMEType(item.enclosure),
     DurationSecs |-> parseDuration(item.duration)]

\* The validation of Episode.BeforeSave (GUID and PodcastGUID are UUIDs, the
\* status is set by the worker).
Saveable(episode) ==
    /\ episode.Title \in 1 .. 1000
    /\ episode.Description <= 10000
    /\ episode.http /\ episode.DownloadURL \in 1 .. 1000
    /\ episode.MimeType \in DOMAIN mimeToExt
    /\ episode.DurationSecs >= 0
=============================================================================
