---------------------------- MODULE MCFeedWorker ----------------------------
(***************************************************************************)
(* FeedWorker on two feeds, whose items are parsed and validated by the    *)
(* operators of FeedItems.  Podcast "p" has, oldest first, an item, one of *)
(* an unknown file type, one that repeats the GUID of the first, and one   *)
(* with a title to be truncated.  Podcast "q" has an item with a negative  *)
(* duration, which BeforeSave refuses, and, after it, one in good order.   *)
(***************************************************************************)
EXTENDS FeedWorker, FeedItems

MCItems == {"p1", "p2", "p3", "p4", "q1", "q2"}
MCPodcastOf == [i \in MCItems |-> IF i \in {"q1", "q2"} THEN "q" ELSE "p"]
MCRankOf == [i \in MCItems |->
    CASE i \in {"p1", "q1"} -> 1 [] i \in {"p2", "q2"} -> 2 [] i = "p3" -> 3 [] i = "p4" -> 4]
MCGuidOf == [i \in MCItems |-> IF i = "p3" THEN "p1" ELSE i]

Content == [i \in MCItems |->
    [title |-> IF i = "p4" THEN 1500 ELSE 20, description |-> 100, url |-> 60, http |-> TRUE,
     enclosure |-> IF i = "p2" THEN [type |-> "none", extension |-> "exe"]
                               ELSE [type |-> "audioMpeg", extension |-> "mp3"],
     duration |-> <<[form |-> "signed", width |-> 2, fraction |-> "none",
                     value |-> IF i = "q1" THEN -60 ELSE 60]>>]]
MCParseable == {i \in MCItems : Parsed(Content[i])}
MCValid == {i \in MCItems : Saveable(EpisodeOf(Content[i]))}
=============================================================================
