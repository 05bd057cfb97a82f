------------------------------ MODULE MCInputs ------------------------------
(***************************************************************************)
(* What comes in from outside: requests of every kind on routes with every *)
(* list of up to MaxConfigs configurations, and items of feeds around each *)
(* limit of the code.  Requests and items share nothing, so a behaviour is *)
(* about one or the other.                                                 *)
(***************************************************************************)
EXTENDS Routes, FeedParsing

\* Parts of a duration: numbers around the limits of time.Parse, a sign, a
\* number beyond MaxInt, no number, and seconds with a fraction.
Digits(w, v) == [form |-> "digits", width |-> w, value |-> v, fraction |-> "none"]
Signed(v) == [form |-> "signed", width |-> 1, value |-> v, fraction |-> "none"]
DurationParts ==
    {Digits(1, 0), Digits(1, 5), Digits(3, 100), Digits(20, MaxInt + 1), Signed(-5), Signed(5)}
    \cup {Digits(2, v) : v \in {0, 5, 23, 24, 59, 60}}
    \cup {[form |-> "text", width |-> 0, value |-> 0, fraction |-> "none"]}
    \cup {[form |-> "digits", width |-> 2, value |-> 30, fraction |-> f] : f \in {"down", "up"}}

Durations == UNION {[1 .. n -> DurationParts] : n \in 1 .. 3} \cup [1 .. 4 -> {Digits(2, 5)}]

\* Items with lengths around the limits of truncate and of the validation, and
\* an item in good order with every duration.
MCItems ==
    [title : {0, 1, 500, 501, 1001}, description : {0, 10001},
     url : {0, 1000, 1001}, http : BOOLEAN,
     enclosure : [type : {"audioMpeg", "videoQuicktime", "none"}, extension : {"mp3", "exe"}],
     duration : {<<Digits(1, 5)>>, <<Digits(20, MaxInt + 1)>>, <<Signed(-5)>>,
                 <<Digits(2, 5), Digits(2, 59)>>}]
    \cup [title : {1}, description : {0}, url : {1}, http : {TRUE},
          enclosure : [type : {"audioMpeg"}, extension : {"mp3"}], duration : Durations]
-----------------------------------------------------------------------------
VARIABLE source     \* what the behaviour is about

Init ==
    /\ source \in {"requests", "feeds"}
    /\ RequestInit
    /\ ItemInit
    /\ source = "feeds" =>
        /\ route[1] = "asset"
        /\ request = [session |-> Nobody, basic |-> Nobody, htmx |-> FALSE]

Next ==
    /\ UNCHANGED source
    /\ \/ source = "requests" /\ RequestNext /\ UNCHANGED itemVars
       \/ source = "feeds" /\ ItemNext /\ UNCHANGED requestVars

Spec == Init /\ [][Next]_<<source, requestVars, itemVars>>
=============================================================================
