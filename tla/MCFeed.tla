------------------------------- MODULE MCFeed -------------------------------
(* The pipeline of one symbol in six settings, part says which; the         *)
(* constants of the run are those of "job2": the smallest time frame is two  *)
(* minutes, messages are handled one at a time, and fetches fail and         *)
(* connections drop.                                                         *)
EXTENDS Feed
VARIABLE part

\* The job's time frame is that of the messages.
OneMinute == INSTANCE Feed WITH Tfs <- {1, 2, 4}, FailAt <- {"watch", "feed"}
\* A larger time frame is added while the bot runs.
Added == INSTANCE Feed WITH Tfs <- {2}, Later <- {2, 4}, FailAt <- {"feed", "warm"}, Stop <- 9
\* The smallest time frame is dropped, or a smaller one is added: the job keeps its own.
Grown == INSTANCE Feed WITH Tfs <- {1, 2}, Later <- {2}, MaxFail <- 0, Stop <- 9
Shrunk == INSTANCE Feed WITH Tfs <- {2}, Later <- {1, 2}, MaxFail <- 0, Stop <- 9
\* Messages overtake each other, in the spider and in the bot.
Hasty == INSTANCE Feed WITH SaveWorkers <- 2, Handlers <- 2, Stop <- 9

AllInit ==
  \/ part = "job2" /\ Init
  \/ part = "job1" /\ OneMinute!Init
  \/ part = "added" /\ Added!Init
  \/ part = "grown" /\ Grown!Init
  \/ part = "shrunk" /\ Shrunk!Init
  \/ part = "hasty" /\ Hasty!Init
AllNext ==
  /\ part' = part
  /\ \/ part = "job2" /\ Next
     \/ part = "job1" /\ OneMinute!Next
     \/ part = "added" /\ Added!Next
     \/ part = "grown" /\ Grown!Next
     \/ part = "shrunk" /\ Shrunk!Next
     \/ part = "hasty" /\ Hasty!Next
AllWorks ==
  \/ part = "job2" /\ (Spider \/ Bot)
  \/ part = "job1" /\ (OneMinute!Spider \/ OneMinute!Bot)
  \/ part = "added" /\ (Added!Spider \/ Added!Bot)
  \/ part = "grown" /\ (Grown!Spider \/ Grown!Bot)
  \/ part = "shrunk" /\ (Shrunk!Spider \/ Shrunk!Bot)
  \/ part = "hasty" /\ (Hasty!Spider \/ Hasty!Bot)
AllSpec ==
  /\ AllInit /\ [][AllNext]_<<vars, part>>
  /\ WF_<<vars, part>>(Minute /\ part' = part)
  /\ []<>~Busy \/ []<><<AllWorks>>_<<vars, part>>

\* The type invariant of the setting.
AllTypeOK ==
  /\ part = "job2" => TypeOK
  /\ part = "job1" => OneMinute!TypeOK
  /\ part = "added" => Added!TypeOK
  /\ part = "grown" => Grown!TypeOK
  /\ part = "shrunk" => Shrunk!TypeOK
  /\ part = "hasty" => Hasty!TypeOK

\* With messages in order a bar an environment is given has all of its period, unless the
\* feeder is left with smaller bars than its own; a time frame a refresh adds keeps to that
\* unless a push gets to it before it is warmed (fillLacks, BuildOHLCV, warmTf).
CalmWhole ==
  /\ part = "job2" => AllWhole
  /\ part = "job1" => OneMinute!AllWhole
  /\ part = "added" => Whole(2) /\ (~refresh.early => Added!AllWhole)
  /\ part = "shrunk" => Shrunk!AllWhole

(* The stream of one time frame, in the settings that keep the promise: the   *)
(* smallest one loses the bars of a message the feeder gives up, and one a    *)
(* refresh adds those of a push that came before it was warmed.               *)
Kept(tf) ==
  IF tf = 2 THEN {"job2"}
  ELSE {"job2", "job1"} \cup {p \in {"added"} : part = p /\ ~refresh.early}
Given(tf) == IF part \in Kept(tf) /\ tf \in DOMAIN told THEN told[tf] ELSE <<>>
Ended(tf) == IF part \in Kept(tf) /\ tf \in DOMAIN stop THEN stop[tf] ELSE Align(Stop, tf)
Stream2 == INSTANCE BarStream WITH Tf <- 2, bars <- Given(2), end <- Ended(2)
Stream4 == INSTANCE BarStream WITH Tf <- 4, bars <- Given(4), end <- Ended(4)

(* With messages in order the environments of time frames above the messages' *)
(* get their bars as BarStream promises, over failing fetches and lost        *)
(* connections; one a refresh adds as long as it was warmed in time (fillLacks, *)
(* warmTf).                                                                   *)
TwoStreams == Stream2!Spec
FourStreams == Stream4!Spec
=============================================================================
