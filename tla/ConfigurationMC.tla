--------------------------- MODULE ConfigurationMC -------------------------
EXTENDS Configuration, TLC

CONSTANTS r1, r2, r3

\* Values that are Absent but for those of v.
Given(v) == [s \in Setting |-> IF s \in DOMAIN v THEN v[s] ELSE Absent]

MCDefault == [publisher |-> 1, puller |-> 2, agent |-> 3, replier |-> 4,
              broadcast |-> 5, tick |-> 6, duration |-> 7]

\* Ports that are others' defaults, other sources' ports, 0 and too great ones.
MCLines ==
  {[value |-> Given(<<>>), help |-> TRUE]} \cup
  {[value |-> v, help |-> FALSE] : v \in
    {Given("publisher" :> a @@ "broadcast" :> b) :
       a \in {Absent, 2, 8}, b \in {Absent, 0, 9, 20}}
    \cup {Given("tick" :> 8 @@ "duration" :> 8 @@ "puller" :> 1)}}

MCRcFiles ==
  {Missing} \cup
  {[value |-> v, range |-> r] :
    v \in {Given("agent" :> a @@ "broadcast" :> b @@ "tick" :> t) :
             a \in {Absent, 1, 20}, b \in {Absent, 8, 20}, t \in {9, 20}},
    r \in {Absent, <<10, 0>>, <<10, 14>>, <<12, 11>>, <<0, 3>>}}

Flag(tags, colour) == [flag |-> TRUE, tags |-> tags, colour |-> colour]
Red == Flag({"A"}, NoColour)
Blue == Flag({}, 2)

Game(broadcast, robots, items) ==
  [value |-> Given("broadcast" :> broadcast @@ "duration" :> 9 @@ "agent" :> 9),
   malformed |-> FALSE, robots |-> robots, items |-> items]

MCGameFiles ==
  {Missing, [Game(9, <<>>, <<>>) EXCEPT !.malformed = TRUE],
   Game(16, <<>>, <<>>),
   Game(17, <<r1>>, <<Blue>>),
   Game(9, <<r1, r2>>, <<Red, Blue, Flag({"A", "B"}, NoColour)>>),
   Game(10, <<r1, r1>>, <<Blue, Blue>>),
   Game(Absent, <<r2>>, <<Flag({"A"}, 2)>>),
   Game(Absent, <<r2>>, <<[Red EXCEPT !.flag = FALSE]>>),
   Game(Absent, <<>>, <<Flag({}, NoColour)>>)}

=============================================================================
