------------------------------ MODULE MCParts ------------------------------
(* Small instances of the parts.  A tick halves a confidence: a fact of 3  *)
(* lies below the floor and is stored as 4, one of 8 above it, and there   *)
(* is room for one hypothesis.  On the buses three names share the word    *)
(* weather: a capability of each of two is found under the third, and      *)
(* under each other's name, by overlap alone.                              *)
EXTENDS Parts, TLC

CONSTANTS a1, a2, r1, r2, gpu, j1, j2, j3, book, flight, today, help, dinner, ball, box, red,
          process_weather, weather_api, weather_report, weather, api, report, admin

InOrder == << a1, a2 >>

Descriptor(i, c, n) ==
    [id |-> i, caps |-> c, cpu |-> n, memory |-> 10, depth |-> 0, active |-> 0, online |-> TRUE]

SmallDescriptors ==
    {Descriptor(r1, {gpu}, 10), Descriptor(r2, {}, 10), Descriptor(r2, {gpu}, 5)}
SmallBeats ==
    {[cpu |-> 1, memory |-> 10, depth |-> 0], [cpu |-> 5, memory |-> 10, depth |-> 1]}
SmallDemands == j1 :> {gpu} @@ j2 :> {} @@ j3 :> {}

(* Words, and the capabilities that the goals require.                     *)
BookTravel     == book :> "travel"
FlightTravel   == flight :> "travel"
SmallRequired  == [travel |-> << >>, accomplishment |-> << "planning", "coding" >>]
SmallCommands  == {<< book, flight >>, << flight >>, << help, today, book >>,
                   << dinner, book, flight, help >>}

Sentence(s) == [shape |-> s, color |-> NoWord, entity |-> ball, state |-> red,
                location |-> box, container |-> box, count |-> 3, item |-> ball]
SmallSentences == {<< >>, << Sentence("copula") >>,
                   << Sentence("existence"), [Sentence("containment") EXCEPT !.color = red] >>,
                   << [Sentence("containment") EXCEPT !.count = -1] >>}

SmallSkills == [type : {"planning", "coding"}, proficiency : {40}, available : {TRUE}]
               \cup {[type |-> "planning", proficiency |-> 90, available |-> FALSE]}

(* Names, providers and agents of the buses.                               *)
WeatherWords == (process_weather :> {weather}
              @@ weather_api     :> {weather, api}
              @@ weather_report  :> {weather, report})

Provides(n, p, needs, answer) ==
    [name |-> n, proficiency |-> p, needs |-> needs, answer |-> answer]

WeatherProviders ==
    { Provides(weather_api, 50, {}, "produces"),
      Provides(weather_api, 50, {}, "raises"),
      Provides(weather_api, 90, {admin}, "reports failure"),
      Provides(weather_report, 90, {admin}, "produces"),
      Provides(process_weather, 10, {}, "no callable") }

WeatherAgents == { [name |-> weather_api, id |-> k] : k \in 1..2 }

NoneOrAdmin == { {}, {admin} }
=============================================================================
