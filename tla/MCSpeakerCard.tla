---------------------------- MODULE MCSpeakerCard ---------------------------
(* Four modules in three containers and two sub graphs of one graph, and a *)
(* switch from each of two sources.  The files: sound; with a stage        *)
(* missing, or twice, or laid out otherwise; with an instance id used      *)
(* twice.                                                                  *)
EXTENDS SpeakerCard, TLC

Sound ==
  [sub |-> ("a" :> 1 @@ "b" :> 1 @@ "c" :> 1 @@ "d" :> 2),
   graph |-> (1 :> "g" @@ 2 :> "g"),
   cont |-> ("a" :> 1 @@ "b" :> 1 @@ "c" :> 2 @@ "d" :> 3),
   id |-> ("a" :> 11 @@ "b" :> 12 @@ "c" :> 13 @@ "d" :> 14),
   class |-> ("a" :> "buffer" @@ "b" :> "codec" @@ "c" :> "pga" @@ "d" :> "buffer"),
   stages |-> ("a" :> {} @@ "b" :> {"sp"} @@ "c" :> {} @@ "d" :> {"spvi"}),
   mix |-> ("m" :> [graph |-> "g", sink |-> "d", sources |-> {"a", "b"}]),
   expected |-> TRUE]

MCFiles ==
  {Sound, [Sound EXCEPT !.stages["d"] = {}], [Sound EXCEPT !.stages["d"] = {"sp", "spvi"}],
   [Sound EXCEPT !.expected = FALSE], [Sound EXCEPT !.id["d"] = 11]}
=============================================================================
