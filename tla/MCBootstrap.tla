---------------------------- MODULE MCBootstrap ----------------------------
(***************************************************************************)
(* A small instance of Bootstrap: five enabled sources, one of which the   *)
(* broker refuses and which share queues in two pairs, a disabled one, and *)
(* environments that set a variable in both places, to nothing, or to what *)
(* is no number.                                                           *)
(***************************************************************************)
EXTENDS Bootstrap

MCTopics ==
  { <<"a", ".", "b">>, <<"a", "_", "b">>, <<"A", "-", "b">>, <<".">>, Default, <<"1">> }
MCEnabled == MCTopics \ {<<"1">>}
MCBadTopics == {<<"a", ".", "b">>}

MCPlain == {"a", "b", "d", "e", "f", "l", "t", "u", "1", "_"}
MCLower == "A" :> "a" @@ "B" :> "b"

MCNumber == "0" :> 0 @@ "5" :> 5 @@ "-1" :> -1 @@ "65537" :> 65537

MCDatabases == {"be_users_metadata_service", "classified8", "own"}

Streaming == "RABBITMQ_STREAM_ENABLED" :> "true" @@ "RABBITMQ_SUPER_STREAM_NAME" :> "events"

MCEnvironments ==
  { [os |-> <<>>, file |-> <<>>],
    [os |-> "RABBITMQ_HOST" :> "h1" @@ "RABBITMQ_PREFETCH" :> "5",
     file |-> Streaming @@ "RABBITMQ_HOST" :> "h2" @@ "RABBITMQ_PREFETCH" :> "0"],
    [os |-> "RABBITMQ_STREAM_ENABLED" :> "" @@ "RABBITMQ_PREFETCH" :> "many",
     file |-> Streaming @@ "RABBITMQ_PREFETCH" :> "5" @@ "DATABASE" :> "own"],
    [os |-> Streaming @@ "RABBITMQ_URL" :> "amqp://h3", file |-> "RABBITMQ_PREFETCH" :> "65537"],
    [os |-> "RABBITMQ_STREAM_ENABLED" :> "true" @@ "RABBITMQ_STREAM_HOST" :> "h4",
     file |-> "RABBITMQ_PREFETCH" :> "-1"],
    [os |-> "CLASSIFIED8_DATABASE" :> "nowhere", file |-> "CLASSIFIED8_DATABASE" :> "own"] }
=============================================================================
