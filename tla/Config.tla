------------------------------- MODULE Config -------------------------------
(***************************************************************************)
(* Configuration (internal/config, config.go): what Load makes of the      *)
(* environment of the process and the file .env.                           *)
(*                                                                         *)
(* An environment is a function from the variables it sets to their text,  *)
(* which may be empty.  The parameters whose value no other part of the    *)
(* model depends on (pool sizes, lifetimes, log level, and those nothing   *)
(* reads: SHUTDOWN_TIMEOUT, WORKERS, BATCH_SIZE) are left out.             *)
(***************************************************************************)
EXTENDS Integers, TLC

CONSTANT Number   \* Number[text]: the integer that strconv.Atoi reads in a text

ASSUME NumberTyped == \A text \in DOMAIN Number : Number[text] \in Int

\* Mutation of LoadEnvFile: godotenv.Overload.
LoadEnvFileOver(os, file) == file @@ os

\* godotenv.Load sets what the environment has not set, to the empty text or
\* another.  A file that is missing or malformed sets nothing.
LoadEnvFile(os, file) ==
  [key \in (DOMAIN os) \cup (DOMAIN file) |->
     IF key \in DOMAIN os THEN os[key] ELSE file[key]]

GetEnv(env, key, default) ==
  IF key \in DOMAIN env /\ env[key] # "" THEN env[key] ELSE default

GetEnvInt(env, key, default) ==
  LET text == GetEnv(env, key, "") IN IF text \in DOMAIN Number THEN Number[text] ELSE default

\* The broker of the AMQP consumer: given whole, or in parts.
BuildRabbitMQURL(env) ==
  IF GetEnv(env, "RABBITMQ_URL", "") # ""
  THEN [url |-> env["RABBITMQ_URL"]]
  ELSE [user |-> GetEnv(env, "RABBITMQ_USER", "guest"),
        host |-> GetEnv(env, "RABBITMQ_HOST", "localhost")]

\* Both databases are on one server with one account.
Load(os, file) ==
  LET env == LoadEnvFile(os, file) IN
  [database   |-> GetEnv(env, "DATABASE", "be_users_metadata_service"),
   usersDB    |-> GetEnv(env, "CLASSIFIED8_DATABASE", "classified8"),
   amqp       |-> BuildRabbitMQURL(env),
   prefetch   |-> GetEnvInt(env, "RABBITMQ_PREFETCH", 10),
   streamEnabled   |-> GetEnv(env, "RABBITMQ_STREAM_ENABLED", "false") = "true",
   superStreamName |-> GetEnv(env, "RABBITMQ_SUPER_STREAM_NAME", ""),
   stream |-> [user |-> GetEnv(env, "RABBITMQ_USER", "guest"),
               host |-> GetEnv(env, "RABBITMQ_STREAM_HOST",
                               GetEnv(env, "RABBITMQ_HOST", "localhost"))]]
=============================================================================
