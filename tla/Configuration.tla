---------------------------- MODULE Configuration ----------------------------
(***************************************************************************)
(* The configuration: what the onboarding wizard writes (app/onboard.go),  *)
(* how a start loads it over the defaults and under the environment, and   *)
(* writes one of its own where there is none (config/config.go), which     *)
(* providers the router then builds (provider/router.go, factory.go), and  *)
(* how a watched file is loaded again (config/loader.go).  Of the settings *)
(* those are kept that decide whether the program starts and which models  *)
(* it has; a bad one is FALSE.  WONDERPUS_ENV, another file for when there *)
(* is none, is left out.                                                   *)
(***************************************************************************)
EXTENDS Integers, FiniteSets

CONSTANTS
  UserFiles,     \* the settings a user may write into the file, in part
  Environments,  \* what may be set in the environment
  MaxEdits       \* bounds how often the file and the environment change

VARIABLES
  file,      \* the settings in the file; Absent without one
  env,       \* the environment
  origin,    \* who wrote the file
  program,   \* the program, and
  config,    \* the settings it started with
  watch,     \* the watcher: off, idle, or with an event it has not seen; or blind
  latest,    \* the settings it has delivered last
  edits,     \* how often something was changed
  rewriting  \* the settings a writer that has truncated the file is about to write

fvars == <<file, env, origin, program, config, watch, latest, edits, rewriting>>

Absent == [absent |-> TRUE]
Legacy == <<"openai", "anthropic", "ollama", "gemini", "groq", "zhipu", "vllm">>
Ranks == DOMAIN Legacy

\* An environment has keys of providers, and some settings of its own.
InEnv == {"openai", "anthropic", "gemini"}
NoEnv == [keys |-> {}, set |-> [f \in {} |-> FALSE]]

\* applyDefaults.
Defaults == [keys |-> {}, host |-> TRUE, list |-> {}, version |-> 0, level |-> TRUE,
             port |-> TRUE, interval |-> TRUE, cipher |-> TRUE]

Overlay(cfg, part) == [f \in DOMAIN cfg |-> IF f \in DOMAIN part THEN part[f] ELSE cfg[f]]

\* Ollama's host, the level of the log and the key of the cipher are set as they are.
applyEnv(cfg, e) == [Overlay(cfg, e.set) EXCEPT !.keys = @ \cup e.keys]

\* An OpenAI key makes a file without a version one with a model list of its own.
migrate(cfg) ==
  IF cfg.version = 0 /\ "openai" \in cfg.keys /\ cfg.list = {}
  THEN [cfg EXCEPT !.list = {"openai"}, !.version = 3] ELSE cfg

validate(cfg) ==
  /\ cfg.keys \cap {"openai", "anthropic", "gemini"} # {} \/ cfg.host \/ cfg.list # {}
  /\ "nameless" \notin cfg.list /\ cfg.level /\ cfg.port /\ cfg.interval

\* What a start finds in a file: settings, or none.
NoConfig == [keys |-> {}, host |-> FALSE, list |-> {}, version |-> 0, level |-> FALSE,
             port |-> FALSE, interval |-> FALSE, cipher |-> FALSE]
Settled(cfg) == IF validate(cfg) THEN cfg ELSE NoConfig

FromFile(part, e) ==
  LET cfg == applyEnv(Overlay(Defaults, part), e)
  IN  IF cfg.cipher THEN Settled(migrate(cfg)) ELSE NoConfig

\* tryGenerateConfig writes a file only for keys or a host it finds in the environment:
\* the defaults under it, bad settings and all.
Asks(e) == e.keys # {} \/ "host" \in DOMAIN e.set
Generated(e) == applyEnv(Defaults, e)

\* Load: a file that cannot be written is done without, its cipher's key not looked at,
\* and not migrated.
Loads(part, e, writable) ==
  IF part # Absent THEN FromFile(part, e)
  ELSE IF Asks(e) /\ writable THEN FromFile(Generated(e), e)
  ELSE Settled(applyEnv(Defaults, e))

\* The named model of each provider; those without a default name share none.
ModelName(p) == IF p \in {"openai", "anthropic", "ollama", "gemini"} THEN p ELSE ""

\* ConvertLegacyToModelList, in its order.
ConvertLegacyToModelList(cfg) ==
  {i \in Ranks : Legacy[i] \in cfg.keys \/ (Legacy[i] = "ollama" /\ cfg.host)}

\* NewFromModelEntry wants a key of all but Ollama, and vLLM is set up without one.
Buildable(p) == p \notin {"vllm", "keyless"}

\* NewRouter: the model list, or the providers; of equal names the first it can build.
Providers(cfg) ==
  IF cfg.list # {} THEN {p \in cfg.list : Buildable(p)}
  ELSE LET Candidates == {i \in ConvertLegacyToModelList(cfg) : Buildable(Legacy[i])}
       IN  {Legacy[i] : i \in {i \in Candidates :
              \A j \in Candidates : ModelName(Legacy[j]) = ModelName(Legacy[i]) => i <= j}}

\* AvailableProviders, of the providers that it knows.
AvailableProviders(cfg) ==
  cfg.list \cup (cfg.keys \cap {"openai", "anthropic", "gemini"})
           \cup (IF cfg.host THEN {"ollama"} ELSE {})

Settings == [keys : SUBSET {Legacy[i] : i \in Ranks}, host : BOOLEAN,
             list : SUBSET {"openai", "listed", "keyless", "nameless"}, version : {0, 3},
             level : BOOLEAN, port : BOOLEAN, interval : BOOLEAN, cipher : BOOLEAN]

\* A user writes settings that exist, and values such as they have; what the environment
\* sets of the host is one.
ASSUME FilesAssumption ==
  /\ MaxEdits \in Nat /\ NoEnv \in Environments
  /\ \A e \in Environments :
       /\ e.keys \subseteq InEnv /\ DOMAIN e.set \subseteq {"host", "level", "cipher"}
       /\ \A f \in DOMAIN e.set : e.set[f] \in BOOLEAN /\ (f = "host" => e.set[f])
  /\ \A part \in UserFiles : DOMAIN part \subseteq DOMAIN Defaults /\ Overlay(Defaults, part) \in Settings

ConfigTypeOK ==
  /\ env \in Environments /\ origin \in {"nobody", "user", "program", "wizard"}
  /\ program \in {"off", "running", "failed"} /\ config \in Settings /\ latest \in Settings
  /\ watch \in {"off", "idle", "event", "blind"} /\ edits \in 0 .. MaxEdits
  /\ file = Absent \/ DOMAIN file \subseteq DOMAIN Defaults

ConfigInit ==
  /\ file = Absent /\ env \in Environments /\ origin = "nobody" /\ program = "off"
  /\ config = NoConfig /\ watch = "off" /\ latest = NoConfig /\ edits = 0 /\ rewriting = Absent

Editing == edits < MaxEdits /\ edits' = edits + 1

-----------------------------------------------------------------------------
\* Onboard: everything it does not ask for is written as it is in an empty Config.
Onboard(keys) ==
  /\ Editing /\ program # "running" /\ origin' = "wizard"
  /\ file' = [keys |-> keys, host |-> FALSE, list |-> {}, level |-> TRUE, port |-> FALSE,
              interval |-> FALSE, cipher |-> TRUE]
  /\ UNCHANGED <<env, program, config, watch, latest, rewriting>>

ChangeEnv(e) == /\ Editing /\ program # "running" /\ e # env /\ env' = e
                /\ UNCHANGED <<file, origin, program, config, watch, latest, rewriting>>

\* A file is written in place, truncated first, or by an editor that replaces it:
\* the watcher then follows the one that was replaced.
Seen == watch' = IF watch = "idle" THEN "event" ELSE watch

Truncate(part) == /\ Editing /\ rewriting = Absent /\ Seen /\ origin' = "user"
                  /\ file' = [f \in {} |-> FALSE] /\ rewriting' = part
                  /\ UNCHANGED <<env, program, config, latest>>

WriteFile == /\ rewriting # Absent /\ rewriting' = Absent /\ file' = rewriting /\ Seen
             /\ UNCHANGED <<env, origin, program, config, latest, edits>>

Replace(part) == /\ Editing /\ rewriting = Absent /\ file' = part /\ origin' = "user"
                 /\ watch' = IF watch = "off" THEN "off" ELSE "blind"
                 /\ UNCHANGED <<env, program, config, latest, rewriting>>

-----------------------------------------------------------------------------
\* A start: Bootstrap decodes the cipher's key, and builds the router, from what was loaded.
StartProgram(writable) ==
  LET cfg == Loads(file, env, writable)
      writes == file = Absent /\ Asks(env) /\ writable
  IN  /\ program # "running" /\ rewriting = Absent
      /\ file' = IF writes THEN Generated(env) ELSE file
      /\ origin' = IF writes THEN "program" ELSE origin
      /\ program' = IF cfg.cipher /\ Providers(cfg) # {} THEN "running" ELSE "failed"
      /\ config' = cfg
      /\ watch' = "off" /\ latest' = NoConfig
      /\ UNCHANGED <<env, edits, rewriting>>

Quit == /\ program = "running" /\ program' = "off" /\ watch' = "off"
        /\ UNCHANGED <<file, env, origin, config, latest, edits, rewriting>>

\* Watch loads before it watches: what is written in between is not seen.
WatchFile == /\ program = "running" /\ watch = "off" /\ file # Absent /\ rewriting = Absent
             /\ FromFile(file, env) # NoConfig
             /\ watch' = "idle" /\ latest' = FromFile(file, env)
             /\ UNCHANGED <<file, env, origin, program, config, edits, rewriting>>

\* An event: the file is loaded, and delivered where that succeeds.
Reload ==
  LET cfg == FromFile(file, env)
  IN  /\ watch = "event" /\ watch' = "idle"
      /\ latest' = IF cfg = NoConfig THEN latest ELSE cfg
      /\ UNCHANGED <<file, env, origin, program, config, edits, rewriting>>

ConfigNext ==
  \/ \E keys \in SUBSET {"openai", "anthropic", "gemini"} : Onboard(keys)
  \/ \E e \in Environments : ChangeEnv(e)
  \/ \E part \in UserFiles : Truncate(part) \/ Replace(part)
  \/ WriteFile \/ Quit \/ WatchFile \/ Reload
  \/ \E writable \in BOOLEAN : StartProgram(writable)

-----------------------------------------------------------------------------
\* A program that runs has valid settings, a key it can decode and a provider; and of
\* the providers the status command calls authenticated each can be asked, unless its
\* entry of the model list lacks a key, or that list is the file's, or the one entry a
\* key of OpenAI alone was migrated to (config.go:433-446, 711-749, router.go:54-66).
RunningIsSound ==
  program = "running" =>
    /\ validate(config) /\ config.cipher /\ Providers(config) # {}
    /\ config.list = {} => AvailableProviders(config) \subseteq Providers(config)

\* The file a program has written for itself starts it again with the same settings, and
\* under any environment, also none, as long as neither has a level or a key that is bad:
\* it has its providers.  But a bad one the environment had when the file was written is
\* in it to stay, and is what then stops each start that has no good one to lay over it
\* (config.go:474-505, 646-658).
GeneratedSuffices ==
  (origin = "program" /\ rewriting = Absent) =>
    /\ program = "running" => config = FromFile(file, env)
    /\ \A e \in Environments :
         LET cfg == FromFile(file, e)
             laid == Overlay(file, e.set)
         IN  (cfg # NoConfig /\ Providers(cfg) # {}) <=> (laid.level /\ laid.cipher)

\* What the watcher delivers is valid.
DeliveredIsValid == latest = NoConfig \/ validate(latest)

ConfigIsSound == RunningIsSound /\ GeneratedSuffices /\ DeliveredIsValid

\* A file that was written in place, and can be loaded, is not delivered yet, however bad
\* what it was before (loader.go:33-58).
WatchWaits ==
  /\ program = "running" /\ latest # NoConfig /\ watch # "blind" /\ rewriting = Absent
  /\ FromFile(file, env) \notin {NoConfig, latest}
=============================================================================
