--------------------------- MODULE Configuration ---------------------------
(***************************************************************************)
(* config.Load: the settings of the process come from three layers, its    *)
(* environment, the file .env.<APP_ENV> and the file .env, and are parsed  *)
(* and validated with an early return at the first error.  A layer is a    *)
(* function from keys to texts; Unset stands for a key it does not define. *)
(*                                                                         *)
(* DB_HOST stands for the four database texts that must be set.  The       *)
(* settings that only fall back to a default (APP_NAME, LOG_LEVEL,         *)
(* CORRELATION_ID_HEADER, the trace endpoint) are left out: nothing refuses *)
(* them, since the check of the header in validate cannot fail on a text   *)
(* that optionalString returned.                                           *)
(***************************************************************************)
EXTENDS Integers, Sequences, FiniteSetsExt

CONSTANTS
  ProcessLayers,   \* what the environment of the process may define
  OverlayLayers,   \* what the file .env.<name> may define
  BaseLayers,      \* what the file .env may define
  OverlayNames,    \* the names a file .env.<name> may exist for
  Atoi,            \* the integer each text denotes, or NotAnInteger
  MaxInt,          \* the largest int and time.Duration, 2^63 - 1
  Millisecond      \* time.Millisecond in units of time.Duration

Keys ==
  {"APP_ENV", "APP_PORT", "DB_PORT", "DB_HOST",
   "PAYMENT_GATEWAY_TIMEOUT_MS", "ATLAS_FAULT_PROFILE"}

Unset == "unset"
Blank == ""
NotAnInteger == 0 - MaxInt - 2   \* no word: strconv.Atoi failed
EmptyLayer == [k \in Keys |-> Unset]
DefaultTimeoutText == "2000"

\* Atoi is defined on every text the layers give a number as, and the default
\* timeout is a positive time.Duration.
ASSUME ConfigurationAssumption ==
  /\ MaxInt \in Nat /\ Millisecond \in Nat \ {0}
  /\ \A t \in DOMAIN Atoi : Atoi[t] \in Int
  /\ \A layer \in ProcessLayers \cup OverlayLayers \cup BaseLayers :
       /\ DOMAIN layer = Keys
       /\ \A k \in {"APP_PORT", "DB_PORT", "PAYMENT_GATEWAY_TIMEOUT_MS"} :
            layer[k] \in DOMAIN Atoi
  /\ DefaultTimeoutText \in DOMAIN Atoi
  /\ Atoi[DefaultTimeoutText] * Millisecond \in 1..MaxInt

VARIABLES
  input,    \* the three layers and which file cannot be read
  result    \* what Load returned

vars == <<input, result>>

-----------------------------------------------------------------------------
(* The lookup                                                               *)

\* Wrong variant: as in the lookup, a blank value of the process counts.
FirstSet(in) ==
  LET own == in.process["APP_ENV"]
      file == in.base["APP_ENV"]
  IN CASE own # Unset -> own
       [] own = Unset /\ file # Unset -> file
       [] OTHER -> Blank

\* A blank value of the process does not count, unlike in the lookup itself.
FirstNonBlank(in) ==
  LET own == in.process["APP_ENV"]
      file == in.base["APP_ENV"]
  IN CASE own \notin {Unset, Blank} -> own
       [] own \in {Unset, Blank} /\ file # Unset -> file
       [] OTHER -> Blank

\* The name of the overlay to read.
AppEnv(in) ==
  IF FirstNonBlank(in) = Blank THEN "local" ELSE FirstNonBlank(in)

HasOverlay(in) == in.overlayName = AppEnv(in)
EnvFileValues(in) == IF HasOverlay(in) THEN in.overlay ELSE EmptyLayer

MergeEnvValues(target, source) ==
  [k \in Keys |-> IF source[k] = Unset THEN target[k] ELSE source[k]]

\* The process answers first, a blank value included.
NewEnvLookup(in) ==
  LET merged == MergeEnvValues(in.base, EnvFileValues(in))
  IN [k \in Keys |-> IF in.process[k] = Unset THEN merged[k] ELSE in.process[k]]

-----------------------------------------------------------------------------
(* Parsing                                                                  *)

IsMissing(text) == text \in {Unset, Blank}

\* Wrong variant: a blank value counts as a value.
OptionalTextWhenSet(text, fallback) == IF text = Unset THEN fallback ELSE text

OptionalText(text, fallback) == IF IsMissing(text) THEN fallback ELSE text
IsInteger(text) == Atoi[text] # NotAnInteger

\* Signed multiplication of the machine word.
Times(a, b) ==
  LET half == MaxInt + 1 IN ((a * b + half) % (2 * half)) - half

GatewayTimeout(lookup) ==
  Times(Atoi[OptionalText(lookup["PAYMENT_GATEWAY_TIMEOUT_MS"],
                          DefaultTimeoutText)],
        Millisecond)

FaultProfiles ==
  {"none", "payment_timeout", "payment_flaky_first",
   "duplicate_billing_requested", "event_consumer_failure",
   "outbox_append_failure"}

AppConfig(lookup) ==
  [env |-> OptionalText(lookup["APP_ENV"], "local"),
   port |-> Atoi[lookup["APP_PORT"]],
   dbPort |-> Atoi[lookup["DB_PORT"]],
   host |-> lookup["DB_HOST"],
   timeout |-> GatewayTimeout(lookup),
   profile |-> OptionalText(lookup["ATLAS_FAULT_PROFILE"], "none")]

-----------------------------------------------------------------------------
(* Validation                                                               *)

\* strings.ToLower of the spellings an environment is given in.
ToLower(text) ==
  CASE text = "Production" -> "production"
    [] text = "Test" -> "test"
    [] OTHER -> text

IsSupportedAppEnv(env) ==
  ToLower(env) \in {"local", "test", "dev", "staging", "production"}

\* The error is the name of the first setting that is refused.
FirstRefused(checks) ==
  LET refused == {c \in DOMAIN checks : checks[c].bad}
  IN IF refused = {} THEN "nil" ELSE checks[Min(refused)].key

Check(bad, key) == [bad |-> bad, key |-> key]

\* Wrong variant: validate trusts the multiplication.
ValidateTrustsTimeout(cfg) ==
  FirstRefused(<<Check(cfg.port <= 0, "APP_PORT"),
                 Check(~IsSupportedAppEnv(cfg.env), "APP_ENV"),
                 Check(cfg.dbPort <= 0, "DB_PORT"),
                 Check(cfg.env = "production" /\ cfg.profile # "none",
                       "ATLAS_FAULT_PROFILE")>>)

Validate(cfg) ==
  FirstRefused(<<Check(cfg.port <= 0, "APP_PORT"),
                 Check(~IsSupportedAppEnv(cfg.env), "APP_ENV"),
                 Check(cfg.dbPort <= 0, "DB_PORT"),
                 Check(cfg.env = "production" /\ cfg.profile # "none",
                       "ATLAS_FAULT_PROFILE"),
                 Check(cfg.timeout <= 0, "PAYMENT_GATEWAY_TIMEOUT_MS")>>)

\* The early returns of loadFromEnv before the Config is built.
ParseError(lookup) ==
  LET bad(text) == IsMissing(text) \/ ~IsInteger(text)
      timeout ==
        OptionalText(lookup["PAYMENT_GATEWAY_TIMEOUT_MS"], DefaultTimeoutText)
      profile == OptionalText(lookup["ATLAS_FAULT_PROFILE"], "none")
  IN FirstRefused(<<Check(bad(lookup["APP_PORT"]), "APP_PORT"),
                    Check(bad(lookup["DB_PORT"]), "DB_PORT"),
                    Check(IsMissing(lookup["DB_HOST"]), "DB_HOST"),
                    Check(~IsInteger(timeout), "PAYMENT_GATEWAY_TIMEOUT_MS"),
                    Check(profile \notin FaultProfiles,
                          "ATLAS_FAULT_PROFILE")>>)

NoConfig ==
  [env |-> Blank, port |-> 0, dbPort |-> 0, host |-> Blank, timeout |-> 0,
   profile |-> Blank]
Refused(error) == [error |-> error, overlay |-> Unset, cfg |-> NoConfig]
Pending == Refused("pending")

LoadFromEnv(lookup, overlay) ==
  IF ParseError(lookup) # "nil" THEN Refused(ParseError(lookup))
  ELSE IF Validate(AppConfig(lookup)) # "nil"
    THEN Refused(Validate(AppConfig(lookup)))
  ELSE [error |-> "nil", overlay |-> overlay, cfg |-> AppConfig(lookup)]

\* A file that exists and cannot be read ends Load; a missing one is empty.
Load ==
  /\ result = Pending
  /\ result' =
       CASE input.unreadable = "base" -> Refused(".env")
         [] input.unreadable = "overlay" /\ HasOverlay(input) ->
              Refused(".env.<APP_ENV>")
         [] OTHER -> LoadFromEnv(NewEnvLookup(input), AppEnv(input))
  /\ UNCHANGED input

-----------------------------------------------------------------------------
Init ==
  /\ input \in [process : ProcessLayers, overlay : OverlayLayers,
                overlayName : OverlayNames, base : BaseLayers,
                unreadable : {"none", "base", "overlay"}]
  /\ result = Pending

Loaded == result # Pending /\ UNCHANGED vars

Next == Load \/ Loaded

Spec == Init /\ [][Next]_vars

-----------------------------------------------------------------------------
(* Properties                                                               *)

\* The overlay that is meant: the first environment that is named before any
\* overlay is read, by the process or by .env.
Chosen(in) ==
  LET names == <<in.process["APP_ENV"], in.base["APP_ENV"]>>
      given == {n \in 1..2 : names[n] \notin {Unset, Blank}}
  IN IF given = {} THEN "local" ELSE names[Min(given)]
ChosenOverlay(in) == IF in.overlayName = Chosen(in) THEN in.overlay ELSE EmptyLayer

\* The layers that apply, the strongest first, and what they say about a key.
Layers(in) == <<in.process, ChosenOverlay(in), in.base>>
Effective(in, k) ==
  LET defining == {l \in 1..3 : Layers(in)[l][k] # Unset}
  IN IF defining = {} THEN Blank ELSE Layers(in)[Min(defining)][k]

Given(k, default) ==
  IF Effective(input, k) = Blank THEN default ELSE Effective(input, k)

Accepted == result.error = "nil"

\* Every accepted setting is the one of the strongest layer that defines its key,
\* or the default when that layer leaves it blank: a file never overrides the
\* process, and .env never the overlay of the environment.  The overlay that was
\* read is the one of the environment the process then believes to be in, with
\* two exceptions: a process that sets APP_ENV to a blank text reads the overlay
\* .env names and runs as "local", and an overlay may rename the environment.
StrongestLayerWins ==
  Accepted =>
    /\ result.cfg.port = Atoi[Effective(input, "APP_PORT")]
    /\ result.cfg.dbPort = Atoi[Effective(input, "DB_PORT")]
    /\ result.cfg.host = Effective(input, "DB_HOST")
    /\ result.cfg.env = Given("APP_ENV", "local")
    /\ result.cfg.profile = Given("ATLAS_FAULT_PROFILE", "none")
    /\ result.cfg.timeout =
         Times(Atoi[Given("PAYMENT_GATEWAY_TIMEOUT_MS", DefaultTimeoutText)],
               Millisecond)
    /\ \/ result.overlay = result.cfg.env
       \/ input.process["APP_ENV"] = Blank
       \/ /\ input.process["APP_ENV"] = Unset
          /\ ChosenOverlay(input)["APP_ENV"] # Unset

\* Whatever the layers say, the process starts only with settings the rest of it
\* relies on: a positive port, a known environment and fault profile, and a
\* gateway timeout that is positive after the multiplication that may overflow,
\* so that no attempt is cancelled before it is sent (a product that overflows to
\* a short positive one is accepted).  The environment that is spelled
\* "production" runs without injected faults; no other spelling is held to that.
AcceptedIsRunnable ==
  Accepted =>
    /\ result.cfg.port > 0 /\ result.cfg.dbPort > 0
    /\ result.cfg.host # Blank
    /\ IsSupportedAppEnv(result.cfg.env)
    /\ result.cfg.profile \in FaultProfiles
    /\ result.cfg.env = "production" => result.cfg.profile = "none"
    /\ result.cfg.timeout \in 1..MaxInt

\* What may be wrong with the effective value of a setting.
Justified(in, error) ==
  LET value == Effective(in, error) IN
    /\ error \in {"APP_PORT", "DB_PORT"} =>
         value = Blank \/ ~IsInteger(value) \/ Atoi[value] <= 0
    /\ error = "DB_HOST" => value = Blank
    /\ error = "PAYMENT_GATEWAY_TIMEOUT_MS" =>
         /\ value # Blank
         /\ \/ ~IsInteger(value)
            \/ Atoi[value] <= 0
            \/ Atoi[value] * Millisecond > MaxInt
    /\ error = "APP_ENV" => value # Blank /\ ~IsSupportedAppEnv(value)
    /\ error = "ATLAS_FAULT_PROFILE" =>
         /\ value \notin {Blank, "none"}
         /\ value \in FaultProfiles =>
              ToLower(Effective(in, "APP_ENV")) = "production"

\* A setting is refused only for what it says: Load names a key whose effective
\* value is missing, malformed or not allowed, or a file that is unreadable.
RefusedForItsValue ==
  /\ result.error \in Keys => Justified(input, result.error)
  /\ result.error \in {".env", ".env.<APP_ENV>"} => input.unreadable # "none"
=============================================================================
