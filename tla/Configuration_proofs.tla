----------------------- MODULE Configuration_proofs -----------------------
(* Proofs about config.Load, for every contents of its three layers and     *)
(* every width of the machine word.                                         *)
EXTENDS Configuration, TLAPS

-----------------------------------------------------------------------------
(* The operators                                                            *)

\* Min of a few positions is the first of them.
LEMMA MinFirst ==
  ASSUME NEW S \in SUBSET (1..5), S # {}
  PROVE  /\ 1 \in S => Min(S) = 1
         /\ 1 \notin S /\ 2 \in S => Min(S) = 2
         /\ 1 \notin S /\ 2 \notin S /\ 3 \in S => Min(S) = 3
         /\ 1 \notin S /\ 2 \notin S /\ 3 \notin S /\ 4 \in S => Min(S) = 4
         /\ 1 \notin S /\ 2 \notin S /\ 3 \notin S /\ 4 \notin S =>
              Min(S) = 5 /\ 5 \in S
<1>1. \E x \in S : \A y \in S : x <= y
  <2>1. CASE 1 \in S
    BY <2>1
  <2>2. CASE 1 \notin S /\ 2 \in S
    BY <2>2
  <2>3. CASE 1 \notin S /\ 2 \notin S /\ 3 \in S
    BY <2>3
  <2>4. CASE 1 \notin S /\ 2 \notin S /\ 3 \notin S /\ 4 \in S
    BY <2>4
  <2>5. CASE 1 \notin S /\ 2 \notin S /\ 3 \notin S /\ 4 \notin S
    <3>1. \A y \in S : y = 5
      BY <2>5
    <3>2. PICK x \in S : x = 5
      BY <3>1
    <3> QED BY <3>1, <3>2
  <2> QED BY <2>1, <2>2, <2>3, <2>4, <2>5
<1>2. Min(S) \in S /\ \A y \in S : Min(S) <= y
  BY <1>1 DEF Min
<1>3. ASSUME NEW m \in S, \A y \in S : m <= y
      PROVE  /\ 1 \in S => m = 1
             /\ 1 \notin S /\ 2 \in S => m = 2
             /\ 1 \notin S /\ 2 \notin S /\ 3 \in S => m = 3
             /\ 1 \notin S /\ 2 \notin S /\ 3 \notin S /\ 4 \in S => m = 4
             /\ 1 \notin S /\ 2 \notin S /\ 3 \notin S /\ 4 \notin S =>
                  m = 5 /\ 5 \in S
  BY <1>3
<1> QED BY <1>2, <1>3

\* FirstRefused goes through its checks in order, like the early returns it
\* stands for.
LEMMA FirstRefusedInOrder ==
  ASSUME NEW checks, DOMAIN checks = 1..5
  PROVE  FirstRefused(checks) =
           IF checks[1].bad THEN checks[1].key
           ELSE IF checks[2].bad THEN checks[2].key
           ELSE IF checks[3].bad THEN checks[3].key
           ELSE IF checks[4].bad THEN checks[4].key
           ELSE IF checks[5].bad THEN checks[5].key
           ELSE "nil"
<1> DEFINE refused == {c \in DOMAIN checks : checks[c].bad}
<1>1. FirstRefused(checks) =
        IF refused = {} THEN "nil" ELSE checks[Min(refused)].key
  BY DEF FirstRefused
<1>2. /\ refused \in SUBSET (1..5)
      /\ 1 \in refused <=> checks[1].bad
      /\ 2 \in refused <=> checks[2].bad
      /\ 3 \in refused <=> checks[3].bad
      /\ 4 \in refused <=> checks[4].bad
      /\ 5 \in refused <=> checks[5].bad
  OBVIOUS
<1> HIDE DEF refused
<1>3. CASE refused = {}
  BY <1>1, <1>2, <1>3
<1>4. CASE refused # {}
  BY <1>1, <1>2, <1>4, MinFirst
<1> QED BY <1>3, <1>4

\* The product of the machine word is a word, and the product itself when that
\* is a positive word.
LEMMA TimesIsWord ==
  ASSUME NEW a \in Int, NEW b \in Int
  PROVE  /\ Times(a, b) \in Int /\ Times(a, b) <= MaxInt
         /\ a * b \in 1..MaxInt => Times(a, b) = a * b
<1>1. MaxInt \in Nat
  BY ConfigurationAssumption
<1>2. ASSUME NEW p \in Int, NEW h \in Nat, h > 0
      PROVE  /\ (p + h) % (2 * h) \in 0..(2 * h - 1)
             /\ p \in 1..(h - 1) => (p + h) % (2 * h) = p + h
  <2>1. p + h \in Int /\ 2 * h \in Nat /\ 2 * h > 0
    BY <1>2
  <2>2. ASSUME NEW x \in Int, NEW n \in Nat, n > 0
        PROVE x % n \in 0..(n - 1) /\ (x \in 0..(n - 1) => x % n = x)
    BY <2>2
  <2> QED BY <1>2, <2>1, <2>2
<1>3. a * b \in Int
  OBVIOUS
<1> DEFINE h == MaxInt + 1
           p == a * b
<1>4. Times(a, b) = ((p + h) % (2 * h)) - h
  BY DEF Times
<1>5. h \in Nat /\ h > 0 /\ p \in Int
  BY <1>1, <1>3
<1> HIDE DEF p
<1>6. /\ (p + h) % (2 * h) \in 0..(2 * h - 1)
      /\ p \in 1..(h - 1) => (p + h) % (2 * h) = p + h
  BY <1>2, <1>5
<1>7. /\ Times(a, b) \in Int /\ Times(a, b) <= MaxInt
      /\ p \in 1..MaxInt => Times(a, b) = p
  <2> DEFINE m == (p + h) % (2 * h)
  <2>1. Times(a, b) = m - h
    BY <1>4
  <2>2. m \in 0..(2 * h - 1) /\ (p \in 1..(h - 1) => m = p + h)
    BY <1>6
  <2> HIDE DEF m
  <2> QED BY <1>1, <1>5, <2>1, <2>2
<1> QED BY <1>7 DEF p

-----------------------------------------------------------------------------
(* The lookup                                                               *)

Inputs ==
  [process : ProcessLayers, overlay : OverlayLayers, overlayName : OverlayNames,
   base : BaseLayers, unreadable : {"none", "base", "overlay"}]

NumberKeys == {"APP_PORT", "DB_PORT", "PAYMENT_GATEWAY_TIMEOUT_MS"}

\* The overlay that newEnvLookup reads is the one that is meant.
LEMMA OverlayIsChosen ==
  ASSUME NEW in \in Inputs
  PROVE  AppEnv(in) = Chosen(in) /\ EnvFileValues(in) = ChosenOverlay(in)
<1> DEFINE own == in.process["APP_ENV"]
           file == in.base["APP_ENV"]
           names == <<own, file>>
           given == {n \in 1..2 : names[n] \notin {Unset, Blank}}
<1>1. /\ given \in SUBSET (1..5)
      /\ 1 \in given <=> own \notin {Unset, Blank}
      /\ 2 \in given <=> file \notin {Unset, Blank}
      /\ 3 \notin given /\ 4 \notin given /\ 5 \notin given
  OBVIOUS
<1>2. Chosen(in) = IF given = {} THEN "local" ELSE names[Min(given)]
  BY DEF Chosen
<1>3. names[1] = own /\ names[2] = file
  OBVIOUS
<1>4. AppEnv(in) = IF own \notin {Unset, Blank} THEN own
                   ELSE IF file \notin {Unset, Blank} THEN file ELSE "local"
  BY DEF AppEnv, FirstNonBlank, Unset, Blank
<1> HIDE DEF own, file, names, given
<1>5. AppEnv(in) = Chosen(in)
  <2>1. CASE given = {}
    BY <1>1, <1>2, <1>4, <2>1
  <2>2. CASE given # {}
    BY <1>1, <1>2, <1>3, <1>4, <2>2, MinFirst
  <2> QED BY <2>1, <2>2
<1> QED BY <1>5 DEF EnvFileValues, HasOverlay, ChosenOverlay

\* What the merged maps answer is what the strongest layer that defines the key
\* says: nothing is lost or reordered by merging the files first and asking the
\* process before them.
LEMMA LookupIsEffective ==
  ASSUME NEW in \in Inputs, NEW k \in Keys
  PROVE  /\ IsMissing(NewEnvLookup(in)[k]) <=> Effective(in, k) = Blank
         /\ ~IsMissing(NewEnvLookup(in)[k]) =>
              NewEnvLookup(in)[k] = Effective(in, k)
<1> DEFINE p == in.process[k]
           o == EnvFileValues(in)[k]
           b == in.base[k]
           defining == {l \in 1..3 : Layers(in)[l][k] # Unset}
<1>1. NewEnvLookup(in)[k] =
        IF p # Unset THEN p ELSE IF o # Unset THEN o ELSE b
  BY DEF NewEnvLookup, MergeEnvValues
<1>2. Layers(in)[1][k] = p /\ Layers(in)[2][k] = o /\ Layers(in)[3][k] = b
  BY OverlayIsChosen DEF Layers
<1>3. Effective(in, k) =
        IF defining = {} THEN Blank ELSE Layers(in)[Min(defining)][k]
  BY DEF Effective
<1>4. /\ defining \in SUBSET (1..5)
      /\ 1 \in defining <=> p # Unset
      /\ 2 \in defining <=> o # Unset
      /\ 3 \in defining <=> b # Unset
      /\ \A l \in defining : l \in 1..3
  BY <1>2
<1> HIDE DEF p, o, b, defining
<1>5. Effective(in, k) =
        IF p # Unset THEN p ELSE IF o # Unset THEN o
        ELSE IF b # Unset THEN b ELSE Blank
  <2>1. CASE defining = {}
    BY <1>3, <1>4, <2>1
  <2>2. CASE defining # {}
    <3>1. /\ p # Unset => Min(defining) = 1
          /\ p = Unset /\ o # Unset => Min(defining) = 2
          /\ p = Unset /\ o = Unset => Min(defining) = 3 /\ b # Unset
      <4>1. 4 \notin defining /\ 5 \notin defining
        BY <1>4
      <4> QED BY <1>4, <2>2, <4>1, MinFirst
    <3> QED BY <1>2, <1>3, <2>2, <3>1
  <2> QED BY <2>1, <2>2
<1> QED BY <1>1, <1>5 DEF IsMissing, Unset, Blank

\* A number the lookup finds is a text Atoi is defined on.
LEMMA LookupIsText ==
  ASSUME NEW in \in Inputs, NEW k \in NumberKeys,
         ~IsMissing(NewEnvLookup(in)[k])
  PROVE  Atoi[NewEnvLookup(in)[k]] \in Int
<1>1. k \in Keys
  BY DEF NumberKeys, Keys
<1>2. /\ in.process[k] \in DOMAIN Atoi /\ in.overlay[k] \in DOMAIN Atoi
      /\ in.base[k] \in DOMAIN Atoi
  BY ConfigurationAssumption DEF Inputs, NumberKeys
<1>3. EnvFileValues(in)[k] \in {in.overlay[k], Unset}
  BY <1>1 DEF EnvFileValues, EmptyLayer
<1>4. NewEnvLookup(in)[k] # Unset /\ NewEnvLookup(in)[k] \in
        {in.process[k], EnvFileValues(in)[k], in.base[k]}
  BY <1>1 DEF NewEnvLookup, MergeEnvValues, IsMissing
<1>5. NewEnvLookup(in)[k] \in DOMAIN Atoi
  BY <1>2, <1>3, <1>4
<1> QED BY <1>5, ConfigurationAssumption

-----------------------------------------------------------------------------
(* The errors                                                               *)

\* The texts Load goes on with where a default may stand in.
TimeoutText(lookup) ==
  OptionalText(lookup["PAYMENT_GATEWAY_TIMEOUT_MS"], DefaultTimeoutText)
ProfileText(lookup) == OptionalText(lookup["ATLAS_FAULT_PROFILE"], "none")
EnvText(lookup) == OptionalText(lookup["APP_ENV"], "local")
BadNumber(text) == IsMissing(text) \/ ~IsInteger(text)

\* The early returns of the parser, one after the other.
LEMMA ParseErrorInOrder ==
  ASSUME NEW lookup
  PROVE  ParseError(lookup) =
           IF BadNumber(lookup["APP_PORT"]) THEN "APP_PORT"
           ELSE IF BadNumber(lookup["DB_PORT"]) THEN "DB_PORT"
           ELSE IF IsMissing(lookup["DB_HOST"]) THEN "DB_HOST"
           ELSE IF ~IsInteger(TimeoutText(lookup))
                THEN "PAYMENT_GATEWAY_TIMEOUT_MS"
           ELSE IF ProfileText(lookup) \notin FaultProfiles
                THEN "ATLAS_FAULT_PROFILE"
           ELSE "nil"
<1> DEFINE checks == <<Check(BadNumber(lookup["APP_PORT"]), "APP_PORT"),
                       Check(BadNumber(lookup["DB_PORT"]), "DB_PORT"),
                       Check(IsMissing(lookup["DB_HOST"]), "DB_HOST"),
                       Check(~IsInteger(TimeoutText(lookup)),
                             "PAYMENT_GATEWAY_TIMEOUT_MS"),
                       Check(ProfileText(lookup) \notin FaultProfiles,
                             "ATLAS_FAULT_PROFILE")>>
<1>1. ParseError(lookup) = FirstRefused(checks)
  BY DEF ParseError, BadNumber, TimeoutText, ProfileText
<1>2. DOMAIN checks = 1..5
  OBVIOUS
<1>3. /\ checks[1].bad <=> BadNumber(lookup["APP_PORT"])
      /\ checks[2].bad <=> BadNumber(lookup["DB_PORT"])
      /\ checks[3].bad <=> IsMissing(lookup["DB_HOST"])
      /\ checks[4].bad <=> ~IsInteger(TimeoutText(lookup))
      /\ checks[5].bad <=> ProfileText(lookup) \notin FaultProfiles
  BY DEF Check
<1>4. /\ checks[1].key = "APP_PORT"
      /\ checks[2].key = "DB_PORT"
      /\ checks[3].key = "DB_HOST"
      /\ checks[4].key = "PAYMENT_GATEWAY_TIMEOUT_MS"
      /\ checks[5].key = "ATLAS_FAULT_PROFILE"
  BY DEF Check
<1> HIDE DEF checks
<1> QED BY <1>1, <1>2, <1>3, <1>4, FirstRefusedInOrder

\* The checks of validate, one after the other.
LEMMA ValidateInOrder ==
  ASSUME NEW cfg
  PROVE  Validate(cfg) =
           IF cfg.port <= 0 THEN "APP_PORT"
           ELSE IF ~IsSupportedAppEnv(cfg.env) THEN "APP_ENV"
           ELSE IF cfg.dbPort <= 0 THEN "DB_PORT"
           ELSE IF cfg.env = "production" /\ cfg.profile # "none"
                THEN "ATLAS_FAULT_PROFILE"
           ELSE IF cfg.timeout <= 0 THEN "PAYMENT_GATEWAY_TIMEOUT_MS"
           ELSE "nil"
<1> DEFINE checks == <<Check(cfg.port <= 0, "APP_PORT"),
                       Check(~IsSupportedAppEnv(cfg.env), "APP_ENV"),
                       Check(cfg.dbPort <= 0, "DB_PORT"),
                       Check(cfg.env = "production" /\ cfg.profile # "none",
                             "ATLAS_FAULT_PROFILE"),
                       Check(cfg.timeout <= 0, "PAYMENT_GATEWAY_TIMEOUT_MS")>>
<1>1. Validate(cfg) = FirstRefused(checks)
  BY DEF Validate
<1>2. DOMAIN checks = 1..5
  OBVIOUS
<1>3. /\ checks[1].bad <=> cfg.port <= 0
      /\ checks[2].bad <=> ~IsSupportedAppEnv(cfg.env)
      /\ checks[3].bad <=> cfg.dbPort <= 0
      /\ checks[4].bad <=> (cfg.env = "production" /\ cfg.profile # "none")
      /\ checks[5].bad <=> cfg.timeout <= 0
  BY DEF Check
<1>4. /\ checks[1].key = "APP_PORT"
      /\ checks[2].key = "APP_ENV"
      /\ checks[3].key = "DB_PORT"
      /\ checks[4].key = "ATLAS_FAULT_PROFILE"
      /\ checks[5].key = "PAYMENT_GATEWAY_TIMEOUT_MS"
  BY DEF Check
<1> HIDE DEF checks
<1> QED BY <1>1, <1>2, <1>3, <1>4, FirstRefusedInOrder

\* A default stands in exactly where the strongest layer leaves the key blank.
LEMMA DefaultsAreEffective ==
  ASSUME NEW in \in Inputs, NEW k \in Keys, NEW default
  PROVE  OptionalText(NewEnvLookup(in)[k], default) =
           IF Effective(in, k) = Blank THEN default ELSE Effective(in, k)
BY LookupIsEffective DEF OptionalText

\* The default timeout is a number and a positive duration.
LEMMA DefaultTimeout ==
  /\ Atoi[DefaultTimeoutText] \in Int
  /\ IsInteger(DefaultTimeoutText)
  /\ Times(Atoi[DefaultTimeoutText], Millisecond) > 0
<1> DEFINE d == Atoi[DefaultTimeoutText]
<1>1. /\ d \in Int /\ MaxInt \in Nat /\ Millisecond \in Nat \ {0}
      /\ d * Millisecond \in 1..MaxInt
  BY ConfigurationAssumption
<1>2. ASSUME NEW a \in Int, NEW b \in Nat \ {0}, a * b > 0 PROVE a > 0
  <2>1. CASE a = 0
    BY <1>2, <2>1
  <2>2. ASSUME NEW c \in Nat \ {0} PROVE c * b > 0
    BY <2>2
  <2>3. CASE a < 0
    <3>1. (0 - a) * b > 0
      BY <2>2, <2>3
    <3>2. (0 - a) * b = 0 - a * b
      OBVIOUS
    <3> QED BY <1>2, <3>1, <3>2
  <2> QED BY <2>1, <2>3
<1> HIDE DEF d
<1>3. Times(d, Millisecond) = d * Millisecond
  <2>1. Millisecond \in Int
    BY <1>1
  <2> QED BY <1>1, <2>1, TimesIsWord, Zenon
<1>4. d * Millisecond > 0
  BY <1>1
<1>5. d > 0
  BY <1>1, <1>2, <1>4
<1>6. d # 0 - MaxInt - 2
  BY <1>1, <1>5
<1> QED BY <1>1, <1>3, <1>4, <1>6 DEF d, IsInteger, NotAnInteger

\* What the parser refuses is refused rightly, and what it lets pass is there.
LEMMA ParseErrorJustified ==
  ASSUME NEW in \in Inputs
  PROVE  LET lookup == NewEnvLookup(in) IN
         /\ ParseError(lookup) # "nil" => Justified(in, ParseError(lookup))
         /\ ParseError(lookup) = "nil" =>
              /\ ~BadNumber(lookup["APP_PORT"]) /\ ~BadNumber(lookup["DB_PORT"])
              /\ ~IsMissing(lookup["DB_HOST"])
              /\ IsInteger(TimeoutText(lookup))
              /\ ProfileText(lookup) \in FaultProfiles
<1> DEFINE lookup == NewEnvLookup(in)
           error == ParseError(lookup)
<1>1. \A k \in Keys :
        /\ IsMissing(lookup[k]) <=> Effective(in, k) = Blank
        /\ ~IsMissing(lookup[k]) => lookup[k] = Effective(in, k)
  BY LookupIsEffective
<1>2. error = "nil" =>
        /\ ~BadNumber(lookup["APP_PORT"]) /\ ~BadNumber(lookup["DB_PORT"])
        /\ ~IsMissing(lookup["DB_HOST"])
        /\ IsInteger(TimeoutText(lookup))
        /\ ProfileText(lookup) \in FaultProfiles
  BY ParseErrorInOrder
<1>3. error # "nil" =>
        \/ error = "APP_PORT" /\ BadNumber(lookup["APP_PORT"])
        \/ error = "DB_PORT" /\ BadNumber(lookup["DB_PORT"])
        \/ error = "DB_HOST" /\ IsMissing(lookup["DB_HOST"])
        \/ error = "PAYMENT_GATEWAY_TIMEOUT_MS" /\ ~IsInteger(TimeoutText(lookup))
        \/ error = "ATLAS_FAULT_PROFILE" /\ ProfileText(lookup) \notin FaultProfiles
  BY ParseErrorInOrder
<1> HIDE DEF lookup, error
<1>4. CASE error = "APP_PORT" /\ BadNumber(lookup["APP_PORT"])
  <2>1. Effective(in, "APP_PORT") = Blank \/ ~IsInteger(Effective(in, "APP_PORT"))
    BY <1>1, <1>4 DEF BadNumber, Keys
  <2> QED BY <1>4, <2>1 DEF Justified, lookup, error
<1>5. CASE error = "DB_PORT" /\ BadNumber(lookup["DB_PORT"])
  <2>1. Effective(in, "DB_PORT") = Blank \/ ~IsInteger(Effective(in, "DB_PORT"))
    BY <1>1, <1>5 DEF BadNumber, Keys
  <2> QED BY <1>5, <2>1 DEF Justified, lookup, error
<1>6. CASE error = "DB_HOST" /\ IsMissing(lookup["DB_HOST"])
  <2>1. Effective(in, "DB_HOST") = Blank
    BY <1>1, <1>6 DEF Keys
  <2> QED BY <1>6, <2>1 DEF Justified, lookup, error
<1>7. CASE error = "PAYMENT_GATEWAY_TIMEOUT_MS" /\ ~IsInteger(TimeoutText(lookup))
  <2>1. LET v == Effective(in, "PAYMENT_GATEWAY_TIMEOUT_MS")
        IN v # Blank /\ ~IsInteger(v)
    BY <1>1, <1>7, DefaultTimeout DEF TimeoutText, OptionalText, Keys
  <2> QED BY <1>7, <2>1 DEF Justified, lookup, error
<1>8. CASE error = "ATLAS_FAULT_PROFILE" /\ ProfileText(lookup) \notin FaultProfiles
  <2>1. LET v == Effective(in, "ATLAS_FAULT_PROFILE")
        IN v # Blank /\ v \notin FaultProfiles
    BY <1>1, <1>8 DEF ProfileText, OptionalText, Keys, FaultProfiles
  <2>2. "none" \in FaultProfiles
    BY DEF FaultProfiles
  <2> QED BY <1>8, <2>1, <2>2 DEF Justified, lookup, error
<1> QED BY <1>2, <1>3, <1>4, <1>5, <1>6, <1>7, <1>8 DEF lookup, error

\* The settings Load builds, one by one, when the parser lets them pass.
LEMMA ParsedSettings ==
  ASSUME NEW in \in Inputs, ParseError(NewEnvLookup(in)) = "nil"
  PROVE  LET cfg == AppConfig(NewEnvLookup(in)) IN
         /\ cfg.port = Atoi[Effective(in, "APP_PORT")] /\ cfg.port \in Int
         /\ cfg.dbPort = Atoi[Effective(in, "DB_PORT")] /\ cfg.dbPort \in Int
         /\ cfg.host = Effective(in, "DB_HOST") /\ cfg.host # Blank
         /\ cfg.env = EnvText(NewEnvLookup(in))
         /\ cfg.profile = ProfileText(NewEnvLookup(in))
         /\ cfg.profile \in FaultProfiles
         /\ cfg.timeout = Times(Atoi[TimeoutText(NewEnvLookup(in))], Millisecond)
         /\ Atoi[TimeoutText(NewEnvLookup(in))] \in Int
<1> DEFINE lookup == NewEnvLookup(in)
<1>1. /\ ~BadNumber(lookup["APP_PORT"]) /\ ~BadNumber(lookup["DB_PORT"])
      /\ ~IsMissing(lookup["DB_HOST"])
      /\ ProfileText(lookup) \in FaultProfiles
  BY ParseErrorJustified
<1>2. /\ lookup["APP_PORT"] = Effective(in, "APP_PORT")
      /\ lookup["DB_PORT"] = Effective(in, "DB_PORT")
      /\ lookup["DB_HOST"] = Effective(in, "DB_HOST")
      /\ Effective(in, "DB_HOST") # Blank
  BY <1>1, LookupIsEffective DEF BadNumber, Keys
<1>3. Atoi[lookup["APP_PORT"]] \in Int /\ Atoi[lookup["DB_PORT"]] \in Int
  BY <1>1, LookupIsText DEF BadNumber, NumberKeys
<1>4. Atoi[TimeoutText(lookup)] \in Int
  BY LookupIsText, DefaultTimeout DEF TimeoutText, OptionalText, NumberKeys
<1> HIDE DEF lookup
<1>5. /\ AppConfig(lookup).port = Atoi[lookup["APP_PORT"]]
      /\ AppConfig(lookup).dbPort = Atoi[lookup["DB_PORT"]]
      /\ AppConfig(lookup).host = lookup["DB_HOST"]
      /\ AppConfig(lookup).env = EnvText(lookup)
      /\ AppConfig(lookup).profile = ProfileText(lookup)
      /\ AppConfig(lookup).timeout = Times(Atoi[TimeoutText(lookup)], Millisecond)
  BY DEF AppConfig, EnvText, ProfileText, TimeoutText, GatewayTimeout
<1> QED BY <1>1, <1>2, <1>3, <1>4, <1>5 DEF lookup

\* What validate refuses is refused rightly, and what it lets pass can run.
LEMMA ValidateJustified ==
  ASSUME NEW in \in Inputs, ParseError(NewEnvLookup(in)) = "nil"
  PROVE  LET cfg == AppConfig(NewEnvLookup(in)) IN
         /\ Validate(cfg) # "nil" => Justified(in, Validate(cfg))
         /\ Validate(cfg) = "nil" =>
              /\ cfg.port > 0 /\ cfg.dbPort > 0
              /\ IsSupportedAppEnv(cfg.env)
              /\ cfg.env = "production" => cfg.profile = "none"
              /\ cfg.timeout \in 1..MaxInt
<1> DEFINE lookup == NewEnvLookup(in)
           cfg == AppConfig(lookup)
           error == Validate(cfg)
           t == Atoi[TimeoutText(lookup)]
<1>1. /\ cfg.port = Atoi[Effective(in, "APP_PORT")] /\ cfg.port \in Int
      /\ cfg.dbPort = Atoi[Effective(in, "DB_PORT")] /\ cfg.dbPort \in Int
      /\ cfg.env = EnvText(lookup) /\ cfg.profile = ProfileText(lookup)
      /\ cfg.profile \in FaultProfiles
      /\ cfg.timeout = Times(t, Millisecond) /\ t \in Int
  BY ParsedSettings
<1>2. cfg.timeout \in Int /\ cfg.timeout <= MaxInt /\ MaxInt \in Nat
  <2>1. Millisecond \in Int /\ MaxInt \in Nat
    BY ConfigurationAssumption
  <2> QED BY <1>1, <2>1, TimesIsWord
<1>3. \A k \in Keys : \A d : OptionalText(lookup[k], d) =
        IF Effective(in, k) = Blank THEN d ELSE Effective(in, k)
  BY DefaultsAreEffective
<1>4. error =
        IF cfg.port <= 0 THEN "APP_PORT"
        ELSE IF ~IsSupportedAppEnv(cfg.env) THEN "APP_ENV"
        ELSE IF cfg.dbPort <= 0 THEN "DB_PORT"
        ELSE IF cfg.env = "production" /\ cfg.profile # "none"
             THEN "ATLAS_FAULT_PROFILE"
        ELSE IF cfg.timeout <= 0 THEN "PAYMENT_GATEWAY_TIMEOUT_MS"
        ELSE "nil"
  BY ValidateInOrder
<1> HIDE DEF lookup, cfg, error
<1>5. error = "nil" =>
        /\ cfg.port > 0 /\ cfg.dbPort > 0
        /\ IsSupportedAppEnv(cfg.env)
        /\ cfg.env = "production" => cfg.profile = "none"
        /\ cfg.timeout \in 1..MaxInt
  BY <1>1, <1>2, <1>4
<1>6. error # "nil" =>
        \/ error = "APP_PORT" /\ cfg.port <= 0
        \/ error = "APP_ENV" /\ ~IsSupportedAppEnv(cfg.env)
        \/ error = "DB_PORT" /\ cfg.dbPort <= 0
        \/ /\ error = "ATLAS_FAULT_PROFILE"
           /\ cfg.env = "production" /\ cfg.profile # "none"
        \/ error = "PAYMENT_GATEWAY_TIMEOUT_MS" /\ cfg.timeout <= 0
  BY <1>4
<1>7. ASSUME error = "APP_PORT" /\ cfg.port <= 0
      PROVE  Justified(in, error)
  BY <1>1, <1>7 DEF Justified
<1>8. ASSUME error = "DB_PORT" /\ cfg.dbPort <= 0
      PROVE  Justified(in, error)
  BY <1>1, <1>8 DEF Justified
<1>9. ASSUME error = "APP_ENV" /\ ~IsSupportedAppEnv(cfg.env)
      PROVE  Justified(in, error)
  <2>1. IsSupportedAppEnv("local")
    BY DEF IsSupportedAppEnv, ToLower
  <2>2. LET v == Effective(in, "APP_ENV") IN v # Blank /\ ~IsSupportedAppEnv(v)
    BY <1>1, <1>3, <1>9, <2>1 DEF EnvText, Keys
  <2> QED BY <1>9, <2>2 DEF Justified
<1>10. ASSUME error = "ATLAS_FAULT_PROFILE",
              cfg.env = "production", cfg.profile # "none"
       PROVE  Justified(in, error)
  <2>1. LET v == Effective(in, "ATLAS_FAULT_PROFILE") IN v \notin {Blank, "none"}
    BY <1>1, <1>3, <1>10 DEF ProfileText, Keys
  <2>2. Effective(in, "APP_ENV") = "production"
    BY <1>1, <1>3, <1>10 DEF EnvText, Keys
  <2>3. ToLower("production") = "production"
    BY DEF ToLower
  <2> QED BY <1>10, <2>1, <2>2, <2>3 DEF Justified
<1>11. ASSUME error = "PAYMENT_GATEWAY_TIMEOUT_MS" /\ cfg.timeout <= 0
      PROVE  Justified(in, error)
  <2> DEFINE v == Effective(in, "PAYMENT_GATEWAY_TIMEOUT_MS")
  <2>1. TimeoutText(lookup) = IF v = Blank THEN DefaultTimeoutText ELSE v
    BY <1>3 DEF TimeoutText, Keys
  <2>2. v # Blank
    <3>1. SUFFICES ASSUME v = Blank PROVE FALSE
      OBVIOUS
    <3>2. cfg.timeout > 0
      BY <1>1, <2>1, <3>1, DefaultTimeout
    <3> QED BY <1>2, <1>11, <3>2
  <2>3. t = Atoi[v]
    BY <2>1, <2>2
  <2>4. t <= 0 \/ t * Millisecond > MaxInt
    <3>1. Millisecond \in Nat \ {0} /\ Millisecond \in Int
      BY ConfigurationAssumption
    <3>2. SUFFICES ASSUME t > 0, ~(t * Millisecond > MaxInt) PROVE FALSE
      BY <1>1
    <3> HIDE DEF t
    <3>3. t * Millisecond > 0 /\ t * Millisecond \in Int
      <4>1. ASSUME NEW a \in Int, NEW b \in Nat \ {0}, a > 0 PROVE a * b > 0
        BY <4>1
      <4> QED BY <1>1, <3>1, <3>2, <4>1
    <3>4. t * Millisecond \in 1..MaxInt
      BY <1>2, <3>2, <3>3
    <3>5. cfg.timeout = t * Millisecond
      BY <1>1, <3>1, <3>4, TimesIsWord, Zenon
    <3> QED BY <1>2, <1>11, <3>3, <3>5
  <2> HIDE DEF v, t
  <2>5. v # Blank /\ (Atoi[v] <= 0 \/ Atoi[v] * Millisecond > MaxInt)
    BY <2>2, <2>3, <2>4
  <2> QED BY <1>11, <2>5 DEF Justified, v
<1> QED BY <1>5, <1>6, <1>7, <1>8, <1>9, <1>10, <1>11 DEF lookup, cfg, error

-----------------------------------------------------------------------------
(* The invariant                                                            *)

\* What Load makes of the layers.
LoadResult(in) ==
  CASE in.unreadable = "base" -> Refused(".env")
    [] in.unreadable = "overlay" /\ HasOverlay(in) -> Refused(".env.<APP_ENV>")
    [] OTHER -> LoadFromEnv(NewEnvLookup(in), AppEnv(in))

LoadInv == input \in Inputs /\ result \in {Pending, LoadResult(input)}

\* Load returns what it makes of its layers, or has not returned.
THEOREM LoadInvariant == Spec => []LoadInv
<1>1. Init => LoadInv
  BY DEF Init, LoadInv, Inputs
<1>2. LoadInv /\ [Next]_vars => LoadInv'
  <2> SUFFICES ASSUME LoadInv, [Next]_vars PROVE LoadInv'
    OBVIOUS
  <2>1. CASE Load
    <3>1. input' = input /\ result' = LoadResult(input)
      BY <2>1 DEF Load, LoadResult
    <3> QED BY <3>1 DEF LoadInv
  <2>2. CASE Loaded \/ UNCHANGED vars
    BY <2>2 DEF LoadInv, Loaded, vars
  <2> QED BY <2>1, <2>2 DEF Next
<1> QED BY <1>1, <1>2, PTL DEF Spec

\* The three ways a call of Load ends, and the one it has not.
LEMMA LoadOutcomes ==
  ASSUME LoadInv
  PROVE  LET lookup == NewEnvLookup(input) IN
         \/ result.error = "pending"
         \/ result.error \in {".env", ".env.<APP_ENV>"}
            /\ input.unreadable # "none"
         \/ /\ ParseError(lookup) # "nil" /\ result.error = ParseError(lookup)
         \/ /\ ParseError(lookup) = "nil" /\ Validate(AppConfig(lookup)) # "nil"
            /\ result.error = Validate(AppConfig(lookup))
         \/ /\ ParseError(lookup) = "nil" /\ Validate(AppConfig(lookup)) = "nil"
            /\ result.error = "nil" /\ result.cfg = AppConfig(lookup)
            /\ result.overlay = AppEnv(input)
<1>1. \A error : Refused(error).error = error
  BY DEF Refused
<1>2. CASE result = Pending
  BY <1>1, <1>2 DEF Pending
<1>3. CASE result = LoadResult(input)
  <2> DEFINE lookup == NewEnvLookup(input)
  <2>1. CASE input.unreadable = "base"
    BY <1>1, <1>3, <2>1 DEF LoadResult
  <2>2. CASE input.unreadable = "overlay" /\ HasOverlay(input)
    BY <1>1, <1>3, <2>2 DEF LoadResult
  <2>3. CASE /\ input.unreadable # "base"
             /\ ~(input.unreadable = "overlay" /\ HasOverlay(input))
    <3>1. result = LoadFromEnv(lookup, AppEnv(input))
      BY <1>3, <2>3 DEF LoadResult
    <3> HIDE DEF lookup
    <3>2. CASE ParseError(lookup) # "nil"
      BY <1>1, <3>1, <3>2 DEF LoadFromEnv, lookup
    <3>3. CASE ParseError(lookup) = "nil" /\ Validate(AppConfig(lookup)) # "nil"
      BY <1>1, <3>1, <3>3 DEF LoadFromEnv, lookup
    <3>4. CASE ParseError(lookup) = "nil" /\ Validate(AppConfig(lookup)) = "nil"
      <4>1. result = [error |-> "nil", overlay |-> AppEnv(input),
                      cfg |-> AppConfig(lookup)]
        BY <3>1, <3>4 DEF LoadFromEnv
      <4> QED BY <3>4, <4>1 DEF lookup
    <3> QED BY <3>2, <3>3, <3>4
  <2> QED BY <2>1, <2>2, <2>3
<1> QED BY <1>2, <1>3 DEF LoadInv

\* No validated error is the success value.
LEMMA AcceptedSettings ==
  ASSUME LoadInv, Accepted
  PROVE  LET lookup == NewEnvLookup(input) IN
         /\ input \in Inputs
         /\ ParseError(lookup) = "nil" /\ Validate(AppConfig(lookup)) = "nil"
         /\ result.cfg = AppConfig(lookup) /\ result.overlay = AppEnv(input)
BY LoadOutcomes DEF Accepted, LoadInv

-----------------------------------------------------------------------------
(* The properties                                                           *)

\* However the layers overlap, every accepted setting comes from the strongest
\* layer that defines its key: the merge of the files and the lookup that asks
\* the process first compute exactly that.  The overlay is the environment's own,
\* unless the process sets APP_ENV to a blank text or the overlay renames it.
THEOREM StrongestLayerWinsHolds == Spec => []StrongestLayerWins
<1>1. LoadInv => StrongestLayerWins
  <2> SUFFICES ASSUME LoadInv, Accepted PROVE StrongestLayerWins
    BY DEF StrongestLayerWins
  <2> DEFINE lookup == NewEnvLookup(input)
  <2>1. input \in Inputs /\ ParseError(lookup) = "nil"
        /\ result.cfg = AppConfig(lookup) /\ result.overlay = AppEnv(input)
    BY AcceptedSettings
  <2>2. /\ result.cfg.port = Atoi[Effective(input, "APP_PORT")]
        /\ result.cfg.dbPort = Atoi[Effective(input, "DB_PORT")]
        /\ result.cfg.host = Effective(input, "DB_HOST")
        /\ result.cfg.env = EnvText(lookup)
        /\ result.cfg.profile = ProfileText(lookup)
        /\ result.cfg.timeout = Times(Atoi[TimeoutText(lookup)], Millisecond)
    BY <2>1, ParsedSettings
  <2>3. /\ EnvText(lookup) = Given("APP_ENV", "local")
        /\ ProfileText(lookup) = Given("ATLAS_FAULT_PROFILE", "none")
        /\ TimeoutText(lookup) =
             Given("PAYMENT_GATEWAY_TIMEOUT_MS", DefaultTimeoutText)
    BY <2>1, DefaultsAreEffective
       DEF EnvText, ProfileText, TimeoutText, Given, Keys
  <2>4. ASSUME input.process["APP_ENV"] # Blank,
               input.process["APP_ENV"] # Unset
                 \/ ChosenOverlay(input)["APP_ENV"] = Unset
        PROVE  result.overlay = result.cfg.env
    <3> DEFINE own == input.process["APP_ENV"]
               file == input.base["APP_ENV"]
    <3>1. lookup["APP_ENV"] = IF own # Unset THEN own ELSE file
      BY <2>1, <2>4, OverlayIsChosen DEF NewEnvLookup, MergeEnvValues, Keys
    <3>2. AppEnv(input) = IF own \notin {Unset, Blank} THEN own
                          ELSE IF file \notin {Unset, Blank} THEN file ELSE "local"
      BY DEF AppEnv, FirstNonBlank, Unset, Blank
    <3> HIDE DEF lookup, own, file
    <3>3. own # Blank
      BY <2>4 DEF own
    <3>4. EnvText(lookup) = AppEnv(input)
      BY <3>1, <3>2, <3>3 DEF EnvText, OptionalText, IsMissing
    <3> QED BY <2>1, <2>2, <3>4
  <2> HIDE DEF lookup
  <2> QED BY <2>2, <2>3, <2>4 DEF StrongestLayerWins
<1> QED BY <1>1, LoadInvariant, PTL

\* Whatever the layers say and wherever the multiplication overflows, the process
\* starts only with settings it can run with, its gateway timeout above all.
THEOREM AcceptedIsRunnableHolds == Spec => []AcceptedIsRunnable
<1>1. LoadInv => AcceptedIsRunnable
  <2> SUFFICES ASSUME LoadInv, Accepted PROVE AcceptedIsRunnable
    BY DEF AcceptedIsRunnable
  <2> DEFINE cfg == AppConfig(NewEnvLookup(input))
  <2>1. /\ input \in Inputs /\ ParseError(NewEnvLookup(input)) = "nil"
        /\ Validate(cfg) = "nil" /\ result.cfg = cfg
    BY AcceptedSettings
  <2>2. cfg.host # Blank /\ cfg.profile \in FaultProfiles
    BY <2>1, ParsedSettings
  <2>3. /\ cfg.port > 0 /\ cfg.dbPort > 0 /\ IsSupportedAppEnv(cfg.env)
        /\ cfg.env = "production" => cfg.profile = "none"
        /\ cfg.timeout \in 1..MaxInt
    BY <2>1, ValidateJustified
  <2> HIDE DEF cfg
  <2> QED BY <2>1, <2>2, <2>3 DEF AcceptedIsRunnable
<1> QED BY <1>1, LoadInvariant, PTL

\* Load never refuses a setting that is in order, nor names the wrong key: the
\* early returns blame a setting for its own effective value only, and a file
\* only when it cannot be read.
THEOREM RefusedForItsValueHolds == Spec => []RefusedForItsValue
<1>1. LoadInv => RefusedForItsValue
  <2> SUFFICES ASSUME LoadInv PROVE RefusedForItsValue
    OBVIOUS
  <2>1. /\ "pending" \notin Keys /\ "nil" \notin Keys
        /\ ".env" \notin Keys /\ ".env.<APP_ENV>" \notin Keys
    BY DEF Keys
  <2>2. result.error \in Keys => Justified(input, result.error)
    BY <2>1, LoadOutcomes, ParseErrorJustified, ValidateJustified DEF LoadInv
  <2>3. ASSUME result.error \in {".env", ".env.<APP_ENV>"}
        PROVE  input.unreadable # "none"
    <3>1. /\ ParseError(NewEnvLookup(input)) \in Keys \cup {"nil"}
          /\ Validate(AppConfig(NewEnvLookup(input))) \in Keys \cup {"nil"}
      BY ParseErrorInOrder, ValidateInOrder DEF Keys
    <3> QED BY <2>1, <2>3, <3>1, LoadOutcomes
  <2> QED BY <2>2, <2>3 DEF RefusedForItsValue
<1> QED BY <1>1, LoadInvariant, PTL
=============================================================================
