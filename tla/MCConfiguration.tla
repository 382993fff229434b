-------------------------- MODULE MCConfiguration --------------------------
(* Layers for TLC.  A word of 16 bits and 1000 units per millisecond stand   *)
(* for the 64 bits and 10^6 nanoseconds of time.Duration: "33" overflows to  *)
(* a negative duration, "66" to a short positive one.                        *)
EXTENDS Configuration

MCAtoi ==
  [t \in {Unset, Blank, "8080", "0", "5", "33", "66", "2000", "x"} |->
     CASE t = "8080" -> 8080
       [] t = "0" -> 0
       [] t = "5" -> 5
       [] t = "33" -> 33
       [] t = "66" -> 66
       [] t = "2000" -> 20          \* scaled, the product fits
       [] OTHER -> NotAnInteger]

Layer(env, port, dbPort, host, timeout, profile) ==
  [k \in Keys |->
     CASE k = "APP_ENV" -> env
       [] k = "APP_PORT" -> port
       [] k = "DB_PORT" -> dbPort
       [] k = "DB_HOST" -> host
       [] k = "PAYMENT_GATEWAY_TIMEOUT_MS" -> timeout
       [] OTHER -> profile]

MCProcess ==
  {Layer(e, p, Unset, Unset, t, f) :
     e \in {Unset, Blank, "test", "production", "Production", "qa"},
     p \in {Unset, Blank, "0"}, t \in {Unset, "x", "33", "66"},
     f \in {Unset, "payment_timeout", "lost"}}

MCOverlay ==
  {Layer(e, Unset, Unset, h, "5", f) :
     e \in {Unset, "production"}, h \in {Unset, Blank}, f \in {Unset, "none"}}

MCBase ==
  {Layer(e, "8080", p, h, Unset, Unset) :
     e \in {Unset, Blank, "test"}, p \in {"5", "0"}, h \in {Unset, "db"}}

MCNames == {"local", "test", "Production"}
=============================================================================
