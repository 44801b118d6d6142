------------------------------ MODULE RateLimit ------------------------------
(***************************************************************************)
(* The rate limiter: token buckets per client (reasondb-core ratelimit/),  *)
(* their snapshots in the database and the server tasks that save and      *)
(* restore them (reasondb-server lib.rs and main.rs).                      *)
(*                                                                         *)
(* Time passes in ticks of a second.  The buckets use the monotonic clock, *)
(* `now`; the snapshots use the wall clock, `now + skew`, which may be set *)
(* to another time.  Tokens are counted in parts, Unit parts to a token,   *)
(* so that a fractional refill rate is a whole number of parts per tick.   *)
(* An entry's last_access and its bucket's last_update are the same time   *)
(* and share the field `last`.                                             *)
(***************************************************************************)
EXTENDS Integers

CONSTANTS
  Clients,    \* client identifiers: API keys and addresses
  Configs,    \* the configurations the server may be started with
  MaxBurst, MaxRate,  \* the largest burst and rate of these
  Unit,       \* parts of a token
  Hour,       \* ticks of an hour
  Skews,      \* settings of the wall clock relative to the monotonic one
  NoBucket,   \* absence of a bucket or of a row
  MaxNow,     \* bound on the time
  MaxStarts   \* bound on the number of server starts

Config == [rate : Nat, rph : Nat, burst : Nat, enabled : BOOLEAN]

Bucket == [tokens : Nat, max : Nat, rate : Nat, hourly : Nat, last : Int, hour : Int]

Row == [tokens : Nat, max : Nat, rate : Nat, hourly : Nat, last : Int, hour : Int,
        charged : Nat]

ASSUME RateAssumption ==
  /\ Configs \subseteq Config
  /\ MaxBurst \in Nat /\ MaxRate \in Nat
  /\ \A cfg \in Configs : cfg.burst <= MaxBurst /\ cfg.rate <= MaxRate
  /\ Unit \in Nat \ {0} /\ Hour \in Nat \ {0}
  /\ Skews \subseteq Int
  /\ NoBucket \notin Bucket \cup Row
  /\ MaxNow \in Nat /\ MaxStarts \in Nat

VARIABLES
  now, skew,  \* the monotonic clock, and the wall clock relative to it
  config,     \* the configuration of the running (or last) server
  buckets,    \* per client: its entry in the store of the limiter
  rows,       \* per client: its row in RATE_LIMITS_TABLE
  task,       \* the place of the snapshot task in its loop, "down" without a server
  pending,    \* per client: the snapshot the task has exported
  starts,     \* number of server starts
  \* History of the requests, read by no action:
  granted,    \* per client: requests allowed so far
  charged,    \* per client: of these, the ones in this server's memory
  promised,   \* per client: the time from which a denied client was told to be served
  steady      \* no clock was set, and every start had the same configuration

history == <<granted, charged, promised>>
vars == <<now, skew, config, buckets, rows, task, pending, starts, history, steady>>

Lesser(a, b)  == IF a <= b THEN a ELSE b
Greater(a, b) == IF a >= b THEN a ELSE b

\* a / b rounded up
Ceiling(a, b) == (a + b - 1) \div b
-----------------------------------------------------------------------------
(* TokenBucket and RateLimiter *)

\* A full bucket of a client that has no entry.
CreateBucket ==
  [tokens |-> config.burst * Unit, max |-> config.burst * Unit, rate |-> config.rate,
   hourly |-> 0, last |-> now, hour |-> now]

\* A bug: the time of the refill is not noted.
RefillAgain(b) ==
  LET over == now - b.hour >= Hour
  IN  [tokens |-> Lesser(b.max, b.tokens + b.rate * (now - b.last)),
       max |-> b.max, rate |-> b.rate, last |-> b.last,
       hourly |-> IF over THEN 0 ELSE b.hourly, hour |-> IF over THEN now ELSE b.hour]

\* Tokens for the elapsed time, up to the capacity, and a new hour if it has passed.
Refill(b) ==
  LET over == now - b.hour >= Hour
  IN  [tokens |-> Lesser(b.max, b.tokens + b.rate * (now - b.last)),
       max |-> b.max, rate |-> b.rate, last |-> now,
       hourly |-> IF over THEN 0 ELSE b.hourly, hour |-> IF over THEN now ELSE b.hour]

HourlySpent(b) == config.rph > 0 /\ b.hourly >= config.rph

\* try_consume on a refilled bucket
MayConsume(b) == ~HourlySpent(b) /\ b.tokens >= Unit

Consume(b) ==
  [tokens |-> b.tokens - Unit, max |-> b.max, rate |-> b.rate, last |-> b.last,
   hourly |-> b.hourly + 1, hour |-> b.hour]

SecondsUntilToken(b) == IF b.tokens >= Unit THEN 0 ELSE Ceiling(Unit - b.tokens, b.rate)

SecondsUntilHourReset(b) == Greater(0, Hour - (now - b.hour))

\* A bug: the hourly limit is not announced.
RetryAfterToken(b) == Greater(1, SecondsUntilToken(b))

\* The seconds announced to a denied client.
RetryAfter(b) ==
  Greater(1, IF HourlySpent(b) THEN SecondsUntilHourReset(b) ELSE SecondsUntilToken(b))
-----------------------------------------------------------------------------
(* RateLimitStore *)

\* The entry that check works on: the client's, or a new one.
EntryOf(c) == IF buckets[c] = NoBucket THEN CreateBucket ELSE buckets[c]

Serving == task /= "down" /\ config.enabled

\* check allows a request: the lock of the store is held throughout.
Allow(c) ==
  LET b == Refill(EntryOf(c)) IN
  /\ Serving
  /\ MayConsume(b)
  /\ buckets' = [buckets EXCEPT ![c] = Consume(b)]
  /\ granted' = [granted EXCEPT ![c] = @ + 1]
  /\ charged' = [charged EXCEPT ![c] = @ + 1]
  /\ promised' = [promised EXCEPT ![c] = MaxNow + 1]
  /\ UNCHANGED <<now, skew, config, rows, task, pending, starts, steady>>

\* check denies a request and says when to come back.  A client that waits for
\* the announced time and for the next token has the promise of being served.
Deny(c) ==
  LET b == Refill(EntryOf(c)) IN
  /\ Serving
  /\ ~MayConsume(b)
  /\ buckets' = [buckets EXCEPT ![c] = b]
  /\ promised' = [promised EXCEPT ![c] =
       IF b.rate = 0 THEN @
       ELSE Lesser(@, now + Greater(RetryAfter(b), SecondsUntilToken(b)))]
  /\ UNCHANGED <<now, skew, config, rows, task, pending, starts, granted, charged, steady>>

\* export_snapshots: the times go from the monotonic to the wall clock; the
\* capacity and the rate are those of the configuration.
SnapshotOf(b, n) ==
  [tokens |-> b.tokens, max |-> config.burst * Unit, rate |-> config.rate,
   hourly |-> b.hourly, last |-> b.last + skew, hour |-> b.hour + skew, charged |-> n]

\* The snapshot task wakes up and exports every entry.
Export ==
  /\ task = "wait"
  /\ pending' = [c \in Clients |-> IF buckets[c] = NoBucket THEN NoBucket
                                   ELSE SnapshotOf(buckets[c], charged[c])]
  /\ task' = IF \A c \in Clients : buckets[c] = NoBucket THEN "cleanup" ELSE "save"
  /\ UNCHANGED <<now, skew, config, buckets, rows, starts, history, steady>>

\* save_rate_limits: one transaction for all exported entries.
Save ==
  /\ task = "save"
  /\ rows' = [c \in Clients |-> IF pending[c] = NoBucket THEN rows[c] ELSE pending[c]]
  /\ pending' = [c \in Clients |-> NoBucket]
  /\ task' = "cleanup"
  /\ UNCHANGED <<now, skew, config, buckets, starts, history, steady>>

\* The transaction fails, which is logged.
SaveFails ==
  /\ task = "save"
  /\ pending' = [c \in Clients |-> NoBucket]
  /\ task' = "cleanup"
  /\ UNCHANGED <<now, skew, config, buckets, rows, starts, history, steady>>

\* A bug: dropping entries that are idle for less than an hour.
ExpiredEarly(b) == now - b.last >= Hour - 1

Expired(b) == now - b.last >= Hour

\* cleanup drops the entries that were idle for an hour.
Cleanup ==
  /\ task = "cleanup"
  /\ buckets' = [c \in Clients |->
       IF buckets[c] /= NoBucket /\ Expired(buckets[c]) THEN NoBucket ELSE buckets[c]]
  /\ task' = "wait"
  /\ UNCHANGED <<now, skew, config, rows, pending, starts, history, steady>>
-----------------------------------------------------------------------------
(* Stop, start and the clocks *)

\* The server stops at any point; the buckets and an exported list are gone.
Stop ==
  /\ task /= "down"
  /\ task' = "down"
  /\ buckets' = [c \in Clients |-> NoBucket]
  /\ pending' = [c \in Clients |-> NoBucket]
  /\ UNCHANGED <<now, skew, config, rows, starts, history, steady>>

\* Seconds since a wall clock time, zero for one in the future.
Since(epoch) == Greater(0, now + skew - epoch)

\* A bug: the bucket is restored full.
ImportRowFull(r) ==
  IF Since(r.last) > Hour
  THEN NoBucket
  ELSE [tokens |-> r.max, max |-> r.max, rate |-> r.rate, hourly |-> r.hourly,
        last |-> now - Since(r.last), hour |-> now - Since(r.hour)]

\* import_snapshots for one row; a row that is older than an hour is skipped.
ImportRow(r) ==
  IF Since(r.last) > Hour
  THEN NoBucket
  ELSE [tokens |-> r.tokens, max |-> r.max, rate |-> r.rate, hourly |-> r.hourly,
        last |-> now - Since(r.last), hour |-> now - Since(r.hour)]

\* What both outcomes of a start have in common.
StartWith(cfg) ==
  /\ task = "down" /\ starts < MaxStarts
  /\ config' = cfg
  /\ task' = "wait"
  /\ starts' = starts + 1
  /\ steady' = (steady /\ (starts = 0 \/ cfg = config))
  /\ promised' = [c \in Clients |-> MaxNow + 1]
  /\ UNCHANGED <<now, skew, rows, pending, granted>>

\* The server starts and restores the rows before it serves.
Start(cfg) ==
  /\ StartWith(cfg)
  /\ buckets' = [c \in Clients |-> IF rows[c] = NoBucket THEN NoBucket ELSE ImportRow(rows[c])]
  /\ charged' = [c \in Clients |-> IF rows[c] = NoBucket THEN 0 ELSE rows[c].charged]

\* The rows cannot be loaded, which is ignored.
StartLoadFails(cfg) ==
  /\ StartWith(cfg)
  /\ buckets' = [c \in Clients |-> NoBucket]
  /\ charged' = [c \in Clients |-> 0]

Tick ==
  /\ now < MaxNow
  /\ now' = now + 1
  /\ UNCHANGED <<skew, config, buckets, rows, task, pending, starts, history, steady>>

SetClock(s) ==
  /\ s /= skew
  /\ skew' = s
  /\ steady' = FALSE
  /\ UNCHANGED <<now, config, buckets, rows, task, pending, starts, history>>

Init ==
  /\ now = 0 /\ skew = 0 /\ config \in Configs
  /\ buckets = [c \in Clients |-> NoBucket]
  /\ rows = [c \in Clients |-> NoBucket]
  /\ pending = [c \in Clients |-> NoBucket]
  /\ task = "down" /\ starts = 0
  /\ granted = [c \in Clients |-> 0]
  /\ charged = [c \in Clients |-> 0]
  /\ promised = [c \in Clients |-> MaxNow + 1]
  /\ steady = TRUE

Next ==
  \/ \E c \in Clients : Allow(c) \/ Deny(c)
  \/ Export \/ Save \/ SaveFails \/ Cleanup
  \/ Stop
  \/ \E cfg \in Configs : Start(cfg) \/ StartLoadFails(cfg)
  \/ Tick
  \/ \E s \in Skews : SetClock(s)

Spec == Init /\ [][Next]_vars
-----------------------------------------------------------------------------
(* Properties *)

\* Every variable has its type; a bucket is never fuller than the largest
\* capacity that a configuration gives (TokenBucket::refill).
TypeOK ==
  /\ now \in 0..MaxNow /\ skew \in Skews \cup {0} /\ config \in Configs
  /\ buckets \in [Clients -> Bucket \cup {NoBucket}]
  /\ \A c \in Clients : buckets[c] /= NoBucket => buckets[c].tokens <= MaxBurst * Unit
  /\ rows \in [Clients -> Row \cup {NoBucket}]
  /\ pending \in [Clients -> Row \cup {NoBucket}]
  /\ task \in {"down", "wait", "save", "cleanup"}
  /\ starts \in 0..MaxStarts
  /\ granted \in [Clients -> Nat] /\ charged \in [Clients -> Nat]
  /\ promised \in [Clients -> Int]
  /\ steady \in BOOLEAN

\* A configuration whose bucket fills within the idle time after which the
\* entry is dropped.
FillsInAnHour(cfg) == cfg.rate * Hour >= cfg.burst * Unit

\* The requests that the server has on record for a client stay within the
\* burst and the refill of all time that has passed, whatever snapshots,
\* cleanups, crashes and failing writes happen in between.
TokenQuota ==
  steady /\ FillsInAnHour(config) =>
    \A c \in Clients : charged[c] * Unit <= config.burst * Unit + config.rate * now

\* They stay within the hourly limit for every hour that has begun: neither a
\* cleanup nor a restart opens a new hour early.
HourlyQuota ==
  steady /\ config.rph > 0 =>
    \A c \in Clients : charged[c] * Hour <= config.rph * (now + Hour)

\* A start gives a client one more burst at the most, also when the clock was
\* set, the configuration was changed or the rows were lost.
StartQuota ==
  (\A cfg \in Configs : FillsInAnHour(cfg)) =>
    \A c \in Clients : granted[c] * Unit <= starts * MaxBurst * Unit + MaxRate * now

\* A denied client that waits for the announced time and for one token is served.
RetryIsServed ==
  \A c \in Clients : Serving /\ now >= promised[c] => MayConsume(Refill(EntryOf(c)))
=============================================================================
