--------------------------- MODULE RateLimitProofs ---------------------------
(***************************************************************************)
(* Proofs about RateLimit: its types, the two quotas of a client, what a   *)
(* start gives away, and the times that denied clients are told.           *)
(***************************************************************************)
EXTENDS RateLimit, TLAPS

\* A bucket or row holds, and can hold, at most the largest burst.
Capped(x) == x.tokens <= MaxBurst * Unit /\ x.max <= MaxBurst * Unit

\* The types, with what an action needs to keep them: times of buckets are past
\* and all buckets, also the stored ones, are within the largest burst.
Typed ==
  /\ TypeOK
  /\ \A c \in Clients : buckets[c] /= NoBucket =>
       Capped(buckets[c]) /\ buckets[c].last <= now /\ buckets[c].hour <= now
  /\ \A c \in Clients : rows[c] /= NoBucket => Capped(rows[c])
  /\ \A c \in Clients : pending[c] /= NoBucket => Capped(pending[c])
-----------------------------------------------------------------------------
(* Arithmetic *)

\* A factor can be applied to both sides of an inequality.
LEMMA MulMono == ASSUME NEW k \in Nat, NEW a \in Int, NEW b \in Int, a <= b PROVE k * a <= k * b
  OBVIOUS

\* A product of natural numbers is one.
LEMMA MulNat == ASSUME NEW a \in Nat, NEW b \in Nat PROVE a * b \in Nat
  OBVIOUS

\* A product distributes over a difference.
LEMMA MulDiff == ASSUME NEW k \in Int, NEW a \in Int, NEW b \in Int
                 PROVE k * (a - b) = k * a - k * b
  OBVIOUS

\* A product distributes over a sum.
LEMMA MulSum == ASSUME NEW k \in Int, NEW a \in Int, NEW b \in Int
                PROVE k * (a + b) = k * a + k * b /\ (a + b) * k = a * k + b * k
  OBVIOUS
-----------------------------------------------------------------------------
(* Types *)

\* The configuration in force is within the largest burst and rate.
LEMMA ConfigInRange ==
  ASSUME NEW cfg \in Configs
  PROVE  /\ cfg.rate \in Nat /\ cfg.rph \in Nat /\ cfg.burst \in Nat /\ cfg.enabled \in BOOLEAN
         /\ cfg.burst * Unit \in Nat /\ cfg.burst * Unit <= MaxBurst * Unit
         /\ MaxBurst * Unit \in Nat
<1>1. cfg \in Config /\ cfg.burst <= MaxBurst /\ Unit \in Nat /\ MaxBurst \in Nat
  BY RateAssumption
<1>2. cfg.burst \in Nat /\ cfg.rate \in Nat /\ cfg.rph \in Nat /\ cfg.enabled \in BOOLEAN
  BY <1>1 DEF Config
<1>3. Unit * cfg.burst <= Unit * MaxBurst
  BY <1>1, <1>2, MulMono
<1>4. Unit * cfg.burst = cfg.burst * Unit /\ Unit * MaxBurst = MaxBurst * Unit
  BY <1>1, <1>2
<1>5. cfg.burst * Unit \in Nat /\ MaxBurst * Unit \in Nat
  BY <1>1, <1>2, MulNat
<1> QED  BY <1>2, <1>3, <1>4, <1>5

\* A refilled bucket is a bucket of the present within the largest burst.
LEMMA RefillTyped ==
  ASSUME NEW b \in Bucket, now \in Nat, b.last <= now, b.hour <= now, Capped(b)
  PROVE  /\ Refill(b) \in Bucket /\ Capped(Refill(b))
         /\ Refill(b).last = now /\ Refill(b).hour <= now /\ Refill(b).hour \in Int
<1>1. b.tokens \in Nat /\ b.rate \in Nat /\ b.max \in Nat /\ b.hourly \in Nat
      /\ b.last \in Int /\ b.hour \in Int
  BY DEF Bucket
<1>2. now - b.last \in Nat
  BY <1>1
<1>3. b.rate * (now - b.last) \in Nat
  BY <1>1, <1>2, MulNat
<1> DEFINE t == Lesser(b.max, b.tokens + b.rate * (now - b.last))
           over == now - b.hour >= Hour
           h == IF over THEN 0 ELSE b.hourly
           s == IF over THEN now ELSE b.hour
<1>4. t \in Nat /\ t <= b.max
  BY <1>1, <1>3 DEF Lesser
<1>5. h \in Nat /\ s \in Int /\ s <= now
  BY <1>1
<1>6. Refill(b) = [tokens |-> t, max |-> b.max, rate |-> b.rate, last |-> now,
                   hourly |-> h, hour |-> s]
  BY DEF Refill
<1> HIDE DEF t, h, s
<1>7. b.max <= MaxBurst * Unit /\ MaxBurst * Unit \in Int
  BY RateAssumption DEF Capped
<1> QED  BY <1>1, <1>4, <1>5, <1>6, <1>7 DEF Bucket, Capped

\* So is the bucket of a new client.
LEMMA CreateTyped ==
  ASSUME config \in Configs, now \in Nat
  PROVE  CreateBucket \in Bucket /\ Capped(CreateBucket)
         /\ CreateBucket.last = now /\ CreateBucket.hour = now
BY ConfigInRange DEF CreateBucket, Bucket, Capped

\* So is the entry that check works on.
LEMMA EntryTyped ==
  ASSUME Typed, NEW c \in Clients
  PROVE  /\ Refill(EntryOf(c)) \in Bucket /\ Capped(Refill(EntryOf(c)))
         /\ Refill(EntryOf(c)).last = now /\ Refill(EntryOf(c)).hour <= now
<1>1. now \in Nat /\ config \in Configs
  BY RateAssumption DEF Typed, TypeOK
<1>2. /\ EntryOf(c) \in Bucket /\ Capped(EntryOf(c))
      /\ EntryOf(c).last <= now /\ EntryOf(c).hour <= now
  <2>1. CASE buckets[c] = NoBucket
    BY <1>1, <2>1, CreateTyped DEF EntryOf
  <2>2. CASE buckets[c] /= NoBucket
    BY <2>2 DEF EntryOf, Typed, TypeOK
  <2> QED  BY <2>1, <2>2
<1> QED  BY <1>1, <1>2, RefillTyped

\* A snapshot of a bucket is a row within the largest burst.
LEMMA SnapshotTyped ==
  ASSUME config \in Configs, skew \in Int, NEW b \in Bucket, Capped(b), NEW n \in Nat
  PROVE  SnapshotOf(b, n) \in Row /\ Capped(SnapshotOf(b, n))
BY ConfigInRange DEF SnapshotOf, Bucket, Row, Capped

\* A row is restored to a bucket of the present, or not at all.
LEMMA ImportTyped ==
  ASSUME now \in Nat, skew \in Int, NEW r \in Row, Capped(r), ImportRow(r) /= NoBucket
  PROVE  /\ ImportRow(r) \in Bucket /\ Capped(ImportRow(r))
         /\ ImportRow(r).last <= now /\ ImportRow(r).hour <= now
<1>1. /\ r.last \in Int /\ r.hour \in Int /\ r.tokens \in Nat /\ r.max \in Nat
      /\ r.rate \in Nat /\ r.hourly \in Nat
  BY DEF Row
<1>2. \A e \in Int : Since(e) \in Nat
  BY DEF Since, Greater
<1>3. Since(r.last) \in Nat /\ Since(r.hour) \in Nat
  BY <1>1, <1>2
<1>4. ImportRow(r) =
        [tokens |-> r.tokens, max |-> r.max, rate |-> r.rate, hourly |-> r.hourly,
         last |-> now - Since(r.last), hour |-> now - Since(r.hour)]
  BY DEF ImportRow
<1> QED  BY <1>1, <1>3, <1>4 DEF Bucket, Capped

\* Every action keeps the types.
LEMMA TypedStep == Typed /\ [Next]_vars => Typed'
<1> SUFFICES ASSUME Typed, [Next]_vars PROVE Typed'
  OBVIOUS
<1>t. /\ now \in Nat /\ now \in 0..MaxNow /\ skew \in Int /\ config \in Configs
      /\ MaxNow \in Nat /\ MaxStarts \in Nat /\ Unit \in Nat /\ starts \in Nat
      /\ NoBucket \notin Bucket /\ NoBucket \notin Row
  BY RateAssumption DEF Typed, TypeOK
<1>1. ASSUME NEW c \in Clients, Allow(c) PROVE Typed'
  <2> DEFINE b == Refill(EntryOf(c))
  <2>1. b \in Bucket /\ Capped(b) /\ b.last = now /\ b.hour <= now
    BY EntryTyped
  <2>2. b.tokens >= Unit
    BY <1>1 DEF Allow, MayConsume
  <2> HIDE DEF b
  <2>3. MaxBurst * Unit \in Int
    BY <1>t, RateAssumption
  <2>4. /\ Consume(b) \in Bucket /\ Capped(Consume(b))
        /\ Consume(b).last <= now /\ Consume(b).hour <= now
    BY <1>t, <2>1, <2>2, <2>3 DEF Consume, Bucket, Capped
  <2>5. buckets' = [buckets EXCEPT ![c] = Consume(b)]
    BY <1>1 DEF Allow, b
  <2>6. /\ granted' \in [Clients -> Nat] /\ charged' \in [Clients -> Nat]
        /\ promised' \in [Clients -> Int]
    BY <1>1, <1>t DEF Allow, Typed, TypeOK
  <2>7. UNCHANGED <<now, skew, config, rows, task, pending, starts, steady>>
    BY <1>1 DEF Allow
  <2> QED  BY <2>4, <2>5, <2>6, <2>7 DEF Typed, TypeOK, Capped
<1>2. ASSUME NEW c \in Clients, Deny(c) PROVE Typed'
  <2> DEFINE b == Refill(EntryOf(c))
             w == Greater(RetryAfter(b), SecondsUntilToken(b))
  <2>1. b \in Bucket /\ Capped(b) /\ b.last <= now /\ b.hour <= now
    BY EntryTyped, <1>t
  <2> HIDE DEF b
  <2>2. b.rate /= 0 => w \in Int
    <3> SUFFICES ASSUME b.rate /= 0 PROVE w \in Int
      OBVIOUS
    <3>1. SecondsUntilToken(b) \in Int
      BY <1>t, <2>1 DEF SecondsUntilToken, Ceiling, Bucket
    <3>2. SecondsUntilHourReset(b) \in Int
      BY <1>t, <2>1, RateAssumption DEF SecondsUntilHourReset, Greater, Bucket
    <3> QED  BY <3>1, <3>2 DEF RetryAfter, Greater
  <2> HIDE DEF w
  <2>3. buckets' = [buckets EXCEPT ![c] = b]
    BY <1>2 DEF Deny, b
  <2>4. promised' = [promised EXCEPT ![c] = IF b.rate = 0 THEN @ ELSE Lesser(@, now + w)]
    BY <1>2 DEF Deny, b, w
  <2>5. promised' \in [Clients -> Int]
    BY <1>t, <2>2, <2>4 DEF Lesser, Typed, TypeOK
  <2>6. UNCHANGED <<now, skew, config, rows, task, pending, starts, granted, charged, steady>>
    BY <1>2 DEF Deny
  <2> QED  BY <2>1, <2>3, <2>5, <2>6 DEF Typed, TypeOK, Capped
<1>3. CASE Export
  <2>1. \A c \in Clients : pending'[c] /= NoBucket => pending'[c] \in Row /\ Capped(pending'[c])
    BY <1>3, <1>t, SnapshotTyped DEF Export, Typed, TypeOK
  <2>2. pending' \in [Clients -> Row \cup {NoBucket}]
    BY <1>3, <2>1 DEF Export
  <2>3. /\ task' \in {"save", "cleanup"}
        /\ UNCHANGED <<now, skew, config, buckets, rows, starts, history, steady>>
    BY <1>3 DEF Export
  <2> QED  BY <2>1, <2>2, <2>3 DEF Typed, TypeOK, Capped, history
<1>4. CASE Save
  BY <1>4 DEF Save, Typed, TypeOK, Capped, history
<1>5. CASE SaveFails
  BY <1>5 DEF SaveFails, Typed, TypeOK, Capped, history
<1>6. CASE Cleanup
  BY <1>6 DEF Cleanup, Typed, TypeOK, Capped, history
<1>7. CASE Stop
  BY <1>7 DEF Stop, Typed, TypeOK, Capped, history
<1>8. ASSUME NEW cfg \in Configs, Start(cfg) \/ StartLoadFails(cfg) PROVE Typed'
  <2>1. /\ \A c \in Clients : buckets'[c] /= NoBucket =>
              buckets'[c] \in Bucket /\ Capped(buckets'[c])
              /\ buckets'[c].last <= now /\ buckets'[c].hour <= now
        /\ buckets' \in [Clients -> Bucket \cup {NoBucket}]
        /\ charged' \in [Clients -> Nat]
    <3>1. CASE Start(cfg)
      <4>1. \A c \in Clients : rows[c] /= NoBucket => rows[c] \in Row /\ Capped(rows[c])
        BY DEF Typed, TypeOK
      <4>2. \A c \in Clients : buckets'[c] = IF rows[c] = NoBucket THEN NoBucket ELSE ImportRow(rows[c])
        BY <3>1 DEF Start
      <4>3. \A c \in Clients : buckets'[c] /= NoBucket =>
              buckets'[c] \in Bucket /\ Capped(buckets'[c])
              /\ buckets'[c].last <= now /\ buckets'[c].hour <= now
        BY <4>1, <4>2, <1>t, ImportTyped
      <4>4. buckets' \in [Clients -> Bucket \cup {NoBucket}]
        BY <3>1, <4>3 DEF Start
      <4>5. \A r \in Row : r.charged \in Nat
        BY DEF Row
      <4>6. charged' \in [Clients -> Nat]
        BY <3>1, <4>1, <4>5 DEF Start
      <4> QED  BY <4>3, <4>4, <4>6
    <3>2. CASE StartLoadFails(cfg)
      BY <3>2 DEF StartLoadFails
    <3> QED  BY <1>8, <3>1, <3>2
  <2>2. StartWith(cfg)
    BY <1>8 DEF Start, StartLoadFails
  <2>3. steady' \in BOOLEAN
    BY <2>2 DEF StartWith
  <2>4. /\ config' \in Configs /\ task' = "wait" /\ starts' \in 0..MaxStarts
        /\ promised' \in [Clients -> Int]
    BY <2>2, <1>t DEF StartWith
  <2>5. UNCHANGED <<now, skew, rows, pending, granted>>
    BY <2>2 DEF StartWith
  <2> QED  BY <2>1, <2>3, <2>4, <2>5 DEF Typed, TypeOK, Capped
<1>9. CASE Tick
  <2>1. now' \in 0..MaxNow /\ now' >= now /\ now' \in Nat
    BY <1>9, <1>t DEF Tick
  <2>2. UNCHANGED <<skew, config, buckets, rows, task, pending, starts, history, steady>>
    BY <1>9 DEF Tick
  <2>3. \A b \in Bucket : b.last \in Int /\ b.hour \in Int
    BY DEF Bucket
  <2>4. \A c \in Clients : buckets[c] /= NoBucket =>
           buckets[c].last <= now' /\ buckets[c].hour <= now'
    BY <2>1, <2>3, <1>t DEF Typed, TypeOK
  <2> QED  BY <2>1, <2>2, <2>4 DEF Typed, TypeOK, Capped, history
<1>10. ASSUME NEW s \in Skews, SetClock(s) PROVE Typed'
  BY <1>10 DEF SetClock, Typed, TypeOK, Capped, history
<1>11. CASE UNCHANGED vars
  BY <1>11 DEF vars, Typed, TypeOK, Capped, history
<1> QED
  BY <1>1, <1>2, <1>3, <1>4, <1>5, <1>6, <1>7, <1>8, <1>9, <1>10, <1>11 DEF Next

\* Initially everything has its type.
LEMMA TypedInit == Init => Typed
BY RateAssumption DEF Init, Typed, TypeOK

\* The types hold throughout.
LEMMA TypedAlways == Spec => []Typed
BY TypedInit, TypedStep, PTL DEF Spec

\* Type correctness of the limiter: no bucket exceeds the largest burst, for
\* every configuration, clock and sequence of starts.
THEOREM TypeCorrect == Spec => []TypeOK
<1>1. Typed => TypeOK
  BY DEF Typed
<1> QED  BY <1>1, TypedAlways, PTL
-----------------------------------------------------------------------------
(* Quotas *)

\* A bucket or row x accounts for n requests at time t: its missing tokens pay
\* for the requests that the refill until x.last has not paid, and its hourly
\* count covers those that earlier hours have not.
Booked(x, n, cfg, t) ==
  /\ x.max = cfg.burst * Unit /\ x.rate = cfg.rate
  /\ 0 <= x.hour /\ x.hour <= x.last /\ x.last <= t
  /\ FillsInAnHour(cfg) => n * Unit + x.tokens <= cfg.burst * Unit + cfg.rate * x.last
  /\ cfg.rph > 0 => x.hourly <= cfg.rph /\ n * Hour <= cfg.rph * x.hour + x.hourly * Hour

\* Time t alone pays for n requests, so that the client may have a new bucket.
Paid(n, cfg, t) ==
  /\ FillsInAnHour(cfg) => n * Unit <= cfg.rate * t
  /\ cfg.rph > 0 => n * Hour <= cfg.rph * t

\* Both quotas for n requests at time t.
InQuota(n, cfg, t) ==
  /\ FillsInAnHour(cfg) => n * Unit <= cfg.burst * Unit + cfg.rate * t
  /\ cfg.rph > 0 => n * Hour <= cfg.rph * (t + Hour)

\* The books of a steady server: every bucket, row and exported snapshot
\* accounts for its requests, and a client without a bucket has paid.
Books ==
  /\ starts = 0 => task = "down" /\ \A c \in Clients : rows[c] = NoBucket /\ charged[c] = 0
  /\ task = "down" => \A c \in Clients : buckets[c] = NoBucket /\ pending[c] = NoBucket
  /\ steady =>
       /\ skew = 0
       /\ \A c \in Clients :
            /\ buckets[c] /= NoBucket => Booked(buckets[c], charged[c], config, now)
            /\ rows[c] /= NoBucket => Booked(rows[c], rows[c].charged, config, now)
            /\ pending[c] /= NoBucket => Booked(pending[c], pending[c].charged, config, now)
            /\ task /= "down" /\ buckets[c] = NoBucket => Paid(charged[c], config, now)
            /\ InQuota(charged[c], config, now)

\* The fields of an account that the arithmetic below is about.
Account(x) ==
  /\ x.tokens \in Nat /\ x.hourly \in Nat /\ x.last \in Int /\ x.hour \in Int

\* The records of the limiter are accounts.
LEMMA Accounts == (\A b \in Bucket : Account(b)) /\ (\A r \in Row : Account(r) /\ r.charged \in Nat)
BY DEF Bucket, Row, Account

\* An account that was idle for an hour has been paid for: the bucket is full
\* again and the hour of its count is over.
LEMMA IdleIsPaid ==
  ASSUME NEW x, Account(x), NEW n \in Nat, NEW cfg \in Configs, NEW t \in Nat,
         Booked(x, n, cfg, t), t - x.last >= Hour
  PROVE  Paid(n, cfg, t)
<1>1. cfg.rate \in Nat /\ cfg.rph \in Nat /\ cfg.burst * Unit \in Nat
  BY ConfigInRange
<1>2. Unit \in Nat /\ Hour \in Nat /\ x.last \in Int /\ x.hour \in Int
      /\ x.tokens \in Nat /\ x.hourly \in Nat
  BY RateAssumption DEF Account
<1>3. ASSUME FillsInAnHour(cfg) PROVE n * Unit <= cfg.rate * t
  <2>1. n * Unit + x.tokens <= cfg.burst * Unit + cfg.rate * x.last
    BY <1>3 DEF Booked
  <2>2. cfg.rate * Hour <= cfg.rate * (t - x.last)
    BY <1>1, <1>2, MulMono
  <2>3. cfg.rate * (t - x.last) = cfg.rate * t - cfg.rate * x.last
    BY <1>1, <1>2, MulDiff
  <2>4. cfg.burst * Unit <= cfg.rate * Hour
    BY <1>3, <1>1, <1>2 DEF FillsInAnHour
  <2>5. /\ n * Unit \in Int /\ cfg.rate * t \in Int /\ cfg.rate * x.last \in Int
        /\ cfg.rate * Hour \in Int
    BY <1>1, <1>2
  <2> QED  BY <1>1, <1>2, <2>1, <2>2, <2>3, <2>4, <2>5
<1>4. ASSUME cfg.rph > 0 PROVE n * Hour <= cfg.rph * t
  <2>1. x.hourly <= cfg.rph /\ n * Hour <= cfg.rph * x.hour + x.hourly * Hour
    BY <1>4 DEF Booked
  <2>2. Hour * x.hourly <= Hour * cfg.rph
    BY <1>1, <1>2, <2>1, MulMono
  <2>3. x.hour + Hour <= t
    BY <1>2 DEF Booked
  <2>4. cfg.rph * (x.hour + Hour) <= cfg.rph * t
    BY <1>1, <1>2, <2>3, MulMono
  <2>5. cfg.rph * (x.hour + Hour) = cfg.rph * x.hour + cfg.rph * Hour
    BY <1>1, <1>2, MulSum
  <2>6. Hour * x.hourly = x.hourly * Hour /\ Hour * cfg.rph = cfg.rph * Hour
    BY <1>1, <1>2
  <2>7. /\ n * Hour \in Int /\ cfg.rph * t \in Int /\ cfg.rph * x.hour \in Int
        /\ cfg.rph * Hour \in Int /\ x.hourly * Hour \in Int
    BY <1>1, <1>2
  <2> QED  BY <2>1, <2>2, <2>4, <2>5, <2>6, <2>7
<1> QED  BY <1>3, <1>4 DEF Paid

\* An account bounds its requests by the quotas.
LEMMA BookedInQuota ==
  ASSUME NEW x, Account(x), NEW n \in Nat, NEW cfg \in Configs, NEW t \in Nat,
         Booked(x, n, cfg, t)
  PROVE  InQuota(n, cfg, t)
<1>1. cfg.rate \in Nat /\ cfg.rph \in Nat /\ cfg.burst * Unit \in Nat
  BY ConfigInRange
<1>2. Unit \in Nat /\ Hour \in Nat /\ x.last \in Int /\ x.hour \in Int
      /\ x.tokens \in Nat /\ x.hourly \in Nat
  BY RateAssumption DEF Account
<1>3. x.hour <= x.last /\ x.last <= t /\ x.hour <= t
  BY <1>2 DEF Booked
<1>4. ASSUME FillsInAnHour(cfg) PROVE n * Unit <= cfg.burst * Unit + cfg.rate * t
  <2>1. n * Unit + x.tokens <= cfg.burst * Unit + cfg.rate * x.last
    BY <1>4 DEF Booked
  <2>2. cfg.rate * x.last <= cfg.rate * t
    BY <1>1, <1>2, <1>3, MulMono
  <2>3. n * Unit \in Int /\ cfg.rate * t \in Int /\ cfg.rate * x.last \in Int
    BY <1>1, <1>2
  <2> QED  BY <1>1, <1>2, <2>1, <2>2, <2>3
<1>5. ASSUME cfg.rph > 0 PROVE n * Hour <= cfg.rph * (t + Hour)
  <2>1. x.hourly <= cfg.rph /\ n * Hour <= cfg.rph * x.hour + x.hourly * Hour
    BY <1>5 DEF Booked
  <2>2. Hour * x.hourly <= Hour * cfg.rph
    BY <1>1, <1>2, <2>1, MulMono
  <2>3. cfg.rph * x.hour <= cfg.rph * t
    BY <1>1, <1>2, <1>3, MulMono
  <2>4. cfg.rph * (t + Hour) = cfg.rph * t + cfg.rph * Hour
    BY <1>1, <1>2, MulSum
  <2>5. Hour * x.hourly = x.hourly * Hour /\ Hour * cfg.rph = cfg.rph * Hour
    BY <1>1, <1>2
  <2>6. /\ n * Hour \in Int /\ cfg.rph * t \in Int /\ cfg.rph * x.hour \in Int
        /\ cfg.rph * Hour \in Int /\ x.hourly * Hour \in Int
    BY <1>1, <1>2
  <2> QED  BY <2>1, <2>2, <2>3, <2>4, <2>5, <2>6
<1> QED  BY <1>4, <1>5 DEF InQuota

\* A refill keeps the books: the time that adds tokens also pays for them, and
\* an hour that ends pays for the requests counted in it.
LEMMA RefillBooked ==
  ASSUME NEW b \in Bucket, NEW n \in Nat, config \in Configs, now \in Nat,
         Booked(b, n, config, now)
  PROVE  Booked(Refill(b), n, config, now)
<1> DEFINE t == Lesser(b.max, b.tokens + b.rate * (now - b.last))
           over == now - b.hour >= Hour
           h == IF over THEN 0 ELSE b.hourly
           s == IF over THEN now ELSE b.hour
<1>1. config.rate \in Nat /\ config.rph \in Nat /\ config.burst * Unit \in Nat
  BY ConfigInRange
<1>2. Unit \in Nat /\ Hour \in Nat /\ b.last \in Int /\ b.hour \in Int
      /\ b.tokens \in Nat /\ b.hourly \in Nat /\ b.max \in Nat
  BY RateAssumption DEF Bucket
<1>3. /\ Refill(b).tokens = t /\ Refill(b).max = b.max /\ Refill(b).rate = b.rate
      /\ Refill(b).last = now /\ Refill(b).hourly = h /\ Refill(b).hour = s
  BY DEF Refill
<1>4. b.max = config.burst * Unit /\ b.rate = config.rate
      /\ 0 <= b.hour /\ b.hour <= b.last /\ b.last <= now
  BY DEF Booked
<1>5. ASSUME FillsInAnHour(config)
      PROVE  n * Unit + t <= config.burst * Unit + config.rate * now
  <2>1. n * Unit + b.tokens <= config.burst * Unit + config.rate * b.last
    BY <1>5 DEF Booked
  <2>2. b.rate * (now - b.last) = config.rate * now - config.rate * b.last
    BY <1>1, <1>2, <1>4, MulDiff
  <2>3. n * Unit \in Int /\ config.rate * now \in Int /\ config.rate * b.last \in Int
    BY <1>1, <1>2
  <2>4. t <= b.tokens + (config.rate * now - config.rate * b.last) /\ t \in Int
    BY <1>2, <2>2, <2>3 DEF Lesser
  <2> HIDE DEF t
  <2> QED  BY <1>1, <1>2, <2>1, <2>3, <2>4
<1>6. ASSUME config.rph > 0
      PROVE  h <= config.rph /\ n * Hour <= config.rph * s + h * Hour
  <2>1. b.hourly <= config.rph /\ n * Hour <= config.rph * b.hour + b.hourly * Hour
    BY <1>6 DEF Booked
  <2>2. CASE ~over
    BY <2>1, <2>2
  <2>3. CASE over
    <3>1. Hour * b.hourly <= Hour * config.rph
      BY <1>1, <1>2, <2>1, MulMono
    <3>2. config.rph * (b.hour + Hour) <= config.rph * now
      BY <1>1, <1>2, <2>3, MulMono
    <3>3. config.rph * (b.hour + Hour) = config.rph * b.hour + config.rph * Hour
      BY <1>1, <1>2, MulSum
    <3>4. Hour * b.hourly = b.hourly * Hour /\ Hour * config.rph = config.rph * Hour
      BY <1>1, <1>2
    <3>5. /\ n * Hour \in Int /\ config.rph * now \in Int /\ config.rph * b.hour \in Int
          /\ config.rph * Hour \in Int /\ b.hourly * Hour \in Int
      BY <1>1, <1>2
    <3>6. n * Hour <= config.rph * now
      BY <2>1, <3>1, <3>2, <3>3, <3>4, <3>5
    <3>7. h = 0 /\ s = now /\ h * Hour = 0
      BY <1>2, <2>3
    <3> HIDE DEF h, s
    <3> QED  BY <1>1, <3>5, <3>6, <3>7
  <2> QED  BY <2>2, <2>3
<1>7. 0 <= s /\ s <= now
  BY <1>2, <1>4
<1> HIDE DEF t, h, s
<1> QED  BY <1>3, <1>4, <1>5, <1>6, <1>7 DEF Booked

\* A new bucket accounts for requests that have been paid for.
LEMMA CreateBooked ==
  ASSUME NEW n \in Nat, config \in Configs, now \in Nat, Paid(n, config, now)
  PROVE  Booked(CreateBucket, n, config, now)
<1>1. config.rate \in Nat /\ config.rph \in Nat /\ config.burst * Unit \in Nat
      /\ Unit \in Nat /\ Hour \in Nat
  BY ConfigInRange, RateAssumption
<1>2. /\ CreateBucket.tokens = config.burst * Unit /\ CreateBucket.max = config.burst * Unit
      /\ CreateBucket.rate = config.rate /\ CreateBucket.hourly = 0
      /\ CreateBucket.last = now /\ CreateBucket.hour = now
  BY DEF CreateBucket
<1>3. n * Unit \in Int /\ config.rate * now \in Int /\ n * Hour \in Int
      /\ config.rph * now \in Int /\ 0 * Hour = 0
  BY <1>1
<1>4. FillsInAnHour(config) =>
        n * Unit + config.burst * Unit <= config.burst * Unit + config.rate * now
  BY <1>1, <1>3 DEF Paid
<1>5. config.rph > 0 => 0 <= config.rph /\ n * Hour <= config.rph * now + 0 * Hour
  BY <1>1, <1>3 DEF Paid
<1> QED  BY <1>2, <1>4, <1>5 DEF Booked

\* An allowed request is booked: it takes a token and a place in the hour.
LEMMA ConsumeBooked ==
  ASSUME NEW b \in Bucket, NEW n \in Nat, config \in Configs, now \in Nat,
         Booked(b, n, config, now), MayConsume(b)
  PROVE  Booked(Consume(b), n + 1, config, now)
<1>1. config.rate \in Nat /\ config.rph \in Nat /\ config.burst * Unit \in Nat
      /\ Unit \in Nat /\ Hour \in Nat
  BY ConfigInRange, RateAssumption
<1>2. b.last \in Int /\ b.hour \in Int /\ b.tokens \in Nat /\ b.hourly \in Nat
  BY DEF Bucket
<1>3. /\ Consume(b).tokens = b.tokens - Unit /\ Consume(b).max = b.max
      /\ Consume(b).rate = b.rate /\ Consume(b).hourly = b.hourly + 1
      /\ Consume(b).last = b.last /\ Consume(b).hour = b.hour
  BY DEF Consume
<1>4. (n + 1) * Unit = n * Unit + Unit /\ (n + 1) * Hour = n * Hour + Hour
      /\ (b.hourly + 1) * Hour = b.hourly * Hour + Hour
  BY <1>1, <1>2
<1>5. /\ n * Unit \in Int /\ config.rate * b.last \in Int /\ n * Hour \in Int
      /\ config.rph * b.hour \in Int /\ b.hourly * Hour \in Int
  BY <1>1, <1>2
<1>6. FillsInAnHour(config) =>
        (n + 1) * Unit + (b.tokens - Unit) <= config.burst * Unit + config.rate * b.last
  BY <1>1, <1>2, <1>4, <1>5 DEF Booked
<1>7. config.rph > 0 => b.hourly + 1 <= config.rph
  BY <1>1, <1>2 DEF MayConsume, HourlySpent
<1>8. config.rph > 0 => (n + 1) * Hour <= config.rph * b.hour + (b.hourly + 1) * Hour
  BY <1>1, <1>2, <1>4, <1>5 DEF Booked
<1> QED  BY <1>3, <1>6, <1>7, <1>8 DEF Booked

\* Time that passes leaves the books in order.
LEMMA TimePasses ==
  ASSUME NEW n \in Nat, NEW cfg \in Configs, NEW t \in Nat, NEW u \in Nat, t <= u
  PROVE  /\ \A x : Account(x) /\ Booked(x, n, cfg, t) => Booked(x, n, cfg, u)
         /\ Paid(n, cfg, t) => Paid(n, cfg, u)
         /\ InQuota(n, cfg, t) => InQuota(n, cfg, u)
<1>1. cfg.rate \in Nat /\ cfg.rph \in Nat /\ cfg.burst * Unit \in Nat
      /\ Unit \in Nat /\ Hour \in Nat
  BY ConfigInRange, RateAssumption
<1>2. cfg.rate * t <= cfg.rate * u /\ cfg.rph * t <= cfg.rph * u
  BY <1>1, MulMono
<1>3. cfg.rph * (t + Hour) <= cfg.rph * (u + Hour)
  BY <1>1, MulMono
<1>4. /\ n * Unit \in Int /\ n * Hour \in Int
      /\ cfg.rate * t \in Int /\ cfg.rph * t \in Int /\ cfg.rph * (t + Hour) \in Int
      /\ cfg.rate * u \in Int /\ cfg.rph * u \in Int /\ cfg.rph * (u + Hour) \in Int
  BY <1>1
<1>5. \A x : Account(x) /\ Booked(x, n, cfg, t) => Booked(x, n, cfg, u)
  <2> SUFFICES ASSUME NEW x, Account(x), Booked(x, n, cfg, t) PROVE Booked(x, n, cfg, u)
    OBVIOUS
  <2>1. x.last <= u
    BY DEF Booked, Account
  <2> QED  BY <2>1 DEF Booked
<1>6. Paid(n, cfg, t) => Paid(n, cfg, u)
  BY <1>2, <1>4 DEF Paid
<1>7. InQuota(n, cfg, t) => InQuota(n, cfg, u)
  <2> DEFINE h == n * Hour
             before == cfg.rph * (t + Hour)
             after == cfg.rph * (u + Hour)
  <2>1. n * Unit <= cfg.burst * Unit + cfg.rate * t => n * Unit <= cfg.burst * Unit + cfg.rate * u
    BY <1>1, <1>2, <1>4
  <2>2. h \in Int /\ before \in Int /\ after \in Int /\ before <= after
    BY <1>3, <1>4
  <2> HIDE DEF h, before, after
  <2>3. h <= before => h <= after
    BY <2>2
  <2> QED  BY <2>1, <2>3 DEF InQuota, h, before, after
<1> QED  BY <1>5, <1>6, <1>7

\* A snapshot accounts for the requests of its bucket.
LEMMA SnapshotBooked ==
  ASSUME NEW b \in Bucket, NEW n \in Nat, skew = 0, Booked(b, n, config, now)
  PROVE  Booked(SnapshotOf(b, n), n, config, now) /\ SnapshotOf(b, n).charged = n
<1>1. b.last \in Int /\ b.hour \in Int
  BY DEF Bucket
<1>2. b.last + skew = b.last /\ b.hour + skew = b.hour
  BY <1>1
<1>3. /\ SnapshotOf(b, n).tokens = b.tokens /\ SnapshotOf(b, n).max = config.burst * Unit
      /\ SnapshotOf(b, n).rate = config.rate /\ SnapshotOf(b, n).hourly = b.hourly
      /\ SnapshotOf(b, n).last = b.last /\ SnapshotOf(b, n).hour = b.hour
      /\ SnapshotOf(b, n).charged = n
  BY <1>2 DEF SnapshotOf
<1> QED  BY <1>3 DEF Booked

\* A restored bucket accounts for the requests of its row; a row that is not
\* restored stands for requests that have been paid for.
LEMMA ImportBooked ==
  ASSUME NEW r \in Row, NEW n \in Nat, config \in Configs, now \in Nat, skew = 0,
         Booked(r, n, config, now)
  PROVE  /\ ImportRow(r) = NoBucket => Paid(n, config, now)
         /\ ImportRow(r) /= NoBucket => Booked(ImportRow(r), n, config, now)
<1>1. r.last \in Int /\ r.hour \in Int /\ r.last <= now /\ r.hour <= now /\ Hour \in Nat
  BY RateAssumption DEF Row, Booked
<1>2. Since(r.last) = now - r.last /\ Since(r.hour) = now - r.hour
  BY <1>1 DEF Since, Greater
<1>3. now - Since(r.last) = r.last /\ now - Since(r.hour) = r.hour
  BY <1>1, <1>2
<1>4. Account(r)
  BY Accounts
<1>5. CASE Since(r.last) > Hour
  <2>1. now - r.last >= Hour
    BY <1>1, <1>2, <1>5
  <2>2. Paid(n, config, now)
    BY <1>4, <2>1, IdleIsPaid
  <2>3. ImportRow(r) = NoBucket
    BY <1>5 DEF ImportRow
  <2> QED  BY <2>2, <2>3
<1>6. CASE ~(Since(r.last) > Hour)
  <2>1. ImportRow(r) = [tokens |-> r.tokens, max |-> r.max, rate |-> r.rate,
                        hourly |-> r.hourly, last |-> r.last, hour |-> r.hour]
    BY <1>3, <1>6 DEF ImportRow
  <2>2. Booked(ImportRow(r), n, config, now)
    BY <2>1 DEF Booked
  <2>3. ImportRow(r) \in Bucket
    BY <2>1 DEF Bucket, Row
  <2>4. ImportRow(r) /= NoBucket
    BY <2>3, RateAssumption
  <2> QED  BY <2>2, <2>4
<1> QED  BY <1>5, <1>6

\* The entry that check works on, refilled, accounts for the client's requests.
LEMMA EntryBooked ==
  ASSUME Typed, Books, steady, task /= "down", NEW c \in Clients
  PROVE  Booked(Refill(EntryOf(c)), charged[c], config, now)
<1>1. now \in Nat /\ config \in Configs /\ charged[c] \in Nat
  BY RateAssumption DEF Typed, TypeOK
<1>2. CASE buckets[c] = NoBucket
  <2>1. Paid(charged[c], config, now)
    BY <1>2 DEF Books
  <2>2. Booked(CreateBucket, charged[c], config, now) /\ CreateBucket \in Bucket
    BY <1>1, <2>1, CreateBooked, CreateTyped
  <2> QED  BY <1>1, <1>2, <2>2, RefillBooked DEF EntryOf
<1>3. CASE buckets[c] /= NoBucket
  <2>1. Booked(buckets[c], charged[c], config, now) /\ buckets[c] \in Bucket
    BY <1>3 DEF Books, Typed, TypeOK
  <2> QED  BY <1>1, <1>3, <2>1, RefillBooked DEF EntryOf
<1> QED  BY <1>2, <1>3

\* Every action keeps the books.
LEMMA BooksStep == Typed /\ Books /\ [Next]_vars => Books'
<1> SUFFICES ASSUME Typed, Books, [Next]_vars PROVE Books'
  OBVIOUS
<1>t. /\ now \in Nat /\ config \in Configs /\ charged \in [Clients -> Nat]
      /\ buckets \in [Clients -> Bucket \cup {NoBucket}]
      /\ rows \in [Clients -> Row \cup {NoBucket}]
      /\ pending \in [Clients -> Row \cup {NoBucket}]
      /\ NoBucket \notin Bucket /\ NoBucket \notin Row /\ starts \in Nat
  BY RateAssumption DEF Typed, TypeOK
<1>1. ASSUME NEW c \in Clients, Allow(c) PROVE Books'
  <2> DEFINE b == Refill(EntryOf(c))
  <2>1. b \in Bucket /\ task /= "down" /\ MayConsume(b)
    BY <1>1, EntryTyped DEF Allow, Serving
  <2>2. steady => Booked(b, charged[c], config, now)
    BY <2>1, EntryBooked
  <2> HIDE DEF b
  <2>3. steady => Booked(Consume(b), charged[c] + 1, config, now)
    BY <1>t, <2>1, <2>2, ConsumeBooked
  <2>4. Consume(b) \in Bucket
    <3>1. b.tokens >= Unit /\ Unit \in Nat
      BY <2>1, RateAssumption DEF MayConsume
    <3> QED  BY <2>1, <3>1 DEF Consume, Bucket
  <2>5. steady => InQuota(charged[c] + 1, config, now)
    BY <1>t, <2>3, <2>4, Accounts, BookedInQuota
  <2>6. /\ buckets' = [buckets EXCEPT ![c] = Consume(b)]
        /\ charged' = [charged EXCEPT ![c] = @ + 1]
        /\ UNCHANGED <<now, skew, config, rows, task, pending, starts, steady>>
    BY <1>1 DEF Allow, b
  <2>7. \A d \in Clients \ {c} : buckets'[d] = buckets[d] /\ charged'[d] = charged[d]
    BY <1>t, <2>6
  <2>8. buckets'[c] = Consume(b) /\ charged'[c] = charged[c] + 1 /\ buckets'[c] /= NoBucket
    BY <1>t, <2>4, <2>6
  <2>9. starts /= 0
    BY <2>1 DEF Books
  <2> QED  BY <2>1, <2>3, <2>5, <2>6, <2>7, <2>8, <2>9 DEF Books
<1>2. ASSUME NEW c \in Clients, Deny(c) PROVE Books'
  <2> DEFINE b == Refill(EntryOf(c))
  <2>1. b \in Bucket /\ task /= "down"
    BY <1>2, EntryTyped DEF Deny, Serving
  <2>2. steady => Booked(b, charged[c], config, now)
    BY <2>1, EntryBooked
  <2> HIDE DEF b
  <2>3. /\ buckets' = [buckets EXCEPT ![c] = b]
        /\ UNCHANGED <<now, skew, config, rows, task, pending, starts, charged, steady>>
    BY <1>2 DEF Deny, b
  <2>4. \A d \in Clients \ {c} : buckets'[d] = buckets[d]
    BY <1>t, <2>3
  <2>5. buckets'[c] = b /\ b /= NoBucket
    BY <1>t, <2>1, <2>3
  <2>6. starts /= 0
    BY <2>1 DEF Books
  <2> QED  BY <2>1, <2>2, <2>3, <2>4, <2>5, <2>6 DEF Books
<1>3. CASE Export
  <2>1. /\ UNCHANGED <<now, skew, config, buckets, rows, starts, history, steady>>
        /\ task /= "down" /\ task' /= "down"
    BY <1>3 DEF Export
  <2>2. starts /= 0
    BY <2>1 DEF Books
  <2>3. ASSUME NEW c \in Clients, steady, pending'[c] /= NoBucket
        PROVE  Booked(pending'[c], pending'[c].charged, config, now)
    <3>1. buckets[c] /= NoBucket /\ pending'[c] = SnapshotOf(buckets[c], charged[c])
      BY <1>3, <2>3 DEF Export
    <3>2. buckets[c] \in Bucket /\ charged[c] \in Nat /\ skew = 0
          /\ Booked(buckets[c], charged[c], config, now)
      BY <1>t, <2>3, <3>1 DEF Books
    <3> QED  BY <3>1, <3>2, SnapshotBooked
  <2> QED  BY <2>1, <2>2, <2>3 DEF Books, history
<1>4. CASE Save
  BY <1>4, <1>t DEF Save, Books, history
<1>5. CASE SaveFails
  BY <1>5, <1>t DEF SaveFails, Books, history
<1>6. CASE Cleanup
  <2>1. /\ UNCHANGED <<now, skew, config, rows, pending, starts, history, steady>>
        /\ task /= "down" /\ task' /= "down"
    BY <1>6 DEF Cleanup
  <2>2. starts /= 0
    BY <2>1 DEF Books
  <2>3. ASSUME NEW c \in Clients, steady
        PROVE  /\ buckets'[c] /= NoBucket => Booked(buckets'[c], charged[c], config, now)
               /\ buckets'[c] = NoBucket => Paid(charged[c], config, now)
    <3>1. CASE buckets[c] /= NoBucket /\ Expired(buckets[c])
      <4>1. buckets'[c] = NoBucket
        BY <1>6, <3>1 DEF Cleanup
      <4>2. buckets[c] \in Bucket /\ Account(buckets[c]) /\ charged[c] \in Nat
        BY <1>t, <3>1, Accounts
      <4>3. Booked(buckets[c], charged[c], config, now) /\ now - buckets[c].last >= Hour
        BY <2>3, <3>1 DEF Books, Expired
      <4> QED  BY <1>t, <4>1, <4>2, <4>3, IdleIsPaid
    <3>2. CASE ~(buckets[c] /= NoBucket /\ Expired(buckets[c]))
      <4>1. buckets'[c] = buckets[c]
        BY <1>6, <3>2 DEF Cleanup
      <4> QED  BY <2>1, <2>3, <4>1 DEF Books
    <3> QED  BY <3>1, <3>2
  <2> QED  BY <2>1, <2>2, <2>3 DEF Books, history
<1>7. CASE Stop
  BY <1>7 DEF Stop, Books, history
<1>8. ASSUME NEW cfg \in Configs, Start(cfg) \/ StartLoadFails(cfg) PROVE Books'
  <2>1. StartWith(cfg)
    BY <1>8 DEF Start, StartLoadFails
  <2>2. /\ UNCHANGED <<now, skew, rows, pending>>
        /\ config' = cfg /\ task' = "wait" /\ task = "down" /\ starts' /= 0
    BY <2>1, <1>t DEF StartWith
  <2>3. \A c \in Clients : pending'[c] = NoBucket
    BY <2>2 DEF Books
  <2>4. steady' => steady /\ (starts = 0 \/ cfg = config)
    BY <2>1 DEF StartWith
  <2>5. steady' => skew' = 0
    BY <2>2, <2>4 DEF Books
  <2>6. Paid(0, cfg, now) /\ InQuota(0, cfg, now)
    <3>1. cfg.rate \in Nat /\ cfg.rph \in Nat /\ cfg.burst * Unit \in Nat
          /\ Unit \in Nat /\ Hour \in Nat
      BY ConfigInRange, RateAssumption
    <3>2. 0 * Unit = 0 /\ 0 * Hour = 0
      BY <3>1
    <3>3. cfg.rate * now \in Nat /\ cfg.rph * now \in Nat /\ cfg.rph * (now + Hour) \in Nat
      BY <1>t, <3>1, MulNat
    <3>4. 0 <= cfg.burst * Unit + cfg.rate * now
      BY <3>1, <3>3
    <3>5. 0 <= cfg.rate * now /\ 0 <= cfg.rph * now /\ 0 <= cfg.rph * (now + Hour)
      BY <3>3
    <3> QED  BY <3>2, <3>4, <3>5 DEF Paid, InQuota
  <2>7. ASSUME NEW c \in Clients, steady'
        PROVE  /\ rows[c] /= NoBucket => Booked(rows[c], rows[c].charged, cfg, now)
               /\ buckets'[c] /= NoBucket => Booked(buckets'[c], charged'[c], cfg, now)
               /\ buckets'[c] = NoBucket => Paid(charged'[c], cfg, now)
               /\ InQuota(charged'[c], cfg, now)
    <3>1. rows[c] /= NoBucket =>
            /\ Booked(rows[c], rows[c].charged, cfg, now) /\ cfg = config /\ skew = 0
            /\ rows[c] \in Row /\ rows[c].charged \in Nat
      BY <1>t, <2>4, <2>7, Accounts DEF Books
    <3>2. CASE StartLoadFails(cfg) \/ rows[c] = NoBucket
      <4>1. buckets'[c] = NoBucket /\ charged'[c] = 0
        BY <1>8, <3>2 DEF Start, StartLoadFails
      <4> QED  BY <2>6, <3>1, <4>1
    <3>3. CASE Start(cfg) /\ rows[c] /= NoBucket
      <4>1. buckets'[c] = ImportRow(rows[c]) /\ charged'[c] = rows[c].charged
        BY <3>3 DEF Start
      <4>2. InQuota(rows[c].charged, cfg, now)
        BY <1>t, <3>1, <3>3, Accounts, BookedInQuota
      <4> QED  BY <1>t, <3>1, <3>3, <4>1, <4>2, ImportBooked
    <3> QED  BY <1>8, <3>2, <3>3
  <2> QED  BY <2>2, <2>3, <2>5, <2>7 DEF Books
<1>9. CASE Tick
  <2>1. /\ UNCHANGED <<skew, config, buckets, rows, task, pending, starts, history, steady>>
        /\ now' \in Nat /\ now <= now'
    BY <1>9, <1>t DEF Tick
  <2>2. ASSUME NEW x, NEW n \in Nat, Account(x), Booked(x, n, config, now)
        PROVE  Booked(x, n, config, now')
    BY <1>t, <2>1, <2>2, TimePasses
  <2>3. \A n \in Nat : /\ Paid(n, config, now) => Paid(n, config, now')
                       /\ InQuota(n, config, now) => InQuota(n, config, now')
    BY <1>t, <2>1, TimePasses
  <2>4. ASSUME NEW c \in Clients, steady
        PROVE  /\ buckets[c] /= NoBucket => Booked(buckets[c], charged[c], config, now')
               /\ rows[c] /= NoBucket => Booked(rows[c], rows[c].charged, config, now')
               /\ pending[c] /= NoBucket => Booked(pending[c], pending[c].charged, config, now')
               /\ task /= "down" /\ buckets[c] = NoBucket => Paid(charged[c], config, now')
               /\ InQuota(charged[c], config, now')
    BY <1>t, <2>2, <2>3, <2>4, Accounts DEF Books
  <2> QED  BY <2>1, <2>4 DEF Books, history
<1>10. ASSUME NEW s \in Skews, SetClock(s) PROVE Books'
  BY <1>10 DEF SetClock, Books, history
<1>11. CASE UNCHANGED vars
  BY <1>11 DEF vars, Books, history
<1> QED
  BY <1>1, <1>2, <1>3, <1>4, <1>5, <1>6, <1>7, <1>8, <1>9, <1>10, <1>11 DEF Next

\* A server that never started has no books.
LEMMA BooksInit == Init => Books
<1> SUFFICES ASSUME Init PROVE Books
  OBVIOUS
<1>1. config \in Configs /\ now = 0 /\ \A c \in Clients : charged[c] = 0
  BY DEF Init
<1>2. InQuota(0, config, 0)
  <2>1. config.rate \in Nat /\ config.rph \in Nat /\ config.burst * Unit \in Nat
        /\ Unit \in Nat /\ Hour \in Nat
    BY <1>1, ConfigInRange, RateAssumption
  <2>2. 0 * Unit = 0 /\ 0 * Hour = 0 /\ config.rate * 0 = 0 /\ config.rph * (0 + Hour) \in Nat
    BY <2>1, MulNat
  <2>3. 0 <= config.burst * Unit + config.rate * 0 /\ 0 <= config.rph * (0 + Hour)
    BY <2>1, <2>2
  <2> QED  BY <2>2, <2>3 DEF InQuota
<1> QED  BY <1>1, <1>2 DEF Init, Books

\* The books are in order throughout.
LEMMA BooksAlways == Spec => []Books
BY BooksInit, BooksStep, TypedAlways, PTL DEF Spec

\* The requests that a client has on record stay within its bucket and the
\* refill, whatever the snapshot task and restarts do (TokenBucket, cleanup,
\* export_snapshots, import_snapshots).
THEOREM TokensAreNotForged == Spec => []TokenQuota
<1>1. Books => TokenQuota
  BY DEF Books, TokenQuota, InQuota
<1> QED  BY <1>1, BooksAlways, PTL

\* They stay within the hourly limit of every hour that has begun.
THEOREM HoursAreNotReopened == Spec => []HourlyQuota
<1>1. Books => HourlyQuota
  BY DEF Books, HourlyQuota, InQuota
<1> QED  BY <1>1, BooksAlways, PTL

-----------------------------------------------------------------------------
(* Capacities and rates *)

\* A bucket or row with the capacity and the rate of some configuration.
FromConfig(x) == \E cfg \in Configs : x.max = cfg.burst * Unit /\ x.rate = cfg.rate

\* All buckets and rows are such, whatever the configuration is now.
Configured ==
  \A c \in Clients : /\ buckets[c] /= NoBucket => FromConfig(buckets[c])
                     /\ rows[c] /= NoBucket => FromConfig(rows[c])
                     /\ pending[c] /= NoBucket => FromConfig(pending[c])

\* Such a bucket refills no faster than the largest rate, and can hold a token if
\* every configuration's can.
LEMMA ConfiguredBounds ==
  ASSUME NEW x, FromConfig(x)
  PROVE  /\ x.rate \in Nat /\ x.rate <= MaxRate
         /\ (\A cfg \in Configs : cfg.burst >= 1) => x.max >= Unit
<1>1. PICK cfg \in Configs : x.max = cfg.burst * Unit /\ x.rate = cfg.rate
  BY DEF FromConfig
<1>2. cfg.rate \in Nat /\ cfg.burst \in Nat /\ cfg.rate <= MaxRate /\ Unit \in Nat
  BY ConfigInRange, RateAssumption
<1>3. cfg.burst >= 1 => Unit * cfg.burst >= Unit * 1
  BY <1>2, MulMono
<1>4. Unit * cfg.burst = cfg.burst * Unit /\ Unit * 1 = Unit
  BY <1>2
<1> QED  BY <1>1, <1>2, <1>3, <1>4

\* The entry that check works on is configured.
LEMMA EntryConfigured ==
  ASSUME Typed, Configured, NEW c \in Clients
  PROVE  FromConfig(Refill(EntryOf(c)))
<1>1. config \in Configs
  BY DEF Typed, TypeOK
<1>2. FromConfig(EntryOf(c))
  BY <1>1 DEF EntryOf, CreateBucket, FromConfig, Configured
<1>3. /\ Refill(EntryOf(c)).max = EntryOf(c).max
      /\ Refill(EntryOf(c)).rate = EntryOf(c).rate
  BY DEF Refill
<1> QED  BY <1>2, <1>3 DEF FromConfig

\* Every action keeps capacities and rates those of configurations.
LEMMA ConfiguredStep == Typed /\ Configured /\ [Next]_vars => Configured'
<1> SUFFICES ASSUME Typed, Configured, [Next]_vars PROVE Configured'
  OBVIOUS
<1>t. /\ config \in Configs
      /\ buckets \in [Clients -> Bucket \cup {NoBucket}]
      /\ rows \in [Clients -> Row \cup {NoBucket}]
      /\ pending \in [Clients -> Row \cup {NoBucket}]
  BY DEF Typed, TypeOK
<1>1. ASSUME NEW c \in Clients, Allow(c) PROVE Configured'
  <2>1. FromConfig(Consume(Refill(EntryOf(c))))
    BY EntryConfigured DEF Consume, FromConfig
  <2>2. /\ buckets' = [buckets EXCEPT ![c] = Consume(Refill(EntryOf(c)))]
        /\ UNCHANGED <<rows, pending>>
    BY <1>1 DEF Allow
  <2>3. \A d \in Clients : buckets'[d] /= NoBucket => FromConfig(buckets'[d])
    BY <1>t, <2>1, <2>2 DEF Configured
  <2> QED  BY <2>2, <2>3 DEF Configured, FromConfig
<1>2. ASSUME NEW c \in Clients, Deny(c) PROVE Configured'
  <2>1. FromConfig(Refill(EntryOf(c)))
    BY EntryConfigured
  <2>2. /\ buckets' = [buckets EXCEPT ![c] = Refill(EntryOf(c))]
        /\ UNCHANGED <<rows, pending>>
    BY <1>2 DEF Deny
  <2>3. \A d \in Clients : buckets'[d] /= NoBucket => FromConfig(buckets'[d])
    BY <1>t, <2>1, <2>2 DEF Configured
  <2> QED  BY <2>2, <2>3 DEF Configured, FromConfig
<1>3. CASE Export
  <2>1. \A b, n : FromConfig(SnapshotOf(b, n))
    BY <1>t DEF SnapshotOf, FromConfig
  <2>2. \A c \in Clients : pending'[c] /= NoBucket => FromConfig(pending'[c])
    BY <1>3, <2>1 DEF Export
  <2>3. UNCHANGED <<buckets, rows>>
    BY <1>3 DEF Export
  <2> QED  BY <2>2, <2>3 DEF Configured, FromConfig
<1>4. CASE Save
  BY <1>4 DEF Save, Configured, FromConfig
<1>5. CASE SaveFails
  BY <1>5 DEF SaveFails, Configured, FromConfig
<1>6. CASE Cleanup
  BY <1>6 DEF Cleanup, Configured, FromConfig
<1>7. CASE Stop
  BY <1>7 DEF Stop, Configured, FromConfig
<1>8. ASSUME NEW cfg \in Configs, Start(cfg) \/ StartLoadFails(cfg) PROVE Configured'
  <2>1. UNCHANGED <<rows, pending>>
    BY <1>8 DEF Start, StartLoadFails, StartWith
  <2>2. ASSUME NEW c \in Clients, buckets'[c] /= NoBucket PROVE FromConfig(buckets'[c])
    <3>1. rows[c] /= NoBucket /\ buckets'[c] = ImportRow(rows[c])
      BY <1>8, <2>2 DEF Start, StartLoadFails
    <3>2. ImportRow(rows[c]).max = rows[c].max /\ ImportRow(rows[c]).rate = rows[c].rate
      BY <2>2, <3>1 DEF ImportRow
    <3> QED  BY <3>1, <3>2 DEF Configured, FromConfig
  <2> QED  BY <2>1, <2>2 DEF Configured, FromConfig
<1>9. CASE Tick
  BY <1>9 DEF Tick, Configured, FromConfig
<1>10. ASSUME NEW s \in Skews, SetClock(s) PROVE Configured'
  BY <1>10 DEF SetClock, Configured, FromConfig
<1>11. CASE UNCHANGED vars
  BY <1>11 DEF vars, Configured, FromConfig
<1> QED
  BY <1>1, <1>2, <1>3, <1>4, <1>5, <1>6, <1>7, <1>8, <1>9, <1>10, <1>11 DEF Next

\* Capacities and rates are those of configurations throughout.
LEMMA ConfiguredAlways == Spec => []Configured
<1>1. Init => Configured
  BY DEF Init, Configured
<1> QED  BY <1>1, ConfiguredStep, TypedAlways, PTL DEF Spec

-----------------------------------------------------------------------------
(* Starts *)

\* What n starts and the time t pay for, in parts of a token.
Budget(n, t) == n * MaxBurst * Unit + MaxRate * t

\* The tokens that a bucket has at time t.
Level(b, t) == Lesser(b.max, b.tokens + b.rate * (t - b.last))

\* What a client was granted, and what it can get from its bucket, is within the
\* budget.  Either the time until the bucket was last used pays for what was
\* granted, so that an hour later the client may have a new bucket, or the
\* starts before this one do.
Spent(b, g, n, t) ==
  /\ g * Unit + Level(b, t) <= Budget(n, t)
  /\ g * Unit <= Budget(n, b.last) \/ g * Unit + MaxBurst * Unit <= Budget(n, t)

\* The budgets of all clients: one without a bucket may get a full one.
Budgets ==
  \A c \in Clients :
    /\ task = "down" => buckets[c] = NoBucket /\ granted[c] * Unit <= Budget(starts, now)
    /\ buckets[c] /= NoBucket => Spent(buckets[c], granted[c], starts, now)
    /\ task /= "down" /\ buckets[c] = NoBucket =>
         granted[c] * Unit + config.burst * Unit <= Budget(starts, now)

\* Every configuration fills its buckets in an hour.
AllFill == \A cfg \in Configs : FillsInAnHour(cfg)

\* A budget grows by a burst with each start and by the largest rate with time.
LEMMA BudgetGrows ==
  ASSUME NEW n \in Nat, NEW t \in Int
  PROVE  /\ Budget(n, t) \in Int
         /\ Budget(n + 1, t) = Budget(n, t) + MaxBurst * Unit
         /\ Budget(n, t + 1) = Budget(n, t) + MaxRate
         /\ \A u \in Int : t <= u => Budget(n, t) <= Budget(n, u)
<1>1. MaxBurst \in Nat /\ Unit \in Nat /\ MaxRate \in Nat
  BY RateAssumption
<1>2. n * MaxBurst \in Int /\ n * MaxBurst * Unit \in Int /\ MaxRate * t \in Int
      /\ MaxBurst * Unit \in Int
  BY <1>1
<1>3. (n + 1) * MaxBurst = n * MaxBurst + MaxBurst
  BY <1>1
<1>4. (n * MaxBurst + MaxBurst) * Unit = n * MaxBurst * Unit + MaxBurst * Unit
  BY <1>1, <1>2, MulSum
<1>5. MaxRate * (t + 1) = MaxRate * t + MaxRate
  BY <1>1
<1>6. \A u \in Int : t <= u => MaxRate * t <= MaxRate * u /\ MaxRate * u \in Int
  BY <1>1, MulMono
<1> QED  BY <1>1, <1>2, <1>3, <1>4, <1>5, <1>6 DEF Budget

\* A bucket's level is at most its capacity, grows by its rate at the most, and
\* is what a refill gives it; without time that passes it gets nothing.
LEMMA LevelGrows ==
  ASSUME NEW b \in Bucket, NEW t \in Nat, b.last <= t
  PROVE  /\ Level(b, t) \in Nat /\ Level(b, t) <= b.max
         /\ Level(b, t + 1) <= Level(b, t) + b.rate
         /\ b.last = t => Level(b, t) <= b.tokens
<1>1. b.tokens \in Nat /\ b.rate \in Nat /\ b.max \in Nat /\ b.last \in Int
  BY DEF Bucket
<1>2. b.rate * (t - b.last) \in Nat
  BY <1>1, MulNat
<1>3. b.rate * (t + 1 - b.last) = b.rate * (t - b.last) + b.rate
  <2>1. b.rate * ((t - b.last) + 1) = b.rate * (t - b.last) + b.rate * 1
    BY <1>1, MulSum
  <2>2. (t - b.last) + 1 = t + 1 - b.last /\ b.rate * 1 = b.rate
    BY <1>1
  <2> QED  BY <2>1, <2>2
<1>4. b.last = t => b.rate * (t - b.last) = 0
  BY <1>1
<1>5. PICK d : d = b.rate * (t - b.last)
  OBVIOUS
<1>6. PICK e : e = b.rate * (t + 1 - b.last)
  OBVIOUS
<1>7. Level(b, t) = IF b.max <= b.tokens + d THEN b.max ELSE b.tokens + d
  BY <1>5 DEF Level, Lesser
<1>8. Level(b, t + 1) = IF b.max <= b.tokens + e THEN b.max ELSE b.tokens + e
  BY <1>1, <1>6 DEF Level, Lesser
<1>9. d \in Nat /\ e = d + b.rate /\ (b.last = t => d = 0)
  BY <1>2, <1>3, <1>4, <1>5, <1>6
<1> QED  BY <1>1, <1>7, <1>8, <1>9

\* A bucket that is used now and does not exceed the budget is paid for.
LEMMA UsedIsSpent ==
  ASSUME NEW b \in Bucket, NEW g \in Nat, NEW n \in Nat, NEW t \in Nat,
         b.last = t, g * Unit + b.tokens <= Budget(n, t)
  PROVE  Spent(b, g, n, t)
<1>1. Level(b, t) \in Nat /\ Level(b, t) <= b.tokens /\ b.tokens \in Nat
  BY LevelGrows DEF Bucket
<1>2. g * Unit \in Int /\ Budget(n, t) \in Int
  BY BudgetGrows, RateAssumption
<1> QED  BY <1>1, <1>2 DEF Spent

\* A bucket that was idle for an hour can be replaced by a full one.
LEMMA IdleIsReplaceable ==
  ASSUME NEW b \in Bucket, NEW g \in Nat, NEW n \in Nat, NEW t \in Nat,
         Spent(b, g, n, t), t - b.last >= Hour, NEW cfg \in Configs, FillsInAnHour(cfg)
  PROVE  g * Unit + cfg.burst * Unit <= Budget(n, t)
<1>1. /\ b.last \in Int /\ cfg.rate \in Nat /\ cfg.rate <= MaxRate /\ MaxRate \in Nat
      /\ Hour \in Nat /\ Unit \in Nat /\ cfg.burst * Unit \in Nat
      /\ cfg.burst * Unit <= MaxBurst * Unit /\ MaxBurst * Unit \in Nat
  BY ConfigInRange, RateAssumption DEF Bucket
<1>2. cfg.burst * Unit <= MaxRate * Hour
  <2>1. cfg.burst * Unit <= cfg.rate * Hour
    BY <1>1 DEF FillsInAnHour
  <2>2. Hour * cfg.rate <= Hour * MaxRate
    BY <1>1, MulMono
  <2>3. Hour * cfg.rate = cfg.rate * Hour /\ Hour * MaxRate = MaxRate * Hour
        /\ cfg.rate * Hour \in Int /\ MaxRate * Hour \in Int
    BY <1>1
  <2> QED  BY <1>1, <2>1, <2>2, <2>3
<1>3. Budget(n, b.last) + MaxRate * Hour <= Budget(n, t)
  <2>1. MaxRate * Hour <= MaxRate * (t - b.last)
    BY <1>1, MulMono
  <2>2. MaxRate * (t - b.last) = MaxRate * t - MaxRate * b.last
    BY <1>1, MulDiff
  <2>3. n * MaxBurst * Unit \in Int /\ MaxRate * t \in Int /\ MaxRate * b.last \in Int
        /\ MaxRate * Hour \in Int
    BY <1>1, RateAssumption
  <2> QED  BY <2>1, <2>2, <2>3 DEF Budget
<1>4. b.last \in Int /\ t \in Int
  BY <1>1
<1>6. \A u \in Int : Budget(n, u) \in Int
  BY BudgetGrows
<1>5. g * Unit \in Int /\ MaxRate * Hour \in Int
  BY <1>1
<1> QED  BY <1>1, <1>2, <1>3, <1>4, <1>5, <1>6 DEF Spent

\* Time that passes leaves a client within its budget.
LEMMA SpentStays ==
  ASSUME NEW b \in Bucket, NEW g \in Nat, NEW n \in Nat, NEW t \in Nat,
         b.last <= t, b.rate <= MaxRate, Spent(b, g, n, t)
  PROVE  Spent(b, g, n, t + 1)
<1>1. g * Unit \in Int /\ b.rate \in Nat /\ b.last \in Int /\ MaxRate \in Nat
      /\ MaxBurst * Unit \in Int
  BY RateAssumption DEF Bucket
<1>2. Budget(n, t) \in Int /\ Budget(n, t + 1) = Budget(n, t) + MaxRate
  BY BudgetGrows
<1>4. Budget(n, b.last) \in Int
  BY <1>1, BudgetGrows
<1>3. Level(b, t) \in Nat /\ Level(b, t + 1) \in Nat /\ Level(b, t + 1) <= Level(b, t) + b.rate
  BY <1>1, LevelGrows
<1> QED  BY <1>1, <1>2, <1>3, <1>4 DEF Spent

\* The tokens of the entry that check works on are within the budget.
LEMMA EntryInBudget ==
  ASSUME Typed, Budgets, task /= "down", NEW c \in Clients
  PROVE  granted[c] * Unit + Refill(EntryOf(c)).tokens <= Budget(starts, now)
<1>1. now \in Nat /\ config \in Configs /\ Refill(EntryOf(c)) \in Bucket
  BY EntryTyped, RateAssumption DEF Typed, TypeOK
<1>2. Refill(EntryOf(c)).tokens = Level(EntryOf(c), now)
  BY DEF Refill, Level
<1>3. CASE buckets[c] = NoBucket
  <2>1. /\ CreateBucket \in Bucket /\ CreateBucket.last = now
        /\ CreateBucket.tokens = config.burst * Unit
    BY <1>1, CreateTyped DEF CreateBucket
  <2>2. Level(CreateBucket, now) <= config.burst * Unit /\ Level(CreateBucket, now) \in Nat
    BY <1>1, <2>1, LevelGrows
  <2>3. granted[c] * Unit + config.burst * Unit <= Budget(starts, now)
    BY <1>3 DEF Budgets
  <2>4. granted[c] \in Nat /\ starts \in Nat /\ Unit \in Nat
    BY RateAssumption DEF Typed, TypeOK
  <2>5. granted[c] * Unit \in Int /\ config.burst * Unit \in Int
    BY <1>1, <2>4, ConfigInRange
  <2>6. Budget(starts, now) \in Int
    BY <1>1, <2>4, BudgetGrows
  <2> QED  BY <1>2, <1>3, <2>2, <2>3, <2>5, <2>6 DEF EntryOf
<1>4. CASE buckets[c] /= NoBucket
  BY <1>2, <1>4 DEF EntryOf, Budgets, Spent
<1> QED  BY <1>3, <1>4

\* Every action keeps the clients within their budgets, if buckets fill in an hour.
LEMMA BudgetsStep == AllFill /\ Typed /\ Configured /\ Budgets /\ [Next]_vars => Budgets'
<1> SUFFICES ASSUME AllFill, Typed, Configured, Budgets, [Next]_vars PROVE Budgets'
  OBVIOUS
<1>t. /\ now \in Nat /\ config \in Configs /\ starts \in Nat /\ Unit \in Nat
      /\ granted \in [Clients -> Nat]
      /\ buckets \in [Clients -> Bucket \cup {NoBucket}]
      /\ rows \in [Clients -> Row \cup {NoBucket}]
      /\ NoBucket \notin Bucket /\ MaxBurst * Unit \in Nat
  BY RateAssumption DEF Typed, TypeOK
<1>b. Budget(starts, now) \in Int
  BY <1>t, BudgetGrows
<1>g. \A c \in Clients : granted[c] \in Nat /\ granted[c] * Unit \in Int
  BY <1>t
<1>1. ASSUME NEW c \in Clients, Allow(c) PROVE Budgets'
  <2>1. PICK b \in Bucket : b = Refill(EntryOf(c))
    BY EntryTyped
  <2>2. b.last = now /\ granted[c] * Unit + b.tokens <= Budget(starts, now)
        /\ task /= "down" /\ b.tokens >= Unit
    BY <1>1, <2>1, EntryTyped, EntryInBudget DEF Allow, Serving, MayConsume
  <2>3. Consume(b) \in Bucket /\ Consume(b).last = now /\ Consume(b).tokens = b.tokens - Unit
    BY <1>t, <2>2 DEF Consume, Bucket
  <2>4. (granted[c] + 1) * Unit + Consume(b).tokens <= Budget(starts, now)
    <3>1. (granted[c] + 1) * Unit = granted[c] * Unit + Unit
      BY <1>t, <1>g
    <3>2. b.tokens \in Nat
      BY DEF Bucket
    <3> QED  BY <1>t, <1>b, <1>g, <2>2, <2>3, <3>1, <3>2
  <2>5. Spent(Consume(b), granted[c] + 1, starts, now)
    BY <1>t, <1>g, <2>3, <2>4, UsedIsSpent
  <2>6. /\ buckets' = [buckets EXCEPT ![c] = Consume(b)]
        /\ granted' = [granted EXCEPT ![c] = @ + 1]
        /\ UNCHANGED <<now, config, task, starts>>
    BY <1>1, <2>1 DEF Allow
  <2>7. \A d \in Clients \ {c} : buckets'[d] = buckets[d] /\ granted'[d] = granted[d]
    BY <1>t, <2>6
  <2>8. buckets'[c] = Consume(b) /\ granted'[c] = granted[c] + 1 /\ buckets'[c] /= NoBucket
    BY <1>t, <2>3, <2>6
  <2> QED  BY <2>2, <2>5, <2>6, <2>7, <2>8 DEF Budgets
<1>2. ASSUME NEW c \in Clients, Deny(c) PROVE Budgets'
  <2>1. PICK b \in Bucket : b = Refill(EntryOf(c))
    BY EntryTyped
  <2>2. b.last = now /\ granted[c] * Unit + b.tokens <= Budget(starts, now) /\ task /= "down"
    BY <1>2, <2>1, EntryTyped, EntryInBudget DEF Deny, Serving
  <2>3. Spent(b, granted[c], starts, now)
    BY <1>t, <1>g, <2>2, UsedIsSpent
  <2>4. buckets' = [buckets EXCEPT ![c] = b] /\ UNCHANGED <<now, config, task, starts, granted>>
    BY <1>2, <2>1 DEF Deny
  <2>5. \A d \in Clients \ {c} : buckets'[d] = buckets[d]
    BY <1>t, <2>4
  <2>6. buckets'[c] = b /\ b /= NoBucket
    BY <1>t, <2>4
  <2> QED  BY <2>2, <2>3, <2>4, <2>5, <2>6 DEF Budgets
<1>3. CASE Export
  BY <1>3 DEF Export, Budgets, history
<1>4. CASE Save
  BY <1>4 DEF Save, Budgets, history
<1>5. CASE SaveFails
  BY <1>5 DEF SaveFails, Budgets, history
<1>6. CASE Cleanup
  <2>1. UNCHANGED <<now, config, starts, granted>> /\ task /= "down" /\ task' /= "down"
    BY <1>6 DEF Cleanup, history
  <2>2. ASSUME NEW c \in Clients
        PROVE  /\ buckets'[c] /= NoBucket => Spent(buckets'[c], granted[c], starts, now)
               /\ buckets'[c] = NoBucket =>
                    granted[c] * Unit + config.burst * Unit <= Budget(starts, now)
    <3>1. CASE buckets[c] /= NoBucket /\ Expired(buckets[c])
      <4>1. buckets'[c] = NoBucket
        BY <1>6, <3>1 DEF Cleanup
      <4>2. buckets[c] \in Bucket /\ now - buckets[c].last >= Hour
            /\ Spent(buckets[c], granted[c], starts, now)
        BY <1>t, <3>1 DEF Expired, Budgets
      <4>3. FillsInAnHour(config)
        BY <1>t DEF AllFill
      <4> QED  BY <1>t, <1>g, <4>1, <4>2, <4>3, IdleIsReplaceable
    <3>2. CASE ~(buckets[c] /= NoBucket /\ Expired(buckets[c]))
      <4>1. buckets'[c] = buckets[c]
        BY <1>6, <3>2 DEF Cleanup
      <4> QED  BY <2>1, <4>1 DEF Budgets
    <3> QED  BY <3>1, <3>2
  <2> QED  BY <2>1, <2>2 DEF Budgets
<1>7. CASE Stop
  <2>1. /\ UNCHANGED <<now, config, starts, granted>>
        /\ task' = "down" /\ task /= "down" /\ \A c \in Clients : buckets'[c] = NoBucket
    BY <1>7 DEF Stop, history
  <2>2. ASSUME NEW c \in Clients PROVE granted[c] * Unit <= Budget(starts, now)
    <3>1. CASE buckets[c] = NoBucket
      <4>1. granted[c] * Unit + config.burst * Unit <= Budget(starts, now)
        BY <2>1, <3>1 DEF Budgets
      <4>2. config.burst * Unit \in Nat
        BY <1>t, ConfigInRange
      <4> QED  BY <1>b, <1>g, <4>1, <4>2
    <3>2. CASE buckets[c] /= NoBucket
      <4>1. granted[c] * Unit + Level(buckets[c], now) <= Budget(starts, now)
        BY <3>2 DEF Budgets, Spent
      <4>2. buckets[c] \in Bucket /\ buckets[c].last <= now
        BY <1>t, <3>2 DEF Typed
      <4>3. Level(buckets[c], now) \in Nat
        BY <1>t, <4>2, LevelGrows
      <4> QED  BY <1>b, <1>g, <4>1, <4>3
    <3> QED  BY <3>1, <3>2
  <2> QED  BY <2>1, <2>2 DEF Budgets
<1>8. ASSUME NEW cfg \in Configs, Start(cfg) \/ StartLoadFails(cfg) PROVE Budgets'
  <2>1. /\ UNCHANGED <<now, granted>> /\ task = "down"
        /\ config' = cfg /\ task' = "wait" /\ starts' = starts + 1
    BY <1>8 DEF Start, StartLoadFails, StartWith
  <2>2. Budget(starts + 1, now) = Budget(starts, now) + MaxBurst * Unit
    BY <1>t, BudgetGrows
  <2>3. \A c \in Clients : granted[c] * Unit + MaxBurst * Unit <= Budget(starts + 1, now)
    <3>1. \A c \in Clients : granted[c] * Unit <= Budget(starts, now)
      BY <2>1 DEF Budgets
    <3> QED  BY <1>t, <1>b, <1>g, <2>2, <3>1
  <2>4. Budget(starts + 1, now) \in Int
    BY <1>t, <1>b, <2>2
  <2>5. ASSUME NEW c \in Clients, buckets'[c] /= NoBucket
        PROVE  Spent(buckets'[c], granted[c], starts + 1, now)
    <3>1. rows[c] /= NoBucket /\ buckets'[c] = ImportRow(rows[c])
      BY <1>8, <2>5 DEF Start, StartLoadFails
    <3>2. rows[c] \in Row /\ Capped(rows[c]) /\ skew \in Int
      BY <1>t, <3>1, RateAssumption DEF Typed, TypeOK
    <3>3. PICK b \in Bucket : b = ImportRow(rows[c]) /\ Capped(b) /\ b.last <= now
      BY <1>t, <2>5, <3>1, <3>2, ImportTyped
    <3>4. Level(b, now) \in Nat /\ Level(b, now) <= b.max /\ b.max \in Nat
      BY <1>t, <3>3, LevelGrows DEF Bucket
    <3>5. granted[c] * Unit + Level(b, now) <= Budget(starts + 1, now)
      BY <1>t, <1>g, <2>3, <2>4, <3>3, <3>4 DEF Capped
    <3> QED  BY <2>3, <3>1, <3>3, <3>5 DEF Spent
  <2>6. \A c \in Clients : granted[c] * Unit + cfg.burst * Unit <= Budget(starts + 1, now)
    <3>1. cfg.burst * Unit \in Nat /\ cfg.burst * Unit <= MaxBurst * Unit
      BY ConfigInRange
    <3> QED  BY <1>t, <1>g, <2>3, <2>4, <3>1
  <2> QED  BY <2>1, <2>5, <2>6 DEF Budgets
<1>9. CASE Tick
  <2>1. UNCHANGED <<config, buckets, task, starts, granted>> /\ now' = now + 1
    BY <1>9 DEF Tick, history
  <2>2. Budget(starts, now + 1) \in Int /\ Budget(starts, now) <= Budget(starts, now + 1)
    <3>1. Budget(starts, now + 1) = Budget(starts, now) + MaxRate /\ MaxRate \in Nat
      BY <1>t, BudgetGrows, RateAssumption
    <3> QED  BY <1>b, <3>1
  <2>3. ASSUME NEW c \in Clients, buckets[c] /= NoBucket
        PROVE  Spent(buckets[c], granted[c], starts, now + 1)
    <3>1. /\ buckets[c] \in Bucket /\ buckets[c].last <= now
          /\ Spent(buckets[c], granted[c], starts, now) /\ FromConfig(buckets[c])
      BY <1>t, <2>3 DEF Typed, Budgets, Configured
    <3>2. buckets[c].rate <= MaxRate
      BY <3>1, ConfiguredBounds
    <3> QED  BY <1>t, <1>g, <3>1, <3>2, SpentStays
  <2>4. config.burst * Unit \in Int
    BY <1>t, ConfigInRange
  <2>5. ASSUME NEW c \in Clients
        PROVE  /\ task = "down" => granted[c] * Unit <= Budget(starts, now + 1)
               /\ task /= "down" /\ buckets[c] = NoBucket =>
                    granted[c] * Unit + config.burst * Unit <= Budget(starts, now + 1)
    <3>1. granted[c] * Unit \in Int
      BY <1>g
    <3> QED  BY <1>b, <2>2, <2>4, <3>1 DEF Budgets
  <2> QED  BY <2>1, <2>3, <2>5 DEF Budgets
<1>10. ASSUME NEW s \in Skews, SetClock(s) PROVE Budgets'
  BY <1>10 DEF SetClock, Budgets, history
<1>11. CASE UNCHANGED vars
  BY <1>11 DEF vars, Budgets, history
<1> QED
  BY <1>1, <1>2, <1>3, <1>4, <1>5, <1>6, <1>7, <1>8, <1>9, <1>10, <1>11 DEF Next

\* A start gives a client one more burst at the most, whatever happens to the
\* clock, the configuration and the rows (main.rs, import_snapshots).
THEOREM StartsAreBounded == Spec => []StartQuota
<1>1. Init => Budgets
  <2> SUFFICES ASSUME Init PROVE Budgets
    OBVIOUS
  <2>1. /\ starts = 0 /\ now = 0 /\ task = "down"
        /\ \A c \in Clients : granted[c] = 0 /\ buckets[c] = NoBucket
    BY DEF Init
  <2>2. Unit \in Nat /\ MaxBurst \in Nat /\ MaxRate \in Nat
    BY RateAssumption
  <2>3. 0 * Unit = 0 /\ 0 * MaxBurst = 0 /\ MaxRate * 0 = 0
    BY <2>2
  <2>4. 0 * Unit <= Budget(0, 0)
    BY <2>3 DEF Budget
  <2> QED  BY <2>1, <2>4 DEF Budgets
<1>2. Typed /\ Budgets => \A c \in Clients : granted[c] * Unit <= Budget(starts, now)
  <2> SUFFICES ASSUME Typed, Budgets, NEW c \in Clients
               PROVE  granted[c] * Unit <= Budget(starts, now)
    OBVIOUS
  <2>1. /\ now \in Nat /\ config \in Configs /\ starts \in Nat /\ Unit \in Nat
        /\ granted[c] \in Nat /\ buckets[c] \in Bucket \cup {NoBucket}
    BY RateAssumption DEF Typed, TypeOK
  <2>2. granted[c] * Unit \in Int
    BY <2>1
  <2>3. Budget(starts, now) \in Int
    BY <2>1, BudgetGrows
  <2>4. CASE task = "down"
    BY <2>4 DEF Budgets
  <2>5. CASE task /= "down" /\ buckets[c] = NoBucket
    <3>1. granted[c] * Unit + config.burst * Unit <= Budget(starts, now)
      BY <2>5 DEF Budgets
    <3>2. config.burst * Unit \in Nat
      BY <2>1, ConfigInRange
    <3> QED  BY <2>2, <2>3, <3>1, <3>2
  <2>6. CASE buckets[c] /= NoBucket
    <3>1. granted[c] * Unit + Level(buckets[c], now) <= Budget(starts, now)
      BY <2>6 DEF Budgets, Spent
    <3>2. buckets[c] \in Bucket /\ buckets[c].last <= now
      BY <2>1, <2>6 DEF Typed
    <3>3. Level(buckets[c], now) \in Nat
      BY <2>1, <3>2, LevelGrows
    <3> QED  BY <2>2, <2>3, <3>1, <3>3
  <2> QED  BY <2>4, <2>5, <2>6
<1>3. CASE AllFill
  <2>1. AllFill /\ Typed /\ Configured /\ Budgets /\ [Next]_vars => Budgets'
    BY BudgetsStep
  <2>2. Typed /\ Budgets => StartQuota
    BY <1>2 DEF StartQuota, Budget
  <2> QED  BY <1>1, <1>3, <2>1, <2>2, TypedAlways, ConfiguredAlways, PTL DEF Spec
<1>4. CASE ~AllFill
  <2>1. StartQuota
    BY <1>4 DEF AllFill, StartQuota
  <2> QED  BY <2>1, PTL
<1> QED  BY <1>3, <1>4

-----------------------------------------------------------------------------
(* Announced times *)

\* Every configuration lets a bucket hold a token.
SomeBurst == \A cfg \in Configs : cfg.burst >= 1

\* By time p a bucket that is not used has a token, and its hour is not spent
\* or is over.
Serves(b, p) ==
  /\ Unit <= b.tokens + b.rate * (p - b.last)
  /\ config.rph = 0 \/ b.hourly < config.rph \/ p >= b.hour + Hour

\* The bucket of every client that was told a time serves it then.
Promises ==
  task /= "down" =>
    \A c \in Clients : buckets[c] /= NoBucket /\ promised[c] <= MaxNow =>
      Serves(buckets[c], promised[c])

\* A quotient that is rounded up covers what is divided.
LEMMA CeilingCovers == ASSUME NEW a \in Int, NEW b \in Nat, b /= 0
                       PROVE  Ceiling(a, b) \in Int /\ a <= b * Ceiling(a, b)
<1>1. PICK q : q = (a + b - 1) \div b
  OBVIOUS
<1>2. a + b - 1 \in Int
  OBVIOUS
<1>3. q \in Int /\ a + b - 1 < b * (q + 1)
  BY <1>1, <1>2
<1>4. b * (q + 1) = b * q + b /\ b * q \in Int
  BY <1>3
<1>5. a <= b * q
  BY <1>3, <1>4
<1> QED  BY <1>1, <1>3, <1>5 DEF Ceiling

\* A new client is served.
LEMMA FreshServes ==
  ASSUME SomeBurst, now \in Nat, config \in Configs
  PROVE  MayConsume(Refill(CreateBucket))
<1>1. /\ config.burst \in Nat /\ config.burst >= 1 /\ Unit \in Nat /\ config.rate \in Nat
      /\ config.rph \in Nat /\ Hour \in Nat /\ Hour > 0
  BY ConfigInRange, RateAssumption DEF SomeBurst
<1>2. PICK m \in Nat : m = config.burst * Unit
  BY <1>1, MulNat
<1>3. m >= Unit
  <2>1. Unit * 1 <= Unit * config.burst
    BY <1>1, MulMono
  <2>2. Unit * 1 = Unit /\ Unit * config.burst = config.burst * Unit
    BY <1>1
  <2> QED  BY <1>2, <2>1, <2>2
<1>4. config.rate * (now - now) = 0
  BY <1>1
<1>5. Refill(CreateBucket) = [tokens |-> m, max |-> m, rate |-> config.rate, last |-> now,
                              hourly |-> 0, hour |-> now]
  BY <1>1, <1>2, <1>4 DEF Refill, CreateBucket, Lesser
<1> QED  BY <1>1, <1>3, <1>5 DEF MayConsume, HourlySpent

\* A bucket serves at every time after one at which it does.
LEMMA ServedThen ==
  ASSUME NEW b \in Bucket, NEW p \in Int, now \in Nat, config \in Configs,
         b.max >= Unit, b.last <= now, p <= now, Serves(b, p)
  PROVE  MayConsume(Refill(b))
<1>1. /\ b.tokens \in Nat /\ b.rate \in Nat /\ b.max \in Nat /\ b.hourly \in Nat
      /\ b.last \in Int /\ b.hour \in Int /\ config.rph \in Nat /\ Unit \in Nat /\ Hour \in Nat
  BY ConfigInRange, RateAssumption DEF Bucket
<1>2. b.rate * (p - b.last) <= b.rate * (now - b.last)
      /\ b.rate * (p - b.last) \in Int /\ b.rate * (now - b.last) \in Int
  BY <1>1, MulMono
<1>3. Refill(b).tokens = Lesser(b.max, b.tokens + b.rate * (now - b.last))
  BY DEF Refill
<1>4. Refill(b).tokens >= Unit
  BY <1>1, <1>2, <1>3 DEF Lesser, Serves
<1>5. Refill(b).hourly = IF now - b.hour >= Hour THEN 0 ELSE b.hourly
  BY DEF Refill
<1>6. ~HourlySpent(Refill(b))
  BY <1>1, <1>5 DEF HourlySpent, Serves
<1> QED  BY <1>4, <1>6 DEF MayConsume

\* A refill does not put off the time at which a bucket serves.
LEMMA RefillServes ==
  ASSUME NEW b \in Bucket, NEW p \in Int, now \in Nat, config \in Configs,
         b.max >= Unit, b.last <= now, now <= p, Serves(b, p)
  PROVE  Serves(Refill(b), p)
<1>1. /\ b.tokens \in Nat /\ b.rate \in Nat /\ b.max \in Nat /\ b.hourly \in Nat
      /\ b.last \in Int /\ b.hour \in Int /\ config.rph \in Nat /\ Unit \in Nat /\ Hour \in Nat
  BY ConfigInRange, RateAssumption DEF Bucket
<1>2. PICK d : d = b.rate * (now - b.last)
  OBVIOUS
<1>3. PICK e : e = b.rate * (p - now)
  OBVIOUS
<1>4. d \in Nat /\ e \in Nat /\ b.rate * (p - b.last) = d + e
  <2>1. now - b.last \in Nat /\ p - now \in Nat /\ p - b.last = (now - b.last) + (p - now)
    BY <1>1
  <2>2. b.rate * ((now - b.last) + (p - now)) = b.rate * (now - b.last) + b.rate * (p - now)
    BY <1>1, <2>1, MulSum
  <2> QED  BY <1>1, <1>2, <1>3, <2>1, <2>2, MulNat
<1>5. /\ Refill(b).tokens = Lesser(b.max, b.tokens + b.rate * (now - b.last))
      /\ Refill(b).rate = b.rate /\ Refill(b).last = now
      /\ Refill(b).hourly = IF now - b.hour >= Hour THEN 0 ELSE b.hourly
      /\ Refill(b).hour = IF now - b.hour >= Hour THEN now ELSE b.hour
  BY DEF Refill
<1>6. Unit <= Lesser(b.max, b.tokens + d) + e
  BY <1>1, <1>4 DEF Lesser, Serves
<1>7. config.rph = 0 \/ Refill(b).hourly < config.rph \/ p >= Refill(b).hour + Hour
  BY <1>1, <1>5 DEF Serves
<1> QED  BY <1>2, <1>3, <1>5, <1>6, <1>7 DEF Serves

\* The bucket serves at the time that a denied client is told.
LEMMA AnnouncedServes ==
  ASSUME NEW b \in Bucket, now \in Nat, config \in Configs, b.last = now, b.rate /= 0
  PROVE  /\ Greater(RetryAfter(b), SecondsUntilToken(b)) \in Int
         /\ Serves(b, now + Greater(RetryAfter(b), SecondsUntilToken(b)))
<1>1. /\ b.tokens \in Nat /\ b.rate \in Nat /\ b.hourly \in Nat /\ b.hour \in Int
      /\ config.rph \in Nat /\ Unit \in Nat /\ Hour \in Nat
  BY ConfigInRange, RateAssumption DEF Bucket
<1>2. PICK s : s = SecondsUntilToken(b)
  OBVIOUS
<1>3. s \in Int /\ Unit <= b.tokens + b.rate * s
  <2>1. CASE b.tokens >= Unit
    <3>1. s = 0 /\ b.rate * 0 = 0
      BY <1>1, <1>2, <2>1 DEF SecondsUntilToken
    <3> QED  BY <1>1, <2>1, <3>1
  <2>2. CASE ~(b.tokens >= Unit)
    <3>1. s = Ceiling(Unit - b.tokens, b.rate)
      BY <1>2, <2>2 DEF SecondsUntilToken
    <3>2. Unit - b.tokens \in Int
      BY <1>1
    <3>3. s \in Int /\ Unit - b.tokens <= b.rate * s
      BY <1>1, <3>1, <3>2, CeilingCovers
    <3>4. b.rate * s \in Int
      BY <1>1, <3>3
    <3> QED  BY <1>1, <3>3, <3>4
  <2> QED  BY <2>1, <2>2
<1>4. PICK h : h = SecondsUntilHourReset(b)
  OBVIOUS
<1>5. h \in Int /\ now + h >= b.hour + Hour
  BY <1>1, <1>4 DEF SecondsUntilHourReset, Greater
<1>6. PICK w : w = Greater(RetryAfter(b), SecondsUntilToken(b))
  OBVIOUS
<1>7. w \in Int /\ w >= s /\ (HourlySpent(b) => w >= h)
  BY <1>2, <1>3, <1>4, <1>5, <1>6 DEF RetryAfter, Greater
<1>8. Unit <= b.tokens + b.rate * ((now + w) - b.last)
  <2>1. b.rate * s <= b.rate * w
    BY <1>1, <1>3, <1>7, MulMono
  <2>2. (now + w) - b.last = w
    BY <1>7
  <2>3. b.rate * s \in Int /\ b.rate * w \in Int
    BY <1>1, <1>3, <1>7
  <2> QED  BY <1>1, <1>3, <2>1, <2>2, <2>3
<1>9. config.rph = 0 \/ b.hourly < config.rph \/ now + w >= b.hour + Hour
  BY <1>1, <1>5, <1>7 DEF HourlySpent
<1> QED  BY <1>6, <1>7, <1>8, <1>9 DEF Serves

\* A bucket of the store can hold a token.
LEMMA StoredIsRoomy ==
  ASSUME SomeBurst, Typed, Configured, NEW c \in Clients, buckets[c] /= NoBucket
  PROVE  buckets[c].max >= Unit
BY ConfiguredBounds DEF SomeBurst, Configured

\* Every client is served from the time on that it was told.
LEMMA PromisesServe ==
  ASSUME SomeBurst, Typed, Configured, Promises, task /= "down", NEW c \in Clients,
         now >= promised[c]
  PROVE  MayConsume(Refill(EntryOf(c)))
<1>1. /\ now \in Nat /\ now <= MaxNow /\ MaxNow \in Nat /\ config \in Configs
      /\ promised[c] \in Int /\ buckets[c] \in Bucket \cup {NoBucket}
  BY RateAssumption DEF Typed, TypeOK
<1>2. CASE buckets[c] = NoBucket
  BY <1>1, <1>2, FreshServes DEF EntryOf
<1>3. CASE buckets[c] /= NoBucket
  <2>1. buckets[c] \in Bucket /\ buckets[c].max >= Unit /\ buckets[c].last <= now
    BY <1>1, <1>3, StoredIsRoomy DEF Typed
  <2>2. promised[c] <= MaxNow
    BY <1>1
  <2>3. Serves(buckets[c], promised[c])
    BY <1>3, <2>2 DEF Promises
  <2>4. EntryOf(c) = buckets[c]
    BY <1>3 DEF EntryOf
  <2> QED  BY <1>1, <2>1, <2>3, <2>4, ServedThen
<1> QED  BY <1>2, <1>3

\* Every action keeps the announced times true.
LEMMA PromisesStep ==
  SomeBurst /\ Typed /\ Configured /\ Promises /\ [Next]_vars => Promises'
<1> SUFFICES ASSUME SomeBurst, Typed, Configured, Promises, [Next]_vars PROVE Promises'
  OBVIOUS
<1>t. /\ now \in Nat /\ config \in Configs /\ MaxNow \in Nat
      /\ buckets \in [Clients -> Bucket \cup {NoBucket}]
      /\ promised \in [Clients -> Int] /\ NoBucket \notin Bucket
  BY RateAssumption DEF Typed, TypeOK
<1>1. ASSUME NEW c \in Clients, Allow(c) PROVE Promises'
  <2>1. /\ buckets' = [buckets EXCEPT ![c] = Consume(Refill(EntryOf(c)))]
        /\ promised' = [promised EXCEPT ![c] = MaxNow + 1]
        /\ UNCHANGED <<config, task>>
    BY <1>1 DEF Allow
  <2>2. ~(promised'[c] <= MaxNow)
    BY <1>t, <2>1
  <2>3. \A d \in Clients \ {c} : buckets'[d] = buckets[d] /\ promised'[d] = promised[d]
    BY <1>t, <2>1
  <2> QED  BY <2>1, <2>2, <2>3 DEF Promises, Serves
<1>2. ASSUME NEW c \in Clients, Deny(c) PROVE Promises'
  <2>1. PICK b \in Bucket : b = Refill(EntryOf(c))
    BY EntryTyped
  <2>2. b.last = now /\ task /= "down" /\ ~MayConsume(b)
    BY <1>2, <2>1, EntryTyped DEF Deny, Serving
  <2>3. buckets[c] \in Bucket /\ buckets[c] /= NoBucket /\ EntryOf(c) = buckets[c]
    BY <1>t, <2>1, <2>2, FreshServes DEF EntryOf
  <2>4. now <= promised[c]
    BY <1>t, <2>1, <2>2, PromisesServe
  <2>5. promised[c] <= MaxNow => Serves(b, promised[c])
    <3>1. buckets[c].max >= Unit /\ buckets[c].last <= now
      BY <2>3, StoredIsRoomy DEF Typed
    <3>2. promised[c] <= MaxNow => Serves(buckets[c], promised[c])
      BY <2>2, <2>3 DEF Promises
    <3>3. promised[c] \in Int
      BY <1>t
    <3> QED  BY <1>t, <2>1, <2>3, <2>4, <3>1, <3>2, <3>3, RefillServes
  <2>6. PICK w : w = Greater(RetryAfter(b), SecondsUntilToken(b))
    OBVIOUS
  <2>7. b.rate /= 0 => w \in Int /\ Serves(b, now + w)
    BY <1>t, <2>2, <2>6, AnnouncedServes
  <2>8. /\ buckets' = [buckets EXCEPT ![c] = b]
        /\ promised' = [promised EXCEPT ![c] = IF b.rate = 0 THEN @ ELSE Lesser(@, now + w)]
        /\ UNCHANGED <<config, task>>
    BY <1>2, <2>1, <2>6 DEF Deny
  <2>9. buckets'[c] = b
        /\ (promised'[c] = promised[c] \/ (b.rate /= 0 /\ promised'[c] = now + w))
    BY <1>t, <2>8 DEF Lesser
  <2>10. promised'[c] <= MaxNow => Serves(b, promised'[c])
    BY <2>5, <2>7, <2>9
  <2>11. \A d \in Clients \ {c} : buckets'[d] = buckets[d] /\ promised'[d] = promised[d]
    BY <1>t, <2>8
  <2> QED  BY <2>2, <2>8, <2>9, <2>10, <2>11 DEF Promises, Serves
<1>3. CASE Export
  BY <1>3 DEF Export, Promises, Serves, history
<1>4. CASE Save
  BY <1>4 DEF Save, Promises, Serves, history
<1>5. CASE SaveFails
  BY <1>5 DEF SaveFails, Promises, Serves, history
<1>6. CASE Cleanup
  BY <1>6 DEF Cleanup, Promises, Serves, history
<1>7. CASE Stop
  BY <1>7 DEF Stop, Promises
<1>8. ASSUME NEW cfg \in Configs, Start(cfg) \/ StartLoadFails(cfg) PROVE Promises'
  <2>1. \A c \in Clients : promised'[c] = MaxNow + 1
    BY <1>8 DEF Start, StartLoadFails, StartWith
  <2> QED  BY <1>t, <2>1 DEF Promises
<1>9. CASE Tick
  BY <1>9 DEF Tick, Promises, Serves, history
<1>10. ASSUME NEW s \in Skews, SetClock(s) PROVE Promises'
  BY <1>10 DEF SetClock, Promises, Serves, history
<1>11. CASE UNCHANGED vars
  BY <1>11 DEF vars, Promises, Serves, history
<1> QED
  BY <1>1, <1>2, <1>3, <1>4, <1>5, <1>6, <1>7, <1>8, <1>9, <1>10, <1>11 DEF Next

\* If every configuration has a burst, a denied client that waits for the time it
\* was told, and for a token, is served (check, RateLimitResult::Denied): the
\* snapshot task, cleanup and other clients do not put the time off.
THEOREM RetriesAreServed == SomeBurst => (Spec => []RetryIsServed)
<1> SUFFICES ASSUME SomeBurst PROVE Spec => []RetryIsServed
  OBVIOUS
<1>1. Init => Promises
  BY DEF Init, Promises
<1>2. Typed /\ Configured /\ Promises /\ [Next]_vars => Promises'
  BY PromisesStep
<1>3. Typed /\ Configured /\ Promises => RetryIsServed
  BY PromisesServe DEF RetryIsServed, Serving
<1> QED  BY <1>1, <1>2, <1>3, TypedAlways, ConfiguredAlways, PTL DEF Spec
=============================================================================
