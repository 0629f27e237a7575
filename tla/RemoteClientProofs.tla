------------------------- MODULE RemoteClientProofs -------------------------
(***************************************************************************)
(* A fetch of the remote client ends with what it earned and within its    *)
(* bounds, for every config, every server and every caller's context.      *)
(***************************************************************************)
EXTENDS RemoteClient, SequenceTheorems, TLAPS

Typed ==
    /\ clients \in [Keys -> Configs \cup {None}]
    /\ pc \in {"idle", "requesting", "sleeping", "returned"}
    /\ pc # "idle" => config \in Configs
    /\ answers \in Seq(Answers)
    /\ delay \in Nat /\ left \in Nat /\ elapsed \in Nat

\* The sleeps before the request that follows n answers.
Sleeps(n) == IF n = 0 THEN 0 ELSE config.min + (n - 1) * config.max

\* The time that n + 1 requests and the sleeps between them may take.
TimeOf(n) == config.fetchTimeout + n * config.retryTimeout + Sleeps(n)

NoVariantsYet == \A i \in 1..Len(answers) : answers[i] # "variants"

NotBegun == pc = "idle" => answers = <<>> /\ elapsed = 0

Requesting ==
    pc = "requesting" =>
        /\ Len(answers) <= config.retries
        /\ NoVariantsYet
        /\ elapsed + left <= TimeOf(Len(answers))

\* The request that the sleep precedes has its time still to come.
Sleeping ==
    pc = "sleeping" =>
        /\ Len(answers) \in 1..config.retries
        /\ NoVariantsYet
        /\ elapsed + left + config.retryTimeout <= TimeOf(Len(answers))

Returned ==
    pc = "returned" =>
        OutcomeIsEarned /\ elapsed <= TimeOf(config.retries)

FetchInv == Typed /\ NotBegun /\ Requesting /\ Sleeping /\ Returned

----------------------------------------------------------------------------
LEMMA ConfigType ==
  ASSUME NEW f \in Configs
  PROVE  /\ f.fetchTimeout \in Nat /\ f.retryTimeout \in Nat
         /\ f.retries \in Nat /\ f.scalar \in Nat
         /\ f.min \in Nat /\ f.max \in Nat
  BY RemoteClientAssumption DEF RemoteClientAssumption

LEMMA ProductGrows ==
  ASSUME NEW a \in Nat, NEW b \in Nat, a <= b, NEW c \in Nat
  PROVE  a * c <= b * c /\ a * c \in Nat /\ b * c \in Nat
<1>1. PICK d \in Nat : b = a + d
  <2>1. b - a \in Nat /\ b = a + (b - a)
    OBVIOUS
  <2> QED
    BY <2>1
<1>2. /\ b * c = a * c + d * c
      /\ a * c \in Nat /\ d * c \in Nat
  BY <1>1
<1> QED
  BY <1>2

LEMMA ProductSteps ==
  ASSUME NEW n \in Nat, NEW c \in Nat
  PROVE  (n + 1) * c = n * c + c /\ n * c \in Nat
  OBVIOUS

\* One more request takes a sleep and its timeout.
LEMMA TimeSteps ==
  ASSUME config \in Configs, NEW n \in Nat
  PROVE  /\ TimeOf(n) \in Nat
         /\ TimeOf(n + 1) = TimeOf(n) + config.retryTimeout
                + (IF n = 0 THEN config.min ELSE config.max)
<1> DEFINE rt == config.retryTimeout
           mx == config.max
<1>1. /\ config.fetchTimeout \in Nat /\ rt \in Nat /\ config.min \in Nat
      /\ mx \in Nat
  BY ConfigType
<1>2. (n + 1) * rt = n * rt + rt /\ n * rt \in Nat
  BY <1>1, ProductSteps
<1>3. CASE n = 0
  <2>1. n * rt = 0 /\ (n + 1) * rt = rt /\ ((n + 1) - 1) * mx = 0
    BY <1>1, <1>3
  <2> QED
    BY <1>1, <1>3, <2>1 DEF TimeOf, Sleeps
<1>4. CASE n # 0
  <2>1. n - 1 \in Nat /\ (n - 1) + 1 = n /\ (n + 1) - 1 = n
    BY <1>4
  <2>2. n * mx = (n - 1) * mx + mx /\ (n - 1) * mx \in Nat
    <3>1. ((n - 1) + 1) * mx = (n - 1) * mx + mx /\ (n - 1) * mx \in Nat
      BY <1>1, <2>1, ProductSteps
    <3> QED
      BY <2>1, <3>1
  <2> QED
    BY <1>1, <1>2, <1>4, <2>1, <2>2 DEF TimeOf, Sleeps
<1> QED
  BY <1>3, <1>4

LEMMA TimeGrows ==
  ASSUME config \in Configs, NEW m \in Nat, NEW n \in Nat, m <= n
  PROVE  TimeOf(m) <= TimeOf(n)
<1> DEFINE rt == config.retryTimeout
           mx == config.max
<1>1. /\ config.fetchTimeout \in Nat /\ rt \in Nat /\ config.min \in Nat
      /\ mx \in Nat
  BY ConfigType
<1>2. m * rt <= n * rt /\ m * rt \in Nat /\ n * rt \in Nat
  BY <1>1, ProductGrows
<1>3. Sleeps(m) <= Sleeps(n) /\ Sleeps(m) \in Nat /\ Sleeps(n) \in Nat
  <2>1. CASE m = 0 /\ n = 0
    BY <2>1 DEF Sleeps
  <2>2. CASE m = 0 /\ n # 0
    <3>1. (n - 1) * mx \in Nat
      BY <1>1, <2>2, ProductGrows
    <3> QED
      BY <1>1, <2>2, <3>1 DEF Sleeps
  <2>3. CASE m # 0
    <3>1. m - 1 \in Nat /\ n - 1 \in Nat /\ m - 1 <= n - 1 /\ n # 0
      BY <2>3
    <3>2. /\ (m - 1) * mx <= (n - 1) * mx
          /\ (m - 1) * mx \in Nat /\ (n - 1) * mx \in Nat
      BY <1>1, <3>1, ProductGrows
    <3> QED
      BY <1>1, <2>3, <3>1, <3>2 DEF Sleeps
  <2> QED
    BY <2>1, <2>2, <2>3
<1> QED
  BY <1>1, <1>2, <1>3 DEF TimeOf

\* The time that all requests may take, as FetchIsBounded writes it.
LEMMA TimeOfRetries ==
  ASSUME config \in Configs
  PROVE  TimeOf(config.retries) =
            config.fetchTimeout + config.retries * config.retryTimeout
                + (IF config.retries = 0 THEN 0 ELSE config.min)
                + (IF config.retries = 0 THEN 0
                   ELSE (config.retries - 1) * config.max)
<1> DEFINE n  == config.retries
           rt == n * config.retryTimeout
           mx == (n - 1) * config.max
<1>1. /\ config.fetchTimeout \in Nat /\ config.retryTimeout \in Nat
      /\ config.min \in Nat /\ config.max \in Nat /\ n \in Nat
  BY ConfigType
<1>2. rt \in Nat
  BY <1>1, ProductGrows
<1>3. n # 0 => mx \in Nat
  <2>1. n # 0 => n - 1 \in Nat
    BY <1>1
  <2> QED
    BY <1>1, <2>1, ProductGrows
<1>4. TimeOf(n) = config.fetchTimeout + rt
                    + (IF n = 0 THEN 0 ELSE config.min + mx)
  BY DEF TimeOf, Sleeps
<1> HIDE DEF n, rt, mx
<1>5. TimeOf(n) = config.fetchTimeout + rt
                    + (IF n = 0 THEN 0 ELSE config.min)
                    + (IF n = 0 THEN 0 ELSE mx)
  BY <1>1, <1>2, <1>3, <1>4
<1> QED
  BY <1>5 DEF n, rt, mx

----------------------------------------------------------------------------
LEMMA FetchInit == Init => FetchInv
  BY DEF Init, FetchInv, Typed, NotBegun, Requesting, Sleeping, Returned

\* Steps of the fetch that no answer ends.
LEMMA FetchBegins ==
  ASSUME FetchInv, NEW k \in Keys, Fetch(k)
  PROVE  FetchInv'
<1>1. /\ config' = clients[k] /\ config' \in Configs
      /\ pc' = "requesting" /\ answers' = <<>> /\ elapsed' = 0
      /\ left' = config'.fetchTimeout
      /\ UNCHANGED <<clients, delay>>
  BY DEF Fetch, FetchInv, Typed, NotBegun, initVars
<1>2. /\ config'.fetchTimeout \in Nat /\ config'.retryTimeout \in Nat
      /\ config'.retries \in Nat
  BY <1>1, ConfigType
<1>3. Typed'
  BY <1>1, <1>2 DEF FetchInv, Typed
<1>4. Len(answers') = 0
  BY <1>1
<1>5. TimeOf(Len(answers))' = config'.fetchTimeout
  <2>1. 0 * config'.retryTimeout = 0
    BY <1>2
  <2> QED
    BY <1>2, <1>4, <2>1 DEF TimeOf, Sleeps
<1>6. Requesting'
  BY <1>1, <1>2, <1>4, <1>5 DEF Requesting, NoVariantsYet
<1> QED
  BY <1>1, <1>3, <1>6 DEF FetchInv, NotBegun, Sleeping, Returned

LEMMA TimerFiresKeeps ==
  ASSUME FetchInv, TimerFires
  PROVE  FetchInv'
<1>1. /\ pc = "sleeping" /\ left = 0 /\ pc' = "requesting"
      /\ left' = config.retryTimeout /\ config \in Configs
      /\ UNCHANGED <<clients, config, answers, delay, elapsed>>
      /\ elapsed \in Nat /\ config.retryTimeout \in Nat
      /\ config.retries \in Nat
  BY ConfigType DEF TimerFires, FetchInv, Typed, initVars
<1>2. Typed'
  BY <1>1 DEF FetchInv, Typed
<1>3. TimeOf(Len(answers))' = TimeOf(Len(answers))
  BY <1>1 DEF TimeOf, Sleeps
<1>4. /\ Len(answers) \in 1..config.retries /\ NoVariantsYet
      /\ elapsed + 0 + config.retryTimeout <= TimeOf(Len(answers))
  BY <1>1 DEF FetchInv, Sleeping
<1>5. Requesting'
  BY <1>1, <1>3, <1>4 DEF Requesting, NoVariantsYet
<1> QED
  BY <1>1, <1>2, <1>5 DEF FetchInv, NotBegun, Sleeping, Returned

LEMMA TickKeeps ==
  ASSUME FetchInv, Tick
  PROVE  FetchInv'
<1>1. /\ pc \in {"requesting", "sleeping"} /\ left \in Nat /\ left > 0
      /\ elapsed \in Nat
      /\ left' = left - 1 /\ elapsed' = elapsed + 1
      /\ UNCHANGED <<clients, pc, config, answers, delay>>
  BY DEF Tick, FetchInv, Typed, initVars
<1>2. left' \in Nat /\ elapsed' \in Nat /\ elapsed' + left' = elapsed + left
  BY <1>1
<1>3. Typed'
  BY <1>1, <1>2 DEF FetchInv, Typed
<1>4. TimeOf(Len(answers))' = TimeOf(Len(answers))
  BY <1>1 DEF TimeOf, Sleeps
<1>5. Requesting' /\ Sleeping'
  BY <1>1, <1>2, <1>4 DEF FetchInv, Requesting, Sleeping, NoVariantsYet
<1> QED
  BY <1>1, <1>3, <1>5 DEF FetchInv, NotBegun, Returned

\* Steps that are not of the fetch.
LEMMA FetchUntouched ==
  ASSUME FetchInv, clients' \in [Keys -> Configs \cup {None}],
         UNCHANGED <<pc, config, answers, delay, left, elapsed>>
  PROVE  FetchInv'
  BY DEF FetchInv, Typed, NotBegun, Requesting, Sleeping, Returned, TimeOf,
     Sleeps, NoVariantsYet, OutcomeIsEarned, Last

----------------------------------------------------------------------------
(* A request ends. *)

LEMMA RequestEndsKeeps ==
  ASSUME FetchInv, NEW a \in Answers, RequestEnds(a)
  PROVE  FetchInv'
<1> DEFINE n == Len(answers)
<1>1. /\ pc = "requesting" /\ config \in Configs
      /\ answers \in Seq(Answers) /\ n \in Nat
      /\ delay \in Nat /\ left \in Nat /\ elapsed \in Nat
      /\ config.retries \in Nat /\ config.retryTimeout \in Nat
      /\ config.min \in Nat /\ config.max \in Nat /\ config.scalar \in Nat
  BY ConfigType, LenProperties DEF RequestEnds, FetchInv, Typed
<1>2. /\ answers' = Append(answers, a)
      /\ UNCHANGED <<clients, config, elapsed>>
  BY DEF RequestEnds, initVars
<1>3. /\ n <= config.retries /\ NoVariantsYet
      /\ elapsed + left <= TimeOf(n)
  BY <1>1 DEF FetchInv, Requesting
<1>4. /\ answers' \in Seq(Answers) /\ Len(answers') = n + 1
      /\ \A i \in 1..n : answers'[i] = answers[i]
      /\ answers'[n + 1] = a
  BY <1>1, <1>2, AppendProperties
<1>5. \A i \in 1..n : answers'[i] # "variants"
  BY <1>3, <1>4 DEF NoVariantsYet
<1>6. \A m : TimeOf(m)' = TimeOf(m)
  BY <1>2 DEF TimeOf, Sleeps
<1>7. TimeOf(n) \in Nat /\ elapsed <= TimeOf(n)
  BY <1>1, <1>3, TimeSteps
<1> HIDE DEF n
<1>8. ASSUME Return,
             \/ a = "variants"
             \/ n + 1 = 1 + config.retries
             \/ n + 1 = 1 /\ a \in {"null", "client error"}
      PROVE  FetchInv'
  <2>1. Typed' /\ pc' = "returned"
    BY <1>1, <1>2, <1>4, <1>8 DEF Return, FetchInv, Typed
  <2>2. OutcomeIsEarned'
    <3>1. Last' = a /\ Len(answers') - 1 = n
      BY <1>1, <1>4 DEF Last
    <3> QED
      BY <1>2, <1>4, <1>5, <1>8, <3>1 DEF OutcomeIsEarned
  <2>3. elapsed' <= TimeOf(config.retries)'
    <3>1. TimeOf(n) <= TimeOf(config.retries) /\ TimeOf(config.retries) \in Nat
      BY <1>1, <1>3, TimeGrows, TimeSteps
    <3>2. TimeOf(config.retries)' = TimeOf(config.retries)
      BY <1>2 DEF TimeOf, Sleeps
    <3> QED
      BY <1>1, <1>2, <1>7, <3>1, <3>2
  <2> QED
    BY <2>1, <2>2, <2>3
    DEF FetchInv, NotBegun, Requesting, Sleeping, Returned
<1>9. ASSUME NEW d \in Nat, Sleep(d), n + 1 <= config.retries,
             a # "variants", d <= IF n = 0 THEN config.min ELSE config.max
      PROVE  FetchInv'
  <2>1. Typed' /\ pc' = "sleeping" /\ left' = d
    BY <1>1, <1>2, <1>4, <1>9 DEF Sleep, FetchInv, Typed
  <2>2. NoVariantsYet'
    <3>1. \A i \in 1..n + 1 : i \in 1..n \/ i = n + 1
      BY <1>1
    <3> QED
      BY <1>4, <1>5, <1>9, <3>1 DEF NoVariantsYet
  <2>3. elapsed' + left' + config'.retryTimeout <= TimeOf(Len(answers))'
    <3>1. TimeOf(n + 1) = TimeOf(n) + config.retryTimeout
                + (IF n = 0 THEN config.min ELSE config.max)
      BY <1>1, TimeSteps
    <3>2. TimeOf(Len(answers))' = TimeOf(n + 1)
      BY <1>2, <1>4 DEF TimeOf, Sleeps
    <3> DEFINE sleep == IF n = 0 THEN config.min ELSE config.max
    <3>3. sleep \in Nat /\ d <= sleep
      BY <1>1, <1>9
    <3>4. TimeOf(n + 1) = TimeOf(n) + config.retryTimeout + sleep
      BY <3>1
    <3> HIDE DEF sleep
    <3>5. elapsed + d + config.retryTimeout <= TimeOf(n + 1)
      BY <1>1, <1>7, <3>3, <3>4
    <3> QED
      BY <1>2, <2>1, <3>2, <3>5
  <2>4. Len(answers') \in 1..config'.retries
    BY <1>1, <1>2, <1>4, <1>9
  <2> QED
    BY <2>1, <2>2, <2>3, <2>4
    DEF FetchInv, NotBegun, Requesting, Sleeping, Returned
<1>10. CASE answers = <<>>
  <2>1. n = 0 /\ AfterFirst(a)
    BY <1>10 DEF RequestEnds, n
  <2>2. CASE IsError(a) /\ config.retries > 0 /\ ShouldRetryFetch(a)
    <3>1. Sleep(config.min) /\ a # "variants" /\ n + 1 <= config.retries
      BY <1>1, <2>1, <2>2 DEF AfterFirst, IsError
    <3> QED
      BY <1>1, <1>9, <2>1, <3>1
  <2>3. CASE ~(IsError(a) /\ config.retries > 0 /\ ShouldRetryFetch(a))
    <3>1. Return
      BY <2>1, <2>3 DEF AfterFirst
    <3>2. \/ a = "variants"
          \/ n + 1 = 1 + config.retries
          \/ n + 1 = 1 /\ a \in {"null", "client error"}
      <4>0. n = 0 /\ n + 1 = 1
        BY <2>1
      <4>1. CASE ~IsError(a)
        BY <4>0, <4>1 DEF IsError
      <4>2. CASE ~(config.retries > 0)
        <5>1. config.retries = 0
          BY <1>1, <4>2
        <5> QED
          BY <4>0, <5>1
      <4>3. CASE ~ShouldRetryFetch(a)
        BY <4>0, <4>3 DEF ShouldRetryFetch
      <4> QED
        BY <2>3, <4>1, <4>2, <4>3
    <3> QED
      BY <1>8, <3>1, <3>2
  <2> QED
    BY <2>2, <2>3
<1>11. CASE answers # <<>>
  <2>1. n # 0 /\ AfterRetry(a)
    BY <1>1, <1>11, EmptySeq DEF RequestEnds, n
  <2>2. CASE a = "variants" \/ Len(answers') > config.retries
    <3>1. Return
      BY <2>1, <2>2 DEF AfterRetry
    <3>2. a = "variants" \/ n + 1 = 1 + config.retries
      BY <1>1, <1>3, <1>4, <2>2
    <3> QED
      BY <1>8, <3>1, <3>2
  <2>3. CASE ~(a = "variants" \/ Len(answers') > config.retries)
    <3>1. Sleep(NextDelay(delay)) /\ n + 1 <= config.retries
      BY <1>1, <1>4, <2>1, <2>3 DEF AfterRetry
    <3>2. delay * config.scalar \in Nat
      BY <1>1
    <3>3. NextDelay(delay) \in Nat /\ NextDelay(delay) <= config.max
      BY <1>1, <3>2 DEF NextDelay
    <3> QED
      BY <1>9, <2>1, <2>3, <3>1, <3>3
  <2> QED
    BY <2>2, <2>3
<1> QED
  BY <1>10, <1>11

LEMMA FetchNext == ASSUME FetchInv, [Next]_vars PROVE FetchInv'
<1>1. ASSUME NEW k \in Keys, NEW f \in Configs, Initialize(k, f)
      PROVE  FetchInv'
  BY <1>1, FetchUntouched DEF Initialize, fetchVars, FetchInv, Typed
<1>2. CASE InitializePanics \/ Cancel \/ UNCHANGED vars
  BY <1>2, FetchUntouched
  DEF InitializePanics, Cancel, vars, initVars, fetchVars, FetchInv, Typed
<1>3. CASE \E a \in Answers : ServerAnswers(a)
  BY <1>3, RequestEndsKeeps DEF ServerAnswers
<1>4. CASE ContextEnds
  BY <1>4, RequestEndsKeeps DEF ContextEnds, Answers
<1> QED
  BY <1>1, <1>2, <1>3, <1>4, FetchBegins, TimerFiresKeeps, TickKeeps DEF Next

\* Whatever the config, the server's answers and the caller's context, a fetch
\* ends with variants as soon as there are some, and otherwise only after
\* every retry, or at once on a first answer that fetchInternal does not retry.
THEOREM OutcomeIsEarnedAlways == Spec => []OutcomeIsEarned
<1>1. FetchInv => OutcomeIsEarned
  BY DEF FetchInv, Returned, OutcomeIsEarned
<1> QED
  BY <1>1, FetchInit, FetchNext, PTL DEF Spec

\* A fetch takes no longer than all its requests and sleeps may take, for any
\* timeouts, number of retries and backoff, those of 0 included.
THEOREM FetchIsBoundedAlways == Spec => []FetchIsBounded
<1>1. ASSUME FetchInv, pc # "idle"
      PROVE  config \in Configs /\ elapsed <= TimeOf(config.retries)
  <2>1. /\ config \in Configs /\ config.retries \in Nat
        /\ elapsed \in Nat /\ left \in Nat /\ Len(answers) \in Nat
        /\ TimeOf(config.retries) \in Nat /\ config.retryTimeout \in Nat
    BY <1>1, ConfigType, LenProperties, TimeSteps DEF FetchInv, Typed
  <2>2. CASE pc = "returned"
    BY <1>1, <2>1, <2>2 DEF FetchInv, Returned
  <2>3. CASE pc \in {"requesting", "sleeping"}
    <3>1. TimeOf(Len(answers)) \in Nat
      BY <2>1, TimeSteps
    <3>2. Len(answers) <= config.retries /\ elapsed <= TimeOf(Len(answers))
      BY <1>1, <2>1, <2>3, <3>1 DEF FetchInv, Requesting, Sleeping
    <3>3. TimeOf(Len(answers)) <= TimeOf(config.retries)
      BY <2>1, <3>2, TimeGrows
    <3> QED
      BY <2>1, <3>1, <3>2, <3>3
  <2> QED
    BY <1>1, <2>1, <2>2, <2>3 DEF FetchInv, Typed
<1>2. FetchInv => FetchIsBounded
  BY <1>1, TimeOfRetries DEF FetchIsBounded
<1> QED
  BY <1>2, FetchInit, FetchNext, PTL DEF Spec

============================================================================
