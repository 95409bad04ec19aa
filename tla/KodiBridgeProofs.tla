-------------------------- MODULE KodiBridgeProofs --------------------------
(***************************************************************************)
(* Proofs about the three parts that talk to the bridge add-on, each for   *)
(* any values of its constants: the registration loop, the deployment      *)
(* scripts, and the staging of the repository zip.                         *)
(***************************************************************************)
EXTENDS RegistrationLoop, BridgeDeployment, DevRepoStaging, Integers, TLAPS
-----------------------------------------------------------------------------
(* The registration loop.                                                  *)

BridgeFields == {"installed", "running", "up", "accepts", "registered", "left", "ttl", "calm",
                 "zip", "uploaded"}
LoopFields == {"at", "healthy", "ttl", "needs", "sleep", "retry", "wait", "took", "gap"}
StagingPlaces == {"build", "upload", "verify"}

(* Only an add-on that accepts requests is registered with, and an outage  *)
(* ends the calm.                                                          *)
BridgeSound ==
    /\ DOMAIN bridge = BridgeFields
    /\ bridge.left \in Nat /\ bridge.ttl \in TTLs
    /\ bridge.registered => bridge.accepts
    /\ bridge.calm => bridge.up

LoopSound ==
    /\ DOMAIN loop = LoopFields
    /\ loop.sleep \in Nat /\ loop.wait \in Nat /\ loop.took \in Nat /\ loop.gap \in Nat
    /\ loop.ttl \in Nat /\ loop.retry \in Nat /\ loop.retry >= StageRetry

(* While a registration has to last, each place of the loop leaves it as   *)
(* much time as the loop needs to come round.                              *)
MustLast == bridge.registered /\ bridge.calm /\ bridge.ttl > IntervalFloor
Lasts ==
    MustLast =>
        /\ loop.at # "stopped"
        /\ loop.at # "sleep" => bridge.left > 0
        /\ loop.at = "sleep" => loop.sleep < bridge.left
        /\ loop.at \in StagingPlaces \cup {"state"} => bridge.left = bridge.ttl
        /\ loop.at \in StagingPlaces => loop.healthy /\ loop.ttl = bridge.ttl

(* Outside a staging the time since the last one began and the time to     *)
(* wait add up to the retry time.                                          *)
Paced ==
    /\ loop.at \in StagingPlaces => loop.gap >= StageRetry \/ loop.gap = loop.took
    /\ loop.at \notin StagingPlaces => loop.took = 0 /\ loop.gap + loop.wait >= StageRetry

LoopInv == BridgeSound /\ LoopSound /\ Lasts /\ Paced

LEMMA LoopNumbers ==
    /\ UnhealthyRetry \in Nat \ {0} /\ IntervalFloor \in Nat \ {0}
    /\ IntervalCap \in Nat \ {0} /\ StageRetry \in Nat \ {0}
    /\ StageRetryMax \in Nat \ {0}
    /\ IntervalFloor <= IntervalCap /\ StageRetry <= StageRetryMax
    /\ \A n \in TTLs : n \in Nat /\ n > 0
BY LoopAssumption, BridgeAssumption

LEMMA MaxOfTwo ==
    ASSUME NEW a \in Int, NEW b \in Int
    PROVE  Max({a, b}) = IF a >= b THEN a ELSE b
BY DEF Max

LEMMA MinOfTwo ==
    ASSUME NEW a \in Int, NEW b \in Int
    PROVE  Min({a, b}) = IF a <= b THEN a ELSE b
BY DEF Min

(* The sleep after a healthy round is shorter than the time to live,       *)
(* unless the floor makes it longer.                                       *)
LEMMA IntervalIsShort ==
    ASSUME NEW healthy, NEW ttl \in Nat, NEW needs
    PROVE  /\ Interval(healthy, ttl, needs) \in Nat
           /\ healthy /\ ttl > IntervalFloor => Interval(healthy, ttl, needs) < ttl
<1> DEFINE half == ttl \div 2
           low == Min({IntervalCap, half})
           fresh == Max({IntervalFloor, low})
<1>1. half \in Nat /\ (ttl > 0 => half < ttl)
  OBVIOUS
<1> HIDE DEF half
<1>2. low \in Nat /\ low <= half
  BY <1>1, LoopNumbers, MinOfTwo
<1> HIDE DEF low
<1>3. fresh \in Nat /\ (fresh = IntervalFloor \/ fresh = low)
  BY <1>2, LoopNumbers, MaxOfTwo
<1> HIDE DEF fresh
<1>4. Min({fresh, IntervalFloor}) \in Nat /\ Min({fresh, IntervalFloor}) <= fresh
  BY <1>3, LoopNumbers, MinOfTwo
<1>5. Interval(healthy, ttl, needs)
        = IF ~healthy THEN UnhealthyRetry
          ELSE IF needs THEN Min({fresh, IntervalFloor}) ELSE fresh
  BY DEF Interval, fresh, low, half
<1>6. ttl > IntervalFloor => fresh < ttl
  BY <1>1, <1>2, <1>3, LoopNumbers
<1>7. QED
  BY <1>3, <1>4, <1>5, <1>6, LoopNumbers

LEMMA SleepSets ==
    ASSUME NEW round, DOMAIN round = LoopFields, round.ttl \in Nat,
           Sleep(round)
    PROVE  /\ DOMAIN loop' = LoopFields /\ loop'.at = "sleep"
           /\ loop'.sleep = Interval(round.healthy, round.ttl, round.needs)
           /\ loop'.sleep \in Nat
           /\ loop'.ttl = round.ttl /\ loop'.retry = round.retry /\ loop'.wait = round.wait
           /\ loop'.took = round.took /\ loop'.gap = round.gap
<1>1. loop' = [round EXCEPT !.at = "sleep",
                 !.sleep = Interval(round.healthy, round.ttl, round.needs)]
  BY DEF Sleep
<1>2. QED
  BY <1>1, IntervalIsShort DEF LoopFields

LEMMA LoopInitSound == ASSUME LoopInit PROVE LoopInv
<1>1. PICK installed \in {NoBuild, Release}, ttl \in TTLs, stored \in Zips,
              accepts \in BOOLEAN :
        bridge = [installed |-> installed, running |-> installed,
                  up |-> installed # NoBuild, accepts |-> accepts, registered |-> FALSE,
                  left |-> 0, ttl |-> ttl, calm |-> FALSE, zip |-> stored,
                  uploaded |-> NoBuild]
  BY DEF LoopInit, InitBridge
<1>2. /\ DOMAIN bridge = BridgeFields /\ bridge.left = 0 /\ bridge.ttl = ttl
      /\ bridge.registered = FALSE /\ bridge.calm = FALSE
  BY <1>1 DEF BridgeFields
<1>3. BridgeSound /\ Lasts
  BY <1>2 DEF BridgeSound, Lasts, MustLast
<1>4. loop = [at |-> "register", healthy |-> FALSE, ttl |-> 0, needs |-> FALSE, sleep |-> 0,
              retry |-> StageRetry, wait |-> 0, took |-> 0, gap |-> StageRetry]
  BY DEF LoopInit, NewLoop
<1>5. /\ DOMAIN loop = LoopFields /\ loop.at = "register" /\ loop.ttl = 0 /\ loop.sleep = 0
      /\ loop.retry = StageRetry /\ loop.wait = 0 /\ loop.took = 0 /\ loop.gap = StageRetry
  BY <1>4 DEF LoopFields
<1>6. LoopSound /\ Paced
  BY <1>5, LoopNumbers DEF LoopSound, Paced, StagingPlaces
<1>7. QED
  BY <1>3, <1>6 DEF LoopInv

(* A round that goes wrong, when no registration has to last.              *)
LEMMA UnhealthyKeeps ==
    ASSUME LoopInv, loop.at \notin StagingPlaces, Unhealthy,
           BridgeSound', ~MustLast'
    PROVE  LoopInv'
<1> DEFINE round == [loop EXCEPT !.healthy = FALSE, !.needs = FALSE]
<1>1. /\ DOMAIN round = LoopFields /\ round.ttl = loop.ttl /\ round.retry = loop.retry
      /\ round.wait = loop.wait /\ round.took = loop.took /\ round.gap = loop.gap
  BY DEF LoopInv, LoopSound, LoopFields
<1>2. Sleep(round)
  BY DEF Unhealthy
<1> HIDE DEF round
<1>3. round.ttl \in Nat
  BY <1>1 DEF LoopInv, LoopSound
<1>4. LoopSound' /\ Paced'
  BY <1>1, <1>2, <1>3, SleepSets DEF LoopInv, LoopSound, Paced, StagingPlaces
<1>5. QED
  BY <1>4 DEF LoopInv, Lasts

(* A staging that ends: the next may begin the retry time after this one   *)
(* began.                                                                  *)
LEMMA NextStagingKeeps ==
    ASSUME LoopInv, loop.at \in StagingPlaces, NEW ready,
           NextStaging(ready), bridge' = bridge
    PROVE  LoopInv'
<1> DEFINE retry == IF ready THEN StageRetry ELSE Min({StageRetryMax, 2 * loop.retry})
           wait == Max({0, retry - loop.took})
           round == [loop EXCEPT !.retry = retry, !.wait = wait, !.took = 0]
<1>1. /\ DOMAIN loop = LoopFields /\ loop.took \in Nat /\ loop.gap \in Nat
      /\ loop.ttl \in Nat /\ loop.retry \in Nat /\ loop.retry >= StageRetry
      /\ loop.gap >= StageRetry \/ loop.gap = loop.took
  BY DEF LoopInv, LoopSound, Paced
<1>2. retry \in Nat /\ retry >= StageRetry
  <2>1. 2 * loop.retry \in Int /\ 2 * loop.retry >= StageRetry
    BY <1>1, LoopNumbers
  <2>2. QED
    BY <1>1, <2>1, LoopNumbers, MinOfTwo
<1>3. Sleep(round)
  BY DEF NextStaging
<1> HIDE DEF retry
<1>4. wait \in Nat /\ wait >= retry - loop.took
  BY <1>1, <1>2, MaxOfTwo
<1> HIDE DEF wait
<1>5. /\ DOMAIN round = LoopFields /\ round.ttl = loop.ttl /\ round.retry = retry
      /\ round.wait = wait /\ round.took = 0 /\ round.gap = loop.gap
      /\ round.healthy = loop.healthy
  BY <1>1 DEF LoopFields
<1> HIDE DEF round
<1>6. loop.gap + wait >= StageRetry
  BY <1>1, <1>2, <1>4, LoopNumbers
<1>7. LoopSound' /\ Paced'
  BY <1>1, <1>2, <1>3, <1>4, <1>5, <1>6, SleepSets DEF LoopSound, Paced, StagingPlaces
<1>8. Lasts'
  <2>1. SUFFICES ASSUME MustLast PROVE loop'.at = "sleep" /\ loop'.sleep < bridge.left
    BY DEF Lasts, MustLast, StagingPlaces
  <2>2. loop.healthy /\ loop.ttl = bridge.ttl /\ bridge.left = bridge.ttl
        /\ bridge.ttl > IntervalFloor
    BY <2>1 DEF LoopInv, Lasts, MustLast
  <2>3. loop'.at = "sleep" /\ loop'.sleep = Interval(loop.healthy, loop.ttl, round.needs)
    BY <1>1, <1>3, <1>5, SleepSets
  <2>4. QED
    BY <1>1, <2>2, <2>3, IntervalIsShort
<1>9. QED
  BY <1>7, <1>8 DEF LoopInv, BridgeSound

(* The steps of the environment: a registration is lost or kept with the   *)
(* time it has, and every disturbance ends the calm.                       *)
LEMMA BridgeMoves ==
    ASSUME LoopInv, UNCHANGED loop, DOMAIN bridge' = BridgeFields,
           bridge'.left = bridge.left, bridge'.ttl = bridge.ttl,
           \/ bridge'.calm = FALSE /\ (bridge'.registered => bridge'.accepts)
           \/ /\ bridge'.registered = bridge.registered /\ bridge'.calm = bridge.calm
              /\ bridge.up => bridge'.up
              /\ bridge.accepts => bridge'.accepts
    PROVE  LoopInv'
<1>1. BridgeSound' /\ LoopSound' /\ Paced'
  BY DEF LoopInv, BridgeSound, LoopSound, Paced, StagingPlaces
<1>2. Lasts'
  BY DEF LoopInv, Lasts, MustLast, StagingPlaces
<1>3. QED
  BY <1>1, <1>2 DEF LoopInv

LEMMA EnvironmentKeeps ==
    ASSUME LoopInv, UNCHANGED loop,
           BridgeEnvironment \/ BridgeIsReplaced
    PROVE  LoopInv'
<1>1. DOMAIN bridge = BridgeFields /\ (bridge.registered => bridge.accepts)
  BY DEF LoopInv, BridgeSound
<1>2. CASE InstallTakesEffect
  <2>1. bridge' = [bridge EXCEPT !.running = bridge.installed, !.up = FALSE,
                                 !.registered = FALSE, !.calm = FALSE]
    BY <1>2 DEF InstallTakesEffect
  <2>2. QED
    BY <1>1, <2>1, BridgeMoves DEF BridgeFields
<1>3. CASE BridgeStarts
  BY <1>1, <1>3, BridgeMoves DEF BridgeStarts, BridgeFields
<1>4. CASE BridgeStops
  <2>1. PICK kept \in BOOLEAN : bridge' = [bridge EXCEPT !.up = FALSE,
                                             !.registered = @ /\ kept, !.calm = FALSE]
    BY <1>4 DEF BridgeStops
  <2>2. /\ DOMAIN bridge' = BridgeFields /\ bridge'.left = bridge.left
        /\ bridge'.ttl = bridge.ttl /\ bridge'.calm = FALSE
        /\ bridge'.accepts = bridge.accepts
        /\ bridge'.registered = (bridge.registered /\ kept)
    BY <1>1, <2>1 DEF BridgeFields
  <2>3. QED
    BY <1>1, <2>2, BridgeMoves
<1>5. CASE UserSetsToken
  BY <1>1, <1>5, BridgeMoves DEF UserSetsToken, BridgeFields
<1>6. CASE BridgeIsReplaced
  <2>1. PICK b : bridge' = [bridge EXCEPT !.installed = b]
    BY <1>6 DEF BridgeIsReplaced, Install
  <2>2. QED
    BY <1>1, <2>1, BridgeMoves DEF BridgeFields
<1>7. QED
  BY <1>2, <1>3, <1>4, <1>5, <1>6 DEF BridgeEnvironment

-----------------------------------------------------------------------------
LEMMA RegisterKeeps ==
    ASSUME LoopInv,
           RegisterWithAddon \/ RegisterAnswerLost \/ RequestFails
    PROVE  LoopInv'
<1>1. /\ DOMAIN bridge = BridgeFields /\ bridge.ttl \in TTLs /\ bridge.ttl \in Nat
      /\ bridge.ttl > 0 /\ bridge.left \in Nat /\ (bridge.registered => bridge.accepts)
      /\ (bridge.calm => bridge.up) /\ DOMAIN loop = LoopFields
  BY LoopNumbers DEF LoopInv, BridgeSound, LoopSound
<1>2. loop.at \notin StagingPlaces
  BY DEF RegisterWithAddon, RegisterAnswerLost, RequestFails, LoopAt,
         StagingPlaces
<1>3. ASSUME bridge.up, bridge.accepts,
             bridge' = [bridge EXCEPT !.registered = TRUE, !.left = bridge.ttl, !.calm = TRUE],
             loop' = [loop EXCEPT !.at = "state"]
      PROVE  LoopInv'
  <2>1. /\ DOMAIN bridge' = BridgeFields /\ bridge'.left = bridge.ttl
        /\ bridge'.ttl = bridge.ttl /\ bridge'.up = bridge.up
        /\ bridge'.accepts = bridge.accepts
    BY <1>1, <1>3 DEF BridgeFields
  <2>2. /\ DOMAIN loop' = LoopFields /\ loop'.at = "state" /\ loop'.sleep = loop.sleep
        /\ loop'.wait = loop.wait /\ loop'.took = loop.took /\ loop'.gap = loop.gap
        /\ loop'.ttl = loop.ttl /\ loop'.retry = loop.retry
    BY <1>1, <1>3 DEF LoopFields
  <2>3. BridgeSound'
    BY <1>1, <1>3, <2>1 DEF BridgeSound
  <2>4. LoopSound' /\ Paced' /\ Lasts'
    BY <1>1, <1>2, <2>1, <2>2 DEF LoopInv, LoopSound, Paced, Lasts, StagingPlaces
  <2>5. QED
    BY <2>3, <2>4 DEF LoopInv
<1>4. CASE RegisterWithAddon
  <2>1. CASE bridge.accepts
    BY <1>3, <1>4, <2>1 DEF RegisterWithAddon, Registered
  <2>2. CASE ~bridge.accepts
    <3>1. Unhealthy /\ bridge' = bridge
      BY <1>4, <2>2 DEF RegisterWithAddon
    <3>2. BridgeSound' /\ ~MustLast'
      BY <1>1, <2>2, <3>1 DEF BridgeSound, MustLast
    <3>3. QED
      BY <1>2, <3>1, <3>2, UnhealthyKeeps
  <2>3. QED
    BY <2>1, <2>2
<1>5. CASE RegisterAnswerLost
  <2> DEFINE b == [bridge EXCEPT !.registered = TRUE, !.left = bridge.ttl, !.calm = TRUE]
  <2>1. bridge' = [b EXCEPT !.calm = FALSE] /\ bridge.accepts /\ Unhealthy
    BY <1>5 DEF RegisterAnswerLost, Registered
  <2>2. DOMAIN b = BridgeFields /\ b.left = bridge.ttl /\ b.ttl = bridge.ttl
        /\ b.accepts = bridge.accepts
    BY <1>1 DEF BridgeFields
  <2> HIDE DEF b
  <2>3. /\ DOMAIN bridge' = BridgeFields /\ bridge'.left = bridge.ttl
        /\ bridge'.ttl = bridge.ttl /\ bridge'.calm = FALSE
        /\ bridge'.accepts = bridge.accepts
    BY <2>1, <2>2 DEF BridgeFields
  <2>4. BridgeSound' /\ ~MustLast'
    BY <1>1, <2>1, <2>3 DEF BridgeSound, MustLast
  <2>5. QED
    BY <1>2, <2>1, <2>4, UnhealthyKeeps
<1>6. CASE RequestFails
  <2>1. /\ Unhealthy
        /\ \/ ~bridge.up /\ bridge' = bridge
           \/ bridge' = [bridge EXCEPT !.calm = FALSE]
    BY <1>6 DEF RequestFails
  <2>2. BridgeSound' /\ ~MustLast'
    BY <1>1, <2>1 DEF BridgeSound, MustLast, BridgeFields
  <2>3. QED
    BY <1>2, <2>1, <2>2, UnhealthyKeeps
<1>7. QED
  BY <1>4, <1>5, <1>6

LEMMA ReadStateKeeps ==
    ASSUME LoopInv, ReadAddonState
    PROVE  LoopInv'
<1> DEFINE needs == bridge.zip = "none"
           round == [loop EXCEPT !.healthy = TRUE, !.ttl = bridge.ttl, !.needs = needs]
           started == [round EXCEPT !.at = "build", !.gap = 0]
<1>1. /\ loop.at = "state" /\ bridge' = bridge
      /\ DOMAIN loop = LoopFields /\ bridge.ttl \in Nat /\ bridge.ttl > 0
      /\ loop.took = 0 /\ loop.gap + loop.wait >= StageRetry
      /\ loop.wait \in Nat /\ loop.gap \in Nat
  BY LoopNumbers
  DEF LoopInv, LoopSound, BridgeSound, Paced, StagingPlaces, ReadAddonState, LoopAt,
      bridgeVars
<1>2. MustLast => bridge.left = bridge.ttl
  BY <1>1 DEF LoopInv, Lasts
<1>3. /\ DOMAIN round = LoopFields /\ round.at = "state" /\ round.healthy = TRUE
      /\ round.ttl = bridge.ttl /\ round.retry = loop.retry /\ round.wait = loop.wait
      /\ round.took = loop.took /\ round.gap = loop.gap /\ round.sleep = loop.sleep
      /\ round.needs = needs
  BY <1>1 DEF LoopFields
<1>4. /\ DOMAIN started = LoopFields /\ started.at = "build" /\ started.healthy = TRUE
      /\ started.ttl = bridge.ttl /\ started.retry = loop.retry /\ started.wait = loop.wait
      /\ started.took = loop.took /\ started.gap = 0 /\ started.sleep = loop.sleep
  BY <1>1 DEF LoopFields
<1>5. \/ (~bridge.accepts \/ ~Fresh) /\ Unhealthy
      \/ loop' = started
      \/ Sleep(round)
  BY DEF ReadAddonState
<1> HIDE DEF needs, round, started
<1>6. CASE (~bridge.accepts \/ ~Fresh) /\ Unhealthy
  <2>1. BridgeSound' /\ ~MustLast'
    BY <1>1, <1>2, <1>6 DEF Fresh, LoopInv, BridgeSound, MustLast
  <2>2. QED
    BY <1>1, <1>6, <2>1, UnhealthyKeeps DEF StagingPlaces
<1>7. CASE loop' = started
  <2>1. LoopSound' /\ Paced'
    BY <1>1, <1>4, <1>7 DEF LoopInv, LoopSound, Paced, StagingPlaces
  <2>2. Lasts' /\ BridgeSound'
    BY <1>1, <1>4, <1>7 DEF LoopInv, BridgeSound, Lasts, MustLast
  <2>3. QED
    BY <2>1, <2>2 DEF LoopInv
<1>8. CASE Sleep(round)
  <2>1. round.ttl \in Nat
    BY <1>1, <1>3
  <2>2. LoopSound' /\ Paced'
    BY <1>1, <1>3, <1>8, SleepSets DEF LoopInv, LoopSound, Paced, StagingPlaces
  <2>3. ASSUME MustLast PROVE loop'.sleep < bridge.left
    BY <1>2, <1>3, <1>8, <2>1, <2>3, SleepSets, IntervalIsShort DEF MustLast
  <2>4. Lasts' /\ BridgeSound'
    BY <1>1, <1>3, <1>8, <2>3, SleepSets DEF LoopInv, BridgeSound, Lasts, MustLast,
       StagingPlaces
  <2>5. QED
    BY <2>2, <2>4 DEF LoopInv
<1>9. QED
  BY <1>5, <1>6, <1>7, <1>8

(* A step of the staging that leaves the loop among the staging places.    *)
LEMMA StagingKeeps ==
    ASSUME LoopInv, BuildRepoAddon \/ StageDevRepoZip PROVE LoopInv'
<1>1. /\ DOMAIN loop = LoopFields /\ loop.at \in StagingPlaces
      /\ \E place \in StagingPlaces : loop' = [loop EXCEPT !.at = place]
  BY DEF LoopInv, LoopSound, StagingPlaces, BuildRepoAddon, StageDevRepoZip, LoopAt
<1>2. /\ DOMAIN loop' = LoopFields /\ loop'.at \in StagingPlaces
      /\ loop'.healthy = loop.healthy /\ loop'.ttl = loop.ttl /\ loop'.sleep = loop.sleep
      /\ loop'.retry = loop.retry /\ loop'.wait = loop.wait /\ loop'.took = loop.took
      /\ loop'.gap = loop.gap
  BY <1>1 DEF LoopFields
<1>3. /\ DOMAIN bridge = BridgeFields
      /\ bridge' = bridge \/ bridge' = [bridge EXCEPT !.zip = "usable"]
  BY DEF LoopInv, BridgeSound, BuildRepoAddon, StageDevRepoZip, bridgeVars
<1>4. /\ DOMAIN bridge' = BridgeFields /\ bridge'.left = bridge.left
      /\ bridge'.ttl = bridge.ttl /\ bridge'.registered = bridge.registered
      /\ bridge'.accepts = bridge.accepts /\ bridge'.calm = bridge.calm
      /\ bridge'.up = bridge.up
  BY <1>3 DEF BridgeFields
<1>5. BridgeSound' /\ LoopSound'
  BY <1>2, <1>4 DEF LoopInv, BridgeSound, LoopSound
<1>6. Paced'
  BY <1>1, <1>2 DEF LoopInv, Paced
<1>7. Lasts'
  BY <1>1, <1>2, <1>4 DEF LoopInv, Lasts, MustLast, StagingPlaces
<1>8. QED
  BY <1>5, <1>6, <1>7 DEF LoopInv

LEMMA StagingEndKeeps ==
    ASSUME LoopInv, StagingRaises \/ VerifyStaged PROVE LoopInv'
<1>1. /\ loop.at \in StagingPlaces /\ bridge' = bridge
      /\ \E ready \in BOOLEAN : NextStaging(ready)
  BY DEF StagingRaises, VerifyStaged, LoopAt, StagingPlaces
<1>2. QED
  BY <1>1, NextStagingKeeps

(* The sleep is over: a registration that has to last is renewed in time.  *)
LEMMA WakeKeeps == ASSUME LoopInv, Wake PROVE LoopInv'
<1>1. /\ loop.at = "sleep" /\ loop.sleep = 0 /\ bridge' = bridge
      /\ DOMAIN loop = LoopFields
  BY DEF Wake, LoopAt, bridgeVars, LoopInv, LoopSound
<1>2. /\ DOMAIN loop' = LoopFields /\ loop'.at = "register" /\ loop'.ttl = 0
      /\ loop'.sleep = loop.sleep /\ loop'.retry = loop.retry /\ loop'.wait = loop.wait
      /\ loop'.took = loop.took /\ loop'.gap = loop.gap
  BY <1>1 DEF Wake, LoopFields
<1>3. BridgeSound' /\ LoopSound' /\ Paced'
  BY <1>1, <1>2 DEF LoopInv, BridgeSound, LoopSound, Paced, StagingPlaces
<1>4. Lasts'
  BY <1>1, <1>2 DEF LoopInv, BridgeSound, Lasts, MustLast, StagingPlaces
<1>5. QED
  BY <1>3, <1>4 DEF LoopInv

(* A server that stops ends the calm; its successor knows of no staging    *)
(* and must not wait.                                                      *)
LEMMA ServerKeeps == ASSUME LoopInv, ServerStops \/ ServerStarts PROVE LoopInv'
<1>1. DOMAIN bridge = BridgeFields
  BY DEF LoopInv, BridgeSound
<1>2. /\ DOMAIN loop' = LoopFields /\ loop'.at \in {"stopped", "register"} /\ loop'.ttl = 0
      /\ loop'.sleep = 0 /\ loop'.retry = StageRetry /\ loop'.wait = 0 /\ loop'.took = 0
      /\ loop'.gap = StageRetry
  BY DEF ServerStops, ServerStarts, NewLoop, LoopFields
<1>3. LoopSound' /\ Paced'
  BY <1>2, LoopNumbers DEF LoopSound, Paced, StagingPlaces
<1>4. CASE ServerStops
  <2>1. /\ DOMAIN bridge' = BridgeFields /\ bridge'.calm = FALSE
        /\ bridge'.left = bridge.left /\ bridge'.ttl = bridge.ttl
        /\ bridge'.registered = bridge.registered /\ bridge'.accepts = bridge.accepts
    BY <1>1, <1>4 DEF ServerStops, BridgeFields
  <2>2. BridgeSound' /\ Lasts'
    BY <2>1 DEF LoopInv, BridgeSound, Lasts, MustLast
  <2>3. QED
    BY <1>3, <2>2 DEF LoopInv
<1>5. CASE ServerStarts
  <2>1. loop.at = "stopped" /\ bridge' = bridge
    BY <1>5 DEF ServerStarts, LoopAt, bridgeVars
  <2>2. ~MustLast
    BY <2>1 DEF LoopInv, Lasts
  <2>3. BridgeSound' /\ Lasts'
    BY <2>1, <2>2 DEF LoopInv, BridgeSound, Lasts, MustLast
  <2>4. QED
    BY <1>3, <2>3 DEF LoopInv
<1>6. QED
  BY <1>4, <1>5

LEMMA DownOne == ASSUME NEW n \in Nat PROVE Down(n) \in Nat /\ Down(n) + 1 >= n /\ Down(n) <= n
                                             /\ (n > 0 => Down(n) = n - 1)
BY DEF Down

(* A tick shortens the sleep and the registration alike, and a tick in the *)
(* middle of a round is a fault.                                           *)
LEMMA TickKeeps == ASSUME LoopInv, Tick PROVE LoopInv'
<1> DEFINE gap == Min({StageRetry, loop.gap + 1})
           took == IF loop.at \in StagingPlaces THEN loop.took + 1 ELSE loop.took
<1>1. /\ DOMAIN bridge = BridgeFields /\ DOMAIN loop = LoopFields
      /\ bridge.left \in Nat /\ loop.sleep \in Nat /\ loop.wait \in Nat /\ loop.took \in Nat
      /\ loop.gap \in Nat
  BY DEF LoopInv, BridgeSound, LoopSound
<1>2. /\ DOMAIN loop' = LoopFields /\ loop'.at = loop.at /\ loop'.healthy = loop.healthy
      /\ loop'.ttl = loop.ttl /\ loop'.retry = loop.retry
      /\ loop'.sleep = Down(loop.sleep) /\ loop'.wait = Down(loop.wait)
      /\ loop'.gap = gap /\ loop'.took = took
  BY <1>1 DEF Tick, LoopFields, StagingPlaces
<1>3. gap = IF StageRetry <= loop.gap + 1 THEN StageRetry ELSE loop.gap + 1
  BY <1>1, LoopNumbers, MinOfTwo
<1> HIDE DEF gap
<1>4. /\ DOMAIN bridge' = BridgeFields /\ bridge'.left = Down(bridge.left)
      /\ bridge'.ttl = bridge.ttl /\ bridge'.registered = bridge.registered
      /\ bridge'.accepts = bridge.accepts /\ bridge'.up = bridge.up
      /\ bridge'.calm => bridge.calm
      /\ bridge'.calm => (loop.at = "sleep" /\ loop.sleep > 0) \/ loop.at = "stopped"
  BY <1>1 DEF Tick, LoopAt, BridgeFields
<1>5. BridgeSound'
  BY <1>1, <1>4, DownOne DEF LoopInv, BridgeSound
<1>6. LoopSound'
  BY <1>1, <1>2, <1>3, DownOne, LoopNumbers DEF LoopInv, LoopSound
<1>7. Paced'
  <2>1. CASE loop.at \in StagingPlaces
    BY <1>1, <1>2, <1>3, <2>1, LoopNumbers DEF LoopInv, Paced
  <2>2. CASE loop.at \notin StagingPlaces
    BY <1>1, <1>2, <1>3, <2>2, DownOne, LoopNumbers DEF LoopInv, Paced
  <2>3. QED
    BY <2>1, <2>2
<1>8. Lasts'
  <2>1. SUFFICES ASSUME MustLast' PROVE loop.at = "sleep" /\ loop'.sleep < bridge'.left
    BY <1>2 DEF Lasts, StagingPlaces
  <2>2. MustLast /\ ((loop.at = "sleep" /\ loop.sleep > 0) \/ loop.at = "stopped")
    BY <1>4, <2>1 DEF MustLast
  <2>3. loop.at = "sleep" /\ loop.sleep > 0 /\ loop.sleep < bridge.left
    BY <2>2 DEF LoopInv, Lasts
  <2>4. QED
    BY <1>1, <1>2, <1>4, <2>3, DownOne
<1>9. QED
  BY <1>5, <1>6, <1>7, <1>8 DEF LoopInv

LEMMA LoopInvStep == ASSUME LoopInv, [LoopNext]_loopVars PROVE LoopInv'
<1>1. CASE LoopStep
  BY <1>1, WakeKeeps, RegisterKeeps, ReadStateKeeps, StagingKeeps, StagingEndKeeps
  DEF LoopStep
<1>2. CASE ServerStops \/ ServerStarts
  BY <1>2, ServerKeeps
<1>3. CASE Tick
  BY <1>3, TickKeeps
<1>4. CASE BridgeIsReplaced \/ (BridgeEnvironment /\ UNCHANGED loop)
  BY <1>4, EnvironmentKeeps DEF BridgeIsReplaced
<1>5. CASE UNCHANGED loopVars
  BY <1>5
  DEF loopVars, LoopInv, BridgeSound, LoopSound, Lasts, MustLast, Paced
<1>6. QED
  BY <1>1, <1>2, <1>3, <1>4, <1>5 DEF LoopNext, ServerNext

(* What the loop relies on from one round to the next.                     *)
THEOREM LoopInvHolds == LoopSpec => []LoopInv
<1>1. LoopInit => LoopInv
  BY LoopInitSound
<1>2. LoopInv /\ [LoopNext]_loopVars => LoopInv'
  BY LoopInvStep
<1>3. QED
  BY <1>1, <1>2, PTL DEF LoopSpec

(* _addon_registration_loop renews a registration before it lapses, for    *)
(* any time to live above the floor of its sleep and any such floor, cap   *)
(* and retry times: a round that nothing disturbs sleeps less than the     *)
(* time to live, through stagings and their retries.                       *)
THEOREM StaysRegistered == LoopSpec => []KeptFresh
<1>1. LoopInv => KeptFresh
  BY LoopNumbers
  DEF LoopInv, BridgeSound, LoopSound, Lasts, MustLast, KeptFresh
<1>2. QED
  BY <1>1, LoopInvHolds, PTL

(* _addon_registration_loop begins no staging before the retry time has    *)
(* passed since it began the last one, however slow or failing that was.   *)
THEOREM StagesApart == LoopSpec => StagingIsPaced
<1>1. LoopInv /\ [LoopNext]_loopVars
        => [LoopAt("state") /\ loop'.at = "build" => loop.gap >= StageRetry]_loopVars
  <2>1. SUFFICES ASSUME LoopInv, LoopNext, LoopAt("state"), loop'.at = "build"
                 PROVE  loop.gap >= StageRetry
    OBVIOUS
  <2>2. loop.at = "state" /\ DOMAIN loop = LoopFields /\ loop.took = 0
        /\ loop.gap + loop.wait >= StageRetry /\ loop.gap \in Nat
    BY <2>1 DEF LoopAt, LoopInv, LoopSound, Paced, StagingPlaces
  <2>3. loop.wait = 0
    <3>1. \A round : DOMAIN round = LoopFields /\ Sleep(round) => loop'.at = "sleep"
      BY DEF Sleep, LoopFields
    <3>2. ~Unhealthy
      <4> DEFINE round == [loop EXCEPT !.healthy = FALSE, !.needs = FALSE]
      <4>1. DOMAIN round = LoopFields
        BY <2>2
      <4>2. QED
        BY <2>1, <3>1, <4>1 DEF Unhealthy
    <3>3. loop' # [NewLoop EXCEPT !.at = "stopped"] /\ loop' # loop
      BY <2>1, <2>2 DEF NewLoop
    <3>4. ~Tick
      BY <2>1, <2>2, TickKeeps DEF Tick, LoopFields
    <3>5. ReadAddonState
      BY <2>1, <3>2, <3>3, <3>4 DEF LoopNext, ServerNext, LoopStep, Wake,
         RegisterWithAddon, RegisterAnswerLost, RequestFails, BuildRepoAddon,
         StagingRaises, StageDevRepoZip, VerifyStaged, ServerStops, ServerStarts,
         BridgeIsReplaced, LoopAt
    <3>6. QED
      <4> DEFINE round == [loop EXCEPT !.healthy = TRUE, !.ttl = bridge.ttl,
                                       !.needs = bridge.zip = "none"]
      <4>1. DOMAIN round = LoopFields
        BY <2>2
      <4>2. ~Sleep(round)
        BY <2>1, <3>1, <4>1
      <4>3. QED
        BY <3>2, <3>5, <4>2 DEF ReadAddonState
  <2>4. QED
    BY <2>2, <2>3, LoopNumbers
<1>2. QED
  BY <1>1, LoopInvHolds, PTL DEF LoopSpec, StagingIsPaced

-----------------------------------------------------------------------------
(* The deployment.                                                         *)

ScriptFields == {"kind", "at", "phase", "build", "seen", "probes", "before", "failing", "result",
                 "touched", "unrestored", "late", "mixed", "others", "runs"}
SeenFields == {"running", "version", "kodi", "gui"}
Settings == [unknown : BOOLEAN, hidden : BOOLEAN]
NoBuildYet == {"idle", "fingerprint", "copy", "zip", "zipped"}
Untouched == {"fingerprint", "copy", "zip", "zipped", "manifest", "upload", "settings"}
Uploaded == {"settings", "allowUnknown", "showHidden", "browse"}
Restored == {"status", "details", "gui", "home"}

(* What is still on its way sets something to a Boolean.                   *)
LateSound(s) == \A w \in s.late : w.request.value \in BOOLEAN

ScriptSound ==
    /\ DOMAIN script = ScriptFields
    /\ DOMAIN script.seen = SeenFields
    /\ settings \in Settings /\ script.before \in Settings
    /\ LateSound(script)
    /\ script.at # "idle" => script.result = "none"
    /\ script.touched => script.at \notin Untouched
    /\ script.touched /\ script.at \in Restored => script.phase # "before"

(* How far the settings may be from what they were, place by place.        *)
SettingsKept ==
    script.touched /\ ~script.unrestored =>
        /\ script.at # "idle" => (script.before.unknown => settings.unknown)
        /\ script.at # "idle" => (script.before.hidden => settings.hidden)
        /\ script.at = "restoreUnknown" => settings.hidden = script.before.hidden
        /\ script.at \in Restored \/ (script.at = "idle" /\ script.result # "died")
              => settings = script.before

Pairs == [claims : Nat, content : Nat]
Whole(build) == build \in Pairs /\ build.claims = build.content

(* As long as no build was made from a source edited meanwhile, a build    *)
(* contains what it claims, wherever it is.                                *)
BuildsAreWhole ==
    ~script.mixed =>
        /\ Whole(bridge.installed) /\ Whole(bridge.running) /\ Whole(bridge.uploaded)
        /\ Whole(manifest.digest) /\ Whole(download.manifest.digest) /\ Whole(download.served)
        /\ script.at \notin {"idle", "fingerprint", "copy"} \/ script.result = "ok"
              => Whole(script.build)

(* The build the script made is what it uploads, and what it installs.     *)
BuildIsUsed ==
    /\ source \in Nat \ {0} /\ DOMAIN download = {"at", "manifest", "served", "requests"}
    /\ script.build \in Pairs
    /\ script.at \notin {"idle", "fingerprint"} => script.build.claims \in Nat \ {0}
    /\ script.at \notin NoBuildYet => artifact = script.build
    /\ script.at \in Uploaded => bridge.uploaded = script.build
    /\ script.at = "manifest" => script.kind # "deploy"

(* Unless others install something, the service that runs is the one that  *)
(* is installed, or the script's own build waits for its turn: what was    *)
(* once seen running as that build stays so.                               *)
SeenStays ==
    ~script.others =>
        /\ bridge.running = bridge.installed
              \/ (script.at \notin {"fingerprint", "copy"} /\ bridge.installed = script.build)
        /\ script.at \in {"details", "gui"} /\ script.seen.running.claims = script.build.claims
              => bridge.running.claims = script.build.claims
        /\ script.at = "idle" /\ script.kind = "deploy" /\ script.result = "ok"
              => /\ bridge.running.claims = script.build.claims
                 /\ bridge.installed.claims = script.build.claims

DeploymentInv ==
    /\ DOMAIN bridge = BridgeFields
    /\ ScriptSound /\ SettingsKept /\ BuildIsUsed /\ BuildsAreWhole /\ SeenStays

(* What the steps of a deployment leave alone.                             *)
SameBuild ==
    /\ DOMAIN script' = ScriptFields /\ DOMAIN script'.seen = SeenFields
    /\ script'.kind = script.kind /\ script'.build = script.build
    /\ script'.others = script.others /\ script'.mixed = script.mixed
    /\ LateSound(script')
    /\ UNCHANGED <<source, artifact, manifest, download>>
SameSettings ==
    /\ script'.before = script.before /\ script'.touched = script.touched
    /\ script'.unrestored = script.unrestored
    /\ UNCHANGED settings

(* Builds stay whole where nothing is built: what is installed comes from  *)
(* what was uploaded, and what is uploaded is the build of the script.     *)
LEMMA WholeStays ==
    ASSUME ScriptSound, BuildsAreWhole, UNCHANGED <<manifest, download>>,
           script'.mixed = script.mixed, script'.build = script.build,
           script'.at # "idle" => script.at \notin {"idle", "fingerprint", "copy"},
           script'.result = "ok" =>
               \/ script.at \notin {"idle", "fingerprint", "copy"}
               \/ script.result = "ok",
           bridge'.installed \in {bridge.installed, bridge.uploaded},
           bridge'.running \in {bridge.running, bridge.installed},
           \/ bridge'.uploaded = bridge.uploaded
           \/ bridge'.uploaded = script.build /\ script.at = "upload"
    PROVE  BuildsAreWhole'
BY DEF BuildsAreWhole, ScriptSound

(* A new run of a script starts from nothing.                              *)
LEMMA BeginKeeps ==
    ASSUME DeploymentInv, NEW kind \in {"deploy", "prepare"}, Begin(kind)
    PROVE  DeploymentInv'
<1>1. /\ UNCHANGED <<source, artifact, settings, bridge>> /\ DOMAIN bridge = BridgeFields
      /\ settings \in Settings /\ source \in Nat \ {0}
      /\ script' = [NoScript EXCEPT !.kind = kind, !.at = "fingerprint",
                       !.runs = script.runs + 1, !.late = script.late,
                       !.mixed = script.mixed,
                       !.others = bridge.running # bridge.installed]
      /\ UNCHANGED <<manifest, download>>
  BY DEF Begin, filesVars, bridgeVars, DeploymentInv, ScriptSound, BuildIsUsed
<1>2. /\ DOMAIN script' = ScriptFields /\ script'.seen = Unseen /\ script'.build = NoBuild
      /\ script'.before = [unknown |-> TRUE, hidden |-> TRUE] /\ script'.result = "none"
      /\ script'.touched = FALSE /\ script'.at = "fingerprint"
      /\ script'.others = (bridge.running # bridge.installed)
      /\ script'.late = script.late /\ script'.mixed = script.mixed
  BY <1>1 DEF NoScript, ScriptFields
<1>3. ScriptSound'
  <2>1. DOMAIN Unseen = SeenFields
    BY DEF Unseen, SeenFields
  <2>2. [unknown |-> TRUE, hidden |-> TRUE] \in Settings
    BY DEF Settings
  <2>3. LateSound(script')
    BY <1>2 DEF DeploymentInv, ScriptSound, LateSound
  <2>4. QED
    BY <1>1, <1>2, <2>1, <2>2, <2>3 DEF ScriptSound
<1>4. SettingsKept' /\ SeenStays'
  BY <1>1, <1>2 DEF SettingsKept, SeenStays
<1>5. BuildIsUsed'
  <2>1. NoBuild \in Pairs
    BY DEF NoBuild, Pairs
  <2>2. QED
    BY <1>1, <1>2, <2>1 DEF DeploymentInv, BuildIsUsed, NoBuildYet, Uploaded
<1>6. BuildsAreWhole'
  BY <1>1, <1>2 DEF DeploymentInv, BuildsAreWhole
<1>7. QED
  BY <1>1, <1>3, <1>4, <1>5, <1>6 DEF DeploymentInv

(* The build: Kodi is not touched, and what is zipped is the build.        *)
LEMMA BuildKeeps ==
    ASSUME DeploymentInv,
           Fingerprint \/ CopySource \/ BuildAddonZip \/ ZipWritten \/ WriteBootstrapManifest
    PROVE  DeploymentInv'
<1> USE DEF DeploymentInv, ScriptSound
<1>1. /\ UNCHANGED <<source, settings, bridge>>
      /\ script.at \in {"fingerprint", "copy", "zip", "zipped", "manifest"}
      /\ DOMAIN script = ScriptFields /\ script.build \in Pairs /\ source \in Nat
  BY DEF Fingerprint, CopySource, BuildAddonZip, ZipWritten, WriteBootstrapManifest,
         ScriptAt, filesVars, bridgeVars, BuildIsUsed
<1>2. /\ DOMAIN script' = ScriptFields /\ script'.seen = script.seen
      /\ script'.kind = script.kind /\ script'.others = script.others
      /\ script'.before = script.before /\ script'.touched = script.touched
      /\ script'.late = script.late /\ download' = download
      /\ script'.build \in {script.build, [script.build EXCEPT !.claims = source],
                           [script.build EXCEPT !.content = source]}
  BY <1>1
  DEF Fingerprint, CopySource, BuildAddonZip, ZipWritten, WriteBootstrapManifest,
      ScriptGoesTo, End, ScriptFields, filesVars
<1>3. \/ /\ script.at = "fingerprint" /\ script'.at = "copy"
         /\ script'.build.claims = source
      \/ /\ script.at = "copy" /\ script'.at = "zip"
         /\ script'.build.claims = script.build.claims
      \/ script.at = "zip" /\ script'.at = "zipped" /\ script'.build = script.build
      \/ /\ script.at = "zipped" /\ script'.build = script.build
         /\ artifact' = script.build
         /\ script'.at = IF script.kind = "deploy" THEN "status" ELSE "manifest"
      \/ /\ script.at = "manifest" /\ script'.at = "idle" /\ script'.build = script.build
  <2>1. CASE Fingerprint
    <3>1. script'.build = [script.build EXCEPT !.claims = source]
      BY <1>1, <2>1 DEF Fingerprint, ScriptFields
    <3>2. script.at = "fingerprint" /\ script'.at = "copy"
      BY <1>1, <2>1 DEF Fingerprint, ScriptAt, ScriptFields
    <3>3. QED
      BY <1>1, <3>1, <3>2 DEF Pairs
  <2>2. CASE CopySource
    <3>1. script'.build = [script.build EXCEPT !.content = source]
      BY <1>1, <2>2 DEF CopySource, ScriptFields
    <3>2. script.at = "copy" /\ script'.at = "zip"
      BY <1>1, <2>2 DEF CopySource, ScriptAt, ScriptFields
    <3>3. QED
      BY <1>1, <3>1, <3>2 DEF Pairs
  <2>3. CASE BuildAddonZip
    BY <1>1, <2>3 DEF BuildAddonZip, ScriptAt, ScriptGoesTo, ScriptFields
  <2>4. CASE ZipWritten
    BY <1>1, <2>4 DEF ZipWritten, ScriptAt, ScriptGoesTo, ScriptFields
  <2>5. CASE WriteBootstrapManifest
    BY <1>1, <2>5 DEF WriteBootstrapManifest, ScriptAt, End, ScriptFields
  <2>6. QED
    BY <2>1, <2>2, <2>3, <2>4, <2>5
<1>4. script'.at # "idle" => script'.result = script.result
  BY DEF Fingerprint, CopySource, BuildAddonZip, ZipWritten, WriteBootstrapManifest,
     ScriptGoesTo, End, ScriptFields
<1>5. ~script.touched
  BY <1>1 DEF Untouched
<1>6. ScriptSound' /\ SettingsKept'
  BY <1>1, <1>2, <1>3, <1>4, <1>5 DEF SettingsKept, LateSound
<1>7. BuildIsUsed'
  <2>1. script'.build \in Pairs
    BY <1>1, <1>2 DEF Pairs
  <2>2. QED
    BY <1>1, <1>2, <1>3, <2>1 DEF BuildIsUsed, NoBuildYet, Uploaded
<1>8. SeenStays'
  BY <1>1, <1>2, <1>3 DEF SeenStays, BuildIsUsed
<1>9. BuildsAreWhole'
  <2>1. CASE Fingerprint
    <3>1. /\ UNCHANGED <<manifest, download>> /\ script'.mixed = script.mixed
          /\ script'.at = "copy" /\ script'.result = "none"
      BY <1>1, <2>1 DEF Fingerprint, ScriptAt, filesVars, ScriptFields
    <3>2. QED
      BY <1>1, <3>1 DEF BuildsAreWhole
  <2>2. CASE CopySource
    <3>1. /\ UNCHANGED <<manifest, download>>
          /\ script'.mixed = (script.mixed \/ source # script.build.claims)
          /\ script'.build = [script.build EXCEPT !.content = source]
      BY <1>1, <2>2 DEF CopySource, filesVars, ScriptFields
    <3>2. source = script.build.claims => Whole(script'.build)
      BY <1>1, <3>1 DEF Whole, Pairs
    <3>3. QED
      BY <1>1, <3>1, <3>2 DEF BuildsAreWhole
  <2>3. CASE BuildAddonZip \/ ZipWritten
    <3>1. /\ UNCHANGED <<manifest, download>> /\ script'.mixed = script.mixed
          /\ script'.build = script.build /\ script.at \in {"zip", "zipped"}
      BY <1>1, <2>3 DEF BuildAddonZip, ZipWritten, ScriptAt, ScriptGoesTo, ScriptFields
    <3>2. QED
      BY <1>1, <3>1, WholeStays
  <2>4. CASE WriteBootstrapManifest
    <3>1. /\ manifest' = [claims |-> script.build.claims, digest |-> artifact]
          /\ download' = download /\ script'.mixed = script.mixed
          /\ script'.build = script.build /\ script.at = "manifest"
      BY <1>1, <2>4 DEF WriteBootstrapManifest, ScriptAt, End, ScriptFields
    <3>2. manifest'.digest = script.build
      BY <3>1 DEF BuildIsUsed, NoBuildYet
    <3>3. QED
      BY <1>1, <3>1, <3>2 DEF BuildsAreWhole
  <2>5. QED
    BY <2>1, <2>2, <2>3, <2>4
<1>10. QED
  BY <1>1, <1>6, <1>7, <1>8, <1>9

(* The probes look at the bridge and at Kodi; nothing is touched.          *)
LEMMA ProbeKeeps ==
    ASSUME DeploymentInv, ProbeStatus \/ ProbeKodi \/ ProbeGui \/ GuiHome
    PROVE  DeploymentInv'
<1> USE DEF DeploymentInv, ScriptSound, LateSound
<1>1. CASE ProbeStatus
  <2>1. PICK seen \in {bridge.running, NoBuild} :
           script' = [script EXCEPT !.at = "details", !.probes = @ + 1, !.seen.running = seen]
    BY <1>1 DEF ProbeStatus
  <2>2. /\ SameBuild /\ SameSettings /\ bridge' = bridge
        /\ script.at = "status" /\ script'.at = "details" /\ script'.result = script.result
        /\ script'.phase = script.phase /\ script'.seen.running = seen
    BY <1>1, <2>1 DEF ProbeStatus, ScriptAt, filesVars, SameBuild, SameSettings,
       SeenFields
  <2>3. ScriptSound'
    BY <2>2 DEF SameBuild, SameSettings, Untouched, Restored
  <2>4. SettingsKept'
    BY <2>2 DEF SameSettings, SettingsKept, Restored
  <2>5. BuildIsUsed'
    BY <2>2 DEF SameBuild, BuildIsUsed, NoBuildYet, Uploaded
  <2>6. SeenStays'
    BY <2>2 DEF SameBuild, SeenStays, BuildIsUsed, NoBuild
  <2>7. BuildsAreWhole'
    BY <2>1, <2>2, WholeStays DEF SameBuild
  <2>8. QED
    BY <2>2, <2>3, <2>4, <2>5, <2>6, <2>7
<1>2. CASE ProbeKodi
  <2>1. PICK version \in {0, Version(bridge.installed)}, kodi \in {TRUE, FALSE} :
           script' = [script EXCEPT !.at = "gui", !.seen.version = version, !.seen.kodi = kodi]
    BY <1>2 DEF ProbeKodi
  <2>2. /\ SameBuild /\ SameSettings /\ bridge' = bridge
        /\ script.at = "details" /\ script'.at = "gui" /\ script'.result = script.result
        /\ script'.phase = script.phase /\ script'.seen.running = script.seen.running
    BY <1>2, <2>1
    DEF ProbeKodi, ScriptAt, filesVars, SameBuild, SameSettings, ScriptFields, SeenFields
  <2>3. ScriptSound'
    BY <2>2 DEF SameBuild, SameSettings, Untouched, Restored
  <2>4. SettingsKept'
    BY <2>2 DEF SameSettings, SettingsKept, Restored
  <2>5. BuildIsUsed'
    BY <2>2 DEF SameBuild, BuildIsUsed, NoBuildYet, Uploaded
  <2>6. SeenStays'
    BY <2>2 DEF SameBuild, SeenStays
  <2>7. BuildsAreWhole'
    BY <2>1, <2>2, WholeStays DEF SameBuild
  <2>8. QED
    BY <2>2, <2>3, <2>4, <2>5, <2>6, <2>7
<1>3. CASE ProbeGui
  <2>0. PICK seen \in {[script.seen EXCEPT !.gui = BridgeAnswers], script.seen} : Decide(seen)
    BY <1>3 DEF ProbeGui
  <2>1. seen.running = script.seen.running
    BY <2>0 DEF SeenFields
  <2>2. /\ script.at = "gui" /\ bridge' = bridge /\ Decide(seen)
        /\ UNCHANGED <<source, artifact, manifest, download, settings>>
    BY <1>3, <2>0 DEF ProbeGui, ScriptAt, filesVars
  <2>3. \/ /\ script' = End(script, "ok")
           /\ script.phase = "accept" /\ Matches(seen)
        \/ script' = End(script, "failed")
        \/ \E place \in {"home", "upload", "status"} :
              /\ script' = [script EXCEPT !.at = place, !.seen = Unseen]
              /\ place = "upload" => script.phase = "before"
    BY <2>2 DEF Decide
  <2>4. CASE script' = End(script, "failed") \/ script' = End(script, "ok")
    <3>1. /\ SameBuild /\ SameSettings /\ script'.at = "idle"
          /\ script'.result \in {"ok", "failed"}
          /\ script'.result = "ok" =>
                script' = End(script, "ok") /\ script' # End(script, "failed")
      BY <2>2, <2>4 DEF SameBuild, SameSettings, ScriptFields, End
    <3>2. ScriptSound'
      BY <2>2, <3>1 DEF SameBuild, SameSettings, Untouched, Restored
    <3>3. SettingsKept'
      BY <2>2, <3>1 DEF SameSettings, SettingsKept, Restored
    <3>4. BuildIsUsed'
      BY <2>2, <3>1 DEF SameBuild, BuildIsUsed, NoBuildYet, Uploaded
    <3>5. ASSUME script'.result = "ok" PROVE script.seen.running.claims = script.build.claims
      <4>1. \A place : script' # [script EXCEPT !.at = place, !.seen = Unseen]
        BY <2>2, <3>1, <3>5 DEF ScriptFields
      <4>2. Matches(seen)
        BY <2>3, <3>1, <3>5, <4>1
      <4>3. QED
        BY <2>1, <4>2 DEF Matches
    <3>6. SeenStays'
      BY <2>2, <3>1, <3>5 DEF SameBuild, SeenStays
    <3>7. BuildsAreWhole'
      BY <2>2, <3>1, WholeStays DEF SameBuild
    <3>8. QED
      BY <2>2, <3>2, <3>3, <3>4, <3>6, <3>7
  <2>5. ASSUME NEW place \in {"home", "upload", "status"},
               script' = [script EXCEPT !.at = place, !.seen = Unseen],
               place = "upload" => script.phase = "before"
        PROVE  DeploymentInv'
    <3>1. /\ SameBuild /\ SameSettings /\ script'.at = place
          /\ script'.result = script.result /\ script'.phase = script.phase
      BY <2>2, <2>5 DEF SameBuild, SameSettings, ScriptFields, SeenFields, Unseen
    <3>2. ScriptSound'
      BY <2>2, <2>5, <3>1 DEF SameBuild, SameSettings, Untouched, Restored
    <3>3. SettingsKept'
      BY <2>2, <2>5, <3>1 DEF SameSettings, SettingsKept, Restored
    <3>4. BuildIsUsed'
      BY <2>2, <2>5, <3>1 DEF SameBuild, BuildIsUsed, NoBuildYet, Uploaded
    <3>5. SeenStays'
      BY <2>2, <2>5, <3>1 DEF SameBuild, SeenStays
    <3>6. BuildsAreWhole'
      BY <2>2, <3>1, WholeStays DEF SameBuild
    <3>7. QED
      BY <2>2, <3>2, <3>3, <3>4, <3>5, <3>6
  <2>6. QED
    BY <2>3, <2>4, <2>5
<1>4. CASE GuiHome
  <2>1. /\ script.at = "home" /\ bridge' = bridge
        /\ UNCHANGED <<source, artifact, manifest, download, settings>>
        /\ \/ script' = [script EXCEPT !.at = "status", !.phase = "accept"]
           \/ script' = End(script, "failed")
    BY <1>4 DEF GuiHome, ScriptAt, Fails, filesVars
  <2>2. /\ SameBuild /\ SameSettings
        /\ \/ script'.at = "status" /\ script'.result = script.result
              /\ script'.phase = "accept"
           \/ script'.at = "idle" /\ script'.result = "failed"
    BY <2>1 DEF SameBuild, SameSettings, ScriptFields, End
  <2>3. ScriptSound'
    BY <2>1, <2>2 DEF SameBuild, SameSettings, Untouched, Restored
  <2>4. SettingsKept'
    BY <2>1, <2>2 DEF SameSettings, SettingsKept, Restored
  <2>5. BuildIsUsed'
    BY <2>1, <2>2 DEF SameBuild, BuildIsUsed, NoBuildYet, Uploaded
  <2>6. SeenStays'
    BY <2>1, <2>2 DEF SameBuild, SeenStays
  <2>7. BuildsAreWhole'
    BY <2>1, <2>2, WholeStays DEF SameBuild
  <2>8. QED
    BY <2>1, <2>3, <2>4, <2>5, <2>6, <2>7
<1>5. QED
  BY <1>1, <1>2, <1>3, <1>4

(* What setting one of the two settings does to both.                      *)
LEMMA SetUnknown ==
    ASSUME settings \in Settings, NEW value \in BOOLEAN, NEW next, NEW raised,
           SetBoolSetting("unknown", value, next, raised)
    PROVE  /\ settings' \in Settings /\ settings'.hidden = settings.hidden
           /\ \/ script' = next /\ settings'.unknown = value
              \/ script' = raised
              \/ script' = OnItsWay(raised, Write("unknown", value))
BY DEF SetBoolSetting, Written, Settings

LEMMA SetHidden ==
    ASSUME settings \in Settings, NEW value \in BOOLEAN, NEW next, NEW raised,
           SetBoolSetting("hidden", value, next, raised)
    PROVE  /\ settings' \in Settings /\ settings'.unknown = settings.unknown
           /\ \/ script' = next /\ settings'.hidden = value
              \/ script' = raised
              \/ script' = OnItsWay(raised, Write("hidden", value))
BY DEF SetBoolSetting, Written, Settings

(* The two ways a failing part of the installation leaves the script, with *)
(* the request that failed perhaps still on its way.                       *)
LEMMA FailingSets ==
    ASSUME ScriptSound, NEW name, NEW value \in BOOLEAN,
           script' \in {Restoring, Failing, OnItsWay(Failing, Write(name, value))}
    PROVE  /\ DOMAIN script' = ScriptFields /\ DOMAIN script'.seen = SeenFields
           /\ LateSound(script') /\ script'.kind = script.kind
           /\ script'.build = script.build /\ script'.phase = script.phase
           /\ script'.before = script.before /\ script'.touched = script.touched
           /\ script'.mixed = script.mixed /\ script'.others = script.others
           /\ script'.at = "restoreHidden" /\ script'.result = script.result
           /\ script'.unrestored = script.unrestored
<1>1. CASE script' \in {Restoring, Failing}
  BY <1>1 DEF Failing, Restoring, ScriptSound, ScriptFields, LateSound
<1>2. CASE script' = OnItsWay(Failing, Write(name, value))
  BY <1>2 DEF OnItsWay, Write, Failing, Restoring, ScriptSound, ScriptFields, LateSound
<1>3. QED
  BY <1>1, <1>2

LEMMA UnrestoredSets ==
    ASSUME ScriptSound, NEW name, NEW value \in BOOLEAN,
           script' \in {Unrestored, OnItsWay(Unrestored, Write(name, value))}
    PROVE  /\ DOMAIN script' = ScriptFields /\ DOMAIN script'.seen = SeenFields
           /\ LateSound(script') /\ script'.kind = script.kind
           /\ script'.build = script.build /\ script'.phase = script.phase
           /\ script'.before = script.before /\ script'.touched = script.touched
           /\ script'.mixed = script.mixed /\ script'.others = script.others
           /\ script'.at = "idle" /\ script'.result = "failed" /\ script'.unrestored
<1>1. CASE script' = Unrestored
  BY <1>1 DEF Unrestored, End, ScriptSound, ScriptFields, LateSound
<1>2. CASE script' = OnItsWay(Unrestored, Write(name, value))
  BY <1>2 DEF OnItsWay, Write, Unrestored, End, ScriptSound, ScriptFields, LateSound
<1>3. QED
  BY <1>1, <1>2

(* The installation: only what the script finds switched off is switched   *)
(* on, and only an uploaded zip is installed.                              *)
LEMMA InstallKeeps ==
    ASSUME DeploymentInv,
           UploadBridgeZip \/ ReadSettings \/ AllowUnknownSources \/ PollFails \/ ShowHidden
              \/ BrowseToZip
    PROVE  DeploymentInv'
<1> USE DEF DeploymentInv, ScriptSound, LateSound
<1>1. CASE UploadBridgeZip
  <2>1. /\ script.at = "upload" /\ UNCHANGED <<source, artifact, manifest, download, settings>>
        /\ \/ bridge' = [bridge EXCEPT !.uploaded = artifact]
              /\ script' = [script EXCEPT !.at = "settings"]
           \/ /\ bridge' \in {bridge, [bridge EXCEPT !.uploaded = artifact]}
              /\ script' = End(script, "failed")
    BY <1>1 DEF UploadBridgeZip, Upload, ScriptAt, ScriptGoesTo, Fails, filesVars
  <2>2. /\ SameBuild /\ SameSettings /\ script'.phase = script.phase
        /\ \/ script'.at = "settings" /\ script'.result = script.result
              /\ bridge' = [bridge EXCEPT !.uploaded = artifact]
           \/ /\ script'.at = "idle" /\ script'.result = "failed"
              /\ bridge' \in {bridge, [bridge EXCEPT !.uploaded = artifact]}
    BY <2>1 DEF SameBuild, SameSettings, ScriptFields, End
  <2>3. /\ DOMAIN bridge' = BridgeFields /\ bridge'.running = bridge.running
        /\ bridge'.installed = bridge.installed
        /\ \/ bridge'.uploaded = script.build
           \/ bridge'.uploaded = bridge.uploaded /\ script'.at = "idle"
    BY <2>1, <2>2 DEF BridgeFields, BuildIsUsed, NoBuildYet
  <2>4. ScriptSound'
    BY <2>1, <2>2 DEF SameBuild, SameSettings, Untouched, Restored
  <2>5. SettingsKept'
    BY <2>1, <2>2 DEF SameSettings, SettingsKept, Untouched, Restored
  <2>6. BuildIsUsed'
    BY <2>1, <2>2, <2>3 DEF SameBuild, BuildIsUsed, NoBuildYet, Uploaded
  <2>7. SeenStays'
    BY <2>1, <2>2, <2>3 DEF SameBuild, SeenStays
  <2>8. BuildsAreWhole'
    BY <2>1, <2>2, <2>3, WholeStays DEF SameBuild
  <2>9. QED
    BY <2>3, <2>4, <2>5, <2>6, <2>7, <2>8
<1>2. CASE ReadSettings
  <2>1. /\ script.at = "settings" /\ UNCHANGED <<source, artifact, manifest, download, settings, bridge>>
        /\ \/ script' = [script EXCEPT !.at = "allowUnknown", !.before = settings,
                                       !.touched = TRUE]
           \/ script' = End(script, "failed")
    BY <1>2 DEF ReadSettings, ScriptAt, Fails, filesVars
  <2>2. /\ SameBuild /\ script'.phase = script.phase
        /\ \/ script'.at = "allowUnknown" /\ script'.result = script.result
              /\ script'.before = settings
           \/ script'.at = "idle" /\ script'.result = "failed" /\ SameSettings
    BY <2>1 DEF SameBuild, SameSettings, ScriptFields, End
  <2>3. ScriptSound'
    BY <2>1, <2>2 DEF SameBuild, SameSettings, Untouched, Restored
  <2>4. SettingsKept'
    BY <2>1, <2>2 DEF SameSettings, SettingsKept, Untouched, Restored
  <2>5. BuildIsUsed'
    BY <2>1, <2>2 DEF SameBuild, BuildIsUsed, NoBuildYet, Uploaded
  <2>6. SeenStays'
    BY <2>1, <2>2 DEF SameBuild, SeenStays
  <2>7. BuildsAreWhole'
    BY <2>1, <2>2, WholeStays DEF SameBuild
  <2>8. QED
    BY <2>1, <2>3, <2>4, <2>5, <2>6, <2>7
<1>3. CASE AllowUnknownSources \/ PollFails \/ ShowHidden
  <2> DEFINE next == IF script.at = "allowUnknown" THEN "showHidden" ELSE "browse"
  <2>1. /\ script.at \in {"allowUnknown", "showHidden"}
        /\ UNCHANGED <<source, artifact, manifest, download, bridge>>
        /\ settings' \in Settings
        /\ script.at = "allowUnknown" => settings'.hidden = settings.hidden
        /\ script.at = "showHidden" => settings'.unknown = settings.unknown
        /\ script.before.unknown /\ script.at = "allowUnknown" => settings' = settings
        /\ script.before.hidden /\ script.at = "showHidden" => settings' = settings
        /\ \/ script' = [script EXCEPT !.at = next]
           \/ script' = Failing
           \/ script' = OnItsWay(Failing, Write("unknown", TRUE))
           \/ script' = OnItsWay(Failing, Write("hidden", TRUE))
    <3>1. CASE AllowUnknownSources
      BY <3>1, SetUnknown DEF AllowUnknownSources, ScriptAt, filesVars
    <3>2. CASE PollFails
      BY <3>2 DEF PollFails, ScriptAt, filesVars
    <3>3. CASE ShowHidden
      BY <3>3, SetHidden DEF ShowHidden, ScriptAt, filesVars
    <3>4. QED
      BY <1>3, <3>1, <3>2, <3>3
  <2>2. /\ SameBuild /\ script'.phase = script.phase /\ script'.result = script.result
        /\ script'.before = script.before /\ script'.touched = script.touched
        /\ script'.unrestored = script.unrestored
        /\ script'.at \in {next, "restoreHidden"}
    <3>1. CASE script' = [script EXCEPT !.at = next] \/ script' = Failing
      BY <2>1, <3>1 DEF SameBuild, ScriptFields, Failing, Restoring
    <3>2. CASE \/ script' = OnItsWay(Failing, Write("unknown", TRUE))
               \/ script' = OnItsWay(Failing, Write("hidden", TRUE))
      BY <2>1, <3>2, FailingSets DEF SameBuild
    <3>3. QED
      BY <2>1, <3>1, <3>2
  <2>3. ScriptSound'
    BY <2>1, <2>2 DEF SameBuild, Untouched, Restored
  <2>4. SettingsKept'
    BY <2>1, <2>2 DEF SettingsKept, Settings, Restored
  <2>5. BuildIsUsed'
    BY <2>1, <2>2 DEF SameBuild, BuildIsUsed, NoBuildYet, Uploaded
  <2>6. SeenStays'
    BY <2>1, <2>2 DEF SameBuild, SeenStays
  <2>7. BuildsAreWhole'
    BY <2>1, <2>2, WholeStays DEF SameBuild
  <2>8. QED
    BY <2>1, <2>3, <2>4, <2>5, <2>6, <2>7
<1>4. CASE BrowseToZip
  <2>1. /\ script.at = "browse" /\ UNCHANGED <<source, artifact, manifest, download, settings>>
        /\ \/ bridge' = [bridge EXCEPT !.installed = bridge.uploaded]
           \/ bridge' = bridge
        /\ \/ script' \in {Restoring, Failing}
           \/ script' = OnItsWay(Failing, Selection)
    BY <1>4 DEF BrowseToZip, ScriptAt, Install, filesVars
  <2>2. /\ SameBuild /\ SameSettings /\ script'.phase = script.phase
        /\ script'.result = script.result /\ script'.at = "restoreHidden"
    <3>1. CASE script' \in {Restoring, Failing}
      BY <2>1, <3>1 DEF SameBuild, SameSettings, ScriptFields, Failing, Restoring
    <3>2. CASE script' = OnItsWay(Failing, Selection)
      BY <2>1, <3>2, FailingSets DEF SameBuild, SameSettings, Selection
    <3>3. QED
      BY <2>1, <3>1, <3>2
  <2>3. /\ DOMAIN bridge' = BridgeFields /\ bridge'.running = bridge.running
        /\ bridge'.uploaded = bridge.uploaded
        /\ bridge'.installed \in {bridge.installed, bridge.uploaded}
    BY <2>1 DEF BridgeFields
  <2>4. ScriptSound'
    BY <2>1, <2>2 DEF SameBuild, SameSettings, Untouched, Restored
  <2>5. SettingsKept'
    BY <2>1, <2>2 DEF SameSettings, SettingsKept, Restored
  <2>6. BuildIsUsed'
    BY <2>1, <2>2, <2>3 DEF SameBuild, BuildIsUsed, NoBuildYet, Uploaded
  <2>7. SeenStays'
    BY <2>1, <2>2, <2>3 DEF SameBuild, SeenStays, BuildIsUsed, Uploaded
  <2>8. BuildsAreWhole'
    BY <2>1, <2>2, <2>3, WholeStays DEF SameBuild
  <2>9. QED
    BY <2>3, <2>4, <2>5, <2>6, <2>7, <2>8
<1>5. QED
  BY <1>1, <1>2, <1>3, <1>4

(* The restore switches off again what was off, the hidden files first.    *)
LEMMA RestoreKeeps ==
    ASSUME DeploymentInv, RestoreHidden \/ RestoreUnknown
    PROVE  DeploymentInv'
<1> USE DEF DeploymentInv, ScriptSound, LateSound
<1>1. CASE RestoreHidden
  <2>1. /\ script.at = "restoreHidden" /\ UNCHANGED <<source, artifact, manifest, download, bridge>>
        /\ settings' \in Settings /\ settings'.unknown = settings.unknown
        /\ \/ /\ script' = [script EXCEPT !.at = "restoreUnknown"]
              /\ script.before.hidden /\ settings' = settings
           \/ /\ script' = [script EXCEPT !.at = "restoreUnknown"]
              /\ ~script.before.hidden /\ settings'.hidden = FALSE
           \/ script' \in {Unrestored, OnItsWay(Unrestored, Write("hidden", FALSE))}
    BY <1>1, SetHidden DEF RestoreHidden, ScriptAt, filesVars
  <2>2. /\ SameBuild /\ script'.phase = script.phase
        /\ script'.before = script.before /\ script'.touched = script.touched
        /\ \/ /\ script'.at = "restoreUnknown" /\ script'.result = script.result
              /\ script'.unrestored = script.unrestored
              /\ script.before.hidden /\ settings' = settings
           \/ /\ script'.at = "restoreUnknown" /\ script'.result = script.result
              /\ script'.unrestored = script.unrestored
              /\ ~script.before.hidden /\ settings'.hidden = FALSE
           \/ script'.at = "idle" /\ script'.result = "failed" /\ script'.unrestored
    <3>1. CASE script' \in {Unrestored, OnItsWay(Unrestored, Write("hidden", FALSE))}
      BY <2>1, <3>1, UnrestoredSets DEF SameBuild
    <3>2. CASE script' \notin {Unrestored, OnItsWay(Unrestored, Write("hidden", FALSE))}
      BY <2>1, <3>2 DEF SameBuild, ScriptFields
    <3>3. QED
      BY <2>1, <3>1, <3>2
  <2>3. ScriptSound'
    BY <2>1, <2>2 DEF SameBuild, Untouched, Restored
  <2>4. SettingsKept'
    BY <2>1, <2>2 DEF SettingsKept, Settings, Restored
  <2>5. BuildIsUsed'
    BY <2>1, <2>2 DEF SameBuild, BuildIsUsed, NoBuildYet, Uploaded
  <2>6. SeenStays'
    BY <2>1, <2>2 DEF SameBuild, SeenStays
  <2>7. BuildsAreWhole'
    BY <2>1, <2>2, WholeStays DEF SameBuild
  <2>8. QED
    BY <2>1, <2>3, <2>4, <2>5, <2>6, <2>7
<1>2. CASE RestoreUnknown
  <2> DEFINE again == [script EXCEPT !.at = "status", !.phase = "after", !.probes = 0]
             next == IF script.failing THEN End(script, "failed") ELSE again
  <2>1. /\ script.at = "restoreUnknown" /\ UNCHANGED <<source, artifact, manifest, download, bridge>>
        /\ settings' \in Settings /\ settings'.hidden = settings.hidden
        /\ \/ script' = next /\ script.before.unknown /\ settings' = settings
           \/ script' = next /\ ~script.before.unknown /\ settings'.unknown = FALSE
           \/ script' \in {Unrestored, OnItsWay(Unrestored, Write("unknown", FALSE))}
    BY <1>2, SetUnknown DEF RestoreUnknown, ScriptAt, filesVars
  <2>2. /\ SameBuild
        /\ script'.before = script.before /\ script'.touched = script.touched
        /\ \/ script'.at = "status" /\ script'.result = script.result
              /\ script'.phase = "after"
           \/ script'.at = "idle" /\ script'.result = "failed"
        /\ \/ /\ script'.unrestored = script.unrestored
              /\ script.before.unknown /\ settings' = settings
           \/ /\ script'.unrestored = script.unrestored
              /\ ~script.before.unknown /\ settings'.unknown = FALSE
           \/ script'.at = "idle" /\ script'.unrestored
    <3>1. CASE script' \in {Unrestored, OnItsWay(Unrestored, Write("unknown", FALSE))}
      BY <2>1, <3>1, UnrestoredSets DEF SameBuild
    <3>2. CASE script' \notin {Unrestored, OnItsWay(Unrestored, Write("unknown", FALSE))}
      BY <2>1, <3>2 DEF SameBuild, ScriptFields, End
    <3>3. QED
      BY <2>1, <3>1, <3>2
  <2>3. ScriptSound'
    BY <2>1, <2>2 DEF SameBuild, Untouched, Restored
  <2>4. SettingsKept'
    BY <2>1, <2>2 DEF SettingsKept, Settings, Restored
  <2>5. BuildIsUsed'
    BY <2>1, <2>2 DEF SameBuild, BuildIsUsed, NoBuildYet, Uploaded
  <2>6. SeenStays'
    BY <2>1, <2>2 DEF SameBuild, SeenStays
  <2>7. BuildsAreWhole'
    BY <2>1, <2>2, WholeStays DEF SameBuild
  <2>8. QED
    BY <2>1, <2>3, <2>4, <2>5, <2>6, <2>7
<1>3. QED
  BY <1>1, <1>2

(* What timed out and is executed late, and the death of the script.       *)
LEMMA AsideKeeps ==
    ASSUME DeploymentInv, LateWrite \/ LateSelection \/ ScriptDies
    PROVE  DeploymentInv'
<1> USE DEF DeploymentInv, ScriptSound, LateSound
<1>1. CASE LateWrite
  <2>1. PICK w \in script.late :
          /\ w.request.name \in DOMAIN settings
          /\ settings' = [settings EXCEPT ![w.request.name] = w.request.value]
          /\ script' = [script EXCEPT !.late = @ \ {w},
               !.unrestored = @ \/ ( /\ script.touched
                                     /\ w.request.value # script.before[w.request.name]
                                     /\ ~ToRestore(w.request.name) )]
          /\ UNCHANGED <<source, artifact, manifest, download, bridge>>
    BY <1>1 DEF LateWrite, Written, filesVars
  <2> DEFINE name == w.request.name
             value == w.request.value
             gone == script.touched /\ value # script.before[name] /\ ~ToRestore(name)
  <2>2. /\ SameBuild /\ script'.at = script.at /\ script'.phase = script.phase
        /\ script'.result = script.result /\ script'.before = script.before
        /\ script'.touched = script.touched
        /\ script'.unrestored = (script.unrestored \/ gone)
    BY <2>1 DEF SameBuild, ScriptFields
  <2>3. name \in {"unknown", "hidden"} /\ value \in BOOLEAN
    BY <2>1 DEF Settings
  <2>4. /\ settings' \in Settings /\ settings'[name] = value
        /\ name = "unknown" => settings'.hidden = settings.hidden
        /\ name = "hidden" => settings'.unknown = settings.unknown
    BY <2>1, <2>3 DEF Settings
  <2> HIDE DEF name, value
  <2>5. ScriptSound'
    BY <2>1, <2>2, <2>4 DEF SameBuild, Untouched, Restored
  <2>6. SettingsKept'
    <3>1. CASE name = "unknown"
      BY <2>2, <2>3, <2>4, <3>1 DEF SettingsKept, Restored, Settings, ToRestore
    <3>2. CASE name = "hidden"
      BY <2>2, <2>3, <2>4, <3>2 DEF SettingsKept, Restored, Settings, ToRestore
    <3>3. QED
      BY <2>3, <3>1, <3>2
  <2>7. BuildIsUsed' /\ SeenStays'
    BY <2>1, <2>2 DEF SameBuild, BuildIsUsed, SeenStays
  <2>8. BuildsAreWhole'
    BY <2>1, <2>2 DEF SameBuild, BuildsAreWhole
  <2>9. QED
    BY <2>1, <2>5, <2>6, <2>7, <2>8
<1>2. CASE LateSelection
  <2>1. PICK w \in script.late :
          /\ bridge' = [bridge EXCEPT !.installed = bridge.uploaded]
          /\ script' = [script EXCEPT !.late = @ \ {w}, !.others = TRUE]
          /\ UNCHANGED <<source, artifact, manifest, download, settings>>
    BY <1>2 DEF LateSelection, Install, filesVars
  <2>2. /\ DOMAIN script' = ScriptFields /\ script'.seen = script.seen
        /\ script'.kind = script.kind /\ script'.build = script.build
        /\ script'.at = script.at /\ script'.phase = script.phase
        /\ script'.mixed = script.mixed /\ script'.result = script.result
        /\ script'.others /\ SameSettings /\ LateSound(script')
    BY <2>1 DEF ScriptFields, SameSettings
  <2>3. /\ DOMAIN bridge' = BridgeFields /\ bridge'.running = bridge.running
        /\ bridge'.uploaded = bridge.uploaded /\ bridge'.installed = bridge.uploaded
    BY <2>1 DEF BridgeFields
  <2>4. ScriptSound' /\ SettingsKept'
    BY <2>2 DEF SameSettings, SettingsKept, Restored
  <2>5. BuildIsUsed' /\ SeenStays'
    BY <2>1, <2>2, <2>3 DEF BuildIsUsed, SeenStays
  <2>6. BuildsAreWhole'
    BY <2>1, <2>2, <2>3 DEF BuildsAreWhole
  <2>7. QED
    BY <2>3, <2>4, <2>5, <2>6
<1>3. CASE ScriptDies
  <2>1. /\ UNCHANGED <<source, artifact, manifest, download, bridge, settings>>
        /\ script' = End(script, "died")
    BY <1>3 DEF ScriptDies, filesVars
  <2>2. SameBuild /\ SameSettings /\ script'.at = "idle" /\ script'.result = "died"
    BY <2>1 DEF SameBuild, SameSettings, End
  <2>3. ScriptSound' /\ SettingsKept'
    BY <2>2 DEF SameBuild, SameSettings, SettingsKept, Untouched, Restored
  <2>4. BuildIsUsed' /\ SeenStays'
    BY <2>1, <2>2 DEF SameBuild, BuildIsUsed, SeenStays, NoBuildYet, Uploaded
  <2>5. BuildsAreWhole'
    BY <2>1, <2>2, WholeStays DEF SameBuild
  <2>6. QED
    BY <2>1, <2>3, <2>4, <2>5
<1>4. QED
  BY <1>1, <1>2, <1>3

(* What others do: the developer edits, the bundle is served and perhaps   *)
(* installed, and the bridge comes and goes.                               *)
LEMMA OthersKeep ==
    ASSUME DeploymentInv,
           \/ EditSource \/ ReadManifest \/ ServeBundle \/ UserInstalls
           \/ BridgeEnvironment /\ UNCHANGED <<filesVars, script>>
    PROVE  DeploymentInv'
<1> USE DEF DeploymentInv, ScriptSound, LateSound
<1>1. /\ UNCHANGED <<artifact, settings>> /\ source' \in Nat \ {0}
      /\ script' = script \/ script' = [script EXCEPT !.others = TRUE]
  BY BridgeAssumption
  DEF BuildIsUsed, EditSource, ReadManifest, ServeBundle, UserInstalls, bridgeVars, filesVars,
      BridgeEnvironment, InstallTakesEffect, BridgeStarts, BridgeStops, UserSetsToken
<1>2. /\ DOMAIN script' = ScriptFields /\ script'.seen = script.seen
      /\ script'.kind = script.kind /\ script'.build = script.build
      /\ script'.before = script.before /\ script'.touched = script.touched
      /\ script'.unrestored = script.unrestored /\ script'.at = script.at
      /\ script'.phase = script.phase /\ script'.result = script.result
      /\ script'.others = script.others \/ script'.others
      /\ script'.mixed = script.mixed /\ script'.late = script.late
  BY <1>1 DEF ScriptFields
<1>3. /\ DOMAIN bridge' = BridgeFields /\ bridge'.uploaded = bridge.uploaded
      /\ \/ script'.others
         \/ /\ bridge'.installed = bridge.installed
            /\ bridge'.running \in {bridge.running, bridge.installed}
  <2>1. CASE EditSource \/ ReadManifest \/ ServeBundle
    BY <2>1 DEF EditSource, ReadManifest, ServeBundle, bridgeVars
  <2>2. CASE UserInstalls
    BY <2>2 DEF UserInstalls, Install
  <2>3. CASE InstallTakesEffect
    BY <2>3 DEF InstallTakesEffect
  <2>4. CASE BridgeStarts
    BY <2>4 DEF BridgeStarts
  <2>5. CASE BridgeStops
    BY <2>5 DEF BridgeStops
  <2>6. CASE UserSetsToken
    BY <2>6 DEF UserSetsToken
  <2>7. QED
    BY <2>1, <2>2, <2>3, <2>4, <2>5, <2>6 DEF BridgeEnvironment
<1>4. ScriptSound' /\ SettingsKept'
  BY <1>1, <1>2 DEF SettingsKept
<1>5. BuildIsUsed'
  <2>1. DOMAIN download' = {"at", "manifest", "served", "requests"}
    BY DEF BuildIsUsed, EditSource, ReadManifest, ServeBundle, UserInstalls, NoDownload, filesVars
  <2>2. QED
    BY <1>1, <1>2, <1>3, <2>1 DEF BuildIsUsed
<1>6. SeenStays'
  BY <1>2, <1>3 DEF SeenStays
<1>7. BuildsAreWhole'
  <2>1. CASE EditSource \/ (BridgeEnvironment /\ UNCHANGED <<filesVars, script>>)
    <3>1. UNCHANGED <<manifest, download>>
      BY <2>1 DEF EditSource, filesVars
    <3>2. /\ bridge'.installed = bridge.installed
          /\ bridge'.running \in {bridge.running, bridge.installed}
      <4>1. CASE EditSource
        BY <4>1 DEF EditSource
      <4>2. CASE InstallTakesEffect
        BY <4>2 DEF InstallTakesEffect, BridgeFields
      <4>3. CASE BridgeStarts
        BY <4>3 DEF BridgeStarts, BridgeFields
      <4>4. CASE BridgeStops
        <5>1. PICK kept \in BOOLEAN :
                bridge' = [bridge EXCEPT !.up = FALSE, !.registered = @ /\ kept, !.calm = FALSE]
          BY <4>4 DEF BridgeStops
        <5>2. QED
          BY <5>1 DEF BridgeFields
      <4>5. CASE UserSetsToken
        BY <4>5 DEF UserSetsToken, BridgeFields
      <4>6. QED
        BY <2>1, <4>1, <4>2, <4>3, <4>4, <4>5 DEF BridgeEnvironment
    <3>3. QED
      BY <1>2, <1>3, <3>1, <3>2 DEF BuildsAreWhole
  <2>2. CASE ReadManifest
    <3>1. /\ bridge' = bridge /\ manifest' = manifest /\ download'.manifest = manifest
          /\ download'.served = NoBuild
      BY <2>2 DEF ReadManifest, bridgeVars, NoDownload
    <3>2. Whole(NoBuild)
      BY DEF Whole, NoBuild, Pairs
    <3>3. QED
      BY <1>2, <3>1, <3>2 DEF BuildsAreWhole
  <2>3. CASE ServeBundle
    <3>1. /\ bridge' = bridge /\ manifest' = manifest
          /\ download'.manifest = download.manifest
          /\ download'.served \in {NoBuild, download.manifest.digest}
      BY <2>3 DEF ServeBundle, Pinned, bridgeVars, BuildIsUsed
    <3>2. Whole(NoBuild)
      BY DEF Whole, NoBuild, Pairs
    <3>3. QED
      BY <1>2, <3>1, <3>2 DEF BuildsAreWhole
  <2>4. CASE UserInstalls
    <3>1. /\ manifest' = manifest /\ download'.manifest = download.manifest
          /\ download'.served = NoBuild /\ bridge'.installed = download.served
          /\ bridge'.running = bridge.running /\ bridge'.uploaded = bridge.uploaded
      BY <2>4 DEF UserInstalls, Install, BuildIsUsed, BridgeFields
    <3>2. Whole(NoBuild)
      BY DEF Whole, NoBuild, Pairs
    <3>3. QED
      BY <1>2, <3>1, <3>2 DEF BuildsAreWhole
  <2>5. QED
    BY <2>1, <2>2, <2>3, <2>4
<1>8. QED
  BY <1>3, <1>4, <1>5, <1>6, <1>7

LEMMA DeploymentInitSound == ASSUME DeploymentInit PROVE DeploymentInv
<1>1. /\ script = NoScript /\ source = 2 /\ settings \in Settings
      /\ DOMAIN bridge = BridgeFields /\ bridge.running = bridge.installed
  BY DEF DeploymentInit, InitBridge, Settings, BridgeFields
<1>2. /\ DOMAIN script = ScriptFields /\ script.seen = Unseen /\ script.build = NoBuild
      /\ script.before = [unknown |-> TRUE, hidden |-> TRUE]
      /\ script.touched = FALSE /\ script.at = "idle" /\ script.result = "none"
      /\ script.late = {}
  BY <1>1 DEF NoScript, ScriptFields
<1>3. DOMAIN Unseen = SeenFields /\ [unknown |-> TRUE, hidden |-> TRUE] \in Settings
  BY DEF Unseen, SeenFields, Settings
<1>4. ScriptSound
  BY <1>1, <1>2, <1>3 DEF ScriptSound, LateSound
<1>5. /\ bridge.installed \in {NoBuild, Release} /\ bridge.uploaded = NoBuild
      /\ manifest = NoManifest /\ download = NoDownload
  BY DEF DeploymentInit, InitBridge
<1>6. SettingsKept /\ BuildIsUsed /\ SeenStays
  BY <1>1, <1>2, <1>5
  DEF SettingsKept, BuildIsUsed, SeenStays, NoBuild, NoBuildYet, Uploaded, NoDownload, Pairs
<1>7. Whole(NoBuild) /\ Whole(Release)
  BY DEF Whole, NoBuild, Release, Pairs
<1>8. BuildsAreWhole
  BY <1>1, <1>2, <1>5, <1>7 DEF BuildsAreWhole, NoManifest, NoDownload
<1>9. QED
  BY <1>1, <1>4, <1>6, <1>8 DEF DeploymentInv

LEMMA DeploymentInvStep ==
    ASSUME DeploymentInv, [DeploymentNext]_deploymentVars PROVE DeploymentInv'
<1>1. CASE \E kind \in {"deploy", "prepare"} : Begin(kind)
  BY <1>1, BeginKeeps
<1>2. CASE Prepare
  BY <1>2, BuildKeeps DEF Prepare
<1>3. CASE Deploy
  BY <1>3, ProbeKeeps, InstallKeeps, RestoreKeeps, AsideKeeps DEF Deploy
<1>4. CASE ScriptDies
  BY <1>4, AsideKeeps
<1>5. CASE \/ EditSource \/ ReadManifest \/ ServeBundle \/ UserInstalls
           \/ BridgeEnvironment /\ UNCHANGED <<filesVars, script>>
  BY <1>5, OthersKeep
<1>6. CASE UNCHANGED deploymentVars
  BY <1>6
  DEF deploymentVars, DeploymentInv, ScriptSound, LateSound, SettingsKept, BuildIsUsed,
      BuildsAreWhole, SeenStays
<1>7. QED
  BY <1>1, <1>2, <1>3, <1>4, <1>5, <1>6 DEF DeploymentNext, DeploymentStep

(* What a deployment relies on from one of its steps to the next.          *)
THEOREM DeploymentInvHolds == DeploymentSpec => []DeploymentInv
<1>1. DeploymentInit => DeploymentInv
  BY DeploymentInitSound
<1>2. DeploymentInv /\ [DeploymentNext]_deploymentVars => DeploymentInv'
  BY DeploymentInvStep
<1>3. QED
  BY <1>1, <1>2, PTL DEF DeploymentSpec

(* A deployment that answers ok leaves the build it made installed and     *)
(* running, for any number of probes, faults, edits and revisions, although*)
(* verify_expected_bridge judges four answers of four moments: what the    *)
(* build claims always, and what it contains if no source was edited while *)
(* it was built.                                                           *)
THEOREM DeployedIsRunning == DeploymentSpec => []OkMeansDeployed
<1>1. DeploymentInv => OkMeansDeployed
  <2>1. SUFFICES ASSUME DeploymentInv, script.kind = "deploy", script.result = "ok",
                        ~script.others
                 PROVE  /\ {bridge.running.claims, bridge.installed.claims}
                              = {script.build.claims}
                        /\ ~script.mixed =>
                              {bridge.running, bridge.installed} = {script.build}
    BY DEF OkMeansDeployed
  <2>2. /\ bridge.running.claims = script.build.claims
        /\ bridge.installed.claims = script.build.claims
    BY <2>1 DEF DeploymentInv, ScriptSound, SeenStays
  <2>3. ASSUME ~script.mixed
        PROVE  bridge.running = script.build /\ bridge.installed = script.build
    BY <2>1, <2>2, <2>3 DEF DeploymentInv, BuildsAreWhole, Whole, Pairs
  <2>4. QED
    BY <2>2, <2>3
<1>2. QED
  BY <1>1, DeploymentInvHolds, PTL

(* _install_uploaded_zip brings both settings back wherever it fails,      *)
(* unless a restore itself does, it is killed, or a write that timed out   *)
(* is executed when its restore is over, by this or by a later run.        *)
THEOREM SettingsAreBack == DeploymentSpec => []SettingsComeBack
<1>1. DeploymentInv => SettingsComeBack
  BY DEF DeploymentInv, ScriptSound, SettingsKept, SettingsComeBack
<1>2. QED
  BY <1>1, DeploymentInvHolds, PTL

-----------------------------------------------------------------------------
(* The staging of the repository zip: the shared zip may be replaced at    *)
(* any time, but only by the holder of the lock and only with the          *)
(* generation the repository has then.                                     *)

Writing == {"unlink", "create", "write"}

(* Only the holder of the lock writes, and the repository stands still.    *)
WriterHasLock ==
    \A s \in Stagers : pc[s] \in Writing => lock = s /\ frozen[s] = repo

(* No call froze what is not published yet. *)
FrozenIsPast == \A s \in Stagers : frozen[s] <= repo

(* The zip under the shared name is at least as new as the freeze of every *)
(* call that has finished its own and now reads it.                        *)
ZipIsNewer ==
    zip # Missing =>
        \A s \in Stagers :
            pc[s] \notin Writing => zip.generation >= frozen[s]

(* A call begins with an empty request. *)
IdleIsEmpty == \A s \in Stagers : pc[s] = "idle" => sent[s] = Empty

StagingInv ==
    /\ TypeOK
    /\ WriterHasLock
    /\ FrozenIsPast
    /\ ZipIsNewer
    /\ IdleIsEmpty
    /\ NeverOlderThanFrozen

-----------------------------------------------------------------------------
(* The first state: nothing is frozen, sent or staged. *)
LEMMA StagingInvInit == StagingInit => StagingInv
  BY StagingAssumption DEF StagingInit, StagingInv, TypeOK, IdleIsEmpty, WriterHasLock,
     FrozenIsPast, ZipIsNewer, NeverOlderThanFrozen, Empty, PCs, Writing

(* Types are kept by every step, whatever the rest of the invariant says. *)
LEMMA StagingTypeStep == TypeOK /\ [StagingNext]_stagingVars => TypeOK'
  <1> SUFFICES ASSUME TypeOK, [StagingNext]_stagingVars PROVE TypeOK'
    OBVIOUS
  <1> USE StagingAssumption DEF TypeOK, Contents, PCs, Goto
  <1>1. CASE Publish
    BY <1>1 DEF Publish
  <1>2. ASSUME NEW s \in Stagers, Freeze(s) \/ PublishAndFreeze(s) PROVE TypeOK'
    BY <1>2 DEF Freeze, PublishAndFreeze
  <1>3. ASSUME NEW s \in Stagers, UnlinkZip(s) \/ CreateZip(s) \/ WriteZip(s)
        PROVE  TypeOK'
    <2>1. CASE UnlinkZip(s)
      BY <2>1 DEF UnlinkZip
    <2>2. CASE CreateZip(s)
      BY <2>2 DEF CreateZip
    <2>3. CASE WriteZip(s)
      BY <2>3 DEF WriteZip
    <2> QED
      BY <1>3, <2>1, <2>2, <2>3
  <1>4. ASSUME NEW s \in Stagers, Hash(s) \/ Stat(s) \/ Read(s) PROVE TypeOK'
    <2>1. CASE Hash(s)
      BY <2>1 DEF Hash
    <2>2. CASE Stat(s)
      BY <2>2 DEF Stat
    <2>3. CASE Read(s)
      BY <2>3 DEF Read
    <2> QED
      BY <1>4, <2>1, <2>2, <2>3
  <1>5. ASSUME NEW s \in Stagers, Send(s) PROVE TypeOK'
    BY <1>5 DEF Send
  <1>6. ASSUME NEW s \in Stagers, Answer(s) \/ Stop(s) PROVE TypeOK'
    <2>1. /\ Leave(s)
          /\ UNCHANGED <<repo, zip, staged>>
      BY <1>6 DEF Answer, Stop
    <2>2. Empty \in [sha256 : Contents \cup {Nothing}, size : Contents \cup {Nothing},
                     body : Contents \cup {Nothing}]
      BY DEF Empty
    <2>3. sent' \in [Stagers -> [sha256 : Contents \cup {Nothing},
                                size : Contents \cup {Nothing},
                                body : Contents \cup {Nothing}]]
      BY <2>1, <2>2 DEF Leave
    <2> QED
      BY <2>1, <2>3 DEF Leave
  <1>7. CASE UNCHANGED stagingVars
    BY <1>7 DEF stagingVars
  <1> QED
    BY <1>1, <1>2, <1>3, <1>4, <1>5, <1>6, <1>7 DEF StagingNext

(* The invariant is inductive. *)
LEMMA StagingInvStep == StagingInv /\ [StagingNext]_stagingVars => StagingInv'
  <1> SUFFICES ASSUME StagingInv, [StagingNext]_stagingVars PROVE StagingInv'
    OBVIOUS
  <1>0. TypeOK'
    BY StagingTypeStep DEF StagingInv
  <1> USE StagingAssumption, <1>0
      DEF StagingInv, TypeOK, WriterHasLock, FrozenIsPast, ZipIsNewer,
          NeverOlderThanFrozen, Contents, Writing, Goto
  <1>i. IdleIsEmpty'
    BY DEF IdleIsEmpty, StagingNext, stagingVars, Publish, Freeze, PublishAndFreeze, UnlinkZip,
           CreateZip, WriteZip, Hash, Stat, Read, Send, Answer, Stop, Leave
  <1>1. CASE Publish
    BY <1>1, <1>i DEF Publish
  <1>2. ASSUME NEW s \in Stagers, Freeze(s) PROVE StagingInv'
    <2>1. \A t \in Stagers : pc[t] \notin Writing
      BY <1>2 DEF Freeze
    <2>2. WriterHasLock'
      BY <1>2 DEF Freeze
    <2>3. FrozenIsPast'
      BY <1>2 DEF Freeze
    <2>4. ZipIsNewer'
      BY <1>2 DEF Freeze
    <2>5. NeverOlderThanFrozen'
      BY <1>2 DEF Freeze, IdleIsEmpty, Empty
    <2> QED
      BY <1>i, <2>2, <2>3, <2>4, <2>5
  <1>3. ASSUME NEW s \in Stagers, PublishAndFreeze(s) PROVE StagingInv'
    <2>1. \A t \in Stagers : pc[t] \notin Writing
      BY <1>3 DEF PublishAndFreeze
    <2>2. WriterHasLock'
      BY <1>3 DEF PublishAndFreeze
    <2>3. FrozenIsPast'
      BY <1>3 DEF PublishAndFreeze
    <2>4. ZipIsNewer'
      BY <1>3 DEF PublishAndFreeze
    <2>5. NeverOlderThanFrozen'
      BY <1>3 DEF PublishAndFreeze, IdleIsEmpty, Empty
    <2> QED
      BY <1>i, <2>2, <2>3, <2>4, <2>5
  <1>4. ASSUME NEW s \in Stagers, UnlinkZip(s) PROVE StagingInv'
    BY <1>4, <1>i DEF UnlinkZip
  <1>5. ASSUME NEW s \in Stagers, CreateZip(s) PROVE StagingInv'
    BY <1>5, <1>i DEF CreateZip
  <1>6. ASSUME NEW s \in Stagers, WriteZip(s) PROVE StagingInv'
    BY <1>6, <1>i DEF WriteZip
  <1>7. ASSUME NEW s \in Stagers, Hash(s) \/ Stat(s) \/ Read(s) PROVE StagingInv'
    <2>1. /\ pc[s] \notin Writing /\ pc'[s] \notin Writing
          /\ \A t \in Stagers \ {s} : pc'[t] = pc[t]
          /\ UNCHANGED <<repo, zip, lock, frozen>>
      BY <1>7 DEF Hash, Stat, Read
    <2>2. WriterHasLock' /\ FrozenIsPast' /\ ZipIsNewer'
      BY <2>1
    <2>3. CASE Hash(s)
      BY <1>i, <2>3 DEF Hash
    <2>4. CASE Stat(s)
      BY <1>i, <2>4 DEF Stat
    <2>5. CASE Read(s)
      BY <1>i, <2>5 DEF Read
    <2> QED
      BY <1>7, <2>3, <2>4, <2>5
  <1>8. ASSUME NEW s \in Stagers, Send(s) PROVE StagingInv'
    BY <1>8, <1>i DEF Send
  <1>9. ASSUME NEW s \in Stagers, Answer(s) \/ Stop(s) PROVE StagingInv'
    <2>1. Leave(s) /\ UNCHANGED <<repo, zip, staged>>
      BY <1>9 DEF Answer, Stop
    <2>2. WriterHasLock' /\ FrozenIsPast'
      BY <2>1 DEF Leave
    <2>3. ZipIsNewer'
      BY <2>1 DEF Leave
    <2>4. NeverOlderThanFrozen'
      BY <2>1 DEF Leave
    <2> QED
      BY <1>i, <2>2, <2>3, <2>4
  <1>10. CASE UNCHANGED stagingVars
    BY <1>10, <1>i DEF stagingVars
  <1> QED
    BY <1>1, <1>2, <1>3, <1>4, <1>5, <1>6, <1>7, <1>8, <1>9, <1>10 DEF StagingNext

(* The inductive invariant of staging: writers hold the lock, and the      *)
(* shared zip only ever gets newer.                                        *)
THEOREM StagingInvHolds == StagingSpec => []StagingInv
  BY StagingInvInit, StagingInvStep, PTL DEF StagingSpec

(* build_dev_repo_zip and stage_dev_repo_zip keep the types of their       *)
(* state; in particular a missing zip is never hashed or sent.             *)
THEOREM StagingTypeCorrect == StagingSpec => []TypeOK
  BY StagingInvHolds, PTL DEF StagingInv

(* Every digest, length and body that stage_dev_repo_zip takes from the    *)
(* shared zip is of the generation its call froze or of a later one.       *)
THEOREM NeverOlder == StagingSpec => []NeverOlderThanFrozen
  BY StagingInvHolds, PTL DEF StagingInv
=============================================================================
