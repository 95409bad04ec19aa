-------------------------- MODULE KodiToolsProofs ---------------------------
(***************************************************************************)
(* Proofs about the requests to Kodi and the tools that make them.         *)
(*                                                                         *)
(* No write request is executed twice, for any calls, methods, bounds and  *)
(* number of retries.  The invariant says of every write that can still be *)
(* executed, in flight or given up, that it has not been executed; it is   *)
(* inductive because a write is never sent again and its number is new.    *)
(*                                                                         *)
(* The tools are clients of these transports, and a tool that answers ok   *)
(* has had its writes executed.  The invariant says at each place of each  *)
(* tool which of the writes before it have been executed for certain.      *)
(*                                                                         *)
(* A walk over the pages of the library is complete: what ranks below the  *)
(* next page has been met, as long as the library only grows, and what has *)
(* been met ranks below it, as long as it only shrinks.                    *)
(***************************************************************************)
EXTENDS LibraryTools, FiniteSetTheorems, TLAPS

Args == {0} \cup Values \cup Titles
Requests == [method : Methods \cup {"none"}, arg : Args, left : Nat, n : 0 .. MaxWrites]
Late == [call : Calls, method : Writes, arg : Args, n : 1 .. MaxWrites]
Counters == 1 .. MaxWrites

RequestTypes ==
    /\ request \in [Calls -> Requests]
    /\ late \subseteq Late
    /\ sent \in [Calls -> 0 .. MaxWrites]
    /\ runs \in [Calls -> [Counters -> Nat]]

SentOnce ==
    \A c \in Calls : IsWrite(request[c]) =>
        request[c].left = 0 /\ request[c].n = sent[c] /\ sent[c] \in Counters

Unissued == \A c \in Calls, n \in Counters : n > sent[c] => runs[c][n] = 0

Distinct == \A x, y \in late : x.call = y.call /\ x.n = y.n => x = y

Inv == RequestTypes /\ SentOnce /\ Unissued /\ Distinct /\ NotYet /\ AtMostOnce

LEMMA WritesAreMethods ==
    Writes \subseteq Methods /\ "none" \notin Methods /\ Nothing.method = "none"
BY DEF Writes, Methods, SafeReads, Unrepeated, Nothing

LEMMA SafeIsNoWrite == ASSUME NEW m \in Methods, IsSafeToRetry(m) PROVE m \notin Writes
BY DEF IsSafeToRetry, SafeReads, Writes

LEMMA RequestInit == InitRequests => Inv
<1>1. SUFFICES ASSUME InitRequests PROVE Inv
  OBVIOUS
<1>2. RequestTypes
  BY <1>1, BoundsAreNaturals DEF InitRequests, RequestTypes, Requests, Args, Nothing,
     Counters
<1>3. SentOnce /\ NotYet /\ Distinct
  BY <1>1, WritesAreMethods DEF InitRequests, SentOnce, NotYet, Distinct, IsWrite, Nothing
<1>4. Unissued /\ AtMostOnce
  BY <1>1 DEF InitRequests, Unissued, AtMostOnce, Counters
<1>5. QED
  BY <1>2, <1>3, <1>4 DEF Inv

(* A new request: a write gets a number that nothing on its way has.       *)
LEMMA IssueKeeps ==
    ASSUME Inv, NEW c \in Calls, NEW m \in Methods, NEW arg \in Args,
           m \in Writes => sent[c] < MaxWrites, Issue(c, m, arg)
    PROVE  Inv'
<1> DEFINE w == m \in Writes
           r == [method |-> m, arg |-> arg,
                 left |-> IF IsSafeToRetry(m) THEN MaxRetries ELSE 0,
                 n |-> IF w THEN sent[c] + 1 ELSE 0]
<1>1. /\ request' = [request EXCEPT ![c] = r]
      /\ sent' = IF w THEN [sent EXCEPT ![c] = @ + 1] ELSE sent
      /\ UNCHANGED <<late, runs>>
  BY DEF Issue
<1>2. /\ request \in [Calls -> Requests] /\ late \subseteq Late
      /\ sent \in [Calls -> 0 .. MaxWrites] /\ runs \in [Calls -> [Counters -> Nat]]
      /\ MaxWrites \in Nat /\ MaxRetries \in Nat
  BY BoundsAreNaturals DEF Inv, RequestTypes
<1>3. sent' \in [Calls -> 0 .. MaxWrites] /\ sent'[c] = (IF w THEN sent[c] + 1 ELSE sent[c])
  BY <1>1, <1>2
<1>4. r \in Requests
  BY <1>2 DEF Requests
<1>5. request' \in [Calls -> Requests] /\ request'[c] = r
  BY <1>1, <1>2, <1>4
<1>6. \A d \in Calls : d # c => request'[d] = request[d] /\ sent'[d] = sent[d]
  BY <1>1, <1>2
<1>7. \A d \in Calls : sent[d] <= sent'[d]
  BY <1>2, <1>3, <1>6
<1>8. RequestTypes'
  BY <1>1, <1>2, <1>3, <1>5 DEF RequestTypes
<1>9. SentOnce'
  <2>1. w => r.left = 0 /\ r.n = sent'[c] /\ sent'[c] \in Counters
    BY <1>2, <1>3, SafeIsNoWrite DEF Counters
  <2>2. QED
    BY <2>1, <1>5, <1>6 DEF SentOnce, IsWrite, Inv
<1>10. Unissued'
  <2>1. SUFFICES ASSUME NEW d \in Calls, NEW n \in Counters, n > sent'[d]
                 PROVE  runs'[d][n] = 0
    BY DEF Unissued
  <2>2. n > sent[d]
    BY <2>1, <1>7, <1>2, <1>3 DEF Counters
  <2>3. QED
    BY <2>2, <1>1 DEF Inv, Unissued
<1>11. NotYet'
  <2>1. ASSUME NEW x \in late' PROVE x.n <= sent'[x.call] /\ runs'[x.call][x.n] = 0
    <3>1. x \in late /\ x.call \in Calls /\ x.n \in Counters
      BY <2>1, <1>1, <1>2 DEF Late, Counters
    <3>2. x.n <= sent[x.call] /\ runs[x.call][x.n] = 0
      BY <3>1 DEF Inv, NotYet
    <3>3. QED
      BY <3>1, <3>2, <1>1, <1>2, <1>3, <1>7 DEF Counters
  <2>2. ASSUME NEW d \in Calls, IsWrite(request[d])'
        PROVE  /\ request'[d].n = sent'[d] /\ runs'[d][sent'[d]] = 0
               /\ \A x \in late' : x.call = d => x.n # sent'[d]
    <3>1. CASE d # c
      BY <2>2, <3>1, <1>1, <1>6 DEF Inv, NotYet, IsWrite
    <3>2. CASE d = c
      <4>1. w
        BY <2>2, <3>2, <1>5 DEF IsWrite
      <4>2. r.n = sent'[c] /\ sent'[c] = sent[c] + 1 /\ sent'[c] \in Counters
        BY <4>1, <1>2, <1>3 DEF Counters
      <4>3. runs[c][sent'[c]] = 0
        BY <4>2, <1>2 DEF Inv, Unissued
      <4>4. \A x \in late : x.call = c => x.n # sent'[c]
        BY <4>2, <1>2 DEF Inv, NotYet, Late
      <4>5. QED
        BY <3>2, <4>2, <4>3, <4>4, <1>1, <1>5
    <3>3. QED
      BY <3>1, <3>2
  <2>3. QED
    BY <2>1, <2>2 DEF NotYet
<1>12. AtMostOnce' /\ Distinct'
  BY <1>1 DEF Inv, AtMostOnce, Distinct
<1>13. QED
  BY <1>8, <1>9, <1>10, <1>11, <1>12 DEF Inv

(* What an attempt can do: its request is dropped or stays to be sent      *)
(* again; a write is executed, given up, or neither.                       *)
LEMMA AttemptShape ==
    ASSUME Inv, NEW c \in Calls, Transport(c)
    PROVE  /\ sent' = sent
           /\ \E q \in Requests : request' = [request EXCEPT ![c] = q] /\ ~IsWrite(q)
           /\ \/ UNCHANGED <<runs, late>>
              \/ /\ IsWrite(request[c]) /\ late' = late
                 /\ runs' = [runs EXCEPT ![c][request[c].n] = @ + 1]
              \/ /\ IsWrite(request[c]) /\ runs' = runs
                 /\ late' = late \cup {[call |-> c, method |-> request[c].method,
                                        arg |-> request[c].arg, n |-> request[c].n]}
<1>1. request \in [Calls -> Requests] /\ request[c] \in Requests
  BY DEF Inv, RequestTypes
<1>2. Nothing \in Requests /\ ~IsWrite(Nothing)
  BY WritesAreMethods, BoundsAreNaturals DEF Nothing, Requests, Args, IsWrite
<1>3. sent' = sent
  BY DEF Transport, KodiAnswers, AnswerIsLost, KodiRefuses, Unreachable, TimesOut
<1>4. ASSUME NEW a, Answered(c, a)
      PROVE  \E q \in Requests : request' = [request EXCEPT ![c] = q] /\ ~IsWrite(q)
  BY <1>2, <1>4 DEF Answered
<1>5. ASSUME Retried(c)
      PROVE  \E q \in Requests : request' = [request EXCEPT ![c] = q] /\ ~IsWrite(q)
  <2> DEFINE q == [request[c] EXCEPT !.left = @ - 1]
  <2>1. request[c].left > 0 /\ request' = [request EXCEPT ![c] = q]
    BY <1>5 DEF Retried
  <2>2. ~IsWrite(request[c])
    BY <2>1 DEF Inv, SentOnce
  <2>3. q \in Requests /\ q.method = request[c].method
    BY <1>1, <2>1 DEF Requests
  <2>4. QED
    BY <2>1, <2>2, <2>3 DEF IsWrite
<1>6. \E q \in Requests : request' = [request EXCEPT ![c] = q] /\ ~IsWrite(q)
  BY <1>4, <1>5 DEF Transport, KodiAnswers, AnswerIsLost, KodiRefuses, Unreachable,
                    TimesOut, FailsTransiently
<1>7. CASE KodiAnswers(c) \/ AnswerIsLost(c)
  BY <1>3, <1>6, <1>7 DEF KodiAnswers, AnswerIsLost, Counted
<1>8. CASE KodiRefuses(c) \/ Unreachable(c)
  BY <1>3, <1>6, <1>8 DEF KodiRefuses, Unreachable
<1>9. CASE TimesOut(c)
  BY <1>3, <1>6, <1>9 DEF TimesOut
<1>10. QED
  BY <1>7, <1>8, <1>9 DEF Transport

LEMMA AttemptKeeps == ASSUME Inv, NEW c \in Calls, Transport(c) PROVE Inv'
<1> DEFINE k == request[c].n
           x == [call |-> c, method |-> request[c].method, arg |-> request[c].arg, n |-> k]
<1>1. PICK q \in Requests : request' = [request EXCEPT ![c] = q] /\ ~IsWrite(q)
  BY AttemptShape
<1>2. sent' = sent
  BY AttemptShape
<1>3. \/ UNCHANGED <<runs, late>>
      \/ IsWrite(request[c]) /\ late' = late /\ runs' = [runs EXCEPT ![c][k] = @ + 1]
      \/ IsWrite(request[c]) /\ runs' = runs /\ late' = late \cup {x}
  BY AttemptShape
<1>4. /\ request \in [Calls -> Requests] /\ late \subseteq Late
      /\ sent \in [Calls -> 0 .. MaxWrites] /\ runs \in [Calls -> [Counters -> Nat]]
  BY DEF Inv, RequestTypes
<1>5. request' \in [Calls -> Requests] /\ ~IsWrite(request'[c])
      /\ \A d \in Calls : d # c => request'[d] = request[d]
  BY <1>1, <1>4
<1>6. ASSUME IsWrite(request[c])
      PROVE  /\ k \in Counters /\ k = sent[c] /\ runs[c][k] = 0 /\ x \in Late
             /\ \A y \in late : y.call = c => y.n # k
  <2>1. k \in Counters /\ k = sent[c] /\ runs[c][k] = 0
        /\ \A y \in late : y.call = c => y.n # k
    BY <1>6 DEF Inv, SentOnce, NotYet
  <2>2. request[c].method \in Writes /\ request[c].arg \in Args
    BY <1>4, <1>6 DEF Requests, IsWrite
  <2>3. QED
    BY <2>1, <2>2 DEF Late, Counters
<1>7. \A d \in Calls, n \in Counters :
         runs'[d][n] = IF runs' # runs /\ d = c /\ n = k THEN runs[d][n] + 1 ELSE runs[d][n]
  BY <1>3, <1>4, <1>6
<1>8. runs' \in [Calls -> [Counters -> Nat]] /\ late' \subseteq Late
  BY <1>3, <1>4, <1>6
<1>9. (runs' # runs) => IsWrite(request[c]) /\ late' = late
  BY <1>3
<1>10. RequestTypes'
  BY <1>2, <1>4, <1>5, <1>8 DEF RequestTypes
<1>11. SentOnce'
  BY <1>2, <1>5 DEF Inv, SentOnce, IsWrite
<1>12. Unissued' /\ AtMostOnce'
  <2>1. ASSUME NEW d \in Calls, NEW n \in Counters
        PROVE  (n > sent'[d] => runs'[d][n] = 0) /\ runs'[d][n] <= 1
    <3>1. (n > sent[d] => runs[d][n] = 0) /\ runs[d][n] <= 1 /\ runs[d][n] \in Nat
      BY <1>4 DEF Inv, Unissued, AtMostOnce, Counters
    <3>2. CASE runs' # runs /\ d = c /\ n = k
      <4>1. runs'[d][n] = 1 /\ sent'[d] = n
        BY <3>2, <1>2, <1>6, <1>7, <1>9
      <4>2. QED
        BY <4>1 DEF Counters
    <3>3. CASE ~(runs' # runs /\ d = c /\ n = k)
      BY <3>1, <3>3, <1>2, <1>7
    <3>4. QED
      BY <3>2, <3>3
  <2>2. QED
    BY <2>1 DEF Unissued, AtMostOnce, Counters
<1>13. Distinct'
  BY <1>3, <1>6 DEF Inv, Distinct
<1>14. NotYet'
  <2>1. ASSUME NEW y \in late' PROVE y.n <= sent'[y.call] /\ runs'[y.call][y.n] = 0
    <3>1. y \in Late /\ y.call \in Calls /\ y.n \in Counters
      BY <2>1, <1>8 DEF Late, Counters
    <3>2. CASE y \in late
      <4>1. y.n <= sent[y.call] /\ runs[y.call][y.n] = 0
        BY <3>2 DEF Inv, NotYet
      <4>2. QED
        BY <3>1, <3>2, <4>1, <1>2, <1>6, <1>7, <1>9
    <3>3. CASE y \notin late
      <4>1. IsWrite(request[c]) /\ y = x /\ runs' = runs
        BY <2>1, <3>3, <1>3
      <4>2. y.call = c /\ y.n = k
        BY <4>1
      <4>3. QED
        BY <4>1, <4>2, <1>2, <1>4, <1>6 DEF Counters
    <3>4. QED
      BY <3>2, <3>3
  <2>2. ASSUME NEW d \in Calls, IsWrite(request[d])'
        PROVE  /\ request'[d].n = sent'[d] /\ runs'[d][sent'[d]] = 0
               /\ \A y \in late' : y.call = d => y.n # sent'[d]
    <3>1. d # c /\ request'[d] = request[d] /\ IsWrite(request[d])
      BY <2>2, <1>5 DEF IsWrite
    <3>2. /\ request[d].n = sent[d] /\ runs[d][sent[d]] = 0 /\ sent[d] \in Counters
          /\ \A y \in late : y.call = d => y.n # sent[d]
      BY <3>1 DEF Inv, NotYet, SentOnce
    <3>3. runs'[d][sent[d]] = 0
      BY <3>1, <3>2, <1>7
    <3>4. \A y \in late' : y \in late \/ y.call = c
      BY <1>3
    <3>5. QED
      BY <3>1, <3>2, <3>3, <3>4, <1>2
  <2>3. QED
    BY <2>1, <2>2 DEF NotYet
<1>15. QED
  BY <1>10, <1>11, <1>12, <1>13, <1>14 DEF Inv

LEMMA LateKeeps ==
    ASSUME Inv, NEW m \in late, ArrivesLate(m) \/ IsDropped(m) PROVE Inv'
<1>1. /\ late' = late \ {m} /\ UNCHANGED <<request, sent>>
      /\ runs' = runs \/ runs' = [runs EXCEPT ![m.call][m.n] = @ + 1]
  BY DEF ArrivesLate, IsDropped
<1>2. /\ late \subseteq Late /\ m.call \in Calls /\ m.n \in Counters
      /\ runs \in [Calls -> [Counters -> Nat]] /\ sent \in [Calls -> 0 .. MaxWrites]
  BY DEF Inv, RequestTypes, Late, Counters
<1>3. m.n <= sent[m.call] /\ runs[m.call][m.n] = 0
  BY DEF Inv, NotYet
<1>4. \A d \in Calls, n \in Counters :
         d # m.call \/ n # m.n => runs'[d][n] = runs[d][n]
  BY <1>1, <1>2
<1>5. runs' \in [Calls -> [Counters -> Nat]] /\ runs'[m.call][m.n] <= 1
  BY <1>1, <1>2, <1>3
<1>6. RequestTypes' /\ SentOnce' /\ Distinct'
  BY <1>1, <1>5 DEF Inv, RequestTypes, SentOnce, Distinct, IsWrite
<1>7. Unissued' /\ AtMostOnce'
  <2>1. ASSUME NEW d \in Calls, NEW n \in Counters
        PROVE  (n > sent'[d] => runs'[d][n] = 0) /\ runs'[d][n] <= 1
    <3>1. (n > sent[d] => runs[d][n] = 0) /\ runs[d][n] <= 1 /\ sent' = sent
      BY <1>1 DEF Inv, Unissued, AtMostOnce, Counters
    <3>2. CASE d = m.call /\ n = m.n
      BY <3>1, <3>2, <1>2, <1>3, <1>5 DEF Counters
    <3>3. CASE d # m.call \/ n # m.n
      BY <3>1, <3>3, <1>4
    <3>4. QED
      BY <3>2, <3>3
  <2>2. QED
    BY <2>1 DEF Unissued, AtMostOnce, Counters
<1>8. NotYet'
  <2>1. ASSUME NEW y \in late' PROVE y.n <= sent'[y.call] /\ runs'[y.call][y.n] = 0
    <3>1. y \in late /\ y # m /\ y.call \in Calls /\ y.n \in Counters
      BY <2>1, <1>1, <1>2 DEF Late, Counters
    <3>2. y.call # m.call \/ y.n # m.n
      BY <3>1 DEF Inv, Distinct
    <3>3. QED
      BY <3>1, <3>2, <1>1, <1>4 DEF Inv, NotYet
  <2>2. ASSUME NEW d \in Calls, IsWrite(request[d])'
        PROVE  /\ request'[d].n = sent'[d] /\ runs'[d][sent'[d]] = 0
               /\ \A y \in late' : y.call = d => y.n # sent'[d]
    <3>1. /\ request[d].n = sent[d] /\ runs[d][sent[d]] = 0 /\ sent[d] \in Counters
          /\ \A y \in late : y.call = d => y.n # sent[d]
      BY <2>2, <1>1 DEF Inv, NotYet, SentOnce, IsWrite
    <3>2. d # m.call \/ sent[d] # m.n
      BY <3>1
    <3>3. QED
      BY <3>1, <3>2, <1>1, <1>4
  <2>3. QED
    BY <2>1, <2>2 DEF NotYet
<1>9. QED
  BY <1>6, <1>7, <1>8 DEF Inv

LEMMA RequestStep == Inv /\ [NextRequest]_<<kodi, transport>> => Inv'
<1>1. SUFFICES ASSUME Inv, [NextRequest]_<<kodi, transport>> PROVE Inv'
  OBVIOUS
<1>2. CASE UNCHANGED <<kodi, transport>>
  BY <1>1, <1>2 DEF transport, Inv, RequestTypes, SentOnce, Unissued, Distinct, NotYet,
     AtMostOnce
<1>3. ASSUME NEW c \in Calls, NEW m \in Methods, NEW arg \in {0} \cup Values \cup Titles,
             m \in Writes => sent[c] < MaxWrites, Issue(c, m, arg)
      PROVE  Inv'
  BY <1>1, <1>3, IssueKeeps DEF Args
<1>4. ASSUME NEW c \in Calls, Transport(c) PROVE Inv'
  BY <1>1, <1>4, AttemptKeeps
<1>5. ASSUME NEW m \in late, ArrivesLate(m) \/ IsDropped(m) PROVE Inv'
  BY <1>1, <1>5, LateKeeps
<1>6. CASE OthersAct
  BY <1>1, <1>6 DEF OthersAct, transport, Inv, RequestTypes, SentOnce, Unissued,
     Distinct, NotYet, AtMostOnce
<1>7. QED
  BY <1>1, <1>2, <1>3, <1>4, <1>5, <1>6 DEF NextRequest

(* The invariant of the transports, and what it is for: a write the client *)
(* has given up has not been executed so far, and never is twice.          *)
LEMMA RequestInvariant == RequestSpec => []Inv
<1>1. InitRequests => Inv
  BY RequestInit
<1>2. QED
  BY <1>1, RequestStep, PTL DEF RequestSpec

(* http_jsonrpc.py and http_bridge.py: nothing outside SAFE_READ_METHODS   *)
(* is executed twice by one request.                                       *)
THEOREM WritesRunOnce == RequestSpec => []AtMostOnce
BY RequestInvariant, PTL DEF Inv

(* A write in flight or given up by its timeout has not been executed.     *)
THEOREM OpenIsNotYet == RequestSpec => []NotYet
BY RequestInvariant, PTL DEF Inv
-----------------------------------------------------------------------------
(* The tools.                                                              *)

Fields == DOMAIN Fresh

Writing == {"written", "enabled", "stopped", "executed"}   \* waits for a write
Judged == {"observe", "window", "done"}     \* ok tells whether the writes went through

(* The first n writes of c have been executed, and none can still arrive.  *)
Through(c, n) ==
    /\ \A k \in 1 .. n : runs[c][k] = 1
    /\ \A m \in late : m.call # c

(* What a call r may be that has issued n writes.                          *)
Bounded(r, n) ==
    /\ r.pc \in {"idle", "before", "details"} => n = 0
    /\ r.pc \in {"before", "written", "read_back"} => r.want \in Values
    /\ r.pc \in {"show", "seasons"} => r.want \in Titles
    /\ r.pc = "stopped" => r.tries \in 0 .. VerifyAttempts - 1 /\ n \in 1 .. r.tries + 1
    /\ r.pc = "looked" => r.tries \in 1 .. VerifyAttempts /\ n \in 1 .. r.tries

(* A call that waits for the answer to a write knows of those before it;   *)
(* one that does not has had all of them executed, or knows better.        *)
Awaits(c) ==
    /\ sent[c] > 0
    /\ InFlight(c) => IsWrite(request[c]) /\ Through(c, sent[c] - 1)
    /\ ~InFlight(c) /\ ~Failed(c) => Through(c, sent[c])

Rests(c, r) ==
    /\ r.pc = "idle" => ~InFlight(c)
    /\ ~IsWrite(request[c])
    /\ (r.pc \in Judged => r.ok) => Through(c, sent[c])

Holds(c, r) ==
    /\ Fields = DOMAIN r
    /\ Bounded(r, sent[c])
    /\ r.went = (sent[c] > 0)
    /\ r.pc \in Writing => Awaits(c)
    /\ r.pc \notin Writing => Rests(c, r)

Tools ==
    /\ call = [c \in Calls |-> call[c]] /\ answer = [c \in Calls |-> answer[c]]
    /\ \A c \in Calls : Holds(c, call[c])

IInv == Inv /\ Tools

(* What a step of a tool may be: it ends its call, or goes on with a       *)
(* request.                                                                *)
Moves(c) ==
    /\ ~InFlight(c)
    /\ call' = [call EXCEPT ![c] = call'[c]]
    /\ DOMAIN call'[c] = Fields

Ends(c) ==
    /\ Moves(c) /\ UNCHANGED <<kodi, transport>>
    /\ call'[c].pc = "done" /\ call'[c].went = call[c].went
    /\ call'[c].ok => Through(c, sent[c])

AsksRead(c) ==
    /\ Moves(c)
    /\ \E m \in Methods \ Writes, arg \in Args : Issue(c, m, arg)
    /\ call'[c].pc \notin Writing \cup {"idle"} /\ call'[c].went = call[c].went
    /\ Bounded(call'[c], sent[c])
    /\ (call'[c].pc \in Judged => call'[c].ok) => Through(c, sent[c])

AsksWrite(c) ==
    /\ Moves(c) /\ sent[c] < MaxWrites
    /\ \E m \in Writes, arg \in Args : Issue(c, m, arg)
    /\ call'[c].pc \in Writing /\ call'[c].went = TRUE
    /\ Bounded(call'[c], sent[c] + 1)
    /\ Through(c, sent[c])

ToolMoves(c) == Ends(c) \/ AsksRead(c) \/ AsksWrite(c)

(* Nothing that happens to one call concerns another.                      *)
LEMMA HoldsKept ==
    ASSUME NEW d \in Calls, NEW r, Holds(d, r),
           UNCHANGED <<request[d], answer[d], sent[d], runs[d]>>,
           \A m \in late' : m.call = d => m \in late
    PROVE  Holds(d, r)'
<1>1. \A n : Through(d, n) => Through(d, n)'
  BY DEF Through
<1>2. Awaits(d) => Awaits(d)'
  BY <1>1 DEF Awaits, InFlight, IsWrite, Failed
<1>3. Rests(d, r) => Rests(d, r)'
  BY <1>1 DEF Rests, InFlight, IsWrite
<1>4. QED
  BY <1>2, <1>3 DEF Holds, Bounded

(* So it is enough to look at the call that takes the step.                *)
LEMMA OneIsEnough ==
    ASSUME IInv, NEW c \in Calls,
           call' = [call EXCEPT ![c] = call'[c]], answer' = [answer EXCEPT ![c] = answer'[c]],
           \A d \in Calls : d # c => UNCHANGED <<request[d], sent[d], runs[d]>>,
           \A m \in late' : m.call # c => m \in late,
           Holds(c, call[c])'
    PROVE  Tools'
<1>1. ASSUME NEW d \in Calls, d # c PROVE Holds(d, call[d])'
  <2>1. PICK r : r = call[d]
    OBVIOUS
  <2>2. call'[d] = r /\ answer'[d] = answer[d] /\ Holds(d, r)
    BY <1>1, <2>1 DEF IInv, Tools
  <2>3. Holds(d, r)'
    BY <1>1, <2>2, HoldsKept
  <2>4. QED
    BY <2>2, <2>3
<1>2. QED
  BY <1>1 DEF IInv, Tools

LEMMA EndsKeeps == ASSUME IInv, NEW c \in Calls, Ends(c) PROVE Tools'
<1>1. UNCHANGED <<request, answer, late, sent, runs>>
  BY DEF Ends, transport
<1>2. PICK r : r = call'[c]
  OBVIOUS
<1>3. /\ DOMAIN r = Fields /\ r.pc = "done" /\ r.went = (sent[c] > 0)
      /\ (r.ok => Through(c, sent[c])) /\ ~IsWrite(request[c])
  BY <1>2, WritesAreMethods DEF Ends, Moves, IInv, Tools, Holds, InFlight, IsWrite
<1>4. Holds(c, r)'
  BY <1>1, <1>3 DEF Holds, Rests, Bounded, Writing, Judged, Through
<1>5. answer' = [answer EXCEPT ![c] = answer'[c]]
  BY <1>1 DEF IInv, Tools
<1>6. QED
  BY <1>1, <1>2, <1>4, <1>5, OneIsEnough DEF Ends, Moves

LEMMA AsksKeeps ==
    ASSUME IInv, NEW c \in Calls, AsksRead(c) \/ AsksWrite(c)
    PROVE  Tools'
<1>1. PICK m \in Methods, arg \in Args : Issue(c, m, arg) /\ (m \in Writes <=> AsksWrite(c))
  BY WritesAreMethods DEF AsksRead, AsksWrite
<1>2. PICK q : /\ request' = [request EXCEPT ![c] = q] /\ q.method = m
  <2> DEFINE p == [method |-> m, arg |-> arg,
                   left |-> IF IsSafeToRetry(m) THEN MaxRetries ELSE 0,
                   n |-> IF m \in Writes THEN sent[c] + 1 ELSE 0]
  <2>1. request' = [request EXCEPT ![c] = p] /\ p.method = m
    BY <1>1 DEF Issue
  <2>2. QED
    BY <2>1
<1>3. /\ request \in [Calls -> Requests] /\ sent \in [Calls -> 0 .. MaxWrites]
      /\ answer = [d \in Calls |-> answer[d]]
  BY DEF IInv, Inv, RequestTypes, Tools
<1>4. request'[c] = q /\ \A d \in Calls : d # c => request'[d] = request[d]
  BY <1>2, <1>3
<1>5. /\ answer' = [answer EXCEPT ![c] = answer'[c]]
      /\ \A d \in Calls : d # c => sent'[d] = sent[d]
      /\ UNCHANGED <<runs, late>>
  BY <1>1, <1>3 DEF Issue
<1>6. InFlight(c)' /\ (IsWrite(request[c])' <=> m \in Writes)
  BY <1>2, <1>4, WritesAreMethods DEF InFlight, IsWrite
<1>7. PICK r : r = call'[c]
  OBVIOUS
<1>8. Holds(c, r)'
  <2>1. CASE AsksRead(c) /\ m \notin Writes
    <3>1. sent'[c] = sent[c]
      BY <1>1, <2>1 DEF Issue
    <3>2. Through(c, sent[c]) => Through(c, sent[c])'
      BY <1>5, <3>1 DEF Through
    <3>3. /\ DOMAIN r = Fields /\ r.pc \notin Writing \cup {"idle"} /\ r.went = (sent[c] > 0)
          /\ Bounded(r, sent[c]) /\ ((r.pc \in Judged => r.ok) => Through(c, sent[c]))
      BY <1>7, <2>1 DEF AsksRead, Moves, IInv, Tools, Holds
    <3>4. QED
      BY <1>6, <2>1, <3>1, <3>2, <3>3 DEF Holds, Rests, Bounded
  <2>2. CASE AsksWrite(c) /\ m \in Writes
    <3>1. sent'[c] = sent[c] + 1 /\ sent[c] \in Nat
      BY <1>1, <1>3, <2>2 DEF Issue
    <3>2. Through(c, sent[c]) => Through(c, sent[c] - 1)'
      BY <1>5, <3>1 DEF Through
    <3>3. /\ DOMAIN r = Fields /\ r.pc \in Writing /\ r.went = TRUE
          /\ Bounded(r, sent[c] + 1) /\ Through(c, sent[c])
      BY <1>7, <2>2 DEF AsksWrite, Moves
    <3>4. Awaits(c)'
      BY <1>6, <2>2, <3>1, <3>2, <3>3 DEF Awaits
    <3>5. (sent[c] > 0)' = TRUE
      BY <3>1
    <3>6. Bounded(r, sent[c])'
      BY <3>1, <3>3 DEF Bounded
    <3>7. QED
      BY <3>3, <3>4, <3>5, <3>6 DEF Holds
  <2>3. QED
    BY <1>1, <2>1, <2>2
<1>9. QED
  BY <1>4, <1>5, <1>7, <1>8, OneIsEnough DEF AsksRead, AsksWrite, Moves

(* What the transport does for a call: a write is answered, with or        *)
(* without having been executed, and a read leaves the writes alone.       *)
LEMMA AttemptAnswers ==
    ASSUME IInv, NEW c \in Calls, Transport(c)
    PROVE  /\ answer' = [answer EXCEPT ![c] = answer'[c]]
           /\ IsWrite(request[c]) =>
                 /\ ~InFlight(c)'
                 /\ \/ Failed(c)'
                    \/ late' = late /\ runs' = [runs EXCEPT ![c][request[c].n] = @ + 1]
<1>1. answer = [d \in Calls |-> answer[d]] /\ request \in [Calls -> Requests]
  BY DEF IInv, Inv, RequestTypes, Tools
<1>2. IsWrite(request[c]) => request[c].left = 0
  BY DEF IInv, Inv, SentOnce
<1>3. ASSUME NEW a, Answered(c, a)
      PROVE  answer' = [answer EXCEPT ![c] = a] /\ answer'[c] = a /\ ~InFlight(c)'
  BY <1>1, <1>3 DEF Answered, InFlight
<1>4. ASSUME FailsTransiently(c)
      PROVE  /\ answer' = [answer EXCEPT ![c] = answer'[c]]
             /\ IsWrite(request[c]) => Failed(c)' /\ ~InFlight(c)'
  BY <1>1, <1>2, <1>3, <1>4 DEF FailsTransiently, Retried, Failed, Error
<1>5. CASE KodiAnswers(c)
  BY <1>3, <1>5 DEF KodiAnswers, Counted
<1>6. CASE AnswerIsLost(c)
  BY <1>3, <1>4, <1>6 DEF AnswerIsLost, Failed, Error
<1>7. CASE KodiRefuses(c) \/ Unreachable(c) \/ TimesOut(c)
  BY <1>3, <1>4, <1>7 DEF KodiRefuses, Unreachable, TimesOut, Failed, Error
<1>8. QED
  BY <1>5, <1>6, <1>7 DEF Transport

LEMMA AttemptKeepsTools ==
    ASSUME IInv, NEW c \in Calls, Transport(c), UNCHANGED call
    PROVE  Tools'
<1>1. /\ request \in [Calls -> Requests] /\ late \subseteq Late
      /\ sent \in [Calls -> 0 .. MaxWrites] /\ runs \in [Calls -> [Counters -> Nat]]
      /\ call = [d \in Calls |-> call[d]] /\ answer = [d \in Calls |-> answer[d]]
  BY DEF IInv, Inv, RequestTypes, Tools
<1>2. PICK q \in Requests : request' = [request EXCEPT ![c] = q] /\ ~IsWrite(q)
  BY AttemptShape DEF IInv
<1>3. sent' = sent /\ request'[c] = q /\ \A d \in Calls : d # c => request'[d] = request[d]
  BY <1>1, <1>2, AttemptShape DEF IInv
<1>4. /\ \A d \in Calls : d # c => runs'[d] = runs[d]
      /\ \A m \in late' : m.call # c => m \in late
      /\ ~IsWrite(request[c]) => UNCHANGED <<runs, late>>
  BY <1>1, AttemptShape DEF IInv
<1>5. PICK r : r = call[c] /\ r = call'[c]
  OBVIOUS
<1>6. Holds(c, r)
  BY <1>5 DEF IInv, Tools
<1>7. InFlight(c)
  BY DEF Transport, KodiAnswers, AnswerIsLost, KodiRefuses, Unreachable, TimesOut
<1>8. Bounded(r, sent[c])' /\ (r.went = (sent[c] > 0))'
  BY <1>3, <1>6 DEF Holds, Bounded
<1>9. ASSUME r.pc \in Writing PROVE Holds(c, r)'
  <2>1. /\ IsWrite(request[c]) /\ sent[c] > 0 /\ sent[c] \in Nat
        /\ Through(c, sent[c] - 1)
    BY <1>1, <1>6, <1>7, <1>9 DEF Holds, Awaits
  <2>2. request[c].n = sent[c] /\ sent[c] \in Counters /\ runs[c][sent[c]] = 0
    BY <2>1 DEF IInv, Inv, SentOnce, NotYet
  <2>3. ASSUME late' = late, runs' = [runs EXCEPT ![c][request[c].n] = @ + 1]
        PROVE  Through(c, sent[c])'
    <3>1. \A k \in 1 .. sent[c] : runs'[c][k] = 1
      <4>1. runs' = [runs EXCEPT ![c][sent[c]] = @ + 1]
        BY <2>2, <2>3
      <4>2. \A k \in Counters : runs'[c][k] = IF k = sent[c] THEN 1 ELSE runs[c][k]
        BY <1>1, <2>2, <4>1
      <4>3. \A k \in 1 .. sent[c] - 1 : runs[c][k] = 1
        BY <2>1 DEF Through
      <4>4. \A k \in 1 .. sent[c] : k \in Counters /\ (k = sent[c] \/ k \in 1 .. sent[c] - 1)
        BY <2>1, <2>2, BoundsAreNaturals DEF Counters
      <4>5. QED
        BY <4>2, <4>3, <4>4
    <3>2. QED
      BY <1>3, <2>1, <2>3, <3>1 DEF Through
  <2>4. Awaits(c)'
    BY <1>3, <2>1, <2>3, AttemptAnswers DEF Awaits
  <2>5. QED
    BY <1>6, <1>8, <1>9, <2>4 DEF Holds
<1>10. ASSUME r.pc \notin Writing PROVE Holds(c, r)'
  <2>1. ~IsWrite(request[c]) /\ r.pc # "idle"
        /\ ((r.pc \in Judged => r.ok) => Through(c, sent[c]))
    BY <1>6, <1>7, <1>10 DEF Holds, Rests
  <2>2. Through(c, sent[c]) => Through(c, sent[c])'
    BY <1>3, <1>4, <2>1 DEF Through
  <2>3. Rests(c, r)'
    BY <1>2, <1>3, <2>1, <2>2 DEF Rests, IsWrite
  <2>4. QED
    BY <1>6, <1>8, <1>10, <2>3 DEF Holds
<1>11. Holds(c, call[c])'
  BY <1>5, <1>9, <1>10
<1>12. call' = [call EXCEPT ![c] = call'[c]]
  BY <1>1
<1>13. QED
  BY <1>3, <1>4, <1>11, <1>12, AttemptAnswers, OneIsEnough

(* A write that arrives late is no write of a call that relies on it.      *)
LEMMA LateKeepsTools ==
    ASSUME IInv, NEW m \in late, ArrivesLate(m) \/ IsDropped(m), UNCHANGED call
    PROVE  Tools'
<1>1. /\ late' = late \ {m} /\ UNCHANGED <<request, answer, sent>>
      /\ runs' = runs \/ runs' = [runs EXCEPT ![m.call][m.n] = @ + 1]
      /\ m.call \in Calls /\ runs \in [Calls -> [Counters -> Nat]]
  BY DEF ArrivesLate, IsDropped, IInv, Inv, RequestTypes, Late
<1>2. ASSUME NEW d \in Calls PROVE Holds(d, call[d])'
  <2>1. PICK r : r = call[d] /\ r = call'[d]
    OBVIOUS
  <2>2. Holds(d, r)
    BY <2>1 DEF IInv, Tools
  <2>3. \A n : Through(d, n) => Through(d, n)'
    BY <1>1 DEF Through
  <2>4. Awaits(d) => Awaits(d)'
    BY <1>1, <2>3 DEF Awaits, InFlight, IsWrite, Failed
  <2>5. Rests(d, r) => Rests(d, r)'
    BY <1>1, <2>3 DEF Rests, InFlight, IsWrite
  <2>6. QED
    BY <1>1, <2>1, <2>2, <2>4, <2>5 DEF Holds, Bounded
<1>3. QED
  BY <1>1, <1>2 DEF IInv, Tools

LEMMA StillKeepsTools ==
    ASSUME IInv, UNCHANGED <<request, answer, late, sent, runs, call>>
    PROVE  Tools'
BY DEF IInv, Tools, Holds, Awaits, Rests, Through, InFlight, Failed

-----------------------------------------------------------------------------
(* The steps of the tools, one lemma for each tool.                        *)
LEMMA CallBecomes ==
    ASSUME IInv, NEW c \in Calls, NEW r, call' = [call EXCEPT ![c] = r]
    PROVE  call' = [call EXCEPT ![c] = call'[c]] /\ call'[c] = r
BY DEF IInv, Tools

LEMMA Starts ==
    ASSUME IInv, NEW c \in Calls, NEW r, Start(c, r), DOMAIN r = Fields
    PROVE  /\ Moves(c) /\ call'[c] = r
           /\ sent[c] = 0 /\ Through(c, 0) /\ call[c].went = FALSE
<1>1. At(c, "idle") /\ ~InFlight(c) /\ call' = [call EXCEPT ![c] = r]
  BY DEF Start
<1>2. Moves(c) /\ call'[c] = r
  BY <1>1, CallBecomes DEF Moves
<1>3. Holds(c, call[c]) /\ call[c].pc = "idle"
  BY <1>1 DEF IInv, Tools, At
<1>4. sent[c] = 0 /\ Through(c, 0)
  BY <1>3 DEF Holds, Bounded, Rests, Writing, Judged
<1>5. call[c].went = FALSE
  <2>1. (sent[c] > 0) = FALSE
    BY <1>4
  <2>2. QED
    BY <1>3, <2>1 DEF Holds
<1>6. QED
  BY <1>2, <1>4, <1>5

LEMMA Goes ==
    ASSUME IInv, NEW c \in Calls, NEW r, ~InFlight(c), Go(c, r), DOMAIN r = Fields
    PROVE  Moves(c) /\ call'[c] = r
BY CallBecomes DEF Go, Moves

LEMMA Finishes ==
    ASSUME IInv, NEW c \in Calls, NEW ok, ~InFlight(c), Finish(c, ok),
           ok => Through(c, sent[c])
    PROVE  ToolMoves(c)
<1> DEFINE r == [Fresh EXCEPT !.tool = call[c].tool, !.pc = "done", !.went = call[c].went,
                              !.ok = ok, !.got = call[c].got, !.libraries = call[c].libraries]
<1>1. call' = [call EXCEPT ![c] = r] /\ UNCHANGED <<kodi, transport>>
  BY DEF Finish
<1>2. DOMAIN r = Fields /\ r.pc = "done" /\ r.went = call[c].went /\ r.ok = ok
  BY DEF Fields, Fresh
<1> HIDE DEF r
<1>3. call' = [call EXCEPT ![c] = call'[c]] /\ call'[c] = r
  BY <1>1 DEF IInv, Tools
<1>4. QED
  BY <1>1, <1>2, <1>3 DEF ToolMoves, Ends, Moves

(* What is known of a call whose last request has been answered.           *)
LEMMA Known ==
    ASSUME IInv, NEW c \in Calls, ~InFlight(c)
    PROVE  /\ DOMAIN call[c] = Fields /\ Bounded(call[c], sent[c]) /\ sent[c] \in Nat
           /\ call[c].went = (sent[c] > 0)
           /\ call[c].pc \in Writing /\ ~Failed(c) => Through(c, sent[c])
           /\ call[c].pc \notin Writing /\ (call[c].pc \in Judged => call[c].ok)
                 => Through(c, sent[c])
BY DEF IInv, Inv, RequestTypes, Tools, Holds, Awaits, Rests

LEMMA SettingMoves ==
    ASSUME IInv, NEW c \in Calls,
           \/ RefuseSetting(c) \/ SetSetting(c)
           \/ SettingBefore(c) \/ SettingWritten(c) \/ SettingReadBack(c)
    PROVE  ToolMoves(c)
<1>1. CASE RefuseSetting(c)
  <2> DEFINE r == [Fresh EXCEPT !.tool = "set_setting", !.pc = "done"]
  <2>1. DOMAIN r = Fields /\ r.pc = "done" /\ r.went = FALSE /\ r.ok = FALSE
    BY DEF Fields, Fresh
  <2>2. Start(c, r) /\ UNCHANGED <<kodi, transport>>
    BY <1>1 DEF RefuseSetting
  <2> HIDE DEF r
  <2>3. QED
    BY <2>1, <2>2, Starts DEF ToolMoves, Ends
<1>2. CASE SetSetting(c)
  <2>1. PICK v \in Values :
           /\ Start(c, [Fresh EXCEPT !.tool = "set_setting", !.pc = "before", !.want = v])
           /\ Issue(c, "Settings.GetSettings", v)
    BY <1>2 DEF SetSetting, ReadSetting
  <2> DEFINE r == [Fresh EXCEPT !.tool = "set_setting", !.pc = "before", !.want = v]
  <2>2. DOMAIN r = Fields /\ r.pc = "before" /\ r.want = v /\ r.went = FALSE
    BY DEF Fields, Fresh
  <2>3. Start(c, r)
    BY <2>1
  <2> HIDE DEF r
  <2>4. Bounded(r, 0) /\ "Settings.GetSettings" \in Methods \ Writes /\ v \in Args
    BY <2>2 DEF Bounded, Methods, SafeReads, Writes, Args
  <2>5. QED
    BY <2>1, <2>2, <2>3, <2>4, Starts DEF ToolMoves, AsksRead, Writing
<1>3. CASE SettingBefore(c)
  <2>1. ~InFlight(c) /\ call[c].pc = "before"
    BY <1>3 DEF SettingBefore, Back, At
  <2>2. sent[c] = 0 /\ Through(c, sent[c]) /\ call[c].want \in Values /\ DOMAIN call[c] = Fields
    BY <2>1, Known DEF Bounded, Writing, Judged
  <2>3. CASE Failed(c) \/ Value(c) = call[c].want
    BY <1>3, <2>1, <2>2, <2>3, Finishes DEF SettingBefore
  <2>4. CASE ~(Failed(c) \/ Value(c) = call[c].want)
    <3> DEFINE r == [call[c] EXCEPT !.pc = "written", !.went = TRUE]
    <3>1. Go(c, r) /\ Issue(c, "Settings.SetSettingValue", call[c].want)
      BY <1>3, <2>4 DEF SettingBefore
    <3>2. DOMAIN r = Fields /\ r.pc = "written" /\ r.went = TRUE /\ r.want = call[c].want
      BY <2>2 DEF Fields, Fresh
    <3> HIDE DEF r
    <3>3. Bounded(r, 1) /\ "Settings.SetSettingValue" \in Writes /\ call[c].want \in Args
      BY <2>2, <3>2 DEF Bounded, Writes, Args
    <3>4. QED
      BY <2>1, <2>2, <3>1, <3>2, <3>3, Goes, ToolAssumption, BoundsAreNaturals
      DEF ToolMoves, AsksWrite, Writing
  <2>5. QED
    BY <2>3, <2>4
<1>4. CASE SettingWritten(c)
  <2>1. ~InFlight(c) /\ call[c].pc = "written"
    BY <1>4 DEF SettingWritten, Back, At
  <2>2. CASE Failed(c)
    BY <1>4, <2>1, <2>2, Finishes DEF SettingWritten
  <2>3. CASE ~Failed(c)
    <3> DEFINE r == [call[c] EXCEPT !.pc = "read_back"]
    <3>1. Go(c, r) /\ Issue(c, "Settings.GetSettings", call[c].want)
      BY <1>4, <2>3 DEF SettingWritten, ReadSetting
    <3>2. Through(c, sent[c]) /\ call[c].want \in Values /\ DOMAIN call[c] = Fields
      BY <2>1, <2>3, Known DEF Bounded, Writing
    <3>3. /\ DOMAIN r = Fields /\ r.pc = "read_back" /\ r.went = call[c].went
          /\ r.want = call[c].want
      BY <3>2 DEF Fields, Fresh
    <3> HIDE DEF r
    <3>4. /\ Bounded(r, sent[c]) /\ "Settings.GetSettings" \in Methods \ Writes
          /\ call[c].want \in Args
      BY <3>2, <3>3 DEF Bounded, Methods, SafeReads, Writes, Args
    <3>5. QED
      BY <2>1, <3>1, <3>2, <3>3, <3>4, Goes DEF ToolMoves, AsksRead, Writing
  <2>4. QED
    BY <2>2, <2>3
<1>5. CASE SettingReadBack(c)
  <2>1. ~InFlight(c) /\ call[c].pc = "read_back"
    BY <1>5 DEF SettingReadBack, Back, At
  <2>2. Through(c, sent[c])
    BY <2>1, Known DEF Writing, Judged
  <2>3. QED
    BY <1>5, <2>1, <2>2, Finishes DEF SettingReadBack
<1>6. QED
  BY <1>1, <1>2, <1>3, <1>4, <1>5

LEMMA EnableMoves ==
    ASSUME IInv, NEW c \in Calls, EnsureAddonEnabled(c) \/ AddonDetails(c) \/ AddonEnabled(c)
    PROVE  ToolMoves(c)
<1>1. CASE EnsureAddonEnabled(c)
  <2> DEFINE r == [Fresh EXCEPT !.tool = "ensure_addon_enabled", !.pc = "details"]
  <2>1. DOMAIN r = Fields /\ r.pc = "details" /\ r.went = FALSE
    BY DEF Fields, Fresh
  <2>2. Start(c, r) /\ Issue(c, "Addons.GetAddonDetails", 0)
    BY <1>1 DEF EnsureAddonEnabled
  <2> HIDE DEF r
  <2>3. Bounded(r, 0) /\ "Addons.GetAddonDetails" \in Methods \ Writes /\ 0 \in Args
    BY <2>1 DEF Bounded, Methods, SafeReads, Writes, Args
  <2>4. QED
    BY <2>1, <2>2, <2>3, Starts DEF ToolMoves, AsksRead, Writing
<1>2. CASE AddonDetails(c)
  <2>1. ~InFlight(c) /\ call[c].pc = "details"
    BY <1>2 DEF AddonDetails, Back, At
  <2>2. sent[c] = 0 /\ Through(c, sent[c]) /\ DOMAIN call[c] = Fields
    BY <2>1, Known DEF Bounded, Writing, Judged
  <2>3. CASE Failed(c) \/ Value(c) = TRUE
    BY <1>2, <2>1, <2>2, <2>3, Finishes DEF AddonDetails
  <2>4. CASE ~(Failed(c) \/ Value(c) = TRUE)
    <3> DEFINE r == [call[c] EXCEPT !.pc = "enabled", !.went = TRUE]
    <3>1. Go(c, r) /\ Issue(c, "Addons.SetAddonEnabled", 0)
      BY <1>2, <2>4 DEF AddonDetails
    <3>2. DOMAIN r = Fields /\ r.pc = "enabled" /\ r.went = TRUE
      BY <2>2 DEF Fields, Fresh
    <3> HIDE DEF r
    <3>3. Bounded(r, 1) /\ "Addons.SetAddonEnabled" \in Writes /\ 0 \in Args
      BY <3>2 DEF Bounded, Writes, Args
    <3>4. QED
      BY <2>1, <2>2, <3>1, <3>2, <3>3, Goes, ToolAssumption, BoundsAreNaturals
      DEF ToolMoves, AsksWrite, Writing
  <2>5. QED
    BY <2>3, <2>4
<1>3. CASE AddonEnabled(c)
  <2>1. ~InFlight(c) /\ call[c].pc = "enabled"
    BY <1>3 DEF AddonEnabled, Back, At
  <2>2. ~Failed(c) => Through(c, sent[c])
    BY <2>1, Known DEF Writing
  <2>3. QED
    BY <1>3, <2>1, <2>2, Finishes DEF AddonEnabled
<1>4. QED
  BY <1>1, <1>2, <1>3

LEMMA StopMoves ==
    ASSUME IInv, NEW c \in Calls, PlayerStop(c) \/ PlayerStopped(c) \/ PlayerLooked(c)
    PROVE  ToolMoves(c)
<1>1. CASE PlayerStop(c)
  <2>1. PICK verify \in {{}, {"verify"}} :
           /\ Start(c, [Fresh EXCEPT !.tool = "player_stop", !.pc = "stopped",
                                     !.expect = verify, !.went = TRUE])
           /\ Issue(c, "Player.Stop", 0)
    BY <1>1 DEF PlayerStop
  <2> DEFINE r == [Fresh EXCEPT !.tool = "player_stop", !.pc = "stopped",
                                !.expect = verify, !.went = TRUE]
  <2>2. DOMAIN r = Fields /\ r.pc = "stopped" /\ r.tries = 0 /\ r.went = TRUE
    BY DEF Fields, Fresh
  <2>3. Start(c, r)
    BY <2>1
  <2> HIDE DEF r
  <2>4. Bounded(r, 1) /\ "Player.Stop" \in Writes /\ 0 \in Args
    BY <2>2, ToolAssumption DEF Bounded, Writes, Args
  <2>5. Moves(c) /\ call'[c] = r /\ sent[c] = 0 /\ Through(c, 0)
    BY <2>2, <2>3, Starts
  <2>6. sent[c] < MaxWrites
    BY <2>5, ToolAssumption, BoundsAreNaturals
  <2>7. QED
    BY <2>1, <2>2, <2>4, <2>5, <2>6 DEF ToolMoves, AsksWrite, Writing
<1>2. ASSUME NEW quiet, ~InFlight(c), Look(c, quiet), Through(c, sent[c]),
             call[c].tries \in 0 .. VerifyAttempts - 1, sent[c] \in 1 .. call[c].tries + 1
      PROVE  ToolMoves(c)
  <2> DEFINE r == [call[c] EXCEPT !.pc = "looked", !.tries = @ + 1, !.stable = quiet]
  <2>1. Go(c, r) /\ Issue(c, "Player.GetActivePlayers", 0)
    BY <1>2 DEF Look
  <2>2. DOMAIN call[c] = Fields
    BY <1>2, Known
  <2>3. /\ DOMAIN r = Fields /\ r.pc = "looked" /\ r.tries = call[c].tries + 1
        /\ r.went = call[c].went
    BY <2>2 DEF Fields, Fresh
  <2> HIDE DEF r
  <2>4. Bounded(r, sent[c])
    BY <1>2, <2>3, ToolAssumption DEF Bounded
  <2>5. "Player.GetActivePlayers" \in Methods \ Writes /\ 0 \in Args
    BY DEF Methods, SafeReads, Writes, Args
  <2>6. QED
    BY <1>2, <2>1, <2>3, <2>4, <2>5, Goes DEF ToolMoves, AsksRead, Writing
<1>3. CASE PlayerStopped(c)
  <2>1. ~InFlight(c) /\ call[c].pc = "stopped"
    BY <1>3 DEF PlayerStopped, Back, At
  <2>2. /\ ~Failed(c) => Through(c, sent[c])
        /\ call[c].tries \in 0 .. VerifyAttempts - 1 /\ sent[c] \in 1 .. call[c].tries + 1
    BY <2>1, Known DEF Bounded, Writing
  <2>3. CASE Failed(c) \/ call[c].expect = {}
    BY <1>3, <2>1, <2>2, <2>3, Finishes DEF PlayerStopped
  <2>4. CASE ~(Failed(c) \/ call[c].expect = {})
    BY <1>2, <1>3, <2>1, <2>2, <2>4 DEF PlayerStopped
  <2>5. QED
    BY <2>3, <2>4
<1>4. CASE PlayerLooked(c)
  <2>1. ~InFlight(c) /\ call[c].pc = "looked"
    BY <1>4 DEF PlayerLooked, Back, At
  <2>2. /\ Through(c, sent[c]) /\ DOMAIN call[c] = Fields /\ sent[c] \in Nat
        /\ call[c].tries \in 1 .. VerifyAttempts /\ sent[c] \in 1 .. call[c].tries
    BY <2>1, Known DEF Bounded, Writing, Judged
  <2>3. \/ \E ok : Finish(c, ok)
        \/ /\ call[c].tries # VerifyAttempts /\ Issue(c, "Player.Stop", 0)
           /\ Go(c, [call[c] EXCEPT !.pc = "stopped"])
        \/ call[c].tries # VerifyAttempts /\ Look(c, call[c].stable + 1)
    BY <1>4 DEF PlayerLooked
  <2>4. CASE \E ok : Finish(c, ok)
    BY <2>1, <2>2, <2>4, Finishes
  <2>5. CASE /\ call[c].tries # VerifyAttempts /\ Issue(c, "Player.Stop", 0)
             /\ Go(c, [call[c] EXCEPT !.pc = "stopped"])
    <3> DEFINE r == [call[c] EXCEPT !.pc = "stopped"]
    <3>1. DOMAIN r = Fields /\ r.pc = "stopped" /\ r.tries = call[c].tries /\ r.went = call[c].went
      BY <2>2 DEF Fields, Fresh
    <3>2. Go(c, r)
      BY <2>5
    <3> HIDE DEF r
    <3>3. Bounded(r, sent[c] + 1) /\ sent[c] < MaxWrites
      BY <2>2, <2>5, <3>1, ToolAssumption, BoundsAreNaturals DEF Bounded
    <3>4. call[c].went = TRUE
      <4>1. (sent[c] > 0) = TRUE
        BY <2>2
      <4>2. QED
        BY <2>1, <4>1, Known
    <3>5. "Player.Stop" \in Writes /\ 0 \in Args
      BY DEF Writes, Args
    <3>6. QED
      BY <2>1, <2>2, <2>5, <3>1, <3>2, <3>3, <3>4, <3>5, Goes DEF ToolMoves, AsksWrite, Writing
  <2>6. CASE call[c].tries # VerifyAttempts /\ Look(c, call[c].stable + 1)
    BY <1>2, <2>1, <2>2, <2>6, ToolAssumption
  <2>7. QED
    BY <2>3, <2>4, <2>5, <2>6
<1>5. QED
  BY <1>1, <1>3, <1>4

LEMMA ExecuteMoves ==
    ASSUME IInv, NEW c \in Calls,
           AddonExecute(c) \/ Executed(c) \/ Observed(c) \/ WindowSeen(c)
    PROVE  ToolMoves(c)
<1> DEFINE Reads == {"Player.GetActivePlayers", "gui_state"}
<1>1. Reads \subseteq Methods \ Writes /\ 0 \in Args
  BY DEF Methods, SafeReads, Unrepeated, Writes, Args
<1>2. CASE AddonExecute(c)
  <2>1. PICK expect \in SUBSET {"player", "window"} :
           /\ Start(c, [Fresh EXCEPT !.tool = "addon_execute", !.pc = "executed",
                                     !.expect = expect, !.went = TRUE])
           /\ Issue(c, "Addons.ExecuteAddon", 0)
    BY <1>2 DEF AddonExecute
  <2> DEFINE r == [Fresh EXCEPT !.tool = "addon_execute", !.pc = "executed",
                                !.expect = expect, !.went = TRUE]
  <2>2. DOMAIN r = Fields /\ r.pc = "executed" /\ r.went = TRUE
    BY DEF Fields, Fresh
  <2>3. Start(c, r)
    BY <2>1
  <2> HIDE DEF r
  <2>4. Bounded(r, 1) /\ "Addons.ExecuteAddon" \in Writes
    BY <2>2 DEF Bounded, Writes
  <2>5. Moves(c) /\ call'[c] = r /\ sent[c] = 0 /\ Through(c, 0)
    BY <2>2, <2>3, Starts
  <2>6. sent[c] < MaxWrites
    BY <2>5, ToolAssumption, BoundsAreNaturals
  <2>7. QED
    BY <1>1, <2>1, <2>2, <2>4, <2>5, <2>6 DEF ToolMoves, AsksWrite, Writing
<1>3. ASSUME NEW r, NEW m \in Reads, ~InFlight(c), Go(c, r), Issue(c, m, 0), DOMAIN r = Fields,
             r.pc \in {"observe", "window"}, r.went = call[c].went, r.ok => Through(c, sent[c])
      PROVE  ToolMoves(c)
  <2>1. Bounded(r, sent[c]) /\ r.pc \notin Writing \cup {"idle"} /\ r.pc \in Judged
    BY <1>3 DEF Bounded, Writing, Judged
  <2>2. QED
    BY <1>1, <1>3, <2>1, Goes DEF ToolMoves, AsksRead
<1>4. CASE Executed(c)
  <2>1. ~InFlight(c) /\ call[c].pc = "executed"
    BY <1>4 DEF Executed, Back, At
  <2>2. (~Failed(c) => Through(c, sent[c])) /\ DOMAIN call[c] = Fields
    BY <2>1, Known DEF Writing
  <2> DEFINE r == [call[c] EXCEPT !.pc = "observe", !.ok = ~Failed(c), !.tries = 1]
  <2>3. Go(c, r) /\ Issue(c, "Player.GetActivePlayers", 0)
    BY <1>4 DEF Executed
  <2>4. DOMAIN r = Fields /\ r.pc = "observe" /\ r.went = call[c].went /\ r.ok = ~Failed(c)
    BY <2>2 DEF Fields, Fresh
  <2> HIDE DEF r
  <2>5. QED
    BY <1>3, <2>1, <2>2, <2>3, <2>4
<1>5. CASE Observed(c)
  <2>1. ~InFlight(c) /\ call[c].pc = "observe"
    BY <1>5 DEF Observed, Back, At
  <2>2. (call[c].ok => Through(c, sent[c])) /\ DOMAIN call[c] = Fields
    BY <2>1, Known DEF Writing
  <2>3. CASE Active(c) \/ call[c].tries = Polls
    <3> DEFINE ok == call[c].ok /\ ("player" \in call[c].expect => Active(c))
               r == [call[c] EXCEPT !.pc = "window", !.tries = 1, !.ok = ok]
    <3>1. Go(c, r) /\ Issue(c, "gui_state", 0)
      BY <1>5, <2>3 DEF Observed
    <3> HIDE DEF ok
    <3>2. DOMAIN r = Fields /\ r.pc = "window" /\ r.went = call[c].went /\ r.ok = ok
      BY <2>2 DEF Fields, Fresh
    <3>3. ok => call[c].ok
      BY DEF ok
    <3> HIDE DEF r
    <3>4. QED
      BY <1>3, <2>1, <2>2, <3>1, <3>2, <3>3
  <2>4. CASE ~(Active(c) \/ call[c].tries = Polls)
    <3> DEFINE r == [call[c] EXCEPT !.tries = @ + 1]
    <3>1. Go(c, r) /\ Issue(c, "Player.GetActivePlayers", 0)
      BY <1>5, <2>4 DEF Observed
    <3>2. DOMAIN r = Fields /\ r.pc = "observe" /\ r.went = call[c].went /\ r.ok = call[c].ok
      BY <2>1, <2>2 DEF Fields, Fresh
    <3> HIDE DEF r
    <3>3. QED
      BY <1>3, <2>1, <2>2, <3>1, <3>2
  <2>5. QED
    BY <2>3, <2>4
<1>6. CASE WindowSeen(c)
  <2>1. ~InFlight(c) /\ call[c].pc = "window"
    BY <1>6 DEF WindowSeen, Back, At
  <2>2. (call[c].ok => Through(c, sent[c])) /\ DOMAIN call[c] = Fields
    BY <2>1, Known DEF Writing
  <2> DEFINE matched == "window" \in call[c].expect => ~Failed(c) /\ Value(c) = FALSE
             r == [call[c] EXCEPT !.tries = @ + 1]
  <2>3. CASE matched \/ call[c].tries = Polls
    <3>1. Finish(c, call[c].ok /\ matched)
      BY <1>6, <2>3 DEF WindowSeen
    <3>2. QED
      BY <2>1, <2>2, <3>1, Finishes
  <2>4. CASE ~(matched \/ call[c].tries = Polls)
    <3>1. Go(c, r) /\ Issue(c, "gui_state", 0)
      BY <1>6, <2>4 DEF WindowSeen
    <3>2. DOMAIN r = Fields /\ r.pc = "window" /\ r.went = call[c].went /\ r.ok = call[c].ok
      BY <2>1, <2>2 DEF Fields, Fresh
    <3> HIDE DEF r
    <3>3. QED
      BY <1>3, <2>1, <2>2, <3>1, <3>2
  <2>5. QED
    BY <2>3, <2>4
<1>7. QED
  BY <1>2, <1>4, <1>5, <1>6

(* The other tools only read: none of their places waits for a write.      *)
LEMMA ReadMoves ==
    ASSUME IInv, NEW c \in Calls, NEW m \in Methods \ Writes, NEW arg \in Args, NEW r,
           ~InFlight(c), Issue(c, m, arg), DOMAIN r = Fields,
           \/ Start(c, r) /\ r.went = FALSE
           \/ Go(c, r) /\ r.went = call[c].went /\ Through(c, sent[c]),
           r.pc \in {"captured", "context", "page", "show", "seasons", "counts"},
           r.pc \in {"show", "seasons"} => r.want \in Titles
    PROVE  ToolMoves(c)
<1>1. /\ Bounded(r, sent[c]) /\ r.pc \notin Writing \cup {"idle"}
      /\ (r.pc \in Judged => r.ok) => Through(c, sent[c])
  BY Starts DEF Bounded, Writing, Judged
<1>2. QED
  BY <1>1, Starts, Goes DEF ToolMoves, AsksRead

LEMMA ScreenshotMoves ==
    ASSUME IInv, NEW c \in Calls, GuiScreenshot(c) \/ Captured(c) \/ BlackContext(c)
    PROVE  ToolMoves(c)
<1>1. {"gui_screenshot", "gui_state"} \subseteq Methods \ Writes /\ 0 \in Args
  BY DEF Methods, SafeReads, Unrepeated, Writes, Args
<1>2. CASE GuiScreenshot(c)
  <2> DEFINE r == [Fresh EXCEPT !.tool = "gui_screenshot", !.pc = "captured", !.tries = 1]
  <2>1. DOMAIN r = Fields /\ r.pc = "captured" /\ r.went = FALSE
    BY DEF Fields, Fresh
  <2>2. Start(c, r) /\ Issue(c, "gui_screenshot", 0) /\ ~InFlight(c)
    BY <1>2 DEF GuiScreenshot, Start
  <2> HIDE DEF r
  <2>3. QED
    BY <1>1, <2>1, <2>2, ReadMoves
<1>3. ASSUME Captured(c) \/ BlackContext(c)
      PROVE  ~InFlight(c) /\ Through(c, sent[c]) /\ DOMAIN call[c] = Fields
  BY <1>3, Known DEF Captured, BlackContext, Back, At, Writing, Judged
<1>4. CASE Captured(c)
  <2> DEFINE r == [call[c] EXCEPT !.pc = "context"]
  <2>1. DOMAIN r = Fields /\ r.pc = "context" /\ r.went = call[c].went
    BY <1>3, <1>4 DEF Fields, Fresh
  <2>2. (\E ok : Finish(c, ok)) \/ (Go(c, r) /\ Issue(c, "gui_state", 0))
    BY <1>4 DEF Captured
  <2> HIDE DEF r
  <2>3. QED
    BY <1>1, <1>3, <1>4, <2>1, <2>2, Finishes, ReadMoves
<1>5. CASE BlackContext(c)
  <2> DEFINE r == [call[c] EXCEPT !.pc = "captured", !.tries = @ + 1]
  <2>1. DOMAIN r = Fields /\ r.pc = "captured" /\ r.went = call[c].went
    BY <1>3, <1>5 DEF Fields, Fresh
  <2>2. (\E ok : Finish(c, ok)) \/ (Go(c, r) /\ Issue(c, "gui_screenshot", 0))
    BY <1>5 DEF BlackContext
  <2> HIDE DEF r
  <2>3. QED
    BY <1>1, <1>3, <1>5, <2>1, <2>2, Finishes, ReadMoves
<1>6. QED
  BY <1>2, <1>4, <1>5

LEMMA LibraryMoves ==
    ASSUME IInv, NEW c \in Calls, StartLibraryTool(c) \/ LibraryStep(c)
    PROVE  ToolMoves(c)
<1>1. /\ {"VideoLibrary.GetMovies", "VideoLibrary.GetTVShowDetails",
          "VideoLibrary.GetSeasons"} \subseteq Methods \ Writes
      /\ 0 \in Args /\ Titles \subseteq Args
  BY DEF Methods, SafeReads, Writes, Args
<1>2. CASE BrowseVideo(c) \/ BrowseMusic(c)
  <2>1. PICK medium \in {"video", "music"} : StartWalk(c, medium)
    BY <1>2 DEF BrowseVideo, BrowseMusic
  <2> DEFINE r == [Fresh EXCEPT !.tool = "browse", !.pc = "page", !.expect = {medium}]
  <2>2. DOMAIN r = Fields /\ r.pc = "page" /\ r.went = FALSE
    BY DEF Fields, Fresh
  <2>3. Start(c, r) /\ Issue(c, "VideoLibrary.GetMovies", 0) /\ ~InFlight(c)
    BY <2>1 DEF StartWalk, Start
  <2> HIDE DEF r
  <2>4. QED
    BY <1>1, <2>2, <2>3, ReadMoves
<1>3. CASE Seasons(c) \/ AlbumSongs(c)
  <2>1. PICK tool \in {"seasons", "album_songs"} : Parts(c, tool)
    BY <1>3 DEF Seasons, AlbumSongs
  <2>2. PICK id \in Titles :
           /\ Start(c, [Fresh EXCEPT !.tool = tool, !.pc = "show", !.want = id])
           /\ Issue(c, "VideoLibrary.GetTVShowDetails", id)
    BY <2>1 DEF Parts
  <2> DEFINE r == [Fresh EXCEPT !.tool = tool, !.pc = "show", !.want = id]
  <2>3. DOMAIN r = Fields /\ r.pc = "show" /\ r.want = id /\ r.went = FALSE
    BY DEF Fields, Fresh
  <2>4. Start(c, r) /\ ~InFlight(c)
    BY <2>2 DEF Start
  <2> HIDE DEF r
  <2>5. QED
    BY <1>1, <2>2, <2>3, <2>4, ReadMoves
<1>4. CASE Summary(c)
  <2> DEFINE r == [Fresh EXCEPT !.tool = "summary", !.pc = "counts", !.tries = 1]
  <2>1. DOMAIN r = Fields /\ r.pc = "counts" /\ r.went = FALSE
    BY DEF Fields, Fresh
  <2>2. Start(c, r) /\ Issue(c, "VideoLibrary.GetMovies", 0) /\ ~InFlight(c)
    BY <1>4 DEF Summary, Start
  <2> HIDE DEF r
  <2>3. QED
    BY <1>1, <2>1, <2>2, ReadMoves
<1>5. ASSUME LibraryStep(c)
      PROVE  /\ ~InFlight(c) /\ Through(c, sent[c]) /\ DOMAIN call[c] = Fields
             /\ call[c].pc \in {"show", "seasons"} => call[c].want \in Titles
  BY <1>5, Known
  DEF LibraryStep, Page, ShowDetails, SeasonsPage, Counts, Back, At, Writing, Judged, Bounded
<1>6. CASE Page(c)
  <2>1. LibraryStep(c) /\ call[c].pc = "page"
    BY <1>6 DEF LibraryStep, Page, Back, At
  <2> DEFINE library == Value(c)
             walked == [call[c] EXCEPT !.got = @ \o PageItems(library, call[c].want),
                                       !.libraries = Append(@, library)]
             more == [walked EXCEPT !.want = Pagination(library, call[c].want).end]
             last == [walked EXCEPT !.pc = "done", !.want = 0, !.ok = TRUE]
  <2>2. \/ Finish(c, FALSE)
        \/ Go(c, more) /\ Issue(c, "VideoLibrary.GetMovies", 0)
        \/ Go(c, last) /\ UNCHANGED <<kodi, transport>>
    BY <1>6 DEF Page
  <2>3. /\ DOMAIN more = Fields /\ more.pc = "page" /\ more.went = call[c].went
        /\ DOMAIN last = Fields /\ last.pc = "done" /\ last.went = call[c].went
    BY <1>5, <2>1 DEF Fields, Fresh
  <2> HIDE DEF more, last
  <2>4. CASE Finish(c, FALSE)
    BY <1>5, <2>1, <2>4, Finishes
  <2>5. CASE Go(c, more) /\ Issue(c, "VideoLibrary.GetMovies", 0)
    BY <1>1, <1>5, <2>1, <2>3, <2>5, ReadMoves
  <2>6. CASE Go(c, last) /\ UNCHANGED <<kodi, transport>>
    BY <1>5, <2>1, <2>3, <2>6, Goes DEF ToolMoves, Ends
  <2>7. QED
    BY <2>2, <2>4, <2>5, <2>6
<1>7. CASE ShowDetails(c)
  <2>1. LibraryStep(c) /\ call[c].pc = "show"
    BY <1>7 DEF LibraryStep, ShowDetails, Back, At
  <2> DEFINE r == [call[c] EXCEPT !.pc = "seasons"]
  <2>2. Finish(c, FALSE) \/ (Go(c, r) /\ Issue(c, "VideoLibrary.GetSeasons", call[c].want))
    BY <1>7 DEF ShowDetails
  <2>3. /\ DOMAIN r = Fields /\ r.pc = "seasons" /\ r.want = call[c].want
        /\ r.went = call[c].went
    BY <1>5, <2>1 DEF Fields, Fresh
  <2> HIDE DEF r
  <2>4. QED
    BY <1>1, <1>5, <2>1, <2>2, <2>3, Finishes, ReadMoves
<1>8. CASE SeasonsPage(c)
  BY <1>5, <1>8, Finishes DEF SeasonsPage, LibraryStep
<1>9. CASE Counts(c)
  <2>1. LibraryStep(c) /\ call[c].pc = "counts"
    BY <1>9 DEF LibraryStep, Counts, Back, At
  <2> DEFINE r == [call[c] EXCEPT !.tries = @ + 1]
  <2>2. (\E ok : Finish(c, ok)) \/ (Go(c, r) /\ Issue(c, "VideoLibrary.GetMovies", 0))
    BY <1>9 DEF Counts
  <2>3. DOMAIN r = Fields /\ r.pc = "counts" /\ r.went = call[c].went
    BY <1>5, <2>1 DEF Fields, Fresh
  <2> HIDE DEF r
  <2>4. QED
    BY <1>1, <1>5, <2>1, <2>2, <2>3, Finishes, ReadMoves
<1>10. QED
  BY <1>2, <1>3, <1>4, <1>6, <1>7, <1>8, <1>9 DEF StartLibraryTool, LibraryStep

LEMMA AllMove ==
    ASSUME IInv, NEW c \in Calls,
           StartTool(c) \/ StartLibraryTool(c) \/ ToolStep(c) \/ LibraryStep(c)
    PROVE  ToolMoves(c)
BY SettingMoves, EnableMoves, StopMoves, ExecuteMoves, ScreenshotMoves, LibraryMoves
DEF StartTool, ToolStep

-----------------------------------------------------------------------------
LEMMA ToolsInit == Init => IInv
<1>1. SUFFICES ASSUME Init PROVE Tools
  BY RequestInit DEF Init, IInv
<1>2. /\ call = [c \in Calls |-> Fresh] /\ answer = [c \in Calls |-> Pending]
      /\ request = [c \in Calls |-> Nothing] /\ sent = [c \in Calls |-> 0] /\ late = {}
  BY <1>1 DEF Init, InitRequests
<1>3. ASSUME NEW c \in Calls PROVE Holds(c, call[c])
  <2>1. call[c] = Fresh /\ request[c] = Nothing /\ sent[c] = 0
    BY <1>2
  <2>2. Fresh.pc = "idle" /\ Fresh.went = FALSE
    BY DEF Fresh
  <2>3. (sent[c] > 0) = FALSE
    BY <2>1
  <2>4. Through(c, 0) /\ ~IsWrite(request[c]) /\ ~InFlight(c)
    BY <1>2, <2>1, WritesAreMethods DEF Through, IsWrite, InFlight
  <2>5. Bounded(Fresh, 0) /\ Rests(c, Fresh)
    BY <2>1, <2>2, <2>4 DEF Bounded, Rests
  <2>6. QED
    BY <2>1, <2>2, <2>3, <2>5 DEF Holds, Fields, Writing
<1>4. QED
  BY <1>2, <1>3 DEF Tools

(* A step of a tool is a step of some client of the transports, or none.   *)
LEMMA MoveRefines ==
    ASSUME NEW c \in Calls, ToolMoves(c)
    PROVE  [NextRequest]_<<kodi, transport>>
<1>1. CASE Ends(c)
  BY <1>1 DEF Ends
<1>2. CASE AsksRead(c) \/ AsksWrite(c)
  <2>1. PICK m \in Methods, arg \in Args :
           /\ ~InFlight(c) /\ Issue(c, m, arg)
           /\ m \in Writes => sent[c] < MaxWrites
    BY <1>2, WritesAreMethods DEF AsksRead, AsksWrite, Moves
  <2>2. QED
    BY <2>1 DEF NextRequest, Args
<1>3. QED
  BY <1>1, <1>2 DEF ToolMoves

LEMMA StepCases ==
    ASSUME IInv, [Next]_vars
    PROVE  \/ \E c \in Calls : ToolMoves(c)
           \/ \E c \in Calls : Transport(c) /\ UNCHANGED call
           \/ \E m \in late : (ArrivesLate(m) \/ IsDropped(m)) /\ UNCHANGED call
           \/ OthersAct /\ UNCHANGED call
           \/ UNCHANGED vars
<1>1. ASSUME NEW c \in Calls, StartTool(c) \/ StartLibraryTool(c) \/ Step(c)
      PROVE  ToolMoves(c) \/ (Transport(c) /\ UNCHANGED call)
  BY <1>1, AllMove DEF Step
<1>2. QED
  BY <1>1 DEF Next

LEMMA StepRefines == IInv /\ [Next]_vars => [NextRequest]_<<kodi, transport>>
<1>1. SUFFICES ASSUME IInv, [Next]_vars PROVE [NextRequest]_<<kodi, transport>>
  OBVIOUS
<1>2. ASSUME NEW c \in Calls, ToolMoves(c) PROVE [NextRequest]_<<kodi, transport>>
  BY <1>2, MoveRefines
<1>3. CASE \E c \in Calls : Transport(c) /\ UNCHANGED call
  BY <1>3 DEF NextRequest
<1>4. CASE \E m \in late : (ArrivesLate(m) \/ IsDropped(m)) /\ UNCHANGED call
  BY <1>4 DEF NextRequest
<1>5. CASE OthersAct \/ UNCHANGED vars
  BY <1>5 DEF NextRequest, vars
<1>6. QED
  BY <1>1, <1>2, <1>3, <1>4, <1>5, StepCases

LEMMA ToolsStep == IInv /\ [Next]_vars => IInv'
<1>1. SUFFICES ASSUME IInv, [Next]_vars PROVE Tools'
  BY StepRefines, RequestStep DEF IInv
<1>2. ASSUME NEW c \in Calls, ToolMoves(c) PROVE Tools'
  BY <1>1, <1>2, EndsKeeps, AsksKeeps DEF ToolMoves
<1>3. ASSUME NEW c \in Calls, Transport(c), UNCHANGED call PROVE Tools'
  BY <1>1, <1>3, AttemptKeepsTools
<1>4. ASSUME NEW m \in late, ArrivesLate(m) \/ IsDropped(m), UNCHANGED call PROVE Tools'
  BY <1>1, <1>4, LateKeepsTools
<1>5. CASE OthersAct /\ UNCHANGED call
  BY <1>1, <1>5, StillKeepsTools DEF OthersAct, transport
<1>6. CASE UNCHANGED vars
  BY <1>1, <1>6, StillKeepsTools DEF vars, transport
<1>7. QED
  BY <1>1, <1>2, <1>3, <1>4, <1>5, <1>6, StepCases

LEMMA ToolInvariant == Spec => []IInv
BY ToolsInit, ToolsStep, PTL DEF Spec

(* The tools of tools/ and server_core.py use the transports as any client *)
(* may: they have one request in flight and, the stops of a                *)
(* kodi_player_stop included, issue no more writes than MaxWrites allows.  *)
THEOREM ToolsUseTransports == Spec => TransportSpec
<1>1. Init => InitRequests
  BY DEF Init
<1>2. QED
  BY <1>1, StepRefines, ToolInvariant, PTL DEF Spec, TransportSpec, RequestSpec

(* So no tool call makes Kodi execute one of its writes twice.             *)
THEOREM ToolsWriteOnce == Spec => []AtMostOnce
BY ToolInvariant, PTL DEF IInv, Inv

(* A tool call that answers ok has had every write it issued executed,     *)
(* once, none of them can arrive later, and it has issued one if and only  *)
(* if it says so: for every interleaving of the calls, lost answers,       *)
(* retries and timeouts, and any number of stops of kodi_player_stop.      *)
THEOREM OkIsExecuted == Spec => []OkMeansExecuted
<1>1. IInv => OkMeansExecuted
  <2>1. SUFFICES ASSUME IInv, NEW c \in Calls, call[c].pc = "done", call[c].ok
                 PROVE  Through(c, sent[c]) /\ (sent[c] > 0 <=> call[c].went)
    BY DEF OkMeansExecuted, At, Through
  <2>2. Holds(c, call[c])
    BY <2>1 DEF IInv, Tools
  <2>3. QED
    BY <2>1, <2>2 DEF Holds, Rests, Writing
<1>2. QED
  BY <1>1, ToolInvariant, PTL
-----------------------------------------------------------------------------
(* The walk over the pages of the library.                                 *)

Grew(ls) == \A i, j \in DOMAIN ls : i <= j => ls[i] \subseteq ls[j]
Shrank(ls) == \A i, j \in DOMAIN ls : i <= j => ls[j] \subseteq ls[i]
LastOf(ls) == ls[Len(ls)]

(* While the library grows, what was there from the start and is before    *)
(* the next page has been met; while it shrinks, what has been met is      *)
(* before the next page, if it is still there.                             *)
Walk(ls, got, next) ==
    /\ ls \in Seq(SUBSET Titles) /\ got \in Seq(Titles) /\ next \in Nat
    /\ ls = <<>> => got = <<>> /\ next = 0
    /\ ls # <<>> /\ Grew(ls) =>
          \A t \in ls[1] : Rank(LastOf(ls), t) < next => \E i \in DOMAIN got : got[i] = t
    /\ ls # <<>> /\ Shrank(ls) =>
          /\ \A i \in DOMAIN got : got[i] \in LastOf(ls) => Rank(LastOf(ls), got[i]) < next
          /\ \A i, j \in DOMAIN got : got[i] = got[j] => i = j

Walked(ls, got) ==
    /\ ls # <<>> /\ got \in Seq(Titles)
    /\ Grew(ls) => \A t \in ls[1] : \E i \in DOMAIN got : got[i] = t
    /\ Shrank(ls) => \A i, j \in DOMAIN got : got[i] = got[j] => i = j

(* A call that browses: what it has, and what it waits for.                *)
Browses(c, r) ==
    /\ r.tool = "browse" => r.pc \in {"page", "done"}
    /\ r.pc = "page" =>
          /\ r.tool = "browse" /\ Walk(r.libraries, r.got, r.want)
          /\ InFlight(c) => request[c].method = "VideoLibrary.GetMovies"
          /\ ~InFlight(c) /\ ~Failed(c) => Value(c) \in SUBSET Titles
    /\ r.tool = "browse" /\ r.pc = "done" /\ r.ok => Walked(r.libraries, r.got)

KodiFields == {"setting", "enabled", "playing", "library"}
HasLibrary == DOMAIN kodi = KodiFields /\ kodi.library \in SUBSET Titles

Browsing == HasLibrary /\ \A c \in Calls : Browses(c, call[c])
LEMMA LibraryFinite ==
    ASSUME NEW L \in SUBSET Titles
    PROVE  /\ IsFiniteSet(L) /\ Cardinality(L) \in Nat
           /\ \A t \in L : t \in Int
           /\ \A t : IsFiniteSet({u \in L : u < t}) /\ Rank(L, t) \in Nat
<1>1. IsFiniteSet(L)
  BY FS_Subset, LibraryAssumption
<1>2. ASSUME NEW t PROVE IsFiniteSet({u \in L : u < t}) /\ Rank(L, t) \in Nat
  <2>1. {u \in L : u < t} \in SUBSET L
    OBVIOUS
  <2>2. QED
    BY <1>1, <2>1, FS_Subset, FS_CardinalityType DEF Rank
<1>3. QED
  BY <1>1, <1>2, FS_CardinalityType, BoundsAreNaturals

LEMMA RankIsNatural == ASSUME NEW L \in SUBSET Titles, NEW t PROVE Rank(L, t) \in Nat
BY LibraryFinite

LEMMA TitlesAreIntegers == ASSUME NEW L \in SUBSET Titles, NEW t \in L PROVE t \in Int
BY LibraryFinite

(* The ranks in a library are its positions, each taken once.              *)
LEMMA RankGrows ==
    ASSUME NEW L \in SUBSET Titles, NEW M \in SUBSET L, NEW t
    PROVE  Rank(M, t) <= Rank(L, t)
<1>1. {u \in M : u < t} \in SUBSET {u \in L : u < t}
  OBVIOUS
<1>2. QED
  BY <1>1, LibraryFinite, FS_Subset DEF Rank

LEMMA RankIncreases ==
    ASSUME NEW L \in SUBSET Titles, NEW s \in L, NEW t \in L, s < t
    PROVE  Rank(L, s) < Rank(L, t)
<1>1. PICK S, T : S = {u \in L : u < s} /\ T = {u \in L : u < t}
  OBVIOUS
<1>2. S \in SUBSET T /\ S # T
  BY <1>1, LibraryFinite
<1>3. IsFiniteSet(T) /\ Cardinality(S) = Rank(L, s) /\ Cardinality(T) = Rank(L, t)
  BY <1>1, LibraryFinite DEF Rank
<1>4. Rank(L, s) <= Rank(L, t) /\ Rank(L, s) # Rank(L, t)
  BY <1>2, <1>3, FS_Subset
<1>5. QED
  BY <1>4, RankIsNatural

LEMMA RankInjective ==
    ASSUME NEW L \in SUBSET Titles, NEW s \in L, NEW t \in L, Rank(L, s) = Rank(L, t)
    PROVE  s = t
<1>1. s \in Int /\ t \in Int /\ Rank(L, s) \in Int
  BY RankIsNatural, TitlesAreIntegers
<1>2. s < t \/ t < s \/ s = t
  BY <1>1
<1>3. QED
  BY <1>1, <1>2, RankIncreases

LEMMA RankBelow ==
    ASSUME NEW L \in SUBSET Titles, NEW t \in L
    PROVE  Rank(L, t) < Cardinality(L)
<1>1. {u \in L : u < t} \in SUBSET L /\ {u \in L : u < t} # L
  BY LibraryFinite
<1>2. Rank(L, t) <= Cardinality(L) /\ Rank(L, t) # Cardinality(L)
  BY <1>1, LibraryFinite, FS_Subset DEF Rank
<1>3. QED
  BY <1>2, LibraryFinite, RankIsNatural

LEMMA RankReaches ==
    ASSUME NEW L \in SUBSET Titles, NEW i \in 0 .. Cardinality(L) - 1
    PROVE  \E t \in L : Rank(L, t) = i
<1>1. PICK n \in Nat : n = Cardinality(L)
  BY LibraryFinite
<1>2. PICK f : f = [t \in L |-> Rank(L, t)]
  OBVIOUS
<1>3. \A t \in L : f[t] = Rank(L, t) /\ f[t] \in 0 .. n - 1
  BY <1>1, <1>2, RankIsNatural, RankBelow
<1>4. f \in Injection(L, 0 .. n - 1)
  <2>1. f \in [L -> 0 .. n - 1]
    BY <1>2, <1>3
  <2>2. \A s, t \in L : f[s] = f[t] => s = t
    BY <1>3, RankInjective
  <2>3. QED
    BY <2>1, <2>2 DEF Injection, IsInjective
<1>5. IsFiniteSet(0 .. n - 1) /\ Cardinality(0 .. n - 1) = n
  BY <1>1, FS_Interval
<1>6. f \in Surjection(L, 0 .. n - 1)
  BY <1>1, <1>4, <1>5, FS_Injection
<1>7. QED
  BY <1>1, <1>3, <1>6 DEF Surjection

(* A page has the titles whose ranks lie between its limits, in order.     *)
IsPage(L, start, items, end) ==
    /\ end \in Nat /\ end <= Cardinality(L)
    /\ end = start + Limit \/ end = Cardinality(L)
    /\ items \in Seq(L)
    /\ DOMAIN items = 1 .. end - start
    /\ \A k \in 1 .. end - start : items[k] \in L /\ Rank(L, items[k]) = start + k - 1

LEMMA PageHas ==
    ASSUME NEW L \in SUBSET Titles, NEW start \in Nat
    PROVE  IsPage(L, start, PageItems(L, start), Pagination(L, start).end)
<1> SUFFICES ASSUME NEW items, NEW end, items = PageItems(L, start), end = Pagination(L, start).end
             PROVE  IsPage(L, start, items, end)
  OBVIOUS
<1>1. end \in Nat /\ end <= Cardinality(L) /\ (end = start + Limit \/ end = Cardinality(L))
  BY LibraryFinite, LibraryAssumption DEF Pagination, Smaller
<1>a. PICK at : at = [i \in start .. end - 1 |-> CHOOSE t \in L : Rank(L, t) = i]
  OBVIOUS
<1>2. items = [i \in 1 .. end - start |-> at[start + i - 1]]
  BY <1>a DEF PageItems
<1>3. ASSUME NEW i \in start .. end - 1 PROVE at[i] \in L /\ Rank(L, at[i]) = i
  <2>1. i \in 0 .. Cardinality(L) - 1
    BY <1>1, LibraryFinite
  <2>2. \E t \in L : Rank(L, t) = i
    BY <2>1, RankReaches
  <2>3. QED
    BY <1>a, <2>2
<1>4. ASSUME NEW k \in 1 .. end - start
      PROVE  items[k] \in L /\ Rank(L, items[k]) = start + k - 1
  <2>1. start + k - 1 \in start .. end - 1
    BY <1>1
  <2>2. QED
    BY <1>2, <1>3, <2>1
<1>5. DOMAIN items = 1 .. end - start
  BY <1>2
<1>6. items \in Seq(L)
  <2>1. PICK n \in Nat : 1 .. n = 1 .. end - start
    <3>1. CASE end >= start
      BY <1>1, <3>1
    <3>2. CASE end < start
      <4>1. 1 .. 0 = 1 .. end - start
        BY <1>1, <3>2
      <4>2. QED
        BY <4>1
    <3>3. QED
      BY <1>1, <3>1, <3>2
  <2>2. items \in [1 .. n -> L]
    BY <1>2, <1>4, <2>1
  <2>3. QED
    BY <2>2
<1>7. QED
  BY <1>1, <1>4, <1>5, <1>6 DEF IsPage

LEMMA OnePageMore ==
    ASSUME NEW ls \in Seq(SUBSET Titles), NEW L \in SUBSET Titles, NEW more, more = Append(ls, L)
    PROVE  /\ more \in Seq(SUBSET Titles) /\ more # <<>> /\ LastOf(more) = L
           /\ ls = <<>> => more[1] = L
           /\ ls # <<>> => more[1] = ls[1] /\ LastOf(ls) \in SUBSET Titles /\ ls[1] \in SUBSET Titles
           /\ Grew(more) => Grew(ls) /\ more[1] \subseteq L /\ (ls # <<>> => LastOf(ls) \subseteq L)
           /\ Shrank(more) => Shrank(ls) /\ (ls # <<>> => L \subseteq LastOf(ls))
<1>1. PICK n \in Nat : n = Len(ls) /\ DOMAIN ls = 1 .. n /\ \A i \in 1 .. n : ls[i] \in SUBSET Titles
  OBVIOUS
<1>2. /\ more \in Seq(SUBSET Titles) /\ Len(more) = n + 1 /\ DOMAIN more = 1 .. n + 1
      /\ more[n + 1] = L /\ \A i \in 1 .. n : more[i] = ls[i]
  BY <1>1
<1>3. LastOf(more) = L /\ LastOf(ls) = ls[n]
  BY <1>1, <1>2 DEF LastOf
<1>4. ls # <<>> => n > 0
  BY <1>1
<1>5. Grew(more) => Grew(ls) /\ more[1] \subseteq L /\ (ls # <<>> => LastOf(ls) \subseteq L)
  <2>1. SUFFICES ASSUME Grew(more) PROVE Grew(ls) /\ more[1] \subseteq L /\ (ls # <<>> => ls[n] \subseteq L)
    BY <1>3
  <2>2. \A i, j \in 1 .. n + 1 : i <= j => more[i] \subseteq more[j]
    BY <1>2, <2>1 DEF Grew
  <2>3. \A i, j \in 1 .. n : i <= j => ls[i] \subseteq ls[j]
    BY <1>2, <2>2
  <2>4. 1 \in 1 .. n + 1 /\ n + 1 \in 1 .. n + 1 /\ 1 <= n + 1
    OBVIOUS
  <2>5. more[1] \subseteq L
    BY <1>2, <2>2, <2>4
  <2>6. ls # <<>> => n \in 1 .. n /\ n \in 1 .. n + 1 /\ n <= n + 1
    BY <1>4
  <2>7. ls # <<>> => ls[n] \subseteq L
    BY <1>2, <2>2, <2>4, <2>6
  <2>8. QED
    BY <1>1, <2>3, <2>5, <2>7 DEF Grew
<1>6. Shrank(more) => Shrank(ls) /\ (ls # <<>> => L \subseteq LastOf(ls))
  <2>1. SUFFICES ASSUME Shrank(more) PROVE Shrank(ls) /\ (ls # <<>> => L \subseteq ls[n])
    BY <1>3
  <2>2. \A i, j \in 1 .. n + 1 : i <= j => more[j] \subseteq more[i]
    BY <1>2, <2>1 DEF Shrank
  <2>3. \A i, j \in 1 .. n : i <= j => ls[j] \subseteq ls[i]
    BY <1>2, <2>2
  <2>4. ls # <<>> => n \in 1 .. n /\ n \in 1 .. n + 1 /\ n + 1 \in 1 .. n + 1 /\ n <= n + 1
    BY <1>4
  <2>5. ls # <<>> => L \subseteq ls[n]
    BY <1>2, <2>2, <2>4
  <2>6. QED
    BY <1>1, <2>3, <2>5 DEF Shrank
<1>7. ls = <<>> => more[1] = L
  BY <1>1, <1>2
<1>8. ls # <<>> => more[1] = ls[1] /\ ls[n] \in SUBSET Titles /\ ls[1] \in SUBSET Titles
  BY <1>1, <1>2, <1>4
<1>9. more # <<>>
  BY <1>2
<1>10. QED
  BY <1>2, <1>3, <1>5, <1>6, <1>7, <1>8, <1>9

(* A page takes the walk on, whatever the library has become.              *)
LEMMA WalkGoesOn ==
    ASSUME NEW ls, NEW got, NEW next, Walk(ls, got, next), NEW L \in SUBSET Titles,
           NEW items, NEW end, IsPage(L, next, items, end),
           NEW more, more = Append(ls, L), NEW met, met = got \o items
    PROVE  Walk(more, met, end)
<1>1. ls \in Seq(SUBSET Titles) /\ got \in Seq(Titles) /\ next \in Nat
      /\ (ls = <<>> => got = <<>> /\ next = 0)
  BY DEF Walk
<1>2. /\ end \in Nat /\ (end = next + Limit \/ end = Cardinality(L))
      /\ items \in Seq(L) /\ DOMAIN items = 1 .. end - next
      /\ \A k \in 1 .. end - next : items[k] \in L /\ Rank(L, items[k]) = next + k - 1
  BY DEF IsPage
<1>3. /\ more \in Seq(SUBSET Titles) /\ more # <<>> /\ LastOf(more) = L
      /\ ls = <<>> => more[1] = L
      /\ ls # <<>> => more[1] = ls[1] /\ LastOf(ls) \in SUBSET Titles
      /\ Grew(more) => Grew(ls) /\ more[1] \subseteq L /\ (ls # <<>> => LastOf(ls) \subseteq L)
      /\ Shrank(more) => Shrank(ls) /\ (ls # <<>> => L \subseteq LastOf(ls))
  BY <1>1, OnePageMore
<1>4. PICK n \in Nat, m \in Nat : n = Len(got) /\ m = Len(items)
  <2>1. Len(got) \in Nat
    BY <1>1
  <2>2. Len(items) \in Nat
    BY <1>2
  <2>3. QED
    BY <2>1, <2>2
<1>5. /\ met \in Seq(Titles) /\ DOMAIN met = 1 .. n + m
      /\ DOMAIN got = 1 .. n /\ DOMAIN items = 1 .. m
      /\ \A i \in 1 .. n : met[i] = got[i] /\ got[i] \in Titles
      /\ \A k \in 1 .. m : met[n + k] = items[k]
  <2>1. items \in Seq(Titles)
    BY <1>2
  <2>2. QED
    BY <1>1, <1>4, <2>1
<1>6. \A i \in DOMAIN met :
         \/ i \in DOMAIN got /\ met[i] = got[i]
         \/ \E k \in DOMAIN items : i = n + k /\ met[i] = items[k]
  <2>1. SUFFICES ASSUME NEW i \in DOMAIN met
                 PROVE  \/ i \in DOMAIN got /\ met[i] = got[i]
                        \/ \E k \in DOMAIN items : i = n + k /\ met[i] = items[k]
    OBVIOUS
  <2>2. i \in 1 .. n + m
    BY <1>5
  <2>3. CASE i \in 1 .. n
    BY <1>5, <2>3
  <2>4. CASE i \notin 1 .. n
    <3>1. PICK k \in 1 .. m : i = n + k
      <4>1. i - n \in 1 .. m /\ i = n + (i - n)
        BY <2>2, <2>4
      <4>2. QED
        BY <4>1
    <3>2. met[n + k] = items[k] /\ k \in DOMAIN items
      BY <1>5
    <3>3. QED
      BY <3>1, <3>2
  <2>5. QED
    BY <2>3, <2>4
<1>7. /\ \A i \in DOMAIN got : i \in DOMAIN met /\ met[i] = got[i]
      /\ \A k \in DOMAIN items : n + k \in DOMAIN met /\ met[n + k] = items[k]
  BY <1>5
<1>8. ASSUME Grew(more), NEW t \in more[1], Rank(L, t) < end
      PROVE  \E i \in DOMAIN met : met[i] = t
  <2>1. t \in L /\ Rank(L, t) \in Nat
    BY <1>3, <1>8, RankIsNatural
  <2>2. CASE Rank(L, t) >= next
    <3>1. PICK k \in 1 .. end - next : Rank(L, t) = next + k - 1
      <4>1. Rank(L, t) - next + 1 \in 1 .. end - next
        BY <1>1, <1>2, <1>8, <2>1, <2>2
      <4>2. Rank(L, t) = next + (Rank(L, t) - next + 1) - 1
        BY <1>1, <2>1
      <4>3. QED
        BY <4>1, <4>2
    <3>2. items[k] = t
      BY <1>2, <2>1, <3>1, RankInjective
    <3>3. QED
      BY <1>2, <1>7, <3>2
  <2>3. CASE Rank(L, t) < next
    <3>1. ls # <<>>
      BY <1>1, <2>1, <2>3
    <3>2. Rank(LastOf(ls), t) <= Rank(L, t) /\ Rank(LastOf(ls), t) \in Nat
      BY <1>3, <1>8, <3>1, RankGrows, RankIsNatural
    <3>3. Rank(LastOf(ls), t) < next
      BY <1>1, <2>1, <2>3, <3>2
    <3>4. \E i \in DOMAIN got : got[i] = t
      BY <1>3, <1>8, <3>1, <3>3 DEF Walk
    <3>5. QED
      BY <1>7, <3>4
  <2>4. QED
    BY <1>1, <2>1, <2>2, <2>3
<1>9. ASSUME Shrank(more), NEW i \in DOMAIN got, got[i] \in L
      PROVE  Rank(L, got[i]) < next
  <2>1. ls # <<>>
    BY <1>1, <1>5
  <2>2. L \subseteq LastOf(ls) /\ Rank(LastOf(ls), got[i]) < next
    BY <1>3, <1>9, <2>1 DEF Walk
  <2>3. Rank(L, got[i]) <= Rank(LastOf(ls), got[i])
    BY <1>3, <2>1, <2>2, RankGrows
  <2>4. Rank(L, got[i]) \in Nat /\ Rank(LastOf(ls), got[i]) \in Nat
    BY <1>3, <2>1, RankIsNatural
  <2>5. QED
    BY <1>1, <2>2, <2>3, <2>4
<1>10. ASSUME Shrank(more), NEW i \in DOMAIN met, met[i] \in L
       PROVE  Rank(L, met[i]) < end
  <2>1. CASE end = Cardinality(L)
    BY <1>10, <2>1, RankBelow
  <2>2. CASE end = next + Limit
    <3>1. CASE i \in DOMAIN got /\ met[i] = got[i]
      <4>1. Rank(L, got[i]) < next /\ Rank(L, got[i]) \in Nat
        BY <1>9, <1>10, <3>1, RankIsNatural
      <4>2. QED
        BY <1>1, <2>2, <3>1, <4>1, LibraryAssumption
    <3>2. CASE \E k \in DOMAIN items : met[i] = items[k]
      <4>1. PICK k \in 1 .. end - next : Rank(L, met[i]) = next + k - 1
        BY <1>2, <3>2
      <4>2. QED
        BY <1>1, <1>2, <4>1
    <3>3. QED
      BY <1>6, <3>1, <3>2
  <2>3. QED
    BY <1>2, <2>1, <2>2
<1>11. ASSUME Shrank(more), NEW i \in DOMAIN met, NEW j \in DOMAIN met, met[i] = met[j]
       PROVE  i = j
  <2>1. ASSUME NEW a \in DOMAIN got, NEW k \in DOMAIN items PROVE got[a] # items[k]
    <3>1. SUFFICES ASSUME got[a] = items[k] PROVE FALSE
      OBVIOUS
    <3>2. k \in Nat \ {0} /\ items[k] \in L /\ Rank(L, items[k]) = next + k - 1
      BY <1>2
    <3>3. Rank(L, items[k]) < next
      BY <1>9, <1>11, <3>1, <3>2
    <3>4. QED
      BY <1>1, <3>2, <3>3
  <2>2. ASSUME NEW a \in DOMAIN items, NEW b \in DOMAIN items, items[a] = items[b] PROVE a = b
    <3>1. a \in Nat /\ b \in Nat /\ next + a - 1 = next + b - 1
      BY <1>2, <2>2
    <3>2. QED
      BY <1>1, <3>1
  <2>3. \A a, b \in DOMAIN got : got[a] = got[b] => a = b
    <3>1. CASE ls = <<>>
      BY <1>1, <1>5, <3>1
    <3>2. CASE ls # <<>>
      BY <1>3, <1>11, <3>2 DEF Walk
    <3>3. QED
      BY <3>1, <3>2
  <2>4. CASE i \in DOMAIN got /\ met[i] = got[i]
    <3>1. j \in DOMAIN got /\ met[j] = got[j]
      <4>1. SUFFICES ASSUME NEW b \in DOMAIN items, met[j] = items[b] PROVE FALSE
        BY <1>6
      <4>2. got[i] = items[b]
        BY <1>11, <2>4, <4>1
      <4>3. QED
        BY <2>1, <2>4, <4>2
    <3>2. QED
      BY <1>11, <2>3, <2>4, <3>1
  <2>5. CASE \E a \in DOMAIN items : i = n + a /\ met[i] = items[a]
    <3>1. PICK a \in DOMAIN items : i = n + a /\ met[i] = items[a]
      BY <2>5
    <3>2. PICK b \in DOMAIN items : j = n + b /\ met[j] = items[b]
      BY <1>6, <1>11, <2>1, <3>1
    <3>3. QED
      BY <1>11, <2>2, <3>1, <3>2
  <2>6. QED
    BY <1>6, <2>4, <2>5
<1>12. QED
  BY <1>2, <1>3, <1>5, <1>8, <1>10, <1>11 DEF Walk

(* The last page completes it.                                             *)
LEMMA LastPage ==
    ASSUME NEW ls, NEW met, NEW end, Walk(ls, met, end), ls # <<>>,
           end >= Cardinality(LastOf(ls))
    PROVE  Walked(ls, met)
<1>1. PICK L \in SUBSET Titles : L = LastOf(ls) /\ (Grew(ls) => ls[1] \subseteq L)
  <2>1. PICK n \in Nat : n = Len(ls) /\ n > 0 /\ DOMAIN ls = 1 .. n /\ ls[n] \in SUBSET Titles
    BY DEF Walk
  <2>2. 1 \in DOMAIN ls /\ n \in DOMAIN ls /\ 1 <= n
    BY <2>1
  <2>3. QED
    BY <2>1, <2>2 DEF LastOf, Grew
<1>2. ASSUME NEW t \in L PROVE Rank(L, t) < end
  <2>1. end \in Nat /\ Rank(L, t) \in Nat /\ Rank(L, t) < Cardinality(L) /\ Cardinality(L) \in Nat
    BY RankBelow, LibraryFinite, RankIsNatural DEF Walk
  <2>2. QED
    BY <1>1, <2>1
<1>3. QED
  BY <1>1, <1>2 DEF Walk, Walked

LEMMA WalkStarts == Walk(<<>>, <<>>, 0)
BY DEF Walk


(* A sequence without repetitions has as many values as places.            *)
LEMMA AllDifferent ==
    ASSUME NEW got \in Seq(Titles), \A i, j \in DOMAIN got : got[i] = got[j] => i = j,
           NEW met, met = {got[i] : i \in DOMAIN got}
    PROVE  Len(got) = Cardinality(met)
<1>1. PICK n \in Nat : n = Len(got) /\ DOMAIN got = 1 .. n /\ got \in [1 .. n -> Titles]
  OBVIOUS
<1>2. PICK f : f = [i \in 1 .. n |-> got[i]]
  OBVIOUS
<1>3. f \in Bijection(1 .. n, met)
  BY <1>1, <1>2 DEF Bijection, Injection, Surjection, IsInjective
<1>4. IsFiniteSet(1 .. n) /\ Cardinality(1 .. n) = n
  <2>1. n \in Int /\ 1 \in Int
    BY <1>1
  <2>2. IsFiniteSet(1 .. n) /\ Cardinality(1 .. n) = IF 1 > n THEN 0 ELSE n - 1 + 1
    BY <2>1, FS_Interval
  <2>3. QED
    BY <1>1, <2>2
<1>5. QED
  BY <1>1, <1>3, <1>4, FS_Bijection DEF ExistsBijection

-----------------------------------------------------------------------------
(* The other tools do not browse.                                          *)
Elsewhere(r) == r.tool # "browse" /\ r.pc # "page"

LEMMA ElsewhereStarts ==
    ASSUME IInv, NEW c \in Calls, StartTool(c) \/ Seasons(c) \/ AlbumSongs(c) \/ Summary(c)
    PROVE  Elsewhere(call'[c])
<1>1. ASSUME NEW r, Start(c, r), r.tool # "browse" /\ r.pc # "page" PROVE Elsewhere(call'[c])
  BY <1>1, CallBecomes DEF Start, Elsewhere
<1>2. QED
  <2>1. CASE RefuseSetting(c)
    BY <1>1, <2>1 DEF RefuseSetting, Fresh
  <2>2. CASE SetSetting(c)
    BY <1>1, <2>2 DEF SetSetting, Fresh
  <2>3. CASE EnsureAddonEnabled(c)
    BY <1>1, <2>3 DEF EnsureAddonEnabled, Fresh
  <2>4. CASE PlayerStop(c)
    BY <1>1, <2>4 DEF PlayerStop, Fresh
  <2>5. CASE AddonExecute(c)
    BY <1>1, <2>5 DEF AddonExecute, Fresh
  <2>6. CASE GuiScreenshot(c)
    BY <1>1, <2>6 DEF GuiScreenshot, Fresh
  <2>7. CASE Seasons(c) \/ AlbumSongs(c)
    BY <1>1, <2>7 DEF Seasons, AlbumSongs, Parts, Fresh
  <2>8. CASE Summary(c)
    BY <1>1, <2>8 DEF Summary, Fresh
  <2>9. QED
    BY <2>1, <2>2, <2>3, <2>4, <2>5, <2>6, <2>7, <2>8 DEF StartTool

(* At the places of the other tools, every step keeps the tool.            *)
LEMMA ElsewhereStays ==
    ASSUME IInv, NEW c \in Calls, Browses(c, call[c]),
           ToolStep(c) \/ ShowDetails(c) \/ SeasonsPage(c) \/ Counts(c)
    PROVE  Elsewhere(call'[c])
<1>1. DOMAIN call[c] = Fields /\ Fields = DOMAIN Fresh
  BY DEF IInv, Tools, Holds, Fields
<1>2. call[c].tool # "browse" /\ call[c].pc # "page"
  <2>1. call[c].pc \notin {"page", "done"}
    BY DEF ToolStep, ShowDetails, SeasonsPage, Counts, Back, At,
           SettingBefore, SettingWritten, SettingReadBack, AddonDetails, AddonEnabled,
           PlayerStopped, PlayerLooked, Executed, Observed, WindowSeen, Captured, BlackContext
  <2>2. QED
    BY <2>1 DEF Browses
<1>3. ASSUME NEW r, Go(c, r), r.tool = call[c].tool /\ r.pc # "page" PROVE Elsewhere(call'[c])
  BY <1>2, <1>3, CallBecomes DEF Go, Elsewhere
<1>4. ASSUME NEW ok, Finish(c, ok) PROVE Elsewhere(call'[c])
  <2> DEFINE r == [Fresh EXCEPT !.tool = call[c].tool, !.pc = "done", !.went = call[c].went,
                                !.ok = ok, !.got = call[c].got, !.libraries = call[c].libraries]
  <2>1. call' = [call EXCEPT ![c] = r]
    BY <1>4 DEF Finish
  <2>2. r.tool = call[c].tool /\ r.pc = "done"
    BY DEF Fresh
  <2> HIDE DEF r
  <2>3. QED
    BY <1>2, <2>1, <2>2, CallBecomes DEF Elsewhere
<1>5. QED
  <2>1. CASE SettingBefore(c)
    BY <1>1, <1>3, <1>4, <2>1 DEF SettingBefore, Fresh
  <2>2. CASE SettingWritten(c)
    BY <1>1, <1>3, <1>4, <2>2 DEF SettingWritten, Fresh
  <2>3. CASE SettingReadBack(c) \/ AddonEnabled(c) \/ SeasonsPage(c)
    BY <1>4, <2>3 DEF SettingReadBack, AddonEnabled, SeasonsPage
  <2>4. CASE AddonDetails(c)
    BY <1>1, <1>3, <1>4, <2>4 DEF AddonDetails, Fresh
  <2>5. CASE PlayerStopped(c)
    BY <1>1, <1>3, <1>4, <2>5 DEF PlayerStopped, Look, Fresh
  <2>6. CASE PlayerLooked(c)
    BY <1>1, <1>3, <1>4, <2>6 DEF PlayerLooked, Look, Fresh
  <2>7. CASE Executed(c)
    BY <1>1, <1>3, <1>4, <2>7 DEF Executed, Fresh
  <2>8. CASE Observed(c)
    <3> DEFINE seen == call[c].ok /\ ("player" \in call[c].expect => Active(c))
               r1 == [call[c] EXCEPT !.pc = "window", !.tries = 1, !.ok = seen]
               r2 == [call[c] EXCEPT !.tries = @ + 1]
    <3>1. Go(c, r1) \/ Go(c, r2)
      BY <2>8 DEF Observed
    <3>2. call[c].pc = "observe"
      BY <2>8 DEF Observed, Back, At
    <3> HIDE DEF seen
    <3>3. /\ r1.tool = call[c].tool /\ r1.pc = "window"
          /\ r2.tool = call[c].tool /\ r2.pc = "observe"
      BY <1>1, <3>2 DEF Fresh
    <3> HIDE DEF r1, r2
    <3>4. QED
      BY <1>3, <3>1, <3>3
  <2>9. CASE WindowSeen(c)
    BY <1>1, <1>3, <1>4, <2>9 DEF WindowSeen, Fresh, Back, At
  <2>10. CASE Captured(c)
    BY <1>1, <1>3, <1>4, <2>10 DEF Captured, Fresh
  <2>11. CASE BlackContext(c)
    BY <1>1, <1>3, <1>4, <2>11 DEF BlackContext, Fresh
  <2>12. CASE ShowDetails(c)
    BY <1>1, <1>3, <1>4, <2>12 DEF ShowDetails, Fresh
  <2>13. CASE Counts(c)
    BY <1>1, <1>3, <1>4, <2>13 DEF Counts, Fresh, Back, At
  <2>14. QED
    BY <2>1, <2>2, <2>3, <2>4, <2>5, <2>6, <2>7, <2>8, <2>9, <2>10, <2>11, <2>12, <2>13 DEF ToolStep

(* Nothing that happens to one call concerns another.                      *)
LEMMA BrowsesKept ==
    ASSUME NEW d, NEW r, Browses(d, r), UNCHANGED <<request[d], answer[d]>>
    PROVE  Browses(d, r)'
BY DEF Browses, InFlight, Failed, Value

LEMMA OneBrowses ==
    ASSUME IInv, Browsing, NEW c \in Calls, HasLibrary',
           call' = [call EXCEPT ![c] = call'[c]],
           \A d \in Calls : d # c => UNCHANGED <<request[d], answer[d]>>,
           Browses(c, call[c])'
    PROVE  Browsing'
<1>1. ASSUME NEW d \in Calls, d # c PROVE Browses(d, call[d])'
  <2>1. PICK r : r = call[d]
    OBVIOUS
  <2>2. call'[d] = r /\ Browses(d, r)
    BY <1>1, <2>1 DEF IInv, Tools, Browsing
  <2>3. Browses(d, r)'
    BY <1>1, <2>2, BrowsesKept
  <2>4. QED
    BY <2>2, <2>3
<1>2. QED
  BY <1>1 DEF Browsing

(* What the steps of Kodi and of others leave of the library.              *)
LEMMA EffectsKeep ==
    ASSUME HasLibrary, NEW m, NEW arg, kodi' \in Effects(m, arg)
    PROVE  HasLibrary'
BY DEF HasLibrary, Effects, KodiFields

LEMMA OthersKeep == ASSUME HasLibrary, OthersAct PROVE HasLibrary'
<1>1. CASE \E v \in Values : kodi' = [kodi EXCEPT !.setting = v]
  BY <1>1 DEF HasLibrary, KodiFields
<1>2. CASE kodi' \in {[kodi EXCEPT !.playing = ~@], [kodi EXCEPT !.enabled = ~@]}
  BY <1>2 DEF HasLibrary, KodiFields
<1>3. CASE \E t \in Titles : kodi' = [kodi EXCEPT !.library = @ \cup {t}]
  BY <1>3 DEF HasLibrary, KodiFields
<1>4. CASE \E t \in Titles : kodi' = [kodi EXCEPT !.library = @ \ {t}]
  BY <1>4 DEF HasLibrary, KodiFields
<1>5. QED
  BY <1>1, <1>2, <1>3, <1>4 DEF OthersAct

(* An answer to a page's request is what the library was.                  *)
LEMMA AttemptBrowses ==
    ASSUME IInv, Browsing, NEW c \in Calls, Transport(c), UNCHANGED call
    PROVE  Browsing'
<1>1. answer = [d \in Calls |-> answer[d]] /\ request \in [Calls -> Requests] /\ HasLibrary
  BY DEF IInv, Inv, RequestTypes, Tools, Browsing
<1>2. HasLibrary'
  BY <1>1, EffectsKeep
  DEF Transport, KodiAnswers, AnswerIsLost, KodiRefuses, Unreachable, TimesOut, HasLibrary
<1>3. PICK r : r = call[c] /\ call'[c] = r /\ Browses(c, r)
  BY DEF Browsing
<1>4. ASSUME NEW a, Answered(c, a)
      PROVE  /\ ~InFlight(c)' /\ answer'[c] = a
             /\ \A d \in Calls : d # c => UNCHANGED <<request[d], answer[d]>>
  BY <1>1, <1>4 DEF Answered, InFlight
<1>5. ASSUME Answered(c, Error)
      PROVE  ~InFlight(c)' /\ Failed(c)'
  BY <1>4, <1>5 DEF Failed, Error
<1>6. ASSUME Retried(c)
      PROVE  /\ request'[c].method = request[c].method
             /\ request[c].method # "none" => InFlight(c)'
             /\ \A d \in Calls : d # c => UNCHANGED <<request[d], answer[d]>>
  <2>1. request' = [request EXCEPT ![c].left = @ - 1] /\ request[c] \in Requests
    BY <1>1, <1>6 DEF Retried
  <2>2. request'[c].method = request[c].method
    BY <1>1, <2>1 DEF Requests
  <2>3. request[c].method # "none" => InFlight(c)'
    BY <2>2 DEF InFlight, Nothing
  <2>4. QED
    BY <1>1, <1>6, <2>1, <2>2, <2>3 DEF Retried
<1>7. InFlight(c)
  BY DEF Transport, KodiAnswers, AnswerIsLost, KodiRefuses, Unreachable, TimesOut
<1>8. CASE \E a : Answered(c, a) /\ (a = Error \/ KodiAnswers(c))
  <2>1. PICK a : Answered(c, a) /\ (a = Error \/ KodiAnswers(c))
    BY <1>8
  <2>2. r.pc = "page" /\ ~Failed(c)' => Value(c)' \in SUBSET Titles
    <3>1. SUFFICES ASSUME r.pc = "page", ~Failed(c)' PROVE Value(c)' \in SUBSET Titles
      OBVIOUS
    <3>2. request[c].method = "VideoLibrary.GetMovies"
      BY <1>3, <1>7, <3>1 DEF Browses
    <3>3. KodiAnswers(c)
      BY <1>5, <2>1, <3>1
    <3>4. Answered(c, Ok(kodi.library))
      BY <3>2, <3>3 DEF KodiAnswers, Replies
    <3>5. Value(c)' = kodi.library
      BY <1>4, <3>4 DEF Value, Ok
    <3>6. QED
      BY <1>1, <3>5 DEF HasLibrary
  <2>3. Browses(c, r)'
    BY <1>3, <1>4, <2>1, <2>2 DEF Browses
  <2>4. Browses(c, call[c])'
    BY <1>3, <2>3
  <2>5. call' = [call EXCEPT ![c] = call'[c]]
    BY DEF IInv, Tools
  <2>6. QED
    BY <1>2, <1>4, <2>1, <2>4, <2>5, OneBrowses
<1>9. CASE Retried(c)
  <2>1. r.pc = "page" => request[c].method = "VideoLibrary.GetMovies"
    BY <1>3, <1>7 DEF Browses
  <2>2. Browses(c, r)'
    BY <1>3, <1>6, <1>9, <2>1 DEF Browses
  <2>3. Browses(c, call[c])'
    BY <1>3, <2>2
  <2>4. call' = [call EXCEPT ![c] = call'[c]]
    BY DEF IInv, Tools
  <2>5. QED
    BY <1>2, <1>6, <1>9, <2>3, <2>4, OneBrowses
<1>10. QED
  BY <1>8, <1>9
  DEF Transport, KodiAnswers, AnswerIsLost, KodiRefuses, Unreachable, TimesOut, FailsTransiently

(* The first page is asked for.                                            *)
LEMMA AskBrowses ==
    ASSUME IInv, Browsing, NEW c \in Calls, NEW r, call' = [call EXCEPT ![c] = r],
           r.tool = "browse", r.pc = "page", Walk(r.libraries, r.got, r.want),
           Issue(c, "VideoLibrary.GetMovies", 0)
    PROVE  Browsing'
<1>1. request \in [Calls -> Requests] /\ answer = [d \in Calls |-> answer[d]] /\ HasLibrary
  BY DEF IInv, Inv, RequestTypes, Tools, Browsing
<1>2. HasLibrary'
  BY <1>1 DEF Issue, HasLibrary
<1>3. request'[c].method = "VideoLibrary.GetMovies" /\ InFlight(c)'
  <2> DEFINE m == "VideoLibrary.GetMovies"
             q == [method |-> m, arg |-> 0,
                   left |-> IF IsSafeToRetry(m) THEN MaxRetries ELSE 0,
                   n |-> IF m \in Writes THEN sent[c] + 1 ELSE 0]
  <2>1. request' = [request EXCEPT ![c] = q] /\ q.method = m
    BY DEF Issue
  <2> HIDE DEF q
  <2>2. request'[c].method = "VideoLibrary.GetMovies"
    BY <1>1, <2>1
  <2>3. QED
    BY <2>2 DEF InFlight, Nothing
<1>4. \A d \in Calls : d # c => UNCHANGED <<request[d], answer[d]>>
  BY <1>1 DEF Issue
<1>5. Browses(c, r)'
  BY <1>3 DEF Browses
<1>6. call' = [call EXCEPT ![c] = call'[c]] /\ call'[c] = r
  BY CallBecomes
<1>7. Browses(c, call[c])'
  BY <1>5, <1>6
<1>8. QED
  BY <1>2, <1>4, <1>6, <1>7, OneBrowses

LEMMA StartBrowses ==
    ASSUME IInv, Browsing, NEW c \in Calls, BrowseVideo(c) \/ BrowseMusic(c)
    PROVE  Browsing'
<1>1. PICK medium : StartWalk(c, medium)
  BY DEF BrowseVideo, BrowseMusic
<1> DEFINE r == [Fresh EXCEPT !.tool = "browse", !.pc = "page", !.expect = {medium}]
<1>2. call' = [call EXCEPT ![c] = r] /\ Issue(c, "VideoLibrary.GetMovies", 0)
  BY <1>1 DEF StartWalk, Start
<1>3. /\ r.tool = "browse" /\ r.pc = "page"
      /\ r.libraries = <<>> /\ r.got = <<>> /\ r.want = 0
  BY DEF Fresh
<1> HIDE DEF r
<1>4. Walk(r.libraries, r.got, r.want)
  BY <1>3, WalkStarts
<1>5. QED
  BY <1>2, <1>3, <1>4, AskBrowses

(* A page takes the walk on, ends it, or fails.                            *)
LEMMA PageBrowses ==
    ASSUME IInv, Browsing, NEW c \in Calls, Page(c)
    PROVE  Browsing'
<1>1. PICK old : old = call[c]
  OBVIOUS
<1>2. old.pc = "page" /\ ~InFlight(c) /\ DOMAIN old = Fields /\ Browses(c, old) /\ HasLibrary
  BY <1>1 DEF Page, Back, At, IInv, Tools, Holds, Browsing
<1>3. old.tool = "browse" /\ Walk(old.libraries, old.got, old.want)
  BY <1>2 DEF Browses
<1> DEFINE L == Value(c)
           items == PageItems(L, old.want)
           end == Pagination(L, old.want).end
           walked == [old EXCEPT !.got = @ \o items, !.libraries = Append(@, L)]
           more == [walked EXCEPT !.want = end]
           last == [walked EXCEPT !.pc = "done", !.want = 0, !.ok = TRUE]
<1>4. \/ Finish(c, FALSE)
      \/ ~Failed(c) /\ Go(c, more) /\ Issue(c, "VideoLibrary.GetMovies", 0)
      \/ /\ ~Failed(c) /\ ~HasMore(L, old.want)
         /\ Go(c, last) /\ UNCHANGED <<kodi, transport>>
  BY <1>1 DEF Page
<1>5. /\ more.tool = "browse" /\ more.pc = "page" /\ more.want = end
      /\ more.got = old.got \o items /\ more.libraries = Append(old.libraries, L)
      /\ last.tool = "browse" /\ last.pc = "done"
      /\ last.got = old.got \o items /\ last.libraries = Append(old.libraries, L)
  BY <1>2, <1>3 DEF Fields, Fresh
<1> HIDE DEF more, last
<1>6. ASSUME ~Failed(c)
      PROVE  /\ Walk(Append(old.libraries, L), old.got \o items, end)
             /\ end >= Cardinality(L) => Walked(Append(old.libraries, L), old.got \o items)
  <2>1. L \in SUBSET Titles /\ old.want \in Nat /\ old.libraries \in Seq(SUBSET Titles)
    BY <1>2, <1>3, <1>6 DEF Browses, Walk
  <2>2. IsPage(L, old.want, items, end)
    BY <2>1, PageHas
  <2>3. PICK ls, met, e : /\ ls = Append(old.libraries, L)
                          /\ met = old.got \o items /\ e = end
    OBVIOUS
  <2>4. Walk(ls, met, e)
    BY <1>3, <2>1, <2>2, <2>3, WalkGoesOn
  <2>5. ls # <<>> /\ LastOf(ls) = L
    <3>1. PICK before : before = old.libraries
      OBVIOUS
    <3>2. before \in Seq(SUBSET Titles) /\ ls = Append(before, L)
      BY <2>1, <2>3, <3>1
    <3>3. QED
      BY <2>1, <3>2, OnePageMore
  <2>6. e >= Cardinality(L) => Walked(ls, met)
    BY <2>4, <2>5, LastPage
  <2>7. QED
    BY <2>3, <2>4, <2>6
<1>7. CASE Finish(c, FALSE)
  <2> DEFINE r == [Fresh EXCEPT !.tool = call[c].tool, !.pc = "done", !.went = call[c].went,
                                !.ok = FALSE, !.got = call[c].got, !.libraries = call[c].libraries]
  <2>1. call' = [call EXCEPT ![c] = r] /\ UNCHANGED <<kodi, request, answer>>
    BY <1>7 DEF Finish, transport
  <2>2. r.pc = "done" /\ r.ok = FALSE
    BY DEF Fresh
  <2> HIDE DEF r
  <2>3. call' = [call EXCEPT ![c] = call'[c]] /\ call'[c] = r
    BY <2>1, CallBecomes
  <2>4. Browses(c, call[c])' /\ HasLibrary'
    BY <1>2, <2>1, <2>2, <2>3 DEF Browses, HasLibrary
  <2>5. QED
    BY <2>1, <2>3, <2>4, OneBrowses
<1>8. CASE ~Failed(c) /\ Go(c, more) /\ Issue(c, "VideoLibrary.GetMovies", 0)
  <2>1. Walk(more.libraries, more.got, more.want)
    BY <1>5, <1>6, <1>8
  <2>2. QED
    BY <1>5, <1>8, <2>1, AskBrowses DEF Go
<1>9. CASE ~Failed(c) /\ ~HasMore(L, old.want) /\ Go(c, last) /\ UNCHANGED <<kodi, transport>>
  <2>1. end >= Cardinality(L)
    <3>1. L \in SUBSET Titles /\ old.want \in Nat
      BY <1>2, <1>3, <1>9 DEF Browses, Walk
    <3>2. end \in Nat /\ Cardinality(L) \in Nat
      BY <3>1, PageHas, LibraryFinite DEF IsPage
    <3>3. ~(end < Cardinality(L))
      BY <1>9 DEF HasMore, Pagination
    <3>4. QED
      BY <3>2, <3>3
  <2>2. Walked(last.libraries, last.got)
    BY <1>5, <1>6, <1>9, <2>1
  <2>3. call' = [call EXCEPT ![c] = call'[c]] /\ call'[c] = last
    BY <1>9, CallBecomes DEF Go
  <2>4. UNCHANGED <<kodi, request, answer>>
    BY <1>9 DEF transport
  <2>5. Browses(c, call[c])' /\ HasLibrary'
    BY <1>2, <1>5, <2>2, <2>3, <2>4 DEF Browses, HasLibrary
  <2>6. QED
    BY <2>3, <2>4, <2>5, OneBrowses
<1>10. QED
  BY <1>4, <1>7, <1>8, <1>9

LEMMA ElsewhereBrowses ==
    ASSUME IInv, Browsing, NEW c \in Calls, Elsewhere(call'[c]), ToolMoves(c)
    PROVE  Browsing'
<1>1. request \in [Calls -> Requests] /\ answer = [d \in Calls |-> answer[d]] /\ HasLibrary
  BY DEF IInv, Inv, RequestTypes, Tools, Browsing
<1>2. /\ \A d \in Calls : d # c => UNCHANGED <<request[d], answer[d]>>
      /\ HasLibrary' /\ Moves(c)
  <2>1. CASE Ends(c)
    BY <1>1, <2>1 DEF Ends, transport, HasLibrary
  <2>2. CASE AsksRead(c) \/ AsksWrite(c)
    <3>1. PICK m, arg : Issue(c, m, arg)
      BY <2>2 DEF AsksRead, AsksWrite
    <3>2. QED
      BY <1>1, <2>2, <3>1 DEF AsksRead, AsksWrite, Issue, HasLibrary
  <2>3. QED
    BY <2>1, <2>2 DEF ToolMoves
<1>3. Browses(c, call[c])'
  BY DEF Browses, Elsewhere
<1>4. QED
  BY <1>2, <1>3, OneBrowses DEF Moves

LEMMA BrowsingInit == Init => Browsing
BY DEF Init, InitRequests, Browsing, HasLibrary, KodiFields, Kodis, Browses, Fresh

LEMMA BrowsingStep == IInv /\ Browsing /\ [Next]_vars => Browsing'
<1>1. SUFFICES ASSUME IInv, Browsing, [Next]_vars PROVE Browsing'
  OBVIOUS
<1>2. ASSUME NEW c \in Calls, StartTool(c) \/ StartLibraryTool(c) \/ Step(c) PROVE Browsing'
  <2>1. CASE BrowseVideo(c) \/ BrowseMusic(c)
    BY <1>1, <2>1, StartBrowses
  <2>2. CASE Page(c)
    BY <1>1, <2>2, PageBrowses
  <2>3. CASE Transport(c) /\ UNCHANGED call
    BY <1>1, <2>3, AttemptBrowses
  <2>4. CASE StartTool(c) \/ Seasons(c) \/ AlbumSongs(c) \/ Summary(c)
    <3>1. Elsewhere(call'[c])
      BY <1>1, <2>4, ElsewhereStarts
    <3>2. ToolMoves(c)
      BY <1>1, <2>4, AllMove DEF StartLibraryTool
    <3>3. QED
      BY <1>1, <3>1, <3>2, ElsewhereBrowses
  <2>5. CASE ToolStep(c) \/ ShowDetails(c) \/ SeasonsPage(c) \/ Counts(c)
    <3>1. Elsewhere(call'[c])
      BY <1>1, <2>5, ElsewhereStays DEF Browsing
    <3>2. ToolMoves(c)
      BY <1>1, <2>5, AllMove DEF LibraryStep
    <3>3. QED
      BY <1>1, <3>1, <3>2, ElsewhereBrowses
  <2>6. QED
    BY <1>2, <2>1, <2>2, <2>3, <2>4, <2>5 DEF StartLibraryTool, Step, LibraryStep
<1>3. ASSUME HasLibrary', UNCHANGED <<request, answer, call>> PROVE Browsing'
  BY <1>1, <1>3 DEF Browsing, Browses, InFlight, Failed, Value
<1>4. ASSUME NEW m \in late, ArrivesLate(m) \/ IsDropped(m), UNCHANGED call PROVE Browsing'
  BY <1>1, <1>3, <1>4, EffectsKeep DEF ArrivesLate, IsDropped, Browsing, HasLibrary
<1>5. CASE OthersAct /\ UNCHANGED call
  BY <1>1, <1>3, <1>5, OthersKeep DEF OthersAct, transport, Browsing
<1>6. CASE UNCHANGED vars
  BY <1>1, <1>3, <1>6 DEF vars, transport, Browsing, HasLibrary
<1>7. QED
  BY <1>1, <1>2, <1>4, <1>5, <1>6 DEF Next

LEMMA BrowsingInvariant == Spec => []Browsing
BY BrowsingInit, BrowsingStep, ToolInvariant, PTL DEF Spec

(* Whoever reads all the pages of a category, as the limits of each answer *)
(* say, leaves out nothing that was there all the time if the library only *)
(* grows meanwhile, and meets nothing twice if it only shrinks: for every  *)
(* size of page and every library.                                         *)
THEOREM WalksAreComplete == Spec => []WalkIsComplete
<1>1. Browsing => WalkIsComplete
  <2>1. SUFFICES ASSUME Browsing, NEW c \in Calls,
                        call[c].tool = "browse", call[c].pc = "done", call[c].ok
                 PROVE  LET got == call[c].got
                            libraries == call[c].libraries
                            pages == DOMAIN libraries
                            met == {got[i] : i \in DOMAIN got}
                        IN /\ (\A i, j \in pages : i <= j => libraries[i] \subseteq libraries[j])
                                => libraries[1] \subseteq met
                           /\ (\A i, j \in pages : i <= j => libraries[j] \subseteq libraries[i])
                                => Len(got) = Cardinality(met)
    BY DEF WalkIsComplete, At
  <2>2. PICK got, ls : got = call[c].got /\ ls = call[c].libraries
    OBVIOUS
  <2>3. Walked(ls, got)
    BY <2>1, <2>2 DEF Browsing, Browses
  <2>4. PICK met : met = {got[i] : i \in DOMAIN got}
    OBVIOUS
  <2>5. Grew(ls) => ls[1] \subseteq met
    BY <2>3, <2>4 DEF Walked
  <2>6. Shrank(ls) => Len(got) = Cardinality(met)
    BY <2>3, <2>4, AllDifferent DEF Walked
  <2>7. QED
    BY <2>2, <2>4, <2>5, <2>6 DEF Grew, Shrank
<1>2. QED
  BY <1>1, BrowsingInvariant, PTL
=============================================================================
