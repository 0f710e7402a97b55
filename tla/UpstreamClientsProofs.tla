------------------------ MODULE UpstreamClientsProofs ------------------------
(***************************************************************************)
(* The safety of shared upstream calls, for any number of requests, any    *)
(* coordinates, radii, ids, texts and languages, however often the         *)
(* upstream's data change.  The inductive invariant has four layers, each  *)
(* proved from the ones before it:                                         *)
(*   Shaped    where a request is tells what it and its call hold;         *)
(*   Grouped   the group maps exactly the active calls, each under its key;*)
(*   Matching  every result is about the key it is held for;               *)
(*   Fresh     the versions of results for one key are in order.           *)
(***************************************************************************)
EXTENDS UpstreamClients, TLAPS

Shaped ==
    /\ TypeOK
    /\ \A r \in Requests :
          /\ phase[r] # "idle" => query[r] \in Queries
          /\ phase[r] # "answered" => reply[r] = Empty
          /\ phase[r] # "waiting" => chan[r] = Empty /\ joined[r] = {}
          /\ phase[r] \in {"begun", "missed"} => ~Active(r) /\ timing[r] = 0
          /\ Active(r) => flight[r].query \in Queries
          /\ flight[r].at = "none" => flight[r].result = Empty
          /\ flight[r].at \in {"admitting", "calling"} =>
                flight[r].result = Empty /\ timing[r] = 0
          /\ flight[r].at = "answered" => flight[r].result \in Values
          /\ flight[r].at = "done" => flight[r].result # Empty

\* The last two conjuncts keep cancellation private: the leader of a call that
\* was not cancelled waits for that call and for no other, and no call fails
\* because of a context.
Grouped ==
    /\ \A f \in Requests :
          Active(f) => CallKey(f) \in DOMAIN group /\ group[CallKey(f)] = f
    /\ \A k \in DOMAIN group : Active(group[k]) /\ CallKey(group[k]) = k
    /\ \A r, f \in Requests : f \in joined[r] => Active(f) /\ CallKey(f) = KeyOf(r)
    /\ \A r \in Requests : r \notin cancelled /\ Active(r) =>
          phase[r] = "waiting" /\ chan[r] = Empty /\ joined[r] = {r}
    /\ \A r \in Requests :
          chan[r] # Failure("context") /\ flight[r].result # Failure("context")

Matching ==
    /\ \A k \in DOMAIN cached : cacheKey(cached[k].about) = k
    /\ \A r \in Requests :
          /\ flight[r].result.kind = "value" =>
                cacheKey(flight[r].result.about) = CallKey(r)
          /\ chan[r].kind = "value" => cacheKey(chan[r].about) = KeyOf(r)
          /\ reply[r].kind = "value" => cacheKey(reply[r].about) = KeyOf(r)

\* v is no older than anything that was given out for key k, nor than what is
\* in the cache or on its way to a request.
AtLeast(v, k) ==
    /\ newest[k] <= v
    /\ k \in DOMAIN cached => cached[k].version <= v
    /\ \A r \in Requests :
          chan[r].kind = "value" /\ KeyOf(r) = k => chan[r].version <= v

Fresh ==
    /\ \A k \in Keys : AtLeast(version[k], k)
    /\ \A k \in DOMAIN cached : AtLeast(cached[k].version, k)
    /\ \A f \in Requests : flight[f].result.kind = "value" =>
          /\ AtLeast(flight[f].result.version, CallKey(f))
          /\ flight[f].result.version <= version[CallKey(f)]
          /\ flight[f].at = "done" /\ CallKey(f) \in DOMAIN cached =>
                flight[f].result.version <= cached[CallKey(f)].version
    /\ \A r \in Requests :
          /\ phase[r] # "idle" => floor[r] <= newest[KeyOf(r)]
          /\ chan[r].kind = "value" => floor[r] <= chan[r].version
          /\ reply[r].kind = "value" => floor[r] <= reply[r].version

Private == CancellationIsPrivate

IInv == Shaped /\ Grouped /\ Matching /\ Fresh /\ Private
-----------------------------------------------------------------------------
\* What the kinds of results and queries have in them.

\* What a value is made of.
LEMMA ValueFacts ==
    ASSUME NEW v \in Values
    PROVE  /\ v.kind = "value" /\ v.about \in Queries /\ v.version \in 0 .. MaxVersion
           /\ v # Empty /\ v # Failure("context")
  BY DEF Values, Success, Empty, Failure

\* A success is a value.
LEMMA SuccessFacts ==
    ASSUME NEW q \in Queries, NEW n \in 0 .. MaxVersion
    PROVE  /\ Success(q, n) \in Values
           /\ Success(q, n).about = q /\ Success(q, n).version = n
  BY DEF Values, Success

\* A failure is a result, and no value.
LEMMA FailureFacts ==
    ASSUME NEW why \in {"upstream", "context", "limited"}
    PROVE  /\ Failure(why) \in Results /\ Failure(why).kind # "value"
           /\ Failure(why) # Empty
           /\ why # "context" => Failure(why) # Failure("context")
  BY DEF Results, Failure, Empty

\* Results, values and the absence of both are told apart by their kind.
LEMMA ResultFacts ==
    /\ Values \subseteq Results
    /\ Empty.kind # "value"
    /\ Empty \notin Results
    /\ Empty # Failure("context")
    /\ \A x \in Results \cup {Empty} : x.kind = "value" => x \in Values
<1>1. Values \subseteq Results /\ Empty.kind # "value" /\ Empty # Failure("context")
  BY DEF Results, Empty, Failure
<1>2. Empty \notin Results
  <2>1. Empty \notin Values
    BY ValueFacts
  <2> QED
    BY <2>1 DEF Results, Empty, Failure
<1>3. ASSUME NEW x \in Results \cup {Empty}, x.kind = "value"
      PROVE  x \in Values
  BY <1>3 DEF Results, Empty, Failure
<1> QED
  BY <1>1, <1>2, <1>3

\* Every query has a key.
LEMMA QueryFacts ==
    /\ NoQuery \notin Queries
    /\ \A q \in Queries : cacheKey(q) \in Keys
<1>1. \A q \in Queries : q.kind \in {"zone", "area", "place"}
  BY DEF Queries, Zone, Area, Place
<1> QED
  BY <1>1 DEF NoQuery, Keys

\* Keys of different kinds never meet, and a key holds what Serves compares.
LEMMA SameKeyServes ==
    ASSUME NEW p \in Queries, NEW q \in Queries, cacheKey(q) = cacheKey(p)
    PROVE  Serves(q, p)
  BY DEF Queries, Zone, Area, Place, cacheKey, Serves

-----------------------------------------------------------------------------
\* Shaped.

\* Shaped holds at the beginning.
LEMMA InitShaped == Init => Shaped
  BY ResultFacts, GeocodeBurstAssumption, MaxVersionAssumption
  DEF Init, Shaped, TypeOK, NoCall, Active

\* The three ways to an answer.
LEMMA AnswerShaped ==
    ASSUME Shaped, NEW r \in Requests, phase[r] \in {"begun", "waiting"},
           NEW result \in Results, Answer(r, result)
    PROVE  Shaped'
<1>1. newest' \in [Keys -> 0 .. MaxVersion]
  <2>1. CASE result.kind = "value"
    <3>1. result.version \in 0 .. MaxVersion
      BY <2>1, ResultFacts, ValueFacts
    <3>2. Later(newest[KeyOf(r)], result.version) \in {newest[KeyOf(r)], result.version}
      BY DEF Later
    <3> QED
      BY <2>1, <3>1, <3>2 DEF Shaped, TypeOK, Answer
  <2>2. CASE result.kind # "value"
    BY <2>2 DEF Shaped, TypeOK, Answer
  <2> QED
    BY <2>1, <2>2
<1>2. TypeOK'
  BY <1>1 DEF Shaped, TypeOK, Answer, world
<1> QED
  BY <1>2 DEF Shaped, TypeOK, Answer, Active

Calls ==
    [at : {"none", "admitting", "calling", "answered", "done"},
     query : Queries \cup {NoQuery}, result : Results \cup {Empty}]

\* Call f goes on to stage a, with x for a result.
GoesOn(f, a, x) ==
    /\ flight' \in [Requests -> Calls]
    /\ flight'[f].at = a /\ flight'[f].result = x
    /\ flight'[f].query = flight[f].query
    /\ \A g \in Requests : g # f => flight'[g] = flight[g]

\* Both ways of writing a step of a call amount to GoesOn.
LEMMA CallGoesOn ==
    ASSUME TypeOK, NEW f \in Requests,
           NEW a \in {"admitting", "calling", "answered", "done"},
           NEW x \in Results \cup {Empty},
           \/ flight' = [flight EXCEPT ![f] = [@ EXCEPT !.at = a, !.result = x]]
           \/ flight' = [flight EXCEPT ![f].at = a] /\ x = flight[f].result
    PROVE  GoesOn(f, a, x)
<1>1. flight \in [Requests -> Calls]
  BY DEF TypeOK, Calls
<1>2. flight[f] \in Calls
  BY <1>1
<1>3. CASE flight' = [flight EXCEPT ![f] = [@ EXCEPT !.at = a, !.result = x]]
  <2> DEFINE c == [flight[f] EXCEPT !.at = a, !.result = x]
  <2>1. c \in Calls /\ c.at = a /\ c.result = x /\ c.query = flight[f].query
    BY <1>2 DEF Calls
  <2>2. flight' = [flight EXCEPT ![f] = c]
    BY <1>3
  <2> HIDE DEF c
  <2> QED
    BY <1>1, <2>1, <2>2 DEF GoesOn
<1>4. CASE flight' = [flight EXCEPT ![f].at = a] /\ x = flight[f].result
  <2> DEFINE c == [flight[f] EXCEPT !.at = a]
  <2>1. c \in Calls /\ c.at = a /\ c.result = x /\ c.query = flight[f].query
    BY <1>2, <1>4 DEF Calls
  <2>2. flight' = [flight EXCEPT ![f] = c]
    BY <1>4
  <2> HIDE DEF c
  <2> QED
    BY <1>1, <2>1, <2>2 DEF GoesOn
<1> QED
  BY <1>3, <1>4

\* No call begins or ends, and none changes its key.
LEMMA SameCalls ==
    ASSUME NEW f \in Requests, Active(f), NEW x,
           NEW a \in {"admitting", "calling", "answered", "done"}, GoesOn(f, a, x)
    PROVE  /\ \A g \in Requests : Active(g)' <=> Active(g)
           /\ \A g \in Requests : CallKey(g)' = CallKey(g)
  BY DEF GoesOn, Active, CallKey

Answered(f) == Success(flight[f].query, version[CallKey(f)])

\* What each step of a call, short of its delivery, makes of it.
LEMMA CallSteps ==
    ASSUME Shaped, NEW f \in Requests
    PROVE  /\ Admit(f) => GoesOn(f, "calling", Empty)
           /\ OverBudget(f) => GoesOn(f, "done", Failure("limited"))
           /\ RoundTripFails(f) \/ BodyRejected(f) =>
                GoesOn(f, "done", Failure("upstream"))
           /\ RoundTripSucceeds(f) =>
                /\ Answered(f) \in Values
                /\ GoesOn(f, "answered", Answered(f))
           /\ StoreResult(f) =>
                /\ flight[f].result \in Values
                /\ GoesOn(f, "done", flight[f].result)
<1> USE DEF Shaped
<1>1. ASSUME Admit(f)
      PROVE  GoesOn(f, "calling", Empty)
  <2>1. flight[f].result = Empty
    BY <1>1 DEF Admit
  <2>2. flight' = [flight EXCEPT ![f].at = "calling"]
    BY <1>1 DEF Admit
  <2> QED
    BY <2>1, <2>2, CallGoesOn
<1>2. ASSUME OverBudget(f)
      PROVE  GoesOn(f, "done", Failure("limited"))
  <2>1. flight' = [flight EXCEPT ![f] =
                      [@ EXCEPT !.at = "done", !.result = Failure("limited")]]
    BY <1>2 DEF OverBudget
  <2> QED
    BY <2>1, CallGoesOn, FailureFacts
<1>3. ASSUME RoundTripFails(f) \/ BodyRejected(f)
      PROVE  GoesOn(f, "done", Failure("upstream"))
  <2>1. flight' = [flight EXCEPT ![f] =
                      [@ EXCEPT !.at = "done", !.result = Failure("upstream")]]
    BY <1>3 DEF RoundTripFails, BodyRejected
  <2> QED
    BY <2>1, CallGoesOn, FailureFacts
<1>4. ASSUME RoundTripSucceeds(f)
      PROVE  Answered(f) \in Values /\ GoesOn(f, "answered", Answered(f))
  <2>1. Answered(f) \in Values
    BY <1>4, QueryFacts, SuccessFacts
    DEF RoundTripSucceeds, TypeOK, Active, CallKey, Answered
  <2>2. flight' = [flight EXCEPT ![f] =
                      [@ EXCEPT !.at = "answered", !.result = Answered(f)]]
    BY <1>4 DEF RoundTripSucceeds, Answered
  <2> QED
    BY <2>1, <2>2, CallGoesOn, ResultFacts
<1>5. ASSUME StoreResult(f)
      PROVE  flight[f].result \in Values /\ GoesOn(f, "done", flight[f].result)
  <2>1. flight[f].result \in Values
    BY <1>5 DEF StoreResult
  <2>2. flight[f].result \in Results \cup {Empty}
    BY <2>1, ResultFacts
  <2>3. flight' = [flight EXCEPT ![f].at = "done"]
    BY <1>5 DEF StoreResult
  <2> QED
    BY <2>1, <2>2, <2>3, CallGoesOn
<1> QED
  BY <1>1, <1>2, <1>3, <1>4, <1>5

\* Shaped is kept by every step.
LEMMA NextShaped == Shaped /\ [Next]_vars => Shaped'
<1> SUFFICES ASSUME Shaped, [Next]_vars
             PROVE  Shaped'
  OBVIOUS
<1> USE DEF requestVars, callVars, historyVars, world
<1>1. ASSUME NEW r \in Requests, NEW q \in Queries, Begin(r, q)
      PROVE  Shaped'
  BY <1>1, QueryFacts DEF Begin, Shaped, TypeOK, Active
<1>2. ASSUME NEW r \in Requests, Cancel(r)
      PROVE  Shaped'
  BY <1>2 DEF Cancel, Shaped, TypeOK, Active
<1>3. ASSUME NEW r \in Requests, CacheHit(r)
      PROVE  Shaped'
  <2>1. cached[KeyOf(r)] \in Results
    BY <1>3, ResultFacts DEF CacheHit, Shaped, TypeOK
  <2> QED
    BY <1>3, <2>1, AnswerShaped DEF CacheHit
<1>4. ASSUME NEW r \in Requests, CacheMiss(r)
      PROVE  Shaped'
  BY <1>4 DEF CacheMiss, Shaped, TypeOK, Active
<1>5. ASSUME NEW r \in Requests, JoinFlight(r)
      PROVE  Shaped'
  BY <1>5 DEF JoinFlight, Shaped, TypeOK, Active
<1>6. ASSUME NEW r \in Requests, StartFlight(r)
      PROVE  Shaped'
  <2>1. KeyOf(r) \in Keys /\ FirstStep(query[r]) \in {"admitting", "calling"}
    BY <1>6, QueryFacts DEF StartFlight, Shaped, KeyOf, FirstStep
  <2>2. TypeOK'
    BY <1>6, <2>1 DEF StartFlight, Shaped, TypeOK
  <2> QED
    BY <1>6, <2>1, <2>2 DEF StartFlight, Shaped, TypeOK, Active
<1>7. ASSUME NEW r \in Requests, Receive(r)
      PROVE  Shaped'
  BY <1>7, AnswerShaped DEF Receive, Shaped, TypeOK
<1>8. ASSUME NEW r \in Requests, ContextDone(r)
      PROVE  Shaped'
  BY <1>8, AnswerShaped, FailureFacts DEF ContextDone
<1>9. ASSUME NEW r \in Requests, Log(r)
      PROVE  Shaped'
  BY <1>9, MaxVersionAssumption DEF Log, Shaped, TypeOK, Active
<1>10. ASSUME NEW f \in Requests, Admit(f)
       PROVE  Shaped'
  <2>1. GoesOn(f, "calling", Empty)
    BY <1>10, CallSteps
  <2>2. tokens' \in 0 .. GeocodeBurst
    BY <1>10, GeocodeBurstAssumption DEF Admit, Shaped, TypeOK
  <2>3. TypeOK'
    BY <1>10, <2>1, <2>2 DEF Admit, Shaped, TypeOK, GoesOn, Calls
  <2> QED
    BY <1>10, <2>1, <2>3 DEF Admit, Shaped, Active, GoesOn
<1>11. ASSUME NEW f \in Requests, OverBudget(f) \/ RoundTripFails(f) \/ BodyRejected(f)
       PROVE  Shaped'
  <2>1. PICK x \in Results : GoesOn(f, "done", x) /\ x # Empty
    BY <1>11, CallSteps, FailureFacts
  <2>2. timing' \in [Requests -> 0 .. 1]
    BY <1>11 DEF OverBudget, RoundTripFails, BodyRejected, Record, Shaped, TypeOK
  <2>3. TypeOK'
    BY <1>11, <2>1, <2>2
    DEF OverBudget, RoundTripFails, BodyRejected, Shaped, TypeOK, GoesOn, Calls
  <2>4. \A r \in Requests : r # f => timing'[r] = timing[r]
    BY <1>11 DEF OverBudget, RoundTripFails, BodyRejected, Record, Shaped, TypeOK
  <2> QED
    BY <1>11, <2>1, <2>3, <2>4
    DEF OverBudget, RoundTripFails, BodyRejected, Shaped, Active, GoesOn
<1>12. ASSUME NEW f \in Requests, RoundTripSucceeds(f)
       PROVE  Shaped'
  <2>1. Answered(f) \in Values /\ GoesOn(f, "answered", Answered(f))
    BY <1>12, CallSteps
  <2>2. timing' \in [Requests -> 0 .. 1]
    BY <1>12 DEF RoundTripSucceeds, Record, Shaped, TypeOK
  <2>3. TypeOK'
    BY <1>12, <2>1, <2>2 DEF RoundTripSucceeds, Shaped, TypeOK, GoesOn, Calls
  <2>4. \A r \in Requests : r # f => timing'[r] = timing[r]
    BY <1>12 DEF RoundTripSucceeds, Record, Shaped, TypeOK
  <2> QED
    BY <1>12, <2>1, <2>3, <2>4 DEF RoundTripSucceeds, Shaped, Active, GoesOn
<1>13. ASSUME NEW f \in Requests, StoreResult(f)
       PROVE  Shaped'
  <2>1. flight[f].result \in Values /\ GoesOn(f, "done", flight[f].result)
    BY <1>13, CallSteps
  <2>2. CallKey(f) \in Keys /\ flight[f].result # Empty
    BY <1>13, <2>1, QueryFacts, ValueFacts DEF StoreResult, Shaped, Active, CallKey
  <2>3. DOMAIN cached' \subseteq Keys /\ cached' \in [DOMAIN cached' -> Values]
    BY <1>13, <2>1, <2>2 DEF StoreResult, Shaped, TypeOK
  <2>4. TypeOK'
    BY <1>13, <2>1, <2>3 DEF StoreResult, Shaped, TypeOK, GoesOn, Calls
  <2> QED
    BY <1>13, <2>1, <2>2, <2>4 DEF StoreResult, Shaped, Active, GoesOn
<1>14. ASSUME NEW f \in Requests, Deliver(f)
       PROVE  Shaped'
  <2>1. NoCall \in [at : {"none", "admitting", "calling", "answered", "done"},
                    query : Queries \cup {NoQuery}, result : Results \cup {Empty}]
    BY DEF NoCall
  <2>2. TypeOK'
    BY <1>14, <2>1 DEF Deliver, Shaped, TypeOK
  <2> QED
    BY <1>14, <2>2 DEF Deliver, Shaped, TypeOK, Active, NoCall
<1>15. ASSUME NEW k \in Keys, CacheForgets(k) \/ UpstreamChanges(k)
       PROVE  Shaped'
  BY <1>15, MaxVersionAssumption DEF CacheForgets, UpstreamChanges, Shaped, TypeOK, Active
<1>16. CASE TokenEarned
  BY <1>16, GeocodeBurstAssumption DEF TokenEarned, Shaped, TypeOK, Active
<1>17. CASE UNCHANGED vars
  BY <1>17 DEF vars, Shaped, TypeOK, Active
<1> QED
  BY <1>1, <1>2, <1>3, <1>4, <1>5, <1>6, <1>7, <1>8, <1>9, <1>10, <1>11, <1>12,
     <1>13, <1>14, <1>15, <1>16, <1>17
  DEF Next, RequestStep, CallStep

-----------------------------------------------------------------------------
\* Grouped.

\* Grouped holds at the beginning.
LEMMA InitGrouped == Init => Grouped
  BY ResultFacts DEF Init, Grouped, NoCall, Active

\* A request that is answered and leads no call, or is cancelled, leaves the group
\* as it is.
LEMMA AnswerGrouped ==
    ASSUME Shaped, Grouped, NEW r \in Requests, NEW result \in Results,
           Answer(r, result), r \notin cancelled => ~Active(r)
    PROVE  Grouped'
  BY ResultFacts DEF Answer, Grouped, Shaped, TypeOK, Active, CallKey, KeyOf

\* Grouped is kept by every step.
LEMMA NextGrouped == Shaped /\ Grouped /\ [Next]_vars => Grouped'
<1> SUFFICES ASSUME Shaped, Grouped, [Next]_vars
             PROVE  Grouped'
  OBVIOUS
<1> USE DEF requestVars, callVars, historyVars, world, CallKey, KeyOf
<1>1. ASSUME NEW r \in Requests, NEW q \in Queries, Begin(r, q)
      PROVE  Grouped'
  BY <1>1 DEF Begin, Grouped, Shaped, TypeOK, Active
<1>2. ASSUME NEW r \in Requests, Cancel(r)
      PROVE  Grouped'
  BY <1>2 DEF Cancel, Grouped, Active
<1>3. ASSUME NEW r \in Requests, CacheHit(r)
      PROVE  Grouped'
  BY <1>3, AnswerGrouped, ResultFacts DEF CacheHit, Shaped, TypeOK
<1>4. ASSUME NEW r \in Requests, CacheMiss(r)
      PROVE  Grouped'
  BY <1>4 DEF CacheMiss, Grouped, Shaped, TypeOK, Active
<1>5. ASSUME NEW r \in Requests, JoinFlight(r)
      PROVE  Grouped'
  BY <1>5 DEF JoinFlight, Grouped, Shaped, TypeOK, Active
<1>6. ASSUME NEW r \in Requests, StartFlight(r)
      PROVE  Grouped'
  BY <1>6, ResultFacts DEF StartFlight, FirstStep, Grouped, Shaped, TypeOK, Active
<1>7. ASSUME NEW r \in Requests, Receive(r)
      PROVE  Grouped'
  BY <1>7, AnswerGrouped DEF Receive, Grouped, Shaped, TypeOK
<1>8. ASSUME NEW r \in Requests, ContextDone(r)
      PROVE  Grouped'
  BY <1>8, AnswerGrouped, FailureFacts DEF ContextDone
<1>9. ASSUME NEW r \in Requests, Log(r)
      PROVE  Grouped'
  BY <1>9 DEF Log, Grouped, Shaped, TypeOK, Active
<1>10. ASSUME NEW f \in Requests,
              \/ Admit(f) \/ OverBudget(f) \/ RoundTripFails(f) \/ BodyRejected(f)
              \/ RoundTripSucceeds(f) \/ StoreResult(f)
       PROVE  Grouped'
  <2>1. Active(f) /\ UNCHANGED <<group, chan, joined, phase, query, cancelled>>
    BY <1>10 DEF Admit, OverBudget, RoundTripFails, BodyRejected, RoundTripSucceeds,
                 StoreResult, Active
  <2>2. PICK a \in {"calling", "answered", "done"}, x \in Results \cup {Empty} :
            GoesOn(f, a, x) /\ x # Failure("context")
    BY <1>10, CallSteps, FailureFacts, ResultFacts, ValueFacts
  <2>3. /\ \A g \in Requests : Active(g)' <=> Active(g)
        /\ \A g \in Requests : cacheKey(flight'[g].query) = cacheKey(flight[g].query)
    BY <2>1, <2>2, SameCalls
  <2>4. \A g \in Requests : flight'[g].result # Failure("context")
    BY <2>2 DEF Grouped, GoesOn
  <2>5. \A k \in DOMAIN group : group[k] \in Requests
    BY DEF Shaped, TypeOK
  <2> HIDE DEF CallKey
  <2>6. \A g \in Requests : CallKey(g)' = CallKey(g)
    BY <2>3 DEF CallKey
  <2> QED
    BY <2>1, <2>3, <2>4, <2>5, <2>6 DEF Grouped
<1>11. ASSUME NEW f \in Requests, Deliver(f)
       PROVE  Grouped'
  BY <1>11, ResultFacts DEF Deliver, Grouped, Shaped, TypeOK, Active, NoCall
<1>12. ASSUME NEW k \in Keys, CacheForgets(k) \/ UpstreamChanges(k)
       PROVE  Grouped'
  BY <1>12 DEF CacheForgets, UpstreamChanges, Grouped, Active
<1>13. CASE TokenEarned
  BY <1>13 DEF TokenEarned, Grouped, Active
<1>14. CASE UNCHANGED vars
  BY <1>14 DEF vars, Grouped, Active
<1> QED
  BY <1>1, <1>2, <1>3, <1>4, <1>5, <1>6, <1>7, <1>8, <1>9, <1>10, <1>11, <1>12,
     <1>13, <1>14
  DEF Next, RequestStep, CallStep

-----------------------------------------------------------------------------
\* Matching.

\* Matching holds at the beginning.
LEMMA InitMatching == Init => Matching
  BY ResultFacts DEF Init, Matching, NoCall

\* An answer about the key it is asked for keeps Matching.
LEMMA AnswerMatching ==
    ASSUME Shaped, Matching, NEW r \in Requests, NEW result \in Results,
           result.kind = "value" => cacheKey(result.about) = KeyOf(r),
           Answer(r, result)
    PROVE  Matching'
  BY ResultFacts DEF Answer, Matching, Shaped, TypeOK, CallKey, KeyOf

\* Matching is kept by every step.
LEMMA NextMatching == Shaped /\ Grouped /\ Matching /\ [Next]_vars => Matching'
<1> SUFFICES ASSUME Shaped, Grouped, Matching, [Next]_vars
             PROVE  Matching'
  OBVIOUS
<1> USE DEF requestVars, callVars, historyVars, world
<1>1. ASSUME NEW r \in Requests, NEW q \in Queries, Begin(r, q)
      PROVE  Matching'
  BY <1>1, ResultFacts DEF Begin, Matching, Shaped, TypeOK, CallKey, KeyOf
<1>2. ASSUME NEW r \in Requests,
             Cancel(r) \/ CacheMiss(r) \/ JoinFlight(r)
      PROVE  Matching'
  BY <1>2 DEF Cancel, CacheMiss, JoinFlight, Matching, CallKey, KeyOf
<1>3. ASSUME NEW r \in Requests, CacheHit(r)
      PROVE  Matching'
  BY <1>3, AnswerMatching, ResultFacts DEF CacheHit, Matching, Shaped, TypeOK
<1>4. ASSUME NEW r \in Requests, StartFlight(r)
      PROVE  Matching'
  <2>1. /\ flight'[r].result = Empty
        /\ \A g \in Requests : g # r => flight'[g] = flight[g]
    BY <1>4 DEF StartFlight, Shaped, TypeOK
  <2> QED
    BY <1>4, <2>1, ResultFacts DEF StartFlight, Matching, CallKey, KeyOf
<1>5. ASSUME NEW r \in Requests, Receive(r)
      PROVE  Matching'
  BY <1>5, AnswerMatching DEF Receive, Matching, Shaped, TypeOK
<1>6. ASSUME NEW r \in Requests, ContextDone(r)
      PROVE  Matching'
  BY <1>6, AnswerMatching, FailureFacts DEF ContextDone
<1>7. ASSUME NEW r \in Requests, Log(r)
      PROVE  Matching'
  BY <1>7, ResultFacts DEF Log, Matching, Shaped, TypeOK, CallKey, KeyOf
<1>8. ASSUME NEW f \in Requests,
             \/ Admit(f) \/ OverBudget(f) \/ RoundTripFails(f) \/ BodyRejected(f)
             \/ RoundTripSucceeds(f) \/ StoreResult(f)
      PROVE  Matching'
  <2>1. Active(f) /\ UNCHANGED <<chan, reply, query>>
    BY <1>8 DEF Admit, OverBudget, RoundTripFails, BodyRejected, RoundTripSucceeds,
                StoreResult, Active
  <2>2. PICK a \in {"calling", "answered", "done"}, x \in Results \cup {Empty} :
            /\ GoesOn(f, a, x)
            /\ x.kind = "value" => cacheKey(x.about) = CallKey(f)
    <3>1. RoundTripSucceeds(f) => cacheKey(Answered(f).about) = CallKey(f)
      BY SuccessFacts, QueryFacts
      DEF RoundTripSucceeds, Answered, Shaped, TypeOK, Active, CallKey
    <3> QED
      BY <1>8, <3>1, CallSteps, FailureFacts, ResultFacts DEF Matching
  <2>3. \A g \in Requests : CallKey(g)' = CallKey(g)
    BY <2>1, <2>2, SameCalls
  <2>4. \A g \in Requests : flight'[g].result.kind = "value" =>
            cacheKey(flight'[g].result.about) = CallKey(g)
    BY <2>2 DEF GoesOn, Matching
  <2>5. \A k \in DOMAIN cached' : cacheKey(cached'[k].about) = k
    <3>1. CASE StoreResult(f)
      BY <3>1, CallSteps, ValueFacts DEF StoreResult, Matching
    <3>2. CASE ~StoreResult(f)
      BY <1>8, <3>2 DEF Admit, OverBudget, RoundTripFails, BodyRejected,
                        RoundTripSucceeds, Matching
    <3> QED
      BY <3>1, <3>2
  <2> QED
    BY <2>1, <2>3, <2>4, <2>5 DEF Matching, KeyOf
<1>9. ASSUME NEW f \in Requests, Deliver(f)
      PROVE  Matching'
  <2>1. \A g \in Requests : flight'[g] = IF g = f THEN NoCall ELSE flight[g]
    BY <1>9 DEF Deliver, Shaped, TypeOK
  <2>2. \A r \in Requests : chan'[r] \in {chan[r], flight[f].result}
            /\ (chan'[r] # chan[r] => f \in joined[r])
    BY <1>9 DEF Deliver
  <2>3. \A r \in Requests : f \in joined[r] => KeyOf(r) = CallKey(f)
    BY DEF Grouped
  <2> QED
    BY <1>9, <2>1, <2>2, <2>3, ResultFacts DEF Deliver, NoCall, Matching, CallKey, KeyOf
<1>10. ASSUME NEW k \in Keys, CacheForgets(k) \/ UpstreamChanges(k)
       PROVE  Matching'
  BY <1>10 DEF CacheForgets, UpstreamChanges, Matching, CallKey, KeyOf
<1>11. CASE TokenEarned
  BY <1>11 DEF TokenEarned, Matching, CallKey, KeyOf
<1>12. CASE UNCHANGED vars
  BY <1>12 DEF vars, Matching, CallKey, KeyOf
<1> QED
  BY <1>1, <1>2, <1>3, <1>4, <1>5, <1>6, <1>7, <1>8, <1>9, <1>10, <1>11, <1>12
  DEF Next, RequestStep, CallStep

-----------------------------------------------------------------------------
\* Private.

\* CancellationIsPrivate is kept by every step.
LEMMA NextPrivate == Shaped /\ Grouped /\ Private /\ [Next]_vars => Private'
<1> SUFFICES ASSUME Shaped, Grouped, Private, [Next]_vars
             PROVE  Private'
  OBVIOUS
<1> USE DEF requestVars, callVars, historyVars, world, Private, CancellationIsPrivate
<1>1. ASSUME NEW r \in Requests, NEW q \in Queries, Begin(r, q)
      PROVE  Private'
  BY <1>1, ResultFacts DEF Begin, Shaped, TypeOK
<1>2. ASSUME NEW r \in Requests,
             Cancel(r) \/ CacheMiss(r) \/ JoinFlight(r) \/ StartFlight(r)
      PROVE  Private'
  BY <1>2 DEF Cancel, CacheMiss, JoinFlight, StartFlight, Shaped, TypeOK
<1>3. ASSUME NEW r \in Requests, NEW result \in Results, Answer(r, result),
             result = Failure("context") => r \in cancelled
      PROVE  Private'
  BY <1>3 DEF Answer, Shaped, TypeOK
<1>4. ASSUME NEW r \in Requests, CacheHit(r)
      PROVE  Private'
  BY <1>3, <1>4, ValueFacts, ResultFacts DEF CacheHit, Shaped, TypeOK
<1>5. ASSUME NEW r \in Requests, Receive(r)
      PROVE  Private'
  BY <1>3, <1>5 DEF Receive, Grouped, Shaped, TypeOK
<1>6. ASSUME NEW r \in Requests, ContextDone(r)
      PROVE  Private'
  BY <1>3, <1>6, FailureFacts DEF ContextDone
<1>7. ASSUME NEW r \in Requests, Log(r)
      PROVE  Private'
  BY <1>7, ResultFacts DEF Log, Shaped, TypeOK
\* The round trip of a call is recorded on its leader, who waits for it.
<1>8. ASSUME NEW f \in Requests, CallStep(f)
      PROVE  Private'
  <2>1. UNCHANGED <<cancelled, reply, phase>>
    BY <1>8 DEF CallStep, Admit, OverBudget, RoundTripFails, BodyRejected,
                RoundTripSucceeds, StoreResult, Deliver
  <2>2. \A r \in Requests : timing'[r] # timing[r] => r = f /\ Active(r)
    BY <1>8 DEF CallStep, Admit, OverBudget, RoundTripFails, BodyRejected, Active,
                RoundTripSucceeds, StoreResult, Deliver, Record, Shaped, TypeOK
  <2> QED
    BY <2>1, <2>2 DEF Grouped
<1>9. ASSUME NEW k \in Keys, CacheForgets(k) \/ UpstreamChanges(k)
      PROVE  Private'
  BY <1>9 DEF CacheForgets, UpstreamChanges
<1>10. CASE TokenEarned \/ UNCHANGED vars
  BY <1>10 DEF TokenEarned, vars
<1> QED
  BY <1>1, <1>2, <1>4, <1>5, <1>6, <1>7, <1>8, <1>9, <1>10
  DEF Next, RequestStep

-----------------------------------------------------------------------------
\* Fresh.

\* Versions are natural numbers, and keys are keys.
LEMMA VersionFacts ==
    ASSUME Shaped
    PROVE  /\ \A k \in Keys : newest[k] \in Nat /\ version[k] \in Nat
           /\ \A k \in DOMAIN cached : k \in Keys /\ cached[k].version \in Nat
           /\ \A r \in Requests :
                 /\ floor[r] \in Nat
                 /\ chan[r].kind = "value" => chan[r].version \in Nat
                 /\ flight[r].result.kind = "value" =>
                      /\ flight[r].result.version \in Nat
                      /\ CallKey(r) \in Keys
                      /\ Active(r)
<1>1. \A v \in Values : v.version \in Nat
  BY ValueFacts, MaxVersionAssumption
<1>2. \A r \in Requests : flight[r].result.kind = "value" =>
          Active(r) /\ CallKey(r) \in Keys
  BY QueryFacts, ResultFacts DEF Shaped, Active, CallKey
<1>3. \A r \in Requests :
          /\ chan[r].kind = "value" => chan[r].version \in Nat
          /\ flight[r].result.kind = "value" => flight[r].result.version \in Nat
  BY <1>1, ResultFacts DEF Shaped, TypeOK
<1> QED
  BY <1>1, <1>2, <1>3, MaxVersionAssumption DEF Shaped, TypeOK

\* What is at least as new as everything given out for its key stays so.
Kept ==
    \A w \in Nat, k \in Keys : AtLeast(w, k) =>
        /\ newest'[k] <= w
        /\ k \in DOMAIN cached' => cached'[k].version <= w
        /\ \A r \in Requests :
              chan'[r].kind = "value" /\ KeyOf(r)' = k => chan'[r].version <= w

\* The half of Fresh that is about requests.
Floors ==
    \A r \in Requests :
        /\ phase[r] # "idle" => floor[r] <= newest[KeyOf(r)]
        /\ chan[r].kind = "value" => floor[r] <= chan[r].version
        /\ reply[r].kind = "value" => floor[r] <= reply[r].version

\* A step that gives out nothing new leaves the order as it is, whatever calls
\* it ends and whatever the cache forgets.
LEMMA OrderKept ==
    ASSUME Shaped, Fresh, Kept, Floors',
           \A k \in Keys : version'[k] \in Nat /\ version[k] <= version'[k],
           DOMAIN cached' \subseteq DOMAIN cached,
           \A k \in DOMAIN cached' : cached'[k] = cached[k],
           \A f \in Requests : flight'[f].result.kind = "value" =>
               \/ flight'[f] = flight[f]
               \/ /\ flight'[f].query = flight[f].query
                  /\ flight'[f].at # "done"
                  /\ CallKey(f) \in Keys
                  /\ flight'[f].result.version = version'[CallKey(f)]
    PROVE  Fresh'
<1>1. \A k \in Keys : AtLeast(version[k], k) /\ AtLeast(version'[k], k)
  BY VersionFacts DEF Fresh, AtLeast
<1>2. \A k \in Keys : AtLeast(version[k], k)'
  BY <1>1 DEF Kept, AtLeast
<1>3. \A k \in DOMAIN cached' : AtLeast(cached[k].version, k)'
  <2> SUFFICES ASSUME NEW k \in DOMAIN cached'
               PROVE  AtLeast(cached[k].version, k)'
    OBVIOUS
  <2>1. k \in DOMAIN cached /\ k \in Keys /\ cached[k].version \in Nat
    BY VersionFacts
  <2>2. AtLeast(cached[k].version, k) /\ cached'[k] = cached[k]
    BY <2>1 DEF Fresh
  <2> QED
    BY <2>1, <2>2 DEF Kept, AtLeast
<1>4. ASSUME NEW f \in Requests, (flight[f].result.kind = "value")'
      PROVE  /\ AtLeast(flight[f].result.version, CallKey(f))'
             /\ (flight[f].result.version <= version[CallKey(f)])'
             /\ (flight[f].at = "done" /\ CallKey(f) \in DOMAIN cached =>
                    flight[f].result.version <= cached[CallKey(f)].version)'
  <2>1. CASE flight'[f] = flight[f]
    <3>1. /\ flight[f].result.kind = "value" /\ CallKey(f)' = CallKey(f)
          /\ CallKey(f) \in Keys /\ flight[f].result.version \in Nat
          /\ version[CallKey(f)] \in Nat
      BY <1>4, <2>1, VersionFacts DEF CallKey
    <3>2. /\ AtLeast(flight[f].result.version, CallKey(f))
          /\ flight[f].result.version <= version[CallKey(f)]
          /\ flight[f].at = "done" /\ CallKey(f) \in DOMAIN cached =>
                flight[f].result.version <= cached[CallKey(f)].version
      BY <3>1 DEF Fresh
    <3> QED
      BY <2>1, <3>1, <3>2 DEF Kept, AtLeast
  <2>2. CASE flight'[f] # flight[f]
    <3>1. /\ CallKey(f)' = CallKey(f) /\ CallKey(f) \in Keys
          /\ flight'[f].at # "done"
          /\ flight'[f].result.version = version'[CallKey(f)]
      BY <1>4, <2>2 DEF CallKey
    <3> QED
      BY <1>2, <3>1 DEF AtLeast
  <2> QED
    BY <2>1, <2>2
<1> QED
  BY <1>2, <1>3, <1>4 DEF Fresh, Floors, CallKey

\* Fresh holds at the beginning.
LEMMA InitFresh == Init => Fresh
  BY ResultFacts DEF Init, Fresh, AtLeast, NoCall

\* An answer is given only from the cache or from a channel, and all that is as
\* new as what they hold has been taken into account.
LEMMA AnswerFresh ==
    ASSUME Shaped, Fresh, NEW r \in Requests, NEW result \in Results,
           phase[r] \in {"begun", "waiting"}, Answer(r, result),
           result.kind = "value" =>
               /\ floor[r] <= result.version
               /\ \A w \in Nat : AtLeast(w, KeyOf(r)) => result.version <= w
    PROVE  Fresh'
<1> USE DEF world
<1>1. KeyOf(r) \in Keys /\ phase'[r] # "idle" /\ KeyOf(r)' = KeyOf(r)
  BY QueryFacts DEF Shaped, TypeOK, KeyOf, Answer
<1>2. \A k \in Keys : newest'[k] =
          IF result.kind = "value" /\ k = KeyOf(r)
          THEN Later(newest[k], result.version) ELSE newest[k]
  BY <1>1 DEF Answer, Shaped, TypeOK
<1>3. result.kind = "value" => result.version \in Nat
  BY ResultFacts, ValueFacts, MaxVersionAssumption
<1>4. \A k \in Keys : newest[k] \in Nat /\ newest'[k] \in Nat /\ newest[k] <= newest'[k]
  BY <1>2, <1>3, VersionFacts DEF Later
<1>5. \A q \in Requests : KeyOf(q)' = KeyOf(q) /\ chan'[q] \in {chan[q], Empty}
  BY DEF Answer, KeyOf, Shaped, TypeOK
<1>6. Kept
  <2> SUFFICES ASSUME NEW w \in Nat, NEW k \in Keys, AtLeast(w, k)
               PROVE  /\ newest'[k] <= w
                      /\ k \in DOMAIN cached' => cached'[k].version <= w
                      /\ \A q \in Requests :
                            chan'[q].kind = "value" /\ KeyOf(q)' = k =>
                                chan'[q].version <= w
    BY DEF Kept
  <2>1. newest'[k] <= w
    BY <1>2, <1>3 DEF AtLeast, Later
  <2> QED
    BY <1>5, <2>1, ResultFacts DEF AtLeast, Answer
<1>7. Floors'
  <2>1. \A q \in Requests : phase'[q] # "idle" => floor'[q] <= newest'[KeyOf(q)]
    <3> SUFFICES ASSUME NEW q \in Requests, phase'[q] # "idle"
                 PROVE  floor'[q] <= newest'[KeyOf(q)]
      OBVIOUS
    <3>1. phase[q] # "idle" /\ floor'[q] = floor[q] /\ floor[q] \in Nat
      BY VersionFacts DEF Answer, Shaped, TypeOK
    <3>2. KeyOf(q) \in Keys /\ floor[q] <= newest[KeyOf(q)]
      BY <3>1, QueryFacts DEF Fresh, Shaped, KeyOf
    <3> QED
      BY <1>4, <3>1, <3>2
  <2>2. \A q \in Requests : chan'[q].kind = "value" => floor'[q] <= chan'[q].version
    BY <1>5, ResultFacts DEF Answer, Fresh
  <2>3. \A q \in Requests : reply'[q].kind = "value" => floor'[q] <= reply'[q].version
    BY DEF Answer, Fresh, Shaped, TypeOK
  <2> QED
    BY <1>5, <2>1, <2>2, <2>3 DEF Floors
<1> QED
  BY <1>6, <1>7, OrderKept, VersionFacts DEF Answer

\* The two steps that put a result within reach of requests: into the cache, or
\* into channels.  Its call is the only one for its key.
LEMMA OrderExtended ==
    ASSUME Shaped, Grouped, Fresh, NEW f \in Requests, flight[f].at # "none",
           NEW x, x = flight[f].result, UNCHANGED <<version, newest, query>>,
           \A w \in Nat, k \in Keys :
               AtLeast(w, k) /\ (k = CallKey(f) /\ x.kind = "value" => x.version <= w)
                   => AtLeast(w, k)',
           \A k \in DOMAIN cached' :
               \/ k \in DOMAIN cached /\ cached'[k] = cached[k]
                  /\ (k = CallKey(f) /\ x.kind = "value" => x.version <= cached[k].version)
               \/ k = CallKey(f) /\ x.kind = "value" /\ cached'[k] = x,
           \A g \in Requests : g # f => flight'[g] = flight[g],
           (flight[f].result.kind = "value")' =>
               /\ (flight[f].result = x)' /\ CallKey(f)' = CallKey(f)
               /\ (CallKey(f) \in DOMAIN cached /\ cached[CallKey(f)] = x)',
           Floors'
    PROVE  Fresh'
<1> USE DEF Shaped
<1>1. x.kind = "value" =>
          /\ x.version \in Nat /\ CallKey(f) \in Keys
          /\ AtLeast(x.version, CallKey(f)) /\ x.version <= version[CallKey(f)]
  BY VersionFacts DEF Fresh
<1>2. \A k \in Keys : AtLeast(version[k], k)'
  BY <1>1, VersionFacts DEF Fresh
<1>3. ASSUME NEW k \in DOMAIN cached'
      PROVE  AtLeast(cached[k].version, k)'
  <2>1. CASE /\ k \in DOMAIN cached /\ cached'[k] = cached[k]
             /\ k = CallKey(f) /\ x.kind = "value" => x.version <= cached[k].version
    <3>1. /\ k \in Keys /\ cached[k].version \in Nat
          /\ AtLeast(cached[k].version, k)
      BY <2>1, VersionFacts DEF Fresh
    <3>2. \A w \in Nat : w = cached[k].version => AtLeast(w, k)'
      BY <2>1, <3>1
    <3> QED
      BY <2>1, <3>1, <3>2 DEF AtLeast
  <2>2. CASE k = CallKey(f) /\ x.kind = "value" /\ cached'[k] = x
    <3>1. \A w \in Nat : w = x.version => AtLeast(w, k)'
      BY <1>1, <2>2
    <3> QED
      BY <1>1, <2>2, <3>1 DEF AtLeast
  <2> QED
    BY <2>1, <2>2
<1>4. ASSUME NEW g \in Requests, (flight[g].result.kind = "value")'
      PROVE  /\ AtLeast(flight[g].result.version, CallKey(g))'
             /\ (flight[g].result.version <= version[CallKey(g)])'
             /\ (flight[g].at = "done" /\ CallKey(g) \in DOMAIN cached =>
                    flight[g].result.version <= cached[CallKey(g)].version)'
  <2>1. CASE g = f
    <3>1. \A w \in Nat : w = x.version => AtLeast(w, CallKey(f))'
      BY <1>1, <1>4, <2>1
    <3> QED
      BY <1>1, <1>4, <2>1, <3>1 DEF AtLeast
  <2>2. CASE g # f
    <3>1. /\ flight'[g] = flight[g] /\ CallKey(g)' = CallKey(g)
          /\ flight[g].result.kind = "value"
      BY <1>4, <2>2 DEF CallKey
    <3>2. CallKey(g) \in Keys /\ CallKey(g) # CallKey(f)
      BY <2>2, <3>1, VersionFacts DEF Grouped, Active
    <3>3. /\ flight[g].result.version \in Nat
          /\ AtLeast(flight[g].result.version, CallKey(g))
          /\ flight[g].result.version <= version[CallKey(g)]
          /\ flight[g].at = "done" /\ CallKey(g) \in DOMAIN cached =>
                flight[g].result.version <= cached[CallKey(g)].version
      BY <3>1, VersionFacts DEF Fresh
    <3>4. \A w \in Nat : w = flight[g].result.version => AtLeast(w, CallKey(g))'
      BY <3>1, <3>2, <3>3
    <3> QED
      BY <3>1, <3>2, <3>3, <3>4 DEF AtLeast
  <2> QED
    BY <2>1, <2>2
<1> QED
  BY <1>2, <1>3, <1>4 DEF Fresh, Floors

\* A step that leaves requests and what they were given alone.
LEMMA SameGiven ==
    ASSUME Fresh, UNCHANGED <<newest, chan, query, floor, reply, phase>>
    PROVE  /\ Floors'
           /\ DOMAIN cached' \subseteq DOMAIN cached
                /\ (\A k \in DOMAIN cached' : cached'[k] = cached[k]) => Kept
<1>1. \A r \in Requests : KeyOf(r)' = KeyOf(r)
  BY DEF KeyOf
<1> QED
  BY <1>1 DEF Fresh, Floors, Kept, AtLeast

\* Fresh is kept by every step.
LEMMA NextFresh == Shaped /\ Grouped /\ Fresh /\ [Next]_vars => Fresh'
<1> SUFFICES ASSUME Shaped, Grouped, Fresh, [Next]_vars
             PROVE  Fresh'
  OBVIOUS
<1> USE DEF requestVars, callVars, historyVars, world
<1>1. ASSUME NEW r \in Requests, NEW q \in Queries, Begin(r, q)
      PROVE  Fresh'
  <2>1. \A g \in Requests : g # r => KeyOf(g)' = KeyOf(g)
    BY <1>1 DEF Begin, Shaped, TypeOK, KeyOf
  <2>2. chan[r] = Empty /\ reply[r] = Empty /\ KeyOf(r)' = cacheKey(q)
    BY <1>1 DEF Begin, Shaped, TypeOK, KeyOf
  <2>3. Kept
    BY <1>1, <2>1, <2>2, ResultFacts DEF Begin, Kept, AtLeast
  <2>4. Floors'
    <3>1. floor'[r] = newest'[cacheKey(q)] /\ newest'[cacheKey(q)] \in Nat
      BY <1>1, QueryFacts, VersionFacts DEF Begin, Shaped, TypeOK
    <3>2. \A g \in Requests : g # r => floor'[g] = floor[g] /\ phase'[g] = phase[g]
      BY <1>1 DEF Begin, Shaped, TypeOK
    <3> QED
      BY <1>1, <2>1, <2>2, <3>1, <3>2, ResultFacts DEF Begin, Floors, Fresh
  <2> QED
    BY <1>1, <2>3, <2>4, OrderKept, VersionFacts DEF Begin
<1>2. ASSUME NEW r \in Requests, Cancel(r)
      PROVE  Fresh'
  BY <1>2, SameGiven, OrderKept, VersionFacts DEF Cancel
<1>3. ASSUME NEW r \in Requests, CacheMiss(r) \/ JoinFlight(r) \/ StartFlight(r)
      PROVE  Fresh'
  <2>1. \A g \in Requests : KeyOf(g)' = KeyOf(g)
    BY <1>3 DEF CacheMiss, JoinFlight, StartFlight, KeyOf
  <2>2. \A g \in Requests : phase'[g] # "idle" => phase[g] # "idle"
    BY <1>3 DEF CacheMiss, JoinFlight, StartFlight, Shaped, TypeOK
  <2>3. Kept /\ Floors'
    BY <1>3, <2>1, <2>2 DEF CacheMiss, JoinFlight, StartFlight, Kept, AtLeast, Floors, Fresh
  <2>4. \A g \in Requests : flight'[g].result.kind = "value" => flight'[g] = flight[g]
    BY <1>3, ResultFacts DEF CacheMiss, JoinFlight, StartFlight, Shaped, TypeOK
  <2> QED
    BY <1>3, <2>3, <2>4, OrderKept, VersionFacts DEF CacheMiss, JoinFlight, StartFlight
<1>4. ASSUME NEW r \in Requests, CacheHit(r)
      PROVE  Fresh'
  <2> DEFINE k == KeyOf(r)
  <2>1. k \in DOMAIN cached /\ k \in Keys /\ cached[k] \in Results
    BY <1>4, ResultFacts DEF CacheHit, Shaped, TypeOK
  <2>2. AtLeast(cached[k].version, k) /\ floor[r] <= newest[k]
    BY <1>4, <2>1 DEF CacheHit, Fresh
  <2>3. floor[r] <= cached[k].version
    BY <2>1, <2>2, VersionFacts DEF AtLeast
  <2>4. \A w \in Nat : AtLeast(w, k) => cached[k].version <= w
    BY <2>1 DEF AtLeast
  <2> QED
    BY <1>4, <2>1, <2>3, <2>4, AnswerFresh DEF CacheHit
<1>5. ASSUME NEW r \in Requests, Receive(r)
      PROVE  Fresh'
  <2>1. chan[r] \in Results
    BY <1>5 DEF Receive, Shaped, TypeOK
  <2>2. chan[r].kind = "value" =>
            /\ floor[r] <= chan[r].version
            /\ \A w \in Nat : AtLeast(w, KeyOf(r)) => chan[r].version <= w
    BY DEF Fresh, AtLeast
  <2> QED
    BY <1>5, <2>1, <2>2, AnswerFresh DEF Receive
<1>6. ASSUME NEW r \in Requests, ContextDone(r)
      PROVE  Fresh'
  BY <1>6, AnswerFresh, FailureFacts DEF ContextDone
<1>7. ASSUME NEW r \in Requests, Log(r)
      PROVE  Fresh'
  <2>1. \A g \in Requests : g # r =>
            /\ KeyOf(g)' = KeyOf(g) /\ floor'[g] = floor[g]
            /\ reply'[g] = reply[g] /\ phase'[g] = phase[g]
    BY <1>7 DEF Log, Shaped, TypeOK, KeyOf
  <2>2. chan[r] = Empty /\ reply'[r] = Empty /\ phase'[r] = "idle"
    BY <1>7 DEF Log, Shaped, TypeOK
  <2>3. Kept
    BY <1>7, <2>1, <2>2, ResultFacts DEF Log, Kept, AtLeast
  <2>4. Floors'
    BY <1>7, <2>1, <2>2, ResultFacts DEF Log, Floors, Fresh
  <2> QED
    BY <1>7, <2>3, <2>4, OrderKept, VersionFacts DEF Log
<1>8. ASSUME NEW f \in Requests,
             \/ Admit(f) \/ OverBudget(f) \/ RoundTripFails(f) \/ BodyRejected(f)
             \/ RoundTripSucceeds(f)
      PROVE  Fresh'
  <2>1. UNCHANGED <<newest, chan, query, floor, reply, phase, cached, version>>
    BY <1>8 DEF Admit, OverBudget, RoundTripFails, BodyRejected, RoundTripSucceeds
  <2>2. \A g \in Requests : g # f => flight'[g] = flight[g]
    BY <1>8, CallSteps DEF GoesOn
  <2>3. flight'[f].result.kind = "value" =>
            /\ flight'[f].query = flight[f].query
            /\ flight'[f].at # "done"
            /\ CallKey(f) \in Keys
            /\ flight'[f].result.version = version'[CallKey(f)]
    <3>1. CASE RoundTripSucceeds(f)
      <4>1. /\ flight'[f].query = flight[f].query
            /\ flight'[f].at = "answered" /\ flight'[f].result = Answered(f)
        BY <3>1, CallSteps DEF GoesOn
      <4>2. flight[f].query \in Queries /\ CallKey(f) \in Keys
        BY <3>1, QueryFacts DEF RoundTripSucceeds, Shaped, Active, CallKey
      <4>3. Answered(f).version = version[CallKey(f)]
        BY <4>2, SuccessFacts DEF Answered, Shaped, TypeOK
      <4> QED
        BY <2>1, <4>1, <4>2, <4>3
    <3>2. CASE ~RoundTripSucceeds(f)
      BY <1>8, <3>2, CallSteps, FailureFacts, ResultFacts DEF GoesOn
    <3> QED
      BY <3>1, <3>2
  <2> QED
    BY <2>1, <2>2, <2>3, SameGiven, OrderKept, VersionFacts
<1>9. ASSUME NEW f \in Requests, StoreResult(f)
      PROVE  Fresh'
  <2> DEFINE x == flight[f].result
  <2>1. x \in Values /\ GoesOn(f, "done", x)
    BY <1>9, CallSteps
  <2>2. x.kind = "value" /\ CallKey(f)' = CallKey(f)
    BY <2>1, ValueFacts DEF GoesOn, CallKey
  <2>3. /\ DOMAIN cached' = DOMAIN cached \cup {CallKey(f)}
        /\ cached'[CallKey(f)] = x
        /\ \A k \in DOMAIN cached : k # CallKey(f) => cached'[k] = cached[k]
    BY <1>9 DEF StoreResult
  <2>4. UNCHANGED <<newest, chan, query, floor, reply, phase, version>>
    BY <1>9 DEF StoreResult
  <2>5. ASSUME NEW w \in Nat, NEW k \in Keys, AtLeast(w, k),
               k = CallKey(f) => x.version <= w
        PROVE  AtLeast(w, k)'
    BY <2>3, <2>4, <2>5 DEF AtLeast, KeyOf
  <2>6. flight[f].at # "none"
    BY <1>9 DEF StoreResult
  <2>7. /\ \A g \in Requests : g # f => flight'[g] = flight[g]
        /\ flight'[f].result = x
    BY <2>1 DEF GoesOn
  <2>8. Floors'
    BY <2>4, SameGiven
  <2> HIDE DEF x
  <2>9. x = flight[f].result
    BY DEF x
  <2> QED
    BY <2>2, <2>3, <2>4, <2>5, <2>6, <2>7, <2>8, <2>9, OrderExtended
<1>10. ASSUME NEW f \in Requests, Deliver(f)
       PROVE  Fresh'
  <2> DEFINE x == flight[f].result
  <2>1. /\ \A g \in Requests : g # f => flight'[g] = flight[g]
        /\ flight'[f] = NoCall
    BY <1>10 DEF Deliver, Shaped, TypeOK
  <2>2. UNCHANGED <<newest, cached, query, floor, reply, phase, version>>
    BY <1>10 DEF Deliver
  <2>3. \A r \in Requests :
            \/ chan'[r] = chan[r]
            \/ /\ chan'[r] = x /\ KeyOf(r) = CallKey(f) /\ phase[r] = "waiting"
    BY <1>10 DEF Deliver, Grouped, Shaped
  <2>4. \A r \in Requests : KeyOf(r)' = KeyOf(r)
    BY <2>2 DEF KeyOf
  <2>5. ASSUME NEW w \in Nat, NEW k \in Keys, AtLeast(w, k),
               k = CallKey(f) /\ x.kind = "value" => x.version <= w
        PROVE  AtLeast(w, k)'
    BY <2>2, <2>3, <2>4, <2>5 DEF AtLeast
  <2>6. \A k \in DOMAIN cached :
            k = CallKey(f) /\ x.kind = "value" => x.version <= cached[k].version
    BY <1>10 DEF Deliver, Fresh
  <2>7. Floors'
    <3>1. \A r \in Requests : chan'[r].kind = "value" => floor[r] <= chan'[r].version
      <4> SUFFICES ASSUME NEW r \in Requests, chan'[r].kind = "value"
                   PROVE  floor[r] <= chan'[r].version
        OBVIOUS
      <4>1. CASE chan'[r] = chan[r]
        BY <4>1 DEF Fresh
      <4>2. CASE chan'[r] = x /\ KeyOf(r) = CallKey(f) /\ phase[r] = "waiting"
        <5>1. floor[r] <= newest[CallKey(f)]
          BY <4>2 DEF Fresh
        <5>2. newest[CallKey(f)] <= x.version
          BY <4>2 DEF Fresh, AtLeast
        <5>3. CallKey(f) \in Keys /\ x.version \in Nat
          BY <4>2, VersionFacts
        <5> QED
          BY <4>2, <5>1, <5>2, <5>3, VersionFacts
      <4> QED
        BY <2>3, <4>1, <4>2
    <3> QED
      BY <2>2, <2>4, <3>1 DEF Floors, Fresh
  <2>8. flight'[f].result.kind # "value"
    BY <2>1, ResultFacts DEF NoCall
  <2>9. flight[f].at # "none"
    BY <1>10 DEF Deliver
  <2> HIDE DEF x
  <2>10. x = flight[f].result
    BY DEF x
  <2> QED
    BY <2>1, <2>2, <2>5, <2>6, <2>7, <2>8, <2>9, <2>10, OrderExtended
<1>11. ASSUME NEW j \in Keys, CacheForgets(j)
       PROVE  Fresh'
  BY <1>11, SameGiven, OrderKept, VersionFacts DEF CacheForgets
<1>12. ASSUME NEW j \in Keys, UpstreamChanges(j)
       PROVE  Fresh'
  <2>1. \A k \in Keys : version'[k] \in Nat /\ version[k] <= version'[k]
    BY <1>12, VersionFacts DEF UpstreamChanges, Shaped, TypeOK
  <2> QED
    BY <1>12, <2>1, SameGiven, OrderKept DEF UpstreamChanges
<1>13. CASE TokenEarned \/ UNCHANGED vars
  BY <1>13, SameGiven, OrderKept, VersionFacts DEF TokenEarned, vars
<1> QED
  BY <1>1, <1>2, <1>3, <1>4, <1>5, <1>6, <1>7, <1>8, <1>9, <1>10, <1>11, <1>12,
     <1>13
  DEF Next, RequestStep, CallStep

-----------------------------------------------------------------------------
\* The inductive invariant: the four layers, and privacy beside them.
THEOREM Invariant == Spec => []IInv
<1>1. Init => IInv
  BY InitShaped, InitGrouped, InitMatching, InitFresh, ResultFacts
  DEF IInv, Private, CancellationIsPrivate, Init
<1>2. IInv /\ [Next]_vars => IInv'
  BY NextShaped, NextGrouped, NextMatching, NextFresh, NextPrivate DEF IInv
<1> QED
  BY <1>1, <1>2, PTL DEF Spec

\* Requests, calls, caches and channels only ever hold what their fields are for.
THEOREM TypeCorrect == Spec => []TypeOK
  BY Invariant, PTL DEF IInv, Shaped

\* The clients never have two upstream calls in progress for one key, however
\* many handlers ask, cancel or come back while one is under way.
THEOREM CallsAreShared == Spec => []OneCallPerKey
<1>1. IInv => OneCallPerKey
  BY DEF IInv, Grouped, OneCallPerKey
<1> QED
  BY Invariant, <1>1, PTL

\* A handler is only ever given a station or place that answers its own query,
\* though cache, group and result are shared with others.
THEOREM AnswersMatch == Spec => []AnswerMatchesRequest
<1>1. IInv => AnswerMatchesRequest
  <2> SUFFICES ASSUME IInv, NEW r \in Requests, reply[r].kind = "value"
               PROVE  Serves(reply[r].about, query[r])
    BY DEF AnswerMatchesRequest
  <2>1. query[r] \in Queries
    BY ResultFacts DEF IInv, Shaped
  <2>2. reply[r].about \in Queries
    BY ResultFacts, ValueFacts DEF IInv, Shaped, TypeOK
  <2>3. cacheKey(reply[r].about) = cacheKey(query[r])
    BY DEF IInv, Matching, KeyOf
  <2> QED
    BY <2>1, <2>2, <2>3, SameKeyServes
<1> QED
  BY Invariant, <1>1, PTL

\* No handler is given data older than what some handler had been given for the
\* same key before it began.
THEOREM ReadsAreMonotone == Spec => []NoStepBack
<1>1. IInv => NoStepBack
  <2> SUFFICES ASSUME IInv, NEW r \in Requests, reply[r].kind = "value"
               PROVE  reply[r].version >= floor[r]
    BY DEF NoStepBack
  <2>1. reply[r].version \in Nat /\ floor[r] \in Nat
    BY ResultFacts, ValueFacts, MaxVersionAssumption DEF IInv, Shaped, TypeOK
  <2> QED
    BY <2>1 DEF IInv, Fresh
<1> QED
  BY Invariant, <1>1, PTL

\* A request whose context was not cancelled never fails because of one, and
\* leaves no round trip unreported.
THEOREM CancellationStaysPrivate == Spec => []CancellationIsPrivate
  BY Invariant, PTL DEF IInv, Private
=============================================================================
