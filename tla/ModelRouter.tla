------------------------------ MODULE ModelRouter ------------------------------
(***************************************************************************)
(* The router of language models (backend/app/agents/router.py, llm.py):   *)
(* refilling buckets per model, the capacity get_llm reserves on the model *)
(* it ranks first, the chain of fallbacks, and the callback that settles   *)
(* every attempt after the fact.                                           *)
(*                                                                         *)
(* Abstractions.  A model is in the order of its tier; within a tier any   *)
(* order is taken, where the code ranks providers and compares headroom.   *)
(* The settings do not change while the process runs (get_settings is      *)
(* cached), so configure never clears the buckets.  LiteLLM, external,     *)
(* calls the logger once for every attempt that ends, some time after it,  *)
(* and never for one that is given up (the turn that read the stream was   *)
(* stopped).                                                               *)
(***************************************************************************)
EXTENDS Integers, FiniteSets, FiniteSetsExt, SequencesExt

CONSTANTS
  Models,     \* llm_primary_model and llm_fallback_models
  Capacity,   \* the limits of each model: [Models -> [some of the buckets -> Nat]]
  Rate,       \* what a bucket gains in one tick, by its name
  Calls,      \* the calls of get_llm
  Estimates,  \* what estimate_tokens may answer
  Usages,     \* what an answer may really cost; Unknown when it does not say
  Unknown,
  Remaining,  \* what a rate-limit header may say
  Waits,      \* how long a model that failed rests, in ticks
  MaxTicks    \* bounds the passing of time

RequestBuckets == {"rpm", "rpd"}
TokenBuckets == {"tpm", "tpd"}
DailyBuckets == {"rpd", "tpd"}
Buckets(m) == DOMAIN Capacity[m]

ASSUME RouterAssumption ==
  /\ Models # {} /\ IsFiniteSet(Models) /\ MaxTicks \in Nat
  /\ \A m \in Models : /\ Buckets(m) \subseteq RequestBuckets \cup TokenBuckets
                       /\ \A b \in Buckets(m) : Capacity[m][b] \in Nat \ {0} /\ Rate[b] \in Nat
  /\ Estimates \subseteq Nat /\ Usages \subseteq Nat \cup {Unknown} /\ Unknown \notin Nat
  /\ Remaining \subseteq Nat /\ Waits \subseteq Nat

VARIABLES
  level,      \* _Bucket.level, brought up to date as time passes
  cooldown,   \* cooldown_until, in ticks from now
  chains,     \* the chains get_llm has built and how far each one is
  reports,    \* attempts that have ended and whose callback has not run
  settled,    \* attempts whose callback has run
  ticks

routerVars == <<level, cooldown, chains, reports, settled, ticks>>

NotCalled == [order |-> <<>>, tokens |-> 0, at |-> 0, active |-> FALSE]
Called == {c \in Calls : chains[c] # NotCalled}
Started == {c \in Calls : chains[c].active}

RouterInit ==
  /\ level = [m \in Models |-> [b \in Buckets(m) |-> Capacity[m][b]]]
  /\ cooldown = [m \in Models |-> 0]
  /\ chains = [c \in Calls |-> NotCalled]
  /\ reports = {} /\ settled = {} /\ ticks = 0

-----------------------------------------------------------------------------
(* Buckets *)

\* What one request and tokens cost bucket b.
Cost(b, tokens) == IF b \in RequestBuckets THEN 1 ELSE tokens

\* record: the level may become negative, a debt repaid by the refill.
Recorded(lev, m, tokens) ==
  [lev EXCEPT ![m] = [b \in Buckets(m) |-> @[b] - Cost(b, tokens)]]

\* adjust_tokens: a refund stops at the capacity.
Adjusted(lev, m, delta) ==
  [lev EXCEPT ![m] = [b \in Buckets(m) |->
     IF b \in RequestBuckets THEN @[b] ELSE Min({Capacity[m][b], @[b] - delta})]]

\* sync_from_headers: the requests header is about the day, the other about
\* the minute; a header that is missing changes nothing.
Synced(lev, m, headers) ==
  [lev EXCEPT ![m] = [b \in Buckets(m) |->
     IF b \in DOMAIN headers THEN Min({Capacity[m][b], headers[b]}) ELSE @[b]]]

Tick ==
  /\ ticks < MaxTicks
  /\ ticks' = ticks + 1
  /\ level' = [m \in Models |-> [b \in Buckets(m) |-> Min({Capacity[m][b], level[m][b] + Rate[b]})]]
  /\ cooldown' = [m \in Models |-> Max({0, cooldown[m] - 1})]
  /\ UNCHANGED <<chains, reports, settled>>

-----------------------------------------------------------------------------
(* A call *)

Waiting(m, tokens) == cooldown[m] > 0 \/ \E b \in Buckets(m) : level[m][b] < Cost(b, tokens)
\* The last tenth of a daily budget is a reserve.
InReserve(m) == \E b \in Buckets(m) \cap DailyBuckets : 10 * level[m][b] <= Capacity[m][b]

\* get_ordered_models: ready, in reserve, waiting; none is left out.
Tier(m, tokens) == IF Waiting(m, tokens) THEN 3 ELSE IF InReserve(m) THEN 2 ELSE 1
Orders(tokens) ==
  {o \in SetToSeqs(Models) : \A i, j \in DOMAIN o : i < j => Tier(o[i], tokens) <= Tier(o[j], tokens)}

\* get_llm ranks the models and reserves the estimate on the first.
GetLlm(c, tokens) ==
  /\ chains[c] = NotCalled
  /\ \E o \in Orders(tokens) :
       /\ chains' = [chains EXCEPT ![c] = [order |-> o, tokens |-> tokens, at |-> 1, active |-> TRUE]]
       /\ level' = Recorded(level, o[1], tokens)
  /\ UNCHANGED <<cooldown, reports, settled, ticks>>

Attempt(c) == [call |-> c, at |-> chains[c].at, served |-> FALSE, usage |-> Unknown, headers |-> <<>>]
\* The headers an answer to c may have, those without a bucket left aside.
SomeHeaders(c) ==
  UNION {[S -> Remaining] : S \in SUBSET (Buckets(chains[c].order[chains[c].at]) \cap {"rpd", "tpm"})}

Answered(c, usage, headers) ==
  /\ chains' = [chains EXCEPT ![c].active = FALSE]
  /\ reports' = reports \cup {[Attempt(c) EXCEPT !.served = TRUE, !.usage = usage, !.headers = headers]}
  /\ UNCHANGED <<level, cooldown, settled, ticks>>

\* with_fallbacks: the next model is tried, unless there is none or the
\* stream had begun.  Only a 429 brings headers.
Refused(c, headers, streaming) ==
  /\ reports' = reports \cup {[Attempt(c) EXCEPT !.headers = headers]}
  /\ chains' = IF streaming \/ chains[c].at = Len(chains[c].order)
                THEN [chains EXCEPT ![c].active = FALSE]
                ELSE [chains EXCEPT ![c].at = @ + 1]
  /\ UNCHANGED <<level, cooldown, settled, ticks>>

\* The turn is stopped while it reads the answer.
GivenUp(c) ==
  /\ chains' = [chains EXCEPT ![c].active = FALSE]
  /\ UNCHANGED <<level, cooldown, reports, settled, ticks>>

-----------------------------------------------------------------------------
(* RouterUsageLogger *)

Reserved(t) == t.at = 1
Of(t) == chains[t.call].order[t.at]
Known(usage) == IF usage = Unknown THEN 0 ELSE usage

LogSuccess(t) ==
  LET m == Of(t)
      billed == IF ~Reserved(t) THEN Recorded(level, m, Known(t.usage))
                ELSE IF t.usage = Unknown THEN level
                ELSE Adjusted(level, m, t.usage - chains[t.call].tokens) IN
  /\ level' = Synced(billed, m, t.headers)
  /\ UNCHANGED cooldown

\* A callback that refunds whichever model failed.
MLogFailure(t, wait) ==
  LET m == Of(t) IN
  /\ level' = Synced(Adjusted(level, m, -chains[t.call].tokens), m, t.headers)
  /\ cooldown' = [cooldown EXCEPT ![m] = Max({@, wait})]

\* The tokens come back to the model that had them reserved; a fallback has
\* had none.  The model rests for retry-after, ten or sixty seconds.
LogFailure(t, wait) ==
  LET m == Of(t)
      billed == IF Reserved(t) THEN Adjusted(level, m, -chains[t.call].tokens) ELSE Recorded(level, m, 0) IN
  /\ level' = Synced(billed, m, t.headers)
  /\ cooldown' = [cooldown EXCEPT ![m] = Max({@, wait})]

Log(t) ==
  /\ reports' = reports \ {t} /\ settled' = settled \cup {t}
  /\ IF t.served THEN LogSuccess(t) ELSE \E wait \in Waits : LogFailure(t, wait)
  /\ UNCHANGED <<chains, ticks>>

RouterNext ==
  \/ Tick
  \/ \E c \in Calls, tokens \in Estimates : GetLlm(c, tokens)
  \/ \E c \in Started : \E headers \in SomeHeaders(c) :
       \/ \E usage \in Usages : Answered(c, usage, headers)
       \/ \E streaming \in BOOLEAN : Refused(c, headers, streaming)
  \/ \E c \in Started : GivenUp(c)
  \/ \E t \in reports : Log(t)

RouterSpec == RouterInit /\ [][RouterNext]_routerVars

-----------------------------------------------------------------------------
(* Properties *)

\* What call c has cost model m, as far as the router knows: the estimate until
\* the attempt of the first model is settled (for ever, when the call was given
\* up or its answer tells no usage), then what was really used.
Owed(c, m) ==
  LET of == {t \in settled : t.call = c /\ Of(t) = m}
      estimate == IF chains[c].order[1] = m THEN chains[c].tokens ELSE 0
      final(t) == IF ~t.served THEN 0 ELSE IF t.usage = Unknown THEN estimate ELSE t.usage IN
  IF of = {} THEN estimate ELSE final(CHOOSE t \in of : TRUE)
\* One by one, the tokens that calls have cost model m.
OwedTokens(m) == UNION {{c} \X (1 .. Owed(c, m)) : c \in Called}

\* test_model_router.py:284 and docs/llm-model-router.md:80: in whatever order
\* calls run and callbacks arrive, no token of the day is lost and none is
\* invented.  What is missing is owed by some call or was repaid by the refill.
\* (The bucket of the minute has no such law: a header replaces its level, and
\* what other calls have reserved with it, and their refunds come on top.)
TokensAreAccounted ==
  \A m \in Models : "tpd" \in Buckets(m) =>
    LET due == Cardinality(OwedTokens(m))
        full == Capacity[m]["tpd"] IN
    /\ level[m]["tpd"] >= full - due
    /\ level[m]["tpd"] <= Min({full, full - due + ticks * Rate["tpd"]})
================================================================================
