----------------------------- MODULE Idempotency -----------------------------
(***************************************************************************)
(* The Idempotency-Key middleware of core-service and its two stores,      *)
(* PostgreSQL (a row that stays) and Redis (a key that expires).  Requests *)
(* that carry the same key are retries and double clicks of one client or  *)
(* of several; one of them runs the handler and the others get its answer. *)
(*                                                                         *)
(* CheckOrLock is two round trips, an atomic insert and, when that finds   *)
(* the key taken, a read; the handler and the saving of its answer come    *)
(* later still, and the request may break off before any of them.          *)
(***************************************************************************)
EXTENDS Naturals, FiniteSets

CONSTANTS
  Keys,         \* idempotency keys
  Requests,     \* requests that may be in flight at the same time
  NoKey,        \* "no key"
  Redis,        \* the store is Redis and keys expire
  MaxExpiries   \* bound on the expiries of one key

ASSUME IdempotencyAssumption ==
  /\ IsFiniteSet(Requests)
  /\ NoKey \notin Keys
  /\ Redis \in BOOLEAN
  /\ MaxExpiries \in Nat

VARIABLES
  record,    \* the stored record of each key
  request,   \* the requests in flight
  runs,      \* runs of the handler for each key
  answers,   \* answers clients got for each key
  expiries   \* expiries of each key so far

idempotencyVars == <<record, request, runs, answers, expiries>>

-----------------------------------------------------------------------------
(* A record is free (there is none), locked (response_status is 0: the     *)
(* handler has not answered) or the answer of a run, known by its number.  *)

Runs == 1 .. MaxExpiries + 1
Free == [status |-> "free", run |-> 0]
Locked == [status |-> "locked", run |-> 0]
Answer(n) == [status |-> "answered", run |-> n]

Stages == {"idle", "reading", "executing", "saving"}
Idle == [stage |-> "idle", key |-> NoKey]

\* Requests that may still run or have just run the handler for k.
Holders(k) == {r \in Requests :
  request[r].key = k /\ request[r].stage \in {"executing", "saving"}}

\* Types; while a handler runs for a key the key is locked, for it alone.
IdempotencyTypeOK ==
  /\ record \in [Keys -> {Free, Locked} \cup {Answer(n) : n \in Runs}]
  /\ request \in [Requests -> [stage : Stages, key : Keys \cup {NoKey}]]
  /\ runs \in [Keys -> Runs \cup {0}]
  /\ answers \in [Keys -> SUBSET ({Locked} \cup {Answer(n) : n \in Runs})]
  /\ expiries \in [Keys -> 0 .. MaxExpiries]
  /\ \A k \in Keys : Holders(k) # {} => record[k] = Locked /\ Cardinality(Holders(k)) = 1

IdempotencyInit ==
  /\ record = [k \in Keys |-> Free]
  /\ request = [r \in Requests |-> Idle]
  /\ runs = [k \in Keys |-> 0]
  /\ answers = [k \in Keys |-> {}]
  /\ expiries = [k \in Keys |-> 0]

-----------------------------------------------------------------------------
Goto(r, stage, k) == request' = [request EXCEPT ![r] = [stage |-> stage, key |-> k]]
End(r) == request' = [request EXCEPT ![r] = Idle]

\* INSERT ... ON CONFLICT DO NOTHING, or SET NX: one request gets the key.
CheckOrLock(r, k) ==
  /\ request[r] = Idle
  /\ IF record[k] = Free
       THEN record' = [record EXCEPT ![k] = Locked] /\ Goto(r, "executing", k)
       ELSE UNCHANGED record /\ Goto(r, "reading", k)
  /\ UNCHANGED <<runs, answers, expiries>>

\* Mutant: a record that has gone in the meantime lets the request pass.
ReplayOrPass(r) ==
  LET k == request[r].key IN
  /\ request[r].stage = "reading"
  /\ IF record[k] = Free THEN Goto(r, "executing", k) ELSE End(r)
  /\ UNCHANGED <<record, runs, answers, expiries>>

\* Mutant: a record without an answer is replayed like any other.
ReplayPlaceholder(r) ==
  LET k == request[r].key IN
  /\ request[r].stage = "reading"
  /\ answers' = IF record[k] # Free
                  THEN [answers EXCEPT ![k] = @ \cup {record[k]}] ELSE answers
  /\ End(r)
  /\ UNCHANGED <<record, runs, expiries>>

\* The key was taken: read the record.  A stored answer is replayed, a request
\* still in flight makes this one a 409, a record that has expired an error.
Replay(r) ==
  LET k == request[r].key IN
  /\ request[r].stage = "reading"
  /\ answers' = IF record[k] \notin {Free, Locked}
                  THEN [answers EXCEPT ![k] = @ \cup {record[k]}] ELSE answers
  /\ End(r)
  /\ UNCHANGED <<record, runs, expiries>>

\* The handler runs and its answer, success or error, goes to the client.
Execute(r) ==
  LET k == request[r].key IN
  /\ request[r].stage = "executing"
  /\ runs' = [runs EXCEPT ![k] = @ + 1]
  /\ answers' = [answers EXCEPT ![k] = @ \cup {Answer(runs[k] + 1)}]
  /\ Goto(r, "saving", k)
  /\ UNCHANGED <<record, expiries>>

SaveResponse(r) ==
  LET k == request[r].key IN
  /\ request[r].stage = "saving"
  /\ record' = [record EXCEPT ![k] = Answer(runs[k])]
  /\ End(r)
  /\ UNCHANGED <<runs, answers, expiries>>

\* Mutant: a request that breaks off gives the key back.
BreakOffAndUnlock(r) ==
  LET k == request[r].key IN
  /\ request[r].stage \in {"executing", "saving"}
  /\ record' = [record EXCEPT ![k] = Free]
  /\ End(r)
  /\ UNCHANGED <<runs, answers, expiries>>

\* The request breaks off: the handler panics, the process dies, or the answer
\* cannot be saved (the store fails, the client has hung up and taken the
\* request's context along), which is only logged.  The key stays locked.
BreakOff(r) ==
  /\ request[r].stage \in {"executing", "saving"}
  /\ End(r)
  /\ UNCHANGED <<record, runs, answers, expiries>>

\* Redis drops the key 24 hours after it was last written, longer than any
\* request holds it.
Expire(k) ==
  /\ Redis
  /\ record[k] # Free
  /\ Holders(k) = {}
  /\ expiries[k] < MaxExpiries
  /\ record' = [record EXCEPT ![k] = Free]
  /\ expiries' = [expiries EXCEPT ![k] = @ + 1]
  /\ UNCHANGED <<request, runs, answers>>

IdempotencyMiddleware(r) ==
  \/ \E k \in Keys : CheckOrLock(r, k)
  \/ Replay(r) \/ Execute(r) \/ SaveResponse(r) \/ BreakOff(r)

IdempotencyNext ==
  \/ \E r \in Requests : IdempotencyMiddleware(r)
  \/ \E k \in Keys : Expire(k)

IdempotencySpec == IdempotencyInit /\ [][IdempotencyNext]_idempotencyVars

-----------------------------------------------------------------------------
(* Safety.                                                                 *)

\* Whatever breaks off and whoever retries, a financial operation runs once per
\* key (INV-07 of DDD.md), and once more at most for each time Redis forgot it.
ExecutedOnce == \A k \in Keys : runs[k] <= 1 + expiries[k]

\* All who send a key get one and the same answer, the one its only run gave,
\* and nobody the empty answer of a run in flight.
OneAnswer ==
  \A k \in Keys : Locked \notin answers[k]
                    /\ (expiries[k] = 0 => Cardinality(answers[k]) <= 1)
=============================================================================
