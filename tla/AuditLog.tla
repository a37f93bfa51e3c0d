------------------------------ MODULE AuditLog -------------------------------
(***************************************************************************)
(* The on-chain audit log of core-service: the goroutine every release     *)
(* starts (audit_helper.go), the relayer it calls (relayer.go), the        *)
(* 6-hourly reconciler that closes the gaps it leaves                      *)
(* (audit_reconciler_worker.go) and the append-only log of                 *)
(* TransactionLogger.sol.                                                  *)
(*                                                                         *)
(* Between sending a transaction to the chain and storing its hash in the  *)
(* database anything may be lost: the request, the answer, the receipt,    *)
(* the database write, the process.  The broadcasts of one deal are        *)
(* numbered in nonce order, which is the order they are mined in.          *)
(***************************************************************************)
EXTENDS Naturals, FiniteSets, FiniteSetsExt, SequencesExt

CONSTANTS
  Txs,            \* transactions
  Contracts,      \* those paid out in parts, services contracts and events
  Goroutines,     \* audit goroutines that may run at the same time
  Reconciler,     \* the reconciler goroutine
  NoTx,           \* "no transaction"
  BatchSize,      \* gaps per cycle (20 in the code)
  RelayerWorks,   \* the contract accepts the relayer's calls: none reverts
  MaxMilestones,  \* bound on the parts of a contract paid out
  MaxBroadcasts,  \* bound on the broadcasts of one transaction
  MaxDrops,       \* bound on the broadcasts of one transaction the chain drops
  MaxRestarts     \* bound on process restarts

ASSUME AuditAssumption ==
  /\ IsFiniteSet(Txs) /\ Contracts \subseteq Txs /\ NoTx \notin Txs
  /\ Reconciler \notin Goroutines
  /\ BatchSize \in Nat \ {0}
  /\ RelayerWorks \in BOOLEAN
  /\ MaxMilestones \in Nat
  /\ MaxBroadcasts \in Nat /\ MaxDrops \in Nat /\ MaxRestarts \in Nat

VARIABLES
  milestones, \* parts of each contract paid out so far
  releases,  \* RELEASED transactions, by updated_at
  fresh,     \* released less than an hour ago
  hash,      \* transactions.blockchain_tx_hash: a broadcast, 0 for NULL
  chain,     \* what became of each broadcast
  early,     \* broadcasts mined before the range the reconciler scans
  thread,    \* the goroutines and the reconciler, each on one transaction
  queue,     \* gaps of the current cycle not looked at yet
  restarts   \* process restarts so far

database == <<milestones, releases, fresh, hash>>
auditVars == <<database, chain, early, thread, queue, restarts>>

-----------------------------------------------------------------------------
Threads == Goroutines \cup {Reconciler}
Numbers == 1 .. MaxBroadcasts
Outcomes == {"none", "pending", "logged", "reverted", "dropped"}
Stages == {"idle", "finding", "sending", "waiting", "persisting"}
Idle == [stage |-> "idle", tx |-> NoTx, number |-> 0]

Released == ToSet(releases)

\* Types; a transaction is released once and a cycle only holds released ones.
AuditTypeOK ==
  /\ milestones \in [Txs -> 0 .. MaxMilestones]
  /\ releases \in Seq(Txs) /\ IsInjective(releases)
  /\ fresh \subseteq Released
  /\ hash \in [Txs -> 0 .. MaxBroadcasts]
  /\ chain \in [Txs -> [Numbers -> Outcomes]]
  /\ early \in [Txs -> SUBSET Numbers]
  /\ thread \in [Threads -> [stage : Stages, tx : Txs \cup {NoTx}, number : 0 .. MaxBroadcasts]]
  /\ queue \in Seq(Released) /\ Len(queue) <= BatchSize
  /\ restarts \in 0 .. MaxRestarts

AuditInit ==
  /\ milestones = [t \in Txs |-> 0]
  /\ releases = <<>> /\ fresh = {}
  /\ hash = [t \in Txs |-> 0]
  /\ chain = [t \in Txs |-> [n \in Numbers |-> "none"]]
  /\ early = [t \in Txs |-> {}]
  /\ thread = [a \in Threads |-> Idle]
  /\ queue = <<>>
  /\ restarts = 0

-----------------------------------------------------------------------------
Broadcasts(t, what) == {n \in Numbers : chain[t][n] = what}
Sent(t) == Numbers \ Broadcasts(t, "none")
Mined(t) == Broadcasts(t, "logged") \cup Broadcasts(t, "reverted")

SetThread(a, stage, t, n) ==
  thread' = [thread EXCEPT ![a] = [stage |-> stage, tx |-> t, number |-> n]]
EndThread(a) == thread' = [thread EXCEPT ![a] = Idle]

-----------------------------------------------------------------------------
(* Deals reach RELEASED, and goroutines start.                             *)

\* No attempt on t is under way: its goroutines are gone and what they sent is
\* mined or forgotten.
Settled(t) ==
  /\ \A g \in Goroutines : thread[g].tx # t
  /\ Broadcasts(t, "pending") = {}

\* Mutant: a deal that is RELEASED can be released again.
ReleaseAgain(t, g, late) ==
  /\ late => Settled(t)
  /\ releases' = Append(releases, t)
  /\ fresh' = fresh \cup {t}
  /\ early' = [early EXCEPT ![t] = IF late THEN Mined(t) ELSE {}]
  /\ UNCHANGED <<milestones, hash, chain, thread, queue, restarts>>

\* The unit of work of a release has committed, and its goroutine starts unless
\* the process dies first or the deal was released by a dispute, which starts
\* none; a contract or an event may be released in one go too, by the route for
\* goods.  A contract has been paid out in parts before, maybe long before:
\* "since", the lower bound of the reconciler's scan, is two hours before the
\* release.
Release(t, g, late) ==
  /\ t \notin Released
  /\ late => Settled(t)
  /\ releases' = Append(releases, t)
  /\ fresh' = fresh \cup {t}
  /\ early' = [early EXCEPT ![t] = IF late THEN Mined(t) ELSE {}]
  /\ \/ UNCHANGED thread
     \/ thread[g] = Idle /\ SetThread(g, "sending", t, 0)
  /\ UNCHANGED <<milestones, hash, chain, queue, restarts>>

\* A milestone of a contract or a vendor of an event is paid: the goroutine logs
\* it under the id of the contract, whose status it neither reads nor changes:
\* a part may be paid after the contract is RELEASED.
ReleaseMilestone(t, g) ==
  /\ t \in Contracts
  /\ milestones[t] < MaxMilestones
  /\ thread[g] = Idle
  /\ milestones' = [milestones EXCEPT ![t] = @ + 1]
  /\ SetThread(g, "sending", t, 0)
  /\ UNCHANGED <<releases, fresh, hash, chain, early, queue, restarts>>

-----------------------------------------------------------------------------
(* LogTransactionOnChain and the database write that follows it.           *)

\* SendTransaction reaches a node; its answer may be lost on the way back.
Send(a, answered) ==
  LET t == thread[a].tx
      n == Cardinality(Sent(t)) + 1 IN
  /\ thread[a].stage = "sending"
  /\ n <= MaxBroadcasts
  /\ chain' = [chain EXCEPT ![t][n] = "pending"]
  /\ IF answered THEN SetThread(a, "waiting", t, n) ELSE EndThread(a)
  /\ UNCHANGED <<database, early, queue, restarts>>

\* Mutant: the hash is stored as soon as the transaction was sent.
ReceiptEarly(a) ==
  LET t == thread[a].tx
      n == thread[a].number IN
  /\ thread[a].stage = "waiting"
  /\ SetThread(a, "persisting", t, n)
  /\ UNCHANGED <<database, chain, early, queue, restarts>>

\* WaitMined returns the receipt, whose status nobody looks at.
Receipt(a) ==
  LET t == thread[a].tx
      n == thread[a].number IN
  /\ thread[a].stage = "waiting"
  /\ n \in Mined(t)
  /\ SetThread(a, "persisting", t, n)
  /\ UNCHANGED <<database, chain, early, queue, restarts>>

\* UpdateBlockchainLog.
Persist(a) ==
  /\ thread[a].stage = "persisting"
  /\ hash' = [hash EXCEPT ![thread[a].tx] = thread[a].number]
  /\ EndThread(a)
  /\ UNCHANGED <<milestones, releases, fresh, chain, early, queue, restarts>>

\* Wherever it is, the attempt ends in an error that is only logged: the lookup
\* or a call to the node fails before anything is sent, the receipt does not
\* come in time, the hash cannot be stored.
Fail(a) ==
  /\ thread[a].stage # "idle"
  /\ EndThread(a)
  /\ UNCHANGED <<database, chain, early, queue, restarts>>

-----------------------------------------------------------------------------
(* The chain.                                                              *)

\* Nonces make the broadcasts of the one relayer wallet take effect in order.
Mine(t, n, outcome) ==
  /\ chain[t][n] = "pending"
  /\ \A k \in 1 .. n - 1 : chain[t][k] # "pending"
  /\ outcome = "reverted" => ~RelayerWorks
  /\ chain' = [chain EXCEPT ![t][n] = outcome]
  /\ UNCHANGED <<database, early, thread, queue, restarts>>

\* A node forgets a broadcast, or another one takes its nonce.
Drop(t, n) ==
  /\ chain[t][n] = "pending"
  /\ Cardinality(Broadcasts(t, "dropped")) < MaxDrops
  /\ chain' = [chain EXCEPT ![t][n] = "dropped"]
  /\ UNCHANGED <<database, early, thread, queue, restarts>>

-----------------------------------------------------------------------------
(* The reconciler.                                                         *)

(***************************************************************************)
(* The grace hour of GetReleasedTransactionsMissingChainLog is over.  An   *)
(* audit goroutine has a context of 90 seconds, so none is left; and a     *)
(* broadcast is mined or forgotten within the hour, which is what the      *)
(* query relies on and this model assumes.  A part of a contract that is   *)
(* being logged just then might as well have been paid a moment later: its *)
(* goroutine reads nothing the hour changes.                               *)
(***************************************************************************)
HourPasses(t) ==
  /\ t \in fresh
  /\ Settled(t)
  /\ fresh' = fresh \ {t}
  /\ UNCHANGED <<milestones, releases, hash, chain, early, thread, queue, restarts>>

\* Mutant: the query does not leave out fresh releases.
GapsAtOnce == {t \in Released : hash[t] = 0}

Gaps == {t \in Released : hash[t] = 0 /\ t \notin fresh}

ReleasedBefore(t, u) ==
  \E i, j \in DOMAIN releases : i < j /\ releases[i] = t /\ releases[j] = u

\* ORDER BY updated_at LIMIT n: the n oldest of S, oldest first.
Oldest(S, n) ==
  {q \in [1 .. n -> S] :
     /\ \A i, j \in 1 .. n : i < j => ReleasedBefore(q[i], q[j])
     /\ \A t \in S \ Range(q) : \A i \in 1 .. n : ReleasedBefore(q[i], t)}

\* ReconcileOnce: the oldest gaps, BatchSize of them.  Cycles start six hours
\* apart, by when the broadcasts of the last one are mined or forgotten; a part
\* that is being logged just then might again be paid a moment later.
ReconcileOnce ==
  /\ queue = <<>> /\ thread[Reconciler] = Idle
  /\ Gaps # {}
  /\ \A t \in Gaps \ fresh : Broadcasts(t, "pending") = {}
  /\ queue' \in Oldest(Gaps, Min({BatchSize, Cardinality(Gaps)}))
  /\ UNCHANGED <<database, chain, early, thread, restarts>>

ReconcileNext ==
  /\ queue # <<>> /\ thread[Reconciler] = Idle
  /\ SetThread(Reconciler, "finding", Head(queue), 0)
  /\ queue' = Tail(queue)
  /\ UNCHANGED <<database, chain, early, restarts>>

\* Mutant: a deal that is found on the chain is left alone.
FindLoggedTransactionOnly ==
  LET t == thread[Reconciler].tx
      found == Broadcasts(t, "logged") \ early[t] IN
  /\ thread[Reconciler].stage = "finding"
  /\ IF found = {} THEN SetThread(Reconciler, "sending", t, 0) ELSE EndThread(Reconciler)
  /\ UNCHANGED <<database, chain, early, queue, restarts>>

\* FindLoggedTransaction answers: the earliest entry in the range goes to the
\* database, a deal that has none is logged again.
FindLoggedTransaction ==
  LET t == thread[Reconciler].tx
      found == Broadcasts(t, "logged") \ early[t] IN
  /\ thread[Reconciler].stage = "finding"
  /\ \/ found = {} /\ SetThread(Reconciler, "sending", t, 0)
     \/ \E n \in found : /\ \A k \in found : n <= k
                         /\ SetThread(Reconciler, "persisting", t, n)
  /\ UNCHANGED <<database, chain, early, queue, restarts>>

-----------------------------------------------------------------------------
Restart ==
  /\ restarts < MaxRestarts
  /\ restarts' = restarts + 1
  /\ thread' = [a \in Threads |-> Idle]
  /\ queue' = <<>>
  /\ UNCHANGED <<database, chain, early>>

Attempt(a) ==
  \/ \E answered \in BOOLEAN : Send(a, answered)
  \/ Receipt(a) \/ Persist(a) \/ Fail(a)

Reconcile == ReconcileOnce \/ ReconcileNext \/ FindLoggedTransaction

AuditNext ==
  \/ \E t \in Txs, g \in Goroutines :
       ReleaseMilestone(t, g) \/ \E late \in BOOLEAN : Release(t, g, late)
  \/ \E a \in Threads : Attempt(a)
  \/ \E t \in Txs, n \in Numbers :
       Drop(t, n) \/ \E outcome \in {"logged", "reverted"} : Mine(t, n, outcome)
  \/ \E t \in Txs : HourPasses(t)
  \/ Reconcile
  \/ Restart

AuditSpec == AuditInit /\ [][AuditNext]_auditVars

-----------------------------------------------------------------------------
(* Safety.                                                                 *)

\* The log is append-only and nothing in it can be taken back: a deal released
\* in one go has at most one entry, whichever of the request, the answer, the
\* receipt, the write and the process was lost, and however often the
\* reconciler tried (the cases A, B and C of audit_reconciler_worker.go).
LoggedOnce == \A t \in Txs \ Contracts : Cardinality(Broadcasts(t, "logged")) <= 1

\* A hash in the database is the hash of an entry of that very deal: nobody is
\* sent to a transaction the chain dropped or never mined.
HashIsLogged == \A t \in Txs : hash[t] # 0 => chain[t][hash[t]] = "logged"

\* "The event cannot exist before the transaction was RELEASED (logAuditOnChain
\* only fires post-release), so `since` bounds the scan without missing
\* anything" (relayer.go): the scan of the reconciler misses no entry.
ScanMissesNothing ==
  [][\A t \in Txs :
       (thread[Reconciler] = [stage |-> "finding", tx |-> t, number |-> 0]
          /\ thread'[Reconciler].stage = "sending")
         => Broadcasts(t, "logged") = {}]_auditVars

-----------------------------------------------------------------------------
(* Liveness.                                                               *)

(***************************************************************************)
(* The ticker fires and the loop goes on; an attempt does not hang (every  *)
(* call has a timeout); a pending broadcast is decided.  A lookup, a       *)
(* broadcast, a receipt and a write the reconciler tries for one deal      *)
(* again and again succeed in the end.  Nothing is assumed of the first    *)
(* attempt but that it ends.                                               *)
(***************************************************************************)
On(t) == thread[Reconciler].tx = t

Fairness ==
  /\ WF_auditVars(ReconcileOnce) /\ WF_auditVars(ReconcileNext)
  /\ \A g \in Goroutines : WF_auditVars(Fail(g))
  /\ WF_auditVars(Fail(Reconciler))
  /\ \A t \in Txs :
       /\ WF_auditVars(HourPasses(t))
       /\ SF_auditVars(On(t) /\ FindLoggedTransaction)
       /\ SF_auditVars(On(t) /\ Send(Reconciler, TRUE))
       /\ SF_auditVars(On(t) /\ Receipt(Reconciler))
       /\ SF_auditVars(On(t) /\ Persist(Reconciler))
       /\ WF_auditVars(\E n \in Numbers : Mine(t, n, "logged"))

FairSpec == AuditSpec /\ Fairness

\* Every completed transaction is recorded in the end (BO-08 of BRD.md), the
\* deals released by a dispute and those whose goroutine died included.
EveryReleaseIsRecorded == \A t \in Txs : t \in Released ~> hash[t] # 0
=============================================================================
