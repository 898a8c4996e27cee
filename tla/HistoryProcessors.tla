-------------------------- MODULE HistoryProcessors --------------------------
(***************************************************************************)
(* The shield processor (processors/shield/shield.go) and the liquidity    *)
(* processor (processors/liquidity/liquidity.go), with their writes in     *)
(* database/bridge.go and database/pdex.go.  Both turn requests and the    *)
(* responses to them into documents that the API shows as a history, and   *)
(* both run the same round: take a batch of transactions behind a cursor,  *)
(* write its requests, then its responses, then save the cursor.  The      *)
(* liquidity processor then pages through the documents that are still     *)
(* pending and asks the instructions of the beacon about them.  They share *)
(* nothing, so that a behaviour is one of either: the constant Chains has   *)
(* the transactions that there may be for one of them.                     *)
(*                                                                         *)
(* Two things differ from the trade processor.  A batch is sorted by the   *)
(* lock time of its transactions, which their senders choose, whereas the  *)
(* cursor is the _id of the last of them: a round can take a transaction   *)
(* again, or pass one that it has not taken.  And the documents have no    *)
(* unique index on their request: writing a batch again adds documents.    *)
(*                                                                         *)
(* Here a transaction gets its _id when it becomes visible; that the two   *)
(* can be apart is in TradeProcessor.                                      *)
(***************************************************************************)
EXTENDS Naturals, Sequences, FiniteSets

CONSTANTS
  Chains,      \* sets of transactions, of which a behaviour has one
  Family,      \* what each is about: shield, contribution, withdraw, ...
  Target,      \* the request that a response answers, NoTx for a request
  NoTx,
  Pair,        \* the nft and pair hash (or the v2 pair id) of a contribution
  Locktime,    \* the lock time of each
  Before,      \* <<t, u>>: t comes before u on a shard
  Refused,     \* the requests that the beacon will refuse
  Limit,       \* the size of a batch, 5000 in the code
  PageSize,    \* the size of a page, 10000 in the code
  MaxCopies,   \* bound: documents of a request that are told apart
  MaxCrash     \* bound: ends of the process

\* The lists of processLiquidity, and that of processShieldTxs.
Liquidity  == {"contribution", "withdraw", "fee", "stake", "reward"}
Txs        == UNION Chains

Requests == {t \in Txs : Target[t] = NoTx}
Responds == Txs \ Requests

ASSUME TxAssumption ==
  /\ NoTx \notin Txs /\ IsFiniteSet(Txs)
  /\ Family \in [Txs -> Liquidity \union {"shield"}]
  /\ Target \in [Txs -> Txs \union {NoTx}]
  /\ \A t \in Responds : Target[t] \in Requests /\ Family[Target[t]] = Family[t]
  /\ Locktime \in [Txs -> Nat] /\ Before \subseteq Txs \X Txs
  /\ Refused \subseteq Requests
  /\ \A c \in Chains : \A t, u \in c : Family[t] = "shield" <=> Family[u] = "shield"
ASSUME BoundsAssumption ==
  /\ Limit \in Nat \ {0} /\ PageSize \in Nat \ {0}
  /\ MaxCopies \in Nat \ {0} /\ MaxCrash \in Nat

VARIABLES
  chain,       \* the transactions of this behaviour
  pos,         \* the place of a transaction's _id, 0 before its insert
  decided,     \* the requests whose instruction the beacon's state has
  pc,          \* where the processor is
  step,        \* which write, or which loop of updateLiquidityStatus
  batch,       \* txList,
  rest,        \* and what is left of it for the current write
  cursor,      \* LastProcessedObjectID
  saved,       \* the same in Mongo
  offset,      \* of the loop,
  page,        \* and its page: places in docs
  docs,        \* the documents, by their _id
  overtaken,   \* history: passed in a full batch by a later _id
  crashes

feedVars == <<pos, decided>>
procVars == <<pc, step, batch, rest, cursor, saved, offset, page>>
vars     == <<chain, feedVars, procVars, docs, overtaken, crashes>>

First(S)  == CHOOSE i \in S : \A j \in S : i <= j
visible   == {t \in chain : pos[t] # 0}
ForShield == \A t \in chain : Family[t] = "shield"

Doc == [family : Liquidity \union {"shield"}, reqs : Seq(Requests), status : 0 .. 2,
        responds : SUBSET Responds]

TypeOK ==
  /\ chain \in Chains
  /\ pos \in [Txs -> Nat]
  /\ decided \subseteq Requests
  /\ pc \in {"load", "fetch", "write", "cursor", "page", "refresh"}
  /\ step \in 1 .. 10
  /\ batch \subseteq visible /\ rest \subseteq batch
  /\ cursor \in Nat /\ saved \in Nat /\ offset \in Nat
  /\ docs \in Seq(Doc)
  /\ page \subseteq DOMAIN docs
  /\ overtaken \subseteq visible
  /\ crashes \in 0 .. MaxCrash
  /\ \A i \in DOMAIN docs :
       Len(docs[i].reqs) \in 1 .. IF docs[i].family = "contribution" THEN 2 ELSE 1

Init ==
  /\ chain \in Chains
  /\ pos = [t \in Txs |-> 0]
  /\ decided = {}
  /\ pc = "load"
  /\ step = 1
  /\ batch = {}
  /\ rest = {}
  /\ cursor = 0
  /\ saved = 0
  /\ offset = 0
  /\ page = {}
  /\ docs = <<>>
  /\ overtaken = {}
  /\ crashes = 0

-----------------------------------------------------------------------------
(* The synchroniser. *)

\* DBSaveTXs: the next transaction of a shard.
Insert(t) ==
  /\ t \in chain \ visible
  /\ \A u \in chain : <<u, t>> \in Before => u \in visible
  /\ pos' = [pos EXCEPT ![t] = Cardinality(visible) + 1]
  /\ UNCHANGED <<chain, decided, procVars, docs, overtaken, crashes>>

\* DBSaveInstructionBeacon: what the chain decides about a request.  There is
\* no instruction for a shield, and none that is read for a contribution.
Decide(r) ==
  /\ r \in (visible \intersect Requests) \ decided
  /\ Family[r] \notin {"shield", "contribution"}
  /\ decided' = decided \union {r}
  /\ UNCHANGED <<chain, pos, procVars, docs, overtaken, crashes>>

-----------------------------------------------------------------------------
(* The round: fetch, write, save. *)

\* loadState
Start ==
  /\ pc = "load"
  /\ pc' = "fetch"
  /\ cursor' = saved
  /\ UNCHANGED <<chain, feedVars, step, batch, rest, saved, offset, page, docs,
                 overtaken, crashes>>

\* A write: the database call for the requests, or the responses, of a family.
ShieldWrites == << <<Requests, "shield">>, <<Responds, "shield">> >>

LiquidityWrites ==
  << <<Requests, "contribution">>, <<Requests, "withdraw">>, <<Requests, "fee">>,
     <<Requests, "stake">>, <<Requests, "reward">>,
     <<Responds, "contribution">>, <<Responds, "withdraw">>, <<Responds, "fee">>,
     <<Responds, "stake">>, <<Responds, "reward">> >>

Writes == IF ForShield THEN ShieldWrites ELSE LiquidityWrites

\* processShieldTxs and processLiquidity: the transactions of b for write i.
Given(b, i) == {t \in b : t \in Writes[i][1] /\ Family[t] = Writes[i][2]}

\* The next write after i that was given something; the others return at once.
FirstWrite(b, i) ==
  LET todo == {j \in i .. Len(Writes) : Given(b, j) # {}} IN
  IF todo = {} THEN 0 ELSE First(todo)

GoToWrite(b, i) ==
  LET j == FirstWrite(b, i) IN
  IF j = 0 THEN pc' = "cursor" /\ step' = 1 /\ rest' = {}
           ELSE pc' = "write" /\ step' = j /\ rest' = Given(b, j)

\* b is what a query sorted by lock time returns of the transactions S.
FirstOf(S, b) ==
  /\ b \subseteq S
  /\ Cardinality(b) = IF Cardinality(S) < Limit THEN Cardinality(S) ELSE Limit
  /\ \A t \in b, u \in S \ b : Locktime[t] <= Locktime[u]

Take(b) ==
  /\ batch' = b
  /\ GoToWrite(b, 1)
  /\ UNCHANGED <<chain, feedVars, cursor, saved, offset, page, docs, overtaken,
                 crashes>>

\* Mutant: the query does not look at the cursor.
MutFetchAll ==
  /\ pc = "fetch"
  /\ \E b \in SUBSET visible : FirstOf(visible, b) /\ Take(b)

\* getTxToProcess: what is behind the cursor, by lock time, Limit at most.
Fetch ==
  /\ pc = "fetch"
  /\ \E b \in SUBSET visible :
       FirstOf({t \in visible : pos[t] > cursor}, b) /\ Take(b)

\* t is the next one of the list of the current write.
Next1(t) == \A u \in rest : Locktime[t] <= Locktime[u]

\* The rest of the write is r; when there is none, the next write begins.
Wrote(r) ==
  /\ IF r # {} THEN rest' = r /\ UNCHANGED <<pc, step>> ELSE GoToWrite(batch, step + 1)
  /\ UNCHANGED <<chain, feedVars, batch, cursor, saved, offset, page, overtaken,
                 crashes>>

Lists(i, r)   == \E k \in DOMAIN docs[i].reqs : docs[i].reqs[k] = r
DocsOf(r)     == {i \in DOMAIN docs : Lists(i, r)}
FirstDoc(r)   == First(DocsOf(r))
Documented(r) == DocsOf(r) # {}

NewDoc(t) == [family |-> Family[t], reqs |-> <<t>>, status |-> 0, responds |-> {}]

\* A document more for t; of very many copies MaxCopies are told apart.
Added(t) ==
  IF Cardinality(DocsOf(t)) < MaxCopies THEN Append(docs, NewDoc(t)) ELSE docs

\* Mutant: the document of a request that is written again is replaced.
MutInsertRequest ==
  \E t \in rest :
    /\ pc = "write" /\ Writes[step][1] = Requests /\ Family[t] # "contribution"
    /\ Next1(t)
    /\ docs' = IF Documented(t) THEN [docs EXCEPT ![FirstDoc(t)] = NewDoc(t)]
                                ELSE Append(docs, NewDoc(t))
    /\ Wrote(rest \ {t})

\* DBSaveTxShield, DBSavePDEWithdraw, DBSavePDEWithdrawFee,
\* DBSavePDEStakeHistory, DBSavePDEStakeRewardHistory: InsertMany.
InsertRequest ==
  \E t \in rest :
    /\ pc = "write" /\ Writes[step][1] = Requests /\ Family[t] # "contribution"
    /\ Next1(t)
    /\ docs' = Added(t)
    /\ Wrote(rest \ {t})

\* Mutant: the filter does not ask for the second request to be absent.
MutHalfOpen(t) ==
  {i \in DOMAIN docs : docs[i].family = "contribution" /\ Pair[docs[i].reqs[1]] = Pair[t]}

\* The documents that the filter of DBSavePDEContribute selects: the same pair,
\* and no second request.
HalfOpen(t) ==
  {i \in DOMAIN docs : /\ docs[i].family = "contribution"
                       /\ Pair[docs[i].reqs[1]] = Pair[t]
                       /\ Len(docs[i].reqs) = 1}

\* Mutant: the update does not push to the document that the filter selects.
MutContribute ==
  \E t \in rest :
    /\ pc = "write" /\ Writes[step][1] = Requests /\ Family[t] = "contribution"
    /\ Next1(t)
    /\ docs' = Added(t)
    /\ Wrote(rest \ {t})

\* DBSavePDEContribute: $push to the first of them, or a document more.
Contribute ==
  \E t \in rest :
    /\ pc = "write" /\ Writes[step][1] = Requests /\ Family[t] = "contribution"
    /\ Next1(t)
    /\ docs' = IF HalfOpen(t) = {} THEN Added(t)
               ELSE [docs EXCEPT ![First(HalfOpen(t))].reqs = Append(@, t)]
    /\ Wrote(rest \ {t})

\* The status that the response x carries, for the families that have one.
StatusOf(x) ==
  IF Family[x] \in {"shield", "contribution"} THEN 0
  ELSE IF Target[x] \in Refused THEN 2 ELSE 1

\* Mutant: the status is not set.
MutAnswered(d, x) ==
  [d EXCEPT !.responds = IF Family[x] \in {"shield", "stake"} THEN {x} ELSE @ \union {x}]

\* The document d with the response x: pushed, or set where there is one field.
Answered(d, x) ==
  [d EXCEPT !.status   = StatusOf(x),
            !.responds = IF Family[x] \in {"shield", "stake"} THEN {x} ELSE @ \union {x}]

\* docs after an update of the first document of the target of x.
Updated(x) ==
  IF Documented(Target[x])
  THEN [docs EXCEPT ![FirstDoc(Target[x])] = Answered(@, x)]
  ELSE docs

\* DBUpdateShieldData, DBUpdatePDEContributeRespond, DBUpdatePDEWithdraw,
\* DBUpdatePDEWithdrawFee, DBUpdatePDEStakeRewardHistory: UpdateOne without
\* upsert, so that without a document nothing happens.
UpdateRespond ==
  \E x \in rest :
    /\ pc = "write" /\ Writes[step][1] = Responds /\ Family[x] # "stake"
    /\ Next1(x)
    /\ docs' = Updated(x)
    /\ Wrote(rest \ {x})

\* DBUpdatePDEStakingHistory returns after the first of its list, since the
\* result of FindOneAndUpdate is never nil.
UpdateStaking ==
  \E x \in rest :
    /\ pc = "write" /\ Writes[step][1] = Responds /\ Family[x] = "stake"
    /\ Next1(x)
    /\ Documented(Target[x])
    /\ docs' = Updated(x)
    /\ Wrote({})

\* What an end of the process loses.
Lose ==
  /\ pc' = "load"
  /\ step' = 1
  /\ batch' = {}
  /\ rest' = {}
  /\ cursor' = 0
  /\ offset' = 0
  /\ page' = {}
  /\ UNCHANGED <<chain, feedVars, saved, docs, overtaken>>

\* The same without a document: ErrNoDocuments, and a panic.
StakingPanics ==
  /\ pc = "write" /\ Writes[step][1] = Responds
  /\ \E x \in rest : Family[x] = "stake" /\ Next1(x) /\ ~Documented(Target[x])
  /\ Lose
  /\ UNCHANGED crashes

\* What getTxToProcess left behind at the place p of a full batch.
Skipped(p) ==
  IF Cardinality(batch) < Limit THEN {}
  ELSE {t \in visible \ batch : pos[t] \in cursor + 1 .. p}

EndWrites(p) ==
  /\ cursor' = p
  /\ saved' = p
  /\ overtaken' = overtaken \union Skipped(p)
  /\ batch' = {}
  /\ pc' = IF ForShield THEN "fetch" ELSE "page"
  /\ UNCHANGED <<chain, feedVars, step, rest, offset, page, docs, crashes>>

\* Mutant: the cursor becomes the newest transaction that there is.
MutSaveCursor ==
  /\ pc = "cursor"
  /\ EndWrites(Cardinality(visible))

\* updateState: the cursor becomes the _id of the last one of the batch, by
\* lock time; an empty batch leaves it alone.
SaveCursor ==
  /\ pc = "cursor"
  /\ IF batch = {} THEN EndWrites(cursor)
     ELSE \E last \in batch :
            /\ \A t \in batch : Locktime[t] <= Locktime[last]
            /\ EndWrites(pos[last])

-----------------------------------------------------------------------------
(* updateLiquidityStatus: five loops over what is still pending. *)

\* Requests to stake and to unstake are in one collection, and the loops for
\* them select the same documents: the first of the two settles both.
Loops == <<"withdraw", "fee", "stake", "unstake", "reward">>

Pending(i) ==
  LET f == IF Loops[i] = "unstake" THEN "stake" ELSE Loops[i] IN
  {d \in DOMAIN docs : docs[d].family = f /\ docs[d].status = 0}

\* DBGetPendingLiquidityWithdraw ... DBGetPendingWithdrawRewardStakingPool
PageAt(i, n) ==
  {d \in Pending(i) : Cardinality({e \in Pending(i) : e < d}) \in n .. n + PageSize - 1}

\* The page of loop i with offset n.
TakePage(i, n) ==
  /\ pc' = "refresh"
  /\ step' = i
  /\ page' = PageAt(i, n)
  /\ offset' = n + Cardinality(PageAt(i, n))

\* The next page of the loop, or the first of the next loop that has one, or
\* the end of the round.
GetPage ==
  LET later == {i \in DOMAIN Loops : i > step /\ Pending(i) # {}} IN
  /\ pc = "page"
  /\ IF PageAt(step, offset) # {} THEN TakePage(step, offset)
     ELSE IF later # {} THEN TakePage(First(later), 0)
     ELSE pc' = "fetch" /\ step' = 1 /\ page' = {} /\ offset' = 0
  /\ UNCHANGED <<chain, feedVars, batch, rest, cursor, saved, docs, overtaken, crashes>>

Request(d) == docs[d].reqs[1]

\* Mutant: no loop looks for what the beacon has accepted.
MutListToUpdate == {d \in page : Request(d) \in decided \intersect Refused}

\* listToUpdate: the instruction is there and refuses; the loop for requests to
\* stake also takes those that it accepts.
ListToUpdate ==
  {d \in page : /\ Request(d) \in decided
                /\ Request(d) \in Refused \/ Loops[step] = "stake"}

\* DBUpdatePDELiquidityWithdrawStatus, DBUpdatePDELiquidityWithdrawFeeStatus,
\* DBUpdateRequestStakingPoolStatus, DBUpdatePDEUnstakingPoolStatus and
\* DBUpdatePDEWithdrawRewardStakingStatus return after the first of their list,
\* for which they update the first document of its request.
RefreshPage ==
  /\ pc = "refresh"
  /\ pc' = "page"
  /\ docs' = IF ListToUpdate = {} THEN docs
             ELSE LET r == Request(First(ListToUpdate)) IN
                  [docs EXCEPT ![FirstDoc(r)].status = IF r \in Refused THEN 2 ELSE 1]
  /\ page' = {}
  /\ UNCHANGED <<chain, feedVars, step, batch, rest, cursor, saved, offset, overtaken,
                 crashes>>

\* Any failed write panics; or a kill.
Crash ==
  /\ pc # "load"
  /\ crashes < MaxCrash
  /\ crashes' = crashes + 1
  /\ Lose

-----------------------------------------------------------------------------
Feed == \E t \in Txs : Insert(t) \/ Decide(t)

Process ==
  \/ Start \/ Fetch
  \/ InsertRequest \/ Contribute \/ UpdateRespond \/ UpdateStaking \/ StakingPanics
  \/ SaveCursor \/ GetPage \/ RefreshPage

Next == Feed \/ Process \/ Crash

Spec == Init /\ [][Next]_vars

\* The processor is started again when it has ended, and keeps running.
FairSpec == Spec /\ WF_vars(Process)

-----------------------------------------------------------------------------
(* Properties. *)

\* What the saved cursor has passed and no full batch has overtaken.
Passed == {t \in visible \ overtaken : pos[t] <= saved}

\* A response that was processed with its request, or after it.
InOrder(x) == Target[x] \in Passed /\ pos[Target[x]] < pos[x]

\* Nothing behind the saved cursor is missing from the documents, wherever the
\* process has ended, although a batch is sorted by lock time: a request has a
\* document, and a response is in it.  The responses to requests to stake are
\* the exception, of which only the first of a batch is kept.
PassedIsApplied ==
  \A t \in Passed :
    /\ t \in Requests => Documented(t)
    /\ t \in Responds /\ InOrder(t) /\ Family[t] # "stake"
       => \E d \in DocsOf(Target[t]) : t \in docs[d].responds

\* A request whose response has been processed is closed with the result that
\* the response carries (status 1 or 2), however often it is written again.
AnsweredIsClosed ==
  \A x \in Passed \intersect Responds :
    /\ InOrder(x)
    /\ Family[x] \in {"withdraw", "fee", "reward"}
    => docs[FirstDoc(Target[x])].status = StatusOf(x)

\* The two contributions of a pair come together in one document, unless one of
\* them has been written twice.
PairTogether ==
  \A t, u \in Passed \intersect Requests :
    /\ Family[t] = "contribution" /\ Family[u] = "contribution"
    /\ t # u /\ Pair[t] = Pair[u]
    /\ \A v \in {t, u} :
         /\ Cardinality(DocsOf(v)) = 1
         /\ \A d \in DocsOf(v) : docs[d].reqs # <<v, v>>
    => DocsOf(t) = DocsOf(u)

\* What a user has been told does not change: the first document of a request
\* keeps the result that it has got, from a response or from the beacon.
ResultStays ==
  [][\A r \in Requests :
       Documented(r) /\ docs[FirstDoc(r)].status # 0
       => docs'[FirstDoc(r)].status = docs[FirstDoc(r)].status]_vars

\* A response to a request to stake for which there is no document.
Orphaned == \E x \in Responds : Family[x] = "stake" /\ x \in visible /\ ~Documented(Target[x])

\* The processor passes every transaction in the end, unless it meets a response
\* to a request to stake that it has never seen, which makes it panic each time.
EverythingPassed == <>[](\A t \in visible : pos[t] <= saved \/ Orphaned)

\* A request has been written twice: the copy stays pending for ever, and can
\* be the first of every page.
Duplicated == \E r \in Requests : Cardinality(DocsOf(r)) > 1

\* What the beacon has refused does not stay pending, nor does a stake that it
\* has decided, although each page is taken with an offset into a set that the
\* updates make smaller, and only the first of a page is updated.
DecisionSeen ==
  <>[](\/ Duplicated \/ Orphaned
       \/ \A r \in decided \intersect Passed :
            Family[r] = "stake" \/ r \in Refused => docs[FirstDoc(r)].status # 0)

-----------------------------------------------------------------------------
(* What the proofs of PassedIsApplied and of PairTogether assume of the chain. *)

\* A shield has one response: the bridge mints once for it.
AnsweredOnce ==
  \A x, y \in Responds : Family[x] = "shield" /\ Target[x] = Target[y] => x = y

\* A pair hash stands for two contributions.
TwoOfAPair ==
  \A t, u, v \in Requests :
    /\ Family[t] = "contribution" /\ Family[u] = "contribution"
    /\ Family[v] = "contribution"
    /\ Pair[t] = Pair[u] /\ Pair[u] = Pair[v]
    => t = u \/ u = v \/ t = v
=============================================================================
