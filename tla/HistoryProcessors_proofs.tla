---------------------- MODULE HistoryProcessors_proofs ----------------------
(***************************************************************************)
(* Proofs about HistoryProcessors: its types, that the history keeps what  *)
(* it has shown, and that nothing behind the saved cursor is missing from  *)
(* it, for any transactions, lock times, sizes of batches and pages,       *)
(* and any number of restarts.                                             *)
(***************************************************************************)
EXTENDS HistoryProcessors, NaturalFacts, SequenceTheorems

\* The families whose documents have no status.
Plain == {"shield", "contribution"}

\* The status of a request that is settled.
Result(r) == IF r \in Refused THEN 2 ELSE 1

\* A document is of one family, and the contributions in one are of one pair.
\* Its status is pending, or what the beacon or the chain says about its request.
DocOK(d) ==
  /\ Len(d.reqs) \in 1 .. IF d.family = "contribution" THEN 2 ELSE 1
  /\ \A k \in DOMAIN d.reqs : Family[d.reqs[k]] = d.family
  /\ d.family = "contribution" =>
       \A k \in DOMAIN d.reqs : Pair[d.reqs[k]] = Pair[d.reqs[1]]
  /\ d.family \in Plain => d.status = 0
  /\ d.family \notin Plain => d.status \in {0, Result(d.reqs[1])}
  /\ d.family # "contribution" => \A x \in d.responds : Target[x] = d.reqs[1]

\* No two documents of a pair wait for the second contribution.
HalfOpenOnce ==
  \A i, j \in DOMAIN docs :
    /\ docs[i].family = "contribution" /\ docs[j].family = "contribution"
    /\ Len(docs[i].reqs) = 1 /\ Len(docs[j].reqs) = 1
    /\ Pair[docs[i].reqs[1]] = Pair[docs[j].reqs[1]]
    => i = j

DocsInv ==
  /\ docs \in Seq(Doc)
  /\ \A i \in DOMAIN docs : DocOK(docs[i])
  /\ HalfOpenOnce

\* What a step may do to a document d: add the second request of a pair, settle
\* it, and add responses; but a response to a request to stake takes the place of
\* the one before.
Grown(d, e) ==
  /\ e.family = d.family
  /\ DOMAIN d.reqs \subseteq DOMAIN e.reqs
  /\ \A k \in DOMAIN d.reqs : e.reqs[k] = d.reqs[k]
  /\ d.family # "contribution" => e.reqs = d.reqs
  /\ d.status # 0 => e.status = d.status
  /\ AnsweredOnce /\ d.family # "stake" => d.responds \subseteq e.responds

\* And to the documents: each of them may grow, and others come after them.
Kept ==
  /\ DOMAIN docs \subseteq DOMAIN docs'
  /\ \A i \in DOMAIN docs : Grown(docs[i], docs'[i])
  /\ \A i \in DOMAIN docs' \ DOMAIN docs : \A j \in DOMAIN docs : j < i

-----------------------------------------------------------------------------
(* The least of a set, and the documents of a request. *)

LEMMA FirstIsLeast ==
  ASSUME NEW S, S \subseteq Nat, S # {}
  PROVE  First(S) \in S /\ \A j \in S : First(S) <= j
BY LeastNatural DEF First

LEMMA Families ==
  ASSUME NEW t \in Txs
  PROVE  /\ Family[t] \in Liquidity \union {"shield"}
         /\ t \in Responds => /\ Target[t] \in Requests
                              /\ Family[Target[t]] = Family[t]
                              /\ Target[t] \in Txs
BY TxAssumption DEF Requests

LEMMA DocFields ==
  ASSUME DocsInv, NEW i \in DOMAIN docs
  PROVE  /\ i \in Nat /\ i \in 1 .. Len(docs)
         /\ docs[i] \in Doc
         /\ docs[i].family \in Liquidity \union {"shield"}
         /\ docs[i].reqs \in Seq(Requests)
         /\ docs[i].status \in 0 .. 2
         /\ docs[i].responds \in SUBSET Responds
         /\ Len(docs[i].reqs) \in {1, 2}
         /\ docs[i].family # "contribution" => Len(docs[i].reqs) = 1
         /\ DOMAIN docs[i].reqs = 1 .. Len(docs[i].reqs)
         /\ 1 \in DOMAIN docs[i].reqs
         /\ docs[i].reqs[1] \in Requests
<1>1. docs \in Seq(Doc) /\ i \in 1 .. Len(docs) /\ i \in Nat
  BY DEF DocsInv, DocOK
<1>2. docs[i] \in Doc
  BY <1>1
<1>3. /\ docs[i].family \in Liquidity \union {"shield"}
      /\ docs[i].reqs \in Seq(Requests)
      /\ docs[i].status \in 0 .. 2
      /\ docs[i].responds \in SUBSET Responds
  BY <1>2 DEF Doc
<1>4. Len(docs[i].reqs) \in 1 .. IF docs[i].family = "contribution" THEN 2 ELSE 1
  BY DEF DocsInv, DocOK
<1>5. /\ Len(docs[i].reqs) \in {1, 2}
      /\ docs[i].family # "contribution" => Len(docs[i].reqs) = 1
  <2>1. CASE docs[i].family = "contribution"
    <3>1. Len(docs[i].reqs) \in 1 .. 2
      BY <1>4, <2>1, Zenon
    <3> QED
      BY <2>1, <3>1
  <2>2. CASE docs[i].family # "contribution"
    <3>1. Len(docs[i].reqs) \in 1 .. 1
      BY <1>4, <2>2, Zenon
    <3> QED
      BY <3>1
  <2> QED
    BY <2>1, <2>2
<1>6. DOMAIN docs[i].reqs = 1 .. Len(docs[i].reqs)
  BY <1>3
<1>7. 1 \in DOMAIN docs[i].reqs
  BY <1>5, <1>6
<1>8. docs[i].reqs[1] \in Requests
  BY <1>3, <1>7
<1> QED
  BY <1>1, <1>2, <1>3, <1>5, <1>6, <1>7, <1>8

LEMMA DocsOfType ==
  ASSUME DocsInv, NEW r
  PROVE  /\ DocsOf(r) \subseteq Nat /\ DocsOf(r) \subseteq DOMAIN docs
         /\ \A i \in DOMAIN docs : \A k \in DOMAIN docs[i].reqs :
              docs[i].reqs[k] = r => i \in DocsOf(r)
         /\ \A i \in DocsOf(r) :
              \E k \in DOMAIN docs[i].reqs : docs[i].reqs[k] = r
         /\ Documented(r) => /\ FirstDoc(r) \in DocsOf(r)
                             /\ \A j \in DocsOf(r) : FirstDoc(r) <= j
<1>1. DocsOf(r) \subseteq DOMAIN docs
  BY DEF DocsOf
<1>2. DocsOf(r) \subseteq Nat
  BY <1>1, DocFields
<1> QED
  BY <1>1, <1>2, FirstIsLeast DEF DocsOf, Lists, Documented, FirstDoc

\* A document that lists a request is of its family.
LEMMA DocOfFamily ==
  ASSUME DocsInv, NEW r, NEW i \in DocsOf(r)
  PROVE  /\ docs[i].family = Family[r]
         /\ Family[r] # "contribution" => docs[i].reqs[1] = r
<1>1. i \in DOMAIN docs
  BY DocsOfType
<1>2. PICK k \in DOMAIN docs[i].reqs : docs[i].reqs[k] = r
  BY DocsOfType
<1>3. docs[i].family = Family[r]
  BY <1>1, <1>2 DEF DocsInv, DocOK
<1>4. ASSUME Family[r] # "contribution" PROVE docs[i].reqs[1] = r
  <2>1. Len(docs[i].reqs) = 1 /\ DOMAIN docs[i].reqs = 1 .. Len(docs[i].reqs)
    BY <1>1, <1>3, <1>4, DocFields
  <2>2. k = 1
    BY <1>2, <2>1
  <2> QED
    BY <1>2, <2>2
<1> QED
  BY <1>3, <1>4

-----------------------------------------------------------------------------
(* What each write does to the documents. *)

LEMMA AddDoc ==
  ASSUME DocsInv, NEW t \in Requests,
         Family[t] = "contribution" => HalfOpen(t) = {},
         docs' = Append(docs, NewDoc(t))
  PROVE  DocsInv' /\ Kept /\ Documented(t)'
<1> DEFINE n == Len(docs) + 1
           d == NewDoc(t)
<1>1. docs \in Seq(Doc) /\ Len(docs) \in Nat /\ DOMAIN docs = 1 .. Len(docs)
  BY DEF DocsInv
<1>2. t \in Txs
  BY DEF Requests
<1>3. /\ d.family = Family[t] /\ d.reqs = <<t>> /\ d.status = 0 /\ d.responds = {}
      /\ DOMAIN d.reqs = {1} /\ d.reqs[1] = t /\ Len(d.reqs) = 1
  BY DEF NewDoc
<1>4. d \in Doc
  BY <1>2, Families DEF NewDoc, Doc
<1>5. DocOK(d)
  <2>1. Len(d.reqs) \in 1 .. IF d.family = "contribution" THEN 2 ELSE 1
    <3>1. CASE d.family = "contribution"
      BY <1>3, <3>1
    <3>2. CASE d.family # "contribution"
      BY <1>3, <3>2
    <3> QED
      BY <3>1, <3>2
  <2> HIDE DEF d
  <2> QED
    BY <1>3, <2>1 DEF DocOK
<1> HIDE DEF d
<1>6. /\ docs' \in Seq(Doc) /\ DOMAIN docs' = 1 .. n
      /\ docs'[n] = d
      /\ \A i \in DOMAIN docs : docs'[i] = docs[i]
  BY <1>1, <1>4, AppendProperties DEF d
<1>7. Kept
  <2>1. \A i \in DOMAIN docs : Grown(docs[i], docs'[i])
    BY <1>6 DEF Grown
  <2> QED
    BY <1>1, <1>6, <2>1 DEF Kept
<1>8. HalfOpenOnce'
  <2> SUFFICES ASSUME NEW i \in DOMAIN docs', NEW j \in DOMAIN docs',
                      docs'[i].family = "contribution", docs'[j].family = "contribution",
                      Len(docs'[i].reqs) = 1, Len(docs'[j].reqs) = 1,
                      Pair[docs'[i].reqs[1]] = Pair[docs'[j].reqs[1]],
                      i # j
               PROVE  FALSE
    BY DEF HalfOpenOnce
  <2>1. CASE i \in DOMAIN docs /\ j \in DOMAIN docs
    BY <1>6, <2>1 DEF DocsInv, HalfOpenOnce
  <2>2. CASE i \in DOMAIN docs /\ j = n
    <3>1. i \in HalfOpen(t)
      BY <1>6, <1>3, <2>2 DEF HalfOpen
    <3>2. Family[t] = "contribution"
      BY <1>6, <1>3, <2>2
    <3> QED
      BY <3>1, <3>2
  <2>3. CASE j \in DOMAIN docs /\ i = n
    <3>1. j \in HalfOpen(t)
      BY <1>6, <1>3, <2>3 DEF HalfOpen
    <3>2. Family[t] = "contribution"
      BY <1>6, <1>3, <2>3
    <3> QED
      BY <3>1, <3>2
  <2> QED
    BY <1>1, <1>6, <2>1, <2>2, <2>3
<1>9. \A i \in DOMAIN docs' : DocOK(docs'[i])
  BY <1>1, <1>5, <1>6 DEF DocsInv
<1>10. Documented(t)'
  <2>1. n \in DOMAIN docs' /\ 1 \in DOMAIN docs'[n].reqs /\ docs'[n].reqs[1] = t
    BY <1>1, <1>3, <1>6
  <2> QED
    BY <2>1 DEF Documented, DocsOf, Lists
<1> QED
  BY <1>6, <1>7, <1>8, <1>9, <1>10 DEF DocsInv

LEMMA ChangeDoc ==
  ASSUME DocsInv, NEW i \in DOMAIN docs, NEW d \in Doc, DocOK(d),
         Grown(docs[i], d), Len(d.reqs) = 1 => d.reqs = docs[i].reqs,
         docs' = [docs EXCEPT ![i] = d]
  PROVE  DocsInv' /\ Kept
<1>1. docs \in Seq(Doc) /\ Len(docs) \in Nat /\ DOMAIN docs = 1 .. Len(docs)
  BY DEF DocsInv
<1>2. /\ docs' \in Seq(Doc) /\ DOMAIN docs' = DOMAIN docs
      /\ docs'[i] = d
      /\ \A j \in DOMAIN docs : j # i => docs'[j] = docs[j]
  BY <1>1
<1>3. Kept
  <2>1. \A j \in DOMAIN docs : Grown(docs[j], docs[j])
    BY DEF Grown
  <2>2. \A j \in DOMAIN docs : Grown(docs[j], docs'[j])
    BY <1>2, <2>1
  <2> QED
    BY <1>2, <2>2 DEF Kept
<1>4. HalfOpenOnce'
  <2>1. d.family = docs[i].family
    BY DEF Grown
  <2>2. \A j \in DOMAIN docs :
          /\ docs'[j].family = docs[j].family
          /\ Len(docs'[j].reqs) = 1 => docs'[j].reqs = docs[j].reqs
    BY <1>2, <2>1
  <2> QED
    BY <1>2, <2>2 DEF DocsInv, HalfOpenOnce
<1>5. \A j \in DOMAIN docs' : DocOK(docs'[j])
  BY <1>2 DEF DocsInv
<1> QED
  BY <1>2, <1>3, <1>4, <1>5 DEF DocsInv

\* The second contribution joins the first.
LEMMA JoinDoc ==
  ASSUME DocsInv, NEW t \in Requests, Family[t] = "contribution", HalfOpen(t) # {},
         docs' = [docs EXCEPT ![First(HalfOpen(t))].reqs = Append(@, t)]
  PROVE  DocsInv' /\ Kept /\ Documented(t)'
<1> DEFINE i == First(HalfOpen(t))
           d == [docs[i] EXCEPT !.reqs = Append(docs[i].reqs, t)]
<1>1. HalfOpen(t) \subseteq DOMAIN docs /\ HalfOpen(t) \subseteq Nat
  BY DocFields DEF HalfOpen
<1>2. i \in HalfOpen(t)
  BY <1>1, FirstIsLeast
<1>3. /\ i \in DOMAIN docs /\ docs[i].family = "contribution"
      /\ Pair[docs[i].reqs[1]] = Pair[t] /\ Len(docs[i].reqs) = 1
  BY <1>2 DEF HalfOpen
<1>4. docs' = [docs EXCEPT ![i] = d]
  OBVIOUS
<1> HIDE DEF i
<1>5. docs[i] \in Doc /\ docs[i].reqs \in Seq(Requests)
  BY <1>3, DocFields
<1>6. /\ d.family = "contribution" /\ d.status = docs[i].status
      /\ d.responds = docs[i].responds /\ d.reqs = Append(docs[i].reqs, t)
  BY <1>3, <1>5 DEF Doc
<1>7. /\ d.reqs \in Seq(Requests) /\ Len(d.reqs) = 2 /\ DOMAIN d.reqs = 1 .. 2
      /\ d.reqs[1] = docs[i].reqs[1] /\ d.reqs[2] = t
      /\ DOMAIN docs[i].reqs = 1 .. 1
  BY <1>3, <1>5, <1>6, AppendProperties
<1>8. d \in Doc
  BY <1>5, <1>7 DEF Doc
<1> HIDE DEF d
<1>9. DocOK(docs[i])
  BY <1>3 DEF DocsInv
<1>10. DocOK(d)
  <2>1. Len(d.reqs) \in 1 .. IF d.family = "contribution" THEN 2 ELSE 1
    BY <1>6, <1>7
  <2>2. \A k \in DOMAIN d.reqs : Family[d.reqs[k]] = d.family
    BY <1>3, <1>6, <1>7, <1>9 DEF DocOK
  <2>3. \A k \in DOMAIN d.reqs : Pair[d.reqs[k]] = Pair[d.reqs[1]]
    BY <1>3, <1>7
  <2>4. d.status = 0 /\ d.family \in Plain
    BY <1>3, <1>6, <1>9 DEF DocOK, Plain
  <2> QED
    BY <1>6, <2>1, <2>2, <2>3, <2>4 DEF DocOK
<1>11. Grown(docs[i], d)
  BY <1>3, <1>6, <1>7 DEF Grown
<1>12. DocsInv' /\ Kept
  <2>1. Len(d.reqs) = 1 => d.reqs = docs[i].reqs
    BY <1>7
  <2> QED
    BY <1>3, <1>4, <1>8, <1>10, <1>11, <2>1, ChangeDoc
<1>13. Documented(t)'
  <2>1. i \in DOMAIN docs' /\ docs'[i] = d
    BY <1>3, <1>4 DEF DocsInv
  <2> QED
    BY <1>7, <2>1 DEF Documented, DocsOf, Lists
<1> QED
  BY <1>12, <1>13

\* A response goes into the first document of its request.
LEMMA AnswerDoc ==
  ASSUME DocsInv, NEW x \in Responds, Documented(Target[x]),
         docs' = Updated(x)
  PROVE  /\ DocsInv' /\ Kept
         /\ FirstDoc(Target[x]) \in DOMAIN docs
         /\ x \in docs'[FirstDoc(Target[x])].responds
         /\ docs'[FirstDoc(Target[x])].status = StatusOf(x)
<1> DEFINE i == FirstDoc(Target[x])
           d == Answered(docs[i], x)
<1>1. x \in Txs /\ Target[x] \in Requests /\ Family[Target[x]] = Family[x]
  BY Families DEF Responds
<1>2. i \in DocsOf(Target[x]) /\ i \in DOMAIN docs
  BY DocsOfType
<1>3. docs' = [docs EXCEPT ![i] = d]
  BY DEF Updated
<1>4. /\ docs[i].family = Family[x]
      /\ Family[x] # "contribution" => docs[i].reqs[1] = Target[x]
  BY <1>1, <1>2, DocOfFamily
<1> HIDE DEF i
<1>5. /\ docs[i] \in Doc
      /\ docs[i].responds \in SUBSET Responds
      /\ docs[i].family \in Liquidity \union {"shield"}
      /\ docs[i].reqs \in Seq(Requests)
      /\ DOMAIN docs[i].reqs = 1 .. Len(docs[i].reqs)
  BY <1>2, DocFields
<1>6. /\ d.family = docs[i].family /\ d.reqs = docs[i].reqs
      /\ d.status = StatusOf(x)
      /\ d.responds = IF Family[x] \in {"shield", "stake"} THEN {x}
                      ELSE docs[i].responds \union {x}
  BY <1>5 DEF Answered, Doc
<1>7. StatusOf(x) \in 0 .. 2
  BY DEF StatusOf
<1>8. /\ Family[x] \in Plain => StatusOf(x) = 0
      /\ Family[x] \notin Plain => StatusOf(x) = Result(Target[x])
  BY DEF StatusOf, Result, Plain
<1>9. d.responds \in SUBSET Responds
  BY <1>5, <1>6
<1>10. d \in Doc
  BY <1>5, <1>7, <1>9 DEF Answered, Doc
<1> HIDE DEF d
<1>11. DocOK(docs[i])
  BY <1>2 DEF DocsInv
<1>12. DocOK(d)
  <2>1. d.family \in Plain => d.status = 0
    BY <1>4, <1>6, <1>8
  <2>2. d.family \notin Plain => d.status \in {0, Result(d.reqs[1])}
    <3>1. d.family \notin Plain => d.family # "contribution"
      BY DEF Plain
    <3> QED
      BY <1>4, <1>6, <1>8, <3>1
  <2>3. d.family # "contribution" => \A y \in d.responds : Target[y] = d.reqs[1]
    BY <1>4, <1>6, <1>11 DEF DocOK
  <2> QED
    BY <1>6, <1>11, <2>1, <2>2, <2>3 DEF DocOK
<1>13. Grown(docs[i], d)
  <2>1. docs[i].status # 0 => d.status = docs[i].status
    <3> SUFFICES ASSUME docs[i].status # 0 PROVE d.status = docs[i].status
      OBVIOUS
    <3>1. docs[i].family \notin Plain /\ docs[i].status = Result(docs[i].reqs[1])
      BY <1>11 DEF DocOK
    <3>2. docs[i].family # "contribution"
      BY <3>1 DEF Plain
    <3> QED
      BY <1>4, <1>6, <1>8, <3>1, <3>2
  <2>2. AnsweredOnce /\ docs[i].family # "stake" => docs[i].responds \subseteq d.responds
    <3> SUFFICES ASSUME AnsweredOnce, docs[i].family # "stake", NEW y \in docs[i].responds
                 PROVE  y \in d.responds
      OBVIOUS
    <3>1. CASE Family[x] = "shield"
      <4>1. Target[y] = Target[x] /\ y \in Responds
        BY <1>4, <1>5, <1>11, <3>1 DEF DocOK
      <4>2. y = x
        BY <3>1, <4>1 DEF AnsweredOnce
      <4> QED
        BY <1>6, <3>1, <4>2
    <3>2. CASE Family[x] # "shield"
      BY <1>4, <1>6, <3>2
    <3> QED
      BY <3>1, <3>2
  <2> QED
    BY <1>6, <2>1, <2>2 DEF Grown
<1>14. DocsInv' /\ Kept
  BY <1>2, <1>3, <1>6, <1>10, <1>12, <1>13, ChangeDoc
<1>15. docs'[i] = d
  BY <1>2, <1>3 DEF DocsInv
<1> QED
  BY <1>2, <1>6, <1>14, <1>15 DEF i

\* The beacon settles a request.
LEMMA SettleDoc ==
  ASSUME DocsInv, NEW r, Documented(r), Family[r] \notin Plain,
         docs' = [docs EXCEPT ![FirstDoc(r)].status = Result(r)]
  PROVE  DocsInv' /\ Kept
<1> DEFINE i == FirstDoc(r)
           d == [docs[i] EXCEPT !.status = Result(r)]
<1>1. i \in DocsOf(r) /\ i \in DOMAIN docs
  BY DocsOfType
<1>2. docs' = [docs EXCEPT ![i] = d]
  OBVIOUS
<1>3. Family[r] # "contribution"
  BY DEF Plain
<1>4. docs[i].family = Family[r] /\ docs[i].reqs[1] = r
  BY <1>1, <1>3, DocOfFamily
<1> HIDE DEF i
<1>5. docs[i] \in Doc
  BY <1>1, DocFields
<1>6. /\ d.family = docs[i].family /\ d.reqs = docs[i].reqs
      /\ d.responds = docs[i].responds /\ d.status = Result(r)
  BY <1>5 DEF Doc
<1>7. Result(r) \in 1 .. 2
  BY DEF Result
<1>8. d \in Doc
  BY <1>5, <1>7 DEF Doc
<1> HIDE DEF d
<1>9. DocOK(docs[i])
  BY <1>1 DEF DocsInv
<1>10. DocOK(d)
  BY <1>4, <1>6, <1>9 DEF DocOK
<1>11. Grown(docs[i], d)
  BY <1>4, <1>6, <1>9 DEF Grown, DocOK
<1> QED
  BY <1>1, <1>2, <1>6, <1>8, <1>10, <1>11, ChangeDoc

-----------------------------------------------------------------------------
(* The round. *)

Types ==
  /\ chain \in Chains
  /\ pos \in [Txs -> Nat]
  /\ decided \subseteq Requests
  /\ pc \in {"load", "fetch", "write", "cursor", "page", "refresh"}
  /\ batch \subseteq visible /\ rest \subseteq batch
  /\ cursor \in Nat /\ saved \in Nat /\ offset \in Nat
  /\ overtaken \subseteq visible
  /\ crashes \in 0 .. MaxCrash

\* A page has documents with a status.
PageInv ==
  /\ page \subseteq DOMAIN docs
  /\ \A d \in page : docs[d].family \notin Plain

\* Where there is a batch, and what the current write or loop is.
RoundInv ==
  /\ pc \notin {"write", "cursor"} => batch = {}
  /\ pc # "load" => cursor = saved
  /\ pc = "write" => step \in 1 .. Len(Writes) /\ rest \subseteq Given(batch, step)
  /\ pc # "write" => step \in 1 .. 5 /\ rest = {}

\* The places of the visible transactions, the saved cursor and the batch: what
\* becomes visible comes after all of them.
PlaceInv ==
  /\ \A t \in visible : pos[t] <= Cardinality(visible)
  /\ saved <= Cardinality(visible)
  /\ \A t \in batch : saved < pos[t]

\* A batch that is not full has no gap.
NoGapInv ==
  Cardinality(batch) < Limit =>
    \A t \in visible, u \in batch : saved < pos[t] /\ pos[t] <= pos[u] => t \in batch

StateInv == Types /\ DocsInv /\ PageInv /\ RoundInv /\ PlaceInv /\ NoGapInv

LEMMA VisibleFacts ==
  ASSUME Types
  PROVE  /\ visible \subseteq Txs /\ visible \subseteq chain /\ chain \subseteq Txs
         /\ IsFiniteSet(visible) /\ Cardinality(visible) \in Nat
<1>1. chain \subseteq Txs /\ visible \subseteq chain
  BY DEF Types, Txs, visible
<1>2. IsFiniteSet(Txs)
  BY TxAssumption
<1>3. IsFiniteSet(visible)
  BY <1>1, <1>2, FS_Subset
<1> QED
  BY <1>1, <1>3, FS_CardinalityType

\* Requests are written before responses, and every transaction of a chain has
\* its write.
LEMMA WritesFacts ==
  ASSUME chain \in Chains
  PROVE  /\ Len(Writes) \in 1 .. 10
         /\ \A b : \A i, j \in 1 .. Len(Writes) :
              \A t \in Given(b, i) \intersect Requests,
                 x \in Given(b, j) \intersect Responds : i < j
         /\ \A b \in SUBSET chain : \A t \in b :
              \E i \in 1 .. Len(Writes) : t \in Given(b, i)
<1>1. \A t \in chain : t \in Txs
  BY DEF Txs
<1>2. Requests \intersect Responds = {} /\ \A t \in Txs : t \in Requests \/ t \in Responds
  BY DEF Responds
<1>3. CASE ForShield
  <2>1. Writes = ShieldWrites
    BY <1>3 DEF Writes
  <2>2. Len(Writes) = 2
    BY <2>1 DEF ShieldWrites
  <2>3. /\ Writes[1][1] = Requests /\ Writes[2][1] = Responds
        /\ Writes[1][2] = "shield" /\ Writes[2][2] = "shield"
    BY <2>1 DEF ShieldWrites
  <2>4. ASSUME NEW b, NEW i \in 1 .. Len(Writes), NEW j \in 1 .. Len(Writes),
               NEW t \in Given(b, i) \intersect Requests,
               NEW x \in Given(b, j) \intersect Responds
        PROVE  i < j
    BY <1>2, <2>2, <2>3, <2>4 DEF Given
  <2>5. ASSUME NEW b \in SUBSET chain, NEW t \in b
        PROVE  \E i \in 1 .. Len(Writes) : t \in Given(b, i)
    <3>1. Family[t] = "shield"
      BY <1>3 DEF ForShield
    <3>2. CASE t \in Requests
      <4>1. t \in Given(b, 1)
        BY <2>3, <3>1, <3>2 DEF Given
      <4> QED
        BY <2>2, <4>1
    <3>3. CASE t \in Responds
      <4>1. t \in Given(b, 2)
        BY <2>3, <3>1, <3>3 DEF Given
      <4> QED
        BY <2>2, <4>1
    <3> QED
      BY <1>1, <1>2, <3>2, <3>3
  <2> QED
    BY <2>2, <2>4, <2>5
<1>4. CASE ~ForShield
  <2>1. Writes = LiquidityWrites
    BY <1>4 DEF Writes
  <2>2. Len(Writes) = 10
    BY <2>1 DEF LiquidityWrites
  <2>3. /\ \A i \in 1 .. 5 : Writes[i][1] = Requests
        /\ \A i \in 6 .. 10 : Writes[i][1] = Responds
    BY <2>1 DEF LiquidityWrites
  <2>4. \A f \in Liquidity : \E i \in 1 .. 5 : Writes[i][2] = f /\ Writes[i + 5][2] = f
    BY <2>1 DEF LiquidityWrites, Liquidity
  <2>5. ASSUME NEW b, NEW i \in 1 .. Len(Writes), NEW j \in 1 .. Len(Writes),
               NEW t \in Given(b, i) \intersect Requests,
               NEW x \in Given(b, j) \intersect Responds
        PROVE  i < j
    <3>1. i \in 1 .. 5
      BY <1>2, <2>2, <2>3 DEF Given
    <3>2. j \in 6 .. 10
      BY <1>2, <2>2, <2>3 DEF Given
    <3> QED
      BY <3>1, <3>2
  <2>6. ASSUME NEW b \in SUBSET chain, NEW t \in b
        PROVE  \E i \in 1 .. Len(Writes) : t \in Given(b, i)
    <3>1. PICK u \in chain : Family[u] # "shield"
      BY <1>4 DEF ForShield
    <3>2. t \in chain /\ t \in Txs
      BY <1>1
    <3>3. Family[t] # "shield"
      BY <3>1, <3>2, TxAssumption
    <3>4. Family[t] \in Liquidity
      BY <3>2, <3>3, Families
    <3>5. PICK i \in 1 .. 5 : Writes[i][2] = Family[t] /\ Writes[i + 5][2] = Family[t]
      BY <2>4, <3>4
    <3>6. CASE t \in Requests
      <4>1. t \in Given(b, i)
        BY <2>3, <3>5, <3>6 DEF Given
      <4> QED
        BY <2>2, <4>1
    <3>7. CASE t \in Responds
      <4>1. i + 5 \in 6 .. 10
        OBVIOUS
      <4>2. t \in Given(b, i + 5)
        BY <2>3, <3>5, <3>7, <4>1 DEF Given
      <4> QED
        BY <2>2, <4>1, <4>2
    <3> QED
      BY <1>2, <3>2, <3>6, <3>7
  <2> QED
    BY <2>2, <2>5, <2>6
<1> QED
  BY <1>3, <1>4

LEMMA WritesInterval ==
  ASSUME chain \in Chains
  PROVE  1 .. Len(Writes) \subseteq 1 .. 10
<1>1. Len(Writes) \in 1 .. 10
  BY WritesFacts
<1>2. \A n \in 1 .. 10 : 1 .. n \subseteq 1 .. 10
  OBVIOUS
<1> QED
  BY <1>1, <1>2, Zenon

\* What the jump to the next write does.
LEMMA GoToFacts ==
  ASSUME chain \in Chains, NEW b, NEW i \in 1 .. Len(Writes) + 1, GoToWrite(b, i)
  PROVE  \/ /\ pc' = "cursor" /\ step' = 1 /\ rest' = {}
            /\ \A k \in i .. Len(Writes) : Given(b, k) = {}
         \/ /\ pc' = "write" /\ step' \in i .. Len(Writes)
            /\ rest' = Given(b, step') /\ rest' # {}
            /\ \A k \in i .. step' - 1 : Given(b, k) = {}
<1> DEFINE todo == {j \in i .. Len(Writes) : Given(b, j) # {}}
<1>1. Len(Writes) \in Nat
  BY WritesFacts
<1>2. todo \subseteq Nat /\ todo \subseteq i .. Len(Writes)
  BY <1>1
<1>3. CASE todo = {}
  <2>1. FirstWrite(b, i) = 0
    BY <1>3 DEF FirstWrite
  <2> QED
    BY <1>3, <2>1 DEF GoToWrite
<1>4. CASE todo # {}
  <2>1. FirstWrite(b, i) = First(todo)
    BY <1>4 DEF FirstWrite
  <2> DEFINE n == First(todo)
  <2> HIDE DEF todo
  <2>2. n \in todo /\ \A j \in todo : n <= j
    BY <1>2, <1>4, FirstIsLeast
  <2> HIDE DEF n
  <2>3. n \in i .. Len(Writes) /\ Given(b, n) # {} /\ n # 0
    BY <1>1, <1>2, <2>2 DEF todo
  <2>4. pc' = "write" /\ step' = n /\ rest' = Given(b, n)
    BY <2>1, <2>3 DEF GoToWrite, n
  <2>5. \A k \in i .. n - 1 : Given(b, k) = {}
    BY <1>1, <2>2, <2>3 DEF todo
  <2> QED
    BY <2>3, <2>4, <2>5
<1> QED
  BY <1>3, <1>4

-----------------------------------------------------------------------------
(* Each step keeps the documents. *)

LEMMA SameDocs ==
  ASSUME DocsInv, docs' = docs
  PROVE  DocsInv' /\ Kept
<1>1. DocsInv'
  BY DEF DocsInv, HalfOpenOnce
<1>2. Kept
  BY DEF Kept, Grown
<1> QED
  BY <1>1, <1>2

LEMMA AddedDoc ==
  ASSUME DocsInv, NEW t \in Requests,
         Family[t] = "contribution" => HalfOpen(t) = {},
         docs' = Added(t)
  PROVE  DocsInv' /\ Kept /\ Documented(t)'
<1>1. CASE Cardinality(DocsOf(t)) < MaxCopies
  <2>1. docs' = Append(docs, NewDoc(t))
    BY <1>1 DEF Added
  <2> QED
    BY <2>1, AddDoc
<1>2. CASE ~(Cardinality(DocsOf(t)) < MaxCopies)
  <2>1. docs' = docs
    BY <1>2 DEF Added
  <2>2. DocsOf(t) # {}
    BY <1>2, FS_EmptySet, BoundsAssumption
  <2>3. Documented(t)'
    BY <2>1, <2>2 DEF Documented, DocsOf, Lists
  <2> QED
    BY <2>1, <2>3, SameDocs
<1> QED
  BY <1>1, <1>2

\* The current write is about requests, or about responses.
LEMMA RestFacts ==
  ASSUME StateInv, pc = "write", NEW t \in rest
  PROVE  /\ t \in batch /\ t \in Txs /\ t \in Given(batch, step)
         /\ Writes[step][1] = Requests => t \in Requests
         /\ Writes[step][1] = Responds => t \in Responds
<1>1. t \in Given(batch, step)
  BY DEF StateInv, RoundInv
<1>2. t \in batch /\ t \in visible
  BY DEF StateInv, Types
<1>3. t \in Txs
  BY <1>2, VisibleFacts DEF StateInv
<1> QED
  BY <1>1, <1>2, <1>3 DEF Given

LEMMA RefreshDocs ==
  ASSUME StateInv, RefreshPage
  PROVE  DocsInv' /\ Kept
<1>0. DocsInv
  BY DEF StateInv
<1>1. CASE ListToUpdate = {}
  <2>1. docs' = docs
    BY <1>1 DEF RefreshPage
  <2> QED
    BY <1>0, <2>1, SameDocs
<1>2. CASE ListToUpdate # {}
  <2> DEFINE d == First(ListToUpdate)
             r == Request(d)
  <2>1. page \subseteq DOMAIN docs /\ \A e \in page : docs[e].family \notin Plain
    BY DEF StateInv, PageInv
  <2>2. ListToUpdate \subseteq page /\ ListToUpdate \subseteq Nat
    BY <1>0, <2>1, DocFields DEF ListToUpdate
  <2>3. d \in ListToUpdate
    BY <1>2, <2>2, FirstIsLeast
  <2>4. docs' = [docs EXCEPT ![FirstDoc(r)].status = Result(r)]
    BY <1>2 DEF RefreshPage, Result
  <2> HIDE DEF d
  <2>5. d \in DOMAIN docs /\ docs[d].family \notin Plain
    BY <2>1, <2>2, <2>3
  <2>6. 1 \in DOMAIN docs[d].reqs /\ docs[d].reqs[1] = r
    BY <1>0, <2>5, DocFields DEF Request
  <2>7. d \in DocsOf(r)
    BY <1>0, <2>5, <2>6, DocsOfType
  <2>8. Documented(r)
    BY <2>7 DEF Documented
  <2>9. Family[r] \notin Plain
    BY <1>0, <2>5, <2>7, DocOfFamily
  <2> HIDE DEF r
  <2> QED
    BY <1>0, <2>4, <2>8, <2>9, SettleDoc
<1> QED
  BY <1>1, <1>2

LEMMA StepDocs ==
  ASSUME StateInv, [Next]_vars
  PROVE  DocsInv' /\ Kept
<1>0. DocsInv
  BY DEF StateInv
<1>1. ASSUME NEW t \in Txs, Insert(t) \/ Decide(t) PROVE DocsInv' /\ Kept
  BY <1>0, <1>1, SameDocs DEF Insert, Decide
<1>2. CASE Start \/ Fetch \/ SaveCursor \/ GetPage \/ StakingPanics \/ Crash
  <2>1. docs' = docs
    BY <1>2 DEF Start, Fetch, Take, SaveCursor, EndWrites, GetPage, StakingPanics, Crash, Lose
  <2> QED
    BY <1>0, <2>1, SameDocs
<1>3. CASE InsertRequest
  <2>1. PICK t \in rest : /\ pc = "write" /\ Writes[step][1] = Requests
                          /\ Family[t] # "contribution" /\ docs' = Added(t)
    BY <1>3 DEF InsertRequest
  <2>2. t \in Requests
    BY <2>1, RestFacts
  <2> QED
    BY <1>0, <2>1, <2>2, AddedDoc
<1>4. CASE Contribute
  <2>1. PICK t \in rest :
          /\ pc = "write" /\ Writes[step][1] = Requests /\ Family[t] = "contribution"
          /\ docs' = IF HalfOpen(t) = {} THEN Added(t)
                     ELSE [docs EXCEPT ![First(HalfOpen(t))].reqs = Append(@, t)]
    BY <1>4 DEF Contribute
  <2>2. t \in Requests
    BY <2>1, RestFacts
  <2>3. CASE HalfOpen(t) = {}
    BY <1>0, <2>1, <2>2, <2>3, AddedDoc
  <2>4. CASE HalfOpen(t) # {}
    <3>1. docs' = [docs EXCEPT ![First(HalfOpen(t))].reqs = Append(@, t)]
      BY <2>1, <2>4
    <3> QED
      BY <1>0, <2>1, <2>2, <2>4, <3>1, JoinDoc
  <2> QED
    BY <2>3, <2>4
<1>5. CASE UpdateRespond \/ UpdateStaking
  <2>1. PICK x \in rest : /\ pc = "write" /\ Writes[step][1] = Responds
                          /\ docs' = Updated(x)
    BY <1>5 DEF UpdateRespond, UpdateStaking
  <2>2. x \in Responds
    BY <2>1, RestFacts
  <2>3. CASE Documented(Target[x])
    BY <1>0, <2>1, <2>2, <2>3, AnswerDoc
  <2>4. CASE ~Documented(Target[x])
    <3>1. docs' = docs
      BY <2>1, <2>4 DEF Updated
    <3> QED
      BY <1>0, <3>1, SameDocs
  <2> QED
    BY <2>3, <2>4
<1>6. CASE RefreshPage
  BY <1>6, RefreshDocs
<1>7. CASE UNCHANGED vars
  BY <1>0, <1>7, SameDocs DEF vars
<1> QED
  BY <1>1, <1>2, <1>3, <1>4, <1>5, <1>6, <1>7 DEF Next, Feed, Process

-----------------------------------------------------------------------------
(* Each step keeps the types and the round. *)

RestInv == Types /\ PageInv /\ RoundInv /\ PlaceInv /\ NoGapInv

LEMMA PageKept ==
  ASSUME StateInv, Kept, page' \subseteq page
  PROVE  PageInv'
BY DEF StateInv, PageInv, Kept, Grown

LEMMA SameChain ==
  ASSUME chain' = chain
  PROVE  /\ Writes' = Writes
         /\ pos' = pos => visible' = visible
BY DEF Writes, ForShield, visible

LEMMA InsertRest ==
  ASSUME StateInv, Kept, NEW t \in Txs, Insert(t)
  PROVE  /\ RestInv'
         /\ visible' = visible \union {t} /\ t \notin visible
         /\ pos'[t] > saved
         /\ \A u \in visible : pos'[u] = pos[u] /\ pos[u] < pos'[t]
<1>1. Types /\ PlaceInv /\ RoundInv /\ NoGapInv
  BY DEF StateInv
<1>2. /\ t \in chain /\ t \notin visible /\ chain' = chain
      /\ pos' = [pos EXCEPT ![t] = Cardinality(visible) + 1]
      /\ UNCHANGED <<decided, procVars, docs, overtaken, crashes>>
  BY DEF Insert
<1>3. Cardinality(visible) \in Nat /\ IsFiniteSet(visible) /\ visible \subseteq Txs
  BY <1>1, VisibleFacts
<1>4. /\ pos' \in [Txs -> Nat] /\ pos'[t] = Cardinality(visible) + 1
      /\ \A u \in Txs : u # t => pos'[u] = pos[u]
  BY <1>1, <1>2, <1>3 DEF Types
<1>5. visible' = visible \union {t}
  <2>1. chain \subseteq Txs
    BY <1>1, VisibleFacts
  <2> QED
    BY <1>2, <1>3, <1>4, <2>1 DEF visible
<1>6. Cardinality(visible') = Cardinality(visible) + 1
  BY <1>2, <1>3, <1>5, FS_AddElement
<1>7. \A u \in visible : pos'[u] = pos[u] /\ pos[u] \in Nat /\ pos[u] <= Cardinality(visible)
  BY <1>1, <1>2, <1>3, <1>4 DEF PlaceInv, Types
<1>8. saved \in Nat /\ saved <= Cardinality(visible)
  BY <1>1 DEF PlaceInv, Types
<1>9. Types'
  BY <1>1, <1>2, <1>4, <1>5 DEF Types, procVars
<1>10. PageInv'
  <2>1. page' = page
    BY <1>2 DEF procVars
  <2> QED
    BY <2>1, PageKept
<1>11. RoundInv'
  <2>1. Writes' = Writes
    BY <1>2, SameChain
  <2>2. UNCHANGED <<pc, step, batch, rest, cursor, saved>>
    BY <1>2 DEF procVars
  <2> QED
    BY <1>1, <2>1, <2>2 DEF RoundInv, Given
<1>12. PlaceInv'
  <2>1. batch' = batch /\ saved' = saved /\ batch \subseteq visible
    BY <1>1, <1>2 DEF procVars, Types
  <2>2. \A u \in visible' : pos'[u] <= Cardinality(visible')
    BY <1>3, <1>4, <1>5, <1>6, <1>7
  <2>3. saved' <= Cardinality(visible')
    BY <1>3, <1>6, <1>8, <2>1
  <2>4. \A u \in batch' : saved' < pos'[u]
    BY <1>1, <1>7, <2>1 DEF PlaceInv
  <2> QED
    BY <2>2, <2>3, <2>4 DEF PlaceInv
<1>13. NoGapInv'
  <2>1. batch' = batch /\ saved' = saved /\ batch \subseteq visible
    BY <1>1, <1>2 DEF procVars, Types
  <2> SUFFICES ASSUME Cardinality(batch) < Limit,
                      NEW u \in visible', NEW v \in batch,
                      saved < pos'[u], pos'[u] <= pos'[v]
               PROVE  u \in batch
    BY <2>1 DEF NoGapInv
  <2>2. CASE u \in visible
    BY <1>1, <1>7, <2>1, <2>2 DEF NoGapInv
  <2>3. CASE u = t
    BY <1>3, <1>4, <1>7, <2>1, <2>3
  <2> QED
    BY <1>5, <2>2, <2>3
<1>14. pos'[t] > saved /\ \A u \in visible : pos[u] < pos'[t]
  BY <1>3, <1>4, <1>7, <1>8
<1> QED
  BY <1>2, <1>5, <1>7, <1>9, <1>10, <1>11, <1>12, <1>13, <1>14 DEF RestInv

LEMMA DecideRest ==
  ASSUME StateInv, Kept, NEW t \in Txs, Decide(t)
  PROVE  RestInv'
<1>1. Types /\ PlaceInv /\ RoundInv /\ NoGapInv
  BY DEF StateInv
<1>2. UNCHANGED <<chain, pos, procVars, docs, overtaken, crashes>>
  BY DEF Decide
<1>3. Writes' = Writes /\ visible' = visible
  BY <1>2, SameChain
<1>4. decided' \subseteq Requests
  BY <1>1 DEF Decide, Types
<1>5. Types'
  BY <1>1, <1>2, <1>3, <1>4 DEF Types, procVars
<1>6. page' = page /\ UNCHANGED <<pc, step, batch, rest, cursor, saved>>
  BY <1>2 DEF procVars
<1>7. PageInv'
  BY <1>6, PageKept
<1>8. RoundInv'
  BY <1>1, <1>3, <1>6 DEF RoundInv, Given
<1>9. PlaceInv' /\ NoGapInv'
  BY <1>1, <1>2, <1>3, <1>6 DEF PlaceInv, NoGapInv
<1> QED
  BY <1>5, <1>7, <1>8, <1>9 DEF RestInv

LEMMA StartRest ==
  ASSUME StateInv, Kept, Start
  PROVE  RestInv'
<1>1. Types /\ PlaceInv /\ RoundInv /\ NoGapInv
  BY DEF StateInv
<1>2. /\ pc = "load" /\ pc' = "fetch" /\ cursor' = saved
      /\ UNCHANGED <<chain, pos, decided, step, batch, rest, saved, offset, page, docs,
                     overtaken, crashes>>
  BY DEF Start, feedVars
<1>3. Writes' = Writes /\ visible' = visible
  BY <1>2, SameChain
<1>4. Types'
  BY <1>1, <1>2, <1>3 DEF Types
<1>5. PageInv'
  BY <1>2, PageKept
<1>6. RoundInv'
  BY <1>1, <1>2, <1>3 DEF RoundInv
<1>7. PlaceInv' /\ NoGapInv'
  BY <1>1, <1>2, <1>3 DEF PlaceInv, NoGapInv
<1> QED
  BY <1>4, <1>5, <1>6, <1>7 DEF RestInv

LEMMA LoseRest ==
  ASSUME StateInv, Kept, Lose, crashes' \in 0 .. MaxCrash
  PROVE  RestInv'
<1>1. Types /\ PlaceInv /\ RoundInv /\ NoGapInv
  BY DEF StateInv
<1>2. /\ pc' = "load" /\ step' = 1 /\ batch' = {} /\ rest' = {} /\ cursor' = 0
      /\ offset' = 0 /\ page' = {}
      /\ UNCHANGED <<chain, pos, decided, saved, docs, overtaken>>
  BY DEF Lose, feedVars
<1>3. Writes' = Writes /\ visible' = visible
  BY <1>2, SameChain
<1>4. Types'
  BY <1>1, <1>2, <1>3 DEF Types
<1>5. PageInv'
  BY <1>2 DEF PageInv
<1>6. RoundInv'
  BY <1>1, <1>2, <1>3 DEF RoundInv
<1>7. PlaceInv' /\ NoGapInv'
  BY <1>1, <1>2, <1>3 DEF PlaceInv, NoGapInv
<1> QED
  BY <1>4, <1>5, <1>6, <1>7 DEF RestInv

LEMMA FetchRest ==
  ASSUME StateInv, Kept, Fetch
  PROVE  /\ RestInv'
         /\ UNCHANGED <<chain, pos, cursor, saved, docs, overtaken>>
         /\ pc = "fetch" /\ GoToWrite(batch', 1)
<1>1. Types /\ PlaceInv /\ RoundInv /\ NoGapInv
  BY DEF StateInv
<1> DEFINE S == {t \in visible : pos[t] > cursor}
<1>2. PICK b \in SUBSET visible : FirstOf(S, b) /\ Take(b)
  BY DEF Fetch
<1>3. /\ batch' = b /\ GoToWrite(b, 1)
      /\ UNCHANGED <<chain, pos, decided, cursor, saved, offset, page, docs, overtaken,
                     crashes>>
  BY <1>2 DEF Take, feedVars
<1>4. pc = "fetch" /\ cursor = saved
  BY <1>1 DEF Fetch, RoundInv
<1>5. Writes' = Writes /\ visible' = visible
  BY <1>3, SameChain
<1>6. chain \in Chains /\ Len(Writes) \in 1 .. 10
  BY <1>1, WritesFacts DEF Types
<1>7. \/ pc' = "cursor" /\ step' = 1 /\ rest' = {}
      \/ pc' = "write" /\ step' \in 1 .. Len(Writes) /\ rest' = Given(b, step')
  <2>1. 1 \in 1 .. Len(Writes) + 1
    BY <1>6
  <2> QED
    BY <1>3, <1>6, <2>1, GoToFacts
<1>8. Types'
  <2>1. rest' \subseteq b /\ pc' \in {"cursor", "write"}
    BY <1>7 DEF Given
  <2> QED
    BY <1>1, <1>2, <1>3, <1>5, <2>1 DEF Types
<1>9. PageInv'
  BY <1>3, PageKept
<1>10. RoundInv'
  BY <1>1, <1>3, <1>4, <1>5, <1>7 DEF RoundInv, Given
<1>11. b \subseteq S /\ \A t \in b : saved < pos[t]
  BY <1>1, <1>2, <1>4 DEF FirstOf, Types
<1>12. PlaceInv'
  BY <1>1, <1>3, <1>5, <1>11 DEF PlaceInv
<1>13. NoGapInv'
  <2> SUFFICES ASSUME Cardinality(b) < Limit, NEW t \in visible, saved < pos[t]
               PROVE  t \in b
    BY <1>3, <1>5 DEF NoGapInv
  <2>1. IsFiniteSet(visible) /\ S \subseteq visible
    BY <1>1, VisibleFacts
  <2>2. IsFiniteSet(S)
    BY <2>1, FS_Subset
  <2>3. Cardinality(S) \in Nat /\ Limit \in Nat
    BY <2>2, FS_CardinalityType, BoundsAssumption
  <2>4. Cardinality(b) = IF Cardinality(S) < Limit THEN Cardinality(S) ELSE Limit
    BY <1>2 DEF FirstOf
  <2>5. Cardinality(b) = Cardinality(S)
    <3>1. CASE Cardinality(S) < Limit
      BY <2>4, <3>1
    <3>2. CASE ~(Cardinality(S) < Limit)
      BY <2>3, <2>4, <3>2
    <3> QED
      BY <3>1, <3>2
  <2>6. b = S
    BY <1>11, <2>2, <2>5, FS_Subset
  <2>7. pos[t] > cursor
    BY <1>1, <1>4, VisibleFacts DEF Types
  <2> QED
    BY <2>6, <2>7
<1> QED
  BY <1>3, <1>4, <1>8, <1>9, <1>10, <1>12, <1>13 DEF RestInv

LEMMA WroteRest ==
  ASSUME StateInv, Kept, pc = "write", NEW r \in SUBSET rest, Wrote(r)
  PROVE  /\ RestInv'
         /\ UNCHANGED <<chain, pos, batch, cursor, saved, overtaken>>
         /\ \/ rest' = r /\ pc' = "write" /\ step' = step
            \/ r = {} /\ GoToWrite(batch, step + 1)
<1>1. Types /\ PlaceInv /\ RoundInv /\ NoGapInv
  BY DEF StateInv
<1>2. UNCHANGED <<chain, pos, decided, batch, cursor, saved, offset, page, overtaken, crashes>>
  BY DEF Wrote, feedVars
<1>3. \/ rest' = r /\ pc' = "write" /\ step' = step
      \/ r = {} /\ GoToWrite(batch, step + 1)
  BY DEF Wrote
<1>4. Writes' = Writes /\ visible' = visible
  BY <1>2, SameChain
<1>5. chain \in Chains /\ Len(Writes) \in 1 .. 10
  BY <1>1, WritesFacts DEF Types
<1>6. /\ step \in 1 .. Len(Writes) /\ rest \subseteq Given(batch, step)
      /\ cursor = saved
  BY <1>1 DEF RoundInv
<1>7. \/ pc' = "cursor" /\ step' = 1 /\ rest' = {}
      \/ pc' = "write" /\ step' \in 1 .. Len(Writes) /\ rest' \subseteq Given(batch, step')
  <2>1. CASE rest' = r /\ pc' = "write" /\ step' = step
    BY <1>6, <2>1
  <2>2. CASE r = {} /\ GoToWrite(batch, step + 1)
    <3>1. step + 1 \in 1 .. Len(Writes) + 1
      BY <1>5, <1>6
    <3>2. \A k \in step + 1 .. Len(Writes) : k \in 1 .. Len(Writes)
      BY <1>5, <1>6
    <3> HIDE DEF Wrote
    <3> QED
      BY <1>5, <2>2, <3>1, <3>2, GoToFacts
  <2> QED
    BY <1>3, <2>1, <2>2
<1>8. Types'
  <2>1. rest' \subseteq batch /\ pc' \in {"cursor", "write"}
    BY <1>7 DEF Given
  <2> QED
    BY <1>1, <1>2, <1>4, <2>1 DEF Types
<1>9. PageInv'
  BY <1>2, PageKept
<1>10. RoundInv'
  BY <1>1, <1>2, <1>4, <1>6, <1>7 DEF RoundInv, Given
<1>11. PlaceInv' /\ NoGapInv'
  BY <1>1, <1>2, <1>4 DEF PlaceInv, NoGapInv
<1> QED
  BY <1>2, <1>3, <1>8, <1>9, <1>10, <1>11 DEF RestInv

LEMMA CursorRest ==
  ASSUME StateInv, Kept, SaveCursor
  PROVE  RestInv'
<1>1. Types /\ PlaceInv /\ RoundInv /\ NoGapInv
  BY DEF StateInv
<1>2. PICK p : /\ EndWrites(p)
               /\ p = cursor \/ \E t \in batch : p = pos[t]
  BY DEF SaveCursor
<1>3. /\ cursor' = p /\ saved' = p /\ overtaken' = overtaken \union Skipped(p)
      /\ batch' = {} /\ pc' \in {"fetch", "page"}
      /\ UNCHANGED <<chain, pos, decided, step, rest, offset, page, docs, crashes>>
  BY <1>2 DEF EndWrites, feedVars
<1>4. Writes' = Writes /\ visible' = visible
  BY <1>3, SameChain
<1>5. pc = "cursor" /\ cursor = saved /\ step \in 1 .. 5 /\ rest = {}
  BY <1>1 DEF RoundInv, SaveCursor
<1>6. p \in Nat /\ p <= Cardinality(visible)
  <2>1. CASE p = cursor
    BY <1>1, <1>5, <2>1 DEF PlaceInv, Types
  <2>2. CASE \E t \in batch : p = pos[t]
    BY <1>1, <2>2, VisibleFacts DEF PlaceInv, Types
  <2> QED
    BY <1>2, <2>1, <2>2
<1>7. Skipped(p) \subseteq visible
  BY DEF Skipped
<1>8. Types'
  BY <1>1, <1>3, <1>4, <1>5, <1>6, <1>7 DEF Types
<1>9. PageInv'
  BY <1>3, PageKept
<1>10. RoundInv'
  BY <1>1, <1>3, <1>4, <1>5 DEF RoundInv
<1>11. PlaceInv' /\ NoGapInv'
  BY <1>1, <1>3, <1>4, <1>6 DEF PlaceInv, NoGapInv
<1> QED
  BY <1>8, <1>9, <1>10, <1>11 DEF RestInv

\* The pages of a loop are of documents with a status.
LEMMA PageAtFacts ==
  ASSUME DocsInv, NEW i \in 1 .. 5, NEW n \in Nat
  PROVE  /\ PageAt(i, n) \subseteq DOMAIN docs
         /\ Cardinality(PageAt(i, n)) \in Nat
         /\ \A d \in PageAt(i, n) : docs[d].family \notin Plain
<1>1. PageAt(i, n) \subseteq Pending(i) /\ Pending(i) \subseteq DOMAIN docs
  BY DEF PageAt, Pending
<1>2. docs \in Seq(Doc) /\ Len(docs) \in Nat /\ DOMAIN docs = 1 .. Len(docs)
  BY DEF DocsInv
<1>3. IsFiniteSet(DOMAIN docs)
  BY <1>2, FS_Interval
<1>4. Cardinality(PageAt(i, n)) \in Nat
  BY <1>1, <1>3, FS_Subset, FS_CardinalityType
<1>5. Loops[i] \in {"withdraw", "fee", "stake", "unstake", "reward"}
  BY DEF Loops
<1>6. \A d \in Pending(i) : docs[d].family \notin Plain
  BY <1>5 DEF Pending, Plain
<1> QED
  BY <1>1, <1>4, <1>6

LEMMA PageRest ==
  ASSUME StateInv, Kept, GetPage
  PROVE  /\ RestInv'
         /\ UNCHANGED <<chain, pos, batch, saved, overtaken, docs>>
<1>1. Types /\ PlaceInv /\ RoundInv /\ NoGapInv /\ DocsInv
  BY DEF StateInv
<1> DEFINE later == {i \in DOMAIN Loops : i > step /\ Pending(i) # {}}
<1>2. pc = "page" /\ UNCHANGED <<chain, pos, decided, batch, rest, cursor, saved, docs,
                                 overtaken, crashes>>
  BY DEF GetPage, feedVars
<1>3. step \in 1 .. 5 /\ offset \in Nat /\ cursor = saved /\ batch = {} /\ rest = {}
  BY <1>1, <1>2 DEF RoundInv, Types
<1>4. Writes' = Writes /\ visible' = visible
  BY <1>2, SameChain
<1>5. /\ pc' \in {"refresh", "fetch"} /\ step' \in 1 .. 5 /\ offset' \in Nat
      /\ page' \subseteq DOMAIN docs /\ \A d \in page' : docs[d].family \notin Plain
  <2>1. ASSUME NEW i \in 1 .. 5, NEW n \in Nat, TakePage(i, n)
        PROVE  /\ pc' \in {"refresh", "fetch"} /\ step' \in 1 .. 5 /\ offset' \in Nat
               /\ page' \subseteq DOMAIN docs
               /\ \A d \in page' : docs[d].family \notin Plain
    <3>1. /\ pc' = "refresh" /\ step' = i /\ page' = PageAt(i, n)
          /\ offset' = n + Cardinality(PageAt(i, n))
      BY <2>1 DEF TakePage
    <3>2. /\ PageAt(i, n) \subseteq DOMAIN docs
          /\ Cardinality(PageAt(i, n)) \in Nat
          /\ \A d \in PageAt(i, n) : docs[d].family \notin Plain
      BY <1>1, PageAtFacts
    <3> QED
      BY <3>1, <3>2
  <2>2. CASE PageAt(step, offset) # {}
    <3>1. TakePage(step, offset)
      BY <2>2 DEF GetPage
    <3> QED
      BY <1>3, <2>1, <3>1
  <2>3. CASE PageAt(step, offset) = {} /\ later # {}
    <3>1. TakePage(First(later), 0)
      BY <2>3 DEF GetPage
    <3>2. later \subseteq 1 .. 5 /\ later \subseteq Nat
      BY DEF Loops
    <3> HIDE DEF later
    <3>3. First(later) \in 1 .. 5
      BY <2>3, <3>2, FirstIsLeast
    <3> QED
      BY <2>1, <3>1, <3>3
  <2>4. CASE PageAt(step, offset) = {} /\ later = {}
    BY <2>4 DEF GetPage
  <2> QED
    BY <2>2, <2>3, <2>4
<1>6. Types'
  BY <1>1, <1>2, <1>4, <1>5 DEF Types
<1>7. PageInv'
  BY <1>2, <1>5 DEF PageInv
<1>8. RoundInv'
  BY <1>1, <1>2, <1>3, <1>4, <1>5 DEF RoundInv
<1>9. PlaceInv' /\ NoGapInv'
  BY <1>1, <1>2, <1>4 DEF PlaceInv, NoGapInv
<1> QED
  BY <1>2, <1>6, <1>7, <1>8, <1>9 DEF RestInv

LEMMA RefreshRest ==
  ASSUME StateInv, Kept, RefreshPage
  PROVE  /\ RestInv'
         /\ UNCHANGED <<chain, pos, batch, saved, overtaken>>
<1>1. Types /\ PlaceInv /\ RoundInv /\ NoGapInv
  BY DEF StateInv
<1>2. /\ pc = "refresh" /\ pc' = "page" /\ page' = {}
      /\ UNCHANGED <<chain, pos, decided, step, batch, rest, cursor, saved, offset,
                     overtaken, crashes>>
  BY DEF RefreshPage, feedVars
<1>3. Writes' = Writes /\ visible' = visible
  BY <1>2, SameChain
<1>4. Types'
  BY <1>1, <1>2, <1>3 DEF Types
<1>5. PageInv'
  BY <1>2 DEF PageInv
<1>6. RoundInv'
  BY <1>1, <1>2, <1>3 DEF RoundInv
<1>7. PlaceInv' /\ NoGapInv'
  BY <1>1, <1>2, <1>3 DEF PlaceInv, NoGapInv
<1> QED
  BY <1>2, <1>4, <1>5, <1>6, <1>7 DEF RestInv

-----------------------------------------------------------------------------
(* The invariant, and what follows from the documents alone. *)

\* The steps of a write, each with what is left of it.
LEMMA WriteStep ==
  ASSUME StateInv, InsertRequest \/ Contribute \/ UpdateRespond \/ UpdateStaking
  PROVE  pc = "write" /\ \E r \in SUBSET rest : Wrote(r)
BY DEF InsertRequest, Contribute, UpdateRespond, UpdateStaking

LEMMA StepState ==
  ASSUME StateInv, [Next]_vars
  PROVE  StateInv' /\ Kept
<1>1. DocsInv' /\ Kept
  BY StepDocs
<1>2. RestInv'
  <2>1. ASSUME NEW t \in Txs, Insert(t) PROVE RestInv'
    BY <1>1, <2>1, InsertRest
  <2>2. ASSUME NEW t \in Txs, Decide(t) PROVE RestInv'
    BY <1>1, <2>2, DecideRest
  <2>3. CASE Start
    BY <1>1, <2>3, StartRest
  <2>4. CASE Fetch
    BY <1>1, <2>4, FetchRest
  <2>5. CASE InsertRequest \/ Contribute \/ UpdateRespond \/ UpdateStaking
    <3>1. pc = "write"
      BY <2>5, WriteStep
    <3>2. PICK r \in SUBSET rest : Wrote(r)
      BY <2>5, WriteStep
    <3> QED
      BY <1>1, <3>1, <3>2, WroteRest
  <2>6. CASE StakingPanics
    <3>1. Lose /\ crashes' = crashes
      BY <2>6 DEF StakingPanics
    <3>2. crashes' \in 0 .. MaxCrash
      BY <3>1 DEF StateInv, Types
    <3> QED
      BY <1>1, <3>1, <3>2, LoseRest
  <2>7. CASE SaveCursor
    BY <1>1, <2>7, CursorRest
  <2>8. CASE GetPage
    BY <1>1, <2>8, PageRest
  <2>9. CASE RefreshPage
    BY <1>1, <2>9, RefreshRest
  <2>10. CASE Crash
    <3>1. Lose /\ crashes < MaxCrash /\ crashes' = crashes + 1
      BY <2>10 DEF Crash
    <3>2. crashes' \in 0 .. MaxCrash
      BY <3>1, BoundsAssumption DEF StateInv, Types
    <3> QED
      BY <1>1, <3>1, <3>2, LoseRest
  <2>11. CASE UNCHANGED vars
    <3>1. UNCHANGED <<chain, pos, decided, pc, step, batch, rest, cursor, saved, offset,
                      page, docs, overtaken, crashes>>
      BY <2>11 DEF vars, feedVars, procVars
    <3>2. Writes' = Writes /\ visible' = visible
      BY <3>1, SameChain
    <3>3. PageInv'
      BY <1>1, <3>1, PageKept
    <3> QED
      BY <3>1, <3>2, <3>3
      DEF StateInv, RestInv, Types, RoundInv, PlaceInv, NoGapInv, Given
  <2> QED
    BY <2>1, <2>2, <2>3, <2>4, <2>5, <2>6, <2>7, <2>8, <2>9, <2>10, <2>11
    DEF Next, Feed, Process
<1> QED
  BY <1>1, <1>2 DEF StateInv, RestInv

LEMMA InitState ==
  ASSUME Init
  PROVE  StateInv
<1>1. /\ chain \in Chains /\ pos = [t \in Txs |-> 0] /\ decided = {} /\ pc = "load"
      /\ step = 1 /\ batch = {} /\ rest = {} /\ cursor = 0 /\ saved = 0 /\ offset = 0
      /\ page = {} /\ docs = <<>> /\ overtaken = {} /\ crashes = 0
  BY DEF Init
<1>2. visible = {}
  <2>1. chain \subseteq Txs
    BY <1>1 DEF Txs
  <2> QED
    BY <1>1, <2>1 DEF visible
<1>3. Types
  BY <1>1, <1>2, BoundsAssumption DEF Types
<1>4. DOMAIN docs = {} /\ docs \in Seq(Doc)
  BY <1>1
<1>5. DocsInv
  BY <1>4 DEF DocsInv, HalfOpenOnce
<1>6. PageInv
  BY <1>1 DEF PageInv
<1>7. RoundInv
  BY <1>1 DEF RoundInv
<1>8. PlaceInv /\ NoGapInv
  BY <1>1, <1>2, FS_EmptySet DEF PlaceInv, NoGapInv
<1> QED
  BY <1>3, <1>5, <1>6, <1>7, <1>8 DEF StateInv

LEMMA SpecStateInv == Spec => []StateInv
<1>1. Init => StateInv
  BY InitState
<1>2. StateInv /\ [Next]_vars => StateInv'
  BY StepState
<1> QED
  BY <1>1, <1>2, PTL DEF Spec

\* The types of the two processors, whatever transactions they are given.
THEOREM SpecTypeOK == Spec => []TypeOK
<1>1. StateInv => TypeOK
  <2> SUFFICES ASSUME StateInv PROVE TypeOK
    OBVIOUS
  <2>1. Types /\ DocsInv /\ PageInv /\ RoundInv
    BY DEF StateInv
  <2>2. 1 .. Len(Writes) \subseteq 1 .. 10
    BY <2>1, WritesInterval DEF Types
  <2>3. step \in 1 .. 10
    <3>1. CASE pc = "write"
      <4>1. step \in 1 .. Len(Writes)
        BY <2>1, <3>1 DEF RoundInv
      <4> QED
        BY <2>2, <4>1, Zenon
    <3>2. CASE pc # "write"
      BY <2>1, <3>2 DEF RoundInv
    <3> QED
      BY <3>1, <3>2
  <2>4. \A i \in DOMAIN docs :
          Len(docs[i].reqs) \in 1 .. IF docs[i].family = "contribution" THEN 2 ELSE 1
    BY <2>1 DEF DocsInv, DocOK
  <2> QED
    BY <2>1, <2>3, <2>4, Zenon DEF TypeOK, Types, DocsInv, PageInv
<1> QED
  BY <1>1, SpecStateInv, PTL

\* What a user has been told about a request does not change: neither a response
\* nor the beacon gives another result to its first document, and a copy of it
\* that is written after a restart comes later.
THEOREM SpecResultStays == Spec => ResultStays
<1>1. StateInv /\ [Next]_vars =>
        [\A r \in Requests :
           Documented(r) /\ docs[FirstDoc(r)].status # 0
           => docs'[FirstDoc(r)].status = docs[FirstDoc(r)].status]_vars
  <2> SUFFICES ASSUME StateInv, [Next]_vars, NEW r \in Requests,
                      Documented(r), docs[FirstDoc(r)].status # 0
               PROVE  docs'[FirstDoc(r)].status = docs[FirstDoc(r)].status
    OBVIOUS
  <2>1. Kept
    BY StepState
  <2>2. FirstDoc(r) \in DOMAIN docs
    BY DocsOfType DEF StateInv
  <2> QED
    BY <2>1, <2>2 DEF Kept, Grown
<1> QED
  BY <1>1, SpecStateInv, PTL DEF Spec, ResultStays

LEMMA OneElement ==
  ASSUME DocsInv, NEW r, Cardinality(DocsOf(r)) = 1
  PROVE  \E i : DocsOf(r) = {i}
<1>1. DocsOf(r) \subseteq DOMAIN docs
  BY DocsOfType
<1>2. docs \in Seq(Doc) /\ Len(docs) \in Nat /\ DOMAIN docs = 1 .. Len(docs)
  BY DEF DocsInv
<1>3. IsFiniteSet(DOMAIN docs)
  <2>1. Len(docs) \in Int /\ 1 \in Int
    BY <1>2
  <2> QED
    BY <1>2, <2>1, FS_Interval
<1>4. IsFiniteSet(DocsOf(r))
  BY <1>1, <1>3, FS_Subset
<1> QED
  BY <1>4, FS_Singleton

\* The document of a contribution that is the only one of it, and does not have
\* it twice, has the other one of the pair or waits for it.
LEMMA AloneOrTogether ==
  ASSUME DocsInv, TwoOfAPair, NEW t \in Requests, NEW u \in Requests,
         Family[t] = "contribution", Family[u] = "contribution",
         t # u, Pair[t] = Pair[u],
         NEW i \in DocsOf(t), docs[i].reqs # <<t, t>>
  PROVE  \/ i \in DocsOf(u)
         \/ Len(docs[i].reqs) = 1 /\ docs[i].reqs[1] = t
<1>1. i \in DOMAIN docs
  BY DocsOfType
<1>2. PICK k \in DOMAIN docs[i].reqs : docs[i].reqs[k] = t
  BY DocsOfType
<1>3. docs[i].family = "contribution"
  BY DocOfFamily
<1>4. /\ docs[i].reqs \in Seq(Requests) /\ Len(docs[i].reqs) \in {1, 2}
      /\ DOMAIN docs[i].reqs = 1 .. Len(docs[i].reqs)
  BY <1>1, DocFields
<1>5. CASE Len(docs[i].reqs) = 1
  BY <1>2, <1>4, <1>5
<1>6. CASE Len(docs[i].reqs) = 2
  <2> DEFINE a == docs[i].reqs[1]
             b == docs[i].reqs[2]
  <2>1. 1 \in DOMAIN docs[i].reqs /\ 2 \in DOMAIN docs[i].reqs
    BY <1>4, <1>6
  <2>2. a \in Requests /\ b \in Requests
    BY <1>4, <2>1
  <2>3. Family[a] = "contribution" /\ Family[b] = "contribution" /\ Pair[a] = Pair[b]
    BY <1>1, <1>3, <2>1 DEF DocsInv, DocOK
  <2>4. docs[i].reqs = <<a, b>>
    BY <1>4, <1>6
  <2>5. a = t \/ b = t
    BY <1>2, <1>4, <1>6
  <2>6. ~(a = t /\ b = t)
    BY <2>4
  <2> HIDE DEF a, b
  <2>7. a = u \/ b = u
    BY <2>2, <2>3, <2>5, <2>6 DEF TwoOfAPair
  <2> QED
    BY <1>1, <2>1, <2>7, DocsOfType DEF a, b
<1> QED
  BY <1>4, <1>5, <1>6

\* The two contributions of a pair end in one document, in whatever order the
\* lock times of their senders put them, and wherever the process has ended,
\* unless one of them was written twice.
THEOREM SpecPairTogether ==
  ASSUME TwoOfAPair
  PROVE  Spec => []PairTogether
<1>1. ASSUME StateInv PROVE PairTogether
  <2>1. DocsInv
    BY <1>1 DEF StateInv
  <2> SUFFICES ASSUME NEW t \in Requests, NEW u \in Requests,
                      Family[t] = "contribution", Family[u] = "contribution",
                      t # u, Pair[t] = Pair[u],
                      Cardinality(DocsOf(t)) = 1, Cardinality(DocsOf(u)) = 1,
                      \A d \in DocsOf(t) : docs[d].reqs # <<t, t>>,
                      \A d \in DocsOf(u) : docs[d].reqs # <<u, u>>
               PROVE  DocsOf(t) = DocsOf(u)
    BY DEF PairTogether
  <2>2. PICK i : DocsOf(t) = {i}
    BY <2>1, OneElement
  <2>3. PICK j : DocsOf(u) = {j}
    BY <2>1, OneElement
  <2>4. i \in DocsOf(u) \/ (Len(docs[i].reqs) = 1 /\ docs[i].reqs[1] = t)
    BY <1>1, <2>1, <2>2, AloneOrTogether
  <2>5. j \in DocsOf(t) \/ (Len(docs[j].reqs) = 1 /\ docs[j].reqs[1] = u)
    BY <1>1, <2>1, <2>3, AloneOrTogether
  <2>6. CASE i \in DocsOf(u) \/ j \in DocsOf(t)
    BY <2>2, <2>3, <2>6
  <2>7. CASE /\ Len(docs[i].reqs) = 1 /\ docs[i].reqs[1] = t
             /\ Len(docs[j].reqs) = 1 /\ docs[j].reqs[1] = u
    <3>1. i \in DOMAIN docs /\ j \in DOMAIN docs
      BY <2>1, <2>2, <2>3, DocsOfType
    <3>2. docs[i].family = "contribution" /\ docs[j].family = "contribution"
      BY <2>1, <2>2, <2>3, DocOfFamily
    <3>3. i = j
      BY <2>1, <2>7, <3>1, <3>2 DEF DocsInv, HalfOpenOnce
    <3> QED
      BY <2>2, <2>3, <3>3
  <2> QED
    BY <2>4, <2>5, <2>6, <2>7
<1>2. StateInv => PairTogether
  BY <1>1
<1> QED
  BY <1>2, SpecStateInv, PTL

-----------------------------------------------------------------------------
(* What is behind the cursor is in the documents. *)

\* The request of the response x comes before it, and is passed or in the batch.
Known(x) == Target[x] \in Passed \union batch /\ pos[Target[x]] < pos[x]

InDoc(x)  == \E d \in DocsOf(Target[x]) : x \in docs[d].responds
Closed(x) == Documented(Target[x]) /\ docs[FirstDoc(Target[x])].status # 0

\* What PassedIsApplied and AnsweredIsClosed ask for one transaction.
Applied(t) ==
  /\ t \in Requests => Documented(t)
  /\ AnsweredOnce /\ t \in Responds /\ Known(t) /\ Family[t] # "stake" => InDoc(t)
  /\ t \in Responds /\ Known(t) /\ Family[t] \in {"withdraw", "fee", "reward"} => Closed(t)

\* The write of t is behind the round.
Done(t) ==
  \/ pc = "cursor"
  \/ /\ pc = "write"
     /\ \E i \in 1 .. Len(Writes) :
          t \in Given(batch, i) /\ (i < step \/ (i = step /\ t \notin rest))

DoneInv    == \A t \in batch : Done(t) => Applied(t)
AppliedInv == \A t \in Passed : Applied(t)

IInv == StateInv /\ DoneInv /\ AppliedInv

\* Facts about the documents of a request that are also needed of the next state.
DocsFacts ==
  \A r : /\ DocsOf(r) \subseteq Nat /\ DocsOf(r) \subseteq DOMAIN docs
         /\ \A i \in DocsOf(r) : docs[i].family = Family[r]
         /\ Documented(r) => /\ FirstDoc(r) \in DocsOf(r)
                             /\ \A j \in DocsOf(r) : FirstDoc(r) <= j

LEMMA DocsFactsHold == DocsInv => DocsFacts
BY DocsOfType, DocOfFamily DEF DocsFacts

LEMMA DocsFactsNext == DocsInv' => DocsFacts'
BY DocsFactsHold, PTL

\* A request that is not a contribution keeps its first document.
LEMMA FirstStays ==
  ASSUME DocsInv, DocsInv', Kept, NEW r, Documented(r)
  PROVE  /\ DocsOf(r) \subseteq DocsOf(r)' /\ Documented(r)'
         /\ Family[r] # "contribution" => FirstDoc(r)' = FirstDoc(r)
<1>1. DocsOf(r) \subseteq DocsOf(r)'
  <2> SUFFICES ASSUME NEW i \in DocsOf(r) PROVE i \in DocsOf(r)'
    OBVIOUS
  <2>1. i \in DOMAIN docs
    BY DocsOfType
  <2>2. PICK k \in DOMAIN docs[i].reqs : docs[i].reqs[k] = r
    BY DocsOfType
  <2>3. i \in DOMAIN docs' /\ k \in DOMAIN docs'[i].reqs /\ docs'[i].reqs[k] = r
    BY <2>1, <2>2 DEF Kept, Grown
  <2> QED
    BY <2>3 DEF DocsOf, Lists
<1>2. DocsOf(r) # {}
  BY DEF Documented
<1>3. Documented(r)'
  BY <1>1, <1>2 DEF Documented
<1>4. ASSUME Family[r] # "contribution" PROVE FirstDoc(r)' = FirstDoc(r)
  <2>1. /\ FirstDoc(r) \in DocsOf(r) /\ FirstDoc(r) \in DOMAIN docs /\ FirstDoc(r) \in Nat
        /\ \A j \in DocsOf(r) : FirstDoc(r) <= j
    BY DocsOfType
  <2>2. /\ DocsOf(r)' \subseteq Nat /\ DocsOf(r)' \subseteq DOMAIN docs'
        /\ FirstDoc(r)' \in DocsOf(r)'
        /\ \A j \in DocsOf(r)' : FirstDoc(r)' <= j
    BY <1>3, DocsFactsNext DEF DocsFacts
  <2>3. ASSUME NEW j \in DocsOf(r)', j \in DOMAIN docs PROVE j \in DocsOf(r)
    <3>1. docs'[j].family = Family[r]
      BY DocsFactsNext DEF DocsFacts
    <3>2. docs'[j].reqs = docs[j].reqs
      BY <1>4, <2>3, <3>1 DEF Kept, Grown
    <3> QED
      BY <2>3, <3>2 DEF DocsOf, Lists
  <2>4. FirstDoc(r)' \in DocsOf(r)
    <3>1. FirstDoc(r)' <= FirstDoc(r)
      BY <1>1, <2>1, <2>2
    <3>2. ASSUME FirstDoc(r)' \notin DOMAIN docs PROVE FALSE
      <4>1. FirstDoc(r) < FirstDoc(r)'
        BY <2>1, <2>2, <3>2 DEF Kept
      <4> QED
        BY <2>1, <2>2, <3>1, <4>1
    <3> QED
      BY <2>2, <2>3, <3>2
  <2>5. FirstDoc(r) <= FirstDoc(r)' /\ FirstDoc(r)' <= FirstDoc(r) /\ FirstDoc(r)' \in Nat
    BY <1>1, <2>1, <2>2, <2>4
  <2> QED
    BY <2>1, <2>5
<1> QED
  BY <1>1, <1>3, <1>4

LEMMA AppliedKept ==
  ASSUME DocsInv, DocsInv', Kept, NEW t \in Txs, Applied(t),
         t \in Responds => (Known(t)' => Known(t))
  PROVE  Applied(t)'
<1>1. ASSUME t \in Requests PROVE Documented(t)'
  BY <1>1, FirstStays DEF Applied
<1>2. ASSUME AnsweredOnce, t \in Responds, Known(t)', Family[t] # "stake"
      PROVE  InDoc(t)'
  <2>1. PICK d \in DocsOf(Target[t]) : t \in docs[d].responds
    BY <1>2 DEF Applied, InDoc
  <2>2. Documented(Target[t])
    BY <2>1 DEF Documented
  <2>3. d \in DOMAIN docs /\ docs[d].family = Family[t]
    BY <1>2, <2>1, DocsOfType, DocOfFamily, Families
  <2>4. t \in docs'[d].responds
    BY <1>2, <2>1, <2>3 DEF Kept, Grown
  <2>5. d \in DocsOf(Target[t])'
    BY <2>1, <2>2, FirstStays
  <2> QED
    BY <2>4, <2>5 DEF InDoc
<1>3. ASSUME t \in Responds, Known(t)', Family[t] \in {"withdraw", "fee", "reward"}
      PROVE  Closed(t)'
  <2>1. Documented(Target[t]) /\ docs[FirstDoc(Target[t])].status # 0
    BY <1>3 DEF Applied, Closed
  <2>2. Family[Target[t]] # "contribution"
    BY <1>3, Families
  <2>3. Documented(Target[t])' /\ FirstDoc(Target[t])' = FirstDoc(Target[t])
    BY <2>1, <2>2, FirstStays
  <2>4. FirstDoc(Target[t]) \in DOMAIN docs
    BY <2>1, DocsOfType
  <2>5. docs'[FirstDoc(Target[t])].status # 0
    BY <2>1, <2>4 DEF Kept, Grown
  <2> QED
    BY <2>3, <2>5 DEF Closed
<1> QED
  BY <1>1, <1>2, <1>3 DEF Applied

\* Steps that leave the cursor, the places and what is overtaken alone.
LEMMA SamePassed ==
  ASSUME UNCHANGED <<chain, pos, saved, overtaken>>, batch' \subseteq batch
  PROVE  /\ Passed' = Passed
         /\ \A x : Known(x)' => Known(x)
<1>1. visible' = visible
  BY SameChain
<1>2. Passed' = Passed
  BY <1>1 DEF Passed
<1> QED
  BY <1>2 DEF Known

\* What becomes visible has not been passed, and is nobody's request.
LEMMA InsertPassed ==
  ASSUME StateInv, Kept, NEW t \in Txs, Insert(t)
  PROVE  /\ Passed' = Passed
         /\ \A x \in visible : Known(x)' => Known(x)
<1>1. /\ visible' = visible \union {t} /\ t \notin visible /\ pos'[t] > saved
      /\ \A u \in visible : pos'[u] = pos[u] /\ pos[u] < pos'[t]
  BY InsertRest
<1>2. UNCHANGED <<chain, saved, batch, overtaken>>
  BY DEF Insert, procVars
<1>3. Types
  BY DEF StateInv
<1>4. /\ batch \subseteq visible /\ saved \in Nat /\ \A u \in visible : pos[u] \in Nat
      /\ pos'[t] \in Nat
  <2>1. pos' \in [Txs -> Nat]
    BY InsertRest DEF RestInv, Types
  <2> QED
    BY <1>3, <2>1, VisibleFacts DEF Types
<1>5. ~(pos'[t] <= saved)
  BY <1>1, <1>4
<1>6. Passed' = Passed
  BY <1>1, <1>2, <1>5 DEF Passed
<1>7. Passed \union batch \subseteq visible
  BY <1>4 DEF Passed
<1>8. ASSUME NEW x \in visible, Known(x)' PROVE Known(x)
  <2>1. Target[x] \in Passed \union batch /\ pos'[Target[x]] < pos'[x]
    BY <1>2, <1>6, <1>8 DEF Known
  <2> QED
    BY <1>1, <1>7, <1>8, <2>1 DEF Known
<1> QED
  BY <1>6, <1>8

\* A step that begins no round and ends none, after which no more is done.
LEMMA QuietStep ==
  ASSUME IInv, StateInv', Kept, Passed' = Passed, batch' \subseteq batch,
         \A x \in visible : Known(x)' => Known(x),
         \A t \in batch' : Done(t)' => Done(t)
  PROVE  DoneInv' /\ AppliedInv'
<1>1. DocsInv /\ DocsInv' /\ Types
  BY DEF IInv, StateInv
<1>2. Passed \subseteq visible /\ batch \subseteq visible /\ visible \subseteq Txs
  BY <1>1, VisibleFacts DEF Passed, Types
<1>3. ASSUME NEW t \in visible, Applied(t) PROVE Applied(t)'
  BY <1>1, <1>2, <1>3, AppliedKept
<1>4. DoneInv'
  <2> SUFFICES ASSUME NEW t \in batch', Done(t)' PROVE Applied(t)'
    BY DEF DoneInv
  <2>1. t \in batch /\ Done(t)
    OBVIOUS
  <2> QED
    BY <1>2, <1>3, <2>1 DEF IInv, DoneInv
<1>5. AppliedInv'
  <2> SUFFICES ASSUME NEW t \in Passed' PROVE Applied(t)'
    BY DEF AppliedInv
  <2> QED
    BY <1>2, <1>3 DEF IInv, AppliedInv
<1> QED
  BY <1>4, <1>5

\* A round begins: nothing is done, and what was passed is not in the batch.
LEMMA FetchApplied ==
  ASSUME IInv, StateInv', Kept, Fetch
  PROVE  DoneInv' /\ AppliedInv'
<1>1. DocsInv /\ DocsInv' /\ Types /\ Types' /\ PlaceInv'
  BY DEF IInv, StateInv
<1>2. /\ UNCHANGED <<chain, pos, cursor, saved, docs, overtaken>>
      /\ pc = "fetch" /\ GoToWrite(batch', 1)
  BY FetchRest DEF IInv
<1>3. visible' = visible /\ Writes' = Writes
  BY <1>2, SameChain
<1>4. Passed' = Passed
  BY <1>2, <1>3 DEF Passed
<1>5. chain \in Chains /\ Len(Writes) \in 1 .. 10 /\ batch' \in SUBSET chain
  BY <1>1, <1>3, VisibleFacts, WritesFacts DEF Types
<1>6. \/ /\ pc' = "cursor"
         /\ \A k \in 1 .. Len(Writes) : Given(batch', k) = {}
      \/ /\ pc' = "write" /\ step' \in 1 .. Len(Writes)
         /\ rest' = Given(batch', step')
         /\ \A k \in 1 .. step' - 1 : Given(batch', k) = {}
  <2>1. 1 \in 1 .. Len(Writes) + 1
    BY <1>5
  <2> QED
    BY <1>2, <1>5, <2>1, GoToFacts
<1>7. \A i : Given(batch, i)' = Given(batch', i)
  BY <1>3 DEF Given
<1>8. DoneInv'
  <2> SUFFICES ASSUME NEW t \in batch', Done(t)' PROVE FALSE
    BY DEF DoneInv
  <2>1. CASE pc' = "cursor"
    <3>1. \A k \in 1 .. Len(Writes) : Given(batch', k) = {}
      BY <1>6, <2>1
    <3>2. \E i \in 1 .. Len(Writes) : t \in Given(batch', i)
      BY <1>5, WritesFacts
    <3> QED
      BY <3>1, <3>2
  <2>2. CASE pc' = "write"
    <3>1. PICK i \in 1 .. Len(Writes) :
            t \in Given(batch', i) /\ (i < step' \/ (i = step' /\ t \notin rest'))
      BY <1>3, <1>7, <2>2 DEF Done
    <3>2. /\ step' \in 1 .. Len(Writes) /\ rest' = Given(batch', step')
          /\ \A k \in 1 .. step' - 1 : Given(batch', k) = {}
      BY <1>6, <2>2
    <3>3. CASE i < step'
      <4>1. i \in 1 .. 10 /\ step' \in 1 .. 10
        BY <1>5, <3>2, WritesInterval, Zenon
      <4>2. i \in 1 .. step' - 1
        <5>1. \A a, b \in 1 .. 10 : a < b => a \in 1 .. b - 1
          OBVIOUS
        <5> QED
          BY <3>3, <4>1, <5>1, Zenon
      <4> QED
        BY <3>1, <3>2, <4>2
    <3> QED
      BY <3>1, <3>2, <3>3
  <2> QED
    BY <1>6, <2>1, <2>2
<1>9. AppliedInv'
  <2> SUFFICES ASSUME NEW t \in Passed PROVE Applied(t)'
    BY <1>4 DEF AppliedInv
  <2>1. /\ t \in visible /\ t \in Txs /\ pos[t] \in Nat /\ pos[t] <= saved
        /\ saved \in Nat
    BY <1>1, VisibleFacts DEF Passed, Types
  <2>2. ASSUME Known(t)' PROVE Known(t)
    <3>1. pos[Target[t]] < pos[t] /\ Target[t] \in Passed \union batch'
      BY <1>2, <1>4, <2>2 DEF Known
    <3>2. ASSUME Target[t] \in batch' PROVE FALSE
      <4>1. saved < pos[Target[t]]
        BY <1>1, <1>2, <3>2 DEF PlaceInv
      <4>2. pos[Target[t]] \in Nat
        BY <1>1, <1>3, <3>2, VisibleFacts DEF Types
      <4> QED
        BY <2>1, <3>1, <4>1, <4>2
    <3> QED
      BY <3>1, <3>2 DEF Known
  <2>3. Applied(t)
    BY DEF IInv, AppliedInv
  <2> QED
    BY <1>1, <2>1, <2>2, <2>3, AppliedKept
<1> QED
  BY <1>8, <1>9

\* What the saved cursor passes is in the batch, all of which is written.
LEMMA CursorApplied ==
  ASSUME IInv, StateInv', Kept, SaveCursor
  PROVE  DoneInv' /\ AppliedInv'
<1>1. DocsInv /\ DocsInv' /\ Types /\ NoGapInv /\ RoundInv
  BY DEF IInv, StateInv
<1>2. PICK p : /\ EndWrites(p)
               /\ p = cursor \/ \E t \in batch : p = pos[t]
  BY DEF SaveCursor
<1>3. /\ saved' = p /\ overtaken' = overtaken \union Skipped(p) /\ batch' = {}
      /\ UNCHANGED <<chain, pos, docs>>
  BY <1>2 DEF EndWrites, feedVars
<1>4. pc = "cursor" /\ cursor = saved
  BY <1>1 DEF RoundInv, SaveCursor
<1>5. visible' = visible /\ visible \subseteq Txs
  BY <1>1, <1>3, SameChain, VisibleFacts
<1>6. /\ \A t \in visible : pos[t] \in Nat
      /\ saved \in Nat /\ cursor \in Nat /\ batch \subseteq visible
  BY <1>1, <1>5 DEF Types
<1>7. Passed' \subseteq Passed \union batch
  <2> SUFFICES ASSUME NEW t \in Passed', t \notin batch PROVE t \in Passed
    OBVIOUS
  <2>1. t \in visible /\ t \notin overtaken /\ t \notin Skipped(p) /\ pos[t] <= p
    BY <1>3, <1>5 DEF Passed
  <2>2. CASE pos[t] <= saved
    BY <2>1, <2>2 DEF Passed
  <2>3. CASE ~(pos[t] <= saved)
    <3>1. PICK u \in batch : p = pos[u]
      BY <1>2, <1>4, <2>1, <2>3
    <3>2. saved < pos[t] /\ pos[t] <= pos[u]
      BY <1>6, <2>1, <2>3, <3>1
    <3>3. CASE Cardinality(batch) < Limit
      BY <1>1, <2>1, <3>2, <3>3 DEF NoGapInv
    <3>4. CASE ~(Cardinality(batch) < Limit)
      <4>1. pos[t] \in cursor + 1 .. p
        BY <1>4, <1>6, <2>1, <3>1, <3>2
      <4> QED
        BY <2>1, <3>4, <4>1 DEF Skipped
    <3> QED
      BY <3>3, <3>4
  <2> QED
    BY <2>2, <2>3
<1>8. ASSUME NEW x, Known(x)' PROVE Known(x)
  BY <1>3, <1>7, <1>8 DEF Known
<1>9. ASSUME NEW t \in Passed' PROVE Applied(t)'
  <2>1. Applied(t)
    BY <1>4, <1>7, <1>9 DEF IInv, DoneInv, AppliedInv, Done
  <2>2. t \in Txs
    BY <1>5, <1>9 DEF Passed
  <2> QED
    BY <1>1, <1>8, <2>1, <2>2, AppliedKept
<1> QED
  BY <1>3, <1>9 DEF DoneInv, AppliedInv

\* What a step of a write finishes is in the rest of the write.
LEMMA WroteDone ==
  ASSUME StateInv, Kept, pc = "write", NEW r \in SUBSET rest, Wrote(r),
         NEW t \in batch, Done(t)'
  PROVE  Done(t) \/ t \in rest \ r
<1>1. Types /\ RoundInv
  BY DEF StateInv
<1>2. /\ UNCHANGED <<chain, pos, batch, cursor, saved, overtaken>>
      /\ \/ rest' = r /\ pc' = "write" /\ step' = step
         \/ r = {} /\ GoToWrite(batch, step + 1)
  BY WroteRest
<1>3. Writes' = Writes /\ (\A i : Given(batch, i)' = Given(batch, i))
  BY <1>2, SameChain DEF Given
<1>4. /\ chain \in Chains /\ step \in 1 .. Len(Writes)
      /\ 1 .. Len(Writes) \subseteq 1 .. 10 /\ Len(Writes) \in 1 .. 10
      /\ batch \in SUBSET chain
  BY <1>1, WritesInterval, WritesFacts, VisibleFacts DEF Types, RoundInv
<1>5. ASSUME NEW i \in 1 .. Len(Writes), t \in Given(batch, i), i <= step,
             i = step => t \notin r
      PROVE  Done(t) \/ t \in rest \ r
  <2>1. i \in 1 .. 10 /\ step \in 1 .. 10
    BY <1>4
  <2>2. \A a, b \in 1 .. 10 : a <= b => a < b \/ a = b
    OBVIOUS
  <2>3. i < step \/ i = step
    BY <1>5, <2>1, <2>2, Zenon
  <2> QED
    BY <1>5, <2>3 DEF Done
<1>6. CASE rest' = r /\ pc' = "write" /\ step' = step
  <2>1. PICK i \in 1 .. Len(Writes) :
          t \in Given(batch, i) /\ (i < step \/ (i = step /\ t \notin r))
    BY <1>3, <1>6 DEF Done
  <2>2. i \in 1 .. 10 /\ step \in 1 .. 10
    BY <1>4
  <2>3. i <= step /\ (i = step => t \notin r)
    BY <2>1, <2>2
  <2> QED
    BY <1>5, <2>1, <2>3
<1>7. CASE r = {} /\ GoToWrite(batch, step + 1)
  <2>0. step + 1 \in 1 .. Len(Writes) + 1
    <3>1. \A n \in 1 .. 10 : \A a \in 1 .. n : a + 1 \in 1 .. n + 1
      OBVIOUS
    <3> QED
      BY <1>4, <3>1, Zenon
  <2>1. \/ /\ pc' = "cursor"
           /\ \A k \in step + 1 .. Len(Writes) : Given(batch, k) = {}
        \/ /\ pc' = "write" /\ step' \in step + 1 .. Len(Writes)
           /\ rest' = Given(batch, step')
           /\ \A k \in step + 1 .. step' - 1 : Given(batch, k) = {}
    BY <1>4, <1>7, <2>0, GoToFacts
  <2>2. CASE pc' = "cursor"
    <3>1. PICK i \in 1 .. Len(Writes) : t \in Given(batch, i)
      BY <1>4, WritesFacts
    <3>2. i \notin step + 1 .. Len(Writes)
      BY <2>1, <2>2, <3>1
    <3>3. \A n, a, b \in 1 .. 10 : a \in 1 .. n /\ b \in 1 .. n /\ a \notin b + 1 .. n => a <= b
      OBVIOUS
    <3>4. i <= step
      BY <1>4, <3>2, <3>3, Zenon
    <3> QED
      BY <1>5, <1>7, <3>1, <3>4
  <2>3. CASE pc' = "write"
    <3>1. PICK i \in 1 .. Len(Writes) :
            t \in Given(batch, i) /\ (i < step' \/ (i = step' /\ t \notin rest'))
      BY <1>3, <2>3 DEF Done
    <3>2. /\ step' \in step + 1 .. Len(Writes) /\ rest' = Given(batch, step')
          /\ \A k \in step + 1 .. step' - 1 : Given(batch, k) = {}
      BY <2>1, <2>3
    <3>3. i < step' /\ i \notin step + 1 .. step' - 1
      BY <3>1, <3>2
    <3>4. \A n, a, b \in 1 .. 10 : \A c \in b + 1 .. n :
            a < c /\ a \notin b + 1 .. c - 1 => a <= b
      OBVIOUS
    <3>5. i <= step
      BY <1>4, <3>2, <3>3, <3>4, Zenon
    <3> QED
      BY <1>5, <1>7, <3>1, <3>5
  <2> QED
    BY <2>1, <2>2, <2>3
<1> QED
  BY <1>2, <1>6, <1>7

\* A step of a write, when it has applied what it finishes.
LEMMA WroteApplied ==
  ASSUME IInv, StateInv', Kept, pc = "write", NEW r \in SUBSET rest, Wrote(r),
         \A t \in rest \ r : Applied(t)'
  PROVE  DoneInv' /\ AppliedInv'
<1>1. DocsInv /\ DocsInv' /\ Types
  BY DEF IInv, StateInv
<1>2. UNCHANGED <<chain, pos, batch, saved, overtaken>>
  BY WroteRest DEF IInv
<1>3. /\ Passed' = Passed
      /\ \A x : Known(x)' => Known(x)
  BY <1>2, SamePassed
<1>4. Passed \subseteq Txs /\ batch \subseteq Txs
  BY <1>1, VisibleFacts DEF Passed, Types
<1>5. ASSUME NEW t \in Txs, Applied(t) PROVE Applied(t)'
  BY <1>1, <1>3, <1>5, AppliedKept
<1>6. DoneInv'
  <2> SUFFICES ASSUME NEW t \in batch, Done(t)' PROVE Applied(t)'
    BY <1>2 DEF DoneInv
  <2>1. Done(t) \/ t \in rest \ r
    BY WroteDone DEF IInv
  <2>2. CASE Done(t)
    BY <1>4, <1>5, <2>2 DEF IInv, DoneInv
  <2> QED
    BY <2>1, <2>2
<1>7. AppliedInv'
  BY <1>3, <1>4, <1>5 DEF IInv, AppliedInv
<1> QED
  BY <1>6, <1>7

\* The write of a batch's requests comes before that of its responses.
LEMMA RequestThere ==
  ASSUME IInv, pc = "write", Writes[step][1] = Responds, NEW x \in rest, Known(x)
  PROVE  Documented(Target[x])
<1>1. StateInv /\ Types /\ RoundInv
  BY DEF IInv, StateInv
<1>2. x \in Responds /\ x \in Given(batch, step) /\ x \in Txs
  BY <1>1, RestFacts
<1>3. Target[x] \in Requests
  BY <1>2, Families
<1>4. chain \in Chains /\ step \in 1 .. Len(Writes) /\ batch \in SUBSET chain
  BY <1>1, VisibleFacts DEF Types, RoundInv
<1>5. CASE Target[x] \in Passed
  BY <1>3, <1>5 DEF IInv, AppliedInv, Applied
<1>6. CASE Target[x] \in batch
  <2>1. PICK i \in 1 .. Len(Writes) : Target[x] \in Given(batch, i)
    BY <1>4, <1>6, WritesFacts
  <2>2. i < step
    BY <1>2, <1>3, <1>4, <2>1, WritesFacts
  <2>3. Done(Target[x])
    BY <2>1, <2>2 DEF Done
  <2> QED
    BY <1>3, <1>6, <2>3 DEF IInv, DoneInv, Applied
<1> QED
  BY <1>5, <1>6 DEF Known

LEMMA RequestApplied ==
  ASSUME IInv, StateInv', InsertRequest \/ Contribute
  PROVE  DoneInv' /\ AppliedInv'
<1>1. DocsInv /\ StateInv
  BY DEF IInv, StateInv
<1>2. PICK t \in rest :
        /\ pc = "write" /\ Writes[step][1] = Requests /\ Wrote(rest \ {t})
        /\ \/ docs' = Added(t) /\ (Family[t] = "contribution" => HalfOpen(t) = {})
           \/ /\ Family[t] = "contribution" /\ HalfOpen(t) # {}
              /\ docs' = [docs EXCEPT ![First(HalfOpen(t))].reqs = Append(@, t)]
  <2>1. CASE InsertRequest
    BY <2>1 DEF InsertRequest
  <2>2. CASE Contribute
    BY <2>2 DEF Contribute
  <2> QED
    BY <2>1, <2>2
<1>3. t \in Requests
  BY <1>1, <1>2, RestFacts
<1>4. Kept /\ Documented(t)'
  BY <1>1, <1>2, <1>3, AddedDoc, JoinDoc
<1>5. t \notin Responds
  BY <1>3 DEF Responds
<1>6. Applied(t)'
  BY <1>4, <1>5 DEF Applied
<1>7. rest \ {t} \in SUBSET rest /\ \A u \in rest \ (rest \ {t}) : u = t
  OBVIOUS
<1> QED
  BY <1>2, <1>4, <1>6, <1>7, WroteApplied

LEMMA RespondApplied ==
  ASSUME IInv, StateInv', UpdateRespond
  PROVE  DoneInv' /\ AppliedInv'
<1>1. DocsInv /\ DocsInv' /\ StateInv
  BY DEF IInv, StateInv
<1>2. PICK x \in rest :
        /\ pc = "write" /\ Writes[step][1] = Responds /\ Wrote(rest \ {x})
        /\ docs' = Updated(x)
  BY DEF UpdateRespond
<1>3. x \in Responds /\ x \in Txs /\ x \notin Requests
  BY <1>1, <1>2, RestFacts DEF Responds
<1>4. Kept
  <2>1. UpdateRespond => [Next]_vars
    BY DEF Next, Process
  <2> QED
    BY <1>1, <2>1, StepDocs
<1>5. UNCHANGED <<chain, pos, batch, saved, overtaken>>
  BY <1>1, <1>2, <1>4, WroteRest
<1>6. Known(x)' => Known(x)
  BY <1>5, SamePassed
<1>7. ASSUME Known(x)' PROVE InDoc(x)' /\ (Family[x] \notin Plain => Closed(x)')
  <2>1. Documented(Target[x])
    BY <1>2, <1>6, <1>7, RequestThere
  <2>2. /\ FirstDoc(Target[x]) \in DOMAIN docs
        /\ x \in docs'[FirstDoc(Target[x])].responds
        /\ docs'[FirstDoc(Target[x])].status = StatusOf(x)
    BY <1>1, <1>2, <1>3, <2>1, AnswerDoc
  <2>3. FirstDoc(Target[x]) \in DocsOf(Target[x])
    BY <1>1, <2>1, DocsOfType
  <2>4. /\ DocsOf(Target[x]) \subseteq DocsOf(Target[x])' /\ Documented(Target[x])'
        /\ Family[Target[x]] # "contribution" =>
             FirstDoc(Target[x])' = FirstDoc(Target[x])
    BY <1>1, <1>4, <2>1, FirstStays
  <2>5. InDoc(x)'
    BY <2>2, <2>3, <2>4 DEF InDoc
  <2>6. ASSUME Family[x] \notin Plain PROVE Closed(x)'
    <3>1. Family[Target[x]] # "contribution"
      BY <1>3, <2>6, Families DEF Plain
    <3>2. StatusOf(x) # 0
      BY <2>6 DEF StatusOf, Plain
    <3> QED
      BY <2>2, <2>4, <3>1, <3>2 DEF Closed
  <2> QED
    BY <2>5, <2>6
<1>8. Applied(x)'
  BY <1>3, <1>7 DEF Applied, Plain
<1>9. rest \ {x} \in SUBSET rest /\ \A u \in rest \ (rest \ {x}) : u = x
  OBVIOUS
<1> QED
  BY <1>2, <1>4, <1>8, <1>9, WroteApplied

\* Of the responses to requests to stake the invariant says nothing.
LEMMA StakingApplied ==
  ASSUME IInv, StateInv', UpdateStaking
  PROVE  DoneInv' /\ AppliedInv'
<1>1. DocsInv /\ StateInv /\ RoundInv
  BY DEF IInv, StateInv
<1>2. PICK x \in rest :
        /\ pc = "write" /\ Writes[step][1] = Responds /\ Family[x] = "stake"
        /\ Wrote({})
  BY DEF UpdateStaking
<1>3. Kept
  <2>1. UpdateStaking => [Next]_vars
    BY DEF Next, Process
  <2> QED
    BY <1>1, <2>1, StepDocs
<1>4. \A t \in rest : Family[t] = "stake" /\ t \notin Requests
  <2> SUFFICES ASSUME NEW t \in rest PROVE Family[t] = "stake" /\ t \notin Requests
    OBVIOUS
  <2>1. t \in Given(batch, step) /\ x \in Given(batch, step) /\ t \in Responds
    BY <1>1, <1>2, RestFacts
  <2> QED
    BY <1>2, <2>1 DEF Given, Responds
<1>5. \A t \in rest \ {} : Applied(t)'
  BY <1>4 DEF Applied
<1> QED
  BY <1>2, <1>3, <1>5, WroteApplied

LEMMA StepApplied ==
  ASSUME IInv, [Next]_vars
  PROVE  IInv'
<1> SUFFICES DoneInv' /\ AppliedInv'
  BY StepState DEF IInv
<1>1. StateInv /\ StateInv' /\ Kept
  BY StepState DEF IInv
<1>2. ASSUME NEW t \in Txs, Insert(t) PROVE DoneInv' /\ AppliedInv'
  <2>1. /\ Passed' = Passed
        /\ \A x \in visible : Known(x)' => Known(x)
    BY <1>1, <1>2, InsertPassed
  <2>2. UNCHANGED <<chain, pc, step, batch, rest>>
    BY <1>2 DEF Insert, procVars
  <2>3. \A u : Done(u)' => Done(u)
    BY <2>2, SameChain DEF Done, Given
  <2> QED
    BY <1>1, <2>1, <2>2, <2>3, QuietStep
<1>3. ASSUME UNCHANGED <<chain, pos, saved, overtaken, pc, step, batch, rest>>
      PROVE  DoneInv' /\ AppliedInv'
  <2>1. /\ Passed' = Passed
        /\ \A x \in visible : Known(x)' => Known(x)
    BY <1>3, SamePassed
  <2>2. \A u : Done(u)' => Done(u)
    BY <1>3, SameChain DEF Done, Given
  <2> QED
    BY <1>1, <1>3, <2>1, <2>2, QuietStep
<1>4. ASSUME UNCHANGED <<chain, pos, saved, overtaken>>, batch' = {}
      PROVE  DoneInv' /\ AppliedInv'
  <2>1. /\ Passed' = Passed
        /\ \A x \in visible : Known(x)' => Known(x)
    BY <1>4, SamePassed
  <2> QED
    BY <1>1, <1>4, <2>1, QuietStep
<1>5. ASSUME NEW t \in Txs, Decide(t) PROVE DoneInv' /\ AppliedInv'
  BY <1>3, <1>5 DEF Decide, procVars
<1>6. CASE Start
  <2>1. batch = {}
    BY <1>1, <1>6 DEF StateInv, RoundInv, Start
  <2> QED
    BY <1>4, <1>6, <2>1 DEF Start, feedVars
<1>7. CASE Fetch
  BY <1>1, <1>7, FetchApplied
<1>8. CASE InsertRequest \/ Contribute
  BY <1>1, <1>8, RequestApplied
<1>9. CASE UpdateRespond
  BY <1>1, <1>9, RespondApplied
<1>10. CASE UpdateStaking
  BY <1>1, <1>10, StakingApplied
<1>11. CASE StakingPanics \/ Crash
  BY <1>4, <1>11 DEF StakingPanics, Crash, Lose, feedVars
<1>12. CASE SaveCursor
  BY <1>1, <1>12, CursorApplied
<1>13. CASE GetPage \/ RefreshPage
  <2>1. batch = {}
    BY <1>1, <1>13 DEF StateInv, RoundInv, GetPage, RefreshPage
  <2>2. UNCHANGED <<chain, pos, batch, saved, overtaken>>
    BY <1>1, <1>13, PageRest, RefreshRest
  <2> QED
    BY <1>4, <2>1, <2>2
<1>14. CASE UNCHANGED vars
  BY <1>3, <1>14 DEF vars, feedVars, procVars
<1> QED
  BY <1>1, <1>2, <1>5, <1>6, <1>7, <1>8, <1>9, <1>10, <1>11, <1>12, <1>13, <1>14
  DEF Next, Feed, Process

LEMMA SpecIInv == Spec => []IInv
<1>1. Init => IInv
  <2> SUFFICES ASSUME Init PROVE IInv
    OBVIOUS
  <2>1. StateInv
    BY InitState
  <2>2. batch = {} /\ Passed = {}
    <3>1. chain \subseteq Txs
      BY <2>1, VisibleFacts DEF StateInv
    <3> QED
      BY <3>1 DEF Init, Passed, visible
  <2> QED
    BY <2>1, <2>2 DEF IInv, DoneInv, AppliedInv
<1>2. IInv /\ [Next]_vars => IInv'
  BY StepApplied
<1> QED
  BY <1>1, <1>2, PTL DEF Spec

\* What is behind the saved cursor of getTxToProcess and updateState is in the
\* history: a request has a document and its response is in it, though a batch
\* is sorted by lock time and the process may end between any two writes.
THEOREM SpecPassedIsApplied ==
  ASSUME AnsweredOnce
  PROVE  Spec => []PassedIsApplied
<1>1. IInv => PassedIsApplied
  <2> SUFFICES ASSUME IInv, NEW t \in Passed
               PROVE  /\ t \in Requests => Documented(t)
                      /\ t \in Responds /\ InOrder(t) /\ Family[t] # "stake"
                         => \E d \in DocsOf(Target[t]) : t \in docs[d].responds
    BY DEF PassedIsApplied
  <2>1. Applied(t)
    BY DEF IInv, AppliedInv
  <2>2. InOrder(t) => Known(t)
    BY DEF InOrder, Known
  <2> QED
    BY <2>1, <2>2 DEF Applied, InDoc
<1> QED
  BY <1>1, SpecIInv, PTL

\* A request whose response has been processed shows the result that the chain
\* gave to it: no second write of the request, no later response and no look of
\* updateLiquidityStatus at the beacon's instructions takes it back.
THEOREM SpecAnsweredIsClosed == Spec => []AnsweredIsClosed
<1>1. IInv => AnsweredIsClosed
  <2> SUFFICES ASSUME IInv, NEW x \in Passed \intersect Responds,
                      InOrder(x), Family[x] \in {"withdraw", "fee", "reward"}
               PROVE  docs[FirstDoc(Target[x])].status = StatusOf(x)
    BY DEF AnsweredIsClosed
  <2>1. DocsInv /\ Types
    BY DEF IInv, StateInv
  <2>2. Known(x)
    BY DEF InOrder, Known
  <2>3. Closed(x)
    BY <2>2 DEF IInv, AppliedInv, Applied
  <2> DEFINE i == FirstDoc(Target[x])
  <2>4. i \in DocsOf(Target[x]) /\ i \in DOMAIN docs /\ docs[i].status # 0
    BY <2>1, <2>3, DocsOfType DEF Closed
  <2> HIDE DEF i
  <2>5. Family[Target[x]] = Family[x] /\ x \in Txs
    BY Families DEF Responds
  <2>6. docs[i].family = Family[x] /\ docs[i].reqs[1] = Target[x]
    BY <2>1, <2>4, <2>5, DocOfFamily
  <2>7. docs[i].status = Result(Target[x])
    BY <2>1, <2>4, <2>6 DEF DocsInv, DocOK, Plain
  <2> QED
    BY <2>7 DEF i, Result, StatusOf
<1> QED
  BY <1>1, SpecIInv, PTL
=============================================================================
