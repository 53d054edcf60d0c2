--------------------------- MODULE BackfillProofs ---------------------------
(***************************************************************************)
(* That a completed backfill has examined everything it was asked for,     *)
(* although it finds each page by counting rows (LIMIT and OFFSET) in a    *)
(* table into which events keep being committed, before its offset too.    *)
(***************************************************************************)
EXTENDS AnalysisProofs

-----------------------------------------------------------------------------
(* Pages.                                                                  *)

(* ORDER BY ingest_seq                                                     *)
SeqOrder == {j \in Seqs \X Seqs : j[1] < j[2]}

(* How many rows of S come before s.                                       *)
Rank(S, s) == Place(SeqOrder, S, s)

(* Any events are ordered by their sequence numbers.                       *)
LEMMA SeqsAreOrdered ==
    ASSUME NEW S \in SUBSET Seqs
    PROVE  Orders(SeqOrder, S)
<1>1. IsFiniteSet(S) /\ S \subseteq Int
  BY FiniteSeqs, MaxSeqAssumption DEF Seqs
<1>2. \A r, s \in S : <<r, s>> \in SeqOrder <=> r < s
  BY DEF SeqOrder
<1>. QED BY <1>1, <1>2 DEF Orders

(* A rank is a number.                                                     *)
LEMMA RankType ==
    ASSUME NEW S \in SUBSET Seqs, NEW s
    PROVE  Rank(S, s) \in Nat
BY FiniteSeqs, PlaceType DEF Rank

(* Rows that are committed meanwhile push a row back, never forward.       *)
LEMMA RankNeverShrinks ==
    ASSUME NEW S \in SUBSET Seqs, NEW T \in SUBSET Seqs, S \subseteq T, NEW s
    PROVE  Rank(S, s) <= Rank(T, s)
<1>1. Ahead(SeqOrder, S, s) \subseteq Ahead(SeqOrder, T, s)
  BY DEF Ahead
<1>. QED BY <1>1, FiniteSeqs, PlaceNeverShrinks DEF Rank

(* A row from the offset on that a page does not hold comes after a full   *)
(* page.                                                                   *)
LEMMA PageLeavesLaterRows ==
    ASSUME NEW S \in SUBSET Seqs, NEW k \in Nat, NEW n \in Nat,
           NEW s \in S, k <= Rank(S, s), s \notin Page(S, k, n)
    PROVE  Cardinality(Page(S, k, n)) = n /\ k + n <= Rank(S, s)
<1>1. \A t \in S : {u \in S : u < t} = Ahead(SeqOrder, S, t)
  BY DEF Ahead, SeqOrder
<1>2. Page(S, k, n) = Cut(SeqOrder, S, k, n)
  BY <1>1 DEF Page, Cut, Place
<1>. QED BY <1>2, SeqsAreOrdered, RowAfterThePage DEF Rank

-----------------------------------------------------------------------------
(* The invariant.                                                          *)

(* Each draft of the backfill p for s is stored, or is in the transaction  *)
(* that p has open.                                                        *)
Examined(p, s) ==
    \A r \in Drafts(p, s) : <<s, r>> \in todo[p] \cup fresh[p] \cup alerts

(* What a backfill owes and has not examined is not before its next page;  *)
(* if its current page leaves something owed, that page is a full one.     *)
BackfillOK(p) ==
    /\ owed[p] \subseteq Matching(since[p])
    /\ pc[p] \in {"idle", "page"} => todo[p] = {} /\ fresh[p] = {}
    /\ pc[p] \notin {"page", "insertPage"} => offset[p] = 0
    /\ pc[p] = "page" =>
         \A s \in owed[p] : Examined(p, s) \/ offset[p] <= Rank(Matching(since[p]), s)
    /\ pc[p] = "insertPage" =>
         \A s \in owed[p] :
            \/ Examined(p, s)
            \/ /\ Cardinality(batch[p]) = Limit[p]
               /\ offset[p] + Limit[p] <= Rank(Matching(since[p]), s)

BackfillInv ==
    /\ AnalysisTypes
    /\ BackfillCovers
    /\ \A p \in Runners : BackfillOK(p)

(* The findings for a set of events are those for each of them.            *)
LEMMA KeysOfEach ==
    ASSUME NEW p \in Runners, NEW S \in SUBSET Seqs, NEW T,
           \A s \in S : \A r \in Drafts(p, s) : <<s, r>> \in T
    PROVE  KeysOf(p, S) \subseteq T
BY DEF KeysOf

(* The rows a backfill counts are events.                                  *)
LEMMA MatchingTypes ==
    ASSUME AnalysisTypes, NEW b
    PROVE  Matching(b) \in SUBSET Seqs
BY DEF Matching, AnalysisTypes, FeedInv, FeedTypeOK

(* Whatever others commit, a backfill that does not move loses nothing.    *)
LEMMA BackfillUndisturbed ==
    ASSUME AnalysisTypes, AnalysisTypes', NEW q \in Runners, BackfillOK(q),
           visible \subseteq visible', alerts \subseteq alerts',
           pc'[q] = pc[q], batch'[q] = batch[q], todo'[q] = todo[q], fresh'[q] = fresh[q],
           since'[q] = since[q], offset'[q] = offset[q], owed'[q] = owed[q]
    PROVE  BackfillOK(q)'
<1>. DEFINE M == Matching(since[q])
            N == {s \in visible' : OccurredAt[s] >= since[q]}
<1>1. M \subseteq N /\ Matching(since[q])' = N
  BY DEF Matching
<1>2. M \in SUBSET Seqs /\ N \in SUBSET Seqs
  BY <1>1, MatchingTypes DEF AnalysisTypes, FeedInv, FeedTypeOK
<1>3. \A s \in owed[q] : Examined(q, s) => Examined(q, s)'
  BY DEF Examined
<1>4. /\ offset[q] \in Nat /\ Limit[q] \in Nat
      /\ \A s : Rank(M, s) \in Nat /\ Rank(N, s) \in Nat /\ Rank(M, s) <= Rank(N, s)
  <2>. HIDE DEF M, N
  <2>. QED BY <1>1, <1>2, RankType, RankNeverShrinks, AnalysisAssumption
           DEF AnalysisTypes, TypeOK
<1>5. \A k \in Nat : \A s : k <= Rank(M, s) => k <= Rank(N, s)
  <2>. HIDE DEF M, N
  <2>. QED BY <1>4
<1>6. \A s : Rank(Matching(since[q]), s)' = Rank(N, s)
  BY <1>1 DEF Rank, Place, Ahead
<1>7. offset[q] + Limit[q] \in Nat
  BY <1>4
<1>8. owed[q] \subseteq M
  BY DEF BackfillOK
<1>. QED BY <1>1, <1>3, <1>4, <1>5, <1>6, <1>7, <1>8 DEF BackfillOK

(* A runner that has no job, or ends the one it has, owes nothing.         *)
LEMMA NothingOwed ==
    ASSUME AnalysisTypes, NEW p \in Runners, Forget(p)
    PROVE  /\ owed'[p] = {} /\ todo'[p] = {} /\ fresh'[p] = {} /\ offset'[p] = 0
           /\ BackfillOK(p)'
<1>1. owed'[p] = {} /\ todo'[p] = {} /\ fresh'[p] = {} /\ offset'[p] = 0
  BY DEF Forget, AnalysisTypes, TypeOK
<1>. QED BY <1>1 DEF BackfillOK

(* Nor does a live pass.                                                   *)
LEMMA LivePassOwes ==
    ASSUME AnalysisTypes, NEW p \in Runners, BackfillOK(p),
           pc'[p] \in {"cursor", "fetch", "insert", "commit"},
           pc[p] \notin {"page", "insertPage"}, offset'[p] = offset[p],
           visible' = visible, since'[p] = since[p], owed'[p] = owed[p]
    PROVE  BackfillOK(p)'
BY DEF BackfillOK, Matching

(* A backfill that finds its page empty has examined all it owes.          *)
LEMMA NoPageNothingOwed ==
    ASSUME AnalysisTypes, NEW p \in Runners, BackfillOK(p), pc[p] = "page",
           BackfillPage(p) = {}
    PROVE  KeysOf(p, owed[p]) \subseteq alerts
<1>. DEFINE M == Matching(since[p])
<1>1. /\ M \in SUBSET Seqs /\ offset[p] \in Nat /\ Limit[p] \in Nat /\ Limit[p] # 0
      /\ owed[p] \subseteq M
  BY MatchingTypes, AnalysisAssumption DEF AnalysisTypes, TypeOK, BackfillOK
<1>2. ASSUME NEW s \in owed[p], offset[p] <= Rank(M, s) PROVE FALSE
  <2>1. s \in M /\ s \notin Page(M, offset[p], Limit[p])
    BY <1>1 DEF BackfillPage
  <2>2. Cardinality(Page(M, offset[p], Limit[p])) = Limit[p]
    <3>. HIDE DEF M
    <3>. QED BY <1>1, <1>2, <2>1, PageLeavesLaterRows
  <2>. QED BY <1>1, <2>2, FS_EmptySet DEF BackfillPage
<1>3. \A s \in owed[p] : \A r \in Drafts(p, s) : <<s, r>> \in alerts
  BY <1>2 DEF BackfillOK, Examined
<1>. QED BY <1>1, <1>3, KeysOfEach

(* A page that has been fetched holds the drafts of what is owed from the  *)
(* offset on, or is full and leaves the rest to the next one.              *)
LEMMA FetchPageOwes ==
    ASSUME AnalysisTypes, NEW p \in Runners, BackfillOK(p), FetchPage(p)
    PROVE  BackfillOK(p)'
<1>. DEFINE M == Matching(since[p])
            B == Page(M, offset[p], Limit[p])
<1>1. /\ M \in SUBSET Seqs /\ offset[p] \in Nat /\ Limit[p] \in Nat /\ owed[p] \subseteq M
  BY MatchingTypes, AnalysisAssumption DEF AnalysisTypes, TypeOK, BackfillOK
<1>2. /\ pc[p] = "page" /\ pc'[p] = "insertPage" /\ batch'[p] = B
      /\ todo'[p] = KeysOf(p, B) /\ fresh' = fresh /\ alerts' = alerts
      /\ owed' = owed /\ offset' = offset /\ since' = since /\ visible' = visible
  BY DEF FetchPage, BackfillPage, historyVars, feedVars, AnalysisTypes, TypeOK
<1>3. \A s : (Rank(Matching(since[p]), s))' = Rank(M, s)
  BY <1>2 DEF Rank, Place, Ahead, Matching
<1>4. ASSUME NEW s \in owed[p]
      PROVE  \/ \A r \in Drafts(p, s) : <<s, r>> \in KeysOf(p, B) \cup fresh[p] \cup alerts
             \/ Cardinality(B) = Limit[p] /\ offset[p] + Limit[p] <= Rank(M, s)
  <2>1. CASE s \in B
    BY <2>1, RulesAssumption, <1>1 DEF KeysOf, Drafts
  <2>2. CASE s \notin B /\ offset[p] <= Rank(M, s)
    <3>. HIDE DEF M
    <3>. QED BY <1>1, <2>2, PageLeavesLaterRows
  <2>3. CASE Examined(p, s)
    BY <1>2, <2>3 DEF Examined, BackfillOK
  <2>. QED BY <1>2, <2>1, <2>2, <2>3 DEF BackfillOK
<1>5. owed'[p] \subseteq Matching(since[p])'
  BY <1>1, <1>2 DEF Matching
<1>. HIDE DEF M, B
<1>6. \A s \in owed'[p] :
         \/ Examined(p, s)'
         \/ /\ Cardinality(batch'[p]) = Limit[p]
            /\ offset'[p] + Limit[p] <= (Rank(Matching(since[p]), s))'
  BY <1>2, <1>3, <1>4 DEF Examined
<1>. QED BY <1>2, <1>5, <1>6 DEF BackfillOK

(* A page that has been committed is examined, and the offset has moved    *)
(* by as many rows as it held.                                             *)
LEMMA CommitPageOwes ==
    ASSUME AnalysisTypes, NEW p \in Runners, BackfillOK(p), CommitPage(p)
    PROVE  /\ BackfillOK(p)'
           /\ audited' \subseteq audited \cup alerts'
<1>1. /\ pc[p] = "insertPage" /\ todo[p] = {} /\ alerts' = alerts \cup fresh[p]
      /\ visible' = visible
  BY DEF CommitPage, feedVars
<1>2. CASE LastPage(p)
  <2>1. Limit[p] \in Nat /\ Cardinality(batch[p]) < Limit[p] /\ owed[p] \in SUBSET Seqs
    BY <1>2, AnalysisAssumption DEF LastPage, AnalysisTypes, TypeOK
  <2>2. \A s \in owed[p] : Examined(p, s)
    BY <1>1, <2>1 DEF BackfillOK
  <2>3. KeysOf(p, owed[p]) \subseteq alerts'
    <3>1. \A s \in owed[p] : \A r \in Drafts(p, s) : <<s, r>> \in alerts'
      BY <1>1, <2>2 DEF Examined
    <3>. QED BY <2>1, <3>1, KeysOfEach
  <2>4. Forget(p) /\ audited' = audited \cup KeysOf(p, owed[p])
    BY <1>2 DEF CommitPage
  <2>. QED BY <2>3, <2>4, NothingOwed
<1>3. CASE ~LastPage(p)
  <2>1. /\ pc'[p] = "page" /\ todo'[p] = {} /\ fresh'[p] = {}
        /\ owed' = owed /\ since' = since /\ audited' = audited
        /\ offset'[p] = offset[p] + Cardinality(batch[p])
    BY <1>1, <1>3 DEF CommitPage, AnalysisTypes, TypeOK
  <2>2. \A s : (Rank(Matching(since[p]), s))' = Rank(Matching(since[p]), s)
    BY <1>1, <2>1 DEF Rank, Place, Ahead, Matching
  <2>3. \A s \in owed'[p] :
           Examined(p, s)' \/ offset'[p] <= (Rank(Matching(since[p]), s))'
    BY <1>1, <2>1, <2>2 DEF BackfillOK, Examined
  <2>4. owed'[p] \subseteq Matching(since[p])'
    BY <1>1, <2>1 DEF Matching, BackfillOK
  <2>. QED BY <2>1, <2>3, <2>4 DEF BackfillOK
<1>. QED BY <1>2, <1>3

(* Storing a draft keeps it examined, also if another runner stored it.    *)
LEMMA InsertAlertOwes ==
    ASSUME AnalysisTypes, NEW p \in Runners, BackfillOK(p), InsertAlert(p)
    PROVE  BackfillOK(p)'
<1>1. PICK k \in todo[p] : /\ todo' = [todo EXCEPT ![p] = @ \ {k}]
                           /\ fresh' = [fresh EXCEPT ![p] = @ \cup ({k} \ alerts)]
  BY DEF InsertAlert
<1>2. /\ todo'[p] = todo[p] \ {k} /\ fresh'[p] = fresh[p] \cup ({k} \ alerts)
      /\ pc[p] \in {"insert", "insertPage"}
      /\ UNCHANGED <<pc, batch, since, offset, owed, alerts, visible>>
  BY <1>1 DEF InsertAlert, historyVars, feedVars, AnalysisTypes, TypeOK
<1>3. \A s \in owed[p] : Examined(p, s) => Examined(p, s)'
  BY <1>2 DEF Examined
<1>4. \A s : (Rank(Matching(since[p]), s))' = Rank(Matching(since[p]), s)
  BY <1>2 DEF Rank, Place, Ahead, Matching
<1>5. owed'[p] \subseteq Matching(since[p])'
  BY <1>2 DEF Matching, BackfillOK
<1>. QED BY <1>2, <1>3, <1>4, <1>5 DEF BackfillOK

-----------------------------------------------------------------------------
(* The steps.                                                              *)

(* What one runner does leaves the variables of the others alone, and      *)
(* alerts are never deleted.                                               *)
LEMMA OthersUntouched ==
    ASSUME AnalysisTypes, NEW p \in Runners,
           StartLive(p) \/ StartBackfill(p) \/ Step(p) \/ Fail(p) \/ CommitReplyLost(p)
    PROVE  /\ alerts \subseteq alerts' /\ visible' = visible
           /\ \A q \in Runners \ {p} :
                /\ pc'[q] = pc[q] /\ batch'[q] = batch[q] /\ todo'[q] = todo[q]
                /\ fresh'[q] = fresh[q] /\ since'[q] = since[q]
                /\ offset'[q] = offset[q] /\ owed'[q] = owed[q]
<1>. USE DEF AnalysisTypes, TypeOK, feedVars
<1>1. CASE StartLive(p) \/ StartBackfill(p) \/ GetCursor(p) \/ FetchBatch(p) \/ FetchPage(p)
  BY <1>1 DEF StartLive, StartBackfill, GetCursor, FetchBatch, FetchPage, historyVars
<1>2. CASE InsertAlert(p) \/ UpsertCursor(p)
  BY <1>2 DEF InsertAlert, UpsertCursor, historyVars, runVars
<1>3. CASE FetchNothing(p) \/ FetchNoPage(p) \/ Fail(p)
  BY <1>3 DEF FetchNothing, FetchNoPage, Fail, Forget
<1>4. CASE CommitBatch(p)
  BY <1>4 DEF CommitBatch, Publish, Forget
<1>5. CASE CommitPage(p)
  BY <1>5 DEF CommitPage, Forget
<1>6. CASE CommitReplyLost(p)
  BY <1>6 DEF CommitReplyLost, Publish, Forget
<1>. QED BY <1>1, <1>2, <1>3, <1>4, <1>5, <1>6 DEF Step

(* Each statement keeps what its own runner owes.                          *)
LEMMA OwnStepOwes ==
    ASSUME AnalysisTypes, BackfillCovers, NEW p \in Runners, BackfillOK(p),
           StartLive(p) \/ StartBackfill(p) \/ Step(p) \/ Fail(p) \/ CommitReplyLost(p)
    PROVE  BackfillOK(p)' /\ BackfillCovers'
<1>1. alerts \subseteq alerts' /\ visible' = visible
  BY OthersUntouched
<1>2. audited' = audited => BackfillCovers'
  BY <1>1 DEF BackfillCovers
<1>3. CASE StartLive(p) \/ GetCursor(p) \/ FetchBatch(p) \/ UpsertCursor(p)
  <2>1. pc'[p] \in {"cursor", "fetch", "insert", "commit"}
    BY <1>3 DEF StartLive, GetCursor, FetchBatch, UpsertCursor, AnalysisTypes, TypeOK
  <2>2. /\ since' = since /\ owed' = owed /\ offset' = offset /\ audited' = audited
        /\ pc[p] \notin {"page", "insertPage"}
    BY <1>3 DEF StartLive, GetCursor, FetchBatch, UpsertCursor, runVars, historyVars
  <2>. QED BY <1>1, <1>2, <2>1, <2>2, LivePassOwes
<1>4. CASE StartBackfill(p)
  <2>1. PICK b \in Bounds : /\ since' = [since EXCEPT ![p] = b]
                            /\ owed' = [owed EXCEPT ![p] = Matching(b)]
    BY <1>4 DEF StartBackfill
  <2>2. /\ since'[p] = b /\ owed'[p] = Matching(b) /\ pc[p] = "idle" /\ pc'[p] = "page"
        /\ todo' = todo /\ fresh' = fresh /\ offset' = offset /\ audited' = audited
    BY <1>4, <2>1 DEF StartBackfill, AnalysisTypes, TypeOK
  <2>3. Matching(since[p])' = Matching(b)
    BY <1>1, <2>2 DEF Matching
  <2>4. offset[p] = 0
    BY <2>2 DEF BackfillOK
  <2>5. \A s : (Rank(Matching(since[p]), s))' \in Nat
    <3>1. Matching(since[p])' \in SUBSET Seqs
      BY <2>3, MatchingTypes
    <3>2. \A s : Rank(Matching(b), s) \in Nat
      BY MatchingTypes, RankType
    <3>3. \A s : (Rank(Matching(since[p]), s))' = Rank(Matching(b), s)
      BY <2>3 DEF Rank, Place, Ahead
    <3>. QED BY <3>2, <3>3
  <2>. QED BY <1>2, <2>2, <2>3, <2>4, <2>5 DEF BackfillOK
<1>5. CASE InsertAlert(p)
  BY <1>2, <1>5, InsertAlertOwes DEF InsertAlert, historyVars
<1>6. CASE FetchNothing(p) \/ Fail(p) \/ CommitReplyLost(p)
  BY <1>2, <1>6, NothingOwed DEF FetchNothing, Fail, CommitReplyLost
<1>7. CASE CommitBatch(p)
  <2>1. CASE HasMore(p)
    <3>1. /\ pc[p] = "commit" /\ pc'[p] = "cursor" /\ since' = since /\ owed' = owed
          /\ offset' = offset /\ audited' = audited
      BY <1>7, <2>1 DEF CommitBatch, AnalysisTypes, TypeOK
    <3>. QED BY <1>1, <1>2, <3>1, LivePassOwes
  <2>2. CASE ~HasMore(p)
    BY <1>2, <1>7, <2>2, NothingOwed DEF CommitBatch
  <2>. QED BY <2>1, <2>2
<1>8. CASE FetchPage(p)
  BY <1>2, <1>8, FetchPageOwes DEF FetchPage, historyVars
<1>9. CASE FetchNoPage(p)
  <2>1. KeysOf(p, owed[p]) \subseteq alerts
    BY <1>9, NoPageNothingOwed DEF FetchNoPage
  <2>. QED BY <1>1, <1>9, <2>1, NothingOwed DEF FetchNoPage, BackfillCovers
<1>10. CASE CommitPage(p)
  BY <1>1, <1>10, CommitPageOwes DEF BackfillCovers
<1>. QED BY <1>3, <1>4, <1>5, <1>6, <1>7, <1>8, <1>9, <1>10 DEF Step

(* The database starts with nothing owed and nothing audited.              *)
LEMMA BackfillInvInit == AnalysisInit => BackfillInv
BY TypesInit DEF AnalysisInit, BackfillInv, BackfillCovers, BackfillOK

(* Every step of the system keeps the invariant.                           *)
LEMMA BackfillInvStep == BackfillInv /\ [AnalysisNext]_vars => BackfillInv'
<1>. SUFFICES ASSUME BackfillInv, [AnalysisNext]_vars PROVE BackfillInv'
  OBVIOUS
<1>1. AnalysisTypes /\ AnalysisTypes'
  BY TypesStep DEF BackfillInv
<1>2. ASSUME NEW p \in Runners,
             StartLive(p) \/ StartBackfill(p) \/ Step(p) \/ Fail(p) \/ CommitReplyLost(p)
      PROVE  BackfillInv'
  <2>1. BackfillOK(p)' /\ BackfillCovers'
    BY <1>2, OwnStepOwes DEF BackfillInv
  <2>2. ASSUME NEW q \in Runners \ {p} PROVE BackfillOK(q)'
    BY <1>1, <1>2, OthersUntouched, BackfillUndisturbed DEF BackfillInv
  <2>. QED BY <1>1, <2>1, <2>2 DEF BackfillInv
<1>3. CASE Ingest \/ UNCHANGED vars
  <2>1. visible \subseteq visible'
    BY <1>3 DEF Ingest, FeedNext, FeedStep, Lock, Draw, Skip, CommitRows, AbortRows, vars, feedVars
  <2>2. UNCHANGED <<alerts, pc, batch, todo, fresh, since, offset, owed, audited>>
    BY <1>3 DEF Ingest, runVars, historyVars, vars
  <2>3. \A q \in Runners : BackfillOK(q)'
    BY <1>1, <2>1, <2>2, BackfillUndisturbed DEF BackfillInv
  <2>. QED BY <1>1, <2>2, <2>3 DEF BackfillInv, BackfillCovers
<1>. QED BY <1>2, <1>3 DEF AnalysisNext

(* A backfill that completes has stored every finding of its build on      *)
(* every matching event that was committed when it started, however many   *)
(* events are committed while it pages, whatever passes run beside it and  *)
(* whatever fails.                                                         *)
THEOREM BackfillIsComplete == AnalysisSpec => []BackfillCovers
<1>1. BackfillInv => BackfillCovers
  BY DEF BackfillInv
<1>. QED BY <1>1, BackfillInvInit, BackfillInvStep, PTL DEF AnalysisSpec
=============================================================================
