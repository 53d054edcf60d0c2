--------------------------- MODULE AnalysisProofs ---------------------------
(***************************************************************************)
(* What the analyser guarantees for every number of runners, writers,      *)
(* agents, events and rules: types, which events the cursor may pass       *)
(* without their alerts, that with one agent there are none, when the      *)
(* cursor may move back, what is reported, and that nobody waits in a      *)
(* circle.                                                                 *)
(***************************************************************************)
EXTENDS Analysis, OrderLemmas

-----------------------------------------------------------------------------
(* Which sequence numbers a transaction may still hold.                    *)

(* Numbers are drawn once: below nextSeq, and in one place at a time.      *)
DrawnOnce ==
    /\ \A s \in visible : s < nextSeq
    /\ \A w \in Writers : \A s \in open[w] : s < nextSeq /\ s \notin visible
    /\ \A v, w \in Writers : v # w => open[v] \cap open[w] = {}

(* Agent rows are locked by one transaction at a time, and only one that   *)
(* has locked an agent has drawn anything.                                 *)
LocksExclude ==
    /\ \A v, w \in Writers : v # w => held[v] \cap held[w] = {}
    /\ \A w \in Writers : open[w] # {} => held[w] # {}

FeedInv == FeedTypeOK /\ DrawnOnce /\ LocksExclude

(* The feed starts with no number drawn and no agent locked.               *)
LEMMA FeedInitInv == FeedInit => FeedInv
BY MaxSeqAssumption DEF FeedInit, FeedInv, FeedTypeOK, DrawnOnce, LocksExclude

(* A statement, commit or rollback of an ingestion transaction keeps the   *)
(* numbers drawn once and the agent locks exclusive.                       *)
LEMMA FeedStepInv == FeedInv /\ [FeedNext]_feedVars => FeedInv'
<1>. SUFFICES ASSUME FeedInv, [FeedNext]_feedVars PROVE FeedInv'
  OBVIOUS
<1>. USE MaxSeqAssumption DEF FeedInv, FeedTypeOK, DrawnOnce, LocksExclude, Seqs
<1>1. ASSUME NEW w \in Writers, NEW a \in Agents, Lock(w, a) PROVE FeedInv'
  BY <1>1 DEF Lock
<1>2. ASSUME NEW w \in Writers, Draw(w) PROVE FeedInv'
  <2>1. /\ nextSeq' = nextSeq + 1 /\ nextSeq \in 1 .. MaxSeq
        /\ open' = [open EXCEPT ![w] = @ \cup {nextSeq}]
        /\ held' = held /\ visible' = visible /\ held[w] # {}
    BY <1>2 DEF Draw
  <2>2. FeedTypeOK'
    BY <2>1
  <2>3. DrawnOnce'
    <3>1. \A v \in Writers : \A s \in open'[v] : s \in open[v] \/ (v = w /\ s = nextSeq)
      BY <2>1
    <3>2. \A u, v \in Writers : u # v => open'[u] \cap open'[v] = {}
      BY <2>1, <3>1
    <3>3. \A v \in Writers : \A s \in open'[v] : s < nextSeq' /\ s \notin visible'
      BY <2>1, <3>1
    <3>4. \A s \in visible' : s < nextSeq'
      BY <2>1
    <3>. QED BY <3>2, <3>3, <3>4
  <2>4. LocksExclude'
    BY <2>1
  <2>. QED BY <2>2, <2>3, <2>4
<1>3. ASSUME NEW w \in Writers, Skip(w) PROVE FeedInv'
  <2>1. PICK s \in open[w] : open' = [open EXCEPT ![w] = @ \ {s}]
    BY <1>3 DEF Skip
  <2>2. nextSeq' = nextSeq /\ held' = held /\ visible' = visible
    BY <1>3 DEF Skip
  <2>3. \A v \in Writers : open'[v] \subseteq open[v]
    BY <2>1
  <2>. QED BY <2>1, <2>2, <2>3
<1>4. ASSUME NEW w \in Writers, CommitRows(w) PROVE FeedInv'
  BY <1>4 DEF CommitRows
<1>5. ASSUME NEW w \in Writers, AbortRows(w) PROVE FeedInv'
  BY <1>5 DEF AbortRows
<1>6. CASE UNCHANGED feedVars
  BY <1>6 DEF feedVars
<1>. QED
  BY <1>1, <1>2, <1>3, <1>4, <1>5, <1>6 DEF FeedNext, FeedStep

(* Commit order against draw order when a single agent submits: whatever   *)
(* is in flight was drawn after everything that is visible.                *)
InOrder == \A w \in Writers : \A s \in open[w] : \A t \in visible : t < s

(* With one agent, the lock on its row makes commits follow ingest_seq.    *)
LEMMA OneAgentInOrder ==
    ASSUME NEW a, Agents = {a}, FeedInv, InOrder, [FeedNext]_feedVars
    PROVE  InOrder'
<1>. USE DEF FeedInv, FeedTypeOK, DrawnOnce, LocksExclude, InOrder, Seqs
<1>1. ASSUME NEW w \in Writers, NEW b \in Agents, Lock(w, b) PROVE InOrder'
  BY <1>1 DEF Lock
<1>2. ASSUME NEW w \in Writers, Draw(w) PROVE InOrder'
  BY <1>2 DEF Draw
<1>3. ASSUME NEW w \in Writers, Skip(w) PROVE InOrder'
  BY <1>3 DEF Skip
<1>4. ASSUME NEW w \in Writers, CommitRows(w) PROVE InOrder'
  <2>1. /\ visible' = visible \cup open[w]
        /\ open' = [open EXCEPT ![w] = {}]
        /\ held[w] # {}
    BY <1>4 DEF CommitRows
  <2>2. \A v \in Writers : v # w => open[v] = {}
    BY <2>1
  <2>. QED BY <2>1, <2>2
<1>5. ASSUME NEW w \in Writers, AbortRows(w) PROVE InOrder'
  BY <1>5 DEF AbortRows
<1>6. CASE UNCHANGED feedVars
  BY <1>6 DEF feedVars
<1>. QED
  BY <1>1, <1>2, <1>3, <1>4, <1>5, <1>6 DEF FeedNext, FeedStep

-----------------------------------------------------------------------------
AnalysisTypes == TypeOK /\ FeedInv

-----------------------------------------------------------------------------
(* Facts about the operators.                                              *)

(* Whatever is drawn from the sequence is finite, and so are its subsets.  *)
LEMMA FiniteSeqs ==
    ASSUME NEW S \in SUBSET Seqs
    PROVE  IsFiniteSet(S) /\ Cardinality(S) \in Nat
<1>1. IsFiniteSet(Seqs)
  BY FS_Interval, MaxSeqAssumption DEF Seqs
<1>. QED BY <1>1, FS_Subset, FS_CardinalityType

(* The alerts of an open transaction are finitely many.                    *)
LEMMA FiniteKeys ==
    ASSUME NEW S \in SUBSET Keys
    PROVE  IsFiniteSet(S) /\ Cardinality(S) \in Nat
<1>1. IsFiniteSet(Rules)
  BY FS_Interval, AnalysisAssumption DEF Rules
<1>2. IsFiniteSet(Keys)
  BY <1>1, FiniteSeqs, FS_Product DEF Keys
<1>. QED BY <1>2, FS_Subset, FS_CardinalityType

(* ORDER BY ingest_seq LIMIT n leaves no gap: it takes every row below the *)
(* last row it takes.                                                      *)
LEMMA FirstPageHasNoGap ==
    ASSUME NEW S \in SUBSET Seqs, NEW n \in Nat,
           NEW t \in Page(S, 0, n), NEW s \in S, s < t
    PROVE  s \in Page(S, 0, n)
<1>. DEFINE Below(u) == {v \in S : v < u}
<1>0. t \in S /\ \A v \in S : v \in Int
  BY MaxSeqAssumption DEF Page, Seqs
<1>1. \A v \in S : v < s => v < t
  BY <1>0
<1>2. Cardinality(Below(s)) <= Cardinality(Below(t))
  <2>1. IsFiniteSet(Below(t))
    BY FiniteSeqs, Below(t) \in SUBSET Seqs
  <2>. QED BY <1>1, <2>1, FS_Subset
<1>3. Cardinality(Below(t)) < n /\ Cardinality(Below(t)) \in Nat /\ Cardinality(Below(s)) \in Nat
  <2>1. Below(s) \in SUBSET Seqs /\ Below(t) \in SUBSET Seqs
    OBVIOUS
  <2>. QED BY <2>1, FiniteSeqs DEF Page
<1>. QED BY <1>1, <1>2, <1>3 DEF Page

(* An event is alerted when each finding due for it is in the table.       *)
LEMMA AlertedMeans ==
    ASSUME NEW s \in Seqs
    PROVE  Alerted(s) <=> \A r \in Due(s) : <<s, r>> \in alerts
BY DEF Alerted

(* Drafts are keyed by an event that was read and by one of the rules.     *)
LEMMA KeysOfTypes ==
    ASSUME NEW p \in Runners, NEW S \in SUBSET Seqs
    PROVE  KeysOf(p, S) \subseteq Keys
BY DEF KeysOf, Keys

-----------------------------------------------------------------------------
(* Types.                                                                  *)

(* What the start of the database and of the runners establishes.          *)
LEMMA TypesInit == AnalysisInit => AnalysisTypes
<1>. SUFFICES ASSUME AnalysisInit PROVE AnalysisTypes
  OBVIOUS
<1>1. FeedInv
  BY FeedInitInv DEF AnalysisInit
<1>. QED
  BY <1>1, AnalysisAssumption, MaxSeqAssumption
  DEF AnalysisInit, AnalysisTypes, TypeOK, FeedInv, Bounds

(* A runner that forgets its job keeps the types of its variables.         *)
LEMMA ForgetTypes ==
    ASSUME AnalysisTypes, NEW p \in Runners, Forget(p), pc' = [pc EXCEPT ![p] = "idle"]
    PROVE  /\ pc' \in [Runners -> {"idle", "cursor", "fetch", "insert", "commit",
                                   "page", "insertPage"}]
           /\ passes' \in [Runners -> 0 .. MaxBatches]
           /\ \A q \in Runners : passes'[q] = 0 <=> pc'[q] \in {"idle", "page", "insertPage"}
           /\ cur' \in [Runners -> 0 .. MaxSeq]
           /\ batch' \in [Runners -> SUBSET Seqs]
           /\ todo' \in [Runners -> SUBSET Keys]
           /\ fresh' \in [Runners -> SUBSET Keys]
           /\ since' \in [Runners -> Bounds]
           /\ offset' \in [Runners -> Nat]
           /\ owed' \in [Runners -> SUBSET Seqs]
<1>1. 0 \in Bounds /\ 0 \in 0 .. MaxSeq /\ 0 \in 0 .. MaxBatches
  BY AnalysisAssumption, MaxSeqAssumption DEF Bounds
<1>. QED BY <1>1 DEF AnalysisTypes, TypeOK, Forget

(* Every statement keeps the types.                                        *)
LEMMA TypesStep == AnalysisTypes /\ [AnalysisNext]_vars => AnalysisTypes'
<1>. SUFFICES ASSUME AnalysisTypes, [AnalysisNext]_vars PROVE AnalysisTypes'
  OBVIOUS
<1>. USE AnalysisAssumption, MaxSeqAssumption
<1>1. FeedInv'
  <2>1. [FeedNext]_feedVars
    BY DEF AnalysisNext, vars, feedVars, Ingest, StartLive, StartBackfill, Step, Fail,
       CommitReplyLost, GetCursor, FetchNothing, FetchBatch, InsertAlert,
       UpsertCursor, CommitBatch, FetchPage, FetchNoPage, CommitPage
  <2>. QED BY <2>1, FeedStepInv DEF AnalysisTypes
<1>2. CASE Ingest
  BY <1>1, <1>2 DEF AnalysisTypes, TypeOK, Ingest, FeedInv, runVars, historyVars
<1>3. ASSUME NEW p \in Runners, StartLive(p) PROVE AnalysisTypes'
  BY <1>1, <1>3 DEF AnalysisTypes, TypeOK, FeedInv, StartLive, PassesAsked, historyVars
<1>4. ASSUME NEW p \in Runners, StartBackfill(p) PROVE AnalysisTypes'
  BY <1>1, <1>4 DEF AnalysisTypes, TypeOK, FeedInv, FeedTypeOK, StartBackfill, Matching
<1>5. ASSUME NEW p \in Runners, GetCursor(p) PROVE AnalysisTypes'
  BY <1>1, <1>5 DEF AnalysisTypes, TypeOK, FeedInv, GetCursor, historyVars
<1>6. ASSUME NEW p \in Runners, FetchNothing(p) PROVE AnalysisTypes'
  BY <1>1, <1>6, ForgetTypes DEF AnalysisTypes, TypeOK, FeedInv, FetchNothing
<1>7. ASSUME NEW p \in Runners, FetchBatch(p) PROVE AnalysisTypes'
  <2>1. Page(Unread(p), 0, Limit[p]) \subseteq Seqs
    BY DEF Page, Unread, AnalysisTypes, FeedInv, FeedTypeOK
  <2>2. KeysOf(p, Page(Unread(p), 0, Limit[p])) \subseteq Keys
    BY <2>1, KeysOfTypes
  <2>3. InFlight \subseteq Seqs
    BY DEF InFlight, AnalysisTypes, FeedInv, FeedTypeOK
  <2>. QED BY <1>1, <1>7, <2>1, <2>2, <2>3 DEF AnalysisTypes, TypeOK, FeedInv, FetchBatch
<1>8. ASSUME NEW p \in Runners, InsertAlert(p) PROVE AnalysisTypes'
  BY <1>1, <1>8 DEF AnalysisTypes, TypeOK, FeedInv, InsertAlert, historyVars
<1>9. ASSUME NEW p \in Runners, UpsertCursor(p) PROVE AnalysisTypes'
  BY <1>1, <1>9 DEF AnalysisTypes, TypeOK, FeedInv, UpsertCursor, runVars, historyVars
<1>10. ASSUME NEW p \in Runners, CommitBatch(p) PROVE AnalysisTypes'
  <2>1. reported' \in Nat
    BY <1>10, FiniteKeys DEF CommitBatch, Written, AnalysisTypes, TypeOK
  <2>2. alerts' \subseteq Keys /\ cursor' \in 0 .. MaxSeq
    BY <1>10 DEF CommitBatch, Publish, AnalysisTypes, TypeOK, Seqs
  <2>3. CASE HasMore(p)
    BY <1>1, <1>10, <2>1, <2>2, <2>3
    DEF AnalysisTypes, TypeOK, FeedInv, CommitBatch, HasMore
  <2>4. CASE ~HasMore(p)
    BY <1>1, <1>10, <2>1, <2>2, <2>4, ForgetTypes DEF AnalysisTypes, TypeOK, FeedInv, CommitBatch
  <2>. QED BY <2>3, <2>4
<1>11. ASSUME NEW p \in Runners, FetchPage(p) PROVE AnalysisTypes'
  <2>1. BackfillPage(p) \subseteq Seqs
    BY DEF BackfillPage, Page, Matching, AnalysisTypes, FeedInv, FeedTypeOK
  <2>2. KeysOf(p, BackfillPage(p)) \subseteq Keys
    BY <2>1, KeysOfTypes
  <2>. QED BY <1>1, <1>11, <2>1, <2>2 DEF AnalysisTypes, TypeOK, FeedInv, FetchPage, historyVars
<1>12. ASSUME NEW p \in Runners, FetchNoPage(p) PROVE AnalysisTypes'
  <2>1. audited' \subseteq Keys
    BY <1>12, KeysOfTypes DEF FetchNoPage, AnalysisTypes, TypeOK
  <2>. QED BY <1>1, <1>12, <2>1, ForgetTypes DEF AnalysisTypes, TypeOK, FeedInv, FetchNoPage
<1>13. ASSUME NEW p \in Runners, CommitPage(p) PROVE AnalysisTypes'
  <2>1. reported' \in Nat /\ alerts' \subseteq Keys
    BY <1>13, FiniteKeys DEF CommitPage, Written, AnalysisTypes, TypeOK
  <2>4. KeysOf(p, owed[p]) \subseteq Keys
    BY KeysOfTypes DEF AnalysisTypes, TypeOK
  <2>2. CASE LastPage(p)
    BY <1>1, <1>13, <2>1, <2>2, <2>4, ForgetTypes DEF AnalysisTypes, TypeOK, FeedInv, CommitPage
  <2>3. CASE ~LastPage(p)
    <3>1. Cardinality(batch[p]) \in Nat
      BY FiniteSeqs DEF AnalysisTypes, TypeOK
    <3>. QED BY <1>1, <1>13, <2>1, <2>3, <3>1
             DEF AnalysisTypes, TypeOK, FeedInv, CommitPage
  <2>. QED BY <2>2, <2>3
<1>14. ASSUME NEW p \in Runners, Fail(p) PROVE AnalysisTypes'
  <2>1. Forget(p) /\ pc' = [pc EXCEPT ![p] = "idle"]
    BY <1>14 DEF Fail
  <2>2. faults' \in 0 .. MaxFaults
    BY <1>14 DEF Fail, AnalysisTypes, TypeOK
  <2>3. UNCHANGED <<cursor, alerts, overtaken, reported, audited>>
    BY <1>14 DEF Fail
  <2>. QED BY <1>1, <2>1, <2>2, <2>3, ForgetTypes DEF AnalysisTypes, TypeOK, FeedInv
<1>15. ASSUME NEW p \in Runners, CommitReplyLost(p) PROVE AnalysisTypes'
  <2>1. Forget(p) /\ pc' = [pc EXCEPT ![p] = "idle"]
    BY <1>15 DEF CommitReplyLost
  <2>2. faults' \in 0 .. MaxFaults
    BY <1>15 DEF CommitReplyLost, AnalysisTypes, TypeOK
  <2>3. alerts' \subseteq Keys /\ cursor' \in 0 .. MaxSeq
    BY <1>15 DEF CommitReplyLost, Publish, AnalysisTypes, TypeOK, Seqs
  <2>4. UNCHANGED <<overtaken, reported, audited>>
    BY <1>15 DEF CommitReplyLost
  <2>. QED BY <1>1, <2>1, <2>2, <2>3, <2>4, ForgetTypes DEF AnalysisTypes, TypeOK, FeedInv
<1>16. CASE UNCHANGED vars
  BY <1>1, <1>16 DEF AnalysisTypes, TypeOK, FeedInv, vars, runVars, historyVars
<1>. QED
  BY <1>2, <1>3, <1>4, <1>5, <1>6, <1>7, <1>8, <1>9, <1>10, <1>11, <1>12, <1>13,
     <1>14, <1>15, <1>16
  DEF AnalysisNext, Step

(* Type correctness of the whole analyser.                                 *)
THEOREM AnalysisTypeOK == AnalysisSpec => []TypeOK
<1>1. AnalysisSpec => []AnalysisTypes
  BY TypesInit, TypesStep, PTL DEF AnalysisSpec
<1>. QED BY <1>1, PTL DEF AnalysisTypes

-----------------------------------------------------------------------------
(* The cursor and the events below it.                                     *)

(* n is a safe place for the cursor: what is visible up to n is alerted or *)
(* was overtaken, what is in flight up to n was overtaken, and nothing up  *)
(* to n is still to be drawn.                                              *)
Settled(n) ==
    /\ n < nextSeq
    /\ \A s \in visible : s <= n => s \in overtaken \/ \A r \in Due(s) : <<s, r>> \in alerts
    /\ \A w \in Writers : \A s \in open[w] : s <= n => s \in overtaken

(* The batch of p leaves nothing between its cursor and its last event,    *)
(* except what was overtaken, and no finding of it has been forgotten.     *)
Gapless(p) ==
    /\ batch[p] \subseteq visible
    /\ \A t \in batch[p] :
         /\ \A s \in visible : s <= t => s <= cur[p] \/ s \in batch[p] \/ s \in overtaken
         /\ \A w \in Writers : \A s \in open[w] : s <= t => s \in overtaken
         /\ \A r \in Due(t) : <<t, r>> \in todo[p] \cup fresh[p] \cup alerts

PassOK(p) ==
    /\ pc[p] \in {"fetch", "insert", "commit"} => Settled(cur[p])
    /\ pc[p] \in {"insert", "commit"} => Gapless(p)
    /\ pc[p] = "commit" => todo[p] = {}

CursorInv ==
    /\ AnalysisTypes
    /\ Settled(cursor)
    /\ \A p \in Runners : PassOK(p)

(* The invariant says what LostOnlyIfOvertaken says, and more.             *)
LEMMA CursorInvImplies == CursorInv => LostOnlyIfOvertaken
BY AlertedMeans DEF CursorInv, LostOnlyIfOvertaken, Settled, AnalysisTypes, FeedInv, FeedTypeOK

(* It holds before anything has happened.                                  *)
LEMMA CursorInvInit == AnalysisInit => CursorInv
BY TypesInit DEF AnalysisInit, FeedInit, CursorInv, Settled, PassOK

(* Ingestion does not disturb it: a new number is above every cursor, and  *)
(* a number that becomes visible below one was in flight, thus overtaken.  *)
LEMMA CursorInvIngest == CursorInv /\ Ingest => CursorInv'
<1>. SUFFICES ASSUME CursorInv, Ingest PROVE CursorInv'
  OBVIOUS
<1>1. AnalysisTypes'
  BY TypesStep DEF CursorInv, AnalysisNext
<1>2. UNCHANGED <<cursor, alerts, pc, cur, batch, todo, fresh, overtaken>>
  BY DEF Ingest, runVars, historyVars
<1>3. /\ nextSeq \in Nat /\ nextSeq' \in Nat /\ nextSeq' >= nextSeq
      /\ visible \subseteq visible'
      /\ \A s \in visible' \ visible : \E w \in Writers : s \in open[w]
      /\ \A w \in Writers : \A s \in open'[w] : s \in open[w] \/ s = nextSeq
  <2>. USE DEF CursorInv, AnalysisTypes, FeedInv, FeedTypeOK, Seqs
  <2>1. PICK w \in Writers : FeedStep(w)
    BY DEF Ingest, FeedNext
  <2>2. CASE \E a \in Agents : Lock(w, a)
    BY <2>2, MaxSeqAssumption DEF Lock
  <2>3. CASE Draw(w)
    BY <2>3, MaxSeqAssumption DEF Draw
  <2>4. CASE Skip(w)
    BY <2>4, MaxSeqAssumption DEF Skip
  <2>5. CASE CommitRows(w)
    BY <2>5, MaxSeqAssumption DEF CommitRows
  <2>6. CASE AbortRows(w)
    BY <2>6, MaxSeqAssumption DEF AbortRows
  <2>. QED BY <2>1, <2>2, <2>3, <2>4, <2>5, <2>6 DEF FeedStep
<1>4. ASSUME NEW n \in Nat, Settled(n)
      PROVE  /\ n < nextSeq'
             /\ \A s \in visible' : s <= n =>
                    s \in overtaken \/ \A r \in Due(s) : <<s, r>> \in alerts
             /\ \A w \in Writers : \A s \in open'[w] : s <= n => s \in overtaken
  BY <1>3, <1>4 DEF Settled
<1>5. Settled(cursor)'
  BY <1>2, <1>4 DEF Settled, CursorInv, AnalysisTypes, TypeOK
<1>6. ASSUME NEW p \in Runners PROVE PassOK(p)'
  <2>1. cur[p] \in Nat
    BY DEF CursorInv, AnalysisTypes, TypeOK
  <2>2. pc[p] \in {"fetch", "insert", "commit"} => Settled(cur[p])'
    BY <1>2, <1>4, <2>1 DEF Settled, CursorInv, PassOK
  <2>3. Gapless(p) => Gapless(p)'
    <3>. SUFFICES ASSUME Gapless(p) PROVE Gapless(p)'
      OBVIOUS
    <3>0. visible \subseteq Nat /\ \A t \in visible : t < nextSeq
      BY MaxSeqAssumption DEF CursorInv, AnalysisTypes, FeedInv, FeedTypeOK, DrawnOnce, Seqs
    <3>1. \A t \in batch[p] : t < nextSeq /\ t \in Nat
      BY <3>0 DEF Gapless
    <3>2. ASSUME NEW t \in batch[p], NEW s \in visible', s <= t
          PROVE  s \in visible \/ s \in overtaken
      BY <1>3, <3>2 DEF Gapless
    <3>3. ASSUME NEW t \in batch[p], NEW w \in Writers, NEW s \in open'[w], s <= t
          PROVE  s \in overtaken
      BY <1>3, <3>1, <3>3 DEF Gapless
    <3>4. \A t \in batch[p] :
            /\ \A s \in visible' : s <= t => s <= cur[p] \/ s \in batch[p] \/ s \in overtaken
            /\ \A r \in Due(t) : <<t, r>> \in todo[p] \cup fresh[p] \cup alerts
      BY <3>2 DEF Gapless
    <3>5. batch[p] \subseteq visible'
      BY <1>3 DEF Gapless
    <3>. QED BY <1>2, <3>3, <3>4, <3>5 DEF Gapless
  <2>. QED BY <1>2, <2>2, <2>3 DEF CursorInv, PassOK
<1>. QED BY <1>1, <1>5, <1>6 DEF CursorInv

(* Alerts and overtaken numbers only accumulate, so what another runner    *)
(* relies on stays true while p takes a step.                              *)
LEMMA Undisturbed ==
    ASSUME CursorInv, UNCHANGED feedVars, alerts \subseteq alerts',
           overtaken \subseteq overtaken'
    PROVE  /\ \A n \in Nat : Settled(n) =>
                 /\ n < nextSeq'
                 /\ \A s \in visible' : s <= n =>
                       s \in overtaken' \/ \A r \in Due(s) : <<s, r>> \in alerts'
                 /\ \A w \in Writers : \A s \in open'[w] : s <= n => s \in overtaken'
           /\ \A q \in Runners :
                 /\ pc'[q] = pc[q] /\ cur'[q] = cur[q] /\ batch'[q] = batch[q]
                 /\ todo'[q] = todo[q] /\ fresh'[q] = fresh[q]
                 => PassOK(q)'
<1>1. visible' = visible /\ open' = open /\ nextSeq' = nextSeq
  BY DEF feedVars
<1>2. \A n \in Nat : Settled(n) =>
         /\ n < nextSeq'
         /\ \A s \in visible' : s <= n =>
               s \in overtaken' \/ \A r \in Due(s) : <<s, r>> \in alerts'
         /\ \A w \in Writers : \A s \in open'[w] : s <= n => s \in overtaken'
  BY <1>1 DEF Settled
<1>3. ASSUME NEW q \in Runners,
             pc'[q] = pc[q], cur'[q] = cur[q], batch'[q] = batch[q],
             todo'[q] = todo[q], fresh'[q] = fresh[q]
      PROVE  PassOK(q)'
  <2>1. cur[q] \in Nat /\ PassOK(q)
    BY DEF CursorInv, AnalysisTypes, TypeOK
  <2>2. Settled(cur[q]) => Settled(cur[q])'
    BY <1>2, <1>3, <2>1 DEF Settled
  <2>3. Gapless(q) => Gapless(q)'
    BY <1>1, <1>3 DEF Gapless
  <2>. QED BY <1>3, <2>1, <2>2, <2>3 DEF PassOK
<1>. QED BY <1>2, <1>3

(* A runner that is idle, or pages through a backfill, relies on nothing.  *)
LEMMA NothingToKeep ==
    ASSUME NEW p \in Runners, pc'[p] \in {"idle", "cursor", "page", "insertPage"}
    PROVE  PassOK(p)'
BY DEF PassOK

(* Reading the cursor and the batch.                                       *)
LEMMA CursorInvRead ==
    ASSUME CursorInv, NEW p \in Runners, GetCursor(p) \/ FetchBatch(p)
    PROVE  CursorInv'
<1>1. AnalysisTypes'
  BY TypesStep DEF CursorInv, AnalysisNext, Step
<1>2. /\ UNCHANGED feedVars /\ UNCHANGED <<cursor, alerts, fresh>>
      /\ overtaken \subseteq overtaken'
  BY DEF GetCursor, FetchBatch, historyVars
<1>3. cursor \in Nat /\ \A q \in Runners : cur[q] \in Nat
  BY DEF CursorInv, AnalysisTypes, TypeOK
<1>4. Settled(cursor)'
  BY <1>2, <1>3, Undisturbed DEF Settled, CursorInv
<1>5. ASSUME NEW q \in Runners \ {p} PROVE PassOK(q)'
  <2>1. /\ pc'[q] = pc[q] /\ cur'[q] = cur[q] /\ batch'[q] = batch[q]
        /\ todo'[q] = todo[q] /\ fresh'[q] = fresh[q]
    BY DEF GetCursor, FetchBatch, CursorInv, AnalysisTypes, TypeOK
  <2>. QED BY <1>2, <2>1, Undisturbed
<1>6. CASE GetCursor(p)
  <2>1. cur'[p] = cursor /\ pc'[p] = "fetch"
    BY <1>6 DEF GetCursor, CursorInv, AnalysisTypes, TypeOK
  <2>2. PassOK(p)'
    BY <1>4, <1>2, <2>1 DEF PassOK, Settled
  <2>. QED BY <1>1, <1>4, <1>5, <2>2 DEF CursorInv
<1>7. CASE FetchBatch(p)
  <2>. DEFINE B == Page(Unread(p), 0, Limit[p])
  <2>1. /\ pc[p] = "fetch" /\ pc'[p] = "insert" /\ cur'[p] = cur[p]
        /\ batch'[p] = B /\ todo'[p] = KeysOf(p, B)
        /\ overtaken' = overtaken \cup {s \in InFlight : \E t \in B : s < t}
    BY <1>7 DEF FetchBatch, CursorInv, AnalysisTypes, TypeOK
  <2>2. Settled(cur[p])'
    BY <1>2, <1>3, <2>1, Undisturbed DEF Settled, CursorInv, PassOK
  <2>3. B \subseteq Unread(p) /\ Unread(p) \subseteq visible /\ visible \subseteq Seqs
    BY DEF Page, Unread, CursorInv, AnalysisTypes, FeedInv, FeedTypeOK
  <2>0. cur[p] \in Int
    BY <1>3
  <2>4. ASSUME NEW t \in B, NEW s \in visible, s <= t
        PROVE  s <= cur[p] \/ s \in B
    <3>0. Seqs \subseteq Int
      BY MaxSeqAssumption DEF Seqs
    <3>1. s \in Int /\ t \in Int /\ cur[p] \in Int
      <4>1. s \in Seqs /\ t \in Seqs
        BY <2>3
      <4>2. cur[p] \in Int
        BY <2>0
      <4>. QED BY <3>0, <4>1, <4>2, Zenon
    <3>2. s < t /\ s \in Unread(p) => s \in B
      <4>1. Unread(p) \in SUBSET Seqs /\ Limit[p] \in Nat
        BY <2>3, AnalysisAssumption
      <4>. QED BY <4>1, FirstPageHasNoGap
    <3>. QED BY <2>4, <3>1, <3>2 DEF Unread
  <2>5. ASSUME NEW t \in B, NEW w \in Writers, NEW s \in open[w], s <= t
        PROVE  s \in overtaken'
    <3>1. s # t
      BY <2>3 DEF CursorInv, AnalysisTypes, FeedInv, DrawnOnce
    <3>0. Seqs \subseteq Int
      BY MaxSeqAssumption DEF Seqs
    <3>2. s \in Int /\ t \in Int /\ s \in InFlight
      BY <2>3, <3>0 DEF InFlight, CursorInv, AnalysisTypes, FeedInv, FeedTypeOK
    <3>. QED BY <2>1, <2>5, <3>1, <3>2
  <2>6. \A t \in B : \A r \in Due(t) : <<t, r>> \in KeysOf(p, B)
    BY <2>3, RulesAssumption DEF KeysOf, Drafts, Due
  <2>7. Gapless(p)'
    BY <1>2, <2>1, <2>3, <2>4, <2>5, <2>6 DEF Gapless, feedVars
  <2>8. PassOK(p)'
    BY <2>1, <2>2, <2>7 DEF PassOK
  <2>. QED BY <1>1, <1>4, <1>5, <2>8 DEF CursorInv
<1>. QED BY <1>6, <1>7

(* Writing the alerts and taking the cursor row: nothing is committed yet. *)
LEMMA CursorInvWrite ==
    ASSUME CursorInv, NEW p \in Runners, InsertAlert(p) \/ UpsertCursor(p)
    PROVE  CursorInv'
<1>1. AnalysisTypes'
  BY TypesStep DEF CursorInv, AnalysisNext, Step
<1>2. UNCHANGED feedVars /\ UNCHANGED <<cursor, alerts, cur, batch, overtaken>>
  BY DEF InsertAlert, UpsertCursor, runVars, historyVars
<1>3. cursor \in Nat /\ \A q \in Runners : cur[q] \in Nat
  BY DEF CursorInv, AnalysisTypes, TypeOK
<1>4. Settled(cursor)'
  BY <1>2, <1>3, Undisturbed DEF Settled, CursorInv
<1>5. ASSUME NEW q \in Runners \ {p} PROVE PassOK(q)'
  <2>1. /\ pc'[q] = pc[q] /\ cur'[q] = cur[q] /\ batch'[q] = batch[q]
        /\ todo'[q] = todo[q] /\ fresh'[q] = fresh[q]
    BY DEF InsertAlert, UpsertCursor, runVars, CursorInv, AnalysisTypes, TypeOK
  <2>. QED BY <1>2, <2>1, Undisturbed
<1>6. Settled(cur[p]) => Settled(cur[p])'
  BY <1>2, <1>3, Undisturbed DEF Settled
<1>7. CASE InsertAlert(p)
  <2>1. PICK k \in todo[p] : /\ todo'[p] = todo[p] \ {k}
                             /\ fresh'[p] = fresh[p] \cup ({k} \ alerts)
    BY <1>7 DEF InsertAlert, CursorInv, AnalysisTypes, TypeOK
  <2>2. pc' = pc /\ pc[p] # "commit" /\ pc[p] # "fetch"
    BY <1>7 DEF InsertAlert
  <2>3. Gapless(p) => Gapless(p)'
    BY <1>2, <2>1 DEF Gapless, feedVars
  <2>4. PassOK(p)'
    BY <1>6, <2>2, <2>3 DEF PassOK, CursorInv
  <2>. QED BY <1>1, <1>4, <1>5, <2>4 DEF CursorInv
<1>8. CASE UpsertCursor(p)
  <2>1. /\ pc[p] = "insert" /\ pc'[p] = "commit" /\ todo[p] = {}
        /\ todo' = todo /\ fresh' = fresh
    BY <1>8 DEF UpsertCursor, runVars, CursorInv, AnalysisTypes, TypeOK
  <2>2. Gapless(p)'
    BY <1>2, <2>1 DEF Gapless, feedVars, PassOK, CursorInv
  <2>3. PassOK(p)'
    BY <1>6, <2>1, <2>2 DEF PassOK, CursorInv
  <2>. QED BY <1>1, <1>4, <1>5, <2>3 DEF CursorInv
<1>. QED BY <1>7, <1>8

(* The commit of a pass, heard of or not: the new cursor is a safe place.  *)
LEMMA CursorInvCommit ==
    ASSUME CursorInv, NEW p \in Runners, pc[p] = "commit", Publish(p),
           UNCHANGED feedVars, overtaken' = overtaken, AnalysisTypes',
           pc'[p] \in {"idle", "cursor"},
           \A q \in Runners \ {p} :
               /\ pc'[q] = pc[q] /\ cur'[q] = cur[q] /\ batch'[q] = batch[q]
               /\ todo'[q] = todo[q] /\ fresh'[q] = fresh[q]
    PROVE  CursorInv'
<1>1. alerts' = alerts \cup fresh[p] /\ overtaken \subseteq overtaken'
  BY DEF Publish
<1>2. PICK n \in batch[p] : cursor' = n /\ \A s \in batch[p] : s <= n
  BY DEF Publish, Watermark
<1>3. Settled(cur[p]) /\ Gapless(p) /\ todo[p] = {}
  BY DEF CursorInv, PassOK
<1>4. n \in visible /\ n < nextSeq /\ cur[p] \in Nat
  BY <1>3 DEF Gapless, CursorInv, AnalysisTypes, TypeOK, FeedInv, DrawnOnce
<1>5. ASSUME NEW s \in visible, s <= n
      PROVE  s \in overtaken \/ \A r \in Due(s) : <<s, r>> \in alerts'
  <2>1. CASE s <= cur[p]
    BY <1>1, <1>3, <2>1 DEF Settled
  <2>2. CASE s \in batch[p]
    BY <1>1, <1>3, <2>2 DEF Gapless
  <2>3. CASE s \in overtaken
    BY <2>3
  <2>. QED BY <1>2, <1>3, <1>5, <2>1, <2>2, <2>3 DEF Gapless
<1>6. \A w \in Writers : \A s \in open[w] : s <= n => s \in overtaken
  BY <1>2, <1>3 DEF Gapless
<1>7. Settled(cursor)'
  BY <1>2, <1>4, <1>5, <1>6 DEF Settled, feedVars
<1>8. \A q \in Runners \ {p} : PassOK(q)'
  BY <1>1, Undisturbed
<1>9. PassOK(p)'
  BY NothingToKeep
<1>. QED BY <1>7, <1>8, <1>9 DEF CursorInv

(* The jobs that end, and the backfills, leave the cursor where it is.     *)
LEMMA CursorInvRest ==
    ASSUME CursorInv, NEW p \in Runners,
           \/ StartLive(p) \/ StartBackfill(p) \/ FetchNothing(p)
           \/ FetchPage(p) \/ FetchNoPage(p) \/ CommitPage(p) \/ Fail(p)
           \/ CommitReplyLost(p) /\ pc[p] # "commit"
    PROVE  CursorInv'
<1>1. AnalysisTypes'
  BY TypesStep DEF CursorInv, AnalysisNext, Step
<1>2. /\ UNCHANGED feedVars /\ UNCHANGED <<cursor, overtaken>>
      /\ alerts \subseteq alerts'
  BY DEF StartLive, StartBackfill, FetchNothing, FetchPage, FetchNoPage, CommitPage,
         Fail, CommitReplyLost, historyVars
<1>3. Settled(cursor)'
  <2>1. cursor \in Nat
    BY DEF CursorInv, AnalysisTypes, TypeOK
  <2>. QED BY <1>2, <2>1, Undisturbed DEF Settled, CursorInv
<1>. USE DEF CursorInv, AnalysisTypes, TypeOK
<1>4. pc'[p] \in {"idle", "cursor", "page", "insertPage"}
  BY DEF StartLive, StartBackfill, FetchNothing, FetchPage, FetchNoPage, CommitPage,
         Fail, CommitReplyLost
<1>5. ASSUME NEW q \in Runners \ {p}
      PROVE  /\ pc'[q] = pc[q] /\ cur'[q] = cur[q] /\ batch'[q] = batch[q]
             /\ todo'[q] = todo[q] /\ fresh'[q] = fresh[q]
  <2>1. Forget(p) => /\ cur'[q] = cur[q] /\ batch'[q] = batch[q]
                     /\ todo'[q] = todo[q] /\ fresh'[q] = fresh[q]
    BY DEF Forget
  <2>2. CASE StartLive(p) \/ StartBackfill(p)
    BY <2>2 DEF StartLive, StartBackfill
  <2>3. CASE FetchNothing(p) \/ FetchNoPage(p) \/ Fail(p) \/ CommitReplyLost(p)
    BY <2>1, <2>3 DEF FetchNothing, FetchNoPage, Fail, CommitReplyLost
  <2>4. CASE FetchPage(p)
    BY <2>4 DEF FetchPage
  <2>5. CASE CommitPage(p)
    BY <2>1, <2>5 DEF CommitPage
  <2>. QED BY <2>2, <2>3, <2>4, <2>5
<1>6. \A q \in Runners \ {p} : PassOK(q)'
  BY <1>2, <1>5, Undisturbed
<1>7. PassOK(p)'
  BY <1>4, NothingToKeep
<1>. QED BY <1>1, <1>3, <1>6, <1>7

(* Every step keeps the invariant.                                         *)
LEMMA CursorInvStep == CursorInv /\ [AnalysisNext]_vars => CursorInv'
<1>. SUFFICES ASSUME CursorInv, [AnalysisNext]_vars PROVE CursorInv'
  OBVIOUS
<1>1. AnalysisTypes'
  BY TypesStep DEF CursorInv
<1>2. ASSUME NEW p \in Runners, CommitBatch(p) \/ CommitReplyLost(p), pc[p] = "commit"
      PROVE  CursorInv'
  <2>. USE DEF CursorInv, AnalysisTypes, TypeOK
  <2>1. Publish(p) /\ UNCHANGED feedVars /\ overtaken' = overtaken
    BY <1>2 DEF CommitBatch, CommitReplyLost
  <2>2. pc'[p] \in {"idle", "cursor"}
    BY <1>2 DEF CommitBatch, CommitReplyLost
  <2>3. ASSUME NEW q \in Runners \ {p}
        PROVE  /\ pc'[q] = pc[q] /\ cur'[q] = cur[q] /\ batch'[q] = batch[q]
               /\ todo'[q] = todo[q] /\ fresh'[q] = fresh[q]
    BY <1>2 DEF CommitBatch, CommitReplyLost, Forget
  <2>. QED BY <1>1, <1>2, <2>1, <2>2, <2>3, CursorInvCommit
<1>3. CASE UNCHANGED vars
  BY <1>1, <1>3
  DEF vars, feedVars, runVars, historyVars, CursorInv, PassOK, Settled, Gapless
<1>4. CASE Ingest
  BY <1>4, CursorInvIngest
<1>5. ASSUME NEW p \in Runners, Step(p) PROVE CursorInv'
  <2>1. CASE CommitBatch(p)
    BY <1>2, <2>1 DEF CommitBatch
  <2>2. CASE GetCursor(p) \/ FetchBatch(p)
    BY <2>2, CursorInvRead
  <2>3. CASE InsertAlert(p) \/ UpsertCursor(p)
    BY <2>3, CursorInvWrite
  <2>4. CASE FetchNothing(p) \/ FetchPage(p) \/ FetchNoPage(p) \/ CommitPage(p)
    BY <2>4, CursorInvRest
  <2>. QED BY <1>5, <2>1, <2>2, <2>3, <2>4 DEF Step
<1>6. ASSUME NEW p \in Runners, StartLive(p) \/ StartBackfill(p) \/ Fail(p)
      PROVE  CursorInv'
  BY <1>6, CursorInvRest
<1>7. ASSUME NEW p \in Runners, CommitReplyLost(p) PROVE CursorInv'
  BY <1>2, <1>7, CursorInvRest
<1>. QED BY <1>3, <1>4, <1>5, <1>6, <1>7 DEF AnalysisNext

(* Whatever fails, whatever runs at the same time and in whatever order    *)
(* ingestion commits: a committed event that the cursor has passed without *)
(* its alerts was uncommitted when a batch beyond it was read.             *)
THEOREM OnlyOvertakenEventsAreLost == AnalysisSpec => []LostOnlyIfOvertaken
<1>1. AnalysisSpec => []CursorInv
  BY CursorInvInit, CursorInvStep, PTL DEF AnalysisSpec
<1>. QED BY <1>1, CursorInvImplies, PTL

-----------------------------------------------------------------------------
(* One agent.                                                              *)

NoneOvertaken == InOrder /\ overtaken = {}

(* With one agent, no batch is read beyond a number still in flight.       *)
LEMMA NoneOvertakenStep ==
    ASSUME NEW a, Agents = {a}, CursorInv, NoneOvertaken, [AnalysisNext]_vars
    PROVE  NoneOvertaken'
<1>1. [FeedNext]_feedVars
  BY DEF AnalysisNext, vars, feedVars, Ingest, StartLive, StartBackfill, Step, Fail,
     CommitReplyLost, GetCursor, FetchNothing, FetchBatch, InsertAlert,
     UpsertCursor, CommitBatch, FetchPage, FetchNoPage, CommitPage
<1>2. InOrder'
  BY <1>1, OneAgentInOrder DEF CursorInv, AnalysisTypes, NoneOvertaken
<1>3. overtaken' = {}
  <2>1. CASE \E p \in Runners : FetchBatch(p)
    <3>1. PICK p \in Runners : FetchBatch(p)
      BY <2>1
    <3>0. Seqs \subseteq Int
      BY MaxSeqAssumption DEF Seqs
    <3>2. Page(Unread(p), 0, Limit[p]) \subseteq visible /\ visible \subseteq Int
      <4>1. Page(Unread(p), 0, Limit[p]) \subseteq Unread(p)
        BY DEF Page
      <4>2. visible \subseteq Seqs
        BY DEF CursorInv, AnalysisTypes, FeedInv, FeedTypeOK
      <4>. QED BY <3>0, <4>1, <4>2 DEF Unread
    <3>3. \A s \in InFlight : s \in Int /\ \A t \in visible : t < s
      <4>1. \A w \in Writers : open[w] \subseteq Seqs
        BY DEF CursorInv, AnalysisTypes, FeedInv, FeedTypeOK
      <4>. QED BY <3>0, <4>1 DEF InFlight, NoneOvertaken, InOrder
    <3>4. {s \in InFlight : \E t \in Page(Unread(p), 0, Limit[p]) : s < t} = {}
      <4>1. ASSUME NEW s \in InFlight, NEW t \in Page(Unread(p), 0, Limit[p]) PROVE ~(s < t)
        <5>1. s \in Int /\ t \in Int /\ t < s
          BY <3>2, <3>3
        <5>. QED BY <5>1
      <4>. QED BY <4>1
    <3>. QED BY <3>1, <3>4 DEF FetchBatch, NoneOvertaken
  <2>2. CASE ~ \E p \in Runners : FetchBatch(p)
    BY <2>2 DEF NoneOvertaken, AnalysisNext, vars, Ingest, StartLive, StartBackfill,
       Step, Fail, CommitReplyLost, GetCursor, FetchNothing, InsertAlert, UpsertCursor,
       CommitBatch, FetchPage, FetchNoPage, CommitPage, historyVars
  <2>. QED BY <2>1, <2>2
<1>. QED BY <1>2, <1>3 DEF NoneOvertaken

(* Events of one agent commit in the order of their sequence numbers, and  *)
(* then the cursor passes no event without storing its alerts: neither a   *)
(* failure nor a concurrent pass makes the analyser skip one.              *)
THEOREM OneAgentNoSkip ==
    ASSUME NEW a, Agents = {a}
    PROVE  AnalysisSpec => []NoSkip
<1>1. AnalysisInit => CursorInv /\ NoneOvertaken
  BY CursorInvInit DEF AnalysisInit, FeedInit, NoneOvertaken, InOrder
<1>2. CursorInv /\ NoneOvertaken /\ [AnalysisNext]_vars => (CursorInv /\ NoneOvertaken)'
  BY CursorInvStep, NoneOvertakenStep
<1>3. CursorInv /\ NoneOvertaken => NoSkip
  BY CursorInvImplies DEF LostOnlyIfOvertaken, NoneOvertaken, NoSkip
<1>. QED BY <1>1, <1>2, <1>3, PTL DEF AnalysisSpec

-----------------------------------------------------------------------------
(* One live runner.                                                        *)

(* Only live runners run passes; while no other pass commits, the cursor a *)
(* pass has read is the cursor, and its batch lies beyond it.              *)
CursorIsCurrent ==
    \A q \in Runners :
        /\ pc[q] \in {"cursor", "fetch", "insert", "commit"} => q \in LiveRunners
        /\ pc[q] \in {"fetch", "insert", "commit"} => cur[q] = cursor
        /\ pc[q] \in {"insert", "commit"} => \A s \in batch[q] : s > cur[q]

(* With one live runner, its cursor stays current and only grows.          *)
LEMMA CursorIsCurrentStep ==
    ASSUME NEW l, LiveRunners = {l}, AnalysisTypes, CursorIsCurrent, [AnalysisNext]_vars
    PROVE  CursorIsCurrent' /\ cursor' >= cursor
<1>. USE DEF AnalysisTypes, TypeOK, CursorIsCurrent
<1>1. CASE UNCHANGED vars \/ Ingest
  BY <1>1 DEF vars, Ingest, runVars, historyVars
<1>2. ASSUME NEW p \in Runners, StartLive(p) PROVE CursorIsCurrent' /\ cursor' >= cursor
  BY <1>2 DEF StartLive
<1>3. ASSUME NEW p \in Runners, StartBackfill(p) PROVE CursorIsCurrent' /\ cursor' >= cursor
  BY <1>3 DEF StartBackfill
<1>4. ASSUME NEW p \in Runners, GetCursor(p) PROVE CursorIsCurrent' /\ cursor' >= cursor
  BY <1>4 DEF GetCursor
<1>5. ASSUME NEW p \in Runners, FetchBatch(p) PROVE CursorIsCurrent' /\ cursor' >= cursor
  <2>1. \A s \in Page(Unread(p), 0, Limit[p]) : s > cur[p]
    BY DEF Page, Unread
  <2>. QED BY <1>5, <2>1 DEF FetchBatch
<1>6. ASSUME NEW p \in Runners, InsertAlert(p) \/ UpsertCursor(p)
      PROVE  CursorIsCurrent' /\ cursor' >= cursor
  BY <1>6 DEF InsertAlert, UpsertCursor, runVars
<1>7. ASSUME NEW p \in Runners, FetchPage(p) PROVE CursorIsCurrent' /\ cursor' >= cursor
  BY <1>7 DEF FetchPage
<1>8. ASSUME NEW p \in Runners, Forget(p), pc' = [pc EXCEPT ![p] = "idle"], cursor' = cursor
      PROVE  CursorIsCurrent' /\ cursor' >= cursor
  BY <1>8 DEF Forget
<1>9. ASSUME NEW p \in Runners, CommitPage(p) PROVE CursorIsCurrent' /\ cursor' >= cursor
  <2>1. CASE LastPage(p)
    BY <1>8, <1>9, <2>1 DEF CommitPage
  <2>2. CASE ~LastPage(p)
    BY <1>9, <2>2 DEF CommitPage
  <2>. QED BY <2>1, <2>2
<1>10. ASSUME NEW p \in Runners, CommitBatch(p) \/ CommitReplyLost(p), pc[p] = "commit"
       PROVE  CursorIsCurrent' /\ cursor' >= cursor
  <2>1. PICK n \in batch[p] : cursor' = n
    BY <1>10 DEF CommitBatch, CommitReplyLost, Publish, Watermark
  <2>2. n > cursor /\ n \in Nat
    BY <2>1, <1>10, MaxSeqAssumption DEF Seqs
  <2>3. pc'[p] \in {"idle", "cursor"} /\ \A q \in Runners \ {p} : pc'[q] = pc[q]
    BY <1>10 DEF CommitBatch, CommitReplyLost
  <2>4. p = l /\ \A q \in Runners \ {p} : pc[q] \notin {"cursor", "fetch", "insert", "commit"}
    BY <1>10
  <2>5. CursorIsCurrent'
    BY <2>3, <2>4
  <2>. QED BY <2>1, <2>2, <2>5
<1>11. ASSUME NEW p \in Runners,
              FetchNothing(p) \/ FetchNoPage(p) \/ Fail(p)
                \/ (CommitReplyLost(p) /\ pc[p] # "commit")
       PROVE  CursorIsCurrent' /\ cursor' >= cursor
  BY <1>8, <1>11 DEF FetchNothing, FetchNoPage, Fail, CommitReplyLost
<1>12. ASSUME NEW p \in Runners, CommitBatch(p) PROVE pc[p] = "commit"
  BY <1>12 DEF CommitBatch
<1>. QED
  BY <1>1, <1>2, <1>3, <1>4, <1>5, <1>6, <1>7, <1>9, <1>10, <1>11, <1>12
  DEF AnalysisNext, Step

(* With one live runner the cursor never moves back, whatever backfills    *)
(* run beside it and whatever fails.                                       *)
THEOREM OneRunnerCursorNeverRetreats ==
    ASSUME NEW l, LiveRunners = {l}
    PROVE  AnalysisSpec => CursorNeverRetreats
<1>1. AnalysisInit => AnalysisTypes /\ CursorIsCurrent
  BY TypesInit DEF AnalysisInit, CursorIsCurrent
<1>2. AnalysisTypes /\ CursorIsCurrent /\ [AnalysisNext]_vars
        => (AnalysisTypes /\ CursorIsCurrent)'
  BY TypesStep, CursorIsCurrentStep
<1>3. AnalysisTypes /\ CursorIsCurrent /\ [AnalysisNext]_vars => [cursor' >= cursor]_vars
  BY CursorIsCurrentStep
<1>. QED BY <1>1, <1>2, <1>3, PTL DEF AnalysisSpec, CursorNeverRetreats

-----------------------------------------------------------------------------
(* Rewinds.                                                                *)

(* Only live runners are in a pass, and what a pass has fetched lies       *)
(* beyond the cursor it started from.                                      *)
PassesGoForward ==
    \A p \in Runners :
        /\ pc[p] \in {"cursor", "fetch", "insert", "commit"} => p \in LiveRunners
        /\ pc[p] \in {"insert", "commit"} => \A s \in batch[p] : s > cur[p]

(* Every step keeps it.                                                    *)
LEMMA PassesGoForwardStep ==
    AnalysisTypes /\ PassesGoForward /\ [AnalysisNext]_vars => PassesGoForward'
<1>. SUFFICES ASSUME AnalysisTypes, PassesGoForward, [AnalysisNext]_vars
              PROVE  PassesGoForward'
  OBVIOUS
<1>. USE DEF AnalysisTypes, TypeOK, PassesGoForward
<1>1. CASE UNCHANGED <<pc, cur, batch>>
  BY <1>1
<1>2. ASSUME NEW p \in Runners, StartLive(p) \/ StartBackfill(p) PROVE PassesGoForward'
  BY <1>2 DEF StartLive, StartBackfill
<1>3. ASSUME NEW p \in Runners, GetCursor(p) \/ UpsertCursor(p) PROVE PassesGoForward'
  BY <1>3 DEF GetCursor, UpsertCursor, runVars
<1>4. ASSUME NEW p \in Runners, FetchBatch(p) PROVE PassesGoForward'
  <2>1. \A s \in Page(Unread(p), 0, Limit[p]) : s > cur[p]
    BY DEF Page, Unread
  <2>. QED BY <1>4, <2>1 DEF FetchBatch
<1>5. ASSUME NEW p \in Runners, FetchPage(p) PROVE PassesGoForward'
  BY <1>5 DEF FetchPage
<1>6. ASSUME NEW p \in Runners, Forget(p), pc' = [pc EXCEPT ![p] = "idle"]
      PROVE  PassesGoForward'
  BY <1>6 DEF Forget
<1>7. ASSUME NEW p \in Runners, CommitPage(p) PROVE PassesGoForward'
  <2>1. CASE LastPage(p)
    BY <1>6, <1>7, <2>1 DEF CommitPage
  <2>2. CASE ~LastPage(p)
    BY <1>7, <2>2 DEF CommitPage
  <2>. QED BY <2>1, <2>2
<1>8. ASSUME NEW p \in Runners, CommitBatch(p) PROVE PassesGoForward'
  <2>1. CASE HasMore(p)
    BY <1>8, <2>1 DEF CommitBatch
  <2>2. CASE ~HasMore(p)
    BY <1>6, <1>8, <2>2 DEF CommitBatch
  <2>. QED BY <2>1, <2>2
<1>9. ASSUME NEW p \in Runners,
             FetchNothing(p) \/ FetchNoPage(p) \/ Fail(p) \/ CommitReplyLost(p)
      PROVE  PassesGoForward'
  BY <1>6, <1>9 DEF FetchNothing, FetchNoPage, Fail, CommitReplyLost
<1>10. ASSUME NEW p \in Runners, InsertAlert(p) PROVE UNCHANGED <<pc, cur, batch>>
  BY <1>10 DEF InsertAlert
<1>11. UNCHANGED vars \/ Ingest => UNCHANGED <<pc, cur, batch>>
  BY DEF vars, Ingest, runVars
<1>. QED
  BY <1>1, <1>2, <1>3, <1>4, <1>5, <1>7, <1>8, <1>9, <1>10, <1>11
  DEF AnalysisNext, Step

(* Only the end of a pass writes the cursor, and never behind its start.   *)
LEMMA RewindsAreStale ==
    ASSUME AnalysisTypes, PassesGoForward, [AnalysisNext]_vars, cursor' < cursor
    PROVE  \E p \in LiveRunners : /\ pc[p] = "commit" /\ pc'[p] # "commit"
                                  /\ cur[p] < cursor' /\ cur[p] < cursor
<1>1. cursor' # cursor
  BY DEF AnalysisTypes, TypeOK
<1>2. PICK p \in Runners : CommitBatch(p) \/ (CommitReplyLost(p) /\ pc[p] = "commit")
  <2>1. UNCHANGED vars \/ Ingest => cursor' = cursor
    BY DEF vars, Ingest
  <2>2. ASSUME NEW p \in Runners,
               \/ StartLive(p) \/ GetCursor(p) \/ FetchNothing(p) \/ FetchBatch(p)
               \/ InsertAlert(p) \/ UpsertCursor(p) \/ Fail(p)
               \/ StartBackfill(p) \/ FetchPage(p) \/ FetchNoPage(p) \/ CommitPage(p)
               \/ (CommitReplyLost(p) /\ pc[p] # "commit")
        PROVE  cursor' = cursor
    BY <2>2 DEF StartLive, GetCursor, FetchNothing, FetchBatch, InsertAlert,
                UpsertCursor, Fail, StartBackfill, FetchPage, FetchNoPage,
                CommitPage, CommitReplyLost
  <2>. QED BY <1>1, <2>1, <2>2 DEF AnalysisNext, Step
<1>3. pc[p] = "commit" /\ Publish(p)
  BY <1>2 DEF CommitBatch, CommitReplyLost
<1>4. pc'[p] # "commit"
  BY <1>2 DEF CommitBatch, CommitReplyLost, AnalysisTypes, TypeOK
<1>5. PICK n \in batch[p] : cursor' = n
  BY <1>3 DEF Publish, Watermark
<1>6. p \in LiveRunners /\ cur[p] < cursor'
  BY <1>3, <1>5 DEF PassesGoForward
<1>7. cur[p] \in Nat /\ cursor \in Nat /\ cursor' \in Nat
  BY <1>5, MaxSeqAssumption DEF AnalysisTypes, TypeOK, Seqs
<1>. QED BY <1>3, <1>4, <1>6, <1>7

(* The cursor moves back only at the end of a pass that started from a     *)
(* cursor moved on meanwhile, never behind that start, whatever fails and  *)
(* whatever backfills run.                                                 *)
THEOREM StalePassesRewind == AnalysisSpec => OnlyStalePassesRewind
<1>1. AnalysisInit => AnalysisTypes /\ PassesGoForward
  BY TypesInit DEF AnalysisInit, PassesGoForward
<1>2. AnalysisTypes /\ PassesGoForward /\ [AnalysisNext]_vars
        => (AnalysisTypes /\ PassesGoForward)'
  BY TypesStep, PassesGoForwardStep
<1>3. AnalysisTypes /\ PassesGoForward /\ [AnalysisNext]_vars
        => [cursor' < cursor =>
              \E p \in LiveRunners : /\ pc[p] = "commit" /\ pc'[p] # "commit"
                                     /\ cur[p] < cursor' /\ cur[p] < cursor]_vars
  BY RewindsAreStale
<1>. QED BY <1>1, <1>2, <1>3, PTL DEF AnalysisSpec, OnlyStalePassesRewind

-----------------------------------------------------------------------------
(* Reports.                                                                *)

(* Uncommitted alerts are in no table and belong to one transaction; what  *)
(* has been reported is in the table, once.                                *)
Counted ==
    /\ \A p \in Runners : fresh[p] \cap alerts = {}
    /\ \A p, q \in Runners : p # q => fresh[p] \cap fresh[q] = {}
    /\ reported <= Cardinality(alerts)
    /\ faults = 0 => reported = Cardinality(alerts)

(* Adding the alerts of a commit to the table counts each of them.         *)
LEMMA PublishCounts ==
    ASSUME AnalysisTypes, NEW p \in Runners, fresh[p] \cap alerts = {}
    PROVE  /\ Cardinality(alerts \cup fresh[p]) = Cardinality(alerts) + Cardinality(fresh[p])
           /\ Cardinality(alerts) \in Nat /\ Cardinality(fresh[p]) \in Nat
<1>1. alerts \in SUBSET Keys /\ fresh[p] \in SUBSET Keys
  BY DEF AnalysisTypes, TypeOK
<1>2. alerts \cap fresh[p] = {}
  OBVIOUS
<1>. QED BY <1>1, <1>2, FiniteKeys, FS_Union, FS_EmptySet

(* Every step keeps the count.                                             *)
LEMMA CountedStep == AnalysisTypes /\ Counted /\ [AnalysisNext]_vars => Counted'
<1>. SUFFICES ASSUME AnalysisTypes, Counted, [AnalysisNext]_vars PROVE Counted'
  OBVIOUS
<1>1. CASE UNCHANGED <<alerts, fresh, faults, reported>>
  BY <1>1 DEF Counted
<1>2. ASSUME NEW p \in Runners, Forget(p), UNCHANGED <<alerts, reported>>,
             faults' = faults \/ faults' = faults + 1
      PROVE  Counted'
  BY <1>2 DEF Counted, Forget, AnalysisTypes, TypeOK
<1>3. ASSUME NEW p \in Runners, InsertAlert(p) PROVE Counted'
  <2>1. PICK k \in todo[p] : /\ KeyFree(p, k)
                             /\ fresh' = [fresh EXCEPT ![p] = @ \cup ({k} \ alerts)]
    BY <1>3 DEF InsertAlert
  <2>2. UNCHANGED <<alerts, faults, reported>>
    BY <1>3 DEF InsertAlert, historyVars
  <2>3. fresh'[p] = fresh[p] \cup ({k} \ alerts)
        /\ \A q \in Runners \ {p} : fresh'[q] = fresh[q] /\ k \notin fresh[q]
    BY <2>1 DEF KeyFree, AnalysisTypes, TypeOK
  <2>. QED BY <2>2, <2>3 DEF Counted
<1>4. ASSUME NEW p \in Runners, alerts' = alerts \cup fresh[p],
             fresh' = [fresh EXCEPT ![p] = {}],
             \/ reported' = reported + Written(p) /\ faults' = faults
             \/ reported' = reported /\ faults' = faults + 1
      PROVE  Counted'
  <2>1. /\ fresh'[p] = {} /\ \A q \in Runners \ {p} : fresh'[q] = fresh[q]
    BY <1>4 DEF AnalysisTypes, TypeOK
  <2>2. \A q \in Runners : fresh'[q] \cap alerts' = {}
    BY <1>4, <2>1 DEF Counted
  <2>3. \A q, r \in Runners : q # r => fresh'[q] \cap fresh'[r] = {}
    BY <2>1 DEF Counted
  <2>4. /\ Cardinality(alerts') = Cardinality(alerts) + Written(p)
        /\ Cardinality(alerts) \in Nat /\ Written(p) \in Nat
    BY <1>4, PublishCounts DEF Counted, Written
  <2>5. faults \in Nat /\ reported \in Nat
    BY DEF AnalysisTypes, TypeOK
  <2>6. /\ reported' <= Cardinality(alerts')
        /\ faults' = 0 => reported' = Cardinality(alerts')
    BY <1>4, <2>4, <2>5 DEF Counted
  <2>. QED BY <2>2, <2>3, <2>6 DEF Counted
<1>5. ASSUME NEW p \in Runners, CommitBatch(p) \/ CommitPage(p) PROVE Counted'
  BY <1>4, <1>5 DEF CommitBatch, CommitPage, Publish, Forget
<1>6. ASSUME NEW p \in Runners, CommitReplyLost(p) PROVE Counted'
  BY <1>4, <1>6 DEF CommitReplyLost, Publish, Forget
<1>7. ASSUME NEW p \in Runners, FetchNothing(p) \/ FetchNoPage(p) \/ Fail(p)
      PROVE  Counted'
  BY <1>2, <1>7 DEF FetchNothing, FetchNoPage, Fail
<1>8. ASSUME NEW p \in Runners,
             \/ StartLive(p) \/ StartBackfill(p) \/ GetCursor(p)
             \/ FetchBatch(p) \/ UpsertCursor(p) \/ FetchPage(p)
      PROVE  Counted'
  BY <1>1, <1>8 DEF StartLive, StartBackfill, GetCursor, FetchBatch, UpsertCursor,
     FetchPage, runVars, historyVars
<1>9. CASE UNCHANGED vars \/ Ingest
  BY <1>1, <1>9 DEF vars, Ingest, runVars, historyVars
<1>. QED BY <1>3, <1>5, <1>6, <1>7, <1>8, <1>9 DEF AnalysisNext, Step

(* Passes, replays and backfills that run at the same time report each     *)
(* alert row as written once; only a failure can lose a report.            *)
THEOREM AlertsAreReportedOnce == AnalysisSpec => []EachAlertReportedOnce
<1>1. AnalysisInit => AnalysisTypes /\ Counted
  BY TypesInit, FS_EmptySet DEF AnalysisInit, Counted
<1>2. AnalysisTypes /\ Counted /\ [AnalysisNext]_vars => (AnalysisTypes /\ Counted)'
  BY TypesStep, CountedStep
<1>3. Counted => EachAlertReportedOnce
  BY DEF Counted, EachAlertReportedOnce
<1>. QED BY <1>1, <1>2, <1>3, PTL DEF AnalysisSpec

-----------------------------------------------------------------------------
(* Locks.                                                                  *)

(* A transaction takes the keys of its drafts in ascending order: those it *)
(* has are before those it still wants, and it wants none once it has the  *)
(* cursor.                                                                 *)
LocksInOrder ==
    \A p \in Runners :
        /\ pc[p] \notin {"insert", "insertPage"} => todo[p] = {}
        /\ pc[p] \notin {"insert", "insertPage", "commit"} => fresh[p] = {}
        /\ \A j \in fresh[p] : \A k \in todo[p] : Before(j, k)

(* Every step keeps it.                                                    *)
LEMMA LocksInOrderStep == AnalysisTypes /\ LocksInOrder /\ [AnalysisNext]_vars => LocksInOrder'
<1>. SUFFICES ASSUME AnalysisTypes, LocksInOrder, [AnalysisNext]_vars PROVE LocksInOrder'
  OBVIOUS
<1>. USE DEF AnalysisTypes, TypeOK
<1>1. CASE UNCHANGED <<pc, todo, fresh>>
  BY <1>1 DEF LocksInOrder
<1>2. ASSUME NEW p \in Runners, StartLive(p) \/ StartBackfill(p) \/ GetCursor(p)
      PROVE  LocksInOrder'
  BY <1>2 DEF LocksInOrder, StartLive, StartBackfill, GetCursor
<1>3. ASSUME NEW p \in Runners, FetchBatch(p) \/ FetchPage(p) PROVE LocksInOrder'
  BY <1>3 DEF LocksInOrder, FetchBatch, FetchPage
<1>4. ASSUME NEW p \in Runners, InsertAlert(p) PROVE LocksInOrder'
  <2>1. PICK k \in todo[p] : /\ NextDraft(p, k)
                             /\ todo' = [todo EXCEPT ![p] = @ \ {k}]
                             /\ fresh' = [fresh EXCEPT ![p] = @ \cup ({k} \ alerts)]
    BY <1>4 DEF InsertAlert
  <2>2. /\ todo'[p] = todo[p] \ {k} /\ fresh'[p] \subseteq fresh[p] \cup {k} /\ pc' = pc
        /\ pc[p] \in {"insert", "insertPage"}
        /\ \A q \in Runners \ {p} : todo'[q] = todo[q] /\ fresh'[q] = fresh[q]
    BY <1>4, <2>1 DEF InsertAlert
  <2>3. \A j \in todo'[p] : Before(k, j)
    BY <2>1, <2>2 DEF NextDraft
  <2>4. \A j \in fresh'[p] : \A i \in todo'[p] : Before(j, i)
    BY <2>2, <2>3 DEF LocksInOrder
  <2>. QED BY <2>2, <2>4 DEF LocksInOrder
<1>5. ASSUME NEW p \in Runners, UpsertCursor(p) PROVE LocksInOrder'
  BY <1>5 DEF LocksInOrder, UpsertCursor, runVars
<1>6. ASSUME NEW p \in Runners, Forget(p), pc' = [pc EXCEPT ![p] = "idle"]
      PROVE  LocksInOrder'
  BY <1>6 DEF LocksInOrder, Forget
<1>7. ASSUME NEW p \in Runners, CommitBatch(p) PROVE LocksInOrder'
  <2>1. CASE HasMore(p)
    BY <1>7, <2>1 DEF LocksInOrder, CommitBatch
  <2>2. CASE ~HasMore(p)
    BY <1>6, <1>7, <2>2 DEF CommitBatch
  <2>. QED BY <2>1, <2>2
<1>8. ASSUME NEW p \in Runners, CommitPage(p) PROVE LocksInOrder'
  <2>1. CASE LastPage(p)
    BY <1>6, <1>8, <2>1 DEF CommitPage
  <2>2. CASE ~LastPage(p)
    BY <1>8, <2>2 DEF LocksInOrder, CommitPage
  <2>. QED BY <2>1, <2>2
<1>9. ASSUME NEW p \in Runners,
             FetchNothing(p) \/ FetchNoPage(p) \/ Fail(p) \/ CommitReplyLost(p)
      PROVE  LocksInOrder'
  BY <1>6, <1>9 DEF FetchNothing, FetchNoPage, Fail, CommitReplyLost
<1>10. UNCHANGED vars \/ Ingest => UNCHANGED <<pc, todo, fresh>>
  BY DEF vars, Ingest, runVars
<1>. QED
  BY <1>1, <1>2, <1>3, <1>4, <1>5, <1>7, <1>8, <1>9, <1>10 DEF AnalysisNext, Step

(* Of some findings one is last.                                           *)
LEMMA LastKey ==
    ASSUME NEW W \in SUBSET Keys, W # {}
    PROVE  \E k \in W : \A j \in W : ~Before(k, j)
<1>. USE AnalysisAssumption, MaxSeqAssumption
<1>0. \A k \in W : /\ k = <<k[1], k[2]>> /\ k[1] \in Nat /\ k[2] \in Nat
                   /\ k[1] <= MaxSeq /\ k[2] <= RuleCount
  BY DEF Keys, Seqs, Rules
<1>. DEFINE S == {k[1] : k \in W}
<1>1. S \in SUBSET Nat /\ S # {} /\ \A s \in S : s <= MaxSeq
  BY <1>0
<1>2. PICK s \in S : \A t \in S : t <= s
  <2>. HIDE DEF S
  <2>. QED BY <1>1, GreatestNumber
<1>. DEFINE R == {k[2] : k \in {j \in W : j[1] = s}}
<1>3. R \in SUBSET Nat /\ R # {} /\ \A r \in R : r <= RuleCount
  BY <1>0
<1>4. PICK r \in R : \A q \in R : q <= r
  <2>. HIDE DEF R
  <2>. QED BY <1>3, GreatestNumber
<1>5. PICK k \in W : k[1] = s /\ k[2] = r
  BY <1>4
<1>6. ASSUME NEW j \in W, Before(k, j) PROVE FALSE
  <2>1. j[1] <= k[1] /\ (j[1] = k[1] => j[2] <= k[2])
    BY <1>2, <1>4, <1>5
  <2>. QED BY <1>0, <1>6, <2>1 DEF Before
<1>. QED BY <1>6

(* Along a chain of waiting transactions the keys they wait for ascend, so *)
(* the one that waits for the last key waits for one that does not wait.   *)
LEMMA OrderedLocksMakeNoCycle == AnalysisTypes /\ LocksInOrder => NoWaitCycle
<1>. SUFFICES ASSUME AnalysisTypes, LocksInOrder, NEW Q \in SUBSET Runners, Q # {},
                     \A p \in Q : \E q \in Q \ {p} : Waits(p, q)
              PROVE  FALSE
  BY DEF NoWaitCycle
<1>1. ASSUME NEW q \in Q PROVE \E k \in todo[q] : NextDraft(q, k)
  <2>. SUFFICES ASSUME ~ \E k \in todo[q] : NextDraft(q, k) PROVE FALSE
    OBVIOUS
  <2>1. PICK h \in Q : Waits(q, h)
    OBVIOUS
  <2>2. HoldsCursor(h)
    BY <2>1 DEF Waits
  <2>3. todo[h] = {} /\ pc[h] # "insert"
    BY <2>2 DEF HoldsCursor, LocksInOrder
  <2>. QED BY <2>3 DEF Waits
<1>. DEFINE W == {k \in Keys : \E p \in Q : NextDraft(p, k)}
<1>2. W # {}
  BY <1>1 DEF AnalysisTypes, TypeOK
<1>3. PICK k \in W : \A j \in W : ~Before(k, j)
  <2>. HIDE DEF W
  <2>. QED BY <1>2, LastKey, W \in SUBSET Keys DEF W
<1>4. PICK p \in Q : NextDraft(p, k)
  OBVIOUS
<1>5. PICK q \in Q \ {p} : Waits(p, q)
  OBVIOUS
<1>6. k \in fresh[q]
  <2>1. todo[p] # {}
    BY <1>4 DEF NextDraft
  <2>2. PICK i \in todo[p] : NextDraft(p, i) /\ i \in fresh[q]
    BY <1>5, <2>1 DEF Waits
  <2>3. i = k \/ (Before(i, k) /\ Before(k, i))
    BY <1>4, <2>2 DEF NextDraft
  <2>4. i \in W
    BY <2>2 DEF AnalysisTypes, TypeOK
  <2>. QED BY <1>3, <2>2, <2>3, <2>4
<1>7. PICK j \in todo[q] : NextDraft(q, j)
  BY <1>1
<1>8. Before(k, j) /\ j \in W
  BY <1>6, <1>7 DEF LocksInOrder, AnalysisTypes, TypeOK
<1>. QED BY <1>3, <1>8

(* Transactions of passes and backfills never deadlock: whatever set of    *)
(* runners one takes, one of them waits for none of the others.            *)
THEOREM NoDeadlockBetweenRunners == AnalysisSpec => []NoWaitCycle
<1>1. AnalysisInit => AnalysisTypes /\ LocksInOrder
  BY TypesInit DEF AnalysisInit, LocksInOrder
<1>2. AnalysisTypes /\ LocksInOrder /\ [AnalysisNext]_vars => (AnalysisTypes /\ LocksInOrder)'
  BY TypesStep, LocksInOrderStep
<1>. QED BY <1>1, <1>2, OrderedLocksMakeNoCycle, PTL DEF AnalysisSpec

-----------------------------------------------------------------------------
(* The log of alerts.                                                      *)

(* What the transaction of p will have stored when it commits: all that    *)
(* its build finds in its batch, and nothing else.  What is missing from   *)
(* fresh and todo was in the table, where it stays.                        *)
Undivided(p) ==
    /\ pc[p] \in {"insert", "commit", "insertPage"} =>
         /\ batch[p] \subseteq visible
         /\ todo[p] \cup fresh[p] \subseteq KeysOf(p, batch[p])
         /\ KeysOf(p, batch[p]) \subseteq todo[p] \cup fresh[p] \cup alerts
    /\ pc[p] = "commit" => todo[p] = {}
    /\ pc[p] \notin {"insert", "commit", "insertPage"} => fresh[p] = {}

ReportsUndivided == \A p \in Runners : Undivided(p)

(* Neither ingestion nor the commit of another runner divides a report.    *)
LEMMA UndividedStays ==
    ASSUME NEW p \in Runners, Undivided(p),
           pc'[p] = pc[p], batch'[p] = batch[p], todo'[p] = todo[p], fresh'[p] = fresh[p],
           visible \subseteq visible', alerts \subseteq alerts'
    PROVE  Undivided(p)'
<1>1. KeysOf(p, batch[p])' = KeysOf(p, batch[p])
  BY DEF KeysOf, Drafts
<1>. QED BY <1>1 DEF Undivided

(* Nor does the end of the transaction.                                    *)
LEMMA UndividedEnds ==
    ASSUME NEW p \in Runners, fresh'[p] = {}, pc'[p] \in {"idle", "cursor", "page"}
    PROVE  Undivided(p)'
BY DEF Undivided

(* Every statement keeps reports undivided.                                *)
LEMMA ReportsUndividedStep ==
    AnalysisTypes /\ ReportsUndivided /\ [AnalysisNext]_vars => ReportsUndivided'
<1>. SUFFICES ASSUME AnalysisTypes, ReportsUndivided, [AnalysisNext]_vars, NEW q \in Runners
              PROVE  Undivided(q)'
  BY DEF ReportsUndivided
<1>. USE DEF AnalysisTypes, TypeOK
<1>0. Undivided(q)
  BY DEF ReportsUndivided
<1>1. CASE UNCHANGED vars \/ Ingest
  <2>1. visible \subseteq visible' /\ UNCHANGED <<alerts, pc, batch, todo, fresh>>
    BY <1>1 DEF vars, feedVars, Ingest, runVars, FeedNext, FeedStep, Lock, Draw, Skip,
       CommitRows, AbortRows
  <2>. QED BY <1>0, <2>1, UndividedStays
<1>2. ASSUME NEW p \in Runners, StartLive(p) \/ StartBackfill(p) \/ GetCursor(p)
      PROVE  Undivided(q)'
  <2>1. /\ UNCHANGED <<visible, alerts, batch, todo, fresh>>
        /\ pc[p] \in {"idle", "cursor"} /\ pc'[p] \in {"cursor", "page", "fetch"}
        /\ \A r \in Runners \ {p} : pc'[r] = pc[r]
    BY <1>2 DEF StartLive, StartBackfill, GetCursor, feedVars
  <2>2. CASE q = p
    BY <1>0, <2>1, <2>2 DEF Undivided
  <2>3. CASE q # p
    BY <1>0, <2>1, <2>3, UndividedStays
  <2>. QED BY <2>2, <2>3
<1>3. ASSUME NEW p \in Runners, FetchBatch(p) \/ FetchPage(p) PROVE Undivided(q)'
  <2>1. PICK b \in SUBSET visible :
           /\ batch' = [batch EXCEPT ![p] = b]
           /\ todo' = [todo EXCEPT ![p] = KeysOf(p, b)]
           /\ pc' = [pc EXCEPT ![p] = IF FetchBatch(p) THEN "insert" ELSE "insertPage"]
           /\ UNCHANGED <<visible, alerts, fresh>>
           /\ pc[p] \in {"fetch", "page"}
    <3>1. CASE FetchBatch(p)
      <4>1. Page(Unread(p), 0, Limit[p]) \in SUBSET visible
        BY DEF Page, Unread
      <4>. QED BY <3>1, <4>1 DEF FetchBatch, feedVars
    <3>2. CASE FetchPage(p) /\ ~FetchBatch(p)
      <4>1. BackfillPage(p) \in SUBSET visible
        BY DEF BackfillPage, Page, Matching
      <4>. QED BY <3>2, <4>1 DEF FetchPage, feedVars
    <3>. QED BY <1>3, <3>1, <3>2
  <2>2. CASE q = p
    <3>1. KeysOf(p, b)' = KeysOf(p, b)
      BY DEF KeysOf, Drafts
    <3>2. /\ batch'[p] = b /\ todo'[p] = KeysOf(p, b) /\ fresh'[p] = {}
          /\ pc'[p] \in {"insert", "insertPage"}
      BY <1>0, <2>1, <2>2 DEF Undivided
    <3>. QED BY <2>1, <2>2, <3>1, <3>2 DEF Undivided, KeysOf, Drafts
  <2>3. CASE q # p
    BY <1>0, <2>1, <2>3, UndividedStays
  <2>. QED BY <2>2, <2>3
<1>4. ASSUME NEW p \in Runners, InsertAlert(p) PROVE Undivided(q)'
  <2>1. PICK k \in todo[p] : /\ todo' = [todo EXCEPT ![p] = @ \ {k}]
                             /\ fresh' = [fresh EXCEPT ![p] = @ \cup ({k} \ alerts)]
                             /\ pc[p] \in {"insert", "insertPage"}
                             /\ UNCHANGED <<visible, alerts, pc, batch>>
    BY <1>4 DEF InsertAlert, feedVars
  <2>2. CASE q = p
    <3>1. KeysOf(p, batch[p])' = KeysOf(p, batch[p])
      BY <2>1 DEF KeysOf, Drafts
    <3>2. /\ todo'[p] = todo[p] \ {k} /\ fresh'[p] = fresh[p] \cup ({k} \ alerts)
      BY <2>1
    <3>. QED BY <1>0, <2>1, <2>2, <3>1, <3>2 DEF Undivided
  <2>3. CASE q # p
    BY <1>0, <2>1, <2>3, UndividedStays
  <2>. QED BY <2>2, <2>3
<1>5. ASSUME NEW p \in Runners, UpsertCursor(p) PROVE Undivided(q)'
  <2>1. /\ UNCHANGED <<visible, alerts, batch, todo, fresh>> /\ todo[p] = {}
        /\ pc[p] = "insert" /\ pc' = [pc EXCEPT ![p] = "commit"]
    BY <1>5 DEF UpsertCursor, feedVars, runVars
  <2>2. CASE q = p
    <3>1. KeysOf(p, batch[p])' = KeysOf(p, batch[p])
      BY <2>1 DEF KeysOf, Drafts
    <3>. QED BY <1>0, <2>1, <2>2, <3>1 DEF Undivided
  <2>3. CASE q # p
    BY <1>0, <2>1, <2>3, UndividedStays
  <2>. QED BY <2>2, <2>3
<1>6. ASSUME NEW p \in Runners,
             \/ CommitBatch(p) \/ CommitPage(p) \/ FetchNothing(p) \/ FetchNoPage(p)
             \/ Fail(p) \/ CommitReplyLost(p)
      PROVE  Undivided(q)'
  <2>1. /\ visible' = visible /\ alerts \subseteq alerts'
        /\ fresh' = [fresh EXCEPT ![p] = {}]
        /\ pc' \in {[pc EXCEPT ![p] = s] : s \in {"idle", "cursor", "page"}}
        /\ \A r \in Runners \ {p} : batch'[r] = batch[r] /\ todo'[r] = todo[r]
    <3>1. CASE Forget(p) /\ pc' = [pc EXCEPT ![p] = "idle"]
      <4>1. visible' = visible /\ alerts \subseteq alerts'
        BY <1>6 DEF CommitBatch, CommitPage, FetchNothing, FetchNoPage, Fail,
           CommitReplyLost, Publish, feedVars
      <4>. QED BY <3>1, <4>1 DEF Forget
    <3>2. CASE CommitBatch(p) /\ ~(Forget(p) /\ pc' = [pc EXCEPT ![p] = "idle"])
      BY <3>2 DEF CommitBatch, Publish, feedVars
    <3>3. CASE CommitPage(p) /\ ~(Forget(p) /\ pc' = [pc EXCEPT ![p] = "idle"])
      BY <3>3 DEF CommitPage, feedVars
    <3>4. FetchNothing(p) \/ FetchNoPage(p) \/ Fail(p) \/ CommitReplyLost(p)
             => Forget(p) /\ pc' = [pc EXCEPT ![p] = "idle"]
      BY DEF FetchNothing, FetchNoPage, Fail, CommitReplyLost
    <3>. QED BY <1>6, <3>1, <3>2, <3>3, <3>4
  <2>2. CASE q = p
    BY <2>1, <2>2, UndividedEnds
  <2>3. CASE q # p
    BY <1>0, <2>1, <2>3, UndividedStays
  <2>. QED BY <2>2, <2>3
<1>. QED
  BY <1>1, <1>2, <1>3, <1>4, <1>5, <1>6 DEF AnalysisNext, Step

(* The log finds in a batch what the build of the runner finds.            *)
LEMMA FindingsAreKeys ==
    ASSUME NEW p \in Runners, NEW E \in SUBSET Seqs
    PROVE  Log!Findings(p, E) = KeysOf(p, E)
<1>1. \A s \in Seqs : Drafts(p, s) \subseteq Rules
  BY RulesAssumption DEF Drafts
<1>2. Log!Findings(p, E) = UNION {{s} \X Drafts(p, s) : s \in E}
  BY DEF Log!Findings
<1>3. ASSUME NEW k \in KeysOf(p, E) PROVE k \in UNION {{s} \X Drafts(p, s) : s \in E}
  <2>1. k \in E \X Rules /\ k[2] \in Drafts(p, k[1])
    BY DEF KeysOf
  <2>2. k[1] \in E /\ k \in {k[1]} \X Drafts(p, k[1])
    BY <2>1
  <2>. QED BY <2>2
<1>4. ASSUME NEW s \in E, NEW k \in {s} \X Drafts(p, s) PROVE k \in KeysOf(p, E)
  BY <1>1 DEF KeysOf
<1>. QED BY <1>2, <1>3, <1>4

(* The writes of a transaction that has inserted all are a report.         *)
LEMMA CommitReports ==
    ASSUME AnalysisTypes, ReportsUndivided, NEW p \in Runners,
           pc[p] \in {"commit", "insertPage"}, todo[p] = {},
           alerts' = alerts \cup fresh[p], visible' = visible,
           cursor' = cursor \/ (pc[p] = "commit" /\ Publish(p))
    PROVE  Log!LogNext
<1>1. /\ batch[p] \in SUBSET visible /\ batch[p] \in SUBSET Seqs
      /\ fresh[p] \subseteq KeysOf(p, batch[p])
      /\ KeysOf(p, batch[p]) \subseteq fresh[p] \cup alerts
  BY DEF ReportsUndivided, Undivided, AnalysisTypes, TypeOK
<1>2. alerts' = alerts \cup Log!Findings(p, batch[p])
  BY <1>1, FindingsAreKeys
<1>3. cursor' \in {cursor} \cup Log!LastOf(batch[p])
  BY DEF Publish, Watermark, Log!LastOf
<1>. QED BY <1>1, <1>2, <1>3 DEF Log!LogNext, Log!Report

(* Each statement is a report, the arrival of events, or nothing to the    *)
(* readers of the tables.                                                  *)
LEMMA StepsOfTheLog ==
    AnalysisTypes /\ ReportsUndivided /\ [AnalysisNext]_vars => [Log!LogNext]_(Log!logVars)
<1>. SUFFICES ASSUME AnalysisTypes, ReportsUndivided, [AnalysisNext]_vars
              PROVE  Log!LogNext \/ UNCHANGED <<visible, alerts, cursor>>
  BY DEF Log!logVars
<1>1. CASE Ingest
  <2>1. UNCHANGED <<alerts, cursor>>
    BY <1>1 DEF Ingest
  <2>2. CASE visible' = visible
    BY <2>1, <2>2
  <2>3. CASE visible' # visible
    <3>1. PICK w \in Writers : visible' = visible \cup open[w]
      BY <1>1, <2>3 DEF Ingest, FeedNext, FeedStep, Lock, Draw, Skip, CommitRows, AbortRows
    <3>2. open[w] \in SUBSET Seqs
      BY DEF AnalysisTypes, TypeOK, FeedTypeOK
    <3>. QED BY <2>1, <3>1, <3>2 DEF Log!LogNext, Log!Arrive
  <2>. QED BY <2>2, <2>3
<1>2. ASSUME NEW p \in Runners,
             \/ StartLive(p) \/ StartBackfill(p) \/ GetCursor(p) \/ FetchNothing(p)
             \/ FetchBatch(p) \/ InsertAlert(p) \/ UpsertCursor(p)
             \/ FetchPage(p) \/ FetchNoPage(p) \/ Fail(p)
      PROVE  UNCHANGED <<visible, alerts, cursor>>
  BY <1>2 DEF StartLive, StartBackfill, GetCursor, FetchNothing, FetchBatch, InsertAlert,
     UpsertCursor, FetchPage, FetchNoPage, Fail, feedVars
<1>3. ASSUME NEW p \in Runners, CommitBatch(p) PROVE Log!LogNext
  <2>1. pc[p] = "commit" /\ Publish(p) /\ alerts' = alerts \cup fresh[p] /\ visible' = visible
    BY <1>3 DEF CommitBatch, Publish, feedVars
  <2>2. todo[p] = {}
    BY <2>1 DEF ReportsUndivided, Undivided
  <2>. QED BY <2>1, <2>2, CommitReports
<1>4. ASSUME NEW p \in Runners, CommitPage(p) PROVE Log!LogNext
  <2>1. /\ pc[p] = "insertPage" /\ todo[p] = {} /\ alerts' = alerts \cup fresh[p]
        /\ visible' = visible /\ cursor' = cursor
    BY <1>4 DEF CommitPage, feedVars
  <2>. QED BY <2>1, CommitReports
<1>5. ASSUME NEW p \in Runners, CommitReplyLost(p) PROVE Log!LogNext
  <2>1. visible' = visible
    BY <1>5 DEF CommitReplyLost, feedVars
  <2>2. CASE pc[p] = "commit" /\ Publish(p)
    <3>1. todo[p] = {} /\ alerts' = alerts \cup fresh[p]
      BY <2>2 DEF ReportsUndivided, Undivided, Publish
    <3>. QED BY <2>1, <2>2, <3>1, CommitReports
  <2>3. CASE pc[p] = "insertPage" /\ todo[p] = {} /\ alerts' = alerts \cup fresh[p] /\ cursor' = cursor
    BY <2>1, <2>3, CommitReports
  <2>. QED BY <1>5, <2>2, <2>3 DEF CommitReplyLost
<1>6. CASE UNCHANGED vars
  BY <1>6 DEF vars, feedVars
<1>. QED
  BY <1>1, <1>2, <1>3, <1>4, <1>5, <1>6 DEF AnalysisNext, Step

(* "Write alerts and advance the cursor in one transaction": any number of *)
(* runners, of different builds, whose transactions interleave, fail and   *)
(* lose their replies, are to the readers of the tables a log to which     *)
(* whole reports are added.                                                *)
THEOREM AnalysisImplementsAlertLog == AnalysisSpec => ImplementsAlertLog
<1>. DEFINE Inv == AnalysisTypes /\ ReportsUndivided
<1>1. AnalysisInit => Log!LogInit
  BY DEF AnalysisInit, FeedInit, Log!LogInit
<1>2. AnalysisInit => Inv
  BY TypesInit DEF AnalysisInit, ReportsUndivided, Undivided
<1>3. Inv /\ [AnalysisNext]_vars => Inv'
  BY TypesStep, ReportsUndividedStep
<1>4. Inv /\ [AnalysisNext]_vars => [Log!LogNext]_(Log!logVars)
  BY StepsOfTheLog
<1>. QED BY <1>1, <1>2, <1>3, <1>4, PTL DEF AnalysisSpec, ImplementsAlertLog, Log!LogSpec
=============================================================================
