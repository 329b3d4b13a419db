------------------------- MODULE TransactionsProofs -------------------------
(***************************************************************************)
(* The theorems about the distributed transactions: every action keeps the *)
(* invariant of TransactionsSteps and is a Step, and from there on the     *)
(* theorems speak of steps and not of actions.                             *)
(***************************************************************************)
EXTENDS TransactionsSteps

\* A leaf that names no prover is tried with these, in this order.
USE SMTT(30), Z3T(30), ZenonT(40)

-----------------------------------------------------------------------------
(* Every action keeps the invariant.                                        *)

\* The steps of a coordinator that write no shard and take no timestamp.
LEMMA MoveInv ==
    ASSUME PlanAssumption, TxInv, NEW t \in Txn,
           \/ NoLeader(t) \/ Prewritten(t) \/ LockCommit(t) \/ Undone(t) \/ CommitAgain(t)
           \/ (StartCommit(t) /\ WritesOf[t] # << >>) \/ \E k \in Key : Validate(t, k)
    PROVE  TxInv' /\ Step
  <1>1. txn \in [Txn -> TxnRecord] /\ Going(t, txn[t]) /\ Written(t) \subseteq Key
    BY WrittenAreKeys, Zenon DEF TxInv, Shape, Goings
  <1>2. ReadsOf[t] \in SUBSET Key
    BY Zenon DEF PlanAssumption
  <1>3. /\ txn' \in [Txn -> TxnRecord] /\ \A u \in Txn : u # t => txn'[u] = txn[u]
        /\ Quiet(t)
    <2>1. CASE NoLeader(t)
      <3>1. PICK r : r = [txn[t] EXCEPT !.pc = "done", !.status = "aborted"]
        OBVIOUS
      <3>2. txn' = [txn EXCEPT ![t] = r]
        BY <1>1, <2>1, <3>1, Zenon DEF NoLeader
      <3>3. r \in TxnRecord /\ Going(t, r) /\ Verdicts(t, r)
        BY <1>1, <2>1, <3>1 DEF NoLeader, TxnRecord, Going, Verdicts
      <3> QED
        BY <1>1, <3>2, <3>3, QuietTurn, Zenon
    <2>2. CASE Prewritten(t)
      <3>1. PICK r : /\ \/ r = [txn[t] EXCEPT !.pc = "prewritten", !.status = "prewritten"]
                        \/ r = [txn[t] EXCEPT !.pc = "undo", !.todo = Written(t)]
                     /\ txn' = [txn EXCEPT ![t] = r]
        <4>1. CASE txn' = [txn EXCEPT ![t].pc = "prewritten", ![t].status = "prewritten"]
          BY <1>1, <4>1, Zenon
        <4>2. CASE txn' = [txn EXCEPT ![t].pc = "undo", ![t].todo = Written(t)]
          BY <1>1, <4>2, Zenon
        <4> QED
          BY <2>2, <4>1, <4>2, Zenon DEF Prewritten
      <3>2. r \in TxnRecord /\ Going(t, r) /\ Verdicts(t, r)
        <4>1. PICK q \in TxnRecord : q = txn[t]
          BY <1>1, Zenon
        <4>2. /\ r \in TxnRecord /\ r.start = q.start /\ r.commit = q.commit /\ r.saw = q.saw
              /\ \/ r.pc = "prewritten" /\ r.status = "prewritten"
                 \/ r.pc = "undo" /\ r.status = q.status /\ r.todo = Written(t)
          <5>1. CASE r = [q EXCEPT !.pc = "prewritten", !.status = "prewritten"]
            BY <5>1, Zenon DEF TxnRecord
          <5>2. CASE r = [q EXCEPT !.pc = "undo", !.todo = Written(t)]
            BY <1>1, <5>2, Zenon DEF TxnRecord
          <5> QED
            BY <3>1, <4>1, <5>1, <5>2, Zenon
        <4>3. q.pc = "prewriting" /\ q.status = "pending"
          BY <1>1, <2>2, <4>1 DEF Prewritten, Going
        <4> QED
          BY <1>1, <4>1, <4>2, <4>3 DEF Going, Verdicts
      <3> QED
        BY <1>1, <3>1, <3>2, QuietTurn, Zenon
    <2>3. CASE LockCommit(t)
      <3>1. PICK r : r = [txn[t] EXCEPT !.pc = "validating", !.todo = ReadsOf[t]]
        OBVIOUS
      <3>2. txn' = [txn EXCEPT ![t] = r]
        BY <1>1, <2>3, <3>1, Zenon DEF LockCommit
      <3>3. r \in TxnRecord /\ Going(t, r) /\ Verdicts(t, r)
        BY <1>1, <1>2, <2>3, <3>1, ZenonT(40) DEF LockCommit, TxnRecord, Going, Verdicts
      <3> QED
        BY <1>1, <3>2, <3>3, QuietTurn, Zenon
    <2>4. CASE Undone(t)
      <3>1. PICK r : r = [txn[t] EXCEPT !.pc = "done", !.status = "aborted"]
        OBVIOUS
      <3>2. txn' = [txn EXCEPT ![t] = r]
        BY <1>1, <2>4, <3>1, Zenon DEF Undone
      <3>3. r \in TxnRecord /\ Going(t, r) /\ Verdicts(t, r)
        BY <1>1, <2>4, <3>1, ZenonT(40) DEF Undone, TxnRecord, Going, Verdicts
      <3> QED
        BY <1>1, <3>2, <3>3, QuietTurn, Zenon
    <2>5. CASE CommitAgain(t)
      <3>1. PICK pre, r : /\ pre = [k \in Key |-> "todo"]
                          /\ r = [txn[t] EXCEPT !.pc = "prewriting", !.tries = @ + 1,
                                                !.pre = pre]
        BY Zenon
      <3>2. txn' = [txn EXCEPT ![t] = r]
        BY <1>1, <2>5, <3>1, Zenon DEF CommitAgain
      <3>3. pre \in [Key -> {"todo", "ok", "no"}]
        BY <3>1
      <3>4. /\ r \in TxnRecord /\ r.pc = "prewriting" /\ r.status = txn[t].status
            /\ r.start = txn[t].start /\ r.commit = txn[t].commit /\ r.saw = txn[t].saw
            /\ r.todo = txn[t].todo
        <4>1. PICK q : q = txn[t] /\ q \in TxnRecord
          BY <1>1
        <4>2. q.tries + 1 \in Nat
          <5>1. q.tries \in Nat
            BY <4>1, Zenon DEF TxnRecord
          <5> QED
            BY <5>1
        <4>3. PICK n : n = q.tries + 1 /\ n \in Nat
          BY <4>2
        <4>4. r = [q EXCEPT !.pc = "prewriting", !.tries = n, !.pre = pre]
          BY <3>1, <4>1, <4>3
        <4> QED
          BY <3>3, <4>1, <4>3, <4>4, Zenon DEF TxnRecord
      <3>5. Going(t, r) /\ Verdicts(t, r)
        BY <1>1, <2>5, <3>4 DEF CommitAgain, Going, Verdicts
      <3> QED
        BY <1>1, <3>2, <3>4, <3>5, QuietTurn, Zenon
    <2>6. CASE StartCommit(t) /\ WritesOf[t] # << >>
      <3>1. PICK r : r = [txn[t] EXCEPT !.pc = "prewriting"]
        BY Zenon
      <3>2. txn' = [txn EXCEPT ![t] = r]
        BY <1>1, <2>6, <3>1 DEF StartCommit, Move
      <3>3. r \in TxnRecord /\ Going(t, r) /\ Verdicts(t, r)
        BY <1>1, <2>6, <3>1, ZenonT(40) DEF StartCommit, TxnRecord, Going, Verdicts
      <3> QED
        BY <1>1, <3>2, <3>3, QuietTurn, Zenon
    <2>7. ASSUME NEW k \in Key, Validate(t, k)
          PROVE  /\ txn' \in [Txn -> TxnRecord] /\ \A u \in Txn : u # t => txn'[u] = txn[u]
                 /\ Quiet(t)
      <3>1. PICK stale \in BOOLEAN :
               txn' = [txn EXCEPT ![t].pc = IF stale THEN "undo" ELSE @,
                                  ![t].todo = IF stale THEN Written(t) ELSE @ \ {k}]
        BY <2>7, Zenon DEF Validate
      <3>2. PICK r : r = [txn[t] EXCEPT !.pc = IF stale THEN "undo" ELSE txn[t].pc,
                                        !.todo = IF stale THEN Written(t)
                                                 ELSE txn[t].todo \ {k}]
        OBVIOUS
      <3>3. txn' = [txn EXCEPT ![t] = r]
        BY <1>1, <3>1, <3>2, Zenon
      <3>4. /\ r \in TxnRecord /\ r.pc = (IF stale THEN "undo" ELSE txn[t].pc)
            /\ r.status = txn[t].status /\ r.start = txn[t].start
            /\ r.commit = txn[t].commit /\ r.saw = txn[t].saw
            /\ r.todo = (IF stale THEN Written(t) ELSE txn[t].todo \ {k})
        BY <1>1, <3>2, ZenonT(40) DEF TxnRecord
      <3>5. Going(t, r) /\ Verdicts(t, r)
        BY <1>1, <2>7, <3>4, Zenon DEF Validate, Going, Verdicts
      <3> QED
        BY <1>1, <3>3, <3>4, <3>5, QuietTurn, Zenon
    <2> QED
      BY <2>1, <2>2, <2>3, <2>4, <2>5, <2>6, <2>7, Zenon
  <1>4. UNCHANGED <<db, lag, clock, run, res, get, del>>
    BY Zenon DEF NoLeader, Prewritten, LockCommit, Undone, CommitAgain, StartCommit, Validate
  <1>5. AllQuiet
    BY <1>3, TurnIsQuiet, Zenon
  <1> QED
    BY <1>3, <1>4, <1>5, StillIsEffect, QuietInv, Zenon DEF TxInv, Shape, Columns

\* rollback, by the client.
LEMMA RollbackInv ==
    ASSUME PlanAssumption, TxInv, NEW t \in Txn, Rollback(t) PROVE TxInv' /\ Step
  <1>1. txn \in [Txn -> TxnRecord] /\ Going(t, txn[t]) /\ Written(t) \subseteq Key
    BY WrittenAreKeys DEF TxInv, Shape, Goings
  <1>2. /\ txn' \in [Txn -> TxnRecord] /\ \A u \in Txn : u # t => txn'[u] = txn[u]
        /\ Quiet(t)
    <2>1. PICK r : /\ \/ /\ txn[t].pc = "reading"
                         /\ r = [txn[t] EXCEPT !.pc = "done", !.status = "aborted"]
                      \/ /\ txn[t].pc = "prewritten"
                         /\ r = [txn[t] EXCEPT !.pc = "undo", !.todo = Written(t)]
                   /\ txn' = [txn EXCEPT ![t] = r]
      <3>1. CASE /\ txn[t].pc = "reading"
                 /\ txn' = [txn EXCEPT ![t].pc = "done", ![t].status = "aborted"]
        BY <1>1, <3>1, Zenon
      <3>2. CASE /\ txn[t].pc = "prewritten"
                 /\ txn' = [txn EXCEPT ![t].pc = "undo", ![t].todo = Written(t)]
        BY <1>1, <3>2, Zenon
      <3> QED
        BY <3>1, <3>2 DEF Rollback
    <2>2. r \in TxnRecord /\ Going(t, r) /\ Verdicts(t, r)
      <3>1. PICK q \in TxnRecord : q = txn[t]
        BY <1>1, Zenon
      <3>2. /\ r \in TxnRecord /\ r.start = q.start /\ r.commit = q.commit /\ r.saw = q.saw
            /\ \/ q.pc = "reading" /\ r.pc = "done" /\ r.status = "aborted"
               \/ /\ q.pc = "prewritten" /\ r.pc = "undo" /\ r.status = q.status
                  /\ r.todo = Written(t)
        <4>1. CASE q.pc = "reading" /\ r = [q EXCEPT !.pc = "done", !.status = "aborted"]
          BY <4>1, Zenon DEF TxnRecord
        <4>2. CASE q.pc = "prewritten" /\ r = [q EXCEPT !.pc = "undo", !.todo = Written(t)]
          BY <1>1, <4>2, Zenon DEF TxnRecord
        <4> QED
          BY <2>1, <3>1, <4>1, <4>2, Zenon
      <3>3. UNCHANGED db
        BY DEF Rollback
      <3> QED
        BY <1>1, <3>1, <3>2, <3>3 DEF Going, Verdicts, Begun
    <2> QED
      BY <1>1, <2>1, <2>2, QuietTurn, Zenon
  <1>3. AllQuiet
    BY <1>2, TurnIsQuiet
  <1>4. res' \in [Asker -> Errand] /\ \A p \in Asker : res'[p] = res[p] \/ res'[p].pc = "idle"
    BY CalmIsErrand DEF Rollback, TxInv, Shape, Asker
  <1>5. UNCHANGED <<db, lag, clock, run, get, del>>
    BY DEF Rollback
  <1> QED
    BY <1>2, <1>3, <1>4, <1>5, StillIsEffect, QuietInv, Zenon DEF TxInv, Shape, Columns

\* A transaction that writes nothing commits at its start timestamp.
LEMMA ReadOnlyInv ==
    ASSUME PlanAssumption, TxInv, NEW t \in Txn, StartCommit(t), WritesOf[t] = << >>
    PROVE  TxInv' /\ Step
  <1>1. txn \in [Txn -> TxnRecord] /\ Goings
    BY Zenon DEF TxInv, Shape
  <1>2. /\ txn' \in [Txn -> TxnRecord] /\ \A u \in Txn : u # t => txn'[u] = txn[u]
        /\ txn'[t].pc = "done" /\ txn'[t].start = txn[t].start /\ txn'[t].commit = txn[t].start
        /\ txn'[t].saw = txn[t].saw /\ txn[t].pc = "reading" /\ txn'[t].status = "committed"
        /\ UNCHANGED <<db, lag, clock, run, res, get, del>>
    <2>1. PICK r : r = [txn[t] EXCEPT !.pc = "done", !.status = "committed",
                                      !.commit = txn[t].start]
      OBVIOUS
    <2>2. txn' = [txn EXCEPT ![t] = r] /\ txn[t].pc = "reading"
      BY <1>1, <2>1, Zenon DEF StartCommit
    <2>3. /\ r \in TxnRecord /\ r.pc = "done" /\ r.start = txn[t].start /\ r.saw = txn[t].saw
          /\ r.commit = txn[t].start /\ r.status = "committed"
      <3>1. PICK q \in TxnRecord : q = txn[t]
        BY <1>1, Zenon
      <3>2. PICK n \in Nat : n = q.start
        BY Zenon DEF TxnRecord
      <3>3. r = [q EXCEPT !.pc = "done", !.status = "committed", !.commit = n]
        BY <2>1, <3>1, <3>2, Zenon
      <3> QED
        BY <3>1, <3>2, <3>3, Zenon DEF TxnRecord
    <2> QED
      BY <1>1, <2>2, <2>3, Turn DEF StartCommit
  <1>3. Shape'
    BY <1>2, Zenon DEF TxInv, Shape
  <1>4. txn[t].commit = 0 /\ txn[t].start # 0
    BY <1>1, <1>2, Zenon DEF Goings, Going
  <1>5. Stable(t) /\ StampsOf(t)' = StampsOf(t)
    BY <1>2, <1>4, Zenon DEF Stable, StampsOf, Begun
  <1>6. \A u \in Txn : Stable(u) /\ StampsOf(u)' = StampsOf(u) /\ txn'[u].start = txn[u].start
    BY <1>2, <1>5, Zenon DEF Stable, StampsOf, Begun
  <1>7. Stamps'
    BY <1>2, <1>6, StampsSame, Zenon DEF TxInv
  <1>8. Goings'
    <2>1. Going(t, txn'[t])
      BY <1>2, <1>4 DEF Going
    <2> QED
      BY <1>1, <1>2, <2>1, Zenon DEF Goings
  <1>9. Effect /\ LagStep
    BY <1>2, StillIsEffect, Zenon DEF TxInv, Columns, LagStep, Behind
  <1>10. Verdict(t) /\ Dated(t) /\ Sees(t)
    BY <1>2, Zenon DEF Verdict, Dated, Sees
  <1>11. Step
    BY <1>2, <1>5, <1>9, <1>10, StepOfOne, Zenon
  <1>12. \A u \in Txn : txn'[u].pc = "secondary" => txn[u].pc = "secondary"
    BY <1>2, Zenon
  <1> QED
    BY <1>2, <1>3, <1>7, <1>8, <1>9, <1>11, <1>12, Whole, ZenonT(40)

\* A transaction takes its start or its commit timestamp.
LEMMA StampInv ==
    ASSUME PlanAssumption, TxInv, NEW t \in Txn, Begin(t) \/ StampCommit(t) PROVE TxInv' /\ Step
  <1>1. /\ txn \in [Txn -> TxnRecord] /\ Goings /\ Home[t] \in Coordinator
        /\ Shape /\ Runs /\ Stamps /\ clock \in Nat
    BY Zenon DEF TxInv, Shape, PlanAssumption, Stamps
  <1>2. PICK s : s = Stamp(Home[t])
    OBVIOUS
  <1>3. TakeStamp(Home[t])
    BY DEF Begin, StampCommit
  <1>4. /\ s \in Nat /\ s >= 1 /\ run' \in [Coordinator -> [next : Nat, end : Nat]]
        /\ clock' \in Nat
        /\ \A n \in Nat : n <= clock /\ n < run[Home[t]].next => n < s
    BY <1>1, <1>2, <1>3, StampIsNew, Zenon
  <1>5. /\ txn' \in [Txn -> TxnRecord] /\ \A u \in Txn : u # t => txn'[u] = txn[u]
        /\ txn'[t].saw = txn[t].saw /\ txn'[t].status = txn[t].status
        /\ \/ /\ txn[t].pc = "new" /\ txn'[t].pc = "reading" /\ txn'[t].start = s
              /\ txn'[t].commit = txn[t].commit
           \/ /\ txn[t].pc = "validating" /\ txn'[t].pc = "stamped" /\ txn'[t].commit = s
              /\ txn'[t].start = txn[t].start
    <2>1. PICK r : /\ \/ /\ txn[t].pc = "new"
                         /\ r = [txn[t] EXCEPT !.pc = "reading", !.start = s]
                      \/ /\ txn[t].pc = "validating"
                         /\ r = [txn[t] EXCEPT !.pc = "stamped", !.commit = s]
                   /\ txn' = [txn EXCEPT ![t] = r]
      <3>1. CASE Begin(t)
        BY <1>1, <1>2, <3>1, Zenon DEF Begin
      <3>2. CASE StampCommit(t)
        BY <1>1, <1>2, <3>2, Zenon DEF StampCommit
      <3> QED
        BY <3>1, <3>2
    <2>2. r \in TxnRecord
      BY <1>1, <1>4, <2>1, ZenonT(40) DEF TxnRecord
    <2>3. txn' \in [Txn -> TxnRecord] /\ txn'[t] = r /\ \A u \in Txn : u # t => txn'[u] = txn[u]
      BY <1>1, <2>1, <2>2, Turn
    <2> QED
      BY <1>1, <2>1, <2>3, ZenonT(40) DEF TxnRecord
  <1>6. UNCHANGED <<db, lag, res, get, del>>
    BY DEF Begin, StampCommit
  <1>7. Shape'
    BY <1>1, <1>4, <1>5, <1>6, Zenon DEF Shape
  <1>8. txn[t].commit = 0 /\ (txn[t].pc = "new" => txn[t].start = 0)
    BY <1>1, <1>5, Zenon DEF Goings, Going
  <1>9. \A u \in Txn : Stable(u)
    BY <1>5, <1>8, Zenon DEF Stable, Begun
  <1>10. Stamps'
    <2>1. \A u \in Txn : txn'[u].start \in Nat /\ txn'[u].commit \in Nat
      BY <1>5, Zenon DEF TxnRecord
    <2>2. \A u \in Txn : u # t => StampsOf(u)' = StampsOf(u) /\ txn'[u].start = txn[u].start
      BY <1>5, Zenon DEF StampsOf
    <2>3. /\ StampsOf(t)' \subseteq StampsOf(t) \cup {s}
          /\ txn'[t].start = txn[t].start \/ txn'[t].start = s
      BY <1>5, Zenon DEF StampsOf
    <2>4. PICK c \in Coordinator : c = Home[t]
      BY <1>1, Zenon
    <2>5. TakeStamp(c) /\ s = Stamp(c)
      BY <1>2, <1>3, <2>4, Zenon
    <2>6. txn'[t].start = txn[t].start \/ (Home[t] = c /\ txn'[t].start = s)
      BY <2>3, <2>4, Zenon
    <2> QED
      BY <1>1, <2>1, <2>2, <2>3, <2>5, <2>6, StampsNew
  <1>11. Going(t, txn'[t])
    <2>1. txn[t].start < s
      <3>1. txn[t].start \in Nat /\ (txn[t].start = 0 \/ txn[t].start \in StampsOf(t))
        BY <1>1, TxnTypes, Zenon
      <3>2. txn[t].start = 0 \/ txn[t].start <= clock
        BY <1>1, <3>1, Zenon DEF Stamps, Spent
      <3>3. txn[t].start < run[Home[t]].next
        BY <1>1, Zenon DEF Stamps
      <3> QED
        BY <1>1, <1>4, <3>1, <3>2, <3>3
    <2>2. Going(t, txn[t]) /\ s # 0
      BY <1>1, <1>4 DEF Goings
    <2>3. CASE txn[t].pc = "new"
      BY <1>5, <2>2, <2>3 DEF Going
    <2>4. CASE txn[t].pc = "validating"
      BY <1>5, <2>1, <2>2, <2>4 DEF Going
    <2> QED
      BY <1>5, <2>3, <2>4, Zenon
  <1>12. Goings'
    BY <1>1, <1>5, <1>11, Zenon DEF Goings
  <1>13. Effect /\ LagStep
    BY <1>6, StillIsEffect DEF TxInv, Columns, LagStep, Behind
  <1>14. Verdict(t) /\ Dated(t) /\ Sees(t)
    BY <1>1, <1>2, <1>3, <1>5, Zenon DEF Verdict, Silent, Dated, Sees
  <1>15. Step
    BY <1>1, <1>3, <1>5, <1>9, <1>13, <1>14, StepOfOne, ZenonT(40)
  <1>16. \A u \in Txn : txn'[u].pc = "secondary" => txn[u].pc = "secondary"
    BY <1>5, Zenon
  <1> QED
    BY <1>6, <1>7, <1>10, <1>12, <1>13, <1>15, <1>16, Whole, ZenonT(40)

\* A read that is not of the reader's own lock returns what a record vouches for.
LEMMA GotIsRecorded ==
    ASSUME PlanAssumption, Shape, Columns, NEW k \in Key, NEW s \in Nat,
           s # 0 => \A x \in Locks(k) : x.start # s, NEW got, got = Get(At(k), k, s)
    PROVE  got.value \in Value \cup {Nothing} /\ ReadOf(got.value, k)
  <1>1. {x \in NewestLock(At(k), k) : s # 0 /\ x.start = s} = {}
    BY DEF NewestLock, Locks
  <1>2. PICK u : u = ReadTimestamp(At(k), s)
    OBVIOUS
  <1>3. got.value = Nothing \/ got.value = ValueAt(At(k), k, u).value
    BY <1>1, <1>2, Zenon DEF Get
  <1>4. PICK F : F = {v \in VersionAt(At(k), k, u) : v.value # Nothing}
    BY Zenon
  <1>5. CASE F = {}
    BY <1>3, <1>4, <1>5, Zenon DEF ValueAt, ReadOf
  <1>6. CASE F # {}
    <2>1. PICK v \in F : ValueAt(At(k), k, u) = v
      BY <1>4, <1>6 DEF ValueAt
    <2>2. v \in Rows(k) /\ v.value # Nothing
      BY <1>4, <2>1, Zenon DEF VersionAt, Rows
    <2>3. v.value \in Value
      BY <2>2, ColumnTypes DEF Version
    <2>4. RecordBy(v.value) \in Records(k)
      BY <2>2 DEF Columns, VersionsAreRecorded
    <2> QED
      BY <1>3, <2>1, <2>3, <2>4, Zenon DEF ReadOf
  <1> QED
    BY <1>5, <1>6

\* A reader whose read was refused goes to look at the lock.
LEMMA GoingToLook ==
    ASSUME NEW p \in Asker, NEW k \in Key, Shape,
           res' = [res EXCEPT ![p] = [Calm EXCEPT !.pc = "look", !.key = k]]
    PROVE  /\ res' \in [Asker -> Errand]
           /\ \A a \in Asker : res'[a] = res[a] \/ Asked(a)'
  <1>1. PICK r : r = [Calm EXCEPT !.pc = "look", !.key = k]
    OBVIOUS
  <1>2. r \in Errand /\ r.pc = "look" /\ r.key = k
    BY <1>1, CalmIsErrand, Zenon DEF Errand, Place
  <1>3. res' \in [Asker -> Errand] /\ res'[p] = r /\ \A a \in Asker : a # p => res'[a] = res[a]
    BY <1>1, <1>2 DEF Shape
  <1>4. Asked(p)'
    BY <1>2, <1>3 DEF Asked
  <1> QED
    BY <1>3, <1>4

\* read
LEMMA ReadInv ==
    ASSUME PlanAssumption, TxInv, NEW t \in Txn, NEW k \in Key, Read(t, k) PROVE TxInv' /\ Step
  <1>1. /\ txn \in [Txn -> TxnRecord] /\ Goings /\ Shape /\ Stamps /\ Columns
    BY DEF TxInv, Shape
  <1>2. PICK got : got = Get(At(k), k, txn[t].start)
    OBVIOUS
  <1>3. txn[t].pc = "reading" /\ UNCHANGED <<db, lag, clock, run, get, del>>
    BY DEF Read
  <1>4. ASSUME NEW x \in Locks(k) PROVE x.start # txn[t].start
    <2>1. ASSUME x.start = txn[t].start PROVE FALSE
      <3>1. x.value = t
        BY <1>1, <2>1, LockIsOf
      <3>2. Begun(t)
        BY <1>1, <3>1 DEF Columns, Marks, Mark
      <3> QED
        BY <1>3, <3>2 DEF Begun
    <2> QED
      BY <2>1
  <1>5. txn[t].start \in Nat
    BY <1>1 DEF TxnRecord
  <1>6. got.value \in Value \cup {Nothing} /\ ReadOf(got.value, k)
    BY <1>1, <1>2, <1>4, <1>5, GotIsRecorded
  <1>r. txn[t].start # 0
    BY <1>1, <1>3, Zenon DEF Goings, Going
  <1>g. ASSUME got.ok
        PROVE  /\ \A x \in Locks(k) : ~(x.start < txn[t].start)
               /\ got.value = ValueAt(At(k), k, txn[t].start).value
    <2>1. {x \in NewestLock(At(k), k) : txn[t].start # 0 /\ x.start = txn[t].start} = {}
      BY <1>4 DEF NewestLock, Locks
    <2>2. ~\E x \in NewestLock(At(k), k) : Hides(x, txn[t].start)
      BY <1>2, <1>g, <2>1, Zenon DEF Get
    <2>3. NewestLock(At(k), k) = Locks(k)
      <3>1. \A x, y \in Locks(k) : x = y /\ x.start \in Nat
        BY <1>1, ColumnTypes DEF Columns, OneLockEach, Lock
      <3> QED
        BY <3>1 DEF NewestLock, Locks
    <2>4. got.value = ValueAt(At(k), k, txn[t].start).value
      BY <1>2, <1>r, <2>1, <2>2, Zenon DEF Get, ReadTimestamp
    <2> QED
      BY <2>2, <2>3, <2>4, Zenon DEF Hides
  <1>7. CASE /\ got.ok
             /\ txn' = [txn EXCEPT ![t].saw = [j \in {k} \cup DOMAIN @ |->
                                                  IF j = k THEN got.value ELSE @[j]]]
             /\ UNCHANGED res
    <2>1. PICK saw : saw = [j \in {k} \cup DOMAIN txn[t].saw |->
                              IF j = k THEN got.value ELSE txn[t].saw[j]]
      BY Zenon
    <2>2. txn[t].saw \in Seeing
      BY <1>1 DEF TxnRecord
    <2>3. PICK D \in SUBSET Key : txn[t].saw \in [D -> Value \cup {Nothing}]
      BY <2>2, Zenon DEF Seeing
    <2>4. saw \in [{k} \cup D -> Value \cup {Nothing}] /\ {k} \cup D \in SUBSET Key
      BY <1>6, <2>1, <2>3, Zenon
    <2>5. saw \in Seeing
      BY <2>4 DEF Seeing
    <2>6. txn' = [txn EXCEPT ![t].saw = saw]
      BY <1>7, <2>1, Zenon
    <2>7. /\ txn' \in [Txn -> TxnRecord] /\ \A u \in Txn : u # t => txn'[u] = txn[u]
          /\ txn'[t].pc = txn[t].pc /\ txn'[t].start = txn[t].start
          /\ txn'[t].commit = txn[t].commit /\ txn'[t].saw = saw
          /\ txn'[t].status = txn[t].status /\ txn'[t].todo = txn[t].todo
      <3>1. PICK q \in TxnRecord : q = txn[t]
        BY <1>1, Zenon
      <3>2. PICK r : r = [q EXCEPT !.saw = saw]
        BY Zenon
      <3>3. txn' = [txn EXCEPT ![t] = r]
        BY <1>1, <2>6, <3>1, <3>2
      <3>4. /\ r \in TxnRecord /\ r.pc = q.pc /\ r.start = q.start /\ r.commit = q.commit
            /\ r.saw = saw /\ r.status = q.status /\ r.todo = q.todo
        BY <2>5, <3>2 DEF TxnRecord
      <3> QED
        BY <1>1, <3>1, <3>3, <3>4, Turn, Zenon
    <2>8. Shape'
      BY <1>1, <1>3, <1>7, <2>7 DEF Shape
    <2>9. \A u \in Txn : /\ Stable(u) /\ StampsOf(u)' = StampsOf(u)
                         /\ txn'[u].start = txn[u].start /\ txn'[u].pc = txn[u].pc
      BY <2>7, Zenon DEF Stable, StampsOf, Begun
    <2>10. Stamps'
      BY <1>1, <1>3, <2>9, StampsSame, Zenon
    <2>11. Goings'
      <3>1. Going(t, txn'[t])
        BY <1>1, <1>3, <2>7 DEF Goings, Going
      <3> QED
        BY <1>1, <2>7, <3>1, ZenonT(40) DEF Goings
    <2>12. Effect /\ LagStep
      BY <1>1, <1>3, StillIsEffect, Zenon DEF Columns, LagStep, Behind
    <2>13. Sees(t)
      <3> SUFFICES ASSUME NEW j \in DOMAIN txn'[t].saw
                   PROVE  \/ j \in DOMAIN txn[t].saw /\ txn'[t].saw[j] = txn[t].saw[j]
                          \/ Freshly(t, j)
        BY Zenon DEF Sees
      <3>1. CASE j = k
        <4>1. txn'[t].saw[k] = got.value
          BY <2>1, <2>7, Zenon
        <4> QED
          BY <1>3, <1>6, <1>7, <1>g, <1>r, <2>7, <3>1, <4>1 DEF Freshly
      <3>2. CASE j # k
        BY <2>1, <2>7, <3>2, ZenonT(40)
      <3> QED
        BY <3>1, <3>2, Zenon
    <2>14. Verdict(t) /\ Dated(t)
      BY <1>3, <2>7, Zenon DEF Verdict, Silent, Dated
    <2>15. Step
      BY <1>3, <2>7, <2>9, <2>12, <2>13, <2>14, StepOfOne, ZenonT(40)
    <2> QED
      BY <1>3, <1>7, <2>8, <2>9, <2>10, <2>11, <2>12, <2>15, Whole
  <1>8. CASE res' = [res EXCEPT ![t] = [Calm EXCEPT !.pc = "look", !.key = k]] /\ UNCHANGED txn
    <2>1. t \in Asker
      BY DEF Asker
    <2>2. /\ res' \in [Asker -> Errand]
          /\ \A a \in Asker : res'[a] = res[a] \/ Asked(a)'
      BY <1>1, <1>8, <2>1, GoingToLook, Zenon
    <2>3. txn' \in [Txn -> TxnRecord] /\ AllQuiet
      BY <1>8, StillTxnsAreQuiet
    <2>4. db' \in [Shard -> Machine] /\ Effect
      BY <1>1, <1>3, StillIsEffect DEF Shape, Columns
    <2> QED
      BY <1>1, <1>3, <2>2, <2>3, <2>4, QuietInv, ZenonT(40) DEF Shape
  <1> QED
    BY <1>2, <1>7, <1>8 DEF Read

\* The steps of a coordinator that write a shard: prewrite, the commit of the primary and
\* of the secondaries, and the rollback.
LEMMA PrewriteKeyInv ==
    ASSUME PlanAssumption, TxInv, NEW t \in Txn, NEW i \in 1 .. Len(WritesOf[t]),
           PrewriteKey(t, i)
    PROVE  TxInv' /\ Step
  <1>1. /\ txn \in [Txn -> TxnRecord] /\ Going(t, txn[t]) /\ Shape /\ Stamps /\ Columns
    BY DEF TxInv, Shape, Goings
  <1>2. PICK k \in Written(t) : k = WritesOf[t][i]
    BY Zenon DEF Written
  <1>3. k \in Key
    BY WrittenAreKeys
  <1>4. PICK s, p : s = txn[t].start /\ p = Primary(t)
    OBVIOUS
  <1>5. PICK o \in Outcomes(At(k), ApplyPrewrite(At(k), k, t, s, p),
                            ApplyPrewrite(ApplyPrewrite(At(k), k, t, s, p).m, k, t, s, p)) :
           /\ db' = [db EXCEPT ![ShardOf[k]] = o.m]
           /\ txn' = [txn EXCEPT ![t].pre[k] = IF o.code = "ok" THEN "ok" ELSE "no"]
    BY <1>2, <1>4, Zenon DEF PrewriteKey, Propose
  <1>6. txn[t].pc = "prewriting" /\ UNCHANGED <<lag, clock, run, res, get, del>>
    BY DEF PrewriteKey
  <1>7. db' \in [Shard -> Machine] /\ Effect
    BY <1>1, <1>4, <1>5, <1>6, PrewriteEffect, Zenon
  <1>8. /\ txn' \in [Txn -> TxnRecord] /\ \A u \in Txn : u # t => txn'[u] = txn[u]
        /\ Quiet(t)
    <2>1. PICK b \in {"ok", "no"} : b = IF o.code = "ok" THEN "ok" ELSE "no"
      BY Zenon
    <2>2. PICK q \in TxnRecord : q = txn[t]
      BY <1>1, Zenon
    <2>3. PICK pre : pre = [q.pre EXCEPT ![k] = b]
      BY Zenon
    <2>4. PICK r : r = [q EXCEPT !.pre = pre]
      BY Zenon
    <2>5. txn' = [txn EXCEPT ![t] = r]
      BY <1>1, <1>5, <2>1, <2>2, <2>3, <2>4
    <2>6. pre \in [Key -> {"todo", "ok", "no"}]
      BY <1>3, <2>3, Zenon DEF TxnRecord
    <2>7. /\ r \in TxnRecord /\ r.pc = q.pc /\ r.status = q.status /\ r.start = q.start
          /\ r.commit = q.commit /\ r.saw = q.saw /\ r.todo = q.todo
      BY <2>4, <2>6 DEF TxnRecord
    <2>8. Going(t, r) /\ Verdicts(t, r)
      BY <1>1, <1>6, <2>2, <2>7, Zenon DEF Going, Verdicts, Begun
    <2> QED
      BY <1>1, <2>5, <2>7, <2>8, QuietTurn, Zenon
  <1>9. AllQuiet
    BY <1>8, TurnIsQuiet, Zenon
  <1> QED
    BY <1>1, <1>6, <1>7, <1>8, <1>9, QuietInv, ZenonT(40) DEF Shape

\* The commit of the primary: the commit point.
LEMMA CommitPrimaryInv ==
    ASSUME PlanAssumption, TxInv, NEW t \in Txn, CommitPrimary(t) PROVE TxInv' /\ Step
  <1>1. /\ txn \in [Txn -> TxnRecord] /\ Going(t, txn[t]) /\ Shape /\ Stamps /\ Columns
        /\ Written(t) \subseteq Key
    BY WrittenAreKeys DEF TxInv, Shape, Goings
  <1>2. txn[t].pc = "stamped" /\ UNCHANGED <<lag, clock, run, res, get, del>>
    BY DEF CommitPrimary
  <1>3. PICK k : k = Primary(t)
    OBVIOUS
  <1>4. k \in Key /\ txn[t].start < txn[t].commit /\ txn[t].start # 0
    BY <1>1, <1>2, <1>3, PrimaryIsKey, Zenon DEF Going
  <1>5. PICK s, c : s = txn[t].start /\ c = txn[t].commit
    OBVIOUS
  <1>6. PICK o \in Outcomes(At(k), ApplyCommit(At(k), k, s, c),
                            ApplyCommit(ApplyCommit(At(k), k, s, c).m, k, s, c)) :
           /\ db' = [db EXCEPT ![ShardOf[k]] = o.m]
           /\ \/ /\ o.code = "ok"
                 /\ txn' = [txn EXCEPT ![t].pc = "secondary", ![t].todo = Written(t) \ {k},
                                       ![t].status = "committed"]
              \/ o.code = "silent" /\ Move(t, "raised")
              \/ /\ o.code \notin {"ok", "silent"}
                 /\ txn' = [txn EXCEPT ![t].pc = "undo", ![t].todo = Written(t)]
    BY <1>3, <1>5, Zenon DEF CommitPrimary, Propose
  <1>7. /\ txn' \in [Txn -> TxnRecord] /\ \A u \in Txn : u # t => txn'[u] = txn[u]
        /\ Going(t, txn'[t]) /\ Begun(t)' /\ txn'[t].start = txn[t].start
        /\ txn'[t].commit = txn[t].commit /\ txn'[t].saw = txn[t].saw
        /\ o.code = "ok" => txn'[t].pc = "secondary" /\ txn'[t].status = "committed"
        /\ o.code # "ok" => txn'[t].pc # "secondary" /\ txn'[t].status = txn[t].status
    <2>1. PICK q \in TxnRecord : q = txn[t]
      BY <1>1, Zenon
    <2>2. PICK r : /\ \/ /\ o.code = "ok"
                         /\ r = [q EXCEPT !.pc = "secondary", !.todo = Written(t) \ {k},
                                          !.status = "committed"]
                      \/ o.code # "ok" /\ r = [q EXCEPT !.pc = "raised"]
                      \/ o.code # "ok" /\ r = [q EXCEPT !.pc = "undo", !.todo = Written(t)]
                   /\ txn' = [txn EXCEPT ![t] = r]
      BY <1>1, <1>6, <2>1, Zenon DEF Move
    <2>3. /\ r \in TxnRecord /\ r.start = q.start /\ r.commit = q.commit /\ r.saw = q.saw
          /\ \/ /\ o.code = "ok" /\ r.pc = "secondary" /\ r.todo = Written(t) \ {k}
                /\ r.status = "committed"
             \/ o.code # "ok" /\ r.pc = "raised" /\ r.status = q.status
             \/ /\ o.code # "ok" /\ r.pc = "undo" /\ r.status = q.status
                /\ r.todo = Written(t)
      <3>1. CASE /\ o.code = "ok"
                 /\ r = [q EXCEPT !.pc = "secondary", !.todo = Written(t) \ {k},
                                  !.status = "committed"]
        BY <1>1, <3>1, Zenon DEF TxnRecord
      <3>2. CASE o.code # "ok" /\ r = [q EXCEPT !.pc = "raised"]
        BY <3>2 DEF TxnRecord
      <3>3. CASE o.code # "ok" /\ r = [q EXCEPT !.pc = "undo", !.todo = Written(t)]
        BY <1>1, <3>3, Zenon DEF TxnRecord
      <3> QED
        BY <2>2, <3>1, <3>2, <3>3
    <2>4. Going(t, r)
      BY <1>1, <1>2, <2>1, <2>3, Zenon DEF Going
    <2> QED
      BY <1>1, <2>1, <2>2, <2>3, <2>4, Turn DEF Begun
  <1>8. o.code = "ok" \/ Timeouts \/ Retries => Deciding(t)
    BY <1>2, <1>7, Zenon DEF Deciding
  <1>9. /\ db' \in [Shard -> Machine] /\ Effect
        /\ o.code = "ok" => RecordBy(t) \in Records(k)'
    <2>1. k = Primary(t) /\ (o.code = "ok" \/ Timeouts \/ Retries => Deciding(t))
      BY <1>3, <1>8, Zenon
    <2> QED
      BY <1>1, <1>4, <1>5, <1>6, <2>1, CommitEffect, ZenonT(40)
  <1>10. txn'[t].pc = "secondary" => HasDecided(t)'
    <2>1. RecordBy(t)' = RecordBy(t)
      BY <1>7, Zenon DEF RecordBy
    <2> QED
      BY <1>3, <1>4, <1>7, <1>9, <2>1, Zenon DEF HasDecided
  <1>11. Quiet(t)
    BY <1>2, <1>7, <1>10, Zenon DEF Quiet, Verdict, Silent
  <1>12. AllQuiet
    BY <1>7, <1>11, TurnIsQuiet, Zenon
  <1> QED
    BY <1>1, <1>2, <1>7, <1>9, <1>12, QuietInv, ZenonT(40) DEF Shape

\* The commit of a secondary: a lock is there only if nobody has rolled it forward.
LEMMA CommitSecondaryInv ==
    ASSUME PlanAssumption, TxInv, NEW t \in Txn, NEW k \in Key, CommitSecondary(t, k)
    PROVE  TxInv' /\ Step
  <1>1. /\ txn \in [Txn -> TxnRecord] /\ Going(t, txn[t]) /\ Shape /\ Stamps /\ Columns
    BY DEF TxInv, Shape, Goings
  <1>2. /\ txn[t].pc = "secondary" /\ UNCHANGED <<lag, clock, run, res, get, del>>
        /\ txn' = [txn EXCEPT ![t].todo = @ \ {k}]
    BY DEF CommitSecondary
  <1>3. HasDecided(t) /\ txn[t].start < txn[t].commit
    BY <1>2 DEF TxInv, SecondariesWait, HasDecided
  <1>4. PICK s, c : s = txn[t].start /\ c = txn[t].commit
    OBVIOUS
  <1>5. PICK o \in Outcomes(At(k), ApplyCommit(At(k), k, s, c),
                            ApplyCommit(ApplyCommit(At(k), k, s, c).m, k, s, c)) :
           db' = [db EXCEPT ![ShardOf[k]] = o.m]
    BY <1>4, Zenon DEF CommitSecondary, Propose
  <1>6. db' \in [Shard -> Machine] /\ Effect
    BY <1>1, <1>3, <1>4, <1>5, CommitEffect, Zenon
  <1>7. /\ txn' \in [Txn -> TxnRecord] /\ \A u \in Txn : u # t => txn'[u] = txn[u]
        /\ Quiet(t)
    <2>1. PICK q \in TxnRecord : q = txn[t]
      BY <1>1, Zenon
    <2>2. PICK r : r = [q EXCEPT !.todo = q.todo \ {k}]
      BY Zenon
    <2>3. txn' = [txn EXCEPT ![t] = r]
      BY <1>1, <1>2, <2>1, <2>2
    <2>4. /\ r \in TxnRecord /\ r.start = q.start /\ r.commit = q.commit /\ r.saw = q.saw
          /\ r.status = q.status /\ r.pc = q.pc /\ r.todo \subseteq q.todo
      BY <2>2 DEF TxnRecord
    <2>5. Going(t, r) /\ Verdicts(t, r)
      BY <1>1, <1>2, <2>1, <2>4 DEF Going, Verdicts, Begun
    <2> QED
      BY <1>1, <2>3, <2>4, <2>5, QuietTurn, Zenon
  <1>8. AllQuiet
    BY <1>7, TurnIsQuiet, Zenon
  <1> QED
    BY <1>1, <1>2, <1>6, <1>7, <1>8, QuietInv DEF Shape

\* _rollback_all_shards: a lock of the transaction goes.
LEMMA UndoInv ==
    ASSUME PlanAssumption, TxInv, NEW t \in Txn, NEW k \in Key, Undo(t, k) PROVE TxInv' /\ Step
  <1>1. /\ txn \in [Txn -> TxnRecord] /\ Going(t, txn[t]) /\ Shape /\ Columns
    BY DEF TxInv, Shape, Goings
  <1>2. txn[t].pc = "undo" /\ UNCHANGED <<lag, clock, run, res, get, del>>
    BY DEF Undo
  <1>3. PICK s \in Nat : s = txn[t].start
    BY <1>1 DEF TxnRecord
  <1>4. PICK o \in Outcomes(At(k), ApplyRollback(At(k), k, s),
                            ApplyRollback(ApplyRollback(At(k), k, s).m, k, s)) :
           /\ db' = [db EXCEPT ![ShardOf[k]] = o.m]
           /\ Move(t, "raised") \/ txn' = [txn EXCEPT ![t].todo = @ \ {k}]
    BY <1>3, Zenon DEF Undo, Propose
  <1>5. db' \in [Shard -> Machine] /\ Effect
    BY <1>1, <1>4, RollbackEffect, Zenon
  <1>6. /\ txn' \in [Txn -> TxnRecord] /\ \A u \in Txn : u # t => txn'[u] = txn[u]
        /\ Quiet(t)
    <2>1. PICK q \in TxnRecord : q = txn[t]
      BY <1>1, Zenon
    <2>2. PICK r : /\ r = [q EXCEPT !.pc = "raised"] \/ r = [q EXCEPT !.todo = q.todo \ {k}]
                   /\ txn' = [txn EXCEPT ![t] = r]
      BY <1>1, <1>4, <2>1 DEF Move
    <2>3. /\ r \in TxnRecord /\ r.start = q.start /\ r.commit = q.commit /\ r.saw = q.saw
          /\ r.status = q.status /\ r.pc \in {q.pc, "raised"} /\ r.todo \subseteq q.todo
      BY <2>2 DEF TxnRecord
    <2>4. Going(t, r) /\ Verdicts(t, r)
      BY <1>1, <1>2, <2>1, <2>3, Zenon DEF Going, Verdicts
    <2> QED
      BY <1>1, <2>2, <2>3, <2>4, QuietTurn, Zenon
  <1>7. AllQuiet
    BY <1>6, TurnIsQuiet, Zenon
  <1> QED
    BY <1>1, <1>2, <1>5, <1>6, <1>7, QuietInv, ZenonT(40) DEF Shape

\* A process that stops.
LEMMA CrashInv ==
    ASSUME PlanAssumption, TxInv, NEW c \in Coordinator, Crash(c) PROVE TxInv' /\ Step
  <1>1. txn \in [Txn -> TxnRecord] /\ Goings /\ Shape /\ Columns
    BY DEF TxInv, Shape
  <1>2. UNCHANGED <<db, lag, clock, run, get, del>>
    BY DEF Crash
  <1>3. txn' = [t \in Txn |-> IF Home[t] = c /\ txn[t].pc # "done"
                              THEN [txn[t] EXCEPT !.pc = "dead"] ELSE txn[t]]
    BY DEF Crash
  <1>4. ASSUME NEW u \in Txn PROVE txn'[u] \in TxnRecord /\ Quiet(u) /\ Silent(u)
    <2>1. Going(u, txn[u]) /\ txn[u] \in TxnRecord
      BY <1>1 DEF Goings
    <2>2. CASE txn'[u] = txn[u]
      BY <2>1, <2>2, Zenon DEF Quiet, Begun, Verdict, Silent
    <2>3. CASE txn'[u] = [txn[u] EXCEPT !.pc = "dead"] /\ txn[u].pc # "done"
      <3>1. PICK q, r : q = txn[u] /\ r = txn'[u]
        BY Zenon
      <3>2. /\ r \in TxnRecord /\ r.start = q.start /\ r.commit = q.commit /\ r.saw = q.saw
            /\ r.status = q.status /\ r.pc = "dead"
        BY <2>1, <2>3, <3>1 DEF TxnRecord
      <3>3. Going(u, r)
        BY <2>1, <3>1, <3>2, Zenon DEF Going
      <3> QED
        BY <2>3, <3>1, <3>2, <3>3 DEF Quiet, Begun, Verdict, Silent
    <2> QED
      BY <1>3, <2>2, <2>3
  <1>5. txn' \in [Txn -> TxnRecord]
    BY <1>3, <1>4, Zenon
  <1>6. res' \in [Asker -> Errand] /\ \A p \in Asker : res'[p] = res[p] \/ res'[p].pc = "idle"
    BY <1>1, CalmIsErrand DEF Crash, Shape
  <1> QED
    BY <1>1, <1>2, <1>4, <1>5, <1>6, StillIsEffect, QuietInv, ZenonT(40) DEF Shape, Columns,
       AllQuiet

\* A resolver takes up an errand, and nothing else changes.
LEMMA ErrandInv ==
    ASSUME PlanAssumption, TxInv, NEW p \in Asker, NEW r \in Errand, Settling(p, r),
           db' \in [Shard -> Machine], Effect, r.pc = "idle" \/ Asked(p)'
    PROVE  TxInv' /\ Step
  <1>1. UNCHANGED <<lag, clock, run, txn, get, del>> /\ Shape
    BY DEF Settling, TxInv
  <1>2. res' \in [Asker -> Errand] /\ res'[p] = r /\ \A a \in Asker : a # p => res'[a] = res[a]
    BY <1>1 DEF Settling, Shape
  <1>3. txn' \in [Txn -> TxnRecord] /\ AllQuiet
    BY <1>1, StillTxnsAreQuiet
  <1>4. \A a \in Asker : res'[a] = res[a] \/ res'[a].pc = "idle" \/ Asked(a)'
    BY <1>2
  <1> QED
    BY <1>1, <1>2, <1>3, <1>4, QuietInv, Zenon DEF Shape

\* An errand to a lock that somebody has seen.
LEMMA LookedAt ==
    ASSUME PlanAssumption, TxInv, NEW p \in Asker, NEW k \in Key,
           NEW x \in Locks(k) \cup Behind(k).lock[k], NEW r,
           r.pc = "record", r.key = k, r.start = x.start, r.primary = x.primary,
           r.commit \in Nat,
           r = [pc |-> r.pc, key |-> r.key, start |-> r.start, primary |-> r.primary,
                commit |-> r.commit],
           Settling(p, r), UNCHANGED db
    PROVE  TxInv' /\ Step
  <1>1. x \in Lock /\ Mark(k, x) /\ Shape /\ Columns
    BY DEF TxInv, Columns, Marks
  <1>2. r \in Errand
    BY <1>1 DEF Errand, Place, Lock
  <1>3. db' \in [Shard -> Machine] /\ Effect
    BY <1>1, StillIsEffect, Zenon DEF Shape, Columns
  <1>4. res'[p] = r /\ UNCHANGED txn
    BY <1>1, Zenon DEF Settling, Shape
  <1>5. Asked(p)'
    <2>1. x.value \in Txn
      BY <1>1, Zenon DEF Lock, Txn
    <2> QED
      BY <1>1, <1>4, <2>1, Zenon DEF Asked, Mark
  <1> QED
    BY <1>2, <1>3, <1>5, ErrandInv

\* A lock that is shown is one of the leader's or one of a replica that is behind.
LEMMA SeenLocks ==
    ASSUME NEW k, NEW q \in Seen(k)
    PROVE  NewestLock(q, k) \subseteq Locks(k) \cup Behind(k).lock[k]
  BY DEF Seen, NewestLock, Locks, Behind

\* lock_on, and the sweep
LEMMA LookInv ==
    ASSUME PlanAssumption, TxInv, NEW p \in Asker, Look(p) PROVE TxInv' /\ Step
  <1>1. PICK k : k = res[p].key
    OBVIOUS
  <1>2. k \in Key /\ res[p] \in Errand /\ UNCHANGED db /\ Shape /\ Columns
    BY <1>1, Zenon DEF Look, TxInv, Asked, Shape
  <1>3. PICK q \in Seen(k) :
          \/ Settling(p, Calm)
          \/ \E x \in NewestLock(q, k) :
                Settling(p, [res[p] EXCEPT !.pc = "record", !.start = x.start,
                                           !.primary = x.primary])
    BY <1>1, Zenon DEF Look
  <1>4. CASE Settling(p, Calm)
    BY <1>2, <1>4, CalmIsErrand, ErrandInv, StillIsEffect DEF Shape, Columns
  <1>5. ASSUME NEW x \in NewestLock(q, k),
               Settling(p, [res[p] EXCEPT !.pc = "record", !.start = x.start,
                                          !.primary = x.primary])
        PROVE  TxInv' /\ Step
    <2>1. PICK r : r = [res[p] EXCEPT !.pc = "record", !.start = x.start,
                                      !.primary = x.primary]
      OBVIOUS
    <2>2. /\ r.pc = "record" /\ r.key = k /\ r.start = x.start /\ r.primary = x.primary
          /\ r.commit \in Nat
          /\ r = [pc |-> r.pc, key |-> r.key, start |-> r.start, primary |-> r.primary,
                  commit |-> r.commit]
      BY <1>1, <1>2, <2>1, Zenon DEF Errand
    <2>3. x \in Locks(k) \cup Behind(k).lock[k]
      BY SeenLocks
    <2> QED
      BY <1>2, <1>5, <2>1, <2>2, <2>3, LookedAt
  <1> QED
    BY <1>3, <1>4, <1>5, Zenon

\* The sweep takes up a lock that has expired.
LEMMA SweepInv ==
    ASSUME PlanAssumption, TxInv, NEW k \in Key, Sweep(k) PROVE TxInv' /\ Step
  <1>1. PICK x \in Locks(k) :
           Settling(Sweeper, [Calm EXCEPT !.pc = "record", !.key = k, !.start = x.start,
                                          !.primary = x.primary])
    BY Zenon DEF Sweep, Locks
  <1>2. PICK r : r = [Calm EXCEPT !.pc = "record", !.key = k, !.start = x.start,
                                  !.primary = x.primary]
    OBVIOUS
  <1>3. /\ r.pc = "record" /\ r.key = k /\ r.start = x.start /\ r.primary = x.primary
        /\ r.commit \in Nat
        /\ r = [pc |-> r.pc, key |-> r.key, start |-> r.start, primary |-> r.primary,
                commit |-> r.commit]
    BY <1>2, Zenon DEF Calm
  <1>4. Sweeper \in Asker /\ UNCHANGED db
    BY DEF Asker, Sweep
  <1> QED
    BY <1>1, <1>2, <1>3, <1>4, LookedAt

\* The questions to the primary: what is asked next is about the same lock.
LEMMA AskOnInv ==
    ASSUME PlanAssumption, TxInv, NEW p \in Asker, res[p].pc \in {"record", "lock", "stamp"},
           NEW pc \in {"look", "stamp", "lock", "back"}, NEW r,
           r = [res[p] EXCEPT !.pc = pc], Settling(p, r), UNCHANGED db
    PROVE  TxInv' /\ Step
  <1>1. res[p] \in Errand /\ Asked(p) /\ Shape /\ Columns
    BY DEF TxInv, Shape
  <1>2. /\ r \in Errand /\ r.pc = pc /\ r.key = res[p].key /\ r.start = res[p].start
        /\ r.primary = res[p].primary
    BY <1>1 DEF Errand
  <1>3. db' \in [Shard -> Machine] /\ Effect
    BY <1>1, StillIsEffect DEF Shape, Columns
  <1>4. res'[p] = r /\ UNCHANGED txn
    BY <1>1 DEF Settling, Shape
  <1>5. Asked(p)'
    BY <1>1, <1>2, <1>4 DEF Asked
  <1> QED
    BY <1>2, <1>3, <1>5, ErrandInv

\* A reader that has settled nothing polls, and the sweep goes on.
LEMMA NotYetInv ==
    ASSUME PlanAssumption, TxInv, NEW p \in Asker, res[p].pc \in {"record", "lock", "stamp"},
           Settling(p, NotYet(p)), UNCHANGED db
    PROVE  TxInv' /\ Step
  <1>1. CASE p = Sweeper
    <2>1. Settling(p, Calm)
      BY <1>1 DEF NotYet
    <2> QED
      BY <2>1, CalmIsErrand, ErrandInv, StillIsEffect, ZenonT(40) DEF TxInv, Shape, Columns
  <1>2. CASE p # Sweeper
    <2>1. PICK r : r = [res[p] EXCEPT !.pc = "look"]
      BY Zenon
    <2>2. Settling(p, r)
      BY <1>2, <2>1 DEF NotYet
    <2> QED
      BY <2>1, <2>2, AskOnInv
  <1> QED
    BY <1>1, <1>2

\* resolve_lock asks for the primary's last record.
LEMMA AskRecordInv ==
    ASSUME PlanAssumption, TxInv, NEW p \in Asker, AskRecord(p) PROVE TxInv' /\ Step
  <1>1. PICK q : Settling(p, [res[p] EXCEPT
              !.pc = IF WroteLast(q, res[p].primary, res[p].start) # {} THEN "stamp" ELSE "lock"])
    BY DEF AskRecord
  <1>2. PICK pc \in {"stamp", "lock"} :
           pc = IF WroteLast(q, res[p].primary, res[p].start) # {} THEN "stamp" ELSE "lock"
    OBVIOUS
  <1>3. PICK r : r = [res[p] EXCEPT !.pc = pc]
    BY Zenon
  <1>4. Settling(p, r) /\ res[p].pc = "record" /\ UNCHANGED db
    BY <1>1, <1>2, <1>3 DEF AskRecord
  <1> QED
    BY <1>3, <1>4, AskOnInv

\* resolve_lock asks for the primary's lock.
LEMMA AskLockInv ==
    ASSUME PlanAssumption, TxInv, NEW p \in Asker, AskLock(p) PROVE TxInv' /\ Step
  <1>1. res[p].pc = "lock" /\ UNCHANGED db
    BY DEF AskLock
  <1>2. PICK r : r = [res[p] EXCEPT !.pc = "back"]
    BY Zenon
  <1>3. Settling(p, NotYet(p)) \/ Settling(p, r)
    BY <1>2 DEF AskLock
  <1> QED
    BY <1>1, <1>2, <1>3, AskOnInv, NotYetInv

\* A record of the primary that somebody has seen is the transaction's decision.
LEMMA SeenIsDecided ==
    ASSUME PlanAssumption, Shape, Stamps, Columns, NEW t \in Txn, NEW k \in Key,
           NEW q \in Seen(k), NEW w \in WroteLast(q, k, txn[t].start), txn[t].start # 0
    PROVE  HasDecided(t) /\ w.commit = txn[t].commit
  <1>1. w \in q.wrote[k] /\ w.start = txn[t].start
    BY DEF WroteLast, LatestWrite
  <1>2. w \in Records(k)
    BY <1>1 DEF Seen, Records, Behind, Columns, BehindIsBehind
  <1>3. PICK u \in Txn : w = RecordBy(u) /\ HasDecided(u)
    BY <1>2 DEF Columns, RecordsAreDecided
  <1>4. w.start = txn[u].start /\ w.commit = txn[u].commit
    BY <1>3 DEF RecordBy
  <1>5. u = t
    BY <1>1, <1>4, StampsTell, Zenon
  <1> QED
    BY <1>3, <1>4, <1>5, Zenon

\* resolve_lock asks for the commit timestamp: it is that of the decision.
LEMMA AskStampInv ==
    ASSUME PlanAssumption, TxInv, NEW p \in Asker, AskStamp(p) PROVE TxInv' /\ Step
  <1>1. res[p].pc = "stamp" /\ UNCHANGED db
    BY Zenon DEF AskStamp
  <1>2. res[p] \in Errand /\ Asked(p) /\ Shape /\ Stamps /\ Columns
    BY DEF TxInv, Shape
  <1>3. PICK t \in Txn : /\ txn[t].start # 0 /\ res[p].start = txn[t].start
                         /\ res[p].primary = Primary(t) /\ res[p].key \in Written(t)
    BY <1>1, <1>2, Zenon DEF Asked
  <1>4. Primary(t) \in Key
    BY <1>3, WriterHasPrimary
  <1>5. PICK q \in Seen(Primary(t)) :
           \/ Settling(p, NotYet(p))
           \/ \E w \in WroteLast(q, Primary(t), txn[t].start) :
                 Settling(p, [res[p] EXCEPT !.pc = "forward", !.commit = w.commit])
    BY <1>3, Zenon DEF AskStamp
  <1>6. CASE Settling(p, NotYet(p))
    BY <1>1, <1>6, NotYetInv, Zenon
  <1>7. ASSUME NEW w \in WroteLast(q, Primary(t), txn[t].start),
               Settling(p, [res[p] EXCEPT !.pc = "forward", !.commit = w.commit])
        PROVE  TxInv' /\ Step
    <2>1. HasDecided(t) /\ w.commit = txn[t].commit
      BY <1>2, <1>3, <1>4, SeenIsDecided, ZenonT(40)
    <2>2. PICK r : r = [res[p] EXCEPT !.pc = "forward", !.commit = w.commit]
      OBVIOUS
    <2>3. txn[t].commit \in Nat
      BY <1>2 DEF Shape, TxnRecord
    <2>4. /\ r \in Errand /\ r.pc = "forward" /\ r.key = res[p].key /\ r.start = res[p].start
          /\ r.primary = res[p].primary /\ r.commit = txn[t].commit
      BY <1>2, <2>1, <2>2, <2>3, ZenonT(40) DEF Errand
    <2>5. db' \in [Shard -> Machine] /\ Effect
      BY <1>1, <1>2, StillIsEffect DEF Shape, Columns
    <2>6. Settling(p, r)
      BY <1>7, <2>2
    <2>7. res'[p] = r /\ UNCHANGED txn
      BY <1>2, <2>6 DEF Settling, Shape
    <2>8. HasDecided(t)'
      BY <1>1, <2>1, <2>7, Zenon DEF HasDecided, RecordBy, Records, At
    <2>9. Asked(p)'
      BY <1>1, <1>2, <1>3, <2>4, <2>7, <2>8, ZenonT(40) DEF Asked
    <2> QED
      BY <2>4, <2>5, <2>6, <2>9, ErrandInv, ZenonT(40)
  <1> QED
    BY <1>5, <1>6, <1>7, Zenon

\* resolve_lock rolls the lock forward, or back.
LEMMA SettleInv ==
    ASSUME PlanAssumption, TxInv, NEW p \in Asker, Settle(p) PROVE TxInv' /\ Step
  <1>1. res[p] \in Errand /\ Asked(p) /\ Shape /\ Stamps /\ Columns
    BY DEF TxInv, Shape
  <1>2. PICK k, s, c : k = res[p].key /\ s = res[p].start /\ c = res[p].commit
    OBVIOUS
  <1>3. Settling(p, Calm)
    BY DEF Settle
  <1>4. CASE /\ res[p].pc = "forward"
             /\ \E o \in Outcomes(At(k), ApplyCommit(At(k), k, s, c),
                                  ApplyCommit(ApplyCommit(At(k), k, s, c).m, k, s, c)) :
                   db' = [db EXCEPT ![ShardOf[k]] = o.m]
    <2>1. PICK t \in Txn : HasDecided(t) /\ s = txn[t].start /\ c = txn[t].commit
      BY <1>1, <1>2, <1>4, Zenon DEF Asked
    <2>2. k \in Key /\ txn[t].start < txn[t].commit
      BY <1>1, <1>2, <1>4, <2>1, Zenon DEF Asked, HasDecided
    <2>3. db' \in [Shard -> Machine] /\ Effect
      BY <1>1, <1>4, <2>1, <2>2, CommitEffect, ZenonT(40)
    <2> QED
      BY <1>3, <2>3, CalmIsErrand, ErrandInv
  <1>5. CASE /\ res[p].pc = "back"
             /\ \E o \in Outcomes(At(k), ApplyRollback(At(k), k, s),
                                  ApplyRollback(ApplyRollback(At(k), k, s).m, k, s)) :
                   db' = [db EXCEPT ![ShardOf[k]] = o.m]
    <2>1. k \in Key /\ s \in Nat
      BY <1>1, <1>2, <1>5, Zenon DEF Asked, Errand
    <2>2. db' \in [Shard -> Machine] /\ Effect
      BY <1>1, <1>5, <2>1, RollbackEffect, ZenonT(40)
    <2> QED
      BY <1>3, <2>2, CalmIsErrand, ErrandInv
  <1> QED
    BY <1>2, <1>4, <1>5, Zenon DEF Settle, Propose

\* Time passes.
LEMMA ExpireInv ==
    ASSUME PlanAssumption, TxInv, NEW k \in Key, Expire(k) PROVE TxInv' /\ Step
  <1>1. UNCHANGED <<lag, clock, run, txn, res, get, del>> /\ Shape /\ Columns
    BY Zenon DEF Expire, TxInv
  <1>2. db' \in [Shard -> Machine] /\ Effect
    BY <1>1, ExpireEffect, Zenon DEF Expire
  <1>3. txn' \in [Txn -> TxnRecord] /\ AllQuiet
    BY <1>1, StillTxnsAreQuiet
  <1> QED
    BY <1>1, <1>2, <1>3, QuietInv DEF Shape

\* SmartClient.get
LEMMA GetInv ==
    ASSUME PlanAssumption, TxInv, NEW g \in Getter, GetFirst(g) \/ GetAgain(g) PROVE TxInv' /\ Step
  <1>1. UNCHANGED <<db, lag, clock, run, txn, del>> /\ Shape /\ Columns
    BY DEF GetFirst, GetAgain, TxInv
  <1>2. PICK k \in Key : k = KeyOf[g]
    BY DEF PlanAssumption
  <1>3. PICK got : got = Get(At(k), k, 0)
    OBVIOUS
  <1>4. got.value \in Value \cup {Nothing} /\ ReadOf(got.value, k) /\ ReadOf(Nothing, k)
    BY <1>1, <1>3, GotIsRecorded DEF ReadOf
  <1>5. db' \in [Shard -> Machine] /\ Effect
    BY <1>1, StillIsEffect DEF Shape, Columns
  <1>6. txn' \in [Txn -> TxnRecord] /\ AllQuiet
    BY <1>1, StillTxnsAreQuiet
  <1>7. /\ get' \in [Getter -> Found] /\ \A h \in Getter : h # g => get'[h] = get[h]
        /\ get'[g].value \in {Nothing, got.value}
    <2>1. CASE GetAgain(g)
      <3>1. get[g] \in Found /\ get \in [Getter -> Found]
        BY <1>1 DEF Shape
      <3>2. PICK r : r = [get[g] EXCEPT !.pc = "done", !.value = got.value]
        OBVIOUS
      <3>3. get' = [get EXCEPT ![g] = r]
        BY <1>2, <1>3, <2>1, <3>1, <3>2, ZenonT(40) DEF GetAgain
      <3>4. r \in Found /\ r.value = got.value
        BY <1>4, <3>1, <3>2, Zenon DEF Found
      <3> QED
        BY <3>1, <3>3, <3>4
    <2>2. CASE GetFirst(g)
      <3>1. PICK b \in BOOLEAN, v \in {Nothing, got.value}, pc \in {"done", "again"} :
               get' = [get EXCEPT ![g] = [pc |-> pc, value |-> v, was |-> b]]
        BY <1>2, <1>3, <2>2, ZenonT(40) DEF GetFirst
      <3> QED
        BY <1>1, <1>4, <3>1, Zenon DEF Shape, Found
    <2> QED
      BY <2>1, <2>2, Zenon
  <1>8. \A h \in Getter : get'[h].value = get[h].value \/ ReadOf(get'[h].value, KeyOf[h])
    BY <1>2, <1>4, <1>7, ZenonT(40)
  <1>9. /\ res' \in [Asker -> Errand]
        /\ \A a \in Asker : res'[a] = res[a] \/ Asked(a)'
    <2>1. CASE UNCHANGED res
      BY <1>1, <2>1 DEF Shape
    <2>2. CASE res' = [res EXCEPT ![g] = [Calm EXCEPT !.pc = "look", !.key = k]]
      BY <1>1, <2>2, GoingToLook, Zenon DEF Asker
    <2> QED
      BY <1>2, <2>1, <2>2 DEF GetFirst, GetAgain
  <1> QED
    BY <1>1, <1>5, <1>6, <1>7, <1>8, <1>9, QuietInv, ZenonT(40) DEF Shape

\* SmartClient.delete
LEMMA StampDeleteInv ==
    ASSUME PlanAssumption, TxInv, NEW d \in Deleter, StampDelete(d) PROVE TxInv' /\ Step
  <1>1. UNCHANGED <<db, lag, txn, res, get>> /\ Shape /\ Stamps /\ Columns /\ Runs
    BY Zenon DEF StampDelete, TxInv, Stamps
  <1>2. PICK c \in Coordinator :
           /\ del' = [del EXCEPT ![d] = [pc |-> "stamped", at |-> Stamp(c)]]
           /\ TakeStamp(c)
    BY Zenon DEF StampDelete
  <1>3. /\ Stamp(c) \in Nat /\ run' \in [Coordinator -> [next : Nat, end : Nat]]
        /\ clock' \in Nat
    BY <1>1, <1>2, StampIsNew, Zenon
  <1>4. Shape'
    BY <1>1, <1>2, <1>3, Zenon DEF Shape
  <1>5. \A u \in Txn : /\ txn'[u].start \in Nat /\ txn'[u].commit \in Nat
                       /\ StampsOf(u)' = StampsOf(u) /\ txn'[u].start = txn[u].start
    BY <1>1, Zenon DEF Shape, TxnRecord, StampsOf
  <1>6. Nothing \notin Txn
    BY NothingAssumption DEF Txn
  <1>7. Stamps'
    BY <1>1, <1>2, <1>5, <1>6, StampsNew, ZenonT(40)
  <1>8. Effect /\ LagStep /\ Goings'
    BY <1>1, StillIsEffect, Zenon DEF TxInv, Columns, LagStep, Behind, Goings
  <1>9. Step
    BY <1>1, <1>2, <1>6, <1>8, StepOfOne, ZenonT(40)
  <1> QED
    BY <1>1, <1>4, <1>7, <1>8, <1>9, Whole, ZenonT(40)

\* SmartClient.delete: a tombstone, at a timestamp taken before.
LEMMA DeleteInv ==
    ASSUME PlanAssumption, TxInv, NEW d \in Deleter, Delete(d) PROVE TxInv' /\ Step
  <1>1. UNCHANGED <<lag, clock, run, txn, res, get>> /\ Shape /\ Columns
    BY DEF Delete, TxInv
  <1>2. PICK k \in Key : k = KeyOf[d]
    BY Zenon DEF PlanAssumption
  <1>3. PICK t \in Nat : t = del[d].at
    BY <1>1 DEF Shape
  <1>4. PICK o \in Outcomes(At(k), ApplyDelete(At(k), k, t),
                            ApplyDelete(ApplyDelete(At(k), k, t).m, k, t)) :
           /\ db' = [db EXCEPT ![ShardOf[k]] = o.m]
           /\ del' = [del EXCEPT ![d].pc = IF o.code = "silent" THEN @ ELSE "done"]
    BY <1>2, <1>3, Zenon DEF Delete, Propose
  <1>5. db' \in [Shard -> Machine] /\ Effect
    BY <1>1, <1>4, DeleteEffect, ZenonT(40)
  <1>6. txn' \in [Txn -> TxnRecord] /\ AllQuiet
    BY <1>1, StillTxnsAreQuiet
  <1>7. del' \in [Deleter -> [pc : {"new", "stamped", "done"}, at : Nat]]
    BY <1>1, <1>4 DEF Shape
  <1> QED
    BY <1>1, <1>5, <1>6, <1>7, QuietInv, ZenonT(40) DEF Shape

\* A replica catches up.
LEMMA CatchUpInv ==
    ASSUME PlanAssumption, TxInv, NEW s \in Shard, CatchUp(s) PROVE TxInv' /\ Step
  <1>1. UNCHANGED <<db, clock, run, txn, res, get, del>> /\ Shape /\ Stamps /\ Columns
    BY DEF CatchUp, TxInv
  <1>2. lag' \in [Shard -> Machine] /\ \A z \in Shard : lag'[z] = lag[z] \/ lag'[z] = db[z]
    BY <1>1 DEF CatchUp, Shape
  <1>3. Shape'
    BY <1>1, <1>2 DEF Shape
  <1>4. LagStep
    <2> SUFFICES ASSUME NEW k \in Key PROVE Behind(k)' = Behind(k) \/ Behind(k)' = At(k)
      BY DEF LagStep
    <2>1. ShardOf[k] \in Shard
      BY ZenonT(40) DEF PlanAssumption
    <2> QED
      BY <1>2, <2>1 DEF Behind, At
  <1>5. \A u \in Txn : StampsOf(u)' = StampsOf(u) /\ txn'[u].start = txn[u].start
    BY <1>1 DEF StampsOf
  <1>6. Stamps'
    BY <1>1, <1>5, StampsSame
  <1>7. Effect /\ Goings'
    BY <1>1, StillIsEffect DEF TxInv, Columns, Goings
  <1>8. Nothing \notin Txn
    BY NothingAssumption DEF Txn
  <1>9. Step
    BY <1>1, <1>7, <1>8, StepOfOne, Zenon
  <1> QED
    BY <1>1, <1>3, <1>4, <1>6, <1>7, <1>9, Whole, ZenonT(40)

\* Every action keeps the invariant and is a step.
LEMMA NextInv == ASSUME PlanAssumption, TxInv, [Next]_vars PROVE TxInv' /\ Step
  <1>1. CASE UNCHANGED vars
    BY <1>1, StutterInv
  <1>2. ASSUME NEW t \in Txn, TxnStep(t) \/ Rollback(t) PROVE TxInv' /\ Step
    BY <1>2, MoveInv, ReadOnlyInv, RollbackInv, StampInv, ReadInv, PrewriteKeyInv,
       CommitPrimaryInv, CommitSecondaryInv, UndoInv, ZenonT(40) DEF TxnStep
  <1>3. ASSUME NEW p \in Asker, ResolverStep(p) PROVE TxInv' /\ Step
    BY <1>3, LookInv, AskRecordInv, AskLockInv, AskStampInv, SettleInv, ZenonT(40) DEF ResolverStep
  <1> QED
    BY <1>1, <1>2, <1>3, SweepInv, ExpireInv, GetInv, StampDeleteInv, DeleteInv, CatchUpInv,
       CrashInv, ZenonT(40) DEF Next

-----------------------------------------------------------------------------
(* What follows.                                                            *)

\* The invariant holds in every state that is reached.
LEMMA TxInvariance == ASSUME PlanAssumption PROVE Spec => []TxInv
  <1>1. Init => TxInv
    BY InitInv
  <1>2. TxInv /\ [Next]_vars => TxInv'
    BY NextInv
  <1> QED
    BY <1>1, <1>2, PTL DEF Spec

\* No update is lost: two transactions that wrote a key did not overlap in time, whatever
\* expires, is settled, is proposed twice or is never answered (NoLostUpdate:
\* _apply_prewrite and _apply_commit under coordinators, resolvers and the sweep).
THEOREM UpdatesAreKept == ASSUME PlanAssumption PROVE Spec => []NoLostUpdate
  <1>1. TxInv => NoLostUpdate
    BY DEF TxInv, Columns, RecordsApart, NoLostUpdate, Records
  <1> QED
    BY <1>1, TxInvariance, PTL

\* What is written on any key was decided on the primary, at the same commit timestamp
\* (WritesAreDecided: commit's order of primary and secondaries, and resolve_lock).
THEOREM WritesFollowThePrimary == ASSUME PlanAssumption PROVE Spec => []WritesAreDecided
  <1>1. ASSUME TxInv PROVE WritesAreDecided
    <2> SUFFICES ASSUME NEW t \in Txn, NEW k \in Written(t), NEW w \in RecordOf(t, k)
                 PROVE  \E p \in RecordOf(t, Primary(t)) : p.commit = w.commit
      BY DEF WritesAreDecided
    <2>1. k \in Key /\ Primary(t) \in Key
      BY WrittenAreKeys, WriterHasPrimary
    <2>2. w = RecordBy(t) /\ HasDecided(t)
      BY <1>1, <2>1, RecordOfIs
    <2>3. RecordBy(t) \in RecordOf(t, Primary(t))
      BY <1>1, <2>1, <2>2, RecordByIs, ZenonT(40) DEF HasDecided
    <2> QED
      BY <2>2, <2>3
  <1> QED
    BY <1>1, TxInvariance, PTL

\* Nobody reads a value of a transaction that has not committed, also when the question
\* that settled a lock was answered by a replica that is behind (ReadsAreDecided: get, and
\* resolve_lock's order of questions).
THEOREM ReadsFollowThePrimary == ASSUME PlanAssumption PROVE Spec => []ReadsAreDecided
  <1>1. ASSUME TxInv, NEW k \in Key, NEW v \in Value \cup {Nothing}, ReadOf(v, k), v # Nothing
        PROVE  Decided(v)
    <2>1. v \in Txn /\ RecordBy(v) \in Records(k)
      BY <1>1 DEF ReadOf, Txn
    <2>2. k \in Written(v) /\ HasDecided(v)
      BY <1>1, <2>1, RecordByIs, RecordOfIs
    <2> QED
      BY <1>1, <2>1, <2>2, WriterHasPrimary, DecidedIs, Zenon
  <1>2. ASSUME TxInv PROVE ReadsAreDecided
    <2>1. ASSUME NEW t \in Txn, NEW k \in DOMAIN txn[t].saw, txn[t].saw[k] # Nothing
          PROVE  Decided(txn[t].saw[k])
      <3>1. txn[t].saw \in Seeing /\ ReadOf(txn[t].saw[k], k)
        BY <1>2, ZenonT(40) DEF TxInv, Shape, TxnRecord, Reads
      <3>2. k \in Key /\ txn[t].saw[k] \in Value \cup {Nothing}
        BY <3>1 DEF Seeing
      <3> QED
        BY <1>1, <1>2, <2>1, <3>1, <3>2
    <2>2. ASSUME NEW g \in Getter, get[g].value # Nothing PROVE Decided(get[g].value)
      <3>1. /\ KeyOf[g] \in Key /\ get[g].value \in Value \cup {Nothing}
            /\ ReadOf(get[g].value, KeyOf[g])
        BY <1>2, Zenon DEF TxInv, Shape, Found, Reads, PlanAssumption
      <3> QED
        BY <1>1, <1>2, <2>2, <3>1, ZenonT(40)
    <2> QED
      BY <2>1, <2>2 DEF ReadsAreDecided
  <1> QED
    BY <1>2, TxInvariance, PTL

\* A snapshot read repeated in the same transaction returns the same value, when
\* timestamps are taken in the order in which they are fetched and nothing is deleted
\* (RepeatableRead: read).
THEOREM ReadsRepeat ==
    ASSUME PlanAssumption, InOrder, Deleter = {} PROVE Spec => []RepeatableRead
  <1>1. Init => TxInv /\ Solo /\ Safe
    <2> SUFFICES ASSUME Init PROVE TxInv /\ Solo /\ Safe
      OBVIOUS
    <2>1. TxInv
      BY InitInv
    <2>2. Solo
      <3>1. \A c \in Coordinator : run[c].next = 1 /\ run[c].end = 1
        BY DEF Init
      <3> QED
        BY <3>1 DEF Solo
    <2>3. Safe
      BY <2>1, ZenonT(40) DEF Init, TxInv, Goings, Going, Safe
    <2> QED
      BY <2>1, <2>2, <2>3
  <1>2. TxInv /\ Solo /\ Safe /\ [Next]_vars => (TxInv /\ Solo /\ Safe)'
    BY NextInv, SoloStays, SafeStays
  <1>3. Safe => RepeatableRead
    BY Zenon DEF Safe, SafeAt, RepeatableRead
  <1> QED
    BY <1>1, <1>2, <1>3, PTL DEF Spec

\* Coordinators, resolvers and the sweep implement OneDecision when every proposal is
\* answered and none is made twice: a transaction is decided once, whoever settles its
\* locks, nothing of it shows before, and its client is told what was decided
\* (KeepsPromise: commit, _rollback_all_shards and resolve_lock).
THEOREM OneDecisionIsKept ==
    ASSUME PlanAssumption, ~Timeouts, ~Retries PROVE Spec => KeepsPromise
  <1>1. Init => TxInv /\ AllTold /\ Promise!Init
    <2> SUFFICES ASSUME Init PROVE TxInv /\ AllTold /\ Promise!Init
      OBVIOUS
    <2>1. TxInv
      BY InitInv
    <2>2. \A t \in Txn : txn[t].status = "pending" /\ txn[t].start = 0
      BY Zenon DEF Init
    <2>3. \A t \in Txn : ~Committed(t) /\ ~Decided(t) /\ \A k \in Key : RecordOf(t, k) = {}
      BY <2>2, Zenon DEF Committed, Decided, RecordOf
    <2>4. AllTold
      BY <2>2, <2>3, Zenon DEF AllTold, Told
    <2>5. Promise!Init
      BY <2>2, <2>3, WrittenAreKeys, Zenon DEF Promise!Init
    <2> QED
      BY <2>1, <2>4, <2>5
  <1>2. ASSUME TxInv, AllTold, [Next]_vars
        PROVE  TxInv' /\ AllTold' /\ [Promise!Next]_(Promise!vars)
    <2>1. TxInv' /\ Step
      BY <1>2, NextInv
    <2>2. AllTold'
      BY <1>2, <2>1, ToldStays DEF AllTold
    <2> QED
      BY <1>2, <2>1, <2>2, PromiseStep
  <1> QED
    BY <1>1, <1>2, PTL DEF Spec, KeepsPromise, Promise!Spec
=============================================================================
