------------------------- MODULE IdempotencyProofs -------------------------
(***************************************************************************)
(* The safety properties of the idempotency middleware and its refinement  *)
(* of the key contract, for every set of requests, keys, calls, bodies and *)
(* instances and both teardown orders.                                     *)
(***************************************************************************)
EXTENDS IdempotencyRefinement, TLAPS

\* The initial state satisfies the inductive invariant.
LEMMA InitIInv == Init => IInv
<1> SUFFICES ASSUME Init PROVE IInv
  OBVIOUS
<1> USE DEF Init
<1>1. TypeOK
  BY DEF TypeOK, PC, Outcome, Replies, NoReply
<1>2. HolderIsRunning /\ RunningHolds /\ HeldKeyHasNoRow /\ RowDescribesExecution
  BY DEF HolderIsRunning, RunningHolds, HeldKeyHasNoRow, RowDescribesExecution, InRouter
<1>3. AnswerDescribesExecution /\ ReplayMatchesRequest
  BY DEF AnswerDescribesExecution, ReplayMatchesRequest, NoReply
<1>4. AnsweredIsKept /\ AnswerIsKnown /\ NothingBeforeAcquire
  BY DEF AnsweredIsKept, AnswerIsKnown, NothingBeforeAcquire
<1> QED
  BY <1>1, <1>2, <1>3, <1>4 DEF IInv

\* Every step keeps every variable within its type.
LEMMA NextTypeOK == TypeOK /\ [Next]_vars => TypeOK'
<1> SUFFICES ASSUME TypeOK, [Next]_vars PROVE TypeOK'
  OBVIOUS
<1> USE NoneAssumption DEF TypeOK, PC, Outcome, Replies, Args
<1>1. ASSUME NEW r \in Requests, NEW k \in Keys, NEW c \in Calls, NEW b \in Bodies,
             NEW i \in Instances, Arrive(r, k, c, b, i)
      PROVE  TypeOK'
  BY <1>1 DEF Arrive, Goto
<1>2. ASSUME NEW r \in Requests, TryAcquire(r) PROVE TypeOK'
  <2>1. args[r] \in Args
    BY <1>2 DEF TryAcquire
  <2>2. pc' \in [Requests -> PC] /\ biz' \in [Requests -> {"none", "open", "committed", "rolledback"}]
    BY <1>2 DEF TryAcquire
  <2>3. holder' \in [Keys -> Requests \cup {None}]
    BY <1>2, <2>1 DEF TryAcquire, Key
  <2>4. \A q \in Requests : pc'[q] # "idle" => args'[q] # None
    BY <1>2, <2>1 DEF TryAcquire
  <2> QED
    BY <1>2, <2>2, <2>3, <2>4 DEF TryAcquire
<1>3. ASSUME NEW r \in Requests, AnswerConflict(r) PROVE TypeOK'
  <2> DEFINE row == rec[Key(r)]
             code == ConflictCode(args[r], row)
  <2>1. code \in {"ID001", "ID002", "ID003", "cached"}
    BY DEF ConflictCode
  <2>2. code = "cached" => row.by \in Requests
    <3>1. args[r] \in Args
      BY <1>3 DEF AnswerConflict, Goto
    <3>2. row \in Records \cup {None}
      BY <3>1 DEF Key
    <3> QED
      BY <3>2 DEF ConflictCode, Records
  <2>3. reply' \in [Requests -> Replies]
    <3>1. CASE code = "cached"
      BY <1>3, <2>2, <3>1 DEF AnswerConflict, Answer
    <3>2. CASE code # "cached"
      BY <1>3, <2>1, <3>2 DEF AnswerConflict, Answer
    <3> QED
      BY <3>1, <3>2
  <2> QED
    BY <1>3, <2>3 DEF AnswerConflict, Goto
<1>4. ASSUME NEW r \in Requests, RouterSucceeds(r) PROVE TypeOK'
  BY <1>4 DEF RouterSucceeds, Goto
<1>5. ASSUME NEW r \in Requests, NEW code \in {"rejected", "error"}, RouterRefuses(r, code)
      PROVE  TypeOK'
  BY <1>5 DEF RouterRefuses, Goto
<1>6. ASSUME NEW r \in Requests, RouterRaises(r) PROVE TypeOK'
  BY <1>6 DEF RouterRaises, Goto
<1>7. ASSUME NEW r \in Requests, MarkCompleted(r) PROVE TypeOK'
  BY <1>7 DEF MarkCompleted, Goto
<1>8. ASSUME NEW r \in Requests, CommitRecord(r) PROVE TypeOK'
  BY <1>8 DEF CommitRecord, Answer, FreeKeysOf, Key, Records
<1>9. ASSUME NEW r \in Requests, StoreFails(r) PROVE TypeOK'
  BY <1>9 DEF StoreFails
<1>10. ASSUME NEW r \in Requests, ReleaseOnError(r) PROVE TypeOK'
  BY <1>10 DEF ReleaseOnError, Goto, Answer, FreeKeysOf
<1>11. ASSUME NEW r \in Requests, Unwind(r) PROVE TypeOK'
  BY <1>11 DEF Unwind, Goto, Answer, FreeKeysOf
<1>12. ASSUME NEW r \in Requests, Teardown(r) PROVE TypeOK'
  BY <1>12 DEF Teardown, TeardownCommits, TeardownRaises, TeardownDue
<1>13. ASSUME NEW r \in Requests, LoseConnection(r) PROVE TypeOK'
  BY <1>13 DEF LoseConnection, FreeKeysOf
<1>14. ASSUME NEW i \in Instances, Crash(i) PROVE TypeOK'
  BY <1>14 DEF Crash, FreeKeysOf, RunsOn
<1>15. ASSUME NEW k \in Keys, Expire(k) PROVE TypeOK'
  <2>1. rec[k] \in Records
    BY <1>15 DEF Expire
  <2>2. [rec[k] EXCEPT !.expired = TRUE] \in Records
    BY <2>1 DEF Records
  <2>3. rec' \in [Keys -> Records \cup {None}]
    BY <1>15, <2>2 DEF Expire
  <2> QED
    BY <1>15, <2>3 DEF Expire
<1>16. CASE CleanupExpired
  <2>1. \A k \in ExpiredKeys : rec[k].by \in Requests
    BY DEF ExpiredKeys, Records
  <2>2. purged' \subseteq Requests
    BY <1>16, <2>1 DEF CleanupExpired
  <2> QED
    BY <1>16, <2>2 DEF CleanupExpired
<1>17. CASE UNCHANGED vars
  BY <1>17 DEF vars
<1> HIDE DEF TypeOK, PC, Outcome, Replies, Args
<1> QED
  BY <1>1, <1>2, <1>3, <1>4, <1>5, <1>6, <1>7, <1>8, <1>9, <1>10, <1>11, <1>12,
     <1>13, <1>14, <1>15, <1>16, <1>17 DEF Next, Serve

\* The part of the inductive invariant that is not about types
Rest ==
    /\ HolderIsRunning
    /\ RunningHolds
    /\ HeldKeyHasNoRow
    /\ RowDescribesExecution
    /\ AnswerDescribesExecution
    /\ ReplayMatchesRequest
    /\ AnsweredIsKept
    /\ AnswerIsKnown
    /\ NothingBeforeAcquire

\* Every step preserves the invariant: the holder of a key changes only by the
\* insert, the end of the holder's transaction, and faults that end it.
LEMMA NextRest == IInv /\ [Next]_vars => Rest'
<1> SUFFICES ASSUME IInv, [Next]_vars PROVE Rest'
  OBVIOUS
<1> TypeOK'
  BY NextTypeOK DEF IInv
<1> USE NoneAssumption DEF IInv, TypeOK, PC, Args, Records, Replies, Outcome, Key,
                           InMiddlewareTx, InRouter, Ended
<1>1. ASSUME NEW r \in Requests, NEW k \in Keys, NEW c \in Calls, NEW b \in Bodies,
             NEW i \in Instances, Arrive(r, k, c, b, i)
      PROVE  Rest'
  <2>1. (HolderIsRunning /\ RunningHolds /\ HeldKeyHasNoRow)'
    BY <1>1 DEF Arrive, Goto, HolderIsRunning, RunningHolds, HeldKeyHasNoRow
  <2>2. (RowDescribesExecution /\ AnswerDescribesExecution /\ ReplayMatchesRequest)'
    BY <1>1 DEF Arrive, Goto, RowDescribesExecution, AnswerDescribesExecution,
           ReplayMatchesRequest
  <2>3. AnsweredIsKept'
    BY <1>1 DEF Arrive, Goto, AnsweredIsKept, Kept, NothingBeforeAcquire
  <2>4. (AnswerIsKnown /\ NothingBeforeAcquire)'
    BY <1>1 DEF Arrive, Goto, AnswerIsKnown, NothingBeforeAcquire
  <2> QED
    BY <2>1, <2>2, <2>3, <2>4 DEF Rest
<1>2. ASSUME NEW r \in Requests, TryAcquire(r) PROVE Rest'
  <2>1. HolderIsRunning'
    <3>1. args[r] \in Args
      BY <1>2 DEF TryAcquire
    <3>2. CASE rec[args[r].key] = None
      <4>1. holder' = [holder EXCEPT ![args[r].key] = r]
        BY <1>2, <3>2 DEF TryAcquire
      <4> QED
        BY <1>2, <3>1, <3>2, <4>1 DEF TryAcquire, HolderIsRunning,
                                               NothingBeforeAcquire
    <3>3. CASE rec[args[r].key] # None
      BY <1>2, <3>3 DEF TryAcquire, HolderIsRunning
    <3> QED
      BY <3>2, <3>3
  <2>2. (RunningHolds /\ HeldKeyHasNoRow)'
    BY <1>2 DEF TryAcquire, RunningHolds, HeldKeyHasNoRow
  <2>3. (RowDescribesExecution /\ AnswerDescribesExecution /\ ReplayMatchesRequest)'
    <3>1. RowDescribesExecution'
      BY <1>2 DEF TryAcquire, RowDescribesExecution
    <3>2. AnswerDescribesExecution'
      BY <1>2 DEF TryAcquire, AnswerDescribesExecution
    <3>3. ReplayMatchesRequest'
      BY <1>2 DEF TryAcquire, ReplayMatchesRequest
    <3> QED
      BY <3>1, <3>2, <3>3
  <2>4. AnsweredIsKept'
    BY <1>2 DEF TryAcquire, AnsweredIsKept, Kept, NothingBeforeAcquire
  <2>5. (AnswerIsKnown /\ NothingBeforeAcquire)'
    BY <1>2 DEF TryAcquire, AnswerIsKnown, NothingBeforeAcquire
  <2> QED
    BY <2>1, <2>2, <2>3, <2>4, <2>5 DEF Rest
<1>3. ASSUME NEW r \in Requests, AnswerConflict(r) PROVE Rest'
  <2>1. (HolderIsRunning /\ RunningHolds /\ HeldKeyHasNoRow)'
    BY <1>3 DEF AnswerConflict, Goto, Answer, ConflictCode, HolderIsRunning,
           RunningHolds, HeldKeyHasNoRow
  <2>2. (RowDescribesExecution /\ AnswerDescribesExecution /\ ReplayMatchesRequest)'
    BY <1>3 DEF AnswerConflict, Goto, Answer, ConflictCode, RowDescribesExecution,
           AnswerDescribesExecution, ReplayMatchesRequest
  <2>3. AnsweredIsKept'
    BY <1>3 DEF AnswerConflict, Goto, Answer, ConflictCode, AnsweredIsKept, Kept,
           NothingBeforeAcquire
  <2>4. (AnswerIsKnown /\ NothingBeforeAcquire)'
    BY <1>3 DEF AnswerConflict, Goto, Answer, ConflictCode, AnswerIsKnown,
           NothingBeforeAcquire
  <2> QED
    BY <2>1, <2>2, <2>3, <2>4 DEF Rest
<1>4. ASSUME NEW r \in Requests, RouterSucceeds(r) PROVE Rest'
  <2>1. (HolderIsRunning /\ RunningHolds /\ HeldKeyHasNoRow)'
    BY <1>4 DEF RouterSucceeds, Goto, HolderIsRunning, RunningHolds, HeldKeyHasNoRow
  <2>2. (RowDescribesExecution /\ AnswerDescribesExecution /\ ReplayMatchesRequest)'
    BY <1>4 DEF RouterSucceeds, Goto, RowDescribesExecution, AnswerDescribesExecution,
           ReplayMatchesRequest
  <2>3. AnsweredIsKept'
    BY <1>4 DEF RouterSucceeds, Goto, AnsweredIsKept, Kept, NothingBeforeAcquire
  <2>4. (AnswerIsKnown /\ NothingBeforeAcquire)'
    BY <1>4 DEF RouterSucceeds, Goto, AnswerIsKnown, NothingBeforeAcquire
  <2> QED
    BY <2>1, <2>2, <2>3, <2>4 DEF Rest
<1>5. ASSUME NEW r \in Requests, NEW code \in {"rejected", "error"}, RouterRefuses(r, code)
      PROVE  Rest'
  <2>1. (HolderIsRunning /\ RunningHolds /\ HeldKeyHasNoRow)'
    BY <1>5 DEF RouterRefuses, Goto, HolderIsRunning, RunningHolds, HeldKeyHasNoRow
  <2>2. (RowDescribesExecution /\ AnswerDescribesExecution /\ ReplayMatchesRequest)'
    BY <1>5 DEF RouterRefuses, Goto, RowDescribesExecution, AnswerDescribesExecution,
           ReplayMatchesRequest
  <2>3. AnsweredIsKept'
    BY <1>5 DEF RouterRefuses, Goto, AnsweredIsKept, Kept, NothingBeforeAcquire
  <2>4. (AnswerIsKnown /\ NothingBeforeAcquire)'
    BY <1>5 DEF RouterRefuses, Goto, AnswerIsKnown, NothingBeforeAcquire
  <2> QED
    BY <2>1, <2>2, <2>3, <2>4 DEF Rest
<1>6. ASSUME NEW r \in Requests, RouterRaises(r) PROVE Rest'
  <2>1. (HolderIsRunning /\ RunningHolds /\ HeldKeyHasNoRow)'
    BY <1>6 DEF RouterRaises, Goto, HolderIsRunning, RunningHolds, HeldKeyHasNoRow
  <2>2. (RowDescribesExecution /\ AnswerDescribesExecution /\ ReplayMatchesRequest)'
    BY <1>6 DEF RouterRaises, Goto, RowDescribesExecution, AnswerDescribesExecution,
           ReplayMatchesRequest
  <2>3. AnsweredIsKept'
    BY <1>6 DEF RouterRaises, Goto, AnsweredIsKept, Kept, NothingBeforeAcquire
  <2>4. (AnswerIsKnown /\ NothingBeforeAcquire)'
    BY <1>6 DEF RouterRaises, Goto, AnswerIsKnown, NothingBeforeAcquire
  <2> QED
    BY <2>1, <2>2, <2>3, <2>4 DEF Rest
<1>7. ASSUME NEW r \in Requests, MarkCompleted(r) PROVE Rest'
  <2>1. (HolderIsRunning /\ RunningHolds /\ HeldKeyHasNoRow)'
    BY <1>7 DEF MarkCompleted, Goto, HolderIsRunning, RunningHolds, HeldKeyHasNoRow
  <2>2. (RowDescribesExecution /\ AnswerDescribesExecution /\ ReplayMatchesRequest)'
    BY <1>7 DEF MarkCompleted, Goto, RowDescribesExecution, AnswerDescribesExecution,
           ReplayMatchesRequest
  <2>3. AnsweredIsKept'
    BY <1>7 DEF MarkCompleted, Goto, AnsweredIsKept, Kept, NothingBeforeAcquire
  <2>4. (AnswerIsKnown /\ NothingBeforeAcquire)'
    BY <1>7 DEF MarkCompleted, Goto, AnswerIsKnown, NothingBeforeAcquire
  <2> QED
    BY <2>1, <2>2, <2>3, <2>4 DEF Rest
<1>8. ASSUME NEW r \in Requests, CommitRecord(r) PROVE Rest'
  <2>1. (HolderIsRunning /\ RunningHolds /\ HeldKeyHasNoRow)'
    BY <1>8 DEF CommitRecord, FreeKeysOf, Answer, HolderIsRunning, RunningHolds,
           HeldKeyHasNoRow
  <2>2. RowDescribesExecution'
    BY <1>8 DEF CommitRecord, FreeKeysOf, Answer, RowDescribesExecution, AnswerIsKnown
  <2>3. AnswerDescribesExecution'
    <3>1. ~Ended(r)
      BY <1>8 DEF CommitRecord
    <3>2. Ended(r)' /\ \A q \in Requests \ {r} : pc'[q] = pc[q]
      BY <1>8 DEF CommitRecord
    <3>3. CASE pc' = [pc EXCEPT ![r] = "done"] /\ Answer(r, out[r], r)
      <4>1. \A q \in Requests \ {r} : reply'[q] = reply[q]
        BY <3>3 DEF Answer
      <4>2. pc'[r] = "done" /\ reply'[r].by = r
        BY <3>3 DEF Answer
      <4> QED
        BY <3>1, <3>2, <4>1, <4>2 DEF AnswerDescribesExecution
    <3>4. CASE reply' = reply
      BY <3>1, <3>2, <3>4 DEF AnswerDescribesExecution
    <3> QED
      BY <1>8, <3>3, <3>4 DEF CommitRecord
  <2>4. ReplayMatchesRequest'
    BY <1>8 DEF CommitRecord, FreeKeysOf, Answer, ReplayMatchesRequest,
           AnswerDescribesExecution, AnswerIsKnown
  <2>5. AnsweredIsKept'
    <3>1. args[r] \in Args /\ holder[Key(r)] = r
      BY <1>8 DEF CommitRecord, RunningHolds
    <3>2. rec[Key(r)] = None
      BY <3>1 DEF HeldKeyHasNoRow
    <3>3. rec'[Key(r)] \in Records /\ rec'[Key(r)].by = r
      BY <1>8, <3>1 DEF CommitRecord
    <3>4. rec'[Key(r)] # None
      BY <3>3 DEF Records
    <3>5. \A j \in Keys \ {Key(r)} : rec'[j] = rec[j]
      BY <1>8 DEF CommitRecord
    <3>6. \A q \in Requests \ {r} : pc'[q] = pc[q] /\ reply'[q] = reply[q]
      BY <1>8 DEF CommitRecord, Answer
    <3>7. ASSUME NEW q \in Requests,
                 (pc[q] = "done" /\ biz[q] # "none" /\ reply[q].code # "error")'
          PROVE  Kept(q)'
      <4>1. CASE q = r
        BY <1>8, <3>3, <3>4, <4>1 DEF CommitRecord, Kept
      <4>2. CASE q # r
        <5>1. Kept(q) /\ Key(q) \in Keys
          BY <1>8, <3>6, <3>7, <4>2 DEF CommitRecord, AnsweredIsKept
        <5>2. q \in purged \/ Key(q) # Key(r)
          BY <3>2, <5>1 DEF Kept
        <5> QED
          BY <1>8, <3>5, <5>1, <5>2 DEF CommitRecord, Kept
      <4> QED
        BY <4>1, <4>2
    <3> QED
      BY <3>7 DEF AnsweredIsKept
  <2>6. (AnswerIsKnown /\ NothingBeforeAcquire)'
    BY <1>8 DEF CommitRecord, FreeKeysOf, Answer, AnswerIsKnown, NothingBeforeAcquire
  <2> QED
    BY <2>1, <2>2, <2>3, <2>4, <2>5, <2>6 DEF Rest
<1>9. ASSUME NEW r \in Requests, StoreFails(r) PROVE Rest'
  <2>1. (HolderIsRunning /\ RunningHolds /\ HeldKeyHasNoRow)'
    BY <1>9 DEF StoreFails, HolderIsRunning, RunningHolds, HeldKeyHasNoRow
  <2>2. (RowDescribesExecution /\ AnswerDescribesExecution /\ ReplayMatchesRequest)'
    BY <1>9 DEF StoreFails, RowDescribesExecution, AnswerDescribesExecution,
           ReplayMatchesRequest
  <2>3. AnsweredIsKept'
    BY <1>9 DEF StoreFails, AnsweredIsKept, Kept, NothingBeforeAcquire
  <2>4. (AnswerIsKnown /\ NothingBeforeAcquire)'
    BY <1>9 DEF StoreFails, AnswerIsKnown, NothingBeforeAcquire
  <2> QED
    BY <2>1, <2>2, <2>3, <2>4 DEF Rest
<1>10. ASSUME NEW r \in Requests, ReleaseOnError(r) PROVE Rest'
  <2>1. (HolderIsRunning /\ RunningHolds /\ HeldKeyHasNoRow)'
    BY <1>10 DEF ReleaseOnError, Goto, Answer, FreeKeysOf, HolderIsRunning, RunningHolds,
           HeldKeyHasNoRow
  <2>2. (RowDescribesExecution /\ AnswerDescribesExecution /\ ReplayMatchesRequest)'
    BY <1>10 DEF ReleaseOnError, Goto, Answer, FreeKeysOf, RowDescribesExecution,
           AnswerDescribesExecution, ReplayMatchesRequest
  <2>3. AnsweredIsKept'
    BY <1>10 DEF ReleaseOnError, Goto, Answer, FreeKeysOf, AnsweredIsKept, Kept,
           NothingBeforeAcquire
  <2>4. (AnswerIsKnown /\ NothingBeforeAcquire)'
    BY <1>10 DEF ReleaseOnError, Goto, Answer, FreeKeysOf, AnswerIsKnown,
           NothingBeforeAcquire
  <2> QED
    BY <2>1, <2>2, <2>3, <2>4 DEF Rest
<1>11. ASSUME NEW r \in Requests, Unwind(r) PROVE Rest'
  <2>1. (HolderIsRunning /\ RunningHolds /\ HeldKeyHasNoRow)'
    BY <1>11 DEF Unwind, Goto, Answer, FreeKeysOf, HolderIsRunning, RunningHolds,
           HeldKeyHasNoRow
  <2>2. (RowDescribesExecution /\ AnswerDescribesExecution /\ ReplayMatchesRequest)'
    BY <1>11 DEF Unwind, Goto, Answer, FreeKeysOf, RowDescribesExecution,
           AnswerDescribesExecution, ReplayMatchesRequest
  <2>3. AnsweredIsKept'
    BY <1>11 DEF Unwind, Goto, Answer, FreeKeysOf, AnsweredIsKept, Kept,
           NothingBeforeAcquire
  <2>4. (AnswerIsKnown /\ NothingBeforeAcquire)'
    BY <1>11 DEF Unwind, Goto, Answer, FreeKeysOf, AnswerIsKnown, NothingBeforeAcquire
  <2> QED
    BY <2>1, <2>2, <2>3, <2>4 DEF Rest
<1>12. ASSUME NEW r \in Requests, Teardown(r) PROVE Rest'
  <2>1. (HolderIsRunning /\ RunningHolds /\ HeldKeyHasNoRow)'
    BY <1>12 DEF Teardown, TeardownCommits, TeardownRaises, TeardownDue, HolderIsRunning,
           RunningHolds, HeldKeyHasNoRow
  <2>2. (RowDescribesExecution /\ AnswerDescribesExecution /\ ReplayMatchesRequest)'
    BY <1>12 DEF Teardown, TeardownCommits, TeardownRaises, TeardownDue,
           RowDescribesExecution, AnswerDescribesExecution, ReplayMatchesRequest
  <2>3. AnsweredIsKept'
    BY <1>12 DEF Teardown, TeardownCommits, TeardownRaises, TeardownDue, AnsweredIsKept,
           Kept, NothingBeforeAcquire
  <2>4. (AnswerIsKnown /\ NothingBeforeAcquire)'
    BY <1>12 DEF Teardown, TeardownCommits, TeardownRaises, TeardownDue, AnswerIsKnown,
           NothingBeforeAcquire
  <2> QED
    BY <2>1, <2>2, <2>3, <2>4 DEF Rest
<1>13. ASSUME NEW r \in Requests, LoseConnection(r) PROVE Rest'
  <2>1. (HolderIsRunning /\ RunningHolds /\ HeldKeyHasNoRow)'
    BY <1>13 DEF LoseConnection, FreeKeysOf, HolderIsRunning, RunningHolds,
           HeldKeyHasNoRow
  <2>2. (RowDescribesExecution /\ AnswerDescribesExecution /\ ReplayMatchesRequest)'
    BY <1>13 DEF LoseConnection, FreeKeysOf, RowDescribesExecution,
           AnswerDescribesExecution, ReplayMatchesRequest
  <2>3. AnsweredIsKept'
    BY <1>13 DEF LoseConnection, FreeKeysOf, AnsweredIsKept, Kept, NothingBeforeAcquire
  <2>4. (AnswerIsKnown /\ NothingBeforeAcquire)'
    BY <1>13 DEF LoseConnection, FreeKeysOf, AnswerIsKnown, NothingBeforeAcquire
  <2> QED
    BY <2>1, <2>2, <2>3, <2>4 DEF Rest
<1>14. ASSUME NEW i \in Instances, Crash(i) PROVE Rest'
  <2>1. (HolderIsRunning /\ RunningHolds /\ HeldKeyHasNoRow)'
    BY <1>14 DEF Crash, RunsOn, FreeKeysOf, HolderIsRunning, RunningHolds,
           HeldKeyHasNoRow
  <2>2. (RowDescribesExecution /\ AnswerDescribesExecution /\ ReplayMatchesRequest)'
    BY <1>14 DEF Crash, RunsOn, FreeKeysOf, RowDescribesExecution,
           AnswerDescribesExecution, ReplayMatchesRequest
  <2>3. AnsweredIsKept'
    BY <1>14 DEF Crash, RunsOn, FreeKeysOf, AnsweredIsKept, Kept, NothingBeforeAcquire
  <2>4. (AnswerIsKnown /\ NothingBeforeAcquire)'
    BY <1>14 DEF Crash, RunsOn, FreeKeysOf, AnswerIsKnown, NothingBeforeAcquire
  <2> QED
    BY <2>1, <2>2, <2>3, <2>4 DEF Rest
<1>15. ASSUME NEW k \in Keys, Expire(k) PROVE Rest'
  <2>1. (HolderIsRunning /\ RunningHolds /\ HeldKeyHasNoRow)'
    BY <1>15 DEF Expire, HolderIsRunning, RunningHolds, HeldKeyHasNoRow
  <2>2. (RowDescribesExecution /\ AnswerDescribesExecution /\ ReplayMatchesRequest)'
    BY <1>15 DEF Expire, RowDescribesExecution, AnswerDescribesExecution,
           ReplayMatchesRequest
  <2>3. AnsweredIsKept'
    <3>1. rec'[k] \in Records /\ rec'[k].by = rec[k].by
      <4>1. rec[k] \in Records
        BY <1>15 DEF Expire
      <4>2. rec'[k] = [rec[k] EXCEPT !.expired = TRUE]
        BY <1>15 DEF Expire
      <4> QED
        BY <4>1, <4>2
    <3>2. rec'[k] # None
      BY <3>1 DEF Records
    <3>3. \A j \in Keys \ {k} : rec'[j] = rec[j]
      BY <1>15 DEF Expire
    <3>4. \A q \in Requests : pc[q] = "done" => Key(q) \in Keys
      OBVIOUS
    <3> QED
      BY <1>15, <3>1, <3>2, <3>3, <3>4 DEF Expire, AnsweredIsKept, Kept
  <2>4. (AnswerIsKnown /\ NothingBeforeAcquire)'
    BY <1>15 DEF Expire, AnswerIsKnown, NothingBeforeAcquire
  <2> QED
    BY <2>1, <2>2, <2>3, <2>4 DEF Rest
<1>16. CASE CleanupExpired
  <2>1. (HolderIsRunning /\ RunningHolds /\ HeldKeyHasNoRow)'
    BY <1>16 DEF CleanupExpired, ExpiredKeys, HolderIsRunning, RunningHolds,
           HeldKeyHasNoRow
  <2>2. (RowDescribesExecution /\ AnswerDescribesExecution /\ ReplayMatchesRequest)'
    BY <1>16 DEF CleanupExpired, ExpiredKeys, RowDescribesExecution,
           AnswerDescribesExecution, ReplayMatchesRequest
  <2>3. AnsweredIsKept'
    BY <1>16 DEF CleanupExpired, ExpiredKeys, AnsweredIsKept, Kept, NothingBeforeAcquire
  <2>4. (AnswerIsKnown /\ NothingBeforeAcquire)'
    BY <1>16 DEF CleanupExpired, ExpiredKeys, AnswerIsKnown, NothingBeforeAcquire
  <2> QED
    BY <2>1, <2>2, <2>3, <2>4 DEF Rest
<1>17. CASE UNCHANGED vars
  <2>1. (HolderIsRunning /\ RunningHolds /\ HeldKeyHasNoRow)'
    BY <1>17 DEF vars, HolderIsRunning, RunningHolds, HeldKeyHasNoRow
  <2>2. (RowDescribesExecution /\ AnswerDescribesExecution /\ ReplayMatchesRequest)'
    BY <1>17 DEF vars, RowDescribesExecution, AnswerDescribesExecution, ReplayMatchesRequest
  <2>3. (AnsweredIsKept /\ AnswerIsKnown /\ NothingBeforeAcquire)'
    BY <1>17 DEF vars, AnsweredIsKept, Kept, AnswerIsKnown, NothingBeforeAcquire
  <2> QED
    BY <2>1, <2>2, <2>3 DEF Rest
<1> QED
  BY <1>1, <1>2, <1>3, <1>4, <1>5, <1>6, <1>7, <1>8, <1>9, <1>10, <1>11, <1>12, <1>13,
     <1>14, <1>15, <1>16, <1>17 DEF Next, Serve

\* The inductive invariant holds in every reachable state.
THEOREM Invariance == Spec => []IInv
<1>1. IInv /\ [Next]_vars => IInv'
  BY NextTypeOK, NextRest DEF IInv, Rest
<1> QED
  BY InitIInv, <1>1, PTL DEF Spec

\* Type correctness of the middleware's state.
THEOREM Typing == Spec => []TypeOK
<1>1. IInv => TypeOK
  BY DEF IInv
<1> QED
  BY Invariance, <1>1, PTL

\* The uncommitted record is a lock: executions of one key never overlap while
\* their connections live, because both would have to be the holder.
THEOREM Exclusion == Spec => []OneExecutionPerKey
<1>1. IInv => OneExecutionPerKey
  BY DEF IInv, RunningHolds, OneExecutionPerKey
<1> QED
  BY Invariance, <1>1, PTL

\* No reader ever meets a PENDING record, so cleanup_expired cannot take the
\* record of a running request.
THEOREM PendingInvisible == Spec => []NoPendingRowVisible
<1>1. IInv => NoPendingRowVisible
  BY DEF IInv, RowDescribesExecution, NoPendingRowVisible
<1> QED
  BY Invariance, <1>1, PTL

\* A stored answer goes only to requests with the key, path and body it was given to.
THEOREM ReplaySound == Spec => []ReplayMatchesRequest
<1>1. IInv => ReplayMatchesRequest
  BY DEF IInv
<1> QED
  BY Invariance, <1>1, PTL

\* A committed effect whose execution neither failed unrecorded nor had its
\* record purged is tied to its key: by the index entry or by the committed row.
LEMMA EffectIsTied ==
    ASSUME IInv, NEW r \in Requests, biz[r] = "committed",
           ~(Failed(r) /\ ~Kept(r)), r \notin purged
    PROVE  holder[Key(r)] = r \/ (rec[Key(r)] # None /\ rec[Key(r)].by = r)
<1>1. CASE Kept(r)
  BY <1>1 DEF Kept
<1>2. CASE ~Kept(r)
  <2>1. ~Failed(r)
    BY <1>2
  <2>2. pc[r] # "done"
    BY <1>2, <2>1 DEF IInv, AnsweredIsKept, Failed
  <2>3. InRouter(r) /\ r \notin lost
    BY <2>1, <2>2 DEF IInv, TypeOK, PC, NothingBeforeAcquire, InRouter, Failed
  <2> QED
    BY <2>3 DEF IInv, RunningHolds
<1> QED
  BY <1>1, <1>2

\* At most one committed effect per key outside the admitted windows: a held key
\* has no row, so two tied effects of one key are the same one.
THEOREM AtMostOneEffect == Spec => []OneEffectPerKey
<1>1. IInv => OneEffectPerKey
  <2> SUFFICES ASSUME IInv, NEW q \in Requests, NEW r \in Requests, q # r,
                      biz[q] = "committed", biz[r] = "committed", Key(q) = Key(r),
                      ~(Failed(q) /\ ~Kept(q)), q \notin purged,
                      ~(Failed(r) /\ ~Kept(r)), r \notin purged
               PROVE  FALSE
    BY DEF OneEffectPerKey
  <2>1. Key(r) \in Keys
    BY DEF IInv, TypeOK, Args, PC, Key, NothingBeforeAcquire
  <2>2. holder[Key(r)] # None => rec[Key(r)] = None
    BY <2>1 DEF IInv, HeldKeyHasNoRow
  <2>3. q # None /\ r # None
    BY NoneAssumption
  <2> QED
    BY EffectIsTied, <2>2, <2>3
<1> QED
  BY Invariance, <1>1, PTL

-----------------------------------------------------------------------------
(* Refusals and durable answers *)

\* A request that met a committed row still meets it, or the cleanup has been there
CleanupRemembers ==
    /\ \A e \in purged : pc[e] # "idle"
    /\ \A r \in Requests : pc[r] = "conflict" =>
         rec[Key(r)] # None \/ \E e \in purged : Key(e) = Key(r)

\* Where get_db commits before the response leaves, a success that goes on is committed
CommitPrecedes ==
    TeardownFirst =>
        /\ \A r \in Requests :
             /\ pc[r] = "router" => biz[r] = "open"
             /\ pc[r] = "respond" /\ out[r] = "ok" => biz[r] \in {"open", "committed"}
             /\ pc[r] = "marked" /\ out[r] = "ok" => biz[r] = "committed"
             /\ reply[r].code = "ok" => reply[r].by \in Requests /\ biz[reply[r].by] = "committed"
        /\ \A k \in Keys : rec[k] # None /\ out[rec[k].by] = "ok" => biz[rec[k].by] = "committed"

\* Only the cleanup takes a committed row away, and it remembers whose it was.
LEMMA NextCleanupRemembers == IInv /\ CleanupRemembers /\ [Next]_vars => CleanupRemembers'
<1> SUFFICES ASSUME IInv, CleanupRemembers, [Next]_vars PROVE CleanupRemembers'
  OBVIOUS
<1> USE DEF CleanupRemembers, IInv, TypeOK, PC, Args, Key
<1>1. ASSUME NEW r \in Requests, NEW k \in Keys, NEW c \in Calls, NEW b \in Bodies,
             NEW i \in Instances, Arrive(r, k, c, b, i)
      PROVE  CleanupRemembers'
  BY <1>1 DEF Arrive, Goto
<1>2. ASSUME NEW r \in Requests, TryAcquire(r) PROVE CleanupRemembers'
  BY <1>2 DEF TryAcquire
<1>3. ASSUME NEW r \in Requests, AnswerConflict(r) PROVE CleanupRemembers'
  BY <1>3 DEF AnswerConflict, Goto
<1>4. ASSUME NEW r \in Requests, RouterSucceeds(r) \/ RouterRaises(r) \/ \E code : RouterRefuses(r, code)
      PROVE  CleanupRemembers'
  BY <1>4 DEF RouterSucceeds, RouterRefuses, RouterRaises, Goto
<1>5. ASSUME NEW r \in Requests, MarkCompleted(r) \/ StoreFails(r) PROVE CleanupRemembers'
  BY <1>5 DEF MarkCompleted, StoreFails, Goto
<1>6. ASSUME NEW r \in Requests, CommitRecord(r) PROVE CleanupRemembers'
  <2>0. args[r] \in Args
    BY <1>6 DEF CommitRecord
  <2> DEFINE row == [status |-> "COMPLETED", call |-> args[r].call, body |-> args[r].body,
                     by |-> r, expired |-> FALSE]
  <2>a. row \in Records
    BY <2>0 DEF Records
  <2>b. rec' = [rec EXCEPT ![args[r].key] = row]
    BY <1>6 DEF CommitRecord
  <2> HIDE DEF row
  <2>c. \A k \in Keys : rec[k] # None => rec'[k] # None
    BY <2>a, <2>b, NoneAssumption DEF Records
  <2>d. \A q \in Requests : pc'[q] = pc[q] \/ pc'[q] \in {"done", "unwind"}
    BY <1>6 DEF CommitRecord
  <2>1. /\ \A k \in Keys : rec[k] # None => rec'[k] # None
        /\ purged' = purged /\ args' = args
        /\ \A q \in Requests : pc'[q] = pc[q] \/ pc'[q] \in {"done", "unwind"}
    BY <1>6, <2>c, <2>d DEF CommitRecord
  <2>2. \A q \in Requests : pc'[q] = "conflict" => pc[q] = "conflict" /\ args[q].key \in Keys
    BY <2>1, NoneAssumption
  <2> QED
    BY <2>1, <2>2
<1>7. ASSUME NEW r \in Requests, ReleaseOnError(r) \/ Unwind(r) PROVE CleanupRemembers'
  BY <1>7 DEF ReleaseOnError, Unwind, Goto
<1>8. ASSUME NEW r \in Requests, Teardown(r) PROVE CleanupRemembers'
  BY <1>8 DEF Teardown, TeardownCommits, TeardownRaises, TeardownDue
<1>9. ASSUME NEW r \in Requests, LoseConnection(r) PROVE CleanupRemembers'
  BY <1>9 DEF LoseConnection
<1>10. ASSUME NEW i \in Instances, Crash(i) PROVE CleanupRemembers'
  BY <1>10 DEF Crash, RunsOn
<1>11. ASSUME NEW k \in Keys, Expire(k) PROVE CleanupRemembers'
  <2>1. rec[k] \in Records /\ rec' = [rec EXCEPT ![k] = [rec[k] EXCEPT !.expired = TRUE]]
    BY <1>11 DEF Expire
  <2>2. \A j \in Keys : rec[j] # None => rec'[j] # None
    BY <2>1, NoneAssumption DEF Records
  <2>3. UNCHANGED <<pc, args, purged>>
    BY <1>11 DEF Expire
  <2>4. \A q \in Requests : pc[q] = "conflict" => args[q].key \in Keys
    BY NoneAssumption
  <2> QED
    BY <2>2, <2>3, <2>4
<1>12. CASE CleanupExpired
  <2>1. /\ UNCHANGED <<pc, args>>
        /\ \A k \in Keys : rec[k] # None => rec'[k] # None \/ rec[k].by \in purged'
        /\ \A e \in purged' : e \in purged \/ \E k \in Keys : rec[k] # None /\ e = rec[k].by
        /\ purged \subseteq purged'
    BY <1>12 DEF CleanupExpired, ExpiredKeys
  <2>2. \A k \in Keys : rec[k] # None => args[rec[k].by].key = k /\ pc[rec[k].by] # "idle"
    BY DEF RowDescribesExecution, Ended
  <2>3. \A q \in Requests : pc[q] = "conflict" => args[q].key \in Keys
    BY NoneAssumption
  <2> QED
    BY <2>1, <2>2, <2>3
<1>13. CASE UNCHANGED vars
  BY <1>13 DEF vars
<1> QED
  BY <1>1, <1>2, <1>3, <1>4, <1>5, <1>6, <1>7, <1>8, <1>9, <1>10, <1>11, <1>12, <1>13 DEF Next, Serve

\* A transaction of get_db that has committed stays so.
LEMMA CommitsStay == IInv /\ [Next]_vars =>
    \A r \in Requests : biz[r] = "committed" => biz'[r] = "committed"
<1> SUFFICES ASSUME IInv, [Next]_vars, NEW q \in Requests, biz[q] = "committed"
             PROVE  biz'[q] = "committed"
  OBVIOUS
<1> USE DEF IInv, TypeOK
<1>1. ASSUME NEW r \in Requests, Serve(r) PROVE biz'[q] = "committed"
  BY <1>1 DEF Serve, NothingBeforeAcquire, TryAcquire, AnswerConflict, RouterSucceeds, RouterRefuses,
       RouterRaises, MarkCompleted, CommitRecord, StoreFails, ReleaseOnError, Unwind, Goto
<1>2. ASSUME NEW r \in Requests, Teardown(r) \/ LoseConnection(r) PROVE biz'[q] = "committed"
  BY <1>2 DEF Teardown, TeardownCommits, TeardownRaises, TeardownDue, LoseConnection
<1>3. ASSUME NEW i \in Instances, Crash(i) PROVE biz'[q] = "committed"
  BY <1>3 DEF Crash
<1>4. ASSUME ~(\E r \in Requests : Serve(r) \/ Teardown(r) \/ LoseConnection(r)), ~\E i \in Instances : Crash(i)
      PROVE  biz'[q] = "committed"
  BY <1>4 DEF Next, Arrive, Expire, CleanupExpired, vars
<1> QED
  BY <1>1, <1>2, <1>3, <1>4

\* Where get_db commits first, each step hands on only what is committed.
LEMMA NextCommitPrecedes == IInv /\ CommitPrecedes /\ [Next]_vars => CommitPrecedes'
<1> SUFFICES ASSUME IInv, CommitPrecedes, [Next]_vars, TeardownFirst PROVE CommitPrecedes'
  BY DEF CommitPrecedes
<1> USE DEF IInv, TypeOK, PC, Args, Key
<1>0. \A r \in Requests : biz[r] = "committed" => biz'[r] = "committed"
  BY CommitsStay
<1>1. ASSUME NEW r \in Requests, NEW k \in Keys, NEW c \in Calls, NEW b \in Bodies,
             NEW i \in Instances, Arrive(r, k, c, b, i)
      PROVE  CommitPrecedes'
  BY <1>1 DEF CommitPrecedes, Arrive, Goto
<1>2. ASSUME NEW r \in Requests, TryAcquire(r) PROVE CommitPrecedes'
  <2>1. /\ \A k \in Keys : rec[k] # None /\ out[rec[k].by] = "ok" => biz'[rec[k].by] = "committed"
        /\ \A q \in Requests : reply[q].code = "ok" => reply[q].by \in Requests /\ biz'[reply[q].by] = "committed"
    BY <1>0 DEF CommitPrecedes, Records
  <2> QED
    BY <1>2, <2>1 DEF CommitPrecedes, TryAcquire
<1>3. ASSUME NEW r \in Requests, AnswerConflict(r) PROVE CommitPrecedes'
  <2> DEFINE row == rec[Key(r)]
             code == ConflictCode(args[r], row)
  <2>1. args[r].key \in Keys
    BY <1>3, NoneAssumption DEF AnswerConflict, Goto
  <2>2. code = "cached" => row # None /\ row.by \in Requests
    BY <2>1 DEF ConflictCode, Records
  <2>3. code # "ok"
    BY DEF ConflictCode
  <2>4. reply' = [reply EXCEPT ![r] = IF code = "cached" THEN [code |-> out[row.by], by |-> row.by]
                                                         ELSE [code |-> code, by |-> None]]
    BY <1>3 DEF AnswerConflict, Answer
  <2>5. reply'[r].code = "ok" => reply'[r].by \in Requests /\ biz[reply'[r].by] = "committed"
    <3> HIDE DEF code, row
    <3>1. CASE code = "cached"
      BY <2>1, <2>2, <2>4, <3>1 DEF CommitPrecedes, row
    <3>2. CASE code # "cached"
      BY <2>3, <2>4, <3>2
    <3> QED
      BY <3>1, <3>2
  <2>6. \A q \in Requests : pc'[q] = pc[q] \/ pc'[q] = "done"
    BY <1>3 DEF AnswerConflict, Goto
  <2>7. \A q \in Requests \ {r} : reply'[q] = reply[q]
    BY <2>4
  <2> QED
    BY <1>3, <2>5, <2>6, <2>7 DEF CommitPrecedes, AnswerConflict
<1>4. ASSUME NEW r \in Requests, RouterSucceeds(r) PROVE CommitPrecedes'
  <2>1. \A k \in Keys : rec[k] # None => rec[k].by # r
    BY <1>4 DEF RowDescribesExecution, Ended, RouterSucceeds, Goto
  <2> QED
    BY <1>4, <2>1 DEF CommitPrecedes, RouterSucceeds, Goto, Records
<1>5. ASSUME NEW r \in Requests, NEW code \in {"rejected", "error"}, RouterRefuses(r, code)
      PROVE  CommitPrecedes'
  <2>1. \A k \in Keys : rec[k] # None => rec[k].by # r
    BY <1>5 DEF RowDescribesExecution, Ended, RouterRefuses, Goto
  <2> QED
    BY <1>0, <1>5, <2>1 DEF CommitPrecedes, RouterRefuses, Goto, Records
<1>6. ASSUME NEW r \in Requests, RouterRaises(r) PROVE CommitPrecedes'
  BY <1>0, <1>6 DEF CommitPrecedes, RouterRaises, Goto, Records
<1>7. ASSUME NEW r \in Requests, MarkCompleted(r) PROVE CommitPrecedes'
  BY <1>7 DEF CommitPrecedes, MarkCompleted, ResponseReady, Goto
<1>8. ASSUME NEW r \in Requests, CommitRecord(r) PROVE CommitPrecedes'
  BY <1>8 DEF CommitPrecedes, CommitRecord, Answer, Records
<1>9. ASSUME NEW r \in Requests, StoreFails(r) PROVE CommitPrecedes'
  BY <1>9 DEF CommitPrecedes, StoreFails
<1>10. ASSUME NEW r \in Requests, ReleaseOnError(r) \/ Unwind(r) PROVE CommitPrecedes'
  BY <1>10 DEF CommitPrecedes, ReleaseOnError, Unwind, Goto, Answer
<1>11. ASSUME NEW r \in Requests, Teardown(r) PROVE CommitPrecedes'
  BY <1>0, <1>11 DEF CommitPrecedes, Teardown, TeardownCommits, TeardownRaises, TeardownDue, Records
<1>12. ASSUME NEW r \in Requests, LoseConnection(r) PROVE CommitPrecedes'
  BY <1>12 DEF CommitPrecedes, LoseConnection
<1>13. ASSUME NEW i \in Instances, Crash(i) PROVE CommitPrecedes'
  BY <1>0, <1>13 DEF CommitPrecedes, Crash, RunsOn, Records
<1>14. ASSUME NEW k \in Keys, Expire(k) PROVE CommitPrecedes'
  <2>1. rec[k] \in Records /\ rec' = [rec EXCEPT ![k] = [rec[k] EXCEPT !.expired = TRUE]]
    BY <1>14 DEF Expire
  <2>2. \A j \in Keys : rec'[j] # None => rec[j] # None /\ rec'[j].by = rec[j].by
    BY <2>1, NoneAssumption DEF Records
  <2> QED
    BY <1>14, <2>2 DEF CommitPrecedes, Expire
<1>15. CASE CleanupExpired
  BY <1>15 DEF CommitPrecedes, CleanupExpired
<1>16. CASE UNCHANGED vars
  BY <1>16 DEF CommitPrecedes, vars
<1> QED
  BY <1>1, <1>2, <1>3, <1>4, <1>5, <1>6, <1>7, <1>8, <1>9, <1>10, <1>11, <1>12, <1>13,
     <1>14, <1>15, <1>16 DEF Next, Serve

\* Both hold in every reachable state.
LEMMA LaterInvariance == Spec => [](IInv /\ CleanupRemembers /\ CommitPrecedes)
<1>1. Init => CleanupRemembers /\ CommitPrecedes
  BY DEF Init, CleanupRemembers, CommitPrecedes, NoReply
<1> QED
  BY InitIInv, Invariance, <1>1, NextCleanupRemembers, NextCommitPrecedes, PTL DEF Spec

\* A refusal with ID003 is given only where the cleanup took the row between the insert
\* and the read: never while an execution of the key runs.
THEOREM RefusedAfterCleanup == Spec => InProgressOnlyAfterCleanup
<1>1. IInv /\ CleanupRemembers /\ [Next]_vars =>
        [\A r \in Requests : (reply'[r].code = "ID003" /\ reply[r].code = "none")
            => (rec[Key(r)] = None /\ \E e \in purged : Key(e) = Key(r))]_vars
  <2> SUFFICES ASSUME IInv, CleanupRemembers, Next, NEW r \in Requests,
                      reply'[r].code = "ID003", reply[r].code = "none"
               PROVE  rec[Key(r)] = None /\ \E e \in purged : Key(e) = Key(r)
    OBVIOUS
  <2> USE DEF IInv, TypeOK
  <2>1. ASSUME NEW q \in Requests, NEW code, NEW by, Answer(q, code, by) PROVE q = r /\ code = "ID003"
    BY <2>1 DEF Answer
  <2>2. AnswerConflict(r)
    <3>1. PICK q \in Requests : AnswerConflict(q) \/ CommitRecord(q) \/ ReleaseOnError(q) \/ Unwind(q)
      BY DEF Next, Serve, Arrive, Teardown, TeardownCommits, TeardownRaises, LoseConnection, Crash,
             Expire, CleanupExpired, TryAcquire, RouterSucceeds, RouterRefuses, RouterRaises,
             MarkCompleted, StoreFails
    <3>2. ~ReleaseOnError(q) /\ ~Unwind(q)
      BY <2>1 DEF ReleaseOnError, Unwind
    <3>3. ~CommitRecord(q)
      BY <2>1 DEF CommitRecord, Outcome
    <3>4. AnswerConflict(q)
      BY <3>1, <3>2, <3>3
    <3> QED
      BY <2>1, <3>4 DEF AnswerConflict
  <2>3. pc[r] = "conflict" /\ Key(r) \in Keys
    BY <2>2, NoneAssumption DEF AnswerConflict, Goto, Key, Args
  <2>4. rec[Key(r)] # None => rec[Key(r)].status = "COMPLETED"
    BY <2>3 DEF RowDescribesExecution
  <2>5. rec[Key(r)] # None /\ ConflictCode(args[r], rec[Key(r)]) = "cached" =>
          out[rec[Key(r)].by] \in {"ok", "rejected"}
    BY <2>3 DEF RowDescribesExecution
  <2>6. rec[Key(r)] = None
    BY <2>1, <2>2, <2>4, <2>5 DEF AnswerConflict, ConflictCode
  <2> QED
    BY <2>3, <2>6 DEF CleanupRemembers
<1> QED
  BY <1>1, LaterInvariance, PTL DEF Spec, InProgressOnlyAfterCleanup

\* Where get_db's teardown precedes the response, a success the client has been told of,
\* at first hand or replayed, is committed and stays so.
THEOREM DurableAnswers == TeardownFirst => (Spec => []OkReplyIsDurable)
<1> SUFFICES ASSUME TeardownFirst PROVE Spec => []OkReplyIsDurable
  OBVIOUS
<1>1. CommitPrecedes => OkReplyIsDurable
  BY DEF CommitPrecedes, OkReplyIsDurable
<1> QED
  BY <1>1, LaterInvariance, PTL

-----------------------------------------------------------------------------
(* The middleware implements the key contract: each step maps to a step of *)
(* KeyContract or to a stutter.                                            *)

\* The initial state maps to the initial state of the contract.
LEMMA InitMaps == Init => Contract!Init
BY DEF Init, Contract!Init, NoReply, keptBar, answeredBar

\* A step that leaves the index entries, the rows and the answers alone is a stutter.
LEMMA QuietStep ==
    ASSUME UNCHANGED <<holder, rec, reply>>
    PROVE  UNCHANGED Contract!vars
BY DEF Contract!vars, keptBar, answeredBar

\* Ending the transactions of a set of requests gives up the keys they hold.
LEMMA EndingGivesUp ==
    ASSUME TypeOK, NEW R \in SUBSET Requests, holder' = FreeKeysOf(R),
           UNCHANGED <<rec>>, answeredBar' = answeredBar
    PROVE  Contract!Next
<1> DEFINE K == {k \in Keys : holder[k] \in R}
<1>1. Contract!GiveUp(K)
  BY NoneAssumption DEF Contract!GiveUp, FreeKeysOf, keptBar
<1> QED
  BY <1>1 DEF Contract!Next

\* The steps of one request and one key are steps of the contract.
LEMMA ContractStep ==
    ASSUME NEW r \in Requests, NEW k \in Keys,
           Contract!Take(r, k) \/ Contract!Keep(r, k) \/ Contract!Replay(r, k)
    PROVE  Contract!Next
BY DEF Contract!Next

\* Every step of the middleware is a step of the contract or a stutter.
LEMMA StepMaps == IInv /\ [Next]_vars => [Contract!Next]_(Contract!vars)
<1> SUFFICES ASSUME IInv, [Next]_vars PROVE [Contract!Next]_(Contract!vars)
  OBVIOUS
<1> TypeOK
  BY DEF IInv
<1> USE NoneAssumption
<1>1. ASSUME NEW r \in Requests, NEW k \in Keys, NEW c \in Calls, NEW b \in Bodies,
             NEW i \in Instances, Arrive(r, k, c, b, i)
      PROVE  UNCHANGED <<holder, rec, reply>>
  BY <1>1 DEF Arrive
<1>2. ASSUME NEW r \in Requests, TryAcquire(r) PROVE [Contract!Next]_(Contract!vars)
  <2>1. PICK k \in Keys : k = Key(r)
    BY <1>2 DEF TryAcquire, TypeOK, Key, Args
  <2>2. CASE rec[k] = None
    <3>1. keptBar[k] = None /\ UNCHANGED <<keptBar, answeredBar>>
      BY <1>2, <2>1, <2>2 DEF TryAcquire, keptBar, answeredBar
    <3>2. Contract!Take(r, k)
      BY <1>2, <2>1, <2>2, <3>1 DEF TryAcquire, Contract!Take
    <3> QED
      BY <3>2, ContractStep
  <2>3. CASE rec[k] # None
    BY <1>2, <2>1, <2>3, QuietStep DEF TryAcquire
  <2> QED
    BY <2>2, <2>3
<1>3. ASSUME NEW r \in Requests, AnswerConflict(r) PROVE [Contract!Next]_(Contract!vars)
  <2>1. PICK k \in Keys : k = Key(r)
    BY <1>3 DEF AnswerConflict, Goto, TypeOK, Key, Args
  <2>2. reply[r].by = None
    BY <1>3 DEF IInv, AnswerDescribesExecution, AnswerConflict, Goto
  <2>3. reply \in [Requests -> Replies]
    BY DEF TypeOK
  <2>4. CASE ConflictCode(args[r], rec[k]) = "cached"
    <3>1. rec[k] # None
      BY <2>4 DEF ConflictCode
    <3>2. reply' = [reply EXCEPT ![r] = [code |-> out[rec[k].by], by |-> rec[k].by]]
      BY <1>3, <2>1, <2>4 DEF AnswerConflict, Answer
    <3>3. answeredBar' = [answeredBar EXCEPT ![r] = rec[k].by]
      BY <2>3, <3>2 DEF answeredBar, Replies
    <3>4. keptBar[k] = rec[k].by /\ keptBar[k] # None /\ keptBar' = keptBar
      BY <1>3, <2>1, <3>1 DEF AnswerConflict, keptBar, TypeOK, Records
    <3>5. Contract!Replay(r, k)
      BY <1>3, <2>2, <3>3, <3>4 DEF AnswerConflict, Contract!Replay, answeredBar
    <3> QED
      BY <3>5, ContractStep
  <2>5. CASE ConflictCode(args[r], rec[k]) # "cached"
    <3>1. answeredBar' = answeredBar
      BY <1>3, <2>1, <2>2, <2>3, <2>5 DEF AnswerConflict, Answer, answeredBar, Replies
    <3> QED
      BY <1>3, <3>1 DEF AnswerConflict, keptBar, Contract!vars
  <2> QED
    BY <2>4, <2>5
<1>4. ASSUME NEW r \in Requests, CommitRecord(r) PROVE [Contract!Next]_(Contract!vars)
  <2>1. PICK k \in Keys : k = Key(r)
    BY <1>4 DEF CommitRecord, TypeOK, Key, Args
  <2>2. holder[k] = r
    BY <1>4, <2>1 DEF CommitRecord, IInv, RunningHolds, InRouter
  <2>3. holder' = [holder EXCEPT ![k] = None]
    <3>1. \A j \in Keys : holder[j] = r <=> j = k
      BY <1>4, <2>1, <2>2 DEF IInv, HolderIsRunning
    <3> QED
      BY <1>4, <3>1 DEF CommitRecord, FreeKeysOf, TypeOK
  <2>4. keptBar' = [keptBar EXCEPT ![k] = r]
    <3> DEFINE row == [status |-> "COMPLETED", call |-> args[r].call,
                       body |-> args[r].body, by |-> r, expired |-> FALSE]
    <3>1. args[r] \in Args
      BY <1>4 DEF CommitRecord, TypeOK
    <3>2. row # None
      <4>1. row \in Records
        BY <3>1 DEF Args, Records
      <4> QED
        BY <4>1 DEF Records
    <3>3. rec' = [rec EXCEPT ![k] = row]
      BY <1>4, <2>1 DEF CommitRecord
    <3>4. row.by = r
      OBVIOUS
    <3> HIDE DEF row
    <3> QED
      BY <3>2, <3>3, <3>4 DEF keptBar, TypeOK
  <2>5. answeredBar' = [answeredBar EXCEPT ![r] = r] \/ answeredBar' = answeredBar
    <3>1. reply' = [reply EXCEPT ![r] = [code |-> out[r], by |-> r]] \/ reply' = reply
      BY <1>4 DEF CommitRecord, Answer
    <3>2. CASE reply' = reply
      BY <3>2 DEF answeredBar
    <3>3. CASE reply' = [reply EXCEPT ![r] = [code |-> out[r], by |-> r]]
      <4>1. /\ reply'[r].by = r
            /\ \A q \in Requests \ {r} : reply'[q] = reply[q]
        BY <3>3 DEF TypeOK
      <4> QED
        BY <4>1 DEF answeredBar
    <3> QED
      BY <3>1, <3>2, <3>3
  <2>6. Contract!Keep(r, k)
    BY <2>2, <2>3, <2>4, <2>5 DEF Contract!Keep
  <2> QED
    BY <2>6, ContractStep
<1>5. ASSUME NEW r \in Requests, ReleaseOnError(r) \/ Unwind(r)
      PROVE  [Contract!Next]_(Contract!vars)
  <2>1. reply[r].by = None
    BY <1>5 DEF IInv, AnswerDescribesExecution, ReleaseOnError, Unwind, Goto
  <2>2. answeredBar' = answeredBar
    BY <1>5, <2>1 DEF ReleaseOnError, Unwind, Answer, answeredBar, TypeOK, Replies
  <2> QED
    BY <1>5, <2>2, EndingGivesUp DEF ReleaseOnError, Unwind
<1>6. ASSUME NEW r \in Requests, LoseConnection(r) PROVE [Contract!Next]_(Contract!vars)
  BY <1>6, EndingGivesUp DEF LoseConnection, answeredBar
<1>7. ASSUME NEW i \in Instances, Crash(i) PROVE [Contract!Next]_(Contract!vars)
  <2> DEFINE R == {r \in Requests : RunsOn(r, i)}
  <2>1. holder' = FreeKeysOf(R) /\ UNCHANGED rec /\ answeredBar' = answeredBar
    BY <1>7 DEF Crash, answeredBar
  <2> QED
    BY <2>1, EndingGivesUp
<1>8. ASSUME NEW k \in Keys, Expire(k) PROVE UNCHANGED Contract!vars
  <2>1. keptBar' = keptBar
    BY <1>8 DEF Expire, keptBar, TypeOK, Records
  <2> QED
    BY <1>8, <2>1 DEF Expire, answeredBar, Contract!vars
<1>9. CASE CleanupExpired
  <2>1. Contract!Forget(ExpiredKeys)
    <3>1. keptBar' = [k \in Keys |-> IF k \in ExpiredKeys THEN None ELSE keptBar[k]]
      BY <1>9 DEF CleanupExpired, keptBar
    <3>2. \A k \in ExpiredKeys : keptBar[k] # None
      BY DEF ExpiredKeys, keptBar, TypeOK, Records
    <3> QED
      BY <1>9, <3>1, <3>2 DEF CleanupExpired, Contract!Forget, answeredBar
  <2>2. ExpiredKeys \in SUBSET Keys
    BY DEF ExpiredKeys
  <2> QED
    BY <2>1, <2>2 DEF Contract!Next
<1>10. ASSUME NEW r \in Requests,
              \/ RouterSucceeds(r) \/ RouterRaises(r) \/ MarkCompleted(r) \/ StoreFails(r)
              \/ Teardown(r)
              \/ \E code \in {"rejected", "error"} : RouterRefuses(r, code)
       PROVE  UNCHANGED <<holder, rec, reply>>
  BY <1>10 DEF RouterSucceeds, RouterRaises, MarkCompleted, StoreFails, Teardown,
               TeardownCommits, TeardownRaises, RouterRefuses
<1>11. CASE UNCHANGED vars
  BY <1>11, QuietStep DEF vars
<1> QED
  BY <1>1, <1>2, <1>3, <1>4, <1>5, <1>6, <1>7, <1>8, <1>9, <1>10, <1>11, QuietStep
     DEF Next, Serve

\* The detailed middleware implements the abstract contract of a key.
THEOREM Refinement == Spec => ImplementsContract
BY InitMaps, StepMaps, Invariance, PTL DEF Spec, ImplementsContract, Contract!Spec
=============================================================================
