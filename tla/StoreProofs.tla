----------------------------- MODULE StoreProofs -----------------------------
(***************************************************************************)
(* Proofs about insert_candles run by any number of sessions, for all      *)
(* rows, batches and bounds: CandleStore implements AtomicStore, and the   *)
(* count a call returns is never less than what it added.                  *)
(***************************************************************************)
EXTENDS CandleStore, FiniteSetTheorems, TLAPS

-----------------------------------------------------------------------------
(* The inductive invariant, session by session. *)

(* The INSERT of the transaction has begun. *)
Begun == {"inserting", "recounting", "committing"}

Shape ==
    /\ pc \in [Sessions -> Open \cup {"idle", "raised"}]
    /\ staged \in [Sessions -> SUBSET Row]
    /\ todo \in [Sessions -> SUBSET Row]
    /\ pending \in [Sessions -> SUBSET Row]
    /\ waiting \in [Sessions -> Row \cup {NoRow}]

(* A transaction holds nothing but rows of its batch, and nothing at all before
   its INSERT begins and after it ends. *)
Tidy(s) ==
    /\ todo[s] \subseteq staged[s]
    /\ pending[s] \subseteq staged[s]
    /\ waiting[s] \in todo[s] \cup {NoRow}
    /\ pc[s] \notin Begun => todo[s] = {} /\ pending[s] = {}
    /\ pc[s] \in {"recounting", "committing"} => todo[s] = {}

(* What the INSERT has come past is in the table or about to be. *)
Covered(s) ==
    pc[s] \in Begun =>
        \A r \in staged[s] \ todo[s] : r.key \in KeysOf(table) \cup KeysOf(pending[s])

(* Rows of open transactions clash with no row, of the table or of each other:
   this is what the locks on keys are for. *)
Apart(s) ==
    /\ OneRowPerKey(pending[s])
    /\ KeysOf(pending[s]) \cap KeysOf(table) = {}
    /\ \A t \in Sessions \ {s} : KeysOf(pending[s]) \cap KeysOf(pending[t]) = {}

StoreInv == Shape /\ \A s \in Sessions : Tidy(s) /\ Covered(s) /\ Apart(s)

-----------------------------------------------------------------------------
(* What a step leaves alone. *)

(* What a session does. *)
Step(s) ==
    \/ Connect(s)
    \/ CountStart(s)
    \/ Copy(s)
    \/ InsertRow(s)
    \/ Wait(s)
    \/ InsertEnds(s)
    \/ CountEnd(s)
    \/ Commit(s)
    \/ DeadlockDetected(s)
    \/ ConnectionLost(s)

(* The other sessions are where they were. *)
OthersStay(s) ==
    \A t \in Sessions \ {s} :
        /\ pc'[t] = pc[t]
        /\ staged'[t] = staged[t]
        /\ todo'[t] = todo[t]
        /\ pending'[t] = pending[t]
        /\ waiting'[t] = waiting[t]

(* A step is of one session, and keeps the shape of the state. *)
LEMMA StepOfOne ==
    ASSUME StoreInv, NEW s \in Sessions, Step(s)
    PROVE  Shape' /\ OthersStay(s)
  <1> USE DEF StoreInv, Shape, OthersStay
  <1>1. CASE Connect(s)
    BY <1>1, StoreAssumption DEF Connect, Goto, Open
  <1>2. CASE CountStart(s)
    BY <1>2 DEF CountStart, Goto, Open
  <1>3. CASE Copy(s)
    BY <1>3 DEF Copy, Goto, Open
  <1>4. CASE InsertRow(s)
    <2>1. PICK r \in NextRows(s) :
            /\ todo' = [todo EXCEPT ![s] = @ \ {r}]
            /\ \/ pending' = pending
               \/ pending' = [pending EXCEPT ![s] = @ \cup {r}]
      BY <1>4 DEF InsertRow
    <2>2. r \in Row
      BY <2>1 DEF NextRows, Tidy
    <2>3. pending' \in [Sessions -> SUBSET Row] /\ \A t \in Sessions \ {s} : pending'[t] = pending[t]
      BY <2>1, <2>2
    <2> QED
      BY <1>4, <2>1, <2>3 DEF InsertRow
  <1>5. CASE Wait(s)
    <2>1. PICK r \in todo[s] : waiting' = [waiting EXCEPT ![s] = r]
      BY <1>5 DEF Wait
    <2> QED
      BY <1>5, <2>1 DEF Wait
  <1>6. CASE InsertEnds(s)
    BY <1>6 DEF InsertEnds, Goto, Open
  <1>7. CASE CountEnd(s)
    BY <1>7 DEF CountEnd, Goto, Open
  <1>8. CASE Commit(s)
    BY <1>8 DEF Commit, Forget, Goto, Open
  <1>9. CASE DeadlockDetected(s)
    BY <1>9 DEF DeadlockDetected, Forget, Goto, Open
  <1>10. CASE ConnectionLost(s)
    BY <1>10 DEF ConnectionLost, Forget, Goto, Open
  <1> QED
    BY <1>1, <1>2, <1>3, <1>4, <1>5, <1>6, <1>7, <1>8, <1>9, <1>10 DEF Step

(* While neither the table nor what is pending changes, the rows stay apart
   and what was covered stays covered. *)
LEMMA QuietStep ==
    ASSUME StoreInv, NEW s \in Sessions, Shape', OthersStay(s),
           table' = table, pending' = pending, Tidy(s)', Covered(s)'
    PROVE  StoreInv'
  BY DEF StoreInv, OthersStay, Tidy, Covered, Apart

(* The end of a transaction, with its rows in the table or without. *)
LEMMA TransactionEnds ==
    ASSUME StoreInv, NEW s \in Sessions, Shape', OthersStay(s), Forget(s),
           pc'[s] \in {"idle", "raised"},
           table' = table \/ table' = table \cup pending[s]
    PROVE  StoreInv'
  <1>1. /\ staged'[s] = {}
        /\ todo'[s] = {}
        /\ pending'[s] = {}
        /\ waiting'[s] = NoRow
    BY DEF Forget, StoreInv, Shape
  <1>2. KeysOf(table') \subseteq KeysOf(table) \cup KeysOf(pending[s])
    BY DEF KeysOf
  <1>3. KeysOf(table) \subseteq KeysOf(table')
    BY DEF KeysOf
  <1>4. KeysOf({}) = {} /\ OneRowPerKey({})
    BY DEF KeysOf, OneRowPerKey
  <1>5. Tidy(s)' /\ Covered(s)' /\ Apart(s)'
    BY <1>1, <1>4 DEF Tidy, Covered, Apart, Begun
  <1>6. ASSUME NEW t \in Sessions \ {s}
        PROVE  Tidy(t)' /\ Covered(t)' /\ Apart(t)'
    <2>1. Tidy(t)'
      BY DEF StoreInv, OthersStay, Tidy
    <2>2. Covered(t)'
      BY <1>3 DEF StoreInv, OthersStay, Covered
    <2>3. KeysOf(pending[t]) \cap KeysOf(table') = {}
      BY <1>2 DEF StoreInv, Apart
    <2>4. Apart(t)'
      BY <1>1, <1>4, <2>3 DEF StoreInv, OthersStay, Apart
    <2> QED
      BY <2>1, <2>2, <2>4
  <1> QED
    BY <1>5, <1>6 DEF StoreInv

-----------------------------------------------------------------------------
(* The invariant *)

(* The INSERT comes past a row: its key is there, or it is put there. *)
LEMMA RowInserted ==
    ASSUME StoreInv, NEW s \in Sessions, InsertRow(s), Shape', OthersStay(s)
    PROVE  StoreInv'
  <1> USE DEF StoreInv
  <1>1. PICK r \in NextRows(s) :
          /\ Holders(s, r) = {}
          /\ todo' = [todo EXCEPT ![s] = @ \ {r}]
          /\ pending' = IF r.key \in KeysOf(table \cup pending[s])
                        THEN pending
                        ELSE [pending EXCEPT ![s] = @ \cup {r}]
    BY DEF InsertRow
  <1>2. /\ pc[s] = "inserting" /\ pc' = pc
        /\ staged' = staged
        /\ table' = table
        /\ waiting' = [waiting EXCEPT ![s] = NoRow]
    BY DEF InsertRow
  <1>3. r \in todo[s]
    BY <1>1 DEF NextRows, Tidy
  <1>4. todo'[s] = todo[s] \ {r} /\ waiting'[s] = NoRow
    BY <1>1, <1>2 DEF Shape
  <1>5. KeysOf(table \cup pending[s]) = KeysOf(table) \cup KeysOf(pending[s])
    BY DEF KeysOf
  <1>6. CASE r.key \in KeysOf(table \cup pending[s])
    <2>1. pending' = pending
      BY <1>1, <1>6
    <2>2. Tidy(s)'
      BY <1>2, <1>4, <2>1 DEF Tidy, Begun
    <2>3. Covered(s)'
      BY <1>2, <1>4, <1>5, <1>6, <2>1 DEF Covered, Begun
    <2> QED
      BY <1>2, <2>1, <2>2, <2>3, QuietStep
  <1>7. CASE r.key \notin KeysOf(table \cup pending[s])
    <2>1. pending'[s] = pending[s] \cup {r}
      BY <1>1, <1>7 DEF Shape
    <2>2. KeysOf(pending'[s]) = KeysOf(pending[s]) \cup {r.key}
      BY <2>1 DEF KeysOf
    <2>3. Tidy(s)'
      BY <1>2, <1>3, <1>4, <2>1 DEF Tidy, Begun
    <2>4. Covered(s)'
      BY <1>2, <1>4, <2>2 DEF Covered, Begun
    <2>5. OneRowPerKey(pending'[s])
      BY <1>5, <1>7, <2>1 DEF Apart, OneRowPerKey, KeysOf
    <2>6. \A t \in Sessions \ {s} : r.key \notin KeysOf(pending[t])
      BY <1>1 DEF Holders
    <2>7. Apart(s)'
      BY <1>2, <1>5, <1>7, <2>2, <2>5, <2>6 DEF Apart, OthersStay
    <2>8. ASSUME NEW t \in Sessions \ {s}
          PROVE  Tidy(t)' /\ Covered(t)' /\ Apart(t)'
      <3>1. Tidy(t)' /\ Covered(t)'
        BY <1>2 DEF OthersStay, Tidy, Covered
      <3>2. Apart(t)'
        BY <1>2, <2>2, <2>6 DEF OthersStay, Apart
      <3> QED
        BY <3>1, <3>2
    <2> QED
      BY <2>3, <2>4, <2>7, <2>8
  <1> QED
    BY <1>6, <1>7

(* A step keeps the invariant. *)
LEMMA NextStoreInv == StoreInv /\ [Next]_vars => StoreInv'
  <1> SUFFICES ASSUME StoreInv, [Next]_vars
               PROVE  StoreInv'
    OBVIOUS
  <1>1. CASE UNCHANGED vars
    BY <1>1 DEF vars, StoreInv, Shape, Tidy, Covered, Apart
  <1>2. ASSUME NEW s \in Sessions, Step(s)
        PROVE  StoreInv'
    <2>0. Shape' /\ OthersStay(s)
      BY <1>2, StepOfOne
    <2> USE DEF StoreInv, Shape
    <2>1. CASE Connect(s)
      <3>1. /\ pc[s] \notin Begun
            /\ pc'[s] = "counting"
            /\ UNCHANGED <<table, todo, pending, waiting>>
        BY <2>1 DEF Connect, Goto, Begun
      <3>2. Tidy(s)' /\ Covered(s)'
        BY <2>0, <3>1 DEF Tidy, Covered, Begun
      <3> QED
        BY <2>0, <3>1, <3>2, QuietStep
    <2>2. CASE CountStart(s) \/ Copy(s)
      <3>1. /\ pc[s] \notin Begun
            /\ UNCHANGED <<table, staged, pending, waiting>>
            /\ \/ pc'[s] = "copying" /\ todo'[s] = todo[s]
               \/ pc'[s] = "inserting" /\ todo'[s] = staged[s]
        BY <2>2 DEF CountStart, Copy, Goto, Begun
      <3>2. Tidy(s)' /\ Covered(s)'
        BY <3>1 DEF Tidy, Covered, Begun
      <3> QED
        BY <2>0, <3>1, <3>2, QuietStep
    <2>3. CASE InsertRow(s)
      BY <2>0, <2>3, RowInserted
    <2>4. CASE Wait(s)
      <3>1. /\ UNCHANGED <<table, pc, staged, todo, pending>>
            /\ waiting'[s] \in todo[s]
        BY <2>4 DEF Wait
      <3>2. Tidy(s)' /\ Covered(s)'
        BY <3>1 DEF Tidy, Covered
      <3> QED
        BY <2>0, <3>1, <3>2, QuietStep
    <2>5. CASE InsertEnds(s) \/ CountEnd(s)
      <3>1. /\ UNCHANGED <<table, staged, todo, pending, waiting>>
            /\ pc[s] \in Begun
            /\ todo[s] = {}
            /\ pc'[s] \in {"recounting", "committing"}
        BY <2>5 DEF InsertEnds, CountEnd, Goto, Begun, Tidy
      <3>2. Tidy(s)' /\ Covered(s)'
        BY <3>1 DEF Tidy, Covered, Begun
      <3> QED
        BY <2>0, <3>1, <3>2, QuietStep
    <2>6. CASE Commit(s) \/ DeadlockDetected(s) \/ ConnectionLost(s)
      <3>1. /\ pc'[s] \in {"idle", "raised"}
            /\ Forget(s)
            /\ table' = table \/ table' = table \cup pending[s]
        BY <2>6 DEF Commit, DeadlockDetected, ConnectionLost, Goto
      <3> QED
        BY <2>0, <3>1, TransactionEnds
    <2> QED
      BY <1>2, <2>1, <2>2, <2>3, <2>4, <2>5, <2>6 DEF Step
  <1> QED
    BY <1>1, <1>2 DEF Next, Step

(* The invariant holds at first. *)
LEMMA InitStoreInv == Init => StoreInv
  <1> SUFFICES ASSUME Init
               PROVE  StoreInv
    OBVIOUS
  <1>1. KeysOf({}) = {} /\ OneRowPerKey({})
    BY DEF KeysOf, OneRowPerKey
  <1> QED
    BY <1>1 DEF Init, StoreInv, Shape, Tidy, Covered, Apart, Begun, Open

-----------------------------------------------------------------------------
(* The refinement *)

(* What its caller sees of a call, as in Atomic. *)
Call == [s \in Sessions |-> CASE pc[s] = "idle"   -> "returned"
                              [] pc[s] = "raised" -> "raised"
                              [] OTHER            -> "running"]

(* The pending rows of a call whose INSERT is over are what one insert of the
   whole batch adds to the table as it is at the COMMIT. *)
LEMMA CommitIsInsert ==
    ASSUME StoreInv, NEW s \in Sessions, pc[s] = "committing"
    PROVE  table \cup pending[s] \in Atomic!InsertResults(table, staged[s])
  <1>1. /\ todo[s] = {}
        /\ pending[s] \subseteq staged[s]
        /\ OneRowPerKey(pending[s])
        /\ KeysOf(pending[s]) \cap KeysOf(table) = {}
        /\ \A r \in staged[s] : r.key \in KeysOf(table) \cup KeysOf(pending[s])
    BY DEF StoreInv, Tidy, Covered, Apart, Begun
  <1>2. pending[s] \in SUBSET Fresh(table, staged[s])
    BY <1>1 DEF Fresh, KeysOf
  <1>3. KeysOf(pending[s]) = KeysOf(Fresh(table, staged[s]))
    BY <1>1, <1>2 DEF Fresh, KeysOf
  <1> QED
    BY <1>1, <1>2, <1>3 DEF Atomic!InsertResults, Atomic!Fresh, Atomic!KeysOf,
                            Atomic!OneRowPerKey, Fresh, KeysOf, OneRowPerKey

(* Each step of a call begins it, ends it, or is not seen at all. *)
LEMMA NextRefines ==
    ASSUME StoreInv, [Next]_vars
    PROVE  [Atomic!StoreNext]_<<table, Call, staged>>
  <1>1. CASE UNCHANGED vars
    BY <1>1 DEF vars, Call
  <1>2. ASSUME NEW s \in Sessions, Step(s)
        PROVE  [Atomic!StoreNext]_<<table, Call, staged>>
    <2> USE DEF StoreInv, Shape
    <2>1. CASE Connect(s)
      <3>1. pc' = [pc EXCEPT ![s] = "counting"] /\ pc[s] \in {"idle", "raised"}
        BY <2>1 DEF Connect, Goto
      <3>2. Call[s] # "running" /\ Call' = [Call EXCEPT ![s] = "running"]
        BY <3>1 DEF Call
      <3>3. (\E rows \in Batches : staged' = [staged EXCEPT ![s] = rows]) /\ table' = table
        BY <2>1 DEF Connect
      <3>4. Atomic!Begin(s)
        BY <3>2, <3>3 DEF Atomic!Begin, Call
      <3> QED
        BY <3>4 DEF Atomic!StoreNext
    <2>2. CASE CountStart(s) \/ Copy(s) \/ InsertRow(s) \/ Wait(s) \/ InsertEnds(s) \/ CountEnd(s)
      <3>1. UNCHANGED <<table, staged>>
        BY <2>2 DEF CountStart, Copy, InsertRow, Wait, InsertEnds, CountEnd
      <3>2. \/ pc' = pc
            \/ /\ pc[s] \in Open
               /\ \E label \in Open : pc' = [pc EXCEPT ![s] = label]
        BY <2>2 DEF CountStart, Copy, InsertRow, Wait, InsertEnds, CountEnd, Goto, Open
      <3>3. Call' = Call
        BY <3>2 DEF Call, Open
      <3> QED
        BY <3>1, <3>3
    <2>3. CASE Commit(s)
      <3>1. pc[s] = "committing" /\ pc' = [pc EXCEPT ![s] = "idle"]
        BY <2>3 DEF Commit, Goto
      <3>2. Call[s] = "running" /\ Call' = [Call EXCEPT ![s] = "returned"]
        BY <3>1 DEF Call
      <3>3. staged' = [staged EXCEPT ![s] = {}] /\ table' = table \cup pending[s]
        BY <2>3 DEF Commit, Forget
      <3>4. Atomic!Return(s)
        BY <3>1, <3>2, <3>3, CommitIsInsert DEF Atomic!Return, Atomic!End, Call
      <3> QED
        BY <3>4 DEF Atomic!StoreNext
    <2>4. CASE DeadlockDetected(s) \/ ConnectionLost(s)
      <3>1. pc[s] \in Open /\ pc' = [pc EXCEPT ![s] = "raised"]
        <4>1. CASE ConnectionLost(s)
          BY <4>1 DEF ConnectionLost, Goto
        <4>2. CASE DeadlockDetected(s)
          <5>1. waiting[s] # NoRow
            BY <4>2 DEF DeadlockDetected, Deadlocked, WaitsFor
          <5>2. pc[s] \in Begun
            BY <5>1 DEF Tidy
          <5> QED
            BY <4>2, <5>2 DEF DeadlockDetected, Goto, Begun, Open
        <4> QED
          BY <2>4, <4>1, <4>2
      <3>2. Call[s] = "running" /\ Call' = [Call EXCEPT ![s] = "raised"]
        BY <3>1 DEF Call, Open
      <3>3. /\ staged' = [staged EXCEPT ![s] = {}]
            /\ \/ table' = table
               \/ pc[s] = "committing" /\ table' = table \cup pending[s]
        BY <2>4 DEF DeadlockDetected, ConnectionLost, Forget
      <3>4. Atomic!Raise(s)
        BY <3>2, <3>3, CommitIsInsert DEF Atomic!Raise, Atomic!End, Call
      <3> QED
        BY <3>4 DEF Atomic!StoreNext
    <2> QED
      BY <1>2, <2>1, <2>2, <2>3, <2>4 DEF Step
  <1> QED
    BY <1>1, <1>2 DEF Next, Step

(* The calls begin returned, with no batch and an empty table. *)
LEMMA InitRefines == Init => Atomic!StoreInit
  BY DEF Init, Atomic!StoreInit

(***************************************************************************)
(* insert_candles is atomic: to its callers each call is one insert of its *)
(* whole batch, at its COMMIT.  What makes it so is that rows of open      *)
(* transactions never clash (Apart), so that a COMMIT adds just what an    *)
(* insert into the table as it then is would add (CommitIsInsert).         *)
(***************************************************************************)
THEOREM ImplementsAtomicStore == Spec => AtomicSpec
  <1>1. StoreInv /\ [Next]_vars => [Atomic!StoreNext]_Atomic!storeVars
    BY NextRefines DEF Call, Atomic!storeVars
  <1> QED
    BY <1>1, InitRefines, InitStoreInv, NextStoreInv, PTL
       DEF Spec, AtomicSpec, Atomic!StoreSpec

-----------------------------------------------------------------------------
(* The counts *)

(* What is counted is finite. *)
Finite ==
    /\ IsFiniteSet(table)
    /\ \A s \in Sessions : IsFiniteSet(staged[s])

(* The first count is of a table that has only grown; the second count is of
   it and of the rows pending. *)
Counted(s) ==
    /\ pc[s] \in {"copying", "inserting", "recounting"} =>
          startCount[s] <= Cardinality(table)
    /\ pc[s] = "committing" =>
          startCount[s] + Cardinality(pending[s]) <= endCount[s]
    /\ added[s] <= reported[s]

CountShape ==
    /\ startCount \in [Sessions -> Nat]
    /\ endCount \in [Sessions -> Nat]
    /\ reported \in [Sessions -> Int]
    /\ added \in [Sessions -> Nat]

CountInv ==
    /\ StoreInv
    /\ Finite
    /\ CountShape
    /\ \A s \in Sessions : Counted(s)

(* What is pending is finite and apart from the table, so that the counts add up. *)
LEMMA CountsAddUp ==
    ASSUME StoreInv, Finite, NEW s \in Sessions
    PROVE  /\ IsFiniteSet(pending[s])
           /\ IsFiniteSet(table \cup pending[s])
           /\ Cardinality(table) \in Nat
           /\ Cardinality(pending[s]) \in Nat
           /\ Cardinality(table \cup pending[s]) = Cardinality(table) + Cardinality(pending[s])
  <1>1. IsFiniteSet(table) /\ IsFiniteSet(pending[s])
    BY FS_Subset DEF Finite, StoreInv, Tidy
  <1>2. table \cap pending[s] = {}
    BY DEF StoreInv, Apart, KeysOf
  <1>3. Cardinality(table \cap pending[s]) = 0
    BY <1>2, FS_EmptySet
  <1>4. Cardinality(table) \in Nat /\ Cardinality(pending[s]) \in Nat
    BY <1>1, FS_CardinalityType
  <1>5. /\ IsFiniteSet(table \cup pending[s])
        /\ Cardinality(table \cup pending[s]) =
              Cardinality(table) + Cardinality(pending[s]) - Cardinality(table \cap pending[s])
    BY <1>1, FS_Union
  <1> QED
    BY <1>1, <1>3, <1>4, <1>5

(* The table and the batches stay finite. *)
LEMMA NextFinite ==
    ASSUME StoreInv, Finite, [Next]_vars
    PROVE  Finite'
  <1>1. CASE UNCHANGED vars
    BY <1>1 DEF vars, Finite
  <1>2. ASSUME NEW s \in Sessions, Step(s)
        PROVE  Finite'
    <2>1. table' = table \/ table' = table \cup pending[s]
      BY <1>2 DEF Step, Connect, CountStart, Copy, InsertRow, Wait, InsertEnds, CountEnd,
                  Commit, DeadlockDetected, ConnectionLost
    <2>2. IsFiniteSet(table')
      BY <2>1, CountsAddUp DEF Finite
    <2>3. staged'[s] \in {staged[s], {}} \cup Batches
      <3>1. CASE Connect(s)
        BY <3>1 DEF Connect, StoreInv, Shape
      <3>2. CASE ~Connect(s)
        BY <1>2, <3>2 DEF Step, CountStart, Copy, InsertRow, Wait, InsertEnds, CountEnd,
           Commit, DeadlockDetected, ConnectionLost, Forget, StoreInv, Shape
      <3> QED
        BY <3>1, <3>2
    <2>4. IsFiniteSet(staged'[s])
      BY <2>3, FS_EmptySet, StoreAssumption DEF Finite
    <2>5. \A t \in Sessions \ {s} : staged'[t] = staged[t]
      BY <1>2, StepOfOne DEF OthersStay
    <2> QED
      BY <2>2, <2>4, <2>5 DEF Finite
  <1> QED
    BY <1>1, <1>2 DEF Next, Step

(* The table only grows, and so does its count. *)
LEMMA CountGrows ==
    ASSUME StoreInv, Finite, NEW s \in Sessions,
           table' = table \/ table' = table \cup pending[s]
    PROVE  /\ Cardinality(table) \in Nat
           /\ Cardinality(table') \in Nat
           /\ Cardinality(table) <= Cardinality(table')
  <1>1. /\ Cardinality(table) \in Nat
        /\ Cardinality(pending[s]) \in Nat
        /\ Cardinality(table \cup pending[s]) = Cardinality(table) + Cardinality(pending[s])
    BY CountsAddUp
  <1>2. CASE table' = table
    BY <1>1, <1>2
  <1>3. CASE table' = table \cup pending[s]
    BY <1>1, <1>3
  <1> QED
    BY <1>2, <1>3

(* A step of session s keeps account of the counts of all sessions. *)
LEMMA StepCounted ==
    ASSUME CountInv, NEW s \in Sessions, Step(s)
    PROVE  CountShape' /\ \A t \in Sessions : Counted(t)'
  <1> USE DEF CountInv
  <1>1. table' = table \/ table' = table \cup pending[s]
    BY DEF Step, Connect, CountStart, Copy, InsertRow, Wait, InsertEnds, CountEnd,
           Commit, DeadlockDetected, ConnectionLost
  <1>2. /\ Cardinality(table) \in Nat
        /\ Cardinality(table') \in Nat
        /\ Cardinality(table) <= Cardinality(table')
        /\ Cardinality(pending[s]) \in Nat
        /\ Cardinality(table \cup pending[s]) = Cardinality(table) + Cardinality(pending[s])
    BY <1>1, CountGrows, CountsAddUp
  <1>3. OthersStay(s)
    BY StepOfOne
  <1>4. ASSUME NEW t \in Sessions \ {s}, CountShape',
               startCount'[t] = startCount[t], endCount'[t] = endCount[t],
               reported'[t] = reported[t], added'[t] = added[t]
        PROVE  Counted(t)'
    <2>1. startCount[t] \in Int
      BY DEF CountShape
    <2>2. Counted(t) /\ pc'[t] = pc[t] /\ pending'[t] = pending[t]
      BY <1>3 DEF OthersStay
    <2> QED
      BY <1>2, <1>4, <2>1, <2>2 DEF Counted
  <1> USE DEF StoreInv, Shape, CountShape
  <1>5. CASE Connect(s)
    <2>1. /\ UNCHANGED <<startCount, endCount, reported, added>>
          /\ pc'[s] = "counting"
      BY <1>5 DEF Connect, Goto
    <2>2. Counted(s)'
      BY <2>1 DEF Counted
    <2> QED
      BY <1>4, <2>1, <2>2
  <1>6. CASE CountStart(s)
    <2>1. /\ startCount' = [startCount EXCEPT ![s] = Cardinality(table)]
          /\ UNCHANGED <<table, endCount, reported, added>>
          /\ pc'[s] = "copying"
      BY <1>6 DEF CountStart, Goto
    <2>2. CountShape'
      BY <1>2, <2>1
    <2>3. startCount'[s] = Cardinality(table) /\ startCount'[s] <= Cardinality(table')
      BY <1>2, <2>1
    <2>4. Counted(s)'
      BY <2>1, <2>3 DEF Counted
    <2> QED
      BY <1>4, <2>1, <2>2, <2>4
  <1>7. CASE Copy(s) \/ InsertRow(s) \/ Wait(s) \/ InsertEnds(s)
    <2>1. /\ UNCHANGED <<table, startCount, endCount, reported, added>>
          /\ pc[s] \in {"copying", "inserting"}
          /\ pc'[s] \in {"inserting", "recounting"}
      BY <1>7 DEF Copy, InsertRow, Wait, InsertEnds, Goto
    <2>2. Counted(s)'
      BY <2>1 DEF Counted
    <2> QED
      BY <1>4, <2>1, <2>2
  <1>8. CASE CountEnd(s)
    <2>1. /\ endCount' = [endCount EXCEPT ![s] = Cardinality(table \cup pending[s])]
          /\ UNCHANGED <<table, pending, startCount, reported, added>>
          /\ pc[s] = "recounting"
          /\ pc'[s] = "committing"
      BY <1>8 DEF CountEnd, Goto
    <2>2. CountShape'
      BY <1>2, <2>1
    <2>3. startCount[s] \in Int /\ startCount[s] <= Cardinality(table)
      BY <2>1 DEF Counted
    <2>4. startCount'[s] + Cardinality(pending'[s]) <= endCount'[s]
      BY <1>2, <2>1, <2>3
    <2>5. Counted(s)'
      BY <2>1, <2>4 DEF Counted
    <2> QED
      BY <1>4, <2>1, <2>2, <2>5
  <1>9. CASE Commit(s)
    <2>1. /\ reported' = [reported EXCEPT ![s] = @ + (endCount[s] - startCount[s])]
          /\ added' = [added EXCEPT ![s] = @ + Cardinality(pending[s])]
          /\ startCount' = [startCount EXCEPT ![s] = 0]
          /\ endCount' = [endCount EXCEPT ![s] = 0]
          /\ pc[s] = "committing"
          /\ pc'[s] = "idle"
      BY <1>9 DEF Commit, Forget, Goto
    <2>2. CountShape'
      BY <1>2, <2>1
    <2>3. added'[s] <= reported'[s]
      <3>1. /\ startCount[s] + Cardinality(pending[s]) <= endCount[s]
            /\ added[s] <= reported[s]
        BY <2>1 DEF Counted
      <3> QED
        BY <1>2, <2>1, <3>1
    <2>4. Counted(s)'
      BY <2>1, <2>3 DEF Counted
    <2> QED
      BY <1>4, <2>1, <2>2, <2>4
  <1>10. CASE DeadlockDetected(s) \/ ConnectionLost(s)
    <2>1. /\ UNCHANGED <<reported, added>>
          /\ startCount' = [startCount EXCEPT ![s] = 0]
          /\ endCount' = [endCount EXCEPT ![s] = 0]
          /\ pc'[s] = "raised"
      BY <1>10 DEF DeadlockDetected, ConnectionLost, Forget, Goto
    <2>2. Counted(s)'
      BY <2>1 DEF Counted
    <2> QED
      BY <1>4, <2>1, <2>2
  <1> QED
    BY <1>5, <1>6, <1>7, <1>8, <1>9, <1>10 DEF Step

(* A step keeps the counts. *)
LEMMA NextCountInv == CountInv /\ [Next]_vars => CountInv'
  <1> SUFFICES ASSUME CountInv, [Next]_vars
               PROVE  CountInv'
    OBVIOUS
  <1>1. StoreInv' /\ Finite'
    BY NextStoreInv, NextFinite DEF CountInv
  <1>2. CASE UNCHANGED vars
    BY <1>1, <1>2 DEF vars, CountInv, CountShape, Counted
  <1>3. ASSUME NEW s \in Sessions, Step(s)
        PROVE  CountInv'
    BY <1>1, <1>3, StepCounted DEF CountInv
  <1> QED
    BY <1>2, <1>3 DEF Next, Step

LEMMA InitCountInv == Init => CountInv
  <1> SUFFICES ASSUME Init
               PROVE  CountInv
    OBVIOUS
  <1>1. Finite /\ CountShape /\ \A s \in Sessions : Counted(s)
    BY FS_EmptySet DEF Init, Finite, CountShape, Counted
  <1> QED
    BY <1>1, InitStoreInv DEF CountInv

(***************************************************************************)
(* The number of new rows that insert_candles returns misses none of its   *)
(* own: the table only grows between the two counts, and the second one is *)
(* of the pending rows, too.                                               *)
(***************************************************************************)
THEOREM CountsMissNone == Spec => []NeverUndercounts
  <1>1. CountInv => NeverUndercounts
    BY DEF CountInv, CountShape, Counted, NeverUndercounts
  <1> QED
    BY <1>1, InitCountInv, NextCountInv, PTL DEF Spec

-----------------------------------------------------------------------------
(* Types *)

(* The table holds candles; calls and faults keep to their bounds. *)
Bounded ==
    /\ table \subseteq Row
    /\ calls \in [Sessions -> 0..MaxCalls]
    /\ faults \in 0..MaxFaults

LEMMA NextBounded ==
    ASSUME StoreInv, Bounded, [Next]_vars
    PROVE  Bounded'
  <1>1. MaxCalls \in Nat /\ MaxFaults \in Nat
    BY StoreAssumption
  <1>2. CASE UNCHANGED vars
    BY <1>2 DEF vars, Bounded
  <1>3. ASSUME NEW s \in Sessions, Step(s)
        PROVE  Bounded'
    <2>1. table' \subseteq Row
      <3>1. table' = table \/ table' = table \cup pending[s]
        BY <1>3 DEF Step, Connect, CountStart, Copy, InsertRow, Wait, InsertEnds, CountEnd,
                    Commit, DeadlockDetected, ConnectionLost
      <3>2. pending[s] \subseteq Row
        BY DEF StoreInv, Shape
      <3> QED
        BY <3>1, <3>2 DEF Bounded
    <2>2. calls' \in [Sessions -> 0..MaxCalls]
      <3>1. CASE Connect(s)
        <4>1. calls' = [calls EXCEPT ![s] = calls[s] + 1] /\ calls[s] < MaxCalls
          BY <3>1 DEF Connect
        <4>2. calls[s] + 1 \in 0..MaxCalls
          BY <1>1, <4>1 DEF Bounded
        <4> QED
          BY <4>1, <4>2 DEF Bounded
      <3>2. CASE ~Connect(s)
        <4>1. calls' = calls
          BY <1>3, <3>2 DEF Step, CountStart, Copy, InsertRow, Wait, InsertEnds, CountEnd,
                            Commit, DeadlockDetected, ConnectionLost
        <4> QED
          BY <4>1 DEF Bounded
      <3> QED
        BY <3>1, <3>2
    <2>3. faults' \in 0..MaxFaults
      <3>1. faults' = faults \/ (faults < MaxFaults /\ faults' = faults + 1)
        BY <1>3 DEF Step, Connect, CountStart, Copy, InsertRow, Wait, InsertEnds, CountEnd,
                    Commit, DeadlockDetected, ConnectionLost
      <3> QED
        BY <1>1, <3>1 DEF Bounded
    <2> QED
      BY <2>1, <2>2, <2>3 DEF Bounded
  <1> QED
    BY <1>2, <1>3 DEF Next, Step

(***************************************************************************)
(* The types of all that the sessions keep.  That the numbers a call       *)
(* returns are never negative is no accident of types: the second count    *)
(* of a transaction is never less than its first.                          *)
(***************************************************************************)
THEOREM TypeCorrectness == Spec => []TypeOK
  <1>1. Init => CountInv /\ Bounded
    <2> SUFFICES ASSUME Init
                 PROVE  CountInv /\ Bounded
      OBVIOUS
    <2>1. Bounded
      BY StoreAssumption DEF Init, Bounded
    <2> QED
      BY <2>1, InitCountInv
  <1>2. CountInv /\ Bounded /\ [Next]_vars => CountInv' /\ Bounded'
    BY NextCountInv, NextBounded DEF CountInv
  <1>3. CountInv /\ Bounded => TypeOK
    <2> SUFFICES ASSUME CountInv, Bounded
                 PROVE  TypeOK
      OBVIOUS
    <2>1. reported \in [Sessions -> Nat]
      <3>1. \A s \in Sessions : added[s] \in Nat /\ reported[s] \in Int /\ added[s] <= reported[s]
        BY DEF CountInv, CountShape, Counted
      <3>2. \A s \in Sessions : reported[s] \in Nat
        BY <3>1
      <3> QED
        BY <3>2 DEF CountInv, CountShape
    <2>2. StoreInv /\ CountShape
      BY DEF CountInv
    <2> QED
      BY <2>1, <2>2 DEF Bounded, TypeOK, StoreInv, Shape, Tidy, CountShape
  <1> QED
    BY <1>1, <1>2, <1>3, PTL DEF Spec


=============================================================================
