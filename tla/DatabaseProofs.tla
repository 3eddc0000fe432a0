--------------------------- MODULE DatabaseProofs ---------------------------
(***************************************************************************)
(* Proofs, for every batch size and any number of runs and rows, that the   *)
(* connection keeps its counter in step with SQLite's transaction, that a   *)
(* run marked ended is complete, and that the connection implements the     *)
(* evidence log through every failing statement and every crash.            *)
(***************************************************************************)
EXTENDS Database, TLAPS

\* Facts about the connection alone: which phases it can be enabled in, and
\* that the run it writes is the newest one.
ConnectionIsConsistent ==
  /\ ~enabled => pendingRows = 0
  /\ phase = "closed" => ~enabled /\ runId = 0
  /\ phase = "finishing" => enabled /\ pendingRows = 0
  /\ runId # 0 => runId = newest
  /\ enabled => runId \in Run
  /\ phase # "finished" /\ runId \in Run => ~ended[runId]

\* The missing link between CounterTracksTransaction and EndedRunIsComplete:
\* while recording works, what was asked for is stored or in the transaction.
AskedIsStoredOrPending ==
  enabled => asked[runId] = stored[runId] \o transaction

Prefix(s, t) == Len(s) <= Len(t) /\ s = SubSeq(t, 1, Len(s))

\* What a failure leaves behind: a prefix, never a hole.
StoredIsPrefix == \A r \in Run : Prefix(stored[r], asked[r])

\* Nothing is known of the runs to come.
FutureRunsAreEmpty ==
  \A r \in Run : r > newest =>
    asked[r] = << >> /\ stored[r] = << >> /\ ~ended[r]

\* The inductive invariant.  None of EndedRunIsComplete, LossBelowOneBatch
\* and the refinement is inductive without AskedIsStoredOrPending, which in
\* turn needs the counter to agree with the transaction.
IInv == /\ TypeOK
        /\ CounterTracksTransaction
        /\ ConnectionIsConsistent
        /\ AskedIsStoredOrPending
        /\ StoredIsPrefix
        /\ FutureRunsAreEmpty
        /\ EndedRunIsComplete

-----------------------------------------------------------------------------
\* The empty sequence is one of rows.
LEMMA EmptySeq == << >> \in Seq(Row)
  OBVIOUS

\* A sequence is the prefix of itself of its own length.
LEMMA WholeSeq ==
  ASSUME NEW S, NEW s \in Seq(S)
  PROVE  SubSeq(s, 1, Len(s)) = s
  OBVIOUS

\* Append leaves the prefixes of a sequence as they are.
LEMMA AppendKeepsPrefix ==
  ASSUME NEW S, NEW s \in Seq(S), NEW e \in S, NEW n \in 0 .. Len(s)
  PROVE  SubSeq(Append(s, e), 1, n) = SubSeq(s, 1, n)
  OBVIOUS

\* Appending to a concatenation appends to its second part.
LEMMA AppendToConcat ==
  \A s, t \in Seq(Row), e \in Row : s \o Append(t, e) = Append(s \o t, e)
  OBVIOUS

\* The four record_* actions record some row.
LEMMA RecordsRow ==
  ASSUME RecordDevice \/ RecordEvent \/ RecordContext \/ RecordMatch
  PROVE  \E row \in Row : Record(row)
  BY DEF RecordDevice, RecordEvent, RecordContext, RecordMatch, DeviceRow, EventRow,
         ContextRow, MatchRow, Row

\* The invariant holds of an empty database without a connection.
LEMMA InitInvariant == Init => IInv
  <1> SUFFICES ASSUME Init PROVE IInv
    OBVIOUS
  <1> USE BatchSizeAssumption, MaxRunsAssumption DEF Init
  <1>1. TypeOK
    BY EmptySeq DEF TypeOK, Run
  <1>2. CounterTracksTransaction /\ ConnectionIsConsistent
    BY DEF CounterTracksTransaction, ConnectionIsConsistent, Run
  <1>3. AskedIsStoredOrPending /\ FutureRunsAreEmpty /\ EndedRunIsComplete
    BY DEF AskedIsStoredOrPending, FutureRunsAreEmpty, EndedRunIsComplete
  <1>4. StoredIsPrefix
    BY DEF StoredIsPrefix, Prefix
  <1> QED
    BY <1>1, <1>2, <1>3, <1>4 DEF IInv

\* A record_* call adds its row to what its run was asked for and leaves
\* every stored sequence a prefix.
LEMMA AskInvariant ==
  ASSUME TypeOK, StoredIsPrefix, NEW row \in Row, Ask(row)
  PROVE  /\ phase = "open"
         /\ asked' \in [Run -> Seq(Row)]
         /\ \A r \in Run : r # runId => asked'[r] = asked[r]
         /\ runId \in Run => asked'[runId] = Append(asked[runId], row)
         /\ \A r \in Run : Prefix(stored[r], asked'[r])
  <1>1. /\ phase = "open"
        /\ asked' \in [Run -> Seq(Row)]
        /\ \A r \in Run : r # runId => asked'[r] = asked[r]
        /\ runId \in Run => asked'[runId] = Append(asked[runId], row)
    <2>1. CASE runId \in Run
      <3>1. asked' = [asked EXCEPT ![runId] = Append(@, row)] /\ phase = "open"
        BY <2>1 DEF Ask
      <3>2. Append(asked[runId], row) \in Seq(Row)
        BY <2>1 DEF TypeOK
      <3> QED
        BY <2>1, <3>1, <3>2 DEF TypeOK
    <2>2. CASE runId \notin Run
      BY <2>2 DEF Ask, TypeOK
    <2> QED
      BY <2>1, <2>2
  <1>2. ASSUME NEW r \in Run PROVE Prefix(stored[r], asked'[r])
    <2>1. CASE r # runId
      BY <2>1, <1>1 DEF StoredIsPrefix
    <2>2. CASE r = runId
      <3>1. stored[r] \in Seq(Row) /\ asked[r] \in Seq(Row)
        BY DEF TypeOK
      <3>2. Prefix(stored[r], asked[r])
        BY DEF StoredIsPrefix
      <3>3. Len(stored[r]) \in 0 .. Len(asked[r])
        BY <3>1, <3>2 DEF Prefix
      <3>4. SubSeq(Append(asked[r], row), 1, Len(stored[r])) = stored[r]
        BY <3>1, <3>2, <3>3, AppendKeepsPrefix DEF Prefix
      <3>5. Len(Append(asked[r], row)) = Len(asked[r]) + 1
        BY <3>1
      <3> QED
        BY <3>3, <3>4, <3>5, <1>1, <2>2 DEF Prefix
    <2> QED
      BY <2>1, <2>2
  <1> QED
    BY <1>1, <1>2

\* An INSERT that does not fill its batch.
LEMMA InsertInvariant ==
  ASSUME IInv, NEW row \in Row, Accept(row),
         pendingRows + 1 < BatchSize,
         pendingRows' = pendingRows + 1,
         inTransaction' = TRUE,
         transaction' = Append(transaction, row),
         UNCHANGED <<enabled, stored>>
  PROVE  IInv'
  <1> USE DEF IInv
  <1>1. /\ enabled /\ phase = "open" /\ runId \in Run /\ runId = newest
        /\ UNCHANGED <<phase, runId, newest, ended>>
    BY DEF Accept, Ask, ConnectionIsConsistent, TypeOK, Run
  <1>2. /\ asked' \in [Run -> Seq(Row)]
        /\ \A r \in Run : r # runId => asked'[r] = asked[r]
        /\ asked'[runId] = Append(asked[runId], row)
        /\ \A r \in Run : Prefix(stored[r], asked'[r])
    BY <1>1, AskInvariant DEF Accept
  <1>3. Len(transaction') = Len(transaction) + 1 /\ transaction' \in Seq(Row)
    BY DEF TypeOK
  <1>4. TypeOK'
    BY <1>1, <1>2, <1>3 DEF TypeOK
  <1>5. CounterTracksTransaction'
    BY <1>1, <1>3, BatchSizeAssumption DEF CounterTracksTransaction, TypeOK
  <1>6. ConnectionIsConsistent'
    BY <1>1 DEF ConnectionIsConsistent
  <1>7. AskedIsStoredOrPending'
    <2>1. /\ stored[runId] \in Seq(Row) /\ transaction \in Seq(Row)
          /\ asked[runId] = stored[runId] \o transaction
      BY <1>1 DEF TypeOK, AskedIsStoredOrPending
    <2>2. stored[runId] \o Append(transaction, row) = Append(stored[runId] \o transaction, row)
      BY <2>1, AppendToConcat
    <2> QED
      BY <1>1, <1>2, <2>1, <2>2 DEF AskedIsStoredOrPending
  <1>8. StoredIsPrefix'
    BY <1>2 DEF StoredIsPrefix
  <1>9. FutureRunsAreEmpty' /\ EndedRunIsComplete'
    BY <1>1, <1>2 DEF FutureRunsAreEmpty, EndedRunIsComplete, ConnectionIsConsistent, Run, TypeOK
  <1> QED
    BY <1>4, <1>5, <1>6, <1>7, <1>8, <1>9

\* A COMMIT that works makes the asked rows and the stored rows the same.
LEMMA CommitInvariant ==
  ASSUME IInv, enabled, phase = "open",
         NEW rows \in Seq(Row), Commit(rows), UNCHANGED <<enabled, runId, newest, ended>>,
         phase' \in {"open", "finishing"},
         asked' \in [Run -> Seq(Row)],
         \A r \in Run : r # runId => asked'[r] = asked[r],
         asked'[runId] = stored[runId] \o rows
  PROVE  IInv' /\ stored'[runId] = asked'[runId]
  <1> USE DEF IInv
  <1>1. runId \in Run /\ runId = newest /\ ~ended[runId]
    BY DEF ConnectionIsConsistent, Run
  <1>2. /\ stored' \in [Run -> Seq(Row)]
        /\ \A r \in Run : r # runId => stored'[r] = stored[r]
        /\ stored'[runId] = asked'[runId]
        /\ pendingRows' = 0 /\ inTransaction' = FALSE /\ transaction' = << >>
    BY <1>1 DEF Commit, TypeOK
  <1>3. TypeOK'
    BY <1>1, <1>2, EmptySeq DEF TypeOK
  <1>4. CounterTracksTransaction'
    BY <1>2, BatchSizeAssumption DEF CounterTracksTransaction
  <1>5. ConnectionIsConsistent'
    BY <1>1, <1>2 DEF ConnectionIsConsistent
  <1>6. AskedIsStoredOrPending'
    <2>1. stored'[runId] \in Seq(Row)
      BY <1>1, <1>2
    <2>2. stored'[runId] = stored'[runId] \o << >>
      BY <2>1
    <2> QED
      BY <1>2, <2>2 DEF AskedIsStoredOrPending
  <1>7. StoredIsPrefix'
    <2> SUFFICES ASSUME NEW r \in Run PROVE Prefix(stored'[r], asked'[r])
      BY DEF StoredIsPrefix, Prefix
    <2>1. CASE r # runId
      BY <2>1, <1>2 DEF StoredIsPrefix
    <2>2. CASE r = runId
      <3>1. stored'[r] = asked'[r] /\ stored'[r] \in Seq(Row)
        BY <2>2, <1>2
      <3> QED
        BY <3>1, WholeSeq DEF Prefix
    <2> QED
      BY <2>1, <2>2
  <1>8. FutureRunsAreEmpty' /\ EndedRunIsComplete'
    <2>1. ASSUME NEW r \in Run, r > newest
          PROVE  asked'[r] = << >> /\ stored'[r] = << >> /\ ~ended'[r]
      <3>1. r # runId
        BY <1>1, <2>1 DEF Run
      <3> QED
        BY <2>1, <3>1, <1>2 DEF FutureRunsAreEmpty
    <2>2. EndedRunIsComplete'
      BY <1>1, <1>2 DEF EndedRunIsComplete
    <2> QED
      BY <2>1, <2>2 DEF FutureRunsAreEmpty
  <1> QED
    BY <1>2, <1>3, <1>4, <1>5, <1>6, <1>7, <1>8

\* disable() preserves the invariant in whatever call it happens: the run
\* keeps a prefix and is not ended.
LEMMA DisableInvariant ==
  ASSUME IInv, Disable, UNCHANGED <<runId, file>>,
         phase \in {"open", "finishing"},
         phase' \in {"open", "finished"},
         asked' \in [Run -> Seq(Row)],
         \A r \in Run : r # runId => asked'[r] = asked[r],
         \A r \in Run : Prefix(stored[r], asked'[r])
  PROVE  IInv'
  <1> USE DEF IInv
  <1>1. /\ runId # 0 => runId = newest
        /\ runId \in Run => ~ended[runId]
    BY DEF ConnectionIsConsistent
  <1>2. /\ enabled' = FALSE /\ pendingRows' = 0 /\ inTransaction' = FALSE /\ transaction' = << >>
        /\ UNCHANGED <<runId, newest, stored, ended>>
    BY DEF Disable, file
  <1>3. TypeOK'
    BY <1>2, EmptySeq DEF TypeOK
  <1>4. CounterTracksTransaction' /\ ConnectionIsConsistent' /\ AskedIsStoredOrPending'
    BY <1>1, <1>2, BatchSizeAssumption
    DEF CounterTracksTransaction, ConnectionIsConsistent, AskedIsStoredOrPending
  <1>5. StoredIsPrefix'
    BY <1>2 DEF StoredIsPrefix, Prefix
  <1>6. FutureRunsAreEmpty' /\ EndedRunIsComplete'
    BY <1>1, <1>2 DEF FutureRunsAreEmpty, EndedRunIsComplete, Run, TypeOK
  <1> QED
    BY <1>3, <1>4, <1>5, <1>6

\* A record_* call that returns an id preserves the invariant.
LEMMA AcceptInvariant ==
  ASSUME IInv, NEW row \in Row, Accept(row)
  PROVE  IInv'
  <1>1. TypeOK /\ StoredIsPrefix /\ ConnectionIsConsistent /\ AskedIsStoredOrPending
    BY DEF IInv
  <1>2. /\ enabled /\ Ask(row) /\ CommitIfFull(row)
        /\ UNCHANGED <<phase, runId, newest, ended>>
    BY DEF Accept
  <1>3. /\ phase = "open" /\ runId \in Run
        /\ asked' \in [Run -> Seq(Row)]
        /\ \A r \in Run : r # runId => asked'[r] = asked[r]
        /\ asked'[runId] = Append(asked[runId], row)
        /\ \A r \in Run : Prefix(stored[r], asked'[r])
    BY <1>1, <1>2, AskInvariant DEF ConnectionIsConsistent
  <1>4. CASE /\ pendingRows + 1 < BatchSize
             /\ pendingRows' = pendingRows + 1
             /\ inTransaction' = TRUE
             /\ transaction' = Append(transaction, row)
             /\ UNCHANGED <<enabled, stored>>
    BY <1>4, InsertInvariant
  <1>5. CASE Commit(Append(transaction, row)) /\ UNCHANGED enabled
    <2> DEFINE rows == Append(transaction, row)
    <2>1. rows \in Seq(Row)
      BY <1>1 DEF TypeOK
    <2>2. asked'[runId] = stored[runId] \o rows
      <3>1. stored[runId] \in Seq(Row) /\ transaction \in Seq(Row)
        BY <1>1, <1>3 DEF TypeOK
      <3>2. asked[runId] = stored[runId] \o transaction
        BY <1>1, <1>2 DEF AskedIsStoredOrPending
      <3> QED
        BY <1>3, <3>1, <3>2, AppendToConcat
    <2>3. phase' \in {"open", "finishing"}
      BY <1>2, <1>3
    <2> HIDE DEF rows
    <2>4. Commit(rows)
      BY <1>5 DEF rows
    <2> QED
      BY <1>2, <1>3, <1>5, <2>1, <2>2, <2>3, <2>4, CommitInvariant
  <1>6. CASE Disable /\ UNCHANGED stored
    <2>1. UNCHANGED <<runId, file>>
      BY <1>2, <1>6 DEF file
    <2>2. phase \in {"open", "finishing"} /\ phase' \in {"open", "finished"}
      BY <1>2, <1>3
    <2> QED
      BY <1>2, <1>3, <1>6, <2>1, <2>2, DisableInvariant
  <1> QED
    BY <1>2, <1>4, <1>5, <1>6 DEF CommitIfFull

\* A record_* call that returns 0 preserves the invariant, whether it fails
\* now or the connection failed before.
LEMMA RejectInvariant ==
  ASSUME IInv, NEW row \in Row, Reject(row)
  PROVE  IInv'
  <1>1. TypeOK /\ StoredIsPrefix
    BY DEF IInv
  <1>2. Ask(row) /\ UNCHANGED <<phase, runId, file>>
    BY DEF Reject
  <1>3. /\ phase = "open"
        /\ asked' \in [Run -> Seq(Row)]
        /\ \A r \in Run : r # runId => asked'[r] = asked[r]
        /\ \A r \in Run : Prefix(stored[r], asked'[r])
    BY <1>1, <1>2, AskInvariant
  <1>4. CASE enabled /\ Disable
    <2>1. phase \in {"open", "finishing"} /\ phase' \in {"open", "finished"}
      BY <1>2, <1>3
    <2> QED
      BY <1>2, <1>3, <1>4, <2>1, DisableInvariant
  <1>5. CASE ~enabled /\ UNCHANGED <<enabled, pendingRows, inTransaction, transaction>>
    <2> USE DEF IInv
    <2>1. /\ UNCHANGED <<phase, enabled, runId, pendingRows, inTransaction, transaction,
                         newest, stored, ended>>
          /\ ~enabled'
      BY <1>2, <1>5 DEF file
    <2>2. TypeOK'
      BY <1>3, <2>1 DEF TypeOK
    <2>3. CounterTracksTransaction' /\ ConnectionIsConsistent' /\ AskedIsStoredOrPending'
      BY <2>1 DEF CounterTracksTransaction, ConnectionIsConsistent, AskedIsStoredOrPending
    <2>4. StoredIsPrefix'
      BY <1>3, <2>1 DEF StoredIsPrefix, Prefix
    <2>5. FutureRunsAreEmpty'
      <3>1. ASSUME NEW r \in Run, r > newest
            PROVE  asked'[r] = << >> /\ stored'[r] = << >> /\ ~ended'[r]
        <4>1. r # runId
          BY <3>1 DEF ConnectionIsConsistent, Run, TypeOK
        <4> QED
          BY <1>3, <2>1, <3>1, <4>1 DEF FutureRunsAreEmpty
      <3> QED
        BY <2>1, <3>1 DEF FutureRunsAreEmpty
    <2>6. EndedRunIsComplete'
      BY <1>3, <2>1 DEF EndedRunIsComplete, ConnectionIsConsistent
    <2> QED
      BY <2>2, <2>3, <2>4, <2>5, <2>6
  <1> QED
    BY <1>4, <1>5 DEF Reject

\* open() starts an empty run, or leaves persistence off.
LEMMA OpenInvariant ==
  ASSUME IInv, Open
  PROVE  IInv'
  <1> USE DEF IInv
  <1>1. /\ phase' = "open" /\ ~enabled /\ runId = 0 /\ pendingRows = 0
        /\ UNCHANGED <<pendingRows, inTransaction, transaction, stored, ended, asked>>
    BY DEF Open, ConnectionIsConsistent
  <1>2. transaction = << >> /\ ~inTransaction
    <2>1. Len(transaction) = 0 /\ transaction \in Seq(Row)
      BY <1>1 DEF CounterTracksTransaction, TypeOK
    <2>2. ~(pendingRows > 0)
      BY <1>1
    <2> QED
      BY <2>1, <2>2 DEF CounterTracksTransaction
  <1>3. \/ /\ newest + 1 \in Run /\ newest' = newest + 1 /\ runId' = newest + 1
           /\ enabled' = TRUE
        \/ enabled' = FALSE /\ UNCHANGED <<newest, runId>>
    BY MaxRunsAssumption DEF Open, TypeOK, Run
  <1>4. TypeOK' /\ CounterTracksTransaction'
    BY <1>1, <1>3 DEF TypeOK, CounterTracksTransaction
  <1>5. newest + 1 \in Run =>
          asked[newest + 1] = << >> /\ stored[newest + 1] = << >> /\ ~ended[newest + 1]
    BY DEF FutureRunsAreEmpty, TypeOK, Run
  <1>6. ConnectionIsConsistent'
    BY <1>1, <1>3, <1>5 DEF ConnectionIsConsistent, Run
  <1>7. AskedIsStoredOrPending'
    BY <1>1, <1>2, <1>3, <1>5, EmptySeq DEF AskedIsStoredOrPending
  <1>8. StoredIsPrefix' /\ EndedRunIsComplete'
    BY <1>1 DEF StoredIsPrefix, EndedRunIsComplete, Prefix
  <1>9. FutureRunsAreEmpty'
    BY <1>1, <1>3, MaxRunsAssumption DEF FutureRunsAreEmpty, Run, TypeOK
  <1> QED
    BY <1>4, <1>6, <1>7, <1>8, <1>9

\* The first half of finish() commits the last batch, or disables.
LEMMA FinishCommitInvariant ==
  ASSUME IInv, FinishCommit
  PROVE  IInv'
  <1>1. /\ TypeOK /\ CounterTracksTransaction /\ StoredIsPrefix /\ ConnectionIsConsistent
        /\ AskedIsStoredOrPending
    BY DEF IInv
  <1>2. phase = "open" /\ UNCHANGED <<runId, newest, ended, asked>>
    BY DEF FinishCommit
  <1>3. CASE enabled /\ Commit(transaction) /\ phase' = "finishing" /\ UNCHANGED enabled
    <2>1. transaction \in Seq(Row) /\ asked' \in [Run -> Seq(Row)]
      BY <1>1, <1>2 DEF TypeOK
    <2>2. asked'[runId] = stored[runId] \o transaction
      BY <1>1, <1>2, <1>3 DEF AskedIsStoredOrPending
    <2>3. phase' \in {"open", "finishing"} /\ \A r \in Run : r # runId => asked'[r] = asked[r]
      BY <1>2, <1>3
    <2> QED
      BY <1>2, <1>3, <2>1, <2>2, <2>3, CommitInvariant
  <1>4. CASE enabled /\ Disable /\ phase' = "finished" /\ UNCHANGED stored
    <2>1. /\ asked' \in [Run -> Seq(Row)]
          /\ \A r \in Run : r # runId => asked'[r] = asked[r]
          /\ \A r \in Run : Prefix(stored[r], asked'[r])
      BY <1>1, <1>2 DEF TypeOK, StoredIsPrefix
    <2>2. phase \in {"open", "finishing"} /\ phase' \in {"open", "finished"}
      BY <1>2, <1>4
    <2>3. UNCHANGED <<runId, file>>
      BY <1>2, <1>4 DEF file
    <2> QED
      BY <1>2, <1>4, <2>1, <2>2, <2>3, DisableInvariant
  <1>5. CASE /\ enabled => pendingRows = 0
             /\ phase' = IF enabled THEN "finishing" ELSE "finished"
             /\ UNCHANGED <<enabled, pendingRows, inTransaction, transaction, stored>>
    BY <1>2, <1>5
    DEF IInv, TypeOK, CounterTracksTransaction, ConnectionIsConsistent, AskedIsStoredOrPending,
        StoredIsPrefix, Prefix, FutureRunsAreEmpty, EndedRunIsComplete
  <1> QED
    BY <1>3, <1>4, <1>5 DEF FinishCommit

\* The second half of finish() ends a run whose transaction is empty.
LEMMA FinishUpdateInvariant ==
  ASSUME IInv, FinishUpdate
  PROVE  IInv'
  <1>1. /\ TypeOK /\ CounterTracksTransaction /\ StoredIsPrefix /\ ConnectionIsConsistent
        /\ AskedIsStoredOrPending /\ FutureRunsAreEmpty /\ EndedRunIsComplete
    BY DEF IInv
  <1>2. /\ phase = "finishing" /\ phase' = "finished" /\ enabled
        /\ UNCHANGED <<runId, newest, stored, asked>>
    BY <1>1 DEF FinishUpdate, ConnectionIsConsistent
  <1>3. CASE /\ ended' = [ended EXCEPT ![runId] = TRUE]
             /\ UNCHANGED <<enabled, pendingRows, inTransaction, transaction>>
    <2>1. runId \in Run /\ runId = newest /\ transaction = << >>
      BY <1>1, <1>2 DEF ConnectionIsConsistent, CounterTracksTransaction, TypeOK, Run
    <2>2. stored[runId] = asked[runId]
      <3>1. stored[runId] \in Seq(Row)
        BY <1>1, <2>1 DEF TypeOK
      <3> QED
        BY <1>1, <1>2, <2>1, <3>1 DEF AskedIsStoredOrPending
    <2>3. TypeOK' /\ CounterTracksTransaction' /\ ConnectionIsConsistent'
      BY <1>1, <1>2, <1>3 DEF TypeOK, CounterTracksTransaction, ConnectionIsConsistent
    <2>4. AskedIsStoredOrPending' /\ StoredIsPrefix'
      BY <1>1, <1>2, <1>3 DEF AskedIsStoredOrPending, StoredIsPrefix, Prefix
    <2>5. EndedRunIsComplete'
      BY <1>1, <1>2, <1>3, <2>2 DEF EndedRunIsComplete, TypeOK
    <2>6. FutureRunsAreEmpty'
      BY <1>1, <1>2, <1>3, <2>1 DEF FutureRunsAreEmpty, TypeOK, Run
    <2> QED
      BY <2>3, <2>4, <2>5, <2>6 DEF IInv
  <1>4. CASE Disable /\ UNCHANGED ended
    <2>1. /\ asked' \in [Run -> Seq(Row)]
          /\ \A r \in Run : r # runId => asked'[r] = asked[r]
          /\ \A r \in Run : Prefix(stored[r], asked'[r])
      BY <1>1, <1>2 DEF TypeOK, StoredIsPrefix
    <2>2. phase \in {"open", "finishing"} /\ phase' \in {"open", "finished"}
      BY <1>2
    <2>3. UNCHANGED <<runId, file>>
      BY <1>2, <1>4 DEF file
    <2> QED
      BY <1>2, <1>4, <2>1, <2>2, <2>3, DisableInvariant
  <1> QED
    BY <1>3, <1>4 DEF FinishUpdate

\* The end of a process keeps the file and forgets everything else.
LEMMA ExitInvariant ==
  ASSUME IInv, Exit
  PROVE  IInv'
  <1> USE DEF IInv
  <1>1. /\ phase' = "closed" /\ enabled' = FALSE /\ runId' = 0 /\ pendingRows' = 0
        /\ inTransaction' = FALSE /\ transaction' = << >>
        /\ UNCHANGED <<newest, stored, ended, asked>>
    BY DEF Exit, file
  <1>2. TypeOK'
    BY <1>1, EmptySeq DEF TypeOK
  <1>3. CounterTracksTransaction'
    BY <1>1, BatchSizeAssumption DEF CounterTracksTransaction
  <1>4. ConnectionIsConsistent' /\ AskedIsStoredOrPending'
    BY <1>1 DEF ConnectionIsConsistent, AskedIsStoredOrPending, Run
  <1>5. StoredIsPrefix' /\ FutureRunsAreEmpty' /\ EndedRunIsComplete'
    BY <1>1 DEF StoredIsPrefix, Prefix, FutureRunsAreEmpty, EndedRunIsComplete
  <1> QED
    BY <1>2, <1>3, <1>4, <1>5

\* Every step preserves the invariant.
LEMMA NextInvariant == IInv /\ [Next]_vars => IInv'
  <1> SUFFICES ASSUME IInv, [Next]_vars PROVE IInv'
    OBVIOUS
  <1>1. CASE Open
    BY <1>1, OpenInvariant
  <1>2. CASE Close \/ Crash
    BY <1>2, ExitInvariant DEF Close, Crash
  <1>3. CASE RecordDevice \/ RecordEvent \/ RecordContext \/ RecordMatch
    <2>1. PICK row \in Row : Record(row)
      BY <1>3, RecordsRow
    <2> QED
      BY <2>1, AcceptInvariant, RejectInvariant DEF Record
  <1>4. CASE FinishCommit
    BY <1>4, FinishCommitInvariant
  <1>5. CASE FinishUpdate
    BY <1>5, FinishUpdateInvariant
  <1>6. CASE UNCHANGED vars
    BY <1>6
    DEF vars, connection, file, IInv, TypeOK, CounterTracksTransaction, ConnectionIsConsistent,
        AskedIsStoredOrPending, StoredIsPrefix, Prefix, FutureRunsAreEmpty, EndedRunIsComplete
  <1> QED
    BY <1>1, <1>2, <1>3, <1>4, <1>5, <1>6 DEF Next

\* The invariant holds in every reachable state.
LEMMA Inductive == Spec => []IInv
  <1> QED
    BY InitInvariant, NextInvariant, PTL DEF Spec

-----------------------------------------------------------------------------
\* Type correctness of the connection, the file and the history.
THEOREM DatabaseTypeOK == Spec => []TypeOK
  <1>1. IInv => TypeOK
    BY DEF IInv
  <1> QED
    BY <1>1, Inductive, PTL

\* pending_rows_ and SQLite's transaction agree between any two calls, so no
\* BEGIN is issued inside a transaction and no row is left uncommitted.
THEOREM CounterAgrees == Spec => []CounterTracksTransaction
  <1>1. IInv => CounterTracksTransaction
    BY DEF IInv
  <1> QED
    BY <1>1, Inductive, PTL

\* A run whose ended_wallclock_us is set has every row the collector was
\* asked to record in it.
THEOREM EndedRunsAreComplete == Spec => []EndedRunIsComplete
  <1>1. IInv => EndedRunIsComplete
    BY DEF IInv
  <1> QED
    BY <1>1, Inductive, PTL

\* A crash of a connection that works loses fewer rows than batch_size_.
THEOREM CrashLosesLessThanOneBatch == Spec => []LossBelowOneBatch
  <1>1. IInv => LossBelowOneBatch
    <2> SUFFICES ASSUME IInv, enabled
                 PROVE  Len(asked[runId]) - Len(stored[runId]) < BatchSize
      BY DEF LossBelowOneBatch
    <2>1. /\ stored[runId] \in Seq(Row) /\ transaction \in Seq(Row)
          /\ asked[runId] = stored[runId] \o transaction
          /\ Len(transaction) < BatchSize
      BY DEF IInv, TypeOK, ConnectionIsConsistent, AskedIsStoredOrPending,
             CounterTracksTransaction
    <2>2. Len(asked[runId]) = Len(stored[runId]) + Len(transaction)
      BY <2>1
    <2> QED
      BY <2>1, <2>2, BatchSizeAssumption
  <1> QED
    BY <1>1, Inductive, PTL

-----------------------------------------------------------------------------
\* A step that asks for a row, or not, and changes what is stored of the
\* newest run to a longer prefix is a step of the evidence log.
LEMMA ExtendsLog ==
  ASSUME newest \in Run, ~ended[newest],
         asked \in [Run -> Seq(Row)], asked' \in [Run -> Seq(Row)],
         stored \in [Run -> Seq(Row)], stored' \in [Run -> Seq(Row)],
         \/ UNCHANGED asked
         \/ \E row \in Row : asked' = [asked EXCEPT ![newest] = Append(@, row)],
         \A r \in Run : r # newest => stored'[r] = stored[r],
         Len(stored[newest]) <= Len(stored'[newest]),
         Prefix(stored'[newest], asked'[newest]),
         UNCHANGED <<newest, ended>>
  PROVE  Log!Next
  <1> DEFINE n == Len(stored'[newest])
  <1>1. n \in Len(stored[newest]) .. Len(asked'[newest])
    <2>1. /\ Len(stored[newest]) \in Nat /\ Len(stored'[newest]) \in Nat
          /\ Len(asked'[newest]) \in Nat
      OBVIOUS
    <2> QED
      BY <2>1 DEF Prefix
  <1>2. stored' = [stored EXCEPT ![newest] = SubSeq(asked'[newest], 1, n)]
    BY DEF Prefix
  <1>3. Log!Extend
    BY <1>1, <1>2 DEF Log!Extend, Log!Run, Run
  <1> QED
    BY <1>3 DEF Log!Next

\* A record_* call is one step of the log, or none when there is no run.
LEMMA RecordRefines ==
  ASSUME IInv, IInv', NEW row \in Row, Record(row)
  PROVE  [Log!Next]_Log!vars
  <1>1. Ask(row) /\ UNCHANGED <<runId, newest, ended>>
    BY DEF Record, Accept, Reject, file
  <1>2. CASE runId \in Run
    <2>1. /\ newest = runId /\ newest \in Run /\ ~ended[newest]
          /\ asked' = [asked EXCEPT ![newest] = Append(@, row)]
      BY <1>1, <1>2 DEF IInv, ConnectionIsConsistent, Ask, Run
    <2>2. /\ asked \in [Run -> Seq(Row)] /\ asked' \in [Run -> Seq(Row)]
          /\ stored \in [Run -> Seq(Row)] /\ stored' \in [Run -> Seq(Row)]
          /\ Prefix(stored'[newest], asked'[newest])
      BY <2>1, <1>1 DEF IInv, TypeOK, StoredIsPrefix
    <2>3. /\ \A r \in Run : r # newest => stored'[r] = stored[r]
          /\ Len(stored[newest]) <= Len(stored'[newest])
      <3>1. CASE UNCHANGED stored
        <4>1. Len(stored[newest]) \in Nat
          BY <2>1, <2>2
        <4> QED
          BY <3>1, <4>1
      <3>2. CASE Commit(Append(transaction, row))
        <4>1. stored' = [stored EXCEPT ![newest] = @ \o Append(transaction, row)]
          BY <2>1, <3>2 DEF Commit
        <4>2. stored[newest] \in Seq(Row) /\ Append(transaction, row) \in Seq(Row)
          BY <2>1, <2>2 DEF IInv, TypeOK
        <4>3. Len(stored'[newest]) = Len(stored[newest]) + Len(Append(transaction, row))
          BY <2>1, <2>2, <4>1, <4>2
        <4> QED
          BY <2>1, <2>2, <4>1, <4>2, <4>3
      <3> QED
        BY <3>1, <3>2 DEF Record, Accept, Reject, CommitIfFull, file
    <2> QED
      BY <1>1, <2>1, <2>2, <2>3, ExtendsLog
  <1>3. CASE runId \notin Run
    <2>1. ~enabled
      BY <1>3 DEF IInv, ConnectionIsConsistent
    <2>2. UNCHANGED <<asked, stored, newest, ended>>
      BY <1>1, <1>3, <2>1 DEF Ask, Record, Accept, Reject, file
    <2> QED
      BY <2>2 DEF Log!vars
  <1> QED
    BY <1>2, <1>3

\* The first half of finish() stores the rest of the run, or nothing.
LEMMA FinishCommitRefines ==
  ASSUME IInv, IInv', FinishCommit
  PROVE  [Log!Next]_Log!vars
  <1>1. phase = "open" /\ UNCHANGED <<runId, newest, ended, asked>>
    BY DEF FinishCommit
  <1>2. CASE UNCHANGED stored
    BY <1>1, <1>2 DEF Log!vars
  <1>3. CASE enabled /\ Commit(transaction)
    <2>0. newest = runId /\ newest \in Run /\ ~ended[newest]
      BY <1>1, <1>3 DEF IInv, ConnectionIsConsistent, Run
    <2>1. /\ newest = runId /\ newest \in Run /\ ~ended[newest]
          /\ stored' = [stored EXCEPT ![newest] = @ \o transaction]
      BY <1>3, <2>0 DEF Commit
    <2>2. /\ asked \in [Run -> Seq(Row)] /\ asked' \in [Run -> Seq(Row)]
          /\ stored \in [Run -> Seq(Row)] /\ stored' \in [Run -> Seq(Row)]
          /\ transaction \in Seq(Row)
          /\ Prefix(stored'[newest], asked'[newest])
      BY <2>1, <1>1 DEF IInv, TypeOK, StoredIsPrefix
    <2>3. Len(stored'[newest]) = Len(stored[newest]) + Len(transaction)
      BY <2>1, <2>2
    <2>4. Len(stored[newest]) <= Len(stored'[newest])
      BY <2>1, <2>2, <2>3
    <2>5. \A r \in Run : r # newest => stored'[r] = stored[r]
      BY <2>1, <2>2
    <2> QED
      BY <1>1, <2>1, <2>2, <2>4, <2>5, ExtendsLog
  <1> QED
    BY <1>2, <1>3 DEF FinishCommit

\* The second half of finish() ends a run that is stored completely.
LEMMA FinishUpdateRefines ==
  ASSUME IInv, IInv', FinishUpdate
  PROVE  [Log!Next]_Log!vars
  <1>1. phase = "finishing" /\ UNCHANGED <<runId, newest, stored, asked>>
    BY DEF FinishUpdate
  <1>2. CASE UNCHANGED ended
    BY <1>1, <1>2 DEF Log!vars
  <1>3. CASE ended' = [ended EXCEPT ![runId] = TRUE]
    <2>1. newest = runId /\ newest \in Run /\ ~ended[newest]
      BY <1>1 DEF IInv, ConnectionIsConsistent, Run
    <2>2. ended'[newest]
      BY <1>3, <2>1 DEF IInv, TypeOK
    <2>3. stored[newest] = asked[newest]
      BY <1>1, <2>1, <2>2 DEF IInv, EndedRunIsComplete
    <2>4. Log!EndRun
      BY <1>1, <1>3, <2>1, <2>3 DEF Log!EndRun, Log!Run, Run
    <2> QED
      BY <2>4 DEF Log!Next
  <1> QED
    BY <1>2, <1>3 DEF FinishUpdate

\* Every step of the connection is a step of the evidence log or a stutter.
LEMMA StepRefines ==
  ASSUME IInv, IInv', [Next]_vars
  PROVE  [Log!Next]_Log!vars
  <1>1. CASE Open
    <2>1. CASE newest' = newest + 1 /\ newest < MaxRuns
      <3>1. newest + 1 \in Run
        BY <2>1, MaxRunsAssumption DEF IInv, TypeOK, Run
      <3>2. Log!StartRun
        BY <1>1, <2>1, <3>1 DEF Open, Log!StartRun, Log!Run, Run
      <3> QED
        BY <3>2 DEF Log!Next
    <2>2. CASE UNCHANGED newest
      BY <1>1, <2>2 DEF Open, Log!vars
    <2> QED
      BY <1>1, <2>1, <2>2 DEF Open
  <1>2. CASE Close \/ Crash
    BY <1>2 DEF Close, Crash, Exit, file, Log!vars
  <1>3. CASE RecordDevice \/ RecordEvent \/ RecordContext \/ RecordMatch
    <2>1. PICK row \in Row : Record(row)
      BY <1>3, RecordsRow
    <2> QED
      BY <2>1, RecordRefines
  <1>4. CASE FinishCommit
    BY <1>4, FinishCommitRefines
  <1>5. CASE FinishUpdate
    BY <1>5, FinishUpdateRefines
  <1>6. CASE UNCHANGED vars
    BY <1>6 DEF vars, connection, file, Log!vars
  <1> QED
    BY <1>1, <1>2, <1>3, <1>4, <1>5, <1>6 DEF Next

\* The connection implements the evidence log: what a reader finds of a run
\* is a prefix of what was asked for, and an ended run is all of it, for ever.
THEOREM DatabaseImplementsLog == Spec => ImplementsEvidenceLog
  <1>1. Init => Log!Init
    BY DEF Init, Log!Init, Run, Log!Run
  <1>2. IInv /\ IInv' /\ [Next]_vars => [Log!Next]_Log!vars
    BY StepRefines
  <1> QED
    BY <1>1, <1>2, Inductive, PTL DEF Spec, ImplementsEvidenceLog, Log!Spec
=============================================================================
