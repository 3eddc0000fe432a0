------------------------------ MODULE Database ------------------------------
(***************************************************************************)
(* The collector's one SQLite connection and its batching of rows into      *)
(* transactions (class Database, collector/src/main.cpp).  The class keeps  *)
(* a row counter, pending_rows_, and decides from it alone when to BEGIN    *)
(* and when to COMMIT; SQLite keeps the transaction itself.  Any statement  *)
(* may fail (busy, full, I/O error): the class then rolls back and disables *)
(* itself for the rest of the process.  The process may also crash at any   *)
(* moment, and a new one may open the same file.                            *)
(*                                                                          *)
(* Only the main thread calls the class, so a call is one action; finish()  *)
(* is two, for a crash between its COMMIT and its UPDATE is visible.        *)
(***************************************************************************)
EXTENDS Integers, Sequences

CONSTANTS Item,        \* what the rows are about
          BatchSize,   \* batch_size_: 128
          MaxRuns,     \* model bound on the runs of one database file
          MaxAsked     \* model bound on the record_* calls of one run

ASSUME BatchSizeAssumption == BatchSize \in Nat \ {0}
ASSUME MaxRunsAssumption == MaxRuns \in Nat
ASSUME MaxAskedAssumption == MaxAsked \in Nat

Run == 1 .. MaxRuns

\* A row of devices, raw_input_events, pointer_context or
\* input_context_matches.
Row == [table : {"device", "event", "context", "match"}, of : Item]

VARIABLES phase,         \* "closed", "open", "finishing" or "finished"
          enabled,       \* enabled_
          runId,         \* run_id_; 0 before open() created the run
          pendingRows,   \* pending_rows_
          inTransaction, \* SQLite: a BEGIN was neither committed nor rolled back
          transaction,   \* SQLite: the rows of the open transaction
          newest,        \* SQLite: the last row of collector_runs
          stored,        \* SQLite: the committed rows of each run
          ended,         \* SQLite: the runs whose ended_wallclock_us is set
          asked          \* history: the record_* calls of each run

connection == <<phase, enabled, runId, pendingRows>>
file == <<newest, stored, ended>>
vars == <<connection, inTransaction, transaction, file, asked>>

Init == /\ phase = "closed"
        /\ enabled = FALSE
        /\ runId = 0
        /\ pendingRows = 0
        /\ inTransaction = FALSE
        /\ transaction = << >>
        /\ newest = 0
        /\ stored = [r \in Run |-> << >>]
        /\ ended = [r \in Run |-> FALSE]
        /\ asked = [r \in Run |-> << >>]

-----------------------------------------------------------------------------
\* Faulty variants of disable(): the row counter is not reset; the class
\* goes on as if nothing had failed.
DisableKeepsCounter == /\ enabled' = FALSE
                       /\ inTransaction' = FALSE
                       /\ transaction' = << >>
                       /\ UNCHANGED pendingRows

DisableStaysEnabled == /\ pendingRows' = 0
                       /\ inTransaction' = FALSE
                       /\ transaction' = << >>
                       /\ UNCHANGED enabled

\* disable(): ROLLBACK, and nothing is recorded from now on.
Disable == /\ enabled' = FALSE
           /\ pendingRows' = 0
           /\ inTransaction' = FALSE
           /\ transaction' = << >>

\* Faulty variant of commit_batch(): the counter is lowered by a full batch.
CommitSubtracts(rows) ==
  /\ stored' = [stored EXCEPT ![runId] = @ \o rows]
  /\ pendingRows' = pendingRows - BatchSize
  /\ inTransaction' = FALSE
  /\ transaction' = << >>

\* commit_batch() when COMMIT works.
Commit(rows) ==
  /\ stored' = [stored EXCEPT ![runId] = @ \o rows]
  /\ pendingRows' = 0
  /\ inTransaction' = FALSE
  /\ transaction' = << >>

\* open(): the run's row is the last thing it writes, outside any batch.  An
\* earlier failure leaves the collector running without persistence.
Open ==
  /\ phase = "closed"
  /\ phase' = "open"
  /\ \/ /\ newest < MaxRuns
        /\ newest' = newest + 1
        /\ runId' = newest + 1
        /\ enabled' = TRUE
     \/ /\ enabled' = FALSE
        /\ UNCHANGED <<newest, runId>>
  /\ UNCHANGED <<pendingRows, inTransaction, transaction, stored, ended, asked>>

\* The call is remembered, when there is a run it belongs to.
Ask(row) ==
  /\ phase = "open"
  /\ IF runId \in Run
       THEN /\ Len(asked[runId]) < MaxAsked
            /\ asked' = [asked EXCEPT ![runId] = Append(@, row)]
       ELSE UNCHANGED asked

\* Faulty variant of commit_if_full(): the batch may exceed its size by one.
CommitIfOverfull(row) ==
  \/ /\ pendingRows < BatchSize
     /\ pendingRows' = pendingRows + 1
     /\ inTransaction' = TRUE
     /\ transaction' = Append(transaction, row)
     /\ UNCHANGED <<enabled, stored>>
  \/ /\ pendingRows >= BatchSize
     /\ Commit(Append(transaction, row))
     /\ UNCHANGED enabled

\* commit_if_full() in a call that inserted row: COMMIT at the BatchSize-th
\* row of a batch; when COMMIT fails, the caller still gets the row's id.
CommitIfFull(row) ==
  \/ /\ pendingRows + 1 < BatchSize
     /\ pendingRows' = pendingRows + 1
     /\ inTransaction' = TRUE
     /\ transaction' = Append(transaction, row)
     /\ UNCHANGED <<enabled, stored>>
  \/ /\ pendingRows + 1 >= BatchSize
     /\ \/ Commit(Append(transaction, row)) /\ UNCHANGED enabled
        \/ Disable /\ UNCHANGED stored

\* A record_* call that returns an id: begin_batch() found a transaction it
\* can use (BEGIN inside a transaction is an error), the INSERT worked.
Accept(row) ==
  /\ Ask(row)
  /\ enabled
  /\ pendingRows = 0 => ~inTransaction
  /\ CommitIfFull(row)
  /\ UNCHANGED <<phase, runId, newest, ended>>

\* Faulty variant: a failed INSERT only skips its row.
RejectSkipsRow(row) ==
  /\ Ask(row)
  /\ UNCHANGED <<connection, inTransaction, transaction, file>>

\* A record_* call that returns 0: not enabled, or BEGIN or INSERT failed.
Reject(row) ==
  /\ Ask(row)
  /\ \/ enabled /\ Disable
     \/ ~enabled /\ UNCHANGED <<enabled, pendingRows, inTransaction, transaction>>
  /\ UNCHANGED <<phase, runId, file>>

\* The four callers, with the rows they insert.
DeviceRow(d) == [table |-> "device", of |-> d]
EventRow(e) == [table |-> "event", of |-> e]
ContextRow(c) == [table |-> "context", of |-> c]
MatchRow(m) == [table |-> "match", of |-> m]

Record(row) == Accept(row) \/ Reject(row)

RecordDevice == \E d \in Item : Record(DeviceRow(d))
RecordEvent == \E e \in Item : Record(EventRow(e))
RecordContext == \E c \in Item : Record(ContextRow(c))
RecordMatch == \E m \in Item : Record(MatchRow(m))

\* finish(), first half: commit the last batch, if there is one.  A disabled
\* connection, and one whose COMMIT fails now, skips the second half.
FinishCommit ==
  /\ phase = "open"
  /\ \/ /\ enabled
        /\ pendingRows > 0
        /\ \/ Commit(transaction) /\ phase' = "finishing" /\ UNCHANGED enabled
           \/ Disable /\ phase' = "finished" /\ UNCHANGED stored
     \/ /\ enabled => pendingRows = 0
        /\ phase' = IF enabled THEN "finishing" ELSE "finished"
        /\ UNCHANGED <<enabled, pendingRows, inTransaction, transaction, stored>>
  /\ UNCHANGED <<runId, newest, ended, asked>>

\* finish(), second half: UPDATE collector_runs, a statement of its own.
FinishUpdate ==
  /\ phase = "finishing"
  /\ phase' = "finished"
  /\ \/ /\ ended' = [ended EXCEPT ![runId] = TRUE]
        /\ UNCHANGED <<enabled, pendingRows, inTransaction, transaction>>
     \/ /\ Disable
        /\ UNCHANGED ended
  /\ UNCHANGED <<runId, newest, stored, asked>>

\* The process is gone: SQLite forgets the open transaction.  A crash in any
\* phase, or close() at the end of main().
Exit ==
  /\ phase' = "closed"
  /\ enabled' = FALSE
  /\ runId' = 0
  /\ pendingRows' = 0
  /\ inTransaction' = FALSE
  /\ transaction' = << >>
  /\ UNCHANGED <<file, asked>>

Crash == phase \in {"open", "finishing"} /\ Exit
Close == phase = "finished" /\ Exit

Next == \/ Open \/ Close \/ Crash
        \/ RecordDevice \/ RecordEvent \/ RecordContext \/ RecordMatch
        \/ FinishCommit \/ FinishUpdate

Spec == Init /\ [][Next]_vars

-----------------------------------------------------------------------------
\* Type invariant: the connection's members, SQLite's state and the history.
TypeOK == /\ phase \in {"closed", "open", "finishing", "finished"}
          /\ enabled \in BOOLEAN
          /\ runId \in Run \cup {0}
          /\ pendingRows \in Nat
          /\ inTransaction \in BOOLEAN
          /\ transaction \in Seq(Row)
          /\ newest \in Run \cup {0}
          /\ stored \in [Run -> Seq(Row)]
          /\ ended \in [Run -> BOOLEAN]
          /\ asked \in [Run -> Seq(Row)]

\* The counter the class decides from and the transaction SQLite has agree
\* between any two calls, whatever failed before: otherwise a BEGIN would be
\* issued inside a transaction or rows would be left uncommitted.
CounterTracksTransaction ==
  /\ pendingRows = Len(transaction)
  /\ inTransaction <=> pendingRows > 0
  /\ pendingRows < BatchSize

\* A run that is marked ended holds every row the collector was asked to
\* record in it: any failure on the way must leave the run unended, since
\* the UI offers ended runs as complete sessions.
EndedRunIsComplete == \A r \in Run : ended[r] => stored[r] = asked[r]

\* While recording works, a crash loses less than one batch.
LossBelowOneBatch ==
  enabled => Len(asked[runId]) - Len(stored[runId]) < BatchSize

Log == INSTANCE EvidenceLog

\* The connection implements the evidence log: prefix-only storage, complete
\* and frozen ended runs, through every failure, crash and reopening.
ImplementsEvidenceLog == Log!Spec
=============================================================================
