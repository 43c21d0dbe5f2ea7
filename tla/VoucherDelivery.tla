---------------------------- MODULE VoucherDelivery ----------------------------
(***************************************************************************)
(* Forwarding stored vouchers to the next owner.                           *)
(*                                                                         *)
(* A voucher is pushed by its pipeline goroutine right after its row was   *)
(* created (voucher_pipeline.go), by the retry worker, one goroutine that  *)
(* works through batches of pending rows (voucher_retry_worker.go), and by *)
(* `vouchers retry` processes (main.go).  All three call AttemptRecord     *)
(* (voucher_push_service.go) with a COPY of the row they read before: the  *)
(* status and the number of attempts it writes back come from that copy.   *)
(*                                                                         *)
(* A delivery attempt is four steps: read the file, send it, write the     *)
(* result to the row, delete the file.  The network may lose a request or  *)
(* a response; a database or file operation may fail; the server and the   *)
(* commands may crash between any two steps.                               *)
(***************************************************************************)
EXTENDS Integers, Sequences, FiniteSets

CONSTANTS
    Guids,          \* vouchers, all stored by the receiver
    Pipelines,      \* goroutines of ProcessVoucher, one per accepted upload
    VoucherOf,      \* the voucher each of them processes
    Routed,         \* the vouchers ResolveDestination finds a destination for
    Worker,         \* the retry worker
    Retriers,       \* `vouchers retry` processes
    MaxAttempts,    \* push_service.max_attempts
    BatchSize,      \* the LIMIT of PendingForRetry
    DeleteAfterSuccess,
    Rejects,        \* TRUE: the receiver may answer with a 4xx other than 409
    MaxFaults       \* bound: crashes and failing local operations in a behaviour

ASSUME DeliveryAssumption ==
    /\ VoucherOf \in [Pipelines -> Guids]
    /\ Routed \subseteq Guids
    /\ MaxAttempts \in Nat \ {0} /\ BatchSize \in Nat \ {0} /\ MaxFaults \in Nat
    /\ DeleteAfterSuccess \in BOOLEAN /\ Rejects \in BOOLEAN
    /\ Worker \notin Pipelines \cup Retriers
    /\ Pipelines \cap Retriers = {}

Clients == Pipelines \cup Retriers \cup {Worker}

VARIABLES
    rows,       \* voucher_transmissions, in the order of creation
    stored,     \* the vouchers whose file is in the voucher directory
    delivered,  \* the vouchers the receiver downstream has stored
    ops,        \* the local state of every client
    faults      \* number of faults so far

vars == <<rows, stored, delivered, ops, faults>>

-------------------------------------------------------------------------------
Outcomes == {"none", "ok", "transient", "permanent"}

\* retry_after: NULL, in the future, or passed.
RetryTimes == {"null", "later", "due"}

Rows == [guid: Guids,
         routed: BOOLEAN,      \* destination_url # ''
         status: {"pending", "succeeded", "failed"},
         attempts: Nat,
         retryAfter: RetryTimes]

\* A record as PendingForRetry returned it: what AttemptRecord uses of the copy.
Snapshots == [id: DOMAIN rows, attempts: Nat]

AttemptSteps == {"read", "send", "mark", "delete"}

Ops == [pc: {"idle", "create", "next", "off"} \cup AttemptSteps,
        batch: Seq(Snapshots),        \* what is left of the worker's batch
        id: DOMAIN rows \cup {0},     \* the row being attempted
        attempts: Nat,                \* rec.Attempts, already incremented
        outcome: Outcomes]

Resting(step) == [pc |-> step, batch |-> <<>>, id |-> 0, attempts |-> 0, outcome |-> "none"]

At(client, step) == ops[client].pc = step
Guid(client) == rows[ops[client].id].guid

TypeOK ==
    /\ rows \in Seq(Rows)
    /\ stored \subseteq Guids /\ delivered \subseteq Guids
    /\ ops \in [Clients -> Ops]
    /\ \A client \in Clients : ops[client].pc \in AttemptSteps => ops[client].id # 0
    /\ faults \in 0..MaxFaults

Init ==
    /\ rows = <<>>
    /\ stored = Guids
    /\ delivered = {}
    /\ ops = [client \in Clients |-> Resting(IF client \in Pipelines THEN "create" ELSE "idle")]
    /\ faults = 0

-------------------------------------------------------------------------------
(***************************************************************************)
(* How a client comes to a record.                                         *)
(***************************************************************************)

\* AttemptRecord starts: the copy's attempts are incremented in memory.
Begin(client, record, rest) ==
    ops' = [ops EXCEPT ![client] = [pc |-> "read", batch |-> rest, id |-> record.id,
                                    attempts |-> record.attempts + 1, outcome |-> "none"]]

\* AttemptRecord returned: the worker goes on with its batch, a goroutine of
\* the pipeline or a command ends.
Done(client) ==
    ops' = [ops EXCEPT ![client] =
              IF client = Worker THEN [Resting("next") EXCEPT !.batch = ops[client].batch]
                                 ELSE Resting("off")]

\* The INSERT: the columns the record leaves out get their zero values.
NewRow(guid) ==
    [guid |-> guid, routed |-> guid \in Routed, status |-> "pending",
     attempts |-> 0, retryAfter |-> "null"]

\* The end of ProcessVoucher: the row is created with the destination that was
\* resolved, if any, and the first attempt follows at once.
CreatePending(pipeline) ==
    LET guid == VoucherOf[pipeline] IN
    /\ At(pipeline, "create")
    /\ rows' = Append(rows, NewRow(guid))
    /\ IF guid \in Routed
         THEN Begin(pipeline, [id |-> Len(rows) + 1, attempts |-> 0], <<>>)
         ELSE Done(pipeline)
    /\ UNCHANGED <<stored, delivered, faults>>

\* PendingForRetry: the rows that are due, those without a retry time first and
\* in the order of creation, then by retry time (any order, in this model).
Ready == {id \in DOMAIN rows : rows[id].status = "pending" /\ rows[id].retryAfter # "later"}

Precedes(a, b) ==
    rows[b].retryAfter = "null" => rows[a].retryAfter = "null" /\ a < b

Copy(id) == [id |-> id, attempts |-> rows[id].attempts]

PendingForRetry ==
    LET size == IF Cardinality(Ready) < BatchSize THEN Cardinality(Ready) ELSE BatchSize IN
    {batch \in [1..size -> {Copy(id) : id \in Ready}] :
       /\ \A k, m \in 1..size : k < m =>
             batch[k].id # batch[m].id /\ Precedes(batch[k].id, batch[m].id)
       /\ \A id \in Ready :
             \/ \E k \in 1..size : batch[k].id = id
             \/ \A k \in 1..size : Precedes(batch[k].id, id)}

\* The ticker fires, or the worker starts.
Poll ==
    /\ At(Worker, "idle")
    /\ Ready # {}
    /\ \E batch \in PendingForRetry :
          ops' = [ops EXCEPT ![Worker] = [Resting("next") EXCEPT !.batch = batch]]
    /\ UNCHANGED <<rows, stored, delivered, faults>>

\* The next record of the batch; AttemptRecord refuses one without destination.
NextRecord ==
    LET batch == ops[Worker].batch IN
    /\ At(Worker, "next")
    /\ \/ /\ batch = <<>>
          /\ ops' = [ops EXCEPT ![Worker] = Resting("idle")]
       \/ /\ batch # <<>>
          /\ IF rows[Head(batch).id].routed
               THEN Begin(Worker, Head(batch), Tail(batch))
               ELSE ops' = [ops EXCEPT ![Worker].batch = Tail(batch)]
    /\ UNCHANGED <<rows, stored, delivered, faults>>

\* vouchers retry -guid: the newest row of the voucher, whatever its status.
RetryCommand(retrier) ==
    /\ At(retrier, "idle")
    /\ \E id \in DOMAIN rows :
          /\ \A other \in DOMAIN rows : rows[other].guid = rows[id].guid => other <= id
          /\ IF rows[id].routed
               THEN Begin(retrier, Copy(id), <<>>)
               ELSE Done(retrier)
    /\ UNCHANGED <<rows, stored, delivered, faults>>

-------------------------------------------------------------------------------
(***************************************************************************)
(* AttemptRecord.                                                          *)
(***************************************************************************)

\* Push reads the file; a file that cannot be read counts as a transient error.
ReadFile(client) ==
    /\ At(client, "read")
    /\ ops' = [ops EXCEPT ![client] =
                 IF Guid(client) \in stored
                   THEN [@ EXCEPT !.pc = "send"]
                   ELSE [@ EXCEPT !.pc = "mark", !.outcome = "transient"]]
    /\ UNCHANGED <<rows, stored, delivered, faults>>

\* The receiver stores a voucher it does not have and answers 409 to one it has.
\* The request or the answer may be lost, or be a 429 or 5xx: all transient.
Receive(guid, outcome) ==
    \/ outcome = "transient" /\ UNCHANGED delivered
    \/ /\ guid \notin delivered
       /\ delivered' = delivered \cup {guid}
       /\ outcome \in {"ok", "transient"}
    \/ /\ guid \in delivered \/ Rejects
       /\ outcome = "permanent"
       /\ UNCHANGED delivered

Send(client) ==
    /\ At(client, "send")
    /\ \E outcome \in Outcomes :
          /\ Receive(Guid(client), outcome)
          /\ ops' = [ops EXCEPT ![client].pc = "mark", ![client].outcome = outcome]
    /\ UNCHANGED <<rows, stored, faults>>

\* Mutant of StatusAfter: the unused constant transmissionStatusPermanent.
StatusPermanent(outcome, attempts) ==
    CASE outcome = "ok" -> "succeeded"
      [] outcome = "permanent" -> "failed_permanent"
      [] attempts >= MaxAttempts -> "failed"
      [] OTHER -> "pending"

\* Mutant of StatusAfter: an answer that is not worth a retry counts as done.
StatusDone(outcome, attempts) ==
    CASE outcome # "transient" -> "succeeded"
      [] attempts >= MaxAttempts -> "failed"
      [] OTHER -> "pending"

\* Mutant of StatusAfter: > instead of >=.
StatusOffByOne(outcome, attempts) ==
    CASE outcome = "ok" -> "succeeded"
      [] outcome = "permanent" -> "failed"
      [] attempts > MaxAttempts -> "failed"
      [] OTHER -> "pending"

StatusAfter(outcome, attempts) ==
    CASE outcome = "ok" -> "succeeded"
      [] outcome = "permanent" -> "failed"
      [] attempts >= MaxAttempts -> "failed"
      [] OTHER -> "pending"

\* A row that stays pending waits for backoffDuration, or longer if the receiver
\* asks for it.  How long is left open: Elapse may follow at any time.
RetryAfter(status) == IF status = "pending" THEN "later" ELSE "null"

\* Mutant of MarkAttempt: the count is incremented in memory only.
MarkStatusOnly(id, status, attempts) ==
    rows' = [rows EXCEPT ![id] =
               [@ EXCEPT !.status = status, !.retryAfter = RetryAfter(status)]]

\* The UPDATE has no condition on what the row holds now.
MarkAttempt(id, status, attempts) ==
    rows' = [rows EXCEPT ![id] =
               [@ EXCEPT !.status = status, !.attempts = attempts,
                         !.retryAfter = RetryAfter(status)]]

\* Mutant of Mark: the file is deleted once the row is final, also as failed.
MarkThenDelete(client) ==
    LET op == ops[client]
        status == StatusAfter(op.outcome, op.attempts)
    IN
    /\ At(client, "mark")
    /\ MarkAttempt(op.id, status, op.attempts)
    /\ IF status # "pending" /\ DeleteAfterSuccess
         THEN ops' = [ops EXCEPT ![client] =
                        [Resting("delete") EXCEPT !.id = op.id, !.batch = op.batch]]
         ELSE Done(client)
    /\ UNCHANGED <<stored, delivered, faults>>

Mark(client) ==
    LET op == ops[client]
        status == StatusAfter(op.outcome, op.attempts)
    IN
    /\ At(client, "mark")
    /\ MarkAttempt(op.id, status, op.attempts)
    /\ IF status = "succeeded" /\ DeleteAfterSuccess
         THEN ops' = [ops EXCEPT ![client] =
                        [Resting("delete") EXCEPT !.id = op.id, !.batch = op.batch]]
         ELSE Done(client)
    /\ UNCHANGED <<stored, delivered, faults>>

DeleteFile(client) ==
    /\ At(client, "delete")
    /\ stored' = stored \ {Guid(client)}
    /\ Done(client)
    /\ UNCHANGED <<rows, delivered, faults>>

\* The backoff time of a row passes.
Elapse(id) ==
    /\ id \in DOMAIN rows
    /\ rows[id].retryAfter = "later"
    /\ rows' = [rows EXCEPT ![id].retryAfter = "due"]
    /\ UNCHANGED <<stored, delivered, ops, faults>>

-------------------------------------------------------------------------------
(***************************************************************************)
(* Faults.                                                                 *)
(***************************************************************************)
Fault == faults < MaxFaults /\ faults' = faults + 1

\* CreatePending, MarkAttempt or os.Remove fails: the error is logged.
StepFails(client) ==
    /\ Fault
    /\ ops[client].pc \in {"create", "mark", "delete"}
    /\ Done(client)
    /\ UNCHANGED <<rows, stored, delivered>>

\* The server dies with its goroutines; the new one polls again.
ServerCrash ==
    /\ Fault
    /\ ops' = [client \in Clients |->
                 CASE client \in Pipelines -> Resting("off")
                   [] client = Worker -> Resting("idle")
                   [] OTHER -> ops[client]]
    /\ UNCHANGED <<rows, stored, delivered>>

KillCommand(retrier) ==
    /\ Fault
    /\ ops[retrier].pc \in AttemptSteps
    /\ Done(retrier)
    /\ UNCHANGED <<rows, stored, delivered>>

-------------------------------------------------------------------------------
AttemptStep(client) == ReadFile(client) \/ Send(client) \/ Mark(client) \/ DeleteFile(client)

Next ==
    \/ \E pipeline \in Pipelines : CreatePending(pipeline)
    \/ Poll
    \/ NextRecord
    \/ \E retrier \in Retriers : RetryCommand(retrier)
    \/ \E client \in Clients : AttemptStep(client)
    \/ \E id \in DOMAIN rows : Elapse(id)
    \/ \E client \in Clients : StepFails(client)
    \/ ServerCrash
    \/ \E retrier \in Retriers : KillCommand(retrier)

\* Goroutines run, pushes return (the HTTP client has a timeout) and time
\* passes; nobody has to run `vouchers retry`.
Fairness ==
    /\ \A pipeline \in Pipelines : WF_vars(CreatePending(pipeline) \/ AttemptStep(pipeline))
    /\ WF_vars(Poll \/ NextRecord \/ AttemptStep(Worker))
    /\ \A id \in 1..Cardinality(Pipelines) : WF_vars(Elapse(id))

Spec == Init /\ [][Next]_vars /\ Fairness

-------------------------------------------------------------------------------
(***************************************************************************)
(* Properties.                                                             *)
(***************************************************************************)

\* A row says "succeeded" only if the receiver downstream has the voucher,
\* whatever the order in which racing attempts write their results.
SucceededWasDelivered ==
    \A id \in DOMAIN rows : rows[id].status = "succeeded" => rows[id].guid \in delivered

\* No voucher is lost: its file is deleted only once the receiver has it.
DeletedWasDelivered == \A guid \in Guids : guid \in stored \/ guid \in delivered

\* A row that waits for a retry has an attempt left, although copies of it
\* with an older count are written back.
PendingHasAttemptsLeft ==
    \A id \in DOMAIN rows : rows[id].status = "pending" => rows[id].attempts < MaxAttempts

\* A voucher with a destination is delivered or given up in the end: crashes,
\* failing updates and lost counts only delay it.
Waiting(id) == id \in DOMAIN rows /\ rows[id].routed /\ rows[id].status = "pending"

RoutedSettles == \A id \in 1..Cardinality(Pipelines) : Waiting(id) ~> ~ Waiting(id)

-------------------------------------------------------------------------------
(***************************************************************************)
(* Statements of the documentation that the code does not keep.            *)
(***************************************************************************)

\* README.md:258 "Retry worker attempts delivery with exponential backoff": a
\* retry that is due is made.
Due(id) == Waiting(id) /\ rows[id].retryAfter = "due"

BackgroundRetry == \A id \in 1..Cardinality(Pipelines) : Due(id) ~> ~ Due(id)
===============================================================================
