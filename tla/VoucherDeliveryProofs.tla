------------------------- MODULE VoucherDeliveryProofs -------------------------
(***************************************************************************)
(* Proofs about VoucherDelivery.                                           *)
(***************************************************************************)
EXTENDS VoucherDelivery, FiniteSetTheorems, SequenceTheorems, TLAPS

\* A client that is about to record a success, or to delete the file, has seen
\* the receiver answer that it stored the voucher.
KnowsDelivered ==
    \A client \in Clients :
       (At(client, "mark") /\ ops[client].outcome = "ok") \/ At(client, "delete") =>
          Guid(client) \in delivered

DeliveryInv ==
    /\ TypeOK
    /\ SucceededWasDelivered
    /\ DeletedWasDelivered
    /\ PendingHasAttemptsLeft
    /\ KnowsDelivered

-------------------------------------------------------------------------------
(***************************************************************************)
(* Types.                                                                  *)
(***************************************************************************)
LEMMA RestingType ==
    ASSUME NEW step \in {"idle", "create", "next", "off"}
    PROVE  Resting(step) \in Ops /\ Resting(step).pc = step
  BY DEF Resting, Ops, Outcomes

LEMMA InitTypeOK == Init => TypeOK
  <1> SUFFICES ASSUME Init PROVE TypeOK
    OBVIOUS
  <1>1. ops \in [Clients -> Ops]
    BY RestingType DEF Init
  <1>2. \A client \in Clients : ops[client].pc \notin AttemptSteps
    BY RestingType DEF Init, AttemptSteps
  <1>3. rows \in Seq(Rows)
    BY DEF Init
  <1>4. QED
    BY <1>1, <1>2, <1>3, DeliveryAssumption DEF Init, TypeOK

\* Rows are never removed, so that the copies keep naming rows.
LEMMA OpsGrow ==
    ASSUME DOMAIN rows \subseteq DOMAIN rows'
    PROVE  Ops \subseteq Ops'
  <1>1. Snapshots \subseteq Snapshots'
    BY DEF Snapshots
  <1>2. Seq(Snapshots) \subseteq Seq(Snapshots')
    BY <1>1
  <1>3. Seq(Snapshots') = Seq(Snapshots)'
    OBVIOUS
  <1>4. QED
    BY <1>2, <1>3 DEF Ops

\* One client changes its local state.
LEMMA ClientStep ==
    ASSUME TypeOK, DOMAIN rows \subseteq DOMAIN rows', NEW client \in Clients, NEW new \in Ops',
           new.pc \in AttemptSteps => new.id # 0,
           ops' = [ops EXCEPT ![client] = new]
    PROVE  /\ ops' \in [Clients -> Ops']
           /\ \A other \in Clients : ops'[other].pc \in AttemptSteps => ops'[other].id # 0
  BY OpsGrow DEF TypeOK

LEMMA DoneStep ==
    ASSUME TypeOK, DOMAIN rows \subseteq DOMAIN rows', NEW client \in Clients, Done(client)
    PROVE  /\ ops' \in [Clients -> Ops']
           /\ \A other \in Clients : ops'[other].pc \in AttemptSteps => ops'[other].id # 0
  <1> DEFINE new == IF client = Worker THEN [Resting("next") EXCEPT !.batch = ops[client].batch]
                                       ELSE Resting("off")
  <1>1. new \in Ops /\ new.pc \notin AttemptSteps
    BY RestingType DEF TypeOK, Ops, AttemptSteps, Resting
  <1>2. new \in Ops'
    BY <1>1, OpsGrow
  <1>3. ops' = [ops EXCEPT ![client] = new]
    BY DEF Done
  <1>4. QED
    BY <1>1, <1>2, <1>3, ClientStep

LEMMA BeginStep ==
    ASSUME TypeOK, DOMAIN rows \subseteq DOMAIN rows', NEW client \in Clients,
           NEW record \in Snapshots', NEW rest \in Seq(Snapshots)', Begin(client, record, rest),
           0 \notin DOMAIN rows'
    PROVE  /\ ops' \in [Clients -> Ops']
           /\ \A other \in Clients : ops'[other].pc \in AttemptSteps => ops'[other].id # 0
  <1> DEFINE new == [pc |-> "read", batch |-> rest, id |-> record.id,
                     attempts |-> record.attempts + 1, outcome |-> "none"]
  <1>1. new \in Ops' /\ new.id # 0
    BY DEF Ops, Snapshots, AttemptSteps, Outcomes
  <1>2. ops' = [ops EXCEPT ![client] = new]
    BY DEF Begin
  <1>3. QED
    BY <1>1, <1>2, ClientStep

LEMMA CreateType ==
    ASSUME TypeOK, NEW pipeline \in Pipelines, CreatePending(pipeline)
    PROVE  TypeOK'
  <1> DEFINE row == NewRow(VoucherOf[pipeline])
  <1>1. row \in Rows
    BY DeliveryAssumption DEF NewRow, Rows, RetryTimes
  <1>2. rows' = Append(rows, row)
    BY DEF CreatePending
  <1>3. /\ rows' \in Seq(Rows)
        /\ DOMAIN rows = 1..Len(rows) /\ DOMAIN rows' = 1..Len(rows) + 1
    BY <1>1, <1>2 DEF TypeOK
  <1>6. /\ ops' \in [Clients -> Ops']
        /\ \A other \in Clients : ops'[other].pc \in AttemptSteps => ops'[other].id # 0
    <2>1. DOMAIN rows \subseteq DOMAIN rows' /\ 0 \notin DOMAIN rows'
      BY <1>3
    <2>2. CASE VoucherOf[pipeline] \in Routed
      <3>1. [id |-> Len(rows) + 1, attempts |-> 0] \in Snapshots' /\ <<>> \in Seq(Snapshots)'
        BY <1>3 DEF Snapshots, TypeOK
      <3>2. QED
        BY <2>1, <2>2, <3>1, BeginStep DEF CreatePending, Clients
    <2>3. CASE VoucherOf[pipeline] \notin Routed
      BY <2>1, <2>3, DoneStep DEF CreatePending, Clients
    <2>4. QED
      BY <2>2, <2>3
  <1>7. QED
    BY <1>3, <1>6 DEF CreatePending, TypeOK

LEMMA CopyType ==
    ASSUME TypeOK, NEW id \in DOMAIN rows
    PROVE  Copy(id) \in Snapshots
  <1>1. rows[id] \in Rows
    BY DEF TypeOK
  <1>2. rows[id].attempts \in Nat
    BY <1>1 DEF Rows
  <1>3. QED
    BY <1>2 DEF Copy, Snapshots

\* What a batch holds are copies of rows.
LEMMA BatchType ==
    ASSUME TypeOK, NEW batch \in PendingForRetry
    PROVE  batch \in Seq(Snapshots)
  <1> DEFINE size == IF Cardinality(Ready) < BatchSize THEN Cardinality(Ready) ELSE BatchSize
  <1>1. Ready \subseteq 1..Len(rows) /\ Len(rows) \in Nat
    BY DEF Ready, TypeOK
  <1>2. IsFiniteSet(1..Len(rows))
    BY <1>1, FS_Interval
  <1>3. Cardinality(Ready) \in Nat
    BY <1>1, <1>2, FS_Subset, FS_CardinalityType
  <1>4. size \in Nat
    BY <1>3, DeliveryAssumption
  <1>5. \A id \in Ready : Copy(id) \in Snapshots
    BY CopyType DEF Ready
  <1>6. batch \in [1..size -> {Copy(id) : id \in Ready}]
    BY DEF PendingForRetry
  <1> HIDE DEF size
  <1>7. batch \in [1..size -> Snapshots]
    BY <1>5, <1>6
  <1>8. QED
    BY <1>4, <1>7

LEMMA PollType ==
    ASSUME TypeOK, Poll
    PROVE  TypeOK'
  <1>1. PICK batch \in PendingForRetry :
           ops' = [ops EXCEPT ![Worker] = [Resting("next") EXCEPT !.batch = batch]]
    BY DEF Poll
  <1>2. [Resting("next") EXCEPT !.batch = batch] \in Ops
    BY BatchType, RestingType DEF Ops
  <1>3. [Resting("next") EXCEPT !.batch = batch].pc = "next"
    BY DEF Resting
  <1>4. DOMAIN rows \subseteq DOMAIN rows'
    BY DEF Poll
  <1>5. /\ ops' \in [Clients -> Ops']
        /\ \A other \in Clients : ops'[other].pc \in AttemptSteps => ops'[other].id # 0
    BY <1>1, <1>2, <1>3, <1>4, OpsGrow, ClientStep DEF Clients, AttemptSteps
  <1>6. QED
    BY <1>5 DEF Poll, TypeOK

LEMMA NextRecordType ==
    ASSUME TypeOK, NextRecord
    PROVE  TypeOK'
  <1> DEFINE batch == ops[Worker].batch
  <1>1. DOMAIN rows \subseteq DOMAIN rows' /\ 0 \notin DOMAIN rows' /\ Worker \in Clients
    BY DEF NextRecord, Clients, TypeOK
  <1>2. batch \in Seq(Snapshots) /\ ops[Worker] \in Ops /\ ops[Worker].pc = "next"
    BY <1>1 DEF TypeOK, Ops, NextRecord, At
  <1>3. /\ ops' \in [Clients -> Ops']
        /\ \A other \in Clients : ops'[other].pc \in AttemptSteps => ops'[other].id # 0
    <2>1. CASE batch = <<>>
      <3>1. ops' = [ops EXCEPT ![Worker] = Resting("idle")]
        BY <2>1 DEF NextRecord
      <3>2. QED
        BY <1>1, <3>1, RestingType, OpsGrow, ClientStep DEF AttemptSteps
    <2>2. CASE batch # <<>>
      <3>1. Head(batch) \in Snapshots /\ Tail(batch) \in Seq(Snapshots)
        BY <1>2, <2>2
      <3>2. Head(batch) \in Snapshots' /\ Tail(batch) \in Seq(Snapshots)'
        BY <3>1 DEF NextRecord, Snapshots
      <3>3. CASE rows[Head(batch).id].routed
        <4>1. Begin(Worker, Head(batch), Tail(batch))
          BY <2>2, <3>3 DEF NextRecord
        <4>2. PICK record \in Snapshots', rest \in Seq(Snapshots)' : 
                 record = Head(batch) /\ rest = Tail(batch)
          BY <3>2
        <4>3. Begin(Worker, record, rest)
          BY <4>1, <4>2
        <4>4. QED
          BY <1>1, <4>2, <4>3, BeginStep
      <3>4. CASE ~ rows[Head(batch).id].routed
        <4> DEFINE new == [ops[Worker] EXCEPT !.batch = Tail(batch)]
        <4>1. ops' = [ops EXCEPT ![Worker] = new]
          BY <2>2, <3>4 DEF NextRecord
        <4>2. new \in Ops /\ new.pc = "next"
          BY <1>2, <3>1 DEF Ops
        <4> HIDE DEF new
        <4>3. QED
          BY <1>1, <4>1, <4>2, OpsGrow, ClientStep DEF AttemptSteps
      <3>5. QED
        BY <3>3, <3>4
    <2>3. QED
      BY <2>1, <2>2
  <1>4. QED
    BY <1>3 DEF NextRecord, TypeOK

LEMMA RetryCommandType ==
    ASSUME TypeOK, NEW retrier \in Retriers, RetryCommand(retrier)
    PROVE  TypeOK'
  <1>1. DOMAIN rows \subseteq DOMAIN rows' /\ 0 \notin DOMAIN rows' /\ retrier \in Clients
    BY DEF RetryCommand, Clients, TypeOK
  <1>2. PICK id \in DOMAIN rows :
           IF rows[id].routed THEN Begin(retrier, Copy(id), <<>>) ELSE Done(retrier)
    BY DEF RetryCommand
  <1>3. Copy(id) \in Snapshots /\ <<>> \in Seq(Snapshots)
    BY CopyType
  <1>4. PICK record \in Snapshots, rest \in Seq(Snapshots) : record = Copy(id) /\ rest = <<>>
    BY <1>3
  <1>5. record \in Snapshots' /\ rest \in Seq(Snapshots)'
    BY <1>4 DEF RetryCommand, Snapshots
  <1>6. /\ ops' \in [Clients -> Ops']
        /\ \A other \in Clients : ops'[other].pc \in AttemptSteps => ops'[other].id # 0
    <2>1. CASE rows[id].routed
      <3>1. Begin(retrier, record, rest)
        BY <1>2, <1>4, <2>1
      <3>2. QED
        BY <1>1, <1>5, <3>1, BeginStep
    <2>2. CASE ~ rows[id].routed
      BY <1>1, <1>2, <2>2, DoneStep
    <2>3. QED
      BY <2>1, <2>2
  <1>7. QED
    BY <1>6 DEF RetryCommand, TypeOK


LEMMA ReadFileType ==
    ASSUME TypeOK, NEW client \in Clients, ReadFile(client)
    PROVE  TypeOK'
  <1> DEFINE new == IF Guid(client) \in stored
                      THEN [ops[client] EXCEPT !.pc = "send"]
                      ELSE [ops[client] EXCEPT !.pc = "mark", !.outcome = "transient"]
  <1>1. ops[client] \in Ops /\ ops[client].id # 0
    BY DEF TypeOK, ReadFile, At, AttemptSteps
  <1>2. new \in Ops /\ new.id # 0
    BY <1>1 DEF Ops, Outcomes, AttemptSteps
  <1>3. ops' = [ops EXCEPT ![client] = new] /\ DOMAIN rows \subseteq DOMAIN rows'
    BY DEF ReadFile
  <1> HIDE DEF new
  <1>4. /\ ops' \in [Clients -> Ops']
        /\ \A other \in Clients : ops'[other].pc \in AttemptSteps => ops'[other].id # 0
    BY <1>2, <1>3, OpsGrow, ClientStep
  <1>5. QED
    BY <1>4 DEF ReadFile, TypeOK

LEMMA SendType ==
    ASSUME TypeOK, NEW client \in Clients, Send(client)
    PROVE  TypeOK'
  <1> DEFINE id == ops[client].id
  <1>1. ops[client] \in Ops /\ id # 0
    BY DEF TypeOK, Send, At, AttemptSteps
  <1>2. id \in DOMAIN rows
    BY <1>1 DEF Ops
  <1>3. PICK outcome \in Outcomes :
           /\ Receive(Guid(client), outcome)
           /\ ops' = [ops EXCEPT ![client].pc = "mark", ![client].outcome = outcome]
    BY DEF Send
  <1> DEFINE new == [ops[client] EXCEPT !.pc = "mark", !.outcome = outcome]
  <1>4. new \in Ops /\ new.id # 0
    BY <1>1 DEF Ops, AttemptSteps
  <1>5. ops' = [ops EXCEPT ![client] = new] /\ DOMAIN rows \subseteq DOMAIN rows'
    BY <1>1, <1>3 DEF Send, TypeOK
  <1> HIDE DEF new
  <1>7. /\ ops' \in [Clients -> Ops']
        /\ \A other \in Clients : ops'[other].pc \in AttemptSteps => ops'[other].id # 0
    BY <1>4, <1>5, OpsGrow, ClientStep
  <1>8. delivered' \subseteq Guids
    <2>1. Guid(client) \in Guids
      <3>1. rows[id] \in Rows
        BY <1>2 DEF TypeOK
      <3>2. QED
        BY <3>1 DEF Guid, Rows
    <2>2. QED
      BY <1>3, <2>1 DEF Receive, TypeOK
  <1>9. QED
    BY <1>7, <1>8 DEF Send, TypeOK

\* One row is updated.
LEMMA RowStep ==
    ASSUME TypeOK, NEW id \in DOMAIN rows, NEW new \in Rows, rows' = [rows EXCEPT ![id] = new]
    PROVE  rows' \in Seq(Rows) /\ Len(rows') = Len(rows) /\ DOMAIN rows' = DOMAIN rows
  BY DEF TypeOK

LEMMA StatusType ==
    ASSUME NEW outcome, NEW attempts
    PROVE  StatusAfter(outcome, attempts) \in {"pending", "succeeded", "failed"}
  BY DEF StatusAfter

\* What MarkAttempt leaves in the row, and that it leaves the others alone.
LEMMA MarkAttemptStep ==
    ASSUME TypeOK, NEW client \in Clients, Mark(client)
    PROVE  /\ ops[client].id \in DOMAIN rows
           /\ \E new \in Rows :
                 /\ rows' = [rows EXCEPT ![ops[client].id] = new]
                 /\ new.guid = rows[ops[client].id].guid
                 /\ new.status = StatusAfter(ops[client].outcome, ops[client].attempts)
                 /\ new.attempts = ops[client].attempts
  <1> DEFINE op == ops[client]
             status == StatusAfter(op.outcome, op.attempts)
             time == RetryAfter(status)
             row == rows[op.id]
             new == [row EXCEPT !.status = status, !.attempts = op.attempts, !.retryAfter = time]
  <1>1. op \in Ops /\ op.id # 0
    BY DEF TypeOK, Mark, At, AttemptSteps
  <1>2. op.id \in DOMAIN rows /\ op.attempts \in Nat
    BY <1>1 DEF Ops
  <1>3. row \in Rows
    BY <1>2 DEF TypeOK
  <1>4. rows' = [rows EXCEPT ![op.id] = new]
    BY <1>2 DEF Mark, MarkAttempt, TypeOK
  <1>5. status \in {"pending", "succeeded", "failed"} /\ time \in RetryTimes
    BY StatusType DEF RetryAfter, RetryTimes
  <1> HIDE DEF status, time, row
  <1>6. /\ new \in Rows
        /\ new.guid = row.guid /\ new.status = status /\ new.attempts = op.attempts
    BY <1>2, <1>3, <1>5 DEF Rows
  <1>7. QED
    BY <1>2, <1>4, <1>6 DEF status, time, row

LEMMA MarkType ==
    ASSUME TypeOK, NEW client \in Clients, Mark(client)
    PROVE  TypeOK'
  <1> DEFINE op == ops[client]
             status == StatusAfter(op.outcome, op.attempts)
  <1>1. op \in Ops /\ op.id # 0 /\ op.id \in DOMAIN rows
    BY DEF TypeOK, Mark, At, AttemptSteps, Ops
  <1>2. PICK new \in Rows : rows' = [rows EXCEPT ![op.id] = new]
    BY MarkAttemptStep
  <1>3. rows' \in Seq(Rows) /\ Len(rows') = Len(rows) /\ DOMAIN rows' = DOMAIN rows
    BY <1>1, <1>2, RowStep
  <1>4. /\ ops' \in [Clients -> Ops']
        /\ \A other \in Clients : ops'[other].pc \in AttemptSteps => ops'[other].id # 0
    <2>1. CASE status = "succeeded" /\ DeleteAfterSuccess
      <3> DEFINE next == [Resting("delete") EXCEPT !.id = op.id, !.batch = op.batch]
      <3>1. next \in Ops /\ next.id # 0
        BY <1>1 DEF Ops, Resting, AttemptSteps, Outcomes
      <3>2. ops' = [ops EXCEPT ![client] = next]
        BY <2>1 DEF Mark
      <3> HIDE DEF next
      <3>3. QED
        BY <1>3, <3>1, <3>2, OpsGrow, ClientStep
    <2>2. CASE ~ (status = "succeeded" /\ DeleteAfterSuccess)
      BY <1>3, <2>2, DoneStep DEF Mark
    <2>3. QED
      BY <2>1, <2>2
  <1>5. QED
    BY <1>3, <1>4 DEF Mark, TypeOK


LEMMA OneClientDone ==
    ASSUME TypeOK, NEW client \in Clients, Done(client), UNCHANGED rows,
           stored' \subseteq Guids, delivered' \subseteq Guids, faults' \in 0..MaxFaults
    PROVE  TypeOK'
  <1>1. DOMAIN rows \subseteq DOMAIN rows'
    OBVIOUS
  <1>2. /\ ops' \in [Clients -> Ops']
        /\ \A other \in Clients : ops'[other].pc \in AttemptSteps => ops'[other].id # 0
    BY <1>1, DoneStep
  <1>3. QED
    BY <1>2 DEF TypeOK

LEMMA ElapseType ==
    ASSUME TypeOK, NEW id \in DOMAIN rows, Elapse(id)
    PROVE  TypeOK'
  <1>1. rows[id] \in Rows
    BY DEF TypeOK
  <1>2. [rows[id] EXCEPT !.retryAfter = "due"] \in Rows
    BY <1>1 DEF Rows, RetryTimes
  <1>3. rows' = [rows EXCEPT ![id] = [rows[id] EXCEPT !.retryAfter = "due"]]
    BY DEF Elapse
  <1>4. rows' \in Seq(Rows) /\ Len(rows') = Len(rows) /\ DOMAIN rows' = DOMAIN rows
    BY <1>2, <1>3, RowStep
  <1>5. Ops \subseteq Ops'
    BY <1>4, OpsGrow
  <1>6. QED
    BY <1>4, <1>5 DEF Elapse, TypeOK

LEMMA FaultType == TypeOK /\ Fault => faults' \in 0..MaxFaults
  BY DeliveryAssumption DEF TypeOK, Fault

LEMMA CrashType ==
    ASSUME TypeOK, ServerCrash
    PROVE  TypeOK'
  <1>1. ops' \in [Clients -> Ops]
    BY RestingType DEF ServerCrash, TypeOK
  <1>2. \A client \in Clients : ops'[client].pc \in AttemptSteps => ops'[client].id # 0
    <2> SUFFICES ASSUME NEW client \in Clients, ops'[client].pc \in AttemptSteps
                 PROVE  ops'[client].id # 0
      OBVIOUS
    <2>1. client \notin Pipelines /\ client # Worker
      BY RestingType DEF ServerCrash, AttemptSteps
    <2>2. ops'[client] = ops[client]
      BY <2>1 DEF ServerCrash
    <2>3. QED
      BY <2>2 DEF TypeOK
  <1>3. Ops \subseteq Ops'
    BY OpsGrow DEF ServerCrash
  <1>4. QED
    BY <1>1, <1>2, <1>3, FaultType DEF ServerCrash, TypeOK

LEMMA NextTypeOK == TypeOK /\ [Next]_vars => TypeOK'
  <1> SUFFICES ASSUME TypeOK, [Next]_vars PROVE TypeOK'
    OBVIOUS
  <1>1. ASSUME NEW pipeline \in Pipelines, CreatePending(pipeline) PROVE TypeOK'
    BY <1>1, CreateType
  <1>2. ASSUME NEW retrier \in Retriers, RetryCommand(retrier) PROVE TypeOK'
    BY <1>2, RetryCommandType
  <1>3. ASSUME NEW client \in Clients, AttemptStep(client) PROVE TypeOK'
    <2>1. ASSUME DeleteFile(client) PROVE TypeOK'
      BY <2>1, OneClientDone DEF DeleteFile, TypeOK
    <2>2. QED
      BY <1>3, <2>1, ReadFileType, SendType, MarkType DEF AttemptStep
  <1>4. ASSUME NEW id \in DOMAIN rows, Elapse(id) PROVE TypeOK'
    BY <1>4, ElapseType
  <1>5. ASSUME NEW client \in Clients, StepFails(client) PROVE TypeOK'
    <2>1. faults' \in 0..MaxFaults
      BY <1>5, FaultType DEF StepFails
    <2>2. QED
      BY <1>5, <2>1, OneClientDone DEF StepFails, TypeOK
  <1>6. ASSUME NEW retrier \in Retriers, KillCommand(retrier) PROVE TypeOK'
    <2>1. faults' \in 0..MaxFaults /\ retrier \in Clients
      BY <1>6, FaultType DEF KillCommand, Clients
    <2>2. QED
      BY <1>6, <2>1, OneClientDone DEF KillCommand, TypeOK
  <1>7. CASE UNCHANGED vars
    <2>1. Ops \subseteq Ops'
      BY <1>7, OpsGrow DEF vars
    <2>2. QED
      BY <1>7, <2>1 DEF vars, TypeOK
  <1>8. QED
    BY <1>1, <1>2, <1>3, <1>4, <1>5, <1>6, <1>7, PollType, NextRecordType, CrashType DEF Next

\* Whatever the clients, the network and the crashes do, every copy, every row
\* and every count stays within its type: the copies the worker and the commands
\* hold keep naming rows, for any number of vouchers and any batch size.
THEOREM TypeCorrect == Spec => []TypeOK
  BY InitTypeOK, NextTypeOK, PTL DEF Spec

-------------------------------------------------------------------------------
(***************************************************************************)
(* What is delivered stays delivered, and what the rows and the clients    *)
(* claim about deliveries is backed by the receiver.                       *)
(***************************************************************************)

\* Most steps leave what the invariants read of the rows alone.
SameRows ==
    /\ DOMAIN rows' = DOMAIN rows
    /\ \A id \in DOMAIN rows : /\ rows'[id].guid = rows[id].guid
                               /\ rows'[id].status = rows[id].status
                               /\ rows'[id].attempts = rows[id].attempts

\* No step renames or removes a row.
RowsStay ==
    /\ DOMAIN rows \subseteq DOMAIN rows'
    /\ \A id \in DOMAIN rows : rows'[id].guid = rows[id].guid

LEMMA SameRowsInv ==
    ASSUME DeliveryInv, SameRows, delivered \subseteq delivered'
    PROVE  SucceededWasDelivered' /\ PendingHasAttemptsLeft' /\ RowsStay
  BY DEF DeliveryInv, SameRows, RowsStay, SucceededWasDelivered, PendingHasAttemptsLeft

LEMMA SameRowsUnchanged == UNCHANGED rows => SameRows
  BY DEF SameRows

\* A client that knows of a delivery names a row.
LEMMA KnowingNamesRow ==
    ASSUME TypeOK, NEW client \in Clients, ops[client].pc \in AttemptSteps
    PROVE  ops[client].id \in DOMAIN rows
  BY DEF TypeOK, Ops

\* One client moves; the others know what they knew.
LEMMA KnowsStep ==
    ASSUME DeliveryInv, RowsStay, delivered \subseteq delivered', NEW client \in Clients,
           \A other \in Clients \ {client} : ops'[other] = ops[other],
           (ops'[client].pc = "mark" /\ ops'[client].outcome = "ok") \/ ops'[client].pc = "delete" =>
              rows'[ops'[client].id].guid \in delivered'
    PROVE  KnowsDelivered'
  <1> SUFFICES ASSUME NEW other \in Clients,
                      ((At(other, "mark") /\ ops[other].outcome = "ok") \/ At(other, "delete"))'
               PROVE  Guid(other)' \in delivered'
    BY DEF KnowsDelivered
  <1>1. CASE other = client
    BY <1>1 DEF At, Guid
  <1>2. CASE other # client
    <2>1. ops'[other] = ops[other] /\ ops[other].pc \in AttemptSteps
      BY <1>2 DEF At, AttemptSteps
    <2>2. ops[other].id \in DOMAIN rows /\ Guid(other) \in delivered
      BY <2>1, KnowingNamesRow DEF DeliveryInv, KnowsDelivered, At
    <2>3. QED
      BY <2>1, <2>2 DEF RowsStay, Guid
  <1>3. QED
    BY <1>1, <1>2

LEMMA DoneKnows ==
    ASSUME DeliveryInv, RowsStay, delivered \subseteq delivered', NEW client \in Clients,
           Done(client)
    PROVE  KnowsDelivered'
  <1>1. \A other \in Clients \ {client} : ops'[other] = ops[other]
    BY DEF Done, DeliveryInv, TypeOK
  <1>2. ops'[client].pc \in {"next", "off"}
    BY DEF Done, DeliveryInv, TypeOK, Resting
  <1>3. QED
    BY <1>1, <1>2, KnowsStep

LEMMA BeginKnows ==
    ASSUME DeliveryInv, RowsStay, delivered \subseteq delivered', NEW client \in Clients,
           NEW record, NEW rest, Begin(client, record, rest)
    PROVE  KnowsDelivered'
  <1>1. \A other \in Clients \ {client} : ops'[other] = ops[other]
    BY DEF Begin, DeliveryInv, TypeOK
  <1>2. ops'[client].pc = "read"
    BY DEF Begin, DeliveryInv, TypeOK
  <1>3. QED
    BY <1>1, <1>2, KnowsStep

\* The parts of the invariant a step can disturb, apart from the types.
Claims == SucceededWasDelivered /\ DeletedWasDelivered /\ PendingHasAttemptsLeft /\ KnowsDelivered

LEMMA CreateClaims ==
    ASSUME DeliveryInv, NEW pipeline \in Pipelines, CreatePending(pipeline)
    PROVE  Claims'
  <1> DEFINE row == NewRow(VoucherOf[pipeline])
  <1>1. rows' = Append(rows, row) /\ rows \in Seq(Rows) /\ row.status = "pending" /\ row.attempts = 0
    BY DEF CreatePending, NewRow, DeliveryInv, TypeOK
  <1> HIDE DEF row
  <1>2. /\ DOMAIN rows' = DOMAIN rows \cup {Len(rows) + 1}
        /\ \A id \in DOMAIN rows : rows'[id] = rows[id]
        /\ rows'[Len(rows) + 1] = row
    BY <1>1
  <1>3. delivered' = delivered /\ stored' = stored
    BY DEF CreatePending
  <1>4. SucceededWasDelivered' /\ PendingHasAttemptsLeft'
    BY <1>1, <1>2, <1>3, DeliveryAssumption
       DEF DeliveryInv, SucceededWasDelivered, PendingHasAttemptsLeft
  <1>5. RowsStay /\ pipeline \in Clients
    BY <1>2 DEF RowsStay, Clients
  <1>6. KnowsDelivered'
    BY <1>3, <1>5, DoneKnows, BeginKnows DEF CreatePending
  <1>7. QED
    BY <1>3, <1>4, <1>6 DEF Claims, DeliveryInv, DeletedWasDelivered

LEMMA PollClaims ==
    ASSUME DeliveryInv, Poll
    PROVE  Claims'
  <1>1. SameRows /\ RowsStay /\ SucceededWasDelivered' /\ PendingHasAttemptsLeft' /\ Worker \in Clients
    BY SameRowsUnchanged, SameRowsInv DEF Poll, Clients
  <1>2. PICK batch : ops' = [ops EXCEPT ![Worker] = [Resting("next") EXCEPT !.batch = batch]]
    BY DEF Poll
  <1>3. ops'[Worker].pc = "next" /\ \A other \in Clients \ {Worker} : ops'[other] = ops[other]
    BY <1>1, <1>2 DEF DeliveryInv, TypeOK, Resting
  <1>4. KnowsDelivered'
    BY <1>1, <1>3, KnowsStep DEF Poll
  <1>5. QED
    BY <1>1, <1>4 DEF Poll, Claims, DeliveryInv, DeletedWasDelivered

LEMMA NextRecordClaims ==
    ASSUME DeliveryInv, NextRecord
    PROVE  Claims'
  <1> DEFINE batch == ops[Worker].batch
  <1>1. SameRows /\ RowsStay /\ SucceededWasDelivered' /\ PendingHasAttemptsLeft' /\ Worker \in Clients
    BY SameRowsUnchanged, SameRowsInv DEF NextRecord, Clients
  <1>2. ASSUME ops' = [ops EXCEPT ![Worker] = Resting("idle")] PROVE KnowsDelivered'
    BY <1>1, <1>2, KnowsStep DEF DeliveryInv, TypeOK, Resting, NextRecord
  <1>3. ASSUME Begin(Worker, Head(batch), Tail(batch)) PROVE KnowsDelivered'
    BY <1>1, <1>3, BeginKnows DEF NextRecord
  <1>4. ASSUME ops' = [ops EXCEPT ![Worker].batch = Tail(batch)] PROVE KnowsDelivered'
    <2>1. ops[Worker] \in Ops /\ ops[Worker].pc = "next"
      BY <1>1 DEF DeliveryInv, TypeOK, NextRecord, At
    <2>2. ops'[Worker].pc = "next" /\ \A other \in Clients \ {Worker} : ops'[other] = ops[other]
      BY <1>1, <1>4, <2>1 DEF DeliveryInv, TypeOK, Ops
    <2>3. QED
      BY <1>1, <2>2, KnowsStep DEF NextRecord
  <1>5. KnowsDelivered'
    BY <1>2, <1>3, <1>4 DEF NextRecord
  <1>6. QED
    BY <1>1, <1>5 DEF NextRecord, Claims, DeliveryInv, DeletedWasDelivered

LEMMA RetryCommandClaims ==
    ASSUME DeliveryInv, NEW retrier \in Retriers, RetryCommand(retrier)
    PROVE  Claims'
  <1>1. SameRows /\ RowsStay /\ SucceededWasDelivered' /\ PendingHasAttemptsLeft' /\ retrier \in Clients
    BY SameRowsUnchanged, SameRowsInv DEF RetryCommand, Clients
  <1>2. KnowsDelivered'
    BY <1>1, BeginKnows, DoneKnows DEF RetryCommand
  <1>3. QED
    BY <1>1, <1>2 DEF RetryCommand, Claims, DeliveryInv, DeletedWasDelivered

LEMMA ReadFileClaims ==
    ASSUME DeliveryInv, NEW client \in Clients, ReadFile(client)
    PROVE  Claims'
  <1>1. SameRows /\ RowsStay /\ SucceededWasDelivered' /\ PendingHasAttemptsLeft'
    BY SameRowsUnchanged, SameRowsInv DEF ReadFile
  <1>2. ops[client] \in Ops
    BY DEF DeliveryInv, TypeOK
  <1>3. \/ ops'[client].pc = "send"
        \/ ops'[client].pc = "mark" /\ ops'[client].outcome = "transient"
    <2>1. ops'[client] = IF Guid(client) \in stored
                           THEN [ops[client] EXCEPT !.pc = "send"]
                           ELSE [ops[client] EXCEPT !.pc = "mark", !.outcome = "transient"]
      BY DEF ReadFile, DeliveryInv, TypeOK
    <2>2. QED
      BY <1>2, <2>1 DEF Ops
  <1>4. \A other \in Clients \ {client} : ops'[other] = ops[other]
    BY DEF ReadFile, DeliveryInv, TypeOK
  <1>5. KnowsDelivered'
    BY <1>1, <1>3, <1>4, KnowsStep DEF ReadFile
  <1>6. QED
    BY <1>1, <1>5 DEF ReadFile, Claims, DeliveryInv, DeletedWasDelivered

LEMMA SendClaims ==
    ASSUME DeliveryInv, NEW client \in Clients, Send(client)
    PROVE  Claims'
  <1>1. PICK outcome \in Outcomes :
           /\ Receive(Guid(client), outcome)
           /\ ops' = [ops EXCEPT ![client].pc = "mark", ![client].outcome = outcome]
    BY DEF Send
  <1>2. delivered \subseteq delivered' /\ (outcome = "ok" => Guid(client) \in delivered')
    BY <1>1 DEF Receive
  <1>3. SameRows /\ RowsStay /\ SucceededWasDelivered' /\ PendingHasAttemptsLeft'
    BY <1>2, SameRowsUnchanged, SameRowsInv DEF Send
  <1>4. ops[client] \in Ops
    BY DEF DeliveryInv, TypeOK
  <1>5. ops'[client] = [ops[client] EXCEPT !.pc = "mark", !.outcome = outcome]
    BY <1>1 DEF DeliveryInv, TypeOK
  <1>6. /\ ops'[client].pc = "mark"
        /\ ops'[client].outcome = outcome
        /\ ops'[client].id = ops[client].id
    BY <1>4, <1>5 DEF Ops
  <1>7. \A other \in Clients \ {client} : ops'[other] = ops[other]
    BY <1>1 DEF DeliveryInv, TypeOK
  <1>8. rows'[ops'[client].id].guid = Guid(client)
    BY <1>6 DEF Send, Guid
  <1>9. KnowsDelivered'
    BY <1>2, <1>3, <1>6, <1>7, <1>8, KnowsStep
  <1>10. QED
    BY <1>2, <1>3, <1>9 DEF Send, Claims, DeliveryInv, DeletedWasDelivered

LEMMA MarkClaims ==
    ASSUME DeliveryInv, NEW client \in Clients, Mark(client)
    PROVE  Claims'
  <1> DEFINE op == ops[client]
             status == StatusAfter(op.outcome, op.attempts)
  <1>1. TypeOK /\ op \in Ops /\ op.pc = "mark"
    BY DEF DeliveryInv, TypeOK, Mark, At
  <1>2. op.id \in DOMAIN rows /\ op.attempts \in Nat
    BY <1>1, MarkAttemptStep DEF Ops
  <1>3. PICK new \in Rows : /\ rows' = [rows EXCEPT ![op.id] = new]
                            /\ new.guid = rows[op.id].guid
                            /\ new.status = status
                            /\ new.attempts = op.attempts
    BY <1>1, MarkAttemptStep
  <1>4. /\ DOMAIN rows' = DOMAIN rows
        /\ \A id \in DOMAIN rows \ {op.id} : rows'[id] = rows[id]
        /\ rows'[op.id] = new
    BY <1>1, <1>2, <1>3, RowStep
  <1>5. RowsStay /\ delivered' = delivered /\ stored' = stored
    BY <1>3, <1>4 DEF RowsStay, Mark
  <1>6. status = "succeeded" => Guid(client) \in delivered
    <2>1. status = "succeeded" => op.outcome = "ok"
      BY DEF StatusAfter
    <2>2. QED
      BY <1>1, <2>1 DEF DeliveryInv, KnowsDelivered, At
  <1>7. status = "pending" => op.attempts < MaxAttempts
    BY <1>2, DeliveryAssumption DEF StatusAfter
  <1>8. SucceededWasDelivered'
    BY <1>3, <1>4, <1>5, <1>6 DEF DeliveryInv, SucceededWasDelivered, Guid
  <1>9. PendingHasAttemptsLeft'
    BY <1>3, <1>4, <1>7 DEF DeliveryInv, PendingHasAttemptsLeft
  <1>10. KnowsDelivered'
    <2>1. CASE status = "succeeded" /\ DeleteAfterSuccess
      <3>1. ops'[client] = [Resting("delete") EXCEPT !.id = op.id, !.batch = op.batch]
        BY <1>1, <2>1 DEF Mark, TypeOK
      <3>2. ops'[client].id = op.id
        BY <3>1 DEF Resting
      <3>3. \A other \in Clients \ {client} : ops'[other] = ops[other]
        BY <1>1, <2>1 DEF Mark, TypeOK
      <3>4. rows'[ops'[client].id].guid \in delivered'
        BY <1>2, <1>3, <1>4, <1>5, <1>6, <2>1, <3>2 DEF Guid
      <3>5. QED
        BY <1>5, <3>3, <3>4, KnowsStep
    <2>2. CASE ~ (status = "succeeded" /\ DeleteAfterSuccess)
      BY <1>5, <2>2, DoneKnows DEF Mark
    <2>3. QED
      BY <2>1, <2>2
  <1>11. QED
    BY <1>5, <1>8, <1>9, <1>10 DEF Claims, DeliveryInv, DeletedWasDelivered

LEMMA DeleteFileClaims ==
    ASSUME DeliveryInv, NEW client \in Clients, DeleteFile(client)
    PROVE  Claims'
  <1>1. SameRows /\ RowsStay /\ SucceededWasDelivered' /\ PendingHasAttemptsLeft'
    BY SameRowsUnchanged, SameRowsInv DEF DeleteFile
  <1>2. Guid(client) \in delivered
    BY DEF DeliveryInv, KnowsDelivered, DeleteFile
  <1>3. DeletedWasDelivered'
    BY <1>2 DEF DeleteFile, DeliveryInv, DeletedWasDelivered
  <1>4. KnowsDelivered'
    BY <1>1, DoneKnows DEF DeleteFile
  <1>5. QED
    BY <1>1, <1>3, <1>4 DEF Claims

LEMMA ElapseClaims ==
    ASSUME DeliveryInv, NEW id \in DOMAIN rows, Elapse(id)
    PROVE  Claims'
  <1>1. rows \in Seq(Rows) /\ rows[id] \in Rows
    BY DEF DeliveryInv, TypeOK
  <1>2. rows' = [rows EXCEPT ![id] = [rows[id] EXCEPT !.retryAfter = "due"]]
    BY DEF Elapse
  <1>3. SameRows
    BY <1>1, <1>2 DEF SameRows, Rows
  <1>4. SucceededWasDelivered' /\ PendingHasAttemptsLeft' /\ RowsStay
    BY <1>3, SameRowsInv DEF Elapse
  <1>5. KnowsDelivered'
    <2> SUFFICES ASSUME NEW client \in Clients,
                        (At(client, "mark") /\ ops[client].outcome = "ok") \/ At(client, "delete")
                 PROVE  Guid(client)' \in delivered
      BY DEF Elapse, KnowsDelivered, At
    <2>1. ops[client].id \in DOMAIN rows /\ Guid(client) \in delivered
      BY KnowingNamesRow DEF DeliveryInv, KnowsDelivered, At, AttemptSteps
    <2>2. QED
      BY <1>4, <2>1 DEF RowsStay, Guid, Elapse
  <1>6. QED
    BY <1>4, <1>5 DEF Elapse, Claims, DeliveryInv, DeletedWasDelivered

LEMMA GivesUpClaims ==
    ASSUME DeliveryInv, NEW client \in Clients, Done(client),
           UNCHANGED <<rows, stored, delivered>>
    PROVE  Claims'
  <1>1. SameRows /\ RowsStay /\ SucceededWasDelivered' /\ PendingHasAttemptsLeft'
    BY SameRowsUnchanged, SameRowsInv
  <1>2. KnowsDelivered'
    BY <1>1, DoneKnows
  <1>3. QED
    BY <1>1, <1>2 DEF Claims, DeliveryInv, DeletedWasDelivered

LEMMA CrashClaims ==
    ASSUME DeliveryInv, ServerCrash
    PROVE  Claims'
  <1>1. SucceededWasDelivered' /\ PendingHasAttemptsLeft'
    BY SameRowsUnchanged, SameRowsInv DEF ServerCrash
  <1>2. \A client \in Clients : \/ ops'[client].pc \in {"off", "idle"}
                                \/ ops'[client] = ops[client]
    BY RestingType DEF ServerCrash
  <1>3. KnowsDelivered'
    BY <1>2 DEF ServerCrash, DeliveryInv, KnowsDelivered, At, Guid
  <1>4. QED
    BY <1>1, <1>3 DEF ServerCrash, Claims, DeliveryInv, DeletedWasDelivered

LEMMA NextDeliveryInv == DeliveryInv /\ [Next]_vars => DeliveryInv'
  <1> SUFFICES ASSUME DeliveryInv, [Next]_vars PROVE DeliveryInv'
    OBVIOUS
  <1>1. ASSUME NEW client \in Clients, AttemptStep(client) PROVE Claims'
    BY <1>1, ReadFileClaims, SendClaims, MarkClaims, DeleteFileClaims DEF AttemptStep
  <1>2. ASSUME NEW client \in Clients, StepFails(client) PROVE Claims'
    BY <1>2, GivesUpClaims DEF StepFails
  <1>3. ASSUME NEW retrier \in Retriers, KillCommand(retrier) PROVE Claims'
    BY <1>3, GivesUpClaims DEF KillCommand, Clients
  <1>4. ASSUME UNCHANGED vars PROVE Claims'
    BY <1>4 DEF vars, Claims, DeliveryInv, SucceededWasDelivered, DeletedWasDelivered,
                PendingHasAttemptsLeft, KnowsDelivered, At, Guid
  <1>5. Claims'
    BY <1>1, <1>2, <1>3, <1>4, CreateClaims, PollClaims, NextRecordClaims, RetryCommandClaims,
       ElapseClaims, CrashClaims DEF Next
  <1>6. TypeOK'
    BY NextTypeOK DEF DeliveryInv
  <1>7. QED
    BY <1>5, <1>6 DEF Claims, DeliveryInv

LEMMA InitDeliveryInv == Init => DeliveryInv
  <1> SUFFICES ASSUME Init PROVE DeliveryInv
    OBVIOUS
  <1>1. \A client \in Clients : ops[client].pc \in {"create", "idle"}
    BY RestingType DEF Init
  <1>2. KnowsDelivered
    BY <1>1 DEF KnowsDelivered, At
  <1>3. QED
    BY <1>2, InitTypeOK DEF Init, DeliveryInv, SucceededWasDelivered, DeletedWasDelivered,
                            PendingHasAttemptsLeft

LEMMA DeliveryInvariant == Spec => []DeliveryInv
  BY InitDeliveryInv, NextDeliveryInv, PTL DEF Spec

\* MarkAttempt writes "succeeded" only for a voucher the receiver has, for any
\* number of racing clients, lost answers and crashes, although attempts
\* overwrite each other's results.
THEOREM SuccessIsBacked == Spec => []SucceededWasDelivered
  <1>1. DeliveryInv => SucceededWasDelivered
    BY DEF DeliveryInv
  <1>2. QED
    BY <1>1, DeliveryInvariant, PTL

\* delete_after_success never removes the file of a voucher the receiver does
\* not have, whoever sent it.
THEOREM NoVoucherLost == Spec => []DeletedWasDelivered
  <1>1. DeliveryInv => DeletedWasDelivered
    BY DEF DeliveryInv
  <1>2. QED
    BY <1>1, DeliveryInvariant, PTL

\* A row that waits for a retry has an attempt left, for every max_attempts.
THEOREM PendingIsUnderTheLimit == Spec => []PendingHasAttemptsLeft
  <1>1. DeliveryInv => PendingHasAttemptsLeft
    BY DEF DeliveryInv
  <1>2. QED
    BY <1>1, DeliveryInvariant, PTL
===============================================================================
