--------------------------- MODULE PartnerTrustProofs ---------------------------
(***************************************************************************)
(* Theorems about PartnerTrust, for any numbers of partners, DIDs and      *)
(* commands.  The rows and the worker are described by what each of them   *)
(* may hold (TypeInv), by where keys come from (Origins), and by which     *)
(* DID an id stands for (OneDid).                                          *)
(***************************************************************************)
EXTENDS PartnerTrust, TLAPS

\* A worker with a partner in hand knows an id and a DID.
WorkerOK ==
    worker.pc \in {"resolve", "fetch", "update"} => worker.id \in Ids /\ worker.did \in Dids

\* A command that is about to insert has an id and a row.
OpsOK ==
    \A command \in Commands :
       ops[command].pc = "insert" => ops[command].id \in Ids /\ ops[command].row \in Rows

TypeInv == TypeOK /\ WorkerOK /\ OpsOK

-------------------------------------------------------------------------------
\* The sources of keys and endpoints.
LEMMA SourceFacts ==
    /\ None \in Sources /\ None \notin Documents
    /\ \A given \in {"none", "own"} : From(given) \in Sources /\ From(given) \notin Documents
  BY PartnerAssumption DEF Sources, Documents, From, None

LEMMA CurrentFacts ==
    ASSUME TypeOK, NEW did \in Dids
    PROVE  Current(did) \in Documents /\ Current(did) \in Sources
  BY DEF TypeOK, Current, Documents, Sources

LEMMA NewRowFacts ==
    ASSUME NEW entry \in Entries
    PROVE  /\ NewRow(entry) \in Rows
           /\ NewRow(entry).did = entry.did
           /\ NewRow(entry).key \notin Documents
           /\ NewRow(entry).push \notin Documents
  BY SourceFacts DEF Entries, NewRow, Rows

LEMMA ResolvedFacts ==
    ASSUME TypeOK, NEW entry \in Entries, entry.did # NoDid
    PROVE  /\ Resolved(entry) \in Rows
           /\ Resolved(entry).did = entry.did
           /\ Resolved(entry).key = Current(entry.did)
           /\ Resolved(entry).push \in Documents => Resolved(entry).push = Current(entry.did)
  <1>1. entry.did \in Dids
    BY DEF Entries
  <1>2. NewRow(entry) \in Rows /\ NewRow(entry).push \notin Documents
    BY NewRowFacts
  <1>3. Current(entry.did) \in Sources
    BY <1>1, CurrentFacts
  <1>4. QED
    BY <1>2, <1>3 DEF Resolved, Rows, NewRow

\* What StartAdd makes of the options.
LEMMA StartAddFacts ==
    ASSUME TypeOK, NEW command \in Commands, StartAdd(command)
    PROVE  \E id \in Ids \ (used \ Reusable), entry \in Options, row \in Rows :
              /\ used' = used \cup {id}
              /\ ops' = [ops EXCEPT ![command] = [pc |-> "insert", id |-> id, row |-> row]]
              /\ row.did = entry.did
              /\ \/ row.key \notin Documents /\ row.push \notin Documents
                 \/ /\ entry.did \in Dids /\ row.key = Current(entry.did)
                    /\ row.push \in Documents => row.push = row.key
              /\ faults' \in 0..MaxFaults
  <1>1. PICK id \in Ids \ (used \ Reusable), entry \in Options :
          /\ used' = used \cup {id}
          /\ \/ /\ entry.did # NoDid
                /\ ops' = [ops EXCEPT ![command] =
                             [pc |-> "insert", id |-> id, row |-> Resolved(entry)]]
                /\ UNCHANGED faults
             \/ /\ ops' = [ops EXCEPT ![command] =
                             [pc |-> "insert", id |-> id, row |-> NewRow(entry)]]
                /\ Fault \/ UNCHANGED faults
    BY DEF StartAdd
  <1>2. entry \in Entries /\ faults \in 0..MaxFaults /\ MaxFaults \in Nat
    BY PartnerAssumption DEF TypeOK
  <1>3. CASE /\ entry.did # NoDid
             /\ ops' = [ops EXCEPT ![command] =
                          [pc |-> "insert", id |-> id, row |-> Resolved(entry)]]
             /\ UNCHANGED faults
    <2>1. entry.did \in Dids
      BY <1>2, <1>3 DEF Entries
    <2>2. QED
      BY <1>1, <1>2, <1>3, <2>1, ResolvedFacts
  <1>4. CASE /\ ops' = [ops EXCEPT ![command] =
                          [pc |-> "insert", id |-> id, row |-> NewRow(entry)]]
             /\ Fault \/ UNCHANGED faults
    <2>1. faults' \in 0..MaxFaults
      BY <1>2, <1>4 DEF Fault
    <2>2. QED
      BY <1>1, <1>2, <1>4, <2>1, NewRowFacts
  <1>5. QED
    BY <1>1, <1>3, <1>4

\* What List puts on the list.
LEMMA ListFacts ==
    ASSUME TypeOK, List
    PROVE  /\ worker' = [Resting("next") EXCEPT !.list = worker'.list]
           /\ worker'.list \subseteq Ids \X Dids
           /\ \A entry \in worker'.list :
                 Present(entry[1]) /\ partners[entry[1]].did = entry[2]
  <1>1. \A id \in Stale : id \in Ids /\ Present(id) /\ partners[id].did \in Dids
    BY DEF Stale, Present, IsWeb, TypeOK, Rows
  <1>2. worker'.list = {<<id, partners[id].did>> : id \in Stale}
    BY DEF List, Resting
  <1>3. worker' = [Resting("next") EXCEPT !.list = worker'.list]
    BY <1>2 DEF List
  <1>4. QED
    BY <1>1, <1>2, <1>3

LEMMA RestingType ==
    ASSUME NEW step \in {"boot", "idle", "next"}
    PROVE  Resting(step) \in Workers /\ Resting(step).pc = step
  BY SourceFacts DEF Resting, Workers

-------------------------------------------------------------------------------
LEMMA InitType == Init => TypeInv
  <1> SUFFICES ASSUME Init PROVE TypeInv
    OBVIOUS
  <1>1. worker \in Workers /\ worker.pc = "boot"
    BY RestingType DEF Init
  <1>2. TypeOK
    BY <1>1, PartnerAssumption DEF Init, TypeOK, Ops
  <1>3. QED
    BY <1>1, <1>2 DEF TypeInv, WorkerOK, OpsOK, Init

\* NextPartner takes one entry off the list.
LEMMA NextFacts ==
    ASSUME TypeInv, NextPartner
    PROVE  \/ worker' = Resting("idle")
           \/ \E entry \in worker.list :
                 /\ worker' \in Workers /\ worker'.pc = "resolve"
                 /\ worker'.id = entry[1] /\ worker'.did = entry[2]
                 /\ worker'.id \in Ids /\ worker'.did \in Dids
                 /\ worker'.list \subseteq worker.list
                 /\ worker'.key = None /\ worker'.pull = None
  <1>1. ASSUME NEW entry \in worker.list,
               worker' = [Resting("resolve") EXCEPT !.list = worker.list \ {entry},
                                                    !.id = entry[1], !.did = entry[2]]
        PROVE  /\ worker' \in Workers /\ worker'.pc = "resolve"
               /\ worker'.id = entry[1] /\ worker'.did = entry[2]
               /\ worker'.id \in Ids /\ worker'.did \in Dids
               /\ worker'.list \subseteq worker.list
               /\ worker'.key = None /\ worker'.pull = None
    <2>1. worker.list \subseteq Ids \X Dids
      BY DEF TypeInv, TypeOK, Workers
    <2>2. entry[1] \in Ids /\ entry[2] \in Dids
      BY <2>1
    <2>3. worker' = [pc |-> "resolve", list |-> worker.list \ {entry}, id |-> entry[1],
                     did |-> entry[2], key |-> None, pull |-> None]
      BY <1>1 DEF Resting
    <2>4. worker.list \ {entry} \subseteq Ids \X Dids
      BY <2>1
    <2>5. QED
      BY <2>2, <2>3, <2>4, SourceFacts DEF Workers
  <1>2. QED
    BY <1>1 DEF NextPartner

\* UpdateDIDDocument changes the row of the worker's partner, if there is one.
LEMMA UpdateFacts ==
    ASSUME TypeInv, UpdateDIDDocument
    PROVE  /\ worker.id \in Ids
           /\ \A id \in Ids \ {worker.id} : partners'[id] = partners[id]
           /\ ~ Present(worker.id) => partners'[worker.id] = Absent
           /\ Present(worker.id) =>
                 /\ partners'[worker.id] \in Rows
                 /\ partners'[worker.id].did = partners[worker.id].did
                 /\ partners'[worker.id].key = worker.key
                 /\ partners'[worker.id].push = worker.key
           /\ partners' \in [Ids -> Rows \cup {Absent}]
  <1>1. worker.id \in Ids /\ worker.key \in Sources /\ worker.pull \in Sources
    BY DEF UpdateDIDDocument, TypeInv, TypeOK, WorkerOK, Workers
  <1>2. CASE ~ Present(worker.id)
    <2>1. partners' = [partners EXCEPT ![worker.id] = @]
      BY <1>2 DEF UpdateDIDDocument, Present
    <2>2. partners' = partners
      BY <2>1, <1>1 DEF TypeInv, TypeOK
    <2>3. QED
      BY <1>1, <1>2, <2>2 DEF Present, TypeInv, TypeOK
  <1>3. CASE Present(worker.id)
    <2> DEFINE row == [partners[worker.id] EXCEPT !.key = worker.key, !.push = worker.key,
                                                  !.pull = worker.pull, !.stale = FALSE]
    <2>1. partners[worker.id] \in Rows
      BY <1>1, <1>3 DEF Present, TypeInv, TypeOK
    <2>2. /\ row \in Rows /\ row.did = partners[worker.id].did
          /\ row.key = worker.key /\ row.push = worker.key
      BY <1>1, <2>1 DEF Rows
    <2>3. partners' = [partners EXCEPT ![worker.id] = row]
      BY <1>3 DEF UpdateDIDDocument, Present
    <2> HIDE DEF row
    <2>4. QED
      BY <1>1, <1>3, <2>2, <2>3 DEF TypeInv, TypeOK
  <1>4. QED
    BY <1>2, <1>3

\* Age changes nothing of a row but its age.
LEMMA AgeFacts ==
    ASSUME TypeInv, NEW old \in Ids, Age(old)
    PROVE  /\ partners' \in [Ids -> Rows \cup {Absent}]
           /\ \A id \in Ids : partners'[id] # Absent =>
                 /\ Present(id)
                 /\ partners'[id].did = partners[id].did
                 /\ partners'[id].key = partners[id].key
                 /\ partners'[id].push = partners[id].push
  <1> DEFINE row == [partners[old] EXCEPT !.stale = TRUE]
  <1>1. partners[old] \in Rows
    BY DEF Age, Present, TypeInv, TypeOK
  <1>2. /\ row \in Rows /\ row.did = partners[old].did
        /\ row.key = partners[old].key /\ row.push = partners[old].push
    BY <1>1 DEF Rows
  <1>3. partners' = [partners EXCEPT ![old] = row]
    BY DEF Age
  <1> HIDE DEF row
  <1>4. QED
    BY <1>2, <1>3 DEF Age, Present, TypeInv, TypeOK

LEMMA WorkerType ==
    ASSUME TypeInv, WorkerStep \/ WorkerFails \/ ServerRestart
    PROVE  worker' \in Workers /\ WorkerOK'
  <1>1. CASE Bootstrap
    BY <1>1, RestingType DEF Bootstrap, WorkerOK
  <1>2. CASE List
    BY <1>2, ListFacts, SourceFacts DEF TypeInv, Resting, Workers, WorkerOK
  <1>3. CASE NextPartner
    <2>1. CASE worker' = Resting("idle")
      BY <2>1, RestingType DEF WorkerOK
    <2>2. CASE worker' # Resting("idle")
      BY <1>3, <2>2, NextFacts DEF WorkerOK
    <2>3. QED
      BY <2>1, <2>2
  <1>4. CASE Resolve
    BY <1>4, CurrentFacts DEF Resolve, TypeInv, TypeOK, Workers, WorkerOK
  <1>5. CASE FetchRaw
    BY <1>5, CurrentFacts DEF FetchRaw, TypeInv, TypeOK, Workers, WorkerOK
  <1>6. CASE UpdateDIDDocument
    BY <1>6, SourceFacts DEF UpdateDIDDocument, TypeInv, TypeOK, Resting, Workers, WorkerOK
  <1>7. CASE WorkerFails
    BY <1>7, SourceFacts DEF WorkerFails, TypeInv, TypeOK, Resting, Workers, WorkerOK
  <1>8. CASE ServerRestart
    BY <1>8, RestingType DEF ServerRestart, WorkerOK
  <1>9. QED
    BY <1>1, <1>2, <1>3, <1>4, <1>5, <1>6, <1>7, <1>8 DEF WorkerStep

LEMMA PartnersType ==
    ASSUME TypeInv,
           \/ \E command \in Commands : Insert(command) \/ Remove(command)
           \/ WorkerStep
           \/ \E id \in Ids : Age(id)
    PROVE  partners' \in [Ids -> Rows \cup {Absent}]
  <1>1. CASE \E command \in Commands : Insert(command)
    BY <1>1 DEF Insert, TypeInv, TypeOK, OpsOK
  <1>2. CASE \E command \in Commands : Remove(command)
    BY <1>2 DEF Remove, TypeInv, TypeOK
  <1>3. CASE Bootstrap
    BY <1>3, NewRowFacts, PartnerAssumption DEF Bootstrap, TypeInv, TypeOK
  <1>4. CASE List \/ NextPartner \/ Resolve \/ FetchRaw
    BY <1>4 DEF List, NextPartner, Resolve, FetchRaw, TypeInv, TypeOK
  <1>5. CASE UpdateDIDDocument
    BY <1>5, UpdateFacts
  <1>6. CASE \E id \in Ids : Age(id)
    BY <1>6, AgeFacts
  <1>7. QED
    BY <1>1, <1>2, <1>3, <1>4, <1>5, <1>6 DEF WorkerStep

LEMMA StepType == TypeInv /\ [Next]_vars => TypeInv'
  <1> SUFFICES ASSUME TypeInv, [Next]_vars PROVE TypeInv'
    OBVIOUS
  <1>1. CASE UNCHANGED vars
    BY <1>1 DEF vars, TypeInv, TypeOK, WorkerOK, OpsOK
  <1>2. CASE \E did \in Dids : Publish(did)
    BY <1>2, PartnerAssumption DEF Publish, TypeInv, TypeOK, WorkerOK, OpsOK
  <1>3. ASSUME NEW command \in Commands, StartAdd(command) PROVE TypeInv'
    BY <1>3, StartAddFacts DEF StartAdd, TypeInv, TypeOK, Ops, WorkerOK, OpsOK
  <1>4. ASSUME NEW command \in Commands, Insert(command) \/ Remove(command) PROVE TypeInv'
    BY <1>4, PartnersType DEF Insert, Remove, TypeInv, TypeOK, Ops, WorkerOK, OpsOK
  <1>5. CASE WorkerStep
    BY <1>5, WorkerType, PartnersType DEF WorkerStep, Bootstrap, List, NextPartner, Resolve,
       FetchRaw, UpdateDIDDocument, TypeInv, TypeOK, OpsOK
  <1>6. CASE \E id \in Ids : Age(id)
    BY <1>6, PartnersType DEF Age, TypeInv, TypeOK, WorkerOK, OpsOK
  <1>7. CASE WorkerFails \/ ServerRestart
    BY <1>7, WorkerType, PartnerAssumption DEF WorkerFails, ServerRestart, Fault, TypeInv, TypeOK, OpsOK
  <1>8. CASE \E command \in Commands : KillCommand(command)
    BY <1>8, PartnerAssumption DEF KillCommand, Fault, TypeInv, TypeOK, Ops, WorkerOK, OpsOK
  <1>9. QED
    BY <1>1, <1>2, <1>3, <1>4, <1>5, <1>6, <1>7, <1>8 DEF Next

LEMMA AlwaysTyped == Spec => []TypeInv
  BY InitType, StepType, PTL DEF Spec

\* Rows, commands and worker keep their types, whoever writes in between.
THEOREM TypeCorrect == Spec => []TypeOK
  <1>1. TypeInv => TypeOK
    BY DEF TypeInv
  <1>2. QED
    BY <1>1, AlwaysTyped, PTL

-------------------------------------------------------------------------------
(***************************************************************************)
(* What a step may do to the table, to a command and to the worker.        *)
(***************************************************************************)
Inserts(command, id) == ops[command].pc = "insert" /\ ops[command].id = id

\* The worker has read that this id has this DID, and may still use it.
InHand == worker.pc \in {"resolve", "fetch", "update"}
Holds(id, did) ==
    \/ <<id, did>> \in worker.list
    \/ InHand /\ worker.id = id /\ worker.did = did

Kept(id) ==
    /\ Present(id)
    /\ partners'[id].did = partners[id].did
    /\ partners'[id].key = partners[id].key
    /\ partners'[id].push = partners[id].push

Refreshed(id) ==
    /\ Present(id) /\ UpdateDIDDocument /\ id = worker.id
    /\ partners'[id].did = partners[id].did
    /\ partners'[id].key = worker.key
    /\ partners'[id].push = worker.key

Added(id, command) ==
    /\ ~ Present(id) /\ Insert(command) /\ Inserts(command, id)
    /\ partners'[id] = ops[command].row

Enrolled(id) ==
    /\ ~ Present(id) /\ Bootstrap /\ id \in Configured
    /\ partners'[id].key \notin Documents /\ partners'[id].push \notin Documents

LEMMA TableStep ==
    ASSUME TypeInv, [Next]_vars, NEW id \in Ids, partners'[id] # Absent
    PROVE  \/ Kept(id)
           \/ Refreshed(id)
           \/ \E command \in Commands : Added(id, command)
           \/ Enrolled(id)
  <1>1. CASE partners' = partners
    BY <1>1 DEF Kept, Present
  <1>2. ASSUME NEW command \in Commands, Insert(command)
        PROVE  Kept(id) \/ Added(id, command)
    <2>1. ops[command].id \in Ids /\ ops[command].row \in Rows
      BY <1>2 DEF Insert, TypeInv, OpsOK
    <2>2. CASE id = ops[command].id /\ partners[id] = Absent
      BY <1>2, <2>1, <2>2 DEF Insert, Added, Inserts, Present, TypeInv, TypeOK
    <2>3. CASE id # ops[command].id \/ partners[id] # Absent
      <3>1. partners'[id] = partners[id]
        BY <1>2, <2>1, <2>3 DEF Insert, TypeInv, TypeOK
      <3>2. QED
        BY <3>1 DEF Kept, Present
    <2>4. QED
      BY <2>2, <2>3
  <1>3. ASSUME NEW command \in Commands, Remove(command) PROVE Kept(id)
    BY <1>3 DEF Remove, Kept, Present, TypeInv, TypeOK
  <1>4. CASE Bootstrap
    <2>1. CASE Present(id)
      BY <1>4, <2>1 DEF Bootstrap, Kept, Present
    <2>2. CASE ~ Present(id)
      <3>1. id \in Configured /\ partners'[id] = NewRow(ConfigEntry[id])
        BY <1>4, <2>2 DEF Bootstrap, Present
      <3>2. ConfigEntry[id] \in Entries
        BY <3>1, PartnerAssumption
      <3>3. QED
        BY <1>4, <2>2, <3>1, <3>2, NewRowFacts DEF Enrolled
    <2>3. QED
      BY <2>1, <2>2
  <1>5. CASE UpdateDIDDocument
    BY <1>5, UpdateFacts DEF Kept, Refreshed, Present
  <1>6. ASSUME NEW old \in Ids, Age(old) PROVE Kept(id)
    BY <1>6, AgeFacts DEF Kept
  <1>7. QED
    BY <1>1, <1>2, <1>3, <1>4, <1>5, <1>6 DEF Next, vars, Publish, StartAdd, WorkerStep, List,
       NextPartner, Resolve, FetchRaw, WorkerFails, ServerRestart, KillCommand

\* A command that will insert has just started, or was about to before.
Fresh(command, id) ==
    /\ id \in Ids \ (used \ Reusable)
    /\ used' = used \cup {id}
    /\ UNCHANGED <<published, partners, worker>>
    /\ \A other \in Commands \ {command} : ops'[other] = ops[other]
    /\ LET row == ops'[command].row IN
          \/ row.key \notin Documents /\ row.push \notin Documents
          \/ /\ row.did \in Dids /\ row.key = Current(row.did)
             /\ row.push \in Documents => row.push = row.key

LEMMA CommandStep ==
    ASSUME TypeInv, [Next]_vars, NEW command \in Commands, NEW id,
           ops'[command].pc = "insert", ops'[command].id = id
    PROVE  \/ ops'[command] = ops[command]
           \/ Fresh(command, id)
  <1>1. CASE ops' = ops
    BY <1>1
  <1>2. ASSUME NEW other \in Commands, StartAdd(other)
        PROVE  ops'[command] = ops[command] \/ Fresh(command, id)
    <2>1. PICK new \in Ids \ (used \ Reusable), entry \in Options, row \in Rows :
            /\ used' = used \cup {new}
            /\ ops' = [ops EXCEPT ![other] = [pc |-> "insert", id |-> new, row |-> row]]
            /\ row.did = entry.did
            /\ \/ row.key \notin Documents /\ row.push \notin Documents
               \/ /\ entry.did \in Dids /\ row.key = Current(entry.did)
                  /\ row.push \in Documents => row.push = row.key
      BY <1>2, StartAddFacts DEF TypeInv
    <2>2. CASE other # command
      BY <2>1, <2>2 DEF TypeInv, TypeOK
    <2>3. CASE other = command
      <3>1. ops'[command] = [pc |-> "insert", id |-> new, row |-> row]
        BY <2>1, <2>3 DEF TypeInv, TypeOK
      <3>2. new = id /\ ops'[command].row = row
        BY <3>1
      <3>3. \A any \in Commands \ {command} : ops'[any] = ops[any]
        BY <2>1, <2>3 DEF TypeInv, TypeOK
      <3>4. QED
        BY <1>2, <2>1, <3>2, <3>3 DEF Fresh, StartAdd
    <2>4. QED
      BY <2>2, <2>3
  <1>3. ASSUME NEW other \in Commands, Insert(other) \/ KillCommand(other)
        PROVE  ops'[command] = ops[command]
    BY <1>3 DEF Insert, KillCommand, TypeInv, TypeOK
  <1>4. ASSUME NEW other \in Commands, Remove(other) PROVE ops'[command] = ops[command]
    <2>1. other # command
      BY <1>4 DEF Remove, TypeInv, TypeOK, Ops
    <2>2. QED
      BY <1>4, <2>1 DEF Remove, TypeInv, TypeOK
  <1>5. QED
    BY <1>1, <1>2, <1>3, <1>4 DEF Next, vars, Publish, WorkerStep, Bootstrap, List, NextPartner,
       Resolve, FetchRaw, UpdateDIDDocument, Age, WorkerFails, ServerRestart

LEMMA HoldsStep ==
    ASSUME TypeInv, [Next]_vars, NEW id, NEW did, Holds(id, did)'
    PROVE  \/ Holds(id, did)
           \/ List /\ Present(id) /\ partners[id].did = did
  <1>1. CASE UNCHANGED worker
    BY <1>1 DEF Holds, InHand
  <1>2. CASE Bootstrap \/ ServerRestart
    BY <1>2 DEF Bootstrap, ServerRestart, Holds, InHand, Resting
  <1>3. CASE List
    <2>1. worker'.pc = "next"
      BY <1>3, ListFacts DEF TypeInv, Resting
    <2>2. <<id, did>> \in worker'.list
      BY <2>1 DEF Holds, InHand
    <2>3. QED
      BY <1>3, <2>2, ListFacts DEF TypeInv
  <1>4. CASE NextPartner
    <2>1. CASE worker' = Resting("idle")
      BY <2>1 DEF Holds, InHand, Resting
    <2>2. ASSUME NEW entry \in worker.list,
                 worker'.id = entry[1], worker'.did = entry[2],
                 worker'.list \subseteq worker.list
          PROVE  Holds(id, did)
      <3>1. entry = <<entry[1], entry[2]>>
        BY DEF TypeInv, TypeOK, Workers
      <3>2. QED
        BY <2>2, <3>1 DEF Holds
    <2>3. QED
      BY <1>4, <2>1, <2>2, NextFacts
  <1>5. CASE Resolve \/ FetchRaw
    BY <1>5 DEF Resolve, FetchRaw, Holds, InHand, TypeInv, TypeOK, Workers
  <1>6. CASE UpdateDIDDocument \/ WorkerFails
    BY <1>6 DEF UpdateDIDDocument, WorkerFails, Holds, InHand, TypeInv, TypeOK, Workers, Resting
  <1>7. QED
    BY <1>1, <1>2, <1>3, <1>4, <1>5, <1>6 DEF Next, vars, Publish, StartAdd, Insert, Remove,
       WorkerStep, Age, KillCommand

-------------------------------------------------------------------------------
\* A partner that was removed only returns when it is added again: by a command, or
\* from the config file at a start of the server.
THEOREM RemovedStaysRemoved == Spec => RemovedUntilAdded
  <1>1. ASSUME TypeInv, [Next]_vars
        PROVE  \A id \in Ids :
                 (~ Present(id) /\ Present(id)')
                   => \/ \E command \in Commands :
                            ops[command].pc = "insert" /\ ops[command].id = id
                      \/ worker.pc = "boot" /\ id \in Configured
    <2>1. SUFFICES ASSUME NEW id \in Ids, ~ Present(id), partners'[id] # Absent
                   PROVE  \/ \E command \in Commands :
                                ops[command].pc = "insert" /\ ops[command].id = id
                          \/ worker.pc = "boot" /\ id \in Configured
      BY DEF Present
    <2>2. \/ \E command \in Commands : Added(id, command)
          \/ Enrolled(id)
      BY <1>1, <2>1, TableStep DEF Kept, Refreshed
    <2>3. QED
      BY <2>2 DEF Added, Inserts, Enrolled, Bootstrap
  <1>2. QED
    BY <1>1, AlwaysTyped, PTL DEF Spec, RemovedUntilAdded

-------------------------------------------------------------------------------
(***************************************************************************)
(* Key and push URL come from one document.  What a command is about to    *)
(* insert has to be part of the invariant.                                 *)
(***************************************************************************)
Together(row) == row.key \in Documents /\ row.push \in Documents => row.push = row.key

TogetherInv ==
    /\ \A id \in Ids : Present(id) => Together(partners[id])
    /\ \A command \in Commands : ops[command].pc = "insert" => Together(ops[command].row)

LEMMA TogetherStep == TypeInv /\ TogetherInv /\ [Next]_vars => TogetherInv'
  <1> SUFFICES ASSUME TypeInv, TogetherInv, [Next]_vars PROVE TogetherInv'
    OBVIOUS
  <1>1. ASSUME NEW id \in Ids, partners'[id] # Absent PROVE Together(partners'[id])
    <2>1. CASE Kept(id)
      BY <2>1 DEF Kept, Together, TogetherInv
    <2>2. CASE Refreshed(id)
      BY <2>2 DEF Refreshed, Together
    <2>3. ASSUME NEW command \in Commands, Added(id, command) PROVE Together(partners'[id])
      BY <2>3 DEF Added, Inserts, TogetherInv
    <2>4. CASE Enrolled(id)
      BY <2>4 DEF Enrolled, Together
    <2>5. QED
      BY <1>1, <2>1, <2>2, <2>3, <2>4, TableStep
  <1>2. ASSUME NEW command \in Commands, ops'[command].pc = "insert"
        PROVE  Together(ops'[command].row)
    <2>1. CASE ops'[command] = ops[command]
      BY <1>2, <2>1 DEF TogetherInv
    <2>2. CASE Fresh(command, ops'[command].id)
      BY <2>2 DEF Fresh, Together
    <2>3. QED
      BY <1>2, <2>1, <2>2, CommandStep
  <1>3. QED
    BY <1>1, <1>2 DEF TogetherInv, Present

\* A voucher that is routed by a key from a DID document goes to an endpoint of the
\* same document.
THEOREM RoutedFromOneDocument == Spec => []RoutedTogether
  <1>1. Init => TogetherInv
    BY DEF Init, TogetherInv, Present
  <1>2. TogetherInv => RoutedTogether
    BY DEF TogetherInv, Together, RoutedTogether, resolveViaPartner, GetByFingerprint
  <1>3. QED
    BY <1>1, <1>2, AlwaysTyped, TogetherStep, PTL DEF Spec

-------------------------------------------------------------------------------
(***************************************************************************)
(* An id that is not used again stands for one DID: nobody is about to     *)
(* insert it while there is a row, or while the worker has it in hand, and *)
(* what the worker has in hand is the DID of the row.                      *)
(***************************************************************************)
OneDid(id) ==
    /\ id \notin used => /\ ~ Present(id)
                         /\ \A did \in Dids : ~ Holds(id, did)
                         /\ \A command \in Commands : ~ Inserts(command, id)
    /\ \A command \in Commands : Inserts(command, id) =>
          /\ id \notin Configured /\ ~ Present(id)
          /\ \A did \in Dids : ~ Holds(id, did)
          /\ \A other \in Commands : Inserts(other, id) => other = command
    /\ \A did \in Dids : Present(id) /\ Holds(id, did) => did = partners[id].did

DidInv ==
    /\ Configured \subseteq used
    /\ \A id \in Ids \ Reusable : OneDid(id)

LEMMA DidInit == Init => DidInv
  <1> SUFFICES ASSUME Init PROVE DidInv
    OBVIOUS
  <1>1. \A id \in Ids : ~ Present(id) /\ (\A did \in Dids : ~ Holds(id, did))
    BY DEF Init, Present, Holds, InHand, Resting
  <1>2. \A id \in Ids, command \in Commands : ~ Inserts(command, id)
    BY DEF Init, Inserts
  <1>3. QED
    BY <1>1, <1>2 DEF DidInv, OneDid, Init

LEMMA UsedGrows == ASSUME [Next]_vars PROVE used \subseteq used'
  BY DEF Next, vars, Publish, StartAdd, Insert, Remove, WorkerStep, Bootstrap, List, NextPartner,
     Resolve, FetchRaw, UpdateDIDDocument, Age, WorkerFails, ServerRestart, KillCommand

\* A pending insertion is an old one, or that of an id that was free.
LEMMA InsertsStep ==
    ASSUME TypeInv, DidInv, [Next]_vars, NEW id \in Ids \ Reusable,
           NEW command \in Commands, Inserts(command, id)'
    PROVE  \/ Inserts(command, id)
           \/ /\ id \notin used /\ id \in used'
              /\ UNCHANGED <<partners, worker>>
              /\ \A other \in Commands \ {command} : ops'[other] = ops[other]
  BY CommandStep DEF Inserts, Fresh

LEMMA DidStep == TypeInv /\ DidInv /\ [Next]_vars => DidInv'
  <1> SUFFICES ASSUME TypeInv, DidInv, [Next]_vars PROVE DidInv'
    OBVIOUS
  <1>1. Configured \subseteq used'
    BY UsedGrows DEF DidInv
  <1>2. SUFFICES ASSUME NEW id \in Ids \ Reusable PROVE OneDid(id)'
    BY <1>1 DEF DidInv
  <1>3. OneDid(id) /\ Configured \subseteq used
    BY DEF DidInv
  <1>4. ASSUME NEW did \in Dids, Holds(id, did)'
        PROVE  Holds(id, did) \/ (List /\ Present(id) /\ partners[id].did = did)
    BY <1>4, HoldsStep
  <1>5. ASSUME id \notin used'
        PROVE  /\ ~ Present(id)'
               /\ \A did \in Dids : ~ Holds(id, did)'
               /\ \A command \in Commands : ~ Inserts(command, id)'
    <2>1. id \notin used
      BY <1>5, UsedGrows
    <2>2. /\ ~ Present(id) /\ (\A did \in Dids : ~ Holds(id, did))
          /\ \A command \in Commands : ~ Inserts(command, id)
      BY <1>3, <2>1 DEF OneDid
    <2>3. ~ Present(id)'
      <3>1. SUFFICES ASSUME partners'[id] # Absent PROVE FALSE
        BY DEF Present
      <3>2. QED
        BY <1>3, <2>1, <2>2, <3>1, TableStep DEF Kept, Refreshed, Added, Enrolled
    <2>4. ASSUME NEW command \in Commands PROVE ~ Inserts(command, id)'
      BY <1>5, <2>2, InsertsStep
    <2>5. QED
      BY <1>4, <2>2, <2>3, <2>4
  <1>6. ASSUME NEW command \in Commands, Inserts(command, id)'
        PROVE  /\ id \notin Configured /\ ~ Present(id)'
               /\ \A did \in Dids : ~ Holds(id, did)'
               /\ \A other \in Commands : Inserts(other, id)' => other = command
    <2>1. CASE Inserts(command, id)
      <3>1. /\ id \in used /\ id \notin Configured /\ ~ Present(id)
            /\ \A did \in Dids : ~ Holds(id, did)
            /\ \A other \in Commands : Inserts(other, id) => other = command
        BY <1>3, <2>1 DEF OneDid
      <3>2. ~ Present(id)'
        <4>1. SUFFICES ASSUME partners'[id] # Absent PROVE FALSE
          BY DEF Present
        <4>2. PICK other \in Commands : Added(id, other)
          BY <3>1, <4>1, TableStep DEF Kept, Refreshed, Enrolled
        <4>3. other = command
          BY <3>1, <4>2 DEF Added
        <4>4. ops'[command].pc = "off"
          BY <4>2, <4>3 DEF Added, Insert, TypeInv, TypeOK
        <4>5. QED
          BY <1>6, <4>4 DEF Inserts
      <3>3. ASSUME NEW other \in Commands, Inserts(other, id)' PROVE other = command
        BY <3>1, <3>3, InsertsStep
      <3>4. QED
        BY <1>4, <3>1, <3>2, <3>3
    <2>2. CASE ~ Inserts(command, id)
      <3>1. /\ id \notin used /\ id \in used' /\ UNCHANGED <<partners, worker>>
            /\ \A other \in Commands \ {command} : ops'[other] = ops[other]
        BY <1>6, <2>2, InsertsStep
      <3>2. /\ ~ Present(id) /\ (\A did \in Dids : ~ Holds(id, did))
            /\ \A other \in Commands : ~ Inserts(other, id)
        BY <1>3, <3>1 DEF OneDid
      <3>3. ~ Present(id)' /\ (\A did \in Dids : ~ Holds(id, did)')
        BY <3>1, <3>2 DEF Present, Holds, InHand
      <3>4. \A other \in Commands : Inserts(other, id)' => other = command
        BY <3>1, <3>2 DEF Inserts
      <3>5. QED
        BY <1>3, <3>1, <3>3, <3>4
    <2>3. QED
      BY <2>1, <2>2
  <1>7. ASSUME NEW did \in Dids, Present(id)', Holds(id, did)'
        PROVE  did = partners'[id].did
    <2>1. partners'[id] # Absent
      BY <1>7 DEF Present
    <2>2. CASE Holds(id, did)
      <3>1. CASE Present(id)
        BY <1>3, <2>1, <2>2, <3>1, TableStep DEF OneDid, Kept, Refreshed, Added, Enrolled
      <3>2. CASE ~ Present(id)
        <4>1. Enrolled(id)
          BY <1>3, <2>1, <2>2, <3>2, TableStep DEF OneDid, Kept, Refreshed, Added
        <4>2. ~ Holds(id, did)'
          BY <4>1 DEF Enrolled, Bootstrap, Holds, InHand, Resting
        <4>3. QED
          BY <1>7, <4>2
      <3>3. QED
        BY <3>1, <3>2
    <2>3. CASE List /\ Present(id) /\ partners[id].did = did
      BY <2>3 DEF List
    <2>4. QED
      BY <1>4, <1>7, <2>2, <2>3
  <1>8. QED
    BY <1>5, <1>6, <1>7 DEF OneDid

LEMMA AlwaysOneDid == Spec => []DidInv
  BY DidInit, DidStep, AlwaysTyped, PTL DEF Spec

-------------------------------------------------------------------------------
(***************************************************************************)
(* Keys are those of the DID they are stored with, and the one the worker  *)
(* is about to write is at least as new as the one it replaces.            *)
(***************************************************************************)
Genuine(key, did) ==
    key \in Documents => key.did = did /\ key.version <= published[did]

Resolving == worker.pc \in {"fetch", "update"}

KeyInv ==
    /\ Resolving => worker.key \in Documents /\ Genuine(worker.key, worker.did)
    /\ \A command \in Commands :
          ops[command].pc = "insert" => Genuine(ops[command].row.key, ops[command].row.did)
    /\ \A id \in Ids \ Reusable : Present(id) => Genuine(partners[id].key, partners[id].did)
    /\ (Resolving /\ worker.id \notin Reusable /\ Present(worker.id)
          /\ partners[worker.id].key \in Documents)
         => partners[worker.id].key.version <= worker.key.version

LEMMA KeyInit == Init => KeyInv
  BY DEF Init, KeyInv, Resolving, Resting, Present

\* What was genuine stays so: documents only get newer.
LEMMA GenuineStays ==
    ASSUME TypeInv, [Next]_vars, NEW key, NEW did, Genuine(key, did)
    PROVE  Genuine(key, did)'
  <1>1. CASE published' = published
    BY <1>1 DEF Genuine
  <1>2. ASSUME NEW one \in Dids, Publish(one) PROVE Genuine(key, did)'
    <2>1. SUFFICES ASSUME key \in Documents PROVE key.did = did /\ key.version <= published'[did]
      BY DEF Genuine
    <2>2. key.did = did /\ key.version <= published[did] /\ did \in Dids /\ key.version \in Nat
      BY <2>1, PartnerAssumption DEF Genuine, Documents
    <2>3. published'[did] \in {published[did], published[did] + 1} /\ published[did] \in Nat
      BY <1>2, <2>2, PartnerAssumption DEF Publish, TypeInv, TypeOK
    <2>4. QED
      BY <2>2, <2>3
  <1>3. QED
    BY <1>1, <1>2 DEF Next, vars, StartAdd, Insert, Remove, WorkerStep, Bootstrap, List,
       NextPartner, Resolve, FetchRaw, UpdateDIDDocument, Age, WorkerFails, ServerRestart, KillCommand

LEMMA CurrentGenuine ==
    ASSUME TypeInv, NEW did \in Dids
    PROVE  Current(did) \in Documents /\ Genuine(Current(did), did)
  BY CurrentFacts, PartnerAssumption DEF Current, Genuine, TypeInv, TypeOK

\* How the worker comes to have a key in hand.
LEMMA ResolvingStep ==
    ASSUME TypeInv, [Next]_vars, Resolving'
    PROVE  \/ /\ Resolving /\ worker'.id = worker.id /\ worker'.did = worker.did
              /\ worker'.key = worker.key
           \/ /\ Resolve /\ worker'.id = worker.id /\ worker'.did = worker.did
              /\ worker'.key = Current(worker.did)
  <1>1. CASE UNCHANGED worker
    BY <1>1 DEF Resolving
  <1>2. CASE Resolve \/ FetchRaw
    BY <1>2 DEF Resolve, FetchRaw, Resolving, TypeInv, TypeOK, Workers
  <1>3. CASE WorkerFails
    BY <1>3 DEF WorkerFails, Resolving, TypeInv, TypeOK, Workers, Resting
  <1>4. CASE Bootstrap \/ ServerRestart \/ List \/ UpdateDIDDocument
    BY <1>4, ListFacts DEF Bootstrap, ServerRestart, List, UpdateDIDDocument, Resolving, Resting
  <1>5. CASE NextPartner
    <2>1. CASE worker' = Resting("idle")
      BY <2>1 DEF Resolving, Resting
    <2>2. CASE worker' # Resting("idle")
      BY <1>5, <2>2, NextFacts DEF Resolving
    <2>3. QED
      BY <2>1, <2>2
  <1>6. QED
    BY <1>1, <1>2, <1>3, <1>4, <1>5 DEF Next, vars, Publish, StartAdd, Insert, Remove,
       WorkerStep, Age, KillCommand

\* A partner the worker has in hand has the DID the worker believes it to have.
LEMMA HandFacts ==
    ASSUME TypeInv, DidInv, InHand, worker.id \notin Reusable
    PROVE  /\ worker.id \in Ids /\ worker.did \in Dids
           /\ Present(worker.id) => partners[worker.id].did = worker.did
           /\ \A command \in Commands : ~ Inserts(command, worker.id)
  <1>1. worker.id \in Ids /\ worker.did \in Dids
    BY DEF InHand, TypeInv, WorkerOK
  <1>2. Holds(worker.id, worker.did)
    BY DEF Holds
  <1>3. OneDid(worker.id)
    BY <1>1 DEF DidInv
  <1>4. QED
    BY <1>1, <1>2, <1>3 DEF OneDid

LEMMA KeyStep == TypeInv /\ DidInv /\ KeyInv /\ [Next]_vars => KeyInv'
  <1> SUFFICES ASSUME TypeInv, DidInv, KeyInv, [Next]_vars PROVE KeyInv'
    OBVIOUS
  <1>1. ASSUME Resolving'
        PROVE  worker'.key \in Documents /\ Genuine(worker.key, worker.did)'
    <2>1. CASE /\ Resolving /\ worker'.id = worker.id /\ worker'.did = worker.did
               /\ worker'.key = worker.key
      <3>1. Genuine(worker.key, worker.did)
        BY <2>1 DEF KeyInv
      <3>2. worker.key \in Documents => worker.key.did = worker.did
                                         /\ worker.key.version <= published'[worker.did]
        BY <3>1, GenuineStays DEF Genuine
      <3>3. QED
        BY <2>1, <3>2 DEF KeyInv, Genuine
    <2>2. CASE /\ Resolve /\ worker'.did = worker.did /\ worker'.key = Current(worker.did)
      <3>1. worker.did \in Dids
        BY <2>2 DEF Resolve, TypeInv, WorkerOK
      <3>2. published' = published
        BY <2>2 DEF Resolve
      <3>3. QED
        BY <2>2, <3>1, <3>2, CurrentGenuine DEF Genuine
    <2>3. QED
      BY <1>1, <2>1, <2>2, ResolvingStep
  <1>2. ASSUME NEW command \in Commands, ops'[command].pc = "insert"
        PROVE  Genuine(ops[command].row.key, ops[command].row.did)'
    <2>1. CASE ops'[command] = ops[command]
      <3>1. Genuine(ops[command].row.key, ops[command].row.did)
        BY <1>2, <2>1 DEF KeyInv
      <3>2. ops[command].row.key \in Documents =>
               /\ ops[command].row.key.did = ops[command].row.did
               /\ ops[command].row.key.version <= published'[ops[command].row.did]
        BY <3>1, GenuineStays DEF Genuine
      <3>3. QED
        BY <2>1, <3>2 DEF Genuine
    <2>2. CASE Fresh(command, ops'[command].id)
      <3> DEFINE row == ops'[command].row
      <3>1. published' = published
        BY <2>2 DEF Fresh
      <3>2. row.key \notin Documents \/ (row.did \in Dids /\ row.key = Current(row.did))
        BY <2>2 DEF Fresh
      <3>3. QED
        BY <3>1, <3>2, CurrentGenuine DEF Genuine
    <2>3. QED
      BY <1>2, <2>1, <2>2, CommandStep
  <1>3. ASSUME NEW id \in Ids \ Reusable, partners'[id] # Absent
        PROVE  Genuine(partners[id].key, partners[id].did)'
    <2>1. CASE Kept(id)
      <3>1. Genuine(partners[id].key, partners[id].did)
        BY <2>1 DEF Kept, KeyInv
      <3>2. partners[id].key \in Documents =>
               /\ partners[id].key.did = partners[id].did
               /\ partners[id].key.version <= published'[partners[id].did]
        BY <3>1, GenuineStays DEF Genuine
      <3>3. QED
        BY <2>1, <3>2 DEF Kept, Genuine
    <2>2. CASE Refreshed(id)
      <3>1. Resolving /\ InHand /\ worker.id = id /\ published' = published
        BY <2>2 DEF Refreshed, UpdateDIDDocument, Resolving, InHand
      <3>2. partners[id].did = worker.did /\ Genuine(worker.key, worker.did)
        BY <2>2, <3>1, HandFacts DEF Refreshed, KeyInv
      <3>3. QED
        BY <2>2, <3>1, <3>2 DEF Refreshed, Genuine
    <2>3. ASSUME NEW command \in Commands, Added(id, command)
          PROVE  Genuine(partners[id].key, partners[id].did)'
      BY <2>3 DEF Added, Inserts, Insert, KeyInv, Genuine
    <2>4. CASE Enrolled(id)
      BY <2>4 DEF Enrolled, Genuine
    <2>5. QED
      BY <1>3, <2>1, <2>2, <2>3, <2>4, TableStep
  <1>4. ASSUME Resolving', worker'.id \notin Reusable, partners'[worker'.id] # Absent,
               partners'[worker'.id].key \in Documents
        PROVE  partners'[worker'.id].key.version <= worker'.key.version
    <2> DEFINE id == worker.id
    <2>1. worker'.id = id /\ InHand
      BY <1>4, ResolvingStep DEF Resolving, InHand, Resolve
    <2>2. id \in Ids /\ id \notin Reusable
      BY <1>4, <2>1, HandFacts
    <2>3. Kept(id)
      <3>1. ~ Refreshed(id)
        BY <1>4 DEF Refreshed, UpdateDIDDocument, Resolving, Resting
      <3>2. \A command \in Commands : ~ Added(id, command)
        BY <2>1, <2>2, HandFacts DEF Added
      <3>3. ~ Enrolled(id)
        BY <2>1 DEF Enrolled, Bootstrap, InHand
      <3>4. QED
        BY <1>4, <2>1, <2>2, <3>1, <3>2, <3>3, TableStep
    <2>4. Present(id) /\ partners[id].key \in Documents /\ partners'[id].key = partners[id].key
      BY <1>4, <2>1, <2>3 DEF Kept
    <2>5. CASE Resolving /\ worker'.key = worker.key
      BY <2>1, <2>2, <2>4, <2>5 DEF KeyInv
    <2>6. CASE worker'.key = Current(worker.did)
      <3>1. partners[id].did = worker.did
        BY <2>1, <2>2, <2>4, HandFacts
      <3>2. Genuine(partners[id].key, worker.did)
        BY <2>2, <2>4, <3>1 DEF KeyInv
      <3>3. QED
        BY <2>1, <2>4, <2>6, <3>2 DEF Genuine, Current
    <2>7. QED
      BY <1>4, <2>5, <2>6, ResolvingStep
  <1>5. QED
    BY <1>1, <1>2, <1>3, <1>4 DEF KeyInv, Present

LEMMA AlwaysGenuine == Spec => []KeyInv
  BY KeyInit, KeyStep, AlwaysTyped, AlwaysOneDid, PTL DEF Spec

\* The key of a partner, if it came from a document, came from that of its own DID.
THEOREM KeysAreOwn == Spec => []KeyOfOwnDid
  <1>1. KeyInv => KeyOfOwnDid
    BY DEF KeyInv, KeyOfOwnDid, Genuine
  <1>2. QED
    BY <1>1, AlwaysGenuine, PTL

\* A key is never replaced by an older one, nor by none.
THEOREM KeysNeverReturn == Spec => NoKeyReturns
  <1>1. ASSUME TypeInv, DidInv, KeyInv, [Next]_vars
        PROVE  \A id \in Ids \ Reusable :
                 (Present(id) /\ Present(id)' /\ partners[id].key \in Documents)
                   => /\ partners'[id].key \in Documents
                      /\ partners'[id].key.version >= partners[id].key.version
    <2>1. SUFFICES ASSUME NEW id \in Ids \ Reusable, Present(id), partners'[id] # Absent,
                          partners[id].key \in Documents
                   PROVE  /\ partners'[id].key \in Documents
                          /\ partners'[id].key.version >= partners[id].key.version
      BY DEF Present
    <2>2. partners[id].key.version \in Nat
      BY <2>1, PartnerAssumption DEF Documents
    <2>3. CASE Kept(id)
      BY <2>1, <2>2, <2>3 DEF Kept
    <2>4. CASE Refreshed(id)
      <3>1. Resolving /\ worker.id = id
        BY <2>4 DEF Refreshed, UpdateDIDDocument, Resolving
      <3>2. worker.key \in Documents /\ partners[id].key.version <= worker.key.version
        BY <1>1, <2>1, <3>1 DEF KeyInv
      <3>3. worker.key.version \in Nat
        BY <3>2, PartnerAssumption DEF Documents
      <3>4. QED
        BY <2>2, <2>4, <3>2, <3>3 DEF Refreshed
    <2>5. QED
      BY <1>1, <2>1, <2>3, <2>4, TableStep DEF Added, Enrolled
  <1>2. QED
    BY <1>1, AlwaysTyped, AlwaysOneDid, AlwaysGenuine, PTL DEF Spec, NoKeyReturns
===============================================================================
