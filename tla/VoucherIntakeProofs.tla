-------------------------- MODULE VoucherIntakeProofs --------------------------
(***************************************************************************)
(* Proofs about VoucherIntake.                                             *)
(***************************************************************************)
EXTENDS UndisturbedIntake, TLAPS

\* An upload that is past the rename, and one that has not created an inode yet.
Past(upload) ==
    upload \in accepted \/ ops[upload].pc \in {"audit", "reply", "owner", "create"}

Fresh(upload) == ops[upload].pc \in {"new", "stat", "open"}

Careful(upload) == Guid(upload) \in OneAtATime

\* An inode belongs to one GUID, so that writing one voucher never touches
\* another: this holds even when uploads overlap.
OwnInodes ==
    /\ \A guid \in Guids : /\ temp[guid] # NoInode => Guid(temp[guid]) = guid
                           /\ file[guid] # NoInode => Guid(file[guid]) = guid
    /\ \A upload \in Uploads :
          /\ ops[upload].inode # NoInode => Guid(ops[upload].inode) = Guid(upload)
          /\ ops[upload].pc = "write" => ops[upload].inode # NoInode

\* What is written through the temporary path is never the file in the directory.
SeparateInodes ==
    /\ \A guid \in Guids : temp[guid] # NoInode => file[guid] # temp[guid]
    /\ \A upload \in Uploads : Fresh(upload) =>
          \A guid \in Guids : temp[guid] # upload /\ file[guid] # upload

\* A voucher that was put into the directory is there until it is deleted.
StoredPlaced ==
    /\ gone \subseteq stored
    /\ \A upload \in Uploads :
          /\ Past(upload) => upload \in stored
          /\ Fresh(upload) \/ ops[upload].pc \in {"write", "rename"} => upload \notin stored
          /\ upload \in stored \ gone => file[Guid(upload)] # NoInode

\* Without overlap there is one upload at work ...
Alone ==
    \A upload, other \in Uploads :
       /\ Careful(upload) /\ Guid(other) = Guid(upload)
       /\ ops[upload].pc \in HandlerSteps /\ ops[other].pc \in HandlerSteps
       => other = upload

\* ... it only writes while there is no file, unless its check failed ...
NotYetStored ==
    \A upload \in Uploads \ overlooked :
       Careful(upload) /\ ops[upload].pc \in {"open", "write", "rename"} =>
          file[Guid(upload)] = NoInode

\* ... over an empty file, and what it renames is what it has written.
OwnTemp ==
    \A upload \in Uploads : Careful(upload) =>
       /\ ops[upload].pc \in {"write", "rename"} => ops[upload].inode = temp[Guid(upload)]
       /\ ops[upload].pc = "write" => content[ops[upload].inode] = Partial
       /\ ops[upload].pc = "rename" => /\ temp[Guid(upload)] # NoInode
                                       /\ content[temp[Guid(upload)]] = ops[upload].key

\* Of the uploads whose check did not fail, one is in the directory at a time ...
OneStored ==
    \A upload, other \in (stored \ gone) \ overlooked :
       Careful(upload) /\ Guid(other) = Guid(upload) => other = upload

\* ... and the voucher there is that of an upload, if none has replaced it.
Unreplaced(upload) ==
    \A other \in (stored \ gone) \cap overlooked : Guid(other) = Guid(upload) => other = upload

KeyOfStored ==
    \A upload \in stored \ gone :
       Careful(upload) /\ Unreplaced(upload) => content[file[Guid(upload)]] = ops[upload].key

\* A row is that of an accepted upload.
RowsOfAccepted ==
    /\ \A upload \in Uploads :
          /\ ops[upload].pc \in PipelineSteps => upload \in accepted
          /\ Recordable(ops[upload].owner, ops[upload].key)
    /\ \A row \in rows :
          /\ row.guid = Guid(row.upload)
          /\ row.upload \in accepted
          /\ Recordable(row.owner, ops[row.upload].key)

IntakeInv ==
    /\ TypeOK
    /\ OwnInodes
    /\ SeparateInodes
    /\ StoredPlaced
    /\ Alone
    /\ NotYetStored
    /\ OwnTemp
    /\ StoredWhole
    /\ OneStored
    /\ KeyOfStored
    /\ RowsOfAccepted

-------------------------------------------------------------------------------
LEMMA InitIntakeInv == Init => IntakeInv
  <1> SUFFICES ASSUME Init PROVE IntakeInv
    OBVIOUS
  <1>1. PICK guid \in [Uploads -> Guids], key \in [Uploads -> OwnerKeys] :
           ops = [upload \in Uploads |->
                    [pc |-> "new", guid |-> guid[upload], key |-> key[upload],
                     owner |-> key[upload], inode |-> NoInode]]
    BY DEF Init
  <1>2. ops \in [Uploads -> Ops]
    BY <1>1 DEF Ops, Inodes
  <1>3. \A upload \in Uploads : /\ ops[upload].pc = "new" /\ ops[upload].inode = NoInode
                                /\ ops[upload].owner = ops[upload].key
    BY <1>1
  <1>4. TypeOK
    BY <1>2 DEF Init, TypeOK, Inodes
  <1>5. OwnInodes /\ SeparateInodes /\ StoredPlaced /\ Alone /\ NotYetStored /\ OwnTemp
    BY <1>3, IntakeAssumption
       DEF Init, OwnInodes, SeparateInodes, StoredPlaced, Alone, NotYetStored, OwnTemp, Past,
           HandlerSteps
  <1>6. OneStored /\ KeyOfStored
    BY DEF Init, OneStored, KeyOfStored
  <1>7. StoredWhole /\ RowsOfAccepted
    BY <1>3, IntakeAssumption DEF Init, StoredWhole, Whole, RowsOfAccepted, Recordable, PipelineSteps
  <1>8. QED
    BY <1>4, <1>5, <1>6, <1>7 DEF IntakeInv

\* What all steps of one upload have in common.
Moves(upload) ==
    /\ ops' \in [Uploads -> Ops]
    /\ \A other \in Uploads \ {upload} : ops'[other] = ops[other]
    /\ ops'[upload].guid = ops[upload].guid
    /\ ops'[upload].key = ops[upload].key

LEMMA GotoMoves ==
    ASSUME TypeOK, NEW upload \in Uploads,
           NEW step \in {"new", "done"} \cup HandlerSteps \cup PipelineSteps,
           Goto(upload, step)
    PROVE  /\ Moves(upload)
           /\ ops'[upload].pc = step
           /\ ops'[upload].inode = ops[upload].inode
           /\ ops'[upload].owner = ops[upload].owner
  <1>1. ops[upload] \in Ops
    BY DEF TypeOK
  <1>2. ops' = [ops EXCEPT ![upload] = [ops[upload] EXCEPT !.pc = step]]
    BY DEF Goto
  <1>3. [ops[upload] EXCEPT !.pc = step] \in Ops
    BY <1>1 DEF Ops
  <1>4. QED
    BY <1>1, <1>2, <1>3 DEF Moves, TypeOK, Ops

\* The parts of the invariant in a step of one upload: what has to be shown of
\* that upload, and of the disk.
LEMMA TypeStep ==
    ASSUME IntakeInv, NEW upload \in Uploads, Moves(upload),
           temp' \in [Guids -> Inodes], file' \in [Guids -> Inodes],
           content' \in [Uploads -> OwnerKeys \cup {Partial}],
           rows' \subseteq Rows, audited' \subseteq Uploads, accepted' \subseteq Uploads,
           stored' \subseteq Uploads, gone' \subseteq Uploads, overlooked' \subseteq Uploads
    PROVE  TypeOK'
  BY DEF TypeOK, Moves

LEMMA GuidsStay ==
    ASSUME IntakeInv, NEW upload \in Uploads, Moves(upload), NEW other \in Uploads
    PROVE  /\ ops'[other].guid = Guid(other)
           /\ ops'[other].key = ops[other].key
           /\ Guid(other) \in Guids
           /\ ops[other] \in Ops /\ ops'[other] \in Ops
           /\ other # upload => ops'[other] = ops[other]
  BY DEF IntakeInv, TypeOK, Ops, Moves, Guid

LEMMA OwnInodesStep ==
    ASSUME IntakeInv, NEW upload \in Uploads, Moves(upload),
           \A guid \in Guids : \/ temp'[guid] \in {temp[guid], NoInode}
                               \/ guid = Guid(upload) /\ temp'[guid] = upload,
           \A guid \in Guids : file'[guid] \in {file[guid], temp[guid]},
           \/ ops'[upload].inode = ops[upload].inode /\ ops'[upload].pc # "write"
           \/ ops'[upload].inode \in {upload, temp[Guid(upload)]} \ {NoInode}
    PROVE  OwnInodes'
  <1>1. ASSUME NEW inode \in Inodes, NEW guid \in Guids,
               inode # NoInode => Guid(inode) = guid
        PROVE  inode # NoInode => ops'[inode].guid = guid
    BY <1>1, GuidsStay DEF Inodes
  <1>2. ASSUME NEW guid \in Guids
        PROVE  /\ temp'[guid] # NoInode => ops'[temp'[guid]].guid = guid
               /\ file'[guid] # NoInode => ops'[file'[guid]].guid = guid
    <2>1. temp[guid] \in Inodes /\ file[guid] \in Inodes /\ upload \in Inodes
      BY DEF IntakeInv, TypeOK, Inodes
    <2>2. temp'[guid] \in Inodes /\ (temp'[guid] # NoInode => Guid(temp'[guid]) = guid)
      BY <2>1 DEF IntakeInv, OwnInodes, Inodes
    <2>3. file'[guid] \in Inodes /\ (file'[guid] # NoInode => Guid(file'[guid]) = guid)
      BY <2>1 DEF IntakeInv, OwnInodes
    <2>4. QED
      BY <1>1, <2>2, <2>3
  <1>3. ASSUME NEW other \in Uploads
        PROVE  /\ ops'[other].inode # NoInode => ops'[ops'[other].inode].guid = ops'[other].guid
               /\ ops'[other].pc = "write" => ops'[other].inode # NoInode
    <2>1. /\ ops'[other].inode \in Inodes /\ Guid(other) \in Guids
          /\ ops'[other].guid = Guid(other)
      BY GuidsStay DEF Ops
    <2>2. /\ ops'[other].inode # NoInode => Guid(ops'[other].inode) = Guid(other)
          /\ ops'[other].pc = "write" => ops'[other].inode # NoInode
      <3>1. CASE other = upload
        BY <2>1, <3>1 DEF IntakeInv, OwnInodes
      <3>2. CASE other # upload
        BY <2>1, <3>2, GuidsStay DEF IntakeInv, OwnInodes
      <3>3. QED
        BY <3>1, <3>2
    <2>3. QED
      BY <1>1, <2>1, <2>2
  <1>4. QED
    BY <1>2, <1>3 DEF OwnInodes, Guid

\* The temporary path gets another inode only when it is created.
LEMMA SeparateStep ==
    ASSUME IntakeInv, NEW upload \in Uploads, Moves(upload),
           Fresh(upload)' => Fresh(upload),
           \A guid \in Guids :
              \/ temp'[guid] = temp[guid] /\ file'[guid] = file[guid]
              \/ temp'[guid] = NoInode /\ file'[guid] \in {file[guid], temp[guid]}
              \/ /\ temp'[guid] = upload /\ file'[guid] = file[guid]
                 /\ Fresh(upload) /\ ~ Fresh(upload)'
    PROVE  SeparateInodes'
  <1>1. ASSUME NEW guid \in Guids, temp'[guid] # NoInode PROVE file'[guid] # temp'[guid]
    BY <1>1 DEF IntakeInv, SeparateInodes
  <1>2. ASSUME NEW other \in Uploads, Fresh(other)', NEW guid \in Guids
        PROVE  temp'[guid] # other /\ file'[guid] # other
    <2>1. Fresh(other) /\ (other = upload => Fresh(upload)')
      BY <1>2, GuidsStay DEF Fresh
    <2>2. temp[guid] # other /\ file[guid] # other /\ other # NoInode
      BY <2>1, IntakeAssumption DEF IntakeInv, SeparateInodes
    <2>3. QED
      BY <2>1, <2>2
  <1>3. QED
    BY <1>1, <1>2 DEF SeparateInodes

LEMMA PlacedStep ==
    ASSUME IntakeInv, NEW upload \in Uploads, Moves(upload),
           UNCHANGED <<file, stored, gone>>,
           accepted' \subseteq accepted \cup {upload},
           Past(upload)' => Past(upload),
           Fresh(upload)' \/ ops'[upload].pc \in {"write", "rename"} =>
              Fresh(upload) \/ ops[upload].pc \in {"write", "rename"}
    PROVE  StoredPlaced'
  <1> SUFFICES ASSUME NEW other \in Uploads
               PROVE  /\ Past(other)' => other \in stored
                      /\ Fresh(other)' \/ ops'[other].pc \in {"write", "rename"} =>
                            other \notin stored
                      /\ other \in stored \ gone => file'[ops'[other].guid] # NoInode
    BY DEF IntakeInv, StoredPlaced, Guid
  <1>1. Past(other)' => Past(other)
    <2>1. CASE other = upload
      BY <2>1
    <2>2. CASE other # upload
      BY <2>2, GuidsStay DEF Past
    <2>3. QED
      BY <2>1, <2>2
  <1>2. Fresh(other)' \/ ops'[other].pc \in {"write", "rename"} =>
           Fresh(other) \/ ops[other].pc \in {"write", "rename"}
    <2>1. CASE other = upload
      BY <2>1
    <2>2. CASE other # upload
      BY <2>2, GuidsStay DEF Fresh
    <2>3. QED
      BY <2>1, <2>2
  <1>3. ops'[other].guid = Guid(other)
    BY GuidsStay
  <1>4. QED
    BY <1>1, <1>2, <1>3 DEF IntakeInv, StoredPlaced

LEMMA AloneStep ==
    ASSUME IntakeInv, NEW upload \in Uploads, Moves(upload),
           \/ ops'[upload].pc \notin HandlerSteps
           \/ ops[upload].pc \in HandlerSteps
           \/ Careful(upload) => \A other \in Uploads : Guid(other) = Guid(upload) =>
                                    ops[other].pc \notin HandlerSteps
    PROVE  Alone'
  <1> SUFFICES ASSUME NEW one \in Uploads, NEW other \in Uploads,
                      ops'[one].guid \in OneAtATime, ops'[other].guid = ops'[one].guid,
                      ops'[one].pc \in HandlerSteps, ops'[other].pc \in HandlerSteps,
                      one # other
               PROVE  FALSE
    BY DEF Alone, Careful, Guid
  <1>1. /\ Guid(one) \in OneAtATime /\ Guid(one) = Guid(other)
        /\ ops'[one].guid = Guid(one) /\ ops'[other].guid = Guid(other)
    BY GuidsStay
  <1>2. /\ one # upload => ops[one].pc \in HandlerSteps
        /\ other # upload => ops[other].pc \in HandlerSteps
    BY GuidsStay
  <1>3. ~ (ops[one].pc \in HandlerSteps /\ ops[other].pc \in HandlerSteps)
    BY <1>1 DEF IntakeInv, Alone, Careful
  <1>4. QED
    BY <1>1, <1>2, <1>3 DEF Careful

\* The directory gets a file only in Rename.
LEMMA NotYetStep ==
    ASSUME IntakeInv, NEW upload \in Uploads, Moves(upload),
           file' = file, overlooked \subseteq overlooked',
           Careful(upload) /\ ops'[upload].pc \in {"open", "write", "rename"} =>
              upload \in overlooked' \/ file[Guid(upload)] = NoInode
    PROVE  NotYetStored'
  <1> SUFFICES ASSUME NEW other \in Uploads, other \notin overlooked',
                      ops'[other].guid \in OneAtATime,
                      ops'[other].pc \in {"open", "write", "rename"}
               PROVE  file'[ops'[other].guid] = NoInode
    BY DEF NotYetStored, Careful, Guid
  <1>1. CASE other = upload
    BY <1>1, GuidsStay DEF Careful
  <1>2. CASE other # upload
    <2>1. other \in Uploads \ overlooked /\ ops'[other] = ops[other] /\ Careful(other)
      BY <1>2, GuidsStay DEF Careful
    <2>2. QED
      BY <2>1 DEF IntakeInv, NotYetStored, Guid
  <1>3. QED
    BY <1>1, <1>2

\* A step of an upload changes the temporary file and its inode of no voucher
\* but its own; and of its own there is no other upload at work.
LEMMA OwnTempStep ==
    ASSUME IntakeInv, NEW upload \in Uploads, Moves(upload), Alone',
           \A guid \in Guids \ {Guid(upload)} : temp'[guid] = temp[guid],
           \A inode \in Uploads : Guid(inode) # Guid(upload) => content'[inode] = content[inode],
           Careful(upload) /\ ops'[upload].pc \notin HandlerSteps =>
              ops[upload].pc \in HandlerSteps \/ UNCHANGED <<temp, content>>,
           Careful(upload) =>
              /\ ops'[upload].pc \in {"write", "rename"} =>
                    ops'[upload].inode = temp'[Guid(upload)]
              /\ ops'[upload].pc = "write" => content'[ops'[upload].inode] = Partial
              /\ ops'[upload].pc = "rename" =>
                    /\ temp'[Guid(upload)] # NoInode
                    /\ content'[temp'[Guid(upload)]] = ops[upload].key
    PROVE  OwnTemp'
  <1> SUFFICES ASSUME NEW other \in Uploads, ops'[other].guid \in OneAtATime
               PROVE  /\ ops'[other].pc \in {"write", "rename"} =>
                            ops'[other].inode = temp'[ops'[other].guid]
                      /\ ops'[other].pc = "write" => content'[ops'[other].inode] = Partial
                      /\ ops'[other].pc = "rename" =>
                            /\ temp'[ops'[other].guid] # NoInode
                            /\ content'[temp'[ops'[other].guid]] = ops'[other].key
    BY DEF OwnTemp, Careful, Guid
  <1>1. CASE other = upload
    BY <1>1, GuidsStay DEF Careful
  <1>2. CASE other # upload /\ Guid(other) # Guid(upload)
    <2>1. temp'[Guid(other)] = temp[Guid(other)] /\ temp[Guid(other)] \in Inodes
      BY <1>2, GuidsStay DEF IntakeInv, TypeOK
    <2>2. temp[Guid(other)] # NoInode =>
             content'[temp[Guid(other)]] = content[temp[Guid(other)]]
      BY <1>2, <2>1, GuidsStay DEF IntakeInv, OwnInodes, Inodes
    <2>3. ops[other].pc = "write" => content'[ops[other].inode] = content[ops[other].inode]
      BY <1>2, GuidsStay DEF IntakeInv, OwnInodes, Ops, Inodes
    <2>4. QED
      BY <1>2, <2>1, <2>2, <2>3, GuidsStay DEF IntakeInv, OwnTemp, Careful
  <1>3. CASE other # upload /\ Guid(other) = Guid(upload)
    <2>1. SUFFICES ASSUME ops'[other].pc \in {"write", "rename"}
                   PROVE  /\ ops'[other].inode = temp'[ops'[other].guid]
                          /\ ops'[other].pc = "write" => content'[ops'[other].inode] = Partial
                          /\ ops'[other].pc = "rename" =>
                                /\ temp'[ops'[other].guid] # NoInode
                                /\ content'[temp'[ops'[other].guid]] = ops'[other].key
      OBVIOUS
    <2>2. ops[other].pc \in {"write", "rename"} /\ ops'[other] = ops[other]
      BY <1>3, <2>1, GuidsStay
    <2>3. ops'[upload].pc \notin HandlerSteps
      BY <1>3, <2>1, GuidsStay DEF Alone, Careful, Guid, HandlerSteps
    <2>4. ops[upload].pc \notin HandlerSteps
      BY <1>3, <2>2, GuidsStay DEF IntakeInv, Alone, Careful, HandlerSteps
    <2>5. UNCHANGED <<temp, content>>
      BY <1>3, <2>3, <2>4, GuidsStay DEF Careful
    <2>6. QED
      BY <1>3, <2>2, <2>5, GuidsStay DEF IntakeInv, OwnTemp, Careful
  <1>4. QED
    BY <1>1, <1>2, <1>3

\* Only inodes of the upload's own GUID are written, and not the one that is in
\* the directory.
LEMMA StoredStep ==
    ASSUME IntakeInv, NEW upload \in Uploads, Moves(upload),
           UNCHANGED <<file, stored, gone>>, overlooked \subseteq overlooked',
           \A inode \in Uploads : Guid(inode) # Guid(upload) => content'[inode] = content[inode],
           Careful(upload) /\ file[Guid(upload)] # NoInode =>
              content'[file[Guid(upload)]] = content[file[Guid(upload)]]
    PROVE  StoredWhole' /\ OneStored' /\ KeyOfStored'
  <1>1. ASSUME NEW guid \in OneAtATime, file[guid] # NoInode
        PROVE  content'[file[guid]] = content[file[guid]]
    <2>1. guid \in Guids /\ file[guid] \in Uploads /\ Guid(file[guid]) = guid
      BY <1>1, IntakeAssumption DEF IntakeInv, TypeOK, OwnInodes, Inodes
    <2>2. QED
      BY <1>1, <2>1 DEF Careful
  <1>2. StoredWhole'
    BY <1>1 DEF IntakeInv, StoredWhole, Whole
  <1>3. stored \subseteq Uploads
    BY DEF IntakeInv, TypeOK
  <1>4. OneStored'
    <2> SUFFICES ASSUME NEW one \in (stored \ gone) \ overlooked',
                        NEW other \in (stored \ gone) \ overlooked',
                        ops'[one].guid \in OneAtATime, ops'[other].guid = ops'[one].guid
                 PROVE  other = one
      BY DEF OneStored, Careful, Guid
    <2>1. Careful(one) /\ Guid(other) = Guid(one)
      BY <1>3, GuidsStay DEF Careful
    <2>2. QED
      BY <2>1 DEF IntakeInv, OneStored
  <1>5. KeyOfStored'
    <2> SUFFICES ASSUME NEW one \in stored \ gone, ops'[one].guid \in OneAtATime, Unreplaced(one)'
                 PROVE  content'[file'[ops'[one].guid]] = ops'[one].key
      BY DEF KeyOfStored, Careful, Guid
    <2>1. Careful(one) /\ one \in Uploads
      BY <1>3, GuidsStay DEF Careful
    <2>2. Unreplaced(one)
      <3> SUFFICES ASSUME NEW other \in (stored \ gone) \cap overlooked, Guid(other) = Guid(one)
                   PROVE  other = one
        BY DEF Unreplaced
      <3>1. ops'[other].guid = ops'[one].guid
        BY <1>3, <2>1, GuidsStay
      <3>2. QED
        BY <3>1 DEF Unreplaced, Guid
    <2>3. file[Guid(one)] # NoInode
      BY <2>1 DEF IntakeInv, StoredPlaced
    <2>4. content'[file[Guid(one)]] = content[file[Guid(one)]]
      BY <1>1, <2>1, <2>3 DEF Careful
    <2>5. QED
      BY <2>1, <2>2, <2>4, GuidsStay DEF IntakeInv, KeyOfStored
  <1>6. QED
    BY <1>2, <1>4, <1>5

LEMMA RowsStep ==
    ASSUME IntakeInv, NEW upload \in Uploads, Moves(upload),
           rows' = rows, accepted \subseteq accepted',
           ops'[upload].pc \in PipelineSteps => upload \in accepted',
           Recordable(ops'[upload].owner, ops'[upload].key)
    PROVE  RowsOfAccepted'
  <1>1. ASSUME NEW other \in Uploads
        PROVE  /\ ops'[other].pc \in PipelineSteps => other \in accepted'
               /\ Recordable(ops'[other].owner, ops'[other].key)
    BY GuidsStay DEF IntakeInv, RowsOfAccepted
  <1>2. ASSUME NEW row \in rows
        PROVE  /\ row.guid = ops'[row.upload].guid
               /\ row.upload \in accepted'
               /\ Recordable(row.owner, ops'[row.upload].key)
    <2>1. row.upload \in Uploads
      BY DEF IntakeInv, TypeOK, Rows
    <2>2. QED
      BY <2>1, GuidsStay DEF IntakeInv, RowsOfAccepted
  <1>3. QED
    BY <1>1, <1>2 DEF RowsOfAccepted, Guid

\* A step that changes neither the disk nor the database.
LEMMA QuietStep ==
    ASSUME IntakeInv, NEW upload \in Uploads, Moves(upload),
           UNCHANGED <<temp, file, content, rows>>,
           audited' \subseteq Uploads,
           accepted' = accepted \/ accepted' = accepted \cup {upload},
           ops'[upload].inode = ops[upload].inode,
           UNCHANGED <<stored, gone>>,
           overlooked \subseteq overlooked', overlooked' \subseteq Uploads,
           ops'[upload].pc \notin {"write", "rename"},
           Fresh(upload)' => Fresh(upload),
           \/ ops'[upload].pc \notin HandlerSteps
           \/ ops[upload].pc \in HandlerSteps
           \/ Careful(upload) => \A other \in Uploads : Guid(other) = Guid(upload) =>
                                    ops[other].pc \notin HandlerSteps,
           ops'[upload].pc = "open" => upload \in overlooked' \/ file[Guid(upload)] = NoInode,
           Past(upload)' => Past(upload),
           ops'[upload].pc \in PipelineSteps => upload \in accepted',
           Recordable(ops'[upload].owner, ops'[upload].key)
    PROVE  IntakeInv'
  <1>1. TypeOK'
    BY TypeStep DEF IntakeInv, TypeOK
  <1>2. OwnInodes'
    BY OwnInodesStep DEF IntakeInv
  <1>3. SeparateInodes'
    BY SeparateStep
  <1>4. StoredPlaced'
    BY PlacedStep
  <1>5. Alone'
    BY AloneStep
  <1>6. NotYetStored'
    BY NotYetStep
  <1>7. OwnTemp'
    BY <1>5, OwnTempStep
  <1>8. StoredWhole' /\ OneStored' /\ KeyOfStored'
    BY StoredStep
  <1>9. RowsOfAccepted'
    BY RowsStep
  <1>10. QED
    BY <1>1, <1>2, <1>3, <1>4, <1>5, <1>6, <1>7, <1>8, <1>9 DEF IntakeInv

-------------------------------------------------------------------------------
(***************************************************************************)
(* The steps of the handler.                                               *)
(***************************************************************************)
LEMMA ReceiveInv == ASSUME IntakeInv, NEW upload \in Uploads, Receive(upload) PROVE IntakeInv'
  <1>1. Goto(upload, "stat")
    BY DEF Receive
  <1>2. /\ Moves(upload) /\ ops'[upload].pc = "stat"
        /\ ops'[upload].inode = ops[upload].inode /\ ops'[upload].owner = ops[upload].owner
    BY <1>1, GotoMoves DEF IntakeInv, HandlerSteps
  <1>3. Careful(upload) => \A other \in Uploads : Guid(other) = Guid(upload) =>
                              ops[other].pc \notin HandlerSteps
    BY DEF Receive, Careful
  <1>4. Past(upload)' => Past(upload)
    BY <1>2 DEF Receive, Past
  <1>5. Recordable(ops'[upload].owner, ops'[upload].key)
    BY <1>2 DEF Moves, IntakeInv, RowsOfAccepted
  <1>6. Fresh(upload)
    BY DEF Receive, At, Fresh
  <1>7. QED
    BY <1>2, <1>3, <1>4, <1>5, <1>6, QuietStep
       DEF Receive, history, PipelineSteps, IntakeInv, TypeOK

LEMMA StatInv == ASSUME IntakeInv, NEW upload \in Uploads, Stat(upload) PROVE IntakeInv'
  <1>1. PICK step \in {"open", "done"} : /\ Goto(upload, step)
                                         /\ step = "open" => file[Guid(upload)] = NoInode
    BY DEF Stat
  <1>2. /\ Moves(upload) /\ ops'[upload].pc = step
        /\ ops'[upload].inode = ops[upload].inode /\ ops'[upload].owner = ops[upload].owner
    BY <1>1, GotoMoves DEF IntakeInv, HandlerSteps
  <1>3. ops[upload].pc \in HandlerSteps
    BY DEF Stat, At, HandlerSteps
  <1>4. Past(upload)' => Past(upload)
    BY <1>2 DEF Stat, Past
  <1>5. Recordable(ops'[upload].owner, ops'[upload].key)
    BY <1>2 DEF Moves, IntakeInv, RowsOfAccepted
  <1>6. Fresh(upload)
    BY DEF Stat, At, Fresh
  <1>7. QED
    BY <1>1, <1>2, <1>3, <1>4, <1>5, <1>6, QuietStep
       DEF Stat, history, PipelineSteps, IntakeInv, TypeOK

LEMMA AuditInv == ASSUME IntakeInv, NEW upload \in Uploads, Audit(upload) PROVE IntakeInv'
  <1>1. /\ Moves(upload) /\ ops'[upload].pc = "reply"
        /\ ops'[upload].inode = ops[upload].inode /\ ops'[upload].owner = ops[upload].owner
    BY GotoMoves DEF Audit, IntakeInv, HandlerSteps
  <1>2. ops[upload].pc \in HandlerSteps /\ Past(upload)
    BY DEF Audit, At, HandlerSteps, Past
  <1>3. Recordable(ops'[upload].owner, ops'[upload].key)
    BY <1>1 DEF Moves, IntakeInv, RowsOfAccepted
  <1>4. QED
    BY <1>1, <1>2, <1>3, QuietStep
       DEF Audit, history, Fresh, PipelineSteps, IntakeInv, TypeOK

LEMMA ReplyInv == ASSUME IntakeInv, NEW upload \in Uploads, Reply(upload) PROVE IntakeInv'
  <1>1. /\ Moves(upload) /\ ops'[upload].pc = "owner"
        /\ ops'[upload].inode = ops[upload].inode /\ ops'[upload].owner = ops[upload].owner
    BY GotoMoves DEF Reply, IntakeInv, PipelineSteps
  <1>2. Past(upload)
    BY DEF Reply, At, Past
  <1>3. Recordable(ops'[upload].owner, ops'[upload].key)
    BY <1>1 DEF Moves, IntakeInv, RowsOfAccepted
  <1>4. QED
    BY <1>1, <1>2, <1>3, QuietStep
       DEF Reply, history, Fresh, HandlerSteps, IntakeInv, TypeOK

LEMMA ResolveOwnerInv ==
    ASSUME IntakeInv, NEW upload \in Uploads, ResolveOwner(upload) PROVE IntakeInv'
  <1>1. ops[upload] \in Ops
    BY DEF IntakeInv, TypeOK
  <1>2. /\ Moves(upload) /\ ops'[upload].pc \in {"create", "done"}
        /\ ops'[upload].inode = ops[upload].inode
        /\ \/ ops'[upload].owner = ops[upload].owner
           \/ SignoverMode # "none" /\ ops'[upload].owner = NextOwner
    <2>1. CASE SignoverMode \in {"static", "dynamic"} /\ SignOver(upload)
      <3>1. ops' = [ops EXCEPT ![upload] =
                      [ops[upload] EXCEPT !.pc = "create", !.owner = NextOwner]]
        BY <2>1 DEF SignOver
      <3>2. [ops[upload] EXCEPT !.pc = "create", !.owner = NextOwner] \in Ops
        BY <1>1 DEF Ops, PipelineSteps
      <3>3. QED
        BY <1>1, <2>1, <3>1, <3>2 DEF Moves, IntakeInv, TypeOK, Ops
    <2>2. CASE Goto(upload, "create")
      BY <2>2, GotoMoves DEF IntakeInv, PipelineSteps
    <2>3. CASE Goto(upload, "done")
      BY <2>3, GotoMoves DEF IntakeInv
    <2>4. QED
      BY <2>1, <2>2, <2>3 DEF ResolveOwner, StaticOwner, DynamicOwner
  <1>3. Past(upload) /\ upload \in accepted
    BY DEF ResolveOwner, At, Past, IntakeInv, RowsOfAccepted, PipelineSteps
  <1>4. Recordable(ops'[upload].owner, ops'[upload].key)
    BY <1>2 DEF Moves, IntakeInv, RowsOfAccepted, Recordable
  <1>5. QED
    BY <1>2, <1>3, <1>4, QuietStep
       DEF ResolveOwner, history, Fresh, HandlerSteps, IntakeInv, TypeOK

LEMMA OpenTempInv ==
    ASSUME IntakeInv, NEW upload \in Uploads, OpenTemp(upload) PROVE IntakeInv'
  <1> DEFINE inode == IF temp[Guid(upload)] = NoInode THEN upload ELSE temp[Guid(upload)]
  <1>1. /\ ops[upload] \in Ops /\ Guid(upload) \in Guids /\ temp[Guid(upload)] \in Inodes
        /\ inode \in Uploads /\ Guid(inode) = Guid(upload) /\ inode # NoInode
    BY IntakeAssumption DEF IntakeInv, TypeOK, Ops, Guid, Inodes, OwnInodes
  <1>2. /\ temp' = [temp EXCEPT ![Guid(upload)] = inode]
        /\ content' = [content EXCEPT ![inode] = Partial]
        /\ ops' = [ops EXCEPT ![upload] = [ops[upload] EXCEPT !.pc = "write", !.inode = inode]]
        /\ UNCHANGED <<file, rows, audited, accepted, stored, gone, overlooked>>
    BY DEF OpenTemp, history
  <1>3. [ops[upload] EXCEPT !.pc = "write", !.inode = inode] \in Ops
    BY <1>1 DEF Ops, HandlerSteps, Inodes
  <1>4. /\ Moves(upload) /\ ops'[upload].pc = "write" /\ ops'[upload].inode = inode
        /\ ops'[upload].owner = ops[upload].owner
    BY <1>1, <1>2, <1>3 DEF Moves, IntakeInv, TypeOK, Ops
  <1>5. /\ \A guid \in Guids \ {Guid(upload)} : temp'[guid] = temp[guid]
        /\ temp'[Guid(upload)] = inode /\ content'[inode] = Partial
        /\ \A other \in Uploads : Guid(other) # Guid(upload) => content'[other] = content[other]
    BY <1>1, <1>2 DEF IntakeInv, TypeOK
  <1>6. ops[upload].pc = "open" /\ ops[upload].pc \in HandlerSteps
    BY DEF OpenTemp, At, HandlerSteps
  <1>7. TypeOK'
    <2>1. temp' \in [Guids -> Inodes] /\ content' \in [Uploads -> OwnerKeys \cup {Partial}]
      BY <1>1, <1>2 DEF IntakeInv, TypeOK, Inodes
    <2>2. QED
      BY <1>2, <1>4, <2>1, TypeStep DEF IntakeInv, TypeOK
  <1>8. OwnInodes'
    <2>1. \A guid \in Guids : \/ temp'[guid] \in {temp[guid], NoInode}
                              \/ guid = Guid(upload) /\ temp'[guid] = upload
      BY <1>5
    <2>2. inode \in {upload, temp[Guid(upload)]} \ {NoInode}
      BY <1>1
    <2>3. QED
      BY <1>2, <1>4, <2>1, <2>2, OwnInodesStep
  <1>9. SeparateInodes'
    <2>1. Fresh(upload) /\ ~ Fresh(upload)'
      BY <1>4, <1>6 DEF Fresh
    <2>2. \A guid \in Guids : temp'[guid] \in {temp[guid], upload} /\ file'[guid] = file[guid]
      BY <1>2, <1>5
    <2>3. QED
      BY <1>4, <2>1, <2>2, SeparateStep
  <1>10. StoredPlaced'
    BY <1>2, <1>4, <1>6, PlacedStep DEF Past, Fresh
  <1>11. Alone'
    BY <1>4, <1>6, AloneStep
  <1>12. NotYetStored'
    BY <1>2, <1>4, <1>6, NotYetStep DEF IntakeInv, NotYetStored
  <1>13. OwnTemp'
    BY <1>4, <1>5, <1>6, <1>11, OwnTempStep
  <1>14. StoredWhole' /\ OneStored' /\ KeyOfStored'
    <2>1. file[Guid(upload)] # inode
      BY <1>1, <1>6 DEF IntakeInv, SeparateInodes, Fresh
    <2>2. file[Guid(upload)] # NoInode =>
             content'[file[Guid(upload)]] = content[file[Guid(upload)]]
      <3> HIDE DEF inode
      <3> QED
        BY <1>1, <1>2, <2>1 DEF IntakeInv, TypeOK, Inodes
    <2>3. QED
      BY <1>2, <1>4, <1>5, <2>2, StoredStep
  <1>15. RowsOfAccepted'
    BY <1>2, <1>4, RowsStep DEF PipelineSteps, Moves, IntakeInv, RowsOfAccepted
  <1>16. QED
    BY <1>7, <1>8, <1>9, <1>10, <1>11, <1>12, <1>13, <1>14, <1>15 DEF IntakeInv

\* A write, a whole one or not, only touches the inode that is open.
LEMMA ContentStep ==
    ASSUME IntakeInv, NEW upload \in Uploads, At(upload, "write"),
           NEW result \in {ops[upload].key, Partial},
           NEW step \in {"rename", "done"},
           step = "rename" => result = ops[upload].key \/ ~ Careful(upload),
           Goto(upload, step),
           content' = [content EXCEPT ![ops[upload].inode] = result],
           UNCHANGED <<temp, file, rows, audited, accepted, stored, gone, overlooked>>
    PROVE  IntakeInv'
  <1> DEFINE inode == ops[upload].inode
  <1>1. /\ ops[upload] \in Ops /\ inode \in Uploads /\ Guid(inode) = Guid(upload)
        /\ ops[upload].pc \in HandlerSteps /\ inode # NoInode
    BY IntakeAssumption DEF IntakeInv, TypeOK, Ops, Inodes, OwnInodes, At, HandlerSteps
  <1>2. /\ Moves(upload) /\ ops'[upload].pc = step /\ ops'[upload].inode = inode
        /\ ops'[upload].owner = ops[upload].owner
    BY GotoMoves DEF IntakeInv, HandlerSteps
  <1>3. \A other \in Uploads : Guid(other) # Guid(upload) => content'[other] = content[other]
    BY <1>1 DEF IntakeInv, TypeOK
  <1>4. TypeOK'
    <2>1. content' \in [Uploads -> OwnerKeys \cup {Partial}]
      BY <1>1 DEF IntakeInv, TypeOK, Ops
    <2>2. QED
      BY <1>2, <2>1, TypeStep DEF IntakeInv, TypeOK
  <1>5. OwnInodes'
    BY <1>2, OwnInodesStep
  <1>6. SeparateInodes'
    BY <1>2, SeparateStep DEF Fresh
  <1>7. StoredPlaced'
    BY <1>2, PlacedStep DEF At, Past, Fresh
  <1>8. Alone'
    BY <1>1, <1>2, AloneStep
  <1>9. NotYetStored'
    BY <1>2, NotYetStep DEF At, IntakeInv, NotYetStored
  <1>10. Careful(upload) => /\ inode = temp[Guid(upload)]
                            /\ step = "rename" => content'[inode] = ops[upload].key
    BY <1>1 DEF At, IntakeInv, TypeOK, OwnTemp
  <1>11. OwnTemp'
    BY <1>1, <1>2, <1>3, <1>8, <1>10, OwnTempStep
  <1>12. StoredWhole' /\ OneStored' /\ KeyOfStored'
    <2>1. ASSUME Careful(upload), file[Guid(upload)] # NoInode
          PROVE  content'[file[Guid(upload)]] = content[file[Guid(upload)]]
      <3>1. file[Guid(upload)] # inode /\ file[Guid(upload)] \in Uploads
        <4>1. Guid(upload) \in Guids
          BY <1>1 DEF Ops, Guid
        <4>2. file[Guid(upload)] # temp[Guid(upload)]
          BY <1>1, <1>10, <2>1, <4>1 DEF IntakeInv, SeparateInodes
        <4>3. QED
          BY <1>10, <2>1, <4>1, <4>2 DEF IntakeInv, TypeOK, Inodes
      <3> HIDE DEF inode
      <3>2. content' = [content EXCEPT ![inode] = result]
        BY DEF inode
      <3>3. QED
        BY <3>1, <3>2 DEF IntakeInv, TypeOK
    <2>2. QED
      BY <1>2, <1>3, <2>1, StoredStep
  <1>13. RowsOfAccepted'
    BY <1>2, RowsStep DEF PipelineSteps, Moves, IntakeInv, RowsOfAccepted
  <1>14. QED
    BY <1>4, <1>5, <1>6, <1>7, <1>8, <1>9, <1>11, <1>12, <1>13 DEF IntakeInv

\* What is open was truncated by this upload, if it is the only one: it is written
\* over no other voucher.
LEMMA WriteTempInv ==
    ASSUME IntakeInv, NEW upload \in Uploads, WriteTemp(upload) PROVE IntakeInv'
  <1>1. PICK result \in {ops[upload].key, Partial} :
           /\ result = Partial => content[ops[upload].inode] \notin {Partial, ops[upload].key}
           /\ content' = [content EXCEPT ![ops[upload].inode] = result]
    BY DEF WriteTemp
  <1>2. Careful(upload) => content[ops[upload].inode] = Partial
    BY DEF WriteTemp, At, IntakeInv, OwnTemp
  <1>3. QED
    BY <1>1, <1>2, ContentStep DEF WriteTemp, history

LEMMA RenameInv ==
    ASSUME IntakeInv, NEW upload \in Uploads, Rename(upload) PROVE IntakeInv'
  <1> DEFINE inode == temp[Guid(upload)]
  <1>1. /\ ops[upload] \in Ops /\ Guid(upload) \in Guids /\ inode \in Inodes
        /\ ops[upload].pc = "rename" /\ ops[upload].pc \in HandlerSteps
    BY DEF IntakeInv, TypeOK, Ops, Guid, Rename, At, HandlerSteps
  <1>2. CASE inode = NoInode
    <2>1. /\ Moves(upload) /\ ops'[upload].pc = "remove"
          /\ ops'[upload].inode = ops[upload].inode /\ ops'[upload].owner = ops[upload].owner
      BY <1>2, GotoMoves DEF Rename, IntakeInv, HandlerSteps
    <2>2. Recordable(ops'[upload].owner, ops'[upload].key)
      BY <2>1 DEF Moves, IntakeInv, RowsOfAccepted
    <2>3. Past(upload)' => Past(upload)
      BY <1>2, <2>1 DEF Rename, Past
    <2>4. UNCHANGED <<temp, file, content, rows, audited, accepted, stored, gone, overlooked>>
      BY <1>2 DEF Rename
    <2>5. QED
      BY <1>1, <2>1, <2>2, <2>3, <2>4, QuietStep
         DEF Fresh, HandlerSteps, PipelineSteps, IntakeInv, TypeOK
  <1>3. CASE inode # NoInode
    <2>1. /\ file' = [file EXCEPT ![Guid(upload)] = inode]
          /\ temp' = [temp EXCEPT ![Guid(upload)] = NoInode]
          /\ Goto(upload, "audit")
          /\ stored' = stored \cup {upload}
          /\ UNCHANGED <<content, rows, audited, accepted, gone, overlooked>>
      BY <1>3 DEF Rename
    <2>2. /\ Moves(upload) /\ ops'[upload].pc = "audit"
          /\ ops'[upload].inode = ops[upload].inode /\ ops'[upload].owner = ops[upload].owner
      BY <2>1, GotoMoves DEF IntakeInv, HandlerSteps
    <2>3. /\ \A guid \in Guids \ {Guid(upload)} : temp'[guid] = temp[guid] /\ file'[guid] = file[guid]
          /\ temp'[Guid(upload)] = NoInode /\ file'[Guid(upload)] = inode
      BY <1>1, <2>1 DEF IntakeInv, TypeOK
    <2>4. TypeOK'
      <3>1. temp' \in [Guids -> Inodes] /\ file' \in [Guids -> Inodes]
        BY <1>1, <2>1 DEF IntakeInv, TypeOK, Inodes
      <3>2. QED
        BY <2>1, <2>2, <3>1, TypeStep DEF IntakeInv, TypeOK
    <2>5. OwnInodes'
      <3>1. /\ \A guid \in Guids : temp'[guid] \in {temp[guid], NoInode}
            /\ \A guid \in Guids : file'[guid] \in {file[guid], temp[guid]}
        BY <2>3
      <3>2. QED
        BY <2>2, <3>1, OwnInodesStep
    <2>6. SeparateInodes'
      <3>1. \A guid \in Guids :
               \/ temp'[guid] = temp[guid] /\ file'[guid] = file[guid]
               \/ temp'[guid] = NoInode /\ file'[guid] \in {file[guid], temp[guid]}
        BY <2>3
      <3>2. ~ Fresh(upload)'
        BY <2>2 DEF Fresh
      <3>3. QED
        BY <2>2, <3>1, <3>2, SeparateStep
    <2>7. Alone'
      BY <1>1, <2>2, AloneStep
    <2>8. NotYetStored'
      <3> SUFFICES ASSUME NEW other \in Uploads, ops'[other].guid \in OneAtATime,
                          other \notin overlooked,
                          ops'[other].pc \in {"open", "write", "rename"}
                   PROVE  file'[ops'[other].guid] = NoInode
        BY <2>1 DEF NotYetStored, Careful, Guid
      <3>1. other # upload /\ ops[other].pc \in {"open", "write", "rename"} /\ Careful(other)
        BY <2>2, GuidsStay DEF Careful
      <3>2. Guid(other) # Guid(upload)
        BY <1>1, <3>1 DEF IntakeInv, Alone, HandlerSteps
      <3>3. QED
        BY <2>2, <2>3, <3>1, <3>2, GuidsStay DEF IntakeInv, NotYetStored
    <2>9. OwnTemp'
      BY <1>1, <2>1, <2>2, <2>3, <2>7, OwnTempStep
    <2>10. Careful(upload) => content[inode] = ops[upload].key
      BY <1>1 DEF IntakeInv, OwnTemp
    <2>11. StoredWhole'
      <3> SUFFICES ASSUME NEW guid \in OneAtATime, file'[guid] # NoInode
                   PROVE  content'[file'[guid]] # Partial
        BY DEF StoredWhole, Whole
      <3>1. CASE guid = Guid(upload)
        BY <1>1, <2>1, <2>3, <2>10, <3>1, IntakeAssumption DEF Careful, Ops
      <3>2. CASE guid # Guid(upload)
        BY <2>1, <2>3, <3>2, IntakeAssumption DEF IntakeInv, StoredWhole, Whole
      <3>3. QED
        BY <3>1, <3>2
    <2>12. \A other \in Uploads : /\ ops'[other].guid = Guid(other)
                                  /\ ops'[other].key = ops[other].key
                                  /\ Guid(other) \in Guids
      BY <2>2, GuidsStay
    <2>13. /\ stored' \subseteq Uploads /\ gone \subseteq stored
           /\ upload \notin stored
      BY <1>1, <2>1 DEF IntakeInv, TypeOK, StoredPlaced
    <2>14. StoredPlaced'
      <3> SUFFICES ASSUME NEW other \in Uploads
                   PROVE  /\ Past(other)' => other \in stored'
                          /\ Fresh(other)' \/ ops'[other].pc \in {"write", "rename"} =>
                                other \notin stored'
                          /\ other \in stored' \ gone => file'[Guid(other)] # NoInode
        BY <2>1, <2>12, <2>13 DEF StoredPlaced, Guid
      <3>1. CASE other = upload
        BY <1>3, <2>1, <2>2, <2>3, <3>1 DEF Past, Fresh
      <3>2. CASE other # upload
        <4>1. ops'[other] = ops[other] /\ (other \in stored' <=> other \in stored)
          BY <2>1, <2>2, <3>2, GuidsStay
        <4>2. (Past(other)' <=> Past(other)) /\ (Fresh(other)' <=> Fresh(other))
          BY <2>1, <4>1 DEF Past, Fresh
        <4>3. other \in stored \ gone => file'[Guid(other)] # NoInode
          <5>1. other \in stored \ gone => file[Guid(other)] # NoInode
            BY DEF IntakeInv, StoredPlaced
          <5>2. QED
            BY <1>3, <2>3, <2>12, <5>1
        <4>4. QED
          BY <4>1, <4>2, <4>3 DEF IntakeInv, StoredPlaced
      <3>3. QED
        BY <3>1, <3>2
    <2>15. ASSUME Careful(upload), upload \notin overlooked,
                  NEW other \in stored \ gone, Guid(other) = Guid(upload)
           PROVE  FALSE
      <3>1. file[Guid(upload)] = NoInode
        BY <1>1, <2>15 DEF IntakeInv, NotYetStored
      <3>2. file[Guid(other)] # NoInode
        BY <2>1, <2>13, <2>15 DEF IntakeInv, StoredPlaced
      <3>3. QED
        BY <2>15, <3>1, <3>2
    <2>16. OneStored'
      <3> SUFFICES ASSUME NEW one \in (stored' \ gone) \ overlooked,
                          NEW other \in (stored' \ gone) \ overlooked,
                          Careful(one), Guid(other) = Guid(one), other # one
                   PROVE  FALSE
        BY <2>1, <2>12, <2>13 DEF OneStored, Careful, Guid
      <3>1. CASE one = upload
        BY <2>1, <2>15, <3>1
      <3>2. CASE other = upload
        BY <2>1, <2>15, <3>2 DEF Careful
      <3>3. CASE one # upload /\ other # upload
        BY <2>1, <3>3 DEF IntakeInv, OneStored
      <3>4. QED
        BY <3>1, <3>2, <3>3
    <2>17. KeyOfStored'
      <3> SUFFICES ASSUME NEW one \in stored' \ gone, Careful(one), Unreplaced(one)'
                   PROVE  content[file'[Guid(one)]] = ops[one].key
        BY <2>1, <2>12, <2>13 DEF KeyOfStored, Careful, Guid
      <3>1. CASE one = upload
        BY <2>3, <2>10, <3>1
      <3>2. CASE one # upload /\ Guid(one) = Guid(upload)
        <4>1. one \in stored \ gone /\ Careful(upload)
          BY <2>1, <3>2 DEF Careful
        <4>2. upload \in (stored' \ gone) \cap overlooked
          BY <2>1, <2>13, <2>15, <3>2, <4>1
        <4>3. ops'[upload].guid = ops'[one].guid
          BY <2>12, <2>13, <3>2
        <4>4. QED
          BY <2>1, <3>2, <4>2, <4>3 DEF Unreplaced, Guid
      <3>3. CASE Guid(one) # Guid(upload)
        <4>1. one \in stored \ gone /\ one \in Uploads
          BY <2>1, <2>13, <3>3
        <4>2. Unreplaced(one)
          <5> SUFFICES ASSUME NEW other \in (stored \ gone) \cap overlooked,
                              Guid(other) = Guid(one)
                       PROVE  other = one
            BY DEF Unreplaced
          <5>1. other \in (stored' \ gone) \cap overlooked /\ other \in Uploads
            BY <2>1, <2>13
          <5>2. ops'[other].guid = ops'[one].guid
            BY <2>12, <4>1, <5>1
          <5>3. QED
            BY <2>1, <5>1, <5>2 DEF Unreplaced, Guid
        <4>3. file'[Guid(one)] = file[Guid(one)]
          BY <2>3, <2>12, <3>3, <4>1
        <4>4. QED
          BY <4>1, <4>2, <4>3 DEF IntakeInv, KeyOfStored
      <3>4. QED
        BY <3>1, <3>2, <3>3
    <2>18. RowsOfAccepted'
      BY <2>1, <2>2, RowsStep DEF PipelineSteps, Moves, IntakeInv, RowsOfAccepted
    <2>19. QED
      BY <2>4, <2>5, <2>6, <2>7, <2>8, <2>9, <2>11, <2>14, <2>16, <2>17, <2>18 DEF IntakeInv
  <1>4. QED
    BY <1>2, <1>3

LEMMA RemoveTempInv ==
    ASSUME IntakeInv, NEW upload \in Uploads, RemoveTemp(upload) PROVE IntakeInv'
  <1>1. /\ temp' = [temp EXCEPT ![Guid(upload)] = NoInode] /\ Goto(upload, "done")
        /\ UNCHANGED <<file, content, rows, audited, accepted, stored, gone, overlooked>>
        /\ ops[upload].pc \in HandlerSteps
    BY DEF RemoveTemp, history, At, HandlerSteps
  <1>2. /\ Moves(upload) /\ ops'[upload].pc = "done"
        /\ ops'[upload].inode = ops[upload].inode /\ ops'[upload].owner = ops[upload].owner
    BY <1>1, GotoMoves DEF IntakeInv
  <1>3. /\ temp' \in [Guids -> Inodes]
        /\ \A guid \in Guids : temp'[guid] \in {temp[guid], NoInode}
        /\ \A guid \in Guids \ {Guid(upload)} : temp'[guid] = temp[guid]
    BY <1>1 DEF IntakeInv, TypeOK, Inodes
  <1>4. TypeOK'
    BY <1>1, <1>2, <1>3, TypeStep DEF IntakeInv, TypeOK
  <1>5. OwnInodes'
    BY <1>1, <1>2, <1>3, OwnInodesStep
  <1>6. SeparateInodes'
    BY <1>1, <1>2, <1>3, SeparateStep DEF Fresh
  <1>7. StoredPlaced'
    BY <1>1, <1>2, PlacedStep DEF Past, Fresh
  <1>8. Alone'
    BY <1>1, <1>2, AloneStep
  <1>9. NotYetStored'
    BY <1>1, <1>2, NotYetStep
  <1>10. OwnTemp'
    BY <1>1, <1>2, <1>3, <1>8, OwnTempStep
  <1>11. StoredWhole' /\ OneStored' /\ KeyOfStored'
    BY <1>1, <1>2, StoredStep
  <1>12. RowsOfAccepted'
    BY <1>1, <1>2, RowsStep DEF PipelineSteps, Moves, IntakeInv, RowsOfAccepted
  <1>13. QED
    BY <1>4, <1>5, <1>6, <1>7, <1>8, <1>9, <1>10, <1>11, <1>12 DEF IntakeInv

-------------------------------------------------------------------------------
(***************************************************************************)
(* The row, errors and crashes.                                            *)
(***************************************************************************)
LEMMA CreatePendingInv ==
    ASSUME IntakeInv, NEW upload \in Uploads, CreatePending(upload) PROVE IntakeInv'
  <1>1. /\ Goto(upload, "done")
        /\ UNCHANGED <<temp, file, content, audited, accepted, stored, gone, overlooked>>
        /\ ops[upload].pc = "create" /\ ops[upload] \in Ops /\ Guid(upload) \in Guids
    BY DEF CreatePending, history, At, IntakeInv, TypeOK, Ops, Guid
  <1>2. /\ Moves(upload) /\ ops'[upload].pc = "done"
        /\ ops'[upload].inode = ops[upload].inode /\ ops'[upload].owner = ops[upload].owner
    BY <1>1, GotoMoves DEF IntakeInv
  <1>3. PICK routed \in BOOLEAN :
           rows' = rows \cup {[upload |-> upload, guid |-> Guid(upload),
                               owner |-> ops[upload].owner, routed |-> routed]}
    BY DEF CreatePending
  <1>4. TypeOK'
    <2>1. rows' \subseteq Rows
      BY <1>1, <1>3 DEF IntakeInv, TypeOK, Rows, Ops
    <2>2. QED
      BY <1>1, <1>2, <2>1, TypeStep DEF IntakeInv, TypeOK
  <1>5. OwnInodes'
    BY <1>1, <1>2, OwnInodesStep
  <1>6. SeparateInodes'
    BY <1>1, <1>2, SeparateStep DEF Fresh
  <1>7. StoredPlaced'
    BY <1>1, <1>2, PlacedStep DEF Past, Fresh
  <1>8. Alone'
    BY <1>2, AloneStep DEF HandlerSteps
  <1>9. NotYetStored'
    BY <1>1, <1>2, NotYetStep
  <1>10. OwnTemp'
    BY <1>1, <1>2, <1>8, OwnTempStep
  <1>11. StoredWhole' /\ OneStored' /\ KeyOfStored'
    BY <1>1, <1>2, StoredStep
  <1>12. RowsOfAccepted'
    <2>1. upload \in accepted /\ Recordable(ops[upload].owner, ops[upload].key)
      BY <1>1 DEF IntakeInv, RowsOfAccepted, PipelineSteps
    <2>2. ASSUME NEW other \in Uploads
          PROVE  /\ ops'[other].pc \in PipelineSteps => other \in accepted'
                 /\ Recordable(ops'[other].owner, ops'[other].key)
      BY <1>1, <1>2, <2>1, GuidsStay DEF IntakeInv, RowsOfAccepted, PipelineSteps
    <2>3. ASSUME NEW row \in rows'
          PROVE  /\ row.guid = ops'[row.upload].guid
                 /\ row.upload \in accepted'
                 /\ Recordable(row.owner, ops'[row.upload].key)
      <3>1. CASE row \in rows
        <4>1. row.upload \in Uploads
          BY <3>1 DEF IntakeInv, TypeOK, Rows
        <4>2. QED
          BY <1>1, <1>2, <3>1, <4>1, GuidsStay DEF IntakeInv, RowsOfAccepted
      <3>2. CASE row = [upload |-> upload, guid |-> Guid(upload),
                        owner |-> ops[upload].owner, routed |-> routed]
        BY <1>1, <1>2, <2>1, <3>2, GuidsStay
      <3>3. QED
        BY <1>3, <3>1, <3>2
    <2>4. QED
      BY <2>2, <2>3 DEF RowsOfAccepted, Guid
  <1>13. QED
    BY <1>4, <1>5, <1>6, <1>7, <1>8, <1>9, <1>10, <1>11, <1>12 DEF IntakeInv

LEMMA StepFailsInv ==
    ASSUME IntakeInv, NEW upload \in Uploads, StepFails(upload) PROVE IntakeInv'
  <1> DEFINE step == AfterError(ops[upload].pc)
  <1>1. /\ Goto(upload, step)
        /\ UNCHANGED <<temp, file, rows, audited, accepted, stored, gone>>
        /\ ops[upload].pc \in {"stat", "open", "write", "rename", "remove", "audit", "create"}
        /\ overlooked' = overlooked \cup
              {failed \in {upload} : At(failed, "stat") /\ file[Guid(failed)] # NoInode}
    BY DEF StepFails
  <1>2. /\ step \in {"open", "remove", "reply", "done"}
        /\ step # "done" => ops[upload].pc \in HandlerSteps
        /\ step = "reply" => ops[upload].pc = "audit"
        /\ step = "open" => At(upload, "stat")
        /\ ops[upload].pc = "write" => step = "done"
    BY <1>1 DEF AfterError, HandlerSteps, At
  <1>3. /\ overlooked \subseteq overlooked' /\ overlooked' \subseteq Uploads
        /\ ~ At(upload, "stat") => overlooked' = overlooked
        /\ At(upload, "stat") => upload \in overlooked' \/ file[Guid(upload)] = NoInode
    BY <1>1 DEF IntakeInv, TypeOK
  <1>4. CASE UNCHANGED content
    <2>1. /\ Moves(upload) /\ ops'[upload].pc = step
          /\ ops'[upload].inode = ops[upload].inode /\ ops'[upload].owner = ops[upload].owner
      <3> HIDE DEF step
      <3> QED
        BY <1>1, <1>2, GotoMoves DEF IntakeInv, HandlerSteps
    <2>2. Past(upload)' => Past(upload)
      BY <1>1, <1>2, <2>1 DEF Past
    <2>3. Recordable(ops'[upload].owner, ops'[upload].key)
      BY <2>1 DEF Moves, IntakeInv, RowsOfAccepted
    <2>4. ops'[upload].pc \notin PipelineSteps \cup {"write", "rename"}
      BY <1>2, <2>1 DEF PipelineSteps
    <2>5. ops'[upload].pc \in HandlerSteps => ops[upload].pc \in HandlerSteps
      BY <1>2, <2>1 DEF HandlerSteps
    <2>6. Fresh(upload)' => Fresh(upload)
      BY <1>2, <2>1 DEF Fresh, At
    <2>7. ops'[upload].pc = "open" => upload \in overlooked' \/ file[Guid(upload)] = NoInode
      BY <1>2, <1>3, <2>1
    <2> HIDE DEF step
    <2>8. QED
      BY <1>1, <1>3, <1>4, <2>1, <2>2, <2>3, <2>4, <2>5, <2>6, <2>7, QuietStep
         DEF IntakeInv, TypeOK
  <1>5. CASE /\ At(upload, "write")
             /\ content' = [content EXCEPT ![ops[upload].inode] = Partial]
    <2>1. Goto(upload, "done")
      BY <1>1, <1>2, <1>5 DEF At
    <2>2. overlooked' = overlooked
      BY <1>3, <1>5 DEF At
    <2>3. QED
      BY <1>1, <1>5, <2>1, <2>2, ContentStep
  <1>6. QED
    BY <1>4, <1>5 DEF StepFails

LEMMA ServerCrashInv == ASSUME IntakeInv, ServerCrash PROVE IntakeInv'
  <1>1. ASSUME NEW upload \in Uploads
        PROVE  /\ ops'[upload] \in Ops
               /\ ops'[upload].pc \in {"new", "done"}
               /\ ops'[upload].guid = ops[upload].guid /\ ops'[upload].key = ops[upload].key
               /\ ops'[upload].owner = ops[upload].owner
               /\ ops'[upload].inode = ops[upload].inode
    <2>1. ops[upload] \in Ops
      BY DEF IntakeInv, TypeOK
    <2>2. ops'[upload] = IF ops[upload].pc = "new" THEN ops[upload]
                                                   ELSE [ops[upload] EXCEPT !.pc = "done"]
      BY DEF ServerCrash, At
    <2>3. CASE ops[upload].pc = "new"
      BY <2>1, <2>2, <2>3
    <2>4. CASE ops[upload].pc # "new"
      BY <2>1, <2>2, <2>4 DEF Ops
    <2>5. QED
      BY <2>3, <2>4
  <1>2. UNCHANGED <<temp, file, content, rows, audited, accepted, stored, gone, overlooked>>
    BY DEF ServerCrash, history
  <1>3. TypeOK'
    <2>1. ops' \in [Uploads -> Ops]
      BY <1>1 DEF ServerCrash
    <2>2. QED
      BY <1>2, <2>1 DEF IntakeInv, TypeOK
  <1>4. OwnInodes'
    <2>1. ASSUME NEW inode \in Inodes, NEW guid
          PROVE  (inode # NoInode => Guid(inode) = guid) =>
                    (inode # NoInode => ops'[inode].guid = guid)
      BY <1>1 DEF Guid, Inodes
    <2>2. ASSUME NEW guid \in Guids
          PROVE  /\ temp[guid] # NoInode => ops'[temp[guid]].guid = guid
                 /\ file[guid] # NoInode => ops'[file[guid]].guid = guid
      BY <2>1 DEF IntakeInv, TypeOK, OwnInodes
    <2>3. ASSUME NEW upload \in Uploads
          PROVE  /\ ops'[upload].inode # NoInode =>
                       ops'[ops'[upload].inode].guid = ops'[upload].guid
                 /\ ops'[upload].pc = "write" => ops'[upload].inode # NoInode
      <3>1. ops'[upload].inode \in Inodes /\ ops'[upload].guid = Guid(upload)
        BY <1>1 DEF Ops, Guid
      <3>2. ops'[upload].inode # NoInode => Guid(ops'[upload].inode) = Guid(upload)
        BY <1>1 DEF IntakeInv, OwnInodes
      <3>3. QED
        BY <1>1, <2>1, <3>1, <3>2
    <2>4. QED
      BY <1>2, <2>2, <2>3 DEF OwnInodes, Guid
  <1>5. ASSUME NEW upload \in Uploads
        PROVE  /\ Past(upload)' => Past(upload)
               /\ ops'[upload].pc = "new" => ops[upload].pc = "new"
    <2>1. ops'[upload].pc = "new" => ops[upload].pc = "new"
      BY DEF ServerCrash, At, IntakeInv, TypeOK, Ops
    <2>2. QED
      BY <1>1, <1>2, <2>1 DEF Past
  <1>6. SeparateInodes' /\ StoredPlaced'
    <2>1. ASSUME NEW upload \in Uploads
          PROVE  /\ Fresh(upload)' => Fresh(upload)
                 /\ ops'[upload].pc \notin {"write", "rename"}
      BY <1>1, <1>5 DEF Fresh
    <2>2. QED
      BY <1>1, <1>2, <1>5, <2>1 DEF IntakeInv, SeparateInodes, StoredPlaced, Guid
  <1>7. Alone' /\ NotYetStored' /\ OwnTemp'
    BY <1>1 DEF Alone, NotYetStored, OwnTemp, HandlerSteps
  <1>8. StoredWhole'
    BY <1>2 DEF IntakeInv, StoredWhole, Whole
  <1>9. OneStored' /\ KeyOfStored'
    <2>1. stored \subseteq Uploads
      BY DEF IntakeInv, TypeOK
    <2>2. \A upload \in stored : ops'[upload].guid = Guid(upload) /\ ops'[upload].key = ops[upload].key
      BY <1>1, <2>1 DEF Guid
    <2>3. OneStored'
      BY <1>2, <2>2 DEF IntakeInv, OneStored, Careful, Guid
    <2>4. \A upload \in stored : Unreplaced(upload)' => Unreplaced(upload)
      BY <1>2, <2>2 DEF Unreplaced, Guid
    <2>5. QED
      BY <1>2, <2>2, <2>3, <2>4 DEF IntakeInv, KeyOfStored, Careful, Guid
  <1>10. RowsOfAccepted'
    <2>1. \A row \in rows : row.upload \in Uploads
      BY DEF IntakeInv, TypeOK, Rows
    <2>2. QED
      BY <1>1, <1>2, <2>1 DEF IntakeInv, RowsOfAccepted, PipelineSteps, Guid
  <1>11. QED
    BY <1>3, <1>4, <1>6, <1>7, <1>8, <1>9, <1>10 DEF IntakeInv

\* The voucher is gone for all uploads that had put it there, and the path is free.
LEMMA DeleteDeliveredInv == ASSUME IntakeInv, DeleteDelivered PROVE IntakeInv'
  <1>1. PICK row \in rows :
           /\ file' = [file EXCEPT ![row.guid] = NoInode]
           /\ gone' = gone \cup {upload \in stored : Guid(upload) = row.guid}
    BY DEF DeleteDelivered
  <1>2. UNCHANGED <<temp, content, rows, ops, audited, accepted, stored, overlooked>>
    BY DEF DeleteDelivered
  <1>3. \A guid \in Guids : file'[guid] = IF guid = row.guid THEN NoInode ELSE file[guid]
    BY <1>1 DEF IntakeInv, TypeOK
  <1>4. TypeOK'
    <2>1. file' \in [Guids -> Inodes]
      BY <1>1 DEF IntakeInv, TypeOK, Inodes
    <2>2. gone' \subseteq Uploads
      BY <1>1 DEF IntakeInv, TypeOK
    <2>3. QED
      BY <1>2, <2>1, <2>2 DEF IntakeInv, TypeOK
  <1>5. OwnInodes'
    BY <1>2, <1>3 DEF IntakeInv, OwnInodes, Guid
  <1>6. SeparateInodes'
    BY <1>2, <1>3, IntakeAssumption DEF IntakeInv, SeparateInodes, Fresh
  <1>7. \A upload \in Uploads : Guid(upload) \in Guids
    BY DEF IntakeInv, TypeOK, Ops, Guid
  <1>8. StoredPlaced'
    <2>1. gone' \subseteq stored
      BY <1>1 DEF IntakeInv, StoredPlaced
    <2>2. ASSUME NEW upload \in Uploads, upload \in stored \ gone'
          PROVE  file'[Guid(upload)] # NoInode
      <3>1. upload \in stored \ gone /\ Guid(upload) # row.guid
        BY <1>1, <2>2
      <3>2. QED
        BY <1>3, <1>7, <3>1 DEF IntakeInv, StoredPlaced
    <2>3. QED
      BY <1>2, <2>1, <2>2 DEF IntakeInv, StoredPlaced, Past, Fresh, Guid
  <1>9. Alone' /\ OwnTemp'
    BY <1>2 DEF IntakeInv, Alone, OwnTemp, Careful, Guid
  <1>10. NotYetStored'
    <2> SUFFICES ASSUME NEW upload \in Uploads \ overlooked, Careful(upload),
                        ops[upload].pc \in {"open", "write", "rename"}
                 PROVE  file'[Guid(upload)] = NoInode
      BY <1>2 DEF NotYetStored, Careful, Guid
    <2>1. file[Guid(upload)] = NoInode
      BY DEF IntakeInv, NotYetStored
    <2>2. QED
      BY <1>3, <1>7, <2>1
  <1>11. StoredWhole'
    <2>1. OneAtATime \subseteq Guids
      BY IntakeAssumption
    <2>2. QED
      BY <1>2, <1>3, <2>1 DEF IntakeInv, StoredWhole, Whole
  <1>12. OneStored'
    <2>1. gone \subseteq gone'
      BY <1>1
    <2>2. QED
      BY <1>2, <2>1 DEF IntakeInv, OneStored, Careful, Guid
  <1>13. KeyOfStored'
    <2> SUFFICES ASSUME NEW upload \in stored \ gone', Careful(upload), Unreplaced(upload)'
                 PROVE  content[file'[Guid(upload)]] = ops[upload].key
      BY <1>2 DEF KeyOfStored, Careful, Guid
    <2>1. upload \in stored \ gone /\ upload \in Uploads /\ Guid(upload) # row.guid
      BY <1>1 DEF IntakeInv, TypeOK
    <2>2. Unreplaced(upload)
      <3> SUFFICES ASSUME NEW other \in (stored \ gone) \cap overlooked,
                          Guid(other) = Guid(upload)
                   PROVE  other = upload
        BY DEF Unreplaced
      <3>1. other \in (stored \ gone') \cap overlooked
        BY <1>1, <2>1
      <3>2. QED
        BY <1>2, <3>1 DEF Unreplaced, Guid
    <2>3. file'[Guid(upload)] = file[Guid(upload)]
      BY <1>3, <1>7, <2>1
    <2>4. QED
      BY <2>1, <2>2, <2>3 DEF IntakeInv, KeyOfStored
  <1>14. RowsOfAccepted'
    BY <1>2 DEF IntakeInv, RowsOfAccepted, Guid
  <1>15. QED
    BY <1>4, <1>5, <1>6, <1>8, <1>9, <1>10, <1>11, <1>12, <1>13, <1>14 DEF IntakeInv

LEMMA NextIntakeInv == IntakeInv /\ [Next]_vars => IntakeInv'
  <1> SUFFICES ASSUME IntakeInv, [Next]_vars PROVE IntakeInv'
    OBVIOUS
  <1>1. ASSUME NEW upload \in Uploads, Receive(upload) PROVE IntakeInv'
    BY <1>1, ReceiveInv
  <1>2. ASSUME NEW upload \in Uploads, HandlerStep(upload) PROVE IntakeInv'
    BY <1>2, StatInv, OpenTempInv, WriteTempInv, RenameInv, RemoveTempInv, AuditInv, ReplyInv
       DEF HandlerStep
  <1>3. ASSUME NEW upload \in Uploads, PipelineStep(upload) PROVE IntakeInv'
    BY <1>3, ResolveOwnerInv, CreatePendingInv DEF PipelineStep
  <1>4. ASSUME NEW upload \in Uploads, StepFails(upload) PROVE IntakeInv'
    BY <1>4, StepFailsInv
  <1>5. CASE ServerCrash
    BY <1>5, ServerCrashInv
  <1>6. CASE DeleteDelivered
    BY <1>6, DeleteDeliveredInv
  <1>7. CASE UNCHANGED vars
    <2>1. UNCHANGED <<temp, file, content, rows, ops, audited, accepted, stored, gone, overlooked>>
      BY <1>7 DEF vars, history
    <2>2. (TypeOK /\ OwnInodes /\ SeparateInodes /\ StoredPlaced /\ Alone)'
      BY <2>1 DEF IntakeInv, TypeOK, OwnInodes, SeparateInodes, StoredPlaced, Past, Fresh, Alone,
                  Careful, Guid
    <2>3. (NotYetStored /\ OwnTemp /\ StoredWhole /\ OneStored /\ KeyOfStored /\ RowsOfAccepted)'
      BY <2>1 DEF IntakeInv, NotYetStored, OwnTemp, StoredWhole, Whole, OneStored, KeyOfStored,
                  Unreplaced, RowsOfAccepted, Careful, Guid
    <2>4. QED
      BY <2>2, <2>3 DEF IntakeInv
  <1>8. QED
    BY <1>1, <1>2, <1>3, <1>4, <1>5, <1>6, <1>7 DEF Next

-------------------------------------------------------------------------------
(***************************************************************************)
(* The theorems.                                                           *)
(***************************************************************************)
LEMMA AlwaysIntakeInv == Spec => []IntakeInv
  BY InitIntakeInv, NextIntakeInv, PTL DEF Spec

\* The variables keep their types, for any number of uploads and vouchers.
THEOREM TypeCorrect == Spec => []TypeOK
  <1>1. IntakeInv => TypeOK
    BY DEF IntakeInv
  <1>2. QED
    BY <1>1, AlwaysIntakeInv, PTL

\* ProcessVoucher only creates rows of vouchers that saveVoucher has put into the
\* directory, and they stay there until they are delivered, even when uploads of
\* one GUID overlap, fail or die.
THEOREM RowsHaveFiles == Spec => []RowHasFile
  <1>1. IntakeInv => RowHasFile
    <2> SUFFICES ASSUME IntakeInv, NEW row \in rows, row.upload \notin gone
                 PROVE  file[row.guid] # NoInode
      BY DEF RowHasFile
    <2>1. row.upload \in Uploads /\ Past(row.upload) /\ row.guid = Guid(row.upload)
      BY DEF IntakeInv, TypeOK, Rows, RowsOfAccepted, Past
    <2>2. QED
      BY <2>1 DEF IntakeInv, StoredPlaced
  <1>2. QED
    BY <1>1, AlwaysIntakeInv, PTL

\* The temporary file and the rename keep a voucher of saveVoucher whole, whatever
\* earlier uploads of it have left behind.
THEOREM NothingTorn == Spec => []StoredWhole
  <1>1. IntakeInv => StoredWhole
    BY DEF IntakeInv
  <1>2. QED
    BY <1>1, AlwaysIntakeInv, PTL

\* The check of the path in ServeHTTP accepts a voucher once, when its uploads do
\* not overlap: until it is delivered and deleted, a second one needs an error of
\* os.Stat.
THEOREM NoDuplicateAccepted == Spec => []AcceptedOnce
  <1>1. IntakeInv => AcceptedOnce
    <2> SUFFICES ASSUME IntakeInv,
                        NEW upload \in accepted \ (gone \cup overlooked),
                        NEW other \in accepted \ (gone \cup overlooked),
                        Guid(upload) = Guid(other), Careful(upload)
                 PROVE  upload = other
      BY DEF AcceptedOnce, Careful
    <2>1. upload \in Uploads /\ other \in Uploads /\ Past(upload) /\ Past(other)
      BY DEF IntakeInv, TypeOK, Past
    <2>2. upload \in (stored \ gone) \ overlooked /\ other \in (stored \ gone) \ overlooked
      BY <2>1 DEF IntakeInv, StoredPlaced
    <2>3. QED
      BY <2>2 DEF IntakeInv, OneStored
  <1>2. QED
    BY <1>1, AlwaysIntakeInv, PTL

\* The owner CreatePending records is that of the voucher in the directory, or the
\* next owner, until the voucher is deleted or an upload that os.Stat let through by
\* an error replaces it.
THEOREM RowsNameOwners == Spec => []RowNamesOwner
  <1>1. IntakeInv => RowNamesOwner
    <2> SUFFICES ASSUME IntakeInv, NEW row \in rows, row.guid \in OneAtATime, Current(row)
                 PROVE  Recordable(row.owner, content[file[row.guid]])
      BY DEF RowNamesOwner
    <2>1. /\ row.upload \in Uploads /\ row.guid = Guid(row.upload)
          /\ Recordable(row.owner, ops[row.upload].key)
      BY DEF IntakeInv, TypeOK, Rows, RowsOfAccepted
    <2>2. row.upload \in stored \ gone /\ Unreplaced(row.upload)
      BY <2>1 DEF Current, Holders, Unreplaced
    <2>3. content[file[row.guid]] = ops[row.upload].key
      BY <2>1, <2>2 DEF IntakeInv, KeyOfStored, Careful
    <2>4. QED
      BY <2>1, <2>3
  <1>2. QED
    BY <1>1, AlwaysIntakeInv, PTL

\* Without owner_signover it is that of the voucher in the directory.
THEOREM RowsNameStoredOwners ==
    ASSUME SignoverMode = "none" PROVE Spec => []RowNamesStoredOwner
  <1>1. RowNamesOwner => RowNamesStoredOwner
    BY DEF RowNamesOwner, RowNamesStoredOwner, Recordable
  <1>2. QED
    BY <1>1, RowsNameOwners, PTL

-------------------------------------------------------------------------------
(***************************************************************************)
(* What overlapping retransmissions come to when nothing fails.            *)
(***************************************************************************)

\* The uploads of a GUID are retransmissions of one voucher.
OneKey(guid) ==
    \A upload, other \in Uploads :
       Guid(upload) = guid /\ Guid(other) = guid => ops[upload].key = ops[other].key

\* An inode then holds that voucher or a part of it.
OneContent ==
    \A guid \in Guids : OneKey(guid) =>
       \A inode \in Uploads :
          Guid(inode) = guid => content[inode] \in {Partial, ops[inode].key}

\* And of what a path names, a part is only there while someone is going to write
\* the rest.
Writing(inode) == \E upload \in Uploads : At(upload, "write") /\ ops[upload].inode = inode

PartsBecomeWhole ==
    \A guid \in Guids : OneKey(guid) =>
       \A inode \in {temp[guid], file[guid]} \ {NoInode} :
          content[inode] = Partial => Writing(inode)

ConvergeInv ==
    /\ IntakeInv
    /\ ~ disturbed => OneContent /\ PartsBecomeWhole

LEMMA OneKeyStays ==
    ASSUME IntakeInv, NEW upload \in Uploads, Moves(upload), NEW guid, OneKey(guid)'
    PROVE  OneKey(guid)
  <1> SUFFICES ASSUME NEW one \in Uploads, NEW other \in Uploads,
                      Guid(one) = guid, Guid(other) = guid
               PROVE  ops[one].key = ops[other].key
    BY DEF OneKey
  <1>1. /\ ops'[one].guid = Guid(one) /\ ops'[other].guid = Guid(other)
        /\ ops'[one].key = ops[one].key /\ ops'[other].key = ops[other].key
    BY GuidsStay
  <1>2. QED
    BY <1>1 DEF OneKey, Guid

\* A step that writes nothing, and does not end a write.
LEMMA ReadingConverges ==
    ASSUME IntakeInv, OneContent, PartsBecomeWhole, NEW upload \in Uploads, Moves(upload),
           ops[upload].pc # "write", content' = content,
           \A guid \in Guids : /\ temp'[guid] \in {temp[guid], NoInode}
                              /\ file'[guid] \in {file[guid], temp[guid], NoInode}
    PROVE  (OneContent /\ PartsBecomeWhole)'
  <1>1. OneContent'
    <2> SUFFICES ASSUME NEW guid \in Guids, OneKey(guid)',
                        NEW inode \in Uploads, ops'[inode].guid = guid
                 PROVE  content'[inode] \in {Partial, ops'[inode].key}
      BY DEF OneContent, Guid
    <2>1. ops'[inode].guid = Guid(inode) /\ ops'[inode].key = ops[inode].key
      BY GuidsStay
    <2>2. OneKey(guid) /\ Guid(inode) = guid
      BY <2>1, OneKeyStays
    <2>3. QED
      BY <2>1, <2>2 DEF OneContent
  <1>2. PartsBecomeWhole'
    <2> SUFFICES ASSUME NEW guid \in Guids, OneKey(guid)',
                        NEW inode \in {temp'[guid], file'[guid]} \ {NoInode},
                        content'[inode] = Partial
                 PROVE  \E other \in Uploads : ops'[other].pc = "write" /\ ops'[other].inode = inode
      BY DEF PartsBecomeWhole, Writing, At
    <2>1. OneKey(guid)
      BY OneKeyStays
    <2>2. inode \in {temp[guid], file[guid]} \ {NoInode}
      OBVIOUS
    <2>3. PICK other \in Uploads : ops[other].pc = "write" /\ ops[other].inode = inode
      BY <2>1, <2>2 DEF PartsBecomeWhole, Writing, At
    <2>4. ops'[other] = ops[other]
      BY <2>3, GuidsStay
    <2>5. QED
      BY <2>3, <2>4
  <1>3. QED
    BY <1>1, <1>2

LEMMA OpenTempConverges ==
    ASSUME IntakeInv, OneContent, PartsBecomeWhole, NEW upload \in Uploads, OpenTemp(upload)
    PROVE  (OneContent /\ PartsBecomeWhole)'
  <1> DEFINE inode == IF temp[Guid(upload)] = NoInode THEN upload ELSE temp[Guid(upload)]
  <1>1. /\ ops[upload].pc = "open" /\ ops[upload] \in Ops /\ Guid(upload) \in Guids
        /\ temp' = [temp EXCEPT ![Guid(upload)] = inode] /\ file' = file
        /\ content' = [content EXCEPT ![inode] = Partial]
        /\ ops' = [ops EXCEPT ![upload] = [ops[upload] EXCEPT !.pc = "write", !.inode = inode]]
    BY DEF OpenTemp, At, IntakeInv, TypeOK, Ops, Guid
  <1>2. inode \in Uploads
    BY <1>1 DEF IntakeInv, TypeOK, Inodes
  <1>3. /\ ops'[upload].pc = "write" /\ ops'[upload].inode = inode
        /\ content'[inode] = Partial
        /\ \A other \in Uploads \ {inode} : content'[other] = content[other]
    <2> HIDE DEF inode
    <2>1. content \in [Uploads -> OwnerKeys \cup {Partial}]
      BY DEF IntakeInv, TypeOK
    <2>2. QED
      BY <1>1, <1>2, <2>1 DEF IntakeInv, TypeOK, Ops
  <1>4. Moves(upload)
    <2> HIDE DEF inode
    <2>1. [ops[upload] EXCEPT !.pc = "write", !.inode = inode] \in Ops
      BY <1>1, <1>2 DEF Ops, HandlerSteps, Inodes
    <2>2. QED
      BY <1>1, <2>1 DEF Moves, IntakeInv, TypeOK, Ops
  <1>5. /\ temp'[Guid(upload)] = inode
        /\ \A guid \in Guids \ {Guid(upload)} : temp'[guid] = temp[guid]
    <2> HIDE DEF inode
    <2> QED
      BY <1>1 DEF IntakeInv, TypeOK
  <1> HIDE DEF inode
  <1>6. OneContent'
    <2> SUFFICES ASSUME NEW guid \in Guids, OneKey(guid)',
                        NEW other \in Uploads, ops'[other].guid = guid
                 PROVE  content'[other] \in {Partial, ops'[other].key}
      BY DEF OneContent, Guid
    <2>1. ops'[other].guid = Guid(other) /\ ops'[other].key = ops[other].key
      BY <1>4, GuidsStay
    <2>2. OneKey(guid) /\ Guid(other) = guid
      BY <1>4, <2>1, OneKeyStays
    <2>3. QED
      BY <1>3, <2>1, <2>2 DEF OneContent
  <1>7. PartsBecomeWhole'
    <2> SUFFICES ASSUME NEW guid \in Guids, OneKey(guid)',
                        NEW named \in {temp'[guid], file'[guid]} \ {NoInode},
                        content'[named] = Partial
                 PROVE  \E other \in Uploads : ops'[other].pc = "write" /\ ops'[other].inode = named
      BY DEF PartsBecomeWhole, Writing, At
    <2>1. CASE named = inode
      BY <1>3, <2>1
    <2>2. CASE named # inode
      <3>1. named \in {temp[guid], file[guid]} \ {NoInode}
        BY <1>1, <1>5, <2>2
      <3>2. named \in Uploads
        BY <3>1 DEF IntakeInv, TypeOK, Inodes
      <3>3. content[named] = Partial
        BY <1>3, <2>2, <3>2
      <3>4. OneKey(guid)
        BY <1>4, OneKeyStays
      <3>5. PICK other \in Uploads : ops[other].pc = "write" /\ ops[other].inode = named
        BY <3>1, <3>3, <3>4 DEF PartsBecomeWhole, Writing, At
      <3>6. ops'[other] = ops[other]
        BY <1>1, <1>4, <3>5, GuidsStay
      <3>7. QED
        BY <3>5, <3>6
    <2>3. QED
      BY <2>1, <2>2
  <1>8. QED
    BY <1>6, <1>7

\* Whoever writes an inode leaves the voucher there: what it writes over can only
\* be a part of it, or the same.
LEMMA WriteTempConverges ==
    ASSUME IntakeInv, OneContent, PartsBecomeWhole, NEW upload \in Uploads, WriteTemp(upload)
    PROVE  (OneContent /\ PartsBecomeWhole)'
  <1> DEFINE inode == ops[upload].inode
  <1>1. /\ ops[upload].pc = "write" /\ Goto(upload, "rename")
        /\ temp' = temp /\ file' = file
    BY DEF WriteTemp, At
  <1>2. /\ Moves(upload) /\ ops'[upload].pc = "rename"
    BY <1>1, GotoMoves DEF IntakeInv, HandlerSteps
  <1>3. /\ inode \in Uploads /\ Guid(inode) = Guid(upload)
        /\ ops[upload].key \in OwnerKeys /\ Guid(upload) \in Guids
    <2>1. ops[upload] \in Ops
      BY DEF IntakeInv, TypeOK
    <2>2. QED
      BY <1>1, <2>1 DEF IntakeInv, OwnInodes, Ops, Inodes, Guid
  <1>4. PICK result \in {ops[upload].key, Partial} :
           /\ result = Partial => content[inode] \notin {Partial, ops[upload].key}
           /\ content' = [content EXCEPT ![inode] = result]
    BY DEF WriteTemp
  <1>5. /\ content'[inode] = result
        /\ \A other \in Uploads \ {inode} : content'[other] = content[other]
    <2>1. content \in [Uploads -> OwnerKeys \cup {Partial}]
      BY DEF IntakeInv, TypeOK
    <2> HIDE DEF inode
    <2>2. QED
      BY <1>3, <1>4, <2>1
  <1> HIDE DEF inode
  <1>6. ASSUME OneKey(Guid(upload)) PROVE result = ops[upload].key /\ ops[inode].key = ops[upload].key
    <2>1. ops[inode].key = ops[upload].key
      BY <1>3, <1>6 DEF OneKey
    <2>2. content[inode] \in {Partial, ops[upload].key}
      BY <1>3, <1>6, <2>1 DEF OneContent
    <2>3. QED
      BY <1>4, <2>1, <2>2
  <1>7. OneContent'
    <2> SUFFICES ASSUME NEW guid \in Guids, OneKey(guid)',
                        NEW other \in Uploads, ops'[other].guid = guid
                 PROVE  content'[other] \in {Partial, ops'[other].key}
      BY DEF OneContent, Guid
    <2>1. ops'[other].guid = Guid(other) /\ ops'[other].key = ops[other].key
      BY <1>2, GuidsStay
    <2>2. OneKey(guid) /\ Guid(other) = guid
      BY <1>2, <2>1, OneKeyStays
    <2>3. CASE other = inode
      BY <1>3, <1>5, <1>6, <2>1, <2>2, <2>3
    <2>4. CASE other # inode
      BY <1>5, <2>1, <2>2, <2>4 DEF OneContent
    <2>5. QED
      BY <2>3, <2>4
  <1>8. PartsBecomeWhole'
    <2> SUFFICES ASSUME NEW guid \in Guids, OneKey(guid)',
                        NEW named \in {temp[guid], file[guid]} \ {NoInode},
                        content'[named] = Partial
                 PROVE  \E other \in Uploads : ops'[other].pc = "write" /\ ops'[other].inode = named
      BY <1>1 DEF PartsBecomeWhole, Writing, At
    <2>1. OneKey(guid)
      BY <1>2, OneKeyStays
    <2>2. named \in Uploads /\ Guid(named) = guid
      BY DEF IntakeInv, TypeOK, Inodes, OwnInodes
    <2>3. named # inode
      <3>1. CASE named = inode
        <4>1. OneKey(Guid(upload))
          BY <1>3, <2>1, <2>2, <3>1
        <4>2. result # Partial
          BY <1>3, <1>6, <4>1, IntakeAssumption
        <4>3. QED
          BY <1>5, <3>1, <4>2
      <3>2. QED
        BY <3>1
    <2>4. content[named] = Partial
      BY <1>5, <2>2, <2>3
    <2>5. PICK other \in Uploads : ops[other].pc = "write" /\ ops[other].inode = named
      BY <2>1, <2>4 DEF PartsBecomeWhole, Writing, At
    <2>6. other # upload
      BY <2>3, <2>5 DEF inode
    <2>7. ops'[other] = ops[other]
      BY <1>2, <2>6, GuidsStay
    <2>8. QED
      BY <2>5, <2>7
  <1>9. QED
    BY <1>7, <1>8

LEMMA RenameConverges ==
    ASSUME IntakeInv, OneContent, PartsBecomeWhole, NEW upload \in Uploads, Rename(upload)
    PROVE  (OneContent /\ PartsBecomeWhole)'
  <1>1. /\ ops[upload].pc = "rename" /\ content' = content
        /\ \E step \in {"remove", "audit"} : Goto(upload, step)
    BY DEF Rename, At
  <1>2. Moves(upload)
    BY <1>1, GotoMoves DEF IntakeInv, HandlerSteps
  <1>3. temp \in [Guids -> Inodes] /\ file \in [Guids -> Inodes]
    BY DEF IntakeInv, TypeOK
  <1>4. \/ UNCHANGED <<temp, file>>
        \/ /\ file' = [file EXCEPT ![Guid(upload)] = temp[Guid(upload)]]
           /\ temp' = [temp EXCEPT ![Guid(upload)] = NoInode]
    BY DEF Rename
  <1>5. \A guid \in Guids : /\ temp'[guid] \in {temp[guid], NoInode}
                           /\ file'[guid] \in {file[guid], temp[guid]}
    BY <1>3, <1>4
  <1>6. QED
    BY <1>1, <1>2, <1>5, ReadingConverges

LEMMA RemoveTempConverges ==
    ASSUME IntakeInv, OneContent, PartsBecomeWhole, NEW upload \in Uploads, RemoveTemp(upload)
    PROVE  (OneContent /\ PartsBecomeWhole)'
  <1>1. /\ ops[upload].pc = "remove" /\ content' = content /\ file' = file
        /\ Goto(upload, "done")
        /\ temp' = [temp EXCEPT ![Guid(upload)] = NoInode]
    BY DEF RemoveTemp, At
  <1>2. Moves(upload)
    BY <1>1, GotoMoves DEF IntakeInv
  <1>3. \A guid \in Guids : temp'[guid] \in {temp[guid], NoInode}
    BY <1>1 DEF IntakeInv, TypeOK
  <1>4. QED
    BY <1>1, <1>2, <1>3, ReadingConverges

LEMMA PipelineMoves ==
    ASSUME IntakeInv, NEW upload \in Uploads, PipelineStep(upload)
    PROVE  /\ Moves(upload) /\ ops[upload].pc # "write"
           /\ UNCHANGED <<temp, file, content>>
  <1>1. CASE CreatePending(upload)
    BY <1>1, GotoMoves DEF CreatePending, At, IntakeInv
  <1>2. CASE ResolveOwner(upload)
    <2>1. ops[upload] \in Ops
      BY DEF IntakeInv, TypeOK
    <2>2. CASE \E step \in {"create", "done"} : Goto(upload, step)
      BY <1>2, <2>2, GotoMoves DEF ResolveOwner, At, IntakeInv, PipelineSteps
    <2>3. CASE SignOver(upload)
      <3>1. ops' = [ops EXCEPT ![upload] = [ops[upload] EXCEPT !.pc = "create", !.owner = NextOwner]]
        BY <2>3 DEF SignOver
      <3>2. [ops[upload] EXCEPT !.pc = "create", !.owner = NextOwner] \in Ops
        BY <2>1 DEF Ops, PipelineSteps
      <3>3. Moves(upload)
        BY <2>1, <3>1, <3>2 DEF Moves, IntakeInv, TypeOK, Ops
      <3>4. QED
        BY <1>2, <3>3 DEF ResolveOwner, At
    <2>4. QED
      BY <1>2, <2>2, <2>3 DEF ResolveOwner, StaticOwner, DynamicOwner
  <1>3. QED
    BY <1>1, <1>2 DEF PipelineStep

LEMMA ProcessingConverges ==
    ASSUME IntakeInv, OneContent, PartsBecomeWhole, Processing
    PROVE  (OneContent /\ PartsBecomeWhole)'
  <1>1. ASSUME NEW upload \in Uploads, Moves(upload), ops[upload].pc # "write",
               UNCHANGED <<temp, file, content>>
        PROVE  (OneContent /\ PartsBecomeWhole)'
    BY <1>1, ReadingConverges
  <1>2. ASSUME NEW upload \in Uploads,
               Receive(upload) \/ Stat(upload) \/ Audit(upload) \/ Reply(upload)
        PROVE  (OneContent /\ PartsBecomeWhole)'
    <2>1. /\ \E step \in {"stat", "open", "done", "reply", "owner"} : Goto(upload, step)
          /\ ops[upload].pc # "write" /\ UNCHANGED <<temp, file, content>>
      BY <1>2 DEF Receive, Stat, Audit, Reply, At
    <2>2. Moves(upload)
      BY <2>1, GotoMoves DEF IntakeInv, HandlerSteps, PipelineSteps
    <2>3. QED
      BY <1>1, <2>1, <2>2
  <1>3. ASSUME NEW upload \in Uploads, PipelineStep(upload)
        PROVE  (OneContent /\ PartsBecomeWhole)'
    BY <1>1, <1>3, PipelineMoves
  <1>4. CASE DeleteDelivered
    <2>1. /\ UNCHANGED <<temp, content, ops>>
          /\ \A guid \in Guids : file'[guid] \in {file[guid], NoInode}
      BY <1>4 DEF DeleteDelivered, IntakeInv, TypeOK
    <2>2. QED
      BY <2>1 DEF OneContent, OneKey, PartsBecomeWhole, Writing, At, Guid
  <1>5. QED
    BY <1>2, <1>3, <1>4, OpenTempConverges, WriteTempConverges, RenameConverges, RemoveTempConverges
       DEF Processing, HandlerStep

LEMMA AlwaysConvergeInv == ObservedSpec => []ConvergeInv
  <1>1. ObservedInit => ConvergeInv
    <2> SUFFICES ASSUME ObservedInit PROVE ConvergeInv
      OBVIOUS
    <2>1. IntakeInv
      BY InitIntakeInv DEF ObservedInit
    <2>2. OneContent /\ PartsBecomeWhole
      BY DEF ObservedInit, Init, OneContent, PartsBecomeWhole
    <2>3. QED
      BY <2>1, <2>2 DEF ConvergeInv
  <1>2. ConvergeInv /\ [ObservedNext]_<<vars, disturbed>> => ConvergeInv'
    <2> SUFFICES ASSUME ConvergeInv, [ObservedNext]_<<vars, disturbed>> PROVE ConvergeInv'
      OBVIOUS
    <2>1. [Next]_vars
      BY DEF ObservedNext, Processing, Disturbance, Next
    <2>2. IntakeInv'
      BY <2>1, NextIntakeInv DEF ConvergeInv
    <2>3. CASE Processing /\ UNCHANGED disturbed
      BY <2>2, <2>3, ProcessingConverges DEF ConvergeInv
    <2>4. CASE disturbed' = TRUE
      BY <2>2, <2>4 DEF ConvergeInv
    <2>5. CASE UNCHANGED <<vars, disturbed>>
      BY <2>2, <2>5 DEF ConvergeInv, vars, OneContent, OneKey, PartsBecomeWhole, Writing, At, Guid
    <2>6. QED
      BY <2>3, <2>4, <2>5 DEF ObservedNext
  <1>3. QED
    BY <1>1, <1>2, PTL DEF ObservedSpec

\* Although saveVoucher gives all uploads of a GUID one temporary file, any number
\* of overlapping retransmissions leaves a whole voucher, when nothing fails.
THEOREM RetransmissionsLeaveWhole == ObservedSpec => []RetransmissionsConverge
  <1>1. ConvergeInv => RetransmissionsConverge
    <2> SUFFICES ASSUME ConvergeInv, ~ disturbed, NEW guid \in Guids,
                        \A upload \in Uploads : Guid(upload) = guid => Settled(upload),
                        OneKey(guid)
                 PROVE  Whole(guid)
      BY DEF RetransmissionsConverge, OneKey
    <2> SUFFICES ASSUME file[guid] # NoInode, content[file[guid]] = Partial PROVE FALSE
      BY DEF Whole
    <2>1. PICK upload \in Uploads : ops[upload].pc = "write" /\ ops[upload].inode = file[guid]
      BY DEF ConvergeInv, PartsBecomeWhole, Writing, At
    <2>2. Guid(upload) = guid
      BY <2>1 DEF ConvergeInv, IntakeInv, OwnInodes
    <2>3. QED
      BY <2>1, <2>2 DEF Settled
  <1>2. QED
    BY <1>1, AlwaysConvergeInv, PTL
===============================================================================
