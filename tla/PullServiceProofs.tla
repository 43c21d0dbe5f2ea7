---------------------------- MODULE PullServiceProofs ----------------------------
(***************************************************************************)
(* Proofs about PullService: what a pull lists, what it may download, and  *)
(* what a customer has after pulls that each start where the last began.   *)
(***************************************************************************)
EXTENDS PullService, OwnerKeyProofs, FiniteSetTheorems, WellFoundedInduction

-------------------------------------------------------------------------------
(***************************************************************************)
(* ORDER BY created_at DESC LIMIT n.                                       *)
(***************************************************************************)

\* The rows of a query are a finite set.
LEMMA FiniteRows ==
    ASSUME NEW n \in Nat, NEW ids \in SUBSET (1..n)
    PROVE  IsFiniteSet(ids) /\ Cardinality(ids) \in Nat
<1>1. IsFiniteSet(1..n)
  BY FS_Interval
<1>2. IsFiniteSet(ids)
  BY <1>1, FS_Subset
<1> QED  BY <1>2, FS_CardinalityType

\* A row that exists is the newest one for some set of rows.
LEMMA LargestExists ==
    ASSUME NEW n \in Nat, NEW T \in SUBSET (1..n), T # {}
    PROVE  \E x \in T : \A y \in T : y <= x
<1> DEFINE Above(y) == {z \in T : z > y}
           Sets == {Above(y) : y \in T}
           R == StrictSubsetOrdering(1..n)
<1>1. Sets \subseteq FiniteSubsetsOf(1..n) /\ Sets # {}
  <2>1. \A S \in SUBSET (1..n) : IsFiniteSet(S)
    BY FiniteRows
  <2> QED  BY <2>1 DEF FiniteSubsetsOf
<1>2. PICK least \in Sets : \A other \in Sets : ~ (<<other, least>> \in R)
  <2>1. IsWellFoundedOn(R, FiniteSubsetsOf(1..n))
    BY FS_StrictSubsetOrderingWellFounded
  <2> HIDE DEF Sets, R
  <2> QED  BY <1>1, <2>1, WFMin
<1>3. PICK x \in T : least = Above(x)
  OBVIOUS
<1>4. ASSUME NEW y \in T, y > x PROVE FALSE
  <2>1. Above(y) \subseteq Above(x) /\ Above(y) # Above(x)
    <3>1. y \in Above(x) /\ y \notin Above(y)
      BY <1>4
    <3>2. ASSUME NEW z \in T, z > y PROVE z > x
      <4>1. x \in Int /\ y \in Int /\ z \in Int
        OBVIOUS
      <4> HIDE DEF Above, Sets, R
      <4> QED  BY <1>4, <3>2, <4>1
    <3>3. Above(y) \subseteq Above(x)
      BY <3>2
    <3> QED  BY <3>1, <3>3
  <2>2. Above(y) \in SUBSET (1..n) /\ Above(x) \in SUBSET (1..n)
    OBVIOUS
  <2>3. <<Above(y), Above(x)>> \in R
    BY <2>1, <2>2 DEF StrictSubsetOrdering
  <2> QED  BY <1>2, <1>3, <2>3
<1> QED  BY <1>4

\* Rows that are cut off have a full page of newer rows before them.
LEMMA CutOffBehindAFullPage ==
    ASSUME NEW n \in Nat, NEW ids \in SUBSET (1..n), NEW limit \in Nat,
           NEW x \in ids, x \notin Newest(ids, limit)
    PROVE  \E page \in SUBSET Newest(ids, limit) :
              /\ \A id \in page : id > x
              /\ Cardinality(page) >= limit
<1> DEFINE Above(id) == {other \in ids : other > id}
           T == {id \in ids : id \notin Newest(ids, limit)}
<1>1. PICK m \in T : \A y \in T : y <= m
  <2>1. T \in SUBSET (1..n) /\ T # {}
    OBVIOUS
  <2> HIDE DEF T
  <2> QED  BY <2>1, LargestExists
<1>2. Above(m) \subseteq Newest(ids, limit)
  <2> SUFFICES ASSUME NEW id \in Above(m), id \notin Newest(ids, limit) PROVE FALSE
    OBVIOUS
  <2>1. id \in T /\ id \in Nat /\ m \in Nat
    OBVIOUS
  <2> QED  BY <1>1, <2>1
<1>3. Cardinality(Above(m)) >= limit
  <2>1. Cardinality(Above(m)) \in Nat
    BY FiniteRows
  <2> QED  BY <2>1 DEF Newest
<1>4. m >= x
  BY <1>1
<1>5. \A id \in Above(m) : id > x
  BY <1>4
<1> QED  BY <1>2, <1>3, <1>5

\* A list that fits on the page is on the page.
LEMMA FittingListIsWhole ==
    ASSUME NEW n \in Nat, NEW ids \in SUBSET (1..n), NEW limit \in Nat,
           Cardinality(ids) <= limit
    PROVE  Newest(ids, limit) = ids
<1> SUFFICES ASSUME NEW x \in ids PROVE x \in Newest(ids, limit)
  BY DEF Newest
<1> DEFINE above == {other \in ids : other > x}
<1>1. /\ IsFiniteSet(ids) /\ Cardinality(ids) \in Nat
      /\ above \in SUBSET ids /\ above # ids
  <2>1. x \in ids /\ x \notin above
    OBVIOUS
  <2>2. above \in SUBSET ids
    OBVIOUS
  <2> QED  BY FiniteRows, <2>1, <2>2
<1>2. Cardinality(above) \in Nat /\ Cardinality(above) < Cardinality(ids)
  <2> HIDE DEF above
  <2>1. IsFiniteSet(above) /\ Cardinality(above) <= Cardinality(ids)
        /\ Cardinality(above) # Cardinality(ids)
    BY <1>1, FS_Subset
  <2>2. Cardinality(above) \in Nat
    BY <2>1, FS_CardinalityType
  <2> QED  BY <1>1, <2>1, <2>2
<1>3. Cardinality(above) < limit
  BY <1>1, <1>2
<1> QED  BY <1>3 DEF Newest

-------------------------------------------------------------------------------
(***************************************************************************)
(* The queries of the pull service.                                        *)
(***************************************************************************)
LEMMA VisibleRows ==
    ASSUME TypeOK
    PROVE  /\ Len(rows) \in Nat /\ Len(rows) <= MaxRows
           /\ DOMAIN rows = 1..Len(rows)
           /\ Visible \in SUBSET (1..Len(rows))
           /\ \A id \in DOMAIN rows : /\ id \in Nat /\ 0 < id /\ id < NoUntil
                                      /\ rows[id] \in Rows
<1>1. rows \in Seq(Rows) /\ Len(rows) <= MaxRows /\ MaxRows \in Nat
  BY PullAssumption DEF TypeOK
<1>2. Len(rows) \in Nat /\ DOMAIN rows = 1..Len(rows)
  BY <1>1
<1>3. \A id \in DOMAIN rows : rows[id] \in Rows
  BY <1>1
<1>4. \A id \in DOMAIN rows : id \in Nat /\ 0 < id /\ id < NoUntil
  BY <1>1, <1>2 DEF NoUntil
<1> QED  BY <1>1, <1>2, <1>3, <1>4 DEF Visible

\* What a customer has access to.
HasAccess(guid, who) ==
    \E id \in Visible :
        rows[id].guid = guid /\ (rows[id].owner = who \/ who \in grants[guid])

LEMMA DownloadIsAccess ==
    ASSUME TypeOK, NEW who \in Customers, NEW guid \in Guids
    PROVE  MayDownload(guid, who) <=> HasAccess(guid, who)
BY DEF MayDownload, HasAccess, LatestIsOwned, HasAccessByGUID, RowsOf, Newest

LEMMA StatusIsAccess ==
    ASSUME TypeOK, NEW who \in Customers, NEW guid \in Guids
    PROVE  MayQueryStatus(guid, who) <=> HasAccess(guid, who)
BY DEF MayQueryStatus, HasAccess, LatestIsOwned, HasAccessByGUID, RowsOf, Newest

LEMMA ListIsAccess ==
    ASSUME TypeOK, NEW who \in Customers, NEW guid \in Guids
    PROVE  guid \in VouchersFor(who, 0) <=> HasAccess(guid, who)
<1>1. \A id \in Visible : id >= 0
  BY VisibleRows DEF Visible
<1> QED  BY <1>1 DEF VouchersFor, Accessible, HasAccess

\* The four views of a customer's access agree (voucher_transmission_store.go,
\* voucher_pull_store.go, voucher_status_handler.go).
LEMMA ViewsAgree == TypeOK => AccessViewsAgree
BY DownloadIsAccess, StatusIsAccess, ListIsAccess DEF AccessViewsAgree

\* A page lists vouchers of rows in the time window, and says so if it is the last.
LEMMA LastPage ==
    ASSUME TypeOK, NEW who \in Customers, NEW limit \in PageSizes, NEW since \in Times,
           ~ List(who, limit, since, NoUntil).hasMore
    PROVE  VouchersFor(who, since) \subseteq List(who, limit, since, NoUntil).vouchers
<1> DEFINE n == Len(rows)
           all == Accessible(who)
           fetched == Newest(all, limit + 1)
           filtered == {id \in fetched : since <= id /\ id <= NoUntil}
<1>0. /\ limit \in Nat /\ since \in Nat /\ NoUntil \in Nat
      /\ n \in Nat /\ all \in SUBSET (1..n)
      /\ \A id \in all : id \in Nat /\ id <= NoUntil
  BY PullAssumption, VisibleRows DEF Times, NoUntil, Accessible, Visible
<1>1. /\ List(who, limit, since, NoUntil).vouchers = {rows[id].guid : id \in Newest(filtered, limit)}
      /\ List(who, limit, since, NoUntil).hasMore = (Cardinality(filtered) > limit)
  BY DEF List, ListByAccessGrant
<1>h. ~ (Cardinality(filtered) > limit)
  BY <1>1
<1> HIDE DEF n, all
<1>2. fetched \in SUBSET all /\ filtered \in SUBSET (1..n)
  BY <1>0 DEF Newest
<1>3. Cardinality(filtered) \in Nat /\ Cardinality(filtered) <= limit
  <2> HIDE DEF filtered
  <2>1. Cardinality(filtered) \in Nat
    BY <1>0, <1>2, FiniteRows
  <2> QED  BY <1>0, <1>h, <2>1
<1>4. ASSUME NEW id \in all, id >= since PROVE id \in filtered
  <2>1. CASE id \in fetched
    BY <1>0, <1>4, <2>1
  <2>2. CASE id \notin fetched
    <3>1. PICK page \in SUBSET fetched :
              (\A one \in page : one > id) /\ Cardinality(page) >= limit + 1
      <4>1. limit + 1 \in Nat /\ id \notin Newest(all, limit + 1)
        BY <1>0, <2>2
      <4> QED  BY <1>0, <1>4, <4>1, CutOffBehindAFullPage
    <3>2. page \subseteq filtered
      <4>1. \A one \in page : one \in all /\ one \in fetched /\ one > id
        BY <1>2, <3>1
      <4>2. ASSUME NEW one \in page PROVE since <= one /\ one <= NoUntil
        <5>1. one \in Nat /\ id \in Nat /\ one > id /\ one <= NoUntil /\ since \in Nat
          BY <1>0, <4>1
        <5> HIDE DEF fetched, filtered
        <5> QED  BY <1>4, <5>1
      <4> QED  BY <4>1, <4>2
    <3>3. Cardinality(page) <= Cardinality(filtered)
      <4> HIDE DEF filtered
      <4>1. IsFiniteSet(filtered)
        BY <1>0, <1>2, FiniteRows
      <4> QED  BY <3>2, <4>1, FS_Subset
    <3>4. Cardinality(page) \in Nat /\ Cardinality(filtered) \in Nat
      <4>1. page \in SUBSET (1..n)
        BY <1>2, <3>2
      <4> HIDE DEF filtered
      <4> QED  BY <1>0, <1>2, <4>1, FiniteRows
    <3> QED  BY <1>0, <1>3, <3>1, <3>3, <3>4
  <2> QED  BY <2>1, <2>2
<1>5. Newest(filtered, limit) = filtered
  <2> HIDE DEF filtered
  <2> QED  BY <1>0, <1>2, <1>3, FittingListIsWhole
<1> QED  BY <1>1, <1>4, <1>5 DEF VouchersFor, all

-------------------------------------------------------------------------------
(***************************************************************************)
(* Every step of the pull service is a step of the owner key or leaves it  *)
(* alone, so that what is proved of the key holds of the pull service.     *)
(***************************************************************************)
LEMMA KeyStep == [Next]_vars => [OwnerKeyNext]_keyVars
<1> SUFFICES ASSUME [Next]_vars PROVE [OwnerKeyNext]_keyVars
  OBVIOUS
<1>1. ASSUME NEW who \in Customers, Authenticate(who) \/ PullStep(who) PROVE UNCHANGED keyVars
  BY <1>1 DEF Authenticate, PullStep, ListFails, ListPage, FetchLatest, CheckGrants, LoadFile,
              RequestFails, Finish
<1>2. CASE \/ Arrive \/ Insert \/ InsertFails \/ Grant \/ Revoke
           \/ Rewrite \/ Rewritten \/ RemoveFile \/ Expire
  BY <1>2 DEF Arrive, Insert, InsertFails, Grant, Revoke, Rewrite, Rewritten, RemoveFile, Expire
<1>3. CASE ServerStep \/ StopServing
  BY <1>3 DEF ServerStep, StopServing, OwnerKeyNext
<1>4. CASE UNCHANGED vars
  BY <1>4 DEF vars
<1> QED  BY <1>1, <1>2, <1>3, <1>4 DEF Next

LEMMA KeyInvKept == KeyInv /\ [Next]_vars => KeyInv'
BY KeyStep, KeyInvStep

-------------------------------------------------------------------------------
(***************************************************************************)
(* Types.                                                                  *)
(***************************************************************************)
PullOK(pull) ==
    /\ pull \in Pulls
    /\ pull.got \cup pull.missed \cup pull.current \subseteq pull.listed
    /\ pull.got \cap pull.missed = {}
    /\ pull.current \cap (pull.got \cup pull.missed) = {}

PullsOK == pulls \in [Customers -> Pulls] /\ \A who \in Customers : PullOK(pulls[who])

LEMMA PullsAreOK == TypeOK => PullsOK
BY DEF TypeOK, PullsOK, PullOK

LEMMA BecomesOK ==
    ASSUME PullsOK, NEW who \in Customers, NEW pull, PullOK(pull), Becomes(who, pull)
    PROVE  PullsOK'
BY DEF PullsOK, PullOK, Becomes

\* What happens meanwhile leaves the options and the list of the commands alone;
\* only a stop of the server takes a download back to its beginning.
CommandKept(who) ==
    /\ \/ pulls'[who].pc = pulls[who].pc
       \/ {pulls[who].pc, pulls'[who].pc} \subseteq Downloading
    /\ pulls'[who].limit = pulls[who].limit
    /\ pulls'[who].since = pulls[who].since
    /\ pulls'[who].until = pulls[who].until
    /\ pulls'[who].listed = pulls[who].listed
    /\ pulls'[who].began = pulls[who].began
    /\ pulls'[who].mark = pulls[who].mark
    /\ pulls'[who].have = pulls[who].have

LEMMA OneFieldSet ==
    ASSUME NEW pull \in Pulls, NEW value
    PROVE  LET next == [pull EXCEPT !.disturbed = value] IN
           /\ next.disturbed = value /\ next.late = pull.late
           /\ next.pc = pull.pc /\ next.limit = pull.limit
           /\ next.since = pull.since /\ next.until = pull.until
           /\ next.listed = pull.listed /\ next.missed = pull.missed
           /\ next.began = pull.began /\ next.mark = pull.mark /\ next.have = pull.have
BY DEF Pulls

LEMMA DisturbedPulls ==
    ASSUME PullsOK, NEW some, NEW guids \in SUBSET Guids, DisturbPulls(some, guids)
    PROVE  /\ PullsOK'
           /\ \A who \in Customers :
                 /\ CommandKept(who)
                 /\ pulls'[who].pc = pulls[who].pc
                 /\ pulls'[who].late = pulls[who].late
                 /\ pulls'[who].missed = pulls[who].missed
                 /\ pulls'[who].disturbed = IF who \in some /\ Active(who)
                                              THEN pulls[who].disturbed \cup guids
                                              ELSE pulls[who].disturbed
<1>1. \A who \in Customers : pulls'[who] =
        [pulls[who] EXCEPT !.disturbed =
            IF who \in some /\ Active(who) THEN pulls[who].disturbed \cup guids
                                            ELSE pulls[who].disturbed]
  BY DEF DisturbPulls
<1>2. pulls' = [who \in Customers |-> pulls'[who]]
  BY DEF DisturbPulls
<1>3. ASSUME NEW who \in Customers PROVE PullOK(pulls'[who])
  <2>1. PICK b \in SUBSET Guids : pulls'[who] = [pulls[who] EXCEPT !.disturbed = b]
    <3>1. pulls[who].disturbed \in SUBSET Guids
      BY DEF PullsOK, PullOK, Pulls
    <3>2. pulls[who].disturbed \cup guids \in SUBSET Guids
      BY <3>1
    <3> QED  BY <1>1, <3>1, <3>2
  <2> QED  BY <2>1 DEF PullsOK, PullOK, Pulls
<1>4. PullsOK'
  BY <1>2, <1>3 DEF PullsOK, PullOK
<1>5. ASSUME NEW who \in Customers
      PROVE  /\ CommandKept(who)
             /\ pulls'[who].pc = pulls[who].pc
             /\ pulls'[who].late = pulls[who].late
             /\ pulls'[who].missed = pulls[who].missed
             /\ pulls'[who].disturbed = IF who \in some /\ Active(who)
                                          THEN pulls[who].disturbed \cup guids
                                          ELSE pulls[who].disturbed
  <2>1. pulls[who] \in Pulls
    BY DEF PullsOK
  <2>2. PICK disturbed : /\ pulls'[who] = [pulls[who] EXCEPT !.disturbed = disturbed]
                         /\ disturbed = IF who \in some /\ Active(who)
                                          THEN pulls[who].disturbed \cup guids
                                          ELSE pulls[who].disturbed
    BY <1>1
  <2> QED  BY <2>1, <2>2, OneFieldSet DEF CommandKept
<1> QED  BY <1>4, <1>5

LEMMA InterruptedPulls ==
    ASSUME PullsOK, StopServing
    PROVE  /\ PullsOK'
           /\ \A who \in Customers :
                 /\ CommandKept(who)
                 /\ pulls'[who].late = pulls[who].late
                 /\ pulls[who].pc = "list" => pulls'[who].pc = "list"
                 /\ IF Active(who)
                      THEN pulls'[who].disturbed = Guids
                      ELSE pulls'[who] = pulls[who]
<1>1. /\ pulls' = [who \in Customers |-> pulls'[who]]
      /\ \A who \in Customers : pulls'[who] = Interrupted(pulls[who])
  BY DEF StopServing
<1>2. ASSUME NEW who \in Customers
      PROVE  /\ PullOK(pulls'[who])
             /\ CommandKept(who)
             /\ pulls'[who].late = pulls[who].late
             /\ pulls[who].pc = "list" => pulls'[who].pc = "list"
             /\ IF Active(who)
                  THEN pulls'[who].disturbed = Guids
                  ELSE pulls'[who] = pulls[who]
  <2> DEFINE pull == pulls[who]
             next == [pull EXCEPT !.pc = IF pull.pc = "list" THEN "list" ELSE "download",
                                  !.missed = pull.missed \cup pull.current, !.current = {},
                                  !.disturbed = Guids]
  <2>1. pull \in Pulls /\ PullOK(pull)
    BY DEF PullsOK, PullOK
  <2>2. CASE pull.pc = "idle"
    BY <1>1, <2>1, <2>2 DEF Interrupted, CommandKept, Active
  <2>3. CASE pull.pc # "idle"
    <3>1. pulls'[who] = next
      BY <1>1, <2>3 DEF Interrupted
    <3>2. next \in Pulls
      BY <2>1 DEF Pulls, Downloading
    <3>3. /\ next.pc = IF pull.pc = "list" THEN "list" ELSE "download"
          /\ next.missed = pull.missed \cup pull.current /\ next.current = {}
          /\ next.disturbed = Guids /\ next.got = pull.got /\ next.listed = pull.listed
      BY <2>1 DEF Pulls
    <3>4. /\ next.limit = pull.limit /\ next.since = pull.since /\ next.until = pull.until
          /\ next.began = pull.began /\ next.mark = pull.mark /\ next.have = pull.have
          /\ next.late = pull.late
      BY <2>1 DEF Pulls
    <3> HIDE DEF next
    <3>5. PullOK(next)
      BY <2>1, <3>2, <3>3 DEF PullOK
    <3>6. pull.pc = "list" \/ pull.pc \in Downloading
      BY <2>1, <2>3 DEF Pulls
    <3>7. CommandKept(who)
      BY <3>1, <3>3, <3>4, <3>6 DEF CommandKept, Downloading
    <3> QED  BY <2>3, <3>1, <3>3, <3>4, <3>5, <3>7 DEF Active
  <2> QED  BY <2>2, <2>3
<1>3. PullsOK'
  BY <1>1, <1>2 DEF PullsOK, PullOK
<1> QED  BY <1>2, <1>3

LEMMA OvertakenPulls ==
    ASSUME PullsOK, NEW some, NEW guid \in Guids, NEW ids, Overtaken(guid, ids, some)
    PROVE  /\ PullsOK'
           /\ \A who \in Customers :
                 /\ CommandKept(who)
                 /\ pulls'[who].pc = pulls[who].pc
                 /\ pulls'[who].missed = pulls[who].missed
                 /\ pulls'[who].disturbed = pulls[who].disturbed
                 /\ pulls[who].late \subseteq pulls'[who].late
                 /\ who \in some /\ (\A id \in ids : id < pulls[who].began)
                      => guid \in pulls'[who].late
<1>1. \A who \in Customers : pulls'[who] =
        [pulls[who] EXCEPT !.late =
            IF who \in some /\ \A id \in ids : id < pulls[who].began
              THEN pulls[who].late \cup {guid} ELSE pulls[who].late]
  BY DEF Overtaken
<1>2. pulls' = [who \in Customers |-> pulls'[who]]
  BY DEF Overtaken
<1>3. ASSUME NEW who \in Customers PROVE PullOK(pulls'[who])
  <2>1. PICK late \in SUBSET Guids : pulls'[who] = [pulls[who] EXCEPT !.late = late]
    <3>1. pulls[who].late \in SUBSET Guids /\ pulls[who].late \cup {guid} \in SUBSET Guids
      BY DEF PullsOK, PullOK, Pulls
    <3> QED  BY <1>1, <3>1
  <2> QED  BY <2>1 DEF PullsOK, PullOK, Pulls
<1>4. PullsOK'
  BY <1>2, <1>3 DEF PullsOK, PullOK
<1>5. ASSUME NEW who \in Customers
      PROVE  /\ CommandKept(who)
             /\ pulls'[who].pc = pulls[who].pc
             /\ pulls'[who].missed = pulls[who].missed
             /\ pulls'[who].disturbed = pulls[who].disturbed
             /\ pulls[who].late \subseteq pulls'[who].late
             /\ who \in some /\ (\A id \in ids : id < pulls[who].began)
                  => guid \in pulls'[who].late
  <2>1. pulls[who] \in Pulls
    BY DEF PullsOK
  <2> DEFINE late == IF who \in some /\ \A id \in ids : id < pulls[who].began
                       THEN pulls[who].late \cup {guid} ELSE pulls[who].late
  <2>2. /\ pulls[who].late \subseteq late
        /\ who \in some /\ (\A id \in ids : id < pulls[who].began) => guid \in late
    OBVIOUS
  <2> DEFINE next == [pulls[who] EXCEPT !.late = late]
  <2>3. next.late = late
    BY <2>1 DEF Pulls
  <2>4. /\ next.pc = pulls[who].pc /\ next.limit = pulls[who].limit
        /\ next.since = pulls[who].since /\ next.until = pulls[who].until
        /\ next.listed = pulls[who].listed /\ next.missed = pulls[who].missed
        /\ next.began = pulls[who].began /\ next.mark = pulls[who].mark
        /\ next.have = pulls[who].have /\ next.disturbed = pulls[who].disturbed
    BY <2>1 DEF Pulls
  <2>5. pulls'[who] = next
    BY <1>1
  <2> HIDE DEF next, late
  <2>6. /\ CommandKept(who) /\ pulls'[who].disturbed = pulls[who].disturbed
        /\ pulls'[who].pc = pulls[who].pc /\ pulls'[who].missed = pulls[who].missed
    BY <2>4, <2>5 DEF CommandKept
  <2>7. pulls'[who].late = late
    BY <2>3, <2>5
  <2> QED  BY <2>2, <2>6, <2>7
<1> QED  BY <1>4, <1>5

LEMMA ListedIsKnown ==
    ASSUME TypeOK, NEW who \in Customers, NEW limit, NEW since, NEW until
    PROVE  List(who, limit, since, until).vouchers \subseteq Guids
<1>1. \A id \in Visible : rows[id].guid \in Guids
  BY VisibleRows DEF Visible, Rows
<1> QED  BY <1>1 DEF List, ListByAccessGrant, Newest, Accessible

LEMMA TimesAreKnown ==
    ASSUME TypeOK
    PROVE  Len(rows) + 1 \in Times /\ 0 \in Times
BY VisibleRows, PullAssumption DEF Times

\* The steps of a pull command.
LEMMA CommandTypeStep ==
    ASSUME TypeOK, NEW who \in Customers, Authenticate(who) \/ PullStep(who)
    PROVE  PullsOK' /\ sessions' \subseteq Customers /\ UNCHANGED <<keyVars, dataVars>>
<1> DEFINE pull == pulls[who]
<1>0. PullsOK /\ PullOK(pull) /\ sessions \subseteq Customers
  BY PullsAreOK DEF PullsOK, TypeOK
<1>1. CASE Authenticate(who)
  <2>1. PICK limit \in PageSizes, until \in Untils, since \in {0, pull.mark} :
           Becomes(who, [pull EXCEPT !.pc = "list", !.limit = limit, !.since = since,
                                     !.until = until, !.began = Len(rows) + 1])
    BY <1>0, <1>1 DEF Authenticate, Becomes, PullsOK
  <2>2. since \in Times /\ until \in Times
    BY <1>0, TimesAreKnown, PullAssumption DEF PullOK, Pulls, Times
  <2>3. PullOK([pull EXCEPT !.pc = "list", !.limit = limit, !.since = since,
                            !.until = until, !.began = Len(rows) + 1])
    BY <1>0, <2>2, TimesAreKnown DEF PullOK, Pulls
  <2>4. PullsOK'
    BY <1>0, <2>1, <2>3, BecomesOK
  <2> QED  BY <1>0, <1>1, <2>4 DEF Authenticate
<1>2. CASE ListFails(who)
  <2>1. Becomes(who, Forget(pull)) /\ PullOK(Forget(pull))
    BY <1>0, <1>2, TimesAreKnown DEF ListFails, Becomes, Forget, PullOK, Pulls, PullsOK
  <2> QED  BY <1>0, <1>2, <2>1, BecomesOK DEF ListFails
<1>3. CASE ListPage(who)
  <2> DEFINE page == List(who, pull.limit, pull.since, pull.until)
             next == [pull EXCEPT
                        !.pc = IF page.hasMore THEN "list" ELSE "download",
                        !.listed = pull.listed \cup page.vouchers,
                        !.late = IF page.hasMore \/ pull.since > 0 \/ pull.until # NoUntil
                                   THEN pull.late ELSE {},
                        !.disturbed = pull.disturbed \cup (page.vouchers \ (stored \ torn))]
  <2>1. Becomes(who, next)
    BY <1>0, <1>3 DEF ListPage, Becomes, PullsOK
  <2>2. page.vouchers \subseteq Guids
    BY ListedIsKnown
  <2> HIDE DEF page
  <2>3. PullOK(next)
    <3>1. pull \in Pulls
      BY <1>0 DEF PullOK
    <3>2. next \in Pulls
      BY <3>1, <2>2 DEF Pulls, Downloading
    <3>3. /\ next.listed = pull.listed \cup page.vouchers
          /\ next.got = pull.got /\ next.missed = pull.missed /\ next.current = pull.current
      BY <3>1 DEF Pulls
    <3> HIDE DEF next
    <3> QED  BY <1>0, <3>2, <3>3 DEF PullOK
  <2>4. PullsOK'
    BY <1>0, <2>1, <2>3, BecomesOK
  <2> QED  BY <1>0, <1>3, <2>4 DEF ListPage
<1>4. ASSUME NEW guid \in pull.listed, Miss(who, guid), guid \notin pull.got PROVE PullsOK'
  <2> DEFINE next == [pull EXCEPT !.missed = pull.missed \cup {guid},
                                  !.current = {}, !.pc = "download"]
  <2>1. Becomes(who, next)
    BY <1>4 DEF Miss
  <2>2. pull \in Pulls /\ guid \in Guids
    BY <1>0 DEF PullOK, Pulls
  <2>3. next \in Pulls
    BY <2>2 DEF Pulls, Downloading
  <2>4. /\ next.missed = pull.missed \cup {guid} /\ next.current = {}
        /\ next.got = pull.got /\ next.listed = pull.listed
    BY <2>2 DEF Pulls
  <2> HIDE DEF next
  <2>5. PullOK(next)
    BY <1>0, <1>4, <2>3, <2>4 DEF PullOK
  <2> QED  BY <1>0, <2>1, <2>5, BecomesOK
<1>5. CASE FetchLatest(who)
  <2>1. PICK guid \in pull.listed \ (pull.got \cup pull.missed), step \in Downloading :
           \/ Becomes(who, [pull EXCEPT !.current = {guid}, !.pc = step])
           \/ Miss(who, guid)
    BY <1>5 DEF FetchLatest, Downloading
  <2>2. ASSUME Becomes(who, [pull EXCEPT !.current = {guid}, !.pc = step]) PROVE PullsOK'
    <3> DEFINE next == [pull EXCEPT !.current = {guid}, !.pc = step]
    <3>1. pull \in Pulls /\ guid \in Guids
      BY <1>0, <2>1 DEF PullOK, Pulls
    <3>2. next \in Pulls
      BY <3>1 DEF Pulls
    <3>3. /\ next.current = {guid} /\ next.missed = pull.missed
          /\ next.got = pull.got /\ next.listed = pull.listed
      BY <3>1 DEF Pulls
    <3>4. Becomes(who, next)
      BY <2>2
    <3> HIDE DEF next
    <3>5. PullOK(next)
      BY <1>0, <2>1, <3>2, <3>3 DEF PullOK
    <3> QED  BY <1>0, <3>4, <3>5, BecomesOK
  <2>3. PullsOK'
    BY <1>4, <2>1, <2>2
  <2> QED  BY <1>0, <1>5, <2>3 DEF FetchLatest
<1>8. CASE CheckGrants(who)
  <2>1. PICK guid \in pull.current :
           Becomes(who, [pull EXCEPT !.pc = "load"]) \/ Miss(who, guid)
    BY <1>8 DEF CheckGrants
  <2>2. guid \in pull.listed /\ guid \notin pull.got
    BY <1>0 DEF PullOK
  <2>3. PullOK([pull EXCEPT !.pc = "load"])
    BY <1>0 DEF PullOK, Pulls, Downloading
  <2>4. PullsOK'
    BY <1>0, <1>4, <2>1, <2>2, <2>3, BecomesOK
  <2> QED  BY <1>0, <1>8, <2>4 DEF CheckGrants
<1>9. CASE RequestFails(who)
  <2> DEFINE Onward(guid) == [pull EXCEPT !.missed = pull.missed \cup {guid}, !.current = {},
                                          !.pc = "download",
                                          !.disturbed = pull.disturbed \cup {guid}]
  <2>1. PICK guid \in (pull.listed \ (pull.got \cup pull.missed)) \cup pull.current :
           Becomes(who, Onward(guid))
    BY <1>9 DEF RequestFails
  <2>2. pull \in Pulls /\ guid \in Guids /\ guid \in pull.listed /\ guid \notin pull.got
    BY <1>0, <2>1 DEF PullOK, Pulls
  <2>3. Onward(guid) \in Pulls
    BY <2>2 DEF Pulls, Downloading
  <2>4. /\ Onward(guid).missed = pull.missed \cup {guid} /\ Onward(guid).current = {}
        /\ Onward(guid).got = pull.got /\ Onward(guid).listed = pull.listed
    BY <2>2 DEF Pulls
  <2> HIDE DEF Onward
  <2>5. PullOK(Onward(guid))
    BY <1>0, <2>2, <2>3, <2>4 DEF PullOK
  <2>6. PullsOK'
    BY <1>0, <2>1, <2>5, BecomesOK
  <2> QED  BY <1>0, <1>9, <2>6 DEF RequestFails
<1>6. CASE LoadFile(who)
  <2>1. PICK guid \in pull.current :
           IF guid \in stored \ torn
             THEN Becomes(who, [pull EXCEPT !.got = pull.got \cup {guid},
                                            !.current = {}, !.pc = "download"])
             ELSE Miss(who, guid)
    BY <1>6 DEF LoadFile
  <2>2. guid \in pull.listed /\ guid \notin pull.got /\ guid \notin pull.missed
    BY <1>0 DEF PullOK
  <2>3. ASSUME guid \in stored \ torn PROVE PullsOK'
    <3> DEFINE next == [pull EXCEPT !.got = pull.got \cup {guid},
                                    !.current = {}, !.pc = "download"]
    <3>1. pull \in Pulls /\ guid \in Guids
      BY <1>0, <2>2 DEF PullOK, Pulls
    <3>2. next \in Pulls
      BY <3>1 DEF Pulls, Downloading
    <3>3. /\ next.got = pull.got \cup {guid} /\ next.current = {}
          /\ next.missed = pull.missed /\ next.listed = pull.listed
      BY <3>1 DEF Pulls
    <3>4. Becomes(who, next)
      BY <2>1, <2>3
    <3> HIDE DEF next
    <3>5. PullOK(next)
      BY <1>0, <2>2, <3>2, <3>3 DEF PullOK
    <3> QED  BY <1>0, <3>4, <3>5, BecomesOK
  <2>4. PullsOK'
    BY <1>4, <2>1, <2>2, <2>3
  <2> QED  BY <1>0, <1>6, <2>4 DEF LoadFile
<1>7. CASE Finish(who)
  <2> DEFINE next == [Forget(pull) EXCEPT
                        !.mark = IF pull.until = NoUntil THEN pull.began ELSE pull.mark,
                        !.have = pull.have \cup pull.listed]
  <2>1. Becomes(who, next)
    BY <1>7 DEF Finish
  <2>2. pull \in Pulls
    BY <1>0 DEF PullOK
  <2>3. next \in Pulls
    BY <2>2, TimesAreKnown DEF Pulls, Forget
  <2>4. next.got = {} /\ next.missed = {} /\ next.current = {} /\ next.listed = {}
    BY <2>2 DEF Pulls, Forget
  <2> HIDE DEF next
  <2>5. PullsOK'
    BY <1>0, <2>1, <2>3, <2>4, BecomesOK DEF PullOK
  <2> QED  BY <1>0, <1>7, <2>5 DEF Finish
<1> QED  BY <1>1, <1>2, <1>3, <1>5, <1>6, <1>7, <1>8, <1>9 DEF PullStep

\* The data the pull service reads.
DataOK ==
    /\ rows \in Seq(Rows) /\ Len(rows) <= MaxRows
    /\ grants \in [Guids -> SUBSET Customers]
    /\ stored \subseteq Guids /\ torn \subseteq stored
    /\ sessions \subseteq Customers

LEMMA PullTypeStep == KeyInv /\ TypeOK /\ [Next]_vars => TypeOK'
<1> SUFFICES ASSUME KeyInv, TypeOK, [Next]_vars PROVE TypeOK'
  OBVIOUS
<1>0. PullsOK /\ DataOK
  BY PullsAreOK DEF TypeOK, DataOK
<1>k. OwnerKeyTypeOK'
  BY KeyInvKept DEF KeyInv
<1>d. PullsOK' /\ DataOK'
  <2>1. ASSUME NEW who \in Customers, Authenticate(who) \/ PullStep(who) PROVE PullsOK' /\ DataOK'
    BY <1>0, <2>1, CommandTypeStep DEF DataOK, dataVars
  <2>2. CASE Arrive
    <3>1. PICK guid \in Guids \ stored, owner \in Customers \cup Others :
             /\ stored' = stored \cup {guid}
             /\ rows' = Append(rows, [guid |-> guid, owner |-> owner, state |-> "stamped"])
      BY <2>2 DEF Arrive
    <3>2. [guid |-> guid, owner |-> owner, state |-> "stamped"] \in Rows
      BY DEF Rows
    <3>3. rows' \in Seq(Rows) /\ Len(rows') = Len(rows) + 1 /\ Len(rows) < MaxRows
      BY <1>0, <2>2, <3>1, <3>2 DEF DataOK, Arrive
    <3>4. Len(rows') <= MaxRows
      BY <1>0, <3>3, PullAssumption DEF DataOK
    <3> QED  BY <1>0, <2>2, <3>1, <3>3, <3>4 DEF Arrive, DataOK, PullsOK
  <2>3. CASE Insert
    <3>1. PICK id \in DOMAIN rows :
             /\ rows' = [rows EXCEPT ![id].state = "visible"]
             /\ Overtaken(rows[id].guid, {id}, {rows[id].owner} \cup grants[rows[id].guid])
      BY <2>3 DEF Insert
    <3>2. rows' \in Seq(Rows) /\ Len(rows') = Len(rows) /\ rows[id].guid \in Guids
      <4>1. rows \in Seq(Rows) /\ rows[id] \in Rows
        BY <1>0, VisibleRows DEF DataOK
      <4>2. [rows[id] EXCEPT !.state = "visible"] \in Rows
        BY <4>1 DEF Rows
      <4>3. rows' = [rows EXCEPT ![id] = [rows[id] EXCEPT !.state = "visible"]]
        BY <3>1
      <4> QED  BY <4>1, <4>2, <4>3 DEF Rows
    <3> QED  BY <1>0, <2>3, <3>1, <3>2, OvertakenPulls DEF Insert, DataOK
  <2>4. CASE Grant
    <3>1. PICK guid \in Guids, who \in Customers :
             /\ grants' = [grants EXCEPT ![guid] = grants[guid] \cup {who}]
             /\ Overtaken(guid, RowsOf(guid), {who})
      BY <2>4 DEF Grant
    <3> QED  BY <1>0, <2>4, <3>1, OvertakenPulls DEF Grant, DataOK
  <2>5. CASE Revoke
    <3>1. PICK guid \in Guids : /\ grants' = [grants EXCEPT ![guid] = {}]
                               /\ DisturbPulls(grants[guid], {guid})
      BY <2>5 DEF Revoke
    <3> QED  BY <1>0, <2>5, <3>1, DisturbedPulls DEF Revoke, DataOK
  <2>6. CASE RemoveFile
    <3>1. PICK guid \in stored : /\ stored' = stored \ {guid} /\ torn' = torn \ {guid}
                                /\ DisturbPulls(Customers, {guid})
      BY <2>6 DEF RemoveFile
    <3>2. {guid} \in SUBSET Guids
      BY <1>0 DEF DataOK
    <3> QED  BY <1>0, <2>6, <3>1, <3>2, DisturbedPulls DEF RemoveFile, DataOK
  <2>10. CASE Rewrite
    <3>1. PICK guid \in Guids : /\ stored' = stored \cup {guid} /\ torn' = torn \cup {guid}
                               /\ DisturbPulls(Customers, {guid})
      BY <2>10 DEF Rewrite
    <3> QED  BY <1>0, <2>10, <3>1, DisturbedPulls DEF Rewrite, DataOK
  <2>11. CASE Rewritten
    BY <1>0, <2>11 DEF Rewritten, DataOK, PullsOK
  <2>12. CASE InsertFails
    <3>1. PICK id \in DOMAIN rows : rows' = [rows EXCEPT ![id].state = "lost"]
      BY <2>12 DEF InsertFails
    <3>2. rows' \in Seq(Rows) /\ Len(rows') = Len(rows)
      <4>1. rows \in Seq(Rows) /\ rows[id] \in Rows
        BY <1>0, VisibleRows DEF DataOK
      <4>2. [rows[id] EXCEPT !.state = "lost"] \in Rows
        BY <4>1 DEF Rows
      <4>3. rows' = [rows EXCEPT ![id] = [rows[id] EXCEPT !.state = "lost"]]
        BY <3>1
      <4> QED  BY <4>1, <4>2, <4>3
    <3> QED  BY <1>0, <2>12, <3>2 DEF InsertFails, DataOK, PullsOK
  <2>7. CASE Expire
    BY <1>0, <2>7, DisturbedPulls DEF Expire, DataOK, dataVars
  <2>8. CASE StopServing
    <3>1. rows' \in Seq(Rows) /\ Len(rows') = Len(rows)
      <4>1. ASSUME NEW id \in DOMAIN rows
            PROVE  [rows[id] EXCEPT !.state = IF rows[id].state = "stamped"
                                                THEN "lost" ELSE rows[id].state] \in Rows
        <5>1. rows[id] \in Rows
          BY VisibleRows
        <5> QED  BY <5>1 DEF Rows
      <4>2. rows' = [id \in DOMAIN rows |->
                       [rows[id] EXCEPT !.state = IF rows[id].state = "stamped"
                                                    THEN "lost" ELSE rows[id].state]]
        BY <2>8 DEF StopServing
      <4>3. DOMAIN rows = 1..Len(rows) /\ Len(rows) \in Nat
        BY VisibleRows
      <4>4. rows' \in [1..Len(rows) -> Rows]
        BY <4>1, <4>2, <4>3
      <4> QED  BY <4>3, <4>4
    <3> QED  BY <1>0, <2>8, <3>1, InterruptedPulls DEF StopServing, DataOK
  <2>9. CASE ServerStep \/ UNCHANGED vars
    BY <1>0, <2>9 DEF ServerStep, vars, dataVars, DataOK, PullsOK
  <2> QED
    BY <2>1, <2>2, <2>3, <2>4, <2>5, <2>6, <2>7, <2>8, <2>9, <2>10, <2>11, <2>12 DEF Next
<1> QED  BY <1>k, <1>d DEF TypeOK, DataOK, PullsOK, PullOK

-------------------------------------------------------------------------------
(***************************************************************************)
(* The invariants.  What a pull has listed and nothing disturbed can be    *)
(* downloaded; and what became accessible before the time the next -since  *)
(* is taken from is known, or comes with a newer row of the same voucher.  *)
(***************************************************************************)
Ready(guid, who) == Served(who) /\ HasAccess(guid, who) /\ guid \in stored \ torn

ListIsReady(who) ==
    /\ pulls[who].missed \subseteq pulls[who].disturbed
    /\ ~ Active(who) => pulls[who].listed = {}
    /\ \A guid \in pulls[who].listed \ pulls[who].disturbed : Ready(guid, who)

UndisturbedIsReady == \A who \in Customers : ListIsReady(who)

\* The times of a pull are in order, and a list has the options it began with.
OptionsKept ==
    \A who \in Customers :
        /\ pulls[who].mark <= pulls[who].began
        /\ pulls[who].began <= Len(rows) + 1
        /\ pulls[who].pc = "list" => /\ pulls[who].limit \in PageSizes
                                     /\ pulls[who].since \in {0, pulls[who].mark}

\* A row of someone else only counts as long as it does not get lost: an
\* unassignment takes the access to the older and the newer row together.
Covered(who, time, known) ==
    \A id \in Accessible(who) :
        \/ id >= time
        \/ rows[id].guid \in known
        \/ rows[id].owner # who /\ \E newer \in RowsOf(rows[id].guid) : newer >= time

\* The list is complete and the pull has not ended.
WholeListIn(pull) == pull.pc \in Downloading /\ pull.until = NoUntil

Remembered(who, pull) ==
    IF WholeListIn(pull) THEN Covered(who, pull.began, pull.have \cup pull.listed \cup pull.late)
                         ELSE Covered(who, pull.mark, pull.have \cup pull.late)

AllRemembered == \A who \in Customers : Remembered(who, pulls[who])

-------------------------------------------------------------------------------
(***************************************************************************)
(* The steps of the pull command, field by field.                          *)
(***************************************************************************)
LEMMA BecomesOne ==
    ASSUME TypeOK, NEW who \in Customers, NEW next, Becomes(who, next)
    PROVE  /\ pulls'[who] = next
           /\ \A one \in Customers : one # who => pulls'[one] = pulls[one]
BY DEF Becomes, TypeOK

\* The pull of one customer is nothing to the others.
LEMMA OthersKept ==
    ASSUME TypeOK, NEW who \in Customers, Authenticate(who) \/ PullStep(who)
    PROVE  /\ \A one \in Customers : one # who => pulls'[one] = pulls[one]
           /\ sessions \subseteq sessions'
           /\ UNCHANGED <<keyVars, dataVars>>
<1>1. CASE Authenticate(who)
  BY <1>1, BecomesOne DEF Authenticate
<1>2. CASE ListFails(who)
  BY <1>2, BecomesOne DEF ListFails
<1>3. CASE ListPage(who)
  BY <1>3, BecomesOne DEF ListPage
<1>4. CASE FetchLatest(who) \/ CheckGrants(who)
  BY <1>4, BecomesOne DEF FetchLatest, CheckGrants, Miss
<1>5. CASE LoadFile(who) \/ RequestFails(who)
  BY <1>5, BecomesOne DEF LoadFile, RequestFails, Miss
<1>6. CASE Finish(who)
  BY <1>6, BecomesOne DEF Finish
<1> QED  BY <1>1, <1>2, <1>3, <1>4, <1>5, <1>6 DEF PullStep

\* A page ends the list or forgets nothing.
LEMMA PageEnds ==
    ASSUME TypeOK, NEW who \in Customers, ListPage(who)
    PROVE  /\ pulls'[who].pc \in {"list", "download"}
           /\ pulls'[who].pc = "list" \/ pulls[who].until # NoUntil
                => pulls'[who].late = pulls[who].late
<1> DEFINE pull == pulls[who]
           page == List(who, pull.limit, pull.since, pull.until)
           next == [pull EXCEPT
                      !.pc = IF page.hasMore THEN "list" ELSE "download",
                      !.listed = pull.listed \cup page.vouchers,
                      !.late = IF page.hasMore \/ pull.since > 0 \/ pull.until # NoUntil
                                 THEN pull.late ELSE {},
                      !.disturbed = pull.disturbed \cup (page.vouchers \ (stored \ torn))]
<1>1. Becomes(who, next) /\ pull \in Pulls
  BY DEF ListPage, TypeOK
<1>2. pulls'[who] = next
  <2> HIDE DEF next
  <2> QED  BY <1>1, BecomesOne
<1> HIDE DEF page
<1> QED  BY <1>1, <1>2 DEF Pulls

\* The steps of a download.
Download(who) == FetchLatest(who) \/ CheckGrants(who) \/ LoadFile(who) \/ RequestFails(who)

\* The fields that listing a page and downloading leave alone.
LEMMA CommandFields ==
    ASSUME TypeOK, NEW who \in Customers, ListPage(who) \/ Download(who)
    PROVE  /\ pulls'[who].limit = pulls[who].limit
           /\ pulls'[who].since = pulls[who].since
           /\ pulls'[who].until = pulls[who].until
           /\ pulls'[who].began = pulls[who].began
           /\ pulls'[who].mark = pulls[who].mark
           /\ pulls'[who].have = pulls[who].have
           /\ pulls'[who].pc = "list" => pulls[who].pc = "list"
           /\ Download(who) =>
                 /\ pulls[who].pc \in Downloading
                 /\ pulls'[who].pc \in Downloading
                 /\ pulls'[who].listed = pulls[who].listed
                 /\ pulls'[who].late = pulls[who].late
<1> DEFINE pull == pulls[who]
           Kept(next) == /\ next.limit = pull.limit /\ next.since = pull.since
                         /\ next.until = pull.until /\ next.began = pull.began
                         /\ next.mark = pull.mark /\ next.have = pull.have
<1>0. pull \in Pulls
  BY DEF TypeOK
<1>1. CASE ListPage(who)
  <2> DEFINE page == List(who, pull.limit, pull.since, pull.until)
             next == [pull EXCEPT
                        !.pc = IF page.hasMore THEN "list" ELSE "download",
                        !.listed = pull.listed \cup page.vouchers,
                        !.late = IF page.hasMore \/ pull.since > 0 \/ pull.until # NoUntil
                                   THEN pull.late ELSE {},
                        !.disturbed = pull.disturbed \cup (page.vouchers \ (stored \ torn))]
  <2>1. Becomes(who, next) /\ pull.pc = "list"
    BY <1>1 DEF ListPage
  <2>2. ~ Download(who)
    BY <2>1 DEF Download, FetchLatest, CheckGrants, LoadFile, RequestFails, Downloading
  <2> HIDE DEF page
  <2>3. Kept(next)
    BY <1>0 DEF Pulls
  <2> HIDE DEF next
  <2>4. pulls'[who] = next
    BY <2>1, BecomesOne
  <2> QED  BY <2>1, <2>2, <2>3, <2>4
<1>2. CASE Download(who)
  <2> DEFINE Moved(next) == /\ Kept(next) /\ next.pc \in Downloading
                            /\ next.listed = pull.listed /\ next.late = pull.late
  <2>1. pull.pc \in Downloading
    BY <1>2 DEF Download, FetchLatest, CheckGrants, LoadFile, RequestFails, Downloading
  <2>2. ASSUME NEW guid, NEW step \in Downloading
        PROVE  Moved([pull EXCEPT !.current = {guid}, !.pc = step])
    BY <1>0 DEF Pulls
  <2>3. ASSUME NEW guid
        PROVE  Moved([pull EXCEPT !.missed = pull.missed \cup {guid},
                                  !.current = {}, !.pc = "download"])
    BY <1>0 DEF Pulls, Downloading
  <2>4. ASSUME NEW guid
        PROVE  Moved([pull EXCEPT !.got = pull.got \cup {guid},
                                  !.current = {}, !.pc = "download"])
    BY <1>0 DEF Pulls, Downloading
  <2>7. Moved([pull EXCEPT !.pc = "load"])
    BY <1>0 DEF Pulls, Downloading
  <2>8. ASSUME NEW guid
        PROVE  Moved([pull EXCEPT !.missed = pull.missed \cup {guid}, !.current = {},
                                  !.pc = "download", !.disturbed = pull.disturbed \cup {guid}])
    BY <1>0 DEF Pulls, Downloading
  <2> HIDE DEF Moved
  <2>5. Moved(pulls'[who])
    <3>1. PICK next : Moved(next) /\ Becomes(who, next)
      <4>1. CASE FetchLatest(who)
        <5>1. "load" \in Downloading /\ "grants" \in Downloading
          BY DEF Downloading
        <5> QED  BY <4>1, <5>1, <2>2, <2>3 DEF FetchLatest, Miss
      <4>2. CASE LoadFile(who)
        BY <4>2, <2>3, <2>4 DEF LoadFile, Miss
      <4>3. CASE CheckGrants(who)
        BY <4>3, <2>3, <2>7 DEF CheckGrants, Miss
      <4>4. CASE RequestFails(who)
        BY <4>4, <2>8 DEF RequestFails
      <4> QED  BY <1>2, <4>1, <4>2, <4>3, <4>4 DEF Download
    <3> QED  BY <3>1, BecomesOne
  <2>6. pull.pc # "list"
    BY <2>1 DEF Downloading
  <2> QED  BY <2>1, <2>5, <2>6 DEF Moved, Downloading
<1> QED  BY <1>1, <1>2

\* What is on a page is accessible.
LEMMA PagesAreAccessible ==
    ASSUME TypeOK, NEW who \in Customers, NEW limit, NEW since, NEW until,
           NEW guid \in List(who, limit, since, until).vouchers
    PROVE  guid \in Guids /\ HasAccess(guid, who)
<1>1. PICK id \in Accessible(who) : rows[id].guid = guid
  BY DEF List, ListByAccessGrant, Newest
<1> QED  BY <1>1, ListedIsKnown DEF Accessible, HasAccess

\* A step that disturbs what it may take away from a pull.
LEMMA ReadyKept ==
    ASSUME NEW who \in Customers, ListIsReady(who),
           pulls'[who].listed = pulls[who].listed,
           Active(who) <=> Active(who)',
           pulls[who].disturbed \subseteq pulls'[who].disturbed,
           pulls'[who].missed \subseteq pulls'[who].disturbed,
           \A guid \in pulls[who].listed \ pulls'[who].disturbed :
              Ready(guid, who) => Ready(guid, who)'
    PROVE  ListIsReady(who)'
BY DEF ListIsReady

\* A step of the command itself leaves everything where it is.
LEMMA ReadyUnchanged ==
    ASSUME NEW who \in Customers, UNCHANGED <<keyVars, dataVars, sessions>>
    PROVE  \A guid : Ready(guid, who) => Ready(guid, who)'
BY DEF Ready, Served, HasAccess, Visible, keyVars, dataVars

\* A download that is missed was disturbed.
LEMMA DownloadReady ==
    ASSUME TypeOK, NEW who \in Customers, ListIsReady(who), Download(who)
    PROVE  /\ pulls[who].disturbed \subseteq pulls'[who].disturbed
           /\ pulls'[who].missed \subseteq pulls'[who].disturbed
<1> DEFINE pull == pulls[who]
           Moved(next) == /\ next.missed = pull.missed /\ next.disturbed = pull.disturbed
<1>0. /\ pull \in Pulls /\ pull.missed \subseteq pull.disturbed
      /\ pull.current \subseteq pull.listed /\ pull.listed \subseteq Guids
      /\ \A guid \in pull.listed \ pull.disturbed : Ready(guid, who)
  BY DEF TypeOK, Pulls, ListIsReady
<1>1. ASSUME NEW next, Becomes(who, next), Moved(next)
      PROVE  /\ pull.disturbed \subseteq pulls'[who].disturbed
             /\ pulls'[who].missed \subseteq pulls'[who].disturbed
  BY <1>0, <1>1, BecomesOne
<1>2. ASSUME NEW guid \in pull.listed, ~ Ready(guid, who), Miss(who, guid)
      PROVE  /\ pull.disturbed \subseteq pulls'[who].disturbed
             /\ pulls'[who].missed \subseteq pulls'[who].disturbed
  <2>1. pulls'[who] = [pull EXCEPT !.missed = pull.missed \cup {guid},
                                   !.current = {}, !.pc = "download"]
    BY <1>2, BecomesOne DEF Miss
  <2>2. pulls'[who].missed = pull.missed \cup {guid} /\ pulls'[who].disturbed = pull.disturbed
    BY <1>0, <2>1 DEF Pulls
  <2> QED  BY <1>0, <1>2, <2>2
<1>3. CASE FetchLatest(who)
  <2>1. PICK guid \in pull.listed \ (pull.got \cup pull.missed), step \in Downloading :
           IF Served(who) /\ RowsOf(guid) # {}
             THEN Becomes(who, [pull EXCEPT !.current = {guid}, !.pc = step])
             ELSE Miss(who, guid)
    BY <1>3 DEF FetchLatest, Downloading
  <2>2. Moved([pull EXCEPT !.current = {guid}, !.pc = step])
    BY <1>0 DEF Pulls
  <2>3. Ready(guid, who) => Served(who) /\ RowsOf(guid) # {}
    BY DEF Ready, HasAccess, RowsOf
  <2> HIDE DEF Moved
  <2> QED  BY <1>1, <1>2, <2>1, <2>2, <2>3
<1>4. CASE CheckGrants(who)
  <2>1. PICK guid \in pull.current :
           IF HasAccessByGUID(guid, who)
             THEN Becomes(who, [pull EXCEPT !.pc = "load"])
             ELSE Miss(who, guid)
    BY <1>4 DEF CheckGrants
  <2>2. Moved([pull EXCEPT !.pc = "load"])
    BY <1>0 DEF Pulls
  <2>3. Ready(guid, who) => HasAccessByGUID(guid, who)
    BY DEF Ready, HasAccess, HasAccessByGUID, RowsOf
  <2> HIDE DEF Moved
  <2> QED  BY <1>0, <1>1, <1>2, <2>1, <2>2, <2>3
<1>5. CASE LoadFile(who)
  <2>1. PICK guid \in pull.current :
           IF guid \in stored \ torn
             THEN Becomes(who, [pull EXCEPT !.got = pull.got \cup {guid},
                                            !.current = {}, !.pc = "download"])
             ELSE Miss(who, guid)
    BY <1>5 DEF LoadFile
  <2>2. Moved([pull EXCEPT !.got = pull.got \cup {guid}, !.current = {}, !.pc = "download"])
    BY <1>0 DEF Pulls
  <2>3. Ready(guid, who) => guid \in stored \ torn
    BY DEF Ready
  <2> HIDE DEF Moved
  <2> QED  BY <1>0, <1>1, <1>2, <2>1, <2>2, <2>3
<1>6. CASE RequestFails(who)
  <2>1. PICK guid : Becomes(who, [pull EXCEPT !.missed = pull.missed \cup {guid}, !.current = {},
                                              !.pc = "download",
                                              !.disturbed = pull.disturbed \cup {guid}])
    BY <1>6 DEF RequestFails
  <2>2. pulls'[who] = [pull EXCEPT !.missed = pull.missed \cup {guid}, !.current = {},
                                   !.pc = "download", !.disturbed = pull.disturbed \cup {guid}]
    BY <2>1, BecomesOne
  <2>3. /\ pulls'[who].missed = pull.missed \cup {guid}
        /\ pulls'[who].disturbed = pull.disturbed \cup {guid}
    BY <1>0, <2>2 DEF Pulls
  <2> QED  BY <1>0, <2>3
<1> QED  BY <1>3, <1>4, <1>5, <1>6 DEF Download

\* Rows and grants that stay, by way of which a pull has its access.
LEMMA AccessKept ==
    ASSUME NEW who \in Customers, NEW guid \in Guids,
           Visible \subseteq Visible',
           \A id \in Visible : rows'[id].guid = rows[id].guid /\ rows'[id].owner = rows[id].owner,
           who \in grants[guid] => who \in grants'[guid]
    PROVE  HasAccess(guid, who) => HasAccess(guid, who)'
BY DEF HasAccess

LEMMA ReadyStep ==
    TypeOK /\ UndisturbedIsReady /\ [Next]_vars => UndisturbedIsReady'
<1> SUFFICES ASSUME TypeOK, UndisturbedIsReady, [Next]_vars, NEW who \in Customers
             PROVE  ListIsReady(who)'
  BY DEF UndisturbedIsReady
<1> DEFINE pull == pulls[who]
<1>0. /\ ListIsReady(who) /\ pull \in Pulls /\ PullOK(pull) /\ PullsOK
      /\ pull.listed \subseteq Guids /\ pull.missed \subseteq pull.disturbed
  BY PullsAreOK DEF UndisturbedIsReady, PullsOK, PullOK, ListIsReady, Pulls
<1>1. ASSUME NEW one \in Customers, one # who, Authenticate(one) \/ PullStep(one)
      PROVE  ListIsReady(who)'
  <2>1. pulls'[who] = pull /\ sessions \subseteq sessions' /\ UNCHANGED <<keyVars, dataVars>>
    BY <1>1, OthersKept
  <2>2. \A guid : Ready(guid, who) => Ready(guid, who)'
    BY <2>1 DEF Ready, Served, HasAccess, Visible, keyVars, dataVars
  <2> QED  BY <1>0, <2>1, <2>2, ReadyKept DEF Active
<1>2. CASE Authenticate(who)
  <2>1. PICK limit \in PageSizes, until \in Untils, since \in {0, pull.mark} :
           Becomes(who, [pull EXCEPT !.pc = "list", !.limit = limit, !.since = since,
                                     !.until = until, !.began = Len(rows) + 1])
    BY <1>2 DEF Authenticate
  <2>2. pulls'[who] = [pull EXCEPT !.pc = "list", !.limit = limit, !.since = since,
                                   !.until = until, !.began = Len(rows) + 1]
    BY <2>1, BecomesOne
  <2>3. /\ pulls'[who].listed = pull.listed /\ pulls'[who].missed = pull.missed
        /\ pulls'[who].disturbed = pull.disturbed /\ pulls'[who].pc = "list"
    BY <1>0, <2>2 DEF Pulls
  <2>4. pull.listed = {}
    BY <1>0, <1>2 DEF Authenticate, ListIsReady, Active
  <2> QED  BY <1>0, <2>3, <2>4 DEF ListIsReady, Active
<1>3. CASE ListFails(who) \/ Finish(who)
  <2>1. \/ pulls'[who] = Forget(pull)
        \/ pulls'[who] = [Forget(pull) EXCEPT
                            !.mark = IF pull.until = NoUntil THEN pull.began ELSE pull.mark,
                            !.have = pull.have \cup pull.listed]
    BY <1>3, BecomesOne DEF ListFails, Finish
  <2>2. /\ Forget(pull) \in Pulls
        /\ Forget(pull).listed = {} /\ Forget(pull).missed = {}
    BY <1>0, TimesAreKnown DEF Forget, Pulls
  <2>3. pulls'[who].listed = {} /\ pulls'[who].missed = {}
    BY <2>1, <2>2 DEF Pulls
  <2> QED  BY <2>3 DEF ListIsReady
<1>4. CASE ListPage(who)
  <2> DEFINE page == List(who, pull.limit, pull.since, pull.until)
  <2>1. /\ pulls'[who].pc # "idle"
        /\ pulls'[who].listed = pull.listed \cup page.vouchers
        /\ pulls'[who].missed = pull.missed
        /\ pulls'[who].disturbed = pull.disturbed \cup (page.vouchers \ (stored \ torn))
    <3> DEFINE next ==
          [pull EXCEPT !.pc = IF page.hasMore THEN "list" ELSE "download",
                       !.listed = pull.listed \cup page.vouchers,
                       !.late = IF page.hasMore \/ pull.since > 0 \/ pull.until # NoUntil
                                  THEN pull.late ELSE {},
                       !.disturbed = pull.disturbed \cup (page.vouchers \ (stored \ torn))]
    <3>1. Becomes(who, next)
      BY <1>4 DEF ListPage
    <3>2. pulls'[who] = next
      <4> HIDE DEF next
      <4> QED  BY <3>1, BecomesOne
    <3> HIDE DEF page
    <3> QED  BY <1>0, <3>2 DEF Pulls
  <2>2. \A guid \in page.vouchers : HasAccess(guid, who)
    BY PagesAreAccessible
  <2>3. UNCHANGED <<keyVars, dataVars, sessions>> /\ Served(who)
    BY <1>4 DEF ListPage
  <2>4. \A guid : Ready(guid, who) => Ready(guid, who)'
    BY <2>3, ReadyUnchanged
  <2> HIDE DEF page
  <2>5. \A guid \in pulls'[who].listed \ pulls'[who].disturbed : Ready(guid, who)
    BY <1>0, <2>1, <2>2, <2>3 DEF ListIsReady, Ready
  <2> QED  BY <1>0, <2>1, <2>4, <2>5 DEF ListIsReady, Active
<1>5. CASE Download(who)
  <2>1. /\ pulls'[who].listed = pull.listed
        /\ pull.pc \in Downloading /\ pulls'[who].pc \in Downloading
    BY <1>5, CommandFields
  <2>2. UNCHANGED <<keyVars, dataVars, sessions>>
    BY <1>5 DEF Download, FetchLatest, CheckGrants, LoadFile, RequestFails
  <2>3. Active(who) /\ Active(who)'
    BY <2>1 DEF Active, Downloading
  <2> QED  BY <1>0, <1>5, <2>1, <2>2, <2>3, DownloadReady, ReadyUnchanged, ReadyKept
\* Something is added: the access stays.
<1>6. ASSUME \A guid \in pull.listed : Ready(guid, who) => Ready(guid, who)',
             /\ pulls'[who].pc = pull.pc /\ pulls'[who].listed = pull.listed
             /\ pulls'[who].missed = pull.missed /\ pulls'[who].disturbed = pull.disturbed
      PROVE  ListIsReady(who)'
  BY <1>0, <1>6, ReadyKept DEF Active
<1>7. CASE Arrive
  <2>1. PICK guid \in Guids \ stored, owner \in Customers \cup Others :
           /\ stored' = stored \cup {guid}
           /\ rows' = Append(rows, [guid |-> guid, owner |-> owner, state |-> "stamped"])
    BY <1>7 DEF Arrive
  <2>2. \A id \in DOMAIN rows : id \in DOMAIN rows' /\ rows'[id] = rows[id]
    BY <2>1 DEF TypeOK
  <2>3. UNCHANGED <<keyVars, grants, torn, sessions, pulls>>
    BY <1>7 DEF Arrive
  <2>4. \A any \in Guids : HasAccess(any, who) => HasAccess(any, who)'
    BY <2>2, <2>3, AccessKept DEF Visible
  <2>5. \A any \in Guids : Ready(any, who) => Ready(any, who)'
    BY <2>1, <2>3, <2>4 DEF Ready, Served, keyVars
  <2> QED  BY <1>0, <1>6, <2>3, <2>5
<1>8. CASE Insert
  <2>1. PICK id \in DOMAIN rows :
           /\ rows' = [rows EXCEPT ![id].state = "visible"]
           /\ Overtaken(rows[id].guid, {id}, {rows[id].owner} \cup grants[rows[id].guid])
    BY <1>8 DEF Insert
  <2>2. /\ DOMAIN rows' = DOMAIN rows
        /\ \A one \in Visible : /\ one \in Visible' /\ rows'[one].guid = rows[one].guid
                                /\ rows'[one].owner = rows[one].owner
    <3>1. \A one \in DOMAIN rows : rows[one] \in Rows
      BY VisibleRows
    <3> QED  BY <2>1, <3>1 DEF Visible, Rows
  <2>3. UNCHANGED <<keyVars, grants, stored, torn, sessions>>
    BY <1>8 DEF Insert
  <2>4. rows[id].guid \in Guids
    BY VisibleRows DEF Rows
  <2>5. /\ pulls'[who].pc = pull.pc /\ pulls'[who].listed = pull.listed
        /\ pulls'[who].missed = pull.missed /\ pulls'[who].disturbed = pull.disturbed
    BY <1>0, <2>1, <2>4, OvertakenPulls DEF CommandKept
  <2>6. \A any \in Guids : HasAccess(any, who) => HasAccess(any, who)'
    BY <2>2, <2>3, AccessKept
  <2>7. \A any \in Guids : Ready(any, who) => Ready(any, who)'
    BY <2>3, <2>6 DEF Ready, Served, keyVars
  <2> QED  BY <1>0, <1>6, <2>5, <2>7
<1>9. CASE Grant
  <2>1. PICK guid \in Guids, one \in Customers :
           /\ grants' = [grants EXCEPT ![guid] = grants[guid] \cup {one}]
           /\ Overtaken(guid, RowsOf(guid), {one})
    BY <1>9 DEF Grant
  <2>2. UNCHANGED <<keyVars, rows, stored, torn, sessions>>
    BY <1>9 DEF Grant
  <2>3. /\ pulls'[who].pc = pull.pc /\ pulls'[who].listed = pull.listed
        /\ pulls'[who].missed = pull.missed /\ pulls'[who].disturbed = pull.disturbed
    BY <1>0, <2>1, OvertakenPulls DEF CommandKept
  <2>4. \A some \in Guids : grants[some] \subseteq grants'[some]
    BY <2>1 DEF TypeOK
  <2>5. \A any \in Guids : HasAccess(any, who) => HasAccess(any, who)'
    BY <2>2, <2>4, AccessKept DEF Visible
  <2>6. \A any \in Guids : Ready(any, who) => Ready(any, who)'
    BY <2>2, <2>5 DEF Ready, Served, keyVars
  <2> QED  BY <1>0, <1>6, <2>3, <2>6
\* Something is taken away: the downloads that may miss it are marked.
<1>10. ASSUME NEW some, NEW guids \in SUBSET Guids, DisturbPulls(some, guids),
              \A guid \in Guids : \/ who \in some /\ guid \in guids
                                  \/ Ready(guid, who) => Ready(guid, who)'
       PROVE  ListIsReady(who)'
  <2>1. /\ pulls'[who].pc = pull.pc /\ pulls'[who].listed = pull.listed
        /\ pulls'[who].missed = pull.missed
        /\ pulls'[who].disturbed = IF who \in some /\ Active(who)
                                     THEN pull.disturbed \cup guids ELSE pull.disturbed
    BY <1>0, <1>10, DisturbedPulls DEF CommandKept
  <2>2. CASE ~ Active(who)
    BY <1>0, <2>1, <2>2 DEF ListIsReady, Active
  <2>3. CASE Active(who)
    <3>1. \A guid \in pull.listed \ pulls'[who].disturbed : Ready(guid, who) => Ready(guid, who)'
      BY <1>0, <1>10, <2>1, <2>3
    <3> QED  BY <1>0, <2>1, <3>1, ReadyKept DEF Active
  <2> QED  BY <2>2, <2>3
<1>11. CASE Revoke
  <2>1. PICK guid \in Guids : /\ grants' = [grants EXCEPT ![guid] = {}]
                             /\ DisturbPulls(grants[guid], {guid})
    BY <1>11 DEF Revoke
  <2>2. UNCHANGED <<keyVars, rows, stored, torn, sessions>>
    BY <1>11 DEF Revoke
  <2>3. ASSUME NEW any \in Guids, ~ (who \in grants[guid] /\ any \in {guid}), Ready(any, who)
        PROVE  Ready(any, who)'
    <3>1. who \in grants[any] => who \in grants'[any]
      BY <2>1, <2>3 DEF TypeOK
    <3>2. HasAccess(any, who) => HasAccess(any, who)'
      BY <2>2, <3>1, AccessKept DEF Visible
    <3> QED  BY <2>2, <2>3, <3>2 DEF Ready, Served, keyVars
  <2> QED  BY <1>10, <2>1, <2>3
<1>12. CASE RemoveFile \/ Rewrite
  <2>1. PICK guid \in Guids : /\ \A any \in Guids : any # guid /\ any \in stored \ torn
                                                   => any \in stored' \ torn'
                             /\ DisturbPulls(Customers, {guid})
    BY <1>12 DEF RemoveFile, Rewrite, TypeOK
  <2>2. UNCHANGED <<keyVars, rows, grants, sessions>>
    BY <1>12 DEF RemoveFile, Rewrite
  <2>3. ASSUME NEW any \in Guids, any # guid, Ready(any, who) PROVE Ready(any, who)'
    <3>1. HasAccess(any, who) => HasAccess(any, who)'
      BY <2>2, AccessKept DEF Visible
    <3> QED  BY <2>1, <2>2, <2>3, <3>1 DEF Ready, Served, keyVars
  <2> QED  BY <1>10, <2>1, <2>3
<1>13. CASE Rewritten
  <2>1. UNCHANGED <<keyVars, rows, grants, stored, sessions, pulls>> /\ torn' \subseteq torn
    BY <1>13 DEF Rewritten
  <2>2. \A any \in Guids : HasAccess(any, who) => HasAccess(any, who)'
    BY <2>1, AccessKept DEF Visible
  <2>3. \A any \in Guids : Ready(any, who) => Ready(any, who)'
    BY <2>1, <2>2 DEF Ready, Served, keyVars
  <2> QED  BY <1>0, <1>6, <2>1, <2>3
<1>14. CASE InsertFails
  <2>1. UNCHANGED <<keyVars, grants, stored, torn, sessions, pulls>>
    BY <1>14 DEF InsertFails
  <2>2. Visible \subseteq Visible' /\ \A id \in Visible : rows'[id] = rows[id]
    BY <1>14 DEF InsertFails, Visible, TypeOK
  <2>3. \A any \in Guids : HasAccess(any, who) => HasAccess(any, who)'
    BY <2>1, <2>2, AccessKept
  <2>4. \A any \in Guids : Ready(any, who) => Ready(any, who)'
    BY <2>1, <2>3 DEF Ready, Served, keyVars
  <2> QED  BY <1>0, <1>6, <2>1, <2>4
<1>15. CASE Expire
  <2>1. PICK one \in sessions : sessions' = sessions \ {one} /\ DisturbPulls({one}, Guids)
    BY <1>15 DEF Expire
  <2>2. ASSUME NEW any \in Guids, who # one, Ready(any, who) PROVE Ready(any, who)'
    BY <1>15, <2>1, <2>2 DEF Expire, Ready, Served, HasAccess, Visible, keyVars, dataVars
  <2> QED  BY <1>10, <2>1, <2>2
<1>16. CASE StopServing
  <2>1. IF Active(who) THEN pulls'[who].disturbed = Guids ELSE pulls'[who] = pull
    BY <1>0, <1>16, InterruptedPulls
  <2>2. /\ pulls'[who].listed = pull.listed
        /\ pulls'[who].listed \subseteq Guids /\ pulls'[who].missed \subseteq Guids
    BY <1>0, <1>16, InterruptedPulls DEF PullsOK, Pulls, CommandKept
  <2>3. CASE Active(who)
    <3>1. Active(who)'
      BY <1>0, <1>16, <2>3, InterruptedPulls DEF CommandKept, Active, Downloading
    <3> QED  BY <2>1, <2>2, <2>3, <3>1 DEF ListIsReady
  <2>4. CASE ~ Active(who)
    BY <1>0, <2>1, <2>4 DEF ListIsReady, Active
  <2> QED  BY <2>3, <2>4
<1>17. CASE ServerStep
  <2>1. \A guid : ~ Ready(guid, who)
    BY <1>17 DEF ServerStep, Start, ExportOpen, ExportWrite, ExportFails, Ready, Served
  <2>2. UNCHANGED pulls
    BY <1>17 DEF ServerStep
  <2> QED  BY <1>0, <1>6, <2>1, <2>2
<1>18. CASE UNCHANGED vars
  <2>1. UNCHANGED <<keyVars, dataVars, sessions, pulls>>
    BY <1>18 DEF vars
  <2> QED  BY <1>0, <1>6, <2>1, ReadyUnchanged
<1> QED
  BY <1>1, <1>2, <1>3, <1>4, <1>5, <1>7, <1>8, <1>9, <1>11, <1>12, <1>13, <1>14, <1>15, <1>16,
     <1>17, <1>18 DEF Next, PullStep, Download

\* What takes something away from the pulls leaves their commands alone.
LEMMA TakenAway ==
    ASSUME TypeOK, Revoke \/ Rewrite \/ RemoveFile \/ Expire \/ StopServing,
           NEW who \in Customers
    PROVE  /\ CommandKept(who)
           /\ pulls'[who].late = pulls[who].late
           /\ pulls[who].pc = "list" => pulls'[who].pc = "list"
<1>0. PullsOK
  BY PullsAreOK
<1>1. CASE StopServing
  BY <1>0, <1>1, InterruptedPulls
<1>2. CASE Revoke \/ Rewrite \/ RemoveFile \/ Expire
  <2>1. CASE Revoke
    <3>1. PICK guid \in Guids : DisturbPulls(grants[guid], {guid})
      BY <2>1 DEF Revoke
    <3> QED  BY <1>0, <3>1, DisturbedPulls
  <2>2. CASE Rewrite \/ RemoveFile
    <3>1. PICK guid \in Guids : DisturbPulls(Customers, {guid})
      BY <2>2 DEF Rewrite, RemoveFile, TypeOK
    <3> QED  BY <1>0, <3>1, DisturbedPulls
  <2>3. CASE Expire
    <3>1. PICK one : DisturbPulls({one}, Guids)
      BY <2>3 DEF Expire
    <3> QED  BY <1>0, <3>1, DisturbedPulls
  <2> QED  BY <1>2, <2>1, <2>2, <2>3
<1> QED  BY <1>1, <1>2

LEMMA OptionsStep ==
    TypeOK /\ TypeOK' /\ OptionsKept /\ [Next]_vars => OptionsKept'
<1> SUFFICES ASSUME TypeOK, TypeOK', OptionsKept, [Next]_vars, NEW who \in Customers
             PROVE  /\ pulls'[who].mark <= pulls'[who].began
                    /\ pulls'[who].began <= Len(rows') + 1
                    /\ pulls'[who].pc = "list" => /\ pulls'[who].limit \in PageSizes
                                                  /\ pulls'[who].since \in {0, pulls'[who].mark}
  BY DEF OptionsKept
<1> DEFINE pull == pulls[who]
           Goal == /\ pulls'[who].mark <= pulls'[who].began
                   /\ pulls'[who].began <= Len(rows') + 1
                   /\ pulls'[who].pc = "list" => /\ pulls'[who].limit \in PageSizes
                                                 /\ pulls'[who].since \in {0, pulls'[who].mark}
<1>0. /\ pull \in Pulls /\ PullsOK
      /\ pull.mark \in Nat /\ pull.began \in Nat /\ Len(rows) \in Nat /\ Len(rows') \in Nat
      /\ pull.mark <= pull.began /\ pull.began <= Len(rows) + 1
      /\ pull.pc = "list" => pull.limit \in PageSizes /\ pull.since \in {0, pull.mark}
  <2>1. pull \in Pulls /\ PullsOK /\ Len(rows) \in Nat /\ Len(rows') \in Nat
    BY PullsAreOK DEF TypeOK, PullsOK
  <2> QED  BY <2>1, PullAssumption DEF OptionsKept, Pulls, Times
\* The times stay, and the number of rows does not shrink.
<1>1. ASSUME CommandKept(who), Len(rows') >= Len(rows) PROVE Goal
  BY <1>0, <1>1 DEF CommandKept, Downloading
<1>2. CASE Arrive
  <2>1. Len(rows') >= Len(rows) /\ UNCHANGED pulls
    BY <1>0, <1>2 DEF Arrive, TypeOK
  <2> QED  BY <1>1, <2>1 DEF CommandKept
<1>3. CASE Insert
  <2>1. PICK id \in DOMAIN rows :
           /\ rows' = [rows EXCEPT ![id].state = "visible"]
           /\ Overtaken(rows[id].guid, {id}, {rows[id].owner} \cup grants[rows[id].guid])
    BY <1>3 DEF Insert
  <2>2. Len(rows') >= Len(rows)
    BY <1>0, <2>1 DEF TypeOK
  <2>3. CommandKept(who)
    BY <1>0, <2>1, OvertakenPulls, VisibleRows DEF Rows
  <2> QED  BY <1>1, <2>2, <2>3
<1>4. CASE Grant
  <2>1. CommandKept(who) /\ UNCHANGED rows
    BY <1>0, <1>4, OvertakenPulls DEF Grant
  <2> QED  BY <1>0, <1>1, <2>1
<1>5. CASE Revoke \/ Rewrite \/ RemoveFile \/ Expire \/ StopServing
  <2>1. CommandKept(who)
    BY <1>0, <1>5, TakenAway
  <2>2. Len(rows') >= Len(rows)
    <3>1. CASE StopServing
      <4>1. DOMAIN rows' = DOMAIN rows
        BY <3>1 DEF StopServing
      <4> QED  BY <1>0, <4>1 DEF TypeOK
    <3> QED  BY <1>0, <1>5, <3>1 DEF Revoke, Rewrite, RemoveFile, Expire, dataVars
  <2> QED  BY <1>1, <2>1, <2>2
<1>6. CASE ServerStep \/ Rewritten \/ UNCHANGED vars
  BY <1>0, <1>1, <1>6 DEF ServerStep, Rewritten, vars, dataVars, CommandKept
<1>9. CASE InsertFails
  <2>1. Len(rows') = Len(rows) /\ UNCHANGED pulls
    BY <1>0, <1>9 DEF InsertFails, TypeOK
  <2> QED  BY <1>0, <1>1, <2>1 DEF CommandKept
<1>7. ASSUME NEW one \in Customers, one # who, Authenticate(one) \/ PullStep(one) PROVE Goal
  <2>1. pulls'[who] = pull /\ UNCHANGED rows
    BY <1>7, OthersKept DEF dataVars
  <2> QED  BY <1>0, <1>1, <2>1 DEF CommandKept
<1>8. ASSUME Authenticate(who) \/ PullStep(who) PROVE Goal
  <2>1. UNCHANGED rows
    BY <1>8, OthersKept DEF dataVars
  <2>2. CASE Authenticate(who)
    <3>1. PICK limit \in PageSizes, until \in Untils, since \in {0, pull.mark} :
             Becomes(who, [pull EXCEPT !.pc = "list", !.limit = limit, !.since = since,
                                       !.until = until, !.began = Len(rows) + 1])
      BY <2>2 DEF Authenticate
    <3>2. pulls'[who] = [pull EXCEPT !.pc = "list", !.limit = limit, !.since = since,
                                     !.until = until, !.began = Len(rows) + 1]
      BY <3>1, BecomesOne
    <3>3. /\ pulls'[who].mark = pull.mark /\ pulls'[who].began = Len(rows) + 1
          /\ pulls'[who].limit = limit /\ pulls'[who].since = since
      BY <1>0, <3>2 DEF Pulls
    <3> QED  BY <1>0, <2>1, <3>3
  <2>3. CASE ListFails(who) \/ Finish(who)
    <3>1. \/ pulls'[who] = Forget(pull)
          \/ pulls'[who] = [Forget(pull) EXCEPT
                              !.mark = IF pull.until = NoUntil THEN pull.began ELSE pull.mark,
                              !.have = pull.have \cup pull.listed]
      BY <2>3, BecomesOne DEF ListFails, Finish
    <3>2. /\ pulls'[who].pc = "idle" /\ pulls'[who].began = pull.began
          /\ pulls'[who].mark \in {pull.mark, pull.began}
      <4>1. /\ Forget(pull) \in Pulls /\ Forget(pull).pc = "idle"
            /\ Forget(pull).began = pull.began /\ Forget(pull).mark = pull.mark
        BY <1>0, TimesAreKnown DEF Forget, Pulls
      <4> QED  BY <1>0, <3>1, <4>1 DEF Pulls
    <3> QED  BY <1>0, <2>1, <3>2
  <2>4. CASE ListPage(who) \/ Download(who)
    <3>1. /\ pulls'[who].began = pull.began /\ pulls'[who].mark = pull.mark
          /\ pulls'[who].limit = pull.limit /\ pulls'[who].since = pull.since
          /\ pulls'[who].pc = "list" => pull.pc = "list"
      BY <2>4, CommandFields
    <3> QED  BY <1>0, <2>1, <3>1
  <2> QED  BY <1>8, <2>2, <2>3, <2>4 DEF PullStep, Download
<1> QED  BY <1>2, <1>3, <1>4, <1>5, <1>6, <1>7, <1>8, <1>9 DEF Next

\* Only a page takes a pull from listing to downloading.
LEMMA OnlyPagesEndLists ==
    ASSUME TypeOK, [Next]_vars, NEW who \in Customers, ~ ListPage(who), pulls[who].pc = "list"
    PROVE  pulls'[who].pc = "list" \/ pulls'[who].pc # "download"
<1>0. PullsOK /\ pulls[who] \in Pulls
  BY PullsAreOK DEF PullsOK
<1>1. CASE Arrive \/ InsertFails \/ Rewritten \/ ServerStep \/ UNCHANGED vars
  BY <1>1 DEF Arrive, InsertFails, Rewritten, ServerStep, vars
<1>2. CASE Insert
  <2>1. PICK id \in DOMAIN rows :
           Overtaken(rows[id].guid, {id}, {rows[id].owner} \cup grants[rows[id].guid])
    BY <1>2 DEF Insert
  <2> QED  BY <1>0, <2>1, OvertakenPulls, VisibleRows DEF Rows
<1>3. CASE Grant
  BY <1>0, <1>3, OvertakenPulls DEF Grant
<1>4. CASE Revoke \/ Rewrite \/ RemoveFile \/ Expire \/ StopServing
  BY <1>4, TakenAway
<1>5. ASSUME NEW one \in Customers, one # who, Authenticate(one) \/ PullStep(one)
      PROVE  pulls'[who].pc = "list"
  BY <1>5, OthersKept
<1>6. CASE Authenticate(who)
  BY <1>6 DEF Authenticate
<1>7. CASE PullStep(who)
  <2>1. ListFails(who)
    BY <1>7 DEF PullStep, FetchLatest, CheckGrants, LoadFile, RequestFails, Finish, Downloading
  <2>2. pulls'[who] = Forget(pulls[who])
    BY <2>1, BecomesOne DEF ListFails
  <2> QED  BY <1>0, <2>2 DEF Forget, Pulls
<1> QED  BY <1>1, <1>2, <1>3, <1>4, <1>5, <1>6, <1>7 DEF Next

\* The last page of a pull without -until: all that is accessible is known.
LEMMA WholeListIsKnown ==
    ASSUME TypeOK, OptionsKept, AllRemembered, NEW who \in Customers, ListPage(who),
           pulls[who].until = NoUntil, pulls'[who].pc = "download"
    PROVE  /\ pulls'[who].late \subseteq pulls[who].late
           /\ \A id \in Accessible(who) :
                 rows[id].guid \in pulls[who].have \cup pulls'[who].listed \cup pulls'[who].late
<1> DEFINE pull == pulls[who]
           page == List(who, pull.limit, pull.since, pull.until)
           next == [pull EXCEPT
                      !.pc = IF page.hasMore THEN "list" ELSE "download",
                      !.listed = pull.listed \cup page.vouchers,
                      !.late = IF page.hasMore \/ pull.since > 0 \/ pull.until # NoUntil
                                 THEN pull.late ELSE {},
                      !.disturbed = pull.disturbed \cup (page.vouchers \ (stored \ torn))]
<1>1. Becomes(who, next) /\ pull.pc = "list" /\ pull \in Pulls
  BY DEF ListPage, TypeOK
<1>2. pulls'[who] = next
  <2> HIDE DEF next
  <2> QED  BY <1>1, BecomesOne
<1>3. /\ ~ page.hasMore
      /\ pulls'[who].listed = pull.listed \cup page.vouchers
      /\ pulls'[who].late = IF pull.since > 0 THEN pull.late ELSE {}
  <2> HIDE DEF page
  <2> QED  BY <1>1, <1>2 DEF Pulls
<1>4. /\ pull.limit \in PageSizes /\ pull.since \in Times /\ pull.mark \in Nat
      /\ pull.since \in {0, pull.mark} /\ 0 \in Times
  BY <1>1, TimesAreKnown, PullAssumption DEF OptionsKept, Pulls, Times
<1>5. VouchersFor(who, pull.since) \subseteq page.vouchers
  BY <1>3, <1>4, LastPage
<1>6. ASSUME NEW id \in Accessible(who)
      PROVE  rows[id].guid \in pull.have \cup pulls'[who].listed \cup pulls'[who].late
  <2>0. id \in Nat
    BY VisibleRows DEF Accessible, Visible
  <2>1. CASE id >= pull.since
    <3>1. rows[id].guid \in page.vouchers
      BY <1>5, <2>1 DEF VouchersFor
    <3> QED  BY <1>3, <3>1
  <2>2. CASE id < pull.since
    <3>1. pull.since = pull.mark /\ pull.since > 0
      BY <1>4, <2>0, <2>2
    <3>2. Covered(who, pull.mark, pull.have \cup pull.late)
      BY <1>1 DEF AllRemembered, Remembered, WholeListIn, Downloading
    <3>3. \/ rows[id].guid \in pull.have \cup pull.late
          \/ rows[id].owner # who /\ \E newer \in RowsOf(rows[id].guid) : newer >= pull.since
      BY <1>4, <2>0, <2>2, <3>1, <3>2 DEF Covered
    <3>4. CASE rows[id].guid \in pull.have \cup pull.late
      BY <1>3, <3>1, <3>4
    <3>5. ASSUME rows[id].owner # who, NEW newer \in RowsOf(rows[id].guid), newer >= pull.since
          PROVE  rows[id].guid \in page.vouchers
      <4>1. newer \in Accessible(who) /\ rows[newer].guid = rows[id].guid
        BY <3>5 DEF Accessible, RowsOf
      <4> QED  BY <1>5, <3>5, <4>1 DEF VouchersFor
    <3> QED  BY <1>3, <3>3, <3>4, <3>5
  <2>3. id >= pull.since \/ id < pull.since
    BY <1>4, <2>0
  <2> QED  BY <2>1, <2>2, <2>3
<1> QED  BY <1>3, <1>6

\* The rows, the owners and the grants decide what has to be covered.
SameRows(who) ==
    /\ Visible' = Visible
    /\ \A id \in Visible : /\ rows'[id].guid = rows[id].guid
                          /\ rows'[id].owner = rows[id].owner
    /\ \A guid \in Guids : who \in grants'[guid] => who \in grants[guid]

LEMMA CoveredKept ==
    ASSUME TypeOK, NEW who \in Customers, SameRows(who), NEW time,
           NEW known, NEW more, known \subseteq more, Covered(who, time, known)
    PROVE  Covered(who, time, more)'
<1> SUFFICES ASSUME NEW id \in Accessible(who)'
             PROVE  \/ id >= time
                    \/ rows'[id].guid \in more
                    \/ /\ rows'[id].owner # who
                       /\ \E newer \in RowsOf(rows[id].guid)' : newer >= time
  BY DEF Covered
<1>1. id \in Visible /\ rows'[id].guid = rows[id].guid /\ rows'[id].owner = rows[id].owner
  BY DEF SameRows, Accessible
<1>2. rows[id].guid \in Guids
  <2>1. id \in DOMAIN rows
    BY <1>1 DEF Visible
  <2> QED  BY <2>1, VisibleRows DEF Rows
<1>3. id \in Accessible(who)
  BY <1>1, <1>2 DEF SameRows, Accessible
<1>4. \A newer \in RowsOf(rows[id].guid) : newer \in RowsOf(rows[id].guid)'
  BY <1>1 DEF SameRows, RowsOf
<1> QED  BY <1>1, <1>3, <1>4 DEF Covered

\* Steps of others: times stay, late may grow.
LEMMA MeanwhileRemembered ==
    ASSUME TypeOK, OptionsKept, NEW who \in Customers, Remembered(who, pulls[who]),
           CommandKept(who), pulls[who].late \subseteq pulls'[who].late,
           \A time \in Nat : \A known :
              time <= pulls[who].began /\ Covered(who, time, known)
                => \A more : known \subseteq more /\ pulls'[who].late \subseteq more
                                => Covered(who, time, more)'
    PROVE  Remembered(who, pulls[who])'
<1> DEFINE pull == pulls[who]
           next == pulls'[who]
<1>0. /\ pull.mark \in Nat /\ pull.began \in Nat /\ pull.mark <= pull.began
  <2>1. pull \in Pulls
    BY DEF TypeOK
  <2> QED  BY <2>1, PullAssumption DEF OptionsKept, Pulls, Times
<1>1. WholeListIn(next) <=> WholeListIn(pull)
  BY DEF CommandKept, WholeListIn
<1>2. CASE WholeListIn(pull)
  <2>1. Covered(who, pull.began, pull.have \cup pull.listed \cup pull.late)
    BY <1>2 DEF Remembered
  <2>2. /\ next.began = pull.began
        /\ pull.have \cup pull.listed \cup pull.late \subseteq next.have \cup next.listed \cup next.late
        /\ next.late \subseteq next.have \cup next.listed \cup next.late
    BY DEF CommandKept
  <2>3. PICK time, more : /\ time = next.began
                          /\ more = next.have \cup next.listed \cup next.late
    OBVIOUS
  <2>4. Covered(who, time, more)'
    BY <1>0, <2>1, <2>2, <2>3
  <2>5. Covered(who, pulls[who].began, pulls[who].have \cup pulls[who].listed \cup pulls[who].late)'
    BY <2>3, <2>4 DEF Covered
  <2> QED  BY <1>1, <1>2, <2>5 DEF Remembered, WholeListIn
<1>3. CASE ~ WholeListIn(pull)
  <2>1. Covered(who, pull.mark, pull.have \cup pull.late)
    BY <1>3 DEF Remembered
  <2>2. /\ next.mark = pull.mark
        /\ pull.have \cup pull.late \subseteq next.have \cup next.late
        /\ next.late \subseteq next.have \cup next.late
    BY DEF CommandKept
  <2>3. PICK time, more : time = next.mark /\ more = next.have \cup next.late
    OBVIOUS
  <2>4. Covered(who, time, more)'
    BY <1>0, <2>1, <2>2, <2>3
  <2>5. Covered(who, pulls[who].mark, pulls[who].have \cup pulls[who].late)'
    BY <2>3, <2>4 DEF Covered
  <2> QED  BY <1>1, <1>3, <2>5 DEF Remembered, WholeListIn
<1> QED  BY <1>2, <1>3

LEMMA InsertRemembered ==
    ASSUME TypeOK, OptionsKept, NEW who \in Customers, Remembered(who, pulls[who]), Insert
    PROVE  Remembered(who, pulls[who])'
<1>1. PICK id \in DOMAIN rows :
         /\ rows' = [rows EXCEPT ![id].state = "visible"]
         /\ Overtaken(rows[id].guid, {id}, {rows[id].owner} \cup grants[rows[id].guid])
  BY DEF Insert
<1>2. rows[id].guid \in Guids /\ id \in Nat
  BY VisibleRows DEF Rows
<1>3. /\ CommandKept(who) /\ pulls[who].late \subseteq pulls'[who].late
      /\ (who = rows[id].owner \/ who \in grants[rows[id].guid]) /\ id < pulls[who].began
           => rows[id].guid \in pulls'[who].late
  <2> DEFINE some == {rows[id].owner} \cup grants[rows[id].guid]
  <2>1. /\ CommandKept(who) /\ pulls[who].late \subseteq pulls'[who].late
        /\ who \in some /\ (\A any \in {id} : any < pulls[who].began)
             => rows[id].guid \in pulls'[who].late
    <3> HIDE DEF some
    <3>1. PICK guid, ids : guid = rows[id].guid /\ ids = {id}
      OBVIOUS
    <3>2. PullsOK /\ guid \in Guids /\ Overtaken(guid, ids, some)
      BY <1>1, <1>2, <3>1, PullsAreOK DEF some
    <3>3. /\ CommandKept(who) /\ pulls[who].late \subseteq pulls'[who].late
          /\ who \in some /\ (\A any \in ids : any < pulls[who].began) => guid \in pulls'[who].late
      BY <3>2, OvertakenPulls
    <3> QED  BY <3>1, <3>3
  <2>2. who = rows[id].owner \/ who \in grants[rows[id].guid] => who \in some
    OBVIOUS
  <2>3. id < pulls[who].began => \A any \in {id} : any < pulls[who].began
    OBVIOUS
  <2> HIDE DEF some
  <2> QED  BY <2>1, <2>2, <2>3
<1>4. /\ Visible' = Visible \cup {id}
      /\ \A one \in Visible' : rows'[one].guid = rows[one].guid /\ rows'[one].owner = rows[one].owner
      /\ grants' = grants
  <2>1. \A one \in DOMAIN rows : rows[one] \in Rows
    BY VisibleRows
  <2> QED  BY <1>1, <2>1 DEF Visible, Rows, Insert
<1>5. ASSUME NEW time \in Nat, NEW known, time <= pulls[who].began, Covered(who, time, known),
             NEW more, known \subseteq more, pulls'[who].late \subseteq more
      PROVE  Covered(who, time, more)'
  <2> SUFFICES ASSUME NEW one \in Accessible(who)'
               PROVE  \/ one >= time
                      \/ rows'[one].guid \in more
                      \/ /\ rows'[one].owner # who
                         /\ \E newer \in RowsOf(rows[one].guid)' : newer >= time
    BY DEF Covered
  <2>1. one \in Visible' /\ (rows[one].owner = who \/ who \in grants[rows[one].guid])
    BY <1>4 DEF Accessible
  <2>2. CASE one \in Visible
    <3>1. one \in Accessible(who)
      BY <2>1, <2>2 DEF Accessible
    <3>2. RowsOf(rows[one].guid) \subseteq RowsOf(rows[one].guid)'
      BY <1>4, <2>1 DEF RowsOf
    <3> QED  BY <1>4, <1>5, <2>1, <3>1, <3>2 DEF Covered
  <2>3. CASE one = id
    <3>1. pulls[who].began \in Nat
      BY PullAssumption DEF TypeOK, Pulls, Times
    <3>2. one >= time \/ one < pulls[who].began
      BY <1>2, <1>5, <2>3, <3>1
    <3> QED  BY <1>3, <1>4, <1>5, <2>1, <2>3, <3>2
  <2> QED  BY <1>4, <2>1, <2>2, <2>3
<1> QED  BY <1>3, <1>5, MeanwhileRemembered

LEMMA GrantRemembered ==
    ASSUME TypeOK, OptionsKept, NEW who \in Customers, Remembered(who, pulls[who]), Grant
    PROVE  Remembered(who, pulls[who])'
<1>1. PICK guid \in Guids, one \in Customers :
         /\ grants' = [grants EXCEPT ![guid] = grants[guid] \cup {one}]
         /\ Overtaken(guid, RowsOf(guid), {one})
  BY DEF Grant
<1>2. /\ CommandKept(who) /\ pulls[who].late \subseteq pulls'[who].late
      /\ who = one /\ (\A id \in RowsOf(guid) : id < pulls[who].began)
           => guid \in pulls'[who].late
  <2>1. PullsOK
    BY PullsAreOK
  <2>2. /\ CommandKept(who) /\ pulls[who].late \subseteq pulls'[who].late
        /\ who \in {one} /\ (\A id \in RowsOf(guid) : id < pulls[who].began)
             => guid \in pulls'[who].late
    BY <1>1, <2>1, OvertakenPulls
  <2> QED  BY <2>2
<1>3. /\ rows' = rows /\ pulls[who].began \in Nat
      /\ \A any \in Guids : who \in grants'[any] => who \in grants[any] \/ (any = guid /\ who = one)
  BY <1>1, PullAssumption DEF Grant, TypeOK, Pulls, Times
<1>4. ASSUME NEW time \in Nat, NEW known, time <= pulls[who].began, Covered(who, time, known),
             NEW more, known \subseteq more, pulls'[who].late \subseteq more
      PROVE  Covered(who, time, more)'
  <2> SUFFICES ASSUME NEW id \in Accessible(who)'
               PROVE  \/ id >= time
                      \/ rows[id].guid \in more
                      \/ /\ rows[id].owner # who
                         /\ \E newer \in RowsOf(rows[id].guid) : newer >= time
    BY <1>3 DEF Covered, RowsOf, Visible
  <2>1. id \in Visible /\ (rows[id].owner = who \/ who \in grants'[rows[id].guid])
    BY <1>3 DEF Accessible, Visible
  <2>2. rows[id].guid \in Guids
    BY <2>1, VisibleRows DEF Visible, Rows
  <2>3. CASE id \in Accessible(who)
    BY <1>4, <2>3 DEF Covered
  <2>4. CASE id \notin Accessible(who)
    <3>1. rows[id].owner # who /\ rows[id].guid = guid /\ who = one
      BY <1>3, <2>1, <2>2, <2>4 DEF Accessible
    <3>2. CASE \A other \in RowsOf(guid) : other < pulls[who].began
      BY <1>2, <1>4, <3>1, <3>2
    <3>3. ASSUME NEW other \in RowsOf(guid), ~ (other < pulls[who].began) PROVE other >= time
      <4>1. other \in Nat
        BY VisibleRows DEF RowsOf, Visible
      <4> QED  BY <1>3, <1>4, <3>3, <4>1
    <3> QED  BY <3>1, <3>2, <3>3
  <2> QED  BY <2>3, <2>4
<1> QED  BY <1>2, <1>4, MeanwhileRemembered

\* Nothing becomes accessible: what was covered is.
LEMMA UnchangedRemembered ==
    ASSUME TypeOK, OptionsKept, NEW who \in Customers, Remembered(who, pulls[who]),
           CommandKept(who), pulls'[who].late = pulls[who].late, SameRows(who)
    PROVE  Remembered(who, pulls[who])'
BY CoveredKept, MeanwhileRemembered

LEMMA RememberedStep ==
    TypeOK /\ OptionsKept /\ AllRemembered /\ [Next]_vars => AllRemembered'
<1> SUFFICES ASSUME TypeOK, OptionsKept, AllRemembered, [Next]_vars, NEW who \in Customers
             PROVE  Remembered(who, pulls[who])'
  BY DEF AllRemembered
<1> DEFINE pull == pulls[who]
<1>0. Remembered(who, pull) /\ PullsOK /\ pull \in Pulls
  BY PullsAreOK DEF AllRemembered, PullsOK
<1>1. CASE Arrive
  <2>1. Visible' = Visible /\ \A id \in Visible : rows'[id] = rows[id]
    <3>1. PICK row : row.state = "stamped" /\ rows' = Append(rows, row)
      BY <1>1 DEF Arrive
    <3>2. /\ DOMAIN rows' = DOMAIN rows \cup {Len(rows) + 1}
          /\ rows'[Len(rows) + 1] = row
          /\ \A id \in DOMAIN rows : rows'[id] = rows[id]
      BY <3>1 DEF TypeOK
    <3> QED  BY <3>1, <3>2 DEF Visible
  <2>2. SameRows(who) /\ CommandKept(who) /\ UNCHANGED pulls
    BY <1>1, <2>1 DEF SameRows, CommandKept, Arrive
  <2> QED  BY <1>0, <2>2, UnchangedRemembered
<1>2. CASE Insert
  BY <1>0, <1>2, InsertRemembered
<1>3. CASE Grant
  BY <1>0, <1>3, GrantRemembered
<1>4. CASE Revoke \/ Rewrite \/ RemoveFile \/ Expire \/ StopServing
  <2>1. CommandKept(who) /\ pulls'[who].late = pull.late
    BY <1>4, TakenAway
  <2>2. SameRows(who)
    <3>1. CASE StopServing
      <4>1. /\ DOMAIN rows' = DOMAIN rows
            /\ \A id \in DOMAIN rows :
                  /\ rows'[id].guid = rows[id].guid /\ rows'[id].owner = rows[id].owner
                  /\ rows'[id].state = "visible" <=> rows[id].state = "visible"
        <5>1. ASSUME NEW id \in DOMAIN rows
              PROVE  /\ rows'[id].guid = rows[id].guid /\ rows'[id].owner = rows[id].owner
                     /\ rows'[id].state = "visible" <=> rows[id].state = "visible"
          <6>1. rows[id] \in Rows
            BY VisibleRows
          <6>2. rows'[id] = [rows[id] EXCEPT !.state = IF rows[id].state = "stamped"
                                                         THEN "lost" ELSE rows[id].state]
            BY <3>1 DEF StopServing
          <6> QED  BY <6>1, <6>2 DEF Rows
        <5> QED  BY <3>1, <5>1 DEF StopServing
      <4> QED  BY <3>1, <4>1 DEF SameRows, Visible, StopServing
    <3>2. CASE Revoke
      BY <3>2 DEF SameRows, Visible, Revoke, TypeOK
    <3>3. CASE Rewrite \/ RemoveFile \/ Expire
      BY <3>3 DEF SameRows, Visible, Rewrite, RemoveFile, Expire, dataVars
    <3> QED  BY <1>4, <3>1, <3>2, <3>3
  <2> QED  BY <1>0, <2>1, <2>2, UnchangedRemembered
<1>5. CASE ServerStep \/ Rewritten \/ UNCHANGED vars
  <2>1. SameRows(who) /\ CommandKept(who) /\ UNCHANGED pulls
    BY <1>5 DEF ServerStep, Rewritten, vars, dataVars, SameRows, CommandKept, Visible
  <2> QED  BY <1>0, <2>1, UnchangedRemembered
<1>8. CASE InsertFails
  <2>1. Visible' = Visible /\ \A id \in Visible : rows'[id] = rows[id]
    <3>1. PICK id \in DOMAIN rows : /\ rows[id].state = "stamped"
                                   /\ rows' = [rows EXCEPT ![id].state = "lost"]
      BY <1>8 DEF InsertFails
    <3>2. rows'[id].state = "lost"
      BY <3>1, VisibleRows DEF Rows
    <3>3. DOMAIN rows' = DOMAIN rows /\ \A one \in DOMAIN rows : one # id => rows'[one] = rows[one]
      BY <3>1
    <3> QED  BY <3>1, <3>2, <3>3 DEF Visible
  <2>2. SameRows(who) /\ CommandKept(who) /\ UNCHANGED pulls
    BY <1>8, <2>1 DEF SameRows, CommandKept, InsertFails
  <2> QED  BY <1>0, <2>2, UnchangedRemembered
<1>6. ASSUME NEW one \in Customers, one # who, Authenticate(one) \/ PullStep(one)
      PROVE  Remembered(who, pulls[who])'
  <2>1. pulls'[who] = pull /\ UNCHANGED dataVars
    BY <1>6, OthersKept
  <2>2. SameRows(who) /\ CommandKept(who) /\ pulls'[who].late = pull.late
    BY <2>1 DEF dataVars, SameRows, CommandKept, Visible
  <2> QED  BY <1>0, <2>2, UnchangedRemembered
<1>7. ASSUME Authenticate(who) \/ PullStep(who) PROVE Remembered(who, pulls[who])'
  <2>0. UNCHANGED <<rows, grants>>
    BY <1>7, OthersKept DEF dataVars
  <2>1. \A time, known, more :
           known \subseteq more /\ Covered(who, time, known) => Covered(who, time, more)'
    <3>1. SameRows(who)
      BY <2>0 DEF SameRows, Visible
    <3> QED  BY <3>1, CoveredKept
  <2>2. ASSUME ~ WholeListIn(pull), ~ WholeListIn(pulls'[who]), pulls'[who].mark = pull.mark,
               pull.have \cup pull.late \subseteq pulls'[who].have \cup pulls'[who].late
        PROVE  Remembered(who, pulls[who])'
    <3>1. Covered(who, pull.mark, pull.have \cup pull.late)
      BY <1>0, <2>2 DEF Remembered
    <3>2. PICK time, more : time = pull.mark /\ more = pulls'[who].have \cup pulls'[who].late
      OBVIOUS
    <3>3. Covered(who, time, more)'
      BY <2>1, <2>2, <3>1, <3>2
    <3>4. Covered(who, pulls[who].mark, pulls[who].have \cup pulls[who].late)'
      BY <2>2, <3>2, <3>3 DEF Covered
    <3> QED  BY <2>2, <3>4 DEF Remembered, WholeListIn
  <2>3. CASE Authenticate(who)
    <3>1. PICK limit \in PageSizes, until \in Untils, since \in {0, pull.mark} :
             Becomes(who, [pull EXCEPT !.pc = "list", !.limit = limit, !.since = since,
                                       !.until = until, !.began = Len(rows) + 1])
      BY <2>3 DEF Authenticate
    <3>2. pulls'[who] = [pull EXCEPT !.pc = "list", !.limit = limit, !.since = since,
                                     !.until = until, !.began = Len(rows) + 1]
      BY <3>1, BecomesOne
    <3>3. /\ pull.pc = "idle" /\ pulls'[who].pc = "list" /\ pulls'[who].mark = pull.mark
          /\ pulls'[who].have = pull.have /\ pulls'[who].late = pull.late
      BY <1>0, <2>3, <3>2 DEF Authenticate, Pulls
    <3> QED  BY <2>2, <3>3 DEF WholeListIn, Downloading
  <2>4. CASE ListFails(who)
    <3>1. pulls'[who] = Forget(pull) /\ pull.pc = "list"
      BY <2>4, BecomesOne DEF ListFails
    <3>2. /\ pulls'[who].pc = "idle" /\ pulls'[who].mark = pull.mark
          /\ pulls'[who].have = pull.have /\ pulls'[who].late = pull.late
      BY <1>0, <3>1 DEF Forget, Pulls
    <3> QED  BY <2>2, <3>1, <3>2 DEF WholeListIn, Downloading
  <2>5. CASE ListPage(who)
    <3>1. /\ pull.pc = "list" /\ pulls'[who].until = pull.until /\ pulls'[who].began = pull.began
          /\ pulls'[who].mark = pull.mark /\ pulls'[who].have = pull.have
      BY <2>5, CommandFields DEF ListPage
    <3>2. CASE WholeListIn(pulls'[who])
      <4>1. pulls'[who].pc = "download" /\ pull.until = NoUntil
        BY <2>5, <3>1, <3>2, PageEnds DEF WholeListIn, Downloading
      <4>2. \A id \in Accessible(who) :
               rows[id].guid \in pull.have \cup pulls'[who].listed \cup pulls'[who].late
        BY <2>5, <4>1, WholeListIsKnown
      <4>3. PICK time, more : /\ time = pulls'[who].began
                              /\ more = pulls'[who].have \cup pulls'[who].listed \cup pulls'[who].late
        OBVIOUS
      <4>4. Covered(who, time, more)
        BY <3>1, <4>2, <4>3 DEF Covered
      <4>5. Covered(who, time, more)'
        BY <2>1, <4>4
      <4>6. Covered(who, pulls[who].began, pulls[who].have \cup pulls[who].listed \cup pulls[who].late)'
        BY <4>3, <4>5 DEF Covered
      <4> QED  BY <3>2, <4>6 DEF Remembered, WholeListIn
    <3>3. CASE ~ WholeListIn(pulls'[who])
      <4>1. pulls'[who].late = pull.late
        BY <2>5, <3>1, <3>3, PageEnds DEF WholeListIn, Downloading
      <4> QED  BY <2>2, <3>1, <3>3, <4>1 DEF WholeListIn, Downloading
    <3> QED  BY <3>2, <3>3
  <2>6. CASE Download(who)
    <3>1. /\ pull.pc \in Downloading /\ pulls'[who].pc \in Downloading
          /\ pulls'[who].until = pull.until /\ pulls'[who].began = pull.began
          /\ pulls'[who].mark = pull.mark /\ pulls'[who].have = pull.have
          /\ pulls'[who].listed = pull.listed /\ pulls'[who].late = pull.late
      BY <2>6, CommandFields
    <3>2. CASE WholeListIn(pull)
      <4>1. Covered(who, pull.began, pull.have \cup pull.listed \cup pull.late)
        BY <1>0, <3>2 DEF Remembered
      <4>2. PICK time, more : /\ time = pull.began
                              /\ more = pull.have \cup pull.listed \cup pull.late
        OBVIOUS
      <4>3. Covered(who, time, more)'
        BY <2>1, <4>1, <4>2
      <4>4. Covered(who, pulls[who].began, pulls[who].have \cup pulls[who].listed \cup pulls[who].late)'
        BY <3>1, <4>2, <4>3 DEF Covered
      <4> QED  BY <3>1, <3>2, <4>4 DEF Remembered, WholeListIn
    <3>3. CASE ~ WholeListIn(pull)
      BY <2>2, <3>1, <3>3 DEF WholeListIn
    <3> QED  BY <3>2, <3>3
  <2>7. CASE Finish(who)
    <3>1. pulls'[who] = [Forget(pull) EXCEPT
                           !.mark = IF pull.until = NoUntil THEN pull.began ELSE pull.mark,
                           !.have = pull.have \cup pull.listed]
      BY <2>7, BecomesOne DEF Finish
    <3>2. /\ pulls'[who].pc = "idle" /\ pulls'[who].late = pull.late
          /\ pulls'[who].mark = IF pull.until = NoUntil THEN pull.began ELSE pull.mark
          /\ pulls'[who].have = pull.have \cup pull.listed
      BY <1>0, <3>1 DEF Forget, Pulls
    <3>3. pull.pc = "download"
      BY <2>7 DEF Finish
    <3>4. CASE pull.until = NoUntil
      <4>1. Covered(who, pull.began, pull.have \cup pull.listed \cup pull.late)
        BY <1>0, <3>3, <3>4 DEF Remembered, WholeListIn, Downloading
      <4>2. PICK time, more : /\ time = pull.began
                              /\ more = pull.have \cup pull.listed \cup pull.late
        OBVIOUS
      <4>3. Covered(who, time, more)'
        BY <2>1, <4>1, <4>2
      <4>4. Covered(who, pulls[who].mark, pulls[who].have \cup pulls[who].late)'
        BY <3>2, <3>4, <4>2, <4>3 DEF Covered
      <4> QED  BY <3>2, <4>4 DEF Remembered, WholeListIn, Downloading
    <3>5. CASE pull.until # NoUntil
      BY <2>2, <3>2, <3>5 DEF WholeListIn, Downloading
    <3> QED  BY <3>4, <3>5
  <2> QED  BY <1>7, <2>3, <2>4, <2>5, <2>6, <2>7 DEF PullStep, Download
<1> QED  BY <1>1, <1>2, <1>3, <1>4, <1>5, <1>6, <1>7, <1>8 DEF Next

-------------------------------------------------------------------------------
(***************************************************************************)
(* The theorems.                                                           *)
(***************************************************************************)
PullInv == KeyInv /\ TypeOK /\ UndisturbedIsReady /\ OptionsKept /\ AllRemembered

LEMMA PullInvInit == Init => PullInv
<1> SUFFICES ASSUME Init PROVE PullInv
  OBVIOUS
<1>1. KeyInv
  BY KeyInvInit DEF Init
<1>2. PullOK(NoPull) /\ NoPull.pc = "idle"
  BY PullAssumption DEF PullOK, NoPull, Pulls, Times, Downloading
<1>3. TypeOK
  BY <1>1, <1>2, PullAssumption DEF Init, TypeOK, KeyInv, PullOK
<1>4. UndisturbedIsReady
  BY <1>2 DEF Init, UndisturbedIsReady, ListIsReady, NoPull
<1>5. OptionsKept
  BY DEF Init, OptionsKept, NoPull
<1>6. AllRemembered
  BY DEF Init, AllRemembered, Remembered, Covered, Accessible, Visible
<1> QED  BY <1>1, <1>3, <1>4, <1>5, <1>6 DEF PullInv

LEMMA PullInvStep == PullInv /\ [Next]_vars => PullInv'
BY KeyInvKept, PullTypeStep, ReadyStep, OptionsStep, RememberedStep DEF PullInv

\* The invariant holds in every reachable state of the pull service.
THEOREM PullInvariant == Spec => []PullInv
BY PullInvInit, PullInvStep, PTL DEF Spec

\* The rows, grants, sessions and pull commands stay well-formed through every
\* step of the pull service (pull_service_setup.go, pull_command.go).
THEOREM PullTypeCorrect == Spec => []TypeOK
<1>1. PullInv => TypeOK
  BY DEF PullInv
<1> QED  BY <1>1, PullInvariant, PTL

\* The pull service goes through the life of the owner key, so that all that is
\* proved of OwnerKeySpec holds of a server that answers pulls.
THEOREM PullServiceHasOwnerKey == Spec => OwnerKeySpec
<1>1. Init => OwnerKeyInit
  BY DEF Init
<1> QED  BY <1>1, KeyStep, PTL DEF Spec, OwnerKeySpec

\* The download check, the status check, the pull list and the voucher list agree
\* on who may see a voucher, whatever rows and grants there are.
THEOREM ViewsAlwaysAgree == Spec => []AccessViewsAgree
<1>1. PullInv => AccessViewsAgree
  BY ViewsAgree DEF PullInv
<1> QED  BY <1>1, PullInvariant, PTL

\* A page without has_more ends a complete list (voucher_pull_store.go:118), for
\* every number of rows and every page size.
THEOREM LastPageIsAlwaysComplete == Spec => []LastPageIsComplete
<1>1. PullInv => LastPageIsComplete
  BY LastPage DEF PullInv, LastPageIsComplete
<1> QED  BY <1>1, PullInvariant, PTL

\* A pull misses only what was disturbed while it went on: the access to a voucher,
\* its file, its request or the session (voucher_pull_store.go, pull_command.go).
THEOREM NothingIsMissedUndisturbed == Spec => []NothingMissedUndisturbed
<1>1. PullInv => NothingMissedUndisturbed
  BY DEF PullInv, UndisturbedIsReady, ListIsReady, NothingMissedUndisturbed
<1> QED  BY <1>1, PullInvariant, PTL

\* Pulls that each start with the time the last one began list everything between
\* them, but what became visible behind that time.
THEOREM IncrementalPullsAlwaysAddUp == Spec => IncrementalPullsAddUp
<1> DEFINE Complete(who) ==
      /\ pulls[who].pc = "list" /\ pulls'[who].pc = "download"
      /\ pulls[who].until = NoUntil
      => VouchersFor(who, 0) \subseteq pulls[who].have \cup pulls'[who].listed \cup pulls[who].late
<1>1. PullInv /\ [Next]_vars => [\A who \in Customers : Complete(who)]_vars
  <2> SUFFICES ASSUME PullInv, [Next]_vars, NEW who \in Customers,
                      pulls[who].pc = "list", pulls'[who].pc = "download",
                      pulls[who].until = NoUntil
               PROVE  VouchersFor(who, 0)
                        \subseteq pulls[who].have \cup pulls'[who].listed \cup pulls[who].late
    OBVIOUS
  <2>0. TypeOK /\ OptionsKept /\ AllRemembered /\ PullsOK
    BY PullsAreOK DEF PullInv
  <2>1. CASE ListPage(who)
    <3>1. /\ pulls'[who].late \subseteq pulls[who].late
          /\ \A id \in Accessible(who) :
                rows[id].guid \in pulls[who].have \cup pulls'[who].listed \cup pulls'[who].late
      BY <2>0, <2>1, WholeListIsKnown
    <3> QED  BY <3>1 DEF VouchersFor
  <2>2. ~ ListPage(who) => pulls'[who].pc = pulls[who].pc \/ pulls'[who].pc # "download"
    BY <2>0, OnlyPagesEndLists DEF PullInv
  <2> QED  BY <2>1, <2>2
<1> QED  BY <1>1, PullInvariant, PTL DEF Spec, IncrementalPullsAddUp
===============================================================================
