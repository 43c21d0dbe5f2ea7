----------------------------- MODULE OwnerKeyProofs -----------------------------
(***************************************************************************)
(* Proofs about the owner key: every server start under the same           *)
(* configuration serves the same key, and the commands sign with it.       *)
(***************************************************************************)
EXTENDS OwnerKey, TLAPS

-------------------------------------------------------------------------------
(***************************************************************************)
(* The invariant.  A server that has got as far as the export has a newly  *)
(* generated key; until the file is written it has not been served, which  *)
(* is why a torn file never hides a key that is already known.             *)
(***************************************************************************)
Exporting == server.pc \in {"export", "write"}

\* The export follows the generation of a key and tears the file.
ExportState ==
    /\ Exporting => ~ config.import /\ config.exportPath /\ server.key \in Keys
    /\ server.pc = "write" => keyFile = TornKeyFile

\* An imported key is the only one served.
ImportedOnly ==
    config.import =>
        /\ published \subseteq {Imported}
        /\ server.pc = "up" => server.key = Imported

\* With a persisted key, all keys served are the one in the file.
PersistedOnly ==
    Reuses /\ ~ exportFailed =>
        /\ \A key \in published : key = keyFile
        /\ Exporting => published = {} /\ keyFile \notin Keys

\* A server that has a key exported it before it came up.
FileIsServers ==
    /\ server.pc = "up" /\ server.key # NoKey
    /\ ~ exportFailed /\ ~ config.import /\ config.exportPath
    => keyFile = server.key

KeyInv ==
    /\ OwnerKeyTypeOK
    /\ ExportState
    /\ ImportedOnly
    /\ PersistedOnly
    /\ FileIsServers

LEMMA KeyInvInit == OwnerKeyInit => KeyInv
<1> SUFFICES ASSUME OwnerKeyInit PROVE KeyInv
  OBVIOUS
<1>1. OwnerKeyTypeOK
  <2>1. server \in Servers
    BY DEF OwnerKeyInit, Servers, Down
  <2> QED  BY <2>1, OwnerKeyAssumption DEF OwnerKeyInit, OwnerKeyTypeOK
<1>2. server.pc = "down"
  BY DEF OwnerKeyInit, Down
<1>3. published = {}
  BY DEF OwnerKeyInit
<1> QED
  BY <1>1, <1>2, <1>3
     DEF KeyInv, ExportState, Exporting, ImportedOnly, PersistedOnly, FileIsServers

\* A key pair that is exported is one: the type invariant needs the rest of KeyInv.
LEMMA TypeStep == KeyInv /\ [OwnerKeyNext]_keyVars => OwnerKeyTypeOK'
<1> SUFFICES ASSUME KeyInv, [OwnerKeyNext]_keyVars PROVE OwnerKeyTypeOK'
  OBVIOUS
<1> USE OwnerKeyAssumption
    DEF KeyInv, ExportState, Exporting, OwnerKeyTypeOK, Servers, Down, Up
<1>1. CASE Start
  <2>1. CASE LoadImported
    BY <1>1, <2>1 DEF Start, LoadImported, Serve
  <2>2. CASE LoadPersisted
    BY <1>1, <2>2 DEF Start, LoadPersisted, Serve
  <2>3. CASE LoadUnreadable
    BY <1>1, <2>3 DEF Start, LoadUnreadable, Serve
  <2>4. CASE Generate
    BY <1>1, <2>4 DEF Start, Generate, Serve
  <2> QED  BY <1>1, <2>1, <2>2, <2>3, <2>4 DEF Start
<1>2. CASE ExportOpen
  BY <1>2 DEF ExportOpen
<1>3. CASE ExportWrite
  BY <1>3 DEF ExportWrite, Serve
<1>4. CASE ExportFails
  BY <1>4 DEF ExportFails, Serve
<1>5. CASE Stop
  BY <1>5 DEF Stop
<1>6. CASE UNCHANGED keyVars
  BY <1>6 DEF keyVars
<1> QED  BY <1>1, <1>2, <1>3, <1>4, <1>5, <1>6 DEF OwnerKeyNext

LEMMA KeyInvStep == KeyInv /\ [OwnerKeyNext]_keyVars => KeyInv'
<1> SUFFICES ASSUME KeyInv, [OwnerKeyNext]_keyVars PROVE KeyInv'
  OBVIOUS
<1>t. OwnerKeyTypeOK'
  BY TypeStep
<1>p. ExportState' /\ ImportedOnly' /\ PersistedOnly' /\ FileIsServers'
  <2> USE OwnerKeyAssumption
      DEF KeyInv, OwnerKeyTypeOK, Servers, Configs, Down, Up, ExportState, Exporting,
          ImportedOnly, PersistedOnly, FileIsServers, Reuses
  <2>1. CASE Start
    <3>1. CASE LoadImported
      BY <2>1, <3>1 DEF Start, LoadImported, Serve
    <3>2. CASE LoadPersisted
      BY <2>1, <3>2 DEF Start, LoadPersisted, Serve
    <3>3. CASE LoadUnreadable
      BY <2>1, <3>3 DEF Start, LoadUnreadable, Serve
    <3>4. CASE Generate
      <4> PICK key \in Keys \ minted :
              IF config.exportPath
                THEN server' = [pc |-> "export", key |-> key] /\ UNCHANGED published
                ELSE Serve(key)
        BY <3>4 DEF Generate
      <4>1. CASE config.exportPath
        BY <2>1, <3>4, <4>1 DEF Start, Generate
      <4>2. CASE ~ config.exportPath
        BY <2>1, <3>4, <4>2 DEF Start, Generate, Serve
      <4> QED  BY <4>1, <4>2
    <3> QED  BY <2>1, <3>1, <3>2, <3>3, <3>4 DEF Start
  <2>2. CASE ExportOpen
    BY <2>2 DEF ExportOpen
  <2>3. CASE ExportWrite
    BY <2>3 DEF ExportWrite, Serve
  <2>4. CASE ExportFails
    BY <2>4 DEF ExportFails, Serve
  <2>5. CASE Stop
    BY <2>5 DEF Stop
  <2>6. CASE UNCHANGED keyVars
    BY <2>6 DEF keyVars
  <2> QED  BY <2>1, <2>2, <2>3, <2>4, <2>5, <2>6 DEF OwnerKeyNext
<1> QED  BY <1>t, <1>p DEF KeyInv

\* The invariant holds in every reachable state of a server and its key file.
THEOREM KeyInvariant == OwnerKeySpec => []KeyInv
BY KeyInvInit, KeyInvStep, PTL DEF OwnerKeySpec

\* The state of the key, the key file and the server stays well-formed through
\* every start, export, failed export and stop (did_minting_setup.go).
THEOREM TypeCorrect == OwnerKeySpec => []OwnerKeyTypeOK
<1>1. KeyInv => OwnerKeyTypeOK
  BY DEF KeyInv
<1> QED  BY <1>1, KeyInvariant, PTL

-------------------------------------------------------------------------------
\* With an imported or a persisted key, all DID documents ever served hold one key,
\* whenever the server stops or dies, unless an export returned an error.
THEOREM IdentityIsKept == OwnerKeySpec => []OneIdentity
<1>1. KeyInv => OneIdentity
  BY DEF KeyInv, ImportedOnly, PersistedOnly, OneIdentity, Reuses
<1> QED  BY <1>1, KeyInvariant, PTL

\* While the server serves a key, the commands find it, although they read the
\* file by themselves (loadOwnerSignerForCLI).
THEOREM CommandsSignAsServer == OwnerKeySpec => []CliSignsAsServer
<1>1. KeyInv => CliSignsAsServer
  BY OwnerKeyAssumption
     DEF KeyInv, OwnerKeyTypeOK, Servers, Configs, ImportedOnly, FileIsServers,
         CliSignsAsServer, CliKey
<1> QED  BY <1>1, KeyInvariant, PTL
===============================================================================
