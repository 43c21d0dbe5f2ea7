-------------------------------- MODULE OwnerKey --------------------------------
(***************************************************************************)
(* The owner key of the server, and the file it is kept in.                *)
(*                                                                         *)
(* A server start resolves the key (loadOrGenerateOwnerKey), may export a  *)
(* newly generated one (exportPrivateKey: the file is truncated, then      *)
(* written), and then serves the key in its DID document and signs with it *)
(* (did_minting_setup.go).  The commands that sign read the key from the   *)
(* same file (voucher_assign_cli.go).  The server may be stopped or die at *)
(* any point; the key file is all that survives.                           *)
(***************************************************************************)
CONSTANTS
    Keys,        \* key pairs; a bound on how many the starts can generate
    Imported,    \* the key in import_key_file
    NoKey,       \* no key: ownerKey == nil
    NoKeyFile,   \* there is no file at key_export_path
    TornKeyFile  \* os.WriteFile truncated the file and has not written it

ASSUME OwnerKeyAssumption ==
    /\ Imported \in Keys
    /\ NoKey \notin Keys /\ NoKeyFile \notin Keys /\ TornKeyFile \notin Keys
    /\ NoKeyFile # TornKeyFile

VARIABLES
    config,        \* the settings that decide where the key comes from
    keyFile,       \* the file at key_export_path
    minted,        \* the keys that exist
    server,        \* the server process
    published,     \* history: the keys served in DID documents
    exportFailed   \* history: an export returned an error, which is only logged

keyVars == <<config, keyFile, minted, server, published, exportFailed>>

-------------------------------------------------------------------------------
Configs == [import: BOOLEAN,           \* key_management.import_key_file # ''
            firstTimeInit: BOOLEAN,    \* key_management.first_time_init
            exportPath: BOOLEAN]       \* did_minting.key_export_path # ''

Servers == [pc: {"down", "export", "write", "up"}, key: Keys \cup {NoKey}]

Down == [pc |-> "down", key |-> NoKey]
Up(key) == [pc |-> "up", key |-> key]

OwnerKeyTypeOK ==
    /\ config \in Configs
    /\ keyFile \in Keys \cup {NoKeyFile, TornKeyFile}
    /\ minted \subseteq Keys
    /\ server \in Servers
    /\ published \subseteq Keys
    /\ exportFailed \in BOOLEAN

OwnerKeyInit ==
    /\ config \in Configs
    /\ keyFile = NoKeyFile
    /\ minted = {Imported}
    /\ server = Down
    /\ published = {}
    /\ exportFailed = FALSE

-------------------------------------------------------------------------------
(***************************************************************************)
(* Starting the server.                                                    *)
(***************************************************************************)

\* The DID document is built from the key and served; without a key there is none.
Serve(key) ==
    /\ server' = Up(key)
    /\ published' = published \cup ({key} \ {NoKey})

\* The modes of loadOrGenerateOwnerKey that find a key.
LoadImported ==
    /\ config.import
    /\ Serve(Imported)
    /\ UNCHANGED <<keyFile, minted>>

Reuses == ~ config.import /\ config.firstTimeInit /\ config.exportPath

LoadPersisted ==
    /\ Reuses
    /\ keyFile \in Keys
    /\ Serve(keyFile)
    /\ UNCHANGED <<keyFile, minted>>

\* A file that is there and does not parse is an error: setupDIDMinting returns no
\* key, and the server runs without DID document, FDOKeyAuth and pull service.
LoadUnreadable ==
    /\ Reuses
    /\ keyFile = TornKeyFile
    /\ Serve(NoKey)
    /\ UNCHANGED <<keyFile, minted>>

\* Mutant of Generate: the DID document is served before the key is exported.
GenerateServed ==
    /\ ~ config.import
    /\ Reuses => keyFile = NoKeyFile
    /\ \E key \in Keys \ minted :
          /\ minted' = minted \cup {key}
          /\ published' = published \cup {key}
          /\ server' = [pc |-> IF config.exportPath THEN "export" ELSE "up", key |-> key]
    /\ UNCHANGED keyFile

\* Mutant of Generate: a key file that is already there is left alone.
GenerateKeepsFile ==
    /\ ~ config.import
    /\ Reuses => keyFile = NoKeyFile
    /\ \E key \in Keys \ minted :
          /\ minted' = minted \cup {key}
          /\ IF config.exportPath /\ keyFile \notin Keys
               THEN server' = [pc |-> "export", key |-> key] /\ UNCHANGED published
               ELSE Serve(key)
    /\ UNCHANGED keyFile

\* Otherwise a key is generated, and exported first if there is a path for it.
Generate ==
    /\ ~ config.import
    /\ Reuses => keyFile = NoKeyFile
    /\ \E key \in Keys \ minted :
          /\ minted' = minted \cup {key}
          /\ IF config.exportPath
               THEN server' = [pc |-> "export", key |-> key] /\ UNCHANGED published
               ELSE Serve(key)
    /\ UNCHANGED keyFile

Start ==
    /\ server.pc = "down"
    /\ LoadImported \/ LoadPersisted \/ LoadUnreadable \/ Generate
    /\ UNCHANGED <<config, exportFailed>>

-------------------------------------------------------------------------------
(***************************************************************************)
(* exportPrivateKey.                                                       *)
(***************************************************************************)
ExportOpen ==
    /\ server.pc = "export"
    /\ keyFile' = TornKeyFile
    /\ server' = [server EXCEPT !.pc = "write"]
    /\ UNCHANGED <<config, minted, published, exportFailed>>

ExportWrite ==
    /\ server.pc = "write"
    /\ keyFile' = server.key
    /\ Serve(server.key)
    /\ UNCHANGED <<config, minted, exportFailed>>

\* The directory or the file cannot be created, or the disk is full.
ExportFails ==
    /\ server.pc \in {"export", "write"}
    /\ exportFailed' = TRUE
    /\ Serve(server.key)
    /\ UNCHANGED <<config, keyFile, minted>>

\* A shutdown, or a crash in the middle of the start.
Stop ==
    /\ server.pc # "down"
    /\ server' = Down
    /\ UNCHANGED <<config, keyFile, minted, published, exportFailed>>

OwnerKeyNext == Start \/ ExportOpen \/ ExportWrite \/ ExportFails \/ Stop

OwnerKeySpec == OwnerKeyInit /\ [][OwnerKeyNext]_keyVars

-------------------------------------------------------------------------------
(***************************************************************************)
(* Properties.                                                             *)
(***************************************************************************)

\* The key loadOwnerSignerForCLI finds.
CliKey ==
    CASE config.import -> Imported
      [] ~ config.import /\ config.exportPath /\ keyFile \in Keys -> keyFile
      [] OTHER -> NoKey

\* PRODUCTION_CONSIDERATIONS.md:97 "generates the key once and reuses it across
\* restarts": with an imported or a persisted key, all DID documents ever served
\* hold one key, however often the server stops or dies while it exports the key
\* (unless an export returned an error: the server goes on with a key it loses).
OneIdentity ==
    config.import \/ Reuses
      => exportFailed \/ \A key, other \in published : key = other

\* While the server serves a key, a command that finds a key to sign with finds the
\* server's, so that vouchers signed over to the DID can be extended by both; also
\* when the server replaces its key at every start.
CliSignsAsServer ==
    /\ server.pc = "up" /\ server.key # NoKey
    /\ ~ exportFailed
    /\ config.import \/ config.exportPath
    => CliKey = server.key
===============================================================================
