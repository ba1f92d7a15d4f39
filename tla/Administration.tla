--------------------------- MODULE Administration ---------------------------
(***************************************************************************)
(* The administrator's password and the run-time configuration, in memory  *)
(* and on disk: admin.rs and handler/ui/admin.rs, auth/password.rs and     *)
(* token.rs, runtime_config.rs, and what main.rs loads at start.  Handlers *)
(* run on several threads; the process may end between any two steps.      *)
(* What a new configuration does to the permits is Permits' subject.       *)
(***************************************************************************)
CONSTANTS
  Callers,    \* administrators' requests under way at a time
  Passwords,  \* passwords offered; a hash is the password it was made from
  Configs,    \* valid configurations; the default is one more
  Absent      \* no password, no file

EnvPassword == "env"
Default == "default"
ASSUME AbsentAssumption ==
  /\ Absent \notin Configs \cup Passwords \cup {"empty", "torn", "invalid", EnvPassword, Default}
  /\ {"empty", "torn"} \cap Configs = {} /\ "empty" \notin Passwords

VARIABLES
  serving,     \* the process is up; FALSE between a crash and the next start
  environment, \* ADMIN_PASSWORD is set
  hash,        \* admin_password_hash
  hashFile,    \* admin_hash_file; "empty" between truncation and write
  secretKept,  \* admin_secret_file holds admin_secret
  session,     \* there is an unexpired token that admin_secret has signed
  config,      \* runtime_config
  configFile,  \* runtime_config_file; "empty" and "torn" are not JSON
  tmp,         \* its temporary
  fd,          \* per caller: what its open temporary is by now
  doing,       \* per caller: the step it has come to
  wants,       \* per caller: the password or configuration it brought
  races,       \* history: a "setup" or an "apply" has met another one
  unsaved      \* history: the last save of "hash" or "config" failed

hashVars == <<environment, hash, hashFile, secretKept, session>>
configVars == <<config, configFile, tmp, fd>>
callVars == <<doing, wants>>
adminVars == <<serving, hashVars, configVars, callVars, races, unsaved>>

SetupSteps == {"checked", "hashTruncated", "hashSaved"}
ApplySteps == {"stored", "tmpTruncated", "tmpWritten"}
Busy(steps) == {c \in Callers : doing[c] \in steps}

Move(c, step) ==
  /\ doing' = [doing EXCEPT ![c] = step]
  /\ wants' = IF step = "idle" THEN [wants EXCEPT ![c] = Absent] ELSE wants

-----------------------------------------------------------------------------
(* What a start reads.  A configuration is not validated when it is loaded.*)

(* Mutant: an empty file counts as a hash.                                  *)
LoadedAsIs(f) == f

LoadedHash(f) == IF f \in {Absent, "empty"} THEN Absent ELSE f
LoadedConfig(f) == IF f \in {Absent, "empty", "torn"} THEN Default ELSE f

(* Mutant: the environment goes before the file.                           *)
EnvFirst(f) == IF environment THEN EnvPassword ELSE LoadedHash(f)

HashAtStart(f) ==
  IF LoadedHash(f) = Absent /\ environment THEN EnvPassword ELSE LoadedHash(f)

(* load_or_create_secret: a secret that cannot be saved is used all the    *)
(* same, and another one is made at the next start.                        *)
LoadSecret ==
  IF secretKept THEN UNCHANGED <<secretKept, session>>
  ELSE session' = FALSE /\ secretKept' \in BOOLEAN

Start ==
  /\ ~serving /\ serving' = TRUE
  /\ hash' = HashAtStart(hashFile)
  /\ IF LoadedHash(hashFile) = Absent /\ hash' = EnvPassword
     THEN \/ hashFile' = EnvPassword /\ unsaved' = {}
          \/ hashFile' \in {hashFile, "empty"} /\ unsaved' = {"hash"}
     ELSE UNCHANGED hashFile /\ unsaved' = {}
  /\ LoadSecret
  /\ config' = LoadedConfig(configFile)
  /\ UNCHANGED <<environment, configFile, tmp, fd, callVars, races>>

(* The process ends; the files stay as they are.                           *)
Crash ==
  /\ serving /\ serving' = FALSE
  /\ hash' = Absent /\ config' = Default
  /\ fd' = [c \in Callers |-> "none"]
  /\ doing' = [c \in Callers |-> "idle"] /\ wants' = [c \in Callers |-> Absent]
  /\ UNCHANGED <<environment, hashFile, secretKept, session, configFile, tmp,
                 races, unsaved>>

-----------------------------------------------------------------------------
(* admin_setup and ui_admin_setup.                                         *)

(* A password that is short or not confirmed is refused too.               *)
SetupCheck(c) ==
  /\ serving /\ doing[c] = "idle" /\ hash = Absent
  /\ \E p \in Passwords : wants' = [wants EXCEPT ![c] = p]
  /\ doing' = [doing EXCEPT ![c] = "checked"]
  /\ races' = IF Busy(SetupSteps) # {} THEN races \cup {"setup"} ELSE races
  /\ UNCHANGED <<serving, hashVars, configVars, unsaved>>

(* save_password_hash truncates and writes; a failure is dropped.          *)
TruncateHash(c) ==
  /\ doing[c] = "checked"
  /\ \/ hashFile' = "empty" /\ Move(c, "hashTruncated") /\ UNCHANGED unsaved
     \/ UNCHANGED hashFile /\ Move(c, "hashSaved") /\ unsaved' = unsaved \cup {"hash"}
  /\ UNCHANGED <<serving, environment, hash, secretKept, session, configVars, races>>

WriteHash(c) ==
  /\ doing[c] = "hashTruncated" /\ Move(c, "hashSaved")
  /\ \/ hashFile' = wants[c] /\ unsaved' = unsaved \ {"hash"}
     \/ UNCHANGED hashFile /\ unsaved' = unsaved \cup {"hash"}
  /\ UNCHANGED <<serving, environment, hash, secretKept, session, configVars, races>>

(* issue_token.                                                            *)
IssueToken == session' = TRUE

SetupEnd(c) ==
  /\ doing[c] = "hashSaved" /\ Move(c, "idle")
  /\ hash' = wants[c]
  /\ IssueToken
  /\ UNCHANGED <<serving, environment, hashFile, secretKept, configVars, races, unsaved>>

(* admin_login and ui_admin_login, with the right password.                *)
Login ==
  /\ serving /\ hash \in Passwords \cup {EnvPassword}
  /\ IssueToken
  /\ UNCHANGED <<serving, environment, hash, hashFile, secretKept, configVars, callVars,
                 races, unsaved>>

(* validate_token: signed with this process's secret and not expired.      *)
SessionOK == session

Expire ==
  /\ session /\ session' = FALSE
  /\ UNCHANGED <<serving, environment, hash, hashFile, secretKept, configVars, callVars,
                 races, unsaved>>

-----------------------------------------------------------------------------
(* admin_put_config, ui_admin_config_put, ui_admin_reset.                  *)

Valid(n) == n \in Configs \cup {Default}

(* The first step of apply_runtime_config: the configuration is in force.  *)
PutConfig(c) ==
  /\ serving /\ doing[c] = "idle" /\ SessionOK
  /\ \E n \in Configs \cup {Default, "invalid"} :
       /\ Valid(n)
       /\ wants' = [wants EXCEPT ![c] = n]
       /\ config' = n
  /\ doing' = [doing EXCEPT ![c] = "stored"]
  /\ races' = IF Busy(ApplySteps) # {} THEN races \cup {"apply"} ELSE races
  /\ UNCHANGED <<serving, hashVars, configFile, tmp, fd, unsaved>>

(* save fails: an error is logged, the rest of apply_runtime_config runs.  *)
SaveFails(c) ==
  /\ Move(c, "idle") /\ fd' = [fd EXCEPT ![c] = "none"]
  /\ unsaved' = unsaved \cup {"config"}

(* All saves use one temporary name: a second one truncates and writes the *)
(* file the first is writing.                                              *)
TruncateTmp(c) ==
  /\ doing[c] = "stored"
  /\ \/ /\ tmp' = "empty" /\ fd' = [fd EXCEPT ![c] = "tmp"]
        /\ Move(c, "tmpTruncated") /\ UNCHANGED unsaved
     \/ UNCHANGED tmp /\ SaveFails(c)
  /\ UNCHANGED <<serving, hashVars, config, configFile, races>>

(* Over a text that is already there a shorter one leaves its tail.        *)
Overwritten(c, content) ==
  IF content \in {"empty", wants[c]} THEN {wants[c]} ELSE {wants[c], "torn"}

(* Mutant: the result of the write is not looked at.                       *)
RenameAnyway(c) == Move(c, "tmpWritten") /\ UNCHANGED <<fd, unsaved>>

WriteFails(c) == SaveFails(c)

(* The open file may have been renamed to configFile, or be replaced.      *)
WriteTmp(c) ==
  /\ doing[c] = "tmpTruncated"
  /\ \/ /\ tmp' \in IF fd[c] = "tmp" THEN Overwritten(c, tmp) ELSE {tmp}
        /\ configFile' \in IF fd[c] = "file" THEN Overwritten(c, configFile) ELSE {configFile}
        /\ Move(c, "tmpWritten") /\ UNCHANGED <<fd, unsaved>>
     \/ /\ tmp' \in IF fd[c] = "tmp" THEN {tmp, "torn"} ELSE {tmp}
        /\ configFile' \in IF fd[c] = "file" THEN {configFile, "torn"} ELSE {configFile}
        /\ WriteFails(c)
  /\ UNCHANGED <<serving, hashVars, config, races>>

(* The rename moves whatever has the name; without one it fails.           *)
Renamed(c, f) ==
  CASE f = "tmp" -> "file"
    [] f = "file" -> "gone"
    [] OTHER -> f

RenameTmp(c) ==
  /\ doing[c] = "tmpWritten"
  /\ \/ /\ tmp # Absent /\ configFile' = tmp /\ tmp' = Absent
        /\ fd' = [x \in Callers |-> IF x = c THEN "none" ELSE Renamed(x, fd[x])]
        /\ Move(c, "idle") /\ unsaved' = unsaved \ {"config"}
     \/ UNCHANGED <<tmp, configFile>> /\ SaveFails(c)
  /\ UNCHANGED <<serving, hashVars, config, races>>

-----------------------------------------------------------------------------
AdminInit ==
  /\ serving = FALSE /\ environment \in BOOLEAN
  /\ hash = Absent /\ hashFile \in {Absent} \cup Passwords
  /\ secretKept = FALSE /\ session = FALSE
  /\ config = Default /\ configFile \in {Absent, "invalid"} \cup Configs
  /\ tmp = Absent /\ fd = [c \in Callers |-> "none"]
  /\ doing = [c \in Callers |-> "idle"] /\ wants = [c \in Callers |-> Absent]
  /\ races = {} /\ unsaved = {}

AdminNext ==
  \/ Start \/ Crash \/ Login \/ Expire
  \/ \E c \in Callers :
       \/ SetupCheck(c) \/ TruncateHash(c) \/ WriteHash(c) \/ SetupEnd(c)
       \/ PutConfig(c) \/ TruncateTmp(c) \/ WriteTmp(c) \/ RenameTmp(c)

AdminSpec == AdminInit /\ [][AdminNext]_adminVars

-----------------------------------------------------------------------------
(* Properties.                                                             *)

Hashes == Passwords \cup {EnvPassword, Absent}
AnyConfig == Configs \cup {Default, "invalid"}

AdminTypeOK ==
  /\ serving \in BOOLEAN /\ environment \in BOOLEAN
  /\ hash \in Hashes /\ hashFile \in Hashes \cup {"empty"}
  /\ secretKept \in BOOLEAN /\ session \in BOOLEAN
  /\ config \in AnyConfig
  /\ configFile \in AnyConfig \cup {Absent, "empty", "torn"}
  /\ tmp \in AnyConfig \cup {Absent, "empty", "torn"}
  /\ fd \in [Callers -> {"none", "tmp", "file", "gone"}]
  /\ doing \in [Callers -> SetupSteps \cup ApplySteps \cup {"idle"}]
  /\ wants \in [Callers -> Passwords \cup AnyConfig \cup {Absent}]
  /\ races \subseteq {"setup", "apply"} /\ unsaved \subseteq {"hash", "config"}

(* The password in force is the one the next start will find, whenever the *)
(* process may end: except while a setup is under way, after a save that   *)
(* failed, and once two setups have both found no password                 *)
(* (admin.rs:66-101, main.rs:109-116).                                     *)
PasswordAgrees ==
  serving /\ Busy(SetupSteps) = {} /\ "setup" \notin races /\ "hash" \notin unsaved =>
    LoadedHash(hashFile) = hash

(* Whenever the process ends it leaves a configuration that can be loaded, *)
(* and with no save under way or failed it is the one in force, as long as *)
(* two changes have not been saved at once through the shared temporary    *)
(* (runtime_config.rs:180-196, admin.rs:172-179).                          *)
ConfigLoadable ==
  "apply" \notin races =>
    /\ configFile \notin {"empty", "torn"}
    /\ serving /\ Busy(ApplySteps) = {} /\ "config" \notin unsaved =>
         LoadedConfig(configFile) = config
=============================================================================
