----------------------------- MODULE StoresProofs -----------------------------
(***************************************************************************)
(* What the process keeps between requests.  On disk, what a restart       *)
(* finds: the password and the configuration of Administration agree with  *)
(* their files, for any callers, passwords and configurations; and a flush *)
(* of Statistics leaves no total behind, for any set of handlers, while a  *)
(* page that watches is sent them all.  In memory, the bounds of           *)
(* RateBuckets and CoverCache, for any number of users, covers and         *)
(* concurrent calls.  Both count their entries, then make room for one and *)
(* insert it, without a lock; the argument is the same: a call that met no *)
(* other has either found room or made it by the time it inserts, and      *)
(* every call that met another is counted.                                 *)
(***************************************************************************)
EXTENDS Administration, Statistics, RateBuckets, CoverCache, FiniteSetTheorems, TLAPS

Steps == SetupSteps \cup ApplySteps \cup {"idle"}

Idle == ~serving => \A c \in Callers : doing[c] = "idle"

(* What a caller has brought is what its handler works with.               *)
Brought ==
  /\ \A c \in Busy(SetupSteps) : wants[c] \in Passwords
  /\ \A c \in Busy(ApplySteps) : Valid(wants[c])

(* While setups do not meet, one at most is under way; what it has saved   *)
(* is what it is about to put in force.                                    *)
SetupSound ==
  "setup" \notin races =>
    /\ \A c, d \in Busy(SetupSteps) : c = d
    /\ \A c \in Callers : doing[c] = "hashSaved" /\ "hash" \notin unsaved => hashFile = wants[c]

(* While changes do not meet, one at most is being saved: the one in       *)
(* force, and the temporary is its own.                                    *)
ApplySound ==
  "apply" \notin races =>
    /\ \A c, d \in Busy(ApplySteps) : c = d
    /\ \A c \in Busy(ApplySteps) : wants[c] = config
    /\ \A c \in Callers :
         /\ doing[c] = "tmpTruncated" => fd[c] = "tmp" /\ tmp = "empty"
         /\ doing[c] = "tmpWritten" => fd[c] = "tmp" /\ tmp = wants[c]
         /\ doing[c] \notin {"tmpTruncated", "tmpWritten"} => fd[c] = "none"

AdminInv ==
  AdminTypeOK /\ Idle /\ Brought /\ SetupSound /\ ApplySound /\ PasswordAgrees /\ ConfigLoadable

(* What a start reads from a file somebody has saved.                      *)
LEMMA Loaded ==
  /\ \A p \in Passwords \cup {EnvPassword} : LoadedHash(p) = p
  /\ \A n : Valid(n) => LoadedConfig(n) = n /\ n \notin {"empty", "torn"}
BY AbsentAssumption DEF LoadedHash, LoadedConfig, Valid, EnvPassword, Default

LEMMA AdminInitInv == AdminInit => AdminInv
<1> SUFFICES ASSUME AdminInit PROVE AdminInv
  OBVIOUS
<1>1. AdminTypeOK
  BY DEF AdminInit, AdminTypeOK, Hashes, AnyConfig
<1>2. Idle /\ Brought /\ SetupSound /\ ApplySound
  BY DEF AdminInit, Idle, Brought, SetupSound, ApplySound, Busy, SetupSteps, ApplySteps
<1>3. PasswordAgrees
  BY DEF AdminInit, PasswordAgrees
<1>4. ConfigLoadable
  BY AbsentAssumption DEF AdminInit, ConfigLoadable
<1>5. QED
  BY <1>1, <1>2, <1>3, <1>4 DEF AdminInv

(* The steps of a caller leave every other caller's alone.                 *)
LEMMA MoveOne ==
  ASSUME AdminTypeOK, NEW c \in Callers, NEW s \in Steps, Move(c, s)
  PROVE  /\ doing' \in [Callers -> Steps] /\ doing'[c] = s
         /\ \A d \in Callers : d # c => doing'[d] = doing[d] /\ wants'[d] = wants[d]
         /\ s # "idle" => wants' = wants
         /\ wants' \in [Callers -> Passwords \cup AnyConfig \cup {Absent}]
BY DEF AdminTypeOK, Move, Steps

LEMMA AdminNextTypeOK ==
  ASSUME AdminTypeOK, Brought, [AdminNext]_adminVars
  PROVE  AdminTypeOK'
<1> USE DEF AdminTypeOK, Hashes, AnyConfig, Steps, SetupSteps, ApplySteps, hashVars, configVars,
            callVars
<1>1. CASE Start
  <2>1. hash' \in Hashes /\ hashFile' \in Hashes \cup {"empty"}
    BY <1>1 DEF Start, HashAtStart, LoadedHash
  <2>2. config' \in AnyConfig
    BY <1>1 DEF Start, LoadedConfig
  <2>3. secretKept' \in BOOLEAN /\ session' \in BOOLEAN
    BY <1>1 DEF Start, LoadSecret
  <2>4. unsaved' \subseteq {"hash", "config"}
    BY <1>1 DEF Start
  <2>5. QED
    BY <1>1, <2>1, <2>2, <2>3, <2>4 DEF Start
<1>2. CASE Crash
  BY <1>2 DEF Crash
<1>3. CASE Login \/ Expire
  BY <1>3 DEF Login, Expire, IssueToken
<1>4. ASSUME NEW c \in Callers, SetupCheck(c) PROVE AdminTypeOK'
  BY <1>4 DEF SetupCheck
<1>5. ASSUME NEW c \in Callers, TruncateHash(c) \/ WriteHash(c) \/ SetupEnd(c)
      PROVE  AdminTypeOK'
  <2>1. wants[c] \in Passwords
    BY <1>5 DEF TruncateHash, WriteHash, SetupEnd, Brought, Busy
  <2>2. PICK s \in Steps : Move(c, s)
    BY <1>5 DEF TruncateHash, WriteHash, SetupEnd
  <2>3. doing' \in [Callers -> Steps] /\ wants' \in [Callers -> Passwords \cup AnyConfig \cup {Absent}]
    BY <2>2, MoveOne
  <2>4. CASE TruncateHash(c)
    <3>1. hashFile' \in Hashes \cup {"empty"} /\ unsaved' \subseteq {"hash", "config"}
      BY <2>4 DEF TruncateHash
    <3>2. QED
      BY <2>3, <2>4, <3>1 DEF TruncateHash
  <2>5. CASE WriteHash(c)
    <3>1. hashFile' \in Hashes \cup {"empty"} /\ unsaved' \subseteq {"hash", "config"}
      BY <2>1, <2>5 DEF WriteHash
    <3>2. QED
      BY <2>3, <2>5, <3>1 DEF WriteHash
  <2>6. CASE SetupEnd(c)
    BY <2>1, <2>3, <2>6 DEF SetupEnd, IssueToken
  <2>7. QED
    BY <1>5, <2>4, <2>5, <2>6
<1>6. ASSUME NEW c \in Callers, PutConfig(c) PROVE AdminTypeOK'
  BY <1>6 DEF PutConfig, Valid
<1>7. ASSUME NEW c \in Callers, TruncateTmp(c) \/ WriteTmp(c) \/ RenameTmp(c)
      PROVE  AdminTypeOK'
  <2>1. wants[c] \in AnyConfig
    BY <1>7 DEF TruncateTmp, WriteTmp, RenameTmp, Brought, Busy, Valid
  <2>2. PICK s \in Steps : Move(c, s)
    BY <1>7 DEF TruncateTmp, WriteTmp, RenameTmp, WriteFails, SaveFails
  <2>3. doing' \in [Callers -> Steps] /\ wants' \in [Callers -> Passwords \cup AnyConfig \cup {Absent}]
    BY <2>2, MoveOne
  <2>4. CASE TruncateTmp(c)
    <3>1. /\ tmp' \in AnyConfig \cup {Absent, "empty", "torn"}
          /\ fd' \in [Callers -> {"none", "tmp", "file", "gone"}]
          /\ unsaved' \subseteq {"hash", "config"}
      BY <2>4 DEF TruncateTmp, SaveFails
    <3>2. QED
      BY <2>3, <2>4, <3>1 DEF TruncateTmp
  <2>5. CASE WriteTmp(c)
    <3>1. /\ tmp' \in AnyConfig \cup {Absent, "empty", "torn"}
          /\ configFile' \in AnyConfig \cup {Absent, "empty", "torn"}
      BY <2>1, <2>5 DEF WriteTmp, Overwritten
    <3>2. QED
      BY <2>3, <2>5, <3>1 DEF WriteTmp, WriteFails, SaveFails
  <2>6. CASE RenameTmp(c)
    BY <2>3, <2>6 DEF RenameTmp, SaveFails, Renamed
  <2>7. QED
    BY <1>7, <2>4, <2>5, <2>6
<1>8. CASE UNCHANGED adminVars
  BY <1>8 DEF adminVars
<1>9. QED
  BY <1>1, <1>2, <1>3, <1>4, <1>5, <1>6, <1>7, <1>8 DEF AdminNext

(* The steps a caller takes in a handler.                                  *)
SetupStep(c) == SetupCheck(c) \/ TruncateHash(c) \/ WriteHash(c) \/ SetupEnd(c)
ApplyStep(c) == PutConfig(c) \/ TruncateTmp(c) \/ WriteTmp(c) \/ RenameTmp(c)

LEMMA AdminNextIdleBrought ==
  ASSUME AdminTypeOK, Idle, Brought, [AdminNext]_adminVars
  PROVE  Idle' /\ Brought'
<1> USE DEF Idle, Brought, Busy, SetupSteps, ApplySteps
<1>1. CASE Start \/ Login \/ Expire \/ UNCHANGED adminVars
  <2>1. doing' = doing /\ wants' = wants /\ (serving => serving')
    BY <1>1 DEF Start, Login, Expire, adminVars, callVars
  <2>2. QED
    BY <2>1 DEF Valid
<1>2. CASE Crash
  BY <1>2 DEF Crash
<1>3. ASSUME NEW c \in Callers, SetupStep(c) \/ ApplyStep(c) PROVE Idle' /\ Brought'
  <2>1. /\ serving' = serving /\ (doing[c] = "idle" => serving)
        /\ doing'[c] # "idle" \/ doing[c] # "idle"
    BY <1>3 DEF SetupStep, ApplyStep, SetupCheck, TruncateHash, WriteHash, SetupEnd, PutConfig,
                TruncateTmp, WriteTmp, RenameTmp, AdminTypeOK
  <2>2. \A d \in Callers : d # c => doing'[d] = doing[d] /\ wants'[d] = wants[d]
    BY <1>3 DEF SetupStep, ApplyStep, SetupCheck, TruncateHash, WriteHash, SetupEnd, PutConfig,
                TruncateTmp, WriteTmp, RenameTmp, SaveFails, WriteFails, Move, AdminTypeOK
  <2>3. doing'[c] \in SetupSteps => wants'[c] \in Passwords
    BY <1>3 DEF SetupStep, ApplyStep, SetupCheck, TruncateHash, WriteHash, SetupEnd, PutConfig,
                TruncateTmp, WriteTmp, RenameTmp, SaveFails, WriteFails, Move, AdminTypeOK
  <2>4. doing'[c] \in ApplySteps => Valid(wants'[c])
    BY <1>3 DEF SetupStep, ApplyStep, SetupCheck, TruncateHash, WriteHash, SetupEnd, PutConfig,
                TruncateTmp, WriteTmp, RenameTmp, SaveFails, WriteFails, Move, AdminTypeOK
  <2>5. Idle'
    BY <2>1, <2>2
  <2>6. QED
    BY <2>2, <2>3, <2>4, <2>5 DEF Valid
<1>4. QED
  BY <1>1, <1>2, <1>3 DEF AdminNext, SetupStep, ApplyStep

(* One setup at a time takes the hash from its caller to the file and then *)
(* to memory; a start takes it from the file, or from the environment to   *)
(* both.                                                                   *)
LEMMA AdminNextPassword ==
  ASSUME AdminTypeOK, Idle, Brought, SetupSound, PasswordAgrees, [AdminNext]_adminVars
  PROVE  SetupSound' /\ PasswordAgrees'
<1> USE DEF SetupSound, PasswordAgrees, Busy, SetupSteps
<1>1. CASE Start
  <2>1. LoadedHash(hashFile') = hash' \/ "hash" \in unsaved'
    BY <1>1, Loaded DEF Start, HashAtStart
  <2>2. \A c \in Callers : doing'[c] = "idle"
    BY <1>1 DEF Start, Idle, callVars
  <2>3. QED
    BY <2>1, <2>2
<1>2. CASE Crash
  BY <1>2 DEF Crash
<1>3. CASE Login \/ Expire \/ UNCHANGED adminVars
  BY <1>3 DEF Login, Expire, adminVars, callVars, hashVars
<1>4. ASSUME NEW c \in Callers, ApplyStep(c) PROVE SetupSound' /\ PasswordAgrees'
  <2>1. /\ serving' = serving /\ hash' = hash /\ hashFile' = hashFile
        /\ ("hash" \in unsaved' <=> "hash" \in unsaved)
        /\ ("setup" \in races' <=> "setup" \in races)
    BY <1>4 DEF ApplyStep, PutConfig, TruncateTmp, WriteTmp, RenameTmp, SaveFails, WriteFails,
                hashVars
  <2>2. /\ doing[c] \notin SetupSteps /\ doing'[c] \notin SetupSteps
        /\ \A d \in Callers : d # c => doing'[d] = doing[d] /\ wants'[d] = wants[d]
    BY <1>4 DEF ApplyStep, PutConfig, TruncateTmp, WriteTmp, RenameTmp, SaveFails, WriteFails,
                Move, AdminTypeOK
  <2>3. QED
    BY <2>1, <2>2
<1>5. ASSUME NEW c \in Callers, SetupCheck(c) PROVE SetupSound' /\ PasswordAgrees'
  <2>1. /\ doing' = [doing EXCEPT ![c] = "checked"] /\ doing[c] = "idle"
        /\ doing \in [Callers -> Steps]
        /\ \A d \in Callers : d # c => wants'[d] = wants[d]
        /\ hashFile' = hashFile /\ unsaved' = unsaved
        /\ races' = IF Busy(SetupSteps) # {} THEN races \cup {"setup"} ELSE races
    BY <1>5 DEF SetupCheck, AdminTypeOK, Steps, hashVars
  <2>2. QED
    BY <2>1
<1>6. ASSUME NEW c \in Callers, TruncateHash(c) \/ WriteHash(c)
      PROVE  SetupSound' /\ PasswordAgrees'
  <2>1. /\ doing[c] \in SetupSteps /\ doing'[c] \in SetupSteps
        /\ doing'[c] = "hashSaved" /\ "hash" \notin unsaved' => hashFile' = wants'[c]
        /\ \A d \in Callers : d # c => doing'[d] = doing[d]
        /\ races' = races
    BY <1>6 DEF TruncateHash, WriteHash, Move, AdminTypeOK
  <2>2. QED
    BY <2>1
<1>7. ASSUME NEW c \in Callers, SetupEnd(c) PROVE SetupSound' /\ PasswordAgrees'
  <2>1. /\ doing[c] = "hashSaved" /\ doing'[c] = "idle" /\ hash' = wants[c]
        /\ \A d \in Callers : d # c => doing'[d] = doing[d]
        /\ races' = races /\ hashFile' = hashFile /\ unsaved' = unsaved
    BY <1>7 DEF SetupEnd, Move, AdminTypeOK
  <2>2. wants[c] \in Passwords
    BY <2>1 DEF Brought
  <2>3. QED
    BY <2>1, <2>2, Loaded
<1>8. QED
  BY <1>1, <1>2, <1>3, <1>4, <1>5, <1>6, <1>7 DEF AdminNext, ApplyStep

(* One change at a time is in force from its first step, and reaches the   *)
(* file in one rename, complete.                                           *)
LEMMA AdminNextConfig ==
  ASSUME AdminTypeOK, Idle, Brought, ApplySound, ConfigLoadable, [AdminNext]_adminVars
  PROVE  ApplySound' /\ ConfigLoadable'
<1> USE DEF ApplySound, ConfigLoadable, Busy, ApplySteps
<1>1. CASE Start
  BY <1>1 DEF Start, Idle, callVars
<1>2. CASE Crash
  BY <1>2 DEF Crash
<1>3. CASE Login \/ Expire \/ UNCHANGED adminVars
  BY <1>3 DEF Login, Expire, adminVars, callVars, configVars
<1>4. ASSUME NEW c \in Callers, SetupStep(c) PROVE ApplySound' /\ ConfigLoadable'
  <2>1. /\ serving' = serving /\ UNCHANGED configVars
        /\ ("config" \in unsaved' <=> "config" \in unsaved)
        /\ ("apply" \in races' <=> "apply" \in races)
    BY <1>4 DEF SetupStep, SetupCheck, TruncateHash, WriteHash, SetupEnd
  <2>2. /\ doing[c] \notin ApplySteps /\ doing'[c] \notin ApplySteps
        /\ \A d \in Callers : d # c => doing'[d] = doing[d] /\ wants'[d] = wants[d]
    BY <1>4 DEF SetupStep, SetupCheck, TruncateHash, WriteHash, SetupEnd, Move, AdminTypeOK
  <2>3. QED
    BY <2>1, <2>2 DEF configVars
<1>5. ASSUME NEW c \in Callers, PutConfig(c) PROVE ApplySound' /\ ConfigLoadable'
  <2>1. /\ doing[c] = "idle" /\ doing'[c] = "stored" /\ wants'[c] = config'
        /\ \A d \in Callers : d # c => doing'[d] = doing[d] /\ wants'[d] = wants[d]
        /\ races' = IF Busy(ApplySteps) # {} THEN races \cup {"apply"} ELSE races
        /\ UNCHANGED <<configFile, tmp, fd>>
    BY <1>5 DEF PutConfig, AdminTypeOK
  <2>2. QED
    BY <2>1
<1>6. ASSUME NEW c \in Callers, "apply" \notin races, TruncateTmp(c) \/ WriteTmp(c) \/ RenameTmp(c)
      PROVE  ApplySound' /\ ConfigLoadable'
  <2>1. /\ c \in Busy(ApplySteps) /\ races' = races /\ config' = config
        /\ \A d \in Callers : d # c => /\ d \notin Busy(ApplySteps) /\ fd[d] = "none"
                                      /\ doing'[d] = doing[d] /\ wants'[d] = wants[d]
    BY <1>6 DEF TruncateTmp, WriteTmp, RenameTmp, SaveFails, WriteFails, Move, AdminTypeOK
  <2>2. Valid(wants[c]) /\ wants[c] = config
    BY <1>6, <2>1 DEF Brought
  <2>3. CASE TruncateTmp(c)
    <3>1. /\ \A d \in Callers : d # c => fd'[d] = fd[d]
          /\ configFile' = configFile
          /\ \/ /\ doing'[c] = "tmpTruncated" /\ fd'[c] = "tmp" /\ tmp' = "empty" /\ wants' = wants
             \/ /\ doing'[c] = "idle" /\ fd'[c] = "none" /\ "config" \in unsaved'
      BY <2>3 DEF TruncateTmp, SaveFails, Move, AdminTypeOK
    <3>2. QED
      BY <1>6, <2>1, <2>2, <3>1
  <2>4. CASE WriteTmp(c)
    <3>1. fd[c] = "tmp" /\ tmp = "empty"
      BY <1>6, <2>4 DEF WriteTmp
    <3>2. /\ \A d \in Callers : d # c => fd'[d] = fd[d]
          /\ configFile' = configFile
          /\ \/ /\ doing'[c] = "tmpWritten" /\ fd' = fd /\ tmp' = wants[c] /\ wants' = wants
             \/ /\ doing'[c] = "idle" /\ fd'[c] = "none" /\ "config" \in unsaved'
      BY <2>4, <3>1 DEF WriteTmp, Overwritten, SaveFails, WriteFails, Move, AdminTypeOK
    <3>3. QED
      BY <1>6, <2>1, <2>2, <3>1, <3>2
  <2>5. CASE RenameTmp(c)
    <3>1. tmp = wants[c]
      BY <1>6, <2>5 DEF RenameTmp
    <3>2. /\ \A d \in Callers : d # c => fd'[d] = fd[d]
          /\ doing'[c] = "idle" /\ fd'[c] = "none"
          /\ \/ configFile' = tmp
             \/ configFile' = configFile /\ "config" \in unsaved'
      BY <2>1, <2>5 DEF RenameTmp, Renamed, SaveFails, Move, AdminTypeOK
    <3>3. configFile' \notin {"empty", "torn"}
      BY <1>6, <2>2, <3>1, <3>2, Loaded
    <3>4. "config" \notin unsaved' => LoadedConfig(configFile') = config'
      BY <2>1, <2>2, <3>1, <3>2, Loaded
    <3>5. QED
      BY <2>1, <3>2, <3>3, <3>4
  <2>6. QED
    BY <1>6, <2>3, <2>4, <2>5
<1>7. ASSUME NEW c \in Callers, "apply" \in races, TruncateTmp(c) \/ WriteTmp(c) \/ RenameTmp(c)
      PROVE  ApplySound' /\ ConfigLoadable'
  BY <1>7 DEF TruncateTmp, WriteTmp, RenameTmp
<1>8. QED
  BY <1>1, <1>2, <1>3, <1>4, <1>5, <1>6, <1>7 DEF AdminNext, SetupStep

THEOREM AdminInvariant == AdminSpec => []AdminInv
<1>1. AdminInit => AdminInv
  BY AdminInitInv
<1>2. AdminInv /\ [AdminNext]_adminVars => AdminInv'
  BY AdminNextTypeOK, AdminNextIdleBrought, AdminNextPassword, AdminNextConfig DEF AdminInv
<1>3. QED
  BY <1>1, <1>2, PTL DEF AdminSpec

(* admin.rs:66-101, main.rs:109-116: the password in force is the one the  *)
(* next start finds.                                                       *)
THEOREM PasswordInForce == AdminSpec => []PasswordAgrees
<1>1. AdminInv => PasswordAgrees
  BY DEF AdminInv
<1>2. QED
  BY <1>1, AdminInvariant, PTL

(* runtime_config.rs:180-196: what a crash leaves can be loaded.           *)
THEOREM ConfigSurvives == AdminSpec => []ConfigLoadable
<1>1. AdminInv => ConfigLoadable
  BY DEF AdminInv
<1>2. QED
  BY <1>1, AdminInvariant, PTL

-----------------------------------------------------------------------------
(* Statistics.                                                             *)

(* A live page has been sent the total, or a handler is on its way to send *)
(* it: one that has still to look, or one that has looked since.           *)
OnItsWay ==
  watcher = Len(StreamSteps) =>
    \/ total \in seen
    \/ \E h \in Handlers :
         \/ counter[h] \in {"adding", "notify"}
         \/ counter[h] = "send" /\ snapshot[h] = total

(* Nobody watches a process that is down.                                  *)
NoGhosts == ~up => watcher = 0

StatInv == StatTypeOK /\ DirtyOrSaved /\ OnItsWay /\ NoGhosts

(* The page has subscribed before it is sent the totals.                   *)
LEMMA Subscribed ==
  /\ Len(StreamSteps) = 2
  /\ watcher = 2 => Listening
BY DEF StreamSteps, Listening

(* What is loaded from a file that holds a total is that total.            *)
LEMMA LoadTotal == \A n \in Nat : Load(n) = n
BY DEF Load, Torn

(* Nothing is counted, dirty or sent before the first start.               *)
LEMMA StatInitInv == StatInit => StatInv
<1> SUFFICES ASSUME StatInit PROVE StatInv
  OBVIOUS
<1>1. StatTypeOK
  <2>1. watcher \in 0..Len(StreamSteps) /\ seen \subseteq Nat /\ total \in Nat
    BY Subscribed DEF StatInit
  <2>2. up \in BOOLEAN /\ dirty \in BOOLEAN /\ failed \in BOOLEAN
    BY DEF StatInit
  <2>3. file \in Nat \cup {Torn} /\ flusher \in {"idle", "taken", "writing"}
    BY DEF StatInit
  <2>4. /\ counter \in [Handlers -> {"idle", "adding", "notify", "send"}]
        /\ snapshot \in [Handlers -> Nat]
    BY DEF StatInit
  <2>5. QED
    BY <2>1, <2>2, <2>3, <2>4 DEF StatTypeOK
<1>2. DirtyOrSaved
  BY DEF StatInit, DirtyOrSaved
<1>3. OnItsWay
  BY Subscribed DEF StatInit, OnItsWay
<1>4. NoGhosts
  BY DEF StatInit, NoGhosts
<1>5. QED
  BY <1>1, <1>2, <1>3, <1>4 DEF StatInv

(* Each step keeps the types.                                              *)
LEMMA StatNextTypeOK ==
  ASSUME StatTypeOK, [StatNext]_statVars
  PROVE  StatTypeOK'
<1> USE DEF StatTypeOK
<1>1. ASSUME NEW h \in Handlers,
             Add(h) \/ Mark(h) \/ Discount(h) \/ TakeSnapshot(h) \/ Send(h)
      PROVE  StatTypeOK'
  <2>1. CASE Add(h)
    BY <2>1 DEF Add
  <2>2. CASE Mark(h)
    BY <2>2 DEF Mark, Marked
  <2>3. CASE Discount(h)
    BY <2>3 DEF Discount
  <2>4. CASE TakeSnapshot(h)
    BY <2>4 DEF TakeSnapshot
  <2>5. CASE Send(h)
    BY <2>5 DEF Send
  <2>6. QED
    BY <1>1, <2>1, <2>2, <2>3, <2>4, <2>5
<1>2. CASE TakeFlag \/ OpenFile \/ WriteFile
  BY <1>2 DEF TakeFlag, OpenFile, WriteFile
<1>3. CASE WatchStep
  <2>1. watcher' \in 0..Len(StreamSteps)
    BY <1>3, Subscribed DEF WatchStep
  <2>2. seen' \subseteq Nat
    BY <1>3 DEF WatchStep
  <2>3. QED
    BY <1>3, <2>1, <2>2 DEF WatchStep
<1>4. CASE StatCrash
  <2>1. watcher' \in 0..Len(StreamSteps) /\ seen' \subseteq Nat
    BY <1>4, Subscribed DEF StatCrash
  <2>2. /\ counter' \in [Handlers -> {"idle", "adding", "notify", "send"}]
        /\ snapshot' \in [Handlers -> Nat]
    BY <1>4 DEF StatCrash
  <2>3. QED
    BY <1>4, <2>1, <2>2 DEF StatCrash
<1>5. CASE Restart
  <2>1. total' \in Nat
    BY <1>5 DEF Restart, Load
  <2>2. QED
    BY <1>5, <2>1 DEF Restart
<1>6. CASE UNCHANGED statVars
  BY <1>6 DEF statVars
<1>7. QED
  BY <1>1, <1>2, <1>3, <1>4, <1>5, <1>6 DEF StatNext

(* The flag goes down before the file is written, so whatever is counted   *)
(* from then on has to raise it again; a write that ends well has saved    *)
(* the total, which the lock has kept.                                     *)
LEMMA StatNextSaved ==
  ASSUME StatTypeOK, DirtyOrSaved, [StatNext]_statVars
  PROVE  DirtyOrSaved'
<1> USE DEF DirtyOrSaved
<1>1. ASSUME NEW h \in Handlers, Add(h) PROVE DirtyOrSaved'
  BY <1>1 DEF Add, StatTypeOK
<1>2. ASSUME NEW h \in Handlers, Mark(h) PROVE DirtyOrSaved'
  BY <1>2 DEF Mark, Marked
<1>3. ASSUME NEW h \in Handlers, Discount(h) \/ TakeSnapshot(h) \/ Send(h)
      PROVE  DirtyOrSaved'
  BY <1>3 DEF Discount, TakeSnapshot, Send, StatTypeOK
<1>4. CASE TakeFlag
  BY <1>4 DEF TakeFlag
<1>5. CASE OpenFile
  BY <1>5 DEF OpenFile
<1>6. CASE WriteFile
  BY <1>6, LoadTotal DEF WriteFile, StatTypeOK
<1>7. CASE WatchStep
  BY <1>7 DEF WatchStep
<1>8. CASE StatCrash
  BY <1>8 DEF StatCrash
<1>9. CASE Restart
  BY <1>9 DEF Restart
<1>10. CASE UNCHANGED statVars
  BY <1>10 DEF statVars
<1>11. QED
  BY <1>1, <1>2, <1>3, <1>4, <1>5, <1>6, <1>7, <1>8, <1>9, <1>10 DEF StatNext

(* A handler that changes the total sends a total it reads afterwards, and *)
(* a page that has read the first totals was listening before.             *)
LEMMA StatNextOnItsWay ==
  ASSUME StatTypeOK, OnItsWay, NoGhosts, [StatNext]_statVars
  PROVE  OnItsWay'
<1> USE DEF OnItsWay
<1>1. ASSUME NEW h \in Handlers, Add(h) PROVE OnItsWay'
  <2>1. counter'[h] = "adding"
    BY <1>1 DEF Add, StatTypeOK
  <2>2. QED
    BY <2>1
<1>2. ASSUME NEW h \in Handlers, Mark(h) \/ Discount(h) PROVE OnItsWay'
  <2>1. counter'[h] = "notify"
    BY <1>2 DEF Mark, Discount, StatTypeOK
  <2>2. QED
    BY <2>1
<1>3. ASSUME NEW h \in Handlers, TakeSnapshot(h) PROVE OnItsWay'
  <2>1. counter'[h] = "send" /\ snapshot'[h] = total'
    BY <1>3 DEF TakeSnapshot, StatTypeOK
  <2>2. QED
    BY <2>1
<1>4. ASSUME NEW h \in Handlers, Send(h), watcher' = Len(StreamSteps)
      PROVE  \/ total' \in seen'
             \/ \E g \in Handlers : \/ counter'[g] \in {"adding", "notify"}
                                    \/ counter'[g] = "send" /\ snapshot'[g] = total'
  <2>1. watcher = Len(StreamSteps) /\ Listening /\ total' = total
    BY <1>4, Subscribed DEF Send
  <2>2. CASE total \in seen
    BY <2>1, <2>2, <1>4 DEF Send
  <2>3. ASSUME NEW g \in Handlers,
               counter[g] \in {"adding", "notify"} \/ (counter[g] = "send" /\ snapshot[g] = total)
        PROVE  \/ total' \in seen'
               \/ counter'[g] \in {"adding", "notify"}
               \/ counter'[g] = "send" /\ snapshot'[g] = total'
    <3>1. CASE g = h
      BY <2>1, <2>3, <3>1, <1>4 DEF Send
    <3>2. CASE g # h
      BY <2>1, <2>3, <3>2, <1>4 DEF Send, StatTypeOK
    <3>3. QED
      BY <3>1, <3>2
  <2>4. QED
    BY <2>1, <2>2, <2>3
<1>5. CASE TakeFlag \/ OpenFile \/ WriteFile
  BY <1>5 DEF TakeFlag, OpenFile, WriteFile
<1>6. CASE WatchStep
  <2>1. watcher' = 2 => StreamSteps[watcher'] = "initial"
    BY DEF StreamSteps
  <2>2. watcher' = 2 => total' \in seen'
    BY <1>6, <2>1 DEF WatchStep
  <2>3. QED
    BY <2>2, Subscribed
<1>7. CASE StatCrash
  BY <1>7, Subscribed DEF StatCrash
<1>8. CASE Restart
  BY <1>8, Subscribed DEF Restart, NoGhosts
<1>9. CASE UNCHANGED statVars
  BY <1>9 DEF statVars
<1>10. QED
  BY <1>1, <1>2, <1>3, <1>4, <1>5, <1>6, <1>7, <1>8, <1>9 DEF StatNext

(* A page opens its stream to a running process and ends with it.          *)
LEMMA StatNextNoGhosts ==
  ASSUME NoGhosts, [StatNext]_statVars
  PROVE  NoGhosts'
BY DEF NoGhosts, StatNext, statVars, Add, Mark, Discount, TakeSnapshot, Send, TakeFlag,
       OpenFile, WriteFile, WatchStep, StatCrash, Restart

(* The invariant the theorems rest on.                                     *)
THEOREM StatInvariant == StatSpec => []StatInv
<1>1. StatInit => StatInv
  BY StatInitInv
<1>2. StatInv /\ [StatNext]_statVars => StatInv'
  BY StatNextTypeOK, StatNextSaved, StatNextOnItsWay, StatNextNoGhosts DEF StatInv
<1>3. QED
  BY <1>1, <1>2, PTL DEF StatSpec

(* stats_file.rs:88-98: a total the flag does not announce is in the file. *)
THEOREM TotalsSaved == StatSpec => []DirtyOrSaved
<1>1. StatInv => DirtyOrSaved
  BY DEF StatInv
<1>2. QED
  BY <1>1, StatInvariant, PTL

(* handler/stats.rs:24-45: a page that watches misses no total for good.   *)
THEOREM PagesCatchUp == StatSpec => []WatcherCatchesUp
<1>1. StatInv => WatcherCatchesUp
  BY DEF StatInv, StatTypeOK, OnItsWay, WatcherCatchesUp
<1>2. QED
  BY <1>1, StatInvariant, PTL

-----------------------------------------------------------------------------
(* What entries and pending insertions together may come to: one more than *)
(* the bound while somebody may still have to make room.                   *)
Within(entries, pending, bound, settled) ==
  /\ Cardinality(entries) + Cardinality(pending) <= bound + 1
  /\ settled => Cardinality(entries) + Cardinality(pending) <= bound

(* Sizes of sets that gain or lose one element, or lose a set they meet.   *)
LEMMA SizeAdd ==
  ASSUME NEW S, IsFiniteSet(S), NEW x
  PROVE  /\ IsFiniteSet(S \cup {x})
         /\ Cardinality(S \cup {x}) <= Cardinality(S) + 1
         /\ x \notin S => Cardinality(S \cup {x}) = Cardinality(S) + 1
         /\ Cardinality(S) \in Nat /\ Cardinality(S \cup {x}) \in Nat
BY FS_AddElement, FS_CardinalityType

LEMMA SizeRemove ==
  ASSUME NEW S, IsFiniteSet(S), NEW T
  PROVE  /\ IsFiniteSet(S \ T)
         /\ Cardinality(S \ T) <= Cardinality(S)
         /\ S \cap T # {} => Cardinality(S \ T) <= Cardinality(S) - 1
         /\ Cardinality(S) \in Nat /\ Cardinality(S \ T) \in Nat
<1>1. IsFiniteSet(S \ T) /\ Cardinality(S \ T) <= Cardinality(S)
  BY FS_Subset
<1>2. Cardinality(S) \in Nat /\ Cardinality(S \ T) \in Nat
  BY <1>1, FS_CardinalityType
<1>3. ASSUME S \cap T # {} PROVE Cardinality(S \ T) <= Cardinality(S) - 1
  <2>1. PICK x \in S : x \in T
    BY <1>3
  <2>2. S \ T \subseteq S \ {x}
    BY <2>1
  <2>3. IsFiniteSet(S \ {x}) /\ Cardinality(S \ {x}) = Cardinality(S) - 1
    BY <2>1, FS_RemoveElement
  <2>4. QED
    BY <2>2, <2>3, FS_Subset
<1>4. QED
  BY <1>1, <1>2, <1>3

-----------------------------------------------------------------------------
(* RateBuckets.                                                            *)

(* Somebody has found or made room that is not used yet, or nobody asks.   *)
RoomMade ==
  \/ InMiss = {}
  \/ \E t \in Tasks :
       \/ step[t] = "inserting"
       \/ step[t] = "removing" /\ victim[t] \cap buckets = {}

BucketInv ==
  /\ BucketTypeOK
  /\ Cardinality(InMiss) <= meetings + 1
  /\ Within(buckets, InMiss, MaxUsers + meetings, RoomMade)

LEMMA BucketsFinite ==
  ASSUME BucketTypeOK
  PROVE  /\ IsFiniteSet(buckets) /\ IsFiniteSet(InMiss)
         /\ Cardinality(buckets) \in Nat /\ Cardinality(InMiss) \in Nat
         /\ MaxUsers \in Nat /\ MaxUsers >= 1 /\ meetings \in Nat
<1>1. buckets \subseteq Users /\ InMiss \subseteq Tasks
  BY DEF BucketTypeOK, InMiss
<1>2. IsFiniteSet(buckets) /\ IsFiniteSet(InMiss)
  BY <1>1, LimiterAssumption, FS_Subset
<1>3. MaxUsers \in Nat /\ MaxUsers >= 1 /\ meetings \in Nat
  BY LimiterAssumption DEF BucketTypeOK
<1>4. QED
  BY <1>2, <1>3, FS_CardinalityType

LEMMA BucketNextTypeOK ==
  ASSUME BucketTypeOK, [BucketNext]_bucketVars
  PROVE  BucketTypeOK'
<1> USE LimiterAssumption DEF BucketTypeOK, Missing
<1>1. ASSUME NEW t \in Tasks, NEW u \in Users, LookUp(t, u) PROVE BucketTypeOK'
  BY <1>1 DEF LookUp, Goto
<1>2. ASSUME NEW t \in Tasks, CheckSize(t) \/ FindOldest(t) PROVE BucketTypeOK'
  <2>1. CASE CheckSize(t)
    BY <2>1 DEF CheckSize, Goto
  <2>2. CASE FindOldest(t)
    <3>1. PICK found \in SUBSET buckets : victim' = [victim EXCEPT ![t] = found]
      BY <2>2 DEF FindOldest
    <3>2. QED
      BY <2>2, <3>1 DEF FindOldest, Goto
  <2>3. QED
    BY <1>2, <2>1, <2>2
<1>3. ASSUME NEW t \in Tasks, RemoveOldest(t) PROVE BucketTypeOK'
  BY <1>3 DEF RemoveOldest, Goto
<1>4. ASSUME NEW t \in Tasks, Insert(t) \/ Touch(t) PROVE BucketTypeOK'
  BY <1>4 DEF Insert, Touch, Goto
<1>5. CASE Tick
  BY <1>5 DEF Tick
<1>6. CASE UNCHANGED bucketVars
  BY <1>6 DEF bucketVars
<1>7. QED
  BY <1>1, <1>2, <1>3, <1>4, <1>5, <1>6 DEF BucketNext

(* A miss that begins, alone or beside others.                             *)
LEMMA LookUpKeepsBound ==
  ASSUME BucketInv, NEW t \in Tasks, NEW u \in Users, LookUp(t, u), BucketTypeOK'
  PROVE  BucketInv'
<1> USE DEF BucketInv, Within
<1>1. step' = [step EXCEPT ![t] = IF u \in buckets THEN "touch" ELSE "missed"]
      /\ step \in [Tasks -> Missing \cup {"idle", "touch"}] /\ step[t] = "idle"
  BY DEF LookUp, Goto, BucketTypeOK
<1>2. buckets' = buckets /\ victim' = victim
  BY DEF LookUp
<1>3. CASE u \in buckets
  <2>1. InMiss' = InMiss /\ meetings' = meetings
    BY <1>1, <1>3 DEF InMiss, Missing, LookUp
  <2>2. RoomMade' => RoomMade
    BY <1>1, <1>2, <1>3, <2>1 DEF RoomMade
  <2>3. QED
    BY <1>2, <2>1, <2>2
<1>4. CASE u \notin buckets
  <2>1. InMiss' = InMiss \cup {t} /\ t \notin InMiss
    BY <1>1, <1>4 DEF InMiss, Missing
  <2>2. Cardinality(InMiss') = Cardinality(InMiss) + 1
    BY <2>1, BucketsFinite, SizeAdd
  <2>3. CASE InMiss = {}
    <3>1. meetings' = meetings
      BY <1>4, <2>3 DEF LookUp
    <3>2. ~RoomMade'
      BY <1>1, <1>4, <2>1, <2>3 DEF RoomMade, InMiss, Missing
    <3>3. Cardinality(InMiss) = 0
      BY <2>3, FS_EmptySet
    <3>4. QED
      BY <1>2, <2>2, <2>3, <3>1, <3>2, <3>3, BucketsFinite DEF RoomMade
  <2>4. CASE InMiss # {}
    <3>1. meetings' = meetings + 1
      BY <1>4, <2>4 DEF LookUp
    <3>2. RoomMade' => RoomMade
      BY <1>1, <1>2, <1>4, <2>1 DEF RoomMade
    <3>3. QED
      BY <1>2, <2>2, <3>1, <3>2, BucketsFinite
  <2>5. QED
    BY <2>3, <2>4
<1>5. QED
  BY <1>3, <1>4

(* A miss goes on: it finds room or a victim, or makes room.               *)
LEMMA CheckSizeKeepsBound ==
  ASSUME BucketInv, NEW t \in Tasks, CheckSize(t), BucketTypeOK'
  PROVE  BucketInv'
<1> USE DEF BucketInv, Within
<1>1. /\ step \in [Tasks -> Missing \cup {"idle", "touch"}] /\ step[t] = "missed"
      /\ step' = [step EXCEPT ![t] = IF Full THEN "evicting" ELSE "inserting"]
      /\ buckets' = buckets /\ victim' = victim /\ meetings' = meetings
  BY DEF CheckSize, Goto, BucketTypeOK
<1>2. InMiss' = InMiss
  BY <1>1 DEF InMiss, Missing
<1>3. CASE Full
  <2>1. RoomMade' => RoomMade
    BY <1>1, <1>2, <1>3 DEF RoomMade
  <2>2. QED
    BY <1>1, <1>2, <2>1
<1>4. CASE ~Full
  BY <1>1, <1>2, <1>4, BucketsFinite DEF Full
<1>5. QED
  BY <1>3, <1>4

LEMMA FindOldestKeepsBound ==
  ASSUME BucketInv, NEW t \in Tasks, FindOldest(t), BucketTypeOK'
  PROVE  BucketInv'
<1> USE DEF BucketInv, Within
<1>1. PICK found \in SUBSET buckets :
        /\ IF buckets = {} THEN found = {} ELSE Cardinality(found) = 1
        /\ victim' = [victim EXCEPT ![t] = found]
  BY DEF FindOldest
<1>2. /\ step \in [Tasks -> Missing \cup {"idle", "touch"}] /\ step[t] = "evicting"
      /\ step' = [step EXCEPT ![t] = "removing"] /\ victim \in [Tasks -> SUBSET Users]
      /\ buckets' = buckets /\ meetings' = meetings
  BY DEF FindOldest, Goto, BucketTypeOK
<1>3. InMiss' = InMiss
  BY <1>2 DEF InMiss, Missing
<1>4. CASE buckets = {}
  BY <1>2, <1>3, <1>4, BucketsFinite, FS_EmptySet
<1>5. CASE buckets # {}
  <2>1. found \cap buckets # {}
    BY <1>1, <1>5, FS_EmptySet
  <2>2. RoomMade' => RoomMade
    BY <1>1, <1>2, <1>3, <2>1 DEF RoomMade
  <2>3. QED
    BY <1>2, <1>3, <2>2
<1>6. QED
  BY <1>4, <1>5

LEMMA RemoveOldestKeepsBound ==
  ASSUME BucketInv, NEW t \in Tasks, RemoveOldest(t), BucketTypeOK'
  PROVE  BucketInv'
<1> USE DEF BucketInv, Within
<1>1. /\ step \in [Tasks -> Missing \cup {"idle", "touch"}] /\ step[t] = "removing"
      /\ step' = [step EXCEPT ![t] = "inserting"]
      /\ buckets' = buckets \ victim[t] /\ meetings' = meetings
  BY DEF RemoveOldest, Goto, BucketTypeOK
<1>2. InMiss' = InMiss
  BY <1>1 DEF InMiss, Missing
<1>3. /\ Cardinality(buckets') \in Nat /\ Cardinality(buckets') <= Cardinality(buckets)
      /\ buckets \cap victim[t] # {} => Cardinality(buckets') <= Cardinality(buckets) - 1
  BY <1>1, BucketsFinite, SizeRemove
<1>4. buckets \cap victim[t] = {} => RoomMade
  BY <1>1 DEF RoomMade
<1>5. QED
  BY <1>1, <1>2, <1>3, <1>4, BucketsFinite

LEMMA InsertKeepsBound ==
  ASSUME BucketInv, NEW t \in Tasks, Insert(t), BucketTypeOK'
  PROVE  BucketInv'
<1> USE DEF BucketInv, Within
<1>1. /\ step \in [Tasks -> Missing \cup {"idle", "touch"}] /\ step[t] = "inserting"
      /\ step' = [step EXCEPT ![t] = "touch"]
      /\ buckets' = buckets \cup {user[t]} /\ meetings' = meetings
  BY DEF Insert, Goto, BucketTypeOK
<1>2. InMiss' = InMiss \ {t} /\ t \in InMiss
  BY <1>1 DEF InMiss, Missing
<1>3. Cardinality(InMiss') = Cardinality(InMiss) - 1
  BY <1>2, BucketsFinite, FS_RemoveElement
<1>4. Cardinality(buckets') \in Nat /\ Cardinality(buckets') <= Cardinality(buckets) + 1
  BY <1>1, BucketsFinite, SizeAdd
<1>5. RoomMade
  BY <1>1 DEF RoomMade
<1>6. QED
  BY <1>1, <1>3, <1>4, <1>5, BucketsFinite

LEMMA BucketNextInv ==
  ASSUME BucketInv, [BucketNext]_bucketVars
  PROVE  BucketInv'
<1>0. BucketTypeOK'
  BY BucketNextTypeOK DEF BucketInv
<1>1. ASSUME NEW t \in Tasks, NEW u \in Users, LookUp(t, u) PROVE BucketInv'
  BY <1>0, <1>1, LookUpKeepsBound
<1>2. ASSUME NEW t \in Tasks, CheckSize(t) PROVE BucketInv'
  BY <1>0, <1>2, CheckSizeKeepsBound
<1>3. ASSUME NEW t \in Tasks, FindOldest(t) PROVE BucketInv'
  BY <1>0, <1>3, FindOldestKeepsBound
<1>4. ASSUME NEW t \in Tasks, RemoveOldest(t) PROVE BucketInv'
  BY <1>0, <1>4, RemoveOldestKeepsBound
<1>5. ASSUME NEW t \in Tasks, Insert(t) PROVE BucketInv'
  BY <1>0, <1>5, InsertKeepsBound
<1>6. ASSUME NEW t \in Tasks, Touch(t) PROVE BucketInv'
  <2>1. /\ step' = [step EXCEPT ![t] = "idle"] /\ step[t] = "touch"
        /\ step \in [Tasks -> Missing \cup {"idle", "touch"}]
        /\ buckets' = buckets /\ victim' = victim /\ meetings' = meetings
    BY <1>6 DEF Touch, Goto, BucketInv, BucketTypeOK
  <2>2. InMiss' = InMiss
    BY <2>1 DEF InMiss, Missing
  <2>3. RoomMade' => RoomMade
    BY <2>1, <2>2 DEF RoomMade
  <2>4. QED
    BY <1>0, <2>1, <2>2, <2>3 DEF BucketInv, Within
<1>7. CASE Tick \/ UNCHANGED bucketVars
  <2>1. /\ step' = step /\ buckets' = buckets /\ victim' = victim /\ meetings' = meetings
    BY <1>7 DEF Tick, bucketVars
  <2>2. InMiss' = InMiss /\ (RoomMade' <=> RoomMade)
    BY <2>1 DEF InMiss, RoomMade
  <2>3. QED
    BY <1>0, <2>1, <2>2 DEF BucketInv, Within
<1>8. QED
  BY <1>1, <1>2, <1>3, <1>4, <1>5, <1>6, <1>7 DEF BucketNext

(* The invariant the bound of the buckets rests on.                        *)
THEOREM BucketInvariant == BucketSpec => []BucketInv
<1>1. BucketInit => BucketInv
  <2> SUFFICES ASSUME BucketInit PROVE BucketInv
    OBVIOUS
  <2>1. BucketTypeOK
    BY LimiterAssumption DEF BucketInit, BucketTypeOK
  <2>2. InMiss = {} /\ buckets = {}
    BY DEF BucketInit, InMiss, Missing
  <2>3. Cardinality(InMiss) = 0 /\ Cardinality(buckets) = 0
    BY <2>2, FS_EmptySet
  <2>4. QED
    BY <2>1, <2>3, BucketsFinite DEF BucketInv, Within
<1>2. BucketInv /\ [BucketNext]_bucketVars => BucketInv'
  BY BucketNextInv
<1>3. QED
  BY <1>1, <1>2, PTL DEF BucketSpec

(* governor_limiter.rs:55-85: what the map may grow to.                    *)
THEOREM BucketsStayBounded == BucketSpec => []BucketsBounded
<1>1. BucketInv => BucketsBounded
  <2> SUFFICES ASSUME BucketInv PROVE BucketsBounded
    OBVIOUS
  <2>1. CASE InMiss = {}
    BY <2>1, FS_EmptySet, BucketsFinite DEF BucketInv, Within, RoomMade, BucketsBounded
  <2>2. CASE InMiss # {}
    <3>1. Cardinality(InMiss) # 0
      BY <2>2, FS_EmptySet, BucketsFinite DEF BucketInv
    <3>2. QED
      BY <3>1, BucketsFinite DEF BucketInv, Within, BucketsBounded
  <2>3. QED
    BY <2>1, <2>2
<1>2. QED
  BY <1>1, BucketInvariant, PTL

-----------------------------------------------------------------------------
(* CoverCache.                                                             *)

Storers == {f \in Fetches : At(f) \in Storing}

PlaceMade ==
  \/ Storers = {}
  \/ \E f \in Fetches :
       \/ At(f) = "insert"
       \/ At(f) = "evict" /\ oldest[f] \cap cached = {}

(* The limits fetches have loaded are limits the cache was given.          *)
LimitsGiven == maxSize <= largest /\ \A f \in Fetches : limit[f] <= largest

CoverInv ==
  /\ CoverTypeOK
  /\ LimitsGiven
  /\ Cardinality(Storers) <= overlaps + 1
  /\ Within(cached, Storers, largest + overlaps, PlaceMade)

Phases == [at : Storing \cup {"idle", "download"}, url : Covers]

LEMMA CoversFinite ==
  ASSUME CoverTypeOK
  PROVE  /\ IsFiniteSet(cached) /\ IsFiniteSet(Storers)
         /\ Cardinality(cached) \in Nat /\ Cardinality(Storers) \in Nat
         /\ largest \in Nat /\ largest >= 1 /\ overlaps \in Nat
         /\ \A f \in Fetches : limit[f] \in Nat
<1>1. cached \subseteq Covers /\ Storers \subseteq Fetches
  BY DEF CoverTypeOK, Storers
<1>2. IsFiniteSet(cached) /\ IsFiniteSet(Storers)
  BY <1>1, SizesAssumption, FS_Subset
<1>3. /\ largest \in Nat /\ largest >= 1 /\ overlaps \in Nat
      /\ \A f \in Fetches : limit[f] \in Nat
  <2>1. largest \in Sizes /\ limit \in [Fetches -> Sizes] /\ overlaps \in 0..MaxOverlaps
    BY DEF CoverTypeOK
  <2>2. \A n \in Sizes : n \in Nat /\ n >= 1
    BY SizesAssumption
  <2>3. overlaps \in Nat
    BY <2>1, SizesAssumption
  <2>4. \A f \in Fetches : limit[f] \in Sizes
    BY <2>1
  <2>5. QED
    BY <2>1, <2>2, <2>3, <2>4
<1>4. QED
  BY <1>2, <1>3, FS_CardinalityType

(* What turning one fetch does to the sets of those that store.            *)
LEMMA TurnStorers ==
  ASSUME CoverTypeOK, NEW f \in Fetches, NEW a \in Storing \cup {"idle", "download"},
         NEW u \in Covers, Turn(f, a, u)
  PROVE  /\ phase' \in [Fetches -> Phases]
         /\ At(f)' = a /\ \A g \in Fetches : g # f => At(g)' = At(g)
         /\ Storers' = IF a \in Storing THEN Storers \cup {f} ELSE Storers \ {f}
<1>1. phase \in [Fetches -> Phases] /\ phase' = [phase EXCEPT ![f] = [at |-> a, url |-> u]]
  BY DEF CoverTypeOK, Turn, Phases
<1>2. phase' \in [Fetches -> Phases]
  BY <1>1 DEF Phases
<1>3. At(f)' = a /\ \A g \in Fetches : g # f => At(g)' = At(g)
  BY <1>1 DEF At
<1>4. Storers' = IF a \in Storing THEN Storers \cup {f} ELSE Storers \ {f}
  BY <1>3 DEF Storers
<1>5. QED
  BY <1>2, <1>3, <1>4

LEMMA CoverNextTypeOK ==
  ASSUME CoverTypeOK, [CoverNext]_coverVars
  PROVE  CoverTypeOK'
<1>1. ASSUME NEW f \in Fetches, NEW u \in Covers, LookUpCover(f, u) PROVE CoverTypeOK'
  <2>1. phase' \in [Fetches -> Phases]
    BY <1>1, TurnStorers DEF LookUpCover
  <2>2. QED
    BY <1>1, <2>1 DEF LookUpCover, CoverTypeOK, Phases
<1>2. ASSUME NEW f \in Fetches,
             \/ FetchFails(f) \/ FetchReturns(f) \/ FindFirst(f) \/ EvictFirst(f) \/ InsertCover(f)
      PROVE  CoverTypeOK'
  <2>1. Url(f) \in Covers
    BY DEF CoverTypeOK, Url
  <2>2. phase' \in [Fetches -> Phases]
    BY <1>2, <2>1, TurnStorers
       DEF FetchFails, FetchReturns, FindFirst, EvictFirst, InsertCover, Storing
  <2>3. CASE FetchFails(f) \/ FetchReturns(f)
    BY <2>2, <2>3, SizesAssumption DEF FetchFails, FetchReturns, CoverTypeOK, Phases
  <2>4. CASE FindFirst(f)
    <3>1. PICK found \in SUBSET cached : oldest' = [oldest EXCEPT ![f] = found]
      BY <2>4 DEF FindFirst
    <3>2. QED
      BY <2>2, <2>4, <3>1 DEF FindFirst, CoverTypeOK, Phases
  <2>5. CASE EvictFirst(f)
    BY <2>2, <2>5 DEF EvictFirst, CoverTypeOK, Phases
  <2>6. CASE InsertCover(f)
    BY <2>1, <2>2, <2>6 DEF InsertCover, CoverTypeOK, Phases
  <2>7. QED
    BY <1>2, <2>3, <2>4, <2>5, <2>6
<1>3. CASE UpdateConfig
  BY <1>3 DEF UpdateConfig, CoverTypeOK
<1>4. CASE Pass
  BY <1>4 DEF Pass, CoverTypeOK
<1>5. CASE UNCHANGED coverVars
  BY <1>5 DEF coverVars, CoverTypeOK
<1>6. QED
  BY <1>1, <1>2, <1>3, <1>4, <1>5 DEF CoverNext

LEMMA CoverNextLimits ==
  ASSUME CoverTypeOK, LimitsGiven, [CoverNext]_coverVars
  PROVE  LimitsGiven'
<1> USE SizesAssumption DEF LimitsGiven, CoverTypeOK
<1>1. ASSUME NEW f \in Fetches, NEW u \in Covers, LookUpCover(f, u) PROVE LimitsGiven'
  BY <1>1 DEF LookUpCover
<1>2. ASSUME NEW f \in Fetches,
             \/ FetchFails(f) \/ FetchReturns(f) \/ FindFirst(f) \/ EvictFirst(f) \/ InsertCover(f)
      PROVE  LimitsGiven'
  BY <1>2 DEF FetchFails, FetchReturns, FindFirst, EvictFirst, InsertCover
<1>3. CASE UpdateConfig
  <2>1. limit \in [Fetches -> Nat] /\ largest \in Nat /\ maxSize' \in Nat
    BY <1>3 DEF UpdateConfig
  <2>2. QED
    BY <1>3, <2>1 DEF UpdateConfig
<1>4. CASE Pass \/ UNCHANGED coverVars
  BY <1>4 DEF Pass, coverVars
<1>5. QED
  BY <1>1, <1>2, <1>3, <1>4 DEF CoverNext

(* A download returns: its cover finds a place or has to make one.         *)
LEMMA ReturnKeepsBound ==
  ASSUME CoverInv, NEW f \in Fetches, FetchReturns(f), CoverTypeOK', LimitsGiven'
  PROVE  CoverInv'
<1> USE DEF CoverInv, Within
<1>1. Url(f) \in Covers
  BY DEF CoverTypeOK, Url
<1>2. /\ At(f)' = IF NoRoom(f) THEN "full" ELSE "insert"
      /\ \A g \in Fetches : g # f => At(g)' = At(g)
      /\ Storers' = Storers \cup {f}
  BY <1>1, TurnStorers DEF FetchReturns, Storing
<1>3. f \notin Storers
  BY DEF FetchReturns, Storers, Storing
<1>4. Cardinality(Storers') = Cardinality(Storers) + 1
  BY <1>2, <1>3, CoversFinite, SizeAdd
<1>5. cached' = cached /\ oldest' = oldest /\ largest' = largest
  BY DEF FetchReturns
<1>6. overlaps' = IF Storers # {} THEN overlaps + 1 ELSE overlaps
  BY DEF FetchReturns, Storers
<1>7. Storers = {} => Cardinality(Storers) = 0 /\ PlaceMade
  BY FS_EmptySet DEF PlaceMade
<1>8. Cardinality(Storers') <= overlaps' + 1
  BY <1>4, <1>6, <1>7, CoversFinite
<1>9. CASE NoRoom(f)
  <2>1. Storers = {} => ~PlaceMade'
    BY <1>2, <1>9 DEF PlaceMade, Storers, Storing
  <2>2. Storers # {} => (PlaceMade' => PlaceMade)
    BY <1>2, <1>5, <1>9 DEF PlaceMade
  <2>3. QED
    BY <1>4, <1>5, <1>6, <1>7, <1>8, <2>1, <2>2, CoversFinite
<1>10. CASE ~NoRoom(f)
  <2>1. limit[f] <= largest
    BY DEF LimitsGiven
  <2>2. Cardinality(cached) < largest
    BY <1>10, <2>1, CoversFinite DEF NoRoom
  <2>3. QED
    BY <1>4, <1>5, <1>6, <1>8, <2>2, CoversFinite
<1>11. QED
  BY <1>9, <1>10

LEMMA FindFirstKeepsBound ==
  ASSUME CoverInv, NEW f \in Fetches, FindFirst(f), CoverTypeOK', LimitsGiven'
  PROVE  CoverInv'
<1> USE DEF CoverInv, Within
<1>1. PICK found \in SUBSET cached :
        /\ IF cached = {} THEN found = {} ELSE Cardinality(found) = 1
        /\ oldest' = [oldest EXCEPT ![f] = found]
  BY DEF FindFirst
<1>2. Url(f) \in Covers /\ oldest \in [Fetches -> SUBSET Covers] /\ At(f) = "full"
  BY DEF CoverTypeOK, Url, FindFirst
<1>3. /\ At(f)' = "evict" /\ \A g \in Fetches : g # f => At(g)' = At(g)
      /\ Storers' = Storers \cup {f}
  BY <1>2, TurnStorers DEF FindFirst, Storing
<1>4. Storers' = Storers
  BY <1>2, <1>3 DEF Storers, Storing
<1>5. cached' = cached /\ largest' = largest /\ overlaps' = overlaps
  BY DEF FindFirst
<1>6. CASE cached = {}
  BY <1>4, <1>5, <1>6, CoversFinite, FS_EmptySet
<1>7. CASE cached # {}
  <2>1. found \cap cached # {}
    BY <1>1, <1>7, FS_EmptySet
  <2>2. PlaceMade' => PlaceMade
    BY <1>1, <1>2, <1>3, <1>4, <1>5, <2>1 DEF PlaceMade
  <2>3. QED
    BY <1>4, <1>5, <2>2
<1>8. QED
  BY <1>6, <1>7

LEMMA EvictFirstKeepsBound ==
  ASSUME CoverInv, NEW f \in Fetches, EvictFirst(f), CoverTypeOK', LimitsGiven'
  PROVE  CoverInv'
<1> USE DEF CoverInv, Within
<1>1. Url(f) \in Covers /\ At(f) = "evict"
  BY DEF CoverTypeOK, Url, EvictFirst
<1>2. Storers' = Storers \cup {f}
  BY <1>1, TurnStorers DEF EvictFirst, Storing
<1>3. Storers' = Storers
  BY <1>1, <1>2 DEF Storers, Storing
<1>4. cached' = cached \ oldest[f] /\ largest' = largest /\ overlaps' = overlaps
  BY DEF EvictFirst
<1>5. /\ Cardinality(cached') \in Nat /\ Cardinality(cached') <= Cardinality(cached)
      /\ cached \cap oldest[f] # {} => Cardinality(cached') <= Cardinality(cached) - 1
  BY <1>4, CoversFinite, SizeRemove
<1>6. cached \cap oldest[f] = {} => PlaceMade
  BY <1>1 DEF PlaceMade
<1>7. QED
  BY <1>3, <1>4, <1>5, <1>6, CoversFinite

LEMMA InsertCoverKeepsBound ==
  ASSUME CoverInv, NEW f \in Fetches, InsertCover(f), CoverTypeOK', LimitsGiven'
  PROVE  CoverInv'
<1> USE DEF CoverInv, Within
<1>1. Url(f) \in Covers /\ At(f) = "insert"
  BY DEF CoverTypeOK, Url, InsertCover
<1>2. Storers' = Storers \ {f} /\ f \in Storers /\ PlaceMade
  BY <1>1, TurnStorers DEF InsertCover, Storing, Storers, PlaceMade
<1>3. Cardinality(Storers') = Cardinality(Storers) - 1
  BY <1>2, CoversFinite, FS_RemoveElement
<1>4. cached' = cached \cup {Url(f)} /\ largest' = largest /\ overlaps' = overlaps
  BY DEF InsertCover
<1>5. Cardinality(cached') \in Nat /\ Cardinality(cached') <= Cardinality(cached) + 1
  BY <1>4, CoversFinite, SizeAdd
<1>6. QED
  BY <1>2, <1>3, <1>4, <1>5, CoversFinite

LEMMA CoverNextInv ==
  ASSUME CoverInv, [CoverNext]_coverVars
  PROVE  CoverInv'
<1>0. CoverTypeOK' /\ LimitsGiven'
  BY CoverNextTypeOK, CoverNextLimits DEF CoverInv
<1>1. ASSUME NEW f \in Fetches, (\E u \in Covers : LookUpCover(f, u)) \/ FetchFails(f)
      PROVE  CoverInv'
  <2>1. Url(f) \in Covers /\ At(f) \in {"idle", "download"}
    BY <1>1 DEF CoverInv, CoverTypeOK, Url, LookUpCover, FetchFails
  <2>2. PICK a \in {"idle", "download"} : At(f)' = a /\ Storers' = Storers \ {f}
    BY <1>1, <2>1, TurnStorers DEF LookUpCover, FetchFails, Storing, CoverInv
  <2>3. \A g \in Fetches : g # f => At(g)' = At(g)
    BY <1>1, <2>1, TurnStorers DEF LookUpCover, FetchFails, Storing, CoverInv
  <2>4. Storers' = Storers
    BY <2>1, <2>2 DEF Storers, Storing
  <2>5. cached' = cached /\ oldest' = oldest /\ largest' = largest /\ overlaps' = overlaps
    BY <1>1 DEF LookUpCover, FetchFails
  <2>6. PlaceMade' => PlaceMade
    BY <2>2, <2>3, <2>4, <2>5 DEF PlaceMade
  <2>7. QED
    BY <1>0, <2>4, <2>5, <2>6 DEF CoverInv, Within
<1>2. ASSUME NEW f \in Fetches, FetchReturns(f) PROVE CoverInv'
  BY <1>0, <1>2, ReturnKeepsBound
<1>3. ASSUME NEW f \in Fetches, FindFirst(f) PROVE CoverInv'
  BY <1>0, <1>3, FindFirstKeepsBound
<1>4. ASSUME NEW f \in Fetches, EvictFirst(f) PROVE CoverInv'
  BY <1>0, <1>4, EvictFirstKeepsBound
<1>5. ASSUME NEW f \in Fetches, InsertCover(f) PROVE CoverInv'
  BY <1>0, <1>5, InsertCoverKeepsBound
<1>6. CASE UpdateConfig \/ Pass \/ UNCHANGED coverVars
  <2>1. phase' = phase /\ cached' = cached /\ oldest' = oldest /\ overlaps' = overlaps
    BY <1>6 DEF UpdateConfig, Pass, coverVars
  <2>2. Storers' = Storers /\ (PlaceMade' <=> PlaceMade)
    BY <2>1 DEF Storers, PlaceMade, At
  <2>3. largest \in Nat /\ largest' \in Nat /\ largest' >= largest
    BY <1>0, <1>6, SizesAssumption DEF UpdateConfig, Pass, coverVars, CoverInv, CoverTypeOK
  <2>4. QED
    BY <1>0, <2>1, <2>2, <2>3, CoversFinite DEF CoverInv, Within
<1>7. QED
  BY <1>1, <1>2, <1>3, <1>4, <1>5, <1>6 DEF CoverNext

(* The invariant the bound of the covers rests on.                         *)
THEOREM CoverInvariant == CoverSpec => []CoverInv
<1>1. CoverInit => CoverInv
  <2> SUFFICES ASSUME CoverInit PROVE CoverInv
    OBVIOUS
  <2>1. PICK u \in Covers : phase = [f \in Fetches |-> [at |-> "idle", url |-> u]]
    BY DEF CoverInit
  <2>2. phase \in [Fetches -> [at : Storing \cup {"idle", "download"}, url : Covers]]
    BY <2>1
  <2>3. CoverTypeOK
    BY <2>2, SizesAssumption DEF CoverInit, CoverTypeOK
  <2>4. Storers = {} /\ cached = {}
    BY <2>1 DEF CoverInit, Storers, At, Storing
  <2>5. Cardinality(Storers) = 0 /\ Cardinality(cached) = 0
    BY <2>4, FS_EmptySet
  <2>6. LimitsGiven
    BY SizesAssumption DEF CoverInit, LimitsGiven
  <2>7. QED
    BY <2>3, <2>5, <2>6, CoversFinite DEF CoverInv, Within
<1>2. CoverInv /\ [CoverNext]_coverVars => CoverInv'
  BY CoverNextInv
<1>3. QED
  BY <1>1, <1>2, PTL DEF CoverSpec

(* cover_cache.rs:33-36,76-94: what the cache may grow to.                 *)
THEOREM CoversStayBounded == CoverSpec => []CoversBounded
<1>1. CoverInv => CoversBounded
  <2> SUFFICES ASSUME CoverInv PROVE CoversBounded
    OBVIOUS
  <2>1. Cardinality(Storers) = 0 => PlaceMade
    BY FS_EmptySet, CoversFinite DEF CoverInv, PlaceMade
  <2>2. QED
    BY <2>1, CoversFinite DEF CoverInv, Within, CoversBounded
<1>2. QED
  BY <1>1, CoverInvariant, PTL
=============================================================================
