------------------------- MODULE ConfigStoreProofs -------------------------
(* The file on disk follows the configuration in memory, for any number of *)
(* settings handlers, failures, kills and starts.                          *)
EXTENDS ConfigStore, TLAPS

USE DEF Config, Fields, Writers, Saving, Asking, Goto, memory, files, bounded,
        observed

LEMMA DefaultsAreConfig ==
  Defaults \in Config /\ \A f \in Fields : Defaults[f] = 0
BY DEF Defaults

LEMMA FieldOfIsField == \A w \in Writers : FieldOf(w) \in Fields
BY ConfigAssumption DEF FieldOf

LEMMA LaterIsLater ==
  \A m, n \in Nat :
    Later(m, n) \in {m, n} /\ Later(m, n) >= m /\ Later(m, n) >= n
BY DEF Later

(* The initial states satisfy the invariant.                               *)
LEMMA InitInv == Init => IInv
<1> SUFFICES ASSUME Init PROVE IInv
  OBVIOUS
<1>1. TypeOK /\ Locked /\ InMemory
  BY ConfigAssumption, DefaultsAreConfig DEF Init, TypeOK, Locked, InMemory
<1>2. Numbered /\ AckedInMemory /\ AckedOnDisk
  BY DefaultsAreConfig, ConfigAssumption
     DEF Init, Numbered, AckedInMemory, AckedOnDisk
<1>3. OneAsks /\ SettingsInEffect
  BY DefaultsAreConfig DEF Init, OneAsks, SettingsInEffect
<1> QED BY <1>1, <1>2, <1>3 DEF IInv

(* A start takes the configuration on disk, or the defaults, and nobody is *)
(* saving.                                                                 *)
LEMMA StartedInv ==
  ASSUME IInv, NEW cfg \in Config, StartWith(cfg),
         disk' \in {disk, Defaults}, tmp' \in {tmp, Missing, Partial},
         failures' \in Nat, loaded' \in BOOLEAN,
         \A f \in Fields : cfg[f] <= updates,
         loaded' => \A f \in Fields : cfg[f] >= acked[f],
         AckedOnDisk'
  PROVE  IInv'
<1>1. TypeOK'
  BY ConfigAssumption, DefaultsAreConfig DEF IInv, TypeOK, StartWith, Running
<1>2. Locked' /\ InMemory'
  BY ConfigAssumption DEF StartWith, Running, Locked, InMemory
<1>3. Numbered' /\ AckedInMemory'
  <2>1. updates \in Nat
    BY DEF IInv, TypeOK
  <2> QED
    BY <2>1, DefaultsAreConfig
       DEF IInv, StartWith, Numbered, AckedInMemory
<1>4. OneAsks' /\ SettingsInEffect'
  BY DEF StartWith, Running, OneAsks, SettingsInEffect
<1> QED BY <1>1, <1>2, <1>3, <1>4 DEF IInv

LEMMA StartInv ==
  ASSUME IInv, Load \/ (\E ok \in BOOLEAN : LoadDefaults(ok)) \/ LoadFails
  PROVE  IInv'
<1>0. updates \in Nat /\ acked \in Config /\ failures \in Nat
      /\ loaded \in BOOLEAN /\ disk \in Config \cup {Missing, Corrupt}
  BY DEF IInv, TypeOK
<1>1. CASE Load
  <2>1. disk \in Config /\ StartWith(disk) /\ UNCHANGED <<disk, tmp, failures, loaded, acked>>
    BY <1>0, <1>1 DEF Load, StartWith
  <2>2. loaded => \A f \in Fields : disk[f] >= acked[f]
    BY <1>0, <2>1 DEF IInv, AckedOnDisk
  <2>3. \A f \in Fields : disk[f] <= updates
    BY <2>1 DEF IInv, Numbered
  <2>4. AckedOnDisk'
    BY <2>1 DEF IInv, AckedOnDisk
  <2> QED BY <1>0, <2>1, <2>2, <2>3, <2>4, StartedInv
<1>2. CASE \E ok \in BOOLEAN : LoadDefaults(ok)
  <2>1. StartWith(Defaults) /\ disk \notin Config
        /\ disk' \in {disk, Defaults} /\ tmp' \in {Missing, Partial}
        /\ UNCHANGED <<failures, loaded, acked>>
    BY <1>2, ConfigAssumption DEF LoadDefaults, StartWith
  <2>2. loaded => \A f \in Fields : acked[f] = 0
    BY <2>1 DEF IInv, AckedOnDisk
  <2>3. AckedOnDisk'
    BY <2>1, <2>2 DEF AckedOnDisk
  <2> QED BY <1>0, <2>1, <2>2, <2>3, DefaultsAreConfig, StartedInv
<1>3. CASE LoadFails
  <2>1. StartWith(Defaults) /\ disk' = disk /\ tmp' = tmp
        /\ failures' = failures + 1 /\ loaded' = FALSE
    BY <1>3 DEF LoadFails
  <2>2. AckedOnDisk'
    BY <2>1 DEF AckedOnDisk
  <2>3. \A f \in Fields : Defaults[f] <= updates
    BY <1>0, DefaultsAreConfig
  <2>4. failures' \in Nat /\ loaded' \in BOOLEAN /\ ~loaded'
    <3>1. failures' \in Nat BY <1>0, <2>1
    <3>2. loaded' \in BOOLEAN /\ ~loaded' BY <2>1, Zenon
    <3> QED BY <3>1, <3>2
  <2>5. disk' = disk /\ tmp' = tmp
    BY <2>1
  <2> HIDE DEF Config, Fields
  <2> QED BY <2>1, <2>2, <2>3, <2>4, <2>5, DefaultsAreConfig, StartedInv
<1> QED BY <1>1, <1>2, <1>3

(* Every step of a writer preserves the invariant: only the holder of the  *)
(* lock is between BeginSave and its return, so that what it renames is    *)
(* what is in memory.                                                      *)
LEMMA WriterInv ==
  ASSUME IInv, NEW w \in Writers, Writer(w)
  PROVE  IInv'
<1> FieldOf(w) \in Fields BY FieldOfIsField
<1>0. /\ config \in Config /\ acked \in Config /\ mine \in [Writers -> Nat]
      /\ updates \in Nat /\ mine[w] \in Nat
  BY DEF IInv, TypeOK
<1>1. CASE UpdateField(w)
  <2>1. /\ config' = [config EXCEPT ![FieldOf(w)] = updates + 1]
        /\ updates' = updates + 1 /\ mine' = [mine EXCEPT ![w] = updates + 1]
        /\ pc' = [pc EXCEPT ![w] = "changed"] /\ holder = Nobody
        /\ UNCHANGED <<holder, disk, tmp, acked, loaded>>
    BY <1>1 DEF UpdateField
  <2>2. config' \in Config
        /\ \A f \in Fields : config'[f] >= config[f] /\ config'[f] <= updates'
    BY <1>0, <2>1 DEF IInv, Numbered
  <2>3. TypeOK'
    BY <1>0, <1>1, <2>2 DEF UpdateField, IInv, TypeOK
  <2>4. Locked'
    BY <2>1, ConfigAssumption DEF IInv, TypeOK, Locked
  <2>5. InMemory'
    <3> SUFFICES ASSUME NEW v \in Writers, pc'[v] \in Saving \cup {"changed"}
                 PROVE  config'[FieldOf(v)] >= mine'[v]
      BY DEF InMemory
    <3>1. CASE v = w
      BY <1>0, <2>1, <3>1
    <3>2. CASE v # w
      <4>1. config[FieldOf(v)] >= mine[v]
        BY <2>1, <3>2 DEF IInv, TypeOK, InMemory
      <4> QED BY <1>0, <2>1, <2>2, <3>2, <4>1, FieldOfIsField
    <3> QED BY <3>1, <3>2
  <2>6. Numbered'
    <3>1. \A v \in Writers : mine'[v] <= updates'
      BY <1>0, <2>1 DEF IInv, Numbered
    <3> QED BY <1>0, <2>1, <2>2, <3>1 DEF IInv, Numbered
  <2>7. AckedInMemory' /\ AckedOnDisk'
    BY <1>0, <2>1, <2>2 DEF IInv, AckedInMemory, AckedOnDisk
  <2>8. OneAsks' /\ SettingsInEffect'
    <3>1. CASE w \in SettingsHandlers
      <4>1. alone' => Asking' = {w}
        <5>1. alone' => \A v \in SettingsHandlers : pc[v] = "idle"
          BY <1>1, <3>1, Zenon DEF UpdateField
        <5> QED BY <2>1, <3>1, <5>1 DEF IInv, TypeOK
      <4>2. mine'[w] = config'["settings"]
        BY <1>0, <2>1, <3>1 DEF FieldOf
      <4> QED BY <4>1, <4>2 DEF OneAsks, SettingsInEffect
    <3>2. CASE w \notin SettingsHandlers
      <4>1. /\ Asking' = Asking /\ alone' = alone /\ limits' = limits
            /\ \A v \in Asking : mine'[v] = mine[v]
        BY <1>0, <1>1, <2>1, <3>2 DEF UpdateField, IInv, TypeOK
      <4>2. config'["settings"] = config["settings"]
        BY <1>0, <2>1, <3>2, ConfigAssumption DEF FieldOf
      <4> QED BY <4>1, <4>2 DEF IInv, OneAsks, SettingsInEffect
    <3> QED BY <3>1, <3>2
  <2> QED BY <2>3, <2>4, <2>5, <2>6, <2>7, <2>8 DEF IInv
<1>2. CASE BeginSave(w)
  <2>1. TypeOK' /\ Locked' /\ InMemory' /\ Numbered' /\ AckedInMemory'
        /\ AckedOnDisk'
    BY <1>2, ConfigAssumption
       DEF BeginSave, IInv, TypeOK, Locked, InMemory, Numbered, AckedInMemory,
           AckedOnDisk
  <2>2. Asking' = Asking /\ UNCHANGED <<alone, mine, config, limits>>
    BY <1>2 DEF BeginSave, IInv, TypeOK
  <2> QED BY <2>1, <2>2 DEF IInv, OneAsks, SettingsInEffect
<1>3. CASE WriteFile(w)
  <2>1. TypeOK' /\ Locked' /\ InMemory' /\ Numbered' /\ AckedInMemory'
        /\ AckedOnDisk'
    BY <1>3, ConfigAssumption
       DEF WriteFile, IInv, TypeOK, Locked, InMemory, Numbered, AckedInMemory,
           AckedOnDisk
  <2>2. Asking' = Asking /\ UNCHANGED <<alone, mine, config, limits>>
    BY <1>3 DEF WriteFile, IInv, TypeOK
  <2> QED BY <2>1, <2>2 DEF IInv, OneAsks, SettingsInEffect
<1>4. CASE Rename(w)
  <2>1. disk' = config /\ config[FieldOf(w)] >= mine[w] /\ holder = w
    BY <1>4 DEF Rename, IInv, TypeOK, Locked, InMemory
  <2>2. /\ acked' = [acked EXCEPT ![FieldOf(w)] = Later(acked[FieldOf(w)], mine[w])]
        /\ pc' \in {[pc EXCEPT ![w] = "saved"], [pc EXCEPT ![w] = "idle"]}
        /\ holder' = Nobody /\ tmp' = Missing
        /\ UNCHANGED <<config, mine, updates, loaded>>
    BY <1>4 DEF Rename, Return
  <2>3. acked' \in Config /\ \A f \in Fields : acked'[f] <= updates
    BY <1>0, <2>2, LaterIsLater DEF IInv, Numbered
  <2>4. loaded => \A f \in Fields : config[f] >= acked'[f]
    BY <1>0, <2>1, <2>2, LaterIsLater DEF IInv, AckedInMemory
  <2>5. TypeOK'
    BY <1>0, <1>4, <2>1, <2>2, <2>3, ConfigAssumption
       DEF Rename, Return, IInv, TypeOK
  <2>6. Locked'
    <3> SUFFICES ASSUME NEW v \in Writers
                 PROVE  pc'[v] \notin Saving /\ holder' # v
      BY DEF Locked
    <3>1. holder' # v
      BY <2>2, ConfigAssumption
    <3>2. pc'[v] \notin Saving
      BY <2>1, <2>2 DEF IInv, TypeOK, Locked
    <3> QED BY <3>1, <3>2
  <2>7. InMemory'
    <3>1. \A v \in Writers : pc'[v] \in Saving \cup {"changed"} =>
                               pc[v] \in Saving \cup {"changed"}
      BY <2>2 DEF IInv, TypeOK
    <3> QED BY <2>2, <3>1 DEF IInv, InMemory
  <2>8. Numbered'
    BY <2>1, <2>2, <2>3 DEF IInv, Numbered
  <2>9. AckedInMemory' /\ AckedOnDisk'
    BY <1>0, <2>1, <2>2, <2>4 DEF AckedInMemory, AckedOnDisk
  <2>10. OneAsks' /\ SettingsInEffect'
    <3>1. Asking' = Asking /\ UNCHANGED <<alone, limits>>
      BY <1>4 DEF Rename, Return, IInv, TypeOK
    <3> QED BY <2>2, <3>1 DEF IInv, OneAsks, SettingsInEffect
  <2> QED BY <2>5, <2>6, <2>7, <2>8, <2>9, <2>10 DEF IInv
<1>5. CASE SaveFails(w)
  <2>1. /\ pc[w] \in Saving /\ holder = w
        /\ pc' = [pc EXCEPT ![w] = "idle"] /\ holder' = Nobody
        /\ UNCHANGED <<config, disk, tmp, mine, updates, acked, loaded>>
    BY <1>5 DEF SaveFails, IInv, Locked
  <2>2. TypeOK'
    <3>1. rejected' \in {rejected, rejected \cup {mine[w]}}
          /\ failures' = failures + 1 /\ UNCHANGED <<limits, starts>>
      BY <1>5 DEF SaveFails
    <3>2. rejected' \subseteq Nat
      BY <1>0, <3>1 DEF IInv, TypeOK
    <3>3. alone' \in BOOLEAN
      <4>1. alone' = FALSE \/ alone' = alone
        BY <1>5, Zenon DEF SaveFails
      <4> QED BY <4>1, Zenon DEF IInv, TypeOK
    <3> QED BY <2>1, <3>1, <3>2, <3>3 DEF IInv, TypeOK
  <2>3. \A v \in Writers : pc'[v] \notin Saving /\ holder' # v
    BY <2>1, ConfigAssumption DEF IInv, TypeOK, Locked
  <2>4. Locked'
    BY <2>3 DEF Locked
  <2>5. InMemory'
    <3>1. \A v \in Writers : pc'[v] \in Saving \cup {"changed"} =>
                               pc[v] \in Saving \cup {"changed"}
      BY <2>1 DEF IInv, TypeOK
    <3> QED BY <2>1, <3>1 DEF IInv, InMemory
  <2>6. Numbered' /\ AckedInMemory' /\ AckedOnDisk'
    BY <2>1 DEF IInv, Numbered, AckedInMemory, AckedOnDisk
  <2>7. OneAsks' /\ SettingsInEffect'
    <3>1. CASE w \in SettingsHandlers
      <4>1. ~alone' BY <1>5, <3>1 DEF SaveFails
      <4> QED BY <4>1 DEF OneAsks, SettingsInEffect
    <3>2. CASE w \notin SettingsHandlers
      <4>1. Asking' = Asking /\ UNCHANGED <<alone, limits>>
        BY <1>5, <2>1, <3>2 DEF SaveFails, IInv, TypeOK
      <4> QED BY <2>1, <4>1 DEF IInv, OneAsks, SettingsInEffect
    <3> QED BY <3>1, <3>2
  <2> QED BY <2>2, <2>4, <2>5, <2>6, <2>7 DEF IInv
<1>6. CASE SetLimits(w)
  <2>1. TypeOK' /\ Locked' /\ InMemory' /\ Numbered' /\ AckedInMemory'
        /\ AckedOnDisk'
    BY <1>6, ConfigAssumption
       DEF SetLimits, IInv, TypeOK, Locked, InMemory, Numbered, AckedInMemory,
           AckedOnDisk
  <2>2. /\ Asking' \subseteq Asking /\ UNCHANGED <<alone, mine, config>>
        /\ limits' = mine[w]
    BY <1>6 DEF SetLimits, IInv, TypeOK
  <2>3. w \in Asking \/ w \notin SettingsHandlers
    BY <1>6 DEF SetLimits
  <2>4. w \in SettingsHandlers
    BY <1>6 DEF SetLimits, IInv, TypeOK
  <2>5. OneAsks'
    BY <2>2 DEF IInv, OneAsks
  <2>6. SettingsInEffect'
    <3> SUFFICES ASSUME alone PROVE limits' = config["settings"]
      BY <2>2 DEF SettingsInEffect
    <3> QED BY <2>2, <2>3, <2>4 DEF IInv, OneAsks
  <2> QED BY <2>1, <2>5, <2>6 DEF IInv
<1> QED BY <1>1, <1>2, <1>3, <1>4, <1>5, <1>6 DEF Writer

(* The invariant of the locked sections holds in every behaviour.          *)
THEOREM Invariance == Spec => []IInv
<1>1. Init => IInv BY InitInv
<1>2. IInv /\ [Next]_vars => IInv'
  <2> SUFFICES ASSUME IInv, [Next]_vars PROVE IInv'
    OBVIOUS
  <2>1. CASE UNCHANGED vars
    BY <2>1 DEF vars, IInv, TypeOK, Locked, InMemory, Numbered, AckedInMemory,
                AckedOnDisk, OneAsks, SettingsInEffect
  <2>2. CASE Next
    BY <2>2, StartInv, WriterInv DEF Next
  <2> QED BY <2>1, <2>2
<1> QED BY <1>1, <1>2, PTL DEF Spec

(* An update whose caller was told it is saved survives every kill, failed *)
(* save and restart, or is replaced by a newer one of its field.           *)
THEOREM SavedStaysSaved == Spec => []AckedOnDisk
<1>1. IInv => AckedOnDisk BY DEF IInv
<1> QED BY <1>1, Invariance, PTL

(* Unless settings requests overlap or fail, the limits in effect are the  *)
(* configured ones, whatever else is saved and however often it restarts.  *)
THEOREM SettingsTakeEffect == Spec => []SettingsInEffect
<1>1. IInv => SettingsInEffect BY DEF IInv
<1> QED BY <1>1, Invariance, PTL

(* Updates and saves, with the steps in which they write a temporary file, *)
(* implement the single steps of DurableConfig.                            *)
THEOREM SavesAreAtomic == Spec => ImplementsDurable
<1> USE DEF Durable!Next, Durable!Start, Durable!Update, Durable!Save
<1>1. Init => Durable!Init
  BY DEF Init, Durable!Init
<1>2. IInv /\ [Next]_vars => [Durable!Next]_<<config, disk>>
  <2> SUFFICES ASSUME IInv, Next PROVE [Durable!Next]_<<config, disk>>
    BY DEF vars
  <2>1. CASE Load \/ LoadFails
    BY <2>1 DEF Load, LoadFails, StartWith
  <2>2. CASE \E ok \in BOOLEAN : LoadDefaults(ok)
    BY <2>2 DEF LoadDefaults, StartWith
  <2>3. ASSUME NEW w \in Writers, Writer(w)
        PROVE  [Durable!Next]_<<config, disk>>
    <3>1. CASE UpdateField(w)
      <4>1. config' = [config EXCEPT ![FieldOf(w)] = updates + 1]
            /\ FieldOf(w) \in Fields /\ UNCHANGED disk
        BY <3>1, FieldOfIsField DEF UpdateField
      <4>2. config'[FieldOf(w)] = updates + 1 /\ updates + 1 \in Nat
        BY <4>1 DEF IInv, TypeOK
      <4> QED BY <4>1, <4>2
    <3>2. CASE Rename(w)
      BY <3>2 DEF Rename, Return, IInv, Locked
    <3>3. CASE BeginSave(w) \/ WriteFile(w) \/ SaveFails(w) \/ SetLimits(w)
      BY <3>3 DEF BeginSave, WriteFile, SaveFails, SetLimits
    <3> QED BY <2>3, <3>1, <3>2, <3>3 DEF Writer
  <2> QED BY <2>1, <2>2, <2>3 DEF Next
<1> QED BY <1>1, <1>2, Invariance, PTL DEF Spec, Durable!Spec, ImplementsDurable
=============================================================================
