---------------------------- MODULE ConfigStore ----------------------------
(***************************************************************************)
(* internal/config/config.go and its callers: the pipeline (last contact), *)
(* a login or disconnect (wechat), main (web port) and PUT /settings, which*)
(* afterwards also sets the limits of the budget Manager (api/wechat.go).  *)
(* An update changes the configuration in one locked section and saves it  *)
(* in another, which holds the lock over the write of the temporary file   *)
(* and the rename.  The process may be killed at any time.  The value of a *)
(* field is the number of the update that wrote it; 0 is the default.      *)
(***************************************************************************)
EXTENDS Integers, FiniteSets

CONSTANTS
  SettingsHandlers,        \* PUT /settings handlers that may run at once
  OtherFields,             \* fields that one goroutine each updates
  Nobody,                  \* holder of a free lock
  Missing, Corrupt, Partial,  \* contents of a file that is no configuration
  MaxUpdates, MaxFailures, MaxStarts   \* bounds

Fields  == OtherFields \cup {"settings"}
Writers == SettingsHandlers \cup OtherFields
Defaults == [f \in Fields |-> 0]
Config   == [Fields -> Nat]

ASSUME ConfigAssumption ==
  /\ OtherFields \subseteq {"wechat", "contact", "port"}
  /\ SettingsHandlers \cap OtherFields = {}
  /\ Nobody \notin Writers
  /\ Missing # Corrupt /\ Missing # Partial /\ Corrupt # Partial
  /\ {Missing, Corrupt, Partial} \cap Config = {}
  /\ MaxUpdates \in Nat /\ MaxFailures \in Nat /\ MaxStarts \in Nat

VARIABLES
  config, holder,      \* Manager: the configuration, who holds mu
  disk, tmp,           \* config.json and config.json.tmp
  pc, mine,            \* each writer: where it is, the update it is making
  limits,              \* budget.Manager's limits, as the update they are from
  (* observations *)
  updates, failures, starts,
  acked,               \* the newest update of each field that was saved
  rejected,            \* the settings updates answered with an error
  loaded,              \* FALSE once a start could not read the file
  alone                \* no settings request has overlapped the last one, and
                       \* none has failed since

memory   == <<config, limits>>
files    == <<disk, tmp>>
bounded  == <<updates, failures, starts>>
observed == <<acked, rejected, loaded, alone>>
vars     == <<memory, holder, files, pc, mine, bounded, observed>>

FieldOf(w) == IF w \in SettingsHandlers THEN "settings" ELSE w

Init ==
  /\ config = Defaults /\ holder = Nobody
  /\ disk \in {Missing, Corrupt, Defaults} /\ tmp = Missing
  /\ pc = [w \in Writers |-> "down"] /\ mine = [w \in Writers |-> 0]
  /\ limits = 0
  /\ updates = 0 /\ failures = 0 /\ starts = 0
  /\ acked = Defaults /\ rejected = {} /\ loaded = TRUE /\ alone = TRUE

-----------------------------------------------------------------------------
(* NewManager and load; what ran before is gone.                           *)

Running == [w \in Writers |-> "idle"]

LimitsOfDefaults(cfg) ==
  /\ starts < MaxStarts /\ starts' = starts + 1
  /\ config' = cfg /\ limits' = Defaults["settings"]
  /\ holder' = Nobody /\ pc' = Running /\ alone' = TRUE
  /\ UNCHANGED <<mine, updates, acked, rejected>>
StartWith(cfg) ==
  /\ starts < MaxStarts /\ starts' = starts + 1
  /\ config' = cfg /\ limits' = cfg["settings"]      \* budget.NewManager
  /\ holder' = Nobody /\ pc' = Running /\ alone' = TRUE
  /\ UNCHANGED <<mine, updates, acked, rejected>>

\* The file is there and parses.
Load ==
  /\ disk \notin {Missing, Corrupt}
  /\ StartWith(disk)
  /\ UNCHANGED <<files, failures, loaded>>

\* It is missing or does not parse; the result of the repair is ignored.
LoadDefaults(ok) ==
  /\ disk \in {Missing, Corrupt}
  /\ StartWith(Defaults)
  /\ IF ok THEN disk' = Defaults /\ tmp' = Missing
           ELSE tmp' = Partial /\ UNCHANGED disk
  /\ UNCHANGED <<failures, loaded>>

\* It cannot be read; NewManager logs "using defaults" and goes on.
LoadFails ==
  /\ failures < MaxFailures /\ failures' = failures + 1
  /\ StartWith(Defaults)
  /\ loaded' = FALSE
  /\ UNCHANGED files

-----------------------------------------------------------------------------
(* UpdateWechat, UpdateLastContact, UpdateWebPort, UpdateSettings.         *)

Goto(w, to) == pc' = [pc EXCEPT ![w] = to]

UpdateField(w) ==
  /\ pc[w] = "idle" /\ holder = Nobody /\ updates < MaxUpdates
  /\ updates' = updates + 1
  /\ config' = [config EXCEPT ![FieldOf(w)] = updates + 1]
  /\ mine' = [mine EXCEPT ![w] = updates + 1]
  /\ alone' = IF w \in SettingsHandlers
              THEN \A v \in SettingsHandlers : pc[v] = "idle" ELSE alone
  /\ Goto(w, "changed")
  /\ UNCHANGED <<holder, files, limits, failures, starts, acked, rejected,
                 loaded>>

\* Save: lock, marshal, truncate and begin to write the temporary file.
SaveWithoutLock(w) ==
  /\ pc[w] = "changed"
  /\ tmp' = Partial
  /\ Goto(w, "writing")
  /\ UNCHANGED <<memory, holder, disk, mine, bounded, observed>>
BeginSave(w) ==
  /\ pc[w] = "changed" /\ holder = Nobody
  /\ holder' = w
  /\ tmp' = Partial
  /\ Goto(w, "writing")
  /\ UNCHANGED <<memory, disk, mine, bounded, observed>>

WriteFile(w) ==
  /\ pc[w] = "writing"
  /\ tmp' = config
  /\ Goto(w, "written")
  /\ UNCHANGED <<memory, holder, disk, mine, bounded, observed>>

Later(m, n) == IF m > n THEN m ELSE n

\* A saved PUT /settings goes on to SetLimits.
Return(w) ==
  /\ holder' = Nobody
  /\ acked' = [acked EXCEPT ![FieldOf(w)] = Later(@, mine[w])]
  /\ Goto(w, IF w \in SettingsHandlers THEN "saved" ELSE "idle")
  /\ UNCHANGED <<memory, mine, bounded, rejected, loaded, alone>>

IgnoresRenameError(w) ==
  /\ pc[w] = "written"
  /\ \/ disk' = tmp /\ tmp' = Missing
     \/ UNCHANGED files
  /\ Return(w)
Rename(w) ==
  /\ pc[w] = "written"
  /\ disk' = tmp /\ tmp' = Missing
  /\ Return(w)

\* The write or the rename fails.  The change in memory stays.
SaveFails(w) ==
  /\ pc[w] \in {"writing", "written"}
  /\ failures < MaxFailures /\ failures' = failures + 1
  /\ holder' = Nobody
  /\ IF w \in SettingsHandlers
     THEN rejected' = rejected \cup {mine[w]} /\ alone' = FALSE
     ELSE UNCHANGED <<rejected, alone>>
  /\ Goto(w, "idle")
  /\ UNCHANGED <<memory, files, mine, updates, starts, acked, loaded>>

SetLimits(w) ==
  /\ pc[w] = "saved"
  /\ limits' = mine[w]
  /\ Goto(w, "idle")
  /\ UNCHANGED <<config, holder, files, mine, bounded, observed>>

Writer(w) ==
  UpdateField(w) \/ BeginSave(w) \/ WriteFile(w) \/ Rename(w) \/ SaveFails(w)
    \/ SetLimits(w)

Next ==
  \/ Load \/ (\E ok \in BOOLEAN : LoadDefaults(ok)) \/ LoadFails
  \/ \E w \in Writers : Writer(w)

Spec == Init /\ [][Next]_vars

-----------------------------------------------------------------------------
Saving == {"writing", "written"}

TypeOK ==
  /\ config \in Config /\ acked \in Config
  /\ holder \in Writers \cup {Nobody}
  /\ disk \in Config \cup {Missing, Corrupt}
  /\ tmp \in Config \cup {Missing, Partial}
  /\ pc \in [Writers -> {"down", "idle", "changed", "saved"} \cup Saving]
  /\ \A f \in OtherFields : pc[f] # "saved"
  /\ mine \in [Writers -> Nat]
  /\ limits \in Nat /\ updates \in Nat /\ failures \in Nat /\ starts \in Nat
  /\ rejected \subseteq Nat /\ loaded \in BOOLEAN /\ alone \in BOOLEAN

\* What a caller was told is saved is on disk, or something newer of the same
\* field is, whatever else was being saved when the process was killed.
AckedOnDisk ==
  loaded => \A f \in Fields :
    acked[f] = 0 \/ (disk \in Config /\ disk[f] >= acked[f])

\* What the locked sections establish: whoever saves holds the lock, nothing
\* changes in memory between the write and the rename, and no value is newer
\* than the last update.
Locked ==
  /\ \A w \in Writers : pc[w] \in Saving <=> holder = w
  /\ \A w \in Writers : pc[w] = "written" => tmp = config
InMemory ==
  \A w \in Writers :
    pc[w] \in Saving \cup {"changed"} => config[FieldOf(w)] >= mine[w]
Numbered ==
  /\ \A w \in Writers : mine[w] <= updates
  /\ \A f \in Fields : config[f] <= updates /\ acked[f] <= updates
  /\ disk \in Config => \A f \in Fields : disk[f] <= updates
AckedInMemory == loaded => \A f \in Fields : config[f] >= acked[f]

\* The settings in effect are those of the configuration unless settings
\* requests overlapped or one failed, and again after the next one that did
\* not: PUT /settings ends with the limits it saved, a start with those it read.
Asking == {w \in SettingsHandlers : pc[w] \notin {"down", "idle"}}
SettingsInEffect == alone /\ Asking = {} => limits = config["settings"]
OneAsks ==
  alone => /\ \A v, w \in Asking : v = w
           /\ \A w \in Asking : mine[w] = config["settings"]

IInv ==
  /\ TypeOK /\ Locked /\ InMemory /\ Numbered /\ AckedInMemory /\ AckedOnDisk
  /\ OneAsks /\ SettingsInEffect

\* Update and Save of the Manager behave as single steps: what another
\* goroutine, or the next start, finds on disk is one whole configuration that
\* was in memory, never a mixture, part of one, or an older one put back.
Durable == INSTANCE DurableConfig WITH
  Fields <- Fields, Defaults <- Defaults, Missing <- Missing,
  Corrupt <- Corrupt, config <- config, disk <- disk
ImplementsDurable == Durable!Spec

-----------------------------------------------------------------------------
(* What the documentation says and the code does not do.                   *)

Quiet == \A w \in Writers : pc[w] = "idle"

\* wechat.go: PUT /settings "updates runtime parameters and persists them":
\* once all requests are answered the two are the same settings.
SettingsAgree == Quiet => limits = config["settings"]

\* wechat.go: settings answered with "failed to save settings" are not saved.
RejectedNotSaved == disk \in Config => disk["settings"] \notin rejected
=============================================================================
