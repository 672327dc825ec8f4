---------------------------- MODULE ConfigBundle ----------------------------
(***************************************************************************)
(* Delivery of the filter configuration from the controller to one         *)
(* external processor.  The controller cuts the marshalled configuration   *)
(* into parts and writes one Secret per part and, last, an index Secret    *)
(* with the checksum of the whole (filter_config_bundle.go).  The kubelet  *)
(* copies the Secrets into a projected volume, object by object and at its *)
(* own pace.  A watcher inside the external processor polls the volume     *)
(* (watcher.go), reassembles the parts (config_bundle.go) and hands the    *)
(* result to its receiver (Server.LoadConfig).                             *)
(*                                                                         *)
(* Nothing makes these steps atomic: every Secret write, every refresh of  *)
(* a file and every stat or read of a file is a step of its own.           *)
(***************************************************************************)
EXTENDS Naturals, Sequences

CONSTANTS
    Byte,        \* what a payload is made of
    NoBytes,     \* a part Secret, or its file, that does not exist; no config
    Versions,    \* reconciliations, each with a fresh UUID: 1..n for some n
    Raw,         \* Raw[v]: the configuration marshalled by reconciliation v
    Accepted,    \* the versions the receiver accepts
    ChunkSize,   \* filterConfigBundlePartSizeBytes
    MaxSlots,    \* maxFilterConfigBundleSlots
    MaxRestarts  \* bound on the crashes of the external processor

PartSlots == 1..MaxSlots

ASSUME VersionsAssumption ==
    /\ Versions \subseteq Nat \ {0}
    /\ \A v \in Versions : 1..v \subseteq Versions
    /\ Accepted \subseteq Versions
ASSUME SizeAssumption ==
    ChunkSize \in Nat \ {0} /\ MaxSlots \in Nat \ {0} /\ MaxRestarts \in Nat
ASSUME RawAssumption ==
    Raw \in [Versions -> Seq(Byte)] /\ NoBytes \notin Seq(Byte) /\ NoBytes \notin Seq(Seq(Byte))

VARIABLES
    version,     \* the last reconciliation started
    writing,     \* the slot it writes next, MaxSlots + 1: the index, 0: idle
    secretParts, \* the part Secrets, by slot
    secretIndex, \* the version the index Secret describes, 0: no index yet
    published,   \* history: the versions whose index has been written
    volParts,    \* the part files of the projected volume
    volIndex,    \* the version its index file describes, 0: no file
    volMtime,    \* the modification time of its files
    pc,          \* where the watcher is in loadConfig
    starting,    \* this is the load of StartConfigBundleWatcher
    index,       \* the index it read
    next,        \* the part it looks at next
    maxMod,      \* the newest modification time it saw
    payload,     \* the parts it read so far
    lastMod,     \* maxMod of the last successful load
    loaded,      \* the configuration the receiver runs with
    restarts

apiVars == <<version, writing, secretParts, secretIndex, published>>
volVars == <<volParts, volIndex, volMtime>>
watcherVars == <<pc, starting, index, next, maxMod, payload, lastMod, loaded, restarts>>
bundleVars == <<apiVars, volVars, watcherVars>>

NewerOf(a, b) == IF a >= b THEN a ELSE b

-----------------------------------------------------------------------------
(* The bundle format.                                                      *)

SplitBytes(raw) ==
    IF raw = <<>>
    THEN << <<>> >>
    ELSE [i \in 1..((Len(raw) + ChunkSize - 1) \div ChunkSize) |->
             SubSeq(raw, (i - 1) * ChunkSize + 1,
                    IF i * ChunkSize > Len(raw) THEN Len(raw) ELSE i * ChunkSize)]

Parts(v) == SplitBytes(Raw[v])

NumParts(v) == Len(Parts(v))

(* A marshalled configuration ends with its "uuid" and "version" keys (the *)
(* marshaller sorts the keys), and the UUID is fresh in every              *)
(* reconciliation: no list of parts is a prefix of another.                *)
ASSUME PrefixFree ==
    \A u, v \in Versions : u # v =>
        \E i \in 1..NumParts(u) : i > NumParts(v) \/ Parts(u)[i] # Parts(v)[i]

BundleInit ==
    /\ version = 0 /\ writing = 0
    /\ secretParts = [s \in PartSlots |-> NoBytes] /\ secretIndex = 0 /\ published = {}
    /\ volParts = [s \in PartSlots |-> NoBytes] /\ volIndex = 0 /\ volMtime = 0
    /\ pc = "down" /\ starting = FALSE
    /\ index = 0 /\ next = 0 /\ maxMod = 0 /\ payload = <<>>
    /\ lastMod = 0 /\ loaded = NoBytes /\ restarts = 0

-----------------------------------------------------------------------------
(* The controller: writeFilterConfigBundle.                                *)

(* A reconciliation marshals a new configuration; one that needs more than *)
(* MaxSlots parts is refused before anything is written.                   *)
ReconcileConfig ==
    /\ writing = 0
    /\ version + 1 \in Versions
    /\ version' = version + 1
    /\ writing' = IF NumParts(version + 1) > MaxSlots THEN 0 ELSE 1
    /\ UNCHANGED <<secretParts, secretIndex, published, volVars, watcherVars>>

(* One turn of the loop over the slots: create or update the part Secret,  *)
(* or delete the one a longer configuration left behind.                   *)
WritePart ==
    /\ writing \in PartSlots
    /\ secretParts' = [secretParts EXCEPT ![writing] =
                          IF writing > NumParts(version) THEN NoBytes ELSE Parts(version)[writing]]
    /\ writing' = writing + 1
    /\ UNCHANGED <<version, secretIndex, published, volVars, watcherVars>>

WriteIndex ==
    /\ writing = MaxSlots + 1
    /\ secretIndex' = version
    /\ published' = published \cup {version}
    /\ writing' = 0
    /\ UNCHANGED <<version, secretParts, volVars, watcherVars>>

(* A call to the API server fails: the reconciliation returns the error    *)
(* and is queued again.  The last version of an instance does not fail.    *)
SecretWriteFails ==
    /\ writing # 0
    /\ version + 1 \in Versions
    /\ writing' = 0
    /\ UNCHANGED <<version, secretParts, secretIndex, published, volVars, watcherVars>>

-----------------------------------------------------------------------------
(* The kubelet (external): it notices a changed Secret, in no particular   *)
(* order, and replaces the whole directory, which renews every file time.  *)

KubeletSyncPart(s) ==
    /\ volIndex # 0
    /\ volParts[s] # secretParts[s]
    /\ volParts' = [volParts EXCEPT ![s] = secretParts[s]]
    /\ volMtime' = volMtime + 1
    /\ UNCHANGED <<apiVars, volIndex, watcherVars>>

(* The volume is mounted once the index exists; the parts are optional.    *)
KubeletSyncIndex ==
    /\ volIndex # secretIndex
    /\ volIndex' = secretIndex
    /\ volMtime' = volMtime + 1
    /\ UNCHANGED <<apiVars, volParts, watcherVars>>

-----------------------------------------------------------------------------
(* The watcher: StartConfigBundleWatcher, watch and loadConfig.            *)

(* loadConfig returns an error.  The watch loop only logs it; the initial  *)
(* load gives up unless the bundle was caught in the middle of a write.    *)
ReturnError(midWrite) ==
    /\ pc' = IF starting /\ ~midWrite THEN "down" ELSE "idle"
    /\ starting' = FALSE

StartWatcher ==
    /\ pc = "down"
    /\ volIndex # 0
    /\ pc' = "readIndex" /\ starting' = TRUE
    /\ UNCHANGED <<apiVars, volVars, index, next, maxMod, payload, lastMod, loaded, restarts>>

TickWatcher ==
    /\ pc = "idle"
    /\ pc' = "readIndex"
    /\ UNCHANGED <<apiVars, volVars, starting, index, next, maxMod, payload, lastMod, loaded, restarts>>

ReadIndex ==
    /\ pc = "readIndex"
    /\ index' = volIndex
    /\ pc' = "statIndex"
    /\ UNCHANGED <<apiVars, volVars, starting, next, maxMod, payload, lastMod, loaded, restarts>>

StatIndex ==
    /\ pc = "statIndex"
    /\ maxMod' = volMtime
    /\ next' = 1
    /\ pc' = "statPart"
    /\ UNCHANGED <<apiVars, volVars, starting, index, payload, lastMod, loaded, restarts>>

(* Mutant: the file times are compared on a coarse clock.                  *)
StatPartCoarse ==
    /\ pc = "statPart"
    /\ IF volParts[next] = NoBytes
       THEN ReturnError(TRUE) /\ UNCHANGED <<next, maxMod, payload>>
       ELSE /\ maxMod' = NewerOf(maxMod, volMtime)
            /\ IF next < NumParts(index)
               THEN next' = next + 1 /\ UNCHANGED <<pc, starting, payload>>
               ELSE /\ next' = 1
                    /\ payload' = <<>>
                    /\ pc' = IF maxMod' \div 4 <= lastMod \div 4 THEN "idle" ELSE "readPart"
                    /\ starting' = (starting /\ pc' # "idle")
    /\ UNCHANGED <<apiVars, volVars, index, lastMod, loaded, restarts>>

StatPart ==
    /\ pc = "statPart"
    /\ IF volParts[next] = NoBytes
       THEN ReturnError(TRUE) /\ UNCHANGED <<next, maxMod, payload>>
       ELSE /\ maxMod' = NewerOf(maxMod, volMtime)
            /\ IF next < NumParts(index)
               THEN next' = next + 1 /\ UNCHANGED <<pc, starting, payload>>
               ELSE /\ next' = 1
                    /\ payload' = <<>>
                    /\ pc' = IF maxMod' <= lastMod THEN "idle" ELSE "readPart"
                    /\ starting' = (starting /\ pc' # "idle")
    /\ UNCHANGED <<apiVars, volVars, index, lastMod, loaded, restarts>>

(* ReassembleBundleConfig, up to the checksum.                             *)
ReadPart ==
    /\ pc = "readPart"
    /\ IF volParts[next] = NoBytes
       THEN ReturnError(TRUE) /\ UNCHANGED <<next, payload>>
       ELSE /\ payload' = Append(payload, volParts[next])
            /\ next' = next + 1
            /\ pc' = IF next < NumParts(index) THEN "readPart" ELSE "load"
            /\ UNCHANGED starting
    /\ UNCHANGED <<apiVars, volVars, index, maxMod, lastMod, loaded, restarts>>

(* The checksum of what was read is not the one in the index.  The         *)
(* checksum is taken as injective, and as telling part lists apart.        *)
ChecksumMismatch ==
    /\ pc = "load"
    /\ payload # Parts(index)
    /\ ReturnError(TRUE)
    /\ UNCHANGED <<apiVars, volVars, index, next, maxMod, payload, lastMod, loaded, restarts>>

(* Mutant: a receiver that refuses a configuration returns to the first.   *)
LoadFailsAndReturns ==
    /\ pc = "load"
    /\ payload = Parts(index)
    /\ loaded' = IF loaded = NoBytes THEN NoBytes
                 ELSE Parts(CHOOSE u \in published : \A v \in published : u <= v)
    /\ ReturnError(FALSE)
    /\ UNCHANGED <<apiVars, volVars, index, next, maxMod, payload, lastMod, restarts>>

(* Another version of the gateway wrote the payload, or the receiver       *)
(* refuses it, for good or (a credential provider that times out) for now. *)
LoadFails ==
    /\ pc = "load"
    /\ payload = Parts(index)
    /\ ReturnError(FALSE)
    /\ UNCHANGED <<apiVars, volVars, index, next, maxMod, payload, lastMod, loaded, restarts>>

(* Mutants: no checksum; the time is taken when the load is done.          *)
LoadUnchecked ==
    /\ pc = "load"
    /\ loaded' = payload
    /\ lastMod' = maxMod
    /\ pc' = "idle" /\ starting' = FALSE
    /\ UNCHANGED <<apiVars, volVars, index, next, maxMod, payload, restarts>>

LoadStatsLate ==
    /\ pc = "load"
    /\ payload = Parts(index)
    /\ loaded' = payload
    /\ lastMod' = volMtime
    /\ pc' = "idle" /\ starting' = FALSE
    /\ UNCHANGED <<apiVars, volVars, index, next, maxMod, payload, restarts>>

LoadConfig ==
    /\ pc = "load"
    /\ payload = Parts(index)
    /\ index \in Accepted
    /\ loaded' = payload
    /\ lastMod' = maxMod
    /\ pc' = "idle" /\ starting' = FALSE
    /\ UNCHANGED <<apiVars, volVars, index, next, maxMod, payload, restarts>>

(* The process dies with everything it had in memory.                      *)
Crash ==
    /\ pc # "down"
    /\ restarts < MaxRestarts
    /\ restarts' = restarts + 1
    /\ pc' = "down" /\ starting' = FALSE
    /\ lastMod' = 0 /\ loaded' = NoBytes
    /\ UNCHANGED <<apiVars, volVars, index, next, maxMod, payload>>

-----------------------------------------------------------------------------
Controller == ReconcileConfig \/ WritePart \/ WriteIndex
Kubelet == KubeletSyncIndex \/ \E s \in PartSlots : KubeletSyncPart(s)
Watcher == StartWatcher \/ TickWatcher \/ ReadIndex \/ StatIndex \/ StatPart \/ ReadPart \/ ChecksumMismatch
           \/ LoadFails \/ LoadConfig

BundleNext == Controller \/ SecretWriteFails \/ Kubelet \/ Watcher \/ Crash

(* A failed reconciliation is queued again, the kubelet syncs every pod    *)
(* periodically and the watcher is driven by a ticker.  A receiver that is *)
(* offered an acceptable configuration again and again takes it some time. *)
Fairness ==
    /\ WF_bundleVars(Controller)
    /\ WF_bundleVars(KubeletSyncIndex)
    /\ \A s \in PartSlots : WF_bundleVars(KubeletSyncPart(s))
    /\ WF_bundleVars(Watcher)
    /\ SF_bundleVars(LoadConfig)

BundleSpec == BundleInit /\ [][BundleNext]_bundleVars

FairBundleSpec == BundleSpec /\ Fairness

-----------------------------------------------------------------------------
Chunk == Seq(Byte)
WatcherPc == {"down", "idle", "readIndex", "statIndex", "statPart", "readPart", "load"}

(* The values the variables take; a position in the index exists in it.    *)
BundleTypeOK ==
    /\ version \in Versions \cup {0} /\ writing \in 0..(MaxSlots + 1)
    /\ secretParts \in [PartSlots -> Chunk \cup {NoBytes}]
    /\ secretIndex \in Versions \cup {0} /\ published \in SUBSET Versions
    /\ volParts \in [PartSlots -> Chunk \cup {NoBytes}]
    /\ volIndex \in Versions \cup {0} /\ volMtime \in Nat
    /\ pc \in WatcherPc /\ starting \in BOOLEAN
    /\ index \in Versions \cup {0} /\ next \in Nat
    /\ maxMod \in Nat /\ payload \in Seq(Chunk)
    /\ lastMod \in Nat /\ loaded \in Seq(Chunk) \cup {NoBytes} /\ restarts \in 0..MaxRestarts

(* The files of the volume reassemble to what its index announces.         *)
VolumeWhole ==
    /\ volIndex # 0
    /\ \A i \in 1..NumParts(volIndex) : volParts[i] = Parts(volIndex)[i]

(* No sleep on a stale configuration.  loadConfig skips a bundle whose     *)
(* newest file is not newer than lastMod; it then already runs with it.    *)
(* This is why the files are examined before they are read, and why        *)
(* lastMod is only set after a successful load.                            *)
SkipsOnlyWhatItRuns ==
    lastMod >= volMtime /\ VolumeWhole => loaded = Parts(volIndex)

(* The configuration the receiver runs with, by its version; 0: none.      *)
VersionOf(parts) == CHOOSE v \in Versions : Parts(v) = parts
Running == IF loaded = NoBytes THEN 0 ELSE VersionOf(loaded)

Delivery == INSTANCE ConfigDelivery WITH running <- Running

(* The delivery implements its abstract promise: the receiver only runs    *)
(* with published configurations and never goes back to an older one,      *)
(* except to none when the process dies.                                   *)
Delivers == Delivery!Spec

(* Convergence.  Once the last reconciliation is done, every running       *)
(* external processor ends up, for good, with the published configuration. *)
Converges ==
    <>[](secretIndex # 0 => loaded = Parts(secretIndex))
=============================================================================
