------------------------ MODULE ConfigBundle_proofs ------------------------
(***************************************************************************)
(* Proofs about ConfigBundle, for every number of versions, part size,     *)
(* number of slots and payload.                                            *)
(***************************************************************************)
EXTENDS ConfigBundle, TLAPS

LEMMA DivPositive ==
    ASSUME NEW a \in Nat, NEW b \in Nat, b > 0, a >= b
    PROVE  a \div b \in Nat /\ a \div b > 0
BY SMT

LEMMA FunctionIsSeq ==
    ASSUME NEW S, NEW n \in Nat, NEW f \in [1..n -> S]
    PROVE  f \in Seq(S) /\ Len(f) = n
BY SMT

(* A configuration is cut into at least one part, and into byte strings.   *)
LEMMA PartsType ==
    ASSUME NEW v \in Versions
    PROVE  Parts(v) \in Seq(Chunk) /\ NumParts(v) \in Nat /\ NumParts(v) > 0
<1> DEFINE raw == Raw[v]
           n == (Len(raw) + ChunkSize - 1) \div ChunkSize
<1>1. raw \in Seq(Byte) /\ Len(raw) \in Nat
  BY RawAssumption
<1>2. CASE raw = <<>>
  BY <1>2 DEF Parts, NumParts, SplitBytes, Chunk
<1>3. CASE raw # <<>>
  <2>1. Len(raw) > 0
    BY <1>1, <1>3
  <2>2. n \in Nat /\ n > 0
    <3> DEFINE a == Len(raw) + ChunkSize - 1
    <3>1. a \in Nat /\ a >= ChunkSize /\ ChunkSize \in Nat /\ ChunkSize > 0
      BY <1>1, <2>1, SizeAssumption
    <3> HIDE DEF a
    <3>2. a \div ChunkSize \in Nat /\ a \div ChunkSize > 0
      BY <3>1, DivPositive
    <3> QED
      BY <3>2 DEF a
  <2>3. ASSUME NEW i \in 1..n
        PROVE  SubSeq(raw, (i - 1) * ChunkSize + 1,
                      IF i * ChunkSize > Len(raw) THEN Len(raw) ELSE i * ChunkSize) \in Seq(Byte)
    <3> DEFINE lo == (i - 1) * ChunkSize + 1
               hi == IF i * ChunkSize > Len(raw) THEN Len(raw) ELSE i * ChunkSize
    <3>1. lo \in Nat /\ lo >= 1 /\ hi \in Nat /\ hi <= Len(raw)
      BY <1>1, <2>2, SizeAssumption
    <3> HIDE DEF lo, hi, raw
    <3>2. SubSeq(raw, lo, hi) \in Seq(Byte)
      BY <1>1, <3>1
    <3> QED
      BY <3>2 DEF lo, hi
  <2> HIDE DEF n
  <2>4. SplitBytes(raw) \in Seq(Chunk) /\ Len(SplitBytes(raw)) = n
    <3> DEFINE f == [i \in 1..n |->
                        SubSeq(raw, (i - 1) * ChunkSize + 1,
                               IF i * ChunkSize > Len(raw) THEN Len(raw) ELSE i * ChunkSize)]
    <3>1. f \in [1..n -> Chunk]
      BY <2>3 DEF Chunk
    <3>2. SplitBytes(raw) = f
      BY <1>3 DEF SplitBytes, n
    <3> HIDE DEF f
    <3> QED
      BY <2>2, <3>1, <3>2, FunctionIsSeq
  <2> QED
    BY <2>2, <2>4 DEF Parts, NumParts
<1> QED
  BY <1>2, <1>3
-----------------------------------------------------------------------------
(* The inductive invariant.                                                *)

(* Versions only move forward on their way from the controller to the      *)
(* receiver, and a version that is written fits in the slots.              *)
OrderInv ==
    /\ \A v \in published : v <= version /\ v <= secretIndex /\ NumParts(v) <= MaxSlots
    /\ writing # 0 => version # 0 /\ version \notin published /\ NumParts(version) <= MaxSlots
    /\ secretIndex \in published \cup {0}
    /\ volIndex \in published \cup {0}
    /\ index \in published \cup {0} /\ index <= volIndex
    /\ loaded # NoBytes => \E u \in published : loaded = Parts(u) /\ u <= index

(* Where the watcher is among the parts its index announces.               *)
PositionInv ==
    /\ pc # "down" => volIndex # 0
    /\ pc \in {"statIndex", "statPart", "readPart", "load"} => index # 0
    /\ pc \in {"statPart", "readPart"} => next \in 1..NumParts(index)
    /\ pc = "readPart" => Len(payload) = next - 1

(* As long as the files are not newer than the time the watcher took, what *)
(* it read is what they hold.                                              *)
MtimeInv ==
    /\ lastMod <= volMtime
    /\ volIndex # 0 => volMtime > 0
    /\ pc \in {"statPart", "readPart", "load"} => maxMod <= volMtime
    /\ pc \in {"readPart", "load"} /\ maxMod = volMtime =>
          \A i \in 1..Len(payload) : payload[i] = volParts[i]
    /\ lastMod = volMtime /\ volMtime > 0 =>
          \E u \in published : loaded = Parts(u) /\ \A i \in 1..NumParts(u) : volParts[i] = loaded[i]

Inv == BundleTypeOK /\ OrderInv /\ PositionInv /\ MtimeInv

(* A part of a configuration is a byte string, never NoBytes.              *)
LEMMA PartAt ==
    ASSUME NEW v \in Versions, NEW i \in 1..NumParts(v)
    PROVE  Parts(v)[i] \in Chunk
BY PartsType DEF NumParts

LEMMA InvInit == BundleInit => Inv
<1> SUFFICES ASSUME BundleInit PROVE Inv
  OBVIOUS
<1>1. BundleTypeOK
  <2>1. /\ [s \in PartSlots |-> NoBytes] \in [PartSlots -> Chunk \cup {NoBytes}]
        /\ <<>> \in Seq(Chunk)
    OBVIOUS
  <2> QED
    <3>1. /\ version \in Versions \cup {0} /\ writing \in 0..(MaxSlots + 1)
          /\ secretIndex \in Versions \cup {0} /\ published \in SUBSET Versions
          /\ volIndex \in Versions \cup {0} /\ volMtime \in Nat
      BY SizeAssumption DEF BundleInit
    <3>2. starting \in BOOLEAN
      BY Zenon DEF BundleInit
    <3>4. /\ pc \in WatcherPc
          /\ index \in Versions \cup {0} /\ next \in Nat /\ maxMod \in Nat
          /\ lastMod \in Nat /\ restarts \in 0..MaxRestarts
      BY SizeAssumption DEF BundleInit, WatcherPc
    <3>3. /\ secretParts \in [PartSlots -> Chunk \cup {NoBytes}]
          /\ volParts \in [PartSlots -> Chunk \cup {NoBytes}]
          /\ payload \in Seq(Chunk) /\ loaded \in Seq(Chunk) \cup {NoBytes}
      BY <2>1 DEF BundleInit
    <3> QED
      BY <3>1, <3>2, <3>3, <3>4 DEF BundleTypeOK
<1> QED
  BY <1>1 DEF BundleInit, Inv, OrderInv, PositionInv, MtimeInv

(* Every step of the controller, the kubelet and the watcher keeps it.     *)
LEMMA InvStep == Inv /\ [BundleNext]_bundleVars => Inv'
<1> SUFFICES ASSUME Inv, [BundleNext]_bundleVars PROVE Inv'
  OBVIOUS
<1> USE SizeAssumption, VersionsAssumption
<1>0. /\ BundleTypeOK /\ OrderInv /\ PositionInv /\ MtimeInv
      /\ published \subseteq Versions
  BY DEF Inv, BundleTypeOK
<1>1. CASE ReconcileConfig
  <2>1. BundleTypeOK'
    BY <1>0, <1>1 DEF ReconcileConfig, BundleTypeOK, volVars, watcherVars
  <2>2. OrderInv'
    BY <1>0, <1>1, PartsType DEF ReconcileConfig, BundleTypeOK, OrderInv, volVars, watcherVars
  <2>3. PositionInv'
    BY <1>0, <1>1 DEF ReconcileConfig, PositionInv, volVars, watcherVars
  <2>4. MtimeInv'
    BY <1>0, <1>1, Zenon DEF ReconcileConfig, MtimeInv, volVars, watcherVars
  <2> QED
    BY <2>1, <2>2, <2>3, <2>4 DEF Inv
<1>2. CASE WritePart
  <2>1. BundleTypeOK'
    BY <1>0, <1>2, PartsType, PartAt DEF WritePart, BundleTypeOK, OrderInv, PartSlots, volVars, watcherVars
  <2>2. OrderInv'
    BY <1>0, <1>2 DEF WritePart, OrderInv, PartSlots, volVars, watcherVars
  <2>3. PositionInv'
    BY <1>0, <1>2 DEF WritePart, PositionInv, volVars, watcherVars
  <2>4. MtimeInv'
    BY <1>0, <1>2, Zenon DEF WritePart, MtimeInv, volVars, watcherVars
  <2> QED
    BY <2>1, <2>2, <2>3, <2>4 DEF Inv
<1>3. CASE WriteIndex
  <2>1. BundleTypeOK'
    BY <1>0, <1>3 DEF WriteIndex, BundleTypeOK, OrderInv, volVars, watcherVars
  <2>2. OrderInv'
    BY <1>0, <1>3 DEF WriteIndex, OrderInv, volVars, watcherVars
  <2>3. PositionInv'
    BY <1>0, <1>3 DEF WriteIndex, PositionInv, volVars, watcherVars
  <2>4. MtimeInv'
    BY <1>0, <1>3 DEF WriteIndex, MtimeInv, volVars, watcherVars
  <2> QED
    BY <2>1, <2>2, <2>3, <2>4 DEF Inv
<1>4. CASE SecretWriteFails
  <2>1. BundleTypeOK'
    <3>1. writing' \in 0..(MaxSlots + 1)
      BY <1>4 DEF SecretWriteFails
    <3> QED
      BY <1>0, <1>4, <3>1, Zenon DEF SecretWriteFails, BundleTypeOK, volVars, watcherVars
  <2>2. OrderInv'
    BY <1>0, <1>4 DEF SecretWriteFails, OrderInv, volVars, watcherVars
  <2>3. PositionInv'
    BY <1>0, <1>4 DEF SecretWriteFails, PositionInv, volVars, watcherVars
  <2>4. MtimeInv'
    BY <1>0, <1>4, Zenon DEF SecretWriteFails, MtimeInv, volVars, watcherVars
  <2> QED
    BY <2>1, <2>2, <2>3, <2>4 DEF Inv
<1>5. CASE KubeletSyncIndex
  <2>1. BundleTypeOK'
    BY <1>0, <1>5 DEF KubeletSyncIndex, BundleTypeOK, apiVars, watcherVars
  <2>2. OrderInv'
    BY <1>0, <1>5 DEF KubeletSyncIndex, BundleTypeOK, OrderInv, PositionInv, apiVars, watcherVars
  <2>3. PositionInv'
    BY <1>0, <1>5 DEF KubeletSyncIndex, OrderInv, PositionInv, watcherVars
  <2>4. MtimeInv'
    <3>1. /\ lastMod \in Nat /\ maxMod \in Nat /\ volMtime \in Nat
          /\ lastMod <= volMtime
          /\ pc \in {"statPart", "readPart", "load"} => maxMod <= volMtime
      BY <1>0 DEF BundleTypeOK, MtimeInv
    <3>2. volMtime' = volMtime + 1 /\ lastMod' = lastMod /\ maxMod' = maxMod /\ pc' = pc
      BY <1>5 DEF KubeletSyncIndex, watcherVars
    <3> QED
      BY <3>1, <3>2 DEF MtimeInv
  <2> QED
    BY <2>1, <2>2, <2>3, <2>4 DEF Inv
<1>6. ASSUME NEW s \in PartSlots, KubeletSyncPart(s)
      PROVE  Inv'
  <2>1. BundleTypeOK'
    BY <1>0, <1>6 DEF KubeletSyncPart, BundleTypeOK, apiVars, watcherVars
  <2>2. OrderInv'
    BY <1>0, <1>6, Zenon DEF KubeletSyncPart, OrderInv, apiVars, watcherVars
  <2>3. PositionInv'
    BY <1>0, <1>6 DEF KubeletSyncPart, PositionInv, watcherVars
  <2>4. MtimeInv'
    <3>1. /\ lastMod \in Nat /\ maxMod \in Nat /\ volMtime \in Nat
          /\ lastMod <= volMtime
          /\ pc \in {"statPart", "readPart", "load"} => maxMod <= volMtime
      BY <1>0 DEF BundleTypeOK, MtimeInv
    <3>2. volMtime' = volMtime + 1 /\ lastMod' = lastMod /\ maxMod' = maxMod /\ pc' = pc
      BY <1>6 DEF KubeletSyncPart, watcherVars
    <3> QED
      BY <3>1, <3>2 DEF MtimeInv
  <2> QED
    BY <2>1, <2>2, <2>3, <2>4 DEF Inv
<1>7. CASE StartWatcher
  <2>1. BundleTypeOK'
    BY <1>0, <1>7 DEF StartWatcher, BundleTypeOK, OrderInv, WatcherPc, apiVars, volVars
  <2>2. OrderInv'
    BY <1>0, <1>7 DEF StartWatcher, OrderInv, apiVars, volVars
  <2>3. PositionInv'
    BY <1>0, <1>7 DEF StartWatcher, PositionInv, volVars
  <2>4. MtimeInv'
    BY <1>0, <1>7, Zenon DEF StartWatcher, MtimeInv, apiVars, volVars
  <2> QED
    BY <2>1, <2>2, <2>3, <2>4 DEF Inv
<1>8. CASE TickWatcher
  <2>1. BundleTypeOK'
    BY <1>0, <1>8 DEF TickWatcher, BundleTypeOK, WatcherPc, apiVars, volVars
  <2>2. OrderInv'
    BY <1>0, <1>8 DEF TickWatcher, OrderInv, apiVars, volVars
  <2>3. PositionInv'
    BY <1>0, <1>8 DEF TickWatcher, PositionInv, volVars
  <2>4. MtimeInv'
    BY <1>0, <1>8, Zenon DEF TickWatcher, MtimeInv, apiVars, volVars
  <2> QED
    BY <2>1, <2>2, <2>3, <2>4 DEF Inv
<1>9. CASE ReadIndex
  <2>1. BundleTypeOK'
    BY <1>0, <1>9, Zenon DEF ReadIndex, BundleTypeOK, WatcherPc, apiVars, volVars
  <2>2. OrderInv'
    BY <1>0, <1>9 DEF ReadIndex, OrderInv, apiVars, volVars
  <2>3. PositionInv'
    BY <1>0, <1>9 DEF ReadIndex, PositionInv, volVars
  <2>4. MtimeInv'
    BY <1>0, <1>9, Zenon DEF ReadIndex, MtimeInv, apiVars, volVars
  <2> QED
    BY <2>1, <2>2, <2>3, <2>4 DEF Inv
<1>10. CASE StatIndex
  <2>1. BundleTypeOK'
    <3>1. next' \in Nat /\ maxMod' \in Nat
      BY <1>0, <1>10 DEF StatIndex, BundleTypeOK
    <3> QED
      BY <1>0, <1>10, <3>1, Zenon DEF StatIndex, BundleTypeOK, WatcherPc, apiVars, volVars
  <2>2. OrderInv'
    BY <1>0, <1>10 DEF StatIndex, OrderInv, apiVars, volVars
  <2>3. PositionInv'
    BY <1>0, <1>10, PartsType DEF StatIndex, OrderInv, PositionInv, volVars
  <2>4. MtimeInv'
    BY <1>0, <1>10 DEF StatIndex, BundleTypeOK, MtimeInv, apiVars, volVars
  <2> QED
    BY <2>1, <2>2, <2>3, <2>4 DEF Inv
<1>11. CASE StatPart
  <2>0. /\ index \in Versions /\ index \in published
        /\ NumParts(index) \in Nat /\ NumParts(index) > 0 /\ NumParts(index) <= MaxSlots
        /\ next \in 1..NumParts(index) /\ next \in PartSlots
    BY <1>0, <1>11, PartsType DEF StatPart, BundleTypeOK, OrderInv, PositionInv, PartSlots
  <2>1. BundleTypeOK'
    <3>1. CASE volParts[next] = NoBytes
      BY <1>0, <3>1, <1>11, Zenon DEF StatPart, ReturnError, BundleTypeOK, WatcherPc, apiVars, volVars
    <3>2. CASE volParts[next] # NoBytes
      <4>1. maxMod' \in Nat /\ next' \in Nat /\ pc' \in WatcherPc
        BY <1>0, <3>2, <1>11 DEF StatPart, NewerOf, BundleTypeOK, WatcherPc
      <4>2. payload' \in Seq(Chunk)
        <5>1. payload' = payload \/ payload' = <<>>
          BY <3>2, <1>11, Zenon DEF StatPart
        <5>2. payload \in Seq(Chunk)
          BY <1>0 DEF BundleTypeOK
        <5>3. <<>> \in Seq(Chunk)
          OBVIOUS
        <5> QED
          BY <5>1, <5>2, <5>3, Zenon
      <4>3. starting' \in BOOLEAN
        <5>1. starting \in BOOLEAN /\ (starting' = starting \/ starting' = (starting /\ pc' # "idle"))
          BY <1>0, <3>2, <1>11, Zenon DEF StatPart, BundleTypeOK
        <5> QED
          BY <5>1, Zenon
      <4> QED
        BY <1>0, <4>1, <4>2, <4>3, <1>11 DEF StatPart, BundleTypeOK, apiVars, volVars
    <3> QED
      BY <3>1, <3>2
  <2>2. OrderInv'
    BY <1>0, <1>11 DEF StatPart, ReturnError, OrderInv, apiVars, volVars
  <2>3. PositionInv'
    BY <1>0, <2>0, <1>11 DEF StatPart, ReturnError, PositionInv, volVars
  <2>4. MtimeInv'
    BY <1>0, <1>11 DEF StatPart, ReturnError, NewerOf, BundleTypeOK, OrderInv, PositionInv, MtimeInv, apiVars, volVars, watcherVars
  <2> QED
    BY <2>1, <2>2, <2>3, <2>4 DEF Inv
<1>12. CASE ReadPart
  <2>0. /\ index \in Versions /\ index \in published
        /\ NumParts(index) \in Nat /\ NumParts(index) > 0 /\ NumParts(index) <= MaxSlots
        /\ next \in 1..NumParts(index) /\ next \in PartSlots
    BY <1>0, <1>12, PartsType DEF ReadPart, BundleTypeOK, OrderInv, PositionInv, PartSlots
  <2>1. BundleTypeOK'
    <3>1. CASE volParts[next] = NoBytes
      BY <1>0, <3>1, <1>12, Zenon DEF ReadPart, ReturnError, BundleTypeOK, WatcherPc, apiVars, volVars
    <3>2. CASE volParts[next] # NoBytes
      <4>1. volParts[next] \in Chunk
        BY <1>0, <2>0, <3>2 DEF BundleTypeOK
      <4>2. payload' \in Seq(Chunk)
        <5>1. payload \in Seq(Chunk) /\ payload' = Append(payload, volParts[next])
          BY <1>0, <3>2, <1>12 DEF ReadPart, BundleTypeOK
        <5> QED
          BY <4>1, <5>1
      <4>3. next' \in Nat /\ pc' \in WatcherPc
        BY <1>0, <3>2, <1>12 DEF ReadPart, BundleTypeOK, WatcherPc
      <4> QED
        BY <1>0, <3>2, <4>2, <4>3, <1>12 DEF ReadPart, BundleTypeOK, apiVars, volVars
    <3> QED
      BY <3>1, <3>2
  <2>2. OrderInv'
    BY <1>0, <1>12 DEF ReadPart, ReturnError, BundleTypeOK, OrderInv, apiVars, volVars
  <2>3. PositionInv'
    BY <1>0, <2>0, <1>12 DEF ReadPart, ReturnError, PositionInv, volVars
  <2>4. MtimeInv'
    <3>1. CASE volParts[next] = NoBytes
      BY <1>0, <3>1, <1>12 DEF ReadPart, ReturnError, MtimeInv, apiVars, volVars
    <3>2. CASE volParts[next] # NoBytes
      <4>1. /\ payload \in Seq(Chunk) /\ Len(payload) = next - 1
            /\ volParts[next] \in Chunk /\ next \in Nat
        BY <1>0, <2>0, <3>2, <1>12 DEF ReadPart, BundleTypeOK, PositionInv
      <4>2. /\ Len(payload') = next /\ payload'[next] = volParts[next]
            /\ \A i \in 1..Len(payload) : payload'[i] = payload[i]
        BY <3>2, <4>1, <1>12 DEF ReadPart
      <4>3. maxMod = volMtime => \A i \in 1..Len(payload') : payload'[i] = volParts[i]
        BY <1>0, <4>1, <4>2, <1>12 DEF ReadPart, MtimeInv
      <4> QED
        BY <1>0, <3>2, <4>3, <1>12 DEF ReadPart, BundleTypeOK, MtimeInv, apiVars, volVars
    <3> QED
      BY <3>1, <3>2
  <2> QED
    BY <2>1, <2>2, <2>3, <2>4 DEF Inv
<1>13. CASE ChecksumMismatch
  <2>1. BundleTypeOK'
    BY <1>0, <1>13, Zenon DEF ChecksumMismatch, ReturnError, BundleTypeOK, WatcherPc, apiVars, volVars
  <2>2. OrderInv'
    BY <1>0, <1>13 DEF ChecksumMismatch, ReturnError, OrderInv, apiVars, volVars
  <2>3. PositionInv'
    BY <1>0, <1>13 DEF ChecksumMismatch, ReturnError, PositionInv, volVars
  <2>4. MtimeInv'
    BY <1>0, <1>13 DEF ChecksumMismatch, ReturnError, MtimeInv, apiVars, volVars
  <2> QED
    BY <2>1, <2>2, <2>3, <2>4 DEF Inv
<1>14. CASE LoadFails
  <2>1. BundleTypeOK'
    BY <1>0, <1>14, Zenon DEF LoadFails, ReturnError, BundleTypeOK, WatcherPc, apiVars, volVars
  <2>2. OrderInv'
    BY <1>0, <1>14 DEF LoadFails, ReturnError, OrderInv, apiVars, volVars
  <2>3. PositionInv'
    BY <1>0, <1>14 DEF LoadFails, ReturnError, PositionInv, volVars
  <2>4. MtimeInv'
    BY <1>0, <1>14 DEF LoadFails, ReturnError, MtimeInv, apiVars, volVars
  <2> QED
    BY <2>1, <2>2, <2>3, <2>4 DEF Inv
<1>15. CASE LoadConfig
  <2>0. index \in published /\ Len(payload) = NumParts(index)
    BY <1>0, <1>15 DEF LoadConfig, OrderInv, NumParts
  <2>1. BundleTypeOK'
    BY <1>0, <1>15, Zenon DEF LoadConfig, BundleTypeOK, WatcherPc, apiVars, volVars
  <2>2. OrderInv'
    BY <1>0, <1>15 DEF LoadConfig, OrderInv, PositionInv, apiVars, volVars
  <2>3. PositionInv'
    BY <1>0, <1>15 DEF LoadConfig, PositionInv, volVars
  <2>4. MtimeInv'
    BY <1>0, <2>0, <1>15 DEF LoadConfig, MtimeInv, apiVars, volVars
  <2> QED
    BY <2>1, <2>2, <2>3, <2>4 DEF Inv
<1>16. CASE Crash
  <2>1. BundleTypeOK'
    <3>1. restarts' \in 0..MaxRestarts /\ pc' \in WatcherPc
      BY <1>0, <1>16 DEF Crash, BundleTypeOK, WatcherPc
    <3>2. starting' \in BOOLEAN
      BY <1>16, Zenon DEF Crash
    <3> QED
      BY <1>0, <3>1, <3>2, <1>16 DEF Crash, BundleTypeOK, apiVars, volVars
  <2>2. OrderInv'
    BY <1>0, <1>16 DEF Crash, OrderInv, apiVars, volVars
  <2>3. PositionInv'
    BY <1>0, <1>16 DEF Crash, PositionInv
  <2>4. MtimeInv'
    BY <1>0, <1>16 DEF Crash, BundleTypeOK, MtimeInv, volVars
  <2> QED
    BY <2>1, <2>2, <2>3, <2>4 DEF Inv
<1>17. CASE UNCHANGED bundleVars
  BY <1>0, <1>17 DEF Inv, bundleVars, apiVars, volVars, watcherVars, BundleTypeOK, OrderInv, PositionInv,
     MtimeInv
<1> QED
  BY <1>1, <1>2, <1>3, <1>4, <1>5, <1>6, <1>7, <1>8, <1>9, <1>10, <1>11, <1>12, <1>13, <1>14,
     <1>15, <1>16, <1>17 DEF BundleNext, Controller, Kubelet, Watcher
-----------------------------------------------------------------------------
LEMMA Invariance == BundleSpec => []Inv
<1>1. BundleInit => Inv
  BY InvInit
<1>2. Inv /\ [BundleNext]_bundleVars => Inv'
  BY InvStep
<1> QED
  BY <1>1, <1>2, PTL DEF BundleSpec

(* Type correctness of the delivery: in particular the watcher never looks *)
(* for a part beyond the slots, however the files change under it.         *)
THEOREM TypeCorrect == BundleSpec => []BundleTypeOK
<1>1. Inv => BundleTypeOK
  BY DEF Inv
<1> QED
  BY <1>1, Invariance, PTL

(* Two versions whose parts both match the files are the same version.     *)
LEMMA SameVersion ==
    ASSUME NEW u \in Versions, NEW v \in Versions, NEW f,
           \A i \in 1..NumParts(u) : f[i] = Parts(u)[i],
           \A i \in 1..NumParts(v) : f[i] = Parts(v)[i]
    PROVE  u = v
<1> SUFFICES ASSUME u # v PROVE FALSE
  OBVIOUS
<1>0. NumParts(u) \in Nat /\ NumParts(v) \in Nat
  BY PartsType
<1>1. PICK i \in 1..NumParts(u) : i > NumParts(v) \/ Parts(u)[i] # Parts(v)[i]
  BY PrefixFree
<1>2. PICK j \in 1..NumParts(v) : j > NumParts(u) \/ Parts(v)[j] # Parts(u)[j]
  BY PrefixFree
<1>3. NumParts(u) > NumParts(v)
  BY <1>0, <1>1
<1>4. NumParts(v) > NumParts(u)
  BY <1>0, <1>2
<1> QED
  BY <1>0, <1>3, <1>4

(* The modification-time shortcut of loadConfig is safe for every number   *)
(* of versions and parts: a whole bundle that the watcher would skip is    *)
(* the one the receiver already runs with.                                 *)
THEOREM SkipIsSafe == BundleSpec => []SkipsOnlyWhatItRuns
<1>1. Inv => SkipsOnlyWhatItRuns
  <2> SUFFICES ASSUME Inv, lastMod >= volMtime, VolumeWhole
               PROVE  loaded = Parts(volIndex)
    BY DEF SkipsOnlyWhatItRuns
  <2>1. volMtime > 0 /\ lastMod = volMtime /\ volIndex \in Versions
    BY DEF Inv, BundleTypeOK, MtimeInv, VolumeWhole
  <2>2. PICK u \in published :
            loaded = Parts(u) /\ \A i \in 1..NumParts(u) : volParts[i] = loaded[i]
    BY <2>1 DEF Inv, MtimeInv
  <2>3. u \in Versions
    BY DEF Inv, BundleTypeOK
  <2>4. u = volIndex
    BY <2>1, <2>2, <2>3, SameVersion DEF VolumeWhole
  <2> QED
    BY <2>2, <2>4
<1> QED
  BY <1>1, Invariance, PTL

-----------------------------------------------------------------------------
(* The refinement of ConfigDelivery.                                       *)

LEMMA VersionOfParts ==
    ASSUME NEW u \in Versions
    PROVE  VersionOf(Parts(u)) = u
<1> DEFINE w == VersionOf(Parts(u))
<1>1. w \in Versions /\ Parts(w) = Parts(u)
  BY DEF VersionOf
<1> HIDE DEF w
<1>2. w = u
  BY <1>1, SameVersion
<1> QED
  BY <1>2 DEF w

LEMMA RunningPublished ==
    ASSUME Inv
    PROVE  /\ loaded = NoBytes => Running = 0
           /\ \A u \in Versions : loaded = Parts(u) => Running = u
           /\ Running \in published \cup {0} /\ Running <= index
<1>1. ASSUME NEW u \in Versions, loaded = Parts(u)
      PROVE  Running = u
  BY <1>1, PartsType, RawAssumption, VersionOfParts DEF Running, Chunk
<1>2. CASE loaded = NoBytes
  BY <1>1, <1>2, VersionsAssumption DEF Running, Inv, BundleTypeOK
<1>3. CASE loaded # NoBytes
  BY <1>1, <1>3 DEF Inv, BundleTypeOK, OrderInv
<1> QED
  BY <1>1, <1>2, <1>3

(* The delivery of bundles implements its abstract promise: the external   *)
(* processor only runs with configurations whose index was written, and    *)
(* never moves to an older one, whatever the controller, the kubelet and   *)
(* the watcher interleave.                                                 *)
THEOREM Refinement == BundleSpec => Delivers
<1>1. BundleInit => Delivery!Init
  BY DEF BundleInit, Delivery!Init, Running
<1>2. Inv /\ [BundleNext]_bundleVars => [Delivery!Next]_<<published, Running>>
  <2> SUFFICES ASSUME Inv, [BundleNext]_bundleVars
               PROVE  Delivery!Next \/ UNCHANGED <<published, Running>>
    OBVIOUS
  <2>1. CASE WriteIndex
    <3>1. \A u \in published : u < version
      BY <2>1, SizeAssumption, VersionsAssumption DEF WriteIndex, Inv, BundleTypeOK, OrderInv
    <3>2. version \in Versions /\ UNCHANGED Running
      BY <2>1, SizeAssumption DEF WriteIndex, Inv, BundleTypeOK, OrderInv, watcherVars, Running
    <3> QED
      BY <2>1, <3>1, <3>2 DEF WriteIndex, Delivery!Next, Delivery!Publish
  <2>2. CASE LoadConfig
    <3>1. index \in published /\ index \in Versions
      BY <2>2 DEF LoadConfig, Inv, BundleTypeOK, OrderInv, PositionInv
    <3>2. loaded' = Parts(index) /\ UNCHANGED published
      BY <2>2 DEF LoadConfig, apiVars
    <3>3. Running <= index
      BY RunningPublished
    <3>4. Running' = index
      BY <3>1, <3>2, PartsType, RawAssumption, VersionOfParts DEF Running, Chunk
    <3> QED
      BY <3>1, <3>2, <3>3, <3>4 DEF Delivery!Next, Delivery!Deliver
  <2>3. CASE Crash
    <3>1. loaded' = NoBytes /\ UNCHANGED published
      BY <2>3 DEF Crash, apiVars
    <3>2. Running' = 0
      BY <3>1 DEF Running
    <3> QED
      BY <3>1, <3>2 DEF Delivery!Next, Delivery!Stop
  <2>4. ASSUME ~WriteIndex, ~LoadConfig, ~Crash
        PROVE  UNCHANGED <<published, loaded>>
    BY <2>4, Zenon DEF BundleNext, bundleVars, Controller, Kubelet, Watcher, apiVars, volVars, watcherVars,
                ReconcileConfig, WritePart, SecretWriteFails, KubeletSyncIndex, KubeletSyncPart, StartWatcher, TickWatcher,
                ReadIndex, StatIndex, StatPart, ReadPart, ChecksumMismatch, LoadFails
  <2> QED
    BY <2>1, <2>2, <2>3, <2>4 DEF Running
<1> QED
  BY <1>1, <1>2, Invariance, PTL DEF BundleSpec, Delivers, Delivery!Spec
=============================================================================
