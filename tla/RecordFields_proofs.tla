------------------------- MODULE RecordFields_proofs -------------------------
(***************************************************************************)
(* What the inventory objects show, for every set of tables and every      *)
(* width of the size fields.                                               *)
(***************************************************************************)
EXTENDS RecordFields, TLAPS

\* The slot objects are those of some table, or there are none: their properties do not
\* remember more than one table.  Everything else that is shown is made anew.
FieldsInv ==
    /\ file \in Tables
    /\ storage \in Tables
    /\ alive \in BOOLEAN
    /\ due \in BOOLEAN
    /\ pcies = <<>> \/ \E t \in Tables : pcies = Pcies(t, <<>>)
    /\ FieldsOfThisTable

LEMMA TableTypes ==
    ASSUME NEW t \in Tables
    PROVE  /\ t.version \in supportedSMBIOSVersions
           /\ t.dimms \in Seq(MemoryInfo)
           /\ t.slots \in Seq(SystemSlotInfo)
           /\ \A i \in 1 .. Len(t.slots) : SlotConforms(t.version, t.slots[i])
<1>1. t \in Table
  BY TablesConform
<1>2. /\ t.version \in supportedSMBIOSVersions
      /\ t.dimms \in Seq(MemoryInfo)
      /\ t.slots \in Seq(SystemSlotInfo)
  BY <1>1 DEF Table
<1>3. DOMAIN t.slots = 1 .. Len(t.slots)
  BY <1>2
<1>. QED
  BY <1>2, <1>3, TablesConform

\* A slot object that is updated in place shows the new structure only.
LEMMA SlotUpdateForgets ==
    ASSUME NEW r1, NEW r2
    PROVE  pcieInfoUpdate(pcieInfoUpdate(NewPcie, r1), r2) = pcieInfoUpdate(NewPcie, r2)
BY DEF pcieInfoUpdate, NewPcie

\* So do all of them, however many there were before.
LEMMA SlotsForget ==
    ASSUME NEW t \in Tables, NEW u \in Tables
    PROVE  Pcies(t, Pcies(u, <<>>)) = Pcies(t, <<>>)
<1>. DEFINE old == Pcies(u, <<>>)
<1>1. /\ old = [i \in 1 .. Len(u.slots) |-> pcieInfoUpdate(NewPcie, u.slots[i])]
      /\ Len(u.slots) \in Nat
  <2>1. \A i \in 1 .. Len(u.slots) : Reused(<<>>, i, NewPcie) = NewPcie
    BY DEF Reused
  <2>2. u.slots \in Seq(SystemSlotInfo)
    BY TableTypes
  <2>. QED
    BY <2>1, <2>2 DEF Pcies
<1>2. Len(old) = Len(u.slots)
  BY <1>1
<1>. HIDE DEF old
<1>3. ASSUME NEW i \in 1 .. Len(t.slots)
      PROVE  pcieInfoUpdate(Reused(old, i, NewPcie), t.slots[i])
                 = pcieInfoUpdate(Reused(<<>>, i, NewPcie), t.slots[i])
  <2>1. Reused(<<>>, i, NewPcie) = NewPcie
    <3>1. t.slots \in Seq(SystemSlotInfo)
      BY TableTypes
    <3>. QED
      BY <3>1 DEF Reused
  <2>2. CASE i <= Len(old)
    <3>1. i \in 1 .. Len(u.slots)
      BY <1>1, <1>2, <2>2
    <3>2. Reused(old, i, NewPcie) = pcieInfoUpdate(NewPcie, u.slots[i])
      BY <1>1, <2>2, <3>1 DEF Reused
    <3>. QED
      BY <2>1, <3>2, SlotUpdateForgets
  <2>3. CASE ~ (i <= Len(old))
    BY <2>1, <2>3 DEF Reused
  <2>. QED
    BY <2>2, <2>3
<1>. QED
  BY <1>3 DEF Pcies, old
-----------------------------------------------------------------------------
LEMMA FieldsInvInit == FieldsInit => FieldsInv
BY DEF FieldsInit, FieldsInv, FieldsOfThisTable, Published

LEMMA FieldsInvStep == FieldsInv /\ [FieldsNext]_vars => FieldsInv'
<1>. SUFFICES ASSUME FieldsInv, [FieldsNext]_vars
              PROVE  FieldsInv'
  OBVIOUS
<1>1. ASSUME NEW t \in Tables, HostSends(t)
      PROVE  FieldsInv'
  <2>1. CASE alive
    BY <1>1, <2>1 DEF FieldsInv, HostSends, FieldsOfThisTable, Published, objects
  <2>2. CASE ~ alive
    BY <1>1, <2>2 DEF FieldsInv, HostSends, FieldsOfThisTable, Published, objects
  <2>. QED
    BY <2>1, <2>2
<1>2. CASE Publish
  <2>1. /\ pcies' = Pcies(storage, pcies)
        /\ storage \in Tables /\ storage' = storage
    BY <1>2 DEF Publish, FieldsInv
  <2>2. Pcies(storage, pcies) = Pcies(storage, <<>>)
    BY <2>1, SlotsForget DEF FieldsInv
  <2>3. /\ Cpus(storage, cpus) = Cpus(storage, <<>>)
        /\ Dimms(storage, dimms) = Dimms(storage, <<>>)
    BY DEF Cpus, Dimms, Cleared
  <2>4. FieldsOfThisTable'
    BY <1>2, <2>1, <2>2, <2>3 DEF Publish, FieldsOfThisTable
  <2>5. \E t \in Tables : pcies' = Pcies(t, <<>>)
    BY <2>1, <2>2
  <2>. QED
    BY <1>2, <2>4, <2>5 DEF Publish, FieldsInv
<1>3. CASE PublishThrows
  BY <1>3 DEF PublishThrows, FieldsInv, FieldsOfThisTable, Published
<1>4. CASE Restart
  BY <1>4 DEF Restart, FieldsInv, FieldsOfThisTable, Published, objects
<1>5. CASE UNCHANGED vars
  BY <1>5 DEF vars, objects, FieldsInv, FieldsOfThisTable, Published
<1>. QED
  BY <1>1, <1>2, <1>3, <1>4, <1>5 DEF FieldsNext

LEMMA FieldsInvariant == FieldsSpec => []FieldsInv
BY FieldsInvInit, FieldsInvStep, PTL DEF FieldsSpec

\* Once a table is published, what the objects show is what a service that started with
\* this table would show, whatever tables were published, or ended it, before.
THEOREM FieldsNeverStale == FieldsSpec => []FieldsOfThisTable
<1>1. FieldsInv => FieldsOfThisTable
  BY DEF FieldsInv
<1>. QED
  BY <1>1, FieldsInvariant, PTL

-----------------------------------------------------------------------------
\* What is shown of one memory device.
LEMMA DimmShown ==
    ASSUME FieldsInv, Published, NEW i \in 1 .. Len(dimms)
    PROVE  /\ i \in 1 .. Len(storage.dimms)
           /\ storage.dimms[i] \in MemoryInfo
           /\ dimms[i].memorySizeInKB = memorySizeInKB(storage.dimms[i])
<1>1. /\ dimms = Dimms(storage, <<>>)
      /\ storage.dimms \in Seq(MemoryInfo)
  BY TableTypes DEF FieldsInv, FieldsOfThisTable
<1>2. dimms = [k \in 1 .. Len(storage.dimms) |->
                 memoryInfoUpdate(Reused(Cleared(<<>>), k, NewDimm), storage.dimms[k],
                                  storage.arrays)]
  BY <1>1 DEF Dimms
<1>3. i \in 1 .. Len(storage.dimms) /\ storage.dimms[i] \in MemoryInfo
  BY <1>1, <1>2
<1>4. Reused(Cleared(<<>>), i, NewDimm) = NewDimm
  BY <1>3, <1>1 DEF Reused, Cleared
<1>5. dimms[i] = memoryInfoUpdate(NewDimm, storage.dimms[i], storage.arrays)
  BY <1>2, <1>3, <1>4
<1>. QED
  BY <1>3, <1>5 DEF memoryInfoUpdate, NewDimm

\* What is shown of one slot.
LEMMA SlotShown ==
    ASSUME FieldsInv, Published, NEW i \in 1 .. Len(pcies)
    PROVE  /\ i \in 1 .. Len(storage.slots)
           /\ storage.slots[i] \in SystemSlotInfo
           /\ pcies[i].slotType = pcieType(storage.slots[i])
<1>1. /\ pcies = Pcies(storage, <<>>)
      /\ storage.slots \in Seq(SystemSlotInfo)
  BY TableTypes DEF FieldsInv, FieldsOfThisTable
<1>2. pcies = [k \in 1 .. Len(storage.slots) |->
                 pcieInfoUpdate(Reused(<<>>, k, NewPcie), storage.slots[k])]
  BY <1>1 DEF Pcies
<1>3. i \in 1 .. Len(storage.slots) /\ storage.slots[i] \in SystemSlotInfo
  BY <1>1, <1>2
<1>4. Reused(<<>>, i, NewPcie) = NewPcie
  BY <1>3, <1>1 DEF Reused
<1>5. pcies[i] = pcieInfoUpdate(NewPcie, storage.slots[i])
  BY <1>2, <1>3, <1>4
<1>. QED
  BY <1>3, <1>5 DEF pcieInfoUpdate, NewPcie

\* A slot that ends in front of its height is not taken for a low-profile one.
LEMMA OldSlotNotLow ==
    ASSUME NEW v \in supportedSMBIOSVersions, v < 35,
           NEW r \in SystemSlotInfo, SlotConforms(v, r)
    PROVE  pcieType(r) # "LowProfile"
<1>1. slotHeight(r) = slotHeightNotApplicable
  BY DEF supportedSMBIOSVersions, SystemSlotInfo, SlotConforms, slotHeight
<1>2. slotHeight(r) # slotHeightLowProfile
  BY <1>1 DEF slotHeightNotApplicable, slotHeightLowProfile
<1>3. pcieTypeTable(r.slotType) # "LowProfile"
  BY DEF pcieTypeTable
<1>. QED
  BY <1>2, <1>3 DEF pcieType

\* No slot that ends in front of its height is shown as a low-profile one, for any bytes
\* behind it and any number of peer groups.
THEOREM OlderRecordAlwaysUnknown == FieldsSpec => []OlderRecordUnknown
<1>1. ASSUME FieldsInv
      PROVE  OlderRecordUnknown
  <2>. SUFFICES ASSUME Published, storage.version < 35, NEW i \in 1 .. Len(pcies)
                PROVE  pcies[i].slotType # "LowProfile"
    BY DEF OlderRecordUnknown
  <2>1. storage \in Tables
    BY <1>1 DEF FieldsInv
  <2>2. /\ i \in 1 .. Len(storage.slots)
        /\ storage.slots[i] \in SystemSlotInfo
        /\ pcies[i].slotType = pcieType(storage.slots[i])
    BY <1>1, SlotShown
  <2>3. /\ SlotConforms(storage.version, storage.slots[i])
        /\ storage.version \in supportedSMBIOSVersions
    BY <2>1, <2>2, TableTypes
  <2>. QED
    BY <2>2, <2>3, OldSlotNotLow
<1>. QED
  BY <1>1, FieldsInvariant, PTL

\* The three forms of a size.
LEMMA SizeForms ==
    ASSUME NEW r \in MemoryInfo
    PROVE  LET megabytes == IF r.size = maxOldDimmSize THEN r.extendedSize ELSE r.size
           IN  /\ (r.size < baseNewVersionDimmSize /\ megabytes * dimmSizeUnit < Word)
                      => memorySizeInKB(r) = megabytes * dimmSizeUnit
               /\ r.size >= baseNewVersionDimmSize
                      => memorySizeInKB(r) = r.size - baseNewVersionDimmSize
<1>1. /\ r.size \in 0 .. (2 * baseNewVersionDimmSize - 1)
      /\ r.extendedSize \in Nat
      /\ baseNewVersionDimmSize \in Nat /\ baseNewVersionDimmSize >= 1
      /\ dimmSizeUnit \in Nat /\ Word \in Nat
  BY FieldsAssumption DEF MemoryInfo
<1>2. r.size < baseNewVersionDimmSize => r.size % baseNewVersionDimmSize = r.size
  BY <1>1
<1>3. r.size >= baseNewVersionDimmSize
          => r.size % baseNewVersionDimmSize = r.size - baseNewVersionDimmSize
  BY <1>1
<1>4. r.extendedSize * dimmSizeUnit \in Nat
  BY <1>1
<1>5. r.extendedSize * dimmSizeUnit < Word
          => dimmSizeExt(r.extendedSize) = r.extendedSize * dimmSizeUnit
  BY <1>1, <1>4 DEF dimmSizeExt
<1>. QED
  BY <1>1, <1>2, <1>3, <1>5 DEF memorySizeInKB, dimmSize, maxOldDimmSize

\* Every size below the width of the arithmetic is shown as it is, for any width.
THEOREM SizeAlwaysExact == FieldsSpec => []SizeExact
<1>1. ASSUME FieldsInv
      PROVE  SizeExact
  <2>1. ASSUME Published, NEW i \in 1 .. Len(dimms)
        PROVE  /\ storage.dimms[i] \in MemoryInfo
               /\ dimms[i].memorySizeInKB = memorySizeInKB(storage.dimms[i])
    BY <1>1, <2>1, DimmShown
  <2>. QED
    BY <2>1, SizeForms DEF SizeExact
<1>. QED
  BY <1>1, FieldsInvariant, PTL
=============================================================================
