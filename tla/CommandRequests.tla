--------------------------- MODULE CommandRequests ---------------------------
(***************************************************************************)
(* The commands of slmp::SlmpClient as their begin calls build them: which *)
(* arguments are refused and with which error, how far the encoder writes  *)
(* into the transmit buffer, and the counts the frame tells the PLC.  The  *)
(* writes with several destinations are in WriteRequests.                  *)
(*                                                                         *)
(* s is the client's configuration: [frame, mode, txCapacity, rxCapacity,  *)
(* connected, blocked, blockAccess]; r is the call with its arguments.     *)
(***************************************************************************)
EXTENDS Integers, Sequences, FiniteSetsExt

CONSTANTS
    Limit,          \* the limits of the profile, by ProfileLimitKey
    PointLimit,     \* words of a request no profile limits
    BlockLimit,     \* blocks in one request in iQ-R mode
    MemoryLimit,    \* words of one memory access
    UnitByteLimit,  \* bytes of one access to an extend unit
    LoopbackLimit   \* characters of a self test

LimitKeys == {"DirectWordRead", "DirectWordWrite", "DirectBitRead", "DirectBitWrite",
              "RandomReadWord", "RandomReadWordExt",
              "MonitorRegisterWord", "MonitorRegisterWordExt"}

ASSUME LimitAssumption ==
    /\ Limit \in [LimitKeys -> 1 .. 7168]
    /\ PointLimit \in Nat /\ BlockLimit \in Nat /\ MemoryLimit \in Nat
    /\ UnitByteLimit \in Nat /\ LoopbackLimit \in Nat

(* Devices as the validation tells them apart. "otherProfile" is an address *)
(* made for another PLC profile, "buffer" a module buffer addressed as a    *)
(* plain device, "timerState" a contact or coil of a long timer,            *)
(* "timerCurrent" its current value, "counterContact" a long counter's      *)
(* contact or coil, "dwordOnly" LCN and LZ.                                 *)
DeviceClasses == {"plain", "readOnly", "otherProfile", "buffer", "timerState",
                  "timerCurrent", "counterContact", "dwordOnly"}

(* Extended devices: a module buffer, a multiple-CPU buffer with a slot     *)
(* that has one or not, and a link-direct device with a code that may be    *)
(* addressed through a link, another one, or a long counter's contact.      *)
ExtClasses == {"module", "hg", "badHg", "link", "notLink", "linkCounter"}

-----------------------------------------------------------------------------
(* Checks: each is "Ok" or the error it fails with, and the first counts. *)
Refuse(condition, error) == IF condition THEN error ELSE "Ok"

FirstError(checks) ==
    LET failed == {i \in DOMAIN checks : checks[i] # "Ok"} IN
    IF failed = {} THEN "Ok" ELSE checks[Min(failed)]

FeatureAllowed(s, feature) == Refuse(feature \in s.blocked, "ProfileFeatureBlocked")

CountValid(n, limit) == Refuse(n \notin 1 .. limit, "InvalidArgument")

(* A null output array is one of capacity 0. *)
HoldsAll(r) == Refuse(r.capacity < r.points, "InvalidArgument")

(* validateDirect*Device, refusing the classes in refused *)
DeviceError(device, refused) ==
    IF device = "otherProfile" THEN "InvalidArgument"
    ELSE Refuse(device \in refused, "UnsupportedDevice")

(* validateDirectDeviceList and the loops like it *)
ListError(devices, refused) ==
    FirstError([i \in DOMAIN devices |-> DeviceError(devices[i], refused)])

SomeIn(devices, refused) ==
    Refuse(\E i \in DOMAIN devices : devices[i] \in refused, "UnsupportedDevice")

WordReadRefused(points) ==
    {"buffer", "dwordOnly"} \cup (IF points % 4 = 0 THEN {} ELSE {"timerCurrent"})
BitReadRefused == {"buffer", "timerState"}
DWordReadRefused == {"buffer", "timerCurrent", "dwordOnly"}
WordWriteRefused == {"buffer", "readOnly", "timerCurrent", "dwordOnly"}
BitWriteRefused == {"buffer", "readOnly", "timerState", "counterContact"}

-----------------------------------------------------------------------------
(* Encoders: a chunk is written when the buffer still has the room it needs. *)
Chunk(needs, writes) == [needs |-> needs, writes |-> writes]
Exactly(n) == Chunk(n, n)

Written(capacity, chunks) ==
    LET upTo[n \in 0 .. Len(chunks)] ==
            IF n = 0 THEN [end |-> 0, fits |-> TRUE]
            ELSE LET before == upTo[n - 1] IN
                 IF before.fits /\ capacity - before.end >= chunks[n].needs
                 THEN [before EXCEPT !.end = @ + chunks[n].writes]
                 ELSE [before EXCEPT !.fits = FALSE]
    IN upTo[Len(chunks)]

(* What a begin call comes to: the error of its checks, what it wrote, the  *)
(* frame's counts (tells) for the PLC, and whether it has emptied the       *)
(* caller's result before startAsync, which may still refuse the request.   *)
Encoded(s, checks, chunks, tells) ==
    LET error == FirstError(checks)
        w == Written(s.txCapacity, chunks) IN
    [error |-> IF error # "Ok" THEN error ELSE Refuse(~w.fits, "BufferTooSmall"),
     end |-> IF error # "Ok" THEN 0 ELSE w.end,
     tells |-> tells, empties |-> FALSE]

Tells(service, spec, counts) == [service |-> service, spec |-> spec, counts |-> counts]

packedBitBytes(bits) == (bits + 1) \div 2

(* The sizes of encodeDeviceSpec, encodeModuleBufDeviceSpec and             *)
(* encodeLinkDirectDeviceSpec                                               *)
SpecSize(s) == IF s.mode = "Legacy" THEN 4 ELSE 6
ModuleSpecSize(s) == 7 + SpecSize(s)
LinkSpecSize == 11
ExtSpecSize(s, class) == IF class \in {"module", "hg", "badHg"} THEN ModuleSpecSize(s)
                                                               ELSE LinkSpecSize

-----------------------------------------------------------------------------
(* Direct reads and writes of one range. A read asks for 8 bytes before it  *)
(* encodes; a double word is told to the PLC as two words.                  *)
DirectRead(s, r, limit, refused, service, told) ==
    Encoded(s,
        <<FeatureAllowed(s, "Direct"), HoldsAll(r), CountValid(r.points, limit),
          DeviceError(r.device, refused), Refuse(s.txCapacity < 8, "BufferTooSmall")>>,
        <<Chunk(SpecSize(s), SpecSize(s) + 2)>>, Tells(service, SpecSize(s), <<told>>))

DirectWrite(s, r, limit, refused, service, told, data) ==
    Encoded(s,
        <<FeatureAllowed(s, "Direct"), CountValid(r.points, limit),
          DeviceError(r.device, refused)>>,
        <<Exactly(SpecSize(s) + 2 + data)>>, Tells(service, SpecSize(s), <<told>>))

ReadWords(s, r) ==
    DirectRead(s, r, Limit["DirectWordRead"], WordReadRefused(r.points), "readWords", r.points)

WriteWords(s, r) ==
    DirectWrite(s, r, Limit["DirectWordWrite"], WordWriteRefused,
                "writeWords", r.points, 2 * r.points)

ReadBits(s, r) ==
    DirectRead(s, r, Limit["DirectBitRead"], BitReadRefused, "readBits", r.points)

WriteBits(s, r) ==
    DirectWrite(s, r, Limit["DirectBitWrite"], BitWriteRefused,
                "writeBits", r.points, packedBitBytes(r.points))

(* Mistake: the PLC is told the double words as words. *)
ReadDWordsUndoubled(s, r) ==
    DirectRead(s, r, Limit["DirectWordRead"] \div 2, DWordReadRefused, "readWords", r.points)

ReadDWords(s, r) ==
    DirectRead(s, r, Limit["DirectWordRead"] \div 2, DWordReadRefused,
               "readWords", 2 * r.points)

WriteDWords(s, r) ==
    DirectWrite(s, r, Limit["DirectWordWrite"] \div 2, WordWriteRefused,
                "writeWords", 2 * r.points, 4 * r.points)

ReadFloat32s(s, r) ==
    DirectRead(s, r, Limit["DirectWordRead"] \div 2, DWordReadRefused,
               "readWords", 2 * r.points)

WriteFloat32s(s, r) ==
    DirectWrite(s, r, Limit["DirectWordWrite"] \div 2, WordWriteRefused,
                "writeWords", 2 * r.points, 4 * r.points)

(* validateLongTimerReadRange: a long timer is four words. *)
TimerRange(r) == CountValid(4 * r.points, Limit["DirectWordRead"])

ReadLongTimer(s, r) ==
    Encoded(s,
        <<FeatureAllowed(s, "LongDevicePath"), TimerRange(r), HoldsAll(r),
          Refuse(s.txCapacity < 8, "BufferTooSmall")>>,
        <<Chunk(SpecSize(s), SpecSize(s) + 2)>>,
        Tells("readWords", SpecSize(s), <<4 * r.points>>))

ReadLongRetentiveTimer(s, r) == ReadLongTimer(s, r)

(* Mistake: LongTimerResult has grown. *)
TimerResultGrown == 16

(* readLtcStates and its siblings read into rx_buffer_ as an array of       *)
(* LongTimerResult, and then on to the caller's array.                      *)
TimerResultSize == 8

ReadTimerStates(s, r) ==
    LET scratch == [r EXCEPT !.capacity = s.rxCapacity \div TimerResultSize]
        refusal == FirstError(<<TimerRange(r), HoldsAll(r),
                                Refuse(scratch.capacity < r.points, "BufferTooSmall")>>)
        read == ReadLongTimer(s, scratch)
    IN IF refusal = "Ok" THEN read ELSE [read EXCEPT !.error = refusal, !.end = 0]

-----------------------------------------------------------------------------
(* Module buffers and link-direct devices: the specification must fit, the  *)
(* count of a read is written after it without asking.                      *)
ModuleFeature(r) == IF r.device \in {"hg", "badHg"} THEN "HgCpuBuffer" ELSE "ExtModuleAccess"
SlotValid(r) == Refuse(r.device = "badHg", "InvalidArgument")

ReadWordsModuleBuf(s, r) ==
    Encoded(s, <<FeatureAllowed(s, ModuleFeature(r)), HoldsAll(r),
                 CountValid(r.points, Limit["DirectWordRead"]), SlotValid(r)>>,
            <<Chunk(ModuleSpecSize(s), ModuleSpecSize(s) + 2)>>,
            Tells("readWords", ModuleSpecSize(s), <<r.points>>))

WriteWordsModuleBuf(s, r) ==
    Encoded(s, <<FeatureAllowed(s, ModuleFeature(r)),
                 CountValid(r.points, Limit["DirectWordWrite"]), SlotValid(r)>>,
            <<Exactly(ModuleSpecSize(s)), Exactly(2 + 2 * r.points)>>,
            Tells("writeWords", ModuleSpecSize(s), <<r.points>>))

ReadBitsModuleBuf(s, r) ==
    Encoded(s, <<FeatureAllowed(s, ModuleFeature(r)), HoldsAll(r),
                 CountValid(r.points, Limit["DirectBitRead"]), SlotValid(r)>>,
            <<Chunk(ModuleSpecSize(s), ModuleSpecSize(s) + 2)>>,
            Tells("readBits", ModuleSpecSize(s), <<r.points>>))

WriteBitsModuleBuf(s, r) ==
    Encoded(s, <<FeatureAllowed(s, ModuleFeature(r)),
                 CountValid(r.points, Limit["DirectBitWrite"]), SlotValid(r)>>,
            <<Exactly(ModuleSpecSize(s)), Exactly(2 + packedBitBytes(r.points))>>,
            Tells("writeBits", ModuleSpecSize(s), <<r.points>>))

LinkCodeValid(r) == Refuse(r.device \in {"notLink", "linkCounter"}, "UnsupportedDevice")

(* validateDirect*WriteDevice of the code behind the link. The codes that   *)
(* LinkCodeValid lets through (X, Y, B, SB, W, SW) are plain to it: S alone *)
(* is read-only, whatever the profile.                                      *)
LinkWriteAllowed(refused) == DeviceError("plain", refused)

ReadWordsLinkDirect(s, r) ==
    Encoded(s, <<FeatureAllowed(s, "ExtLinkDirect"), HoldsAll(r),
                 CountValid(r.points, Limit["DirectWordRead"]), LinkCodeValid(r)>>,
            <<Chunk(LinkSpecSize, LinkSpecSize + 2)>>,
            Tells("readWords", LinkSpecSize, <<r.points>>))

WriteWordsLinkDirect(s, r) ==
    Encoded(s, <<FeatureAllowed(s, "ExtLinkDirect"),
                 CountValid(r.points, Limit["DirectWordWrite"]), LinkCodeValid(r),
                 LinkWriteAllowed(WordWriteRefused)>>,
            <<Exactly(LinkSpecSize), Exactly(2 + 2 * r.points)>>,
            Tells("writeWords", LinkSpecSize, <<r.points>>))

ReadBitsLinkDirect(s, r) ==
    Encoded(s, <<FeatureAllowed(s, "ExtLinkDirect"), HoldsAll(r),
                 CountValid(r.points, Limit["DirectBitRead"]), LinkCodeValid(r)>>,
            <<Chunk(LinkSpecSize, LinkSpecSize + 2)>>,
            Tells("readBits", LinkSpecSize, <<r.points>>))

WriteBitsLinkDirect(s, r) ==
    Encoded(s, <<FeatureAllowed(s, "ExtLinkDirect"),
                 CountValid(r.points, Limit["DirectBitWrite"]), LinkCodeValid(r),
                 LinkWriteAllowed(BitWriteRefused)>>,
            <<Exactly(LinkSpecSize), Exactly(2 + packedBitBytes(r.points))>>,
            Tells("writeBits", LinkSpecSize, <<r.points>>))

-----------------------------------------------------------------------------
(* Memory and extend units. *)
ReadMemoryWords(s, r) ==
    Encoded(s, <<HoldsAll(r), CountValid(r.points, MemoryLimit)>>,
            <<Exactly(6)>>, Tells("readMemory", 4, <<r.points>>))

WriteMemoryWords(s, r) ==
    Encoded(s, <<CountValid(r.points, MemoryLimit)>>,
            <<Exactly(6 + 2 * r.points)>>, Tells("writeMemory", 4, <<r.points>>))

UnitBytesValid(n) == Refuse(n \notin 2 .. UnitByteLimit, "InvalidArgument")

ReadExtendUnitBytes(s, r) ==
    Encoded(s, <<HoldsAll(r), UnitBytesValid(r.points)>>,
            <<Exactly(8)>>, Tells("readUnit", 4, <<r.points>>))

(* readExtendUnitWords reads the bytes into the caller's array of words. *)
ReadExtendUnitWords(s, r) ==
    LET bytes == 2 * r.points
        read == ReadExtendUnitBytes(s, [r EXCEPT !.points = bytes, !.capacity = bytes])
        refusal == FirstError(<<HoldsAll(r), CountValid(r.points, PointLimit)>>)
    IN IF refusal = "Ok" THEN read ELSE [read EXCEPT !.error = refusal, !.end = 0]

WriteExtendUnitBytes(s, r) ==
    Encoded(s, <<UnitBytesValid(r.points)>>,
            <<Exactly(8 + r.points)>>, Tells("writeUnit", 4, <<r.points>>))

WriteExtendUnitWords(s, r) ==
    Encoded(s, <<CountValid(r.points, PointLimit)>>,
            <<Exactly(8 + 2 * r.points)>>, Tells("writeUnit", 4, <<2 * r.points>>))

-----------------------------------------------------------------------------
(* Labels. A name is [length, refs]: its characters, and the numbers of the *)
(* abbreviations it refers to, 0 standing for a malformed reference. A      *)
(* point adds [unit, elements, bytes]: element unit, elements and data.     *)
LabelNameValid(name) == name.length > 0

hasValidAbbreviationReferences(name, abbreviations) ==
    LabelNameValid(name) /\ name.refs \subseteq 1 .. abbreviations

(* isValidLabelList of the abbreviations; r.labels is never too long. *)
LabelListsValid(r) ==
    Refuse(r.labels = <<>> \/ \E i \in DOMAIN r.abbrevs : ~LabelNameValid(r.abbrevs[i]),
           "InvalidArgument")

(* validPoints[i]: the further checks of point i *)
LabelsValid(r, validPoints) ==
    Refuse(\E i \in DOMAIN r.labels :
               ~hasValidAbbreviationReferences(r.labels[i], Len(r.abbrevs))
                   \/ ~validPoints[i],
           "InvalidArgument")

LabelsHeld(r) == Refuse(r.capacity < Len(r.labels), "InvalidArgument")

ElementBytes(unit, elements) == IF unit = 0 THEN 2 * elements ELSE elements

(* Mistake: the room for the length of the name is not asked for. *)
NameChunkWithoutLength(name) == Chunk(2 * name.length, 2 + 2 * name.length)

(* appendLabelName, and the fields after the name *)
NameChunk(name) == Exactly(2 + 2 * name.length)

(* fields[i]: the bytes of point i behind its name *)
LabelChunks(r, fields) ==
    LET names == [i \in DOMAIN r.abbrevs |-> NameChunk(r.abbrevs[i])]
        point(i) == <<NameChunk(r.labels[i]), Exactly(fields[i])>>
        upTo[n \in 0 .. Len(r.labels)] ==
            IF n = 0 THEN <<Exactly(4)>> \o names ELSE upTo[n - 1] \o point(n)
    IN upTo[Len(r.labels)]

TellsLabels(service, r) ==
    [service |-> service, spec |-> 4, counts |-> <<Len(r.labels), Len(r.abbrevs)>>,
     labels |-> r.labels, abbrevs |-> r.abbrevs]

ReadArrayLabels(s, r) ==
    LET valid == [i \in DOMAIN r.labels |->
                     r.labels[i].unit <= 1 /\ r.labels[i].elements > 0]
        fields == [i \in DOMAIN r.labels |-> 4]
    IN Encoded(s, <<LabelListsValid(r), LabelsHeld(r), LabelsValid(r, valid)>>,
               LabelChunks(r, fields), TellsLabels("readLabels", r))

WriteArrayLabels(s, r) ==
    LET valid == [i \in DOMAIN r.labels |->
                     LET p == r.labels[i] IN
                     p.unit <= 1 /\ p.elements > 0 /\ p.bytes = ElementBytes(p.unit, p.elements)]
        fields == [i \in DOMAIN r.labels |-> 4 + r.labels[i].bytes]
    IN Encoded(s, <<LabelListsValid(r), LabelsValid(r, valid)>>,
               LabelChunks(r, fields), TellsLabels("writeLabels", r))

ReadRandomLabels(s, r) ==
    LET valid == [i \in DOMAIN r.labels |-> TRUE]
        fields == [i \in DOMAIN r.labels |-> 0]
    IN Encoded(s, <<LabelListsValid(r), LabelsHeld(r), LabelsValid(r, valid)>>,
               LabelChunks(r, fields), TellsLabels("readRandomLabels", r))

WriteRandomLabels(s, r) ==
    LET valid == [i \in DOMAIN r.labels |-> r.labels[i].bytes > 0]
        fields == [i \in DOMAIN r.labels |-> 2 + r.labels[i].bytes]
    IN Encoded(s, <<LabelListsValid(r), LabelsValid(r, valid)>>,
               LabelChunks(r, fields), TellsLabels("writeRandomLabels", r))

-----------------------------------------------------------------------------
(* Random and block reads, the device monitor. r.words and r.dwords are the *)
(* devices, and r.wordCapacity and r.dwordCapacity what the caller holds.   *)
RandomCountsValid(r, key) == CountValid(Len(r.words) + Len(r.dwords), Limit[key])

RandomHeld(r) ==
    Refuse(r.wordCapacity < Len(r.words) \/ r.dwordCapacity < Len(r.dwords),
           "InvalidArgument")

TellsRandom(service, r, spec) ==
    [service |-> service, spec |-> spec, counts |-> <<Len(r.words), Len(r.dwords)>>,
     devices |-> <<r.words, r.dwords>>]

RandomSize(s, r) == 2 + (Len(r.words) + Len(r.dwords)) * SpecSize(s)

ReadRandom(s, r) ==
    Encoded(s,
        <<FeatureAllowed(s, "Random"), RandomCountsValid(r, "RandomReadWord"), RandomHeld(r),
          ListError(r.words, {"buffer"}), ListError(r.dwords, {"buffer"}),
          SomeIn(r.words, {"timerState", "counterContact", "timerCurrent", "dwordOnly"}),
          SomeIn(r.dwords, {"timerState", "counterContact"})>>,
        <<Exactly(RandomSize(s, r))>>, TellsRandom("readRandom", r, SpecSize(s)))

TotalOf(blocks) ==
    LET upTo[n \in 0 .. Len(blocks)] ==
            IF n = 0 THEN 0 ELSE upTo[n - 1] + blocks[n].points
    IN upTo[Len(blocks)]

(* summarizeBlockReadList *)
BlockError(block) ==
    IF block.device = "otherProfile" \/ block.points = 0 THEN "InvalidArgument"
    ELSE Refuse(\/ block.device \in {"buffer", "counterContact", "dwordOnly"}
                \/ block.device = "timerCurrent" /\ block.points % 4 # 0,
                "UnsupportedDevice")

BlockListError(blocks) == FirstError([i \in DOMAIN blocks |-> BlockError(blocks[i])])

blockCountLimit(s) == IF s.mode = "iQR" THEN BlockLimit ELSE 2 * BlockLimit

HeaderSize(s) == IF s.frame = "4E" THEN 19 ELSE 15

ReadBlock(s, r) ==
    LET blocks == Len(r.wordBlocks) + Len(r.bitBlocks)
        size == 2 + blocks * (SpecSize(s) + 2)
    IN Encoded(s,
        <<Refuse(~s.blockAccess, "UnsupportedDevice"), FeatureAllowed(s, "Block"),
          Refuse(blocks = 0, "InvalidArgument"),
          BlockListError(r.wordBlocks), BlockListError(r.bitBlocks),
          Refuse(blocks > blockCountLimit(s), "InvalidArgument"),
          Refuse(TotalOf(r.wordBlocks) + TotalOf(r.bitBlocks) > PointLimit,
                 "InvalidArgument"),
          Refuse(r.wordCapacity < TotalOf(r.wordBlocks) \/ r.dwordCapacity < TotalOf(r.bitBlocks),
                 "InvalidArgument")>>,
        <<Chunk(HeaderSize(s) + size, size)>>,
        [service |-> "readBlock", spec |-> SpecSize(s),
         counts |-> <<Len(r.wordBlocks), Len(r.bitBlocks)>>,
         blocks |-> r.wordBlocks \o r.bitBlocks])

(* ensureExtProfileFeatureAllowed *)
ExtFeature(class) == CASE class \in {"hg", "badHg"} -> "HgCpuBuffer"
                       [] class = "module" -> "ExtModuleAccess"
                       [] OTHER -> "ExtLinkDirect"

ExtFeaturesAllowed(s, devices) ==
    FirstError([i \in DOMAIN devices |-> FeatureAllowed(s, ExtFeature(devices[i]))])

(* validateExtRandomReadDevices, validateExtMonitorDevices *)
ExtListError(devices, refused) ==
    FirstError([i \in DOMAIN devices |->
        IF devices[i] = "badHg" THEN "InvalidArgument"
        ELSE Refuse(devices[i] \in refused, "UnsupportedDevice")])

ExtChunks(s, devices) ==
    <<Exactly(2)>> \o [i \in DOMAIN devices |-> Exactly(ExtSpecSize(s, devices[i]))]

ReadRandomExt(s, r) ==
    LET refused == {"notLink", "linkCounter"} IN
    Encoded(s,
        <<FeatureAllowed(s, "Random"), RandomCountsValid(r, "RandomReadWordExt"),
          RandomHeld(r), ExtListError(r.words, refused), ExtListError(r.dwords, refused),
          ExtFeaturesAllowed(s, r.words), ExtFeaturesAllowed(s, r.dwords)>>,
        ExtChunks(s, r.words \o r.dwords), TellsRandom("readRandom", r, 0))

RegisterMonitorDevices(s, r) ==
    Encoded(s,
        <<FeatureAllowed(s, "Monitor"), RandomCountsValid(r, "MonitorRegisterWord"),
          ListError(r.words, {"buffer"}), ListError(r.dwords, {"buffer"}),
          SomeIn(r.words, {"counterContact"}), SomeIn(r.dwords, {"counterContact"})>>,
        <<Exactly(RandomSize(s, r))>>, TellsRandom("registerMonitor", r, SpecSize(s)))

RegisterMonitorDevicesExt(s, r) ==
    Encoded(s,
        <<FeatureAllowed(s, "Monitor"), RandomCountsValid(r, "MonitorRegisterWordExt"),
          ExtListError(r.words, {"linkCounter"}), ExtListError(r.dwords, {"linkCounter"}),
          ExtFeaturesAllowed(s, r.words), ExtFeaturesAllowed(s, r.dwords)>>,
        ExtChunks(s, r.words \o r.dwords), TellsRandom("registerMonitor", r, 0))

(* The cycle carries no device: r.points and r.dpoints are the counts the   *)
(* caller expects back, and its arrays are taken to be that long.           *)
RunMonitorCycle(s, r) ==
    Encoded(s, <<FeatureAllowed(s, "Monitor"),
                 CountValid(r.points + r.dpoints, Limit["MonitorRegisterWord"])>>,
            <<>>, Tells("runMonitor", 0, <<>>))

-----------------------------------------------------------------------------
(* The PLC itself: type name, operation state, self test, password. *)
(* The caller's TypeNameInfo is emptied once the feature is allowed. *)
ReadTypeName(s, r) ==
    LET e == Encoded(s, <<FeatureAllowed(s, "TypeName")>>, <<>>, Tells("typeName", 0, <<>>))
    IN [e EXCEPT !.empties = e.error = "Ok"]

(* readCpuOperationState reads one word, SD203. *)
StatusWord == [device |-> "plain", points |-> 1, capacity |-> 1]

ReadCpuOperationState(s, r) == ReadWords(s, StatusWord)

(* encodeRemoteRunPayload *)
RemoteRun(s, r) ==
    Encoded(s, <<Refuse(~r.valid, "InvalidArgument")>>,
            <<Exactly(4)>>, Tells("remoteRun", 4, <<>>))

RemoteMode(s) == Encoded(s, <<>>, <<Exactly(2)>>, Tells("remote", 2, <<>>))

RemoteStop(s, r) == RemoteMode(s)
RemoteLatchClear(s, r) == RemoteMode(s)
RemoteReset(s, r) == RemoteMode(s)
RemotePause(s, r) ==
    IF r.valid THEN RemoteMode(s) ELSE [RemoteMode(s) EXCEPT !.error = "InvalidArgument", !.end = 0]

ClearError(s, r) == Encoded(s, <<>>, <<>>, Tells("clearError", 0, <<>>))

(* The encoding of a self test, and then the check of the output. *)
EncodedSelfTest(s, r) ==
    Encoded(s, <<Refuse(~r.valid, "InvalidArgument"), CountValid(r.points, LoopbackLimit)>>,
            <<Exactly(2 + r.points)>>, Tells("selfTest", 2, <<r.points>>))

(* Mistake: the length is reset before the output is checked. *)
SelfTestEmptiedFirst(s, r) ==
    LET e == EncodedSelfTest(s, r) IN
    IF e.error = "Ok" THEN [e EXCEPT !.error = HoldsAll(r), !.empties = TRUE] ELSE e

(* *out_length is 0 from here on. *)
SelfTestLoopback(s, r) ==
    LET e == EncodedSelfTest(s, r) IN
    IF e.error = "Ok"
    THEN [e EXCEPT !.error = HoldsAll(r), !.empties = HoldsAll(r) = "Ok"]
    ELSE e

(* encodeRemotePasswordPayload; r.given is FALSE for a null password *)
RemotePassword(s, r) ==
    Encoded(s, <<Refuse(~r.given, "InvalidArgument"),
                 Refuse(s.txCapacity < 8, "BufferTooSmall"),
                 Refuse(~r.valid \/ r.points > 32, "InvalidArgument"),
                 Refuse(s.mode = "Legacy" /\ r.points # 4, "InvalidArgument"),
                 Refuse(s.mode = "iQR" /\ r.points < 6, "InvalidArgument")>>,
            <<Exactly(2 + r.points)>>, Tells("password", 2, <<r.points>>))

RemotePasswordUnlock(s, r) == RemotePassword(s, r)
RemotePasswordLock(s, r) == RemotePassword(s, r)
=============================================================================
