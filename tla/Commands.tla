------------------------------- MODULE Commands -------------------------------
(***************************************************************************)
(* The commands of slmp::SlmpClient from the call to its return: the begin *)
(* call checks and encodes (CommandRequests), startAsync sends it to the   *)
(* PLC under a command code, and completeAsync decodes the answer          *)
(* (ResponseDecoders).  One call at a time; what the engine does to a      *)
(* frame on its way is the subject of SlmpClient, here a call ends with an *)
(* answer or without one.                                                  *)
(***************************************************************************)
EXTENDS CommandRequests, ResponseDecoders

CONSTANTS
    Settings,     \* configurations of the client, see CommandRequests
    Requests,     \* calls with their arguments
    LabelItems    \* headers of labels in answers: [unit, length]

(* What an application can pass, by the parameters of the call: a null      *)
(* array is one of capacity 0.                                              *)
RangeCalls == {"readWords", "writeWords", "readDWords", "writeDWords", "readFloat32s",
               "writeFloat32s", "readBits", "writeBits"}
RoutedCalls == {"readWordsModuleBuf", "writeWordsModuleBuf", "readBitsModuleBuf",
                "writeBitsModuleBuf", "readWordsLinkDirect", "writeWordsLinkDirect",
                "readBitsLinkDirect", "writeBitsLinkDirect"}
TimerStateCalls == {"readLtcStates", "readLtsStates", "readLstcStates", "readLstsStates"}
TimerCalls == {"readLongTimer", "readLongRetentiveTimer"} \cup TimerStateCalls
CountedCalls == TimerCalls \cup
    {"readMemoryWords", "writeMemoryWords", "readExtendUnitBytes", "readExtendUnitWords",
     "writeExtendUnitBytes", "writeExtendUnitWords"}
LabelReads == {"readArrayLabels", "readRandomLabels"}
LabelCalls == LabelReads \cup {"writeArrayLabels", "writeRandomLabels"}
RegisterCalls == {"registerMonitorDevices", "registerMonitorDevicesExt"}
BareCalls == {"readTypeName", "readCpuOperationState", "remoteStop", "remoteLatchClear",
              "remoteReset", "clearError"}
PasswordCalls == {"remotePasswordUnlock", "remotePasswordLock"}

LabelName == [length : Nat, refs : SUBSET Nat]
LabelPoint == [length : Nat, refs : SUBSET Nat, unit : Nat, elements : Nat, bytes : Nat]
DeviceBlock == [device : DeviceClasses, points : Nat]

ASSUME RequestAssumption ==
    Requests \subseteq
        [call : RangeCalls, device : DeviceClasses, points : Nat, capacity : Nat]
        \cup [call : RoutedCalls, device : ExtClasses, points : Nat, capacity : Nat]
        \cup [call : CountedCalls, points : Nat, capacity : Nat]
        \cup [call : LabelCalls, labels : Seq(LabelPoint), abbrevs : Seq(LabelName), capacity : Nat]
        \cup [call : {"readRandom"}, words : Seq(DeviceClasses), dwords : Seq(DeviceClasses),
              wordCapacity : Nat, dwordCapacity : Nat]
        \cup [call : {"readRandomExt"}, words : Seq(ExtClasses), dwords : Seq(ExtClasses),
              wordCapacity : Nat, dwordCapacity : Nat]
        \cup [call : {"registerMonitorDevices"}, words : Seq(DeviceClasses),
              dwords : Seq(DeviceClasses)]
        \cup [call : {"registerMonitorDevicesExt"}, words : Seq(ExtClasses), dwords : Seq(ExtClasses)]
        \cup [call : {"readBlock"}, wordBlocks : Seq(DeviceBlock), bitBlocks : Seq(DeviceBlock),
              wordCapacity : Nat, dwordCapacity : Nat]
        \cup [call : {"runMonitorCycle"}, points : Nat, dpoints : Nat]
        \cup [call : BareCalls]
        \cup [call : {"remoteRun", "remotePause"}, valid : BOOLEAN]
        \cup [call : {"selfTestLoopback"}, points : Nat, capacity : Nat, valid : BOOLEAN]
        \cup [call : PasswordCalls, points : Nat, valid : BOOLEAN, given : BOOLEAN]

(* connect accepts no buffers smaller than a header and a prefix with an    *)
(* end code.                                                                *)
ASSUME SettingAssumption ==
    /\ Settings \subseteq [frame : {"3E", "4E"}, mode : {"Legacy", "iQR"}, txCapacity : Nat,
                           rxCapacity : Nat, connected : BOOLEAN, blocked : SUBSET STRING,
                           blockAccess : BOOLEAN]
    /\ \A s \in Settings : s.connected => s.txCapacity >= 19 /\ s.rxCapacity >= 15

ASSUME LabelAssumption == LabelItems \subseteq [unit : Nat, length : Nat]

VARIABLES
    settings,
    phase,         \* "idle", "sent", "returned"
    request,       \* the call being made
    built,         \* what its begin call came to: [error, end, tells, empties]
    body,          \* the body of its answer, with the mark of an honest PLC
    verdict,       \* the error it returned
    outcome,       \* what completeAsync did to the caller's arrays
    registration,  \* the PLC: the counts of the devices it monitors
    believed,      \* the counts the application registered last, as it knows
    doubt          \* whether a registration may have been lost on either side

vars == <<settings, phase, request, built, body, verdict, outcome,
          registration, believed, doubt>>

NoRequest == [call |-> "none"]
NothingBuilt ==
    [error |-> "Ok", end |-> 0, tells |-> Tells("none", 0, <<>>), empties |-> FALSE]
Body(length, count, items, echo) ==
    [honest |-> FALSE, endCode |-> FALSE, length |-> length, count |-> count,
     items |-> items, echo |-> echo]
NoBody == Body(0, 0, <<>>, TRUE)
NotWritten == Failed("Ok")
NotRegistered == <<0, 0>>

-----------------------------------------------------------------------------
(* The begin calls *)
BeginOf(s, r) ==
    CASE r.call = "readTypeName" -> ReadTypeName(s, r)
      [] r.call = "readCpuOperationState" -> ReadCpuOperationState(s, r)
      [] r.call = "readWords" -> ReadWords(s, r)
      [] r.call = "writeWords" -> WriteWords(s, r)
      [] r.call = "readBits" -> ReadBits(s, r)
      [] r.call = "writeBits" -> WriteBits(s, r)
      [] r.call = "readDWords" -> ReadDWords(s, r)
      [] r.call = "writeDWords" -> WriteDWords(s, r)
      [] r.call = "readFloat32s" -> ReadFloat32s(s, r)
      [] r.call = "writeFloat32s" -> WriteFloat32s(s, r)
      [] r.call = "readLongTimer" -> ReadLongTimer(s, r)
      [] r.call = "readLongRetentiveTimer" -> ReadLongRetentiveTimer(s, r)
      [] r.call \in TimerStateCalls -> ReadTimerStates(s, r)
      [] r.call = "readWordsModuleBuf" -> ReadWordsModuleBuf(s, r)
      [] r.call = "writeWordsModuleBuf" -> WriteWordsModuleBuf(s, r)
      [] r.call = "readBitsModuleBuf" -> ReadBitsModuleBuf(s, r)
      [] r.call = "writeBitsModuleBuf" -> WriteBitsModuleBuf(s, r)
      [] r.call = "readWordsLinkDirect" -> ReadWordsLinkDirect(s, r)
      [] r.call = "writeWordsLinkDirect" -> WriteWordsLinkDirect(s, r)
      [] r.call = "readBitsLinkDirect" -> ReadBitsLinkDirect(s, r)
      [] r.call = "writeBitsLinkDirect" -> WriteBitsLinkDirect(s, r)
      [] r.call = "readMemoryWords" -> ReadMemoryWords(s, r)
      [] r.call = "writeMemoryWords" -> WriteMemoryWords(s, r)
      [] r.call = "readExtendUnitBytes" -> ReadExtendUnitBytes(s, r)
      [] r.call = "readExtendUnitWords" -> ReadExtendUnitWords(s, r)
      [] r.call = "writeExtendUnitBytes" -> WriteExtendUnitBytes(s, r)
      [] r.call = "writeExtendUnitWords" -> WriteExtendUnitWords(s, r)
      [] r.call = "readArrayLabels" -> ReadArrayLabels(s, r)
      [] r.call = "writeArrayLabels" -> WriteArrayLabels(s, r)
      [] r.call = "readRandomLabels" -> ReadRandomLabels(s, r)
      [] r.call = "writeRandomLabels" -> WriteRandomLabels(s, r)
      [] r.call = "readRandom" -> ReadRandom(s, r)
      [] r.call = "readRandomExt" -> ReadRandomExt(s, r)
      [] r.call = "readBlock" -> ReadBlock(s, r)
      [] r.call = "registerMonitorDevices" -> RegisterMonitorDevices(s, r)
      [] r.call = "registerMonitorDevicesExt" -> RegisterMonitorDevicesExt(s, r)
      [] r.call = "runMonitorCycle" -> RunMonitorCycle(s, r)
      [] r.call = "remoteRun" -> RemoteRun(s, r)
      [] r.call = "remoteStop" -> RemoteStop(s, r)
      [] r.call = "remotePause" -> RemotePause(s, r)
      [] r.call = "remoteLatchClear" -> RemoteLatchClear(s, r)
      [] r.call = "remoteReset" -> RemoteReset(s, r)
      [] r.call = "selfTestLoopback" -> SelfTestLoopback(s, r)
      [] r.call = "clearError" -> ClearError(s, r)
      [] r.call = "remotePasswordUnlock" -> RemotePasswordUnlock(s, r)
      [] r.call = "remotePasswordLock" -> RemotePasswordLock(s, r)

(* startAsync: the connection, then room for the header before the payload. *)
startAsync(s, e) ==
    LET error == FirstError(<<e.error, Refuse(~s.connected, "NotConnected"),
                              Refuse(s.txCapacity < HeaderSize(s) + e.end, "BufferTooSmall")>>)
    IN [error |-> error, tells |-> e.tells, empties |-> e.empties,
        end |-> IF error = "Ok" THEN HeaderSize(s) + e.end ELSE e.end]

-----------------------------------------------------------------------------
(* The decoder of each call *)
DecodeOf(s, r, b) ==
    CASE r.call = "readTypeName" -> TypeName(b)
      [] r.call = "readCpuOperationState" -> Words(StatusWord.points, b)
      [] r.call \in {"readWords", "readWordsModuleBuf", "readWordsLinkDirect",
                     "readMemoryWords"} -> Words(r.points, b)
      [] r.call = "readDWords" -> DWords(r.points, b)
      [] r.call = "readFloat32s" -> Float32s(r.points, b)
      [] r.call = "readBits" -> Bits(r.points, b)
      [] r.call \in {"readBitsModuleBuf", "readBitsLinkDirect"} -> ModuleOrLinkBits(r.points, b)
      [] r.call \in TimerCalls -> LongTimer(r.points, b)
      [] r.call = "readExtendUnitBytes" -> UnitBytes(r.points, b)
      [] r.call = "readExtendUnitWords" -> UnitWords(r.points, b)
      [] r.call = "readArrayLabels" -> ArrayLabels(r.capacity, b)
      [] r.call = "readRandomLabels" -> RandomLabels(r.capacity, b)
      [] r.call = "readRandom" -> Random(Len(r.words), Len(r.dwords), b)
      [] r.call = "readRandomExt" -> RandomExtOrMonitor(Len(r.words), Len(r.dwords), b)
      [] r.call = "runMonitorCycle" -> RandomExtOrMonitor(r.points, r.dpoints, b)
      [] r.call = "readBlock" -> Block(TotalOf(r.wordBlocks), TotalOf(r.bitBlocks), b)
      [] r.call = "selfTestLoopback" -> SelfTest(r.points, r.capacity, b)
      [] OTHER -> Nothing(b)

PrefixSize(s) == IF s.frame = "4E" THEN 13 ELSE 9

(* Mistake: the end code is not looked at. *)
completeWhateverEndCode(b) ==
    IF settings.rxCapacity < PrefixSize(settings) + 2 + b.length THEN Failed("BufferTooSmall")
    ELSE DecodeOf(settings, request, b)

(* update refuses a body longer than rx_buffer_; completeAsync the end code *)
completeAsync(b) ==
    IF settings.rxCapacity < PrefixSize(settings) + 2 + b.length THEN Failed("BufferTooSmall")
    ELSE IF b.endCode THEN Failed("PlcError")
    ELSE DecodeOf(settings, request, b)

-----------------------------------------------------------------------------
(* The PLC *)

SumOf(sizes) ==
    LET upTo[n \in 0 .. Len(sizes)] == IF n = 0 THEN 0 ELSE upTo[n - 1] + sizes[n]
    IN upTo[Len(sizes)]

(* An answer with labels: their count, and a header and data for each *)
LabelBytes(sizes) == 2 + 4 * Len(sizes) + SumOf(sizes)

(* The bytes of the points a request tells it. *)
AnswerLength(t) ==
    CASE t.service \in {"readWords", "readMemory"} -> 2 * t.counts[1]
      [] t.service = "readBits" -> ByteCount(t.counts[1])
      [] t.service = "readUnit" -> t.counts[1]
      [] t.service = "readRandom" -> 2 * t.counts[1] + 4 * t.counts[2]
      [] t.service = "readBlock" -> 2 * TotalOf(t.blocks)
      [] t.service = "runMonitor" -> 2 * registration[1] + 4 * registration[2]
      [] t.service = "typeName" -> 18
      [] t.service = "selfTest" -> 2 + t.counts[1]
      [] OTHER -> 0

(* The bytes it takes from a request, of which the frame says how many      *)
(* there are only as counts.                                                *)
LabelFields(t, p) ==
    2 + 2 * p.length + CASE t.service = "readLabels" -> 4
                         [] t.service = "writeLabels" -> 4 + ElementBytes(p.unit, p.elements)
                         [] t.service = "writeRandomLabels" -> 2 + p.bytes
                         [] t.service = "readRandomLabels" -> 0

PayloadOf(s, t) ==
    CASE t.service \in {"readWords", "readBits"} -> t.spec + 2
      [] t.service = "writeWords" -> t.spec + 2 + 2 * t.counts[1]
      [] t.service = "writeBits" -> t.spec + 2 + ByteCount(t.counts[1])
      [] t.service = "readMemory" -> t.spec + 2
      [] t.service = "writeMemory" -> t.spec + 2 + 2 * t.counts[1]
      [] t.service = "readUnit" -> t.spec + 4
      [] t.service = "writeUnit" -> t.spec + 4 + t.counts[1]
      [] t.service \in {"readRandom", "registerMonitor"} ->
            LET devices == t.devices[1] \o t.devices[2]
                size(device) == IF t.spec = 0 THEN ExtSpecSize(s, device) ELSE t.spec
            IN 2 + SumOf([i \in 1 .. t.counts[1] + t.counts[2] |-> size(devices[i])])
      [] t.service = "readBlock" -> 2 + (t.counts[1] + t.counts[2]) * (t.spec + 2)
      [] t.service \in {"selfTest", "password"} -> 2 + t.counts[1]
      [] t.service \in {"readLabels", "writeLabels", "readRandomLabels", "writeRandomLabels"} ->
            4 + SumOf([i \in 1 .. t.counts[2] |-> 2 + 2 * t.abbrevs[i].length])
              + SumOf([i \in 1 .. t.counts[1] |-> LabelFields(t, t.labels[i])])
      [] OTHER -> t.spec

Understood == built.end - HeaderSize(settings) = PayloadOf(settings, built.tells)

Item(unit, length) == [unit |-> unit, length |-> length]

(* What it answers when it does what it is told: an end code to a request   *)
(* whose size does not fit its counts.                                      *)
HonestBodies(t) ==
    LET answers ==
        CASE t.service = "readLabels" ->
                LET items == [i \in DOMAIN t.labels |->
                                Item(t.labels[i].unit, t.labels[i].elements)]
                IN {Body(LabelBytes(ArrayData(items)), Len(items), items, TRUE)}
          [] t.service = "readRandomLabels" ->
                {Body(LabelBytes(RandomData(items)), Len(items), items, TRUE) :
                    items \in [DOMAIN t.labels -> LabelItems]}
          [] t.service = "selfTest" -> {Body(AnswerLength(t), t.counts[1], <<>>, TRUE)}
          [] t.service = "runMonitor" /\ registration = NotRegistered -> {}
          [] OTHER -> {Body(AnswerLength(t), 0, <<>>, TRUE)}
    IN {[b EXCEPT !.honest = TRUE, !.endCode = ~Understood] : b \in answers}

(* What else may arrive as the answer: a body of another length, with       *)
(* another count, with labels nobody asked for.                             *)
Around(n) == {k \in {0, 1, n - 1, n, n + 1, n + 2} : k >= 0}

LabelLists == UNION {[1 .. n -> LabelItems] : n \in 0 .. 2}

OddBodies(t) ==
    CASE t.service \in {"readLabels", "readRandomLabels"} ->
            UNION {{Body(length, count, items, TRUE) :
                       length \in Around(LabelBytes(ArrayData(items)) - 1), count \in 0 .. 3} :
                   items \in LabelLists}
      [] t.service = "selfTest" ->
            {Body(length, count, <<>>, echo) :
                length \in Around(2 + t.counts[1]), count \in Around(t.counts[1]),
                echo \in BOOLEAN}
      [] OTHER -> {Body(length, 0, <<>>, TRUE) : length \in Around(AnswerLength(t))}

EndCodeBody == [NoBody EXCEPT !.endCode = TRUE]

-----------------------------------------------------------------------------
Init ==
    /\ settings \in Settings
    /\ phase = "idle"
    /\ request = NoRequest
    /\ built = NothingBuilt
    /\ body = NoBody
    /\ verdict = "Ok"
    /\ outcome = NotWritten
    /\ registration = NotRegistered
    /\ believed = NotRegistered
    /\ doubt = FALSE

plcUnchanged == <<registration, believed, doubt>>

Begin(r) ==
    LET e == startAsync(settings, BeginOf(settings, r)) IN
    /\ phase = "idle"
    /\ request' = r
    /\ built' = e
    /\ verdict' = e.error
    /\ phase' = IF e.error = "Ok" THEN "sent" ELSE "returned"
    /\ UNCHANGED <<settings, body, outcome, plcUnchanged>>

(* A registration the PLC carries out replaces the one before. *)
Told == built.tells.counts

RegistrationDone == IF request.call \in RegisterCalls THEN Told ELSE registration

(* What the application makes of the end of a call that registers devices.  *)
Conclude(error) ==
    IF request.call \notin RegisterCalls \/ error = "PlcError"
    THEN UNCHANGED <<believed, doubt>>
    ELSE IF error = "Ok"
    THEN /\ believed' = <<Len(request.words), Len(request.dwords)>>
         /\ doubt' = FALSE
    ELSE UNCHANGED believed /\ doubt' = TRUE

(* The answer is complete. *)
Complete(b) ==
    LET done == completeAsync(b) IN
    /\ phase = "sent" /\ request.call # "remoteReset"
    /\ phase' = "returned"
    /\ body' = b
    /\ outcome' = done
    /\ verdict' = done.error
    /\ Conclude(done.error)
    /\ UNCHANGED <<settings, request, built>>

PlcAnswers(b) == Complete(b) /\ registration' = RegistrationDone

PlcRefuses == Complete(EndCodeBody) /\ UNCHANGED registration

(* A remote RESET is not answered. *)
ResetSent ==
    /\ phase = "sent" /\ request.call = "remoteReset"
    /\ phase' = "returned"
    /\ verdict' = "Ok"
    /\ UNCHANGED <<settings, request, built, body, outcome, plcUnchanged>>

(* The request or its answer is lost, or the connection. *)
NoAnswer ==
    /\ phase = "sent"
    /\ phase' = "returned"
    /\ verdict' = "TransportError"
    /\ registration' \in {registration, RegistrationDone}
    /\ Conclude("TransportError")
    /\ UNCHANGED <<settings, request, built, body, outcome>>

(* The PLC restarts, or somebody else registers devices. *)
PlcForgets ==
    /\ phase = "idle"
    /\ registration' = NotRegistered
    /\ doubt' = TRUE
    /\ UNCHANGED <<settings, phase, request, built, body, verdict, outcome, believed>>

Return ==
    /\ phase = "returned"
    /\ phase' = "idle"
    /\ request' = NoRequest
    /\ built' = NothingBuilt
    /\ body' = NoBody
    /\ verdict' = "Ok"
    /\ outcome' = NotWritten
    /\ UNCHANGED <<settings, plcUnchanged>>

(* Bound: a call that has nothing to do with the device monitor is made     *)
(* while nothing is registered yet.                                         *)
WorthMaking(r) ==
    \/ r.call \in RegisterCalls \cup {"runMonitorCycle"}
    \/ registration = NotRegistered /\ ~doubt

Next ==
    \/ phase = "idle" /\ \E r \in Requests : WorthMaking(r) /\ Begin(r)
    \/ phase = "sent" /\ \E b \in HonestBodies(built.tells) \cup OddBodies(built.tells) :
                            PlcAnswers(b)
    \/ PlcRefuses
    \/ ResetSent
    \/ NoAnswer
    \/ PlcForgets
    \/ Return

Spec == Init /\ [][Next]_vars

-----------------------------------------------------------------------------
(* Properties *)

(* The elements of the caller's arrays, and of the arrays calls use between *)
Room(s, r) ==
    CASE r.call = "readTypeName" -> <<16, 1>>
      [] r.call = "readCpuOperationState" -> <<StatusWord.capacity, 0>>
      [] r.call \in {"readRandom", "readRandomExt", "readBlock"} ->
            <<r.wordCapacity, r.dwordCapacity>>
      [] r.call = "runMonitorCycle" -> <<r.points, r.dpoints>>
      [] r.call \in TimerStateCalls -> <<s.rxCapacity \div TimerResultSize, 0>>
      [] r.call \in {"readWords", "readDWords", "readFloat32s", "readBits", "readLongTimer",
                     "readLongRetentiveTimer", "readWordsModuleBuf", "readBitsModuleBuf",
                     "readWordsLinkDirect", "readBitsLinkDirect", "readMemoryWords",
                     "readExtendUnitBytes", "readExtendUnitWords", "selfTestLoopback"}
                    \cup LabelReads -> <<r.capacity, 0>>
      [] OTHER -> <<0, 0>>

(* Whatever a PLC answers, completeAsync stays inside the arrays the caller  *)
(* gave the begin call, whose capacity only the begin call has seen.        *)
OutputsBounded ==
    request # NoRequest =>
        /\ Len(outcome.first) <= Room(settings, request)[1]
        /\ Len(outcome.second) <= Room(settings, request)[2]

Ends(cell) == cell.at + cell.size

(* Whatever a PLC answers, no value is taken from beyond either end of the   *)
(* body, and no label result keeps a pointer to data beyond it.             *)
CellsWithinBody ==
    \A cells \in {outcome.first, outcome.second} :
        \A k \in DOMAIN cells :
            cells[k].at >= 0 /\ cells[k].size >= 0 /\ Ends(cells[k]) <= body.length * Byte

(* The widths of the values a call asks for, in the order of its results    *)
Widths(r) ==
    LET all(n, width) == [k \in 1 .. n |-> width] IN
    CASE r.call \in {"readDWords", "readFloat32s"} -> all(r.points, 4 * Byte)
      [] r.call \in {"readBits", "readBitsModuleBuf", "readBitsLinkDirect"} ->
            all(r.points, HalfByte)
      [] r.call \in {"readExtendUnitBytes", "selfTestLoopback"} -> all(r.points, Byte)
      [] r.call \in {"readRandom", "readRandomExt"} ->
            all(Len(r.words), 2 * Byte) \o all(Len(r.dwords), 4 * Byte)
      [] r.call = "runMonitorCycle" -> all(r.points, 2 * Byte) \o all(r.dpoints, 4 * Byte)
      [] r.call = "readBlock" -> all(TotalOf(r.wordBlocks) + TotalOf(r.bitBlocks), 2 * Byte)
      [] r.call \in TimerCalls -> all(r.points, 6 * Byte)
      [] r.call = "readCpuOperationState" -> all(StatusWord.points, 2 * Byte)
      [] r.call \in {"readWords", "readWordsModuleBuf", "readWordsLinkDirect",
                     "readMemoryWords", "readExtendUnitWords"} -> all(r.points, 2 * Byte)
      [] OTHER -> <<>>

(* Half bytes of the body that are skipped between two values               *)
Gap(r) == IF r.call \in TimerCalls THEN 2 * Byte
          ELSE IF r.call \in LabelReads THEN 4 * Byte ELSE 0

(* A call that ends Ok has stored as many values as it asked for, each of    *)
(* its width, taken one after the other from the body: no value twice, none *)
(* left out, the double words behind the words.                             *)
AnswersTile ==
    (phase = "returned" /\ verdict = "Ok" /\ request.call # "readTypeName") =>
        LET cells == outcome.first \o outcome.second IN
        /\ request.call \notin LabelReads =>
              [k \in DOMAIN cells |-> cells[k].size] = Widths(request)
        /\ \A k \in 1 .. Len(cells) - 1 : cells[k + 1].at = Ends(cells[k]) + Gap(request)

(* What a call that fails has done to the memory of its caller: it has       *)
(* stored no value and reported no count, but for a label read, which may   *)
(* leave the labels decoded before the failure, without a count; and it has *)
(* reset no result, but for readTypeName and selfTestLoopback, and these    *)
(* only if what failed is the connection, a buffer or the PLC: a caller     *)
(* whose arguments are refused, or whose profile blocks the call, finds     *)
(* everything as it was.                                                    *)
ErrorLeavesOutputs ==
    (phase = "returned" /\ verdict # "Ok") =>
        /\ outcome.second = <<>> /\ outcome.count = NotReported
        /\ request.call \notin LabelReads => outcome.first = <<>>
        /\ built.empties =>
              /\ request.call \in {"readTypeName", "selfTestLoopback"}
              /\ verdict \notin {"InvalidArgument", "UnsupportedDevice", "ProfileFeatureBlocked"}

(* A request that was sent and is answered as a PLC answers it, by the       *)
(* counts in the frame, ends Ok: what a begin call tells the PLC and what   *)
(* its decoder expects agree. Only a body longer than rx_buffer_ and a      *)
(* cycle with other counts than the registered ones end otherwise.          *)
HonestAnswerAccepted ==
    (body.honest /\ verdict # "Ok") =>
        \/ settings.rxCapacity < PrefixSize(settings) + 2 + body.length
        \/ request.call = "runMonitorCycle" /\ <<request.points, request.dpoints>> # registration

(* Once connect has accepted the buffers, no begin call writes beyond        *)
(* tx_buffer_, whether it sends the request or refuses it half encoded.     *)
EncodingFits == settings.connected => built.end <= settings.txCapacity

(* The counts the application has registered are the counts the PLC          *)
(* monitors, through any sequence of registrations, refusals and cycles,    *)
(* unless a registration ended without the application knowing how.         *)
RegistrationBelieved == ~doubt => registration = believed

(* readLtcStates and its siblings decode into rx_buffer_ itself: result k    *)
(* is stored over bytes that no later result is still to be read from.      *)
ScratchTrailsSource ==
    request.call \in TimerStateCalls =>
        \A k \in DOMAIN outcome.first, later \in DOMAIN outcome.first :
            k < later =>
                k * TimerResultSize * Byte
                    <= (PrefixSize(settings) + 2) * Byte + outcome.first[later].at
=============================================================================
