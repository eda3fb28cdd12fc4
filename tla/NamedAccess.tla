------------------------------ MODULE NamedAccess ------------------------------
(***************************************************************************)
(* The high-level facade of slmp_high_level.cpp: readTyped, writeTyped,    *)
(* writeBitInWord, readNamed, writeNamed, compileReadPlan and Poller.      *)
(* Each call turns address texts into requests of the client, one or (for  *)
(* a bit inside a word) two, and the answers back into values.  What       *)
(* becomes of a request on the way is the subject of SlmpClient; here it   *)
(* is served by the PLC at one instant, or fails before or after that.     *)
(***************************************************************************)
EXTENDS DeviceNames, FiniteSets

CONSTANTS
    Texts,         \* the address texts of calls with one name
    ListTexts,     \* those of calls with several
    MaxNames,      \* the longest list of names in a call
    MaxPolled,     \* and in a plan of the poller
    RandomLimit,   \* the devices one random request may name
    ReadOnlyCodes, \* the devices the profile forbids to write
    LastNumber,    \* the last device the PLC has of every code
    InitialMem,    \* the PLC's memory when a call begins
    Volatile,      \* the cells the PLC changes by itself
    Formers,       \* what the caller's Value or Snapshot holds before a read
    MaxChanges     \* how often it does during one call

Cells == {Cell(c, n, b) : c \in Codes, n \in 0 .. LastNumber, b \in 0 .. 2 * WordBits - 1}

ASSUME AccessAssumption ==
    /\ Texts \subseteq Text /\ ListTexts \subseteq Text
    /\ \A t \in Texts \cup ListTexts : t.type = "dot" \/ t.bit = -1
    /\ MaxNames \in Nat /\ MaxPolled \in Nat /\ RandomLimit \in Nat
    /\ MaxChanges \in Nat /\ LastNumber \in Nat
    /\ InitialMem \subseteq Cells /\ Volatile \subseteq Cells

VARIABLES
    mem,       \* the PLC: the cells that are 1
    profile,   \* the client's plc_profile_, "none" when unspecified
    plan,      \* Poller::plan_
    compiled,  \* the names of the latest Poller::compile that was given a profile,
               \* and whether it succeeded
    call,      \* the operation in progress or just ended, with its arguments
    phase,     \* "idle", "called", "sent", "served"
    request,   \* the request sent to the PLC
    reply,     \* what the PLC answered to it
    result,    \* what the last call returned
    out,       \* the caller's Value or Snapshot
    held,      \* what it held when the call began
    changes,   \* the changes the PLC made during the call
    disturbed  \* one of them to the word of writeBitInWord, after it was read

vars == <<mem, profile, plan, compiled, call, phase, request, reply, result, out,
          held, changes, disturbed>>

Lists(longest) == UNION {[1 .. n -> ListTexts] : n \in 0 .. longest}

EmptyPlan == [profile |-> "none", entries |-> <<>>, words |-> <<>>, dwords |-> <<>>]
NoCall == [op |-> "none", texts |-> <<>>, values |-> <<>>, plan |-> EmptyPlan]
NoUnits == [words |-> <<>>, dwords |-> <<>>, bits |-> <<>>]
NoRequest == [form |-> "none", devices |-> NoUnits, values |-> NoUnits]
Reading == {"readTyped", "readNamed", "readOnce", "readPlan"}
SnapshotReads == {"readNamed", "readOnce", "readPlan"}

(* clientPlcProfile, isSpecifiedPlcProfile *)
Specified(p) == p # "none"

-----------------------------------------------------------------------------
(* compileReadPlanImpl, one address after the other. *)

(* plainBitWordRead: the word unit that covers a bit device. *)
isPlainBitWordBatchable(code) == code \in {"X", "M"}

Aligned(number) == number - (number % WordBits)

(* Mistake: the bit is taken from the word unit that begins with it. *)
BitEntryUnaligned(text, spec) ==
    [text |-> text, kind |-> "BitInWord",
     device |-> [code |-> spec.code, number |-> spec.number],
     bit |-> spec.number % WordBits]

BitEntry(text, spec) ==
    [text |-> text, kind |-> "BitInWord",
     device |-> [code |-> spec.code, number |-> Aligned(spec.number)],
     bit |-> spec.number % WordBits]

EntryFor(text, spec) ==
    LET as(kind) == [text |-> text, kind |-> kind,
                     device |-> [code |-> spec.code, number |-> spec.number],
                     bit |-> spec.bit]
    IN IF spec.bit >= 0 THEN as(IF batchable_word(spec.code) THEN "BitInWord" ELSE "None")
       ELSE IF HasLongReadAccess(spec.code) THEN as("LongTimer")
       ELSE IF spec.type = "BIT" /\ isPlainBitWordBatchable(spec.code) THEN BitEntry(text, spec)
       ELSE IF ~batchable_word(spec.code) THEN as("None")
       ELSE as(IF valueTypeUsesDword(spec.type) THEN "Dword" ELSE "Word")

(* containsDevice *)
containsDevice(devices, dev) == \E i \in DOMAIN devices : devices[i] = dev
AddOnce(devices, dev) ==
    IF containsDevice(devices, dev) THEN devices ELSE Append(devices, dev)

AddEntry(p, e) ==
    [p EXCEPT !.entries = Append(@, e),
              !.words = IF e.kind \in {"Word", "BitInWord"} THEN AddOnce(@, e.device) ELSE @,
              !.dwords = IF e.kind = "Dword" THEN AddOnce(@, e.device) ELSE @]

(* Mistake: an address that does not parse is left out. *)
compileSkipping(texts, p) ==
    LET upTo[n \in 0 .. Len(texts)] ==
            IF n = 0 THEN [plan |-> [EmptyPlan EXCEPT !.profile = p], err |-> "Ok"]
            ELSE IF parseAddressSpec(texts[n], p) # "Ok" THEN upTo[n - 1]
            ELSE [upTo[n - 1] EXCEPT
                    !.plan = AddEntry(@, EntryFor(texts[n], SpecOf(texts[n], p)))]
    IN upTo[Len(texts)]

(* The loop returns at the first address that does not parse and leaves the *)
(* entries before it in the plan.                                           *)
compileReadPlan(texts, p) ==
    LET upTo[n \in 0 .. Len(texts)] ==
            IF n = 0 THEN [plan |-> [EmptyPlan EXCEPT !.profile = p], err |-> "Ok"]
            ELSE IF upTo[n - 1].err # "Ok" THEN upTo[n - 1]
            ELSE IF parseAddressSpec(texts[n], p) # "Ok"
            THEN [upTo[n - 1] EXCEPT !.err = parseAddressSpec(texts[n], p)]
            ELSE [upTo[n - 1] EXCEPT
                    !.plan = AddEntry(@, EntryFor(texts[n], SpecOf(texts[n], p)))]
    IN upTo[Len(texts)]

-----------------------------------------------------------------------------
(* The requests of the client.  A request names devices to be accessed as   *)
(* words, double words and bits; a write carries a value for each.          *)
Random(words, dwords) ==
    [form |-> "randomRead", values |-> NoUnits,
     devices |-> [words |-> words, dwords |-> dwords, bits |-> <<>>]]
Direct(unit, dev) ==
    [form |-> "directRead", values |-> NoUnits, devices |-> [NoUnits EXCEPT ![unit] = <<dev>>]]

(* readLongTimer: one block with current value, contact and coil. *)
LongTimer(number) ==
    [form |-> "longTimer", values |-> NoUnits,
     devices |-> [words |-> <<>>, dwords |-> <<[code |-> "LTN", number |-> number]>>,
                  bits |-> <<[code |-> "LTS", number |-> number],
                             [code |-> "LTC", number |-> number]>>]]

(* readAddressSpecValue: the request that reads one value. *)
AddressRequest(spec) ==
    LET dev == [code |-> spec.code, number |-> spec.number] IN
    IF spec.bit >= 0 THEN Direct("words", dev)
    ELSE IF spec.code \in LongTimerCodes THEN LongTimer(spec.number)
    ELSE IF spec.type = "BIT" THEN Direct("bits", dev)
    ELSE IF ~valueTypeUsesDword(spec.type) THEN Direct("words", dev)
    ELSE IF spec.code \in {"LCN", "LZ"} THEN Random(<<>>, <<dev>>)
    ELSE Direct("dwords", dev)

(* ... and the value its answer holds: decodeWordValue, decodeDwordValue,   *)
(* decodeLongReadValue.                                                     *)
AddressValue(spec, r) ==
    IF spec.bit >= 0 THEN <<r.words[1][spec.bit + 1]>>
    ELSE IF spec.code = "LTC" THEN r.bits[2]
    ELSE IF spec.type = "BIT" THEN r.bits[1]
    ELSE IF valueTypeUsesDword(spec.type) THEN r.dwords[1] ELSE r.words[1]

(* resolveWriteRoute, encodeWordValue, encodeDwordValue *)
WriteRequest(form, unit, devs, vals) ==
    [form |-> form, devices |-> [NoUnits EXCEPT ![unit] = devs],
     values |-> [NoUnits EXCEPT ![unit] = vals]]

TypedWrite(spec, value) ==
    LET dev == [code |-> spec.code, number |-> spec.number] IN
    CASE spec.type = "BIT" ->
            WriteRequest(IF HasLongReadAccess(spec.code) THEN "randomWrite" ELSE "directWrite",
                         "bits", <<dev>>, <<value.bits>>)
      [] valueTypeUsesDword(spec.type) ->
            WriteRequest(IF IsLong(spec.code) THEN "randomWrite" ELSE "directWrite",
                         "dwords", <<dev>>, <<value.bits>>)
      [] OTHER -> WriteRequest("directWrite", "words", <<dev>>, <<value.bits>>)

(* The updates of some types, in the caller's order. *)
OfTypes(specs, S) ==
    LET upTo[n \in 0 .. Len(specs)] ==
            IF n = 0 THEN <<>>
            ELSE IF specs[n].type \in S THEN Append(upTo[n - 1], n)
            ELSE upTo[n - 1]
    IN upTo[Len(specs)]

(* writeNamed: the updates of each unit. *)
NamedWrite(specs, values) ==
    LET devs(S) == LET chosen == OfTypes(specs, S)
                   IN [i \in DOMAIN chosen |-> [code |-> specs[chosen[i]].code,
                                                number |-> specs[chosen[i]].number]]
        vals(S) == LET chosen == OfTypes(specs, S) IN [i \in DOMAIN chosen |-> values[chosen[i]].bits]
        W == {"U", "S"}  D == {"D", "L", "F"}  B == {"BIT"}
    IN [form |-> "randomWrite",
        devices |-> [words |-> devs(W), dwords |-> devs(D), bits |-> devs(B)],
        values |-> [words |-> vals(W), dwords |-> vals(D), bits |-> vals(B)]]

(* What the client refuses of these requests (slmp_minimal.cpp, the         *)
(* validate functions of the command concerned).                            *)
CodesOf(devs) == {devs[i].code : i \in DOMAIN devs}
Counted(r) == Len(r.devices.words) + Len(r.devices.dwords) + Len(r.devices.bits)

(* addressRangesOverlap: a double word counts two numbers, even of a long   *)
(* device.                                                                  *)
Overlapping(d) ==
    LET near(a, n, b, m) == /\ a.code = b.code
                            /\ a.number <= b.number + m - 1 /\ b.number <= a.number + n - 1
        pairs(s, n) == \E i, j \in DOMAIN s : i < j /\ near(s[i], n, s[j], n)
    IN \/ pairs(d.words, 1) \/ pairs(d.dwords, 2) \/ pairs(d.bits, 1)
       \/ \E i \in DOMAIN d.words, j \in DOMAIN d.dwords : near(d.words[i], 1, d.dwords[j], 2)

DeviceRefused(form, d) ==
    CASE form = "randomRead" ->
            \/ CodesOf(d.words) \cap {"G", "LTN", "LCN", "LZ", "LTS", "LTC", "LCS"} # {}
            \/ CodesOf(d.dwords) \cap {"G", "LTS", "LTC", "LCS"} # {}
      [] form = "randomWrite" ->
            \/ CodesOf(d.words) \cap ({"G", "LTN", "LCN", "LZ"} \cup ReadOnlyCodes) # {}
            \/ (CodesOf(d.dwords) \cup CodesOf(d.bits)) \cap ({"G"} \cup ReadOnlyCodes) # {}
      [] form = "directRead" ->
            \/ (CodesOf(d.words) \cup CodesOf(d.dwords)) \cap {"G", "LTN", "LCN", "LZ"} # {}
            \/ CodesOf(d.bits) \cap {"LTS", "LTC"} # {}
      [] form = "directWrite" ->
            \/ (CodesOf(d.words) \cup CodesOf(d.dwords))
                   \cap ({"G", "LTN", "LCN", "LZ"} \cup ReadOnlyCodes) # {}
            \/ CodesOf(d.bits) \cap ({"LTS", "LTC", "LCS"} \cup ReadOnlyCodes) # {}
      [] OTHER -> FALSE

ClientVerdict(r) ==
    IF r.form \in {"randomRead", "randomWrite"} /\ Counted(r) \notin 1 .. RandomLimit
    THEN "InvalidArgument"
    ELSE IF DeviceRefused(r.form, r.devices) THEN "UnsupportedDevice"
    ELSE IF r.form = "randomWrite" /\ Overlapping(r.devices) THEN "InvalidArgument"
    ELSE "Ok"

-----------------------------------------------------------------------------
Init ==
    /\ mem = InitialMem /\ profile \in Profiles \cup {"none"}
    /\ plan = EmptyPlan /\ compiled = [texts |-> <<>>, ok |-> FALSE]
    /\ call = NoCall /\ phase = "idle" /\ request = NoRequest /\ reply = NoUnits
    /\ result = "Ok" /\ out = <<>> /\ held = <<>>
    /\ changes = 0 /\ disturbed = FALSE

(* The calls of the application, before their first statement. *)
Call(op, texts, values, p) ==
    /\ phase = "idle" /\ call = NoCall /\ mem = InitialMem
    /\ call' = [op |-> op, texts |-> texts, values |-> values, plan |-> p]
    /\ phase' = "called" /\ result' = "Ok"
    /\ held' \in (IF op \in Reading THEN Formers ELSE {<<>>}) /\ out' = held'
    /\ changes' = 0 /\ disturbed' = FALSE
    /\ UNCHANGED <<mem, profile, plan, compiled, request, reply>>

(* A call ends. *)
Return(err) ==
    /\ phase' = "idle" /\ result' = err
    /\ request' = NoRequest /\ reply' = NoUnits

(* The client is given a request: it refuses it, or sends it. *)
Send(r) ==
    IF ClientVerdict(r) # "Ok"
    THEN Return(ClientVerdict(r))
    ELSE /\ phase' = "sent" /\ request' = r
         /\ UNCHANGED <<reply, result>>

Untouched == UNCHANGED <<mem, profile, plan, compiled, changes, disturbed>>

(* readTypedImpl *)
ReadTyped ==
    LET text == call.texts[1] IN
    /\ phase = "called" /\ call.op = "readTyped"
    /\ CASE ~Specified(profile) -> Return("InvalidArgument")
         [] Specified(profile) /\ parseAddressSpec(text, profile) # "Ok" ->
                Return(parseAddressSpec(text, profile))
         [] OTHER -> Send(AddressRequest(SpecOf(text, profile)))
    /\ UNCHANGED <<call, out, held>> /\ Untouched

(* writeTypedImpl; for a bit inside a word it goes on to                    *)
(* writeBitInWordImpl, which first reads the word.                          *)
WriteTyped ==
    LET text == call.texts[1]
        spec == SpecOf(text, profile)
    IN
    /\ phase = "called" /\ call.op = "writeTyped"
    /\ CASE ~Specified(profile) -> Return("InvalidArgument")
         [] Specified(profile) /\ parseAddressSpec(text, profile) # "Ok" ->
                Return(parseAddressSpec(text, profile))
         [] Specified(profile) /\ parseAddressSpec(text, profile) = "Ok" ->
                IF spec.type # call.values[1].type THEN Return("InvalidArgument")
                ELSE Send(IF spec.bit >= 0
                          THEN Direct("words", [code |-> spec.code, number |-> spec.number])
                          ELSE TypedWrite(spec, call.values[1]))
    /\ UNCHANGED <<call, out, held>> /\ Untouched

(* writeNamed *)
NamedWriteVerdict ==
    LET n == Len(call.texts)
        type(i) == SpecOf(call.texts[i], profile).type
        wrong(i) == \/ parseAddressSpec(call.texts[i], profile) # "Ok"
                    \/ call.texts[i].type = "dot"
                    \/ type(i) # call.values[i].type
        first == CHOOSE i \in 1 .. n : wrong(i) /\ \A j \in 1 .. i - 1 : ~wrong(j)
        bit(i) == type(i) = "BIT"
    IN IF ~Specified(profile) \/ n = 0 THEN "InvalidArgument"
       ELSE IF \E i \in 1 .. n : wrong(i)
       THEN IF parseAddressSpec(call.texts[first], profile) # "Ok"
            THEN parseAddressSpec(call.texts[first], profile) ELSE "InvalidArgument"
       ELSE IF \E i, j \in 1 .. n : bit(i) /\ ~bit(j) THEN "InvalidArgument"
       ELSE "Ok"

WriteNamed ==
    /\ phase = "called" /\ call.op = "writeNamed"
    /\ IF NamedWriteVerdict # "Ok" THEN Return(NamedWriteVerdict)
       ELSE Send(NamedWrite([i \in DOMAIN call.texts |-> SpecOf(call.texts[i], profile)],
                            call.values))
    /\ UNCHANGED <<call, out, held>> /\ Untouched

(* Mistake: the devices of the entries are not looked for in the batch. *)
PlanValidUnchecked(p) ==
    /\ Specified(profile) /\ p.profile = profile
    /\ p.entries # <<>>
    /\ \A i \in DOMAIN p.entries : p.entries[i].kind \notin {"None", "LongTimer"}

(* The checks readNamed makes of a plan; one it refuses leaves the caller's *)
(* snapshot as it was.                                                      *)
PlanValid(p) ==
    /\ Specified(profile) /\ p.profile = profile
    /\ p.entries # <<>>
    /\ \A i \in DOMAIN p.entries :
        LET e == p.entries[i] IN
        /\ e.kind \notin {"None", "LongTimer"}
        /\ containsDevice(IF e.kind = "Dword" THEN p.dwords ELSE p.words, e.device)

(* readNamed with a plan, up to the random read of readRandomMaps. *)
ReadPlanned(p) ==
    IF ~PlanValid(p)
    THEN Return("InvalidArgument") /\ UNCHANGED out
    ELSE /\ out' = <<>>
         /\ Send(Random(p.words, p.dwords))

ReadPlan ==
    /\ phase = "called" /\ call.op \in {"readOnce", "readPlan"}
    /\ ReadPlanned(call.plan)
    /\ UNCHANGED <<call, held>> /\ Untouched

(* readNamed with addresses: the plan is compiled first. *)
ReadNamed ==
    LET c == compileReadPlan(call.texts, profile) IN
    /\ phase = "called" /\ call.op = "readNamed"
    /\ CASE ~Specified(profile) ->
                Return("InvalidArgument") /\ UNCHANGED <<call, out>>
         [] Specified(profile) /\ c.err # "Ok" ->
                Return(c.err) /\ UNCHANGED <<call, out>>
         [] OTHER -> call' = [call EXCEPT !.plan = c.plan] /\ ReadPlanned(c.plan)
    /\ UNCHANGED held /\ Untouched

-----------------------------------------------------------------------------
(* External: the PLC. *)
Covered(d) ==
    [words |-> [i \in DOMAIN d.words |-> WordCells(d.words[i])],
     dwords |-> [i \in DOMAIN d.dwords |-> DwordCells(d.dwords[i])],
     bits |-> [i \in DOMAIN d.bits |-> BitCells(d.bits[i])]]

SampleAll(cells) == [i \in DOMAIN cells |-> Sample(mem, cells[i])]

IsWrite(r) == r.form \in {"directWrite", "randomWrite"}
InRange(cells) == \A i \in DOMAIN cells : \A j \in DOMAIN cells[i] : cells[i][j] \in Cells

(* The PLC carries out a request at one instant. *)
Serve ==
    LET c == Covered(request.devices) IN
    /\ phase = "sent"
    /\ InRange(c.words) /\ InRange(c.dwords) /\ InRange(c.bits)
    /\ IF IsWrite(request)
       THEN /\ mem' = Store(mem, c.words \o c.dwords \o c.bits,
                            request.values.words \o request.values.dwords \o request.values.bits)
            /\ UNCHANGED reply
       ELSE /\ reply' = [words |-> SampleAll(c.words), dwords |-> SampleAll(c.dwords),
                         bits |-> SampleAll(c.bits)]
            /\ UNCHANGED mem
    /\ phase' = "served"
    /\ UNCHANGED <<profile, plan, compiled, call, request, result, out, held, changes, disturbed>>

(* A request fails: it is not answered in time, the connection is lost, or  *)
(* the PLC answers with an error code.                                      *)
RequestFails ==
    /\ phase \in {"sent", "served"}
    /\ Return("RequestError")
    /\ UNCHANGED <<mem, profile, plan, compiled, call, out, held, changes, disturbed>>

SettingBit == call.op = "writeTyped" /\ call.texts[1].type = "dot"

(* The PLC's program changes a cell. *)
PlcChanges(c) ==
    /\ phase \in {"sent", "served"} /\ changes < MaxChanges
    /\ changes' = changes + 1
    /\ mem' = IF c \in mem THEN mem \ {c} ELSE mem \cup {c}
    /\ disturbed' = \/ disturbed
                    \/ /\ SettingBit
                       /\ phase = "served" \/ IsWrite(request)
                       /\ c \in {WordCells(request.devices.words[1])[i] : i \in 1 .. WordBits}
    /\ UNCHANGED <<profile, plan, compiled, call, phase, request, reply, result, out, held>>

(* Between calls it makes its memory what it was. *)
PlcRestores ==
    /\ phase = "idle" /\ mem # InitialMem
    /\ mem' = InitialMem
    /\ UNCHANGED <<profile, plan, compiled, call, phase, request, reply, result, out, held,
                   changes, disturbed>>

-----------------------------------------------------------------------------
(* The tail of readNamed: each entry finds its device in the map of the     *)
(* answer.                                                                  *)
ValueOf(devices, values, dev) ==
    values[CHOOSE i \in DOMAIN devices :
             devices[i] = dev /\ \A j \in DOMAIN devices : devices[j] = dev => j <= i]

EntryValue(e) ==
    CASE e.kind = "Word" -> ValueOf(request.devices.words, reply.words, e.device)
      [] e.kind = "Dword" -> ValueOf(request.devices.dwords, reply.dwords, e.device)
      [] e.kind = "BitInWord" ->
            <<ValueOf(request.devices.words, reply.words, e.device)[e.bit + 1]>>

Found(e) ==
    containsDevice(IF e.kind = "Dword" THEN request.devices.dwords ELSE request.devices.words,
                   e.device)

FinishSnapshot ==
    LET entries == call.plan.entries
        lost == {i \in DOMAIN entries : entries[i].kind \in {"None", "LongTimer"} \/ ~Found(entries[i])}
        filled == {n \in 0 .. Len(entries) : \A i \in 1 .. n : i \notin lost}
        last == CHOOSE n \in filled : \A m \in filled : m <= n
    IN
    /\ phase = "served" /\ call.op \in SnapshotReads
    /\ out' = [i \in 1 .. last |-> [text |-> entries[i].text, bits |-> EntryValue(entries[i])]]
    /\ Return(IF lost = {} THEN "Ok" ELSE "InvalidArgument")
    /\ UNCHANGED <<call, held>> /\ Untouched

FinishTyped ==
    /\ phase = "served" /\ call.op = "readTyped"
    /\ out' = <<[text |-> call.texts[1],
                 bits |-> AddressValue(SpecOf(call.texts[1], profile), reply)]>>
    /\ Return("Ok")
    /\ UNCHANGED <<call, held>> /\ Untouched

FinishWrite ==
    /\ phase = "served" /\ IsWrite(request)
    /\ Return("Ok")
    /\ UNCHANGED <<call, out, held>> /\ Untouched

(* Mistake: the word is put together anew in place of changed. *)
WithBitAlone(word, bit, value) == [i \in DOMAIN word |-> IF i = bit + 1 THEN value ELSE FALSE]

WithBit(word, bit, value) == [word EXCEPT ![bit + 1] = value]

(* writeBitInWordImpl: the word read is written back with the bit changed. *)
WriteBack ==
    /\ phase = "served" /\ SettingBit /\ ~IsWrite(request)
    /\ Send(WriteRequest("directWrite", "words", request.devices.words,
                         <<WithBit(reply.words[1], call.texts[1].bit, call.values[1].bits[1])>>))
    /\ UNCHANGED <<call, out, held>> /\ Untouched

-----------------------------------------------------------------------------
(* Calls that send nothing. *)

(* Poller::compile: without a profile it is refused before the plan is     *)
(* touched, and the older plan stays to be polled.                          *)
Compile(texts, p) ==
    LET c == compileReadPlan(texts, p) IN
    /\ phase = "idle" /\ call = NoCall
    /\ IF ~Specified(p) THEN UNCHANGED <<plan, compiled>>
       ELSE /\ plan' = c.plan
            /\ compiled' = [texts |-> texts, ok |-> c.err = "Ok"]
    /\ UNCHANGED <<mem, profile, call, phase, request, reply, result, out, held, changes,
                   disturbed>>

(* SlmpClient::setPlcProfile *)
setPlcProfile(p) ==
    /\ phase = "idle" /\ call = NoCall
    /\ profile' = p
    /\ UNCHANGED <<mem, plan, compiled, call, phase, request, reply, result, out, held,
                   changes, disturbed>>

(* The application has done with the outcome of a call. *)
Forget ==
    /\ phase = "idle" /\ call # NoCall /\ mem = InitialMem
    /\ call' = NoCall /\ result' = "Ok" /\ out' = <<>> /\ held' = <<>>
    /\ changes' = 0 /\ disturbed' = FALSE
    /\ UNCHANGED <<mem, profile, plan, compiled, phase, request, reply>>

(* ReadPlan is a public structure: an application may take one apart. *)
HandMade(p) ==
    {[p EXCEPT !.words = IF @ = <<>> THEN @ ELSE Tail(@)],
     [p EXCEPT !.words = p.words \o p.words],
     [p EXCEPT !.dwords = <<>>]}

BitsFor(type) == {[i \in 1 .. WidthOf(type) |-> TRUE], [i \in 1 .. WidthOf(type) |-> i = 1]}
Values == {[type |-> t, bits |-> b] : t \in {"BIT", "U", "D"},
                                      b \in UNION {BitsFor(u) : u \in {"BIT", "U", "D"}}}
Formed == {v \in Values : v.bits \in BitsFor(v.type)}
Updates == UNION {[1 .. n -> ListTexts] \X [1 .. n -> Formed] : n \in 0 .. 2}

(* The calls that do not use the poller are made while it is empty: they    *)
(* neither read nor write its plan.                                         *)
CallsWithNames ==
    \/ \E t \in Texts : Call("readTyped", <<t>>, <<>>, EmptyPlan)
    \/ \E t \in Texts, v \in Formed : Call("writeTyped", <<t>>, <<v>>, EmptyPlan)
    \/ \E ts \in Lists(MaxNames) : Call("readNamed", ts, <<>>, EmptyPlan)
    \/ \E u \in Updates : Call("writeNamed", u[1], u[2], EmptyPlan)

CallsWithPlans ==
    \/ Call("readOnce", <<>>, <<>>, plan)
    \/ \E p \in HandMade(plan) : Call("readPlan", <<>>, <<>>, p)

Statements == ReadTyped \/ WriteTyped \/ ReadNamed \/ ReadPlan \/ WriteNamed
Finishes == FinishSnapshot \/ FinishTyped \/ FinishWrite \/ WriteBack

Next ==
    \/ plan = EmptyPlan /\ CallsWithNames
    \/ CallsWithPlans \/ Statements \/ Finishes
    \/ \E ts \in Lists(MaxPolled), p \in Profiles \cup {"none"} : Compile(ts, p)
    \/ \E p \in Profiles : setPlcProfile(p)
    \/ Forget
    \/ Serve \/ RequestFails
    \/ \E c \in Volatile : PlcChanges(c)
    \/ PlcRestores

Spec == Init /\ [][Next]_vars

-----------------------------------------------------------------------------
Ended == phase = "idle" /\ call # NoCall

(* The names a read was asked for, in the caller's order. *)
Asked ==
    IF call.op \in {"readOnce", "readPlan"}
    THEN [i \in DOMAIN call.plan.entries |-> call.plan.entries[i].text]
    ELSE call.texts
Names(s) == [i \in DOMAIN s |-> s[i].text]

(* A read that succeeds fills the caller's snapshot with every name asked   *)
(* for, in that order; one whose request failed leaves it empty; and any    *)
(* other failure leaves it empty or as it was (readNamed looks at the plan  *)
(* before it clears it, slmp_high_level.cpp:1871): no failure, and no plan  *)
(* an application put together by hand, leaves a part of the new values or  *)
(* a mixture with the old. A single value that is not read keeps the old.   *)
SnapshotWhole ==
    Ended /\ call.op \in Reading =>
        IF result = "Ok" THEN Names(out) = Asked
        ELSE IF call.op = "readTyped" THEN out = held
        ELSE IF result = "RequestError" THEN out = <<>>
        ELSE out \in {<<>>, held}

(* The normal form of an address is accepted again and names the same       *)
(* cells, and two spellings of one address have one normal form             *)
(* (slmp_high_level.h, normalizeAddress): asked once for each profile.       *)
NormalFormMeansSame ==
    Specified(profile) /\ call = NoCall /\ plan = EmptyPlan =>
        \A t, u \in {v \in Texts : parseAddressSpec(v, profile) = "Ok"} :
            /\ parseAddressSpec(normalizeAddress(t, profile), profile) = "Ok"
            /\ Denotes(normalizeAddress(t, profile), profile) = Denotes(t, profile)
            /\ SpecOf(t, profile) = SpecOf(u, profile)
                   => normalizeAddress(t, profile) = normalizeAddress(u, profile)

(* A poll that succeeds returns the names of the latest Poller::compile that *)
(* was given a profile, as many as it had accepted when it failed: never     *)
(* those of a plan before it. (A compile without a profile is refused and    *)
(* forgotten: polls go on with the plan there was, slmp_high_level.cpp:1965.) *)
PollIsOfLastCompile ==
    Ended /\ call.op = "readOnce" /\ result = "Ok" =>
        /\ Len(out) <= Len(compiled.texts)
        /\ compiled.ok <=> Len(out) = Len(compiled.texts)
        /\ Names(out) = [i \in 1 .. Len(out) |-> compiled.texts[i]]

(* The write of one bit inside a word changes that bit alone, unless the    *)
(* PLC changed the word after it was read: only then is something lost.     *)
OneBitWritten ==
    phase = "sent" /\ phase' = "served" /\ SettingBit /\ IsWrite(request) /\ ~disturbed =>
        mem' = Store(mem, <<Denotes(call.texts[1], profile)>>, <<call.values[1].bits>>)
OtherBitsKept == [][OneBitWritten]_vars

(* What the pending call asks for, in terms of NamedRegisters. *)
Meaning ==
    LET p == IF call.op \in {"readOnce", "readPlan"} THEN call.plan.profile ELSE profile
        word == WordCells([code |-> call.texts[1].code, number |-> NumberIn(call.texts[1], p)])
        none == [kind |-> "none", cells |-> <<>>, bits |-> <<>>, bit |-> 0]
        bits == [i \in DOMAIN call.values |-> call.values[i].bits]
    IN IF phase = "idle" THEN none
       ELSE IF SettingBit
       THEN [kind |-> "setBit", cells |-> <<word>>, bits |-> bits, bit |-> call.texts[1].bit]
       ELSE [kind |-> IF call.op \in Reading THEN "read" ELSE "write",
             cells |-> [i \in DOMAIN Asked |-> Denotes(Asked[i], p)], bits |-> bits, bit |-> 0]

Taken ==
    CASE phase \in {"idle", "called"} -> "nothing"
      [] phase = "sent" -> IF SettingBit /\ IsWrite(request) THEN "sampled" ELSE "nothing"
      [] phase = "served" -> IF SettingBit /\ ~IsWrite(request) THEN "sampled" ELSE "all"

Seen ==
    IF Taken = "nothing" THEN <<>>
    ELSE IF SettingBit THEN reply.words
    ELSE IF call.op \in SnapshotReads
    THEN [i \in DOMAIN call.plan.entries |-> EntryValue(call.plan.entries[i])]
    ELSE IF call.op = "readTyped" THEN <<AddressValue(SpecOf(call.texts[1], profile), reply)>>
    ELSE <<>>

Outcome ==
    [ok |-> Ended /\ result = "Ok",
     values |-> IF Ended /\ result = "Ok" THEN [i \in DOMAIN out |-> out[i].bits] ELSE <<>>]

Registers ==
    INSTANCE NamedRegisters
    WITH call <- Meaning, taken <- Taken, seen <- Seen, outcome <- Outcome

(* Every call of the facade reads its names at one instant, or writes them  *)
(* all and nothing else at one instant, whatever texts are mixed in it,     *)
(* whichever devices share a word, and whatever the PLC changes meanwhile.  *)
ImplementsRegisters == Registers!Spec

=============================================================================
