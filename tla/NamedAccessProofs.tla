--------------------------- MODULE NamedAccessProofs ---------------------------
(***************************************************************************)
(* Theorems about NamedAccess, for any texts, lists of any length, any     *)
(* width of a word, any memory and any changes the PLC makes to it: what   *)
(* snapshots and polls hold, that the write of a bit keeps the others, and *)
(* that every call does what NamedRegisters promises.                      *)
(***************************************************************************)
EXTENDS NamedAccess, SequenceTheorems, Recursion

-----------------------------------------------------------------------------
(* What an accepted text is *)

(* What parseUnsignedNumber has after each digit *)
Reads(f, digits, radix) ==
    /\ f \in [0 .. Len(digits) -> Nat] /\ f[0] = 0
    /\ \A n \in 1 .. Len(digits) : f[n] = (f[n - 1] * radix + digits[n]) % NumberRange

LEMMA NumberIs ==
  ASSUME NEW digits \in Seq(Nat), NEW radix \in Nat
  PROVE  \E f : Reads(f, digits, radix) /\ NumberOf(digits, radix) = f[Len(digits)]
<1> DEFINE k == Len(digits)
           step == [n \in 1 .. k |-> [v \in Nat |-> (v * radix + digits[n]) % NumberRange]]
           body(g, n) == IF n = 0 THEN 0 ELSE (g[n - 1] * radix + digits[n]) % NumberRange
<1>1. k \in Nat /\ \A n \in 1 .. k : digits[n] \in Nat
  OBVIOUS
<1> HIDE DEF k, step
<1>2. \A v, d \in Nat : (v * radix + d) % NumberRange \in Nat
  <2> TAKE v, d \in Nat
  <2>1. v * radix + d \in Nat
    OBVIOUS
  <2>2. \A a \in Nat : a % NumberRange \in Nat
    BY NameAssumption
  <2> QED
    BY <2>1, <2>2
<1>3. \A n \in 1 .. k, v \in Nat : (v * radix + digits[n]) % NumberRange \in Nat
  BY <1>1, <1>2
<1>4. step \in Steps(k, Nat)
  BY <1>3 DEF step, Steps
<1>5. PICK f \in [0 .. k -> Nat] : Unfolds(f, k, 0, step)
  BY <1>1, <1>4, FiniteRecursion
<1>6. \A n \in 1 .. k : step[n][f[n - 1]] = (f[n - 1] * radix + digits[n]) % NumberRange
  BY <1>1 DEF step
<1>7. f = [n \in 0 .. k |-> body(f, n)]
  BY <1>1, <1>5, <1>6 DEF Unfolds
<1> DEFINE upTo == CHOOSE g : g = [n \in 0 .. k |-> body(g, n)]
<1>8. NumberOf(digits, radix) = upTo[k]
  BY DEF NumberOf, k
<1>9. upTo = [n \in 0 .. k |-> body(upTo, n)]
  BY <1>7
<1> HIDE DEF upTo
<1> DEFINE S == {m \in 0 .. k : upTo[m] \in Nat}
<1>10. upTo[0] = 0
  BY <1>1, <1>9
<1>11. \A n \in 1 .. k : upTo[n] = (upTo[n - 1] * radix + digits[n]) % NumberRange
  BY <1>1, <1>9
<1>12. 0 \in S
  BY <1>1, <1>10
<1>13. ASSUME NEW n \in 1 .. k, n - 1 \in S PROVE n \in S
  <2>1. upTo[n - 1] \in Nat /\ n \in 0 .. k
    BY <1>1, <1>13
  <2> QED
    BY <1>3, <1>11, <2>1
<1> HIDE DEF S
<1>14. \A n \in 0 .. k : n \in S
  BY <1>1, <1>12, <1>13, FiniteInduction
<1>15. \A n \in 0 .. k : upTo[n] \in Nat
  BY <1>14 DEF S
<1>16. DOMAIN upTo = 0 .. k /\ upTo = [n \in DOMAIN upTo |-> upTo[n]]
  BY <1>9
<1>17. upTo \in [0 .. k -> Nat]
  BY <1>15, <1>16
<1>18. Reads(upTo, digits, radix)
  BY <1>10, <1>11, <1>17 DEF Reads, k
<1> QED
  BY <1>8, <1>18 DEF k

(* parseUnsignedNumber returns a number below 2^32, however many digits it  *)
(* reads.                                                                   *)
LEMMA NumberIsNat ==
  ASSUME NEW digits \in Seq(Nat), NEW radix \in Nat
  PROVE  NumberOf(digits, radix) \in Nat /\ NumberOf(digits, radix) < NumberRange
<1>1. PICK f : Reads(f, digits, radix) /\ NumberOf(digits, radix) = f[Len(digits)]
  BY NumberIs
<1> DEFINE k == Len(digits)
<1>2. k \in Nat /\ f[k] \in Nat /\ f[0] = 0
  BY <1>1 DEF Reads
<1>3. CASE k = 0
  BY <1>1, <1>2, <1>3, NameAssumption
<1>4. CASE k # 0
  <2>1. k \in 1 .. Len(digits) /\ k - 1 \in 0 .. Len(digits)
    BY <1>2, <1>4
  <2>2. f[k] = (f[k - 1] * radix + digits[k]) % NumberRange
    BY <1>1, <2>1 DEF Reads
  <2>3. f \in [0 .. Len(digits) -> Nat]
    BY <1>1 DEF Reads
  <2>4. \A v, d \in Nat : v * radix + d \in Nat
    OBVIOUS
  <2>5. \A a \in Nat : a % NumberRange < NumberRange
    BY NameAssumption
  <2>6. f[k - 1] \in Nat /\ digits[k] \in Nat
    BY <2>1, <2>3
  <2> QED
    BY <1>1, <1>2, <2>2, <2>4, <2>5, <2>6
<1> QED
  BY <1>3, <1>4

CallTexts == Texts \cup ListTexts

(* The kinds of texts parseAddressSpec lets through *)
LEMMA Accepted ==
  ASSUME NEW t \in CallTexts, NEW p, parseAddressSpec(t, p) = "Ok"
  PROVE  /\ t \in Text /\ NumberIn(t, p) \in Nat /\ t.code \in Codes
         /\ SpecOf(t, p) = [code |-> t.code, number |-> NumberIn(t, p),
                            type |-> IF t.type = "dot" THEN "BIT" ELSE t.type, bit |-> t.bit]
         /\ \/ t.type = "dot" /\ t.bit \in Bits /\ ~bit_unit(t.code)
            \/ t.type \in Types /\ t.bit = -1 /\ TypeFits(t.code, t.type)
<1>1. t \in Text
  BY AccessAssumption DEF CallTexts
<1>2. t.code \in Codes /\ t.digits \in Seq(Nat) /\ t.type \in Types \cup {"dot", "none"}
  BY <1>1 DEF Text
<1>3. effectiveDeviceRadix(t.code, p) \in Nat
  BY NameAssumption DEF effectiveDeviceRadix
<1>4. NumberIn(t, p) \in Nat
  BY <1>2, <1>3, NumberIsNat DEF NumberIn
<1>5. t.type = "dot" \/ t.bit = -1
  BY AccessAssumption DEF CallTexts
<1>6. t.type # "none"
  BY DEF parseAddressSpec
<1>7. parseDeviceOnly(t, p) = "Ok"
  BY <1>6 DEF parseAddressSpec
<1>8. CASE t.type = "dot"
  <2>1. ~bit_unit(t.code) /\ t.bit \in Bits
    BY <1>7, <1>8 DEF parseAddressSpec
  <2> QED
    BY <1>1, <1>2, <1>4, <1>8, <2>1 DEF SpecOf
<1>9. CASE t.type # "dot"
  <2>1. TypeFits(t.code, t.type)
    BY <1>6, <1>7, <1>9 DEF parseAddressSpec
  <2>2. t.type \in Types
    BY <1>2, <1>6, <1>9
  <2> QED
    BY <1>1, <1>2, <1>4, <1>5, <1>9, <2>1, <2>2 DEF SpecOf
<1> QED
  BY <1>8, <1>9

-----------------------------------------------------------------------------
(* What is stored and found again *)

(* Memory after a write depends only on which value goes to which cells. *)
LEMMA StoreSame ==
  ASSUME NEW m, NEW cells, NEW bits, NEW others, NEW values,
         \A i \in DOMAIN cells : \E j \in DOMAIN others :
            cells[i] = others[j] /\ bits[i] = values[j],
         \A j \in DOMAIN others : \E i \in DOMAIN cells :
            cells[i] = others[j] /\ bits[i] = values[j]
  PROVE  Store(m, cells, bits) = Store(m, others, values)
<1> DEFINE Ones(cs, bs, i) == {cs[i][j] : j \in {k \in DOMAIN cs[i] : bs[i][k]}}
<1>1. \A c : (\A i \in DOMAIN cells : \A j \in DOMAIN cells[i] : cells[i][j] # c)
               <=> (\A i \in DOMAIN others : \A j \in DOMAIN others[i] : others[i][j] # c)
  OBVIOUS
<1>2. ASSUME NEW i \in DOMAIN cells
      PROVE  \E j \in DOMAIN others : Ones(cells, bits, i) = Ones(others, values, j)
  <2>1. PICK j \in DOMAIN others : cells[i] = others[j] /\ bits[i] = values[j]
    OBVIOUS
  <2>2. Ones(cells, bits, i) = Ones(others, values, j)
    BY <2>1
  <2> QED
    BY <2>2
<1>3. ASSUME NEW j \in DOMAIN others
      PROVE  \E i \in DOMAIN cells : Ones(cells, bits, i) = Ones(others, values, j)
  <2>1. PICK i \in DOMAIN cells : cells[i] = others[j] /\ bits[i] = values[j]
    OBVIOUS
  <2>2. Ones(cells, bits, i) = Ones(others, values, j)
    BY <2>1
  <2> QED
    BY <2>2
<1> HIDE DEF Ones
<1>4. UNION {Ones(cells, bits, i) : i \in DOMAIN cells}
        = UNION {Ones(others, values, j) : j \in DOMAIN others}
  BY <1>2, <1>3
<1>5. {c \in m : \A i \in DOMAIN cells : \A j \in DOMAIN cells[i] : cells[i][j] # c}
        = {c \in m : \A i \in DOMAIN others : \A j \in DOMAIN others[i] : others[i][j] # c}
  BY <1>1
<1>6. /\ Store(m, cells, bits) =
           {c \in m : \A i \in DOMAIN cells : \A j \in DOMAIN cells[i] : cells[i][j] # c}
             \cup UNION {Ones(cells, bits, i) : i \in DOMAIN cells}
      /\ Store(m, others, values) =
           {c \in m : \A i \in DOMAIN others : \A j \in DOMAIN others[i] : others[i][j] # c}
             \cup UNION {Ones(others, values, j) : j \in DOMAIN others}
  BY DEF Store, Ones
<1> QED
  BY <1>4, <1>5, <1>6

(* A set of positions in a list has a last one. *)
LEMMA LastOf ==
  ASSUME NEW n \in Nat, NEW S \in SUBSET (1 .. n), S # {}
  PROVE  \E i \in S : \A j \in S : j <= i
<1> DEFINE T == {n - i : i \in S}
<1>1. T \in SUBSET Nat /\ T # {}
  <2>1. \A i \in S : n - i \in Nat
    OBVIOUS
  <2> QED
    BY <2>1
<1> HIDE DEF T
<1>2. PICK m \in T : \A k \in T : m <= k
  BY <1>1, Smallest
<1> USE DEF T
<1>3. PICK i \in S : m = n - i
  OBVIOUS
<1>4. \A j \in S : n - i <= n - j
  BY <1>2, <1>3
<1> QED
  BY <1>4

(* The map of an answer gives each device the value read for it, even if    *)
(* the device was asked for several times.                                  *)
LEMMA ValueFound ==
  ASSUME NEW devices \in Seq(Device), NEW values, NEW dev, NEW v,
         containsDevice(devices, dev),
         \A i \in 1 .. Len(devices) : devices[i] = dev => values[i] = v
  PROVE  ValueOf(devices, values, dev) = v
<1> DEFINE n == Len(devices)
           S == {i \in 1 .. n : devices[i] = dev}
           last(i) == devices[i] = dev /\ \A j \in DOMAIN devices : devices[j] = dev => j <= i
<1>0. n \in Nat /\ DOMAIN devices = 1 .. n
  OBVIOUS
<1>1. S \in SUBSET (1 .. n) /\ S # {}
  BY <1>0 DEF containsDevice
<1>2. PICK i \in S : \A j \in S : j <= i
  <2> HIDE DEF S, n
  <2> QED
    BY <1>0, <1>1, LastOf
<1>3. i \in DOMAIN devices /\ last(i)
  BY <1>0, <1>2
<1>4. ValueOf(devices, values, dev) = values[CHOOSE j \in DOMAIN devices : last(j)]
  BY DEF ValueOf
<1>5. (CHOOSE j \in DOMAIN devices : last(j)) \in DOMAIN devices
      /\ last(CHOOSE j \in DOMAIN devices : last(j))
  <2> HIDE DEF last
  <2> QED
    BY <1>3
<1> QED
  BY <1>0, <1>4, <1>5

-----------------------------------------------------------------------------
(* The recursive definitions of the module *)

EntryKinds == {"None", "Word", "Dword", "BitInWord", "LongTimer"}
Entry == [text : Text, kind : EntryKinds, device : Device, bit : Int]
Plan == [profile : Profiles \cup {"none"}, entries : Seq(Entry),
         words : Seq(Device), dwords : Seq(Device)]
Refusals == {"InvalidArgument", "UnsupportedDevice"}

(* The entry of a plan for profile p is what its text compiles to. *)
Compiled(e, p) ==
    /\ e.text \in ListTexts /\ parseAddressSpec(e.text, p) = "Ok"
    /\ e = EntryFor(e.text, SpecOf(e.text, p))

(* Whatever an application did to the batch of a plan, its entries are      *)
(* those of an address list.                                                *)
PlanSound(q) ==
    q \in Plan /\ \A i \in 1 .. Len(q.entries) : Compiled(q.entries[i], q.profile)

(* The entries of a plan are the beginning of a list of addresses. *)
Heads(q, texts) ==
    /\ Len(q.entries) <= Len(texts)
    /\ \A i \in 1 .. Len(q.entries) : q.entries[i].text = texts[i]

LEMMA ParseErrors ==
  ASSUME NEW t, NEW p, parseAddressSpec(t, p) # "Ok"
  PROVE  parseAddressSpec(t, p) \in Refusals
BY DEF parseAddressSpec, parseDeviceOnly, Refusals

LEMMA EntryIs ==
  ASSUME NEW t \in ListTexts, NEW p, parseAddressSpec(t, p) = "Ok"
  PROVE  EntryFor(t, SpecOf(t, p)) \in Entry /\ EntryFor(t, SpecOf(t, p)).text = t
<1> DEFINE spec == SpecOf(t, p)
<1>1. /\ t \in Text /\ spec.code \in Codes /\ spec.number \in Nat /\ spec.bit \in Int
      /\ spec.type \in Types
  BY Accepted DEF CallTexts, Bits, Types
<1> HIDE DEF spec
<1>2. \A n \in Nat : n % WordBits \in 0 .. WordBits - 1
  BY NameAssumption
<1>3. spec.number % WordBits \in Int /\ Aligned(spec.number) \in Nat
  <2> DEFINE a == spec.number % WordBits
  <2>1. a \in 0 .. WordBits - 1
    BY <1>1, <1>2
  <2>2. \A n \in Nat : n % WordBits <= n
    BY NameAssumption
  <2>3. a <= spec.number
    BY <1>1, <2>2
  <2> QED
    BY <1>1, <2>1, <2>3, NameAssumption DEF Aligned
<1>4. EntryFor(t, spec) \in Entry /\ EntryFor(t, spec).text = t
  <2>1. CASE spec.bit >= 0
    BY <1>1, <2>1 DEF EntryFor, Entry, EntryKinds, Device
  <2>2. CASE spec.bit < 0 /\ HasLongReadAccess(spec.code)
    BY <1>1, <2>2 DEF EntryFor, Entry, EntryKinds, Device, HasLongReadAccess, isPlainBitWordBatchable,
       LongTimerCodes, LongCounterCodes
  <2>3. CASE spec.bit < 0 /\ ~HasLongReadAccess(spec.code) /\ spec.type = "BIT"
             /\ isPlainBitWordBatchable(spec.code)
    BY <1>1, <1>3, <2>3 DEF EntryFor, Entry, EntryKinds, Device, isPlainBitWordBatchable,
       BitEntry, batchable_word, WordCodes
  <2>4. CASE spec.bit < 0 /\ ~HasLongReadAccess(spec.code)
             /\ ~(spec.type = "BIT" /\ isPlainBitWordBatchable(spec.code))
    BY <1>1, <2>4 DEF EntryFor, Entry, EntryKinds, Device
  <2> QED
    BY <1>1, <2>1, <2>2, <2>3, <2>4
<1> QED
  BY <1>4 DEF spec

LEMMA AddEntryIs ==
  ASSUME NEW q \in Plan, NEW e \in Entry
  PROVE  /\ AddEntry(q, e) \in Plan
         /\ AddEntry(q, e).profile = q.profile
         /\ AddEntry(q, e).entries = Append(q.entries, e)
<1>1. /\ q.entries \in Seq(Entry) /\ q.words \in Seq(Device) /\ q.dwords \in Seq(Device)
      /\ e.device \in Device
  BY DEF Plan, Entry
<1>2. AddOnce(q.words, e.device) \in Seq(Device) /\ AddOnce(q.dwords, e.device) \in Seq(Device)
  BY <1>1 DEF AddOnce
<1>3. Append(q.entries, e) \in Seq(Entry)
  BY <1>1
<1> QED
  BY <1>1, <1>2, <1>3 DEF AddEntry, Plan

(* compileReadPlanImpl: the entries of the plan are those of the addresses  *)
(* up to the first that does not parse, in their order; there is none for   *)
(* all of them just when it succeeds.                                       *)
LEMMA CompileIs ==
  ASSUME NEW k \in Nat, NEW texts \in [1 .. k -> ListTexts], NEW p \in Profiles
  PROVE  LET c == compileReadPlan(texts, p) IN
         /\ PlanSound(c.plan) /\ c.plan.profile = p
         /\ Heads(c.plan, texts)
         /\ c.err = "Ok" <=> Len(c.plan.entries) = Len(texts)
         /\ c.err \in {"Ok"} \cup Refusals
<1> DEFINE V == [plan : Plan, err : {"Ok"} \cup Refusals]
           a == [plan |-> [EmptyPlan EXCEPT !.profile = p], err |-> "Ok"]
           next(v, n) == IF v.err # "Ok" THEN v
                         ELSE IF parseAddressSpec(texts[n], p) # "Ok"
                         THEN [v EXCEPT !.err = parseAddressSpec(texts[n], p)]
                         ELSE [v EXCEPT !.plan = AddEntry(@, EntryFor(texts[n], SpecOf(texts[n], p)))]
           step == [n \in 1 .. k |-> [v \in V |-> next(v, n)]]
           body(g, n) == IF n = 0 THEN a ELSE next(g[n - 1], n)
<1>0. Len(texts) = k /\ \A n \in 1 .. k : texts[n] \in ListTexts
  OBVIOUS
<1>1. a \in V /\ a.plan.profile = p /\ a.plan.entries = <<>> /\ a.err = "Ok"
  <2>1. <<>> \in Seq(Entry) /\ <<>> \in Seq(Device)
    OBVIOUS
  <2>2. [EmptyPlan EXCEPT !.profile = p]
          = [profile |-> p, entries |-> <<>>, words |-> <<>>, dwords |-> <<>>]
    BY DEF EmptyPlan
  <2> QED
    BY <2>1, <2>2 DEF Plan
<1>2. ASSUME NEW n \in 1 .. k, NEW v \in V PROVE next(v, n) \in V
  <2>1. CASE parseAddressSpec(texts[n], p) # "Ok"
    BY <2>1, ParseErrors
  <2>2. CASE parseAddressSpec(texts[n], p) = "Ok"
    <3>1. AddEntry(v.plan, EntryFor(texts[n], SpecOf(texts[n], p))) \in Plan
      BY <1>0, <2>2, EntryIs, AddEntryIs
    <3> QED
      BY <2>2, <3>1
  <2> QED
    BY <2>1, <2>2
<1> HIDE DEF V, a, next
<1>3. step \in Steps(k, V)
  BY <1>2 DEF Steps
<1>4. \A n \in 1 .. k, v \in V : step[n][v] = next(v, n)
  OBVIOUS
<1> HIDE DEF step
<1>5. PICK f \in [0 .. k -> V] : Unfolds(f, k, a, step)
  BY <1>1, <1>3, FiniteRecursion
<1>6. f = [n \in 0 .. k |-> body(f, n)]
  <2>1. \A n \in 1 .. k : f[n - 1] \in V
    OBVIOUS
  <2>2. \A n \in 1 .. k : step[n][f[n - 1]] = next(f[n - 1], n)
    BY <1>4, <2>1
  <2> QED
    BY <1>5, <2>2 DEF Unfolds
<1> DEFINE upTo == CHOOSE g : g = [n \in 0 .. k |-> body(g, n)]
<1>7. compileReadPlan(texts, p) = upTo[k]
  BY <1>0 DEF compileReadPlan, next, a
<1>8. upTo = [n \in 0 .. k |-> body(upTo, n)]
  BY <1>6
<1> HIDE DEF upTo
<1>9. upTo[0] = a /\ \A n \in 1 .. k : upTo[n] = next(upTo[n - 1], n)
  BY <1>8
<1> DEFINE Good(c, n) ==
             /\ c \in V /\ PlanSound(c.plan) /\ c.plan.profile = p
             /\ Len(c.plan.entries) <= n
             /\ \A i \in 1 .. Len(c.plan.entries) : c.plan.entries[i].text = texts[i]
             /\ c.err = "Ok" <=> Len(c.plan.entries) = n
           S == {n \in 0 .. k : Good(upTo[n], n)}
<1>10. 0 \in S
  BY <1>1, <1>9 DEF PlanSound, V
<1>11. ASSUME NEW n \in 1 .. k, n - 1 \in S PROVE n \in S
  <2> DEFINE v == upTo[n - 1]  e == EntryFor(texts[n], SpecOf(texts[n], p))
  <2>1. Good(v, n - 1) /\ upTo[n] = next(v, n) /\ next(v, n) \in V
    BY <1>2, <1>9, <1>11
  <2>2. v.plan \in Plan /\ v.plan.entries \in Seq(Entry) /\ Len(v.plan.entries) \in Nat
    BY <2>1 DEF V, Plan
  <2>3. CASE v.err # "Ok"
    <3>1. next(v, n) = v
      BY <2>3 DEF next
    <3> HIDE DEF v
    <3>2. Good(v, n)
      BY <2>1, <2>2, <2>3
    <3> QED
      BY <2>1, <3>1, <3>2
  <2>4. CASE v.err = "Ok" /\ parseAddressSpec(texts[n], p) # "Ok"
    <3>1. next(v, n) = [v EXCEPT !.err = parseAddressSpec(texts[n], p)]
      BY <2>4 DEF next
    <3>2. next(v, n).plan = v.plan /\ next(v, n).err = parseAddressSpec(texts[n], p)
      BY <2>1, <3>1 DEF V
    <3> HIDE DEF v
    <3>3. Good(next(v, n), n)
      BY <2>1, <2>2, <2>4, <3>2
    <3> QED
      BY <2>1, <3>3
  <2>5. CASE v.err = "Ok" /\ parseAddressSpec(texts[n], p) = "Ok"
    <3>1. e \in Entry /\ e.text = texts[n] /\ texts[n] \in ListTexts
      BY <1>0, <2>5, EntryIs
    <3>2. Compiled(e, p)
      BY <2>5, <3>1 DEF Compiled
    <3>3. next(v, n) = [v EXCEPT !.plan = AddEntry(v.plan, e)]
      BY <2>5 DEF next
    <3>4. next(v, n).plan = AddEntry(v.plan, e) /\ next(v, n).err = "Ok"
      BY <2>1, <2>5, <3>3 DEF V
    <3> HIDE DEF v, e
    <3> DEFINE q == AddEntry(v.plan, e)
    <3>5. q \in Plan /\ q.profile = p /\ q.entries = Append(v.plan.entries, e)
      BY <2>1, <2>2, <3>1, AddEntryIs
    <3> HIDE DEF q
    <3>6. /\ Len(q.entries) = Len(v.plan.entries) + 1
          /\ \A i \in 1 .. Len(v.plan.entries) : q.entries[i] = v.plan.entries[i]
          /\ q.entries[Len(v.plan.entries) + 1] = e
      BY <2>2, <3>1, <3>5, AppendProperties
    <3>7. Len(v.plan.entries) = n - 1
      BY <2>1, <2>5
    <3>8. \A i \in 1 .. n : Compiled(q.entries[i], p) /\ q.entries[i].text = texts[i]
      <4> TAKE i \in 1 .. n
      <4>1. CASE i = n
        BY <3>1, <3>2, <3>6, <3>7, <4>1
      <4>2. CASE i # n
        <5>1. i \in 1 .. Len(v.plan.entries)
          BY <3>7, <4>2
        <5> QED
          BY <2>1, <3>6, <5>1 DEF PlanSound
      <4> QED
        BY <4>1, <4>2
    <3>9. Good(next(v, n), n)
      BY <2>1, <3>4, <3>5, <3>6, <3>7, <3>8 DEF PlanSound, q
    <3> QED
      BY <2>1, <3>9
  <2> QED
    BY <2>3, <2>4, <2>5
<1> HIDE DEF S, Good
<1>12. \A n \in 0 .. k : n \in S
  BY <1>10, <1>11, FiniteInduction
<1> USE DEF S, Good
<1>13. Good(upTo[k], k)
  BY <1>12
<1> QED
  BY <1>0, <1>7, <1>13 DEF Heads, V

(* The updates of some types are those updates, each once more or less, in  *)
(* a list.                                                                  *)
LEMMA OfTypesIs ==
  ASSUME NEW k \in Nat, NEW specs, Len(specs) = k, NEW T
  PROVE  /\ OfTypes(specs, T) \in Seq(1 .. k)
         /\ \A i \in 1 .. k : specs[i].type \in T
               => \E j \in 1 .. Len(OfTypes(specs, T)) : OfTypes(specs, T)[j] = i
         /\ \A j \in 1 .. Len(OfTypes(specs, T)) : specs[OfTypes(specs, T)[j]].type \in T
<1> DEFINE V == Seq(1 .. k)
           next(v, n) == IF specs[n].type \in T THEN Append(v, n) ELSE v
           step == [n \in 1 .. k |-> [v \in V |-> next(v, n)]]
           body(g, n) == IF n = 0 THEN <<>> ELSE next(g[n - 1], n)
<1>1. <<>> \in V
  OBVIOUS
<1>2. ASSUME NEW n \in 1 .. k, NEW v \in V PROVE next(v, n) \in V
  <2>1. Append(v, n) \in V
    OBVIOUS
  <2> QED
    BY <2>1
<1> HIDE DEF V, next
<1>3. step \in Steps(k, V)
  BY <1>2 DEF Steps
<1>4. \A n \in 1 .. k, v \in V : step[n][v] = next(v, n)
  OBVIOUS
<1> HIDE DEF step
<1>5. PICK f \in [0 .. k -> V] : Unfolds(f, k, <<>>, step)
  BY <1>1, <1>3, FiniteRecursion
<1>6. f = [n \in 0 .. k |-> body(f, n)]
  <2>1. \A n \in 1 .. k : f[n - 1] \in V
    OBVIOUS
  <2>2. \A n \in 1 .. k : step[n][f[n - 1]] = next(f[n - 1], n)
    BY <1>4, <2>1
  <2> QED
    BY <1>5, <2>2 DEF Unfolds
<1> DEFINE upTo == CHOOSE g : g = [n \in 0 .. k |-> body(g, n)]
<1>7. OfTypes(specs, T) = upTo[k]
  BY DEF OfTypes, next
<1>8. upTo = [n \in 0 .. k |-> body(upTo, n)]
  BY <1>6
<1> HIDE DEF upTo
<1>9. upTo[0] = <<>> /\ \A n \in 1 .. k : upTo[n] = next(upTo[n - 1], n)
  BY <1>8
<1> DEFINE Good(c, n) ==
             /\ c \in V
             /\ \A i \in 1 .. n : specs[i].type \in T => \E j \in 1 .. Len(c) : c[j] = i
             /\ \A j \in 1 .. Len(c) : specs[c[j]].type \in T
           S == {n \in 0 .. k : Good(upTo[n], n)}
<1>10. 0 \in S
  BY <1>1, <1>9
<1>11. ASSUME NEW n \in 1 .. k, n - 1 \in S PROVE n \in S
  <2> DEFINE v == upTo[n - 1]
  <2>1. Good(v, n - 1) /\ upTo[n] = next(v, n) /\ next(v, n) \in V
    BY <1>2, <1>9, <1>11
  <2> HIDE DEF v
  <2>2. CASE specs[n].type \in T
    <3> DEFINE w == Append(v, n)
    <3>1. next(v, n) = w /\ v \in Seq(1 .. k) /\ n \in 1 .. k
      BY <2>1, <2>2 DEF next, V
    <3>2. /\ Len(w) = Len(v) + 1 /\ Len(v) \in Nat /\ w[Len(v) + 1] = n
          /\ \A j \in 1 .. Len(v) : w[j] = v[j]
      BY <3>1, AppendProperties
    <3> HIDE DEF w
    <3>3. \A j \in 1 .. Len(w) : specs[w[j]].type \in T
      <4> TAKE j \in 1 .. Len(w)
      <4>1. CASE j = Len(v) + 1
        BY <2>2, <3>2, <4>1
      <4>2. CASE j # Len(v) + 1
        <5>1. j \in 1 .. Len(v)
          BY <3>2, <4>2
        <5> QED
          BY <2>1, <3>2, <5>1
      <4> QED
        BY <4>1, <4>2
    <3>4. ASSUME NEW i \in 1 .. n, specs[i].type \in T
          PROVE  \E j \in 1 .. Len(w) : w[j] = i
      <4>1. CASE i = n
        BY <3>2, <4>1
      <4>2. CASE i # n
        <5>1. PICK j \in 1 .. Len(v) : v[j] = i
          BY <2>1, <3>4, <4>2
        <5> QED
          BY <3>2, <5>1
      <4> QED
        BY <4>1, <4>2
    <3>5. Good(w, n)
      BY <2>1, <3>1, <3>3, <3>4
    <3>6. upTo[n] = w /\ n \in 0 .. k
      BY <2>1, <3>1
    <3> HIDE DEF Good
    <3> QED
      BY <3>5, <3>6
  <2>3. CASE specs[n].type \notin T
    <3>1. next(v, n) = v
      BY <2>3 DEF next
    <3>2. Good(v, n)
      BY <2>1, <2>3
    <3> QED
      BY <2>1, <3>1, <3>2
  <2> QED
    BY <2>2, <2>3
<1> HIDE DEF S, Good
<1>12. \A n \in 0 .. k : n \in S
  BY <1>10, <1>11, FiniteInduction
<1> USE DEF S, Good
<1>13. Good(upTo[k], k)
  BY <1>12
<1> QED
  BY <1>7, <1>13 DEF V

-----------------------------------------------------------------------------
(* What an answer holds *)

(* The answer of the PLC to a read of some devices *)
Answer(d) == [words |-> SampleAll(Covered(d).words), dwords |-> SampleAll(Covered(d).dwords),
              bits |-> SampleAll(Covered(d).bits)]

OneWord(dev) == [words |-> <<dev>>, dwords |-> <<>>, bits |-> <<>>]
OneDword(dev) == [words |-> <<>>, dwords |-> <<dev>>, bits |-> <<>>]
OneBit(dev) == [words |-> <<>>, dwords |-> <<>>, bits |-> <<dev>>]

LEMMA UnitsOfOne ==
  ASSUME NEW dev
  PROVE  /\ [NoUnits EXCEPT !["words"] = <<dev>>] = OneWord(dev)
         /\ [NoUnits EXCEPT !["dwords"] = <<dev>>] = OneDword(dev)
         /\ [NoUnits EXCEPT !["bits"] = <<dev>>] = OneBit(dev)
<1>1. [NoUnits EXCEPT !["words"] = <<dev>>] = OneWord(dev)
  BY DEF NoUnits, OneWord
<1>2. [NoUnits EXCEPT !["dwords"] = <<dev>>] = OneDword(dev)
  BY DEF NoUnits, OneDword
<1>3. [NoUnits EXCEPT !["bits"] = <<dev>>] = OneBit(dev)
  BY DEF NoUnits, OneBit
<1> QED
  BY <1>1, <1>2, <1>3

(* A list of one device is answered by one value. *)
LEMMA AnswerToOne ==
  ASSUME NEW dev
  PROVE  /\ Answer(OneWord(dev)).words[1] = Sample(mem, WordCells(dev))
         /\ Answer(OneWord(dev)).words = <<Sample(mem, WordCells(dev))>>
         /\ Answer(OneDword(dev)).dwords[1] = Sample(mem, DwordCells(dev))
         /\ Answer(OneBit(dev)).bits[1] = Sample(mem, BitCells(dev))
<1>1. /\ Covered(OneWord(dev)).words = <<WordCells(dev)>>
      /\ Covered(OneDword(dev)).dwords = <<DwordCells(dev)>>
      /\ Covered(OneBit(dev)).bits = <<BitCells(dev)>>
  BY DEF Covered, OneWord, OneDword, OneBit
<1>2. \A c : SampleAll(<<c>>) = <<Sample(mem, c)>>
  BY DEF SampleAll
<1> QED
  BY <1>1, <1>2 DEF Answer

LEMMA CellsOfWord ==
  ASSUME NEW dev
  PROVE  /\ DOMAIN WordCells(dev) = 1 .. WordBits
         /\ DOMAIN Sample(mem, WordCells(dev)) = 1 .. WordBits
         /\ \A i \in 1 .. WordBits :
              /\ Sample(mem, WordCells(dev))[i] = (WordCells(dev)[i] \in mem)
              /\ bit_unit(dev.code) => WordCells(dev)[i] = Cell(dev.code, dev.number + i - 1, 0)
              /\ ~bit_unit(dev.code) => WordCells(dev)[i] = Cell(dev.code, dev.number, i - 1)
<1>1. \A i \in 1 .. WordBits : WordCells(dev)[i] = IF bit_unit(dev.code)
                                                  THEN Cell(dev.code, dev.number + i - 1, 0)
                                                  ELSE Cell(dev.code, dev.number, i - 1)
  BY DEF WordCells
<1>2. DOMAIN WordCells(dev) = 1 .. WordBits
  BY DEF WordCells
<1> QED
  BY <1>1, <1>2 DEF Sample

(* A sample of one cell *)
LEMMA SampleOfOne ==
  ASSUME NEW c
  PROVE  Sample(mem, <<c>>) = <<c \in mem>>
BY DEF Sample

(* readTyped: whichever request reads the value, its answer holds the cells *)
(* the text names.                                                          *)
LEMMA TypedReads ==
  ASSUME NEW t \in CallTexts, NEW p, parseAddressSpec(t, p) = "Ok"
  PROVE  AddressValue(SpecOf(t, p), Answer(AddressRequest(SpecOf(t, p)).devices))
           = Sample(mem, Denotes(t, p))
<1> DEFINE spec == SpecOf(t, p)  dev == [code |-> t.code, number |-> NumberIn(t, p)]
<1>1. /\ t.code \in Codes /\ spec.code = t.code /\ spec.number = NumberIn(t, p) /\ spec.bit = t.bit
      /\ spec.type = IF t.type = "dot" THEN "BIT" ELSE t.type
      /\ dev.code = t.code /\ dev.number = NumberIn(t, p)
      /\ \/ t.type = "dot" /\ t.bit \in Bits /\ ~bit_unit(t.code)
         \/ t.type \in Types /\ t.bit = -1 /\ TypeFits(t.code, t.type)
  BY Accepted
<1>2. dev = [code |-> spec.code, number |-> spec.number]
  BY <1>1
<1> HIDE DEF spec, dev
<1>3. CASE t.type = "dot"
  <2>1. t.bit \in Bits /\ ~bit_unit(t.code) /\ t.bit >= 0 /\ t.bit + 1 \in 1 .. WordBits
    BY <1>1, <1>3, NameAssumption DEF Bits, Types
  <2>2. AddressRequest(spec).devices = OneWord(dev)
    <3>1. AddressRequest(spec) = Direct("words", dev)
      BY <1>1, <1>2, <1>3, <2>1 DEF AddressRequest, valueTypeUsesDword
    <3> QED
      BY <3>1, UnitsOfOne DEF Direct
  <2>3. AddressValue(spec, Answer(OneWord(dev)))
          = <<Answer(OneWord(dev)).words[1][t.bit + 1]>>
    BY <1>1, <1>3, <2>1 DEF AddressValue, valueTypeUsesDword
  <2>4. Sample(mem, WordCells(dev))[t.bit + 1] = (Cell(dev.code, dev.number, t.bit) \in mem)
    <3>1. (t.bit + 1) - 1 = t.bit
      BY <2>1 DEF Bits
    <3>2. WordCells(dev)[t.bit + 1] = Cell(dev.code, dev.number, t.bit)
      BY <1>1, <2>1, <3>1, CellsOfWord
    <3>3. Sample(mem, WordCells(dev))[t.bit + 1] = (WordCells(dev)[t.bit + 1] \in mem)
      BY <2>1, CellsOfWord
    <3> QED
      BY <3>2, <3>3
  <2>5. Denotes(t, p) = <<Cell(dev.code, dev.number, t.bit)>>
    BY <1>3 DEF Denotes, dev, valueTypeUsesDword
  <2> QED
    BY <2>2, <2>3, <2>4, <2>5, AnswerToOne, SampleOfOne DEF spec
<1>4. CASE t.type # "dot"
  <2>1. t.type \in Types /\ t.bit = -1 /\ TypeFits(t.code, t.type) /\ spec.type = t.type
    BY <1>1, <1>4
  <2>2. CASE t.code \in LongTimerCodes
    <3> DEFINE d == [words |-> <<>>, dwords |-> <<[code |-> "LTN", number |-> dev.number]>>,
                     bits |-> <<[code |-> "LTS", number |-> dev.number],
                                [code |-> "LTC", number |-> dev.number]>>]
    <3>1. AddressRequest(spec).devices = d
      BY <1>1, <2>1, <2>2 DEF AddressRequest, LongTimer, LongTimerCodes, IsLong
    <3>2. /\ Answer(d).dwords[1] = Sample(mem, DwordCells([code |-> "LTN", number |-> dev.number]))
          /\ Answer(d).bits[1] = Sample(mem, BitCells([code |-> "LTS", number |-> dev.number]))
          /\ Answer(d).bits[2] = Sample(mem, BitCells([code |-> "LTC", number |-> dev.number]))
      BY DEF Answer, SampleAll, Covered
    <3> HIDE DEF d
    <3>3. CASE t.code = "LTN"
      <4>1. t.type \in {"D", "L"}
        BY <2>1, <3>3 DEF TypeFits
      <4>2. AddressValue(spec, Answer(d)) = Answer(d).dwords[1]
        BY <1>1, <2>1, <3>3, <4>1 DEF AddressValue, valueTypeUsesDword
      <4>3. Denotes(t, p) = DwordCells(dev)
        BY <4>1 DEF Denotes, valueTypeUsesDword, dev
      <4> QED
        BY <1>1, <3>1, <3>2, <3>3, <4>2, <4>3 DEF spec, dev
    <3>4. CASE t.code \in {"LTS", "LTC"}
      <4>1. t.type = "BIT"
        BY <2>1, <3>4 DEF TypeFits, bit_unit, BitCodes
      <4>2. AddressValue(spec, Answer(d)) = Answer(d).bits[IF t.code = "LTC" THEN 2 ELSE 1]
        BY <1>1, <2>1, <3>4, <4>1 DEF AddressValue, valueTypeUsesDword
      <4>3. Denotes(t, p) = BitCells(dev)
        BY <4>1 DEF Denotes, dev, valueTypeUsesDword
      <4> QED
        BY <1>1, <3>1, <3>2, <3>4, <4>2, <4>3 DEF spec, dev
    <3> QED
      BY <2>2, <3>3, <3>4 DEF LongTimerCodes
  <2>3. CASE t.code \notin LongTimerCodes /\ t.type = "BIT"
    <3>1. AddressRequest(spec).devices = OneBit(dev)
      BY <1>1, <1>2, <2>1, <2>3, UnitsOfOne DEF AddressRequest, Direct, valueTypeUsesDword
    <3>2. AddressValue(spec, Answer(OneBit(dev))) = Answer(OneBit(dev)).bits[1]
      BY <1>1, <2>1, <2>3 DEF AddressValue, valueTypeUsesDword, LongTimerCodes
    <3>3. Denotes(t, p) = BitCells(dev)
      BY <2>3 DEF Denotes, dev, valueTypeUsesDword
    <3> QED
      BY <3>1, <3>2, <3>3, AnswerToOne DEF spec
  <2>4. CASE t.code \notin LongTimerCodes /\ valueTypeUsesDword(t.type)
    <3>1. AddressRequest(spec).devices = OneDword(dev)
      <4>1. CASE t.code \in {"LCN", "LZ"}
        BY <1>1, <1>2, <2>1, <2>4, <4>1
           DEF AddressRequest, Random, OneDword, valueTypeUsesDword, IsLong
      <4>2. CASE t.code \notin {"LCN", "LZ"}
        <5>1. AddressRequest(spec) = Direct("dwords", dev)
          BY <1>1, <1>2, <2>1, <2>4, <4>2 DEF AddressRequest, valueTypeUsesDword
        <5> QED
          BY <5>1, UnitsOfOne DEF Direct
      <4> QED
        BY <4>1, <4>2
    <3>2. AddressValue(spec, Answer(OneDword(dev))) = Answer(OneDword(dev)).dwords[1]
      BY <1>1, <2>1, <2>4 DEF AddressValue, valueTypeUsesDword, LongTimerCodes
    <3>3. Denotes(t, p) = DwordCells(dev)
      BY <2>4 DEF Denotes, dev, valueTypeUsesDword
    <3> QED
      BY <3>1, <3>2, <3>3, AnswerToOne DEF spec
  <2>5. CASE t.code \notin LongTimerCodes /\ t.type # "BIT" /\ ~valueTypeUsesDword(t.type)
    <3>1. AddressRequest(spec).devices = OneWord(dev)
      BY <1>1, <1>2, <2>1, <2>5, UnitsOfOne DEF AddressRequest, Direct, valueTypeUsesDword
    <3>2. AddressValue(spec, Answer(OneWord(dev))) = Answer(OneWord(dev)).words[1]
      BY <1>1, <2>1, <2>5 DEF AddressValue, valueTypeUsesDword, LongTimerCodes
    <3>3. Denotes(t, p) = WordCells(dev)
      BY <1>4, <2>5 DEF Denotes, dev, valueTypeUsesDword
    <3> QED
      BY <3>1, <3>2, <3>3, AnswerToOne DEF spec
  <2> QED
    BY <2>1, <2>2, <2>3, <2>4, <2>5
<1> QED
  BY <1>3, <1>4

(* readNamed: whichever entries share the devices of the random read, each  *)
(* entry finds the cells its text names.                                    *)
EntryReads(e, d, a) ==
    CASE e.kind = "Word" -> ValueOf(d.words, a.words, e.device)
      [] e.kind = "Dword" -> ValueOf(d.dwords, a.dwords, e.device)
      [] e.kind = "BitInWord" -> <<ValueOf(d.words, a.words, e.device)[e.bit + 1]>>

LEMMA DeviceFound ==
  ASSUME NEW d, d.words \in Seq(Device), d.dwords \in Seq(Device), NEW dev
  PROVE  /\ containsDevice(d.words, dev) =>
              ValueOf(d.words, Answer(d).words, dev) = Sample(mem, WordCells(dev))
         /\ containsDevice(d.dwords, dev) =>
              ValueOf(d.dwords, Answer(d).dwords, dev) = Sample(mem, DwordCells(dev))
<1>1. /\ DOMAIN d.words = 1 .. Len(d.words) /\ Len(d.words) \in Nat
      /\ DOMAIN d.dwords = 1 .. Len(d.dwords) /\ Len(d.dwords) \in Nat
  OBVIOUS
<1>2. \A i \in DOMAIN d.words : Answer(d).words[i] = Sample(mem, WordCells(d.words[i]))
  BY DEF Answer, SampleAll, Covered
<1>3. \A i \in DOMAIN d.dwords : Answer(d).dwords[i] = Sample(mem, DwordCells(d.dwords[i]))
  BY DEF Answer, SampleAll, Covered
<1>4. ASSUME containsDevice(d.words, dev)
      PROVE  ValueOf(d.words, Answer(d).words, dev) = Sample(mem, WordCells(dev))
  <2>1. \A i \in 1 .. Len(d.words) : d.words[i] = dev
          => Answer(d).words[i] = Sample(mem, WordCells(dev))
    BY <1>1, <1>2
  <2> QED
    BY <1>4, <2>1, ValueFound, ZenonT(40)
<1>5. ASSUME containsDevice(d.dwords, dev)
      PROVE  ValueOf(d.dwords, Answer(d).dwords, dev) = Sample(mem, DwordCells(dev))
  <2>1. \A i \in 1 .. Len(d.dwords) : d.dwords[i] = dev
          => Answer(d).dwords[i] = Sample(mem, DwordCells(dev))
    BY <1>1, <1>3
  <2> QED
    BY <1>5, <2>1, ValueFound, ZenonT(40)
<1> QED
  BY <1>4, <1>5

LEMMA NamedReads ==
  ASSUME NEW e, NEW p, Compiled(e, p), e.kind \notin {"None", "LongTimer"},
         NEW d, d.words \in Seq(Device), d.dwords \in Seq(Device),
         containsDevice(IF e.kind = "Dword" THEN d.dwords ELSE d.words, e.device)
  PROVE  EntryReads(e, d, Answer(d)) = Sample(mem, Denotes(e.text, p))
<1> DEFINE t == e.text  spec == SpecOf(t, p)  dev == [code |-> t.code, number |-> NumberIn(t, p)]
<1>1. /\ t.code \in Codes /\ spec.code = t.code /\ spec.number = NumberIn(t, p) /\ spec.bit = t.bit
      /\ spec.type = IF t.type = "dot" THEN "BIT" ELSE t.type
      /\ dev.code = t.code /\ dev.number = NumberIn(t, p) /\ dev.number \in Nat
      /\ \/ t.type = "dot" /\ t.bit \in Bits /\ ~bit_unit(t.code)
         \/ t.type \in Types /\ t.bit = -1 /\ TypeFits(t.code, t.type)
  BY Accepted DEF Compiled, CallTexts
<1>2. e = EntryFor(t, spec) /\ dev = [code |-> spec.code, number |-> spec.number]
  BY <1>1 DEF Compiled
<1> HIDE DEF spec, dev
<1>3. CASE t.type = "dot"
  <2>1. t.bit \in Bits /\ ~bit_unit(t.code) /\ t.bit >= 0 /\ t.bit + 1 \in 1 .. WordBits
    BY <1>1, <1>3, NameAssumption DEF Bits, Types
  <2>2. e.kind = "BitInWord" /\ e.device = dev /\ e.bit = t.bit
    BY <1>1, <1>2, <2>1 DEF EntryFor
  <2>3. Sample(mem, WordCells(dev))[t.bit + 1] = (Cell(dev.code, dev.number, t.bit) \in mem)
    <3>1. (t.bit + 1) - 1 = t.bit
      BY <2>1 DEF Bits
    <3>2. WordCells(dev)[t.bit + 1] = Cell(dev.code, dev.number, t.bit)
      BY <1>1, <2>1, <3>1, CellsOfWord
    <3>3. Sample(mem, WordCells(dev))[t.bit + 1] = (WordCells(dev)[t.bit + 1] \in mem)
      BY <2>1, CellsOfWord
    <3> QED
      BY <3>2, <3>3
  <2>4. Denotes(t, p) = <<Cell(dev.code, dev.number, t.bit)>>
    BY <1>3 DEF Denotes, dev, valueTypeUsesDword
  <2>5. EntryReads(e, d, Answer(d)) = <<ValueOf(d.words, Answer(d).words, dev)[t.bit + 1]>>
    BY <2>2 DEF EntryReads
  <2> QED
    BY <2>2, <2>3, <2>4, <2>5, DeviceFound, SampleOfOne
<1>4. CASE t.type # "dot"
  <2>1. /\ t.type \in Types /\ t.bit = -1 /\ TypeFits(t.code, t.type) /\ spec.type = t.type
        /\ spec.bit < 0
    BY <1>1, <1>4
  <2>2. ~HasLongReadAccess(t.code)
    <3>1. ASSUME HasLongReadAccess(t.code) PROVE e.kind = "LongTimer"
      BY <1>1, <1>2, <2>1, <3>1 DEF EntryFor, HasLongReadAccess, isPlainBitWordBatchable,
         LongTimerCodes, LongCounterCodes
    <3> QED
      BY <3>1
  <2>3. CASE t.type = "BIT"
    <3>1. bit_unit(t.code)
      BY <2>1, <2>3 DEF TypeFits
    <3>2. isPlainBitWordBatchable(t.code)
      BY <1>1, <1>2, <2>1, <2>2, <2>3, <3>1 DEF EntryFor, batchable_word, bit_unit, WordCodes, BitCodes
    <3>3. e = BitEntry(t, spec)
      BY <1>1, <1>2, <2>1, <2>2, <2>3, <3>1, <3>2
         DEF EntryFor, batchable_word, bit_unit, WordCodes, BitCodes
    <3> DEFINE low == [code |-> t.code, number |-> Aligned(dev.number)]  b == dev.number % WordBits
    <3>4. e.kind = "BitInWord" /\ e.device = low /\ e.bit = b
      BY <1>1, <3>3 DEF BitEntry
    <3>5. \A n \in Nat : n % WordBits \in 0 .. WordBits - 1
      BY NameAssumption
    <3>6. b \in 0 .. WordBits - 1
      BY <1>1, <3>5
    <3>7. low.number = dev.number - b
      BY DEF Aligned
    <3>8. low.code = t.code
      OBVIOUS
    <3> HIDE DEF low, b
    <3>9. b + 1 \in 1 .. WordBits /\ low.number + (b + 1) - 1 = dev.number
      BY <1>1, <3>6, <3>7, NameAssumption
    <3>10. Sample(mem, WordCells(low))[b + 1] = (Cell(dev.code, dev.number, 0) \in mem)
      <4>1. WordCells(low)[b + 1] = Cell(low.code, low.number + (b + 1) - 1, 0)
        BY <3>1, <3>8, <3>9, CellsOfWord
      <4>3. WordCells(low)[b + 1] = Cell(dev.code, dev.number, 0)
        BY <1>1, <3>8, <3>9, <4>1
      <4>2. Sample(mem, WordCells(low))[b + 1] = (WordCells(low)[b + 1] \in mem)
        BY <3>9, CellsOfWord
      <4> QED
        BY <4>2, <4>3
    <3>11. Denotes(t, p) = <<Cell(dev.code, dev.number, 0)>>
      BY <2>3 DEF Denotes, dev, valueTypeUsesDword, BitCells
    <3>12. EntryReads(e, d, Answer(d)) = <<ValueOf(d.words, Answer(d).words, low)[b + 1]>>
      BY <3>4 DEF EntryReads
    <3> QED
      BY <3>4, <3>10, <3>11, <3>12, DeviceFound, SampleOfOne
  <2>4. CASE t.type # "BIT"
    <3>1. batchable_word(t.code) /\ e.kind = (IF valueTypeUsesDword(t.type) THEN "Dword" ELSE "Word")
          /\ e.device = dev
      BY <1>1, <1>2, <2>1, <2>2, <2>4 DEF EntryFor
    <3>2. CASE valueTypeUsesDword(t.type)
      <4>1. Denotes(t, p) = DwordCells(dev)
        BY <1>4, <2>4, <3>2 DEF Denotes, dev, valueTypeUsesDword
      <4>2. EntryReads(e, d, Answer(d)) = ValueOf(d.dwords, Answer(d).dwords, dev)
        BY <3>1, <3>2 DEF EntryReads
      <4> QED
        BY <3>1, <3>2, <4>1, <4>2, DeviceFound
    <3>3. CASE ~valueTypeUsesDword(t.type)
      <4>1. Denotes(t, p) = WordCells(dev)
        BY <1>4, <2>4, <3>3 DEF Denotes, dev, valueTypeUsesDword
      <4>2. EntryReads(e, d, Answer(d)) = ValueOf(d.words, Answer(d).words, dev)
        BY <3>1, <3>3 DEF EntryReads
      <4> QED
        BY <3>1, <3>3, <4>1, <4>2, DeviceFound
    <3> QED
      BY <3>2, <3>3
  <2> QED
    BY <2>3, <2>4
<1> QED
  BY <1>3, <1>4

-----------------------------------------------------------------------------
(* The inductive invariant *)

Ops == {"none", "readTyped", "writeTyped", "readNamed", "writeNamed", "readOnce", "readPlan"}
Begun == phase \in {"sent", "served"}

(* The plan of the poller is the beginning of the list compiled last, and   *)
(* all of it when that succeeded.                                           *)
PollerSound ==
    /\ PlanSound(plan) /\ compiled \in [texts : Seq(ListTexts), ok : BOOLEAN]
    /\ Heads(plan, compiled.texts)
    /\ plan.entries # <<>> => (compiled.ok <=> Len(plan.entries) = Len(compiled.texts))

(* The arguments of each operation *)
Arguments ==
    \/ call = NoCall /\ phase = "idle"
    \/ call.op = "readTyped" /\ \E t \in Texts : call.texts = <<t>>
    \/ call.op = "writeTyped" /\ \E t \in Texts, v \in Formed : call.texts = <<t>> /\ call.values = <<v>>
    \/ call.op = "readNamed"
    \/ call.op = "writeNamed" /\ \E k \in Nat :
            call.texts \in [1 .. k -> ListTexts] /\ call.values \in [1 .. k -> Formed]
    \/ call.op = "readOnce" /\ call.plan = plan
    \/ call.op = "readPlan"

CallSound ==
    /\ profile \in Profiles \cup {"none"}
    /\ phase \in {"idle", "called", "sent", "served"}
    /\ call \in [op : Ops, texts : Seq(CallTexts), values : Seq(Formed), plan : Plan]
    /\ PlanSound(call.plan)
    /\ call.op = "readNamed" => call.texts \in Lists(MaxNames)
    /\ Arguments

(* What the caller's Value or Snapshot holds while a call goes on: what it  *)
(* held before, until readNamed clears it to send its request.              *)
OutSound ==
    /\ phase # "idle" /\ call.op \notin Reading => out = <<>>
    /\ phase = "called" \/ (Begun /\ call.op = "readTyped") => out = held
    /\ Begun /\ call.op \in SnapshotReads => out = <<>>

(* The request that readTyped or writeTyped has sent.  For a bit inside a   *)
(* word it is first the read of the word, then the write of what came back, *)
(* with the bit changed.                                                    *)
TypedSound ==
    Begun /\ call.op \in {"readTyped", "writeTyped"} =>
        LET text == call.texts[1]
            spec == SpecOf(text, profile)
            dev == [code |-> spec.code, number |-> spec.number]
        IN
        /\ Specified(profile) /\ parseAddressSpec(text, profile) = "Ok"
        /\ call.op = "readTyped" => request = AddressRequest(spec)
        /\ call.op = "writeTyped" => spec.type = call.values[1].type
        /\ call.op = "writeTyped" /\ text.type # "dot" =>
                request = TypedWrite(spec, call.values[1])
        /\ SettingBit =>
             \/ request = Direct("words", dev)
             \/ request = WriteRequest("directWrite", "words", <<dev>>,
                    <<WithBit(reply.words[1], text.bit, call.values[1].bits[1])>>)

(* The request that a call with a list of names or a plan has sent.  The    *)
(* checks it passed still hold: nothing can change what they looked at.     *)
ListSound ==
    Begun /\ call.op \in SnapshotReads \cup {"writeNamed"} =>
        /\ call.op = "writeNamed" =>
             /\ NamedWriteVerdict = "Ok"
             /\ request = NamedWrite([i \in DOMAIN call.texts |-> SpecOf(call.texts[i], profile)],
                                     call.values)
        /\ call.op \in SnapshotReads =>
             PlanValid(call.plan) /\ request = Random(call.plan.words, call.plan.dwords)
        /\ call.op = "readNamed" =>
             Heads(call.plan, call.texts) /\ Len(call.plan.entries) = Len(call.texts)

(* Between the two requests of the write of a bit, and unless the PLC       *)
(* changed it, the client has the word as it is.                            *)
BitSound ==
    SettingBit /\ ~disturbed /\ Taken = "sampled" =>
        reply.words[1] = Sample(mem, WordCells(request.devices.words[1]))

(* SnapshotWhole says nothing of a call that goes on, and PollIsOfLastCompile *)
(* nothing of a compilation that a poll has not used: the parts before them   *)
(* are what the request, the plan and the list have in common until then.     *)
AccessInv ==
    /\ PollerSound /\ CallSound /\ OutSound /\ TypedSound /\ ListSound /\ BitSound
    /\ SnapshotWhole /\ PollIsOfLastCompile

LEMMA ListIs ==
  ASSUME NEW m \in Nat, NEW texts \in Lists(m)
  PROVE  texts \in Seq(ListTexts) /\ \E k \in Nat : texts \in [1 .. k -> ListTexts]
<1>1. PICK k \in 0 .. m : texts \in [1 .. k -> ListTexts]
  BY DEF Lists
<1> QED
  BY <1>1

LEMMA EmptyPlanSound == EmptyPlan \in Plan /\ PlanSound(EmptyPlan)
<1>1. <<>> \in Seq(Entry) /\ <<>> \in Seq(Device)
  OBVIOUS
<1>2. EmptyPlan \in Plan
  BY <1>1 DEF EmptyPlan, Plan
<1>3. EmptyPlan.entries = <<>> /\ Len(<<>>) = 0
  BY DEF EmptyPlan
<1> QED
  BY <1>2, <1>3 DEF PlanSound

(* However an application takes a plan apart, its entries stay sound. *)
LEMMA HandMadeSound ==
  ASSUME NEW q, PlanSound(q), NEW h \in HandMade(q)
  PROVE  PlanSound(h)
<1>1. q \in Plan /\ q.words \in Seq(Device) /\ q.dwords \in Seq(Device)
  BY DEF PlanSound, Plan
<1>2. q.words # <<>> => Tail(q.words) \in Seq(Device)
  BY <1>1
<1>3. q.words \o q.words \in Seq(Device) /\ <<>> \in Seq(Device)
  BY <1>1
<1>4. h \in Plan /\ h.entries = q.entries /\ h.profile = q.profile
  <2>1. CASE h = [q EXCEPT !.words = IF @ = <<>> THEN @ ELSE Tail(@)]
    BY <1>1, <1>2, <2>1 DEF Plan
  <2>2. CASE h = [q EXCEPT !.words = q.words \o q.words]
    BY <1>1, <1>3, <2>2 DEF Plan
  <2>3. CASE h = [q EXCEPT !.dwords = <<>>]
    BY <1>1, <1>3, <2>3 DEF Plan
  <2> QED
    BY <2>1, <2>2, <2>3 DEF HandMade
<1> QED
  BY <1>4 DEF PlanSound

LEMMA PollerStep ==
  ASSUME AccessInv, [Next]_vars
  PROVE  PollerSound'
<1>1. ASSUME NEW texts \in Lists(MaxPolled), NEW p \in Profiles \cup {"none"}, Compile(texts, p)
      PROVE  PollerSound'
  <2> DEFINE c == compileReadPlan(texts, p)
  <2>1. CASE Specified(p)
    <3>1. texts \in Seq(ListTexts) /\ \E k \in Nat : texts \in [1 .. k -> ListTexts]
      BY AccessAssumption, ListIs
    <3>2. p \in Profiles
      BY <2>1 DEF Specified
    <3>3. PlanSound(c.plan) /\ Heads(c.plan, texts)
          /\ (c.err = "Ok" <=> Len(c.plan.entries) = Len(texts))
      BY <3>1, <3>2, CompileIs
    <3> HIDE DEF c
    <3>4. plan' = c.plan /\ compiled' = [texts |-> texts, ok |-> c.err = "Ok"]
      BY <1>1, <2>1 DEF Compile, c
    <3> QED
      BY <3>1, <3>3, <3>4 DEF PollerSound
  <2>2. CASE ~Specified(p)
    BY <1>1, <2>2 DEF Compile, AccessInv, PollerSound
  <2> QED
    BY <2>1, <2>2
<1>2. CASE UNCHANGED <<plan, compiled>>
  BY <1>2 DEF AccessInv, PollerSound
<1> QED
  BY <1>1, <1>2 DEF Next, vars, CallsWithNames, CallsWithPlans, Call, Statements, ReadTyped,
     WriteTyped, ReadNamed, ReadPlan, WriteNamed, Finishes, FinishSnapshot, FinishTyped, FinishWrite,
     WriteBack, setPlcProfile, Forget, Serve, RequestFails, PlcChanges, PlcRestores, Untouched

(* What a statement, or the end of a call, leaves of the variables *)
LEMMA StatementKeeps ==
  ASSUME ReadTyped \/ WriteTyped \/ ReadPlan \/ WriteNamed
  PROVE  /\ UNCHANGED <<profile, plan, compiled, call, mem, changes, disturbed>>
         /\ phase = "called" /\ phase' \in {"idle", "sent"} /\ (phase' = "sent" => reply' = reply)
BY DEF ReadTyped, WriteTyped, ReadPlan, WriteNamed, ReadPlanned, Send, Return, Untouched

LEMMA FinishKeeps ==
  ASSUME Finishes
  PROVE  /\ UNCHANGED <<profile, plan, compiled, call, mem, changes, disturbed>>
         /\ phase = "served" /\ phase' \in {"idle", "sent"} /\ (phase' = "sent" => WriteBack)
BY DEF Finishes, FinishSnapshot, FinishTyped, FinishWrite, WriteBack, Return, Send, Untouched

LEMMA CallSame ==
  ASSUME CallSound, UNCHANGED <<profile, call, plan>>,
         phase' \in {"idle", "called", "sent", "served"}, phase = "idle" => phase' = "idle"
  PROVE  CallSound'
BY DEF CallSound, Arguments

LEMMA CallStep ==
  ASSUME AccessInv, [Next]_vars
  PROVE  CallSound'
<1> USE DEF AccessInv
<1>1. CASE CallsWithNames
  <2>0. EmptyPlan \in Plan /\ PlanSound(EmptyPlan) /\ PlanSound(EmptyPlan)'
    BY EmptyPlanSound DEF PlanSound, EmptyPlan, Compiled
  <2>1. CASE \E t \in Texts : Call("readTyped", <<t>>, <<>>, EmptyPlan)
    <3>1. PICK t \in Texts : Call("readTyped", <<t>>, <<>>, EmptyPlan)
      BY <2>1
    <3>2. <<t>> \in Seq(CallTexts) /\ <<>> \in Seq(Formed)
      BY DEF CallTexts
    <3> QED
      BY <2>0, <3>1, <3>2 DEF CallSound, Call, Arguments, Ops
  <2>2. CASE \E t \in Texts, v \in Formed : Call("writeTyped", <<t>>, <<v>>, EmptyPlan)
    <3>1. PICK t \in Texts, v \in Formed : Call("writeTyped", <<t>>, <<v>>, EmptyPlan)
      BY <2>2
    <3>2. <<t>> \in Seq(CallTexts) /\ <<v>> \in Seq(Formed)
      BY DEF CallTexts
    <3> QED
      BY <2>0, <3>1, <3>2 DEF CallSound, Call, Arguments, Ops
  <2>3. CASE \E ts \in Lists(MaxNames) : Call("readNamed", ts, <<>>, EmptyPlan)
    <3>1. PICK ts \in Lists(MaxNames) : Call("readNamed", ts, <<>>, EmptyPlan)
      BY <2>3
    <3>2. ts \in Seq(CallTexts) /\ <<>> \in Seq(Formed)
      BY AccessAssumption, ListIs DEF CallTexts
    <3> QED
      BY <2>0, <3>1, <3>2 DEF CallSound, Call, Arguments, Ops
  <2>4. CASE \E u \in Updates : Call("writeNamed", u[1], u[2], EmptyPlan)
    <3>1. PICK u \in Updates : Call("writeNamed", u[1], u[2], EmptyPlan)
      BY <2>4
    <3>2. PICK k \in 0 .. 2 : u \in [1 .. k -> ListTexts] \X [1 .. k -> Formed]
      BY DEF Updates
    <3>3. u[1] \in [1 .. k -> ListTexts] /\ u[2] \in [1 .. k -> Formed] /\ k \in Nat
      BY <3>2
    <3>4. u[1] \in Seq(CallTexts) /\ u[2] \in Seq(Formed)
      BY <3>3 DEF CallTexts
    <3> QED
      BY <2>0, <3>1, <3>3, <3>4 DEF CallSound, Call, Arguments, Ops
  <2> QED
    BY <1>1, <2>1, <2>2, <2>3, <2>4 DEF CallsWithNames
<1>2. CASE CallsWithPlans
  <2>1. <<>> \in Seq(CallTexts) /\ <<>> \in Seq(Formed)
    OBVIOUS
  <2>2. PlanSound(plan) /\ plan \in Plan
    BY DEF PollerSound, PlanSound
  <2>3. CASE Call("readOnce", <<>>, <<>>, plan)
    BY <2>1, <2>2, <2>3 DEF CallSound, Call, Arguments, Ops
  <2>4. CASE \E p \in HandMade(plan) : Call("readPlan", <<>>, <<>>, p)
    <3>1. PICK p \in HandMade(plan) : Call("readPlan", <<>>, <<>>, p)
      BY <2>4
    <3>2. PlanSound(p) /\ p \in Plan
      BY <2>2, HandMadeSound DEF PlanSound
    <3>3. call'.plan = p
      BY <3>1 DEF Call
    <3> HIDE DEF PlanSound
    <3> QED
      BY <2>1, <3>1, <3>2, <3>3 DEF CallSound, Call, Arguments, Ops
  <2> QED
    BY <1>2, <2>3, <2>4 DEF CallsWithPlans
<1>3. CASE ReadNamed
  <2> DEFINE c == compileReadPlan(call.texts, profile)
  <2>1. CASE ~Specified(profile) \/ c.err # "Ok"
    <3>1. UNCHANGED <<profile, plan, call>> /\ phase' = "idle"
      BY <1>3, <2>1 DEF ReadNamed, Return, Untouched
    <3> QED
      BY <3>1, CallSame
  <2>2. CASE Specified(profile) /\ c.err = "Ok"
    <3>1. call.op = "readNamed" /\ call.texts \in Lists(MaxNames) /\ profile \in Profiles
      BY <1>3, <2>2 DEF ReadNamed, CallSound, Specified
    <3>2. PlanSound(c.plan)
      BY <3>1, AccessAssumption, ListIs, CompileIs
    <3> HIDE DEF c
    <3>3. /\ call' = [call EXCEPT !.plan = c.plan] /\ UNCHANGED <<profile, plan>>
          /\ phase' \in {"idle", "sent"} /\ phase = "called"
      BY <1>3, <2>2 DEF ReadNamed, ReadPlanned, Send, Return, Untouched, c
    <3>4. /\ call'.op = "readNamed" /\ call'.texts = call.texts /\ call'.plan = c.plan
          /\ call' \in [op : Ops, texts : Seq(CallTexts), values : Seq(Formed), plan : Plan]
      BY <3>1, <3>2, <3>3 DEF CallSound, PlanSound
    <3> QED
      BY <3>1, <3>2, <3>3, <3>4 DEF CallSound, Arguments
  <2> QED
    BY <2>1, <2>2
<1>4. CASE ReadTyped \/ WriteTyped \/ ReadPlan \/ WriteNamed
  BY <1>4, StatementKeeps, CallSame
<1>5. CASE Finishes
  BY <1>5, FinishKeeps, CallSame
<1>6. CASE \E ts \in Lists(MaxPolled), p \in Profiles \cup {"none"} : Compile(ts, p)
  BY <1>6 DEF Compile, CallSound, Arguments, NoCall
<1>7. CASE \E p \in Profiles : setPlcProfile(p)
  BY <1>7 DEF setPlcProfile, CallSound, Arguments
<1>8. CASE Forget
  <2>1. NoCall \in [op : Ops, texts : Seq(CallTexts), values : Seq(Formed), plan : Plan]
    BY EmptyPlanSound DEF NoCall, Ops
  <2>2. NoCall.plan = EmptyPlan /\ NoCall.op = "none"
    BY DEF NoCall
  <2>3. PlanSound(call.plan)'
    BY <1>8, <2>2, EmptyPlanSound DEF Forget
  <2> QED
    BY <1>8, <2>1, <2>2, <2>3 DEF Forget, CallSound, Arguments
<1>9. CASE Serve \/ RequestFails \/ (\E c \in Volatile : PlcChanges(c)) \/ PlcRestores
           \/ UNCHANGED vars
  <2>1. /\ UNCHANGED <<profile, call, plan>> /\ phase' \in {phase, "served", "idle"}
        /\ phase = "idle" => phase' = "idle"
    BY <1>9 DEF Serve, RequestFails, PlcChanges, PlcRestores, vars, Return
  <2> QED
    BY <2>1, CallSame DEF CallSound
<1> QED
  BY <1>1, <1>2, <1>3, <1>4, <1>5, <1>6, <1>7, <1>8, <1>9 DEF Next, Statements

(* The caller's snapshot changes with a successful end, and when readNamed   *)
(* clears it.                                                               *)
LEMMA OutStep ==
  ASSUME AccessInv, [Next]_vars
  PROVE  OutSound'
<1> USE DEF AccessInv, Begun
<1>1. CASE CallsWithNames \/ CallsWithPlans
  <2>1. ASSUME NEW op, NEW texts, NEW values, NEW q, Call(op, texts, values, q)
        PROVE  OutSound'
    BY <2>1 DEF Call, OutSound
  <2> QED
    BY <1>1, <2>1 DEF CallsWithNames, CallsWithPlans
<1>2. CASE ReadTyped \/ WriteTyped \/ WriteNamed
  <2>1. /\ UNCHANGED <<call, out, held>> /\ phase = "called" /\ phase' \in {"idle", "sent"}
        /\ call.op \in {"readTyped", "writeTyped", "writeNamed"}
    BY <1>2 DEF ReadTyped, WriteTyped, WriteNamed, Send, Return
  <2> QED
    BY <2>1 DEF OutSound, Reading, SnapshotReads
<1>3. CASE ReadPlan \/ ReadNamed
  <2>1. /\ call'.op = call.op /\ call.op \in SnapshotReads /\ phase' \in {"idle", "sent"}
        /\ phase' = "sent" => out' = <<>>
    BY <1>3 DEF ReadPlan, ReadNamed, ReadPlanned, Send, Return, SnapshotReads, CallSound
  <2> QED
    BY <2>1 DEF OutSound, Reading, SnapshotReads
<1>4. CASE Finishes
  <2>1. phase' # "idle" => SettingBit /\ UNCHANGED <<call, out, held>> /\ phase = "served"
                           /\ phase' = "sent"
    BY <1>4 DEF Finishes, FinishSnapshot, FinishTyped, FinishWrite, WriteBack, Send, Return
  <2> QED
    BY <2>1 DEF OutSound, SettingBit, Reading, SnapshotReads
<1>5. CASE RequestFails \/ Forget
  BY <1>5 DEF RequestFails, Forget, Return, OutSound
<1>6. CASE Serve
  BY <1>6 DEF Serve, OutSound
<1>7. CASE UNCHANGED <<call, phase, out, held>>
  BY <1>7 DEF OutSound
<1> QED
  BY <1>1, <1>2, <1>3, <1>4, <1>5, <1>6, <1>7 DEF Next, vars, Statements, Compile, setPlcProfile,
     PlcChanges, PlcRestores

(* The text of a typed call is one of Texts. *)
LEMMA TypedText ==
  ASSUME CallSound, call.op \in {"readTyped", "writeTyped"}
  PROVE  call.texts[1] \in CallTexts /\ call # NoCall
BY DEF CallSound, Arguments, CallTexts, NoCall

(* What is a bit inside a word, in the text and in the address *)
LEMMA DotIsBit ==
  ASSUME NEW t \in CallTexts, NEW p, parseAddressSpec(t, p) = "Ok"
  PROVE  /\ SpecOf(t, p).bit = t.bit
         /\ (t.type = "dot") <=> (t.bit >= 0)
         /\ t.type = "dot" => t.bit \in Bits /\ t.bit + 1 \in 1 .. WordBits /\ ~bit_unit(t.code)
BY Accepted, NameAssumption DEF Bits, Types

(* The steps that leave a request sent, and those that send one *)
LEMMA BegunStep ==
  ASSUME [Next]_vars, Begun'
  PROVE  \/ Statements
         \/ WriteBack
         \/ Serve
         \/ /\ UNCHANGED <<profile, plan, call, phase, request, reply>>
            /\ UNCHANGED vars \/ \E c \in Volatile : PlcChanges(c)
BY DEF Begun, Next, vars, CallsWithNames, CallsWithPlans, Call, Finishes, FinishSnapshot, FinishTyped,
   FinishWrite, Return, Compile, setPlcProfile, Forget, RequestFails, PlcChanges, PlcRestores

LEMMA TypedStep ==
  ASSUME AccessInv, [Next]_vars
  PROVE  TypedSound'
<1> USE DEF AccessInv
<1> SUFFICES ASSUME Begun', call'.op \in {"readTyped", "writeTyped"} PROVE TypedSound'
  BY DEF TypedSound
<1>1. CASE Statements
  <2>1. CASE ReadTyped
    <3>1. /\ call.op = "readTyped" /\ UNCHANGED <<call, profile>> /\ Specified(profile)
          /\ parseAddressSpec(call.texts[1], profile) = "Ok"
          /\ request' = AddressRequest(SpecOf(call.texts[1], profile))
      BY <2>1 DEF ReadTyped, Send, Return, Untouched, Begun
    <3> QED
      BY <3>1 DEF TypedSound, SettingBit
  <2>2. CASE WriteTyped
    <3> DEFINE text == call.texts[1]  spec == SpecOf(text, profile)
               dev == [code |-> spec.code, number |-> spec.number]
    <3>1. /\ call.op = "writeTyped" /\ UNCHANGED <<call, profile>> /\ Specified(profile)
          /\ parseAddressSpec(text, profile) = "Ok" /\ spec.type = call.values[1].type
          /\ request' = IF spec.bit >= 0 THEN Direct("words", dev)
                        ELSE TypedWrite(spec, call.values[1])
      BY <2>2 DEF WriteTyped, Send, Return, Untouched, Begun
    <3>2. spec.bit >= 0 <=> text.type = "dot"
      BY <3>1, TypedText, DotIsBit
    <3> HIDE DEF text, spec, dev
    <3>3. /\ text.type # "dot" => request' = TypedWrite(spec, call.values[1])
          /\ text.type = "dot" => request' = Direct("words", dev)
      BY <3>1, <3>2
    <3> QED
      BY <3>1, <3>3 DEF TypedSound, SettingBit, text, spec, dev
  <2>3. CASE ReadNamed \/ ReadPlan \/ WriteNamed
    BY <2>3 DEF ReadNamed, ReadPlan, WriteNamed, CallSound
  <2> QED
    BY <1>1, <2>1, <2>2, <2>3 DEF Statements
<1>2. CASE WriteBack
  <2> DEFINE text == call.texts[1]  spec == SpecOf(text, profile)
             dev == [code |-> spec.code, number |-> spec.number]
             word == <<WithBit(reply.words[1], text.bit, call.values[1].bits[1])>>
  <2>1. /\ Begun /\ SettingBit /\ ~IsWrite(request) /\ UNCHANGED <<call, profile, reply>>
        /\ request' = WriteRequest("directWrite", "words", request.devices.words, word)
    BY <1>2 DEF WriteBack, Begun, Send, Return, Untouched
  <2>2. /\ Specified(profile) /\ parseAddressSpec(text, profile) = "Ok"
        /\ spec.type = call.values[1].type
        /\ \/ request = Direct("words", dev)
           \/ request = WriteRequest("directWrite", "words", <<dev>>, word)
    BY <2>1 DEF TypedSound, SettingBit
  <2> HIDE DEF dev, word
  <2>3. request = Direct("words", dev)
    BY <2>1, <2>2 DEF IsWrite, WriteRequest
  <2>4. request.devices.words = <<dev>>
    BY <2>3, UnitsOfOne DEF Direct, OneWord
  <2>5. request' = WriteRequest("directWrite", "words", <<dev>>, word)
    BY <2>1, <2>4
  <2> USE DEF dev, word
  <2> QED
    BY <2>1, <2>2, <2>5 DEF TypedSound, SettingBit
<1>3. CASE Serve
  <2>1. Begun /\ UNCHANGED <<call, profile, request>> /\ (IsWrite(request) => reply' = reply)
    BY <1>3 DEF Serve, Begun
  <2>2. \A dev, word : request = WriteRequest("directWrite", "words", <<dev>>, <<word>>)
          => IsWrite(request)
    BY DEF IsWrite, WriteRequest
  <2>3. SettingBit' <=> SettingBit
    BY <2>1 DEF SettingBit
  <2> QED
    BY <2>1, <2>2, <2>3 DEF TypedSound
<1>4. CASE UNCHANGED <<profile, plan, call, phase, request, reply>>
  BY <1>4 DEF TypedSound, SettingBit, Begun
<1> QED
  BY <1>1, <1>2, <1>3, <1>4, BegunStep

LEMMA ListStep ==
  ASSUME AccessInv, [Next]_vars
  PROVE  ListSound'
<1> USE DEF AccessInv
<1> SUFFICES ASSUME Begun', call'.op \in SnapshotReads \cup {"writeNamed"} PROVE ListSound'
  BY DEF ListSound
<1>1. CASE Statements
  <2>1. CASE ReadTyped \/ WriteTyped
    BY <2>1 DEF ReadTyped, WriteTyped, SnapshotReads
  <2>2. CASE WriteNamed
    <3>1. /\ call.op = "writeNamed" /\ UNCHANGED <<call, profile>> /\ NamedWriteVerdict = "Ok"
          /\ request' = NamedWrite([i \in DOMAIN call.texts |-> SpecOf(call.texts[i], profile)],
                                   call.values)
      BY <2>2 DEF WriteNamed, Send, Return, Untouched, Begun
    <3>2. NamedWriteVerdict' = "Ok"
      BY <3>1 DEF NamedWriteVerdict
    <3> QED
      BY <3>1, <3>2 DEF ListSound, SnapshotReads
  <2>3. CASE ReadPlan
    <3>1. /\ call.op \in {"readOnce", "readPlan"} /\ UNCHANGED <<call, profile>> /\ PlanValid(call.plan)
          /\ request' = Random(call.plan.words, call.plan.dwords)
      BY <2>3 DEF ReadPlan, ReadPlanned, Send, Return, Untouched, Begun
    <3>2. PlanValid(call.plan)'
      BY <3>1 DEF PlanValid
    <3> QED
      BY <3>1, <3>2 DEF ListSound
  <2>4. CASE ReadNamed
    <3> DEFINE c == compileReadPlan(call.texts, profile)
    <3>1. /\ call.op = "readNamed" /\ profile' = profile /\ call' = [call EXCEPT !.plan = c.plan]
          /\ Specified(profile) /\ c.err = "Ok" /\ PlanValid(c.plan)
          /\ request' = Random(c.plan.words, c.plan.dwords)
      BY <2>4 DEF ReadNamed, ReadPlanned, Send, Return, Untouched, Begun
    <3>2. Heads(c.plan, call.texts) /\ Len(c.plan.entries) = Len(call.texts)
      BY <3>1, AccessAssumption, ListIs, CompileIs DEF CallSound, Specified
    <3> HIDE DEF c
    <3>3. call'.op = "readNamed" /\ call'.texts = call.texts /\ call'.plan = c.plan
      BY <3>1 DEF CallSound
    <3>4. PlanValid(call.plan)'
      BY <3>1, <3>3 DEF PlanValid
    <3> QED
      BY <3>1, <3>2, <3>3, <3>4 DEF ListSound
  <2> QED
    BY <1>1, <2>1, <2>2, <2>3, <2>4 DEF Statements
<1>2. CASE WriteBack
  BY <1>2 DEF WriteBack, SettingBit, SnapshotReads
<1>3. CASE UNCHANGED <<profile, call, request>> /\ Begun
  <2>1. NamedWriteVerdict' = NamedWriteVerdict /\ PlanValid(call.plan)' = PlanValid(call.plan)
    BY <1>3 DEF NamedWriteVerdict, PlanValid
  <2> QED
    BY <1>3, <2>1 DEF ListSound
<1>4. CASE Serve
  BY <1>3, <1>4 DEF Serve, Begun
<1>5. CASE UNCHANGED <<profile, plan, call, phase, request, reply>>
  BY <1>3, <1>5 DEF Begun
<1> QED
  BY <1>1, <1>2, <1>4, <1>5, BegunStep

(* When the write of a bit is between its two requests *)
LEMMA SampledWhen ==
  ASSUME CallSound, SettingBit
  PROVE  Taken = "sampled" <=> \/ phase = "sent" /\ IsWrite(request)
                               \/ phase = "served" /\ ~IsWrite(request)
<1>1. CASE phase \in {"idle", "called"}
  BY <1>1 DEF Taken
<1>2. CASE phase = "sent"
  BY <1>2 DEF Taken
<1>3. CASE phase = "served"
  BY <1>3 DEF Taken
<1> QED
  BY <1>1, <1>2, <1>3 DEF CallSound

(* The cells of a word that the PLC leaves alone read as before. *)
LEMMA SampleUntouched ==
  ASSUME NEW dev, NEW c, c \notin {WordCells(dev)[i] : i \in 1 .. WordBits},
         mem' = IF c \in mem THEN mem \ {c} ELSE mem \cup {c}
  PROVE  Sample(mem', WordCells(dev)) = Sample(mem, WordCells(dev))
<1>1. DOMAIN WordCells(dev) = 1 .. WordBits
  BY CellsOfWord
<1>2. \A i \in 1 .. WordBits : WordCells(dev)[i] # c
  OBVIOUS
<1>3. \A i \in 1 .. WordBits : (WordCells(dev)[i] \in mem') <=> (WordCells(dev)[i] \in mem)
  BY <1>2
<1>4. \A i \in 1 .. WordBits : (WordCells(dev)[i] \in mem') = (WordCells(dev)[i] \in mem)
  BY <1>3
<1> QED
  BY <1>1, <1>4 DEF Sample

LEMMA BitStep ==
  ASSUME AccessInv, [Next]_vars
  PROVE  BitSound'
<1> USE DEF AccessInv
<1> SUFFICES ASSUME SettingBit', ~disturbed', Taken' = "sampled"
             PROVE  reply'.words[1] = Sample(mem', WordCells(request'.devices.words[1]))
  BY DEF BitSound
<1>1. \/ phase' = "sent" /\ IsWrite(request')
      \/ phase' = "served" /\ ~IsWrite(request')
  <2>1. CASE phase' \in {"idle", "called"}
    BY <2>1 DEF Taken
  <2>2. CASE phase' = "sent"
    BY <2>2 DEF Taken, IsWrite
  <2>3. CASE phase' = "served"
    BY <2>3 DEF Taken, IsWrite
  <2> QED
    BY <2>1, <2>2, <2>3, CallStep DEF CallSound
<1>2. Begun' /\ call'.op = "writeTyped"
  BY <1>1 DEF Begun, SettingBit
<1>3. CASE Statements
  <2>1. CASE WriteTyped
    <3> DEFINE text == call.texts[1]  spec == SpecOf(text, profile)
               dev == [code |-> spec.code, number |-> spec.number]
    <3>1. text.type = "dot" /\ phase' = "sent" /\ call' = call
      BY <1>2, <2>1, StatementKeeps DEF SettingBit, Begun
    <3>2. parseAddressSpec(text, profile) = "Ok" /\ call.op = "writeTyped"
      BY <2>1, <3>1 DEF WriteTyped, Return
    <3>3. spec.bit >= 0
      BY <3>1, <3>2, TypedText, DotIsBit
    <3>4. request' = Direct("words", dev)
      BY <2>1, <3>1, <3>3 DEF WriteTyped, Send, Return
    <3> QED
      BY <1>1, <3>1, <3>4 DEF Direct, IsWrite
  <2>2. CASE ReadTyped \/ ReadNamed \/ ReadPlan \/ WriteNamed
    BY <1>2, <2>2 DEF ReadTyped, ReadNamed, ReadPlan, WriteNamed, CallSound
  <2> QED
    BY <1>3, <2>1, <2>2 DEF Statements
<1>4. CASE WriteBack
  <2>1. /\ SettingBit /\ phase = "served" /\ ~IsWrite(request) /\ UNCHANGED <<mem, disturbed>>
        /\ reply' = reply /\ request'.devices.words = request.devices.words
    <3>1. /\ SettingBit /\ phase = "served" /\ ~IsWrite(request) /\ UNCHANGED <<mem, disturbed>>
          /\ reply' = reply
          /\ request' = WriteRequest("directWrite", "words", request.devices.words,
                          <<WithBit(reply.words[1], call.texts[1].bit, call.values[1].bits[1])>>)
      BY <1>2, <1>4 DEF WriteBack, Send, Return, Untouched, Begun
    <3>2. \A devs : [NoUnits EXCEPT !["words"] = devs].words = devs
      BY DEF NoUnits
    <3> QED
      BY <3>1, <3>2 DEF WriteRequest
  <2> QED
    BY <2>1, SampledWhen DEF BitSound
<1>5. CASE Serve
  <2> DEFINE spec == SpecOf(call.texts[1], profile)
             dev == [code |-> spec.code, number |-> spec.number]
  <2>1. Begun /\ phase' = "served" /\ UNCHANGED <<call, profile, request>> /\ ~IsWrite(request)
    BY <1>1, <1>5 DEF Serve, Begun
  <2>2. SettingBit
    BY <2>1 DEF SettingBit
  <2>3. request = Direct("words", dev)
    BY <2>1, <2>2 DEF TypedSound, SettingBit, IsWrite, WriteRequest
  <2> HIDE DEF dev
  <2>4. request.devices = OneWord(dev)
    BY <2>3, UnitsOfOne DEF Direct
  <2>5. mem' = mem /\ reply' = Answer(request.devices)
    BY <1>5, <2>1 DEF Serve, Answer
  <2>6. request'.devices.words[1] = dev
    BY <2>1, <2>4 DEF OneWord
  <2> QED
    BY <2>4, <2>5, <2>6, AnswerToOne
<1>6. CASE UNCHANGED vars
  BY <1>1, <1>6, SampledWhen DEF vars, BitSound, SettingBit
<1>7. CASE \E c \in Volatile : PlcChanges(c)
  <2>1. PICK c \in Volatile : PlcChanges(c)
    BY <1>7
  <2>2. UNCHANGED <<call, phase, request, reply>>
    BY <2>1 DEF PlcChanges
  <2>3. SettingBit /\ (phase = "served" \/ IsWrite(request)) /\ Taken = "sampled"
    BY <1>1, <2>2, SampledWhen DEF SettingBit
  <2>4. ~disturbed /\ c \notin {WordCells(request.devices.words[1])[i] : i \in 1 .. WordBits}
    BY <2>1, <2>3 DEF PlcChanges
  <2>5. mem' = IF c \in mem THEN mem \ {c} ELSE mem \cup {c}
    BY <2>1 DEF PlcChanges
  <2>6. Sample(mem', WordCells(request.devices.words[1]))
          = Sample(mem, WordCells(request.devices.words[1]))
    BY <2>4, <2>5, SampleUntouched
  <2> QED
    BY <2>2, <2>3, <2>4, <2>6 DEF BitSound
<1> QED
  BY <1>2, <1>3, <1>4, <1>5, <1>6, <1>7, BegunStep

(* A snapshot that ends as it should: its request had a device for every    *)
(* entry, so none of them is lost.                                          *)
LEMMA SnapshotEnds ==
  ASSUME AccessInv, FinishSnapshot
  PROVE  /\ result' = "Ok" /\ call.plan.entries # <<>>
         /\ Names(out') = [i \in DOMAIN call.plan.entries |-> call.plan.entries[i].text]
         /\ out' = [i \in 1 .. Len(call.plan.entries) |->
                      [text |-> call.plan.entries[i].text, bits |-> EntryValue(call.plan.entries[i])]]
<1> DEFINE entries == call.plan.entries
           lost == {i \in DOMAIN entries : entries[i].kind \in {"None", "LongTimer"} \/ ~Found(entries[i])}
           filled == {n \in 0 .. Len(entries) : \A i \in 1 .. n : i \notin lost}
           last == CHOOSE n \in filled : \A m \in filled : m <= n
<1>1. entries \in Seq(Entry)
  BY DEF AccessInv, CallSound, Plan
<1>2. PlanValid(call.plan) /\ request = Random(call.plan.words, call.plan.dwords)
  BY DEF AccessInv, ListSound, FinishSnapshot, Begun
<1>3. request.devices.words = call.plan.words /\ request.devices.dwords = call.plan.dwords
  BY <1>2 DEF Random
<1>4. lost = {}
  BY <1>2, <1>3 DEF PlanValid, Found
<1> HIDE DEF lost
<1>5. Len(entries) \in Nat /\ DOMAIN entries = 1 .. Len(entries)
  BY <1>1
<1>6. filled = 0 .. Len(entries)
  BY <1>4
<1>7. last = Len(entries)
  <2> HIDE DEF entries, filled
  <2>1. Len(entries) \in filled /\ \A m \in filled : m <= Len(entries)
    BY <1>5, <1>6
  <2>2. \A n \in filled : (\A m \in filled : m <= n) => n = Len(entries)
    <3> SUFFICES ASSUME NEW k \in filled, \A m \in filled : m <= k
                 PROVE  k = Len(entries)
      OBVIOUS
    <3>1. k \in 0 .. Len(entries) /\ Len(entries) <= k
      BY <1>6, <2>1
    <3>2. \A a \in Nat : \A b \in 0 .. a : a <= b => b = a
      OBVIOUS
    <3> QED
      BY <1>5, <3>1, <3>2
  <2> QED
    BY <2>1, <2>2
<1>8. /\ out' = [i \in 1 .. last |-> [text |-> entries[i].text, bits |-> EntryValue(entries[i])]]
      /\ result' = "Ok"
  BY <1>4 DEF FinishSnapshot, Return, lost
<1> HIDE DEF last
<1>9. out' = [i \in 1 .. Len(entries) |-> [text |-> entries[i].text, bits |-> EntryValue(entries[i])]]
  BY <1>7, <1>8
<1>10. Names(out') = [i \in 1 .. Len(entries) |-> entries[i].text]
  BY <1>9 DEF Names
<1>11. entries # <<>>
  BY <1>2 DEF PlanValid
<1> QED
  BY <1>5, <1>8, <1>9, <1>10, <1>11

(* Which operations send a write *)
LEMMA WritesOnly ==
  ASSUME AccessInv, Begun
  PROVE  /\ call.op \in Reading => ~IsWrite(request) /\ ~SettingBit
         /\ call.op \in {"readTyped", "readNamed", "readOnce", "readPlan", "writeTyped", "writeNamed"}
         /\ call.op = "writeNamed" => IsWrite(request) /\ ~SettingBit
         /\ call.op = "writeTyped" /\ ~SettingBit => IsWrite(request)
<1>1. call.op \in {"readTyped", "readNamed", "readOnce", "readPlan", "writeTyped", "writeNamed"}
  BY DEF AccessInv, CallSound, Arguments, Ops, Begun, NoCall
<1>2. \A unit, dev : ~IsWrite(Direct(unit, dev))
  BY DEF IsWrite, Direct
<1>3. \A n : ~IsWrite(LongTimer(n))
  BY DEF IsWrite, LongTimer
<1>4. \A u, v : ~IsWrite(Random(u, v))
  BY DEF IsWrite, Random
<1>5. \A spec : ~IsWrite(AddressRequest(spec))
  BY <1>2, <1>3, <1>4 DEF AddressRequest
<1>6. \A specs, values : IsWrite(NamedWrite(specs, values))
  BY DEF IsWrite, NamedWrite
<1>7. \A unit, devs, vals : \A form \in {"directWrite", "randomWrite"} :
        IsWrite(WriteRequest(form, unit, devs, vals))
  BY DEF IsWrite, WriteRequest
<1>8. \A spec, v : IsWrite(TypedWrite(spec, v))
  BY <1>7 DEF TypedWrite
<1>9. call.op \in Reading => ~IsWrite(request) /\ ~SettingBit
  BY <1>4, <1>5 DEF AccessInv, TypedSound, ListSound, Reading, SnapshotReads, SettingBit
<1>10. call.op = "writeNamed" => IsWrite(request) /\ ~SettingBit
  BY <1>6 DEF AccessInv, ListSound, SettingBit
<1>11. call.op = "writeTyped" /\ ~SettingBit => IsWrite(request)
  BY <1>8 DEF AccessInv, TypedSound, SettingBit
<1> QED
  BY <1>1, <1>9, <1>10, <1>11

(* What a refusal is not *)
LEMMA Refused ==
  /\ \A r : ClientVerdict(r) \in {"Ok", "InvalidArgument", "UnsupportedDevice"}
  /\ \A t, p : parseAddressSpec(t, p) # "RequestError"
BY DEF ClientVerdict, parseAddressSpec, parseDeviceOnly

(* What a read that fails leaves to the caller *)
FailureLeaves ==
    /\ call.op = "readTyped" => out = held
    /\ call.op # "readTyped" => out \in {<<>>, held}
    /\ call.op # "readTyped" /\ result = "RequestError" => out = <<>>

(* The ways a read comes to its end *)
LEMMA EndedStep ==
  ASSUME AccessInv, [Next]_vars, Ended', call'.op \in Reading
  PROVE  \/ FinishSnapshot
         \/ FinishTyped
         \/ result' # "Ok" /\ FailureLeaves'
         \/ Ended /\ UNCHANGED <<plan, compiled, call, result, out, held>>
<1> USE DEF AccessInv, Ended, Reading
<1>1. CASE CallsWithNames \/ CallsWithPlans
  BY <1>1 DEF CallsWithNames, CallsWithPlans, Call
<1>2. CASE Statements
  <2>1. phase = "called" /\ out = held
    BY <1>2 DEF OutSound, Statements, ReadTyped, WriteTyped, ReadNamed, ReadPlan, WriteNamed
  <2>2. CASE WriteTyped \/ WriteNamed
    BY <2>2 DEF WriteTyped, WriteNamed
  <2>3. CASE ReadTyped
    <3>1. UNCHANGED <<out, held, call>> /\ call.op = "readTyped"
      BY <2>3 DEF ReadTyped
    <3>2. result' # "Ok"
      BY <2>3, Refused DEF ReadTyped, Send, Return
    <3> QED
      BY <2>1, <3>1, <3>2 DEF FailureLeaves
  <2>4. CASE ReadPlan
    <3>1. /\ held' = held /\ out' \in {<<>>, out} /\ call' = call /\ call.op # "readTyped"
          /\ result' \notin {"Ok", "RequestError"}
      BY <2>4, Refused DEF ReadPlan, ReadPlanned, Send, Return
    <3> QED
      BY <2>1, <3>1 DEF FailureLeaves
  <2>5. CASE ReadNamed
    <3>1. held' = held /\ out' \in {<<>>, out} /\ call'.op = call.op /\ call.op # "readTyped"
      BY <2>5 DEF ReadNamed, ReadPlanned, CallSound
    <3>2. result' \notin {"Ok", "RequestError"}
      <4> DEFINE c == compileReadPlan(call.texts, profile)
      <4>1. Specified(profile) => c.err \in {"Ok"} \cup Refusals
        <5> SUFFICES ASSUME Specified(profile) PROVE c.err \in {"Ok"} \cup Refusals
          OBVIOUS
        <5>1. call.texts \in Lists(MaxNames) /\ profile \in Profiles
          BY <2>5 DEF ReadNamed, CallSound, Specified
        <5> QED
          BY <5>1, AccessAssumption, ListIs, CompileIs
      <4> HIDE DEF c
      <4>2. \/ result' = "InvalidArgument"
            \/ Specified(profile) /\ c.err # "Ok" /\ result' = c.err
            \/ \E r : ClientVerdict(r) # "Ok" /\ result' = ClientVerdict(r)
        BY <2>5 DEF ReadNamed, ReadPlanned, Send, Return, c
      <4> QED
        BY <4>1, <4>2, Refused DEF Refusals
    <3> QED
      BY <2>1, <3>1, <3>2 DEF FailureLeaves
  <2> QED
    BY <1>2, <2>2, <2>3, <2>4, <2>5 DEF Statements
<1>3. CASE Finishes
  <2>1. CASE WriteBack
    BY <2>1 DEF WriteBack, SettingBit
  <2>2. CASE FinishWrite
    <3>1. call.op \in Reading /\ Begun
      BY <2>2 DEF FinishWrite, Begun
    <3>2. ~IsWrite(request)
      BY <3>1, WritesOnly
    <3> QED
      BY <2>2, <3>2 DEF FinishWrite
  <2> QED
    BY <1>3, <2>1, <2>2 DEF Finishes
<1>4. CASE RequestFails
  <2>1. Begun /\ UNCHANGED <<call, out, held>> /\ result' = "RequestError"
    BY <1>4 DEF RequestFails, Return, Begun
  <2>2. /\ call.op = "readTyped" => out = held
        /\ call.op # "readTyped" => out = <<>>
    BY <2>1 DEF OutSound, SnapshotReads
  <2> QED
    BY <2>1, <2>2 DEF FailureLeaves
<1>5. CASE Forget \/ (\E ts \in Lists(MaxPolled), p \in Profiles \cup {"none"} : Compile(ts, p))
           \/ (\E p \in Profiles : setPlcProfile(p))
  BY <1>5 DEF Forget, Compile, setPlcProfile
<1>6. CASE Serve \/ \E c \in Volatile : PlcChanges(c)
  BY <1>6 DEF Serve, PlcChanges
<1>7. CASE PlcRestores \/ UNCHANGED vars
  BY <1>7 DEF PlcRestores, vars
<1> QED
  BY <1>1, <1>2, <1>3, <1>4, <1>5, <1>6, <1>7 DEF Next

LEMMA WholeStep ==
  ASSUME AccessInv, [Next]_vars
  PROVE  SnapshotWhole'
<1> SUFFICES ASSUME Ended', call'.op \in Reading
             PROVE  IF result' = "Ok" THEN Names(out') = Asked'
                    ELSE IF call'.op = "readTyped" THEN out' = held'
                    ELSE IF result' = "RequestError" THEN out' = <<>>
                    ELSE out' \in {<<>>, held'}
  BY DEF SnapshotWhole
<1>1. CASE FinishSnapshot
  <2>1. /\ result' = "Ok" /\ call' = call
        /\ Names(out') = [i \in DOMAIN call.plan.entries |-> call.plan.entries[i].text]
    BY <1>1, SnapshotEnds DEF FinishSnapshot
  <2>2. CASE call.op \in {"readOnce", "readPlan"}
    BY <2>1, <2>2 DEF Asked
  <2>3. CASE call.op = "readNamed"
    <3>1. Heads(call.plan, call.texts) /\ Len(call.plan.entries) = Len(call.texts)
      BY <1>1, <2>3 DEF AccessInv, ListSound, FinishSnapshot, Begun
    <3>2. call.plan.entries \in Seq(Entry) /\ call.texts \in Seq(CallTexts)
      BY DEF AccessInv, CallSound, Plan
    <3>3. Names(out') = call.texts
      BY <2>1, <3>1, <3>2 DEF Heads
    <3> QED
      BY <2>1, <2>3, <3>3 DEF Asked
  <2> QED
    BY <1>1, <2>1, <2>2, <2>3 DEF FinishSnapshot, SnapshotReads
<1>2. CASE FinishTyped
  <2>1. /\ call.op = "readTyped" /\ phase = "served" /\ call' = call /\ result' = "Ok"
        /\ out' = <<[text |-> call.texts[1],
                     bits |-> AddressValue(SpecOf(call.texts[1], profile), reply)]>>
    BY <1>2 DEF FinishTyped, Return
  <2>2. \E t \in Texts : call.texts = <<t>>
    BY <2>1 DEF AccessInv, CallSound, Arguments, NoCall
  <2>3. Names(out') = <<call.texts[1]>> /\ <<call.texts[1]>> = call.texts
    BY <2>1, <2>2 DEF Names
  <2> QED
    BY <2>1, <2>3 DEF Asked
<1>3. CASE result' # "Ok" /\ FailureLeaves'
  BY <1>3 DEF FailureLeaves
<1>4. CASE Ended /\ UNCHANGED <<plan, compiled, call, result, out, held>>
  BY <1>4 DEF AccessInv, SnapshotWhole, Asked, Names
<1> QED
  BY <1>1, <1>2, <1>3, <1>4, EndedStep

LEMMA PollStep ==
  ASSUME AccessInv, [Next]_vars
  PROVE  PollIsOfLastCompile'
<1> SUFFICES ASSUME Ended', call'.op = "readOnce", result' = "Ok"
             PROVE  /\ Len(out') <= Len(compiled'.texts)
                    /\ compiled'.ok <=> Len(out') = Len(compiled'.texts)
                    /\ Names(out') = [i \in 1 .. Len(out') |-> compiled'.texts[i]]
  BY DEF PollIsOfLastCompile
<1>1. CASE FinishSnapshot
  <2> DEFINE entries == call.plan.entries
  <2>1. /\ UNCHANGED <<call, plan, compiled>> /\ entries # <<>>
        /\ Names(out') = [i \in DOMAIN entries |-> entries[i].text]
        /\ out' = [i \in 1 .. Len(entries) |-> [text |-> entries[i].text, bits |-> EntryValue(entries[i])]]
    BY <1>1, SnapshotEnds DEF FinishSnapshot, Untouched
  <2>2. call.plan = plan
    BY <2>1 DEF AccessInv, CallSound, Arguments, NoCall
  <2>3. /\ Heads(plan, compiled.texts) /\ entries \in Seq(Entry)
        /\ compiled.ok <=> Len(entries) = Len(compiled.texts)
    BY <2>1, <2>2 DEF AccessInv, PollerSound, PlanSound, Plan
  <2> HIDE DEF entries
  <2>4. Len(out') = Len(entries)
    BY <2>1, <2>3
  <2>5. DOMAIN entries = 1 .. Len(entries)
    BY <2>3
  <2>6. /\ Len(entries) <= Len(compiled.texts)
        /\ \A i \in 1 .. Len(entries) : entries[i].text = compiled.texts[i]
    BY <2>2, <2>3 DEF Heads, entries
  <2> QED
    BY <2>1, <2>3, <2>4, <2>5, <2>6
<1>2. CASE Ended /\ UNCHANGED <<plan, compiled, call, result, out, held>>
  BY <1>2 DEF AccessInv, PollIsOfLastCompile, Names
<1>3. CASE FinishTyped
  BY <1>3 DEF FinishTyped
<1> QED
  BY <1>1, <1>2, <1>3, EndedStep DEF Reading

LEMMA AccessInit ==
  ASSUME Init
  PROVE  AccessInv
<1>1. plan = EmptyPlan /\ compiled = [texts |-> <<>>, ok |-> FALSE] /\ PlanSound(plan)
  BY EmptyPlanSound DEF Init
<1>2. plan.entries = <<>>
  BY <1>1 DEF EmptyPlan
<1>3. PollerSound
  BY <1>1, <1>2 DEF PollerSound, Heads
<1>4. NoCall \in [op : Ops, texts : Seq(CallTexts), values : Seq(Formed), plan : Plan]
      /\ NoCall.plan = EmptyPlan /\ NoCall.op = "none"
  BY EmptyPlanSound DEF NoCall, Ops
<1>5. CallSound
  BY <1>4, EmptyPlanSound DEF Init, CallSound, Arguments
<1>6. OutSound /\ TypedSound /\ ListSound /\ SnapshotWhole /\ PollIsOfLastCompile
  BY DEF Init, OutSound, TypedSound, ListSound, SnapshotWhole, PollIsOfLastCompile, Begun, Ended
<1>7. BitSound
  BY <1>4 DEF Init, BitSound, SettingBit
<1> QED
  BY <1>3, <1>5, <1>6, <1>7 DEF AccessInv

LEMMA AccessNext ==
  ASSUME AccessInv, [Next]_vars
  PROVE  AccessInv'
BY PollerStep, CallStep, OutStep, TypedStep, ListStep, BitStep, WholeStep, PollStep DEF AccessInv

LEMMA AccessAlways == Spec => []AccessInv
<1>1. Init => AccessInv
  BY AccessInit
<1>2. AccessInv /\ [Next]_vars => AccessInv'
  BY AccessNext
<1> QED
  BY <1>1, <1>2, PTL DEF Spec

(* A read that succeeds fills the caller's snapshot with every name asked   *)
(* for, and a read that fails leaves it empty or as it was: for lists of    *)
(* any length, plans of any content, any failures and anything the caller   *)
(* had in it before.                                                        *)
THEOREM SnapshotsWhole == Spec => []SnapshotWhole
<1>1. AccessInv => SnapshotWhole
  BY DEF AccessInv
<1> QED
  BY <1>1, AccessAlways, PTL

(* A poll that succeeds returns the names of the latest Poller::compile that *)
(* was given a profile, up to the first it did not accept; one without a    *)
(* profile changes nothing.                                                 *)
THEOREM PollsCurrent == Spec => []PollIsOfLastCompile
<1>1. AccessInv => PollIsOfLastCompile
  BY DEF AccessInv
<1> QED
  BY <1>1, AccessAlways, PTL

-----------------------------------------------------------------------------
(* The normal form of an address *)

(* One more digit *)
LEMMA NumberOfAppend ==
  ASSUME NEW digits \in Seq(Nat), NEW d \in Nat, NEW radix \in Nat
  PROVE  NumberOf(Append(digits, d), radix) = (NumberOf(digits, radix) * radix + d) % NumberRange
<1> DEFINE longer == Append(digits, d)
           k == Len(digits)
<1>1. /\ longer \in Seq(Nat) /\ k \in Nat /\ Len(longer) = k + 1
      /\ longer[k + 1] = d /\ \A n \in 1 .. k : longer[n] = digits[n]
  OBVIOUS
<1>2. PICK f : Reads(f, digits, radix) /\ NumberOf(digits, radix) = f[k]
  BY NumberIs
<1> HIDE DEF longer
<1>3. PICK g : Reads(g, longer, radix) /\ NumberOf(longer, radix) = g[k + 1]
  BY <1>1, NumberIs
<1> HIDE DEF k
<1> DEFINE S == {m \in 0 .. k : f[m] = g[m]}
<1>4. 0 \in S
  BY <1>1, <1>2, <1>3 DEF Reads
<1>5. ASSUME NEW n \in 1 .. k, n - 1 \in S PROVE n \in S
  <2>1. f[n - 1] = g[n - 1] /\ n \in 0 .. k /\ n \in 1 .. k + 1
    BY <1>1, <1>5
  <2>2. f[n] = (f[n - 1] * radix + digits[n]) % NumberRange
    BY <1>2, <1>5 DEF Reads, k
  <2>3. g[n] = (g[n - 1] * radix + longer[n]) % NumberRange
    BY <1>1, <1>3, <2>1 DEF Reads
  <2> QED
    BY <1>1, <1>5, <2>1, <2>2, <2>3
<1> HIDE DEF S
<1>6. k \in S
  <2>1. \A n \in 0 .. k : n \in S
    BY <1>1, <1>4, <1>5, FiniteInduction
  <2> QED
    BY <1>1, <2>1
<1>7. f[k] = g[k]
  BY <1>6 DEF S
<1>8. k + 1 \in 1 .. Len(longer) /\ (k + 1) - 1 = k
  BY <1>1
<1>9. g[k + 1] = (g[k] * radix + longer[k + 1]) % NumberRange
  BY <1>3, <1>8 DEF Reads
<1> QED
  BY <1>1, <1>2, <1>3, <1>7, <1>9 DEF longer

LEMMA NumberOfOne ==
  ASSUME NEW d \in Nat, d < NumberRange, NEW radix \in Nat
  PROVE  NumberOf(<<d>>, radix) = d
<1>1. PICK f : Reads(f, <<d>>, radix) /\ NumberOf(<<d>>, radix) = f[Len(<<d>>)]
  <2>1. <<d>> \in Seq(Nat)
    OBVIOUS
  <2> QED
    BY <2>1, NumberIs
<1>2. f[1] = (f[0] * radix + d) % NumberRange /\ f[0] = 0
  BY <1>1 DEF Reads
<1>3. f[0] * radix + d = d
  BY <1>2
<1>4. \A a \in Nat : a < NumberRange => a % NumberRange = a
  BY NameAssumption
<1> QED
  BY <1>1, <1>2, <1>3, <1>4

(* Division by a radix *)
LEMMA Divided ==
  ASSUME NEW n \in Nat, NEW radix \in Nat \ {0, 1}, n >= radix
  PROVE  /\ n \div radix \in 0 .. n - 1 /\ n % radix \in 0 .. radix - 1
         /\ (n \div radix) * radix + (n % radix) = n
<1> DEFINE q == n \div radix
           r == n % radix
<1>1. q \in Int /\ r \in 0 .. radix - 1
  OBVIOUS
<1>2. radix * q + r = n
  OBVIOUS
<1>3. radix * q = q * radix
  BY <1>1
<1> HIDE DEF q, r
<1>4. q >= 0
  <2> SUFFICES ASSUME q <= -1 PROVE FALSE
    BY <1>1
  <2>1. radix * q <= radix * (-1)
    BY <1>1
  <2> QED
    BY <1>1, <1>2, <2>1
<1>5. q < n
  <2> SUFFICES ASSUME q >= n PROVE FALSE
    BY <1>1
  <2>1. radix * q >= 2 * q
    BY <1>1, <1>4
  <2> QED
    BY <1>1, <1>2, <2>1
<1>6. q * radix + r = n
  BY <1>1, <1>2, <1>3
<1>7. q \in 0 .. n - 1
  BY <1>1, <1>4, <1>5
<1> QED
  BY <1>1, <1>6, <1>7 DEF q, r

(* What appendUnsignedText makes of each number up to the one it writes *)
Writes(text, number, radix) ==
    text = [n \in 0 .. number |->
               IF n < radix THEN <<n>> ELSE Append(text[n \div radix], n % radix)]

LEMMA DigitsAre ==
  ASSUME NEW number \in Nat, NEW radix \in Nat \ {0, 1}
  PROVE  \E text : Writes(text, number, radix) /\ DigitsOf(number, radix) = text[number]
<1> DEFINE Tables == [0 .. number -> Seq(Nat)]
           Last(t, n) == IF n < radix THEN <<n>> ELSE Append(t[n \div radix], n % radix)
           step == [n \in 1 .. number |-> [t \in Tables |-> [t EXCEPT ![n] = Last(t, n)]]]
           a == [n \in 0 .. number |-> <<0>>]
<1>1. a \in Tables
  OBVIOUS
<1>2. ASSUME NEW n \in 0 .. number, n >= radix
      PROVE  n \div radix \in 0 .. n - 1 /\ n % radix \in Nat
  <2>1. n \in Nat
    OBVIOUS
  <2>2. n \div radix \in 0 .. n - 1 /\ n % radix \in 0 .. radix - 1
    BY ONLY <1>2, <2>1, radix \in Nat \ {0, 1}, Divided
  <2> QED
    BY <2>2
<1>3. ASSUME NEW n \in 0 .. number, NEW t \in Tables PROVE Last(t, n) \in Seq(Nat)
  <2>1. CASE n < radix
    BY <2>1
  <2>2. CASE n >= radix
    <3> DEFINE q == n \div radix
    <3>4. q \in 0 .. n - 1 /\ n % radix \in Nat
      BY <1>2, <2>2
    <3> HIDE DEF q
    <3>5. q \in 0 .. number
      BY <3>4
    <3>1. n \div radix \in 0 .. number /\ n % radix \in Nat
      BY <3>4, <3>5 DEF q
    <3>2. t[n \div radix] \in Seq(Nat)
      BY <3>1
    <3>3. Append(t[n \div radix], n % radix) \in Seq(Nat)
      BY <3>1, <3>2
    <3> QED
      BY <2>2, <3>3
  <2> QED
    BY <2>1, <2>2
<1> HIDE DEF Last
<1>4. \A n \in 1 .. number, t \in Tables : [t EXCEPT ![n] = Last(t, n)] \in Tables
  BY <1>3
<1>5. step \in Steps(number, Tables)
  BY <1>4 DEF Steps
<1> HIDE DEF step, a, Tables
<1>6. PICK F \in [0 .. number -> Tables] : Unfolds(F, number, a, step)
  BY <1>1, <1>5, FiniteRecursion
<1>7. F[0] = a
  BY <1>6 DEF Unfolds
<1>8. \A n \in 1 .. number : F[n] = [F[n - 1] EXCEPT ![n] = Last(F[n - 1], n)]
  <2> TAKE n \in 1 .. number
  <2>1. F[n] = step[n][F[n - 1]] /\ F[n - 1] \in Tables
    BY <1>6 DEF Unfolds
  <2> QED
    BY <2>1 DEF step
<1> DEFINE S == {m \in 0 .. number : \A j \in 0 .. m : F[m][j] = Last(F[m], j)}
<1>9. 0 \in S
  <2>1. Last(F[0], 0) = <<0>>
    BY DEF Last
  <2>2. F[0][0] = <<0>>
    BY <1>7 DEF a
  <2> QED
    BY <2>1, <2>2
<1>10. ASSUME NEW m \in 1 .. number, m - 1 \in S PROVE m \in S
  <2>1. F[m - 1] \in Tables /\ F[m] \in Tables
    BY <1>6
  <2>2. F[m] = [F[m - 1] EXCEPT ![m] = Last(F[m - 1], m)]
    BY <1>8
  <2>7. DOMAIN F[m - 1] = 0 .. number /\ m \in 0 .. number
    BY <2>1 DEF Tables
  <2>3. F[m][m] = Last(F[m - 1], m) /\ \A j \in 0 .. m - 1 : F[m][j] = F[m - 1][j]
    BY <2>2, <2>7
  <2>4. \A j \in 0 .. m : Last(F[m], j) = Last(F[m - 1], j)
    <3> TAKE j \in 0 .. m
    <3>1. CASE j < radix
      BY <3>1 DEF Last
    <3>2. CASE j >= radix
      <4> DEFINE q == j \div radix
      <4>1. j \in 0 .. number
        OBVIOUS
      <4>2. q \in 0 .. j - 1
        BY <1>2, <3>2, <4>1
      <4> HIDE DEF q
      <4>3. q \in 0 .. m - 1
        BY <4>2
      <4>4. F[m][q] = F[m - 1][q]
        BY <2>3, <4>3
      <4> QED
        BY <4>4 DEF Last, q
    <3> QED
      BY <3>1, <3>2
  <2>5. \A j \in 0 .. m - 1 : F[m - 1][j] = Last(F[m - 1], j)
    BY <1>10
  <2>6. \A j \in 0 .. m : F[m][j] = Last(F[m], j)
    BY <2>3, <2>4, <2>5
  <2> QED
    BY <2>6
<1> HIDE DEF S
<1>11. number \in S
  <2>1. \A n \in 0 .. number : n \in S
    BY <1>9, <1>10, FiniteInduction
  <2> QED
    BY <2>1
<1>12. \A j \in 0 .. number : F[number][j] = Last(F[number], j)
  BY <1>11 DEF S
<1>13. F[number] = [n \in 0 .. number |-> Last(F[number], n)]
  <2>1. F[number] \in Tables
    BY <1>6
  <2> QED
    BY <1>12, <2>1 DEF Tables
<1>14. Writes(F[number], number, radix)
  BY <1>13 DEF Writes, Last
<1> DEFINE text == CHOOSE t : Writes(t, number, radix)
<1>15. Writes(text, number, radix)
  BY <1>14
<1>16. DigitsOf(number, radix) = text[number]
  BY DEF DigitsOf, Writes
<1> QED
  BY <1>15, <1>16

(* The digits appendUnsignedText writes are valid, and parseUnsignedNumber  *)
(* reads the same number from them.                                         *)
LEMMA DigitsReadBack ==
  ASSUME NEW number \in Nat, number < NumberRange, NEW radix \in Nat \ {0, 1}
  PROVE  LET digits == DigitsOf(number, radix) IN
           digits \in Seq(Nat) /\ DigitsValid(digits, radix) /\ NumberOf(digits, radix) = number
<1> DEFINE Right(digits, n) ==
             digits \in Seq(Nat) /\ DigitsValid(digits, radix) /\ NumberOf(digits, radix) = n
<1>1. PICK text : Writes(text, number, radix) /\ DigitsOf(number, radix) = text[number]
  BY DigitsAre
<1>2. \A n \in 0 .. number :
        text[n] = IF n < radix THEN <<n>> ELSE Append(text[n \div radix], n % radix)
  BY <1>1 DEF Writes
<1> DEFINE S == {n \in 0 .. number : Right(text[n], n)}
<1>3. ASSUME NEW n \in 0 .. number, \A m \in 0 .. n - 1 : m \in S PROVE n \in S
  <2>1. n \in Nat /\ n < NumberRange
    BY NameAssumption
  <2>2. CASE n < radix
    <3>1. text[n] = <<n>>
      BY <1>2, <2>2
    <3>2. <<n>> \in Seq(Nat) /\ DigitsValid(<<n>>, radix)
      BY <2>2 DEF DigitsValid
    <3>3. NumberOf(<<n>>, radix) = n
      BY <2>1, NumberOfOne
    <3> QED
      BY <3>1, <3>2, <3>3
  <2>3. CASE n >= radix
    <3> DEFINE q == n \div radix
               d == n % radix
    <3>1. q \in 0 .. n - 1 /\ d \in 0 .. radix - 1 /\ q * radix + d = n
      BY ONLY <2>1, <2>3, radix \in Nat \ {0, 1}, Divided
    <3>2. text[n] = Append(text[q], d)
      <4>1. ~(n < radix)
        BY <2>1, <2>3
      <4> QED
        BY <1>2, <4>1
    <3> HIDE DEF q, d
    <3>3. Right(text[q], q)
      BY <1>3, <3>1
    <3>4. Append(text[q], d) \in Seq(Nat)
      BY <3>1, <3>3
    <3>5. DigitsValid(Append(text[q], d), radix)
      BY <3>1, <3>3, <3>4, SMTT(40) DEF DigitsValid
    <3>6. NumberOf(Append(text[q], d), radix) = (q * radix + d) % NumberRange
      BY <3>1, <3>3, NumberOfAppend
    <3>7. \A b \in Nat : b < NumberRange => b % NumberRange = b
      BY NameAssumption
    <3>8. NumberOf(Append(text[q], d), radix) = n
      BY <2>1, <3>1, <3>6, <3>7
    <3> QED
      BY <3>2, <3>4, <3>5, <3>8
  <2> QED
    BY <2>2, <2>3
<1> HIDE DEF S
<1>4. \A n \in 0 .. number : n \in S
  BY <1>3, StrongInduction
<1>5. number \in S
  BY <1>4
<1> QED
  BY <1>1, <1>5 DEF S

(* The normal form of an accepted text *)
LEMMA NormalIs ==
  ASSUME NEW t \in Texts, NEW p, parseAddressSpec(t, p) = "Ok"
  PROVE  LET normal == normalizeAddress(t, p) IN
           /\ normal = [t EXCEPT !.digits = normal.digits]
           /\ normal.digits = DigitsOf(NumberIn(t, p), effectiveDeviceRadix(t.code, p))
           /\ DigitsValid(normal.digits, effectiveDeviceRadix(t.code, p))
           /\ NumberIn(normal, p) = NumberIn(t, p)
<1> DEFINE radix == effectiveDeviceRadix(t.code, p)
           number == NumberIn(t, p)
           normal == normalizeAddress(t, p)
<1>1. t \in Text
  BY AccessAssumption
<1>2. radix \in Nat \ {0, 1}
  BY NameAssumption DEF effectiveDeviceRadix
<1>3. number \in Nat /\ number < NumberRange
  BY <1>1, <1>2, NumberIsNat DEF NumberIn, Text
<1>4. normal = [t EXCEPT !.digits = DigitsOf(number, radix)]
  BY DEF normalizeAddress
<1>5. normal.code = t.code /\ normal.digits = DigitsOf(number, radix)
  BY <1>1, <1>4 DEF Text
<1> HIDE DEF radix, number, normal
<1>6. DigitsValid(normal.digits, radix) /\ NumberOf(normal.digits, radix) = number
  BY <1>2, <1>3, <1>5, DigitsReadBack
<1>7. NumberIn(normal, p) = number
  BY <1>5, <1>6 DEF NumberIn, radix
<1> QED
  BY <1>4, <1>5, <1>6, <1>7 DEF radix, number, normal

(* The normal form of an address is accepted again and names the same       *)
(* cells, and two spellings of one address have one normal form.            *)
THEOREM NormalForms == Spec => []NormalFormMeansSame
<1>1. ASSUME NEW t \in Texts, NEW p, parseAddressSpec(t, p) = "Ok"
      PROVE  /\ parseAddressSpec(normalizeAddress(t, p), p) = "Ok"
             /\ Denotes(normalizeAddress(t, p), p) = Denotes(t, p)
  <2> DEFINE normal == normalizeAddress(t, p)
  <2>1. t \in Text
    BY AccessAssumption
  <2>2. normal = [t EXCEPT !.digits = normal.digits]
    BY <1>1, NormalIs
  <2>3. DigitsValid(normal.digits, effectiveDeviceRadix(t.code, p)) /\ NumberIn(normal, p) = NumberIn(t, p)
    BY <1>1, NormalIs
  <2> HIDE DEF normal
  <2>4. normal.code = t.code /\ normal.type = t.type /\ normal.bit = t.bit
    BY <2>1, <2>2 DEF Text
  <2>5. parseAddressSpec(normal, p) = "Ok"
    <3>1. parseDeviceOnly(t, p) = "Ok" => parseDeviceOnly(normal, p) = "Ok"
      BY <2>3, <2>4 DEF parseDeviceOnly
    <3> QED
      BY <1>1, <2>4, <3>1 DEF parseAddressSpec
  <2>6. Denotes(normal, p) = Denotes(t, p)
    BY <2>3, <2>4 DEF Denotes
  <2> QED
    BY <2>5, <2>6 DEF normal
<1>2. ASSUME NEW t \in Texts, NEW u \in Texts, NEW p, SpecOf(t, p) = SpecOf(u, p),
             parseAddressSpec(t, p) = "Ok", parseAddressSpec(u, p) = "Ok"
      PROVE  normalizeAddress(t, p) = normalizeAddress(u, p)
  <2>1. t \in Text /\ u \in Text
    BY AccessAssumption
  <2>2. t.code = u.code /\ t.bit = u.bit /\ NumberIn(t, p) = NumberIn(u, p)
    BY <1>2 DEF SpecOf
  <2>3. (IF t.type = "dot" THEN "BIT" ELSE t.type) = (IF u.type = "dot" THEN "BIT" ELSE u.type)
    BY <1>2 DEF SpecOf
  <2>4. t.type = u.type
    <3>1. \A v \in {t, u} : (v.type = "dot" /\ v.bit \in Bits) \/ (v.type # "dot" /\ v.bit = -1)
      BY <1>2, Accepted DEF CallTexts, Types
    <3>2. -1 \notin Bits
      BY DEF Bits
    <3> QED
      BY <2>2, <2>3, <3>1, <3>2
  <2>5. \A v \in {t, u} : normalizeAddress(v, p) =
          [code |-> v.code, digits |-> DigitsOf(NumberIn(v, p), effectiveDeviceRadix(v.code, p)),
           type |-> v.type, bit |-> v.bit]
    BY <2>1 DEF normalizeAddress, Text
  <2> QED
    BY <2>2, <2>4, <2>5
<1>3. NormalFormMeansSame
  BY <1>1, <1>2 DEF NormalFormMeansSame
<1> QED
  BY <1>3, PTL

-----------------------------------------------------------------------------
(* The write of one bit *)

LEMMA StoreOne ==
  ASSUME NEW m, NEW w, NEW bits
  PROVE  Store(m, <<w>>, <<bits>>) =
           {c \in m : \A j \in DOMAIN w : w[j] # c} \cup {w[j] : j \in {k \in DOMAIN w : bits[k]}}
<1>1. DOMAIN <<w>> = {1}
  OBVIOUS
<1>2. UNION {{<<w>>[i][j] : j \in {k \in DOMAIN <<w>>[i] : <<bits>>[i][k]}} : i \in {1}}
        = {w[j] : j \in {k \in DOMAIN w : bits[k]}}
  OBVIOUS
<1>3. {c \in m : \A i \in {1} : \A j \in DOMAIN <<w>>[i] : <<w>>[i][j] # c}
        = {c \in m : \A j \in DOMAIN w : w[j] # c}
  OBVIOUS
<1> QED
  BY <1>1, <1>2, <1>3 DEF Store

(* A word stored as it was read, but for one bit, stores that bit. *)
LEMMA StoreBit ==
  ASSUME NEW m, NEW n \in Nat, NEW w, DOMAIN w = 1 .. n, NEW k \in 1 .. n,
         \A i \in 1 .. n : i # k => w[i] # w[k],
         NEW v \in BOOLEAN
  PROVE  Store(m, <<w>>, <<[Sample(m, w) EXCEPT ![k] = v]>>) = Store(m, <<<<w[k]>>>>, <<<<v>>>>)
<1> DEFINE stored == [Sample(m, w) EXCEPT ![k] = v]
           one == <<w[k]>>
           Old(x) == {c \in m : \A j \in DOMAIN x : x[j] # c}
           New(x, b) == {x[j] : j \in {i \in DOMAIN x : b[i]}}
<1>0. \A x, b : Store(m, <<x>>, <<b>>) = Old(x) \cup New(x, b)
  BY StoreOne, ZenonT(40)
<1>1. Store(m, <<w>>, <<stored>>) = Old(w) \cup New(w, stored)
  <2> HIDE DEF stored, Old, New
  <2> QED
    BY <1>0
<1>2. Store(m, <<one>>, <<<<v>>>>) = Old(one) \cup New(one, <<v>>)
  <2> HIDE DEF one, Old, New
  <2> QED
    BY <1>0
<1>3. DOMAIN one = {1} /\ one[1] = w[k] /\ <<v>>[1] = v
  OBVIOUS
<1>4. stored[k] = v
  BY DEF Sample
<1>5. \A i \in 1 .. n : i # k => stored[i] = (w[i] \in m)
  BY DEF Sample
<1> HIDE DEF stored, one
<1>6. Old(one) = {c \in m : c # w[k]}
  BY <1>3
<1>7. New(one, <<v>>) = IF v THEN {w[k]} ELSE {}
  BY <1>3
<1>8. New(w, stored) = {w[i] : i \in {j \in 1 .. n : j # k /\ w[j] \in m}} \cup (IF v THEN {w[k]} ELSE {})
  <2>1. \A j \in 1 .. n : stored[j] <=> IF j = k THEN v ELSE w[j] \in m
    BY <1>4, <1>5
  <2>2. {j \in 1 .. n : stored[j]} = {j \in 1 .. n : IF j = k THEN v ELSE w[j] \in m}
    BY <2>1
  <2> QED
    BY <2>2
<1>9. Old(w) \cup {w[i] : i \in {j \in 1 .. n : j # k /\ w[j] \in m}} = {c \in m : c # w[k]}
  OBVIOUS
<1> HIDE DEF Old, New
<1> QED
  BY <1>1, <1>2, <1>6, <1>7, <1>8, <1>9 DEF stored, one

LEMMA FormedBit ==
  ASSUME NEW v \in Formed, v.type = "BIT"
  PROVE  v.bits[1] \in BOOLEAN /\ v.bits = <<v.bits[1]>>
<1>1. v.bits \in {[i \in 1 .. 1 |-> TRUE], [i \in 1 .. 1 |-> i = 1]}
  BY DEF Formed, BitsFor, WidthOf, valueTypeUsesDword
<1>2. DOMAIN v.bits = 1 .. 1 /\ v.bits[1] \in BOOLEAN /\ v.bits = [i \in 1 .. 1 |-> v.bits[i]]
  <2>1. CASE v.bits = [i \in 1 .. 1 |-> TRUE]
    BY <2>1
  <2>2. CASE v.bits = [i \in 1 .. 1 |-> i = 1]
    BY <2>2
  <2> QED
    BY <1>1, <2>1, <2>2
<1>3. <<v.bits[1]>> = [i \in 1 .. 1 |-> v.bits[i]]
  OBVIOUS
<1> QED
  BY <1>2, <1>3

(* The two requests of the write of a bit *)
LEMMA BitWritten ==
  ASSUME AccessInv, Begun, SettingBit,
         NEW dev, dev = [code |-> call.texts[1].code, number |-> NumberIn(call.texts[1], profile)]
  PROVE  /\ call.texts[1].bit + 1 \in 1 .. WordBits /\ ~bit_unit(dev.code)
         /\ call.values[1].bits[1] \in BOOLEAN /\ call.values[1].bits = <<call.values[1].bits[1]>>
         /\ Denotes(call.texts[1], profile) = <<WordCells(dev)[call.texts[1].bit + 1]>>
         /\ request.devices = OneWord(dev)
         /\ IsWrite(request) =>
              request.values = [words |-> <<WithBit(reply.words[1], call.texts[1].bit,
                                                    call.values[1].bits[1])>>,
                                dwords |-> <<>>, bits |-> <<>>]
<1> DEFINE text == call.texts[1]  spec == SpecOf(text, profile)
           word == WithBit(reply.words[1], text.bit, call.values[1].bits[1])
<1>1. /\ parseAddressSpec(text, profile) = "Ok" /\ spec.type = call.values[1].type
      /\ \/ request = Direct("words", [code |-> spec.code, number |-> spec.number])
         \/ request = WriteRequest("directWrite", "words",
                        <<[code |-> spec.code, number |-> spec.number]>>, <<word>>)
  BY DEF AccessInv, TypedSound, SettingBit
<1>2. text \in CallTexts /\ text.type = "dot"
  BY TypedText DEF AccessInv, SettingBit
<1>3. text.bit \in Bits /\ text.bit + 1 \in 1 .. WordBits /\ ~bit_unit(text.code)
  BY <1>1, <1>2, DotIsBit
<1>4. spec.code = text.code /\ spec.number = NumberIn(text, profile) /\ spec.type = "BIT"
  BY <1>2 DEF SpecOf
<1>5. [code |-> spec.code, number |-> spec.number] = dev
  BY <1>4
<1>6. \E v \in Formed : call.values = <<v>>
  BY DEF AccessInv, CallSound, Arguments, SettingBit, NoCall
<1>7. call.values[1] \in Formed /\ call.values[1].type = "BIT"
  BY <1>1, <1>4, <1>6
<1>8. call.values[1].bits[1] \in BOOLEAN /\ call.values[1].bits = <<call.values[1].bits[1]>>
  BY <1>7, FormedBit
<1>9. Denotes(text, profile) = <<WordCells(dev)[text.bit + 1]>>
  <2>1. (text.bit + 1) - 1 = text.bit
    BY <1>3 DEF Bits
  <2>2. WordCells(dev)[text.bit + 1] = Cell(dev.code, dev.number, text.bit)
    <3>1. dev.code = text.code
      OBVIOUS
    <3>2. ~bit_unit(dev.code)
      BY <1>3, <3>1
    <3>3. WordCells(dev)[text.bit + 1] = Cell(dev.code, dev.number, (text.bit + 1) - 1)
      <4> HIDE DEF text
      <4> QED
        BY <1>3, <3>2, CellsOfWord
    <3> QED
      BY <2>1, <3>3
  <2> QED
    BY <1>2, <2>2 DEF Denotes, valueTypeUsesDword
<1> HIDE DEF word
<1>10. CASE request = Direct("words", dev)
  BY <1>3, <1>8, <1>9, <1>10, UnitsOfOne DEF Direct, IsWrite
<1>11. CASE request = WriteRequest("directWrite", "words", <<dev>>, <<word>>)
  <2>1. request.values = OneWord(word) /\ request.devices = OneWord(dev)
    BY <1>11, UnitsOfOne DEF WriteRequest
  <2> QED
    BY <1>3, <1>8, <1>9, <2>1 DEF OneWord, word
<1> QED
  BY <1>1, <1>5, <1>10, <1>11

(* The write of one unit stores that unit. *)
LEMMA UnitStored ==
  ASSUME Serve, IsWrite(request), NEW dev, NEW w
  PROVE  /\ request.devices = OneWord(dev) /\ request.values = OneWord(w) =>
              mem' = Store(mem, <<WordCells(dev)>>, <<w>>)
         /\ request.devices = OneDword(dev) /\ request.values = OneDword(w) =>
              mem' = Store(mem, <<DwordCells(dev)>>, <<w>>)
         /\ request.devices = OneBit(dev) /\ request.values = OneBit(w) =>
              mem' = Store(mem, <<BitCells(dev)>>, <<w>>)
<1> DEFINE c == Covered(request.devices)  r == request.values
<1>1. mem' = Store(mem, c.words \o c.dwords \o c.bits, r.words \o r.dwords \o r.bits)
  BY DEF Serve
<1>2. \A x : <<x>> \o <<>> \o <<>> = <<x>> /\ <<>> \o <<x>> \o <<>> = <<x>> /\ <<>> \o <<>> \o <<x>> = <<x>>
  OBVIOUS
<1>3. ASSUME request.devices = OneWord(dev), request.values = OneWord(w)
      PROVE  mem' = Store(mem, <<WordCells(dev)>>, <<w>>)
  <2>1. /\ c.words = <<WordCells(dev)>> /\ c.dwords = <<>> /\ c.bits = <<>>
        /\ r.words = <<w>> /\ r.dwords = <<>> /\ r.bits = <<>>
    BY <1>3 DEF Covered, OneWord
  <2> HIDE DEF c, r
  <2>2. c.words \o c.dwords \o c.bits = <<WordCells(dev)>> /\ r.words \o r.dwords \o r.bits = <<w>>
    BY <1>2, <2>1
  <2> QED
    BY <1>1, <2>2
<1>4. ASSUME request.devices = OneDword(dev), request.values = OneDword(w)
      PROVE  mem' = Store(mem, <<DwordCells(dev)>>, <<w>>)
  <2>1. /\ c.words = <<>> /\ c.dwords = <<DwordCells(dev)>> /\ c.bits = <<>>
        /\ r.words = <<>> /\ r.dwords = <<w>> /\ r.bits = <<>>
    BY <1>4 DEF Covered, OneDword
  <2> HIDE DEF c, r
  <2>2. c.words \o c.dwords \o c.bits = <<DwordCells(dev)>> /\ r.words \o r.dwords \o r.bits = <<w>>
    BY <1>2, <2>1
  <2> QED
    BY <1>1, <2>2
<1>5. ASSUME request.devices = OneBit(dev), request.values = OneBit(w)
      PROVE  mem' = Store(mem, <<BitCells(dev)>>, <<w>>)
  <2>1. /\ c.words = <<>> /\ c.dwords = <<>> /\ c.bits = <<BitCells(dev)>>
        /\ r.words = <<>> /\ r.dwords = <<>> /\ r.bits = <<w>>
    BY <1>5 DEF Covered, OneBit
  <2> HIDE DEF c, r
  <2>2. c.words \o c.dwords \o c.bits = <<BitCells(dev)>> /\ r.words \o r.dwords \o r.bits = <<w>>
    BY <1>2, <2>1
  <2> QED
    BY <1>1, <2>2
<1> QED
  BY <1>3, <1>4, <1>5

(* The write of one bit inside a word leaves every other cell as it is,     *)
(* unless the PLC changed the word between its two requests.                *)
THEOREM OtherBits == Spec => OtherBitsKept
<1>1. ASSUME AccessInv, [Next]_vars PROVE OneBitWritten
  <2> SUFFICES ASSUME phase = "sent", phase' = "served", SettingBit, IsWrite(request), ~disturbed
               PROVE  mem' = Store(mem, <<Denotes(call.texts[1], profile)>>, <<call.values[1].bits>>)
    BY DEF OneBitWritten
  <2> DEFINE dev == [code |-> call.texts[1].code, number |-> NumberIn(call.texts[1], profile)]
             k == call.texts[1].bit + 1
             v == call.values[1].bits[1]
             w == WordCells(dev)
  <2>1. Serve
    BY <1>1, BegunStep, StatementKeeps DEF Begun, Statements, ReadNamed, ReadPlanned, Send, Return,
       WriteBack, vars
  <2>2. /\ k \in 1 .. WordBits /\ ~bit_unit(dev.code) /\ v \in BOOLEAN
        /\ Denotes(call.texts[1], profile) = <<w[k]>> /\ call.values[1].bits = <<v>>
        /\ request.devices = OneWord(dev)
        /\ request.values = OneWord(WithBit(reply.words[1], call.texts[1].bit, v))
    BY <1>1, BitWritten DEF Begun, OneWord
  <2>3. reply.words[1] = Sample(mem, w)
    BY <1>1, <2>2, SampledWhen DEF AccessInv, BitSound, OneWord
  <2>4. mem' = Store(mem, <<w>>, <<WithBit(reply.words[1], call.texts[1].bit, v)>>)
    BY <2>1, <2>2, UnitStored
  <2>5. mem' = Store(mem, <<w>>, <<[Sample(mem, w) EXCEPT ![k] = v]>>)
    BY <2>3, <2>4 DEF WithBit
  <2>6. DOMAIN w = 1 .. WordBits /\ WordBits \in Nat
    BY CellsOfWord, NameAssumption
  <2>7. \A i \in 1 .. WordBits : w[i] = Cell(dev.code, dev.number, i - 1)
    BY <2>2, CellsOfWord
  <2> HIDE DEF w, k, v
  <2>8. \A i \in 1 .. WordBits : i # k => w[i] # w[k]
    BY <2>2, <2>7, NameAssumption DEF Cell
  <2>9. mem' = Store(mem, <<<<w[k]>>>>, <<<<v>>>>)
    BY <2>2, <2>5, <2>6, <2>8, StoreBit
  <2> QED
    BY <2>2, <2>9
<1>2. AccessInv /\ [Next]_vars => OneBitWritten
  BY <1>1
<1> QED
  BY <1>2, AccessAlways, PTL DEF Spec, OtherBitsKept

-----------------------------------------------------------------------------
(* The write of a list of names *)

(* The values of a write, each with the cells it goes to *)
Pairs(cells, bits) == {<<cells[i], bits[i]>> : i \in DOMAIN cells}

LEMMA StorePairs ==
  ASSUME NEW m, NEW cells, NEW bits, NEW others, NEW values,
         Pairs(cells, bits) = Pairs(others, values)
  PROVE  Store(m, cells, bits) = Store(m, others, values)
<1>1. ASSUME NEW i \in DOMAIN cells
      PROVE  \E j \in DOMAIN others : cells[i] = others[j] /\ bits[i] = values[j]
  <2>1. <<cells[i], bits[i]>> \in Pairs(others, values)
    BY DEF Pairs
  <2> QED
    BY <2>1 DEF Pairs
<1>2. ASSUME NEW j \in DOMAIN others
      PROVE  \E i \in DOMAIN cells : cells[i] = others[j] /\ bits[i] = values[j]
  <2>1. <<others[j], values[j]>> \in Pairs(cells, bits)
    BY DEF Pairs
  <2> QED
    BY <2>1 DEF Pairs
<1> QED
  BY <1>1, <1>2, StoreSame

LEMMA PairsJoin ==
  ASSUME NEW S, NEW a \in Seq(S), NEW b \in Seq(S), NEW c \in Seq(S), NEW d \in Seq(S),
         Len(a) = Len(c), Len(b) = Len(d)
  PROVE  Pairs(a \o b, c \o d) = Pairs(a, c) \cup Pairs(b, d)
<1>1. /\ DOMAIN (a \o b) = 1 .. Len(a) + Len(b) /\ Len(a) \in Nat /\ Len(b) \in Nat
      /\ DOMAIN a = 1 .. Len(a) /\ DOMAIN b = 1 .. Len(b)
  <2>1. a \o b \in Seq(S) /\ Len(a \o b) = Len(a) + Len(b)
    OBVIOUS
  <2>2. \A q \in Seq(S) : DOMAIN q = 1 .. Len(q) /\ Len(q) \in Nat
    OBVIOUS
  <2> QED
    BY <2>1, <2>2
<1>2. \A i \in 1 .. Len(a) : (a \o b)[i] = a[i] /\ (c \o d)[i] = c[i]
  OBVIOUS
<1>3. \A i \in 1 .. Len(b) : (a \o b)[Len(a) + i] = b[i] /\ (c \o d)[Len(a) + i] = d[i]
  OBVIOUS
<1>4. ASSUME NEW x \in Pairs(a \o b, c \o d) PROVE x \in Pairs(a, c) \cup Pairs(b, d)
  <2>1. PICK i \in 1 .. Len(a) + Len(b) : x = <<(a \o b)[i], (c \o d)[i]>>
    BY <1>1 DEF Pairs
  <2>2. CASE i \in 1 .. Len(a)
    BY <1>1, <1>2, <2>1, <2>2 DEF Pairs
  <2>3. CASE i \notin 1 .. Len(a)
    <3>1. PICK j \in 1 .. Len(b) : i = Len(a) + j
      <4>1. i - Len(a) \in 1 .. Len(b) /\ i = Len(a) + (i - Len(a))
        BY <1>1, <2>3
      <4> QED
        BY <4>1
    <3> QED
      BY <1>1, <1>3, <2>1, <3>1 DEF Pairs
  <2> QED
    BY <2>2, <2>3
<1>5. Pairs(a, c) \subseteq Pairs(a \o b, c \o d)
  <2> SUFFICES ASSUME NEW i \in 1 .. Len(a) PROVE <<a[i], c[i]>> \in Pairs(a \o b, c \o d)
    BY <1>1 DEF Pairs
  <2>1. i \in DOMAIN (a \o b)
    BY <1>1
  <2> QED
    BY <1>2, <2>1 DEF Pairs
<1>6. Pairs(b, d) \subseteq Pairs(a \o b, c \o d)
  <2> SUFFICES ASSUME NEW i \in 1 .. Len(b) PROVE <<b[i], d[i]>> \in Pairs(a \o b, c \o d)
    BY <1>1 DEF Pairs
  <2>1. Len(a) + i \in DOMAIN (a \o b)
    BY <1>1
  <2>2. <<(a \o b)[Len(a) + i], (c \o d)[Len(a) + i]>> = <<b[i], d[i]>>
    BY <1>3
  <2> QED
    BY <2>1, <2>2 DEF Pairs
<1> QED
  BY <1>4, <1>5, <1>6

(* Some positions of a list, in the order given *)
Selected(f, chosen) == [i \in DOMAIN chosen |-> f[chosen[i]]]

Picks(chosen, k, N) ==
    /\ chosen \in Seq(1 .. k)
    /\ \A n \in N : \E i \in 1 .. Len(chosen) : chosen[i] = n
    /\ \A i \in 1 .. Len(chosen) : chosen[i] \in N

LEMMA SelectedIs ==
  ASSUME NEW k \in Nat, NEW S, NEW f, NEW chosen, NEW N,
         \A n \in 1 .. k : f[n] \in S, Picks(chosen, k, N)
  PROVE  Selected(f, chosen) \in Seq(S) /\ Len(Selected(f, chosen)) = Len(chosen)
<1>1. DOMAIN chosen = 1 .. Len(chosen) /\ Len(chosen) \in Nat
      /\ \A i \in 1 .. Len(chosen) : chosen[i] \in 1 .. k
  BY DEF Picks
<1>2. Selected(f, chosen) \in [1 .. Len(chosen) -> S]
  BY <1>1 DEF Selected
<1>3. \A n \in Nat : \A q \in [1 .. n -> S] : q \in Seq(S) /\ Len(q) = n
  OBVIOUS
<1> QED
  BY <1>1, <1>2, <1>3

LEMMA SelectedPairs ==
  ASSUME NEW k \in Nat, NEW f, NEW g, NEW chosen, NEW N, Picks(chosen, k, N)
  PROVE  Pairs(Selected(f, chosen), Selected(g, chosen)) = {<<f[n], g[n]>> : n \in N}
<1>1. DOMAIN chosen = 1 .. Len(chosen)
  BY DEF Picks
<1>2. DOMAIN Selected(f, chosen) = 1 .. Len(chosen)
      /\ \A i \in 1 .. Len(chosen) : Selected(f, chosen)[i] = f[chosen[i]]
                                     /\ Selected(g, chosen)[i] = g[chosen[i]]
  BY <1>1 DEF Selected
<1>3. Pairs(Selected(f, chosen), Selected(g, chosen))
        = {<<f[chosen[i]], g[chosen[i]]>> : i \in 1 .. Len(chosen)}
  BY <1>2 DEF Pairs
<1>4. {<<f[chosen[i]], g[chosen[i]]>> : i \in 1 .. Len(chosen)} = {<<f[n], g[n]>> : n \in N}
  BY DEF Picks
<1> QED
  BY <1>3, <1>4

(* writeNamed: the updates, sorted by the unit that writes them, store what *)
(* the caller's list of names and values does.                              *)
LEMMA NamedWriteStores ==
  ASSUME NEW k \in Nat, NEW texts \in [1 .. k -> ListTexts], NEW values \in [1 .. k -> Formed],
         NEW p, \A i \in 1 .. k : parseAddressSpec(texts[i], p) = "Ok" /\ texts[i].type # "dot",
         NEW m
  PROVE  LET r == NamedWrite([i \in 1 .. k |-> SpecOf(texts[i], p)], values)  c == Covered(r.devices)
         IN Store(m, c.words \o c.dwords \o c.bits, r.values.words \o r.values.dwords \o r.values.bits)
              = Store(m, [i \in 1 .. k |-> Denotes(texts[i], p)], [i \in 1 .. k |-> values[i].bits])
<1> DEFINE specs == [i \in 1 .. k |-> SpecOf(texts[i], p)]
           r == NamedWrite(specs, values)
           c == Covered(r.devices)
           cells == [i \in 1 .. k |-> Denotes(texts[i], p)]
           bits == [i \in 1 .. k |-> values[i].bits]
           S == {cells[n] : n \in 1 .. k} \cup {bits[n] : n \in 1 .. k}
           W == {"U", "S"}  D == {"D", "L", "F"}  B == {"BIT"}
           Of(T) == OfTypes(specs, T)
           At(T) == {n \in 1 .. k : specs[n].type \in T}
           dev(n) == [code |-> specs[n].code, number |-> specs[n].number]
<1>1. Len(specs) = k
  OBVIOUS
<1>2. \A T : /\ Of(T) \in Seq(1 .. k)
             /\ \A n \in At(T) : \E i \in 1 .. Len(Of(T)) : Of(T)[i] = n
             /\ \A i \in 1 .. Len(Of(T)) : Of(T)[i] \in At(T)
  <2> TAKE T
  <2>1. /\ Of(T) \in Seq(1 .. k)
        /\ \A n \in 1 .. k : specs[n].type \in T => \E i \in 1 .. Len(Of(T)) : Of(T)[i] = n
        /\ \A i \in 1 .. Len(Of(T)) : specs[Of(T)[i]].type \in T
    <3> HIDE DEF specs
    <3> QED
      BY <1>1, OfTypesIs, SMTT(40)
  <2> HIDE DEF Of
  <2>2. \A i \in 1 .. Len(Of(T)) : Of(T)[i] \in 1 .. k
    BY <2>1
  <2> QED
    BY <2>1, <2>2
<1>3. \A n \in 1 .. k : /\ specs[n].type \in Types
                        /\ specs[n].type \in W => cells[n] = WordCells(dev(n))
                        /\ specs[n].type \in D => cells[n] = DwordCells(dev(n))
                        /\ specs[n].type \in B => cells[n] = BitCells(dev(n))
  <2> TAKE n \in 1 .. k
  <2>1. texts[n] \in CallTexts /\ parseAddressSpec(texts[n], p) = "Ok" /\ texts[n].type # "dot"
    BY DEF CallTexts
  <2>2. /\ specs[n].code = texts[n].code /\ specs[n].number = NumberIn(texts[n], p)
        /\ specs[n].type = texts[n].type
    BY <2>1 DEF SpecOf
  <2>3. texts[n].type \in Types
    BY <2>1, Accepted
  <2>4. dev(n) = [code |-> texts[n].code, number |-> NumberIn(texts[n], p)]
    BY <2>2
  <2>5. cells[n] = Denotes(texts[n], p)
    OBVIOUS
  <2> HIDE DEF dev, cells
  <2> QED
    BY <2>1, <2>2, <2>3, <2>4, <2>5 DEF Denotes, valueTypeUsesDword, Types
<1>4. ASSUME NEW T
      PROVE  /\ Pairs(Selected(cells, Of(T)), Selected(bits, Of(T))) = {<<cells[n], bits[n]>> : n \in At(T)}
             /\ Selected(cells, Of(T)) \in Seq(S) /\ Selected(bits, Of(T)) \in Seq(S)
             /\ Len(Selected(cells, Of(T))) = Len(Of(T)) /\ Len(Selected(bits, Of(T))) = Len(Of(T))
  <2> DEFINE chosen == Of(T)  N == At(T)
  <2>1. Picks(chosen, k, N)
    BY <1>2 DEF Picks
  <2>2. \A n \in 1 .. k : cells[n] \in S /\ bits[n] \in S
    OBVIOUS
  <2> HIDE DEF chosen, N, cells, bits, S
  <2>3. Pairs(Selected(cells, chosen), Selected(bits, chosen)) = {<<cells[n], bits[n]>> : n \in N}
    BY <2>1, SelectedPairs
  <2>4. /\ Selected(cells, chosen) \in Seq(S) /\ Len(Selected(cells, chosen)) = Len(chosen)
        /\ Selected(bits, chosen) \in Seq(S) /\ Len(Selected(bits, chosen)) = Len(chosen)
    <3>1. \A n \in 1 .. k : cells[n] \in S
      BY <2>2
    <3>2. \A n \in 1 .. k : bits[n] \in S
      BY <2>2
    <3>3. Selected(cells, chosen) \in Seq(S) /\ Len(Selected(cells, chosen)) = Len(chosen)
      BY <2>1, <3>1, SelectedIs
    <3>4. Selected(bits, chosen) \in Seq(S) /\ Len(Selected(bits, chosen)) = Len(chosen)
      BY <2>1, <3>2, SelectedIs
    <3> QED
      BY <3>3, <3>4
  <2> QED
    BY <2>3, <2>4 DEF chosen, N
<1>5. /\ c.words = Selected(cells, Of(W)) /\ c.dwords = Selected(cells, Of(D))
      /\ c.bits = Selected(cells, Of(B))
      /\ r.values.words = Selected(bits, Of(W)) /\ r.values.dwords = Selected(bits, Of(D))
      /\ r.values.bits = Selected(bits, Of(B))
  <2> DEFINE devs(T) == [i \in DOMAIN Of(T) |-> dev(Of(T)[i])]
             vals(T) == [i \in DOMAIN Of(T) |-> values[Of(T)[i]].bits]
  <2>1. /\ r.devices = [words |-> devs(W), dwords |-> devs(D), bits |-> devs(B)]
        /\ r.values = [words |-> vals(W), dwords |-> vals(D), bits |-> vals(B)]
    BY DEF NamedWrite
  <2>2. ASSUME NEW T
        PROVE  /\ \A i \in DOMAIN Of(T) : Of(T)[i] \in 1 .. k /\ specs[Of(T)[i]].type \in T
               /\ vals(T) = Selected(bits, Of(T))
    <3>1. \A i \in DOMAIN Of(T) : Of(T)[i] \in 1 .. k /\ specs[Of(T)[i]].type \in T
      <4>1. Of(T) \in Seq(1 .. k) /\ \A i \in 1 .. Len(Of(T)) : Of(T)[i] \in At(T)
        BY <1>2
      <4> HIDE DEF Of
      <4>2. DOMAIN Of(T) = 1 .. Len(Of(T))
        BY <4>1
      <4> QED
        BY <4>1, <4>2
    <3> HIDE DEF Of
    <3> QED
      BY <3>1 DEF Selected
  <2> HIDE DEF Of, dev, cells
  <2>3. /\ [i \in DOMAIN devs(W) |-> WordCells(devs(W)[i])] = Selected(cells, Of(W))
        /\ [i \in DOMAIN devs(D) |-> DwordCells(devs(D)[i])] = Selected(cells, Of(D))
        /\ [i \in DOMAIN devs(B) |-> BitCells(devs(B)[i])] = Selected(cells, Of(B))
    BY <1>3, <2>2 DEF Selected
  <2> HIDE DEF devs, vals, r
  <2>4. c.words = [i \in DOMAIN devs(W) |-> WordCells(devs(W)[i])]
        /\ c.dwords = [i \in DOMAIN devs(D) |-> DwordCells(devs(D)[i])]
        /\ c.bits = [i \in DOMAIN devs(B) |-> BitCells(devs(B)[i])]
    BY <2>1 DEF Covered
  <2>5. r.values.words = vals(W) /\ r.values.dwords = vals(D) /\ r.values.bits = vals(B)
    BY <2>1
  <2> QED
    BY <2>2, <2>3, <2>4, <2>5
<1>6. At(W) \cup At(D) \cup At(B) = 1 .. k
  BY <1>3 DEF Types
<1>7. Pairs(cells, bits) = {<<cells[n], bits[n]>> : n \in 1 .. k}
  BY DEF Pairs
<1> HIDE DEF r, c, cells, bits, S, Of, At, W, D, B
<1>8. Pairs(c.words \o c.dwords \o c.bits, r.values.words \o r.values.dwords \o r.values.bits)
        = Pairs(cells, bits)
  <2> DEFINE x(T) == Selected(cells, Of(T))  y(T) == Selected(bits, Of(T))
  <2>1. \A T : x(T) \in Seq(S) /\ y(T) \in Seq(S) /\ Len(x(T)) = Len(y(T))
               /\ Pairs(x(T), y(T)) = {<<cells[n], bits[n]>> : n \in At(T)}
    BY <1>4
  <2> HIDE DEF x, y
  <2>2. /\ x(W) \in Seq(S) /\ y(W) \in Seq(S) /\ Len(x(W)) = Len(y(W))
        /\ x(D) \in Seq(S) /\ y(D) \in Seq(S) /\ Len(x(D)) = Len(y(D))
        /\ x(B) \in Seq(S) /\ y(B) \in Seq(S) /\ Len(x(B)) = Len(y(B))
    BY <2>1
  <2>3. /\ Pairs(x(W), y(W)) = {<<cells[n], bits[n]>> : n \in At(W)}
        /\ Pairs(x(D), y(D)) = {<<cells[n], bits[n]>> : n \in At(D)}
        /\ Pairs(x(B), y(B)) = {<<cells[n], bits[n]>> : n \in At(B)}
    BY <2>1
  <2>4. x(W) \o x(D) \in Seq(S) /\ Len(x(W) \o x(D)) = Len(x(W)) + Len(x(D))
    BY <2>2, ConcatProperties
  <2>5. y(W) \o y(D) \in Seq(S) /\ Len(y(W) \o y(D)) = Len(y(W)) + Len(y(D))
    BY <2>2, ConcatProperties
  <2>6. Pairs(x(W) \o x(D), y(W) \o y(D)) = Pairs(x(W), y(W)) \cup Pairs(x(D), y(D))
    BY <2>2, PairsJoin
  <2> DEFINE xs == x(W) \o x(D)  ys == y(W) \o y(D)
  <2>10. xs \in Seq(S) /\ ys \in Seq(S) /\ Len(xs) = Len(ys)
    BY <2>2, <2>4, <2>5
  <2> HIDE DEF xs, ys
  <2>11. Pairs(xs \o x(B), ys \o y(B)) = Pairs(xs, ys) \cup Pairs(x(B), y(B))
    BY <2>2, <2>10, PairsJoin
  <2>7. Pairs(x(W) \o x(D) \o x(B), y(W) \o y(D) \o y(B))
          = Pairs(x(W) \o x(D), y(W) \o y(D)) \cup Pairs(x(B), y(B))
    BY <2>11 DEF xs, ys
  <2>8. {<<cells[n], bits[n]>> : n \in 1 .. k} = {<<cells[n], bits[n]>> : n \in At(W)}
          \cup {<<cells[n], bits[n]>> : n \in At(D)} \cup {<<cells[n], bits[n]>> : n \in At(B)}
    BY <1>6
  <2>9. Pairs(x(W) \o x(D) \o x(B), y(W) \o y(D) \o y(B)) = {<<cells[n], bits[n]>> : n \in 1 .. k}
    BY <2>3, <2>6, <2>7, <2>8
  <2> QED
    BY <1>5, <1>7, <2>9 DEF x, y
<1>9. Store(m, c.words \o c.dwords \o c.bits, r.values.words \o r.values.dwords \o r.values.bits)
        = Store(m, cells, bits)
  BY <1>8, StorePairs
<1> QED
  BY <1>9 DEF r, c, cells, bits

-----------------------------------------------------------------------------
(* The calls do what NamedRegisters promises *)

LEMMA SameMemory ==
  /\ \A m, cells : Registers!Sample(m, cells) = Sample(m, cells)
  /\ \A m, cells, bits : Registers!Store(m, cells, bits) = Store(m, cells, bits)
BY DEF Registers!Sample, Sample, Registers!Store, Store

LEMMA IdleMaps ==
  phase = "idle" => Meaning = Registers!NoCall /\ Taken = "nothing" /\ Seen = <<>>
BY DEF Meaning, Taken, Seen, Registers!NoCall

LEMMA BusyMaps ==
  phase # "idle" => Meaning # Registers!NoCall /\ Outcome = Registers!NoOutcome
BY DEF Meaning, Registers!NoCall, Outcome, Ended, Registers!NoOutcome

LEMMA CalledMaps ==
  phase = "called" => Taken = "nothing" /\ Seen = <<>>
BY DEF Taken, Seen

LEMMA SentMaps ==
  phase = "sent" => /\ SettingBit /\ IsWrite(request) => Taken = "sampled" /\ Seen = reply.words
                    /\ ~(SettingBit /\ IsWrite(request)) => Taken = "nothing" /\ Seen = <<>>
BY DEF Taken, Seen

LEMMA ServedMaps ==
  phase = "served" =>
    /\ SettingBit => Seen = reply.words /\ Taken = IF IsWrite(request) THEN "all" ELSE "sampled"
    /\ ~SettingBit => Taken = "all"
BY DEF Taken, Seen

(* A call means the same from its begin to its end. *)
LEMMA MeaningKept ==
  ASSUME phase # "idle", phase' # "idle", profile' = profile,
         call' = call \/ (call.op = "readNamed" /\ \E q : call' = [call EXCEPT !.plan = q])
  PROVE  Meaning' = Meaning
<1>1. CASE call' = call
  BY <1>1 DEF Meaning, SettingBit, Asked
<1>2. ASSUME call.op = "readNamed", NEW q, call' = [call EXCEPT !.plan = q]
      PROVE  Meaning' = Meaning
  <2>1. call'.op = call.op /\ call'.texts = call.texts /\ call'.values = call.values
    BY <1>2
  <2>2. Asked' = call.texts /\ Asked = call.texts
    BY <1>2, <2>1 DEF Asked
  <2>3. ~SettingBit /\ ~SettingBit'
    BY <1>2, <2>1 DEF SettingBit
  <2> QED
    BY <1>2, <2>1, <2>2, <2>3 DEF Meaning
<1> QED
  BY <1>1, <1>2

LEMMA FailMaps ==
  ASSUME phase # "idle", phase' = "idle", mem' = mem, result' # "Ok"
  PROVE  Registers!Fail
<1>1. Meaning # Registers!NoCall /\ Meaning' = Registers!NoCall /\ Taken' = "nothing" /\ Seen' = <<>>
  <2>1. (phase = "idle" => Meaning = Registers!NoCall /\ Taken = "nothing" /\ Seen = <<>>)'
    BY IdleMaps, PTL
  <2> QED
    BY <2>1, BusyMaps
<1>2. Outcome' = Registers!NoOutcome
  <2>1. (Ended' /\ result' = "Ok") = FALSE
    OBVIOUS
  <2> QED
    BY <2>1 DEF Outcome, Registers!NoOutcome
<1> QED
  BY <1>1, <1>2 DEF Registers!Fail

(* A call begins. *)
LEMMA BeginMaps ==
  ASSUME CallsWithNames \/ CallsWithPlans
  PROVE  Registers!Next
<1>1. phase = "idle" /\ phase' = "called" /\ mem' = mem
  BY DEF CallsWithNames, CallsWithPlans, Call
<1>2. Meaning = Registers!NoCall
  BY <1>1, IdleMaps
<1>3. (phase # "idle" => Meaning # Registers!NoCall /\ Outcome = Registers!NoOutcome)'
      /\ (phase = "called" => Taken = "nothing" /\ Seen = <<>>)'
  BY BusyMaps, CalledMaps, PTL
<1>4. Meaning' # Registers!NoCall /\ Registers!Begin(Meaning')
  BY <1>1, <1>2, <1>3 DEF Registers!Begin, Registers!NoCall
<1> QED
  BY <1>4 DEF Registers!Next

(* A statement sends a request, or the call fails. *)
LEMMA StatementMaps ==
  ASSUME AccessInv, [Next]_vars, Statements
  PROVE  Registers!Next
<1>1. /\ phase = "called" /\ phase' \in {"idle", "sent"} /\ UNCHANGED <<mem, profile>>
      /\ call' = call \/ (call.op = "readNamed" /\ \E q : call' = [call EXCEPT !.plan = q])
  <2>1. CASE ReadTyped \/ WriteTyped \/ ReadPlan \/ WriteNamed
    BY <2>1, StatementKeeps DEF AccessInv, CallSound
  <2>2. CASE ReadNamed
    BY <2>2 DEF ReadNamed, ReadPlanned, Send, Return, Untouched, AccessInv, CallSound
  <2> QED
    BY <2>1, <2>2 DEF Statements
<1>2. CASE phase' = "idle"
  <2>1. result' # "Ok"
    <3>1. CASE ReadTyped
      BY <1>2, <3>1, Refused DEF ReadTyped, Send, Return
    <3>2. CASE WriteTyped
      BY <1>2, <3>2, Refused DEF WriteTyped, Send, Return
    <3>3. CASE ReadNamed
      BY <1>2, <3>3, Refused DEF ReadNamed, ReadPlanned, Send, Return
    <3>4. CASE ReadPlan
      BY <1>2, <3>4, Refused DEF ReadPlan, ReadPlanned, Send, Return
    <3>5. CASE WriteNamed
      BY <1>2, <3>5, Refused DEF WriteNamed, Send, Return
    <3> QED
      BY <3>1, <3>2, <3>3, <3>4, <3>5 DEF Statements
  <2> QED
    BY <1>1, <1>2, <2>1, FailMaps DEF Registers!Next
<1>3. CASE phase' = "sent"
  <2>1. Meaning' = Meaning
    BY <1>1, <1>3, MeaningKept
  <2>2. ~(SettingBit' /\ IsWrite(request)')
    <3>1. SUFFICES ASSUME SettingBit', IsWrite(request)' PROVE FALSE
      OBVIOUS
    <3>2. CASE WriteTyped
      <4> DEFINE text == call.texts[1]
      <4>1. /\ call.op = "writeTyped" /\ parseAddressSpec(text, profile) = "Ok" /\ text.type = "dot"
            /\ request' = IF SpecOf(text, profile).bit >= 0
                          THEN Direct("words", [code |-> SpecOf(text, profile).code,
                                                number |-> SpecOf(text, profile).number])
                          ELSE TypedWrite(SpecOf(text, profile), call.values[1])
        BY <1>3, <3>1, <3>2 DEF WriteTyped, Send, Return, SettingBit
      <4>2. SpecOf(text, profile).bit >= 0
        BY <4>1, TypedText, DotIsBit DEF AccessInv
      <4> QED
        BY <3>1, <4>1, <4>2 DEF Direct, IsWrite
    <3>3. CASE ReadTyped \/ ReadNamed \/ ReadPlan \/ WriteNamed
      <4>1. call'.op = call.op
        BY <1>1 DEF AccessInv, CallSound
      <4> QED
        BY <3>1, <3>3, <4>1 DEF ReadTyped, ReadNamed, ReadPlan, WriteNamed, SettingBit
    <3> QED
      BY <3>2, <3>3 DEF Statements
  <2>3. /\ (phase = "sent" => /\ SettingBit /\ IsWrite(request) => Taken = "sampled" /\ Seen = reply.words
                              /\ ~(SettingBit /\ IsWrite(request)) => Taken = "nothing" /\ Seen = <<>>)'
        /\ (phase # "idle" => Meaning # Registers!NoCall /\ Outcome = Registers!NoOutcome)'
    BY SentMaps, BusyMaps, PTL
  <2>4. UNCHANGED <<Meaning, Taken, Seen, Outcome>>
    BY <1>1, <1>3, <2>1, <2>2, <2>3, CalledMaps, BusyMaps DEF Registers!NoOutcome
  <2> QED
    BY <2>4 DEF Registers!Next, Registers!PlcChanges
<1> QED
  BY <1>1, <1>2, <1>3

(* A call that has been served ends, or its bit is written back. *)
LEMMA SucceedMaps ==
  ASSUME phase = "served", phase' = "idle", mem' = mem, call' = call, result' = "Ok",
         ~SettingBit \/ IsWrite(request),
         call.op \in Reading => [i \in DOMAIN out' |-> out'[i].bits] = Seen,
         call.op \in Reading => ~SettingBit,
         call.op \notin Reading => out' = <<>>,
         call # NoCall
  PROVE  Registers!Succeed
<1>1. (phase = "idle" => Meaning = Registers!NoCall /\ Taken = "nothing" /\ Seen = <<>>)'
  BY IdleMaps, PTL
<1>2. Meaning # Registers!NoCall /\ Taken = "all"
  BY BusyMaps, ServedMaps
<1>3. Ended' = TRUE /\ (Ended' /\ result' = "Ok") = TRUE
  BY DEF Ended
<1>4. Outcome' = [ok |-> TRUE, values |-> [i \in DOMAIN out' |-> out'[i].bits]]
  BY <1>3 DEF Outcome
<1>5. (Meaning.kind = "read") <=> (call.op \in Reading)
  BY DEF Meaning, SettingBit
<1>6. [i \in DOMAIN out' |-> out'[i].bits] = IF Meaning.kind = "read" THEN Seen ELSE <<>>
  <2>1. call.op \notin Reading => [i \in DOMAIN out' |-> out'[i].bits] = <<>>
    OBVIOUS
  <2> QED
    BY <1>5, <2>1
<1> QED
  BY <1>1, <1>2, <1>4, <1>6 DEF Registers!Succeed

LEMMA FinishMaps ==
  ASSUME AccessInv, Finishes
  PROVE  Registers!Next
<1>1. /\ UNCHANGED <<profile, plan, compiled, call, mem, changes, disturbed>>
      /\ phase = "served" /\ phase' \in {"idle", "sent"} /\ (phase' = "sent" => WriteBack)
      /\ call # NoCall /\ Begun
  BY FinishKeeps DEF AccessInv, CallSound, Arguments, NoCall, Begun
<1>2. CASE FinishSnapshot
  <2>1. /\ phase' = "idle" /\ result' = "Ok" /\ call.op \in SnapshotReads /\ call.op \in Reading
        /\ call.plan.entries \in Seq(Entry)
        /\ out' = [i \in 1 .. Len(call.plan.entries) |->
                     [text |-> call.plan.entries[i].text, bits |-> EntryValue(call.plan.entries[i])]]
    BY <1>2, SnapshotEnds DEF FinishSnapshot, Return, SnapshotReads, Reading, AccessInv, CallSound, Plan
  <2>2. ~SettingBit
    BY <1>1, <2>1, WritesOnly
  <2>3. Seen = [i \in DOMAIN call.plan.entries |-> EntryValue(call.plan.entries[i])]
    BY <1>1, <2>1, <2>2, ServedMaps DEF Seen
  <2>4. [i \in DOMAIN out' |-> out'[i].bits] = Seen
    BY <2>1, <2>3
  <2> QED
    BY <1>1, <2>1, <2>2, <2>4, SucceedMaps DEF Registers!Next
<1>3. CASE FinishTyped
  <2>1. /\ phase' = "idle" /\ result' = "Ok" /\ call.op = "readTyped" /\ call.op \in Reading
        /\ out' = <<[text |-> call.texts[1],
                     bits |-> AddressValue(SpecOf(call.texts[1], profile), reply)]>>
    BY <1>3 DEF FinishTyped, Return, Reading
  <2>2. ~SettingBit
    BY <1>1, <2>1, WritesOnly
  <2>3. Seen = <<AddressValue(SpecOf(call.texts[1], profile), reply)>>
    BY <1>1, <2>1, <2>2, ServedMaps DEF Seen, SnapshotReads
  <2>4. [i \in DOMAIN out' |-> out'[i].bits] = Seen
    BY <2>1, <2>3
  <2> QED
    BY <1>1, <2>1, <2>2, <2>4, SucceedMaps DEF Registers!Next
<1>4. CASE FinishWrite
  <2>1. phase' = "idle" /\ result' = "Ok" /\ IsWrite(request) /\ out' = out
    BY <1>1, <1>4 DEF FinishWrite, Return
  <2>2. call.op \notin Reading
    BY <1>1, <2>1, WritesOnly
  <2>3. out' = <<>>
    BY <1>1, <2>1, <2>2 DEF AccessInv, OutSound
  <2> QED
    BY <1>1, <2>1, <2>2, <2>3, SucceedMaps DEF Registers!Next
<1>5. CASE WriteBack
  <2>1. CASE phase' = "idle"
    <3>1. result' # "Ok"
      BY <1>1, <1>5, <2>1, Refused DEF WriteBack, Send, Return
    <3> QED
      BY <1>1, <2>1, <3>1, FailMaps DEF Registers!Next
  <2>2. CASE phase' = "sent"
    <3>1. SettingBit /\ ~IsWrite(request) /\ reply' = reply /\ IsWrite(request)'
      BY <1>5, <2>2 DEF WriteBack, Send, Return, WriteRequest, IsWrite
    <3>2. SettingBit' = SettingBit
      BY <1>1 DEF SettingBit
    <3>3. /\ (phase = "sent" => /\ SettingBit /\ IsWrite(request) => Taken = "sampled" /\ Seen = reply.words
                                /\ ~(SettingBit /\ IsWrite(request)) => Taken = "nothing" /\ Seen = <<>>)'
          /\ (phase # "idle" => Meaning # Registers!NoCall /\ Outcome = Registers!NoOutcome)'
      BY SentMaps, BusyMaps, PTL
    <3>4. Meaning' = Meaning
      BY <1>1, <2>2, MeaningKept
    <3>5. UNCHANGED <<Meaning, Taken, Seen, Outcome>>
      BY <1>1, <2>2, <3>1, <3>2, <3>3, <3>4, ServedMaps, BusyMaps DEF Registers!NoOutcome
    <3> QED
      BY <3>5 DEF Registers!Next, Registers!PlcChanges
  <2> QED
    BY <1>1, <2>1, <2>2
<1> QED
  BY <1>2, <1>3, <1>4, <1>5 DEF Finishes

(* A served request is what the call reads, at that instant. *)
LEMMA ServedReads ==
  ASSUME AccessInv, Serve, call.op \in Reading
  PROVE  Seen' = [i \in DOMAIN Meaning.cells |-> Sample(mem, Meaning.cells[i])]
<1>1. /\ phase = "sent" /\ phase' = "served" /\ Begun /\ UNCHANGED <<call, request, profile>>
      /\ ~IsWrite(request) /\ ~SettingBit
  BY WritesOnly DEF Serve, Begun
<1>2. reply' = Answer(request.devices)
  BY <1>1 DEF Serve, Answer
<1>3. Taken' = "all" /\ ~SettingBit'
  BY <1>1 DEF Taken, SettingBit
<1>4. CASE call.op = "readTyped"
  <2> DEFINE t == call.texts[1]
  <2>1. /\ call.texts = <<t>> /\ t \in CallTexts /\ parseAddressSpec(t, profile) = "Ok"
        /\ request = AddressRequest(SpecOf(t, profile))
    BY <1>1, <1>4, TypedText DEF AccessInv, CallSound, Arguments, TypedSound, NoCall
  <2>2. Seen' = <<AddressValue(SpecOf(t, profile), reply')>>
    BY <1>1, <1>3, <1>4 DEF Seen, SnapshotReads
  <2>3. AddressValue(SpecOf(t, profile), reply') = Sample(mem, Denotes(t, profile))
    BY <1>2, <2>1, TypedReads
  <2>4. Meaning.cells = [i \in DOMAIN call.texts |-> Denotes(call.texts[i], profile)]
    BY <1>1, <1>4 DEF Meaning, Asked
  <2>5. Meaning.cells = <<Denotes(t, profile)>>
    BY <2>1, <2>4
  <2> QED
    BY <2>2, <2>3, <2>5
<1>5. CASE call.op \in SnapshotReads
  <2> DEFINE entries == call.plan.entries
  <2>1. PlanValid(call.plan) /\ request = Random(call.plan.words, call.plan.dwords)
    BY <1>1, <1>5 DEF AccessInv, ListSound
  <2>2. /\ PlanSound(call.plan) /\ call.plan.profile = profile /\ entries \in Seq(Entry)
        /\ call.plan.words \in Seq(Device) /\ call.plan.dwords \in Seq(Device)
    BY <2>1 DEF AccessInv, CallSound, PlanSound, Plan, PlanValid
  <2>3. request.devices.words = call.plan.words /\ request.devices.dwords = call.plan.dwords
    BY <2>1 DEF Random
  <2>4. ASSUME NEW i \in DOMAIN entries
        PROVE  EntryValue(entries[i])' = Sample(mem, Denotes(entries[i].text, profile))
    <3> DEFINE e == entries[i]
    <3>1. /\ Compiled(e, profile) /\ e.kind \notin {"None", "LongTimer"} /\ e.kind \in EntryKinds
          /\ containsDevice(IF e.kind = "Dword" THEN request.devices.dwords ELSE request.devices.words,
                            e.device)
      <4>1. i \in 1 .. Len(entries) /\ e \in Entry
        BY <2>2
      <4>2. Compiled(e, profile) /\ e.kind \in EntryKinds
        BY <2>2, <4>1 DEF PlanSound, Entry
      <4>3. /\ e.kind \notin {"None", "LongTimer"}
            /\ containsDevice(IF e.kind = "Dword" THEN call.plan.dwords ELSE call.plan.words, e.device)
        BY <2>1 DEF PlanValid
      <4> QED
        BY <2>3, <4>2, <4>3
    <3>2. request.devices.words \in Seq(Device) /\ request.devices.dwords \in Seq(Device)
      BY <2>2, <2>3
    <3> HIDE DEF e
    <3>3. EntryReads(e, request.devices, Answer(request.devices)) = Sample(mem, Denotes(e.text, profile))
      BY <3>1, <3>2, NamedReads
    <3>4. EntryValue(e)' = EntryReads(e, request.devices, reply') /\ e' = e
      BY <1>1, <3>1 DEF EntryValue, EntryReads, EntryKinds, e
    <3> QED
      BY <1>1, <1>2, <3>3, <3>4 DEF e
  <2>5. Seen' = [i \in DOMAIN entries |-> EntryValue(entries[i])']
    BY <1>1, <1>3, <1>5 DEF Seen
  <2>6. Meaning.cells = [i \in DOMAIN entries |-> Denotes(entries[i].text, profile)]
    <3>1. CASE call.op = "readNamed"
      <4>1. Heads(call.plan, call.texts) /\ Len(entries) = Len(call.texts) /\ call.texts \in Seq(CallTexts)
        BY <1>1, <1>5, <3>1 DEF AccessInv, ListSound, CallSound
      <4>2. DOMAIN call.texts = DOMAIN entries /\ \A i \in DOMAIN entries : call.texts[i] = entries[i].text
        BY <2>2, <4>1 DEF Heads
      <4>3. Meaning.cells = [i \in DOMAIN call.texts |-> Denotes(call.texts[i], profile)]
        BY <1>1, <3>1 DEF Meaning, Asked
      <4> QED
        BY <4>2, <4>3
    <3>2. CASE call.op \in {"readOnce", "readPlan"}
      BY <1>1, <2>2, <3>2 DEF Meaning, Asked
    <3> QED
      BY <1>5, <3>1, <3>2 DEF SnapshotReads
  <2> QED
    BY <2>4, <2>5, <2>6
<1> QED
  BY <1>4, <1>5 DEF Reading, SnapshotReads

(* A value has as many bits as the cells its name denotes. *)
LEMMA WidthFits ==
  ASSUME NEW t \in CallTexts, NEW p, NEW v \in Formed, parseAddressSpec(t, p) = "Ok",
         SpecOf(t, p).type = v.type, t.type # "dot"
  PROVE  DOMAIN v.bits = DOMAIN Denotes(t, p)
<1> DEFINE dev == [code |-> t.code, number |-> NumberIn(t, p)]
<1>1. t.type \in Types /\ t.type = v.type
  BY Accepted DEF SpecOf
<1>2. DOMAIN v.bits = 1 .. WidthOf(v.type)
  BY DEF Formed, BitsFor
<1>3. CASE t.type = "BIT"
  <2>1. Denotes(t, p) = BitCells(dev) /\ WidthOf(v.type) = 1
    BY <1>1, <1>3 DEF Denotes, WidthOf, valueTypeUsesDword
  <2> QED
    BY <1>2, <2>1 DEF BitCells
<1>4. CASE valueTypeUsesDword(t.type)
  <2>1. Denotes(t, p) = DwordCells(dev) /\ WidthOf(v.type) = 2 * WordBits
    BY <1>1, <1>4 DEF Denotes, WidthOf, valueTypeUsesDword
  <2>2. DOMAIN DwordCells(dev) = 1 .. 2 * WordBits
    <3>1. CASE IsLong(dev.code)
      BY <3>1 DEF DwordCells
    <3>2. CASE ~IsLong(dev.code)
      <4> DEFINE a == WordCells(dev)  b == WordCells([dev EXCEPT !.number = @ + 1])
      <4>1. /\ a = [i \in 1 .. WordBits |-> a[i]] /\ b = [i \in 1 .. WordBits |-> b[i]]
            /\ WordBits \in Nat
        BY NameAssumption DEF WordCells
      <4> HIDE DEF a, b
      <4>2. DOMAIN (a \o b) = 1 .. 2 * WordBits
        <5> DEFINE S == {a[i] : i \in 1 .. WordBits} \cup {b[i] : i \in 1 .. WordBits}
        <5>1. a \in [1 .. WordBits -> S] /\ b \in [1 .. WordBits -> S]
          BY <4>1
        <5> HIDE DEF S
        <5>2. \A n \in Nat : \A q \in [1 .. n -> S] : q \in Seq(S) /\ Len(q) = n
          OBVIOUS
        <5>3. a \in Seq(S) /\ b \in Seq(S) /\ Len(a) = WordBits /\ Len(b) = WordBits
          BY <4>1, <5>1, <5>2
        <5>4. a \o b \in Seq(S) /\ Len(a \o b) = WordBits + WordBits
          <6>1. \A x, y \in Seq(S) : x \o y \in Seq(S) /\ Len(x \o y) = Len(x) + Len(y)
            BY ConcatProperties
          <6> QED
            BY <5>3, <6>1
        <5>5. \A q \in Seq(S) : DOMAIN q = 1 .. Len(q)
          OBVIOUS
        <5>6. DOMAIN (a \o b) = 1 .. WordBits + WordBits
          BY <5>4, <5>5
        <5> QED
          BY <4>1, <5>6
      <4> QED
        BY <3>2, <4>2 DEF DwordCells, a, b
    <3> QED
      BY <3>1, <3>2
  <2> QED
    BY <1>2, <2>1, <2>2
<1>5. CASE t.type # "BIT" /\ ~valueTypeUsesDword(t.type)
  <2>1. Denotes(t, p) = WordCells(dev) /\ WidthOf(v.type) = WordBits
    BY <1>1, <1>5 DEF Denotes, WidthOf, valueTypeUsesDword
  <2>2. DOMAIN WordCells(dev) = 1 .. WordBits
    BY CellsOfWord
  <2> QED
    BY <1>2, <2>1, <2>2
<1> QED
  BY <1>3, <1>4, <1>5

(* What writeNamed has checked of its updates *)
LEMMA NamedVerdict ==
  ASSUME NamedWriteVerdict = "Ok", NEW k \in Nat, Len(call.texts) = k, NEW i \in 1 .. k
  PROVE  /\ parseAddressSpec(call.texts[i], profile) = "Ok" /\ call.texts[i].type # "dot"
         /\ SpecOf(call.texts[i], profile).type = call.values[i].type
BY DEF NamedWriteVerdict

(* A served request is what the call writes, at that instant. *)
LEMMA ServedWrites ==
  ASSUME AccessInv, Serve, call.op \in {"writeTyped", "writeNamed"}, ~SettingBit
  PROVE  /\ mem' = Store(mem, Meaning.cells, Meaning.bits)
         /\ \A i \in DOMAIN Meaning.cells : DOMAIN Meaning.bits[i] = DOMAIN Meaning.cells[i]
<1>1. phase = "sent" /\ Begun /\ IsWrite(request)
  BY WritesOnly DEF Serve, Begun
<1>2. /\ Meaning.cells = [i \in DOMAIN call.texts |-> Denotes(call.texts[i], profile)]
      /\ Meaning.bits = [i \in DOMAIN call.values |-> call.values[i].bits]
  BY <1>1 DEF Meaning, Asked
<1>3. CASE call.op = "writeTyped"
  <2> DEFINE t == call.texts[1]  v == call.values[1]  spec == SpecOf(t, profile)
             dev == [code |-> t.code, number |-> NumberIn(t, profile)]
  <2>1. call.texts = <<t>> /\ call.values = <<v>> /\ t \in CallTexts /\ v \in Formed
    BY <1>3, TypedText DEF AccessInv, CallSound, Arguments, NoCall
  <2>2. /\ parseAddressSpec(t, profile) = "Ok" /\ spec.type = v.type /\ t.type # "dot"
        /\ request = TypedWrite(spec, v)
    BY <1>1, <1>3 DEF AccessInv, TypedSound, SettingBit
  <2>3. Meaning.cells = <<Denotes(t, profile)>> /\ Meaning.bits = <<v.bits>>
    BY <1>2, <2>1
  <2>4. DOMAIN v.bits = DOMAIN Denotes(t, profile)
    BY <2>1, <2>2, WidthFits
  <2>5. t.type \in Types /\ spec.type = t.type /\ [code |-> spec.code, number |-> spec.number] = dev
    BY <2>1, <2>2, Accepted DEF SpecOf
  <2> HIDE DEF t, v, spec, dev
  <2>6. mem' = Store(mem, <<Denotes(t, profile)>>, <<v.bits>>)
    <3>1. CASE t.type = "BIT"
      <4>1. PICK form : request = WriteRequest(form, "bits", <<dev>>, <<v.bits>>)
        BY <2>2, <2>5, <3>1 DEF TypedWrite, valueTypeUsesDword
      <4>2. request.devices = OneBit(dev) /\ request.values = OneBit(v.bits)
        BY <4>1, UnitsOfOne DEF WriteRequest
      <4>3. Denotes(t, profile) = BitCells(dev)
        BY <3>1 DEF Denotes, valueTypeUsesDword, dev
      <4> QED
        BY <1>1, <4>2, <4>3, UnitStored
    <3>2. CASE valueTypeUsesDword(t.type)
      <4>1. PICK form : request = WriteRequest(form, "dwords", <<dev>>, <<v.bits>>)
        BY <2>2, <2>5, <3>2 DEF TypedWrite, valueTypeUsesDword
      <4>2. request.devices = OneDword(dev) /\ request.values = OneDword(v.bits)
        BY <4>1, UnitsOfOne DEF WriteRequest
      <4>3. Denotes(t, profile) = DwordCells(dev)
        BY <3>2 DEF Denotes, valueTypeUsesDword, dev
      <4> QED
        BY <1>1, <4>2, <4>3, UnitStored
    <3>3. CASE t.type # "BIT" /\ ~valueTypeUsesDword(t.type)
      <4>1. PICK form : request = WriteRequest(form, "words", <<dev>>, <<v.bits>>)
        BY <2>2, <2>5, <3>3 DEF TypedWrite, valueTypeUsesDword
      <4>2. request.devices = OneWord(dev) /\ request.values = OneWord(v.bits)
        BY <4>1, UnitsOfOne DEF WriteRequest
      <4>3. Denotes(t, profile) = WordCells(dev)
        BY <2>2, <3>3 DEF Denotes, valueTypeUsesDword, dev
      <4> QED
        BY <1>1, <4>2, <4>3, UnitStored
    <3> QED
      BY <3>1, <3>2, <3>3
  <2> QED
    BY <2>3, <2>4, <2>6
<1>4. CASE call.op = "writeNamed"
  <2>1. PICK k \in Nat : call.texts \in [1 .. k -> ListTexts] /\ call.values \in [1 .. k -> Formed]
    BY <1>4 DEF AccessInv, CallSound, Arguments, NoCall
  <2>2. /\ NamedWriteVerdict = "Ok"
        /\ request = NamedWrite([i \in DOMAIN call.texts |-> SpecOf(call.texts[i], profile)], call.values)
    BY <1>1, <1>4 DEF AccessInv, ListSound
  <2>3. DOMAIN call.texts = 1 .. k /\ DOMAIN call.values = 1 .. k /\ Len(call.texts) = k
    BY <2>1
  <2>4. \A i \in 1 .. k :
          /\ parseAddressSpec(call.texts[i], profile) = "Ok" /\ call.texts[i].type # "dot"
          /\ SpecOf(call.texts[i], profile).type = call.values[i].type
    BY <2>2, <2>3, NamedVerdict
  <2>5. request = NamedWrite([i \in 1 .. k |-> SpecOf(call.texts[i], profile)], call.values)
    BY <2>2, <2>3
  <2> DEFINE c == Covered(request.devices)  r == request.values
             cells == [i \in 1 .. k |-> Denotes(call.texts[i], profile)]
             bits == [i \in 1 .. k |-> call.values[i].bits]
  <2>6. mem' = Store(mem, c.words \o c.dwords \o c.bits, r.words \o r.dwords \o r.bits)
    BY <1>1 DEF Serve
  <2>7. Store(mem, c.words \o c.dwords \o c.bits, r.words \o r.dwords \o r.bits)
          = Store(mem, cells, bits)
    <3> DEFINE texts == call.texts  vs == call.values  nw == NamedWrite([i \in 1 .. k |-> SpecOf(texts[i], profile)], vs)
    <3>1. \A i \in 1 .. k : parseAddressSpec(texts[i], profile) = "Ok" /\ texts[i].type # "dot"
      BY <2>4
    <3>2. texts \in [1 .. k -> ListTexts] /\ vs \in [1 .. k -> Formed] /\ request = nw
      BY <2>1, <2>5
    <3>3. c = Covered(nw.devices) /\ r = nw.values
      BY <3>2
    <3> HIDE DEF texts, vs, c, r, nw
    <3>4. LET rr == NamedWrite([i \in 1 .. k |-> SpecOf(texts[i], profile)], vs)  cc == Covered(rr.devices)
          IN Store(mem, cc.words \o cc.dwords \o cc.bits, rr.values.words \o rr.values.dwords \o rr.values.bits)
               = Store(mem, [i \in 1 .. k |-> Denotes(texts[i], profile)], [i \in 1 .. k |-> vs[i].bits])
      BY <3>1, <3>2, NamedWriteStores
    <3> QED
      BY <3>3, <3>4 DEF nw, texts, vs
  <2>8. Meaning.cells = cells /\ Meaning.bits = bits
    BY <1>2, <2>3
  <2>9. ASSUME NEW i \in 1 .. k PROVE DOMAIN bits[i] = DOMAIN cells[i]
    <3>1. call.texts[i] \in CallTexts /\ call.values[i] \in Formed
      BY <2>1 DEF CallTexts
    <3> QED
      BY <2>4, <3>1, WidthFits
  <2> HIDE DEF c, r
  <2> QED
    BY <2>6, <2>7, <2>8, <2>9
<1> QED
  BY <1>3, <1>4

LEMMA ServeMaps ==
  ASSUME AccessInv, Serve
  PROVE  Registers!Next
<1>1. /\ phase = "sent" /\ phase' = "served" /\ Begun
      /\ UNCHANGED <<profile, call, request, result, out>>
  BY DEF Serve, Begun
<1>2. Meaning' = Meaning
  BY <1>1, MeaningKept
<1>3. Outcome = Registers!NoOutcome /\ Outcome' = Registers!NoOutcome
  <2>1. (phase # "idle" => Meaning # Registers!NoCall /\ Outcome = Registers!NoOutcome)'
    BY BusyMaps, PTL
  <2> QED
    BY <1>1, <2>1, BusyMaps
<1>4. SettingBit' = SettingBit /\ IsWrite(request)' = IsWrite(request)
  BY <1>1 DEF SettingBit, IsWrite
<1>5. /\ SettingBit => Seen' = reply'.words /\ Taken' = IF IsWrite(request) THEN "all" ELSE "sampled"
      /\ ~SettingBit => Taken' = "all"
  <2>1. (phase = "served" =>
           /\ SettingBit => Seen = reply.words /\ Taken = IF IsWrite(request) THEN "all" ELSE "sampled"
           /\ ~SettingBit => Taken = "all")'
    BY ServedMaps, PTL
  <2> QED
    BY <1>1, <1>4, <2>1
<1>6. CASE call.op \in Reading
  <2>1. ~SettingBit /\ ~IsWrite(request)
    BY <1>1, <1>6, WritesOnly
  <2>2. mem' = mem /\ Taken = "nothing" /\ Taken' = "all"
    BY <1>1, <1>5, <2>1, SentMaps DEF Serve
  <2>3. Meaning.kind = "read"
    BY <1>1, <1>6, <2>1 DEF Meaning
  <2>4. Seen' = [i \in DOMAIN Meaning.cells |-> Registers!Sample(mem, Meaning.cells[i])]
    BY <1>6, ServedReads, SameMemory
  <2>5. Registers!Read
    BY <1>2, <1>3, <2>2, <2>3, <2>4 DEF Registers!Read
  <2> QED
    BY <2>5 DEF Registers!Next
<1>7. CASE call.op \in {"writeTyped", "writeNamed"} /\ ~SettingBit
  <2>1. IsWrite(request) /\ call.op \notin Reading
    BY <1>1, <1>7, WritesOnly
  <2>2. Taken = "nothing" /\ Taken' = "all" /\ Seen = <<>> /\ Seen' = <<>>
    BY <1>1, <1>4, <1>5, <1>7, SentMaps DEF Seen, SnapshotReads
  <2>3. Meaning.kind = "write"
    BY <1>1, <1>7, <2>1 DEF Meaning
  <2>4. /\ mem' = Registers!Store(mem, Meaning.cells, Meaning.bits)
        /\ Registers!Fitting
    BY <1>7, ServedWrites, SameMemory DEF Registers!Fitting
  <2>5. Registers!Write
    BY <1>2, <1>3, <2>2, <2>3, <2>4 DEF Registers!Write
  <2> QED
    BY <2>5 DEF Registers!Next
<1>8. CASE SettingBit
  <2> DEFINE dev == [code |-> call.texts[1].code, number |-> NumberIn(call.texts[1], profile)]
             bit == call.texts[1].bit
             v == call.values[1].bits[1]
  <2>1. /\ request.devices = OneWord(dev)
        /\ IsWrite(request) =>
             request.values = [words |-> <<WithBit(reply.words[1], bit, v)>>,
                               dwords |-> <<>>, bits |-> <<>>]
    BY <1>1, <1>8, BitWritten
  <2>2. call.op = "writeTyped" /\ \E u \in Formed : call.values = <<u>>
    BY <1>8 DEF AccessInv, CallSound, Arguments, SettingBit, NoCall
  <2>3. /\ Meaning.kind = "setBit" /\ Meaning.cells = <<WordCells(dev)>> /\ Meaning.bit = bit
        /\ Meaning.bits = [i \in DOMAIN call.values |-> call.values[i].bits]
    BY <1>1, <1>8, <2>2 DEF Meaning
  <2>4. Meaning.cells[1] = WordCells(dev) /\ Meaning.bits[1][1] = v
    BY <2>2, <2>3
  <2> HIDE DEF dev, bit, v
  <2>5. CASE ~IsWrite(request)
    <3>1. mem' = mem /\ reply' = Answer(request.devices)
      BY <2>5 DEF Serve, Answer
    <3>2. Seen' = <<Sample(mem, WordCells(dev))>> /\ Taken = "nothing" /\ Taken' = "sampled"
      BY <1>1, <1>5, <1>8, <2>1, <2>5, <3>1, SentMaps, AnswerToOne
    <3>3. Registers!ReadWord
      BY <1>2, <1>3, <2>3, <2>4, <3>1, <3>2, SameMemory DEF Registers!ReadWord
    <3> QED
      BY <3>3 DEF Registers!Next
  <2>6. CASE IsWrite(request)
    <3>1. reply' = reply
      BY <2>6 DEF Serve
    <3>2. Seen = reply.words /\ Seen' = reply.words /\ Taken = "sampled" /\ Taken' = "all"
      BY <1>1, <1>5, <1>8, <2>6, <3>1, SentMaps
    <3>3. request.values = OneWord(WithBit(reply.words[1], bit, v))
      BY <2>1, <2>6 DEF OneWord
    <3>4. mem' = Store(mem, <<WordCells(dev)>>, <<WithBit(reply.words[1], bit, v)>>)
      BY <2>1, <2>6, <3>3, UnitStored
    <3>5. mem' = Registers!Store(mem, Meaning.cells,
                                 <<[Seen[1] EXCEPT ![Meaning.bit + 1] = Meaning.bits[1][1]]>>)
      BY <2>3, <2>4, <3>2, <3>4, SameMemory DEF WithBit
    <3>6. Registers!WriteWord
      BY <1>2, <1>3, <2>3, <3>2, <3>5 DEF Registers!WriteWord
    <3> QED
      BY <3>6 DEF Registers!Next
  <2> QED
    BY <2>5, <2>6
<1> QED
  BY <1>1, <1>6, <1>7, <1>8, WritesOnly DEF Reading

(* What happens beside a call means nothing to it. *)
LEMMA AsideMaps ==
  ASSUME UNCHANGED <<profile, call, phase, request, reply, result, out>>
  PROVE  Registers!Next
<1>1. UNCHANGED <<Meaning, Taken, Seen, Outcome>>
  BY DEF Meaning, Asked, SettingBit, Taken, IsWrite, Seen, EntryValue, Outcome, Ended
<1> QED
  BY <1>1 DEF Registers!Next, Registers!PlcChanges

(* Between calls, neither does the poller's plan or the profile. *)
LEMMA BetweenMaps ==
  ASSUME phase = "idle", UNCHANGED <<call, phase, result, out>>
  PROVE  Registers!Next
<1>1. (phase = "idle" => Meaning = Registers!NoCall /\ Taken = "nothing" /\ Seen = <<>>)'
  BY IdleMaps, PTL
<1>2. UNCHANGED <<Meaning, Taken, Seen, Outcome>>
  BY <1>1, IdleMaps DEF Outcome, Ended
<1> QED
  BY <1>2 DEF Registers!Next, Registers!PlcChanges

LEMMA ForgetMaps ==
  ASSUME Forget
  PROVE  Registers!Next
<1>1. phase = "idle" /\ phase' = "idle" /\ mem' = mem /\ call' = NoCall /\ out' = <<>>
  BY DEF Forget
<1>2. (phase = "idle" => Meaning = Registers!NoCall /\ Taken = "nothing" /\ Seen = <<>>)'
  BY IdleMaps, PTL
<1>3. Outcome' = Registers!NoOutcome
  BY <1>1 DEF Outcome, Ended, Registers!NoOutcome
<1>4. Registers!Forget
  BY <1>1, <1>2, <1>3, IdleMaps DEF Registers!Forget
<1> QED
  BY <1>4 DEF Registers!Next

LEMMA InitMaps ==
  ASSUME Init
  PROVE  Registers!Init
<1>1. phase = "idle" /\ call = NoCall /\ out = <<>> /\ mem = InitialMem
  BY DEF Init
<1>2. Outcome = Registers!NoOutcome
  BY <1>1 DEF Outcome, Ended, Registers!NoOutcome
<1>3. mem \in SUBSET (Registers!Codes \X Nat \X (0 .. 2 * WordBits - 1))
  BY <1>1, AccessAssumption DEF Cells, Cell, Codes, WordCodes, BitCodes,
     Registers!Codes, Registers!WordCodes, Registers!BitCodes
<1> QED
  BY <1>1, <1>2, <1>3, IdleMaps DEF Registers!Init

(* Every call of the facade reads its names at one instant, or writes them  *)
(* all and nothing else at one instant, whatever the texts, the types and   *)
(* the lengths of the lists, and whatever the PLC changes meanwhile.        *)
THEOREM FacadeImplements == Spec => ImplementsRegisters
<1>1. Init => Registers!Init
  BY InitMaps
<1>2. ASSUME AccessInv, [Next]_vars PROVE [Registers!Next]_(Registers!vars)
  <2>1. CASE CallsWithNames \/ CallsWithPlans
    BY <2>1, BeginMaps
  <2>2. CASE Statements
    BY <1>2, <2>2, StatementMaps
  <2>3. CASE Finishes
    BY <1>2, <2>3, FinishMaps
  <2>4. CASE \E ts \in Lists(MaxPolled), p \in Profiles \cup {"none"} : Compile(ts, p)
    BY <2>4, BetweenMaps DEF Compile
  <2>5. CASE \E p \in Profiles : setPlcProfile(p)
    BY <2>5, BetweenMaps DEF setPlcProfile
  <2>6. CASE Forget
    BY <2>6, ForgetMaps
  <2>7. CASE Serve
    BY <1>2, <2>7, ServeMaps
  <2>8. CASE RequestFails
    <3>1. phase # "idle" /\ phase' = "idle" /\ mem' = mem /\ result' # "Ok"
      BY <2>8 DEF RequestFails, Return
    <3> QED
      BY <3>1, FailMaps DEF Registers!Next
  <2>9. CASE \E c \in Volatile : PlcChanges(c)
    BY <2>9, AsideMaps DEF PlcChanges
  <2>10. CASE PlcRestores
    BY <2>10, AsideMaps DEF PlcRestores
  <2>11. CASE UNCHANGED vars
    BY <2>11, AsideMaps DEF vars
  <2> QED
    BY <1>2, <2>1, <2>2, <2>3, <2>4, <2>5, <2>6, <2>7, <2>8, <2>9, <2>10, <2>11 DEF Next
<1>3. AccessInv /\ [Next]_vars => [Registers!Next]_(Registers!vars)
  BY <1>2
<1> QED
  BY <1>1, <1>3, AccessAlways, PTL DEF Spec, ImplementsRegisters, Registers!Spec
=============================================================================
