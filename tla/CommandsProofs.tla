---------------------------- MODULE CommandsProofs ----------------------------
(***************************************************************************)
(* Theorems about Commands, for any settings, requests with any arguments, *)
(* limits and buffers of any size, and any answer: what a begin call       *)
(* writes and tells the PLC, what completeAsync stores, and what the       *)
(* application believes the PLC monitors.                                  *)
(***************************************************************************)
EXTENDS Commands, SequenceTheorems, Recursion

-----------------------------------------------------------------------------
(* Sums *)

(* SumOf is what any running sum ends with. *)
LEMMA SumIs ==
  ASSUME NEW k \in Nat, NEW sizes \in [1 .. k -> Nat], NEW g \in [0 .. k -> Nat],
         g[0] = 0, \A n \in 1 .. k : g[n] = g[n - 1] + sizes[n]
  PROVE  SumOf(sizes) = g[k]
<1> DEFINE each(f, n) == IF n = 0 THEN 0 ELSE f[n - 1] + sizes[n]
           upTo == CHOOSE f : f = [n \in 0 .. k |-> each(f, n)]
<1>1. Len(sizes) = k
  OBVIOUS
<1>2. SumOf(sizes) = upTo[k]
  BY <1>1 DEF SumOf
<1>3. g = [n \in 0 .. k |-> each(g, n)]
  OBVIOUS
<1>4. upTo = [n \in 0 .. k |-> each(upTo, n)]
  BY <1>3
<1> HIDE DEF upTo
<1> DEFINE S == {n \in 0 .. k : upTo[n] = g[n]}
<1>5. 0 \in S
  BY <1>4
<1>6. ASSUME NEW n \in 1 .. k, n - 1 \in S PROVE n \in S
  <2>1. upTo[n - 1] = g[n - 1] /\ n \in 0 .. k /\ n # 0
    BY <1>6
  <2> QED
    BY <1>4, <2>1
<1> HIDE DEF S
<1>7. \A n \in 0 .. k : n \in S
  BY <1>5, <1>6, FiniteInduction
<1> USE DEF S
<1> QED
  BY <1>2, <1>7

(* Every list has running sums. *)
LEMMA SumsOf ==
  ASSUME NEW k \in Nat, NEW sizes \in [1 .. k -> Nat]
  PROVE  \E g \in [0 .. k -> Nat] : /\ g[0] = 0 /\ \A n \in 1 .. k : g[n] = g[n - 1] + sizes[n]
                                    /\ SumOf(sizes) = g[k]
<1> DEFINE step == [n \in 1 .. k |-> [v \in Nat |-> v + sizes[n]]]
<1>1. step \in Steps(k, Nat)
  BY DEF Steps
<1>2. \A n \in 1 .. k, v \in Nat : step[n][v] = v + sizes[n]
  OBVIOUS
<1> HIDE DEF step
<1>3. PICK g \in [0 .. k -> Nat] : Unfolds(g, k, 0, step)
  BY <1>1, FiniteRecursion
<1>4. g[0] = 0 /\ \A n \in 1 .. k : g[n] = g[n - 1] + sizes[n]
  <2>1. g[0] = 0
    BY <1>3 DEF Unfolds
  <2>2. ASSUME NEW n \in 1 .. k PROVE g[n] = g[n - 1] + sizes[n]
    <3>1. n \in 0 .. k /\ n # 0 /\ g[n - 1] \in Nat
      OBVIOUS
    <3>2. g[n] = step[n][g[n - 1]]
      BY <1>3, <3>1 DEF Unfolds
    <3> QED
      BY <1>2, <3>1, <3>2
  <2> QED
    BY <2>1, <2>2
<1>5. SumOf(sizes) = g[k]
  BY <1>4, SumIs
<1> QED
  BY <1>4, <1>5

LEMMA SumIsNat ==
  ASSUME NEW k \in Nat, NEW sizes \in [1 .. k -> Nat]
  PROVE  SumOf(sizes) \in Nat
BY SumsOf

LEMMA SumOfNone == ASSUME NEW sizes \in [1 .. 0 -> Nat] PROVE SumOf(sizes) = 0
BY SumsOf

LEMMA SumOfOne ==
  ASSUME NEW c \in Nat, NEW sizes, sizes \in [1 .. 1 -> Nat], sizes[1] = c
  PROVE  SumOf(sizes) = c
<1>1. PICK g \in [0 .. 1 -> Nat] : /\ g[0] = 0 /\ \A n \in 1 .. 1 : g[n] = g[n - 1] + sizes[n]
                                   /\ SumOf(sizes) = g[1]
  BY SumsOf
<1>2. g[1] = g[0] + sizes[1]
  BY <1>1
<1> QED
  BY <1>1, <1>2

LEMMA SumOfSame ==
  ASSUME NEW k \in Nat, NEW c \in Nat, NEW sizes \in [1 .. k -> Nat], \A i \in 1 .. k : sizes[i] = c
  PROVE  SumOf(sizes) = k * c
<1> DEFINE g == [n \in 0 .. k |-> n * c]
<1>1. \A n \in Nat : n * c \in Nat /\ (n + 1) * c = n * c + c
  OBVIOUS
<1>2. g \in [0 .. k -> Nat] /\ g[0] = 0
  BY <1>1
<1>3. \A n \in 1 .. k : g[n] = g[n - 1] + sizes[n]
  <2> TAKE n \in 1 .. k
  <2>1. n - 1 \in Nat /\ n = (n - 1) + 1 /\ n \in 0 .. k /\ n - 1 \in 0 .. k
    OBVIOUS
  <2>2. n * c = (n - 1) * c + c
    BY <1>1, <2>1
  <2> QED
    BY <2>1, <2>2
<1> HIDE DEF g
<1>4. SumOf(sizes) = g[k]
  BY <1>2, <1>3, SumIs
<1> QED
  BY <1>4 DEF g

(* The sum of two lists one after the other *)
LEMMA SumOfBoth ==
  ASSUME NEW j \in Nat, NEW k \in Nat, NEW a \in [1 .. j -> Nat], NEW b \in [1 .. k -> Nat],
         NEW all \in [1 .. j + k -> Nat],
         \A i \in 1 .. j : all[i] = a[i], \A i \in 1 .. k : all[j + i] = b[i]
  PROVE  SumOf(all) = SumOf(a) + SumOf(b)
<1>1. PICK f \in [0 .. j -> Nat] : /\ f[0] = 0 /\ \A n \in 1 .. j : f[n] = f[n - 1] + a[n]
                                   /\ SumOf(a) = f[j]
  BY SumsOf
<1>2. PICK g \in [0 .. k -> Nat] : /\ g[0] = 0 /\ \A n \in 1 .. k : g[n] = g[n - 1] + b[n]
                                   /\ SumOf(b) = g[k]
  BY SumsOf
<1> DEFINE h == [n \in 0 .. j + k |-> IF n <= j THEN f[n] ELSE f[j] + g[n - j]]
<1>3. h \in [0 .. j + k -> Nat] /\ h[0] = 0 /\ j + k \in Nat
  <2>1. ASSUME NEW n \in 0 .. j + k PROVE h[n] \in Nat
    <3>1. CASE n <= j
      BY <3>1
    <3>2. CASE n > j
      <4>1. n - j \in 0 .. k /\ j \in 0 .. j
        BY <3>2
      <4>2. g[n - j] \in Nat /\ f[j] \in Nat
        BY <4>1
      <4> QED
        BY <3>2, <4>2
    <3> QED
      BY <3>1, <3>2
  <2>2. h[0] = 0 /\ j + k \in Nat
    BY <1>1
  <2> QED
    BY <2>1, <2>2
<1>4. \A n \in 1 .. j + k : h[n] = h[n - 1] + all[n]
  <2> TAKE n \in 1 .. j + k
  <2>1. CASE n <= j
    BY <1>1, <2>1
  <2>2. CASE n > j
    <3>1. n - j \in 1 .. k /\ all[n] = b[n - j]
      <4>1. n - j \in 1 .. k /\ n = j + (n - j)
        BY <2>2
      <4> QED
        BY <4>1
    <3>2. g[n - j] = g[n - j - 1] + b[n - j]
      BY <1>2, <3>1
    <3>3. h[n] = f[j] + g[n - j]
      BY <2>2
    <3>4. h[n - 1] = f[j] + g[n - j - 1]
      <4>1. CASE n - 1 = j
        BY <1>1, <1>2, <4>1
      <4>2. CASE n - 1 > j
        BY <4>2
      <4> QED
        BY <2>2, <4>1, <4>2
    <3>5. f[j] \in Nat /\ g[n - j - 1] \in Nat /\ b[n - j] \in Nat
      BY <3>1
    <3> QED
      BY <3>1, <3>2, <3>3, <3>4, <3>5
  <2> QED
    BY <2>1, <2>2
<1> HIDE DEF h
<1>5. SumOf(all) = h[j + k]
  BY <1>3, <1>4, SumIs
<1>6. h[j + k] = f[j] + g[k]
  <2>1. CASE k = 0
    BY <1>1, <1>2, <2>1 DEF h
  <2>2. CASE k > 0
    BY <2>2 DEF h
  <2> QED
    BY <2>1, <2>2
<1> QED
  BY <1>1, <1>2, <1>5, <1>6

-----------------------------------------------------------------------------
(* What a begin call comes to *)

Setting == [frame : {"3E", "4E"}, mode : {"Legacy", "iQR"}, txCapacity : Nat, rxCapacity : Nat,
            connected : BOOLEAN, blocked : SUBSET STRING, blockAccess : BOOLEAN]

LEMMA SettingIs ==
  ASSUME NEW s \in Settings
  PROVE  /\ s \in Setting /\ s.txCapacity \in Nat /\ s.rxCapacity \in Nat
         /\ s.connected => s.txCapacity >= 19 /\ s.rxCapacity >= 15
         /\ SpecSize(s) \in {4, 6} /\ ModuleSpecSize(s) \in {11, 13} /\ HeaderSize(s) \in {15, 19}
         /\ PrefixSize(s) \in {9, 13}
BY SettingAssumption DEF Setting, SpecSize, ModuleSpecSize, HeaderSize, PrefixSize

(* The checks are passed just when each of them is. *)
LEMMA Passed ==
  ASSUME NEW n \in Nat, NEW checks, DOMAIN checks = 1 .. n, FirstError(checks) = "Ok"
  PROVE  \A i \in 1 .. n : checks[i] = "Ok"
<1> DEFINE failed == {i \in DOMAIN checks : checks[i] # "Ok"}
<1> SUFFICES ASSUME failed # {} PROVE FALSE
  OBVIOUS
<1>1. failed \in SUBSET Nat
  OBVIOUS
<1>2. \E m \in failed : \A i \in failed : m <= i
  BY <1>1, Smallest
<1>3. Min(failed) \in failed
  BY <1>2 DEF Min
<1>4. FirstError(checks) = checks[Min(failed)]
  BY DEF FirstError
<1> QED
  BY <1>3, <1>4

Chunks == [needs : Nat, writes : Nat]
WritesOf(chunks) == SumOf([i \in DOMAIN chunks |-> chunks[i].writes])

Fill == [end : Nat, fits : BOOLEAN]
Empty == [end |-> 0, fits |-> TRUE]

(* One more chunk *)
Filled(capacity, v, c) ==
    IF v.fits /\ capacity - v.end >= c.needs THEN [v EXCEPT !.end = @ + c.writes]
    ELSE [v EXCEPT !.fits = FALSE]

LEMMA FilledIs ==
  ASSUME NEW capacity \in Nat, NEW v \in Fill, NEW c \in Chunks
  PROVE  Filled(capacity, v, c) \in Fill
<1>1. v.end \in Nat /\ v.fits \in BOOLEAN /\ c.writes \in Nat
  BY DEF Fill, Chunks
<1>2. v.end + c.writes \in Nat
  BY <1>1
<1>3. [v EXCEPT !.end = @ + c.writes] \in Fill
  BY <1>2 DEF Fill
<1>4. [v EXCEPT !.fits = FALSE] \in Fill
  BY DEF Fill
<1> QED
  BY <1>3, <1>4 DEF Filled

(* The encoder writes chunk after chunk. *)
LEMMA WrittenRuns ==
  ASSUME NEW capacity \in Nat, NEW k \in Nat, NEW chunks \in [1 .. k -> Chunks]
  PROVE  \E f \in [0 .. k -> Fill] :
            /\ f[0] = Empty /\ \A n \in 1 .. k : f[n] = Filled(capacity, f[n - 1], chunks[n])
            /\ Written(capacity, chunks) = f[k]
<1> DEFINE step == [n \in 1 .. k |-> [v \in Fill |-> Filled(capacity, v, chunks[n])]]
           each(g, n) == IF n = 0 THEN Empty ELSE Filled(capacity, g[n - 1], chunks[n])
           upTo == CHOOSE g : g = [n \in 0 .. k |-> each(g, n)]
<1>1. Len(chunks) = k
  OBVIOUS
<1>2. Written(capacity, chunks) = upTo[k]
  BY <1>1 DEF Written, Filled, Empty
<1>3. \A n \in 1 .. k, v \in Fill : Filled(capacity, v, chunks[n]) \in Fill
  BY FilledIs
<1>4. step \in Steps(k, Fill)
  BY <1>3 DEF Steps
<1>5. \A n \in 1 .. k, v \in Fill : step[n][v] = Filled(capacity, v, chunks[n])
  OBVIOUS
<1>6. Empty \in Fill
  BY DEF Empty, Fill
<1> HIDE DEF step
<1>7. PICK f \in [0 .. k -> Fill] : Unfolds(f, k, Empty, step)
  BY <1>4, <1>6, FiniteRecursion
<1>8. f[0] = Empty
  BY <1>7 DEF Unfolds
<1>9. ASSUME NEW n \in 1 .. k PROVE f[n] = Filled(capacity, f[n - 1], chunks[n])
  <2>1. n \in 0 .. k /\ n # 0 /\ f[n - 1] \in Fill
    OBVIOUS
  <2>2. f[n] = step[n][f[n - 1]]
    BY <1>7, <2>1 DEF Unfolds
  <2> QED
    BY <1>5, <2>1, <2>2
<1>10. f = [n \in 0 .. k |-> each(f, n)]
  <2> DEFINE F(n) == each(f, n)
  <2>1. \A n \in 0 .. k : f[n] = F(n)
    BY <1>8, <1>9
  <2> HIDE DEF F
  <2>2. f = [n \in 0 .. k |-> F(n)]
    BY <2>1
  <2> QED
    BY <2>2 DEF F
<1>11. upTo = [n \in 0 .. k |-> each(upTo, n)]
  BY <1>10
<1> HIDE DEF upTo
<1>12. \A n \in 0 .. k : upTo[n] = each(upTo, n)
  <2> DEFINE F(n) == each(upTo, n)
  <2>1. upTo = [n \in 0 .. k |-> F(n)]
    BY <1>11
  <2> HIDE DEF F
  <2>2. \A n \in 0 .. k : upTo[n] = F(n)
    BY <2>1
  <2> QED
    BY <2>2 DEF F
<1> DEFINE S == {n \in 0 .. k : upTo[n] = f[n]}
<1>13. 0 \in S
  BY <1>8, <1>12
<1>14. ASSUME NEW n \in 1 .. k, n - 1 \in S PROVE n \in S
  <2>1. n \in 0 .. k /\ n # 0 /\ upTo[n - 1] = f[n - 1]
    BY <1>14
  <2>2. upTo[n] = Filled(capacity, upTo[n - 1], chunks[n])
    BY <1>12, <2>1
  <2> QED
    BY <1>9, <2>1, <2>2
<1> HIDE DEF S
<1>15. \A n \in 0 .. k : n \in S
  BY <1>13, <1>14, FiniteInduction
<1>16. upTo[k] = f[k]
  BY <1>15 DEF S
<1> QED
  BY <1>2, <1>8, <1>9, <1>16

(* The encoder stops at the first chunk that has no room.  What it has      *)
(* written until then is in the buffer, if no chunk writes more than it     *)
(* asks for.                                                                *)
LEMMA WrittenIs ==
  ASSUME NEW capacity \in Nat, NEW k \in Nat, NEW chunks \in [1 .. k -> Chunks]
  PROVE  LET w == Written(capacity, chunks) IN
         /\ w.end \in Nat
         /\ w.fits => w.end = WritesOf(chunks)
         /\ (\A i \in 1 .. k : chunks[i].writes <= chunks[i].needs) => w.end <= capacity
<1>1. PICK f \in [0 .. k -> Fill] :
            /\ f[0] = Empty /\ \A n \in 1 .. k : f[n] = Filled(capacity, f[n - 1], chunks[n])
            /\ Written(capacity, chunks) = f[k]
  BY WrittenRuns
<1> DEFINE sizes == [i \in 1 .. k |-> chunks[i].writes]
           Small == \A i \in 1 .. k : chunks[i].writes <= chunks[i].needs
<1>2. \A n \in 1 .. k : chunks[n].needs \in Nat /\ chunks[n].writes \in Nat
  BY DEF Chunks
<1>3. PICK g \in [0 .. k -> Nat] : /\ g[0] = 0 /\ \A n \in 1 .. k : g[n] = g[n - 1] + sizes[n]
                                   /\ SumOf(sizes) = g[k]
  <2>1. sizes \in [1 .. k -> Nat]
    BY <1>2
  <2> HIDE DEF sizes
  <2> QED
    BY <2>1, SumsOf
<1> DEFINE S == {n \in 0 .. k : (f[n].fits => f[n].end = g[n]) /\ (Small => f[n].end <= capacity)}
<1>4. 0 \in S
  BY <1>1, <1>3 DEF Empty
<1>5. ASSUME NEW n \in 1 .. k, n - 1 \in S PROVE n \in S
  <2> DEFINE v == f[n - 1]
  <2>1. /\ v \in Fill /\ v.end \in Nat /\ (v.fits => v.end = g[n - 1]) /\ (Small => v.end <= capacity)
        /\ n \in 0 .. k
    BY <1>1, <1>5 DEF Fill
  <2>2. f[n] = Filled(capacity, v, chunks[n])
    BY <1>1
  <2>3. g[n] = g[n - 1] + chunks[n].writes /\ g[n - 1] \in Nat
    BY <1>3, <2>1
  <2>4. Small => chunks[n].writes <= chunks[n].needs
    OBVIOUS
  <2> HIDE DEF v, Small
  <2>5. /\ Filled(capacity, v, chunks[n]).fits => Filled(capacity, v, chunks[n]).end = g[n]
        /\ Small => Filled(capacity, v, chunks[n]).end <= capacity
    BY <1>2, <2>1, <2>3, <2>4, SMTT(30) DEF Filled, Fill
  <2> QED
    BY <2>1, <2>2, <2>5
<1> HIDE DEF S
<1>6. \A n \in 0 .. k : n \in S
  BY <1>4, <1>5, FiniteInduction
<1>7. f[k] \in Fill /\ (f[k].fits => f[k].end = SumOf(sizes)) /\ (Small => f[k].end <= capacity)
  BY <1>3, <1>6 DEF S
<1>8. WritesOf(chunks) = SumOf(sizes)
  BY DEF WritesOf
<1> HIDE DEF sizes
<1> QED
  BY <1>1, <1>7, <1>8 DEF Fill

LEMMA WrittenNone ==
  ASSUME NEW capacity \in Nat
  PROVE  Written(capacity, <<>>) = Empty
<1>1. <<>> \in [1 .. 0 -> Chunks]
  OBVIOUS
<1> QED
  BY <1>1, WrittenRuns, ZenonT(60)

LEMMA WrittenOne ==
  ASSUME NEW capacity \in Nat, NEW needs \in Nat, NEW writes \in Nat
  PROVE  LET w == Written(capacity, <<Chunk(needs, writes)>>) IN
         /\ w.fits <=> capacity >= needs
         /\ w.end = IF w.fits THEN writes ELSE 0
<1> DEFINE c == Chunk(needs, writes)  chunks == <<c>>
<1>1. c \in Chunks /\ c.needs = needs /\ c.writes = writes
  BY DEF Chunks, Chunk
<1>2. chunks \in [1 .. 1 -> Chunks] /\ chunks[1] = c
  BY <1>1
<1> HIDE DEF chunks, c
<1>3. PICK f \in [0 .. 1 -> Fill] :
            /\ f[0] = Empty /\ \A n \in 1 .. 1 : f[n] = Filled(capacity, f[n - 1], chunks[n])
            /\ Written(capacity, chunks) = f[1]
  <2> DEFINE k == 1
  <2>1. k \in Nat /\ chunks \in [1 .. k -> Chunks]
    BY <1>2
  <2> HIDE DEF k
  <2>2. \E f \in [0 .. k -> Fill] :
            /\ f[0] = Empty /\ \A n \in 1 .. k : f[n] = Filled(capacity, f[n - 1], chunks[n])
            /\ Written(capacity, chunks) = f[k]
    BY <2>1, WrittenRuns
  <2> QED
    BY <2>2 DEF k
<1>4. f[1] = Filled(capacity, f[0], chunks[1])
  BY <1>3
<1>5. Written(capacity, chunks) = Filled(capacity, Empty, c)
  BY <1>2, <1>3, <1>4
<1>6. Empty \in Fill /\ Empty.fits = TRUE /\ Empty.end = 0
  BY DEF Empty, Fill
<1>7. /\ [Empty EXCEPT !.end = Empty.end + writes].fits = TRUE
      /\ [Empty EXCEPT !.end = Empty.end + writes].end = writes
      /\ [Empty EXCEPT !.fits = FALSE].fits = FALSE /\ [Empty EXCEPT !.fits = FALSE].end = 0
  BY <1>6 DEF Fill
<1> DEFINE w == Filled(capacity, Empty, c)
<1>8. (w.fits <=> capacity >= needs) /\ w.end = IF w.fits THEN writes ELSE 0
  <2>1. CASE capacity >= needs
    BY <1>1, <1>6, <1>7, <2>1 DEF Filled
  <2>2. CASE ~(capacity >= needs)
    BY <1>1, <1>6, <1>7, <2>2 DEF Filled
  <2> QED
    BY <2>1, <2>2
<1> QED
  BY <1>5, <1>8 DEF chunks, c

(* A begin call tells t.  What it writes is in the buffer, and size bytes   *)
(* when it sends the request.                                               *)
Encodes(s, e, t, size) ==
    /\ e.tells = t /\ e.end \in Nat
    /\ s.connected => e.end <= s.txCapacity
    /\ e.error = "Ok" => e.end = size

LEMMA EncodedIs ==
  ASSUME NEW s, NEW n \in Nat, NEW checks, DOMAIN checks = 1 .. n, NEW chunks, NEW t, NEW e,
         e = Encoded(s, checks, chunks, t)
  PROVE  /\ e.tells = t /\ e.end \in {0, Written(s.txCapacity, chunks).end}
         /\ e.error = "Ok" => /\ \A i \in 1 .. n : checks[i] = "Ok"
                              /\ e.end = Written(s.txCapacity, chunks).end
                              /\ Written(s.txCapacity, chunks).fits
<1>1. e.tells = t /\ e.end \in {0, Written(s.txCapacity, chunks).end}
  BY DEF Encoded
<1>2. ASSUME e.error = "Ok"
      PROVE  FirstError(checks) = "Ok" /\ Written(s.txCapacity, chunks).fits
             /\ e.end = Written(s.txCapacity, chunks).end
  BY <1>2 DEF Encoded, Refuse
<1> QED
  BY <1>1, <1>2, Passed

(* A begin call that writes everything at once *)
LEMMA OneChunk ==
  ASSUME NEW s \in Settings, NEW n \in Nat, NEW checks, DOMAIN checks = 1 .. n,
         NEW needs \in Nat, NEW writes \in Nat, writes <= needs \/ writes <= 19,
         NEW t, NEW e, e = Encoded(s, checks, <<Chunk(needs, writes)>>, t)
  PROVE  /\ Encodes(s, e, t, writes)
         /\ e.error = "Ok" => \A i \in 1 .. n : checks[i] = "Ok"
<1> DEFINE chunks == <<Chunk(needs, writes)>>  w == Written(s.txCapacity, chunks)
<1>1. s.txCapacity \in Nat /\ (s.connected => s.txCapacity >= 19)
  BY SettingIs
<1>2. (w.fits <=> s.txCapacity >= needs) /\ w.end = IF w.fits THEN writes ELSE 0
  BY <1>1, WrittenOne
<1> HIDE DEF chunks
<1>3. /\ e.tells = t /\ e.end \in {0, w.end}
      /\ e.error = "Ok" => (\A i \in 1 .. n : checks[i] = "Ok") /\ e.end = w.end /\ w.fits
  BY EncodedIs DEF chunks
<1> HIDE DEF w
<1> QED
  BY <1>1, <1>2, <1>3 DEF Encodes

LEMMA NoChunk ==
  ASSUME NEW s \in Settings, NEW n \in Nat, NEW checks, DOMAIN checks = 1 .. n,
         NEW t, NEW e, e = Encoded(s, checks, <<>>, t)
  PROVE  /\ Encodes(s, e, t, 0)
         /\ e.error = "Ok" => \A i \in 1 .. n : checks[i] = "Ok"
<1>1. s.txCapacity \in Nat
  BY SettingIs
<1>2. Written(s.txCapacity, <<>>).end = 0
  BY <1>1, WrittenNone DEF Empty
<1>3. /\ e.tells = t /\ e.end \in {0, Written(s.txCapacity, <<>>).end}
      /\ e.error = "Ok" => \A i \in 1 .. n : checks[i] = "Ok"
  BY EncodedIs
<1> QED
  BY <1>1, <1>2, <1>3 DEF Encodes

(* A begin call that asks for the room of each of its parts *)
LEMMA ManyChunks ==
  ASSUME NEW s \in Settings, NEW n \in Nat, NEW checks, DOMAIN checks = 1 .. n,
         NEW k \in Nat, NEW chunks \in [1 .. k -> Chunks],
         \A i \in 1 .. k : chunks[i].writes <= chunks[i].needs,
         NEW t, NEW e, e = Encoded(s, checks, chunks, t)
  PROVE  /\ Encodes(s, e, t, WritesOf(chunks))
         /\ e.error = "Ok" => \A i \in 1 .. n : checks[i] = "Ok"
<1> DEFINE w == Written(s.txCapacity, chunks)
<1>1. s.txCapacity \in Nat
  BY SettingIs
<1>2. w.end \in Nat /\ (w.fits => w.end = WritesOf(chunks)) /\ w.end <= s.txCapacity
  BY <1>1, WrittenIs
<1>3. /\ e.tells = t /\ e.end \in {0, w.end}
      /\ e.error = "Ok" => (\A i \in 1 .. n : checks[i] = "Ok") /\ e.end = w.end /\ w.fits
  BY EncodedIs
<1> HIDE DEF w
<1> QED
  BY <1>1, <1>2, <1>3 DEF Encodes

LEMMA ExactlyIs ==
  ASSUME NEW m \in Nat
  PROVE  Exactly(m) \in Chunks /\ Exactly(m) = Chunk(m, m) /\ Exactly(m).writes = m /\ Exactly(m).needs = m
BY DEF Exactly, Chunk, Chunks

LEMMA WritesOfTwo ==
  ASSUME NEW a \in Nat, NEW b \in Nat
  PROVE  /\ <<Exactly(a), Exactly(b)>> \in [1 .. 2 -> Chunks]
         /\ \A i \in 1 .. 2 : <<Exactly(a), Exactly(b)>>[i].writes <= <<Exactly(a), Exactly(b)>>[i].needs
         /\ WritesOf(<<Exactly(a), Exactly(b)>>) = a + b
<1> DEFINE chunks == <<Exactly(a), Exactly(b)>>  sizes == [i \in 1 .. 2 |-> chunks[i].writes]
           g == [n \in 0 .. 2 |-> IF n = 0 THEN 0 ELSE IF n = 1 THEN a ELSE a + b]
           k == 2
<1>1. chunks[1] = Exactly(a) /\ chunks[2] = Exactly(b) /\ DOMAIN chunks = 1 .. 2
  OBVIOUS
<1>2. sizes \in [1 .. 2 -> Nat] /\ sizes[1] = a /\ sizes[2] = b
  BY <1>1, ExactlyIs
<1>3. g \in [0 .. 2 -> Nat] /\ g[0] = 0 /\ g[1] = a /\ g[2] = a + b
  OBVIOUS
<1> HIDE DEF g, sizes
<1>4. \A n \in 1 .. 2 : g[n] = g[n - 1] + sizes[n]
  BY <1>2, <1>3
<1> HIDE DEF k
<1>5. k \in Nat /\ sizes \in [1 .. k -> Nat] /\ g \in [0 .. k -> Nat] /\ g[k] = a + b
      /\ \A n \in 1 .. k : g[n] = g[n - 1] + sizes[n]
  BY <1>2, <1>3, <1>4 DEF k
<1>6. SumOf(sizes) = g[k]
  BY <1>3, <1>5, SumIs
<1> QED
  BY <1>1, <1>5, <1>6, ExactlyIs DEF WritesOf, sizes

-----------------------------------------------------------------------------
(* The calls *)

(* The parameters of each call *)
LEMMA Ranged ==
  ASSUME NEW r \in Requests, r.call \in RangeCalls
  PROVE  r.device \in DeviceClasses /\ r.points \in Nat /\ r.capacity \in Nat
BY RequestAssumption DEF RangeCalls, RoutedCalls, CountedCalls, TimerCalls, TimerStateCalls,
   LabelCalls, LabelReads, BareCalls, PasswordCalls

LEMMA Routed ==
  ASSUME NEW r \in Requests, r.call \in RoutedCalls
  PROVE  r.device \in ExtClasses /\ r.points \in Nat /\ r.capacity \in Nat
BY RequestAssumption DEF RangeCalls, RoutedCalls, CountedCalls, TimerCalls, TimerStateCalls,
   LabelCalls, LabelReads, BareCalls, PasswordCalls

LEMMA Counted ==
  ASSUME NEW r \in Requests, r.call \in CountedCalls
  PROVE  r \in [call : CountedCalls, points : Nat, capacity : Nat]
BY RequestAssumption DEF RangeCalls, RoutedCalls, CountedCalls, TimerCalls, TimerStateCalls,
   LabelCalls, LabelReads, BareCalls, PasswordCalls

LEMMA Labelled ==
  ASSUME NEW r \in Requests, r.call \in LabelCalls
  PROVE  r.labels \in Seq(LabelPoint) /\ r.abbrevs \in Seq(LabelName) /\ r.capacity \in Nat
BY RequestAssumption DEF RangeCalls, RoutedCalls, CountedCalls, TimerCalls, TimerStateCalls,
   LabelCalls, LabelReads, BareCalls, PasswordCalls

LEMMA RandomRead ==
  ASSUME NEW r \in Requests, r.call \in {"readRandom", "readRandomExt"}
  PROVE  /\ r.wordCapacity \in Nat /\ r.dwordCapacity \in Nat
         /\ r.call = "readRandom" => r.words \in Seq(DeviceClasses) /\ r.dwords \in Seq(DeviceClasses)
         /\ r.call = "readRandomExt" => r.words \in Seq(ExtClasses) /\ r.dwords \in Seq(ExtClasses)
BY RequestAssumption DEF RangeCalls, RoutedCalls, CountedCalls, TimerCalls, TimerStateCalls,
   LabelCalls, LabelReads, BareCalls, PasswordCalls

LEMMA Registering ==
  ASSUME NEW r \in Requests, r.call \in RegisterCalls
  PROVE  /\ r.call = "registerMonitorDevices"
               => r.words \in Seq(DeviceClasses) /\ r.dwords \in Seq(DeviceClasses)
         /\ r.call = "registerMonitorDevicesExt"
               => r.words \in Seq(ExtClasses) /\ r.dwords \in Seq(ExtClasses)
BY RequestAssumption DEF RangeCalls, RoutedCalls, CountedCalls, TimerCalls, TimerStateCalls,
   LabelCalls, LabelReads, BareCalls, PasswordCalls, RegisterCalls

LEMMA BlockRead ==
  ASSUME NEW r \in Requests, r.call = "readBlock"
  PROVE  /\ r.wordBlocks \in Seq(DeviceBlock) /\ r.bitBlocks \in Seq(DeviceBlock)
         /\ r.wordCapacity \in Nat /\ r.dwordCapacity \in Nat
BY RequestAssumption DEF RangeCalls, RoutedCalls, CountedCalls, TimerCalls, TimerStateCalls,
   LabelCalls, LabelReads, BareCalls, PasswordCalls

LEMMA Cycle ==
  ASSUME NEW r \in Requests, r.call = "runMonitorCycle"
  PROVE  r.points \in Nat /\ r.dpoints \in Nat
BY RequestAssumption DEF RangeCalls, RoutedCalls, CountedCalls, TimerCalls, TimerStateCalls,
   LabelCalls, LabelReads, BareCalls, PasswordCalls

LEMMA Sized ==
  ASSUME NEW r \in Requests, r.call \in {"selfTestLoopback"} \cup PasswordCalls
  PROVE  /\ r.points \in Nat /\ r.valid \in BOOLEAN
         /\ r.call = "selfTestLoopback" => r.capacity \in Nat
BY RequestAssumption DEF RangeCalls, RoutedCalls, CountedCalls, TimerCalls, TimerStateCalls,
   LabelCalls, LabelReads, BareCalls, PasswordCalls

(* Every call is one of these. *)
LEMMA CallIs ==
  ASSUME NEW r \in Requests
  PROVE  r.call \in RangeCalls \cup RoutedCalls \cup CountedCalls \cup LabelCalls \cup RegisterCalls
            \cup BareCalls \cup PasswordCalls
            \cup {"readRandom", "readRandomExt", "readBlock", "runMonitorCycle", "remoteRun",
                  "remotePause", "selfTestLoopback"}
BY RequestAssumption DEF RegisterCalls

(* The begin call of each call *)
LEMMA BeginIs ==
  ASSUME NEW s, NEW r
  PROVE  /\ r.call = "readTypeName" => BeginOf(s, r) = ReadTypeName(s, r)
         /\ r.call = "readCpuOperationState" => BeginOf(s, r) = ReadCpuOperationState(s, r)
         /\ r.call = "readWords" => BeginOf(s, r) = ReadWords(s, r)
         /\ r.call = "writeWords" => BeginOf(s, r) = WriteWords(s, r)
         /\ r.call = "readBits" => BeginOf(s, r) = ReadBits(s, r)
         /\ r.call = "writeBits" => BeginOf(s, r) = WriteBits(s, r)
         /\ r.call = "readDWords" => BeginOf(s, r) = ReadDWords(s, r)
         /\ r.call = "writeDWords" => BeginOf(s, r) = WriteDWords(s, r)
         /\ r.call = "readFloat32s" => BeginOf(s, r) = ReadFloat32s(s, r)
         /\ r.call = "writeFloat32s" => BeginOf(s, r) = WriteFloat32s(s, r)
         /\ r.call = "readLongTimer" => BeginOf(s, r) = ReadLongTimer(s, r)
         /\ r.call = "readLongRetentiveTimer" => BeginOf(s, r) = ReadLongRetentiveTimer(s, r)
         /\ r.call = "readWordsModuleBuf" => BeginOf(s, r) = ReadWordsModuleBuf(s, r)
         /\ r.call = "writeWordsModuleBuf" => BeginOf(s, r) = WriteWordsModuleBuf(s, r)
         /\ r.call = "readBitsModuleBuf" => BeginOf(s, r) = ReadBitsModuleBuf(s, r)
         /\ r.call = "writeBitsModuleBuf" => BeginOf(s, r) = WriteBitsModuleBuf(s, r)
         /\ r.call = "readWordsLinkDirect" => BeginOf(s, r) = ReadWordsLinkDirect(s, r)
         /\ r.call = "writeWordsLinkDirect" => BeginOf(s, r) = WriteWordsLinkDirect(s, r)
         /\ r.call = "readBitsLinkDirect" => BeginOf(s, r) = ReadBitsLinkDirect(s, r)
         /\ r.call = "writeBitsLinkDirect" => BeginOf(s, r) = WriteBitsLinkDirect(s, r)
         /\ r.call = "readMemoryWords" => BeginOf(s, r) = ReadMemoryWords(s, r)
         /\ r.call = "writeMemoryWords" => BeginOf(s, r) = WriteMemoryWords(s, r)
         /\ r.call = "readExtendUnitBytes" => BeginOf(s, r) = ReadExtendUnitBytes(s, r)
         /\ r.call = "readExtendUnitWords" => BeginOf(s, r) = ReadExtendUnitWords(s, r)
         /\ r.call = "writeExtendUnitBytes" => BeginOf(s, r) = WriteExtendUnitBytes(s, r)
         /\ r.call = "writeExtendUnitWords" => BeginOf(s, r) = WriteExtendUnitWords(s, r)
         /\ r.call = "readArrayLabels" => BeginOf(s, r) = ReadArrayLabels(s, r)
         /\ r.call = "writeArrayLabels" => BeginOf(s, r) = WriteArrayLabels(s, r)
         /\ r.call = "readRandomLabels" => BeginOf(s, r) = ReadRandomLabels(s, r)
         /\ r.call = "writeRandomLabels" => BeginOf(s, r) = WriteRandomLabels(s, r)
         /\ r.call = "readRandom" => BeginOf(s, r) = ReadRandom(s, r)
         /\ r.call = "readRandomExt" => BeginOf(s, r) = ReadRandomExt(s, r)
         /\ r.call = "readBlock" => BeginOf(s, r) = ReadBlock(s, r)
         /\ r.call = "registerMonitorDevices" => BeginOf(s, r) = RegisterMonitorDevices(s, r)
         /\ r.call = "registerMonitorDevicesExt" => BeginOf(s, r) = RegisterMonitorDevicesExt(s, r)
         /\ r.call = "runMonitorCycle" => BeginOf(s, r) = RunMonitorCycle(s, r)
         /\ r.call = "remoteRun" => BeginOf(s, r) = RemoteRun(s, r)
         /\ r.call = "remoteStop" => BeginOf(s, r) = RemoteStop(s, r)
         /\ r.call = "remotePause" => BeginOf(s, r) = RemotePause(s, r)
         /\ r.call = "remoteLatchClear" => BeginOf(s, r) = RemoteLatchClear(s, r)
         /\ r.call = "remoteReset" => BeginOf(s, r) = RemoteReset(s, r)
         /\ r.call = "selfTestLoopback" => BeginOf(s, r) = SelfTestLoopback(s, r)
         /\ r.call = "clearError" => BeginOf(s, r) = ClearError(s, r)
         /\ r.call = "remotePasswordUnlock" => BeginOf(s, r) = RemotePasswordUnlock(s, r)
         /\ r.call = "remotePasswordLock" => BeginOf(s, r) = RemotePasswordLock(s, r)
         /\ r.call \in TimerStateCalls => BeginOf(s, r) = ReadTimerStates(s, r)
BY ZenonT(60) DEF BeginOf, TimerStateCalls

(* The decoder of each call *)
LEMMA DecodeIs ==
  ASSUME NEW s, NEW r, NEW b
  PROVE  /\ r.call = "readTypeName" => DecodeOf(s, r, b) = TypeName(b)
         /\ r.call = "readCpuOperationState" => DecodeOf(s, r, b) = Words(1, b)
         /\ r.call \in {"readWords", "readWordsModuleBuf", "readWordsLinkDirect", "readMemoryWords"}
               => DecodeOf(s, r, b) = Words(r.points, b)
         /\ r.call = "readDWords" => DecodeOf(s, r, b) = DWords(r.points, b)
         /\ r.call = "readFloat32s" => DecodeOf(s, r, b) = Float32s(r.points, b)
         /\ r.call = "readBits" => DecodeOf(s, r, b) = Bits(r.points, b)
         /\ r.call \in {"readBitsModuleBuf", "readBitsLinkDirect"}
               => DecodeOf(s, r, b) = ModuleOrLinkBits(r.points, b)
         /\ r.call \in TimerCalls => DecodeOf(s, r, b) = LongTimer(r.points, b)
         /\ r.call = "readExtendUnitBytes" => DecodeOf(s, r, b) = UnitBytes(r.points, b)
         /\ r.call = "readExtendUnitWords" => DecodeOf(s, r, b) = UnitWords(r.points, b)
         /\ r.call = "readArrayLabels" => DecodeOf(s, r, b) = ArrayLabels(r.capacity, b)
         /\ r.call = "readRandomLabels" => DecodeOf(s, r, b) = RandomLabels(r.capacity, b)
         /\ r.call = "readRandom" => DecodeOf(s, r, b) = Random(Len(r.words), Len(r.dwords), b)
         /\ r.call = "readRandomExt"
               => DecodeOf(s, r, b) = RandomExtOrMonitor(Len(r.words), Len(r.dwords), b)
         /\ r.call = "runMonitorCycle" => DecodeOf(s, r, b) = RandomExtOrMonitor(r.points, r.dpoints, b)
         /\ r.call = "readBlock"
               => DecodeOf(s, r, b) = Block(TotalOf(r.wordBlocks), TotalOf(r.bitBlocks), b)
         /\ r.call = "selfTestLoopback" => DecodeOf(s, r, b) = SelfTest(r.points, r.capacity, b)
         /\ r.call \notin {"readTypeName", "readCpuOperationState", "readWords", "readWordsModuleBuf",
                           "readWordsLinkDirect", "readMemoryWords", "readDWords", "readFloat32s",
                           "readBits", "readBitsModuleBuf", "readBitsLinkDirect", "readExtendUnitBytes",
                           "readExtendUnitWords", "readArrayLabels", "readRandomLabels", "readRandom",
                           "readRandomExt", "runMonitorCycle", "readBlock", "selfTestLoopback"}
               /\ r.call \notin TimerCalls
               => DecodeOf(s, r, b) = Nothing(b)
BY DEF DecodeOf, TimerCalls, TimerStateCalls, StatusWord

(* What the checks of a call with one array and one count leave *)
LEMMA HoldsAllIs ==
  ASSUME NEW r, HoldsAll(r) = "Ok", r.points \in Nat, r.capacity \in Nat
  PROVE  r.points <= r.capacity
BY DEF HoldsAll, Refuse

LEMMA DirectReadIs ==
  ASSUME NEW s \in Settings, NEW r, NEW limit, NEW refused, NEW service, NEW told,
         r.points \in Nat, r.capacity \in Nat, NEW e, e = DirectRead(s, r, limit, refused, service, told)
  PROVE  /\ Encodes(s, e, Tells(service, SpecSize(s), <<told>>), SpecSize(s) + 2)
         /\ e.error = "Ok" => r.points <= r.capacity
<1> DEFINE checks == <<FeatureAllowed(s, "Direct"), HoldsAll(r), CountValid(r.points, limit),
                       DeviceError(r.device, refused), Refuse(s.txCapacity < 8, "BufferTooSmall")>>
           t == Tells(service, SpecSize(s), <<told>>)
           needs == SpecSize(s)  writes == SpecSize(s) + 2  n == 5
<1>1. DOMAIN checks = 1 .. n /\ checks[2] = HoldsAll(r) /\ n \in Nat /\ 2 \in 1 .. n
  OBVIOUS
<1>2. needs \in Nat /\ writes \in Nat /\ writes <= 19
  BY SettingIs
<1>3. e = Encoded(s, checks, <<Chunk(needs, writes)>>, t)
  BY DEF DirectRead
<1> HIDE DEF checks, needs, writes, n, t
<1>4. Encodes(s, e, t, writes) /\ (e.error = "Ok" => \A i \in 1 .. n : checks[i] = "Ok")
  BY <1>1, <1>2, <1>3, OneChunk
<1>5. e.error = "Ok" => HoldsAll(r) = "Ok"
  BY <1>1, <1>4
<1>6. e.error = "Ok" => r.points <= r.capacity
  BY <1>5, HoldsAllIs
<1> QED
  BY <1>4, <1>6 DEF t, writes

LEMMA DirectWriteIs ==
  ASSUME NEW s \in Settings, NEW r, NEW limit, NEW refused, NEW service, NEW told, NEW data \in Nat,
         NEW e, e = DirectWrite(s, r, limit, refused, service, told, data)
  PROVE  Encodes(s, e, Tells(service, SpecSize(s), <<told>>), SpecSize(s) + 2 + data)
<1> DEFINE checks == <<FeatureAllowed(s, "Direct"), CountValid(r.points, limit),
                       DeviceError(r.device, refused)>>
           t == Tells(service, SpecSize(s), <<told>>)
           writes == SpecSize(s) + 2 + data  n == 3
<1>1. DOMAIN checks = 1 .. n /\ n \in Nat
  OBVIOUS
<1>2. writes \in Nat
  BY SettingIs
<1>3. e = Encoded(s, checks, <<Chunk(writes, writes)>>, t)
  BY DEF DirectWrite, Exactly
<1> HIDE DEF checks, writes, n, t
<1>4. Encodes(s, e, t, writes)
  BY <1>1, <1>2, <1>3, OneChunk
<1> QED
  BY <1>4 DEF t, writes

(* What the begin call of r tells the PLC, and the bytes it sends with it *)
Asks(s, r, t, size) == Encodes(s, BeginOf(s, r), t, size)

Sent(s, r) == BeginOf(s, r).error = "Ok"

LEMMA HalvesOf ==
  ASSUME NEW n \in Nat
  PROVE  packedBitBytes(n) \in Nat /\ ByteCount(n) = packedBitBytes(n) /\ n <= 2 * ByteCount(n)
BY DEF packedBitBytes, ByteCount

LEMMA RangeBegin ==
  ASSUME NEW s \in Settings, NEW r \in Requests, r.call \in RangeCalls
  PROVE  /\ r.call = "readWords"
               => Asks(s, r, Tells("readWords", SpecSize(s), <<r.points>>), SpecSize(s) + 2)
         /\ r.call \in {"readDWords", "readFloat32s"}
               => Asks(s, r, Tells("readWords", SpecSize(s), <<2 * r.points>>), SpecSize(s) + 2)
         /\ r.call = "readBits"
               => Asks(s, r, Tells("readBits", SpecSize(s), <<r.points>>), SpecSize(s) + 2)
         /\ r.call = "writeWords"
               => Asks(s, r, Tells("writeWords", SpecSize(s), <<r.points>>),
                       SpecSize(s) + 2 + 2 * r.points)
         /\ r.call \in {"writeDWords", "writeFloat32s"}
               => Asks(s, r, Tells("writeWords", SpecSize(s), <<2 * r.points>>),
                       SpecSize(s) + 2 + 4 * r.points)
         /\ r.call = "writeBits"
               => Asks(s, r, Tells("writeBits", SpecSize(s), <<r.points>>),
                       SpecSize(s) + 2 + ByteCount(r.points))
         /\ r.call \in {"readWords", "readDWords", "readFloat32s", "readBits"} /\ Sent(s, r)
               => r.points <= r.capacity
<1>1. r.points \in Nat /\ r.capacity \in Nat
  BY Ranged
<1>2. 2 * r.points \in Nat /\ 4 * r.points \in Nat /\ packedBitBytes(r.points) \in Nat
      /\ ByteCount(r.points) = packedBitBytes(r.points)
  BY <1>1, HalvesOf
<1>3. CASE r.call = "readWords"
  BY <1>1, <1>3, BeginIs, DirectReadIs DEF Asks, Sent, ReadWords
<1>4. CASE r.call = "readDWords"
  BY <1>1, <1>4, BeginIs, DirectReadIs DEF Asks, Sent, ReadDWords
<1>5. CASE r.call = "readFloat32s"
  BY <1>1, <1>5, BeginIs, DirectReadIs DEF Asks, Sent, ReadFloat32s
<1>6. CASE r.call = "readBits"
  BY <1>1, <1>6, BeginIs, DirectReadIs DEF Asks, Sent, ReadBits
<1>7. CASE r.call = "writeWords"
  BY <1>2, <1>7, BeginIs, DirectWriteIs DEF Asks, WriteWords
<1>8. CASE r.call = "writeDWords"
  BY <1>2, <1>8, BeginIs, DirectWriteIs DEF Asks, WriteDWords
<1>9. CASE r.call = "writeFloat32s"
  BY <1>2, <1>9, BeginIs, DirectWriteIs DEF Asks, WriteFloat32s
<1>10. CASE r.call = "writeBits"
  BY <1>2, <1>10, BeginIs, DirectWriteIs DEF Asks, WriteBits
<1> QED
  BY <1>3, <1>4, <1>5, <1>6, <1>7, <1>8, <1>9, <1>10 DEF RangeCalls

(* A read through a module buffer or a link: the specification must fit,    *)
(* the count is written after it without asking.                            *)
RoutedRead(s, r, feature, limit, last, size, t) ==
    Encoded(s, <<FeatureAllowed(s, feature), HoldsAll(r), CountValid(r.points, limit), last>>,
            <<Chunk(size, size + 2)>>, t)

LEMMA RoutedReadIs ==
  ASSUME NEW s \in Settings, NEW r, r.points \in Nat, r.capacity \in Nat,
         NEW feature, NEW limit, NEW last, NEW size \in 0 .. 17, NEW t,
         NEW e, e = RoutedRead(s, r, feature, limit, last, size, t)
  PROVE  /\ Encodes(s, e, t, size + 2)
         /\ e.error = "Ok" => r.points <= r.capacity
<1> DEFINE checks == <<FeatureAllowed(s, feature), HoldsAll(r), CountValid(r.points, limit), last>>
           writes == size + 2  n == 4
<1>1. DOMAIN checks = 1 .. n /\ checks[2] = HoldsAll(r) /\ n \in Nat /\ 2 \in 1 .. n
  OBVIOUS
<1>2. size \in Nat /\ writes \in Nat /\ writes <= 19
  OBVIOUS
<1>3. e = Encoded(s, checks, <<Chunk(size, writes)>>, t)
  BY DEF RoutedRead
<1> HIDE DEF checks, writes, n
<1>4. Encodes(s, e, t, writes) /\ (e.error = "Ok" => \A i \in 1 .. n : checks[i] = "Ok")
  BY <1>1, <1>2, <1>3, OneChunk
<1>5. e.error = "Ok" => HoldsAll(r) = "Ok"
  BY <1>1, <1>4
<1>6. e.error = "Ok" => r.points <= r.capacity
  BY <1>5, HoldsAllIs
<1> QED
  BY <1>4, <1>6 DEF writes

LEMMA RoutedWriteIs ==
  ASSUME NEW s \in Settings, NEW n \in Nat, NEW checks, DOMAIN checks = 1 .. n,
         NEW size \in Nat, NEW data \in Nat, NEW t,
         NEW e, e = Encoded(s, checks, <<Exactly(size), Exactly(data)>>, t)
  PROVE  Encodes(s, e, t, size + data)
<1> DEFINE chunks == <<Exactly(size), Exactly(data)>>  k == 2
<1>1. DOMAIN checks = 1 .. n /\ n \in Nat /\ k \in Nat
  OBVIOUS
<1>2. /\ chunks \in [1 .. k -> Chunks] /\ \A i \in 1 .. k : chunks[i].writes <= chunks[i].needs
      /\ WritesOf(chunks) = size + data
  BY WritesOfTwo
<1>3. e = Encoded(s, checks, chunks, t)
  OBVIOUS
<1> HIDE DEF chunks, k
<1>4. Encodes(s, e, t, WritesOf(chunks))
  BY <1>1, <1>2, <1>3, ManyChunks
<1> QED
  BY <1>2, <1>4

LEMMA RoutedBegin ==
  ASSUME NEW s \in Settings, NEW r \in Requests, r.call \in RoutedCalls
  PROVE  /\ r.call = "readWordsModuleBuf"
               => Asks(s, r, Tells("readWords", ModuleSpecSize(s), <<r.points>>), ModuleSpecSize(s) + 2)
         /\ r.call = "readBitsModuleBuf"
               => Asks(s, r, Tells("readBits", ModuleSpecSize(s), <<r.points>>), ModuleSpecSize(s) + 2)
         /\ r.call = "readWordsLinkDirect"
               => Asks(s, r, Tells("readWords", LinkSpecSize, <<r.points>>), LinkSpecSize + 2)
         /\ r.call = "readBitsLinkDirect"
               => Asks(s, r, Tells("readBits", LinkSpecSize, <<r.points>>), LinkSpecSize + 2)
         /\ r.call = "writeWordsModuleBuf"
               => Asks(s, r, Tells("writeWords", ModuleSpecSize(s), <<r.points>>),
                       ModuleSpecSize(s) + (2 + 2 * r.points))
         /\ r.call = "writeBitsModuleBuf"
               => Asks(s, r, Tells("writeBits", ModuleSpecSize(s), <<r.points>>),
                       ModuleSpecSize(s) + (2 + ByteCount(r.points)))
         /\ r.call = "writeWordsLinkDirect"
               => Asks(s, r, Tells("writeWords", LinkSpecSize, <<r.points>>),
                       LinkSpecSize + (2 + 2 * r.points))
         /\ r.call = "writeBitsLinkDirect"
               => Asks(s, r, Tells("writeBits", LinkSpecSize, <<r.points>>),
                       LinkSpecSize + (2 + ByteCount(r.points)))
         /\ r.call \in {"readWordsModuleBuf", "readBitsModuleBuf", "readWordsLinkDirect",
                        "readBitsLinkDirect"} /\ Sent(s, r)
               => r.points <= r.capacity
<1>1. r.points \in Nat /\ r.capacity \in Nat
  BY Routed
<1>2. /\ 2 + 2 * r.points \in Nat /\ 2 + packedBitBytes(r.points) \in Nat
      /\ ByteCount(r.points) = packedBitBytes(r.points)
  BY <1>1, HalvesOf
<1>m. ModuleSpecSize(s) \in 0 .. 17 /\ ModuleSpecSize(s) \in Nat
  BY SettingIs
<1>l. LinkSpecSize \in 0 .. 17 /\ LinkSpecSize \in Nat
  BY DEF LinkSpecSize
<1>3. CASE r.call = "readWordsModuleBuf"
  <2> DEFINE e == BeginOf(s, r)
             t == Tells("readWords", ModuleSpecSize(s), <<r.points>>)
  <2>1. e = RoutedRead(s, r, ModuleFeature(r), Limit["DirectWordRead"], SlotValid(r), ModuleSpecSize(s), t)
    BY <1>3, BeginIs DEF RoutedRead, ReadWordsModuleBuf
  <2> HIDE DEF e, t
  <2>2. Encodes(s, e, t, ModuleSpecSize(s) + 2) /\ (e.error = "Ok" => r.points <= r.capacity)
    BY <1>1, <1>m, <2>1, RoutedReadIs
  <2> QED
    BY <1>3, <2>2 DEF Asks, Sent, e, t
<1>4. CASE r.call = "readBitsModuleBuf"
  <2> DEFINE e == BeginOf(s, r)
             t == Tells("readBits", ModuleSpecSize(s), <<r.points>>)
  <2>1. e = RoutedRead(s, r, ModuleFeature(r), Limit["DirectBitRead"], SlotValid(r), ModuleSpecSize(s), t)
    BY <1>4, BeginIs DEF RoutedRead, ReadBitsModuleBuf
  <2> HIDE DEF e, t
  <2>2. Encodes(s, e, t, ModuleSpecSize(s) + 2) /\ (e.error = "Ok" => r.points <= r.capacity)
    BY <1>1, <1>m, <2>1, RoutedReadIs
  <2> QED
    BY <1>4, <2>2 DEF Asks, Sent, e, t
<1>5. CASE r.call = "readWordsLinkDirect"
  <2> DEFINE e == BeginOf(s, r)
             t == Tells("readWords", LinkSpecSize, <<r.points>>)
  <2>1. e = RoutedRead(s, r, "ExtLinkDirect", Limit["DirectWordRead"], LinkCodeValid(r), LinkSpecSize, t)
    BY <1>5, BeginIs DEF RoutedRead, ReadWordsLinkDirect
  <2> HIDE DEF e, t
  <2>2. Encodes(s, e, t, LinkSpecSize + 2) /\ (e.error = "Ok" => r.points <= r.capacity)
    BY <1>1, <1>l, <2>1, RoutedReadIs
  <2> QED
    BY <1>5, <2>2 DEF Asks, Sent, e, t
<1>6. CASE r.call = "readBitsLinkDirect"
  <2> DEFINE e == BeginOf(s, r)
             t == Tells("readBits", LinkSpecSize, <<r.points>>)
  <2>1. e = RoutedRead(s, r, "ExtLinkDirect", Limit["DirectBitRead"], LinkCodeValid(r), LinkSpecSize, t)
    BY <1>6, BeginIs DEF RoutedRead, ReadBitsLinkDirect
  <2> HIDE DEF e, t
  <2>2. Encodes(s, e, t, LinkSpecSize + 2) /\ (e.error = "Ok" => r.points <= r.capacity)
    BY <1>1, <1>l, <2>1, RoutedReadIs
  <2> QED
    BY <1>6, <2>2 DEF Asks, Sent, e, t
<1>7. CASE r.call = "writeWordsModuleBuf"
  <2> DEFINE e == BeginOf(s, r)  data == 2 + 2 * r.points  n == 3
             t == Tells("writeWords", ModuleSpecSize(s), <<r.points>>)
             checks == <<FeatureAllowed(s, ModuleFeature(r)), CountValid(r.points, Limit["DirectWordWrite"]),
                         SlotValid(r)>>
  <2>1. e = Encoded(s, checks, <<Exactly(ModuleSpecSize(s)), Exactly(data)>>, t)
    BY <1>7, BeginIs DEF WriteWordsModuleBuf
  <2>2. DOMAIN checks = 1 .. n /\ n \in Nat /\ data \in Nat
    BY <1>2
  <2> HIDE DEF e, t, checks, n, data
  <2>3. Encodes(s, e, t, ModuleSpecSize(s) + data)
    BY <1>m, <2>1, <2>2, RoutedWriteIs
  <2> QED
    BY <1>2, <1>7, <2>3 DEF Asks, e, t, data
<1>8. CASE r.call = "writeBitsModuleBuf"
  <2> DEFINE e == BeginOf(s, r)  data == 2 + packedBitBytes(r.points)  n == 3
             t == Tells("writeBits", ModuleSpecSize(s), <<r.points>>)
             checks == <<FeatureAllowed(s, ModuleFeature(r)), CountValid(r.points, Limit["DirectBitWrite"]),
                         SlotValid(r)>>
  <2>1. e = Encoded(s, checks, <<Exactly(ModuleSpecSize(s)), Exactly(data)>>, t)
    BY <1>8, BeginIs DEF WriteBitsModuleBuf
  <2>2. DOMAIN checks = 1 .. n /\ n \in Nat /\ data \in Nat
    BY <1>2
  <2> HIDE DEF e, t, checks, n, data
  <2>3. Encodes(s, e, t, ModuleSpecSize(s) + data)
    BY <1>m, <2>1, <2>2, RoutedWriteIs
  <2> QED
    BY <1>2, <1>8, <2>3 DEF Asks, e, t, data
<1>9. CASE r.call = "writeWordsLinkDirect"
  <2> DEFINE e == BeginOf(s, r)  data == 2 + 2 * r.points  n == 4
             t == Tells("writeWords", LinkSpecSize, <<r.points>>)
             checks == <<FeatureAllowed(s, "ExtLinkDirect"), CountValid(r.points, Limit["DirectWordWrite"]),
                         LinkCodeValid(r), LinkWriteAllowed(WordWriteRefused)>>
  <2>1. e = Encoded(s, checks, <<Exactly(LinkSpecSize), Exactly(data)>>, t)
    BY <1>9, BeginIs DEF WriteWordsLinkDirect
  <2>2. DOMAIN checks = 1 .. n /\ n \in Nat /\ data \in Nat
    BY <1>2
  <2> HIDE DEF e, t, checks, n, data
  <2>3. Encodes(s, e, t, LinkSpecSize + data)
    BY <1>l, <2>1, <2>2, RoutedWriteIs
  <2> QED
    BY <1>2, <1>9, <2>3 DEF Asks, e, t, data
<1>10. CASE r.call = "writeBitsLinkDirect"
  <2> DEFINE e == BeginOf(s, r)  data == 2 + packedBitBytes(r.points)  n == 4
             t == Tells("writeBits", LinkSpecSize, <<r.points>>)
             checks == <<FeatureAllowed(s, "ExtLinkDirect"), CountValid(r.points, Limit["DirectBitWrite"]),
                         LinkCodeValid(r), LinkWriteAllowed(BitWriteRefused)>>
  <2>1. e = Encoded(s, checks, <<Exactly(LinkSpecSize), Exactly(data)>>, t)
    BY <1>10, BeginIs DEF WriteBitsLinkDirect
  <2>2. DOMAIN checks = 1 .. n /\ n \in Nat /\ data \in Nat
    BY <1>2
  <2> HIDE DEF e, t, checks, n, data
  <2>3. Encodes(s, e, t, LinkSpecSize + data)
    BY <1>l, <2>1, <2>2, RoutedWriteIs
  <2> QED
    BY <1>2, <1>10, <2>3 DEF Asks, e, t, data
<1> QED
  BY <1>3, <1>4, <1>5, <1>6, <1>7, <1>8, <1>9, <1>10 DEF RoutedCalls

LEMMA WholeIs ==
  ASSUME NEW s \in Settings, NEW n \in Nat, NEW checks, DOMAIN checks = 1 .. n, NEW size \in Nat,
         NEW t, NEW e, e = Encoded(s, checks, <<Exactly(size)>>, t)
  PROVE  /\ Encodes(s, e, t, size)
         /\ e.error = "Ok" => \A i \in 1 .. n : checks[i] = "Ok"
<1>1. e = Encoded(s, checks, <<Chunk(size, size)>>, t)
  BY DEF Exactly
<1>2. size <= size
  OBVIOUS
<1> QED
  BY <1>1, <1>2, OneChunk

LEMMA LongTimerIs ==
  ASSUME NEW s \in Settings, NEW r, r.points \in Nat, r.capacity \in Nat,
         NEW e, e = ReadLongTimer(s, r)
  PROVE  /\ Encodes(s, e, Tells("readWords", SpecSize(s), <<4 * r.points>>), SpecSize(s) + 2)
         /\ e.error = "Ok" => r.points <= r.capacity
<1> DEFINE checks == <<FeatureAllowed(s, "LongDevicePath"), TimerRange(r), HoldsAll(r),
                       Refuse(s.txCapacity < 8, "BufferTooSmall")>>
           t == Tells("readWords", SpecSize(s), <<4 * r.points>>)
           needs == SpecSize(s)  writes == SpecSize(s) + 2  n == 4
<1>1. DOMAIN checks = 1 .. n /\ checks[3] = HoldsAll(r) /\ n \in Nat /\ 3 \in 1 .. n
  OBVIOUS
<1>2. needs \in Nat /\ writes \in Nat /\ writes <= 19
  BY SettingIs
<1>3. e = Encoded(s, checks, <<Chunk(needs, writes)>>, t)
  BY DEF ReadLongTimer
<1> HIDE DEF checks, needs, writes, n, t
<1>4. Encodes(s, e, t, writes) /\ (e.error = "Ok" => \A i \in 1 .. n : checks[i] = "Ok")
  BY <1>1, <1>2, <1>3, OneChunk
<1>5. e.error = "Ok" => HoldsAll(r) = "Ok"
  BY <1>1, <1>4
<1>6. e.error = "Ok" => r.points <= r.capacity
  BY <1>5, HoldsAllIs
<1> QED
  BY <1>4, <1>6 DEF t, writes

(* An encoding that is refused after all *)
LEMMA RefusedIs ==
  ASSUME NEW s, NEW read, NEW t, NEW size, Encodes(s, read, t, size), NEW refusal,
         DOMAIN read = {"error", "end", "tells", "empties"}, s.txCapacity \in Nat,
         NEW e, e = IF refusal = "Ok" THEN read ELSE [read EXCEPT !.error = refusal, !.end = 0]
  PROVE  Encodes(s, e, t, size) /\ (e.error = "Ok" => refusal = "Ok" /\ read.error = "Ok")
<1>1. CASE refusal = "Ok"
  BY <1>1
<1>2. CASE refusal # "Ok"
  <2>1. e.tells = read.tells /\ e.end = 0 /\ e.error = refusal
    BY <1>2
  <2> QED
    BY <1>2, <2>1 DEF Encodes
<1> QED
  BY <1>1, <1>2

LEMMA TimerStatesIs ==
  ASSUME NEW s \in Settings, NEW r \in [call : CountedCalls, points : Nat, capacity : Nat],
         NEW e, e = ReadTimerStates(s, r)
  PROVE  /\ Encodes(s, e, Tells("readWords", SpecSize(s), <<4 * r.points>>), SpecSize(s) + 2)
         /\ e.error = "Ok" => r.points <= s.rxCapacity \div TimerResultSize
<1> DEFINE scratch == [r EXCEPT !.capacity = s.rxCapacity \div TimerResultSize]
           checks == <<TimerRange(r), HoldsAll(r),
                       Refuse(scratch.capacity < r.points, "BufferTooSmall")>>
           refusal == FirstError(checks)
           read == ReadLongTimer(s, scratch)
           t == Tells("readWords", SpecSize(s), <<4 * r.points>>)
           size == SpecSize(s) + 2
<1>1. scratch.points = r.points /\ scratch.capacity = s.rxCapacity \div TimerResultSize
      /\ scratch.points \in Nat /\ scratch.capacity \in Nat
  BY SettingIs DEF TimerResultSize
<1>2. e = IF refusal = "Ok" THEN read ELSE [read EXCEPT !.error = refusal, !.end = 0]
  BY DEF ReadTimerStates
<1>3. DOMAIN read = {"error", "end", "tells", "empties"}
  BY DEF ReadLongTimer, Encoded
<1> HIDE DEF scratch
<1>4. Encodes(s, read, t, size) /\ (read.error = "Ok" => scratch.points <= scratch.capacity)
  BY <1>1, LongTimerIs
<1>5. s.txCapacity \in Nat
  BY SettingIs
<1> HIDE DEF refusal, read, t, size
<1>6. Encodes(s, e, t, size) /\ (e.error = "Ok" => refusal = "Ok" /\ read.error = "Ok")
  BY <1>2, <1>3, <1>4, <1>5, RefusedIs
<1> QED
  BY <1>1, <1>4, <1>6 DEF t, size

LEMMA UnitBytesIs ==
  ASSUME NEW s \in Settings, NEW r, r.points \in Nat, r.capacity \in Nat,
         NEW e, e = ReadExtendUnitBytes(s, r)
  PROVE  /\ Encodes(s, e, Tells("readUnit", 4, <<r.points>>), 8)
         /\ e.error = "Ok" => r.points <= r.capacity
<1> DEFINE checks == <<HoldsAll(r), UnitBytesValid(r.points)>>  n == 2
           t == Tells("readUnit", 4, <<r.points>>)  size == 8
<1>1. DOMAIN checks = 1 .. n /\ checks[1] = HoldsAll(r) /\ n \in Nat /\ 1 \in 1 .. n /\ size \in Nat
  OBVIOUS
<1>2. e = Encoded(s, checks, <<Exactly(size)>>, t)
  BY DEF ReadExtendUnitBytes
<1> HIDE DEF checks, n, t, size
<1>3. Encodes(s, e, t, size) /\ (e.error = "Ok" => \A i \in 1 .. n : checks[i] = "Ok")
  BY <1>1, <1>2, WholeIs
<1>4. e.error = "Ok" => HoldsAll(r) = "Ok"
  BY <1>1, <1>3
<1>5. e.error = "Ok" => r.points <= r.capacity
  BY <1>4, HoldsAllIs
<1> QED
  BY <1>3, <1>5 DEF t, size

LEMMA UnitWordsIs ==
  ASSUME NEW s \in Settings, NEW r \in [call : CountedCalls, points : Nat, capacity : Nat],
         NEW e, e = ReadExtendUnitWords(s, r)
  PROVE  /\ Encodes(s, e, Tells("readUnit", 4, <<2 * r.points>>), 8)
         /\ e.error = "Ok" => r.points <= r.capacity
<1> DEFINE bytes == 2 * r.points
           inner == [r EXCEPT !.points = bytes, !.capacity = bytes]
           read == ReadExtendUnitBytes(s, inner)
           checks == <<HoldsAll(r), CountValid(r.points, PointLimit)>>
           refusal == FirstError(checks)
           t == Tells("readUnit", 4, <<2 * r.points>>)
           size == 8  n == 2
<1>1. inner.points = 2 * r.points /\ inner.capacity = 2 * r.points
      /\ inner.points \in Nat /\ inner.capacity \in Nat
  OBVIOUS
<1>2. e = IF refusal = "Ok" THEN read ELSE [read EXCEPT !.error = refusal, !.end = 0]
  BY DEF ReadExtendUnitWords
<1>3. DOMAIN read = {"error", "end", "tells", "empties"}
  BY DEF ReadExtendUnitBytes, Encoded
<1> HIDE DEF inner
<1>4. Encodes(s, read, t, size)
  BY <1>1, UnitBytesIs
<1>5. s.txCapacity \in Nat
  BY SettingIs
<1>6. DOMAIN checks = 1 .. n /\ checks[1] = HoldsAll(r) /\ n \in Nat /\ 1 \in 1 .. n
  OBVIOUS
<1> HIDE DEF checks, n
<1>7. refusal = "Ok" => r.points <= r.capacity
  <2>1. refusal = "Ok" => \A i \in 1 .. n : checks[i] = "Ok"
    BY <1>6, Passed
  <2>2. r.points \in Nat /\ r.capacity \in Nat
    OBVIOUS
  <2>3. refusal = "Ok" => HoldsAll(r) = "Ok"
    BY <1>6, <2>1
  <2> QED
    BY <2>2, <2>3, HoldsAllIs
<1> HIDE DEF refusal, read, t, size
<1>8. Encodes(s, e, t, size) /\ (e.error = "Ok" => refusal = "Ok" /\ read.error = "Ok")
  BY <1>2, <1>3, <1>4, <1>5, RefusedIs
<1> QED
  BY <1>7, <1>8 DEF t, size

LEMMA CountedBegin ==
  ASSUME NEW s \in Settings, NEW r \in Requests, r.call \in CountedCalls
  PROVE  /\ r.call \in TimerCalls
               => Asks(s, r, Tells("readWords", SpecSize(s), <<4 * r.points>>), SpecSize(s) + 2)
         /\ r.call = "readMemoryWords" => Asks(s, r, Tells("readMemory", 4, <<r.points>>), 6)
         /\ r.call = "writeMemoryWords"
               => Asks(s, r, Tells("writeMemory", 4, <<r.points>>), 6 + 2 * r.points)
         /\ r.call = "readExtendUnitBytes" => Asks(s, r, Tells("readUnit", 4, <<r.points>>), 8)
         /\ r.call = "readExtendUnitWords" => Asks(s, r, Tells("readUnit", 4, <<2 * r.points>>), 8)
         /\ r.call = "writeExtendUnitBytes"
               => Asks(s, r, Tells("writeUnit", 4, <<r.points>>), 8 + r.points)
         /\ r.call = "writeExtendUnitWords"
               => Asks(s, r, Tells("writeUnit", 4, <<2 * r.points>>), 8 + 2 * r.points)
         /\ r.call \in {"readLongTimer", "readLongRetentiveTimer", "readMemoryWords",
                        "readExtendUnitBytes", "readExtendUnitWords"} /\ Sent(s, r)
               => r.points <= r.capacity
         /\ r.call \in TimerStateCalls /\ Sent(s, r)
               => r.points <= s.rxCapacity \div TimerResultSize
<1>1. r \in [call : CountedCalls, points : Nat, capacity : Nat] /\ r.points \in Nat /\ r.capacity \in Nat
  BY Counted
<1>2. 6 \in Nat /\ 8 \in Nat /\ 6 + 2 * r.points \in Nat /\ 8 + r.points \in Nat /\ 8 + 2 * r.points \in Nat
  BY <1>1
<1>3. CASE r.call \in {"readLongTimer", "readLongRetentiveTimer"}
  <2>1. BeginOf(s, r) = ReadLongTimer(s, r)
    BY <1>3, BeginIs DEF ReadLongRetentiveTimer
  <2> QED
    BY <1>1, <1>3, <2>1, LongTimerIs DEF Asks, Sent, TimerCalls, TimerStateCalls
<1>4. CASE r.call \in TimerStateCalls
  <2>1. BeginOf(s, r) = ReadTimerStates(s, r)
    BY <1>4, BeginIs
  <2> QED
    BY <1>1, <1>4, <2>1, TimerStatesIs DEF Asks, Sent, TimerCalls, TimerStateCalls
<1>5. CASE r.call = "readMemoryWords"
  <2> DEFINE checks == <<HoldsAll(r), CountValid(r.points, MemoryLimit)>>  n == 2  size == 6
             t == Tells("readMemory", 4, <<r.points>>)
             e == BeginOf(s, r)
  <2>1. e = Encoded(s, checks, <<Exactly(size)>>, t)
    BY <1>5, BeginIs DEF ReadMemoryWords
  <2>2. DOMAIN checks = 1 .. n /\ checks[1] = HoldsAll(r) /\ n \in Nat /\ 1 \in 1 .. n /\ size \in Nat
    OBVIOUS
  <2> HIDE DEF checks, n, size, t, e
  <2>3. Encodes(s, e, t, size) /\ (e.error = "Ok" => \A i \in 1 .. n : checks[i] = "Ok")
    BY <2>1, <2>2, WholeIs
  <2>4. e.error = "Ok" => r.points <= r.capacity
    BY <1>1, <2>2, <2>3, HoldsAllIs
  <2> QED
    BY <1>5, <2>3, <2>4 DEF Asks, Sent, TimerCalls, TimerStateCalls, t, size, e
<1>6. CASE r.call = "writeMemoryWords"
  <2> DEFINE checks == <<CountValid(r.points, MemoryLimit)>>  n == 1  size == 6 + 2 * r.points
             t == Tells("writeMemory", 4, <<r.points>>)
             e == BeginOf(s, r)
  <2>1. e = Encoded(s, checks, <<Exactly(size)>>, t)
    BY <1>6, BeginIs DEF WriteMemoryWords
  <2>2. DOMAIN checks = 1 .. n /\ n \in Nat /\ size \in Nat
    BY <1>2
  <2> HIDE DEF checks, n, size, t, e
  <2>3. Encodes(s, e, t, size)
    BY <2>1, <2>2, WholeIs
  <2> QED
    BY <1>6, <2>3 DEF Asks, TimerCalls, TimerStateCalls, t, size, e
<1>7. CASE r.call = "readExtendUnitBytes"
  <2>1. BeginOf(s, r) = ReadExtendUnitBytes(s, r)
    BY <1>7, BeginIs
  <2> QED
    BY <1>1, <1>7, <2>1, UnitBytesIs DEF Asks, Sent, TimerCalls, TimerStateCalls
<1>8. CASE r.call = "readExtendUnitWords"
  <2>1. BeginOf(s, r) = ReadExtendUnitWords(s, r)
    BY <1>8, BeginIs
  <2> QED
    BY <1>1, <1>8, <2>1, UnitWordsIs DEF Asks, Sent, TimerCalls, TimerStateCalls
<1>9. CASE r.call = "writeExtendUnitBytes"
  <2> DEFINE checks == <<UnitBytesValid(r.points)>>  n == 1  size == 8 + r.points
             t == Tells("writeUnit", 4, <<r.points>>)
             e == BeginOf(s, r)
  <2>1. e = Encoded(s, checks, <<Exactly(size)>>, t)
    BY <1>9, BeginIs DEF WriteExtendUnitBytes
  <2>2. DOMAIN checks = 1 .. n /\ n \in Nat /\ size \in Nat
    BY <1>2
  <2> HIDE DEF checks, n, size, t, e
  <2>3. Encodes(s, e, t, size)
    BY <2>1, <2>2, WholeIs
  <2> QED
    BY <1>9, <2>3 DEF Asks, TimerCalls, TimerStateCalls, t, size, e
<1>10. CASE r.call = "writeExtendUnitWords"
  <2> DEFINE checks == <<CountValid(r.points, PointLimit)>>  n == 1  size == 8 + 2 * r.points
             t == Tells("writeUnit", 4, <<2 * r.points>>)
             e == BeginOf(s, r)
  <2>1. e = Encoded(s, checks, <<Exactly(size)>>, t)
    BY <1>10, BeginIs DEF WriteExtendUnitWords
  <2>2. DOMAIN checks = 1 .. n /\ n \in Nat /\ size \in Nat
    BY <1>2
  <2> HIDE DEF checks, n, size, t, e
  <2>3. Encodes(s, e, t, size)
    BY <2>1, <2>2, WholeIs
  <2> QED
    BY <1>10, <2>3 DEF Asks, TimerCalls, TimerStateCalls, t, size, e
<1> QED
  BY <1>3, <1>4, <1>5, <1>6, <1>7, <1>8, <1>9, <1>10 DEF CountedCalls, TimerCalls, TimerStateCalls

LEMMA RemoteModeIs ==
  ASSUME NEW s \in Settings
  PROVE  Encodes(s, RemoteMode(s), Tells("remote", 2, <<>>), 2)
<1> DEFINE checks == <<>>  n == 0  size == 2  t == Tells("remote", 2, <<>>)  e == RemoteMode(s)
<1>1. e = Encoded(s, checks, <<Exactly(size)>>, t) /\ DOMAIN checks = 1 .. n /\ n \in Nat /\ size \in Nat
  BY DEF RemoteMode
<1> HIDE DEF checks, n, size, t, e
<1>2. Encodes(s, e, t, size)
  BY <1>1, WholeIs
<1> QED
  BY <1>2 DEF e, t, size

LEMMA PlainBegin ==
  ASSUME NEW s \in Settings, NEW r \in Requests
  PROVE  /\ r.call = "readTypeName" => Asks(s, r, Tells("typeName", 0, <<>>), 0)
         /\ r.call = "clearError" => Asks(s, r, Tells("clearError", 0, <<>>), 0)
         /\ r.call = "runMonitorCycle" => Asks(s, r, Tells("runMonitor", 0, <<>>), 0)
         /\ r.call \in {"remoteStop", "remoteLatchClear", "remoteReset", "remotePause"}
               => Asks(s, r, Tells("remote", 2, <<>>), 2)
         /\ r.call = "remoteRun" => Asks(s, r, Tells("remoteRun", 4, <<>>), 4)
<1>1. CASE r.call = "readTypeName"
  <2> DEFINE checks == <<FeatureAllowed(s, "TypeName")>>  n == 1  t == Tells("typeName", 0, <<>>)
             encoded == Encoded(s, checks, <<>>, t)
             e == BeginOf(s, r)
  <2>1. DOMAIN checks = 1 .. n /\ n \in Nat
    OBVIOUS
  <2>2. e = [encoded EXCEPT !.empties = encoded.error = "Ok"]
    BY <1>1, BeginIs DEF ReadTypeName
  <2>3. DOMAIN encoded = {"error", "end", "tells", "empties"}
    BY DEF Encoded
  <2> HIDE DEF checks, n, t
  <2>4. Encodes(s, encoded, t, 0)
    BY <2>1, NoChunk
  <2> HIDE DEF encoded, e
  <2>5. e.error = encoded.error /\ e.end = encoded.end /\ e.tells = encoded.tells
    BY <2>2, <2>3
  <2>6. Encodes(s, e, t, 0)
    BY <2>4, <2>5 DEF Encodes
  <2> QED
    BY <1>1, <2>6 DEF Asks, t, e
<1>2. CASE r.call = "clearError"
  <2> DEFINE checks == <<>>  n == 0  t == Tells("clearError", 0, <<>>)
             e == BeginOf(s, r)
  <2>1. e = Encoded(s, checks, <<>>, t) /\ DOMAIN checks = 1 .. n /\ n \in Nat
    BY <1>2, BeginIs DEF ClearError
  <2> HIDE DEF checks, n, t, e
  <2>2. Encodes(s, e, t, 0)
    BY <2>1, NoChunk
  <2> QED
    BY <1>2, <2>2 DEF Asks, t, e
<1>3. CASE r.call = "runMonitorCycle"
  <2> DEFINE checks == <<FeatureAllowed(s, "Monitor"),
                         CountValid(r.points + r.dpoints, Limit["MonitorRegisterWord"])>>
             n == 2  t == Tells("runMonitor", 0, <<>>)
             e == BeginOf(s, r)
  <2>1. e = Encoded(s, checks, <<>>, t) /\ DOMAIN checks = 1 .. n /\ n \in Nat
    BY <1>3, BeginIs DEF RunMonitorCycle
  <2> HIDE DEF checks, n, t, e
  <2>2. Encodes(s, e, t, 0)
    BY <2>1, NoChunk
  <2> QED
    BY <1>3, <2>2 DEF Asks, t, e
<1>4. CASE r.call \in {"remoteStop", "remoteLatchClear", "remoteReset"}
  <2>1. BeginOf(s, r) = RemoteMode(s)
    BY <1>4, BeginIs DEF RemoteStop, RemoteLatchClear, RemoteReset
  <2> QED
    BY <1>4, <2>1, RemoteModeIs DEF Asks
<1>5. CASE r.call = "remotePause"
  <2> DEFINE e == BeginOf(s, r)  read == RemoteMode(s)
  <2>1. e = IF r.valid THEN read ELSE [read EXCEPT !.error = "InvalidArgument", !.end = 0]
    BY <1>5, BeginIs DEF RemotePause
  <2>2. Encodes(s, read, Tells("remote", 2, <<>>), 2)
    BY RemoteModeIs
  <2>3. DOMAIN read = {"error", "end", "tells", "empties"}
    BY DEF RemoteMode, Encoded
  <2> HIDE DEF read, e
  <2>4. s.txCapacity \in Nat
    BY SettingIs
  <2>5. Encodes(s, e, Tells("remote", 2, <<>>), 2)
    <3>1. CASE ~r.valid
      <4>1. e.tells = read.tells /\ e.end = 0 /\ e.error = "InvalidArgument"
        BY <2>1, <2>3, <3>1
      <4> QED
        BY <2>2, <2>4, <4>1 DEF Encodes
    <3> QED
      BY <2>1, <2>2, <3>1
  <2> QED
    BY <1>5, <2>5 DEF Asks, e
<1>6. CASE r.call = "remoteRun"
  <2> DEFINE checks == <<Refuse(~r.valid, "InvalidArgument")>>  n == 1  size == 4
             t == Tells("remoteRun", 4, <<>>)
             e == BeginOf(s, r)
  <2>1. e = Encoded(s, checks, <<Exactly(size)>>, t) /\ DOMAIN checks = 1 .. n /\ n \in Nat /\ size \in Nat
    BY <1>6, BeginIs DEF RemoteRun
  <2> HIDE DEF checks, n, size, t, e
  <2>2. Encodes(s, e, t, size)
    BY <2>1, WholeIs
  <2> QED
    BY <1>6, <2>2 DEF Asks, t, size, e
<1> QED
  BY <1>1, <1>2, <1>3, <1>4, <1>5, <1>6

LEMMA SizedBegin ==
  ASSUME NEW s \in Settings, NEW r \in Requests, r.call \in {"selfTestLoopback"} \cup PasswordCalls
  PROVE  /\ r.call = "selfTestLoopback"
               => /\ Asks(s, r, Tells("selfTest", 2, <<r.points>>), 2 + r.points)
                  /\ Sent(s, r) => r.points <= r.capacity
         /\ r.call \in PasswordCalls
               => Asks(s, r, Tells("password", 2, <<r.points>>), 2 + r.points)
<1>1. r.points \in Nat /\ 2 + r.points \in Nat /\ (r.call = "selfTestLoopback" => r.capacity \in Nat)
  BY Sized
<1>2. CASE r.call = "selfTestLoopback"
  <2> DEFINE checks == <<Refuse(~r.valid, "InvalidArgument"), CountValid(r.points, LoopbackLimit)>>
             n == 2  size == 2 + r.points
             t == Tells("selfTest", 2, <<r.points>>)
             encoded == Encoded(s, checks, <<Exactly(size)>>, t)
             e == BeginOf(s, r)
  <2>1. DOMAIN checks = 1 .. n /\ n \in Nat /\ size \in Nat
    BY <1>1
  <2>2. e = IF encoded.error = "Ok"
            THEN [encoded EXCEPT !.error = HoldsAll(r), !.empties = HoldsAll(r) = "Ok"]
            ELSE encoded
    BY <1>2, BeginIs DEF SelfTestLoopback, EncodedSelfTest
  <2>3. DOMAIN encoded = {"error", "end", "tells", "empties"}
    BY DEF Encoded
  <2> HIDE DEF checks, n, size, t
  <2>4. Encodes(s, encoded, t, size)
    BY <2>1, WholeIs
  <2> HIDE DEF encoded, e
  <2>5. Encodes(s, e, t, size) /\ (e.error = "Ok" => HoldsAll(r) = "Ok")
    <3>1. CASE encoded.error = "Ok"
      <4>1. e.error = HoldsAll(r) /\ e.end = encoded.end /\ e.tells = encoded.tells
        BY <2>2, <2>3, <3>1
      <4> QED
        BY <2>4, <3>1, <4>1 DEF Encodes
    <3>2. CASE encoded.error # "Ok"
      BY <2>2, <2>4, <3>2
    <3> QED
      BY <3>1, <3>2
  <2>6. e.error = "Ok" => r.points <= r.capacity
    BY <1>1, <1>2, <2>5, HoldsAllIs
  <2> QED
    BY <1>2, <2>5, <2>6 DEF Asks, Sent, PasswordCalls, t, size, e
<1>3. CASE r.call \in PasswordCalls
  <2> DEFINE checks == <<Refuse(~r.given, "InvalidArgument"),
                         Refuse(s.txCapacity < 8, "BufferTooSmall"),
                         Refuse(~r.valid \/ r.points > 32, "InvalidArgument"),
                         Refuse(s.mode = "Legacy" /\ r.points # 4, "InvalidArgument"),
                         Refuse(s.mode = "iQR" /\ r.points < 6, "InvalidArgument")>>
             n == 5  size == 2 + r.points  t == Tells("password", 2, <<r.points>>)
             e == BeginOf(s, r)
  <2>1. e = Encoded(s, checks, <<Exactly(size)>>, t)
    BY <1>3, BeginIs DEF PasswordCalls, RemotePasswordUnlock, RemotePasswordLock, RemotePassword
  <2>2. DOMAIN checks = 1 .. n /\ n \in Nat /\ size \in Nat
    BY <1>1
  <2> HIDE DEF checks, n, size, t, e
  <2>3. Encodes(s, e, t, size)
    BY <2>1, <2>2, WholeIs
  <2> QED
    BY <1>3, <2>3 DEF Asks, PasswordCalls, t, size, e
<1> QED
  BY <1>2, <1>3

(* The operation state is a word read of its own. *)
LEMMA StateBegin ==
  ASSUME NEW s \in Settings, NEW r, r.call = "readCpuOperationState"
  PROVE  Asks(s, r, Tells("readWords", SpecSize(s), <<1>>), SpecSize(s) + 2)
<1>1. StatusWord.points = 1 /\ StatusWord.points \in Nat /\ StatusWord.capacity \in Nat
  BY DEF StatusWord
<1>2. BeginOf(s, r) = ReadWords(s, StatusWord)
  BY BeginIs DEF ReadCpuOperationState
<1> HIDE DEF StatusWord
<1> QED
  BY <1>1, <1>2, DirectReadIs DEF Asks, ReadWords

-----------------------------------------------------------------------------
(* Encodings of a length that depends on the request: parts one after the   *)
(* other, each of which asks for the room it needs.                         *)
Parts(chunks, size) ==
    /\ chunks \in Seq(Chunks)
    /\ \A i \in DOMAIN chunks : chunks[i].writes <= chunks[i].needs
    /\ WritesOf(chunks) = size

LEMMA PartsIs ==
  ASSUME NEW s \in Settings, NEW n \in Nat, NEW checks, DOMAIN checks = 1 .. n,
         NEW chunks, NEW size, Parts(chunks, size), NEW t, NEW e, e = Encoded(s, checks, chunks, t)
  PROVE  /\ Encodes(s, e, t, size)
         /\ e.error = "Ok" => \A i \in 1 .. n : checks[i] = "Ok"
<1> DEFINE k == Len(chunks)
<1>1. /\ chunks \in Seq(Chunks) /\ \A i \in DOMAIN chunks : chunks[i].writes <= chunks[i].needs
      /\ WritesOf(chunks) = size
  BY DEF Parts
<1>2. k \in Nat /\ DOMAIN chunks = 1 .. k /\ chunks \in [1 .. k -> Chunks]
  BY <1>1, LenProperties
<1> HIDE DEF k
<1>3. /\ Encodes(s, e, t, WritesOf(chunks))
      /\ e.error = "Ok" => \A i \in 1 .. n : checks[i] = "Ok"
  BY <1>1, <1>2, ManyChunks
<1> QED
  BY <1>1, <1>3

LEMMA EachExactly ==
  ASSUME NEW k \in Nat, NEW sizes \in [1 .. k -> Nat], NEW chunks, DOMAIN chunks = 1 .. k,
         chunks = [i \in 1 .. k |-> Exactly(sizes[i])]
  PROVE  Parts(chunks, SumOf(sizes))
<1>1. \A i \in 1 .. k : chunks[i] \in Chunks /\ chunks[i].writes = sizes[i] /\ chunks[i].needs = sizes[i]
  BY ExactlyIs
<1>2. chunks \in [1 .. k -> Chunks]
  BY <1>1
<1>3. chunks \in Seq(Chunks)
  BY <1>2
<1>4. [i \in DOMAIN chunks |-> chunks[i].writes] = sizes
  BY <1>1
<1> QED
  BY <1>1, <1>3, <1>4, SMTT(30) DEF Parts, WritesOf

LEMMA OneExactly ==
  ASSUME NEW m \in Nat
  PROVE  Parts(<<Exactly(m)>>, m)
<1> DEFINE chunks == <<Exactly(m)>>  k == 1  sizes == [i \in 1 .. 1 |-> m]
<1>1. k \in Nat /\ sizes \in [1 .. k -> Nat] /\ DOMAIN chunks = 1 .. k
  OBVIOUS
<1>2. chunks = [i \in 1 .. k |-> Exactly(sizes[i])]
  OBVIOUS
<1>3. sizes \in [1 .. 1 -> Nat] /\ sizes[1] = m
  OBVIOUS
<1> HIDE DEF sizes
<1>4. SumOf(sizes) = m
  BY <1>3, SumOfOne
<1> HIDE DEF k, chunks
<1>5. Parts(chunks, SumOf(sizes))
  BY <1>1, <1>2, EachExactly
<1> QED
  BY <1>4, <1>5 DEF chunks

LEMMA Joined ==
  ASSUME NEW a, NEW b, NEW x, NEW y, Parts(a, x), Parts(b, y)
  PROVE  Parts(a \o b, x + y) /\ x \in Nat /\ y \in Nat
<1> DEFINE j == Len(a)  k == Len(b)  all == a \o b
           A == [i \in 1 .. j |-> a[i].writes]
           B == [i \in 1 .. k |-> b[i].writes]
           C == [i \in 1 .. j + k |-> all[i].writes]
<1>1. a \in Seq(Chunks) /\ b \in Seq(Chunks)
  BY DEF Parts
<1>2. j \in Nat /\ k \in Nat /\ DOMAIN a = 1 .. j /\ DOMAIN b = 1 .. k
  BY <1>1, LenProperties
<1>3. /\ all \in Seq(Chunks) /\ DOMAIN all = 1 .. j + k
      /\ \A i \in 1 .. j : all[i] = a[i]
      /\ \A i \in 1 .. k : all[j + i] = b[i]
  BY <1>1, <1>2, ConcatProperties
<1>4. \A i \in 1 .. j + k : all[i] = IF i <= j THEN a[i] ELSE b[i - j]
  <2> TAKE i \in 1 .. j + k
  <2>1. CASE i <= j
    BY <1>2, <1>3, <2>1
  <2>2. CASE i > j
    <3>1. i - j \in 1 .. k /\ i = j + (i - j)
      BY <1>2, <2>2
    <3>2. all[j + (i - j)] = b[i - j]
      BY <1>3, <3>1
    <3> QED
      BY <1>2, <2>2, <3>1, <3>2
  <2> QED
    BY <1>2, <2>1, <2>2
<1>n. \A i \in 1 .. j : all[i] = a[i]
  BY <1>3
<1>m. \A i \in 1 .. k : all[j + i] = b[i]
  BY <1>3
<1> HIDE DEF all, j, k
<1>c. \A c \in Chunks : c.writes \in Nat
  BY DEF Chunks
<1>5. /\ \A i \in 1 .. j : a[i] \in Chunks /\ a[i].writes \in Nat /\ a[i].writes <= a[i].needs
      /\ \A i \in 1 .. k : b[i] \in Chunks /\ b[i].writes \in Nat /\ b[i].writes <= b[i].needs
  <2>1. \A i \in 1 .. j : a[i] \in Chunks /\ a[i].writes <= a[i].needs
    BY <1>1, <1>2, ElementOfSeq DEF Parts, j
  <2>2. \A i \in 1 .. k : b[i] \in Chunks /\ b[i].writes <= b[i].needs
    BY <1>1, <1>2, ElementOfSeq DEF Parts, k
  <2> QED
    BY <1>c, <2>1, <2>2
<1>6. \A i \in 1 .. j + k : all[i].writes \in Nat /\ all[i].writes <= all[i].needs
  <2> TAKE i \in 1 .. j + k
  <2>1. i <= j => i \in 1 .. j
    BY <1>2
  <2>2. ~(i <= j) => i - j \in 1 .. k
    BY <1>2
  <2> QED
    BY <1>4, <1>5, <2>1, <2>2
<1>7. A \in [1 .. j -> Nat] /\ B \in [1 .. k -> Nat] /\ C \in [1 .. j + k -> Nat]
  BY <1>5, <1>6
<1>8. \A i \in 1 .. j : C[i] = A[i]
  BY <1>2, <1>n
<1>9. \A i \in 1 .. k : C[j + i] = B[i]
  <2> TAKE i \in 1 .. k
  <2>1. j + i \in 1 .. j + k
    BY <1>2
  <2> QED
    BY <1>m, <2>1
<1>10. SumOf(A) = x /\ SumOf(B) = y /\ WritesOf(all) = SumOf(C)
  BY <1>2, <1>3 DEF Parts, WritesOf
<1> HIDE DEF A, B, C
<1>11. SumOf(C) = SumOf(A) + SumOf(B)
  BY <1>2, <1>7, <1>8, <1>9, SumOfBoth, ZenonT(60)
<1>12. SumOf(A) \in Nat /\ SumOf(B) \in Nat
  BY <1>2, <1>7, SumIsNat
<1> QED
  BY <1>3, <1>6, <1>10, <1>11, <1>12 DEF Parts, all

(* The points of a list of blocks are a sum, too. *)
PointsOf(blocks) == [i \in DOMAIN blocks |-> blocks[i].points]

LEMMA TotalIs ==
  ASSUME NEW blocks \in Seq(DeviceBlock)
  PROVE  /\ TotalOf(blocks) = SumOf(PointsOf(blocks)) /\ TotalOf(blocks) \in Nat
         /\ PointsOf(blocks) \in [1 .. Len(blocks) -> Nat]
<1> DEFINE k == Len(blocks)  sizes == PointsOf(blocks)
           each(f, n) == IF n = 0 THEN 0 ELSE f[n - 1] + blocks[n].points
           upTo == CHOOSE f : f = [n \in 0 .. k |-> each(f, n)]
<1>1. k \in Nat /\ DOMAIN blocks = 1 .. k /\ blocks \in [1 .. k -> DeviceBlock]
  BY LenProperties
<1>2. \A i \in 1 .. k : blocks[i].points \in Nat
  BY <1>1 DEF DeviceBlock
<1>3. sizes \in [1 .. k -> Nat] /\ \A i \in 1 .. k : sizes[i] = blocks[i].points
  BY <1>1, <1>2 DEF PointsOf
<1>4. TotalOf(blocks) = upTo[k]
  BY DEF TotalOf
<1> HIDE DEF sizes
<1>5. PICK g \in [0 .. k -> Nat] : /\ g[0] = 0 /\ \A n \in 1 .. k : g[n] = g[n - 1] + sizes[n]
                                   /\ SumOf(sizes) = g[k]
  BY <1>1, <1>3, SumsOf
<1> HIDE DEF k
<1>6. g = [n \in 0 .. k |-> each(g, n)]
  <2> DEFINE F(n) == each(g, n)
  <2>1. \A n \in 0 .. k : g[n] = F(n)
    <3> TAKE n \in 0 .. k
    <3>1. n # 0 => n \in 1 .. k
      BY <1>1
    <3> QED
      BY <1>3, <1>5, <3>1
  <2> HIDE DEF F
  <2>2. g = [n \in 0 .. k |-> F(n)]
    BY <2>1
  <2> QED
    BY <2>2 DEF F
<1>7. upTo = [n \in 0 .. k |-> each(upTo, n)]
  BY <1>6
<1> HIDE DEF upTo
<1> DEFINE S == {n \in 0 .. k : upTo[n] = g[n]}
<1>8. 0 \in S
  BY <1>1, <1>5, <1>7
<1>9. ASSUME NEW n \in 1 .. k, n - 1 \in S PROVE n \in S
  <2>1. upTo[n - 1] = g[n - 1] /\ n \in 0 .. k /\ n # 0
    BY <1>1, <1>9
  <2>2. upTo[n] = upTo[n - 1] + blocks[n].points
    BY <1>7, <2>1
  <2> QED
    BY <1>3, <1>5, <2>1, <2>2
<1> HIDE DEF S
<1>10. \A n \in 0 .. k : n \in S
  BY <1>1, <1>8, <1>9, FiniteInduction
<1>11. upTo[k] = g[k] /\ g[k] \in Nat
  BY <1>1, <1>5, <1>10 DEF S
<1> QED
  BY <1>3, <1>4, <1>5, <1>11 DEF k, sizes

LEMMA TotalOfBoth ==
  ASSUME NEW a \in Seq(DeviceBlock), NEW b \in Seq(DeviceBlock)
  PROVE  TotalOf(a \o b) = TotalOf(a) + TotalOf(b)
<1> DEFINE j == Len(a)  k == Len(b)  all == a \o b
           A == PointsOf(a)  B == PointsOf(b)  C == PointsOf(all)
<1>1. j \in Nat /\ k \in Nat /\ DOMAIN a = 1 .. j /\ DOMAIN b = 1 .. k
  BY LenProperties
<1>2. /\ all \in Seq(DeviceBlock) /\ Len(all) = j + k /\ DOMAIN all = 1 .. j + k
  BY <1>1, ConcatProperties
<1>3. \A i \in 1 .. j : all[i] = a[i]
  BY <1>1, ConcatProperties
<1>4. \A i \in 1 .. k : all[j + i] = b[i]
  BY <1>1, ConcatProperties
<1> HIDE DEF all
<1>5. /\ A \in [1 .. j -> Nat] /\ B \in [1 .. k -> Nat] /\ C \in [1 .. j + k -> Nat]
      /\ TotalOf(a) = SumOf(A) /\ TotalOf(b) = SumOf(B) /\ TotalOf(all) = SumOf(C)
  BY <1>2, TotalIs
<1> HIDE DEF j, k
<1>6. \A i \in 1 .. j : C[i] = A[i]
  BY <1>1, <1>2, <1>3 DEF PointsOf
<1>7. \A i \in 1 .. k : C[j + i] = B[i]
  <2> TAKE i \in 1 .. k
  <2>1. j + i \in 1 .. j + k
    BY <1>1
  <2> QED
    BY <1>1, <1>2, <1>4, <2>1 DEF PointsOf
<1> HIDE DEF A, B, C
<1>8. SumOf(C) = SumOf(A) + SumOf(B)
  BY <1>1, <1>5, <1>6, <1>7, SumOfBoth
<1> QED
  BY <1>5, <1>8 DEF all

LEMMA RandomIs ==
  ASSUME NEW s \in Settings, NEW r, Len(r.words) \in Nat, Len(r.dwords) \in Nat
  PROVE  RandomSize(s, r) \in Nat
<1> DEFINE m == Len(r.words)  n == Len(r.dwords)  c == SpecSize(s)
<1>1. c \in Nat
  BY SettingIs
<1>2. m \in Nat /\ n \in Nat /\ RandomSize(s, r) = 2 + (m + n) * c
  BY DEF RandomSize
<1> HIDE DEF m, n, c
<1>3. m + n \in Nat
  BY <1>2
<1> DEFINE k == m + n
<1>4. k \in Nat /\ RandomSize(s, r) = 2 + k * c
  BY <1>2, <1>3
<1> HIDE DEF k
<1>5. k * c \in Nat
  BY <1>1, <1>4
<1> DEFINE product == k * c
<1>6. product \in Nat /\ RandomSize(s, r) = 2 + product
  BY <1>4, <1>5
<1> HIDE DEF product
<1> QED
  BY <1>6

(* The sizes of extended devices, and the parts that write them *)
ExtSizes(s, devices) == [i \in DOMAIN devices |-> ExtSpecSize(s, devices[i])]

LEMMA ExtIs ==
  ASSUME NEW s \in Settings, NEW devices \in Seq(ExtClasses)
  PROVE  /\ ExtSizes(s, devices) \in [1 .. Len(devices) -> Nat]
         /\ Parts(ExtChunks(s, devices), 2 + SumOf(ExtSizes(s, devices)))
<1> DEFINE k == Len(devices)  sizes == ExtSizes(s, devices)
           rest == [i \in DOMAIN devices |-> Exactly(ExtSpecSize(s, devices[i]))]
           head == <<Exactly(2)>>  two == 2
<1>1. k \in Nat /\ DOMAIN devices = 1 .. k
  BY LenProperties
<1>2. \A class : ExtSpecSize(s, class) \in Nat
  BY SettingIs DEF ExtSpecSize, LinkSpecSize
<1>3. sizes \in [1 .. k -> Nat]
  BY <1>1, <1>2 DEF ExtSizes
<1>4. DOMAIN rest = 1 .. k /\ rest = [i \in 1 .. k |-> Exactly(sizes[i])]
  BY <1>1 DEF ExtSizes
<1>5. ExtChunks(s, devices) = head \o rest
  BY DEF ExtChunks
<1>6. two \in Nat /\ head = <<Exactly(two)>>
  OBVIOUS
<1> HIDE DEF rest, k, head, two
<1>7. Parts(head, two)
  BY <1>6, OneExactly
<1> HIDE DEF sizes
<1>8. Parts(rest, SumOf(sizes))
  BY <1>1, <1>3, <1>4, EachExactly
<1> DEFINE total == SumOf(sizes)
<1>9. Parts(rest, total)
  BY <1>8
<1> HIDE DEF total
<1>10. Parts(head \o rest, two + total)
  BY <1>7, <1>9, Joined
<1> QED
  BY <1>3, <1>5, <1>10 DEF sizes, k, two, total

RandomCalls == {"readRandom", "readRandomExt"} \cup RegisterCalls

LEMMA CountsIs ==
  ASSUME NEW r \in Requests, r.call \in RandomCalls
  PROVE  /\ Len(r.words) \in Nat /\ Len(r.dwords) \in Nat
         /\ r.call \in {"readRandom", "readRandomExt"} => r.wordCapacity \in Nat /\ r.dwordCapacity \in Nat
         /\ r.call \in {"readRandomExt", "registerMonitorDevicesExt"}
               => r.words \in Seq(ExtClasses) /\ r.dwords \in Seq(ExtClasses)
<1>1. CASE r.call \in {"readRandom", "readRandomExt"}
  BY <1>1, RandomRead, LenProperties
<1>2. CASE r.call \in RegisterCalls
  BY <1>2, Registering, LenProperties DEF RegisterCalls
<1> QED
  BY <1>1, <1>2 DEF RandomCalls

LEMMA RandomHeldIs ==
  ASSUME NEW r, RandomHeld(r) = "Ok", Len(r.words) \in Nat, Len(r.dwords) \in Nat,
         r.wordCapacity \in Nat, r.dwordCapacity \in Nat
  PROVE  Len(r.words) <= r.wordCapacity /\ Len(r.dwords) <= r.dwordCapacity
BY DEF RandomHeld, Refuse

(* What a request with lists of plain, or of extended, devices comes to *)
ExtSize(s, r) == 2 + SumOf(ExtSizes(s, r.words \o r.dwords))

LEMMA RandomBegin ==
  ASSUME NEW s \in Settings, NEW r \in Requests, r.call \in RandomCalls
  PROVE  /\ r.call = "readRandom"
               => Asks(s, r, TellsRandom("readRandom", r, SpecSize(s)), RandomSize(s, r))
         /\ r.call = "registerMonitorDevices"
               => Asks(s, r, TellsRandom("registerMonitor", r, SpecSize(s)), RandomSize(s, r))
         /\ r.call = "readRandomExt"
               => Asks(s, r, TellsRandom("readRandom", r, 0), ExtSize(s, r))
         /\ r.call = "registerMonitorDevicesExt"
               => Asks(s, r, TellsRandom("registerMonitor", r, 0), ExtSize(s, r))
         /\ r.call \in {"readRandom", "readRandomExt"} /\ Sent(s, r)
               => Len(r.words) <= r.wordCapacity /\ Len(r.dwords) <= r.dwordCapacity
<1>1. /\ Len(r.words) \in Nat /\ Len(r.dwords) \in Nat
      /\ r.call \in {"readRandom", "readRandomExt"} => r.wordCapacity \in Nat /\ r.dwordCapacity \in Nat
  BY CountsIs
<1>2. RandomSize(s, r) \in Nat
  BY <1>1, RandomIs
<1>3. r.call \in {"readRandomExt", "registerMonitorDevicesExt"}
         => Parts(ExtChunks(s, r.words \o r.dwords), ExtSize(s, r))
  <2> SUFFICES ASSUME r.call \in {"readRandomExt", "registerMonitorDevicesExt"}
               PROVE  Parts(ExtChunks(s, r.words \o r.dwords), ExtSize(s, r))
    OBVIOUS
  <2>1. r.words \in Seq(ExtClasses) /\ r.dwords \in Seq(ExtClasses)
    BY CountsIs
  <2>2. r.words \o r.dwords \in Seq(ExtClasses)
    BY <2>1, ConcatProperties
  <2> QED
    BY <2>2, ExtIs DEF ExtSize
<1>4. CASE r.call = "readRandom"
  <2> DEFINE checks == <<FeatureAllowed(s, "Random"), RandomCountsValid(r, "RandomReadWord"), RandomHeld(r),
                         ListError(r.words, {"buffer"}), ListError(r.dwords, {"buffer"}),
                         SomeIn(r.words, {"timerState", "counterContact", "timerCurrent", "dwordOnly"}),
                         SomeIn(r.dwords, {"timerState", "counterContact"})>>
             n == 7  size == RandomSize(s, r)  t == TellsRandom("readRandom", r, SpecSize(s))
             e == BeginOf(s, r)
  <2>1. e = Encoded(s, checks, <<Exactly(size)>>, t)
    BY <1>4, BeginIs DEF ReadRandom
  <2>2. DOMAIN checks = 1 .. n /\ checks[3] = RandomHeld(r) /\ n \in Nat /\ 3 \in 1 .. n /\ size \in Nat
    BY <1>2
  <2> HIDE DEF checks, n, size, t, e
  <2>3. Encodes(s, e, t, size) /\ (e.error = "Ok" => \A i \in 1 .. n : checks[i] = "Ok")
    BY <2>1, <2>2, WholeIs
  <2>4. e.error = "Ok" => RandomHeld(r) = "Ok"
    BY <2>2, <2>3
  <2>5. e.error = "Ok" => Len(r.words) <= r.wordCapacity /\ Len(r.dwords) <= r.dwordCapacity
    BY <1>1, <1>4, <2>4, RandomHeldIs
  <2> QED
    BY <1>4, <2>3, <2>5 DEF Asks, Sent, t, size, e
<1>5. CASE r.call = "registerMonitorDevices"
  <2> DEFINE checks == <<FeatureAllowed(s, "Monitor"), RandomCountsValid(r, "MonitorRegisterWord"),
                         ListError(r.words, {"buffer"}), ListError(r.dwords, {"buffer"}),
                         SomeIn(r.words, {"counterContact"}), SomeIn(r.dwords, {"counterContact"})>>
             n == 6  size == RandomSize(s, r)  t == TellsRandom("registerMonitor", r, SpecSize(s))
             e == BeginOf(s, r)
  <2>1. e = Encoded(s, checks, <<Exactly(size)>>, t)
    BY <1>5, BeginIs DEF RegisterMonitorDevices
  <2>2. DOMAIN checks = 1 .. n /\ n \in Nat /\ size \in Nat
    BY <1>2
  <2> HIDE DEF checks, n, size, t, e
  <2>3. Encodes(s, e, t, size)
    BY <2>1, <2>2, WholeIs
  <2> QED
    BY <1>5, <2>3 DEF Asks, t, size, e
<1>6. CASE r.call = "readRandomExt"
  <2> DEFINE refused == {"notLink", "linkCounter"}
             checks == <<FeatureAllowed(s, "Random"), RandomCountsValid(r, "RandomReadWordExt"),
                         RandomHeld(r), ExtListError(r.words, refused), ExtListError(r.dwords, refused),
                         ExtFeaturesAllowed(s, r.words), ExtFeaturesAllowed(s, r.dwords)>>
             chunks == ExtChunks(s, r.words \o r.dwords)
             n == 7  size == ExtSize(s, r)  t == TellsRandom("readRandom", r, 0)
             e == BeginOf(s, r)
  <2>1. e = Encoded(s, checks, chunks, t)
    BY <1>6, BeginIs DEF ReadRandomExt
  <2>2. DOMAIN checks = 1 .. n /\ checks[3] = RandomHeld(r) /\ n \in Nat /\ 3 \in 1 .. n
    OBVIOUS
  <2>p. Parts(chunks, size)
    BY <1>3, <1>6
  <2> HIDE DEF checks, chunks, n, size, t, e
  <2>3. Encodes(s, e, t, size) /\ (e.error = "Ok" => \A i \in 1 .. n : checks[i] = "Ok")
    BY <2>1, <2>2, <2>p, PartsIs
  <2>4. e.error = "Ok" => RandomHeld(r) = "Ok"
    BY <2>2, <2>3
  <2>5. e.error = "Ok" => Len(r.words) <= r.wordCapacity /\ Len(r.dwords) <= r.dwordCapacity
    BY <1>1, <1>6, <2>4, RandomHeldIs
  <2> QED
    BY <1>6, <2>3, <2>5 DEF Asks, Sent, t, size, e
<1>7. CASE r.call = "registerMonitorDevicesExt"
  <2> DEFINE checks == <<FeatureAllowed(s, "Monitor"), RandomCountsValid(r, "MonitorRegisterWordExt"),
                         ExtListError(r.words, {"linkCounter"}), ExtListError(r.dwords, {"linkCounter"}),
                         ExtFeaturesAllowed(s, r.words), ExtFeaturesAllowed(s, r.dwords)>>
             chunks == ExtChunks(s, r.words \o r.dwords)
             n == 6  size == ExtSize(s, r)  t == TellsRandom("registerMonitor", r, 0)
             e == BeginOf(s, r)
  <2>1. e = Encoded(s, checks, chunks, t)
    BY <1>7, BeginIs DEF RegisterMonitorDevicesExt
  <2>2. DOMAIN checks = 1 .. n /\ n \in Nat
    OBVIOUS
  <2>p. Parts(chunks, size)
    BY <1>3, <1>7
  <2> HIDE DEF checks, chunks, n, size, t, e
  <2>3. Encodes(s, e, t, size)
    BY <2>1, <2>2, <2>p, PartsIs
  <2> QED
    BY <1>7, <2>3 DEF Asks, t, size, e
<1> QED
  BY <1>4, <1>5, <1>6, <1>7 DEF RandomCalls, RegisterCalls

LEMMA BlockBegin ==
  ASSUME NEW s \in Settings, NEW r \in Requests, r.call = "readBlock"
  PROVE  /\ Asks(s, r, [service |-> "readBlock", spec |-> SpecSize(s),
                        counts |-> <<Len(r.wordBlocks), Len(r.bitBlocks)>>,
                        blocks |-> r.wordBlocks \o r.bitBlocks],
                 2 + (Len(r.wordBlocks) + Len(r.bitBlocks)) * (SpecSize(s) + 2))
         /\ Sent(s, r) => TotalOf(r.wordBlocks) <= r.wordCapacity /\ TotalOf(r.bitBlocks) <= r.dwordCapacity
<1> DEFINE blocks == Len(r.wordBlocks) + Len(r.bitBlocks)
           each == SpecSize(s) + 2
           size == 2 + blocks * each
           words == TotalOf(r.wordBlocks)  bits == TotalOf(r.bitBlocks)
           t == [service |-> "readBlock", spec |-> SpecSize(s),
                 counts |-> <<Len(r.wordBlocks), Len(r.bitBlocks)>>,
                 blocks |-> r.wordBlocks \o r.bitBlocks]
           held == Refuse(r.wordCapacity < words \/ r.dwordCapacity < bits, "InvalidArgument")
           checks == <<Refuse(~s.blockAccess, "UnsupportedDevice"), FeatureAllowed(s, "Block"),
                       Refuse(blocks = 0, "InvalidArgument"),
                       BlockListError(r.wordBlocks), BlockListError(r.bitBlocks),
                       Refuse(blocks > blockCountLimit(s), "InvalidArgument"),
                       Refuse(words + bits > PointLimit, "InvalidArgument"), held>>
           needs == HeaderSize(s) + size  n == 8
           e == BeginOf(s, r)
<1>1. e = Encoded(s, checks, <<Chunk(needs, size)>>, t)
  BY BeginIs DEF ReadBlock
<1>2. DOMAIN checks = 1 .. n /\ checks[8] = held /\ n \in Nat /\ 8 \in 1 .. n
  OBVIOUS
<1>3. r.wordBlocks \in Seq(DeviceBlock) /\ r.bitBlocks \in Seq(DeviceBlock)
      /\ r.wordCapacity \in Nat /\ r.dwordCapacity \in Nat
  BY BlockRead
<1>4. words \in Nat /\ bits \in Nat
  BY <1>3, TotalIs
<1>5. blocks \in Nat
  <2>1. Len(r.wordBlocks) \in Nat /\ Len(r.bitBlocks) \in Nat
    BY <1>3, LenProperties
  <2> DEFINE a == Len(r.wordBlocks)  b == Len(r.bitBlocks)
  <2>2. a \in Nat /\ b \in Nat /\ blocks = a + b
    BY <2>1
  <2> HIDE DEF a, b, blocks
  <2> QED
    BY <2>2
<1>6. each \in Nat /\ HeaderSize(s) \in Nat
  BY SettingIs
<1>7. held = "Ok" => words <= r.wordCapacity /\ bits <= r.dwordCapacity
  <2> HIDE DEF words, bits
  <2> QED
    BY <1>3, <1>4 DEF Refuse
<1> HIDE DEF checks, t, held, n, e, words, bits, blocks, each
<1>8. blocks * each \in Nat
  BY <1>5, <1>6
<1> DEFINE product == blocks * each
<1>9. product \in Nat /\ size = 2 + product
  BY <1>8
<1> HIDE DEF product
<1>10. size \in Nat /\ needs \in Nat /\ size <= needs
  BY <1>6, <1>9
<1> HIDE DEF size, needs
<1>11. Encodes(s, e, t, size) /\ (e.error = "Ok" => \A i \in 1 .. n : checks[i] = "Ok")
  BY <1>1, <1>2, <1>10, OneChunk
<1>12. e.error = "Ok" => words <= r.wordCapacity /\ bits <= r.dwordCapacity
  BY <1>2, <1>7, <1>11
<1> QED
  BY <1>11, <1>12 DEF Asks, Sent, e, t, size, words, bits, blocks, each

NameSize(name) == 2 + 2 * name.length
NameSizes(abbrevs) == [i \in DOMAIN abbrevs |-> NameSize(abbrevs[i])]
PointSizes(labels, fields) == [i \in DOMAIN labels |-> NameSize(labels[i]) + fields[i]]

LEMMA LabelChunksAre ==
  ASSUME NEW r, r.labels \in Seq(LabelPoint), r.abbrevs \in Seq(LabelName),
         NEW fields \in [1 .. Len(r.labels) -> Nat]
  PROVE  /\ NameSizes(r.abbrevs) \in [1 .. Len(r.abbrevs) -> Nat]
         /\ PointSizes(r.labels, fields) \in [1 .. Len(r.labels) -> Nat]
         /\ Parts(LabelChunks(r, fields),
                  (4 + SumOf(NameSizes(r.abbrevs))) + SumOf(PointSizes(r.labels, fields)))
<1> DEFINE j == Len(r.abbrevs)  k == Len(r.labels)
           names == [i \in DOMAIN r.abbrevs |-> NameChunk(r.abbrevs[i])]
           point(i) == <<NameChunk(r.labels[i]), Exactly(fields[i])>>
           start == <<Exactly(4)>> \o names
           each(f, n) == IF n = 0 THEN start ELSE f[n - 1] \o point(n)
           upTo == CHOOSE f : f = [n \in 0 .. k |-> each(f, n)]
           A == NameSizes(r.abbrevs)  B == PointSizes(r.labels, fields)
           total == SumOf(A)
<1>1. j \in Nat /\ DOMAIN r.abbrevs = 1 .. j /\ k \in Nat /\ DOMAIN r.labels = 1 .. k
  BY LenProperties
<1>2. \A i \in 1 .. j : r.abbrevs[i].length \in Nat
  <2> TAKE i \in 1 .. j
  <2>1. r.abbrevs[i] \in LabelName
    BY <1>1, ElementOfSeq
  <2> QED
    BY <2>1 DEF LabelName
<1>3. \A i \in 1 .. k : r.labels[i].length \in Nat
  <2> TAKE i \in 1 .. k
  <2>1. r.labels[i] \in LabelPoint
    BY <1>1, ElementOfSeq
  <2> QED
    BY <2>1 DEF LabelPoint
<1>4. A \in [1 .. j -> Nat] /\ \A i \in 1 .. j : A[i] = NameSize(r.abbrevs[i])
  BY <1>1, <1>2 DEF NameSizes, NameSize
<1>5. B \in [1 .. k -> Nat] /\ \A i \in 1 .. k : B[i] = NameSize(r.labels[i]) + fields[i]
  BY <1>1, <1>3 DEF PointSizes, NameSize
<1>6. LabelChunks(r, fields) = upTo[k]
  BY DEF LabelChunks
<1>7. Parts(start, 4 + total)
  <2>1. \A name : NameChunk(name) = Exactly(NameSize(name))
    BY DEF NameChunk, NameSize
  <2>2. DOMAIN names = 1 .. j /\ names = [i \in 1 .. j |-> Exactly(A[i])]
    BY <1>1, <1>4, <2>1
  <2> HIDE DEF names, j, A
  <2>3. Parts(names, SumOf(A))
    BY <1>1, <1>4, <2>2, EachExactly
  <2> DEFINE four == 4  head == <<Exactly(four)>>
  <2>4. four \in Nat
    OBVIOUS
  <2>5. start = head \o names
    OBVIOUS
  <2> HIDE DEF four
  <2>6. Parts(head, four)
    BY <2>4, OneExactly
  <2>7. Parts(names, total)
    BY <2>3
  <2> HIDE DEF total, head
  <2>8. Parts(head \o names, four + total)
    BY <2>6, <2>7, Joined
  <2> QED
    BY <2>5, <2>8 DEF four
<1>8. ASSUME NEW i \in 1 .. k PROVE Parts(point(i), B[i])
  <2> DEFINE a == NameSize(r.labels[i])  b == fields[i]  chunks == point(i)
  <2>1. a \in Nat /\ b \in Nat /\ B[i] = a + b
    BY <1>1, <1>3, <1>5, SMTT(30) DEF NameSize
  <2>2. chunks = <<Exactly(a), Exactly(b)>>
    BY DEF NameChunk, NameSize
  <2> HIDE DEF a, b
  <2>3. /\ <<Exactly(a), Exactly(b)>> \in [1 .. 2 -> Chunks]
        /\ \A m \in 1 .. 2 : <<Exactly(a), Exactly(b)>>[m].writes <= <<Exactly(a), Exactly(b)>>[m].needs
        /\ WritesOf(<<Exactly(a), Exactly(b)>>) = a + b
    BY <2>1, WritesOfTwo
  <2> HIDE DEF chunks
  <2>4. chunks \in [1 .. 2 -> Chunks] /\ (\A m \in 1 .. 2 : chunks[m].writes <= chunks[m].needs)
        /\ WritesOf(chunks) = a + b
    BY <2>2, <2>3
  <2>5. chunks \in Seq(Chunks) /\ DOMAIN chunks = 1 .. 2
    <3> DEFINE two == 2
    <3>1. two \in Nat /\ chunks \in [1 .. two -> Chunks]
      BY <2>4
    <3> HIDE DEF two
    <3>2. chunks \in Seq(Chunks)
      BY <3>1
    <3> QED
      BY <2>4, <3>2
  <2>6. Parts(chunks, a + b)
    BY <2>4, <2>5 DEF Parts
  <2> QED
    BY <2>1, <2>6 DEF chunks
<1> HIDE DEF A, B
<1>9. PICK g \in [0 .. k -> Nat] : /\ g[0] = 0 /\ \A n \in 1 .. k : g[n] = g[n - 1] + B[n]
                                   /\ SumOf(B) = g[k]
  <2> HIDE DEF k
  <2> QED
    BY <1>1, <1>5, SumsOf
<1>10. total \in Nat
  <2> HIDE DEF j
  <2> QED
    BY <1>1, <1>4, SumIsNat
<1> HIDE DEF total
<1>11. \A i \in 1 .. k : point(i) \in Seq(Chunks)
  BY <1>8 DEF Parts
<1>12. start \in Seq(Chunks)
  BY <1>7 DEF Parts
<1> HIDE DEF start, point, k
<1>13. upTo = [n \in 0 .. k |-> each(upTo, n)]
  <2> DEFINE step == [n \in 1 .. k |-> [v \in Seq(Chunks) |-> v \o point(n)]]
             V == Seq(Chunks)
  <2>1. step \in Steps(k, V)
    BY <1>11, ConcatProperties DEF Steps
  <2>2. \A n \in 1 .. k, v \in V : step[n][v] = v \o point(n)
    OBVIOUS
  <2>3. start \in V
    BY <1>12
  <2> HIDE DEF step, V
  <2>4. PICK f \in [0 .. k -> V] : Unfolds(f, k, start, step)
    BY <1>1, <2>1, <2>3, FiniteRecursion
  <2> DEFINE F(n) == each(f, n)
  <2>5. \A n \in 0 .. k : f[n] = F(n)
    <3> TAKE n \in 0 .. k
    <3>1. CASE n = 0
      BY <2>4, <3>1 DEF Unfolds
    <3>2. CASE n # 0
      <4>1. n \in 1 .. k /\ n - 1 \in 0 .. k
        BY <1>1, <3>2
      <4>2. f[n] = step[n][f[n - 1]]
        BY <2>4, <3>2 DEF Unfolds
      <4>3. f[n - 1] \in V
        BY <4>1
      <4> QED
        BY <2>2, <3>2, <4>1, <4>2, <4>3
    <3> QED
      BY <3>1, <3>2
  <2> HIDE DEF F
  <2>6. f = [n \in 0 .. k |-> F(n)]
    BY <2>5
  <2>7. f = [n \in 0 .. k |-> each(f, n)]
    BY <2>6 DEF F
  <2> QED
    BY <2>7
<1> HIDE DEF upTo
<1> DEFINE S == {n \in 0 .. k : Parts(upTo[n], (4 + total) + g[n])}
<1>14. 0 \in S
  <2>1. upTo[0] = start /\ 0 \in 0 .. k
    BY <1>1, <1>13
  <2>2. (4 + total) + g[0] = 4 + total
    BY <1>9, <1>10
  <2> QED
    BY <1>7, <2>1, <2>2
<1>15. ASSUME NEW n \in 1 .. k, n - 1 \in S PROVE n \in S
  <2> DEFINE x == (4 + total) + g[n - 1]  y == B[n]
  <2>1. Parts(upTo[n - 1], x) /\ n \in 0 .. k /\ n # 0 /\ n - 1 \in 0 .. k
    BY <1>1, <1>15
  <2>2. upTo[n] = upTo[n - 1] \o point(n)
    BY <1>13, <2>1
  <2>3. Parts(point(n), y)
    BY <1>8
  <2>4. (4 + total) + g[n] = x + y
    BY <1>5, <1>9, <1>10, <2>1, SMTT(30)
  <2> HIDE DEF x, y
  <2>5. Parts(upTo[n - 1] \o point(n), x + y)
    BY <2>1, <2>3, Joined
  <2> QED
    BY <2>1, <2>2, <2>4, <2>5
<1> HIDE DEF S
<1>16. \A n \in 0 .. k : n \in S
  BY <1>1, <1>14, <1>15, FiniteInduction
<1>17. Parts(upTo[k], (4 + total) + g[k])
  BY <1>1, <1>16 DEF S
<1> QED
  BY <1>4, <1>5, <1>6, <1>9, <1>17 DEF A, B, j, k, total

(* The bytes behind the name of each label *)
FieldsOf(r) ==
    [i \in DOMAIN r.labels |->
        IF r.call = "readArrayLabels" THEN 4
        ELSE IF r.call = "writeArrayLabels" THEN 4 + r.labels[i].bytes
        ELSE IF r.call = "readRandomLabels" THEN 0 ELSE 2 + r.labels[i].bytes]

LabelSize(r) == (4 + SumOf(NameSizes(r.abbrevs))) + SumOf(PointSizes(r.labels, FieldsOf(r)))

LEMMA LabelsAre ==
  ASSUME NEW r \in Requests, r.call \in LabelCalls
  PROVE  /\ FieldsOf(r) \in [1 .. Len(r.labels) -> Nat]
         /\ Parts(LabelChunks(r, FieldsOf(r)), LabelSize(r))
<1> DEFINE k == Len(r.labels)
<1>1. r.labels \in Seq(LabelPoint) /\ r.abbrevs \in Seq(LabelName)
  BY Labelled
<1>2. k \in Nat /\ DOMAIN r.labels = 1 .. k
  BY <1>1, LenProperties
<1>3. \A i \in 1 .. k : r.labels[i].bytes \in Nat
  <2> TAKE i \in 1 .. k
  <2>1. r.labels[i] \in LabelPoint
    BY <1>1, <1>2, ElementOfSeq
  <2> QED
    BY <2>1 DEF LabelPoint
<1>4. FieldsOf(r) \in [1 .. k -> Nat]
  <2> HIDE DEF k
  <2> QED
    BY <1>2, <1>3 DEF FieldsOf
<1> QED
  BY <1>1, <1>4, LabelChunksAre DEF LabelSize

LEMMA LabelBegin ==
  ASSUME NEW s \in Settings, NEW r \in Requests, r.call \in LabelCalls
  PROVE  /\ r.call = "readArrayLabels" => Asks(s, r, TellsLabels("readLabels", r), LabelSize(r))
         /\ r.call = "writeArrayLabels" => Asks(s, r, TellsLabels("writeLabels", r), LabelSize(r))
         /\ r.call = "readRandomLabels" => Asks(s, r, TellsLabels("readRandomLabels", r), LabelSize(r))
         /\ r.call = "writeRandomLabels" => Asks(s, r, TellsLabels("writeRandomLabels", r), LabelSize(r))
         /\ r.call \in LabelReads /\ Sent(s, r) => Len(r.labels) <= r.capacity
         /\ r.call = "writeArrayLabels" /\ Sent(s, r)
               => \A i \in DOMAIN r.labels :
                     r.labels[i].bytes = ElementBytes(r.labels[i].unit, r.labels[i].elements)
<1> DEFINE e == BeginOf(s, r)  size == LabelSize(r)  chunks == LabelChunks(r, FieldsOf(r))
<1>1. Parts(chunks, size)
  BY LabelsAre
<1>2. Len(r.labels) \in Nat /\ r.capacity \in Nat
  BY Labelled, LenProperties
<1>3. LabelsHeld(r) = "Ok" => Len(r.labels) <= r.capacity
  BY <1>2 DEF LabelsHeld, Refuse
<1>4. CASE r.call = "readArrayLabels"
  <2> DEFINE valid == [i \in DOMAIN r.labels |->
                         r.labels[i].unit <= 1 /\ r.labels[i].elements > 0]
             checks == <<LabelListsValid(r), LabelsHeld(r), LabelsValid(r, valid)>>
             n == 3  t == TellsLabels("readLabels", r)
  <2>1. FieldsOf(r) = [i \in DOMAIN r.labels |-> 4]
    BY <1>4 DEF FieldsOf
  <2>2. e = Encoded(s, checks, chunks, t)
    BY <1>4, <2>1, BeginIs DEF ReadArrayLabels
  <2>3. DOMAIN checks = 1 .. n /\ checks[2] = LabelsHeld(r) /\ n \in Nat /\ 2 \in 1 .. n
    OBVIOUS
  <2> HIDE DEF checks, n, t, e, size, chunks
  <2>4. Encodes(s, e, t, size) /\ (e.error = "Ok" => \A i \in 1 .. n : checks[i] = "Ok")
    BY <1>1, <2>2, <2>3, PartsIs
  <2>5. e.error = "Ok" => LabelsHeld(r) = "Ok"
    BY <2>3, <2>4
  <2> QED
    BY <1>3, <1>4, <2>4, <2>5 DEF Asks, Sent, t, e, size
<1>5. CASE r.call = "readRandomLabels"
  <2> DEFINE valid == [i \in DOMAIN r.labels |-> TRUE]
             checks == <<LabelListsValid(r), LabelsHeld(r), LabelsValid(r, valid)>>
             n == 3  t == TellsLabels("readRandomLabels", r)
  <2>1. FieldsOf(r) = [i \in DOMAIN r.labels |-> 0]
    BY <1>5 DEF FieldsOf
  <2>2. e = Encoded(s, checks, chunks, t)
    BY <1>5, <2>1, BeginIs DEF ReadRandomLabels
  <2>3. DOMAIN checks = 1 .. n /\ checks[2] = LabelsHeld(r) /\ n \in Nat /\ 2 \in 1 .. n
    OBVIOUS
  <2> HIDE DEF checks, n, t, e, size, chunks
  <2>4. Encodes(s, e, t, size) /\ (e.error = "Ok" => \A i \in 1 .. n : checks[i] = "Ok")
    BY <1>1, <2>2, <2>3, PartsIs
  <2>5. e.error = "Ok" => LabelsHeld(r) = "Ok"
    BY <2>3, <2>4
  <2> QED
    BY <1>3, <1>5, <2>4, <2>5 DEF Asks, Sent, t, e, size
<1>6. CASE r.call = "writeArrayLabels"
  <2> DEFINE valid == [i \in DOMAIN r.labels |->
                         LET p == r.labels[i] IN
                         p.unit <= 1 /\ p.elements > 0 /\ p.bytes = ElementBytes(p.unit, p.elements)]
             last == LabelsValid(r, valid)
             checks == <<LabelListsValid(r), last>>
             n == 2  t == TellsLabels("writeLabels", r)
  <2>1. FieldsOf(r) = [i \in DOMAIN r.labels |-> 4 + r.labels[i].bytes]
    BY <1>6 DEF FieldsOf
  <2>2. e = Encoded(s, checks, chunks, t)
    BY <1>6, <2>1, BeginIs DEF WriteArrayLabels
  <2>3. DOMAIN checks = 1 .. n /\ checks[2] = last /\ n \in Nat /\ 2 \in 1 .. n
    OBVIOUS
  <2>4. last = "Ok" => \A i \in DOMAIN r.labels :
                          r.labels[i].bytes = ElementBytes(r.labels[i].unit, r.labels[i].elements)
    <3>1. last = "Ok" => \A i \in DOMAIN r.labels : valid[i]
      <4> HIDE DEF valid
      <4> QED
        BY DEF LabelsValid, Refuse
    <3> QED
      BY <3>1
  <2> HIDE DEF checks, last, n, t, e, size, chunks
  <2>5. Encodes(s, e, t, size) /\ (e.error = "Ok" => \A i \in 1 .. n : checks[i] = "Ok")
    BY <1>1, <2>2, <2>3, PartsIs
  <2>6. e.error = "Ok" => last = "Ok"
    BY <2>3, <2>5
  <2> QED
    BY <1>6, <2>4, <2>5, <2>6 DEF Asks, Sent, LabelReads, t, e, size
<1>7. CASE r.call = "writeRandomLabels"
  <2> DEFINE valid == [i \in DOMAIN r.labels |-> r.labels[i].bytes > 0]
             checks == <<LabelListsValid(r), LabelsValid(r, valid)>>
             n == 2  t == TellsLabels("writeRandomLabels", r)
  <2>1. FieldsOf(r) = [i \in DOMAIN r.labels |-> 2 + r.labels[i].bytes]
    BY <1>7 DEF FieldsOf
  <2>2. e = Encoded(s, checks, chunks, t)
    BY <1>7, <2>1, BeginIs DEF WriteRandomLabels
  <2>3. DOMAIN checks = 1 .. n /\ n \in Nat
    OBVIOUS
  <2> HIDE DEF checks, n, t, e, size, chunks
  <2>4. Encodes(s, e, t, size)
    BY <1>1, <2>2, <2>3, PartsIs
  <2> QED
    BY <1>7, <2>4 DEF Asks, LabelReads, t, e, size
<1> QED
  BY <1>4, <1>5, <1>6, <1>7 DEF LabelCalls, LabelReads

-----------------------------------------------------------------------------
(* The PLC takes from a request the bytes its counts say, and these are the *)
(* bytes the begin call has written.                                        *)
LEMMA PayloadIs ==
  ASSUME NEW s, NEW k, NEW n
  PROVE  /\ PayloadOf(s, Tells("readWords", k, <<n>>)) = k + 2
         /\ PayloadOf(s, Tells("readBits", k, <<n>>)) = k + 2
         /\ PayloadOf(s, Tells("writeWords", k, <<n>>)) = k + 2 + 2 * n
         /\ PayloadOf(s, Tells("writeBits", k, <<n>>)) = k + 2 + ByteCount(n)
         /\ PayloadOf(s, Tells("readMemory", k, <<n>>)) = k + 2
         /\ PayloadOf(s, Tells("writeMemory", k, <<n>>)) = k + 2 + 2 * n
         /\ PayloadOf(s, Tells("readUnit", k, <<n>>)) = k + 4
         /\ PayloadOf(s, Tells("writeUnit", k, <<n>>)) = k + 4 + n
         /\ PayloadOf(s, Tells("selfTest", k, <<n>>)) = 2 + n
         /\ PayloadOf(s, Tells("password", k, <<n>>)) = 2 + n
BY DEF PayloadOf, Tells

LEMMA RandomPayload ==
  ASSUME NEW s \in Settings, NEW r \in Requests, r.call \in RandomCalls,
         NEW service \in {"readRandom", "registerMonitor"}
  PROVE  /\ PayloadOf(s, TellsRandom(service, r, SpecSize(s))) = RandomSize(s, r)
         /\ r.call \in {"readRandomExt", "registerMonitorDevicesExt"}
               => PayloadOf(s, TellsRandom(service, r, 0)) = ExtSize(s, r)
<1> DEFINE j == Len(r.words)  k == Len(r.dwords)  c == SpecSize(s)  devices == r.words \o r.dwords
<1>1. j \in Nat /\ k \in Nat
  BY CountsIs
<1>2. c \in Nat /\ c # 0
  BY SettingIs
<1>3. PayloadOf(s, TellsRandom(service, r, c)) = RandomSize(s, r)
  <2> DEFINE t == TellsRandom(service, r, c)
             sizes == [i \in 1 .. j + k |-> IF t.spec = 0 THEN ExtSpecSize(s, devices[i]) ELSE t.spec]
  <2>1. /\ t.service \in {"readRandom", "registerMonitor"} /\ t.spec = c
        /\ t.counts[1] = j /\ t.counts[2] = k /\ t.devices[1] \o t.devices[2] = devices
    BY DEF TellsRandom
  <2>2. PayloadOf(s, t) =
            2 + SumOf([i \in 1 .. t.counts[1] + t.counts[2] |->
                          IF t.spec = 0 THEN ExtSpecSize(s, (t.devices[1] \o t.devices[2])[i])
                          ELSE t.spec])
    <3> HIDE DEF t
    <3> QED
      BY <2>1 DEF PayloadOf
  <2>3. PayloadOf(s, t) = 2 + SumOf(sizes)
    BY <2>1, <2>2
  <2>4. RandomSize(s, r) = 2 + (j + k) * c
    BY DEF RandomSize
  <2>5. \A i \in 1 .. j + k : sizes[i] = c
    BY <1>2, <2>1
  <2> HIDE DEF j, k, c, t, sizes
  <2> DEFINE n == j + k
  <2>6. n \in Nat
    BY <1>1
  <2>7. DOMAIN sizes = 1 .. n /\ sizes = [i \in 1 .. n |-> c]
    BY <1>2, <2>1 DEF sizes
  <2>8. sizes \in [1 .. n -> Nat] /\ \A i \in 1 .. n : sizes[i] = c
    BY <1>2, <2>7
  <2> HIDE DEF n
  <2>9. SumOf(sizes) = n * c
    BY <1>2, <2>6, <2>8, SumOfSame
  <2> QED
    BY <2>3, <2>4, <2>9 DEF n, t
<1>4. ASSUME r.call \in {"readRandomExt", "registerMonitorDevicesExt"}
      PROVE  PayloadOf(s, TellsRandom(service, r, 0)) = ExtSize(s, r)
  <2> DEFINE t == TellsRandom(service, r, 0)
             sizes == [i \in 1 .. j + k |-> IF t.spec = 0 THEN ExtSpecSize(s, devices[i]) ELSE t.spec]
  <2>1. /\ t.service \in {"readRandom", "registerMonitor"} /\ t.spec = 0
        /\ t.counts[1] = j /\ t.counts[2] = k /\ t.devices[1] \o t.devices[2] = devices
    BY DEF TellsRandom
  <2>2. PayloadOf(s, t) =
            2 + SumOf([i \in 1 .. t.counts[1] + t.counts[2] |->
                          IF t.spec = 0 THEN ExtSpecSize(s, (t.devices[1] \o t.devices[2])[i])
                          ELSE t.spec])
    <3> HIDE DEF t
    <3> QED
      BY <2>1 DEF PayloadOf
  <2>3. PayloadOf(s, t) = 2 + SumOf(sizes)
    BY <2>1, <2>2
  <2>4. r.words \in Seq(ExtClasses) /\ r.dwords \in Seq(ExtClasses)
    BY <1>4, CountsIs
  <2>5. DOMAIN devices = 1 .. j + k
    BY <2>4, ConcatProperties, LenProperties
  <2>6. sizes = ExtSizes(s, devices)
    BY <2>1, <2>5 DEF ExtSizes
  <2> QED
    BY <2>3, <2>6 DEF ExtSize
<1> QED
  BY <1>3, <1>4

LEMMA LabelPayload ==
  ASSUME NEW s, NEW r \in Requests, r.call \in LabelCalls, NEW service,
         \/ r.call = "readArrayLabels" /\ service = "readLabels"
         \/ r.call = "readRandomLabels" /\ service = "readRandomLabels"
         \/ r.call = "writeRandomLabels" /\ service = "writeRandomLabels"
         \/ /\ r.call = "writeArrayLabels" /\ service = "writeLabels"
            /\ \A i \in DOMAIN r.labels :
                  r.labels[i].bytes = ElementBytes(r.labels[i].unit, r.labels[i].elements)
  PROVE  PayloadOf(s, TellsLabels(service, r)) = LabelSize(r)
<1> DEFINE t == TellsLabels(service, r)
           j == Len(r.abbrevs)  k == Len(r.labels)
           A == [i \in 1 .. t.counts[2] |-> 2 + 2 * t.abbrevs[i].length]
           B == [i \in 1 .. t.counts[1] |-> LabelFields(t, t.labels[i])]
<1>1. r.labels \in Seq(LabelPoint) /\ r.abbrevs \in Seq(LabelName)
  BY Labelled
<1>2. DOMAIN r.abbrevs = 1 .. j /\ DOMAIN r.labels = 1 .. k
  BY <1>1, LenProperties
<1>3. t.service = service /\ t.counts[2] = j /\ t.counts[1] = k /\ t.labels = r.labels
      /\ t.abbrevs = r.abbrevs
  BY DEF TellsLabels
<1>4. A = NameSizes(r.abbrevs)
  BY <1>2, <1>3 DEF NameSizes, NameSize
<1>5. \A i \in 1 .. k : r.labels[i] \in LabelPoint
  BY <1>1, <1>2, ElementOfSeq
<1>6. \A i \in 1 .. k : LabelFields(t, r.labels[i]) = NameSize(r.labels[i]) + FieldsOf(r)[i]
  <2> TAKE i \in 1 .. k
  <2> DEFINE p == r.labels[i]
  <2>1. p.length \in Nat /\ p.bytes \in Nat
    BY <1>5 DEF LabelPoint
  <2> HIDE DEF t
  <2>2. CASE r.call = "readArrayLabels"
    BY <1>2, <1>3, <2>1, <2>2 DEF LabelFields, NameSize, FieldsOf
  <2>3. CASE r.call = "readRandomLabels"
    BY <1>2, <1>3, <2>1, <2>3 DEF LabelFields, NameSize, FieldsOf
  <2>4. CASE r.call = "writeRandomLabels"
    BY <1>2, <1>3, <2>1, <2>4 DEF LabelFields, NameSize, FieldsOf
  <2>5. CASE r.call = "writeArrayLabels"
    <3>1. p.bytes = ElementBytes(p.unit, p.elements)
      BY <1>2, <2>5
    <3>2. LabelFields(t, p) = 2 + 2 * p.length + (4 + p.bytes)
      BY <1>3, <2>5, <3>1 DEF LabelFields
    <3>3. FieldsOf(r)[i] = 4 + p.bytes
      BY <1>2, <2>5 DEF FieldsOf
    <3> QED
      BY <2>1, <3>2, <3>3 DEF NameSize
  <2> QED
    BY <2>2, <2>3, <2>4, <2>5 DEF LabelCalls, LabelReads
<1>7. B = PointSizes(r.labels, FieldsOf(r))
  <2> DEFINE F(i) == NameSize(r.labels[i]) + FieldsOf(r)[i]
  <2>1. DOMAIN B = 1 .. k /\ \A i \in 1 .. k : B[i] = F(i)
    BY <1>3, <1>6
  <2> HIDE DEF F, B
  <2>2. B = [i \in 1 .. k |-> F(i)]
    <3>1. B = [i \in DOMAIN B |-> B[i]]
      BY DEF B
    <3> QED
      BY <2>1, <3>1
  <2> QED
    BY <1>2, <2>2 DEF F, PointSizes
<1>8. PayloadOf(s, t) = 4 + SumOf(A) + SumOf(B)
  <2>1. t.service \in {"readLabels", "writeLabels", "readRandomLabels", "writeRandomLabels"}
    BY <1>3
  <2> HIDE DEF t
  <2> QED
    BY <2>1 DEF PayloadOf
<1> QED
  BY <1>4, <1>7, <1>8 DEF LabelSize

(* What a begin call writes is in tx_buffer_, and a request it sends is as  *)
(* long as its counts say.                                                  *)
WellEncoded(s, r) ==
    /\ BeginOf(s, r).end \in Nat
    /\ s.connected => BeginOf(s, r).end <= s.txCapacity
    /\ Sent(s, r) => BeginOf(s, r).end = PayloadOf(s, BeginOf(s, r).tells)

LEMMA AsksWell ==
  ASSUME NEW s, NEW r, NEW t, NEW size, Asks(s, r, t, size), PayloadOf(s, t) = size
  PROVE  WellEncoded(s, r)
BY DEF Asks, Sent, Encodes, WellEncoded

(* The requests that tell one count, or none *)
LEMMA ToldWell ==
  ASSUME NEW s, NEW r, NEW k, NEW n, NEW size
  PROVE  /\ Asks(s, r, Tells("readWords", k, <<n>>), size) /\ size = k + 2 => WellEncoded(s, r)
         /\ Asks(s, r, Tells("readBits", k, <<n>>), size) /\ size = k + 2 => WellEncoded(s, r)
         /\ Asks(s, r, Tells("writeWords", k, <<n>>), size) /\ size = k + 2 + 2 * n => WellEncoded(s, r)
         /\ Asks(s, r, Tells("writeBits", k, <<n>>), size) /\ size = k + 2 + ByteCount(n) => WellEncoded(s, r)
         /\ Asks(s, r, Tells("readMemory", k, <<n>>), size) /\ size = k + 2 => WellEncoded(s, r)
         /\ Asks(s, r, Tells("writeMemory", k, <<n>>), size) /\ size = k + 2 + 2 * n => WellEncoded(s, r)
         /\ Asks(s, r, Tells("readUnit", k, <<n>>), size) /\ size = k + 4 => WellEncoded(s, r)
         /\ Asks(s, r, Tells("writeUnit", k, <<n>>), size) /\ size = k + 4 + n => WellEncoded(s, r)
         /\ Asks(s, r, Tells("selfTest", k, <<n>>), size) /\ size = 2 + n => WellEncoded(s, r)
         /\ Asks(s, r, Tells("password", k, <<n>>), size) /\ size = 2 + n => WellEncoded(s, r)
         /\ \A service \in {"typeName", "clearError", "runMonitor", "remote", "remoteRun"} :
               Asks(s, r, Tells(service, k, <<>>), k) => WellEncoded(s, r)
<1>1. \A service \in {"typeName", "clearError", "runMonitor", "remote", "remoteRun"} :
         PayloadOf(s, Tells(service, k, <<>>)) = k
  BY DEF PayloadOf, Tells
<1> QED
  BY <1>1, PayloadIs, AsksWell

LEMMA EncodedWell ==
  ASSUME NEW s \in Settings, NEW r \in Requests
  PROVE  WellEncoded(s, r)
<1>1. CASE r.call \in RangeCalls
  <2>1. r.points \in Nat /\ SpecSize(s) \in Nat
    BY <1>1, Ranged, SettingIs
  <2> DEFINE k == SpecSize(s)  n == r.points  two == 2 * r.points
  <2>2. 2 * two = 4 * n /\ k + 2 + 2 * two = k + 2 + 4 * n
    BY <2>1
  <2>3. CASE r.call = "readWords"
    BY <1>1, <2>3, RangeBegin, ToldWell
  <2>4. CASE r.call \in {"readDWords", "readFloat32s"}
    BY <1>1, <2>4, RangeBegin, ToldWell
  <2>5. CASE r.call = "readBits"
    BY <1>1, <2>5, RangeBegin, ToldWell
  <2>6. CASE r.call = "writeWords"
    BY <1>1, <2>6, RangeBegin, ToldWell
  <2>7. CASE r.call \in {"writeDWords", "writeFloat32s"}
    <3>1. PayloadOf(s, Tells("writeWords", k, <<two>>)) = k + 2 + 2 * two
      BY PayloadIs
    <3>2. Asks(s, r, Tells("writeWords", k, <<two>>), k + 2 + 4 * n)
      BY <1>1, <2>7, RangeBegin
    <3> QED
      BY <2>2, <3>1, <3>2, AsksWell
  <2>8. CASE r.call = "writeBits"
    BY <1>1, <2>8, RangeBegin, ToldWell
  <2> QED
    BY <1>1, <2>3, <2>4, <2>5, <2>6, <2>7, <2>8 DEF RangeCalls
<1>2. CASE r.call \in RoutedCalls
  <2>1. r.points \in Nat /\ ModuleSpecSize(s) \in Nat /\ LinkSpecSize \in Nat
    BY <1>2, Routed, SettingIs DEF LinkSpecSize
  <2>2. ByteCount(r.points) \in Nat
    BY <2>1, HalvesOf
  <2> DEFINE n == r.points  m == ModuleSpecSize(s)  l == LinkSpecSize  b == ByteCount(n)
  <2>3. /\ m + (2 + 2 * n) = m + 2 + 2 * n /\ l + (2 + 2 * n) = l + 2 + 2 * n
        /\ m + (2 + b) = m + 2 + b /\ l + (2 + b) = l + 2 + b
    BY <2>1, <2>2
  <2>4. /\ r.call = "readWordsModuleBuf" => Asks(s, r, Tells("readWords", m, <<n>>), m + 2)
        /\ r.call = "readBitsModuleBuf" => Asks(s, r, Tells("readBits", m, <<n>>), m + 2)
        /\ r.call = "readWordsLinkDirect" => Asks(s, r, Tells("readWords", l, <<n>>), l + 2)
        /\ r.call = "readBitsLinkDirect" => Asks(s, r, Tells("readBits", l, <<n>>), l + 2)
        /\ r.call = "writeWordsModuleBuf" => Asks(s, r, Tells("writeWords", m, <<n>>), m + 2 + 2 * n)
        /\ r.call = "writeBitsModuleBuf" => Asks(s, r, Tells("writeBits", m, <<n>>), m + 2 + b)
        /\ r.call = "writeWordsLinkDirect" => Asks(s, r, Tells("writeWords", l, <<n>>), l + 2 + 2 * n)
        /\ r.call = "writeBitsLinkDirect" => Asks(s, r, Tells("writeBits", l, <<n>>), l + 2 + b)
    BY <1>2, <2>3, RoutedBegin
  <2>5. \A k : /\ PayloadOf(s, Tells("readWords", k, <<n>>)) = k + 2
               /\ PayloadOf(s, Tells("readBits", k, <<n>>)) = k + 2
               /\ PayloadOf(s, Tells("writeWords", k, <<n>>)) = k + 2 + 2 * n
               /\ PayloadOf(s, Tells("writeBits", k, <<n>>)) = k + 2 + b
    BY PayloadIs
  <2> HIDE DEF n, m, l, b
  <2> QED
    BY <1>2, <2>4, <2>5, AsksWell DEF RoutedCalls
<1>3. CASE r.call \in CountedCalls
  <2>1. r.points \in Nat
    BY <1>3, Counted
  <2> DEFINE n == r.points  k == SpecSize(s)  two == 2 * n  four == 4 * n
  <2>2. 4 + 2 = 6 /\ 4 + 4 = 8 /\ 4 + 2 + 2 * n = 6 + 2 * n /\ 4 + 4 + n = 8 + n
        /\ 4 + 4 + two = 8 + 2 * n
    BY <2>1
  <2>3. /\ r.call \in TimerCalls => Asks(s, r, Tells("readWords", k, <<four>>), k + 2)
        /\ r.call = "readMemoryWords" => Asks(s, r, Tells("readMemory", 4, <<n>>), 4 + 2)
        /\ r.call = "writeMemoryWords" => Asks(s, r, Tells("writeMemory", 4, <<n>>), 4 + 2 + 2 * n)
        /\ r.call = "readExtendUnitBytes" => Asks(s, r, Tells("readUnit", 4, <<n>>), 4 + 4)
        /\ r.call = "readExtendUnitWords" => Asks(s, r, Tells("readUnit", 4, <<two>>), 4 + 4)
        /\ r.call = "writeExtendUnitBytes" => Asks(s, r, Tells("writeUnit", 4, <<n>>), 4 + 4 + n)
        /\ r.call = "writeExtendUnitWords" => Asks(s, r, Tells("writeUnit", 4, <<two>>), 4 + 4 + two)
    BY <1>3, <2>2, CountedBegin
  <2>4. \A i, c : /\ PayloadOf(s, Tells("readWords", i, <<c>>)) = i + 2
                  /\ PayloadOf(s, Tells("readMemory", i, <<c>>)) = i + 2
                  /\ PayloadOf(s, Tells("writeMemory", i, <<c>>)) = i + 2 + 2 * c
                  /\ PayloadOf(s, Tells("readUnit", i, <<c>>)) = i + 4
                  /\ PayloadOf(s, Tells("writeUnit", i, <<c>>)) = i + 4 + c
    BY DEF PayloadOf, Tells
  <2> HIDE DEF n, k, two, four
  <2>5. CASE r.call \in TimerCalls
    BY <2>3, <2>4, <2>5, AsksWell
  <2>6. CASE r.call \in {"readMemoryWords", "writeMemoryWords"}
    BY <2>3, <2>4, <2>6, AsksWell
  <2>7. CASE r.call \in {"readExtendUnitBytes", "readExtendUnitWords"}
    BY <2>3, <2>4, <2>7, AsksWell
  <2>8. CASE r.call \in {"writeExtendUnitBytes", "writeExtendUnitWords"}
    BY <2>3, <2>4, <2>8, AsksWell
  <2> QED
    BY <1>3, <2>5, <2>6, <2>7, <2>8 DEF CountedCalls
<1>4. CASE r.call \in LabelCalls
  <2>1. CASE r.call = "readArrayLabels"
    BY <1>4, <2>1, LabelBegin, LabelPayload, AsksWell
  <2>2. CASE r.call = "readRandomLabels"
    BY <1>4, <2>2, LabelBegin, LabelPayload, AsksWell
  <2>3. CASE r.call = "writeRandomLabels"
    BY <1>4, <2>3, LabelBegin, LabelPayload, AsksWell
  <2>4. CASE r.call = "writeArrayLabels"
    <3>1. Asks(s, r, TellsLabels("writeLabels", r), LabelSize(r))
      BY <1>4, <2>4, LabelBegin
    <3>2. Sent(s, r) => PayloadOf(s, TellsLabels("writeLabels", r)) = LabelSize(r)
      BY <1>4, <2>4, LabelBegin, LabelPayload
    <3> QED
      BY <3>1, <3>2 DEF Asks, Sent, Encodes, WellEncoded
  <2> QED
    BY <1>4, <2>1, <2>2, <2>3, <2>4 DEF LabelCalls, LabelReads
<1>5. CASE r.call \in RandomCalls
  <2>1. CASE r.call = "readRandom"
    BY <1>5, <2>1, RandomBegin, RandomPayload, AsksWell
  <2>2. CASE r.call = "readRandomExt"
    BY <1>5, <2>2, RandomBegin, RandomPayload, AsksWell
  <2>3. CASE r.call = "registerMonitorDevices"
    BY <1>5, <2>3, RandomBegin, RandomPayload, AsksWell
  <2>4. CASE r.call = "registerMonitorDevicesExt"
    BY <1>5, <2>4, RandomBegin, RandomPayload, AsksWell
  <2> QED
    BY <1>5, <2>1, <2>2, <2>3, <2>4 DEF RandomCalls, RegisterCalls
<1>6. CASE r.call = "readBlock"
  <2> DEFINE t == [service |-> "readBlock", spec |-> SpecSize(s),
                   counts |-> <<Len(r.wordBlocks), Len(r.bitBlocks)>>,
                   blocks |-> r.wordBlocks \o r.bitBlocks]
             size == 2 + (Len(r.wordBlocks) + Len(r.bitBlocks)) * (SpecSize(s) + 2)
  <2>1. Asks(s, r, t, size)
    BY <1>6, BlockBegin
  <2>2. PayloadOf(s, t) = 2 + (t.counts[1] + t.counts[2]) * (t.spec + 2)
    BY DEF PayloadOf
  <2>3. PayloadOf(s, t) = size
    BY <2>2
  <2> HIDE DEF t, size
  <2> QED
    BY <2>1, <2>3, AsksWell
<1>7. CASE r.call \in {"readTypeName", "clearError", "runMonitorCycle"}
  BY <1>7, PlainBegin, ToldWell
<1>8. CASE r.call \in {"remoteStop", "remoteLatchClear", "remoteReset", "remotePause", "remoteRun"}
  BY <1>8, PlainBegin, ToldWell
<1>9. CASE r.call = "readCpuOperationState"
  BY <1>9, StateBegin, ToldWell
<1>10. CASE r.call \in {"selfTestLoopback"} \cup PasswordCalls
  BY <1>10, SizedBegin, ToldWell
<1> QED
  BY <1>1, <1>2, <1>3, <1>4, <1>5, <1>6, <1>7, <1>8, <1>9, <1>10, CallIs DEF BareCalls, RandomCalls

-----------------------------------------------------------------------------
(* The bodies of answers *)
LabelItem == [unit : Nat, length : Nat]
Bodies == [honest : BOOLEAN, endCode : BOOLEAN, length : Nat, count : Nat, items : Seq(LabelItem),
           echo : BOOLEAN]

LEMMA BodyIs ==
  ASSUME NEW length \in Nat, NEW count \in Nat, NEW items \in Seq(LabelItem), NEW echo \in BOOLEAN
  PROVE  /\ Body(length, count, items, echo) \in Bodies
         /\ Body(length, count, items, echo).honest = FALSE
         /\ Body(length, count, items, echo).endCode = FALSE
BY DEF Body, Bodies

LEMMA NoBodyIs ==
  /\ NoBody \in Bodies /\ NoBody.honest = FALSE /\ NoBody.length = 0
  /\ EndCodeBody \in Bodies /\ EndCodeBody.honest = FALSE
<1>1. 0 \in Nat /\ <<>> \in Seq(LabelItem) /\ TRUE \in BOOLEAN
  OBVIOUS
<1>2. NoBody \in Bodies /\ NoBody.honest = FALSE
  BY <1>1, BodyIs DEF NoBody
<1>3. NoBody.length = 0
  BY DEF NoBody, Body
<1>4. EndCodeBody \in Bodies /\ EndCodeBody.honest = FALSE
  BY <1>2 DEF EndCodeBody, Bodies
<1> QED
  BY <1>2, <1>3, <1>4

(* The data of the labels in an answer *)
LEMMA DataIs ==
  ASSUME NEW items \in Seq(LabelItem)
  PROVE  /\ ArrayData(items) \in [1 .. Len(items) -> Nat] /\ ArrayData(items) \in Seq(Nat)
         /\ Len(ArrayData(items)) = Len(items)
         /\ RandomData(items) \in [1 .. Len(items) -> Nat] /\ RandomData(items) \in Seq(Nat)
         /\ Len(RandomData(items)) = Len(items)
<1> DEFINE k == Len(items)  A == ArrayData(items)  B == RandomData(items)
<1>1. k \in Nat /\ DOMAIN items = 1 .. k
  BY LenProperties
<1>2. \A i \in 1 .. k : items[i].unit \in Nat /\ items[i].length \in Nat
  <2> TAKE i \in 1 .. k
  <2>1. items[i] \in LabelItem
    BY <1>1, ElementOfSeq
  <2> QED
    BY <2>1 DEF LabelItem
<1> HIDE DEF k
<1>3. A \in [1 .. k -> Nat] /\ B \in [1 .. k -> Nat]
  BY <1>1, <1>2 DEF ArrayData, RandomData
<1> HIDE DEF A, B
<1>4. A \in Seq(Nat) /\ B \in Seq(Nat) /\ Len(A) = k /\ Len(B) = k
  BY <1>1, <1>3
<1> QED
  BY <1>3, <1>4 DEF A, B, k

LEMMA LabelBytesIs ==
  ASSUME NEW sizes \in Seq(Nat)
  PROVE  LabelBytes(sizes) \in Nat /\ LabelBytes(sizes) = 2 + 4 * Len(sizes) + SumOf(sizes)
<1> DEFINE k == Len(sizes)  total == SumOf(sizes)
<1>1. k \in Nat /\ sizes \in [1 .. k -> Nat]
  BY LenProperties
<1>2. LabelBytes(sizes) = 2 + 4 * k + total
  BY DEF LabelBytes
<1> HIDE DEF k
<1>3. total \in Nat
  BY <1>1, SumIsNat
<1> HIDE DEF total
<1> QED
  BY <1>1, <1>2, <1>3 DEF k, total

LEMMA AroundIs == ASSUME NEW n \in Int PROVE \A k \in Around(n) : k \in Nat
BY DEF Around

LEMMA LabelListsAre ==
  \A items \in LabelLists : items \in Seq(LabelItem)
<1> TAKE items \in LabelLists
<1>1. PICK n \in 0 .. 2 : items \in [1 .. n -> LabelItems]
  BY DEF LabelLists
<1>2. n \in Nat /\ items \in [1 .. n -> LabelItem]
  BY <1>1, LabelAssumption DEF LabelItem
<1> QED
  BY <1>2

(* Whatever the PLC answers is a body. *)
LEMMA OddIs ==
  ASSUME NEW t, t.service = "selfTest" => t.counts[1] \in Nat, AnswerLength(t) \in Nat,
         NEW b \in OddBodies(t)
  PROVE  b \in Bodies /\ b.honest = FALSE /\ b.endCode = FALSE
<1> DEFINE G(length, count, items) == Body(length, count, items, TRUE)
           L(items) == Around(LabelBytes(ArrayData(items)) - 1)
           C == 0 .. 3
           With(items) == {G(length, count, items) : length \in L(items), count \in C}
           Labels == UNION {With(items) : items \in LabelLists}
           Echoes == {Body(length, count, <<>>, echo) :
                length \in Around(2 + t.counts[1]), count \in Around(t.counts[1]),
                echo \in BOOLEAN}
           Others == {Body(length, 0, <<>>, TRUE) : length \in Around(AnswerLength(t))}
<1>o. OddBodies(t) = CASE t.service \in {"readLabels", "readRandomLabels"} -> Labels
                       [] t.service = "selfTest" -> Echoes
                       [] OTHER -> Others
  BY DEF OddBodies
<1> HIDE DEF Labels, Echoes, Others, G, L, C
<1>1. CASE t.service \in {"readLabels", "readRandomLabels"}
  <2>o. b \in Labels
    BY <1>o, <1>1
  <2> HIDE DEF With
  <2>1. PICK items \in LabelLists : b \in With(items)
    BY <2>o DEF Labels
  <2>v. PICK length \in L(items), count \in C : b = G(length, count, items)
    BY <2>1 DEF With
  <2>p. b = Body(length, count, items, TRUE)
    BY <2>v DEF G
  <2>2. length \in Around(LabelBytes(ArrayData(items)) - 1) /\ count \in 0 .. 3
    BY DEF L, C
  <2>3. items \in Seq(LabelItem)
    BY LabelListsAre
  <2>4. LabelBytes(ArrayData(items)) \in Nat
    BY <2>3, DataIs, LabelBytesIs
  <2>5. LabelBytes(ArrayData(items)) - 1 \in Int
    BY <2>4
  <2>6. length \in Nat /\ count \in Nat
    BY <2>2, <2>5, AroundIs
  <2> QED
    BY <2>p, <2>3, <2>6, BodyIs
<1>2. CASE t.service = "selfTest"
  <2>o. b \in Echoes
    BY <1>o, <1>2
  <2>1. PICK length \in Around(2 + t.counts[1]), count \in Around(t.counts[1]), echo \in BOOLEAN :
            b = Body(length, count, <<>>, echo)
    BY <2>o DEF Echoes
  <2>2. 2 + t.counts[1] \in Int /\ t.counts[1] \in Int
    BY <1>2
  <2>3. length \in Nat /\ count \in Nat /\ <<>> \in Seq(LabelItem)
    BY <2>2, AroundIs
  <2> QED
    BY <2>1, <2>3, BodyIs
<1>3. CASE t.service \notin {"readLabels", "readRandomLabels", "selfTest"}
  <2>o. b \in Others
    BY <1>o, <1>3
  <2>1. PICK length \in Around(AnswerLength(t)) : b = Body(length, 0, <<>>, TRUE)
    BY <2>o DEF Others
  <2>2. AnswerLength(t) \in Int
    OBVIOUS
  <2>3. length \in Nat /\ 0 \in Nat /\ <<>> \in Seq(LabelItem) /\ TRUE \in BOOLEAN
    BY <2>2, AroundIs
  <2> QED
    BY <2>1, <2>3, BodyIs
<1> QED
  BY <1>1, <1>2, <1>3

(* An honest answer is what the request asks for. *)
Honestly(a) == [a EXCEPT !.honest = TRUE, !.endCode = ~Understood]

LEMMA HonestlyIs ==
  ASSUME NEW length \in Nat, NEW count \in Nat, NEW items \in Seq(LabelItem),
         NEW b, b = Honestly(Body(length, count, items, TRUE))
  PROVE  /\ b \in Bodies /\ b.length = length /\ b.count = count /\ b.items = items
         /\ b.echo /\ (b.endCode <=> ~Understood)
<1> DEFINE echo == TRUE
<1>0. echo \in BOOLEAN
  OBVIOUS
<1> DEFINE a == Body(length, count, items, echo)  u == ~Understood
<1>1. a \in Bodies /\ a.length = length /\ a.count = count /\ a.items = items /\ a.echo = echo
  BY <1>0, BodyIs DEF Body
<1>e. b = Honestly(a)
  OBVIOUS
<1>2. u \in BOOLEAN
  OBVIOUS
<1>3. b = [a EXCEPT !.honest = TRUE, !.endCode = u]
  BY <1>e DEF Honestly
<1> HIDE DEF a, u, echo
<1>4. b \in Bodies
  BY <1>1, <1>2, <1>3 DEF Bodies
<1>5. b.length = length /\ b.count = count /\ b.items = items /\ b.echo = echo
  BY <1>1, <1>3 DEF Bodies
<1>6. b.endCode = u
  BY <1>1, <1>3 DEF Bodies
<1> QED
  BY <1>4, <1>5, <1>6 DEF u, echo

(* An honest answer to a label read, and the items in it *)
AskedItems(labels) == [i \in DOMAIN labels |-> Item(labels[i].unit, labels[i].elements)]
ArrayAnswer(items) == Body(LabelBytes(ArrayData(items)), Len(items), items, TRUE)
RandomAnswer(items) == Body(LabelBytes(RandomData(items)), Len(items), items, TRUE)

LEMMA HonestIs ==
  ASSUME NEW t, NEW b \in HonestBodies(t)
  PROVE  /\ t.service = "readLabels"
               => b = Honestly(ArrayAnswer(AskedItems(t.labels)))
         /\ t.service = "readRandomLabels"
               => \E items \in [DOMAIN t.labels -> LabelItems] : b = Honestly(RandomAnswer(items))
         /\ t.service = "selfTest"
               => b = Honestly(Body(AnswerLength(t), t.counts[1], <<>>, TRUE))
         /\ t.service \notin {"readLabels", "readRandomLabels", "selfTest"}
               => b = Honestly(Body(AnswerLength(t), 0, <<>>, TRUE))
<1> DEFINE Labels == {ArrayAnswer(AskedItems(t.labels))}
           Randoms == {RandomAnswer(items) : items \in [DOMAIN t.labels -> LabelItems]}
           Echoes == {Body(AnswerLength(t), t.counts[1], <<>>, TRUE)}
           Others == {Body(AnswerLength(t), 0, <<>>, TRUE)}
           silent == t.service = "runMonitor" /\ registration = NotRegistered
           answers == CASE t.service = "readLabels" -> Labels
                        [] t.service = "readRandomLabels" -> Randoms
                        [] t.service = "selfTest" -> Echoes
                        [] silent -> {}
                        [] OTHER -> Others
<1>o. HonestBodies(t) = {Honestly(a) : a \in answers}
  BY DEF HonestBodies, Honestly, ArrayAnswer, RandomAnswer, AskedItems
<1> HIDE DEF Labels, Randoms, Echoes, Others
<1>1. PICK a \in answers : b = Honestly(a)
  BY <1>o
<1>2. CASE t.service = "readLabels"
  <2>1. a \in Labels
    BY <1>1, <1>2
  <2> QED
    BY <1>1, <1>2, <2>1 DEF Labels
<1>3. CASE t.service = "readRandomLabels"
  <2>1. a \in Randoms
    BY <1>1, <1>3
  <2> QED
    BY <1>1, <1>3, <2>1 DEF Randoms
<1>4. CASE t.service = "selfTest"
  <2>1. a \in Echoes
    BY <1>1, <1>4
  <2> QED
    BY <1>1, <1>4, <2>1 DEF Echoes
<1>5. CASE t.service \notin {"readLabels", "readRandomLabels", "selfTest"}
  <2>1. a \in Others
    BY <1>1, <1>5
  <2> QED
    BY <1>1, <1>5, <2>1 DEF Others
<1> QED
  BY <1>2, <1>3, <1>4, <1>5

(* The bytes a PLC answers to each service *)
LEMMA AnswerIs ==
  ASSUME NEW k, NEW n
  PROVE  /\ AnswerLength(Tells("readWords", k, <<n>>)) = 2 * n
         /\ AnswerLength(Tells("readMemory", k, <<n>>)) = 2 * n
         /\ AnswerLength(Tells("readBits", k, <<n>>)) = ByteCount(n)
         /\ AnswerLength(Tells("readUnit", k, <<n>>)) = n
         /\ AnswerLength(Tells("selfTest", k, <<n>>)) = 2 + n
         /\ \A service \in {"writeWords", "writeBits", "writeMemory", "writeUnit", "password"} :
               AnswerLength(Tells(service, k, <<n>>)) = 0
         /\ AnswerLength(Tells("typeName", k, <<>>)) = 18
         /\ AnswerLength(Tells("runMonitor", k, <<>>)) = 2 * registration[1] + 4 * registration[2]
         /\ \A service \in {"clearError", "remote", "remoteRun"} :
               AnswerLength(Tells(service, k, <<>>)) = 0
BY DEF AnswerLength, Tells

LEMMA ListAnswerIs ==
  ASSUME NEW r, NEW k
  PROVE  /\ AnswerLength(TellsRandom("readRandom", r, k)) = 2 * Len(r.words) + 4 * Len(r.dwords)
         /\ AnswerLength(TellsRandom("registerMonitor", r, k)) = 0
         /\ \A service \in {"readLabels", "writeLabels", "readRandomLabels", "writeRandomLabels"} :
               AnswerLength(TellsLabels(service, r)) = 0
BY DEF AnswerLength, TellsRandom, TellsLabels

(* What a call tells the PLC *)
LEMMA ToldBy ==
  ASSUME NEW s, NEW r, NEW t, NEW size, Asks(s, r, t, size)
  PROVE  BeginOf(s, r).tells = t
BY DEF Asks, Encodes

LEMMA AnswerIsNat ==
  ASSUME NEW s \in Settings, NEW r \in Requests, registration[1] \in Nat, registration[2] \in Nat,
         NEW t, t = BeginOf(s, r).tells
  PROVE  AnswerLength(t) \in Nat /\ (t.service = "selfTest" => t.counts[1] \in Nat)
<1>1. CASE r.call \in RangeCalls
  <2>1. r.points \in Nat /\ 2 * r.points \in Nat /\ 2 * (2 * r.points) \in Nat /\ ByteCount(r.points) \in Nat
    BY <1>1, Ranged, HalvesOf
  <2> DEFINE k == SpecSize(s)  n == r.points  two == 2 * r.points
  <2>2. \/ t = Tells("readWords", k, <<n>>) \/ t = Tells("readWords", k, <<two>>)
        \/ t = Tells("readBits", k, <<n>>) \/ t = Tells("writeWords", k, <<n>>)
        \/ t = Tells("writeWords", k, <<two>>) \/ t = Tells("writeBits", k, <<n>>)
    BY <1>1, RangeBegin, ToldBy DEF RangeCalls
  <2>3. t.service # "selfTest"
    BY <2>2 DEF Tells
  <2> HIDE DEF k, two
  <2>4. AnswerLength(t) \in {2 * n, 2 * two, ByteCount(n), 0}
    BY <2>2 DEF AnswerLength, Tells
  <2>5. 2 * two \in Nat
    BY <2>1 DEF two
  <2> QED
    BY <2>1, <2>3, <2>4, <2>5
<1>2. CASE r.call \in RoutedCalls
  <2>1. r.points \in Nat /\ 2 * r.points \in Nat /\ ByteCount(r.points) \in Nat
    BY <1>2, Routed, HalvesOf
  <2> DEFINE n == r.points
  <2>2. \E k : \/ t = Tells("readWords", k, <<n>>) \/ t = Tells("readBits", k, <<n>>)
               \/ t = Tells("writeWords", k, <<n>>) \/ t = Tells("writeBits", k, <<n>>)
    BY <1>2, RoutedBegin, ToldBy DEF RoutedCalls
  <2>3. t.service # "selfTest"
    BY <2>2 DEF Tells
  <2> QED
    BY <2>1, <2>2, <2>3, AnswerIs, SMTT(30)
<1>3. CASE r.call \in CountedCalls
  <2> DEFINE n == r.points  two == 2 * n  four == 4 * n
  <2>1. n \in Nat /\ two \in Nat /\ four \in Nat /\ 2 * n \in Nat /\ 2 * four \in Nat
    BY <1>3, Counted
  <2>2. \E k : \/ t = Tells("readWords", k, <<four>>) \/ t = Tells("readMemory", k, <<n>>)
               \/ t = Tells("writeMemory", k, <<n>>) \/ t = Tells("readUnit", k, <<n>>)
               \/ t = Tells("readUnit", k, <<two>>) \/ t = Tells("writeUnit", k, <<n>>)
               \/ t = Tells("writeUnit", k, <<two>>)
    BY <1>3, CountedBegin, ToldBy DEF CountedCalls
  <2>3. t.service # "selfTest"
    BY <2>2 DEF Tells
  <2> HIDE DEF n, two, four
  <2>4. AnswerLength(t) \in {2 * four, 2 * n, n, two, 0}
    BY <2>2 DEF AnswerLength, Tells
  <2> QED
    BY <2>1, <2>3, <2>4
<1>4. CASE r.call \in LabelCalls
  <2>1. \E service \in {"readLabels", "writeLabels", "readRandomLabels", "writeRandomLabels"} :
           t = TellsLabels(service, r)
    BY <1>4, LabelBegin, ToldBy DEF LabelCalls, LabelReads
  <2>2. t.service \in {"readLabels", "writeLabels", "readRandomLabels", "writeRandomLabels"}
    BY <2>1 DEF TellsLabels
  <2>3. AnswerLength(t) = 0
    BY <2>2 DEF AnswerLength
  <2> QED
    BY <2>2, <2>3
<1>5. CASE r.call \in RandomCalls
  <2> DEFINE m == Len(r.words)  n == Len(r.dwords)
  <2>1. m \in Nat /\ n \in Nat
    BY <1>5, CountsIs
  <2>2. \E k : t = TellsRandom("readRandom", r, k) \/ t = TellsRandom("registerMonitor", r, k)
    BY <1>5, RandomBegin, ToldBy DEF RandomCalls, RegisterCalls
  <2>3. t.service # "selfTest"
    BY <2>2 DEF TellsRandom
  <2>4. AnswerLength(t) = 2 * m + 4 * n \/ AnswerLength(t) = 0
    BY <2>2, ListAnswerIs
  <2> HIDE DEF m, n
  <2> QED
    BY <2>1, <2>3, <2>4
<1>6. CASE r.call = "readBlock"
  <2> DEFINE q == [service |-> "readBlock", spec |-> SpecSize(s),
                   counts |-> <<Len(r.wordBlocks), Len(r.bitBlocks)>>,
                   blocks |-> r.wordBlocks \o r.bitBlocks]
  <2>1. t = q
    BY <1>6, BlockBegin, ToldBy
  <2>2. AnswerLength(q) = 2 * TotalOf(r.wordBlocks \o r.bitBlocks) /\ q.service = "readBlock"
    BY DEF AnswerLength
  <2>3. r.wordBlocks \o r.bitBlocks \in Seq(DeviceBlock)
    BY <1>6, BlockRead, ConcatProperties
  <2>4. TotalOf(r.wordBlocks \o r.bitBlocks) \in Nat
    BY <2>3, TotalIs
  <2> DEFINE total == TotalOf(r.wordBlocks \o r.bitBlocks)
  <2>5. total \in Nat /\ AnswerLength(t) = 2 * total /\ t.service = "readBlock"
    BY <2>1, <2>2, <2>4
  <2> HIDE DEF total
  <2> QED
    BY <2>5
<1>7. CASE r.call \in {"readTypeName", "clearError", "runMonitorCycle"}
  <2> DEFINE a == registration[1]  c == registration[2]
  <2>1. 2 * a + 4 * c \in Nat
    OBVIOUS
  <2>2. \/ t = Tells("typeName", 0, <<>>) \/ t = Tells("clearError", 0, <<>>)
        \/ t = Tells("runMonitor", 0, <<>>)
    BY <1>7, PlainBegin, ToldBy
  <2>3. t.service # "selfTest"
    BY <2>2 DEF Tells
  <2>4. AnswerLength(t) \in {18, 0, 2 * a + 4 * c}
    BY <2>2 DEF AnswerLength, Tells
  <2> HIDE DEF a, c
  <2> QED
    BY <2>1, <2>3, <2>4
<1>8. CASE r.call \in {"remoteStop", "remoteLatchClear", "remoteReset", "remotePause", "remoteRun"}
  <2>1. \E k : \/ t = Tells("remote", k, <<>>) \/ t = Tells("remoteRun", k, <<>>)
    BY <1>8, PlainBegin, ToldBy
  <2>2. t.service # "selfTest"
    BY <2>1 DEF Tells
  <2>3. AnswerLength(t) = 0
    BY <2>1 DEF AnswerLength, Tells
  <2> QED
    BY <2>2, <2>3
<1>9. CASE r.call = "readCpuOperationState"
  <2>1. t = Tells("readWords", SpecSize(s), <<1>>)
    BY <1>9, StateBegin, ToldBy
  <2>2. t.service # "selfTest"
    BY <2>1 DEF Tells
  <2>3. 2 * 1 \in Nat
    OBVIOUS
  <2>4. AnswerLength(t) = 2 * 1
    BY <2>1 DEF AnswerLength, Tells
  <2> QED
    BY <2>2, <2>4
<1>10. CASE r.call \in {"selfTestLoopback"} \cup PasswordCalls
  <2> DEFINE n == r.points
  <2>1. n \in Nat /\ 2 + n \in Nat
    BY <1>10, Sized
  <2>2. \E k : \/ t = Tells("selfTest", k, <<n>>) \/ t = Tells("password", k, <<n>>)
    BY <1>10, SizedBegin, ToldBy
  <2>3. t.counts[1] = n
    BY <2>2 DEF Tells
  <2> HIDE DEF n
  <2> QED
    BY <2>1, <2>2, <2>3, AnswerIs
<1> QED
  BY <1>1, <1>2, <1>3, <1>4, <1>5, <1>6, <1>7, <1>8, <1>9, <1>10, CallIs DEF BareCalls, RandomCalls

Services == {"readWords", "readBits", "writeWords", "writeBits", "readMemory", "writeMemory",
             "readUnit", "writeUnit", "readRandom", "registerMonitor", "readBlock", "password",
             "writeLabels", "writeRandomLabels", "clearError", "remote", "remoteRun", "typeName"}

(* The three services that are answered with a count of their own, and the  *)
(* one whose answer depends on an earlier request                           *)
LEMMA ServiceIs ==
  ASSUME NEW s \in Settings, NEW r \in Requests, NEW t, t = BeginOf(s, r).tells
  PROVE  /\ r.call = "readArrayLabels" => t = TellsLabels("readLabels", r)
         /\ r.call = "readRandomLabels" => t = TellsLabels("readRandomLabels", r)
         /\ r.call = "selfTestLoopback" => t = Tells("selfTest", 2, <<r.points>>)
         /\ r.call = "runMonitorCycle" => t = Tells("runMonitor", 0, <<>>)
         /\ r.call \notin LabelReads \cup {"selfTestLoopback", "runMonitorCycle"}
               => t.service \in Services
<1>1. CASE r.call \in RangeCalls
  <2> DEFINE k == SpecSize(s)  n == r.points  two == 2 * r.points
  <2>1. \/ t = Tells("readWords", k, <<n>>) \/ t = Tells("readWords", k, <<two>>)
        \/ t = Tells("readBits", k, <<n>>) \/ t = Tells("writeWords", k, <<n>>)
        \/ t = Tells("writeWords", k, <<two>>) \/ t = Tells("writeBits", k, <<n>>)
    BY <1>1, RangeBegin, ToldBy DEF RangeCalls
  <2> QED
    BY <1>1, <2>1 DEF Tells, Services, RangeCalls
<1>2. CASE r.call \in RoutedCalls
  <2> DEFINE n == r.points
  <2>1. \E k : \/ t = Tells("readWords", k, <<n>>) \/ t = Tells("readBits", k, <<n>>)
               \/ t = Tells("writeWords", k, <<n>>) \/ t = Tells("writeBits", k, <<n>>)
    BY <1>2, RoutedBegin, ToldBy DEF RoutedCalls
  <2> QED
    BY <1>2, <2>1 DEF Tells, Services, RoutedCalls
<1>3. CASE r.call \in CountedCalls
  <2> DEFINE n == r.points  two == 2 * n  four == 4 * n
  <2>1. \E k : \/ t = Tells("readWords", k, <<four>>) \/ t = Tells("readMemory", k, <<n>>)
               \/ t = Tells("writeMemory", k, <<n>>) \/ t = Tells("readUnit", k, <<n>>)
               \/ t = Tells("readUnit", k, <<two>>) \/ t = Tells("writeUnit", k, <<n>>)
               \/ t = Tells("writeUnit", k, <<two>>)
    BY <1>3, CountedBegin, ToldBy DEF CountedCalls
  <2> QED
    BY <1>3, <2>1 DEF Tells, Services, CountedCalls, TimerCalls, TimerStateCalls
<1>4. CASE r.call \in LabelCalls
  <2>1. /\ r.call = "readArrayLabels" => t = TellsLabels("readLabels", r)
        /\ r.call = "readRandomLabels" => t = TellsLabels("readRandomLabels", r)
        /\ r.call = "writeArrayLabels" => t = TellsLabels("writeLabels", r)
        /\ r.call = "writeRandomLabels" => t = TellsLabels("writeRandomLabels", r)
    BY <1>4, LabelBegin, ToldBy
  <2>2. r.call \in {"writeArrayLabels", "writeRandomLabels"} => t.service \in Services
    BY <2>1 DEF TellsLabels, Services
  <2> QED
    BY <1>4, <2>1, <2>2 DEF LabelCalls, LabelReads
<1>5. CASE r.call \in RandomCalls
  <2>1. \E k : t = TellsRandom("readRandom", r, k) \/ t = TellsRandom("registerMonitor", r, k)
    BY <1>5, RandomBegin, ToldBy DEF RandomCalls, RegisterCalls
  <2> QED
    BY <1>5, <2>1 DEF TellsRandom, Services, RandomCalls, RegisterCalls
<1>6. CASE r.call = "readBlock"
  <2> DEFINE q == [service |-> "readBlock", spec |-> SpecSize(s),
                   counts |-> <<Len(r.wordBlocks), Len(r.bitBlocks)>>,
                   blocks |-> r.wordBlocks \o r.bitBlocks]
  <2>1. t = q /\ q.service = "readBlock"
    BY <1>6, BlockBegin, ToldBy
  <2> HIDE DEF q
  <2> QED
    BY <1>6, <2>1 DEF Services, LabelReads
<1>7. CASE r.call \in {"readTypeName", "clearError", "runMonitorCycle"}
  <2>1. /\ r.call = "readTypeName" => t = Tells("typeName", 0, <<>>)
        /\ r.call = "clearError" => t = Tells("clearError", 0, <<>>)
        /\ r.call = "runMonitorCycle" => t = Tells("runMonitor", 0, <<>>)
    BY PlainBegin, ToldBy
  <2> QED
    BY <1>7, <2>1 DEF Tells, Services
<1>8. CASE r.call \in {"remoteStop", "remoteLatchClear", "remoteReset", "remotePause", "remoteRun"}
  <2>1. \E k : \/ t = Tells("remote", k, <<>>) \/ t = Tells("remoteRun", k, <<>>)
    BY <1>8, PlainBegin, ToldBy
  <2> QED
    BY <1>8, <2>1 DEF Tells, Services
<1>9. CASE r.call = "readCpuOperationState"
  <2>1. t = Tells("readWords", SpecSize(s), <<1>>)
    BY <1>9, StateBegin, ToldBy
  <2> QED
    BY <1>9, <2>1 DEF Tells, Services
<1>10. CASE r.call \in {"selfTestLoopback"} \cup PasswordCalls
  <2>1. /\ r.call = "selfTestLoopback" => t = Tells("selfTest", 2, <<r.points>>)
        /\ r.call \in PasswordCalls => t = Tells("password", 2, <<r.points>>)
    BY <1>10, SizedBegin, ToldBy
  <2> QED
    BY <1>10, <2>1 DEF Tells, Services, PasswordCalls
<1> QED
  BY <1>1, <1>2, <1>3, <1>4, <1>5, <1>6, <1>7, <1>8, <1>9, <1>10, CallIs DEF BareCalls, RandomCalls

LEMMA ItemsAre ==
  ASSUME NEW labels \in Seq(LabelPoint)
  PROVE  /\ AskedItems(labels) \in Seq(LabelItem) /\ Len(AskedItems(labels)) = Len(labels)
         /\ \A items \in [DOMAIN labels -> LabelItems] :
               items \in Seq(LabelItem) /\ Len(items) = Len(labels)
<1> DEFINE k == Len(labels)
<1>1. k \in Nat /\ DOMAIN labels = 1 .. k
  BY LenProperties
<1>2. \A i \in 1 .. k : labels[i].unit \in Nat /\ labels[i].elements \in Nat
  <2> TAKE i \in 1 .. k
  <2>1. labels[i] \in LabelPoint
    BY <1>1, ElementOfSeq
  <2> QED
    BY <2>1 DEF LabelPoint
<1> HIDE DEF k
<1>3. AskedItems(labels) \in [1 .. k -> LabelItem]
  BY <1>1, <1>2 DEF AskedItems, Item, LabelItem
<1>4. \A items \in [DOMAIN labels -> LabelItems] : items \in [1 .. k -> LabelItem]
  BY <1>1, LabelAssumption DEF LabelItem
<1>5. \A f \in [1 .. k -> LabelItem] : f \in Seq(LabelItem) /\ Len(f) = k
  BY <1>1
<1> QED
  BY <1>3, <1>4, <1>5 DEF k

(* Whatever the PLC answers is a body, with the label data it is asked for  *)
(* when it is honest.                                                       *)
LEMMA BodiesAre ==
  ASSUME NEW s \in Settings, NEW r \in Requests, registration[1] \in Nat, registration[2] \in Nat,
         NEW t, t = BeginOf(s, r).tells, NEW b \in HonestBodies(t) \cup OddBodies(t)
  PROVE  /\ b \in Bodies /\ (b \notin HonestBodies(t) => b.honest = FALSE)
         /\ Understood => ~b.endCode
<1>1. AnswerLength(t) \in Nat /\ (t.service = "selfTest" => t.counts[1] \in Nat)
  BY AnswerIsNat
<1>2. CASE b \in OddBodies(t)
  BY <1>1, <1>2, OddIs
<1>3. CASE b \in HonestBodies(t)
  <2>1. CASE r.call \in LabelReads
    <3>1. r.labels \in Seq(LabelPoint)
      BY <2>1, Labelled DEF LabelCalls
    <3>t. t = TellsLabels("readLabels", r) \/ t = TellsLabels("readRandomLabels", r)
      BY <2>1, ServiceIs DEF LabelReads
    <3>2. t.labels = r.labels /\ t.service \in {"readLabels", "readRandomLabels"}
      BY <3>t DEF TellsLabels
    <3>3. CASE t.service = "readLabels"
      <4> DEFINE items == AskedItems(r.labels)
      <4>1. b = Honestly(ArrayAnswer(items))
        BY <1>3, <3>2, <3>3, HonestIs
      <4>2. items \in Seq(LabelItem)
        BY <3>1, ItemsAre
      <4> HIDE DEF items
      <4>3. LabelBytes(ArrayData(items)) \in Nat /\ Len(items) \in Nat
        BY <4>2, DataIs, LabelBytesIs, LenProperties
      <4> QED
        BY <4>1, <4>2, <4>3, HonestlyIs, <1>3 DEF ArrayAnswer
    <3>4. CASE t.service = "readRandomLabels"
      <4>1. PICK items \in [DOMAIN t.labels -> LabelItems] : b = Honestly(RandomAnswer(items))
        BY <1>3, <3>4, HonestIs
      <4>2. items \in Seq(LabelItem)
        BY <3>1, <3>2, ItemsAre
      <4>3. LabelBytes(RandomData(items)) \in Nat /\ Len(items) \in Nat
        BY <4>2, DataIs, LabelBytesIs, LenProperties
      <4> QED
        BY <4>1, <4>2, <4>3, HonestlyIs, <1>3 DEF RandomAnswer
    <3> QED
      BY <3>2, <3>3, <3>4
  <2>2. CASE r.call = "selfTestLoopback"
    <3>1. t.service = "selfTest"
      BY <2>2, ServiceIs DEF Tells
    <3>2. b = Honestly(Body(AnswerLength(t), t.counts[1], <<>>, TRUE))
      BY <1>3, <3>1, HonestIs
    <3>3. <<>> \in Seq(LabelItem) /\ TRUE \in BOOLEAN
      OBVIOUS
    <3> DEFINE length == AnswerLength(t)
               count == t.counts[1]
    <3>4. b = Honestly(Body(length, count, <<>>, TRUE)) /\ length \in Nat /\ count \in Nat
      BY <1>1, <3>1, <3>2
    <3> HIDE DEF length, count
    <3>5. b \in Bodies /\ (b.endCode <=> ~Understood)
      BY <3>3, <3>4, HonestlyIs
    <3> QED
      BY <1>3, <3>5
  <2>3. CASE r.call \notin LabelReads \cup {"selfTestLoopback"}
    <3>1. t.service \notin {"readLabels", "readRandomLabels", "selfTest"}
      BY <2>3, ServiceIs DEF Tells, Services
    <3>2. b = Honestly(Body(AnswerLength(t), 0, <<>>, TRUE))
      BY <1>3, <3>1, HonestIs
    <3>3. 0 \in Nat /\ <<>> \in Seq(LabelItem) /\ TRUE \in BOOLEAN
      OBVIOUS
    <3> QED
      BY <1>1, <1>3, <3>2, <3>3, HonestlyIs
  <2> QED
    BY <2>1, <2>2, <2>3
<1> QED
  BY <1>2, <1>3

-----------------------------------------------------------------------------
(* The call *)

Started(s, r) == startAsync(s, BeginOf(s, r))

(* What startAsync sends is what the begin call encoded, behind a header,   *)
(* and the header has room before it.                                       *)
LEMMA StartedIs ==
  ASSUME NEW s \in Settings, NEW r \in Requests, NEW e, e = Started(s, r)
  PROVE  /\ e.end \in Nat /\ (s.connected => e.end <= s.txCapacity)
         /\ e.tells = BeginOf(s, r).tells
         /\ e.error = "Ok" => /\ Sent(s, r)
                              /\ e.end - HeaderSize(s) = PayloadOf(s, e.tells)
<1> DEFINE begun == BeginOf(s, r)
           header == HeaderSize(s)
           checks == <<begun.error, Refuse(~s.connected, "NotConnected"),
                       Refuse(s.txCapacity < header + begun.end, "BufferTooSmall")>>
           error == FirstError(checks)
<1>1. /\ begun.end \in Nat /\ (s.connected => begun.end <= s.txCapacity)
      /\ begun.error = "Ok" => begun.end = PayloadOf(s, begun.tells)
  BY EncodedWell DEF WellEncoded, Sent
<1>2. /\ e.error = error /\ e.tells = begun.tells
      /\ e.end = IF error = "Ok" THEN header + begun.end ELSE begun.end
  BY DEF Started, startAsync
<1>3. header \in Nat /\ s.txCapacity \in Nat
  BY SettingIs
<1>4. ASSUME error = "Ok" PROVE begun.error = "Ok" /\ header + begun.end <= s.txCapacity
  <2>1. DOMAIN checks = 1 .. 3 /\ 3 \in Nat
    OBVIOUS
  <2> HIDE DEF checks
  <2>2. \A i \in 1 .. 3 : checks[i] = "Ok"
    BY <1>4, <2>1, Passed
  <2>3. checks[1] = "Ok" /\ checks[3] = "Ok"
    BY <2>2
  <2> USE DEF checks
  <2>4. begun.error = "Ok" /\ Refuse(s.txCapacity < header + begun.end, "BufferTooSmall") = "Ok"
    BY <2>3
  <2> HIDE DEF begun, header, checks
  <2>5. ~(s.txCapacity < header + begun.end)
    BY <2>4 DEF Refuse
  <2> QED
    BY <1>1, <1>3, <2>4, <2>5
<1> HIDE DEF error, header, begun
<1>5. e.end \in Nat /\ (s.connected => e.end <= s.txCapacity)
  BY <1>1, <1>2, <1>3, <1>4
<1>6. ASSUME e.error = "Ok" PROVE begun.error = "Ok" /\ e.end - header = PayloadOf(s, e.tells)
  <2>1. e.end = header + begun.end /\ begun.error = "Ok"
    BY <1>2, <1>4, <1>6
  <2>2. e.end - header = begun.end
    BY <1>1, <1>3, <2>1
  <2> QED
    BY <1>1, <1>2, <2>1, <2>2
<1> QED
  BY <1>2, <1>5, <1>6 DEF Sent, begun, header

(* What an encoding empties: nothing, but for the two begin calls that have  *)
(* passed all of their own checks.                                          *)
EmptyingCalls == {"readTypeName", "selfTestLoopback"}

LEMMA EncodedEmpties ==
  ASSUME NEW s, NEW checks, NEW chunks, NEW t
  PROVE  Encoded(s, checks, chunks, t).empties = FALSE
BY DEF Encoded

LEMMA RefusedEmpties ==
  ASSUME NEW read, DOMAIN read = {"error", "end", "tells", "empties"}, read.empties = FALSE,
         NEW refusal, NEW e, e = read \/ e = [read EXCEPT !.error = refusal, !.end = 0]
  PROVE  e.empties = FALSE
BY Zenon

LEMMA EmptiesIs ==
  ASSUME NEW s \in Settings, NEW r \in Requests, NEW e, e = BeginOf(s, r), e.empties
  PROVE  e.error = "Ok" /\ r.call \in EmptyingCalls
<1>1. CASE r.call \in RangeCalls
  <2>1. ReadWords(s, r).empties = FALSE
    BY EncodedEmpties DEF ReadWords, DirectRead
  <2>2. ReadBits(s, r).empties = FALSE
    BY EncodedEmpties DEF ReadBits, DirectRead
  <2>3. ReadDWords(s, r).empties = FALSE
    BY EncodedEmpties DEF ReadDWords, DirectRead
  <2>4. ReadFloat32s(s, r).empties = FALSE
    BY EncodedEmpties DEF ReadFloat32s, DirectRead
  <2>5. WriteWords(s, r).empties = FALSE
    BY EncodedEmpties DEF WriteWords, DirectWrite
  <2>6. WriteBits(s, r).empties = FALSE
    BY EncodedEmpties DEF WriteBits, DirectWrite
  <2>7. WriteDWords(s, r).empties = FALSE
    BY EncodedEmpties DEF WriteDWords, DirectWrite
  <2>8. WriteFloat32s(s, r).empties = FALSE
    BY EncodedEmpties DEF WriteFloat32s, DirectWrite
  <2> QED
    BY <1>1, <2>1, <2>2, <2>3, <2>4, <2>5, <2>6, <2>7, <2>8, BeginIs DEF RangeCalls
<1>2. CASE r.call \in RoutedCalls
  <2>1. ReadWordsModuleBuf(s, r).empties = FALSE
    BY EncodedEmpties DEF ReadWordsModuleBuf
  <2>2. WriteWordsModuleBuf(s, r).empties = FALSE
    BY EncodedEmpties DEF WriteWordsModuleBuf
  <2>3. ReadBitsModuleBuf(s, r).empties = FALSE
    BY EncodedEmpties DEF ReadBitsModuleBuf
  <2>4. WriteBitsModuleBuf(s, r).empties = FALSE
    BY EncodedEmpties DEF WriteBitsModuleBuf
  <2>5. ReadWordsLinkDirect(s, r).empties = FALSE
    BY EncodedEmpties DEF ReadWordsLinkDirect
  <2>6. WriteWordsLinkDirect(s, r).empties = FALSE
    BY EncodedEmpties DEF WriteWordsLinkDirect
  <2>7. ReadBitsLinkDirect(s, r).empties = FALSE
    BY EncodedEmpties DEF ReadBitsLinkDirect
  <2>8. WriteBitsLinkDirect(s, r).empties = FALSE
    BY EncodedEmpties DEF WriteBitsLinkDirect
  <2> QED
    BY <1>2, <2>1, <2>2, <2>3, <2>4, <2>5, <2>6, <2>7, <2>8, BeginIs DEF RoutedCalls
<1>3. CASE r.call \in {"readLongTimer", "readLongRetentiveTimer", "readMemoryWords",
                       "writeMemoryWords", "readExtendUnitBytes", "writeExtendUnitBytes",
                       "writeExtendUnitWords"}
  <2>1. ReadLongTimer(s, r).empties = FALSE
    BY EncodedEmpties DEF ReadLongTimer
  <2>2. ReadLongRetentiveTimer(s, r).empties = FALSE
    BY EncodedEmpties DEF ReadLongRetentiveTimer, ReadLongTimer
  <2>3. ReadMemoryWords(s, r).empties = FALSE
    BY EncodedEmpties DEF ReadMemoryWords
  <2>4. WriteMemoryWords(s, r).empties = FALSE
    BY EncodedEmpties DEF WriteMemoryWords
  <2>5. ReadExtendUnitBytes(s, r).empties = FALSE
    BY EncodedEmpties DEF ReadExtendUnitBytes
  <2>6. WriteExtendUnitBytes(s, r).empties = FALSE
    BY EncodedEmpties DEF WriteExtendUnitBytes
  <2>7. WriteExtendUnitWords(s, r).empties = FALSE
    BY EncodedEmpties DEF WriteExtendUnitWords
  <2> QED
    BY <1>3, <2>1, <2>2, <2>3, <2>4, <2>5, <2>6, <2>7, BeginIs
<1>4. CASE r.call \in TimerStateCalls
  <2> DEFINE scratch == [r EXCEPT !.capacity = s.rxCapacity \div TimerResultSize]
             checks == <<TimerRange(r), HoldsAll(r),
                         Refuse(scratch.capacity < r.points, "BufferTooSmall")>>
             refusal == FirstError(checks)
             read == ReadLongTimer(s, scratch)
  <2>1. e = IF refusal = "Ok" THEN read ELSE [read EXCEPT !.error = refusal, !.end = 0]
    BY <1>4, BeginIs DEF ReadTimerStates
  <2>2. read.empties = FALSE /\ DOMAIN read = {"error", "end", "tells", "empties"}
    BY DEF ReadLongTimer, Encoded
  <2> HIDE DEF read, refusal
  <2> QED
    BY <2>1, <2>2, RefusedEmpties
<1>5. CASE r.call = "readExtendUnitWords"
  <2> DEFINE bytes == 2 * r.points
             read == ReadExtendUnitBytes(s, [r EXCEPT !.points = bytes, !.capacity = bytes])
             refusal == FirstError(<<HoldsAll(r), CountValid(r.points, PointLimit)>>)
  <2>1. e = IF refusal = "Ok" THEN read ELSE [read EXCEPT !.error = refusal, !.end = 0]
    BY <1>5, BeginIs DEF ReadExtendUnitWords
  <2>2. read.empties = FALSE /\ DOMAIN read = {"error", "end", "tells", "empties"}
    BY DEF ReadExtendUnitBytes, Encoded
  <2> HIDE DEF read, refusal
  <2> QED
    BY <2>1, <2>2, RefusedEmpties
<1>6. CASE r.call \in LabelCalls
  <2>1. ReadArrayLabels(s, r).empties = FALSE
    BY EncodedEmpties DEF ReadArrayLabels
  <2>2. WriteArrayLabels(s, r).empties = FALSE
    BY EncodedEmpties DEF WriteArrayLabels
  <2>3. ReadRandomLabels(s, r).empties = FALSE
    BY EncodedEmpties DEF ReadRandomLabels
  <2>4. WriteRandomLabels(s, r).empties = FALSE
    BY EncodedEmpties DEF WriteRandomLabels
  <2> QED
    BY <1>6, <2>1, <2>2, <2>3, <2>4, BeginIs DEF LabelCalls, LabelReads
<1>7. CASE r.call \in RegisterCalls \cup {"readRandom", "readRandomExt", "readBlock", "runMonitorCycle"}
  <2>1. RegisterMonitorDevices(s, r).empties = FALSE
    BY EncodedEmpties DEF RegisterMonitorDevices
  <2>2. RegisterMonitorDevicesExt(s, r).empties = FALSE
    BY EncodedEmpties DEF RegisterMonitorDevicesExt
  <2>3. ReadRandom(s, r).empties = FALSE
    BY EncodedEmpties DEF ReadRandom
  <2>4. ReadRandomExt(s, r).empties = FALSE
    BY EncodedEmpties DEF ReadRandomExt
  <2>5. ReadBlock(s, r).empties = FALSE
    BY DEF ReadBlock, Encoded
  <2>6. RunMonitorCycle(s, r).empties = FALSE
    BY EncodedEmpties DEF RunMonitorCycle
  <2> QED
    BY <1>7, <2>1, <2>2, <2>3, <2>4, <2>5, <2>6, BeginIs DEF RegisterCalls
<1>8. CASE r.call \in PasswordCalls \cup {"remoteRun", "remoteStop", "remoteLatchClear",
                                        "remoteReset", "clearError", "readCpuOperationState"}
  <2>1. RemotePasswordLock(s, r).empties = FALSE
    BY DEF RemotePasswordLock, RemotePassword, Encoded
  <2>2. RemotePasswordUnlock(s, r).empties = FALSE
    BY DEF RemotePasswordUnlock, RemotePassword, Encoded
  <2>3. RemoteRun(s, r).empties = FALSE
    BY EncodedEmpties DEF RemoteRun
  <2>4. RemoteStop(s, r).empties = FALSE
    BY EncodedEmpties DEF RemoteStop, RemoteMode
  <2>5. RemoteLatchClear(s, r).empties = FALSE
    BY EncodedEmpties DEF RemoteLatchClear, RemoteMode
  <2>6. RemoteReset(s, r).empties = FALSE
    BY EncodedEmpties DEF RemoteReset, RemoteMode
  <2>7. ClearError(s, r).empties = FALSE
    BY EncodedEmpties DEF ClearError
  <2>8. ReadCpuOperationState(s, r).empties = FALSE
    BY EncodedEmpties DEF ReadCpuOperationState, ReadWords, DirectRead
  <2> QED
    BY <1>8, <2>1, <2>2, <2>3, <2>4, <2>5, <2>6, <2>7, <2>8, BeginIs DEF PasswordCalls
<1>9. CASE r.call = "remotePause"
  <2> DEFINE read == RemoteMode(s)
  <2>1. e = IF r.valid THEN read ELSE [read EXCEPT !.error = "InvalidArgument", !.end = 0]
    BY <1>9, BeginIs DEF RemotePause
  <2>2. read.empties = FALSE /\ DOMAIN read = {"error", "end", "tells", "empties"}
    BY DEF RemoteMode, Encoded
  <2> HIDE DEF read
  <2> QED
    BY <2>1, <2>2, RefusedEmpties
<1>10. CASE r.call = "readTypeName"
  <2> DEFINE read == Encoded(s, <<FeatureAllowed(s, "TypeName")>>, <<>>, Tells("typeName", 0, <<>>))
  <2>1. e = [read EXCEPT !.empties = read.error = "Ok"]
    BY <1>10, BeginIs DEF ReadTypeName
  <2>2. DOMAIN read = {"error", "end", "tells", "empties"}
    BY DEF Encoded
  <2> HIDE DEF read
  <2>3. e.empties = (read.error = "Ok") /\ e.error = read.error
    BY <2>1, <2>2
  <2> QED
    BY <1>10, <2>3 DEF EmptyingCalls
<1>11. CASE r.call = "selfTestLoopback"
  <2> DEFINE read == EncodedSelfTest(s, r)  held == HoldsAll(r)
  <2>1. e = IF read.error = "Ok" THEN [read EXCEPT !.error = held, !.empties = held = "Ok"] ELSE read
    BY <1>11, BeginIs DEF SelfTestLoopback
  <2>2. read.empties = FALSE /\ DOMAIN read = {"error", "end", "tells", "empties"}
    BY DEF EncodedSelfTest, Encoded
  <2> HIDE DEF read, held
  <2>3. read.error = "Ok" /\ e = [read EXCEPT !.error = held, !.empties = held = "Ok"]
    BY <2>1, <2>2
  <2>4. e.empties = (held = "Ok") /\ e.error = held
    BY <2>2, <2>3
  <2> QED
    BY <1>11, <2>4 DEF EmptyingCalls
<1> QED
  BY <1>1, <1>2, <1>3, <1>4, <1>5, <1>6, <1>7, <1>8, <1>9, <1>10, <1>11, CallIs
     DEF CountedCalls, TimerCalls, BareCalls

(* What startAsync refuses once the call's own checks have passed           *)
RefusedLate == {"NotConnected", "BufferTooSmall"}

LEMMA StartedEmpties ==
  ASSUME NEW s \in Settings, NEW r \in Requests, NEW e, e = Started(s, r), e.empties
  PROVE  r.call \in EmptyingCalls /\ e.error \in RefusedLate \cup {"Ok"}
<1> DEFINE begun == BeginOf(s, r)
           connection == Refuse(~s.connected, "NotConnected")
           room == Refuse(s.txCapacity < HeaderSize(s) + begun.end, "BufferTooSmall")
           checks == <<begun.error, connection, room>>
           failed == {i \in DOMAIN checks : checks[i] # "Ok"}
<1>1. e.empties = begun.empties /\ e.error = FirstError(checks)
  BY DEF Started, startAsync
<1>2. begun.error = "Ok" /\ r.call \in EmptyingCalls
  BY <1>1, EmptiesIs
<1>3. connection \in {"Ok", "NotConnected"} /\ room \in {"Ok", "BufferTooSmall"}
  BY DEF Refuse
<1> HIDE DEF begun, connection, room
<1>4. DOMAIN checks = 1 .. 3 /\ \A i \in 1 .. 3 : checks[i] \in {"Ok", "NotConnected", "BufferTooSmall"}
  BY <1>2, <1>3
<1> HIDE DEF checks
<1>5. CASE failed = {}
  BY <1>1, <1>2, <1>5 DEF FirstError
<1>6. CASE failed # {}
  <2>1. failed \in SUBSET Nat
    BY <1>4
  <2>2. Min(failed) \in failed
    BY <1>6, <2>1, Smallest DEF Min
  <2>3. FirstError(checks) = checks[Min(failed)]
    BY <1>6 DEF FirstError
  <2> QED
    BY <1>1, <1>2, <1>4, <2>2, <2>3 DEF RefusedLate
<1> QED
  BY <1>5, <1>6

(* Between two calls nothing of the last one is left. *)
Reset ==
    /\ request = NoRequest /\ built = NothingBuilt /\ body = NoBody
    /\ verdict = "Ok" /\ outcome = NotWritten

(* A call that has returned was answered, and completeAsync decoded the     *)
(* answer, or it was refused or not answered and stored nothing.            *)
Completed == built.error = "Ok" /\ outcome = completeAsync(body) /\ verdict = outcome.error

Unanswered ==
    /\ outcome = NotWritten /\ body = NoBody
    /\ verdict # "Ok" \/ request.call = "remoteReset"
    /\ verdict \in {built.error, "TransportError"}

CallInv ==
    /\ settings \in Settings /\ phase \in {"idle", "sent", "returned"}
    /\ body \in Bodies /\ registration[1] \in Nat /\ registration[2] \in Nat
    /\ phase = "idle" => Reset
    /\ phase # "idle" => request \in Requests /\ built = Started(settings, request)
    /\ phase = "sent" => built.error = "Ok" /\ body = NoBody /\ outcome = NotWritten
    /\ phase = "returned" => Completed \/ Unanswered

(* The PLC registers the counts of the request. *)
LEMMA RegistrationIs ==
  ASSUME NEW s \in Settings, NEW r \in Requests, r.call \in RegisterCalls
  PROVE  /\ BeginOf(s, r).tells.counts = <<Len(r.words), Len(r.dwords)>>
         /\ Len(r.words) \in Nat /\ Len(r.dwords) \in Nat
<1>1. r.call \in RandomCalls
  BY DEF RandomCalls
<1>2. \E k : BeginOf(s, r).tells = TellsRandom("registerMonitor", r, k)
  BY <1>1, RandomBegin, ToldBy DEF RegisterCalls
<1> QED
  BY <1>1, <1>2, CountsIs DEF TellsRandom

LEMMA CompleteIs ==
  ASSUME CallInv, NEW b \in Bodies, Complete(b)
  PROVE  /\ phase = "sent" /\ request \in Requests /\ built = Started(settings, request)
         /\ phase' = "returned" /\ Completed' /\ body' = b
         /\ UNCHANGED <<settings, request, built>>
<1>1. completeAsync(b)' = completeAsync(b)
  BY SMTT(30) DEF Complete, completeAsync, DecodeOf
<1> QED
  BY <1>1 DEF CallInv, Complete, Completed

LEMMA CallStep ==
  CallInv /\ [Next]_vars => CallInv'
<1> SUFFICES ASSUME CallInv, [Next]_vars PROVE CallInv'
  OBVIOUS
<1> USE DEF plcUnchanged
<1>1. ASSUME NEW r \in Requests, Begin(r) PROVE CallInv'
  <2> DEFINE e == Started(settings, r)
  <2>1. /\ phase = "idle" /\ request' = r /\ built' = e /\ verdict' = e.error
        /\ phase' = IF e.error = "Ok" THEN "sent" ELSE "returned"
        /\ UNCHANGED <<settings, body, outcome, registration>>
    BY <1>1 DEF Begin, Started
  <2>2. Reset
    BY <2>1 DEF CallInv
  <2> HIDE DEF e
  <2>3. /\ settings' \in Settings /\ phase' \in {"idle", "sent", "returned"}
        /\ body' \in Bodies /\ registration'[1] \in Nat /\ registration'[2] \in Nat
    BY <2>1 DEF CallInv
  <2>4. phase' # "idle" /\ request' \in Requests /\ built' = Started(settings', request')
    BY <2>1 DEF e
  <2>5. phase' = "sent" => built'.error = "Ok" /\ body' = NoBody /\ outcome' = NotWritten
    BY <2>1, <2>2 DEF Reset
  <2>6. phase' = "returned" => Unanswered'
    BY <2>1, <2>2 DEF Reset, Unanswered
  <2> QED
    BY <2>3, <2>4, <2>5, <2>6 DEF CallInv
<1>2. ASSUME phase = "sent", NEW b \in HonestBodies(built.tells) \cup OddBodies(built.tells),
             PlcAnswers(b)
      PROVE  CallInv'
  <2>1. request \in Requests /\ built = Started(settings, request) /\ settings \in Settings
    BY <1>2 DEF CallInv
  <2>2. built.tells = BeginOf(settings, request).tells
    BY <2>1, StartedIs
  <2>3. b \in Bodies
    BY <1>2, <2>1, <2>2, BodiesAre DEF CallInv
  <2>4. /\ phase' = "returned" /\ Completed' /\ body' = b
        /\ UNCHANGED <<settings, request, built>>
    BY <1>2, <2>3, CompleteIs DEF PlcAnswers
  <2>5. registration'[1] \in Nat /\ registration'[2] \in Nat
    <3>1. registration' = RegistrationDone
      BY <1>2 DEF PlcAnswers
    <3>2. CASE request.call \in RegisterCalls
      <4>1. registration' = <<Len(request.words), Len(request.dwords)>>
        BY <2>1, <2>2, <3>1, <3>2, RegistrationIs DEF RegistrationDone, Told
      <4> QED
        BY <2>1, <3>2, <4>1, RegistrationIs
    <3>3. CASE request.call \notin RegisterCalls
      BY <3>1, <3>3 DEF RegistrationDone, CallInv
    <3> QED
      BY <3>2, <3>3
  <2>6. built' = Started(settings', request')
    BY <2>1, <2>4
  <2> QED
    BY <2>1, <2>3, <2>4, <2>5, <2>6 DEF CallInv
<1>3. ASSUME PlcRefuses PROVE CallInv'
  <2>1. Complete(EndCodeBody) /\ UNCHANGED registration /\ EndCodeBody \in Bodies
    BY <1>3, NoBodyIs DEF PlcRefuses
  <2>2. /\ request \in Requests /\ built = Started(settings, request)
        /\ phase' = "returned" /\ Completed' /\ body' = EndCodeBody
        /\ UNCHANGED <<settings, request, built>>
    BY <2>1, CompleteIs
  <2>3. built' = Started(settings', request')
    BY <2>2
  <2> QED
    BY <2>1, <2>2, <2>3 DEF CallInv
<1>4. ASSUME ResetSent PROVE CallInv'
  <2>1. /\ phase = "sent" /\ phase' = "returned" /\ request.call = "remoteReset" /\ verdict' = "Ok"
        /\ UNCHANGED <<settings, request, built, body, outcome, registration>>
    BY <1>4 DEF ResetSent
  <2>2. Unanswered'
    BY <2>1 DEF CallInv, Unanswered
  <2>3. built' = Started(settings', request') /\ request' \in Requests
    BY <2>1 DEF CallInv
  <2> QED
    BY <2>1, <2>2, <2>3 DEF CallInv
<1>5. ASSUME NoAnswer PROVE CallInv'
  <2>1. /\ phase = "sent" /\ phase' = "returned" /\ verdict' = "TransportError"
        /\ registration' \in {registration, RegistrationDone}
        /\ UNCHANGED <<settings, request, built, body, outcome>>
    BY <1>5 DEF NoAnswer
  <2>2. Unanswered'
    BY <2>1 DEF CallInv, Unanswered
  <2>3. built' = Started(settings', request') /\ request' \in Requests
    BY <2>1 DEF CallInv
  <2>4. registration'[1] \in Nat /\ registration'[2] \in Nat
    <3>1. request \in Requests /\ settings \in Settings
          /\ built.tells = BeginOf(settings, request).tells
      BY <2>1, StartedIs DEF CallInv
    <3>2. CASE request.call \in RegisterCalls /\ registration' # registration
      <4>1. registration' = <<Len(request.words), Len(request.dwords)>>
        BY <2>1, <3>1, <3>2, RegistrationIs DEF RegistrationDone, Told
      <4> QED
        BY <3>1, <3>2, <4>1, RegistrationIs
    <3> QED
      BY <2>1, <3>2 DEF RegistrationDone, CallInv
  <2> QED
    BY <2>1, <2>2, <2>3, <2>4 DEF CallInv
<1>6. ASSUME PlcForgets PROVE CallInv'
  BY <1>6 DEF PlcForgets, CallInv, Reset, NotRegistered
<1>7. ASSUME Return PROVE CallInv'
  BY <1>7, NoBodyIs DEF Return, CallInv, Reset
<1>8. CASE UNCHANGED vars
  <2>1. completeAsync(body)' = completeAsync(body)
    BY <1>8 DEF vars, completeAsync, DecodeOf
  <2> QED
    BY <1>8, <2>1 DEF vars, CallInv, Reset, Completed, Unanswered
<1> QED
  BY <1>1, <1>2, <1>3, <1>4, <1>5, <1>6, <1>7, <1>8 DEF Next

LEMMA CallInit == Init => CallInv
BY NoBodyIs DEF Init, CallInv, Reset, NotRegistered

LEMMA CallAlways == Spec => []CallInv
BY CallInit, CallStep, PTL DEF Spec

(* Once connect has accepted the buffers, no begin call, whatever its        *)
(* arguments, writes beyond the transmit buffer.                            *)
THEOREM EncodedFits == Spec => []EncodingFits
<1>1. CallInv => EncodingFits
  <2> SUFFICES ASSUME CallInv, settings.connected PROVE built.end <= settings.txCapacity
    BY DEF EncodingFits
  <2>1. CASE phase = "idle"
    <3>1. built.end = 0 /\ settings \in Settings
      BY <2>1 DEF CallInv, Reset, NothingBuilt
    <3> QED
      BY <3>1, SettingIs
  <2>2. CASE phase # "idle"
    BY <2>2, StartedIs DEF CallInv
  <2> QED
    BY <2>1, <2>2
<1> QED
  BY <1>1, CallAlways, PTL

(* A request on its way has the size its counts ask for, so the PLC has no   *)
(* reason to refuse it.                                                     *)
LEMMA SentIs ==
  ASSUME CallInv, phase = "sent"
  PROVE  /\ settings \in Settings /\ request \in Requests /\ Sent(settings, request)
         /\ built.tells = BeginOf(settings, request).tells
         /\ Understood
         /\ \A b \in HonestBodies(built.tells) \cup OddBodies(built.tells) :
               /\ b \in Bodies /\ ~b.endCode
               /\ b \notin HonestBodies(built.tells) => b.honest = FALSE
<1>1. /\ settings \in Settings /\ request \in Requests
      /\ built = Started(settings, request) /\ built.error = "Ok"
      /\ registration[1] \in Nat /\ registration[2] \in Nat
  BY DEF CallInv
<1>2. /\ built.tells = BeginOf(settings, request).tells /\ Sent(settings, request)
      /\ built.end - HeaderSize(settings) = PayloadOf(settings, built.tells)
  BY <1>1, StartedIs
<1>3. Understood
  BY <1>2 DEF Understood
<1> QED
  BY <1>1, <1>2, <1>3, BodiesAre

(* The application knows what the PLC monitors, through any sequence of      *)
(* registrations with any number of devices, refusals, lost calls and       *)
(* cycles, unless a registration ended without it knowing how.              *)
THEOREM RegistrationKnown == Spec => []RegistrationBelieved
<1> USE DEF RegistrationBelieved, plcUnchanged
<1>1. Init => RegistrationBelieved
  BY DEF Init
<1>2. CallInv /\ RegistrationBelieved /\ [Next]_vars => RegistrationBelieved'
  <2> SUFFICES ASSUME CallInv, RegistrationBelieved, [Next]_vars PROVE RegistrationBelieved'
    OBVIOUS
  <2>1. ASSUME NEW r \in Requests, Begin(r) PROVE RegistrationBelieved'
    BY <2>1 DEF Begin
  <2>2. ASSUME phase = "sent", NEW b \in HonestBodies(built.tells) \cup OddBodies(built.tells),
               PlcAnswers(b)
        PROVE  RegistrationBelieved'
    <3>1. Conclude(completeAsync(b).error) /\ registration' = RegistrationDone
      BY <2>2 DEF PlcAnswers, Complete
    <3>2. CASE request.call \notin RegisterCalls
      BY <3>1, <3>2 DEF Conclude, RegistrationDone
    <3>3. CASE request.call \in RegisterCalls
      <4>1. registration' = <<Len(request.words), Len(request.dwords)>>
        BY <2>2, <3>1, <3>3, SentIs, RegistrationIs DEF RegistrationDone, Told
      <4>2. completeAsync(b).error # "PlcError"
        <5>1. ~b.endCode
          BY <2>2, SentIs
        <5>2. DecodeOf(settings, request, b) = Nothing(b)
          BY <3>3, DecodeIs DEF RegisterCalls, TimerCalls, TimerStateCalls
        <5> QED
          BY <5>1, <5>2 DEF completeAsync, Failed, Outcome, Nothing, Accept, Values
      <4> QED
        BY <3>1, <3>3, <4>1, <4>2 DEF Conclude
    <3> QED
      BY <3>2, <3>3
  <2>3. ASSUME PlcRefuses PROVE RegistrationBelieved'
    BY <2>3 DEF PlcRefuses, Complete, Conclude, completeAsync, EndCodeBody, NoBody, Body, Failed, Outcome
  <2>4. ASSUME ResetSent PROVE RegistrationBelieved'
    BY <2>4 DEF ResetSent
  <2>5. ASSUME NoAnswer PROVE RegistrationBelieved'
    BY <2>5 DEF NoAnswer, Conclude, RegistrationDone
  <2>6. ASSUME PlcForgets PROVE RegistrationBelieved'
    BY <2>6 DEF PlcForgets
  <2>7. ASSUME Return PROVE RegistrationBelieved'
    BY <2>7 DEF Return
  <2>8. CASE UNCHANGED vars
    BY <2>8 DEF vars
  <2> QED
    BY <2>1, <2>2, <2>3, <2>4, <2>5, <2>6, <2>7, <2>8 DEF Next
<1> QED
  BY <1>1, <1>2, CallAlways, PTL DEF Spec

-----------------------------------------------------------------------------
(* The decoders *)

LEMMA CellsAre ==
  ASSUME NEW start \in Nat, NEW n \in Nat, NEW size, NEW stride \in Nat,
         NEW cells, cells = CellsFrom(start, n, size, stride)
  PROVE  /\ Len(cells) = n /\ DOMAIN cells = 1 .. n
         /\ \A k \in 1 .. n : cells[k].size = size /\ cells[k].at = start + (k - 1) * stride
<1>1. cells = [k \in 1 .. n |-> Cell(start + (k - 1) * stride, size)]
  BY DEF CellsFrom
<1>2. DOMAIN cells = 1 .. n /\ Len(cells) = n
  BY <1>1
<1> QED
  BY <1>1, <1>2 DEF Cell

LEMMA NoCells ==
  ASSUME NEW start \in Nat, NEW size, NEW stride
  PROVE  CellsFrom(start, 0, size, stride) = <<>>
BY DEF CellsFrom

(* An answer as the decoders but those of labels store it: n values of a     *)
(* size, each a gap before the next, and m values of another size behind    *)
(* them, all within the body; or an error, and nothing is stored.           *)
Lays(o, b, start, n, size, gap, m, wide) ==
    /\ o.error = "Ok" =>
          /\ o.first = CellsFrom(start, n, size, size + gap)
          /\ o.second = CellsFrom(start + n * (size + gap), m, wide, wide)
          /\ start + n * (size + gap) + m * wide <= b.length * Byte
    /\ o.error # "Ok" => o.first = <<>> /\ o.second = <<>> /\ o.count = NotReported

LEMMA FailedLays ==
  ASSUME NEW o, NEW e, o = Failed(e), e # "Ok",
         NEW b, NEW start, NEW n, NEW size, NEW gap, NEW m, NEW wide
  PROVE  Lays(o, b, start, n, size, gap, m, wide)
BY DEF Failed, Outcome, Lays

(* Decoders with one array *)
LEMMA OneArray ==
  ASSUME NEW o, NEW b \in Bodies, NEW n \in Nat, NEW size \in Nat, NEW enough \in BOOLEAN,
         NEW cells, cells = Packed(0, n, size),
         o = Accept(enough, Values(cells, <<>>)), enough => n * size <= b.length * Byte
  PROVE  Lays(o, b, 0, n, size, 0, 0, 0)
<1>1. CASE enough
  <2>1. o.error = "Ok" /\ o.first = cells /\ o.second = <<>>
    BY <1>1 DEF Accept, Values, Outcome
  <2> DEFINE end == n * (size + 0)
  <2>2. size + 0 = size /\ n * size \in Nat /\ 0 + end = n * size
    OBVIOUS
  <2>3. cells = CellsFrom(0, n, size, size + 0)
    BY <2>2 DEF Packed
  <2>4. CellsFrom(0 + end, 0, 0, 0) = <<>>
    BY <2>2, NoCells
  <2>5. b.length * Byte \in Nat
    BY DEF Bodies, Byte
  <2>6. (0 + end) + 0 * 0 <= b.length * Byte
    BY <1>1, <2>2, <2>5
  <2> QED
    BY <2>1, <2>3, <2>4, <2>6 DEF Lays
<1>2. CASE ~enough
  <2>1. o = Failed("ProtocolError")
    BY <1>2 DEF Accept
  <2> QED
    BY <2>1, FailedLays
<1> QED
  BY <1>1, <1>2

(* Decoders with two arrays *)
LEMMA TwoArrays ==
  ASSUME NEW o, NEW b \in Bodies, NEW n \in Nat, NEW size \in Nat, NEW m \in Nat, NEW wide \in Nat,
         NEW enough \in BOOLEAN, NEW first, first = Packed(0, n, size),
         NEW second, second = Packed(n * size, m, wide),
         o = Accept(enough, Values(first, second)),
         enough => n * size + m * wide <= b.length * Byte
  PROVE  Lays(o, b, 0, n, size, 0, m, wide)
<1>1. CASE enough
  <2>1. o.error = "Ok" /\ o.first = first /\ o.second = second
    BY <1>1 DEF Accept, Values, Outcome
  <2>2. size + 0 = size /\ n * size \in Nat /\ m * wide \in Nat
    OBVIOUS
  <2>3. 0 + n * (size + 0) = n * size
    BY <2>2
  <2>4. first = CellsFrom(0, n, size, size + 0)
    BY <2>2 DEF Packed
  <2>5. second = CellsFrom(0 + n * (size + 0), m, wide, wide)
    BY <2>3 DEF Packed
  <2>6. 0 + n * (size + 0) + m * wide <= b.length * Byte
    BY <1>1, <2>3
  <2> QED
    BY <2>1, <2>4, <2>5, <2>6 DEF Lays
<1>2. CASE ~enough
  <2>1. o = Failed("ProtocolError")
    BY <1>2 DEF Accept
  <2> QED
    BY <2>1, FailedLays
<1> QED
  BY <1>1, <1>2

(* Widths(r) is the widths of n values of a size, then of m of another.      *)
Wide(r, n, size, m, wide) ==
    Widths(r) = [k \in 1 .. n + m |-> IF k <= n THEN size ELSE wide]

All(n, width) == [k \in 1 .. n |-> width]

LEMMA WidthsIs ==
  ASSUME NEW r
  PROVE  /\ r.call \in {"readDWords", "readFloat32s"} => Widths(r) = All(r.points, 4 * Byte)
         /\ r.call \in {"readBits", "readBitsModuleBuf", "readBitsLinkDirect"}
               => Widths(r) = All(r.points, HalfByte)
         /\ r.call \in {"readExtendUnitBytes", "selfTestLoopback"} => Widths(r) = All(r.points, Byte)
         /\ r.call \in {"readRandom", "readRandomExt"}
               => Widths(r) = All(Len(r.words), 2 * Byte) \o All(Len(r.dwords), 4 * Byte)
         /\ r.call = "runMonitorCycle"
               => Widths(r) = All(r.points, 2 * Byte) \o All(r.dpoints, 4 * Byte)
         /\ r.call = "readBlock"
               => Widths(r) = All(TotalOf(r.wordBlocks) + TotalOf(r.bitBlocks), 2 * Byte)
         /\ r.call \in TimerCalls => Widths(r) = All(r.points, 6 * Byte)
         /\ r.call = "readCpuOperationState" => Widths(r) = All(1, 2 * Byte)
         /\ r.call \in {"readWords", "readWordsModuleBuf", "readWordsLinkDirect",
                        "readMemoryWords", "readExtendUnitWords"}
               => Widths(r) = All(r.points, 2 * Byte)
         /\ r.call \notin {"readDWords", "readFloat32s", "readBits", "readBitsModuleBuf",
                           "readBitsLinkDirect", "readExtendUnitBytes", "selfTestLoopback",
                           "readRandom", "readRandomExt", "runMonitorCycle", "readBlock",
                           "readCpuOperationState", "readWords", "readWordsModuleBuf",
                           "readWordsLinkDirect", "readMemoryWords", "readExtendUnitWords"}
               /\ r.call \notin TimerCalls
               => Widths(r) = <<>>
BY DEF Widths, All, TimerCalls, TimerStateCalls, StatusWord

LEMMA WideOne ==
  ASSUME NEW r, NEW n \in Nat, NEW size, NEW any, Widths(r) = All(n, size)
  PROVE  Wide(r, n, size, 0, any)
BY DEF Wide, All

LEMMA WideTwo ==
  ASSUME NEW r, NEW n \in Nat, NEW size, NEW m \in Nat, NEW wide,
         Widths(r) = All(n, size) \o All(m, wide)
  PROVE  Wide(r, n, size, m, wide)
<1> DEFINE a == All(n, size)
           b == All(m, wide)
<1>1. /\ a \in Seq({size}) /\ Len(a) = n /\ \A i \in 1 .. n : a[i] = size
      /\ b \in Seq({wide}) /\ Len(b) = m /\ \A i \in 1 .. m : b[i] = wide
  BY DEF All
<1> HIDE DEF a, b
<1> DEFINE W == {size, wide}
<1>2. a \in Seq(W) /\ b \in Seq(W)
  BY <1>1
<1> HIDE DEF W
<1>6. /\ a \o b \in Seq(W) /\ Len(a \o b) = Len(a) + Len(b)
      /\ \A i \in 1 .. Len(a) + Len(b) :
            (a \o b)[i] = IF i <= Len(a) THEN a[i] ELSE b[i - Len(a)]
  BY <1>2, ConcatProperties
<1>3. /\ Len(a \o b) = n + m /\ DOMAIN (a \o b) = 1 .. n + m
      /\ \A i \in 1 .. n + m : (a \o b)[i] = IF i <= n THEN a[i] ELSE b[i - n]
  BY <1>1, <1>6, LenProperties
<1>4. Widths(r) = a \o b
  BY DEF a, b
<1>5. \A k \in 1 .. n + m : (a \o b)[k] = IF k <= n THEN size ELSE wide
  <2> TAKE k \in 1 .. n + m
  <2>1. k <= n => k \in 1 .. n
    OBVIOUS
  <2>2. ~(k <= n) => k - n \in 1 .. m
    OBVIOUS
  <2> QED
    BY <1>1, <1>3, <2>1, <2>2
<1> DEFINE c == a \o b
<1>7. c = [k \in 1 .. n + m |-> c[k]]
  <2>1. c \in Seq(W) /\ Len(c) = n + m
    BY <1>3, <1>6
  <2> HIDE DEF c
  <2>2. c \in [1 .. n + m -> W]
    BY <2>1, LenProperties
  <2> QED
    BY <2>2
<1> QED
  BY <1>4, <1>5, <1>7 DEF Wide

LEMMA WideNone ==
  ASSUME NEW r, Widths(r) = <<>>
  PROVE  Wide(r, 0, 0, 0, 0)
BY DEF Wide

LEMMA RoomIs ==
  ASSUME NEW s, NEW r
  PROVE  /\ r.call = "readTypeName" => Room(s, r) = <<16, 1>>
         /\ r.call = "readCpuOperationState" => Room(s, r) = <<1, 0>>
         /\ r.call \in {"readRandom", "readRandomExt", "readBlock"}
               => Room(s, r) = <<r.wordCapacity, r.dwordCapacity>>
         /\ r.call = "runMonitorCycle" => Room(s, r) = <<r.points, r.dpoints>>
         /\ r.call \in TimerStateCalls => Room(s, r) = <<s.rxCapacity \div TimerResultSize, 0>>
         /\ r.call \in {"readWords", "readDWords", "readFloat32s", "readBits", "readLongTimer",
                        "readLongRetentiveTimer", "readWordsModuleBuf", "readBitsModuleBuf",
                        "readWordsLinkDirect", "readBitsLinkDirect", "readMemoryWords",
                        "readExtendUnitBytes", "readExtendUnitWords", "selfTestLoopback"}
                       \cup LabelReads
               => Room(s, r) = <<r.capacity, 0>>
         /\ r.call \notin {"readTypeName", "readCpuOperationState", "readRandom", "readRandomExt",
                           "readBlock", "runMonitorCycle", "readWords", "readDWords", "readFloat32s",
                           "readBits", "readLongTimer", "readLongRetentiveTimer",
                           "readWordsModuleBuf", "readBitsModuleBuf", "readWordsLinkDirect",
                           "readBitsLinkDirect", "readMemoryWords", "readExtendUnitBytes",
                           "readExtendUnitWords", "selfTestLoopback"}
               /\ r.call \notin TimerStateCalls \cup LabelReads
               => Room(s, r) = <<0, 0>>
BY DEF Room, TimerStateCalls, LabelReads, StatusWord

(* The caller has room for n values and for m values behind them.           *)
Held(s, r, n, m) ==
    /\ Room(s, r)[1] \in Nat /\ Room(s, r)[2] \in Nat
    /\ n <= Room(s, r)[1] /\ m <= Room(s, r)[2]

(* An answer stored as a call asked for it                                  *)
LaidOut(s, r, b, o) ==
    \E start, n, size, gap, m, wide \in Nat :
        /\ Lays(o, b, start, n, size, gap, m, wide) /\ (gap = 0 \/ m = 0) /\ gap = Gap(r)
        /\ Held(s, r, n, m)
        /\ r.call # "readTypeName" => Wide(r, n, size, m, wide)
        /\ r.call \in TimerCalls => start = 0 /\ size + gap = TimerSpan

LEMMA LaidOne ==
  ASSUME NEW s, NEW r, r.call \notin TimerCalls \cup LabelReads \cup {"readTypeName"},
         NEW b \in Bodies, NEW n \in Nat, NEW size \in Nat, NEW enough \in BOOLEAN,
         NEW o, o = Accept(enough, Values(Packed(0, n, size), <<>>)),
         enough => n * size <= b.length * Byte,
         Held(s, r, n, 0), Widths(r) = All(n, size)
  PROVE  LaidOut(s, r, b, o)
<1>1. Lays(o, b, 0, n, size, 0, 0, 0)
  BY OneArray
<1>2. Gap(r) = 0 /\ 0 \in Nat
  BY DEF Gap
<1>3. Wide(r, n, size, 0, 0)
  BY WideOne
<1>4. r.call \notin TimerCalls
  OBVIOUS
<1> QED
  BY <1>1, <1>2, <1>3, <1>4 DEF LaidOut

LEMMA LaidTwo ==
  ASSUME NEW s, NEW r, r.call \notin TimerCalls \cup LabelReads \cup {"readTypeName"},
         NEW b \in Bodies, NEW n \in Nat, NEW size \in Nat, NEW m \in Nat, NEW wide \in Nat,
         NEW enough \in BOOLEAN,
         NEW o, o = Accept(enough, Values(Packed(0, n, size), Packed(n * size, m, wide))),
         enough => n * size + m * wide <= b.length * Byte,
         Held(s, r, n, m), Wide(r, n, size, m, wide)
  PROVE  LaidOut(s, r, b, o)
<1>1. Lays(o, b, 0, n, size, 0, m, wide)
  BY TwoArrays
<1>2. Gap(r) = 0 /\ 0 \in Nat
  BY DEF Gap
<1>3. r.call \notin TimerCalls
  OBVIOUS
<1> QED
  BY <1>1, <1>2, <1>3 DEF LaidOut

(* Reads into one array                                                     *)
LEMMA ArrayLaid ==
  ASSUME NEW s \in Settings, NEW r \in Requests, Sent(s, r), NEW b \in Bodies,
         r.call \in {"readWords", "readDWords", "readFloat32s", "readBits", "readWordsModuleBuf",
                     "readBitsModuleBuf", "readWordsLinkDirect", "readBitsLinkDirect",
                     "readMemoryWords", "readExtendUnitBytes", "readExtendUnitWords"}
  PROVE  LaidOut(s, r, b, DecodeOf(s, r, b))
<1> DEFINE n == r.points
           o == DecodeOf(s, r, b)
<1>1. n \in Nat /\ r.capacity \in Nat /\ n <= r.capacity
  <2>1. CASE r.call \in {"readWords", "readDWords", "readFloat32s", "readBits"}
    BY <2>1, Ranged, RangeBegin DEF RangeCalls
  <2>2. CASE r.call \in {"readWordsModuleBuf", "readBitsModuleBuf", "readWordsLinkDirect",
                         "readBitsLinkDirect"}
    BY <2>2, Routed, RoutedBegin DEF RoutedCalls
  <2>3. CASE r.call \in {"readMemoryWords", "readExtendUnitBytes", "readExtendUnitWords"}
    <3>1. r.call \in CountedCalls
      BY <2>3 DEF CountedCalls
    <3> QED
      BY <2>3, <3>1, Counted, CountedBegin
  <2> QED
    BY <2>1, <2>2, <2>3
<1>2. Held(s, r, n, 0)
  <2>1. Room(s, r) = <<r.capacity, 0>>
    BY RoomIs
  <2> QED
    BY <1>1, <2>1 DEF Held
<1>3. r.call \notin TimerCalls \cup LabelReads \cup {"readTypeName"}
  BY DEF TimerCalls, TimerStateCalls, LabelReads
<1>4. b.length \in Nat /\ b.length * Byte = 2 * b.length
  BY DEF Bodies, Byte
<1>5. CASE r.call \in {"readWords", "readWordsModuleBuf", "readWordsLinkDirect", "readMemoryWords",
                       "readExtendUnitWords"}
  <2> DEFINE enough == b.length = 2 * n
             size == 2 * Byte
  <2>1. o = Accept(enough, Values(Packed(0, n, size), <<>>))
    BY <1>5, DecodeIs DEF Words, UnitWords
  <2>2. Widths(r) = All(n, size)
    BY <1>5, WidthsIs
  <2>3. size \in Nat /\ enough \in BOOLEAN /\ (enough => n * size <= b.length * Byte)
    BY <1>1, <1>4 DEF Byte
  <2> HIDE DEF enough, size, o, n
  <2> QED
    BY <1>1, <1>2, <1>3, <2>1, <2>2, <2>3, LaidOne DEF o
<1>6. CASE r.call \in {"readDWords", "readFloat32s"}
  <2> DEFINE enough == b.length = 4 * n
             size == 4 * Byte
  <2>1. o = Accept(enough, Values(Packed(0, n, size), <<>>))
    BY <1>6, DecodeIs DEF DWords, Float32s
  <2>2. Widths(r) = All(n, size)
    BY <1>6, WidthsIs
  <2>3. size \in Nat /\ enough \in BOOLEAN /\ (enough => n * size <= b.length * Byte)
    BY <1>1, <1>4 DEF Byte
  <2> HIDE DEF enough, size, o, n
  <2> QED
    BY <1>1, <1>2, <1>3, <2>1, <2>2, <2>3, LaidOne DEF o
<1>7. CASE r.call \in {"readBits", "readBitsModuleBuf", "readBitsLinkDirect"}
  <2> DEFINE enough == b.length >= ByteCount(n)
             size == HalfByte
  <2>1. o = Accept(enough, Values(Packed(0, n, size), <<>>))
    BY <1>7, DecodeIs DEF Bits, ModuleOrLinkBits
  <2>2. Widths(r) = All(n, size)
    BY <1>7, WidthsIs
  <2>3. size \in Nat /\ enough \in BOOLEAN /\ (enough => n * size <= b.length * Byte)
    <3>1. n <= 2 * ByteCount(n) /\ ByteCount(n) \in Nat
      BY <1>1, HalvesOf
    <3>2. size = 1 /\ n * 1 = n
      BY <1>1 DEF HalfByte
    <3> QED
      BY <1>1, <1>4, <3>1, <3>2
  <2> HIDE DEF enough, size, o, n
  <2> QED
    BY <1>1, <1>2, <1>3, <2>1, <2>2, <2>3, LaidOne DEF o
<1>8. CASE r.call = "readExtendUnitBytes"
  <2> DEFINE enough == b.length = n
             size == Byte
  <2>1. o = Accept(enough, Values(Packed(0, n, size), <<>>))
    BY <1>8, DecodeIs DEF UnitBytes
  <2>2. Widths(r) = All(n, size)
    BY <1>8, WidthsIs
  <2>3. size \in Nat /\ enough \in BOOLEAN /\ (enough => n * size <= b.length * Byte)
    BY <1>1, <1>4 DEF Byte
  <2> HIDE DEF enough, size, o, n
  <2> QED
    BY <1>1, <1>2, <1>3, <2>1, <2>2, <2>3, LaidOne DEF o
<1> QED
  BY <1>5, <1>6, <1>7, <1>8

(* Reads into two arrays                                                    *)
LEMMA ArraysLaid ==
  ASSUME NEW s \in Settings, NEW r \in Requests, Sent(s, r), NEW b \in Bodies,
         r.call \in {"readRandom", "readRandomExt", "runMonitorCycle", "readBlock"}
  PROVE  LaidOut(s, r, b, DecodeOf(s, r, b))
<1> DEFINE o == DecodeOf(s, r, b)
           size == 2 * Byte
<1>1. r.call \notin TimerCalls \cup LabelReads \cup {"readTypeName"}
  BY DEF TimerCalls, TimerStateCalls, LabelReads
<1>2. b.length \in Nat /\ b.length * Byte = 2 * b.length
  BY DEF Bodies, Byte
<1>3. size = 4 /\ 4 * Byte = 8 /\ \A k \in Nat : k * 2 * Byte = k * size
  BY DEF Byte
<1>4. ASSUME NEW n \in Nat, NEW m \in Nat, Held(s, r, n, m),
             o = RandomExtOrMonitor(n, m, b) \/ o = Random(n, m, b),
             Widths(r) = All(n, 2 * Byte) \o All(m, 4 * Byte)
      PROVE  LaidOut(s, r, b, o)
  <2> DEFINE enough == b.length = 2 * n + 4 * m
             wide == 4 * Byte
  <2>1. o = Accept(enough, Values(Packed(0, n, size), Packed(n * size, m, wide)))
    BY <1>3, <1>4 DEF Random, RandomExtOrMonitor
  <2>2. wide \in Nat /\ size \in Nat /\ enough \in BOOLEAN
        /\ (enough => n * size + m * wide <= b.length * Byte)
    BY <1>2, <1>3
  <2>3. Wide(r, n, size, m, wide)
    BY <1>4, WideTwo
  <2> HIDE DEF enough, wide, size, o
  <2> QED
    BY <1>1, <1>4, <2>1, <2>2, <2>3, LaidTwo
<1>5. CASE r.call \in {"readRandom", "readRandomExt"}
  <2> DEFINE n == Len(r.words)
             m == Len(r.dwords)
  <2>1. n \in Nat /\ m \in Nat /\ r.wordCapacity \in Nat /\ r.dwordCapacity \in Nat
        /\ n <= r.wordCapacity /\ m <= r.dwordCapacity
    BY <1>5, CountsIs, RandomBegin DEF RandomCalls
  <2>2. Held(s, r, n, m)
    <3>1. Room(s, r) = <<r.wordCapacity, r.dwordCapacity>>
      BY <1>5, RoomIs
    <3> QED
      BY <2>1, <3>1 DEF Held
  <2>3. o = RandomExtOrMonitor(n, m, b) \/ o = Random(n, m, b)
    BY <1>5, DecodeIs
  <2>4. Widths(r) = All(n, 2 * Byte) \o All(m, 4 * Byte)
    BY <1>5, WidthsIs
  <2> HIDE DEF n, m, o
  <2> QED
    BY <1>4, <2>1, <2>2, <2>3, <2>4 DEF o
<1>6. CASE r.call = "runMonitorCycle"
  <2> DEFINE n == r.points
             m == r.dpoints
  <2>1. n \in Nat /\ m \in Nat
    BY <1>6, Cycle
  <2>2. Held(s, r, n, m)
    <3>1. Room(s, r) = <<n, m>>
      BY <1>6, RoomIs
    <3> QED
      BY <2>1, <3>1 DEF Held
  <2>3. o = RandomExtOrMonitor(n, m, b) \/ o = Random(n, m, b)
    BY <1>6, DecodeIs
  <2>4. Widths(r) = All(n, 2 * Byte) \o All(m, 4 * Byte)
    BY <1>6, WidthsIs
  <2> HIDE DEF n, m, o
  <2> QED
    BY <1>4, <2>1, <2>2, <2>3, <2>4 DEF o
<1>7. CASE r.call = "readBlock"
  <2> DEFINE n == TotalOf(r.wordBlocks)
             m == TotalOf(r.bitBlocks)
             enough == b.length = 2 * (n + m)
  <2>1. n \in Nat /\ m \in Nat /\ r.wordCapacity \in Nat /\ r.dwordCapacity \in Nat
        /\ n <= r.wordCapacity /\ m <= r.dwordCapacity
    BY <1>7, BlockRead, BlockBegin, TotalIs
  <2>2. Held(s, r, n, m)
    <3>1. Room(s, r) = <<r.wordCapacity, r.dwordCapacity>>
      BY <1>7, RoomIs
    <3> QED
      BY <2>1, <3>1 DEF Held
  <2>3. Widths(r) = All(n + m, size)
    BY <1>7, WidthsIs
  <2>4. Wide(r, n, size, m, size)
    <3> HIDE DEF n, m, size
    <3>1. Wide(r, n + m, size, 0, size)
      BY <2>1, <2>3, WideOne
    <3>2. (n + m) + 0 = n + m
      BY <2>1
    <3> QED
      BY <2>1, <3>1, <3>2 DEF Wide
  <2>5. o = Block(n, m, b)
    BY <1>7, DecodeIs
  <2> HIDE DEF n, m, o
  <2>6. o = Accept(enough, Values(Packed(0, n, size), Packed(n * size, m, size)))
    BY <1>3, <2>1, <2>5 DEF Block
  <2>7. size \in Nat /\ enough \in BOOLEAN /\ (enough => n * size + m * size <= b.length * Byte)
    BY <1>2, <1>3, <2>1
  <2> HIDE DEF enough, size
  <2> QED
    BY <1>1, <2>1, <2>2, <2>4, <2>6, <2>7, LaidTwo DEF o
<1> QED
  BY <1>5, <1>6, <1>7

(* Reads of long timers: the last word of each is a gap.                    *)
LEMMA TimersLaid ==
  ASSUME NEW s \in Settings, NEW r \in Requests, Sent(s, r), NEW b \in Bodies,
         r.call \in TimerCalls
  PROVE  LaidOut(s, r, b, DecodeOf(s, r, b))
<1> DEFINE n == r.points
           o == DecodeOf(s, r, b)
           cells == CellsFrom(0, n, 6 * Byte, TimerSpan)
           size == 6 * Byte
           gap == 2 * Byte
           enough == b.length >= 8 * n
<1>1. r \in [call : CountedCalls, points : Nat, capacity : Nat] /\ r.call \in CountedCalls
  BY Counted DEF CountedCalls
<1>2. n \in Nat /\ r.capacity \in Nat /\ s.rxCapacity \div TimerResultSize \in Nat
  BY <1>1, SettingIs DEF TimerResultSize
<1>3. Held(s, r, n, 0)
  <2>1. CASE r.call \in TimerStateCalls
    <3>1. Room(s, r) = <<s.rxCapacity \div TimerResultSize, 0>>
      BY <2>1, RoomIs
    <3>2. n <= s.rxCapacity \div TimerResultSize
      BY <1>1, <2>1, CountedBegin
    <3> QED
      BY <1>2, <3>1, <3>2 DEF Held
  <2>2. CASE r.call \in {"readLongTimer", "readLongRetentiveTimer"}
    <3>1. Room(s, r) = <<r.capacity, 0>>
      BY <2>2, RoomIs
    <3>2. n <= r.capacity
      BY <1>1, <2>2, CountedBegin
    <3> QED
      BY <1>2, <3>1, <3>2 DEF Held
  <2> QED
    BY <2>1, <2>2 DEF TimerCalls
<1>4. size = 12 /\ gap = 4 /\ TimerSpan = size + gap /\ Gap(r) = gap
  BY DEF Byte, TimerSpan, Gap
<1>5. o = Accept(enough, Values(cells, <<>>))
  BY DecodeIs DEF LongTimer
<1>6. Wide(r, n, size, 0, 0)
  BY <1>2, WidthsIs, WideOne
<1>7. b.length \in Nat /\ b.length * Byte = 2 * b.length
  BY DEF Bodies, Byte
<1> HIDE DEF n, o, size, gap
<1>8. Lays(o, b, 0, n, size, gap, 0, 0)
  <2>1. CASE enough
    <3>1. o.error = "Ok" /\ o.first = CellsFrom(0, n, size, size + gap) /\ o.second = <<>>
      BY <1>4, <1>5, <2>1 DEF Accept, Values, Outcome, size
    <3>2. 0 + n * (size + gap) = n * 16 /\ n * 16 \in Nat
      BY <1>2, <1>4
    <3>3. CellsFrom(0 + n * (size + gap), 0, 0, 0) = <<>>
      BY <3>2, NoCells
    <3>4. (0 + n * (size + gap)) + 0 * 0 <= b.length * Byte
      BY <1>2, <1>7, <2>1, <3>2
    <3> QED
      BY <3>1, <3>3, <3>4 DEF Lays
  <2>2. CASE ~enough
    <3>1. o = Failed("ProtocolError")
      BY <1>5, <2>2 DEF Accept
    <3> QED
      BY <3>1, FailedLays
  <2> QED
    BY <2>1, <2>2
<1>9. size \in Nat /\ gap \in Nat /\ 0 \in Nat /\ size + gap = TimerSpan
  BY <1>4
<1> HIDE DEF enough
<1> QED
  BY <1>2, <1>3, <1>4, <1>6, <1>8, <1>9 DEF LaidOut, o

(* The type name: as many of its characters as there are, and the code if    *)
(* it is there.                                                             *)
LEMMA NameLaid ==
  ASSUME NEW s, NEW r, NEW b \in Bodies, r.call = "readTypeName"
  PROVE  LaidOut(s, r, b, DecodeOf(s, r, b))
<1> DEFINE o == DecodeOf(s, r, b)
           model == IF b.length < 16 THEN b.length ELSE 16
           cells == Packed(0, model, Byte)
           code == IF b.length >= 18 THEN <<Cell(16 * Byte, 2 * Byte)>> ELSE <<>>
           m == IF b.length >= 18 THEN 1 ELSE 0
<1>1. b.length \in Nat /\ b.length * Byte = 2 * b.length
  BY DEF Bodies, Byte
<1>2. o.error = "Ok" /\ o.first = cells /\ o.second = code
  BY DecodeIs DEF TypeName, Values, Outcome
<1>3. model \in Nat /\ m \in Nat /\ model <= 16 /\ m <= 1
  BY <1>1
<1>4. cells = CellsFrom(0, model, 2, 2 + 0)
  BY DEF Packed, Byte
<1>5. 0 + model * (2 + 0) = 2 * model /\ 2 * model \in Nat
  BY <1>3
<1>6. code = CellsFrom(2 * model, m, 4, 4)
  <2>1. CASE b.length >= 18
    <3>1. model = 16 /\ m = 1 /\ 2 * model = 32
      BY <1>1, <2>1
    <3>2. code = <<Cell(32, 4)>>
      BY <2>1 DEF Byte
    <3>3. CellsFrom(32, 1, 4, 4) = <<Cell(32, 4)>>
      <4>1. \A k \in 1 .. 1 : 32 + (k - 1) * 4 = 32
        OBVIOUS
      <4>2. CellsFrom(32, 1, 4, 4) = [k \in 1 .. 1 |-> Cell(32, 4)]
        BY <4>1 DEF CellsFrom
      <4> QED
        BY <4>2
    <3> QED
      BY <3>1, <3>2, <3>3
  <2>2. CASE ~(b.length >= 18)
    <3>1. code = <<>> /\ m = 0
      BY <2>2
    <3> QED
      BY <1>5, <3>1, NoCells
  <2> QED
    BY <2>1, <2>2
<1>7. 2 * model + m * 4 <= b.length * Byte
  BY <1>1
<1> HIDE DEF o, model, cells, code, m
<1>8. Lays(o, b, 0, model, 2, 0, m, 4)
  BY <1>2, <1>4, <1>5, <1>6, <1>7 DEF Lays
<1>9. Held(s, r, model, m)
  <2>1. Room(s, r) = <<16, 1>>
    BY RoomIs
  <2> QED
    BY <1>3, <2>1 DEF Held
<1>10. Gap(r) = 0 /\ r.call \notin TimerCalls /\ 0 \in Nat /\ 2 \in Nat /\ 4 \in Nat
  BY DEF Gap, TimerCalls, TimerStateCalls, LabelReads
<1> QED
  BY <1>3, <1>8, <1>9, <1>10 DEF LaidOut, o

(* A self test: the data behind its length                                  *)
LEMMA TestLaid ==
  ASSUME NEW s \in Settings, NEW r \in Requests, Sent(s, r), NEW b \in Bodies,
         r.call = "selfTestLoopback"
  PROVE  LaidOut(s, r, b, DecodeOf(s, r, b))
<1> DEFINE o == DecodeOf(s, r, b)
           n == r.points
           cells == Packed(2 * Byte, b.count, Byte)
<1>1. n \in Nat /\ r.capacity \in Nat /\ n <= r.capacity
  BY Sized, SizedBegin
<1>2. b.length \in Nat /\ b.count \in Nat /\ b.length * Byte = 2 * b.length
  BY DEF Bodies, Byte
<1>3. o = SelfTest(n, r.capacity, b)
  BY DecodeIs
<1>4. \/ o = Outcome("Ok", cells, <<>>, b.count) /\ b.length = 2 + b.count /\ b.count = n
      \/ \E e : o = Failed(e) /\ e # "Ok"
  <2> HIDE DEF o, n, cells
  <2> QED
    BY <1>3 DEF SelfTest, cells
<1>5. ASSUME o = Outcome("Ok", cells, <<>>, b.count) /\ b.length = 2 + b.count /\ b.count = n
      PROVE  Lays(o, b, 4, n, 2, 0, 0, 0)
  <2>1. o.error = "Ok" /\ o.first = cells /\ o.second = <<>>
    BY <1>5 DEF Outcome
  <2>2. cells = CellsFrom(4, n, 2, 2 + 0)
    BY <1>5 DEF Packed, Byte
  <2>3. 4 + n * (2 + 0) = 4 + 2 * n /\ 4 + 2 * n \in Nat
    BY <1>1
  <2>4. CellsFrom(4 + n * (2 + 0), 0, 0, 0) = <<>>
    BY <2>3, NoCells
  <2>5. (4 + n * (2 + 0)) + 0 * 0 <= b.length * Byte
    BY <1>1, <1>2, <1>5, <2>3
  <2> HIDE DEF o, n, cells
  <2> QED
    BY <2>1, <2>2, <2>4, <2>5 DEF Lays
<1>6. Lays(o, b, 4, n, 2, 0, 0, 0)
  <2> HIDE DEF o, n, cells
  <2> QED
    BY <1>4, <1>5, FailedLays
<1>7. Held(s, r, n, 0)
  <2>1. Room(s, r) = <<r.capacity, 0>>
    BY RoomIs
  <2> QED
    BY <1>1, <2>1 DEF Held
<1>8. Gap(r) = 0 /\ r.call \notin TimerCalls /\ 0 \in Nat /\ 2 \in Nat /\ 4 \in Nat
  BY DEF Gap, TimerCalls, TimerStateCalls, LabelReads
<1>9. Wide(r, n, 2, 0, 0)
  BY <1>1, WidthsIs, WideOne DEF Byte
<1> HIDE DEF n, o
<1> QED
  BY <1>1, <1>6, <1>7, <1>8, <1>9 DEF LaidOut, o

(* The operation state: one word                                            *)
LEMMA StateLaid ==
  ASSUME NEW s \in Settings, NEW r, NEW b \in Bodies, r.call = "readCpuOperationState"
  PROVE  LaidOut(s, r, b, DecodeOf(s, r, b))
<1> DEFINE o == DecodeOf(s, r, b)
           enough == b.length = 2
           one == 1
           size == 2 * Byte
<1>1. o = Accept(enough, Values(Packed(0, one, size), <<>>))
  BY DecodeIs DEF Words
<1>2. Widths(r) = All(one, size)
  BY WidthsIs
<1>3. one \in Nat /\ size \in Nat /\ enough \in BOOLEAN /\ (enough => one * size <= b.length * Byte)
  BY DEF Bodies, Byte
<1>4. Held(s, r, one, 0)
  BY RoomIs DEF Held
<1>5. r.call \notin TimerCalls \cup LabelReads \cup {"readTypeName"}
  BY DEF TimerCalls, TimerStateCalls, LabelReads
<1> HIDE DEF o, enough, one, size
<1> QED
  BY <1>1, <1>2, <1>3, <1>4, <1>5, LaidOne DEF o

(* Everything else is answered without data.                                *)
LEMMA NothingLaid ==
  ASSUME NEW s \in Settings, NEW r \in Requests, NEW b \in Bodies,
         r.call \notin {"readTypeName", "readCpuOperationState", "readWords", "readWordsModuleBuf",
                        "readWordsLinkDirect", "readMemoryWords", "readDWords", "readFloat32s",
                        "readBits", "readBitsModuleBuf", "readBitsLinkDirect", "readExtendUnitBytes",
                        "readExtendUnitWords", "readArrayLabels", "readRandomLabels", "readRandom",
                        "readRandomExt", "runMonitorCycle", "readBlock", "selfTestLoopback"},
         r.call \notin TimerCalls
  PROVE  LaidOut(s, r, b, DecodeOf(s, r, b))
<1> DEFINE o == DecodeOf(s, r, b)
           enough == b.length = 0
           none == 0
<1>1. Packed(0, none, none) = <<>>
  BY NoCells DEF Packed
<1>2. o = Accept(enough, Values(Packed(0, none, none), <<>>))
  BY <1>1, DecodeIs DEF Nothing
<1>3. Widths(r) = All(none, none)
  <2>1. Widths(r) = <<>>
    BY WidthsIs
  <2> QED
    BY <2>1 DEF All
<1>4. none \in Nat /\ enough \in BOOLEAN /\ (enough => none * none <= b.length * Byte)
  BY DEF Bodies, Byte
<1>5. r.call \notin TimerCalls \cup LabelReads \cup {"readTypeName"}
  BY DEF LabelReads
<1>6. Held(s, r, none, 0)
  <2>1. r.call \notin TimerStateCalls \cup LabelReads /\ r.call \notin {"readLongTimer", "readLongRetentiveTimer"}
    BY <1>5 DEF TimerCalls, LabelReads
  <2>2. Room(s, r) = <<0, 0>>
    BY <2>1, RoomIs
  <2> QED
    BY <2>2 DEF Held
<1> HIDE DEF o, enough, none
<1> QED
  BY <1>2, <1>3, <1>4, <1>5, <1>6, LaidOne DEF o

LEMMA Decodes ==
  ASSUME NEW s \in Settings, NEW r \in Requests, Sent(s, r), NEW b \in Bodies,
         r.call \notin LabelReads
  PROVE  LaidOut(s, r, b, DecodeOf(s, r, b))
BY ArrayLaid, ArraysLaid, TimersLaid, NameLaid, TestLaid, StateLaid, NothingLaid DEF LabelReads

(* Strides up to the last one                                               *)
LEMMA Strides ==
  ASSUME NEW n \in Nat, NEW x \in Nat, NEW k \in 1 .. n
  PROVE  (k - 1) * x \in Nat /\ (k - 1) * x + x <= n * x /\ (k + 1 - 1) * x = (k - 1) * x + x
<1> DEFINE j == k - 1
           l == n - k
<1>1. j \in Nat /\ l \in Nat /\ n = (j + 1) + l /\ k = j + 1
  OBVIOUS
<1> HIDE DEF j, l
<1>2. j * x \in Nat /\ l * x \in Nat /\ n * x = (j * x + x) + l * x
  BY <1>1
<1>3. k - 1 = j /\ k + 1 - 1 = j + 1 /\ (j + 1) * x = j * x + x
  BY <1>1
<1> QED
  BY <1>2, <1>3

Inside(cells, b) ==
    \A k \in DOMAIN cells :
        cells[k].at >= 0 /\ cells[k].size >= 0 /\ Ends(cells[k]) <= b.length * Byte

LEMMA CellsInside ==
  ASSUME NEW b \in Bodies, NEW start \in Nat, NEW n \in Nat, NEW size \in Nat, NEW stride \in Nat,
         size <= stride, start + n * stride <= b.length * Byte
  PROVE  Inside(CellsFrom(start, n, size, stride), b)
<1> DEFINE cells == CellsFrom(start, n, size, stride)
<1>1. DOMAIN cells = 1 .. n
      /\ \A k \in 1 .. n : cells[k].size = size /\ cells[k].at = start + (k - 1) * stride
  BY CellsAre
<1> HIDE DEF cells
<1>2. ASSUME NEW k \in 1 .. n
      PROVE  cells[k].at >= 0 /\ cells[k].size >= 0 /\ Ends(cells[k]) <= b.length * Byte
  <2> DEFINE off == (k - 1) * stride
             all == n * stride
             len == b.length * Byte
  <2>1. off \in Nat /\ off + stride <= all /\ all \in Nat /\ len \in Nat
    BY Strides DEF Bodies, Byte
  <2>2. cells[k].size = size /\ cells[k].at = start + off /\ start + all <= len
    BY <1>1
  <2> HIDE DEF off, all, len
  <2>3. start + off >= 0 /\ size >= 0 /\ (start + off) + size <= len
    BY <2>1, <2>2
  <2> USE DEF len
  <2> QED
    BY <2>2, <2>3 DEF Ends
<1> QED
  BY <1>1, <1>2 DEF Inside, cells

LEMMA EmptyInside ==
  ASSUME NEW b
  PROVE  Inside(<<>>, b) /\ Len(<<>>) = 0
BY DEF Inside

LEMMA LaidWithin ==
  ASSUME NEW s, NEW r, NEW b \in Bodies, NEW o, LaidOut(s, r, b, o)
  PROVE  /\ Len(o.first) <= Room(s, r)[1] /\ Len(o.second) <= Room(s, r)[2]
         /\ Inside(o.first, b) /\ Inside(o.second, b)
         /\ o.error # "Ok" => o.first = <<>> /\ o.second = <<>> /\ o.count = NotReported
<1>1. PICK start, n, size, gap, m, wide \in Nat :
         Lays(o, b, start, n, size, gap, m, wide) /\ Held(s, r, n, m)
  BY SMTT(30) DEF LaidOut
<1> DEFINE stride == size + gap
           behind == start + n * stride
<1>2. stride \in Nat /\ size <= stride /\ n * stride \in Nat /\ m * wide \in Nat
      /\ b.length * Byte \in Nat
  BY DEF Bodies, Byte
<1>3. CASE o.error = "Ok"
  <2>1. /\ o.first = CellsFrom(start, n, size, stride)
        /\ o.second = CellsFrom(behind, m, wide, wide)
        /\ behind + m * wide <= b.length * Byte
    BY <1>1, <1>3 DEF Lays
  <2>2. behind \in Nat /\ behind <= b.length * Byte /\ wide <= wide
    BY <1>2, <2>1
  <2> HIDE DEF behind
  <2>6. Len(o.second) = m
    BY <2>1, <2>2, CellsAre
  <2>3. Inside(o.second, b) /\ Len(o.second) = m
    BY <2>1, <2>2, <2>6, CellsInside
  <2> USE DEF behind
  <2>4. start + n * stride <= b.length * Byte
    BY <2>2
  <2> HIDE DEF behind, stride
  <2>5. Inside(o.first, b) /\ Len(o.first) = n
    BY <1>2, <2>1, <2>4, CellsInside, CellsAre
  <2> QED
    BY <1>1, <1>3, <2>3, <2>5 DEF Held
<1>4. CASE o.error # "Ok"
  <2>1. o.first = <<>> /\ o.second = <<>> /\ o.count = NotReported
    BY <1>1, <1>4 DEF Lays
  <2> QED
    BY <1>1, <1>4, <2>1, EmptyInside DEF Held
<1> QED
  BY <1>3, <1>4

(* The cells of both arrays, one behind the other                           *)
Follow(start, n, size, gap, stride, behind) ==
    stride = size + gap /\ behind = start + n * stride

Tiling(cells, n, size, gap, m, wide) ==
    /\ Len(cells) = n + m /\ DOMAIN cells = 1 .. n + m
    /\ \A k \in 1 .. n + m : cells[k].size = IF k <= n THEN size ELSE wide
    /\ \A k \in 1 .. n + m - 1 : cells[k + 1].at = Ends(cells[k]) + gap

Joint(first, second, cells) == cells = first \o second

LEMMA CellsJoined ==
  ASSUME NEW start \in Nat, NEW n \in Nat, NEW size \in Nat, NEW gap \in Nat, NEW m \in Nat,
         NEW wide \in Nat, gap = 0 \/ m = 0, NEW stride \in Nat,
         NEW behind \in Nat, Follow(start, n, size, gap, stride, behind),
         NEW first, first = CellsFrom(start, n, size, stride),
         NEW second, second = CellsFrom(behind, m, wide, wide),
         NEW cells, Joint(first, second, cells)
  PROVE  Tiling(cells, n, size, gap, m, wide)
<1> DEFINE W == [at : Nat, size : Nat]
<1>1. n * stride \in Nat
  OBVIOUS
<1>2. /\ Len(first) = n /\ DOMAIN first = 1 .. n
      /\ \A k \in 1 .. n : first[k].size = size /\ first[k].at = start + (k - 1) * stride
  BY <1>1, CellsAre
<1>3. /\ Len(second) = m /\ DOMAIN second = 1 .. m
      /\ \A k \in 1 .. m : second[k].size = wide /\ second[k].at = behind + (k - 1) * wide
  BY <1>1, CellsAre
<1>4. first \in Seq(W) /\ second \in Seq(W)
  <2>1. \A k \in 1 .. n : Cell(start + (k - 1) * stride, size) \in W
    <3> TAKE k \in 1 .. n
    <3>1. (k - 1) * stride \in Nat
      BY <1>1, Strides
    <3>2. start + (k - 1) * stride \in Nat
      BY <3>1
    <3> QED
      BY <3>2 DEF Cell
  <2>2. \A k \in 1 .. m : Cell(behind + (k - 1) * wide, wide) \in W
    <3> TAKE k \in 1 .. m
    <3>1. (k - 1) * wide \in Nat
      BY Strides
    <3>2. behind + (k - 1) * wide \in Nat
      BY <1>1, <3>1
    <3> QED
      BY <3>2 DEF Cell
  <2> HIDE DEF W
  <2>3. first \in [1 .. n -> W]
    BY <2>1 DEF CellsFrom
  <2>4. second \in [1 .. m -> W]
    BY <2>2 DEF CellsFrom
  <2> QED
    BY <2>3, <2>4
<1> HIDE DEF W
<1>5. /\ Len(first \o second) = Len(first) + Len(second)
      /\ first \o second \in Seq(W)
      /\ \A i \in 1 .. Len(first) + Len(second) :
            (first \o second)[i] = IF i <= Len(first) THEN first[i] ELSE second[i - Len(first)]
  BY <1>4, ConcatProperties
<1>6. /\ Len(cells) = n + m /\ DOMAIN cells = 1 .. n + m
      /\ \A i \in 1 .. n + m : cells[i] = IF i <= n THEN first[i] ELSE second[i - n]
  BY <1>2, <1>3, <1>5, LenProperties DEF Joint
<1>7. ASSUME NEW k \in 1 .. n + m PROVE cells[k].size = IF k <= n THEN size ELSE wide
  <2>1. CASE k <= n
    <3>1. k \in 1 .. n /\ cells[k] = first[k]
      BY <1>6, <2>1
    <3> QED
      BY <1>2, <2>1, <3>1
  <2>2. CASE ~(k <= n)
    <3>1. k - n \in 1 .. m /\ cells[k] = second[k - n]
      BY <1>6, <2>2
    <3> QED
      BY <1>3, <2>2, <3>1
  <2> QED
    BY <2>1, <2>2
<1>8. ASSUME NEW k \in 1 .. n + m - 1 PROVE cells[k + 1].at = Ends(cells[k]) + gap
  <2>0. k \in 1 .. n + m /\ k + 1 \in 1 .. n + m
    OBVIOUS
  <2>1. CASE k + 1 <= n
    <3>1. k \in 1 .. n /\ k + 1 \in 1 .. n /\ cells[k] = first[k] /\ cells[k + 1] = first[k + 1]
      BY <1>6, <2>0, <2>1
    <3> DEFINE a == (k - 1) * stride
    <3>2. a \in Nat /\ (k + 1 - 1) * stride = a + stride
      BY <1>1, <3>1, Strides
    <3>5. \A j \in 1 .. n : first[j].at = start + (j - 1) * stride
      BY <1>2
    <3>3. cells[k].at = start + a /\ cells[k].size = size /\ cells[k + 1].at = start + (k + 1 - 1) * stride
      BY <1>2, <3>1, <3>5
    <3> HIDE DEF a
    <3>4. start + (a + stride) = (start + a) + size + gap
      BY <3>2 DEF Follow
    <3> QED
      BY <3>2, <3>3, <3>4 DEF Ends
  <2>2. CASE k = n
    <3>1. k \in 1 .. n /\ 1 \in 1 .. m /\ cells[k] = first[k] /\ cells[k + 1] = second[1] /\ m # 0
      BY <1>6, <2>0, <2>2
    <3> DEFINE a == (k - 1) * stride
    <3>2. a \in Nat /\ (k + 1 - 1) * stride = a + stride
      BY <1>1, <3>1, Strides
    <3>3. cells[k].at = start + a /\ cells[k].size = size
      BY <1>2, <3>1
    <3>4. cells[k + 1].at = behind + (1 - 1) * wide /\ (1 - 1) * wide = 0
      BY <1>3, <3>1
    <3>5. behind = start + (a + stride)
      BY <2>2, <3>2 DEF Follow
    <3> HIDE DEF a
    <3>6. start + (a + stride) = (start + a) + size + gap
      BY <3>2 DEF Follow
    <3>7. cells[k + 1].at = behind
      BY <3>4
    <3> QED
      BY <3>3, <3>5, <3>6, <3>7 DEF Ends
  <2>3. CASE k > n
    <3> DEFINE i == k - n
    <3>1. i \in 1 .. m /\ i + 1 \in 1 .. m /\ cells[k] = second[i] /\ cells[k + 1] = second[i + 1]
      BY <1>6, <2>0, <2>3
    <3> HIDE DEF i
    <3> DEFINE a == (i - 1) * wide
    <3>2. a \in Nat /\ (i + 1 - 1) * wide = a + wide
      BY <3>1, Strides
    <3>3. cells[k].at = behind + a /\ cells[k].size = wide
          /\ cells[k + 1].at = behind + (i + 1 - 1) * wide
      BY <1>3, <3>1, SMTT(30)
    <3>4. gap = 0
      BY <3>1
    <3> HIDE DEF a
    <3>5. behind + (a + wide) = (behind + a) + wide + gap
      BY <1>1, <3>2, <3>4
    <3> QED
      BY <3>2, <3>3, <3>5 DEF Ends
  <2> QED
    BY <2>1, <2>2, <2>3
<1> QED
  BY <1>6, <1>7, <1>8 DEF Tiling

Tiles(r, o) ==
    LET cells == o.first \o o.second IN
    /\ r.call \notin LabelReads => [k \in DOMAIN cells |-> cells[k].size] = Widths(r)
    /\ \A k \in 1 .. Len(cells) - 1 : cells[k + 1].at = Ends(cells[k]) + Gap(r)

LEMMA LaidTiles ==
  ASSUME NEW s, NEW r, r.call # "readTypeName", NEW b, NEW o, LaidOut(s, r, b, o), o.error = "Ok"
  PROVE  Tiles(r, o)
<1>1. PICK start, n, size, gap, m, wide \in Nat :
         /\ Lays(o, b, start, n, size, gap, m, wide) /\ (gap = 0 \/ m = 0) /\ gap = Gap(r)
         /\ Wide(r, n, size, m, wide)
  BY SMTT(30) DEF LaidOut
<1> DEFINE cells == o.first \o o.second
<1> DEFINE first == o.first
           second == o.second
           stride == size + gap
           behind == start + n * stride
<1>2. /\ first = CellsFrom(start, n, size, stride)
      /\ second = CellsFrom(behind, m, wide, wide)
      /\ gap = 0 \/ m = 0
      /\ Follow(start, n, size, gap, stride, behind) /\ stride \in Nat /\ behind \in Nat
      /\ Joint(first, second, cells)
  BY <1>1 DEF Lays, Follow, Joint
<1> HIDE DEF first, second, stride, behind, cells
<1>3. /\ Len(cells) = n + m /\ DOMAIN cells = 1 .. n + m
      /\ \A k \in 1 .. n + m : cells[k].size = IF k <= n THEN size ELSE wide
      /\ \A k \in 1 .. n + m - 1 : cells[k + 1].at = Ends(cells[k]) + gap
  <2>1. Tiling(cells, n, size, gap, m, wide)
    BY <1>2, CellsJoined
  <2> QED
    BY <2>1 DEF Tiling
<1> USE DEF cells
<1>4. [k \in DOMAIN cells |-> cells[k].size] = Widths(r)
  <2> HIDE DEF cells
  <2> QED
    BY <1>1, <1>3 DEF Wide
<1>6. \A k \in 1 .. Len(cells) - 1 : cells[k + 1].at = Ends(cells[k]) + Gap(r)
  <2> HIDE DEF cells
  <2> QED
    BY <1>1, <1>3
<1> QED
  BY <1>4, <1>6 DEF Tiles

(* The results trail the values they are stored over.                       *)
LEMMA LaidTrails ==
  ASSUME NEW s \in Settings, NEW r, r.call \in TimerCalls, NEW b, NEW o, LaidOut(s, r, b, o)
  PROVE  \A k \in DOMAIN o.first, later \in DOMAIN o.first :
            k < later => k * TimerResultSize * Byte
                            <= (PrefixSize(s) + 2) * Byte + o.first[later].at
<1>1. PICK n, size, gap, m, wide \in Nat :
         Lays(o, b, 0, n, size, gap, m, wide) /\ size + gap = TimerSpan
  BY DEF LaidOut
<1>2. CASE o.error = "Ok"
  <2> DEFINE stride == size + gap
  <2>1. o.first = CellsFrom(0, n, size, stride) /\ stride = 16
    BY <1>1, <1>2 DEF Lays, TimerSpan, Byte
  <2> HIDE DEF stride
  <2>4. o.first = [k \in 1 .. n |-> Cell(0 + (k - 1) * 16, size)]
    BY <2>1 DEF CellsFrom
  <2>2. DOMAIN o.first = 1 .. n /\ \A k \in 1 .. n : o.first[k].at = (k - 1) * 16
    BY <2>4 DEF Cell
  <2>3. PrefixSize(s) \in {9, 13}
    BY SettingIs
  <2> QED
    BY <2>2, <2>3, SMTT(30) DEF TimerResultSize, Byte
<1>3. CASE o.error # "Ok"
  BY <1>1, <1>3 DEF Lays
<1> QED
  BY <1>2, <1>3

-----------------------------------------------------------------------------
(* The decoder of labels *)

LabelCell == [at : Nat, size : Nat]
Progress == [error : {"Ok", "ProtocolError"}, offset : Nat, cells : Seq(LabelCell)]
NoLabel == [error |-> "Ok", offset |-> 2, cells |-> <<>>]

(* One more label *)
NextLabel(b, sizes, n, v) ==
    LET data == v.offset + 4
        end == data + (IF n <= Len(sizes) THEN sizes[n] ELSE 0)
    IN IF v.error # "Ok" THEN v
       ELSE IF data > b.length THEN [v EXCEPT !.error = "ProtocolError"]
       ELSE IF end > b.length
       THEN [v EXCEPT !.error = "ProtocolError",
                      !.cells = Append(@, Cell(v.offset * Byte, 0))]
       ELSE [error |-> "Ok", offset |-> end,
             cells |-> Append(v.cells, Cell(data * Byte, (end - data) * Byte))]

SizeAt(sizes, n) == IF n <= Len(sizes) THEN sizes[n] ELSE 0

LEMMA SizeIs ==
  ASSUME NEW sizes \in Seq(Nat), NEW n \in Nat, n # 0
  PROVE  SizeAt(sizes, n) \in Nat
<1>1. Len(sizes) \in Nat
  BY LenProperties
<1>2. n <= Len(sizes) => sizes[n] \in Nat
  BY <1>1, ElementOfSeq
<1> QED
  BY <1>2 DEF SizeAt

(* What one more label comes to                                             *)
LEMMA NextIs ==
  ASSUME NEW b \in Bodies, NEW sizes \in Seq(Nat), NEW n \in Nat, n # 0, NEW v \in Progress,
         NEW w, w = NextLabel(b, sizes, n, v), NEW data, data = v.offset + 4,
         NEW end, end = data + SizeAt(sizes, n)
  PROVE  \/ v.error # "Ok" /\ w = v
         \/ v.error = "Ok" /\ data > b.length /\ w.error = "ProtocolError" /\ w.cells = v.cells
            /\ w.offset = v.offset
         \/ /\ v.error = "Ok" /\ data <= b.length /\ end > b.length /\ w.error = "ProtocolError"
            /\ w.cells = Append(v.cells, Cell(v.offset * Byte, 0)) /\ w.offset = v.offset
         \/ /\ v.error = "Ok" /\ end <= b.length /\ w.error = "Ok" /\ w.offset = end
            /\ w.cells = Append(v.cells, Cell(data * Byte, (end - data) * Byte))
<1>1. data \in Nat /\ end \in Nat /\ b.length \in Nat /\ data <= end
  BY SizeIs, SMTT(30) DEF Progress, Bodies
<1> QED
  BY <1>1 DEF NextLabel, SizeAt, Progress

LEMMA NextTyped ==
  ASSUME NEW b \in Bodies, NEW sizes \in Seq(Nat), NEW n \in Nat, n # 0, NEW v \in Progress
  PROVE  NextLabel(b, sizes, n, v) \in Progress
<1> DEFINE data == v.offset + 4
           end == data + SizeAt(sizes, n)
           header == Cell(v.offset * Byte, 0)
           cell == Cell(data * Byte, (end - data) * Byte)
           w == NextLabel(b, sizes, n, v)
<1>1. v.offset \in Nat /\ SizeAt(sizes, n) \in Nat /\ v.cells \in Seq(LabelCell)
  BY SizeIs DEF Progress
<1>2. data \in Nat /\ end \in Nat /\ end - data \in Nat
  BY <1>1
<1>3. header \in LabelCell /\ cell \in LabelCell
  <2> HIDE DEF data, end
  <2>1. v.offset * Byte \in Nat /\ data * Byte \in Nat /\ (end - data) * Byte \in Nat
    BY <1>1, <1>2 DEF Byte
  <2> QED
    BY <2>1 DEF Cell, LabelCell
<1> HIDE DEF header, cell
<1>4. Append(v.cells, header) \in Seq(LabelCell) /\ Append(v.cells, cell) \in Seq(LabelCell)
  BY <1>1, <1>3, AppendProperties
<1>5. w \in {v, [v EXCEPT !.error = "ProtocolError"],
             [v EXCEPT !.error = "ProtocolError", !.cells = Append(@, header)],
             [error |-> "Ok", offset |-> end, cells |-> Append(v.cells, cell)]}
  BY DEF NextLabel, SizeAt, header, cell
<1> HIDE DEF w, end
<1>6. \A x \in Seq(LabelCell) : [v EXCEPT !.error = "ProtocolError", !.cells = x] \in Progress
                               /\ [v EXCEPT !.error = "ProtocolError"] \in Progress
                               /\ [error |-> "Ok", offset |-> end, cells |-> x] \in Progress
  BY <1>1, <1>2 DEF Progress
<1>7. w \in Progress
  BY <1>1, <1>4, <1>5, <1>6
<1> QED
  BY <1>7 DEF w

(* The labels are decoded one after the other.                              *)
LEMMA LabelsRun ==
  ASSUME NEW b \in Bodies, NEW sizes \in Seq(Nat), NEW k, k = b.count, NEW capacity
  PROVE  \E f \in [0 .. k -> Progress] :
            /\ f[0] = NoLabel /\ \A n \in 1 .. k : f[n] = NextLabel(b, sizes, n, f[n - 1])
            /\ LabelsWithin(capacity, b, sizes) =
                  IF b.length < 2 THEN Failed("ProtocolError")
                  ELSE IF k > capacity THEN Failed("BufferTooSmall")
                  ELSE Outcome(f[k].error, f[k].cells, <<>>,
                               IF f[k].error = "Ok" THEN k ELSE NotReported)
<1> DEFINE step == [n \in 1 .. k |-> [v \in Progress |-> NextLabel(b, sizes, n, v)]]
           body_(g, n) == IF n = 0 THEN NoLabel ELSE NextLabel(b, sizes, n, g[n - 1])
           upTo == CHOOSE g : g = [n \in 0 .. k |-> body_(g, n)]
<1>1. k \in Nat
  BY DEF Bodies
<1>2. LabelsWithin(capacity, b, sizes) =
         IF b.length < 2 THEN Failed("ProtocolError")
         ELSE IF k > capacity THEN Failed("BufferTooSmall")
         ELSE Outcome(upTo[k].error, upTo[k].cells, <<>>,
                      IF upTo[k].error = "Ok" THEN k ELSE NotReported)
  BY DEF LabelsWithin, NextLabel, NoLabel
<1>3. \A n \in 1 .. k, v \in Progress : NextLabel(b, sizes, n, v) \in Progress
  BY <1>1, NextTyped
<1>4. step \in Steps(k, Progress)
  BY <1>3 DEF Steps
<1>5. \A n \in 1 .. k, v \in Progress : step[n][v] = NextLabel(b, sizes, n, v)
  OBVIOUS
<1>6. NoLabel \in Progress
  BY DEF NoLabel, Progress
<1> HIDE DEF step
<1>7. PICK f \in [0 .. k -> Progress] : Unfolds(f, k, NoLabel, step)
  BY <1>1, <1>4, <1>6, FiniteRecursion
<1>8. f[0] = NoLabel
  BY <1>1, <1>7 DEF Unfolds
<1>9. ASSUME NEW n \in 1 .. k PROVE f[n] = NextLabel(b, sizes, n, f[n - 1])
  <2>0. n \in 0 .. k /\ n # 0 /\ n - 1 \in 0 .. k
    BY <1>1
  <2>1. n \in 0 .. k /\ n # 0 /\ f[n - 1] \in Progress
    BY <2>0
  <2>2. f[n] = step[n][f[n - 1]]
    BY <1>7, <2>1 DEF Unfolds
  <2> QED
    BY <1>5, <2>1, <2>2
<1>10. f = [n \in 0 .. k |-> body_(f, n)]
  <2> DEFINE F(n) == body_(f, n)
  <2>1. \A n \in 0 .. k : f[n] = F(n)
    BY <1>1, <1>8, <1>9
  <2> HIDE DEF F
  <2>2. f = [n \in 0 .. k |-> F(n)]
    BY <2>1
  <2> QED
    BY <2>2 DEF F
<1>11. upTo = [n \in 0 .. k |-> body_(upTo, n)]
  BY <1>10
<1> HIDE DEF upTo
<1>12. \A n \in 0 .. k : upTo[n] = body_(upTo, n)
  <2> DEFINE F(n) == body_(upTo, n)
  <2>1. upTo = [n \in 0 .. k |-> F(n)]
    BY <1>11
  <2> HIDE DEF F
  <2>2. \A n \in 0 .. k : upTo[n] = F(n)
    BY <2>1
  <2> QED
    BY <2>2 DEF F
<1> DEFINE S == {n \in 0 .. k : upTo[n] = f[n]}
<1>13. 0 \in S
  BY <1>1, <1>8, <1>12
<1>14. ASSUME NEW n \in 1 .. k, n - 1 \in S PROVE n \in S
  <2>1. upTo[n - 1] = f[n - 1] /\ n \in 0 .. k /\ n # 0
    BY <1>1, <1>14
  <2> QED
    BY <1>9, <1>12, <2>1
<1> HIDE DEF S
<1>15. \A n \in 0 .. k : n \in S
  BY <1>1, <1>13, <1>14, FiniteInduction
<1>16. upTo[k] = f[k]
  BY <1>1, <1>15 DEF S
<1> QED
  BY <1>2, <1>8, <1>9, <1>16

(* The labels decoded so far: inside the body, each four bytes behind the    *)
(* one before, and the offset behind the last.                              *)
Chained(cells, offset) ==
    /\ \A k \in 1 .. Len(cells) - 1 : cells[k + 1].at = Ends(cells[k]) + 4 * Byte
    /\ Len(cells) # 0 => Ends(cells[Len(cells)]) = offset * Byte

Reached(b, n, v) ==
    /\ Len(v.cells) <= n /\ Inside(v.cells, b)
    /\ v.error = "Ok" => v.offset <= b.length /\ Chained(v.cells, v.offset)

LEMMA AppendIs ==
  ASSUME NEW cells \in Seq(LabelCell), NEW c \in LabelCell,
         NEW all, all = Append(cells, c), NEW k, k = Len(cells)
  PROVE  /\ k \in Nat /\ Len(all) = k + 1 /\ DOMAIN all = 1 .. k + 1 /\ all[k + 1] = c
         /\ DOMAIN cells = 1 .. k /\ \A i \in 1 .. k : all[i] = cells[i] /\ cells[i] \in LabelCell
<1>1. /\ all \in Seq(LabelCell) /\ Len(all) = k + 1
      /\ \A i \in 1 .. k : all[i] = cells[i]
      /\ all[k + 1] = c
  BY AppendProperties
<1>2. k \in Nat /\ DOMAIN cells = 1 .. k /\ DOMAIN all = 1 .. k + 1
  BY <1>1, LenProperties
<1>3. \A i \in 1 .. k : cells[i] \in LabelCell
  BY ElementOfSeq
<1> QED
  BY <1>1, <1>2, <1>3

LEMMA AppendInside ==
  ASSUME NEW b, NEW cells \in Seq(LabelCell), NEW c \in LabelCell, Inside(cells, b),
         Ends(c) <= b.length * Byte
  PROVE  Inside(Append(cells, c), b)
<1> DEFINE all == Append(cells, c)
           k == Len(cells)
<1>1. /\ k \in Nat /\ Len(all) = k + 1 /\ DOMAIN all = 1 .. k + 1 /\ all[k + 1] = c
      /\ DOMAIN cells = 1 .. k /\ \A i \in 1 .. k : all[i] = cells[i]
  BY AppendIs
<1> HIDE DEF all, k
<1>2. c.at >= 0 /\ c.size >= 0
  BY DEF LabelCell
<1>3. ASSUME NEW i \in 1 .. k + 1
      PROVE  all[i].at >= 0 /\ all[i].size >= 0 /\ Ends(all[i]) <= b.length * Byte
  <2>1. CASE i = k + 1
    BY <1>1, <1>2, <2>1
  <2>2. CASE i # k + 1
    <3>1. i \in 1 .. k
      BY <1>1, <2>2
    <3> QED
      BY <1>1, <3>1 DEF Inside
  <2> QED
    BY <2>1, <2>2
<1> QED
  BY <1>1, <1>3 DEF Inside, all

LEMMA AppendChained ==
  ASSUME NEW cells \in Seq(LabelCell), NEW c \in LabelCell, NEW offset \in Nat, NEW end \in Nat,
         Chained(cells, offset), c.at = (offset + 4) * Byte, Ends(c) = end * Byte
  PROVE  Chained(Append(cells, c), end)
<1> DEFINE all == Append(cells, c)
           k == Len(cells)
<1>1. /\ k \in Nat /\ Len(all) = k + 1 /\ all[k + 1] = c
      /\ \A i \in 1 .. k : all[i] = cells[i]
  BY AppendIs
<1>2. /\ \A i \in 1 .. k - 1 : cells[i + 1].at = Ends(cells[i]) + 4 * Byte
      /\ k # 0 => Ends(cells[k]) = offset * Byte
  BY DEF Chained
<1> HIDE DEF all, k
<1>3. ASSUME NEW i \in 1 .. k PROVE all[i + 1].at = Ends(all[i]) + 4 * Byte
  <2>1. CASE i = k
    <3>1. all[i] = cells[k] /\ all[i + 1] = c /\ k # 0
      BY <1>1, <2>1
    <3>2. (offset + 4) * Byte = offset * Byte + 4 * Byte
      BY DEF Byte
    <3> QED
      BY <1>2, <3>1, <3>2
  <2>2. CASE i # k
    <3>1. i \in 1 .. k - 1 /\ i + 1 \in 1 .. k
      BY <1>1, <2>2
    <3>2. all[i] = cells[i] /\ all[i + 1] = cells[i + 1]
      BY <1>1, <3>1
    <3> QED
      BY <1>2, <3>1, <3>2
  <2> QED
    BY <2>1, <2>2
<1>4. Len(all) - 1 = k /\ Ends(all[Len(all)]) = end * Byte
  BY <1>1
<1>5. Chained(all, end)
  BY <1>3, <1>4 DEF Chained
<1> QED
  BY <1>5 DEF all

LEMMA ReachedNext ==
  ASSUME NEW b \in Bodies, NEW sizes \in Seq(Nat), NEW n \in Nat, n # 0, NEW v \in Progress,
         Reached(b, n - 1, v)
  PROVE  Reached(b, n, NextLabel(b, sizes, n, v))
<1> DEFINE data == v.offset + 4
           end == data + SizeAt(sizes, n)
           w == NextLabel(b, sizes, n, v)
           header == Cell(v.offset * Byte, 0)
           cell == Cell(data * Byte, (end - data) * Byte)
<1>1. v.offset \in Nat /\ SizeAt(sizes, n) \in Nat /\ v.cells \in Seq(LabelCell) /\ b.length \in Nat
  BY SizeIs DEF Progress, Bodies
<1>2. data \in Nat /\ end \in Nat /\ end - data \in Nat
  BY <1>1
<1>13. data = v.offset + 4
  OBVIOUS
<1>3. Len(v.cells) \in Nat /\ Len(v.cells) <= n - 1 /\ Inside(v.cells, b)
      /\ (v.error = "Ok" => v.offset <= b.length /\ Chained(v.cells, v.offset))
  BY <1>1, LenProperties DEF Reached
<1>4. \/ v.error # "Ok" /\ w = v
      \/ v.error = "Ok" /\ data > b.length /\ w.error = "ProtocolError" /\ w.cells = v.cells
      \/ /\ v.error = "Ok" /\ data <= b.length /\ w.error = "ProtocolError"
         /\ w.cells = Append(v.cells, header)
      \/ /\ v.error = "Ok" /\ end <= b.length /\ w.error = "Ok" /\ w.offset = end
         /\ w.cells = Append(v.cells, cell)
  BY NextIs
<1> HIDE DEF w, data, end
<1>5. header \in LabelCell /\ Ends(header) = v.offset * Byte
  <2>1. v.offset * Byte \in Nat /\ v.offset * Byte + 0 = v.offset * Byte
    BY <1>1 DEF Byte
  <2> QED
    BY <2>1 DEF Cell, LabelCell, Ends
<1>6. cell \in LabelCell /\ cell.at = (v.offset + 4) * Byte /\ Ends(cell) = end * Byte
  <2>1. data * Byte \in Nat /\ (end - data) * Byte \in Nat
        /\ data * Byte + (end - data) * Byte = end * Byte
    BY <1>2 DEF Byte
  <2> QED
    BY <1>13, <2>1 DEF Cell, LabelCell, Ends
<1> HIDE DEF header, cell
<1>7. Len(Append(v.cells, header)) = Len(v.cells) + 1 /\ Len(Append(v.cells, cell)) = Len(v.cells) + 1
  BY <1>1, <1>5, <1>6, AppendProperties
<1>8. ASSUME v.error # "Ok" /\ w = v
      PROVE  Reached(b, n, w)
  BY <1>3, <1>8 DEF Reached
<1>9. ASSUME v.error = "Ok" /\ w.error = "ProtocolError" /\ w.cells = v.cells
      PROVE  Reached(b, n, w)
  BY <1>3, <1>9 DEF Reached
<1>10. ASSUME v.error = "Ok" /\ w.error = "ProtocolError" /\ w.cells = Append(v.cells, header)
      PROVE  Reached(b, n, w)
  <2>1. Ends(header) <= b.length * Byte
    BY <1>1, <1>3, <1>5, <1>10 DEF Byte
  <2>2. Inside(w.cells, b)
    BY <1>1, <1>3, <1>5, <1>10, <2>1, AppendInside
  <2> QED
    BY <1>3, <1>7, <1>10, <2>2 DEF Reached
<1>11. ASSUME v.error = "Ok" /\ end <= b.length /\ w.error = "Ok" /\ w.offset = end
             /\ w.cells = Append(v.cells, cell)
      PROVE  Reached(b, n, w)
  <2>1. Ends(cell) <= b.length * Byte
    BY <1>1, <1>2, <1>6, <1>11 DEF Byte
  <2>2. Inside(w.cells, b)
    BY <1>1, <1>3, <1>6, <1>11, <2>1, AppendInside
  <2>4. Chained(Append(v.cells, cell), end)
    BY <1>1, <1>2, <1>3, <1>6, <1>11, AppendChained
  <2>3. Chained(w.cells, w.offset)
    BY <1>11, <2>4
  <2> QED
    BY <1>3, <1>7, <1>11, <2>2, <2>3 DEF Reached
<1>12. Reached(b, n, w)
  BY <1>4, <1>8, <1>9, <1>10, <1>11
<1> QED
  BY <1>12 DEF w

(* Labels: no more than the caller has room for, none beyond the body.      *)
LEMMA LabelsDecoded ==
  ASSUME NEW b \in Bodies, NEW sizes \in Seq(Nat), NEW capacity \in Nat,
         NEW o, o = LabelsWithin(capacity, b, sizes)
  PROVE  /\ o.first \in Seq(LabelCell)
         /\ Len(o.first) <= capacity /\ Inside(o.first, b) /\ o.second = <<>>
         /\ o.error # "Ok" => o.count = NotReported
         /\ o.error = "Ok" => \A k \in 1 .. Len(o.first) - 1 :
                                 o.first[k + 1].at = Ends(o.first[k]) + 4 * Byte
<1> DEFINE k == b.count
<1>1. k \in Nat
  BY DEF Bodies
<1>2. PICK f \in [0 .. k -> Progress] :
         /\ f[0] = NoLabel /\ \A n \in 1 .. k : f[n] = NextLabel(b, sizes, n, f[n - 1])
         /\ o = IF b.length < 2 THEN Failed("ProtocolError")
                ELSE IF k > capacity THEN Failed("BufferTooSmall")
                ELSE Outcome(f[k].error, f[k].cells, <<>>,
                             IF f[k].error = "Ok" THEN k ELSE NotReported)
  BY LabelsRun, SMTT(30)
<1> HIDE DEF k
<1>3. CASE b.length < 2 \/ k > capacity
  <2>1. o.first \in Seq(LabelCell) /\ o.first = <<>> /\ o.second = <<>> /\ o.count = NotReported /\ o.error # "Ok"
    BY <1>2, <1>3 DEF Failed, Outcome
  <2> QED
    BY <2>1, EmptyInside
<1>4. CASE ~(b.length < 2) /\ ~(k > capacity)
  <2> DEFINE S == {n \in 0 .. k : Reached(b, n, f[n])}
  <2>1. 0 \in S
    <3>1. Reached(b, 0, NoLabel)
      BY <1>4, EmptyInside DEF Reached, NoLabel, Chained, Bodies
    <3> QED
      BY <1>1, <1>2, <3>1
  <2>2. ASSUME NEW n \in 1 .. k, n - 1 \in S PROVE n \in S
    <3>1. n \in Nat /\ n # 0 /\ n \in 0 .. k /\ n - 1 \in 0 .. k
      BY <1>1
    <3>2. f[n - 1] \in Progress /\ Reached(b, n - 1, f[n - 1])
      BY <2>2, <3>1
    <3> QED
      BY <1>2, <3>1, <3>2, ReachedNext
  <2> HIDE DEF S
  <2>3. \A n \in 0 .. k : n \in S
    BY <1>1, <2>1, <2>2, FiniteInduction
  <2>4. k \in 0 .. k
    BY <1>1
  <2>5. Reached(b, k, f[k])
    BY <2>3, <2>4 DEF S
  <2>6. o.first = f[k].cells /\ o.second = <<>> /\ o.error = f[k].error
        /\ (o.error # "Ok" => o.count = NotReported)
    BY <1>2, <1>4 DEF Outcome
  <2>8. o.first \in Seq(LabelCell)
    BY <2>4, <2>6 DEF Progress
  <2>7. Len(o.first) <= capacity
    <3>1. Len(o.first) <= k /\ k <= capacity
      BY <1>1, <1>4, <2>5, <2>6 DEF Reached
    <3>2. Len(o.first) \in Nat
      BY <2>8, LenProperties
    <3> QED
      BY <1>1, <3>1, <3>2
  <2> QED
    BY <2>5, <2>6, <2>7, <2>8 DEF Reached, Chained
<1> QED
  BY <1>3, <1>4

LEMMA RoomIsNat ==
  ASSUME NEW s \in Settings, NEW r \in Requests
  PROVE  Room(s, r)[1] \in Nat /\ Room(s, r)[2] \in Nat
<1>1. CASE r.call \in {"readRandom", "readRandomExt", "readBlock"}
  <2>1. r.wordCapacity \in Nat /\ r.dwordCapacity \in Nat /\ Room(s, r) = <<r.wordCapacity, r.dwordCapacity>>
    BY <1>1, RandomRead, BlockRead, RoomIs
  <2> QED
    BY <2>1
<1>2. CASE r.call = "runMonitorCycle"
  <2>1. r.points \in Nat /\ r.dpoints \in Nat /\ Room(s, r) = <<r.points, r.dpoints>>
    BY <1>2, Cycle, RoomIs
  <2> QED
    BY <2>1
<1>3. CASE r.call \in TimerStateCalls
  <2>1. Room(s, r) = <<s.rxCapacity \div TimerResultSize, 0>>
    BY <1>3, RoomIs
  <2> QED
    BY <2>1, SettingIs DEF TimerResultSize
<1>4. CASE r.call \in {"readWords", "readDWords", "readFloat32s", "readBits", "readLongTimer",
                       "readLongRetentiveTimer", "readWordsModuleBuf", "readBitsModuleBuf",
                       "readWordsLinkDirect", "readBitsLinkDirect", "readMemoryWords",
                       "readExtendUnitBytes", "readExtendUnitWords", "selfTestLoopback"}
                      \cup LabelReads
  <2>1. Room(s, r) = <<r.capacity, 0>>
    BY <1>4, RoomIs
  <2>2. r.capacity \in Nat
    <3>1. r.call \in RangeCalls => r.capacity \in Nat
      BY Ranged
    <3>2. r.call \in RoutedCalls => r.capacity \in Nat
      BY Routed
    <3>3. r.call \in CountedCalls => r.capacity \in Nat
      BY Counted
    <3>4. r.call \in LabelCalls => r.capacity \in Nat
      BY Labelled
    <3>5. r.call = "selfTestLoopback" => r.capacity \in Nat
      BY Sized
    <3> QED
      BY <1>4, <3>1, <3>2, <3>3, <3>4, <3>5
         DEF RangeCalls, RoutedCalls, CountedCalls, TimerCalls, LabelCalls
  <2> QED
    BY <2>1, <2>2
<1>5. CASE r.call = "readTypeName" \/ r.call = "readCpuOperationState"
  BY <1>5, RoomIs
<1>6. CASE /\ r.call \notin {"readTypeName", "readCpuOperationState", "readRandom", "readRandomExt",
                             "readBlock", "runMonitorCycle", "readWords", "readDWords", "readFloat32s",
                             "readBits", "readLongTimer", "readLongRetentiveTimer",
                             "readWordsModuleBuf", "readBitsModuleBuf", "readWordsLinkDirect",
                             "readBitsLinkDirect", "readMemoryWords", "readExtendUnitBytes",
                             "readExtendUnitWords", "selfTestLoopback"}
           /\ r.call \notin TimerStateCalls \cup LabelReads
  <2>1. Room(s, r) = <<0, 0>>
    BY <1>6, RoomIs
  <2> QED
    BY <2>1
<1> QED
  BY <1>1, <1>2, <1>3, <1>4, <1>5, <1>6

(* What the caller's arrays hold after a call, whatever the PLC answered    *)
Trails(s, o) ==
    \A k \in DOMAIN o.first, later \in DOMAIN o.first :
        k < later => k * TimerResultSize * Byte
                        <= (PrefixSize(s) + 2) * Byte + o.first[later].at

Stored(s, r, b, o) ==
    /\ Len(o.first) <= Room(s, r)[1] /\ Len(o.second) <= Room(s, r)[2]
    /\ Inside(o.first, b) /\ Inside(o.second, b)
    /\ o.error # "Ok" => /\ o.second = <<>> /\ o.count = NotReported
                         /\ r.call \notin LabelReads => o.first = <<>>
    /\ o.error = "Ok" /\ r.call # "readTypeName" => Tiles(r, o)
    /\ r.call \in TimerStateCalls => Trails(s, o)

LEMMA FailedStored ==
  ASSUME NEW s \in Settings, NEW r \in Requests, NEW b, NEW e, e # "Ok", NEW o, o = Failed(e)
  PROVE  Stored(s, r, b, o)
<1>1. o.first = <<>> /\ o.second = <<>> /\ o.count = NotReported /\ o.error # "Ok"
  BY DEF Failed, Outcome
<1> QED
  BY <1>1, RoomIsNat, EmptyInside DEF Stored, Trails

LEMMA LabelsStored ==
  ASSUME NEW s \in Settings, NEW r \in Requests, r.call \in LabelReads, NEW b \in Bodies,
         NEW o, o = DecodeOf(s, r, b)
  PROVE  Stored(s, r, b, o)
<1>1. r.capacity \in Nat /\ b.items \in Seq(LabelItem)
  BY Labelled DEF LabelCalls, Bodies
<1>2. \E sizes \in Seq(Nat) : o = LabelsWithin(r.capacity, b, sizes)
  BY <1>1, DataIs, DecodeIs DEF LabelReads, ArrayLabels, RandomLabels
<1>3. /\ o.first \in Seq(LabelCell) /\ Len(o.first) <= r.capacity /\ Inside(o.first, b)
      /\ o.second = <<>> /\ (o.error # "Ok" => o.count = NotReported)
      /\ o.error = "Ok" => \A k \in 1 .. Len(o.first) - 1 :
                              o.first[k + 1].at = Ends(o.first[k]) + 4 * Byte
  BY <1>1, <1>2, LabelsDecoded, SMTT(30)
<1>4. Room(s, r) = <<r.capacity, 0>> /\ Gap(r) = 4 * Byte
  BY RoomIs DEF Gap, TimerCalls, TimerStateCalls, LabelReads
<1>5. r.call \notin TimerStateCalls /\ r.call # "readTypeName"
  BY DEF TimerStateCalls, LabelReads
<1>6. o.first \o o.second = o.first
  BY <1>3, ConcatEmptySeq
<1>7. o.error = "Ok" => Tiles(r, o)
  BY <1>3, <1>4, <1>6 DEF Tiles
<1> QED
  BY <1>1, <1>3, <1>4, <1>5, <1>7, EmptyInside DEF Stored

LEMMA DecodesStored ==
  ASSUME NEW s \in Settings, NEW r \in Requests, Sent(s, r), NEW b \in Bodies,
         NEW o, o = DecodeOf(s, r, b)
  PROVE  Stored(s, r, b, o)
<1>1. CASE r.call \in LabelReads
  BY <1>1, LabelsStored
<1>2. CASE r.call \notin LabelReads
  <2>1. LaidOut(s, r, b, o)
    BY <1>2, Decodes
  <2>2. /\ Len(o.first) <= Room(s, r)[1] /\ Len(o.second) <= Room(s, r)[2]
        /\ Inside(o.first, b) /\ Inside(o.second, b)
        /\ o.error # "Ok" => o.first = <<>> /\ o.second = <<>> /\ o.count = NotReported
    BY <2>1, LaidWithin
  <2>3. o.error = "Ok" /\ r.call # "readTypeName" => Tiles(r, o)
    BY <2>1, LaidTiles
  <2>4. r.call \in TimerStateCalls => Trails(s, o)
    BY <2>1, LaidTrails DEF TimerCalls, Trails
  <2> QED
    BY <2>2, <2>3, <2>4 DEF Stored
<1> QED
  BY <1>1, <1>2

-----------------------------------------------------------------------------
(* What a call leaves behind *)

LEMMA NotWrittenIs ==
  /\ NotWritten.first = <<>> /\ NotWritten.second = <<>>
  /\ NotWritten.count = NotReported /\ NotWritten.error = "Ok"
BY DEF NotWritten, Failed, Outcome

LEMMA CompletedStored ==
  ASSUME CallInv, phase = "returned", Completed
  PROVE  Stored(settings, request, body, outcome) /\ verdict = outcome.error
<1>1. /\ settings \in Settings /\ request \in Requests /\ body \in Bodies
      /\ built = Started(settings, request) /\ built.error = "Ok"
      /\ outcome = completeAsync(body) /\ verdict = outcome.error
  BY DEF CallInv, Completed
<1>2. Sent(settings, request)
  BY <1>1, StartedIs
<1>3. \/ outcome = Failed("BufferTooSmall") \/ outcome = Failed("PlcError")
      \/ outcome = DecodeOf(settings, request, body)
  BY <1>1 DEF completeAsync
<1> QED
  BY <1>1, <1>2, <1>3, FailedStored, DecodesStored

(* In each state but that of a call that is completed nothing is stored.    *)
LEMMA WhenStored ==
  ASSUME CallInv
  PROVE  \/ phase = "returned" /\ Completed
         \/ outcome = NotWritten /\ (phase = "returned" => Unanswered)
BY DEF CallInv, Reset, Unanswered

(* Whatever a PLC answers, and whatever the sizes of the caller's arrays,    *)
(* completeAsync stays inside them.                                         *)
THEOREM ArraysSuffice == Spec => []OutputsBounded
<1>1. CallInv => OutputsBounded
  <2> SUFFICES ASSUME CallInv, request # NoRequest
               PROVE  /\ Len(outcome.first) <= Room(settings, request)[1]
                      /\ Len(outcome.second) <= Room(settings, request)[2]
    BY DEF OutputsBounded
  <2>1. CASE phase = "returned" /\ Completed
    BY <2>1, CompletedStored DEF Stored
  <2>2. CASE outcome = NotWritten
    <3>1. settings \in Settings /\ request \in Requests
      BY DEF CallInv, Reset
    <3> QED
      BY <2>2, <3>1, NotWrittenIs, RoomIsNat
  <2> QED
    BY <2>1, <2>2, WhenStored
<1> QED
  BY <1>1, CallAlways, PTL

(* No value of any answer of any length is taken from beyond it, and no      *)
(* label points there, also when the read failed at a later label.          *)
THEOREM CellsInBody == Spec => []CellsWithinBody
<1>1. CallInv => CellsWithinBody
  <2> SUFFICES ASSUME CallInv
               PROVE  Inside(outcome.first, body) /\ Inside(outcome.second, body)
    BY DEF CellsWithinBody, Inside
  <2>1. CASE phase = "returned" /\ Completed
    BY <2>1, CompletedStored DEF Stored
  <2>2. CASE outcome = NotWritten
    BY <2>2, NotWrittenIs, EmptyInside
  <2> QED
    BY <2>1, <2>2, WhenStored
<1> QED
  BY <1>1, CallAlways, PTL

(* A call that ends Ok has stored exactly the values it asked for, one after *)
(* the other, for any number of points, devices, blocks and labels.         *)
THEOREM AnswersInOrder == Spec => []AnswersTile
<1>1. CallInv => AnswersTile
  <2> SUFFICES ASSUME CallInv, phase = "returned", verdict = "Ok", request.call # "readTypeName"
               PROVE  Tiles(request, outcome)
    BY DEF AnswersTile, Tiles
  <2>1. CASE Completed
    BY <2>1, CompletedStored DEF Stored
  <2>2. CASE Unanswered
    <3>1. request.call = "remoteReset" /\ outcome.first = <<>> /\ outcome.second = <<>>
      BY <2>2, NotWrittenIs DEF Unanswered
    <3>2. Widths(request) = <<>>
      BY <3>1, WidthsIs DEF TimerCalls, TimerStateCalls
    <3>3. outcome.first \o outcome.second = <<>>
      BY <3>1, ConcatEmptySeq, EmptySeq
    <3>4. Len(<<>>) = 0 /\ DOMAIN <<>> = 1 .. 0
      OBVIOUS
    <3>5. [k \in 1 .. 0 |-> <<>>[k].size] = <<>>
      OBVIOUS
    <3> QED
      BY <3>2, <3>3, <3>4, <3>5 DEF Tiles
  <2> QED
    BY <2>1, <2>2 DEF CallInv
<1> QED
  BY <1>1, CallAlways, PTL

(* What a call may still fail with that has emptied its caller's result:    *)
(* its answer does not complain of its arguments any more, for startAsync   *)
(* was reached with an output as long as the data sent.                     *)
Late == RefusedLate \cup {"TransportError", "PlcError", "ProtocolError"}

LEMMA EmptiedFailsLate ==
  ASSUME CallInv, phase = "returned", verdict # "Ok", built.empties
  PROVE  request.call \in EmptyingCalls /\ verdict \in Late
<1>1. settings \in Settings /\ request \in Requests /\ built = Started(settings, request)
  BY DEF CallInv
<1>2. request.call \in EmptyingCalls /\ built.error \in RefusedLate \cup {"Ok"}
  BY <1>1, StartedEmpties
<1>3. CASE Unanswered
  BY <1>2, <1>3 DEF Unanswered, Late
<1>4. CASE Completed
  <2>1. Sent(settings, request) /\ outcome = completeAsync(body) /\ verdict = outcome.error
    BY <1>1, <1>4, StartedIs DEF Completed
  <2>2. CASE outcome \in {Failed("BufferTooSmall"), Failed("PlcError")}
    BY <1>2, <2>1, <2>2 DEF Failed, Outcome, Late, RefusedLate
  <2>3. CASE outcome = DecodeOf(settings, request, body)
    <3>1. CASE request.call = "readTypeName"
      BY <2>1, <2>3, <3>1, DecodeIs DEF TypeName, Values, Outcome
    <3>2. CASE request.call = "selfTestLoopback"
      <4>1. request.points \in Nat /\ request.capacity \in Nat /\ request.points <= request.capacity
        BY <1>1, <2>1, <3>2, Sized, SizedBegin
      <4>2. outcome = SelfTest(request.points, request.capacity, body)
        BY <2>3, <3>2, DecodeIs
      <4>3. ~(body.count # request.points) => ~(request.capacity < body.count)
        BY <4>1
      <4>4. outcome.error \in {"Ok", "ProtocolError"}
        BY <4>2, <4>3 DEF SelfTest, Failed, Outcome
      <4> QED
        BY <1>2, <2>1, <4>4 DEF Late
    <3> QED
      BY <1>2, <3>1, <3>2 DEF EmptyingCalls
  <2> QED
    BY <2>1, <2>2, <2>3 DEF completeAsync
<1> QED
  BY <1>3, <1>4 DEF CallInv

(* A call that fails, wherever it fails, has stored nothing and reported no  *)
(* count, but for labels without a count; and it has reset a result of its  *)
(* caller only in the two calls that do so, and there only after everything *)
(* their own arguments can be refused for.                                  *)
THEOREM ErrorsLeaveOutputs == Spec => []ErrorLeavesOutputs
<1>1. CallInv => ErrorLeavesOutputs
  <2> SUFFICES ASSUME CallInv, phase = "returned", verdict # "Ok" PROVE ErrorLeavesOutputs
    BY DEF ErrorLeavesOutputs
  <2>1. /\ outcome.second = <<>> /\ outcome.count = NotReported
        /\ request.call \notin LabelReads => outcome.first = <<>>
    <3>1. CASE Completed
      BY <3>1, CompletedStored DEF Stored
    <3>2. CASE Unanswered
      BY <3>2, NotWrittenIs DEF Unanswered
    <3> QED
      BY <3>1, <3>2 DEF CallInv
  <2>2. built.empties =>
          /\ request.call \in {"readTypeName", "selfTestLoopback"}
          /\ verdict \notin {"InvalidArgument", "UnsupportedDevice", "ProfileFeatureBlocked"}
    BY EmptiedFailsLate DEF EmptyingCalls, Late, RefusedLate
  <2> QED
    BY <2>1, <2>2 DEF ErrorLeavesOutputs
<1> QED
  BY <1>1, CallAlways, PTL

(* The in-place decoding of the timer states never stores a result over      *)
(* bytes it still has to read, for any number of timers and any buffer.     *)
THEOREM ScratchTrails == Spec => []ScratchTrailsSource
<1>1. CallInv => ScratchTrailsSource
  <2> SUFFICES ASSUME CallInv, request.call \in TimerStateCalls PROVE Trails(settings, outcome)
    BY DEF ScratchTrailsSource, Trails
  <2>1. CASE phase = "returned" /\ Completed
    BY <2>1, CompletedStored DEF Stored
  <2>2. CASE outcome = NotWritten
    BY <2>2, NotWrittenIs DEF Trails
  <2> QED
    BY <2>1, <2>2, WhenStored
<1> QED
  BY <1>1, CallAlways, PTL

-----------------------------------------------------------------------------
(* Honest answers *)

LEMMA Accepted ==
  ASSUME NEW b, NEW n, NEW m
  PROVE  /\ b.length = 2 * n => Words(n, b).error = "Ok" /\ UnitWords(n, b).error = "Ok"
         /\ b.length = 4 * n => DWords(n, b).error = "Ok" /\ Float32s(n, b).error = "Ok"
         /\ b.length >= ByteCount(n) => Bits(n, b).error = "Ok" /\ ModuleOrLinkBits(n, b).error = "Ok"
         /\ b.length >= 8 * n => LongTimer(n, b).error = "Ok"
         /\ b.length = n => UnitBytes(n, b).error = "Ok"
         /\ b.length = 2 * n + 4 * m
               => Random(n, m, b).error = "Ok" /\ RandomExtOrMonitor(n, m, b).error = "Ok"
         /\ b.length = 2 * (n + m) => Block(n, m, b).error = "Ok"
         /\ b.length = 0 => Nothing(b).error = "Ok"
         /\ TypeName(b).error = "Ok"
<1>2. b.length = 2 * n => Words(n, b).error = "Ok" /\ UnitWords(n, b).error = "Ok"
  BY DEF Words, UnitWords, Accept, Values, Outcome
<1>3. b.length = 4 * n => DWords(n, b).error = "Ok" /\ Float32s(n, b).error = "Ok"
  BY DEF DWords, Float32s, Accept, Values, Outcome
<1>4. b.length >= ByteCount(n) => Bits(n, b).error = "Ok" /\ ModuleOrLinkBits(n, b).error = "Ok"
  <2> DEFINE c == ByteCount(n)
  <2> HIDE DEF c
  <2> QED
    BY DEF Bits, ModuleOrLinkBits, Accept, Values, Outcome
<1>5. b.length >= 8 * n => LongTimer(n, b).error = "Ok"
  BY DEF LongTimer, Accept, Values, Outcome
<1>6. b.length = n => UnitBytes(n, b).error = "Ok"
  BY DEF UnitBytes, Accept, Values, Outcome
<1>7. b.length = 2 * n + 4 * m
         => Random(n, m, b).error = "Ok" /\ RandomExtOrMonitor(n, m, b).error = "Ok"
  BY DEF Random, RandomExtOrMonitor, Accept, Values, Outcome
<1>8. b.length = 2 * (n + m) => Block(n, m, b).error = "Ok"
  BY DEF Block, Accept, Values, Outcome
<1>9. b.length = 0 => Nothing(b).error = "Ok"
  BY DEF Nothing, Accept, Values, Outcome
<1>10. TypeName(b).error = "Ok"
  BY DEF TypeName, Values, Outcome
<1> QED
  BY <1>2, <1>3, <1>4, <1>5, <1>6, <1>7, <1>8, <1>9, <1>10

(* The sizes of the labels of an answer add up to its length.               *)
Filling(b, sizes) == b.count = Len(sizes) /\ b.length = LabelBytes(sizes)

LEMMA HonestLabels ==
  ASSUME NEW b \in Bodies, NEW sizes \in Seq(Nat), Filling(b, sizes), NEW capacity \in Nat, b.count <= capacity
  PROVE  LabelsWithin(capacity, b, sizes).error = "Ok"
<1> DEFINE k == b.count
           o == LabelsWithin(capacity, b, sizes)
<1>1. k \in Nat /\ b.length \in Nat /\ k = Len(sizes)
  BY DEF Bodies, Filling
<1>5. PICK f \in [0 .. k -> Progress] :
         /\ f[0] = NoLabel /\ \A n \in 1 .. k : f[n] = NextLabel(b, sizes, n, f[n - 1])
         /\ o =
               IF b.length < 2 THEN Failed("ProtocolError")
               ELSE IF k > capacity THEN Failed("BufferTooSmall")
               ELSE Outcome(f[k].error, f[k].cells, <<>>,
                            IF f[k].error = "Ok" THEN k ELSE NotReported)
  BY LabelsRun
<1>0. k = b.count
  OBVIOUS
<1> HIDE DEF k
<1>2. sizes \in [1 .. k -> Nat]
  BY <1>1
<1>3. PICK g \in [0 .. k -> Nat] : /\ g[0] = 0 /\ \A n \in 1 .. k : g[n] = g[n - 1] + sizes[n]
                                   /\ SumOf(sizes) = g[k]
  BY <1>1, <1>2, SumsOf
<1>4. b.length = 2 + 4 * k + g[k] /\ g[k] \in Nat
  BY <1>1, <1>3, LabelBytesIs DEF Filling
(* the running sums grow towards the last one *)
<1>6. \A n \in 0 .. k : g[n] <= g[k]
  <2> DEFINE T == {j \in 0 .. k : g[k - j] <= g[k]}
  <2>1. 0 \in T
    BY <1>1, <1>4
  <2>2. ASSUME NEW j \in 1 .. k, j - 1 \in T PROVE j \in T
    <3> DEFINE n == k - (j - 1)
    <3>1. n \in 1 .. k /\ n - 1 = k - j /\ g[n] <= g[k] /\ n - 1 \in 0 .. k /\ j \in 0 .. k
      BY <1>1, <2>2
    <3> HIDE DEF n
    <3>2. g[n] = g[n - 1] + sizes[n] /\ g[n - 1] \in Nat /\ sizes[n] \in Nat
      BY <1>2, <1>3, <3>1
    <3> DEFINE a == g[n]
               c == g[n - 1]
               d == sizes[n]
               e == g[k]
    <3>4. a = c + d /\ c \in Nat /\ d \in Nat /\ e \in Nat /\ a <= e
      BY <1>4, <3>1, <3>2
    <3>5. n - 1 = k - j /\ j \in 0 .. k
      BY <3>1
    <3> HIDE DEF a, c, d, e
    <3>3. c <= e
      BY <3>4
    <3> QED
      BY <3>3, <3>5 DEF c, e
  <2> HIDE DEF T
  <2>3. \A j \in 0 .. k : j \in T
    BY <1>1, <2>1, <2>2, FiniteInduction
  <2> TAKE n \in 0 .. k
  <2>4. k - n \in 0 .. k /\ k - (k - n) = n
    BY <1>1
  <2>5. g[k - (k - n)] <= g[k]
    BY <2>3, <2>4 DEF T
  <2> QED
    BY <2>4, <2>5
<1> DEFINE R == {n \in 0 .. k : f[n].error = "Ok" /\ f[n].offset = 2 + 4 * n + g[n]}
<1>7. 0 \in R
  BY <1>1, <1>3, <1>5 DEF NoLabel
<1>8. ASSUME NEW n \in 1 .. k, n - 1 \in R PROVE n \in R
  <2> DEFINE v == f[n - 1]
             w == f[n]
             data == v.offset + 4
             end == data + SizeAt(sizes, n)
  <2>1. n \in Nat /\ n # 0 /\ n \in 0 .. k /\ n - 1 \in 0 .. k
    BY <1>1
  <2>2. v \in Progress /\ w = NextLabel(b, sizes, n, v) /\ v.error = "Ok"
        /\ v.offset = 2 + 4 * (n - 1) + g[n - 1]
    BY <1>5, <1>8, <2>1
  <2>3. SizeAt(sizes, n) = sizes[n] /\ sizes[n] \in Nat
    BY <1>1, <1>2 DEF SizeAt
  <2>4. g[n] = g[n - 1] + sizes[n] /\ g[n - 1] \in Nat /\ g[n] <= g[k]
    BY <1>3, <1>6, <2>1
  <2>5. end = 2 + 4 * n + g[n] /\ data <= end /\ data \in Nat /\ end \in Nat
    <3> DEFINE a == g[n]
               c == g[n - 1]
               d == sizes[n]
               off == v.offset
               z == SizeAt(sizes, n)
    <3>1. a = c + d /\ c \in Nat /\ d \in Nat /\ z = d /\ off = 2 + 4 * (n - 1) + c /\ n \in Nat /\ n # 0
      BY <2>1, <2>2, <2>3, <2>4
    <3>2. data = off + 4 /\ end = (off + 4) + z
      OBVIOUS
    <3> HIDE DEF a, c, d, off, z, data, end
    <3>3. end = 2 + 4 * n + a /\ data <= end /\ data \in Nat /\ end \in Nat
      BY <3>1, <3>2
    <3> QED
      BY <3>3 DEF a
  <2>6. end <= b.length
    BY <1>1, <1>4, <2>1, <2>4, <2>5
  <2>8. data = v.offset + 4 /\ end = data + SizeAt(sizes, n)
    OBVIOUS
  <2> HIDE DEF v, w, data, end
  <2>7. data \in Nat /\ end \in Nat /\ data <= b.length
    BY <1>1, <2>5, <2>6
  <2>9. \/ v.error # "Ok" /\ w = v
        \/ data > b.length
        \/ end > b.length
        \/ w.error = "Ok" /\ w.offset = end
    BY <2>1, <2>2, <2>8, NextIs
  <2>10. w.error = "Ok" /\ w.offset = end
    BY <1>1, <2>2, <2>6, <2>7, <2>9
  <2> QED
    BY <2>1, <2>5, <2>10 DEF w
<1> HIDE DEF R
<1>9. \A n \in 0 .. k : n \in R
  BY <1>1, <1>7, <1>8, FiniteInduction
<1>10. f[k].error = "Ok"
  BY <1>1, <1>9 DEF R
<1>11. ~(b.length < 2) /\ ~(k > capacity)
  BY <1>1, <1>4 DEF k
<1> QED
  BY <1>5, <1>10, <1>11 DEF Outcome, o

(* The answer has the length of the points the request tells the PLC. *)
Answers(s, r, b) == b.length = AnswerLength(BeginOf(s, r).tells)

LEMMA AnsweredBy ==
  ASSUME NEW s, NEW r, NEW t, NEW size, Asks(s, r, t, size), NEW b, Answers(s, r, b)
  PROVE  b.length = AnswerLength(t)
BY ToldBy DEF Answers

LEMMA LengthOf ==
  ASSUME NEW s, NEW r, NEW b, Answers(s, r, b), NEW k, NEW n, NEW size
  PROVE  /\ Asks(s, r, Tells("readWords", k, <<n>>), size) => b.length = 2 * n
         /\ Asks(s, r, Tells("readMemory", k, <<n>>), size) => b.length = 2 * n
         /\ Asks(s, r, Tells("readBits", k, <<n>>), size) => b.length = ByteCount(n)
         /\ Asks(s, r, Tells("readUnit", k, <<n>>), size) => b.length = n
         /\ \A service \in {"writeWords", "writeBits", "writeMemory", "writeUnit", "password"} :
               Asks(s, r, Tells(service, k, <<n>>), size) => b.length = 0
         /\ \A service \in {"clearError", "remote", "remoteRun"} :
               Asks(s, r, Tells(service, k, <<>>), size) => b.length = 0
<1>1. \A t : Asks(s, r, t, size) => b.length = AnswerLength(t)
  BY AnsweredBy
<1> QED
  BY <1>1, AnswerIs

(* What a decoder without values asks for *)
CallsWithoutAnswer ==
    {"writeWords", "writeBits", "writeDWords", "writeFloat32s", "writeWordsModuleBuf",
     "writeBitsModuleBuf", "writeWordsLinkDirect", "writeBitsLinkDirect", "writeMemoryWords",
     "writeExtendUnitBytes", "writeExtendUnitWords", "writeArrayLabels", "writeRandomLabels",
     "remoteRun", "remoteStop", "remotePause", "remoteLatchClear", "remoteReset", "clearError"}
        \cup RegisterCalls \cup PasswordCalls

LEMMA NothingAccepted ==
  ASSUME NEW s, NEW r, r.call \in CallsWithoutAnswer, NEW b, b.length = 0
  PROVE  DecodeOf(s, r, b).error = "Ok"
<1>1. DecodeOf(s, r, b) = Nothing(b)
  BY DecodeIs DEF CallsWithoutAnswer, RegisterCalls, PasswordCalls, TimerCalls, TimerStateCalls
<1> QED
  BY <1>1, Accepted

(* The answer to each call has the length its decoder asks for. *)
LEMMA RangeAccepted ==
  ASSUME NEW s \in Settings, NEW r \in Requests, r.call \in RangeCalls,
         NEW b \in Bodies, Answers(s, r, b)
  PROVE  DecodeOf(s, r, b).error = "Ok"
<1> DEFINE n == r.points
<1>0. n \in Nat
  BY Ranged
<1>1. CASE r.call = "readWords"
  <2> DEFINE k == SpecSize(s)  m == n  size == SpecSize(s) + 2
  <2>1. Asks(s, r, Tells("readWords", k, <<m>>), size)
    BY <1>1, RangeBegin
  <2>2. DecodeOf(s, r, b) = Words(n, b)
    BY <1>1, DecodeIs
  <2> HIDE DEF k, size
  <2>3. b.length = 2 * n
    BY <2>1, LengthOf
  <2> QED
    BY <2>2, <2>3, Accepted
<1>2. CASE r.call = "readDWords"
  <2> DEFINE k == SpecSize(s)  m == 2 * n  size == SpecSize(s) + 2
  <2>1. Asks(s, r, Tells("readWords", k, <<m>>), size)
    BY <1>2, RangeBegin
  <2>2. DecodeOf(s, r, b) = DWords(n, b)
    BY <1>2, DecodeIs
  <2>m. n \in Nat /\ m = 2 * n
    BY <1>0
  <2> HIDE DEF k, size, m
  <2>3. b.length = 2 * m
    BY <2>1, LengthOf
  <2>4. b.length = 4 * n
    BY <2>m, <2>3
  <2> QED
    BY <2>2, <2>4, Accepted
<1>3. CASE r.call = "readFloat32s"
  <2> DEFINE k == SpecSize(s)  m == 2 * n  size == SpecSize(s) + 2
  <2>1. Asks(s, r, Tells("readWords", k, <<m>>), size)
    BY <1>3, RangeBegin
  <2>2. DecodeOf(s, r, b) = Float32s(n, b)
    BY <1>3, DecodeIs
  <2>m. n \in Nat /\ m = 2 * n
    BY <1>0
  <2> HIDE DEF k, size, m
  <2>3. b.length = 2 * m
    BY <2>1, LengthOf
  <2>4. b.length = 4 * n
    BY <2>m, <2>3
  <2> QED
    BY <2>2, <2>4, Accepted
<1>4. CASE r.call = "readBits"
  <2> DEFINE k == SpecSize(s)  m == n  size == SpecSize(s) + 2
  <2>1. Asks(s, r, Tells("readBits", k, <<m>>), size)
    BY <1>4, RangeBegin
  <2>2. DecodeOf(s, r, b) = Bits(n, b)
    BY <1>4, DecodeIs
  <2> HIDE DEF k, size
  <2>3. b.length = ByteCount(n)
    BY <2>1, LengthOf
  <2>4. ByteCount(n) \in Nat /\ b.length >= ByteCount(n)
    BY <1>0, <2>3, HalvesOf
  <2> QED
    BY <2>2, <2>4, Accepted
<1>5. CASE r.call = "writeWords"
  <2> DEFINE k == SpecSize(s)  m == n  size == SpecSize(s) + 2 + 2 * n
  <2>1. Asks(s, r, Tells("writeWords", k, <<m>>), size)
    BY <1>5, RangeBegin
  <2> HIDE DEF k, m, size
  <2>2. b.length = 0
    BY <2>1, LengthOf
  <2> QED
    BY <1>5, <2>2, NothingAccepted DEF CallsWithoutAnswer
<1>6. CASE r.call \in {"writeDWords", "writeFloat32s"}
  <2> DEFINE k == SpecSize(s)  m == 2 * n  size == SpecSize(s) + 2 + 4 * n
  <2>1. Asks(s, r, Tells("writeWords", k, <<m>>), size)
    BY <1>6, RangeBegin
  <2> HIDE DEF k, m, size
  <2>2. b.length = 0
    BY <2>1, LengthOf
  <2> QED
    BY <1>6, <2>2, NothingAccepted DEF CallsWithoutAnswer
<1>7. CASE r.call = "writeBits"
  <2> DEFINE k == SpecSize(s)  m == n  size == SpecSize(s) + 2 + ByteCount(n)
  <2>1. Asks(s, r, Tells("writeBits", k, <<m>>), size)
    BY <1>7, RangeBegin
  <2> HIDE DEF k, m, size
  <2>2. b.length = 0
    BY <2>1, LengthOf
  <2> QED
    BY <1>7, <2>2, NothingAccepted DEF CallsWithoutAnswer
<1> QED
  BY <1>1, <1>2, <1>3, <1>4, <1>5, <1>6, <1>7 DEF RangeCalls

LEMMA RoutedAccepted ==
  ASSUME NEW s \in Settings, NEW r \in Requests, r.call \in RoutedCalls,
         NEW b \in Bodies, Answers(s, r, b)
  PROVE  DecodeOf(s, r, b).error = "Ok"
<1> DEFINE n == r.points
<1>0. n \in Nat
  BY Routed
<1>1. CASE r.call = "readWordsModuleBuf"
  <2> DEFINE k == ModuleSpecSize(s)  m == n  size == ModuleSpecSize(s) + 2
  <2>1. Asks(s, r, Tells("readWords", k, <<m>>), size)
    BY <1>1, RoutedBegin
  <2>2. DecodeOf(s, r, b) = Words(n, b)
    BY <1>1, DecodeIs
  <2> HIDE DEF k, size
  <2>3. b.length = 2 * n
    BY <2>1, LengthOf
  <2> QED
    BY <2>2, <2>3, Accepted
<1>2. CASE r.call = "readWordsLinkDirect"
  <2> DEFINE k == LinkSpecSize  m == n  size == LinkSpecSize + 2
  <2>1. Asks(s, r, Tells("readWords", k, <<m>>), size)
    BY <1>2, RoutedBegin
  <2>2. DecodeOf(s, r, b) = Words(n, b)
    BY <1>2, DecodeIs
  <2> HIDE DEF k, size
  <2>3. b.length = 2 * n
    BY <2>1, LengthOf
  <2> QED
    BY <2>2, <2>3, Accepted
<1>3. CASE r.call = "readBitsModuleBuf"
  <2> DEFINE k == ModuleSpecSize(s)  m == n  size == ModuleSpecSize(s) + 2
  <2>1. Asks(s, r, Tells("readBits", k, <<m>>), size)
    BY <1>3, RoutedBegin
  <2>2. DecodeOf(s, r, b) = ModuleOrLinkBits(n, b)
    BY <1>3, DecodeIs
  <2> HIDE DEF k, size
  <2>3. b.length = ByteCount(n)
    BY <2>1, LengthOf
  <2>4. ByteCount(n) \in Nat /\ b.length >= ByteCount(n)
    BY <1>0, <2>3, HalvesOf
  <2> QED
    BY <2>2, <2>4, Accepted
<1>4. CASE r.call = "readBitsLinkDirect"
  <2> DEFINE k == LinkSpecSize  m == n  size == LinkSpecSize + 2
  <2>1. Asks(s, r, Tells("readBits", k, <<m>>), size)
    BY <1>4, RoutedBegin
  <2>2. DecodeOf(s, r, b) = ModuleOrLinkBits(n, b)
    BY <1>4, DecodeIs
  <2> HIDE DEF k, size
  <2>3. b.length = ByteCount(n)
    BY <2>1, LengthOf
  <2>4. ByteCount(n) \in Nat /\ b.length >= ByteCount(n)
    BY <1>0, <2>3, HalvesOf
  <2> QED
    BY <2>2, <2>4, Accepted
<1>5. CASE r.call = "writeWordsModuleBuf"
  <2> DEFINE k == ModuleSpecSize(s)  m == n  size == ModuleSpecSize(s) + (2 + 2 * n)
  <2>1. Asks(s, r, Tells("writeWords", k, <<m>>), size)
    BY <1>5, RoutedBegin
  <2> HIDE DEF k, m, size
  <2>2. b.length = 0
    BY <2>1, LengthOf
  <2> QED
    BY <1>5, <2>2, NothingAccepted DEF CallsWithoutAnswer
<1>6. CASE r.call = "writeWordsLinkDirect"
  <2> DEFINE k == LinkSpecSize  m == n  size == LinkSpecSize + (2 + 2 * n)
  <2>1. Asks(s, r, Tells("writeWords", k, <<m>>), size)
    BY <1>6, RoutedBegin
  <2> HIDE DEF k, m, size
  <2>2. b.length = 0
    BY <2>1, LengthOf
  <2> QED
    BY <1>6, <2>2, NothingAccepted DEF CallsWithoutAnswer
<1>7. CASE r.call = "writeBitsModuleBuf"
  <2> DEFINE k == ModuleSpecSize(s)  m == n  size == ModuleSpecSize(s) + (2 + ByteCount(n))
  <2>1. Asks(s, r, Tells("writeBits", k, <<m>>), size)
    BY <1>7, RoutedBegin
  <2> HIDE DEF k, m, size
  <2>2. b.length = 0
    BY <2>1, LengthOf
  <2> QED
    BY <1>7, <2>2, NothingAccepted DEF CallsWithoutAnswer
<1>8. CASE r.call = "writeBitsLinkDirect"
  <2> DEFINE k == LinkSpecSize  m == n  size == LinkSpecSize + (2 + ByteCount(n))
  <2>1. Asks(s, r, Tells("writeBits", k, <<m>>), size)
    BY <1>8, RoutedBegin
  <2> HIDE DEF k, m, size
  <2>2. b.length = 0
    BY <2>1, LengthOf
  <2> QED
    BY <1>8, <2>2, NothingAccepted DEF CallsWithoutAnswer
<1> QED
  BY <1>1, <1>2, <1>3, <1>4, <1>5, <1>6, <1>7, <1>8 DEF RoutedCalls

LEMMA CountedAccepted ==
  ASSUME NEW s \in Settings, NEW r \in Requests, r.call \in CountedCalls,
         NEW b \in Bodies, Answers(s, r, b)
  PROVE  DecodeOf(s, r, b).error = "Ok"
<1> DEFINE n == r.points
<1>0. n \in Nat
  BY Counted
<1>1. CASE r.call \in TimerCalls
  <2> DEFINE k == SpecSize(s)  m == 4 * n  size == SpecSize(s) + 2
  <2>1. Asks(s, r, Tells("readWords", k, <<m>>), size)
    BY <1>1, CountedBegin
  <2>2. DecodeOf(s, r, b) = LongTimer(n, b)
    BY <1>1, DecodeIs
  <2>m. n \in Nat /\ m = 4 * n
    BY <1>0
  <2> HIDE DEF k, size, m
  <2>3. b.length = 2 * m
    BY <2>1, LengthOf
  <2>4. b.length \in Nat /\ 8 * n \in Nat /\ b.length >= 8 * n
    BY <2>m, <2>3
  <2> QED
    BY <2>2, <2>4, Accepted
<1>2. CASE r.call = "readMemoryWords"
  <2> DEFINE k == 4  m == n  size == 6
  <2>1. Asks(s, r, Tells("readMemory", k, <<m>>), size)
    BY <1>2, CountedBegin
  <2>2. DecodeOf(s, r, b) = Words(n, b)
    BY <1>2, DecodeIs
  <2> HIDE DEF k, size
  <2>3. b.length = 2 * n
    BY <2>1, LengthOf
  <2> QED
    BY <2>2, <2>3, Accepted
<1>3. CASE r.call = "readExtendUnitBytes"
  <2> DEFINE k == 4  m == n  size == 8
  <2>1. Asks(s, r, Tells("readUnit", k, <<m>>), size)
    BY <1>3, CountedBegin
  <2>2. DecodeOf(s, r, b) = UnitBytes(n, b)
    BY <1>3, DecodeIs
  <2> HIDE DEF k, size
  <2>3. b.length = n
    BY <2>1, LengthOf
  <2> QED
    BY <2>2, <2>3, Accepted
<1>4. CASE r.call = "readExtendUnitWords"
  <2> DEFINE k == 4  m == 2 * n  size == 8
  <2>1. Asks(s, r, Tells("readUnit", k, <<m>>), size)
    BY <1>4, CountedBegin
  <2>2. DecodeOf(s, r, b) = UnitWords(n, b)
    BY <1>4, DecodeIs
  <2>m. n \in Nat /\ m = 2 * n
    BY <1>0
  <2> HIDE DEF k, size, m
  <2>3. b.length = m
    BY <2>1, LengthOf
  <2>4. b.length = 2 * n
    BY <2>m, <2>3
  <2> QED
    BY <2>2, <2>4, Accepted
<1>5. CASE r.call = "writeMemoryWords"
  <2> DEFINE k == 4  m == n  size == 6 + 2 * n
  <2>1. Asks(s, r, Tells("writeMemory", k, <<m>>), size)
    BY <1>5, CountedBegin
  <2> HIDE DEF k, m, size
  <2>2. b.length = 0
    BY <2>1, LengthOf
  <2> QED
    BY <1>5, <2>2, NothingAccepted DEF CallsWithoutAnswer
<1>6. CASE r.call = "writeExtendUnitBytes"
  <2> DEFINE k == 4  m == n  size == 8 + n
  <2>1. Asks(s, r, Tells("writeUnit", k, <<m>>), size)
    BY <1>6, CountedBegin
  <2> HIDE DEF k, m, size
  <2>2. b.length = 0
    BY <2>1, LengthOf
  <2> QED
    BY <1>6, <2>2, NothingAccepted DEF CallsWithoutAnswer
<1>7. CASE r.call = "writeExtendUnitWords"
  <2> DEFINE k == 4  m == 2 * n  size == 8 + 2 * n
  <2>1. Asks(s, r, Tells("writeUnit", k, <<m>>), size)
    BY <1>7, CountedBegin
  <2> HIDE DEF k, m, size
  <2>2. b.length = 0
    BY <2>1, LengthOf
  <2> QED
    BY <1>7, <2>2, NothingAccepted DEF CallsWithoutAnswer
<1> QED
  BY <1>1, <1>2, <1>3, <1>4, <1>5, <1>6, <1>7 DEF CountedCalls, TimerCalls, TimerStateCalls

LEMMA RandomAccepted ==
  ASSUME NEW s \in Settings, NEW r \in Requests, r.call \in RandomCalls,
         NEW b \in Bodies, Answers(s, r, b)
  PROVE  DecodeOf(s, r, b).error = "Ok"
<1>1. CASE r.call \in {"readRandom", "readRandomExt"}
  <2> DEFINE words == Len(r.words)  dwords == Len(r.dwords)
  <2>1. PICK k, size : Asks(s, r, TellsRandom("readRandom", r, k), size)
    BY <1>1, RandomBegin DEF RandomCalls
  <2>t. b.length = AnswerLength(TellsRandom("readRandom", r, k))
    BY <2>1, AnsweredBy
  <2>2. b.length = 2 * words + 4 * dwords
    BY <2>t, ListAnswerIs
  <2>3. DecodeOf(s, r, b) = Random(words, dwords, b) \/ DecodeOf(s, r, b) = RandomExtOrMonitor(words, dwords, b)
    BY <1>1, DecodeIs
  <2> HIDE DEF words, dwords
  <2> QED
    BY <2>2, <2>3, Accepted
<1>2. CASE r.call \in RegisterCalls
  <2>1. PICK k, size : Asks(s, r, TellsRandom("registerMonitor", r, k), size)
    BY <1>2, RandomBegin DEF RandomCalls, RegisterCalls
  <2>t. b.length = AnswerLength(TellsRandom("registerMonitor", r, k))
    BY <2>1, AnsweredBy
  <2>2. b.length = 0
    BY <2>t, ListAnswerIs
  <2> QED
    BY <1>2, <2>2, NothingAccepted DEF CallsWithoutAnswer
<1> QED
  BY <1>1, <1>2 DEF RandomCalls

LEMMA BlockAccepted ==
  ASSUME NEW s \in Settings, NEW r \in Requests, r.call = "readBlock",
         NEW b \in Bodies, Answers(s, r, b)
  PROVE  DecodeOf(s, r, b).error = "Ok"
<1> DEFINE t == [service |-> "readBlock", spec |-> SpecSize(s),
                 counts |-> <<Len(r.wordBlocks), Len(r.bitBlocks)>>,
                 blocks |-> r.wordBlocks \o r.bitBlocks]
           words == TotalOf(r.wordBlocks)  bits == TotalOf(r.bitBlocks)
           size == 2 + (Len(r.wordBlocks) + Len(r.bitBlocks)) * (SpecSize(s) + 2)
<1>1. Asks(s, r, t, size)
  BY BlockBegin
<1>2. t.service = "readBlock" /\ t.blocks = r.wordBlocks \o r.bitBlocks
  OBVIOUS
<1>3. TotalOf(r.wordBlocks \o r.bitBlocks) = words + bits
  BY BlockRead, TotalOfBoth
<1>4. DecodeOf(s, r, b) = Block(words, bits, b)
  BY DecodeIs
<1> HIDE DEF t, size, words, bits
<1>5. b.length = AnswerLength(t)
  BY <1>1, AnsweredBy
<1>6. AnswerLength(t) = 2 * TotalOf(t.blocks)
  BY <1>2 DEF AnswerLength
<1>7. b.length = 2 * (words + bits)
  BY <1>2, <1>3, <1>5, <1>6
<1> QED
  BY <1>4, <1>7, Accepted

LEMMA PlainAccepted ==
  ASSUME NEW s \in Settings, NEW r \in Requests,
         r.call \in BareCalls \cup PasswordCalls \cup {"remoteRun", "remotePause"},
         NEW b \in Bodies, Answers(s, r, b)
  PROVE  DecodeOf(s, r, b).error = "Ok"
<1>1. CASE r.call = "readTypeName"
  BY <1>1, DecodeIs, Accepted
<1>2. CASE r.call = "readCpuOperationState"
  <2> DEFINE k == SpecSize(s)  size == SpecSize(s) + 2  n == 1
  <2>1. Asks(s, r, Tells("readWords", k, <<n>>), size)
    BY <1>2, StateBegin
  <2>2. DecodeOf(s, r, b) = Words(n, b)
    BY <1>2, DecodeIs
  <2> HIDE DEF k, size, n
  <2>3. b.length = 2 * n
    BY <2>1, LengthOf
  <2> QED
    BY <2>2, <2>3, Accepted
<1>3. CASE r.call \in {"remoteStop", "remoteLatchClear", "remoteReset", "remotePause", "remoteRun",
                       "clearError"}
  <2>1. PICK service, k, size :
           service \in {"clearError", "remote", "remoteRun"} /\ Asks(s, r, Tells(service, k, <<>>), size)
    BY <1>3, PlainBegin
  <2>2. b.length = 0
    BY <2>1, LengthOf
  <2> QED
    BY <1>3, <2>2, NothingAccepted DEF CallsWithoutAnswer
<1>4. CASE r.call \in PasswordCalls
  <2> DEFINE n == r.points  size == 2 + r.points  k == 2
  <2>1. Asks(s, r, Tells("password", k, <<n>>), size)
    BY <1>4, SizedBegin
  <2> HIDE DEF n, size, k
  <2>2. b.length = 0
    BY <2>1, LengthOf
  <2> QED
    BY <1>4, <2>2, NothingAccepted DEF CallsWithoutAnswer
<1> QED
  BY <1>1, <1>2, <1>3, <1>4 DEF BareCalls

(* A cycle is accepted when it asks for what the PLC monitors. *)
LEMMA CycleAccepted ==
  ASSUME NEW s \in Settings, NEW r \in Requests, r.call = "runMonitorCycle",
         registration = <<r.points, r.dpoints>>, NEW b \in Bodies, Answers(s, r, b)
  PROVE  DecodeOf(s, r, b).error = "Ok"
<1> DEFINE n == r.points  m == r.dpoints  k == 0
<1>1. Asks(s, r, Tells("runMonitor", k, <<>>), k)
  BY PlainBegin
<1>2. DecodeOf(s, r, b) = RandomExtOrMonitor(n, m, b)
  BY DecodeIs
<1>3. registration[1] = n /\ registration[2] = m
  OBVIOUS
<1> HIDE DEF n, m, k
<1>4. b.length = AnswerLength(Tells("runMonitor", k, <<>>))
  BY <1>1, AnsweredBy
<1>5. b.length = 2 * n + 4 * m
  BY <1>3, <1>4, AnswerIs
<1> QED
  BY <1>2, <1>5, Accepted

(* A self test is accepted when its own data comes back. *)
LEMMA HonestlyHas ==
  ASSUME NEW length \in Nat, NEW count \in Nat, NEW items \in Seq(LabelItem)
  PROVE  /\ Honestly(Body(length, count, items, TRUE)) \in Bodies
         /\ Honestly(Body(length, count, items, TRUE)).length = length
         /\ Honestly(Body(length, count, items, TRUE)).count = count
         /\ Honestly(Body(length, count, items, TRUE)).items = items
         /\ Honestly(Body(length, count, items, TRUE)).echo = TRUE
<1> DEFINE echo == TRUE
           a == Body(length, count, items, echo)  u == ~Understood
           b == Honestly(a)
<1>1. a \in Bodies /\ a.length = length /\ a.count = count /\ a.items = items /\ a.echo = echo
  BY BodyIs DEF Body
<1>2. u \in BOOLEAN /\ b = [a EXCEPT !.honest = TRUE, !.endCode = u]
  BY DEF Honestly
<1> HIDE DEF a, b, u, echo
<1>3. b \in Bodies
  BY <1>1, <1>2 DEF Bodies
<1>4. b.length = length /\ b.count = count /\ b.items = items /\ b.echo = echo
  BY <1>1, <1>2 DEF Bodies
<1> QED
  BY <1>3, <1>4 DEF a, b, echo

Echoed(r, b) == b = Honestly(Body(2 + r.points, r.points, <<>>, TRUE))

LEMMA TestAccepted ==
  ASSUME NEW s \in Settings, NEW r \in Requests, r.call = "selfTestLoopback", Sent(s, r),
         NEW b, Echoed(r, b)
  PROVE  DecodeOf(s, r, b).error = "Ok"
<1> DEFINE n == r.points  length == 2 + r.points  capacity == r.capacity
<1>a. n \in Nat /\ capacity \in Nat
  BY Sized
<1>b. n <= capacity
  BY SizedBegin
<1>1. n \in Nat /\ length \in Nat /\ capacity \in Nat /\ n <= capacity
  BY <1>a, <1>b
<1>2. <<>> \in Seq(LabelItem)
  OBVIOUS
<1>3. b = Honestly(Body(length, n, <<>>, TRUE)) /\ length = 2 + n
  BY DEF Echoed
<1>4. DecodeOf(s, r, b) = SelfTest(n, capacity, b)
  BY DecodeIs
<1> HIDE DEF n, length, capacity
<1>5. b.length = length /\ b.count = n /\ b.echo = TRUE
  BY <1>1, <1>2, <1>3, HonestlyHas, ZenonT(60)
<1>6. SelfTest(n, capacity, b).error = "Ok"
  <2>1. ~(b.length < 2 \/ b.length # 2 + b.count \/ b.count # n) /\ b.echo
    <3> DEFINE x == b.length  y == b.count
    <3>1. x = length /\ y = n /\ length = 2 + n /\ n \in Nat /\ b.echo
      BY <1>1, <1>3, <1>5
    <3> HIDE DEF x, y
    <3>2. ~(x < 2 \/ x # 2 + y \/ y # n)
      BY <3>1
    <3> QED
      BY <3>1, <3>2 DEF x, y
  <2>2. ~(capacity < b.count)
    BY <1>1, <1>5
  <2> QED
    BY <2>1, <2>2 DEF SelfTest, Outcome
<1> QED
  BY <1>4, <1>6

LEMMA LabelsAccepted ==
  ASSUME NEW s \in Settings, NEW r \in Requests, r.call \in LabelReads, Sent(s, r),
         NEW b, b \in HonestBodies(BeginOf(s, r).tells)
  PROVE  DecodeOf(s, r, b).error = "Ok"
<1> DEFINE t == BeginOf(s, r).tells  labels == r.labels  capacity == r.capacity
<1>1. labels \in Seq(LabelPoint) /\ capacity \in Nat /\ Len(labels) <= capacity
  BY Labelled, LabelBegin DEF LabelCalls
<1>2. b \in HonestBodies(t)
  OBVIOUS
<1>3. CASE r.call = "readArrayLabels"
  <2> DEFINE items == AskedItems(labels)  sizes == ArrayData(items)
             length == LabelBytes(sizes)  count == Len(items)
  <2>1. t = TellsLabels("readLabels", r)
    BY <1>3, ServiceIs
  <2>2. t.service = "readLabels" /\ t.labels = labels
    BY <2>1 DEF TellsLabels
  <2>3. b = Honestly(ArrayAnswer(items))
    BY <1>2, <2>2, HonestIs
  <2>4. items \in Seq(LabelItem) /\ Len(items) = Len(labels)
    BY <1>1, ItemsAre
  <2>5. DecodeOf(s, r, b) = ArrayLabels(capacity, b)
    BY <1>3, DecodeIs
  <2> HIDE DEF items, t, labels, capacity
  <2>6. sizes \in Seq(Nat) /\ Len(sizes) = count /\ length \in Nat /\ count \in Nat
    BY <2>4, DataIs, LabelBytesIs, LenProperties
  <2>8. b \in Bodies /\ b.length = length /\ b.count = count /\ b.items = items
    <3>1. b = Honestly(Body(length, count, items, TRUE))
      BY <2>3 DEF ArrayAnswer
    <3>2. length \in Nat /\ count \in Nat /\ items \in Seq(LabelItem)
      BY <2>4, <2>6
    <3> HIDE DEF length, count
    <3> DEFINE h == Honestly(Body(length, count, items, TRUE))
    <3>3. h \in Bodies /\ h.length = length /\ h.count = count /\ h.items = items
      BY <3>2, HonestlyHas
    <3>4. b = h
      BY <3>1
    <3> HIDE DEF h
    <3> QED
      BY <3>3, <3>4
  <2>9. Filling(b, sizes) /\ b.count <= capacity
    BY <1>1, <2>4, <2>6, <2>8 DEF Filling
  <2>10. ArrayLabels(capacity, b) = LabelsWithin(capacity, b, sizes)
    BY <2>8 DEF ArrayLabels
  <2> HIDE DEF sizes
  <2> QED
    BY <1>1, <2>5, <2>6, <2>8, <2>9, <2>10, HonestLabels
<1>4. CASE r.call = "readRandomLabels"
  <2>1. t = TellsLabels("readRandomLabels", r)
    BY <1>4, ServiceIs
  <2>2. t.service = "readRandomLabels" /\ t.labels = labels
    BY <2>1 DEF TellsLabels
  <2>3. PICK items \in [DOMAIN labels -> LabelItems] : b = Honestly(RandomAnswer(items))
    BY <1>2, <2>2, HonestIs, ZenonT(60)
  <2> DEFINE sizes == RandomData(items)  length == LabelBytes(sizes)  count == Len(items)
  <2>4. items \in Seq(LabelItem) /\ Len(items) = Len(labels)
    BY <1>1, <2>3, ItemsAre
  <2>5. DecodeOf(s, r, b) = RandomLabels(capacity, b)
    BY <1>4, DecodeIs
  <2> HIDE DEF t, labels, capacity
  <2>6. sizes \in Seq(Nat) /\ Len(sizes) = count /\ length \in Nat /\ count \in Nat
    BY <2>4, DataIs, LabelBytesIs, LenProperties
  <2>8. b \in Bodies /\ b.length = length /\ b.count = count /\ b.items = items
    <3>1. b = Honestly(Body(length, count, items, TRUE))
      BY <2>3 DEF RandomAnswer
    <3>2. length \in Nat /\ count \in Nat /\ items \in Seq(LabelItem)
      BY <2>4, <2>6
    <3> HIDE DEF length, count
    <3> DEFINE h == Honestly(Body(length, count, items, TRUE))
    <3>3. h \in Bodies /\ h.length = length /\ h.count = count /\ h.items = items
      BY <3>2, HonestlyHas
    <3>4. b = h
      BY <3>1
    <3> HIDE DEF h
    <3> QED
      BY <3>3, <3>4
  <2>9. Filling(b, sizes) /\ b.count <= capacity
    BY <1>1, <2>4, <2>6, <2>8 DEF Filling
  <2>10. RandomLabels(capacity, b) = LabelsWithin(capacity, b, sizes)
    BY <2>8 DEF RandomLabels
  <2> HIDE DEF sizes
  <2> QED
    BY <1>1, <2>5, <2>6, <2>8, <2>9, <2>10, HonestLabels
<1> QED
  BY <1>3, <1>4 DEF LabelReads

LEMMA AnswersIs ==
  ASSUME NEW s \in Settings, NEW r \in Requests, registration[1] \in Nat, registration[2] \in Nat,
         r.call \notin LabelReads \cup {"selfTestLoopback"}, NEW t, t = BeginOf(s, r).tells,
         NEW b \in HonestBodies(t)
  PROVE  b \in Bodies /\ Answers(s, r, b)
<1>1. t.service \notin {"readLabels", "readRandomLabels", "selfTest"}
  BY ServiceIs DEF Tells, Services
<1>2. b = Honestly(Body(AnswerLength(t), 0, <<>>, TRUE))
  BY <1>1, HonestIs
<1>3. AnswerLength(t) \in Nat
  BY AnswerIsNat
<1> DEFINE length == AnswerLength(t)
           h == Honestly(Body(length, 0, <<>>, TRUE))
<1>4. length = AnswerLength(BeginOf(s, r).tells)
  OBVIOUS
<1>5. length \in Nat /\ 0 \in Nat /\ <<>> \in Seq(LabelItem)
  BY <1>3
<1>6. b = h
  BY <1>2
<1> HIDE DEF length
<1>7. h \in Bodies /\ h.length = length
  BY <1>5, HonestlyHas, ZenonT(60)
<1> HIDE DEF h
<1> QED
  BY <1>4, <1>6, <1>7 DEF Answers

(* What a begin call tells the PLC and what its decoder expects agree. *)
LEMMA HonestAccepted ==
  ASSUME NEW s \in Settings, NEW r \in Requests, Sent(s, r),
         registration[1] \in Nat, registration[2] \in Nat,
         r.call = "runMonitorCycle" => registration = <<r.points, r.dpoints>>,
         NEW b, b \in HonestBodies(BeginOf(s, r).tells)
  PROVE  DecodeOf(s, r, b).error = "Ok"
<1>1. CASE r.call \in LabelReads
  BY <1>1, LabelsAccepted
<1>2. CASE r.call = "selfTestLoopback"
  <2> DEFINE t == BeginOf(s, r).tells  n == r.points  k == 2
  <2>1. t = Tells("selfTest", k, <<n>>) /\ b \in HonestBodies(t)
    BY <1>2, ServiceIs
  <2> HIDE DEF t, n, k
  <2>2. t.service = "selfTest" /\ t.counts[1] = n /\ AnswerLength(t) = 2 + n
    BY <2>1, AnswerIs DEF Tells
  <2>3. b = Honestly(Body(AnswerLength(t), t.counts[1], <<>>, TRUE))
    BY <2>1, <2>2, HonestIs
  <2>4. b = Honestly(Body(2 + n, n, <<>>, TRUE))
    BY <2>2, <2>3
  <2>5. Echoed(r, b)
    BY <2>4 DEF Echoed, n
  <2> QED
    BY <1>2, <2>5, TestAccepted
<1>3. CASE r.call \notin LabelReads \cup {"selfTestLoopback"}
  <2>1. b \in Bodies /\ Answers(s, r, b)
    BY <1>3, AnswersIs
  <2>2. CASE r.call = "runMonitorCycle"
    BY <2>1, <2>2, CycleAccepted
  <2>3. CASE r.call \in {"writeArrayLabels", "writeRandomLabels"}
    <3>1. PICK service, size :
             service \in {"writeLabels", "writeRandomLabels"} /\ Asks(s, r, TellsLabels(service, r), size)
      BY <2>3, LabelBegin DEF LabelCalls
    <3>2. b.length = AnswerLength(TellsLabels(service, r))
      BY <2>1, <3>1, AnsweredBy
    <3>3. b.length = 0
      BY <3>1, <3>2, ListAnswerIs
    <3> QED
      BY <2>3, <3>3, NothingAccepted DEF CallsWithoutAnswer
  <2>4. CASE r.call \in RangeCalls
    BY <2>1, <2>4, RangeAccepted
  <2>5. CASE r.call \in RoutedCalls
    BY <2>1, <2>5, RoutedAccepted
  <2>6. CASE r.call \in CountedCalls
    BY <2>1, <2>6, CountedAccepted
  <2>7. CASE r.call \in RandomCalls
    BY <2>1, <2>7, RandomAccepted
  <2>8. CASE r.call = "readBlock"
    BY <2>1, <2>8, BlockAccepted
  <2>9. CASE r.call \in BareCalls \cup PasswordCalls \cup {"remoteRun", "remotePause"}
    BY <2>1, <2>9, PlainAccepted
  <2> QED
    BY <1>3, <2>2, <2>3, <2>4, <2>5, <2>6, <2>7, <2>8, <2>9, CallIs DEF LabelCalls, RandomCalls
<1> QED
  BY <1>1, <1>2, <1>3

(* For every request of every call, with any points, any buffers and any     *)
(* label data: the answer of a PLC that carries out what the frame tells it *)
(* is accepted.                                                             *)
THEOREM HonestAnswersAccepted == Spec => []HonestAnswerAccepted
<1>1. Init => HonestAnswerAccepted
  BY NoBodyIs DEF Init, HonestAnswerAccepted
<1>2. CallInv /\ HonestAnswerAccepted /\ [Next]_vars => HonestAnswerAccepted'
  <2> SUFFICES ASSUME CallInv, HonestAnswerAccepted, [Next]_vars PROVE HonestAnswerAccepted'
    OBVIOUS
  <2> USE DEF plcUnchanged
  <2>1. ASSUME NEW r \in Requests, Begin(r) PROVE HonestAnswerAccepted'
    <3>1. body' = body /\ body = NoBody
      BY <2>1 DEF Begin, CallInv, Reset
    <3> QED
      BY <3>1, NoBodyIs DEF HonestAnswerAccepted
  <2>2. ASSUME phase = "sent", NEW b \in HonestBodies(built.tells) \cup OddBodies(built.tells),
               PlcAnswers(b), b.honest
        PROVE  HonestAnswerAccepted'
    <3>1. /\ settings \in Settings /\ request \in Requests /\ Sent(settings, request)
          /\ built.tells = BeginOf(settings, request).tells
          /\ b \in Bodies /\ ~b.endCode /\ b \in HonestBodies(built.tells)
      BY <2>2, SentIs
    <3>2. /\ request' = request /\ settings' = settings /\ body' = b
          /\ verdict' = completeAsync(b).error /\ registration' = RegistrationDone
      BY <2>2 DEF PlcAnswers, Complete
    <3>3. registration[1] \in Nat /\ registration[2] \in Nat
      BY DEF CallInv
    <3>4. CASE settings.rxCapacity < PrefixSize(settings) + 2 + b.length
      BY <3>2, <3>4 DEF HonestAnswerAccepted, PrefixSize
    <3>5. CASE ~(settings.rxCapacity < PrefixSize(settings) + 2 + b.length)
      <4>1. verdict' = DecodeOf(settings, request, b).error
        BY <3>1, <3>2, <3>5 DEF completeAsync
      <4>2. CASE request.call = "runMonitorCycle" /\ registration # <<request.points, request.dpoints>>
        <5>1. registration' = registration
          BY <3>2, <4>2 DEF RegistrationDone, RegisterCalls
        <5> QED
          BY <3>2, <4>2, <5>1 DEF HonestAnswerAccepted
      <4>3. CASE ~(request.call = "runMonitorCycle" /\ registration # <<request.points, request.dpoints>>)
        <5>1. DecodeOf(settings, request, b).error = "Ok"
          BY <3>1, <3>3, <4>3, HonestAccepted
        <5> QED
          BY <4>1, <5>1 DEF HonestAnswerAccepted
      <4> QED
        BY <4>2, <4>3
    <3> QED
      BY <3>4, <3>5
  <2>3. ASSUME NEW b, PlcAnswers(b), ~b.honest PROVE HonestAnswerAccepted'
    BY <2>3 DEF PlcAnswers, Complete, HonestAnswerAccepted
  <2>4. CASE PlcRefuses
    BY <2>4, NoBodyIs DEF PlcRefuses, Complete, HonestAnswerAccepted
  <2>5. CASE ResetSent
    BY <2>5 DEF ResetSent, HonestAnswerAccepted
  <2>6. CASE NoAnswer
    <3>1. body' = body /\ body = NoBody
      BY <2>6 DEF NoAnswer, CallInv
    <3> QED
      BY <3>1, NoBodyIs DEF HonestAnswerAccepted
  <2>7. CASE PlcForgets
    <3>1. body' = body /\ body = NoBody
      BY <2>7 DEF PlcForgets, CallInv, Reset
    <3> QED
      BY <3>1, NoBodyIs DEF HonestAnswerAccepted
  <2>8. CASE Return
    BY <2>8 DEF Return, HonestAnswerAccepted
  <2>9. CASE UNCHANGED vars
    BY <2>9 DEF vars, HonestAnswerAccepted, PrefixSize
  <2> QED
    BY <2>1, <2>2, <2>3, <2>4, <2>5, <2>6, <2>7, <2>8, <2>9 DEF Next
<1> QED
  BY <1>1, <1>2, CallAlways, PTL DEF Spec
=============================================================================
