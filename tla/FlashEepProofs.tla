--------------------------- MODULE FlashEepProofs ---------------------------
(***************************************************************************)
(* The safety of FlashEep for every number and size of banks, every set of *)
(* objects and any number of power failures.                               *)
(***************************************************************************)
EXTENDS FlashEep, Sequences, WellFoundedInduction, TLAPS

\* A bank that reads blank is blank throughout.
BlankErased == \A b \in Banks : num[b] = Blank => rec[b] = ErasedBank

Packing == job.step \in {"erase", "occupy", "copy", "commit", "drop"}

\* The bank the running job works on, and the bank it packs into.
JobInv ==
  /\ job.step = "idle" => job = NoJob /\ \E b \in Banks : num[b] # Blank
  /\ Packing \/ job.step \in {"header", "data"} => num[job.bank] # Blank
  /\ Packing => num[job.bank] > 0
  /\ job.step = "number" => num[job.bank] = Blank
  /\ job.step = "occupy" => num[New] = Blank
  /\ job.step \in {"copy", "commit"} => num[New] = Top
  /\ job.step = "copy" => job.at \in Addrs /\ (job.at = 1 => rec[New] = ErasedBank)
  /\ job.step = "drop" => num[New] # Blank

EepInv == TypeOK /\ BlankErased /\ JobInv

\* Some bank has been numbered, except before the first start and between its
\* erase and its number.
NumberInv ==
  /\ job.step = "boot" => (\A b \in Banks : num[b] = Blank) \/ \E b \in Banks : num[b] < Top
  /\ job.step \in {"idle", "header", "data"} => \E b \in Banks : num[b] < Top
  /\ job.step \in {"erase", "occupy", "copy", "commit"} => Current = job.bank /\ num[job.bank] < Top
  /\ job.step = "drop" => num[New] < Top
  /\ job.step = "wipe" => \E b \in Banks :
       (b < job.bank /\ num[b] < Top) \/ (b >= job.bank /\ num[b] <= Top)
  /\ job.step = "number" => job.old <= Top \/ \E b \in Banks :
       (b < job.bank /\ num[b] < Top) \/ (b > job.bank /\ num[b] <= Top)
-----------------------------------------------------------------------------
(* Banks and their numbers.                                                *)

LEMMA LeastElement ==
  ASSUME NEW S \in SUBSET Nat, S # {}
  PROVE  \E m \in S : \A n \in S : m <= n
<1> DEFINE R == {p \in Nat \X Nat : p[1] < p[2]}
<1>1. OpToRel(<, Nat) = R BY DEF OpToRel
<1>2. IsWellFoundedOn(R, Nat) BY <1>1, NatLessThanWellFounded
<1>3. \A p, q \in Nat : <<p, q>> \in R <=> p < q OBVIOUS
<1> HIDE DEF R
<1>4. \E x \in S : \A y \in S : ~(<<y, x>> \in R) BY <1>2, WFMin, Zenon
<1>5. PICK x \in S : \A y \in S : ~(<<y, x>> \in R) BY <1>4
<1>6. ASSUME NEW y \in S PROVE x <= y
  <2>1. x \in Nat /\ y \in Nat OBVIOUS
  <2>2. ~(y < x) BY <1>3, <1>5, <2>1
  <2> QED BY <2>1, <2>2
<1> QED BY <1>6

Numbers == 0 .. Blank
Before(n, b) == \A c \in Banks : n[b] < n[c] \/ (n[b] = n[c] /\ b <= c)

LEMMA CurrentLeast ==
  ASSUME NEW n \in [Banks -> Numbers]
  PROVE  CurrentOf(n) \in Banks /\ Before(n, CurrentOf(n))
<1> USE EepAssumption
<1>1. 0 \in Banks /\ \A b \in Banks : b \in Nat /\ n[b] \in Nat BY DEF Banks, Numbers, Blank
<1> DEFINE S == {n[b] : b \in Banks}
<1>2. S \in SUBSET Nat /\ S # {} BY <1>1
<1>3. PICK least \in S : \A x \in S : least <= x BY <1>2, LeastElement
<1> DEFINE T == {b \in Banks : n[b] = least}
<1>4. T \in SUBSET Nat /\ T # {} BY <1>1, <1>3
<1>5. PICK b \in T : \A c \in T : b <= c BY <1>4, LeastElement
<1>6. b \in Banks /\ Before(n, b)
  <2>1. ASSUME NEW c \in Banks PROVE n[b] < n[c] \/ (n[b] = n[c] /\ b <= c)
    <3>1. n[b] = least /\ least <= n[c] BY <1>3, <1>5
    <3>2. n[b] \in Nat /\ n[c] \in Nat BY <1>1, <1>5
    <3>3. n[b] < n[c] \/ n[b] = n[c] BY <3>1, <3>2
    <3> QED BY <1>5, <3>1, <3>3
  <2> QED BY <1>5, <2>1 DEF Before
<1> QED BY <1>6 DEF CurrentOf, Before

LEMMA CurrentIs ==
  ASSUME NEW n \in [Banks -> Numbers], NEW b \in Banks, Before(n, b)
  PROVE  CurrentOf(n) = b
<1> USE EepAssumption
<1>1. CurrentOf(n) \in Banks /\ Before(n, CurrentOf(n)) BY CurrentLeast
<1> DEFINE c == CurrentOf(n)
<1>2. c \in Banks /\ Before(n, c) BY <1>1
<1> HIDE DEF c
<1>3. /\ b \in Nat /\ c \in Nat /\ n[b] \in Nat /\ n[c] \in Nat
  BY <1>2 DEF Banks, Numbers, Blank
<1>4. /\ n[b] < n[c] \/ (n[b] = n[c] /\ b <= c)
      /\ n[c] < n[b] \/ (n[c] = n[b] /\ c <= b)
  BY <1>2 DEF Before
<1>5. c = b BY <1>3, <1>4
<1> QED BY <1>5 DEF c

LEMMA NextBank ==
  ASSUME NEW b \in Banks
  PROVE  Next(b) \in Banks /\ Next(b) # b
<1> USE EepAssumption DEF Banks
<1>1. CASE b + 1 < NumBanks
  <2>1. (b + 1) % NumBanks = b + 1 BY <1>1
  <2> QED BY <1>1, <2>1 DEF Next
<1>2. CASE b + 1 >= NumBanks
  <2>1. b + 1 = NumBanks BY <1>2
  <2>2. NumBanks % NumBanks = 0 OBVIOUS
  <2> QED BY <1>2, <2>1, <2>2 DEF Next
<1> QED BY <1>1, <1>2
-----------------------------------------------------------------------------
(* Words, and the scan of a bank.                                          *)

Headers == {"hdr"} \X (SUBSET UNION Ids) \X (0 .. MaxSize)
BankTypes == [Addrs -> Words]

LEMMA WordKinds ==
  ASSUME NEW w \in Words, IsHdr(w)
  PROVE  w \in Headers /\ w[3] \in 0 .. MaxSize /\ w[2] \in SUBSET UNION Ids
<1>1. w \notin {<<"dat", v, i>> : v \in AllValues, i \in 1 .. MaxSize} BY DEF IsHdr
<1>2. w \in Headers BY <1>1 DEF Words, IsHdr, Headers
<1> QED BY <1>2 DEF Headers

LEMMA SizeOfType ==
  ASSUME NEW w \in Words
  PROVE  SizeOf(w) \in 0 .. MaxSize
BY EepAssumption, WordKinds DEF SizeOf

LEMMA BurnType ==
  ASSUME NEW old \in Words, NEW new \in Words
  PROVE  Burn(old, new) \in Words
<1>1. CASE IsHdr(old) /\ IsHdr(new)
  <2>1. /\ old[2] \cap new[2] \in SUBSET UNION Ids
        /\ (IF old[3] = new[3] THEN old[3] ELSE 0) \in 0 .. MaxSize
    BY <1>1, WordKinds, EepAssumption
  <2>2. <<"hdr", old[2] \cap new[2], IF old[3] = new[3] THEN old[3] ELSE 0>> \in Words
    BY <2>1 DEF Words
  <2> QED BY <1>1, <2>2 DEF Burn
<1>2. CASE ~(IsHdr(old) /\ IsHdr(new))
  <2>1. Garbage \in Words BY DEF Words
  <2> QED BY <1>2, <2>1 DEF Burn
<1> QED BY <1>1, <1>2

LEMMA WriteType ==
  ASSUME NEW r \in BankTypes, NEW a, NEW ws, \A k \in DOMAIN ws : ws[k] \in Words
  PROVE  Write(r, a, ws) \in BankTypes
<1>1. ASSUME NEW x \in Addrs
      PROVE  (IF x - a + 1 \in DOMAIN ws THEN Burn(r[x], ws[x - a + 1]) ELSE r[x]) \in Words
  <2>1. r[x] \in Words BY DEF BankTypes
  <2> QED BY <2>1, BurnType
<1> QED BY <1>1 DEF Write, BankTypes

LEMMA ErasedType == ErasedBank \in BankTypes
BY DEF ErasedBank, BankTypes, Words

\* The equation the scan of a bank is defined by ...
ScanTop == BankWords + MaxSize
Stops(r, a) == a >= BankWords - 1 \/ r[a] = FF
ScanBody(r, f) ==
  [a \in 1 .. ScanTop |-> {a} \cup (IF Stops(r, a) THEN {} ELSE f[a + 1 + SizeOf(r[a])])]

LEMMA ChainScans ==
  ASSUME NEW r, \E f : f = ScanBody(r, f)
  PROVE  \E f : f = ScanBody(r, f) /\ Chain(r) = f[1]
BY DEF Chain, ScanBody, Stops, ScanTop

LEMMA ScanSteps ==
  ASSUME NEW r \in BankTypes, NEW a \in 1 .. ScanTop, ~Stops(r, a)
  PROVE  a + 1 + SizeOf(r[a]) \in 1 .. ScanTop /\ a + 1 + SizeOf(r[a]) > a
<1> USE EepAssumption
<1>1. a < BankWords - 1 /\ a \in Addrs BY DEF Stops, Addrs
<1>2. SizeOf(r[a]) \in 0 .. MaxSize BY <1>1, SizeOfType DEF BankTypes
<1> QED BY <1>1, <1>2 DEF ScanTop

\* ... has a solution: what can be reached from an address ...
Closed(r, S) == \A x \in S : Stops(r, x) \/ x + 1 + SizeOf(r[x]) \in S
Reached(r, a) ==
  {b \in 1 .. ScanTop : \A S \in SUBSET (1 .. ScanTop) : a \in S /\ Closed(r, S) => b \in S}

LEMMA ScanExists ==
  ASSUME NEW r \in BankTypes
  PROVE  \E f : f = ScanBody(r, f)
<1> DEFINE f == [a \in 1 .. ScanTop |-> Reached(r, a)]
<1>1. ASSUME NEW a \in 1 .. ScanTop
      PROVE  Reached(r, a) = {a} \cup (IF Stops(r, a) THEN {} ELSE f[a + 1 + SizeOf(r[a])])
  <2> DEFINE n == a + 1 + SizeOf(r[a])
  <2>1. a \in Reached(r, a) BY DEF Reached
  <2>2. CASE Stops(r, a)
    <3>1. {a} \in SUBSET (1 .. ScanTop) /\ Closed(r, {a}) BY <2>2 DEF Closed
    <3>2. Reached(r, a) \subseteq {a} BY <3>1 DEF Reached
    <3> QED BY <2>1, <2>2, <3>2
  <2>3. CASE ~Stops(r, a)
    <3>1. n \in 1 .. ScanTop BY <2>3, ScanSteps
    <3>2. f[n] = Reached(r, n) BY <3>1
    <3> HIDE DEF f
    <3>3. ASSUME NEW b \in Reached(r, n) PROVE b \in Reached(r, a)
      <4>1. ASSUME NEW S \in SUBSET (1 .. ScanTop), a \in S, Closed(r, S) PROVE b \in S
        <5>1. n \in S BY <2>3, <4>1 DEF Closed
        <5> QED BY <3>3, <4>1, <5>1 DEF Reached
      <4> QED BY <3>3, <4>1 DEF Reached
    <3>4. ASSUME NEW b \in Reached(r, a), b # a PROVE b \in Reached(r, n)
      <4>1. ASSUME NEW S \in SUBSET (1 .. ScanTop), n \in S, Closed(r, S) PROVE b \in S
        <5>1. S \cup {a} \in SUBSET (1 .. ScanTop) OBVIOUS
        <5>2. Closed(r, S \cup {a}) BY <4>1 DEF Closed
        <5>3. b \in S \cup {a} BY <3>4, <5>1, <5>2 DEF Reached
        <5> QED BY <3>4, <5>3
      <4> QED BY <3>4, <4>1 DEF Reached
    <3>5. Reached(r, a) = {a} \cup Reached(r, n) BY <2>1, <3>3, <3>4
    <3> QED BY <2>3, <3>2, <3>5
  <2> QED BY <2>2, <2>3
<1>2. f = ScanBody(r, f) BY <1>1 DEF ScanBody
<1> HIDE DEF f
<1> QED BY <1>2

\* ... and every solution leads from any address on to an end of the scan.
LEMMA ScanEnds ==
  ASSUME NEW r \in BankTypes, NEW f, f = ScanBody(r, f), NEW a \in 1 .. ScanTop
  PROVE  f[a] \subseteq 1 .. ScanTop /\ \E b \in f[a] : Stops(r, b)
<1> USE EepAssumption
<1> DEFINE Ends(x) == f[x] \subseteq 1 .. ScanTop /\ \E b \in f[x] : Stops(r, b)
           Bad == {k \in Nat : ScanTop - k \in 1 .. ScanTop /\ ~Ends(ScanTop - k)}
<1>1. ScanTop \in Nat /\ ScanTop >= 3 BY DEF ScanTop
<1>2. \A x \in 1 .. ScanTop :
        f[x] = {x} \cup (IF Stops(r, x) THEN {} ELSE f[x + 1 + SizeOf(r[x])])
  BY DEF ScanBody
<1>3. SUFFICES ASSUME Bad # {} PROVE FALSE
  <2>1. ASSUME ~Ends(a) PROVE ScanTop - a \in Bad
    <3>1. ScanTop - a \in Nat /\ ScanTop - (ScanTop - a) = a BY <1>1
    <3> HIDE DEF Ends
    <3> QED BY <2>1, <3>1
  <2> QED BY <2>1
<1>4. Bad \in SUBSET Nat OBVIOUS
<1>5. PICK k \in Bad : \A j \in Bad : k <= j
  <2> HIDE DEF Bad
  <2> QED BY <1>3, <1>4, LeastElement
<1>6. PICK x \in 1 .. ScanTop : x = ScanTop - k OBVIOUS
<1>7. ~Ends(x) BY <1>6
<1>8. CASE Stops(r, x)
  <2>1. f[x] = {x} BY <1>2, <1>8
  <2> QED BY <1>7, <1>8, <2>1
<1>9. CASE ~Stops(r, x)
  <2> DEFINE y == x + 1 + SizeOf(r[x])
  <2>1. y \in 1 .. ScanTop /\ y > x BY <1>9, ScanSteps
  <2>2. f[x] = {x} \cup f[y] BY <1>2, <1>9
  <2> HIDE DEF y
  <2>3. Ends(y)
    <3>1. ScanTop - y \in Nat /\ ScanTop - (ScanTop - y) = y /\ ~(k <= ScanTop - y)
      BY <1>1, <1>6, <2>1
    <3>2. ScanTop - y \notin Bad
      <4> HIDE DEF Bad
      <4> QED BY <1>5, <3>1
    <3> HIDE DEF Ends
    <3> QED BY <2>1, <3>1, <3>2
  <2>4. Ends(x) BY <2>2, <2>3
  <2> QED BY <1>7, <2>4
<1> QED BY <1>8, <1>9

LEMMA EndFound ==
  ASSUME NEW r \in BankTypes
  PROVE  EndOf(r) \in 1 .. ScanTop
<1> USE EepAssumption
<1>1. PICK f : f = ScanBody(r, f) /\ Chain(r) = f[1] BY ScanExists, ChainScans
<1>2. 1 \in 1 .. ScanTop BY DEF ScanTop
<1>3. Chain(r) \subseteq 1 .. ScanTop /\ \E b \in Chain(r) : Stops(r, b) BY <1>1, <1>2, ScanEnds
<1> QED BY <1>3 DEF EndOf, Stops

LEMMA SavePlace ==
  ASSUME NEW r \in BankTypes, NEW n
  PROVE  SaveAddr(r, n) \in 0 .. BankWords + MaxSize
<1>1. EndOf(r) \in 1 .. BankWords + MaxSize BY EndFound DEF ScanTop
<1>2. 0 \in 0 .. BankWords + MaxSize BY EepAssumption
<1> QED BY <1>1, <1>2, EepAssumption DEF SaveAddr

\* There is nothing in an erased bank.
LEMMA NothingErased ==
  ASSUME NEW id
  PROVE  Find(ErasedBank, id) = {}
<1> USE EepAssumption
<1>1. PICK f : f = ScanBody(ErasedBank, f) /\ Chain(ErasedBank) = f[1]
  BY ErasedType, ScanExists, ChainScans
<1>2. 1 \in 1 .. ScanTop /\ 1 \in Addrs BY DEF ScanTop, Addrs
<1>3. Stops(ErasedBank, 1) BY <1>2 DEF Stops, ErasedBank
<1>4. f[1] = {1} BY <1>1, <1>2, <1>3 DEF ScanBody
<1>5. ErasedBank[1] = FF BY <1>2 DEF ErasedBank
<1> QED BY <1>1, <1>4, <1>5 DEF Find, Records
-----------------------------------------------------------------------------
(* Types.                                                                  *)

Jobs == [step : Steps, id : Ids, val : AllValues, bank : Banks,
         at : 0 .. BankWords + MaxSize, old : Numbers]

LEMMA JobTypes ==
  /\ NoJob \in Jobs /\ NoJob.step = "idle" /\ NoJob.bank = 0
  /\ BootJob \in Jobs /\ BootJob.step = "boot"
  /\ 0 \in Banks /\ 0 \in 0 .. BankWords + MaxSize /\ 0 \in Numbers /\ Top \in Numbers
  /\ Top < Blank /\ Blank \in Numbers
<1> USE EepAssumption
<1>1. (CHOOSE v \in Values[VER] : TRUE) \in AllValues BY DEF AllValues
<1>2. /\ 0 \in Banks /\ 0 \in 0 .. BankWords + MaxSize /\ 0 \in Numbers /\ Top \in Numbers
      /\ Top < Blank /\ Blank \in Numbers
  BY DEF Banks, Numbers, Blank
<1>3. "idle" \in Steps /\ "boot" \in Steps BY DEF Steps
<1>4. NoJob \in Jobs /\ NoJob.step = "idle" /\ NoJob.bank = 0 BY <1>1, <1>2, <1>3 DEF NoJob, Jobs
<1>5. BootJob \in Jobs /\ BootJob.step = "boot" BY <1>3, <1>4 DEF BootJob, Jobs
<1> QED BY <1>2, <1>4, <1>5

LEMMA EepTyped ==
  TypeOK <=> /\ num \in [Banks -> Numbers] /\ rec \in [Banks -> BankTypes]
             /\ job \in Jobs /\ crashes \in 0 .. MaxCrashes
BY DEF TypeOK, Numbers, BankTypes, Jobs

LEMMA InitEep == Init => EepInv /\ NumberInv
<1> SUFFICES ASSUME Init PROVE EepInv /\ NumberInv OBVIOUS
<1> USE EepAssumption, JobTypes
<1>1. num \in [Banks -> Numbers] BY DEF Init
<1>2. rec \in [Banks -> BankTypes] BY ErasedType DEF Init
<1>3. job = BootJob /\ crashes \in 0 .. MaxCrashes BY DEF Init
<1>4. TypeOK BY <1>1, <1>2, <1>3, EepTyped
<1>5. BlankErased BY DEF Init, BlankErased
<1>6. \A b \in Banks : num[b] = Blank BY DEF Init
<1> QED BY <1>3, <1>4, <1>5, <1>6 DEF EepInv, JobInv, NumberInv, Packing

\* A blank store is given its first number.
LEMMA ClaimedFacts ==
  ASSUME TypeOK
  PROVE  /\ Claimed \in [Banks -> Numbers]
         /\ (\E b \in Banks : num[b] # Blank) => Claimed = num
         /\ (\A b \in Banks : num[b] = Blank) =>
              /\ Claimed[0] = Top /\ Current = 0
              /\ \A b \in Banks : b # 0 => Claimed[b] = Blank
         /\ Current \in Banks /\ Claimed[Current] # Blank
         /\ \A b \in Banks : Claimed[b] = Blank => num[b] = Blank
<1> USE JobTypes
<1>1. num \in [Banks -> Numbers] BY EepTyped
<1>2. Current \in Banks /\ Before(num, Current) BY <1>1, CurrentLeast DEF Current
<1>3. CASE \A b \in Banks : num[b] = Blank
  <2>1. Claimed = [num EXCEPT ![0] = Top] BY <1>3 DEF Claimed
  <2>2. Claimed \in [Banks -> Numbers] /\ Claimed[0] = Top
        /\ \A b \in Banks : b # 0 => Claimed[b] = Blank
    BY <1>1, <1>3, <2>1
  <2>3. Current = 0
    <3>1. Before(num, 0) BY <1>3, EepAssumption DEF Before, Banks
    <3> QED BY <1>1, <3>1, CurrentIs DEF Current
  <2>4. Top # Blank BY EepAssumption
  <2> QED BY <1>3, <2>2, <2>3, <2>4
<1>4. CASE \E b \in Banks : num[b] # Blank
  <2>1. Claimed = num BY <1>4 DEF Claimed
  <2>2. num[Current] # Blank
    <3>1. PICK b \in Banks : num[b] # Blank BY <1>4
    <3>2. \A c \in Banks : num[c] \in Nat /\ num[c] <= Blank
      BY <1>1, EepAssumption DEF Numbers, Blank
    <3>3. num[Current] < num[b] \/ num[Current] = num[b] BY <1>2, <3>1 DEF Before
    <3>4. num[b] < Blank
      <4>1. Blank \in Nat BY EepAssumption DEF Blank
      <4> QED BY <3>1, <3>2, <4>1
    <3>5. Blank \in Nat BY EepAssumption DEF Blank
    <3> QED BY <1>2, <3>2, <3>3, <3>4, <3>5
  <2> QED BY <1>1, <1>2, <1>4, <2>1, <2>2
<1> QED BY <1>3, <1>4

LEMMA SaveBegins ==
  ASSUME TypeOK, NEW id \in Ids, NEW v \in Values[id], NEW cur \in Banks, BeginSave(id, v, cur)
  PROVE  /\ job' \in Jobs
         /\ \/ job' = NoJob
            \/ job'.step = "header" /\ job'.bank = cur
            \/ /\ job'.step \in {"erase", "occupy"} /\ job'.bank = cur
               /\ num[cur] > 0 /\ num[cur] \in Nat
               /\ job'.step = "occupy" => num[Next(cur)] = Blank
<1> USE EepAssumption, JobTypes
<1> DEFINE at == SaveAddr(rec[cur], Size[v])
           Go(step) == job' = [NoJob EXCEPT !.step = step, !.id = id, !.val = v, !.bank = cur, !.at = at]
<1>1. num \in [Banks -> Numbers] /\ rec[cur] \in BankTypes /\ crashes \in Nat BY EepTyped
<1>2. at \in 0 .. BankWords + MaxSize BY <1>1, SavePlace
<1>3. v \in AllValues BY DEF AllValues
<1>4. num[cur] \in Nat BY <1>1 DEF Numbers, Blank
<1> HIDE DEF at
<1>5. ASSUME NEW step \in Steps, Go(step) PROVE job' \in Jobs /\ job'.step = step /\ job'.bank = cur
  BY <1>2, <1>3, <1>5 DEF Jobs
<1>6. \/ job' = NoJob
      \/ Go("header")
      \/ num[cur] > crashes /\ Go(IF NeedsErase(Next(cur)) THEN "erase" ELSE "occupy")
  BY DEF BeginSave, at
<1> HIDE DEF Go
<1>7. "header" \in Steps /\ "erase" \in Steps /\ "occupy" \in Steps BY DEF Steps
<1>8. CASE job' = NoJob BY <1>8
<1>9. CASE Go("header") BY <1>5, <1>7, <1>9
<1>10. CASE num[cur] > crashes /\ Go(IF NeedsErase(Next(cur)) THEN "erase" ELSE "occupy")
  <2>1. num[cur] > 0 BY <1>1, <1>4, <1>10
  <2>2. CASE NeedsErase(Next(cur))
    <3>1. Go("erase") BY <1>10, <2>2
    <3> QED BY <1>4, <1>5, <1>7, <2>1, <3>1
  <2>3. CASE ~NeedsErase(Next(cur))
    <3>1. Go("occupy") BY <1>10, <2>3
    <3>2. num[Next(cur)] = Blank BY <2>3 DEF NeedsErase
    <3> QED BY <1>4, <1>5, <1>7, <2>1, <3>1, <3>2
  <2> QED BY <2>2, <2>3
<1> QED BY <1>6, <1>8, <1>9, <1>10

\* What is copied, and what is written, are words.
LEMMA CopyTyped ==
  ASSUME TypeOK, NEW n
  PROVE  CopyWords(n) \in BankTypes
<1> DEFINE old == rec[job.bank]
           src == Last(old, old[job.at][2])
           ws  == [i \in 1 .. n |-> WordAt(old, src + i - 1)]
<1>1. old \in BankTypes /\ rec[New] \in BankTypes BY EepTyped, NextBank DEF Jobs, New
<1>2. \A a : WordAt(old, a) \in Words
  <2> HIDE DEF old
  <2> QED BY <1>1 DEF WordAt, BankTypes, Words
<1>3. \A k \in DOMAIN ws : ws[k] \in Words BY <1>2
<1>4. CopyWords(n) = Write(rec[New], 1, ws) BY DEF CopyWords
<1> HIDE DEF ws
<1> QED BY <1>1, <1>3, <1>4, WriteType

LEMMA WordsTyped ==
  ASSUME TypeOK
  PROVE  /\ Size[job.val] \in 0 .. MaxSize
         /\ Write(rec[job.bank], job.at, <<Header>>) \in BankTypes
         /\ \A n \in 0 .. Size[job.val] : WriteWords(n) \in BankTypes
<1> USE EepAssumption
<1>1. rec[job.bank] \in BankTypes /\ job.val \in AllValues /\ job.id \in Ids BY EepTyped DEF Jobs
<1>2. Size[job.val] \in 0 .. MaxSize BY <1>1 DEF AllValues
<1>3. Header \in Words
  <2>1. job.id \in SUBSET UNION Ids BY <1>1
  <2> QED BY <1>2, <2>1 DEF Header, Words
<1>4. \A k \in DOMAIN <<Header>> : <<Header>>[k] \in Words
  <2> HIDE DEF Header
  <2> QED BY <1>3
<1>5. ASSUME NEW n \in 0 .. Size[job.val] PROVE WriteWords(n) \in BankTypes
  <2> DEFINE ws == [i \in 1 .. n |-> <<"dat", job.val, i>>]
  <2>1. \A i \in 1 .. n : i \in 1 .. MaxSize BY <1>2
  <2>2. \A i \in 1 .. n : <<"dat", job.val, i>> \in Words BY <1>1, <2>1 DEF Words
  <2>3. \A k \in DOMAIN ws : ws[k] \in Words BY <2>2
  <2>4. WriteWords(n) = Write(rec[job.bank], job.at + 1, ws) BY DEF WriteWords
  <2> HIDE DEF ws
  <2> QED BY <1>1, <2>3, <2>4, WriteType
<1>6. Write(rec[job.bank], job.at, <<Header>>) \in BankTypes BY <1>1, <1>4, WriteType
<1> QED BY <1>2, <1>5, <1>6

LEMMA NextEepType ==
  ASSUME EepInv, [NextStep]_vars
  PROVE  EepInv'
<1> USE EepAssumption, JobTypes
<1>a. /\ num \in [Banks -> Numbers] /\ rec \in [Banks -> BankTypes]
      /\ job \in Jobs /\ crashes \in 0 .. MaxCrashes
  BY EepTyped DEF EepInv
<1>b. TypeOK' <=> /\ num' \in [Banks -> Numbers] /\ rec' \in [Banks -> BankTypes]
                  /\ job' \in Jobs /\ crashes' \in 0 .. MaxCrashes
  BY DEF TypeOK, Numbers, BankTypes, Jobs
<1>c. PICK o \in Banks, n \in Banks : o = job.bank /\ n = New /\ n = Next(o) /\ n # o
  BY <1>a, NextBank DEF Jobs, New
<1>d. \A b \in Banks : num[b] \in Nat /\ num[b] <= Blank BY <1>a DEF Numbers, Blank
<1>e. /\ "wipe" \in Steps /\ "number" \in Steps /\ "header" \in Steps /\ "data" \in Steps
      /\ "occupy" \in Steps /\ "copy" \in Steps /\ "commit" \in Steps /\ "drop" \in Steps
  BY DEF Steps
<1>f. ErasedBank \in BankTypes BY ErasedType
<1>g. job.bank \in Banks /\ job.val \in AllValues /\ job.id \in Ids /\ job.old \in Numbers
      /\ job.at \in 0 .. BankWords + MaxSize
  BY <1>a DEF Jobs
<1>1. ASSUME NEW id \in Ids, NEW v \in Values[id], BeginSave(id, v, Current), num' = Claimed,
             UNCHANGED <<rec, crashes>>
      PROVE  EepInv'
  <2>1. /\ num' \in [Banks -> Numbers] /\ Current \in Banks /\ num'[Current] # Blank
        /\ (\E b \in Banks : num[b] # Blank) => num' = num
        /\ (\A b \in Banks : num[b] = Blank) => num'[0] = Top /\ Current = 0
             /\ \A b \in Banks : b # 0 => num'[b] = Blank
        /\ \A b \in Banks : num'[b] = Blank => num[b] = Blank
    BY <1>1, ClaimedFacts DEF EepInv
  <2>2. PICK cur \in Banks : cur = Current BY <2>1
  <2>3. /\ job' \in Jobs
        /\ \/ job' = NoJob
           \/ job'.step = "header" /\ job'.bank = cur
           \/ /\ job'.step \in {"erase", "occupy"} /\ job'.bank = cur
              /\ num[cur] > 0 /\ num[cur] \in Nat
              /\ job'.step = "occupy" => num[Next(cur)] = Blank
    BY <1>1, <2>2, SaveBegins DEF EepInv
  <2>4. TypeOK' BY <1>a, <1>b, <1>1, <2>1, <2>3
  <2>5. BlankErased' BY <1>1, <2>1 DEF BlankErased, EepInv
  <2>6. JobInv'
    <3>1. CASE job' = NoJob BY <2>1, <3>1 DEF JobInv, Packing
    <3>2. CASE job'.step = "header" /\ job'.bank = cur BY <2>1, <2>2, <3>2 DEF JobInv, Packing
    <3>3. CASE /\ job'.step \in {"erase", "occupy"} /\ job'.bank = cur
               /\ num[cur] > 0 /\ num[cur] \in Nat
               /\ job'.step = "occupy" => num[Next(cur)] = Blank
      <4>1. num'[cur] # Blank BY <2>1, <2>2
      <4>2. num'[cur] > 0
        <5>1. CASE \A b \in Banks : num[b] = Blank BY <2>1, <2>2, <5>1
        <5>2. CASE \E b \in Banks : num[b] # Blank BY <2>1, <3>3, <5>2
        <5> QED BY <5>1, <5>2
      <4>3. job'.step = "occupy" => num'[Next(cur)] = Blank
        <5>1. Next(cur) \in Banks /\ Next(cur) # cur BY NextBank
        <5>2. CASE \A b \in Banks : num[b] = Blank BY <2>1, <2>2, <5>1, <5>2
        <5>3. CASE \E b \in Banks : num[b] # Blank BY <2>1, <3>3, <5>3
        <5> QED BY <5>2, <5>3
      <4> QED BY <3>3, <4>1, <4>2, <4>3 DEF JobInv, Packing, New
    <3> QED BY <2>3, <3>1, <3>2, <3>3
  <2> QED BY <2>4, <2>5, <2>6 DEF EepInv
<1>2. CASE \E v \in Values[VER] : CheckVersion(v)
  <2>1. PICK v \in Values[VER] : CheckVersion(v) BY <1>2
  <2>2. CASE BeginSave(VER, v, Current) BY <1>1, <2>1, <2>2 DEF CheckVersion
  <2>3. CASE job' = [NoJob EXCEPT !.step = "wipe", !.val = v]
    <3>1. v \in AllValues BY DEF AllValues
    <3>2. job' \in Jobs /\ job'.step = "wipe" BY <1>e, <2>3, <3>1 DEF Jobs
    <3>3. num' \in [Banks -> Numbers] /\ \A b \in Banks : num'[b] = Blank => num[b] = Blank
      BY <2>1, ClaimedFacts DEF EepInv, CheckVersion
    <3>4. UNCHANGED <<rec, crashes>> BY <2>1 DEF CheckVersion
    <3>5. TypeOK' BY <1>a, <1>b, <3>2, <3>3, <3>4
    <3>6. BlankErased' BY <3>3, <3>4 DEF BlankErased, EepInv
    <3>7. JobInv' BY <3>2 DEF JobInv, Packing
    <3> QED BY <3>5, <3>6, <3>7 DEF EepInv
  <2> QED BY <2>1, <2>2, <2>3 DEF CheckVersion
<1>3. CASE \E id \in Ids \ {VER} : \E v \in Values[id] : Save(id, v)
  BY <1>1, <1>3 DEF Save
<1>4. CASE WipeBank
  <2>1. /\ job.step = "wipe" /\ num' = [num EXCEPT ![o] = Blank]
        /\ rec' = [rec EXCEPT ![o] = ErasedBank]
        /\ job' = [job EXCEPT !.step = "number", !.old = num[o]] /\ crashes' = crashes
    BY <1>c, <1>4 DEF WipeBank
  <2>2. num' \in [Banks -> Numbers] BY <1>a, <2>1
  <2>3. rec' \in [Banks -> BankTypes] BY <1>a, <1>f, <2>1
  <2>4. job' \in Jobs /\ job'.step = "number" /\ job'.bank = o
    <3>1. num[o] \in Numbers BY <1>a
    <3> QED BY <1>a, <1>c, <1>e, <2>1, <3>1 DEF Jobs
  <2>5. TypeOK' BY <1>a, <1>b, <2>1, <2>2, <2>3, <2>4
  <2>6. BlankErased' BY <1>a, <2>1 DEF BlankErased, EepInv
  <2>7. num'[o] = Blank BY <1>a, <2>1
  <2>8. JobInv' BY <2>4, <2>7 DEF JobInv, Packing
  <2> QED BY <2>5, <2>6, <2>8 DEF EepInv
<1>5. CASE NumberBank
  <2>1. /\ job.step = "number" /\ job.old > 0 /\ num' = [num EXCEPT ![o] = job.old - 1]
        /\ rec' = rec /\ crashes' = crashes
    BY <1>c, <1>5 DEF NumberBank
  <2>2. job.old - 1 \in Numbers /\ job.old - 1 < Blank /\ job.old - 1 # Blank
    BY <1>g, <2>1 DEF Numbers, Blank
  <2>3. num' \in [Banks -> Numbers] BY <1>a, <2>1, <2>2
  <2>4. num'[o] = job.old - 1 BY <1>a, <2>1
  <2>5. BlankErased' BY <1>a, <2>1, <2>2 DEF BlankErased, EepInv
  <2>6. PICK c \in Banks : c = CurrentOf(num') /\ num'[c] # Blank
    <3>1. CurrentOf(num') \in Banks /\ Before(num', CurrentOf(num')) BY <2>3, CurrentLeast
    <3>2. PICK c \in Banks : c = CurrentOf(num') BY <3>1
    <3>3. num'[c] < num'[o] \/ num'[c] = num'[o] BY <3>1, <3>2 DEF Before
    <3>4. num'[c] \in Nat /\ num'[o] \in Nat /\ Blank \in Nat BY <2>3 DEF Numbers, Blank
    <3>5. num'[c] # Blank BY <2>2, <2>4, <3>3, <3>4
    <3> QED BY <3>2, <3>5
  <2>7. CASE job' = [job EXCEPT !.step = "wipe", !.bank = job.bank + 1] /\ job.bank + 1 \in Banks
    <3>1. job' \in Jobs /\ job'.step = "wipe" BY <1>a, <1>e, <2>7 DEF Jobs
    <3>2. TypeOK' BY <1>a, <1>b, <2>1, <2>3, <3>1
    <3>3. JobInv' BY <3>1 DEF JobInv, Packing
    <3> QED BY <2>5, <3>2, <3>3 DEF EepInv
  <2>8. CASE job' = [job EXCEPT !.step = "header", !.at = 1, !.bank = c, !.old = 0]
    <3>1. 1 \in 0 .. BankWords + MaxSize OBVIOUS
    <3>2. job' \in Jobs /\ job'.step = "header" /\ job'.bank = c BY <1>a, <1>e, <2>8, <3>1 DEF Jobs
    <3>3. TypeOK' BY <1>a, <1>b, <2>1, <2>3, <3>2
    <3>4. JobInv' BY <2>6, <3>2 DEF JobInv, Packing
    <3> QED BY <2>5, <3>3, <3>4 DEF EepInv
  <2>9. CASE job.bank + 1 \in Banks BY <1>5, <2>7, <2>9 DEF NumberBank
  <2>10. CASE job.bank + 1 \notin Banks BY <1>5, <2>6, <2>8, <2>10 DEF NumberBank
  <2> QED BY <2>9, <2>10
<1>6. CASE EraseNew
  <2>1. /\ job.step = "erase" /\ num' = [num EXCEPT ![n] = Blank]
        /\ rec' = [rec EXCEPT ![n] = ErasedBank]
        /\ job' = [job EXCEPT !.step = "occupy"] /\ crashes' = crashes
    BY <1>c, <1>6 DEF EraseNew
  <2>2. num' \in [Banks -> Numbers] BY <1>a, <2>1
  <2>3. rec' \in [Banks -> BankTypes] BY <1>a, <1>f, <2>1
  <2>4. job' \in Jobs /\ job'.step = "occupy" /\ job'.bank = o
    BY <1>a, <1>c, <1>e, <2>1 DEF Jobs
  <2>5. TypeOK' BY <1>a, <1>b, <2>1, <2>2, <2>3, <2>4
  <2>6. BlankErased' BY <1>a, <2>1 DEF BlankErased, EepInv
  <2>7. num[o] # Blank /\ num[o] > 0 BY <1>c, <2>1 DEF EepInv, JobInv, Packing
  <2>8. num'[n] = Blank /\ num'[o] = num[o] BY <1>a, <1>c, <2>1
  <2>9. JobInv' BY <1>c, <2>4, <2>7, <2>8 DEF JobInv, Packing, New
  <2> QED BY <2>5, <2>6, <2>9 DEF EepInv
<1>7. CASE Occupy
  <2>1. /\ job.step = "occupy" /\ num' = [num EXCEPT ![n] = Top]
        /\ job' = [job EXCEPT !.step = "copy", !.at = 1] /\ rec' = rec /\ crashes' = crashes
    BY <1>c, <1>7 DEF Occupy
  <2>2. num' \in [Banks -> Numbers] BY <1>a, <2>1
  <2>3. 1 \in 0 .. BankWords + MaxSize /\ 1 \in Addrs BY DEF Addrs
  <2>4. job' \in Jobs /\ job'.step = "copy" /\ job'.bank = o /\ job'.at = 1
    BY <1>a, <1>c, <1>e, <2>1, <2>3 DEF Jobs
  <2>5. TypeOK' BY <1>a, <1>b, <2>1, <2>2, <2>4
  <2>6. BlankErased' BY <1>a, <2>1 DEF BlankErased, EepInv
  <2>7. num[o] # Blank /\ num[o] > 0 /\ num[n] = Blank BY <1>c, <2>1 DEF EepInv, JobInv, Packing
  <2>8. num'[n] = Top /\ num'[o] = num[o] /\ rec'[n] = ErasedBank
    BY <1>a, <1>c, <2>1, <2>7 DEF EepInv, BlankErased
  <2>9. JobInv' BY <1>c, <2>3, <2>4, <2>7, <2>8 DEF JobInv, Packing, New
  <2> QED BY <2>5, <2>6, <2>9 DEF EepInv
<1>8. CASE CopyRecord
  <2>1. PICK w : w = rec[o][job.at] BY <1>c
  <2>2. /\ job.step = "copy"
        /\ rec' = IF Copies(w) THEN [rec EXCEPT ![n] = CopyWords(1 + SizeOf(w))] ELSE rec
        /\ job' = [job EXCEPT !.at = @ + 1 + SizeOf(w),
                              !.step = IF job.at + 1 + SizeOf(w) >= BankWords - 2 THEN "commit" ELSE @]
        /\ num' = num /\ crashes' = crashes
    BY <1>c, <1>8, <2>1 DEF CopyRecord
  <2>3. num[o] # Blank /\ num[o] > 0 /\ num[n] = Top /\ job.at \in Addrs
    BY <1>c, <2>2 DEF EepInv, JobInv, Packing
  <2>4. w \in Words BY <1>a, <2>1, <2>3 DEF BankTypes
  <2>5. SizeOf(w) \in 0 .. MaxSize BY <2>4, SizeOfType
  <2> DEFINE at2 == job.at + 1 + SizeOf(w)
  <2>6. /\ at2 \in 0 .. BankWords + MaxSize /\ at2 # 1
        /\ ~(at2 >= BankWords - 2) => at2 \in Addrs
    BY <2>3, <2>5 DEF Addrs
  <2>7. /\ job' = [job EXCEPT !.at = at2, !.step = IF at2 >= BankWords - 2 THEN "commit" ELSE "copy"]
    BY <2>2
  <2> HIDE DEF at2
  <2>8. /\ job' \in Jobs /\ job'.at = at2 /\ job'.bank = o
        /\ job'.step = "commit" \/ (job'.step = "copy" /\ ~(at2 >= BankWords - 2))
    <3>1. CASE at2 >= BankWords - 2
      <4>1. job' = [job EXCEPT !.at = at2, !.step = "commit"] BY <2>7, <3>1
      <4> QED BY <1>a, <1>c, <1>e, <2>6, <4>1 DEF Jobs
    <3>2. CASE ~(at2 >= BankWords - 2)
      <4>1. job' = [job EXCEPT !.at = at2, !.step = "copy"] BY <2>7, <3>2
      <4> QED BY <1>a, <1>c, <1>e, <2>6, <3>2, <4>1 DEF Jobs
    <3> QED BY <3>1, <3>2
  <2>9. rec' \in [Banks -> BankTypes]
    <3>1. CopyWords(1 + SizeOf(w)) \in BankTypes BY CopyTyped DEF EepInv
    <3> QED BY <1>a, <2>2, <3>1
  <2>10. TypeOK' BY <1>a, <1>b, <2>2, <2>8, <2>9
  <2>11. BlankErased'
    <3>1. ASSUME NEW b \in Banks, num'[b] = Blank PROVE rec'[b] = ErasedBank
      <4>1. b # n BY <2>2, <2>3, <3>1
      <4>2. rec'[b] = rec[b] BY <1>a, <2>2, <4>1
      <4> QED BY <2>2, <3>1, <4>2 DEF EepInv, BlankErased
    <3> QED BY <3>1 DEF BlankErased
  <2>12. JobInv' BY <1>c, <2>2, <2>3, <2>6, <2>8 DEF JobInv, Packing, New
  <2> QED BY <2>10, <2>11, <2>12 DEF EepInv
<1>9. CASE CopyDone
  <2>1. /\ job.step = "copy" /\ job' = [job EXCEPT !.step = "commit"]
        /\ num' = num /\ rec' = rec /\ crashes' = crashes
    BY <1>9 DEF CopyDone
  <2>2. job' \in Jobs /\ job'.step = "commit" /\ job'.bank = o BY <1>a, <1>c, <1>e, <2>1 DEF Jobs
  <2>3. TypeOK' BY <1>a, <1>b, <2>1, <2>2
  <2>4. BlankErased' BY <2>1 DEF BlankErased, EepInv
  <2>5. num[o] # Blank /\ num[o] > 0 /\ num[n] = Top BY <1>c, <2>1 DEF EepInv, JobInv, Packing
  <2>6. JobInv' BY <1>c, <2>1, <2>2, <2>5 DEF JobInv, Packing, New
  <2> QED BY <2>3, <2>4, <2>6 DEF EepInv
<1>10. CASE Commit
  <2>1. /\ job.step = "commit" /\ num' = [num EXCEPT ![n] = (num[o] - 1) % (Top + 1)]
        /\ job' = [job EXCEPT !.step = "drop"] /\ rec' = rec /\ crashes' = crashes
    BY <1>c, <1>10 DEF Commit
  <2>2. num[o] # Blank /\ num[o] > 0 /\ num[n] = Top BY <1>c, <2>1 DEF EepInv, JobInv, Packing
  <2>3. (num[o] - 1) % (Top + 1) \in 0 .. Top BY <1>d, <2>2
  <2> DEFINE next == (num[o] - 1) % (Top + 1)
  <2> HIDE DEF next
  <2>4. next \in Numbers /\ next # Blank BY <2>3 DEF Numbers, Blank, next
  <2>5. num' = [num EXCEPT ![n] = next] BY <2>1 DEF next
  <2>6. num' \in [Banks -> Numbers] BY <1>a, <2>4, <2>5
  <2>7. job' \in Jobs /\ job'.step = "drop" /\ job'.bank = o BY <1>a, <1>c, <1>e, <2>1 DEF Jobs
  <2>8. TypeOK' BY <1>a, <1>b, <2>1, <2>6, <2>7
  <2>9. BlankErased' BY <1>a, <2>1, <2>4, <2>5 DEF BlankErased, EepInv
  <2>10. num'[n] # Blank /\ num'[o] = num[o] BY <1>a, <1>c, <2>4, <2>5
  <2>11. JobInv' BY <1>c, <2>2, <2>7, <2>10 DEF JobInv, Packing, New
  <2> QED BY <2>8, <2>9, <2>11 DEF EepInv
<1>11. CASE EraseOld
  <2> DEFINE at == SaveAddr(rec[n], Size[job.val])
  <2>1. /\ job.step = "drop" /\ num' = [num EXCEPT ![o] = Blank]
        /\ rec' = [rec EXCEPT ![o] = ErasedBank] /\ crashes' = crashes
        /\ job' = NoJob \/ job' = [job EXCEPT !.step = "header", !.bank = n, !.at = at]
    BY <1>c, <1>11 DEF EraseOld
  <2>2. at \in 0 .. BankWords + MaxSize BY <1>a, SavePlace
  <2> HIDE DEF at
  <2>3. num' \in [Banks -> Numbers] BY <1>a, <2>1
  <2>4. rec' \in [Banks -> BankTypes] BY <1>a, <1>f, <2>1
  <2>5. job' = NoJob \/ (job' \in Jobs /\ job'.step = "header" /\ job'.bank = n)
    BY <1>a, <1>e, <2>1, <2>2 DEF Jobs
  <2>6. TypeOK' BY <1>a, <1>b, <2>1, <2>3, <2>4, <2>5
  <2>7. BlankErased' BY <1>a, <2>1 DEF BlankErased, EepInv
  <2>8. num[n] # Blank BY <1>c, <2>1 DEF EepInv, JobInv, Packing
  <2>9. num'[n] # Blank BY <1>a, <1>c, <2>1, <2>8
  <2>10. JobInv' BY <2>5, <2>9 DEF JobInv, Packing
  <2> QED BY <2>6, <2>7, <2>10 DEF EepInv
<1>12. CASE WriteHeader
  <2> DEFINE r == Write(rec[job.bank], job.at, <<Header>>)
  <2>1. /\ job.step = "header" /\ rec' = [rec EXCEPT ![o] = r]
        /\ job' = NoJob \/ job' = [job EXCEPT !.step = "data"]
        /\ num' = num /\ crashes' = crashes
    BY <1>c, <1>12 DEF WriteHeader
  <2>2. r \in BankTypes BY WordsTyped DEF EepInv
  <2> HIDE DEF r
  <2>3. rec' \in [Banks -> BankTypes] BY <1>a, <2>1, <2>2
  <2>4. job' = NoJob \/ (job' \in Jobs /\ job'.step = "data" /\ job'.bank = o)
    BY <1>a, <1>c, <1>e, <2>1 DEF Jobs
  <2>5. TypeOK' BY <1>a, <1>b, <2>1, <2>3, <2>4
  <2>6. num[o] # Blank BY <1>c, <2>1 DEF EepInv, JobInv
  <2>7. BlankErased' BY <1>a, <2>1, <2>6 DEF BlankErased, EepInv
  <2>8. JobInv' BY <2>1, <2>4, <2>6 DEF JobInv, Packing
  <2> QED BY <2>5, <2>7, <2>8 DEF EepInv
<1>13. CASE WriteData
  <2> DEFINE r == WriteWords(Size[job.val])
  <2>1. /\ job.step = "data" /\ rec' = [rec EXCEPT ![o] = r]
        /\ job' = NoJob /\ num' = num /\ crashes' = crashes
    BY <1>c, <1>13 DEF WriteData
  <2>2. r \in BankTypes BY WordsTyped DEF EepInv
  <2> HIDE DEF r
  <2>3. rec' \in [Banks -> BankTypes] BY <1>a, <2>1, <2>2
  <2>4. TypeOK' BY <1>a, <1>b, <2>1, <2>3
  <2>5. num[o] # Blank BY <1>c, <2>1 DEF EepInv, JobInv
  <2>6. BlankErased' BY <1>a, <2>1, <2>5 DEF BlankErased, EepInv
  <2>7. JobInv' BY <2>1, <2>5 DEF JobInv, Packing
  <2> QED BY <2>4, <2>6, <2>7 DEF EepInv
<1>14. CASE Reboot
  <2>1. job' = BootJob /\ num' = num /\ rec' = rec /\ crashes' = crashes BY <1>14 DEF Reboot
  <2>2. TypeOK' BY <1>a, <1>b, <2>1
  <2>3. BlankErased' BY <2>1 DEF BlankErased, EepInv
  <2>4. JobInv' BY <2>1 DEF JobInv, Packing
  <2> QED BY <2>2, <2>3, <2>4 DEF EepInv
<1>15. CASE PowerLoss
  <2>1. job' = BootJob /\ num' = num /\ crashes' = crashes - 1 /\ crashes > 0
    BY <1>15 DEF PowerLoss
  <2>2. \/ rec' = rec
        \/ \E b \in Banks : \E r \in BankTypes : num[b] # Blank /\ rec' = [rec EXCEPT ![b] = r]
    <3>1. CASE job.step = "data" /\ \E m \in 1 .. Size[job.val] - 1 :
                 rec' = [rec EXCEPT ![job.bank] = WriteWords(m)]
      <4>1. PICK m \in 1 .. Size[job.val] - 1 : rec' = [rec EXCEPT ![job.bank] = WriteWords(m)]
        BY <3>1
      <4>2. m \in 0 .. Size[job.val] /\ WriteWords(m) \in BankTypes
        <5>1. Size[job.val] \in 0 .. MaxSize BY WordsTyped DEF EepInv
        <5>2. m \in 0 .. Size[job.val] BY <5>1
        <5> QED BY <5>2, WordsTyped DEF EepInv
      <4>3. num[job.bank] # Blank BY <3>1 DEF EepInv, JobInv
      <4> QED BY <1>g, <4>1, <4>2, <4>3
    <3>2. CASE job.step = "copy" /\ \E m \in 1 .. SizeOf(rec[job.bank][job.at]) :
                 rec' = [rec EXCEPT ![New] = CopyWords(m)]
      <4>1. PICK m : rec' = [rec EXCEPT ![n] = CopyWords(m)] BY <1>c, <3>2
      <4>2. CopyWords(m) \in BankTypes BY CopyTyped DEF EepInv
      <4>3. num[n] # Blank BY <1>c, <3>2 DEF EepInv, JobInv
      <4> QED BY <4>1, <4>2, <4>3
    <3> QED BY <1>15, <3>1, <3>2 DEF PowerLoss
  <2>3. rec' \in [Banks -> BankTypes] BY <1>a, <2>2
  <2>4. crashes' \in 0 .. MaxCrashes BY <1>a, <2>1
  <2>5. TypeOK' BY <1>a, <1>b, <2>1, <2>3, <2>4
  <2>6. BlankErased' BY <1>a, <2>1, <2>2 DEF BlankErased, EepInv
  <2>7. JobInv' BY <2>1 DEF JobInv, Packing
  <2> QED BY <2>5, <2>6, <2>7 DEF EepInv
<1>16. CASE UNCHANGED vars
  BY <1>16 DEF EepInv, TypeOK, BlankErased, JobInv, Packing, New, vars
<1> QED
  BY <1>2, <1>3, <1>4, <1>5, <1>6, <1>7, <1>8, <1>9, <1>10, <1>11, <1>12, <1>13, <1>14, <1>15,
     <1>16 DEF NextStep, Step

\* The store's words, its numbers and the running call keep their types.
THEOREM EepStaysTyped == Spec => []TypeOK
<1>1. Init => EepInv BY InitEep
<1>2. EepInv /\ [NextStep]_vars => EepInv' BY NextEepType
<1>3. EepInv => TypeOK BY DEF EepInv
<1> QED BY <1>1, <1>2, <1>3, PTL DEF Spec

\* Packing never starts in a bank that has anything in it, wherever the power
\* failed before: nothing is ANDed into the records that are taken along.
THEOREM PacksIntoErased == Spec => []PackIntoErased
<1>1. Init => EepInv BY InitEep
<1>2. EepInv /\ [NextStep]_vars => EepInv' BY NextEepType
<1>3. EepInv => PackIntoErased
  <2>1. SUFFICES ASSUME EepInv PROVE PackIntoErased OBVIOUS
  <2>2. New \in Banks BY <2>1, EepTyped, NextBank DEF EepInv, Jobs, New
  <2> QED BY <2>1, <2>2 DEF EepInv, JobInv, BlankErased, PackIntoErased
<1> QED BY <1>1, <1>2, <1>3, PTL DEF Spec
-----------------------------------------------------------------------------
(* The bank that is read.                                                  *)

\* Numbering another bank no lower leaves the current one the current one.
LEMMA StaysCurrent ==
  ASSUME NEW m \in [Banks -> Numbers], NEW o \in Banks, CurrentOf(m) = o,
         NEW m2 \in [Banks -> Numbers], NEW n \in Banks, n # o, m[o] < m2[n],
         \A c \in Banks : c # n => m2[c] = m[c]
  PROVE  CurrentOf(m2) = o
<1>1. Before(m, o) BY CurrentLeast
<1>2. Before(m2, o) BY <1>1 DEF Before
<1> QED BY <1>2, CurrentIs

\* Nothing is read from a store that is blank.
LEMMA BlankReadsMissing ==
  ASSUME EepInv, \A b \in Banks : num[b] = Blank, NEW id
  PROVE  Stored(id) = Missing
<1>1. Current \in Banks BY ClaimedFacts DEF EepInv
<1>2. rec[Current] = ErasedBank BY <1>1 DEF EepInv, BlankErased
<1>3. Find(rec[Current], id) = {} BY <1>2, NothingErased
<1> QED BY <1>3 DEF Stored

LEMMA NextNumber ==
  ASSUME ~CrashInFormat, EepInv, NumberInv, [NextStep]_vars
  PROVE  NumberInv'
<1> USE EepAssumption, JobTypes
<1>a. num \in [Banks -> Numbers] /\ job \in Jobs /\ TypeOK BY EepTyped DEF EepInv
<1>b. PICK o \in Banks, n \in Banks : o = job.bank /\ n = New /\ n = Next(o) /\ n # o
  BY <1>a, NextBank DEF Jobs, New
<1>c. /\ Blank \in Nat /\ \A b \in Banks : num[b] \in Nat /\ num[b] <= Blank /\ b \in Nat
      /\ job.old \in Nat /\ job.step \in Steps
  BY <1>a DEF Numbers, Blank, Banks, Jobs
<1>1. ASSUME NEW id \in Ids, NEW v \in Values[id], BeginSave(id, v, Current), num' = Claimed,
             \E b \in Banks : num[b] < Top
      PROVE  NumberInv'
  <2>1. PICK b \in Banks : num[b] < Top BY <1>1
  <2>2. num[b] # Blank BY <2>1, <1>c
  <2>3. num' = num BY <1>1, <2>2 DEF Claimed
  <2>4. PICK cur \in Banks : cur = Current /\ cur = CurrentOf(num) /\ Before(num, cur)
    BY <1>a, CurrentLeast DEF Current
  <2>5. num[cur] < Top
    <3>1. num[cur] < num[b] \/ num[cur] = num[b] BY <2>4 DEF Before
    <3> QED BY <1>c, <2>1, <3>1
  <2>6. \/ job'.step = "idle"
        \/ job'.step = "header"
        \/ job'.step \in {"erase", "occupy"} /\ job'.bank = cur
    BY <1>1, <1>a, <2>4, SaveBegins
  <2>7. Current' = cur BY <2>3, <2>4 DEF Current
  <2> QED BY <2>1, <2>3, <2>5, <2>6, <2>7 DEF NumberInv
<1>2. CASE \E v \in Values[VER] : CheckVersion(v)
  <2>1. PICK v \in Values[VER] : CheckVersion(v) BY <1>2
  <2>2. job.step = "boot" /\ num' = Claimed BY <2>1 DEF CheckVersion
  <2>3. CASE Stored(VER) # Missing /\ DOMAIN Stored(VER) = 1 .. 1
    <3>1. ~(\A b \in Banks : num[b] = Blank) BY <2>3, BlankReadsMissing
    <3>2. \E b \in Banks : num[b] < Top BY <2>2, <3>1 DEF NumberInv
    <3>3. BeginSave(VER, v, Current) BY <2>1, <2>3 DEF CheckVersion
    <3> QED BY <1>1, <2>2, <3>2, <3>3
  <2>4. CASE ~(Stored(VER) # Missing /\ DOMAIN Stored(VER) = 1 .. 1)
    <3>1. job' = [NoJob EXCEPT !.step = "wipe", !.val = v] BY <2>1, <2>4 DEF CheckVersion
    <3>2. job'.step = "wipe" /\ job'.bank = 0 BY <3>1 DEF NoJob
    <3>3. PICK b \in Banks : num'[b] <= Top
      <4>1. CASE \A b \in Banks : num[b] = Blank
        <5>1. num'[0] = Top BY <1>a, <2>2, <4>1, ClaimedFacts
        <5> QED BY <5>1
      <4>2. CASE \E b \in Banks : num[b] < Top
        <5>1. PICK b \in Banks : num[b] < Top BY <4>2
        <5>2. num[b] # Blank BY <5>1, <1>c
        <5>3. num' = num BY <2>2, <5>2 DEF Claimed
        <5> QED BY <1>c, <5>1, <5>3
      <4> QED BY <2>2, <4>1, <4>2 DEF NumberInv
    <3>4. b >= 0 BY <1>c
    <3> QED BY <3>2, <3>3, <3>4 DEF NumberInv
  <2> QED BY <2>3, <2>4
<1>3. CASE \E id \in Ids \ {VER} : \E v \in Values[id] : Save(id, v)
  <2>1. PICK id \in Ids \ {VER} : \E v \in Values[id] : Save(id, v) BY <1>3
  <2>a. PICK v \in Values[id] : Save(id, v) BY <2>1
  <2>2. BeginSave(id, v, Current) /\ num' = Claimed BY <2>a DEF Save
  <2>3. \E b \in Banks : num[b] < Top BY <2>a DEF Save, NumberInv
  <2> QED BY <1>1, <2>2, <2>3
<1>4. CASE WipeBank
  <2>1. /\ job.step = "wipe" /\ num' = [num EXCEPT ![o] = Blank]
        /\ job' = [job EXCEPT !.step = "number", !.old = num[o]]
    BY <1>b, <1>4 DEF WipeBank
  <2>2. job'.step = "number" /\ job'.bank = o /\ job'.old = num[o]
    BY <1>a, <1>b, <2>1 DEF Jobs
  <2>3. PICK b \in Banks : (b < o /\ num[b] < Top) \/ (b >= o /\ num[b] <= Top)
    BY <1>b, <2>1 DEF NumberInv
  <2>4. CASE b = o BY <1>c, <2>2, <2>3, <2>4 DEF NumberInv
  <2>5. CASE b # o
    <3>1. num'[b] = num[b] BY <1>a, <2>1, <2>5
    <3>2. (b < o /\ num'[b] < Top) \/ (b > o /\ num'[b] <= Top) BY <1>c, <2>3, <2>5, <3>1
    <3> QED BY <2>2, <3>2 DEF NumberInv
  <2> QED BY <2>4, <2>5
<1>5. CASE NumberBank
  <2>1. /\ job.step = "number" /\ job.old > 0 /\ num' = [num EXCEPT ![o] = job.old - 1]
    BY <1>b, <1>5 DEF NumberBank
  <2>2. PICK b \in Banks : num'[b] <= Top /\ (b <= o => num'[b] < Top)
    <3>1. CASE job.old <= Top
      <4>1. num'[o] = job.old - 1 BY <1>a, <2>1
      <4>2. num'[o] < Top BY <1>c, <2>1, <3>1, <4>1
      <4>3. num'[o] <= Top BY <1>c, <2>1, <3>1, <4>1
      <4> QED BY <4>2, <4>3
    <3>2. CASE ~(job.old <= Top)
      <4>1. PICK b \in Banks : (b < o /\ num[b] < Top) \/ (b > o /\ num[b] <= Top)
        BY <1>b, <2>1, <3>2 DEF NumberInv
      <4>2. b # o BY <1>c, <4>1
      <4>3. num'[b] = num[b] BY <1>a, <2>1, <4>2
      <4>4. num'[b] <= Top BY <1>c, <4>1, <4>3
      <4>5. b <= o => num'[b] < Top BY <1>c, <4>1, <4>3
      <4> QED BY <4>4, <4>5
    <3> QED BY <3>1, <3>2
  <2>3. CASE o + 1 \in Banks
    <3>1. job' = [job EXCEPT !.step = "wipe", !.bank = o + 1]
      BY <1>b, <1>5, <2>3 DEF NumberBank
    <3>2. job'.step = "wipe" /\ job'.bank = o + 1 BY <1>a, <3>1 DEF Jobs
    <3>3. b < o + 1 => b <= o BY <1>c
    <3>4. b < o + 1 \/ b >= o + 1 BY <1>c
    <3> QED BY <2>2, <3>2, <3>3, <3>4 DEF NumberInv
  <2>4. CASE o + 1 \notin Banks
    <3>1. job' = [job EXCEPT !.step = "header", !.at = 1, !.bank = CurrentOf(num'), !.old = 0]
      BY <1>b, <1>5, <2>4 DEF NumberBank
    <3>2. job'.step = "header" BY <1>a, <3>1 DEF Jobs
    <3>3. b <= o BY <1>c, <2>4 DEF Banks
    <3> QED BY <2>2, <3>2, <3>3 DEF NumberInv
  <2> QED BY <2>3, <2>4
<1>6. CASE EraseNew
  <2>1. /\ job.step = "erase" /\ num' = [num EXCEPT ![n] = Blank]
        /\ job' = [job EXCEPT !.step = "occupy"]
    BY <1>b, <1>6 DEF EraseNew
  <2>2. job'.step = "occupy" /\ job'.bank = o BY <1>a, <1>b, <2>1 DEF Jobs
  <2>3. CurrentOf(num) = o /\ num[o] < Top BY <1>b, <2>1 DEF NumberInv, Current
  <2>4. num[o] < Blank BY <1>c, <2>3
  <2>5. num' \in [Banks -> Numbers] /\ num'[n] = Blank /\ \A c \in Banks : c # n => num'[c] = num[c]
    BY <1>a, <2>1
  <2>6. CurrentOf(num') = o BY <1>a, <1>b, <2>3, <2>4, <2>5, StaysCurrent
  <2> QED BY <1>b, <2>2, <2>3, <2>5, <2>6 DEF NumberInv, Current
<1>7. CASE Occupy
  <2>1. /\ job.step = "occupy" /\ num' = [num EXCEPT ![n] = Top]
        /\ job' = [job EXCEPT !.step = "copy", !.at = 1]
    BY <1>b, <1>7 DEF Occupy
  <2>2. job'.step = "copy" /\ job'.bank = o BY <1>a, <1>b, <2>1 DEF Jobs
  <2>3. CurrentOf(num) = o /\ num[o] < Top BY <1>b, <2>1 DEF NumberInv, Current
  <2>4. num' \in [Banks -> Numbers] /\ num'[n] = Top /\ \A c \in Banks : c # n => num'[c] = num[c]
    BY <1>a, <2>1
  <2>5. CurrentOf(num') = o BY <1>a, <1>b, <2>3, <2>4, StaysCurrent
  <2> QED BY <1>b, <2>2, <2>3, <2>4, <2>5 DEF NumberInv, Current
<1>8. CASE CopyRecord \/ CopyDone
  <2>1. job.step = "copy" /\ num' = num BY <1>8 DEF CopyRecord, CopyDone
  <2>2. job'.bank = o /\ job'.step \in {"copy", "commit"}
    <3>1. CASE CopyRecord
      <4> DEFINE at2 == job.at + 1 + SizeOf(rec[job.bank][job.at])
      <4>1. job' = [job EXCEPT !.at = at2, !.step = IF at2 >= BankWords - 2 THEN "commit" ELSE job.step]
        BY <3>1 DEF CopyRecord
      <4> HIDE DEF at2
      <4> QED BY <1>a, <1>b, <2>1, <4>1 DEF Jobs
    <3>2. CASE CopyDone BY <1>a, <1>b, <3>2 DEF CopyDone, Jobs
    <3> QED BY <1>8, <3>1, <3>2
  <2>3. CurrentOf(num) = o /\ num[o] < Top BY <1>b, <2>1 DEF NumberInv, Current
  <2> QED BY <2>1, <2>2, <2>3 DEF NumberInv, Current
<1>9. CASE Commit
  <2>1. /\ job.step = "commit" /\ num' = [num EXCEPT ![n] = (num[o] - 1) % (Top + 1)]
        /\ job' = [job EXCEPT !.step = "drop"]
    BY <1>b, <1>9 DEF Commit
  <2>2. job'.step = "drop" /\ job'.bank = o BY <1>a, <1>b, <2>1 DEF Jobs
  <2>3. num[o] < Top BY <1>b, <2>1 DEF NumberInv
  <2>4. num[o] > 0 BY <1>b, <2>1 DEF EepInv, JobInv, Packing
  <2>5. num[o] - 1 \in 0 .. Top /\ num[o] - 1 < Top BY <1>c, <2>3, <2>4
  <2>6. (num[o] - 1) % (Top + 1) = num[o] - 1 BY <1>c, <2>5
  <2>7. num'[n] < Top BY <1>a, <2>1, <2>5, <2>6
  <2> QED BY <1>b, <2>2, <2>7 DEF NumberInv, New
<1>10. CASE EraseOld
  <2>1. job.step = "drop" /\ num' = [num EXCEPT ![o] = Blank] BY <1>b, <1>10 DEF EraseOld
  <2>2. job'.step \in {"idle", "header"}
    <3> DEFINE at == SaveAddr(rec[New], Size[job.val])
    <3>1. job' = NoJob \/ job' = [job EXCEPT !.step = "header", !.bank = New, !.at = at]
      BY <1>10 DEF EraseOld
    <3> HIDE DEF at
    <3> QED BY <1>a, <3>1 DEF Jobs
  <2>3. num[n] < Top BY <1>b, <2>1 DEF NumberInv
  <2>4. num'[n] < Top BY <1>a, <1>b, <2>1, <2>3
  <2> QED BY <2>2, <2>4 DEF NumberInv
<1>11. CASE WriteHeader \/ WriteData
  <2>1. job.step \in {"header", "data"} /\ num' = num BY <1>11 DEF WriteHeader, WriteData
  <2>2. job'.step \in {"idle", "data"}
    <3>1. job' = NoJob \/ job' = [job EXCEPT !.step = "data"] BY <1>11 DEF WriteHeader, WriteData
    <3> QED BY <1>a, <3>1 DEF Jobs
  <2> QED BY <2>1, <2>2 DEF NumberInv
<1>12. CASE Reboot
  <2>1. job = NoJob /\ job'.step = "boot" /\ num' = num BY <1>12 DEF Reboot
  <2> QED BY <2>1 DEF NumberInv
<1>13. CASE PowerLoss
  <2>1. job.step \notin {"wipe", "number", "boot"} /\ job'.step = "boot" /\ num' = num
    BY <1>13 DEF PowerLoss, Clearing
  <2>2. \E b \in Banks : num[b] < Top
    <3>1. job.step \in {"idle", "header", "data", "erase", "occupy", "copy", "commit", "drop"}
      BY <1>c, <2>1 DEF Steps
    <3> QED BY <1>b, <3>1 DEF NumberInv
  <2> QED BY <2>1, <2>2 DEF NumberInv
<1>14. CASE UNCHANGED vars BY <1>14 DEF NumberInv, New, Current, vars
<1> QED
  BY <1>2, <1>3, <1>4, <1>5, <1>6, <1>7, <1>8, <1>9, <1>10, <1>11, <1>12, <1>13, <1>14
     DEF NextStep, Step

\* While a bank is packed the store is read from the old one, as long as the
\* power does not fail while the store is cleared.
THEOREM OldBankIsRead ==
  ASSUME ~CrashInFormat
  PROVE  Spec => []CopyNotCurrent
<1>1. Init => EepInv /\ NumberInv BY InitEep
<1>2. EepInv /\ NumberInv /\ [NextStep]_vars => (EepInv /\ NumberInv)' BY NextEepType, NextNumber
<1>3. NumberInv => CopyNotCurrent BY DEF NumberInv, CopyNotCurrent
<1> QED BY <1>1, <1>2, <1>3, PTL DEF Spec
-----------------------------------------------------------------------------
(* A store of two objects.                                                 *)

\* What the packing needs: at most two objects, each of one size, that go into
\* a bank together; and a header is no other word.
FixedPair ==
  /\ \A a, b, c \in Ids : a = b \/ b = c \/ a = c
  /\ \A id \in Ids : \A v, w \in Values[id] : Size[v] = Size[w] /\ Size[v] > 0
  /\ \A a, b \in Ids : a # b =>
       \A v \in Values[a] : \A w \in Values[b] : Size[v] + Size[w] + 3 < BankWords
  /\ FF \notin Headers /\ Garbage \notin Headers

\* The headers that are written: an object's with its size.
Heads == {w \in Headers : w[2] \in Ids /\ \E v \in Values[w[2]] : w[3] = Size[v]}

\* A bank of whole records, erased behind the last.
Good(r) ==
  /\ \A a \in Records(r) : r[a] \in Heads /\ a + 1 + r[a][3] <= BankWords - 1
  /\ \A x \in Addrs : x >= EndOf(r) => r[x] = FF

\* What is read from a bank.
Value(r, id) ==
  IF Find(r, id) = {} THEN Missing
  ELSE [i \in 1 .. SizeOf(r[Last(r, id)]) |-> WordAt(r, Last(r, id) + i)]

\* The bank r with a record of header w and whatever data at its end.
Appended(r, w, r2) ==
  /\ EndOf(r) + 1 + w[3] <= BankWords - 1
  /\ r2[EndOf(r)] = w
  /\ \A x \in Addrs : x < EndOf(r) \/ x > EndOf(r) + w[3] => r2[x] = r[x]

\* The object has been taken along: the new bank is its last record.
TakenAlong(old, id, r) ==
  /\ Find(old, id) # {}
  /\ Appended(ErasedBank, old[Last(old, id)], r)
  /\ \A i \in 1 .. old[Last(old, id)][3] : r[1 + i] = old[Last(old, id) + i]

\* Of the objects other than `own', of which there is one, the records before `at'.
Others(old, own, at) == {id \in Ids \ {own} : \E a \in Find(old, id) : a < at}
Taken(old, own, r, at) ==
  \/ r = ErasedBank /\ Others(old, own, at) = {}
  \/ \E id \in Ids \ {own} : TakenAlong(old, id, r)

StoreInv ==
  /\ job.val \in Values[job.id]
  /\ job.step \in {"header", "data"} => Current = job.bank
  /\ job.step = "drop" => Current = New /\ SaveAddr(rec[New], Size[job.val]) # 0
  /\ ~Clearing => Good(rec[Current])
  /\ job.step = "wipe" => \A b \in Banks : b < job.bank => rec[b] = ErasedBank
  /\ job.step = "number" => \A b \in Banks : b <= job.bank => rec[b] = ErasedBank
  /\ job.step = "header" =>
       /\ job.at = EndOf(rec[job.bank])
       /\ job.at + 1 + Size[job.val] <= BankWords - 1
  /\ job.step = "data" =>
       LET r == rec[job.bank] IN
       /\ job.at \in Records(r) /\ r[job.at] = Header
       /\ \A x \in Chain(r) : x <= job.at \/ x = job.at + 1 + Size[job.val]
       /\ \A i \in 1 .. Size[job.val] : r[job.at + i] = FF
  /\ job.step = "copy" =>
       /\ job.at \in Chain(rec[job.bank])
       /\ Taken(rec[job.bank], job.id, rec[New], job.at)
  /\ job.step = "commit" => Taken(rec[job.bank], job.id, rec[New], BankWords)
-----------------------------------------------------------------------------
(* The records of a bank.                                                  *)

\* Every address the scan meets is that of a record, behind which it goes on,
\* or the end; and whatever holds the first and goes on so holds them all.
ScanFrom(r, a, C) ==
  /\ C \subseteq a .. ScanTop /\ a \in C /\ Closed(r, C)
  /\ \E e \in C : Stops(r, e) /\ \A x \in C : x <= e /\ (Stops(r, x) => x = e)
  /\ \A x, y \in C : ~Stops(r, x) => y <= x \/ y >= x + 1 + SizeOf(r[x])
  /\ \A S \in SUBSET (1 .. ScanTop) : a \in S /\ Closed(r, S) => C \subseteq S

LEMMA ScanOf ==
  ASSUME NEW r \in BankTypes, NEW f, f = ScanBody(r, f), NEW a \in 1 .. ScanTop
  PROVE  ScanFrom(r, a, f[a])
<1> USE EepAssumption
<1> DEFINE Fine(x) == ScanFrom(r, x, f[x])
           Bad == {k \in Nat : ScanTop - k \in 1 .. ScanTop /\ ~Fine(ScanTop - k)}
<1>1. ScanTop \in Nat /\ ScanTop >= 3 BY DEF ScanTop
<1>2. \A x \in 1 .. ScanTop :
        f[x] = {x} \cup (IF Stops(r, x) THEN {} ELSE f[x + 1 + SizeOf(r[x])])
  BY DEF ScanBody
<1>3. SUFFICES ASSUME Bad # {} PROVE FALSE
  <2>1. ASSUME ~Fine(a) PROVE ScanTop - a \in Bad
    <3>1. ScanTop - a \in Nat /\ ScanTop - (ScanTop - a) = a BY <1>1
    <3> HIDE DEF Fine
    <3> QED BY <2>1, <3>1
  <2> QED BY <2>1
<1>4. Bad \in SUBSET Nat OBVIOUS
<1>5. PICK k \in Bad : \A j \in Bad : k <= j
  <2> HIDE DEF Bad
  <2> QED BY <1>3, <1>4, LeastElement
<1>6. PICK x \in 1 .. ScanTop : x = ScanTop - k OBVIOUS
<1>7. ~Fine(x) BY <1>6
<1>8. CASE Stops(r, x)
  <2>1. f[x] = {x} BY <1>2, <1>8
  <2>2. Closed(r, {x}) BY <1>8 DEF Closed
  <2>3. Fine(x) BY <1>1, <1>8, <2>1, <2>2 DEF ScanFrom
  <2> QED BY <1>7, <2>3
<1>9. CASE ~Stops(r, x)
  <2> DEFINE y == x + 1 + SizeOf(r[x])
  <2>1. y \in 1 .. ScanTop /\ y > x BY <1>9, ScanSteps
  <2>2. f[x] = {x} \cup f[y] BY <1>2, <1>9
  <2>a. y = x + 1 + SizeOf(r[x]) OBVIOUS
  <2> HIDE DEF y
  <2>3. Fine(y)
    <3>1. ScanTop - y \in Nat /\ ScanTop - (ScanTop - y) = y /\ ~(k <= ScanTop - y)
      BY <1>1, <1>6, <2>1
    <3>2. ScanTop - y \notin Bad
      <4> HIDE DEF Bad
      <4> QED BY <1>5, <3>1
    <3> HIDE DEF Fine
    <3> QED BY <2>1, <3>1, <3>2
  <2> DEFINE C == f[x]
             D == f[y]
  <2>4. C = {x} \cup D /\ ScanFrom(r, y, D) BY <2>2, <2>3
  <2> HIDE DEF C, D, Bad, Fine
  <2>5. D \subseteq y .. ScanTop /\ y \in D /\ Closed(r, D) BY <2>4 DEF ScanFrom
  <2>6. C \subseteq x .. ScanTop /\ x \in C BY <1>1, <2>1, <2>4, <2>5
  <2>7. Closed(r, C) BY <2>4, <2>5, <2>a DEF Closed
  <2>8. \E e \in C : Stops(r, e) /\ \A b \in C : b <= e /\ (Stops(r, b) => b = e)
    <3>1. PICK e \in D : Stops(r, e) /\ \A b \in D : b <= e /\ (Stops(r, b) => b = e)
      BY <2>4 DEF ScanFrom
    <3>2. x <= e BY <1>1, <2>1, <2>5
    <3> QED BY <1>9, <2>4, <3>1, <3>2
  <2>9. ASSUME NEW b \in C, NEW c \in C, ~Stops(r, b)
        PROVE  c <= b \/ c >= b + 1 + SizeOf(r[b])
    <3>1. CASE b = x
      <4>1. c = x \/ c >= y BY <1>1, <2>1, <2>4, <2>5
      <4> QED BY <1>6, <2>a, <3>1, <4>1
    <3>2. CASE b \in D /\ c \in D BY <2>4, <2>9, <3>2 DEF ScanFrom
    <3>3. CASE b \in D /\ c = x BY <1>1, <2>1, <2>5, <3>3
    <3> QED BY <2>4, <2>9, <3>1, <3>2, <3>3
  <2>10. ASSUME NEW S \in SUBSET (1 .. ScanTop), x \in S, Closed(r, S) PROVE C \subseteq S
    <3>1. y \in S BY <1>9, <2>10, <2>a DEF Closed
    <3>2. D \subseteq S BY <2>4, <2>10, <3>1 DEF ScanFrom
    <3> QED BY <2>4, <2>10, <3>2
  <2>11. ScanFrom(r, x, C) BY <2>6, <2>7, <2>8, <2>9, <2>10 DEF ScanFrom
  <2> QED BY <1>7, <2>11 DEF C, Fine
<1> QED BY <1>8, <1>9

LEMMA ChainIsScan ==
  ASSUME NEW r \in BankTypes
  PROVE  ScanFrom(r, 1, Chain(r))
<1>1. PICK f : f = ScanBody(r, f) /\ Chain(r) = f[1] BY ScanExists, ChainScans
<1>2. 1 \in 1 .. ScanTop BY EepAssumption DEF ScanTop
<1> QED BY <1>1, <1>2, ScanOf

\* The same with the names of FlashEep.
LEMMA ChainFacts ==
  ASSUME NEW r \in BankTypes
  PROVE  /\ Chain(r) \subseteq 1 .. ScanTop /\ 1 \in Chain(r) /\ Closed(r, Chain(r))
         /\ EndOf(r) \in Chain(r) /\ Stops(r, EndOf(r))
         /\ \A x \in Chain(r) : x <= EndOf(r) /\ (Stops(r, x) => x = EndOf(r))
         /\ Records(r) = {x \in Chain(r) : ~Stops(r, x)}
         /\ \A x \in Records(r) :
              /\ x \in Addrs /\ x < BankWords - 1 /\ x < EndOf(r)
              /\ x + 1 + SizeOf(r[x]) \in Chain(r)
              /\ \A y \in Chain(r) : y <= x \/ y >= x + 1 + SizeOf(r[x])
         /\ \A S \in SUBSET (1 .. ScanTop) : 1 \in S /\ Closed(r, S) => Chain(r) \subseteq S
<1> USE EepAssumption
<1> DEFINE C == Chain(r)
<1>1. ScanFrom(r, 1, C) BY ChainIsScan
<1>2. EndOf(r) = CHOOSE a \in C : Stops(r, a) BY DEF EndOf, Stops
<1>3. Records(r) = {x \in C : x < BankWords - 1 /\ r[x] # FF} BY DEF Records
<1> HIDE DEF C
<1>4. C \subseteq 1 .. ScanTop /\ 1 \in C /\ Closed(r, C) BY <1>1 DEF ScanFrom
<1>5. PICK e \in C : Stops(r, e) /\ \A x \in C : x <= e /\ (Stops(r, x) => x = e)
  BY <1>1 DEF ScanFrom
<1>6. EndOf(r) = e BY <1>2, <1>5
<1>7. ScanTop \in Nat /\ \A x \in C : x \in Nat /\ x >= 1 BY <1>4 DEF ScanTop
<1>8. Records(r) = {x \in C : ~Stops(r, x)} BY <1>3, <1>7 DEF Stops
<1>9. ASSUME NEW x \in C, ~Stops(r, x)
      PROVE  /\ x \in Addrs /\ x < BankWords - 1 /\ x < EndOf(r)
             /\ x + 1 + SizeOf(r[x]) \in C
             /\ \A y \in C : y <= x \/ y >= x + 1 + SizeOf(r[x])
  <2>1. x < BankWords - 1 BY <1>7, <1>9 DEF Stops
  <2>2. x \in Addrs BY <1>7, <2>1 DEF Addrs
  <2>3. x < e BY <1>5, <1>7, <1>9
  <2>4. x + 1 + SizeOf(r[x]) \in C BY <1>4, <1>9 DEF Closed
  <2>5. \A y \in C : y <= x \/ y >= x + 1 + SizeOf(r[x]) BY <1>1, <1>9 DEF ScanFrom
  <2> QED BY <1>6, <2>1, <2>2, <2>3, <2>4, <2>5
<1>10. \A S \in SUBSET (1 .. ScanTop) : 1 \in S /\ Closed(r, S) => C \subseteq S
  BY <1>1 DEF ScanFrom
<1> QED BY <1>4, <1>5, <1>6, <1>8, <1>9, <1>10 DEF C

\* A set that is met in the same way is what is scanned.
LEMMA ScanIs ==
  ASSUME NEW r \in BankTypes, NEW r2 \in BankTypes, NEW e \in 1 .. ScanTop,
         \A x \in Records(r) : ~Stops(r2, x) /\ SizeOf(r2[x]) = SizeOf(r[x]),
         \/ Stops(r2, EndOf(r)) /\ e = EndOf(r)
         \/ ~Stops(r2, EndOf(r)) /\ e = EndOf(r) + 1 + SizeOf(r2[EndOf(r)]) /\ Stops(r2, e)
  PROVE  /\ Chain(r2) = Chain(r) \cup {e}
         /\ EndOf(r2) = e
         /\ Records(r2) = IF e = EndOf(r) THEN Records(r) ELSE Records(r) \cup {EndOf(r)}
<1> DEFINE C == Chain(r) D == Chain(r2) end == EndOf(r)
<1>1. /\ C \subseteq 1 .. ScanTop /\ 1 \in C /\ end \in C /\ Stops(r, end)
      /\ \A x \in C : Stops(r, x) => x = end
      /\ Records(r) = {x \in C : ~Stops(r, x)}
      /\ \A x \in Records(r) : x + 1 + SizeOf(r[x]) \in C
      /\ \A S \in SUBSET (1 .. ScanTop) : 1 \in S /\ Closed(r, S) => C \subseteq S
  BY ChainFacts
<1>2. /\ 1 \in D /\ Closed(r2, D)
      /\ \A x \in D : Stops(r2, x) => x = EndOf(r2)
      /\ Records(r2) = {x \in D : ~Stops(r2, x)}
      /\ \A S \in SUBSET (1 .. ScanTop) : 1 \in S /\ Closed(r2, S) => D \subseteq S
  BY ChainFacts
<1>3. /\ \A x \in Records(r) : ~Stops(r2, x) /\ SizeOf(r2[x]) = SizeOf(r[x])
      /\ \/ Stops(r2, end) /\ e = end
         \/ ~Stops(r2, end) /\ e = end + 1 + SizeOf(r2[end]) /\ Stops(r2, e)
  OBVIOUS
<1> HIDE DEF C, D, end
<1>4. Closed(r2, C \cup {e}) BY <1>1, <1>3 DEF Closed
<1>5. D \subseteq C \cup {e} BY <1>1, <1>2, <1>4
<1>6. C \subseteq D
  <2> DEFINE S == C \cap D
  <2>1. S \in SUBSET (1 .. ScanTop) /\ 1 \in S BY <1>1, <1>2
  <2>2. Closed(r, S) BY <1>1, <1>2, <1>3 DEF Closed
  <2> QED BY <1>1, <2>1, <2>2
<1>7. e \in D BY <1>1, <1>2, <1>3, <1>6 DEF Closed
<1>8. Stops(r2, e) BY <1>3
<1>9. EndOf(r2) = e BY <1>2, <1>7, <1>8
<1>10. D = C \cup {e} BY <1>5, <1>6, <1>7
<1>11. \A x \in C : Stops(r2, x) => x = end BY <1>1, <1>3
<1>12. CASE e = end
  <2>1. Stops(r2, end) BY <1>3, <1>12
  <2> QED BY <1>1, <1>2, <1>3, <1>9, <1>10, <1>11, <1>12, <2>1 DEF C, D, end
<1>13. CASE e # end
  <2>1. ~Stops(r2, end) BY <1>3, <1>13
  <2>2. Records(r2) = Records(r) \cup {end}
    BY <1>1, <1>2, <1>3, <1>8, <1>10, <1>11, <2>1
  <2> QED BY <1>9, <1>10, <1>13, <2>2 DEF C, D, end
<1> QED BY <1>12, <1>13

\* The last record of an object.
LEMMA LastFound ==
  ASSUME NEW r \in BankTypes, NEW id, Find(r, id) # {}
  PROVE  Last(r, id) \in Find(r, id) /\ \A x \in Find(r, id) : x <= Last(r, id)
<1> USE EepAssumption
<1> DEFINE F == Find(r, id)
           T == {k \in Nat : BankWords - k \in F}
<1>1. F \subseteq Addrs BY ChainFacts DEF Find
<1>2. Last(r, id) = CHOOSE a \in F : \A x \in F : x <= a BY DEF Last
<1>3. F # {} OBVIOUS
<1> HIDE DEF F
<1>4. \A x \in F : x \in Nat /\ BankWords - x \in Nat /\ BankWords - (BankWords - x) = x
  BY <1>1 DEF Addrs
<1>5. T # {} BY <1>3, <1>4
<1>6. T \in SUBSET Nat OBVIOUS
<1>7. PICK k \in T : \A j \in T : k <= j
  <2> HIDE DEF T
  <2> QED BY <1>5, <1>6, LeastElement
<1>8. BankWords - k \in F OBVIOUS
<1>9. ASSUME NEW x \in F PROVE x <= BankWords - k
  <2>1. k <= BankWords - x BY <1>4, <1>7
  <2> QED BY <1>4, <1>7, <2>1
<1>10. \E a \in F : \A x \in F : x <= a BY <1>8, <1>9
<1> QED BY <1>2, <1>10 DEF F

LEMMA LastIs ==
  ASSUME NEW r \in BankTypes, NEW id, NEW a \in Find(r, id), \A x \in Find(r, id) : x <= a
  PROVE  Last(r, id) = a
<1>1. Last(r, id) \in Find(r, id) /\ \A x \in Find(r, id) : x <= Last(r, id) BY LastFound
<1>2. \A x \in Find(r, id) : x \in Nat
  BY ChainFacts, EepAssumption DEF Find, Addrs
<1>3. a <= Last(r, id) /\ Last(r, id) <= a BY <1>1
<1>4. Last(r, id) \in Nat /\ a \in Nat BY <1>1, <1>2
<1> QED BY <1>3, <1>4

\* Headers, and the banks of whole records.
LEMMA HeadFacts ==
  ASSUME FixedPair, NEW w \in Heads
  PROVE  /\ w \in Words /\ w # FF /\ IsHdr(w) /\ SizeOf(w) = w[3] /\ w[2] \in Ids
         /\ w[3] \in 1 .. MaxSize
         /\ \A v \in Values[w[2]] : Size[v] = w[3]
<1> USE EepAssumption
<1>1. w \in Headers /\ w[2] \in Ids BY DEF Heads
<1>2. PICK v \in Values[w[2]] : w[3] = Size[v] BY DEF Heads
<1>3. w[1] = "hdr" /\ w \in Words BY <1>1 DEF Headers, Words
<1>4. w # FF /\ w # Garbage BY <1>1 DEF FixedPair
<1>5. IsHdr(w) /\ SizeOf(w) = w[3] BY <1>3, <1>4 DEF IsHdr, SizeOf
<1>6. Size[v] \in 0 .. MaxSize /\ Size[v] > 0 BY <1>1, <1>2 DEF FixedPair
<1>7. \A u \in Values[w[2]] : Size[u] = Size[v] BY <1>1, <1>2 DEF FixedPair
<1> QED BY <1>1, <1>2, <1>3, <1>4, <1>5, <1>6, <1>7

LEMMA GoodRecords ==
  ASSUME FixedPair, NEW r \in BankTypes, Good(r)
  PROVE  /\ EndOf(r) \in Addrs /\ r[EndOf(r)] = FF
         /\ \A a \in Records(r) :
              /\ r[a] \in Heads /\ IsHdr(r[a]) /\ SizeOf(r[a]) = r[a][3] /\ r[a][2] \in Ids
              /\ r[a][3] \in 1 .. MaxSize
              /\ a + 1 + r[a][3] <= EndOf(r)
<1> USE EepAssumption
<1>1. ASSUME NEW a \in Records(r)
      PROVE  /\ r[a] \in Heads /\ IsHdr(r[a]) /\ SizeOf(r[a]) = r[a][3] /\ r[a][2] \in Ids
             /\ r[a][3] \in 1 .. MaxSize
             /\ a + 1 + r[a][3] <= EndOf(r)
  <2>1. r[a] \in Heads BY DEF Good
  <2>2. /\ IsHdr(r[a]) /\ SizeOf(r[a]) = r[a][3] /\ r[a][2] \in Ids /\ r[a][3] \in 1 .. MaxSize
    BY <2>1, HeadFacts
  <2>3. a + 1 + SizeOf(r[a]) <= EndOf(r) BY ChainFacts
  <2> QED BY <2>1, <2>2, <2>3
<1>2. EndOf(r) \in Addrs
  <2> DEFINE S == {x \in 1 .. BankWords - 1 : x \in Chain(r)}
  <2>1. /\ Chain(r) \subseteq 1 .. ScanTop /\ 1 \in Chain(r)
        /\ EndOf(r) \in Chain(r)
        /\ \A a \in Chain(r) : ~Stops(r, a) => a \in Records(r) /\ a + 1 + SizeOf(r[a]) \in Chain(r)
        /\ \A T \in SUBSET (1 .. ScanTop) : 1 \in T /\ Closed(r, T) => Chain(r) \subseteq T
    BY ChainFacts
  <2>2. S \in SUBSET (1 .. ScanTop) /\ 1 \in S BY <2>1 DEF ScanTop
  <2>3. Closed(r, S)
    <3>1. ASSUME NEW a \in S, ~Stops(r, a) PROVE a + 1 + SizeOf(r[a]) \in S
      <4>1. a \in Records(r) /\ a + 1 + SizeOf(r[a]) \in Chain(r) /\ a \in Nat
        BY <2>1, <3>1, ChainFacts DEF Addrs
      <4>2. a + 1 + SizeOf(r[a]) <= BankWords - 1 BY <1>1, <4>1 DEF Good
      <4>3. SizeOf(r[a]) \in Nat BY <1>1, <4>1
      <4>4. a + 1 + SizeOf(r[a]) \in 1 .. BankWords - 1 BY <4>1, <4>2, <4>3
      <4> QED BY <4>1, <4>4
    <3> HIDE DEF S
    <3> QED BY <3>1 DEF Closed
  <2>4. EndOf(r) \in S BY <2>1, <2>2, <2>3
  <2> QED BY <2>4 DEF Addrs
<1>3. r[EndOf(r)] = FF BY <1>2 DEF Good, Addrs
<1> QED BY <1>1, <1>2, <1>3

\* A bank with one more record.
LEMMA RecordAppended ==
  ASSUME FixedPair, NEW r \in BankTypes, Good(r), NEW w \in Heads,
         NEW r2 \in BankTypes, Appended(r, w, r2)
  PROVE  /\ Good(r2) /\ EndOf(r2) = EndOf(r) + 1 + w[3]
         /\ Chain(r2) = Chain(r) \cup {EndOf(r2)}
         /\ Records(r2) = Records(r) \cup {EndOf(r)}
         /\ \A id : id # w[2] => Find(r2, id) = Find(r, id) /\ Value(r2, id) = Value(r, id)
         /\ Find(r2, w[2]) # {} /\ Last(r2, w[2]) = EndOf(r)
         /\ Value(r2, w[2]) = [i \in 1 .. w[3] |-> r2[EndOf(r) + i]]
<1> USE EepAssumption
<1> DEFINE e == EndOf(r) e2 == e + 1 + w[3]
<1>1. /\ e \in Addrs /\ r[e] = FF /\ Stops(r, e)
      /\ \A a \in Records(r) :
           /\ a \in Addrs /\ a < e /\ ~Stops(r, a)
           /\ r[a] \in Heads /\ IsHdr(r[a]) /\ SizeOf(r[a]) = r[a][3] /\ r[a][3] \in 1 .. MaxSize
           /\ a + 1 + r[a][3] <= e
  BY GoodRecords, ChainFacts
<1>2. w # FF /\ IsHdr(w) /\ SizeOf(w) = w[3] /\ w[3] \in 1 .. MaxSize BY HeadFacts
<1>3. /\ e2 <= BankWords - 1 /\ r2[e] = w
      /\ \A x \in Addrs : x < e \/ x > e + w[3] => r2[x] = r[x]
  BY DEF Appended
<1>a. \A x \in Addrs : x >= e => r[x] = FF BY DEF Good
<1> HIDE DEF e
<1>4. /\ e \in Nat /\ e >= 1 /\ w[3] \in Nat /\ w[3] >= 1
      /\ e2 \in Addrs /\ e2 \in 1 .. ScanTop /\ e2 > e + w[3] /\ e < BankWords - 1
  BY <1>1, <1>2, <1>3 DEF Addrs, ScanTop
<1>b. e2 = e + 1 + w[3] OBVIOUS
<1> HIDE DEF e2
<1>5. \A a \in Records(r) : r2[a] = r[a] BY <1>1, <1>3
<1>6. r2[e2] = FF BY <1>3, <1>4, <1>a, <1>1
<1>7. ~Stops(r2, e) BY <1>2, <1>3, <1>4 DEF Stops
<1>8. Stops(r2, e2) BY <1>6 DEF Stops
<1>9. \A a \in Records(r) : ~Stops(r2, a) /\ SizeOf(r2[a]) = SizeOf(r[a])
  BY <1>1, <1>5 DEF Stops
<1>10. /\ Chain(r2) = Chain(r) \cup {e2} /\ EndOf(r2) = e2
       /\ Records(r2) = Records(r) \cup {e}
  <2>1. e2 # e BY <1>4
  <2>2. SizeOf(r2[e]) = w[3] BY <1>2, <1>3
  <2> QED BY <1>4, <1>7, <1>8, <1>9, <1>b, <2>1, <2>2, ScanIs DEF e
<1>11. Good(r2)
  <2>1. ASSUME NEW a \in Records(r2)
        PROVE  r2[a] \in Heads /\ a + 1 + r2[a][3] <= BankWords - 1
    <3>1. CASE a \in Records(r) BY <1>1, <1>5, <3>1 DEF Good
    <3>2. CASE a = e BY <1>3, <1>b, <3>2
    <3> QED BY <1>10, <2>1, <3>1, <3>2
  <2>2. ASSUME NEW x \in Addrs, x >= e2 PROVE r2[x] = FF
    <3>1. x > e + w[3] /\ x >= e BY <1>4, <2>2 DEF Addrs
    <3> QED BY <1>3, <1>a, <3>1
  <2> QED BY <1>10, <2>1, <2>2 DEF Good
<1>12. ASSUME NEW id, id # w[2] PROVE Find(r2, id) = Find(r, id) /\ Value(r2, id) = Value(r, id)
  <2>1. Find(r2, id) = Find(r, id) BY <1>3, <1>5, <1>10, <1>12 DEF Find
  <2>2. CASE Find(r, id) = {} BY <2>1, <2>2 DEF Value
  <2>3. CASE Find(r, id) # {}
    <3>1. PICK a : a = Last(r, id) /\ a \in Find(r, id) /\ \A x \in Find(r, id) : x <= a
      BY <2>3, LastFound
    <3>2. Last(r2, id) = a BY <2>1, <3>1, LastIs
    <3>3. a \in Records(r) BY <3>1 DEF Find
    <3>4. r2[a] = r[a] /\ SizeOf(r[a]) \in Nat /\ a \in Nat /\ a + 1 + SizeOf(r[a]) <= e /\ a >= 1
      BY <1>1, <1>5, <3>3 DEF Addrs
    <3>5. ASSUME NEW i \in 1 .. SizeOf(r[a]) PROVE WordAt(r2, a + i) = WordAt(r, a + i)
      <4>1. a + i \in Addrs /\ a + i < e BY <1>4, <3>4 DEF Addrs
      <4> QED BY <1>3, <4>1 DEF WordAt
    <3>6. Value(r, id) = [i \in 1 .. SizeOf(r[a]) |-> WordAt(r, a + i)] BY <2>3, <3>1 DEF Value
    <3>7. Value(r2, id) = [i \in 1 .. SizeOf(r2[a]) |-> WordAt(r2, a + i)]
      BY <2>1, <2>3, <3>2 DEF Value
    <3> QED BY <2>1, <3>4, <3>5, <3>6, <3>7
  <2> QED BY <2>1, <2>2, <2>3
<1>13. e \in Find(r2, w[2]) BY <1>2, <1>3, <1>10 DEF Find
<1>14. \A x \in Find(r2, w[2]) : x <= e BY <1>1, <1>4, <1>10 DEF Find, Addrs
<1>15. Last(r2, w[2]) = e BY <1>13, <1>14, LastIs
<1>16. Value(r2, w[2]) = [i \in 1 .. w[3] |-> r2[e + i]]
  <2>1. SizeOf(r2[e]) = w[3] BY <1>2, <1>3
  <2>2. Value(r2, w[2]) = [i \in 1 .. SizeOf(r2[e]) |-> WordAt(r2, e + i)]
    BY <1>13, <1>15 DEF Value
  <2>3. ASSUME NEW i \in 1 .. w[3] PROVE WordAt(r2, e + i) = r2[e + i]
    <3>1. e + i \in Addrs BY <1>4, <1>b DEF Addrs
    <3> QED BY <3>1 DEF WordAt
  <2> QED BY <2>1, <2>2, <2>3
<1> QED BY <1>10, <1>11, <1>12, <1>13, <1>15, <1>16, <1>b DEF e

\* The data of the last record is written: only its object changes.
LEMMA DataWritten ==
  ASSUME FixedPair, NEW r \in BankTypes, Good(r), NEW r2 \in BankTypes,
         NEW a \in Records(r), \A x \in Chain(r) : x <= a \/ x = a + 1 + r[a][3],
         \A x \in Addrs : x <= a \/ x > a + r[a][3] => r2[x] = r[x]
  PROVE  /\ Good(r2)
         /\ \A id : id # r[a][2] => Value(r2, id) = Value(r, id)
         /\ Value(r2, r[a][2]) = [i \in 1 .. r[a][3] |-> r2[a + i]]
<1> USE EepAssumption
<1> DEFINE e == EndOf(r) n == r[a][3] id0 == r[a][2]
<1>1. /\ e \in Addrs /\ r[e] = FF /\ Stops(r, e)
      /\ \A b \in Records(r) :
           /\ b \in Addrs /\ b < e /\ ~Stops(r, b) /\ b \in Chain(r) /\ b < BankWords - 1
           /\ r[b] \in Heads /\ IsHdr(r[b]) /\ SizeOf(r[b]) = r[b][3] /\ r[b][3] \in 1 .. MaxSize
           /\ b + 1 + r[b][3] <= e
           /\ \A y \in Chain(r) : y <= b \/ y >= b + 1 + SizeOf(r[b])
           /\ b + 1 + SizeOf(r[b]) \in Chain(r)
      /\ e \in Chain(r) /\ EndOf(r) = e /\ e \in 1 .. ScanTop
  BY GoodRecords, ChainFacts
<1>2. /\ \A x \in Chain(r) : x <= a \/ x = a + 1 + n
      /\ \A x \in Addrs : x <= a \/ x > a + n => r2[x] = r[x]
      /\ n = SizeOf(r[a]) /\ n \in 1 .. MaxSize
  BY <1>1
<1>a. id0 = r[a][2] /\ n = r[a][3] OBVIOUS
<1>b. \A x \in Addrs : x >= e => r[x] = FF BY DEF Good
<1> HIDE DEF e, n, id0
<1>3. /\ a \in Nat /\ a >= 1 /\ n \in Nat /\ n >= 1 /\ e = a + 1 + n
      /\ \A x \in Addrs : x \in Nat /\ x >= 1 /\ x <= BankWords - 1
  BY <1>1, <1>2 DEF Addrs
<1>4. \A b \in Records(r) : b <= a /\ r2[b] = r[b] BY <1>1, <1>2, <1>3
<1>5. r2[e] = FF /\ Stops(r2, e) BY <1>1, <1>2, <1>3 DEF Stops
<1>6. \A b \in Records(r) : ~Stops(r2, b) /\ SizeOf(r2[b]) = SizeOf(r[b])
  BY <1>1, <1>4 DEF Stops
<1>7. EndOf(r2) = e /\ Records(r2) = Records(r)
  <2>1. Stops(r2, EndOf(r)) /\ e = EndOf(r) BY <1>1, <1>5
  <2> QED BY <1>1, <1>6, <2>1, ScanIs
<1>8. Good(r2)
  <2>1. \A b \in Records(r2) : r2[b] \in Heads /\ b + 1 + r2[b][3] <= BankWords - 1
    BY <1>4, <1>7 DEF Good
  <2>2. \A x \in Addrs : x >= e => x > a + n BY <1>3
  <2>3. \A x \in Addrs : x >= e => r2[x] = FF BY <1>2, <1>b, <2>2
  <2> QED BY <1>7, <2>1, <2>3 DEF Good
<1>9. \A id : Find(r2, id) = Find(r, id) BY <1>4, <1>7 DEF Find
<1>10. ASSUME NEW id, id # id0 PROVE Value(r2, id) = Value(r, id)
  <2>1. CASE Find(r, id) = {} BY <1>9, <2>1 DEF Value
  <2>2. CASE Find(r, id) # {}
    <3>1. PICK b : b = Last(r, id) /\ b \in Find(r, id) /\ \A x \in Find(r, id) : x <= b
      BY <2>2, LastFound
    <3>2. Last(r2, id) = b BY <1>9, <3>1, LastIs
    <3>3. b \in Records(r) /\ r[b][2] = id BY <3>1 DEF Find
    <3>4. b # a BY <1>10, <1>a, <3>3
    <3>5. r2[b] = r[b] /\ SizeOf(r[b]) \in Nat /\ b \in Nat /\ b + 1 + SizeOf(r[b]) <= a /\ b >= 1
      BY <1>1, <1>3, <1>4, <3>3, <3>4
    <3>6. ASSUME NEW i \in 1 .. SizeOf(r[b]) PROVE WordAt(r2, b + i) = WordAt(r, b + i)
      <4>1. b + i \in Addrs /\ b + i <= a BY <1>1, <1>3, <3>5 DEF Addrs
      <4> QED BY <1>2, <4>1 DEF WordAt
    <3>7. Value(r, id) = [i \in 1 .. SizeOf(r[b]) |-> WordAt(r, b + i)] BY <2>2, <3>1 DEF Value
    <3>8. Value(r2, id) = [i \in 1 .. SizeOf(r2[b]) |-> WordAt(r2, b + i)]
      BY <1>9, <2>2, <3>2 DEF Value
    <3> QED BY <3>5, <3>6, <3>7, <3>8
  <2> QED BY <2>1, <2>2
<1>11. Value(r2, id0) = [i \in 1 .. n |-> r2[a + i]]
  <2>1. a \in Find(r2, id0) BY <1>1, <1>9, <1>a DEF Find
  <2>2. \A x \in Find(r2, id0) : x <= a BY <1>4, <1>9 DEF Find
  <2>3. Last(r2, id0) = a BY <2>1, <2>2, LastIs
  <2>4. SizeOf(r2[a]) = n BY <1>2, <1>4
  <2>5. Value(r2, id0) = [i \in 1 .. SizeOf(r2[a]) |-> WordAt(r2, a + i)]
    BY <2>1, <2>3 DEF Value
  <2>6. ASSUME NEW i \in 1 .. n PROVE WordAt(r2, a + i) = r2[a + i]
    <3>1. a + i \in Addrs BY <1>1, <1>3 DEF Addrs
    <3> QED BY <3>1 DEF WordAt
  <2> QED BY <2>4, <2>5, <2>6
<1> QED BY <1>8, <1>10, <1>11 DEF id0, n

LEMMA ErasedGood ==
  /\ Good(ErasedBank) /\ EndOf(ErasedBank) = 1 /\ Chain(ErasedBank) = {1}
  /\ Records(ErasedBank) = {}
  /\ \A id : Find(ErasedBank, id) = {} /\ Value(ErasedBank, id) = Missing
<1> USE EepAssumption
<1> DEFINE r == ErasedBank
<1>1. r \in BankTypes BY ErasedType
<1>2. \A x \in Addrs : r[x] = FF BY DEF ErasedBank
<1> HIDE DEF r
<1>3. 1 \in Addrs BY DEF Addrs
<1>4. Stops(r, 1) BY <1>2, <1>3 DEF Stops
<1>5. {1} \in SUBSET (1 .. ScanTop) /\ Closed(r, {1}) BY <1>4 DEF Closed, ScanTop
<1>6. 1 \in Chain(r) /\ Chain(r) \subseteq {1} BY <1>1, <1>5, ChainFacts
<1>7. EndOf(r) = 1 BY <1>1, <1>4, <1>6, ChainFacts
<1>8. Records(r) = {} BY <1>1, <1>4, <1>6, ChainFacts
<1>9. \A id : Find(r, id) = {} BY <1>8 DEF Find
<1>10. Good(r) BY <1>2, <1>8 DEF Good
<1> QED BY <1>6, <1>7, <1>8, <1>9, <1>10 DEF r, Value

\* A header is programmed at the end, where nothing but it is changed.
LEMMA HeaderWritten ==
  ASSUME FixedPair, NEW r \in BankTypes, Good(r), NEW w \in Heads,
         EndOf(r) + 1 + w[3] <= BankWords - 1
  PROVE  /\ Appended(r, w, Write(r, EndOf(r), <<w>>))
         /\ \A i \in 1 .. w[3] : Write(r, EndOf(r), <<w>>)[EndOf(r) + i] = FF
<1> USE EepAssumption
<1> DEFINE e == EndOf(r) r2 == Write(r, EndOf(r), <<w>>)
<1>1. e \in Addrs /\ r[e] = FF /\ \A x \in Addrs : x >= e => r[x] = FF
  BY GoodRecords DEF Good
<1>2. w[3] \in 1 .. MaxSize BY HeadFacts
<1>3. r2 = [x \in Addrs |-> IF x - e + 1 \in DOMAIN <<w>> THEN Burn(r[x], <<w>>[x - e + 1]) ELSE r[x]]
  BY DEF Write
<1> HIDE DEF e, r2
<1>4. DOMAIN <<w>> = {1} /\ <<w>>[1] = w OBVIOUS
<1>5. \A x \in Addrs : x \in Nat /\ (x - e + 1 = 1 <=> x = e) BY <1>1 DEF Addrs
<1>6. r2[e] = w
  <2>1. e - e + 1 = 1 BY <1>1, <1>5
  <2>2. r2[e] = Burn(r[e], w) BY <1>1, <1>3, <1>4, <2>1
  <2> QED BY <1>1, <2>2 DEF Burn
<1>7. ASSUME NEW x \in Addrs, x # e PROVE r2[x] = r[x]
  <2>1. x - e + 1 # 1 BY <1>5, <1>7
  <2> QED BY <1>3, <1>4, <2>1
<1>8. \A x \in Addrs : x < e \/ x > e + w[3] => r2[x] = r[x]
  <2>1. \A x \in Addrs : x < e \/ x > e + w[3] => x # e BY <1>1, <1>2 DEF Addrs
  <2> QED BY <1>7, <2>1
<1>9. ASSUME NEW i \in 1 .. w[3] PROVE r2[e + i] = FF
  <2>1. e + 1 + w[3] <= BankWords - 1 BY DEF e
  <2>2. e + i \in Addrs /\ e + i >= e /\ e + i # e BY <1>1, <1>2, <2>1 DEF Addrs
  <2> QED BY <1>1, <1>7, <2>2
<1>10. e + 1 + w[3] <= BankWords - 1 BY DEF e
<1> QED BY <1>6, <1>8, <1>9, <1>10 DEF Appended, e, r2

\* The data, or its first words.
LEMMA DataWords ==
  ASSUME TypeOK, NEW r, r = rec[job.bank], job.at \in Addrs, NEW n \in 0 .. Size[job.val],
         job.at + 1 + Size[job.val] <= BankWords - 1,
         \A i \in 1 .. Size[job.val] : r[job.at + i] = FF
  PROVE  /\ \A x \in Addrs : x <= job.at \/ x > job.at + Size[job.val] => WriteWords(n)[x] = r[x]
         /\ \A i \in 1 .. Size[job.val] :
              WriteWords(n)[job.at + i] = IF i <= n THEN <<"dat", job.val, i>> ELSE FF
<1> USE EepAssumption
<1> DEFINE a == job.at v == job.val s == Size[v]
           ws == [i \in 1 .. n |-> <<"dat", v, i>>]
           r2 == WriteWords(n)
<1>1. s \in 0 .. MaxSize BY WordsTyped
<1>2. r2 = [x \in Addrs |-> IF x - (a + 1) + 1 \in DOMAIN ws THEN Burn(r[x], ws[x - (a + 1) + 1]) ELSE r[x]]
  BY DEF WriteWords, Write
<1>3. /\ a \in Addrs /\ n \in 0 .. s /\ a + 1 + s <= BankWords - 1
      /\ \A i \in 1 .. s : r[a + i] = FF
  OBVIOUS
<1>4. DOMAIN ws = 1 .. n /\ \A i \in 1 .. n : ws[i] = <<"dat", v, i>> OBVIOUS
<1> HIDE DEF a, s, ws, r2
<1>5. a \in Nat /\ a >= 1 /\ s \in Nat /\ n \in Nat /\ n <= s /\ \A x \in Addrs : x \in Nat
  BY <1>1, <1>3 DEF Addrs
<1>6. ASSUME NEW x \in Addrs, x <= a \/ x > a + s PROVE r2[x] = r[x]
  <2>1. x - (a + 1) + 1 \notin 1 .. n BY <1>5, <1>6
  <2> QED BY <1>2, <1>4, <2>1
<1>7. ASSUME NEW i \in 1 .. s PROVE r2[a + i] = IF i <= n THEN <<"dat", v, i>> ELSE FF
  <2>1. a + i \in Addrs BY <1>3, <1>5 DEF Addrs
  <2>2. (a + i) - (a + 1) + 1 = i BY <1>5
  <2>3. r[a + i] = FF BY <1>3
  <2>4. CASE i <= n
    <3>1. i \in 1 .. n BY <1>5, <2>4
    <3>2. r2[a + i] = Burn(r[a + i], ws[i]) BY <1>2, <1>4, <2>1, <2>2, <3>1
    <3> QED BY <1>4, <2>3, <2>4, <3>1, <3>2 DEF Burn
  <2>5. CASE ~(i <= n)
    <3>1. i \notin 1 .. n BY <1>5, <2>5
    <3>2. r2[a + i] = r[a + i] BY <1>2, <1>4, <2>1, <2>2, <3>1
    <3> QED BY <2>3, <2>5, <3>2
  <2> QED BY <2>4, <2>5
<1> QED BY <1>6, <1>7 DEF a, s, r2

\* The last record of an object has the length of any.
LEMMA SameLength ==
  ASSUME FixedPair, NEW old \in BankTypes, Good(old), NEW a \in Records(old)
  PROVE  LET id == old[a][2] src == Last(old, id) IN
         /\ src \in Records(old) /\ src \in Find(old, id)
         /\ old[src][2] = id /\ old[src][3] = old[a][3]
<1> DEFINE id == old[a][2] src == Last(old, id)
<1>1. \A x \in Records(old) : old[x] \in Heads /\ IsHdr(old[x]) BY GoodRecords
<1>2. a \in Find(old, id) BY <1>1 DEF Find
<1>3. src \in Find(old, id) BY <1>2, LastFound
<1>4. src \in Records(old) /\ old[src][2] = id BY <1>3 DEF Find
<1>5. old[a] \in Heads /\ old[src] \in Heads BY <1>1, <1>4
<1>6. \E v \in Values[id] : old[a][3] = Size[v] BY <1>5 DEF Heads
<1>7. \A v \in Values[id] : Size[v] = old[src][3] BY <1>4, <1>5, HeadFacts
<1> QED BY <1>3, <1>4, <1>6, <1>7

\* What the copy leaves in the erased bank.
LEMMA CopyTakes ==
  ASSUME FixedPair, TypeOK, NEW old, old = rec[job.bank], Good(old), rec[New] = ErasedBank,
         NEW a \in Records(old), a = job.at
  PROVE  TakenAlong(old, old[a][2], CopyWords(1 + SizeOf(old[a])))
<1> USE EepAssumption
<1> DEFINE id == old[a][2] src == Last(old, id) s == old[a][3]
           ws == [i \in 1 .. 1 + s |-> WordAt(old, src + i - 1)]
           r2 == CopyWords(1 + SizeOf(old[a]))
<1>1. old \in BankTypes BY EepTyped DEF Jobs
<1>2. /\ src \in Records(old) /\ src \in Find(old, id) /\ old[src][2] = id /\ old[src][3] = s
  BY <1>1, SameLength
<1>3. /\ SizeOf(old[a]) = s /\ s \in 1 .. MaxSize /\ \A x \in Records(old) : x \in Addrs /\ old[x] \in Heads
  BY <1>1, GoodRecords, ChainFacts
<1>4. src + 1 + s <= BankWords - 1 BY <1>2 DEF Good
<1>5. r2 = Write(ErasedBank, 1, ws) BY <1>3 DEF CopyWords
<1>6. r2 = [x \in Addrs |-> IF x - 1 + 1 \in DOMAIN ws THEN Burn(ErasedBank[x], ws[x - 1 + 1]) ELSE ErasedBank[x]]
  BY <1>5 DEF Write
<1>7. DOMAIN ws = 1 .. 1 + s /\ \A i \in 1 .. 1 + s : ws[i] = WordAt(old, src + i - 1) OBVIOUS
<1> HIDE DEF ws, r2, src, s
<1>8. src \in Nat /\ src >= 1 /\ s \in Nat /\ s >= 1 /\ \A x \in Addrs : x \in Nat /\ x - 1 + 1 = x
  BY <1>2, <1>3 DEF Addrs
<1>9. \A x \in Addrs : ErasedBank[x] = FF BY DEF ErasedBank
<1>10. ASSUME NEW x \in 1 .. 1 + s PROVE x \in Addrs /\ r2[x] = old[src + x - 1]
  <2>1. x \in Addrs /\ src + x - 1 \in Addrs BY <1>4, <1>8 DEF Addrs
  <2>2. r2[x] = Burn(ErasedBank[x], ws[x]) BY <1>6, <1>7, <1>8, <2>1
  <2>3. ws[x] = old[src + x - 1] BY <1>7, <2>1 DEF WordAt
  <2> QED BY <1>9, <2>1, <2>2, <2>3 DEF Burn
<1>11. ASSUME NEW x \in Addrs, x < 1 \/ x > 1 + s PROVE r2[x] = ErasedBank[x]
  <2>1. x \notin 1 .. 1 + s BY <1>8, <1>11
  <2> QED BY <1>6, <1>7, <1>8, <2>1
<1>12. r2[1] = old[src]
  <2>1. 1 \in 1 .. 1 + s /\ src + 1 - 1 = src BY <1>8
  <2> QED BY <1>10, <2>1
<1>13. \A i \in 1 .. s : r2[1 + i] = old[src + i]
  <2>1. \A i \in 1 .. s : 1 + i \in 1 .. 1 + s /\ src + (1 + i) - 1 = src + i BY <1>8
  <2> QED BY <1>10, <2>1
<1>14. EndOf(ErasedBank) = 1 BY ErasedGood
<1>15. Appended(ErasedBank, old[src], r2)
  <2>1. 1 + 1 + s <= BankWords - 1 BY <1>4, <1>8
  <2> QED BY <1>2, <1>11, <1>12, <1>14, <2>1 DEF Appended
<1>16. Find(old, id) # {} BY <1>2
<1> QED BY <1>2, <1>13, <1>15, <1>16 DEF TakenAlong, src, r2

LEMMA TakenReads ==
  ASSUME FixedPair, NEW old \in BankTypes, Good(old), NEW id, NEW r \in BankTypes,
         TakenAlong(old, id, r)
  PROVE  /\ Good(r) /\ Value(r, id) = Value(old, id) /\ Find(r, id) # {}
         /\ \A i : i # id => Value(r, i) = Missing
         /\ id \in Ids /\ \E v \in Values[id] : EndOf(r) = 2 + Size[v]
<1> USE EepAssumption
<1> DEFINE src == Last(old, id) w == old[src]
<1>1. Find(old, id) # {} BY DEF TakenAlong
<1>2. src \in Find(old, id) BY <1>1, LastFound
<1>3. src \in Records(old) /\ w[2] = id BY <1>2 DEF Find
<1>4. src \in Addrs /\ w \in Heads /\ SizeOf(w) = w[3] BY <1>3, GoodRecords, ChainFacts
<1>5. Appended(ErasedBank, w, r) /\ \A i \in 1 .. w[3] : r[1 + i] = old[src + i] BY DEF TakenAlong
<1>6. Value(old, id) = [i \in 1 .. SizeOf(w) |-> WordAt(old, src + i)] BY <1>1 DEF Value
<1>7. src + 1 + w[3] <= BankWords - 1 BY <1>3 DEF Good
<1> HIDE DEF src, w
<1>8. ErasedBank \in BankTypes /\ EndOf(ErasedBank) = 1 /\ Good(ErasedBank)
      /\ \A i : Value(ErasedBank, i) = Missing
  BY ErasedType, ErasedGood
<1>9. /\ Good(r) /\ EndOf(r) = 1 + 1 + w[3]
      /\ \A i : i # id => Value(r, i) = Missing
      /\ Find(r, id) # {} /\ Value(r, id) = [i \in 1 .. w[3] |-> r[1 + i]]
  <2>1. /\ Good(r) /\ EndOf(r) = EndOf(ErasedBank) + 1 + w[3]
        /\ \A i : i # w[2] => Value(r, i) = Value(ErasedBank, i)
        /\ Find(r, w[2]) # {}
        /\ Value(r, w[2]) = [i \in 1 .. w[3] |-> r[EndOf(ErasedBank) + i]]
    <3>1. Good(ErasedBank) /\ ErasedBank \in BankTypes /\ w \in Heads /\ Appended(ErasedBank, w, r)
      BY <1>4, <1>5, <1>8
    <3> QED BY <3>1, RecordAppended
  <2> QED BY <1>3, <1>8, <2>1
<1>10. w[3] \in 1 .. MaxSize BY <1>4, HeadFacts
<1>11. \A i \in 1 .. w[3] : WordAt(old, src + i) = old[src + i]
  <2>1. \A i \in 1 .. w[3] : src + i \in Addrs BY <1>4, <1>7, <1>10 DEF Addrs
  <2> QED BY <2>1 DEF WordAt
<1>12. Value(r, id) = Value(old, id) BY <1>4, <1>5, <1>6, <1>9, <1>11
<1>13. id \in Ids /\ \E v \in Values[id] : w[3] = Size[v] BY <1>3, <1>4 DEF Heads
<1>14. \E v \in Values[id] : EndOf(r) = 2 + Size[v]
  <2>1. PICK v \in Values[id] : w[3] = Size[v] BY <1>13
  <2>2. 1 + 1 + w[3] = 2 + w[3] BY <1>10
  <2> QED BY <1>9, <2>1, <2>2
<1> QED BY <1>9, <1>12, <1>13, <1>14
-----------------------------------------------------------------------------
(* The store as its callers see it.                                        *)

View   == [id \in Ids |-> IF Clearing THEN Missing ELSE Stored(id)]
Saving == IF job.step \in {"boot", "idle"} \/ Clearing THEN <<>> ELSE <<job.id, DataOf(job.val)>>
Torn(v) == {[i \in 1 .. Size[v] |-> IF i <= k THEN <<"dat", v, i>> ELSE FF] : k \in 0 .. Size[v]}

\* What a step may do to the store and the running save, in these terms.
Begins == \E id \in Ids, v \in AllValues :
            Saving = <<>> /\ Saving' = <<id, DataOf(v)>> /\ View' = View
Goes   == \E id \in Ids, v \in AllValues :
            /\ Saving = <<id, DataOf(v)>> /\ Saving' \in {Saving, <<>>}
            /\ \E d \in {View[id], Missing} \cup Torn(v) : View' = [View EXCEPT ![id] = d]
Wipes  == /\ Saving = <<>> /\ Saving' = <<>>
          /\ View[VER] = Missing \/ Len(View[VER]) # 1
          /\ View' = [id \in Ids |-> Missing]
Stays  == Saving' = Saving /\ View' = View

StoreStep == Begins \/ Goes \/ Wipes \/ Stays

LEMMA DataLength ==
  ASSUME FixedPair, NEW v \in AllValues
  PROVE  /\ Size[v] \in 1 .. MaxSize
         /\ Len(DataOf(v)) = Size[v]
         /\ Store!Torn(DataOf(v)) = Torn(v)
<1> USE EepAssumption
<1>1. Size[v] \in 1 .. MaxSize BY DEF AllValues, FixedPair
<1>2. Len(DataOf(v)) = Size[v] BY <1>1 DEF DataOf
<1> DEFINE Here(k) == [i \in 1 .. Size[v] |-> IF i <= k THEN <<"dat", v, i>> ELSE FF]
           There(k) == [i \in 1 .. Size[v] |-> IF i <= k THEN DataOf(v)[i] ELSE FF]
<1>3. \A k : Here(k) = There(k) BY DEF DataOf
<1>4. Store!Torn(DataOf(v)) = {There(k) : k \in 0 .. Size[v]} BY <1>2 DEF Store!Torn
<1>6. Torn(v) = {Here(k) : k \in 0 .. Size[v]} BY DEF Torn
<1> HIDE DEF Here, There
<1>5. Store!Torn(DataOf(v)) = Torn(v) BY <1>3, <1>4, <1>6
<1> QED BY <1>1, <1>2, <1>5

StoreNext == Store!Next

LEMMA StepIsStores ==
  ASSUME FixedPair, StoreStep
  PROVE  StoreNext \/ UNCHANGED <<View, Saving>>
<1>1. CASE Begins
  <2>1. PICK id \in Ids, v \in AllValues :
          Saving = <<>> /\ Saving' = <<id, DataOf(v)>> /\ View' = View
    BY <1>1 DEF Begins
  <2>2. Store!Begin(id, DataOf(v))
    BY <2>1 DEF Store!Begin, Store!Idle, View, Saving
  <2> QED BY <2>2 DEF StoreNext, Store!Next
<1>2. CASE Goes
  <2>1. PICK id \in Ids, v \in AllValues :
            /\ Saving = <<id, DataOf(v)>> /\ Saving' \in {Saving, <<>>}
            /\ \E d \in {View[id], Missing} \cup Torn(v) : View' = [View EXCEPT ![id] = d]
    BY <1>2 DEF Goes
  <2>2. PICK d \in {View[id], Missing} \cup Torn(v) : View' = [View EXCEPT ![id] = d] BY <2>1
  <2>3. d \in Store!Unsure(id, DataOf(v)) BY <2>2, DataLength DEF Store!Unsure, View
  <2>4. Store!Cut(Saving[1], Saving[2])
    BY <2>1, <2>2, <2>3 DEF Store!Cut, View
  <2>5. ~Store!Idle BY <2>1 DEF Store!Idle, Saving
  <2>6. CASE Saving' = Saving
    <3>1. Store!Progress BY <2>4, <2>5, <2>6 DEF Store!Progress, Saving
    <3> QED BY <3>1 DEF StoreNext, Store!Next
  <2>7. CASE Saving' = <<>>
    <3>1. Store!PowerLoss BY <2>4, <2>5, <2>7 DEF Store!PowerLoss, Saving
    <3> QED BY <3>1 DEF StoreNext, Store!Next
  <2> QED BY <2>1, <2>6, <2>7
<1>3. CASE Wipes
  <2>1. Store!Wipe BY <1>3 DEF Wipes, Store!Wipe, Store!Idle, View, Saving
  <2> QED BY <2>1 DEF StoreNext, Store!Next
<1>4. CASE Stays BY <1>4 DEF Stays
<1> QED BY <1>1, <1>2, <1>3, <1>4 DEF StoreStep

LEMMA StateFacts ==
  ASSUME FixedPair, EepInv, job.val \in Values[job.id]
  PROVE  /\ job.bank \in Banks /\ New \in Banks /\ New # job.bank /\ Current \in Banks
         /\ rec \in [Banks -> BankTypes] /\ num \in [Banks -> Numbers]
         /\ job.id \in Ids /\ job.val \in AllValues /\ Size[job.val] \in 1 .. MaxSize
         /\ Header \in Heads /\ Header[2] = job.id /\ Header[3] = Size[job.val]
         /\ \A id : Stored(id) = Value(rec[Current], id)
         /\ job.step \in Steps
<1> USE EepAssumption
<1>1. /\ job.bank \in Banks /\ job.id \in Ids /\ job.val \in AllValues /\ job.step \in Steps
      /\ rec \in [Banks -> BankTypes] /\ num \in [Banks -> Numbers] /\ TypeOK
  BY EepTyped DEF EepInv, Jobs
<1>2. New \in Banks /\ New # job.bank BY <1>1, NextBank DEF New
<1>3. Current \in Banks BY <1>1, ClaimedFacts
<1>4. Size[job.val] \in 1 .. MaxSize BY <1>1, DataLength
<1>5. Header[1] = "hdr" /\ Header[2] = job.id /\ Header[3] = Size[job.val] BY DEF Header
<1>6. Header \in Headers
  <2>1. job.id \in SUBSET UNION Ids BY <1>1
  <2> QED BY <1>4, <2>1 DEF Header, Headers
<1>7. Header \in Heads BY <1>1, <1>5, <1>6 DEF Heads
<1>8. \A id : Stored(id) = Value(rec[Current], id) BY DEF Stored, Value
<1> QED BY <1>1, <1>2, <1>3, <1>4, <1>5, <1>7, <1>8

\* Room for a record in a good bank.
LEMMA SaveRoom ==
  ASSUME FixedPair, NEW r \in BankTypes, Good(r), NEW n \in 1 .. MaxSize
  PROVE  SaveAddr(r, n) # 0 =>
           SaveAddr(r, n) = EndOf(r) /\ EndOf(r) + 1 + n <= BankWords - 1
<1> USE EepAssumption
<1>1. EndOf(r) \in Nat BY GoodRecords DEF Addrs
<1> QED BY <1>1 DEF SaveAddr

LEMMA SameView ==
  ASSUME ~Clearing, ~Clearing', \A id \in Ids : Stored(id)' = Stored(id)
  PROVE  View' = View
BY DEF View

LEMMA OneChanges ==
  ASSUME ~Clearing, ~Clearing', NEW id \in Ids, NEW d, Stored(id)' = d,
         \A i \in Ids \ {id} : Stored(i)' = Stored(i)
  PROVE  View' = [View EXCEPT ![id] = d]
<1> DEFINE S(i) == Stored(i)
<1>1. View = [i \in Ids |-> S(i)] BY DEF View
<1>2. View' = [i \in Ids |-> S(i)'] BY DEF View
<1>3. \A i \in Ids : S(i)' = IF i = id THEN d ELSE S(i) OBVIOUS
<1> HIDE DEF S
<1> QED BY <1>1, <1>2, <1>3

\* The call goes on.
Calls == {"erase", "occupy", "copy", "commit", "drop", "header", "data"}
LEMMA SavingKept ==
  ASSUME job.step \in Calls, job'.step \in Calls, job'.id = job.id, job'.val = job.val
  PROVE  /\ ~Clearing /\ ~Clearing'
         /\ Saving' = Saving /\ Saving = <<job.id, DataOf(job.val)>>
<1>1. ~Clearing /\ ~Clearing' BY DEF Clearing, Calls
<1>2. Saving = <<job.id, DataOf(job.val)>> BY <1>1 DEF Saving, Calls
<1>3. Saving' = <<job'.id, DataOf(job.val)'>> BY <1>1 DEF Saving, Calls
<1>4. DataOf(job.val)' = DataOf(job.val) BY DEF DataOf
<1> QED BY <1>1, <1>2, <1>3, <1>4

\* A call begins, or has nothing to do.
LEMMA SaveIs ==
  ASSUME FixedPair, EepInv, StoreInv, EepInv', NumberInv',
         job.step \in {"boot", "idle"}, \E b \in Banks : num[b] # Blank,
         NEW id \in Ids, NEW v \in Values[id], BeginSave(id, v, Current),
         num' = Claimed, rec' = rec
  PROVE  StoreInv' /\ StoreStep
<1> USE EepAssumption
<1> DEFINE at == SaveAddr(rec[Current], Size[v])
           Go(step) == job' = [NoJob EXCEPT !.step = step, !.id = id, !.val = v, !.bank = Current, !.at = at]
<1>1. num' = num BY DEF Claimed
<1>2. Current' = Current BY <1>1 DEF Current
<1>3. ~Clearing BY DEF Clearing
<1>4. \A i : Stored(i)' = Stored(i) BY <1>2 DEF Stored
<1>5. v \in AllValues BY DEF AllValues
<1>6. Good(rec[Current]) BY <1>3 DEF StoreInv
<1>7. Saving = <<>> BY DEF Saving
<1>8. Good(rec'[Current']) BY <1>2, <1>6
<1>9. rec[Current] \in BankTypes
  <2>1. job.val \in Values[job.id] BY DEF StoreInv
  <2> QED BY <2>1, StateFacts
<1>10. CASE job' = NoJob
  <2>1. job'.step = "idle" /\ job'.id = VER /\ job'.val \in Values[VER] BY <1>10 DEF NoJob
  <2>2. Saving' = <<>> /\ ~Clearing' BY <2>1 DEF Saving, Clearing
  <2>3. StoreInv' BY <1>8, <2>1, <2>2 DEF StoreInv, Clearing
  <2>4. View' = View BY <1>3, <1>4, <2>2, SameView
  <2> QED BY <1>7, <2>2, <2>3, <2>4 DEF StoreStep, Stays
<1>11. ASSUME NEW step \in {"header", "erase", "occupy"}, Go(step)
       PROVE  /\ job'.step = step /\ job'.id = id /\ job'.val = v /\ job'.bank = Current
              /\ job'.at = at /\ ~Clearing' /\ Begins
  <2>1. job'.step = step /\ job'.id = id /\ job'.val = v /\ job'.bank = Current /\ job'.at = at
    BY <1>11 DEF NoJob
  <2>2. ~Clearing' BY <2>1 DEF Clearing
  <2>3. Saving' = <<id, DataOf(v)>> BY <2>1, <2>2 DEF Saving, Clearing, DataOf
  <2>4. View' = View BY <1>3, <1>4, <2>2, SameView
  <2> QED BY <1>5, <1>7, <2>1, <2>2, <2>3, <2>4 DEF Begins
<1>12. CASE Go("header") /\ at # 0
  <2>1. /\ job'.step = "header" /\ job'.id = id /\ job'.val = v /\ job'.bank = Current
        /\ job'.at = at /\ ~Clearing' /\ Begins
    BY <1>11, <1>12
  <2>2. at = EndOf(rec[Current]) /\ at + 1 + Size[v] <= BankWords - 1
    <3>1. Size[v] \in 1 .. MaxSize BY <1>5, DataLength
    <3> QED BY <1>6, <1>9, <1>12, <3>1, SaveRoom
  <2> HIDE DEF at
  <2>3. StoreInv' BY <1>2, <1>8, <2>1, <2>2 DEF StoreInv, Clearing
  <2> QED BY <2>1, <2>3 DEF StoreStep
<1>13. CASE Go("erase") \/ Go("occupy")
  <2>1. PICK step \in {"erase", "occupy"} : Go(step) BY <1>13
  <2>2. /\ job'.step \in {"erase", "occupy"} /\ job'.id = id /\ job'.val = v
        /\ ~Clearing' /\ Begins
    BY <1>11, <2>1
  <2> HIDE DEF at, Go
  <2>3. StoreInv' BY <1>8, <2>2 DEF StoreInv, Clearing
  <2> QED BY <2>2, <2>3 DEF StoreStep
<1>14. \/ job' = NoJob
       \/ Go("header") /\ at # 0
       \/ Go(IF NeedsErase(Next(Current)) THEN "erase" ELSE "occupy")
  BY DEF BeginSave
<1>15. \/ job' = NoJob \/ (Go("header") /\ at # 0) \/ Go("erase") \/ Go("occupy")
  <2> HIDE DEF Go, at
  <2> QED BY <1>14
<1> QED BY <1>10, <1>12, <1>13, <1>15

LEMMA CheckVersionIs ==
  ASSUME FixedPair, EepInv, NumberInv, StoreInv, EepInv', NumberInv',
         NEW v \in Values[VER], CheckVersion(v)
  PROVE  StoreInv' /\ StoreStep
<1> USE EepAssumption
<1>1. job.step = "boot" /\ num' = Claimed /\ rec' = rec BY DEF CheckVersion
<1>2. CASE Stored(VER) # Missing /\ DOMAIN Stored(VER) = 1 .. 1
  <2>1. BeginSave(VER, v, Current) BY <1>2 DEF CheckVersion
  <2>2. \E b \in Banks : num[b] # Blank BY <1>2, BlankReadsMissing
  <2> QED BY <1>1, <2>1, <2>2, SaveIs
<1>3. CASE ~(Stored(VER) # Missing /\ DOMAIN Stored(VER) = 1 .. 1)
  <2>1. job' = [NoJob EXCEPT !.step = "wipe", !.val = v] BY <1>3 DEF CheckVersion
  <2>2. job'.step = "wipe" /\ job'.bank = 0 /\ job'.id = VER /\ job'.val = v
    BY <2>1 DEF NoJob
  <2>3. Clearing' BY <2>2 DEF Clearing
  <2>4. \A b \in Banks : ~(b < 0) BY DEF Banks
  <2>5. StoreInv' BY <2>2, <2>3, <2>4 DEF StoreInv, Clearing
  <2>6. Saving = <<>> /\ Saving' = <<>> BY <1>1, <2>3 DEF Saving
  <2>7. View' = [id \in Ids |-> Missing] BY <2>3 DEF View
  <2>8. View[VER] = Stored(VER) BY <1>1 DEF View, Clearing
  <2>9. Stored(VER) = Missing \/ Len(Stored(VER)) # 1
    <3>1. CASE Stored(VER) # Missing
      <4> DEFINE r == rec[Current] n == SizeOf(r[Last(r, VER)])
      <4>1. Stored(VER) = [i \in 1 .. n |-> WordAt(r, Last(r, VER) + i)] BY <3>1 DEF Stored
      <4>2. n \in Nat
        <5>1. r \in BankTypes /\ Good(r) BY <1>1, StateFacts DEF StoreInv, Clearing
        <5>2. Find(r, VER) # {} BY <3>1 DEF Stored
        <5>3. Last(r, VER) \in Records(r) BY <5>1, <5>2, LastFound DEF Find
        <5> QED BY <5>1, <5>3, GoodRecords
      <4> HIDE DEF n
      <4>3. DOMAIN Stored(VER) = 1 .. n /\ Len(Stored(VER)) = n BY <4>1, <4>2
      <4>4. n # 1 BY <1>3, <3>1, <4>3
      <4> QED BY <4>3, <4>4
    <3> QED BY <3>1
  <2>10. Wipes BY <2>6, <2>7, <2>8, <2>9 DEF Wipes
  <2> QED BY <2>5, <2>10 DEF StoreStep
<1> QED BY <1>2, <1>3

LEMMA SaveCallIs ==
  ASSUME FixedPair, EepInv, NumberInv, StoreInv, EepInv', NumberInv',
         NEW id \in Ids, NEW v \in Values[id], Save(id, v)
  PROVE  StoreInv' /\ StoreStep
<1>1. job = NoJob /\ BeginSave(id, v, Current) /\ num' = Claimed /\ rec' = rec BY DEF Save
<1>2. job.step = "idle" BY <1>1 DEF NoJob
<1>3. \E b \in Banks : num[b] # Blank BY <1>2 DEF EepInv, JobInv
<1> QED BY <1>1, <1>2, <1>3, SaveIs

\* The store is cleared: its callers see it empty all along.
LEMMA ClearingIs ==
  ASSUME FixedPair, EepInv, NumberInv, StoreInv, EepInv', NumberInv', WipeBank \/ NumberBank
  PROVE  StoreInv' /\ StoreStep
<1> USE EepAssumption
<1>a. PICK o \in Banks : o = job.bank BY EepTyped DEF EepInv, Jobs
<1>b. /\ job.val \in Values[job.id] /\ job.val \in AllValues /\ job.id \in Ids
      /\ rec \in [Banks -> BankTypes] /\ job \in Jobs
  BY StateFacts, EepTyped DEF StoreInv, EepInv
<1>1. job.step \in {"wipe", "number"} BY DEF WipeBank, NumberBank
<1>2. Clearing BY <1>1 DEF Clearing
<1>3. Saving = <<>> /\ View = [id \in Ids |-> Missing] BY <1>2 DEF Saving, View
<1>c. \A b \in Banks : b \in Nat BY DEF Banks
<1>4. ASSUME Clearing' PROVE Stays
  <2>1. Saving' = <<>> /\ View' = [id \in Ids |-> Missing] BY <1>4 DEF Saving, View
  <2> QED BY <1>3, <2>1 DEF Stays
<1>5. CASE WipeBank
  <2>1. /\ job.step = "wipe" /\ rec' = [rec EXCEPT ![o] = ErasedBank]
        /\ job' = [job EXCEPT !.step = "number", !.old = num[o]]
    BY <1>a, <1>5 DEF WipeBank
  <2>2. job'.step = "number" /\ job'.bank = o /\ job'.id = job.id /\ job'.val = job.val
    BY <1>a, <1>b, <2>1 DEF Jobs
  <2>3. Clearing' BY <2>2 DEF Clearing
  <2>4. \A b \in Banks : b < o => rec[b] = ErasedBank BY <1>a, <2>1 DEF StoreInv
  <2>5. \A b \in Banks : b <= o => rec'[b] = ErasedBank
    <3>1. \A b \in Banks : b <= o => b < o \/ b = o BY <1>c
    <3> QED BY <1>b, <2>1, <2>4, <3>1
  <2>6. StoreInv' BY <1>b, <2>2, <2>3, <2>5 DEF StoreInv, Clearing
  <2> QED BY <1>4, <2>3, <2>6 DEF StoreStep
<1>6. CASE NumberBank
  <2>1. job.step = "number" /\ rec' = rec BY <1>6 DEF NumberBank
  <2>2. \A b \in Banks : b <= o => rec[b] = ErasedBank BY <1>a, <2>1 DEF StoreInv
  <2>3. CASE o + 1 \in Banks
    <3>1. job' = [job EXCEPT !.step = "wipe", !.bank = o + 1] BY <1>a, <1>6, <2>3 DEF NumberBank
    <3>2. job'.step = "wipe" /\ job'.bank = o + 1 /\ job'.id = job.id /\ job'.val = job.val
      BY <1>b, <3>1 DEF Jobs
    <3>3. Clearing' BY <3>2 DEF Clearing
    <3>4. \A b \in Banks : b < o + 1 => b <= o BY <1>c
    <3>5. StoreInv' BY <1>b, <2>1, <2>2, <3>2, <3>3, <3>4 DEF StoreInv, Clearing
    <3> QED BY <1>4, <3>3, <3>5 DEF StoreStep
  <2>4. CASE o + 1 \notin Banks
    <3>1. job' = [job EXCEPT !.step = "header", !.at = 1, !.bank = CurrentOf(num'), !.old = 0]
      BY <1>a, <1>6, <2>4 DEF NumberBank
    <3>2. /\ job'.step = "header" /\ job'.bank = Current' /\ job'.at = 1
          /\ job'.id = job.id /\ job'.val = job.val
      BY <1>b, <3>1 DEF Jobs, Current
    <3>3. ~Clearing' BY <3>2 DEF Clearing
    <3>4. Current' \in Banks
      <4>1. num' \in [Banks -> Numbers] BY DEF EepInv, TypeOK, Numbers
      <4> QED BY <4>1, CurrentLeast DEF Current
    <3>5. \A b \in Banks : b <= o BY <2>4 DEF Banks
    <3>6. \A b \in Banks : rec'[b] = ErasedBank BY <2>1, <2>2, <3>5
    <3>7. Good(rec'[Current']) /\ EndOf(rec'[Current']) = 1 BY <3>4, <3>6, ErasedGood
    <3>8. 1 + 1 + Size[job.val] <= BankWords - 1
      <4>1. Size[job.val] \in 0 .. MaxSize BY <1>b
      <4> QED BY <4>1
    <3>9. StoreInv' BY <1>b, <3>2, <3>3, <3>7, <3>8 DEF StoreInv, Clearing
    <3>10. \A id : Stored(id)' = Missing
      <4>1. \A id : Find(rec'[Current'], id) = {} BY <3>4, <3>6, ErasedGood
      <4> QED BY <4>1 DEF Stored
    <3>11. View' = [id \in Ids |-> Missing] BY <3>3, <3>10 DEF View
    <3>12. Saving' = <<job.id, DataOf(job.val)>> BY <3>2, <3>3 DEF Saving, DataOf
    <3>13. Begins BY <1>3, <1>b, <3>11, <3>12 DEF Begins
    <3> QED BY <3>9, <3>13 DEF StoreStep
  <2> QED BY <2>3, <2>4
<1> QED BY <1>5, <1>6

\* While the old bank is read the store stays as it is.
LEMMA PackGoes ==
  ASSUME FixedPair, EepInv, StoreInv, NumberInv, NumberInv',
         job.step \in {"erase", "occupy", "copy"}, job'.step \in {"occupy", "copy", "commit"},
         job'.id = job.id, job'.val = job.val, job'.bank = job.bank,
         rec'[job.bank] = rec[job.bank]
  PROVE  /\ StoreStep /\ ~Clearing'
         /\ Current = job.bank /\ Current' = job.bank /\ New' = New
         /\ Good(rec[job.bank]) /\ Good(rec'[Current'])
<1>1. Current = job.bank /\ Current' = job.bank /\ New' = New BY DEF NumberInv, New
<1>2. ~Clearing /\ ~Clearing' BY DEF Clearing
<1>3. \A id : Stored(id)' = Stored(id) BY <1>1 DEF Stored
<1>4. View' = View BY <1>2, <1>3, SameView
<1>5. Good(rec[job.bank]) BY <1>1, <1>2 DEF StoreInv
<1>6. Good(rec'[Current']) BY <1>1, <1>5
<1>7. Saving' = Saving BY <1>2 DEF Saving, DataOf
<1> QED BY <1>1, <1>2, <1>4, <1>5, <1>6, <1>7 DEF StoreStep, Stays

LEMMA PackStarts ==
  ASSUME FixedPair, EepInv, NumberInv, StoreInv, EepInv', NumberInv', EraseNew \/ Occupy
  PROVE  StoreInv' /\ StoreStep
<1> USE EepAssumption
<1>1. /\ job.val \in Values[job.id] /\ job.bank \in Banks /\ New \in Banks /\ New # job.bank
      /\ rec \in [Banks -> BankTypes] /\ job \in Jobs
  BY StateFacts, EepTyped DEF StoreInv, EepInv
<1>2. CASE EraseNew
  <2>1. /\ job.step = "erase" /\ rec' = [rec EXCEPT ![New] = ErasedBank]
        /\ job' = [job EXCEPT !.step = "occupy"]
    BY <1>2 DEF EraseNew
  <2>2. /\ job'.step = "occupy" /\ job'.id = job.id /\ job'.val = job.val /\ job'.bank = job.bank
    BY <1>1, <2>1 DEF Jobs
  <2>3. rec'[job.bank] = rec[job.bank] BY <1>1, <2>1
  <2>4. StoreStep /\ ~Clearing' /\ Good(rec'[Current']) BY <2>1, <2>2, <2>3, PackGoes
  <2>5. StoreInv' BY <1>1, <2>2, <2>4 DEF StoreInv, Clearing
  <2> QED BY <2>4, <2>5
<1>3. CASE Occupy
  <2>1. job.step = "occupy" /\ rec' = rec /\ job' = [job EXCEPT !.step = "copy", !.at = 1]
    BY <1>3 DEF Occupy
  <2>2. /\ job'.step = "copy" /\ job'.id = job.id /\ job'.val = job.val /\ job'.bank = job.bank
        /\ job'.at = 1
    BY <1>1, <2>1 DEF Jobs
  <2>3. StoreStep /\ ~Clearing' /\ Good(rec'[Current']) /\ New' = New
    BY <2>1, <2>2, PackGoes
  <2>4. rec[New] = ErasedBank BY <1>1, <2>1 DEF EepInv, JobInv, BlankErased
  <2>5. 1 \in Chain(rec[job.bank]) BY <1>1, ChainFacts
  <2>6. Others(rec[job.bank], job.id, 1) = {}
    <3>1. \A id : \A a \in Find(rec[job.bank], id) : ~(a < 1)
      BY <1>1, ChainFacts DEF Find, Addrs
    <3> QED BY <3>1 DEF Others
  <2>7. Taken(rec[job.bank], job.id, rec[New], 1) BY <2>4, <2>6 DEF Taken
  <2>8. StoreInv' BY <1>1, <2>1, <2>2, <2>3, <2>5, <2>7 DEF StoreInv, Clearing
  <2> QED BY <2>3, <2>8
<1> QED BY <1>2, <1>3

\* The loop of the pack: what it has looked at is taken along.
LEMMA CopyRecordIs ==
  ASSUME FixedPair, EepInv, NumberInv, StoreInv, EepInv', NumberInv', CopyRecord
  PROVE  StoreInv' /\ StoreStep
<1> USE EepAssumption
<1>1. /\ job.val \in Values[job.id] /\ job.bank \in Banks /\ New \in Banks /\ New # job.bank
      /\ rec \in [Banks -> BankTypes] /\ job \in Jobs /\ job.id \in Ids /\ TypeOK
  BY StateFacts, EepTyped DEF StoreInv, EepInv
<1> DEFINE old == rec[job.bank] a == job.at w == old[a] next == a + 1 + SizeOf(w)
<1>2. job.step = "copy" /\ w # FF BY DEF CopyRecord
<1>3. rec' = IF Copies(w) THEN [rec EXCEPT ![New] = CopyWords(1 + SizeOf(w))] ELSE rec
  BY DEF CopyRecord
<1>4. job' = [job EXCEPT !.at = next, !.step = IF next >= BankWords - 2 THEN "commit" ELSE job.step]
  BY DEF CopyRecord
<1>5. a \in Chain(old) /\ Taken(old, job.id, rec[New], a) BY <1>2 DEF StoreInv
<1>6. rec'[job.bank] = old BY <1>1, <1>3
<1>o. old \in BankTypes /\ old = rec[job.bank] BY <1>1
<1>7. /\ job'.step = (IF next >= BankWords - 2 THEN "commit" ELSE "copy")
      /\ job'.id = job.id /\ job'.val = job.val /\ job'.bank = job.bank /\ job'.at = next
  <2> HIDE DEF next
  <2> QED BY <1>1, <1>2, <1>4 DEF Jobs
<1>8. StoreStep /\ ~Clearing' /\ Good(old) /\ Good(rec'[Current']) /\ New' = New
  BY <1>2, <1>6, <1>7, PackGoes
<1>a. a = job.at /\ w = old[a] /\ next = a + 1 + SizeOf(w) OBVIOUS
<1> HIDE DEF old, a, w, next
<1>9. /\ a \in Records(old) /\ a \in Addrs /\ next \in Chain(old) /\ next \in Nat
      /\ \A x \in Records(old) : x \in Nat /\ (x < next => x <= a)
  <2>1. /\ EndOf(old) \in Addrs /\ old[EndOf(old)] = FF BY <1>8, <1>o, GoodRecords
  <2>2. /\ \A x \in Chain(old) : x \in Nat /\ (Stops(old, x) => x = EndOf(old))
        /\ Records(old) = {x \in Chain(old) : ~Stops(old, x)}
        /\ \A x \in Records(old) :
             /\ x \in Addrs /\ x + 1 + SizeOf(old[x]) \in Chain(old)
             /\ \A y \in Chain(old) : y <= x \/ y >= x + 1 + SizeOf(old[x])
    BY <1>o, ChainFacts DEF ScanTop
  <2>3. ~Stops(old, a) BY <1>2, <1>5, <1>a, <2>1, <2>2
  <2>4. a \in Records(old) BY <1>5, <2>2, <2>3
  <2>5. next \in Chain(old) /\ next \in Nat BY <1>a, <2>2, <2>4
  <2>6. ASSUME NEW x \in Records(old), x < next PROVE x <= a
    <3>1. x \in Chain(old) /\ x \in Nat BY <2>2
    <3>2. x <= a \/ x >= next BY <1>a, <2>2, <2>4, <3>1
    <3> QED BY <2>5, <2>6, <3>1, <3>2
  <2> QED BY <2>2, <2>4, <2>5, <2>6
<1>10. w \in Heads /\ IsHdr(w) /\ w[2] \in Ids BY <1>8, <1>9, <1>a, <1>o, GoodRecords
<1>12. \/ rec'[New] = ErasedBank /\ Others(old, job.id, next) = {}
       \/ \E id \in Ids \ {job.id} : TakenAlong(old, id, rec'[New])
  <2>1. CASE rec[New] = ErasedBank /\ Others(old, job.id, a) = {}
    <3>1. CASE Copies(w)
      <4>1. w[2] # job.id BY <3>1 DEF Copies
      <4>2. rec'[New] = CopyWords(1 + SizeOf(w)) BY <1>1, <1>3, <3>1
      <4>3. TakenAlong(old, w[2], CopyWords(1 + SizeOf(w)))
        BY <1>1, <1>8, <1>9, <1>a, <1>o, <2>1, CopyTakes
      <4> QED BY <1>10, <4>1, <4>2, <4>3
    <3>2. CASE ~Copies(w)
      <4>1. w[2] = job.id BY <1>10, <2>1, <3>2, ErasedGood DEF Copies
      <4>2. ASSUME NEW id \in Ids \ {job.id}, NEW x \in Find(old, id), x < next PROVE FALSE
        <5>1. x \in Records(old) /\ old[x][2] = id BY DEF Find
        <5>2. x <= a /\ x \in Nat /\ a \in Nat BY <1>9, <4>2, <5>1
        <5>3. x # a BY <1>a, <4>1, <5>1
        <5>4. x < a BY <5>2, <5>3
        <5>5. id \in Others(old, job.id, a) BY <5>4 DEF Others
        <5> QED BY <2>1, <5>5
      <4>3. Others(old, job.id, next) = {} BY <4>2 DEF Others
      <4> QED BY <1>3, <2>1, <3>2, <4>3
    <3> QED BY <3>1, <3>2
  <2>2. CASE \E id \in Ids \ {job.id} : TakenAlong(old, id, rec[New])
    <3>1. PICK id \in Ids \ {job.id} : TakenAlong(old, id, rec[New]) BY <2>2
    <3>2. Find(rec[New], id) # {} BY <1>1, <1>8, <1>o, <3>1, TakenReads
    <3>3. ~Copies(w)
      <4>1. SUFFICES ASSUME w[2] # job.id PROVE w[2] = id BY <3>2 DEF Copies
      <4> QED BY <1>1, <1>10, <4>1, <3>1 DEF FixedPair
    <3> QED BY <1>3, <3>1, <3>3
  <2> QED BY <1>5, <2>1, <2>2 DEF Taken
<1>11. Taken(old, job.id, rec'[New], next) BY <1>12 DEF Taken
<1>13. CASE next >= BankWords - 2
  <2>1. ASSUME NEW id, NEW x \in Find(old, id) PROVE x < next
    <3>1. x \in Records(old) BY DEF Find
    <3>2. x + 1 + old[x][3] <= BankWords - 1 /\ old[x][3] \in 1 .. MaxSize
      BY <1>8, <1>o, <3>1, GoodRecords DEF Good
    <3> QED BY <1>9, <1>13, <3>1, <3>2
  <2>2. Others(old, job.id, BankWords) \subseteq Others(old, job.id, next)
    BY <2>1 DEF Others
  <2>3. Taken(old, job.id, rec'[New], BankWords) BY <1>12, <2>2 DEF Taken
  <2>4. job'.step = "commit" BY <1>7, <1>13
  <2> QED BY <1>1, <1>6, <1>7, <1>8, <2>3, <2>4 DEF StoreInv, Clearing
<1>14. CASE ~(next >= BankWords - 2)
  <2>1. job'.step = "copy" BY <1>7, <1>14
  <2> QED BY <1>1, <1>6, <1>7, <1>8, <1>9, <1>11, <2>1 DEF StoreInv, Clearing
<1> QED BY <1>13, <1>14

LEMMA CopyDoneIs ==
  ASSUME FixedPair, EepInv, NumberInv, StoreInv, EepInv', NumberInv', CopyDone
  PROVE  StoreInv' /\ StoreStep
<1> USE EepAssumption
<1>1. /\ job.val \in Values[job.id] /\ job.bank \in Banks
      /\ rec \in [Banks -> BankTypes] /\ job \in Jobs
  BY StateFacts, EepTyped DEF StoreInv, EepInv
<1>2. /\ job.step = "copy" /\ rec' = rec /\ job' = [job EXCEPT !.step = "commit"]
      /\ rec[job.bank][job.at] = FF
  BY DEF CopyDone
<1>3. /\ job'.step = "commit" /\ job'.id = job.id /\ job'.val = job.val /\ job'.bank = job.bank
  BY <1>1, <1>2 DEF Jobs
<1>4. StoreStep /\ ~Clearing' /\ Good(rec'[Current']) /\ New' = New
  BY <1>2, <1>3, PackGoes
<1> DEFINE old == rec[job.bank]
<1>5. job.at \in Chain(old) /\ Taken(old, job.id, rec[New], job.at) BY <1>2 DEF StoreInv
<1>6. job.at = EndOf(old) /\ \A x \in Records(old) : x < EndOf(old)
  <2>1. Stops(old, job.at) BY <1>2 DEF Stops
  <2> QED BY <1>1, <1>5, <2>1, ChainFacts
<1>7. Taken(old, job.id, rec[New], BankWords)
  <2>1. \A id : \A x \in Find(old, id) : x < job.at BY <1>6 DEF Find
  <2>2. Others(old, job.id, BankWords) \subseteq Others(old, job.id, job.at)
    BY <2>1 DEF Others
  <2> QED BY <1>5, <2>2 DEF Taken
<1>8. StoreInv' BY <1>1, <1>2, <1>3, <1>4, <1>7 DEF StoreInv, Clearing
<1> QED BY <1>4, <1>8

\* The new bank becomes the current one with everything but the object that is
\* saved, which has room behind it.
LEMMA CommitIs ==
  ASSUME FixedPair, EepInv, NumberInv, StoreInv, EepInv', NumberInv', Commit
  PROVE  StoreInv' /\ StoreStep
<1> USE EepAssumption
<1>1. /\ job.val \in Values[job.id] /\ job.bank \in Banks /\ New \in Banks /\ New # job.bank
      /\ rec \in [Banks -> BankTypes] /\ num \in [Banks -> Numbers] /\ job \in Jobs
      /\ job.id \in Ids /\ job.val \in AllValues /\ Size[job.val] \in 1 .. MaxSize
      /\ \A id : Stored(id) = Value(rec[Current], id)
  BY StateFacts, EepTyped DEF StoreInv, EepInv
<1>2. /\ job.step = "commit" /\ num' = [num EXCEPT ![New] = (num[job.bank] - 1) % (Top + 1)]
      /\ job' = [job EXCEPT !.step = "drop"] /\ rec' = rec
  BY DEF Commit
<1>3. /\ job'.step = "drop" /\ job'.id = job.id /\ job'.val = job.val /\ job'.bank = job.bank
      /\ New' = New
  BY <1>1, <1>2 DEF Jobs, New
<1> DEFINE o == job.bank old == rec[o] r == rec[New]
<1>4. Current = o /\ num[o] < Top /\ num[o] > 0
  BY <1>2 DEF NumberInv, EepInv, JobInv, Packing
<1>5. Current' = New
  <2>1. \A b \in Banks : num[b] \in Nat BY <1>1 DEF Numbers, Blank
  <2>2. num[o] - 1 \in 0 .. Top BY <1>1, <1>4, <2>1
  <2>3. (num[o] - 1) % (Top + 1) = num[o] - 1 BY <2>2
  <2>4. num' \in [Banks -> Numbers]
    <3>1. num[o] - 1 \in Numbers BY <2>2 DEF Numbers, Blank
    <3> QED BY <1>1, <1>2, <2>3, <3>1
  <2>5. Before(num, o) BY <1>1, <1>4, CurrentLeast DEF Current
  <2>6. ASSUME NEW c \in Banks PROVE num'[New] < num'[c] \/ (num'[New] = num'[c] /\ New <= c)
    <3>1. CASE c = New
      <4>1. New \in Nat BY <1>1 DEF Banks
      <4> QED BY <3>1, <4>1
    <3>2. CASE c # New
      <4>1. num'[c] = num[c] /\ num'[New] = num[o] - 1 BY <1>1, <1>2, <2>3, <3>2
      <4>2. num[o] < num[c] \/ num[o] = num[c] BY <2>5 DEF Before
      <4> QED BY <1>1, <2>1, <4>1, <4>2
    <3> QED BY <3>1, <3>2
  <2>7. Before(num', New) BY <2>6 DEF Before
  <2> QED BY <1>1, <2>4, <2>7, CurrentIs DEF Current
<1>6. Good(old) /\ Taken(old, job.id, r, BankWords) BY <1>2, <1>4 DEF StoreInv, Clearing
<1>o. old \in BankTypes /\ r \in BankTypes BY <1>1
<1>c. ~Clearing /\ ~Clearing' BY <1>2, <1>3 DEF Clearing
<1>s. \A i : Stored(i)' = Value(r, i) /\ Stored(i) = Value(old, i)
  BY <1>1, <1>2, <1>4, <1>5 DEF Stored, Value
<1> HIDE DEF old, r
<1>7. /\ Good(r) /\ Value(r, job.id) = Missing
      /\ \A i \in Ids \ {job.id} : Value(r, i) = Value(old, i)
      /\ SaveAddr(r, Size[job.val]) # 0
  <2>1. CASE r = ErasedBank /\ Others(old, job.id, BankWords) = {}
    <3>1. ASSUME NEW i \in Ids \ {job.id} PROVE Value(old, i) = Missing
      <4>1. \A x \in Find(old, i) : x < BankWords BY <1>o, ChainFacts DEF Find
      <4>2. i \notin Others(old, job.id, BankWords) BY <2>1
      <4>3. Find(old, i) = {} BY <4>1, <4>2 DEF Others
      <4> QED BY <4>3 DEF Value
    <3>2. EndOf(r) = 1 /\ Good(r) /\ \A i : Value(r, i) = Missing BY <2>1, ErasedGood
    <3>3. SaveAddr(r, Size[job.val]) = 1 BY <1>1, <3>2 DEF SaveAddr
    <3> QED BY <3>1, <3>2, <3>3
  <2>2. CASE \E id \in Ids \ {job.id} : TakenAlong(old, id, r)
    <3>1. PICK id \in Ids \ {job.id} : TakenAlong(old, id, r) BY <2>2
    <3>2. /\ Good(r) /\ Value(r, id) = Value(old, id)
          /\ \A i : i # id => Value(r, i) = Missing
          /\ \E v \in Values[id] : EndOf(r) = 2 + Size[v]
      BY <1>6, <1>o, <3>1, TakenReads
    <3>3. \A i \in Ids \ {job.id} : i = id BY <1>1, <3>1 DEF FixedPair
    <3>4. SaveAddr(r, Size[job.val]) # 0
      <4>1. PICK v \in Values[id] : EndOf(r) = 2 + Size[v] BY <3>2
      <4>2. Size[v] + Size[job.val] + 3 < BankWords BY <1>1, <3>1 DEF FixedPair
      <4>3. Size[v] \in Nat BY <3>1
      <4>4. EndOf(r) < BankWords - (Size[job.val] + 1) /\ EndOf(r) # 0
        BY <1>1, <4>1, <4>2, <4>3
      <4> QED BY <4>4 DEF SaveAddr
    <3> QED BY <3>1, <3>2, <3>3, <3>4
  <2> QED BY <1>6, <2>1, <2>2 DEF Taken
<1>8. View' = [View EXCEPT ![job.id] = Missing]
  <2>1. PICK own \in Ids : own = job.id BY <1>1
  <2>2. Stored(own)' = Missing /\ \A i \in Ids \ {own} : Stored(i)' = Stored(i)
    BY <1>7, <1>s, <2>1
  <2>3. View' = [View EXCEPT ![own] = Missing] BY <1>c, <2>2, OneChanges
  <2> QED BY <2>1, <2>3
<1>9. Saving' = Saving /\ Saving = <<job.id, DataOf(job.val)>>
  BY <1>2, <1>3, SavingKept DEF Calls
<1>10. Goes BY <1>1, <1>8, <1>9 DEF Goes
<1>11. StoreInv'
  <2>1. rec'[New'] = r /\ rec'[Current'] = r BY <1>2, <1>3, <1>5 DEF r
  <2> QED BY <1>1, <1>3, <1>5, <1>7, <1>c, <2>1 DEF StoreInv
<1> QED BY <1>10, <1>11 DEF StoreStep

LEMMA EraseOldIs ==
  ASSUME FixedPair, EepInv, NumberInv, StoreInv, EepInv', NumberInv', EraseOld
  PROVE  StoreInv' /\ StoreStep
<1> USE EepAssumption
<1>1. /\ job.val \in Values[job.id] /\ job.bank \in Banks /\ New \in Banks /\ New # job.bank
      /\ rec \in [Banks -> BankTypes] /\ num \in [Banks -> Numbers] /\ job \in Jobs
      /\ Size[job.val] \in 1 .. MaxSize
  BY StateFacts, EepTyped DEF StoreInv, EepInv
<1> DEFINE o == job.bank r == rec[New] at == SaveAddr(r, Size[job.val])
<1>2. /\ job.step = "drop" /\ num' = [num EXCEPT ![o] = Blank] /\ rec' = [rec EXCEPT ![o] = ErasedBank]
      /\ job' = IF at = 0 THEN NoJob ELSE [job EXCEPT !.step = "header", !.bank = New, !.at = at]
  BY DEF EraseOld
<1>3. Current = New /\ at # 0 /\ Good(r) BY <1>2 DEF StoreInv, Clearing
<1> HIDE DEF at
<1>4. job'.step = "header" /\ job'.id = job.id /\ job'.val = job.val /\ job'.bank = New /\ job'.at = at
  BY <1>1, <1>2, <1>3 DEF Jobs
<1>5. Current' = New
  <2>1. num' \in [Banks -> Numbers] BY DEF EepInv, TypeOK, Numbers
  <2>2. num[New] < Top BY <1>2 DEF NumberInv
  <2>3. num'[o] = Blank /\ \A c \in Banks : c # o => num'[c] = num[c] BY <1>1, <1>2
  <2>4. num[New] < num'[o]
    <3>1. num[New] \in Nat BY <1>1 DEF Numbers, Blank
    <3> QED BY <2>2, <2>3, <3>1 DEF Blank
  <2>5. CurrentOf(num) = New BY <1>3 DEF Current
  <2> HIDE DEF o
  <2>6. o \in Banks /\ o # New BY <1>1 DEF o
  <2> QED BY <1>1, <2>1, <2>3, <2>4, <2>5, <2>6, StaysCurrent DEF Current
<1>6. rec'[New] = r BY <1>1, <1>2
<1>7. ~Clearing /\ ~Clearing' BY <1>2, <1>4 DEF Clearing
<1>8. \A id : Stored(id)' = Stored(id) BY <1>3, <1>5, <1>6 DEF Stored
<1>9. View' = View BY <1>7, <1>8, SameView
<1>10. Saving' = Saving BY <1>2, <1>4, SavingKept DEF Calls
<1>11. at = EndOf(r) /\ at + 1 + Size[job.val] <= BankWords - 1
  BY <1>1, <1>3, SaveRoom DEF at
<1>12. StoreInv' BY <1>1, <1>3, <1>4, <1>5, <1>6, <1>7, <1>11 DEF StoreInv
<1> QED BY <1>9, <1>10, <1>12 DEF StoreStep, Stays

\* The header of the new record: the object reads erased.
LEMMA WriteHeaderIs ==
  ASSUME FixedPair, EepInv, NumberInv, StoreInv, EepInv', NumberInv', WriteHeader
  PROVE  StoreInv' /\ StoreStep
<1> USE EepAssumption
<1>1. /\ job.val \in Values[job.id] /\ job.bank \in Banks
      /\ rec \in [Banks -> BankTypes] /\ job \in Jobs
      /\ job.id \in Ids /\ job.val \in AllValues /\ Size[job.val] \in 1 .. MaxSize
      /\ Header \in Heads /\ Header[2] = job.id /\ Header[3] = Size[job.val]
      /\ \A id : Stored(id) = Value(rec[Current], id)
  BY StateFacts, EepTyped DEF StoreInv, EepInv
<1>2. PICK o \in Banks, own \in Ids, v \in AllValues : o = job.bank /\ own = job.id /\ v = job.val
  BY <1>1
<1>s. PICK s \in 1 .. MaxSize : s = Size[v] BY <1>1, <1>2
<1> DEFINE r == rec[o] r2 == Write(r, job.at, <<Header>>)
<1>3. job.step = "header" /\ rec' = [rec EXCEPT ![o] = r2] /\ num' = num
      /\ job' = [job EXCEPT !.step = "data"]
  BY <1>1, <1>2 DEF WriteHeader
<1>4. /\ job'.step = "data" /\ job'.id = job.id /\ job'.val = job.val /\ job'.bank = job.bank
      /\ job'.at = job.at
  BY <1>1, <1>3 DEF Jobs
<1>5. /\ Current = o /\ Good(r) /\ job.at = EndOf(r) /\ job.at + 1 + s <= BankWords - 1
  BY <1>2, <1>3, <1>s DEF StoreInv, Clearing
<1>6. Current' = o BY <1>3, <1>5 DEF Current
<1>7. rec'[o] = r2 BY <1>1, <1>3
<1>8. r2 \in BankTypes
  <2>1. rec' \in [Banks -> BankTypes] BY DEF EepInv, TypeOK, BankTypes
  <2> QED BY <1>7, <2>1
<1>9. r \in BankTypes BY <1>1
<1>h. Header' = Header BY <1>4 DEF Header
<1>10. /\ Appended(r, Header, r2) /\ \A i \in 1 .. s : r2[job.at + i] = FF
  BY <1>1, <1>2, <1>5, <1>9, <1>s, HeaderWritten
<1> HIDE DEF r2
<1>11. PICK w \in Heads : w = Header /\ w[2] = own /\ w[3] = s BY <1>1, <1>2, <1>s
<1>12. Appended(r, w, r2) BY <1>10, <1>11
<1> HIDE DEF r
<1>13. /\ Good(r2) /\ EndOf(r2) = EndOf(r) + 1 + s
       /\ Chain(r2) = Chain(r) \cup {EndOf(r2)}
       /\ Records(r2) = Records(r) \cup {EndOf(r)}
       /\ \A id : id # own => Value(r2, id) = Value(r, id)
       /\ Value(r2, own) = [i \in 1 .. s |-> r2[EndOf(r) + i]]
  <2>1. /\ Good(r2) /\ EndOf(r2) = EndOf(r) + 1 + w[3]
        /\ Chain(r2) = Chain(r) \cup {EndOf(r2)}
        /\ Records(r2) = Records(r) \cup {EndOf(r)}
        /\ \A id : id # w[2] => Find(r2, id) = Find(r, id) /\ Value(r2, id) = Value(r, id)
        /\ Value(r2, w[2]) = [i \in 1 .. w[3] |-> r2[EndOf(r) + i]]
    BY <1>5, <1>8, <1>9, <1>12, RecordAppended
  <2> QED BY <1>11, <2>1
<1>14. Value(r2, own) \in Torn(v)
  <2>1. Value(r2, own) = [i \in 1 .. s |-> FF] BY <1>5, <1>10, <1>13
  <2>2. [i \in 1 .. s |-> FF] = [i \in 1 .. s |-> IF i <= 0 THEN <<"dat", v, i>> ELSE FF] OBVIOUS
  <2>3. 0 \in 0 .. s OBVIOUS
  <2> QED BY <1>s, <2>1, <2>2, <2>3 DEF Torn
<1>15. /\ ~Clearing /\ ~Clearing' /\ Saving' = Saving /\ Saving = <<own, DataOf(v)>>
  BY <1>2, <1>3, <1>4, SavingKept DEF Calls
<1>16. \A id : Stored(id)' = Value(r2, id) /\ Stored(id) = Value(r, id)
  BY <1>1, <1>5, <1>6, <1>7 DEF Stored, Value, r
<1>17. PICK d \in Torn(v) : d = Value(r2, own) BY <1>14
<1>18. View' = [View EXCEPT ![own] = d] BY <1>13, <1>15, <1>16, <1>17, OneChanges
<1>19. Goes BY <1>15, <1>17, <1>18 DEF Goes
<1>20. /\ job.at \in Records(r2) /\ r2[job.at] = Header
       /\ \A x \in Chain(r2) : x <= job.at \/ x = job.at + 1 + s
  <2>1. \A x \in Chain(r) : x <= EndOf(r) BY <1>9, ChainFacts
  <2> QED BY <1>5, <1>10, <1>13, <2>1 DEF Appended
<1>21. StoreInv'
  <2>1. rec'[job'.bank] = r2 /\ rec'[Current'] = r2 /\ job'.bank = o /\ Size[job'.val] = s
    BY <1>2, <1>4, <1>6, <1>7, <1>s
  <2> QED BY <1>1, <1>4, <1>6, <1>10, <1>13, <1>15, <1>20, <1>h, <2>1 DEF StoreInv
<1> QED BY <1>19, <1>21 DEF StoreStep

\* Its data, all of it or as much as the power lasted for.
LEMMA DataIs ==
  ASSUME FixedPair, EepInv, NumberInv, StoreInv, EepInv', NumberInv', job.step = "data",
         NEW n \in 0 .. Size[job.val], rec' = [rec EXCEPT ![job.bank] = WriteWords(n)],
         num' = num, job'.step \in {"boot", "idle"}, job'.val \in Values[job'.id]
  PROVE  StoreInv' /\ StoreStep
<1> USE EepAssumption
<1>1. /\ job.val \in Values[job.id] /\ job.bank \in Banks
      /\ rec \in [Banks -> BankTypes] /\ TypeOK
      /\ job.id \in Ids /\ job.val \in AllValues /\ Size[job.val] \in 1 .. MaxSize
      /\ Header \in Heads /\ Header[2] = job.id /\ Header[3] = Size[job.val]
      /\ \A id : Stored(id) = Value(rec[Current], id)
  BY StateFacts DEF StoreInv, EepInv
<1>2. PICK o \in Banks, own \in Ids, v \in AllValues : o = job.bank /\ own = job.id /\ v = job.val
  BY <1>1
<1>s. PICK s \in 1 .. MaxSize : s = Size[v] BY <1>1, <1>2
<1> DEFINE r == rec[o] r2 == WriteWords(n) a == job.at
<1>3. /\ Current = o /\ Good(r) /\ a \in Records(r) /\ r[a] = Header
      /\ \A x \in Chain(r) : x <= a \/ x = a + 1 + s
      /\ \A i \in 1 .. s : r[a + i] = FF
  BY <1>2, <1>s DEF StoreInv, Clearing
<1>4. Current' = o BY <1>3 DEF Current
<1>5. rec'[o] = r2 BY <1>1, <1>2
<1>6. r2 \in BankTypes
  <2>1. rec' \in [Banks -> BankTypes] BY DEF EepInv, TypeOK, BankTypes
  <2> QED BY <1>5, <2>1
<1>7. r \in BankTypes BY <1>1
<1>8. a \in Addrs /\ a + 1 + s <= BankWords - 1
  <2>1. a \in Addrs BY <1>3, <1>7, ChainFacts
  <2>2. a + 1 + r[a][3] <= BankWords - 1 BY <1>3 DEF Good
  <2> QED BY <1>1, <1>2, <1>3, <1>s, <2>1, <2>2
<1>9. /\ \A x \in Addrs : x <= a \/ x > a + s => r2[x] = r[x]
      /\ \A i \in 1 .. s : r2[a + i] = IF i <= n THEN <<"dat", v, i>> ELSE FF
  BY <1>1, <1>2, <1>3, <1>8, <1>s, DataWords
<1>16. \A id : Stored(id)' = Value(r2, id) /\ Stored(id) = Value(r, id)
  BY <1>1, <1>3, <1>4, <1>5 DEF Stored, Value
<1> HIDE DEF r, r2, a
<1>h. r[a][2] = own /\ r[a][3] = s BY <1>1, <1>2, <1>3, <1>s
<1>10. /\ Good(r2)
       /\ \A id : id # own => Value(r2, id) = Value(r, id)
       /\ Value(r2, own) = [i \in 1 .. s |-> r2[a + i]]
  <2>1. /\ \A x \in Chain(r) : x <= a \/ x = a + 1 + r[a][3]
        /\ \A x \in Addrs : x <= a \/ x > a + r[a][3] => r2[x] = r[x]
    BY <1>3, <1>9, <1>h
  <2>2. /\ Good(r2)
        /\ \A id : id # r[a][2] => Value(r2, id) = Value(r, id)
        /\ Value(r2, r[a][2]) = [i \in 1 .. r[a][3] |-> r2[a + i]]
    BY <1>3, <1>6, <1>7, <2>1, DataWritten
  <2> QED BY <1>h, <2>2
<1>11. Value(r2, own) \in Torn(v)
  <2>1. Value(r2, own) = [i \in 1 .. s |-> IF i <= n THEN <<"dat", v, i>> ELSE FF]
    BY <1>9, <1>10
  <2>2. n \in 0 .. s BY <1>2, <1>s
  <2> QED BY <1>s, <2>1, <2>2 DEF Torn
<1>12. ~Clearing /\ ~Clearing' BY DEF Clearing
<1>13. Saving = <<own, DataOf(v)>> /\ Saving' = <<>>
  <2>1. Saving = <<job.id, DataOf(job.val)>> BY <1>12 DEF Saving
  <2>2. Saving' = <<>> BY DEF Saving
  <2> QED BY <1>2, <2>1, <2>2
<1>17. PICK d \in Torn(v) : d = Value(r2, own) BY <1>11
<1>18. View' = [View EXCEPT ![own] = d] BY <1>10, <1>12, <1>16, <1>17, OneChanges
<1>19. Goes BY <1>13, <1>17, <1>18 DEF Goes
<1>20. Good(rec'[Current']) BY <1>4, <1>5, <1>10
<1>21. StoreInv' BY <1>12, <1>20 DEF StoreInv, Clearing
<1> QED BY <1>19, <1>21 DEF StoreStep

\* The power fails, or the store starts again, and what is read stays as it is.
LEMMA StartIs ==
  ASSUME FixedPair, EepInv, StoreInv, ~Clearing, job' = BootJob, num' = num,
         rec'[Current] = rec[Current]
  PROVE  StoreInv' /\ StoreStep
<1> USE EepAssumption
<1>1. job'.step = "boot" /\ job'.id = VER /\ job'.val \in Values[VER] BY DEF BootJob, NoJob
<1>2. ~Clearing' /\ Saving' = <<>> BY <1>1 DEF Clearing, Saving
<1>3. Current' = Current BY DEF Current
<1>4. \A id : Stored(id)' = Stored(id) BY <1>3 DEF Stored
<1>5. View' = View BY <1>2, <1>4, SameView
<1>6. Good(rec'[Current']) BY <1>3 DEF StoreInv
<1>7. StoreInv' BY <1>1, <1>2, <1>6 DEF StoreInv, Clearing
<1>8. CASE Saving = <<>> BY <1>2, <1>5, <1>7, <1>8 DEF StoreStep, Stays
<1>9. CASE Saving # <<>>
  <2>1. PICK id \in Ids, v \in AllValues : id = job.id /\ v = job.val
    BY StateFacts DEF StoreInv
  <2>2. Saving = <<id, DataOf(v)>> BY <1>9, <2>1 DEF Saving
  <2>3. View' = [View EXCEPT ![id] = View[id]]
    <3>1. View \in [Ids -> {View[i] : i \in Ids}] BY DEF View
    <3> HIDE DEF View
    <3> QED BY <1>5, <3>1
  <2>4. Goes BY <1>2, <2>2, <2>3 DEF Goes
  <2> QED BY <1>7, <2>4 DEF StoreStep
<1> QED BY <1>8, <1>9

LEMMA PowerLossIs ==
  ASSUME ~CrashInFormat, FixedPair, EepInv, NumberInv, StoreInv, EepInv', NumberInv', PowerLoss
  PROVE  StoreInv' /\ StoreStep
<1> USE EepAssumption
<1>1. ~Clearing /\ job' = BootJob /\ num' = num BY DEF PowerLoss
<1>2. /\ job.bank \in Banks /\ New \in Banks /\ New # job.bank /\ Current \in Banks
      /\ rec \in [Banks -> BankTypes] /\ Size[job.val] \in 1 .. MaxSize
  BY StateFacts DEF StoreInv
<1>3. CASE rec' = rec BY <1>1, <1>3, StartIs
<1>4. CASE /\ job.step = "data"
           /\ \E n \in 1 .. Size[job.val] - 1 : rec' = [rec EXCEPT ![job.bank] = WriteWords(n)]
  <2>1. PICK n \in 1 .. Size[job.val] - 1 : rec' = [rec EXCEPT ![job.bank] = WriteWords(n)]
    BY <1>4
  <2>2. n \in 0 .. Size[job.val] BY <1>2
  <2>3. job'.step = "boot" /\ job'.val \in Values[job'.id] BY <1>1 DEF BootJob, NoJob
  <2> QED BY <1>1, <1>4, <2>1, <2>2, <2>3, DataIs
<1>5. CASE job.step = "copy" /\ \E n : rec' = [rec EXCEPT ![New] = CopyWords(n)]
  <2>1. Current = job.bank BY <1>5 DEF NumberInv
  <2>2. rec'[Current] = rec[Current] BY <1>2, <1>5, <2>1
  <2> QED BY <1>1, <2>2, StartIs
<1>6. \/ rec' = rec
      \/ /\ job.step = "data"
         /\ \E n \in 1 .. Size[job.val] - 1 : rec' = [rec EXCEPT ![job.bank] = WriteWords(n)]
      \/ job.step = "copy" /\ \E n : rec' = [rec EXCEPT ![New] = CopyWords(n)]
  BY DEF PowerLoss
<1> QED BY <1>3, <1>4, <1>5, <1>6

LEMMA WriteDataIs ==
  ASSUME FixedPair, EepInv, NumberInv, StoreInv, EepInv', NumberInv', WriteData
  PROVE  StoreInv' /\ StoreStep
<1> USE EepAssumption
<1>1. /\ job.step = "data" /\ rec' = [rec EXCEPT ![job.bank] = WriteWords(Size[job.val])]
      /\ job' = NoJob /\ num' = num
  BY DEF WriteData
<1>2. Size[job.val] \in 1 .. MaxSize BY StateFacts DEF StoreInv
<1>3. PICK n \in 0 .. Size[job.val] : n = Size[job.val] BY <1>2
<1>4. job'.step = "idle" /\ job'.val \in Values[job'.id] BY <1>1 DEF NoJob
<1>5. rec' = [rec EXCEPT ![job.bank] = WriteWords(n)] BY <1>1, <1>3
<1> QED BY <1>1, <1>4, <1>5, DataIs

LEMMA NextStore ==
  ASSUME ~CrashInFormat, FixedPair, EepInv, NumberInv, StoreInv, [NextStep]_vars
  PROVE  StoreInv' /\ StoreStep
<1>1. EepInv' BY NextEepType
<1>2. NumberInv' BY NextNumber
<1>3. CASE \E v \in Values[VER] : CheckVersion(v) BY <1>1, <1>2, <1>3, CheckVersionIs
<1>4. CASE \E id \in Ids \ {VER} : \E v \in Values[id] : Save(id, v)
  BY <1>1, <1>2, <1>4, SaveCallIs
<1>5. CASE WipeBank \/ NumberBank BY <1>1, <1>2, <1>5, ClearingIs
<1>6. CASE EraseNew \/ Occupy BY <1>1, <1>2, <1>6, PackStarts
<1>7. CASE CopyRecord BY <1>1, <1>2, <1>7, CopyRecordIs
<1>8. CASE CopyDone BY <1>1, <1>2, <1>8, CopyDoneIs
<1>9. CASE Commit BY <1>1, <1>2, <1>9, CommitIs
<1>10. CASE EraseOld BY <1>1, <1>2, <1>10, EraseOldIs
<1>11. CASE WriteHeader BY <1>1, <1>2, <1>11, WriteHeaderIs
<1>12. CASE WriteData BY <1>1, <1>2, <1>12, WriteDataIs
<1>13. CASE Reboot
  <2>1. ~Clearing /\ job' = BootJob /\ num' = num /\ rec' = rec
    BY <1>13 DEF Reboot, Clearing, NoJob
  <2> QED BY <2>1, StartIs
<1>14. CASE PowerLoss BY <1>1, <1>2, <1>14, PowerLossIs
<1>15. CASE UNCHANGED vars
  <2>1. num' = num /\ rec' = rec /\ job' = job BY <1>15 DEF vars
  <2>2. Current' = Current /\ New' = New /\ Header' = Header /\ Clearing' = Clearing
    BY <2>1 DEF Current, New, Header, Clearing
  <2>3. StoreInv' BY <2>1, <2>2 DEF StoreInv
  <2>4. \A id : Stored(id)' = Stored(id) BY <2>1, <2>2 DEF Stored
  <2>5. View' = View BY <2>2, <2>4 DEF View
  <2>6. Saving' = Saving BY <2>1, <2>2 DEF Saving, DataOf
  <2> QED BY <2>3, <2>5, <2>6 DEF StoreStep, Stays
<1> QED
  BY <1>3, <1>4, <1>5, <1>6, <1>7, <1>8, <1>9, <1>10, <1>11, <1>12, <1>13, <1>14, <1>15
     DEF NextStep, Step

LEMMA InitStore == ASSUME Init PROVE StoreInv /\ Store!Init
<1> USE EepAssumption
<1>1. EepInv BY InitEep
<1>2. job = BootJob /\ \A b \in Banks : num[b] = Blank /\ rec[b] = ErasedBank BY DEF Init
<1>3. job.step = "boot" /\ job.val \in Values[job.id] BY <1>2 DEF BootJob, NoJob
<1>4. Current \in Banks BY <1>1, ClaimedFacts DEF EepInv
<1>5. Good(rec[Current]) BY <1>2, <1>4, ErasedGood
<1>6. StoreInv BY <1>3, <1>5 DEF StoreInv, Clearing
<1>7. \A id : Stored(id) = Missing BY <1>1, <1>2, BlankReadsMissing
<1>8. View = [id \in Ids |-> Missing] BY <1>3, <1>7 DEF View, Clearing
<1>9. Saving = <<>> BY <1>3 DEF Saving
<1>10. Store!Init BY <1>8, <1>9 DEF Store!Init, Store!Idle, View, Saving
<1> QED BY <1>6, <1>10

\* What flash_eep.c promises its callers holds wherever the power fails but
\* while the store is cleared: a save stores its object, a save cut short may
\* leave it old, new, torn or missing, and every other object stays as it is.
\* It is so for two objects of fixed sizes that go into a bank together.
THEOREM StoreIsImplemented ==
  ASSUME ~CrashInFormat, FixedPair
  PROVE  Spec => ImplementsStore
<1> DEFINE Inv == EepInv /\ NumberInv /\ StoreInv
<1>1. Init => Inv /\ Store!Init BY InitEep, InitStore
<1>2. Inv /\ [NextStep]_vars => Inv' /\ (StoreNext \/ UNCHANGED <<View, Saving>>)
  BY NextEepType, NextNumber, NextStore, StepIsStores
<1>3. StoreNext \/ UNCHANGED <<View, Saving>> => [Store!Next]_<<View, Saving>> BY DEF StoreNext
<1> HIDE DEF Inv
<1> QED BY <1>1, <1>2, <1>3, PTL DEF Spec, ImplementsStore, Store!Spec, View, Saving
=============================================================================
