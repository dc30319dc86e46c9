------------------------------ MODULE FlashEep ------------------------------
(***************************************************************************)
(* The settings store of src/hdp16/source/flash_eep.c: objects appended to *)
(* the current one of a ring of flash banks, the latest record of an id    *)
(* being its value, and moved to the next bank when the current is full.   *)
(*                                                                         *)
(* A bank is a number (its first word) and the words 1 .. BankWords-1; a   *)
(* record is a header word, <<"hdr", id, size>>, and `size' data words,    *)
(* <<"dat", v, i>> being word i of value v.  NOR flash: programming leaves *)
(* the AND of the old and the new word.  An id is the set of its one bits, *)
(* so that the AND of two headers is a header; sizes are powers of two.    *)
(*                                                                         *)
(* The code runs in one task with nothing in between, but power may fail   *)
(* between any two flash primitives: `job' is the primitive that comes     *)
(* next.  A word is written at once, a run of words may be cut after any.  *)
(***************************************************************************)
EXTENDS Integers

CONSTANTS
  Ids,            \* object ids, sets of bits
  VER,            \* EEP_ID_VER
  Values,         \* Values[id]: what callers store there
  Size,           \* Size[v]: words of a value
  FF,             \* an erased word
  Garbage,        \* the AND of words that are not both headers
  Missing,        \* what a caller finds where there is no object
  NumBanks,       \* FMEMORY_SCFG_BANKS
  BankWords,      \* FMEMORY_SCFG_BANK_SIZE, in words
  MaxSize,        \* MAX_FOBJ_SIZE, in words
  Top,            \* 0x7fffffff: bank numbers go down from here
  CrashInFormat,  \* whether power may fail while the store is being cleared
  MaxCrashes      \* bound on power failures

ASSUME EepAssumption ==
  /\ NumBanks \in Nat \ {0, 1} /\ BankWords \in Nat /\ Top \in Nat \ {0}
  /\ VER \in Ids /\ Values[VER] # {}
  /\ \A id \in Ids : \A v \in Values[id] : Size[v] \in 0 .. MaxSize
  /\ MaxSize \in Nat /\ MaxSize + 3 <= BankWords
  /\ CrashInFormat \in BOOLEAN /\ MaxCrashes \in Nat

Banks == 0 .. NumBanks - 1
Addrs == 1 .. BankWords - 1
Blank == 2 * Top + 1               \* 0xffffffff
AllValues == UNION {Values[id] : id \in Ids}

VARIABLES
  num,     \* [Banks -> 0 .. Blank], the first words
  rec,     \* [Banks -> [Addrs -> words]]
  job,     \* the primitive that comes next, and what the call works on
  crashes  \* power failures left

vars == <<num, rec, job, crashes>>
-----------------------------------------------------------------------------
(* Words and the scan of a bank.                                           *)

IsHdr(w) == w # FF /\ w # Garbage /\ w[1] = "hdr"
\* A word that is no header skips the largest record.
SizeOf(w) == IF IsHdr(w) THEN w[3] ELSE MaxSize
Words == {FF, Garbage} \cup {<<"dat", v, i>> : v \in AllValues, i \in 1 .. MaxSize}
           \cup ({"hdr"} \X (SUBSET UNION Ids) \X (0 .. MaxSize))

Burn(old, new) ==
  IF old = FF \/ old = new THEN new
  ELSE IF new = FF THEN old
  ELSE IF IsHdr(old) /\ IsHdr(new)
  THEN <<"hdr", old[2] \cap new[2], IF old[3] = new[3] THEN old[3] ELSE 0>>
  ELSE Garbage

\* Writing the words ws from address a.
Write(r, a, ws) ==
  [x \in Addrs |-> IF x - a + 1 \in DOMAIN ws THEN Burn(r[x], ws[x - a + 1]) ELSE r[x]]

ErasedBank == [a \in Addrs |-> FF]
Next(b)    == (b + 1) % NumBanks

\* get_addr_bscfg(): the first of the banks with the smallest number.
CurrentOf(n) ==
  CHOOSE b \in Banks : \A c \in Banks : n[b] < n[c] \/ (n[b] = n[c] /\ b <= c)
Current == CurrentOf(num)

\* Its side effect: the first bank of a blank store is given the first number.
Claimed == IF \A b \in Banks : num[b] = Blank THEN [num EXCEPT ![0] = Top] ELSE num

\* Headers are found at `a', behind the record at `a', and so on, up to an
\* erased word or the end: the addresses of the records, and of what follows.
Chain(r) ==
  LET from[a \in 1 .. BankWords + MaxSize] ==
        {a} \cup (IF a >= BankWords - 1 \/ r[a] = FF THEN {} ELSE from[a + 1 + SizeOf(r[a])])
  IN  from[1]
EndOf(r)   == CHOOSE a \in Chain(r) : a >= BankWords - 1 \/ r[a] = FF
Records(r) == {a \in Chain(r) : a < BankWords - 1 /\ r[a] # FF}

\* get_addr_fobj(): the records of an object, the last being its value.
Find(r, id) == {a \in Records(r) : IsHdr(r[a]) /\ r[a][2] = id}
Last(r, id) ==
  LET found == Find(r, id) IN CHOOSE a \in found : \A x \in found : x <= a

\* get_addr_fobj_save(): where a record of n data words goes, 0 if it does not fit.
SaveAddr(r, n) == IF EndOf(r) < BankWords - (n + 1) THEN EndOf(r) ELSE 0

\* Words read past the end of a bank belong to the next.
WordAt(r, a) == IF a \in Addrs THEN r[a] ELSE Garbage

\* flash_read_cfg().
Stored(id) ==
  LET r  == rec[Current]
      at == Last(r, id)
  IN  IF Find(r, id) = {} THEN Missing
      ELSE [i \in 1 .. SizeOf(r[at]) |-> WordAt(r, at + i)]

DataOf(v) == [i \in 1 .. Size[v] |-> <<"dat", v, i>>]
-----------------------------------------------------------------------------
Steps == {"boot", "idle", "wipe", "number", "erase", "occupy", "copy", "commit",
          "drop", "header", "data"}
NoJob == [step |-> "idle", id |-> VER, val |-> CHOOSE v \in Values[VER] : TRUE,
          bank |-> 0, at |-> 0, old |-> 0]
BootJob == [NoJob EXCEPT !.step = "boot"]

TypeOK ==
  /\ num \in [Banks -> 0 .. Blank]
  /\ rec \in [Banks -> [Addrs -> Words]]
  /\ job \in [step : Steps, id : Ids, val : AllValues, bank : Banks,
              at : 0 .. BankWords + MaxSize, old : 0 .. Blank]
  /\ crashes \in 0 .. MaxCrashes

Init ==
  /\ num = [b \in Banks |-> Blank]
  /\ rec = [b \in Banks |-> ErasedBank]
  /\ job = BootJob
  /\ crashes = MaxCrashes

NeverErased(b) == FALSE  \* mutant

\* A bank that has a number is erased before it is used again.
NeedsErase(b) == num[b] # Blank

\* _flash_write_cfg() up to its first write: nothing to do when the value is
\* already there, else a place in the current bank, else the bank is packed
\* (the bound: numbers run out after 2^31 packs, here after Top, one being kept
\* for every start-up after a crash).
BeginSave(id, v, cur) ==
  LET at == SaveAddr(rec[cur], Size[v])
      Go(step) == job' = [NoJob EXCEPT !.step = step, !.id = id, !.val = v, !.bank = cur, !.at = at]
  IN  IF Stored(id) = DataOf(v) THEN job' = NoJob
      ELSE IF at # 0 THEN Go("header")
      ELSE num[cur] > crashes /\ Go(IF NeedsErase(Next(cur)) THEN "erase" ELSE "occupy")

\* flash_write_cfg() on behalf of the commands and of the start-up code.
Save(id, v) ==
  /\ job = NoJob
  /\ BeginSave(id, v, Current)
  /\ num' = Claimed
  /\ UNCHANGED <<rec, crashes>>

\* flash_supported_eep_ver() at start-up: a version object of the right size,
\* whatever it says, keeps the store and is brought up to the firmware's; otherwise all banks are cleared in turn.
CheckVersion(v) ==
  /\ job.step = "boot"
  /\ num' = Claimed
  /\ IF Stored(VER) # Missing /\ DOMAIN Stored(VER) = 1 .. 1
     THEN BeginSave(VER, v, Current)
     ELSE job' = [NoJob EXCEPT !.step = "wipe", !.val = v]
  /\ UNCHANGED <<rec, crashes>>

WipeBank ==
  /\ job.step = "wipe"
  /\ num' = [num EXCEPT ![job.bank] = Blank]
  /\ rec' = [rec EXCEPT ![job.bank] = ErasedBank]
  /\ job' = [job EXCEPT !.step = "number", !.old = num[job.bank]]
  /\ UNCHANGED crashes

\* Mutants: the number counts up; the loop does not get on to the next bank.
CountsUp ==
  /\ job.step = "number"
  /\ num' = [num EXCEPT ![job.bank] = job.old + 1]
  /\ job' = [job EXCEPT !.step = "header", !.at = 1, !.bank = CurrentOf(num'), !.old = 0]
  /\ UNCHANGED <<rec, crashes>>
SameBankAgain ==
  /\ job.step = "number"
  /\ num' = [num EXCEPT ![job.bank] = Top]
  /\ job' = [job EXCEPT !.step = "wipe"]
  /\ UNCHANGED <<rec, crashes>>

\* The wiped bank goes on counting down (the same bound: numbers do not run
\* out); after the last the version is saved.
NumberBank ==
  /\ job.step = "number" /\ job.old > 0
  /\ num' = [num EXCEPT ![job.bank] = job.old - 1]
  /\ IF job.bank + 1 \in Banks
     THEN job' = [job EXCEPT !.step = "wipe", !.bank = @ + 1]
     ELSE job' = [job EXCEPT !.step = "header", !.at = 1, !.bank = CurrentOf(num'), !.old = 0]
  /\ UNCHANGED <<rec, crashes>>
-----------------------------------------------------------------------------
(* pack_cfg_fmem(): job.bank is the old bank, job.at the record looked at. *)

New == Next(job.bank)

EraseNew ==
  /\ job.step = "erase"
  /\ num' = [num EXCEPT ![New] = Blank]
  /\ rec' = [rec EXCEPT ![New] = ErasedBank]
  /\ job' = [job EXCEPT !.step = "occupy"]
  /\ UNCHANGED crashes

NumberedAtOnce ==  \* mutant
  /\ job.step = "occupy"
  /\ num' = [num EXCEPT ![New] = num[job.bank] - 1]
  /\ job' = [job EXCEPT !.step = "copy", !.at = 1]
  /\ UNCHANGED <<rec, crashes>>

Occupy ==
  /\ job.step = "occupy"
  /\ num' = [num EXCEPT ![New] = Top]
  /\ job' = [job EXCEPT !.step = "copy", !.at = 1]
  /\ UNCHANGED <<rec, crashes>>

CopiesOwn(w) == IsHdr(w) /\ Find(rec[New], w[2]) = {}  \* mutant

\* Whether the record under the cursor makes the new bank get a copy: of the
\* last record of that object, with the length of this one, at the place for
\* the first record of the bank (wraddr stays there).
Copies(w) ==
  /\ IsHdr(w) /\ w[2] # job.id
  /\ Find(rec[New], w[2]) = {}

\* An id that no record of the old bank has would be an error; there is one.
CopyWords(n) ==
  LET old == rec[job.bank]
      src == Last(old, old[job.at][2])
  IN  Write(rec[New], 1, [i \in 1 .. n |-> WordAt(old, src + i - 1)])

CopyRecord ==
  LET w == rec[job.bank][job.at] IN
  /\ job.step = "copy"
  /\ w # FF
  /\ rec' = IF Copies(w) THEN [rec EXCEPT ![New] = CopyWords(1 + SizeOf(w))] ELSE rec
  /\ job' = [job EXCEPT !.at = @ + 1 + SizeOf(w),
                        !.step = IF job.at + 1 + SizeOf(w) >= BankWords - 2 THEN "commit" ELSE @]
  /\ UNCHANGED <<num, crashes>>

CopyDone ==
  /\ job.step = "copy"
  /\ rec[job.bank][job.at] = FF
  /\ job' = [job EXCEPT !.step = "commit"]
  /\ UNCHANGED <<num, rec, crashes>>

\* The number that makes the new bank the current one.
Commit ==
  /\ job.step = "commit"
  /\ num' = [num EXCEPT ![New] = (num[job.bank] - 1) % (Top + 1)]  \* AND with Top
  /\ job' = [job EXCEPT !.step = "drop"]
  /\ UNCHANGED <<rec, crashes>>

EraseOld ==
  /\ job.step = "drop"
  /\ num' = [num EXCEPT ![job.bank] = Blank]
  /\ rec' = [rec EXCEPT ![job.bank] = ErasedBank]
  /\ LET at == SaveAddr(rec[New], Size[job.val]) IN
     job' = IF at = 0 THEN NoJob  \* "banks overflow!"
            ELSE [job EXCEPT !.step = "header", !.bank = New, !.at = at]
  /\ UNCHANGED crashes
-----------------------------------------------------------------------------
(* The new record.                                                         *)

Header == <<"hdr", job.id, Size[job.val]>>

WriteHeader ==
  /\ job.step = "header"
  /\ rec' = [rec EXCEPT ![job.bank] = Write(@, job.at, <<Header>>)]
  /\ job' = IF Size[job.val] = 0 THEN NoJob ELSE [job EXCEPT !.step = "data"]
  /\ UNCHANGED <<num, crashes>>

WriteWords(n) == Write(rec[job.bank], job.at + 1, [i \in 1 .. n |-> <<"dat", job.val, i>>])

WriteData ==
  /\ job.step = "data"
  /\ rec' = [rec EXCEPT ![job.bank] = WriteWords(Size[job.val])]
  /\ job' = NoJob
  /\ UNCHANGED <<num, crashes>>
-----------------------------------------------------------------------------
Clearing == job.step \in {"wipe", "number"}

\* A restart, perhaps with other firmware.
Reboot == job = NoJob /\ job' = BootJob /\ UNCHANGED <<num, rec, crashes>>

PowerLoss ==
  /\ crashes > 0 /\ crashes' = crashes - 1
  /\ Clearing => CrashInFormat
  /\ job.step # "boot"
  /\ job' = BootJob
  /\ UNCHANGED num
  /\ \/ UNCHANGED rec
     \/ /\ job.step = "data"
        /\ \E n \in 1 .. Size[job.val] - 1 : rec' = [rec EXCEPT ![job.bank] = WriteWords(n)]
     \/ /\ job.step = "copy" /\ rec[job.bank][job.at] # FF /\ Copies(rec[job.bank][job.at])
        /\ \E n \in 1 .. SizeOf(rec[job.bank][job.at]) : rec' = [rec EXCEPT ![New] = CopyWords(n)]

Step ==
  \/ \E v \in Values[VER] : CheckVersion(v)
  \/ WipeBank \/ NumberBank
  \/ EraseNew \/ Occupy \/ CopyRecord \/ CopyDone \/ Commit \/ EraseOld
  \/ WriteHeader \/ WriteData

NextStep ==
  \/ \E id \in Ids \ {VER} : \E v \in Values[id] : Save(id, v)
  \/ Step \/ Reboot \/ PowerLoss

\* A call runs to its end.
Spec == Init /\ [][NextStep]_vars /\ WF_vars(Step)
-----------------------------------------------------------------------------
\* While a bank is copied the store is still read from the old bank: a power
\* failure during a pack loses nothing.
CopyNotCurrent ==
  job.step \in {"copy", "commit"} => Current = job.bank

\* A pack begins with an erased bank, also after one that was cut short: the
\* erase is skipped only for a bank that is blank throughout.
PackIntoErased ==
  job.step = "occupy" \/ (job.step = "copy" /\ job.at = 1) => rec[New] = ErasedBank

\* A save changes its own object only: packing takes the others along.
OnlySavedChanges ==
  [][job.step # "boot" /\ ~Clearing =>
       \A id \in Ids : id # job.id => Stored(id)' = Stored(id)]_vars

\* The store as its callers see it: a clearing is one step for them.
Store == INSTANCE EepStore WITH
  Data   <- {DataOf(v) : v \in AllValues},
  store  <- [id \in Ids |-> IF Clearing THEN Missing ELSE Stored(id)],
  saving <- IF job.step \in {"boot", "idle"} \/ Clearing THEN <<>> ELSE <<job.id, DataOf(job.val)>>

ImplementsStore == Store!Spec

\* Whenever the power fails, the store comes up again and takes saves.
ComesUp == []<>(job.step = "idle")
=============================================================================
