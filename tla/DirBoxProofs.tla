---------------------------- MODULE DirBoxProofs ----------------------------
(***************************************************************************)
(* What a directory box knows about its directory, for any number of       *)
(* files, zettel, clients and file services: first what becomes of an      *)
(* entry, then the steps of the box.                                       *)
(***************************************************************************)
EXTENDS DirBox, FiniteSetTheorems, SequenceTheorems, TLAPS

(* Sequences without repetition                                             *)
Injective(s) == \A i, j \in DOMAIN s : s[i] = s[j] => i = j

(* The files of an entry that are not in use. *)
Useless(e) == ToSet(e.useless)

(* Files of a zettel with content: which is better, extension first.        *)
Better(old, new) ==
    IF Ext(old) = Ext(new) THEN newNameIsBetter(old, new)
    ELSE Ext(old) # zettel /\ (Ext(new) = zettel \/ newExtIsBetter(Ext(old), Ext(new)))

(* No file is listed twice. *)
Distinct(e) ==
    /\ Injective(e.useless)
    /\ e.meta \notin Useless(e) /\ e.content \notin Useless(e)
    /\ e.meta = e.content => e.meta = NoName

(* Metadata is in a file without an extension, content in one with.         *)
Roles(e) ==
    /\ e.meta # NoName => Ext(e.meta) = ""
    /\ e.content # NoName => Ext(e.content) # ""

(* No useless file is better than the one in use. *)
BestUsed(e) ==
    \A u \in Useless(e) :
        /\ Ext(u) = "" /\ ~HasMetaInContent(e)
            => e.meta # NoName /\ ~newNameIsBetter(e.meta, u)
        /\ Ext(u) # "" => e.content # NoName /\ ~Better(e.content, u)

AllPlain(e) == \A n \in FilesOf(e) : Plain(n)
WellFormed(e) == e \in Entry /\ AllPlain(e) /\ Distinct(e) /\ Roles(e) /\ BestUsed(e)

(* A metadata file, though the content file has metadata, too.              *)
Loose(e) == HasMetaInContent(e) /\ e.meta # NoName

Clash(m, n) ==
    /\ ZidOf[m] = ZidOf[n]
    /\ \/ Ext(m) = "" /\ Ext(n) = zettel
       \/ Ext(m) = zettel /\ Ext(n) = ""
Harmless(names) == \A m, n \in names : ~Clash(m, n)

-----------------------------------------------------------------------------
(* Events that the notifier has not taken. *)

Pending(evs, n) == \E i \in DOMAIN evs : evs[i].name = n
Awaited(evs, op) == \E i \in DOMAIN evs : evs[i].op = op
RemovedIn(evs, n, i, j) == \E k \in i .. j : evs[k].op = "Remove" /\ evs[k].name = n

(* The last event of a file tells whether it is there.                      *)
LastTells(evs, files) ==
    \A i \in DOMAIN evs :
        evs[i].name \in Names /\ (\A j \in DOMAIN evs : j > i => evs[j].name # evs[i].name)
            => (evs[i].op = "Write" <=> evs[i].name \in files)

PlainEvents(evs, bad) ==
    \A i \in DOMAIN evs :
        evs[i].name \in Names /\ ZidOf[evs[i].name] \notin bad => Plain(evs[i].name)

(* A file that was written is removed, before there is anything of a file   *)
(* that clashes with it.                                                    *)
ApartEvents(evs, bad) ==
    \A i, j \in DOMAIN evs :
        i < j /\ evs[i].op = "Write" /\ evs[j].name \in Names
              /\ Clash(evs[i].name, evs[j].name) /\ ZidOf[evs[i].name] \notin bad
            => RemovedIn(evs, evs[i].name, i + 1, j - 1)

(* A directory that is there came back after it was moved away.             *)
Returns(evs) ==
    \A i \in DOMAIN evs :
        evs[i].op = "DirRename" => \E j \in DOMAIN evs : i < j /\ evs[j].op = "DirCreate"

EventsOK ==
    /\ LastTells(osEvents, DOMAIN disk)
    /\ PlainEvents(osEvents, spoiled) /\ ApartEvents(osEvents, spoiled)
    /\ dirThere => Returns(osEvents)

(* Before there is anything of a file that clashes with n, n is removed.    *)
GoneFirst(evs, n) ==
    \A j \in DOMAIN evs :
        evs[j].name \in Names /\ Clash(evs[j].name, n) => RemovedIn(evs, n, 1, j - 1)

-----------------------------------------------------------------------------
(* Calls under way. *)
IsChange(op) == op \in {"create", "update", "delete"}
DiskOf(z) == {n \in DOMAIN disk : ZidOf[n] = z}
Job(c) == worker[WorkerOf[call[c].zid]]
Todo(c) == ToSet(Job(c).todo)

(* What an update or a new zettel has still to write, a delete to remove.   *)
Unwritten(c) ==
    IF call[c].pc = "wait" THEN Todo(c)
    ELSE IF call[c].pc = "send" \/ (call[c].pc = "enter" /\ call[c].op = "update")
         THEN {call[c].entry.meta, call[c].entry.content}
    ELSE {}
Undeleted(c) ==
    IF call[c].pc = "wait" THEN Todo(c)
    ELSE IF call[c].pc \in {"drop", "send"} THEN FilesOf(call[c].entry)
    ELSE {}

ClientOK(c) ==
    /\ call[c].pc = "idle" => call[c].op \in {"none", "get"}
    /\ call[c].pc # "idle" =>
        /\ call[c].zid \in Zids /\ call[c].op # "none"
        /\ \A n \in FilesOf(call[c].entry) : ZidOf[n] = call[c].zid
    /\ call[c].pc = "enter" => call[c].op \in {"create", "update"}
    /\ call[c].pc = "drop" => call[c].op = "delete"
    /\ call[c].pc = "notify" => IsChange(call[c].op)
    /\ call[c].pc = "wait" => Job(c).client = c

WorkerOK(k) ==
    /\ worker[k].todo # <<>> => worker[k].op # "none"
    /\ worker[k].client # Nobody =>
        LET c == worker[k].client IN
        /\ call[c].pc = "wait" /\ WorkerOf[call[c].zid] = k
        /\ worker[k].op = call[c].op /\ worker[k].entry = call[c].entry
        /\ ToSet(worker[k].todo) \subseteq FilesOf(call[c].entry)
    /\ worker[k].client = Nobody /\ IsChange(worker[k].op) =>
        \A n \in ToSet(worker[k].todo) : ZidOf[n] \in spoiled

(* A change of a zettel nothing is wrong with is the only one, and knows    *)
(* the files.                                                               *)
ChangeOK(c) ==
    LET z == call[c].zid
        e == call[c].entry
    IN  IsChange(call[c].op) /\ z \notin spoiled =>
        /\ dirThere
        /\ \A d \in Clients : IsChange(call[d].op) /\ call[d].zid = z => c = d
        /\ WellFormed(e) /\ Harmless(FilesOf(e)) /\ ~Unnamed(e)
        /\ call[c].pc = "wait" => Job(c).ok
        /\ call[c].op # "delete" =>
            DiskOf(z) \subseteq FilesOf(e) /\ FilesOf(e) \subseteq DiskOf(z) \union Unwritten(c)
        /\ call[c].op = "delete" =>
            /\ DiskOf(z) = Undeleted(c)
            /\ call[c].pc = "wait" => Injective(Job(c).todo)

-----------------------------------------------------------------------------
(* Entries *)

Under(op, c, z) == call[c].zid = z /\ call[c].op = op /\ call[c].pc \in {"send", "wait"}
Reserved(z) ==
    \E c \in Clients : call[c].zid = z /\ call[c].op = "create"
                        /\ call[c].pc \in {"send", "wait", "enter"}

(* Of two files that clash, one is gone before an event of the other.       *)
Separate(evs, e) ==
    \A m, n \in FilesOf(e) : Clash(m, n) => GoneFirst(evs, m) \/ GoneFirst(evs, n)
OneIsGone(evs, e) ==
    Loose(e) => \A n \in FilesOf(e) : Ext(n) = zettel => GoneFirst(evs, n)

(* The entry of z knows the files of z, or will.                            *)
EntryOK(z) ==
    LET e == EntryOf(entries, z) IN
    /\ \A n \in FilesOf(e) : ZidOf[n] = z
    /\ z \notin spoiled =>
        /\ WellFormed(e) /\ Separate(osEvents, e) /\ OneIsGone(osEvents, e)
        /\ z \in DOMAIN entries => FilesOf(e) # {} \/ Reserved(z)
        /\ \A n \in FilesOf(e) :
            \/ Pending(osEvents, n) \/ n \in DOMAIN disk
            \/ \E c \in Clients : Under("update", c, z) /\ n \in FilesOf(call[c].entry)
        /\ known /\ ~Awaited(osEvents, "DirRename") =>
            \A n \in DiskOf(z) :
                Pending(osEvents, n) \/ n \in FilesOf(e) \/ \E c \in Clients : Under("delete", c, z)

(* So do the entries that a scan makes.                                     *)
Listed(z) ==
    FilesOf(EntryOf(newEntries, z)) \union {n \in ToSet(notifier.names) : ZidOf[n] = z}

ListOK(z) ==
    LET e == EntryOf(newEntries, z) IN
    /\ \A n \in FilesOf(e) : ZidOf[n] = z
    /\ z \notin spoiled =>
        /\ WellFormed(e) /\ Harmless(Listed(z)) /\ \A n \in Listed(z) : Plain(n)
        /\ z \in DOMAIN newEntries => FilesOf(e) # {}
        /\ \A n \in Listed(z) : Pending(osEvents, n) \/ n \in DOMAIN disk
        /\ \A n \in DiskOf(z) : Pending(osEvents, n) \/ n \in Listed(z)

NotifierOK ==
    /\ notifier.pc = "fetch" => listing /\ newEntries = <<>>
    /\ notifier.pc = "error" /\ dirThere => Awaited(osEvents, "DirCreate")
    /\ notifier.pc = "list" /\ dirThere /\ ~Awaited(osEvents, "DirCreate") => listing
    /\ notifier.pc = "list" /\ ~listing => newEntries = <<>>
    /\ notifier.pc = "list" /\ listing /\ ~Awaited(osEvents, "DirRename") => dirThere
    /\ notifier.pc = "loop" /\ dirThere /\ ~Awaited(osEvents, "DirCreate") => known
    /\ known /\ ~Awaited(osEvents, "DirRename") => dirThere

ListsOK == notifier.pc = "list" /\ listing => \A z \in Zids : ListOK(z)

(* What is not reported yet will be.                                        *)
ReportsOK ==
    \A z \in unreported \ spoiled :
        \/ \E note \in notes : note[1] = z
        \/ \E c \in Clients :
            /\ call[c].zid = z
            /\ \/ call[c].op = "create"
               \/ call[c].op \in {"update", "delete"} /\ call[c].pc \in {"send", "wait", "notify"}

DiskOK == IsFiniteSet(DOMAIN disk) /\ Lossy(DOMAIN disk) \subseteq spoiled
ClientsOK == \A c \in Clients : ClientOK(c)
WorkersOK == \A k \in Workers : WorkerOK(k)
ChangesOK == \A c \in Clients : ChangeOK(c)
EntriesOK == \A z \in Zids : EntryOK(z)

IInv ==
    /\ TypeOK /\ DiskOK /\ EventsOK
    /\ ClientsOK /\ WorkersOK /\ ChangesOK
    /\ EntriesOK /\ NotifierOK /\ ListsOK /\ ReportsOK

-----------------------------------------------------------------------------
(* Sequences                                                                *)

LEMMA LeastNumber ==
  ASSUME NEW T \in SUBSET Nat, T # {}
  PROVE  \E n \in T : \A m \in T : n <= m
<1>1. IsWellFoundedOn(OpToRel(<, Nat), Nat)
  BY NatLessThanWellFounded
<1>2. PICK n \in T : \A m \in T : ~(<<m, n>> \in OpToRel(<, Nat))
  BY <1>1, WFMin
<1>3. \A m \in T : ~(m < n)
  BY <1>2 DEF OpToRel
<1> QED
  BY <1>3

LEMMA AppendIs ==
  ASSUME NEW S, NEW s \in Seq(S), NEW x \in S
  PROVE  /\ Append(s, x) \in Seq(S)
         /\ ToSet(Append(s, x)) = ToSet(s) \union {x}
         /\ Injective(s) /\ x \notin ToSet(s) => Injective(Append(s, x))
<1> DEFINE r == Append(s, x)
<1>1. /\ r \in Seq(S) /\ Len(r) = Len(s) + 1 /\ Len(s) \in Nat
      /\ DOMAIN s = 1 .. Len(s) /\ DOMAIN r = 1 .. Len(s) + 1
      /\ \A i \in 1 .. Len(s) : r[i] = s[i]
      /\ r[Len(s) + 1] = x
  OBVIOUS
<1> HIDE DEF r
<1>2. ToSet(r) = ToSet(s) \union {x}
  BY <1>1 DEF ToSet
<1>3. ASSUME Injective(s), x \notin ToSet(s) PROVE Injective(r)
  BY <1>1, <1>3 DEF ToSet, Injective
<1> QED
  BY <1>1, <1>2, <1>3 DEF r

LEMMA RemoveAtIs ==
  ASSUME NEW S, NEW s \in Seq(S), NEW k \in 1 .. Len(s)
  PROVE  LET r == RemoveAt(s, k) IN
         /\ r \in Seq(S) /\ DOMAIN r = 1 .. Len(s) - 1
         /\ \A i \in 1 .. Len(s) - 1 : r[i] = IF i < k THEN s[i] ELSE s[i + 1]
<1> DEFINE a == SubSeq(s, 1, k - 1)
           b == SubSeq(s, k + 1, Len(s))
           r == a \o b
<1>1. Len(s) \in Nat /\ k \in Nat /\ 1 <= k /\ k <= Len(s)
  OBVIOUS
<1>2. a \in Seq(S) /\ Len(a) = k - 1 /\ \A i \in 1 .. k - 1 : a[i] = s[i]
  BY <1>1
<1>3. \A i \in k + 1 .. Len(s) : s[i] \in S
  BY <1>1
<1>4. b \in Seq(S) /\ Len(b) = Len(s) - k /\ \A i \in 1 .. Len(s) - k : b[i] = s[k + i]
  <2> HIDE DEF b
  <2>1. b \in Seq(S) /\ Len(b) = IF k + 1 <= Len(s) THEN Len(s) - (k + 1) + 1 ELSE 0
    BY <1>1, <1>3, SubSeqProperties DEF b
  <2>2. \A i \in 1 .. Len(s) - (k + 1) + 1 : b[i] = s[k + 1 + i - 1]
    BY <1>1, <1>3, SubSeqProperties DEF b
  <2>3. Len(b) = Len(s) - k
    BY <2>1, <1>1
  <2>4. ASSUME NEW i \in 1 .. Len(s) - k PROVE b[i] = s[k + i]
    <3>1. i \in 1 .. Len(s) - (k + 1) + 1 /\ k + 1 + i - 1 = k + i
      BY <1>1
    <3> QED
      BY <2>2, <3>1
  <2> QED
    BY <2>1, <2>3, <2>4
<1> HIDE DEF a, b
<1>5. /\ r \in Seq(S) /\ Len(r) = Len(s) - 1
      /\ \A i \in 1 .. Len(s) - 1 : r[i] = IF i <= k - 1 THEN a[i] ELSE b[i - (k - 1)]
  <2> HIDE DEF r
  <2>1. /\ r \in Seq(S) /\ Len(r) = Len(a) + Len(b)
        /\ \A i \in 1 .. Len(a) + Len(b) : r[i] = IF i <= Len(a) THEN a[i] ELSE b[i - Len(a)]
    BY <1>2, <1>4, ConcatProperties DEF r
  <2> QED
    BY <2>1, <1>2, <1>4, <1>1
<1> HIDE DEF r
<1>6. ASSUME NEW i \in 1 .. Len(s) - 1 PROVE r[i] = IF i < k THEN s[i] ELSE s[i + 1]
  <2>1. CASE i < k
    <3>1. i <= k - 1 /\ i \in 1 .. k - 1
      BY <2>1, <1>1
    <3> QED
      BY <2>1, <3>1, <1>5, <1>2
  <2>2. CASE ~(i < k)
    <3>1. i - (k - 1) \in 1 .. Len(s) - k /\ k + (i - (k - 1)) = i + 1
      BY <2>2, <1>1
    <3>2. r[i] = b[i - (k - 1)]
      BY <2>2, <1>5, <1>1
    <3> QED
      BY <3>1, <3>2, <2>2, <1>4
  <2> QED
    BY <2>1, <2>2
<1>7. DOMAIN r = 1 .. Len(s) - 1
  BY <1>5
<1> QED
  BY <1>5, <1>6, <1>7 DEF RemoveAt, r, a, b

LEMMA RemoveFirstIs ==
  ASSUME NEW S, NEW s \in Seq(S), NEW x \in ToSet(s)
  PROVE  LET r == RemoveFirst(s, x) IN
         /\ r \in Seq(S)
         /\ ToSet(r) \subseteq ToSet(s)
         /\ Injective(s) => Injective(r) /\ ToSet(r) = ToSet(s) \ {x}
<1> DEFINE I == {i \in 1 .. Len(s) : s[i] = x}
           k == Min(I)
           r == RemoveAt(s, k)
<1>1. Len(s) \in Nat /\ DOMAIN s = 1 .. Len(s)
  OBVIOUS
<1>2. I # {} /\ I \subseteq Nat
  BY <1>1 DEF ToSet
<1>3. k \in I
  BY <1>2, LeastNumber DEF Min
<1>4. RemoveFirst(s, x) = r
  BY <1>2 DEF RemoveFirst, SelectInSeq
<1>5. k \in 1 .. Len(s) /\ s[k] = x
  BY <1>3
<1> HIDE DEF k
<1>6. /\ r \in Seq(S) /\ DOMAIN r = 1 .. Len(s) - 1
      /\ \A i \in 1 .. Len(s) - 1 : r[i] = IF i < k THEN s[i] ELSE s[i + 1]
  BY <1>5, RemoveAtIs
<1> HIDE DEF r
<1>7. ToSet(r) \subseteq ToSet(s)
  <2> SUFFICES ASSUME NEW i \in 1 .. Len(s) - 1 PROVE r[i] \in ToSet(s)
    BY <1>6 DEF ToSet
  <2>1. i \in DOMAIN s /\ i + 1 \in DOMAIN s
    BY <1>1
  <2> QED
    BY <2>1, <1>6 DEF ToSet
<1>8. ASSUME Injective(s) PROVE Injective(r)
  <2> SUFFICES ASSUME NEW i \in 1 .. Len(s) - 1, NEW j \in 1 .. Len(s) - 1, r[i] = r[j]
               PROVE  i = j
    BY <1>6 DEF Injective
  <2> DEFINE old(m) == IF m < k THEN m ELSE m + 1
  <2>1. old(i) \in DOMAIN s /\ old(j) \in DOMAIN s /\ r[i] = s[old(i)] /\ r[j] = s[old(j)]
    BY <1>6, <1>1
  <2>2. old(i) = old(j)
    BY <2>1, <1>8 DEF Injective
  <2> QED
    BY <2>2, <1>5
<1>9. ASSUME Injective(s) PROVE ToSet(r) = ToSet(s) \ {x}
  <2>1. ASSUME NEW i \in DOMAIN r PROVE r[i] # x
    BY <1>6, <1>1, <1>5, <1>9 DEF Injective
  <2>2. ASSUME NEW i \in DOMAIN s, s[i] # x PROVE s[i] \in ToSet(r)
    <3>1. CASE i < k
      <4>1. i \in DOMAIN r /\ r[i] = s[i]
        BY <3>1, <1>6, <1>1, <1>5
      <4> QED
        BY <4>1 DEF ToSet
    <3>2. CASE i > k
      <4>1. i - 1 \in DOMAIN r /\ r[i - 1] = s[i]
        BY <3>2, <1>6, <1>1, <1>5
      <4> QED
        BY <4>1 DEF ToSet
    <3> QED
      BY <3>1, <3>2, <2>2, <1>5, <1>1
  <2> QED
    BY <2>1, <2>2, <1>7 DEF ToSet
<1> QED
  BY <1>4, <1>6, <1>7, <1>8, <1>9

-----------------------------------------------------------------------------
(* File names *)

LEMMA NoExt == Ext(NoName) = ""
  BY DEF Ext, NoName

LEMMA NamesAre ==
  ASSUME NEW n \in Names
  PROVE  n \in Seq(STRING) /\ n # NoName /\ Len(n) \in Nat
<1>1. n \in Seq(STRING) /\ n # NoName
  BY NamesAssumption
<1> QED
  BY <1>1

LEMMA OneExtension ==
  ASSUME NEW n \in Names, Len(n) = 2
  PROVE  Len(nameWithoutExt(n)) = 1
<1>1. nameWithoutExt(n) = SubSeq(n, 1, 1)
  BY DEF nameWithoutExt
<1>2. n[1] \in STRING
  BY NamesAre, ElementOfSeq
<1>3. Len(SubSeq(n, 1, 1)) = 1
  BY <1>2, SubSeqProperties
<1> QED
  BY <1>1, <1>3

LEMMA NoExtension ==
  ASSUME NEW n, Len(n) = 1
  PROVE  Ext(n) = "" /\ n # NoName
<1>1. Len(n) <= 1
  OBVIOUS
<1>2. n # <<>>
  OBVIOUS
<1> QED
  BY <1>1, <1>2 DEF Ext, NoName

LEMMA PlainBase ==
  ASSUME NEW n \in Names, Plain(n), Ext(n) # ""
  PROVE  /\ Len(n) = 2 /\ Len(nameWithoutExt(n)) = 1
         /\ Ext(nameWithoutExt(n)) = "" /\ nameWithoutExt(n) # NoName
<1>1. Len(n) = 2
  BY NoExtension DEF Plain
<1>2. Len(nameWithoutExt(n)) = 1
  BY <1>1, OneExtension
<1> QED
  BY <1>1, <1>2, NoExtension

(* The parts of a pair are not both plain.                                  *)
LEMMA PlainIsUnpaired ==
  ASSUME NEW e \in Entry, AllPlain(e), Roles(e), NEW n \in Names, Plain(n)
  PROVE  updateEntry(e, n) = updateUnpaired(e, n)
<1> DEFINE mayPair == ~HasMetaInContent(e) /\ Ext(n) # "" /\ e.meta = NoName
<1>1. ASSUME mayPair PROVE nameWithoutExt(n) # e.content
  <2>1. Ext(nameWithoutExt(n)) = "" /\ nameWithoutExt(n) # NoName
    BY <1>1, PlainBase
  <2> QED
    BY <2>1 DEF Roles
<1>2. ASSUME mayPair, e.content # NoName PROVE nameWithoutExt(e.content) # n
  <2>1. e.content \in Names /\ Plain(e.content) /\ Ext(e.content) # ""
    BY <1>2 DEF Entry, AllPlain, Roles, FilesOf
  <2>2. Ext(nameWithoutExt(e.content)) = ""
    BY <2>1, PlainBase
  <2> QED
    BY <2>2, <1>2
<1> QED
  BY <1>1, <1>2 DEF updateEntry

-----------------------------------------------------------------------------
(* Better is an order. *)

Flag(ext, i) == Flags[i] \in Syntax[ext] <=> Flags[i] # "image"
FirstFlag(x, y, i) ==
    /\ i \in 1 .. 4 /\ ~(Flag(x, i) <=> Flag(y, i))
    /\ \A j \in 1 .. 4 : j < i => (Flag(x, j) <=> Flag(y, j))

LEMMA NewExtIs ==
  ASSUME NEW x, NEW y
  PROVE  newExtIsBetter(x, y) <=>
            \/ x \notin DOMAIN Syntax /\ y \in DOMAIN Syntax
            \/ /\ x \in DOMAIN Syntax <=> y \in DOMAIN Syntax
               /\ IF x \in DOMAIN Syntax /\ (x = "zmk" \/ y = "zmk") THEN x # "zmk"
                  ELSE IF x \in DOMAIN Syntax /\ \E i \in 1 .. 4 : ~(Flag(x, i) <=> Flag(y, i))
                  THEN \E i \in 1 .. 4 : FirstFlag(x, y, i) /\ Flag(y, i)
                  ELSE ExtRank[y] < ExtRank[x]
<1> DEFINE flag(ext, i) == (Flags[i] \in Syntax[ext]) # (Flags[i] = "image")
           differ == {i \in DOMAIN Flags : flag(x, i) # flag(y, i)}
           first == CHOOSE i \in differ : \A j \in differ : i <= j
<1>1. DOMAIN Flags = 1 .. 4
  BY DEF Flags
<1>a. \A i \in 1 .. 4 : i \in differ <=> ~(Flag(x, i) <=> Flag(y, i))
  BY <1>1 DEF Flag
<1>b. differ \subseteq 1 .. 4
  BY <1>1
<1> HIDE DEF differ
<1>2. ASSUME differ # {} PROVE \E i \in 1 .. 4 : FirstFlag(x, y, i)
  <2>1. PICK i \in differ : \A j \in differ : i <= j
    BY <1>b, <1>2, LeastNumber
  <2> QED
    BY <2>1, <1>a, <1>b DEF FirstFlag
<1>3. ASSUME NEW i \in 1 .. 4, FirstFlag(x, y, i) PROVE first = i
  <2>1. i \in differ /\ \A j \in differ : i <= j
    BY <1>a, <1>b, <1>3 DEF FirstFlag
  <2>2. first \in differ /\ \A j \in differ : first <= j
    BY <2>1
  <2>3. first \in 1 .. 4 /\ i <= first /\ first <= i
    BY <2>1, <2>2, <1>b
  <2> HIDE DEF first
  <2> QED
    BY <2>3
<1>4. newExtIsBetter(x, y) <=>
        IF ~(x \in DOMAIN Syntax <=> y \in DOMAIN Syntax) THEN y \in DOMAIN Syntax
        ELSE IF x \in DOMAIN Syntax /\ "zmk" \in {x, y} THEN x # "zmk"
        ELSE IF x \in DOMAIN Syntax /\ differ # {} THEN flag(y, first)
        ELSE ExtRank[y] < ExtRank[x]
  BY DEF newExtIsBetter, differ
<1> HIDE DEF first
<1>5. ASSUME differ # {} PROVE flag(y, first) <=> \E i \in 1 .. 4 : FirstFlag(x, y, i) /\ Flag(y, i)
  BY <1>2, <1>3, <1>5 DEF Flag
<1>6. differ # {} <=> \E i \in 1 .. 4 : ~(Flag(x, i) <=> Flag(y, i))
  BY <1>a, <1>b
<1> HIDE DEF flag
<1> QED
  BY <1>4, <1>5, <1>6

ExtBetter(x, y) == x # zettel /\ (y = zettel \/ newExtIsBetter(x, y))

LEMMA ExtBetterAntisymmetric ==
  ASSUME NEW x, NEW y, x # y, ExtRank[x] \in Nat, ExtRank[y] \in Nat, ExtBetter(x, y)
  PROVE  ~ExtBetter(y, x)
<1> SUFFICES ASSUME newExtIsBetter(x, y), newExtIsBetter(y, x) PROVE FALSE
  BY DEF ExtBetter
<1>1. ASSUME NEW i \in 1 .. 4, NEW j \in 1 .. 4, FirstFlag(x, y, i), FirstFlag(y, x, j) PROVE i = j
  BY <1>1 DEF FirstFlag
<1> QED
  BY <1>1, NewExtIs DEF FirstFlag

LEMMA ExtBetterTransitive ==
  ASSUME NEW x, NEW y, NEW z, x # y, y # z, x # z,
         ExtRank[x] \in Nat, ExtRank[y] \in Nat, ExtRank[z] \in Nat,
         ExtBetter(x, y), ExtBetter(y, z)
  PROVE  ExtBetter(x, z)
<1> SUFFICES ASSUME newExtIsBetter(x, y), newExtIsBetter(y, z) PROVE newExtIsBetter(x, z)
  BY DEF ExtBetter
<1>1. ASSUME NEW i \in 1 .. 4, NEW j \in 1 .. 4,
             FirstFlag(x, y, i), Flag(y, i), FirstFlag(y, z, j), Flag(z, j)
      PROVE  \E k \in 1 .. 4 : FirstFlag(x, z, k) /\ Flag(z, k)
  <2>1. i # j
    BY <1>1 DEF FirstFlag
  <2>2. CASE i < j
    BY <1>1, <2>2 DEF FirstFlag
  <2>3. CASE j < i
    BY <1>1, <2>3 DEF FirstFlag
  <2> QED
    BY <2>1, <2>2, <2>3
<1>2. ASSUME \A i \in 1 .. 4 : Flag(x, i) <=> Flag(y, i), NEW j \in 1 .. 4, FirstFlag(y, z, j), Flag(z, j)
      PROVE  FirstFlag(x, z, j)
  BY <1>2 DEF FirstFlag
<1>3. ASSUME \A i \in 1 .. 4 : Flag(y, i) <=> Flag(z, i), NEW j \in 1 .. 4, FirstFlag(x, y, j), Flag(y, j)
      PROVE  FirstFlag(x, z, j) /\ Flag(z, j)
  BY <1>3 DEF FirstFlag
<1> QED
  BY <1>1, <1>2, <1>3, NewExtIs DEF FirstFlag

LEMMA NameOrder ==
  ASSUME NEW l \in Names, NEW m \in Names, NEW n \in Names, newNameIsBetter(l, m)
  PROVE  ~newNameIsBetter(m, l) /\ (newNameIsBetter(m, n) => newNameIsBetter(l, n))
<1>1. \A x \in Names : Size[x] \in Nat /\ Rank[x] \in Nat
  BY NamesAssumption
<1> QED
  BY <1>1 DEF newNameIsBetter

LEMMA BetterOrder ==
  ASSUME NEW l \in Names, NEW m \in Names, NEW n \in Names,
         Ext(l) # "", Ext(m) # "", Ext(n) # "", Better(l, m)
  PROVE  ~Better(m, l) /\ (Better(m, n) => Better(l, n))
<1>1. ExtRank[Ext(l)] \in Nat /\ ExtRank[Ext(m)] \in Nat /\ ExtRank[Ext(n)] \in Nat
  BY NamesAssumption
<1>2. \A x, y \in Names : Better(x, y) <=> IF Ext(x) = Ext(y) THEN newNameIsBetter(x, y)
                                           ELSE ExtBetter(Ext(x), Ext(y))
  BY DEF Better, ExtBetter
<1>3. ~Better(m, l)
  BY <1>1, <1>2, NameOrder, ExtBetterAntisymmetric
<1>4. ASSUME Better(m, n) PROVE Better(l, n)
  <2>1. CASE Ext(l) = Ext(n)
    BY <2>1, <1>4, <1>1, <1>2, NameOrder, ExtBetterAntisymmetric
  <2>2. CASE Ext(l) # Ext(n)
    BY <2>2, <1>4, <1>1, <1>2, ExtBetterTransitive
  <2> QED
    BY <2>1, <2>2
<1> QED
  BY <1>3, <1>4

-----------------------------------------------------------------------------
(* What becomes of an entry: of any, and of one that is well-formed.        *)

LEMMA FilesAre == \A e : FilesOf(e) = ({e.meta, e.content} \ {NoName}) \union Useless(e)
  BY DEF FilesOf, Useless, ToSet

LEMMA EntryIs ==
  ASSUME NEW e \in Entry
  PROVE  /\ e.meta \in Names \union {NoName} /\ e.content \in Names \union {NoName}
         /\ e.useless \in Seq(Names) /\ Useless(e) \subseteq Names /\ NoName \notin Useless(e)
         /\ FilesOf(e) \subseteq Names
<1>1. /\ e.meta \in Names \union {NoName} /\ e.content \in Names \union {NoName}
      /\ e.useless \in Seq(Names)
  BY DEF Entry
<1>2. Useless(e) \subseteq Names
  BY <1>1 DEF Useless, ToSet
<1> QED
  BY <1>1, <1>2, NamesAre, FilesAre

LEMMA SetMeta ==
  ASSUME NEW e \in Entry, NEW n \in Names \union {NoName}
  PROVE  LET r == [e EXCEPT !.meta = n] IN
         r \in Entry /\ r.meta = n /\ r.content = e.content
         /\ r.useless = e.useless /\ Useless(r) = Useless(e)
  BY DEF Entry, Useless

LEMMA SetContent ==
  ASSUME NEW e \in Entry, NEW n \in Names \union {NoName}
  PROVE  LET r == [e EXCEPT !.content = n] IN
         r \in Entry /\ r.meta = e.meta /\ r.content = n
         /\ r.useless = e.useless /\ Useless(r) = Useless(e)
  BY DEF Entry, Useless

LEMMA AddUseless ==
  ASSUME NEW e \in Entry, NEW n \in Names
  PROVE  LET r == addUselessFile(e, n).entry IN
         /\ r \in Entry /\ r.meta = e.meta /\ r.content = e.content
         /\ Useless(r) = Useless(e) \union {n}
         /\ Injective(e.useless) => Injective(r.useless)
<1> DEFINE r == addUselessFile(e, n).entry
<1>1. CASE n \in Useless(e)
  <2>1. r = e
    BY <1>1 DEF addUselessFile, Updated, Useless, ToSet
  <2> QED
    BY <2>1, <1>1
<1>2. CASE n \notin Useless(e)
  <2>1. r = [e EXCEPT !.useless = Append(@, n)]
    BY <1>2 DEF addUselessFile, Useless, ToSet
  <2>2. e.useless \in Seq(Names)
    BY EntryIs
  <2>3. Append(e.useless, n) \in Seq(Names)
    BY <2>2
  <2>4. r \in Entry /\ r.meta = e.meta /\ r.content = e.content /\ r.useless = Append(e.useless, n)
    BY <2>1, <2>3 DEF Entry
  <2>5. /\ ToSet(Append(e.useless, n)) = ToSet(e.useless) \union {n}
        /\ Injective(e.useless) => Injective(Append(e.useless, n))
    BY <2>2, <1>2, AppendIs DEF Useless
  <2> QED
    BY <2>4, <2>5 DEF Useless
<1> QED
  BY <1>1, <1>2

LEMMA MetaIs ==
  ASSUME NEW e \in Entry, NEW n \in Names
  PROVE  LET r == updateEntryMeta(e, n).entry IN
         /\ r \in Entry /\ r.content = e.content
         /\ Injective(e.useless) => Injective(r.useless)
         /\ \/ e.meta \in {NoName, n} /\ r.meta = n /\ Useless(r) = Useless(e)
            \/ /\ e.meta \notin {NoName, n} /\ newNameIsBetter(e.meta, n)
               /\ r.meta = n /\ Useless(r) = Useless(e) \union {e.meta}
            \/ /\ e.meta \notin {NoName, n} /\ ~newNameIsBetter(e.meta, n)
               /\ r.meta = e.meta /\ Useless(r) = Useless(e) \union {n}
<1> DEFINE s == [e EXCEPT !.meta = n]
<1>1. s \in Entry /\ s.meta = n /\ s.content = e.content
      /\ s.useless = e.useless /\ Useless(s) = Useless(e)
  BY SetMeta
<1> HIDE DEF s
<1>2. CASE e.meta \in {NoName, n}
  <2>1. updateEntryMeta(e, n).entry = s
    BY <1>2 DEF updateEntryMeta, Updated, s
  <2> QED
    BY <2>1, <1>1, <1>2
<1>3. CASE e.meta \notin {NoName, n}
  <2>1. e.meta \in Names
    BY <1>3, EntryIs
  <2>2. updateEntryMeta(e, n).entry = IF newNameIsBetter(e.meta, n) THEN addUselessFile(s, e.meta).entry
                                      ELSE addUselessFile(e, n).entry
    BY <1>3 DEF updateEntryMeta, s
  <2>3. CASE newNameIsBetter(e.meta, n)
    BY <2>3, <2>1, <2>2, <1>1, <1>3, AddUseless
  <2>4. CASE ~newNameIsBetter(e.meta, n)
    BY <2>4, <2>2, <1>3, AddUseless
  <2> QED
    BY <2>3, <2>4
<1> QED
  BY <1>2, <1>3

(* The content file is kept, replaced, or replaced together with the        *)
(* metadata file.                                                           *)
LEMMA ContentIs ==
  ASSUME NEW e \in Entry, NEW n \in Names
  PROVE  LET r == updateEntryContent(e, n).entry IN
         /\ r \in Entry
         /\ Injective(e.useless) => Injective(r.useless)
         /\ \/ /\ e.content \in {NoName, n}
               /\ r.meta = e.meta /\ r.content = n /\ Useless(r) = Useless(e)
            \/ /\ e.content \notin {NoName, n} /\ Better(e.content, n)
               /\ Ext(n) = zettel /\ Ext(e.content) # zettel => e.meta = NoName
               /\ r.meta = e.meta /\ r.content = n /\ Useless(r) = Useless(e) \union {e.content}
            \/ /\ e.content \notin {NoName, n} /\ ~Better(e.content, n)
               /\ r.meta = e.meta /\ r.content = e.content /\ Useless(r) = Useless(e) \union {n}
            \/ /\ e.content \notin {NoName, n} /\ Ext(n) = zettel /\ Ext(e.content) # zettel
               /\ e.meta # NoName
               /\ r.meta = NoName /\ r.content = n
               /\ Useless(r) = Useless(e) \union {e.content, e.meta}
<1> DEFINE s == [e EXCEPT !.content = n]
           r == updateEntryContent(e, n).entry
<1>1. s \in Entry /\ s.meta = e.meta /\ s.content = n
      /\ s.useless = e.useless /\ Useless(s) = Useless(e)
  BY SetContent
<1> HIDE DEF s
<1>2. CASE e.content \in {NoName, n}
  <2>1. r = s
    BY <1>2 DEF updateEntryContent, Updated, s
  <2> QED
    BY <2>1, <1>1, <1>2
<1>3. CASE e.content \notin {NoName, n}
  <2>1. e.content \in Names
    BY <1>3, EntryIs
  <2> DEFINE t == addUselessFile(s, e.content).entry
             i == addUselessFile(e, n).entry
  <2>2. /\ t \in Entry /\ t.meta = e.meta /\ t.content = n /\ Useless(t) = Useless(e) \union {e.content}
        /\ Injective(e.useless) => Injective(t.useless)
    BY <2>1, <1>1, AddUseless
  <2>3. /\ i \in Entry /\ i.meta = e.meta /\ i.content = e.content /\ Useless(i) = Useless(e) \union {n}
        /\ Injective(e.useless) => Injective(i.useless)
    BY AddUseless
  <2>4. CASE Ext(e.content) # zettel /\ Ext(n) = zettel /\ e.meta # NoName
    <3> DEFINE u == [t EXCEPT !.meta = NoName]
               v == addUselessFile(u, e.meta).entry
    <3>1. r = v
      BY <2>4, <1>3 DEF updateEntryContent, s
    <3>2. u \in Entry /\ u.meta = NoName /\ u.content = n /\ u.useless = t.useless /\ Useless(u) = Useless(t)
      BY <2>2, SetMeta
    <3>3. e.meta \in Names
      BY <2>4, EntryIs
    <3> HIDE DEF t, u
    <3>4. /\ v \in Entry /\ v.meta = NoName /\ v.content = n /\ Useless(v) = Useless(t) \union {e.meta}
          /\ Injective(t.useless) => Injective(v.useless)
      BY <3>2, <3>3, AddUseless
    <3>5. Useless(v) = Useless(e) \union {e.content, e.meta}
      BY <3>4, <2>2
    <3> HIDE DEF v
    <3> QED
      BY <3>1, <3>4, <3>5, <2>2, <2>4, <1>3
  <2>5. CASE ~(Ext(e.content) # zettel /\ Ext(n) = zettel /\ e.meta # NoName)
    <3>1. r = IF Better(e.content, n) THEN t ELSE i
      BY <2>5, <1>3 DEF updateEntryContent, Better, s
    <3> HIDE DEF t, i
    <3>2. CASE Better(e.content, n)
      BY <3>2, <3>1, <2>2, <2>5, <1>3
    <3>3. CASE ~Better(e.content, n)
      BY <3>3, <3>1, <2>3, <1>3
    <3> QED
      BY <3>2, <3>3
  <2> QED
    BY <2>4, <2>5
<1> QED
  BY <1>2, <1>3

LEMMA UnpairedIsEntry ==
  ASSUME NEW e \in Entry, NEW n \in Names
  PROVE  LET r == updateUnpaired(e, n).entry IN
         r \in Entry /\ FilesOf(r) \subseteq FilesOf(e) \union {n}
<1>1. CASE ~HasMetaInContent(e) /\ Ext(n) = ""
  <2> DEFINE r == updateEntryMeta(e, n).entry
  <2>1. r \in Entry /\ r.content = e.content /\ r.meta \in {e.meta, n}
        /\ Useless(r) \subseteq Useless(e) \union ({e.meta, n} \ {NoName})
    BY MetaIs, NamesAre
  <2>2. updateUnpaired(e, n).entry = r
    BY <1>1 DEF updateUnpaired
  <2> HIDE DEF r
  <2> QED
    BY <2>1, <2>2, FilesAre
<1>2. CASE ~(~HasMetaInContent(e) /\ Ext(n) = "")
  <2> DEFINE r == updateEntryContent(e, n).entry
  <2>1. r \in Entry /\ r.content \in {e.content, n} /\ r.meta \in {e.meta, NoName}
        /\ Useless(r) \subseteq Useless(e) \union ({e.meta, e.content, n} \ {NoName})
    BY ContentIs, NamesAre
  <2>2. updateUnpaired(e, n).entry = r
    BY <1>2 DEF updateUnpaired
  <2> HIDE DEF r
  <2> QED
    BY <2>1, <2>2, FilesAre
<1> QED
  BY <1>1, <1>2

LEMMA MetaKeeps ==
  ASSUME NEW e, WellFormed(e), NEW n \in Names, Plain(n),
         ~HasMetaInContent(e), Ext(n) = ""
  PROVE  LET r == updateEntryMeta(e, n).entry IN
         WellFormed(r) /\ FilesOf(r) = FilesOf(e) \union {n} /\ ~HasMetaInContent(r)
<1> DEFINE r == updateEntryMeta(e, n).entry
<1>1. e \in Entry /\ Injective(e.useless)
  BY DEF WellFormed, Distinct
<1>2. /\ r \in Entry /\ r.content = e.content /\ Injective(r.useless)
      /\ \/ e.meta \in {NoName, n} /\ r.meta = n /\ Useless(r) = Useless(e)
         \/ /\ e.meta \notin {NoName, n} /\ newNameIsBetter(e.meta, n)
            /\ r.meta = n /\ Useless(r) = Useless(e) \union {e.meta}
         \/ /\ e.meta \notin {NoName, n} /\ ~newNameIsBetter(e.meta, n)
            /\ r.meta = e.meta /\ Useless(r) = Useless(e) \union {n}
  BY <1>1, MetaIs
<1> HIDE DEF r
<1>3. n # NoName /\ e.content # n /\ NoName \notin Useless(e) /\ Useless(e) \subseteq Names
      /\ e.meta \in Names \union {NoName}
  BY <1>1, NamesAre, EntryIs DEF WellFormed, Roles
<1>4. FilesOf(r) = FilesOf(e) \union {n}
  BY <1>2, <1>3, FilesAre
<1>5. AllPlain(r) /\ Roles(r) /\ ~HasMetaInContent(r)
  BY <1>2, <1>4 DEF WellFormed, AllPlain, Roles, HasMetaInContent
<1>6. Distinct(r)
  BY <1>2, <1>3, NameOrder DEF WellFormed, Distinct, BestUsed, Roles
<1>7. BestUsed(r)
  <2>1. ASSUME NEW u \in Useless(r), Ext(u) = "" PROVE r.meta # NoName /\ ~newNameIsBetter(r.meta, u)
    BY <2>1, <1>2, <1>3, NameOrder DEF WellFormed, BestUsed
  <2>2. ASSUME NEW u \in Useless(r), Ext(u) # "" PROVE u \in Useless(e)
    BY <2>2, <1>2 DEF WellFormed, Roles
  <2> QED
    BY <2>1, <2>2, <1>2 DEF WellFormed, BestUsed
<1> QED
  BY <1>2, <1>4, <1>5, <1>6, <1>7 DEF WellFormed, r

LEMMA ContentKeeps ==
  ASSUME NEW e, WellFormed(e), NEW n \in Names, Plain(n),
         HasMetaInContent(e) \/ Ext(n) # "", ~(HasMetaInContent(e) /\ n = e.meta)
  PROVE  LET r == updateEntryContent(e, n).entry IN
         /\ WellFormed(r) /\ FilesOf(r) = FilesOf(e) \union {n}
         /\ Loose(r) => Loose(e) \/ (e.content = NoName /\ Ext(n) = zettel)
<1> DEFINE r == updateEntryContent(e, n).entry
<1>1. e \in Entry /\ Injective(e.useless)
  BY DEF WellFormed, Distinct
<1>2. /\ r \in Entry /\ Injective(r.useless)
      /\ \/ /\ e.content \in {NoName, n}
            /\ r.meta = e.meta /\ r.content = n /\ Useless(r) = Useless(e)
         \/ /\ e.content \notin {NoName, n} /\ Better(e.content, n)
            /\ Ext(n) = zettel /\ Ext(e.content) # zettel => e.meta = NoName
            /\ r.meta = e.meta /\ r.content = n /\ Useless(r) = Useless(e) \union {e.content}
         \/ /\ e.content \notin {NoName, n} /\ ~Better(e.content, n)
            /\ r.meta = e.meta /\ r.content = e.content /\ Useless(r) = Useless(e) \union {n}
         \/ /\ e.content \notin {NoName, n} /\ Ext(n) = zettel /\ Ext(e.content) # zettel
            /\ e.meta # NoName
            /\ r.meta = NoName /\ r.content = n
            /\ Useless(r) = Useless(e) \union {e.content, e.meta}
  BY <1>1, ContentIs
<1> HIDE DEF r
<1>3. /\ n # NoName /\ NoName \notin Useless(e) /\ Useless(e) \subseteq Names
      /\ e.meta \in Names \union {NoName} /\ e.content \in Names \union {NoName}
      /\ HasMetaInContent(e) => e.content # NoName /\ Ext(e.content) = zettel
      /\ zettel # ""
  BY <1>1, NamesAre, EntryIs, NoExt DEF HasMetaInContent, zettel
<1>4. FilesOf(r) = FilesOf(e) \union {n}
  BY <1>2, <1>3, FilesAre
<1>5. n # e.meta
  BY <1>3 DEF WellFormed, Roles
<1>6. Ext(n) = "" => ~Better(e.content, n) /\ e.content \notin {NoName, n}
  BY <1>3 DEF Better
<1>7. AllPlain(r) /\ Roles(r)
  BY <1>2, <1>3, <1>4, <1>6 DEF WellFormed, AllPlain, Roles
<1>8. /\ Distinct(e) /\ BestUsed(e) /\ Roles(e)
      /\ e.content # NoName => e.content \in Names /\ Ext(e.content) # ""
      /\ \A u \in Useless(e) : u \in Names /\ u # e.content /\ u # e.meta
  BY <1>3 DEF WellFormed, Distinct, Roles
<1>9. CASE e.content \in {NoName, n} /\ r.meta = e.meta /\ r.content = n /\ Useless(r) = Useless(e)
  <2>1. n \notin Useless(e)
    BY <1>9, <1>3, <1>6, <1>8 DEF BestUsed
  <2>2. Distinct(r)
    BY <2>1, <1>9, <1>2, <1>3, <1>5, <1>8 DEF Distinct
  <2>3. BestUsed(r)
    BY <1>9, <1>8, <1>3, <1>6 DEF BestUsed, HasMetaInContent
  <2>4. Loose(r) => Loose(e) \/ (e.content = NoName /\ Ext(n) = zettel)
    BY <1>9 DEF Loose, HasMetaInContent
  <2> QED
    BY <2>2, <2>3, <2>4, <1>2, <1>4, <1>7 DEF WellFormed, r
<1>10. CASE /\ e.content \notin {NoName, n} /\ Better(e.content, n)
            /\ Ext(n) = zettel /\ Ext(e.content) # zettel => e.meta = NoName
            /\ r.meta = e.meta /\ r.content = n /\ Useless(r) = Useless(e) \union {e.content}
  <2>1. e.content \in Names /\ Ext(e.content) # "" /\ Ext(n) # ""
    BY <1>10, <1>6, <1>8
  <2>2. n \notin Useless(e)
    BY <2>1, <1>10, <1>8 DEF BestUsed
  <2>3. Distinct(r)
    BY <2>1, <2>2, <1>10, <1>2, <1>3, <1>5, <1>8 DEF Distinct
  <2>4. ASSUME NEW u \in Useless(r), Ext(u) # "" PROVE ~Better(n, u)
    <3>1. CASE u = e.content
      BY <3>1, <2>1, <1>10, BetterOrder
    <3>2. CASE u \in Useless(e)
      <4>1. u \in Names /\ ~Better(e.content, u)
        BY <3>2, <2>4, <1>8 DEF BestUsed
      <4> QED
        BY <4>1, <2>1, <2>4, <1>10, BetterOrder
    <3> QED
      BY <3>1, <3>2, <1>10
  <2>5. HasMetaInContent(e) => HasMetaInContent(r)
    BY <1>10 DEF Better, HasMetaInContent
  <2>6. ASSUME NEW u \in Useless(r), Ext(u) = "", ~HasMetaInContent(r)
        PROVE  r.meta # NoName /\ ~newNameIsBetter(r.meta, u)
    <3>1. u \in Useless(e)
      BY <2>6, <2>1, <1>10
    <3> QED
      BY <3>1, <2>5, <2>6, <1>8, <1>10 DEF BestUsed
  <2>7. BestUsed(r)
    BY <2>4, <2>6, <1>10, <1>3 DEF BestUsed
  <2>8. Loose(r) => Loose(e)
    BY <1>10 DEF Loose, HasMetaInContent
  <2> QED
    BY <2>3, <2>7, <2>8, <1>2, <1>4, <1>7 DEF WellFormed, r
<1>11. CASE /\ e.content \notin {NoName, n} /\ ~Better(e.content, n)
            /\ r.meta = e.meta /\ r.content = e.content /\ Useless(r) = Useless(e) \union {n}
  <2>1. Distinct(r)
    BY <1>11, <1>2, <1>3, <1>5, <1>8 DEF Distinct
  <2>2. BestUsed(r)
    BY <1>11, <1>8 DEF BestUsed, HasMetaInContent
  <2>3. Loose(r) => Loose(e)
    BY <1>11 DEF Loose, HasMetaInContent
  <2> QED
    BY <2>1, <2>2, <2>3, <1>2, <1>4, <1>7 DEF WellFormed, r
<1>12. CASE /\ e.content \notin {NoName, n} /\ Ext(n) = zettel /\ Ext(e.content) # zettel
            /\ e.meta # NoName
            /\ r.meta = NoName /\ r.content = n
            /\ Useless(r) = Useless(e) \union {e.content, e.meta}
  <2>1. Ext(e.content) # "" /\ Ext(e.meta) = "" /\ Ext(n) # ""
    BY <1>12, <1>8, <1>3 DEF Roles
  <2>2. \A u \in Useless(e) : Ext(u) # zettel
    BY <1>12, <1>3, <1>8 DEF BestUsed, Better
  <2>3. Distinct(r)
    BY <2>2, <1>12, <1>2, <1>3, <1>5, <1>8 DEF Distinct
  <2>4. \A u \in Useless(r) : Ext(u) # zettel
    BY <2>1, <2>2, <1>12, <1>3
  <2>5. BestUsed(r)
    BY <2>4, <1>12, <1>3 DEF BestUsed, HasMetaInContent, Better
  <2>6. ~Loose(r)
    BY <1>12 DEF Loose
  <2> QED
    BY <2>3, <2>5, <2>6, <1>2, <1>4, <1>7 DEF WellFormed, r
<1> QED
  BY <1>2, <1>9, <1>10, <1>11, <1>12

LEMMA UpdateKeeps ==
  ASSUME NEW e, WellFormed(e), NEW n \in Names, Plain(n), ~(HasMetaInContent(e) /\ n = e.meta)
  PROVE  LET r == updateEntry(e, n).entry IN
         /\ WellFormed(r) /\ FilesOf(r) = FilesOf(e) \union {n}
         /\ Loose(r) => Loose(e) \/ (e.content = NoName /\ Ext(n) = zettel)
<1>1. updateEntry(e, n) = updateUnpaired(e, n)
  BY PlainIsUnpaired DEF WellFormed
<1>2. CASE ~HasMetaInContent(e) /\ Ext(n) = ""
  <2>1. updateEntry(e, n) = updateEntryMeta(e, n)
    BY <1>1, <1>2 DEF updateUnpaired
  <2> QED
    BY <2>1, <1>2, MetaKeeps DEF Loose
<1>3. CASE ~(~HasMetaInContent(e) /\ Ext(n) = "")
  <2>1. updateEntry(e, n) = updateEntryContent(e, n)
    BY <1>1, <1>3 DEF updateUnpaired
  <2> QED
    BY <2>1, <1>3, ContentKeeps
<1> QED
  BY <1>2, <1>3

(* The useless files are looked at again, with or without making pairs.     *)
Step(e, name, pairs) ==
    IF pairs THEN updateEntry(e, name).entry ELSE updateUnpaired(e, name).entry
Start(e) == [e EXCEPT !.useless = <<>>]
Replayed(e, pairs) == IF pairs THEN replayUpdateUselessFiles(e) ELSE replayUnpaired(e)

IsReplay(f, e, pairs, m) ==
    f = [i \in 0 .. m |-> IF i = 0 THEN Start(e) ELSE Step(f[i - 1], e.useless[i], pairs)]

LEMMA ReplayExists ==
  ASSUME NEW e, NEW pairs, NEW n \in Nat
  PROVE  \E f : IsReplay(f, e, pairs, n)
<1> DEFINE Bad == {m \in Nat : ~ \E f : IsReplay(f, e, pairs, m)}
<1> SUFFICES ASSUME Bad # {} PROVE FALSE
  OBVIOUS
<1>1. PICK m \in Bad : \A k \in Bad : m <= k
  BY LeastNumber
<1>2. m # 0
  <2>1. IsReplay([i \in 0 .. 0 |-> Start(e)], e, pairs, 0)
    BY DEF IsReplay
  <2> QED
    BY <2>1, <1>1
<1>3. PICK g : IsReplay(g, e, pairs, m - 1)
  BY <1>1, <1>2
<1> DEFINE f == [i \in 0 .. m |-> IF i < m THEN g[i] ELSE Step(g[m - 1], e.useless[m], pairs)]
<1>4. \A i \in 0 .. m - 1 : g[i] = IF i = 0 THEN Start(e) ELSE Step(g[i - 1], e.useless[i], pairs)
  BY <1>3 DEF IsReplay
<1>5. \A i \in 0 .. m : f[i] = IF i = 0 THEN Start(e) ELSE Step(f[i - 1], e.useless[i], pairs)
  <2> SUFFICES ASSUME NEW i \in 0 .. m
               PROVE  f[i] = IF i = 0 THEN Start(e) ELSE Step(f[i - 1], e.useless[i], pairs)
    OBVIOUS
  <2>1. CASE i = 0
    <3>1. m \in Nat /\ 0 < m
      BY <1>1, <1>2
    <3>2. f[0] = g[0]
      BY <3>1
    <3>3. 0 \in 0 .. m - 1
      BY <3>1
    <3> HIDE DEF f, Bad
    <3>4. g[0] = Start(e)
      BY <3>3, <1>4
    <3> QED
      BY <2>1, <3>2, <3>4
  <2>2. CASE i # 0
    <3>1. f[i - 1] = g[i - 1]
      BY <2>2
    <3>2. f[i] = Step(g[i - 1], e.useless[i], pairs)
      <4>1. CASE i = m
        BY <4>1, <1>1
      <4>2. CASE i < m
        <5>1. i \in 0 .. m - 1 /\ f[i] = g[i]
          BY <4>2, <1>1
        <5> QED
          BY <5>1, <2>2, <1>4
      <4> QED
        BY <4>1, <4>2, <1>1
    <3> QED
      BY <3>1, <3>2, <2>2
  <2> QED
    BY <2>1, <2>2
<1>6. f = [i \in 0 .. m |-> f[i]]
  OBVIOUS
<1> HIDE DEF f
<1>7. IsReplay(f, e, pairs, m)
  BY <1>5, <1>6 DEF IsReplay
<1> QED
  BY <1>1, <1>7

LEMMA ReplayIs ==
  ASSUME NEW e \in Entry, NEW pairs \in BOOLEAN
  PROVE  \E f : /\ f[0] = Start(e)
                /\ \A i \in 1 .. Len(e.useless) : f[i] = Step(f[i - 1], e.useless[i], pairs)
                /\ f[Len(e.useless)] = Replayed(e, pairs)
<1> DEFINE n == Len(e.useless)
<1>1. n \in Nat
  BY EntryIs
<1> DEFINE f == CHOOSE f : IsReplay(f, e, pairs, n)
<1>2. IsReplay(f, e, pairs, n)
  BY <1>1, ReplayExists
<1>3. Replayed(e, pairs) = f[n]
  <2>1. CASE pairs = TRUE
    BY <2>1 DEF Replayed, replayUpdateUselessFiles, IsReplay, Start, Step
  <2>2. CASE pairs = FALSE
    BY <2>2 DEF Replayed, replayUnpaired, IsReplay, Start, Step
  <2> QED
    BY <2>1, <2>2
<1> HIDE DEF f
<1>4. \A i \in 0 .. n : f[i] = IF i = 0 THEN Start(e) ELSE Step(f[i - 1], e.useless[i], pairs)
  BY <1>2 DEF IsReplay
<1> HIDE DEF n
<1>5. f[0] = Start(e)
  <2>1. 0 \in 0 .. n
    BY <1>1
  <2> QED
    BY <2>1, <1>4
<1>6. \A i \in 1 .. n : f[i] = Step(f[i - 1], e.useless[i], pairs)
  <2> SUFFICES ASSUME NEW i \in 1 .. n PROVE f[i] = Step(f[i - 1], e.useless[i], pairs)
    OBVIOUS
  <2>1. i \in 0 .. n /\ i # 0
    OBVIOUS
  <2> QED
    BY <2>1, <1>4
<1> QED
  BY <1>3, <1>5, <1>6 DEF n

LEMMA StartIs ==
  ASSUME NEW e \in Entry
  PROVE  /\ Start(e) \in Entry /\ Start(e).meta = e.meta /\ Start(e).content = e.content
         /\ Start(e).useless = <<>> /\ Useless(Start(e)) = {}
         /\ FilesOf(Start(e)) = {e.meta, e.content} \ {NoName}
<1>1. <<>> \in Seq(Names)
  OBVIOUS
<1>2. Start(e) \in Entry /\ Start(e).meta = e.meta /\ Start(e).content = e.content
      /\ Start(e).useless = <<>>
  BY <1>1 DEF Entry, Start
<1>3. Useless(Start(e)) = {}
  BY <1>2 DEF Useless, ToSet
<1> QED
  BY <1>2, <1>3, FilesAre

LEMMA ReplayIsEntry ==
  ASSUME NEW e \in Entry, NEW pairs \in BOOLEAN,
         \A d \in Entry, n \in Names :
            Step(d, n, pairs) \in Entry /\ FilesOf(Step(d, n, pairs)) \subseteq FilesOf(d) \union {n}
  PROVE  Replayed(e, pairs) \in Entry /\ FilesOf(Replayed(e, pairs)) \subseteq FilesOf(e)
<1> PICK f : /\ f[0] = Start(e)
             /\ \A i \in 1 .. Len(e.useless) : f[i] = Step(f[i - 1], e.useless[i], pairs)
             /\ f[Len(e.useless)] = Replayed(e, pairs)
  BY ReplayIs
<1> DEFINE Good(i) == f[i] \in Entry /\ FilesOf(f[i]) \subseteq FilesOf(e)
           T == {i \in 0 .. Len(e.useless) : ~Good(i)}
<1>1. Len(e.useless) \in Nat /\ e.useless \in Seq(Names)
  BY EntryIs
<1>2. Good(0)
  BY StartIs, FilesAre
<1>3. ASSUME NEW i \in 1 .. Len(e.useless), Good(i - 1) PROVE Good(i)
  <2>1. e.useless[i] \in Names /\ e.useless[i] \in Useless(e)
    BY <1>1 DEF Useless, ToSet
  <2>2. f[i] = Step(f[i - 1], e.useless[i], pairs)
    OBVIOUS
  <2> QED
    BY <2>1, <2>2, <1>3, FilesAre
<1> HIDE DEF Good
<1>4. T = {}
  <2> SUFFICES ASSUME T # {} PROVE FALSE
    OBVIOUS
  <2>a. T \in SUBSET Nat
    BY <1>1
  <2>1. PICK i \in T : \A j \in T : i <= j
    BY <2>a, LeastNumber
  <2>2. i # 0
    BY <2>1, <1>2
  <2>3. i \in 1 .. Len(e.useless) /\ i - 1 \in 0 .. Len(e.useless) /\ i - 1 \notin T
    BY <2>1, <2>2, <1>1
  <2> QED
    BY <2>1, <2>3, <1>3
<1>5. Good(Len(e.useless))
  BY <1>4, <1>1
<1> QED
  BY <1>5 DEF Good

LEMMA UpdateIsEntry ==
  ASSUME NEW e \in Entry, NEW n \in Names
  PROVE  LET r == updateEntry(e, n).entry IN
         r \in Entry /\ FilesOf(r) \subseteq FilesOf(e) \union {n}
<1> DEFINE mayPair == ~HasMetaInContent(e) /\ Ext(n) # "" /\ e.meta = NoName
<1>1. CASE mayPair /\ nameWithoutExt(n) = e.content
  <2> DEFINE s == [e EXCEPT !.meta = e.content, !.content = NoName]
             d == replayUnpaired(s)
             r == updateEntryContent(d, n).entry
  <2>1. s \in Entry /\ s.meta = e.content /\ s.content = NoName /\ Useless(s) = Useless(e)
    BY DEF Entry, Useless
  <2> HIDE DEF s
  <2>2. d \in Entry /\ FilesOf(d) \subseteq FilesOf(s)
    BY <2>1, UnpairedIsEntry, ReplayIsEntry, Zenon DEF Step, Replayed
  <2> HIDE DEF d
  <2>3. r \in Entry /\ r.content \in {d.content, n} /\ r.meta \in {d.meta, NoName}
        /\ Useless(r) \subseteq Useless(d) \union ({d.meta, d.content, n} \ {NoName})
    BY <2>2, ContentIs, NamesAre
  <2>4. updateEntry(e, n).entry = r
    BY <1>1 DEF updateEntry, s, d
  <2> HIDE DEF r
  <2> QED
    BY <2>1, <2>2, <2>3, <2>4, FilesAre
<1>2. CASE mayPair /\ nameWithoutExt(n) # e.content /\ e.content # NoName /\ nameWithoutExt(e.content) = n
  <2> DEFINE s == [e EXCEPT !.meta = n]
  <2>1. s \in Entry /\ s.meta = n /\ s.content = e.content /\ Useless(s) = Useless(e)
    BY SetMeta
  <2>2. updateEntry(e, n).entry = s
    BY <1>2 DEF updateEntry, Updated
  <2> HIDE DEF s
  <2> QED
    BY <2>1, <2>2, FilesAre
<1>3. CASE /\ ~(mayPair /\ nameWithoutExt(n) = e.content)
           /\ ~(mayPair /\ e.content # NoName /\ nameWithoutExt(e.content) = n)
  <2>1. updateEntry(e, n) = updateUnpaired(e, n)
    BY <1>3 DEF updateEntry
  <2> QED
    BY <2>1, UnpairedIsEntry
<1> QED
  BY <1>1, <1>2, <1>3

LEMMA ReplayedIsEntry ==
  ASSUME NEW e \in Entry
  PROVE  LET r == replayUpdateUselessFiles(e) IN r \in Entry /\ FilesOf(r) \subseteq FilesOf(e)
<1>1. \A d \in Entry, n \in Names :
        Step(d, n, TRUE) \in Entry /\ FilesOf(Step(d, n, TRUE)) \subseteq FilesOf(d) \union {n}
  BY UpdateIsEntry DEF Step
<1> QED
  BY <1>1, ReplayIsEntry DEF Replayed

LEMMA ReplayKeeps ==
  ASSUME NEW e \in Entry, AllPlain(e), Distinct(e), Roles(e)
  PROVE  LET r == replayUpdateUselessFiles(e) IN WellFormed(r) /\ FilesOf(r) = FilesOf(e)
<1> PICK f : /\ f[0] = Start(e)
             /\ \A i \in 1 .. Len(e.useless) : f[i] = Step(f[i - 1], e.useless[i], TRUE)
             /\ f[Len(e.useless)] = Replayed(e, TRUE)
  BY ReplayIs
<1> DEFINE Upto(i) == {e.useless[j] : j \in 1 .. i}
           Good(i) == WellFormed(f[i]) /\ FilesOf(f[i]) = ({e.meta, e.content} \ {NoName}) \union Upto(i)
           T == {i \in 0 .. Len(e.useless) : ~Good(i)}
<1>1. Len(e.useless) \in Nat
  BY EntryIs
<1>2. DOMAIN e.useless = 1 .. Len(e.useless) /\ Useless(e) \subseteq Names
  BY EntryIs
<1>3. Good(0)
  <2> DEFINE s == Start(e)
  <2>1. s \in Entry /\ s.meta = e.meta /\ s.content = e.content
        /\ s.useless = <<>> /\ Useless(s) = {} /\ FilesOf(s) = {e.meta, e.content} \ {NoName}
    BY StartIs
  <2> HIDE DEF s
  <2>2. AllPlain(s)
    BY <2>1, FilesAre DEF AllPlain
  <2>a. Injective(<<>>)
    BY DEF Injective
  <2>3. Distinct(s) /\ Roles(s) /\ BestUsed(s)
    BY <2>1, <2>a DEF Distinct, Roles, BestUsed
  <2>4. Upto(0) = {}
    OBVIOUS
  <2> HIDE DEF Upto
  <2> QED
    BY <2>1, <2>2, <2>3, <2>4 DEF WellFormed, s
<1>4. ASSUME NEW i \in 1 .. Len(e.useless), Good(i - 1) PROVE Good(i)
  <2> DEFINE n == e.useless[i]
             d == f[i - 1]
  <2>1. n \in Useless(e) /\ n \in Names
    BY <1>2 DEF Useless, ToSet
  <2>2. Plain(n) /\ n # e.meta /\ n # e.content
    BY <2>1, FilesAre DEF AllPlain, Distinct
  <2>3. n \notin Upto(i - 1)
    <3> SUFFICES ASSUME NEW j \in 1 .. i - 1, e.useless[j] = e.useless[i] PROVE FALSE
      OBVIOUS
    <3>1. j \in 1 .. Len(e.useless) /\ j # i
      BY <1>1
    <3> QED
      BY <3>1, <1>2 DEF Distinct, Injective
  <2>4. Upto(i) = Upto(i - 1) \union {n}
    BY <1>1
  <2> HIDE DEF Upto
  <2>5. d.meta # n
    <3>1. n \notin FilesOf(d)
      BY <2>2, <2>3, <1>4
    <3>2. n # NoName
      BY <2>1, NamesAre
    <3> QED
      BY <3>1, <3>2, FilesAre
  <2>6. f[i] = updateEntry(d, n).entry
    BY DEF Step
  <2> HIDE DEF d, n
  <2>7. WellFormed(d) /\ FilesOf(d) = ({e.meta, e.content} \ {NoName}) \union Upto(i - 1)
    BY <1>4 DEF d
  <2>8. WellFormed(f[i]) /\ FilesOf(f[i]) = FilesOf(d) \union {n}
    BY <2>1, <2>2, <2>5, <2>6, <2>7, UpdateKeeps
  <2> QED
    BY <2>4, <2>7, <2>8
<1>5. Upto(Len(e.useless)) = Useless(e)
  BY <1>2 DEF Useless, ToSet
<1> HIDE DEF Good
<1>6. T = {}
  <2> SUFFICES ASSUME T # {} PROVE FALSE
    OBVIOUS
  <2>a. T \in SUBSET Nat
    BY <1>1
  <2>1. PICK i \in T : \A j \in T : i <= j
    BY <2>a, LeastNumber
  <2>2. i # 0
    BY <2>1, <1>3
  <2>3. i \in 1 .. Len(e.useless) /\ i - 1 \in 0 .. Len(e.useless) /\ i - 1 \notin T
    BY <2>1, <2>2, <1>1
  <2> QED
    BY <2>1, <2>3, <1>4
<1>7. Good(Len(e.useless))
  BY <1>6, <1>1
<1> HIDE DEF Upto
<1> QED
  BY <1>5, <1>7, FilesAre DEF Good, Replayed

LEMMA DropIsEntry ==
  ASSUME NEW e \in Entry, NEW n \in Names
  PROVE  DropFile(e, n) \in Entry /\ FilesOf(DropFile(e, n)) \subseteq FilesOf(e)
<1>1. CASE n \in Useless(e)
  <2> DEFINE s == RemoveFirst(e.useless, n)
             r == [e EXCEPT !.useless = s]
  <2>1. DropFile(e, n) = r
    BY <1>1 DEF DropFile, Useless, ToSet
  <2>2. s \in Seq(Names) /\ ToSet(s) \subseteq Useless(e)
    BY <1>1, EntryIs, RemoveFirstIs DEF Useless
  <2> HIDE DEF s
  <2>3. r \in Entry /\ r.meta = e.meta /\ r.content = e.content /\ r.useless = s
    BY <2>2 DEF Entry
  <2> HIDE DEF r
  <2>4. Useless(r) = ToSet(s)
    BY <2>3 DEF Useless
  <2> QED
    BY <2>1, <2>2, <2>3, <2>4, FilesAre
<1>2. CASE n \notin Useless(e)
  <2> DEFINE s == [e EXCEPT !.content = NoName]
             t == [e EXCEPT !.meta = NoName]
  <2>1. DropFile(e, n) = IF n = e.content THEN replayUpdateUselessFiles(s)
                         ELSE IF n = e.meta THEN replayUpdateUselessFiles(t) ELSE e
    BY <1>2 DEF DropFile, Useless, ToSet
  <2>2. s \in Entry /\ FilesOf(s) \subseteq FilesOf(e)
    BY SetContent, FilesAre
  <2>3. t \in Entry /\ FilesOf(t) \subseteq FilesOf(e)
    BY SetMeta, FilesAre
  <2> HIDE DEF s, t
  <2> QED
    BY <2>1, <2>2, <2>3, ReplayedIsEntry
<1> QED
  BY <1>1, <1>2

(* The best of the other files takes the place of one that vanishes.        *)
LEMMA DropKeeps ==
  ASSUME NEW e, WellFormed(e), NEW n \in Names
  PROVE  LET r == DropFile(e, n) IN
         /\ WellFormed(r) /\ FilesOf(r) = FilesOf(e) \ {n}
         /\ Loose(r) => Loose(e) \/ (n = e.content /\ Ext(n) = zettel)
<1> DEFINE r == DropFile(e, n)
<1>1. /\ e \in Entry /\ AllPlain(e) /\ Distinct(e) /\ Roles(e) /\ BestUsed(e)
      /\ n # NoName /\ NoName \notin Useless(e) /\ zettel # ""
  BY NamesAre, EntryIs DEF WellFormed, zettel
<1>2. CASE n \in Useless(e)
  <2> DEFINE s == RemoveFirst(e.useless, n)
             d == [e EXCEPT !.useless = s]
  <2>1. r = d
    BY <1>2 DEF DropFile, Useless, ToSet
  <2>2. s \in Seq(Names) /\ ToSet(s) = Useless(e) \ {n} /\ Injective(s)
    BY <1>1, <1>2, EntryIs, RemoveFirstIs DEF Useless, Distinct
  <2> HIDE DEF s
  <2>3. d \in Entry /\ d.meta = e.meta /\ d.content = e.content /\ d.useless = s
    BY <1>1, <2>2 DEF Entry
  <2> HIDE DEF d
  <2>4. Useless(d) = Useless(e) \ {n}
    BY <2>2, <2>3 DEF Useless
  <2>5. FilesOf(d) = FilesOf(e) \ {n}
    BY <1>1, <1>2, <2>3, <2>4, FilesAre DEF Distinct
  <2>6. AllPlain(d) /\ Roles(d)
    BY <1>1, <2>3, <2>5 DEF AllPlain, Roles
  <2>7. Distinct(d) /\ BestUsed(d)
    BY <1>1, <2>2, <2>3, <2>4 DEF Distinct, BestUsed, HasMetaInContent
  <2>8. Loose(d) => Loose(e)
    BY <2>3 DEF Loose, HasMetaInContent
  <2> QED
    BY <2>1, <2>3, <2>5, <2>6, <2>7, <2>8 DEF WellFormed
<1>3. CASE n \notin Useless(e) /\ n = e.content
  <2> DEFINE s == [e EXCEPT !.content = NoName]
  <2>1. r = replayUpdateUselessFiles(s)
    BY <1>3 DEF DropFile, Useless, ToSet
  <2>2. s \in Entry /\ s.meta = e.meta /\ s.content = NoName
        /\ s.useless = e.useless /\ Useless(s) = Useless(e)
    BY <1>1, SetContent
  <2> HIDE DEF s
  <2>3. FilesOf(s) = FilesOf(e) \ {n}
    BY <1>1, <1>3, <2>2, FilesAre DEF Distinct
  <2>4. AllPlain(s) /\ Distinct(s) /\ Roles(s)
    BY <1>1, <2>2, <2>3 DEF AllPlain, Distinct, Roles
  <2>5. WellFormed(r) /\ FilesOf(r) = FilesOf(s)
    BY <2>1, <2>2, <2>4, ReplayKeeps
  <2>6. ASSUME Loose(r), Ext(n) # zettel PROVE FALSE
    <3> HIDE DEF r
    <3>1. r.content # NoName /\ Ext(r.content) = zettel
      BY <2>6, <1>1, NoExt DEF Loose, HasMetaInContent
    <3>2. r.content \in FilesOf(e) /\ r.content # n
      BY <3>1, <2>3, <2>5, FilesAre
    <3>3. r.content # e.meta
      BY <3>1, <1>1 DEF Roles
    <3>4. r.content \in Useless(e)
      BY <3>2, <3>3, <3>1, <1>3, FilesAre
    <3> QED
      BY <3>1, <3>4, <2>6, <1>1, <1>3 DEF BestUsed, Better
  <2> QED
    BY <2>3, <2>5, <2>6, <1>3
<1>4. CASE n \notin Useless(e) /\ n # e.content /\ n = e.meta
  <2> DEFINE s == [e EXCEPT !.meta = NoName]
  <2>1. r = replayUpdateUselessFiles(s)
    BY <1>4 DEF DropFile, Useless, ToSet
  <2>2. s \in Entry /\ s.meta = NoName /\ s.content = e.content
        /\ s.useless = e.useless /\ Useless(s) = Useless(e)
    BY <1>1, SetMeta
  <2> HIDE DEF s
  <2>3. FilesOf(s) = FilesOf(e) \ {n}
    BY <1>1, <1>4, <2>2, FilesAre DEF Distinct
  <2>4. AllPlain(s) /\ Distinct(s) /\ Roles(s)
    BY <1>1, <2>2, <2>3 DEF AllPlain, Distinct, Roles
  <2>5. WellFormed(r) /\ FilesOf(r) = FilesOf(s)
    BY <2>1, <2>2, <2>4, ReplayKeeps
  <2>6. ASSUME Loose(r) PROVE Loose(e)
    <3> HIDE DEF r
    <3>1. r.content # NoName /\ Ext(r.content) = zettel
      BY <2>6, <1>1, NoExt DEF Loose, HasMetaInContent
    <3>2. r.content \in FilesOf(e) /\ r.content # e.meta
      BY <3>1, <2>3, <2>5, <1>4, FilesAre
    <3>3. CASE r.content = e.content
      BY <3>3, <3>1, <1>4, <1>1 DEF Loose, HasMetaInContent
    <3>4. CASE r.content # e.content
      <4>1. r.content \in Useless(e)
        BY <3>2, <3>4, FilesAre
      <4>2. Ext(e.content) = zettel
        BY <4>1, <3>1, <1>1 DEF BestUsed, Better
      <4> QED
        BY <4>2, <1>4, <1>1 DEF Loose, HasMetaInContent
    <3> QED
      BY <3>3, <3>4
  <2> QED
    BY <2>3, <2>5, <2>6
<1>5. CASE n \notin Useless(e) /\ n # e.content /\ n # e.meta
  <2>1. r = e
    BY <1>5 DEF DropFile, Useless, ToSet
  <2>2. n \notin FilesOf(e)
    BY <1>5, FilesAre
  <2> QED
    BY <2>1, <2>2
<1> QED
  BY <1>2, <1>3, <1>4, <1>5

LEMMA NewEntryIs == WellFormed(NewEntry) /\ FilesOf(NewEntry) = {} /\ NewEntry \in Entry
<1>1. NewEntry \in Entry /\ NewEntry.meta = NoName /\ NewEntry.content = NoName
      /\ NewEntry.useless = <<>>
  BY DEF NewEntry, Entry
<1>2. Useless(NewEntry) = {} /\ Injective(<<>>)
  BY <1>1 DEF Useless, ToSet, Injective
<1>3. FilesOf(NewEntry) = {}
  BY <1>1, <1>2, FilesAre
<1> QED
  BY <1>1, <1>2, <1>3 DEF WellFormed, AllPlain, Distinct, Roles, BestUsed

LEMMA NoFiles ==
  ASSUME NEW e, WellFormed(e), Unnamed(e)
  PROVE  FilesOf(e) = {}
<1>1. Useless(e) = {}
  BY NoExt DEF WellFormed, BestUsed, Unnamed, HasMetaInContent, zettel
<1> QED
  BY <1>1, FilesAre DEF Unnamed

-----------------------------------------------------------------------------
(* All entries *)

LEMMA WithDomain ==
  ASSUME NEW f, NEW z, NEW e
  PROVE  DOMAIN With(f, z, e) = DOMAIN f \union {z}
  BY DEF With

LEMMA WithIs ==
  ASSUME NEW f, NEW z, NEW e, NEW y
  PROVE  EntryOf(With(f, z, e), y) = IF y = z THEN e ELSE EntryOf(f, y)
  BY DEF With, EntryOf

LEMMA WithoutDomain ==
  ASSUME NEW f, NEW z
  PROVE  DOMAIN Without(f, z) = DOMAIN f \ {z}
  BY DEF Without

LEMMA WithoutIs ==
  ASSUME NEW f, NEW z, NEW y
  PROVE  EntryOf(Without(f, z), y) = IF y = z THEN NewEntry ELSE EntryOf(f, y)
  BY DEF Without, EntryOf

LEMMA EntryOfIs ==
  ASSUME NEW f, IsEntries(f), NEW z
  PROVE  EntryOf(f, z) \in Entry
  BY NewEntryIs DEF EntryOf, IsEntries

LEMMA WithIsEntries ==
  ASSUME NEW f, IsEntries(f), NEW z \in Zids, NEW e \in Entry
  PROVE  IsEntries(With(f, z, e))
  BY DEF With, IsEntries

LEMMA WithoutIsEntries ==
  ASSUME NEW f, IsEntries(f), NEW z
  PROVE  IsEntries(Without(f, z))
  BY DEF Without, IsEntries

LEMMA ZidOfIs ==
  ASSUME NEW n \in Names
  PROVE  (ZidOf[n] \in Zids \/ ZidOf[n] = NoZid) /\ NoZid \notin Zids
  BY ZidsAssumption

(* The event that a file is there, for any entry, and for a well-formed one *)
LEMMA UpdateEventIs ==
  ASSUME NEW f, IsEntries(f), NEW n \in Names
  PROVE  LET g == onUpdateFileEvent(f, n) IN
         /\ IsEntries(g)
         /\ \A z \in Zids : z # ZidOf[n] =>
                EntryOf(g, z) = EntryOf(f, z) /\ (z \in DOMAIN g <=> z \in DOMAIN f)
         /\ ZidOf[n] \in Zids =>
                /\ DOMAIN g = DOMAIN f \union {ZidOf[n]}
                /\ EntryOf(g, ZidOf[n]) = updateEntry(EntryOf(f, ZidOf[n]), n).entry
                /\ FilesOf(EntryOf(g, ZidOf[n])) \subseteq FilesOf(EntryOf(f, ZidOf[n])) \union {n}
<1> DEFINE z == ZidOf[n]
           e == EntryOf(f, z)
           r == updateEntry(e, n).entry
           g == onUpdateFileEvent(f, n)
<1>1. CASE z = NoZid
  <2>1. g = f
    BY <1>1 DEF onUpdateFileEvent
  <2> QED
    BY <2>1, <1>1, ZidOfIs
<1>2. CASE z \in Zids
  <2>1. r \in Entry /\ FilesOf(r) \subseteq FilesOf(e) \union {n}
    BY EntryOfIs, UpdateIsEntry
  <2>2. g = With(f, z, r)
    BY <1>2, ZidOfIs DEF onUpdateFileEvent
  <2> HIDE DEF r
  <2>3. IsEntries(g)
    BY <2>1, <2>2, <1>2, WithIsEntries
  <2>4. DOMAIN g = DOMAIN f \union {z} /\ EntryOf(g, z) = r
        /\ \A y : y # z => EntryOf(g, y) = EntryOf(f, y)
    <3> HIDE DEF g, z
    <3>1. DOMAIN g = DOMAIN f \union {z}
      BY <2>2, WithDomain
    <3>2. EntryOf(g, z) = r
      BY <2>2, WithIs
    <3>3. \A y : y # z => EntryOf(g, y) = EntryOf(f, y)
      BY <2>2, WithIs
    <3> QED
      BY <3>1, <3>2, <3>3
  <2> QED
    BY <2>1, <2>3, <2>4, <1>2 DEF r
<1> QED
  BY <1>1, <1>2, ZidOfIs

LEMMA DeleteEventIs ==
  ASSUME NEW f, IsEntries(f), NEW n \in Names
  PROVE  LET g == onDeleteFileEvent(f, n) IN
         /\ IsEntries(g) /\ DOMAIN g \subseteq DOMAIN f
         /\ \A z \in Zids : z # ZidOf[n] =>
                EntryOf(g, z) = EntryOf(f, z) /\ (z \in DOMAIN g <=> z \in DOMAIN f)
         /\ FilesOf(EntryOf(g, ZidOf[n])) \subseteq FilesOf(EntryOf(f, ZidOf[n]))
         /\ WellFormed(EntryOf(f, ZidOf[n])) =>
                LET e == EntryOf(f, ZidOf[n])
                    r == EntryOf(g, ZidOf[n])
                IN  /\ WellFormed(r) /\ FilesOf(r) = FilesOf(e) \ {n}
                    /\ Loose(r) => Loose(e) \/ (n = e.content /\ Ext(n) = zettel)
                    /\ ZidOf[n] \in DOMAIN g => FilesOf(r) # {}
<1> DEFINE z == ZidOf[n]
           e == EntryOf(f, z)
           d == DropFile(e, n)
           g == onDeleteFileEvent(f, n)
<1>1. CASE z \notin DOMAIN f
  <2>1. g = f /\ e = NewEntry
    BY <1>1 DEF onDeleteFileEvent, EntryOf
  <2> QED
    BY <2>1, <1>1, NewEntryIs
<1>2. CASE z \in DOMAIN f
  <2> DEFINE wasUseless == n \in Useless(e)
  <2>1. e = f[z] /\ e \in Entry /\ z \in Zids
    BY <1>2 DEF EntryOf, IsEntries
  <2>2. d \in Entry /\ FilesOf(d) \subseteq FilesOf(e)
    BY <2>1, DropIsEntry
  <2>3. g = IF ~wasUseless /\ d.content = NoName /\ d.meta = NoName
            THEN Without(f, z) ELSE With(f, z, d)
    BY <1>2, <2>1 DEF onDeleteFileEvent, Useless, ToSet
  <2>4. WellFormed(e) => /\ WellFormed(d) /\ FilesOf(d) = FilesOf(e) \ {n}
                         /\ Loose(d) => Loose(e) \/ (n = e.content /\ Ext(n) = zettel)
    BY DropKeeps
  <2> HIDE DEF d, e
  <2>5. CASE ~wasUseless /\ d.content = NoName /\ d.meta = NoName
    <3>1. g = Without(f, z)
      BY <2>3, <2>5
    <3> HIDE DEF g
    <3>2. IsEntries(g) /\ DOMAIN g = DOMAIN f \ {z} /\ EntryOf(g, z) = NewEntry
          /\ \A y : y # z => EntryOf(g, y) = EntryOf(f, y)
      BY <3>1, WithoutDomain, WithoutIs, WithoutIsEntries
    <3>3. WellFormed(e) => FilesOf(e) \ {n} = {}
      BY <2>4, <2>5, NoFiles DEF Unnamed
    <3> QED
      BY <3>2, <3>3, NewEntryIs DEF Loose, NewEntry, g, e
  <2>6. CASE ~(~wasUseless /\ d.content = NoName /\ d.meta = NoName)
    <3>1. g = With(f, z, d)
      BY <2>3, <2>6
    <3> HIDE DEF g
    <3>a. DOMAIN g = DOMAIN f \union {z} /\ EntryOf(g, z) = d
          /\ \A y : y # z => EntryOf(g, y) = EntryOf(f, y)
      <4> HIDE DEF z
      <4>1. DOMAIN g = DOMAIN f \union {z}
        BY <3>1, WithDomain
      <4>2. EntryOf(g, z) = d
        BY <3>1, WithIs
      <4>3. \A y : y # z => EntryOf(g, y) = EntryOf(f, y)
        BY <3>1, WithIs
      <4> QED
        BY <4>1, <4>2, <4>3
    <3>2. IsEntries(g)
      BY <3>1, <2>1, <2>2, WithIsEntries
    <3>3. ASSUME WellFormed(e) PROVE FilesOf(d) # {}
      <4>1. CASE d.content = NoName /\ d.meta = NoName
        <5>1. n \in Useless(e) /\ n \in Names
          BY <2>6, <4>1
        <5>2. e.content # NoName \/ e.meta # NoName
          BY <5>1, <3>3, NoExt DEF WellFormed, BestUsed, HasMetaInContent, zettel
        <5>3. PICK m \in {e.content, e.meta} : m # NoName
          BY <5>2
        <5>4. m \in FilesOf(e) /\ m # n
          BY <5>1, <5>3, <3>3, FilesAre DEF WellFormed, Distinct
        <5> QED
          BY <5>4, <2>4, <3>3
      <4>2. CASE ~(d.content = NoName /\ d.meta = NoName)
        BY <4>2, FilesAre
      <4> QED
        BY <4>1, <4>2
    <3> QED
      BY <3>a, <3>2, <3>3, <2>2, <2>4, <1>2 DEF g, e
  <2> QED
    BY <2>5, <2>6
<1> QED
  BY <1>1, <1>2

-----------------------------------------------------------------------------
(* The files of a zettel that is stored *)

LEMMA BaseIs ==
  ASSUME NEW z \in Zids, NEW n \in Names \union {NoName}, n # NoName => ZidOf[n] = z
  PROVE  LET base == calcBaseName(n, ZidName[z]) IN
         /\ IsNameOf(z, base)
         /\ \A kind \in Kinds : /\ IsNameOf(z, Append(base, kind.ext))
                               /\ IsNameOf(z, Append(base, kind.extWithMeta))
<1>1. CASE n = NoName
  <2> DEFINE m == ZidName[z]
  <2>1. m \in Names /\ ZidOf[m] = z /\ Len(m) = 1
    BY FilesAssumption DEF IsNameOf
  <2>2. calcBaseName(n, ZidName[z]) = m /\ calcBaseName(m, m) = m
    BY <1>1, <2>1 DEF calcBaseName
  <2> HIDE DEF m
  <2> QED
    BY <2>1, <2>2, FilesAssumption
<1>2. CASE n # NoName
  <2>1. calcBaseName(n, ZidName[z]) = calcBaseName(n, n)
    BY <1>2 DEF calcBaseName
  <2> QED
    BY <1>2, <2>1, FilesAssumption
<1> QED
  BY <1>1, <1>2

(* A name with an extension more is plain only if it had none.              *)
LEMMA LongerName ==
  ASSUME NEW n \in Names, NEW x \in STRING, Append(n, x) \in Names, Plain(Append(n, x))
  PROVE  Ext(Append(n, x)) # "" /\ Ext(Append(n, x)) = x
<1> DEFINE m == Append(n, x)
<1>1. n \in Seq(STRING) /\ n # <<>>
  BY NamesAre DEF NoName
<1>2. Len(m) = Len(n) + 1 /\ m[Len(n) + 1] = x
  BY <1>1, AppendProperties
<1>a. Len(n) \in Nat /\ Len(n) # 0
  BY <1>1, EmptySeq
<1> HIDE DEF m
<1>3. Len(m) # 1 /\ ~(Len(m) <= 1)
  BY <1>2, <1>a
<1>4. Ext(m) = x
  BY <1>2, <1>3 DEF Ext
<1>5. Ext(m) # ""
  BY <1>3 DEF Plain, m
<1> QED
  BY <1>4, <1>5 DEF m

OfZettel(e, z) == \A n \in FilesOf(e) : ZidOf[n] = z

LEMMA SetupIsEntry ==
  ASSUME NEW z \in Zids, NEW kind \in Kinds, NEW e \in Entry, OfZettel(e, z)
  PROVE  LET r == SetupFromMetaContent(e, kind, ZidName[z]) IN
         r \in Entry /\ OfZettel(r, z) /\ r.useless = e.useless /\ ~Unnamed(r)
<1> DEFINE base == calcBaseName(e.meta, ZidName[z])
           one == Append(base, IF e.meta = NoName THEN kind.ext ELSE kind.extWithMeta)
           two == IF kind.full THEN Append(base, kind.ext) ELSE NoName
           r == SetupFromMetaContent(e, kind, ZidName[z])
           Named2(n) == n \in Names /\ ZidOf[n] = z
<1>1. /\ e.meta \in Names \union {NoName} /\ e.content \in Names \union {NoName}
      /\ e.meta # NoName => ZidOf[e.meta] = z
      /\ e.content # NoName => ZidOf[e.content] = z
  BY EntryIs, FilesAre DEF OfZettel
<1>2. \A n \in Names \union {NoName} : (n # NoName => ZidOf[n] = z) =>
        /\ Named2(calcBaseName(n, ZidName[z]))
        /\ Named2(Append(calcBaseName(n, ZidName[z]), kind.ext))
        /\ Named2(Append(calcBaseName(n, ZidName[z]), kind.extWithMeta))
  BY BaseIs DEF IsNameOf
<1>3. Named2(one) /\ (two # NoName => Named2(two))
  BY <1>1, <1>2
<1>4. \E m, c : /\ r = [e EXCEPT !.meta = m, !.content = c]
                /\ m \in {e.meta, NoName} \/ Named2(m)
                /\ c \in {e.content, NoName} \/ Named2(c)
                /\ m # NoName \/ c # NoName
  <2>1. CASE e.content # NoName /\ (HasMetaInContent(e) \/ e.meta # NoName)
    <3>1. r = e /\ e = [e EXCEPT !.meta = e.meta, !.content = e.content]
      BY <2>1 DEF SetupFromMetaContent, Entry
    <3> QED
      BY <3>1, <2>1
  <2>2. CASE e.content # NoName /\ ~(HasMetaInContent(e) \/ e.meta # NoName)
    <3> DEFINE m == calcBaseName(e.content, ZidName[z])
    <3>1. r = [e EXCEPT !.meta = m, !.content = e.content]
      BY <2>2 DEF SetupFromMetaContent, Entry
    <3>2. Named2(m)
      BY <1>1, <1>2
    <3> QED
      BY <3>1, <3>2, <2>2
  <2>3. CASE e.content = NoName /\ kind.ext = zettel
    <3>1. r = [e EXCEPT !.meta = e.meta, !.content = one]
      BY <2>3 DEF SetupFromMetaContent, Entry
    <3>2. one # NoName
      BY <1>3, NamesAre
    <3> QED
      BY <3>1, <3>2, <1>3
  <2>4. CASE e.content = NoName /\ kind.ext # zettel /\ e.meta # NoName
    <3>1. r = [e EXCEPT !.meta = e.meta, !.content = two]
      BY <2>4 DEF SetupFromMetaContent, Entry
    <3> HIDE DEF two, r
    <3> QED
      BY <3>1, <1>3, <2>4
  <2>5. CASE e.content = NoName /\ kind.ext # zettel /\ e.meta = NoName
    <3> DEFINE m == calcBaseName(two, ZidName[z])
    <3>1. r = [e EXCEPT !.meta = m, !.content = two]
      BY <2>5 DEF SetupFromMetaContent, Entry
    <3> HIDE DEF two, r
    <3>2. Named2(m)
      BY <1>2, <1>3
    <3>3. m # NoName
      BY <3>2, NamesAre
    <3> HIDE DEF m
    <3> QED
      BY <3>1, <3>2, <3>3, <1>3
  <2> QED
    BY <2>1, <2>2, <2>3, <2>4, <2>5
<1> HIDE DEF r
<1>5. PICK m, c : /\ r = [e EXCEPT !.meta = m, !.content = c]
                  /\ m \in {e.meta, NoName} \/ Named2(m)
                  /\ c \in {e.content, NoName} \/ Named2(c)
                  /\ m # NoName \/ c # NoName
  BY <1>4
<1>6. m \in Names \union {NoName} /\ c \in Names \union {NoName}
  BY <1>1, <1>5
<1>7. r \in Entry /\ r.meta = m /\ r.content = c /\ r.useless = e.useless
  BY <1>5, <1>6 DEF Entry
<1>8. Useless(r) = Useless(e) /\ ~Unnamed(r)
  BY <1>5, <1>7 DEF Useless, Unnamed
<1>9. OfZettel(r, z)
  BY <1>1, <1>5, <1>7, <1>8, FilesAre DEF OfZettel
<1> QED
  BY <1>7, <1>8, <1>9 DEF r

LEMMA SetupKeeps ==
  ASSUME NEW z \in Zids, NEW kind \in Kinds, NEW e, WellFormed(e), OfZettel(e, z),
         AllPlain(SetupFromMetaContent(e, kind, ZidName[z]))
  PROVE  WellFormed(SetupFromMetaContent(e, kind, ZidName[z]))
<1> DEFINE base == calcBaseName(e.meta, ZidName[z])
           one == Append(base, IF e.meta = NoName THEN kind.ext ELSE kind.extWithMeta)
           two == IF kind.full THEN Append(base, kind.ext) ELSE NoName
           r == SetupFromMetaContent(e, kind, ZidName[z])
<1>1. /\ e \in Entry /\ AllPlain(e) /\ Distinct(e) /\ Roles(e) /\ BestUsed(e) /\ zettel # ""
      /\ NoName \notin Useless(e)
  BY EntryIs DEF WellFormed, zettel
<1>2. r \in Entry /\ r.useless = e.useless /\ Useless(r) = Useless(e)
  BY <1>1, SetupIsEntry DEF Useless
<1>3. /\ e.meta \in Names \union {NoName} /\ e.content \in Names \union {NoName}
      /\ e.meta # NoName => ZidOf[e.meta] = z
      /\ e.content # NoName => ZidOf[e.content] = z
      /\ kind.ext \in STRING /\ kind.extWithMeta \in STRING
  BY <1>1, EntryIs, FilesAre, KindsAssumption DEF OfZettel
<1>4. base \in Names /\ one \in Names /\ (two # NoName => two \in Names)
  BY <1>3, BaseIs DEF IsNameOf
<1>5. ZidName[z] \in Names /\ Len(ZidName[z]) = 1
  BY FilesAssumption DEF IsNameOf
<1>6. ASSUME e.content = NoName PROVE \A u \in Useless(e) : Ext(u) = "" /\ e.meta # NoName
  BY <1>6, <1>1, NoExt DEF BestUsed, HasMetaInContent
<1>7. CASE e.content # NoName /\ (HasMetaInContent(e) \/ e.meta # NoName)
  <2>1. r = e
    BY <1>7 DEF SetupFromMetaContent
  <2> QED
    BY <2>1
<1>8. CASE e.content # NoName /\ ~(HasMetaInContent(e) \/ e.meta # NoName)
  <2> DEFINE m == calcBaseName(e.content, ZidName[z])
  <2>1. r = [e EXCEPT !.meta = m]
    BY <1>8 DEF SetupFromMetaContent
  <2>2. e.content \in Names /\ Plain(e.content) /\ Ext(e.content) # ""
    BY <1>1, <1>3, <1>8, FilesAre DEF AllPlain, Roles
  <2>3. Len(e.content) # 1
    BY <2>2, NoExtension
  <2>4. m = nameWithoutExt(e.content)
    BY <1>8, <2>3 DEF calcBaseName
  <2>5. Ext(m) = "" /\ m # NoName
    BY <2>2, <2>4, PlainBase
  <2> HIDE DEF m
  <2>6. r.meta = m /\ r.content = e.content
    BY <1>1, <2>1 DEF Entry
  <2> HIDE DEF r
  <2>7. \A u \in Useless(e) : Ext(u) # ""
    BY <1>1, <1>8 DEF BestUsed
  <2>8. Roles(r) /\ Distinct(r) /\ BestUsed(r)
    BY <1>1, <1>2, <2>2, <2>5, <2>6, <2>7 DEF Roles, Distinct, BestUsed
  <2> QED
    BY <1>2, <2>8 DEF WellFormed, r
<1>9. CASE e.content = NoName /\ (kind.ext = zettel \/ e.meta # NoName)
  <2> DEFINE x == IF kind.ext = zettel /\ e.meta # NoName THEN kind.extWithMeta ELSE kind.ext
             c == IF kind.ext = zettel THEN one ELSE two
  <2>1. r = [e EXCEPT !.content = c]
    BY <1>9 DEF SetupFromMetaContent
  <2>2. c = NoName \/ c = Append(base, x)
    OBVIOUS
  <2>3. c \in Names \union {NoName} /\ x \in STRING
    BY <1>3, <1>4
  <2> HIDE DEF c
  <2>4. r.meta = e.meta /\ r.content = c
    BY <1>1, <2>1, <2>3 DEF Entry
  <2> HIDE DEF r
  <2>5. c # NoName => Plain(c)
    BY <2>4, FilesAre DEF AllPlain, r
  <2>6. c # NoName => Ext(c) # ""
    BY <1>4, <2>2, <2>3, <2>5, LongerName
  <2>7. Roles(r)
    BY <1>1, <2>4, <2>6 DEF Roles
  <2>8. Distinct(r)
    BY <1>1, <1>2, <1>6, <1>9, <2>4, <2>6 DEF Distinct, Roles
  <2>9. BestUsed(r)
    BY <1>1, <1>2, <1>6, <1>9, <2>4, NoExt DEF BestUsed, HasMetaInContent
  <2> QED
    BY <1>2, <2>7, <2>8, <2>9 DEF WellFormed, r
<1>10. CASE e.content = NoName /\ kind.ext # zettel /\ e.meta = NoName
  <2> DEFINE m == calcBaseName(two, ZidName[z])
  <2>1. r = [e EXCEPT !.content = two, !.meta = m]
    BY <1>10 DEF SetupFromMetaContent
  <2>2. base = ZidName[z]
    BY <1>10 DEF calcBaseName
  <2>3. two = NoName \/ two = Append(base, kind.ext)
    OBVIOUS
  <2>4. m \in Names
    <3>1. two \in Names \union {NoName} /\ (two # NoName => ZidOf[two] = z)
      BY <1>3, BaseIs DEF IsNameOf
    <3> HIDE DEF two
    <3> QED
      BY <3>1, BaseIs DEF IsNameOf
  <2> HIDE DEF two
  <2>5. r.meta = m /\ r.content = two
    <3>1. two \in Names \union {NoName}
      BY <1>4
    <3> HIDE DEF m
    <3> QED
      BY <1>1, <2>1, <2>4, <3>1 DEF Entry
  <2>6. two # NoName => Plain(two)
    <3> HIDE DEF r
    <3> QED
      BY <2>5, FilesAre DEF AllPlain, r
  <2>7. two # NoName => Ext(two) # ""
    BY <1>3, <1>4, <2>3, <2>6, LongerName
  <2>8. Ext(m) = "" /\ m # NoName
    <3>1. CASE two = NoName
      <4>1. m = ZidName[z]
        BY <3>1 DEF calcBaseName
      <4> QED
        BY <4>1, <1>5, NoExtension
    <3>2. CASE two # NoName
      <4>1. Len(two) # 1
        BY <3>2, <2>7, NoExtension
      <4>2. m = nameWithoutExt(two)
        BY <3>2, <4>1 DEF calcBaseName
      <4> QED
        BY <4>2, <3>2, <2>6, <2>7, <1>4, PlainBase
    <3> QED
      BY <3>1, <3>2
  <2>9. Useless(e) = {}
    BY <1>6, <1>10
  <2> HIDE DEF r, m
  <2>10. Roles(r)
    BY <2>5, <2>7, <2>8 DEF Roles
  <2>11. r.meta # r.content
    BY <2>5, <2>7, <2>8
  <2>12. Distinct(r)
    BY <1>1, <1>2, <2>9, <2>11 DEF Distinct
  <2>13. BestUsed(r)
    BY <1>2, <2>9 DEF BestUsed
  <2> QED
    BY <1>2, <2>10, <2>12, <2>13 DEF WellFormed, r
<1> QED
  BY <1>7, <1>8, <1>9, <1>10

-----------------------------------------------------------------------------
(* The names of the files in alphabetical order: each once.                 *)
LEMMA SortedLists ==
  ASSUME NEW S \in SUBSET Names, IsFiniteSet(S)
  PROVE  Sorted(S) \in Seq(Names) /\ ToSet(Sorted(S)) = S
<1> DEFINE n == Cardinality(S)
           Smaller(v) == {u \in S : Rank[u] < Rank[v]}
           Place(v) == Cardinality(Smaller(v)) + 1
           p == [v \in S |-> Place(v)]
<1>1. n \in Nat
  BY FS_CardinalityType
<1>2. ASSUME NEW A \in SUBSET S, NEW B \in SUBSET S, A \subseteq B, A # B
      PROVE  Cardinality(A) \in Nat /\ Cardinality(B) \in Nat /\ Cardinality(A) < Cardinality(B)
  <2>1. IsFiniteSet(A) /\ IsFiniteSet(B) /\ Cardinality(A) \in Nat /\ Cardinality(B) \in Nat
    BY FS_Subset, FS_CardinalityType
  <2>2. Cardinality(A) <= Cardinality(B) /\ Cardinality(B) # Cardinality(A)
    BY <1>2, <2>1, FS_Subset
  <2> QED
    BY <2>1, <2>2
<1>3. /\ \A v \in S : Rank[v] \in Nat
      /\ \A u, v \in S : Rank[u] = Rank[v] => u = v
  BY NamesAssumption
<1>4. \A v \in S : Smaller(v) \subseteq S /\ v \notin Smaller(v)
  BY <1>3
<1>5. \A u, v \in S : Rank[u] < Rank[v] => Smaller(u) \subseteq Smaller(v) /\ u \in Smaller(v)
  BY <1>3
<1>6. \A u, v \in S : u # v => Rank[u] < Rank[v] \/ Rank[v] < Rank[u]
  BY <1>3
<1>7. Sorted(S) = [i \in 1 .. n |-> CHOOSE v \in S : Place(v) = i]
  BY DEF Sorted
<1> HIDE DEF n, Smaller
<1>8. ASSUME NEW v \in S PROVE Place(v) \in 1 .. n
  <2>1. Cardinality(Smaller(v)) \in Nat /\ Cardinality(Smaller(v)) < n
    BY <1>2, <1>4 DEF n
  <2> QED
    BY <1>1, <2>1
<1>9. ASSUME NEW u \in S, NEW v \in S, u # v PROVE Place(u) # Place(v)
  <2>1. ASSUME NEW x \in S, NEW y \in S, Rank[x] < Rank[y] PROVE Place(x) < Place(y)
    <3>1. /\ Cardinality(Smaller(x)) \in Nat /\ Cardinality(Smaller(y)) \in Nat
          /\ Cardinality(Smaller(x)) < Cardinality(Smaller(y))
      BY <1>2, <1>4, <1>5, <2>1
    <3> QED
      BY <3>1
  <2> HIDE DEF Place
  <2>2. Place(u) < Place(v) \/ Place(v) < Place(u)
    BY <1>6, <1>9, <2>1
  <2>3. Place(u) \in Nat /\ Place(v) \in Nat
    BY <1>1, <1>8
  <2> QED
    BY <2>2, <2>3
<1> HIDE DEF Place
<1>10. p \in Injection(S, 1 .. n)
  BY <1>8, <1>9 DEF Injection, IsInjective
<1>11. p \in Surjection(S, 1 .. n)
  <2>1. IsFiniteSet(1 .. n) /\ Cardinality(1 .. n) = n
    <3>1. IsFiniteSet(1 .. n) /\ Cardinality(1 .. n) = IF 1 > n THEN 0 ELSE n - 1 + 1
      BY <1>1, FS_Interval
    <3> QED
      BY <1>1, <3>1
  <2> HIDE DEF p
  <2> QED
    BY <1>10, <2>1, FS_Injection DEF n
<1>12. \A i \in 1 .. n : \E v \in S : Place(v) = i
  BY <1>11 DEF Surjection
<1> DEFINE r == Sorted(S)
<1>13. \A i \in 1 .. n : r[i] \in S /\ Place(r[i]) = i
  BY <1>7, <1>12
<1>14. r \in Seq(Names) /\ DOMAIN r = 1 .. n
  BY <1>1, <1>7, <1>13
<1> HIDE DEF r
<1>15. \A v \in S : r[Place(v)] = v /\ Place(v) \in DOMAIN r
  BY <1>8, <1>9, <1>13, <1>14
<1>16. ToSet(r) = S
  BY <1>13, <1>14, <1>15 DEF ToSet
<1> QED
  BY <1>14, <1>16 DEF r

-----------------------------------------------------------------------------
(* Events: what is appended, and what is left when the first is taken.      *)
LEMMA EventIs ==
  ASSUME NEW evs \in Seq(Events), NEW i \in DOMAIN evs
  PROVE  /\ evs[i] \in Events
         /\ evs[i].name \in Names => evs[i].op \in {"Write", "Remove"}
         /\ evs[i].name \notin Names => evs[i].op \in {"DirRename", "DirCreate"}
<1>1. evs[i] \in Events
  BY ElementOfSeq
<1>2. NoName \notin Names
  BY NamesAssumption
<1> QED
  BY <1>1, <1>2 DEF Events

LEMMA AppendEvent ==
  ASSUME NEW evs \in Seq(Events), NEW ev \in Events
  PROVE  /\ Append(evs, ev) \in Seq(Events) /\ Len(evs) \in Nat
         /\ DOMAIN evs = 1 .. Len(evs) /\ DOMAIN Append(evs, ev) = 1 .. Len(evs) + 1
         /\ \A i \in 1 .. Len(evs) : Append(evs, ev)[i] = evs[i]
         /\ Append(evs, ev)[Len(evs) + 1] = ev
  OBVIOUS

LEMMA TailEvents ==
  ASSUME NEW evs \in Seq(Events), evs # <<>>
  PROVE  /\ Tail(evs) \in Seq(Events) /\ Len(evs) \in Nat \ {0}
         /\ DOMAIN evs = 1 .. Len(evs) /\ DOMAIN Tail(evs) = 1 .. Len(evs) - 1
         /\ \A i \in 1 .. Len(evs) - 1 : Tail(evs)[i] = evs[i + 1]
         /\ Head(evs) = evs[1] /\ Head(evs) \in Events
  OBVIOUS

LEMMA PendingAppend ==
  ASSUME NEW evs \in Seq(Events), NEW ev \in Events
  PROVE  /\ \A n : Pending(Append(evs, ev), n) <=> Pending(evs, n) \/ ev.name = n
         /\ \A op : Awaited(Append(evs, ev), op) <=> Awaited(evs, op) \/ ev.op = op
<1> DEFINE a == Append(evs, ev)
<1>1. /\ Len(evs) \in Nat
      /\ DOMAIN evs = 1 .. Len(evs) /\ DOMAIN a = 1 .. Len(evs) + 1
      /\ \A i \in 1 .. Len(evs) : a[i] = evs[i]
      /\ a[Len(evs) + 1] = ev
  BY AppendEvent
<1> HIDE DEF a
<1>2. ASSUME NEW n PROVE Pending(a, n) <=> Pending(evs, n) \/ ev.name = n
  BY <1>1 DEF Pending
<1>3. ASSUME NEW op PROVE Awaited(a, op) <=> Awaited(evs, op) \/ ev.op = op
  BY <1>1 DEF Awaited
<1> QED
  BY <1>2, <1>3 DEF a

LEMMA PendingTail ==
  ASSUME NEW evs \in Seq(Events), evs # <<>>
  PROVE  /\ \A n : Pending(evs, n) <=> Head(evs).name = n \/ Pending(Tail(evs), n)
         /\ \A op : Awaited(evs, op) <=> Head(evs).op = op \/ Awaited(Tail(evs), op)
<1> DEFINE t == Tail(evs)
<1>1. /\ Len(evs) \in Nat \ {0}
      /\ DOMAIN evs = 1 .. Len(evs) /\ DOMAIN t = 1 .. Len(evs) - 1
      /\ \A i \in 1 .. Len(evs) - 1 : t[i] = evs[i + 1]
      /\ Head(evs) = evs[1]
  BY TailEvents
<1> HIDE DEF t
<1>2. \A i \in DOMAIN evs : i = 1 \/ (i - 1 \in DOMAIN t /\ evs[i] = t[i - 1])
  BY <1>1
<1>3. 1 \in DOMAIN evs /\ \A i \in DOMAIN t : i + 1 \in DOMAIN evs /\ t[i] = evs[i + 1]
  BY <1>1
<1>4. ASSUME NEW n PROVE Pending(evs, n) <=> Head(evs).name = n \/ Pending(t, n)
  BY <1>1, <1>2, <1>3 DEF Pending
<1>5. ASSUME NEW op PROVE Awaited(evs, op) <=> Head(evs).op = op \/ Awaited(t, op)
  BY <1>1, <1>2, <1>3 DEF Awaited
<1> QED
  BY <1>4, <1>5 DEF t

(* A file that is not there, though there is an event of it, was removed    *)
(* after it was written last.                                               *)
LEMMA LastIsRemove ==
  ASSUME NEW evs \in Seq(Events), NEW files, LastTells(evs, files), NEW n \in Names,
         NEW i \in DOMAIN evs, evs[i].name = n, n \notin files
  PROVE  /\ RemovedIn(evs, n, i, Len(evs))
         /\ evs[i].op = "Write" => RemovedIn(evs, n, i + 1, Len(evs))
<1> DEFINE T == {Len(evs) - j : j \in {j \in DOMAIN evs : evs[j].name = n}}
<1>1. Len(evs) \in Nat /\ DOMAIN evs = 1 .. Len(evs)
  OBVIOUS
<1>2. T \in SUBSET Nat /\ Len(evs) - i \in T
  BY <1>1
<1> HIDE DEF T
<1>3. PICK t \in T : \A u \in T : t <= u
  BY <1>2, LeastNumber
<1>4. PICK j \in DOMAIN evs : evs[j].name = n /\ t = Len(evs) - j
  BY DEF T
<1>5. ASSUME NEW k \in DOMAIN evs, evs[k].name = n PROVE k <= j
  <2>1. Len(evs) - k \in T
    BY <1>5 DEF T
  <2>2. Len(evs) - j <= Len(evs) - k
    BY <1>3, <1>4, <2>1
  <2> QED
    BY <1>1, <2>2
<1>6. \A k \in DOMAIN evs : k > j => evs[k].name # evs[j].name
  BY <1>1, <1>4, <1>5
<1>7. evs[j].op # "Write"
  BY <1>4, <1>6 DEF LastTells
<1>8. evs[j].op = "Remove"
  BY <1>4, <1>7, EventIs
<1>9. i <= j /\ j <= Len(evs) /\ j \in Nat /\ i \in Nat
  BY <1>1, <1>5
<1>10. j \in i .. Len(evs) /\ (i # j => j \in i + 1 .. Len(evs))
  BY <1>1, <1>9
<1>11. evs[i].op = "Write" => i # j
  BY <1>7
<1> QED
  BY <1>4, <1>8, <1>10, <1>11 DEF RemovedIn

LEMMA LastTellsAppend ==
  ASSUME NEW evs \in Seq(Events), NEW ev \in Events, NEW files, NEW after, LastTells(evs, files),
         \A m \in Names : m # ev.name => (m \in files <=> m \in after),
         ev.name \in Names => (ev.op = "Write" <=> ev.name \in after)
  PROVE  LastTells(Append(evs, ev), after)
<1> DEFINE a == Append(evs, ev)
           n == Len(evs) + 1
<1>1. /\ Len(evs) \in Nat
      /\ DOMAIN evs = 1 .. Len(evs) /\ DOMAIN a = 1 .. n
      /\ \A i \in 1 .. Len(evs) : a[i] = evs[i]
      /\ a[n] = ev
  BY AppendEvent
<1> HIDE DEF a
<1> SUFFICES ASSUME NEW i \in DOMAIN a, a[i].name \in Names,
                    \A j \in DOMAIN a : j > i => a[j].name # a[i].name
             PROVE  a[i].op = "Write" <=> a[i].name \in after
  BY DEF LastTells, a
<1>2. CASE i = n
  BY <1>1, <1>2
<1>3. CASE i # n
  <2>1. i \in DOMAIN evs /\ a[i] = evs[i] /\ n \in DOMAIN a /\ n > i
    BY <1>1, <1>3
  <2>2. \A j \in DOMAIN evs : j \in DOMAIN a /\ a[j] = evs[j]
    BY <1>1
  <2>3. a[i].name # ev.name
    BY <1>1, <2>1
  <2>4. evs[i].op = "Write" <=> evs[i].name \in files
    BY <2>1, <2>2 DEF LastTells
  <2> QED
    BY <2>1, <2>3, <2>4
<1> QED
  BY <1>2, <1>3

(* Of an event at the head and what the last event of its file says.        *)
LEMMA LastTellsTail ==
  ASSUME NEW evs \in Seq(Events), evs # <<>>, NEW files, LastTells(evs, files)
  PROVE  /\ LastTells(Tail(evs), files)
         /\ Head(evs).name \in Names /\ ~(Head(evs).op = "Write" <=> Head(evs).name \in files)
                => Pending(Tail(evs), Head(evs).name)
<1> DEFINE t == Tail(evs)
<1>1. /\ Len(evs) \in Nat \ {0}
      /\ DOMAIN evs = 1 .. Len(evs) /\ DOMAIN t = 1 .. Len(evs) - 1
      /\ \A i \in 1 .. Len(evs) - 1 : t[i] = evs[i + 1]
      /\ Head(evs) = evs[1]
  BY TailEvents
<1> HIDE DEF t
<1>2. LastTells(t, files)
  <2> SUFFICES ASSUME NEW i \in DOMAIN t, t[i].name \in Names,
                      \A j \in DOMAIN t : j > i => t[j].name # t[i].name
               PROVE  t[i].op = "Write" <=> t[i].name \in files
    BY DEF LastTells
  <2>1. i + 1 \in DOMAIN evs /\ t[i] = evs[i + 1]
    BY <1>1
  <2>2. ASSUME NEW j \in DOMAIN evs, j > i + 1 PROVE evs[j].name # evs[i + 1].name
    <3>1. j - 1 \in DOMAIN t /\ j - 1 > i /\ t[j - 1] = evs[j]
      BY <1>1, <2>2
    <3> QED
      BY <2>1, <3>1
  <2> QED
    BY <2>1, <2>2 DEF LastTells
<1>3. ASSUME Head(evs).name \in Names, ~(Head(evs).op = "Write" <=> Head(evs).name \in files)
      PROVE  Pending(t, Head(evs).name)
  <2>1. 1 \in DOMAIN evs
    BY <1>1
  <2>2. PICK j \in DOMAIN evs : j > 1 /\ evs[j].name = evs[1].name
    BY <1>1, <1>3, <2>1 DEF LastTells
  <2>3. j - 1 \in DOMAIN t /\ t[j - 1] = evs[j]
    BY <1>1, <2>2
  <2> QED
    BY <1>1, <2>2, <2>3 DEF Pending
<1> QED
  BY <1>2, <1>3 DEF t

LEMMA PlainAppend ==
  ASSUME NEW evs \in Seq(Events), NEW ev \in Events, NEW bad, NEW after, bad \subseteq after,
         PlainEvents(evs, bad),
         ev.name \in Names /\ ZidOf[ev.name] \notin after => Plain(ev.name)
  PROVE  PlainEvents(Append(evs, ev), after)
<1> DEFINE a == Append(evs, ev)
<1>1. /\ Len(evs) \in Nat
      /\ DOMAIN evs = 1 .. Len(evs) /\ DOMAIN a = 1 .. Len(evs) + 1
      /\ \A i \in 1 .. Len(evs) : a[i] = evs[i]
      /\ a[Len(evs) + 1] = ev
  BY AppendEvent
<1> HIDE DEF a
<1>2. \A i \in DOMAIN a : a[i] = ev \/ (i \in DOMAIN evs /\ a[i] = evs[i])
  BY <1>1
<1> QED
  BY <1>2 DEF PlainEvents, a

LEMMA PlainTail ==
  ASSUME NEW evs \in Seq(Events), evs # <<>>, NEW bad, PlainEvents(evs, bad)
  PROVE  /\ PlainEvents(Tail(evs), bad)
         /\ Head(evs).name \in Names /\ ZidOf[Head(evs).name] \notin bad => Plain(Head(evs).name)
<1> DEFINE t == Tail(evs)
<1>1. /\ Len(evs) \in Nat \ {0}
      /\ DOMAIN evs = 1 .. Len(evs) /\ DOMAIN t = 1 .. Len(evs) - 1
      /\ \A i \in 1 .. Len(evs) - 1 : t[i] = evs[i + 1]
      /\ Head(evs) = evs[1]
  BY TailEvents
<1> HIDE DEF t
<1>2. 1 \in DOMAIN evs /\ \A i \in DOMAIN t : i + 1 \in DOMAIN evs /\ t[i] = evs[i + 1]
  BY <1>1
<1> QED
  BY <1>1, <1>2 DEF PlainEvents, t

LEMMA ReturnsAppend ==
  ASSUME NEW evs \in Seq(Events), NEW ev \in Events,
         ev.op = "DirCreate" \/ (Returns(evs) /\ ev.op # "DirRename")
  PROVE  Returns(Append(evs, ev))
<1> DEFINE a == Append(evs, ev)
           n == Len(evs) + 1
<1>1. /\ Len(evs) \in Nat
      /\ DOMAIN evs = 1 .. Len(evs) /\ DOMAIN a = 1 .. n
      /\ \A i \in 1 .. Len(evs) : a[i] = evs[i]
      /\ a[n] = ev
  BY AppendEvent
<1> HIDE DEF a
<1> SUFFICES ASSUME NEW i \in DOMAIN a, a[i].op = "DirRename"
             PROVE  \E j \in DOMAIN a : i < j /\ a[j].op = "DirCreate"
  BY DEF Returns, a
<1>2. i # n
  BY <1>1
<1>3. i \in DOMAIN evs /\ evs[i] = a[i] /\ i < n /\ n \in DOMAIN a
  BY <1>1, <1>2
<1>4. CASE ev.op = "DirCreate"
  BY <1>1, <1>3, <1>4
<1>5. CASE Returns(evs)
  <2>1. PICK j \in DOMAIN evs : i < j /\ evs[j].op = "DirCreate"
    BY <1>3, <1>5 DEF Returns
  <2>2. j \in DOMAIN a /\ a[j] = evs[j]
    BY <1>1
  <2> QED
    BY <2>1, <2>2
<1> QED
  BY <1>4, <1>5

LEMMA ReturnsTail ==
  ASSUME NEW evs \in Seq(Events), evs # <<>>, Returns(evs)
  PROVE  /\ Returns(Tail(evs))
         /\ Head(evs).op = "DirRename" => Awaited(Tail(evs), "DirCreate")
<1> DEFINE t == Tail(evs)
<1>1. /\ Len(evs) \in Nat \ {0}
      /\ DOMAIN evs = 1 .. Len(evs) /\ DOMAIN t = 1 .. Len(evs) - 1
      /\ \A i \in 1 .. Len(evs) - 1 : t[i] = evs[i + 1]
      /\ Head(evs) = evs[1]
  BY TailEvents
<1> HIDE DEF t
<1>2. ASSUME NEW i \in DOMAIN evs, evs[i].op = "DirRename"
      PROVE  \E j \in DOMAIN t : i <= j /\ t[j].op = "DirCreate"
  <2>1. PICK j \in DOMAIN evs : i < j /\ evs[j].op = "DirCreate"
    BY <1>2 DEF Returns
  <2>2. j - 1 \in DOMAIN t /\ i <= j - 1 /\ t[j - 1] = evs[j]
    BY <1>1, <2>1
  <2> QED
    BY <2>1, <2>2
<1>3. \A i \in DOMAIN t : i + 1 \in DOMAIN evs /\ t[i] = evs[i + 1] /\ \A j \in DOMAIN t : i + 1 <= j => i < j
  BY <1>1
<1>4. Returns(t)
  BY <1>2, <1>3 DEF Returns
<1>5. 1 \in DOMAIN evs
  BY <1>1
<1>6. Head(evs).op = "DirRename" => Awaited(t, "DirCreate")
  BY <1>1, <1>2, <1>5 DEF Awaited
<1> QED
  BY <1>4, <1>6 DEF t

LEMMA GoneFirstAppend ==
  ASSUME NEW evs \in Seq(Events), NEW ev \in Events, NEW n, GoneFirst(evs, n),
         ev.name \in Names /\ Clash(ev.name, n) => RemovedIn(evs, n, 1, Len(evs))
  PROVE  GoneFirst(Append(evs, ev), n)
<1> DEFINE a == Append(evs, ev)
<1>1. /\ Len(evs) \in Nat
      /\ DOMAIN evs = 1 .. Len(evs) /\ DOMAIN a = 1 .. Len(evs) + 1
      /\ \A i \in 1 .. Len(evs) : a[i] = evs[i]
      /\ a[Len(evs) + 1] = ev
  BY AppendEvent
<1> HIDE DEF a
<1> SUFFICES ASSUME NEW j \in DOMAIN a, a[j].name \in Names, Clash(a[j].name, n)
             PROVE  RemovedIn(a, n, 1, j - 1)
  BY DEF GoneFirst, a
<1>2. RemovedIn(evs, n, 1, j - 1)
  <2>1. CASE j = Len(evs) + 1
    <3>1. j - 1 = Len(evs) /\ a[j] = ev
      BY <1>1, <2>1
    <3> QED
      BY <3>1
  <2>2. CASE j # Len(evs) + 1
    BY <1>1, <2>2 DEF GoneFirst
  <2> QED
    BY <2>1, <2>2
<1>3. \A k \in 1 .. j - 1 : a[k] = evs[k]
  BY <1>1
<1> QED
  BY <1>2, <1>3 DEF RemovedIn

LEMMA GoneFirstTail ==
  ASSUME NEW evs \in Seq(Events), evs # <<>>, NEW n, GoneFirst(evs, n)
  PROVE  /\ ~(Head(evs).name \in Names /\ Clash(Head(evs).name, n))
         /\ ~(Head(evs).op = "Remove" /\ Head(evs).name = n) => GoneFirst(Tail(evs), n)
<1> DEFINE t == Tail(evs)
<1>1. /\ Len(evs) \in Nat \ {0}
      /\ DOMAIN evs = 1 .. Len(evs) /\ DOMAIN t = 1 .. Len(evs) - 1
      /\ \A i \in 1 .. Len(evs) - 1 : t[i] = evs[i + 1]
      /\ Head(evs) = evs[1]
  BY TailEvents
<1> HIDE DEF t
<1>2. ASSUME Head(evs).name \in Names, Clash(Head(evs).name, n) PROVE FALSE
  <2>1. 1 \in DOMAIN evs
    BY <1>1
  <2>2. RemovedIn(evs, n, 1, 1 - 1)
    BY <1>1, <1>2, <2>1 DEF GoneFirst
  <2> QED
    BY <2>2 DEF RemovedIn
<1>3. ASSUME ~(Head(evs).op = "Remove" /\ Head(evs).name = n) PROVE GoneFirst(t, n)
  <2> SUFFICES ASSUME NEW j \in DOMAIN t, t[j].name \in Names, Clash(t[j].name, n)
               PROVE  RemovedIn(t, n, 1, j - 1)
    BY DEF GoneFirst
  <2>1. j + 1 \in DOMAIN evs /\ t[j] = evs[j + 1] /\ j + 1 - 1 = j
    BY <1>1
  <2>2. PICK k \in 1 .. j : evs[k].op = "Remove" /\ evs[k].name = n
    BY <2>1 DEF GoneFirst, RemovedIn
  <2>3. k # 1
    BY <1>1, <1>3, <2>2
  <2>4. k - 1 \in 1 .. j - 1 /\ t[k - 1] = evs[k]
    BY <1>1, <2>1, <2>3
  <2> QED
    BY <2>2, <2>4 DEF RemovedIn
<1> QED
  BY <1>2, <1>3 DEF t

(* Nothing is there any more of a file that clashes with the new event.     *)
LEMMA ApartAppend ==
  ASSUME NEW evs \in Seq(Events), NEW ev \in Events, NEW bad, NEW after, bad \subseteq after,
         NEW files, LastTells(evs, files), ApartEvents(evs, bad),
         \A m \in Names : ev.name \in Names /\ Clash(m, ev.name) /\ ZidOf[m] \notin after => m \notin files
  PROVE  ApartEvents(Append(evs, ev), after)
<1> DEFINE a == Append(evs, ev)
<1>1. /\ Len(evs) \in Nat
      /\ DOMAIN evs = 1 .. Len(evs) /\ DOMAIN a = 1 .. Len(evs) + 1
      /\ \A i \in 1 .. Len(evs) : a[i] = evs[i]
      /\ a[Len(evs) + 1] = ev
  BY AppendEvent
<1> HIDE DEF a
<1> SUFFICES ASSUME NEW i \in DOMAIN a, NEW j \in DOMAIN a, i < j, a[i].op = "Write",
                    a[j].name \in Names, Clash(a[i].name, a[j].name), ZidOf[a[i].name] \notin after
             PROVE  RemovedIn(a, a[i].name, i + 1, j - 1)
  BY DEF ApartEvents, a
<1>2. i \in DOMAIN evs /\ a[i] = evs[i]
  BY <1>1
<1>3. RemovedIn(evs, a[i].name, i + 1, j - 1)
  <2>1. CASE j = Len(evs) + 1
    <3>1. j - 1 = Len(evs) /\ a[j] = ev
      BY <1>1, <2>1
    <3>2. a[i].name \in Names
      BY <1>2, EventIs
    <3>3. a[i].name \notin files
      BY <3>1, <3>2
    <3> QED
      BY <1>2, <3>1, <3>2, <3>3, LastIsRemove
  <2>2. CASE j # Len(evs) + 1
    <3>1. j \in DOMAIN evs /\ a[j] = evs[j]
      BY <1>1, <2>2
    <3> QED
      BY <1>2, <3>1 DEF ApartEvents
  <2> QED
    BY <2>1, <2>2
<1>4. \A k \in i + 1 .. j - 1 : a[k] = evs[k]
  BY <1>1
<1> QED
  BY <1>3, <1>4 DEF RemovedIn

LEMMA ApartTail ==
  ASSUME NEW evs \in Seq(Events), evs # <<>>, NEW bad, ApartEvents(evs, bad)
  PROVE  /\ ApartEvents(Tail(evs), bad)
         /\ Head(evs).op = "Write" /\ ZidOf[Head(evs).name] \notin bad
                => GoneFirst(Tail(evs), Head(evs).name)
<1> DEFINE t == Tail(evs)
<1>1. /\ Len(evs) \in Nat \ {0}
      /\ DOMAIN evs = 1 .. Len(evs) /\ DOMAIN t = 1 .. Len(evs) - 1
      /\ \A i \in 1 .. Len(evs) - 1 : t[i] = evs[i + 1]
      /\ Head(evs) = evs[1]
  BY TailEvents
<1> HIDE DEF t
<1>2. ASSUME NEW n, NEW i \in Nat, NEW j \in DOMAIN t, RemovedIn(evs, n, i + 2, j + 1 - 1)
      PROVE  RemovedIn(t, n, i + 1, j - 1)
  <2>1. PICK k \in i + 2 .. j + 1 - 1 : evs[k].op = "Remove" /\ evs[k].name = n
    BY <1>2 DEF RemovedIn
  <2>2. k - 1 \in i + 1 .. j - 1 /\ k - 1 \in 1 .. Len(evs) - 1 /\ k - 1 + 1 = k
    BY <1>1, <2>1
  <2>3. t[k - 1] = evs[k]
    BY <1>1, <2>2
  <2> QED
    BY <2>1, <2>2, <2>3 DEF RemovedIn
<1>3. \A j \in DOMAIN t : j + 1 \in DOMAIN evs /\ t[j] = evs[j + 1] /\ j \in Nat
  BY <1>1
<1>4. ApartEvents(t, bad)
  <2> SUFFICES ASSUME NEW i \in DOMAIN t, NEW j \in DOMAIN t, i < j, t[i].op = "Write",
                      t[j].name \in Names, Clash(t[i].name, t[j].name), ZidOf[t[i].name] \notin bad
               PROVE  RemovedIn(t, t[i].name, i + 1, j - 1)
    BY DEF ApartEvents
  <2>1. i + 1 < j + 1 /\ i + 1 + 1 = i + 2
    BY <1>1
  <2>2. RemovedIn(evs, t[i].name, i + 1 + 1, j + 1 - 1)
    BY <1>3, <2>1 DEF ApartEvents
  <2> QED
    BY <1>2, <1>3, <2>1, <2>2
<1>5. ASSUME Head(evs).op = "Write", ZidOf[Head(evs).name] \notin bad
      PROVE  GoneFirst(t, Head(evs).name)
  <2> DEFINE n == Head(evs).name
  <2> SUFFICES ASSUME NEW j \in DOMAIN t, t[j].name \in Names, Clash(t[j].name, n)
               PROVE  RemovedIn(t, n, 1, j - 1)
    BY DEF GoneFirst
  <2>1. 1 \in DOMAIN evs /\ 1 < j + 1 /\ 1 + 1 = 0 + 2 /\ 0 \in Nat /\ 0 + 1 = 1
    BY <1>1
  <2>2. Clash(n, t[j].name)
    BY DEF Clash
  <2>3. RemovedIn(evs, n, 1 + 1, j + 1 - 1)
    BY <1>1, <1>3, <1>5, <2>1, <2>2 DEF ApartEvents
  <2>4. RemovedIn(t, n, 0 + 1, j - 1)
    BY <1>2, <2>1, <2>3
  <2> QED
    BY <2>1, <2>4
<1> QED
  BY <1>4, <1>5 DEF t

LEMMA ApartMore ==
  ASSUME NEW evs, NEW bad, NEW after, bad \subseteq after, PlainEvents(evs, bad), ApartEvents(evs, bad)
  PROVE  PlainEvents(evs, after) /\ ApartEvents(evs, after)
BY DEF PlainEvents, ApartEvents

-----------------------------------------------------------------------------
(* What the steps of the box leave as it is.                                *)
LEMMA LossyIs ==
  ASSUME NEW S, NEW n \in S, ZidOf[n] \notin Lossy(S)
  PROVE  Plain(n) /\ \A m \in S : ~Clash(m, n) /\ ~Clash(n, m)
BY DEF Lossy, Mixed, Clash

LEMMA TypesAre ==
  ASSUME TypeOK
  PROVE  /\ \A c \in Clients : call[c] \in Calls /\ call[c].entry \in Entry
                                /\ call[c].zid \in Zids \union {NoZid}
         /\ \A z \in Zids : WorkerOf[z] \in Workers
         /\ \A k \in Workers : worker[k] \in Jobs /\ worker[k].todo \in Seq(Names)
                                /\ worker[k].client \in Clients \union {Nobody}
         /\ DOMAIN call = Clients /\ DOMAIN worker = Workers /\ DOMAIN disk \subseteq Names
         /\ osEvents \in Seq(Events) /\ notifier.names \in Seq(Names)
         /\ IsEntries(entries) /\ IsEntries(newEntries)
         /\ \A z \in Zids : EntryOf(entries, z) \in Entry /\ EntryOf(newEntries, z) \in Entry
<1>1. \A c \in Clients : call[c] \in Calls
  BY DEF TypeOK
<1>2. \A k \in Workers : worker[k] \in Jobs
  BY DEF TypeOK
<1>3. \A c \in Clients : call[c].entry \in Entry /\ call[c].zid \in Zids \union {NoZid}
  BY <1>1 DEF Calls
<1>4. \A k \in Workers : worker[k].todo \in Seq(Names) /\ worker[k].client \in Clients \union {Nobody}
  BY <1>2 DEF Jobs
<1>5. \A z \in Zids : WorkerOf[z] \in Workers
  BY DEF Workers
<1>6. IsEntries(entries) /\ IsEntries(newEntries)
  BY DEF TypeOK
<1>7. \A z \in Zids : EntryOf(entries, z) \in Entry /\ EntryOf(newEntries, z) \in Entry
  BY <1>6, EntryOfIs
<1>8. /\ DOMAIN call = Clients /\ DOMAIN worker = Workers /\ DOMAIN disk \subseteq Names
      /\ osEvents \in Seq(Events) /\ notifier.names \in Seq(Names)
  BY DEF TypeOK
<1> QED
  BY <1>1, <1>2, <1>3, <1>4, <1>5, <1>6, <1>7, <1>8

(* More zettel may be spoiled. *)
Worse == spoiled \subseteq spoiled'

LEMMA DiskFrame ==
  ASSUME DiskOK, Worse, UNCHANGED disk
  PROVE  DiskOK'
BY DEF DiskOK, Worse

LEMMA EventsFrame ==
  ASSUME EventsOK, Worse, UNCHANGED <<disk, osEvents, dirThere>>
  PROVE  EventsOK'
<1>1. PlainEvents(osEvents, spoiled') /\ ApartEvents(osEvents, spoiled')
  BY ApartMore DEF EventsOK, Worse
<1> QED
  BY <1>1 DEF EventsOK

LEMMA CallsFrame ==
  ASSUME ClientsOK, WorkersOK, ChangesOK, Worse, UNCHANGED <<call, worker, disk, dirThere>>
  PROVE  ClientsOK' /\ WorkersOK' /\ ChangesOK'
<1>1. ClientsOK'
  BY DEF ClientsOK, ClientOK, Job
<1>2. WorkersOK'
  BY DEF WorkersOK, WorkerOK, Worse
<1>3. ASSUME NEW c \in Clients PROVE ChangeOK(c)'
  <2>1. ChangeOK(c)
    BY DEF ChangesOK
  <2> QED
    BY <2>1 DEF ChangeOK, Worse, Job, DiskOf, Unwritten, Undeleted, Todo
<1> QED
  BY <1>1, <1>2, <1>3 DEF ChangesOK

LEMMA NotifierFrame ==
  ASSUME NotifierOK, UNCHANGED <<notifier, listing, newEntries, known, dirThere, osEvents>>
  PROVE  NotifierOK'
BY DEF NotifierOK

LEMMA ListsFrame ==
  ASSUME ListsOK, Worse, UNCHANGED <<notifier, listing, newEntries, disk, osEvents>>
  PROVE  ListsOK'
<1> SUFFICES ASSUME notifier.pc = "list", listing, NEW z \in Zids PROVE ListOK(z)'
  BY DEF ListsOK
<1>1. ListOK(z)
  BY DEF ListsOK
<1> QED
  BY <1>1 DEF ListOK, Listed, DiskOf, Worse

(* Calls go on, but none loses its reason to have its files in an entry.    *)
Unless(z) ==
    /\ \A c \in Clients : Under("update", c, z) =>
        \/ Under("update", c, z)' /\ call'[c].entry = call[c].entry
        \/ FilesOf(call[c].entry) \subseteq DOMAIN disk
    /\ (\E c \in Clients : Under("delete", c, z)) =>
        (\E c \in Clients : Under("delete", c, z)') \/ DiskOf(z) = {}
    /\ z \in DOMAIN entries' =>
        \/ Reserved(z)' \/ FilesOf(EntryOf(entries, z)) # {}
        \/ z \in DOMAIN entries /\ ~Reserved(z)

LEMMA EntryFrame ==
  ASSUME NEW z \in Zids, EntryOK(z), Worse, UNCHANGED <<known, disk, osEvents>>,
         EntryOf(entries', z) = EntryOf(entries, z), z \notin spoiled' => Unless(z)
  PROVE  EntryOK(z)'
<1> DEFINE e == EntryOf(entries, z)
<1>1. EntryOf(entries, z)' = e
  OBVIOUS
<1>2. \A n \in FilesOf(e) : ZidOf[n] = z
  BY DEF EntryOK
<1>3. CASE z \in spoiled'
  BY <1>1, <1>2, <1>3 DEF EntryOK
<1>4. CASE z \notin spoiled'
  <2>1. z \notin spoiled /\ Unless(z)
    BY <1>4 DEF Worse
  <2> HIDE DEF e
  <2>2. /\ WellFormed(e) /\ Separate(osEvents, e) /\ OneIsGone(osEvents, e)
        /\ z \in DOMAIN entries => FilesOf(e) # {} \/ Reserved(z)
    BY <2>1 DEF EntryOK, e
  <2>3. \A n \in FilesOf(e) :
            \/ Pending(osEvents, n) \/ n \in DOMAIN disk
            \/ \E c \in Clients : Under("update", c, z) /\ n \in FilesOf(call[c].entry)
    BY <2>1 DEF EntryOK, e
  <2>4. known /\ ~Awaited(osEvents, "DirRename") =>
            \A n \in DiskOf(z) :
                Pending(osEvents, n) \/ n \in FilesOf(e) \/ \E c \in Clients : Under("delete", c, z)
    BY <2>1 DEF EntryOK, e
  <2>5. z \in DOMAIN entries' => FilesOf(e) # {} \/ Reserved(z)'
    BY <2>1, <2>2 DEF Unless, e
  <2>6. \A n \in FilesOf(e) :
            \/ Pending(osEvents, n) \/ n \in DOMAIN disk
            \/ \E c \in Clients : Under("update", c, z)' /\ n \in FilesOf(call'[c].entry)
    BY <2>1, <2>3 DEF Unless
  <2>7. known /\ ~Awaited(osEvents, "DirRename") =>
            \A n \in DiskOf(z) :
                Pending(osEvents, n) \/ n \in FilesOf(e) \/ \E c \in Clients : Under("delete", c, z)'
    BY <2>1, <2>4 DEF Unless
  <2>8. DiskOf(z)' = DiskOf(z)
    BY DEF DiskOf
  <2> QED
    BY <1>1, <1>2, <2>2, <2>5, <2>6, <2>7, <2>8 DEF EntryOK
<1> QED
  BY <1>3, <1>4

LEMMA EntriesFrame ==
  ASSUME EntriesOK, Worse, UNCHANGED <<known, disk, osEvents>>,
         \A z \in Zids : EntryOf(entries', z) = EntryOf(entries, z),
         \A z \in Zids \ spoiled' : Unless(z)
  PROVE  EntriesOK'
BY EntryFrame DEF EntriesOK

LEMMA SameCalls ==
  ASSUME UNCHANGED <<call, entries>>, NEW z
  PROVE  Unless(z) /\ EntryOf(entries', z) = EntryOf(entries, z)
BY DEF Unless, Under, Reserved

(* No call that changes a zettel is forgotten. *)
LEMMA ReportsFrame ==
  ASSUME ReportsOK, Worse, unreported' \subseteq unreported,
         \A z \in unreported' \ spoiled' : \A note \in notes : note[1] = z => note \in notes',
         UNCHANGED call
  PROVE  ReportsOK'
BY DEF ReportsOK, Worse

-----------------------------------------------------------------------------
(* A file is written or removed, by a file service or another program.      *)
Touched(n) ==
    /\ dirThere /\ Worse /\ Lossy(DOMAIN disk') \subseteq spoiled'
    /\ \/ \E content \in Nat : Write(n, content)
       \/ n \in DOMAIN disk /\ RemoveFrom(n)
    /\ UNCHANGED <<dirThere, notifier, serviceVars, call, unreported>>

LEMMA TouchedIs ==
  ASSUME TypeOK, DiskOK, Watch, NEW n \in Names, Touched(n)
  PROVE  /\ DOMAIN disk' \subseteq Names /\ IsFiniteSet(DOMAIN disk')
         /\ \A m \in DOMAIN disk' : disk'[m] \in Nat
         /\ \A m \in Names : m # n => (m \in DOMAIN disk <=> m \in DOMAIN disk')
         /\ \E ev \in Events :
                /\ osEvents' = Append(osEvents, ev) /\ ev.name = n
                /\ ev.op \in {"Write", "Remove"} /\ (ev.op = "Write" <=> n \in DOMAIN disk')
         /\ ZidOf[n] \notin spoiled' =>
                Plain(n) /\ \A m \in Names : Clash(m, n) => m \notin DOMAIN disk
<1>1. DOMAIN disk \subseteq Names /\ (\A m \in DOMAIN disk : disk[m] \in Nat)
  BY DEF TypeOK
<1>2. IsFiniteSet(DOMAIN disk) /\ Lossy(DOMAIN disk) \subseteq spoiled'
  BY DEF DiskOK, Touched, Worse
<1> DEFINE w == [op |-> "Write", name |-> n]
           r == [op |-> "Remove", name |-> n]
<1>3. w \in Events /\ r \in Events
  BY DEF Events
<1>4. \/ /\ DOMAIN disk' = DOMAIN disk \union {n} /\ osEvents' = Append(osEvents, w)
         /\ \A m \in DOMAIN disk' : disk'[m] \in Nat
      \/ /\ DOMAIN disk' = DOMAIN disk \ {n} /\ osEvents' = Append(osEvents, r) /\ n \in DOMAIN disk
         /\ \A m \in DOMAIN disk' : disk'[m] \in Nat
  <2>1. ASSUME NEW content \in Nat, Write(n, content)
        PROVE  /\ DOMAIN disk' = DOMAIN disk \union {n} /\ osEvents' = Append(osEvents, w)
               /\ \A m \in DOMAIN disk' : disk'[m] \in Nat
    BY <1>1, <2>1 DEF Write, With, Event
  <2>2. ASSUME RemoveFrom(n)
        PROVE  /\ DOMAIN disk' = DOMAIN disk \ {n} /\ osEvents' = Append(osEvents, r)
               /\ \A m \in DOMAIN disk' : disk'[m] \in Nat
    BY <1>1, <2>2 DEF RemoveFrom, Without, Event
  <2> QED
    BY <2>1, <2>2 DEF Touched
<1>5. \E ev \in Events :
                /\ osEvents' = Append(osEvents, ev) /\ ev.name = n
                /\ ev.op \in {"Write", "Remove"} /\ (ev.op = "Write" <=> n \in DOMAIN disk')
  <2>1. CASE n \in DOMAIN disk'
    <3>1. osEvents' = Append(osEvents, w)
      BY <1>4, <2>1
    <3> QED
      BY <1>3, <3>1, <2>1
  <2>2. CASE n \notin DOMAIN disk'
    <3>1. osEvents' = Append(osEvents, r)
      BY <1>4, <2>2
    <3> QED
      BY <1>3, <3>1, <2>2
  <2> QED
    BY <2>1, <2>2
<1>6. DOMAIN disk' \subseteq Names /\ n \in DOMAIN disk \union DOMAIN disk'
  BY <1>1, <1>4
<1>7. IsFiniteSet(DOMAIN disk')
  <2>1. IsFiniteSet(DOMAIN disk \union {n})
    BY <1>2, FS_AddElement
  <2> QED
    BY <1>4, <2>1, FS_Subset
<1>8. \A m \in Names : m # n => (m \in DOMAIN disk <=> m \in DOMAIN disk')
  BY <1>4
<1>9. ASSUME ZidOf[n] \notin spoiled'
      PROVE  Plain(n) /\ \A m \in Names : Clash(m, n) => m \notin DOMAIN disk
  <2>1. \A S : n \in S /\ Lossy(S) \subseteq spoiled' => Plain(n) /\ \A m \in S : ~Clash(m, n)
    BY <1>9, LossyIs
  <2>2. ~Clash(n, n)
    BY DEF Clash, zettel
  <2>3. CASE n \in DOMAIN disk
    BY <1>2, <2>1, <2>3
  <2>4. CASE n \in DOMAIN disk'
    BY <1>8, <2>1, <2>2, <2>4 DEF Touched
  <2> QED
    BY <1>6, <2>3, <2>4
<1> QED
  BY <1>4, <1>5, <1>6, <1>7, <1>8, <1>9

LEMMA TouchedEvents ==
  ASSUME TypeOK, DiskOK, EventsOK, Watch, NEW n \in Names, Touched(n)
  PROVE  /\ DiskOK' /\ EventsOK' /\ osEvents' \in Seq(Events)
         /\ \A m : Pending(osEvents, m)' <=> Pending(osEvents, m) \/ m = n
         /\ \A op \in {"DirRename", "DirCreate"} : Awaited(osEvents, op)' <=> Awaited(osEvents, op)
         /\ \A m \in Names :
                GoneFirst(osEvents, m) /\ ZidOf[m] \notin spoiled'
                        /\ (Clash(m, n) => Pending(osEvents, m) \/ m \in DOMAIN disk)
                    => GoneFirst(osEvents, m)'
<1>1. PICK ev \in Events :
          /\ osEvents' = Append(osEvents, ev) /\ ev.name = n
          /\ ev.op \in {"Write", "Remove"} /\ (ev.op = "Write" <=> n \in DOMAIN disk')
  BY TouchedIs
<1>2. osEvents \in Seq(Events)
  BY DEF TypeOK
<1>3. /\ \A m \in Names : m # n => (m \in DOMAIN disk <=> m \in DOMAIN disk')
      /\ ZidOf[n] \notin spoiled' =>
                Plain(n) /\ \A m \in Names : Clash(m, n) => m \notin DOMAIN disk
      /\ IsFiniteSet(DOMAIN disk')
  BY TouchedIs
<1>4. DiskOK'
  BY <1>3 DEF DiskOK, Touched
<1>5. LastTells(osEvents', DOMAIN disk')
  BY <1>1, <1>2, <1>3, LastTellsAppend DEF EventsOK
<1>6. PlainEvents(osEvents', spoiled')
  BY <1>1, <1>2, <1>3, PlainAppend DEF EventsOK, Touched, Worse
<1>7. ApartEvents(osEvents', spoiled')
  <2>1. \A m \in Names : ev.name \in Names /\ Clash(m, ev.name) /\ ZidOf[m] \notin spoiled'
            => m \notin DOMAIN disk
    BY <1>1, <1>3 DEF Clash
  <2> QED
    BY <1>1, <1>2, <2>1, ApartAppend DEF EventsOK, Touched, Worse
<1>8. Returns(osEvents')
  BY <1>1, <1>2, ReturnsAppend DEF EventsOK, Touched
<1>9. EventsOK'
  BY <1>5, <1>6, <1>7, <1>8 DEF EventsOK
<1>10. \A m : Pending(osEvents, m)' <=> Pending(osEvents, m) \/ m = n
  BY <1>1, <1>2, PendingAppend
<1>11. \A op \in {"DirRename", "DirCreate"} : Awaited(osEvents, op)' <=> Awaited(osEvents, op)
  BY <1>1, <1>2, PendingAppend
<1>12. ASSUME NEW m \in Names, GoneFirst(osEvents, m), ZidOf[m] \notin spoiled',
              Clash(m, n) => Pending(osEvents, m) \/ m \in DOMAIN disk
       PROVE  GoneFirst(osEvents, m)'
  <2>1. ASSUME Clash(n, m) PROVE RemovedIn(osEvents, m, 1, Len(osEvents))
    <3>1. Clash(m, n) /\ ZidOf[n] \notin spoiled'
      BY <1>12, <2>1 DEF Clash
    <3>2. m \notin DOMAIN disk
      BY <1>3, <3>1
    <3>3. PICK i \in DOMAIN osEvents : osEvents[i].name = m
      BY <1>12, <3>1, <3>2 DEF Pending
    <3>4. RemovedIn(osEvents, m, i, Len(osEvents))
      BY <1>2, <3>2, <3>3, LastIsRemove DEF EventsOK
    <3>5. i \in 1 .. Len(osEvents) /\ Len(osEvents) \in Nat
      BY <1>2
    <3>6. i .. Len(osEvents) \subseteq 1 .. Len(osEvents)
      BY <3>5
    <3> QED
      BY <3>4, <3>6 DEF RemovedIn
  <2> QED
    BY <1>1, <1>2, <1>12, <2>1, GoneFirstAppend
<1>13. osEvents' \in Seq(Events)
  BY <1>1, <1>2, AppendEvent
<1> QED
  BY <1>4, <1>9, <1>10, <1>11, <1>12, <1>13

(* A call that changes this zettel knows the file, if it is an update.      *)
LEMMA TouchedEntries ==
  ASSUME TypeOK, DiskOK, EventsOK, ChangesOK, EntriesOK, ListsOK, NotifierOK, ReportsOK, Watch,
         NEW n \in Names, Touched(n),
         ZidOf[n] \notin spoiled' =>
            \A c \in Clients : IsChange(call[c].op) /\ call[c].zid = ZidOf[n] => n \in FilesOf(call[c].entry)
  PROVE  EntriesOK' /\ ListsOK' /\ NotifierOK' /\ ReportsOK'
<1>1. /\ \A m : Pending(osEvents, m)' <=> Pending(osEvents, m) \/ m = n
      /\ \A op \in {"DirRename", "DirCreate"} : Awaited(osEvents, op)' <=> Awaited(osEvents, op)
      /\ \A m \in Names :
            GoneFirst(osEvents, m) /\ ZidOf[m] \notin spoiled'
                    /\ (Clash(m, n) => Pending(osEvents, m) \/ m \in DOMAIN disk)
                => GoneFirst(osEvents, m)'
  BY TouchedEvents
<1>2. \A m : m # n /\ m \in DOMAIN disk' <=> m # n /\ m \in DOMAIN disk
  BY TouchedIs, TypesAre
<1>3. /\ Worse /\ spoiled \subseteq spoiled'
      /\ UNCHANGED <<dirThere, notifier, serviceVars, call, unreported>>
  BY DEF Touched, Worse
<1>4. NotifierOK'
  BY <1>1, <1>3 DEF NotifierOK, serviceVars
<1>5. ReportsOK'
  BY <1>3 DEF ReportsOK, serviceVars
<1>6. ASSUME NEW z \in Zids PROVE EntryOK(z)'
  <2> DEFINE e == EntryOf(entries, z)
  <2>1. EntryOK(z) /\ e \in Entry /\ FilesOf(e) \subseteq Names
    BY TypesAre, EntryIs DEF EntriesOK
  <2>2. EntryOf(entries, z)' = e
    BY <1>3 DEF EntryOf, serviceVars
  <2>3. \A m \in FilesOf(e) : ZidOf[m] = z
    BY <2>1 DEF EntryOK
  <2>4. CASE z \in spoiled'
    BY <2>2, <2>3, <2>4 DEF EntryOK
  <2>5. CASE z \notin spoiled'
    <3>1. z \notin spoiled
      BY <1>3, <2>5
    <3> HIDE DEF e
    <3>2. /\ WellFormed(e) /\ Separate(osEvents, e) /\ OneIsGone(osEvents, e)
          /\ z \in DOMAIN entries => FilesOf(e) # {} \/ Reserved(z)
      BY <2>1, <3>1 DEF EntryOK, e
    <3>3. \A m \in FilesOf(e) :
            \/ Pending(osEvents, m) \/ m \in DOMAIN disk
            \/ \E c \in Clients : Under("update", c, z) /\ m \in FilesOf(call[c].entry)
      BY <2>1, <3>1 DEF EntryOK, e
    <3>4. known /\ ~Awaited(osEvents, "DirRename") =>
            \A m \in DiskOf(z) :
                Pending(osEvents, m) \/ m \in FilesOf(e) \/ \E c \in Clients : Under("delete", c, z)
      BY <2>1, <3>1 DEF EntryOK, e
    <3>5. \A c \in Clients : Under("update", c, z)' <=> Under("update", c, z)
      BY <1>3 DEF Under
    <3>6. \A c \in Clients : Under("delete", c, z)' <=> Under("delete", c, z)
      BY <1>3 DEF Under
    <3>7. Reserved(z)' <=> Reserved(z)
      BY <1>3 DEF Reserved
    <3>8. ASSUME NEW m \in FilesOf(e), GoneFirst(osEvents, m) PROVE GoneFirst(osEvents, m)'
      <4>1. ASSUME Clash(m, n) PROVE Pending(osEvents, m) \/ m \in DOMAIN disk
        <5> SUFFICES ASSUME NEW c \in Clients, Under("update", c, z), m \in FilesOf(call[c].entry)
                     PROVE  FALSE
          BY <3>3
        <5>1. IsChange(call[c].op) /\ call[c].zid = z /\ ZidOf[n] = z
          BY <2>3, <4>1 DEF Under, IsChange, Clash
        <5>2. n \in FilesOf(call[c].entry)
          BY <2>5, <5>1
        <5>3. Harmless(FilesOf(call[c].entry))
          BY <3>1, <5>1 DEF ChangesOK, ChangeOK
        <5> QED
          BY <4>1, <5>2, <5>3 DEF Harmless
      <4> QED
        BY <1>1, <2>1, <2>3, <2>5, <3>8, <4>1 DEF e
    <3>9. Separate(osEvents', e) /\ OneIsGone(osEvents', e)
      BY <3>2, <3>8 DEF Separate, OneIsGone
    <3>10. \A m \in FilesOf(e) :
            \/ Pending(osEvents, m)' \/ m \in DOMAIN disk'
            \/ \E c \in Clients : Under("update", c, z)' /\ m \in FilesOf(call'[c].entry)
      <4> SUFFICES ASSUME NEW m \in FilesOf(e), ~Pending(osEvents, m)', m \notin DOMAIN disk'
                   PROVE  \E c \in Clients : Under("update", c, z)' /\ m \in FilesOf(call'[c].entry)
        OBVIOUS
      <4>1. ~Pending(osEvents, m) /\ m \notin DOMAIN disk
        BY <1>1, <1>2
      <4>2. PICK c \in Clients : Under("update", c, z) /\ m \in FilesOf(call[c].entry)
        BY <3>3, <4>1
      <4>3. call'[c].entry = call[c].entry
        BY <1>3
      <4> QED
        BY <3>5, <4>2, <4>3
    <3>11. known /\ ~Awaited(osEvents, "DirRename")' =>
            \A m \in DiskOf(z)' :
                Pending(osEvents, m)' \/ m \in FilesOf(e) \/ \E c \in Clients : Under("delete", c, z)'
      <4>1. \A m \in DiskOf(z)' : m = n \/ m \in DiskOf(z)
        BY <1>2 DEF DiskOf
      <4> QED
        BY <1>1, <3>4, <3>6, <4>1
    <3> QED
      BY <1>3, <2>2, <2>3, <3>2, <3>7, <3>9, <3>10, <3>11 DEF EntryOK, serviceVars
  <2> QED
    BY <2>4, <2>5
<1>7. ASSUME notifier.pc = "list", listing, NEW z \in Zids PROVE ListOK(z)'
  <2>1. ListOK(z)
    BY <1>7 DEF ListsOK
  <2>2. EntryOf(newEntries, z)' = EntryOf(newEntries, z) /\ Listed(z)' = Listed(z)
    BY <1>3 DEF EntryOf, Listed, serviceVars
  <2>3. z \notin spoiled' => z \notin spoiled
    BY <1>3
  <2>4. \A m \in DiskOf(z)' : m = n \/ m \in DiskOf(z)
    BY <1>2 DEF DiskOf
  <2>5. \A m : m \in DOMAIN disk => m = n \/ m \in DOMAIN disk'
    BY <1>2
  <2> QED
    BY <1>1, <1>3, <2>1, <2>2, <2>3, <2>4, <2>5 DEF ListOK, serviceVars
<1>8. ListsOK'
  BY <1>3, <1>7 DEF ListsOK, serviceVars
<1> QED
  BY <1>4, <1>5, <1>6, <1>8 DEF EntriesOK

-----------------------------------------------------------------------------
(* A file service goes on with a command.                                   *)
LEMMA HeadTailIs ==
  ASSUME NEW s \in Seq(Names), s # <<>>
  PROVE  /\ Head(s) \in Names /\ Tail(s) \in Seq(Names)
         /\ ToSet(s) = {Head(s)} \union ToSet(Tail(s))
         /\ Injective(s) => Injective(Tail(s)) /\ Head(s) \notin ToSet(Tail(s))
<1> DEFINE t == Tail(s)
<1>1. /\ Len(s) \in Nat \ {0} /\ DOMAIN s = 1 .. Len(s) /\ Head(s) = s[1] /\ Head(s) \in Names
      /\ t \in Seq(Names) /\ DOMAIN t = 1 .. Len(s) - 1
      /\ \A i \in 1 .. Len(s) - 1 : t[i] = s[i + 1]
  OBVIOUS
<1> HIDE DEF t
<1>2. \A i \in DOMAIN s : i = 1 \/ (i - 1 \in DOMAIN t /\ s[i] = t[i - 1])
  BY <1>1
<1>3. 1 \in DOMAIN s /\ \A i \in DOMAIN t : i + 1 \in DOMAIN s /\ t[i] = s[i + 1] /\ i + 1 # 1
  BY <1>1
<1>4. ToSet(s) = {Head(s)} \union ToSet(t)
  BY <1>1, <1>2, <1>3 DEF ToSet
<1>5. ASSUME Injective(s) PROVE Injective(t) /\ Head(s) \notin ToSet(t)
  <2>1. \A i, j \in DOMAIN t : i + 1 = j + 1 => i = j
    BY <1>1
  <2>2. Injective(t)
    BY <1>3, <1>5, <2>1 DEF Injective
  <2>3. Head(s) \notin ToSet(t)
    BY <1>1, <1>3, <1>5 DEF Injective, ToSet
  <2> QED
    BY <2>2, <2>3
<1> QED
  BY <1>1, <1>4, <1>5 DEF t

LEMMA DoneIs ==
  ASSUME TypeOK, NEW k \in Workers, NEW ok \in BOOLEAN, NEW seen \in SUBSET Nat,
         NEW rest \in Seq(Names), Done(k, ok, seen, rest)
  PROVE  /\ worker' \in [Workers -> Jobs]
         /\ \A j \in Workers : j # k => worker'[j] = worker[j]
         /\ worker'[k].client = worker[k].client /\ worker'[k].op = worker[k].op
         /\ worker'[k].entry = worker[k].entry
         /\ worker'[k].todo = rest /\ (worker'[k].ok <=> worker[k].ok /\ ok)
<1>1. worker \in [Workers -> Jobs] /\ worker[k] \in Jobs
  BY TypesAre DEF TypeOK
<1> DEFINE j == [worker[k] EXCEPT !.todo = rest, !.ok = @ /\ ok, !.seen = @ \union seen]
<1>2. /\ j \in Jobs /\ j.client = worker[k].client /\ j.op = worker[k].op
      /\ j.entry = worker[k].entry /\ j.todo = rest /\ (j.ok <=> worker[k].ok /\ ok)
  BY <1>1 DEF Jobs
<1>3. worker' = [worker EXCEPT ![k] = j]
  BY <1>1 DEF Done
<1> HIDE DEF j
<1> QED
  BY <1>1, <1>2, <1>3

JobGoesOn(k) ==
    /\ worker[k].todo # <<>>
    /\ \A j \in Workers : j # k => worker'[j] = worker[j]
    /\ worker'[k].client = worker[k].client /\ worker'[k].op = worker[k].op
    /\ worker'[k].entry = worker[k].entry
    /\ ToSet(worker'[k].todo) \subseteq ToSet(worker[k].todo)

LEMMA JobFrame ==
  ASSUME TypeOK, ClientsOK, WorkersOK, Worse, NEW k \in Workers, JobGoesOn(k), UNCHANGED call
  PROVE  ClientsOK' /\ WorkersOK'
<1>1. \A j \in Workers :
        /\ worker'[j].client = worker[j].client /\ worker'[j].op = worker[j].op
        /\ worker'[j].entry = worker[j].entry
        /\ ToSet(worker'[j].todo) \subseteq ToSet(worker[j].todo)
        /\ worker'[j].todo # <<>> => worker[j].op # "none"
  BY DEF JobGoesOn, WorkersOK, WorkerOK
<1>2. ASSUME NEW c \in Clients PROVE ClientOK(c)'
  <2>1. ClientOK(c)
    BY DEF ClientsOK
  <2>2. call[c].pc # "idle" => WorkerOf[call[c].zid] \in Workers
    BY <2>1, TypesAre DEF ClientOK
  <2>3. call[c].pc = "wait" => worker'[WorkerOf[call[c].zid]].client = c
    BY <1>1, <2>1, <2>2 DEF ClientOK, Job
  <2> QED
    BY <2>1, <2>3 DEF ClientOK, Job
<1>3. ASSUME NEW j \in Workers PROVE WorkerOK(j)'
  <2>1. WorkerOK(j)
    BY DEF WorkersOK
  <2> QED
    BY <1>1, <2>1 DEF WorkerOK, Worse
<1> QED
  BY <1>2, <1>3 DEF ClientsOK, WorkersOK

(* The call of a client does not change, and neither does its zettel. *)
LEMMA ChangeFrame ==
  ASSUME NEW c \in Clients, ChangeOK(c), Worse, call'[c] = call[c],
         IsChange(call[c].op) /\ call[c].zid \notin spoiled' =>
            /\ DiskOf(call[c].zid)' = DiskOf(call[c].zid)
            /\ dirThere' = dirThere
            /\ \A d \in Clients : IsChange(call'[d].op) /\ call'[d].zid = call[c].zid
                    => d = c \/ (IsChange(call[d].op) /\ call[d].zid = call[c].zid)
            /\ call[c].pc = "wait" => Job(c)' = Job(c)
  PROVE  ChangeOK(c)'
<1> SUFFICES ASSUME IsChange(call[c].op), call[c].zid \notin spoiled'
             PROVE  ChangeOK(c)'
  BY DEF ChangeOK
<1> DEFINE z == call[c].zid
           e == call[c].entry
<1>1. /\ dirThere
      /\ \A d \in Clients : IsChange(call[d].op) /\ call[d].zid = z => c = d
      /\ WellFormed(e) /\ Harmless(FilesOf(e)) /\ ~Unnamed(e)
      /\ call[c].pc = "wait" => Job(c).ok
      /\ call[c].op # "delete" =>
            DiskOf(z) \subseteq FilesOf(e) /\ FilesOf(e) \subseteq DiskOf(z) \union Unwritten(c)
      /\ call[c].op = "delete" =>
            /\ DiskOf(z) = Undeleted(c)
            /\ call[c].pc = "wait" => Injective(Job(c).todo)
  BY DEF ChangeOK, Worse
<1>2. Unwritten(c)' = Unwritten(c) /\ Undeleted(c)' = Undeleted(c)
  BY DEF Unwritten, Undeleted, Todo
<1>3. dirThere' /\ DiskOf(z)' = DiskOf(z) /\ (call[c].pc = "wait" => Job(c)' = Job(c))
  BY <1>1
<1>4. \A d \in Clients : IsChange(call'[d].op) /\ call'[d].zid = z => c = d
  BY <1>1
<1> QED
  BY <1>1, <1>2, <1>3, <1>4 DEF ChangeOK

(* The file is that of a client, or of a spoiled zettel.                    *)
LEMMA JobIs ==
  ASSUME TypeOK, ClientsOK, WorkersOK, NEW k \in Workers, worker[k].todo # <<>>, IsChange(worker[k].op)
  PROVE  LET n == Head(worker[k].todo)
             c == worker[k].client
         IN  /\ n \in Names
             /\ ZidOf[n] \in spoiled
                \/ /\ c \in Clients /\ call[c].pc = "wait" /\ WorkerOf[call[c].zid] = k
                   /\ worker[k] = Job(c) /\ call[c].op = worker[k].op
                   /\ n \in FilesOf(call[c].entry) /\ ZidOf[n] = call[c].zid /\ call[c].zid \in Zids
             /\ \A d \in Clients : call[d].pc = "wait" /\ d # c => WorkerOf[call[d].zid] # k
<1> DEFINE n == Head(worker[k].todo)
           c == worker[k].client
<1>1. worker[k].todo \in Seq(Names) /\ c \in Clients \union {Nobody}
  BY TypesAre
<1>2. n \in Names /\ n \in ToSet(worker[k].todo)
  BY <1>1, HeadTailIs
<1>3. WorkerOK(k)
  BY DEF WorkersOK
<1>4. \A d \in Clients : call[d].pc = "wait" /\ d # c => WorkerOf[call[d].zid] # k
  BY DEF ClientsOK, ClientOK, Job
<1>5. CASE c = Nobody
  <2>1. ZidOf[n] \in spoiled
    BY <1>2, <1>3, <1>5 DEF WorkerOK
  <2> QED
    BY <1>2, <1>4, <2>1
<1>6. CASE c # Nobody
  <2>1. /\ c \in Clients /\ call[c].pc = "wait" /\ WorkerOf[call[c].zid] = k
        /\ call[c].op = worker[k].op /\ n \in FilesOf(call[c].entry)
    BY <1>1, <1>2, <1>3, <1>6 DEF WorkerOK
  <2>2. ClientOK(c)
    BY <2>1 DEF ClientsOK
  <2>3. ZidOf[n] = call[c].zid /\ call[c].zid \in Zids
    BY <2>1, <2>2 DEF ClientOK
  <2>4. worker[k] = Job(c)
    BY <2>1 DEF Job
  <2> QED
    BY <1>2, <1>4, <2>1, <2>3, <2>4
<1> QED
  BY <1>5, <1>6

(* The others are not concerned. *)
LEMMA OtherJobs ==
  ASSUME TypeOK, ClientsOK, WorkersOK, ChangesOK, Worse, UNCHANGED <<call, dirThere>>,
         NEW k \in Workers, JobGoesOn(k), IsChange(worker[k].op),
         \A m : ZidOf[m] # ZidOf[Head(worker[k].todo)] => (m \in DOMAIN disk' <=> m \in DOMAIN disk),
         NEW d \in Clients, d # worker[k].client
  PROVE  ChangeOK(d)'
<1> DEFINE n == Head(worker[k].todo)
           c == worker[k].client
           z == call[d].zid
<1>1. ChangeOK(d)
  BY DEF ChangesOK
<1>2. worker[k].todo # <<>> /\ \A j \in Workers : j # k => worker'[j] = worker[j]
  BY DEF JobGoesOn
<1>3. ASSUME IsChange(call[d].op), z \notin spoiled' PROVE DiskOf(z)' = DiskOf(z)
  <2>1. ZidOf[n] # z
    <3>1. z \notin spoiled
      BY <1>3 DEF Worse
    <3> SUFFICES ASSUME ZidOf[n] = z PROVE FALSE
      OBVIOUS
    <3>2. /\ c \in Clients /\ call[c].op = worker[k].op /\ call[c].zid = z
      BY <1>2, <3>1, JobIs
    <3> QED
      BY <1>1, <1>3, <3>1, <3>2 DEF ChangeOK
  <2> QED
    BY <2>1 DEF DiskOf
<1>4. ASSUME IsChange(call[d].op), call[d].pc = "wait" PROVE Job(d)' = Job(d)
  <2>1. ClientOK(d)
    BY DEF ClientsOK
  <2>2. z \in Zids /\ WorkerOf[z] \in Workers
    BY <1>4, <2>1, TypesAre DEF ClientOK
  <2>3. WorkerOf[z] # k
    BY <1>2, <1>4, JobIs
  <2> QED
    BY <1>2, <2>2, <2>3 DEF Job
<1> HIDE DEF n, c
<1> QED
  BY <1>1, <1>3, <1>4, ChangeFrame

LEMMA SpendIs ==
  ASSUME TypeOK, NEW what \in {"outside", "moves", "calls", "refreshes", "timeouts", "failures"},
         Spend(what)
  PROVE  budget' \in Budget
<1>1. budget \in Budget /\ budget[what] \in Nat
  BY DEF TypeOK, Budget
<1> QED
  BY <1>1 DEF Spend, Budget

(* The types of a step that leaves notifier and service as they are.        *)
LEMMA OutsideTypes ==
  ASSUME TypeOK, DOMAIN disk' \subseteq Names, \A n \in DOMAIN disk' : disk'[n] \in Nat,
         osEvents' \in Seq(Events), dirThere' \in BOOLEAN,
         call' \in [Clients -> Calls], worker' \in [Workers -> Jobs], budget' \in Budget,
         UNCHANGED <<notifier, serviceVars, unreported>>
  PROVE  TypeOK'
BY DEF TypeOK, serviceVars, IsEntries

LEMMA WriteFileStep ==
  ASSUME IInv, Watch, NEW k \in Workers, WriteFile(k)
  PROVE  IInv'
<1> DEFINE n == Head(worker[k].todo)
           c == worker[k].client
           rest == Tail(worker[k].todo)
<1> USE DEF IInv
<1>1. worker[k].todo # <<>> /\ worker[k].op \in {"create", "update"} /\ IsChange(worker[k].op)
  BY DEF WriteFile, IsChange
<1>2. worker[k].todo \in Seq(Names) /\ worker[k].id \in Nat
  BY TypesAre DEF Jobs
<1>3. /\ n \in Names /\ rest \in Seq(Names) /\ ToSet(worker[k].todo) = {n} \union ToSet(rest)
  BY <1>1, <1>2, HeadTailIs
<1>4. UNCHANGED <<dirThere, notifier, serviceVars, call, budget, unreported>>
  BY DEF WriteFile
<1>5. call' \in [Clients -> Calls] /\ budget' \in Budget /\ dirThere' \in BOOLEAN
  BY <1>4 DEF TypeOK
<1>6. CASE dirThere
  <2>1. Write(n, worker[k].id) /\ Spoil(Lossy(DOMAIN disk')) /\ Done(k, TRUE, {}, rest)
    BY <1>6 DEF WriteFile
  <2>2. Worse /\ Touched(n)
    BY <1>2, <1>4, <1>6, <2>1 DEF Touched, Worse, Spoil
  <2>3. /\ worker' \in [Workers -> Jobs]
        /\ \A j \in Workers : j # k => worker'[j] = worker[j]
        /\ worker'[k].client = worker[k].client /\ worker'[k].op = worker[k].op
        /\ worker'[k].entry = worker[k].entry
        /\ worker'[k].todo = rest /\ (worker'[k].ok <=> worker[k].ok /\ TRUE)
    BY <1>3, <2>1, DoneIs
  <2>4. JobGoesOn(k)
    BY <1>1, <1>3, <2>3 DEF JobGoesOn
  <2>5. ClientsOK' /\ WorkersOK'
    BY <1>4, <2>2, <2>4, JobFrame
  <2>6. DiskOK' /\ EventsOK' /\ osEvents' \in Seq(Events)
    BY <1>3, <2>2, TouchedEvents
  <2>7. TypeOK'
    BY <1>3, <1>4, <1>5, <2>2, <2>3, <2>6, TouchedIs, OutsideTypes
  <2>8. \/ ZidOf[n] \in spoiled
        \/ /\ c \in Clients /\ call[c].pc = "wait" /\ WorkerOf[call[c].zid] = k
           /\ worker[k] = Job(c) /\ call[c].op = worker[k].op
           /\ n \in FilesOf(call[c].entry) /\ ZidOf[n] = call[c].zid /\ call[c].zid \in Zids
    BY <1>1, JobIs
  <2>9. ASSUME ZidOf[n] \notin spoiled', NEW d \in Clients, IsChange(call[d].op), call[d].zid = ZidOf[n]
        PROVE  n \in FilesOf(call[d].entry)
    <3>1. ZidOf[n] \notin spoiled
      BY <2>2, <2>9 DEF Worse
    <3>2. d = c
      BY <1>1, <2>8, <2>9, <3>1 DEF ChangesOK, ChangeOK
    <3> QED
      BY <2>8, <3>1, <3>2
  <2>10. EntriesOK' /\ ListsOK' /\ NotifierOK' /\ ReportsOK'
    BY <1>3, <2>2, <2>9, TouchedEntries
  <2>11. DOMAIN disk' = DOMAIN disk \union {n}
    BY <2>1 DEF Write, With
  <2>12. ASSUME NEW d \in Clients, d # c PROVE ChangeOK(d)'
    BY <1>1, <1>4, <2>2, <2>4, <2>11, <2>12, OtherJobs
  <2>13. ASSUME c \in Clients PROVE ChangeOK(c)'
    <3> SUFFICES ASSUME ~(call[c].zid \in spoiled') PROVE ChangeOK(c)'
      BY <1>4, <2>3 DEF ChangeOK
    <3> DEFINE e == call[c].entry
               z == call[c].zid
    <3>1. /\ call[c].pc = "wait" /\ WorkerOf[z] = k
          /\ worker[k] = Job(c) /\ call[c].op = worker[k].op
          /\ n \in FilesOf(e) /\ ZidOf[n] = z
      <4>1. WorkerOK(k) /\ c # Nobody
        BY <2>13, ClientsAssumption DEF WorkersOK
      <4>2. call[c].pc = "wait" /\ ToSet(worker[k].todo) \subseteq FilesOf(e)
        BY <4>1 DEF WorkerOK
      <4>3. ZidOf[n] = z
        BY <1>3, <2>13, <4>2 DEF ClientsOK, ClientOK
      <4> QED
        BY <2>2, <2>8, <4>3 DEF Worse
    <3>2. z \notin spoiled /\ IsChange(call[c].op) /\ call[c].op # "delete"
      BY <1>1, <2>2, <3>1 DEF Worse
    <3>3. /\ dirThere
          /\ \A d \in Clients : IsChange(call[d].op) /\ call[d].zid = z => c = d
          /\ WellFormed(e) /\ Harmless(FilesOf(e)) /\ ~Unnamed(e)
          /\ Job(c).ok
          /\ DiskOf(z) \subseteq FilesOf(e) /\ FilesOf(e) \subseteq DiskOf(z) \union Unwritten(c)
      BY <2>13, <3>1, <3>2 DEF ChangesOK, ChangeOK
    <3>4. Unwritten(c) = {n} \union ToSet(rest) /\ Unwritten(c)' = ToSet(rest)
      BY <1>3, <1>4, <2>3, <3>1 DEF Unwritten, Todo, Job
    <3>5. DiskOf(z)' = DiskOf(z) \union {n}
      BY <1>4, <2>3, <2>11, <3>1 DEF DiskOf
    <3>6. Job(c)'.ok
      BY <1>4, <2>3, <3>1, <3>3 DEF Job
    <3> QED
      BY <1>4, <2>3, <3>1, <3>2, <3>3, <3>4, <3>5, <3>6 DEF ChangeOK
  <2>14. ChangesOK'
    BY <2>3, <2>12, <2>13 DEF ChangesOK
  <2> QED
    BY <2>5, <2>6, <2>7, <2>10, <2>14
<1>7. CASE ~dirThere
  <2>1. Done(k, FALSE, {}, <<>>) /\ UNCHANGED <<disk, osEvents, spoiled>>
    BY <1>7 DEF WriteFile
  <2>2. /\ worker' \in [Workers -> Jobs]
        /\ \A j \in Workers : j # k => worker'[j] = worker[j]
        /\ worker'[k].client = worker[k].client /\ worker'[k].op = worker[k].op
        /\ worker'[k].entry = worker[k].entry /\ worker'[k].todo = <<>>
    <3>1. <<>> \in Seq(Names)
      OBVIOUS
    <3> QED
      BY <2>1, <3>1, DoneIs
  <2>3. Worse
    BY <2>1 DEF Worse
  <2>4. JobGoesOn(k)
    BY <1>1, <2>2 DEF JobGoesOn, ToSet
  <2>5. ClientsOK' /\ WorkersOK'
    BY <1>4, <2>3, <2>4, JobFrame
  <2>6. TypeOK'
    BY <1>4, <1>5, <2>1, <2>2, OutsideTypes DEF TypeOK
  <2>7. DiskOK' /\ EventsOK' /\ NotifierOK' /\ ListsOK'
    BY <1>4, <2>1, <2>3, DiskFrame, EventsFrame, NotifierFrame, ListsFrame DEF serviceVars
  <2>8. EntriesOK'
    BY <1>4, <2>1, <2>3, EntriesFrame, SameCalls DEF serviceVars
  <2>9. ReportsOK'
    BY <1>4, <2>3, ReportsFrame DEF serviceVars
  <2>10. ChangesOK'
    BY <1>4, <1>7, <2>1 DEF ChangesOK, ChangeOK
  <2> QED
    BY <2>5, <2>6, <2>7, <2>8, <2>9, <2>10
<1> QED
  BY <1>6, <1>7

LEMMA RemoveFileStep ==
  ASSUME IInv, Watch, NEW k \in Workers, RemoveFile(k)
  PROVE  IInv'
<1> DEFINE n == Head(worker[k].todo)
           rest == Tail(worker[k].todo)
<1> USE DEF IInv
<1>1. worker[k].todo # <<>> /\ worker[k].op = "delete" /\ IsChange(worker[k].op)
  BY DEF RemoveFile, IsChange
<1>2. worker[k].todo \in Seq(Names)
  BY TypesAre
<1>3. /\ n \in Names /\ rest \in Seq(Names) /\ ToSet(worker[k].todo) = {n} \union ToSet(rest)
      /\ Injective(worker[k].todo) => Injective(rest) /\ n \notin ToSet(rest)
  BY <1>1, <1>2, HeadTailIs
<1>4. UNCHANGED <<dirThere, spoiled, notifier, serviceVars, call, budget, unreported>> /\ Worse
  BY DEF RemoveFile, Worse
<1>5. call' \in [Clients -> Calls] /\ budget' \in Budget /\ dirThere' \in BOOLEAN
  BY <1>4 DEF TypeOK
<1>6. Done(k, Present(n), {}, rest)
  BY DEF RemoveFile
<1>7. /\ worker' \in [Workers -> Jobs]
      /\ \A j \in Workers : j # k => worker'[j] = worker[j]
      /\ worker'[k].client = worker[k].client /\ worker'[k].op = worker[k].op
      /\ worker'[k].entry = worker[k].entry
      /\ worker'[k].todo = rest /\ (worker'[k].ok <=> worker[k].ok /\ Present(n))
  <2>1. Present(n) \in BOOLEAN
    BY DEF TypeOK, Present
  <2> HIDE DEF rest
  <2> QED
    BY <1>3, <1>6, <2>1, DoneIs
<1>8. JobGoesOn(k)
  BY <1>1, <1>3, <1>7 DEF JobGoesOn
<1>9. ClientsOK' /\ WorkersOK'
  BY <1>4, <1>8, JobFrame
<1>10. CASE Present(n)
  <2>1. dirThere /\ n \in DOMAIN disk /\ RemoveFrom(n)
    BY <1>10 DEF RemoveFile, Present
  <2>2. DOMAIN disk' = DOMAIN disk \ {n}
    BY <2>1 DEF RemoveFrom, Without
  <2>3. Lossy(DOMAIN disk') \subseteq spoiled'
    <3>1. Lossy(DOMAIN disk') \subseteq Lossy(DOMAIN disk)
      BY <2>2 DEF Lossy, Mixed
    <3> QED
      BY <1>4, <3>1 DEF DiskOK
  <2>4. Touched(n)
    BY <1>4, <2>1, <2>3 DEF Touched
  <2>5. DiskOK' /\ EventsOK' /\ osEvents' \in Seq(Events)
    BY <1>3, <2>4, TouchedEvents
  <2>6. TypeOK'
    BY <1>3, <1>4, <1>5, <1>7, <2>4, <2>5, TouchedIs, OutsideTypes
  <2>7. \/ ZidOf[n] \in spoiled
        \/ \E c \in Clients :
           /\ c = worker[k].client
           /\ call[c].pc = "wait" /\ WorkerOf[call[c].zid] = k
           /\ worker[k] = Job(c) /\ call[c].op = worker[k].op
           /\ n \in FilesOf(call[c].entry) /\ ZidOf[n] = call[c].zid /\ call[c].zid \in Zids
    BY <1>1, JobIs
  <2>8. ASSUME ZidOf[n] \notin spoiled', NEW d \in Clients, IsChange(call[d].op), call[d].zid = ZidOf[n]
        PROVE  n \in FilesOf(call[d].entry)
    <3>1. ZidOf[n] \notin spoiled
      BY <1>4, <2>8
    <3>2. PICK c \in Clients : call[c].op = worker[k].op /\ n \in FilesOf(call[c].entry) /\ ZidOf[n] = call[c].zid
      BY <2>7, <3>1
    <3>3. d = c
      BY <1>1, <2>8, <3>1, <3>2 DEF ChangesOK, ChangeOK
    <3> QED
      BY <3>2, <3>3
  <2>9. EntriesOK' /\ ListsOK' /\ NotifierOK' /\ ReportsOK'
    BY <1>3, <2>4, <2>8, TouchedEntries
  <2>10. ASSUME NEW d \in Clients, d # worker[k].client PROVE ChangeOK(d)'
    BY <1>1, <1>4, <1>8, <2>2, <2>10, OtherJobs
  <2>11. ASSUME NEW c \in Clients, c = worker[k].client PROVE ChangeOK(c)'
    <3> SUFFICES ASSUME ~(call[c].zid \in spoiled) PROVE ChangeOK(c)'
      BY <1>4 DEF ChangeOK
    <3> DEFINE e == call[c].entry
               z == call[c].zid
    <3>1. /\ call[c].pc = "wait" /\ WorkerOf[z] = k
          /\ worker[k] = Job(c) /\ call[c].op = worker[k].op /\ ZidOf[n] = z
      <4>1. WorkerOK(k) /\ c # Nobody
        BY <2>11, ClientsAssumption DEF WorkersOK
      <4>2. call[c].pc = "wait" /\ ToSet(worker[k].todo) \subseteq FilesOf(e)
        BY <2>11, <4>1 DEF WorkerOK
      <4>3. ZidOf[n] = z
        BY <1>3, <2>11, <4>2 DEF ClientsOK, ClientOK
      <4> QED
        BY <2>7, <2>11, <4>3
    <3>2. IsChange(call[c].op) /\ call[c].op = "delete"
      BY <1>1, <3>1
    <3>3. /\ dirThere
          /\ \A d \in Clients : IsChange(call[d].op) /\ call[d].zid = z => c = d
          /\ WellFormed(e) /\ Harmless(FilesOf(e)) /\ ~Unnamed(e)
          /\ Job(c).ok /\ DiskOf(z) = Undeleted(c) /\ Injective(Job(c).todo)
      BY <2>11, <3>1, <3>2 DEF ChangesOK, ChangeOK
    <3>4. Job(c)' = worker'[k]
      BY <1>4, <3>1 DEF Job
    <3>5. Undeleted(c) = {n} \union ToSet(rest) /\ Undeleted(c)' = ToSet(rest) /\ n \notin ToSet(rest)
      <4>1. Undeleted(c) = ToSet(worker[k].todo) /\ Undeleted(c)' = ToSet(worker'[k].todo)
        BY <1>4, <3>1, <3>4 DEF Undeleted, Todo
      <4> QED
        BY <1>3, <1>7, <3>1, <3>3, <4>1
    <3>6. DiskOf(z)' = DiskOf(z) \ {n}
      BY <1>4, <2>2 DEF DiskOf
    <3>7. Job(c)'.ok /\ Injective(Job(c)'.todo)
      BY <1>3, <1>7, <1>10, <3>1, <3>3, <3>4
    <3> QED
      BY <1>4, <3>1, <3>2, <3>3, <3>5, <3>6, <3>7 DEF ChangeOK
  <2>12. ChangesOK'
    BY <2>10, <2>11 DEF ChangesOK
  <2> QED
    BY <1>9, <2>5, <2>6, <2>9, <2>12
<1>11. CASE ~Present(n)
  <2>1. UNCHANGED <<disk, osEvents>>
    BY <1>11 DEF RemoveFile
  <2>2. TypeOK'
    BY <1>4, <1>5, <1>7, <2>1, OutsideTypes DEF TypeOK
  <2>3. DiskOK' /\ EventsOK' /\ NotifierOK' /\ ListsOK'
    BY <1>4, <2>1, DiskFrame, EventsFrame, NotifierFrame, ListsFrame DEF serviceVars
  <2>4. EntriesOK'
    BY <1>4, <2>1, EntriesFrame, SameCalls DEF serviceVars
  <2>5. ReportsOK'
    BY <1>4, ReportsFrame DEF serviceVars
  <2>6. ASSUME NEW d \in Clients, d # worker[k].client PROVE ChangeOK(d)'
    BY <1>1, <1>4, <1>8, <2>1, <2>6, OtherJobs
  <2>7. ASSUME NEW c \in Clients, c = worker[k].client PROVE ChangeOK(c)'
    <3> SUFFICES ASSUME ~(call[c].zid \in spoiled) PROVE FALSE
      BY <1>4 DEF ChangeOK
    <3>1. WorkerOK(k) /\ c # Nobody
      BY <2>7, ClientsAssumption DEF WorkersOK
    <3>2. call[c].pc = "wait" /\ WorkerOf[call[c].zid] = k /\ call[c].op = "delete"
      BY <1>1, <2>7, <3>1 DEF WorkerOK
    <3>3. dirThere /\ DiskOf(call[c].zid) = Undeleted(c)
      BY <2>7, <3>2 DEF ChangesOK, ChangeOK, IsChange
    <3>4. n \in Undeleted(c)
      BY <1>3, <3>2 DEF Undeleted, Todo, Job
    <3> QED
      BY <1>11, <3>3, <3>4 DEF DiskOf, Present
  <2>8. ChangesOK'
    BY <2>6, <2>7 DEF ChangesOK
  <2> QED
    BY <1>9, <2>2, <2>3, <2>4, <2>5, <2>8
<1> QED
  BY <1>10, <1>11

LEMMA OtherProgramStep ==
  ASSUME IInv, Watch, OtherProgram
  PROVE  IInv'
<1> USE DEF IInv
<1>1. /\ UNCHANGED <<dirThere, notifier, serviceVars, call, worker, unreported>>
      /\ dirThere /\ Spend("outside")
  BY DEF OtherProgram
<1>2. PICK n \in Names :
        /\ \/ Write(n, Foreign)
           \/ n \in DOMAIN disk /\ RemoveFrom(n)
        /\ Spoil(Lossy(DOMAIN disk') \union ({ZidOf[n]} \intersect Changing))
  BY DEF OtherProgram
<1>3. Touched(n)
  BY <1>1, <1>2 DEF Touched, Worse, Spoil, Foreign
<1>4. Worse /\ ZidOf[n] \in Changing => ZidOf[n] \in spoiled'
  BY <1>2 DEF Spoil
<1>5. DiskOK' /\ EventsOK' /\ osEvents' \in Seq(Events)
  BY <1>3, TouchedEvents
<1>6. budget' \in Budget
  BY <1>1, SpendIs
<1>7. TypeOK'
  <2>1. call' \in [Clients -> Calls] /\ worker' \in [Workers -> Jobs] /\ dirThere' \in BOOLEAN
    BY <1>1 DEF TypeOK
  <2> QED
    BY <1>1, <1>3, <1>5, <1>6, <2>1, TouchedIs, OutsideTypes
<1>8. \A d \in Clients : IsChange(call[d].op) => call[d].zid \in Changing
  BY DEF Changing, IsChange
<1>9. EntriesOK' /\ ListsOK' /\ NotifierOK' /\ ReportsOK'
  BY <1>3, <1>4, <1>8, TouchedEntries DEF Touched
<1>10. ClientsOK'
  BY <1>1 DEF ClientsOK, ClientOK, Job
<1>11. WorkersOK'
  BY <1>1, <1>3 DEF WorkersOK, WorkerOK, Touched, Worse
<1>12. ASSUME NEW d \in Clients PROVE ChangeOK(d)'
  <2>1. ChangeOK(d) /\ call'[d] = call[d] /\ Worse
    BY <1>1, <1>3 DEF ChangesOK, Touched
  <2>2. Job(d)' = Job(d)
    BY <1>1 DEF Job
  <2>3. ASSUME IsChange(call[d].op), call[d].zid \notin spoiled' PROVE DiskOf(call[d].zid)' = DiskOf(call[d].zid)
    <3>1. call[d].zid # ZidOf[n]
      BY <1>4, <1>8, <2>1, <2>3
    <3>2. \A m : m # n => (m \in DOMAIN disk' <=> m \in DOMAIN disk)
      BY <1>3, TouchedIs, TypesAre
    <3> QED
      BY <1>1, <3>1, <3>2 DEF DiskOf
  <2> QED
    BY <1>1, <2>1, <2>2, <2>3, ChangeFrame
<1> QED
  BY <1>5, <1>7, <1>9, <1>10, <1>11, <1>12 DEF ChangesOK

LEMMA MoveDirectoryStep ==
  ASSUME IInv, Watch, MoveDirectory
  PROVE  IInv'
<1> USE DEF IInv
<1> DEFINE ev == [op |-> IF dirThere THEN "DirRename" ELSE "DirCreate", name |-> NoName]
<1>1. /\ UNCHANGED <<disk, notifier, serviceVars, call, worker, unreported, excused>>
      /\ Spend("moves") /\ dirThere' = ~dirThere /\ osEvents' = Append(osEvents, ev)
      /\ Spoil(Changing)
  BY DEF MoveDirectory, Event
<1>2. ev \in Events /\ osEvents \in Seq(Events) /\ ev.name \notin Names
  BY NamesAssumption DEF Events, TypeOK
<1>3. Worse /\ \A c \in Clients : IsChange(call[c].op) => call[c].zid \in spoiled'
  BY <1>1 DEF Worse, Spoil, Changing, IsChange
<1>4. /\ \A m \in Names : Pending(osEvents, m)' <=> Pending(osEvents, m)
      /\ \A op : Awaited(osEvents, op)' <=> Awaited(osEvents, op) \/ ev.op = op
  BY <1>1, <1>2, PendingAppend
<1>5. \A m : GoneFirst(osEvents, m) => GoneFirst(osEvents, m)'
  BY <1>1, <1>2, GoneFirstAppend
<1>6. EventsOK'
  <2>1. LastTells(osEvents', DOMAIN disk')
    BY <1>1, <1>2, LastTellsAppend DEF EventsOK
  <2>2. PlainEvents(osEvents', spoiled')
    BY <1>1, <1>2, <1>3, PlainAppend DEF EventsOK, Worse
  <2>3. ApartEvents(osEvents', spoiled')
    BY <1>1, <1>2, <1>3, ApartAppend DEF EventsOK, Worse
  <2>4. dirThere' => Returns(osEvents')
    BY <1>1, <1>2, ReturnsAppend
  <2> QED
    BY <2>1, <2>2, <2>3, <2>4 DEF EventsOK
<1>7. osEvents' \in Seq(Events) /\ budget' \in Budget
  BY <1>1, <1>2, SpendIs, AppendEvent
<1>8. TypeOK'
  <2>1. /\ call' \in [Clients -> Calls] /\ worker' \in [Workers -> Jobs] /\ dirThere' \in BOOLEAN
        /\ DOMAIN disk' \subseteq Names /\ \A n \in DOMAIN disk' : disk'[n] \in Nat
    BY <1>1 DEF TypeOK
  <2> QED
    BY <1>1, <1>7, <2>1, OutsideTypes
<1>9. DiskOK'
  BY <1>1, <1>3, DiskFrame
<1>10. ClientsOK' /\ WorkersOK' /\ ChangesOK'
  <2>1. ClientsOK'
    BY <1>1 DEF ClientsOK, ClientOK, Job
  <2>2. WorkersOK'
    BY <1>1, <1>3 DEF WorkersOK, WorkerOK, Worse
  <2>3. ChangesOK'
    BY <1>1, <1>3 DEF ChangesOK, ChangeOK
  <2> QED
    BY <2>1, <2>2, <2>3
<1>11. NotifierOK'
  <2>1. Awaited(osEvents, "DirRename")' <=> Awaited(osEvents, "DirRename") \/ dirThere
    BY <1>4
  <2>2. Awaited(osEvents, "DirCreate")' <=> Awaited(osEvents, "DirCreate") \/ ~dirThere
    BY <1>4
  <2> QED
    BY <1>1, <2>1, <2>2 DEF NotifierOK, serviceVars, TypeOK
<1>12. ReportsOK'
  BY <1>1, <1>3, ReportsFrame DEF serviceVars
<1>13. ListsOK'
  <2> SUFFICES ASSUME notifier.pc = "list", listing, NEW z \in Zids PROVE ListOK(z)'
    BY <1>1 DEF ListsOK, serviceVars
  <2>1. ListOK(z) /\ EntryOf(newEntries, z) \in Entry /\ FilesOf(EntryOf(newEntries, z)) \subseteq Names
    BY TypesAre, EntryIs DEF ListsOK
  <2>2. EntryOf(newEntries, z)' = EntryOf(newEntries, z) /\ Listed(z)' = Listed(z) /\ DiskOf(z)' = DiskOf(z)
    BY <1>1 DEF EntryOf, Listed, DiskOf, serviceVars
  <2>3. ToSet(notifier.names) \subseteq Names
    <3>1. notifier.names \in Seq(Names)
      BY DEF TypeOK
    <3> QED
      BY <3>1, ElementOfSeq DEF ToSet
  <2>4. Listed(z) \subseteq Names /\ DiskOf(z) \subseteq Names
    BY <2>1, <2>3 DEF Listed, DiskOf, TypeOK
  <2>5. z \notin spoiled' => z \notin spoiled
    BY <1>3 DEF Worse
  <2> QED
    BY <1>1, <1>4, <2>1, <2>2, <2>4, <2>5 DEF ListOK, serviceVars
<1>14. ASSUME NEW z \in Zids PROVE EntryOK(z)'
  <2> DEFINE e == EntryOf(entries, z)
  <2>1. EntryOK(z) /\ e \in Entry /\ FilesOf(e) \subseteq Names /\ DiskOf(z) \subseteq Names
    BY TypesAre, EntryIs DEF EntriesOK, DiskOf
  <2>2. EntryOf(entries, z)' = e /\ DiskOf(z)' = DiskOf(z) /\ Reserved(z)' = Reserved(z)
    BY <1>1 DEF EntryOf, DiskOf, Reserved, serviceVars
  <2>3. \A op, c : Under(op, c, z)' = Under(op, c, z)
    BY <1>1 DEF Under
  <2>4. z \notin spoiled' => z \notin spoiled
    BY <1>3 DEF Worse
  <2> HIDE DEF e
  <2>5. Separate(osEvents, e) => Separate(osEvents', e)
    BY <1>5 DEF Separate
  <2>6. OneIsGone(osEvents, e) => OneIsGone(osEvents', e)
    BY <1>5 DEF OneIsGone
  <2>7. Awaited(osEvents, "DirRename") => Awaited(osEvents, "DirRename")'
    BY <1>4
  <2>8. z \notin spoiled' =>
        /\ WellFormed(e) /\ Separate(osEvents', e) /\ OneIsGone(osEvents', e)
        /\ z \in DOMAIN entries => FilesOf(e) # {} \/ Reserved(z)
    BY <2>1, <2>4, <2>5, <2>6 DEF EntryOK, e
  <2>9. z \notin spoiled' =>
        \A n \in FilesOf(e) :
            \/ Pending(osEvents, n)' \/ n \in DOMAIN disk
            \/ \E c \in Clients : Under("update", c, z) /\ n \in FilesOf(call[c].entry)
    BY <1>4, <2>1, <2>4 DEF EntryOK, e
  <2>10. z \notin spoiled' /\ known /\ ~Awaited(osEvents, "DirRename")' =>
            \A n \in DiskOf(z) :
                Pending(osEvents, n)' \/ n \in FilesOf(e) \/ \E c \in Clients : Under("delete", c, z)
    BY <1>4, <2>1, <2>4, <2>7 DEF EntryOK, e
  <2>11. \A n \in FilesOf(e) : ZidOf[n] = z
    BY <2>1 DEF EntryOK, e
  <2>12. UNCHANGED <<disk, known, entries, call>>
    BY <1>1 DEF serviceVars
  <2> QED
    BY <2>2, <2>3, <2>8, <2>9, <2>10, <2>11, <2>12 DEF EntryOK
<1> QED
  BY <1>6, <1>8, <1>9, <1>10, <1>11, <1>12, <1>13, <1>14 DEF EntriesOK

LEMMA ReadFileStep ==
  ASSUME IInv, NEW k \in Workers, ReadFile(k)
  PROVE  IInv'
<1> USE DEF IInv
<1> DEFINE n == Head(worker[k].todo)
           rest == Tail(worker[k].todo)
           seen == IF Present(n) THEN {disk[n]} ELSE {}
<1>1. /\ worker[k].todo # <<>> /\ worker[k].op = "get" /\ ~IsChange(worker[k].op)
      /\ Done(k, Present(n), seen, rest)
  BY DEF ReadFile, IsChange
<1>2. UNCHANGED <<fileVars, notifier, serviceVars, call, budget, unreported, excused>>
  BY DEF ReadFile
<1>3. worker[k].todo \in Seq(Names)
  BY TypesAre
<1>4. rest \in Seq(Names) /\ ToSet(rest) \subseteq ToSet(worker[k].todo)
  BY <1>1, <1>3, HeadTailIs
<1>5. Present(n) \in BOOLEAN /\ seen \in SUBSET Nat
  BY DEF Present, TypeOK
<1> HIDE DEF rest, seen
<1>6. /\ worker' \in [Workers -> Jobs]
      /\ \A j \in Workers : j # k => worker'[j] = worker[j]
      /\ worker'[k].client = worker[k].client /\ worker'[k].op = worker[k].op
      /\ worker'[k].entry = worker[k].entry /\ worker'[k].todo = rest
  BY <1>1, <1>4, <1>5, DoneIs
<1>7. Worse /\ JobGoesOn(k)
  BY <1>1, <1>2, <1>4, <1>6 DEF JobGoesOn, Worse, fileVars
<1>8. ClientsOK' /\ WorkersOK'
  BY <1>2, <1>7, JobFrame
<1>9. TypeOK'
  <2>1. /\ call' \in [Clients -> Calls] /\ budget' \in Budget /\ dirThere' \in BOOLEAN
        /\ DOMAIN disk' \subseteq Names /\ (\A m \in DOMAIN disk' : disk'[m] \in Nat)
        /\ osEvents' \in Seq(Events)
    BY <1>2 DEF TypeOK, fileVars
  <2> QED
    BY <1>2, <1>6, <2>1, OutsideTypes
<1>10. DiskOK' /\ EventsOK' /\ NotifierOK' /\ ListsOK'
  BY <1>2, <1>7, DiskFrame, EventsFrame, NotifierFrame, ListsFrame DEF serviceVars, fileVars
<1>11. EntriesOK'
  BY <1>2, <1>7, EntriesFrame, SameCalls DEF serviceVars, fileVars
<1>12. ReportsOK'
  BY <1>2, <1>7, ReportsFrame DEF serviceVars
<1>13. ASSUME NEW d \in Clients PROVE ChangeOK(d)'
  <2>1. ChangeOK(d) /\ call'[d] = call[d] /\ dirThere' = dirThere
    BY <1>2 DEF ChangesOK, fileVars
  <2>2. DiskOf(call[d].zid)' = DiskOf(call[d].zid)
    BY <1>2 DEF DiskOf, fileVars
  <2>3. ASSUME IsChange(call[d].op), call[d].pc = "wait" PROVE Job(d)' = Job(d)
    <3>1. ClientOK(d)
      BY DEF ClientsOK
    <3>2. call[d].zid \in Zids /\ WorkerOf[call[d].zid] \in Workers /\ Job(d).client = d /\ d # Nobody
      BY <2>3, <3>1, TypesAre, ClientsAssumption DEF ClientOK
    <3>3. Job(d).op = call[d].op
      BY <3>2 DEF WorkersOK, WorkerOK, Job
    <3>4. WorkerOf[call[d].zid] # k
      BY <1>1, <2>3, <3>3 DEF Job
    <3> QED
      BY <1>2, <1>6, <3>2, <3>4 DEF Job
  <2> QED
    BY <1>2, <1>7, <2>1, <2>2, <2>3, ChangeFrame
<1> QED
  BY <1>8, <1>9, <1>10, <1>11, <1>12, <1>13 DEF ChangesOK

LEMMA WriteFailsStep ==
  ASSUME IInv, NEW k \in Workers, WriteFails(k)
  PROVE  IInv'
<1> USE DEF IInv
<1> DEFINE n == Head(worker[k].todo)
<1>1. /\ worker[k].todo # <<>> /\ IsChange(worker[k].op)
      /\ Done(k, FALSE, {}, <<>>) /\ Spend("failures") /\ Spoil({ZidOf[n]})
      /\ UNCHANGED <<disk, dirThere, osEvents, notifier, serviceVars, call, unreported>>
  BY DEF WriteFails, IsChange
<1>2. <<>> \in Seq(Names) /\ worker[k].todo \in Seq(Names) /\ n \in ToSet(worker[k].todo)
  BY <1>1, TypesAre, HeadTailIs
<1>3. /\ worker' \in [Workers -> Jobs]
      /\ \A j \in Workers : j # k => worker'[j] = worker[j]
      /\ worker'[k].client = worker[k].client /\ worker'[k].op = worker[k].op
      /\ worker'[k].entry = worker[k].entry /\ worker'[k].todo = <<>>
  BY <1>1, <1>2, DoneIs
<1>4. Worse /\ JobGoesOn(k) /\ ZidOf[n] \in spoiled'
  BY <1>1, <1>3 DEF JobGoesOn, Worse, Spoil, ToSet
<1>5. ClientsOK' /\ WorkersOK'
  BY <1>1, <1>4, JobFrame
<1>6. TypeOK'
  <2>1. /\ call' \in [Clients -> Calls] /\ budget' \in Budget /\ dirThere' \in BOOLEAN
        /\ DOMAIN disk' \subseteq Names /\ (\A m \in DOMAIN disk' : disk'[m] \in Nat)
        /\ osEvents' \in Seq(Events)
    BY <1>1, SpendIs DEF TypeOK
  <2> QED
    BY <1>1, <1>3, <2>1, OutsideTypes
<1>7. DiskOK' /\ EventsOK' /\ NotifierOK' /\ ListsOK'
  BY <1>1, <1>4, DiskFrame, EventsFrame, NotifierFrame, ListsFrame DEF serviceVars
<1>8. EntriesOK'
  BY <1>1, <1>4, EntriesFrame, SameCalls DEF serviceVars
<1>9. ReportsOK'
  BY <1>1, <1>4, ReportsFrame DEF serviceVars
<1>10. ASSUME NEW d \in Clients, d # worker[k].client PROVE ChangeOK(d)'
  BY <1>1, <1>4, <1>10, OtherJobs
<1>11. ASSUME NEW c \in Clients, c = worker[k].client PROVE ChangeOK(c)'
  <2>1. WorkerOK(k) /\ c # Nobody
    BY <1>11, ClientsAssumption DEF WorkersOK
  <2>2. call[c].pc = "wait" /\ n \in FilesOf(call[c].entry)
    BY <1>2, <1>11, <2>1 DEF WorkerOK
  <2>3. ZidOf[n] = call[c].zid
    BY <1>11, <2>2 DEF ClientsOK, ClientOK
  <2> QED
    BY <1>1, <1>4, <2>3 DEF ChangeOK
<1> QED
  BY <1>5, <1>6, <1>7, <1>8, <1>9, <1>10, <1>11 DEF ChangesOK

-----------------------------------------------------------------------------
(* Calls of the box.                                                        *)

(* The types of a step that leaves the directory and the notifier.          *)
LEMMA InsideTypes ==
  ASSUME TypeOK, call' \in [Clients -> Calls], worker' \in [Workers -> Jobs], budget' \in Budget,
         IsEntries(entries'), ~known => entries' = <<>>, unreported' \subseteq Zids,
         UNCHANGED <<disk, dirThere, osEvents, notifier, state, known, listing, newEntries, notes>>
  PROVE  TypeOK'
BY DEF TypeOK, IsEntries

LEMMA ChangedIs ==
  ASSUME TypeOK, NEW before, NEW after, Changed(before, after)
  PROVE  /\ unreported' \subseteq Zids
         /\ \A z : z \in unreported' \ unreported => ~(z \in DOMAIN before <=> z \in DOMAIN after)
BY DEF TypeOK, Changed

LEMMA ClientFrame ==
  ASSUME TypeOK, ClientsOK, WorkersOK, Worse, UNCHANGED worker,
         NEW c \in Clients, call[c].pc # "wait", ClientOK(c)',
         \A d \in Clients : d # c => call'[d] = call[d]
  PROVE  ClientsOK' /\ WorkersOK'
<1>1. ASSUME NEW d \in Clients, d # c PROVE ClientOK(d)'
  <2>1. ClientOK(d) /\ call'[d] = call[d]
    BY <1>1 DEF ClientsOK
  <2> QED
    BY <2>1 DEF ClientOK, Job
<1>2. ASSUME NEW k \in Workers PROVE WorkerOK(k)'
  <2>1. WorkerOK(k) /\ worker[k].client \in Clients \union {Nobody}
    BY TypesAre DEF WorkersOK
  <2>2. worker[k].client # Nobody => worker[k].client # c
    BY <2>1 DEF WorkerOK
  <2>3. worker[k].client # Nobody => call'[worker[k].client] = call[worker[k].client]
    BY <2>1, <2>2
  <2> QED
    BY <2>1, <2>3 DEF WorkerOK, Worse
<1> QED
  BY <1>1, <1>2 DEF ClientsOK, WorkersOK

(* The changes of the other clients. *)
LEMMA OtherChanges ==
  ASSUME ChangesOK, Worse, UNCHANGED <<disk, dirThere, worker>>, NEW c \in Clients,
         \A d \in Clients : d # c => call'[d] = call[d],
         ChangeOK(c)',
         \A d \in Clients :
            /\ d # c /\ call[d].zid = call'[c].zid /\ call[d].zid \notin spoiled'
            /\ IsChange(call[d].op) /\ IsChange(call'[c].op)
            => IsChange(call[c].op) /\ call[c].zid = call[d].zid
  PROVE  ChangesOK'
<1> SUFFICES ASSUME NEW d \in Clients, d # c PROVE ChangeOK(d)'
  BY DEF ChangesOK
<1>1. ChangeOK(d) /\ call'[d] = call[d]
  BY DEF ChangesOK
<1>2. DiskOf(call[d].zid)' = DiskOf(call[d].zid) /\ Job(d)' = Job(d)
  BY <1>1 DEF DiskOf, Job
<1>3. ASSUME NEW b \in Clients, IsChange(call[d].op), call[d].zid \notin spoiled',
             IsChange(call'[b].op), call'[b].zid = call[d].zid
      PROVE  b = d \/ (IsChange(call[b].op) /\ call[b].zid = call[d].zid)
  BY <1>1, <1>3
<1> QED
  BY <1>1, <1>2, <1>3, ChangeFrame

(* The call of this client did not matter to an entry. *)
LEMMA UnlessOthers ==
  ASSUME NEW c \in Clients, \A d \in Clients : d # c => call'[d] = call[d], NEW z,
         ~(call[c].zid = z /\ IsChange(call[c].op) /\ call[c].pc \in {"send", "wait"}),
         z \in DOMAIN entries' =>
            \/ Reserved(z)'
            \/ z \in DOMAIN entries /\ ~(call[c].zid = z /\ IsChange(call[c].op) /\ call[c].pc = "enter")
  PROVE  Unless(z)
<1>1. ASSUME NEW d \in Clients, Under("update", d, z)
      PROVE  Under("update", d, z)' /\ call'[d].entry = call[d].entry
  <2>1. d # c
    BY <1>1 DEF Under, IsChange
  <2> QED
    BY <1>1, <2>1 DEF Under
<1>2. ASSUME NEW d \in Clients, Under("delete", d, z)
      PROVE  Under("delete", d, z)'
  <2>1. d # c
    BY <1>2 DEF Under, IsChange
  <2> QED
    BY <1>2, <2>1 DEF Under
<1>3. ASSUME ~(call[c].zid = z /\ IsChange(call[c].op) /\ call[c].pc = "enter")
      PROVE  Reserved(z) => Reserved(z)'
  <2> SUFFICES ASSUME NEW d \in Clients, call[d].zid = z, call[d].op = "create",
                      call[d].pc \in {"send", "wait", "enter"}
               PROVE  Reserved(z)'
    BY DEF Reserved
  <2>1. d # c
    BY <1>3 DEF IsChange
  <2> QED
    BY <2>1 DEF Reserved
<1> QED
  BY <1>1, <1>2, <1>3 DEF Unless

(* A change that is not reported yet. *)
Reporting(c) ==
    \/ call[c].op = "create"
    \/ call[c].op \in {"update", "delete"} /\ call[c].pc \in {"send", "wait", "notify"}

LEMMA ReportsCall ==
  ASSUME ReportsOK, Worse, UNCHANGED notes, NEW c \in Clients,
         \A d \in Clients : d # c => call'[d] = call[d],
         \A z \in unreported' \ spoiled' :
            \/ z \in unreported /\ (Reporting(c) /\ call[c].zid = z => Reporting(c)' /\ call'[c].zid = z)
            \/ Reporting(c)' /\ call'[c].zid = z
  PROVE  ReportsOK'
<1> SUFFICES ASSUME NEW z \in unreported' \ spoiled'
             PROVE  \/ \E note \in notes : note[1] = z
                    \/ \E d \in Clients : Reporting(d)' /\ call'[d].zid = z
  BY DEF ReportsOK, Reporting
<1>1. CASE Reporting(c)' /\ call'[c].zid = z
  BY <1>1
<1>2. CASE z \in unreported /\ ~(Reporting(c) /\ call[c].zid = z)
  <2>1. \/ \E note \in notes : note[1] = z
        \/ \E d \in Clients : Reporting(d) /\ call[d].zid = z
    BY <1>2 DEF ReportsOK, Worse, Reporting
  <2>2. ASSUME NEW d \in Clients, Reporting(d), call[d].zid = z PROVE Reporting(d)' /\ call'[d].zid = z
    BY <1>2, <2>2 DEF Reporting
  <2> QED
    BY <2>1, <2>2
<1> QED
  BY <1>1, <1>2

(* A call that begins knows the files, or the zettel is spoiled.            *)
LEMMA BeginIs ==
  ASSUME IInv, NEW c \in Clients, NEW op, NEW pc,
         <<op, pc>> \in {<<"create", "send">>, <<"update", "enter">>, <<"delete", "drop">>, <<"get", "send">>},
         NEW z \in Zids, NEW e \in Entry, OfZettel(e, z), Begin(c, op, pc, z, e),
         op # "get" /\ z \notin spoiled' /\ AllPlain(e) /\ z \notin Changing => WellFormed(e) /\ ~Unnamed(e)
  PROVE  /\ DiskOK' /\ EventsOK' /\ ClientsOK' /\ WorkersOK' /\ ChangesOK' /\ NotifierOK' /\ ListsOK'
         /\ Worse /\ call' \in [Clients -> Calls] /\ budget' \in Budget
         /\ UNCHANGED <<disk, dirThere, osEvents, notifier, state, known, listing, newEntries, notes, worker>>
         /\ call[c].op \in {"none", "get"} /\ call[c].pc = "idle"
         /\ call'[c].op = op /\ call'[c].pc = pc /\ call'[c].zid = z
         /\ \A d \in Clients : d # c => call'[d] = call[d]
<1> USE DEF IInv
<1> DEFINE new == [pc |-> pc, op |-> op, zid |-> z, entry |-> e, id |-> budget.calls, seen |-> {}]
<1>1. /\ call[c].pc = "idle" /\ Spend("calls") /\ call' = [call EXCEPT ![c] = new]
      /\ Spoil(IF op = "get" THEN {}
               ELSE Lossy(FilesOf(e)) \union (IF Knows(op, z, e) THEN {} ELSE {z}))
      /\ UNCHANGED <<disk, dirThere, osEvents, notifier, state, known, listing, newEntries, notes, worker>>
  BY DEF Begin
<1>2. new \in Calls
  <2>1. budget.calls \in Nat
    BY DEF TypeOK, Budget
  <2>2. op \in {"create", "update", "delete", "get"} /\ pc \in {"send", "enter", "drop"}
    OBVIOUS
  <2> QED
    BY <2>1, <2>2 DEF Calls
<1>3. /\ call' \in [Clients -> Calls] /\ call'[c] = new
      /\ \A d \in Clients : d # c => call'[d] = call[d]
  <2>1. call \in [Clients -> Calls]
    BY DEF TypeOK
  <2> HIDE DEF new
  <2> QED
    BY <1>1, <1>2, <2>1
<1>4. /\ call'[c].pc = pc /\ call'[c].op = op /\ call'[c].zid = z /\ call'[c].entry = e
      /\ op # "none" /\ pc \notin {"idle", "notify", "wait"}
      /\ pc = "enter" => op \in {"create", "update"}
      /\ pc = "drop" => op = "delete"
  BY <1>3
<1>5. Worse
  BY <1>1 DEF Spoil, Worse
<1>6. call[c].op \in {"none", "get"} /\ ~IsChange(call[c].op)
  BY <1>1 DEF ClientsOK, ClientOK, IsChange
<1>7. ClientOK(c)'
  BY <1>4 DEF ClientOK, OfZettel
<1>8. ClientsOK' /\ WorkersOK'
  BY <1>1, <1>3, <1>5, <1>7, ClientFrame
<1>9. ASSUME op # "get", z \notin spoiled'
      PROVE  Knows(op, z, e) /\ AllPlain(e) /\ Harmless(FilesOf(e))
  <2>1. Knows(op, z, e) /\ z \notin Lossy(FilesOf(e))
    BY <1>1, <1>9 DEF Spoil
  <2>2. \A n \in FilesOf(e) : ZidOf[n] \notin Lossy(FilesOf(e))
    BY <2>1 DEF OfZettel
  <2> QED
    BY <2>1, <2>2, LossyIs DEF AllPlain, Harmless
<1>10. ChangeOK(c)'
  <2> SUFFICES ASSUME IsChange(op), z \notin spoiled' PROVE ChangeOK(c)'
    BY <1>4 DEF ChangeOK
  <2>1. op # "get" /\ (op = "delete" <=> pc = "drop")
    BY DEF IsChange
  <2>2. /\ Knows(op, z, e) /\ AllPlain(e) /\ Harmless(FilesOf(e))
        /\ z \notin Changing
    BY <1>9, <2>1 DEF Knows
  <2>3. WellFormed(e) /\ ~Unnamed(e)
    BY <2>1, <2>2
  <2>4. dirThere /\ dirThere' /\ FilesIn(z) = DiskOf(z) /\ DiskOf(z)' = DiskOf(z)
    BY <1>1, <2>2 DEF Knows, FilesIn, DiskOf
  <2>5. ASSUME NEW d \in Clients, IsChange(call'[d].op), call'[d].zid = z PROVE c = d
    <3> SUFFICES ASSUME c # d PROVE FALSE
      OBVIOUS
    <3>1. IsChange(call[d].op) /\ call[d].zid = z
      BY <1>3, <2>5
    <3> QED
      BY <2>2, <3>1 DEF Changing, IsChange
  <2>6. op # "delete" => Unwritten(c)' = {e.meta, e.content}
    BY <1>4, <2>1 DEF Unwritten
  <2>7. op = "delete" => Undeleted(c)' = FilesOf(e)
    BY <1>4, <2>1 DEF Undeleted
  <2>8. op # "delete" =>
            DiskOf(z) \subseteq FilesOf(e) /\ FilesOf(e) \subseteq DiskOf(z) \union {e.meta, e.content}
    BY <2>2, <2>4 DEF Knows
  <2>9. op = "delete" => DiskOf(z) = FilesOf(e)
    BY <2>2, <2>4 DEF Knows
  <2> QED
    BY <1>4, <2>2, <2>3, <2>4, <2>5, <2>6, <2>7, <2>8, <2>9 DEF ChangeOK
<1>11. ChangesOK'
  <2>1. ASSUME NEW d \in Clients, d # c, call[d].zid = call'[c].zid, call[d].zid \notin spoiled',
               IsChange(call[d].op), IsChange(call'[c].op)
        PROVE  FALSE
    <3>1. z \notin Changing
      BY <1>4, <1>9, <2>1 DEF IsChange, Knows
    <3> QED
      BY <1>4, <2>1, <3>1 DEF Changing, IsChange
  <2> QED
    BY <1>1, <1>3, <1>5, <1>10, <2>1, OtherChanges
<1>12. DiskOK' /\ EventsOK' /\ NotifierOK' /\ ListsOK'
  BY <1>1, <1>5, DiskFrame, EventsFrame, NotifierFrame, ListsFrame
<1>13. budget' \in Budget
  BY <1>1, SpendIs
<1> QED
  BY <1>1, <1>3, <1>4, <1>5, <1>6, <1>8, <1>11, <1>12, <1>13

LEMMA SetupIs ==
  ASSUME NEW z \in Zids, NEW kind \in Kinds, NEW e, NEW r,
         e \in Entry, OfZettel(e, z), r = SetupFromMetaContent(e, kind, ZidName[z])
  PROVE  r \in Entry /\ OfZettel(r, z) /\ ~Unnamed(r) /\ (WellFormed(e) /\ AllPlain(r) => WellFormed(r))
BY SetupIsEntry, SetupKeeps

(* Entry and files of a zettel that is not spoiled. *)
LEMMA OneEntry ==
  ASSUME TypeOK, EntriesOK, NEW z \in Zids
  PROVE  /\ EntryOf(entries, z) \in Entry /\ OfZettel(EntryOf(entries, z), z)
         /\ z \notin spoiled => WellFormed(EntryOf(entries, z))
         /\ z \notin spoiled /\ z \in DOMAIN entries => FilesOf(EntryOf(entries, z)) # {} \/ Reserved(z)
<1>1. EntryOK(z) /\ EntryOf(entries, z) \in Entry
  BY TypesAre DEF EntriesOK
<1> QED
  BY <1>1 DEF EntryOK, OfZettel

LEMMA CreateZettelStep ==
  ASSUME IInv, NEW c \in Clients, CreateZettel(c)
  PROVE  IInv'
<1>1. PICK z \in Zids, kind \in Kinds :
        /\ z \notin DOMAIN entries /\ known
        /\ Begin(c, "create", "send", z, SetupFromMetaContent(NewEntry, kind, ZidName[z]))
        /\ entries' = With(entries, z, NewEntry)
        /\ Changed(entries, entries')
  BY ZidsAssumption DEF CreateZettel
<1>2. PICK e : e = SetupFromMetaContent(NewEntry, kind, ZidName[z])
  OBVIOUS
<1>3. WellFormed(NewEntry) /\ NewEntry \in Entry /\ OfZettel(NewEntry, z)
  BY NewEntryIs DEF OfZettel
<1>4. e \in Entry /\ OfZettel(e, z) /\ ~Unnamed(e) /\ (AllPlain(e) => WellFormed(e))
  BY <1>2, <1>3, SetupIs
<1>5. Begin(c, "create", "send", z, e)
  BY <1>1, <1>2
<1>6. /\ DiskOK' /\ EventsOK' /\ ClientsOK' /\ WorkersOK' /\ ChangesOK' /\ NotifierOK' /\ ListsOK'
      /\ Worse /\ call' \in [Clients -> Calls] /\ budget' \in Budget
      /\ UNCHANGED <<disk, dirThere, osEvents, notifier, state, known, listing, newEntries, notes, worker>>
      /\ call[c].op \in {"none", "get"} /\ call[c].pc = "idle"
      /\ call'[c].op = "create" /\ call'[c].pc = "send" /\ call'[c].zid = z
      /\ \A d \in Clients : d # c => call'[d] = call[d]
  <2>1. <<"create", "send">> \in
            {<<"create", "send">>, <<"update", "enter">>, <<"delete", "drop">>, <<"get", "send">>}
    OBVIOUS
  <2>2. "create" # "get" /\ z \notin spoiled' /\ AllPlain(e) /\ z \notin Changing
            => WellFormed(e) /\ ~Unnamed(e)
    BY <1>4
  <2>3. e \in Entry /\ OfZettel(e, z)
    BY <1>4
  <2> QED
    BY <1>5, <2>1, <2>2, <2>3, BeginIs
<1> USE DEF IInv
<1>7. IsEntries(entries') /\ DOMAIN entries' = DOMAIN entries \union {z}
  BY <1>1, <1>3, TypesAre, WithIsEntries, WithDomain
<1>8. unreported' \subseteq Zids /\ \A y \in unreported' : y \in unreported \/ y = z
  BY <1>1, <1>7, ChangedIs
<1>9. TypeOK'
  <2>1. worker' \in [Workers -> Jobs]
    BY <1>6 DEF TypeOK
  <2> QED
    BY <1>1, <1>6, <1>7, <1>8, <2>1, InsideTypes
<1>10. EntriesOK'
  <2>1. \A y \in Zids : EntryOf(entries', y) = EntryOf(entries, y)
    BY <1>1, <1>7 DEF With, EntryOf
  <2>2. ASSUME NEW y \in Zids PROVE Unless(y)
    <3>1. y = z => Reserved(y)'
      BY <1>6 DEF Reserved
    <3> QED
      BY <1>6, <1>7, <3>1, UnlessOthers DEF IsChange
  <2> QED
    BY <1>6, <2>1, <2>2, EntriesFrame
<1>11. ReportsOK'
  <2>1. ~Reporting(c) /\ Reporting(c)'
    BY <1>6 DEF Reporting
  <2> QED
    BY <1>6, <1>8, <2>1, ReportsCall
<1> QED
  BY <1>6, <1>9, <1>10, <1>11

(* A call that does not change the entries yet. *)
LEMMA BeginStep ==
  ASSUME IInv, NEW c \in Clients, NEW op, NEW pc,
         <<op, pc>> \in {<<"update", "enter">>, <<"delete", "drop">>, <<"get", "send">>},
         NEW z \in Zids, NEW e \in Entry, OfZettel(e, z), Begin(c, op, pc, z, e),
         op # "get" /\ z \notin spoiled' /\ AllPlain(e) /\ z \notin Changing => WellFormed(e) /\ ~Unnamed(e),
         UNCHANGED <<entries, unreported>>
  PROVE  IInv'
<1>1. /\ DiskOK' /\ EventsOK' /\ ClientsOK' /\ WorkersOK' /\ ChangesOK' /\ NotifierOK' /\ ListsOK'
      /\ Worse /\ call' \in [Clients -> Calls] /\ budget' \in Budget
      /\ UNCHANGED <<disk, dirThere, osEvents, notifier, state, known, listing, newEntries, notes, worker>>
      /\ call[c].op \in {"none", "get"} /\ call[c].pc = "idle"
      /\ \A d \in Clients : d # c => call'[d] = call[d]
  <2>1. <<op, pc>> \in
            {<<"create", "send">>, <<"update", "enter">>, <<"delete", "drop">>, <<"get", "send">>}
    OBVIOUS
  <2> QED
    BY <2>1, BeginIs
<1> USE DEF IInv
<1>2. TypeOK'
  <2>1. worker' \in [Workers -> Jobs] /\ IsEntries(entries') /\ (~known => entries' = <<>>) /\ unreported' \subseteq Zids
    BY <1>1 DEF TypeOK, IsEntries
  <2> QED
    BY <1>1, <2>1, InsideTypes
<1>3. EntriesOK'
  <2>1. \A y \in Zids : Unless(y)
    BY <1>1, UnlessOthers
  <2>2. \A y \in Zids : EntryOf(entries', y) = EntryOf(entries, y)
    OBVIOUS
  <2> QED
    BY <1>1, <2>1, <2>2, EntriesFrame
<1>4. ReportsOK'
  <2>1. ~Reporting(c)
    BY <1>1 DEF Reporting
  <2> QED
    BY <1>1, <2>1, ReportsCall
<1> QED
  BY <1>1, <1>2, <1>3, <1>4

LEMMA CallStep ==
  ASSUME IInv, NEW c \in Clients, Call(c)
  PROVE  IInv'
<1>1. CASE CreateZettel(c)
  BY <1>1, CreateZettelStep
<1>2. CASE UpdateZettel(c)
  <2>1. PICK z \in Zids, kind \in Kinds :
            Begin(c, "update", "enter", z, SetupFromMetaContent(EntryOf(entries, z), kind, ZidName[z]))
    BY <1>2 DEF UpdateZettel
  <2>2. PICK d, e : d = EntryOf(entries, z) /\ e = SetupFromMetaContent(d, kind, ZidName[z])
    OBVIOUS
  <2>3. d \in Entry /\ OfZettel(d, z) /\ (z \notin spoiled => WellFormed(d))
    BY <2>2, OneEntry DEF IInv
  <2>4. e \in Entry /\ OfZettel(e, z) /\ ~Unnamed(e) /\ (WellFormed(d) /\ AllPlain(e) => WellFormed(e))
    BY <2>2, <2>3, SetupIs
  <2>5. Begin(c, "update", "enter", z, e)
    BY <2>1, <2>2
  <2>6. z \notin spoiled' => z \notin spoiled
    BY <2>5 DEF Begin, Spoil
  <2>7. UNCHANGED <<entries, unreported>>
    BY <1>2 DEF UpdateZettel
  <2> QED
    BY <2>3, <2>4, <2>5, <2>6, <2>7, BeginStep
<1>3. CASE DeleteZettel(c)
  <2>1. PICK z \in DOMAIN entries : Begin(c, "delete", "drop", z, entries[z])
    BY <1>3 DEF DeleteZettel
  <2>2. PICK e : e = EntryOf(entries, z)
    OBVIOUS
  <2>3. z \in Zids /\ entries[z] = e
    BY <2>2, TypesAre DEF IInv, IsEntries, EntryOf
  <2>4. /\ e \in Entry /\ OfZettel(e, z)
        /\ z \notin spoiled => WellFormed(e) /\ (FilesOf(e) # {} \/ Reserved(z))
    BY <2>1, <2>2, <2>3, OneEntry DEF IInv
  <2>5. Begin(c, "delete", "drop", z, e)
    BY <2>1, <2>3
  <2>6. z \notin spoiled' => z \notin spoiled
    BY <2>5 DEF Begin, Spoil
  <2>7. Reserved(z) => z \in Changing
    BY DEF Reserved, Changing
  <2>8. z \notin spoiled' /\ z \notin Changing => WellFormed(e) /\ ~Unnamed(e)
    BY <2>4, <2>6, <2>7, NoFiles
  <2>9. UNCHANGED <<entries, unreported>>
    BY <1>3 DEF DeleteZettel
  <2> QED
    BY <2>3, <2>4, <2>5, <2>8, <2>9, BeginStep
<1>4. CASE GetZettel(c)
  <2>1. PICK z \in DOMAIN entries : Begin(c, "get", "send", z, entries[z])
    BY <1>4 DEF GetZettel
  <2>2. PICK e : e = EntryOf(entries, z)
    OBVIOUS
  <2>3. z \in Zids /\ entries[z] = e
    BY <2>2, TypesAre DEF IInv, IsEntries, EntryOf
  <2>4. e \in Entry /\ OfZettel(e, z)
    BY <2>2, <2>3, OneEntry DEF IInv
  <2>5. Begin(c, "get", "send", z, e)
    BY <2>1, <2>3
  <2>6. UNCHANGED <<entries, unreported>>
    BY <1>4 DEF GetZettel
  <2> QED
    BY <2>3, <2>4, <2>5, <2>6, BeginStep
<1> QED
  BY <1>1, <1>2, <1>3, <1>4 DEF Call

-----------------------------------------------------------------------------
(* How a call goes on.                                                      *)
LEMMA BecomeIs ==
  ASSUME TypeOK, NEW c \in Clients, NEW pc \in {"idle", "enter", "drop", "send", "wait", "notify"},
         Become(c, pc)
  PROVE  /\ call' \in [Clients -> Calls] /\ call'[c].pc = pc /\ call'[c].op = call[c].op
         /\ call'[c].zid = call[c].zid /\ call'[c].entry = call[c].entry
         /\ \A d \in Clients : d # c => call'[d] = call[d]
<1>1. call \in [Clients -> Calls] /\ call[c] \in Calls
  BY TypesAre DEF TypeOK
<1> DEFINE new == [call[c] EXCEPT !.pc = pc]
<1>2. /\ new \in Calls /\ new.pc = pc /\ new.op = call[c].op
      /\ new.zid = call[c].zid /\ new.entry = call[c].entry
  BY <1>1 DEF Calls
<1>3. call' = [call EXCEPT ![c] = new]
  BY <1>1 DEF Become
<1> HIDE DEF new
<1> QED
  BY <1>1, <1>2, <1>3

LEMMA FinishIs ==
  ASSUME TypeOK, NEW c \in Clients, Finish(c)
  PROVE  /\ call' \in [Clients -> Calls] /\ call'[c].pc = "idle" /\ call'[c].op = "none"
         /\ \A d \in Clients : d # c => call'[d] = call[d]
<1>1. call \in [Clients -> Calls]
  BY DEF TypeOK
<1>2. NoCall \in Calls /\ NoCall.pc = "idle" /\ NoCall.op = "none"
  BY NewEntryIs DEF NoCall, Calls
<1> QED
  BY <1>1, <1>2 DEF Finish

LEMMA FinishedIs ==
  ASSUME NEW c \in Clients, call'[c].pc = "idle", call'[c].op = "none"
  PROVE  ClientOK(c)' /\ ChangeOK(c)'
BY DEF ClientOK, ChangeOK, IsChange

(* Files that do not clash. *)
LEMMA HarmlessIsApart ==
  ASSUME NEW e, NEW z, OfZettel(e, z), WellFormed(e), Harmless(FilesOf(e)), NEW evs
  PROVE  Separate(evs, e) /\ OneIsGone(evs, e)
<1>1. ~Loose(e)
  <2> SUFFICES ASSUME Ext(e.content) = zettel, e.meta # NoName PROVE FALSE
    BY DEF Loose, HasMetaInContent
  <2>1. e.content # NoName /\ Ext(e.meta) = ""
    BY NoExt DEF WellFormed, Roles, zettel
  <2>2. e.meta \in FilesOf(e) /\ e.content \in FilesOf(e)
    BY <2>1, FilesAre
  <2> QED
    BY <2>1, <2>2 DEF Harmless, Clash, OfZettel
<1> QED
  BY <1>1 DEF Separate, OneIsGone, Harmless

LEMMA UpdateDirEntryStep ==
  ASSUME IInv, NEW c \in Clients, UpdateDirEntry(c)
  PROVE  IInv'
<1> USE DEF IInv
<1>1. PICK z, e : z = call[c].zid /\ e = call[c].entry
  OBVIOUS
<1>2. /\ call[c].pc = "enter" /\ Changed(entries, entries')
      /\ entries' = IF known THEN With(entries, z, e) ELSE entries
      /\ Become(c, IF call[c].op = "create" THEN "notify" ELSE "send")
      /\ UNCHANGED <<fileVars, notifier, state, known, listing, newEntries, notes, worker, budget, excused>>
  BY <1>1 DEF UpdateDirEntry
<1>3. ClientOK(c) /\ ChangeOK(c)
  BY DEF ClientsOK, ChangesOK
<1>4. /\ z \in Zids /\ e \in Entry /\ OfZettel(e, z)
      /\ call[c].op \in {"create", "update"} /\ IsChange(call[c].op)
  BY <1>1, <1>2, <1>3, TypesAre DEF ClientOK, IsChange, OfZettel
<1>5. /\ call' \in [Clients -> Calls] /\ call'[c].op = call[c].op
      /\ call'[c].pc = IF call[c].op = "create" THEN "notify" ELSE "send"
      /\ call'[c].zid = z /\ call'[c].entry = e
      /\ \A d \in Clients : d # c => call'[d] = call[d]
  BY <1>1, <1>2, BecomeIs
<1>6. Worse /\ UNCHANGED <<disk, dirThere, osEvents, spoiled>>
  BY <1>2 DEF Worse, fileVars
<1>7. ClientOK(c)'
  BY <1>4, <1>5 DEF ClientOK, OfZettel
<1>8. ClientsOK' /\ WorkersOK'
  BY <1>2, <1>5, <1>6, <1>7, ClientFrame
<1>9. z \notin spoiled =>
        /\ dirThere
        /\ \A d \in Clients : IsChange(call[d].op) /\ call[d].zid = z => c = d
        /\ WellFormed(e) /\ Harmless(FilesOf(e)) /\ ~Unnamed(e)
        /\ DiskOf(z) \subseteq FilesOf(e) /\ FilesOf(e) \subseteq DiskOf(z) \union Unwritten(c)
  BY <1>1, <1>3, <1>4 DEF ChangeOK
<1>10. Unwritten(c)' = Unwritten(c) /\ (call[c].op = "create" => Unwritten(c) = {})
  BY <1>1, <1>2, <1>4, <1>5 DEF Unwritten
<1>11. DiskOf(z)' = DiskOf(z)
  BY <1>6 DEF DiskOf
<1>12. ChangeOK(c)'
  <2> SUFFICES ASSUME z \notin spoiled PROVE ChangeOK(c)'
    BY <1>5, <1>6 DEF ChangeOK
  <2>1. \A d \in Clients : IsChange(call'[d].op) /\ call'[d].zid = z => c = d
    BY <1>5, <1>9
  <2>2. DiskOf(call[c].zid)' = DiskOf(z)
    BY <1>5, <1>11 DEF DiskOf
  <2>3. call'[c].pc # "wait" /\ call'[c].op # "delete"
    BY <1>4, <1>5
  <2> QED
    BY <1>5, <1>6, <1>9, <1>10, <1>11, <2>1, <2>3 DEF ChangeOK
<1>13. ChangesOK'
  BY <1>1, <1>2, <1>4, <1>5, <1>6, <1>12, OtherChanges
<1>14. DiskOK' /\ EventsOK' /\ NotifierOK' /\ ListsOK'
  BY <1>2, <1>6, DiskFrame, EventsFrame, NotifierFrame, ListsFrame
<1>15. IsEntries(entries') /\ \A y : y # z => (y \in DOMAIN entries' <=> y \in DOMAIN entries)
  <2>1. IsEntries(entries)
    BY TypesAre
  <2>2. IsEntries(With(entries, z, e)) /\ DOMAIN With(entries, z, e) = DOMAIN entries \union {z}
    BY <1>4, <2>1, WithIsEntries, WithDomain
  <2>3. entries' = With(entries, z, e) \/ entries' = entries
    BY <1>2
  <2> QED
    BY <2>1, <2>2, <2>3
<1>16. unreported' \subseteq Zids /\ \A y \in unreported' : y \in unreported \/ y = z
  BY <1>2, <1>15, ChangedIs
<1>17. TypeOK'
  <2>1. worker' \in [Workers -> Jobs] /\ budget' \in Budget /\ (~known => entries' = <<>>)
    BY <1>2 DEF TypeOK
  <2> QED
    BY <1>2, <1>5, <1>6, <1>15, <1>16, <2>1, InsideTypes
<1>18. ReportsOK'
  <2>1. Reporting(c)' /\ call'[c].zid = call[c].zid
    BY <1>1, <1>4, <1>5 DEF Reporting
  <2> QED
    BY <1>1, <1>2, <1>5, <1>6, <1>16, <2>1, ReportsCall
<1>19. ASSUME NEW y \in Zids PROVE EntryOK(y)'
  <2>1. EntryOK(y)
    BY DEF EntriesOK
  <2>2. CASE y # z \/ ~known
    <3>1. EntryOf(entries', y) = EntryOf(entries, y)
      BY <1>2, <2>2, WithIs
    <3>2. ~known => DOMAIN entries' = {}
      BY <1>2 DEF TypeOK
    <3>3. Unless(y)
      BY <1>1, <1>2, <1>5, <1>15, <2>2, <3>2, UnlessOthers
    <3> QED
      BY <1>2, <1>6, <2>1, <3>1, <3>3, EntryFrame
  <2>3. CASE y = z /\ known
    <3>1. EntryOf(entries', y) = e
      BY <1>2, <2>3, WithIs
    <3>2. CASE z \in spoiled
      BY <1>4, <1>6, <2>3, <3>1, <3>2 DEF EntryOK, OfZettel
    <3>3. CASE z \notin spoiled
      <4>1. Separate(osEvents', e) /\ OneIsGone(osEvents', e)
        BY <1>4, <1>9, <3>3, HarmlessIsApart
      <4>2. FilesOf(e) # {}
        BY <1>4, <1>9, <3>3, EntryIs, FilesAre DEF Unnamed
      <4>3. ASSUME NEW n \in FilesOf(e)
            PROVE  \/ n \in DOMAIN disk'
                   \/ Under("update", c, y)' /\ n \in FilesOf(call'[c].entry)
        <5>1. CASE call[c].op = "create"
          BY <1>6, <1>9, <1>10, <3>3, <5>1 DEF DiskOf
        <5>2. CASE call[c].op = "update"
          BY <1>5, <2>3, <5>2 DEF Under
        <5> QED
          BY <1>4, <5>1, <5>2
      <4>4. DiskOf(y)' \subseteq FilesOf(e)
        BY <1>9, <1>11, <2>3, <3>3
      <4> QED
        BY <1>4, <1>6, <1>9, <2>3, <3>1, <3>3, <4>1, <4>2, <4>3, <4>4 DEF EntryOK, OfZettel
    <3> QED
      BY <3>2, <3>3
  <2> QED
    BY <2>2, <2>3
<1> QED
  BY <1>8, <1>13, <1>14, <1>17, <1>18, <1>19 DEF EntriesOK

LEMMA NoFunction ==
  ASSUME NEW z
  PROVE  Without(<<>>, z) = <<>> /\ DOMAIN <<>> = {}
<1>1. DOMAIN <<>> = {}
  OBVIOUS
<1>2. Without(<<>>, z) = [y \in {} |-> <<>>[y]]
  BY <1>1 DEF Without
<1>3. [y \in {} |-> <<>>[y]] = <<>>
  OBVIOUS
<1> QED
  BY <1>1, <1>2, <1>3

LEMMA DeleteDirEntryStep ==
  ASSUME IInv, NEW c \in Clients, DeleteDirEntry(c)
  PROVE  IInv'
<1> USE DEF IInv
<1>1. PICK z : z = call[c].zid
  OBVIOUS
<1>2. /\ call[c].pc = "drop" /\ Changed(entries, entries') /\ entries' = Without(entries, z)
      /\ IF known THEN Become(c, "send") ELSE Finish(c)
      /\ UNCHANGED <<fileVars, notifier, state, known, listing, newEntries, notes, worker, budget, excused>>
  BY <1>1 DEF DeleteDirEntry
<1>3. ClientOK(c) /\ ChangeOK(c)
  BY DEF ClientsOK, ChangesOK
<1>4. z \in Zids /\ call[c].op = "delete" /\ IsChange(call[c].op)
  BY <1>1, <1>2, <1>3 DEF ClientOK, IsChange
<1>5. /\ call' \in [Clients -> Calls]
      /\ \A d \in Clients : d # c => call'[d] = call[d]
      /\ known => /\ call'[c].pc = "send" /\ call'[c].op = "delete"
                  /\ call'[c].zid = z /\ call'[c].entry = call[c].entry
      /\ ~known => call'[c].pc = "idle" /\ call'[c].op = "none"
  <2>1. CASE known
    BY <1>1, <1>2, <1>4, <2>1, BecomeIs
  <2>2. CASE ~known
    BY <1>2, <2>2, FinishIs
  <2> QED
    BY <2>1, <2>2
<1>6. Worse /\ UNCHANGED <<disk, dirThere, osEvents, spoiled>>
  BY <1>2 DEF Worse, fileVars
<1>7. ClientOK(c)'
  <2>1. CASE known
    BY <1>1, <1>2, <1>3, <1>4, <1>5, <2>1 DEF ClientOK
  <2>2. CASE ~known
    BY <1>5, <2>2, FinishedIs
  <2> QED
    BY <2>1, <2>2
<1>8. ClientsOK' /\ WorkersOK'
  BY <1>2, <1>5, <1>6, <1>7, ClientFrame
<1>9. ChangeOK(c)'
  <2>1. CASE known /\ z \notin spoiled
    <3> DEFINE e == call[c].entry
    <3>1. /\ dirThere
          /\ \A d \in Clients : IsChange(call[d].op) /\ call[d].zid = z => c = d
          /\ WellFormed(e) /\ Harmless(FilesOf(e)) /\ ~Unnamed(e)
          /\ DiskOf(z) = Undeleted(c)
      BY <1>1, <1>3, <1>4, <2>1 DEF ChangeOK
    <3>2. \A d \in Clients : IsChange(call'[d].op) /\ call'[d].zid = z => c = d
      BY <1>5, <3>1
    <3>3. Undeleted(c)' = Undeleted(c)
      BY <1>2, <1>5, <2>1 DEF Undeleted
    <3>4. DiskOf(z)' = DiskOf(z)
      BY <1>6 DEF DiskOf
    <3> QED
      BY <1>5, <1>6, <2>1, <3>1, <3>2, <3>3, <3>4 DEF ChangeOK
  <2>2. CASE known /\ z \in spoiled
    BY <1>5, <1>6, <2>2 DEF ChangeOK
  <2>3. CASE ~known
    BY <1>5, <2>3, FinishedIs
  <2> QED
    BY <2>1, <2>2, <2>3
<1>10. ChangesOK'
  <2>1. IsChange(call'[c].op) => call'[c].zid = call[c].zid
    BY <1>1, <1>5 DEF IsChange
  <2> QED
    BY <1>2, <1>4, <1>5, <1>6, <1>9, <2>1, OtherChanges
<1>11. DiskOK' /\ EventsOK' /\ NotifierOK' /\ ListsOK'
  BY <1>2, <1>6, DiskFrame, EventsFrame, NotifierFrame, ListsFrame
<1>12. IsEntries(entries') /\ DOMAIN entries' = DOMAIN entries \ {z}
  BY <1>2, TypesAre, WithoutIsEntries, WithoutDomain
<1>13. ~known => entries = <<>> /\ entries' = <<>> /\ DOMAIN entries = {} /\ DOMAIN entries' = {}
  BY <1>2, NoFunction DEF TypeOK
<1>14. /\ unreported' \subseteq Zids
       /\ \A y \in unreported' : y \in unreported \/ (y = z /\ known)
  BY <1>2, <1>12, <1>13, ChangedIs
<1>15. TypeOK'
  <2>1. worker' \in [Workers -> Jobs] /\ budget' \in Budget
    BY <1>2 DEF TypeOK
  <2> QED
    BY <1>2, <1>5, <1>6, <1>12, <1>13, <1>14, <2>1, InsideTypes
<1>16. ReportsOK'
  <2>1. ~Reporting(c) /\ (known => Reporting(c)')
    BY <1>2, <1>4, <1>5 DEF Reporting
  <2> QED
    BY <1>2, <1>5, <1>6, <1>14, <2>1, ReportsCall
<1>17. ASSUME NEW y \in Zids PROVE EntryOK(y)'
  <2>1. EntryOK(y)
    BY DEF EntriesOK
  <2>2. CASE y # z \/ ~known
    <3>1. EntryOf(entries', y) = EntryOf(entries, y)
      BY <1>2, <1>13, <2>2, WithoutIs
    <3>2. Unless(y)
      BY <1>1, <1>2, <1>5, <1>12, <1>13, <2>2, UnlessOthers
    <3> QED
      BY <1>2, <1>6, <2>1, <3>1, <3>2, EntryFrame
  <2>3. CASE y = z /\ known
    <3>1. EntryOf(entries', y) = NewEntry /\ y \notin DOMAIN entries'
      BY <1>2, <1>12, <2>3, WithoutIs
    <3>2. WellFormed(NewEntry) /\ FilesOf(NewEntry) = {}
      BY NewEntryIs
    <3>3. Separate(osEvents', NewEntry) /\ OneIsGone(osEvents', NewEntry)
      BY <3>2 DEF Separate, OneIsGone
    <3>4. Under("delete", c, y)'
      BY <1>5, <2>3 DEF Under
    <3> QED
      BY <3>1, <3>2, <3>3, <3>4 DEF EntryOK
  <2> QED
    BY <2>2, <2>3
<1> QED
  BY <1>8, <1>10, <1>11, <1>15, <1>16, <1>17 DEF EntriesOK

LEMMA notifyChangedStep ==
  ASSUME IInv, NEW c \in Clients, notifyChanged(c)
  PROVE  IInv'
<1> USE DEF IInv
<1>1. /\ call[c].pc = "notify" /\ unreported' = unreported \ {call[c].zid} /\ Finish(c)
      /\ UNCHANGED <<fileVars, notifier, serviceVars, worker, budget, excused>>
  BY DEF notifyChanged
<1>2. /\ call' \in [Clients -> Calls] /\ call'[c].pc = "idle" /\ call'[c].op = "none"
      /\ \A d \in Clients : d # c => call'[d] = call[d]
  BY <1>1, FinishIs
<1>3. Worse /\ UNCHANGED <<disk, dirThere, osEvents, spoiled>>
  BY <1>1 DEF Worse, fileVars
<1>4. UNCHANGED <<state, known, entries, listing, newEntries, notes>>
  BY <1>1 DEF serviceVars
<1>5. ClientOK(c)' /\ ChangeOK(c)'
  BY <1>2, FinishedIs
<1>6. ClientsOK' /\ WorkersOK'
  BY <1>1, <1>2, <1>3, <1>5, ClientFrame
<1>7. ChangesOK'
  BY <1>1, <1>2, <1>3, <1>5, OtherChanges DEF IsChange
<1>8. DiskOK' /\ EventsOK' /\ NotifierOK' /\ ListsOK'
  BY <1>1, <1>3, <1>4, DiskFrame, EventsFrame, NotifierFrame, ListsFrame
<1>9. TypeOK'
  <2>1. /\ worker' \in [Workers -> Jobs] /\ budget' \in Budget /\ (~known => entries' = <<>>)
        /\ IsEntries(entries') /\ unreported' \subseteq Zids
    BY <1>1, <1>4 DEF TypeOK, IsEntries
  <2> QED
    BY <1>1, <1>2, <1>3, <1>4, <2>1, InsideTypes
<1>10. ReportsOK'
  BY <1>1, <1>2, <1>3, <1>4, ReportsCall
<1>11. EntriesOK'
  <2>1. \A y : Unless(y)
    BY <1>1, <1>2, <1>4, UnlessOthers
  <2> QED
    BY <1>3, <1>4, <2>1, EntriesFrame
<1> QED
  BY <1>6, <1>7, <1>8, <1>9, <1>10, <1>11

-----------------------------------------------------------------------------
(* Commands for a file service.                                             *)
LEMMA JoinedIs ==
  ASSUME NEW s \in Seq(Names), NEW t \in Seq(Names)
  PROVE  /\ s \o t \in Seq(Names) /\ ToSet(s \o t) = ToSet(s) \union ToSet(t)
         /\ Injective(s) /\ Injective(t) /\ ToSet(s) \intersect ToSet(t) = {} => Injective(s \o t)
<1> DEFINE r == s \o t
           m == Len(s)
<1>1. /\ r \in Seq(Names) /\ m \in Nat /\ Len(t) \in Nat /\ DOMAIN s = 1 .. m /\ DOMAIN t = 1 .. Len(t)
      /\ DOMAIN r = 1 .. m + Len(t)
      /\ \A i \in 1 .. m : r[i] = s[i]
      /\ \A i \in 1 .. m + Len(t) : i > m => r[i] = t[i - m]
  OBVIOUS
<1> HIDE DEF r, m
<1>2. \A i \in DOMAIN r : \/ i \in DOMAIN s /\ r[i] = s[i]
                          \/ i > m /\ i - m \in DOMAIN t /\ r[i] = t[i - m]
  BY <1>1
<1>3. /\ \A i \in DOMAIN s : i \in DOMAIN r /\ r[i] = s[i]
      /\ \A i \in DOMAIN t : i + m \in DOMAIN r /\ r[i + m] = t[i]
  <2>1. \A i \in DOMAIN t : i + m \in DOMAIN r /\ i + m > m /\ i + m - m = i
    BY <1>1
  <2>2. \A i \in DOMAIN s : i \in DOMAIN r
    BY <1>1
  <2> QED
    BY <1>1, <2>1, <2>2
<1>4. ToSet(r) = ToSet(s) \union ToSet(t)
  BY <1>2, <1>3 DEF ToSet
<1>5. ASSUME Injective(s), Injective(t), ToSet(s) \intersect ToSet(t) = {} PROVE Injective(r)
  <2> SUFFICES ASSUME NEW i \in DOMAIN r, NEW j \in DOMAIN r, r[i] = r[j] PROVE i = j
    BY DEF Injective
  <2>1. CASE i \in DOMAIN s /\ r[i] = s[i] /\ j \in DOMAIN s /\ r[j] = s[j]
    BY <1>5, <2>1 DEF Injective
  <2>2. CASE /\ i > m /\ i - m \in DOMAIN t /\ r[i] = t[i - m]
             /\ j > m /\ j - m \in DOMAIN t /\ r[j] = t[j - m]
    <3>1. i - m = j - m
      BY <1>5, <2>2 DEF Injective
    <3>2. i \in Nat /\ j \in Nat /\ m \in Nat
      BY <1>1
    <3> QED
      BY <3>1, <3>2
  <2>3. CASE i \in DOMAIN s /\ r[i] = s[i] /\ j - m \in DOMAIN t /\ r[j] = t[j - m]
    BY <1>5, <2>3 DEF ToSet
  <2>4. CASE j \in DOMAIN s /\ r[j] = s[j] /\ i - m \in DOMAIN t /\ r[i] = t[i - m]
    BY <1>5, <2>4 DEF ToSet
  <2> QED
    BY <1>2, <2>1, <2>2, <2>3, <2>4
<1> QED
  BY <1>1, <1>4, <1>5 DEF r

LEMMA NamedIs ==
  ASSUME NEW n \in Names \union {NoName}
  PROVE  Named(n) \in Seq(Names) /\ ToSet(Named(n)) = {n} \ {NoName} /\ Injective(Named(n))
<1>1. CASE n = NoName
  <2>1. Named(n) = <<>>
    BY <1>1 DEF Named
  <2> QED
    BY <1>1, <2>1 DEF ToSet, Injective
<1>2. CASE n # NoName
  <2>1. Named(n) = <<n>>
    BY <1>2 DEF Named
  <2>2. <<n>> \in Seq(Names) /\ DOMAIN <<n>> = {1} /\ <<n>>[1] = n
    BY <1>2
  <2> QED
    BY <1>2, <2>1, <2>2 DEF ToSet, Injective
<1> QED
  BY <1>1, <1>2

LEMMA FilesForIs ==
  ASSUME NEW op, NEW e \in Entry
  PROVE  /\ FilesFor(op, e) \in Seq(Names) /\ ToSet(FilesFor(op, e)) \subseteq FilesOf(e)
         /\ op # "delete" => ToSet(FilesFor(op, e)) = {e.meta, e.content} \ {NoName}
         /\ op = "delete" => /\ ToSet(FilesFor(op, e)) = FilesOf(e)
                             /\ Distinct(e) => Injective(FilesFor(op, e))
<1> DEFINE m == Named(e.meta)
           c == Named(e.content)
<1>1. /\ m \in Seq(Names) /\ ToSet(m) = {e.meta} \ {NoName} /\ Injective(m)
      /\ c \in Seq(Names) /\ ToSet(c) = {e.content} \ {NoName} /\ Injective(c)
  BY EntryIs, NamedIs
<1>2. e.useless \in Seq(Names) /\ FilesOf(e) = ({e.meta, e.content} \ {NoName}) \union ToSet(e.useless)
  BY EntryIs, FilesAre DEF Useless
<1> HIDE DEF m, c
<1>3. m \o c \in Seq(Names) /\ ToSet(m \o c) = {e.meta, e.content} \ {NoName}
  BY <1>1, JoinedIs
<1>4. c \o m \in Seq(Names) /\ ToSet(c \o m) = {e.meta, e.content} \ {NoName}
  BY <1>1, JoinedIs
<1>5. (c \o m) \o e.useless \in Seq(Names) /\ ToSet((c \o m) \o e.useless) = FilesOf(e)
  BY <1>2, <1>4, JoinedIs
<1>6. ASSUME Distinct(e) PROVE Injective((c \o m) \o e.useless)
  <2>1. ToSet(c) \intersect ToSet(m) = {}
    BY <1>1, <1>6 DEF Distinct
  <2>2. Injective(c \o m)
    BY <1>1, <2>1, JoinedIs
  <2>3. ToSet(c \o m) \intersect ToSet(e.useless) = {} /\ Injective(e.useless)
    BY <1>4, <1>6 DEF Distinct, Useless
  <2> QED
    BY <1>2, <1>4, <2>2, <2>3, JoinedIs
<1>7. FilesFor(op, e) = IF op = "delete" THEN (c \o m) \o e.useless ELSE m \o c
  BY DEF FilesFor, m, c
<1> QED
  BY <1>2, <1>3, <1>5, <1>6, <1>7

LEMMA SendStep ==
  ASSUME IInv, NEW c \in Clients, Send(c)
  PROVE  IInv'
<1> USE DEF IInv
<1>1. PICK z, e, op, k : z = call[c].zid /\ e = call[c].entry /\ op = call[c].op /\ k = WorkerOf[z]
  OBVIOUS
<1> DEFINE job == [client |-> c, op |-> op, entry |-> e, id |-> call[c].id,
                   todo |-> FilesFor(op, e), ok |-> ~Unnamed(e), seen |-> {}]
<1>2. /\ call[c].pc = "send" /\ worker[k] = NoJob /\ worker' = [worker EXCEPT ![k] = job]
      /\ Become(c, "wait")
      /\ UNCHANGED <<fileVars, notifier, serviceVars, budget, unreported, excused>>
  BY <1>1 DEF Send
<1>3. ClientOK(c) /\ ChangeOK(c) /\ call[c] \in Calls
  BY TypesAre DEF ClientsOK, ChangesOK
<1>4. /\ z \in Zids /\ k \in Workers /\ e \in Entry /\ OfZettel(e, z)
      /\ op \in {"create", "update", "delete", "get"} /\ call[c].id \in Nat
  BY <1>1, <1>2, <1>3, TypesAre DEF ClientOK, OfZettel, Calls
<1>5. /\ call' \in [Clients -> Calls] /\ call'[c].op = op /\ call'[c].pc = "wait"
      /\ call'[c].zid = z /\ call'[c].entry = e
      /\ \A d \in Clients : d # c => call'[d] = call[d]
  BY <1>1, <1>2, BecomeIs
<1>6. Worse /\ UNCHANGED <<disk, dirThere, osEvents, spoiled>>
  BY <1>2 DEF Worse, fileVars
<1>7. UNCHANGED <<state, known, entries, listing, newEntries, notes>>
  BY <1>2 DEF serviceVars
<1>8. /\ FilesFor(op, e) \in Seq(Names) /\ ToSet(FilesFor(op, e)) \subseteq FilesOf(e)
      /\ op # "delete" => ToSet(FilesFor(op, e)) = {e.meta, e.content} \ {NoName}
      /\ op = "delete" => /\ ToSet(FilesFor(op, e)) = FilesOf(e)
                          /\ Distinct(e) => Injective(FilesFor(op, e))
  BY <1>4, FilesForIs
<1>9. /\ job \in Jobs /\ job.client = c /\ job.op = op /\ job.entry = e
      /\ job.todo = FilesFor(op, e) /\ (job.ok <=> ~Unnamed(e))
  BY <1>4, <1>8 DEF Jobs, Unnamed
<1>10. /\ worker' \in [Workers -> Jobs] /\ worker'[k] = job
       /\ \A j \in Workers : j # k => worker'[j] = worker[j]
  <2>1. worker \in [Workers -> Jobs]
    BY DEF TypeOK
  <2> HIDE DEF job
  <2> QED
    BY <1>2, <1>4, <1>9, <2>1
<1> HIDE DEF job
<1>11. Job(c)' = job
  BY <1>1, <1>5, <1>10 DEF Job
<1>12. ASSUME NEW d \in Clients, d # c, call[d].pc = "wait" PROVE Job(d)' = Job(d)
  <2>1. ClientOK(d) /\ call'[d] = call[d]
    BY <1>5, <1>12 DEF ClientsOK
  <2>2. WorkerOf[call[d].zid] \in Workers /\ Job(d).client = d
    BY <1>12, <2>1, TypesAre DEF ClientOK
  <2>3. worker[k].client = Nobody /\ d # Nobody
    BY <1>2, ClientsAssumption DEF NoJob
  <2>4. WorkerOf[call[d].zid] # k
    BY <2>2, <2>3 DEF Job
  <2> QED
    BY <1>10, <2>1, <2>2, <2>4 DEF Job
<1>13. ClientsOK'
  <2>1. ClientOK(c)'
    BY <1>4, <1>5, <1>9, <1>11 DEF ClientOK, OfZettel
  <2>2. ASSUME NEW d \in Clients, d # c PROVE ClientOK(d)'
    <3>1. ClientOK(d) /\ call'[d] = call[d]
      BY <1>5, <2>2 DEF ClientsOK
    <3>2. call[d].pc = "wait" => Job(d)'.client = d
      BY <1>12, <2>2, <3>1 DEF ClientOK
    <3> QED
      BY <3>1, <3>2 DEF ClientOK
  <2> QED
    BY <2>1, <2>2 DEF ClientsOK
<1>14. WorkersOK'
  <2>1. WorkerOK(k)'
    BY <1>1, <1>4, <1>5, <1>8, <1>9, <1>10, ClientsAssumption DEF WorkerOK
  <2>2. ASSUME NEW j \in Workers, j # k PROVE WorkerOK(j)'
    <3>1. WorkerOK(j) /\ worker'[j] = worker[j] /\ worker[j].client \in Clients \union {Nobody}
      BY <1>10, <2>2, TypesAre DEF WorkersOK
    <3>2. worker[j].client # Nobody => worker[j].client # c
      BY <1>2, <3>1 DEF WorkerOK
    <3>3. worker[j].client # Nobody => call'[worker[j].client] = call[worker[j].client]
      BY <1>5, <3>1, <3>2
    <3> QED
      BY <1>6, <3>1, <3>3 DEF WorkerOK
  <2> QED
    BY <2>1, <2>2 DEF WorkersOK
<1>15. ChangeOK(c)'
  <2> SUFFICES ASSUME IsChange(op), z \notin spoiled PROVE ChangeOK(c)'
    BY <1>5, <1>6 DEF ChangeOK
  <2>1. /\ dirThere
        /\ \A d \in Clients : IsChange(call[d].op) /\ call[d].zid = z => c = d
        /\ WellFormed(e) /\ Harmless(FilesOf(e)) /\ ~Unnamed(e)
        /\ op # "delete" =>
            DiskOf(z) \subseteq FilesOf(e) /\ FilesOf(e) \subseteq DiskOf(z) \union Unwritten(c)
        /\ op = "delete" => DiskOf(z) = Undeleted(c)
    BY <1>1, <1>3 DEF ChangeOK
  <2>2. \A d \in Clients : IsChange(call'[d].op) /\ call'[d].zid = z => c = d
    BY <1>1, <1>5, <2>1
  <2>3. DiskOf(z)' = DiskOf(z)
    BY <1>6 DEF DiskOf
  <2>4. Unwritten(c) = {e.meta, e.content} /\ Undeleted(c) = FilesOf(e)
    BY <1>1, <1>2 DEF Unwritten, Undeleted
  <2>5. Unwritten(c)' = ToSet(FilesFor(op, e)) /\ Undeleted(c)' = ToSet(FilesFor(op, e))
    BY <1>5, <1>9, <1>11 DEF Unwritten, Undeleted, Todo
  <2>6. NoName \notin FilesOf(e)
    BY <1>4, EntryIs, NamesAssumption
  <2>7. op # "delete" => FilesOf(e) \subseteq DiskOf(z) \union Unwritten(c)'
    BY <1>8, <2>1, <2>4, <2>5, <2>6
  <2>8. Job(c)'.ok /\ (op = "delete" => Injective(Job(c)'.todo))
    BY <1>8, <1>9, <1>11, <2>1 DEF WellFormed
  <2> QED
    BY <1>5, <1>6, <1>8, <2>1, <2>2, <2>3, <2>4, <2>5, <2>7, <2>8 DEF ChangeOK
<1>16. ASSUME NEW d \in Clients, d # c PROVE ChangeOK(d)'
  <2>1. ChangeOK(d) /\ call'[d] = call[d]
    BY <1>5, <1>16 DEF ChangesOK
  <2>2. DiskOf(call[d].zid)' = DiskOf(call[d].zid)
    BY <1>6, <2>1 DEF DiskOf
  <2>3. \A b \in Clients : call'[b].op = call[b].op /\ call'[b].zid = call[b].zid
    BY <1>1, <1>5
  <2> QED
    BY <1>6, <1>12, <1>16, <2>1, <2>2, <2>3, ChangeFrame
<1>17. DiskOK' /\ EventsOK' /\ NotifierOK' /\ ListsOK'
  BY <1>2, <1>6, <1>7, DiskFrame, EventsFrame, NotifierFrame, ListsFrame
<1>18. TypeOK'
  <2>1. /\ budget' \in Budget /\ (~known => entries' = <<>>)
        /\ IsEntries(entries') /\ unreported' \subseteq Zids
    BY <1>2, <1>7 DEF TypeOK, IsEntries
  <2> QED
    BY <1>2, <1>5, <1>6, <1>7, <1>10, <2>1, InsideTypes
<1>19. ReportsOK'
  <2>1. Reporting(c) => Reporting(c)'
    BY <1>1, <1>5 DEF Reporting
  <2> QED
    BY <1>1, <1>2, <1>5, <1>6, <1>7, <2>1, ReportsCall
<1>20. EntriesOK'
  <2>1. \A d \in Clients : /\ call'[d].op = call[d].op /\ call'[d].zid = call[d].zid
                           /\ call'[d].entry = call[d].entry
                           /\ call'[d].pc = call[d].pc \/ (call[d].pc = "send" /\ call'[d].pc = "wait")
    BY <1>1, <1>2, <1>5
  <2>2. ASSUME NEW y PROVE Unless(y)
    <3>1. \A d \in Clients, o \in {"update", "delete"} : Under(o, d, y) => Under(o, d, y)'
      BY <2>1 DEF Under
    <3>2. Reserved(y) => Reserved(y)'
      BY <2>1 DEF Reserved
    <3> QED
      BY <1>7, <2>1, <3>1, <3>2 DEF Unless
  <2> QED
    BY <1>6, <1>7, <2>2, EntriesFrame
<1> QED
  BY <1>13, <1>14, <1>15, <1>16, <1>17, <1>18, <1>19, <1>20 DEF ChangesOK

-----------------------------------------------------------------------------
(* A file service is free again, or nobody waits for it.                    *)
LEMMA LeaveFrame ==
  ASSUME IInv, Worse, UNCHANGED <<disk, dirThere>>,
         NEW k \in Workers, NEW c, c = worker[k].client,
         \A j \in Workers : j # k => worker'[j] = worker[j],
         worker'[k].client = Nobody,
         worker'[k].todo # <<>> =>
            /\ worker'[k].op = worker[k].op /\ worker'[k].todo = worker[k].todo
            /\ c # Nobody /\ IsChange(call[c].op) => call[c].zid \in spoiled',
         \A d \in Clients : d # c => call'[d] = call[d],
         c # Nobody =>
            /\ ClientOK(c)' /\ ChangeOK(c)'
            /\ IsChange(call'[c].op) => call'[c].op = call[c].op /\ call'[c].zid = call[c].zid
  PROVE  ClientsOK' /\ WorkersOK' /\ ChangesOK'
<1> USE DEF IInv
<1>1. /\ worker[k].todo \in Seq(Names) /\ c \in Clients \union {Nobody}
      /\ Nobody \notin Clients /\ WorkerOK(k)
  BY TypesAre, ClientsAssumption DEF WorkersOK
<1>2. c # Nobody => /\ c \in Clients /\ ClientOK(c) /\ call[c].pc = "wait"
                    /\ WorkerOf[call[c].zid] = k /\ worker[k].op = call[c].op
                    /\ \A n \in ToSet(worker[k].todo) : ZidOf[n] = call[c].zid
  BY <1>1 DEF WorkerOK, ClientsOK, ClientOK
<1>3. ASSUME NEW d \in Clients, d # c
      PROVE  /\ ClientOK(d) /\ call'[d] = call[d] /\ d # Nobody
             /\ call[d].pc = "wait" => WorkerOf[call[d].zid] # k /\ Job(d)' = Job(d)
  <2>1. ClientOK(d) /\ call'[d] = call[d] /\ d # Nobody
    BY <1>1, <1>3 DEF ClientsOK
  <2>2. ASSUME call[d].pc = "wait" PROVE WorkerOf[call[d].zid] # k /\ Job(d)' = Job(d)
    <3>1. Job(d).client = d /\ WorkerOf[call[d].zid] \in Workers
      BY <2>1, <2>2, TypesAre DEF ClientOK
    <3>2. WorkerOf[call[d].zid] # k
      BY <1>3, <3>1 DEF Job
    <3> QED
      BY <2>1, <3>1, <3>2 DEF Job
  <2> QED
    BY <2>1, <2>2
<1>4. ASSUME NEW d \in Clients PROVE ClientOK(d)'
  <2>1. CASE d = c
    BY <1>1, <2>1
  <2>2. CASE d # c
    <3>1. /\ ClientOK(d) /\ call'[d] = call[d]
          /\ call[d].pc = "wait" => Job(d)' = Job(d)
      BY <1>3, <2>2
    <3> QED
      BY <3>1 DEF ClientOK
  <2> QED
    BY <2>1, <2>2
<1>5. ASSUME NEW j \in Workers PROVE WorkerOK(j)'
  <2>1. CASE j = k
    <3>1. ASSUME worker'[k].todo # <<>>, IsChange(worker'[k].op), NEW n \in ToSet(worker'[k].todo)
          PROVE  ZidOf[n] \in spoiled'
      <4>1. CASE c = Nobody
        BY <1>1, <3>1, <4>1 DEF WorkerOK, Worse
      <4>2. CASE c # Nobody
        BY <1>2, <3>1, <4>2
      <4> QED
        BY <4>1, <4>2
    <3>2. worker'[k].todo = <<>> => ToSet(worker'[k].todo) = {}
      BY DEF ToSet
    <3>3. worker'[k].todo # <<>> => worker'[k].op # "none"
      BY <1>1 DEF WorkerOK
    <3> QED
      BY <2>1, <3>1, <3>2, <3>3 DEF WorkerOK
  <2>2. CASE j # k
    <3>1. WorkerOK(j) /\ worker'[j] = worker[j] /\ worker[j].client \in Clients \union {Nobody}
      BY <2>2, TypesAre DEF WorkersOK
    <3>2. worker[j].client # Nobody => worker[j].client # c
      BY <1>2, <2>2, <3>1 DEF WorkerOK
    <3>3. worker[j].client # Nobody => call'[worker[j].client] = call[worker[j].client]
      BY <3>1, <3>2
    <3> QED
      BY <3>1, <3>3 DEF WorkerOK, Worse
  <2> QED
    BY <2>1, <2>2
<1>6. ASSUME NEW d \in Clients PROVE ChangeOK(d)'
  <2>1. CASE d = c
    BY <1>1, <2>1
  <2>2. CASE d # c
    <3>1. /\ ChangeOK(d) /\ call'[d] = call[d]
          /\ call[d].pc = "wait" => Job(d)' = Job(d)
      BY <1>3, <2>2 DEF ChangesOK
    <3>2. DiskOf(call[d].zid)' = DiskOf(call[d].zid)
      BY <3>1 DEF DiskOf
    <3>3. \A b \in Clients : IsChange(call'[b].op) =>
            call'[b].op = call[b].op /\ call'[b].zid = call[b].zid
      BY <1>1
    <3> QED
      BY <3>1, <3>2, <3>3, ChangeFrame
  <2> QED
    BY <2>1, <2>2
<1> QED
  BY <1>4, <1>5, <1>6 DEF ClientsOK, WorkersOK, ChangesOK

(* How a call goes on with the result of a file service.                    *)
LEMMA ReturnIs ==
  ASSUME TypeOK, NEW c \in Clients, NEW ok \in BOOLEAN, Return(c, ok)
  PROVE  /\ call' \in [Clients -> Calls] /\ \A d \in Clients : d # c => call'[d] = call[d]
         /\ \/ call'[c].pc = "idle" /\ call'[c].op = "none" /\ ~(ok /\ IsChange(call[c].op))
            \/ /\ call'[c].op = call[c].op /\ call'[c].zid = call[c].zid
               /\ call'[c].entry = call[c].entry /\ IsChange(call[c].op)
               /\ \/ call'[c].pc = "enter" /\ call[c].op = "create" /\ ok
                  \/ call'[c].pc = "notify" /\ ~(call[c].op = "create" /\ ok)
<1>1. CASE ok /\ call[c].op = "create"
  BY <1>1, BecomeIs DEF Return, IsChange
<1>2. CASE ~(ok /\ call[c].op = "create") /\ (call[c].op = "create" \/ (ok /\ call[c].op \in {"update", "delete"}))
  <2>1. Become(c, "notify") /\ IsChange(call[c].op)
    BY <1>2 DEF Return, IsChange
  <2> QED
    BY <1>2, <2>1, BecomeIs
<1>3. CASE ~(ok /\ call[c].op = "create") /\ ~(call[c].op = "create" \/ (ok /\ call[c].op \in {"update", "delete"}))
  <2>1. Finish(c) /\ ~(ok /\ IsChange(call[c].op))
    BY <1>3 DEF Return, IsChange
  <2> QED
    BY <2>1, FinishIs
<1> QED
  BY <1>1, <1>2, <1>3

(* The client is not waiting any more. *)
LEMMA ReturnedIs ==
  ASSUME IInv, NEW c \in Clients, call[c].pc = "wait", UNCHANGED <<disk, dirThere>>, Worse,
         \A d \in Clients : d # c => call'[d] = call[d],
         call'[c].op = call[c].op, call'[c].zid = call[c].zid, call'[c].entry = call[c].entry,
         (call'[c].pc = "enter" /\ call[c].op = "create") \/ call'[c].pc = "notify",
         IsChange(call[c].op), call[c].zid \notin spoiled' => Todo(c) = {}
  PROVE  ClientOK(c)' /\ ChangeOK(c)'
<1>1. ClientOK(c) /\ ChangeOK(c)
  BY DEF IInv, ClientsOK, ChangesOK
<1>2. ClientOK(c)'
  BY <1>1 DEF ClientOK
<1>3. ChangeOK(c)'
  <2>1. PICK z, e : z = call[c].zid /\ e = call[c].entry
    OBVIOUS
  <2> SUFFICES ASSUME z \notin spoiled' PROVE ChangeOK(c)'
    BY <2>1 DEF ChangeOK
  <2>2. /\ dirThere
        /\ \A d \in Clients : IsChange(call[d].op) /\ call[d].zid = z => c = d
        /\ WellFormed(e) /\ Harmless(FilesOf(e)) /\ ~Unnamed(e)
        /\ call[c].op # "delete" =>
            DiskOf(z) \subseteq FilesOf(e) /\ FilesOf(e) \subseteq DiskOf(z) \union Unwritten(c)
        /\ call[c].op = "delete" => DiskOf(z) = Undeleted(c)
    BY <1>1, <2>1 DEF ChangeOK, Worse
  <2>3. Unwritten(c) = {} /\ Undeleted(c) = {}
    BY <2>1 DEF Unwritten, Undeleted
  <2>4. Unwritten(c)' = {} /\ Undeleted(c)' = {}
    BY DEF Unwritten, Undeleted
  <2>5. DiskOf(z)' = DiskOf(z)
    BY DEF DiskOf
  <2>6. \A d \in Clients : IsChange(call'[d].op) /\ call'[d].zid = z => c = d
    BY <2>1, <2>2
  <2> QED
    BY <2>1, <2>2, <2>3, <2>4, <2>5, <2>6 DEF ChangeOK
<1> QED
  BY <1>2, <1>3

LEMMA AnswerStep ==
  ASSUME IInv, NEW k \in Workers, Answer(k)
  PROVE  IInv'
<1> USE DEF IInv
<1>1. PICK c, ok : c = worker[k].client /\ ok = worker[k].ok
  OBVIOUS
<1>2. /\ worker[k] # NoJob /\ worker[k].todo = <<>> /\ worker' = [worker EXCEPT ![k] = NoJob]
      /\ c = Nobody => UNCHANGED call
      /\ c # Nobody /\ call[c].op = "get" /\ ok =>
            call' = [call EXCEPT ![c] =
                        [NoCall EXCEPT !.op = "get", !.zid = call[c].zid, !.seen = worker[k].seen]]
      /\ c # Nobody /\ ~(call[c].op = "get" /\ ok) => Return(c, ok)
      /\ UNCHANGED <<fileVars, notifier, serviceVars, budget, unreported, excused>>
  BY <1>1 DEF Answer
<1>3. /\ worker \in [Workers -> Jobs] /\ worker[k] \in Jobs /\ call \in [Clients -> Calls]
      /\ c \in Clients \union {Nobody} /\ Nobody \notin Clients /\ WorkerOK(k)
  BY <1>1, TypesAre, ClientsAssumption DEF WorkersOK, TypeOK
<1>4. ok \in BOOLEAN /\ worker[k].seen \subseteq Nat
  BY <1>1, <1>3 DEF Jobs
<1>5. Worse /\ UNCHANGED <<disk, dirThere, osEvents, spoiled>>
  BY <1>2 DEF Worse, fileVars
<1>6. UNCHANGED <<state, known, entries, listing, newEntries, notes>>
  BY <1>2 DEF serviceVars
<1>7. /\ NoJob \in Jobs /\ NoJob.client = Nobody /\ NoJob.todo = <<>>
  BY NewEntryIs DEF NoJob, Jobs
<1>8. /\ worker' \in [Workers -> Jobs] /\ worker'[k] = NoJob
      /\ \A j \in Workers : j # k => worker'[j] = worker[j]
  BY <1>2, <1>3, <1>7
<1>9. c # Nobody =>
        /\ c \in Clients /\ ClientOK(c) /\ ChangeOK(c) /\ call[c].pc = "wait" /\ worker[k] = Job(c)
        /\ Todo(c) = {} /\ call[c] \in Calls
  <2>1. \A x : x \notin ToSet(<<>>)
    BY DEF ToSet
  <2> QED
    BY <1>1, <1>2, <1>3, <2>1 DEF WorkerOK, ClientsOK, ChangesOK, Job, Todo
<1>10. c # Nobody /\ call[c].op = "get" /\ ok =>
        /\ call' \in [Clients -> Calls] /\ \A d \in Clients : d # c => call'[d] = call[d]
        /\ call'[c].pc = "idle" /\ call'[c].op = "get"
  <2> SUFFICES ASSUME c # Nobody, call[c].op = "get", ok
               PROVE  /\ call' \in [Clients -> Calls] /\ \A d \in Clients : d # c => call'[d] = call[d]
                      /\ call'[c].pc = "idle" /\ call'[c].op = "get"
    OBVIOUS
  <2> DEFINE new == [NoCall EXCEPT !.op = "get", !.zid = call[c].zid, !.seen = worker[k].seen]
  <2>1. new \in Calls /\ new.pc = "idle" /\ new.op = "get"
    BY <1>4, <1>9, NewEntryIs DEF NoCall, Calls
  <2>2. call' = [call EXCEPT ![c] = new]
    BY <1>2
  <2> HIDE DEF new
  <2> QED
    BY <1>3, <1>9, <2>1, <2>2
<1>11. c # Nobody /\ ~(call[c].op = "get" /\ ok) =>
        /\ call' \in [Clients -> Calls] /\ \A d \in Clients : d # c => call'[d] = call[d]
        /\ \/ call'[c].pc = "idle" /\ call'[c].op = "none" /\ ~(ok /\ IsChange(call[c].op))
           \/ /\ call'[c].op = call[c].op /\ call'[c].zid = call[c].zid
              /\ call'[c].entry = call[c].entry /\ IsChange(call[c].op)
              /\ \/ call'[c].pc = "enter" /\ call[c].op = "create" /\ ok
                 \/ call'[c].pc = "notify" /\ ~(call[c].op = "create" /\ ok)
  BY <1>2, <1>4, <1>9, ReturnIs
<1>12. \A d \in Clients : d # c => call'[d] = call[d]
  BY <1>2, <1>10, <1>11
<1>13. call' \in [Clients -> Calls]
  BY <1>2, <1>3, <1>10, <1>11
<1>14. c # Nobody =>
        /\ ClientOK(c)' /\ ChangeOK(c)'
        /\ IsChange(call'[c].op) => call'[c].op = call[c].op /\ call'[c].zid = call[c].zid
  <2> SUFFICES ASSUME c # Nobody
               PROVE  /\ ClientOK(c)' /\ ChangeOK(c)'
                      /\ IsChange(call'[c].op) => call'[c].op = call[c].op /\ call'[c].zid = call[c].zid
    OBVIOUS
  <2>1. CASE call'[c].pc = "idle" /\ call'[c].op \in {"get", "none"}
    BY <2>1 DEF ClientOK, ChangeOK, IsChange
  <2>2. CASE ~(call'[c].pc = "idle" /\ call'[c].op \in {"get", "none"})
    <3>1. /\ call'[c].op = call[c].op /\ call'[c].zid = call[c].zid
          /\ call'[c].entry = call[c].entry /\ IsChange(call[c].op)
          /\ (call'[c].pc = "enter" /\ call[c].op = "create") \/ call'[c].pc = "notify"
      BY <1>10, <1>11, <2>2
    <3>2. c \in Clients /\ call[c].pc = "wait" /\ Todo(c) = {}
      BY <1>9
    <3>3. ClientOK(c)' /\ ChangeOK(c)'
      BY <1>5, <1>12, <3>1, <3>2, ReturnedIs
    <3> QED
      BY <3>1, <3>3
  <2> QED
    BY <2>1, <2>2
<1>15. ClientsOK' /\ WorkersOK' /\ ChangesOK'
  <2>1. worker'[k].client = Nobody /\ worker'[k].todo = <<>>
    BY <1>7, <1>8
  <2> QED
    BY <1>1, <1>5, <1>8, <1>12, <1>14, <2>1, LeaveFrame
<1>16. DiskOK' /\ EventsOK' /\ NotifierOK' /\ ListsOK'
  BY <1>2, <1>5, <1>6, DiskFrame, EventsFrame, NotifierFrame, ListsFrame
<1>17. TypeOK'
  <2>1. /\ budget' \in Budget /\ (~known => entries' = <<>>)
        /\ IsEntries(entries') /\ unreported' \subseteq Zids
    BY <1>2, <1>6 DEF TypeOK, IsEntries
  <2> QED
    BY <1>2, <1>5, <1>6, <1>8, <1>13, <2>1, InsideTypes
(* Without a fault, a change has all its files written or removed, and goes on. *)
<1>18. ASSUME c # Nobody, IsChange(call[c].op), call[c].zid \notin spoiled
       PROVE  /\ call'[c].op = call[c].op /\ call'[c].zid = call[c].zid
              /\ call'[c].entry = call[c].entry
              /\ call[c].op = "create" => call'[c].pc = "enter"
              /\ call[c].op # "create" => call'[c].pc = "notify"
              /\ call[c].op # "delete" => FilesOf(call[c].entry) \subseteq DOMAIN disk
              /\ call[c].op = "delete" => DiskOf(call[c].zid) = {}
  <2>1. /\ Job(c).ok
        /\ call[c].op # "delete" =>
            FilesOf(call[c].entry) \subseteq DiskOf(call[c].zid) \union Unwritten(c)
        /\ call[c].op = "delete" => DiskOf(call[c].zid) = Undeleted(c)
    BY <1>9, <1>18 DEF ChangeOK
  <2>2. ok
    BY <1>1, <1>9, <1>18, <2>1
  <2>3. Unwritten(c) = {} /\ Undeleted(c) = {}
    BY <1>9, <1>18 DEF Unwritten, Undeleted
  <2>4. call[c].op # "get"
    BY <1>18 DEF IsChange
  <2>5. /\ call'[c].op = call[c].op /\ call'[c].zid = call[c].zid
        /\ call'[c].entry = call[c].entry
        /\ call[c].op = "create" => call'[c].pc = "enter"
        /\ call[c].op # "create" => call'[c].pc = "notify"
    BY <1>11, <1>18, <2>2, <2>4
  <2> QED
    BY <2>1, <2>3, <2>5 DEF DiskOf
<1>19. ReportsOK'
  <2>1. CASE c = Nobody
    BY <1>2, <1>5, <1>6, <2>1, ReportsFrame
  <2>2. CASE c # Nobody
    <3>1. c \in Clients /\ \A z \in unreported' \ spoiled' : z \in unreported /\ z \notin spoiled
      BY <1>2, <1>5, <1>9, <2>2
    <3>2. ASSUME NEW z \in unreported' \ spoiled', Reporting(c), call[c].zid = z
          PROVE  Reporting(c)' /\ call'[c].zid = z
      BY <1>18, <2>2, <3>1, <3>2 DEF Reporting, IsChange
    <3> QED
      BY <1>5, <1>6, <1>12, <3>1, <3>2, ReportsCall
  <2> QED
    BY <2>1, <2>2
<1>20. EntriesOK'
  <2>1. ASSUME NEW z \in Zids \ spoiled' PROVE Unless(z)
    <3>1. CASE c # Nobody /\ call[c].zid = z /\ IsChange(call[c].op)
      <4>1. /\ call'[c].op = call[c].op /\ call'[c].zid = call[c].zid
            /\ call'[c].entry = call[c].entry
            /\ call[c].op = "create" => call'[c].pc = "enter"
            /\ call[c].op # "delete" => FilesOf(call[c].entry) \subseteq DOMAIN disk
            /\ call[c].op = "delete" => DiskOf(z) = {}
        BY <1>5, <1>18, <3>1
      <4>2. ASSUME NEW d \in Clients, Under("update", d, z)
            PROVE  \/ Under("update", d, z)' /\ call'[d].entry = call[d].entry
                   \/ FilesOf(call[d].entry) \subseteq DOMAIN disk
        BY <1>12, <4>1, <4>2 DEF Under
      <4>3. ASSUME NEW d \in Clients, Under("delete", d, z)
            PROVE  Under("delete", d, z)' \/ DiskOf(z) = {}
        BY <1>12, <4>1, <4>3 DEF Under
      <4>4. Reserved(z) => Reserved(z)'
        BY <1>12, <4>1 DEF Reserved
      <4> QED
        BY <1>6, <4>2, <4>3, <4>4 DEF Unless
    <3>2. CASE c # Nobody /\ ~(call[c].zid = z /\ IsChange(call[c].op))
      BY <1>6, <1>9, <1>12, <3>2, UnlessOthers
    <3>3. CASE c = Nobody
      BY <1>2, <1>6, <3>3, SameCalls
    <3> QED
      BY <3>1, <3>2, <3>3
  <2> QED
    BY <1>5, <1>6, <2>1, EntriesFrame
<1> QED
  BY <1>15, <1>16, <1>17, <1>19, <1>20

LEMMA TimeoutStep ==
  ASSUME IInv, NEW c \in Clients, Timeout(c)
  PROVE  IInv'
<1> USE DEF IInv
<1>1. PICK z, k : z = call[c].zid /\ k = WorkerOf[z]
  OBVIOUS
<1>2. /\ call[c].pc = "wait" /\ Spend("timeouts")
      /\ worker' = [j \in Workers |->
            IF worker[j].client = c THEN [worker[j] EXCEPT !.client = Nobody] ELSE worker[j]]
      /\ Return(c, FALSE)
      /\ spoiled' = spoiled \union (IF call[c].op = "get" THEN {} ELSE {z})
      /\ UNCHANGED <<disk, dirThere, osEvents, notifier, serviceVars, unreported, excused>>
  BY <1>1 DEF Timeout, Spoil
<1>3. ClientOK(c) /\ ChangeOK(c) /\ call[c] \in Calls
  BY TypesAre DEF ClientsOK, ChangesOK
<1>4. /\ z \in Zids /\ k \in Workers /\ worker[k].client = c /\ worker[k] = Job(c)
      /\ call[c].op \in {"create", "update", "delete", "get"}
  BY <1>1, <1>2, <1>3, TypesAre DEF ClientOK, Job, Calls
<1>5. IsChange(call[c].op) => z \in spoiled'
  BY <1>2 DEF IsChange
<1>6. Worse
  BY <1>2 DEF Worse
<1>7. UNCHANGED <<state, known, entries, listing, newEntries, notes>>
  BY <1>2 DEF serviceVars
<1>8. /\ call' \in [Clients -> Calls] /\ \A d \in Clients : d # c => call'[d] = call[d]
      /\ \/ call'[c].pc = "idle" /\ call'[c].op = "none"
         \/ /\ call'[c].op = call[c].op /\ call'[c].zid = z
            /\ call'[c].entry = call[c].entry /\ IsChange(call[c].op)
            /\ call'[c].pc = "notify"
  BY <1>1, <1>2, ReturnIs
<1>9. \A j \in Workers : j # k => worker[j].client # c
  <2>1. \A j \in Workers : WorkerOK(j)
    BY DEF WorkersOK
  <2> QED
    BY <1>1, <2>1, ClientsAssumption DEF WorkerOK
<1>10. worker \in [Workers -> Jobs] /\ \A j \in Workers : worker[j] \in Jobs
  BY TypesAre DEF TypeOK
<1>11. \A j \in Workers : j # k => worker'[j] = worker[j]
  BY <1>2, <1>9
<1>12. /\ worker'[k] \in Jobs /\ worker'[k].client = Nobody
       /\ worker'[k].op = worker[k].op /\ worker'[k].todo = worker[k].todo
  <2>1. worker'[k] = [worker[k] EXCEPT !.client = Nobody]
    BY <1>2, <1>4
  <2> QED
    BY <1>4, <1>10, <2>1 DEF Jobs
<1>13. worker' \in [Workers -> Jobs]
  <2>1. \A j \in Workers : worker'[j] \in Jobs
    BY <1>10, <1>11, <1>12
  <2> QED
    BY <1>2, <2>1
<1>14. /\ ClientOK(c)' /\ ChangeOK(c)'
       /\ IsChange(call'[c].op) => call'[c].op = call[c].op /\ call'[c].zid = call[c].zid
  <2>1. CASE call'[c].pc = "idle" /\ call'[c].op = "none"
    BY <2>1, FinishedIs DEF IsChange
  <2>2. CASE ~(call'[c].pc = "idle" /\ call'[c].op = "none")
    <3>1. /\ call'[c].op = call[c].op /\ call'[c].zid = call[c].zid
          /\ call'[c].entry = call[c].entry /\ IsChange(call[c].op) /\ call'[c].pc = "notify"
      BY <1>1, <1>8, <2>2
    <3>2. ~(call[c].zid \notin spoiled')
      BY <1>1, <1>5, <3>1
    <3>3. ClientOK(c)' /\ ChangeOK(c)'
      BY <1>2, <1>6, <1>8, <3>1, <3>2, ReturnedIs
    <3> QED
      BY <3>1, <3>3
  <2> QED
    BY <2>1, <2>2
<1>15. ClientsOK' /\ WorkersOK' /\ ChangesOK'
  <2>1. IsChange(call[c].op) => call[c].zid \in spoiled'
    BY <1>1, <1>5
  <2>2. c = worker[k].client /\ worker'[k].client = Nobody
    BY <1>4, <1>12
  <2>3. worker'[k].todo # <<>> =>
            /\ worker'[k].op = worker[k].op /\ worker'[k].todo = worker[k].todo
            /\ c # Nobody /\ IsChange(call[c].op) => call[c].zid \in spoiled'
    BY <1>12, <2>1
  <2>4. /\ UNCHANGED <<disk, dirThere>> /\ k \in Workers
        /\ \A d \in Clients : d # c => call'[d] = call[d]
    BY <1>2, <1>4, <1>8
  <2> QED
    BY <1>6, <1>11, <1>14, <2>2, <2>3, <2>4, LeaveFrame
<1>16. DiskOK' /\ EventsOK' /\ NotifierOK' /\ ListsOK'
  BY <1>2, <1>6, <1>7, DiskFrame, EventsFrame, NotifierFrame, ListsFrame
<1>17. TypeOK'
  <2>1. /\ budget' \in Budget /\ (~known => entries' = <<>>)
        /\ IsEntries(entries') /\ unreported' \subseteq Zids
    BY <1>2, <1>7, SpendIs DEF TypeOK, IsEntries
  <2> QED
    BY <1>2, <1>7, <1>8, <1>13, <2>1, InsideTypes
<1>18. ReportsOK'
  <2>1. ASSUME NEW y \in unreported' \ spoiled'
        PROVE  y \in unreported /\ ~(Reporting(c) /\ call[c].zid = y)
    BY <1>1, <1>2, <1>5, <2>1 DEF Reporting, IsChange
  <2> QED
    BY <1>6, <1>7, <1>8, <2>1, ReportsCall
<1>19. EntriesOK'
  <2>1. ASSUME NEW y \in Zids \ spoiled' PROVE Unless(y)
    <3>1. ~(call[c].zid = y /\ IsChange(call[c].op))
      BY <1>1, <1>5, <2>1
    <3> QED
      BY <1>7, <1>8, <3>1, UnlessOthers
  <2> QED
    BY <1>2, <1>6, <1>7, <2>1, EntriesFrame
<1> QED
  BY <1>15, <1>16, <1>17, <1>18, <1>19

-----------------------------------------------------------------------------
(* The notifier and the service.                                            *)
LEMMA NotifierTypes ==
  ASSUME TypeOK, notifier'.pc \in {"make", "fetch", "error", "list", "loop"},
         notifier'.names \in Seq(Names), osEvents' \in Seq(Events),
         state' \in {"DsStarting", "DsWorking", "DsMissing"},
         known' \in BOOLEAN, listing' \in BOOLEAN, IsEntries(entries'), IsEntries(newEntries'),
         ~known' => entries' = <<>>, notes' \subseteq (Zids \X {"OnZettel", "OnDelete"}),
         unreported' \subseteq Zids, budget' \in Budget, UNCHANGED <<disk, dirThere, call, worker>>
  PROVE  TypeOK'
BY DEF TypeOK, IsEntries

LEMMA NoEntries ==
  /\ IsEntries(<<>>) /\ <<>> \in Seq(Names) /\ \A z : EntryOf(<<>>, z) = NewEntry
  /\ ToSet(<<>>) = {}
<1>1. DOMAIN <<>> = {} /\ <<>> \in Seq(Names)
  OBVIOUS
<1> QED
  BY <1>1 DEF IsEntries, EntryOf, ToSet

(* The notifier prepares a list; nobody looks at it yet. *)
LEMMA QuietFrame ==
  ASSUME IInv, UNCHANGED <<fileVars, call, worker, known, entries, notes, unreported>>
  PROVE  /\ DiskOK' /\ EventsOK' /\ ClientsOK' /\ WorkersOK' /\ ChangesOK'
         /\ EntriesOK' /\ ReportsOK'
<1> USE DEF IInv
<1>1. Worse /\ UNCHANGED <<disk, dirThere, osEvents, spoiled>>
  BY DEF Worse, fileVars
<1>2. DiskOK' /\ EventsOK' /\ ClientsOK' /\ WorkersOK' /\ ChangesOK'
  BY <1>1, DiskFrame, EventsFrame, CallsFrame
<1>3. EntriesOK'
  BY <1>1, SameCalls, EntriesFrame
<1>4. ReportsOK'
  BY <1>1, ReportsFrame
<1> QED
  BY <1>2, <1>3, <1>4

LEMMA GotoIs ==
  ASSUME NEW pc, NEW names, Goto(pc, names)
  PROVE  notifier'.pc = pc /\ notifier'.names = names
BY DEF Goto

LEMMA SendMakeStep ==
  ASSUME IInv, SendMake
  PROVE  IInv'
<1> USE DEF IInv
<1>1. /\ listing' = TRUE /\ newEntries' = <<>> /\ Goto("fetch", <<>>) /\ notifier.pc = "make"
      /\ UNCHANGED <<fileVars, call, worker, known, entries, notes, unreported, state, budget>>
  BY DEF SendMake, envVars
<1>2. notifier'.pc = "fetch" /\ notifier'.names = <<>>
  BY <1>1, GotoIs
<1>3. /\ DiskOK' /\ EventsOK' /\ ClientsOK' /\ WorkersOK' /\ ChangesOK'
      /\ EntriesOK' /\ ReportsOK'
  BY <1>1, QuietFrame
<1>4. UNCHANGED <<disk, dirThere, osEvents, spoiled>>
  BY <1>1 DEF fileVars
<1>5. TypeOK'
  <2>1. /\ osEvents' \in Seq(Events) /\ state' \in {"DsStarting", "DsWorking", "DsMissing"}
        /\ known' \in BOOLEAN /\ IsEntries(entries') /\ (~known' => entries' = <<>>)
        /\ notes' \subseteq (Zids \X {"OnZettel", "OnDelete"}) /\ unreported' \subseteq Zids
        /\ budget' \in Budget
    BY <1>1, <1>4 DEF TypeOK, IsEntries
  <2> QED
    BY <1>1, <1>2, <1>4, <2>1, NoEntries, NotifierTypes
<1>6. NotifierOK' /\ ListsOK'
  BY <1>1, <1>2, <1>4 DEF NotifierOK, ListsOK
<1> QED
  BY <1>3, <1>5, <1>6

LEMMA FetchStep ==
  ASSUME IInv, Fetch
  PROVE  IInv'
<1> USE DEF IInv
<1>1. /\ notifier.pc = "fetch"
      /\ IF dirThere THEN Goto("list", Sorted(DOMAIN disk)) ELSE Goto("error", <<>>)
      /\ UNCHANGED <<fileVars, call, worker, serviceVars, unreported, budget>>
  BY DEF Fetch, envVars
<1>2. UNCHANGED <<state, known, entries, listing, newEntries, notes>>
  BY <1>1 DEF serviceVars
<1>3. /\ DiskOK' /\ EventsOK' /\ ClientsOK' /\ WorkersOK' /\ ChangesOK'
      /\ EntriesOK' /\ ReportsOK'
  BY <1>1, <1>2, QuietFrame
<1>4. UNCHANGED <<disk, dirThere, osEvents, spoiled>>
  BY <1>1 DEF fileVars
<1>5. Sorted(DOMAIN disk) \in Seq(Names) /\ ToSet(Sorted(DOMAIN disk)) = DOMAIN disk
  BY SortedLists DEF TypeOK, DiskOK
<1>6. /\ dirThere => notifier'.pc = "list" /\ notifier'.names = Sorted(DOMAIN disk)
      /\ ~dirThere => notifier'.pc = "error" /\ notifier'.names = <<>>
  BY <1>1, GotoIs
<1>7. TypeOK'
  <2>1. /\ osEvents' \in Seq(Events) /\ state' \in {"DsStarting", "DsWorking", "DsMissing"}
        /\ known' \in BOOLEAN /\ IsEntries(entries') /\ (~known' => entries' = <<>>)
        /\ notes' \subseteq (Zids \X {"OnZettel", "OnDelete"}) /\ unreported' \subseteq Zids
        /\ budget' \in Budget /\ listing' \in BOOLEAN /\ IsEntries(newEntries')
    BY <1>1, <1>2, <1>4 DEF TypeOK, IsEntries
  <2>2. /\ notifier'.pc \in {"make", "fetch", "error", "list", "loop"}
        /\ notifier'.names \in Seq(Names)
    BY <1>5, <1>6, NoEntries
  <2> QED
    BY <1>1, <1>4, <2>1, <2>2, NotifierTypes
<1>8. listing /\ newEntries = <<>>
  BY <1>1 DEF NotifierOK
<1>9. NotifierOK'
  BY <1>2, <1>4, <1>6, <1>8 DEF NotifierOK
<1>10. ASSUME dirThere, NEW z \in Zids PROVE ListOK(z)'
  <2>1. EntryOf(newEntries', z) = NewEntry /\ z \notin DOMAIN newEntries'
    BY <1>2, <1>8, NoEntries, NoFunction
  <2>2. Listed(z)' = DiskOf(z) /\ DiskOf(z)' = DiskOf(z)
    BY <1>4, <1>5, <1>6, <1>10, <2>1, NewEntryIs DEF Listed, DiskOf
  <2>3. ASSUME z \notin spoiled PROVE Harmless(DiskOf(z)) /\ \A n \in DiskOf(z) : Plain(n)
    <3>1. \A n \in DiskOf(z) : n \in DOMAIN disk /\ ZidOf[n] \notin Lossy(DOMAIN disk)
      BY <2>3 DEF DiskOf, DiskOK
    <3> QED
      BY <3>1, LossyIs DEF Harmless
  <2>4. \A n \in DiskOf(z) : n \in DOMAIN disk
    BY DEF DiskOf
  <2> QED
    BY <1>4, <2>1, <2>2, <2>3, <2>4, NewEntryIs DEF ListOK
<1>11. ListsOK'
  BY <1>6, <1>10 DEF ListsOK
<1> QED
  BY <1>3, <1>7, <1>9, <1>11

LEMMA SendErrorStep ==
  ASSUME IInv, SendError
  PROVE  IInv'
<1> USE DEF IInv
<1>1. /\ listing' = FALSE /\ newEntries' = <<>> /\ Goto("list", <<>>) /\ notifier.pc = "error"
      /\ UNCHANGED <<fileVars, call, worker, known, entries, notes, unreported, state, budget>>
  BY DEF SendError, envVars
<1>2. notifier'.pc = "list" /\ notifier'.names = <<>>
  BY <1>1, GotoIs
<1>3. /\ DiskOK' /\ EventsOK' /\ ClientsOK' /\ WorkersOK' /\ ChangesOK'
      /\ EntriesOK' /\ ReportsOK'
  BY <1>1, QuietFrame
<1>4. UNCHANGED <<disk, dirThere, osEvents, spoiled>>
  BY <1>1 DEF fileVars
<1>5. TypeOK'
  <2>1. /\ osEvents' \in Seq(Events) /\ state' \in {"DsStarting", "DsWorking", "DsMissing"}
        /\ known' \in BOOLEAN /\ IsEntries(entries') /\ (~known' => entries' = <<>>)
        /\ notes' \subseteq (Zids \X {"OnZettel", "OnDelete"}) /\ unreported' \subseteq Zids
        /\ budget' \in Budget
    BY <1>1, <1>4 DEF TypeOK, IsEntries
  <2> QED
    BY <1>1, <1>2, <1>4, <2>1, NoEntries, NotifierTypes
<1>6. NotifierOK' /\ ListsOK'
  BY <1>1, <1>2, <1>4 DEF NotifierOK, ListsOK
<1> QED
  BY <1>3, <1>5, <1>6

LEMMA RefreshStep ==
  ASSUME IInv, Refresh
  PROVE  IInv'
<1> USE DEF IInv
<1>1. /\ Spend("refreshes") /\ Goto("make", <<>>)
      /\ UNCHANGED <<fileVars, call, worker, serviceVars, unreported>>
  BY DEF Refresh, envVars
<1>2. UNCHANGED <<state, known, entries, listing, newEntries, notes>>
  BY <1>1 DEF serviceVars
<1>3. notifier'.pc = "make" /\ notifier'.names = <<>>
  BY <1>1, GotoIs
<1>4. /\ DiskOK' /\ EventsOK' /\ ClientsOK' /\ WorkersOK' /\ ChangesOK'
      /\ EntriesOK' /\ ReportsOK'
  BY <1>1, <1>2, QuietFrame
<1>5. UNCHANGED <<disk, dirThere, osEvents, spoiled>>
  BY <1>1 DEF fileVars
<1>6. TypeOK'
  <2>1. /\ osEvents' \in Seq(Events) /\ state' \in {"DsStarting", "DsWorking", "DsMissing"}
        /\ known' \in BOOLEAN /\ IsEntries(entries') /\ (~known' => entries' = <<>>)
        /\ notes' \subseteq (Zids \X {"OnZettel", "OnDelete"}) /\ unreported' \subseteq Zids
        /\ listing' \in BOOLEAN /\ IsEntries(newEntries')
    BY <1>1, <1>2, <1>5 DEF TypeOK, IsEntries
  <2>2. budget' \in Budget
    BY <1>1, SpendIs
  <2> QED
    BY <1>1, <1>3, <1>5, <2>1, <2>2, NoEntries, NotifierTypes
<1>7. NotifierOK' /\ ListsOK'
  BY <1>2, <1>3, <1>5 DEF NotifierOK, ListsOK
<1> QED
  BY <1>4, <1>6, <1>7

LEMMA ReportStep ==
  ASSUME IInv, Report
  PROVE  IInv'
<1> USE DEF IInv
<1>1. PICK note \in notes : notes' = notes \ {note} /\ unreported' = unreported \ {note[1]}
  BY DEF Report
<1>2. UNCHANGED <<fileVars, call, worker, notifier, state, known, entries, listing, newEntries, budget>>
  BY DEF Report, envVars
<1>3. Worse /\ UNCHANGED <<disk, dirThere, osEvents, spoiled>>
  BY <1>2 DEF Worse, fileVars
<1>4. DiskOK' /\ EventsOK' /\ ClientsOK' /\ WorkersOK' /\ ChangesOK' /\ NotifierOK' /\ ListsOK'
  BY <1>2, <1>3, DiskFrame, EventsFrame, CallsFrame, NotifierFrame, ListsFrame
<1>5. EntriesOK'
  BY <1>2, <1>3, SameCalls, EntriesFrame
<1>6. ReportsOK'
  BY <1>1, <1>2, <1>3, ReportsFrame
<1>7. TypeOK'
  <2>1. /\ osEvents' \in Seq(Events) /\ state' \in {"DsStarting", "DsWorking", "DsMissing"}
        /\ known' \in BOOLEAN /\ IsEntries(entries') /\ (~known' => entries' = <<>>)
        /\ listing' \in BOOLEAN /\ IsEntries(newEntries') /\ budget' \in Budget
        /\ notifier'.pc \in {"make", "fetch", "error", "list", "loop"}
        /\ notifier'.names \in Seq(Names)
    BY <1>2, <1>3 DEF TypeOK, IsEntries
  <2>2. notes' \subseteq (Zids \X {"OnZettel", "OnDelete"}) /\ unreported' \subseteq Zids
    BY <1>1 DEF TypeOK
  <2> QED
    BY <1>2, <1>3, <2>1, <2>2, NotifierTypes
<1> QED
  BY <1>4, <1>5, <1>6, <1>7

(* A metadata file of an entry that needs none clashes with its content.    *)
LEMMA HarmlessMeta ==
  ASSUME NEW e, NEW z, OfZettel(e, z), WellFormed(e), NEW S, Harmless(S), FilesOf(e) \subseteq S,
         NEW n \in Names
  PROVE  ~(HasMetaInContent(e) /\ n = e.meta)
<1> SUFFICES ASSUME HasMetaInContent(e), n = e.meta PROVE FALSE
  OBVIOUS
<1>1. n # NoName /\ e.content # NoName
  BY NamesAre, NoExt DEF HasMetaInContent, zettel
<1>2. Ext(e.meta) = "" /\ Ext(e.content) = zettel
  BY <1>1 DEF WellFormed, Roles, HasMetaInContent
<1>3. e.meta \in FilesOf(e) /\ e.content \in FilesOf(e)
  BY <1>1, FilesAre
<1>4. ZidOf[e.meta] = ZidOf[e.content]
  BY <1>3 DEF OfZettel
<1>5. Clash(e.meta, e.content)
  BY <1>2, <1>4 DEF Clash
<1> QED
  BY <1>3, <1>5 DEF Harmless

LEMMA SendListStep ==
  ASSUME IInv, SendList
  PROVE  IInv'
<1> USE DEF IInv
<1>1. PICK n, rest : n = Head(notifier.names) /\ rest = Tail(notifier.names)
  OBVIOUS
<1>2. /\ notifier.pc = "list" /\ notifier.names # <<>>
      /\ newEntries' = IF listing THEN onUpdateFileEvent(newEntries, n) ELSE newEntries
      /\ Goto("list", rest)
      /\ UNCHANGED <<fileVars, call, worker, state, known, entries, listing, notes, budget, unreported>>
  BY <1>1 DEF SendList, envVars
<1>3. /\ DiskOK' /\ EventsOK' /\ ClientsOK' /\ WorkersOK' /\ ChangesOK'
      /\ EntriesOK' /\ ReportsOK'
  BY <1>2, QuietFrame
<1>4. UNCHANGED <<disk, dirThere, osEvents, spoiled>>
  BY <1>2 DEF fileVars
<1>5. notifier'.pc = "list" /\ notifier'.names = rest
  BY <1>2, GotoIs
<1>6. /\ n \in Names /\ rest \in Seq(Names)
      /\ ToSet(notifier.names) = {n} \union ToSet(rest)
  BY <1>1, <1>2, TypesAre, HeadTailIs
<1>7. PICK g : g = onUpdateFileEvent(newEntries, n)
  OBVIOUS
<1>8. /\ IsEntries(g)
      /\ \A z \in Zids : z # ZidOf[n] =>
            EntryOf(g, z) = EntryOf(newEntries, z) /\ (z \in DOMAIN g <=> z \in DOMAIN newEntries)
      /\ ZidOf[n] \in Zids =>
            /\ DOMAIN g = DOMAIN newEntries \union {ZidOf[n]}
            /\ EntryOf(g, ZidOf[n]) = updateEntry(EntryOf(newEntries, ZidOf[n]), n).entry
            /\ FilesOf(EntryOf(g, ZidOf[n])) \subseteq FilesOf(EntryOf(newEntries, ZidOf[n])) \union {n}
  BY <1>6, <1>7, TypesAre, UpdateEventIs
<1>9. TypeOK'
  <2>1. /\ osEvents' \in Seq(Events) /\ state' \in {"DsStarting", "DsWorking", "DsMissing"}
        /\ known' \in BOOLEAN /\ IsEntries(entries') /\ (~known' => entries' = <<>>)
        /\ notes' \subseteq (Zids \X {"OnZettel", "OnDelete"}) /\ unreported' \subseteq Zids
        /\ budget' \in Budget /\ listing' \in BOOLEAN
    BY <1>2, <1>4 DEF TypeOK, IsEntries
  <2>2. IsEntries(newEntries')
    BY <1>2, <1>7, <1>8, TypesAre
  <2> QED
    BY <1>2, <1>4, <1>5, <1>6, <2>1, <2>2, NotifierTypes
<1>10. NotifierOK'
  BY <1>2, <1>4, <1>5 DEF NotifierOK
<1>11. ASSUME listing, NEW z \in Zids PROVE ListOK(z)'
  <2>1. PICK e, r, S : /\ e = EntryOf(newEntries, z) /\ r = EntryOf(g, z) /\ S = Listed(z)
    OBVIOUS
  <2>2. newEntries' = g /\ EntryOf(newEntries', z) = r
    BY <1>2, <1>7, <1>11, <2>1
  <2>3. ListOK(z)
    BY <1>2, <1>11 DEF ListsOK
  <2>4. /\ OfZettel(e, z) /\ FilesOf(e) \subseteq S
        /\ z \notin spoiled =>
            /\ WellFormed(e) /\ Harmless(S) /\ \A m \in S : Plain(m)
            /\ z \in DOMAIN newEntries => FilesOf(e) # {}
            /\ \A m \in S : Pending(osEvents, m) \/ m \in DOMAIN disk
            /\ \A m \in DiskOf(z) : Pending(osEvents, m) \/ m \in S
    BY <2>1, <2>3 DEF ListOK, OfZettel, Listed
  <2>5. OfZettel(r, z)
    BY <1>8, <2>1, <2>4 DEF OfZettel
  <2>6. Listed(z)' = FilesOf(r) \union {m \in ToSet(rest) : ZidOf[m] = z}
    BY <1>5, <2>2 DEF Listed
  <2>7. S = FilesOf(e) \union {m \in {n} \union ToSet(rest) : ZidOf[m] = z}
    BY <1>6, <2>1 DEF Listed
  <2>8. z \notin spoiled => /\ WellFormed(r) /\ Listed(z)' = S
                            /\ z \in DOMAIN g => FilesOf(r) # {}
    <3>1. CASE z # ZidOf[n]
      <4>1. r = e /\ (z \in DOMAIN g <=> z \in DOMAIN newEntries)
        BY <1>8, <2>1, <3>1
      <4>2. {m \in {n} \union ToSet(rest) : ZidOf[m] = z} = {m \in ToSet(rest) : ZidOf[m] = z}
        BY <3>1
      <4> QED
        BY <2>4, <2>6, <2>7, <4>1, <4>2
    <3>2. CASE z = ZidOf[n] /\ z \notin spoiled
      <4>1. n \in S /\ Plain(n)
        BY <2>4, <2>7, <3>2
      <4>2. ~(HasMetaInContent(e) /\ n = e.meta)
        BY <1>6, <2>4, <3>2, HarmlessMeta
      <4>3. r = updateEntry(e, n).entry
        BY <1>8, <2>1, <3>2
      <4>4. WellFormed(r) /\ FilesOf(r) = FilesOf(e) \union {n}
        BY <1>6, <2>4, <3>2, <4>1, <4>2, <4>3, UpdateKeeps
      <4>5. {m \in {n} \union ToSet(rest) : ZidOf[m] = z} = {n} \union {m \in ToSet(rest) : ZidOf[m] = z}
        BY <3>2
      <4> QED
        BY <2>6, <2>7, <4>4, <4>5
    <3> QED
      BY <3>1, <3>2
  <2>9. DiskOf(z)' = DiskOf(z)
    BY <1>4 DEF DiskOf
  <2> QED
    BY <1>4, <2>2, <2>4, <2>5, <2>8, <2>9 DEF ListOK, OfZettel
<1>12. ListsOK'
  BY <1>2, <1>11 DEF ListsOK
<1> QED
  BY <1>3, <1>9, <1>10, <1>12

LEMMA SendEndStep ==
  ASSUME IInv, SendEnd
  PROVE  IInv'
<1> USE DEF IInv
<1>1. /\ notifier.pc = "list" /\ notifier.names = <<>> /\ notes = {}
      /\ known' = listing /\ entries' = newEntries /\ listing' = FALSE /\ newEntries' = <<>>
      /\ state' = "DsWorking" /\ notes' = onCreateDirectory(entries, newEntries)
      /\ Changed(entries, newEntries) /\ Goto("loop", <<>>)
      /\ UNCHANGED <<fileVars, call, worker, budget>>
  BY DEF SendEnd, envVars
<1>2. Worse /\ UNCHANGED <<disk, dirThere, osEvents, spoiled>>
  BY <1>1 DEF Worse, fileVars
<1>3. DiskOK' /\ EventsOK' /\ ClientsOK' /\ WorkersOK' /\ ChangesOK'
  BY <1>1, <1>2, DiskFrame, EventsFrame, CallsFrame
<1>4. notifier'.pc = "loop" /\ notifier'.names = <<>>
  BY <1>1, GotoIs
<1>5. NotifierOK' /\ ListsOK'
  BY <1>1, <1>2, <1>4 DEF NotifierOK, ListsOK
<1>6. ~listing => newEntries = <<>>
  BY <1>1 DEF NotifierOK
<1>7. DOMAIN entries \subseteq Zids /\ DOMAIN newEntries \subseteq Zids /\ listing \in BOOLEAN
  BY DEF TypeOK, IsEntries
<1>8. /\ unreported' \subseteq Zids
      /\ \A z \in unreported' \ unreported : z \in DOMAIN entries \/ z \in DOMAIN newEntries
  BY <1>1, ChangedIs
<1>9. /\ notes' \subseteq (Zids \X {"OnZettel", "OnDelete"})
      /\ \A z : z \in DOMAIN entries \/ z \in DOMAIN newEntries => \E note \in notes' : note[1] = z
  <2>1. notes' = ((DOMAIN newEntries) \X {"OnZettel"})
                    \union ((DOMAIN entries \ DOMAIN newEntries) \X {"OnDelete"})
    BY <1>1 DEF onCreateDirectory
  <2>2. ASSUME NEW z, z \in DOMAIN newEntries PROVE \E note \in notes' : note[1] = z
    <3>1. <<z, "OnZettel">> \in notes' /\ <<z, "OnZettel">>[1] = z
      BY <2>1, <2>2
    <3> QED
      BY <3>1
  <2>3. ASSUME NEW z, z \in DOMAIN entries, z \notin DOMAIN newEntries
        PROVE  \E note \in notes' : note[1] = z
    <3>1. <<z, "OnDelete">> \in notes' /\ <<z, "OnDelete">>[1] = z
      BY <2>1, <2>3
    <3> QED
      BY <3>1
  <2> QED
    BY <1>7, <2>1, <2>2, <2>3
<1>10. TypeOK'
  <2>1. osEvents' \in Seq(Events) /\ budget' \in Budget /\ IsEntries(entries')
    BY <1>1, <1>2 DEF TypeOK, IsEntries
  <2>2. known' \in BOOLEAN /\ (~known' => entries' = <<>>) /\ listing' \in BOOLEAN /\ IsEntries(newEntries')
    BY <1>1, <1>6, <1>7, NoEntries
  <2> QED
    BY <1>1, <1>2, <1>4, <1>8, <1>9, <2>1, <2>2, NoEntries, NotifierTypes
<1>11. ReportsOK'
  <2> SUFFICES ASSUME NEW z \in unreported' \ spoiled', ~\E note \in notes' : note[1] = z
               PROVE  \E c \in Clients : Reporting(c)' /\ call'[c].zid = z
    BY DEF ReportsOK, Reporting
  <2>1. z \in unreported \ spoiled
    BY <1>2, <1>8, <1>9
  <2>2. \E c \in Clients : Reporting(c) /\ call[c].zid = z
    BY <1>1, <2>1 DEF ReportsOK, Reporting
  <2> QED
    BY <1>1, <2>2 DEF Reporting
<1>12. ASSUME NEW z \in Zids PROVE EntryOK(z)'
  <2>1. PICK e : e = EntryOf(newEntries, z)
    OBVIOUS
  <2>2. EntryOf(entries', z) = e /\ DiskOf(z)' = DiskOf(z)
    BY <1>1, <1>2, <2>1 DEF DiskOf
  <2>3. CASE ~listing
    <3>1. e = NewEntry /\ z \notin DOMAIN entries'
      BY <1>1, <1>6, <2>1, <2>3, NoEntries, NoFunction
    <3>2. WellFormed(e) /\ FilesOf(e) = {}
      BY <3>1, NewEntryIs
    <3>3. Separate(osEvents', e) /\ OneIsGone(osEvents', e)
      BY <3>1, <3>2, NewEntryIs, HarmlessIsApart DEF OfZettel, Harmless
    <3> QED
      BY <1>1, <2>2, <2>3, <3>1, <3>2, <3>3 DEF EntryOK
  <2>4. CASE listing
    <3>1. ListOK(z) /\ Listed(z) = FilesOf(e)
      BY <1>1, <2>1, <2>4, NoEntries DEF ListsOK, Listed
    <3>2. /\ OfZettel(e, z)
          /\ z \notin spoiled =>
            /\ WellFormed(e) /\ Harmless(FilesOf(e))
            /\ z \in DOMAIN newEntries => FilesOf(e) # {}
            /\ \A m \in FilesOf(e) : Pending(osEvents, m) \/ m \in DOMAIN disk
            /\ \A m \in DiskOf(z) : Pending(osEvents, m) \/ m \in FilesOf(e)
      BY <2>1, <3>1 DEF ListOK, OfZettel
    <3>3. z \notin spoiled => Separate(osEvents', e) /\ OneIsGone(osEvents', e)
      BY <3>2, HarmlessIsApart
    <3> QED
      BY <1>1, <1>2, <2>2, <3>2, <3>3 DEF EntryOK, OfZettel
  <2> QED
    BY <2>3, <2>4
<1> QED
  BY <1>3, <1>5, <1>10, <1>11, <1>12 DEF EntriesOK

-----------------------------------------------------------------------------
(* The service handles an event of the file system.                         *)
Taken(ev) ==
    /\ notifier.pc = "loop" /\ notes = {}
    /\ osEvents # <<>> /\ ev = Head(osEvents) /\ osEvents' = Tail(osEvents)
    /\ UNCHANGED <<disk, dirThere, spoiled, call, worker, budget, excused>>

LEMMA TakenIs ==
  ASSUME IInv, NEW ev, Taken(ev)
  PROVE  /\ DiskOK' /\ EventsOK' /\ ClientsOK' /\ WorkersOK' /\ ChangesOK' /\ Worse
         /\ osEvents \in Seq(Events) /\ ev \in Events /\ osEvents' \in Seq(Events)
         /\ \A m : Pending(osEvents, m) => ev.name = m \/ Pending(osEvents', m)
         /\ \A op : Awaited(osEvents, op) <=> ev.op = op \/ Awaited(osEvents', op)
         /\ ev.name \in Names /\ ~(ev.op = "Write" <=> ev.name \in DOMAIN disk)
                => Pending(osEvents', ev.name)
         /\ ev.name \in Names /\ ZidOf[ev.name] \notin spoiled => Plain(ev.name)
         /\ ev.op = "Write" /\ ZidOf[ev.name] \notin spoiled => GoneFirst(osEvents', ev.name)
         /\ \A m : GoneFirst(osEvents, m) =>
                /\ ~(ev.name \in Names /\ Clash(ev.name, m))
                /\ ev.op = "Write" \/ ev.name # m => GoneFirst(osEvents', m)
         /\ dirThere /\ ev.op = "DirRename" => Awaited(osEvents', "DirCreate")
<1> USE DEF IInv
<1>1. /\ osEvents # <<>> /\ ev = Head(osEvents) /\ osEvents' = Tail(osEvents)
      /\ UNCHANGED <<disk, dirThere, spoiled, call, worker>>
  BY DEF Taken
<1>2. Worse
  BY <1>1 DEF Worse
<1>3. osEvents \in Seq(Events)
  BY TypesAre
<1>4. Tail(osEvents) \in Seq(Events) /\ Head(osEvents) \in Events
  BY <1>1, <1>3, TailEvents
<1>5. DiskOK' /\ ClientsOK' /\ WorkersOK' /\ ChangesOK'
  BY <1>1, <1>2, DiskFrame, CallsFrame
<1>6. /\ LastTells(osEvents, DOMAIN disk)
      /\ PlainEvents(osEvents, spoiled) /\ ApartEvents(osEvents, spoiled)
      /\ dirThere => Returns(osEvents)
  BY DEF EventsOK
<1>7. /\ \A m : Pending(osEvents, m) <=> ev.name = m \/ Pending(Tail(osEvents), m)
      /\ \A op : Awaited(osEvents, op) <=> ev.op = op \/ Awaited(Tail(osEvents), op)
  BY <1>1, <1>3, PendingTail
<1>8. /\ LastTells(Tail(osEvents), DOMAIN disk)
      /\ ev.name \in Names /\ ~(ev.op = "Write" <=> ev.name \in DOMAIN disk)
            => Pending(Tail(osEvents), ev.name)
  BY <1>1, <1>3, <1>6, LastTellsTail
<1>9. /\ PlainEvents(Tail(osEvents), spoiled)
      /\ ev.name \in Names /\ ZidOf[ev.name] \notin spoiled => Plain(ev.name)
  BY <1>1, <1>3, <1>6, PlainTail
<1>10. /\ ApartEvents(Tail(osEvents), spoiled)
       /\ ev.op = "Write" /\ ZidOf[ev.name] \notin spoiled => GoneFirst(Tail(osEvents), ev.name)
  BY <1>1, <1>3, <1>6, ApartTail
<1>11. dirThere => /\ Returns(Tail(osEvents))
                   /\ ev.op = "DirRename" => Awaited(Tail(osEvents), "DirCreate")
  BY <1>1, <1>3, <1>6, ReturnsTail
<1>12. \A m : GoneFirst(osEvents, m) =>
                /\ ~(ev.name \in Names /\ Clash(ev.name, m))
                /\ ev.op = "Write" \/ ev.name # m => GoneFirst(Tail(osEvents), m)
  <2> SUFFICES ASSUME NEW m, GoneFirst(osEvents, m)
               PROVE  /\ ~(ev.name \in Names /\ Clash(ev.name, m))
                      /\ ev.op = "Write" \/ ev.name # m => GoneFirst(Tail(osEvents), m)
    OBVIOUS
  <2>1. /\ ~(ev.name \in Names /\ Clash(ev.name, m))
        /\ ~(ev.op = "Remove" /\ ev.name = m) => GoneFirst(Tail(osEvents), m)
    BY <1>1, <1>3, GoneFirstTail
  <2>2. ev.op = "Write" => ~(ev.op = "Remove" /\ ev.name = m)
    OBVIOUS
  <2> QED
    BY <2>1, <2>2
<1>13. EventsOK'
  BY <1>1, <1>8, <1>9, <1>10, <1>11 DEF EventsOK
<1> QED
  BY <1>1, <1>2, <1>3, <1>4, <1>5, <1>7, <1>8, <1>9, <1>10, <1>11, <1>12, <1>13

(* Entries of zettel that the event is not about. *)
LEMMA EntryTaken ==
  ASSUME IInv, NEW ev, Taken(ev), ev.op # "DirRename", NEW y \in Zids,
         ev.name \in Names => ZidOf[ev.name] # y,
         EntryOf(entries', y) = EntryOf(entries, y),
         y \in DOMAIN entries' => y \in DOMAIN entries, UNCHANGED known
  PROVE  EntryOK(y)'
<1>1. /\ \A m : Pending(osEvents, m) => ev.name = m \/ Pending(osEvents', m)
      /\ \A op : Awaited(osEvents, op) <=> ev.op = op \/ Awaited(osEvents', op)
      /\ \A m : GoneFirst(osEvents, m) /\ (ev.op = "Write" \/ ev.name # m)
            => GoneFirst(osEvents', m)
  BY TakenIs
<1>2. UNCHANGED <<disk, dirThere, spoiled, call>>
  BY DEF Taken
<1>3. EntryOK(y)
  BY DEF IInv, EntriesOK
<1>4. PICK e : e = EntryOf(entries, y)
  OBVIOUS
<1>5. e \in Entry /\ FilesOf(e) \subseteq Names /\ DOMAIN disk \subseteq Names
  BY <1>4, TypesAre, EntryIs DEF IInv
<1>6. \A n \in FilesOf(e) : ZidOf[n] = y
  BY <1>3, <1>4 DEF EntryOK
<1>7. EntryOf(entries', y) = e /\ DiskOf(y)' = DiskOf(y)
  BY <1>2, <1>4 DEF DiskOf
<1>8. CASE y \notin spoiled
  <2>1. /\ WellFormed(e) /\ Separate(osEvents, e) /\ OneIsGone(osEvents, e)
        /\ y \in DOMAIN entries => FilesOf(e) # {} \/ Reserved(y)
        /\ \A n \in FilesOf(e) :
            \/ Pending(osEvents, n) \/ n \in DOMAIN disk
            \/ \E c \in Clients : Under("update", c, y) /\ n \in FilesOf(call[c].entry)
        /\ known /\ ~Awaited(osEvents, "DirRename") =>
            \A n \in DiskOf(y) :
                Pending(osEvents, n) \/ n \in FilesOf(e) \/ \E c \in Clients : Under("delete", c, y)
    BY <1>3, <1>4, <1>8 DEF EntryOK
  <2>2. \A n : n \in FilesOf(e) \/ n \in DiskOf(y) => ev.name # n
    BY <1>5, <1>6 DEF DiskOf
  <2>3. Separate(osEvents', e) /\ OneIsGone(osEvents', e)
    BY <1>1, <2>1, <2>2 DEF Separate, OneIsGone
  <2>4. Reserved(y)' = Reserved(y) /\ \A c, op : Under(op, c, y)' = Under(op, c, y)
    BY <1>2 DEF Reserved, Under
  <2>5. \A n \in FilesOf(e) :
            \/ Pending(osEvents', n) \/ n \in DOMAIN disk
            \/ \E c \in Clients : Under("update", c, y)' /\ n \in FilesOf(call'[c].entry)
    BY <1>1, <1>2, <2>1, <2>2, <2>4
  <2>6. known /\ ~Awaited(osEvents', "DirRename") =>
            \A n \in DiskOf(y) :
                Pending(osEvents', n) \/ n \in FilesOf(e) \/ \E c \in Clients : Under("delete", c, y)'
    BY <1>1, <2>1, <2>2, <2>4
  <2> QED
    BY <1>2, <1>6, <1>7, <2>1, <2>3, <2>4, <2>5, <2>6 DEF EntryOK
<1>9. CASE y \in spoiled
  BY <1>2, <1>6, <1>7, <1>9 DEF EntryOK
<1> QED
  BY <1>8, <1>9

LEMMA UnknownEntries ==
  ASSUME ~known', entries' = <<>>
  PROVE  EntriesOK'
<1> SUFFICES ASSUME NEW z \in Zids PROVE EntryOK(z)'
  BY DEF EntriesOK
<1>1. EntryOf(entries', z) = NewEntry /\ z \notin DOMAIN entries'
  BY NoEntries, NoFunction
<1>2. WellFormed(NewEntry) /\ FilesOf(NewEntry) = {}
  BY NewEntryIs
<1>3. Separate(osEvents', NewEntry) /\ OneIsGone(osEvents', NewEntry)
  BY <1>2, HarmlessIsApart DEF OfZettel, Harmless
<1> QED
  BY <1>1, <1>2, <1>3 DEF EntryOK

(* What a file event does, whatever becomes of the entries. *)
LEMMA HandleIs ==
  ASSUME IInv, NEW ev, Taken(ev), ev.op \in {"Write", "Remove"}, NEW after, NEW reports,
         Handle(after, reports), IsEntries(after), ~known => after = <<>>,
         reports \subseteq (Zids \X {"OnZettel", "OnDelete"}),
         \A z \in Zids \ spoiled :
            ~(z \in DOMAIN entries <=> z \in DOMAIN after) => \E note \in reports : note[1] = z
  PROVE  TypeOK' /\ NotifierOK' /\ ListsOK' /\ ReportsOK'
<1> USE DEF IInv
<1>1. /\ notifier.pc = "loop" /\ notes = {}
      /\ UNCHANGED <<disk, dirThere, spoiled, call, worker, budget>>
  BY DEF Taken
<1>2. /\ entries' = after /\ Changed(entries, after) /\ notes' = reports
      /\ UNCHANGED <<known, state, listing, newEntries, notifier>>
  BY DEF Handle
<1>3. /\ osEvents' \in Seq(Events)
      /\ \A op : Awaited(osEvents, op) <=> ev.op = op \/ Awaited(osEvents', op)
  BY TakenIs
<1>4. unreported' \subseteq Zids
      /\ \A z : z \in unreported' \ unreported => ~(z \in DOMAIN entries <=> z \in DOMAIN after)
  BY <1>2, ChangedIs
<1>5. TypeOK'
  <2>1. /\ state' \in {"DsStarting", "DsWorking", "DsMissing"}
        /\ known' \in BOOLEAN /\ IsEntries(entries') /\ (~known' => entries' = <<>>)
        /\ budget' \in Budget /\ listing' \in BOOLEAN /\ IsEntries(newEntries')
        /\ notifier'.pc \in {"make", "fetch", "error", "list", "loop"}
        /\ notifier'.names \in Seq(Names)
    BY <1>1, <1>2 DEF TypeOK, IsEntries
  <2> QED
    BY <1>1, <1>2, <1>3, <1>4, <2>1, NotifierTypes
<1>6. /\ Awaited(osEvents', "DirRename") <=> Awaited(osEvents, "DirRename")
      /\ Awaited(osEvents', "DirCreate") <=> Awaited(osEvents, "DirCreate")
  <2>1. ev.op # "DirRename" /\ ev.op # "DirCreate"
    OBVIOUS
  <2> QED
    BY <1>3, <2>1
<1>7. NotifierOK' /\ ListsOK'
  BY <1>1, <1>2, <1>6 DEF NotifierOK, ListsOK
<1>8. ReportsOK'
  <2> SUFFICES ASSUME NEW z \in unreported' \ spoiled', ~\E note \in notes' : note[1] = z
               PROVE  \E c \in Clients : Reporting(c)' /\ call'[c].zid = z
    BY DEF ReportsOK, Reporting
  <2>1. z \in unreported \ spoiled
    BY <1>1, <1>2, <1>4
  <2>2. \E c \in Clients : Reporting(c) /\ call[c].zid = z
    BY <1>1, <2>1 DEF ReportsOK, Reporting
  <2> QED
    BY <1>1, <2>2 DEF Reporting
<1> QED
  BY <1>5, <1>7, <1>8

(* The file is not there any more, or nothing is known of any file. *)
LEMMA IgnoredStep ==
  ASSUME IInv, NEW ev, Taken(ev), ev.op \in {"Write", "Remove"}, Handle(entries, {}),
         known => ev.op = "Write" /\ ~Present(ev.name)
  PROVE  IInv'
<1> USE DEF IInv
<1>1. UNCHANGED <<entries, known>>
  BY DEF Handle
<1>2. UNCHANGED <<disk, dirThere, spoiled, call>>
  BY DEF Taken
<1>3. IsEntries(entries) /\ (~known => entries = <<>>)
  BY DEF TypeOK
<1>4. TypeOK' /\ NotifierOK' /\ ListsOK' /\ ReportsOK'
  BY <1>3, HandleIs
<1>5. /\ DiskOK' /\ EventsOK' /\ ClientsOK' /\ WorkersOK' /\ ChangesOK'
      /\ ev \in Events
      /\ \A m : Pending(osEvents, m) => ev.name = m \/ Pending(osEvents', m)
      /\ \A op : Awaited(osEvents, op) <=> ev.op = op \/ Awaited(osEvents', op)
      /\ ev.name \in Names /\ ~(ev.op = "Write" <=> ev.name \in DOMAIN disk)
            => Pending(osEvents', ev.name)
      /\ \A m : GoneFirst(osEvents, m) /\ (ev.op = "Write" \/ ev.name # m)
            => GoneFirst(osEvents', m)
  BY TakenIs
<1>6. CASE ~known
  BY <1>1, <1>3, <1>4, <1>5, <1>6, UnknownEntries
<1>7. CASE known
  <2>1. ev.op = "Write" /\ ev.name \in Names /\ ~(dirThere /\ ev.name \in DOMAIN disk)
    BY <1>5, <1>7 DEF Events, Present
  <2>2. ev.op # "DirRename" /\ ev.op # "Remove"
    BY <2>1
  <2>3. Awaited(osEvents', "DirRename") <=> Awaited(osEvents, "DirRename")
    BY <1>5, <2>2
  <2>4. ASSUME NEW y \in Zids PROVE EntryOK(y)'
    <3>1. CASE ZidOf[ev.name] # y
      BY <1>1, <2>2, <3>1, EntryTaken
    <3>2. CASE ZidOf[ev.name] = y
      <4>1. PICK e : e = EntryOf(entries, y)
        OBVIOUS
      <4>2. EntryOK(y)
        BY DEF EntriesOK
      <4>3. \A n \in FilesOf(e) : ZidOf[n] = y
        BY <4>1, <4>2 DEF EntryOK
      <4>4. EntryOf(entries', y) = e /\ DiskOf(y)' = DiskOf(y)
        BY <1>1, <1>2, <4>1 DEF DiskOf
      <4>5. CASE y \in spoiled
        BY <1>2, <4>3, <4>4, <4>5 DEF EntryOK
      <4>6. CASE y \notin spoiled
        <5>1. /\ WellFormed(e) /\ Separate(osEvents, e) /\ OneIsGone(osEvents, e)
              /\ y \in DOMAIN entries => FilesOf(e) # {} \/ Reserved(y)
              /\ \A n \in FilesOf(e) :
                    \/ Pending(osEvents, n) \/ n \in DOMAIN disk
                    \/ \E c \in Clients : Under("update", c, y) /\ n \in FilesOf(call[c].entry)
              /\ known /\ ~Awaited(osEvents, "DirRename") =>
                    \A n \in DiskOf(y) :
                        Pending(osEvents, n) \/ n \in FilesOf(e) \/ \E c \in Clients : Under("delete", c, y)
          BY <4>1, <4>2, <4>6 DEF EntryOK
        <5>2. Separate(osEvents', e) /\ OneIsGone(osEvents', e)
          BY <1>5, <2>1, <5>1 DEF Separate, OneIsGone
        <5>3. Reserved(y)' = Reserved(y) /\ \A c, op : Under(op, c, y)' = Under(op, c, y)
          BY <1>2 DEF Reserved, Under
        <5>4. \A n : Pending(osEvents, n) => n \in DOMAIN disk \/ Pending(osEvents', n)
          BY <1>5, <2>1
        <5>5. \A n \in FilesOf(e) :
                \/ Pending(osEvents', n) \/ n \in DOMAIN disk
                \/ \E c \in Clients : Under("update", c, y)' /\ n \in FilesOf(call'[c].entry)
          BY <1>2, <5>1, <5>3, <5>4
        <5>6. ASSUME ~Awaited(osEvents', "DirRename"), NEW n \in DiskOf(y)
              PROVE  Pending(osEvents', n) \/ n \in FilesOf(e) \/ \E c \in Clients : Under("delete", c, y)'
          <6>1. dirThere /\ ~Awaited(osEvents, "DirRename")
            BY <1>7, <2>3, <5>6 DEF NotifierOK
          <6>2. ev.name # n
            BY <2>1, <6>1 DEF DiskOf
          <6> QED
            BY <1>5, <1>7, <5>1, <5>3, <6>1, <6>2
        <5> QED
          BY <1>1, <1>2, <4>3, <4>4, <5>1, <5>2, <5>3, <5>5, <5>6 DEF EntryOK
      <4> QED
        BY <4>5, <4>6
    <3> QED
      BY <3>1, <3>2
  <2> QED
    BY <1>4, <1>5, <2>4 DEF EntriesOK
<1> QED
  BY <1>6, <1>7

LEMMA NewIsReported ==
  ASSUME NEW f, NEW n \in Names, ZidOf[n] \in Zids, Plain(n), ZidOf[n] \notin DOMAIN f
  PROVE  UpdateReports(f, n) = {ZidOf[n]}
<1>1. EntryOf(f, ZidOf[n]) = NewEntry
  BY DEF EntryOf
<1>2. updateEntry(NewEntry, n) = updateUnpaired(NewEntry, n)
  BY NewEntryIs, PlainIsUnpaired DEF WellFormed
<1>3. NewEntry.meta = NoName /\ NewEntry.content = NoName
  BY DEF NewEntry
<1>4. ~updateUnpaired(NewEntry, n).dup
  <2>1. ~updateEntryMeta(NewEntry, n).dup
    BY <1>3 DEF updateEntryMeta, Updated
  <2>2. ~updateEntryContent(NewEntry, n).dup
    BY <1>3 DEF updateEntryContent, Updated
  <2> QED
    BY <2>1, <2>2 DEF updateUnpaired
<1>5. ZidOf[n] # NoZid
  BY ZidOfIs
<1> QED
  BY <1>1, <1>2, <1>4, <1>5 DEF UpdateReports

(* A file that is there. *)
LEMMA WriteEventStep ==
  ASSUME IInv, NEW ev, Taken(ev), ev.op = "Write", known, Present(ev.name),
         Handle(onUpdateFileEvent(entries, ev.name), UpdateReports(entries, ev.name) \X {"OnZettel"})
  PROVE  IInv'
<1> USE DEF IInv
<1>1. PICK n, g : n = ev.name /\ g = onUpdateFileEvent(entries, n)
  OBVIOUS
<1>2. n \in DOMAIN disk /\ n \in Names /\ entries' = g /\ known'
  BY <1>1, TypesAre DEF Present, Handle
<1>3. UNCHANGED <<disk, dirThere, spoiled, call>>
  BY DEF Taken
<1>4. /\ DiskOK' /\ EventsOK' /\ ClientsOK' /\ WorkersOK' /\ ChangesOK'
      /\ \A m : Pending(osEvents, m) => n = m \/ Pending(osEvents', m)
      /\ \A op : Awaited(osEvents, op) <=> ev.op = op \/ Awaited(osEvents', op)
      /\ ZidOf[n] \notin spoiled => Plain(n)
      /\ ZidOf[n] \notin spoiled => GoneFirst(osEvents', n)
      /\ \A m : GoneFirst(osEvents, m) => ~Clash(n, m) /\ GoneFirst(osEvents', m)
  BY <1>1, <1>2, TakenIs
<1>5. /\ IsEntries(g)
      /\ \A z \in Zids : z # ZidOf[n] =>
            EntryOf(g, z) = EntryOf(entries, z) /\ (z \in DOMAIN g <=> z \in DOMAIN entries)
      /\ ZidOf[n] \in Zids =>
            /\ DOMAIN g = DOMAIN entries \union {ZidOf[n]}
            /\ EntryOf(g, ZidOf[n]) = updateEntry(EntryOf(entries, ZidOf[n]), n).entry
            /\ FilesOf(EntryOf(g, ZidOf[n])) \subseteq FilesOf(EntryOf(entries, ZidOf[n])) \union {n}
  <2>1. IsEntries(entries) /\ n \in Names /\ g = onUpdateFileEvent(entries, n)
    BY <1>1, <1>2, TypesAre
  <2> QED
    BY <2>1, UpdateEventIs
<1>6. TypeOK' /\ NotifierOK' /\ ListsOK' /\ ReportsOK'
  <2> DEFINE reports == UpdateReports(entries, n) \X {"OnZettel"}
  <2>1. UpdateReports(entries, n) \subseteq Zids
    BY <1>2, ZidOfIs DEF UpdateReports
  <2>2. reports \subseteq (Zids \X {"OnZettel", "OnDelete"})
    BY <2>1
  <2>3. ASSUME NEW z \in Zids \ spoiled, ~(z \in DOMAIN entries <=> z \in DOMAIN g)
        PROVE  \E note \in reports : note[1] = z
    <3>1. z = ZidOf[n] /\ z \notin DOMAIN entries
      BY <1>5, <2>3
    <3>2. UpdateReports(entries, n) = {z}
      BY <1>2, <1>4, <2>3, <3>1, NewIsReported
    <3>3. <<z, "OnZettel">> \in reports /\ <<z, "OnZettel">>[1] = z
      BY <3>2
    <3> QED
      BY <3>3
  <2>4. Handle(g, reports)
    BY <1>1
  <2> HIDE DEF reports
  <2> QED
    BY <1>5, <2>2, <2>3, <2>4, HandleIs
<1>7. ev.op # "DirRename"
  OBVIOUS
<1>8. Awaited(osEvents', "DirRename") <=> Awaited(osEvents, "DirRename")
  BY <1>4, <1>7
<1>9. ASSUME NEW y \in Zids PROVE EntryOK(y)'
  <2>1. CASE ZidOf[n] # y
    BY <1>1, <1>2, <1>5, <1>7, <2>1, EntryTaken
  <2>2. CASE ZidOf[n] = y
    <3>1. PICK e, r : e = EntryOf(entries, y) /\ r = EntryOf(g, y)
      OBVIOUS
    <3>2. EntryOK(y)
      BY DEF EntriesOK
    <3>3. OfZettel(e, y)
      BY <3>1, <3>2 DEF EntryOK, OfZettel
    <3>4. OfZettel(r, y)
      BY <1>5, <2>2, <3>1, <3>3 DEF OfZettel
    <3>5. EntryOf(entries', y) = r /\ DiskOf(y)' = DiskOf(y)
      BY <1>2, <1>3, <3>1 DEF DiskOf
    <3>6. CASE y \in spoiled
      BY <1>3, <3>4, <3>5, <3>6 DEF EntryOK, OfZettel
    <3>7. CASE y \notin spoiled
      <4>1. /\ WellFormed(e) /\ Separate(osEvents, e) /\ OneIsGone(osEvents, e)
            /\ \A m \in FilesOf(e) :
                    \/ Pending(osEvents, m) \/ m \in DOMAIN disk
                    \/ \E c \in Clients : Under("update", c, y) /\ m \in FilesOf(call[c].entry)
            /\ ~Awaited(osEvents, "DirRename") =>
                    \A m \in DiskOf(y) :
                        Pending(osEvents, m) \/ m \in FilesOf(e) \/ \E c \in Clients : Under("delete", c, y)
        BY <3>1, <3>2, <3>7 DEF EntryOK
      <4>2. Plain(n) /\ GoneFirst(osEvents', n)
        BY <1>4, <2>2, <3>7
      <4>3. ~(HasMetaInContent(e) /\ n = e.meta)
        <5> SUFFICES ASSUME HasMetaInContent(e), n = e.meta PROVE FALSE
          OBVIOUS
        <5>1. n # NoName /\ e.content # NoName
          BY <1>2, NamesAre, NoExt DEF HasMetaInContent, zettel
        <5>2. Ext(n) = "" /\ Ext(e.content) = zettel /\ e.content \in FilesOf(e)
          BY <4>1, <5>1, FilesAre DEF WellFormed, Roles, HasMetaInContent
        <5>3. GoneFirst(osEvents, e.content)
          BY <4>1, <5>1, <5>2 DEF OneIsGone, Loose
        <5>4. Clash(n, e.content)
          BY <2>2, <3>3, <5>2 DEF Clash, OfZettel
        <5> QED
          BY <1>4, <5>3, <5>4
      <4>4. r = updateEntry(e, n).entry
        BY <1>5, <2>2, <3>1
      <4>5. /\ WellFormed(r) /\ FilesOf(r) = FilesOf(e) \union {n}
            /\ Loose(r) => Loose(e) \/ (e.content = NoName /\ Ext(n) = zettel)
        BY <1>2, <4>1, <4>2, <4>3, <4>4, UpdateKeeps
      <4>6. Separate(osEvents', r)
        BY <1>4, <4>1, <4>2, <4>5 DEF Separate
      <4>7. OneIsGone(osEvents', r)
        <5> SUFFICES ASSUME Loose(r), NEW m \in FilesOf(r), Ext(m) = zettel
                     PROVE  GoneFirst(osEvents', m)
          BY DEF OneIsGone
        <5>1. CASE m = n
          BY <4>2, <5>1
        <5>2. CASE m # n /\ Loose(e)
          BY <1>4, <4>1, <4>5, <5>2 DEF OneIsGone
        <5>3. CASE m # n /\ e.content = NoName
          <6>1. m \in FilesOf(e) /\ m # NoName /\ Ext(m) # ""
            BY <4>5, <5>3, NoExt DEF zettel
          <6>2. m # e.meta
            BY <4>1, <6>1 DEF WellFormed, Roles
          <6>3. m \in Useless(e)
            BY <5>3, <6>1, <6>2, FilesAre
          <6> QED
            BY <4>1, <5>3, <6>1, <6>3 DEF WellFormed, BestUsed
        <5> QED
          BY <4>5, <5>1, <5>2, <5>3
      <4>8. \A c, op : Under(op, c, y)' = Under(op, c, y)
        BY <1>3 DEF Under
      <4>9. \A m \in FilesOf(r) :
                \/ Pending(osEvents', m) \/ m \in DOMAIN disk
                \/ \E c \in Clients : Under("update", c, y)' /\ m \in FilesOf(call'[c].entry)
        BY <1>2, <1>3, <1>4, <4>1, <4>5, <4>8
      <4>10. ~Awaited(osEvents', "DirRename") =>
                \A m \in DiskOf(y) :
                    Pending(osEvents', m) \/ m \in FilesOf(r) \/ \E c \in Clients : Under("delete", c, y)'
        BY <1>4, <1>8, <4>1, <4>5, <4>8
      <4>11. FilesOf(r) # {}
        BY <4>5
      <4> QED
        BY <1>3, <3>4, <3>5, <4>5, <4>6, <4>7, <4>9, <4>10, <4>11 DEF EntryOK, OfZettel
    <3> QED
      BY <3>6, <3>7
  <2> QED
    BY <2>1, <2>2
<1> QED
  BY <1>4, <1>6, <1>9 DEF EntriesOK

(* A file that was removed. *)
LEMMA RemoveEventStep ==
  ASSUME IInv, NEW ev, Taken(ev), ev.op = "Remove", known,
         Handle(onDeleteFileEvent(entries, ev.name), ({ZidOf[ev.name]} \ {NoZid}) \X {"OnDelete"})
  PROVE  IInv'
<1> USE DEF IInv
<1>1. PICK n, g : n = ev.name /\ g = onDeleteFileEvent(entries, n)
  OBVIOUS
<1>2. n \in Names /\ entries' = g /\ known'
  BY <1>1, TakenIs DEF Handle, Events
<1>3. UNCHANGED <<disk, dirThere, spoiled, call>>
  BY DEF Taken
<1>4. /\ DiskOK' /\ EventsOK' /\ ClientsOK' /\ WorkersOK' /\ ChangesOK'
      /\ \A m : Pending(osEvents, m) => n = m \/ Pending(osEvents', m)
      /\ \A op : Awaited(osEvents, op) <=> ev.op = op \/ Awaited(osEvents', op)
      /\ n \in DOMAIN disk => Pending(osEvents', n)
      /\ \A m : GoneFirst(osEvents, m) => ~Clash(n, m)
      /\ \A m : GoneFirst(osEvents, m) /\ n # m => GoneFirst(osEvents', m)
  BY <1>1, <1>2, TakenIs
<1>5. /\ IsEntries(g)
      /\ \A z \in Zids : z # ZidOf[n] =>
            EntryOf(g, z) = EntryOf(entries, z) /\ (z \in DOMAIN g <=> z \in DOMAIN entries)
      /\ FilesOf(EntryOf(g, ZidOf[n])) \subseteq FilesOf(EntryOf(entries, ZidOf[n]))
      /\ WellFormed(EntryOf(entries, ZidOf[n])) =>
            LET e == EntryOf(entries, ZidOf[n])
                r == EntryOf(g, ZidOf[n])
            IN  /\ WellFormed(r) /\ FilesOf(r) = FilesOf(e) \ {n}
                /\ Loose(r) => Loose(e) \/ (n = e.content /\ Ext(n) = zettel)
                /\ ZidOf[n] \in DOMAIN g => FilesOf(r) # {}
  <2>1. IsEntries(entries) /\ n \in Names /\ g = onDeleteFileEvent(entries, n)
    BY <1>1, <1>2, TypesAre
  <2> QED
    BY <2>1, DeleteEventIs
<1>6. TypeOK' /\ NotifierOK' /\ ListsOK' /\ ReportsOK'
  <2> DEFINE reports == ({ZidOf[n]} \ {NoZid}) \X {"OnDelete"}
  <2>1. {ZidOf[n]} \ {NoZid} \subseteq Zids /\ NoZid \notin Zids
    BY <1>2, ZidOfIs
  <2>2. reports \subseteq (Zids \X {"OnZettel", "OnDelete"})
    BY <2>1
  <2>3. ASSUME NEW z \in Zids \ spoiled, ~(z \in DOMAIN entries <=> z \in DOMAIN g)
        PROVE  \E note \in reports : note[1] = z
    <3>1. z = ZidOf[n] /\ z # NoZid
      BY <1>5, <2>1, <2>3
    <3>2. <<z, "OnDelete">> \in reports /\ <<z, "OnDelete">>[1] = z
      BY <3>1
    <3> QED
      BY <3>2
  <2>4. Handle(g, reports)
    BY <1>1
  <2> HIDE DEF reports
  <2> QED
    BY <1>5, <2>2, <2>3, <2>4, HandleIs
<1>7. ev.op # "DirRename"
  OBVIOUS
<1>8. Awaited(osEvents', "DirRename") <=> Awaited(osEvents, "DirRename")
  BY <1>4, <1>7
<1>9. ASSUME NEW y \in Zids PROVE EntryOK(y)'
  <2>1. CASE ZidOf[n] # y
    BY <1>1, <1>2, <1>5, <1>7, <2>1, EntryTaken
  <2>2. CASE ZidOf[n] = y
    <3>1. PICK e, r : e = EntryOf(entries, y) /\ r = EntryOf(g, y)
      OBVIOUS
    <3>2. EntryOK(y)
      BY DEF EntriesOK
    <3>3. OfZettel(e, y)
      BY <3>1, <3>2 DEF EntryOK, OfZettel
    <3>4. OfZettel(r, y)
      BY <1>5, <2>2, <3>1, <3>3 DEF OfZettel
    <3>5. EntryOf(entries', y) = r /\ DiskOf(y)' = DiskOf(y)
      BY <1>2, <1>3, <3>1 DEF DiskOf
    <3>6. CASE y \in spoiled
      BY <1>3, <3>4, <3>5, <3>6 DEF EntryOK, OfZettel
    <3>7. CASE y \notin spoiled
      <4>1. /\ WellFormed(e) /\ Separate(osEvents, e) /\ OneIsGone(osEvents, e)
            /\ \A m \in FilesOf(e) :
                    \/ Pending(osEvents, m) \/ m \in DOMAIN disk
                    \/ \E c \in Clients : Under("update", c, y) /\ m \in FilesOf(call[c].entry)
            /\ ~Awaited(osEvents, "DirRename") =>
                    \A m \in DiskOf(y) :
                        Pending(osEvents, m) \/ m \in FilesOf(e) \/ \E c \in Clients : Under("delete", c, y)
        BY <3>1, <3>2, <3>7 DEF EntryOK
      <4>2. /\ WellFormed(r) /\ FilesOf(r) = FilesOf(e) \ {n}
            /\ Loose(r) => Loose(e) \/ (n = e.content /\ Ext(n) = zettel)
            /\ y \in DOMAIN g => FilesOf(r) # {}
        BY <1>5, <2>2, <3>1, <4>1
      <4>3. Separate(osEvents', r)
        BY <1>4, <4>1, <4>2 DEF Separate
      <4>4. OneIsGone(osEvents', r)
        <5> SUFFICES ASSUME Loose(r), NEW m \in FilesOf(r), Ext(m) = zettel
                     PROVE  GoneFirst(osEvents', m)
          BY DEF OneIsGone
        <5>1. m \in FilesOf(e) /\ m # n
          BY <4>2
        <5>2. CASE Loose(e)
          BY <1>4, <4>1, <5>1, <5>2 DEF OneIsGone
        <5>3. CASE Ext(n) = zettel
          <6>1. r.meta # NoName /\ Ext(r.meta) = ""
            BY <4>2 DEF Loose, WellFormed, Roles
          <6>2. r.meta \in FilesOf(r) /\ r.meta \in FilesOf(e) /\ r.meta # n
            BY <4>2, <6>1, FilesAre
          <6>3. Clash(n, r.meta) /\ Clash(m, r.meta)
            BY <2>2, <3>3, <5>1, <5>3, <6>1, <6>2 DEF Clash, OfZettel
          <6>4. GoneFirst(osEvents, m)
            BY <1>4, <4>1, <5>1, <6>2, <6>3 DEF Separate
          <6> QED
            BY <1>4, <5>1, <6>4
        <5> QED
          BY <4>2, <5>2, <5>3
      <4>5. \A c, op : Under(op, c, y)' = Under(op, c, y)
        BY <1>3 DEF Under
      <4>6. \A m \in FilesOf(r) :
                \/ Pending(osEvents', m) \/ m \in DOMAIN disk
                \/ \E c \in Clients : Under("update", c, y)' /\ m \in FilesOf(call'[c].entry)
        BY <1>3, <1>4, <4>1, <4>2, <4>5
      <4>7. ASSUME ~Awaited(osEvents', "DirRename"), NEW m \in DiskOf(y)
            PROVE  Pending(osEvents', m) \/ m \in FilesOf(r) \/ \E c \in Clients : Under("delete", c, y)'
        <5>1. CASE m = n
          BY <1>4, <4>7, <5>1 DEF DiskOf
        <5>2. CASE m # n
          BY <1>4, <1>8, <4>1, <4>2, <4>5, <4>7, <5>2
        <5> QED
          BY <5>1, <5>2
      <4> QED
        BY <1>2, <1>3, <3>4, <3>5, <4>2, <4>3, <4>4, <4>6, <4>7 DEF EntryOK, OfZettel
    <3> QED
      BY <3>6, <3>7
  <2> QED
    BY <2>1, <2>2
<1> QED
  BY <1>4, <1>6, <1>9 DEF EntriesOK

(* The directory went away: the entries are forgotten. *)
LEMMA onDestroyDirectoryStep ==
  ASSUME IInv, NEW ev, Taken(ev), ev.op = "DirRename", onDestroyDirectory
  PROVE  IInv'
<1> USE DEF IInv
<1>1. /\ ~known' /\ known' \in BOOLEAN /\ entries' = <<>> /\ state' = "DsMissing"
      /\ listing' = FALSE /\ newEntries' = <<>>
      /\ notes' = (DOMAIN entries) \X {"OnDelete"}
      /\ Changed(entries, <<>>) /\ UNCHANGED notifier
  BY DEF onDestroyDirectory
<1>2. /\ notifier.pc = "loop" /\ notes = {}
      /\ UNCHANGED <<disk, dirThere, spoiled, call, worker, budget>>
  BY DEF Taken
<1>3. /\ DiskOK' /\ EventsOK' /\ ClientsOK' /\ WorkersOK' /\ ChangesOK'
      /\ osEvents' \in Seq(Events)
      /\ dirThere /\ ev.op = "DirRename" => Awaited(osEvents', "DirCreate")
  BY TakenIs
<1>4. EntriesOK'
  BY <1>1, UnknownEntries
<1>5. NotifierOK' /\ ListsOK'
  BY <1>1, <1>2, <1>3 DEF NotifierOK, ListsOK
<1>6. unreported' \subseteq Zids /\ \A z \in unreported' \ unreported : z \in DOMAIN entries
  BY <1>1, NoFunction, ChangedIs
<1>7. TypeOK'
  <2>1. /\ budget' \in Budget /\ DOMAIN entries \subseteq Zids
        /\ notifier'.pc \in {"make", "fetch", "error", "list", "loop"}
        /\ notifier'.names \in Seq(Names)
    BY <1>1, <1>2 DEF TypeOK, IsEntries
  <2>2. notes' \subseteq (Zids \X {"OnZettel", "OnDelete"})
    BY <1>1, <2>1
  <2> QED
    BY <1>1, <1>2, <1>3, <1>6, <2>1, <2>2, NoEntries, NotifierTypes
<1>8. ReportsOK'
  <2> SUFFICES ASSUME NEW z \in unreported' \ spoiled', ~\E note \in notes' : note[1] = z
               PROVE  \E c \in Clients : Reporting(c)' /\ call'[c].zid = z
    BY DEF ReportsOK, Reporting
  <2>1. z \in DOMAIN entries => <<z, "OnDelete">> \in notes' /\ <<z, "OnDelete">>[1] = z
    BY <1>1
  <2>2. z \in unreported \ spoiled
    BY <1>2, <1>6, <2>1
  <2>3. \E c \in Clients : Reporting(c) /\ call[c].zid = z
    BY <1>2, <2>2 DEF ReportsOK, Reporting
  <2> QED
    BY <1>2, <2>3 DEF Reporting
<1> QED
  BY <1>3, <1>4, <1>5, <1>7, <1>8

(* The directory came back: it is listed again. *)
LEMMA DirCreateStep ==
  ASSUME IInv, NEW ev, Taken(ev), ev.op = "DirCreate", Goto("make", <<>>),
         UNCHANGED <<serviceVars, unreported>>
  PROVE  IInv'
<1> USE DEF IInv
<1>1. /\ notes = {} /\ UNCHANGED <<disk, dirThere, spoiled, call, worker, budget, unreported>>
      /\ UNCHANGED <<state, known, entries, listing, newEntries, notes>>
  BY DEF Taken, serviceVars
<1>2. notifier'.pc = "make" /\ notifier'.names = <<>>
  BY GotoIs
<1>3. /\ DiskOK' /\ EventsOK' /\ ClientsOK' /\ WorkersOK' /\ ChangesOK' /\ Worse
      /\ osEvents' \in Seq(Events) /\ ev \in Events
      /\ \A op : Awaited(osEvents, op) <=> ev.op = op \/ Awaited(osEvents', op)
  BY TakenIs
<1>4. ev.op # "DirRename" /\ (ev.name \in Names => FALSE)
  <2>1. ev.name = NoName
    BY <1>3 DEF Events
  <2> QED
    BY <2>1, NamesAre
<1>5. EntriesOK'
  <2>1. ASSUME NEW y \in Zids PROVE EntryOK(y)'
    BY <1>1, <1>4, EntryTaken
  <2> QED
    BY <2>1 DEF EntriesOK
<1>6. Awaited(osEvents', "DirRename") <=> Awaited(osEvents, "DirRename")
  BY <1>3, <1>4
<1>7. NotifierOK' /\ ListsOK'
  BY <1>1, <1>2, <1>6 DEF NotifierOK, ListsOK
<1>8. TypeOK'
  <2>1. /\ state' \in {"DsStarting", "DsWorking", "DsMissing"}
        /\ known' \in BOOLEAN /\ IsEntries(entries') /\ (~known' => entries' = <<>>)
        /\ notes' \subseteq (Zids \X {"OnZettel", "OnDelete"}) /\ unreported' \subseteq Zids
        /\ budget' \in Budget /\ listing' \in BOOLEAN /\ IsEntries(newEntries')
    BY <1>1 DEF TypeOK, IsEntries
  <2> QED
    BY <1>1, <1>2, <1>3, <2>1, NoEntries, NotifierTypes
<1>9. ReportsOK'
  BY <1>1, <1>3, ReportsFrame
<1> QED
  BY <1>3, <1>5, <1>7, <1>8, <1>9

LEMMA readAndProcessEventStep ==
  ASSUME IInv, readAndProcessEvent
  PROVE  IInv'
<1>1. PICK ev : ev = Head(osEvents)
  OBVIOUS
<1>2. Taken(ev) /\ processEvent(ev)
  BY <1>1 DEF readAndProcessEvent, Taken
<1>3. ev \in Events
  BY <1>2, TakenIs
<1>4. CASE ev.op = "Write"
  <2>1. IF Present(ev.name) THEN HandleUpdate(ev.name) ELSE Handle(entries, {})
    BY <1>2, <1>4 DEF processEvent
  <2>2. CASE Present(ev.name) /\ known
    <3>1. Handle(onUpdateFileEvent(entries, ev.name), UpdateReports(entries, ev.name) \X {"OnZettel"})
      BY <2>1, <2>2 DEF HandleUpdate
    <3> QED
      BY <1>2, <1>4, <2>2, <3>1, WriteEventStep
  <2>3. CASE ~(Present(ev.name) /\ known)
    <3>1. Handle(entries, {})
      BY <2>1, <2>3 DEF HandleUpdate
    <3> QED
      BY <1>2, <1>4, <2>3, <3>1, IgnoredStep
  <2> QED
    BY <2>2, <2>3
<1>5. CASE ev.op = "Remove"
  <2>1. HandleDelete(ev.name)
    BY <1>2, <1>5 DEF processEvent
  <2>2. CASE known
    <3>1. Handle(onDeleteFileEvent(entries, ev.name), ({ZidOf[ev.name]} \ {NoZid}) \X {"OnDelete"})
      BY <2>1, <2>2 DEF HandleDelete
    <3> QED
      BY <1>2, <1>5, <2>2, <3>1, RemoveEventStep
  <2>3. CASE ~known
    <3>1. Handle(entries, {})
      BY <2>1, <2>3 DEF HandleDelete
    <3> QED
      BY <1>2, <1>5, <2>3, <3>1, IgnoredStep
  <2> QED
    BY <2>2, <2>3
<1>6. CASE ev.op = "DirRename"
  <2>1. onDestroyDirectory
    BY <1>2, <1>6 DEF processEvent
  <2> QED
    BY <1>2, <1>6, <2>1, onDestroyDirectoryStep
<1>7. CASE ev.op = "DirCreate"
  <2>1. Goto("make", <<>>) /\ UNCHANGED <<serviceVars, unreported>>
    BY <1>2, <1>7 DEF processEvent
  <2> QED
    BY <1>2, <1>7, <2>1, DirCreateStep
<1> QED
  BY <1>3, <1>4, <1>5, <1>6, <1>7 DEF Events

-----------------------------------------------------------------------------
(* Altogether. *)
LEMMA InitIInv ==
  ASSUME Init
  PROVE  IInv
<1>1. /\ dirThere = TRUE /\ osEvents = <<>> /\ notifier = [pc |-> "make", names |-> <<>>]
      /\ state = "DsStarting" /\ known = FALSE /\ entries = <<>>
      /\ listing = FALSE /\ newEntries = <<>> /\ notes = {}
      /\ call = [c \in Clients |-> NoCall] /\ worker = [k \in Workers |-> NoJob]
      /\ unreported = {} /\ spoiled = Lossy(DOMAIN disk)
  BY DEF Init
<1>2. PICK scenario \in Scenarios :
        disk = [n \in scenario.files |-> Foreign] /\ budget = scenario.budget
  BY DEF Init
<1>3. scenario.files \subseteq Names /\ IsFiniteSet(scenario.files) /\ scenario.budget \in Budget
  BY ScenariosAssumption
<1>4. DOMAIN disk = scenario.files /\ \A n \in DOMAIN disk : disk[n] \in Nat
  BY <1>2 DEF Foreign
<1>5. /\ NoCall \in Calls /\ NoCall.pc = "idle" /\ NoCall.op = "none"
      /\ NoJob \in Jobs /\ NoJob.client = Nobody /\ NoJob.todo = <<>> /\ NoJob.op = "none"
  BY NewEntryIs DEF NoCall, NoJob, Calls, Jobs
<1>6. <<>> \in Seq(Events) /\ DOMAIN <<>> = {}
  OBVIOUS
<1>7. TypeOK
  <2>1. call \in [Clients -> Calls] /\ worker \in [Workers -> Jobs]
    BY <1>1, <1>5
  <2>2. /\ osEvents \in Seq(Events) /\ {dirThere, known, listing} \subseteq BOOLEAN
        /\ notifier.pc \in {"make", "fetch", "error", "list", "loop"} /\ notifier.names \in Seq(Names)
        /\ state \in {"DsStarting", "DsWorking", "DsMissing"}
        /\ IsEntries(entries) /\ IsEntries(newEntries) /\ (~known => entries = <<>>)
        /\ notes \subseteq (Zids \X {"OnZettel", "OnDelete"}) /\ unreported \subseteq Zids
    BY <1>1, <1>6, NoEntries
  <2> QED
    BY <1>2, <1>3, <1>4, <2>1, <2>2 DEF TypeOK
<1>8. DiskOK /\ EventsOK
  <2>1. EventsOK
    BY <1>1, <1>6 DEF EventsOK, LastTells, PlainEvents, ApartEvents, Returns
  <2> QED
    BY <1>1, <1>3, <1>4, <2>1 DEF DiskOK
<1>9. \A c \in Clients : call[c].pc = "idle" /\ call[c].op = "none"
  BY <1>1, <1>5
<1>10. ClientsOK /\ ChangesOK
  BY <1>9 DEF ClientsOK, ClientOK, ChangesOK, ChangeOK, IsChange
<1>11. WorkersOK
  <2>1. ASSUME NEW k \in Workers PROVE WorkerOK(k)
    BY <1>1, <1>5, NoEntries DEF WorkerOK, IsChange
  <2> QED
    BY <2>1 DEF WorkersOK
<1>12. EntriesOK
  <2> SUFFICES ASSUME NEW z \in Zids PROVE EntryOK(z)
    BY DEF EntriesOK
  <2>1. EntryOf(entries, z) = NewEntry /\ z \notin DOMAIN entries
    BY <1>1, NoEntries, NoFunction
  <2>2. Separate(osEvents, NewEntry) /\ OneIsGone(osEvents, NewEntry)
    BY NewEntryIs, HarmlessIsApart DEF OfZettel, Harmless
  <2> QED
    BY <1>1, <2>1, <2>2, NewEntryIs DEF EntryOK
<1>13. NotifierOK /\ ListsOK /\ ReportsOK
  BY <1>1 DEF NotifierOK, ListsOK, ReportsOK
<1> QED
  BY <1>7, <1>8, <1>10, <1>11, <1>12, <1>13 DEF IInv

LEMMA StutterStep ==
  ASSUME IInv, UNCHANGED vars
  PROVE  IInv'
<1> USE DEF IInv
<1>1. /\ UNCHANGED <<fileVars, call, worker, known, entries, notes, unreported>>
      /\ UNCHANGED <<disk, dirThere, osEvents, spoiled>>
      /\ UNCHANGED <<notifier, state, listing, newEntries, budget>>
  BY DEF vars, fileVars, serviceVars
<1>2. /\ DiskOK' /\ EventsOK' /\ ClientsOK' /\ WorkersOK' /\ ChangesOK'
      /\ EntriesOK' /\ ReportsOK'
  BY <1>1, QuietFrame
<1>3. Worse
  BY <1>1 DEF Worse
<1>4. NotifierOK' /\ ListsOK'
  BY <1>1, <1>3, NotifierFrame, ListsFrame
<1>5. TypeOK'
  BY <1>1 DEF TypeOK, IsEntries
<1> QED
  BY <1>2, <1>4, <1>5

LEMMA StepIInv ==
  ASSUME Watch, IInv, [Next]_vars
  PROVE  IInv'
<1>1. CASE OtherProgram
  BY <1>1, OtherProgramStep
<1>2. CASE MoveDirectory
  BY <1>2, MoveDirectoryStep
<1>3. CASE Notifier
  <2>1. CASE SendMake
    BY <2>1, SendMakeStep
  <2>2. CASE Fetch
    BY <2>2, FetchStep
  <2>3. CASE SendError
    BY <2>3, SendErrorStep
  <2>4. CASE SendList
    BY <2>4, SendListStep
  <2>5. CASE SendEnd
    BY <2>5, SendEndStep
  <2>6. CASE readAndProcessEvent
    BY <2>6, readAndProcessEventStep
  <2> QED
    BY <1>3, <2>1, <2>2, <2>3, <2>4, <2>5, <2>6 DEF Notifier
<1>4. CASE Report
  BY <1>4, ReportStep
<1>5. CASE Refresh
  BY <1>5, RefreshStep
<1>6. ASSUME NEW c \in Clients, Call(c) \/ Proceed(c) \/ Timeout(c) PROVE IInv'
  <2>1. CASE Call(c)
    BY <2>1, CallStep
  <2>2. CASE UpdateDirEntry(c)
    BY <2>2, UpdateDirEntryStep
  <2>3. CASE DeleteDirEntry(c)
    BY <2>3, DeleteDirEntryStep
  <2>4. CASE notifyChanged(c)
    BY <2>4, notifyChangedStep
  <2>5. CASE Send(c)
    BY <2>5, SendStep
  <2>6. CASE Timeout(c)
    BY <2>6, TimeoutStep
  <2> QED
    BY <1>6, <2>1, <2>2, <2>3, <2>4, <2>5, <2>6 DEF Proceed
<1>7. ASSUME NEW k \in Workers, Work(k) \/ WriteFails(k) PROVE IInv'
  <2>1. CASE WriteFile(k)
    BY <2>1, WriteFileStep
  <2>2. CASE ReadFile(k)
    BY <2>2, ReadFileStep
  <2>3. CASE RemoveFile(k)
    BY <2>3, RemoveFileStep
  <2>4. CASE Answer(k)
    BY <2>4, AnswerStep
  <2>5. CASE WriteFails(k)
    BY <2>5, WriteFailsStep
  <2> QED
    BY <1>7, <2>1, <2>2, <2>3, <2>4, <2>5 DEF Work
<1>8. CASE UNCHANGED vars
  BY <1>8, StutterStep
<1> QED
  BY <1>1, <1>2, <1>3, <1>4, <1>5, <1>6, <1>7, <1>8 DEF Next

LEMMA FollowsFromIInv ==
  ASSUME IInv
  PROVE  BoxFollowsDisk
<1> USE DEF IInv
<1>1. ASSUME Settled PROVE /\ notifier.pc = "loop" /\ osEvents = <<>> /\ notes = {}
                           /\ \A c \in Clients : call[c].pc = "idle" /\ ~IsChange(call[c].op)
                           /\ \A op : ~Awaited(osEvents, op)
                           /\ \A n : ~Pending(osEvents, n)
  <2>1. notifier.pc = "loop" /\ osEvents = <<>> /\ notes = {} /\ \A c \in Clients : call[c].pc = "idle"
    BY <1>1 DEF Settled
  <2>2. \A c \in Clients : ~IsChange(call[c].op)
    BY <2>1 DEF ClientsOK, ClientOK, IsChange
  <2> QED
    BY <2>1, <2>2, NoFunction DEF Awaited, Pending
<1>2. EntriesMatchDisk
  <2> SUFFICES ASSUME Settled, NEW z \in Zids \ spoiled
               PROVE  FilesIn(z) = FilesOf(EntryOf(entries, z))
    BY DEF EntriesMatchDisk
  <2>1. PICK e : e = EntryOf(entries, z)
    OBVIOUS
  <2>2. EntryOK(z)
    BY DEF EntriesOK
  <2>3. /\ \A n \in FilesOf(e) : ZidOf[n] = z
        /\ \A n \in FilesOf(e) :
            \/ Pending(osEvents, n) \/ n \in DOMAIN disk
            \/ \E c \in Clients : Under("update", c, z) /\ n \in FilesOf(call[c].entry)
        /\ known /\ ~Awaited(osEvents, "DirRename") =>
            \A n \in DiskOf(z) :
                Pending(osEvents, n) \/ n \in FilesOf(e) \/ \E c \in Clients : Under("delete", c, z)
    BY <2>1, <2>2 DEF EntryOK
  <2>4. \A op : \A c \in Clients : ~Under(op, c, z)
    BY <1>1 DEF Under
  <2>5. dirThere <=> known
    BY <1>1 DEF NotifierOK
  <2>6. CASE known
    BY <1>1, <2>1, <2>3, <2>4, <2>5, <2>6 DEF FilesIn, DiskOf
  <2>7. CASE ~known
    <3>1. e = NewEntry
      BY <2>1, <2>7, NoEntries DEF TypeOK
    <3> QED
      BY <2>1, <2>5, <2>7, <3>1, NewEntryIs DEF FilesIn
  <2> QED
    BY <2>6, <2>7
<1>3. PresenceIsReported
  <2> SUFFICES ASSUME Settled, NEW z \in unreported \ spoiled PROVE FALSE
    BY DEF PresenceIsReported
  <2>1. \/ \E note \in notes : note[1] = z
        \/ \E c \in Clients : Reporting(c)
    BY DEF ReportsOK, Reporting
  <2> QED
    BY <1>1, <2>1 DEF Reporting, IsChange
<1> QED
  BY <1>2, <1>3 DEF BoxFollowsDisk

(* Whatever calls, other programs, events, timeouts and failures happen, in *)
(* whatever order: when all is done, the box shows exactly the files of     *)
(* each zettel nothing is known to be wrong with, and what appeared or      *)
(* vanished has been reported.                                              *)
THEOREM BoxIsFollowed ==
  ASSUME Watch
  PROVE  Spec => []BoxFollowsDisk
<1>1. Init => IInv
  BY InitIInv
<1>2. IInv /\ [Next]_vars => IInv'
  BY StepIInv
<1>3. IInv => BoxFollowsDisk
  BY FollowsFromIInv
<1> QED
  BY <1>1, <1>2, <1>3, PTL DEF Spec
=============================================================================
