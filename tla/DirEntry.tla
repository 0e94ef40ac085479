------------------------------ MODULE DirEntry ------------------------------
(***************************************************************************)
(* Which file of a directory holds which part of a zettel: box/notify,     *)
(* entry.go and the second half of directory.go.                           *)
(*                                                                         *)
(* A file name is a sequence: what stands before the first dot, and the    *)
(* extensions.  <<>> is the empty name.  The names of a model are given    *)
(* by constants, with their length and their alphabetical rank.            *)
(***************************************************************************)
EXTENDS Naturals, Sequences, SequencesExt

CONSTANTS
    Names,      \* file names, those without a zettel identifier, too
    Size,       \* their lengths
    Rank,       \* their ranks in alphabetical order
    ZidOf,      \* the identifier they start with, or NoZid
    NoZid,      \* id.Invalid
    Syntax,     \* for supported extensions: what the parser says of them
    ExtRank     \* extensions ordered by length, then alphabetically

zettel == "zettel"
NoName == <<>>
Ext(name) == IF Len(name) <= 1 THEN "" ELSE name[Len(name)]
nameWithoutExt(name) == SubSeq(name, 1, Len(name) - 1)

ASSUME NamesAssumption ==
    /\ Names \subseteq Seq(STRING) /\ NoName \notin Names
    /\ Size \in [Names -> Nat] /\ Rank \in [Names -> Nat]
    /\ \A m, n \in Names : Rank[m] = Rank[n] => m = n
    /\ \A n \in Names : Ext(n) # "" => ExtRank[Ext(n)] \in Nat

(* The content extension of an entry is always that of its content file.   *)
Entry == [meta : Names \union {NoName}, content : Names \union {NoName}, useless : Seq(Names)]
NewEntry == [meta |-> NoName, content |-> NoName, useless |-> <<>>]
HasMetaInContent(e) == Ext(e.content) = zettel

newNameIsBetter(old, new) == Size[old] >= Size[new] /\ Rank[old] > Rank[new]

Flags == <<"ast", "text", "image", "primary">>

(* "image" counts against an extension, the others for it. *)
newExtIsBetter(old, new) ==
    LET supported(ext) == ext \in DOMAIN Syntax
        flag(ext, i) == (Flags[i] \in Syntax[ext]) # (Flags[i] = "image")
        differ == {i \in DOMAIN Flags : flag(old, i) # flag(new, i)}
    IN  IF supported(old) # supported(new) THEN supported(new)
        ELSE IF supported(old) /\ "zmk" \in {old, new} THEN old # "zmk"
        ELSE IF supported(old) /\ differ # {}
             THEN flag(new, CHOOSE i \in differ : \A j \in differ : i <= j)
        ELSE ExtRank[new] < ExtRank[old]

(* An operation on an entry: what becomes of it, and whether it reports a   *)
(* duplicate.                                                               *)
Updated(e) == [entry |-> e, dup |-> FALSE]

addUselessFile(e, name) ==
    IF \E i \in DOMAIN e.useless : e.useless[i] = name THEN Updated(e)
    ELSE [entry |-> [e EXCEPT !.useless = Append(@, name)], dup |-> TRUE]

updateEntryMeta(e, name) ==
    IF e.meta \in {NoName, name} THEN Updated([e EXCEPT !.meta = name])
    ELSE IF newNameIsBetter(e.meta, name)
         THEN addUselessFile([e EXCEPT !.meta = name], e.meta)
    ELSE addUselessFile(e, name)

updateEntryContent(e, name) ==
    LET ext == Ext(e.content)
        newExt == Ext(name)
        replaced == addUselessFile([e EXCEPT !.content = name], e.content)
        ignored == addUselessFile(e, name)
    IN  IF e.content \in {NoName, name} THEN Updated([e EXCEPT !.content = name])
        ELSE IF ext = newExt
             THEN IF newNameIsBetter(e.content, name) THEN replaced ELSE ignored
        ELSE IF ext = zettel THEN ignored
        ELSE IF newExt = zettel
             THEN IF e.meta = NoName THEN replaced
                  ELSE [replaced EXCEPT !.entry =
                            addUselessFile([@ EXCEPT !.meta = NoName], e.meta).entry]
        ELSE IF newExtIsBetter(ext, newExt) THEN replaced ELSE ignored

(* An entry with a metadata file, or one for both, makes no pair with a     *)
(* content file, and stays so.                                              *)
updateUnpaired(e, name) ==
    IF ~HasMetaInContent(e) /\ Ext(name) = "" THEN updateEntryMeta(e, name)
    ELSE updateEntryContent(e, name)

replayUnpaired(e) ==
    LET replay[i \in 0 .. Len(e.useless)] ==
            IF i = 0 THEN [e EXCEPT !.useless = <<>>]
            ELSE updateUnpaired(replay[i - 1], e.useless[i]).entry
    IN  replay[Len(e.useless)]

(* Two files are a pair, if one has the name of the other, and an extension *)
(* of its own.  The code looks at the useless files by calling itself: the  *)
(* entry has got its metadata file by then.                                 *)
updateEntry(e, name) ==
    LET mayPair == ~HasMetaInContent(e) /\ Ext(name) # "" /\ e.meta = NoName
    IN  IF mayPair /\ nameWithoutExt(name) = e.content
        THEN updateEntryContent(
                 replayUnpaired([e EXCEPT !.meta = e.content, !.content = NoName]), name)
        ELSE IF mayPair /\ e.content # NoName /\ nameWithoutExt(e.content) = name
             THEN Updated([e EXCEPT !.meta = name])
        ELSE updateUnpaired(e, name)

(* All useless files are looked at again, from the first to the last. *)
replayUpdateUselessFiles(e) ==
    LET replay[i \in 0 .. Len(e.useless)] ==
            IF i = 0 THEN [e EXCEPT !.useless = <<>>]
            ELSE updateEntry(replay[i - 1], e.useless[i]).entry
    IN  replay[Len(e.useless)]

-----------------------------------------------------------------------------
(* Entries are a function on the identifiers that have one. *)

EntryOf(entries, z) == IF z \in DOMAIN entries THEN entries[z] ELSE NewEntry
With(entries, z, e) == [y \in DOMAIN entries \union {z} |-> IF y = z THEN e ELSE entries[y]]
Without(entries, z) == [y \in DOMAIN entries \ {z} |-> entries[y]]

onUpdateFileEvent(entries, name) ==
    IF ZidOf[name] = NoZid THEN entries
    ELSE With(entries, ZidOf[name], updateEntry(EntryOf(entries, ZidOf[name]), name).entry)

(* The identifier to report.  A duplicate is not, even if it takes the      *)
(* place of the file that was used before.                                  *)
UpdateReports(entries, name) ==
    IF \/ ZidOf[name] = NoZid
       \/ updateEntry(EntryOf(entries, ZidOf[name]), name).dup
    THEN {} ELSE {ZidOf[name]}

(* Mutant: the useless files are not looked at again. *)
DropAndForget(e, name) ==
    IF \E i \in DOMAIN e.useless : e.useless[i] = name
    THEN [e EXCEPT !.useless = RemoveFirst(@, name)]
    ELSE IF name = e.content THEN [e EXCEPT !.content = NoName]
    ELSE IF name = e.meta THEN [e EXCEPT !.meta = NoName]
    ELSE e

DropFile(e, name) ==
    IF \E i \in DOMAIN e.useless : e.useless[i] = name
    THEN [e EXCEPT !.useless = RemoveFirst(@, name)]
    ELSE IF name = e.content THEN replayUpdateUselessFiles([e EXCEPT !.content = NoName])
    ELSE IF name = e.meta THEN replayUpdateUselessFiles([e EXCEPT !.meta = NoName])
    ELSE e

(* The entry vanishes with its last file.  A useless file never is the last *)
(* one, and if it was, the code kept the entry.                             *)
onDeleteFileEvent(entries, name) ==
    IF ZidOf[name] \notin DOMAIN entries THEN entries
    ELSE LET z == ZidOf[name]
             dropped == DropFile(entries[z], name)
             wasUseless == \E i \in DOMAIN entries[z].useless : entries[z].useless[i] = name
         IN  IF ~wasUseless /\ dropped.content = NoName /\ dropped.meta = NoName
             THEN Without(entries, z)
             ELSE With(entries, z, dropped)

-----------------------------------------------------------------------------
(* The files of a zettel that is stored.  A kind of zettel says what        *)
(* depends on its syntax and content: the extension by calcContentExt, the  *)
(* one by contentExtWithMeta, and whether there is content.                 *)

(* calcBaseName; zidName is the name that is only the identifier. *)
calcBaseName(name, zidName) ==
    IF name = NoName THEN zidName ELSE IF Len(name) = 1 THEN name ELSE nameWithoutExt(name)

SetupFromMetaContent(e, kind, zidName) ==
    LET base == calcBaseName(e.meta, zidName)
        asOne == [e EXCEPT !.content =
                    Append(base, IF e.meta = NoName THEN kind.ext ELSE kind.extWithMeta)]
        asTwo == [e EXCEPT !.content = IF kind.full THEN Append(base, kind.ext) ELSE NoName]
    IN  IF e.content # NoName
        THEN IF HasMetaInContent(e) \/ e.meta # NoName THEN e
             ELSE [e EXCEPT !.meta = calcBaseName(e.content, zidName)]
        ELSE IF kind.ext = zettel THEN asOne
        ELSE IF e.meta # NoName THEN asTwo
        ELSE [asTwo EXCEPT !.meta = calcBaseName(asTwo.content, zidName)]

FilesOf(e) ==
    ({e.meta, e.content} \ {NoName}) \union {e.useless[i] : i \in DOMAIN e.useless}
=============================================================================
