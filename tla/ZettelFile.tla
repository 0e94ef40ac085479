------------------------------ MODULE ZettelFile ------------------------------
(***************************************************************************)
(* A zettel as text: the metadata of a text are parsed                      *)
(* (zettel/meta/parse.go), taken from a form (web/adapter/webui/forms.go)   *)
(* or from data (web/adapter/api/request.go), and written to the files of a *)
(* directory (zettel/meta/write.go, box/dirbox/service.go).                 *)
(*                                                                          *)
(* A text, a key and a value are sequences of characters: small and large   *)
(* letters, "1", " ", "NL" and "CR" for the ends of lines, "BELL" for one   *)
(* that is not graphic. Metadata are a function from keys to values and     *)
(* whether they are set off by lines of dashes.                             *)
(***************************************************************************)
EXTENDS Integers, Sequences
LOCAL INSTANCE SequencesExt
LOCAL INSTANCE Functions

CONSTANTS
    Large,      \* the large letters and their small ones
    TypeOf,     \* the types of keys that are not "empty"
    IsComputed, IsProperty,     \* sets of keys
    Zid         \* the identifier of the zettel

ToLower(s) == [i \in DOMAIN s |-> IF s[i] \in DOMAIN Large THEN Large[s[i]] ELSE s[i]]
EndOfLine == {"NL", "CR"}
Character(s, p) == IF p <= Len(s) THEN s[p] ELSE "EOS"
FirstFrom(s, p, Stop(_)) ==
    LET found == {q \in p .. Len(s) : Stop(s[q])} IN IF found = {} THEN Len(s) + 1 ELSE CHOOSE q \in found : \A r \in found : q <= r
SkipSpace(s, p) == FirstFrom(s, p, LAMBDA c : c # " ")
skipToEOL(s, p) == FirstFrom(s, p, LAMBDA c : c \in EndOfLine)
EatEOL(s, p) == CASE Character(s, p) = "CR" /\ Character(s, p + 1) = "NL" -> p + 2
                  [] Character(s, p) \in EndOfLine /\ ~(Character(s, p) = "CR" /\ Character(s, p + 1) = "NL") -> p + 1
                  [] OTHER -> p
AfterLine(s, p) == EatEOL(s, skipToEOL(s, p))
Dashes(s, p) == \A i \in 0 .. 2 : Character(s, p + i) = "-"

Trimmed(s, Space(_)) ==
    LET used == {i \in DOMAIN s : ~Space(s[i])} IN
    IF used = {} THEN <<>>
    ELSE SubSeq(s, CHOOSE i \in used : \A j \in used : i <= j, CHOOSE i \in used : \A j \in used : i >= j)
trimValue(v) == Trimmed(v, LAMBDA c : c = " ")
RECURSIVE ListFromValue(_)
ListFromValue(v) ==
    LET p == SkipSpace(v, 1)
        q == FirstFrom(v, p, LAMBDA c : c = " ")
    IN  IF p > Len(v) THEN <<>> ELSE <<SubSeq(v, p, q - 1)>> \o ListFromValue(SubSeq(v, q, Len(v)))
Joined(list) == FlattenSeq([i \in DOMAIN list |-> IF i = 1 THEN list[i] ELSE <<" ">> \o list[i]])

-----------------------------------------------------------------------------
(* Metadata *)

NoPairs == [k \in {} |-> <<>>]
New == [pairs |-> NoPairs, yaml |-> FALSE]
SetPair(m, k, v) == [m EXCEPT !.pairs = [x \in DOMAIN m.pairs \cup {k} |-> IF x = k THEN trimValue(v) ELSE m.pairs[x]]]
Type(k) == IF k \in DOMAIN TypeOf THEN TypeOf[k] ELSE "empty"
KeyIsValid(k) == k # <<>> /\ k[1] # "-" /\ \A i \in DOMAIN k : k[i] # " "
IsZid(v) == v = Zid
IsTime(v) == v # <<>> /\ \A i \in DOMAIN v : v[i] = "1"
IsTag(v) == v[1] = "#" /\ Len(v) > 1
IsElement(type, v) == IF type = "tags" THEN IsTag(v) ELSE IsZid(v)

(* addSet: the elements of the old value count only if there are new ones.  *)
addSet(m, k, v) ==
    LET used(value) == {e \in ToSet(ListFromValue(value)) : IsElement(Type(k), e)}
        old == IF k \in DOMAIN m.pairs THEN used(m.pairs[k]) ELSE {}
    IN  IF used(v) = {} THEN m ELSE SetPair(m, k, Joined(SetToSeq(used(v) \cup old)))
addData(m, k, v) ==
    LET old == IF k \in DOMAIN m.pairs THEN m.pairs[k] ELSE <<>> IN
    CASE old = <<>> -> SetPair(m, k, v)
      [] old # <<>> /\ v # <<>> -> SetPair(m, k, old \o <<" ">> \o v)
      [] OTHER -> m
addToMeta(m, key, val) ==
    LET k == ToLower(key)
        v == trimValue(val)
    IN  CASE ~KeyIsValid(k) \/ k = <<"i", "d">> -> m
          [] KeyIsValid(k) /\ Type(k) = "tags" -> addSet(m, k, ToLower(v))
          [] KeyIsValid(k) /\ Type(k) = "word" -> SetPair(m, k, ToLower(v))
          [] KeyIsValid(k) /\ Type(k) = "zid" -> IF IsZid(v) THEN SetPair(m, k, v) ELSE m
          [] KeyIsValid(k) /\ Type(k) = "zids" -> addSet(m, k, v)
          [] KeyIsValid(k) /\ Type(k) = "time" -> IF IsTime(v) THEN SetPair(m, k, v) ELSE m
          [] OTHER -> IF k = <<"i", "d">> THEN m ELSE addData(m, k, v)

(* parseHeader: a line that begins with a space continues the value.        *)
RECURSIVE headerValue(_, _, _)
headerValue(s, p, val) ==
    LET start == SkipSpace(s, p)
        next == AfterLine(s, start)
        line == val \o SubSeq(s, start, skipToEOL(s, start) - 1)
    IN  IF Character(s, next) = " " THEN headerValue(s, next, line \o <<" ">>) ELSE [val |-> line, pos |-> next]
parseHeader(s, p, m) ==
    LET end == FirstFrom(s, p, LAMBDA c : c \in {" ", ":", "#", "%", "BELL"} \cup EndOfLine)
        colon == SkipSpace(s, end)
        value == headerValue(s, IF Character(s, colon) = ":" THEN colon + 1 ELSE colon, <<>>)
    IN  [m |-> addToMeta(m, SubSeq(s, p, end - 1), value.val), pos |-> value.pos]

(* NewFromInput: the metadata, and where the content begins                 *)
RECURSIVE headers(_, _, _)
headers(s, p, m) ==
    LET q == SkipSpace(s, p)
        h == parseHeader(s, q, m)
    IN  CASE Character(s, q) \in EndOfLine -> [m |-> m, pos |-> EatEOL(s, q)]
          [] Character(s, q) = "EOS" -> [m |-> m, pos |-> q]
          [] Character(s, q) = "%" -> headers(s, AfterLine(s, q), m)
          [] OTHER -> IF Dashes(s, h.pos) THEN [m |-> [h.m EXCEPT !.yaml = TRUE], pos |-> AfterLine(s, h.pos)]
                      ELSE headers(s, h.pos, h.m)
NewFromInput(s) == headers(s, IF Dashes(s, 1) THEN AfterLine(s, 1) ELSE 1, New)

-----------------------------------------------------------------------------
(* Metadata of forms and of data *)

TrimSpace(s) == Trimmed(s, LAMBDA c : c \in EndOfLine \cup {" "})
(* Characters that are not graphic become spaces.                           *)
RemoveNonGraphic(s) ==
    Trimmed([i \in DOMAIN s |-> IF s[i] \in EndOfLine \cup {"BELL"} THEN " " ELSE s[i]], LAMBDA c : c = " ")
Sanitize(m) == [m EXCEPT !.pairs = [k \in DOMAIN m.pairs |-> RemoveNonGraphic(m.pairs[k])]]

(* removeEmptyLines: ends of lines with only space between become one.      *)
RECURSIVE withoutEmpty(_)
withoutEmpty(s) ==
    LET p == FirstFrom(s, 1, LAMBDA c : c \in EndOfLine)
        q == FirstFrom(s, p, LAMBDA c : c \notin EndOfLine \cup {" "})
        ends == {i \in p .. q - 1 : s[i] \in EndOfLine}
        last == CHOOSE i \in ends : \A j \in ends : i >= j
    IN  CASE ends = {} -> s
          [] ends # {} /\ last > p -> SubSeq(s, 1, p - 1) \o <<"NL">> \o withoutEmpty(SubSeq(s, last + 1, Len(s)))
          [] OTHER -> SubSeq(s, 1, p) \o withoutEmpty(SubSeq(s, p + 1, Len(s)))
removeEmptyLines(s) == withoutEmpty(TrimSpace(s))

(* parseZettelForm: the fields are the text of the metadata, a title, tags  *)
(* and a role; an empty one is not in the form.                             *)
NormalizeTag(t) == IF t[1] = "#" THEN t ELSE <<"#">> \o t
parseZettelForm(form) ==
    LET field(f) == RemoveNonGraphic(form[f])
        m0 == Sanitize(NewFromInput(removeEmptyLines(form.meta)).m)
        m1 == IF TrimSpace(form.title) = <<>> THEN m0 ELSE SetPair(m0, <<"t">>, field("title"))
        tags == ListFromValue(field("tags"))
        m2 == IF tags = <<>> THEN m1 ELSE SetPair(m1, <<"g">>, Joined([i \in DOMAIN tags |-> NormalizeTag(tags[i])]))
    IN  IF ListFromValue(field("role")) = <<>> THEN m2 ELSE SetPair(m2, <<"w">>, ListFromValue(field("role"))[1])

(* buildZettelFromData: computed keys are left out.                         *)
buildZettelFromData(data) ==
    LET kept == {k \in DOMAIN data : k \notin IsComputed}
        keys == {RemoveNonGraphic(k) : k \in kept} \ {<<"i", "d">>}
    IN  [New EXCEPT !.pairs = [k \in keys |-> trimValue(RemoveNonGraphic(data[CHOOSE j \in kept : RemoveNonGraphic(j) = k]))]]

-----------------------------------------------------------------------------
(* Files *)

Line(k, v) == k \o <<":", " ">> \o v \o <<"NL">>
writeFileZid == Line(<<"i", "d">>, Zid)
WriteComputed(m) ==
    LET keys == SetToSeq(DOMAIN m.pairs \ IsProperty) IN
    FlattenSeq([i \in DOMAIN keys |-> Line(keys[i], m.pairs[keys[i]])])
YamlSep == <<"-", "-", "-", "NL">>
(* Mutant: dashes end the metadata only where they begin with them.         *)
writeMetaHeaderOpen(m) == (IF m.yaml THEN YamlSep ELSE <<>>) \o writeFileZid \o WriteComputed(m) \o (IF m.yaml THEN <<>> ELSE <<"NL">>)
writeMetaHeader(m) ==
    (IF m.yaml THEN YamlSep ELSE <<>>) \o writeFileZid \o WriteComputed(m) \o (IF m.yaml THEN YamlSep ELSE <<"NL">>)

(* fileSetZettel: one file, or a file for the metadata and one for content  *)
NoFile == <<"absent">>
Written(form, m, content) ==
    CASE form = "zettel" -> [meta |-> NoFile, content |-> writeMetaHeader(m) \o content]
      [] form = "parts" -> [meta |-> writeFileZid \o WriteComputed(m), content |-> content]
      [] form = "meta" -> [meta |-> writeFileZid \o WriteComputed(m), content |-> NoFile]

(* fileGetMetaContent; CleanupMeta gives metadata of a file a syntax.       *)
CleanupMeta(m, inMeta, ext) ==
    LET syntax == IF <<"s">> \in DOMAIN m.pairs THEN m.pairs[<<"s">>] ELSE <<>> IN
    IF inMeta /\ syntax = <<>> THEN SetPair(m, <<"s">>, ext) ELSE m
ReadBack(files, ext) ==
    LET inContent == NewFromInput(files.content) IN
    IF files.meta = NoFile
    THEN [m |-> CleanupMeta(inContent.m, FALSE, ext), content |-> SubSeq(files.content, inContent.pos, Len(files.content))]
    ELSE [m |-> CleanupMeta(NewFromInput(files.meta).m, TRUE, ext), content |-> IF files.content = NoFile THEN <<>> ELSE files.content]
=============================================================================
