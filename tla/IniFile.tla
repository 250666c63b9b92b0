------------------------------- MODULE IniFile -------------------------------
(***************************************************************************)
(* util/ini.hpp: a file of sections, keys and values that is changed in    *)
(* place.  The file is a sequence of symbols; a section header, a key and  *)
(* a character of a value are one symbol each, "=", blanks, comment marks  *)
(* and the ends of lines stand for themselves.  Offsets count from 0.      *)
(***************************************************************************)
EXTENDS Naturals, SequencesExt

CONSTANTS Section,     \* headers; Global, no header, is a section too
          Global,
          Key,
          Values,      \* what set() is given: sequences of characters without blanks at the ends
          Endl,        \* the end of a line that is written, "\n" last
          Files,       \* what the file may hold when it is opened
          MaxSet       \* bound: calls of set()

VARIABLES file,        \* what is on the disk
          store,       \* what the callers have stored: [Section x Key -> value], or None
          comments,    \* the lines of the file that are no header, key or blank line, as opened
          sets         \* calls of set() so far

iniVars == <<file, store, comments, sets>>

None == <<"none">>
Blank == {" ", "\t", "\r"}
Sections == Section \cup {Global}

Trim(s) ==
    LET P == {i \in DOMAIN s : s[i] \notin Blank}
    IN  IF P = {} THEN <<>> ELSE SubSeq(s, Min(P), Max(P))

(***************************************************************************)
(* _getline(), for all the lines of the file: where each begins, its text  *)
(* without the "\n", what kind of line it is.  posg is the offset.         *)
(***************************************************************************)
Starts(f) ==
    SelectSeq([i \in DOMAIN f |-> i - 1], LAMBDA p : p = 0 \/ f[p] = "\n")

LineAt(f, p) ==
    LET E == {q \in (p + 1)..Len(f) : f[q] = "\n"}
    IN  SubSeq(f, p + 1, IF E = {} THEN Len(f) ELSE Min(E) - 1)

Kind(line) ==
    LET t == Trim(line)
    IN  CASE t = <<>> -> "o"
          [] t # <<>> /\ t[1] = ";" -> "a"
          [] t # <<>> /\ t[1] \in Section -> "s"
          [] OTHER -> IF Len(t) > 1 /\ Contains(Tail(t), "=") THEN "k" ELSE "o"

Sep(line) == Min({i \in DOMAIN line : line[i] = "="})

KeyOf(line) == Trim(SubSeq(line, 1, Sep(line) - 1))
ValueOf(line) == Trim(SubSeq(line, Sep(line) + 1, Len(line)))

Lines(f) == [i \in DOMAIN Starts(f) |->
                [posg |-> Starts(f)[i], text |-> LineAt(f, Starts(f)[i])]]

(* The lines _get() and set() look through for a key: behind the first     *)
(* header of the section, up to the next header of any section.            *)
Headers(ls) == {i \in DOMAIN ls : Kind(ls[i].text) = "s"}

HeaderOf(ls, sec) ==
    IF sec = Global THEN 0
    ELSE LET H == {i \in Headers(ls) : Trim(ls[i].text)[1] = sec}
         IN  IF H = {} THEN Len(ls) + 1 ELSE Min(H)

BlockEnd(ls, sec) == Min({i \in Headers(ls) : i > HeaderOf(ls, sec)} \cup {Len(ls) + 1})

Slots(ls, sec, key) ==
    {i \in (HeaderOf(ls, sec) + 1)..(BlockEnd(ls, sec) - 1) :
        Kind(ls[i].text) = "k" /\ KeyOf(ls[i].text) = <<key>>}

get(f, sec, key) ==
    LET ls == Lines(f)
    IN  IF Slots(ls, sec, key) = {} THEN None
        ELSE ValueOf(ls[Min(Slots(ls, sec, key))].text)

(***************************************************************************)
(* set().  Write puts symbols over the file from an offset on; what would  *)
(* only lengthen the file by blanks is left out.                           *)
(***************************************************************************)
Overwrite(f, p, content) ==
    SubSeq(f, 1, p) \o content \o SubSeq(f, p + Len(content) + 1, Len(f))

NoBlanksBeyond(content, p, size) ==
    LET last == Max({0} \cup {i \in DOMAIN content : content[i] # " "})
        room == IF size > p THEN size - p ELSE 0
        keep == IF last > room THEN last ELSE room
    IN  SubSeq(content, 1, IF keep < Len(content) THEN keep ELSE Len(content))

Spaces(n) == [i \in 1..n |-> " "]

RestOf(f, p) == SubSeq(f, p + 1, Len(f))

(* Of a line that has the key, what stands up to the value is kept.        *)
Upto(line) ==
    LET after == {i \in (Sep(line) + 1)..Len(line) : line[i] \notin {" ", "\t"}}
    IN  SubSeq(line, 1, IF after = {} THEN Len(line) ELSE Min(after) - 1)

update_v_NoPadding(f, l, val) ==     (* Mutant: a shorter line leaves the old end of the file behind. *)
    LET begin == Upto(l.text) \o val \o Endl
    IN  IF val = ValueOf(l.text) THEN f
        ELSE Overwrite(f, l.posg, begin \o RestOf(f, l.posg + Len(l.text) + 1))

update_v(f, l, val) ==
    LET begin == Upto(l.text) \o val \o Endl
        rest == RestOf(f, l.posg + Len(l.text) + 1)
        shorter == IF Len(l.text) + 1 > Len(begin) THEN Len(l.text) + 1 - Len(begin) ELSE 0
    IN  IF val = ValueOf(l.text) THEN f
        ELSE Overwrite(f, l.posg, NoBlanksBeyond(begin \o rest \o Spaces(shorter), l.posg, Len(f)))

new_key_OverRest(f, p, key, val) ==  (* Mutant: what stood behind the place is not read first. *)
    Overwrite(f, p, Endl \o <<key, "=">> \o val \o Endl)

new_key(f, p, key, val) ==
    Overwrite(f, p, NoBlanksBeyond(Endl \o <<key, "=">> \o val \o Endl \o RestOf(f, p), p, Len(f)))

(* Without its last end of line the file goes before the new section, or   *)
(* behind the new key when that has no section.                            *)
NoLastEnd(f) ==
    LET g == IF f # <<>> /\ Last(f) = "\n" THEN Front(f) ELSE f
    IN  IF g # <<>> /\ Last(g) = "\r" THEN Front(g) ELSE g

new_section(f, sec, key, val) ==
    LET content == NoLastEnd(f)
        entry == <<key, "=">> \o val \o Endl
        all == CASE sec # Global /\ content = <<>> -> <<sec>> \o Endl \o entry
                 [] sec # Global /\ content # <<>> -> content \o Endl \o <<sec>> \o Endl \o entry
                 [] sec = Global -> entry \o content
    IN  Overwrite(f, 0, NoBlanksBeyond(all, 0, Len(f)))

set(f, sec, key, val) ==
    LET ls == Lines(f)
        next == BlockEnd(ls, sec)
    IN  CASE Slots(ls, sec, key) # {} -> update_v(f, ls[Min(Slots(ls, sec, key))], val)
          [] Slots(ls, sec, key) = {} /\ sec # Global /\ HeaderOf(ls, sec) <= Len(ls) ->
                new_key(f, IF next <= Len(ls) THEN ls[next].posg ELSE Len(f), key, val)
          [] OTHER -> new_section(f, sec, key, val)

(* The destructor takes blanks off the end of the file.                    *)
close(f) == SubSeq(f, 1, Max({0} \cup {i \in DOMAIN f : f[i] # " "}))

-----------------------------------------------------------------------------
Comments(f) == SelectSeq([i \in DOMAIN Lines(f) |-> Lines(f)[i].text],
                         LAMBDA l : Kind(l) = "a")

Init ==
    /\ file \in Files
    /\ store = [s \in Sections, k \in Key |-> get(file, s, k)]
    /\ comments = Comments(file)
    /\ sets = 0

Set(sec, key, val) ==
    /\ sets < MaxSet
    /\ sets' = sets + 1
    /\ file' = set(file, sec, key, val)
    /\ store' = [store EXCEPT ![sec, key] = val]
    /\ UNCHANGED comments

Close ==
    /\ file' = close(file)
    /\ UNCHANGED <<store, comments, sets>>

Next ==
    \/ \E sec \in Sections, key \in Key, val \in Values : Set(sec, key, val)
    \/ Close

Spec == Init /\ [][Next]_iniVars

-----------------------------------------------------------------------------
(* Whatever was set, in whatever order and with the file closed in         *)
(* between, every key of every section reads as it was last set, and those *)
(* never set read as the file had them: an update in place disturbs no     *)
(* neighbour.                                                              *)
ReadsBack == \A s \in Sections, k \in Key : get(file, s, k) = store[s, k]

(* The comments stay, in their order, none is cut or doubled.              *)
CommentsStay == [i \in DOMAIN Comments(file) |-> Trim(Comments(file)[i])]
                    = [i \in DOMAIN comments |-> Trim(comments[i])]
=============================================================================
