------------------------------- MODULE Strings -------------------------------
(***************************************************************************)
(* The string helpers of util/string.hpp, as operators.  A string is a     *)
(* sequence of characters, positions count from 0, and size_t arithmetic   *)
(* wraps round at Npos + 1.                                                *)
(***************************************************************************)
EXTENDS Naturals, SequencesExt

CONSTANTS Blank,    \* the characters isspace() accepts
          Lower,    \* tolower(), a function on the characters
          Upper,    \* toupper()
          Npos      \* the largest value of size_t

(* std::basic_string's members, as the helpers use them.                   *)
Occurs(s, t, p) == p + Len(t) <= Len(s) /\ SubSeq(s, p + 1, p + Len(t)) = t

find(s, t, from) ==
    LET P == {p \in 0..Len(s) : p >= from /\ Occurs(s, t, p)}
    IN  IF P = {} THEN Npos ELSE Min(P)

rfind(s, t, from) ==
    LET P == {p \in 0..Len(s) : p <= from /\ Occurs(s, t, p)}
    IN  IF P = {} THEN Npos ELSE Max(P)

substr(s, p, n) == SubSeq(s, p + 1, IF p + n < Len(s) THEN p + n ELSE Len(s))

Spliced(s, p, n, r) == substr(s, 0, p) \o r \o SubSeq(s, p + n + 1, Len(s))

(* Case.                                                                   *)
to_lower(s) == [i \in DOMAIN s |-> Lower[s[i]]]
to_upper(s) == [i \in DOMAIN s |-> Upper[s[i]]]
capitalize_first_char(s) == [i \in DOMAIN s |-> IF i = 1 THEN Upper[s[i]] ELSE s[i]]
capitalize(s) == capitalize_first_char(to_lower(s))

(* iequals() goes through equal characters fast; from the first difference *)
(* on, that one included, it compares lower case.                          *)
iequals_SkipsOne(s, t) ==            (* Mutant: the slow loop reads on before it compares. *)
    /\ Len(s) = Len(t)
    /\ LET D == {i \in DOMAIN s : s[i] # t[i]}
       IN  D = {} \/ \A i \in (Min(D) + 1)..Len(s) : Lower[s[i]] = Lower[t[i]]

iequals(s, t) ==
    /\ Len(s) = Len(t)
    /\ LET D == {i \in DOMAIN s : s[i] # t[i]}
       IN  D = {} \/ \A i \in Min(D)..Len(s) : Lower[s[i]] = Lower[t[i]]

ifind(s, t, pos) ==
    LET matches(p) == /\ p + Len(t) <= Len(s)
                      /\ \A i \in DOMAIN t : Lower[s[p + i]] = Lower[t[i]]
        P == {p \in pos..(Len(s) - 1) : matches(p)}
    IN  IF pos >= Len(s) \/ t = <<>> \/ P = {} THEN Npos ELSE Min(P)

(* Searching.  ends_with() subtracts sizes without a test.                 *)
contains(s, t) == find(s, t, 0) # Npos

starts_with(s, t) == rfind(s, t, 0) = 0

ends_with_NoNpos(s, t) ==            (* Mutant: without the second test. *)
    LET start == (Len(s) - Len(t)) % (Npos + 1) IN find(s, t, start) = start

ends_with(s, t) ==
    LET start == (Len(s) - Len(t)) % (Npos + 1)
        found == find(s, t, start)
    IN  found = start /\ found # Npos

(* Trimming: of a string by find_if and erase, of a view by counting; the  *)
(* view's right end runs past 0 to Npos when everything is blank.          *)
Printing(s) == {i \in DOMAIN s : s[i] \notin Blank}

trim_all(s) == SelectSeq(s, LAMBDA x : x \notin Blank)

trim_left(s) ==
    SubSeq(s, IF Printing(s) = {} THEN Len(s) + 1 ELSE Min(Printing(s)), Len(s))

trim_right(s) == SubSeq(s, 1, IF Printing(s) = {} THEN 0 ELSE Max(Printing(s)))

trim_both(s) == trim_right(trim_left(s))

view_trim_left(s) ==
    LET pos == Cardinality({i \in DOMAIN s : \A j \in 1..i : s[j] \in Blank})
    IN  SubSeq(s, pos + 1, Len(s))

view_trim_right_OneLess(s) ==        (* Mutant: the suffix is counted from the last printing character. *)
    LET pos == IF Printing(s) = {} THEN Npos ELSE Max(Printing(s)) - 1
        suffix == (Len(s) - pos) % (Npos + 1)
    IN  IF s = <<>> THEN s ELSE SubSeq(s, 1, Len(s) - suffix)

view_trim_right(s) ==
    LET pos == IF Printing(s) = {} THEN Npos ELSE Max(Printing(s)) - 1
        suffix == (Len(s) - pos - 1) % (Npos + 1)
    IN  IF s = <<>> THEN s ELSE SubSeq(s, 1, Len(s) - suffix)

view_trim_both(s) == view_trim_right(view_trim_left(s))

(* Replacing.                                                              *)
replace_first(s, t, r) ==
    LET p == find(s, t, 0) IN IF p = Npos THEN s ELSE Spliced(s, p, Len(t), r)

replace_last(s, t, r) ==
    LET p == rfind(s, t, Npos) IN IF p = Npos THEN s ELSE Spliced(s, p, Len(t), r)

RECURSIVE ReplaceFrom(_, _, _, _)
ReplaceFrom(s, t, r, start) ==
    LET p == find(s, t, start)
    IN  IF p = Npos THEN s
        ELSE ReplaceFrom(Spliced(s, p, Len(t), r), t, r, p + Len(r))

replace_all_OneOn(s, t, r) ==        (* Mutant: goes on one character behind the replacement. *)
    LET RECURSIVE From(_, _)
        From(x, start) == LET p == find(x, t, start)
                          IN  IF p = Npos THEN x
                              ELSE From(Spliced(x, p, Len(t), r), p + Len(r) + 1)
    IN  IF t = <<>> THEN s ELSE From(s, 0)

replace_all(s, t, r) == IF t = <<>> THEN s ELSE ReplaceFrom(s, t, r, 0)

(* Splitting and joining.                                                  *)
RECURSIVE SplitFrom(_, _, _)
SplitFrom(s, d, start) ==
    LET p == find(s, d, start)
    IN  IF p = Npos THEN <<substr(s, start, Len(s))>>
        ELSE <<substr(s, start, p - start)>> \o SplitFrom(s, d, p + Len(d))

split_OneOn(s, d) ==                 (* Mutant: skips one character, however long the delimiter. *)
    LET RECURSIVE From(_)
        From(start) == LET p == find(s, d, start)
                       IN  IF p = Npos THEN <<substr(s, start, Len(s))>>
                           ELSE <<substr(s, start, p - start)>> \o From(p + 1)
    IN  From(0)

split(s, d) == SplitFrom(s, d, 0)

(* split_any(): a token ends at every character of the set.                *)
Ends(s, D) == SelectSeq([i \in DOMAIN s |-> i], LAMBDA i : s[i] \in D)

split_any(s, D) ==
    LET e == <<0>> \o Ends(s, D) \o <<Len(s) + 1>>
    IN  [k \in 1..(Len(e) - 1) |-> SubSeq(s, e[k] + 1, e[k + 1] - 1)]

join(tokens, d) ==
    FoldLeft(LAMBDA a, k : a \o (IF k = 1 THEN <<>> ELSE d) \o tokens[k], <<>>,
             [k \in DOMAIN tokens |-> k])

repeat(s, n) == join([k \in 1..n |-> s], <<>>)

drop_empty(tokens) == SelectSeq(tokens, LAMBDA t : t # <<>>)

(* std::sort's lexicographic order, then std::unique.                      *)
Smaller(s, t) ==
    \/ IsStrictPrefix(s, t)
    \/ \E i \in DOMAIN s \cap DOMAIN t :
          s[i] < t[i] /\ SubSeq(s, 1, i - 1) = SubSeq(t, 1, i - 1)

sorting_ascending(tokens) == SortSeq(tokens, Smaller)

drop_duplicate_Unsorted(tokens) ==   (* Mutant: unique() without the sort before it. *)
    LET keep == SelectSeq([i \in DOMAIN tokens |-> i],
                          LAMBDA i : i = 1 \/ tokens[i] # tokens[i - 1])
    IN  [k \in DOMAIN keep |-> tokens[keep[k]]]

drop_duplicate(tokens) ==
    LET t == sorting_ascending(tokens)
        keep == SelectSeq([i \in DOMAIN t |-> i], LAMBDA i : i = 1 \/ t[i] # t[i - 1])
    IN  [k \in DOMAIN keep |-> t[keep[k]]]

(* regex_split_map(): the names are the matches of a character class, the  *)
(* value of a name is the text behind it; a blank is put behind the text   *)
(* first, so that the last name has a value to read.                       *)
regex_split_map_NotAdvanced(s, D, blank) ==   (* Mutant: the values start before the first name. *)
    LET text == Append(s, blank)
        names == Ends(text, D)
        values == SubSeq(split_any(text, D), 1, Len(names))
    IN  [n \in {text[i] : i \in Range(names)} |->
            values[Max({k \in DOMAIN names : text[names[k]] = n})]]

regex_split_map(s, D, blank) ==
    LET text == Append(s, blank)
        names == Ends(text, D)
        values == SubSeq(split_any(text, D), 2, Len(names) + 1)
    IN  [n \in {text[i] : i \in Range(names)} |->
            values[Max({k \in DOMAIN names : text[names[k]] = n})]]

-----------------------------------------------------------------------------
(* Splitting loses nothing and leaves no delimiter behind: joining the     *)
(* tokens with the delimiter gives the string back, the tokens hold none,  *)
(* and split_any() is split() once all delimiters are made the same one.   *)
SplitJoins(s, d) ==
    d # <<>> =>
      /\ join(split(s, d), d) = s
      /\ \A k \in DOMAIN split(s, d) : ~contains(split(s, d)[k], d)
      /\ split_any(s, Range(d)) =
            split([i \in DOMAIN s |-> IF s[i] \in Range(d) THEN d[1] ELSE s[i]], <<d[1]>>)
      /\ drop_empty(split(s, d)) = SelectSeq(split(s, d), LAMBDA t : Len(t) > 0)

(* Replacing all is splitting at the target and joining with the           *)
(* replacement, even when the replacement holds the target; replacing the  *)
(* last one is replacing the first one in the mirror, and the three agree  *)
(* when there is at most one.                                              *)
ReplacesAgree(s, t, r) ==
    t # <<>> =>
      /\ replace_all(s, t, r) = join(split(s, t), r)
      /\ replace_last(s, t, r)
            = Reverse(replace_first(Reverse(s), Reverse(t), Reverse(r)))
      /\ ~contains(s, t) => replace_first(s, t, r) = s /\ replace_all(s, t, r) = s

(* The searches say what they should for every pair of sizes: a prefix and *)
(* a suffix are found when there is one, and a longer one never is.        *)
SearchesAgree(s, t) ==
    /\ ends_with(s, t) <=> IsSuffix(t, s)
    /\ starts_with(s, t) <=> IsPrefix(t, s)
    /\ starts_with(s, t) \/ ends_with(s, t) => contains(s, t)

(* The searches that ignore case are the plain ones in lower case, and     *)
(* capitalize() changes nothing they see.                                  *)
CaseIgnored(s, t) ==
    /\ iequals(s, t) <=> to_lower(s) = to_lower(t)
    /\ iequals(capitalize(s), s) /\ iequals(to_upper(s), capitalize_first_char(s))
    /\ t # <<>> => ifind(s, t, 0) = find(to_lower(s), to_lower(t), 0)

(* A string and a view of it are trimmed alike, whatever is blank, and     *)
(* trimming both ends takes the blanks around the text and no other.       *)
TrimsAgree(s) ==
    /\ view_trim_both(s) = trim_both(s)
    /\ \E m, n \in 0..Len(s) :
          LET around == Range(SubSeq(s, 1, m)) \cup Range(SubSeq(s, n + 1, Len(s)))
          IN  around \subseteq Blank /\ trim_both(s) = SubSeq(s, m + 1, n)
    /\ trim_both(s) = <<>> \/ {trim_both(s)[1], Last(trim_both(s))} \cap Blank = {}
    /\ trim_all(trim_both(s)) = trim_all(s)

(* Dropping duplicates keeps each token once, wherever its copies stood.   *)
DuplicatesDrop(s, d) ==
    LET t == drop_duplicate(split(s, d))
    IN  d # <<>> => IsInjective(t) /\ Range(t) = Range(split(s, d))

(* Every delimiter in the text is a name, and its value is what stands     *)
(* between its last occurrence and the next delimiter.                     *)
NamesHaveValues(s, D, blank) ==
    blank \notin D =>
      LET map == regex_split_map(s, D, blank)
      IN  /\ DOMAIN map = Range(s) \cap D
          /\ \A n \in DOMAIN map :
                LET p == Max({i \in DOMAIN s : s[i] = n})
                    after == SelectInSubSeq(Append(s, blank), p + 1, Len(s) + 1,
                                            LAMBDA x : x \in D)
                IN  map[n] = SubSeq(Append(s, blank), p + 1,
                                    IF after = 0 THEN Len(s) + 1 ELSE after - 1)
=============================================================================
