---------------------------- MODULE Utf8Validator ----------------------------
(***************************************************************************)
(* util/utf8_validator.hpp: a table-driven machine that is given one octet *)
(* at a time, and the code point it puts together.                         *)
(***************************************************************************)
EXTENDS Naturals, SequencesExt

CONSTANTS Octet,        \* the octets that are tried: both sides of every boundary
          MaxOctets     \* bound

VARIABLES m_state, m_codepoint,
          octets,       \* what has been consumed since the last reset
          u_complete    \* what complete() and the last decode() say: "yes", "no" or "invalid"

utf8Vars == <<m_state, m_codepoint, octets, u_complete>>

utf8_accept == 0
utf8_reject == 1

(* The first 256 entries of utf8d, the type of an octet.                   *)
Type(b) == CASE b <= 127 -> 0
             [] b \in 128..143 -> 1
             [] b \in 144..159 -> 9
             [] b \in 160..191 -> 7
             [] b \in 192..193 -> 8
             [] b \in 194..223 -> 2
             [] b = 224 -> 10
             [] b \in (225..236) \cup (238..239) -> 3
             [] b = 237 -> 4
             [] b = 240 -> 11
             [] b \in 241..243 -> 6
             [] b = 244 -> 5
             [] OTHER -> 8

(* The other entries: from the state before (a row) and the type.          *)
NextState_SurrogatesToo(state, type) ==   (* Mutant: the entry for 0xed is that of its neighbours. *)
    LET row == << <<0, 1, 2, 3, 3, 8, 7, 1, 1, 1, 4, 6>>,
                  <<1, 1, 1, 1, 1, 1, 1, 1, 1, 1, 1, 1>>,
                  <<1, 0, 1, 1, 1, 1, 1, 0, 1, 0, 1, 1>>,
                  <<1, 2, 1, 1, 1, 1, 1, 2, 1, 2, 1, 1>>,
                  <<1, 1, 1, 1, 1, 1, 1, 2, 1, 1, 1, 1>>,
                  <<1, 2, 1, 1, 1, 1, 1, 1, 1, 2, 1, 1>>,
                  <<1, 1, 1, 1, 1, 1, 1, 3, 1, 3, 1, 1>>,
                  <<1, 3, 1, 1, 1, 1, 1, 3, 1, 3, 1, 1>>,
                  <<1, 3, 1, 1, 1, 1, 1, 1, 1, 1, 1, 1>> >>
    IN  row[state + 1][type + 1]

NextState(state, type) ==
    LET row == << <<0, 1, 2, 3, 5, 8, 7, 1, 1, 1, 4, 6>>,
                  <<1, 1, 1, 1, 1, 1, 1, 1, 1, 1, 1, 1>>,
                  <<1, 0, 1, 1, 1, 1, 1, 0, 1, 0, 1, 1>>,
                  <<1, 2, 1, 1, 1, 1, 1, 2, 1, 2, 1, 1>>,
                  <<1, 1, 1, 1, 1, 1, 1, 2, 1, 1, 1, 1>>,
                  <<1, 2, 1, 1, 1, 1, 1, 1, 1, 2, 1, 1>>,
                  <<1, 1, 1, 1, 1, 1, 1, 3, 1, 3, 1, 1>>,
                  <<1, 3, 1, 1, 1, 1, 1, 3, 1, 3, 1, 1>>,
                  <<1, 3, 1, 1, 1, 1, 1, 1, 1, 1, 1, 1>> >>
    IN  row[state + 1][type + 1]

CodePoint_LeadWhole(state, codep, b) ==   (* Mutant: the mask is that of two octets for every lead. *)
    IF state # utf8_accept THEN codep * 64 + (b % 64)
    ELSE IF Type(b) = 0 THEN b ELSE b % 64

CodePoint(state, codep, b) ==
    CASE state # utf8_accept -> codep * 64 + (b % 64)
      [] state = utf8_accept /\ Type(b) < 8 -> b % 2^(8 - Type(b))   \* (0xff >> type) & byte
      [] state = utf8_accept /\ Type(b) >= 8 -> 0

Init ==
    /\ m_state = utf8_accept /\ m_codepoint = 0
    /\ octets = <<>> /\ u_complete = "yes"

(* consume(); a caller stops at the first octet that is refused.           *)
consume(b) ==
    /\ m_state # utf8_reject
    /\ Len(octets) < MaxOctets
    /\ m_state' = NextState(m_state, Type(b))
    /\ m_codepoint' = CodePoint(m_state, m_codepoint, b)
    /\ octets' = Append(octets, b)
    /\ u_complete' = CASE m_state' = utf8_reject -> "invalid"
                       [] m_state' = utf8_accept -> "yes"
                       [] OTHER -> "no"

reset ==
    /\ m_state' = utf8_accept /\ m_codepoint' = 0
    /\ octets' = <<>> /\ u_complete' = "yes"

Next == (\E b \in Octet : consume(b)) \/ reset

Spec == Init /\ [][Next]_utf8Vars

-----------------------------------------------------------------------------
(* The Unicode Standard, table 3-7: well-formed UTF-8 byte sequences.      *)
Tail_ == 128..191

WellFormed ==
    { << 0..127 >>, << 194..223, Tail_ >>,
      << {224}, 160..191, Tail_ >>, << 225..236, Tail_, Tail_ >>,
      << {237}, 128..159, Tail_ >>, << 238..239, Tail_, Tail_ >>,
      << {240}, 144..191, Tail_, Tail_ >>, << 241..243, Tail_, Tail_, Tail_ >>,
      << {244}, 128..143, Tail_, Tail_ >> }

Fits(s, w) == Len(s) <= Len(w) /\ \A i \in DOMAIN s : s[i] \in w[i]

RECURSIVE Rest(_)
Rest(s) ==       \* s without the characters that are complete
    LET W == {w \in WellFormed : Len(w) <= Len(s) /\ Fits(SubSeq(s, 1, Len(w)), w)}
    IN  IF W = {} THEN s ELSE LET w == CHOOSE w \in W : TRUE
                              IN  Rest(SubSeq(s, Len(w) + 1, Len(s)))

(* The octets are accepted exactly when they are well formed, refused at   *)
(* the first one no character goes on with, and incomplete exactly when    *)
(* some continuation completes them.                                       *)
TellsWellFormed ==
    u_complete = CASE Rest(octets) = <<>> -> "yes"
                   [] \E w \in WellFormed : Rest(octets) # <<>> /\ Fits(Rest(octets), w) -> "no"
                   [] OTHER -> "invalid"

(* A code point put together is the character's, and never that of an      *)
(* overlong spelling, of a surrogate or beyond the last one.               *)
CodePointRight ==
    u_complete = "yes" /\ octets # <<>> =>
        \E w \in {x \in WellFormed : Len(x) <= Len(octets)} :
            LET n == Len(w)
                s == SubSeq(octets, Len(octets) - n + 1, Len(octets))
                lead == CASE n = 1 -> s[1] [] n = 2 -> s[1] - 192
                          [] n = 3 -> s[1] - 224 [] n = 4 -> s[1] - 240
            IN  /\ Fits(s, w)
                /\ m_codepoint = FoldLeft(LAMBDA c, b : c * 64 + (b - 128), lead, Tail(s))
                /\ m_codepoint <= 1114111 /\ m_codepoint \notin 55296..57343
=============================================================================
