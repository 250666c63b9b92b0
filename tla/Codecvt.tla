------------------------------- MODULE Codecvt -------------------------------
(***************************************************************************)
(* codecvt.hpp: the facets codecvt_utf8, codecvt_utf16, codecvt_utf8_utf16 *)
(* and the two drivers that call them piece by piece, wstring_convert with *)
(* its small buffer and wbuffer_convert octet by octet; and the functions  *)
(* (utf8_to_locale, gbk_to_utf8, ...) that convert what comes before a bad *)
(* character when wstring_convert throws, and are declared noexcept.       *)
(*                                                                         *)
(* A job is a list of stages, each a driver, a direction, a facet and its  *)
(* mode.  One step is one call of the facet.  Octets and characters are    *)
(* numbers; shifts and masks are written as products and remainders.       *)
(***************************************************************************)
LOCAL INSTANCE Integers
LOCAL INSTANCE SequencesExt

CONSTANTS
    Jobs,          \* the records [stages, input, retry, ...] tried
    ByteInc, ByteMax,      \* _BUF_INC and _BUF_MAX for octets
    WideInc, WideMax,      \* and for elements, scaled to the texts tried
    Local          \* the external facet: octets of the characters it knows

VARIABLES
    job,           \* what is being done; stages: those left
    in, pos,       \* the current stage's input and how much of it was taken
    out,           \* and its output
    st,            \* _State
    buf,           \* the size of the driver's buffer; for a reader, the octets not yet used
    status         \* "run", "threw", "done", or "terminated": thrown out of noexcept

vars == <<job, in, pos, out, st, buf, status>>

Header == 65279      \* U+FEFF
Drop(s, n) == SubSeq(s, n + 1, Len(s))
Lead(b) == CASE b < 128 -> <<b, 0>>          [] b < 192 -> <<0, -1>>
             [] b < 224 -> <<b % 32, 1>>     [] b < 240 -> <<b % 16, 2>>
             [] b < 248 -> <<b % 8, 3>>      [] b < 252 -> <<b % 4, 4>>
             [] OTHER   -> <<b % 4, 5>>
Continues(b) == b \in 128 .. 191
Shift(ch, octets) == FoldLeft(LAMBDA c, b : c * 64 + (b % 64), ch, octets)

(* One character: taken octets n, element ch and new state, or why not. *)
Char(n, ch, s) == [r |-> "ok", n |-> n, ch |-> ch, st |-> s]
Bad == [r |-> "error", n |-> 0, ch |-> 0, st |-> 0]
CutOff == [r |-> "short", n |-> 0, ch |-> 0, st |-> 0]

(* Mutant: the octets that follow are not looked at. *)
Utf8Char_AnyOctet(x) ==
    LET first == Lead(x[1])[1]  extra == Lead(x[1])[2]
    IN IF extra < 0 THEN Bad ELSE IF Len(x) < extra + 1 THEN CutOff
       ELSE LET ch == Shift(first, SubSeq(x, 2, extra + 1))
            IN IF ch > 1114111 THEN Bad ELSE Char(extra + 1, ch, 1)
Utf8Char(x) ==
    LET first == Lead(x[1])[1]  extra == Lead(x[1])[2]
    IN IF extra < 0 THEN Bad
       ELSE IF Len(x) < extra + 1 THEN CutOff
       ELSE IF \E i \in 2 .. extra + 1 : ~Continues(x[i]) THEN Bad
       ELSE LET ch == Shift(first, SubSeq(x, 2, extra + 1))
            IN IF ch > 1114111 THEN Bad ELSE Char(extra + 1, ch, 1)

Word(s, x) == IF s = 1 THEN x[2] * 256 + x[1] ELSE x[1] * 256 + x[2]
Utf16Char(s, x) ==
    LET w == Word(s, x)
    IN IF w < 55296 \/ w >= 56320 THEN Char(2, w, s)
       ELSE IF Len(x) < 4 THEN CutOff
       ELSE LET v == Word(s, Drop(x, 2))
            IN IF v < 56320 \/ v >= 57344 THEN Bad
               ELSE Char(4, (w - 55296 + 64) * 1024 + (v - 56320), s)

(* Mutant: the state forgets the second half of a pair. *)
PairChar_Forgets(s, x) ==
    LET first == Lead(x[1])[1]  extra == Lead(x[1])[2]
    IN IF extra < 0 \/ extra > 3 THEN Bad ELSE IF Len(x) < extra + 1 THEN CutOff
       ELSE LET ch == Shift(first, SubSeq(x, 2, extra + 1))
            IN IF ch > 65535 THEN Char(extra + 1, 55296 + (ch \div 1024) - 64, 1)
               ELSE Char(extra + 1, ch, 1)
(* codecvt_utf8_utf16: a character outside the BMP gives its first half    *)
(* from all octets but the last, and keeps the second half in the state.   *)
PairChar(s, x) ==
    IF s > 1 THEN IF Continues(x[1]) THEN Char(1, s + (x[1] % 64), 1) ELSE Bad
    ELSE LET first == Lead(x[1])[1]  extra == Lead(x[1])[2]
             skip == IF extra < 3 THEN 0 ELSE 1
             n == extra + 1 - skip
         IN IF extra < 0 THEN Bad
            ELSE IF Len(x) < n THEN CutOff
            ELSE IF \E i \in 2 .. n : ~Continues(x[i]) THEN Bad
            ELSE LET ch == Shift(first, SubSeq(x, 2, n)) * (IF skip = 1 THEN 64 ELSE 1)
                 IN IF ch > 1114111 THEN Bad
                    ELSE IF ch > 65535
                    THEN Char(n, 55296 + (ch \div 1024) - 64, 56320 + (ch % 1024))
                    ELSE IF skip = 0 THEN Char(n, ch, 1)
                    ELSE IF Len(x) = n THEN CutOff
                    ELSE IF ~Continues(x[n + 1]) THEN Bad
                    ELSE Char(n + 1, ch + (x[n + 1] % 64), 1)

(* The external facet of a locale: one octet for ASCII, a table for more.  *)
LocalChar(x) ==
    IF x[1] < 128 THEN Char(1, x[1], 0)
    ELSE IF \E c \in DOMAIN Local : IsPrefix(Local[c], x)
    THEN LET c == CHOOSE c \in DOMAIN Local : IsPrefix(Local[c], x) IN Char(Len(Local[c]), c, 0)
    ELSE IF \E c \in DOMAIN Local : IsPrefix(x, Local[c]) THEN CutOff ELSE Bad

NextChar(f, s, x) == CASE f = "utf8" -> Utf8Char(x)     [] f = "utf16" -> Utf16Char(s, x)
                       [] f = "utf8_utf16" -> PairChar(s, x) [] f = "local" -> LocalChar(x)

-----------------------------------------------------------------------------
(* do_in: from octets x to at most room elements *)

Width(f) == IF f = "utf16" THEN 2 ELSE 1
RECURSIVE InLoop(_, _, _, _)
InLoop(f, s, x, room) ==
    IF Len(x) < Width(f) \/ room = 0 THEN [res |-> "stop", used |-> 0, out |-> <<>>, st |-> s]
    ELSE LET c == NextChar(f, s, x)
         IN IF c.r # "ok" THEN [res |-> c.r, used |-> 0, out |-> <<>>, st |-> s]
            ELSE LET rest == InLoop(f, c.st, Drop(x, c.n), room - 1)
                 IN [rest EXCEPT !.used = @ + c.n, !.out = <<c.ch>> \o @]

(* Mutant: _First1 is moved to the incomplete character by every facet. *)
Result_Moved(f, l) ==
    [l EXCEPT !.res = IF l.res = "error" THEN "error"
                      ELSE IF l.used = 0 \/ l.res = "short" THEN "partial" ELSE "ok"]
(* partial: nothing was taken, or (_First1 being moved) nothing since the  *)
(* last character began.                                                   *)
Result(f, l) ==
    [l EXCEPT !.res = IF l.res = "error" THEN "error"
                      ELSE IF l.used = 0 \/ (f = "utf8_utf16" /\ l.res = "short") THEN "partial"
                      ELSE "ok"]

Endian(f, mode, s) == IF f = "utf16" /\ s = 0 THEN (IF "little" \in mode THEN 1 ELSE 2) ELSE s

(* Mutant: the header is dropped again at the beginning of every call. *)
In_EveryCall(f, mode, s, x, room) ==
    LET e == Endian(f, mode, s)
        c == IF Len(x) >= Width(f) /\ room > 0 THEN NextChar(f, e, x) ELSE CutOff
    IN IF "consume" \in mode /\ c.r = "ok" /\ c.ch = Header
       THEN LET l == Result(f, InLoop(f, c.st, Drop(x, c.n), room)) IN [l EXCEPT !.used = @ + c.n]
       ELSE Result(f, InLoop(f, e, x, room))
In(f, mode, s, x, room) ==
    LET e == Endian(f, mode, s)
        ready == Len(x) >= Width(f) /\ room > 0
        c == IF ready THEN NextChar(f, e, x) ELSE CutOff
        swapped == f = "utf16" /\ c.ch = 65534
    IN IF s = 0 /\ "consume" \in mode /\ c.r = "ok" /\ (c.ch = Header \/ swapped)
       THEN LET l == Result(f, InLoop(f, IF swapped THEN 3 - e ELSE c.st, Drop(x, c.n), room))
            IN IF l.res = "partial" THEN [l EXCEPT !.used = 0, !.st = 0]   \* rolled back
               ELSE [l EXCEPT !.used = @ + c.n]
       ELSE Result(f, InLoop(f, IF ready THEN e ELSE s, x, room))

-----------------------------------------------------------------------------
(* do_out: from elements x to at most room octets *)

Cont(ch, n) == [i \in 1 .. n |-> 128 + ((ch \div (64 ^ (n - i))) % 64)]
Utf8Octets(ch) ==
    CASE ch < 128   -> <<ch>>
      [] ch < 2048  -> <<192 + ch \div 64>> \o Cont(ch, 1)
      [] ch < 65536 -> <<224 + ch \div 4096>> \o Cont(ch, 2)
      [] OTHER      -> <<240 + ch \div 262144>> \o Cont(ch, 3)
Octets(s, w) == IF s = 1 THEN <<w % 256, w \div 256>> ELSE <<w \div 256, w % 256>>
Halves(ch) == IF ch < 65536 THEN <<ch>>
              ELSE <<55296 + (ch \div 1024) - 64, 56320 + (ch % 1024)>>
Utf16Octets(s, ch) == FlattenSeq([i \in DOMAIN Halves(ch) |-> Octets(s, Halves(ch)[i])])

(* The first half gives the first octet, the second half the three others. *)
PairOut(s, w) ==
    IF s > 1 THEN IF w \notin 56320 .. 57343 THEN Bad
                  ELSE Char(0, Cont(s * 1024 + (w - 56320), 3), 1)
    ELSE IF w \in 55296 .. 56319
    THEN LET ch == (w - 55296 + 64) * 1024 IN Char(0, <<240 + ch \div 262144>>, ch \div 1024)
    ELSE Char(0, Utf8Octets(w), 1)

OutChar(f, s, ch) ==
    CASE f = "utf8" -> IF ch > 1114111 THEN Bad ELSE Char(0, Utf8Octets(ch), s)
      [] f = "utf16" -> IF ch > 1114111 \/ ch \in 55296 .. 56319 THEN Bad
                        ELSE Char(0, Utf16Octets(s, ch), s)
      [] f = "utf8_utf16" -> PairOut(s, ch)
      [] f = "local" -> IF ch < 128 THEN Char(0, <<ch>>, 0)
                        ELSE IF ch \in DOMAIN Local THEN Char(0, Local[ch], 0) ELSE Bad

(* The room is tested before the character: with a full buffer an          *)
(* unencodable character is met by the next call only.                     *)
RECURSIVE OutLoop(_, _, _, _)
OutLoop(f, s, x, room) ==
    IF x = <<>> \/ room < Width(f) THEN [res |-> "stop", used |-> 0, out |-> <<>>, st |-> s]
    ELSE LET c == OutChar(f, s, x[1])
         IN IF c.r = "error" \/ Len(c.ch) > room
            THEN [res |-> IF c.r = "error" THEN "error" ELSE "stop",
                  used |-> 0, out |-> <<>>, st |-> s]
            ELSE LET rest == OutLoop(f, c.st, Tail(x), room - Len(c.ch))
                 IN [rest EXCEPT !.used = @ + 1, !.out = c.ch \o @]

HeaderOctets(f, e) == IF f = "utf16" THEN Octets(e, Header) ELSE Utf8Octets(Header)
(* The room the facet wants before it writes the header. *)
HeaderRoom(f, e, x) ==
    IF f = "utf16" THEN 6 ELSE 3 + Len(OutChar(f, e, x[1]).ch)

(* A header for which there is no room is only asked for once by the first *)
(* two facets: their state has changed already.  The UTF-16 facet writes   *)
(* it before it looks at any character, the others after they have seen    *)
(* that the first one can be encoded.                                      *)
Out(f, mode, s, x, room) ==
    LET first == s = 0 /\ "generate" \in mode /\ f # "local" /\ x # <<>>
        e == IF f = "utf16" THEN Endian(f, mode, s) ELSE IF f = "utf8" THEN 1 ELSE s
        early == first /\ (f = "utf16" \/ OutChar(f, e, x[1]).r = "ok")
    IN IF early /\ room < HeaderRoom(f, e, x)
       THEN [res |-> "partial", used |-> 0, out |-> <<>>, st |-> IF f = "utf8_utf16" THEN s ELSE e]
       ELSE LET h == IF early THEN HeaderOctets(f, e) ELSE <<>>
                l == Result(f, OutLoop(f, e, x, room - Len(h)))
            IN [l EXCEPT !.out = h \o @]

-----------------------------------------------------------------------------
(* The drivers *)

Stage == Head(job.stages)
Fresh(driver) == CASE driver = "to" -> ByteInc [] driver = "from" -> WideInc
                   [] driver = "put" -> 8 [] OTHER -> 0

Init ==
    /\ job \in Jobs
    /\ in = job.input /\ pos = 0 /\ out = <<>> /\ st = 0
    /\ buf = Fresh(Head(job.stages).driver)
    /\ status = "run"

(* range_error, caught once by the functions that retry.  A second one     *)
(* leaves a noexcept function.                                             *)
Throw ==
    \/ /\ job.retry = 1
       /\ job' = [job EXCEPT !.retry = 2]
       /\ in' = SubSeq(in, 1, pos) /\ pos' = 0 /\ out' = <<>> /\ st' = 0
       /\ buf' = Fresh(Stage.driver) /\ status' = "run"
    \/ /\ job.retry # 1
       /\ status' = (IF job.retry = 2 THEN "terminated" ELSE "threw")
       /\ UNCHANGED <<job, in, pos, out, st, buf>>

(* Mutant: converted() counts what an erroneous call has taken. *)
Piece_CountsBad(r, inc, max) ==
    \/ /\ r.res # "error" /\ (r.out # <<>> \/ buf < max)
       /\ pos' = pos + r.used /\ out' = out \o r.out /\ st' = r.st
       /\ buf' = (IF r.out = <<>> THEN buf + inc ELSE buf)
       /\ UNCHANGED <<job, in, status>>
    \/ /\ r.res = "error" \/ (r.out = <<>> /\ buf >= max)
       /\ \/ /\ job.retry = 1
             /\ job' = [job EXCEPT !.retry = 2]
             /\ in' = SubSeq(in, 1, pos + r.used + 1) /\ pos' = 0 /\ out' = <<>> /\ st' = 0
             /\ buf' = Fresh(Stage.driver) /\ status' = "run"
          \/ /\ job.retry # 1
             /\ status' = (IF job.retry = 2 THEN "terminated" ELSE "threw")
             /\ UNCHANGED <<job, in, pos, out, st, buf>>
(* One round of from_bytes or to_bytes: what a call yields is appended; a  *)
(* call that yields nothing makes the buffer larger, once.                 *)
Piece(r, inc, max) ==
    \/ /\ r.res # "error" /\ (r.out # <<>> \/ buf < max)
       /\ pos' = pos + r.used /\ out' = out \o r.out /\ st' = r.st
       /\ buf' = (IF r.out = <<>> THEN buf + inc ELSE buf)
       /\ UNCHANGED <<job, in, status>>
    \/ (r.res = "error" \/ (r.out = <<>> /\ buf >= max)) /\ Throw

FromBytes ==
    /\ status = "run" /\ Stage.driver = "from" /\ pos < Len(in)
    /\ \E r \in {In(Stage.facet, Stage.mode, st, Drop(in, pos), buf)} : Piece(r, WideInc, WideMax)

ToBytes ==
    /\ status = "run" /\ Stage.driver = "to" /\ pos < Len(in)
    /\ \E r \in {Out(Stage.facet, Stage.mode, st, Drop(in, pos), buf)} : Piece(r, ByteInc, ByteMax)

(* overflow: one element, with 8 octets of room and 8 more up to 32. *)
Overflow ==
    /\ status = "run" /\ Stage.driver = "put" /\ pos < Len(in)
    /\ \E r \in {Out(Stage.facet, Stage.mode, st, <<in[pos + 1]>>, buf)} :
          \/ /\ r.res # "error" /\ (r.out # <<>> \/ buf < 32)
             /\ pos' = pos + r.used /\ out' = out \o r.out /\ st' = r.st
             /\ buf' = (IF r.out = <<>> THEN buf + 8 ELSE buf)
             /\ UNCHANGED <<job, in, status>>
          \/ (r.res = "error" \/ (r.out = <<>> /\ buf >= 32)) /\ Throw

(* _Get_elem: one octet more, then the facet is asked for one element.     *)
(* buf counts the octets of _Str, which end at pos.  At the end of the     *)
(* stream what is left of an incomplete character is given up.             *)
GetElem ==
    /\ status = "run" /\ Stage.driver = "get" /\ pos < Len(in)
    /\ \E r \in {In(Stage.facet, Stage.mode, st, SubSeq(in, pos - buf + 1, pos + 1), 1)} :
          \/ /\ r.res # "error"
             /\ pos' = pos + 1 /\ buf' = buf + 1 - r.used
             /\ out' = out \o r.out /\ st' = r.st
             /\ UNCHANGED <<job, in, status>>
          \/ r.res = "error" /\ Throw

(* The whole input has been taken: the next stage has this one's output.   *)
NextStage ==
    /\ status = "run" /\ pos = Len(in)
    /\ IF Len(job.stages) = 1
       THEN status' = "done" /\ UNCHANGED <<job, in, pos, out, st, buf>>
       ELSE /\ job' = [job EXCEPT !.stages = Tail(@), !.retry = IF @ = 0 THEN 0 ELSE 1,
                                  !.middle = out]
            /\ in' = out /\ pos' = 0 /\ out' = <<>> /\ st' = 0
            /\ buf' = Fresh(job.stages[2].driver)
            /\ UNCHANGED status

Next == FromBytes \/ ToBytes \/ Overflow \/ GetElem \/ NextStage

Spec == Init /\ [][Next]_vars

-----------------------------------------------------------------------------
(* Round trips: the text, less a header that is dropped, plus one that is  *)
(* made and not dropped.                                                   *)
Expected ==
    LET made == IF "generate" \in job.mode /\ job.input # <<>> THEN <<Header>> ELSE <<>>
        all == made \o job.input
    IN IF "consume" \in job.mode /\ all # <<>> /\ all[1] = Header THEN Tail(all) ELSE all

(* Writing a text with any facet, mode and driver and reading it back with *)
(* the same gives the text: wherever the buffers cut it, the state carries *)
(* half characters and headers over the cut.  Nothing is thrown, but for a *)
(* text that is a header alone, which is never seen as complete.           *)
RoundTrip ==
    job.retry = 0 =>
      /\ status = "done" => out = Expected
      /\ status = "threw" => Expected = <<>> /\ job.middle # <<>>

(* The functions that convert up to the bad character are noexcept: their  *)
(* second attempt, on what the first reports as converted, must not throw. *)
NeverTerminates == status # "terminated"

(* What they return is the beginning of the text, not something else: the  *)
(* characters made from UTF-8 spell the octets they were made from, and    *)
(* these are the first ones of the input.                                  *)
SpellsPrefix ==
    (job.retry # 0 /\ status = "done" /\ job.middle # <<>> /\ job.first = "utf8") =>
      LET spelled == FlattenSeq([i \in DOMAIN job.middle |-> Utf8Octets(job.middle[i])])
      IN \/ IsPrefix(spelled, job.input)
         \/ "consume" \in job.mode /\ IsPrefix(Utf8Octets(Header) \o spelled, job.input)

(* wstring_convert comes to an end: a call takes something of the input,   *)
(* or makes the buffer larger, or is the last.                             *)
EveryCallMoves ==
    [][(status' = "run" /\ job' = job) => pos' > pos \/ buf' > buf]_vars
=============================================================================
