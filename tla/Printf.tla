------------------------------- MODULE Printf --------------------------------
(***************************************************************************)
(* Console::vprintf of hw10/user/lib/console.cc (kern/src/console.cc is    *)
(* the same text), from a format and its arguments to the characters it    *)
(* puts, and, at the end, what the C standard says of the same call.       *)
(* Characters are one-letter strings; a word has Word values (2^32) and a  *)
(* long long is two words, the low one first.                              *)
(***************************************************************************)
EXTENDS Integers, Sequences, SequencesExt

CONSTANTS
    Word,       \* values of a word: 2^32, an even number above 1
    Null,       \* the null pointer as an argument of %s
    Chars       \* the characters

Digits == <<"0", "1", "2", "3", "4", "5", "6", "7",
            "8", "9", "a", "b", "c", "d", "e", "f">>

ASSUME PrintfAssumption ==
    /\ Word \in Nat /\ Word > 1 /\ Word % 2 = 0
    /\ {Digits[k] : k \in 1 .. 16} \cup {"-", "x", " ", "%", "#", ".", "l"} \subseteq Chars

Texts == Seq(Chars)

DigitValue == [c \in {Digits[k] : k \in 1 .. 10} |->
                  (CHOOSE k \in 1 .. 10 : Digits[k] = c) - 1]

DigitsOf(val, base) ==
    LET digits[n \in Nat] ==
            IF n < base THEN <<Digits[n + 1]>>
            ELSE Append(digits[n \div base], Digits[(n % base) + 1])
    IN  digits[val]

Pad(c, n) == IF n > 0 THEN [k \in 1 .. n |-> c] ELSE <<>>

\* Mutant: the prefix does not count for the width.
print_number_NarrowAlt(val, base, width, signed, zero, alt) ==
    LET neg    == signed /\ val >= (Word * Word) \div 2
        digits == DigitsOf(IF neg THEN Word * Word - val ELSE val, base)
        number == IF neg THEN <<"-">> \o digits ELSE digits
        prefix == IF alt THEN <<"0", "x">> ELSE <<>>
        count  == width - Len(number)
    IN  IF zero THEN prefix \o Pad("0", count) \o number
                ELSE Pad(" ", count) \o prefix \o number

\* val is a uint64.  The sign is one of the characters that zeros go before.
print_number(val, base, width, signed, zero, alt) ==
    LET neg    == signed /\ val >= (Word * Word) \div 2
        digits == DigitsOf(IF neg THEN Word * Word - val ELSE val, base)
        number == IF neg THEN <<"-">> \o digits ELSE digits
        prefix == IF alt THEN <<"0", "x">> ELSE <<>>
        count  == width - Len(number) - Len(prefix)
    IN  IF zero THEN prefix \o Pad("0", count) \o number
                ELSE Pad(" ", count) \o prefix \o number

\* Padded on the right; a precision of 0 is none.
print_str(s, width, precs) ==
    IF s = Null THEN <<>>
    ELSE LET shown == IF precs = 0 \/ precs > Len(s)
                      THEN s ELSE SubSeq(s, 1, precs)
         IN  shown \o Pad(" ", width - Len(shown))

\* The state between two characters of the format: mode is "text" outside a
\* conversion.
Start(args) == [mode |-> "text", zero |-> FALSE, alt |-> FALSE, width |-> 0,
                precs |-> 0, len |-> 0, args |-> args, out |-> <<>>]

\* The conversion ends: it puts text and has taken n words of arguments.
Converted(st, text, n) ==
    [Start(SubSeq(st.args, n + 1, Len(st.args))) EXCEPT !.out = st.out \o text]

TextChar(st, c) ==
    IF c = "%" THEN [st EXCEPT !.mode = "flags"]
               ELSE [st EXCEPT !.out = Append(@, c)]

DigitChar(st, d) ==
    CASE st.mode = "flags" /\ d = 0 -> [st EXCEPT !.zero = TRUE]
      [] st.mode = "precs" -> [st EXCEPT !.precs = @ * 10 + d]
      [] OTHER -> [st EXCEPT !.mode = "width", !.width = @ * 10 + d]

Words(st) == IF st.len <= 1 THEN 1 ELSE 2       \* long is one word

SignExtend(w) == IF 2 * w >= Word THEN w + Word * Word - Word ELSE w

Unsigned(st) ==
    IF Words(st) = 1 THEN st.args[1] ELSE st.args[1] + Word * st.args[2]

Signed(st) == IF Words(st) = 1 THEN SignExtend(st.args[1]) ELSE Unsigned(st)

SpecChar(st, c) ==
    CASE c \in DOMAIN DigitValue -> DigitChar(st, DigitValue[c])
      [] c = "." -> [st EXCEPT !.mode = "precs"]
      [] c = "#" -> [st EXCEPT !.alt = @ \/ st.mode = "flags"]
      [] c = "l" -> [st EXCEPT !.len = @ + 1]
      [] c = "c" -> Converted(st, <<st.args[1]>>, 1)
      [] c = "s" -> Converted(st, print_str(st.args[1], st.width, st.precs), 1)
      [] c = "d" -> Converted(st, print_number(Signed(st), 10, st.width, TRUE,
                                               st.zero, st.alt), Words(st))
      [] c = "u" -> Converted(st, print_number(Unsigned(st), 10, st.width,
                                         FALSE, st.zero, st.alt), Words(st))
      [] c = "x" -> Converted(st, print_number(Unsigned(st), 16, st.width,
                                         FALSE, st.zero, st.alt), Words(st))
      [] c = "p" -> Converted(st, print_number(st.args[1], 16, st.width,
                                               FALSE, FALSE, TRUE), 1)
      [] OTHER   -> Converted(st, <<c>>, 0)

NextChar(st, c) ==
    IF st.mode = "text" THEN TextChar(st, c) ELSE SpecChar(st, c)

\* A format that ends inside a conversion puts its last character.
vprintf(format, args) ==
    LET upTo[n \in 0 .. Len(format)] ==
            IF n = 0 THEN Start(args) ELSE NextChar(upTo[n - 1], format[n])
        st == upTo[Len(format)]
    IN  IF st.mode = "text" THEN st.out ELSE Append(st.out, Last(format))
-----------------------------------------------------------------------------
(* One conversion as C describes it: flags, width, precision, number of l, *)
(* conversion character and argument words.                                *)

\* A conversion with the arguments it takes: numbers are words, a long long is
\* two.
IsSpec(sp) ==
    /\ sp.alt \in BOOLEAN /\ sp.zero \in BOOLEAN /\ sp.width \in Nat
    /\ sp.precs \in Nat /\ sp.len \in 0 .. 2 /\ sp.conv \in Chars
    /\ sp.conv \in {"d", "u", "x"} =>
            sp.args \in [1 .. (IF sp.len = 2 THEN 2 ELSE 1) -> 0 .. Word - 1]
    /\ sp.conv = "p" => sp.args \in [1 .. 1 -> 0 .. Word - 1]
    /\ sp.conv = "s" => sp.args \in [1 .. 1 -> {Null} \cup Texts]
    /\ sp.conv = "c" => sp.args \in [1 .. 1 -> Chars]

SpecText(sp) ==
    <<"%">> \o (IF sp.alt THEN <<"#">> ELSE <<>>)
            \o (IF sp.zero THEN <<"0">> ELSE <<>>)
            \o (IF sp.width > 0 THEN DigitsOf(sp.width, 10) ELSE <<>>)
            \o (IF sp.precs > 0 THEN <<".">> \o DigitsOf(sp.precs, 10) ELSE <<>>)
            \o Pad("l", sp.len) \o <<sp.conv>>

\* The value of the argument as a number of one or two words.
ValueOf(sp) ==
    LET raw  == IF sp.len = 2 THEN sp.args[1] + Word * sp.args[2] ELSE sp.args[1]
        size == IF sp.len = 2 THEN Word * Word ELSE Word
    IN  IF sp.conv = "d" /\ 2 * raw >= size THEN raw - size ELSE raw

\* Where this printf promises what C does: no precision but for a string, no
\* # but before x and a value that is not 0, and nothing to be padded with
\* zeros behind a sign or with blanks before a string or a character.
Standard(sp) ==
    IF sp.conv \in {"d", "u", "x"}
    THEN /\ sp.precs = 0
         /\ sp.alt => sp.conv = "x" /\ ValueOf(sp) # 0
         /\ sp.zero => ValueOf(sp) >= 0
    ELSE /\ sp.conv \in {"s", "c"}
         /\ ~ sp.zero /\ ~ sp.alt /\ sp.width = 0 /\ sp.len = 0
         /\ sp.conv = "s" => sp.args[1] # Null

\* C's result: a number is sign, prefix and digits, with zeros between prefix
\* and digits or blanks before everything up to the width.
Magnitude(sp) == IF ValueOf(sp) < 0 THEN -ValueOf(sp) ELSE ValueOf(sp)

CNumber(sp) ==
    LET digits == DigitsOf(Magnitude(sp), IF sp.conv = "x" THEN 16 ELSE 10)
        front  == IF ValueOf(sp) < 0 THEN <<"-">>
                  ELSE IF sp.alt THEN <<"0", "x">> ELSE <<>>
        fill   == sp.width - Len(front) - Len(digits)
    IN  IF sp.zero THEN front \o Pad("0", fill) \o digits
                   ELSE Pad(" ", fill) \o front \o digits

CText(sp) ==
    CASE sp.conv = "c" -> sp.args
      [] sp.conv = "s" -> LET s == sp.args[1] IN
                          SubSeq(s, 1, IF sp.precs = 0 \/ sp.precs > Len(s)
                                       THEN Len(s) ELSE sp.precs)
      [] OTHER -> CNumber(sp)
=============================================================================
