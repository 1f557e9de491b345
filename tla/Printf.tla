------------------------------- MODULE Printf -------------------------------
(***************************************************************************)
(* printf: the loop of cnprintf over a format, its parser of               *)
(* %[flags][width][length]specifier, and the conversion of numbers, which  *)
(* all share the twelve bytes of bf.  A format is given as a sequence of   *)
(* items, which the code does not see: it sees their text.                 *)
(***************************************************************************)
EXTENDS Integers, Sequences, SequencesExt

CONSTANTS
    Alphabet, \* characters of texts and strings
    Formats,  \* sequences of items: [text] or [flag, width, length, spec, arg]
    UINT,     \* unsigned int has the values below UINT
    BF_SIZE,  \* bytes of bf
    SIZE      \* characters of a format that printf looks at

ASSUME PrintfAssumption ==
    /\ UINT \in Nat /\ UINT % 2 = 0 /\ UINT >= 32 /\ {BF_SIZE, SIZE} \subseteq Nat \ {0}
    /\ "%" \notin Alphabet /\ "NUL" \notin Alphabet

VARIABLES
    items,  \* history: the format as its caller means it
    fmt,    \* the characters of the format
    p,      \* the next one to look at
    va,     \* the arguments not yet taken
    bf,     \* the string in bf, without its NUL
    out     \* the characters passed to cb

pvars == <<items, fmt, p, va, bf, out>>

NUL == "NUL"
Uninitialised == <<"?">>
DigitChars == <<"0", "1", "2", "3", "4", "5", "6", "7", "8", "9", "A", "B", "C", "D", "E", "F">>
Decimals == {DigitChars[i] : i \in 1..10}

IsText(item) == "text" \in DOMAIN item
Chars(item) == IF IsText(item) THEN <<item.text>>
               ELSE <<"%">> \o item.flag \o item.width \o item.length \o <<item.spec>>
Args(item) == IF IsText(item) \/ item.spec = "%" THEN <<>> ELSE <<item.arg>>

Conversion(specs, args) ==
    [flag : {<<>>, <<"+">>, <<"-">>, <<" ">>, <<"#">>, <<"0">>}, width : Seq(Decimals),
     length : {<<>>, <<"h">>, <<"h", "h">>, <<"l">>, <<"l", "l">>}, spec : specs, arg : args]

IsItem(item) ==
    \/ item \in [text : Alphabet]
    \/ item \in Conversion({"d", "i", "u", "x"}, 0..(UINT - 1))
    \/ item \in Conversion({"c"}, Alphabet)
    \/ item \in Conversion({"s"}, Seq(Alphabet))
    \/ item \in Conversion({"%"}, {0})

(* "%%" and long long are left out: see NoSpecifier and LongNumber. *)
Supported(item) == IsText(item) \/ (item.spec # "%" /\ item.length # <<"l", "l">>)

(* Behind "%%" or a long long the arguments are no longer those of their
   conversions, and what the code takes for them is undefined. *)
ASSUME FormatsAssumption ==
    \A f \in Formats :
        /\ Len(f) \in Nat /\ DOMAIN f = 1..Len(f)
        /\ \A i \in DOMAIN f : IsItem(f[i]) /\ (i < Len(f) => Supported(f[i]))

(* The text of a number, from its last digit on. *)
Numeral(v, base) ==
    LET f[n \in Nat] == IF n < base THEN <<DigitChars[n + 1]>>
                        ELSE Append(f[n \div base], DigitChars[(n % base) + 1])
    IN  IF v < 0 THEN <<"-">> \o f[-v] ELSE f[v]

(* bf has room for the longest number of each conversion, and its NUL. *)
ASSUME BufferAssumption ==
    /\ Len(Numeral(UINT - 1, 10)) < BF_SIZE /\ Len(Numeral(-(UINT \div 2), 10)) < BF_SIZE
    /\ 2 + Len(Numeral(-(UINT \div 2), 16)) < BF_SIZE

-----------------------------------------------------------------------------
(* The parser: each function takes the position of its part of the format to
   the position behind it.  Flags and width are read and have no effect. *)
At(i) == IF i <= Len(fmt) THEN fmt[i] ELSE NUL

fmt_flags(i) == IF At(i) \in {"+", "-", " ", "#", "0"} THEN i + 1 ELSE i

fmt_width(i) ==
    CHOOSE j \in i..(Len(fmt) + 1) :
        At(j) \notin Decimals /\ \A k \in i..(j - 1) : At(k) \in Decimals

fmt_length(i) ==
    IF At(i) \notin {"h", "l"} THEN i ELSE IF At(i + 1) = At(i) THEN i + 2 ELSE i + 1

Length == fmt_width(fmt_flags(p + 1))
LongLong == At(Length) = "l" /\ At(Length + 1) = "l"
Specifier == fmt_length(Length)

-----------------------------------------------------------------------------
(* ui2a: the largest power of the base that num reaches, then its digits from
   there down; s is the loop's d, what is left of num, and whether n > 0. *)
Power(num, base) ==
    LET d[k \in 1..(UINT - 1)] == IF num \div k >= base THEN d[(k * base) % UINT] ELSE k
    IN  d[1]

ui2a(num, base) ==
    LET digits[s \in Nat \X Nat \X BOOLEAN] ==
            LET d == s[1]
                dgt == s[2] \div d
                shown == s[3] \/ dgt > 0 \/ d \div base = 0
            IN  IF d = 0 THEN <<>>
                ELSE (IF shown THEN <<DigitChars[dgt + 1]>> ELSE <<>>)
                     \o digits[<<d \div base, s[2] - dgt * d, shown>>]
    IN  digits[<<Power(num, base), num, FALSE>>]

i2a(num, base) == IF num < 0 THEN <<"-">> \o ui2a(-num, base) ELSE ui2a(num, base)

(* An argument is the value of its bits as an unsigned int. *)
Signed(v) == IF v >= UINT \div 2 THEN v - UINT ELSE v

(* Faulty variant: the base of the decimal conversions. *)
NumberTextDecimal(spec, v) ==
    CASE spec = "u" -> ui2a(v, 10)
      [] spec \in {"d", "i"} -> i2a(Signed(v), 10)
      [] spec = "x" -> <<"0", "x">> \o i2a(Signed(v), 10)

NumberText(spec, v) ==
    CASE spec = "u" -> ui2a(v, 10)
      [] spec \in {"d", "i"} -> i2a(Signed(v), 10)
      [] spec = "x" -> <<"0", "x">> \o i2a(Signed(v), 16)

-----------------------------------------------------------------------------
Init ==
    /\ items \in Formats
    /\ fmt = FlattenSeq([i \in DOMAIN items |-> Chars(items[i])])
    /\ va = FlattenSeq([i \in DOMAIN items |-> Args(items[i])])
    /\ p = 1 /\ bf = Uninitialised /\ out = <<>>

InFormat == p <= Len(fmt) /\ p <= SIZE

Literal ==
    /\ InFormat /\ fmt[p] # "%"
    /\ out' = Append(out, fmt[p]) /\ p' = p + 1
    /\ UNCHANGED <<items, fmt, va, bf>>

(* A conversion with one of these specifiers, up to the output of bf. *)
Converts(specs) ==
    /\ InFormat /\ fmt[p] = "%" /\ At(Specifier) \in specs
    /\ p' = Specifier + 1
    /\ UNCHANGED <<items, fmt>>

Number ==
    /\ Converts({"d", "i", "u", "x"}) /\ ~LongLong
    /\ bf' = NumberText(At(Specifier), Head(va))
    /\ va' = Tail(va) /\ out' = out \o bf'

(* long long is not converted, and its argument is not taken. *)
LongNumber ==
    /\ Converts({"d", "i", "u", "x"}) /\ LongLong
    /\ bf' = <<"N", "a", "N">>
    /\ va' = va /\ out' = out \o bf'

Char ==
    /\ Converts({"c"})
    /\ bf' = <<Head(va)>> /\ va' = Tail(va) /\ out' = out \o bf'

(* Faulty variant: bf keeps the text of the conversion before. *)
StringKeeps ==
    /\ Converts({"s"})
    /\ bf' = bf /\ va' = Tail(va) /\ out' = out \o Head(va) \o bf'

String ==
    /\ Converts({"s"})
    /\ bf' = <<>> /\ va' = Tail(va) /\ out' = out \o Head(va) \o bf'

(* No specifier: the output is what bf holds, and the character that is none
   is looked at again. *)
NoSpecifier ==
    /\ InFormat /\ fmt[p] = "%"
    /\ At(Specifier) \notin {"d", "i", "u", "x", "c", "s"}
    /\ p' = Specifier /\ out' = out \o bf
    /\ UNCHANGED <<items, fmt, va, bf>>

Next == Literal \/ Number \/ LongNumber \/ Char \/ String \/ NoSpecifier

Spec == Init /\ [][Next]_pvars

-----------------------------------------------------------------------------
Meaning(item) ==
    CASE IsText(item) -> <<item.text>>
      [] ~IsText(item) /\ item.spec = "s" -> item.arg
      [] ~IsText(item) /\ item.spec = "c" -> <<item.arg>>
      [] ~IsText(item) /\ item.spec = "u" -> Numeral(item.arg, 10)
      [] ~IsText(item) /\ item.spec \in {"d", "i"} -> Numeral(Signed(item.arg), 10)
      [] ~IsText(item) /\ item.spec = "x" -> <<"0", "x">> \o Numeral(Signed(item.arg), 16)

(* printf writes the text of every item and of its own argument, in order: no
   part of a conversion is taken for text or the reverse, and nothing that an
   earlier conversion left in bf appears again. *)
PrintsFormat ==
    ~InFormat /\ Len(fmt) <= SIZE /\ (\A i \in DOMAIN items : Supported(items[i]))
        => out = FlattenSeq([i \in DOMAIN items |-> Meaning(items[i])])

(* No conversion writes past the end of bf, whose last byte is the NUL of the
   longest number. *)
FitsBuffer == Len(bf) < BF_SIZE
=============================================================================
