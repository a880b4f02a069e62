------------------------------- MODULE Formats -------------------------------
(***************************************************************************)
(* Formatted output and the input of lines: lib/printfmt.c, lib/printf.c,  *)
(* kern/printf.c, lib/readline.c, and the conversions between numbers and  *)
(* strings of lib/string.c.                                                *)
(*                                                                         *)
(* A text is a sequence of characters.  A place of an argument list holds  *)
(* whatever the conversion takes it for: n is its value as a word, c as a  *)
(* character, s as a string.                                               *)
(***************************************************************************)
EXTENDS Integers, Sequences, SequencesExt

CONSTANTS NULL,
          WordBits,       \* of an int
          MAXERROR, error_string,
          PrintBuf,       \* the size of the buffer of a user's cprintf
          BUFLEN

Word == 2 ^ WordBits
Signed(w) == IF w >= Word \div 2 THEN w - Word ELSE w

NUL == "NUL"
E_INVAL == -3
Digit == <<"0", "1", "2", "3", "4", "5", "6", "7", "8", "9", "a", "b", "c", "d", "e", "f">>
DigitChars == Range(Digit)
DigitOf(ch) == (CHOOSE k \in DOMAIN Digit : Digit[k] = ch) - 1
Decimal(ch) == ch \in DigitChars /\ DigitOf(ch) < 10

\* Characters that are not between ' ' and '~'.
Control == {"tab", "newline", "backspace"}

Times(ch, n) == IF n <= 0 THEN << >> ELSE [k \in 1 .. n |-> ch]

-----------------------------------------------------------------------------
(***************************************************************************)
(* printfmt.                                                               *)
(***************************************************************************)
\* Mutant: the width is not used up by the digits.
RECURSIVE WidthOfFirst(_, _, _, _)
WidthOfFirst(num, base, width, padc) ==
    (IF num >= base THEN WidthOfFirst(num \div base, base, width, padc)
     ELSE Times(padc, width - 1)) \o <<Digit[(num % base) + 1]>>

RECURSIVE printnum(_, _, _, _)
printnum(num, base, width, padc) ==
    (IF num >= base THEN printnum(num \div base, base, width - 1, padc)
     ELSE Times(padc, width - 1)) \o <<Digit[(num % base) + 1]>>

\* A long long takes two places, the low word first.
WordsOf(lflag) == IF lflag >= 2 THEN 2 ELSE 1
getuint(args, lflag) ==
    IF lflag >= 2 THEN args[1].n + Word * args[2].n ELSE args[1].n
getint(args, lflag) ==
    IF lflag >= 2 THEN args[1].n + Word * Signed(args[2].n) ELSE Signed(args[1].n)

\* %s: the first precision characters, all when it is negative.
PrintString(s, f) ==
    LET n == IF f.precision < 0 THEN Len(s) ELSE Min({f.precision, Len(s)})
        shown == [k \in 1 .. n |-> IF f.altflag /\ s[k] \in Control THEN "?" ELSE s[k]]
    IN  IF f.padc = "-" THEN shown \o Times(" ", f.width - n)
        ELSE Times(f.padc, f.width - n) \o shown

PrintError(err) ==
    IF err > MAXERROR \/ err = 0
    THEN <<"error", " ">> \o printnum(err, 10, -1, " ")
    ELSE error_string[err]

PrintDecimal(num, f) ==
    IF num < 0 THEN <<"-">> \o printnum(-num, 10, f.width, f.padc)
    ELSE printnum(num, 10, f.width, f.padc)

Unknown(ch) == ch \notin {"c", "e", "s", "d", "u", "o", "p", "x", "%"}

\* The text of the conversion ch, and the number of arguments it takes.
Convert(ch, f, args) ==
    CASE ch = "c" -> <<args[1].c>>
      [] ch = "e" -> PrintError(IF Signed(args[1].n) < 0 THEN -Signed(args[1].n) ELSE args[1].n)
      [] ch = "s" -> PrintString(IF args[1].s = NULL THEN <<"(null)">> ELSE args[1].s, f)
      [] ch = "d" -> PrintDecimal(getint(args, f.lflag), f)
      [] ch = "u" -> printnum(getuint(args, f.lflag), 10, f.width, f.padc)
      [] ch = "x" -> printnum(getuint(args, f.lflag), 16, f.width, f.padc)
      [] ch = "p" -> <<"0", "x">> \o printnum(args[1].n, 16, f.width, f.padc)
      [] ch = "o" -> <<"X", "X", "X">>
      [] OTHER -> <<"%">>          \* %%, or an unknown conversion
Taken(ch, f) ==
    IF ch \in {"d", "u", "x"} THEN WordsOf(f.lflag)
    ELSE IF ch \in {"c", "e", "s", "p"} THEN 1 ELSE 0

\* process_precision: the first number of an escape is its width.
Sized(f, n) == IF f.width < 0 THEN [f EXCEPT !.width = n, !.precision = -1]
               ELSE [f EXCEPT !.precision = n]

CharAt(fmt, k) == IF k > Len(fmt) THEN NUL ELSE fmt[k]

\* The number that begins at k: its value and what is behind it.
RECURSIVE Number(_, _, _)
Number(fmt, k, n) ==
    IF Decimal(CharAt(fmt, k)) THEN Number(fmt, k + 1, n * 10 + DigitOf(fmt[k]))
    ELSE [value |-> n, behind |-> k]

\* reswitch: the flags, and the conversion at their end.
RECURSIVE Escape(_, _, _, _)
Escape(fmt, k, f, args) ==
    LET ch == CharAt(fmt, k)
    IN  CASE ch \in {"-", "0"} -> Escape(fmt, k + 1, [f EXCEPT !.padc = ch], args)
          [] Decimal(ch) /\ ch # "0" ->
               LET num == Number(fmt, k, 0)
               IN  Escape(fmt, num.behind, Sized(f, num.value), args)
          [] ch = "*" -> Escape(fmt, k + 1, Sized(f, Signed(args[1].n)), Tail(args))
          [] ch = "." -> Escape(fmt, k + 1, IF f.width < 0 THEN [f EXCEPT !.width = 0] ELSE f, args)
          [] ch = "#" -> Escape(fmt, k + 1, [f EXCEPT !.altflag = TRUE], args)
          [] ch = "l" -> Escape(fmt, k + 1, [f EXCEPT !.lflag = @ + 1], args)
          [] OTHER -> [ch |-> ch, f |-> f, args |-> args, behind |-> k + 1]

NoFlags == [padc |-> " ", width |-> -1, precision |-> -1, lflag |-> 0, altflag |-> FALSE]

\* Mutant: the text goes on behind an unknown conversion.
RECURSIVE SkipUnknown(_, _, _)
SkipUnknown(fmt, k, args) ==
    IF k > Len(fmt) THEN << >>
    ELSE IF fmt[k] # "%" THEN <<fmt[k]>> \o SkipUnknown(fmt, k + 1, args)
    ELSE LET e == Escape(fmt, k + 1, NoFlags, args)
             rest == SubSeq(e.args, Taken(e.ch, e.f) + 1, Len(e.args))
         IN  Convert(e.ch, e.f, e.args) \o SkipUnknown(fmt, e.behind, rest)

\* The text from the k-th character of the format on.  Behind an unknown
\* conversion the text goes on with the flags.
RECURSIVE vprintfmt(_, _, _)
vprintfmt(fmt, k, args) ==
    IF k > Len(fmt) THEN << >>
    ELSE IF fmt[k] # "%" THEN <<fmt[k]>> \o vprintfmt(fmt, k + 1, args)
    ELSE LET e == Escape(fmt, k + 1, NoFlags, args)
             rest == SubSeq(e.args, Taken(e.ch, e.f) + 1, Len(e.args))
         IN  Convert(e.ch, e.f, e.args)
               \o vprintfmt(fmt, IF Unknown(e.ch) THEN k + 1 ELSE e.behind, rest)

printfmt(fmt, args) == vprintfmt(fmt, 1, args)

-----------------------------------------------------------------------------
(***************************************************************************)
(* Where the characters go: a buffer of n characters, the system calls of  *)
(* a user program, the console of the kernel.                              *)
(***************************************************************************)
\* Mutant: no room is kept for the end of the string.
PutUpToEnd(b, ch, n) ==
    [buf |-> IF Len(b.buf) < n THEN Append(b.buf, ch) ELSE b.buf, cnt |-> b.cnt + 1]

sprintputch(b, ch, n) ==
    [buf |-> IF Len(b.buf) < n - 1 THEN Append(b.buf, ch) ELSE b.buf, cnt |-> b.cnt + 1]

vsnprintf(n, fmt, args) ==
    LET b == FoldLeft(LAMBDA x, ch : sprintputch(x, ch, n), [buf |-> << >>, cnt |-> 0],
                      printfmt(fmt, args))
    IN  [buf |-> Append(b.buf, NUL), ret |-> b.cnt]

snprintf(n, fmt, args) ==
    IF n < 1 THEN [buf |-> << >>, ret |-> -E_INVAL] ELSE vsnprintf(n, fmt, args)

\* Mutant: the buffer is not emptied when it is written.
KeepBuffer(b, ch) ==
    LET buf == Append(b.buf, ch)
    IN  [b EXCEPT !.buf = buf,
                  !.calls = IF Len(buf) = PrintBuf - 1 THEN Append(@, buf) ELSE @,
                  !.cnt = @ + 1]

putch(b, ch) ==
    LET buf == Append(b.buf, ch)
        full == Len(buf) = PrintBuf - 1
    IN  [b EXCEPT !.buf = IF full THEN << >> ELSE buf,
                  !.calls = IF full THEN Append(@, buf) ELSE @,
                  !.cnt = @ + 1]

\* The calls of sys_cputs, with the length and the prefix that each is to have.
vcprintf(fmt, args) ==
    LET b == FoldLeft(putch, [buf |-> << >>, calls |-> << >>, cnt |-> 0], printfmt(fmt, args))
    IN  [calls |-> Append(b.calls, b.buf), ret |-> b.cnt]

cprintf(fmt, args) == vcprintf(fmt, args) @@ [printProgName |-> TRUE, atomic |-> FALSE]
atomic_cprintf(fmt, args) == vcprintf(fmt, args) @@ [printProgName |-> FALSE, atomic |-> TRUE]

\* The kernel's putch steps its pointer to the count and not the count.
kernel_cprintf(fmt, args) == [out |-> printfmt(fmt, args), ret |-> 0]

-----------------------------------------------------------------------------
(***************************************************************************)
(* Numbers that are read and written.                                      *)
(***************************************************************************)
RECURSIVE SkipBlanks(_, _)
SkipBlanks(s, k) == IF CharAt(s, k) \in {" ", "tab"} THEN SkipBlanks(s, k + 1) ELSE k

RECURSIVE Digits(_, _, _, _)
Digits(s, k, base, val) ==
    LET ch == CharAt(s, k)
    IN  IF ch \notin DigitChars THEN val
        ELSE IF DigitOf(ch) >= base THEN val
        ELSE Digits(s, k + 1, base, val * base + DigitOf(ch))

\* The value, as a word: an overflow is not detected.
strtol(s, base0) ==
    LET a == SkipBlanks(s, 1)
        neg == CharAt(s, a) = "-"
        b == IF CharAt(s, a) \in {"+", "-"} THEN a + 1 ELSE a
        hex == base0 \in {0, 16} /\ CharAt(s, b) = "0" /\ CharAt(s, b + 1) = "x"
        octal == base0 = 0 /\ ~hex /\ CharAt(s, b) = "0"
        base == IF hex THEN 16 ELSE IF octal THEN 8 ELSE IF base0 = 0 THEN 10 ELSE base0
        val == Digits(s, IF hex THEN b + 2 ELSE IF octal THEN b + 1 ELSE b, base, 0)
    IN  (IF neg THEN -val ELSE val) % Word

\* ltostr stops at the first 0 among the digits that are left.
RECURSIVE LowDigits(_)
LowDigits(value) ==
    LET left == value \div 10
    IN  (IF left % 10 = 0 THEN << >> ELSE LowDigits(left)) \o <<Digit[(value % 10) + 1]>>
ltostr(value) == IF value < 0 THEN <<"-">> \o LowDigits(-value) ELSE LowDigits(value)

-----------------------------------------------------------------------------
(***************************************************************************)
(* readline, for a sequence of keys that getchar returns one by one.       *)
(***************************************************************************)
\* Mutant: a character for which there is no room is echoed.
EchoDropped(r, c) ==
    CASE c \in {"EOF", "READ ERROR"} -> [r EXCEPT !.done = TRUE]
      [] c \notin Control \cup {"EOF", "READ ERROR"} ->
           [r EXCEPT !.buf = IF Len(r.buf) < BUFLEN - 1 THEN Append(@, c) ELSE @,
                     !.echo = Append(@, c)]
      [] c = "backspace" /\ r.buf # << >> ->
           [r EXCEPT !.buf = Front(@), !.echo = Append(@, c)]
      [] c = "newline" -> [r EXCEPT !.done = TRUE, !.ended = TRUE, !.echo = Append(@, c)]
      [] OTHER -> r

Key(r, c) ==
    CASE c \in {"EOF", "READ ERROR"} -> [r EXCEPT !.done = TRUE]
      [] c \notin Control \cup {"EOF", "READ ERROR"} /\ Len(r.buf) < BUFLEN - 1 ->
           [r EXCEPT !.buf = Append(@, c), !.echo = Append(@, c)]
      [] c = "backspace" /\ r.buf # << >> ->
           [r EXCEPT !.buf = Front(@), !.echo = Append(@, c)]
      [] c = "newline" -> [r EXCEPT !.done = TRUE, !.ended = TRUE, !.echo = Append(@, c)]
      [] OTHER -> r

\* The line that is left, whether it has got its NUL, and what was echoed.
readline(keys) ==
    FoldLeft(LAMBDA r, c : IF r.done THEN r ELSE Key(r, c),
             [buf |-> << >>, echo |-> << >>, ended |-> FALSE, done |-> FALSE], keys)

\* The same with the interrupts disabled until it returns.
atomic_readline(keys) ==
    LET r == readline(keys) IN r @@ [intr |-> r.done]

-----------------------------------------------------------------------------
(***************************************************************************)
(* What they are meant to do.                                              *)
(***************************************************************************)
\* What a number is printed as is read back as that number, in a field of any
\* width; with blanks between the sign and the digits of a negative one it is
\* not.  ltostr's text is, when it has no 0 behind its first digit.
ReadsBack(n, width, padc) ==
    LET f == [NoFlags EXCEPT !.width = width, !.padc = padc]
        arg == <<[n |-> n]>>
        digits == printnum(IF Signed(n) < 0 THEN -Signed(n) ELSE n, 10, -1, " ")
    IN  /\ Signed(n) >= 0 \/ padc = "0" \/ width <= Len(digits) =>
             strtol(Convert("d", f, arg), 10) = n
        /\ strtol(Convert("u", f, arg), 10) = n
        /\ strtol(Convert("x", f, arg), 16) = n
        /\ strtol(Convert("p", NoFlags, arg), 0) = n
        /\ "0" \notin Range(Tail(digits)) => strtol(ltostr(Signed(n)), 10) = n
        \* no wider than it must be
        /\ Len(Convert("d", f, arg)) =
             Max({width, Len(digits)}) + (IF Signed(n) < 0 THEN 1 ELSE 0)

\* An escape that no conversion ends is printed as it is written.
PrintsItself(flags, ch, args) ==
    Unknown(ch) => printfmt(<<"%">> \o flags \o <<ch>>, args) = <<"%">> \o flags \o <<ch>>

\* A buffer gets as much of the text as there is room for, with its end, and
\* the length of the whole text is returned.
FitsBuffer(n, fmt, args) ==
    LET r == snprintf(n, fmt, args)
        text == printfmt(fmt, args)
    IN  IF n < 1 THEN r.buf = << >>
        ELSE /\ r.buf = Append(SubSeq(text, 1, Min({n - 1, Len(text)})), NUL)
             /\ Len(r.buf) <= n /\ r.ret = Len(text)

\* The system calls of a user's cprintf print the whole text in its order.
PrintsAll(fmt, args) ==
    LET r == cprintf(fmt, args)
    IN  /\ FlattenSeq(r.calls) = printfmt(fmt, args)
        /\ r.ret = Len(printfmt(fmt, args))
        /\ \A k \in DOMAIN r.calls : Len(r.calls[k]) < PrintBuf

\* What is echoed, with a backspace taking back the character before it, is
\* what readline returns; the line fits, and the interrupts are enabled again.
Screen(echo) ==
    FoldLeft(LAMBDA s, c : IF c = "backspace" THEN Front(s) ELSE Append(s, c), << >>, echo)
EchoesLine(keys) ==
    LET r == atomic_readline(keys)
    IN  /\ r.ended => Screen(r.echo) = Append(r.buf, "newline")
        /\ Len(r.buf) < BUFLEN
        /\ r.intr = r.done
=============================================================================
