----------------------------- MODULE EvsipConfig -----------------------------
(***************************************************************************)
(* The configuration (src/src/evsip_config.c): the defaults, then one      *)
(* option per line of a file, read through a buffer of fixed size and cut  *)
(* into name and value in place.                                           *)
(*                                                                         *)
(* A line of the file is what its author wrote, `chars', together with     *)
(* what was meant by it, the option `name' (empty: none) and its `text' or *)
(* `number'; the code sees `chars' only.                                   *)
(* A string is a sequence of characters without its terminator.  Reading   *)
(* past the buffer or past a field without terminator sets `fault'.        *)
(***************************************************************************)
EXTENDS Integers, SequencesExt

CONSTANTS
  StringOption, IntegerOption,  \* evsip_config_mapping: names, by type
  Default,                      \* the value of every option before parsing
  Char, Space, Digit,           \* the characters; isspace() is Space, Digit gives the digits' values
  NUL,                          \* the terminator of a string
  LineMax,                      \* EVSIP_CONFIG_MAX_LINE, 128
  ValueMax,                     \* EVSIP_CONFIG_MAX_VALUE, 64
  Line, MaxLines                \* the lines a file may have, and how many (bound)

Option == StringOption \cup IntegerOption

ASSUME SizeAssumption == LineMax \in Nat /\ ValueMax \in Nat /\ 1 < ValueMax /\ ValueMax < LineMax /\ MaxLines \in Nat
ASSUME CharAssumption ==
  /\ NUL \notin Char \cup {"-", "+"} /\ Space \cup DOMAIN Digit \cup {"=", ":", ";", "\n"} \subseteq Char
  /\ "\n" \in Space /\ Space \cap {"=", ":", ";"} = {} /\ \A d \in DOMAIN Digit : Digit[d] \in 0..9
ASSUME OptionAssumption ==
  /\ StringOption \cap IntegerOption = {}
  /\ \A o \in Option : o # <<>> /\ o \in Seq(Char \ (Space \cup {"=", ":", ";"}))
\* The strings that evsip_config_init copies fit in their fields.
ASSUME DefaultAssumption ==
  /\ DOMAIN Default = Option /\ \A o \in IntegerOption : Default[o] \in Int
  /\ \A o \in StringOption : Default[o] \in Seq(Char) /\ Len(Default[o]) < ValueMax
ASSUME LineAssumption ==
  \A l \in Line :
    /\ l.name \in Option \cup {<<>>} /\ l.text \in Seq(Char) /\ l.number \in Int
    /\ l.chars \in Seq(Char) /\ \A i \in DOMAIN l.chars : l.chars[i] # "\n"

VARIABLES
  pc,      \* what main comes to next: evsip_config_init, the parser, its loop, the rest
  file,    \* the lines of the file
  fd,      \* "null", "open" or "closed"
  unread,  \* what fgets has not returned yet
  lineno,
  values,  \* the option fields of struct evsip_config_str
  fault

vars == <<pc, file, fd, unread, lineno, values, fault>>

\* What the file holds behind its first n lines.
OnDisk(lines, n) ==
  LET rest[k \in 0..Len(lines)] ==
        IF k = Len(lines) THEN <<>> ELSE Append(lines[k + 1].chars, "\n") \o rest[k + 1]
  IN  rest[n]

Init ==
  /\ pc = "init" /\ fd = "null" /\ lineno = 0 /\ fault = "none"
  /\ file \in BoundedSeq(Line, MaxLines)
  /\ \E ends \in BOOLEAN : unread = IF ends \/ file = <<>> THEN OnDisk(file, 0) ELSE Front(OnDisk(file, 0))
  /\ values = [o \in Option |-> IF o \in StringOption THEN <<>> ELSE 0]

ConfigInit ==
  /\ pc = "init" /\ pc' = "parse"
  /\ values' = Default
  /\ UNCHANGED <<file, fd, unread, lineno, fault>>

ParseOpens ==
  /\ pc = "parse" /\ pc' = "read"
  /\ fd' = "open"
  /\ UNCHANGED <<file, unread, lineno, values, fault>>

\* main goes on with the defaults.
ParseFails ==
  /\ pc = "parse" /\ pc' = "run"
  /\ UNCHANGED <<file, fd, unread, lineno, values, fault>>

-----------------------------------------------------------------------------
(* The string helpers; positions count from 1, the one behind the end is    *)
(* the terminator.                                                          *)

NotSpace(s) == {i \in DOMAIN s : s[i] \notin Space}
RStrip(s) == SubSeq(s, 1, Max(NotSpace(s) \cup {0}))

LStrip(s) == SubSeq(s, Min(NotSpace(s) \cup {Len(s) + 1}), Len(s))

Comments(s) == {i \in DOMAIN s : s[i] = ";" /\ i > 1 /\ s[i - 1] \in Space}
FindChar(s, c) == Min({i \in DOMAIN s : s[i] = c} \cup Comments(s) \cup {Len(s) + 1})
At(s, i) == IF i \in DOMAIN s THEN s[i] ELSE NUL

\* atoi: a sign, then digits up to the first other character; of numbers that fit
\* in an int, the others are undefined behaviour and left out.
Atoi(s) ==
  LET sign == IF At(s, 1) = "-" THEN -1 ELSE 1
      from == IF At(s, 1) \in {"-", "+"} THEN 2 ELSE 1
      upto == Min({i \in from..Len(s) : s[i] \notin DOMAIN Digit} \cup {Len(s) + 1})
      number[k \in 0..(upto - from)] ==
        IF k = 0 THEN 0 ELSE 10 * number[k - 1] + Digit[s[from + k - 1]]
  IN  sign * number[upto - from]

-----------------------------------------------------------------------------
(* One turn of the loop: fgets, strip, split, store.                        *)

Chunk == SubSeq(unread, 1, Min({i \in DOMAIN unread : unread[i] = "\n"} \cup {LineMax - 1, Len(unread)}))

Start == LStrip(RStrip(Chunk))
Ignored == Start = <<>> \/ Start[1] = ";"

\* The first '=', and only if there is none before a comment the first ':'.
Separator == IF At(Start, FindChar(Start, "=")) = "=" THEN FindChar(Start, "=") ELSE FindChar(Start, ":")
IsPair == ~Ignored /\ At(Start, Separator) \in {"=", ":"}

Name == RStrip(SubSeq(Start, 1, Separator - 1))

Uncommented(s) == RStrip(SubSeq(s, 1, FindChar(s, NUL) - 1))
RawValue == LStrip(SubSeq(Start, Separator + 1, Len(Start)))
Value == Uncommented(RawValue)

\* Seeded bug: the copy is a byte too long.
Bug_Overreads == Len(RStrip(Chunk)) - Len(RawValue) + ValueMax + 1 > LineMax

\* ValueMax bytes are copied from where the value starts in the buffer.
Overreads == Len(RStrip(Chunk)) - Len(RawValue) + ValueMax > LineMax

\* Seeded bug: the length of the string is copied, not its terminator.
Bug_Stored ==
  [values EXCEPT ![Name] = IF Name \in StringOption THEN Value \o SubSeq(@, Len(Value) + 1, Len(@)) ELSE Atoi(Value)]

\* Seeded bug: the string is copied up to its terminator.
Bug_StoredWhole == [values EXCEPT ![Name] = IF Name \in StringOption THEN Value ELSE Atoi(Value)]

Stored == [values EXCEPT ![Name] = IF Name \in StringOption
                                     THEN SubSeq(Value, 1, Min({ValueMax, Len(Value)}))
                                     ELSE Atoi(Value)]

ReadLine ==
  /\ pc = "read" /\ fault = "none" /\ unread # <<>>
  /\ unread' = SubSeq(unread, Len(Chunk) + 1, Len(unread))
  /\ lineno' = lineno + 1
  /\ \/ IsPair /\ Name \in StringOption /\ Overreads /\ fault' = "bad_read" /\ UNCHANGED values
     \/ /\ IsPair /\ Name \in Option /\ ~(Name \in StringOption /\ Overreads)
        /\ values' = Stored /\ UNCHANGED fault
     \/ (~IsPair \/ Name \notin Option) /\ UNCHANGED <<values, fault>>
  /\ UNCHANGED <<pc, file, fd>>

\* The file stays open until evsip_config_deinit.
ReadEnd ==
  /\ pc = "read" /\ fault = "none" /\ unread = <<>>
  /\ pc' = "run"
  /\ UNCHANGED <<file, fd, unread, lineno, values, fault>>

\* The command "conf" prints every option as a string or a number; evsip_init
\* reads the strings the same way.
CmdDump ==
  /\ pc = "run" /\ fault = "none"
  /\ fault' = IF \E o \in StringOption : Len(values[o]) = ValueMax THEN "bad_read" ELSE "none"
  /\ UNCHANGED <<pc, file, fd, unread, lineno, values>>

ConfigDeinit ==
  /\ pc = "run" /\ fault = "none" /\ pc' = "end"
  /\ fd' = IF fd = "null" THEN fd ELSE "closed"
  /\ UNCHANGED <<file, unread, lineno, values, fault>>

Next ==
  \/ ConfigInit \/ ParseOpens \/ ParseFails
  \/ ReadLine \/ ReadEnd \/ CmdDump \/ ConfigDeinit

Spec == Init /\ [][Next]_vars

-----------------------------------------------------------------------------
(* Properties. *)

\* Every variable has the shape the C declarations give it; a string fits in
\* its field, though not always with its terminator.
TypeOK ==
  /\ pc \in {"init", "parse", "read", "run", "end"}
  /\ fd \in {"null", "open", "closed"}
  /\ unread \in Seq(Char) /\ lineno \in Nat
  /\ DOMAIN values = Option
  /\ \A o \in StringOption : values[o] \in Seq(Char) /\ Len(values[o]) <= ValueMax
  /\ \A o \in IntegerOption : values[o] \in Int
  /\ fault \in {"none", "bad_read"}

(* What a line means, by the positions of its parts; its length is that of  *)
(* a line that fgets returns whole.                                         *)

\* `o' is what stands before position e, but for blanks around it.
NamedBefore(s, e, o) ==
  \E a \in 0..(e - 1 - Len(o)) :
    /\ \A i \in 1..Len(o) : s[a + i] = o[i]
    /\ \A i \in 1..(e - 1) : i \in (a + 1)..(a + Len(o)) \/ s[i] \in Space

\* The value t stands behind the separator, blanks around it, and then perhaps
\* a comment, which needs a value and a blank before it.
TextBehind(s, e, t) ==
  \E a \in e..(Len(s) - Len(t)), c \in DOMAIN s \cup {Len(s) + 1} :
    /\ \A i \in 1..Len(t) : s[a + i] = t[i]
    /\ a + Len(t) < c /\ \A i \in (e + 1)..(c - 1) : i \in (a + 1)..(a + Len(t)) \/ s[i] \in Space
    /\ c \in DOMAIN s => s[c] = ";" /\ t # <<>> /\ a + Len(t) < c - 1
    /\ t # <<>> => {t[1], t[Len(t)]} \cap Space = {} /\ (t[1] = ";" => a = e)
    /\ Comments(t) = {}

SetsOption(l, e) ==
  /\ l.chars[e] \in {"=", ":"} /\ NamedBefore(l.chars, e, l.name) /\ TextBehind(l.chars, e, l.text)
  /\ l.chars[e] = ":" => \A i \in DOMAIN l.text : l.text[i] # "="
  /\ l.name \in IntegerOption => l.number = Atoi(l.text)

SetsNothing(l) ==
  \A e \in DOMAIN l.chars, o \in Option : l.chars[e] \in {"=", ":"} => ~NamedBefore(l.chars, e, o)

WellWritten ==
  {l \in Line : /\ Len(l.chars) <= LineMax - 2
                /\ IF l.name = <<>> THEN SetsNothing(l) ELSE \E e \in DOMAIN l.chars : SetsOption(l, e)}

\* What the author of the first n lines wants an option to be.
Setting(o, n) == {i \in 1..n : file[i].name = o}
LastSetting(o, n) == file[Max(Setting(o, n))]
Meant(o, n) ==
  IF Setting(o, n) = {} THEN Default[o]
  ELSE IF o \in StringOption THEN LastSetting(o, n).text ELSE LastSetting(o, n).number

Given(n) ==
  /\ \A o \in IntegerOption : values[o] = Meant(o, n)
  /\ \A o \in StringOption : values[o] = SubSeq(Meant(o, n), 1, Min({ValueMax, Len(Meant(o, n))}))

\* After n lines every option has the value that the last line that names it
\* gives it, whatever the blanks, the separator and the comments around it,
\* and its default if none does; a string that is too long is cut.  In the end
\* this is so of all lines, also of a last one without an end.
AsWritten ==
  (\A i \in DOMAIN file : file[i] \in WellWritten) /\ pc # "init" /\ fault = "none" =>
    /\ lineno <= Len(file) /\ Given(lineno)
    /\ pc \in {"run", "end"} /\ fd # "null" => Given(Len(file))

\* A file whose lines fit in what the buffer has more than a value, and whose
\* values fit in their fields with the terminator, is read within the buffer
\* and printed within the fields.
ShortLinesSafe ==
  (\A i \in DOMAIN file :
     file[i] \in WellWritten /\ Len(file[i].chars) <= LineMax - ValueMax /\ Len(file[i].text) < ValueMax)
    => fault = "none"
=============================================================================
