-------------------------- MODULE EvsipConfigProofs --------------------------
(***************************************************************************)
(* Proofs about the configuration: its types, that a file means what its   *)
(* author wrote, and that short lines are safe.                            *)
(*                                                                         *)
(* The code cuts a line by stripping and searching; what a line means is   *)
(* said by the positions of its parts.  The lemmas say what each helper    *)
(* returns in terms of positions and follow a line through them.           *)
(***************************************************************************)
EXTENDS EvsipConfig, ListLemmas

(* The SMT backend does not take the semicolon for a character: a name hides  *)
(* it.                                                                       *)
Semicolon == ";"

\* What is assumed of the characters that the parser looks for.
LEMMA Chars ==
  /\ NUL \notin Char /\ NUL \notin {"-", "+"} /\ Space \subseteq Char
  /\ {"=", ":", "\n", Semicolon} \subseteq Char /\ "\n" \in Space
  /\ "=" \notin Space /\ ":" \notin Space /\ Semicolon \notin Space
  /\ Semicolon # "=" /\ Semicolon # ":"
  /\ \A d \in DOMAIN Digit : Digit[d] \in 0..9
<1>1. Semicolon # "=" /\ Semicolon # ":"
  BY Zenon DEF Semicolon
<1> QED
  BY <1>1, CharAssumption, Zenon DEF Semicolon

\* No name holds a character that would end it.
LEMMA OptionChars ==
  ASSUME NEW o \in Option
  PROVE  /\ o # <<>> /\ o \in Seq(Char)
         /\ \A i \in 1..Len(o) : o[i] \notin Space /\ o[i] \notin {"=", ":"} /\ o[i] # Semicolon
<1> DEFINE Letter == Char \ (Space \cup {"=", ":", Semicolon})
<1>1. o # <<>> /\ o \in Seq(Letter)
  BY OptionAssumption, Zenon DEF Semicolon
<1>2. Letter \subseteq Char /\ \A c \in Letter : c \notin Space /\ c \notin {"=", ":"} /\ c # Semicolon
  BY Zenon
<1> HIDE DEF Letter
<1> QED
  BY <1>1, <1>2

\* A comment begins with a semicolon behind a blank.
LEMMA CommentsAre ==
  ASSUME NEW s
  PROVE  Comments(s) = {i \in DOMAIN s : s[i] = Semicolon /\ i > 1 /\ s[i - 1] \in Space}
  BY Zenon DEF Comments, Semicolon

-----------------------------------------------------------------------------
(* The string helpers. *)

\* The strings lose their blanks at the end, at the beginning, and are searched
\* up to a comment.
LEMMA RStripIs ==
  ASSUME NEW S, NEW s \in Seq(S), NEW m \in 0..Len(s),
         m # 0 => s[m] \notin Space, \A i \in 1..Len(s) : m < i => s[i] \in Space
  PROVE  RStrip(s) = SubSeq(s, 1, m)
<1> DEFINE T == NotSpace(s) \cup {0}
<1>1. Len(s) \in Nat /\ DOMAIN s = 1..Len(s)
  OBVIOUS
<1>2. T \in SUBSET (0..Len(s)) /\ m \in T
  BY <1>1 DEF NotSpace
<1>3. \A j \in T : m >= j
  BY <1>1 DEF NotSpace
<1> HIDE DEF T
<1>4. Max(T) = m
  BY <1>1, <1>2, <1>3, MaxIs
<1> QED
  BY <1>4 DEF RStrip, T

\* There is such a position.
LEMMA RStripMeans ==
  ASSUME NEW S, NEW s \in Seq(S)
  PROVE  \E m \in 0..Len(s) :
           /\ RStrip(s) = SubSeq(s, 1, m)
           /\ m # 0 => s[m] \notin Space
           /\ \A i \in 1..Len(s) : m < i => s[i] \in Space
<1> DEFINE T == NotSpace(s) \cup {0}
           m == Max(T)
<1>1. Len(s) \in Nat /\ DOMAIN s = 1..Len(s)
  OBVIOUS
<1>2. T \in SUBSET (0..Len(s)) /\ T # {}
  BY <1>1 DEF NotSpace
<1>3. m \in T /\ \A j \in T : m >= j
  BY <1>1, <1>2, MaxOfPositions
<1>4. RStrip(s) = SubSeq(s, 1, m)
  BY DEF RStrip
<1> HIDE DEF m
<1>5. m \in 0..Len(s) /\ (m # 0 => s[m] \notin Space)
  BY <1>2, <1>3 DEF NotSpace
<1>6. ASSUME NEW i \in 1..Len(s), m < i PROVE s[i] \in Space
  <2>1. ~(m >= i)
    BY <1>5, <1>6
  <2> QED
    BY <1>1, <1>3, <2>1 DEF NotSpace
<1> QED
  BY <1>4, <1>5, <1>6

\* What has only blanks before position m, and none there, is stripped up to m.
LEMMA LStripIs ==
  ASSUME NEW S, NEW s \in Seq(S), NEW m \in 1..(Len(s) + 1),
         m <= Len(s) => s[m] \notin Space, \A i \in 1..Len(s) : i < m => s[i] \in Space
  PROVE  LStrip(s) = SubSeq(s, m, Len(s))
<1> DEFINE T == NotSpace(s) \cup {Len(s) + 1}
<1>1. Len(s) \in Nat /\ DOMAIN s = 1..Len(s)
  OBVIOUS
<1>2. T \in SUBSET Nat /\ m \in T
  BY <1>1 DEF NotSpace
<1>3. \A j \in T : m <= j
  BY <1>1 DEF NotSpace
<1> HIDE DEF T
<1>4. Min(T) = m
  BY <1>2, <1>3, MinIs
<1> QED
  BY <1>4 DEF LStrip, T

\* There is such a position.
LEMMA LStripMeans ==
  ASSUME NEW S, NEW s \in Seq(S)
  PROVE  \E m \in 1..(Len(s) + 1) :
           /\ LStrip(s) = SubSeq(s, m, Len(s))
           /\ m <= Len(s) => s[m] \notin Space
           /\ \A i \in 1..Len(s) : i < m => s[i] \in Space
<1> DEFINE T == NotSpace(s) \cup {Len(s) + 1}
           m == Min(T)
<1>1. Len(s) \in Nat /\ DOMAIN s = 1..Len(s)
  OBVIOUS
<1>2. T \in SUBSET (1..(Len(s) + 1)) /\ T \in SUBSET Nat /\ T # {} /\ Len(s) + 1 \in T
  BY <1>1 DEF NotSpace
<1>3. m \in T /\ \A j \in T : m <= j
  BY <1>2, MinOfPositions
<1>4. LStrip(s) = SubSeq(s, m, Len(s))
  BY DEF LStrip
<1> HIDE DEF m
<1>5. m \in 1..(Len(s) + 1) /\ (m <= Len(s) => s[m] \notin Space)
  BY <1>1, <1>2, <1>3 DEF NotSpace
<1>6. ASSUME NEW i \in 1..Len(s), i < m PROVE s[i] \in Space
  <2>1. ~(m <= i)
    BY <1>5, <1>6
  <2> QED
    BY <1>1, <1>3, <2>1 DEF NotSpace
<1> QED
  BY <1>4, <1>5, <1>6

\* The search ends at the first place where the character stands or a comment
\* begins, or at the end.
LEMMA FindCharIs ==
  ASSUME NEW S, NEW s \in Seq(S), NEW c, NEW m \in 1..(Len(s) + 1),
         m = Len(s) + 1 \/ s[m] = c \/ m \in Comments(s),
         \A i \in 1..Len(s) : i < m => s[i] # c /\ i \notin Comments(s)
  PROVE  FindChar(s, c) = m
<1> DEFINE T == {i \in DOMAIN s : s[i] = c} \cup Comments(s) \cup {Len(s) + 1}
<1>1. Len(s) \in Nat /\ DOMAIN s = 1..Len(s)
  OBVIOUS
<1>2. Comments(s) \in SUBSET (1..Len(s))
  BY <1>1, CommentsAre
<1>3. T \in SUBSET Nat /\ m \in T
  BY <1>1, <1>2
<1>4. \A j \in T : m <= j
  BY <1>1, <1>2
<1> HIDE DEF T
<1>5. Min(T) = m
  BY <1>3, <1>4, MinIs
<1> QED
  BY <1>5 DEF FindChar, T

\* There is such a place.
LEMMA FindCharMeans ==
  ASSUME NEW S, NEW s \in Seq(S), NEW c
  PROVE  /\ FindChar(s, c) \in 1..(Len(s) + 1)
         /\ \A i \in 1..Len(s) : i < FindChar(s, c) => s[i] # c /\ i \notin Comments(s)
         /\ \/ FindChar(s, c) = Len(s) + 1 \/ s[FindChar(s, c)] = c
            \/ FindChar(s, c) \in Comments(s)
<1> DEFINE T == {i \in DOMAIN s : s[i] = c} \cup Comments(s) \cup {Len(s) + 1}
           m == Min(T)
<1>1. Len(s) \in Nat /\ DOMAIN s = 1..Len(s)
  OBVIOUS
<1>2. Comments(s) \in SUBSET (1..Len(s))
  BY <1>1, CommentsAre
<1>3. T \in SUBSET (1..(Len(s) + 1)) /\ T \in SUBSET Nat /\ T # {} 
  BY <1>1, <1>2
<1>4. m \in T /\ \A j \in T : m <= j
  BY <1>3, MinOfPositions
<1>5. FindChar(s, c) = m
  BY DEF FindChar
<1> HIDE DEF m
<1>6. m \in 1..(Len(s) + 1) /\ (m = Len(s) + 1 \/ s[m] = c \/ m \in Comments(s))
  BY <1>3, <1>4
<1>7. ASSUME NEW i \in 1..Len(s), i < m PROVE s[i] # c /\ i \notin Comments(s)
  <2>1. ~(m <= i)
    BY <1>6, <1>7
  <2> QED
    BY <1>1, <1>4, <2>1
<1> QED
  BY <1>5, <1>6, <1>7

\* atoi returns a number, whatever the string.
LEMMA AtoiType ==
  ASSUME NEW S, NEW s \in Seq(S)
  PROVE  Atoi(s) \in Int
<1> DEFINE sign == IF At(s, 1) = "-" THEN -1 ELSE 1
           from == IF At(s, 1) \in {"-", "+"} THEN 2 ELSE 1
           T == {i \in from..Len(s) : s[i] \notin DOMAIN Digit} \cup {Len(s) + 1}
           upto == Min(T)
           n == upto - from
           IsNumber(g) == g = [k \in 0..n |-> IF k = 0 THEN 0 ELSE 10 * g[k - 1] + Digit[s[from + k - 1]]]
           number == CHOOSE g : IsNumber(g)
<1>1. Len(s) \in Nat /\ DOMAIN s = 1..Len(s) /\ sign \in Int
  OBVIOUS
<1>2. from \in 1..(Len(s) + 1)
  <2>1. CASE 1 \in DOMAIN s
    BY <1>1, <2>1
  <2>2. CASE 1 \notin DOMAIN s
    <3>1. At(s, 1) = NUL
      BY <2>2 DEF At
    <3>2. NUL \notin {"-", "+"}
      BY Chars
    <3> QED
      BY <1>1, <3>1, <3>2
  <2> QED
    BY <2>1, <2>2
<1>3. upto \in from..(Len(s) + 1) /\ \A j \in from..Len(s) : j < upto => s[j] \in DOMAIN Digit
  <2> HIDE DEF from
  <2>1. T \in SUBSET Nat /\ T # {} /\ T \subseteq from..(Len(s) + 1)
    BY <1>1, <1>2
  <2>2. upto \in T /\ \A j \in T : upto <= j
    BY <2>1, MinOfPositions
  <2> HIDE DEF upto
  <2>3. upto \in from..(Len(s) + 1)
    BY <2>1, <2>2
  <2>4. ASSUME NEW j \in from..Len(s), j < upto PROVE s[j] \in DOMAIN Digit
    <3>1. ~(upto <= j)
      BY <1>2, <2>3, <2>4
    <3>2. j \notin T
      BY <2>2, <3>1
    <3> QED
      BY <3>2
  <2> QED
    BY <2>3, <2>4
<1>4. Atoi(s) = sign * number[n]
  BY DEF Atoi
<1> HIDE DEF sign, from, upto
<1>5. n \in Nat
  BY <1>1, <1>2, <1>3
<1>6. ASSUME NEW k \in 1..n PROVE Digit[s[from + k - 1]] \in Int
  <2>1. from + k - 1 \in from..Len(s) /\ from + k - 1 < upto
    BY <1>1, <1>2, <1>3
  <2>2. s[from + k - 1] \in DOMAIN Digit
    BY <1>3, <2>1, Zenon
  <2>3. \A d \in 0..9 : d \in Int
    OBVIOUS
  <2> QED
    BY <2>2, <2>3, Chars, Zenon
<1> HIDE DEF n, T
<1>7. \E g \in [0..n -> Int] : IsNumber(g)
  <2> DEFINE F == [k \in 1..n |-> [x \in Int |-> 10 * x + Digit[s[from + k - 1]]]]
  <2>1. F \in [1..n -> [Int -> Int]]
    BY <1>6
  <2>2. ASSUME NEW k \in 1..n, NEW x \in Int PROVE F[k][x] = 10 * x + Digit[s[from + k - 1]]
    BY Zenon
  <2> HIDE DEF F
  <2>3. PICK g \in [0..n -> Int] : g[0] = 0 /\ \A k \in 1..n : g[k] = F[k][g[k - 1]]
    <3>1. 0 \in Int
      OBVIOUS
    <3>2. Iterations(n, Int, 0, F) # {}
      BY <1>5, <2>1, <3>1, RecursiveFunction
    <3> QED
      BY <3>2 DEF Iterations
  <2>4. ASSUME NEW k \in 0..n
        PROVE  g[k] = IF k = 0 THEN 0 ELSE 10 * g[k - 1] + Digit[s[from + k - 1]]
    <3>1. CASE k = 0
      BY <2>3, <3>1
    <3>2. CASE k # 0
      <4>1. k \in 1..n /\ k - 1 \in 0..n
        BY <1>5, <3>2
      <4>2. g[k - 1] \in Int
        BY <4>1
      <4> QED
        BY <2>2, <2>3, <3>2, <4>1, <4>2
    <3> QED
      BY <3>1, <3>2
  <2>5. IsNumber(g)
    BY <2>4
  <2> QED
    BY <2>5
<1>8. IsNumber(number)
  BY <1>7
<1> HIDE DEF number
<1>9. number[0] = 0 /\ \A k \in 1..n : number[k] = 10 * number[k - 1] + Digit[s[from + k - 1]]
  BY <1>5, <1>8
<1>10. \A k \in 0..n : k \in {j \in 0..n : number[j] \in Int}
  <2> DEFINE I == {j \in 0..n : number[j] \in Int}
  <2>1. 0 \in I
    BY <1>5, <1>9
  <2>2. ASSUME NEW k \in 0..n, k < n, k \in I PROVE k + 1 \in I
    <3>1. k + 1 \in 1..n /\ (k + 1) - 1 = k /\ k + 1 \in 0..n /\ number[k] \in Int
      BY <1>5, <2>2
    <3>2. number[k + 1] = 10 * number[k] + Digit[s[from + (k + 1) - 1]]
      BY <1>9, <3>1
    <3>3. Digit[s[from + (k + 1) - 1]] \in Int
      BY <1>6, <3>1
    <3> QED
      BY <3>1, <3>2, <3>3
  <2> HIDE DEF I
  <2>3. \A k \in 0..n : k \in I
    BY <1>5, <2>1, <2>2, CountingUp
  <2> QED
    BY <2>3 DEF I
<1>11. number[n] \in Int
  BY <1>5, <1>10
<1> QED
  BY <1>1, <1>4, <1>11

\* Stripping leaves a part of the string.
LEMMA StripType ==
  ASSUME NEW S, NEW s \in Seq(S)
  PROVE  /\ RStrip(s) \in Seq(S) /\ Len(RStrip(s)) <= Len(s)
         /\ LStrip(s) \in Seq(S) /\ Len(LStrip(s)) <= Len(s)
<1>1. Len(s) \in Nat
  OBVIOUS
<1>2. RStrip(s) \in Seq(S) /\ Len(RStrip(s)) <= Len(s)
  <2>1. PICK m \in 0..Len(s) : RStrip(s) = SubSeq(s, 1, m)
    BY RStripMeans
  <2>2. SubSeq(s, 1, m) \in Seq(S) /\ Len(SubSeq(s, 1, m)) = IF 1 <= m THEN m - 1 + 1 ELSE 0
    BY <1>1, Part
  <2> QED
    BY <1>1, <2>1, <2>2
<1>3. LStrip(s) \in Seq(S) /\ Len(LStrip(s)) <= Len(s)
  <2>1. PICK m \in 1..(Len(s) + 1) : LStrip(s) = SubSeq(s, m, Len(s))
    BY LStripMeans
  <2>2. m \in Nat \ {0} /\ Len(s) \in 0..Len(s)
    BY <1>1
  <2>3. /\ SubSeq(s, m, Len(s)) \in Seq(S)
        /\ Len(SubSeq(s, m, Len(s))) = IF m <= Len(s) THEN Len(s) - m + 1 ELSE 0
    BY <2>2, Part
  <2> QED
    BY <1>1, <2>1, <2>2, <2>3
<1> QED
  BY <1>2, <1>3

-----------------------------------------------------------------------------
(* The parts of a line. *)

\* fgets returns the beginning of what is unread, and fills its buffer at most.
LEMMA ChunkType ==
  ASSUME unread \in Seq(Char), unread # <<>>
  PROVE  \E m \in 1..Len(unread) :
           /\ Chunk = SubSeq(unread, 1, m) /\ m <= LineMax - 1
           /\ Chunk \in Seq(Char) /\ Len(Chunk) = m
           /\ \A i \in 1..m : Chunk[i] = unread[i]
<1> DEFINE ends == {i \in DOMAIN unread : unread[i] = "\n"} \cup {LineMax - 1, Len(unread)}
           m == Min(ends)
<1>1. Len(unread) \in Nat \ {0} /\ DOMAIN unread = 1..Len(unread)
  OBVIOUS
<1>2. LineMax - 1 \in Nat \ {0}
  BY SizeAssumption
<1>3. Len(unread) \in ends /\ LineMax - 1 \in ends /\ \A j \in ends : j \in Nat \ {0}
  <2>1. Len(unread) \in ends /\ LineMax - 1 \in ends
    OBVIOUS
  <2>2. {i \in DOMAIN unread : unread[i] = "\n"} \subseteq Nat \ {0}
    BY <1>1
  <2>3. {LineMax - 1, Len(unread)} \subseteq Nat \ {0}
    BY <1>1, <1>2
  <2> QED
    BY <2>1, <2>2, <2>3, Zenon
<1>4. m \in ends /\ \A j \in ends : m <= j
  <2>1. ends \in SUBSET Nat /\ ends # {}
    BY <1>3
  <2> QED
    BY <2>1, MinOfPositions
<1>5. Chunk = SubSeq(unread, 1, m)
  BY DEF Chunk
<1> HIDE DEF ends, m
<1>6. m \in 1..Len(unread) /\ m <= LineMax - 1
  <2>1. m \in Nat \ {0} /\ m <= Len(unread) /\ m <= LineMax - 1
    BY <1>3, <1>4
  <2> QED
    BY <1>1, <2>1
<1>7. /\ SubSeq(unread, 1, m) \in Seq(Char)
      /\ Len(SubSeq(unread, 1, m)) = IF 1 <= m THEN m - 1 + 1 ELSE 0
      /\ \A i \in 1..(m - 1 + 1) : SubSeq(unread, 1, m)[i] = unread[1 + i - 1]
  BY <1>1, <1>6, Part
<1> QED
  BY <1>1, <1>5, <1>6, <1>7

\* The parts of a line are strings.
LEMMA PartsType ==
  ASSUME unread \in Seq(Char), unread # <<>>
  PROVE  /\ Chunk \in Seq(Char) /\ RStrip(Chunk) \in Seq(Char) /\ Start \in Seq(Char)
         /\ Separator \in 1..(Len(Start) + 1)
         /\ Name \in Seq(Char) /\ RawValue \in Seq(Char) /\ Value \in Seq(Char)
<1>1. Chunk \in Seq(Char)
  BY ChunkType
<1>2. RStrip(Chunk) \in Seq(Char)
  BY <1>1, StripType
<1>3. Start \in Seq(Char)
  BY <1>2, StripType DEF Start
<1>4. Separator \in 1..(Len(Start) + 1)
  BY <1>3, FindCharMeans DEF Separator
<1>5. Len(Start) \in Nat
  BY <1>3
<1>6. Name \in Seq(Char)
  <2>1. SubSeq(Start, 1, Separator - 1) \in Seq(Char)
    BY <1>3, <1>4, <1>5, Part
  <2> QED
    BY <2>1, StripType DEF Name
<1>7. RawValue \in Seq(Char)
  <2>1. SubSeq(Start, Separator + 1, Len(Start)) \in Seq(Char)
    BY <1>3, <1>4, <1>5, Part
  <2> QED
    BY <2>1, StripType DEF RawValue
<1>8. Value \in Seq(Char)
  <2>1. FindChar(RawValue, NUL) \in 1..(Len(RawValue) + 1) /\ Len(RawValue) \in Nat
    BY <1>7, FindCharMeans
  <2>2. SubSeq(RawValue, 1, FindChar(RawValue, NUL) - 1) \in Seq(Char)
    BY <1>7, <2>1, Part
  <2> QED
    BY <2>2, StripType DEF Value, Uncommented
<1> QED
  BY <1>1, <1>2, <1>3, <1>4, <1>6, <1>7, <1>8

-----------------------------------------------------------------------------
(* What fgets returns of a file. *)

\* What is behind n lines is the next one, its end, and what is behind n + 1.
LEMMA Disk ==
  ASSUME NEW lines \in Seq(Line)
  PROVE  /\ OnDisk(lines, Len(lines)) = <<>>
         /\ \A n \in 0..Len(lines) :
              /\ OnDisk(lines, n) \in Seq(Char)
              /\ n < Len(lines) =>
                   OnDisk(lines, n) = Append(lines[n + 1].chars, "\n") \o OnDisk(lines, n + 1)
<1> DEFINE N == Len(lines)
           line(k) == Append(lines[k + 1].chars, "\n")
           Is(r) == r = [k \in 0..N |-> IF k = N THEN <<>> ELSE line(k) \o r[k + 1]]
           rest == CHOOSE r : Is(r)
<1>1. N \in Nat
  OBVIOUS
<1>2. ASSUME NEW k \in 0..N, k # N PROVE line(k) \in Seq(Char)
  <2>1. k + 1 \in 1..Len(lines)
    BY <1>1, <1>2
  <2>2. lines[k + 1] \in Line
    BY <2>1, ElementOfSeq
  <2>3. lines[k + 1].chars \in Seq(Char)
    BY <2>2, LineAssumption, Zenon
  <2> QED
    BY <2>3, Chars, AppendProperties
<1>3. \A n \in 0..N : OnDisk(lines, n) = rest[n]
  BY DEF OnDisk
<1> HIDE DEF line, N
<1>4. \E r : Is(r)
  <2> DEFINE F == [k \in 1..N |-> [t \in Seq(Char) |-> line(N - k) \o t]]
  <2>1. ASSUME NEW k \in 1..N, NEW t \in Seq(Char)
        PROVE  line(N - k) \o t \in Seq(Char)
    <3>1. N - k \in 0..N /\ N - k # N
      BY <1>1
    <3>2. line(N - k) \in Seq(Char)
      BY <1>2, <3>1
    <3> QED
      BY <3>2, ConcatProperties
  <2>2. F \in [1..N -> [Seq(Char) -> Seq(Char)]]
    <3>1. ASSUME NEW k \in 1..N
          PROVE  [t \in Seq(Char) |-> line(N - k) \o t] \in [Seq(Char) -> Seq(Char)]
      BY <2>1
    <3> QED
      BY <3>1, Zenon
  <2>3. ASSUME NEW k \in 1..N, NEW t \in Seq(Char) PROVE F[k][t] = line(N - k) \o t
    BY Zenon
  <2> HIDE DEF F
  <2>4. <<>> \in Seq(Char)
    OBVIOUS
  <2>5. PICK g : g \in Iterations(N, Seq(Char), <<>>, F)
    <3>1. Iterations(N, Seq(Char), <<>>, F) # {}
      BY <1>1, <2>2, <2>4, RecursiveFunction
    <3> QED
      BY <3>1, Zenon
  <2>6. /\ g \in [0..N -> Seq(Char)] /\ g[0] = <<>>
        /\ \A k \in 1..N : g[k] = F[k][g[k - 1]]
    BY <2>5, Zenon DEF Iterations
  <2> DEFINE r == [k \in 0..N |-> g[N - k]]
  <2>7. ASSUME NEW k \in 0..N PROVE r[k] = g[N - k]
    OBVIOUS
  <2>8. r = [k \in 0..N |-> r[k]]
    OBVIOUS
  <2> HIDE DEF r
  <2>9. ASSUME NEW k \in 0..N PROVE r[k] = IF k = N THEN <<>> ELSE line(k) \o r[k + 1]
    <3>1. CASE k = N
      <4>1. N - k = 0
        BY <1>1, <3>1
      <4> QED
        BY <2>6, <2>7, <3>1, <4>1, Zenon
    <3>2. CASE k # N
      <4>1. N - k \in 1..N /\ (N - k) - 1 = N - (k + 1) /\ N - (N - k) = k /\ k + 1 \in 0..N /\ (N - k) - 1 \in 0..N
        BY <1>1, <3>2
      <4>2. g[(N - k) - 1] \in Seq(Char)
        BY <2>6, <4>1
      <4>3. g[N - k] = line(N - (N - k)) \o g[(N - k) - 1]
        BY <2>3, <2>6, <4>1, <4>2
      <4> QED
        BY <2>7, <3>2, <4>1, <4>3
    <3> QED
      BY <3>1, <3>2
  <2>10. Is(r)
    BY <2>8, <2>9, Zenon
  <2> HIDE DEF Is
  <2> QED
    BY <2>10
<1>5. Is(rest)
  BY <1>4
<1> HIDE DEF rest
<1>6. ASSUME NEW k \in 0..N PROVE rest[k] = IF k = N THEN <<>> ELSE line(k) \o rest[k + 1]
  BY <1>5
<1>7. \A k \in 0..N : rest[N - k] \in Seq(Char)
  <2> DEFINE T == {k \in 0..N : rest[N - k] \in Seq(Char)}
  <2>1. 0 \in T
    <3>1. N \in 0..N /\ 0 \in 0..N /\ N - 0 = N
      BY <1>1
    <3>2. rest[N] = <<>>
      BY <1>6, <3>1
    <3>3. <<>> \in Seq(Char)
      OBVIOUS
    <3> QED
      BY <3>1, <3>2, <3>3
  <2>2. ASSUME NEW k \in 0..N, k < N, k \in T PROVE k + 1 \in T
    <3>1. N - (k + 1) \in 0..N /\ N - (k + 1) # N /\ (N - (k + 1)) + 1 = N - k /\ k + 1 \in 0..N
      BY <1>1, <2>2
    <3>2. rest[N - (k + 1)] = line(N - (k + 1)) \o rest[N - k]
      BY <1>6, <3>1
    <3>3. line(N - (k + 1)) \in Seq(Char) /\ rest[N - k] \in Seq(Char)
      BY <1>2, <2>2, <3>1
    <3>4. rest[N - (k + 1)] \in Seq(Char)
      BY <3>2, <3>3, ConcatProperties
    <3> QED
      BY <3>1, <3>4
  <2> HIDE DEF T
  <2>3. \A k \in 0..N : k \in T
    BY <1>1, <2>1, <2>2, CountingUp
  <2> QED
    BY <2>3 DEF T
<1>8. ASSUME NEW k \in 0..N PROVE rest[k] \in Seq(Char)
  <2>1. N - k \in 0..N /\ N - (N - k) = k
    BY <1>1
  <2> QED
    BY <1>7, <2>1
<1>9. OnDisk(lines, N) = <<>>
  BY <1>1, <1>3, <1>6
<1>10. ASSUME NEW n \in 0..N, n < N PROVE OnDisk(lines, n) = line(n) \o OnDisk(lines, n + 1)
  <2>1. n + 1 \in 0..N /\ n # N
    BY <1>1, <1>10
  <2> QED
    BY <1>3, <1>6, <2>1
<1> QED
  BY <1>3, <1>8, <1>9, <1>10 DEF N, line

\* fgets stops behind the first end of line, if the buffer is long enough.
LEMMA ChunkIs ==
  ASSUME unread \in Seq(Char), NEW m \in 1..Len(unread), m <= LineMax - 1,
         unread[m] = "\n" \/ m = Len(unread), \A i \in 1..Len(unread) : i < m => unread[i] # "\n"
  PROVE  Chunk = SubSeq(unread, 1, m)
<1> DEFINE limit == LineMax - 1
<1>1. limit \in Nat
  BY SizeAssumption
<1>2. Chunk = SubSeq(unread, 1, Min({i \in DOMAIN unread : unread[i] = "\n"} \cup {limit, Len(unread)}))
  BY Zenon DEF Chunk
<1>3. m <= limit
  OBVIOUS
<1> HIDE DEF limit
<1>4. Min({i \in DOMAIN unread : unread[i] = "\n"} \cup {limit, Len(unread)}) = m
  BY <1>1, <1>3, FirstOrLimit, Zenon
<1> QED
  BY <1>2, <1>4, Zenon

\* A line that fits is returned whole, with its end.
LEMMA ChunkOfLine ==
  ASSUME NEW c \in Seq(Char), \A i \in 1..Len(c) : c[i] # "\n", Len(c) <= LineMax - 2,
         NEW t \in Seq(Char), unread = Append(c, "\n") \o t
  PROVE  Chunk = Append(c, "\n") /\ SubSeq(unread, Len(Chunk) + 1, Len(unread)) = t
<1> DEFINE line == Append(c, "\n")
           m == Len(c) + 1
<1>1. Len(c) \in Nat /\ Len(t) \in Nat /\ LineMax \in Nat
  BY SizeAssumption
<1>2. /\ line \in Seq(Char) /\ Len(line) = m /\ line[m] = "\n"
      /\ \A i \in 1..Len(c) : line[i] = c[i]
  BY Chars, AppendProperties
<1>3. unread = line \o t
  OBVIOUS
<1> HIDE DEF line
<1>4. /\ unread \in Seq(Char) /\ Len(unread) = Len(line) + Len(t)
      /\ \A i \in 1..(Len(line) + Len(t)) : unread[i] = IF i <= Len(line) THEN line[i] ELSE t[i - Len(line)]
  BY <1>2, <1>3, ConcatProperties
<1>5. m \in 1..Len(unread) /\ m <= LineMax - 1 /\ unread[m] = "\n"
  BY <1>1, <1>2, <1>4
<1>6. ASSUME NEW i \in 1..Len(unread), i < m PROVE unread[i] # "\n"
  <2>1. i \in 1..Len(c) /\ i \in 1..(Len(line) + Len(t)) /\ i <= Len(line)
    BY <1>1, <1>2, <1>4, <1>6
  <2> QED
    BY <1>2, <1>4, <2>1
<1>7. Chunk = SubSeq(unread, 1, m)
  <2>1. unread \in Seq(Char)
    BY <1>4
  <2> QED
    BY <1>5, <1>6, <2>1, ChunkIs, Zenon
<1>8. SubSeq(unread, 1, Len(line)) = line /\ SubSeq(unread, Len(line) + 1, Len(unread)) = t
  <2>1. line \in Seq(Char)
    BY <1>2, Zenon
  <2>2. SubSeq(line \o t, 1, Len(line)) = line /\ SubSeq(line \o t, Len(line) + 1, Len(line \o t)) = t
    BY <2>1, ConcatSplits
  <2> QED
    BY <1>3, <2>2, Zenon
<1>9. Chunk = line
  BY <1>2, <1>7, <1>8
<1> QED
  BY <1>8, <1>9 DEF line

\* And so is a last line without an end.
LEMMA ChunkOfLast ==
  ASSUME NEW c \in Seq(Char), \A i \in 1..Len(c) : c[i] # "\n", Len(c) <= LineMax - 2,
         unread = c, c # <<>>
  PROVE  Chunk = c /\ SubSeq(unread, Len(Chunk) + 1, Len(unread)) = <<>>
<1>1. Len(c) \in Nat \ {0} /\ LineMax \in Nat
  BY EmptySeq, SizeAssumption
<1>2. Len(c) \in 1..Len(unread) /\ Len(c) <= LineMax - 1 /\ Len(c) = Len(unread)
  BY <1>1
<1>3. Chunk = SubSeq(unread, 1, Len(c))
  <2>1. unread \in Seq(Char) /\ \A i \in 1..Len(unread) : i < Len(c) => unread[i] # "\n"
    OBVIOUS
  <2> QED
    BY <1>2, <2>1, ChunkIs
<1>4. Chunk = c
  BY <1>3, SubSeqFull
<1>5. SubSeq(unread, Len(c) + 1, Len(unread)) = <<>>
  BY <1>1, SubSeqEmpty
<1> QED
  BY <1>4, <1>5

\* The files AsWritten is about.
Accepted == \A i \in DOMAIN file : file[i] \in WellWritten

\* Lines are counted from the time the file is open, and the loop is left at its
\* end.
InPlace ==
  /\ pc \in {"init", "parse"} => lineno = 0 /\ fd = "null"
  /\ pc = "read" => fd = "open"
  /\ pc \in {"run", "end"} /\ fd # "null" => unread = <<>>

\* `left' is what the file holds behind n lines, perhaps without the last end of
\* line.
LeftAfter(n, left) ==
  /\ n <= Len(file)
  /\ \/ left = OnDisk(file, n)
     \/ n < Len(file) /\ left = Front(OnDisk(file, n))

\* The parser stands behind the lines it has counted: none is read in two pieces.
Behind == Accepted => LeftAfter(lineno, unread)

\* The lines of an accepted file fit in the buffer.
LEMMA LineFits ==
  ASSUME file \in Seq(Line), Accepted, NEW n \in 1..Len(file)
  PROVE  /\ file[n] \in Line /\ file[n].chars \in Seq(Char)
         /\ \A i \in 1..Len(file[n].chars) : file[n].chars[i] # "\n"
         /\ Len(file[n].chars) <= LineMax - 2
<1>1. file[n] \in Line
  BY ElementOfSeq
<1>2. file[n] \in WellWritten
  <2>1. n \in DOMAIN file
    OBVIOUS
  <2> QED
    BY <2>1, Zenon DEF Accepted
<1>3. file[n].chars \in Seq(Char) /\ \A i \in DOMAIN file[n].chars : file[n].chars[i] # "\n"
  BY <1>1, LineAssumption, Zenon
<1>4. Len(file[n].chars) <= LineMax - 2
  BY <1>2, Zenon DEF WellWritten
<1> QED
  BY <1>1, <1>3, <1>4

\* What fgets returns of an accepted file is its next line, and the lines behind
\* it are left.
LEMMA LineRead ==
  ASSUME lineno \in Nat, file \in Seq(Line), Accepted, Behind, unread # <<>>
  PROVE  /\ lineno < Len(file)
         /\ Chunk = file[lineno + 1].chars \/ Chunk = Append(file[lineno + 1].chars, "\n")
         /\ LeftAfter(lineno + 1, SubSeq(unread, Len(Chunk) + 1, Len(unread)))
<1> DEFINE c == file[lineno + 1].chars
           d == OnDisk(file, lineno)
           rest == OnDisk(file, lineno + 1)
           left == SubSeq(unread, Len(Chunk) + 1, Len(unread))
<1>1. Len(file) \in Nat /\ lineno <= Len(file)
  BY DEF Behind, LeftAfter
<1>2. lineno < Len(file)
  <2> SUFFICES ASSUME lineno = Len(file) PROVE FALSE
    BY <1>1
  <2>1. unread = OnDisk(file, Len(file))
    BY <1>1 DEF Behind, LeftAfter
  <2> QED
    BY <2>1, Disk
<1>3. lineno + 1 \in 1..Len(file) /\ lineno + 1 <= Len(file) /\ lineno + 1 \in 0..Len(file) /\ lineno \in 0..Len(file)
  BY <1>1, <1>2
<1>4. c \in Seq(Char) /\ (\A i \in 1..Len(c) : c[i] # "\n") /\ Len(c) <= LineMax - 2
  BY <1>3, LineFits
<1>5. d = Append(c, "\n") \o rest /\ d \in Seq(Char) /\ rest \in Seq(Char) /\ OnDisk(file, Len(file)) = <<>>
  BY <1>2, <1>3, Disk
<1>6. unread = d \/ unread = Front(d)
  BY DEF Behind, LeftAfter
<1>7. Append(c, "\n") \in Seq(Char)
  BY <1>4, Chars, AppendProperties
<1> HIDE DEF c, d, rest, left
<1>8. CASE unread = d
  <2>1. Chunk = Append(c, "\n") /\ SubSeq(unread, Len(Chunk) + 1, Len(unread)) = rest
    BY <1>4, <1>5, <1>8, ChunkOfLine
  <2>2. LeftAfter(lineno + 1, left)
    BY <1>3, <2>1, Zenon DEF LeftAfter, left, rest
  <2> QED
    BY <1>2, <2>1, <2>2, Zenon DEF c, left
<1>9. CASE unread = Front(d) /\ rest # <<>>
  <2>1. unread = Append(c, "\n") \o Front(rest)
    BY <1>5, <1>7, <1>9, FrontOfConcat
  <2>2. Front(rest) \in Seq(Char)
    BY <1>5, <1>9, FrontIs
  <2>3. Chunk = Append(c, "\n") /\ SubSeq(unread, Len(Chunk) + 1, Len(unread)) = Front(rest)
    BY <1>4, <2>1, <2>2, ChunkOfLine
  <2>4. lineno + 1 # Len(file)
    BY <1>5, <1>9 DEF rest
  <2>5. lineno + 1 < Len(file)
    BY <1>1, <1>3, <2>4
  <2>6. LeftAfter(lineno + 1, left)
    BY <1>3, <2>3, <2>5, Zenon DEF LeftAfter, left, rest
  <2> QED
    BY <1>2, <2>3, <2>6, Zenon DEF c, left
<1>10. CASE unread = Front(d) /\ rest = <<>>
  <2>1. unread = c
    <3>1. d = Append(c, "\n")
      BY <1>5, <1>7, <1>10, ConcatEmptySeq
    <3> QED
      BY <1>4, <1>10, <3>1, Chars, FrontOfAppend
  <2>2. Chunk = c /\ SubSeq(unread, Len(Chunk) + 1, Len(unread)) = rest
    BY <1>4, <1>10, <2>1, ChunkOfLast
  <2>3. LeftAfter(lineno + 1, left)
    BY <1>3, <2>2, Zenon DEF LeftAfter, left, rest
  <2> QED
    BY <1>2, <2>2, <2>3, Zenon DEF c, left
<1> QED
  BY <1>6, <1>8, <1>9, <1>10, Zenon

-----------------------------------------------------------------------------
(* What the code makes of a line. *)

\* t is what is left of c without the blanks around it, from position p + 1 on.
Trimmed(t, p, c) ==
  /\ t \in Seq(Char) /\ p \in Nat /\ p + Len(t) <= Len(c)
  /\ \A i \in 1..Len(t) : t[i] = c[p + i]
  /\ \A i \in 1..Len(c) : i <= p \/ p + Len(t) < i => c[i] \in Space
  /\ t # <<>> => t[1] \notin Space /\ t[Len(t)] \notin Space

\* Stripping at the end and then at the beginning leaves that.
LEMMA StripsToTrimmed ==
  ASSUME NEW c \in Seq(Char)
  PROVE  \E p \in 0..Len(c) : Trimmed(LStrip(RStrip(c)), p, c)
<1>1. PICK z \in 0..Len(c) :
         /\ RStrip(c) = SubSeq(c, 1, z)
         /\ z # 0 => c[z] \notin Space
         /\ \A i \in 1..Len(c) : z < i => c[i] \in Space
  BY RStripMeans
<1> DEFINE r == SubSeq(c, 1, z)
<1>2. Len(c) \in Nat /\ z \in Nat /\ z <= Len(c)
  OBVIOUS
<1>3. r \in Seq(Char) /\ Len(r) = z /\ \A i \in 1..z : r[i] = c[i]
  <2>1. /\ r \in Seq(Char) /\ Len(r) = IF 1 <= z THEN z - 1 + 1 ELSE 0
        /\ \A i \in 1..(z - 1 + 1) : r[i] = c[1 + i - 1]
    BY <1>2, Part
  <2> HIDE DEF r
  <2> QED
    BY <1>2, <2>1
<1> HIDE DEF r
<1>4. PICK k \in 1..(Len(r) + 1) :
         /\ LStrip(r) = SubSeq(r, k, Len(r))
         /\ k <= Len(r) => r[k] \notin Space
         /\ \A i \in 1..Len(r) : i < k => r[i] \in Space
  BY <1>3, LStripMeans
<1> DEFINE t == SubSeq(r, k, Len(r))
           p == k - 1
<1>5. k \in Nat \ {0} /\ k <= z + 1 /\ p \in 0..Len(c) /\ p \in Nat
  BY <1>2, <1>3
<1>6. t \in Seq(Char) /\ Len(t) = z - p /\ \A i \in 1..(z - p) : t[i] = r[p + i]
  <2>1. Len(r) \in 0..Len(r)
    BY <1>2, <1>3
  <2>2. /\ t \in Seq(Char) /\ Len(t) = IF k <= Len(r) THEN Len(r) - k + 1 ELSE 0
        /\ \A i \in 1..(Len(r) - k + 1) : t[i] = r[k + i - 1]
    BY <1>3, <1>5, <2>1, Part
  <2> HIDE DEF t
  <2> QED
    BY <1>2, <1>3, <1>5, <2>2
<1> HIDE DEF t
<1>7. ASSUME NEW i \in 1..Len(t) PROVE t[i] = c[p + i]
  <2>1. i \in 1..(z - p) /\ p + i \in 1..z
    BY <1>2, <1>5, <1>6
  <2> QED
    BY <1>3, <1>6, <2>1
<1>8. ASSUME NEW i \in 1..Len(c), i <= p \/ p + Len(t) < i PROVE c[i] \in Space
  <2>1. CASE i <= p
    <3>1. i \in 1..z /\ i < k
      BY <1>2, <1>5, <2>1
    <3> QED
      BY <1>3, <1>4, <3>1
  <2>2. CASE p + Len(t) < i
    <3>1. z < i
      BY <1>2, <1>5, <1>6, <2>2
    <3> QED
      BY <1>1, <3>1
  <2> QED
    BY <1>8, <2>1, <2>2
<1>9. ASSUME t # <<>> PROVE t[1] \notin Space /\ t[Len(t)] \notin Space
  <2>1. Len(t) \in Nat \ {0}
    BY <1>6, <1>9, EmptySeq
  <2>2. 1 \in 1..Len(t) /\ Len(t) \in 1..Len(t) /\ p + 1 = k /\ p + Len(t) = z /\ k <= z /\ k \in 1..z /\ z # 0
    BY <1>2, <1>5, <1>6, <2>1
  <2>3. t[1] = c[k] /\ t[Len(t)] = c[z]
    <3> HIDE DEF p
    <3> QED
      BY <1>7, <2>2
  <2> QED
    BY <1>1, <1>3, <1>4, <2>2, <2>3
<1>10. p + Len(t) <= Len(c)
  BY <1>2, <1>5, <1>6
<1>11. Trimmed(t, p, c)
  BY <1>5, <1>6, <1>7, <1>8, <1>9, <1>10, Zenon DEF Trimmed
<1>12. LStrip(RStrip(c)) = t
  BY <1>1, <1>4 DEF r, t
<1> QED
  BY <1>5, <1>11, <1>12, Zenon

\* The end of a line is one of the blanks.
LEMMA EndStripped ==
  ASSUME NEW c \in Seq(Char)
  PROVE  RStrip(Append(c, "\n")) = RStrip(c)
<1> DEFINE u == Append(c, "\n")
<1>1. PICK z \in 0..Len(c) :
         /\ RStrip(c) = SubSeq(c, 1, z)
         /\ z # 0 => c[z] \notin Space
         /\ \A i \in 1..Len(c) : z < i => c[i] \in Space
  BY RStripMeans
<1>2. Len(c) \in Nat /\ z \in Nat /\ z <= Len(c)
  OBVIOUS
<1>3. /\ u \in Seq(Char) /\ Len(u) = Len(c) + 1 /\ u[Len(c) + 1] = "\n"
      /\ \A i \in 1..Len(c) : u[i] = c[i]
  BY Chars, AppendProperties
<1> HIDE DEF u
<1>4. z \in 0..Len(u) /\ (z # 0 => u[z] \notin Space)
  BY <1>1, <1>2, <1>3
<1>5. ASSUME NEW i \in 1..Len(u), z < i PROVE u[i] \in Space
  <2>1. CASE i = Len(c) + 1
    BY <1>3, <2>1, Chars
  <2>2. CASE i # Len(c) + 1
    <3>1. i \in 1..Len(c)
      BY <1>2, <1>3, <2>2
    <3> QED
      BY <1>1, <1>3, <1>5, <3>1
  <2> QED
    BY <2>1, <2>2
<1>6. RStrip(u) = SubSeq(u, 1, z)
  BY <1>3, <1>4, <1>5, RStripIs
<1>7. SubSeq(u, 1, z) = SubSeq(c, 1, z)
  <2> DEFINE v == SubSeq(u, 1, z)
             w == SubSeq(c, 1, z)
  <2>1. /\ v \in Seq(Char) /\ Len(v) = IF 1 <= z THEN z - 1 + 1 ELSE 0
        /\ \A i \in 1..(z - 1 + 1) : v[i] = u[1 + i - 1]
    BY <1>3, <1>4, Part
  <2>2. /\ w \in Seq(Char) /\ Len(w) = IF 1 <= z THEN z - 1 + 1 ELSE 0
        /\ \A i \in 1..(z - 1 + 1) : w[i] = c[1 + i - 1]
    BY Part
  <2> HIDE DEF v, w
  <2>3. ASSUME NEW i \in 1..Len(v) PROVE v[i] = w[i]
    <3>1. i \in 1..(z - 1 + 1) /\ 1 + i - 1 = i /\ i \in 1..Len(c)
      BY <1>2, <2>1
    <3> QED
      BY <1>3, <2>1, <2>2, <3>1
  <2>4. v = w
    BY <2>1, <2>2, <2>3, SeqEqual
  <2> QED
    BY <2>4 DEF v, w
<1> QED
  BY <1>1, <1>6, <1>7 DEF u

\* The code looks at the line without the blanks around it, whether or not it has
\* an end.
LEMMA StartIs ==
  ASSUME NEW c \in Seq(Char), Chunk = c \/ Chunk = Append(c, "\n")
  PROVE  /\ RStrip(Chunk) = RStrip(c)
         /\ \E p \in 0..Len(c) : Trimmed(Start, p, c)
<1>1. RStrip(Chunk) = RStrip(c)
  BY EndStripped
<1>2. Start = LStrip(RStrip(c))
  BY <1>1 DEF Start
<1> QED
  BY <1>1, <1>2, StripsToTrimmed

\* The line sets the option o: it has a separator behind just that name.
LEMMA PairHasName ==
  ASSUME NEW c \in Seq(Char), NEW p \in Nat, Trimmed(Start, p, c), IsPair, Name \in Option
  PROVE  \E e \in 1..Len(c) : c[e] \in {"=", ":"} /\ NamedBefore(c, e, Name)
<1> DEFINE t == Start
           s == Separator
           u == SubSeq(t, 1, s - 1)
           e == p + s
<1>1. /\ t \in Seq(Char) /\ p + Len(t) <= Len(c)
      /\ \A i \in 1..Len(t) : t[i] = c[p + i]
      /\ \A i \in 1..Len(c) : i <= p \/ p + Len(t) < i => c[i] \in Space
  BY Zenon DEF Trimmed
<1>2. Len(t) \in Nat /\ Len(c) \in Nat
  BY <1>1
<1>3. s \in 1..(Len(t) + 1)
  BY <1>1, FindCharMeans DEF Separator
<1>4. At(t, s) \in {"=", ":"}
  BY Zenon DEF IsPair
<1> HIDE DEF t, s
<1>5. s \in 1..Len(t) /\ t[s] \in {"=", ":"}
  <2>1. NUL \notin {"=", ":"}
    BY Chars
  <2>2. s \in DOMAIN t /\ t[s] \in {"=", ":"}
    BY <1>4, <2>1, Zenon DEF At
  <2> QED
    BY <1>1, <2>2
<1>6. e \in 1..Len(c) /\ c[e] \in {"=", ":"}
  BY <1>1, <1>2, <1>5
<1>7. /\ u \in Seq(Char) /\ Len(u) = s - 1
      /\ \A i \in 1..(s - 1) : u[i] = t[i]
  <2>1. s - 1 \in 0..Len(t)
    BY <1>2, <1>5
  <2>2. /\ u \in Seq(Char) /\ Len(u) = IF 1 <= s - 1 THEN (s - 1) - 1 + 1 ELSE 0
        /\ \A i \in 1..((s - 1) - 1 + 1) : u[i] = t[1 + i - 1]
    BY <1>1, <2>1, Part
  <2> HIDE DEF u
  <2> QED
    BY <1>5, <2>2
<1> HIDE DEF u
<1>8. PICK m \in 0..Len(u) :
         /\ RStrip(u) = SubSeq(u, 1, m)
         /\ m # 0 => u[m] \notin Space
         /\ \A i \in 1..Len(u) : m < i => u[i] \in Space
  BY <1>7, RStripMeans
<1> DEFINE o == SubSeq(u, 1, m)
<1>9. Name = o
  BY <1>8, Zenon DEF Name, u, t, s
<1>10. Len(o) = m /\ \A i \in 1..m : o[i] = u[i]
  <2>1. /\ o \in Seq(Char) /\ Len(o) = IF 1 <= m THEN m - 1 + 1 ELSE 0
        /\ \A i \in 1..(m - 1 + 1) : o[i] = u[1 + i - 1]
    BY <1>7, Part
  <2> HIDE DEF o
  <2> QED
    BY <1>7, <2>1
<1> HIDE DEF o
<1>11. m \in Nat /\ m <= s - 1
  BY <1>5, <1>7, <1>8
<1>12. p \in 0..(e - 1 - Len(o))
  BY <1>5, <1>10, <1>11
<1>13. ASSUME NEW i \in 1..Len(o) PROVE c[p + i] = o[i]
  <2>1. i \in 1..m /\ i \in 1..(s - 1) /\ i \in 1..Len(t)
    BY <1>2, <1>5, <1>10, <1>11
  <2> QED
    BY <1>1, <1>7, <1>10, <2>1
<1>14. ASSUME NEW i \in 1..(e - 1), i \notin (p + 1)..(p + Len(o)) PROVE c[i] \in Space
  <2>1. CASE i <= p
    <3>1. i \in 1..Len(c)
      BY <1>2, <1>6, <1>14
    <3> QED
      BY <1>1, <2>1, <3>1
  <2>2. CASE ~(i <= p)
    <3> DEFINE j == i - p
    <3>1. p + j = i /\ j \in Nat \ {0} /\ s \in Nat /\ j <= s - 1
      BY <1>5, <1>14, <2>2
    <3> HIDE DEF j
    <3>2. m < j
      BY <1>10, <1>11, <1>14, <3>1
    <3>3. j \in 1..(s - 1) /\ j \in 1..Len(t)
      BY <1>2, <1>5, <3>1
    <3>4. c[i] = t[j] /\ t[j] = u[j]
      BY <1>1, <1>7, <3>1, <3>3, Zenon
    <3>5. u[j] \in Space
      BY <1>7, <1>8, <3>2, <3>3
    <3> QED
      BY <3>4, <3>5
  <2> QED
    BY <2>1, <2>2
<1>15. NamedBefore(c, e, o)
  BY <1>12, <1>13, <1>14, Zenon DEF NamedBefore
<1> HIDE DEF e
<1> QED
  BY <1>6, <1>9, <1>15, Zenon

\* A line that is not meant to set an option sets none.
LEMMA UnsetLine ==
  ASSUME NEW l \in Line, SetsNothing(l), Chunk = l.chars \/ Chunk = Append(l.chars, "\n")
  PROVE  ~(IsPair /\ Name \in Option)
<1> SUFFICES ASSUME IsPair, Name \in Option PROVE FALSE
  OBVIOUS
<1>1. l.chars \in Seq(Char)
  BY LineAssumption, Zenon
<1>2. PICK p \in 0..Len(l.chars) : Trimmed(Start, p, l.chars)
  BY <1>1, StartIs
<1>3. p \in Nat
  BY <1>1, <1>2
<1>4. PICK e \in 1..Len(l.chars) : l.chars[e] \in {"=", ":"} /\ NamedBefore(l.chars, e, Name)
  BY <1>1, <1>2, <1>3, PairHasName
<1>5. e \in DOMAIN l.chars
  BY <1>1, <1>4
<1> QED
  BY <1>4, <1>5, Zenon DEF SetsNothing

\* The string t begins with the name o and blanks, up to position s.
NameUpto(t, s, o) ==
  /\ s \in 1..Len(t) /\ Len(o) < s /\ Len(o) \in Nat \ {0}
  /\ \A i \in 1..Len(o) : t[i] = o[i]
  /\ \A i \in 1..Len(t) : i < s /\ Len(o) < i => t[i] \in Space

\* What is left of a line that sets an option begins with its name, up to the
\* separator.
LEMMA NamePlace ==
  ASSUME NEW c \in Seq(Char), NEW t, NEW p \in Nat, Trimmed(t, p, c), NEW o \in Option,
         NEW e \in 1..Len(c), c[e] \in {"=", ":"}, NamedBefore(c, e, o)
  PROVE  NameUpto(t, e - p, o)
<1>1. /\ t \in Seq(Char) /\ p + Len(t) <= Len(c)
      /\ \A i \in 1..Len(t) : t[i] = c[p + i]
      /\ \A i \in 1..Len(c) : i <= p \/ p + Len(t) < i => c[i] \in Space
      /\ t # <<>> => t[1] \notin Space /\ t[Len(t)] \notin Space
  BY Zenon DEF Trimmed
<1>2. Len(t) \in Nat /\ Len(c) \in Nat
  BY <1>1
<1>3. PICK a \in 0..(e - 1 - Len(o)) :
        /\ \A i \in 1..Len(o) : c[a + i] = o[i]
        /\ \A i \in 1..(e - 1) : i \in (a + 1)..(a + Len(o)) \/ c[i] \in Space
  BY Zenon DEF NamedBefore
<1>4. Len(o) \in Nat \ {0} /\ \A i \in 1..Len(o) : o[i] \notin Space
  BY OptionChars, EmptySeq
<1>5. c[e] \notin Space
  BY Chars
<1>6. ~(e <= p) /\ ~(p + Len(t) < e)
  BY <1>1, <1>5
<1>7. e - p \in 1..Len(t)
  BY <1>2, <1>6
<1>8. t # <<>> /\ 1 \in 1..Len(t)
  BY <1>2, <1>7
<1>9. c[p + 1] \notin Space
  BY <1>1, <1>8
<1>10. c[a + 1] \notin Space
  <2>1. 1 \in 1..Len(o)
    BY <1>4
  <2>2. c[a + 1] = o[1]
    BY <1>3, <2>1, Zenon
  <2>3. o[1] \notin Space
    BY <1>4, <2>1, Zenon
  <2> QED
    BY <2>2, <2>3
<1>11. a + 1 \in 1..Len(c) /\ a + 1 <= e - 1 /\ a \in Nat
  <2>1. a \in 0..(e - 1 - Len(o)) /\ Len(o) \in Nat \ {0} /\ e \in 1..Len(c)
    BY <1>4
  <2> QED
    BY <1>2, <2>1
<1>12. a = p
  <2>1. ~(a + 1 <= p)
    BY <1>1, <1>10, <1>11
  <2>2. ~(p + 1 <= a)
    <3> SUFFICES ASSUME p + 1 <= a PROVE FALSE
      OBVIOUS
    <3>1. p + 1 \in 1..(e - 1) /\ p + 1 \notin (a + 1)..(a + Len(o))
      BY <1>4, <1>11
    <3> QED
      BY <1>3, <1>9, <3>1
  <2> QED
    BY <1>11, <2>1, <2>2
<1>13. Len(o) < e - p
  BY <1>3, <1>4, <1>12
<1>14. ASSUME NEW i \in 1..Len(o) PROVE t[i] = o[i]
  <2>1. i \in 1..Len(t)
    BY <1>2, <1>4, <1>7, <1>13
  <2> QED
    BY <1>1, <1>3, <1>12, <2>1
<1>15. ASSUME NEW i \in 1..Len(t), i < e - p, Len(o) < i PROVE t[i] \in Space
  <2>1. p + i \in 1..(e - 1) /\ p + i \notin (p + 1)..(p + Len(o))
    BY <1>4, <1>7, <1>15
  <2> QED
    BY <1>1, <1>3, <1>12, <2>1
<1> QED
  BY <1>4, <1>7, <1>13, <1>14, <1>15, Zenon DEF NameUpto

\* Before the separator there is neither another one nor a comment.
LEMMA NothingBefore ==
  ASSUME NEW t \in Seq(Char), NEW o \in Option, NEW s, NameUpto(t, s, o)
  PROVE  \A i \in 1..Len(t) : i < s => t[i] # "=" /\ t[i] # ":" /\ t[i] # Semicolon /\ i \notin Comments(t)
<1>1. Len(o) \in Nat /\ \A i \in 1..Len(o) : o[i] \notin {"=", ":"} /\ o[i] # Semicolon
  BY OptionChars
<1>1a. /\ s \in 1..Len(t) /\ \A i \in 1..Len(o) : t[i] = o[i]
      /\ \A i \in 1..Len(t) : i < s /\ Len(o) < i => t[i] \in Space
  BY Zenon DEF NameUpto
<1>2. ASSUME NEW i \in 1..Len(t), i < s PROVE t[i] # "=" /\ t[i] # ":" /\ t[i] # Semicolon
  <2>1. CASE i <= Len(o)
    <3>1. i \in 1..Len(o)
      BY <1>1, <2>1
    <3> QED
      BY <1>1, <1>1a, <3>1
  <2>2. CASE ~(i <= Len(o))
    <3>1. Len(o) < i
      BY <1>1, <2>2
    <3>2. t[i] \in Space
      BY <1>2, <1>1a, <3>1
    <3> QED
      BY <3>2, Chars
  <2> QED
    BY <2>1, <2>2
<1>3. \A i \in 1..Len(t) : i < s => i \notin Comments(t)
  BY <1>2, CommentsAre
<1> QED
  BY <1>2, <1>3

\* TextBehind without its semicolon: behind the separator at e the text x begins
\* behind a, and g is where its comment begins or the line ends.
TextFrom(c, e, x, a, g) ==
  /\ e <= a /\ a + Len(x) < g
  /\ \A i \in 1..Len(x) : c[a + i] = x[i]
  /\ \A i \in 1..Len(c) : e < i /\ i < g => i \in (a + 1)..(a + Len(x)) \/ c[i] \in Space
  /\ g <= Len(c) => c[g] = Semicolon /\ x # <<>> /\ a + Len(x) < g - 1
  /\ x # <<>> => x[1] \notin Space /\ x[Len(x)] \notin Space
  /\ Comments(x) = {}

\* There are such places in a line that sets an option.
LEMMA TextPlace ==
  ASSUME NEW c \in Seq(Char), NEW e \in 1..Len(c), NEW x \in Seq(Char), TextBehind(c, e, x)
  PROVE  \E a \in Nat, g \in 1..(Len(c) + 1) : TextFrom(c, e, x, a, g)
<1>1. PICK a \in e..(Len(c) - Len(x)), g \in DOMAIN c \cup {Len(c) + 1} :
        /\ \A i \in 1..Len(x) : c[a + i] = x[i]
        /\ a + Len(x) < g /\ \A i \in (e + 1)..(g - 1) : i \in (a + 1)..(a + Len(x)) \/ c[i] \in Space
        /\ g \in DOMAIN c => c[g] = Semicolon /\ x # <<>> /\ a + Len(x) < g - 1
        /\ x # <<>> => {x[1], x[Len(x)]} \cap Space = {}
        /\ Comments(x) = {}
  BY Zenon DEF TextBehind, Semicolon
<1>2. Len(c) \in Nat /\ Len(x) \in Nat /\ DOMAIN c = 1..Len(c)
  OBVIOUS
<1>3. a \in Nat /\ e <= a
  BY <1>2
<1>4. g \in 1..(Len(c) + 1) /\ (g <= Len(c) => g \in DOMAIN c)
  BY <1>2
<1>5. ASSUME NEW i \in 1..Len(c), e < i, i < g PROVE i \in (a + 1)..(a + Len(x)) \/ c[i] \in Space
  <2>1. i \in (e + 1)..(g - 1)
    BY <1>2, <1>4, <1>5
  <2> QED
    BY <1>1, <2>1, Zenon
<1>6. x # <<>> => x[1] \notin Space /\ x[Len(x)] \notin Space
  BY <1>1, Zenon
<1> QED
  BY <1>1, <1>3, <1>4, <1>5, <1>6, Zenon DEF TextFrom

\* The code finds the separator that the author wrote.
LEMMA SeparatorFound ==
  ASSUME NEW l \in Line, NEW e \in 1..Len(l.chars), SetsOption(l, e), l.name \in Option,
         NEW p \in Nat, Trimmed(Start, p, l.chars)
  PROVE  Separator = e - p /\ IsPair
<1> DEFINE c == l.chars
           t == Start
           s == e - p
<1>1. c \in Seq(Char) /\ l.text \in Seq(Char) /\ e \in 1..Len(c)
  BY LineAssumption, Zenon
<1>2. /\ c[e] \in {"=", ":"} /\ NamedBefore(c, e, l.name) /\ TextBehind(c, e, l.text)
      /\ c[e] = ":" => \A i \in DOMAIN l.text : l.text[i] # "="
  BY Zenon DEF SetsOption
<1>2a. NameUpto(t, s, l.name)
  BY <1>1, <1>2, NamePlace
<1>3. s \in 1..Len(t) /\ Len(l.name) < s /\ Len(l.name) \in Nat \ {0}
  BY <1>2a, Zenon DEF NameUpto
<1>4. /\ t \in Seq(Char) /\ p + Len(t) <= Len(c)
      /\ \A i \in 1..Len(t) : t[i] = c[p + i]
  BY Zenon DEF Trimmed
<1>5. \A i \in 1..Len(t) : i < s => t[i] # "=" /\ t[i] # ":" /\ t[i] # Semicolon /\ i \notin Comments(t)
  BY <1>2a, <1>4, NothingBefore
<1>6. t[s] = c[e] /\ Len(t) \in Nat /\ Len(c) \in Nat
  <2>1. p + s = e
    BY <1>1
  <2>2. t[s] = c[p + s]
    BY <1>3, <1>4, Zenon
  <2>3. t \in Seq(Char)
    BY <1>4, Zenon
  <2> QED
    BY <1>1, <2>1, <2>2, <2>3
<1> HIDE DEF t, s, c
<1>7. s \in 1..(Len(t) + 1) /\ s \in DOMAIN t
  BY <1>3, <1>4, <1>6
<1>8. Separator = s
  <2>1. CASE c[e] = "="
    <3>1. FindChar(t, "=") = s
      BY <1>4, <1>5, <1>6, <1>7, <2>1, FindCharIs
    <3>2. At(t, s) = "="
      BY <1>6, <1>7, <2>1 DEF At
    <3> QED
      BY <3>1, <3>2, Zenon DEF Separator, t
  <2>2. CASE c[e] = ":"
    <3>1. FindChar(t, ":") = s
      BY <1>4, <1>5, <1>6, <1>7, <2>2, FindCharIs
    <3> DEFINE f == FindChar(t, "=")
    <3>2. At(t, f) # "="
      <4> SUFFICES ASSUME At(t, f) = "=" PROVE FALSE
        OBVIOUS
      <4>1. /\ f \in 1..(Len(t) + 1)
            /\ \A i \in 1..Len(t) : i < f => t[i] # "=" /\ i \notin Comments(t)
        BY <1>4, FindCharMeans
      <4>2. NUL # "="
        BY Chars
      <4> HIDE DEF f
      <4>3. f \in DOMAIN t /\ t[f] = "="
        BY <4>2, Zenon DEF At
      <4>4. f \in 1..Len(t) /\ s < f
        <5>1. f \in 1..Len(t)
          BY <1>4, <4>3
        <5>2. ~(f < s)
          BY <1>5, <4>3, <5>1
        <5>3. f # s
          BY <1>6, <2>2, <4>3
        <5> QED
          BY <1>3, <5>1, <5>2, <5>3
      <4>4a. PICK a \in Nat, g \in 1..(Len(c) + 1) : TextFrom(c, e, l.text, a, g)
        BY <1>1, <1>2, TextPlace
      <4>5. /\ e <= a /\ a + Len(l.text) < g
            /\ \A i \in 1..Len(l.text) : c[a + i] = l.text[i]
            /\ \A i \in 1..Len(c) : e < i /\ i < g => i \in (a + 1)..(a + Len(l.text)) \/ c[i] \in Space
            /\ g <= Len(c) => c[g] = Semicolon /\ l.text # <<>> /\ a + Len(l.text) < g - 1
        BY <4>4a, Zenon DEF TextFrom
      <4> DEFINE k == p + f
                 n == Len(l.text)
      <4>6. k \in 1..Len(c) /\ e < k /\ c[k] = "=" /\ n \in Nat /\ e \in 1..Len(c)
        <5>1. n \in Nat /\ e \in 1..Len(c)
          BY <1>1 DEF c
        <5>2. k \in 1..Len(c)
          <6>1. p + Len(t) <= Len(c) /\ f \in Nat /\ f >= 1 /\ f <= Len(t)
            BY <1>4, <1>6, <4>4
          <6> QED
            BY <1>6, <6>1
        <5>3. e < k
          BY <4>4, <5>1, <5>2 DEF s
        <5>4. c[k] = "="
          BY <1>4, <4>3, <4>4
        <5> QED
          BY <5>1, <5>2, <5>3, <5>4
      <4> HIDE DEF k, n
      <4>7. ~(k < g)
        <5> SUFFICES ASSUME k < g PROVE FALSE
          OBVIOUS
        <5>1. k \in (a + 1)..(a + n)
          <6>1. k \in (a + 1)..(a + n) \/ c[k] \in Space
            BY <4>5, <4>6, Zenon DEF n
          <6> QED
            BY <4>6, <6>1, Chars, Zenon
        <5>2. k - a \in 1..n /\ a + (k - a) = k
          BY <4>6, <5>1
        <5>3. l.text[k - a] = "="
          BY <4>5, <4>6, <5>2 DEF n
        <5>4. k - a \in DOMAIN l.text
          BY <1>1, <5>2 DEF n
        <5> QED
          BY <1>2, <2>2, <5>3, <5>4 DEF c
      <4>8. k # g
        BY <4>5, <4>6, Chars
      <4>9. g <= Len(c) /\ g < k
        BY <1>6, <4>6, <4>7, <4>8
      <4>10. c[g] = Semicolon /\ a + n < g - 1
        BY <4>5, <4>9 DEF n
      <4>11. g - 1 \in 1..Len(c) /\ e < g - 1 /\ g - 1 < g /\ g - 1 \notin (a + 1)..(a + n)
        BY <4>5, <4>6, <4>9, <4>10
      <4>12. c[g - 1] \in Space
        BY <4>5, <4>11 DEF n
      <4> DEFINE j == g - p
      <4>13. j \in 1..Len(t) /\ j - 1 \in 1..Len(t) /\ j < f /\ j > 1 /\ p + j = g /\ p + (j - 1) = g - 1
        <5> DEFINE T == Len(t)
        <5>1. e \in Nat /\ g \in Nat /\ f \in Nat /\ f <= T /\ p + f = k /\ T \in Nat
          BY <1>6, <4>4, <4>6 DEF k
        <5> HIDE DEF T
        <5>2. p < e
          BY <1>3, <5>1 DEF s
        <5>3. p < g - 1 /\ g < p + f
          BY <4>9, <4>11, <5>1, <5>2
        <5>4. p + j = g /\ j \in Int /\ p \in Nat
          BY <5>1
        <5> HIDE DEF j
        <5>5. 1 < j
          BY <5>1, <5>3, <5>4
        <5>6. j < f
          BY <5>1, <5>3, <5>4
        <5>7. p + (j - 1) = g - 1
          BY <5>1, <5>4
        <5>8. j \in 1..T /\ j - 1 \in 1..T
          BY <5>1, <5>4, <5>5, <5>6
        <5> QED
          BY <5>4, <5>5, <5>6, <5>7, <5>8 DEF T
      <4> HIDE DEF j
      <4>14. t[j] = Semicolon /\ t[j - 1] \in Space /\ j \in DOMAIN t
        <5>1. t[j] = c[g] /\ t[j - 1] = c[g - 1]
          BY <1>4, <4>13, Zenon
        <5>2. j \in DOMAIN t
          BY <1>4, <4>13
        <5> QED
          BY <4>10, <4>12, <5>1, <5>2, Zenon
      <4>15. j \in Comments(t)
        BY <4>13, <4>14, CommentsAre, Zenon
      <4> QED
        BY <4>1, <4>13, <4>15
    <3> QED
      BY <3>1, <3>2, Zenon DEF Separator, t
  <2> QED
    BY <1>2, <2>1, <2>2 DEF c
<1>9. IsPair
  <2>1. At(t, s) \in {"=", ":"}
    BY <1>2, <1>6, <1>7 DEF At, c
  <2>2. ~Ignored
    <3>1. 1 \in 1..Len(t) /\ 1 < s
      BY <1>3, <1>6
    <3>2. t[1] # Semicolon /\ t # <<>>
      BY <1>5, <1>6, <3>1
    <3> QED
      BY <3>2, Zenon DEF Ignored, Semicolon, t
  <2> QED
    BY <1>8, <2>1, <2>2, Zenon DEF IsPair, t
<1> QED
  BY <1>8, <1>9 DEF s

\* The name is what stands before the separator, without the blanks behind it.
LEMMA NameFound ==
  ASSUME NEW o \in Option, Start \in Seq(Char), NameUpto(Start, Separator, o)
  PROVE  Name = o
<1> DEFINE t == Start
           s == Separator
           u == SubSeq(t, 1, s - 1)
<1>1. o \in Seq(Char) /\ Len(o) \in Nat \ {0} /\ \A i \in 1..Len(o) : o[i] \notin Space
  BY OptionChars, EmptySeq
<1>2. /\ t \in Seq(Char) /\ Len(t) \in Nat /\ s \in 1..Len(t) /\ Len(o) < s
      /\ \A i \in 1..Len(o) : t[i] = o[i]
      /\ \A i \in 1..Len(t) : i < s /\ Len(o) < i => t[i] \in Space
  BY DEF NameUpto
<1>3. Name = RStrip(u)
  BY DEF Name
<1> HIDE DEF t, s
<1>4. /\ u \in Seq(Char) /\ Len(u) = s - 1
      /\ \A i \in 1..(s - 1) : u[i] = t[i]
  <2>1. s - 1 \in 0..Len(t)
    BY <1>2
  <2>2. /\ u \in Seq(Char) /\ Len(u) = IF 1 <= s - 1 THEN (s - 1) - 1 + 1 ELSE 0
        /\ \A i \in 1..((s - 1) - 1 + 1) : u[i] = t[1 + i - 1]
    BY <1>2, <2>1, Part
  <2> HIDE DEF u
  <2> QED
    BY <1>2, <2>2
<1> HIDE DEF u
<1>5. Len(o) \in 0..Len(u) /\ Len(o) \in 1..Len(o)
  BY <1>1, <1>2, <1>4
<1>6. \A i \in 1..Len(o) : u[i] = o[i]
  <2> SUFFICES ASSUME NEW i \in 1..Len(o) PROVE u[i] = o[i]
    OBVIOUS
  <2>1. i \in 1..(s - 1)
    BY <1>2, <1>4, <1>5
  <2> QED
    BY <1>2, <1>4, <2>1
<1>7. ASSUME NEW i \in 1..Len(u), Len(o) < i PROVE u[i] \in Space
  <2>1. i \in 1..(s - 1) /\ i \in 1..Len(t) /\ i < s
    BY <1>2, <1>4
  <2> QED
    BY <1>2, <1>4, <1>7, <2>1
<1>8. u[Len(o)] \notin Space
  BY <1>1, <1>5, <1>6
<1>9. RStrip(u) = SubSeq(u, 1, Len(o))
  BY <1>4, <1>5, <1>7, <1>8, RStripIs
<1>10. SubSeq(u, 1, Len(o)) = o
  BY <1>1, <1>4, <1>5, <1>6, Beginning
<1> QED
  BY <1>3, <1>9, <1>10

\* A comment behind a text is cut off, and the blanks between them.
LEMMA UncommentedIs ==
  ASSUME NEW w \in Seq(Char), NEW x \in Seq(Char), NEW m \in 1..(Len(w) + 1),
         Len(x) # 0, Len(x) < m, x[Len(x)] \notin Space, Comments(x) = {},
         \A i \in 1..Len(x) : w[i] = x[i],
         \A i \in 1..Len(w) : Len(x) < i /\ i < m => w[i] \in Space,
         m <= Len(w) => w[m] = Semicolon /\ Len(x) < m - 1
  PROVE  Uncommented(w) = x
<1> DEFINE y == SubSeq(w, 1, m - 1)
<1>1. Len(w) \in Nat /\ Len(x) \in Nat \ {0} /\ DOMAIN w = 1..Len(w) /\ DOMAIN x = 1..Len(x) /\ Len(x) <= m - 1 /\ m - 1 \in 0..Len(w)
  OBVIOUS
<1>2. m = Len(w) + 1 \/ m \in Comments(w)
  <2> SUFFICES ASSUME m <= Len(w) PROVE m \in Comments(w)
    BY <1>1
  <2>1. m \in DOMAIN w /\ m > 1 /\ m - 1 \in 1..Len(w) /\ Len(x) < m - 1 /\ m - 1 < m
    BY <1>1
  <2>2. w[m - 1] \in Space /\ w[m] = Semicolon
    BY <2>1
  <2> QED
    BY <2>1, <2>2, CommentsAre, Zenon
<1>3. ASSUME NEW i \in 1..Len(w), i < m PROVE w[i] # NUL /\ i \notin Comments(w)
  <2>1. w[i] \in Char
    BY ElementOfSeq
  <2>2. i \notin Comments(w)
    <3> SUFFICES ASSUME i \in Comments(w) PROVE FALSE
      OBVIOUS
    <3>1. w[i] = Semicolon /\ i > 1 /\ w[i - 1] \in Space
      BY CommentsAre, Zenon
    <3>2. i \in 1..Len(x)
      <4>1. w[i] \notin Space
        BY <3>1, Chars
      <4> QED
        BY <1>1, <1>3, <4>1
    <3>3. i - 1 \in 1..Len(x) /\ i \in DOMAIN x
      BY <1>1, <3>1, <3>2
    <3>4. x[i] = Semicolon /\ x[i - 1] \in Space
      BY <3>1, <3>2, <3>3
    <3>5. i \in Comments(x)
      BY <3>1, <3>3, <3>4, CommentsAre, Zenon
    <3> QED
      BY <3>5
  <2> QED
    BY <2>1, <2>2, Chars
<1>4. FindChar(w, NUL) = m
  BY <1>2, <1>3, FindCharIs
<1>5. /\ y \in Seq(Char) /\ Len(y) = m - 1
      /\ \A i \in 1..(m - 1) : y[i] = w[i]
  <2>1. /\ y \in Seq(Char) /\ Len(y) = IF 1 <= m - 1 THEN (m - 1) - 1 + 1 ELSE 0
        /\ \A i \in 1..((m - 1) - 1 + 1) : y[i] = w[1 + i - 1]
    BY <1>1, Part
  <2> HIDE DEF y
  <2> QED
    BY <1>1, <2>1
<1>6. Uncommented(w) = RStrip(y)
  BY <1>4 DEF Uncommented
<1> HIDE DEF y
<1>7. Len(x) \in 0..Len(y) /\ Len(x) \in 1..Len(x) /\ Len(x) <= Len(y)
  BY <1>1, <1>5
<1>8. \A i \in 1..Len(x) : y[i] = x[i]
  BY <1>1, <1>5
<1>9. ASSUME NEW i \in 1..Len(y), Len(x) < i PROVE y[i] \in Space
  <2>1. i \in 1..(m - 1) /\ i \in 1..Len(w) /\ i < m
    BY <1>1, <1>5
  <2> QED
    BY <1>5, <1>9, <2>1
<1>10. RStrip(y) = SubSeq(y, 1, Len(x))
  BY <1>5, <1>7, <1>8, <1>9, RStripIs
<1>11. SubSeq(y, 1, Len(x)) = x
  BY <1>5, <1>7, <1>8, Beginning
<1> QED
  BY <1>6, <1>10, <1>11

\* What stands behind the separator, without the blanks before it.
LEMMA RawValueIs ==
  ASSUME NEW c \in Seq(Char), NEW t, NEW p \in Nat, Trimmed(t, p, c),
         NEW e \in 1..Len(c), e - p \in 1..Len(t), NEW x \in Seq(Char), x # <<>>,
         NEW a \in Nat, NEW g \in 1..(Len(c) + 1), TextFrom(c, e, x, a, g)
  PROVE  \E w \in Seq(Char) :
           /\ w = LStrip(SubSeq(t, e - p + 1, Len(t)))
           /\ Len(w) = p + Len(t) - a /\ Len(x) <= Len(w)
           /\ \A i \in 1..Len(w) : w[i] = c[a + i]
<1> DEFINE s == e - p
           v == SubSeq(t, s + 1, Len(t))
           k == a - e + 1
           w == SubSeq(v, k, Len(v))
           C == Len(c)
           T == Len(t)
           X == Len(x)
           V == Len(v)
           W == Len(w)
<1>1. /\ t \in Seq(Char) /\ p + T <= C
      /\ \A i \in 1..T : t[i] = c[p + i]
      /\ \A i \in 1..C : i <= p \/ p + T < i => c[i] \in Space
  BY Zenon DEF Trimmed
<1>2. C \in Nat /\ T \in Nat /\ X \in Nat \ {0} /\ g \in 1..(C + 1) /\ e \in 1..C /\ s \in 1..T
  BY <1>1, EmptySeq
<1>3. /\ e <= a /\ a + X < g /\ x[1] \notin Space /\ x[X] \notin Space
      /\ \A i \in 1..X : c[a + i] = x[i]
      /\ \A i \in 1..C : e < i /\ i < g => i \in (a + 1)..(a + X) \/ c[i] \in Space
  BY Zenon DEF TextFrom
<1>4. /\ v \in Seq(Char) /\ V = IF s + 1 <= T THEN T - (s + 1) + 1 ELSE 0
      /\ \A i \in 1..(T - (s + 1) + 1) : v[i] = t[(s + 1) + i - 1]
  <2>1. s + 1 \in Nat \ {0} /\ T \in 0..Len(t)
    BY <1>2
  <2>2. t \in Seq(Char)
    BY <1>1, Zenon
  <2> DEFINE n == s + 1
  <2> HIDE DEF T, n, v, V, s
  <2>3. /\ SubSeq(t, n, T) \in Seq(Char) /\ Len(SubSeq(t, n, T)) = IF n <= T THEN T - n + 1 ELSE 0
        /\ \A i \in 1..(T - n + 1) : SubSeq(t, n, T)[i] = t[n + i - 1]
    <3>1. n \in Nat \ {0}
      BY <2>1 DEF n
    <3> QED
      BY <2>1, <2>2, <3>1, Part
  <2> QED
    BY <2>3, Zenon DEF v, V, T, n
<1>5. p \in Nat /\ a \in Nat /\ e \in Nat /\ g \in Nat /\ s \in Nat /\ p + s = e
  BY <1>2
<1>6. p + T <= C /\ e <= a /\ a + X < g
  BY <1>1, <1>3, Zenon
<1> HIDE DEF C, T, X, V, s, v
<1>7. V = T - s /\ V \in Nat
  BY <1>2, <1>4
\* The text is in what is left of the line.
<1>8. a + 1 \in 1..C /\ a + X \in 1..C /\ c[a + 1] \notin Space /\ c[a + X] \notin Space
  <2>1. 1 \in 1..X /\ X \in 1..X
    BY <1>2
  <2>2. g <= C + 1
    BY <1>2
  <2>3. a + 1 \in 1..C /\ a + X \in 1..C
    BY <1>2, <1>5, <1>6, <2>2
  <2>4. c[a + 1] = x[1] /\ c[a + X] = x[X]
    BY <1>3, <2>1, Zenon
  <2> QED
    BY <1>3, <2>3, <2>4, Zenon
<1>9. a + X <= p + T
  <2>1. ~(p + T < a + X)
    BY <1>1, <1>8, Zenon
  <2> QED
    BY <1>2, <1>5, <2>1
<1>10. ASSUME NEW i \in 1..V PROVE v[i] = c[e + i]
  <2>1. i \in 1..(T - (s + 1) + 1) /\ (s + 1) + i - 1 = s + i /\ s + i \in 1..T /\ p + (s + i) = e + i
    BY <1>2, <1>5, <1>7
  <2> QED
    BY <1>1, <1>4, <2>1
<1>11. k \in Nat \ {0} /\ e + k = a + 1
  BY <1>5, <1>6
<1> HIDE DEF k, w, W
<1>12. k <= V
  BY <1>2, <1>5, <1>7, <1>9, <1>11
<1>13. k \in 1..V
  BY <1>7, <1>11, <1>12
<1>14. v[k] \notin Space
  BY <1>8, <1>10, <1>11, <1>13
<1>15. ASSUME NEW i \in 1..V, i < k PROVE v[i] \in Space
  <2>1. e + i <= a /\ e < e + i
    BY <1>5, <1>11, <1>15
  <2>2. e + i \in 1..C
    BY <1>2, <1>5, <1>6, <1>9, <2>1
  <2>3. e + i < g /\ e + i \notin (a + 1)..(a + X)
    BY <1>2, <1>5, <1>6, <2>1
  <2>4. v[i] = c[e + i]
    BY <1>10
  <2> QED
    BY <1>3, <2>1, <2>2, <2>3, <2>4, Zenon
<1>16. LStrip(v) = w
  <2>1. k \in 1..(Len(v) + 1)
    BY <1>7, <1>13 DEF V
  <2>2. k <= Len(v) => v[k] \notin Space
    BY <1>14
  <2>3. \A i \in 1..Len(v) : i < k => v[i] \in Space
    BY <1>15, Zenon DEF V
  <2> QED
    BY <1>4, <2>1, <2>2, <2>3, LStripIs DEF w
<1>17. /\ w \in Seq(Char) /\ W = IF k <= V THEN V - k + 1 ELSE 0
       /\ \A i \in 1..(V - k + 1) : w[i] = v[k + i - 1]
  <2>1. V \in 0..Len(v)
    BY <1>7 DEF V
  <2>2. v \in Seq(Char) /\ k \in Nat \ {0}
    BY <1>4, <1>11, Zenon
  <2>3. /\ SubSeq(v, k, V) \in Seq(Char) /\ Len(SubSeq(v, k, V)) = IF k <= V THEN V - k + 1 ELSE 0
        /\ \A i \in 1..(V - k + 1) : SubSeq(v, k, V)[i] = v[k + i - 1]
    BY <2>1, <2>2, Part, Zenon
  <2> QED
    BY <2>3, Zenon DEF w, W, V
<1>18. W = V - k + 1 /\ W = p + T - a /\ X <= W
  <2>1. W = V - k + 1
    BY <1>12, <1>17, Zenon
  <2>2. V \in Int /\ T \in Int /\ k = a + 1 - e /\ V = p + T - e
    BY <1>2, <1>5, <1>7, <1>11
  <2>3. W = p + T - a
    BY <1>5, <2>1, <2>2
  <2>4. X <= W
    BY <1>2, <1>5, <1>9, <2>3
  <2> QED
    BY <2>1, <2>3, <2>4
<1>19. ASSUME NEW i \in 1..W PROVE w[i] = c[a + i]
  <2>1. i \in 1..(V - k + 1)
    BY <1>18
  <2>2. k + i - 1 \in 1..V /\ e + (k + i - 1) = a + i
    <3>1. i \in Nat \ {0} /\ i <= V - k + 1 /\ k \in Nat \ {0}
      BY <1>7, <1>11, <2>1
    <3>2. k + i - 1 \in 1..V
      BY <1>7, <3>1
    <3>3. e + (k + i - 1) = a + i
      BY <1>5, <1>11, <3>1
    <3> QED
      BY <3>2, <3>3
  <2>3. w[i] = v[k + i - 1]
    BY <1>17, <2>1, Zenon
  <2>4. v[k + i - 1] = c[e + (k + i - 1)]
    BY <1>10, <2>2, Zenon
  <2> QED
    BY <2>2, <2>3, <2>4, Zenon
<1> QED
  BY <1>16, <1>17, <1>18, <1>19, Zenon DEF v, s, T, X, W

\* An empty text leaves an empty value.
LEMMA NoText ==
  ASSUME NEW c \in Seq(Char), NEW t, NEW p \in Nat, Trimmed(t, p, c),
         NEW e \in 1..Len(c), e - p \in 1..Len(t),
         NEW a \in Nat, NEW g \in 1..(Len(c) + 1), TextFrom(c, e, <<>>, a, g)
  PROVE  Uncommented(LStrip(SubSeq(t, e - p + 1, Len(t)))) = <<>>
<1> DEFINE v == SubSeq(t, e - p + 1, Len(t))
           w == LStrip(v)
           f == FindChar(w, NUL)
<1>1. /\ t \in Seq(Char) /\ p + Len(t) <= Len(c)
      /\ \A i \in 1..Len(t) : t[i] = c[p + i]
      /\ t # <<>> => t[Len(t)] \notin Space
  BY Zenon DEF Trimmed
<1>2. Len(c) \in Nat /\ Len(t) \in Nat \ {0} /\ t # <<>> /\ e - p \in 1..Len(t)
  BY <1>1
<1>3. /\ a + Len(<<>>) < g /\ (g <= Len(c) => <<>> # <<>>)
      /\ \A i \in 1..Len(c) : e < i /\ i < g => i \in (a + 1)..(a + Len(<<>>)) \/ c[i] \in Space
  BY Zenon DEF TextFrom
<1>4. g = Len(c) + 1
  BY <1>2, <1>3
<1>5. ASSUME NEW i \in 1..Len(c), e < i PROVE c[i] \in Space
  <2>1. i < g /\ i \notin (a + 1)..(a + Len(<<>>))
    BY <1>2, <1>4
  <2> QED
    BY <1>3, <1>5, <2>1
<1>6. p + Len(t) \in 1..Len(c) /\ c[p + Len(t)] \notin Space
  <2>1. Len(t) \in 1..Len(t)
    BY <1>2
  <2>2. p + Len(t) \in 1..Len(c)
    BY <1>1, <1>2
  <2> QED
    BY <1>1, <1>2, <2>1, <2>2
<1>7. e - p = Len(t)
  <2>1. ~(e < p + Len(t))
    BY <1>5, <1>6
  <2> QED
    BY <1>2, <2>1
<1>8. v \in Seq(Char) /\ Len(v) = 0
  <2>1. Len(t) + 1 \in Nat \ {0} /\ Len(t) \in 0..Len(t) /\ ~(Len(t) + 1 <= Len(t))
    BY <1>2
  <2>2. /\ SubSeq(t, Len(t) + 1, Len(t)) \in Seq(Char)
        /\ Len(SubSeq(t, Len(t) + 1, Len(t))) = IF Len(t) + 1 <= Len(t) THEN Len(t) - (Len(t) + 1) + 1 ELSE 0
    BY <1>1, <2>1, Part
  <2> QED
    BY <1>7, <2>1, <2>2
<1> HIDE DEF v
<1>9. w \in Seq(Char) /\ Len(w) = 0
  <2>1. w \in Seq(Char) /\ Len(w) <= Len(v)
    BY <1>8, StripType
  <2> HIDE DEF w
  <2> QED
    BY <1>8, <2>1
<1> HIDE DEF w
<1>10. f = 1
  <2>1. f \in 1..(Len(w) + 1)
    BY <1>9, FindCharMeans
  <2> HIDE DEF f
  <2> QED
    BY <1>9, <2>1
<1> HIDE DEF f
<1>11. SubSeq(w, 1, f - 1) \in Seq(Char) /\ Len(SubSeq(w, 1, f - 1)) = 0
  <2>1. 1 \in Nat \ {0} /\ f - 1 \in 0..Len(w) /\ ~(1 <= f - 1)
    BY <1>9, <1>10
  <2>2. SubSeq(w, 1, f - 1) \in Seq(Char) /\ Len(SubSeq(w, 1, f - 1)) = IF 1 <= f - 1 THEN f - 1 - 1 + 1 ELSE 0
    BY <1>9, <2>1, Part
  <2> QED
    BY <2>1, <2>2
<1>12. Uncommented(w) \in Seq(Char) /\ Len(Uncommented(w)) <= 0
  BY <1>11, StripType DEF Uncommented, f
<1>13. Uncommented(w) = <<>>
  BY <1>12, EmptySeq
<1> QED
  BY <1>13 DEF w, v

\* The code finds the value that the author wrote.
LEMMA ValueFound ==
  ASSUME NEW c \in Seq(Char), NEW t, NEW p \in Nat, Trimmed(t, p, c),
         NEW e \in 1..Len(c), e - p \in 1..Len(t), NEW x \in Seq(Char), TextBehind(c, e, x)
  PROVE  Uncommented(LStrip(SubSeq(t, e - p + 1, Len(t)))) = x
<1>1. PICK a \in Nat, g \in 1..(Len(c) + 1) : TextFrom(c, e, x, a, g)
  BY TextPlace
<1>2. CASE x = <<>>
  BY <1>1, <1>2, NoText
<1>3. CASE x # <<>>
  <2> DEFINE C == Len(c)
             T == Len(t)
             X == Len(x)
  <2>1. PICK w \in Seq(Char) :
          /\ w = LStrip(SubSeq(t, e - p + 1, Len(t)))
          /\ Len(w) = p + T - a /\ X <= Len(w)
          /\ \A i \in 1..Len(w) : w[i] = c[a + i]
    BY <1>1, <1>3, RawValueIs
  <2> DEFINE W == Len(w)
  <2>2. /\ t \in Seq(Char) /\ p + T <= C
        /\ \A i \in 1..C : i <= p \/ p + T < i => c[i] \in Space
    BY Zenon DEF Trimmed
  <2>3. C \in Nat /\ T \in Nat /\ X \in Nat \ {0} /\ W \in Nat /\ g \in 1..(C + 1) /\ e \in 1..C
    BY <1>3, <2>1, <2>2, EmptySeq
  <2>4. /\ e <= a /\ a + X < g /\ x[X] \notin Space /\ Comments(x) = {}
        /\ \A i \in 1..X : c[a + i] = x[i]
        /\ \A i \in 1..C : e < i /\ i < g => i \in (a + 1)..(a + X) \/ c[i] \in Space
        /\ g <= C => c[g] = Semicolon /\ a + X < g - 1
    BY <1>1, <1>3, Zenon DEF TextFrom
  <2>5. /\ W = p + T - a /\ X <= W /\ p + T <= C /\ e <= a /\ a + X < g
        /\ \A i \in 1..W : w[i] = c[a + i]
    BY <2>1, <2>2, <2>4, Zenon
  <2> HIDE DEF C, T, X, W
  <2>6. /\ p \in Nat /\ a \in Nat /\ g \in Nat /\ e \in Nat /\ W \in Nat /\ X \in Nat /\ C \in Nat
        /\ a + W = p + T /\ a + W <= C /\ g <= C + 1 /\ X <= W /\ e <= a /\ a + X < g
    BY <2>3, <2>5
  <2>7. g <= C => g <= a + W
    <3> SUFFICES ASSUME g <= C, p + T < g PROVE FALSE
      BY <2>6
    <3>1. g \in 1..C
      BY <2>3
    <3>2. c[g] \in Space /\ c[g] = Semicolon
      BY <2>2, <2>4, <3>1, Zenon
    <3> QED
      BY <3>2, Chars
  <2> DEFINE m == IF g <= C THEN g - a ELSE W + 1
  <2>8. m \in Nat /\ X < m /\ m <= W + 1 /\ (m <= W => a + m = g /\ g <= C) /\ a + m <= g
    <3>1. CASE g <= C
      BY <2>6, <2>7, <3>1
    <3>2. CASE ~(g <= C)
      BY <2>6, <3>2
    <3> QED
      BY <3>1, <3>2
  <2> HIDE DEF m
  <2>9. m <= W => w[m] = Semicolon /\ X < m - 1
    <3> SUFFICES ASSUME m <= W PROVE w[m] = Semicolon /\ X < m - 1
      OBVIOUS
    <3>1. a + m = g /\ g <= C /\ m \in 1..W
      BY <2>6, <2>8
    <3>2. c[g] = Semicolon /\ a + X < g - 1
      BY <2>4, <3>1, Zenon
    <3>3. w[m] = c[a + m]
      BY <2>5, <3>1, Zenon
    <3>4. X < m - 1
      BY <2>6, <2>8, <3>1, <3>2
    <3> QED
      BY <3>1, <3>2, <3>3, <3>4, Zenon
  <2>10. ASSUME NEW i \in 1..X PROVE w[i] = x[i]
    <3>1. i \in 1..W
      BY <2>6
    <3> QED
      BY <2>4, <2>5, <3>1, Zenon
  <2>11. ASSUME NEW i \in 1..W, X < i, i < m PROVE w[i] \in Space
    <3>1. a + i \in 1..C /\ e < a + i
      BY <2>6, <2>11
    <3>2. a + i < g /\ a + i \notin (a + 1)..(a + X)
      BY <2>6, <2>8, <2>11
    <3> QED
      BY <2>4, <2>5, <3>1, <3>2, Zenon
  <2>12. Uncommented(w) = x
    <3>1. X # 0 /\ X < m /\ m \in 1..(Len(w) + 1)
      BY <2>3, <2>8 DEF W
    <3>2. /\ Len(x) # 0 /\ Len(x) < m /\ x[Len(x)] \notin Space /\ Comments(x) = {}
          /\ \A i \in 1..Len(x) : w[i] = x[i]
          /\ \A i \in 1..Len(w) : Len(x) < i /\ i < m => w[i] \in Space
          /\ m <= Len(w) => w[m] = Semicolon /\ Len(x) < m - 1
      BY <2>4, <2>9, <2>10, <2>11, <3>1, Zenon DEF X, W
    <3> QED
      BY <3>1, <3>2, UncommentedIs
  <2> QED
    BY <2>1, <2>12
<1> QED
  BY <1>2, <1>3

\* A line that fgets returned whole sets the option that its author meant.
LEMMA SettingLine ==
  ASSUME NEW l \in Line, l \in WellWritten, l.name \in Option,
         Chunk = l.chars \/ Chunk = Append(l.chars, "\n")
  PROVE  /\ IsPair /\ Name = l.name /\ Value = l.text
         /\ l.name \in IntegerOption => Atoi(l.text) = l.number
<1>1. l.chars \in Seq(Char) /\ l.text \in Seq(Char)
  BY LineAssumption, Zenon
<1>2. l.name # <<>>
  BY OptionChars
<1>3. PICK e \in DOMAIN l.chars : SetsOption(l, e)
  BY <1>2, Zenon DEF WellWritten
<1>4. e \in 1..Len(l.chars)
  BY <1>1
<1>5. PICK p \in 0..Len(l.chars) : Trimmed(Start, p, l.chars)
  BY <1>1, StartIs
<1>6. p \in Nat
  BY <1>1
<1>7. Separator = e - p /\ IsPair
  BY <1>3, <1>4, <1>5, <1>6, SeparatorFound
<1>8. /\ l.chars[e] \in {"=", ":"} /\ NamedBefore(l.chars, e, l.name) /\ TextBehind(l.chars, e, l.text)
      /\ l.name \in IntegerOption => l.number = Atoi(l.text)
  BY <1>3, Zenon DEF SetsOption
<1>9. NameUpto(Start, e - p, l.name)
  <2>1. l.chars[e] \in {"=", ":"} /\ NamedBefore(l.chars, e, l.name)
    BY <1>8, Zenon
  <2> QED
    BY <1>1, <1>4, <1>5, <1>6, <2>1, NamePlace
<1>10. Start \in Seq(Char)
  BY <1>5, Zenon DEF Trimmed
<1>11. Name = l.name
  BY <1>7, <1>9, <1>10, NameFound
<1>12. Uncommented(LStrip(SubSeq(Start, e - p + 1, Len(Start)))) = l.text
  <2>1. e - p \in 1..Len(Start) /\ TextBehind(l.chars, e, l.text)
    BY <1>8, <1>9, Zenon DEF NameUpto
  <2> QED
    BY <1>1, <1>4, <1>5, <1>6, <2>1, ValueFound, Zenon
<1>13. Value = l.text
  BY <1>7, <1>12, Zenon DEF Value, RawValue
<1> QED
  BY <1>7, <1>8, <1>11, <1>13, Zenon

\* The next line of an accepted file does what it says: it sets its option, or
\* nothing.
LEMMA LineSets ==
  ASSUME lineno \in Nat, file \in Seq(Line), Accepted, Behind, unread # <<>>
  PROVE  LET l == file[lineno + 1]
         IN  /\ lineno + 1 \in 1..Len(file) /\ l \in Line
             /\ l.name \in Option => /\ IsPair /\ Name = l.name /\ Value = l.text
                                     /\ l.name \in IntegerOption => Atoi(Value) = l.number
             /\ l.name \notin Option => ~(IsPair /\ Name \in Option)
<1> DEFINE l == file[lineno + 1]
<1>1. lineno < Len(file) /\ (Chunk = l.chars \/ Chunk = Append(l.chars, "\n"))
  BY LineRead
<1>2. lineno + 1 \in 1..Len(file)
  BY <1>1
<1>3. l \in Line
  BY <1>2, ElementOfSeq
<1>4. l \in WellWritten
  <2>1. lineno + 1 \in DOMAIN file
    BY <1>2
  <2> QED
    BY <2>1, Zenon DEF Accepted
<1> HIDE DEF l
<1>5. CASE l.name \in Option
  BY <1>1, <1>2, <1>3, <1>4, <1>5, SettingLine, Zenon DEF l
<1>6. CASE l.name \notin Option
  <2>1. l.name = <<>>
    BY <1>3, <1>6, LineAssumption, Zenon
  <2>2. SetsNothing(l)
    BY <1>4, <2>1, Zenon DEF WellWritten
  <2>3. ~(IsPair /\ Name \in Option)
    BY <1>1, <1>3, <2>2, UnsetLine
  <2> QED
    BY <1>2, <1>3, <1>6, <2>3, Zenon DEF l
<1> QED
  BY <1>5, <1>6, Zenon

-----------------------------------------------------------------------------
(* What a file says. *)

\* The line a file is read up to is the last one that names an option, or the
\* same as before.
LEMMA MeantNext ==
  ASSUME file \in Seq(Line), NEW n \in Nat, n < Len(file), NEW o \in Option
  PROVE  Meant(o, n + 1) =
           IF file[n + 1].name # o THEN Meant(o, n)
           ELSE IF o \in StringOption THEN file[n + 1].text ELSE file[n + 1].number
<1>1. n + 1 \in 1..(n + 1) /\ 1..(n + 1) = (1..n) \cup {n + 1} /\ 1..(n + 1) \subseteq 0..(n + 1) /\ n + 1 \in Nat
  OBVIOUS
<1>2. CASE file[n + 1].name # o
  <2>1. Setting(o, n + 1) = Setting(o, n)
    BY <1>1, <1>2, Zenon DEF Setting
  <2> QED
    BY <1>2, <2>1, Zenon DEF Meant, LastSetting
<1>3. CASE file[n + 1].name = o
  <2> DEFINE T == Setting(o, n + 1)
  <2>1. n + 1 \in T
    BY <1>1, <1>3, Zenon DEF Setting
  <2>2. T \subseteq 1..(n + 1)
    BY Zenon DEF Setting
  <2>3. \A j \in T : n + 1 >= j
    <3> HIDE DEF T
    <3> QED
      BY <2>2
  <2>4. T \in SUBSET (0..(n + 1))
    BY <1>1, <2>2, Zenon
  <2> HIDE DEF T
  <2>5. Max(T) = n + 1
    BY <1>1, <2>1, <2>3, <2>4, MaxIs
  <2>6. LastSetting(o, n + 1) = file[n + 1] /\ T # {}
    BY <2>1, <2>5, Zenon DEF LastSetting, T
  <2> QED
    BY <1>3, <2>6, Zenon DEF Meant, T
<1> QED
  BY <1>2, <1>3, Zenon

-----------------------------------------------------------------------------
(* The types. *)

\* A file is a sequence of lines.
LEMMA FileType ==
  ASSUME NEW lines \in BoundedSeq(Line, MaxLines)
  PROVE  lines \in Seq(Line) /\ Len(lines) \in Nat
<1>1. PICK m \in 0..MaxLines : lines \in [1..m -> Line]
  BY Zenon DEF BoundedSeq, SeqOf
<1>2. m \in Nat
  BY SizeAssumption
<1>3. lines \in Seq(Line)
  BY <1>1, <1>2, SeqDef
<1> QED
  BY <1>3

\* The file is never empty behind a line.
LEMMA NotTheEnd ==
  ASSUME NEW lines \in Seq(Line), NEW n \in 0..Len(lines), n < Len(lines)
  PROVE  /\ OnDisk(lines, n) \in Seq(Char) /\ OnDisk(lines, n) # <<>>
         /\ Len(OnDisk(lines, n)) = Len(lines[n + 1].chars) + 1 + Len(OnDisk(lines, n + 1))
<1> DEFINE c == lines[n + 1].chars
           d == OnDisk(lines, n)
           r == OnDisk(lines, n + 1)
<1>1. n + 1 \in 0..Len(lines) /\ n + 1 \in 1..Len(lines)
  OBVIOUS
<1>2. d \in Seq(Char) /\ r \in Seq(Char) /\ d = Append(c, "\n") \o r
  BY <1>1, Disk
<1>3. c \in Seq(Char)
  <2>1. lines[n + 1] \in Line
    BY <1>1, ElementOfSeq
  <2> QED
    BY <2>1, LineAssumption, Zenon
<1> HIDE DEF c, d, r
<1>4. Append(c, "\n") \in Seq(Char) /\ Len(Append(c, "\n")) = Len(c) + 1
  BY <1>3, Chars, AppendProperties
<1>5. Len(d) = Len(c) + 1 + Len(r)
  BY <1>2, <1>4, ConcatProperties
<1>6. d # <<>>
  BY <1>2, <1>3, <1>5
<1> QED
  BY <1>2, <1>5, <1>6 DEF c, d, r

\* At first nothing has been read.
LEMMA UnreadAtFirst ==
  ASSUME file \in Seq(Line),
         \E ends \in BOOLEAN : unread = IF ends \/ file = <<>> THEN OnDisk(file, 0) ELSE Front(OnDisk(file, 0))
  PROVE  unread \in Seq(Char) /\ LeftAfter(0, unread)
<1>1. Len(file) \in Nat /\ 0 \in 0..Len(file) /\ 0 <= Len(file)
  OBVIOUS
<1>2. OnDisk(file, 0) \in Seq(Char)
  BY <1>1, Disk
<1>3. unread = OnDisk(file, 0) \/ (file # <<>> /\ unread = Front(OnDisk(file, 0)))
  BY Zenon
<1>4. CASE unread = OnDisk(file, 0)
  BY <1>1, <1>2, <1>4, Zenon DEF LeftAfter
<1>5. CASE file # <<>> /\ unread = Front(OnDisk(file, 0))
  <2>1. 0 < Len(file)
    BY <1>1, <1>5, EmptySeq
  <2>2. OnDisk(file, 0) # <<>>
    BY <1>1, <2>1, NotTheEnd
  <2>3. unread \in Seq(Char)
    BY <1>2, <1>5, <2>2, FrontIs
  <2> QED
    BY <1>1, <1>5, <2>1, <2>3, Zenon DEF LeftAfter
<1> QED
  BY <1>3, <1>4, <1>5

\* At first the types are right.
LEMMA TypeInit == Init => TypeOK
<1> SUFFICES ASSUME Init PROVE TypeOK
  OBVIOUS
<1>1. file \in Seq(Line)
  BY FileType DEF Init
<1>2. unread \in Seq(Char)
  BY <1>1, UnreadAtFirst, Zenon DEF Init
<1>3. values = [o \in Option |-> IF o \in StringOption THEN <<>> ELSE 0]
  BY DEF Init
<1>4. DOMAIN values = Option
  BY <1>3, Zenon
<1>5. ASSUME NEW o \in StringOption PROVE values[o] \in Seq(Char) /\ Len(values[o]) <= ValueMax
  <2>1. values[o] = <<>>
    BY <1>3, <1>5, Zenon DEF Option
  <2> QED
    BY <2>1, SizeAssumption
<1>6. ASSUME NEW o \in IntegerOption PROVE values[o] \in Int
  <2>1. o \in Option /\ o \notin StringOption
    BY OptionAssumption, Zenon DEF Option
  <2>2. values[o] = 0
    BY <1>3, <2>1, Zenon
  <2> QED
    BY <2>2
<1>7. pc = "init" /\ fd = "null" /\ lineno \in Nat /\ fault = "none"
  BY DEF Init
<1> QED
  BY <1>2, <1>4, <1>5, <1>6, <1>7 DEF TypeOK

\* A value that is stored has the type of its option.
LEMMA StoredType ==
  ASSUME TypeOK, unread # <<>>, Name \in Option
  PROVE  /\ DOMAIN Stored = Option
         /\ \A o \in StringOption : Stored[o] \in Seq(Char) /\ Len(Stored[o]) <= ValueMax
         /\ \A o \in IntegerOption : Stored[o] \in Int
<1> DEFINE n == Min({ValueMax, Len(Value)})
           cut == SubSeq(Value, 1, n)
<1>1. Value \in Seq(Char) /\ Len(Value) \in Nat /\ ValueMax \in Nat
  BY PartsType, SizeAssumption DEF TypeOK
<1>2. n \in 0..Len(Value) /\ n <= ValueMax /\ (n = ValueMax \/ n = Len(Value))
  <2>1. n \in {ValueMax, Len(Value)} /\ \A j \in {ValueMax, Len(Value)} : n <= j
    BY <1>1, MinOfPositions
  <2> HIDE DEF n
  <2> QED
    BY <1>1, <2>1
<1> HIDE DEF n
<1>3. cut \in Seq(Char) /\ Len(cut) = IF 1 <= n THEN n - 1 + 1 ELSE 0
  BY <1>1, <1>2, Part
<1>4. cut \in Seq(Char) /\ Len(cut) <= ValueMax
  BY <1>1, <1>2, <1>3
<1>5. Atoi(Value) \in Int
  BY <1>1, AtoiType
<1>6. /\ DOMAIN values = Option
      /\ \A o \in StringOption : values[o] \in Seq(Char) /\ Len(values[o]) <= ValueMax
      /\ \A o \in IntegerOption : values[o] \in Int
  BY Zenon DEF TypeOK
<1>7. Stored = [values EXCEPT ![Name] = IF Name \in StringOption THEN cut ELSE Atoi(Value)]
  BY Zenon DEF Stored, n
<1> HIDE DEF cut
<1>8. DOMAIN Stored = Option
  BY <1>6, <1>7, Zenon
<1>9. ASSUME NEW o \in Option
      PROVE  Stored[o] = IF o # Name THEN values[o] ELSE IF Name \in StringOption THEN cut ELSE Atoi(Value)
  BY <1>6, <1>7, Zenon
<1>10. StringOption \subseteq Option /\ IntegerOption \subseteq Option /\ StringOption \cap IntegerOption = {}
  BY OptionAssumption, Zenon DEF Option
<1>11. ASSUME NEW o \in StringOption PROVE Stored[o] \in Seq(Char) /\ Len(Stored[o]) <= ValueMax
  <2>1. CASE o = Name
    BY <1>4, <1>9, <1>10, <2>1, Zenon
  <2>2. CASE o # Name
    BY <1>6, <1>9, <1>10, <2>2, Zenon
  <2> QED
    BY <2>1, <2>2
<1>12. ASSUME NEW o \in IntegerOption PROVE Stored[o] \in Int
  <2>1. CASE o = Name
    <3>1. Name \notin StringOption
      BY <1>10, <2>1, Zenon
    <3> QED
      BY <1>5, <1>9, <1>10, <2>1, <3>1, Zenon
  <2>2. CASE o # Name
    BY <1>6, <1>9, <1>10, <2>2, Zenon
  <2> QED
    BY <2>1, <2>2
<1> QED
  BY <1>8, <1>11, <1>12

\* What is left unread is a string.
LEMMA RestType ==
  ASSUME unread \in Seq(Char), unread # <<>>
  PROVE  SubSeq(unread, Len(Chunk) + 1, Len(unread)) \in Seq(Char)
<1>1. PICK m \in 1..Len(unread) : Len(Chunk) = m
  BY ChunkType
<1>2. Len(Chunk) + 1 \in Nat \ {0} /\ Len(unread) \in 0..Len(unread)
  BY <1>1
<1> QED
  BY <1>2, Part

\* Every step keeps the types.
LEMMA TypeNext == TypeOK /\ [Next]_vars => TypeOK'
<1> SUFFICES ASSUME TypeOK, [Next]_vars PROVE TypeOK'
  OBVIOUS
<1>1. /\ pc \in {"init", "parse", "read", "run", "end"}
      /\ fd \in {"null", "open", "closed"}
      /\ unread \in Seq(Char) /\ lineno \in Nat
      /\ fault \in {"none", "bad_read"}
  BY Zenon DEF TypeOK
<1>2. /\ DOMAIN values = Option
      /\ \A o \in StringOption : values[o] \in Seq(Char) /\ Len(values[o]) <= ValueMax
      /\ \A o \in IntegerOption : values[o] \in Int
  BY Zenon DEF TypeOK
<1>3. CASE ConfigInit
  <2>1. /\ DOMAIN Default = Option
        /\ \A o \in StringOption : Default[o] \in Seq(Char) /\ Len(Default[o]) <= ValueMax
        /\ \A o \in IntegerOption : Default[o] \in Int
    BY DefaultAssumption, SizeAssumption
  <2> QED
    BY <1>1, <1>3, <2>1, Zenon DEF ConfigInit, TypeOK
<1>4. CASE ParseOpens
  BY <1>1, <1>2, <1>4, Zenon DEF ParseOpens, TypeOK
<1>5. CASE ParseFails
  BY <1>1, <1>2, <1>5, Zenon DEF ParseFails, TypeOK
<1>6. CASE ReadLine
  <2>1. unread # <<>> /\ unread' = SubSeq(unread, Len(Chunk) + 1, Len(unread)) /\ lineno' = lineno + 1 /\ pc' = pc /\ fd' = fd
    BY <1>6, Zenon DEF ReadLine
  <2>2. unread' \in Seq(Char)
    BY <1>1, <2>1, RestType
  <2>3. lineno' \in Nat
    BY <1>1, <2>1
  <2>4. \/ values' = values /\ fault' \in {"none", "bad_read"}
        \/ Name \in Option /\ values' = Stored /\ fault' = fault
    BY <1>1, <1>6, Zenon DEF ReadLine
  <2>5. /\ DOMAIN values' = Option
        /\ \A o \in StringOption : values'[o] \in Seq(Char) /\ Len(values'[o]) <= ValueMax
        /\ \A o \in IntegerOption : values'[o] \in Int
    BY <1>2, <2>1, <2>4, StoredType, Zenon
  <2>6. fault' \in {"none", "bad_read"}
    BY <1>1, <2>4
  <2> QED
    BY <1>1, <2>1, <2>2, <2>3, <2>5, <2>6, Zenon DEF TypeOK
<1>7. CASE ReadEnd
  BY <1>1, <1>2, <1>7, Zenon DEF ReadEnd, TypeOK
<1>8. CASE CmdDump
  <2>1. fault' \in {"none", "bad_read"}
    BY <1>8, Zenon DEF CmdDump
  <2> QED
    BY <1>1, <1>2, <1>8, <2>1, Zenon DEF CmdDump, TypeOK
<1>9. CASE ConfigDeinit
  <2>1. fd' \in {"null", "open", "closed"}
    BY <1>1, <1>9, Zenon DEF ConfigDeinit
  <2> QED
    BY <1>1, <1>2, <1>9, <2>1, Zenon DEF ConfigDeinit, TypeOK
<1>10. CASE UNCHANGED vars
  BY <1>1, <1>2, <1>10, Zenon DEF vars, TypeOK
<1> QED
  BY <1>3, <1>4, <1>5, <1>6, <1>7, <1>8, <1>9, <1>10, Zenon DEF Next

\* Every variable keeps the shape of its C declaration: whatever the line, a
\* string is copied within its field (evsip_config_parse).
THEOREM TypeCorrect == Spec => []TypeOK
<1>1. Init => TypeOK
  BY TypeInit
<1>2. TypeOK /\ [Next]_vars => TypeOK'
  BY TypeNext
<1> QED
  BY <1>1, <1>2, PTL DEF Spec

-----------------------------------------------------------------------------
(* The values are those that the file gives. *)

\* Until a fault every option has the value that the lines read so far give it.
GivenSoFar == Accepted /\ pc # "init" /\ fault = "none" => Given(lineno)

\* The inductive invariant: what the options hold depends on the lines counted,
\* and those on what is unread.
IInv == TypeOK /\ file \in Seq(Line) /\ InPlace /\ Behind /\ GivenSoFar

\* The values V are what the first n lines give.
GivenBy(V, n) ==
  /\ \A o \in IntegerOption : V[o] = Meant(o, n)
  /\ \A o \in StringOption : V[o] = SubSeq(Meant(o, n), 1, Min({ValueMax, Len(Meant(o, n))}))

\* A string that fits is not cut.
LEMMA NotCut ==
  ASSUME NEW s \in Seq(Char), Len(s) < ValueMax
  PROVE  SubSeq(s, 1, Min({ValueMax, Len(s)})) = s
<1>1. Len(s) \in Nat /\ ValueMax \in Nat
  BY SizeAssumption
<1>2. Min({ValueMax, Len(s)}) = Len(s)
  <2> DEFINE T == {ValueMax, Len(s)}
  <2>1. T \in SUBSET Nat /\ Len(s) \in T /\ \A j \in T : Len(s) <= j
    BY <1>1
  <2> HIDE DEF T
  <2>2. Min(T) = Len(s)
    BY <2>1, MinIs
  <2> QED
    BY <2>2 DEF T
<1> QED
  BY <1>2, SubSeqFull

\* Before the first line every option has its default.
LEMMA DefaultsGiven == GivenBy(Default, 0)
<1>1. ASSUME NEW o PROVE Meant(o, 0) = Default[o]
  <2>1. 1..0 = {}
    OBVIOUS
  <2>2. Setting(o, 0) = {}
    BY <2>1, Zenon DEF Setting
  <2> QED
    BY <2>2, Zenon DEF Meant
<1>2. ASSUME NEW o \in StringOption
      PROVE  Default[o] = SubSeq(Meant(o, 0), 1, Min({ValueMax, Len(Meant(o, 0))}))
  <2>1. Default[o] \in Seq(Char) /\ Len(Default[o]) < ValueMax
    BY DefaultAssumption, Zenon
  <2>2. SubSeq(Default[o], 1, Min({ValueMax, Len(Default[o])})) = Default[o]
    BY <2>1, NotCut
  <2> QED
    BY <1>1, <2>2, Zenon
<1> QED
  BY <1>1, <1>2, Zenon DEF GivenBy

\* The next line, if it sets its option as it says.
LEMMA NextLineGives ==
  ASSUME TypeOK, file \in Seq(Line), NEW n \in Nat, n < Len(file), Given(n),
         file[n + 1].name \in Option, Name = file[n + 1].name, Value = file[n + 1].text,
         file[n + 1].name \in IntegerOption => Atoi(Value) = file[n + 1].number
  PROVE  GivenBy(Stored, n + 1)
<1> DEFINE l == file[n + 1]
<1>1. \A o \in Option : Meant(o, n + 1) = IF l.name # o THEN Meant(o, n)
                                          ELSE IF o \in StringOption THEN l.text ELSE l.number
  BY MeantNext
<1>2. StringOption \subseteq Option /\ IntegerOption \subseteq Option /\ StringOption \cap IntegerOption = {}
  BY OptionAssumption, Zenon DEF Option
<1>3. DOMAIN values = Option
  BY Zenon DEF TypeOK
<1>4. /\ \A o \in IntegerOption : values[o] = Meant(o, n)
      /\ \A o \in StringOption : values[o] = SubSeq(Meant(o, n), 1, Min({ValueMax, Len(Meant(o, n))}))
  BY Zenon DEF Given
<1>5. \A o \in Option :
        Stored[o] = IF o # l.name THEN values[o]
                    ELSE IF o \in StringOption THEN SubSeq(Value, 1, Min({ValueMax, Len(Value)})) ELSE Atoi(Value)
  BY <1>3, Zenon DEF Stored
<1> HIDE DEF l
<1>6. l.name \in IntegerOption => Atoi(Value) = l.number
  BY Zenon DEF l
<1>7. Value = l.text
  BY Zenon DEF l
<1>8. ASSUME NEW o \in IntegerOption PROVE Stored[o] = Meant(o, n + 1)
  <2>1. o \in Option /\ o \notin StringOption
    BY <1>2, Zenon
  <2>2. CASE o = l.name
    BY <1>1, <1>5, <1>6, <2>1, <2>2, Zenon
  <2>3. CASE o # l.name
    BY <1>1, <1>4, <1>5, <2>1, <2>3, Zenon
  <2> QED
    BY <2>2, <2>3
<1>9. ASSUME NEW o \in StringOption
      PROVE  Stored[o] = SubSeq(Meant(o, n + 1), 1, Min({ValueMax, Len(Meant(o, n + 1))}))
  <2>1. o \in Option
    BY <1>2, Zenon
  <2>2. CASE o = l.name
    BY <1>1, <1>5, <1>7, <2>1, <2>2, Zenon
  <2>3. CASE o # l.name
    BY <1>1, <1>4, <1>5, <2>1, <2>3, Zenon
  <2> QED
    BY <2>2, <2>3
<1> QED
  BY <1>8, <1>9, Zenon DEF GivenBy

\* The next line, if it names no option.
LEMMA NextLineLeaves ==
  ASSUME file \in Seq(Line), NEW n \in Nat, n < Len(file), file[n + 1].name \notin Option, Given(n)
  PROVE  Given(n + 1)
<1>1. \A o \in Option : Meant(o, n + 1) = Meant(o, n)
  <2> SUFFICES ASSUME NEW o \in Option PROVE Meant(o, n + 1) = Meant(o, n)
    OBVIOUS
  <2>1. file[n + 1].name # o
    OBVIOUS
  <2> QED
    BY <2>1, MeantNext
<1> QED
  BY <1>1, Zenon DEF Given, Option

\* What is given depends on the file and the values only.
LEMMA SameFile ==
  ASSUME file' = file
  PROVE  /\ Accepted' <=> Accepted
         /\ \A n : (Given(n)' <=> GivenBy(values', n))
<1>1. Accepted' <=> Accepted
  BY Zenon DEF Accepted
<1>2. ASSUME NEW o, NEW n PROVE Meant(o, n)' = Meant(o, n)
  BY Zenon DEF Meant, LastSetting, Setting
<1>3. ASSUME NEW n PROVE Given(n)' <=> GivenBy(values', n)
  BY <1>2, Zenon DEF Given, GivenBy
<1> QED
  BY <1>1, <1>3

\* At first the invariant holds.
LEMMA InvInit == Init => IInv
<1> SUFFICES ASSUME Init PROVE IInv
  OBVIOUS
<1>1. TypeOK
  BY TypeInit
<1>2. file \in Seq(Line)
  BY FileType DEF Init
<1>3. /\ pc = "init" /\ fd = "null" /\ lineno = 0
      /\ \E ends \in BOOLEAN : unread = IF ends \/ file = <<>> THEN OnDisk(file, 0) ELSE Front(OnDisk(file, 0))
  BY Zenon DEF Init
<1>4. InPlace
  BY <1>3 DEF InPlace
<1>5. Behind
  <2>1. LeftAfter(0, unread)
    BY <1>2, <1>3, UnreadAtFirst
  <2> QED
    BY <1>3, <2>1, Zenon DEF Behind
<1>6. GivenSoFar
  BY <1>3, Zenon DEF GivenSoFar
<1> QED
  BY <1>1, <1>2, <1>4, <1>5, <1>6, Zenon DEF IInv

\* Reading a line goes on behind it and keeps what the lines before it gave.
LEMMA ReadLineInv ==
  ASSUME IInv, ReadLine
  PROVE  InPlace' /\ Behind' /\ GivenSoFar'
<1>1. /\ TypeOK /\ file \in Seq(Line) /\ InPlace /\ Behind /\ GivenSoFar
  BY Zenon DEF IInv
<1>2. /\ pc = "read" /\ fault = "none" /\ unread # <<>> /\ pc' = pc /\ file' = file /\ fd' = fd
      /\ unread' = SubSeq(unread, Len(Chunk) + 1, Len(unread)) /\ lineno' = lineno + 1
  BY Zenon DEF ReadLine
<1>3. lineno \in Nat
  BY <1>1, Zenon DEF TypeOK
<1>4. InPlace'
  BY <1>1, <1>2 DEF InPlace
<1>5. ASSUME Accepted PROVE LeftAfter(lineno + 1, SubSeq(unread, Len(Chunk) + 1, Len(unread)))
  BY <1>1, <1>2, <1>3, <1>5, LineRead
<1>6. Behind'
  BY <1>2, <1>5, SameFile, Zenon DEF Behind, LeftAfter
<1>7. ASSUME Accepted, fault' = "none" PROVE GivenBy(values', lineno + 1)
  <2> DEFINE l == file[lineno + 1]
  <2>1. Given(lineno)
    BY <1>1, <1>2, <1>7 DEF GivenSoFar
  <2>2. /\ lineno + 1 \in 1..Len(file)
        /\ l.name \in Option => /\ IsPair /\ Name = l.name /\ Value = l.text
                                /\ l.name \in IntegerOption => Atoi(Value) = l.number
        /\ l.name \notin Option => ~(IsPair /\ Name \in Option)
    BY <1>1, <1>2, <1>3, <1>7, LineSets, Zenon
  <2>3. lineno < Len(file)
    <3>1. lineno + 1 \in 1..Len(file)
      BY <2>2, Zenon
    <3> QED
      BY <1>1, <1>3, <3>1
  <2>4. fault' # "bad_read"
    BY <1>7
  <2>5. \/ IsPair /\ Name \in Option /\ values' = Stored
        \/ (~IsPair \/ Name \notin Option) /\ values' = values
    BY <2>4, Zenon DEF ReadLine
  <2> HIDE DEF l
  <2>6. CASE l.name \in Option
    <3>1. values' = Stored /\ Name = l.name /\ Value = l.text /\ (l.name \in IntegerOption => Atoi(Value) = l.number)
      BY <2>2, <2>5, <2>6, Zenon
    <3>2. GivenBy(Stored, lineno + 1)
      BY <1>1, <1>3, <2>1, <2>3, <2>6, <3>1, NextLineGives, Zenon DEF l
    <3> QED
      BY <3>1, <3>2, Zenon
  <2>7. CASE l.name \notin Option
    <3>1. values' = values
      BY <2>2, <2>5, <2>7, Zenon
    <3>2. Given(lineno + 1)
      BY <1>1, <1>3, <2>1, <2>3, <2>7, NextLineLeaves, Zenon DEF l
    <3> QED
      BY <3>1, <3>2, Zenon DEF Given, GivenBy
  <2> QED
    BY <2>6, <2>7
<1>8. GivenSoFar'
  BY <1>2, <1>7, SameFile, Zenon DEF GivenSoFar
<1> QED
  BY <1>4, <1>6, <1>8

\* A step that reads no line leaves what has been given.
LEMMA KeepsGiven ==
  ASSUME file' = file, values' = values, lineno' = lineno, unread' = unread, Behind,
         pc # "init", fault' = "none" => fault = "none", GivenSoFar
  PROVE  Behind' /\ GivenSoFar'
<1>1. Behind'
  BY SameFile, Zenon DEF Behind, LeftAfter
<1>2. ASSUME Accepted, fault' = "none" PROVE GivenBy(values', lineno)
  BY <1>2, Zenon DEF GivenSoFar, Given, GivenBy
<1>3. GivenSoFar'
  BY <1>2, SameFile, Zenon DEF GivenSoFar
<1> QED
  BY <1>1, <1>3

\* Every step keeps the invariant.
LEMMA InvNext == IInv /\ [Next]_vars => IInv'
<1> SUFFICES ASSUME IInv, [Next]_vars PROVE IInv'
  OBVIOUS
<1>1. /\ TypeOK /\ file \in Seq(Line) /\ InPlace /\ Behind /\ GivenSoFar
  BY Zenon DEF IInv
<1>2. TypeOK'
  BY <1>1, TypeNext
<1>3. file' = file
  BY Zenon DEF Next, vars, ConfigInit, ParseOpens, ParseFails, ReadLine, ReadEnd, CmdDump, ConfigDeinit
<1>4. file' \in Seq(Line)
  BY <1>1, <1>3
<1>5. CASE ConfigInit
  <2>1. /\ pc = "init" /\ pc' = "parse" /\ values' = Default /\ fd' = fd
        /\ unread' = unread /\ lineno' = lineno /\ fault' = fault
    BY <1>5, Zenon DEF ConfigInit
  <2>2. lineno = 0 /\ fd = "null"
    BY <1>1, <2>1, Zenon DEF InPlace
  <2>3. InPlace'
    BY <2>1, <2>2 DEF InPlace
  <2>4. Behind'
    BY <1>1, <1>3, <2>1, SameFile, Zenon DEF Behind, LeftAfter
  <2>5. GivenSoFar'
    BY <1>3, <2>1, <2>2, DefaultsGiven, SameFile, Zenon DEF GivenSoFar
  <2> QED
    BY <1>2, <1>4, <2>3, <2>4, <2>5, Zenon DEF IInv
<1>6. CASE ParseOpens
  <2>1. /\ pc = "parse" /\ pc' = "read" /\ values' = values /\ fd' = "open"
        /\ unread' = unread /\ lineno' = lineno /\ fault' = fault
    BY <1>6, Zenon DEF ParseOpens
  <2>2. InPlace'
    BY <2>1 DEF InPlace
  <2>3. Behind' /\ GivenSoFar'
    BY <1>1, <1>3, <2>1, KeepsGiven
  <2> QED
    BY <1>2, <1>4, <2>2, <2>3, Zenon DEF IInv
<1>7. CASE ParseFails
  <2>1. /\ pc = "parse" /\ pc' = "run" /\ values' = values /\ fd' = fd
        /\ unread' = unread /\ lineno' = lineno /\ fault' = fault
    BY <1>7, Zenon DEF ParseFails
  <2>2. InPlace'
    BY <1>1, <2>1 DEF InPlace
  <2>3. Behind' /\ GivenSoFar'
    BY <1>1, <1>3, <2>1, KeepsGiven
  <2> QED
    BY <1>2, <1>4, <2>2, <2>3, Zenon DEF IInv
<1>8. CASE ReadLine
  BY <1>2, <1>4, <1>8, ReadLineInv, Zenon DEF IInv
<1>9. CASE ReadEnd
  <2>1. /\ pc = "read" /\ unread = <<>> /\ pc' = "run" /\ values' = values /\ fd' = fd
        /\ unread' = unread /\ lineno' = lineno /\ fault' = fault
    BY <1>9, Zenon DEF ReadEnd
  <2>2. InPlace'
    BY <1>1, <2>1 DEF InPlace
  <2>3. Behind' /\ GivenSoFar'
    BY <1>1, <1>3, <2>1, KeepsGiven
  <2> QED
    BY <1>2, <1>4, <2>2, <2>3, Zenon DEF IInv
<1>10. CASE CmdDump
  <2>1. /\ pc = "run" /\ fault = "none" /\ pc' = pc /\ values' = values /\ fd' = fd
        /\ unread' = unread /\ lineno' = lineno
    BY <1>10, Zenon DEF CmdDump
  <2>2. InPlace'
    BY <1>1, <2>1, Zenon DEF InPlace
  <2>3. Behind' /\ GivenSoFar'
    BY <1>1, <1>3, <2>1, KeepsGiven
  <2> QED
    BY <1>2, <1>4, <2>2, <2>3, Zenon DEF IInv
<1>11. CASE ConfigDeinit
  <2>1. /\ pc = "run" /\ pc' = "end" /\ values' = values /\ (fd' # "null" => fd # "null")
        /\ unread' = unread /\ lineno' = lineno /\ fault' = fault
    BY <1>11, Zenon DEF ConfigDeinit
  <2>2. InPlace'
    BY <1>1, <2>1 DEF InPlace
  <2>3. Behind' /\ GivenSoFar'
    BY <1>1, <1>3, <2>1, KeepsGiven
  <2> QED
    BY <1>2, <1>4, <2>2, <2>3, Zenon DEF IInv
<1>12. CASE UNCHANGED vars
  <2>1. /\ pc' = pc /\ values' = values /\ fd' = fd
        /\ unread' = unread /\ lineno' = lineno /\ fault' = fault
    BY <1>12, Zenon DEF vars
  <2>2. InPlace'
    BY <1>1, <2>1, Zenon DEF InPlace
  <2>3. Behind' /\ GivenSoFar'
    <3>1. CASE pc = "init"
      BY <1>1, <1>3, <2>1, <3>1, SameFile, Zenon DEF Behind, LeftAfter, GivenSoFar
    <3>2. CASE pc # "init"
      BY <1>1, <1>3, <2>1, <3>2, KeepsGiven
    <3> QED
      BY <3>1, <3>2
  <2> QED
    BY <1>2, <1>4, <2>2, <2>3, Zenon DEF IInv
<1> QED
  BY <1>5, <1>6, <1>7, <1>8, <1>9, <1>10, <1>11, <1>12, Zenon DEF Next

\* The invariant holds in every state.
LEMMA Invariance == Spec => []IInv
<1>1. Init => IInv
  BY InvInit
<1>2. IInv /\ [Next]_vars => IInv'
  BY InvNext
<1> QED
  BY <1>1, <1>2, PTL DEF Spec

\* At the end of the file all of its lines have been read, but perhaps for one
\* that is empty.
LEMMA AllRead ==
  ASSUME file \in Seq(Line), lineno \in Nat, Accepted, Behind, unread = <<>>
  PROVE  \/ lineno = Len(file)
         \/ lineno + 1 = Len(file) /\ file[lineno + 1].name = <<>>
<1>1. Len(file) \in Nat /\ lineno <= Len(file) /\ lineno \in 0..Len(file)
  BY DEF Behind, LeftAfter
<1> SUFFICES ASSUME lineno < Len(file) PROVE lineno + 1 = Len(file) /\ file[lineno + 1].name = <<>>
  BY <1>1
<1> DEFINE l == file[lineno + 1]
           d == OnDisk(file, lineno)
           r == OnDisk(file, lineno + 1)
<1>2. d \in Seq(Char) /\ d # <<>> /\ Len(d) = Len(l.chars) + 1 + Len(r)
  BY <1>1, NotTheEnd
<1>3. lineno + 1 \in 0..Len(file) /\ lineno + 1 \in 1..Len(file)
  BY <1>1
<1>4. r \in Seq(Char)
  BY <1>3, Disk
<1>5. l.chars \in Seq(Char)
  BY <1>3, LineFits
<1>6. <<>> = d \/ <<>> = Front(d)
  BY Zenon DEF Behind, LeftAfter
<1> HIDE DEF l, d, r
<1>7. Len(l.chars) = 0 /\ Len(r) = 0
  <2>1. Front(d) = <<>> /\ Len(Front(d)) = Len(d) - 1
    BY <1>2, <1>6, FrontIs
  <2>2. Len(d) = 1
    BY <1>2, <2>1
  <2>3. Len(l.chars) \in Nat /\ Len(r) \in Nat
    BY <1>4, <1>5
  <2>4. 1 = Len(l.chars) + 1 + Len(r)
    BY <1>2, <2>2, Zenon
  <2> QED
    BY <2>3, <2>4
<1>8. lineno + 1 = Len(file)
  <2> SUFFICES ASSUME lineno + 1 < Len(file) PROVE FALSE
    BY <1>3
  <2>1. r # <<>>
    BY <1>3, NotTheEnd DEF r
  <2> QED
    BY <1>4, <1>7, <2>1, EmptySeq
<1>9. l.name = <<>>
  <2> SUFFICES ASSUME l.name # <<>> PROVE FALSE
    OBVIOUS
  <2>1. l \in WellWritten
    <3>1. lineno + 1 \in DOMAIN file
      BY <1>3
    <3> QED
      BY <3>1, Zenon DEF Accepted, l
  <2>2. PICK e \in DOMAIN l.chars : SetsOption(l, e)
    BY <2>1, Zenon DEF WellWritten
  <2> QED
    BY <1>5, <1>7, <2>2
<1> QED
  BY <1>8, <1>9 DEF l

\* The invariant says of the end of the file what AsWritten says.
LEMMA WrittenMeans == IInv => AsWritten
<1> SUFFICES ASSUME IInv, Accepted, pc # "init", fault = "none"
             PROVE  /\ lineno <= Len(file) /\ Given(lineno)
                    /\ pc \in {"run", "end"} /\ fd # "null" => Given(Len(file))
  BY Zenon DEF AsWritten, Accepted
<1>1. /\ lineno \in Nat /\ file \in Seq(Line) /\ InPlace /\ Behind /\ GivenSoFar
  BY Zenon DEF IInv, TypeOK
<1>2. lineno <= Len(file)
  BY <1>1, Zenon DEF Behind, LeftAfter
<1>3. Given(lineno)
  BY <1>1, Zenon DEF GivenSoFar
<1>4. ASSUME pc \in {"run", "end"}, fd # "null" PROVE Given(Len(file))
  <2>1. unread = <<>>
    BY <1>1, <1>4, Zenon DEF InPlace
  <2>2. CASE lineno = Len(file)
    BY <1>3, <2>2
  <2>3. CASE lineno + 1 = Len(file) /\ file[lineno + 1].name = <<>>
    <3>1. file[lineno + 1].name \notin Option
      BY <2>3, OptionAssumption, Zenon
    <3>2. lineno < Len(file)
      BY <1>1, <2>3
    <3>3. Given(lineno + 1)
      BY <1>1, <1>3, <3>1, <3>2, NextLineLeaves
    <3> QED
      BY <2>3, <3>3
  <2> QED
    BY <1>1, <2>1, <2>2, <2>3, AllRead
<1> QED
  BY <1>2, <1>3, <1>4

\* The parser gives every option the value that the last line naming it means, and
\* its default if there is none (evsip_config_init, evsip_config_parse): for any
\* options, any buffer and field sizes, and files of any number of such lines with
\* numbers that fit in an int.
THEOREM FileAsWritten == Spec => []AsWritten
<1>1. IInv => AsWritten
  BY WrittenMeans
<1> QED
  BY <1>1, Invariance, PTL

-----------------------------------------------------------------------------
(* Short lines. *)

\* The files ShortLinesSafe is about.
Short ==
  \A i \in DOMAIN file :
    file[i] \in WellWritten /\ Len(file[i].chars) <= LineMax - ValueMax /\ Len(file[i].text) < ValueMax

\* Such a line leaves room for a value behind it.
LEMMA RoomBehind ==
  ASSUME IInv, Short, unread # <<>>
  PROVE  ~Overreads
<1>1. /\ lineno \in Nat /\ file \in Seq(Line) /\ Behind /\ unread \in Seq(Char)
  BY Zenon DEF IInv, TypeOK
<1>2. Accepted
  BY Zenon DEF Accepted, Short
<1>3. lineno < Len(file) /\ (Chunk = file[lineno + 1].chars \/ Chunk = Append(file[lineno + 1].chars, "\n"))
  BY <1>1, <1>2, LineRead
<1>4. lineno + 1 \in 1..Len(file) /\ lineno + 1 \in DOMAIN file
  BY <1>1, <1>3
<1> DEFINE c == file[lineno + 1].chars
<1>5. c \in Seq(Char) /\ Len(c) <= LineMax - ValueMax
  BY <1>1, <1>2, <1>4, LineFits, Zenon DEF Short
<1> HIDE DEF c
<1>6. RStrip(Chunk) = RStrip(c)
  BY <1>3, <1>5, StartIs, Zenon DEF c
<1>7. Len(RStrip(c)) <= Len(c) /\ RStrip(c) \in Seq(Char)
  BY <1>5, StripType
<1>8. RawValue \in Seq(Char)
  BY <1>1, PartsType
<1>9. Len(RStrip(c)) \in Nat /\ Len(c) \in Nat /\ Len(RawValue) \in Nat /\ LineMax \in Nat /\ ValueMax \in Nat
  BY <1>5, <1>7, <1>8, SizeAssumption
<1> QED
  BY <1>5, <1>6, <1>7, <1>9 DEF Overreads

\* What such lines give fits in its field with a terminator.
LEMMA ValuesFit ==
  ASSUME IInv, Short, pc # "init", fault = "none", NEW o \in StringOption
  PROVE  Len(values[o]) # ValueMax
<1>1. /\ lineno \in Nat /\ file \in Seq(Line) /\ Behind /\ GivenSoFar
  BY Zenon DEF IInv, TypeOK
<1>2. Accepted
  BY Zenon DEF Accepted, Short
<1>3. Given(lineno) /\ lineno <= Len(file)
  BY <1>1, <1>2, Zenon DEF GivenSoFar, Behind, LeftAfter
<1> DEFINE v == Meant(o, lineno)
<1>4. v \in Seq(Char) /\ Len(v) < ValueMax
  <2>1. CASE Setting(o, lineno) = {}
    <3>1. v = Default[o]
      BY <2>1, Zenon DEF Meant
    <3> QED
      BY <3>1, DefaultAssumption, Zenon
  <2>2. CASE Setting(o, lineno) # {}
    <3> DEFINE T == Setting(o, lineno)
    <3>1. T \in SUBSET (0..lineno) /\ T \subseteq 1..lineno
      BY <1>1 DEF Setting
    <3> HIDE DEF T
    <3>2. Max(T) \in T
      BY <1>1, <2>2, <3>1, MaxOfPositions DEF T
    <3> DEFINE i == Max(T)
    <3>3. i \in 1..Len(file) /\ i \in DOMAIN file
      <4> HIDE DEF i
      <4>1. i \in 1..lineno
        BY <3>1, <3>2 DEF i
      <4> QED
        BY <1>1, <1>3, <4>1
    <3>4. v = file[i].text
      BY <2>2, Zenon DEF Meant, LastSetting, T
    <3>5. file[i] \in Line
      BY <1>1, <3>3, ElementOfSeq
    <3> QED
      BY <3>3, <3>4, <3>5, LineAssumption, Zenon DEF Short
  <2> QED
    BY <2>1, <2>2
<1>5. values[o] = SubSeq(v, 1, Min({ValueMax, Len(v)}))
  BY <1>3, Zenon DEF Given
<1> HIDE DEF v
<1>6. values[o] = v
  BY <1>4, <1>5, NotCut
<1> QED
  BY <1>4, <1>6, SizeAssumption

\* Every step keeps within the buffer and the fields.
LEMMA ShortNext == IInv /\ ShortLinesSafe /\ [Next]_vars => ShortLinesSafe'
<1> SUFFICES ASSUME IInv, ShortLinesSafe, [Next]_vars PROVE ShortLinesSafe'
  OBVIOUS
<1>1. file' = file
  BY Zenon DEF Next, vars, ConfigInit, ParseOpens, ParseFails, ReadLine, ReadEnd, CmdDump, ConfigDeinit
<1> SUFFICES ASSUME Short PROVE fault' = "none"
  BY <1>1, Zenon DEF ShortLinesSafe, Short
<1>2. fault = "none"
  BY Zenon DEF ShortLinesSafe, Short
<1>3. CASE ReadLine
  <2>1. ~Overreads
    BY <1>3, RoomBehind DEF ReadLine
  <2> QED
    BY <1>2, <1>3, <2>1, Zenon DEF ReadLine
<1>4. CASE CmdDump
  <2>1. pc # "init"
    BY <1>4 DEF CmdDump
  <2>2. \A o \in StringOption : Len(values[o]) # ValueMax
    BY <1>2, <2>1, ValuesFit
  <2> QED
    BY <1>4, <2>2, Zenon DEF CmdDump
<1> QED
  BY <1>2, <1>3, <1>4, Zenon DEF Next, vars, ConfigInit, ParseOpens, ParseFails, ReadEnd, ConfigDeinit

\* Such a file is read within the line buffer and its values are printed within
\* their fields (evsip_config_parse, evsip_config_cmd_dump): for any sizes.
THEOREM ShortFilesSafe == Spec => []ShortLinesSafe
<1>1. Init => ShortLinesSafe
  BY Zenon DEF Init, ShortLinesSafe
<1> QED
  BY <1>1, ShortNext, Invariance, PTL DEF Spec
=============================================================================
