---------------------------- MODULE EvsipCliProofs ----------------------------
(***************************************************************************)
(* Proofs about EvsipCli, for any commands registered at start-up, any     *)
(* characters and any length of the line: the invariants of the line and   *)
(* of the start-up, and that the prompt is a CommandLine.                  *)
(***************************************************************************)
EXTENDS EvsipCli, EvsipCmdListProofs

\* The command main holds to register or destroy is not in the list.
HandleOK == handle # NULL => handle \notin Listed

\* After a fault nothing is done any more.
CliInv == CliTypeOK /\ (fault = "none" => IInv /\ BufferClean /\ HandleOK)

LEMMA StartUpFacts ==
  /\ Len(StartUp) \in Nat /\ Cmd = 1..Len(StartUp)
  /\ \A i \in Cmd : StartUp[i].name \in Name
<1> DEFINE R == [name : Name, destroys : BOOLEAN]
<1>1. StartUp \in Seq(R) /\ Cmd = DOMAIN StartUp
  BY StartUpAssumption
<1> HIDE DEF R
<1>2. Len(StartUp) \in Nat /\ Cmd = 1..Len(StartUp)
  BY <1>1
<1>3. \A i \in Cmd : StartUp[i] \in R
  BY <1>1, <1>2
<1>4. \A r \in R : r.name \in Name
  BY DEF R
<1> QED
  BY <1>2, <1>3, <1>4

LEMMA CliInitInv == CliInit => CliInv
<1> SUFFICES ASSUME CliInit PROVE CliInv
  OBVIOUS
<1>1. IInv /\ fault = "none" /\ HandleOK
  BY InitIInv DEF CliInit, Init, HandleOK
<1>2. cur_cmd \in [0..MaxLen -> Char \cup {NUL}] /\ \A i \in 0..MaxLen : cur_cmd[i] = NUL
  BY DEF CliInit, Cleared
<1>3. CliTypeOK
  BY <1>1, <1>2, StartUpFacts, MaxLenAssumption DEF CliInit, CliTypeOK
<1>4. BufferClean
  BY <1>2, MaxLenAssumption DEF CliInit, BufferClean
<1> QED
  BY <1>1, <1>3, <1>4 DEF CliInv

-----------------------------------------------------------------------------
(* Start-up. *)

LEMMA LineKept ==
  ASSUME UNCHANGED <<lineVars, fault>>, BufferClean
  PROVE  BufferClean'
  BY DEF lineVars, BufferClean

LEMMA StartInitInv ==
  ASSUME CliInv, StartInit
  PROVE  CliInv' /\ items' = items
<1> DEFINE c == started + 1
<1>1. started \in 0..Len(StartUp) /\ c \in Cmd /\ Step.name \in Name /\ c \in 1..Len(StartUp)
  BY StartUpFacts DEF CliInv, CliTypeOK, StartInit, Starting, Step
<1>2. fault = "none" /\ home[c] = "none" /\ UNCHANGED <<items, fault>> /\ CmdInit(c, Step.name)
  BY DEF StartInit, CmdInit
<1>3. UNCHANGED <<lineVars, ran>>
  BY DEF StartInit
<1> HIDE DEF c
<1>4. IInv'
  BY <1>1, <1>2, CmdInitIInv DEF CliInv
<1>5. c \notin Listed'
  BY <1>2 DEF CliInv, IInv, ItemsOK, Listed, ToSet
<1>6. \/ handle' = c /\ started' = started
      \/ handle' = handle /\ started' = c /\ handle = NULL
  BY DEF StartInit, c
<1>7. HandleOK'
  BY <1>5, <1>6 DEF HandleOK
<1>8. started' \in 0..Len(StartUp)
  BY <1>1, <1>6, StartUpFacts
<1>9. CliTypeOK'
  BY <1>1, <1>2, <1>3, <1>6, <1>8 DEF CliInv, CliTypeOK, lineVars
<1> QED
  BY <1>2, <1>3, <1>4, <1>7, <1>9, LineKept DEF CliInv

LEMMA StartRegisterInv ==
  ASSUME CliInv, StartRegister
  PROVE  CliInv' /\ Listed \subseteq ToSet(items')
<1>1. /\ handle \in Cmd /\ IInv /\ fault = "none" /\ fault' = "none"
      /\ UNCHANGED <<lineVars, ran>>
  BY DEF CliInv, CliTypeOK, StartRegister, CmdRegister
<1>2. \/ CmdAppend(handle) /\ Registrable(handle) /\ UNCHANGED <<vector, cmd, home, fault>>
      \/ CmdAppendFails(handle) /\ Registrable(handle) /\ UNCHANGED <<vector, cmd, home, fault>>
  BY DEF StartRegister, CmdRegister
<1>3. IInv'
  BY <1>1, <1>2, CmdAppendIInv, CmdAppendFailsIInv
<1>4. Listed \subseteq ToSet(items')
  <2>1. CASE CmdAppendFails(handle)
    BY <2>1 DEF CmdAppendFails, Listed
  <2>2. CASE CmdAppend(handle)
    BY <1>1, <2>2 DEF CmdAppend, IInv, TypeOK, Listed, ToSet
  <2> QED
    BY <1>2, <2>1, <2>2
<1>5. \/ UNCHANGED <<started, handle>> /\ handle \notin Listed'
      \/ started' = started + 1 /\ handle' = NULL
  BY DEF StartRegister, Listed
<1>6. HandleOK'
  BY <1>5 DEF HandleOK
<1>7. started' \in 0..Len(StartUp)
  BY <1>5, StartUpFacts DEF CliInv, CliTypeOK, StartRegister, Starting
<1>8. CliTypeOK'
  BY <1>1, <1>5, <1>7 DEF CliInv, CliTypeOK, lineVars
<1> QED
  BY <1>1, <1>3, <1>4, <1>6, <1>8, LineKept DEF CliInv

\* What is destroyed is not in the list, so nothing is taken out of it.
LEMMA StartDestroyInv ==
  ASSUME CliInv, StartDestroy
  PROVE  CliInv' /\ items' = items
<1>1. /\ handle \in Cmd /\ handle # NULL /\ IInv /\ HandleOK /\ fault = "none" /\ fault' = "none"
      /\ CmdDestroy(handle) /\ UNCHANGED <<lineVars, ran>>
      /\ started' = started + 1 /\ handle' = NULL
  BY DEF CliInv, CliTypeOK, StartDestroy, CmdDestroy
<1>2. IInv'
  BY <1>1, CmdDestroyIInv
<1>3. handle \notin Listed
  BY <1>1 DEF HandleOK
<1>4. items' = items
  <2>1. \A i \in 1..Len(items) : items[i] # handle
    BY <1>1, <1>3 DEF IInv, TypeOK, Listed, ToSet
  <2> QED
    BY <1>1, <2>1, DestroyRemovesItself
<1>5. started' \in 0..Len(StartUp)
  BY <1>1, StartUpFacts DEF CliInv, CliTypeOK, StartDestroy, Starting
<1>6. CliTypeOK' /\ HandleOK'
  BY <1>1, <1>5 DEF CliInv, CliTypeOK, HandleOK, lineVars
<1> QED
  BY <1>1, <1>2, <1>4, <1>6, LineKept DEF CliInv

-----------------------------------------------------------------------------
(* The keys. *)

\* None of them changes the list, other than the index of a command that is
\* found.
LEMMA ListKept ==
  ASSUME IInv, HandleOK, UNCHANGED <<cmdlVars, fault, handle>>
  PROVE  IInv' /\ HandleOK'
<1>1. IInv'
  BY NextIInv DEF vars
<1> QED
  BY <1>1 DEF HandleOK, Listed, cmdlVars

LEMMA KeyInv ==
  ASSUME CliInv, NEW c \in Char \cup {NUL}, Key(c)
  PROVE  CliInv'
<1>1. /\ fault = "none" /\ IInv /\ BufferClean /\ HandleOK
      /\ UNCHANGED <<cmdlVars, fault, started, handle, ran>>
  BY DEF CliInv, Key, Prompting
<1>2. CASE cur_cmd_len < MaxLen
  <2>1. /\ cur_cmd' = [cur_cmd EXCEPT ![cur_cmd_len] = c]
        /\ cur_cmd_len' = cur_cmd_len + 1
    BY <1>2 DEF Key
  <2>2. cur_cmd_len \in 0..MaxLen /\ cur_cmd \in [0..MaxLen -> Char \cup {NUL}]
    BY <1>2, MaxLenAssumption DEF CliInv, CliTypeOK
  <2>3. CliTypeOK'
    BY <1>1, <1>2, <2>1, <2>2, MaxLenAssumption DEF CliInv, CliTypeOK
  <2>4. BufferClean'
    BY <1>1, <1>2, <2>1, <2>2, MaxLenAssumption DEF BufferClean
  <2> QED
    BY <1>1, <2>3, <2>4, ListKept DEF CliInv
<1>3. CASE ~(cur_cmd_len < MaxLen)
  <2>1. UNCHANGED lineVars
    BY <1>3 DEF Key
  <2>2. CliTypeOK'
    BY <1>1, <2>1 DEF CliInv, CliTypeOK, lineVars
  <2> QED
    BY <1>1, <2>1, <2>2, ListKept, LineKept DEF CliInv
<1> QED
  BY <1>2, <1>3

LEMMA BackOne ==
  ASSUME NEW n \in 0..(Word - 1)
  PROVE  (n - 1) % Word \in 0..(Word - 1) /\ (n > 0 => (n - 1) % Word = n - 1)
  BY MaxLenAssumption

LEMMA KeyBackspaceInv ==
  ASSUME CliInv, KeyBackspace
  PROVE  CliInv'
<1>1. /\ fault = "none" /\ IInv /\ BufferClean /\ HandleOK
      /\ UNCHANGED <<cmdlVars, started, handle, ran>>
  BY DEF CliInv, KeyBackspace, Prompting
<1>2. /\ cur_cmd_len \in 0..(Word - 1) /\ cur_cmd_len' = (cur_cmd_len - 1) % Word
      /\ cur_cmd \in [0..MaxLen -> Char \cup {NUL}]
  BY DEF CliInv, CliTypeOK, KeyBackspace
<1>3. cur_cmd_len' \in 0..(Word - 1) /\ (cur_cmd_len > 0 => cur_cmd_len' = cur_cmd_len - 1)
  BY <1>2, BackOne
<1>4. CASE cur_cmd_len > 0
  <2>1. cur_cmd' = [cur_cmd EXCEPT ![cur_cmd_len - 1] = NUL] /\ UNCHANGED fault
    BY <1>4 DEF KeyBackspace
  <2>2. cur_cmd' \in [0..MaxLen -> Char \cup {NUL}]
    BY <1>2, <2>1
  <2>3. CliTypeOK'
    BY <1>1, <1>3, <2>1, <2>2 DEF CliInv, CliTypeOK
  <2>4. BufferClean'
    BY <1>1, <1>2, <1>3, <1>4, <2>1, MaxLenAssumption DEF BufferClean
  <2> QED
    BY <1>1, <2>1, <2>3, <2>4, ListKept DEF CliInv
<1>5. CASE ~(cur_cmd_len > 0)
  <2>1. fault' = "out_of_bounds" /\ UNCHANGED cur_cmd
    BY <1>5 DEF KeyBackspace
  <2> QED
    BY <1>1, <1>3, <2>1 DEF CliInv, CliTypeOK
<1> QED
  BY <1>4, <1>5

\* The name that is run is one that was registered.
LEMMA FindInv ==
  ASSUME CliInv, NEW text, CmdFind(text), UNCHANGED <<started, handle>>
  PROVE  /\ fault' # "none" => fault' = "bad_read"
         /\ fault' = "none" => /\ IInv' /\ HandleOK' /\ UNCHANGED fault
                               /\ FindHits(text) \/ FindMisses(text)
         /\ UNCHANGED <<vector, items, cmd, home>>
<1>1. fault = "none" /\ IInv /\ HandleOK
  BY DEF CliInv, CmdFind
<1>2. IInv'
  BY <1>1, CmdFindIInv
<1>3. HandleOK'
  BY <1>1 DEF HandleOK, Listed, CmdFind
<1> QED
  BY <1>1, <1>2, <1>3 DEF CmdFind

LEMMA HitIsListed ==
  ASSUME IInv, NEW text, FindHits(text)
  PROVE  Min(StopsAt(text)) \in StopsAt(text) /\ Hit(text) \in Cmd /\ cmd[Hit(text)] \in Name
<1>1. StopsAt(text) \in SUBSET Nat /\ StopsAt(text) # {}
  BY DEF IInv, TypeOK, StopsAt, FindHits, Hit
<1>2. Min(StopsAt(text)) \in StopsAt(text)
  BY <1>1, MinOfPositions
<1>3. Min(StopsAt(text)) \in DOMAIN items /\ Hit(text) = items[Min(StopsAt(text))]
  BY <1>1, <1>2 DEF StopsAt, Hit
<1>4. Hit(text) \in Cmd /\ home[Hit(text)] = "live"
  BY <1>3 DEF IInv, TypeOK, FindHits
<1> QED
  BY <1>2, <1>4 DEF IInv, LiveNamed

LEMMA CleanPromptInv ==
  ASSUME CleanPrompt
  PROVE  /\ BufferClean'
         /\ cur_cmd' \in [0..MaxLen -> Char \cup {NUL}] /\ cur_cmd_len' \in 0..(Word - 1)
<1>1. /\ cur_cmd' \in [0..MaxLen -> Char \cup {NUL}]
      /\ \A i \in 0..MaxLen : cur_cmd'[i] = NUL
  BY DEF CleanPrompt, Cleared
<1> QED
  BY <1>1, MaxLenAssumption DEF CleanPrompt, BufferClean

LEMMA KeyTabInv ==
  ASSUME CliInv, KeyTab
  PROVE  CliInv'
<1>1. fault = "none" /\ CmdFind(Text) /\ UNCHANGED cliVars /\ BufferClean
  BY DEF CliInv, KeyTab, Prompting
<1>2. CliTypeOK'
  BY <1>1, FindInv DEF CliInv, CliTypeOK, cliVars, lineVars
<1>3. fault' = "none" => IInv' /\ HandleOK' /\ UNCHANGED <<lineVars, fault>>
  BY <1>1, FindInv DEF cliVars
<1> QED
  BY <1>1, <1>2, <1>3, LineKept DEF CliInv

LEMMA EnterInv ==
  ASSUME CliInv, Enter
  PROVE  CliInv'
<1>1. fault = "none" /\ CmdFind(Text) /\ UNCHANGED <<started, handle>> /\ IInv
  BY DEF CliInv, Enter, Prompting
<1>2. CASE fault' # "none" /\ UNCHANGED <<ran, lineVars>>
  BY <1>1, <1>2, FindInv DEF CliInv, CliTypeOK, lineVars
<1>3. CASE /\ fault' = "none" /\ CleanPrompt
           /\ ran' = IF Hit(Text) = NULL THEN NotFound ELSE cmd[Hit(Text)]
  <2>1. IInv' /\ HandleOK' /\ (FindHits(Text) \/ FindMisses(Text))
    BY <1>1, <1>3, FindInv
  <2>2. ran' \in Name \cup {NotFound}
    BY <1>1, <1>3, <2>1, HitIsListed DEF FindHits, FindMisses
  <2>3. CliTypeOK'
    BY <1>1, <1>3, <2>2, CleanPromptInv DEF CliInv, CliTypeOK
  <2> QED
    BY <1>3, <2>1, <2>3, CleanPromptInv DEF CliInv
<1> QED
  BY <1>2, <1>3 DEF Enter

LEMMA EnterHelpFaultsInv ==
  ASSUME CliInv, EnterHelpFaults
  PROVE  CliInv'
  BY DEF CliInv, CliTypeOK, EnterHelpFaults, cliVars, lineVars

LEMMA EnterEmptyInv ==
  ASSUME CliInv, EnterEmpty
  PROVE  CliInv'
<1>1. /\ fault = "none" /\ IInv /\ HandleOK /\ CleanPrompt /\ ran' = Nothing
      /\ UNCHANGED <<cmdlVars, fault, started, handle>>
  BY DEF CliInv, EnterEmpty, Prompting
<1>2. CliTypeOK'
  BY <1>1, CleanPromptInv DEF CliInv, CliTypeOK
<1> QED
  BY <1>1, <1>2, CleanPromptInv, ListKept DEF CliInv

\* A step also keeps what is offered.
LEMMA CliNextInv ==
  ASSUME CliInv, [CliNext]_allVars
  PROVE  CliInv' /\ Listed \subseteq ToSet(items')
<1>1. CASE StartInit
  BY <1>1, StartInitInv DEF Listed
<1>2. CASE StartRegister
  BY <1>2, StartRegisterInv
<1>3. CASE StartDestroy
  BY <1>3, StartDestroyInv DEF Listed
<1>4. ASSUME NEW c \in Char \cup {NUL}, Key(c)
      PROVE  CliInv' /\ Listed \subseteq ToSet(items')
  BY <1>4, KeyInv DEF Key, cmdlVars, Listed
<1>5. CASE KeyBackspace
  BY <1>5, KeyBackspaceInv DEF KeyBackspace, cmdlVars, Listed
<1>6. CASE KeyTab
  BY <1>6, KeyTabInv DEF KeyTab, CmdFind, Listed
<1>7. CASE Enter
  BY <1>7, EnterInv DEF Enter, CmdFind, Listed
<1>8. CASE EnterHelpFaults
  BY <1>8, EnterHelpFaultsInv DEF EnterHelpFaults, cmdlVars, Listed
<1>9. CASE EnterEmpty
  BY <1>9, EnterEmptyInv DEF EnterEmpty, cmdlVars, Listed
<1>10. CASE UNCHANGED allVars
  <2>1. CliTypeOK'
    BY <1>10 DEF allVars, cliVars, lineVars, CliInv, CliTypeOK
  <2>2. UNCHANGED <<cmdlVars, fault, handle, lineVars>> /\ items' = items
    BY <1>10 DEF allVars, cliVars, cmdlVars
  <2> QED
    BY <2>1, <2>2, ListKept, LineKept DEF CliInv, Listed
<1> QED
  BY <1>1, <1>2, <1>3, <1>4, <1>5, <1>6, <1>7, <1>8, <1>9, <1>10 DEF CliNext

LEMMA CliInvariance == CliSpec => []CliInv
  BY CliInitInv, CliNextInv, PTL DEF CliSpec

-----------------------------------------------------------------------------
(* The properties of the run `cli'. *)

\* The array, its length and what the last Enter did keep their types, whatever
\* is typed.
THEOREM CliTypeCorrect == CliSpec => []CliTypeOK
<1>1. CliInv => CliTypeOK
  BY DEF CliInv
<1> QED
  BY <1>1, CliInvariance, PTL

\* The line is terminated inside the array and nothing is left behind it.
THEOREM LineIsTerminated == CliSpec => []BufferClean
<1>1. CliInv => BufferClean
  BY DEF CliInv, BufferClean
<1> QED
  BY <1>1, CliInvariance, PTL

\* Whichever registrations fail, the commands offered stay offered.
THEOREM OfferedForGood == CliSpec => OffersKept
<1>1. CliInv /\ [CliNext]_allVars => [Listed \subseteq ToSet(items')]_allVars
  BY CliNextInv
<1> QED
  BY <1>1, CliInvariance, PTL DEF CliSpec, OffersKept

-----------------------------------------------------------------------------
(* The prompt is a CommandLine. *)

Line == [i \in 1..(IF fault = "none" THEN cur_cmd_len ELSE 0) |-> cur_cmd[i - 1]]
NamesOf(commands, names) == [i \in DOMAIN commands |-> names[commands[i]]]
Table == NamesOf(items, cmd)

\* What is typed in the array: as long as the length says, and no longer.
LEMMA LineFacts ==
  ASSUME CliInv
  PROVE  /\ Line \in Seq(Char \cup {NUL})
         /\ fault # "none" => Line = <<>>
         /\ fault = "none" => /\ cur_cmd_len \in 0..MaxLen /\ Len(Line) = cur_cmd_len
                              /\ \A i \in 1..cur_cmd_len : Line[i] = cur_cmd[i - 1]
<1>1. cur_cmd \in [0..MaxLen -> Char \cup {NUL}] /\ cur_cmd_len \in 0..(Word - 1)
  BY DEF CliInv, CliTypeOK
<1>2. CASE fault = "none"
  <2>1. cur_cmd_len \in 0..MaxLen
    BY <1>1, <1>2, MaxLenAssumption DEF CliInv, BufferClean
  <2>2. Line = [i \in 1..cur_cmd_len |-> cur_cmd[i - 1]]
    BY <1>2 DEF Line
  <2> QED
    BY <1>1, <1>2, <2>1, <2>2, MaxLenAssumption
<1>3. CASE fault # "none"
  <2>1. Line = [i \in 1..0 |-> cur_cmd[i - 1]]
    BY <1>3 DEF Line
  <2> QED
    BY <1>3, <2>1
<1> QED
  BY <1>2, <1>3

LEMMA NamesFacts ==
  ASSUME NEW s \in Seq(Cmd), NEW names, \A i \in 1..Len(s) : names[s[i]] \in Name
  PROVE  /\ NamesOf(s, names) \in Seq(Name) /\ Len(NamesOf(s, names)) = Len(s)
         /\ \A i \in 1..Len(s) : NamesOf(s, names)[i] = names[s[i]]
<1>1. DOMAIN s = 1..Len(s) /\ Len(s) \in Nat
  OBVIOUS
<1>2. NamesOf(s, names) = [i \in 1..Len(s) |-> names[s[i]]]
  BY <1>1 DEF NamesOf
<1> QED
  BY <1>1, <1>2

\* Registering a command puts its name behind the others.
LEMMA NamesAppend ==
  ASSUME NEW s \in Seq(Cmd), NEW names, NEW c \in Cmd, names[c] \in Name,
         \A i \in 1..Len(s) : names[s[i]] \in Name
  PROVE  NamesOf(Append(s, c), names) = Append(NamesOf(s, names), names[c])
<1> DEFINE len == Len(s)
           t == Append(s, c)
           before == NamesOf(s, names)
           after == NamesOf(t, names)
<1>1. /\ len \in Nat /\ t \in Seq(Cmd) /\ Len(t) = len + 1
      /\ t[len + 1] = c /\ \A i \in 1..len : t[i] = s[i]
  OBVIOUS
<1>2. before \in Seq(Name) /\ Len(before) = len /\ \A i \in 1..len : before[i] = names[s[i]]
  BY NamesFacts
<1> HIDE DEF len, t, before
<1>3. \A i \in 1..(len + 1) : names[t[i]] \in Name
  BY <1>1 DEF len
<1>4. /\ after \in Seq(Name) /\ Len(after) = len + 1
      /\ \A i \in 1..(len + 1) : after[i] = names[t[i]]
  BY <1>1, <1>3, NamesFacts
<1> HIDE DEF after
<1>5. /\ Append(before, names[c]) \in Seq(Name) /\ Len(Append(before, names[c])) = len + 1
      /\ Append(before, names[c])[len + 1] = names[c]
      /\ \A i \in 1..len : Append(before, names[c])[i] = before[i]
  BY <1>1, <1>2
<1>6. \A i \in 1..(len + 1) : after[i] = Append(before, names[c])[i]
  BY <1>1, <1>2, <1>4, <1>5
<1>7. after = Append(before, names[c])
  BY <1>4, <1>5, <1>6, SeqEqual
<1> QED
  BY <1>7 DEF after, before, t

LEMMA ListedNamed ==
  ASSUME IInv
  PROVE  items \in Seq(Cmd) /\ \A i \in 1..Len(items) : cmd[items[i]] \in Name
<1>1. items \in Seq(Cmd) /\ DOMAIN items = 1..Len(items)
  BY DEF IInv, TypeOK
<1> QED
  BY <1>1 DEF IInv, TypeOK, ItemsOK, LiveNamed

\* The string in the array is what CommandLine looks up of the line.
LEMMA TextIsText ==
  ASSUME CliInv, fault = "none"
  PROVE  Text = SubSeq(Line, 1, Min({i \in DOMAIN Line : Line[i] = NUL} \cup {Len(Line) + 1}) - 1)
<1> DEFINE len == cur_cmd_len
           A == {i \in 0..MaxLen : cur_cmd[i] = NUL} \cup {MaxLen + 1}
           B == {i \in DOMAIN Line : Line[i] = NUL} \cup {Len(Line) + 1}
<1>1. /\ len \in 0..MaxLen /\ Len(Line) = len /\ DOMAIN Line = 1..len
      /\ Line \in Seq(Char \cup {NUL})
      /\ \A i \in 1..len : Line[i] = cur_cmd[i - 1]
  BY LineFacts
<1>2. \A i \in len..MaxLen : cur_cmd[i] = NUL
  BY DEF CliInv, BufferClean
<1>3. MaxLen \in Nat
  BY MaxLenAssumption
<1>4. A \in SUBSET Nat /\ A # {} /\ B \in SUBSET Nat /\ B # {}
  BY <1>1, <1>3
<1>5. /\ Min(A) \in A /\ \A j \in A : Min(A) <= j
      /\ Min(B) \in B /\ \A j \in B : Min(B) <= j
  BY <1>4, MinOfPositions
<1> DEFINE a == Min(A)
           b == Min(B)
<1>6. a \in Nat /\ b \in Nat
  BY <1>4, <1>5
<1>7. len \in A /\ len + 1 \in B
  BY <1>1, <1>2, <1>3
<1>8. a <= len /\ b <= len + 1
  BY <1>5, <1>7
<1>9. b - 1 \in A
  <2>1. CASE b = len + 1
    BY <1>1, <1>7, <2>1
  <2>2. CASE b \in 1..len /\ Line[b] = NUL
    BY <1>1, <1>3, <2>2
  <2> QED
    BY <1>1, <1>5, <2>1, <2>2
<1>10. a + 1 \in B
  <2>1. CASE a = len
    BY <1>7, <2>1
  <2>2. CASE a < len
    <3>1. cur_cmd[a] = NUL
      BY <1>1, <1>3, <1>5, <1>6, <2>2
    <3>2. a + 1 \in 1..len /\ Line[a + 1] = NUL
      BY <1>1, <1>6, <2>2, <3>1
    <3> QED
      BY <1>1, <3>2
  <2> QED
    BY <1>1, <1>6, <1>8, <2>1, <2>2
<1> HIDE DEF A, B
<1>11. a = b - 1
  BY <1>5, <1>6, <1>9, <1>10
<1>12. Text = [i \in 1..a |-> cur_cmd[i - 1]]
  BY DEF Text, A
<1> HIDE DEF a, b
<1>13. SubSeq(Line, 1, a) = [i \in 1..a |-> Line[i]]
  BY <1>1, <1>6, <1>8
<1>14. \A i \in 1..a : Line[i] = cur_cmd[i - 1]
  BY <1>1, <1>6, <1>8
<1>15. Text = SubSeq(Line, 1, b - 1)
  BY <1>11, <1>12, <1>13, <1>14
<1> QED
  BY <1>15 DEF b, B

\* Looking the string up in the list finds what CommandLine finds in its table.
LEMMA HitIsHit ==
  ASSUME IInv, NEW text
  PROVE  /\ StopsAt(text) = {i \in DOMAIN Table : IsPrefix(Table[i], text)}
         /\ FindHits(text) => cmd[Hit(text)] = Table[Min(StopsAt(text))]
<1>1. \A i \in DOMAIN items : home[items[i]] # "released"
  BY DEF IInv, ItemsOK
<1>2. DOMAIN Table = DOMAIN items /\ \A i \in DOMAIN items : Table[i] = cmd[items[i]]
  BY DEF Table, NamesOf
<1>3. StopsAt(text) = {i \in DOMAIN Table : IsPrefix(Table[i], text)}
  BY <1>1, <1>2 DEF StopsAt, Stops
<1>4. ASSUME FindHits(text) PROVE cmd[Hit(text)] = Table[Min(StopsAt(text))]
  <2>1. Min(StopsAt(text)) \in StopsAt(text)
    BY <1>4, HitIsListed
  <2>2. Min(StopsAt(text)) \in DOMAIN items /\ Hit(text) = items[Min(StopsAt(text))]
    BY <1>4, <2>1 DEF StopsAt, Hit, FindHits
  <2> QED
    BY <1>2, <2>2
<1> QED
  BY <1>3, <1>4

LEMMA PromptNames ==
  /\ Prompt!Nothing = Nothing /\ Prompt!NotFound = NotFound
  /\ Prompt!Text = SubSeq(Line, 1, Min({i \in DOMAIN Line : Line[i] = NUL} \cup {Len(Line) + 1}) - 1)
  /\ Prompt!Hits = {i \in DOMAIN Table : IsPrefix(Table[i], Prompt!Text)}
  BY DEF Prompt!Nothing, Prompt!NotFound, Prompt!Text, Prompt!Hits, Nothing, NotFound,
         Line, Table, NamesOf, Min, IsPrefix, Prompt!Min, Prompt!IsPrefix

LEMMA PromptInit == CliInit => Prompt!Init
<1> SUFFICES ASSUME CliInit PROVE Prompt!Init
  OBVIOUS
<1>1. Line = <<>> /\ Table = <<>>
  BY DEF CliInit, Init, Line, Table, NamesOf
<1> QED
  BY <1>1 DEF CliInit, Init, Prompt!Init, Prompt!Nothing, Nothing, Line, Table, NamesOf

\* A step that leaves line, names and answer alone.
LEMMA Stutters ==
  ASSUME UNCHANGED <<lineVars, ran, fault>>, Table' = Table
  PROVE  UNCHANGED Prompt!vars
<1>1. Line' = Line
  BY DEF lineVars, Line
<1> QED
  BY <1>1 DEF Prompt!vars, Line, Table, NamesOf

\* A fault is the death of the prompt.
LEMMA PromptDies ==
  ASSUME fault' # "none", UNCHANGED <<items, cmd, ran>>
  PROVE  Prompt!Die
<1>1. Line' = <<>> /\ Table' = Table
  BY DEF Line, Table
<1> QED
  BY <1>1 DEF Prompt!Die, Line, Table, NamesOf

LEMMA StartInitStutters ==
  ASSUME CliInv, StartInit
  PROVE  UNCHANGED Prompt!vars
<1> DEFINE c == started + 1
<1>1. /\ home[c] = "none" /\ UNCHANGED <<items, fault>> /\ IInv /\ c \in Cmd
      /\ cmd' = cmd \/ cmd' = [cmd EXCEPT ![c] = Step.name]
      /\ UNCHANGED <<lineVars, ran>>
  BY StartUpFacts DEF StartInit, CmdInit, CliInv, CliTypeOK, Starting
<1> HIDE DEF c
<1>2. \A i \in DOMAIN items : items[i] # c /\ items[i] \in Cmd
  BY <1>1 DEF IInv, TypeOK, ItemsOK
<1>3. \A i \in DOMAIN items : cmd'[items[i]] = cmd[items[i]]
  BY <1>1, <1>2 DEF IInv, TypeOK
<1>4. Table' = Table
  BY <1>1, <1>3 DEF Table, NamesOf
<1> QED
  BY <1>1, <1>4, Stutters

LEMMA StartRegisterOffers ==
  ASSUME CliInv, StartRegister
  PROVE  UNCHANGED Prompt!vars \/ \E n \in Name : Prompt!Offer(n)
<1>1. /\ handle \in Cmd /\ IInv /\ fault = "none" /\ home[handle] = "live"
      /\ UNCHANGED <<lineVars, ran, cmd, fault>>
      /\ items' = items \/ items' = Append(items, handle)
  BY DEF CliInv, CliTypeOK, StartRegister, CmdRegister, CmdAppend, CmdAppendFails, Registrable
<1>2. CASE items' = items
  <2>1. Table' = Table
    BY <1>1, <1>2 DEF Table
  <2> QED
    BY <1>1, <2>1, Stutters
<1>3. CASE items' = Append(items, handle)
  <2>1. /\ cmd[handle] \in Name
        /\ items \in Seq(Cmd) /\ \A i \in 1..Len(items) : cmd[items[i]] \in Name
    BY <1>1, ListedNamed DEF IInv, LiveNamed
  <2>2. Table' = Append(Table, cmd[handle])
    BY <1>1, <1>3, <2>1, NamesAppend DEF Table
  <2>3. Line' = Line
    BY <1>1 DEF lineVars, Line
  <2>4. PICK n \in Name : n = cmd[handle]
    BY <2>1
  <2>5. Prompt!Offer(n)
    BY <1>1, <2>2, <2>3, <2>4 DEF Prompt!Offer, Line, Table, NamesOf
  <2> QED
    BY <2>5
<1> QED
  BY <1>1, <1>2, <1>3

LEMMA StartDestroyStutters ==
  ASSUME CliInv, StartDestroy
  PROVE  UNCHANGED Prompt!vars
<1>1. items' = items /\ UNCHANGED <<lineVars, ran, cmd, fault>>
  BY StartDestroyInv DEF StartDestroy, CmdDestroy
<1>2. Table' = Table
  BY <1>1 DEF Table
<1> QED
  BY <1>1, <1>2, Stutters

LEMMA KeyTypes ==
  ASSUME CliInv, NEW c \in Char \cup {NUL}, Key(c)
  PROVE  Prompt!Type(c)
<1> DEFINE len == cur_cmd_len
<1>1. /\ fault = "none" /\ fault' = "none" /\ CliInv'
      /\ UNCHANGED <<items, cmd, ran>>
  BY KeyInv DEF Key, Prompting, cmdlVars
<1>2. Table' = Table
  BY <1>1 DEF Table
<1>3. /\ len \in 0..MaxLen /\ Line \in Seq(Char \cup {NUL}) /\ Len(Line) = len
      /\ \A i \in 1..len : Line[i] = cur_cmd[i - 1]
      /\ MaxLen \in Nat /\ cur_cmd \in [0..MaxLen -> Char \cup {NUL}]
  BY <1>1, LineFacts, MaxLenAssumption DEF CliInv, CliTypeOK
<1>4. CASE len < MaxLen
  <2>1. cur_cmd' = [cur_cmd EXCEPT ![len] = c] /\ cur_cmd_len' = len + 1
    BY <1>4 DEF Key
  <2>2. Line' = [i \in 1..(len + 1) |-> cur_cmd'[i - 1]]
    BY <1>1, <2>1 DEF Line
  <2>3. \A i \in 1..(len + 1) : cur_cmd'[i - 1] = IF i <= len THEN cur_cmd[i - 1] ELSE c
    BY <1>3, <1>4, <2>1
  <2>4. /\ Line' \in Seq(Char \cup {NUL}) /\ Len(Line') = len + 1
        /\ \A i \in 1..(len + 1) : Line'[i] = IF i <= len THEN Line[i] ELSE c
    BY <1>3, <2>2, <2>3
  <2> HIDE DEF len
  <2>5. /\ Append(Line, c) \in Seq(Char \cup {NUL}) /\ Len(Append(Line, c)) = len + 1
        /\ \A i \in 1..(len + 1) : Append(Line, c)[i] = IF i <= len THEN Line[i] ELSE c
    BY <1>3
  <2>6. Line' = Append(Line, c)
    BY <2>4, <2>5, SeqEqual
  <2> QED
    BY <1>1, <1>2, <1>3, <1>4, <2>6 DEF Prompt!Type, Line, Table, NamesOf
<1>5. CASE ~(len < MaxLen)
  <2>1. UNCHANGED <<cur_cmd, cur_cmd_len>>
    BY <1>5 DEF Key, lineVars
  <2>2. Line' = Line
    BY <1>1, <2>1 DEF Line
  <2> QED
    BY <1>1, <1>2, <1>3, <1>5, <2>2 DEF Prompt!Type, Line, Table, NamesOf
<1> QED
  BY <1>4, <1>5

LEMMA KeyBackspaceRubs ==
  ASSUME CliInv, KeyBackspace
  PROVE  Prompt!Rub \/ Prompt!Die
<1> DEFINE len == cur_cmd_len
<1>1. fault = "none" /\ UNCHANGED <<items, cmd, ran>>
  BY DEF KeyBackspace, Prompting, cmdlVars
<1>2. CASE len > 0
  <2>1. /\ len \in 1..MaxLen /\ Line \in Seq(Char \cup {NUL}) /\ Len(Line) = len
        /\ \A i \in 1..len : Line[i] = cur_cmd[i - 1]
        /\ MaxLen \in Nat /\ cur_cmd \in [0..MaxLen -> Char \cup {NUL}] /\ len \in 0..(Word - 1)
    BY <1>1, <1>2, LineFacts, MaxLenAssumption DEF CliInv, CliTypeOK
  <2>2. cur_cmd_len' = len - 1
    BY <1>2, <2>1, BackOne DEF KeyBackspace
  <2>3. cur_cmd' = [cur_cmd EXCEPT ![len - 1] = NUL] /\ fault' = "none"
    BY <1>1, <1>2 DEF KeyBackspace
  <2>4. Line' = [i \in 1..(len - 1) |-> cur_cmd'[i - 1]]
    BY <2>2, <2>3 DEF Line
  <2>5. \A i \in 1..(len - 1) : cur_cmd'[i - 1] = Line[i]
    BY <2>1, <2>3
  <2> HIDE DEF len
  <2>6. Line' = SubSeq(Line, 1, len - 1)
    BY <2>1, <2>4, <2>5
  <2>7. Table' = Table
    BY <1>1 DEF Table
  <2>8. Line # <<>>
    BY <2>1
  <2> QED
    BY <1>1, <2>1, <2>3, <2>6, <2>7, <2>8 DEF Prompt!Rub, Prompt!Front, Line, Table, NamesOf
<1>3. CASE ~(len > 0)
  <2>1. fault' # "none"
    BY <1>3 DEF KeyBackspace
  <2> QED
    BY <1>1, <2>1, PromptDies
<1> QED
  BY <1>2, <1>3

LEMMA KeyTabLooks ==
  ASSUME CliInv, KeyTab
  PROVE  UNCHANGED Prompt!vars \/ Prompt!Die
<1>1. /\ fault = "none" /\ fault' \in {"none", "bad_read"}
      /\ UNCHANGED <<lineVars, items, cmd, ran>>
  BY DEF KeyTab, CmdFind, Prompting, cliVars
<1>2. CASE fault' = "none"
  <2>1. Table' = Table
    BY <1>1 DEF Table
  <2> QED
    BY <1>1, <1>2, <2>1, Stutters
<1>3. CASE fault' # "none"
  BY <1>1, <1>3, PromptDies
<1> QED
  BY <1>2, <1>3

\* The array is cleared, the list stays.
LEMMA Cleans ==
  ASSUME CleanPrompt, UNCHANGED <<items, cmd>>
  PROVE  Line' = <<>> /\ Table' = Table
<1>1. Line' = [i \in 1..0 |-> cur_cmd'[i - 1]]
  BY DEF CleanPrompt, Line
<1> QED
  BY <1>1 DEF Table

LEMMA EnterRuns ==
  ASSUME CliInv, Enter
  PROVE  Prompt!Enter \/ Prompt!Die
<1>1. /\ fault = "none" /\ IInv /\ CmdFind(Text) /\ UNCHANGED <<items, cmd, started, handle>>
      /\ cur_cmd_len > 0
  BY DEF CliInv, Enter, CmdFind, Prompting
<1>2. CASE fault' # "none" /\ UNCHANGED <<ran, lineVars>>
  BY <1>1, <1>2, PromptDies
<1>3. CASE /\ fault' = "none" /\ CleanPrompt
           /\ ran' = IF Hit(Text) = NULL THEN NotFound ELSE cmd[Hit(Text)]
  <2>1. Line' = <<>> /\ Table' = Table
    BY <1>1, <1>3, Cleans
  <2>2. Line # <<>>
    BY <1>1, LineFacts
  <2>3. Prompt!Text = Text
    BY <1>1, TextIsText, PromptNames
  <2>4. Prompt!Hits = StopsAt(Text)
    BY <1>1, <2>3, PromptNames, HitIsHit
  <2>5. CASE FindHits(Text)
    <3>1. StopsAt(Text) # {} /\ Hit(Text) # NULL
      BY <2>5 DEF FindHits, Hit
    <3>2. ran' = Table[Min(StopsAt(Text))]
      BY <1>1, <1>3, <2>5, <3>1, HitIsHit
    <3>3. ran' = Table[Prompt!Min(Prompt!Hits)]
      BY <2>4, <3>2 DEF Min, Prompt!Min
    <3> QED
      BY <1>1, <1>3, <2>1, <2>2, <2>4, <3>1, <3>3 DEF Prompt!Enter, Line, Table, NamesOf
  <2>6. CASE FindMisses(Text)
    <3>1. Hit(Text) = NULL
      BY <2>6 DEF FindMisses
    <3>2. StopsAt(Text) = {}
      <4>1. SUFFICES ASSUME StopsAt(Text) # {} PROVE FALSE
        OBVIOUS
      <4>2. StopsAt(Text) \in SUBSET Nat
        BY <1>1 DEF IInv, TypeOK, StopsAt
      <4>3. Min(StopsAt(Text)) \in DOMAIN items
        BY <4>1, <4>2, MinOfPositions DEF StopsAt
      <4>4. items[Min(StopsAt(Text))] \in Cmd
        BY <1>1, <4>3 DEF IInv, TypeOK
      <4> QED
        BY <3>1, <4>1, <4>4, NullAssumption DEF Hit
    <3>3. ran' = NotFound
      BY <1>3, <3>1
    <3> QED
      BY <1>1, <1>3, <2>1, <2>2, <2>4, <3>2, <3>3, PromptNames DEF Prompt!Enter, Line, Table, NamesOf
  <2>7. FindHits(Text) \/ FindMisses(Text)
    BY <1>1, <1>3, FindInv
  <2> QED
    BY <2>5, <2>6, <2>7
<1> QED
  BY <1>1, <1>2, <1>3 DEF Enter

LEMMA EnterEmptyRuns ==
  ASSUME CliInv, EnterEmpty
  PROVE  Prompt!Enter
<1>1. /\ fault = "none" /\ fault' = "none" /\ cur_cmd_len = 0 /\ CleanPrompt /\ ran' = Nothing
      /\ UNCHANGED <<items, cmd>>
  BY DEF EnterEmpty, Prompting, cmdlVars
<1>2. Line' = <<>> /\ Table' = Table
  BY <1>1, Cleans
<1>3. Line = [i \in 1..0 |-> cur_cmd[i - 1]]
  BY <1>1 DEF Line
<1>4. Line = <<>>
  BY <1>3
<1> QED
  BY <1>1, <1>2, <1>4, PromptNames DEF Prompt!Enter, Line, Table, NamesOf

LEMMA PromptNext ==
  ASSUME CliInv, [CliNext]_allVars
  PROVE  [Prompt!Next]_Prompt!vars
<1>1. CASE StartInit
  BY <1>1, StartInitStutters
<1>2. CASE StartRegister
  BY <1>2, StartRegisterOffers DEF Prompt!Next
<1>3. CASE StartDestroy
  BY <1>3, StartDestroyStutters
<1>4. ASSUME NEW c \in Char \cup {NUL}, Key(c) PROVE Prompt!Next
  BY <1>4, KeyTypes DEF Prompt!Next
<1>5. CASE KeyBackspace
  BY <1>5, KeyBackspaceRubs DEF Prompt!Next
<1>6. CASE KeyTab
  BY <1>6, KeyTabLooks DEF Prompt!Next
<1>7. CASE Enter
  BY <1>7, EnterRuns DEF Prompt!Next
<1>8. CASE EnterHelpFaults
  <2>1. fault' # "none" /\ UNCHANGED <<items, cmd, ran>>
    BY <1>8 DEF EnterHelpFaults, cmdlVars, cliVars
  <2> QED
    BY <2>1, PromptDies DEF Prompt!Next
<1>9. CASE EnterEmpty
  BY <1>9, EnterEmptyRuns DEF Prompt!Next
<1>10. CASE UNCHANGED allVars
  <2>1. UNCHANGED <<lineVars, ran, fault, items, cmd>>
    BY <1>10 DEF allVars, cliVars, cmdlVars
  <2>2. Table' = Table
    BY <2>1 DEF Table
  <2> QED
    BY <2>1, <2>2, Stutters
<1> QED
  BY <1>1, <1>2, <1>3, <1>4, <1>5, <1>6, <1>7, <1>8, <1>9, <1>10 DEF CliNext

\* What is typed, run and offered at the prompt is what CommandLine says, for
\* any names, any length of the line and whichever registrations fail.
THEOREM PromptIsCommandLine == CliSpec => ImplementsCommandLine
<1>1. CliInit => Prompt!Init
  BY PromptInit
<1>2. CliInv /\ [CliNext]_allVars => [Prompt!Next]_Prompt!vars
  BY PromptNext
<1> QED
  BY <1>1, <1>2, CliInvariance, PTL DEF CliSpec, ImplementsCommandLine, Prompt!Spec
=============================================================================
