---------------------------- MODULE MCEvsipConfig ----------------------------
(* Small instances of EvsipConfig for TLC. *)
EXTENDS EvsipConfig

\* "user_agent" and "local_port" stand for all options of their types.
UserAgent == <<"u">>
LocalPort == <<"p">>
MCStringOption == {UserAgent}
MCIntegerOption == {LocalPort}
MCDefault == (UserAgent :> <<"d">>) @@ (LocalPort :> 5)
MCSpace == {" ", "\n"}
MCDigit == ("1" :> 1) @@ ("2" :> 2)
MCChar == MCSpace \cup DOMAIN MCDigit \cup {"=", ":", ";", "-", "u", "p", "x", "d"}

\* A line as an author writes it: blanks around everything, a comment behind
\* a blank.
Text(value, lead, around, sep, tail) ==
  [name |-> UserAgent, text |-> value, number |-> 0,
   chars |-> lead \o UserAgent \o around \o <<sep>> \o around \o value \o tail]
Number(value, number, around, sep, tail) ==
  [name |-> LocalPort, text |-> value, number |-> number,
   chars |-> LocalPort \o around \o <<sep>> \o around \o value \o tail]
Unset(chars) == [name |-> <<>>, text |-> <<>>, number |-> 0, chars |-> chars]

Repeat(c, n) == [i \in 1..n |-> c]
Blank == {<<>>, <<" ">>, <<" ", " ">>}
Comment == {<<>>, <<" ", ";", "=">>, <<" ", " ", ";">>}
Written == {<<>>, <<"x">>, <<"x", " ", "x">>, <<"x", ";", ":">>, Repeat("x", 7), Repeat("x", 9)}

TextLine ==
  {Text(v, b, b, s, <<>>) : v \in Written, b \in Blank, s \in {"=", ":"}}
  \cup {Text(v, <<>>, b, s, t) : v \in Written \ {<<>>, Repeat("x", 9)}, b \in Blank, s \in {"=", ":"}, t \in Comment}
  \cup {Text(v, <<>>, <<>>, "=", <<>>) : v \in {<<"=", "x">>, <<"x", ":", "=">>}}
NumberLine ==
  {Number(<<"1", "2">>, 12, b, s, t) : b \in Blank, s \in {"=", ":"}, t \in {<<>>, <<" ", ";">>}}
  \cup {Number(<<"-", "2">>, -2, <<>>, "=", <<>>), Number(<<"1", "x", "2">>, 1, <<>>, "=", <<>>),
        Number(<<"x">>, 0, <<>>, ":", <<>>)}
\* The last one fills the buffer exactly.
OtherLine ==
  {Unset(s) : s \in {<<>>, <<" ">>, <<";", "u", "=", "x">>, <<" ", ";", "u", "=", "x">>, <<"=", "x">>,
                           <<"u">>, <<"u", " ", ";", "=", "x">>, <<"x", "=", "x">>, <<"u", "x", ":", "1">>,
                           <<";">> \o Repeat(" ", LineMax - 3)}}
\* The value is copied from beyond the middle of the buffer.
FarRight == {Text(<<>>, Repeat(" ", 6), <<>>, "=", <<>>), Text(<<"x">>, <<>>, Repeat(" ", 4), "=", <<>>)}

\* Lines the code takes for something else: an equals sign behind the colon, a
\* comment in the place of the value, and two that fgets returns in pieces.
Misread ==
  {Text(<<"x", "=", "x">>, <<>>, <<>>, ":", <<>>), Text(<<>>, <<>>, <<" ">>, "=", <<";", "x">>),
   Text(Repeat("x", LineMax), <<>>, <<>>, "=", <<>>), Unset(Repeat("x", LineMax - 2) \o <<"u", "=", "x">>)}

MCLine ==
  Misread \cup FarRight
  \cup {l \in TextLine \cup NumberLine \cup OtherLine : Len(l.chars) <= LineMax - 2}

\* The properties are about the files of all other lines.
ASSUME Line \ WellWritten = Line \cap Misread

\* What the claim below is about.
Ordinary == {Text(<<"x">>, <<>>, b, "=", <<>>) : b \in Blank}
MCColon == Ordinary \cup {Text(<<"x", "=", "x">>, <<>>, <<>>, ":", <<>>)}

Parsed == pc = "run" /\ fd = "open"

\* evsip_config.c:207 "Not a comment, must be a name[=:]value pair": every
\* such pair sets the option it names.
EveryPairSets == Parsed => values[UserAgent] = Meant(UserAgent, Len(file))
=============================================================================
