--------------------------- MODULE MCSentenceParser ---------------------------
(***************************************************************************)
(* Lines for SentenceParser: every combination of good and bad values of    *)
(* the seven fields to be parsed intact, and a few lines to be damaged.     *)
(***************************************************************************)
EXTENDS SentenceParser

MCCode ==
  [c \in {"0", "1", "2", "3", "4", "5", "6", "7", "8", "9", "A", "B", "C", "D",
          "E", "F", "I", "M", "O", "S", "V", "X", "a", "b", "c", "d", "e", "f",
          "w", "x", "!", "$", "*", ",", "CR", "LF"} |->
   CASE c = "0" -> 48 [] c = "1" -> 49 [] c = "2" -> 50 [] c = "3" -> 51
     [] c = "4" -> 52 [] c = "5" -> 53 [] c = "6" -> 54 [] c = "7" -> 55
     [] c = "8" -> 56 [] c = "9" -> 57 [] c = "A" -> 65 [] c = "B" -> 66
     [] c = "C" -> 67 [] c = "D" -> 68 [] c = "E" -> 69 [] c = "F" -> 70
     [] c = "I" -> 73 [] c = "M" -> 77 [] c = "O" -> 79 [] c = "S" -> 83
     [] c = "V" -> 86 [] c = "X" -> 88 [] c = "a" -> 97 [] c = "b" -> 98
     [] c = "c" -> 99 [] c = "d" -> 100 [] c = "e" -> 101 [] c = "f" -> 102
     [] c = "w" -> 119 [] c = "x" -> 120 [] c = "!" -> 33 [] c = "$" -> 36
     [] c = "*" -> 42 [] c = "," -> 44 [] c = "CR" -> 13 [] c = "LF" -> 10]

(* Numbers, among them one with a leading zero, one that is 2 in eight bits,*)
(* and strings that are none.                                               *)
MCNumerals ==
  <<>> :> -1 @@ <<"x">> :> -1 @@ <<"1", "x">> :> -1
  @@ <<"0">> :> 0 @@ <<"1">> :> 1 @@ <<"2">> :> 2 @@ <<"5">> :> 5 @@ <<"6">> :> 6
  @@ <<"9">> :> 9 @@ <<"0", "2">> :> 2 @@ <<"1", "0">> :> 10 @@ <<"2", "5", "8">> :> 258

MCPayloads == Seq(DOMAIN MCCode)
MCNoPayload == <<>>

Vdm == <<"A", "I", "V", "D", "M">>
Types ==
  {Vdm, <<"B", "S", "V", "D", "O">>, <<"X", "I", "V", "D", "M">>,
   <<"A", "I", "V", "D", "X">>, <<"A", "I", "V", "D">>}

MCFields ==
  {<<type, count, index, id, channel, payload, fill>> :
     type \in Types,
     count \in {<<>>, <<"0">>, <<"1">>, <<"2">>, <<"0", "2">>, <<"6">>, <<"2", "5", "8">>},
     index \in {<<"0">>, <<"1">>, <<"2">>, <<"1", "x">>},
     id \in {<<>>, <<"0">>, <<"9">>, <<"1", "0">>},
     channel \in {<<>>, <<"X", "B">>},
     payload \in {<<>>, <<"w">>},
     fill \in {<<>>, <<"0">>, <<"5">>, <<"6">>}}

(* Lines with too many fields, with too few, and with next to nothing.      *)
MCOddFields ==
  {<<Vdm, <<"1">>, <<"1">>, <<>>, <<"A">>, <<"w">>, <<"0">>, <<"x">>>>,
   <<Vdm, <<"1">>, <<"1">>, <<>>, <<"A">>, <<"w">>>>,
   <<Vdm, <<"1">>>>, <<<<>>>>}

(* A line that has nothing to spare, and two that are longer.               *)
MCTransmittedLines ==
  {<<Vdm, <<"2">>, <<"1">>, <<"0">>, <<>>, <<>>, <<"0">>>>,
   <<Vdm, <<"1">>, <<"1">>, <<>>, <<"A">>, <<"1", "w">>, <<"2">>>>,
   <<<<"A", "S", "V", "D", "O">>, <<"2">>, <<"1">>, <<"9">>, <<"B">>, <<"5">>, <<"0">>>>}

MCWrittenLines == MCFields \cup MCOddFields \cup MCTransmittedLines
=============================================================================
