------------------------------ MODULE Tokenizer ------------------------------
(***************************************************************************)
(* The two hand-written tokenizers of logic/src, EqualityPredCalcTokenizer *)
(* and PredCalcTokenizer.  A text is a sequence of one-character strings;  *)
(* `start` and `end` are token_start_pos_ and token_end_pos_, counted from *)
(* one.  Positions of lines, which only messages use, are left out, and so *)
(* are the files that a line "#include" names: such a line is a comment.   *)
(***************************************************************************)
EXTENDS Integers, SequencesExt

Lower == <<"a", "b", "c", "d", "e", "f", "g", "h", "i", "j", "k", "l", "m",
           "n", "o", "p", "q", "r", "s", "t", "u", "v", "w", "x", "y", "z">>
Upper == <<"A", "B", "C", "D", "E", "F", "G", "H", "I", "J", "K", "L", "M",
           "N", "O", "P", "Q", "R", "S", "T", "U", "V", "W", "X", "Y", "Z">>
Digits == {"0", "1", "2", "3", "4", "5", "6", "7", "8", "9"}
Alphanumeric == ToSet(Lower) \cup ToSet(Upper) \cup Digits

tolower(c) ==
  IF c \in ToSet(Upper) THEN Lower[CHOOSE i \in DOMAIN Upper : Upper[i] = c]
  ELSE c

(* setProgram; `equality` tells the two classes apart.                     *)
setProgram(chars, equality) ==
  [chars |-> chars, equality |-> equality, start |-> 0, end |-> 0,
   type |-> "Unknown"]

AtEndOfText(s) == s.type = "EndOfProgram" \/ s.end > Len(s.chars)

Ended(s) == [s EXCEPT !.type = "EndOfProgram"]

(* The first position from i on where to stop, or one past the end.        *)
Seek(s, i, Stop(_)) ==
  LET found == {k \in i .. Len(s.chars) : Stop(s.chars[k])}
  IN IF found = {} THEN Len(s.chars) + 1
     ELSE CHOOSE k \in found : \A l \in found : k <= l

advance_end_to(s, end_char) == Seek(s, s.end, LAMBDA c : c = end_char)

(* check_and_advance_end_to: the characters w stand from i on.             *)
Stands(s, i, w) ==
  /\ i + Len(w) - 1 <= Len(s.chars)
  /\ \A k \in DOMAIN w : s.chars[i + k - 1] = w[k]

(* nc_check_and_advance_end_to: w in any mixture of cases.                 *)
StandsInAnyCase(s, i, w) ==
  /\ i + Len(w) - 1 <= Len(s.chars)
  /\ \A k \in DOMAIN w : tolower(s.chars[i + k - 1]) = tolower(w[k])

(* identifier_, pidentifier_ and number_and_advance_end_to.                *)
RunEnd(s, i, S) == Seek(s, i, LAMBDA c : c \notin S) - 1

Found(s, type, end) == [s EXCEPT !.type = type, !.end = end]

AsIs(s, type) == Found(s, type, s.start)

(* Mutated: the end is left after a suffix that is broken off.             *)
accept_as_is_or_with_suffix_NoReset(s, suffix, asIs, withSuffix) ==
  IF Stands(s, s.start + 1, suffix)
  THEN Found(s, withSuffix, s.start + Len(suffix))
  ELSE IF Stands(s, s.start + 1, SubSeq(suffix, 1, 1))
  THEN Found(s, asIs, s.start + 1)
  ELSE AsIs(s, asIs)

accept_as_is_or_with_suffix(s, suffix, asIs, withSuffix) ==
  IF Stands(s, s.start + 1, suffix)
  THEN Found(s, withSuffix, s.start + Len(suffix))
  ELSE AsIs(s, asIs)

(* The words, in the order in which they are tried.                        *)
Words(equality) ==
  IF equality
  THEN <<<<<<"q", "u", "i", "t">>, "Quit">>,
         <<<<"t", "r", "u", "e">>, "True">>,
         <<<<"f", "a", "l", "s", "e">>, "False">>,
         <<<<"a", "r", "g", "u", "m", "e", "n", "t">>, "Argument">>,
         <<<<"f", "o", "r", "a", "l", "l">>, "Universal">>,
         <<<<"f", "o", "r", "s", "o", "m", "e">>, "Existential">>,
         <<<<"s", "o", "s">>, "SetOfSupport">>,
         <<<<"o", "p", "t", "i", "o", "n", "s">>, "Options">>>>
  ELSE <<<<<<"q", "u", "i", "t">>, "Quit">>,
         <<<<"T", "r", "u", "e">>, "True">>,
         <<<<"F", "a", "l", "s", "e">>, "False">>>>

(* A word, wherever the text begins with one, or else the longest run of   *)
(* letters and digits that an identifier or a number is.                   *)
Worded(s) ==
  LET c == s.chars[s.start]
      words == Words(s.equality)
      here == {i \in DOMAIN words :
                 IF s.equality THEN StandsInAnyCase(s, s.start, words[i][1])
                 ELSE Stands(s, s.start, words[i][1])}
  IN IF here # {}
     THEN LET w == words[CHOOSE i \in here : \A j \in here : i <= j]
          IN Found(s, w[2], s.start + Len(w[1]) - 1)
     ELSE CASE c \in ToSet(Lower) ->
                 Found(s, "Identifier", RunEnd(s, s.start, Alphanumeric))
            [] c \in ToSet(Upper) ->
                 Found(s, "PIdentifier", RunEnd(s, s.start, Alphanumeric))
            [] c \in Digits ->
                 Found(s, "Number", RunEnd(s, s.start, Digits))
            [] OTHER -> AsIs(s, "Unknown")

(* A dash: an arrow, a negative number, a negation, and nothing at all at  *)
(* the end of the text.                                                    *)
Dashed(s) ==
  IF ~ s.equality
  THEN accept_as_is_or_with_suffix(s, <<"-", ">">>, "Unknown", "Implication")
  ELSE CASE s.start = Len(s.chars) -> AsIs(s, "Unknown")
         [] Stands(s, s.start + 1, <<"-", ">">>) ->
              Found(s, "Implication", s.start + 2)
         [] s.start < Len(s.chars) /\ s.chars[s.start + 1] \in Digits ->
              Found(s, "NegativeNumber", RunEnd(s, s.start + 1, Digits))
         [] OTHER -> AsIs(s, "Negation")

Single ==
  [c \in {"~", "(", ")", ",", ";", ">", "[", "]"} |->
     CASE c = "~" -> "Negation"         [] c = "(" -> "LeftParenthesis"
       [] c = ")" -> "RightParenthesis" [] c = "," -> "Comma"
       [] c = ";" -> "Semicolon"        [] c = ">" -> "RightUniversal"
       [] c = "[" -> "LeftExistential"  [] c = "]" -> "RightExistential"]

EqualitySingle ==
  [c \in {"=", "{", "}"} |->
     CASE c = "=" -> "Equal" [] c = "{" -> "LeftBrace" [] c = "}" -> "RightBrace"]

(* The switch of advanceToNextToken: the token that begins at start.  The  *)
(* search for the quote that ends a string finds the one that opened it.   *)
TokenAt(s) ==
  LET c == s.chars[s.start]
      Suffixed(suffix, asIs, with) ==
        accept_as_is_or_with_suffix(s, <<suffix>>, asIs, with)
  IN CASE c = "|" /\ Stands(s, s.start + 1, <<"-">>) ->
            Found(s, "Therefore", s.start + 1)
       [] c = "|" /\ ~ Stands(s, s.start + 1, <<"-">>) ->
            Suffixed("|", "Unknown", "Or")
       [] c = "<" -> accept_as_is_or_with_suffix(
                       s, <<"-", "-", ">">>, "LeftUniversal", "Biconditional")
       [] c = "&" -> Suffixed("&", "Unknown", "And")
       [] c = "-" -> Dashed(s)
       [] c = "\"" -> LET e == advance_end_to(s, "\"")
                      IN IF e > Len(s.chars) THEN Ended(s)
                         ELSE Found(s, "String", e)
       [] c = "?" /\ s.equality -> Suffixed("-", "Unknown", "Query")
       [] c = "!" /\ s.equality -> Suffixed("=", "Negation", "NotEqual")
       [] c \in DOMAIN Single -> AsIs(s, Single[c])
       [] c \in DOMAIN EqualitySingle /\ s.equality ->
            AsIs(s, EqualitySingle[c])
       [] OTHER -> Worded(s)

(* accept_token and skip_white_space.                                      *)
Accepted(s) ==
  LET i == Seek(s, s.end + 1, LAMBDA c : c \notin {" ", "\t"})
  IN [s EXCEPT !.start = i, !.end = i]

(* One turn of the loop: the end, a comment to the end of its line or an   *)
(* empty line that is passed over, or a token.                             *)
RECURSIVE advanceToNextToken(_)
advanceToNextToken(s) ==
  LET next == Accepted(s)
  IN IF AtEndOfText(s) \/ next.start > Len(s.chars) THEN Ended(next)
     ELSE CASE next.chars[next.start] = "#" ->
                 LET e == advance_end_to(next, "\n")
                 IN IF e > Len(s.chars) THEN Ended([next EXCEPT !.end = e])
                    ELSE advanceToNextToken([next EXCEPT !.end = e])
            [] next.chars[next.start] = "\n" /\ s.equality ->
                 advanceToNextToken(AsIs(next, "NewLine"))
            [] next.chars[next.start] = "\n" /\ ~ s.equality ->
                 AsIs(next, "NewLine")
            [] OTHER -> TokenAt(next)
=============================================================================
