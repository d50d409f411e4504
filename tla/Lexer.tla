------------------------------- MODULE Lexer -------------------------------
(***************************************************************************)
(* The Flex scanner of the server (parser/lex.l), as far as it decides     *)
(* where a statement ends: comments, strings, words and single characters. *)
(* At each position the longest match of a rule is taken.                  *)
(*                                                                         *)
(* A text is a sequence of characters.  Word stands for a keyword, an      *)
(* identifier or a number, Exit for the word exit or bye.                  *)
(***************************************************************************)
EXTENDS Naturals, SequencesExt

Word == "w"
Exit == "x"
NewLine == "nl"

Starts(text, i, pair) == i < Len(text) /\ text[i] = pair[1] /\ text[i + 1] = pair[2]

(* ([^']|'')*: the quotes come in pairs.                                   *)
RECURSIVE StringBody(_)
StringBody(s) ==
    \/ s = <<>>
    \/ s[1] # "'" /\ StringBody(Tail(s))
    \/ Starts(s, 1, <<"'", "'">>) /\ StringBody(SubSeq(s, 3, Len(s)))

(* Where the longest match of the rules for strings ends: a closed string, *)
(* or an unterminated one.                                                 *)
StringEnd(text, i) ==
    Max({j \in i..Len(text) :
           \/ StringBody(SubSeq(text, i + 1, j))
           \/ j > i /\ text[j] = "'" /\ StringBody(SubSeq(text, i + 1, j - 1))})

CommentEnds(text, i) == {j \in (i + 3)..Len(text) : Starts(text, j - 1, <<"*", "/">>)}
LineEnds(text, i) == {j \in i..(Len(text) - 1) : text[j + 1] = NewLine}
EndOf(ends, text) == IF ends = {} THEN Len(text) ELSE Min(ends)

(* The match at position i: where it ends, and whether it yields a token.  *)
(* An unterminated comment yields INVALID.                                 *)
Match(text, i) ==
    CASE text[i] = NewLine -> [end |-> i, token |-> FALSE]
      [] Starts(text, i, <<"/", "*">>) ->
            [end |-> EndOf(CommentEnds(text, i), text), token |-> CommentEnds(text, i) = {}]
      [] Starts(text, i, <<"-", "-">>) ->
            [end |-> EndOf(LineEnds(text, i), text), token |-> FALSE]
      [] text[i] = "'" -> [end |-> StringEnd(text, i), token |-> TRUE]
      [] text[i] \in {Word, Exit} ->
            [end |-> Max({j \in i..Len(text) : \A l \in i..j : text[l] \in {Word, Exit}}),
             token |-> TRUE]
      [] OTHER -> [end |-> i, token |-> TRUE]

(* The tokens from position i on, each as the text it matched.             *)
RECURSIVE TokensFrom(_, _)
TokensFrom(text, i) ==
    IF i > Len(text) THEN <<>>
    ELSE LET m == Match(text, i)
         IN  (IF m.token THEN <<SubSeq(text, i, m.end)>> ELSE <<>>) \o TokensFrom(text, m.end + 1)

Tokens(text) == TokensFrom(text, 1)
=============================================================================
