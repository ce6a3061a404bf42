---------------------------- MODULE ConfigParser ----------------------------
(***************************************************************************)
(* tag_rules_load() of config_parser.c: the configuration file is read     *)
(* piece by piece, each piece that is not blank or a comment becomes a     *)
(* rule or ends the load with an error code, and the rules are validated   *)
(* when the file has ended.                                                *)
(*                                                                         *)
(* A line of the file is what its author wrote (kind, and for a rule what  *)
(* it means) and the pieces fgets cuts it into: one, or several if the     *)
(* line does not fit the 100-byte buffer.  A piece has                     *)
(*   comment  whether its first visible character is '#',                  *)
(*   length   the characters up to the first blank, '#' or newline,        *)
(*   cut      the text up to there,                                        *)
(*   whole    the text up to the end of the piece,                         *)
(* and a text has                                                          *)
(*   dashes   how many '-' are in it,                                      *)
(*   parts    the strings between the dashes, empty ones left out.         *)
(* A part has the address inet_aton reads from it and the number strtol    *)
(* reads from it, or Invalid.                                              *)
(***************************************************************************)
EXTENDS TagRules, FiniteSets

CONSTANTS Lines,      \* the lines a file is made of
          MaxLines,   \* bound: lines in a file
          MAX_RULES   \* rules the table holds (128)

(* What stands for a part that is no address, or no number.                *)
Invalid == -1

MAX_RULE_CONTENT_LENGTH == 37

Text == [dashes : Nat,
         parts : Seq([ip : Nat \cup {Invalid}, num : Nat \cup {Invalid}])]
Piece == [comment : BOOLEAN, length : Nat, cut : Text, whole : Text]

(* A line has at least one character, its newline, so at least one piece.  *)
ASSUME ParserAssumption ==
  /\ {MaxLines, MAX_RULES} \subseteq Nat
  /\ \A l \in Lines : l.pieces \in Seq(Piece) \ {<<>>}

VARIABLES file,    \* the lines of the file
          unread,  \* the lines, each as the pieces fgets has yet to return
          rules,   \* tag_rules->rules, as far as they are complete
          size,    \* tag_rules->size
          result,  \* what tag_rules_load returns
          pc

vars == <<file, unread, rules, size, result, pc>>

Init ==
  /\ file \in UNION {[1..n -> Lines] : n \in 0..MaxLines}
  /\ unread = [i \in DOMAIN file |-> file[i].pieces]
  /\ rules = <<>>
  /\ size = 0
  /\ result = 0
  /\ pc = "open"

Return(code) == result' = code /\ pc' = "done"
-----------------------------------------------------------------------------
(* line_editor(): the text that is left of a piece.  It is cut at the      *)
(* first blank, '#' or newline, but only if that is among its first 37     *)
(* characters: a longer text keeps whatever follows it on the line.        *)
line_editor_OneShort(p) ==
  IF p.length < MAX_RULE_CONTENT_LENGTH - 1 THEN p.cut ELSE p.whole

line_editor(p) ==
  IF p.length < MAX_RULE_CONTENT_LENGTH THEN p.cut ELSE p.whole

IsSkipped(p) == p.comment \/ p.length = 0

(* The error code for a text that is no rule, or 0.  With one dash the     *)
(* text is an address and a tag, with two a range and a tag.               *)
ParseError_NoLimit(text) ==
  IF text.dashes \notin 1..2 THEN -5
  ELSE IF text.parts = <<>> THEN -7
  ELSE IF text.parts[1].ip = Invalid THEN -8
  ELSE IF text.dashes = 2 /\ Len(text.parts) < 2 THEN -7
  ELSE IF text.dashes = 2 /\ text.parts[2].ip = Invalid THEN -8
  ELSE IF Len(text.parts) < text.dashes + 1 THEN -7
  ELSE IF text.parts[text.dashes + 1].num = Invalid THEN -9
  ELSE 0

ParseError(text) ==
  IF text.dashes \notin 1..2 THEN -5
  ELSE IF Len(rules) >= MAX_RULES THEN -6
  ELSE IF text.parts = <<>> THEN -7
  ELSE IF text.parts[1].ip = Invalid THEN -8
  ELSE IF text.dashes = 2 /\ Len(text.parts) < 2 THEN -7
  ELSE IF text.dashes = 2 /\ text.parts[2].ip = Invalid THEN -8
  ELSE IF Len(text.parts) < text.dashes + 1 THEN -7
  ELSE IF text.parts[text.dashes + 1].num = Invalid THEN -9
  ELSE 0

ParsedRule_NoRange(text) ==
  [ip_left |-> text.parts[1].ip, ip_right |-> text.parts[1].ip,
   tag |-> text.parts[text.dashes + 1].num]

ParsedRule(text) ==
  [ip_left |-> text.parts[1].ip,
   ip_right |-> text.parts[text.dashes].ip,
   tag |-> text.parts[text.dashes + 1].num]
-----------------------------------------------------------------------------
Open ==
  /\ pc = "open"
  /\ pc' = "read"
  /\ UNCHANGED <<file, unread, rules, size, result>>

OpenFails ==
  /\ pc = "open"
  /\ Return(-2)
  /\ UNCHANGED <<file, unread, rules, size>>

(* One turn of the loop.                                                   *)
ReadPiece ==
  /\ pc = "read"
  /\ unread # <<>>
  /\ unread' = IF Tail(Head(unread)) = <<>> THEN Tail(unread)
               ELSE <<Tail(Head(unread))>> \o Tail(unread)
  /\ LET p == Head(Head(unread))
         text == line_editor(p)
     IN \/ /\ IsSkipped(p)
           /\ UNCHANGED <<rules, result, pc>>
        \/ /\ ~IsSkipped(p)
           /\ ParseError(text) # 0
           /\ Return(ParseError(text))
           /\ UNCHANGED rules
        \/ /\ ~IsSkipped(p)
           /\ ParseError(text) = 0
           /\ rules' = Append(rules, ParsedRule(text))
           /\ UNCHANGED <<result, pc>>
  /\ UNCHANGED <<file, size>>

ReadFails ==
  /\ pc = "read"
  /\ Return(-3)
  /\ UNCHANGED <<file, unread, rules, size>>

(* End of file: fclose, then validation, which comes after size is set.    *)
EndOfFile ==
  /\ pc = "read"
  /\ unread = <<>>
  /\ size' = Len(rules)
  /\ Return(IF validate_rules(rules) # 0 THEN validate_rules(rules)
            ELSE Len(rules))
  /\ UNCHANGED <<file, unread, rules>>

CloseFails ==
  /\ pc = "read"
  /\ unread = <<>>
  /\ Return(-10)
  /\ UNCHANGED <<file, unread, rules, size>>

Next == \/ Open \/ OpenFails \/ ReadPiece \/ ReadFails \/ EndOfFile \/ CloseFails

Spec == Init /\ [][Next]_vars
-----------------------------------------------------------------------------
(* Properties.                                                             *)

(* The table never holds more rules than it has room for, and the load     *)
(* returns a count or one of its error codes.                              *)
TypeOK ==
  /\ rules \in Seq(Rule) /\ Len(rules) <= MAX_RULES
  /\ size \in 0..MAX_RULES
  /\ result \in -13..MAX_RULES
  /\ pc \in {"open", "read", "done"}

Addresses == UNION {{rules[i].ip_left, rules[i].ip_right} : i \in DOMAIN rules}

(* In a table that was loaded without error every address has at most one  *)
(* rule, so the tagger's first match is the only match and the order of    *)
(* the lines does not matter.                                              *)
LoadedIsUnambiguous ==
  pc = "done" /\ result > 0 =>
    \A addr \in Addresses, i \in DOMAIN rules :
       Covers(rules[i], addr) =>
         tagger_node_get_tag(addr, rules) = rules[i].tag

(* What the lines that hold a rule mean: the k-th of them has k such lines *)
(* up to it.                                                               *)
RuleLines == {i \in DOMAIN file : file[i].kind = "rule"}
Rank(i) == Cardinality({j \in RuleLines : j <= i})
Written ==
  [k \in 1..Cardinality(RuleLines) |->
     file[CHOOSE i \in RuleLines : Rank(i) = k].means]

(* A load without error has taken over exactly the rules of the file, in   *)
(* order, and reports their number.                                        *)
LoadsWhatIsWritten ==
  pc = "done" /\ result >= 0 =>
    rules = Written /\ size = Len(rules) /\ result = size

ValidFile ==
  /\ \A i \in DOMAIN file : file[i].kind \in {"rule", "comment", "blank"}
  /\ validate_rules(Written) = 0
  /\ Len(Written) <= MAX_RULES

(* A file of valid rules, comments and blank lines is never refused, save  *)
(* for an error of the file system.                                        *)
GoodFileLoads ==
  pc = "done" /\ ValidFile => result \in {Len(Written), -2, -3, -10}
=============================================================================
