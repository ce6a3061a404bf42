------------------------ MODULE ConfigParserProofs -------------------------
(***************************************************************************)
(* Proofs about ConfigParser, for every file and every size of the table:  *)
(* the table does not overflow, and a table that was loaded without error  *)
(* gives no address two rules.                                             *)
(***************************************************************************)
EXTENDS ConfigParser, TagRulesProofs, SequenceTheorems, FiniteSetTheorems

(* What is still to be read consists of well-formed pieces.                *)
UnreadOK == unread \in Seq(Seq(Piece) \ {<<>>})

TableOK == rules \in Seq(Rule) /\ Len(rules) <= MAX_RULES

(* A count is returned for a validated table only.                         *)
ResultOK ==
  /\ pc # "done" => result = 0
  /\ pc = "done" /\ result > 0 => validate_rules(rules) = 0

LoadInv == TypeOK /\ UnreadOK /\ TableOK /\ ResultOK
-----------------------------------------------------------------------------
(* The table's size is a number.                                           *)
LEMMA MaxRulesNat == MAX_RULES \in Nat
  BY ParserAssumption DEF ParserAssumption

(* Taking the next piece leaves well-formed pieces.                        *)
LEMMA NextPiece ==
  ASSUME UnreadOK, unread # <<>>
  PROVE  /\ Head(Head(unread)) \in Piece
         /\ Tail(Head(unread)) # <<>> =>
              <<Tail(Head(unread))>> \o Tail(unread) \in Seq(Seq(Piece) \ {<<>>})
         /\ Tail(unread) \in Seq(Seq(Piece) \ {<<>>})
<1>1. /\ Head(unread) \in Seq(Piece) \ {<<>>}
      /\ Tail(unread) \in Seq(Seq(Piece) \ {<<>>})
  BY HeadTailProperties DEF UnreadOK
<1>2. Head(Head(unread)) \in Piece /\ Tail(Head(unread)) \in Seq(Piece)
  BY <1>1, HeadTailProperties
<1>3. ASSUME Tail(Head(unread)) # <<>>
      PROVE  <<Tail(Head(unread))>> \o Tail(unread) \in Seq(Seq(Piece) \ {<<>>})
  <2> DEFINE x == Tail(Head(unread))
  <2>1. x \in Seq(Piece) \ {<<>>}
    BY <1>2, <1>3
  <2> HIDE DEF x
  <2>2. <<x>> \in Seq(Seq(Piece) \ {<<>>})
    BY <2>1
  <2>3. <<x>> \o Tail(unread) \in Seq(Seq(Piece) \ {<<>>})
    BY <1>1, <2>2, ConcatProperties
  <2> QED
    BY <2>3 DEF x
<1> QED
  BY <1>1, <1>2, <1>3

(* The text line_editor() leaves is one of the piece's.                    *)
LEMMA EditedText ==
  ASSUME NEW p \in Piece
  PROVE  line_editor(p) \in Text
  BY DEF line_editor, Piece

(* A text without error has all it needs, and there is room for it.        *)
LEMMA WellFormedText ==
  ASSUME TableOK, NEW text \in Text, ParseError(text) = 0
  PROVE  /\ text.dashes \in 1..2 /\ Len(text.parts) > text.dashes
         /\ text.parts[1].ip \in Nat /\ text.parts[text.dashes].ip \in Nat
         /\ text.parts[text.dashes + 1].num \in Nat
         /\ Len(rules) < MAX_RULES
<1>1. /\ text.dashes \in 1..2 /\ Len(rules) < MAX_RULES
      /\ text.parts # <<>> /\ text.parts[1].ip # Invalid
      /\ text.dashes = 2 => Len(text.parts) >= 2 /\ text.parts[2].ip # Invalid
      /\ Len(text.parts) >= text.dashes + 1
      /\ text.parts[text.dashes + 1].num # Invalid
  <2>1. Len(rules) \in Nat /\ MAX_RULES \in Nat
    BY MaxRulesNat, LenProperties DEF TableOK
  <2>2. Len(text.parts) \in Nat /\ text.dashes \in Nat
    BY LenProperties DEF Text
  <2> QED
    BY <2>1, <2>2 DEF ParseError
<1>2. Len(text.parts) \in Nat /\ text.dashes \in Nat
  BY LenProperties DEF Text
<1>3. 1 \in 1..Len(text.parts) /\ text.dashes \in 1..Len(text.parts)
      /\ text.dashes + 1 \in 1..Len(text.parts)
  BY <1>1, <1>2
<1>4. \A i \in 1..Len(text.parts) :
        text.parts[i] \in [ip : Nat \cup {Invalid}, num : Nat \cup {Invalid}]
  BY ElementOfSeq DEF Text
<1>5. text.parts[1].ip \in Nat
  BY <1>1, <1>3, <1>4
<1>6. text.parts[text.dashes].ip \in Nat
  <2>1. CASE text.dashes = 1
    BY <1>5, <2>1
  <2>2. CASE text.dashes = 2
    BY <1>1, <1>3, <1>4, <2>2
  <2> QED
    BY <1>1, <2>1, <2>2
<1>7. text.parts[text.dashes + 1].num \in Nat
  BY <1>1, <1>3, <1>4
<1> QED
  BY <1>1, <1>2, <1>5, <1>6, <1>7

(* So it is a rule.                                                        *)
LEMMA ParsedIsRule ==
  ASSUME TableOK, NEW text \in Text, ParseError(text) = 0
  PROVE  ParsedRule(text) \in Rule /\ Len(rules) < MAX_RULES
BY WellFormedText DEF ParsedRule, Rule

(* Error codes are negative, so no failed load looks like a count.         *)
LEMMA ErrorsAreNegative ==
  /\ \A text : ParseError(text) # 0 => ParseError(text) \in -13..-1
  /\ validate_rules(rules) # 0 => validate_rules(rules) \in -13..-1
<1>1. \A text : ParseError(text) # 0 => ParseError(text) \in -13..-1
  BY DEF ParseError
<1>2. validate_rules(rules) # 0 => validate_rules(rules) \in -13..-1
  BY DEF validate_rules
<1> QED
  BY <1>1, <1>2

(* The file as it is opened.                                               *)
LEMMA InitLoad == Init => LoadInv
<1> SUFFICES ASSUME Init PROVE LoadInv
  OBVIOUS
<1>1. PICK n \in 0..MaxLines : file \in [1..n -> Lines]
  BY DEF Init
<1>2. n \in Nat
  BY ParserAssumption DEF ParserAssumption
<1>3. unread \in [1..n -> Seq(Piece) \ {<<>>}]
  BY <1>1, ParserAssumption DEF Init, ParserAssumption
<1>4. UnreadOK
  <2>1. [1..n -> Seq(Piece) \ {<<>>}]
          \in {[1..m -> Seq(Piece) \ {<<>>}] : m \in Nat}
    BY <1>2
  <2> QED
    BY <1>3, <2>1, SeqDef DEF UnreadOK
<1>5. rules = <<>> /\ size = 0 /\ result = 0 /\ pc = "open"
  BY DEF Init
<1>6. rules \in Seq(Rule) /\ Len(rules) = 0
  BY <1>5, EmptySeq
<1>7. TypeOK /\ TableOK
  BY <1>5, <1>6, MaxRulesNat DEF TypeOK, TableOK
<1>8. ResultOK
  BY <1>5 DEF ResultOK
<1> QED
  BY <1>4, <1>7, <1>8 DEF LoadInv

(* One turn of the loop: a piece is skipped, refused, or becomes a rule.   *)
LEMMA ReadPieceKeeps ==
  ASSUME LoadInv, ReadPiece
  PROVE  LoadInv'
<1> DEFINE text == line_editor(Head(Head(unread)))
<1>1. /\ UnreadOK /\ TableOK /\ unread # <<>> /\ size' = size
      /\ pc = "read" /\ result = 0
      /\ unread' = IF Tail(Head(unread)) = <<>> THEN Tail(unread)
                   ELSE <<Tail(Head(unread))>> \o Tail(unread)
  BY DEF ReadPiece, LoadInv, ResultOK
<1>2. \/ UNCHANGED <<rules, result, pc>>
      \/ /\ ParseError(text) # 0
         /\ result' = ParseError(text) /\ pc' = "done" /\ UNCHANGED rules
      \/ /\ ParseError(text) = 0
         /\ rules' = Append(rules, ParsedRule(text)) /\ UNCHANGED <<result, pc>>
  BY DEF ReadPiece, Return
<1>3. UnreadOK'
  BY <1>1, NextPiece DEF UnreadOK
<1>4. text \in Text
  BY <1>1, NextPiece, EditedText
<1> HIDE DEF text
<1>5. TypeOK /\ Len(rules) \in Nat /\ MAX_RULES \in Nat
  BY <1>1, LenProperties, MaxRulesNat DEF LoadInv, TableOK
<1>6. CASE UNCHANGED <<rules, result, pc>>
  BY <1>1, <1>3, <1>5, <1>6 DEF LoadInv, TypeOK, TableOK, ResultOK
<1>7. CASE /\ ParseError(text) # 0
           /\ result' = ParseError(text) /\ pc' = "done" /\ UNCHANGED rules
  <2>1. result' \in -13..-1
    BY <1>7, ErrorsAreNegative
  <2>2. result' \in -13..MAX_RULES /\ ~(result' > 0)
    BY <1>5, <2>1
  <2> QED
    BY <1>1, <1>3, <1>5, <1>7, <2>2 DEF LoadInv, TypeOK, TableOK, ResultOK
<1>8. CASE /\ ParseError(text) = 0
           /\ rules' = Append(rules, ParsedRule(text)) /\ UNCHANGED <<result, pc>>
  <2>1. ParsedRule(text) \in Rule /\ Len(rules) < MAX_RULES
    BY <1>1, <1>4, <1>8, ParsedIsRule
  <2>2. rules' \in Seq(Rule) /\ Len(rules') = Len(rules) + 1
    BY <1>1, <1>8, <2>1, AppendProperties DEF TableOK
  <2>3. TableOK' /\ TypeOK'
    BY <1>1, <1>5, <1>8, <2>1, <2>2 DEF TableOK, TypeOK
  <2>4. ResultOK'
    BY <1>1, <1>8 DEF ResultOK
  <2> QED
    BY <1>3, <2>3, <2>4 DEF LoadInv
<1> QED
  BY <1>2, <1>6, <1>7, <1>8

(* The end of the file: a count is returned only after validation.         *)
LEMMA EndOfFileKeeps ==
  ASSUME LoadInv, EndOfFile
  PROVE  LoadInv'
<1>1. /\ UNCHANGED <<unread, rules>> /\ size' = Len(rules) /\ pc' = "done"
      /\ result' = IF validate_rules(rules) # 0 THEN validate_rules(rules)
                   ELSE Len(rules)
  BY DEF EndOfFile, Return
<1>2. Len(rules) \in Nat /\ Len(rules) <= MAX_RULES /\ MAX_RULES \in Nat
  BY MaxRulesNat, LenProperties DEF LoadInv, TableOK
<1>3. /\ result' \in -13..MAX_RULES
      /\ result' > 0 => validate_rules(rules) = 0
  <2>1. CASE validate_rules(rules) # 0
    <3>1. result' \in -13..-1
      BY <1>1, <2>1, ErrorsAreNegative
    <3> QED
      BY <1>2, <3>1
  <2>2. CASE validate_rules(rules) = 0
    BY <1>1, <1>2, <2>2
  <2> QED
    BY <2>1, <2>2
<1>4. size' \in 0..MAX_RULES
  BY <1>1, <1>2
<1>5. validate_rules(rules)' = validate_rules(rules)
  BY <1>1
<1> QED
  BY <1>1, <1>2, <1>3, <1>4, <1>5
     DEF LoadInv, TypeOK, UnreadOK, TableOK, ResultOK

(* The inductive invariant of the load.                                    *)
THEOREM LoadInvariant == Spec => []LoadInv
<1>1. LoadInv /\ [Next]_vars => LoadInv'
  <2> SUFFICES ASSUME LoadInv, [Next]_vars PROVE LoadInv'
    OBVIOUS
  <2>1. CASE Open
    BY <2>1 DEF Open, LoadInv, TypeOK, UnreadOK, TableOK, ResultOK
  <2>2. CASE OpenFails \/ ReadFails \/ CloseFails
    <3>1. /\ UNCHANGED <<unread, rules, size>> /\ pc' = "done"
          /\ result' \in {-2, -3, -10}
      BY <2>2 DEF OpenFails, ReadFails, CloseFails, Return
    <3>2. result' \in -13..MAX_RULES /\ ~(result' > 0)
      BY <3>1, MaxRulesNat
    <3> QED
      BY <3>1, <3>2 DEF LoadInv, TypeOK, UnreadOK, TableOK, ResultOK
  <2>3. CASE UNCHANGED vars
    BY <2>3 DEF vars, LoadInv, TypeOK, UnreadOK, TableOK, ResultOK
  <2> QED
    BY <2>1, <2>2, <2>3, ReadPieceKeeps, EndOfFileKeeps DEF Next
<1> QED
  BY <1>1, InitLoad, PTL DEF Spec

(* TypeOK: the table never holds more rules than it has room for, however  *)
(* many lines the file has.                                                *)
THEOREM TableFits == Spec => []TypeOK
<1>1. LoadInv => TypeOK
  BY DEF LoadInv
<1> QED
  BY <1>1, LoadInvariant, PTL

(* LoadedIsUnambiguous: after a load without error the tagger's first      *)
(* match is the only match, so the order of the lines does not matter.     *)
THEOREM LoadedIsUnambiguousHolds == Spec => []LoadedIsUnambiguous
<1>1. LoadInv => LoadedIsUnambiguous
  <2> SUFFICES ASSUME LoadInv, pc = "done", result > 0, NEW addr \in Addresses,
                      NEW i \in DOMAIN rules, Covers(rules[i], addr)
               PROVE  tagger_node_get_tag(addr, rules) = rules[i].tag
    BY DEF LoadedIsUnambiguous
  <2>1. /\ rules \in Seq(Rule) /\ validate_rules(rules) = 0
        /\ DOMAIN rules = 1..Len(rules)
    BY LenProperties DEF LoadInv, TableOK, ResultOK
  <2>2. addr \in Nat
    <3>1. \A j \in DOMAIN rules : rules[j] \in Rule
      BY <2>1, ElementOfSeq
    <3> QED
      BY <3>1 DEF Addresses, Rule
  <2> QED
    BY <2>1, <2>2, FirstMatchIsOnlyMatch
<1> QED
  BY <1>1, LoadInvariant, PTL
-----------------------------------------------------------------------------
(* What a file means, and what is loaded.                                  *)

(* A text that writes a rule: an address or two, and a tag.                *)
Writes(text, r) ==
  /\ text.dashes \in 1..2
  /\ Len(text.parts) > text.dashes
  /\ text.parts[1].ip = r.ip_left
  /\ text.parts[text.dashes].ip = r.ip_right
  /\ text.parts[text.dashes + 1].num = r.tag

WrittenRule == [ip_left : Nat, ip_right : Nat, tag : Nat]

(* A line that fgets returns in one piece.  A rule is at most 36           *)
(* characters long and written up to the first blank or '#'; a line that   *)
(* is neither blank, comment nor rule is none for line_editor() either.    *)
Legible(l) ==
  /\ Len(l.pieces) = 1
  /\ l.kind = "rule" =>
       /\ ~l.pieces[1].comment
       /\ l.pieces[1].length \in 1..(MAX_RULE_CONTENT_LENGTH - 1)
       /\ l.means \in WrittenRule /\ Writes(l.pieces[1].cut, l.means)
  /\ l.kind \in {"comment", "blank"} => IsSkipped(l.pieces[1])
  /\ l.kind \notin {"rule", "comment", "blank"} =>
       /\ ~IsSkipped(l.pieces[1])
       /\ \A r \in WrittenRule : ~Writes(line_editor(l.pieces[1]), r)
AllLegible == \A l \in Lines : Legible(l)

(* How many lines have been read.                                          *)
ReadLines == Len(file) - Len(unread)

(* The rules of the lines read so far are in the table, in order, and none *)
(* of these lines was junk.                                                *)
Follows ==
  /\ Len(unread) <= Len(file)
  /\ \A i \in 1..Len(unread) : unread[i] = file[ReadLines + i].pieces
  /\ Len(rules) = Rank(ReadLines)
  /\ \A k \in 1..Len(rules) : \E i \in RuleLines :
       i <= ReadLines /\ Rank(i) = k /\ rules[k] = file[i].means
  /\ \A i \in 1..ReadLines : file[i].kind \in {"rule", "comment", "blank"}

(* How the load can end.                                                   *)
EndedRight ==
  /\ LoadsWhatIsWritten
  /\ GoodFileLoads

MeaningInv ==
  /\ file \in Seq(Lines)
  /\ pc # "done" => Follows
  /\ EndedRight
-----------------------------------------------------------------------------
(* The lines that hold a rule are finitely many.                           *)
LEMMA RuleLinesFinite ==
  ASSUME file \in Seq(Lines)
  PROVE  /\ RuleLines \subseteq 1..Len(file) /\ RuleLines \subseteq Int
         /\ IsFiniteSet(RuleLines) /\ Len(file) \in Nat
<1>1. Len(file) \in Nat /\ DOMAIN file = 1..Len(file)
  BY LenProperties
<1>2. RuleLines \subseteq 1..Len(file)
  BY <1>1 DEF RuleLines
<1>3. IsFiniteSet(1..Len(file))
  BY <1>1, FS_Interval
<1>4. IsFiniteSet(RuleLines)
  BY <1>2, <1>3, FS_Subset
<1> QED
  BY <1>1, <1>2, <1>4

(* The number of rules among the first lines.                              *)
LEMMA RankType ==
  ASSUME file \in Seq(Lines), NEW i \in Int
  PROVE  /\ IsFiniteSet({j \in RuleLines : j <= i})
         /\ Rank(i) \in Nat /\ Rank(i) <= Cardinality(RuleLines)
         /\ Cardinality(RuleLines) \in Nat
<1>2. IsFiniteSet(RuleLines)
  BY RuleLinesFinite
<1>3. PICK S : S = {j \in RuleLines : j <= i}
  OBVIOUS
<1>4. S \in SUBSET RuleLines
  BY <1>3
<1>5. IsFiniteSet(S) /\ Cardinality(S) <= Cardinality(RuleLines)
  BY <1>2, <1>4, FS_Subset
<1>6. Cardinality(S) \in Nat /\ Cardinality(RuleLines) \in Nat
  BY <1>2, <1>5, FS_CardinalityType
<1> QED
  BY <1>3, <1>5, <1>6 DEF Rank

(* A rule line has one more than the lines before it, another as many.     *)
LEMMA RankNext ==
  ASSUME file \in Seq(Lines), NEW i \in Nat
  PROVE  Rank(i + 1) = IF i + 1 \in RuleLines THEN Rank(i) + 1 ELSE Rank(i)
<1>1. PICK S : S = {j \in RuleLines : j <= i}
  OBVIOUS
<1>2. PICK T : T = {j \in RuleLines : j <= i + 1}
  OBVIOUS
<1>3. RuleLines \subseteq Int /\ IsFiniteSet(S)
  BY <1>1, RankType, RuleLinesFinite
<1>4. CASE i + 1 \in RuleLines
  <2>1. T = S \cup {i + 1} /\ i + 1 \notin S
    <3>1. \A j \in RuleLines : j <= i + 1 <=> j <= i \/ j = i + 1
      BY <1>3
    <3>2. ~(i + 1 <= i)
      OBVIOUS
    <3>3. i + 1 <= i + 1
      OBVIOUS
    <3> QED
      BY <1>1, <1>2, <1>4, <3>1, <3>2, <3>3, Zenon
  <2>2. Cardinality(T) = Cardinality(S) + 1
    BY <1>3, <2>1, FS_AddElement
  <2> QED
    BY <1>1, <1>2, <1>4, <2>2 DEF Rank
<1>5. CASE i + 1 \notin RuleLines
  <2>1. T = S
    <3>1. \A j \in RuleLines : j <= i + 1 <=> j <= i
      BY <1>3, <1>5
    <3> QED
      BY <1>1, <1>2, <3>1, Zenon
  <2> QED
    BY <1>1, <1>2, <1>5, <2>1 DEF Rank
<1> QED
  BY <1>4, <1>5

(* So no two rule lines have the same.                                     *)
LEMMA RankOfOne ==
  ASSUME file \in Seq(Lines), NEW i \in RuleLines, NEW j \in RuleLines,
         Rank(i) = Rank(j)
  PROVE  i = j
<1>1. ASSUME NEW a \in RuleLines, NEW b \in RuleLines, a < b
      PROVE  Rank(a) < Rank(b)
  <2>1. PICK S : S = {k \in RuleLines : k <= a}
    OBVIOUS
  <2>2. PICK T : T = {k \in RuleLines : k <= b}
    OBVIOUS
  <2>3. RuleLines \subseteq Int /\ IsFiniteSet(S) /\ IsFiniteSet(T)
    <3>1. RuleLines \subseteq Int /\ a \in Int /\ b \in Int
      BY RuleLinesFinite
    <3> QED
      BY <2>1, <2>2, <3>1, RankType
  <2>4. S \in SUBSET T /\ b \in T /\ b \notin S
    <3>1. b <= b /\ ~(b <= a) /\ \A k \in RuleLines : k <= a => k <= b
      BY <1>1, <2>3
    <3> QED
      BY <2>1, <2>2, <3>1, Zenon
  <2>5. Cardinality(S) <= Cardinality(T) /\ Cardinality(S) # Cardinality(T)
    BY <2>3, <2>4, FS_Subset
  <2>6. Cardinality(S) \in Nat /\ Cardinality(T) \in Nat
    BY <2>3, FS_CardinalityType
  <2> QED
    BY <2>1, <2>2, <2>5, <2>6 DEF Rank
<1>2. i \in Int /\ j \in Int
  BY RuleLinesFinite
<1>3. Rank(i) \in Nat
  BY <1>2, RankType
<1> QED
  BY <1>1, <1>2, <1>3

(* Before the first line there is none, behind the last they are all.      *)
LEMMA RankEnds ==
  ASSUME file \in Seq(Lines)
  PROVE  Rank(0) = 0 /\ Rank(Len(file)) = Cardinality(RuleLines)
<1>1. RuleLines \subseteq 1..Len(file) /\ Len(file) \in Nat
  BY RuleLinesFinite
<1>2. {j \in RuleLines : j <= 0} = {} /\ {j \in RuleLines : j <= Len(file)} = RuleLines
  <2>1. \A j \in RuleLines : ~(j <= 0) /\ j <= Len(file)
    BY <1>1
  <2> QED
    BY <2>1, Zenon
<1> QED
  BY <1>2, FS_EmptySet DEF Rank

(* A table that has followed the file to its end contains what is written. *)
LEMMA ReadToTheEnd ==
  ASSUME file \in Seq(Lines), rules \in Seq(Rule), unread = <<>>, Follows
  PROVE  rules = Written
<1>1. ReadLines = Len(file) /\ Len(file) \in Nat
  BY LenProperties DEF ReadLines
<1>2. Len(rules) = Cardinality(RuleLines) /\ rules \in [1..Len(rules) -> Rule]
  BY <1>1, RankEnds, LenProperties DEF Follows
<1>3. ASSUME NEW k \in 1..Len(rules) PROVE rules[k] = Written[k]
  <2>1. PICK i \in RuleLines : Rank(i) = k /\ rules[k] = file[i].means
    BY DEF Follows
  <2>2. PICK c : c = CHOOSE j \in RuleLines : Rank(j) = k
    OBVIOUS
  <2>3. c \in RuleLines /\ Rank(c) = k
    BY <2>1, <2>2
  <2>4. c = i
    BY <2>1, <2>3, RankOfOne
  <2> QED
    BY <1>2, <2>1, <2>2, <2>4 DEF Written
<1> QED
  BY <1>2, <1>3 DEF Written

(* Once a legible line is read, what is left follows it.                   *)
LEMMA ReadOn ==
  ASSUME file \in Seq(Lines), rules \in Seq(Rule), UnreadOK, unread # <<>>, Follows,
         file' = file, unread' = Tail(unread), NEW l, l = file[ReadLines + 1],
         \/ l.kind = "rule" /\ l.means \in Rule /\ rules' = Append(rules, l.means)
         \/ l.kind \in {"comment", "blank"} /\ rules' = rules
  PROVE  Follows'
<1>1. PICK r : r = ReadLines
  OBVIOUS
<1>2. /\ Len(file) \in Nat /\ Len(unread) \in Nat /\ Len(unread) >= 1
      /\ Len(unread) <= Len(file) /\ r = Len(file) - Len(unread)
      /\ Len(rules) \in Nat
  <2>1. Len(unread) \in Nat /\ Len(unread) # 0
    BY LenProperties, EmptySeq DEF UnreadOK
  <2> QED
    BY <1>1, <2>1, LenProperties DEF Follows, ReadLines
<1>3. /\ Len(unread') = Len(unread) - 1
      /\ \A i \in 1..Len(unread') : unread'[i] = unread[i + 1]
  BY HeadTailProperties DEF UnreadOK
<1>4. ReadLines' = r + 1 /\ r \in Nat /\ r + 1 \in 1..Len(file)
  BY <1>2, <1>3 DEF ReadLines
<1>5. RuleLines' = RuleLines /\ \A i : Rank(i)' = Rank(i)
  BY DEF RuleLines, Rank
<1>6. Len(unread') <= Len(file')
  BY <1>2, <1>3
<1>7. \A i \in 1..Len(unread') : unread'[i] = file'[ReadLines' + i].pieces
  <2> SUFFICES ASSUME NEW i \in 1..Len(unread')
               PROVE  unread'[i] = file[r + 1 + i].pieces
    BY <1>4
  <2>1. i \in Nat /\ i + 1 \in 1..Len(unread)
    BY <1>2, <1>3
  <2>2. unread[i + 1] = file[r + (i + 1)].pieces
    BY <1>1, <2>1 DEF Follows
  <2>3. r + (i + 1) = r + 1 + i
    BY <1>4, <2>1
  <2> QED
    BY <1>3, <2>2, <2>3
<1>8. Rank(r + 1) = IF r + 1 \in RuleLines THEN Rank(r) + 1 ELSE Rank(r)
  BY <1>4, RankNext
<1>9. Len(rules) = Rank(r) /\ (r + 1 \in RuleLines <=> l.kind = "rule")
  BY <1>1, <1>4, LenProperties DEF Follows, RuleLines
<1>10. CASE l.kind = "rule" /\ l.means \in Rule /\ rules' = Append(rules, l.means)
  <2>1. /\ Len(rules') = Len(rules) + 1 /\ rules'[Len(rules) + 1] = l.means
        /\ \A k \in 1..Len(rules) : rules'[k] = rules[k]
    BY <1>10, AppendProperties
  <2>2. Len(rules') = Rank(r + 1)
    BY <1>8, <1>9, <1>10, <2>1
  <2>3. ASSUME NEW k \in 1..Len(rules')
        PROVE  \E i \in RuleLines :
                 i <= r + 1 /\ Rank(i) = k /\ rules'[k] = file[i].means
    <3>1. CASE k = Len(rules) + 1
      BY <1>1, <1>4, <1>8, <1>9, <1>10, <2>1, <3>1
    <3>2. CASE k # Len(rules) + 1
      <4>1. k \in 1..Len(rules)
        BY <1>2, <2>1, <3>2
      <4>2. PICK i \in RuleLines : i <= r /\ Rank(i) = k /\ rules[k] = file[i].means
        BY <1>1, <4>1 DEF Follows
      <4>3. i <= r + 1
        BY <1>4, <4>2, RuleLinesFinite
      <4> QED
        BY <2>1, <4>1, <4>2, <4>3
    <3> QED
      BY <3>1, <3>2
  <2>4. \A i \in 1..(r + 1) : file[i].kind \in {"rule", "comment", "blank"}
    BY <1>1, <1>4, <1>10 DEF Follows
  <2> QED
    BY <1>4, <1>5, <1>6, <1>7, <2>2, <2>3, <2>4 DEF Follows
<1>11. CASE l.kind \in {"comment", "blank"} /\ rules' = rules
  <2>1. Len(rules') = Rank(r + 1)
    BY <1>8, <1>9, <1>11
  <2>2. ASSUME NEW k \in 1..Len(rules')
        PROVE  \E i \in RuleLines :
                 i <= r + 1 /\ Rank(i) = k /\ rules'[k] = file[i].means
    <3>1. PICK i \in RuleLines : i <= r /\ Rank(i) = k /\ rules[k] = file[i].means
      BY <1>1, <1>11 DEF Follows
    <3>2. i <= r + 1
      BY <1>4, <3>1, RuleLinesFinite
    <3> QED
      BY <1>11, <3>1, <3>2
  <2>3. \A i \in 1..(r + 1) : file[i].kind \in {"rule", "comment", "blank"}
    BY <1>1, <1>4, <1>11 DEF Follows
  <2> QED
    BY <1>4, <1>5, <1>6, <1>7, <2>1, <2>2, <2>3 DEF Follows
<1> QED
  BY <1>10, <1>11

(* A load that has ended with an error has not loaded a valid file.        *)
LEMMA RefusedRight ==
  ASSUME pc' = "done", result' < 0, result' \in Int, ~ValidFile'
  PROVE  EndedRight'
BY DEF EndedRight, LoadsWhatIsWritten, GoodFileLoads

(* What a text says is what the parser takes from it, if there is room.    *)
LEMMA ParsedAsWritten ==
  ASSUME rules \in Seq(Rule), NEW text \in Text, NEW r \in WrittenRule, Writes(text, r)
  PROVE  /\ ParsedRule(text) = r
         /\ ParseError(text) = IF Len(rules) >= MAX_RULES THEN -6 ELSE 0
<1>1. /\ text.dashes \in 1..2 /\ Len(text.parts) > text.dashes
      /\ text.parts[1].ip \in Nat /\ text.parts[text.dashes].ip \in Nat
      /\ text.parts[text.dashes + 1].num \in Nat
  BY DEF Writes, WrittenRule
<1>2. Len(text.parts) \in Nat /\ text.parts # <<>>
  <2>1. Len(text.parts) \in Nat
    BY LenProperties DEF Text
  <2> QED
    BY <1>1, <2>1, EmptySeq
<1>3. ParsedRule(text) = r
  BY DEF ParsedRule, Writes, WrittenRule
<1>4. Invalid \notin Nat
  BY DEF Invalid
<1>5. ParseError(text) = IF Len(rules) >= MAX_RULES THEN -6 ELSE 0
  <2>1. CASE text.dashes = 1
    BY <1>1, <1>2, <1>4, <2>1 DEF ParseError
  <2>2. CASE text.dashes = 2
    BY <1>1, <1>2, <1>4, <2>2 DEF ParseError
  <2> QED
    BY <1>1, <2>1, <2>2
<1> QED
  BY <1>3, <1>5

(* A text that says nothing is refused.                                    *)
LEMMA JunkIsRefused ==
  ASSUME TableOK, NEW text \in Text, \A r \in WrittenRule : ~Writes(text, r)
  PROVE  ParseError(text) \in -13..-1
<1>1. ASSUME ParseError(text) = 0 PROVE FALSE
  <2>1. /\ text.dashes \in 1..2 /\ Len(text.parts) > text.dashes
        /\ text.parts[1].ip \in Nat /\ text.parts[text.dashes].ip \in Nat
        /\ text.parts[text.dashes + 1].num \in Nat
    BY <1>1, WellFormedText
  <2>2. PICK r : r = [ip_left |-> text.parts[1].ip,
                      ip_right |-> text.parts[text.dashes].ip,
                      tag |-> text.parts[text.dashes + 1].num]
    OBVIOUS
  <2>3. r \in WrittenRule /\ Writes(text, r)
    BY <2>1, <2>2 DEF WrittenRule, Writes
  <2> QED
    BY <2>3
<1> QED
  BY <1>1, ErrorsAreNegative

(* One turn of the loop reads a line: a rule is added, or refused if there *)
(* is no room; comments and blank lines change nothing; junk is refused.   *)
LEMMA ReadPieceFollows ==
  ASSUME AllLegible, LoadInv, MeaningInv, ReadPiece
  PROVE  MeaningInv'
<1>1. /\ UnreadOK /\ TableOK /\ rules \in Seq(Rule) /\ unread # <<>> /\ pc = "read"
      /\ result = 0 /\ file \in Seq(Lines) /\ file' = file /\ Follows
  BY DEF ReadPiece, LoadInv, TableOK, ResultOK, MeaningInv
<1>2. PICK r : r = ReadLines
  OBVIOUS
<1>3. /\ Len(file) \in Nat /\ Len(unread) \in Nat /\ Len(unread) >= 1
      /\ Len(rules) \in Nat /\ MAX_RULES \in Nat
      /\ r \in Nat /\ r + 1 \in 1..Len(file)
  <2>1. Len(unread) \in Nat /\ Len(unread) # 0
    BY <1>1, LenProperties, EmptySeq DEF UnreadOK
  <2> QED
    BY <1>1, <1>2, <2>1, LenProperties, MaxRulesNat DEF Follows, ReadLines
<1>4. PICK l : l = file[r + 1]
  OBVIOUS
<1>5. l \in Lines /\ Legible(l)
  BY <1>1, <1>3, <1>4, ElementOfSeq DEF AllLegible
<1>6. PICK p : p = l.pieces[1]
  OBVIOUS
<1>7. Head(Head(unread)) = p /\ Tail(Head(unread)) = <<>> /\ p \in Piece
  <2>1. l.pieces \in Seq(Piece) /\ Len(l.pieces) = 1
    BY <1>5, ParserAssumption DEF ParserAssumption, Legible
  <2>2. unread[1] = l.pieces /\ Head(unread) = unread[1]
    BY <1>1, <1>2, <1>3, <1>4, HeadTailProperties DEF Follows, UnreadOK
  <2>3. Head(l.pieces) = p /\ Tail(l.pieces) = <<>>
    <3>1. PICK q : q = l.pieces
      OBVIOUS
    <3>2. q \in Seq(Piece) /\ Len(q) = 1
      BY <2>1, <3>1
    <3>3. q # <<>>
      BY <3>2, EmptySeq
    <3>4. Tail(q) \in Seq(Piece) /\ Len(Tail(q)) = 0 /\ Head(q) = q[1]
      BY <3>2, <3>3, HeadTailProperties
    <3>5. Tail(q) = <<>>
      BY <3>4, EmptySeq
    <3> QED
      BY <1>6, <3>1, <3>4, <3>5
  <2> QED
    BY <1>1, <2>2, <2>3, NextPiece
<1>8. unread' = Tail(unread)
  BY <1>7 DEF ReadPiece
<1>9. PICK text : text = line_editor(p)
  OBVIOUS
<1>10. text \in Text
  BY <1>7, <1>9, EditedText
<1>11. \/ IsSkipped(p) /\ UNCHANGED <<rules, pc>>
       \/ /\ ~IsSkipped(p) /\ ParseError(text) # 0
          /\ result' = ParseError(text) /\ pc' = "done" /\ UNCHANGED rules
       \/ /\ ~IsSkipped(p) /\ ParseError(text) = 0
          /\ rules' = Append(rules, ParsedRule(text)) /\ UNCHANGED pc
  BY <1>7, <1>9 DEF ReadPiece, Return
<1>12. RuleLines' = RuleLines /\ Written' = Written
  BY <1>1 DEF RuleLines, Written, Rank
<1>13. ASSUME UNCHANGED pc,
              \/ l.kind = "rule" /\ l.means \in Rule /\ rules' = Append(rules, l.means)
              \/ l.kind \in {"comment", "blank"} /\ rules' = rules
       PROVE  MeaningInv'
  <2>1. Follows'
    BY <1>1, <1>2, <1>4, <1>8, <1>13, ReadOn
  <2>2. EndedRight'
    BY <1>1, <1>13 DEF EndedRight, LoadsWhatIsWritten, GoodFileLoads
  <2> QED
    BY <1>1, <2>1, <2>2 DEF MeaningInv
<1>14. ASSUME pc' = "done", result' \in -13..-1, ~ValidFile' PROVE MeaningInv'
  <2>1. EndedRight'
    BY <1>14, RefusedRight
  <2> QED
    BY <1>1, <1>14, <2>1 DEF MeaningInv
<1>15. CASE l.kind = "rule"
  <2>1. /\ ~IsSkipped(p) /\ text = p.cut
        /\ l.means \in WrittenRule /\ Writes(text, l.means)
    BY <1>5, <1>6, <1>9, <1>15
       DEF Legible, IsSkipped, line_editor, MAX_RULE_CONTENT_LENGTH
  <2>2. /\ ParsedRule(text) = l.means
        /\ ParseError(text) = IF Len(rules) >= MAX_RULES THEN -6 ELSE 0
    BY <1>1, <1>10, <2>1, ParsedAsWritten
  <2>3. CASE ParseError(text) = 0
    <3>1. l.means \in Rule
      BY <1>1, <1>10, <2>2, <2>3, ParsedIsRule
    <3> QED
      BY <1>11, <1>13, <1>15, <2>1, <2>2, <2>3, <3>1
  <2>4. CASE ParseError(text) # 0
    <3>1. Len(rules) >= MAX_RULES /\ ParseError(text) = -6
      BY <2>2, <2>4
    <3>2. r + 1 \in RuleLines
      BY <1>1, <1>3, <1>4, <1>15, LenProperties DEF RuleLines
    <3>3. Rank(r + 1) = Len(rules) + 1
      <4>1. Rank(r + 1) = Rank(r) + 1
        BY <1>1, <1>3, <3>2, RankNext
      <4> QED
        BY <1>1, <1>2, <4>1 DEF Follows
    <3>4. Cardinality(RuleLines) \in Nat /\ Rank(r + 1) <= Cardinality(RuleLines)
      <4>1. r + 1 \in Int
        BY <1>3
      <4> QED
        BY <1>1, <4>1, RankType
    <3>5. Len(Written) = Cardinality(RuleLines)
      BY <3>4 DEF Written
    <3>6. ~ValidFile'
      BY <1>3, <1>12, <3>1, <3>3, <3>4, <3>5 DEF ValidFile
    <3>7. pc' = "done" /\ result' = -6
      BY <1>11, <2>1, <2>4, <3>1
    <3> QED
      BY <1>14, <3>6, <3>7
  <2> QED
    BY <2>3, <2>4
<1>16. CASE l.kind \in {"comment", "blank"}
  <2>1. IsSkipped(p)
    BY <1>5, <1>6, <1>16 DEF Legible
  <2> QED
    BY <1>11, <1>13, <1>16, <2>1
<1>17. CASE l.kind \notin {"rule", "comment", "blank"}
  <2>1. ~IsSkipped(p) /\ \A w \in WrittenRule : ~Writes(text, w)
    BY <1>5, <1>6, <1>9, <1>17 DEF Legible
  <2>2. ParseError(text) \in -13..-1
    BY <1>1, <1>10, <2>1, JunkIsRefused
  <2>3. pc' = "done" /\ result' = ParseError(text)
    BY <1>11, <2>1, <2>2
  <2>4. ~ValidFile'
    BY <1>1, <1>3, <1>4, <1>17, LenProperties DEF ValidFile
  <2> QED
    BY <1>14, <2>2, <2>3, <2>4
<1> QED
  BY <1>15, <1>16, <1>17

(* At the end of the file the table is what is written, and it is accepted *)
(* if that is valid.                                                       *)
LEMMA EndOfFileFollows ==
  ASSUME LoadInv, MeaningInv, EndOfFile
  PROVE  MeaningInv'
<1>1. /\ file \in Seq(Lines) /\ file' = file /\ rules' = rules /\ rules \in Seq(Rule)
      /\ unread = <<>> /\ Follows /\ pc' = "done" /\ size' = Len(rules)
      /\ result' = IF validate_rules(rules) # 0 THEN validate_rules(rules)
                   ELSE Len(rules)
  BY DEF EndOfFile, Return, MeaningInv, LoadInv, TableOK
<1>2. rules = Written
  BY <1>1, ReadToTheEnd
<1>3. Written' = Written
  BY <1>1 DEF Written, RuleLines, Rank
<1>4. CASE validate_rules(rules) = 0
  <2>1. LoadsWhatIsWritten'
    BY <1>1, <1>2, <1>3, <1>4 DEF LoadsWhatIsWritten
  <2>2. GoodFileLoads'
    BY <1>1, <1>2, <1>3, <1>4 DEF GoodFileLoads
  <2> QED
    BY <1>1, <2>1, <2>2 DEF MeaningInv, EndedRight
<1>5. CASE validate_rules(rules) # 0
  <2>1. result' \in -13..-1
    BY <1>1, <1>5, ErrorsAreNegative
  <2>2. validate_rules(Written') # 0
    BY <1>2, <1>3, <1>5
  <2>3. ~ValidFile'
    BY <2>2 DEF ValidFile
  <2>4. EndedRight'
    BY <1>1, <2>1, <2>3, RefusedRight
  <2> QED
    BY <1>1, <2>4 DEF MeaningInv
<1> QED
  BY <1>4, <1>5

(* When the file is opened, nothing has been read.                         *)
LEMMA InitFollows == Init => MeaningInv
<1> SUFFICES ASSUME Init PROVE MeaningInv
  OBVIOUS
<1>1. PICK n \in 0..MaxLines : file \in [1..n -> Lines]
  BY DEF Init
<1>2. n \in Nat
  BY ParserAssumption DEF ParserAssumption
<1>3. file \in Seq(Lines) /\ Len(file) = n /\ DOMAIN file = 1..n
  BY <1>1, <1>2
<1>4. /\ unread = [i \in 1..n |-> file[i].pieces] /\ rules = <<>> /\ pc = "open"
      /\ Len(unread) = n
  BY <1>2, <1>3 DEF Init
<1>5. ReadLines = 0
  BY <1>2, <1>3, <1>4 DEF ReadLines
<1>6. Len(rules) = 0
  BY <1>4, EmptySeq
<1>7. Follows
  BY <1>2, <1>3, <1>4, <1>5, <1>6, RankEnds DEF Follows
<1> QED
  BY <1>3, <1>4, <1>7 DEF MeaningInv, EndedRight, LoadsWhatIsWritten, GoodFileLoads

(* What the table has followed, it follows.                                *)
LEMMA SameFollows ==
  ASSUME Follows, UNCHANGED <<file, unread, rules>>
  PROVE  Follows'
<1>1. /\ ReadLines' = ReadLines /\ RuleLines' = RuleLines
      /\ \A i : Rank(i)' = Rank(i)
  BY DEF ReadLines, RuleLines, Rank
<1>2. Rank(ReadLines)' = Rank(ReadLines)
  BY DEF ReadLines, RuleLines, Rank
<1> QED
  BY <1>1, <1>2 DEF Follows

(* The invariant: the table follows the file, for any file of legible      *)
(* lines.                                                                  *)
THEOREM MeaningInvariant ==
  ASSUME AllLegible
  PROVE  Spec => []MeaningInv
<1>1. LoadInv /\ MeaningInv /\ [Next]_vars => MeaningInv'
  <2> SUFFICES ASSUME LoadInv, MeaningInv, [Next]_vars PROVE MeaningInv'
    OBVIOUS
  <2>1. CASE Open
    <3>1. UNCHANGED <<file, unread, rules>> /\ pc = "open" /\ pc' = "read"
      BY <2>1 DEF Open
    <3>2. Follows'
      BY <3>1, SameFollows DEF MeaningInv
    <3>3. EndedRight'
      BY <3>1 DEF EndedRight, LoadsWhatIsWritten, GoodFileLoads
    <3> QED
      BY <3>1, <3>2, <3>3 DEF MeaningInv
  <2>2. CASE OpenFails \/ ReadFails \/ CloseFails
    <3>1. file' = file /\ pc' = "done" /\ result' \in {-2, -3, -10}
      BY <2>2 DEF OpenFails, ReadFails, CloseFails, Return
    <3>2. ~(result' >= 0)
      BY <3>1
    <3> QED
      BY <3>1, <3>2 DEF MeaningInv, EndedRight, LoadsWhatIsWritten, GoodFileLoads
  <2>3. CASE UNCHANGED vars
    <3>1. UNCHANGED <<file, unread, rules, size, result, pc>>
      BY <2>3 DEF vars
    <3>2. Follows => Follows'
      BY <3>1, SameFollows
    <3>3. Written' = Written /\ (ValidFile' <=> ValidFile)
      BY <3>1 DEF Written, ValidFile, RuleLines, Rank
    <3>4. EndedRight'
      BY <3>1, <3>3 DEF MeaningInv, EndedRight, LoadsWhatIsWritten, GoodFileLoads
    <3> QED
      BY <3>1, <3>2, <3>4 DEF MeaningInv
  <2> QED
    BY <2>1, <2>2, <2>3, ReadPieceFollows, EndOfFileFollows DEF Next
<1> QED
  BY <1>1, InitFollows, LoadInvariant, PTL DEF Spec

(* LoadsWhatIsWritten: a load without error has taken over the rules of    *)
(* the file, all of them and in order, and no line that is none.           *)
THEOREM LoadsWhatIsWrittenHolds ==
  ASSUME AllLegible
  PROVE  Spec => []LoadsWhatIsWritten
<1>1. MeaningInv => LoadsWhatIsWritten
  BY DEF MeaningInv, EndedRight
<1> QED
  BY <1>1, MeaningInvariant, PTL

(* GoodFileLoads: of a file of valid rules, comments and blank lines that  *)
(* fit the buffer, tag_rules_load() refuses none.                          *)
THEOREM GoodFileLoadsHolds ==
  ASSUME AllLegible
  PROVE  Spec => []GoodFileLoads
<1>1. MeaningInv => GoodFileLoads
  BY DEF MeaningInv, EndedRight
<1> QED
  BY <1>1, MeaningInvariant, PTL
=============================================================================
