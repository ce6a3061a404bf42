--------------------------- MODULE MCConfigParser ---------------------------
(* ConfigParser with files built from a handful of lines.  Addresses are   *)
(* small numbers; a part that is a plain number is an address as well,     *)
(* because inet_aton takes "7" for 0.0.0.7.                                *)
EXTENDS ConfigParser, TLC

Ip(a) == [ip |-> a, num |-> -1]
Num(n) == [ip |-> n, num |-> n]
Word == [ip |-> -1, num |-> -1]

TextOf(dashes_, parts_) == [dashes |-> dashes_, parts |-> parts_]
Empty == TextOf(0, <<>>)
(* A piece with a newline right behind the text, and one with a comment    *)
(* there.  The newline or comment sticks to the last part if it is not cut *)
(* off, so that part is no number, and no address unless a blank follows.  *)
Plain(length_, dashes_, parts_) ==
  [comment |-> FALSE, length |-> length_, cut |-> TextOf(dashes_, parts_),
   whole |-> TextOf(dashes_, IF parts_ = <<>> THEN <<Word>>
                           ELSE [parts_ EXCEPT ![Len(parts_)] = Word])]
Commented(length_, dashes_, parts_) ==
  [Plain(length_, dashes_, parts_) EXCEPT
     !.whole = TextOf(dashes_ + 1,
                    Append([parts_ EXCEPT ![Len(parts_)].num = -1], Word))]
Hash == [comment |-> TRUE, length |-> 0, cut |-> Empty, whole |-> Empty]

RangeLine(a, b, tag) ==
  [kind |-> "rule", means |-> [ip_left |-> a, ip_right |-> b, tag |-> tag],
   pieces |-> <<Plain(36, 2, <<Ip(a), Ip(b), Num(tag)>>)>>]
(* One address, with a comment behind it that has a dash of its own.       *)
HostLine(a, tag) ==
  [kind |-> "rule", means |-> [ip_left |-> a, ip_right |-> a, tag |-> tag],
   pieces |-> <<Commented(12, 1, <<Ip(a), Num(tag)>>)>>]
Other(kind_, pieces_) ==
  [kind |-> kind_, pieces |-> pieces_,
   means |-> [ip_left |-> 0, ip_right |-> 0, tag |-> 0]]

(* A comment of 100 characters or more: the second piece is parsed.        *)
LongComment == Other("comment", <<Hash, Plain(5, 0, <<Word>>)>>)

SomeRules == {RangeLine(1, 3, 10), RangeLine(3, 4, 20), RangeLine(5, 5, 4095),
              RangeLine(7, 6, 10), RangeLine(8, 9, 4096), HostLine(2, 0)}

JunkLines ==
  {Other("junk", <<Plain(8, 0, <<Ip(1)>>)>>),
   Other("junk", <<Plain(20, 3, <<Ip(1), Ip(2), Num(3), Num(4)>>)>>),
   Other("junk", <<Plain(2, 2, <<>>)>>),
   Other("junk", <<Plain(9, 2, <<Ip(1), Num(5)>>)>>),
   Other("junk", <<Plain(9, 1, <<Ip(1)>>)>>),
   Other("junk", <<Plain(9, 1, <<Word, Num(5)>>)>>),
   Other("junk", <<Plain(9, 2, <<Ip(1), Word, Num(5)>>)>>),
   Other("junk", <<Plain(9, 1, <<Ip(1), Word>>)>>),
   Other("junk", <<Commented(37, 1, <<Ip(1), Num(5)>>)>>)}

ShortLines ==
  SomeRules \cup JunkLines
    \cup {Other("comment", <<Hash>>), Other("blank", <<Plain(0, 0, <<>>)>>)}

CommentedLines == {RangeLine(1, 3, 10), LongComment}
=============================================================================
