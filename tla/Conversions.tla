---------------------------- MODULE Conversions ----------------------------
(***************************************************************************)
(* The conversions between text and values that the added code of the two  *)
(* servers does by hand:                                                   *)
(*   - sip_controller.c takes the value of a SIP header apart (init_vlst,  *)
(*     init_val), edits one attribute as the query says (process_query)    *)
(*     and puts the value together again (serialize_value); every 401 and  *)
(*     200 sent over TCP goes through it, whether a query edits it or not; *)
(*   - int_to_char writes the numbers of a report, char_to_int reads the   *)
(*     numbers of a query, in ike_sa_instance.c and in sip_instance.c.     *)
(* A header value is a sequence over Alphabet: "n" is the letter the name  *)
(* of the edited attribute consists of and stands for any other character, *)
(* "q" is the double quote.  Characters of numbers are their codes.        *)
(***************************************************************************)
EXTENDS Integers, Sequences, FiniteSets, FiniteSetsExt, SequencesExt

CONSTANTS
    MaxLen,      \* bound on the length of a header value
    MaxNumber    \* bound on the numbers that are reported

ASSUME BoundsAssumption == MaxLen \in Nat \ {0} /\ MaxNumber \in Nat

Alphabet == {"n", "=", ";", ",", " ", "<", ">", "q"}

(* The texts parse_key_value_line hands to init_vlst: not empty, and       *)
(* without the spaces that followed the colon.                             *)
Values == {s \in UNION {[1..k -> Alphabet] : k \in 1..MaxLen} : s[1] # " "}

Edits == {"none", "fill", "literal", "drop"}
None  == "none"     \* a val_t without a delimiter

VARIABLES
    pc,        \* "parse", then "done" or "crashed"; or "report", "query", then "reported", "read"
    text,      \* the header value as it was received
    pos,       \* p - value + 1
    tmp,       \* the buffer of init_vlst, up to q
    inside,    \* inside of init_vlst
    vlst,      \* the list of val_t
    stray,     \* a byte behind the value was read and taken for a separator
    edit,      \* what process_query does to attribute n
    out,       \* the text written: the header value, or the number
    number,    \* the number to report or to read
    base,      \* the base it is read in
    value      \* the number that was read

headerVars == <<text, pos, tmp, inside, vlst, stray, edit>>
numberVars == <<number, base, value>>
vars == <<pc, headerVars, out, numberVars>>

----------------------------------------------------------------------------
(* init_val: attribute and value of one piece.  Every = outside of quotes  *)
(* ends the attribute and starts over; the value is stored only when the   *)
(* quotes of the piece are closed.                                         *)
Quotes(s, i) == Cardinality({j \in 1..(i - 1) : s[j] = "q"})

InitVal(s, delim, space) ==
    LET eqs  == {i \in DOMAIN s : s[i] = "=" /\ Quotes(s, i) % 2 = 0}
        last == Max(eqs \cup {0})
        prev == Max((eqs \ {last}) \cup {0})
    IN  [has |-> eqs # {}, attr |-> SubSeq(s, prev + 1, last - 1),
         val |-> IF Quotes(s, Len(s) + 1) % 2 = 0
                 THEN SubSeq(s, last + 1, Len(s)) ELSE <<>>,
         delim |-> delim, space |-> space]

(* serialize_value *)
Serialized(v) ==
    (IF v.has THEN v.attr \o <<"=">> ELSE <<>>) \o v.val
        \o (IF v.delim # None THEN <<v.delim>> ELSE <<>>)
        \o (IF v.space THEN <<" ">> ELSE <<>>)

SerializeValue(list) == FlattenSeq([i \in DOMAIN list |-> Serialized(list[i])])

----------------------------------------------------------------------------
(* init_vlst, one action per branch of its loop                            *)
Parsing == pc = "parse" /\ pos <= Len(text) + 1

Cut(delim, space) ==
    /\ vlst' = Append(vlst, InitVal(tmp, delim, space))
    /\ tmp' = <<>>
    /\ UNCHANGED <<pc, text, inside, edit, out, numberVars>>

Semicolon ==
    /\ Parsing /\ ~inside /\ pos <= Len(text) /\ text[pos] = ";"
    /\ Cut(";", FALSE)
    /\ pos' = pos + 1
    /\ UNCHANGED stray

(* The loop runs once more with p - value = vlen.  The byte there belongs  *)
(* to the heap: it may be a semicolon, which the first branch then takes.  *)
End ==
    /\ Parsing /\ ~inside /\ pos = Len(text) + 1
    /\ \E byte \in {";", "n"} :
          /\ Cut(IF byte = ";" THEN ";" ELSE None, FALSE)
          /\ stray' = (stray \/ byte = ";")
    /\ pos' = pos + 1

Space ==
    /\ Parsing /\ ~inside /\ pos <= Len(text) /\ text[pos] = " "
    /\ Cut(None, TRUE)
    /\ pos' = pos + 1
    /\ UNCHANGED stray

(* Mutant of Comma: the space is noted and not skipped.                    *)
Comma_KeepsSpace ==
    /\ Parsing /\ ~inside /\ pos <= Len(text) /\ text[pos] = ","
    /\ \E byte \in IF pos < Len(text) THEN {text[pos + 1]} ELSE {" ", "n"} :
          /\ Cut(",", byte = " ")
          /\ pos' = pos + 1
          /\ stray' = (stray \/ (byte = " " /\ pos = Len(text)))

(* A comma looks one byte ahead, behind the value when it is the last one. *)
Comma ==
    /\ Parsing /\ ~inside /\ pos <= Len(text) /\ text[pos] = ","
    /\ \E byte \in IF pos < Len(text) THEN {text[pos + 1]} ELSE {" ", "n"} :
          /\ Cut(",", byte = " ")
          /\ pos' = IF byte = " " THEN pos + 2 ELSE pos + 1
          /\ stray' = (stray \/ (byte = " " /\ pos = Len(text)))

(* Every other byte is copied; a text that ends inside keeps its last      *)
(* piece in the buffer, and the byte read behind it does not matter.       *)
Keep ==
    /\ Parsing
    /\ inside \/ (pos <= Len(text) /\ text[pos] \notin {";", ",", " "})
    /\ pos' = pos + 1
    /\ IF pos <= Len(text)
       THEN /\ tmp' = Append(tmp, text[pos])
            /\ inside' = CASE text[pos] = "<" -> TRUE
                           [] text[pos] = ">" -> FALSE
                           [] text[pos] = "q" -> ~inside
                           [] OTHER -> inside
       ELSE UNCHANGED <<tmp, inside>>
    /\ UNCHANGED <<pc, text, vlst, stray, edit, out, numberVars>>

----------------------------------------------------------------------------
(* process_query and serialize_value on the parsed list                    *)
Named(v) == v.has /\ v.attr = <<"n">>
Matches  == {i \in DOMAIN vlst : Named(vlst[i])}

(* The nonce is overwritten by as many characters as get_value_from_kvp_   *)
(* by_name counted, the last one an =; a named algorithm by a literal.     *)
Filled(k) == [i \in 1..k |-> IF i = k THEN "=" ELSE "F"]
Literal   == <<"L", "L">>

(* Mutant of ChangeValue: the first val_t, whatever its name. *)
ChangeValue_First(list, new) ==
    [i \in DOMAIN list |-> IF i = 1 THEN [list[i] EXCEPT !.val = new] ELSE list[i]]

(* change_value_from_kvp_by_name: every val_t of the name. *)
ChangeValue(list, new) ==
    [i \in DOMAIN list |-> IF Named(list[i]) THEN [list[i] EXCEPT !.val = new] ELSE list[i]]

(* The block of process_query for one attribute: what the query asks for,  *)
(* if anything, and the serialisation that follows.                        *)
Written(list) == pc' = "done" /\ out' = SerializeValue(list)
Crash         == pc' = "crashed" /\ UNCHANGED out

Fill ==
    \/ /\ Matches # {}        \* the length is zero: change_value_... asserts it is not
       /\ LET vlen == Len(vlst[Min(Matches)].val)
          IN  IF vlen = 0 THEN Crash ELSE Written(ChangeValue(vlst, Filled(vlen)))
    \/ /\ Matches = {}        \* vlen was never set: some length, or one that cannot be had
       /\ Written(vlst) \/ Crash

(* Mutant of Drop: prev is followed also when the attribute comes first. *)
Drop_First ==
    IF Matches = {} \/ Min(Matches) = 1 THEN Crash ELSE Written(RemoveAt(vlst, Min(Matches)))

(* del_value_from_kvp_by_name follows the pointer its search ended with. *)
Drop == IF Matches = {} THEN Crash ELSE Written(RemoveAt(vlst, Min(Matches)))

ProcessQuery ==
    /\ pc = "parse" /\ pos = Len(text) + 2
    /\ \/ edit' = "none" /\ Written(vlst)
       \/ edit' = "literal" /\ Written(ChangeValue(vlst, Literal))
       \/ edit' = "fill" /\ Fill
       \/ edit' = "drop" /\ Drop
    /\ UNCHANGED <<text, pos, tmp, inside, vlst, stray, numberVars>>

----------------------------------------------------------------------------
(* Numbers.  int_to_char counts the digits that are not zero and writes    *)
(* that many of the lowest ones; char_to_int adds ch - 48 in every base.   *)
Places == 0..6      \* enough for the numbers below 10^7
Digit(n, b, i) == (n \div b^i) % b
Code(d) == IF d <= 9 THEN d + 48 ELSE d + 87

(* Mutant of IntToChar: the digits stand in the order of the divisions. *)
IntToChar_LowFirst(n, b) ==
    LET ret == Cardinality({i \in Places : n \div b^i > 0 /\ Digit(n, b, i) > 0})
    IN  [j \in 1..ret |-> Code(Digit(n, b, j - 1))]

IntToChar(n, b) ==
    LET ret == Cardinality({i \in Places : n \div b^i > 0 /\ Digit(n, b, i) > 0})
    IN  [j \in 1..ret |-> Code(Digit(n, b, ret - j))]

(* Mutant of CharToInt: the blank that ends a number is read as a digit. *)
CharToInt_Blank(str, b) == FoldLeft(LAMBDA ret, ch : ret * b + (ch - 48), 0, str)

CharToInt(str, b) ==
    LET stop == Min({i \in DOMAIN str : str[i] = 32} \cup {Len(str) + 1})
    IN  FoldLeft(LAMBDA ret, ch : ret * b + (ch - 48), 0, SubSeq(str, 1, stop - 1))

(* The numeral a testcase writes for n, and the digits it consists of. *)
Significant(n, b) == {i \in Places : i = 0 \/ n >= b^i}
Numeral(n, b) ==
    LET k == Cardinality(Significant(n, b)) IN [j \in 1..k |-> Code(Digit(n, b, k - j))]

(* The sender thread writes a number into a report. *)
Report ==
    /\ pc = "report"
    /\ pc' = "reported"
    /\ out' = IntToChar(number, 10)
    /\ UNCHANGED <<headerVars, numberVars>>

(* A payload edit reads the number of a query into a field of 8 bits. *)
ReadNumber ==
    /\ pc = "query"
    /\ pc' = "read"
    /\ \E tail \in {<<>>, <<32>>} : value' = CharToInt(Numeral(number, base) \o tail, base) % 256
    /\ UNCHANGED <<headerVars, out, number, base>>

----------------------------------------------------------------------------
NoHeader == /\ text = <<>> /\ pos = 1 /\ tmp = <<>> /\ inside = FALSE
            /\ vlst = <<>> /\ stray = FALSE /\ edit = "none" /\ out = <<>>

Init ==
    \/ /\ pc = "parse" /\ text \in Values /\ edit = "none"
       /\ pos = 1 /\ tmp = <<>> /\ inside = FALSE /\ vlst = <<>> /\ stray = FALSE
       /\ out = <<>> /\ number = 0 /\ base = 10 /\ value = 0
    \/ /\ pc = "report" /\ NoHeader /\ number \in 0..MaxNumber /\ base = 10 /\ value = 0
    \/ /\ pc = "query" /\ NoHeader /\ number \in 0..255 /\ base \in {10, 16} /\ value = 0

Next == \/ Semicolon \/ End \/ Space \/ Comma \/ Keep \/ ProcessQuery
        \/ Report \/ ReadNumber

Spec == Init /\ [][Next]_vars

----------------------------------------------------------------------------
(* Reference: the header value read as a whole, by positions.              *)

(* Position i stands within <...> or within quotes: the last bracket       *)
(* before it, and the number of quotes since.                              *)
Covered(i) ==
    LET bracket == Max({j \in 1..(i - 1) : text[j] \in {"<", ">"}} \cup {0})
        quotes  == Cardinality({j \in (bracket + 1)..(i - 1) : text[j] = "q"})
        opened  == bracket > 0 /\ text[bracket] = "<"
    IN  opened = (quotes % 2 = 0)

Cuts == {i \in DOMAIN text : text[i] \in {";", ",", " "} /\ ~Covered(i)}

(* The pieces between two cuts: from the position behind one to the next.  *)
Pieces ==
    {<<a, b>> \in (1..(Len(text) + 1)) \X (1..(Len(text) + 1)) :
        /\ a = 1 \/ (a - 1) \in Cuts
        /\ b = Len(text) + 1 \/ b \in Cuts
        /\ a <= b /\ \A i \in Cuts : i < a \/ i >= b}

Assigns(p) == {i \in p[1]..(p[2] - 1) :
                  text[i] = "=" /\ Cardinality({j \in p[1]..(i - 1) : text[j] = "q"}) % 2 = 0}

(* A text that is closed and whose pieces are closed and assign at most    *)
(* once each.                                                              *)
Regular ==
    /\ ~Covered(Len(text) + 1)
    /\ \A p \in Pieces :
          /\ Cardinality({j \in p[1]..(p[2] - 1) : text[j] = "q"}) % 2 = 0
          /\ Cardinality(Assigns(p)) <= 1

(* The pieces that assign to n, and what follows the piece up to the next. *)
NamedPieces == {p \in Pieces : (p[1] + 1) \in Assigns(p) /\ text[p[1]] = "n"}
First       == CHOOSE p \in NamedPieces : \A r \in NamedPieces : p[1] <= r[1]
Behind(p)   == IF p[2] < Len(text) /\ text[p[2]] = "," /\ text[p[2] + 1] = " "
               THEN p[2] + 2 ELSE p[2] + 1

----------------------------------------------------------------------------
(* serialize_value(init_vlst(v)) gives the header value v back exactly     *)
(* when v is regular and no byte behind it was taken for a separator: a    *)
(* message no query edits is sent as it was received only then.            *)
UneditedUnchanged ==
    (pc = "done" /\ edit = "none") => ((out = text) <=> (Regular /\ ~stray))

(* In a regular value that names the attribute once, process_query's edit  *)
(* touches that attribute and nothing else: an update replaces the text    *)
(* behind its =, a drop takes the piece with the separator behind it.      *)
EditStaysInPlace ==
    (pc = "done" /\ Regular /\ ~stray /\ Cardinality(NamedPieces) = 1) =>
        LET head == SubSeq(text, 1, First[1] + 1)
            old  == First[2] - First[1] - 2
            rest == SubSeq(text, First[2], Len(text))
        IN  CASE edit = "fill"    -> out = head \o Filled(old) \o rest
              [] edit = "literal" -> out = head \o Literal \o rest
              [] edit = "drop"    -> out = SubSeq(text, 1, First[1] - 1)
                                            \o SubSeq(text, Behind(First), Len(text))
              [] OTHER            -> out = text

(* An edit of an attribute the header has never takes the server down,     *)
(* wherever in the value it stands and however often; only an empty value  *)
(* cannot be filled.                                                       *)
PresentEditsSurvive ==
    (pc = "crashed" /\ Regular) =>
        \/ NamedPieces = {}
        \/ edit = "fill" /\ First[2] = First[1] + 2

(* int_to_char reports a number without a digit zero as its decimal        *)
(* numeral.  (A digit zero is not counted, so a number that has one loses  *)
(* its highest digits.)                                                    *)
NonzeroReported ==
    (pc = "reported" /\ \A i \in Significant(number, 10) : Digit(number, 10, i) # 0) =>
        out = Numeral(number, 10)

(* char_to_int reads a decimal numeral as its number, and a hexadecimal    *)
(* one exactly when it has no letter.                                      *)
ReadExactWithoutLetters ==
    pc = "read" =>
        ((value = number) <=> \A i \in Significant(number, base) : Digit(number, base, i) <= 9)
=============================================================================
