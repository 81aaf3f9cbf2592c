------------------------------- MODULE Helpers -------------------------------
(***************************************************************************)
(* The helpers that check, pad and format values (library/ccchecksum.c,    *)
(* ccrtns.c, utils/strutils.c, fmtamt.c, datmutils.c, fmtdate.c).  One     *)
(* step is one call; the property compares its result with what the        *)
(* function is for.  A string is a sequence of characters, the space, the  *)
(* at sign and the end of a line written out.                              *)
(***************************************************************************)
EXTENDS Integers, Sequences, SequencesExt

CONSTANTS SZ_CC_NO_MIN_LEN, SZ_CC_NO_MAX_LEN, CardDigits, \* card numbers that are checked
          MaxAmount, MaxPlaces,                           \* amounts that are formatted
          MaxField                                        \* size of the buffers

ASSUME HelpersAssumption ==
    /\ SZ_CC_NO_MIN_LEN \in Nat \ {0} /\ SZ_CC_NO_MAX_LEN \in Nat /\ CardDigits \subseteq 0..9
    /\ MaxAmount \in Nat /\ MaxPlaces \in Nat /\ MaxField \in Nat \ {0}

VARIABLES helper, helperIn, helperOut       \* the call, its arguments and its result
helperVars == <<helper, helperIn, helperOut>>

Strings(chars, n) == UNION {[1..k -> chars] : k \in 0..n}
Undefined == <<"undefined">>                \* a null pointer, or outside of an array

\* IsValidStrLenMinMax; the caller passes lengths above 0.
IsValidStrLenMinMax(str, minLen, maxLen) == Len(str) >= minLen /\ Len(str) <= maxLen

\* A digit that is doubled counts 9 less when it has two digits then.
Doubled(digit) == IF 2 * digit > 9 THEN 2 * digit - 9 ELSE 2 * digit

\* Mutant: the digits are doubled from the front.
CheckSumFromFront(ccNo) ==
    LET sum[n \in 0..Len(ccNo)] ==
            IF n = 0 THEN 0 ELSE sum[n - 1] + IF n % 2 = 1 THEN Doubled(ccNo[n]) ELSE ccNo[n]
    IN  sum[Len(ccNo)] % 10 = 0

\* The sum goes from the last digit to the first; every second one is doubled.
FromEnd(ccNo, n) == ccNo[Len(ccNo) + 1 - n]
ValueFromEnd(ccNo, n) == IF n % 2 = 0 THEN Doubled(FromEnd(ccNo, n)) ELSE FromEnd(ccNo, n)
CardSum(ccNo) ==
    LET sum[n \in 0..Len(ccNo)] == IF n = 0 THEN 0 ELSE sum[n - 1] + ValueFromEnd(ccNo, n)
    IN  sum[Len(ccNo)]
IsValidCreditCardCheckSum(ccNo) == CardSum(ccNo) % 10 = 0
IsValidCreditCardNo(ccNo) ==
    IsValidStrLenMinMax(ccNo, SZ_CC_NO_MIN_LEN, SZ_CC_NO_MAX_LEN) /\ IsValidCreditCardCheckSum(ccNo)

\* BufLen counts from the end of the buffer; BufToStr stops at a null character.
BufLen(buf) == LET last == SelectLastInSeq(buf, LAMBDA c : c # "space") IN last
BufToStr(buf) ==
    LET null == SelectInSeq(buf, LAMBDA c : c = "null")
    IN  SubSeq(buf, 1, IF null > 0 /\ null <= BufLen(buf) THEN null - 1 ELSE BufLen(buf))
\* StrToBuf pads with spaces; a string that does not fit ends the program.
StrToBuf(str, bufLen) ==
    IF Len(str) > bufLen THEN Undefined
    ELSE str \o [i \in 1..(bufLen - Len(str)) |-> "space"]

\* What is before the @ but its first character becomes stars; of a document
\* number, all but the last two characters.  The length of what is hidden wraps
\* around when there is no @, or when the number has fewer than two characters.
EmailAddressUserHide(str) ==
    LET at == SelectInSeq(str, LAMBDA c : c = "at") IN
    IF at <= 1 THEN Undefined
    ELSE [i \in DOMAIN str |-> IF i > 1 /\ i < at THEN "*" ELSE str[i]]
PmtDocNoHide(str) ==
    IF Len(str) < 2 THEN Undefined
    ELSE [i \in DOMAIN str |-> IF i <= Len(str) - 2 THEN "*" ELSE str[i]]
StrRmTrailNewLine(str) ==
    IF str = <<>> THEN Undefined
    ELSE IF Last(str) = "newline" THEN Front(str) ELSE str

\* The digits of a number, as "%lld" prints them.
Digit == <<"0", "1", "2", "3", "4", "5", "6", "7", "8", "9">>
Digits(number) ==
    LET digits[n \in 0..number] ==
            IF n < 10 THEN <<Digit[n + 1]>> ELSE Append(digits[n \div 10], Digit[(n % 10) + 1])
    IN  digits[number]

\* Leading zeros up to one digit in front of the decimal point.
FmtAmt(amt, places) ==
    LET abs == IF amt < 0 THEN -amt ELSE amt
        digits == [i \in 1..(places + 1 - Len(Digits(abs))) |-> "0"] \o Digits(abs)
        sign == IF amt < 0 THEN <<"-">> ELSE <<>>
        point == Len(digits) - places
    IN  IF places = 0 THEN sign \o Digits(abs)
        ELSE sign \o SubSeq(digits, 1, point) \o <<".">> \o SubSeq(digits, point + 1, Len(digits))

\* A date and time are six numbers, each followed by its separator; DatmHmsParse
\* looks for the next separator and takes it that it is there.
MonthNames == <<"Jan", "Feb", "Mar", "Apr", "May", "Jun", "Jul", "Aug", "Sep", "Oct", "Nov", "Dec">>
DatmHmsParse(fields) == IF Len(fields) = 6 THEN fields ELSE Undefined
FmtDateDDMonYYYY(fields) ==
    LET datm == DatmHmsParse(fields) IN
    IF datm = Undefined \/ datm[2] \notin 1..12 THEN Undefined
    ELSE Digits(datm[3]) \o <<MonthNames[datm[2]]>> \o Digits(datm[1])
-----------------------------------------------------------------------------
HelpersInit == helper = "none" /\ helperIn = [none |-> ""] /\ helperOut = [none |-> ""]

Call(name, arg, result) ==
    helper = "none" /\ helper' = name /\ helperIn' = arg /\ helperOut' = result
CheckCard ==
    \E ccNo \in Strings(CardDigits, SZ_CC_NO_MAX_LEN + 1) :
        Call("IsValidCreditCardNo", [ccNo |-> ccNo], [valid |-> IsValidCreditCardNo(ccNo)])
PadField ==
    \E str \in Strings({"a", "space"}, MaxField + 1) :
        Call("StrToBuf", [str |-> str], [buf |-> StrToBuf(str, MaxField)])
HideEmail ==
    \E str \in Strings({"a", "at"}, MaxField + 1) :
        Call("EmailAddressUserHide", [str |-> str], [hidden |-> EmailAddressUserHide(str)])
HideDocNo ==
    \E str \in Strings({"1"}, MaxField) : Call("PmtDocNoHide", [str |-> str], [hidden |-> PmtDocNoHide(str)])
FormatAmount ==
    \E amt \in -MaxAmount..MaxAmount, places \in 0..MaxPlaces :
        Call("FmtAmt", [amt |-> amt, places |-> places], [str |-> FmtAmt(amt, places)])
FormatDate ==
    \E month \in 0..13, n \in {3, 6} :
        LET fields == SubSeq(<<2024, month, 7, 12, 30, 0>>, 1, n) IN
        Call("FmtDateDDMonYYYY", [datm |-> fields], [date |-> FmtDateDDMonYYYY(fields)])
RemoveNewLine ==
    \E str \in Strings({"a", "newline"}, 2) : Call("StrRmTrailNewLine", [str |-> str], [line |-> StrRmTrailNewLine(str)])

HelpersNext == \/ CheckCard \/ PadField \/ HideEmail \/ HideDocNo \/ FormatAmount \/ FormatDate
               \/ RemoveNewLine
HelpersSpec == HelpersInit /\ [][HelpersNext]_helperVars
-----------------------------------------------------------------------------
\* A card number that is valid is not valid with one digit mistyped, nor with two
\* neighbours swapped, 0 and 9 excepted; a leading zero does not change its check sum.
CardSafe ==
    helper = "IsValidCreditCardNo" /\ helperOut.valid =>
        LET ccNo == helperIn.ccNo IN
        /\ IsValidCreditCardCheckSum(<<0>> \o ccNo)
        /\ \A i \in DOMAIN ccNo : \A d \in CardDigits \ {ccNo[i]} :
              ~IsValidCreditCardNo([ccNo EXCEPT ![i] = d])
        /\ \A i \in 1..(Len(ccNo) - 1) :
              {ccNo[i], ccNo[i + 1]} # {0, 9} /\ ccNo[i] # ccNo[i + 1]
              => ~IsValidCreditCardNo([ccNo EXCEPT ![i] = ccNo[i + 1], ![i + 1] = ccNo[i]])

\* A field that was padded reads back as the string, unless that ends in spaces; an
\* address keeps its length and its domain, and shows no more of the user than one
\* character, a document number no more than two.
FieldsSafe ==
    /\ helper = "StrToBuf" /\ helperOut.buf # Undefined =>
          LET str == helperIn.str  back == BufToStr(helperOut.buf) IN
          /\ Len(helperOut.buf) = MaxField /\ IsPrefix(back, str)
          /\ str = <<>> \/ Last(str) # "space" => back = str
    /\ helper \in {"EmailAddressUserHide", "PmtDocNoHide"} /\ helperOut.hidden # Undefined =>
          LET str == helperIn.str  hidden == helperOut.hidden
              shown == {i \in DOMAIN str : hidden[i] = str[i]}
              domain == {i \in DOMAIN str : \E j \in 1..i : str[j] = "at"} IN
          /\ Len(hidden) = Len(str)
          /\ shown = IF helper = "PmtDocNoHide" THEN {Len(str) - 1, Len(str)} ELSE {1} \cup domain

\* An amount reads back from its digits, has its sign, and a digit on both sides of
\* its decimal point.
ValueOf(char) == CHOOSE v \in 0..9 : Digit[v + 1] = char
NumberOf(chars) ==
    LET read[n \in 0..Len(chars)] ==
            IF n = 0 THEN 0
            ELSE IF chars[n] \in ToSet(Digit) THEN 10 * read[n - 1] + ValueOf(chars[n]) ELSE read[n - 1]
    IN  read[Len(chars)]
AmountsRead ==
    helper = "FmtAmt" =>
        LET amt == helperIn.amt  places == helperIn.places  str == helperOut.str IN
        /\ NumberOf(str) = IF amt < 0 THEN -amt ELSE amt
        /\ (str[1] = "-") = (amt < 0)
        /\ places > 0 => /\ str[Len(str) - places] = "."
                         /\ {str[Len(str)], str[Len(str) - places - 1]} \subseteq ToSet(Digit)

\* The three for every call (ccchecksum.c, strutils.c, fmtamt.c).
HelpersAgree == CardSafe /\ FieldsSafe /\ AmountsRead
=============================================================================
