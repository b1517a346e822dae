------------------------------ MODULE PriceText ------------------------------
(***************************************************************************)
(* The readings of a text as a price (scrapers/playwright_base.py,         *)
(* scrapers/generic.py, scrapers/ebay.py) and the gate a generated         *)
(* selector has to pass (services/selector_generation.py).                 *)
(*                                                                         *)
(* A text is the number of digits in each of the groups its commas, dots   *)
(* and dashes cut it into, whether any words or symbols are around, and    *)
(* whether all the digits are zeros: "USD 1,234.56" is the groups          *)
(* <<1, 3, 2>>, the marks <<",", ".">> and words.  A reading takes all the *)
(* digits and says how many of them are decimals, and the sign.            *)
(***************************************************************************)
EXTENDS Integers, Sequences

Text(groups, marks, words, zero) ==
  [groups |-> groups, marks |-> marks, words |-> words, zero |-> zero]

Texts ==
  {t \in [groups: Seq(Nat), marks: Seq({",", ".", "-"}), words: BOOLEAN,
          zero: BOOLEAN] : Len(t.groups) = Len(t.marks) + 1}

Sum(s) ==
  LET upTo[i \in 0..Len(s)] == IF i = 0 THEN 0 ELSE upTo[i - 1] + s[i]
  IN  upTo[Len(s)]

Digits(t)    == Sum(t.groups)
Before(t, i) == Sum(SubSeq(t.groups, 1, i))
After(t, i)  == Sum(SubSeq(t.groups, i + 1, Len(t.groups)))

At(t, mark) == {i \in 1..Len(t.marks) : t.marks[i] = mark}
Final(S)    == CHOOSE i \in S : \A j \in S : j <= i
Several(S)  == \E i, j \in S : i # j

(* The first of a sequence of texts that passes a test, if any does.       *)
First(texts, Test(_)) ==
  {texts[i] : i \in {j \in DOMAIN texts :
     Test(texts[j]) /\ \A k \in 1..j - 1 : ~Test(texts[k])}}

Blank(t) == Digits(t) = 0 /\ t.marks = <<>> /\ ~t.words

(* A reading; what Decimal() rejects is no price.                          *)
Reading(decimals, negative) == [decimals |-> decimals, negative |-> negative]
NoPrice == Reading(-1, FALSE)
-----------------------------------------------------------------------------
(* Decimal() of the digits of t, with the marks in "points" written as     *)
(* decimal points, those in "signs" as minus signs and the others left out. *)
Decimal(t, points, signs) ==
  IF \/ Digits(t) = 0
     \/ Several(points) \/ Several(signs)
     \/ \E s \in signs : Before(t, s) > 0 \/ \E p \in points : p < s
    THEN NoPrice
    ELSE Reading(IF points = {} THEN 0 ELSE After(t, Final(points)), signs # {})

(* _normalize_price_text: the separator that appears last is the decimal   *)
(* point; a lone kind of separator is one if two digits come after the     *)
(* comma, or if there is but one dot.                                      *)
Normalize(t) ==
  LET commas == At(t, ",")
      dots   == At(t, ".")
      commaLast == \E c \in commas : \A d \in dots : d < c
  IN  IF commas # {} /\ dots # {}
        THEN Decimal(t, IF commaLast THEN commas ELSE dots, {})
      ELSE IF commas # {}
        THEN Decimal(t, IF After(t, Final(commas)) = 2 THEN {Final(commas)} ELSE {}, {})
        ELSE Decimal(t, IF Several(dots) THEN {} ELSE dots, {})

(* GenericScraper: digits, dots and dashes are kept.                       *)
Strip(t) == Decimal(t, At(t, "."), At(t, "-"))

(* eBay's DOM fallback: commas are dropped.                                *)
DropCommas(t) == Decimal(t, At(t, "."), {})

(* Decimal(str(price)) of structured data: nothing is dropped.             *)
Verbatim(t) ==
  IF t.words \/ At(t, ",") # {} THEN NoPrice
                                ELSE Decimal(t, At(t, "."), At(t, "-"))
-----------------------------------------------------------------------------
(* _MIN_PLAUSIBLE_PRICE, _MAX_PLAUSIBLE_PRICE: neither a "0" nor more than *)
(* six digits before the point.                                            *)
Plausible(t) ==
  /\ Normalize(t) # NoPrice
  /\ ~t.zero /\ Digits(t) - Normalize(t).decimals <= 6

(* validate_selector: the first of all the matches that reads as a         *)
(* plausible price; none, and the selector is rejected.                    *)
ValidateSelector(matches) == First(matches, Plausible)
=============================================================================
