------------------------ MODULE PriceExtractionProofs ------------------------
(***************************************************************************)
(* What PriceExtraction promises of the pages and selectors a run cannot   *)
(* enumerate.  Which text is taken and how it is read does not depend on   *)
(* the digits, so no proof looks into Digits, Before or After.             *)
(***************************************************************************)
EXTENDS PriceExtraction, PageFetchProofs, WellFoundedInduction

-----------------------------------------------------------------------------
LEMMA MarksAreIntegers == ASSUME NEW t, NEW mark PROVE At(t, mark) \subseteq Int
<1>1. 1..Len(t.marks) \subseteq Int
  OBVIOUS
<1> QED BY <1>1 DEF At

LEMMA NoCommaLast ==
  ASSUME NEW commas, NEW dots, commas \subseteq Int, dots \subseteq Int,
         dots # {}, \A c \in commas : \A d \in dots : c < d
  PROVE  ~\E c \in commas : \A d \in dots : d < c
<1> SUFFICES ASSUME NEW c \in commas, \A d \in dots : d < c PROVE FALSE
  OBVIOUS
<1>1. PICK d \in dots : TRUE
  OBVIOUS
<1>2. c \in Int /\ d \in Int /\ c < d /\ d < c
  BY <1>1
<1> QED BY <1>2

(* A text in English notation is read alike by the gate, which knows both  *)
(* notations, and by GenericScraper, which strips the commas.              *)
THEOREM EnglishAgrees == \A t : English(t) => Strip(t) = Normalize(t)
<1> SUFFICES ASSUME NEW t, English(t) PROVE Strip(t) = Normalize(t)
  OBVIOUS
<1>1. At(t, "-") = {} /\ ~Several(At(t, "."))
  BY DEF English
<1>2. Strip(t) = Decimal(t, At(t, "."), {})
  BY <1>1 DEF Strip
<1>3. CASE At(t, ",") # {} /\ At(t, ".") # {}
  <2>1. ~\E c \in At(t, ",") : \A d \in At(t, ".") : d < c
    BY <1>3, MarksAreIntegers, NoCommaLast DEF English
  <2> QED BY <1>2, <1>3, <2>1 DEF Normalize
<1>4. CASE At(t, ",") # {} /\ At(t, ".") = {}
  BY <1>2, <1>4 DEF English, Normalize
<1>5. CASE At(t, ",") = {}
  BY <1>1, <1>2, <1>5 DEF Normalize
<1> QED BY <1>3, <1>4, <1>5

(* Decimal() of no digits is no price.                                     *)
LEMMA NormalizeNeedsDigit ==
  ASSUME NEW t, Normalize(t) # NoPrice PROVE Digits(t) # 0
BY DEF Normalize, Decimal

-----------------------------------------------------------------------------
(* What a scraper makes of a page is among what PageFetch lets it.         *)
LEMMA ExtractedIsAllowed ==
  ASSUME NEW s \in Strategies, NEW p
  PROVE  \/ Extracted(s, p).status \in Outcomes(s)
         \/ Extracted(s, p).status = "raised" /\ s # "ebay"
<1>1. \A t, r : Priced(t, r).status \in {"ok", "extraction_failed"}
  BY DEF Priced, Failed
<1>2. CASE s = "generic"
  BY <1>1, <1>2 DEF Extracted, Generic, Raised, Miss, Outcomes
<1>3. CASE s = "amazon"
  BY <1>1, <1>3 DEF Extracted, Amazon, PricedByDom, Raised, Miss, Outcomes
<1>4. CASE s = "spa"
  BY <1>1, <1>4 DEF Extracted, Spa, PricedByDom, Failed, Outcomes
<1>5. CASE s = "ebay"
  BY <1>1, <1>5 DEF Extracted, Ebay, Failed, Outcomes
<1> QED BY <1>2, <1>3, <1>4, <1>5 DEF Strategies, HttpStrategies

(* Every step of the detailed call is a step of PageFetch.                 *)
LEMMA FetchRefined ==
  TypeOK /\ [ExtractionNext]_extractionVars => [Next]_vars
<1> SUFFICES ASSUME TypeOK, [ExtractionNext]_extractionVars PROVE [Next]_vars
  OBVIOUS
<1>1. CASE Fetch
  BY <1>1 DEF Fetch, Next
<1>2. CASE BrowserBreaks
  <2>1. Extract
    BY <1>2 DEF BrowserBreaks, Extract, Http, HttpStrategies
  <2> QED BY <2>1 DEF Next
<1>3. CASE ExtractPage
  <2>1. PICK p \in Served : Finish(Extracted(strategy, p).status)
    BY <1>3 DEF ExtractPage
  <2>2. strategy \in Strategies
    BY DEF TypeOK
  <2>3. \/ \E r \in Outcomes(strategy) : Finish(r)
        \/ strategy # "ebay" /\ Finish("raised")
    BY <2>1, <2>2, ExtractedIsAllowed
  <2>4. Extract
    BY <1>3, <2>3 DEF ExtractPage, Extract
  <2> QED BY <2>4 DEF Next
<1>4. CASE UNCHANGED extractionVars
  BY <1>4 DEF extractionVars
<1> QED BY <1>1, <1>2, <1>3, <1>4 DEF ExtractionNext

(* The detailed call implements PageFetch, for all pages and selectors.    *)
THEOREM Implements == ExtractionSpec => ImplementsFetch
<1>1. ExtractionInit => Init /\ TypeInv
  BY TypeInit DEF ExtractionInit
<1>2. TypeInv /\ [ExtractionNext]_extractionVars => [Next]_vars /\ TypeInv'
  BY FetchRefined, TypeStep DEF TypeInv
<1> QED
  BY <1>1, <1>2, PTL DEF ExtractionSpec, ImplementsFetch, Spec

-----------------------------------------------------------------------------
(* The result and the price of a call are those of its page, and a miss is *)
(* the page's.                                                             *)
Reads ==
  /\ page \in PageType
  /\ pc # "done" => page = NoPage /\ result = "none"
  /\ page # NoPage => /\ result = Extracted(strategy, page).status
                      /\ price = Extracted(strategy, page).price
  /\ result = "selector_miss" => Extracted(strategy, page).status = "selector_miss"

LEMMA NoPageTyped == NoPage \in PageType
<1>1. <<>> \in Seq(Texts)
  OBVIOUS
<1> QED BY <1>1 DEF NoPage, Page, NoSelector, Selector, PageType, Selectors

(* No step before the extraction ends in a miss.                           *)
LEMMA FetchMissesNothing ==
  ASSUME TypeInv, Fetch
  PROVE  /\ pc # "done" /\ strategy' = strategy
         /\ UNCHANGED pageVars
         /\ pc' # "done" => result' = result
         /\ pc' = "done" => result' # "selector_miss"
<1> USE ConfigTyped
<1> DEFINE Ends == /\ pc' # "done" => result' = result
                   /\ pc' = "done" => result' # "selector_miss"
<1>0. UNCHANGED pageVars
  BY DEF Fetch
<1>1. CASE Start
  BY <1>0, <1>1 DEF Start, Finish, config
<1>2. CASE HttpUnreachable
  <2>1. pc = "request" /\ strategy' = strategy
    BY <1>2 DEF HttpUnreachable, Asked, config
  <2>2. CASE proxies > 0
    BY <1>0, <1>2, <2>1, <2>2, RotateOnDeadTyped DEF HttpUnreachable
  <2>3. CASE ~(proxies > 0)
    <3>1. lastBlock \in Blocks \cup {"none"} /\ BackOff(lastBlock)
      BY <1>2, <2>3 DEF HttpUnreachable, TypeInv, TypeOK
    <3> QED BY <1>0, <2>1, <3>1, BackOffTyped DEF Blocks
  <2> QED BY <2>2, <2>3
<1>3. CASE BrowserFails
  BY <1>0, <1>3 DEF BrowserFails, Asked, Finish, config
<1>4. ASSUME NEW a \in Answers, HttpBlocked(a) PROVE Ends /\ pc # "done" /\ strategy' = strategy
  <2>1. pc = "request" /\ strategy' = strategy /\ ClassifyBlock(a) \in Blocks
    BY <1>4, Classified DEF HttpBlocked, Asked, config
  <2>2. CASE proxies > 0
    BY <1>4, <2>1, <2>2, RotateOnBlockTyped DEF HttpBlocked, Blocks
  <2>3. CASE ~(proxies > 0)
    <3>1. \/ Finish(ClassifyBlock(a))
          \/ BackOff(ClassifyBlock(a))
          \/ Finish("raised")
      BY <1>4, <2>3 DEF HttpBlocked
    <3> QED BY <2>1, <3>1, BackOffTyped DEF Finish, Blocks
  <2> QED BY <2>2, <2>3
<1>5. ASSUME NEW a \in Answers, HttpFinal(a) PROVE Ends /\ pc # "done" /\ strategy' = strategy
  BY <1>5 DEF HttpFinal, Asked, Finish, config
<1>6. ASSUME NEW a \in Answers, HttpRetry(a) PROVE Ends /\ pc # "done" /\ strategy' = strategy
  <2>1. /\ pc = "request" /\ strategy' = strategy
        /\ lastBlock \in Blocks \cup {"none"} /\ BackOff(lastBlock)
    BY <1>6 DEF HttpRetry, Asked, config, TypeInv, TypeOK
  <2> QED BY <2>1, BackOffTyped DEF Blocks
<1>7. ASSUME NEW a \in Answers, BrowserBlocked(a) PROVE Ends /\ pc # "done" /\ strategy' = strategy
  <2>1. pc = "request" /\ strategy' = strategy /\ ClassifyBlock(a) \in Blocks
    BY <1>7, Classified DEF BrowserBlocked, Asked, config
  <2>2. CASE proxies > 0
    BY <1>7, <2>1, <2>2, RotateOnBlockTyped DEF BrowserBlocked, Blocks
  <2>3. CASE ~(proxies > 0)
    BY <1>7, <2>1, <2>3 DEF BrowserBlocked, Finish, Blocks
  <2> QED BY <2>2, <2>3
<1>8. ASSUME NEW a \in Answers, BrowserLoads(a) PROVE Ends /\ pc # "done" /\ strategy' = strategy
  BY <1>8 DEF BrowserLoads, Asked, config
<1> QED BY <1>0, <1>1, <1>2, <1>3, <1>4, <1>5, <1>6, <1>7, <1>8 DEF Fetch

LEMMA ReadsStep ==
  TypeInv /\ Reads /\ [ExtractionNext]_extractionVars => Reads'
<1> SUFFICES ASSUME TypeInv, Reads, [ExtractionNext]_extractionVars
             PROVE  Reads'
  OBVIOUS
<1>1. CASE Fetch
  <2>1. /\ page = NoPage /\ page' = NoPage /\ result = "none"
        /\ pc' # "done" => result' = "none"
        /\ result' # "selector_miss"
    BY <1>1, FetchMissesNothing DEF Reads, pageVars
  <2> QED BY <2>1, NoPageTyped DEF Reads
<1>2. CASE BrowserBreaks
  <2>1. /\ page = NoPage /\ page' = NoPage /\ pc' = "done"
        /\ result' \in {"raised", "http_error"}
    BY <1>2 DEF BrowserBreaks, Finish, Reads
  <2> QED BY <2>1, NoPageTyped DEF Reads
<1>3. CASE ExtractPage
  <2>1. PICK p \in Served : /\ page' = p /\ price' = Extracted(strategy, p).price
                            /\ Finish(Extracted(strategy, p).status)
    BY <1>3 DEF ExtractPage
  <2>2. p \in PageType
    BY ExtractionAssumption DEF Served
  <2>3. strategy' = strategy
    BY <1>3 DEF ExtractPage, config
  <2> QED BY <2>1, <2>2, <2>3 DEF Reads, Finish
<1>4. CASE UNCHANGED extractionVars
  BY <1>4 DEF extractionVars, vars, pageVars, config, Reads
<1> QED BY <1>1, <1>2, <1>3, <1>4 DEF ExtractionNext

LEMMA ReadsInv == ExtractionSpec => [](TypeInv /\ Reads)
<1>1. ExtractionInit => TypeInv /\ Reads
  BY TypeInit, NoPageTyped DEF ExtractionInit, Init, Reads
<1>2. TypeInv /\ Reads /\ [ExtractionNext]_extractionVars => TypeInv' /\ Reads'
  BY FetchRefined, TypeStep, ReadsStep DEF TypeInv
<1> QED BY <1>1, <1>2, PTL DEF ExtractionSpec

-----------------------------------------------------------------------------
LEMMA LeastElement ==
  ASSUME NEW S, S \subseteq Nat, S # {}
  PROVE  \E i \in S : \A k \in S : i <= k
<1> DEFINE R == OpToRel(<, Nat)
<1>1. PICK i \in S : \A k \in S : <<k, i>> \notin R
  <2> HIDE DEF R
  <2> QED BY NatLessThanWellFounded, WFMin DEF R
<1>2. \A k \in S : ~(k < i)
  BY <1>1 DEF OpToRel
<1> QED BY <1>2

(* The text shown is the one at the first index with a digit.              *)
LEMMA ShownAt ==
  ASSUME NEW a \in Seq(Texts), NEW i \in 1..Len(a), HasDigit(a[i]),
         \A k \in 1..i - 1 : ~HasDigit(a[k])
  PROVE  a[i] \in Shown(a)
BY DEF Shown, First

LEMMA ShownIs ==
  ASSUME NEW a \in Seq(Texts), NEW t \in Shown(a)
  PROVE  \E i \in 1..Len(a) : /\ t = a[i] /\ HasDigit(a[i])
                              /\ \A k \in 1..i - 1 : ~HasDigit(a[k])
BY DEF Shown, First

(* If none is shown, no text has a digit.                                  *)
LEMMA NoneShown ==
  ASSUME NEW a \in Seq(Texts), Shown(a) = {}
  PROVE  \A i \in 1..Len(a) : ~HasDigit(a[i])
<1> DEFINE D == {i \in 1..Len(a) : HasDigit(a[i])}
<1> SUFFICES ASSUME D # {} PROVE FALSE
  OBVIOUS
<1>0. D \subseteq Nat
  OBVIOUS
<1>1. PICK i \in D : \A k \in D : i <= k
  <2> HIDE DEF D
  <2> QED BY <1>0, LeastElement
<1>2. \A k \in 1..i - 1 : ~HasDigit(a[k])
  BY <1>1
<1>3. a[i] \in Shown(a)
  BY <1>1, <1>2, ShownAt
<1> QED BY <1>3

(* At most one text is shown.                                              *)
LEMMA OneShown ==
  ASSUME NEW a \in Seq(Texts), NEW t \in Shown(a), NEW u \in Shown(a)
  PROVE  t = u
<1>1. PICK i \in 1..Len(a) : /\ t = a[i] /\ HasDigit(a[i])
                             /\ \A k \in 1..i - 1 : ~HasDigit(a[k])
  BY ShownIs
<1>2. PICK j \in 1..Len(a) : /\ u = a[j] /\ HasDigit(a[j])
                             /\ \A k \in 1..j - 1 : ~HasDigit(a[k])
  BY ShownIs
<1>3. ~(i < j) /\ ~(j < i)
  BY <1>1, <1>2
<1> QED BY <1>1, <1>2, <1>3

(* The texts of a selector are tried before those of the next.             *)
LEMMA ShownFirst ==
  ASSUME NEW a \in Seq(Texts), NEW b \in Seq(Texts)
  PROVE  /\ Shown(a) \subseteq Shown(a \o b)
         /\ Shown(a) = {} => Shown(a \o b) = Shown(b)
<1> DEFINE c == a \o b
<1>1. /\ c \in Seq(Texts) /\ Len(c) = Len(a) + Len(b)
      /\ \A i \in 1..Len(a) : c[i] = a[i]
      /\ \A i \in 1..Len(b) : c[Len(a) + i] = b[i]
  OBVIOUS
<1> HIDE DEF c
<1>2. ASSUME NEW t \in Shown(a) PROVE t \in Shown(c)
  <2>1. PICK i \in 1..Len(a) : /\ t = a[i] /\ HasDigit(a[i])
                               /\ \A k \in 1..i - 1 : ~HasDigit(a[k])
    BY ShownIs
  <2>2. i \in 1..Len(c) /\ t = c[i] /\ \A k \in 1..i - 1 : c[k] = a[k]
    BY <1>1, <2>1
  <2> QED BY <1>1, <2>1, <2>2, ShownAt
<1>3. ASSUME Shown(a) = {}, NEW t \in Shown(c) PROVE t \in Shown(b)
  <2>1. PICK i \in 1..Len(c) : /\ t = c[i] /\ HasDigit(c[i])
                               /\ \A k \in 1..i - 1 : ~HasDigit(c[k])
    BY <1>1, ShownIs
  <2>2. ~(i <= Len(a))
    <3> SUFFICES ASSUME i <= Len(a) PROVE FALSE
      OBVIOUS
    <3>1. i \in 1..Len(a) /\ HasDigit(a[i])
      BY <1>1, <2>1
    <3> QED BY <1>3, <3>1, NoneShown
  <2>3. PICK j \in 1..Len(b) : i = Len(a) + j
    <3>1. i - Len(a) \in 1..Len(b) /\ i = Len(a) + (i - Len(a))
      BY <1>1, <2>2
    <3> QED BY <3>1
  <2>4. ASSUME NEW k \in 1..j - 1 PROVE ~HasDigit(b[k])
    <3>1. b[k] = c[Len(a) + k] /\ Len(a) + k \in 1..i - 1
      BY <1>1, <2>3
    <3> QED BY <2>1, <3>1
  <2>5. t = b[j] /\ HasDigit(b[j])
    BY <1>1, <2>1, <2>3
  <2> QED BY <2>4, <2>5, ShownAt
<1>4. ASSUME Shown(a) = {}, NEW t \in Shown(b) PROVE t \in Shown(c)
  <2>1. PICK j \in 1..Len(b) : /\ t = b[j] /\ HasDigit(b[j])
                               /\ \A k \in 1..j - 1 : ~HasDigit(b[k])
    BY ShownIs
  <2> DEFINE i == Len(a) + j
  <2>2. c[i] = t /\ i \in 1..Len(c) /\ HasDigit(c[i])
    BY <1>1, <2>1
  <2>3. ASSUME NEW k \in 1..i - 1 PROVE ~HasDigit(c[k])
    <3>1. CASE k <= Len(a)
      <4>1. k \in 1..Len(a) /\ c[k] = a[k]
        BY <1>1, <3>1
      <4> QED BY <1>4, <4>1, NoneShown
    <3>2. CASE ~(k <= Len(a))
      <4>1. k - Len(a) \in 1..j - 1 /\ k = Len(a) + (k - Len(a))
        BY <3>2
      <4>2. c[k] = b[k - Len(a)]
        BY <1>1, <4>1
      <4> QED BY <2>1, <4>1, <4>2
    <3> QED BY <3>1, <3>2
  <2> HIDE DEF i
  <2>4. c[i] \in Shown(c)
    BY <1>1, <2>2, <2>3, ShownAt
  <2> QED BY <2>2, <2>4
<1> QED BY <1>2, <1>3, <1>4 DEF c

-----------------------------------------------------------------------------
LEMMA StoredTyped ==
  ASSUME NEW p \in PageType
  PROVE  /\ p.stored.texts \in Seq(Texts) /\ p.configured.texts \in Seq(Texts)
         /\ p.builtin \in Seq(Texts) /\ p.ld \in Seq(Texts)
BY DEF PageType, Selectors

(* What is stored is all that replacing it changes.                        *)
LEMMA StoredReplaced ==
  ASSUME NEW p \in PageType, NEW s
  PROVE  LET q == [p EXCEPT !.stored = s]
         IN  /\ q.stored = s /\ q.ld = p.ld /\ q.builtin = p.builtin
             /\ q.configured = p.configured
BY DEF PageType

(* Joining with nothing.                                                   *)
LEMMA JoinNothing ==
  ASSUME NEW a \in Seq(Texts)
  PROVE  a \o <<>> = a /\ <<>> \o a = a
OBVIOUS

LEMMA NothingSelected ==
  /\ NoSelector.dialect = "none" /\ NoSelector.texts = <<>>
  /\ ExtractText(NoSelector) = <<>>
BY DEF NoSelector, Selector, ExtractText

LEMMA TextTyped ==
  ASSUME NEW s \in Selectors PROVE ExtractText(s) \in Seq(Texts)
BY DEF ExtractText, Selectors

LEMMA OwnGeneric ==
  ASSUME NEW p \in PageType
  PROVE  LET own == Generic([p EXCEPT !.stored = NoSelector])
         IN  own.status = "ok" => Generic(p) = own
<1> DEFINE q == [p EXCEPT !.stored = NoSelector]
<1> SUFFICES ASSUME Generic(q).status = "ok" PROVE Generic(p) = Generic(q)
  OBVIOUS
<1>1. q.stored = NoSelector /\ q.configured = p.configured
  BY StoredReplaced
<1> HIDE DEF q
<1> DEFINE c == ExtractText(p.configured)
           s == ExtractText(p.stored)
<1>2. c \in Seq(Texts) /\ s \in Seq(Texts)
  BY TextTyped DEF PageType
<1>3. ExtractText(q.configured) \o ExtractText(q.stored) = c
  BY <1>1, <1>2, NothingSelected, JoinNothing
<1> HIDE DEF c, s
<1>4. p.configured.dialect # "invalid" /\ c # <<>>
  BY <1>1, <1>3 DEF Generic, Raised, Miss
<1>5. (c \o s)[1] = c[1] /\ c \o s # <<>>
  BY <1>2, <1>4
<1>6. Generic(q) = Priced(c[1], Strip(c[1]))
  BY <1>1, <1>3, <1>4 DEF Generic
<1>7. Generic(p) = Priced((c \o s)[1], Strip((c \o s)[1]))
  BY <1>4, <1>5 DEF Generic, c, s
<1> QED BY <1>5, <1>6, <1>7

LEMMA OwnAmazon ==
  ASSUME NEW p \in PageType,
         p.ld # <<>> \/ (p.stored.dialect # "pseudo" /\ Shown(p.stored.texts) = {})
  PROVE  Amazon(p) = Amazon([p EXCEPT !.stored = NoSelector])
<1> DEFINE q == [p EXCEPT !.stored = NoSelector]
<1>1. q.stored = NoSelector /\ q.ld = p.ld /\ q.builtin = p.builtin
  BY StoredReplaced
<1> HIDE DEF q
<1>2. CASE p.ld # <<>>
  BY <1>1, <1>2 DEF Amazon, q
<1>3. CASE p.ld = <<>>
  <2>1. Shown(p.stored.texts \o p.builtin) = Shown(p.builtin)
    BY <1>3, StoredTyped, ShownFirst
  <2>2. q.stored.texts \o q.builtin = p.builtin
    BY <1>1, NothingSelected, StoredTyped, JoinNothing
  <2>3. Amazon(p) = PricedByDom(Shown(p.builtin), Miss)
    BY <1>3, <2>1 DEF Amazon
  <2>4. Amazon(q) = PricedByDom(Shown(p.builtin), Miss)
    BY <1>1, <1>3, <2>2, NothingSelected DEF Amazon
  <2> QED BY <2>3, <2>4 DEF q
<1> QED BY <1>2, <1>3

(* For every page and every stored selector, a price the scraper's own     *)
(* sources have is served as they read it.                                 *)
THEOREM SafetyNet == ExtractionSpec => []OwnSourcesPrevail
<1>1. TypeInv /\ Reads => OwnSourcesPrevail
  <2> SUFFICES ASSUME TypeInv, Reads, page # NoPage,
                      Extracted(strategy, [page EXCEPT !.stored = NoSelector]).status = "ok",
                      ~ /\ strategy = "amazon" /\ page.ld = <<>>
                        /\ page.stored.dialect = "pseudo" \/ Shown(page.stored.texts) # {}
               PROVE  Extracted(strategy, page)
                        = Extracted(strategy, [page EXCEPT !.stored = NoSelector])
    BY DEF OwnSourcesPrevail, Reads
  <2> DEFINE q == [page EXCEPT !.stored = NoSelector]
  <2>1. page \in PageType /\ strategy \in Strategies
    BY DEF Reads, TypeInv, TypeOK
  <2>2. q.ld = page.ld /\ q.builtin = page.builtin
    BY <2>1, StoredReplaced
  <2>3. CASE strategy = "generic"
    BY <2>1, <2>3, OwnGeneric DEF Extracted
  <2>4. CASE strategy = "amazon"
    BY <2>1, <2>4, OwnAmazon DEF Extracted
  <2>5. CASE strategy = "spa"
    <3> HIDE DEF q
    <3>1. Spa(q) = Spa(page)
      BY <2>2 DEF Spa
    <3> QED BY <2>5, <3>1 DEF Extracted, q
  <2>6. CASE strategy = "ebay"
    <3> HIDE DEF q
    <3>1. Ebay(q) = Ebay(page)
      BY <2>2 DEF Ebay
    <3> QED BY <2>6, <3>1 DEF Extracted, q
  <2> QED BY <2>1, <2>3, <2>4, <2>5, <2>6 DEF Strategies, HttpStrategies
<1> QED BY <1>1, ReadsInv, PTL

-----------------------------------------------------------------------------
LEMMA PlausibleHasDigit ==
  ASSUME NEW t, Plausible(t) PROVE HasDigit(t) /\ ~Blank(t)
BY NormalizeNeedsDigit DEF Plausible, HasDigit, Blank

(* A match is what the gate saw if it is plausible and no earlier one is.  *)
LEMMA GateSees ==
  ASSUME NEW m \in Seq(Texts), NEW i \in 1..Len(m), Plausible(m[i]),
         \A k \in 1..i - 1 : ~Plausible(m[k])
  PROVE  ValidateSelector(m) = {m[i]}
<1>1. m[i] \in ValidateSelector(m)
  BY DEF ValidateSelector, First
<1>2. ASSUME NEW u \in ValidateSelector(m) PROVE u = m[i]
  <2>1. PICK j \in 1..Len(m) : /\ u = m[j] /\ Plausible(m[j])
                               /\ \A k \in 1..j - 1 : ~Plausible(m[k])
    BY <1>2 DEF ValidateSelector, First
  <2>2. ~(i < j) /\ ~(j < i)
    BY <2>1
  <2> QED BY <2>1, <2>2
<1> QED BY <1>1, <1>2

LEMMA PromotedTyped ==
  ASSUME NEW p \in PageType, NEW m
  PROVE  LET q == Promoted(p, m)
         IN  /\ q.stored.dialect = "css" /\ q.stored.texts = m
             /\ q.ld = p.ld /\ q.builtin = p.builtin
             /\ q.configured = p.configured
BY StoredReplaced DEF Promoted, Selector

LEMMA AmazonHeals ==
  ASSUME NEW p \in PageType, Amazon(p).status = "selector_miss",
         NEW m \in Seq(Texts), NEW t \in Shown(m), Plausible(t)
  PROVE  /\ ValidateSelector(m) = {t}
         /\ Amazon(Promoted(p, m)) = Priced(t, Normalize(t))
<1> DEFINE q == Promoted(p, m)
<1>1. /\ q.stored.dialect = "css" /\ q.stored.texts = m
      /\ q.ld = p.ld /\ q.builtin = p.builtin
  BY PromotedTyped
<1> HIDE DEF q
<1>2. p.ld = <<>>
  BY DEF Amazon, Priced, Failed
<1>3. ValidateSelector(m) = {t}
  <2>1. PICK i \in 1..Len(m) : /\ t = m[i] /\ HasDigit(m[i])
                               /\ \A k \in 1..i - 1 : ~HasDigit(m[k])
    BY ShownIs
  <2>2. \A k \in 1..i - 1 : ~Plausible(m[k])
    BY <2>1, PlausibleHasDigit
  <2> QED BY <2>1, <2>2, GateSees
<1>4. Shown(m \o p.builtin) = {t}
  <2>1. p.builtin \in Seq(Texts) /\ m \o p.builtin \in Seq(Texts)
    BY StoredTyped
  <2>2. t \in Shown(m \o p.builtin)
    BY <2>1, ShownFirst
  <2>3. \A u \in Shown(m \o p.builtin) : u = t
    BY <2>1, <2>2, OneShown
  <2> QED BY <2>2, <2>3
<1>5. Amazon(q) = PricedByDom({t}, Miss)
  BY <1>1, <1>2, <1>4 DEF Amazon
<1> QED BY <1>3, <1>5 DEF PricedByDom, q

LEMMA GenericHeals ==
  ASSUME NEW p \in PageType, Generic(p).status = "selector_miss",
         NEW m \in Seq(Texts), m # <<>>, Plausible(m[1]), English(m[1])
  PROVE  /\ ValidateSelector(m) = {m[1]}
         /\ Generic(Promoted(p, m)) = Priced(m[1], Normalize(m[1]))
<1> DEFINE q == Promoted(p, m)
<1>1. /\ q.stored.dialect = "css" /\ q.stored.texts = m
      /\ q.configured = p.configured
  BY PromotedTyped
<1> HIDE DEF q
<1> DEFINE c == ExtractText(p.configured)
           s == ExtractText(p.stored)
<1>2. c \in Seq(Texts) /\ s \in Seq(Texts)
  BY TextTyped DEF PageType
<1>3. p.configured.dialect # "invalid" /\ c \o s = <<>>
  BY DEF Generic, Raised, Priced, Failed
<1>4. c = <<>>
  <2> HIDE DEF c, s
  <2> QED BY <1>2, <1>3
<1>5. ExtractText(q.stored) = <<m[1]>>
  BY <1>1, PlausibleHasDigit DEF ExtractText
<1>6. ExtractText(q.configured) \o ExtractText(q.stored) = <<m[1]>>
  BY <1>1, <1>4, <1>5
<1>7. Generic(q) = Priced(m[1], Strip(m[1]))
  BY <1>1, <1>3, <1>6 DEF Generic
<1>8. ValidateSelector(m) = {m[1]}
  <2>1. 1 \in 1..Len(m) /\ \A k \in 1..1 - 1 : ~Plausible(m[k])
    OBVIOUS
  <2> QED BY <2>1, GateSees
<1> QED BY <1>7, <1>8, EnglishAgrees DEF q

(* For every page reported as drift and all matches of a generated         *)
(* selector: if the scraper will read the text the gate accepts, the host  *)
(* is healed and serves the price the gate has seen.                       *)
THEOREM DriftIsHealable == ExtractionSpec => []MissIsHealable
<1>1. TypeInv /\ Reads => MissIsHealable
  <2> SUFFICES ASSUME TypeInv, Reads, result = "selector_miss", NEW m \in Matches,
                      NEW t \in IF strategy = "amazon" THEN Shown(m)
                                ELSE IF m = <<>> THEN {} ELSE {m[1]},
                      Plausible(t), strategy = "generic" => English(t)
               PROVE  /\ ValidateSelector(m) = {t}
                      /\ Extracted(strategy, Promoted(page, m)) = Priced(t, Normalize(t))
    BY DEF MissIsHealable
  <2>1. page \in PageType /\ strategy \in Strategies /\ m \in Seq(Texts)
        /\ Extracted(strategy, page).status = "selector_miss"
    BY ExtractionAssumption DEF Reads, TypeInv, TypeOK
  <2>2. strategy \in {"generic", "amazon"}
    <3>1. \A u, r : Priced(u, r).status # "selector_miss"
      BY DEF Priced, Failed
    <3>2. Spa(page).status # "selector_miss" /\ Ebay(page).status # "selector_miss"
      BY <3>1 DEF Spa, Ebay, PricedByDom, Failed
    <3> QED BY <2>1, <3>2 DEF Extracted, Strategies, HttpStrategies
  <2>3. CASE strategy = "amazon"
    BY <2>1, <2>3, AmazonHeals DEF Extracted
  <2>4. CASE strategy = "generic"
    <3>1. m # <<>> /\ t = m[1]
      BY <2>4
    <3> QED BY <2>1, <2>4, <3>1, GenericHeals DEF Extracted
  <2> QED BY <2>2, <2>3, <2>4
<1> QED BY <1>1, ReadsInv, PTL
-----------------------------------------------------------------------------
(* What PageFetch promises of any extraction holds of the scrapers' own:   *)
(* when a call is given up as blocked or unreachable, what it then says,   *)
(* and how many requests it may cost.                                      *)
THEOREM PromisesCarryOver ==
  ExtractionSpec => [](/\ BlockedIsEarned /\ UnreachableIsTried
                       /\ BlocksAreReported /\ MissIsDrift /\ RequestsBounded)
BY Implements, BlocksEarned, EveryProxyTried, BlocksReported, DriftIsClean,
   CallBounded, PTL DEF ImplementsFetch
=============================================================================
