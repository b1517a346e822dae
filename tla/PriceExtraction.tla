--------------------------- MODULE PriceExtraction ---------------------------
(***************************************************************************)
(* PageFetch with what it leaves open: what a scraper makes of the page it *)
(* was served (scrapers/generic.py, scrapers/amazon.py, scrapers/ebay.py,  *)
(* scrapers/playwright_base.py), the host's stored selector among it       *)
(* (scrapers/base.py), and whether a generated selector, once promoted by  *)
(* the gate of services/selector_generation.py, heals that page.           *)
(***************************************************************************)
EXTENDS PageFetch, PriceText

CONSTANTS
  Pages,     \* pages served on a direct connection
  FewPages,  \* bound: those of them served through proxies
  Matches    \* sequences of texts a generated selector may match

VARIABLES
  page,  \* what the scraper extracts from, once it does
  price  \* the text the price was read from, and its reading

pageVars == <<page, price>>
extractionVars == <<vars, pageVars>>
-----------------------------------------------------------------------------
(* A page is what the sources of a price find on it: the structured data,  *)
(* the product's configured selector, the host's stored selector and the   *)
(* scraper's own list.  A selector is "css", "pseudo" (it carries ::text   *)
(* or another extension that only parsel knows), "invalid", or "none".     *)
Selector(dialect, texts) == [dialect |-> dialect, texts |-> texts]
NoSelector == Selector("none", <<>>)

Page(ld, configured, stored, builtin) ==
  [ld |-> ld, configured |-> configured, stored |-> stored, builtin |-> builtin]
NoPage == Page(<<>>, NoSelector, NoSelector, <<>>)

Selectors == [dialect: {"none", "css", "pseudo", "invalid"}, texts: Seq(Texts)]
PageType  == [ld: Seq(Texts), configured: Selectors, stored: Selectors,
              builtin: Seq(Texts)]

ASSUME ExtractionAssumption ==
  /\ Pages \subseteq PageType /\ FewPages \subseteq Pages
  /\ Matches \subseteq Seq(Texts)

Nothing == [text |-> Text(<<0>>, <<>>, FALSE, FALSE), reading |-> NoPrice]

Raised == [status |-> "raised", price |-> Nothing]
Miss   == [status |-> "selector_miss", price |-> Nothing]
Failed == [status |-> "extraction_failed", price |-> Nothing]
Priced(t, reading) ==
  IF reading = NoPrice THEN Failed
  ELSE [status |-> "ok", price |-> [text |-> t, reading |-> reading]]
-----------------------------------------------------------------------------
(* _extract_text: the first element alone counts, and blank text is none   *)
(* unless a pseudo-element asked for it.                                   *)
ExtractText(s) ==
  IF s.texts = <<>> \/ (s.dialect = "css" /\ Blank(s.texts[1]))
    THEN <<>> ELSE <<s.texts[1]>>

(* Mutation: the stored selector is asked first.                           *)
GenericStoredFirst(p) ==
  LET texts == ExtractText(p.stored) \o ExtractText(p.configured)
  IN  IF p.configured.dialect = "invalid" THEN Raised
      ELSE IF texts = <<>> THEN Miss
      ELSE Priced(texts[1], Strip(texts[1]))

(* GenericScraper: the product's own selector, then the host's.            *)
Generic(p) ==
  LET texts == ExtractText(p.configured) \o ExtractText(p.stored)
  IN  IF p.configured.dialect = "invalid" THEN Raised
      ELSE IF texts = <<>> THEN Miss
      ELSE Priced(texts[1], Strip(texts[1]))

(* _DOM_PRICE_SCRIPT: every element is tried until one shows a digit.      *)
HasDigit(t)  == Digits(t) # 0
Shown(texts) == First(texts, HasDigit)

PricedByDom(shown, otherwise) ==
  IF shown = {} THEN otherwise
  ELSE LET t == CHOOSE t \in shown : TRUE IN Priced(t, Normalize(t))

(* Mutation: the host's selector is not asked.                             *)
AmazonLegacyOnly(p) ==
  IF p.ld # <<>> THEN Priced(p.ld[1], Verbatim(p.ld[1]))
  ELSE IF p.stored.dialect = "pseudo" THEN Raised
  ELSE PricedByDom(Shown(p.builtin), Miss)

(* AmazonScraper: structured data decides if there is any; then the host's *)
(* selector, which the browser rejects unless it is plain CSS; then the    *)
(* legacy list.                                                            *)
Amazon(p) ==
  IF p.ld # <<>> THEN Priced(p.ld[1], Verbatim(p.ld[1]))
  ELSE IF p.stored.dialect = "pseudo" THEN Raised
  ELSE PricedByDom(Shown(p.stored.texts \o p.builtin), Miss)

(* PlaywrightScraper: structured data, then the class's list.              *)
Spa(p) ==
  IF p.ld # <<>> /\ Verbatim(p.ld[1]) # NoPrice
    THEN Priced(p.ld[1], Verbatim(p.ld[1]))
    ELSE PricedByDom(Shown(p.builtin), Failed)

IsNumber(t) == Verbatim(t) # NoPrice

(* Mutation: a DOM price that is no number is not caught.                  *)
EbayRaises(p) ==
  LET offers == First(p.ld, IsNumber)
      offer  == CHOOSE t \in offers : TRUE
  IN  IF offers # {} THEN Priced(offer, Verbatim(offer))
      ELSE IF p.builtin = <<>> THEN Failed
      ELSE IF DropCommas(p.builtin[1]) = NoPrice THEN Raised
      ELSE Priced(p.builtin[1], DropCommas(p.builtin[1]))

(* EbayScraper: the first offer that reads as a price, then the DOM.       *)
Ebay(p) ==
  LET offers == First(p.ld, IsNumber)
      offer  == CHOOSE t \in offers : TRUE
  IN  IF offers # {} THEN Priced(offer, Verbatim(offer))
      ELSE IF p.builtin = <<>> THEN Failed
      ELSE Priced(p.builtin[1], DropCommas(p.builtin[1]))

Extracted(s, p) ==
  CASE s = "generic" -> Generic(p)
    [] s = "amazon"  -> Amazon(p)
    [] s = "spa"     -> Spa(p)
    [] s = "ebay"    -> Ebay(p)
-----------------------------------------------------------------------------
(* The sources a scraper does not look at are left out of its pages.       *)
(* GenericScraper without any selector has raised in Start.                *)
Served ==
  {p \in IF proxies = 0 THEN Pages ELSE FewPages :
     /\ IF strategy = "generic"
          THEN /\ p.ld = <<>> /\ p.builtin = <<>>
               /\ p.configured.dialect # "none" \/ p.stored.dialect # "none"
          ELSE p.configured = NoSelector
     /\ strategy \in {"ebay", "spa"} => p.stored = NoSelector}

ExtractPage ==
  /\ pc = "extract"
  /\ \E p \in Served :
       /\ page' = p
       /\ price' = Extracted(strategy, p).price
       /\ Finish(Extracted(strategy, p).status)
  /\ UNCHANGED <<config, rotator, budget, dead, attempt, lastBlock, answer,
                 requests, blocks>>

(* The page or the browser goes away under the scripts.                    *)
BrowserBreaks ==
  /\ pc = "extract" /\ ~Http
  /\ Finish("raised") \/ Finish("http_error")
  /\ UNCHANGED <<config, rotator, budget, dead, attempt, lastBlock, answer,
                 requests, blocks, page, price>>

Fetch ==
  /\ \/ Start \/ HttpUnreachable \/ BrowserFails
     \/ \E a \in Answers : HttpBlocked(a) \/ HttpFinal(a) \/ HttpRetry(a)
                             \/ BrowserBlocked(a) \/ BrowserLoads(a)
  /\ UNCHANGED pageVars

ExtractionInit == Init /\ page = NoPage /\ price = Nothing

ExtractionNext == Fetch \/ BrowserBreaks \/ ExtractPage

ExtractionSpec == ExtractionInit /\ [][ExtractionNext]_extractionVars
-----------------------------------------------------------------------------
(* What the scrapers make of their pages is what PageFetch allows: drift   *)
(* is reported only by the two sources whose hosts can be healed.          *)
ImplementsFetch == Spec

Promoted(p, texts) == [p EXCEPT !.stored = Selector("css", texts)]

(* A price in English notation: at most one dot, no comma after it, no     *)
(* dash, and no two-digit end after a comma.                               *)
English(t) ==
  /\ At(t, "-") = {} /\ ~Several(At(t, "."))
  /\ \A c \in At(t, ",") : \A d \in At(t, ".") : c < d
  /\ At(t, ",") # {} /\ At(t, ".") = {} => After(t, Final(At(t, ","))) # 2

(* "An active profile is always a proven one": once a page was reported as *)
(* drift, a selector that passes the gate on it does heal it, and the      *)
(* price served from then on is the one the gate has seen; provided it is  *)
(* plain CSS and, on Amazon, the first match with a digit is plausible; on *)
(* a generic page, the first match is, and in English notation.            *)
MissIsHealable ==
  pc = "done" /\ result = "selector_miss" =>
    \A m \in Matches :
      LET tried == IF strategy = "amazon" THEN Shown(m)
                   ELSE IF m = <<>> THEN {} ELSE {m[1]}
      IN  \A t \in tried :
            Plausible(t) /\ (strategy = "generic" => English(t)) =>
              /\ ValidateSelector(m) = {t}
              /\ Extracted(strategy, Promoted(page, m)) = Priced(t, Normalize(t))

(* The safety net: where the scraper's own sources have a price, a stored  *)
(* selector neither costs nor changes it, unless, on an Amazon page        *)
(* without structured data, it shows a digit or is not plain CSS.          *)
OwnSourcesPrevail ==
  LET own == Extracted(strategy, [page EXCEPT !.stored = NoSelector])
  IN  page # NoPage /\ own.status = "ok" =>
        \/ result = "ok" /\ price = own.price
        \/ /\ strategy = "amazon" /\ page.ld = <<>>
           /\ page.stored.dialect = "pseudo" \/ Shown(page.stored.texts) # {}

(* "The existing working paths remain the safety net, so the new           *)
(* capability is purely additive": a stored selector that passes the gate  *)
(* on the very page does not cost it the price it had without one.         *)
PurelyAdditive ==
  LET own == Extracted(strategy, [page EXCEPT !.stored = NoSelector])
  IN  page # NoPage /\ own.status = "ok" /\ ValidateSelector(page.stored.texts) # {} =>
        result = "ok"
=============================================================================
