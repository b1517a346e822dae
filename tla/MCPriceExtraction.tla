-------------------------- MODULE MCPriceExtraction --------------------------
EXTENDS PriceExtraction, FiniteSets

Unpriced  == Text(<<0>>, <<>>, TRUE, FALSE)               \* Sold out
Space     == Text(<<0>>, <<>>, FALSE, FALSE)
Plain     == Text(<<2, 2>>, <<".">>, FALSE, FALSE)        \* 19.99
Grouped   == Text(<<1, 3, 2>>, <<",", ".">>, TRUE, FALSE)  \* USD 1,234.56
Thousands == Text(<<1, 3>>, <<",">>, FALSE, FALSE)        \* 1,234
European  == Text(<<1, 3, 2>>, <<".", ",">>, TRUE, FALSE)  \* 1.234,56 EUR
Comma     == Text(<<2, 2>>, <<",">>, FALSE, FALSE)        \* 19,99
Between   == Text(<<4, 2, 4, 2>>, <<".", "-", ".">>, FALSE, FALSE)
Prose     == Text(<<1, 3, 2, 0>>, <<",", ".", ".">>, TRUE, FALSE)
                                                     \* 1,234.56 incl. VAT
Zero      == Text(<<1>>, <<>>, FALSE, TRUE)
Discount  == Text(<<0, 2>>, <<"-">>, TRUE, FALSE)         \* -20 %

AllTexts == {Unpriced, Space, Plain, Grouped, Thousands, European, Comma,
             Between, Prose, Zero, Discount}

UpToTwo(S) == {<<>>} \cup {<<a>> : a \in S} \cup {<<a, b>> : a, b \in S}

MCMatches == UpToTwo(AllTexts)

Offers     == {<<>>, <<Plain>>, <<Comma>>, <<Unpriced, Plain>>}
Configured == {NoSelector, Selector("invalid", <<>>)} \cup
              [dialect: {"css", "pseudo"}, texts: {<<>>, <<Space>>, <<Plain>>, <<Prose>>}]
Stored     == {NoSelector} \cup
              [dialect: {"css", "pseudo"},
               texts: UpToTwo({Unpriced, Space, Plain, Grouped, Comma, Prose, Zero})]
Lists      == {<<>>, <<Unpriced>>, <<Space, Plain>>, <<Between>>}

(* What the generic scraper looks at, and what the others do.              *)
MCPages ==
  {Page(<<>>, c, s, <<>>) : c \in Configured, s \in Stored} \cup
  {Page(l, NoSelector, s, b) : l \in Offers, s \in Stored, b \in Lists}

MCFewPages ==
  {Page(<<>>, NoSelector, Selector("css", <<>>), <<>>),
   Page(<<>>, Selector("css", <<Prose>>), NoSelector, <<>>),
   Page(<<>>, Selector("invalid", <<>>), NoSelector, <<>>),
   Page(<<>>, NoSelector, Selector("pseudo", <<Grouped>>), <<Between>>)}
=============================================================================
