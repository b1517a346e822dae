------------------------------ MODULE PageFetch ------------------------------
(***************************************************************************)
(* One call of a scraper's fetch (scrapers/http_client.py,                 *)
(* scrapers/playwright_base.py, scrapers/amazon.py, scrapers/generic.py,   *)
(* scrapers/ebay.py, scrapers/anti_blocking.py): requests, their           *)
(* classification, back-off, the rotation over the proxies, extraction.    *)
(*                                                                         *)
(* The http path makes up to MaxRequests requests through one proxy and    *)
(* rotates on a block or a dead proxy; the browser path navigates once per *)
(* proxy and rotates on a block only.  The rotator walks the proxy list    *)
(* cyclically from a random start.                                         *)
(***************************************************************************)
EXTENDS Integers

CONSTANTS
  ProxyCounts,  \* lengths of PROXY_URLS; 0 is a direct connection
  Rotations,    \* values of MAX_PROXY_ROTATIONS
  MaxRequests   \* _MAX_RETRIES

ASSUME FetchAssumption ==
  /\ ProxyCounts \subseteq Nat /\ Rotations \subseteq Nat
  /\ MaxRequests \in Nat \ {0}

VARIABLES
  strategy,  \* which scraper runs
  proxies,   \* len(PROXY_URLS)
  index,     \* the rotator's position
  budget,    \* block_budget
  dead,      \* dead_tries
  attempt,   \* the attempt of _fetch_via_proxy
  lastBlock, \* its last_block, or "none"
  pc,        \* where the call is
  answer,    \* the last answer
  result,    \* the extraction status of the call's result, or "raised"
  rotations, \* history: MAX_PROXY_ROTATIONS of the call
  requests,  \* history: requests made
  blocks,    \* history: requests whose answer was classified as a block
  turns      \* history: turns[i]: how often proxy i was put to use

config == <<strategy, proxies, rotations>>
rotator == <<index, turns>>
vars == <<strategy, proxies, index, budget, dead, attempt, lastBlock, pc,
          answer, result, rotations, requests, blocks, turns>>
-----------------------------------------------------------------------------
HttpStrategies == {"generic", "ebay"}
Strategies     == HttpStrategies \cup {"amazon", "spa"}
Blocks         == {"blocked", "captcha"}

(* What a scraper may make of a page without a block: "spa" stands for the *)
(* three subclasses of PlaywrightScraper.                                  *)
Outcomes(s) ==
  {"ok", "extraction_failed"}
    \cup IF s \in {"generic", "amazon"} THEN {"selector_miss"} ELSE {}

(* An answer: 200; 429 or 503; another code that is retried; any other     *)
(* code; or no answer.  marks: the markers found in the body.              *)
Answers == [code: {"ok", "busy", "error", "gone"},
            marks: {"none", "captcha", "ban"}]
NoAnswer == [code |-> "down", marks |-> "none"]

TypeOK ==
  /\ strategy \in Strategies /\ proxies \in ProxyCounts
  /\ rotations \in Rotations
  /\ index \in Nat /\ budget \in 0..rotations /\ dead \in 0..proxies
  /\ attempt \in 0..MaxRequests - 1
  /\ lastBlock \in Blocks \cup {"none"}
  /\ pc \in {"start", "request", "extract", "done"}
  /\ answer \in Answers \cup {NoAnswer}
  /\ result \in Blocks \cup Outcomes("generic")
                  \cup {"http_error", "raised", "none"}
  /\ requests \in Nat /\ blocks \in Nat
  /\ turns \in [0..proxies - 1 -> Nat]

Init ==
  /\ strategy \in Strategies
  /\ proxies \in ProxyCounts /\ rotations \in Rotations
  /\ index \in IF proxies = 0 THEN {0} ELSE 0..proxies - 1
  /\ budget = rotations /\ dead = 0 /\ attempt = 0 /\ lastBlock = "none"
  /\ pc = "start" /\ answer = NoAnswer /\ result = "none"
  /\ requests = 0 /\ blocks = 0
  /\ turns = [i \in 0..proxies - 1 |-> IF i = index THEN 1 ELSE 0]
-----------------------------------------------------------------------------
Http == strategy \in HttpStrategies

(* Mutation: a status code decides before the markers are looked at.       *)
ClassifyByCode(a) ==
  IF a.code = "busy" THEN "blocked"
    ELSE IF a.code = "ok" /\ a.marks = "captcha" THEN "captcha"
    ELSE "none"

(* Challenge markers win over the code, and the code over ban markers.     *)
ClassifyBlock(a) ==
  IF a.marks = "captcha" THEN "captcha"
    ELSE IF a.code = "busy" \/ a.marks = "ban" THEN "blocked"
    ELSE "none"

Finish(r) == pc' = "done" /\ result' = r

(* Mutation: the rotator moves but does not wrap to the proxies it passed. *)
NextProxyStays ==
  /\ index' = IF index + 1 < proxies THEN index + 1 ELSE index
  /\ turns' = [turns EXCEPT ![index'] = @ + 1]

NextProxy ==
  /\ index' = (index + 1) % proxies
  /\ turns' = [turns EXCEPT ![index'] = @ + 1]

(* Mutation: the budget is compared after it was spent.                    *)
RotateOneMore(block) ==
  IF budget >= 0
    THEN /\ budget' = budget - 1
         /\ NextProxy
         /\ attempt' = 0
         /\ UNCHANGED <<pc, result>>
    ELSE Finish(block) /\ UNCHANGED <<budget, attempt, rotator>>

(* Mutation: the budget is never spent.                                    *)
RotateForFree(block) ==
  IF budget > 0
    THEN NextProxy /\ attempt' = 0 /\ UNCHANGED <<budget, pc, result>>
    ELSE Finish(block) /\ UNCHANGED <<budget, attempt, rotator>>

(* A block through a proxy: on to the next one while the budget lasts.     *)
RotateOnBlock(block) ==
  IF budget > 0
    THEN /\ budget' = budget - 1
         /\ NextProxy
         /\ attempt' = 0
         /\ UNCHANGED <<pc, result>>
    ELSE Finish(block) /\ UNCHANGED <<budget, attempt, rotator>>

(* Mutation: a dead proxy is charged to the block budget.                  *)
RotateOnDeadCharged ==
  /\ dead' = dead + 1
  /\ IF dead + 1 < proxies
       THEN /\ NextProxy /\ attempt' = 0
            /\ budget' = IF budget > 0 THEN budget - 1 ELSE 0
            /\ UNCHANGED <<pc, result>>
       ELSE Finish("http_error") /\ UNCHANGED <<attempt, rotator, budget>>

(* A dead proxy: on to the next one until as many were dead as there are.  *)
RotateOnDead ==
  /\ dead' = dead + 1
  /\ IF dead + 1 < proxies
       THEN NextProxy /\ attempt' = 0 /\ UNCHANGED <<pc, result>>
       ELSE Finish("http_error") /\ UNCHANGED <<attempt, rotator>>
  /\ UNCHANGED budget

(* Mutation: an exhausted chain is an http_error whatever was seen.        *)
BackOffForgets(block) ==
  /\ lastBlock' = block
  /\ IF attempt + 1 < MaxRequests
       THEN attempt' = attempt + 1 /\ UNCHANGED <<pc, result>>
       ELSE Finish("http_error") /\ UNCHANGED attempt

(* Sleep and try again, or give up with the last block that was seen.      *)
BackOff(block) ==
  /\ lastBlock' = block
  /\ IF attempt + 1 < MaxRequests
       THEN attempt' = attempt + 1 /\ UNCHANGED <<pc, result>>
       ELSE /\ Finish(IF block = "none" THEN "http_error" ELSE block)
            /\ UNCHANGED attempt

Asked(a) == pc = "request" /\ answer' = a /\ requests' = requests + 1
-----------------------------------------------------------------------------
(* GenericScraper without any selector, a preset that is not there or not  *)
(* enabled: the call ends before it asks for anything.                     *)
Start ==
  /\ pc = "start"
  /\ \/ pc' = "request" /\ UNCHANGED result
     \/ Finish("raised")
  /\ UNCHANGED <<config, rotator, budget, dead, attempt, lastBlock, answer,
                 requests, blocks>>

(* httpx.RequestError: connection refused, time-out, a proxy that is gone. *)
HttpUnreachable ==
  /\ Http /\ Asked(NoAnswer)
  /\ IF proxies > 0
       THEN RotateOnDead /\ UNCHANGED lastBlock
       ELSE BackOff(lastBlock) /\ UNCHANGED <<budget, dead, rotator>>
  /\ UNCHANGED <<config, blocks>>

(* Without a proxy a challenge that came with a 200 is final and any other *)
(* block is retried.  A 429 whose Retry-After is a date raises a           *)
(* ValueError.                                                             *)
HttpBlocked(a) ==
  /\ Http /\ Asked(a)
  /\ ClassifyBlock(a) # "none"
  /\ blocks' = blocks + 1
  /\ IF proxies > 0
       THEN RotateOnBlock(ClassifyBlock(a)) /\ UNCHANGED lastBlock
       ELSE /\ \/ /\ a.code = "ok"
                  /\ Finish(ClassifyBlock(a)) /\ UNCHANGED <<attempt, lastBlock>>
               \/ /\ a.code # "ok"
                  /\ BackOff(ClassifyBlock(a))
               \/ /\ a.code = "busy"
                  /\ Finish("raised") /\ UNCHANGED <<attempt, lastBlock>>
            /\ UNCHANGED <<budget, rotator>>
  /\ UNCHANGED <<config, dead>>

(* 200 goes on to extraction; a code that is not retried ends the call.    *)
HttpFinal(a) ==
  /\ Http /\ Asked(a)
  /\ ClassifyBlock(a) = "none"
  /\ \/ a.code = "ok" /\ pc' = "extract" /\ UNCHANGED result
     \/ a.code = "gone" /\ Finish("http_error")
  /\ UNCHANGED <<config, rotator, budget, dead, attempt, lastBlock, blocks>>

HttpRetry(a) ==
  /\ Http /\ Asked(a)
  /\ ClassifyBlock(a) = "none" /\ a.code = "error"
  /\ BackOff(lastBlock)
  /\ UNCHANGED <<config, rotator, budget, dead, blocks>>
-----------------------------------------------------------------------------
(* page.goto times out, or anything in the browser raises.                 *)
BrowserFails ==
  /\ ~Http /\ Asked(NoAnswer)
  /\ Finish("http_error") \/ Finish("raised")
  /\ UNCHANGED <<config, rotator, budget, dead, attempt, lastBlock, blocks>>

BrowserBlocked(a) ==
  /\ ~Http /\ Asked(a)
  /\ ClassifyBlock(a) # "none"
  /\ blocks' = blocks + 1
  /\ IF proxies > 0
       THEN RotateOnBlock(ClassifyBlock(a))
       ELSE /\ Finish(ClassifyBlock(a))
            /\ UNCHANGED <<budget, attempt, rotator>>
  /\ UNCHANGED <<config, dead, lastBlock>>

(* Whatever its code, a page without a block is extracted from.            *)
BrowserLoads(a) ==
  /\ ~Http /\ Asked(a)
  /\ ClassifyBlock(a) = "none"
  /\ pc' = "extract"
  /\ UNCHANGED <<config, rotator, budget, dead, attempt, lastBlock, result,
                 blocks>>

(* Whatever raises in the browser ends the call, a time-out as http_error; *)
(* a configured selector that does not parse raises on the http path too.  *)
Extract ==
  /\ pc = "extract"
  /\ \/ \E r \in Outcomes(strategy) : Finish(r)
     \/ strategy # "ebay" /\ Finish("raised")
     \/ ~Http /\ Finish("http_error")
  /\ UNCHANGED <<config, rotator, budget, dead, attempt, lastBlock, answer,
                 requests, blocks>>
-----------------------------------------------------------------------------
Next ==
  \/ Start \/ HttpUnreachable \/ BrowserFails \/ Extract
  \/ \E a \in Answers : HttpBlocked(a) \/ HttpFinal(a) \/ HttpRetry(a)
                          \/ BrowserBlocked(a) \/ BrowserLoads(a)

Spec == Init /\ [][Next]_vars
-----------------------------------------------------------------------------
(* A call is given up as blocked neither early nor late: through proxies,  *)
(* after one block more than the rotation budget, however many dead        *)
(* proxies and retried errors came in between.                             *)
BlockedIsEarned ==
  result \in Blocks /\ proxies > 0 => blocks = rotations + 1

(* "Once every proxy has been tried the call fails": a call that ends on a *)
(* dead proxy has put every proxy to use, also when blocks moved the       *)
(* rotator between the dead ones.                                          *)
UnreachableIsTried ==
  pc = "done" /\ proxies > 0 /\ Http /\ answer = NoAnswer /\ requests > 0 =>
    \A i \in 0..proxies - 1 : turns[i] > 0

(* Without proxies a block is never reported as a bare http_error or as    *)
(* drift: a call that saw one ends in it, unless an answer that settles    *)
(* the matter came later or the last 429 could not be waited for.          *)
BlocksAreReported ==
  pc = "done" /\ proxies = 0 /\ blocks > 0 =>
    \/ result \in Blocks
    \/ answer.code \in {"ok", "gone"} /\ ClassifyBlock(answer) = "none"
    \/ answer.code = "busy" /\ result = "raised"

(* On the http path only a page that came with a 200 and no marker can be  *)
(* taken for markup drift, which costs an LLM call.                        *)
MissIsDrift ==
  result = "selector_miss" /\ Http =>
    answer = [code |-> "ok", marks |-> "none"]

(* "the call fails bounded rather than looping": blocks and dead proxies   *)
(* together cannot keep a call going.                                      *)
RequestsBounded ==
  requests <= IF proxies = 0 THEN MaxRequests
                             ELSE MaxRequests * (rotations + proxies)
=============================================================================
