--------------------------- MODULE PageFetchProofs ---------------------------
(***************************************************************************)
(* Theorems about PageFetch for every number of proxies, every rotation    *)
(* budget and every number of requests.                                    *)
(***************************************************************************)
EXTENDS PageFetch, TLAPS

(* What the typing of a step needs to know about where the call is.        *)
Running ==
  /\ pc # "done" => result = "none"
  /\ proxies = 0 => dead = 0
  /\ proxies > 0 /\ pc # "done" => dead < proxies

TypeInv == TypeOK /\ Running

(* The classification yields a block or nothing.                           *)
LEMMA Classified ==
  ASSUME NEW a, ClassifyBlock(a) # "none"
  PROVE  ClassifyBlock(a) \in Blocks
  BY DEF ClassifyBlock, Blocks

LEMMA ConfigTyped ==
  ASSUME TypeInv
  PROVE  proxies \in Nat /\ rotations \in Nat
         /\ MaxRequests \in Nat \ {0}
  BY FetchAssumption DEF TypeInv, TypeOK

(* The rotator stays within its types.                                     *)
LEMMA NextProxyTyped ==
  ASSUME TypeInv, proxies > 0, NextProxy
  PROVE  index' \in Nat /\ turns' \in [0..proxies - 1 -> Nat]
<1>1. index \in Nat /\ turns \in [0..proxies - 1 -> Nat]
  BY DEF TypeInv, TypeOK
<1>2. index' \in 0..proxies - 1
  BY <1>1, ConfigTyped DEF NextProxy
<1>3. turns' = [turns EXCEPT ![index'] = turns[index'] + 1]
  BY DEF NextProxy
<1>4. turns[index'] + 1 \in Nat
  BY <1>1, <1>2
<1>5. turns' \in [0..proxies - 1 -> Nat]
  BY <1>1, <1>2, <1>3, <1>4
<1> QED
  BY <1>2, <1>5, ConfigTyped

(* A block through a proxy is typed, and leaves the call running unless    *)
(* the budget is spent.                                                    *)
LEMMA RotateOnBlockTyped ==
  ASSUME TypeInv, pc = "request", proxies > 0, NEW block \in Blocks,
         RotateOnBlock(block)
  PROVE  /\ index' \in Nat /\ turns' \in [0..proxies - 1 -> Nat]
         /\ budget' \in 0..rotations /\ attempt' \in 0..MaxRequests - 1
         /\ \/ /\ pc' = "request" /\ result' = result
               /\ budget' = budget - 1 /\ attempt' = 0
            \/ /\ pc' = "done" /\ result' = block
               /\ budget = 0 /\ budget' = budget
<1>1. /\ budget \in 0..rotations /\ attempt \in 0..MaxRequests - 1
      /\ index \in Nat /\ turns \in [0..proxies - 1 -> Nat]
  BY DEF TypeInv, TypeOK
<1>2. CASE budget > 0
  <2>1. NextProxy /\ budget' = budget - 1 /\ attempt' = 0
        /\ pc' = pc /\ result' = result
    BY <1>2 DEF RotateOnBlock
  <2> QED
    BY <2>1, <1>1, <1>2, NextProxyTyped, ConfigTyped
<1>3. CASE ~(budget > 0)
  BY <1>1, <1>3 DEF RotateOnBlock, Finish, rotator
<1> QED
  BY <1>2, <1>3

(* A dead proxy is typed, and leaves the call running unless as many were  *)
(* dead as there are.                                                      *)
LEMMA RotateOnDeadTyped ==
  ASSUME TypeInv, pc = "request", proxies > 0, RotateOnDead
  PROVE  /\ index' \in Nat /\ turns' \in [0..proxies - 1 -> Nat]
         /\ dead' = dead + 1 /\ dead' \in 0..proxies
         /\ budget' = budget /\ attempt' \in 0..MaxRequests - 1
         /\ \/ /\ pc' = "request" /\ result' = result
               /\ dead' < proxies /\ attempt' = 0
            \/ pc' = "done" /\ result' = "http_error"
<1>1. /\ dead \in 0..proxies /\ attempt \in 0..MaxRequests - 1
      /\ index \in Nat /\ turns \in [0..proxies - 1 -> Nat]
      /\ dead < proxies
  BY DEF TypeInv, TypeOK, Running
<1>2. CASE dead + 1 < proxies
  <2>1. NextProxy /\ attempt' = 0 /\ pc' = pc /\ result' = result
        /\ dead' = dead + 1 /\ budget' = budget
    BY <1>2 DEF RotateOnDead
  <2> QED
    BY <2>1, <1>1, <1>2, NextProxyTyped, ConfigTyped
<1>3. CASE ~(dead + 1 < proxies)
  BY <1>1, <1>3, ConfigTyped DEF RotateOnDead, Finish, rotator
<1> QED
  BY <1>2, <1>3

(* Backing off is typed, and ends the call after the last attempt only.    *)
LEMMA BackOffTyped ==
  ASSUME TypeInv, pc = "request", NEW block \in Blocks \cup {"none"},
         BackOff(block)
  PROVE  /\ lastBlock' = block
         /\ attempt' \in 0..MaxRequests - 1
         /\ \/ pc' = "request" /\ result' = result /\ attempt' = attempt + 1
            \/ /\ pc' = "done" /\ attempt' = attempt
               /\ result' = IF block = "none" THEN "http_error" ELSE block
<1>1. attempt \in 0..MaxRequests - 1
  BY DEF TypeInv, TypeOK
<1> QED
  BY <1>1, ConfigTyped DEF BackOff, Finish
-----------------------------------------------------------------------------
LEMMA TypeInit == Init => TypeInv
<1> SUFFICES ASSUME Init PROVE TypeInv
  OBVIOUS
<1>1. proxies \in Nat /\ rotations \in Nat /\ MaxRequests \in Nat \ {0}
  BY FetchAssumption DEF Init
<1>2. turns \in [0..proxies - 1 -> Nat]
  BY <1>1 DEF Init
<1>3. index \in Nat
  BY <1>1 DEF Init
<1>4. answer \in Answers \cup {NoAnswer}
  BY DEF Init
<1>5. TypeOK
  BY <1>1, <1>2, <1>3, <1>4 DEF Init, TypeOK
<1>6. Running
  BY <1>1 DEF Init, Running
<1> QED
  BY <1>5, <1>6 DEF TypeInv

(* What a call may end in is among the results.                            *)
LEMMA ResultsTyped ==
  /\ \A r \in Blocks \cup {"http_error", "raised"} :
       r \in Blocks \cup Outcomes("generic")
                 \cup {"http_error", "raised", "none"}
  /\ \A s \in Strategies : \A r \in Outcomes(s) :
       r \in Blocks \cup Outcomes("generic")
                 \cup {"http_error", "raised", "none"}
  BY DEF Outcomes, Strategies, HttpStrategies

LEMMA TypeStep == TypeInv /\ [Next]_vars => TypeInv'
<1> SUFFICES ASSUME TypeInv, [Next]_vars PROVE TypeInv'
  OBVIOUS
<1> USE ConfigTyped
<1> DEFINE Results == Blocks \cup Outcomes("generic")
                        \cup {"http_error", "raised", "none"}
<1>0. /\ strategy \in Strategies /\ proxies \in ProxyCounts
      /\ rotations \in Rotations
      /\ index \in Nat /\ budget \in 0..rotations /\ dead \in 0..proxies
      /\ attempt \in 0..MaxRequests - 1
      /\ lastBlock \in Blocks \cup {"none"}
      /\ pc \in {"start", "request", "extract", "done"}
      /\ answer \in Answers \cup {NoAnswer}
      /\ result \in Results
      /\ requests \in Nat /\ blocks \in Nat
      /\ turns \in [0..proxies - 1 -> Nat]
  BY DEF TypeInv, TypeOK
<1>r. Running
  BY DEF TypeInv
<1>k. /\ \A r \in Blocks \cup {"http_error", "raised"} : r \in Results
      /\ \A r \in Outcomes(strategy) : r \in Results
  BY ResultsTyped, <1>0
<1> HIDE DEF Results
<1>g. ASSUME /\ strategy' = strategy /\ proxies' = proxies
             /\ rotations' = rotations
             /\ index' \in Nat /\ budget' \in 0..rotations
             /\ dead' \in 0..proxies
             /\ attempt' \in 0..MaxRequests - 1
             /\ lastBlock' \in Blocks \cup {"none"}
             /\ answer' \in Answers \cup {NoAnswer}
             /\ requests' \in Nat /\ blocks' \in Nat
             /\ turns' \in [0..proxies - 1 -> Nat]
             /\ \/ /\ pc' \in {"start", "request", "extract"}
                   /\ result' = "none"
                   /\ proxies > 0 => dead' < proxies
                \/ pc' = "done" /\ result' \in Results
             /\ proxies = 0 => dead' = 0
      PROVE  TypeInv'
  <2>1. TypeOK'
    BY <1>0, <1>g DEF TypeOK, Results
  <2>2. Running'
    BY <1>g DEF Running
  <2> QED
    BY <2>1, <2>2 DEF TypeInv
<1> USE DEF config, rotator
<1>1. CASE Start
  BY <1>0, <1>r, <1>k, <1>1, <1>g DEF Start, Finish, Running
<1>2. CASE HttpUnreachable
  <2>0. /\ pc = "request" /\ answer' = NoAnswer /\ requests' = requests + 1
        /\ blocks' = blocks /\ strategy' = strategy /\ proxies' = proxies
        /\ rotations' = rotations
    BY <1>2 DEF HttpUnreachable, Asked
  <2>1. CASE proxies > 0
    <3>1. RotateOnDead /\ lastBlock' = lastBlock
      BY <1>2, <2>1 DEF HttpUnreachable
    <3> QED
      BY <1>0, <1>r, <1>k, <1>g, <2>0, <2>1, <3>1, RotateOnDeadTyped
         DEF Running
  <2>2. CASE ~(proxies > 0)
    <3>1. /\ BackOff(lastBlock) /\ budget' = budget /\ dead' = dead
          /\ index' = index /\ turns' = turns
      BY <1>2, <2>2 DEF HttpUnreachable
    <3> QED
      BY <1>0, <1>r, <1>k, <1>g, <2>0, <2>2, <3>1, BackOffTyped DEF Running
  <2> QED
    BY <2>1, <2>2
<1>3. CASE BrowserFails
  BY <1>0, <1>r, <1>k, <1>3, <1>g DEF BrowserFails, Finish, Running, Asked
<1>4. CASE Extract
  BY <1>0, <1>r, <1>k, <1>4, <1>g DEF Extract, Finish, Running
<1>5. ASSUME NEW a \in Answers, HttpBlocked(a) PROVE TypeInv'
  <2>0. /\ pc = "request" /\ answer' = a /\ requests' = requests + 1
        /\ blocks' = blocks + 1 /\ strategy' = strategy
        /\ proxies' = proxies /\ rotations' = rotations /\ dead' = dead
        /\ ClassifyBlock(a) \in Blocks
    BY <1>5, Classified DEF HttpBlocked, Asked
  <2>1. CASE proxies > 0
    <3>1. RotateOnBlock(ClassifyBlock(a)) /\ lastBlock' = lastBlock
      BY <1>5, <2>1 DEF HttpBlocked
    <3> QED
      BY <1>0, <1>r, <1>k, <1>g, <2>0, <2>1, <3>1, RotateOnBlockTyped
         DEF Running
  <2>2. CASE ~(proxies > 0)
    <3>0. budget' = budget /\ index' = index /\ turns' = turns
      BY <1>5, <2>2 DEF HttpBlocked
    <3>1. CASE BackOff(ClassifyBlock(a))
      BY <1>0, <1>r, <1>k, <1>g, <2>0, <2>2, <3>0, <3>1, BackOffTyped
         DEF Running
    <3>2. CASE /\ Finish(ClassifyBlock(a)) \/ Finish("raised")
               /\ UNCHANGED <<attempt, lastBlock>>
      BY <1>0, <1>r, <1>k, <1>g, <2>0, <2>2, <3>0, <3>2 DEF Running, Finish
    <3> QED
      BY <1>5, <2>2, <3>1, <3>2 DEF HttpBlocked
  <2> QED
    BY <2>1, <2>2
<1>6. ASSUME NEW a \in Answers, HttpFinal(a) PROVE TypeInv'
  BY <1>0, <1>r, <1>k, <1>6, <1>g DEF HttpFinal, Finish, Running, Asked
<1>7. ASSUME NEW a \in Answers, HttpRetry(a) PROVE TypeInv'
  <2>1. /\ pc = "request" /\ answer' = a /\ requests' = requests + 1
        /\ BackOff(lastBlock) /\ UNCHANGED <<config, rotator, budget, dead, blocks>>
    BY <1>7 DEF HttpRetry, Asked
  <2> QED
    BY <1>0, <1>r, <1>k, <1>g, <2>1, BackOffTyped DEF Running
<1>8. ASSUME NEW a \in Answers, BrowserBlocked(a) PROVE TypeInv'
  <2>0. /\ pc = "request" /\ answer' = a /\ requests' = requests + 1
        /\ blocks' = blocks + 1 /\ strategy' = strategy
        /\ proxies' = proxies /\ rotations' = rotations /\ dead' = dead
        /\ lastBlock' = lastBlock /\ ClassifyBlock(a) \in Blocks
    BY <1>8, Classified DEF BrowserBlocked, Asked
  <2>1. CASE proxies > 0
    <3>1. RotateOnBlock(ClassifyBlock(a))
      BY <1>8, <2>1 DEF BrowserBlocked
    <3> QED
      BY <1>0, <1>r, <1>k, <1>g, <2>0, <2>1, <3>1, RotateOnBlockTyped
         DEF Running
  <2>2. CASE ~(proxies > 0)
    <3>1. /\ Finish(ClassifyBlock(a)) /\ budget' = budget
          /\ attempt' = attempt /\ index' = index /\ turns' = turns
      BY <1>8, <2>2 DEF BrowserBlocked
    <3> QED
      BY <1>0, <1>r, <1>k, <1>g, <2>0, <2>2, <3>1 DEF Running, Finish
  <2> QED
    BY <2>1, <2>2
<1>9. ASSUME NEW a \in Answers, BrowserLoads(a) PROVE TypeInv'
  BY <1>0, <1>r, <1>k, <1>9, <1>g DEF BrowserLoads, Running, Asked
<1>10. CASE UNCHANGED vars
  BY <1>0, <1>r, <1>10 DEF vars, TypeInv, TypeOK, Running, Results
<1> QED
  BY <1>1, <1>2, <1>3, <1>4, <1>5, <1>6, <1>7, <1>8, <1>9, <1>10 DEF Next

(* Every reachable state is well typed.                                    *)
THEOREM TypeCorrect == Spec => []TypeOK
<1>1. TypeInv => TypeOK
  BY DEF TypeInv
<1> QED
  BY <1>1, TypeInit, TypeStep, PTL DEF Spec
-----------------------------------------------------------------------------
(* The blocks seen and the budget left add up to the rotations allowed,    *)
(* until one block more ends the call.  No block is remembered for later:  *)
(* that happens without proxies only.                                      *)
Balance ==
  proxies > 0 =>
    /\ lastBlock = "none"
    /\ IF result \in Blocks THEN blocks = rotations + 1
                            ELSE budget + blocks = rotations

LEMMA BalanceStep == TypeInv /\ Balance /\ [Next]_vars => Balance'
<1> SUFFICES ASSUME TypeInv, Balance, [Next]_vars, proxies' > 0
             PROVE  Balance'
  BY DEF Balance
<1>0. /\ strategy \in Strategies
      /\ budget \in 0..rotations /\ blocks \in Nat /\ rotations \in Nat
      /\ pc # "done" => result = "none"
  BY ConfigTyped DEF TypeInv, TypeOK, Running
<1>1. "none" \notin Blocks /\ "http_error" \notin Blocks
      /\ "raised" \notin Blocks
      /\ \A s \in Strategies : \A r \in Outcomes(s) : r \notin Blocks
  BY DEF Blocks, Outcomes
<1>2. proxies' = proxies /\ rotations' = rotations
  BY DEF Next, vars, config, Start, HttpUnreachable, BrowserFails, Extract,
         HttpBlocked, HttpFinal, HttpRetry, BrowserBlocked, BrowserLoads
<1>3. proxies > 0
  BY <1>2
<1>4. pc # "done" => budget + blocks = rotations
  BY <1>0, <1>1, <1>3 DEF Balance
<1>5. ASSUME pc # "done", budget' = budget, blocks' = blocks,
             result' \notin Blocks, lastBlock' = lastBlock
      PROVE  Balance'
  BY <1>2, <1>3, <1>4, <1>5 DEF Balance
<1>6. ASSUME NEW block \in Blocks, pc = "request", RotateOnBlock(block),
             blocks' = blocks + 1, lastBlock' = lastBlock
      PROVE  Balance'
  BY <1>0, <1>1, <1>2, <1>3, <1>4, <1>6, RotateOnBlockTyped DEF Balance
<1>7. CASE Start
  BY <1>0, <1>1, <1>5, <1>7 DEF Start, Finish
<1>8. CASE HttpUnreachable
  <2>1. /\ pc = "request" /\ RotateOnDead /\ blocks' = blocks
        /\ lastBlock' = lastBlock
    BY <1>3, <1>8 DEF HttpUnreachable, Asked
  <2> QED
    BY <1>0, <1>1, <1>3, <1>5, <2>1, RotateOnDeadTyped
<1>9. CASE BrowserFails
  BY <1>0, <1>1, <1>5, <1>9 DEF BrowserFails, Asked, Finish
<1>10. CASE Extract
  BY <1>0, <1>1, <1>5, <1>10 DEF Extract, Finish
<1>11. ASSUME NEW a \in Answers, HttpBlocked(a) \/ BrowserBlocked(a)
       PROVE  Balance'
  BY <1>3, <1>6, <1>11, Classified DEF HttpBlocked, BrowserBlocked, Asked
<1>12. ASSUME NEW a \in Answers, HttpFinal(a) \/ BrowserLoads(a)
       PROVE  Balance'
  BY <1>0, <1>1, <1>5, <1>12 DEF HttpFinal, BrowserLoads, Asked, Finish
<1>13. ASSUME NEW a \in Answers, HttpRetry(a)
       PROVE  Balance'
  <2>1. /\ pc = "request" /\ BackOff("none")
        /\ blocks' = blocks /\ budget' = budget
    BY <1>3, <1>13 DEF HttpRetry, Asked, Balance
  <2>2. lastBlock' = "none" /\ result' \notin Blocks
    BY <1>0, <1>1, <2>1, BackOffTyped
  <2> QED
    BY <1>2, <1>4, <2>1, <2>2 DEF Balance
<1>14. CASE UNCHANGED vars
  BY <1>2, <1>3, <1>14 DEF vars, Balance
<1> QED
  BY <1>7, <1>8, <1>9, <1>10, <1>11, <1>12, <1>13, <1>14 DEF Next

(* Through proxies, a call is given up as blocked after one block more     *)
(* than the rotation budget, for every budget and number of proxies.       *)
THEOREM BlocksEarned == Spec => []BlockedIsEarned
<1>1. Init => Balance
  BY FetchAssumption DEF Init, Balance, Blocks
<1>2. Balance => BlockedIsEarned
  <2> SUFFICES ASSUME Balance, result \in Blocks, proxies > 0
               PROVE  blocks = rotations + 1
    BY DEF BlockedIsEarned
  <2> QED
    BY DEF Balance
<1> QED
  BY <1>1, <1>2, TypeInit, TypeStep, BalanceStep, PTL DEF Spec
-----------------------------------------------------------------------------
(* Turns of proxies that are over; a call makes at most MaxRequests        *)
(* requests in each.                                                       *)
Turns == (rotations - budget) + dead

Bounded ==
  /\ proxies = 0 => budget = rotations
  /\ pc \in {"start", "request"} => requests <= MaxRequests * Turns + attempt
  /\ RequestsBounded

(* The request in hand is among those the bound allows.                    *)
LEMMA OneMoreFits ==
  ASSUME TypeInv, Bounded, pc \in {"start", "request"}
  PROVE  /\ requests + 1 <= MaxRequests * (Turns + 1)
         /\ requests + 1 <= IF proxies = 0
                              THEN MaxRequests
                              ELSE MaxRequests * (rotations + proxies)
<1>1. /\ requests <= MaxRequests * Turns + attempt
      /\ attempt \in 0..MaxRequests - 1 /\ requests \in Nat
      /\ rotations \in Nat /\ budget \in 0..rotations
      /\ proxies \in Nat /\ dead \in 0..proxies
      /\ MaxRequests \in Nat \ {0}
  BY ConfigTyped DEF Bounded, TypeInv, TypeOK
<1>2. Turns \in Nat
  BY <1>1 DEF Turns
<1>3. MaxRequests * (Turns + 1) = MaxRequests * Turns + MaxRequests
      /\ MaxRequests * Turns \in Nat
  BY <1>1, <1>2
<1>4. requests + 1 <= MaxRequests * (Turns + 1)
  BY <1>1, <1>3
<1>5. CASE proxies = 0
  <2>1. Turns = 0
    BY <1>1, <1>5 DEF Bounded, TypeInv, Running, Turns
  <2>2. MaxRequests * (Turns + 1) = MaxRequests
    BY <2>1, <1>1
  <2> QED
    BY <1>4, <1>5, <2>2
<1>6. CASE proxies # 0
  <2>1. Turns + 1 <= rotations + proxies
    BY <1>1, <1>6 DEF TypeInv, Running, Turns
  <2>2. \A m, x, y \in Nat : x <= y => m * x <= m * y
    OBVIOUS
  <2>3. MaxRequests * (Turns + 1) <= MaxRequests * (rotations + proxies)
    BY <1>1, <1>2, <2>1, <2>2
  <2> QED
    BY <1>1, <1>2, <1>4, <1>6, <2>3
<1> QED
  BY <1>4, <1>5, <1>6

LEMMA BoundedStep == TypeInv /\ TypeInv' /\ Bounded /\ [Next]_vars => Bounded'
<1> SUFFICES ASSUME TypeInv, TypeInv', Bounded, [Next]_vars PROVE Bounded'
  OBVIOUS
<1>0. /\ requests \in Nat /\ attempt \in 0..MaxRequests - 1
      /\ rotations \in Nat /\ budget \in 0..rotations
      /\ proxies \in Nat /\ dead \in 0..proxies
      /\ MaxRequests \in Nat \ {0}
  BY ConfigTyped DEF TypeInv, TypeOK
<1>1. proxies' = proxies /\ rotations' = rotations
  BY DEF Next, vars, config, Start, HttpUnreachable, BrowserFails, Extract,
         HttpBlocked, HttpFinal, HttpRetry, BrowserBlocked, BrowserLoads
<1>2. requests <= IF proxies = 0 THEN MaxRequests
                                 ELSE MaxRequests * (rotations + proxies)
  BY DEF Bounded, RequestsBounded
<1>3. ASSUME pc = "request", requests' = requests + 1
      PROVE  /\ RequestsBounded'
             /\ requests' <= MaxRequests * (Turns + 1)
  BY <1>1, <1>3, OneMoreFits DEF RequestsBounded
(* The call ends, or goes on to extract: the bound is all that is left.    *)
<1>4. ASSUME pc = "request", requests' = requests + 1,
             proxies > 0 \/ budget' = budget,
             pc' \in {"extract", "done"}
      PROVE  Bounded'
  BY <1>0, <1>1, <1>3, <1>4 DEF Bounded
(* Another attempt through the same proxy.                                 *)
<1>5. ASSUME pc = "request", requests' = requests + 1,
             UNCHANGED <<budget, dead>>, attempt' = attempt + 1
      PROVE  Bounded'
  <2>1. Turns' = Turns /\ Turns \in Nat
    BY <1>0, <1>1, <1>5 DEF Turns
  <2>2. MaxRequests * Turns \in Nat
    BY <1>0, <2>1
  <2>3. requests' <= MaxRequests * Turns' + attempt'
    BY <1>0, <1>5, <2>1, <2>2 DEF Bounded
  <2> QED
    BY <1>1, <1>3, <1>5, <2>3 DEF Bounded
(* On to the next proxy.                                                   *)
<1>6. ASSUME pc = "request", requests' = requests + 1, proxies > 0,
             Turns' = Turns + 1, attempt' = 0
      PROVE  Bounded'
  <2>1. Turns + 1 \in Nat
    BY <1>0 DEF Turns
  <2>2. MaxRequests * (Turns + 1) \in Nat
    BY <1>0, <2>1
  <2>3. requests' <= MaxRequests * Turns' + attempt'
    BY <1>0, <1>3, <1>6, <2>2
  <2> QED
    BY <1>0, <1>1, <1>3, <1>6, <2>3 DEF Bounded
(* A step without a request.                                               *)
<1>7. ASSUME UNCHANGED <<requests, budget, dead, attempt>>,
             pc' = "request" => pc \in {"start", "request"},
             pc' = "start" => pc \in {"start", "request"}
      PROVE  Bounded'
  BY <1>0, <1>1, <1>7 DEF Bounded, Turns, RequestsBounded
<1>8. ASSUME NEW block \in Blocks, pc = "request", requests' = requests + 1,
             proxies > 0, RotateOnBlock(block), dead' = dead
      PROVE  Bounded'
  <2>1. CASE pc' = "request" /\ budget' = budget - 1 /\ attempt' = 0
    BY <1>0, <1>1, <1>6, <1>8, <2>1 DEF Turns
  <2>2. CASE pc' = "done"
    BY <1>4, <1>8, <2>2
  <2> QED
    BY <1>8, <2>1, <2>2, RotateOnBlockTyped
<1>9. ASSUME NEW block \in Blocks \cup {"none"}, pc = "request",
             requests' = requests + 1, UNCHANGED <<budget, dead>>,
             BackOff(block)
      PROVE  Bounded'
  BY <1>4, <1>5, <1>9, BackOffTyped
<1> USE DEF config, rotator
<1>10. CASE Start
  BY <1>7, <1>10 DEF Start, Finish
<1>11. CASE HttpUnreachable
  <2>1. CASE proxies > 0
    <3>1. pc = "request" /\ requests' = requests + 1 /\ RotateOnDead
      BY <1>11, <2>1 DEF HttpUnreachable, Asked
    <3>2. CASE pc' = "request" /\ attempt' = 0
      BY <1>0, <1>1, <1>6, <2>1, <3>1, <3>2, RotateOnDeadTyped DEF Turns
    <3>3. CASE pc' = "done"
      BY <1>4, <2>1, <3>1, <3>3
    <3> QED
      BY <2>1, <3>1, <3>2, <3>3, RotateOnDeadTyped
  <2>2. CASE ~(proxies > 0)
    <3>1. lastBlock \in Blocks \cup {"none"}
      BY DEF TypeInv, TypeOK
    <3> QED
      BY <1>9, <1>11, <2>2, <3>1 DEF HttpUnreachable, Asked
  <2> QED
    BY <2>1, <2>2
<1>12. CASE BrowserFails
  BY <1>4, <1>12 DEF BrowserFails, Asked, Finish
<1>13. CASE Extract
  BY <1>7, <1>13 DEF Extract, Finish
<1>14. ASSUME NEW a \in Answers, HttpBlocked(a) PROVE Bounded'
  <2>1. /\ pc = "request" /\ requests' = requests + 1 /\ dead' = dead
        /\ ClassifyBlock(a) \in Blocks
    BY <1>14, Classified DEF HttpBlocked, Asked
  <2>2. CASE proxies > 0
    BY <1>8, <1>14, <2>1, <2>2 DEF HttpBlocked
  <2>3. CASE ~(proxies > 0)
    <3>1. budget' = budget
      BY <1>14, <2>3 DEF HttpBlocked
    <3>2. CASE BackOff(ClassifyBlock(a))
      BY <1>9, <2>1, <3>1, <3>2
    <3>3. CASE pc' = "done"
      BY <1>4, <2>1, <3>1, <3>3
    <3> QED
      BY <1>14, <2>3, <3>2, <3>3 DEF HttpBlocked, Finish
  <2> QED
    BY <2>2, <2>3
<1>15. ASSUME NEW a \in Answers, HttpFinal(a) PROVE Bounded'
  BY <1>4, <1>15 DEF HttpFinal, Asked, Finish
<1>16. ASSUME NEW a \in Answers, HttpRetry(a) PROVE Bounded'
  <2>1. lastBlock \in Blocks \cup {"none"}
    BY DEF TypeInv, TypeOK
  <2> QED
    BY <1>9, <1>16, <2>1 DEF HttpRetry, Asked
<1>17. ASSUME NEW a \in Answers, BrowserBlocked(a) PROVE Bounded'
  <2>1. /\ pc = "request" /\ requests' = requests + 1 /\ dead' = dead
        /\ ClassifyBlock(a) \in Blocks
    BY <1>17, Classified DEF BrowserBlocked, Asked
  <2>2. CASE proxies > 0
    BY <1>8, <1>17, <2>1, <2>2 DEF BrowserBlocked
  <2>3. CASE ~(proxies > 0)
    BY <1>4, <1>17, <2>1, <2>3 DEF BrowserBlocked, Finish
  <2> QED
    BY <2>2, <2>3
<1>18. ASSUME NEW a \in Answers, BrowserLoads(a) PROVE Bounded'
  BY <1>4, <1>18 DEF BrowserLoads, Asked
<1>19. CASE UNCHANGED vars
  BY <1>7, <1>19 DEF vars
<1> QED
  BY <1>10, <1>11, <1>12, <1>13, <1>14, <1>15, <1>16, <1>17, <1>18, <1>19
     DEF Next

(* Blocks and dead proxies together cannot keep a call going, however many *)
(* proxies, rotations and requests are configured.                         *)
THEOREM CallBounded == Spec => []RequestsBounded
<1>1. Init => Bounded
  <2> SUFFICES ASSUME Init PROVE Bounded
    OBVIOUS
  <2>1. /\ MaxRequests \in Nat \ {0} /\ rotations \in Nat /\ proxies \in Nat
        /\ requests = 0 /\ attempt = 0 /\ budget = rotations /\ dead = 0
    BY FetchAssumption DEF Init
  <2>2. MaxRequests * Turns = 0 /\ MaxRequests * (rotations + proxies) \in Nat
    BY <2>1 DEF Turns
  <2> QED
    BY <2>1, <2>2 DEF Bounded, RequestsBounded
<1>2. Bounded => RequestsBounded
  BY DEF Bounded
<1> QED
  BY <1>1, <1>2, TypeInit, TypeStep, BoundedStep, PTL DEF Spec
-----------------------------------------------------------------------------
Clean == [code |-> "ok", marks |-> "none"]

(* A page that http extracts from is clean.                                *)
CleanPage == /\ pc = "extract" /\ Http => answer = Clean
             /\ MissIsDrift

LEMMA CleanPageStep ==
  TypeInv /\ CleanPage /\ [Next]_vars => CleanPage'
<1> SUFFICES ASSUME TypeInv, CleanPage, [Next]_vars PROVE CleanPage'
  OBVIOUS
<1>0. /\ strategy \in Strategies
      /\ lastBlock \in Blocks \cup {"none"}
      /\ pc # "done" => result = "none"
  BY DEF TypeInv, TypeOK, Running
<1>1. "selector_miss" \notin Blocks
  BY DEF Blocks
<1>2. strategy' = strategy
  BY DEF Next, vars, config, Start, HttpUnreachable, BrowserFails, Extract,
         HttpBlocked, HttpFinal, HttpRetry, BrowserBlocked, BrowserLoads
(* A step that neither extracts nor goes on to extract.                    *)
<1>3. ASSUME pc' # "extract", result' # "selector_miss" PROVE CleanPage'
  BY <1>3 DEF CleanPage, MissIsDrift
<1>4. ASSUME NEW block \in Blocks \cup {"none"}, pc = "request",
             BackOff(block)
      PROVE  CleanPage'
  BY <1>0, <1>1, <1>3, <1>4, BackOffTyped
<1>5. ASSUME NEW block \in Blocks, pc = "request", proxies > 0,
             RotateOnBlock(block)
      PROVE  CleanPage'
  BY <1>0, <1>1, <1>3, <1>5, RotateOnBlockTyped
<1>6. CASE Start
  BY <1>0, <1>3, <1>6 DEF Start, Finish
<1>7. CASE HttpUnreachable
  <2>1. CASE proxies > 0
    <3>1. pc = "request" /\ RotateOnDead
      BY <1>7, <2>1 DEF HttpUnreachable, Asked
    <3> QED
      BY <1>0, <1>3, <2>1, <3>1, RotateOnDeadTyped
  <2>2. CASE ~(proxies > 0)
    BY <1>0, <1>4, <1>7, <2>2 DEF HttpUnreachable, Asked
  <2> QED
    BY <2>1, <2>2
<1>8. CASE BrowserFails
  BY <1>3, <1>8 DEF BrowserFails, Finish
<1>9. CASE Extract
  BY <1>2, <1>9 DEF Extract, Finish, CleanPage, MissIsDrift, Http, Clean
<1>10. ASSUME NEW a \in Answers, HttpBlocked(a) PROVE CleanPage'
  <2>1. pc = "request" /\ ClassifyBlock(a) \in Blocks
    BY <1>10, Classified DEF HttpBlocked, Asked
  <2>2. CASE proxies > 0
    BY <1>5, <1>10, <2>1, <2>2 DEF HttpBlocked
  <2>3. CASE ~(proxies > 0)
    <3>1. CASE BackOff(ClassifyBlock(a))
      BY <1>4, <2>1, <3>1
    <3>2. CASE Finish(ClassifyBlock(a)) \/ Finish("raised")
      BY <1>1, <1>3, <2>1, <3>2 DEF Finish
    <3> QED
      BY <1>10, <2>3, <3>1, <3>2 DEF HttpBlocked
  <2> QED
    BY <2>2, <2>3
<1>11. ASSUME NEW a \in Answers, HttpFinal(a) PROVE CleanPage'
  <2>1. /\ pc = "request" /\ answer' = a /\ ClassifyBlock(a) = "none"
        /\ \/ a.code = "ok" /\ pc' = "extract" /\ result' = result
           \/ pc' = "done" /\ result' = "http_error"
    BY <1>11 DEF HttpFinal, Asked, Finish
  <2>2. CASE a.code = "ok" /\ result' = "none"
    <3>1. a.marks = "none"
      BY <2>1 DEF ClassifyBlock, Answers
    <3>2. a = Clean
      BY <2>2, <3>1 DEF Answers, Clean
    <3> QED
      BY <2>1, <2>2, <3>2 DEF CleanPage, MissIsDrift
  <2>3. CASE pc' = "done" /\ result' = "http_error"
    BY <1>3, <2>3
  <2> QED
    BY <1>0, <2>1, <2>2, <2>3
<1>12. ASSUME NEW a \in Answers, HttpRetry(a) PROVE CleanPage'
  BY <1>0, <1>4, <1>12 DEF HttpRetry, Asked
<1>13. ASSUME NEW a \in Answers, BrowserBlocked(a) PROVE CleanPage'
  <2>1. pc = "request" /\ ClassifyBlock(a) \in Blocks
    BY <1>13, Classified DEF BrowserBlocked, Asked
  <2> QED
    BY <1>1, <1>3, <1>5, <1>13, <2>1 DEF BrowserBlocked, Finish
<1>14. ASSUME NEW a \in Answers, BrowserLoads(a) PROVE CleanPage'
  BY <1>0, <1>2, <1>14
     DEF BrowserLoads, Asked, CleanPage, MissIsDrift, Http
<1>15. CASE UNCHANGED vars
  BY <1>15 DEF vars, CleanPage, MissIsDrift, Http
<1> QED
  BY <1>6, <1>7, <1>8, <1>9, <1>10, <1>11, <1>12, <1>13, <1>14, <1>15
     DEF Next

(* On the http path only a page that came with a 200 and no marker can be  *)
(* taken for markup drift.                                                 *)
THEOREM DriftIsClean == Spec => []MissIsDrift
<1>1. Init => CleanPage
  BY DEF Init, CleanPage, MissIsDrift
<1>2. CleanPage => MissIsDrift
  BY DEF CleanPage
<1> QED
  BY <1>1, <1>2, TypeInit, TypeStep, CleanPageStep, PTL DEF Spec
-----------------------------------------------------------------------------
(* Without proxies, a call that saw a block still remembers it while it    *)
(* asks; in the browser it ends with the first one.                        *)
Remembered ==
  proxies = 0 =>
    /\ pc = "start" \/ (~Http /\ pc # "done") => blocks = 0
    /\ pc = "request" /\ blocks > 0 => lastBlock # "none"
    /\ BlocksAreReported

LEMMA RememberedStep ==
  TypeInv /\ CleanPage /\ Remembered /\ [Next]_vars => Remembered'
<1> SUFFICES ASSUME TypeInv, CleanPage, Remembered, [Next]_vars,
                    proxies' = 0
             PROVE  Remembered'
  BY DEF Remembered
<1>0. /\ strategy \in Strategies /\ blocks \in Nat
      /\ lastBlock \in Blocks \cup {"none"}
      /\ "none" \notin Blocks
  BY DEF TypeInv, TypeOK, Blocks
<1>1. proxies' = proxies /\ strategy' = strategy
  BY DEF Next, vars, config, Start, HttpUnreachable, BrowserFails, Extract,
         HttpBlocked, HttpFinal, HttpRetry, BrowserBlocked, BrowserLoads
<1>2. ~(proxies > 0)
  BY <1>1
<1>3. /\ pc = "start" \/ (~Http /\ pc # "done") => blocks = 0
      /\ pc = "request" /\ blocks > 0 => lastBlock # "none"
  BY <1>1 DEF Remembered
(* A call that has not seen a block has nothing to report.                 *)
<1>4. ASSUME blocks' = 0 PROVE Remembered'
  BY <1>4 DEF Remembered, BlocksAreReported
(* Backing off with the last block, or with one just seen.                 *)
<1>5. ASSUME NEW block \in Blocks \cup {"none"}, Http, pc = "request",
             BackOff(block), blocks' > 0 => block # "none"
      PROVE  Remembered'
  BY <1>1, <1>5, BackOffTyped
     DEF Remembered, BlocksAreReported, Http
<1>6. CASE Start
  BY <1>3, <1>4, <1>6 DEF Start
<1>7. CASE HttpUnreachable
  <2>1. /\ Http /\ pc = "request" /\ BackOff(lastBlock)
        /\ blocks' = blocks
    BY <1>2, <1>7 DEF HttpUnreachable, Asked
  <2> QED
    BY <1>0, <1>3, <1>5, <2>1
<1>8. CASE BrowserFails
  BY <1>3, <1>4, <1>8 DEF BrowserFails, Asked
<1>9. CASE Extract
  <2>1. CASE Http
    <3>1. answer' = Clean /\ pc' = "done"
      BY <1>9, <2>1 DEF Extract, CleanPage, Finish
    <3>2. Clean.code = "ok" /\ ClassifyBlock(Clean) = "none"
      BY DEF Clean, ClassifyBlock
    <3> QED
      BY <1>1, <2>1, <3>1, <3>2 DEF Remembered, BlocksAreReported, Http
  <2>2. CASE ~Http
    BY <1>3, <1>4, <1>9, <2>2 DEF Extract
  <2> QED
    BY <2>1, <2>2
<1>10. ASSUME NEW a \in Answers, HttpBlocked(a) PROVE Remembered'
  <2>1. /\ Http /\ pc = "request" /\ ClassifyBlock(a) \in Blocks
        /\ answer' = a
    BY <1>10, Classified DEF HttpBlocked, Asked
  <2>2. CASE BackOff(ClassifyBlock(a))
    BY <1>0, <1>5, <2>1, <2>2
  <2>3. CASE Finish(ClassifyBlock(a))
    BY <1>1, <2>1, <2>3 DEF Finish, Remembered, BlocksAreReported, Http
  <2>4. CASE a.code = "busy" /\ Finish("raised")
    BY <1>1, <2>1, <2>4 DEF Finish, Remembered, BlocksAreReported, Http
  <2> QED
    BY <1>2, <1>10, <2>2, <2>3, <2>4 DEF HttpBlocked
<1>11. ASSUME NEW a \in Answers, HttpFinal(a) PROVE Remembered'
  <2>1. /\ Http /\ ClassifyBlock(a) = "none" /\ answer' = a
        /\ \/ pc' = "extract"
           \/ pc' = "done" /\ a.code = "gone"
    BY <1>11 DEF HttpFinal, Asked, Finish
  <2> QED
    BY <1>1, <2>1 DEF Remembered, BlocksAreReported, Http
<1>12. ASSUME NEW a \in Answers, HttpRetry(a) PROVE Remembered'
  <2>1. Http /\ pc = "request" /\ BackOff(lastBlock) /\ blocks' = blocks
    BY <1>12 DEF HttpRetry, Asked
  <2> QED
    BY <1>0, <1>3, <1>5, <2>1
<1>13. ASSUME NEW a \in Answers, BrowserBlocked(a) PROVE Remembered'
  <2>1. pc' = "done" /\ result' \in Blocks
    BY <1>2, <1>13, Classified DEF BrowserBlocked, Finish
  <2> QED
    BY <2>1 DEF Remembered, BlocksAreReported
<1>14. ASSUME NEW a \in Answers, BrowserLoads(a) PROVE Remembered'
  BY <1>3, <1>4, <1>14 DEF BrowserLoads, Asked
<1>15. CASE UNCHANGED vars
  BY <1>15 DEF vars, Remembered, BlocksAreReported, Http
<1> QED
  BY <1>6, <1>7, <1>8, <1>9, <1>10, <1>11, <1>12, <1>13, <1>14, <1>15
     DEF Next

(* Without proxies a call that saw a block ends in it, unless an answer    *)
(* that settles the matter came later or the last 429 raised.              *)
THEOREM BlocksReported == Spec => []BlocksAreReported
<1>1. Init => CleanPage /\ Remembered
  BY DEF Init, CleanPage, MissIsDrift, Remembered, BlocksAreReported
<1>2. TypeInv /\ Remembered => BlocksAreReported
  BY DEF Remembered, BlocksAreReported
<1> QED
  BY <1>1, <1>2, TypeInit, TypeStep, CleanPageStep, RememberedStep, PTL
     DEF Spec
-----------------------------------------------------------------------------
(* The position of the rotator j proxies ago, when it is at i of n.        *)
Behind(i, n, j) == IF j <= i THEN i - j ELSE i - j + n

(* The d last proxies before the one at i, and that one, were put to use.  *)
Walked(i, n, d, t) == \A j \in 0..d : t[Behind(i, n, j)] > 0

(* A call that goes on has put one proxy more to use than were dead, the   *)
(* last ones in the order of the rotator; a page to extract is an answer.  *)
Tried ==
  /\ pc = "start" => requests = 0
  /\ pc = "extract" /\ Http => answer # NoAnswer
  /\ proxies > 0 => /\ index \in 0..proxies - 1
                    /\ pc # "done" => Walked(index, proxies, dead, turns)
  /\ UnreachableIsTried

LEMMA BehindHere ==
  ASSUME NEW n \in Nat \ {0}, NEW i \in 0..n - 1, NEW j, j = 0
  PROVE  Behind(i, n, j) = i
  BY DEF Behind

(* Whoever walked back over all of the proxies but one met every one.      *)
LEMMA AllWalked ==
  ASSUME NEW n \in Nat \ {0}, NEW i \in 0..n - 1, NEW t,
         Walked(i, n, n - 1, t)
  PROVE  \A k \in 0..n - 1 : t[k] > 0
<1> TAKE k \in 0..n - 1
<1>1. Behind(i, n, k) \in 0..n - 1
  BY DEF Behind
<1>2. Behind(i, n, Behind(i, n, k)) = k
  BY DEF Behind
<1> QED
  BY <1>1, <1>2 DEF Walked

(* The rotator's remainder: one on, and from the last proxy to the first.  *)
LEMMA Wraps ==
  ASSUME NEW n \in Nat \ {0}, NEW i \in 0..n - 1
  PROVE  (i + 1) % n = IF i + 1 = n THEN 0 ELSE i + 1
<1>1. \A k \in 0..n - 1 : k % n = k
  OBVIOUS
<1>2. n % n = 0
  OBVIOUS
<1>3. CASE i + 1 = n
  BY <1>2, <1>3
<1>4. CASE i + 1 # n
  BY <1>1, <1>4
<1> QED
  BY <1>3, <1>4

(* The next proxy adds one to those walked over.                           *)
LEMMA NextProxyWalks ==
  ASSUME TypeInv, proxies > 0, index \in 0..proxies - 1, dead < proxies,
         Walked(index, proxies, dead, turns), NextProxy
  PROVE  /\ index' \in 0..proxies - 1
         /\ Walked(index', proxies, dead, turns')
         /\ Walked(index', proxies, dead + 1, turns')
<1>1. /\ turns \in [0..proxies - 1 -> Nat] /\ dead \in Nat
      /\ proxies \in Nat
  BY ConfigTyped DEF TypeInv, TypeOK
<1>2. index' = IF index + 1 = proxies THEN 0 ELSE index + 1
  BY <1>1, Wraps DEF NextProxy
<1>3. index' \in 0..proxies - 1
  BY <1>1, <1>2
<1>4. /\ turns'[index'] = turns[index'] + 1
      /\ \A k \in 0..proxies - 1 \ {index'} : turns'[k] = turns[k]
  BY <1>1, <1>3 DEF NextProxy
<1>5. turns[index'] \in Nat
  BY <1>1, <1>3
<1>6. \A k \in 0..proxies - 1 : turns'[k] >= turns[k]
  BY <1>1, <1>3, <1>4
<1>7. ASSUME NEW j \in 0..dead + 1
      PROVE  turns'[Behind(index', proxies, j)] > 0
  <2>1. CASE j = 0
    <3>1. Behind(index', proxies, j) = index'
      BY <1>1, <1>3, <2>1, BehindHere
    <3> QED
      BY <1>4, <1>5, <3>1
  <2>2. CASE j # 0
    <3>1. j - 1 \in 0..dead
      BY <1>1, <2>2
    <3>2. Behind(index', proxies, j) = Behind(index, proxies, j - 1)
      BY <1>1, <1>2, <2>2 DEF Behind
    <3>3. Behind(index, proxies, j - 1) \in 0..proxies - 1
      BY <1>1, <3>1 DEF Behind
    <3>4. turns[Behind(index, proxies, j - 1)] > 0
      BY <3>1 DEF Walked
    <3>5. /\ turns[Behind(index, proxies, j - 1)] \in Nat
          /\ turns'[Behind(index, proxies, j - 1)]
               >= turns[Behind(index, proxies, j - 1)]
      BY <1>1, <1>6, <3>3
    <3>6. turns'[Behind(index, proxies, j - 1)] \in Nat
      BY <1>1, <1>3, <1>4, <3>3
    <3> QED
      BY <3>2, <3>4, <3>5, <3>6
  <2> QED
    BY <2>1, <2>2
<1>8. Walked(index', proxies, dead + 1, turns')
  BY <1>7 DEF Walked
<1>9. 0..dead \subseteq 0..dead + 1
  BY <1>1
<1> QED
  BY <1>3, <1>8, <1>9 DEF Walked

LEMMA TriedInit == Init => Tried
<1> SUFFICES ASSUME Init PROVE Tried
  OBVIOUS
<1>1. proxies \in Nat
  BY FetchAssumption DEF Init
<1>2. ASSUME proxies > 0
      PROVE  index \in 0..proxies - 1 /\ Walked(index, proxies, dead, turns)
  <2>1. index \in 0..proxies - 1 /\ dead = 0 /\ turns[index] = 1
    BY <1>1, <1>2 DEF Init
  <2> QED
    BY <1>1, <2>1 DEF Walked, Behind
<1> QED
  BY <1>2 DEF Init, Tried, UnreachableIsTried

LEMMA TriedStep == TypeInv /\ Tried /\ [Next]_vars => Tried'
<1> SUFFICES ASSUME TypeInv, Tried, [Next]_vars PROVE Tried'
  OBVIOUS
<1>0. /\ strategy \in Strategies /\ proxies \in Nat /\ dead \in 0..proxies
      /\ lastBlock \in Blocks \cup {"none"}
      /\ proxies > 0 /\ pc # "done" => dead < proxies
      /\ requests \in Nat
  BY ConfigTyped DEF TypeInv, TypeOK, Running
<1>1. proxies' = proxies /\ strategy' = strategy
  BY DEF Next, vars, config, Start, HttpUnreachable, BrowserFails, Extract,
         HttpBlocked, HttpFinal, HttpRetry, BrowserBlocked, BrowserLoads
<1>2. NoAnswer \notin Answers
  BY DEF NoAnswer, Answers
<1>3. ASSUME proxies > 0
      PROVE  /\ index \in 0..proxies - 1
             /\ pc # "done" => Walked(index, proxies, dead, turns)
  BY <1>3 DEF Tried
(* A request through the same proxy, or without one, that does not end the *)
(* call unanswered.                                                        *)
<1>4. ASSUME pc = "request", UNCHANGED <<rotator, dead>>,
             pc' \in {"request", "extract", "done"},
             proxies = 0 \/ pc' = "request" \/ answer' # NoAnswer \/ ~Http,
             pc' = "extract" => answer' # NoAnswer
      PROVE  Tried'
  BY <1>1, <1>3, <1>4 DEF Tried, UnreachableIsTried, Http, rotator
(* A block through a proxy.                                                *)
<1>5. ASSUME NEW block \in Blocks, pc = "request", proxies > 0,
             RotateOnBlock(block), dead' = dead, answer' # NoAnswer
      PROVE  Tried'
  <2>1. CASE pc' = "request"
    <3>1. NextProxy
      BY <1>5, <2>1 DEF RotateOnBlock, Finish
    <3>2. index' \in 0..proxies - 1 /\ Walked(index', proxies, dead, turns')
      BY <1>0, <1>3, <1>5, <3>1, NextProxyWalks
    <3> QED
      BY <1>1, <1>5, <2>1, <3>2 DEF Tried, UnreachableIsTried
  <2>2. CASE pc' = "done" /\ UNCHANGED rotator
    BY <1>4, <1>5, <2>2
  <2> QED
    BY <1>5, <2>1, <2>2 DEF RotateOnBlock, Finish
<1>6. CASE Start
  <2>1. /\ pc = "start" /\ requests' = requests /\ requests = 0
        /\ pc' \in {"request", "done"} /\ UNCHANGED <<rotator, dead>>
    BY <1>6 DEF Start, Finish, Tried
  <2> QED
    BY <1>1, <1>3, <2>1 DEF Tried, UnreachableIsTried, rotator
<1>7. CASE HttpUnreachable
  <2>1. CASE proxies > 0
    <3>1. pc = "request" /\ RotateOnDead /\ dead' = dead + 1
      BY <1>7, <2>1 DEF HttpUnreachable, Asked, RotateOnDead
    <3>2. CASE dead + 1 < proxies
      <4>1. NextProxy /\ pc' = "request"
        BY <3>1, <3>2 DEF RotateOnDead
      <4>2. /\ index' \in 0..proxies - 1
            /\ Walked(index', proxies, dead + 1, turns')
        BY <1>0, <1>3, <2>1, <3>1, <4>1, NextProxyWalks
      <4> QED
        BY <1>1, <3>1, <4>1, <4>2 DEF Tried, UnreachableIsTried
    <3>3. CASE ~(dead + 1 < proxies)
      <4>1. pc' = "done" /\ UNCHANGED <<index, turns>>
        BY <3>1, <3>3 DEF RotateOnDead, Finish, rotator
      <4>2. dead = proxies - 1
        BY <1>0, <2>1, <3>1, <3>3
      <4>3. index \in 0..proxies - 1
            /\ Walked(index, proxies, proxies - 1, turns)
        BY <1>3, <2>1, <3>1, <4>2
      <4>4. \A k \in 0..proxies - 1 : turns[k] > 0
        BY <1>0, <2>1, <4>3, AllWalked
      <4> QED
        BY <1>1, <4>1, <4>3, <4>4 DEF Tried, UnreachableIsTried
    <3> QED
      BY <3>2, <3>3
  <2>2. CASE ~(proxies > 0)
    <3>1. /\ pc = "request" /\ BackOff(lastBlock)
          /\ UNCHANGED <<rotator, dead>>
      BY <1>7, <2>2 DEF HttpUnreachable, Asked
    <3>2. pc' \in {"request", "done"}
      BY <1>0, <3>1, BackOffTyped
    <3> QED
      BY <1>0, <1>4, <2>2, <3>1, <3>2
  <2> QED
    BY <2>1, <2>2
<1>8. CASE BrowserFails
  BY <1>4, <1>8 DEF BrowserFails, Asked, Finish
<1>9. CASE Extract
  <2>1. /\ pc = "extract" /\ pc' = "done"
        /\ UNCHANGED <<rotator, dead, answer>>
    BY <1>9 DEF Extract, Finish
  <2>2. Http => answer # NoAnswer
    BY <2>1 DEF Tried
  <2> QED
    BY <1>1, <1>3, <2>1, <2>2 DEF Tried, UnreachableIsTried, Http, rotator
<1>10. ASSUME NEW a \in Answers, HttpBlocked(a) PROVE Tried'
  <2>1. /\ pc = "request" /\ ClassifyBlock(a) \in Blocks
        /\ dead' = dead /\ answer' # NoAnswer
    BY <1>2, <1>10, Classified DEF HttpBlocked, Asked
  <2>2. CASE proxies > 0
    BY <1>5, <1>10, <2>1, <2>2 DEF HttpBlocked
  <2>3. CASE ~(proxies > 0)
    <3>1. UNCHANGED rotator
      BY <1>10, <2>3 DEF HttpBlocked
    <3>2. CASE BackOff(ClassifyBlock(a))
      <4>1. pc' \in {"request", "done"}
        BY <2>1, <3>2, BackOffTyped
      <4> QED
        BY <1>4, <2>1, <3>1, <4>1
    <3>3. CASE pc' = "done"
      BY <1>4, <2>1, <3>1, <3>3
    <3> QED
      BY <1>10, <2>3, <3>2, <3>3 DEF HttpBlocked, Finish
  <2> QED
    BY <2>2, <2>3
<1>11. ASSUME NEW a \in Answers, HttpFinal(a) PROVE Tried'
  BY <1>2, <1>4, <1>11 DEF HttpFinal, Asked, Finish
<1>12. ASSUME NEW a \in Answers, HttpRetry(a) PROVE Tried'
  <2>1. /\ pc = "request" /\ answer' # NoAnswer /\ BackOff(lastBlock)
        /\ UNCHANGED <<rotator, dead>>
    BY <1>2, <1>12 DEF HttpRetry, Asked
  <2>2. pc' \in {"request", "done"}
    BY <1>0, <2>1, BackOffTyped
  <2> QED
    BY <1>4, <2>1, <2>2
<1>13. ASSUME NEW a \in Answers, BrowserBlocked(a) PROVE Tried'
  <2>1. /\ pc = "request" /\ ClassifyBlock(a) \in Blocks
        /\ dead' = dead /\ answer' # NoAnswer
    BY <1>2, <1>13, Classified DEF BrowserBlocked, Asked
  <2>2. CASE proxies > 0
    BY <1>5, <1>13, <2>1, <2>2 DEF BrowserBlocked
  <2>3. CASE ~(proxies > 0)
    BY <1>4, <1>13, <2>1, <2>3 DEF BrowserBlocked, Finish
  <2> QED
    BY <2>2, <2>3
<1>14. ASSUME NEW a \in Answers, BrowserLoads(a) PROVE Tried'
  BY <1>2, <1>4, <1>14 DEF BrowserLoads, Asked
<1>15. CASE UNCHANGED vars
  BY <1>15 DEF vars, Tried, UnreachableIsTried, Http
<1> QED
  BY <1>6, <1>7, <1>8, <1>9, <1>10, <1>11, <1>12, <1>13, <1>14, <1>15
     DEF Next

(* A call that ends on a dead proxy has put every proxy to use, for any    *)
(* number of proxies and any number of blocks between the dead ones.       *)
THEOREM EveryProxyTried == Spec => []UnreachableIsTried
<1>1. Tried => UnreachableIsTried
  BY DEF Tried
<1> QED
  BY <1>1, TypeInit, TypeStep, TriedInit, TriedStep, PTL DEF Spec
=============================================================================
