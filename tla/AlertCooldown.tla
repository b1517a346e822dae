---------------------------- MODULE AlertCooldown ----------------------------
(***************************************************************************)
(* What price alerts promise, whatever scrapes, pages and transactions do: *)
(* an alert that was notified stays quiet until its cooldown elapses.  The *)
(* one exception is a notification whose scrape was rolled back: the       *)
(* database forgets it, so the alert may be notified once more.            *)
(***************************************************************************)
EXTENDS Integers

CONSTANT Alerts

VARIABLES
  quiet,    \* alerts that were notified and may not be notified now
  notices,  \* notices[a]: notifications of a since its last cooldown ended
  forgets   \* forgets[a]: of these, the ones forgotten by a rollback

vars == <<quiet, notices, forgets>>

Init ==
  /\ quiet = {}
  /\ notices = [a \in Alerts |-> 0]
  /\ forgets = [a \in Alerts |-> 0]

Notify(S) ==
  /\ S \cap quiet = {}
  /\ quiet' = quiet \cup S
  /\ notices' = [a \in Alerts |-> IF a \in S THEN notices[a] + 1
                                             ELSE notices[a]]
  /\ UNCHANGED forgets

Forget(S) ==
  /\ S \subseteq quiet
  /\ quiet' = quiet \ S
  /\ forgets' = [a \in Alerts |-> IF a \in S THEN forgets[a] + 1
                                             ELSE forgets[a]]
  /\ UNCHANGED notices

(* The broker accepted the notices of S, then failed: both at once.        *)
NotifyAndForget(S) ==
  /\ S \cap quiet = {}
  /\ notices' = [a \in Alerts |-> IF a \in S THEN notices[a] + 1
                                             ELSE notices[a]]
  /\ forgets' = [a \in Alerts |-> IF a \in S THEN forgets[a] + 1
                                             ELSE forgets[a]]
  /\ UNCHANGED quiet

Elapse(a) ==
  /\ a \in quiet
  /\ quiet' = quiet \ {a}
  /\ notices' = [notices EXCEPT ![a] = 0]
  /\ forgets' = [forgets EXCEPT ![a] = 0]

Next ==
  \/ \E S \in SUBSET Alerts : Notify(S) \/ Forget(S) \/ NotifyAndForget(S)
  \/ \E a \in Alerts : Elapse(a)

Spec == Init /\ [][Next]_vars
-----------------------------------------------------------------------------
(* One notification per cooldown, and one more for each one forgotten.     *)
OneNoticePerQuiet == \A a \in Alerts : notices[a] <= 1 + forgets[a]
=============================================================================
