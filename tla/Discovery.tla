------------------------------ MODULE Discovery ------------------------------
(* ProjectDiscovery: how buys of the watched wallets become project signals.   *)
(* A scan walks the pages of one wallet's transactions backwards from the      *)
(* newest to the last known one, and keeps its progress in a cursor; buys go   *)
(* to the inbox, from which they are delivered.  A transaction is numbered by  *)
(* its place in the ledger, so that a list of them, newest first, is a set;    *)
(* the wallets only share the failure counter.                                 *)
EXTENDS Integers, FiniteSets

CONSTANTS
  Ledgers,          \* what the wallet may do: sequences of transactions
  PageSize, Batch,  \* 100 and 10 in the code
  MaxFaults         \* bound: the scans that fail

ASSUME PageAssumption == PageSize \in Nat \ {0} /\ Batch \in Nat

VARIABLES
  ledger,  \* the wallet's transactions, oldest first
  top,     \* how many of them have happened
  faults,  \* scans that have failed
  cursor,  \* the saved cursor, or NoCursor
  scan,    \* the scan that runs: [pc, c, left], c the cursor it holds
  late,    \* cursor writes whose scan has timed out, still to be applied
  inbox    \* per transaction: absent, waiting or processed
dvars == <<ledger, top, cursor, scan, late, inbox, faults>>

NoCursor == [since |-> -1]
NoScan == [pc |-> "rest", c |-> NoCursor, left |-> 0]

(* A buy: the wallet signed a swap, paid, and one token that is no quote token *)
(* and was passed to the swap grew.                                            *)
WalletBuys(tx) ==
  LET acquired == {m \in DOMAIN tx.delta : tx.delta[m] > 0 /\ m \notin tx.quotes /\ m \in tx.passed}
      spent == tx.paid \/ \E m \in DOMAIN tx.delta : tx.delta[m] < 0
  IN IF ~tx.err /\ tx.signer /\ tx.swap /\ Cardinality(acquired) = 1 /\ spent THEN acquired ELSE {}
IsBuy(i) == WalletBuys(ledger[i]) # {}

DiscoveryInit ==
  /\ ledger \in Ledgers /\ top = 0 /\ cursor = NoCursor /\ scan = NoScan /\ late = {}
  /\ inbox = [i \in DOMAIN ledger |-> "absent"] /\ faults = 0

Transacts ==
  /\ top + 1 \in DOMAIN ledger /\ top' = top + 1
  /\ UNCHANGED <<ledger, cursor, scan, late, inbox, faults>>

(* tick and startScan: one scan at a time, from the cursor as it is saved.     *)
FirstCursor == [since |-> top, head |-> 0, before |-> 0, target |-> 0, pending |-> {}, finished |-> FALSE]
AfterLoad(c) == IF c.pending = {} THEN "page" ELSE "fetch"
StartScan ==
  /\ scan.pc = "rest"
  /\ scan' = IF cursor = NoCursor THEN [pc |-> "saveFirst", c |-> FirstCursor, left |-> Batch]
             ELSE [pc |-> AfterLoad(cursor), c |-> cursor, left |-> Batch]
  /\ UNCHANGED <<ledger, top, cursor, late, inbox, faults>>

(* One page of signatures, newest first, up to the head or the first one that  *)
(* is older than the cursor itself.                                            *)
NewestOf(c) == IF c.before = 0 THEN top ELSE c.before - 1
OldestOf(c) == IF PageSize < NewestOf(c) THEN NewestOf(c) + 1 - PageSize ELSE 1
Page(c) == OldestOf(c)..NewestOf(c)
Stops(c) == {i \in Page(c) : i = c.head \/ i <= c.since}
Paged(c) ==
  [c EXCEPT !.target = IF @ # 0 THEN @ ELSE IF Page(c) # {} THEN NewestOf(c) ELSE c.head,
            !.pending = {i \in Page(c) : (\A j \in Stops(c) : j < i) /\ ~ledger[i].err},
            !.finished = Stops(c) # {} \/ Cardinality(Page(c)) < PageSize,
            !.before = IF Page(c) = {} THEN 0 ELSE OldestOf(c)]
ReadPage ==
  /\ scan.pc = "page"
  /\ scan' = [scan EXCEPT !.pc = "savePage", !.c = Paged(scan.c)]
  /\ UNCHANGED <<ledger, top, cursor, late, inbox, faults>>

(* The newest pending transaction is fetched, its buy goes to the inbox and    *)
(* only then it leaves the cursor.                                             *)
ReceiveBuy ==
  /\ scan.pc = "fetch" /\ scan.left > 0
  /\ \E i \in scan.c.pending :
       /\ \A j \in scan.c.pending : j <= i
       /\ inbox' = IF IsBuy(i) /\ inbox[i] = "absent" THEN [inbox EXCEPT ![i] = "waiting"] ELSE inbox
       /\ scan' = [scan EXCEPT !.pc = "saveItem", !.left = @ - 1, !.c.pending = @ \ {i}]
  /\ UNCHANGED <<ledger, top, cursor, late, faults>>

Walked(c) == c.pending = {} /\ c.finished
\* Mutant: the next walk stops at the newest transaction instead of the first one this walk has seen.
NextWalk_AtNewest(c) == [c EXCEPT !.head = top, !.before = 0, !.target = 0]
NextWalk(c) == [c EXCEPT !.head = c.target, !.before = 0, !.target = 0]
EndBatch ==
  /\ scan.pc = "fetch" /\ (scan.left = 0 \/ scan.c.pending = {})
  /\ scan' = IF Walked(scan.c) THEN [scan EXCEPT !.pc = "saveHead", !.c = NextWalk(@)] ELSE NoScan
  /\ UNCHANGED <<ledger, top, cursor, late, inbox, faults>>

(* saveCursor, at each of its four calls.                                      *)
Saves == {"saveFirst", "savePage", "saveItem", "saveHead"}
SaveCursor ==
  /\ scan.pc \in Saves
  /\ cursor' = scan.c
  /\ scan' = CASE scan.pc = "saveFirst" -> [scan EXCEPT !.pc = "page"]
               [] scan.pc = "saveHead" -> NoScan
               [] OTHER -> [scan EXCEPT !.pc = "fetch"]
  /\ UNCHANGED <<ledger, top, late, inbox, faults>>

(* A request fails or times out, the process dies: the scan is over and the    *)
(* next one starts from what is saved.  A write that timed out may still be    *)
(* applied, or never.                                                          *)
ScanFails ==
  /\ scan.pc # "rest" /\ faults < MaxFaults /\ faults' = faults + 1
  /\ scan' = NoScan
  /\ late' \in {late} \cup {late \cup {c} : c \in IF scan.pc \in Saves THEN {scan.c} ELSE {}}
  /\ UNCHANGED <<ledger, top, cursor, inbox>>
LateWrite ==
  /\ \E c \in late : cursor' = c /\ late' = late \ {c}
  /\ UNCHANGED <<ledger, top, scan, inbox, faults>>

(* drainInbox: deliver, then mark; a buy whose delivery or mark fails stays    *)
(* for a later round.                                                          *)
DrainInbox ==
  /\ \E i \in DOMAIN inbox : inbox[i] = "waiting" /\ inbox' = [inbox EXCEPT ![i] = "processed"]
  /\ UNCHANGED <<ledger, top, cursor, scan, late, faults>>

DiscoveryNext ==
  \/ Transacts \/ StartScan \/ ReadPage \/ ReceiveBuy \/ EndBatch \/ SaveCursor
  \/ ScanFails \/ LateWrite \/ DrainInbox

(* No buy is lost behind a cursor, whatever fails, repeats or arrives late:    *)
(* each buy after the start and up to the head is in the inbox, and one the    *)
(* current walk has passed is in the inbox or still pending.                   *)
Behind(c) ==
  {i \in 1..top : i > c.since /\ IsBuy(i)
     /\ (i <= c.head \/ (c.target # 0 /\ c.before <= i /\ i <= c.target /\ i \notin c.pending))}
NoBuyLost == cursor # NoCursor => \A i \in Behind(cursor) : inbox[i] # "absent"
=============================================================================
