--------------------------- MODULE RpcCorrelation ---------------------------
(***************************************************************************)
(* The correlation table of packages/daemon/src/ws/rpcCorrelation.ts: the  *)
(* browser-tool calls that await an answer of the extension, and the       *)
(* counter of slots taken by calls, whether or not they are registered     *)
(* yet.  The operators are the methods; a module that uses them says when  *)
(* they run.                                                               *)
(***************************************************************************)
EXTENDS Integers, FiniteSets

CONSTANTS
    Calls,      \* the browser-tool calls (one HTTP request and one JSON-RPC id each)
    Limit       \* concurrencyLimit, 8 in child.ts

ASSUME CallsFinite == IsFiniteSet(Calls)
ASSUME LimitIsPositive == Limit \in Nat \ {0}

VARIABLES
    pending,    \* the keys of the pending Map
    active      \* the private counter

\* Slots a call may still take.
MayAcquire == active < Limit

TryAcquire == active' = active + 1

\* releaseAcquired() of a call that stops before it registers.
ReleaseAcquired == active' = IF active > 0 THEN active - 1 ELSE 0

\* register() takes no slot: tryAcquire() has.
Register(r) == pending' = pending \cup {r}

\* Mutant of Settle: neither the `if (!entry) return` nor the Math.max(0, ...).
SettleUnchecked(R) ==
    /\ pending' = pending \ R
    /\ active' = active - Cardinality(R)

\* resolve(), reject(), the timer of register() and, with every key, rejectAll():
\* an id that is not in the table is ignored, one that is gives its slot back.
Settle(R) ==
    LET found == R \cap pending IN
    /\ pending' = pending \ found
    /\ active' = IF active >= Cardinality(found)
                 THEN active - Cardinality(found) ELSE 0
=============================================================================
