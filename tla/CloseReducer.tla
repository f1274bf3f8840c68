---------------------------- MODULE CloseReducer ----------------------------
(***************************************************************************)
(* The close-code reducer of packages/ext/src/sw/closeReducer.ts: what the *)
(* extension does when its WebSocket to the daemon closes, given how often *)
(* that happened since the last hello.  The codes are grouped by what the  *)
(* reducer makes of them.                                                  *)
(***************************************************************************)
EXTENDS Naturals

CONSTANTS
    GiveUpCap,      \* DEFAULT_GIVE_UP_CAP
    RevalidateCap   \* DEFAULT_REVALIDATE_CAP

ASSUME CapsArePositive == GiveUpCap \in Nat \ {0} /\ RevalidateCap \in Nat \ {0}

Code == {"normal",      \* 1000, 1001
         "final",       \* 1015, 4409
         "auth",        \* 1002
         "version",     \* 4406
         "restart",     \* 1012, 1013, 4408
         "lost"}        \* 1005, 1006, 1011 and every other code

ReducerState == [attempts : Nat, failing : BOOLEAN, revalidations : 0..RevalidateCap,
                 giveUp : BOOLEAN]

\* initialReducerState(), and resetOnHello() of any state.
Reset == [attempts |-> 0, failing |-> FALSE, revalidations |-> 0, giveUp |-> FALSE]

Result(action, next) == [action |-> action, next |-> next]

\* Mutant of OnLost: failures in a row are not counted.
OnLostUncounted(prev, late) == Result("wait", [prev EXCEPT !.failing = TRUE])

\* A backoff, or give-up after GiveUpCap failures or when giveUpWindowMs is over
\* since the first (late; the first failure itself is never late).
OnLost(prev, late) ==
    LET n == prev.attempts + 1
        over == n >= GiveUpCap \/ (prev.failing /\ late)
    IN  Result(IF over THEN "give-up" ELSE "wait",
               [prev EXCEPT !.attempts = n, !.failing = TRUE, !.giveUp = over])

\* Mutant of OnAuth: the cap is off by one.
OnAuthPastCap(prev) ==
    IF prev.revalidations <= RevalidateCap
    THEN Result("revalidate", [prev EXCEPT !.revalidations = @ + 1])
    ELSE Result("refetch", [prev EXCEPT !.revalidations = 0])

\* Revalidate RevalidateCap times, then have the page fetch a new handshake and
\* start over.
OnAuth(prev) ==
    IF prev.revalidations < RevalidateCap
    THEN Result("revalidate", [prev EXCEPT !.revalidations = @ + 1])
    ELSE Result("refetch", [prev EXCEPT !.revalidations = 0])

\* nextState(); its two delays, backoff and fixed, are both "wait".
NextState(prev, code, late) ==
    IF prev.giveUp THEN Result("give-up", prev)
    ELSE CASE code = "normal"  -> Result("rest", prev)
           [] code = "final"   -> Result("give-up", [prev EXCEPT !.giveUp = TRUE])
           [] code = "auth"    -> OnAuth(prev)
           [] code = "version" -> Result("version", prev)
           [] code = "restart" -> Result("wait", prev)
           [] code = "lost"    -> OnLost(prev, late)
=============================================================================
