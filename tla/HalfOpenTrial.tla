---------------------------- MODULE HalfOpenTrial ----------------------------
(***************************************************************************)
(* CircuitBreaker with the history that the half-open state needs.  The Go *)
(* struct has no half-open state: Allow closes a lapsed breaker.  trials   *)
(* holds the calls let in since then while none of them has reported.      *)
(***************************************************************************)
EXTENDS CircuitBreaker

VARIABLE trials

TrialInit == Init /\ trials = {}

TrialTick == Tick /\ UNCHANGED trials

TrialAdmit(c) ==
    /\ Admit(c)
    /\ trials' = IF breaker.openedAt # ZeroTime \/ trials # {}
                 THEN trials \cup {c} ELSE trials

TrialReport(c) ==
    /\ Succeed(c) \/ Fail(c)
    /\ trials' = IF c \in trials THEN {} ELSE trials

TrialOther(c) == (ReadClock(c) \/ Reject(c)) /\ UNCHANGED trials

TrialNext == TrialTick \/ \E c \in Callers : \/ TrialAdmit(c)
                                            \/ TrialReport(c)
                                            \/ TrialOther(c)

TrialSpec == TrialInit /\ [][TrialNext]_<<vars, trials>>

\* circuitbreaker.go:43 "Half-open behavior: allow one trial": until the first
\* call after the timeout has reported, no second call is let through.
HalfOpenSingleTrial == \A c, d \in trials : c = d
==============================================================================
