---------------------------- MODULE RunnerSession ----------------------------
(***************************************************************************)
(* The runner as a session: what its queue, its pending interrupt, its     *)
(* history and the tools that ran say of each call.                        *)
(***************************************************************************)
EXTENDS ResumableRunner

HasRun(n) == \E i \in DOMAIN ran : ran[i].call = n

Fate(n) ==
  CASE Answers(n) # {} -> IF HasRun(n) THEN "answered" ELSE "refused"
    [] Answers(n) = {} /\ n >= cursor -> "waiting"
    [] Answers(n) = {} /\ n < cursor /\ n = pending -> "suspended"
    [] Answers(n) = {} /\ n < cursor /\ n # pending ->
         IF InFlight /\ n = cursor - 1 THEN "running" ELSE "abandoned"

SessionFates == [n \in DOMAIN calls |-> Fate(n)]

Held == {n \in DOMAIN calls : NeedsHuman(calls[n])}

Decided == {decisions[k].call : k \in DOMAIN decisions}

Abstract == INSTANCE Session WITH
  BatchSizes <- 0 .. MaxCalls, fate <- SessionFates, held <- Held, decided <- Decided

\* The runner keeps the promises of Session: seen from outside, every step of the
\* loop and every resumption serves the call in turn as Session allows, and
\* what the runner does else, invalid and misdirected resumptions, errors and
\* the loss of a history included, shows in no call. Only a dropped run gives
\* calls up, and never a suspended one.
ImplementsSession == Abstract!Spec
=============================================================================
