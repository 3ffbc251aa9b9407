---------------------------- MODULE Announcements ----------------------------
(***************************************************************************)
(* What an idempotent request makes known to the outside: the end of       *)
(* `handle` (src/server/handler.ts), where the webhooks linked to the      *)
(* operation are scheduled once the record of the request is written, its  *)
(* key released or nothing stored.  The module adds that step to           *)
(* Idempotency; Emission follows an emission from there to its delivery.   *)
(***************************************************************************)
EXTENDS Idempotency

CONSTANT ConflictStatus  \* config.conflictStatus, of any value

ASSUME ConflictStatusAssumption == ConflictStatus \in Nat

VARIABLE announced  \* the requests that have scheduled their emissions

AnnouncingTypeOK == TypeOK /\ announced \in SUBSET Requests

AnnouncingInit == Init /\ announced = {}

-----------------------------------------------------------------------------
Ended == {"answered", "recorded", "released", "unwritten"}

\* The response is the operation's own, or the refusal of stage 5, and its
\* status may be below 400.  A body captureBody could not read does not stop
\* the emission: it goes out with a null body.
Succeeded(r) ==
  IF decision[r] \in {"mismatch", "in-flight"}
  THEN ConflictStatus < 400
  ELSE outcome[r] \in {"answer", "unread"}

\* the guard before a replayed request was taken out of it
AnnouncesReplays(r) == Succeeded(r)
Announces(r) == Succeeded(r) /\ decision[r] # "replayed"

\* The exit of r is past the capture.  An operation without webhooks, an answer
\* of 400 and more and a mock that is closed are requests that do not take it.
Announce(r) ==
  /\ pc[r] \in Ended
  /\ r \notin announced
  /\ Announces(r)
  /\ announced' = announced \cup {r}

AnnouncingNext ==
  \/ Next /\ UNCHANGED announced
  \/ (\E r \in Requests : Announce(r)) /\ UNCHANGED vars

\* Every step but the announcement is one of Idempotency, under its fairness.
AnnouncingSpec ==
  AnnouncingInit /\ [][AnnouncingNext]_<<vars, announced>> /\ WF_vars(Tick)

-----------------------------------------------------------------------------
\* A retry has no further effect (handler.ts:1454, "a client retry has no
\* further effect"): two requests under one key announce themselves only if one
\* of them lost its marker or its record, could not have its body read, which
\* releases the key but not the emission, or never had the claim because it
\* found no entry to conflict with.  A refusal must then be an error:
\* `conflictStatus` may be configured below 400, and a refused retry announces
\* itself like an answer.
EffectOnce ==
  ConflictStatus >= 400 =>
    \A r, s \in announced :
      (/\ r # s
       /\ req[r].key # NoKey /\ req[s].key # NoKey
       /\ KeyOf(r) = KeyOf(s))
      => \E q \in {r, s} : q \in lost \/ outcome[q] = "unread" \/ decision[q] = "none"
=============================================================================
