-------------------------------- MODULE Auth --------------------------------
(***************************************************************************)
(* The security requirements of an operation (src/runtime/auth.ts): any    *)
(* requirement, every scheme of it.                                        *)
(*                                                                         *)
(* A requirement is a sequence of [scheme, scopes], a scheme [type,        *)
(* location, name, word].  A request carries values by place: <<"query",   *)
(* name>>, <<"cookie", name>>, <<"header", name>>, and as its              *)
(* authorization header a word and a credential.  The configuration has a  *)
(* verify per scheme or nothing: what it says of a credential is           *)
(* [says |-> "principal", scopes], [says |-> "response", status] or        *)
(* [says |-> "throws"].                                                    *)
(***************************************************************************)
EXTENDS Integers, Sequences

KnownTypes == {"apiKey", "http", "oauth2", "openIdConnect"}

\* The credential of a scheme, "" for none.
CredentialFor(scheme, carried) ==
  LET place == <<scheme.location, scheme.name>>
      word == IF scheme.type = "http" THEN scheme.word ELSE "bearer"
  IN IF scheme.type = "apiKey"
     THEN IF place \in DOMAIN carried.values THEN carried.values[place] ELSE ""
     ELSE IF carried.word = word THEN carried.credential ELSE ""

\* What becomes of a requirement.  A response of the callback's own goes out as
\* it is, where a failure of the mock's is an error on the operation's contract.
Admitted == [ok |-> TRUE, throws |-> FALSE, given |-> FALSE, status |-> 200]
Denied(status) == [Admitted EXCEPT !.ok = FALSE, !.status = status]
OwnResponse(status) == [Denied(status) EXCEPT !.given = TRUE]
Thrown == [Denied(500) EXCEPT !.throws = TRUE]

(***************************************************************************)
(* One scheme.  A scheme that is not declared fails closed, one of a type  *)
(* nobody knows is passed over, and a credential that nothing verifies is  *)
(* taken as it is.                                                         *)
(***************************************************************************)
Verified(answer, scopes) ==
  CASE answer.says = "throws" -> Thrown
    [] answer.says = "response" -> OwnResponse(answer.status)
    [] answer.says = "principal" /\ ~(scopes \subseteq answer.scopes) -> Denied(403)
    [] OTHER -> Admitted

CheckSchemeOpen(entry, schemes, verify, carried) ==
  LET credential == CredentialFor(schemes[entry.scheme], carried)
  IN IF entry.scheme \notin DOMAIN schemes \/ schemes[entry.scheme].type \notin KnownTypes THEN Admitted
     ELSE IF credential = "" THEN Denied(401)
     ELSE IF entry.scheme \notin DOMAIN verify THEN Admitted
     ELSE Verified(verify[entry.scheme][credential], entry.scopes)

CheckScheme(entry, schemes, verify, carried) ==
  LET credential == CredentialFor(schemes[entry.scheme], carried)
  IN IF entry.scheme \notin DOMAIN schemes THEN Denied(401)
     ELSE IF schemes[entry.scheme].type \notin KnownTypes THEN Admitted
     ELSE IF credential = "" THEN Denied(401)
     ELSE IF entry.scheme \notin DOMAIN verify THEN Admitted
     ELSE Verified(verify[entry.scheme][credential], entry.scopes)

\* The first of some outcomes.
First(outcomes, some) == outcomes[CHOOSE i \in some : \A j \in some : i <= j]

\* A requirement is left at its first scheme that fails.
CheckRequirement(requirement, schemes, verify, carried) ==
  LET outcomes == [j \in DOMAIN requirement |-> CheckScheme(requirement[j], schemes, verify, carried)]
      failing == {j \in DOMAIN requirement : ~outcomes[j].ok}
  IN IF failing = {} THEN Admitted ELSE First(outcomes, failing)

\* The first requirement that is met; when none is, the failure of the first.
\* A callback that throws ends it there.
FirstEnding(outcomes) ==
  LET ending == {i \in DOMAIN outcomes : outcomes[i].ok \/ outcomes[i].throws}
  IN CASE DOMAIN outcomes = {} -> Admitted
       [] DOMAIN outcomes # {} /\ ending = {} -> outcomes[1]
       [] OTHER -> First(outcomes, ending)

CheckAuth(security, schemes, verify, carried) ==
  FirstEnding([i \in DOMAIN security |->
                 CheckRequirement(security[i], schemes, verify, carried)])

(***************************************************************************)
(* The reference: a request is entitled when some requirement has every    *)
(* scheme of it satisfied.                                                 *)
(***************************************************************************)
Satisfied(entry, schemes, verify, carried) ==
  /\ entry.scheme \in DOMAIN schemes
  /\ schemes[entry.scheme].type \in KnownTypes =>
       LET credential == CredentialFor(schemes[entry.scheme], carried)
       IN /\ credential # ""
          /\ entry.scheme \in DOMAIN verify =>
               /\ verify[entry.scheme][credential].says = "principal"
               /\ entry.scopes \subseteq verify[entry.scheme][credential].scopes

Entitled(security, schemes, verify, carried) ==
  \/ DOMAIN security = {}
  \/ \E i \in DOMAIN security : \A j \in DOMAIN security[i] :
       Satisfied(security[i][j], schemes, verify, carried)
=============================================================================
