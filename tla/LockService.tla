----------------------------- MODULE LockService -----------------------------
(***************************************************************************)
(* What a lockable RPC object promises to its callers, without threads,    *)
(* queues or messages: every call takes effect at most once, at one        *)
(* instant between its invocation and the moment it is answered; the       *)
(* answer of a call that took effect is what that instant decided; a call  *)
(* may instead be broken off with a delivery error, in which case it may   *)
(* or may not have taken effect.                                           *)
(* RpcObject implements this specification.                                *)
(***************************************************************************)

CONSTANTS Call,     \* identities of the calls
          Op,       \* kinds of calls
          Token,    \* lock tokens
          NoToken,  \* "no token": the object is not locked
          Denied,   \* __ACCESS_DENIED__
          Locked    \* __OBJECT_LOCKED__

Answer == [state : {"NO_RESULT_YET", "RESULT_IS_VALUE", "RESULT_IS_EXCEPTION", "OBJECT_IS_LOCKED"},
           token : Token \cup {NoToken, Denied, Locked}]

Nothing == [state |-> "NO_RESULT_YET", token |-> NoToken]
Error   == [state |-> "RESULT_IS_EXCEPTION", token |-> NoToken]
Value(t) == [state |-> "RESULT_IS_VALUE", token |-> t]

\* The token that locks the object after operation o with token t.
OwnerAfter(o, t, owner) ==
  CASE o = "ACQUIRE" /\ owner = NoToken -> t
    [] o = "RELEASE" /\ owner = t       -> NoToken
    [] o = "FORCE_RELEASE"              -> NoToken
    [] OTHER                            -> owner

\* The answer of operation o with token t on an object locked by owner.
Decision(o, t, owner) ==
  CASE o = "METHOD"  -> IF owner \in {NoToken, t} THEN Value(NoToken)
                        ELSE [state |-> "OBJECT_IS_LOCKED", token |-> NoToken]
    [] o = "ACQUIRE" -> Value(IF owner \in {NoToken, t} THEN t ELSE Denied)
    [] o = "RELEASE" -> Value(IF owner \in {NoToken, t} THEN NoToken ELSE Denied)
    [] o = "FORCE_RELEASE" -> Value(NoToken)
    [] o = "QUERY"   -> Value(IF owner = NoToken THEN NoToken ELSE Locked)

VARIABLES phase,    \* phase[r]: "idle", "pending", "applied" or "dropped"
          asked,    \* asked[r]: operation and token of an invoked call
          verdict,  \* verdict[r]: what the object decided for an applied call
          answered, \* answered[r]: what the caller has been told
          owner     \* token that locks the object

vars == <<phase, asked, verdict, answered, owner>>

Init ==
  /\ phase = [r \in Call |-> "idle"]
  /\ asked = [r \in Call |-> [op |-> "none", token |-> NoToken]]
  /\ verdict = [r \in Call |-> Nothing]
  /\ answered = [r \in Call |-> Nothing]
  /\ owner = NoToken

Invoke(r) ==
  /\ phase[r] = "idle"
  /\ phase' = [phase EXCEPT ![r] = "pending"]
  /\ \E o \in Op, t \in Token \cup {NoToken} :
        asked' = [asked EXCEPT ![r] = [op |-> o, token |-> t]]
  /\ UNCHANGED <<verdict, answered, owner>>

Apply(r) ==
  /\ phase[r] = "pending"
  /\ phase' = [phase EXCEPT ![r] = "applied"]
  /\ verdict' = [verdict EXCEPT ![r] = Decision(asked[r].op, asked[r].token, owner)]
  /\ owner' = OwnerAfter(asked[r].op, asked[r].token, owner)
  /\ UNCHANGED <<asked, answered>>

Respond(r) ==
  /\ phase[r] = "applied"
  /\ answered[r] = Nothing
  /\ answered' = [answered EXCEPT ![r] = verdict[r]]
  /\ UNCHANGED <<phase, asked, verdict, owner>>

\* Some calls that have not taken effect never will, and some callers that have
\* no answer yet are told that delivery failed.
Break ==
  /\ phase' \in [Call -> {"idle", "pending", "applied", "dropped"}]
  /\ answered' \in [Call -> Answer]
  /\ \A r \in Call :
        /\ phase'[r] # phase[r] => phase[r] = "pending" /\ phase'[r] = "dropped"
        /\ answered'[r] # answered[r] =>
              phase[r] # "idle" /\ answered[r] = Nothing /\ answered'[r] = Error
  /\ UNCHANGED <<asked, verdict, owner>>

Next == (\E r \in Call : Invoke(r) \/ Apply(r) \/ Respond(r)) \/ Break

Spec == Init /\ [][Next]_vars

=============================================================================
