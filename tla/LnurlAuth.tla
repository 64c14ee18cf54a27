----------------------------- MODULE LnurlAuth ------------------------------
(***************************************************************************)
(* LNURL-auth of the API server: a session with a deadline is bound to the *)
(* linking key of the wallet that signs its k1.  The callback reads the    *)
(* session, checks the signature against what it read and then updates by  *)
(* k1 alone; every look past the deadline marks the session EXPIRED,       *)
(* whatever it was.  Each await lets other requests in.                    *)
(***************************************************************************)
EXTENDS Naturals, FiniteSets

CONSTANTS
  Sessions,  \* the k1 values handed out
  Keys,      \* linking keys, normalized
  Requests   \* slots for HTTP requests in flight

VARIABLES
  status,   \* LnurlAuthSession.status, or "none" before the session exists
  key,      \* LnurlAuthSession.linkingKey
  due,      \* sessions past expiresAt
  h,        \* the requests in flight, by slot
  signed,   \* what valid signatures were presented: session and key
  granted,  \* what callbacks were answered OK: session and key
  rivals    \* sessions two callbacks with different keys were about to bind at once

server == <<status, key, due, h, signed, granted, rivals>>

None == "none"

ASSUME LnurlAuthAssumption == None \notin Sessions \cup Keys

\* A status reply that carries no session: an error.
NoAnswer == [status |-> None, key |-> None]

Idle ==
  [kind |-> None, pc |-> "idle", k1 |-> None, key |-> None, valid |-> FALSE, says |-> NoAnswer]

ServerInit ==
  /\ status = [k \in Sessions |-> "none"]
  /\ key = [k \in Sessions |-> None]
  /\ due = {}
  /\ h = [t \in Requests |-> Idle]
  /\ signed = {}
  /\ granted = {}
  /\ rivals = {}

End(t) == h' = [h EXCEPT ![t] = Idle]

CreateSession(k) ==
  /\ status[k] = "none"
  /\ status' = [status EXCEPT ![k] = "PENDING"]
  /\ UNCHANGED <<key, due, h, signed, granted, rivals>>

Deadline(k) ==
  /\ status[k] # "none"
  /\ k \notin due
  /\ due' = due \cup {k}
  /\ UNCHANGED <<status, key, h, signed, granted, rivals>>

\* GET /api/lnurl-auth/status/:k1 arrives.
StartStatus(t, k) ==
  /\ h[t] = Idle
  /\ status[k] # "none"
  /\ h' = [h EXCEPT ![t] = [Idle EXCEPT !.kind = "status", !.pc = "look", !.k1 = k]]
  /\ UNCHANGED <<status, key, due, signed, granted, rivals>>

\* GET /api/lnurl-auth/callback arrives, with a signature by key x or a wrong one.
StartCallback(t, k, x, valid) ==
  /\ h[t] = Idle
  /\ status[k] # "none"
  /\ h' = [h EXCEPT ![t] =
             [kind |-> "callback", pc |-> "look", k1 |-> k, key |-> x, valid |-> valid,
              says |-> NoAnswer]]
  /\ signed' = IF valid THEN signed \cup {[k1 |-> k, key |-> x]} ELSE signed
  /\ UNCHANGED <<status, key, due, granted, rivals>>

MustExpire(k) == k \in due /\ status[k] # "EXPIRED"

Answer(k, s) == [status |-> s, key |-> key[k]]

\* Seeded fault: the schema of the reply does not name linkingKey.
SayWithoutKey(t, k, s) ==
  h' = [h EXCEPT ![t].pc = "reply", ![t].says = [status |-> s, key |-> None]]

\* The status reply, which the client receives some time later.
Say(t, k, s) == h' = [h EXCEPT ![t].pc = "reply", ![t].says = Answer(k, s)]

\* Seeded fault: the signature is not looked at.
MayBindUnsigned(t, k) == status[k] = "PENDING"

\* Seeded fault: a verified session is bound like a pending one.
MayBindAgain(t, k) == h[t].valid /\ status[k] \in {"PENDING", "VERIFIED"}

\* The callback goes on to bind a pending session if the signature is right.
MayBind(t, k) == h[t].valid /\ status[k] = "PENDING"

\* The session's own key once more, rightly signed, is answered OK as well.
IsRepeat(t, k) == h[t].valid /\ status[k] = "VERIFIED" /\ key[k] = h[t].key

Rival(t, k) ==
  \E u \in Requests : h[u].pc = "bind" /\ h[u].k1 = k /\ h[u].key # h[t].key

Look(t) ==
  LET k == h[t].k1 IN
  /\ h[t].pc = "look"
  /\ IF MustExpire(k)
     THEN h' = [h EXCEPT ![t].pc = "expire"] /\ UNCHANGED <<granted, rivals>>
     ELSE IF h[t].kind = "status"
     THEN Say(t, k, status[k]) /\ UNCHANGED <<granted, rivals>>
     ELSE IF MayBind(t, k)
     THEN /\ h' = [h EXCEPT ![t].pc = "bind"]
          /\ rivals' = IF Rival(t, k) THEN rivals \cup {k} ELSE rivals
          /\ UNCHANGED granted
     ELSE /\ End(t)
          /\ granted' = IF IsRepeat(t, k) THEN granted \cup {[k1 |-> k, key |-> h[t].key]}
                        ELSE granted
          /\ UNCHANGED rivals
  /\ UNCHANGED <<status, key, due, signed>>

Expire(t) ==
  LET k == h[t].k1 IN
  /\ h[t].pc = "expire"
  /\ status' = [status EXCEPT ![k] = "EXPIRED"]
  /\ IF h[t].kind = "status" THEN Say(t, k, "EXPIRED") ELSE End(t)
  /\ UNCHANGED <<key, due, signed, granted, rivals>>

\* The update to VERIFIED, whatever the session has become since it was read.
Bind(t) ==
  LET k == h[t].k1 IN
  /\ h[t].pc = "bind"
  /\ status' = [status EXCEPT ![k] = "VERIFIED"]
  /\ key' = [key EXCEPT ![k] = h[t].key]
  /\ granted' = granted \cup {[k1 |-> k, key |-> h[t].key]}
  /\ End(t)
  /\ UNCHANGED <<due, signed, rivals>>

\* A database call throws, before its update took effect or after: an error reply.
DatabaseFails(t) ==
  LET k == h[t].k1 IN
  /\ h[t].pc \in {"look", "expire", "bind"}
  /\ \/ UNCHANGED <<status, key>>
     \/ h[t].pc = "expire" /\ status' = [status EXCEPT ![k] = "EXPIRED"] /\ UNCHANGED key
     \/ /\ h[t].pc = "bind"
        /\ status' = [status EXCEPT ![k] = "VERIFIED"]
        /\ key' = [key EXCEPT ![k] = h[t].key]
  /\ IF h[t].kind = "status" THEN h' = [h EXCEPT ![t].pc = "reply", ![t].says = NoAnswer]
     ELSE End(t)
  /\ UNCHANGED <<due, signed, granted, rivals>>

\* The process dies and comes back; the requests in flight fail.
Crash ==
  /\ h' = [t \in Requests |->
             IF h[t].kind = "status" /\ h[t].pc # "reply"
             THEN [h[t] EXCEPT !.pc = "reply", !.says = NoAnswer]
             ELSE IF h[t].kind = "callback" THEN Idle ELSE h[t]]
  /\ UNCHANGED <<status, key, due, signed, granted, rivals>>

Serving(t) == Look(t) \/ Expire(t) \/ Bind(t) \/ DatabaseFails(t)

\* Wallets, time and failures: what happens to the server beside its clients.
Outside ==
  \/ \E k \in Sessions : Deadline(k)
  \/ \E t \in Requests, k \in Sessions, x \in Keys, valid \in BOOLEAN :
       StartCallback(t, k, x, valid)
  \/ Crash

-----------------------------------------------------------------------------
(* Properties *)

Request ==
  [kind : {"status", "callback"}, pc : {"look", "expire", "bind", "reply"},
   k1 : Sessions, key : Keys \cup {None}, valid : BOOLEAN,
   says : [status : {"PENDING", "VERIFIED", "EXPIRED"}, key : Keys \cup {None}] \cup {NoAnswer}]

\* Types, and that a session is verified with a key and bound with a signature.
ServerTypeOK ==
  /\ status \in [Sessions -> {"none", "PENDING", "VERIFIED", "EXPIRED"}]
  /\ key \in [Sessions -> Keys \cup {None}]
  /\ \A k \in Sessions : status[k] = "VERIFIED" => key[k] # None
  /\ due \subseteq Sessions
  /\ h \in [Requests -> Request \cup {Idle}]
  /\ \A t \in Requests : h[t].pc = "bind" => h[t].key # None /\ h[t].valid
  /\ signed \subseteq [k1 : Sessions, key : Keys]
  /\ granted \subseteq signed
  /\ rivals \subseteq Sessions

\* A wallet that was answered OK is the one the session belongs to, expired or not,
\* unless another key was on its way into the same session at the same time.
GrantedKeyStays == \A g \in granted : g.k1 \notin rivals => key[g.k1] = g.key

=============================================================================
